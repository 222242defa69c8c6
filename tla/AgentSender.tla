------------------------------ MODULE AgentSender ------------------------------
(***************************************************************************)
(* How an agent delivers: Runner (internal/agent/runner.go), Sender        *)
(* (sender.go) and the retry policy (retry.go), as main_linux.go runs them *)
(* in its modes run, --once and --ingestion-preflight.                     *)
(*                                                                         *)
(* A cycle collects one envelope and offers it to the replicas in their    *)
(* configured order, up to MaxAttempts passes over the list.  A replica    *)
(* whose circuit is open is passed over.  An open circuit is kept as the   *)
(* time that is left until OpenUntil; 0 means the replica may be tried.    *)
(***************************************************************************)
EXTENDS Naturals

CONSTANTS
    Last,           \* replicas are 1..Last, the preferred one first
    Threshold,      \* failureThreshold
    Cooldown,       \* cooldown, in ticks
    MaxAttempts     \* RetryPolicy.MaxAttempts

ASSUME SenderAssumption ==
    Last \in Nat \ {0} /\ Threshold \in Nat \ {0} /\ Cooldown \in Nat \ {0}
    /\ MaxAttempts \in Nat \ {0}

Replica == 1..Last
Mode    == {"run", "once", "preflight"}

VARIABLES
    mode,       \* what the process was started for
    cancelled,  \* SIGTERM or SIGINT was received
    pc,         \* where the agent is
    at,         \* the replica the pass has reached
    attempt,    \* passes made before this one
    due,        \* the ticker's channel holds a tick
    failures,   \* circuits[e].Failures
    openFor,    \* time left until circuits[e].OpenUntil
    outcome,    \* how the last cycle ended
    via,        \* the replica that took the last delivered envelope, or 0
    health,     \* what each replica answers just now
    streak,     \* history: failures in a row, from 1 again after Threshold
    quiet,      \* history: time since e's last failure, up to Cooldown
    denied,     \* history: this envelope was refused with a client error
    tried       \* history: this envelope was offered to the preferred replica

agent   == <<mode, cancelled, pc, at, attempt, due>>
circuit == <<failures, openFor>>
result  == <<outcome, via>>
past    == <<streak, quiet, denied, tried>>
vars    == <<agent, circuit, result, health, past>>

Places   == {"waiting", "collecting", "choosing", "requesting", "sleeping", "stopped"}
Outcomes == {"none", "delivered", "denied", "unavailable", "uncollected", "cancelled"}
Health   == {"up", "failing", "denying"}

TypeOK ==
    /\ mode \in Mode
    /\ cancelled \in BOOLEAN
    /\ pc \in Places
    /\ at \in 1..(Last + 1)
    /\ attempt \in 0..(MaxAttempts - 1)
    /\ due \in BOOLEAN
    /\ failures \in [Replica -> 0..(Threshold - 1)]
    /\ openFor \in [Replica -> 0..Cooldown]
    /\ outcome \in Outcomes
    /\ via \in 0..Last
    /\ health \in [Replica -> Health]
    /\ streak \in [Replica -> 0..Threshold]
    /\ quiet \in [Replica -> 0..Cooldown]
    /\ denied \in BOOLEAN /\ tried \in BOOLEAN

Init ==
    /\ mode \in Mode
    /\ cancelled = FALSE
    /\ pc = IF mode = "preflight" THEN "choosing" ELSE "collecting"
    /\ at = 1
    /\ attempt = 0
    /\ due = FALSE
    /\ failures = [e \in Replica |-> 0]
    /\ openFor = [e \in Replica |-> 0]
    /\ outcome = "none"
    /\ via = 0
    /\ health \in [Replica -> Health]
    /\ streak = [e \in Replica |-> 0]
    /\ quiet = [e \in Replica |-> 0]
    /\ denied = FALSE /\ tried = FALSE
-----------------------------------------------------------------------------
(* Run goes back to its ticker; the other modes exit.                      *)
EndCycle(how) ==
    /\ outcome' = how
    /\ pc' = IF mode = "run" THEN "waiting" ELSE "stopped"

\* mutant: a pass may start at any replica
StartAnywhere ==
    /\ at' \in Replica
    /\ pc' = "choosing"

StartPass ==
    /\ at' = 1
    /\ pc' = "choosing"

\* mutant: Failures is not reset when the circuit opens
RecordFailureUnreset(e) ==
    LET trips == failures[e] + 1 >= Threshold
    IN  /\ failures' = IF trips THEN failures ELSE [failures EXCEPT ![e] = @ + 1]
        /\ openFor' = IF trips THEN [openFor EXCEPT ![e] = Cooldown] ELSE openFor
        /\ streak' = [streak EXCEPT ![e] = IF @ = Threshold THEN 1 ELSE @ + 1]
        /\ quiet' = [quiet EXCEPT ![e] = 0]

RecordTransientFailure(e) ==
    LET trips == failures[e] + 1 >= Threshold
    IN  /\ failures' = [failures EXCEPT ![e] = IF trips THEN 0 ELSE @ + 1]
        /\ openFor' = IF trips THEN [openFor EXCEPT ![e] = Cooldown] ELSE openFor
        /\ streak' = [streak EXCEPT ![e] = IF @ = Threshold THEN 1 ELSE @ + 1]
        /\ quiet' = [quiet EXCEPT ![e] = 0]

RecordSuccess(e) ==
    /\ failures' = [failures EXCEPT ![e] = 0]
    /\ openFor' = [openFor EXCEPT ![e] = 0]
    /\ streak' = [streak EXCEPT ![e] = 0]
    /\ UNCHANGED quiet
-----------------------------------------------------------------------------
(* CollectOnce has samples and a sequence number.                          *)
CollectSucceeds ==
    /\ pc = "collecting"
    /\ StartPass
    /\ attempt' = 0
    /\ denied' = FALSE /\ tried' = FALSE
    /\ UNCHANGED <<mode, cancelled, due, circuit, result, health, streak, quiet>>

(* No collector returned a sample, SequenceStore.Next failed, or Send      *)
(* could not encode the envelope: an error that is not retried, returned   *)
(* before any circuit is looked at, and the same in every pass.            *)
CollectFails ==
    /\ pc = "collecting"
    /\ EndCycle("uncollected")
    /\ UNCHANGED <<mode, cancelled, at, attempt, due, circuit, via, health, past>>

(* endpointAvailable is false.                                             *)
PassOver ==
    /\ pc = "choosing"
    /\ at \in Replica
    /\ openFor[at] > 0
    /\ at' = at + 1
    /\ UNCHANGED <<mode, cancelled, pc, attempt, due, circuit, result, health, past>>

(* The request cannot fail to be made: the configuration only accepts      *)
(* endpoints that parse.                                                   *)
Contact ==
    /\ pc = "choosing"
    /\ at \in Replica
    /\ openFor[at] = 0
    /\ pc' = "requesting"
    /\ tried' = (tried \/ at = 1)
    /\ UNCHANGED <<mode, cancelled, at, attempt, due, circuit, result, health,
                   streak, quiet, denied>>

(* A 2xx answer to Send, or an authenticated identity to Preflight.        *)
Accepted ==
    /\ pc = "requesting"
    /\ health[at] = "up"
    /\ RecordSuccess(at)
    /\ via' = at
    /\ EndCycle("delivered")
    /\ UNCHANGED <<mode, cancelled, at, attempt, due, health, denied, tried>>

\* mutant: a client error is handled as a transient one
RefusedMovesOn ==
    /\ pc = "requesting"
    /\ health[at] = "denying"
    /\ RecordTransientFailure(at)
    /\ at' = at + 1
    /\ pc' = "choosing"
    /\ denied' = TRUE
    /\ UNCHANGED <<mode, cancelled, attempt, due, result, health, tried>>

(* A 4xx answer other than 429: neither another replica nor a retry.       *)
Refused ==
    /\ pc = "requesting"
    /\ health[at] = "denying"
    /\ denied' = TRUE
    /\ EndCycle("denied")
    /\ UNCHANGED <<mode, cancelled, at, attempt, due, circuit, via, health,
                   streak, quiet, tried>>

(* No connection, a timeout, 429, 5xx or a redirect; or the context of the *)
(* request was cancelled.                                                  *)
TransientlyFailed ==
    /\ pc = "requesting"
    /\ health[at] = "failing" \/ cancelled
    /\ RecordTransientFailure(at)
    /\ at' = at + 1
    /\ pc' = "choosing"
    /\ UNCHANGED <<mode, cancelled, attempt, due, result, health, denied, tried>>

(* The pass found no replica: sendWithRetry sleeps or gives the envelope up.*)
PassEnds ==
    /\ pc = "choosing"
    /\ at = Last + 1
    /\ IF mode # "preflight" /\ attempt < MaxAttempts - 1
       THEN pc' = "sleeping" /\ UNCHANGED outcome
       ELSE EndCycle("unavailable")
    /\ UNCHANGED <<mode, cancelled, at, attempt, due, circuit, via, health, past>>

\* mutant: the attempt is not counted
RetryForever ==
    /\ pc = "sleeping"
    /\ StartPass
    /\ UNCHANGED <<mode, cancelled, attempt, due, circuit, result, health, past>>

Retry ==
    /\ pc = "sleeping"
    /\ StartPass
    /\ attempt' = attempt + 1
    /\ UNCHANGED <<mode, cancelled, due, circuit, result, health, past>>

SleepCancelled ==
    /\ pc = "sleeping"
    /\ cancelled
    /\ EndCycle("cancelled")
    /\ UNCHANGED <<mode, cancelled, at, attempt, due, circuit, via, health, past>>

(* The two branches of Run's select.                                       *)
NextCycle ==
    /\ pc = "waiting"
    /\ due
    /\ due' = FALSE
    /\ pc' = "collecting"
    /\ UNCHANGED <<mode, cancelled, at, attempt, circuit, result, health, past>>

Stop ==
    /\ pc = "waiting"
    /\ cancelled
    /\ pc' = "stopped"
    /\ UNCHANGED <<mode, cancelled, at, attempt, due, circuit, result, health, past>>
-----------------------------------------------------------------------------
(* The ticker's channel holds one tick; further ones are dropped.  Run     *)
(* makes the ticker after its first cycle, which only delays the second.   *)
TickerFires ==
    /\ mode = "run"
    /\ pc # "stopped"
    /\ due' = TRUE
    /\ UNCHANGED <<mode, cancelled, pc, at, attempt, circuit, result, health, past>>

Cancel ==
    /\ pc # "stopped"
    /\ cancelled' = TRUE
    /\ UNCHANGED <<mode, pc, at, attempt, due, circuit, result, health, past>>

ChangeHealth ==
    /\ health' \in [Replica -> Health]
    /\ UNCHANGED <<agent, circuit, result, past>>

Tick ==
    /\ \E e \in Replica : openFor[e] > 0 \/ quiet[e] < Cooldown
    /\ openFor' = [e \in Replica |-> IF openFor[e] > 0 THEN openFor[e] - 1 ELSE 0]
    /\ quiet' = [e \in Replica |-> IF quiet[e] < Cooldown THEN quiet[e] + 1 ELSE Cooldown]
    /\ UNCHANGED <<agent, failures, result, health, streak, denied, tried>>

Answered == Accepted \/ Refused \/ TransientlyFailed
Proceed  == PassOver \/ Contact \/ PassEnds \/ Retry \/ NextCycle

Next ==
    \/ CollectSucceeds \/ CollectFails
    \/ PassOver \/ Contact \/ PassEnds \/ Retry \/ NextCycle
    \/ Accepted \/ Refused \/ TransientlyFailed
    \/ SleepCancelled \/ Stop
    \/ TickerFires \/ Cancel \/ ChangeHealth \/ Tick

Spec == Init /\ [][Next]_vars

(* The process runs, its HTTP client answers within its timeout, time      *)
(* passes, and collection does not fail for ever; select picks among its   *)
(* ready branches at random, so it does not ignore Done for ever.          *)
Fairness ==
    /\ WF_vars(CollectSucceeds \/ CollectFails) /\ SF_vars(CollectSucceeds)
    /\ WF_vars(Proceed) /\ WF_vars(Answered)
    /\ SF_vars(Stop)
    /\ WF_vars(TickerFires) /\ WF_vars(Tick)

FairSpec == Spec /\ Fairness
-----------------------------------------------------------------------------
(* The circuit breaker is exact: a circuit is open only for the cooldown   *)
(* after Threshold failures in a row with no success between them, and for *)
(* all of it, whichever envelopes and passes those failures belong to.     *)
BreakerExact ==
    \A e \in Replica :
        openFor[e] = IF streak[e] = Threshold THEN Cooldown - quiet[e] ELSE 0

(* "can fail over to Asus only after a transient transport or server       *)
(* failure" (framework-asus-install.md): whenever a replica is contacted,  *)
(* the last answer of each replica before it in the order was such a one.  *)
FailoverJustified ==
    pc = "requesting" => \A e \in Replica : e < at => streak[e] > 0

(* "Client and authorization failures fail closed" (Send): an envelope     *)
(* refused with a client error is offered to no replica again.             *)
DenialIsFinal == pc \in {"requesting", "sleeping"} => ~ denied

(* "Send always tries the preferred endpoint first" (sender.go), "must     *)
(* test the preferred endpoint on each cycle"                              *)
(* (manual-install-framework-asus-v2.md): no envelope goes to another      *)
(* replica before the preferred one was offered it.  The code passes over  *)
(* a preferred replica whose circuit an earlier cycle has opened.          *)
PreferredTestedEachCycle == pc = "requesting" => tried

(* Failover and failback: once the first healthy replica of the order is   *)
(* stable, and those before it fail, it takes every envelope.              *)
SettlesOnFirstHealthy ==
    \A e \in Replica :
        <>[](/\ mode = "run" /\ ~ cancelled /\ health[e] = "up"
             /\ \A d \in Replica : d < e => health[d] = "failing")
        => <>[](via = e)

(* A cycle ends, whatever the replicas do.                                 *)
EveryCycleEnds == pc = "collecting" ~> pc \in {"waiting", "stopped"}

(* SIGTERM ends the process from wherever it is.                           *)
StopsWhenTold == cancelled ~> pc = "stopped"
=============================================================================
