------------------------------- MODULE Console -------------------------------
(***************************************************************************)
(* The fleet console: the procedures of server/nodescope/router.ts over    *)
(* the state the server process keeps in memory, and the pages of          *)
(* client/src/pages in browser tabs that read it by polling and change it  *)
(* by mutations.                                                           *)
(*                                                                         *)
(* A handler runs without interruption, so it is one step; a request, its  *)
(* handling and the arrival of its answer are three.  A page reads one     *)
(* query (a host's page two, which the client sends as one batch).  A tab  *)
(* leaves its page and comes back while what it read is still cached; that *)
(* pages share the overview's query adds nothing to this.                  *)
(*                                                                         *)
(* The snapshot of fixtures.ts is constant: hosts, the alerts, which are   *)
(* all active, and one discovered runtime on every host.  Signing in is    *)
(* the subject of ConsoleSession: here every tab has a user.               *)
(***************************************************************************)
EXTENDS Integers, Sequences, FiniteSets, FiniteSetsExt

CONSTANTS
    Tabs,           \* browser tabs looked at, each with its user
    Hosts,          \* hosts of the snapshot
    Overridden,     \* the hosts with an interval of their own at start
    Alerts,         \* alerts of the snapshot
    Inputs,         \* numbers an operator types as an interval
    AuditLimit,     \* how many audit entries a page asks for
    MaxEdits,       \* bound: edits of a page's fields while it is mounted
    MaxChanges,     \* bound: changes carried out
    MaxRestarts     \* bound: restarts of the server process

ASSUME ConsoleAssumption ==
    /\ IsFiniteSet(Tabs)
    /\ Overridden \subseteq Hosts /\ Hosts \cap {"global", "enabled", "duration"} = {}
    /\ Inputs \subseteq Int /\ AuditLimit \in Nat \ {0}
    /\ MaxEdits \in Nat /\ MaxChanges \in Nat /\ MaxRestarts \in Nat

VARIABLES
    role,       \* role of each tab's user
    interval,   \* globalIntervalSeconds and hostOverrides (0: none)
    acked,      \* acknowledgedAlerts
    rule,       \* one of the alertRules: its fields
    approved,   \* approvedRuntimeIds
    audits,     \* audits, newest first
    up,         \* the server is reachable
    restarts,   \* restarts so far
    page,       \* the page each tab shows
    cache,      \* result of the page's query, and whether its last fetch failed
    fetch,      \* the query's fetch under way
    form,       \* what the page keeps of its own
    call,       \* the tab's mutation under way
    now,        \* history: changes and restarts so far
    touched,    \* history: when each setting was last changed
    told        \* history: latest own change a tab was told had succeeded

server  == <<interval, acked, rule, approved, audits>>
browser == <<page, cache, fetch, form, call>>
past    == <<now, touched, told>>
vars    == <<role, server, up, restarts, browser, past>>

Roles    == {"user", "admin"}
Scopes   == Hosts \cup {"global"}
Fields   == {"enabled", "duration"}
Settings == Scopes \cup Fields

(* "stranger" is the page of a host by an identifier no host has.          *)
Pages == {"fleet", "hosts", "alerts", "operations", "host", "stranger", "administration", "rules"}
Query == [p \in Pages |-> IF p \in {"fleet", "hosts", "alerts", "operations"} THEN "overview" ELSE p]
(* refetchInterval is set for every query but the list of rules.           *)
Polled == {p \in Pages : p # "rules"}

(* The defaults the server process starts with.                            *)
DefaultInterval == [s \in Scopes |-> IF s = "global" THEN 5 ELSE IF s \in Overridden THEN 10 ELSE 0]
DefaultRule     == [enabled |-> 1, duration |-> 2]

(* The snapshot: its hosts, its alerts, all active, and the endpoint of    *)
(* the one discovered runtime of each host, plain http on that host.       *)
buildFleetSnapshot ==
    [hosts    |-> Hosts,
     alerts   |-> Alerts,
     runtimes |-> {[host |-> h, scheme |-> "http", loopback |-> FALSE] : h \in Hosts}]
Candidates == buildFleetSnapshot.runtimes

Effective(intervals, s) == IF intervals[s] = 0 THEN intervals["global"] ELSE intervals[s]

NoData   == [at |-> 0]
NoFetch  == [at |-> "none", data |-> NoData]
NoChange == [kind |-> "none"]
NoCall   == [at |-> "none", change |-> NoChange, base |-> 0, edited |-> {}, done |-> 0]
(* useState of OperationsPage and of AlertRulesPage, when mounted.  The    *)
(* seconds are a constant, not read from the server: a form has no date    *)
(* (base) before something was filled in from what the page had read.      *)
NewForm  == [scope |-> "global", seconds |-> 5, reviewed |-> FALSE,
             draft |-> <<>>, base |-> 0, edited |-> {}, edits |-> 0]

TypeOK ==
    /\ role \in [Tabs -> Roles]
    /\ interval \in [Scopes -> 0..60] /\ interval["global"] # 0
    /\ acked \subseteq Alerts
    /\ rule.enabled \in 0..1 /\ rule.duration \in 1..2
    /\ approved \subseteq 2..now
    /\ Len(audits) <= MaxChanges
    /\ up \in BOOLEAN /\ restarts \in 0..MaxRestarts
    /\ page \in [Tabs -> Pages]
    /\ \A t \in Tabs : /\ cache[t].data.at <= now /\ cache[t].failed \in BOOLEAN
                       /\ fetch[t].at \in {"none", "sent", "answered", "refused"}
                       /\ call[t].at \in {"none", "sent", "done", "refused"}
                       /\ form[t].scope \in Scopes /\ form[t].seconds \in 1..60
    /\ told \in [Tabs -> [{"overview", "rules"} -> 0..now]]
    /\ touched \in [Settings -> 1..now]

ServerStarts ==
    /\ interval' = DefaultInterval /\ acked' = {} /\ rule' = DefaultRule
    /\ approved' = {} /\ audits' = <<>>

Init ==
    /\ role \in [Tabs -> Roles]
    /\ interval = DefaultInterval /\ acked = {} /\ rule = DefaultRule
    /\ approved = {} /\ audits = <<>>
    /\ up \in BOOLEAN /\ restarts = 0
    /\ page \in [Tabs -> Pages]
    /\ cache = [t \in Tabs |-> [data |-> NoData, failed |-> FALSE]]
    /\ fetch = [t \in Tabs |-> [at |-> "sent", data |-> NoData]]
    /\ form = [t \in Tabs |-> NewForm]
    /\ call = [t \in Tabs |-> NoCall]
    /\ now = 1
    /\ touched = [s \in Settings |-> 1]
    /\ told = [t \in Tabs |-> [q \in {"overview", "rules"} |-> 0]]
-----------------------------------------------------------------------------
(* The procedures.                                                         *)

nodeScopeRoleForTemplateUser(r) == IF r = "admin" THEN "administrator" ELSE "viewer"
roleRank == [viewer |-> 1, operator |-> 2, administrator |-> 3]

(* The role each mutation's procedure asks for.                            *)
MinimumRole(kind) == IF kind \in {"approve", "backup"} THEN "administrator" ELSE "operator"

requireNodeScopeRole(r, minimum) ==
    roleRank[nodeScopeRoleForTemplateUser(r)] >= roleRank[minimum]

validateRuntimeApprovalEndpoint(e) ==
    \/ e.scheme = "https"
    \/ e.scheme = "http" /\ e.loopback

requireHost(h) == h \in buildFleetSnapshot.hosts

(* The input is well formed, and what it names exists.                     *)
Accepted(change) ==
    CASE change.kind = "acknowledge" -> change.alert \in buildFleetSnapshot.alerts
      [] change.kind = "interval"    -> (change.scope = "global" \/ requireHost(change.scope)) /\ change.seconds \in 1..60
      [] change.kind = "save"        -> change.rule.duration >= 1
      [] change.kind = "baseline"    -> requireHost(change.host) /\ change.reviewed
      [] change.kind = "approve"     -> requireHost(change.endpoint.host)
                                        /\ validateRuntimeApprovalEndpoint(change.endpoint)
      [] change.kind = "backup"      -> TRUE

(* A random UUID stands in for no other: the number of the change.         *)
candidateId == now + 1

(* What an entry records of a change; of a rule not what was changed.      *)
createAudit(actor, change) ==
    [actor |-> actor, kind |-> change.kind,
     target |-> CASE change.kind = "acknowledge" -> change.alert
                  [] change.kind = "interval"    -> change.scope
                  [] change.kind = "baseline"    -> change.host
                  [] change.kind = "approve"     -> candidateId
                  [] OTHER                       -> "none",
     seconds |-> IF change.kind = "interval" THEN change.seconds ELSE 0,
     outcome |-> IF change.kind = "backup" THEN "intent" ELSE "completed"]

(* The settings a change writes.                                           *)
Written(change) ==
    CASE change.kind = "interval" -> {change.scope}
      [] change.kind = "save"     -> Fields
      [] OTHER                    -> {}

\* mutant: an interval of a host's own is set without an entry
ApplyUnaudited(actor, change) ==
    /\ interval' = IF change.kind = "interval"
                   THEN [interval EXCEPT ![change.scope] = change.seconds] ELSE interval
    /\ acked' = IF change.kind = "acknowledge" THEN acked \cup {change.alert} ELSE acked
    /\ rule' = IF change.kind = "save" THEN change.rule ELSE rule
    /\ approved' = IF change.kind = "approve" THEN approved \cup {candidateId} ELSE approved
    /\ audits' = IF change.kind = "interval" /\ change.scope # "global"
                 THEN audits ELSE <<createAudit(actor, change)>> \o audits
    /\ now' = now + 1
    /\ touched' = [s \in Settings |-> IF s \in Written(change) THEN now' ELSE touched[s]]

(* acknowledge, setCollectionInterval, rules.save, refreshStorageBaseline, *)
(* approve, initiate: carried out and entered in the audit trail.          *)
Apply(actor, change) ==
    /\ interval' = IF change.kind = "interval"
                   THEN [interval EXCEPT ![change.scope] = change.seconds] ELSE interval
    /\ acked' = IF change.kind = "acknowledge" THEN acked \cup {change.alert} ELSE acked
    /\ rule' = IF change.kind = "save" THEN change.rule ELSE rule
    /\ approved' = IF change.kind = "approve" THEN approved \cup {candidateId} ELSE approved
    /\ audits' = <<createAudit(actor, change)>> \o audits
    /\ now' = now + 1
    /\ touched' = [s \in Settings |-> IF s \in Written(change) THEN now' ELSE touched[s]]

Handle(t) ==
    LET change == call[t].change IN
    /\ up /\ call[t].at = "sent"
    /\ requireNodeScopeRole(role[t], MinimumRole(change.kind)) /\ Accepted(change)
    /\ Apply(t, change)
    /\ call' = [call EXCEPT ![t].at = "done", ![t].done = now']
    /\ UNCHANGED <<role, up, restarts, page, cache, fetch, form, told>>

(* Whoever else uses the server, through whatever client.                  *)
Endpoints == [host : Hosts, scheme : {"http", "https"}, loopback : BOOLEAN]

OtherOperator ==
    \E r \in Roles :
    \E change \in   [kind : {"acknowledge"}, alert : Alerts]
              \cup [kind : {"interval"}, scope : Scopes, seconds : {1}]
              \cup [kind : {"save"}, rule : [enabled : {0}, duration : {1}]]
              \cup [kind : {"baseline"}, host : Hosts, reviewed : BOOLEAN]
              \cup [kind : {"approve"}, endpoint : Endpoints]
              \cup [kind : {"backup"}] :
        /\ now - 1 - restarts + Cardinality({t \in Tabs : call[t].at = "sent"}) < MaxChanges
        /\ requireNodeScopeRole(r, MinimumRole(change.kind)) /\ Accepted(change)
        /\ Apply(IF r = "admin" THEN "other" ELSE "viewer", change)
        /\ UNCHANGED <<role, up, restarts, browser, told>>

(* UNAUTHORIZED, FORBIDDEN, NOT_FOUND or BAD_REQUEST.                      *)
Refuse(t) ==
    LET change == call[t].change IN
    /\ up /\ call[t].at = "sent"
    /\ ~(requireNodeScopeRole(role[t], MinimumRole(change.kind)) /\ Accepted(change))
    /\ call' = [call EXCEPT ![t].at = "refused"]
    /\ UNCHANGED <<role, server, up, restarts, page, cache, fetch, form, past>>

(* overview, forHost with host, audit.list, rules.list; for a host that    *)
(* the snapshot does not have there is none.                               *)
Answer(q) ==
    CASE q = "overview"       -> [at |-> now, acked |-> acked, interval |-> interval]
      [] q = "host"           -> [at |-> now, acked |-> acked]
      [] q = "administration" -> [at |-> now, recent |-> SubSeq(audits, 1, Min({AuditLimit, Len(audits)}))]
      [] q = "rules"          -> [at |-> now, rule |-> rule]

Read(t) ==
    /\ up /\ fetch[t].at = "sent" /\ page[t] # "stranger"
    /\ fetch' = [fetch EXCEPT ![t] = [at |-> "answered", data |-> Answer(Query[page[t]])]]
    /\ UNCHANGED <<role, server, up, restarts, page, cache, form, call, past>>

(* requireHost throws NOT_FOUND.                                           *)
NotFound(t) ==
    /\ up /\ fetch[t].at = "sent" /\ page[t] = "stranger"
    /\ fetch' = [fetch EXCEPT ![t] = [at |-> "refused", data |-> NoData]]
    /\ UNCHANGED <<role, server, up, restarts, page, cache, form, call, past>>

(* The state is in memory: it is gone with the process.                    *)
Restart ==
    /\ ~up /\ restarts < MaxRestarts
    /\ ServerStarts
    /\ restarts' = restarts + 1
    /\ now' = now + 1
    /\ touched' = [s \in Settings |-> now']
    /\ UNCHANGED <<role, up, browser, told>>

ConnectionToggles ==
    /\ up' = ~up
    /\ UNCHANGED <<role, server, restarts, browser, past>>
-----------------------------------------------------------------------------
(* The query of a page.                                                    *)

\* mutant: a query that failed is not polled any more
PollUnlessFailed(t) ==
    /\ page[t] \in Polled /\ fetch[t].at = "none" /\ ~cache[t].failed
    /\ fetch' = [fetch EXCEPT ![t] = [at |-> "sent", data |-> NoData]]
    /\ UNCHANGED <<role, server, up, restarts, page, cache, form, call, past>>

Poll(t) ==
    /\ page[t] \in Polled /\ fetch[t].at = "none"
    /\ fetch' = [fetch EXCEPT ![t] = [at |-> "sent", data |-> NoData]]
    /\ UNCHANGED <<role, server, up, restarts, page, cache, form, call, past>>

(* The window gets the focus, or Refresh is pressed: the list of rules is  *)
(* read again only so.                                                     *)
Refresh(t) ==
    /\ page[t] \in {"rules", "fleet"} /\ fetch[t].at = "none"
    /\ fetch' = [fetch EXCEPT ![t] = [at |-> "sent", data |-> NoData]]
    /\ UNCHANGED <<role, server, up, restarts, page, cache, form, call, past>>

DataArrives(t) ==
    /\ up /\ fetch[t].at = "answered"
    /\ cache' = [cache EXCEPT ![t] = [data |-> fetch[t].data, failed |-> FALSE]]
    /\ fetch' = [fetch EXCEPT ![t] = NoFetch]
    /\ UNCHANGED <<role, server, up, restarts, page, form, call, past>>

(* The data of an earlier fetch are kept.                                  *)
FetchFails(t) ==
    /\ fetch[t].at = "refused" \/ (~up /\ fetch[t].at # "none")
    /\ cache' = [cache EXCEPT ![t].failed = TRUE]
    /\ fetch' = [fetch EXCEPT ![t] = NoFetch]
    /\ UNCHANGED <<role, server, up, restarts, page, form, call, past>>

(* The page is left and mounted again: what it kept of its own is gone,    *)
(* and what was read is shown while it is read again.                      *)
Remount(t) ==
    /\ form' = [form EXCEPT ![t] = NewForm]
    /\ fetch' = [fetch EXCEPT ![t] = IF @.at = "none"
                                     THEN [at |-> "sent", data |-> NoData] ELSE @]
    /\ UNCHANGED <<role, server, up, restarts, page, cache, call, past>>
-----------------------------------------------------------------------------
(* What a page does with it.                                               *)

(* FleetOverview and HostsPage hide the data of a fetch before the one     *)
(* that failed; the other pages go on showing them.                        *)
Screen(t) ==
    IF cache[t].data.at = 0 THEN "loading"
    ELSE IF cache[t].failed /\ page[t] \in {"fleet", "hosts"} THEN "error" ELSE "data"

(* Bound: an operator waits for a mutation's answer before going on.       *)
Open(t, p) == page[t] = p /\ Screen(t) = "data" /\ call[t].at = "none"

(* A button is pressed that is disabled while its mutation is under way.   *)
Mutate(t, change, base, edited) ==
    /\ call[t].at = "none"
    /\ now - 1 - restarts + Cardinality({u \in Tabs : call[u].at = "sent"}) < MaxChanges
    /\ call' = [call EXCEPT ![t] = [at |-> "sent", change |-> change,
                                    base |-> base, edited |-> edited, done |-> 0]]
    /\ UNCHANGED <<role, server, up, restarts, page, cache, fetch, form, past>>

(* AlertsPage offers the alerts it shows as active.                        *)
acknowledge(t) ==
    /\ Open(t, "alerts")
    /\ \E a \in Alerts \ cache[t].data.acked :
           Mutate(t, [kind |-> "acknowledge", alert |-> a], 0, {})

(* OperationsPage: a scope is chosen and its interval is filled in.        *)
SelectScope(t) ==
    /\ Open(t, "operations") /\ form[t].edits < MaxEdits
    /\ \E s \in Scopes :
           form' = [form EXCEPT ![t].scope = s,
                                ![t].seconds = Effective(cache[t].data.interval, s),
                                ![t].base = cache[t].data.at, ![t].edited = {}, ![t].edits = @ + 1]
    /\ UNCHANGED <<role, server, up, restarts, page, cache, fetch, call, past>>

TypeSeconds(t) ==
    /\ Open(t, "operations") /\ form[t].edits < MaxEdits
    /\ \E n \in Inputs :
           form' = [form EXCEPT ![t].seconds = Max({1, Min({60, n})}),
                                ![t].edited = {form[t].scope}, ![t].edits = @ + 1]
    /\ UNCHANGED <<role, server, up, restarts, page, cache, fetch, call, past>>

setCollectionInterval(t) ==
    /\ Open(t, "operations")
    /\ Mutate(t, [kind |-> "interval", scope |-> form[t].scope, seconds |-> form[t].seconds],
              form[t].base, form[t].edited)

(* One switch, which nothing resets, serves every host.                    *)
ReviewBaseline(t) ==
    /\ Open(t, "operations") /\ form[t].edits < MaxEdits
    /\ form' = [form EXCEPT ![t].reviewed = ~@, ![t].edits = @ + 1]
    /\ UNCHANGED <<role, server, up, restarts, page, cache, fetch, call, past>>

refreshBaseline(t) ==
    /\ Open(t, "operations") /\ form[t].reviewed
    /\ \E h \in Hosts :
           Mutate(t, [kind |-> "baseline", host |-> h, reviewed |-> form[t].reviewed], 0, {})

approveRuntime(t) ==
    /\ Open(t, "operations")
    /\ \E e \in Candidates : Mutate(t, [kind |-> "approve", endpoint |-> e], 0, {})

(* AdministrationPage shows its buttons whatever the list of entries does. *)
initiateBackup(t) ==
    /\ page[t] = "administration"
    /\ Mutate(t, [kind |-> "backup"], 0, {})

(* AlertRulesPage shows a rule's draft instead of the rule, once there is  *)
(* one, and nothing discards it.                                           *)
Shown(t) == IF form[t].draft = <<>> THEN cache[t].data.rule ELSE form[t].draft[1]

\* mutant: a draft starts from the defaults, not from the list
patchDefault(t) ==
    /\ Open(t, "rules") /\ form[t].edits < MaxEdits
    /\ \E f \in Fields, n \in 0..1 :
           form' = [form EXCEPT ![t].draft = <<[(IF @ = <<>> THEN DefaultRule ELSE @[1]) EXCEPT ![f] = n]>>,
                                ![t].base = IF form[t].draft = <<>> THEN cache[t].data.at ELSE @,
                                ![t].edited = @ \cup {f}, ![t].edits = @ + 1]
    /\ UNCHANGED <<role, server, up, restarts, page, cache, fetch, call, past>>

patch(t) ==
    /\ Open(t, "rules") /\ form[t].edits < MaxEdits
    /\ \E f \in Fields, n \in 0..1 :
           form' = [form EXCEPT ![t].draft = <<[Shown(t) EXCEPT ![f] = n]>>,
                                ![t].base = IF form[t].draft = <<>> THEN cache[t].data.at ELSE @,
                                ![t].edited = @ \cup {f}, ![t].edits = @ + 1]
    /\ UNCHANGED <<role, server, up, restarts, page, cache, fetch, call, past>>

save(t) ==
    /\ Open(t, "rules")
    /\ Mutate(t, [kind |-> "save", rule |-> Shown(t)],
              IF form[t].draft = <<>> THEN cache[t].data.at ELSE form[t].base, form[t].edited)

(* The query the success of a mutation reads again.                        *)
Refetched(kind) ==
    IF kind \in {"acknowledge", "interval"} THEN {"overview"} ELSE IF kind = "save" THEN {"rules"} ELSE {}

\* mutant: a fetch already under way serves as well
refetchJoining(t) ==
    [fetch EXCEPT ![t] = IF @.at # "none" THEN @ ELSE [at |-> "sent", data |-> NoData]]

(* refetch() gives up a fetch under way, if there are data to go on with.  *)
refetch(t) ==
    [fetch EXCEPT ![t] = IF @.at # "none" /\ cache[t].data.at = 0
                         THEN @ ELSE [at |-> "sent", data |-> NoData]]

onSuccess(t) ==
    LET queries == Refetched(call[t].change.kind) IN
    /\ up /\ call[t].at = "done"
    /\ call' = [call EXCEPT ![t] = NoCall]
    /\ fetch' = IF Query[page[t]] \in queries THEN refetch(t) ELSE fetch
    /\ told' = [told EXCEPT ![t] = [q \in DOMAIN @ |-> IF q \in queries THEN call[t].done ELSE @[q]]]
    /\ UNCHANGED <<role, server, up, restarts, page, cache, form, now, touched>>

(* Refused, or the request or its answer was lost: only a toast.           *)
onError(t) ==
    /\ call[t].at = "refused" \/ (~up /\ call[t].at \in {"sent", "done"})
    /\ call' = [call EXCEPT ![t] = NoCall]
    /\ UNCHANGED <<role, server, up, restarts, page, cache, fetch, form, past>>
-----------------------------------------------------------------------------
TabAct(t) ==
    \/ acknowledge(t) \/ SelectScope(t) \/ TypeSeconds(t) \/ setCollectionInterval(t)
    \/ ReviewBaseline(t) \/ refreshBaseline(t) \/ approveRuntime(t) \/ initiateBackup(t)
    \/ patch(t) \/ save(t) \/ Remount(t) \/ Refresh(t)

FetchSteps(t) == Read(t) \/ NotFound(t) \/ DataArrives(t) \/ FetchFails(t)
CallSteps(t)  == Handle(t) \/ Refuse(t) \/ onSuccess(t) \/ onError(t)

Next ==
    \/ \E t \in Tabs : TabAct(t) \/ Poll(t) \/ FetchSteps(t) \/ CallSteps(t)
    \/ OtherOperator \/ Restart \/ ConnectionToggles

Spec == Init /\ [][Next]_vars

(* Requests end.                                                           *)
Fairness == \A t \in Tabs : WF_vars(FetchSteps(t)) /\ WF_vars(CallSteps(t))

FairSpec == Spec /\ Fairness
-----------------------------------------------------------------------------
Entries(kind, target) ==
    {i \in DOMAIN audits : audits[i].kind = kind /\ audits[i].target = target}

(* "never alter ...; audited": the state of the server process is what its *)
(* audit trail says, entry by entry; only what a rule was changed to is    *)
(* not in the trail.                                                       *)
AuditExplains ==
    /\ acked = {a \in Alerts : Entries("acknowledge", a) # {}}
    /\ \A s \in Scopes :
           interval[s] = IF Entries("interval", s) = {} THEN DefaultInterval[s]
                         ELSE audits[Min(Entries("interval", s))].seconds
    /\ rule # DefaultRule => Entries("save", "none") # {}
    /\ approved = {audits[i].target : i \in {j \in DOMAIN audits : audits[j].kind = "approve"}}

(* No entry is of a user the role was not given to, whatever the page      *)
(* offered.                                                                *)
OnlyAdministratorsChange ==
    \A i \in DOMAIN audits :
        audits[i].actor = "other" \/ (audits[i].actor \in Tabs /\ role[audits[i].actor] = "admin")

(* Through lost answers, other operators and restarts, the server's state  *)
(* is well formed, its trail explains it, and administrators made it so.   *)
TrailIsComplete == TypeOK /\ AuditExplains /\ OnlyAdministratorsChange

(* A tab that was told its change succeeded shows it as soon as nothing is *)
(* being read, even when a poll was under way that had been answered       *)
(* before the change.                                                      *)
ToldThenShown ==
    \A t \in Tabs :
        (/\ Query[page[t]] \in DOMAIN told[t]
         /\ fetch[t].at = "none" /\ Screen(t) # "loading" /\ ~cache[t].failed)
            => cache[t].data.at >= told[t][Query[page[t]]]

Value(s) == IF s \in Fields THEN rule[s] ELSE Effective(interval, s)
LastTouched(s) ==
    IF s \in Hosts /\ interval[s] = 0 THEN Max({touched[s], touched["global"]}) ELSE touched[s]

(* A change alters a setting its operator did not edit only if someone     *)
(* else changed that setting after the operator's page read it.  There is  *)
(* one exception, which the code has: the interval field of the operations *)
(* page starts at 5 whatever the server says, so applying it untouched     *)
(* sets the global interval to 5, even over a value the page showed.       *)
NothingUndoneUnseen ==
    [][\A t \in Tabs :
          (call[t].at = "sent" /\ call'[t].at = "done")
              => \A s \in Written(call[t].change) \ call[t].edited :
                     Value(s)' # Value(s) =>
                         \/ call[t].base # 0 /\ LastTouched(s) > call[t].base
                         \/ call[t].base = 0 /\ s = "global" /\ Value(s)' = 5]_vars

(* A page that polls and stays open and in view (the fairness of Poll, as  *)
(* a hidden tab does not poll) ends up showing the current state once the  *)
(* server stays reachable: no error is for ever, and no loading screen but *)
(* that of a host which does not exist.                                    *)
PollingConverges ==
    \A t \in Tabs :
        /\ page[t] \in Polled \ {"stranger"}
        /\ WF_vars(Poll(t))
        /\ <>[]up
        => <>[](Screen(t) = "data" /\ cache[t].data.at = now)
=============================================================================
