---------------------------- MODULE ConsoleProofs ----------------------------
(***************************************************************************)
(* The safety properties of Console for any tabs, hosts, alerts and inputs *)
(* and any number of changes and restarts.                                 *)
(*                                                                         *)
(* The argument rests on dated values: whatever a page holds of a setting  *)
(* is what the server has, or the setting was written after the date the   *)
(* page's copy bears.  Every change and every restart keeps that, because  *)
(* it dates what it writes later than every copy there is.                 *)
(***************************************************************************)
EXTENDS Console, FiniteSetTheorems, TLAPS

Saved  == [enabled : 0..1, duration : 1..2]
Drafts == [enabled : 0..1, duration : 0..2]
Kinds  == {"acknowledge", "interval", "save", "baseline", "approve", "backup"}

Intervals == {i \in [Scopes -> 0..60] : i["global"] # 0}

(* What copies are compared with: the time, and the value and the date of  *)
(* every setting.                                                          *)
World == [now |-> now, value |-> [s \in Settings |-> Value(s)],
          last |-> [s \in Settings |-> LastTouched(s)]]

GoodWorld(w) == w.now \in Nat \ {0} /\ w.last \in [Settings -> 1..w.now]

(* From one world to a later one: a setting that has changed is dated      *)
(* later than the first.                                                   *)
Later(w, x) ==
    /\ w.now \in Nat /\ x.now \in Nat /\ x.now >= w.now
    /\ \A s \in Settings :
           /\ w.last[s] \in Nat /\ x.last[s] \in Nat
           /\ \/ x.value[s] = w.value[s] /\ x.last[s] >= w.last[s]
              \/ x.last[s] > w.now

(* A copy of a setting: the server's value, or outdated by a later change. *)
Current(w, s, v, date) == v = w.value[s] \/ w.last[s] > date

GoodInterval(w, data) ==
    /\ data.interval \in Intervals
    /\ \A s \in Scopes : Current(w, s, Effective(data.interval, s), data.at)

GoodRule(w, r, date, edited) ==
    \A f \in Fields \ edited : Current(w, f, r[f], date)

GoodData(w, p, data) ==
    /\ data.at \in 0..w.now
    /\ data.at # 0 /\ Query[p] = "overview" => GoodInterval(w, data)
    /\ data.at # 0 /\ Query[p] = "rules" =>
           data.rule \in Saved /\ GoodRule(w, data.rule, data.at, {})

GoodCache(w, p, ca) ==
    /\ ca = [data |-> ca.data, failed |-> ca.failed]
    /\ ca.failed \in BOOLEAN
    /\ GoodData(w, p, ca.data)

GoodFetch(w, p, fe) ==
    /\ fe.at \in {"none", "sent", "answered", "refused"}
    /\ fe.at = "answered" => GoodData(w, p, fe.data) /\ fe.data.at # 0

FormOf(fo) ==
    [scope |-> fo.scope, seconds |-> fo.seconds, reviewed |-> fo.reviewed,
     draft |-> fo.draft, base |-> fo.base, edited |-> fo.edited, edits |-> fo.edits]

(* What the interval field holds untouched: a dated copy, or the constant  *)
(* it starts with, which is no copy of anything.                           *)
Offered(w, s, v, date) ==
    \/ date # 0 /\ Current(w, s, v, date)
    \/ date = 0 /\ s = "global" /\ v = 5

GoodForm(w, p, fo) ==
    /\ fo = FormOf(fo)
    /\ fo.scope \in Scopes /\ fo.seconds \in 1..60 /\ fo.base \in 0..w.now
    /\ p = "operations" /\ fo.scope \notin fo.edited => Offered(w, fo.scope, fo.seconds, fo.base)
    /\ p = "rules" /\ fo.draft # <<>> =>
           fo.base # 0 /\ fo.draft[1] \in Drafts /\ GoodRule(w, fo.draft[1], fo.base, fo.edited)

GoodChange(w, change, base, edited) ==
    /\ change.kind \in Kinds
    /\ base \in 0..w.now
    /\ change.kind = "acknowledge" => change.alert \in Alerts
    /\ change.kind = "interval" =>
           /\ change.scope \in Scopes /\ change.seconds \in 1..60
           /\ change.scope \notin edited => Offered(w, change.scope, change.seconds, base)
    /\ change.kind = "save" =>
           base # 0 /\ change.rule \in Drafts /\ GoodRule(w, change.rule, base, edited)

CallOf(cl) == [at |-> cl.at, change |-> cl.change, base |-> cl.base,
               edited |-> cl.edited, done |-> cl.done]

GoodCall(w, cl) ==
    /\ cl = CallOf(cl)
    /\ cl.at \in {"none", "sent", "done", "refused"}
    /\ cl.done \in 0..w.now
    /\ cl.at = "sent" => GoodChange(w, cl.change, cl.base, cl.edited)

(* A fetch that has been answered, and data that nothing is going to       *)
(* replace, are of after the change the tab was last told of.  A mutation  *)
(* that reads the page's query again is sent from a page that has data.    *)
GoodTold(w, p, ca, fe, cl, to) ==
    /\ to \in [{"overview", "rules"} -> 0..w.now]
    /\ Query[p] \in {"overview", "rules"} =>
           /\ fe.at = "answered" => fe.data.at >= to[Query[p]]
           /\ fe.at = "none" /\ ca.data.at # 0 /\ ~ca.failed => ca.data.at >= to[Query[p]]
           /\ cl.at # "none" /\ Query[p] \in Refetched(cl.change.kind) => ca.data.at # 0

GoodTab(w, p, ca, fe, fo, cl, to) ==
    /\ p \in Pages
    /\ GoodCache(w, p, ca) /\ GoodFetch(w, p, fe) /\ GoodForm(w, p, fo) /\ GoodCall(w, cl)
    /\ GoodTold(w, p, ca, fe, cl, to)

TabsInv ==
    /\ page = [t \in Tabs |-> page[t]] /\ cache = [t \in Tabs |-> cache[t]]
    /\ fetch = [t \in Tabs |-> fetch[t]] /\ form = [t \in Tabs |-> form[t]]
    /\ call = [t \in Tabs |-> call[t]] /\ told = [t \in Tabs |-> told[t]]
    /\ \A t \in Tabs : GoodTab(World, page[t], cache[t], fetch[t], form[t], call[t], told[t])

(* The server's settings, dated.                                           *)
ServerInv ==
    /\ role \in [Tabs -> Roles]
    /\ up \in BOOLEAN /\ restarts \in 0..MaxRestarts
    /\ now \in Nat \ {0} /\ touched \in [Settings -> 1..now]
    /\ interval \in Intervals /\ rule \in Saved
    /\ approved \subseteq 2..now

Entry == [actor : Tabs \cup {"other"}, kind : Kinds,
          target : Alerts \cup Scopes \cup {"none"} \cup Nat, seconds : 0..60,
          outcome : {"intent", "completed"}]

(* What the trail says of a setting is what the newest entry about it      *)
(* says.                                                                   *)
Recorded(s) ==
    \/ Entries("interval", s) = {} /\ interval[s] = DefaultInterval[s]
    \/ \E i \in Entries("interval", s) :
           /\ \A j \in Entries("interval", s) : i <= j
           /\ interval[s] = audits[i].seconds

Approvals == {audits[i].target : i \in {j \in DOMAIN audits : audits[j].kind = "approve"}}

TrailInv ==
    /\ audits \in Seq(Entry)
    /\ OnlyAdministratorsChange
    /\ acked = {a \in Alerts : Entries("acknowledge", a) # {}}
    /\ \A s \in Scopes : Recorded(s)
    /\ rule # DefaultRule => Entries("save", "none") # {}
    /\ approved = Approvals

Sent == {t \in Tabs : call[t].at = "sent"}

(* The bound on changes counts those under way.                            *)
CountInv ==
    /\ Len(audits) <= now - 1 - restarts
    /\ now - 1 - restarts + Cardinality(Sent) <= MaxChanges

IndInv == ServerInv /\ TabsInv /\ TrailInv /\ CountInv
-----------------------------------------------------------------------------
(* Operators.                                                              *)

LEMMA MaxOfTwo ==
    ASSUME NEW a \in Int, NEW b \in Int
    PROVE  Max({a, b}) = IF a >= b THEN a ELSE b
  BY DEF Max

LEMMA MinOfTwo ==
    ASSUME NEW a \in Int, NEW b \in Int
    PROVE  Min({a, b}) = IF a <= b THEN a ELSE b
  BY DEF Min

LEMMA ScopesAreNotFields ==
    ASSUME NEW s \in Scopes
    PROVE  s \notin Fields
  BY ConsoleAssumption DEF Scopes, Fields

LEMMA EffectiveInRange ==
    ASSUME NEW i \in Intervals, NEW s \in Scopes
    PROVE  Effective(i, s) \in 1..60
  BY DEF Intervals, Effective, Scopes

(* An entry is put before the others.                                      *)
LEMMA PutFirst ==
    ASSUME NEW S, NEW l \in Seq(S), NEW e \in S
    PROVE  /\ <<e>> \o l \in Seq(S)
           /\ Len(<<e>> \o l) = Len(l) + 1
           /\ (<<e>> \o l)[1] = e
           /\ \A i \in 1..Len(l) : (<<e>> \o l)[i + 1] = l[i]
  OBVIOUS

LEMMA LastTouchedInRange ==
    ASSUME ServerInv, NEW s \in Settings
    PROVE  LastTouched(s) \in 1..now
<1>1. touched["global"] \in 1..now /\ touched[s] \in 1..now /\ now \in Nat
  BY DEF ServerInv, Settings, Scopes
<1> QED
  BY <1>1, MaxOfTwo DEF LastTouched

LEMMA WorldIsGood == ServerInv => GoodWorld(World)
  BY LastTouchedInRange DEF ServerInv, GoodWorld, World

LEMMA LaterItself == ASSUME NEW w, GoodWorld(w) PROVE Later(w, w)
  BY DEF GoodWorld, Later
-----------------------------------------------------------------------------
(* Copies in a later world.                                                *)

LEMMA CurrentLater ==
    ASSUME NEW w, NEW x, Later(w, x), NEW s \in Settings, NEW v, NEW date \in 0..w.now,
           Current(w, s, v, date)
    PROVE  Current(x, s, v, date)
  BY DEF Later, Current

LEMMA RuleLater ==
    ASSUME NEW w, NEW x, Later(w, x), NEW r, NEW date \in 0..w.now, NEW edited,
           GoodRule(w, r, date, edited)
    PROVE  GoodRule(x, r, date, edited)
  BY CurrentLater DEF GoodRule, Settings

LEMMA DataLater ==
    ASSUME NEW w, NEW x, Later(w, x), NEW p, NEW data, GoodData(w, p, data)
    PROVE  GoodData(x, p, data)
<1>1. data.at \in 0..w.now /\ data.at \in 0..x.now
  BY DEF GoodData, Later
<1>2. GoodInterval(w, data) => GoodInterval(x, data)
  BY <1>1, CurrentLater DEF GoodInterval, Settings
<1> QED
  BY <1>1, <1>2, RuleLater DEF GoodData

LEMMA FormLater ==
    ASSUME NEW w, NEW x, Later(w, x), NEW p, NEW fo, GoodForm(w, p, fo)
    PROVE  GoodForm(x, p, fo)
<1>1. fo.base \in 0..w.now /\ fo.base \in 0..x.now /\ fo.scope \in Settings
  BY DEF GoodForm, Later, Settings
<1>2. Offered(w, fo.scope, fo.seconds, fo.base) => Offered(x, fo.scope, fo.seconds, fo.base)
  BY <1>1, CurrentLater DEF Offered
<1> QED
  BY <1>1, <1>2, RuleLater DEF GoodForm

LEMMA CallLater ==
    ASSUME NEW w, NEW x, Later(w, x), NEW cl, GoodCall(w, cl)
    PROVE  GoodCall(x, cl)
<1>1. cl.done \in 0..x.now
  BY DEF GoodCall, Later
<1>2. ASSUME GoodChange(w, cl.change, cl.base, cl.edited)
      PROVE  GoodChange(x, cl.change, cl.base, cl.edited)
  <2>1. cl.base \in 0..w.now /\ cl.base \in 0..x.now
    BY <1>2 DEF GoodChange, Later
  <2>2. cl.change.kind = "interval" => cl.change.scope \in Settings
    BY <1>2 DEF GoodChange, Settings
  <2>3. cl.change.kind = "interval" /\ Offered(w, cl.change.scope, cl.change.seconds, cl.base)
            => Offered(x, cl.change.scope, cl.change.seconds, cl.base)
    BY <2>1, <2>2, CurrentLater DEF Offered
  <2> QED
    BY <1>2, <2>1, <2>3, RuleLater DEF GoodChange
<1> QED
  BY <1>1, <1>2 DEF GoodCall

LEMMA TabLater ==
    ASSUME NEW w, NEW x, Later(w, x), NEW p, NEW ca, NEW fe, NEW fo, NEW cl, NEW to,
           GoodTab(w, p, ca, fe, fo, cl, to)
    PROVE  GoodTab(x, p, ca, fe, fo, cl, to)
<1>1. GoodCache(x, p, ca) /\ GoodFetch(x, p, fe)
  BY DataLater DEF GoodTab, GoodCache, GoodFetch
<1>2. GoodForm(x, p, fo) /\ GoodCall(x, cl)
  BY FormLater, CallLater DEF GoodTab
<1>3. to \in [{"overview", "rules"} -> 0..x.now]
  BY DEF GoodTab, GoodTold, Later
<1> QED
  BY <1>1, <1>2, <1>3 DEF GoodTab, GoodTold

(* A step in one tab, and nothing in the others.                           *)
Elsewhere(t) ==
    /\ page' = page
    /\ cache' = [u \in Tabs |-> cache'[u]] /\ fetch' = [u \in Tabs |-> fetch'[u]]
    /\ form' = [u \in Tabs |-> form'[u]] /\ call' = [u \in Tabs |-> call'[u]]
    /\ told' = [u \in Tabs |-> told'[u]]
    /\ \A u \in Tabs \ {t} : /\ cache'[u] = cache[u] /\ fetch'[u] = fetch[u]
                             /\ form'[u] = form[u] /\ call'[u] = call[u] /\ told'[u] = told[u]

LEMMA TabsStep ==
    ASSUME TabsInv, Later(World, World'), NEW t \in Tabs, Elsewhere(t),
           GoodTab(World', page[t], cache'[t], fetch'[t], form'[t], call'[t], told'[t])
    PROVE  TabsInv'
<1>1. ASSUME NEW u \in Tabs
      PROVE  GoodTab(World', page[u], cache'[u], fetch'[u], form'[u], call'[u], told'[u])
  <2>1. CASE u = t
    BY <2>1
  <2>2. CASE u # t
    <3>1. GoodTab(World, page[u], cache[u], fetch[u], form[u], call[u], told[u])
      BY DEF TabsInv
    <3>2. GoodTab(World', page[u], cache[u], fetch[u], form[u], call[u], told[u])
      BY <3>1, TabLater
    <3> QED
      BY <2>2, <3>2 DEF Elsewhere
  <2> QED
    BY <2>1, <2>2
<1> QED
  BY <1>1 DEF TabsInv, Elsewhere

LEMMA TabsFrame ==
    ASSUME TabsInv, Later(World, World'), UNCHANGED <<browser, told>>
    PROVE  TabsInv'
<1>1. ASSUME NEW u \in Tabs
      PROVE  GoodTab(World', page[u], cache[u], fetch[u], form[u], call[u], told[u])
  BY TabLater DEF TabsInv
<1> QED
  BY <1>1 DEF TabsInv, browser

-----------------------------------------------------------------------------
(* The server carries out a change, or starts again.                       *)

GoodInput(actor, change) ==
    /\ actor = "other" \/ (actor \in Tabs /\ role[actor] = "admin")
    /\ change.kind \in Kinds
    /\ change.kind = "acknowledge" => change.alert \in Alerts
    /\ change.kind = "interval" => change.scope \in Scopes /\ change.seconds \in 1..60
    /\ change.kind = "save" => change.rule \in Saved
    /\ change.kind = "baseline" => change.host \in Hosts

LEMMA WrittenSettings ==
    ASSUME NEW change
    PROVE  /\ change.kind = "interval" => Written(change) = {change.scope}
           /\ change.kind = "save" => Written(change) = Fields
           /\ change.kind \notin {"interval", "save"} => Written(change) = {}
  BY DEF Written

LEMMA ApplyServer ==
    ASSUME ServerInv, NEW actor, NEW change, GoodInput(actor, change),
           Apply(actor, change), UNCHANGED <<role, up, restarts>>
    PROVE  ServerInv'
<1>1. now' = now + 1 /\ now \in Nat \ {0} /\ now' \in Nat \ {0}
  BY DEF ServerInv, Apply
<1>2. touched' \in [Settings -> 1..now']
  BY <1>1 DEF ServerInv, Apply
<1>3. interval' \in Intervals /\ rule' \in Saved
  <2>1. rule' \in Saved
    BY DEF ServerInv, Apply, GoodInput
  <2>2. interval \in [Scopes -> 0..60] /\ interval["global"] # 0 /\ "global" \in Scopes
    BY DEF ServerInv, Intervals, Scopes
  <2>3. CASE change.kind = "interval"
    <3>1. interval' = [interval EXCEPT ![change.scope] = change.seconds]
      BY <2>3 DEF Apply
    <3>2. change.scope \in Scopes /\ change.seconds \in 1..60
      BY <2>3 DEF GoodInput
    <3>3. interval' \in [Scopes -> 0..60] /\ interval'["global"] # 0
      BY <2>2, <3>1, <3>2
    <3> QED
      BY <2>1, <3>3 DEF Intervals
  <2>4. CASE change.kind # "interval"
    BY <2>1, <2>4 DEF ServerInv, Apply
  <2> QED
    BY <2>3, <2>4
<1>4. approved' \subseteq 2..now'
  BY <1>1 DEF ServerInv, Apply, candidateId
<1> QED
  BY <1>1, <1>2, <1>3, <1>4 DEF ServerInv

(* A change dates what it writes, and what follows from it, later than     *)
(* every copy.                                                             *)
LEMMA ApplyLater ==
    ASSUME ServerInv, NEW actor, NEW change, GoodInput(actor, change),
           Apply(actor, change), UNCHANGED <<role, up, restarts>>
    PROVE  Later(World, World')
<1>1. ServerInv'
  BY ApplyServer
<1>2. /\ now \in Nat \ {0} /\ now' = now + 1
      /\ \A s \in Settings : touched[s] \in 1..now
      /\ \A s \in Settings : touched'[s] = IF s \in Written(change) THEN now' ELSE touched[s]
  BY DEF ServerInv, Apply
<1>3. ASSUME NEW s \in Settings
      PROVE  /\ LastTouched(s) \in Nat /\ LastTouched(s)' \in Nat
             /\ \/ Value(s)' = Value(s) /\ LastTouched(s)' >= LastTouched(s)
                \/ LastTouched(s)' > now
  <2>1. LastTouched(s) \in 1..now
    BY LastTouchedInRange
  <2>2. LastTouched(s)' \in 1..now'
    <3>1. touched'["global"] \in 1..now' /\ touched'[s] \in 1..now' /\ now' \in Nat
      BY <1>1 DEF ServerInv, Settings, Scopes
    <3> QED
      BY <3>1, MaxOfTwo DEF LastTouched
  <2>3. CASE s \in Fields
    <3>1. s \notin Hosts
      BY <2>3, ScopesAreNotFields DEF Scopes
    <3>2. Value(s)' = rule'[s] /\ Value(s) = rule[s]
      BY <2>3 DEF Value
    <3>3. LastTouched(s)' = touched'[s] /\ LastTouched(s) = touched[s]
      BY <3>1 DEF LastTouched
    <3>4. CASE change.kind = "save"
      BY <1>2, <2>1, <2>2, <2>3, <3>3, <3>4, WrittenSettings
    <3>5. CASE change.kind # "save"
      <4>1. rule' = rule
        BY <3>5 DEF Apply
      <4> QED
        BY <1>2, <2>1, <2>2, <3>2, <3>3, <4>1
    <3> QED
      BY <3>4, <3>5
  <2>4. CASE s \in Scopes
    <3>1. Value(s)' = Effective(interval, s)' /\ Value(s) = Effective(interval, s)
      BY <2>4, ScopesAreNotFields DEF Value
    <3>2. /\ "global" \in Settings /\ "global" \in Scopes /\ "global" \notin Hosts
          /\ s \notin Hosts => s = "global"
      BY <2>4, ConsoleAssumption DEF Settings, Scopes
    <3>3. LastTouched(s) = IF s \in Hosts /\ interval[s] = 0 /\ touched["global"] > touched[s]
                           THEN touched["global"] ELSE touched[s]
      BY <1>2, <3>2, MaxOfTwo DEF LastTouched
    <3>4. LastTouched(s)' = IF s \in Hosts /\ interval'[s] = 0 /\ touched'["global"] > touched'[s]
                            THEN touched'["global"] ELSE touched'[s]
      <4>1. touched'["global"] \in Int /\ touched'[s] \in Int
        BY <1>2, <3>2
      <4> QED
        BY <4>1, MaxOfTwo DEF LastTouched
    <3>5. CASE change.kind = "interval"
      <4>1. Written(change) = {change.scope} /\ change.scope \in Scopes /\ change.seconds \in 1..60
        BY <3>5, WrittenSettings DEF GoodInput
      <4>2. interval' = [interval EXCEPT ![change.scope] = change.seconds] /\ interval \in [Scopes -> 0..60]
        BY <3>5 DEF Apply, ServerInv, Intervals
      <4>3. interval'[s] = IF s = change.scope THEN change.seconds ELSE interval[s]
        BY <2>4, <4>2
      <4>4. interval'["global"] = IF "global" = change.scope THEN change.seconds ELSE interval["global"]
        BY <3>2, <4>2
      <4>5. CASE s = change.scope
        <5>1. touched'[s] = now' /\ touched'["global"] \in Int
          BY <1>2, <3>2, <4>1, <4>5
        <5> QED
          BY <1>2, <2>1, <2>2, <3>4, <4>1, <4>3, <4>5, <5>1
      <4>6. CASE s # change.scope /\ change.scope # "global"
        <5>1. touched'[s] = touched[s] /\ touched'["global"] = touched["global"]
          BY <1>2, <3>2, <4>1, <4>6
        <5>2. Value(s)' = Value(s)
          BY <3>1, <4>3, <4>4, <4>6 DEF Effective
        <5> QED
          BY <2>1, <2>2, <3>3, <3>4, <4>3, <4>6, <5>1, <5>2
      <4>7. CASE s # change.scope /\ change.scope = "global"
        <5>1. touched'[s] = touched[s] /\ touched'["global"] = now' /\ interval'[s] = interval[s]
          BY <1>2, <3>2, <4>1, <4>3, <4>7
        <5>2. CASE interval[s] = 0
          <6>1. s \in Hosts
            BY <3>2, <4>7
          <6> QED
            BY <1>2, <2>1, <2>2, <3>4, <5>1, <5>2, <6>1
        <5>3. CASE interval[s] # 0
          <6>1. Value(s)' = Value(s)
            BY <3>1, <5>1, <5>3 DEF Effective
          <6> QED
            BY <2>1, <2>2, <3>3, <3>4, <5>1, <5>3, <6>1
        <5> QED
          BY <5>2, <5>3
      <4> QED
        BY <4>5, <4>6, <4>7
    <3>6. CASE change.kind # "interval"
      <4>1. interval' = interval
        BY <3>6 DEF Apply
      <4>2. Written(change) \subseteq Fields
        BY <3>6, WrittenSettings
      <4>3. touched'[s] = touched[s] /\ touched'["global"] = touched["global"]
        BY <1>2, <2>4, <3>2, <4>2, ScopesAreNotFields
      <4>4. Value(s)' = Value(s)
        BY <3>1, <4>1 DEF Effective
      <4> QED
        BY <2>1, <2>2, <3>3, <3>4, <4>1, <4>3, <4>4
    <3> QED
      BY <3>5, <3>6
  <2> QED
    BY <2>3, <2>4 DEF Settings
<1> QED
  BY <1>2, <1>3 DEF Later, World

LEMMA RestartServer == ServerInv /\ Restart => ServerInv'
<1> SUFFICES ASSUME ServerInv, Restart PROVE ServerInv'
  OBVIOUS
<1>1. now' = now + 1 /\ now \in Nat \ {0} /\ now' \in Nat \ {0} /\ touched' = [s \in Settings |-> now']
  BY DEF ServerInv, Restart
<1>2. touched' \in [Settings -> 1..now']
  BY <1>1
<1>3. interval' \in Intervals /\ rule' \in Saved /\ approved' = {}
  BY DEF Restart, ServerStarts, DefaultInterval, DefaultRule, Intervals, Scopes, Saved
<1>4. restarts' \in 0..MaxRestarts /\ role' = role /\ up' = up
  BY ConsoleAssumption DEF ServerInv, Restart
<1> QED
  BY <1>1, <1>2, <1>3, <1>4 DEF ServerInv

LEMMA RestartLater == ServerInv /\ Restart => Later(World, World')
<1> SUFFICES ASSUME ServerInv, Restart PROVE Later(World, World')
  OBVIOUS
<1>1. now' = now + 1 /\ now \in Nat \ {0} /\ \A s \in Settings : touched'[s] = now'
  BY DEF ServerInv, Restart
<1>2. ASSUME NEW s \in Settings
      PROVE  LastTouched(s) \in Nat /\ LastTouched(s)' = now'
  <2>1. LastTouched(s) \in 1..now
    BY LastTouchedInRange
  <2>2. touched'["global"] = now' /\ now' \in Int
    BY <1>1 DEF Settings, Scopes
  <2> QED
    BY <1>1, <2>1, <2>2, MaxOfTwo DEF LastTouched
<1> QED
  BY <1>1, <1>2 DEF Later, World

LEMMA ServerFrame ==
    ASSUME ServerInv, UNCHANGED <<role, server, restarts, now, touched>>, up' \in BOOLEAN
    PROVE  ServerInv' /\ World' = World /\ Later(World, World')
<1>1. ServerInv'
  BY DEF ServerInv, server
<1>2. World' = World
  BY DEF World, Value, LastTouched, Effective, server
<1> QED
  BY <1>1, <1>2, WorldIsGood, LaterItself

-----------------------------------------------------------------------------
(* The audit trail.                                                        *)

LEMMA AuditEntry ==
    ASSUME now \in Nat, NEW actor, NEW change, GoodInput(actor, change)
    PROVE  /\ createAudit(actor, change) \in Entry
           /\ createAudit(actor, change).actor = actor
           /\ createAudit(actor, change).kind = change.kind
           /\ change.kind = "acknowledge" => createAudit(actor, change).target = change.alert
           /\ change.kind = "interval" => /\ createAudit(actor, change).target = change.scope
                                          /\ createAudit(actor, change).seconds = change.seconds
           /\ change.kind = "save" => createAudit(actor, change).target = "none"
           /\ change.kind = "approve" => createAudit(actor, change).target = candidateId
<1>1. change.kind \in Kinds
  BY DEF GoodInput
<1>2. actor \in Tabs \cup {"other"}
  BY DEF GoodInput
<1>3. CASE change.kind = "acknowledge"
  BY <1>2, <1>3 DEF GoodInput, createAudit, Entry, Kinds
<1>4. CASE change.kind = "interval"
  BY <1>2, <1>4 DEF GoodInput, createAudit, Entry, Kinds
<1>5. CASE change.kind = "save"
  BY <1>2, <1>5 DEF GoodInput, createAudit, Entry, Kinds
<1>6. CASE change.kind = "baseline"
  BY <1>2, <1>6 DEF GoodInput, createAudit, Entry, Kinds, Scopes
<1>7. CASE change.kind = "backup"
  BY <1>2, <1>7 DEF GoodInput, createAudit, Entry, Kinds
<1>8. CASE change.kind = "approve"
  BY <1>2, <1>8 DEF GoodInput, createAudit, candidateId, Entry, Kinds
<1> QED
  BY <1>1, <1>3, <1>4, <1>5, <1>6, <1>7, <1>8 DEF Kinds

(* The entries about something, when one more is put before them.          *)
LEMMA EntriesAfter ==
    ASSUME audits \in Seq(Entry), NEW e \in Entry, audits' = <<e>> \o audits,
           NEW kind, NEW target
    PROVE  /\ \A i \in Entries(kind, target) :
                  /\ i \in Nat \ {0} /\ i + 1 \in Entries(kind, target)'
                  /\ audits'[i + 1] = audits[i]
           /\ \A j \in Entries(kind, target)' :
                  \/ j = 1 /\ e.kind = kind /\ e.target = target
                  \/ j \in Nat /\ j > 1 /\ j - 1 \in Entries(kind, target)
           /\ e.kind = kind /\ e.target = target =>
                  1 \in Entries(kind, target)' /\ audits'[1] = e
<1>1. /\ audits' \in Seq(Entry) /\ Len(audits') = Len(audits) + 1 /\ audits'[1] = e
      /\ \A i \in 1..Len(audits) : audits'[i + 1] = audits[i]
  BY PutFirst
<1>2. /\ DOMAIN audits = 1..Len(audits) /\ DOMAIN audits' = 1..Len(audits')
      /\ Len(audits) \in Nat
  BY <1>1
<1>3. ASSUME NEW i \in Entries(kind, target)
      PROVE  /\ i \in Nat \ {0} /\ i + 1 \in Entries(kind, target)'
             /\ audits'[i + 1] = audits[i]
  BY <1>1, <1>2, <1>3 DEF Entries
<1>4. ASSUME NEW j \in Entries(kind, target)'
      PROVE  \/ j = 1 /\ e.kind = kind /\ e.target = target
             \/ j \in Nat /\ j > 1 /\ j - 1 \in Entries(kind, target)
  <2>1. j \in 1..Len(audits) + 1 /\ audits'[j].kind = kind /\ audits'[j].target = target
    BY <1>1, <1>2, <1>4 DEF Entries
  <2>2. CASE j = 1
    BY <1>1, <2>1, <2>2
  <2>3. CASE j # 1
    <3>1. j - 1 \in 1..Len(audits)
      BY <1>2, <2>1, <2>3
    <3>2. audits'[(j - 1) + 1] = audits[j - 1] /\ (j - 1) + 1 = j
      BY <1>1, <2>1, <3>1
    <3> QED
      BY <1>2, <2>1, <3>1, <3>2 DEF Entries
  <2> QED
    BY <2>2, <2>3
<1>5. ASSUME e.kind = kind, e.target = target
      PROVE  1 \in Entries(kind, target)' /\ audits'[1] = e
  BY <1>1, <1>2, <1>5 DEF Entries
<1> QED
  BY <1>3, <1>4, <1>5

LEMMA ApplyTrail ==
    ASSUME ServerInv, TrailInv, NEW actor, NEW change, GoodInput(actor, change),
           Apply(actor, change), UNCHANGED role
    PROVE  TrailInv' /\ Len(audits') = Len(audits) + 1
<1> DEFINE e == createAudit(actor, change)
<1>1. /\ e \in Entry /\ e.actor = actor /\ e.kind = change.kind
      /\ change.kind = "acknowledge" => e.target = change.alert
      /\ change.kind = "interval" => e.target = change.scope /\ e.seconds = change.seconds
      /\ change.kind = "save" => e.target = "none"
      /\ change.kind = "approve" => e.target = candidateId
  BY AuditEntry DEF ServerInv
<1>2. audits \in Seq(Entry) /\ audits' = <<e>> \o audits
  BY DEF TrailInv, Apply
<1>3. /\ audits' \in Seq(Entry) /\ Len(audits') = Len(audits) + 1 /\ audits'[1] = e
      /\ \A i \in 1..Len(audits) : audits'[i + 1] = audits[i]
  BY <1>1, <1>2, PutFirst
<1> HIDE DEF e
<1>4. OnlyAdministratorsChange'
  <2> SUFFICES ASSUME NEW j \in DOMAIN audits'
               PROVE  audits'[j].actor = "other"
                      \/ (audits'[j].actor \in Tabs /\ role[audits'[j].actor] = "admin")
    BY DEF OnlyAdministratorsChange
  <2>1. j \in 1..Len(audits) + 1 /\ Len(audits) \in Nat
    BY <1>2, <1>3
  <2>2. CASE j = 1
    BY <1>1, <1>3, <2>2 DEF GoodInput
  <2>3. CASE j # 1
    <3>1. j - 1 \in 1..Len(audits) /\ j - 1 \in DOMAIN audits /\ (j - 1) + 1 = j
      BY <1>2, <2>1, <2>3
    <3>2. audits'[j] = audits[j - 1]
      BY <1>3, <3>1
    <3> QED
      BY <3>1, <3>2 DEF TrailInv, OnlyAdministratorsChange
  <2> QED
    BY <2>2, <2>3
<1>5. acked' = {a \in Alerts : Entries("acknowledge", a)' # {}}
  <2>1. ASSUME NEW a \in Alerts
        PROVE  Entries("acknowledge", a)' # {}
                   <=> Entries("acknowledge", a) # {} \/ (change.kind = "acknowledge" /\ a = change.alert)
    BY <1>1, <1>2, EntriesAfter
  <2>2. acked = {a \in Alerts : Entries("acknowledge", a) # {}}
    BY DEF TrailInv
  <2>3. acked' = IF change.kind = "acknowledge" THEN acked \cup {change.alert} ELSE acked
    BY DEF Apply
  <2>4. change.kind = "acknowledge" => change.alert \in Alerts
    BY DEF GoodInput
  <2> QED
    BY <2>1, <2>2, <2>3, <2>4
<1>6. ASSUME NEW s \in Scopes PROVE Recorded(s)'
  <2>1. interval \in [Scopes -> 0..60]
    BY DEF ServerInv, Intervals
  <2>2. CASE change.kind = "interval" /\ change.scope = s
    <3>1. interval'[s] = change.seconds
      BY <2>1, <2>2 DEF Apply
    <3>2. 1 \in Entries("interval", s)' /\ \A j \in Entries("interval", s)' : 1 <= j
      BY <1>1, <1>2, <2>2, EntriesAfter
    <3> QED
      BY <1>1, <1>3, <2>2, <3>1, <3>2 DEF Recorded
  <2>3. CASE ~(change.kind = "interval" /\ change.scope = s)
    <3>1. interval'[s] = interval[s]
      BY <2>1, <2>3 DEF Apply
    <3>2. \A j \in Entries("interval", s)' : j \in Nat /\ j - 1 \in Entries("interval", s)
      BY <1>1, <1>2, <2>3, EntriesAfter
    <3>3. CASE Entries("interval", s) = {} /\ interval[s] = DefaultInterval[s]
      BY <3>1, <3>2, <3>3 DEF Recorded
    <3>4. CASE \E i \in Entries("interval", s) :
                   /\ \A j \in Entries("interval", s) : i <= j
                   /\ interval[s] = audits[i].seconds
      <4>1. PICK i \in Entries("interval", s) :
                   /\ \A j \in Entries("interval", s) : i <= j
                   /\ interval[s] = audits[i].seconds
        BY <3>4
      <4>2. i \in Nat \ {0} /\ i + 1 \in Entries("interval", s)' /\ audits'[i + 1] = audits[i]
        BY <1>1, <1>2, <4>1, EntriesAfter
      <4>3. \A j \in Entries("interval", s)' : i + 1 <= j
        BY <3>2, <4>1, <4>2
      <4> QED
        BY <3>1, <4>1, <4>2, <4>3 DEF Recorded
    <3> QED
      BY <3>3, <3>4 DEF TrailInv, Recorded
  <2> QED
    BY <2>2, <2>3
<1>7. rule' # DefaultRule => Entries("save", "none")' # {}
  <2>1. CASE change.kind = "save"
    BY <1>1, <1>2, <2>1, EntriesAfter
  <2>2. CASE change.kind # "save"
    <3>1. rule' = rule
      BY <2>2 DEF Apply
    <3> QED
      BY <1>1, <1>2, <3>1, EntriesAfter DEF TrailInv
  <2> QED
    BY <2>1, <2>2
<1>8. approved' = Approvals'
  <2>1. approved' = IF change.kind = "approve" THEN Approvals \cup {candidateId} ELSE Approvals
    BY DEF TrailInv, Apply
  <2>2. /\ DOMAIN audits = 1..Len(audits) /\ DOMAIN audits' = 1..(Len(audits) + 1)
        /\ Len(audits) \in Nat
    BY <1>2, <1>3
  <2>3. ASSUME NEW i \in DOMAIN audits, audits[i].kind = "approve"
        PROVE  audits[i].target \in Approvals'
    <3>1. i + 1 \in DOMAIN audits' /\ audits'[i + 1] = audits[i]
      BY <1>3, <2>2
    <3> QED
      BY <2>3, <3>1 DEF Approvals
  <2>4. change.kind = "approve" => candidateId \in Approvals'
    <3>1. 1 \in DOMAIN audits'
      BY <2>2
    <3> QED
      BY <1>1, <1>3, <3>1 DEF Approvals
  <2>5. ASSUME NEW j \in DOMAIN audits', audits'[j].kind = "approve"
        PROVE  \/ change.kind = "approve" /\ audits'[j].target = candidateId
               \/ audits'[j].target \in Approvals
    <3>1. CASE j = 1
      BY <1>1, <1>3, <2>5, <3>1
    <3>2. CASE j # 1
      <4>1. j - 1 \in DOMAIN audits /\ (j - 1) + 1 = j
        BY <2>2, <3>2
      <4>2. audits'[j] = audits[j - 1]
        BY <1>3, <2>2, <4>1
      <4> QED
        BY <2>5, <4>1, <4>2 DEF Approvals
    <3> QED
      BY <3>1, <3>2
  <2>6. Approvals \subseteq Approvals'
    BY <2>3 DEF Approvals
  <2>7. Approvals' \subseteq IF change.kind = "approve" THEN Approvals \cup {candidateId} ELSE Approvals
    BY <2>5 DEF Approvals
  <2> QED
    BY <2>1, <2>4, <2>6, <2>7
<1> QED
  BY <1>3, <1>4, <1>5, <1>6, <1>7, <1>8 DEF TrailInv

LEMMA TrailFrame ==
    ASSUME TrailInv, UNCHANGED <<role, server>>
    PROVE  TrailInv'
  BY DEF TrailInv, OnlyAdministratorsChange, Recorded, Entries, Approvals, server

(* A trail that is empty explains the defaults.                            *)
LEMMA NoTrail ==
    ASSUME audits = <<>>, interval = DefaultInterval, acked = {}, rule = DefaultRule, approved = {}
    PROVE  TrailInv
<1>1. audits \in Seq(Entry) /\ DOMAIN audits = {}
  OBVIOUS
<1>2. \A kind, target : Entries(kind, target) = {}
  BY <1>1 DEF Entries
<1> QED
  BY <1>1, <1>2 DEF TrailInv, OnlyAdministratorsChange, Recorded, Approvals

LEMMA RestartTrail == Restart => TrailInv' /\ audits' = <<>>
<1> SUFFICES ASSUME Restart PROVE TrailInv' /\ audits' = <<>>
  OBVIOUS
<1>1. /\ audits' = <<>> /\ interval' = DefaultInterval /\ acked' = {}
      /\ rule' = DefaultRule /\ approved' = {}
  BY DEF Restart, ServerStarts
<1>2. audits' \in Seq(Entry) /\ DOMAIN audits' = {}
  BY <1>1
<1>3. \A kind, target : Entries(kind, target)' = {}
  BY <1>2 DEF Entries
<1> QED
  BY <1>1, <1>2, <1>3 DEF TrailInv, OnlyAdministratorsChange, Recorded, Approvals

-----------------------------------------------------------------------------
(* The changes under way.                                                  *)

LEMMA SentIsFinite == IsFiniteSet(Sent) /\ Cardinality(Sent) \in Nat
  BY ConsoleAssumption, FS_Subset, FS_CardinalityType DEF Sent

LEMMA SentShrinks ==
    ASSUME Sent' \subseteq Sent
    PROVE  Cardinality(Sent') \in Nat /\ Cardinality(Sent') <= Cardinality(Sent)
  BY SentIsFinite, FS_Subset, FS_CardinalityType

LEMMA SentGains ==
    ASSUME NEW t, Sent' \subseteq Sent \cup {t}
    PROVE  Cardinality(Sent') \in Nat /\ Cardinality(Sent') <= Cardinality(Sent) + 1
<1>1. /\ IsFiniteSet(Sent \cup {t}) /\ Cardinality(Sent \cup {t}) \in Nat
      /\ Cardinality(Sent \cup {t}) <= Cardinality(Sent) + 1
  BY SentIsFinite, FS_AddElement, FS_CardinalityType
<1>2. Cardinality(Sent') <= Cardinality(Sent \cup {t}) /\ IsFiniteSet(Sent')
  BY <1>1, FS_Subset
<1> QED
  BY <1>1, <1>2, SentIsFinite, FS_CardinalityType

LEMMA SentLoses ==
    ASSUME NEW t \in Sent, Sent' \subseteq Sent \ {t}
    PROVE  Cardinality(Sent') \in Nat /\ Cardinality(Sent') <= Cardinality(Sent) - 1
<1>1. /\ IsFiniteSet(Sent \ {t}) /\ Cardinality(Sent \ {t}) = Cardinality(Sent) - 1
  BY SentIsFinite, FS_RemoveElement
<1>2. Cardinality(Sent') <= Cardinality(Sent \ {t}) /\ IsFiniteSet(Sent')
  BY <1>1, FS_Subset
<1> QED
  BY <1>1, <1>2, SentIsFinite, FS_CardinalityType

LEMMA CountFrame ==
    ASSUME ServerInv, CountInv, Sent' \subseteq Sent, UNCHANGED <<audits, now, restarts>>
    PROVE  CountInv'
<1>1. Cardinality(Sent)' = Cardinality(Sent')
  OBVIOUS
<1>2. Cardinality(Sent)' \in Nat /\ Cardinality(Sent)' <= Cardinality(Sent)
  BY <1>1, SentShrinks
<1> QED
  BY <1>2, SentIsFinite, ConsoleAssumption DEF CountInv, ServerInv
-----------------------------------------------------------------------------
(* Steps of one tab; the server's settings stay.                           *)

LEMMA TabStep ==
    ASSUME IndInv, NEW t \in Tabs, Elsewhere(t), CountInv',
           UNCHANGED <<role, server, up, restarts, now, touched>>,
           GoodTab(World, page[t], cache'[t], fetch'[t], form'[t], call'[t], told'[t])
    PROVE  IndInv'
<1>1. ServerInv' /\ World' = World /\ Later(World, World')
  BY ServerFrame DEF IndInv, ServerInv
<1>2. TrailInv'
  BY TrailFrame DEF IndInv
<1>3. TabsInv'
  BY <1>1, TabsStep DEF IndInv
<1> QED
  BY <1>1, <1>2, <1>3 DEF IndInv

LEMMA TabFacts ==
    ASSUME IndInv, NEW t \in Tabs
    PROVE  /\ GoodTab(World, page[t], cache[t], fetch[t], form[t], call[t], told[t])
           /\ GoodWorld(World) /\ World.now = now /\ now \in Nat \ {0}
           /\ page = [u \in Tabs |-> page[u]] /\ cache = [u \in Tabs |-> cache[u]]
           /\ fetch = [u \in Tabs |-> fetch[u]] /\ form = [u \in Tabs |-> form[u]]
           /\ call = [u \in Tabs |-> call[u]] /\ told = [u \in Tabs |-> told[u]]
  BY WorldIsGood DEF IndInv, TabsInv, ServerInv, World

LEMMA WorldValues ==
    ASSUME ServerInv
    PROVE  /\ \A s \in Scopes : World.value[s] = Effective(interval, s)
           /\ \A f \in Fields : World.value[f] = rule[f]
           /\ World.value["global"] = interval["global"] /\ World.last["global"] = touched["global"]
<1>1. \A s \in Settings : World.value[s] = Value(s) /\ World.last[s] = LastTouched(s)
  BY DEF World
<1>2. "global" \in Scopes /\ "global" \notin Hosts
  BY ConsoleAssumption DEF Scopes
<1>3. \A s \in Scopes : World.value[s] = Effective(interval, s)
  BY <1>1, ScopesAreNotFields DEF Settings, Value
<1>4. \A f \in Fields : World.value[f] = rule[f]
  BY <1>1 DEF Settings, Value
<1>5. World.last["global"] = touched["global"]
  BY <1>1, <1>2 DEF Settings, LastTouched
<1> QED
  BY <1>2, <1>3, <1>4, <1>5 DEF Effective

LEMMA NewFormIsGood ==
    ASSUME NEW w, w.now \in Nat, NEW p
    PROVE  GoodForm(w, p, NewForm)
  BY DEF GoodForm, FormOf, NewForm, Offered, Scopes

(* A page that is being read.                                              *)
LEMMA FetchSent ==
    ASSUME NEW w, NEW p, NEW ca, NEW fe, NEW fo, NEW cl, NEW to, NEW data,
           GoodTab(w, p, ca, fe, fo, cl, to)
    PROVE  GoodTab(w, p, ca, [at |-> "sent", data |-> data], fo, cl, to)
  BY DEF GoodTab, GoodFetch, GoodTold

LEMMA FetchStarts ==
    ASSUME IndInv, NEW t \in Tabs, Poll(t) \/ Refresh(t)
    PROVE  IndInv'
<1>1. /\ fetch' = [fetch EXCEPT ![t] = [at |-> "sent", data |-> NoData]]
      /\ UNCHANGED <<role, server, up, restarts, page, cache, form, call, past>>
  BY DEF Poll, Refresh
<1>2. Elsewhere(t) /\ fetch'[t] = [at |-> "sent", data |-> NoData]
  BY <1>1, TabFacts DEF Elsewhere, past
<1>3. CountInv'
  BY <1>1, CountFrame DEF Sent, IndInv, server, past
<1>4. GoodTab(World, page[t], cache'[t], fetch'[t], form'[t], call'[t], told'[t])
  BY <1>1, <1>2, TabFacts, FetchSent DEF past
<1> QED
  BY <1>1, <1>2, <1>3, <1>4, TabStep DEF past

LEMMA RemountStep ==
    ASSUME IndInv, NEW t \in Tabs, Remount(t)
    PROVE  IndInv'
<1>1. UNCHANGED <<role, server, up, restarts, page, cache, call, past>>
  BY DEF Remount
<1>2. Elsewhere(t) /\ form'[t] = NewForm
      /\ (fetch'[t] = fetch[t] \/ fetch'[t] = [at |-> "sent", data |-> NoData])
  BY <1>1, TabFacts DEF Remount, Elsewhere, past
<1>3. CountInv'
  BY <1>1, CountFrame DEF Sent, IndInv, server, past
<1>4. GoodForm(World, page[t], NewForm)
  BY TabFacts, NewFormIsGood DEF GoodTab
<1>5. GoodTab(World, page[t], cache[t], fetch[t], NewForm, call[t], told[t])
  BY <1>4, TabFacts DEF GoodTab
<1>6. GoodTab(World, page[t], cache'[t], fetch'[t], form'[t], call'[t], told'[t])
  BY <1>1, <1>2, <1>5, FetchSent DEF past
<1> QED
  BY <1>1, <1>2, <1>3, <1>6, TabStep DEF past

LEMMA AnswerIsGood ==
    ASSUME IndInv, NEW p \in Pages \ {"stranger"}
    PROVE  Answer(Query[p]).at = now /\ GoodData(World, p, Answer(Query[p]))
<1>1. World.now = now /\ now \in Nat \ {0} /\ interval \in Intervals /\ rule \in Saved
  BY DEF IndInv, ServerInv, World
<1>2. Answer(Query[p]).at = now
  <2>1. Query[p] \in {"overview", "host", "administration", "rules"}
    BY DEF Pages, Query
  <2> QED
    BY <2>1 DEF Answer
<1>3. ASSUME Query[p] = "overview" PROVE GoodInterval(World, Answer(Query[p]))
  <2>1. Answer(Query[p]) = [at |-> now, acked |-> acked, interval |-> interval]
    BY <1>3 DEF Answer
  <2> QED
    BY <1>1, <2>1, WorldValues DEF GoodInterval, Current, IndInv
<1>4. ASSUME Query[p] = "rules"
      PROVE  Answer(Query[p]).rule \in Saved /\ GoodRule(World, Answer(Query[p]).rule, now, {})
  <2>1. Answer(Query[p]) = [at |-> now, rule |-> rule]
    BY <1>4 DEF Answer
  <2> QED
    BY <1>1, <2>1, WorldValues DEF GoodRule, Current, IndInv
<1> QED
  BY <1>1, <1>2, <1>3, <1>4 DEF GoodData

LEMMA ReadStep ==
    ASSUME IndInv, NEW t \in Tabs, Read(t)
    PROVE  IndInv'
<1>1. UNCHANGED <<role, server, up, restarts, page, cache, form, call, past>>
  BY DEF Read
<1>2. Elsewhere(t) /\ fetch'[t] = [at |-> "answered", data |-> Answer(Query[page[t]])]
  BY <1>1, TabFacts DEF Read, Elsewhere, past
<1>3. CountInv'
  BY <1>1, CountFrame DEF Sent, IndInv, server, past
<1>4. page[t] \in Pages \ {"stranger"}
  BY TabFacts DEF GoodTab, Read
<1>5. fetch'[t].at = "answered" /\ fetch'[t].data.at = now /\ GoodData(World, page[t], fetch'[t].data)
  BY <1>2, <1>4, AnswerIsGood
<1>6. GoodFetch(World, page[t], fetch'[t])
  BY <1>5, TabFacts DEF GoodFetch
<1>7. GoodTold(World, page[t], cache[t], fetch'[t], call[t], told[t])
  BY <1>5, TabFacts DEF GoodTab, GoodTold
<1>8. GoodTab(World, page[t], cache'[t], fetch'[t], form'[t], call'[t], told'[t])
  BY <1>1, <1>6, <1>7, TabFacts DEF GoodTab, past
<1> QED
  BY <1>1, <1>2, <1>3, <1>8, TabStep DEF past

LEMMA NotFoundStep ==
    ASSUME IndInv, NEW t \in Tabs, NotFound(t)
    PROVE  IndInv'
<1>1. UNCHANGED <<role, server, up, restarts, page, cache, form, call, past>>
  BY DEF NotFound
<1>2. Elsewhere(t) /\ fetch'[t] = [at |-> "refused", data |-> NoData]
  BY <1>1, TabFacts DEF NotFound, Elsewhere, past
<1>3. CountInv'
  BY <1>1, CountFrame DEF Sent, IndInv, server, past
<1>4. GoodTab(World, page[t], cache[t], [at |-> "refused", data |-> NoData], form[t], call[t], told[t])
  BY TabFacts DEF GoodTab, GoodFetch, GoodTold
<1>5. GoodTab(World, page[t], cache'[t], fetch'[t], form'[t], call'[t], told'[t])
  BY <1>1, <1>2, <1>4 DEF past
<1> QED
  BY <1>1, <1>2, <1>3, <1>5, TabStep DEF past

LEMMA DataArrivesStep ==
    ASSUME IndInv, NEW t \in Tabs, DataArrives(t)
    PROVE  IndInv'
<1>1. UNCHANGED <<role, server, up, restarts, page, form, call, past>> /\ fetch[t].at = "answered"
  BY DEF DataArrives
<1>2. Elsewhere(t) /\ fetch'[t] = NoFetch /\ cache'[t] = [data |-> fetch[t].data, failed |-> FALSE]
  BY <1>1, TabFacts DEF DataArrives, Elsewhere, past
<1>3. CountInv'
  BY <1>1, CountFrame DEF Sent, IndInv, server, past
<1>4. GoodData(World, page[t], fetch[t].data) /\ fetch[t].data.at # 0
  BY <1>1, TabFacts DEF GoodTab, GoodFetch
<1>5. GoodCache(World, page[t], cache'[t]) /\ GoodFetch(World, page[t], fetch'[t])
  BY <1>2, <1>4 DEF GoodCache, GoodFetch, NoFetch
<1>6. GoodTold(World, page[t], cache'[t], fetch'[t], call[t], told[t])
  BY <1>1, <1>2, <1>4, TabFacts DEF GoodTab, GoodTold, NoFetch
<1>7. GoodTab(World, page[t], cache'[t], fetch'[t], form'[t], call'[t], told'[t])
  BY <1>1, <1>5, <1>6, TabFacts DEF GoodTab, past
<1> QED
  BY <1>1, <1>2, <1>3, <1>7, TabStep DEF past

LEMMA FetchFailsStep ==
    ASSUME IndInv, NEW t \in Tabs, FetchFails(t)
    PROVE  IndInv'
<1>1. UNCHANGED <<role, server, up, restarts, page, form, call, past>>
  BY DEF FetchFails
<1>2. cache[t] = [data |-> cache[t].data, failed |-> cache[t].failed]
  BY TabFacts DEF GoodTab, GoodCache
<1>3. Elsewhere(t) /\ fetch'[t] = NoFetch /\ cache'[t] = [data |-> cache[t].data, failed |-> TRUE]
  BY <1>1, <1>2, TabFacts DEF FetchFails, Elsewhere, past
<1>4. CountInv'
  BY <1>1, CountFrame DEF Sent, IndInv, server, past
<1>5. GoodCache(World, page[t], cache'[t]) /\ GoodFetch(World, page[t], fetch'[t])
  <2>1. GoodData(World, page[t], cache[t].data)
    BY TabFacts DEF GoodTab, GoodCache
  <2>2. GoodFetch(World, page[t], fetch'[t])
    BY <1>3 DEF GoodFetch, NoFetch
  <2> QED
    BY <1>3, <2>1, <2>2 DEF GoodCache
<1>6. GoodTold(World, page[t], cache'[t], fetch'[t], call[t], told[t])
  BY <1>3, TabFacts DEF GoodTab, GoodTold, NoFetch
<1>7. GoodTab(World, page[t], cache'[t], fetch'[t], form'[t], call'[t], told'[t])
  BY <1>1, <1>5, <1>6, TabFacts DEF GoodTab, past
<1> QED
  BY <1>1, <1>3, <1>4, <1>7, TabStep DEF past

-----------------------------------------------------------------------------
(* What an operator does on a page.                                        *)

LEMMA OpenPage ==
    ASSUME IndInv, NEW t \in Tabs, NEW p \in Pages, Open(t, p)
    PROVE  /\ page[t] = p /\ call[t].at = "none" /\ cache[t].data.at # 0
           /\ GoodData(World, p, cache[t].data)
  BY TabFacts DEF Open, Screen, GoodTab, GoodCache

(* The form of one tab is replaced.                                        *)
Filled(t) ==
    /\ form' = [u \in Tabs |-> form'[u]]
    /\ \A u \in Tabs \ {t} : form'[u] = form[u]

LEMMA FormStep ==
    ASSUME IndInv, NEW t \in Tabs, Filled(t),
           UNCHANGED <<role, server, up, restarts, page, cache, fetch, call, past>>,
           GoodForm(World, page[t], form'[t])
    PROVE  IndInv'
<1>1. Elsewhere(t)
  BY TabFacts DEF Elsewhere, Filled, past
<1>2. CountInv'
  BY CountFrame DEF Sent, IndInv, server, past
<1>3. GoodTab(World, page[t], cache'[t], fetch'[t], form'[t], call'[t], told'[t])
  BY <1>1, TabFacts DEF GoodTab, past
<1> QED
  BY <1>1, <1>2, <1>3, TabStep DEF past

LEMMA FormFacts ==
    ASSUME IndInv, NEW t \in Tabs
    PROVE  /\ GoodForm(World, page[t], form[t])
           /\ form = [u \in Tabs |-> form[u]] /\ form[t] = FormOf(form[t])
  BY TabFacts DEF GoodTab, GoodForm

LEMMA SelectScopeStep ==
    ASSUME IndInv, NEW t \in Tabs, SelectScope(t)
    PROVE  IndInv'
<1>1. PICK s \in Scopes :
          form' = [form EXCEPT ![t].scope = s,
                               ![t].seconds = Effective(cache[t].data.interval, s),
                               ![t].base = cache[t].data.at, ![t].edited = {}, ![t].edits = @ + 1]
  BY DEF SelectScope
<1>2. /\ form'[t] = FormOf(form'[t]) /\ form'[t].scope = s
      /\ form'[t].seconds = Effective(cache[t].data.interval, s)
      /\ form'[t].base = cache[t].data.at /\ form'[t].edited = {}
  <2>1. form = [u \in Tabs |-> form[u]] /\ form[t] = FormOf(form[t])
    BY FormFacts
  <2> QED
    BY <1>1, <2>1 DEF FormOf
<1>3. Filled(t)
  BY <1>1, FormFacts DEF Filled
<1>4. page[t] = "operations" /\ cache[t].data.at # 0 /\ GoodData(World, "operations", cache[t].data)
  BY OpenPage DEF SelectScope, Pages
<1>5. GoodInterval(World, cache[t].data) /\ cache[t].data.at \in 1..World.now
  BY <1>4, TabFacts DEF GoodData, Query, Pages
<1>6. Effective(cache[t].data.interval, s) \in 1..60
      /\ Current(World, s, Effective(cache[t].data.interval, s), cache[t].data.at)
  BY <1>5, EffectiveInRange DEF GoodInterval
<1>7. GoodForm(World, page[t], form'[t])
  BY <1>2, <1>4, <1>5, <1>6 DEF GoodForm, Offered
<1>8. UNCHANGED <<role, server, up, restarts, page, cache, fetch, call, past>>
  BY DEF SelectScope
<1> QED
  BY <1>3, <1>7, <1>8, FormStep

LEMMA TypeSecondsStep ==
    ASSUME IndInv, NEW t \in Tabs, TypeSeconds(t)
    PROVE  IndInv'
<1>1. PICK n \in Inputs :
          form' = [form EXCEPT ![t].seconds = Max({1, Min({60, n})}),
                               ![t].edited = {form[t].scope}, ![t].edits = @ + 1]
  BY DEF TypeSeconds
<1>2. Max({1, Min({60, n})}) \in 1..60
  <2>1. n \in Int
    BY ConsoleAssumption
  <2>2. Min({60, n}) \in Int /\ Min({60, n}) <= 60
    BY <2>1, MinOfTwo
  <2> QED
    BY <2>2, MaxOfTwo
<1>3. /\ form'[t] = FormOf(form'[t]) /\ form'[t].scope = form[t].scope
      /\ form'[t].seconds = Max({1, Min({60, n})})
      /\ form'[t].base = form[t].base /\ form'[t].edited = {form[t].scope}
  <2>1. form = [u \in Tabs |-> form[u]] /\ form[t] = FormOf(form[t])
    BY FormFacts
  <2> QED
    BY <1>1, <2>1 DEF FormOf
<1>4. Filled(t)
  BY <1>1, FormFacts DEF Filled
<1>5. page[t] = "operations"
  BY DEF TypeSeconds, Open
<1>6. GoodForm(World, page[t], form'[t])
  BY <1>2, <1>3, <1>5, FormFacts DEF GoodForm
<1>7. UNCHANGED <<role, server, up, restarts, page, cache, fetch, call, past>>
  BY DEF TypeSeconds
<1> QED
  BY <1>4, <1>6, <1>7, FormStep

LEMMA ReviewBaselineStep ==
    ASSUME IndInv, NEW t \in Tabs, ReviewBaseline(t)
    PROVE  IndInv'
<1>1. /\ form' = [form EXCEPT ![t].reviewed = ~@, ![t].edits = @ + 1]
      /\ UNCHANGED <<role, server, up, restarts, page, cache, fetch, call, past>>
  BY DEF ReviewBaseline
<1>2. /\ form'[t] = FormOf(form'[t]) /\ form'[t].scope = form[t].scope
      /\ form'[t].seconds = form[t].seconds /\ form'[t].base = form[t].base
      /\ form'[t].edited = form[t].edited /\ form'[t].draft = form[t].draft
  <2>1. form = [u \in Tabs |-> form[u]] /\ form[t] = FormOf(form[t])
    BY FormFacts
  <2> QED
    BY <1>1, <2>1 DEF FormOf
<1>3. Filled(t)
  BY <1>1, FormFacts DEF Filled
<1>4. GoodForm(World, page[t], form'[t])
  BY <1>2, FormFacts DEF GoodForm
<1> QED
  BY <1>1, <1>3, <1>4, FormStep

(* What a page of rules shows, under the date it is saved with.            *)
LEMMA ShownIsGood ==
    ASSUME IndInv, NEW t \in Tabs, Open(t, "rules"),
           NEW base, base = IF form[t].draft = <<>> THEN cache[t].data.at ELSE form[t].base
    PROVE  /\ Shown(t) \in Drafts /\ base \in 1..World.now
           /\ GoodRule(World, Shown(t), base, form[t].edited)
<1>1. page[t] = "rules" /\ cache[t].data.at # 0 /\ GoodData(World, "rules", cache[t].data)
  BY OpenPage DEF Pages
<1>2. CASE form[t].draft = <<>>
  <2>1. /\ cache[t].data.rule \in Saved /\ cache[t].data.at \in 1..World.now
        /\ GoodRule(World, cache[t].data.rule, cache[t].data.at, {})
    BY <1>1, TabFacts DEF GoodData, Query, Pages
  <2>2. Shown(t) = cache[t].data.rule /\ base = cache[t].data.at
    BY <1>2 DEF Shown
  <2>3. cache[t].data.rule \in Drafts
    BY <2>1 DEF Saved, Drafts
  <2> QED
    BY <2>1, <2>2, <2>3 DEF GoodRule
<1>3. CASE form[t].draft # <<>>
  BY <1>1, <1>3, FormFacts DEF GoodForm, Shown
<1> QED
  BY <1>2, <1>3

LEMMA PatchStep ==
    ASSUME IndInv, NEW t \in Tabs, patch(t)
    PROVE  IndInv'
<1>1. PICK f \in Fields, n \in 0..1 :
          form' = [form EXCEPT ![t].draft = <<[Shown(t) EXCEPT ![f] = n]>>,
                               ![t].base = IF form[t].draft = <<>> THEN cache[t].data.at ELSE @,
                               ![t].edited = @ \cup {f}, ![t].edits = @ + 1]
  BY DEF patch
<1>2. PICK base : base = IF form[t].draft = <<>> THEN cache[t].data.at ELSE form[t].base
  OBVIOUS
<1>3. PICK r : r = [Shown(t) EXCEPT ![f] = n]
  OBVIOUS
<1>4. /\ form'[t] = FormOf(form'[t]) /\ form'[t].scope = form[t].scope
      /\ form'[t].seconds = form[t].seconds /\ form'[t].base = base
      /\ form'[t].edited = form[t].edited \cup {f} /\ form'[t].draft = <<r>>
  <2>1. form = [u \in Tabs |-> form[u]] /\ form[t] = FormOf(form[t])
    BY FormFacts
  <2> QED
    BY <1>1, <1>2, <1>3, <2>1 DEF FormOf
<1>5. Filled(t)
  BY <1>1, FormFacts DEF Filled
<1>6. Open(t, "rules") /\ page[t] = "rules"
  BY DEF patch, Open
<1>7. /\ Shown(t) \in Drafts /\ base \in 1..World.now
      /\ GoodRule(World, Shown(t), base, form[t].edited)
  BY <1>2, <1>6, ShownIsGood
<1>8. r \in Drafts /\ \A g \in Fields : g # f => r[g] = Shown(t)[g]
  BY <1>3, <1>7 DEF Drafts, Fields
<1>9. GoodRule(World, r, base, form[t].edited \cup {f})
  BY <1>7, <1>8 DEF GoodRule
<1>10. form'[t].draft[1] = r
  BY <1>4
<1>11. GoodForm(World, page[t], form'[t])
  BY <1>4, <1>6, <1>7, <1>8, <1>9, <1>10, FormFacts DEF GoodForm
<1>12. UNCHANGED <<role, server, up, restarts, page, cache, fetch, call, past>>
  BY DEF patch
<1> QED
  BY <1>5, <1>11, <1>12, FormStep

(* A mutation is sent.                                                     *)
LEMMA MutateStep ==
    ASSUME IndInv, NEW t \in Tabs, NEW change, NEW base, NEW edited,
           Mutate(t, change, base, edited), GoodChange(World, change, base, edited),
           Query[page[t]] \in Refetched(change.kind) => cache[t].data.at # 0
    PROVE  IndInv'
<1>1. UNCHANGED <<role, server, up, restarts, page, cache, fetch, form, past>>
  BY DEF Mutate
<1>2. PICK cl : cl = [at |-> "sent", change |-> change, base |-> base, edited |-> edited, done |-> 0]
  OBVIOUS
<1>3. Elsewhere(t) /\ call'[t] = cl
  BY <1>1, <1>2, TabFacts DEF Mutate, Elsewhere, past
<1>4. CountInv'
  <2>1. Sent' \subseteq Sent \cup {t}
    BY <1>3 DEF Sent, Elsewhere
  <2>2. Cardinality(Sent)' \in Nat /\ Cardinality(Sent)' <= Cardinality(Sent) + 1
    BY <2>1, SentGains
  <2>3. now - 1 - restarts + Cardinality(Sent) < MaxChanges
    BY DEF Mutate, Sent
  <2> QED
    BY <1>1, <2>2, <2>3, SentIsFinite, ConsoleAssumption
       DEF CountInv, IndInv, ServerInv, server, past
<1>5. GoodCall(World, cl)
  BY <1>2, TabFacts DEF GoodCall, CallOf, GoodWorld
<1>6. GoodTold(World, page[t], cache[t], fetch[t], cl, told[t])
  BY <1>2, TabFacts DEF GoodTab, GoodTold
<1>7. GoodTab(World, page[t], cache'[t], fetch'[t], form'[t], call'[t], told'[t])
  BY <1>1, <1>3, <1>5, <1>6, TabFacts DEF GoodTab, past
<1> QED
  BY <1>1, <1>3, <1>4, <1>7, TabStep DEF past

LEMMA MutationSteps ==
    ASSUME IndInv, NEW t \in Tabs,
           \/ acknowledge(t) \/ setCollectionInterval(t) \/ refreshBaseline(t)
           \/ approveRuntime(t) \/ initiateBackup(t) \/ save(t)
    PROVE  IndInv'
<1>1. World.now = now /\ now \in Nat \ {0}
  BY TabFacts
<1>2. CASE acknowledge(t)
  <2>1. PICK a \in Alerts : Mutate(t, [kind |-> "acknowledge", alert |-> a], 0, {})
    BY <1>2 DEF acknowledge
  <2>2. PICK change : change = [kind |-> "acknowledge", alert |-> a]
    OBVIOUS
  <2>3. cache[t].data.at # 0
    BY <1>2, OpenPage DEF acknowledge, Pages
  <2>4. GoodChange(World, change, 0, {})
    BY <1>1, <2>2 DEF GoodChange, Kinds
  <2> QED
    BY <2>1, <2>2, <2>3, <2>4, MutateStep
<1>3. CASE setCollectionInterval(t)
  <2>1. PICK change, base, edited :
            /\ change = [kind |-> "interval", scope |-> form[t].scope, seconds |-> form[t].seconds]
            /\ base = form[t].base /\ edited = form[t].edited
    OBVIOUS
  <2>2. Mutate(t, change, base, edited)
    BY <1>3, <2>1 DEF setCollectionInterval
  <2>3. page[t] = "operations" /\ cache[t].data.at # 0
    BY <1>3, OpenPage DEF setCollectionInterval, Pages
  <2>4. /\ form[t].scope \in Scopes /\ form[t].seconds \in 1..60 /\ form[t].base \in 0..now
        /\ form[t].scope \notin form[t].edited
               => Offered(World, form[t].scope, form[t].seconds, form[t].base)
    BY <1>1, <2>3, FormFacts DEF GoodForm
  <2>5. GoodChange(World, change, base, edited)
    BY <1>1, <2>1, <2>4 DEF GoodChange, Kinds
  <2> QED
    BY <2>2, <2>3, <2>5, MutateStep
<1>4. CASE refreshBaseline(t)
  <2>1. PICK h \in Hosts :
            Mutate(t, [kind |-> "baseline", host |-> h, reviewed |-> form[t].reviewed], 0, {})
    BY <1>4 DEF refreshBaseline
  <2>2. PICK change : change = [kind |-> "baseline", host |-> h, reviewed |-> form[t].reviewed]
    OBVIOUS
  <2>3. Mutate(t, change, 0, {})
    BY <2>1, <2>2
  <2>4. GoodChange(World, change, 0, {}) /\ Refetched(change.kind) = {}
    BY <1>1, <2>2 DEF GoodChange, Kinds, Refetched
  <2> QED
    BY <2>3, <2>4, MutateStep
<1>5. CASE approveRuntime(t)
  <2>1. PICK e \in Candidates : Mutate(t, [kind |-> "approve", endpoint |-> e], 0, {})
    BY <1>5 DEF approveRuntime
  <2>2. PICK change : change = [kind |-> "approve", endpoint |-> e]
    OBVIOUS
  <2>3. GoodChange(World, change, 0, {}) /\ Refetched(change.kind) = {}
    BY <1>1, <2>2 DEF GoodChange, Kinds, Refetched
  <2> QED
    BY <2>1, <2>2, <2>3, MutateStep
<1>6. CASE initiateBackup(t)
  <2>1. PICK change : change = [kind |-> "backup"]
    OBVIOUS
  <2>2. Mutate(t, change, 0, {})
    BY <1>6, <2>1 DEF initiateBackup
  <2>3. GoodChange(World, change, 0, {}) /\ Refetched(change.kind) = {}
    BY <1>1, <2>1 DEF GoodChange, Kinds, Refetched
  <2> QED
    BY <2>2, <2>3, MutateStep
<1>7. CASE save(t)
  <2>1. PICK change, base, edited :
            /\ change = [kind |-> "save", rule |-> Shown(t)]
            /\ base = (IF form[t].draft = <<>> THEN cache[t].data.at ELSE form[t].base)
            /\ edited = form[t].edited
    OBVIOUS
  <2>2. Mutate(t, change, base, edited)
    BY <1>7, <2>1 DEF save
  <2>3. Open(t, "rules") /\ cache[t].data.at # 0
    BY <1>7, OpenPage DEF save, Pages
  <2>4. /\ Shown(t) \in Drafts /\ base \in 1..World.now
        /\ GoodRule(World, Shown(t), base, form[t].edited)
    BY <2>1, <2>3, ShownIsGood
  <2>5. GoodChange(World, change, base, edited)
    BY <1>1, <2>1, <2>4 DEF GoodChange, Kinds
  <2> QED
    BY <2>2, <2>3, <2>5, MutateStep
<1> QED
  BY <1>2, <1>3, <1>4, <1>5, <1>6, <1>7
-----------------------------------------------------------------------------
(* The answer to a mutation.                                               *)

LEMMA CallFacts ==
    ASSUME IndInv, NEW t \in Tabs
    PROVE  /\ GoodCall(World, call[t]) /\ call = [u \in Tabs |-> call[u]]
           /\ call[t] = CallOf(call[t])
  BY TabFacts DEF GoodTab, GoodCall

LEMMA NoCallIsGood == ASSUME IndInv PROVE GoodCall(World, NoCall)
<1>1. World.now = now /\ now \in Nat
  BY DEF World, IndInv, ServerInv
<1> QED
  BY <1>1 DEF GoodCall, CallOf, NoCall

LEMMA RefuseStep ==
    ASSUME IndInv, NEW t \in Tabs, Refuse(t)
    PROVE  IndInv'
<1>1. /\ call' = [call EXCEPT ![t].at = "refused"] /\ call[t].at = "sent"
      /\ UNCHANGED <<role, server, up, restarts, page, cache, fetch, form, past>>
  BY DEF Refuse
<1>2. /\ Elsewhere(t)
      /\ call'[t] = CallOf(call'[t]) /\ call'[t].at = "refused"
      /\ call'[t].change = call[t].change /\ call'[t].done = call[t].done
  <2>1. call = [u \in Tabs |-> call[u]] /\ call[t] = CallOf(call[t])
    BY CallFacts
  <2>2. Elsewhere(t)
    BY <1>1, TabFacts DEF Elsewhere, past
  <2> QED
    BY <1>1, <2>1, <2>2 DEF CallOf
<1>3. CountInv'
  <2>1. Sent' \subseteq Sent
    BY <1>2 DEF Sent, Elsewhere
  <2> QED
    BY <1>1, <2>1, CountFrame DEF IndInv, server, past
<1>4. GoodCall(World, call'[t])
  BY <1>2, CallFacts DEF GoodCall
<1>5. GoodTold(World, page[t], cache[t], fetch[t], call'[t], told[t])
  BY <1>1, <1>2, TabFacts DEF GoodTab, GoodTold
<1>6. GoodTab(World, page[t], cache'[t], fetch'[t], form'[t], call'[t], told'[t])
  BY <1>1, <1>4, <1>5, TabFacts DEF GoodTab, past
<1> QED
  BY <1>1, <1>2, <1>3, <1>6, TabStep DEF past

LEMMA OnErrorStep ==
    ASSUME IndInv, NEW t \in Tabs, onError(t)
    PROVE  IndInv'
<1>1. /\ call' = [call EXCEPT ![t] = NoCall]
      /\ UNCHANGED <<role, server, up, restarts, page, cache, fetch, form, past>>
  BY DEF onError
<1>2. Elsewhere(t) /\ call'[t] = NoCall
  BY <1>1, TabFacts DEF Elsewhere, past
<1>3. CountInv'
  <2>1. Sent' \subseteq Sent
    BY <1>2 DEF Sent, Elsewhere, NoCall
  <2> QED
    BY <1>1, <2>1, CountFrame DEF IndInv, server, past
<1>4. GoodTold(World, page[t], cache[t], fetch[t], NoCall, told[t])
  BY TabFacts DEF GoodTab, GoodTold, NoCall
<1>5. GoodTab(World, page[t], cache'[t], fetch'[t], form'[t], call'[t], told'[t])
  BY <1>1, <1>2, <1>4, TabFacts, NoCallIsGood DEF GoodTab, past
<1> QED
  BY <1>1, <1>2, <1>3, <1>5, TabStep DEF past

(* The fetch that was under way is given up, whatever it had been          *)
(* answered, and another is sent.                                          *)
LEMMA OnSuccessStep ==
    ASSUME IndInv, NEW t \in Tabs, onSuccess(t)
    PROVE  IndInv'
<1>1. PICK queries, q, done : /\ queries = Refetched(call[t].change.kind)
                              /\ q = Query[page[t]] /\ done = call[t].done
  OBVIOUS
<1>2. /\ call[t].at = "done" /\ call' = [call EXCEPT ![t] = NoCall]
      /\ fetch' = IF q \in queries THEN refetch(t) ELSE fetch
      /\ told' = [told EXCEPT ![t] = [r \in DOMAIN @ |-> IF r \in queries THEN done ELSE @[r]]]
      /\ UNCHANGED <<role, server, up, restarts, page, cache, form, now, touched>>
  BY <1>1 DEF onSuccess
<1>3. told[t] \in [{"overview", "rules"} -> 0..World.now] /\ done \in 0..World.now
  BY <1>1, TabFacts DEF GoodTab, GoodTold, GoodCall
<1>4. /\ told' = [u \in Tabs |-> told'[u]] /\ \A u \in Tabs \ {t} : told'[u] = told[u]
      /\ told'[t] = [r \in {"overview", "rules"} |-> IF r \in queries THEN done ELSE told[t][r]]
  BY <1>2, <1>3, TabFacts
<1>5. queries \subseteq {"overview", "rules"}
  BY <1>1 DEF Refetched
<1>6. CASE q \in queries
  <2>1. cache[t].data.at # 0
    BY <1>1, <1>2, <1>5, <1>6, TabFacts DEF GoodTab, GoodTold
  <2>2. fetch' = [fetch EXCEPT ![t] = [at |-> "sent", data |-> NoData]]
    BY <1>2, <1>6, <2>1, TabFacts DEF refetch
  <2>3. Elsewhere(t) /\ call'[t] = NoCall /\ fetch'[t] = [at |-> "sent", data |-> NoData]
    BY <1>2, <1>4, <2>2, TabFacts DEF Elsewhere
  <2>4. CountInv'
    <3>1. Sent' \subseteq Sent
      BY <2>3 DEF Sent, Elsewhere, NoCall
    <3> QED
      BY <1>2, <3>1, CountFrame DEF IndInv, server
  <2>5. told'[t] \in [{"overview", "rules"} -> 0..World.now]
    BY <1>3, <1>4
  <2>6. GoodTold(World, page[t], cache[t], fetch'[t], NoCall, told'[t])
    BY <2>3, <2>5 DEF GoodTold, NoCall
  <2>7. GoodFetch(World, page[t], fetch'[t])
    BY <2>3 DEF GoodFetch
  <2>8. GoodTab(World, page[t], cache'[t], fetch'[t], form'[t], call'[t], told'[t])
    BY <1>2, <2>3, <2>6, <2>7, TabFacts, NoCallIsGood DEF GoodTab
  <2> QED
    BY <1>2, <2>3, <2>4, <2>8, TabStep
<1>7. CASE q \notin queries
  <2>1. Elsewhere(t) /\ call'[t] = NoCall /\ fetch' = fetch
    BY <1>2, <1>4, <1>7, TabFacts DEF Elsewhere
  <2>2. CountInv'
    <3>1. Sent' \subseteq Sent
      BY <2>1 DEF Sent, Elsewhere, NoCall
    <3> QED
      BY <1>2, <3>1, CountFrame DEF IndInv, server
  <2>3. told'[t] \in [{"overview", "rules"} -> 0..World.now]
    BY <1>3, <1>4
  <2>4. q \in {"overview", "rules"} => told'[t][q] = told[t][q]
    BY <1>4, <1>7
  <2>5. GoodTold(World, page[t], cache[t], fetch[t], NoCall, told'[t])
    BY <1>1, <2>3, <2>4, TabFacts DEF GoodTab, GoodTold, NoCall
  <2>6. GoodTab(World, page[t], cache'[t], fetch'[t], form'[t], call'[t], told'[t])
    BY <1>2, <2>1, <2>5, TabFacts, NoCallIsGood DEF GoodTab
  <2> QED
    BY <1>2, <2>1, <2>2, <2>6, TabStep
<1> QED
  BY <1>6, <1>7
-----------------------------------------------------------------------------
(* Changes and restarts.                                                   *)

LEMMA OnlyAdmins ==
    ASSUME NEW r \in Roles, NEW kind, requireNodeScopeRole(r, MinimumRole(kind))
    PROVE  r = "admin"
<1>1. roleRank["viewer"] = 1 /\ roleRank["operator"] = 2 /\ roleRank["administrator"] = 3
  BY DEF roleRank
<1>2. MinimumRole(kind) \in {"operator", "administrator"}
  BY DEF MinimumRole
<1>3. CASE r = "user"
  <2>1. nodeScopeRoleForTemplateUser(r) = "viewer"
    BY <1>3 DEF nodeScopeRoleForTemplateUser
  <2> QED
    BY <1>1, <1>2, <2>1 DEF requireNodeScopeRole
<1> QED
  BY <1>3 DEF Roles

(* What the procedures accept.                                             *)
LEMMA AcceptedChange ==
    ASSUME NEW change, change.kind \in Kinds, Accepted(change),
           change.kind = "save" => change.rule \in Drafts
    PROVE  /\ change.kind = "acknowledge" => change.alert \in Alerts
           /\ change.kind = "interval" => change.scope \in Scopes /\ change.seconds \in 1..60
           /\ change.kind = "save" => change.rule \in Saved
           /\ change.kind = "baseline" => change.host \in Hosts
<1>2. CASE change.kind = "acknowledge"
  BY <1>2 DEF Accepted, buildFleetSnapshot
<1>3. CASE change.kind = "interval"
  BY <1>3 DEF Accepted, requireHost, buildFleetSnapshot, Scopes
<1>4. CASE change.kind = "save"
  BY <1>4 DEF Accepted, Drafts, Saved
<1>5. CASE change.kind = "baseline"
  BY <1>5 DEF Accepted, requireHost, buildFleetSnapshot
<1>6. CASE change.kind \in {"approve", "backup"}
  BY <1>6
<1> QED
  BY <1>2, <1>3, <1>4, <1>5, <1>6 DEF Kinds

LEMMA HandledChange ==
    ASSUME IndInv, NEW t \in Tabs, Handle(t), NEW change, change = call[t].change
    PROVE  GoodInput(t, change) /\ Apply(t, change)
<1>1. /\ call[t].at = "sent" /\ Apply(t, change) /\ Accepted(change)
      /\ requireNodeScopeRole(role[t], MinimumRole(change.kind))
  BY DEF Handle
<1>2. role[t] = "admin"
  <2>1. role[t] \in Roles
    BY DEF IndInv, ServerInv
  <2> QED
    BY <1>1, <2>1, OnlyAdmins
<1>3. /\ change.kind \in Kinds
      /\ change.kind = "save" => change.rule \in Drafts
  BY <1>1, CallFacts DEF GoodCall, GoodChange
<1> QED
  BY <1>1, <1>2, <1>3, AcceptedChange DEF GoodInput

LEMMA HandleStep ==
    ASSUME IndInv, NEW t \in Tabs, Handle(t)
    PROVE  IndInv'
<1>1. PICK change : change = call[t].change
  OBVIOUS
<1>2. /\ GoodInput(t, change) /\ Apply(t, change) /\ call[t].at = "sent"
      /\ call' = [call EXCEPT ![t].at = "done", ![t].done = now']
      /\ UNCHANGED <<role, up, restarts, page, cache, fetch, form, told>>
  BY <1>1, HandledChange DEF Handle
<1>3. ServerInv' /\ Later(World, World') /\ TrailInv' /\ Len(audits') = Len(audits) + 1
  BY <1>2, ApplyServer, ApplyLater, ApplyTrail DEF IndInv
<1>4. /\ Elsewhere(t)
      /\ call'[t] = CallOf(call'[t]) /\ call'[t].at = "done"
      /\ call'[t].change = call[t].change /\ call'[t].done = now'
  <2>1. call = [u \in Tabs |-> call[u]] /\ call[t] = CallOf(call[t])
    BY CallFacts
  <2>2. Elsewhere(t)
    BY <1>2, TabFacts DEF Elsewhere
  <2> QED
    BY <1>2, <2>1, <2>2 DEF CallOf
<1>5. now' = now + 1 /\ now \in Nat /\ World'.now = now'
  BY <1>2 DEF Apply, IndInv, ServerInv, World
<1>6. CountInv'
  <2>1. t \in Sent /\ Sent' \subseteq Sent \ {t}
    BY <1>2, <1>4 DEF Sent, Elsewhere
  <2>2. Cardinality(Sent)' \in Nat /\ Cardinality(Sent)' <= Cardinality(Sent) - 1
    BY <2>1, SentLoses
  <2>3. Len(audits) \in Nat /\ restarts \in Nat /\ restarts' = restarts
    BY <1>2, ConsoleAssumption DEF IndInv, TrailInv, ServerInv
  <2> QED
    BY <1>3, <1>5, <2>2, <2>3, SentIsFinite, ConsoleAssumption DEF IndInv, CountInv
<1>7. GoodTab(World', page[t], cache[t], fetch[t], form[t], call[t], told[t])
  BY <1>3, TabFacts, TabLater
<1>8. GoodCall(World', call'[t])
  BY <1>4, <1>5 DEF GoodCall
<1>9. GoodTold(World', page[t], cache[t], fetch[t], call'[t], told[t])
  BY <1>2, <1>4, <1>7 DEF GoodTab, GoodTold
<1>10. GoodTab(World', page[t], cache'[t], fetch'[t], form'[t], call'[t], told'[t])
  BY <1>2, <1>7, <1>8, <1>9 DEF GoodTab
<1>11. TabsInv'
  BY <1>3, <1>4, <1>10, TabsStep DEF IndInv
<1> QED
  BY <1>3, <1>6, <1>11 DEF IndInv

LEMMA OtherOperatorStep ==
    ASSUME IndInv, OtherOperator
    PROVE  IndInv'
<1>1. PICK r \in Roles,
           change \in   [kind : {"acknowledge"}, alert : Alerts]
                   \cup [kind : {"interval"}, scope : Scopes, seconds : {1}]
                   \cup [kind : {"save"}, rule : [enabled : {0}, duration : {1}]]
                   \cup [kind : {"baseline"}, host : Hosts, reviewed : BOOLEAN]
                   \cup [kind : {"approve"}, endpoint : Endpoints]
                   \cup [kind : {"backup"}] :
          /\ now - 1 - restarts + Cardinality({t \in Tabs : call[t].at = "sent"}) < MaxChanges
          /\ requireNodeScopeRole(r, MinimumRole(change.kind)) /\ Accepted(change)
          /\ Apply(IF r = "admin" THEN "other" ELSE "viewer", change)
          /\ UNCHANGED <<role, up, restarts, browser, told>>
  BY DEF OtherOperator
<1>2. r = "admin"
  BY <1>1, OnlyAdmins
<1>3. Apply("other", change)
  BY <1>1, <1>2
<1>4. change.kind \in Kinds /\ (change.kind = "save" => change.rule \in Drafts)
  BY DEF Drafts, Kinds
<1>5. GoodInput("other", change)
  BY <1>1, <1>4, AcceptedChange DEF GoodInput
<1>6. ServerInv' /\ Later(World, World') /\ TrailInv' /\ Len(audits') = Len(audits) + 1
  BY <1>1, <1>3, <1>5, ApplyServer, ApplyLater, ApplyTrail DEF IndInv
<1>7. TabsInv'
  BY <1>1, <1>6, TabsFrame DEF IndInv
<1>8. CountInv'
  <2>1. Sent' = Sent /\ now' = now + 1 /\ restarts' = restarts
    BY <1>1 DEF Sent, browser, Apply
  <2>2. now - 1 - restarts + Cardinality(Sent) < MaxChanges
    BY <1>1 DEF Sent
  <2>3. Len(audits) \in Nat /\ restarts \in Nat /\ now \in Nat
    BY ConsoleAssumption DEF IndInv, TrailInv, ServerInv
  <2> QED
    BY <1>6, <2>1, <2>2, <2>3, SentIsFinite, ConsoleAssumption DEF IndInv, CountInv
<1> QED
  BY <1>6, <1>7, <1>8 DEF IndInv

LEMMA RestartStep ==
    ASSUME IndInv, Restart
    PROVE  IndInv'
<1>1. ServerInv' /\ Later(World, World') /\ TrailInv' /\ audits' = <<>>
  BY RestartServer, RestartLater, RestartTrail DEF IndInv
<1>2. TabsInv'
  BY <1>1, TabsFrame DEF IndInv, Restart
<1>3. CountInv'
  <2>1. Sent' = Sent /\ now' = now + 1 /\ restarts' = restarts + 1
    BY DEF Sent, browser, Restart
  <2>2. Len(audits) \in Nat /\ restarts \in Nat /\ now \in Nat /\ Len(audits') = 0
    BY <1>1, ConsoleAssumption DEF IndInv, TrailInv, ServerInv
  <2> QED
    BY <2>1, <2>2, SentIsFinite, ConsoleAssumption DEF IndInv, CountInv
<1> QED
  BY <1>1, <1>2, <1>3 DEF IndInv

LEMMA UnchangedStep ==
    ASSUME IndInv, UNCHANGED <<role, server, restarts, browser, past>>, up' \in BOOLEAN
    PROVE  IndInv'
<1>1. ServerInv' /\ Later(World, World')
  BY ServerFrame DEF IndInv, past
<1>2. TrailInv'
  BY TrailFrame DEF IndInv
<1>3. TabsInv'
  BY <1>1, TabsFrame DEF IndInv, past
<1>4. CountInv'
  BY CountFrame DEF Sent, browser, server, past, IndInv
<1> QED
  BY <1>1, <1>2, <1>3, <1>4 DEF IndInv

LEMMA NextStep == IndInv /\ [Next]_vars => IndInv'
<1> SUFFICES ASSUME IndInv, [Next]_vars PROVE IndInv'
  OBVIOUS
<1>1. ASSUME NEW t \in Tabs, TabAct(t) PROVE IndInv'
  BY <1>1, MutationSteps, SelectScopeStep, TypeSecondsStep, ReviewBaselineStep, PatchStep,
     RemountStep, FetchStarts DEF TabAct
<1>2. ASSUME NEW t \in Tabs, Poll(t) \/ FetchSteps(t) PROVE IndInv'
  BY <1>2, FetchStarts, ReadStep, NotFoundStep, DataArrivesStep, FetchFailsStep DEF FetchSteps
<1>3. ASSUME NEW t \in Tabs, CallSteps(t) PROVE IndInv'
  BY <1>3, HandleStep, RefuseStep, OnSuccessStep, OnErrorStep DEF CallSteps
<1>4. CASE ConnectionToggles
  <2>1. up' \in BOOLEAN /\ UNCHANGED <<role, server, restarts, browser, past>>
    BY <1>4, Zenon DEF ConnectionToggles
  <2> QED
    BY <2>1, UnchangedStep
<1>5. CASE UNCHANGED vars
  <2>1. up \in BOOLEAN
    BY DEF IndInv, ServerInv
  <2>2. up' \in BOOLEAN /\ UNCHANGED <<role, server, restarts, browser, past>>
    BY <1>5, <2>1 DEF vars
  <2> QED
    BY <2>2, UnchangedStep
<1> QED
  BY <1>1, <1>2, <1>3, <1>4, <1>5, OtherOperatorStep, RestartStep DEF Next

LEMMA InitInv == Init => IndInv
<1> SUFFICES ASSUME Init PROVE IndInv
  OBVIOUS
<1>1. ServerInv
  <2>1. interval \in Intervals /\ rule \in Saved /\ approved = {}
    BY DEF Init, DefaultInterval, DefaultRule, Intervals, Scopes, Saved
  <2>2. now = 1 /\ touched \in [Settings -> 1..now] /\ restarts \in 0..MaxRestarts
    BY ConsoleAssumption DEF Init
  <2>3. role \in [Tabs -> Roles] /\ up \in BOOLEAN
    BY DEF Init
  <2> QED
    BY <2>1, <2>2, <2>3 DEF ServerInv
<1>2. TrailInv /\ audits = <<>>
  BY NoTrail DEF Init
<1>3. now = 1 /\ restarts = 0 /\ World.now = 1
  BY DEF Init, World
<1>4. /\ page \in [Tabs -> Pages]
      /\ cache = [t \in Tabs |-> [data |-> NoData, failed |-> FALSE]]
      /\ fetch = [t \in Tabs |-> [at |-> "sent", data |-> NoData]]
      /\ form = [t \in Tabs |-> NewForm] /\ call = [t \in Tabs |-> NoCall]
      /\ told = [t \in Tabs |-> [q \in {"overview", "rules"} |-> 0]]
  BY DEF Init
<1>5. TabsInv
  <2>1. ASSUME NEW t \in Tabs
        PROVE  GoodTab(World, page[t], cache[t], fetch[t], form[t], call[t], told[t])
    <3>1. GoodCache(World, page[t], cache[t]) /\ GoodFetch(World, page[t], fetch[t])
      <4>1. /\ cache[t] = [data |-> NoData, failed |-> FALSE]
            /\ fetch[t] = [at |-> "sent", data |-> NoData]
        BY <1>4
      <4>2. GoodData(World, page[t], NoData)
        BY <1>3 DEF GoodData, NoData
      <4>3. GoodFetch(World, page[t], fetch[t])
        BY <4>1 DEF GoodFetch
      <4> QED
        BY <4>1, <4>2, <4>3 DEF GoodCache
    <3>2. GoodForm(World, page[t], form[t])
      <4>1. form[t] = NewForm
        BY <1>4
      <4>2. GoodForm(World, page[t], NewForm)
        BY <1>3, NewFormIsGood
      <4> QED
        BY <4>1, <4>2
    <3>3. GoodCall(World, call[t])
      <4>1. call[t] = NoCall
        BY <1>4
      <4>2. GoodCall(World, NoCall)
        BY <1>3 DEF GoodCall, CallOf, NoCall
      <4> QED
        BY <4>1, <4>2
    <3>4. GoodTold(World, page[t], cache[t], fetch[t], call[t], told[t])
      BY <1>3, <1>4 DEF GoodTold, NoCall, NoData
    <3> QED
      BY <1>4, <3>1, <3>2, <3>3, <3>4 DEF GoodTab
  <2> QED
    BY <1>4, <2>1 DEF TabsInv
<1>6. CountInv
  <2>1. Sent = {}
    BY <1>4 DEF Sent, NoCall
  <2>2. Cardinality(Sent) = 0 /\ Len(audits) = 0
    BY <1>2, <2>1, FS_EmptySet
  <2> QED
    BY <1>3, <2>2, ConsoleAssumption DEF CountInv
<1> QED
  BY <1>1, <1>2, <1>5, <1>6 DEF IndInv
-----------------------------------------------------------------------------
(* The strengthened invariant.                                             *)
THEOREM ConsoleInvariant == Spec => []IndInv
  BY InitInv, NextStep, PTL DEF Spec

(* A tab that was told by onSuccess that its change was carried out, and   *)
(* has read since, shows the server's state after that change: refetch()   *)
(* gives up the poll whose answer is older.                                *)
THEOREM ChangesToldAreShown == Spec => []ToldThenShown
<1>1. IndInv => ToldThenShown
  <2> SUFFICES ASSUME IndInv, NEW t \in Tabs,
                      Query[page[t]] \in DOMAIN told[t], fetch[t].at = "none",
                      Screen(t) # "loading", ~cache[t].failed
               PROVE  cache[t].data.at >= told[t][Query[page[t]]]
    BY DEF ToldThenShown
  <2>1. GoodTold(World, page[t], cache[t], fetch[t], call[t], told[t])
    BY TabFacts DEF GoodTab
  <2>2. cache[t].data.at # 0
    BY DEF Screen
  <2> QED
    BY <2>1, <2>2 DEF GoodTold
<1> QED
  BY <1>1, ConsoleInvariant, PTL

(* Whatever is lost on the way and however often the server starts again,  *)
(* the audit trail of router.ts explains the state its procedures keep,    *)
(* and every entry of it is an administrator's.                            *)
THEOREM TrailStaysComplete == Spec => []TrailIsComplete
<1>1. IndInv => TypeOK
  <2> SUFFICES ASSUME IndInv PROVE TypeOK
    OBVIOUS
  <2>1. /\ role \in [Tabs -> Roles] /\ up \in BOOLEAN /\ restarts \in 0..MaxRestarts
        /\ interval \in [Scopes -> 0..60] /\ interval["global"] # 0
        /\ touched \in [Settings -> 1..now]
    BY DEF IndInv, ServerInv, Intervals
  <2>2. rule.enabled \in 0..1 /\ rule.duration \in 1..2
    BY DEF IndInv, ServerInv, Saved
  <2>3. acked \subseteq Alerts /\ approved \subseteq 2..now
    BY DEF IndInv, ServerInv, TrailInv
  <2>4. Len(audits) <= MaxChanges
    <3>1. Len(audits) \in Nat /\ restarts \in Nat /\ now \in Nat
      BY ConsoleAssumption DEF IndInv, TrailInv, ServerInv
    <3> QED
      BY <3>1, SentIsFinite, ConsoleAssumption DEF IndInv, CountInv
  <2>5. /\ page \in [Tabs -> Pages]
        /\ told \in [Tabs -> [{"overview", "rules"} -> 0..now]]
    <3>1. \A t \in Tabs : page[t] \in Pages /\ told[t] \in [{"overview", "rules"} -> 0..now]
      BY TabFacts DEF GoodTab, GoodTold
    <3> QED
      BY <3>1 DEF IndInv, TabsInv
  <2>6. ASSUME NEW t \in Tabs
        PROVE  /\ cache[t].data.at <= now /\ cache[t].failed \in BOOLEAN
               /\ fetch[t].at \in {"none", "sent", "answered", "refused"}
               /\ call[t].at \in {"none", "sent", "done", "refused"}
               /\ form[t].scope \in Scopes /\ form[t].seconds \in 1..60
    <3>1. /\ GoodCache(World, page[t], cache[t]) /\ GoodFetch(World, page[t], fetch[t])
          /\ GoodForm(World, page[t], form[t]) /\ GoodCall(World, call[t])
          /\ World.now = now /\ now \in Nat
      BY TabFacts DEF GoodTab
    <3>2. cache[t].failed \in BOOLEAN /\ cache[t].data.at <= now
      BY <3>1 DEF GoodCache, GoodData
    <3> QED
      BY <3>1, <3>2 DEF GoodFetch, GoodCall, GoodForm
  <2> QED
    BY <2>1, <2>2, <2>3, <2>4, <2>5, <2>6 DEF TypeOK
<1>2. IndInv => AuditExplains
  <2> SUFFICES ASSUME IndInv PROVE AuditExplains
    OBVIOUS
  <2>1. ASSUME NEW s \in Scopes
        PROVE  interval[s] = IF Entries("interval", s) = {} THEN DefaultInterval[s]
                             ELSE audits[Min(Entries("interval", s))].seconds
    <3>1. CASE Entries("interval", s) = {}
      BY <3>1 DEF IndInv, TrailInv, Recorded
    <3>2. CASE Entries("interval", s) # {}
      <4>1. PICK i \in Entries("interval", s) :
                /\ \A j \in Entries("interval", s) : i <= j
                /\ interval[s] = audits[i].seconds
        BY <3>2 DEF IndInv, TrailInv, Recorded
      <4>2. Entries("interval", s) \subseteq Int
        BY DEF Entries, IndInv, TrailInv
      <4>3. Min(Entries("interval", s)) = i
        BY <4>1, <4>2 DEF Min
      <4> QED
        BY <3>2, <4>1, <4>3
    <3> QED
      BY <3>1, <3>2
  <2> QED
    BY <2>1 DEF AuditExplains, IndInv, TrailInv, Approvals
<1>3. IndInv => TrailIsComplete
  BY <1>1, <1>2 DEF TrailIsComplete, IndInv, TrailInv
<1> QED
  BY <1>3, ConsoleInvariant, PTL
-----------------------------------------------------------------------------
(* A mutation under way is carried out by Handle, and by nothing else.     *)
LEMMA OnlyHandleFinishes ==
    ASSUME IndInv, Next, NEW t \in Tabs, call[t].at = "sent", call'[t].at = "done"
    PROVE  Handle(t)
<1>1. call' # call
  OBVIOUS
<1>2. ASSUME NEW u \in Tabs, NEW change, NEW base, NEW edited, Mutate(u, change, base, edited)
      PROVE  FALSE
  <2>1. u # t /\ call' = [call EXCEPT ![u] = [at |-> "sent", change |-> change, base |-> base,
                                              edited |-> edited, done |-> 0]]
    BY <1>2 DEF Mutate
  <2>2. call'[t] = call[t]
    BY <2>1, TabFacts
  <2> QED
    BY <2>2
<1>3. ASSUME NEW u \in Tabs, TabAct(u) PROVE FALSE
  <2>1. CASE \/ acknowledge(u) \/ setCollectionInterval(u) \/ refreshBaseline(u)
             \/ approveRuntime(u) \/ initiateBackup(u) \/ save(u)
    <3>1. \E change, base, edited : Mutate(u, change, base, edited)
      BY <2>1 DEF acknowledge, setCollectionInterval, refreshBaseline, approveRuntime,
                  initiateBackup, save
    <3> QED
      BY <1>2, <3>1
  <2>2. CASE \/ SelectScope(u) \/ TypeSeconds(u) \/ ReviewBaseline(u) \/ patch(u)
             \/ Remount(u) \/ Refresh(u)
    BY <1>1, <2>2 DEF SelectScope, TypeSeconds, ReviewBaseline, patch, Remount, Refresh
  <2> QED
    BY <1>3, <2>1, <2>2 DEF TabAct
<1>4. ASSUME NEW u \in Tabs, Poll(u) \/ FetchSteps(u) PROVE FALSE
  BY <1>1, <1>4 DEF Poll, FetchSteps, Read, NotFound, DataArrives, FetchFails
<1>5. ASSUME NEW u \in Tabs, CallSteps(u) PROVE Handle(t)
  <2>1. CASE Handle(u)
    <3>1. u # t => call'[t] = call[t]
      BY <2>1, TabFacts DEF Handle
    <3> QED
      BY <2>1, <3>1
  <2>2. CASE Refuse(u)
    <3>1. u # t => call'[t] = call[t]
      BY <2>2, TabFacts DEF Refuse
    <3>2. u = t => call'[t].at = "refused"
      <4>1. call = [v \in Tabs |-> call[v]] /\ call[t] = CallOf(call[t])
        BY CallFacts
      <4> QED
        BY <2>2, <4>1 DEF Refuse, CallOf
    <3> QED
      BY <3>1, <3>2
  <2>3. CASE onSuccess(u) \/ onError(u)
    <3>1. call' = [call EXCEPT ![u] = NoCall]
      BY <2>3 DEF onSuccess, onError
    <3>2. call'[t] \in {call[t], NoCall}
      BY <3>1, TabFacts
    <3> QED
      BY <3>2 DEF NoCall
  <2> QED
    BY <1>5, <2>1, <2>2, <2>3 DEF CallSteps
<1>6. CASE OtherOperator \/ Restart \/ ConnectionToggles
  BY <1>1, <1>6 DEF OtherOperator, Restart, ConnectionToggles, browser
<1> QED
  BY <1>3, <1>4, <1>5, <1>6 DEF Next

LEMMA HandledUnseen ==
    ASSUME IndInv, NEW t \in Tabs, Handle(t),
           NEW s \in Written(call[t].change) \ call[t].edited, Value(s)' # Value(s)
    PROVE  \/ call[t].base # 0 /\ LastTouched(s) > call[t].base
           \/ call[t].base = 0 /\ s = "global" /\ Value(s)' = 5
<1>1. PICK change, base, edited :
          change = call[t].change /\ base = call[t].base /\ edited = call[t].edited
  OBVIOUS
<1>2. GoodInput(t, change) /\ Apply(t, change) /\ GoodChange(World, change, base, edited)
  BY <1>1, HandledChange, CallFacts DEF Handle, GoodCall
<1>3. CASE change.kind = "interval"
  <2>1. s = change.scope /\ s \in Scopes /\ s \notin edited /\ s \notin Fields /\ s \in Settings
    BY <1>1, <1>2, <1>3, WrittenSettings, ScopesAreNotFields DEF GoodInput, Settings
  <2>2. change.seconds \in 1..60 /\ Offered(World, s, change.seconds, base)
    BY <1>2, <1>3, <2>1 DEF GoodChange
  <2>3. interval \in [Scopes -> 0..60] /\ interval' = [interval EXCEPT ![s] = change.seconds]
    BY <1>2, <1>3, <2>1 DEF IndInv, ServerInv, Intervals, Apply
  <2>4. Value(s)' = change.seconds
    BY <2>1, <2>2, <2>3 DEF Value, Effective
  <2> QED
    BY <1>1, <2>1, <2>2, <2>4 DEF Offered, Current, World
<1>4. CASE change.kind = "save"
  <2>1. s \in Fields /\ s \notin edited /\ s \in Settings
    BY <1>1, <1>4, WrittenSettings DEF Settings
  <2>2. base # 0 /\ Current(World, s, change.rule[s], base)
    BY <1>2, <1>4, <2>1 DEF GoodChange, GoodRule
  <2>3. Value(s)' = change.rule[s]
    BY <1>2, <1>4, <2>1 DEF Value, Apply
  <2> QED
    BY <1>1, <2>1, <2>2, <2>3 DEF Current, World
<1>5. CASE change.kind \notin {"interval", "save"}
  BY <1>1, <1>5, WrittenSettings
<1> QED
  BY <1>3, <1>4, <1>5

(* setCollectionInterval and rules.save send whole values; still, what     *)
(* they overwrite without the operator's having edited it was changed by   *)
(* someone after the operator's page had read it.  Except for one case,    *)
(* which the statement names: OperationsPage's interval field starts at 5, *)
(* and applied untouched it sets the global interval to 5 whatever that    *)
(* was, even over a value the page showed.                                 *)
THEOREM OnlyUnseenChangesAreUndone == Spec => NothingUndoneUnseen
<1>1. IndInv /\ [Next]_vars =>
        [\A t \in Tabs :
            (call[t].at = "sent" /\ call'[t].at = "done")
                => \A s \in Written(call[t].change) \ call[t].edited :
                       Value(s)' # Value(s) =>
                           \/ call[t].base # 0 /\ LastTouched(s) > call[t].base
                           \/ call[t].base = 0 /\ s = "global" /\ Value(s)' = 5]_vars
  <2> SUFFICES ASSUME IndInv, Next, NEW t \in Tabs, call[t].at = "sent", call'[t].at = "done",
                      NEW s \in Written(call[t].change) \ call[t].edited, Value(s)' # Value(s)
               PROVE  \/ call[t].base # 0 /\ LastTouched(s) > call[t].base
                      \/ call[t].base = 0 /\ s = "global" /\ Value(s)' = 5
    OBVIOUS
  <2> QED
    BY OnlyHandleFinishes, HandledUnseen
<1> QED
  BY <1>1, ConsoleInvariant, PTL DEF Spec, NothingUndoneUnseen
=============================================================================
