-------------------------- MODULE ConsoleServerProofs --------------------------
(***************************************************************************)
(* Proofs about the console's server.                                      *)
(*                                                                         *)
(* ConsoleSession: the safety invariants for any number of tabs, frames    *)
(* and people.                                                             *)
(*                                                                         *)
(* ForgeClients: for any number of callers and calls, any number of        *)
(* retries, any statuses and any values of Retry-After.                    *)
(***************************************************************************)
EXTENDS ConsoleSession, ForgeClients, FiniteSetTheorems, TLAPS

(* A token that names its bearer is not of a person without a name.        *)
Honest(tok) == tok.named => tok.who \notin Nameless

(* Only a page of the console waits for an answer.  A request gets past    *)
(* the check of its token only with a session, one that is calm was sent   *)
(* after the services stopped last, and one that is refused all the same   *)
(* was refused for want of a database.                                     *)
GoodRequest(r, place) ==
    /\ Honest(r.tok)
    /\ r.at # "idle" => place = "app"
    /\ r.at # "idle" /\ r.calm => up
    /\ r.at \notin {"idle", "unknown"} => verifySession(r.tok)
    /\ r.at \in {"lookup", "sync"} => r.tok.who # Task
    /\ r.at = "cron" => r.tok.who = Task
    /\ r.at = "unknown" /\ r.calm /\ verifySession(r.tok) /\ r.tok.who # Task
           => deployment = "no_database"

(* Whoever a tab is signed in as, or will be when it hears the answer it   *)
(* waits for, signed in here (people) or was mirrored into the frame.      *)
Signed(t, m, r, people) ==
    /\ m.bearer.who \in Mirrored(t) \cup {Nobody}
    /\ m.at = "exchanging" => m.who \in people
    /\ m.shown \in people \cup Mirrored(t) \cup {Nobody}
    /\ r.tok.who \in people \cup Mirrored(t) \cup {Nobody}

(* A request that goes on does so in the role that is stored (in db).      *)
GoodRole(r, db) ==
    r.at = "known" =>
        /\ r.role = IF r.tok.who = Task THEN "user" ELSE db[r.tok.who]
        /\ r.role # "none"
        /\ r.role = "admin" => r.tok.who = Owner

(* A page of the console has no login under way, a callback that goes on   *)
(* has a nonce and a person, and nobody nameless is shown.                 *)
GoodTab(m) ==
    /\ Honest(m.bearer)
    /\ m.at = "app" => m.nonce = 0
    /\ m.at = "exchanging" => m.nonce # 0 /\ m.who \in Users
    /\ m.shown \notin Nameless

(* The state cookie is that of the latest login where it can be set.       *)
LatestInv == Secure /\ latest # 0 => state = latest

(* What the tabs share.                                                    *)
SharedInv ==
    /\ deployment \in Deployments /\ up \in BOOLEAN
    /\ rows \in [Accounts -> Roles] /\ rows[Owner] # "user"
    /\ session \in Tokens /\ Honest(session)
    /\ state \in Nonces \cup {0} /\ used \subseteq Nonces
    /\ latest \in Nonces \cup {0} /\ earned \subseteq Users
    /\ OnlyOwnLogins /\ RolesStored
    /\ LatestInv /\ wronged = FALSE

(* The types of a tab and of its request.                                  *)
TabType ==
    [at : Places, nonce : Nonces \cup {0}, who : Users \cup {Nobody},
     bearer : Tokens, shown : Accounts \cup {Nobody}]

RequestType ==
    [at : {"idle", "lookup", "sync", "cron", "known", "unknown"},
     kind : {"me", "poll", "logout"}, tok : Tokens, calm : BOOLEAN, role : Roles]

IndInv ==
    /\ SharedInv
    /\ tab \in [Tabs -> TabType] /\ req \in [Tabs -> RequestType]
    /\ \A t \in Tabs :
         /\ GoodTab(tab[t]) /\ GoodRequest(req[t], tab[t].at)
         /\ Signed(t, tab[t], req[t], earned) /\ GoodRole(req[t], rows)

(* What becomes of the user table: a row that is there stays as it is.     *)
RowsKept ==
    /\ rows' \in [Accounts -> Roles] /\ rows'[Owner] # "user"
    /\ RolesStored'
    /\ \A a \in Accounts : rows[a] # "none" => rows'[a] = rows[a]
-----------------------------------------------------------------------------
LEMMA Constants ==
    /\ IsFiniteSet(Tabs) /\ Cardinality(Tabs) \in Nat
    /\ Nonces \subseteq Nat \ {0}
    /\ Task \notin Users /\ Nobody \notin Users /\ Nobody # Task
    /\ Owner \in Users /\ Nameless \subseteq Users
    /\ Accounts = Users \cup {Task}
    /\ NoToken \in Tokens /\ NoToken.who = Nobody /\ NoToken.named = FALSE
<1>1. Cardinality(Tabs) \in Nat
  BY SessionAssumption, FS_CardinalityType
<1> QED
  BY <1>1, SessionAssumption DEF Nonces, Accounts, Tokens, NoToken

LEMMA TokenFields ==
    ASSUME NEW tok \in Tokens
    PROVE  /\ tok.named \in BOOLEAN
           /\ tok.who \in Accounts \cup {Nobody}
           /\ tok.who = Nobody => tok = NoToken
  BY Constants DEF Tokens, NoToken

LEMMA CreatedToken ==
    ASSUME NEW who \in Accounts
    PROVE  /\ createSessionToken(who) \in Tokens /\ Honest(createSessionToken(who))
           /\ createSessionToken(who).who = who
           /\ createSessionToken(who) # NoToken
<1>1. createSessionToken(who) = [who |-> who, named |-> who \notin Nameless]
  BY DEF createSessionToken
<1>2. (who \notin Nameless) \in BOOLEAN
  OBVIOUS
<1>3. createSessionToken(who).who = who /\ createSessionToken(who).named = (who \notin Nameless)
  BY <1>1
<1> QED
  BY <1>1, <1>2, <1>3, Constants DEF Tokens, Honest

(* What a new request is: past the check of its token or answered.         *)
LEMMA NewRequest ==
    ASSUME NEW tok \in Tokens, NEW kind \in {"me", "poll", "logout"}, up \in BOOLEAN
    PROVE  /\ Request(kind, tok) \in RequestType
           /\ Request(kind, tok).tok = tok /\ Request(kind, tok).calm = up
           /\ Request(kind, tok).at \in {"lookup", "cron", "unknown"}
           /\ Request(kind, tok).at # "unknown" <=> verifySession(tok)
           /\ Request(kind, tok).at = "lookup" => tok.who # Task
           /\ Request(kind, tok).at = "cron" => tok.who = Task
           /\ Request(kind, tok).at # "known"
  BY DEF Request, FirstStep, RequestType, verifySession, Roles

LEMMA IdleRequest ==
    /\ Idle \in RequestType /\ Idle.at = "idle" /\ Idle.tok = NoToken
    /\ Honest(NoToken) /\ ~verifySession(NoToken)
    /\ Idle.tok.who = Nobody
  BY Constants DEF Idle, RequestType, Honest, verifySession, Roles

(* A tab of the console that starts a login finds a nonce nobody holds.    *)
LEMMA FreshNonce ==
    ASSUME NEW t \in Tabs, tab[t].nonce = 0
    PROVE  (CHOOSE n \in Nonces : n \notin Held) \in Nonces
<1> DEFINE f == [u \in Tabs |-> tab[u].nonce]
           N == {tab[u].nonce : u \in Tabs}
           k == Cardinality(Tabs)
<1>1. f \in Surjection(Tabs, N)
  BY DEF Surjection
<1>2. IsFiniteSet(N) /\ Cardinality(N) <= k
  BY <1>1, Constants, FS_Surjection
<1>3. Held = N \cup {state}
  BY DEF Held
<1>4. IsFiniteSet(Held) /\ Cardinality(Held) <= k + 1
  <2>1. Cardinality(N) \in Nat
    BY <1>2, FS_CardinalityType
  <2> HIDE DEF N
  <2>2. /\ IsFiniteSet(N \cup {state})
        /\ Cardinality(N \cup {state}) =
               IF state \in N THEN Cardinality(N) ELSE Cardinality(N) + 1
    BY <1>2, FS_AddElement
  <2> QED
    BY <1>2, <1>3, <2>1, <2>2, Constants
<1>5. ASSUME Nonces \subseteq Held PROVE FALSE
  <2>1. 0 .. (k + 1) \subseteq Held
    <3>1. 0 \in Held
      BY DEF Held
    <3>2. 0 .. (k + 1) = {0} \cup (1 .. (k + 1))
      BY Constants
    <3> QED
      BY <1>5, <3>1, <3>2 DEF Nonces
  <2>2. Cardinality(0 .. (k + 1)) <= Cardinality(Held)
    BY <1>4, <2>1, FS_Subset
  <2>3. Cardinality(0 .. (k + 1)) = k + 2
    BY FS_Interval, Constants
  <2>4. Cardinality(Held) \in Nat
    BY <1>4, FS_CardinalityType
  <2> QED
    BY <1>4, <2>2, <2>3, <2>4, Constants
<1> QED
  BY <1>5
-----------------------------------------------------------------------------
LEMMA InvType == IndInv => TypeOK
  BY DEF IndInv, SharedInv, TypeOK, TabType, RequestType

(* The role a request goes on in stays the stored one.                     *)
LEMMA GoodRoleStays ==
    ASSUME RowsKept, NEW r \in RequestType, NEW place, GoodRequest(r, place), GoodRole(r, rows)
    PROVE  GoodRole(r, rows')
<1> SUFFICES ASSUME r.at = "known" PROVE GoodRole(r, rows')
  BY DEF GoodRole
<1>1. CASE r.tok.who = Task
  BY <1>1 DEF GoodRole
<1>2. CASE r.tok.who # Task
  <2>1. r.tok.who \in Accounts
    BY TokenFields DEF RequestType, GoodRequest, verifySession
  <2> QED
    BY <1>2, <2>1 DEF GoodRole, RowsKept
<1> QED
  BY <1>1, <1>2

(* A step of one tab.                                                      *)
LEMMA TabStep ==
    ASSUME IndInv, UNCHANGED <<up, deployment>>, SharedInv', RowsKept, earned \subseteq earned',
           NEW t \in Tabs, NEW m \in TabType, NEW r \in RequestType,
           tab' = [tab EXCEPT ![t] = m], req' = [req EXCEPT ![t] = r],
           GoodTab(m), GoodRequest(r, m.at),
           Signed(t, m, r, earned'), GoodRole(r, rows')
    PROVE  IndInv'
<1>1. tab' \in [Tabs -> TabType] /\ req' \in [Tabs -> RequestType]
  BY DEF IndInv
<1>2. /\ tab'[t] = m /\ req'[t] = r
      /\ \A u \in Tabs \ {t} : tab'[u] = tab[u] /\ req'[u] = req[u]
  BY DEF IndInv
<1>3. ASSUME NEW u \in Tabs PROVE (GoodTab(tab[u]) /\ GoodRequest(req[u], tab[u].at))'
  <2>1. GoodTab(tab'[u]) /\ GoodRequest(req'[u], tab'[u].at)
    BY <1>2 DEF IndInv
  <2> QED
    BY <2>1 DEF GoodTab, GoodRequest
<1>4. ASSUME NEW u \in Tabs PROVE Signed(u, tab[u], req[u], earned)'
  <2>1. Signed(u, tab'[u], req'[u], earned')
    BY <1>2 DEF IndInv, Signed
  <2> QED
    BY <2>1 DEF Signed, Mirrored
<1>5. ASSUME NEW u \in Tabs PROVE GoodRole(req[u], rows)'
  <2>1. GoodRole(req'[u], rows')
    BY <1>2, GoodRoleStays DEF IndInv
  <2> QED
    BY <2>1 DEF GoodRole
<1> QED
  BY <1>1, <1>3, <1>4, <1>5 DEF IndInv

LEMMA SameTab ==
    ASSUME IndInv, NEW t \in Tabs
    PROVE  /\ tab[t] \in TabType /\ req[t] \in RequestType
           /\ GoodTab(tab[t]) /\ GoodRequest(req[t], tab[t].at)
           /\ Signed(t, tab[t], req[t], earned) /\ GoodRole(req[t], rows)
           /\ tab = [tab EXCEPT ![t] = tab[t]]
           /\ req = [req EXCEPT ![t] = req[t]]
  BY DEF IndInv

(* A login or a request of a person stores that person, with a role.       *)
LEMMA Upsert ==
    ASSUME SharedInv, NEW who \in Users, upsertUser(who), UNCHANGED deployment
    PROVE  /\ RowsKept
           /\ rows'[who] = "none" => deployment = "no_database"
<1>1. CASE deployment = "no_database"
  BY <1>1 DEF SharedInv, upsertUser, RolesStored, RowsKept
<1>2. CASE deployment # "no_database"
  <2>1. rows' = [rows EXCEPT ![who] = IF who = Owner THEN "admin"
                                      ELSE IF rows[who] = "none" THEN "user" ELSE rows[who]]
    BY <1>2 DEF upsertUser, Stored
  <2> QED
    BY <2>1, Constants DEF SharedInv, RolesStored, RowsKept, Roles
<1> QED
  BY <1>1, <1>2

LEMMA SameRows ==
    ASSUME SharedInv, rows' = rows
    PROVE  RowsKept
  BY DEF SharedInv, RowsKept, RolesStored

(* What a handler does whose client went away.                             *)
LEMMA LeftBehind ==
    ASSUME IndInv, NEW t \in Tabs, LeftAlone(t), UNCHANGED deployment
    PROVE  RowsKept
<1>1. CASE rows' = rows
  BY <1>1, SameRows DEF IndInv
<1>2. CASE req[t].at = "sync" /\ upsertUser(req[t].tok.who)
  <2>1. req[t].tok.who \in Users
    BY <1>2, SameTab, TokenFields, Constants DEF GoodRequest, verifySession, RequestType
  <2> QED
    BY <1>2, <2>1, Upsert DEF IndInv
<1> QED
  BY <1>1, <1>2 DEF LeftAlone

LEMMA InitInv == Init => IndInv
<1> SUFFICES ASSUME Init PROVE IndInv
  OBVIOUS
<1> USE DEF Init
<1>1. SharedInv
  BY Constants, IdleRequest
  DEF SharedInv, OnlyOwnLogins, RolesStored, LatestInv, Roles
<1>2. ASSUME NEW t \in Tabs
      PROVE  /\ tab[t] \in TabType /\ GoodTab(tab[t])
             /\ req[t] = Request("me", NoToken) /\ tab[t].at = "app"
  BY Constants, IdleRequest DEF TabType, GoodTab, Places
<1>3. Request("me", NoToken) \in RequestType /\ GoodRequest(Request("me", NoToken), "app")
  BY Constants, NewRequest, IdleRequest DEF GoodRequest
<1>4. ASSUME NEW t \in Tabs PROVE Signed(t, tab[t], req[t], earned) /\ GoodRole(req[t], rows)
  <2>1. req[t].tok = NoToken /\ req[t].at # "known"
    BY <1>2, Constants, NewRequest
  <2> QED
    BY <2>1, Constants DEF Signed, GoodRole
<1> QED
  BY <1>1, <1>2, <1>3, <1>4 DEF IndInv
-----------------------------------------------------------------------------
(* Logins.                                                                 *)
LEMMA StartLoginStep ==
    ASSUME IndInv, NEW t \in Tabs, tab[t].at = "app", startLogin(t),
           UNCHANGED <<up, deployment>>, RowsKept
    PROVE  IndInv'
<1> DEFINE n == CHOOSE k \in Nonces : k \notin Held
           m == [tab[t] EXCEPT !.at = "portal", !.nonce = n, !.shown = Nobody]
<1>1. tab[t] \in TabType /\ GoodTab(tab[t]) /\ tab[t].nonce = 0
  BY SameTab DEF GoodTab
<1>2. n \in Nonces
  BY <1>1, FreshNonce
<1> HIDE DEF n
<1>3. /\ state' = IF Secure THEN n ELSE state
      /\ used' = used \ {n} /\ latest' = n
      /\ tab' = [tab EXCEPT ![t].at = "portal", ![t].nonce = n, ![t].shown = Nobody]
      /\ req' = [req EXCEPT ![t] = Idle]
      /\ UNCHANGED <<session, wronged, earned>>
  BY DEF startLogin, n
<1>4. tab' = [tab EXCEPT ![t] = m]
  BY <1>3
<1>5. m \in TabType /\ GoodTab(m)
  BY <1>1, <1>2, Constants DEF TabType, GoodTab, Places
<1>6. GoodRequest(Idle, m.at)
  BY IdleRequest DEF GoodRequest
<1>7. SharedInv'
  BY <1>2, <1>3 DEF IndInv, SharedInv, OnlyOwnLogins, LatestInv, Secure, Honest, RowsKept
<1>8. Signed(t, m, Idle, earned') /\ GoodRole(Idle, rows')
  BY <1>1, <1>3, SameTab, IdleRequest DEF Signed, GoodRole, TabType
<1> HIDE DEF m
<1> QED
  BY <1>3, <1>4, <1>5, <1>6, <1>7, <1>8, IdleRequest, TabStep

(* The page is loaded and asks who is there.                               *)
LEMMA LoadStep ==
    ASSUME IndInv, NEW t \in Tabs, NEW cookie \in Tokens, Honest(cookie),
           cookie.who \in earned \cup {Nobody},
           Load(t, cookie), UNCHANGED <<up, deployment, earned>>, SharedInv', RowsKept
    PROVE  IndInv'
<1> DEFINE m == [tab[t] EXCEPT !.at = "app", !.nonce = 0, !.who = Nobody, !.shown = Nobody]
           r == Request("me", SentToken(t, cookie))
<1>1. tab[t] \in TabType /\ GoodTab(tab[t])
  BY SameTab
<1>2. SentToken(t, cookie) \in Tokens /\ Honest(SentToken(t, cookie))
  BY <1>1 DEF SentToken, TabType, GoodTab
<1>3. tab' = [tab EXCEPT ![t] = m] /\ req' = [req EXCEPT ![t] = r]
  BY DEF Load
<1>4. m \in TabType /\ GoodTab(m) /\ m.at = "app"
  BY <1>1, Constants DEF TabType, GoodTab, Places
<1>5. r \in RequestType /\ GoodRequest(r, "app")
  <2>1. up \in BOOLEAN
    BY DEF IndInv, SharedInv
  <2> QED
    BY <1>2, <2>1, NewRequest DEF GoodRequest
<1>6. Signed(t, m, r, earned') /\ GoodRole(r, rows')
  <2>1. r.tok = SentToken(t, cookie) /\ r.at # "known"
    BY <1>2, NewRequest DEF IndInv, SharedInv
  <2>2. SentToken(t, cookie).who \in earned \cup Mirrored(t) \cup {Nobody}
    BY SameTab DEF SentToken, Signed
  <2> HIDE DEF r
  <2> QED
    BY <1>1, <2>1, <2>2, SameTab DEF Signed, GoodRole, TabType
<1> HIDE DEF m, r
<1> QED
  BY <1>3, <1>4, <1>5, <1>6, TabStep

LEMMA ErrorPageStep ==
    ASSUME IndInv, NEW t \in Tabs, tab[t].at # "app", ErrorPage(t),
           UNCHANGED <<up, deployment, req>>, SharedInv', RowsKept, earned \subseteq earned'
    PROVE  IndInv'
<1> DEFINE m == [tab[t] EXCEPT !.at = "refused", !.nonce = 0, !.who = Nobody]
<1>1. tab[t] \in TabType /\ GoodTab(tab[t])
  BY SameTab
<1>2. tab' = [tab EXCEPT ![t] = m]
  BY DEF ErrorPage
<1>3. m \in TabType /\ GoodTab(m)
  BY <1>1, Constants DEF TabType, GoodTab, Places
<1>4. GoodRequest(req[t], m.at)
  BY SameTab DEF GoodRequest
<1>5. req' = [req EXCEPT ![t] = req[t]] /\ req[t] \in RequestType
  BY SameTab
<1>6. Signed(t, m, req[t], earned') /\ GoodRole(req[t], rows')
  BY <1>1, SameTab, GoodRoleStays DEF Signed, TabType
<1> HIDE DEF m
<1> QED
  BY <1>2, <1>3, <1>4, <1>5, <1>6, TabStep

(* The check of the nonce: the login started last passes it.               *)
LEMMA CallbackStep ==
    ASSUME IndInv, NEW t \in Tabs, tab[t].at # "app", NEW nonce \in Nonces \cup {0},
           NEW u \in Users, Callback(t, nonce, u),
           UNCHANGED <<up, deployment, req, jar, latest>>, RowsKept,
           earned \subseteq earned', earned' \subseteq Users, nonce # 0 => u \in earned'
    PROVE  IndInv'
<1> DEFINE bound == nonce # 0 /\ nonce = state
<1>1. wronged' = FALSE
  <2>1. ~(~bound /\ Secure /\ nonce # 0 /\ nonce = latest)
    BY DEF IndInv, SharedInv, LatestInv
  <2>2. wronged = FALSE
    BY DEF IndInv, SharedInv
  <2> QED
    BY <2>1, <2>2 DEF Callback
<1>2. ASSUME used' \subseteq Nonces PROVE SharedInv'
  BY <1>1, <1>2 DEF IndInv, SharedInv, jar, OnlyOwnLogins, LatestInv, Secure, Honest, RowsKept
<1>3. CASE bound
  <2> DEFINE m == [tab[t] EXCEPT !.at = "exchanging", !.nonce = nonce, !.who = u]
  <2>1. tab[t] \in TabType /\ GoodTab(tab[t])
    BY SameTab
  <2>2. tab' = [tab EXCEPT ![t] = m] /\ used' = used
    BY <1>3 DEF Callback
  <2>3. m \in TabType /\ GoodTab(m)
    BY <1>3, <2>1 DEF TabType, GoodTab, Places
  <2>4. GoodRequest(req[t], m.at)
    BY SameTab DEF GoodRequest
  <2>5. req' = [req EXCEPT ![t] = req[t]] /\ req[t] \in RequestType
    BY SameTab
  <2>6. SharedInv'
    BY <1>2, <2>2 DEF IndInv, SharedInv
  <2>7. Signed(t, m, req[t], earned') /\ GoodRole(req[t], rows')
    BY <1>3, <2>1, SameTab, GoodRoleStays DEF Signed, TabType
  <2> HIDE DEF m
  <2> QED
    BY <2>2, <2>3, <2>4, <2>5, <2>6, <2>7, TabStep
<1>4. CASE ~bound
  <2>1. ErrorPage(t)
    BY <1>4 DEF Callback
  <2>2. SharedInv'
    BY <1>2, <2>1 DEF IndInv, SharedInv, ErrorPage
  <2> QED
    BY <2>1, <2>2, ErrorPageStep
<1> QED
  BY <1>3, <1>4

LEMMA LoginActions ==
    ASSUME IndInv, NEW t \in Tabs,
           \/ ClickSignIn(t) \/ Approve(t) \/ OpenLink(t) \/ Reload(t)
           \/ ReturnHome(t) \/ CallbackSucceeds(t) \/ CallbackFails(t)
    PROVE  IndInv'
<1>0. /\ tab[t] \in TabType /\ GoodTab(tab[t]) /\ SharedInv
      /\ tab[t].nonce \in Nonces \cup {0} /\ earned \subseteq Users
  BY SameTab DEF IndInv, SharedInv, TabType
<1>1. CASE ClickSignIn(t)
  BY <1>1, LeftBehind, StartLoginStep DEF ClickSignIn
<1>2. CASE Approve(t) \/ OpenLink(t)
  <2>1. PICK u \in Users, nonce \in Nonces \cup {0} :
            /\ Callback(t, nonce, u)
            /\ earned' = earned \cup {u} \/ (nonce = 0 /\ earned' = earned)
    BY <1>0, <1>2 DEF Approve, OpenLink
  <2>2. /\ tab[t].at # "app"
        /\ UNCHANGED <<up, deployment, req, jar, latest, rows>>
    BY <1>2 DEF Approve, OpenLink, server
  <2>3. RowsKept /\ earned' \subseteq Users
    BY <1>0, <2>1, <2>2, SameRows
  <2> QED
    BY <2>1, <2>2, <2>3, CallbackStep
<1>3. CASE Reload(t)
  <2>1. /\ tab[t].at = "exchanging" /\ tab[t].who \in Users /\ tab[t].who \in earned
        /\ UNCHANGED <<up, deployment, req, jar, latest, earned>>
    BY <1>0, <1>3, SameTab DEF Reload, GoodTab, Signed
  <2>2. RowsKept
    <3>1. CASE rows' = rows
      BY <1>0, <3>1, SameRows
    <3>2. CASE upsertUser(tab[t].who)
      BY <1>0, <2>1, <3>2, Upsert
    <3> QED
      BY <1>3, <3>1, <3>2 DEF Reload
  <2>3. CASE Callback(t, tab[t].nonce, tab[t].who)
    BY <1>0, <2>1, <2>2, <2>3, CallbackStep
  <2>4. CASE used' = used \cup {tab[t].nonce} /\ tab' = tab /\ wronged' = wronged
    <3>1. tab[t].nonce \in Nonces
      BY <1>0, <2>1 DEF GoodTab
    <3>2. SharedInv'
      BY <1>0, <2>1, <2>2, <2>4, <3>1
      DEF SharedInv, jar, OnlyOwnLogins, LatestInv, Secure, Honest, RowsKept
    <3>3. /\ tab' = [tab EXCEPT ![t] = tab[t]] /\ req' = [req EXCEPT ![t] = req[t]]
          /\ req[t] \in RequestType /\ GoodRequest(req[t], tab[t].at)
          /\ Signed(t, tab[t], req[t], earned') /\ GoodRole(req[t], rows')
      BY <2>1, <2>2, <2>4, SameTab, GoodRoleStays
    <3> QED
      BY <1>0, <2>1, <2>2, <3>2, <3>3, TabStep
  <2> QED
    BY <1>3, <2>3, <2>4 DEF Reload
<1>4. CASE ReturnHome(t)
  <2>1. SharedInv'
    BY <1>0, <1>4
    DEF ReturnHome, server, jar, past, SharedInv, OnlyOwnLogins, RolesStored, LatestInv, Secure, Honest
  <2> QED
    BY <1>0, <1>4, <2>1, LoadStep, SameRows
    DEF ReturnHome, SharedInv, server, past, OnlyOwnLogins
<1>5. CASE CallbackSucceeds(t)
  <2>1. tab[t].who \in Users /\ tab[t].who \in earned /\ tab[t].who \in Accounts
    BY <1>0, <1>5, Constants, SameTab DEF CallbackSucceeds, GoodTab, Signed
  <2>2. RowsKept
    BY <1>0, <1>5, <2>1, Upsert DEF CallbackSucceeds
  <2>3. /\ session' \in Tokens /\ Honest(session')
        /\ session'.who \in earned \cup {Nobody} /\ earned' = earned
    <3>1. /\ session' = createSessionToken(tab[t].who) \/ session' = session
          /\ earned' = earned
      BY <1>5 DEF CallbackSucceeds
    <3> QED
      BY <1>0, <2>1, <3>1, CreatedToken DEF SharedInv, OnlyOwnLogins
  <2>4. Honest(session)'
    BY <2>3 DEF Honest
  <2>5. OnlyOwnLogins'
    BY <2>3 DEF OnlyOwnLogins
  <2>6. SharedInv'
    BY <1>0, <1>5, <2>2, <2>3, <2>4, <2>5
    DEF CallbackSucceeds, SharedInv, LatestInv, RowsKept
  <2> QED
    BY <1>5, <2>2, <2>3, <2>6, LoadStep DEF CallbackSucceeds
<1>6. CASE CallbackFails(t)
  <2>1. SharedInv'
    BY <1>0, <1>6
    DEF CallbackFails, ErrorPage, server, SharedInv, OnlyOwnLogins, RolesStored, LatestInv, Honest
  <2> QED
    BY <1>0, <1>6, <2>1, ErrorPageStep, SameRows DEF CallbackFails, server
<1> QED
  BY <1>1, <1>2, <1>3, <1>4, <1>5, <1>6
-----------------------------------------------------------------------------
(* Requests: steps that leave what the tabs share alone.                   *)
LEMMA RequestStep ==
    ASSUME IndInv, UNCHANGED <<up, deployment, earned>>, SharedInv', RowsKept,
           NEW t \in Tabs, NEW r \in RequestType, GoodRequest(r, tab[t].at),
           r.tok.who \in earned \cup Mirrored(t) \cup {Nobody}, GoodRole(r, rows'),
           tab' = tab, req' = [req EXCEPT ![t] = r]
    PROVE  IndInv'
<1>1. Signed(t, tab[t], r, earned')
  BY SameTab DEF Signed
<1> QED
  BY <1>1, SameTab, TabStep

LEMMA SharedFrame ==
    ASSUME SharedInv, UNCHANGED <<server, up, jar, used, past>>
    PROVE  SharedInv' /\ RowsKept /\ UNCHANGED <<up, deployment, earned>>
  BY SameRows
  DEF server, jar, past, SharedInv, OnlyOwnLogins, RolesStored, LatestInv, Secure, Honest

LEMMA AskStep ==
    ASSUME IndInv, NEW t \in Tabs, NEW kind \in {"me", "poll", "logout"}, Ask(t, kind)
    PROVE  IndInv'
<1> DEFINE r == Request(kind, SentToken(t, session))
<1>1. SharedInv /\ tab[t] \in TabType /\ GoodTab(tab[t]) /\ tab[t].at = "app"
  BY SameTab DEF IndInv, Ask
<1>2. SentToken(t, session) \in Tokens /\ Honest(SentToken(t, session))
  BY <1>1 DEF SentToken, TabType, GoodTab, SharedInv
<1>3. r \in RequestType /\ GoodRequest(r, tab[t].at)
  <2>1. up \in BOOLEAN
    BY <1>1 DEF SharedInv
  <2>2. /\ r \in RequestType /\ r.tok = SentToken(t, session) /\ r.calm = up
        /\ r.at \in {"lookup", "cron", "unknown"}
        /\ r.at # "unknown" <=> verifySession(r.tok)
        /\ r.at = "lookup" => r.tok.who # Task
        /\ r.at = "cron" => r.tok.who = Task
    BY <1>2, <2>1, NewRequest
  <2> HIDE DEF r
  <2> QED
    BY <1>1, <1>2, <2>2 DEF GoodRequest
<1>4. /\ SharedInv' /\ RowsKept /\ UNCHANGED <<up, deployment, earned>>
      /\ tab' = tab /\ req' = [req EXCEPT ![t] = r]
  BY <1>1, SharedFrame DEF Ask
<1>5. r.tok.who \in earned \cup Mirrored(t) \cup {Nobody} /\ GoodRole(r, rows')
  <2>1. r.tok = SentToken(t, session) /\ r.at # "known"
    BY <1>1, <1>2, NewRequest DEF SharedInv
  <2>2. SentToken(t, session).who \in earned \cup Mirrored(t) \cup {Nobody}
    BY <1>1, SameTab DEF SentToken, Signed, SharedInv, OnlyOwnLogins
  <2> HIDE DEF r
  <2> QED
    BY <2>1, <2>2 DEF GoodRole
<1> HIDE DEF r
<1> QED
  BY <1>3, <1>4, <1>5, RequestStep

(* The handler of a request refuses it, goes on for its user, or turns to  *)
(* the provider.                                                           *)
LEMMA RefuseStep ==
    ASSUME IndInv, NEW t \in Tabs, Refuse(t), req[t].at # "idle",
           req[t].calm /\ req[t].tok.who # Task => deployment = "no_database",
           UNCHANGED <<up, deployment, tab, earned>>, SharedInv', RowsKept
    PROVE  IndInv'
<1> DEFINE r == [req[t] EXCEPT !.at = "unknown"]
<1>1. /\ req[t] \in RequestType /\ GoodRequest(req[t], tab[t].at)
      /\ req[t].tok.who \in earned \cup Mirrored(t) \cup {Nobody}
  BY SameTab DEF Signed
<1>2. r \in RequestType /\ r.tok = req[t].tok /\ r.at = "unknown" /\ r.calm = req[t].calm
  BY <1>1 DEF RequestType
<1>3. req' = [req EXCEPT ![t] = r]
  BY DEF Refuse
<1> HIDE DEF r
<1>4. GoodRequest(r, tab[t].at) /\ GoodRole(r, rows')
  BY <1>1, <1>2 DEF GoodRequest, GoodRole
<1> QED
  BY <1>1, <1>2, <1>3, <1>4, RequestStep

LEMMA AdmitStep ==
    ASSUME IndInv, NEW t \in Tabs, NEW role \in Roles \ {"none"}, Admit(t, role),
           req[t].at \in {"lookup", "sync", "cron"},
           role = IF req[t].tok.who = Task THEN "user" ELSE rows'[req[t].tok.who],
           UNCHANGED <<up, deployment, tab, earned>>, SharedInv', RowsKept
    PROVE  IndInv'
<1> DEFINE r == [req[t] EXCEPT !.at = "known", !.role = role]
<1>1. /\ req[t] \in RequestType /\ GoodRequest(req[t], tab[t].at)
      /\ req[t].tok.who \in earned \cup Mirrored(t) \cup {Nobody}
      /\ verifySession(req[t].tok) /\ req[t].tok.who \in Accounts
  <2>1. /\ req[t] \in RequestType /\ GoodRequest(req[t], tab[t].at)
        /\ req[t].tok.who \in earned \cup Mirrored(t) \cup {Nobody}
    BY SameTab DEF Signed
  <2>2. verifySession(req[t].tok)
    BY <2>1 DEF GoodRequest
  <2> QED
    BY <2>1, <2>2, TokenFields DEF RequestType, verifySession
<1>2. /\ r \in RequestType /\ r.tok = req[t].tok /\ r.at = "known"
      /\ r.calm = req[t].calm /\ r.role = role
  BY <1>1 DEF RequestType
<1>3. req' = [req EXCEPT ![t] = r]
  BY DEF Admit
<1> HIDE DEF r
<1>4. GoodRequest(r, tab[t].at)
  BY <1>1, <1>2 DEF GoodRequest
<1>5. GoodRole(r, rows')
  <2>1. role = "admin" => req[t].tok.who = Owner
    BY <1>1 DEF RowsKept, RolesStored, Accounts
  <2> QED
    BY <1>2, <2>1 DEF GoodRole
<1> QED
  BY <1>1, <1>2, <1>3, <1>4, <1>5, RequestStep

LEMMA HandlerActions ==
    ASSUME IndInv, NEW t \in Tabs, getUserByOpenId(t) \/ SyncUser(t) \/ CronUser(t)
    PROVE  IndInv'
<1>1. /\ req[t] \in RequestType /\ GoodRequest(req[t], tab[t].at) /\ SharedInv
      /\ req[t].calm \in BOOLEAN /\ up \in BOOLEAN
      /\ req[t].tok.who \in earned \cup Mirrored(t) \cup {Nobody}
  BY SameTab DEF IndInv, SharedInv, RequestType, Signed
<1>2. CASE getUserByOpenId(t)
  <2>1. /\ req[t].at = "lookup" /\ UNCHANGED <<up, deployment, tab, earned, rows>>
        /\ UNCHANGED <<server, up, jar, used, past>>
    BY <1>2 DEF getUserByOpenId, server, past
  <2>2. verifySession(req[t].tok) /\ req[t].tok.who # Task /\ (req[t].calm => up)
    BY <1>1, <2>1 DEF GoodRequest
  <2>3. SharedInv' /\ RowsKept
    BY <1>1, <2>1, SharedFrame
  <2>4. CASE DatabaseFails /\ Refuse(t)
    <3>1. ~req[t].calm
      BY <2>2, <2>4 DEF DatabaseFails
    <3> QED
      BY <2>1, <2>3, <2>4, <3>1, RefuseStep
  <2>5. CASE Found(req[t].tok.who) /\ Admit(t, rows[req[t].tok.who])
    <3>1. req[t].tok.who \in Users
      BY <1>1, <2>2, TokenFields, Constants DEF RequestType, verifySession
    <3>2. rows[req[t].tok.who] \in Roles \ {"none"} /\ rows' = rows
      BY <1>1, <2>1, <2>5, <3>1, Constants DEF Found, SharedInv
    <3> QED
      BY <2>1, <2>2, <2>3, <2>5, <3>2, AdmitStep
  <2>6. CASE req' = [req EXCEPT ![t].at = "sync"]
    <3> DEFINE r == [req[t] EXCEPT !.at = "sync"]
    <3>1. r \in RequestType /\ r.tok = req[t].tok /\ r.at = "sync" /\ r.calm = req[t].calm
      BY <1>1 DEF RequestType
    <3>2. req' = [req EXCEPT ![t] = r]
      BY <2>6
    <3> HIDE DEF r
    <3>3. GoodRequest(r, tab[t].at) /\ GoodRole(r, rows')
      BY <1>1, <2>1, <2>2, <3>1 DEF GoodRequest, GoodRole
    <3> QED
      BY <1>1, <2>1, <2>3, <3>1, <3>2, <3>3, RequestStep
  <2> QED
    BY <1>2, <2>4, <2>5, <2>6 DEF getUserByOpenId
<1>3. CASE SyncUser(t)
  <2>1. /\ req[t].at = "sync" /\ UNCHANGED <<up, deployment, tab, jar, used, past, earned>>
    BY <1>3 DEF SyncUser, past
  <2>2. verifySession(req[t].tok) /\ req[t].tok.who # Task /\ (req[t].calm => up)
    BY <1>1, <2>1 DEF GoodRequest
  <2>3. req[t].tok.who \in Users
    BY <1>1, <2>2, TokenFields, Constants DEF RequestType, verifySession
  <2>4. CASE up
    <3> DEFINE role == rows'[req[t].tok.who]
    <3>1. /\ upsertUser(req[t].tok.who)
          /\ IF role = "none" THEN Refuse(t) ELSE Admit(t, role)
      BY <1>3, <2>4 DEF SyncUser, getUserInfoWithJwt
    <3>2. RowsKept /\ (role = "none" => deployment = "no_database")
      BY <1>1, <2>1, <2>3, <3>1, Upsert
    <3>3. SharedInv'
      BY <1>1, <2>1, <3>2
      DEF SharedInv, jar, past, OnlyOwnLogins, LatestInv, Secure, Honest, RowsKept
    <3>4. CASE role = "none"
      BY <2>1, <3>1, <3>2, <3>3, <3>4, RefuseStep
    <3>5. CASE role # "none"
      <4>1. role \in Roles \ {"none"}
        BY <2>3, <3>2, <3>5, Constants DEF RowsKept
      <4>2. Admit(t, role)
        BY <3>1, <3>5
      <4> QED
        BY <2>1, <2>2, <3>2, <3>3, <4>1, <4>2, AdmitStep
    <3> QED
      BY <3>4, <3>5
  <2>5. CASE ~up
    <3>1. Refuse(t) /\ rows' = rows /\ ~req[t].calm
      BY <1>3, <2>2, <2>5 DEF SyncUser, getUserInfoWithJwt
    <3>2. SharedInv' /\ RowsKept
      BY <1>1, <2>1, <3>1, SharedFrame DEF server
    <3> QED
      BY <2>1, <3>1, <3>2, RefuseStep
  <2> QED
    BY <2>4, <2>5
<1>4. CASE CronUser(t)
  <2>1. /\ req[t].at = "cron" /\ UNCHANGED <<up, deployment, tab, earned>>
        /\ UNCHANGED <<server, up, jar, used, past>>
    BY <1>4 DEF CronUser, server, past
  <2>2. req[t].tok.who = Task
    BY <1>1, <2>1 DEF GoodRequest
  <2>3. SharedInv' /\ RowsKept
    BY <1>1, <2>1, SharedFrame
  <2>4. CASE Admit(t, "user")
    BY <2>1, <2>2, <2>3, <2>4, AdmitStep DEF Roles
  <2>5. CASE Refuse(t)
    BY <2>1, <2>2, <2>3, <2>5, RefuseStep
  <2> QED
    BY <1>4, <2>4, <2>5 DEF CronUser
<1> QED
  BY <1>2, <1>3, <1>4

LEMMA LogOutEndsStep ==
    ASSUME IndInv, NEW t \in Tabs, NEW cookie \in Tokens, Honest(cookie),
           cookie.who \in earned \cup {Nobody}, tab[t].at = "app", LogOutEnds(t, cookie),
           UNCHANGED <<up, deployment, earned>>, SharedInv', RowsKept
    PROVE  IndInv'
<1> DEFINE m == [tab[t] EXCEPT !.shown = Nobody, !.bearer = NoToken]
           r == Request("me", cookie)
<1>1. tab[t] \in TabType /\ GoodTab(tab[t]) /\ up \in BOOLEAN
  BY SameTab DEF IndInv, SharedInv
<1>2. tab' = [tab EXCEPT ![t] = m] /\ req' = [req EXCEPT ![t] = r]
  BY DEF LogOutEnds
<1>3. m \in TabType /\ GoodTab(m) /\ m.at = "app"
  BY <1>1, Constants, IdleRequest DEF TabType, GoodTab
<1>4. r \in RequestType /\ GoodRequest(r, "app")
  BY <1>1, NewRequest DEF GoodRequest
<1>5. Signed(t, m, r, earned') /\ GoodRole(r, rows')
  <2>1. r.tok = cookie /\ r.at # "known"
    BY <1>1, NewRequest
  <2> HIDE DEF r
  <2> QED
    BY <1>1, <2>1, Constants DEF Signed, GoodRole, TabType
<1> HIDE DEF m, r
<1> QED
  BY <1>2, <1>3, <1>4, <1>5, TabStep

LEMMA AnswerActions ==
    ASSUME IndInv, NEW t \in Tabs,
           \/ MeAnswered(t) \/ PollAnswered(t) \/ redirectToLoginIfUnauthorized(t)
           \/ LogOutAnswered(t) \/ RequestLost(t) \/ MirrorSession(t)
    PROVE  IndInv'
<1>1. /\ tab[t] \in TabType /\ GoodTab(tab[t]) /\ SharedInv
      /\ req[t] \in RequestType /\ GoodRequest(req[t], tab[t].at)
      /\ req[t].at # "idle" => tab[t].at = "app"
  BY SameTab DEF IndInv, GoodRequest
<1>2. /\ \A place : GoodRequest(Idle, place)
      /\ GoodRole(Idle, rows') /\ Idle.tok.who = Nobody
  BY IdleRequest DEF GoodRequest, GoodRole
<1>3. CASE MeAnswered(t)
  <2> DEFINE who == IF req[t].at = "known" THEN req[t].tok.who ELSE Nobody
             m   == [tab[t] EXCEPT !.shown = who]
  <2>1. who \in Accounts \cup {Nobody} /\ who \notin Nameless
    BY <1>1, TokenFields, Constants DEF RequestType, GoodRequest, verifySession, Honest
  <2> HIDE DEF who
  <2>2. m \in TabType /\ GoodTab(m)
    BY <1>1, <2>1 DEF TabType, GoodTab
  <2>3. /\ tab' = [tab EXCEPT ![t] = m] /\ req' = [req EXCEPT ![t] = Idle]
        /\ UNCHANGED <<server, up, jar, used, past>> /\ UNCHANGED <<up, deployment>>
    BY <1>3 DEF MeAnswered, who, server
  <2>4. SharedInv' /\ RowsKept /\ UNCHANGED earned
    BY <1>1, <2>3, SharedFrame
  <2>5. Signed(t, m, Idle, earned')
    <3>1. who \in earned \cup Mirrored(t) \cup {Nobody}
      BY SameTab DEF who, Signed
    <3> QED
      BY <1>1, <1>2, <2>4, <3>1, SameTab DEF Signed, TabType
  <2> HIDE DEF m
  <2> QED
    BY <1>2, <2>2, <2>3, <2>4, <2>5, IdleRequest, TabStep
<1>4. CASE PollAnswered(t)
  <2>1. /\ SharedInv' /\ RowsKept /\ UNCHANGED <<up, deployment, earned, tab>>
        /\ req' = [req EXCEPT ![t] = Idle]
    BY <1>1, <1>4, SharedFrame DEF PollAnswered
  <2> QED
    BY <1>2, <2>1, IdleRequest, RequestStep
<1>5. CASE redirectToLoginIfUnauthorized(t)
  <2>1. tab[t].at = "app" /\ startLogin(t) /\ UNCHANGED <<up, deployment, rows>>
    BY <1>1, <1>5 DEF redirectToLoginIfUnauthorized, Answered, server
  <2> QED
    BY <1>1, <2>1, SameRows, StartLoginStep
<1>6. CASE LogOutAnswered(t)
  <2>1. /\ session' = NoToken /\ LogOutEnds(t, NoToken) /\ tab[t].at = "app"
        /\ UNCHANGED <<server, up, state, used, past>> /\ UNCHANGED <<up, deployment>>
    BY <1>1, <1>6 DEF LogOutAnswered, Answered, server
  <2>2. Honest(session)'
    BY <2>1, IdleRequest DEF Honest
  <2>3. SharedInv'
    BY <1>1, <2>1, <2>2, Constants
    DEF server, past, SharedInv, OnlyOwnLogins, RolesStored, LatestInv, Secure
  <2>4. RowsKept /\ earned' = earned
    BY <1>1, <2>1, SameRows DEF server, past
  <2> QED
    BY <2>1, <2>3, <2>4, Constants, IdleRequest, LogOutEndsStep
<1>7. CASE RequestLost(t)
  <2>1. /\ UNCHANGED <<deployment, up, jar, used, past, earned>> /\ tab[t].at = "app"
        /\ LeftAlone(t)
    BY <1>1, <1>7 DEF RequestLost, past
  <2>2. SharedInv' /\ RowsKept
    BY <1>1, <2>1, LeftBehind
    DEF SharedInv, jar, past, OnlyOwnLogins, LatestInv, Secure, Honest, RowsKept
  <2>3. CASE LogOutEnds(t, session)
    BY <1>1, <2>1, <2>2, <2>3, LogOutEndsStep DEF SharedInv, OnlyOwnLogins
  <2>4. CASE req' = [req EXCEPT ![t] = Idle] /\ tab' = tab
    BY <1>2, <2>1, <2>2, <2>4, IdleRequest, RequestStep
  <2> QED
    BY <1>7, <2>3, <2>4 DEF RequestLost
<1>8. CASE MirrorSession(t)
  <2>1. PICK a \in Mirrored(t) : tab' = [tab EXCEPT ![t].bearer = createSessionToken(a)]
    BY <1>8 DEF MirrorSession
  <2> DEFINE m == [tab[t] EXCEPT !.bearer = createSessionToken(a)]
  <2>2. m \in TabType /\ GoodTab(m) /\ m.at = tab[t].at
    <3>1. createSessionToken(a) \in Tokens /\ Honest(createSessionToken(a))
      BY Constants, CreatedToken DEF Mirrored
    <3> QED
      BY <1>1, <3>1 DEF TabType, GoodTab
  <2>3. tab' = [tab EXCEPT ![t] = m]
    BY <2>1
  <2>4. UNCHANGED <<server, up, jar, used, past>> /\ UNCHANGED <<up, deployment, req>>
    BY <1>8 DEF MirrorSession, server
  <2>5. SharedInv' /\ RowsKept /\ UNCHANGED earned /\ req' = [req EXCEPT ![t] = req[t]]
    BY <1>1, <2>4, SameTab, SharedFrame
  <2>6. Signed(t, m, req[t], earned') /\ GoodRole(req[t], rows')
    <3>1. createSessionToken(a).who = a
      BY Constants, CreatedToken DEF Mirrored
    <3>2. m.bearer = createSessionToken(a) /\ m.at = tab[t].at /\ m.who = tab[t].who /\ m.shown = tab[t].shown
      BY <1>1 DEF TabType
    <3> HIDE DEF m
    <3> QED
      BY <1>1, <2>5, <3>1, <3>2, SameTab, GoodRoleStays DEF Signed
  <2> HIDE DEF m
  <2> QED
    BY <1>1, <2>2, <2>3, <2>4, <2>5, <2>6, TabStep
<1> QED
  BY <1>3, <1>4, <1>5, <1>6, <1>7, <1>8
-----------------------------------------------------------------------------
(* The clock and the services.                                             *)
LEMMA OutsideActions ==
    ASSUME IndInv, YearPasses \/ StateExpires \/ ServicesStop \/ ServicesReturn
    PROVE  IndInv'
<1>1. CASE YearPasses
  <2>1. /\ session' = NoToken /\ UNCHANGED <<server, up, state, used, req, past>>
        /\ tab' = [t \in Tabs |-> [tab[t] EXCEPT !.bearer = NoToken]]
    BY <1>1 DEF YearPasses
  <2>2. Honest(session)'
    BY <2>1, IdleRequest DEF Honest
  <2>3. SharedInv'
    BY <2>1, <2>2, Constants
    DEF IndInv, server, past, SharedInv, OnlyOwnLogins, RolesStored, LatestInv, Secure
  <2>4. ASSUME NEW t \in Tabs
        PROVE  tab'[t] \in TabType /\ GoodTab(tab'[t]) /\ GoodRequest(req[t], tab'[t].at)
    BY <2>1, SameTab, Constants, IdleRequest DEF TabType, GoodTab
  <2>5. ASSUME NEW t \in Tabs PROVE (GoodTab(tab[t]) /\ GoodRequest(req[t], tab[t].at))'
    BY <2>1, <2>4 DEF GoodTab, GoodRequest, server
  <2>6. tab' \in [Tabs -> TabType]
    BY <2>1, <2>4
  <2>7. ASSUME NEW t \in Tabs PROVE (Signed(t, tab[t], req[t], earned) /\ GoodRole(req[t], rows))'
    <3>1. /\ tab'[t].bearer = NoToken /\ tab'[t].at = tab[t].at
          /\ tab'[t].who = tab[t].who /\ tab'[t].shown = tab[t].shown
      BY <2>1, SameTab DEF TabType
    <3> QED
      BY <2>1, <3>1, SameTab, Constants DEF Signed, Mirrored, GoodRole, server, past
  <2> QED
    BY <2>1, <2>3, <2>5, <2>6, <2>7 DEF IndInv
<1>2. CASE StateExpires
  <2>1. state' = 0 /\ latest' = 0 /\ UNCHANGED <<server, up, session, used, tab, req, wronged, earned>>
    BY <1>2 DEF StateExpires
  <2>2. SharedInv'
    BY <2>1 DEF IndInv, server, SharedInv, OnlyOwnLogins, RolesStored, LatestInv, Honest
  <2> QED
    BY <2>1, <2>2 DEF IndInv, GoodTab, GoodRequest, Signed, Mirrored, GoodRole, server, past
<1>3. CASE ServicesStop
  <2>1. /\ up' = FALSE /\ UNCHANGED <<server, jar, used, tab, past>>
        /\ req' = [t \in Tabs |-> [req[t] EXCEPT !.calm = req[t].at = "idle"]]
    BY <1>3 DEF ServicesStop
  <2>2. SharedInv'
    BY <2>1
    DEF IndInv, server, jar, past, SharedInv, OnlyOwnLogins, RolesStored, LatestInv, Secure, Honest
  <2>3. ASSUME NEW t \in Tabs
        PROVE  /\ req'[t] \in RequestType
               /\ (GoodTab(tab[t]) /\ GoodRequest(req[t], tab[t].at))'
               /\ (Signed(t, tab[t], req[t], earned) /\ GoodRole(req[t], rows))'
    <3>1. req'[t] = [req[t] EXCEPT !.calm = (req[t].at = "idle")] /\ tab' = tab
      BY <2>1
    <3>2. req[t] \in RequestType /\ GoodTab(tab[t]) /\ GoodRequest(req[t], tab[t].at)
      BY SameTab
    <3>3. /\ req'[t].at = req[t].at /\ req'[t].tok = req[t].tok
          /\ req'[t].role = req[t].role
          /\ req'[t].calm = (req[t].at = "idle") /\ req'[t] \in RequestType
      BY <3>1, <3>2 DEF RequestType
    <3>4. (Signed(t, tab[t], req[t], earned) /\ GoodRole(req[t], rows))'
      BY <2>1, <3>1, <3>3, SameTab DEF Signed, Mirrored, GoodRole, server, past
    <3> QED
      BY <3>1, <3>2, <3>3, <3>4 DEF GoodTab, GoodRequest
  <2>4. req' \in [Tabs -> RequestType]
    BY <2>1, <2>3
  <2> QED
    BY <2>1, <2>2, <2>3, <2>4 DEF IndInv
<1>4. CASE ServicesReturn
  <2>1. up' = TRUE /\ UNCHANGED <<server, jar, used, tab, req, past>>
    BY <1>4 DEF ServicesReturn
  <2>2. SharedInv'
    BY <2>1
    DEF IndInv, server, jar, past, SharedInv, OnlyOwnLogins, RolesStored, LatestInv, Secure, Honest
  <2> QED
    BY <2>1, <2>2 DEF IndInv, GoodTab, GoodRequest, Signed, Mirrored, GoodRole, server, past
<1> QED
  BY <1>1, <1>2, <1>3, <1>4

LEMMA StutterStep == IndInv /\ UNCHANGED vars => IndInv'
<1> SUFFICES ASSUME IndInv, UNCHANGED vars PROVE IndInv'
  OBVIOUS
<1>1. UNCHANGED <<server, up, jar, used, past>> /\ UNCHANGED <<tab, req, up, deployment>>
  BY DEF vars, server
<1>2. SharedInv'
  BY <1>1, SharedFrame DEF IndInv
<1>3. /\ tab' = tab /\ req' = req /\ up' = up /\ deployment' = deployment
      /\ rows' = rows /\ earned' = earned
  BY <1>1 DEF server, past
<1>4. ASSUME NEW t \in Tabs PROVE (GoodTab(tab[t]) /\ GoodRequest(req[t], tab[t].at))'
  <2>1. GoodTab(tab'[t]) /\ GoodRequest(req'[t], tab'[t].at)
    BY <1>3, SameTab
  <2> QED
    BY <1>3, <2>1 DEF GoodTab, GoodRequest
<1>5. ASSUME NEW t \in Tabs PROVE (Signed(t, tab[t], req[t], earned) /\ GoodRole(req[t], rows))'
  BY <1>3, SameTab DEF Signed, Mirrored, GoodRole
<1> QED
  BY <1>2, <1>3, <1>4, <1>5 DEF IndInv
-----------------------------------------------------------------------------
(* The strengthened invariant holds in every state: tabs, people, services *)
(* and clocks may interleave as they like.                                 *)
THEOREM SessionInvariant == Spec => []IndInv
<1>1. ASSUME IndInv, NEW t \in Tabs, Poll(t) \/ OpenPage(t) \/ LogOut(t)
      PROVE  IndInv'
  BY <1>1, AskStep DEF Poll, OpenPage, LogOut
<1>2. IndInv /\ [Next]_vars => IndInv'
  BY <1>1, LoginActions, HandlerActions, AnswerActions, OutsideActions, StutterStep
  DEF Next, Handle
<1> QED
  BY <1>2, InitInv, PTL DEF Spec

(* Whoever gets into the console does so by a login of this browser (the   *)
(* nonce check of the OAuth callback) or, in a preview frame, by the       *)
(* session mirrored into it; has a name (verifySession); and is handled in *)
(* the role that is stored (upsertUser, getUserByOpenId), in any number of *)
(* tabs.                                                                   *)
THEOREM SessionsStayEarned == Spec => []SessionsAreEarned
<1>1. IndInv => ShownAreEntitled
  BY DEF IndInv, GoodTab, Signed, ShownAreEntitled
<1>2. IndInv => RoleInUse
  BY DEF IndInv, GoodRole, RoleInUse
<1>3. IndInv => SessionsAreEarned
  BY <1>1, <1>2, InvType DEF IndInv, SharedInv, SessionsAreEarned
<1> QED
  BY <1>3, SessionInvariant, PTL

(* The callback refuses the login started last only after another login    *)
(* was answered or the state cookie aged, however many tabs log in.        *)
THEOREM LatestLoginIsHeard == Spec => []LatestLoginStands
<1>1. IndInv => LatestLoginStands
  BY DEF IndInv, SharedInv, LatestLoginStands
<1> QED
  BY <1>1, SessionInvariant, PTL

(* authenticateRequest recognises every live session of a named person     *)
(* while the services answer and there is a database, with or without a    *)
(* row for the user.                                                       *)
THEOREM LiveSessionsAreRecognised == Spec => []LiveSessionRecognised
<1>1. IndInv => LiveSessionRecognised
  BY DEF IndInv, GoodRequest, LiveSessionRecognised
<1> QED
  BY <1>1, SessionInvariant, PTL
-----------------------------------------------------------------------------
(* The helpers by name.                                                    *)
Names == {"invokeLLM", "listLLMModels", "storagePut", "storageGetSignedUrl", "storageProxy",
          "generateImage", "listImageModels", "transcribeAudio", "createHeartbeatJob",
          "updateHeartbeatJob", "deleteHeartbeatJob", "listHeartbeatJobs", "notifyOwner",
          "callDataApi", "makeRequest"}

(* These are the helpers the console server has.                           *)
LEMMA HelperNames == Helpers = Names
  BY DEF Helpers, Helper, Names

(* What is known of each of them.                                          *)
LEMMA HelperEntries ==
    /\ Helper["invokeLLM"] = invokeLLM
    /\ Helper["listLLMModels"] = listLLMModels
    /\ Helper["storagePut"] = storagePut
    /\ Helper["storageGetSignedUrl"] = storageGetSignedUrl
    /\ Helper["storageProxy"] = storageProxy
    /\ Helper["generateImage"] = generateImage
    /\ Helper["listImageModels"] = listImageModels
    /\ Helper["transcribeAudio"] = transcribeAudio
    /\ Helper["createHeartbeatJob"] = createHeartbeatJob
    /\ Helper["updateHeartbeatJob"] = updateHeartbeatJob
    /\ Helper["deleteHeartbeatJob"] = deleteHeartbeatJob
    /\ Helper["listHeartbeatJobs"] = listHeartbeatJobs
    /\ Helper["notifyOwner"] = notifyOwner
    /\ Helper["callDataApi"] = callDataApi
    /\ Helper["makeRequest"] = makeRequest
  BY DEF Helper

(* The requests that the helpers make, one after the other.                *)
LEMMA RequestsOf ==
    /\ \A h \in Names \ {"storagePut", "generateImage", "transcribeAudio"} :
        \E r \in {"complete", "models", "presign", "create", "update", "delete", "list", "notify", "api", "maps"} :
             Helper[h].requests = <<r>>
    /\ Helper["storagePut"].requests = <<"presign", "upload">>
    /\ Helper["generateImage"].requests = <<"generate">> \o <<"presign", "upload">>
    /\ Helper["transcribeAudio"].requests = <<"download", "transcribe">>
<1>1. Helper["storagePut"].requests = <<"presign", "upload">>
  BY HelperEntries DEF storagePut
<1>2. Helper["transcribeAudio"].requests = <<"download", "transcribe">>
  BY HelperEntries DEF transcribeAudio
<1>3. Helper["generateImage"].requests = <<"generate">> \o <<"presign", "upload">>
  BY HelperEntries DEF generateImage, storagePut
<1>4. /\ Helper["invokeLLM"].requests = <<"complete">>
      /\ Helper["listLLMModels"].requests = <<"models">>
      /\ Helper["storageGetSignedUrl"].requests = <<"presign">>
      /\ Helper["storageProxy"].requests = <<"presign">>
      /\ Helper["listImageModels"].requests = <<"models">>
  BY HelperEntries DEF invokeLLM, listLLMModels, storageGetSignedUrl,
     storageProxy, listImageModels
<1>5. /\ Helper["createHeartbeatJob"].requests = <<"create">>
      /\ Helper["updateHeartbeatJob"].requests = <<"update">>
      /\ Helper["notifyOwner"].requests = <<"notify">>
      /\ Helper["deleteHeartbeatJob"].requests = <<"delete">>
      /\ Helper["listHeartbeatJobs"].requests = <<"list">>
      /\ Helper["callDataApi"].requests = <<"api">>
      /\ Helper["makeRequest"].requests = <<"maps">>
  BY HelperEntries DEF createHeartbeatJob, updateHeartbeatJob, notifyOwner,
     deleteHeartbeatJob, listHeartbeatJobs, callDataApi, makeRequest
<1> QED BY <1>1, <1>2, <1>3, <1>4, <1>5 DEF Names

(* The helpers that tell a failure as a value and do not throw.            *)
Valued == {"notifyOwner", "transcribeAudio", "storageProxy"}

(* How the helpers tell of their failures.                                 *)
LEMMA FailsOf ==
    /\ \A h \in Names \ Valued : Helper[h].fails = [why |-> "throws"]
    /\ Helper["notifyOwner"].fails = [given |-> "throws", config |-> "throws", why |-> "false"]
    /\ Helper["transcribeAudio"].fails =
        [download |-> "INVALID_FORMAT", transcribe |-> "TRANSCRIPTION_FAILED",
           large |-> "FILE_TOO_LARGE", why |-> "SERVICE_ERROR"]
    /\ Helper["storageProxy"].fails = [given |-> "400", config |-> "500", why |-> "502"]
<1>1. /\ Helper["notifyOwner"].fails = [given |-> "throws", config |-> "throws", why |-> "false"]
      /\ Helper["transcribeAudio"].fails =
            [download |-> "INVALID_FORMAT", transcribe |-> "TRANSCRIPTION_FAILED",
             large |-> "FILE_TOO_LARGE", why |-> "SERVICE_ERROR"]
      /\ Helper["storageProxy"].fails = [given |-> "400", config |-> "500", why |-> "502"]
  BY HelperEntries DEF notifyOwner, transcribeAudio, storageProxy
<1>2. \A h \in {"invokeLLM", "listLLMModels", "storagePut", "storageGetSignedUrl",
                "generateImage", "listImageModels"} : Helper[h].fails = [why |-> "throws"]
  BY HelperEntries DEF invokeLLM, listLLMModels, storagePut,
     storageGetSignedUrl, generateImage, listImageModels
<1>3. \A h \in {"createHeartbeatJob", "updateHeartbeatJob", "deleteHeartbeatJob",
                "listHeartbeatJobs", "callDataApi", "makeRequest"} :
         Helper[h].fails = [why |-> "throws"]
  BY HelperEntries DEF createHeartbeatJob, updateHeartbeatJob,
     deleteHeartbeatJob, listHeartbeatJobs, callDataApi, makeRequest
<1> QED BY <1>1, <1>2, <1>3 DEF Names, Valued

(* No failure is told as success, and the three helpers that answer with a *)
(* value throw only for what was asked of them.                            *)
LEMMA FailureIsNoSuccess ==
    ASSUME NEW h \in Helpers, NEW why
    PROVE  /\ Failure(h, why) \in Results \ {"none", "ok"}
           /\ (h \in Valued /\ why \notin {"given", "config"}) => Failure(h, why) # "throws"
<1>0. h \in Names
  BY HelperNames
<1>1. CASE h \in Names \ Valued
  <2>1. Helper[h].fails = [why |-> "throws"]
    BY <1>1, FailsOf
  <2>2. Failure(h, why) = "throws" /\ "why" \in DOMAIN Helper[h].fails
    BY <2>1 DEF Failure
  <2> QED BY <1>1, <2>1, <2>2 DEF Results
<1>2. CASE h = "notifyOwner"
  <2>1. Helper[h].fails = [given |-> "throws", config |-> "throws", why |-> "false"]
    BY <1>2, FailsOf
  <2>2. /\ Failure(h, why) \in {"throws", "false"}
        /\ why \notin {"given", "config"} => Failure(h, why) = "false"
        /\ {Helper[h].fails[w] : w \in DOMAIN Helper[h].fails} = {"throws", "false"}
    BY <2>1 DEF Failure
  <2> QED BY <2>2 DEF Results
<1>3. CASE h = "transcribeAudio"
  <2>1. Helper[h].fails =
            [download |-> "INVALID_FORMAT", transcribe |-> "TRANSCRIPTION_FAILED",
             large |-> "FILE_TOO_LARGE", why |-> "SERVICE_ERROR"]
    BY <1>3, FailsOf
  <2>2. /\ Failure(h, why) \in {"INVALID_FORMAT", "TRANSCRIPTION_FAILED", "FILE_TOO_LARGE",
                                      "SERVICE_ERROR"}
        /\ {Helper[h].fails[w] : w \in DOMAIN Helper[h].fails} =
              {"INVALID_FORMAT", "TRANSCRIPTION_FAILED", "FILE_TOO_LARGE", "SERVICE_ERROR"}
    BY <2>1 DEF Failure
  <2> QED BY <2>2 DEF Results
<1>4. CASE h = "storageProxy"
  <2>1. Helper[h].fails = [given |-> "400", config |-> "500", why |-> "502"]
    BY <1>4, FailsOf
  <2>2. /\ Failure(h, why) \in {"400", "500", "502"}
        /\ {Helper[h].fails[w] : w \in DOMAIN Helper[h].fails} = {"400", "500", "502"}
    BY <2>1 DEF Failure
  <2> QED BY <2>2 DEF Results
<1> QED BY <1>0, <1>1, <1>2, <1>3, <1>4 DEF Valued

(* Nor does mapForgeError of heartbeat.ts make a success of a status.      *)
LEMMA StatusIsNoSuccess ==
    ASSUME NEW status
    PROVE  mapForgeError(status) \in Results \ {"none", "ok"}
<1>1. "throws" \in Results
  <2>1. /\ Helper["invokeLLM"].fails = [why |-> "throws"]
        /\ "invokeLLM" \in Helpers
    BY FailsOf, HelperNames DEF Names, Valued
  <2>2. "throws" \in {Helper["invokeLLM"].fails[w] : w \in DOMAIN Helper["invokeLLM"].fails}
    BY <2>1
  <2> QED BY <2>1, <2>2 DEF Results
<1>2. {"UNAUTHORIZED", "FORBIDDEN", "NOT_FOUND", "BAD_REQUEST", "CONFLICT", "TOO_MANY_REQUESTS"}
        \subseteq Results
  BY DEF Results
<1>3. mapForgeError(status) \in {"UNAUTHORIZED", "FORBIDDEN", "NOT_FOUND", "BAD_REQUEST",
                                       "CONFLICT", "TOO_MANY_REQUESTS", "throws"}
  BY DEF mapForgeError
<1> QED BY <1>1, <1>2, <1>3

(* Every helper makes a request; one that retries makes a single one, and  *)
(* one that stores ends with the upload.                                   *)
LEMMA RequestFacts ==
    ASSUME NEW h \in Helpers
    PROVE  /\ Len(Helper[h].requests) \in Nat \ {0}
           /\ DOMAIN Helper[h].requests = 1..Len(Helper[h].requests)
           /\ \A i \in DOMAIN Helper[h].requests :
                 Helper[h].requests[i] \notin {"given", "config"}
           /\ h \in Retrying => Len(Helper[h].requests) = 1
           /\ h \in Storing =>
                 Helper[h].requests[Len(Helper[h].requests)] = "upload"
<1>0. h \in Names
  BY HelperNames
<1>1. CASE h \notin {"storagePut", "generateImage", "transcribeAudio"}
  <2>1. PICK r \in {"complete", "models", "presign", "create", "update", "delete", "list",
                    "notify", "api", "maps"} : Helper[h].requests = <<r>>
    BY <1>0, <1>1, RequestsOf
  <2> QED BY <1>1, <2>1 DEF Storing
<1>2. CASE h = "storagePut"
  BY <1>2, RequestsOf DEF Retrying
<1>3. CASE h = "transcribeAudio"
  BY <1>3, RequestsOf DEF Retrying, Storing
<1>4. CASE h = "generateImage"
  BY <1>4, RequestsOf DEF Retrying
<1> QED BY <1>1, <1>2, <1>3, <1>4

(* Where a call is between its beginning and its end.                      *)
Underway == {"sent", "answered", "rejected", "sleeping"}

(* What is kept of a call.                                                 *)
CallRecord ==
    [helper : Helpers \cup {"none"}, n : Nat, stage : Nat,
     at : Underway \cup {"idle", "ended"}, attempt : 0..MaxRetries, asked : Int, status : Int,
     delay : Int, sent : Nat, done : Nat, lost : BOOLEAN, result : Results]

(* A call is of a helper, at one of its requests, and has a result when it *)
(* has ended.                                                              *)
PlaceFits(call) ==
    /\ call.at = "idle" => call.sent = 0 /\ call.done = 0
    /\ call.at # "idle" =>
          /\ call.helper \in Helpers
          /\ call.stage \in 1..Len(Helper[call.helper].requests)
    /\ (call.at = "ended") = (call.result # "none")

(* A request was carried out when its answer is there or the call          *)
(* succeeded; it was carried out otherwise, or more than once, only if an  *)
(* answer was lost.                                                        *)
DoneFits(call) ==
    /\ call.done > 1 => call.lost
    /\ call.at = "answered" \/ call.result = "ok" => call.done >= 1
    /\ call.at # "answered" /\ call.result # "ok" /\ call.done >= 1 => call.lost

(* The attempts of fetchWithBackoff are counted: only a helper that        *)
(* retries makes more than one, and it fails without a lost answer only    *)
(* after the last.                                                         *)
SentFits(call) ==
    /\ call.at \in Underway => call.sent = call.attempt + 1
    /\ call.at = "sleeping" => call.attempt < MaxRetries
    /\ call.helper \notin Retrying =>
          call.attempt = 0 /\ call.sent <= 1 /\ call.at # "sleeping"
    /\ call.helper \in Retrying => call.sent <= MaxRetries + 1
    /\ (call.helper \in Retrying /\ Failed(call) /\ call.sent > 0 /\ ~ call.lost)
          => call.sent = MaxRetries + 1

(* What was sent was sent with a configuration, and a helper that answers  *)
(* with a value does not throw after sending.                              *)
AllowedFits(call) ==
    /\ call.sent > 0 => Configured(call.helper)
    /\ call.helper \in Valued /\ call.sent > 0 => call.result # "throws"

(* The least delay before an attempt.                                      *)
Floor(attempt) == Min({RETRY_BASE_DELAY_MS * 2^attempt, RETRY_MAX_DELAY_MS}) \div 2

(* A delay is neither shorter than its floor and what the server asked     *)
(* for, nor longer than the maximum.                                       *)
DelayFits(call) ==
    call.at = "sleeping" =>
        /\ call.delay >= Floor(call.attempt)
        /\ call.delay >= Min({call.asked, 30000})
        /\ call.delay <= 30000

(* A call satisfies all of these.                                          *)
Fits(call) ==
    /\ call \in CallRecord
    /\ PlaceFits(call) /\ DoneFits(call) /\ SentFits(call) /\ AllowedFits(call) /\ DelayFits(call)

(* The object that the n-th call stores.                                   *)
ObjectOf(n) == [key |-> appendHashSuffix("name", n), n |-> n]

(* An object's key is that of the call that stored it, what was returned   *)
(* exists, and an upload that was answered has stored its object.          *)
StoreFits ==
    /\ \A o \in objects : o = ObjectOf(o.n)
    /\ returned \subseteq objects
    /\ \A c \in Callers :
          calls[c].at = "answered" /\ RequestOf(c) = "upload" => ObjectOf(calls[c].n) \in objects

(* The inductive invariant.                                                *)
ForgeInv ==
    /\ configured \subseteq {"url", "key"} /\ begun \in 0..MaxCalls
    /\ calls \in [Callers -> CallRecord]
    /\ \A c \in Callers : Fits(calls[c])
    /\ StoreFits

(* A call with one field changed is a call.                                *)
LEMMA FieldsKeepType ==
    ASSUME NEW call \in CallRecord
    PROVE  /\ \A x \in Underway \cup {"idle", "ended"} : [call EXCEPT !.at = x] \in CallRecord
           /\ \A x \in Results : [call EXCEPT !.result = x] \in CallRecord
           /\ \A x \in 0..MaxRetries : [call EXCEPT !.attempt = x] \in CallRecord
           /\ \A x \in Int : [call EXCEPT !.asked = x] \in CallRecord
           /\ \A x \in Int : [call EXCEPT !.status = x] \in CallRecord
           /\ \A x \in Int : [call EXCEPT !.delay = x] \in CallRecord
           /\ \A x \in Nat : [call EXCEPT !.stage = x] \in CallRecord
           /\ \A x \in Nat : [call EXCEPT !.sent = x] \in CallRecord
           /\ \A x \in Nat : [call EXCEPT !.done = x] \in CallRecord
           /\ \A x \in BOOLEAN : [call EXCEPT !.lost = x] \in CallRecord
           /\ \A x \in Nat : [call EXCEPT !.n = x] \in CallRecord
           /\ \A x \in Helpers : [call EXCEPT !.helper = x] \in CallRecord
<1>1. \A x \in Underway \cup {"idle", "ended"} : [call EXCEPT !.at = x] \in CallRecord
  BY DEF CallRecord
<1>2. \A x \in Results : [call EXCEPT !.result = x] \in CallRecord
  BY DEF CallRecord
<1>3. \A x \in 0..MaxRetries : [call EXCEPT !.attempt = x] \in CallRecord
  BY DEF CallRecord
<1>4. \A x \in Int : [call EXCEPT !.asked = x] \in CallRecord
  BY DEF CallRecord
<1>5. \A x \in Int : [call EXCEPT !.status = x] \in CallRecord
  BY DEF CallRecord
<1>6. \A x \in Int : [call EXCEPT !.delay = x] \in CallRecord
  BY DEF CallRecord
<1>7. \A x \in Nat : [call EXCEPT !.stage = x] \in CallRecord
  BY DEF CallRecord
<1>8. \A x \in Nat : [call EXCEPT !.sent = x] \in CallRecord
  BY DEF CallRecord
<1>9. \A x \in Nat : [call EXCEPT !.done = x] \in CallRecord
  BY DEF CallRecord
<1>10. \A x \in BOOLEAN : [call EXCEPT !.lost = x] \in CallRecord
  BY DEF CallRecord
<1>11. \A x \in Nat : [call EXCEPT !.n = x] \in CallRecord
  BY DEF CallRecord
<1>12. \A x \in Helpers : [call EXCEPT !.helper = x] \in CallRecord
  BY DEF CallRecord
<1> QED BY <1>1, <1>2, <1>3, <1>4, <1>5, <1>6, <1>7, <1>8, <1>9, <1>10, <1>11, <1>12

(* The lesser of two numbers.                                              *)
LEMMA MinOfTwo ==
    ASSUME NEW a \in Int, NEW b \in Int
    PROVE  Min({a, b}) = IF a <= b THEN a ELSE b
<1>1. CASE a <= b
  <2>1. \A x \in {a, b} : (\A y \in {a, b} : x =< y) => x = a
    BY <1>1
  <2>2. \A y \in {a, b} : a =< y
    BY <1>1
  <2> QED BY <1>1, <2>1, <2>2 DEF Min
<1>2. CASE b < a
  <2>1. \A x \in {a, b} : (\A y \in {a, b} : x =< y) => x = b
    BY <1>2
  <2>2. \A y \in {a, b} : b =< y
    BY <1>2
  <2> QED BY <1>2, <2>1, <2>2 DEF Min
<1> QED BY <1>1, <1>2

(* The greatest of three numbers.                                          *)
LEMMA MaxOfThree ==
    ASSUME NEW a \in Int, NEW b \in Int, NEW d \in Int
    PROVE  /\ Max({a, b, d}) \in Int
           /\ Max({a, b, d}) >= a /\ Max({a, b, d}) >= b /\ Max({a, b, d}) >= d
<1>1. \E x \in {a, b, d} : \A y \in {a, b, d} : x >= y
  OBVIOUS
<1>2. /\ Max({a, b, d}) \in {a, b, d}
      /\ \A y \in {a, b, d} : Max({a, b, d}) >= y
  BY <1>1 DEF Max
<1> QED BY <1>2

(* computeBackoffDelay keeps between its floor and its maximum, and grants *)
(* what Retry-After asks for up to that maximum.                           *)
LEMMA DelayBounds ==
    ASSUME NEW attempt \in Nat, NEW asked \in Int,
           NEW ms \in computeBackoffDelay(attempt, asked)
    PROVE  /\ ms \in Int /\ ms <= 30000
           /\ ms >= Floor(attempt)
           /\ ms >= Min({asked, 30000})
<1> DEFINE cap == Min({500 * 2^attempt, 30000})
<1>1. 500 * 2^attempt \in Int
  OBVIOUS
<1>2. cap \in Int /\ cap <= 30000
  BY <1>1, MinOfTwo
<1>3. Cap(attempt) = cap
  BY DEF Cap, RETRY_BASE_DELAY_MS, RETRY_MAX_DELAY_MS
<1> HIDE DEF cap
<1>4. PICK jittered \in {cap \div 2, cap} :
         ms = Min({Max({jittered, asked, 0}), 30000})
  BY <1>3 DEF computeBackoffDelay, RETRY_MAX_DELAY_MS
<1>5. jittered \in Int /\ cap \div 2 \in Int
  BY <1>2
<1> DEFINE wished == Max({jittered, asked, 0})
<1>6. wished \in Int /\ wished >= jittered /\ wished >= asked /\ wished >= 0
  <2>1. 0 \in Int
    OBVIOUS
  <2> QED BY <1>5, <2>1, MaxOfThree, Zenon
<1> HIDE DEF wished
<1>7. ms = IF wished <= 30000 THEN wished ELSE 30000
  BY <1>4, <1>6, MinOfTwo DEF wished
<1>8. cap \div 2 <= wished /\ cap \div 2 <= 30000
  BY <1>2, <1>4, <1>5, <1>6
<1>9. Min({asked, 30000}) = IF asked <= 30000 THEN asked ELSE 30000
  BY MinOfTwo
<1>10. Floor(attempt) = cap \div 2
  BY DEF Floor, cap, RETRY_BASE_DELAY_MS, RETRY_MAX_DELAY_MS
<1> QED BY <1>5, <1>6, <1>7, <1>8, <1>9, <1>10

(* A call under way may end with a result that tells what became of its    *)
(* request.                                                                *)
LEMMA EndedFits ==
    ASSUME NEW call, Fits(call), call.at \in Underway,
           NEW result \in Results \ {"none"},
           result = "ok" => call.done >= 1,
           result # "ok" /\ call.done >= 1 => call.lost,
           (result # "ok" /\ call.helper \in Retrying /\ ~ call.lost) => call.attempt = MaxRetries,
           call.helper \in Valued => result # "throws",
           MaxRetries \in Nat
    PROVE  Fits(Ended(call, result))
<1> DEFINE new == Ended(call, result)
<1>0. call \in CallRecord
  BY DEF Fits
<1>a. new \in CallRecord
  <2> DEFINE r1 == [call EXCEPT !.at = "ended"]
             r2 == [r1 EXCEPT !.result = result]
             r3 == [r2 EXCEPT !.attempt = 0]
             r4 == [r3 EXCEPT !.asked = -1]
             r5 == [r4 EXCEPT !.status = 0]
  <2>1. new = r5
    BY DEF Ended
  <2>2. r1 \in CallRecord
    BY <1>0, FieldsKeepType
  <2> HIDE DEF r1
  <2>3. r2 \in CallRecord
    BY <2>2, FieldsKeepType
  <2> HIDE DEF r2
  <2>4. r3 \in CallRecord
    BY <2>3, FieldsKeepType
  <2> HIDE DEF r3
  <2>5. r4 \in CallRecord
    BY <2>4, FieldsKeepType
  <2> HIDE DEF r4
  <2>6. r5 \in CallRecord
    BY <2>5, FieldsKeepType
  <2> QED BY <2>1, <2>6
<1>b. /\ new.at = "ended" /\ new.result = result
      /\ new.helper = call.helper /\ new.n = call.n /\ new.stage = call.stage
      /\ new.sent = call.sent /\ new.done = call.done /\ new.lost = call.lost /\ new.attempt = 0
  BY <1>0 DEF Ended, CallRecord
<1>1. /\ new \in CallRecord /\ new.at = "ended" /\ new.result = result
      /\ new.helper = call.helper /\ new.n = call.n /\ new.stage = call.stage
      /\ new.sent = call.sent /\ new.done = call.done /\ new.lost = call.lost /\ new.attempt = 0
  BY <1>a, <1>b
<1>2. call \in CallRecord /\ PlaceFits(call) /\ DoneFits(call) /\ SentFits(call) /\ AllowedFits(call)
  BY DEF Fits
<1> HIDE DEF new
<1>3. PlaceFits(new)
  BY <1>1, <1>2 DEF PlaceFits, Underway
<1>4. DoneFits(new)
  BY <1>1, <1>2 DEF DoneFits
<1>5. SentFits(new)
  BY <1>1, <1>2 DEF SentFits, Underway, Failed, CallRecord
<1>6. AllowedFits(new)
  BY <1>1, <1>2 DEF AllowedFits
<1>7. DelayFits(new)
  BY <1>1 DEF DelayFits
<1> QED BY <1>1, <1>3, <1>4, <1>5, <1>6, <1>7 DEF Fits, new

(* A call of a helper that retries may sleep before another attempt.       *)
LEMMA SleepFits ==
    ASSUME NEW call, Fits(call), call.at \in Underway, call.helper \in Retrying,
           call.attempt < MaxRetries, MaxRetries \in Nat,
           call.done >= 1 => call.lost,
           NEW asked \in Int, NEW next \in Sleeps(call, asked)
    PROVE  Fits(next) /\ next.at = "sleeping" /\ next.n = call.n
<1>1. PICK ms \in computeBackoffDelay(call.attempt, asked) :
         next = [call EXCEPT !.at = "sleeping", !.asked = asked, !.delay = ms]
  BY DEF Sleeps
<1>2. call \in CallRecord /\ PlaceFits(call) /\ DoneFits(call) /\ SentFits(call) /\ AllowedFits(call)
  BY DEF Fits
<1>3. call.attempt \in Nat
  BY <1>2 DEF CallRecord
<1>4. /\ ms \in Int /\ ms <= 30000
      /\ ms >= Floor(call.attempt)
      /\ ms >= Min({asked, 30000})
  BY <1>1, <1>3, DelayBounds
<1>a. next \in CallRecord
  <2> DEFINE r1 == [call EXCEPT !.at = "sleeping"]
             r2 == [r1 EXCEPT !.asked = asked]
             r3 == [r2 EXCEPT !.delay = ms]
  <2>1. next = r3
    BY <1>1
  <2>2. r1 \in CallRecord
    BY <1>2, FieldsKeepType DEF Underway
  <2> HIDE DEF r1
  <2>3. r2 \in CallRecord
    BY <2>2, FieldsKeepType
  <2> HIDE DEF r2
  <2>4. r3 \in CallRecord
    BY <1>4, <2>3, FieldsKeepType
  <2> QED BY <2>1, <2>4
<1>5. /\ next.at = "sleeping" /\ next.asked = asked /\ next.delay = ms
      /\ next.helper = call.helper /\ next.n = call.n /\ next.stage = call.stage
      /\ next.sent = call.sent /\ next.done = call.done /\ next.lost = call.lost
      /\ next.attempt = call.attempt /\ next.result = call.result
  BY <1>1, <1>2 DEF CallRecord
<1>6. PlaceFits(next)
  BY <1>2, <1>5 DEF PlaceFits, Underway
<1>7. DoneFits(next)
  BY <1>2, <1>5 DEF DoneFits, PlaceFits, Underway
<1>8. SentFits(next)
  BY <1>2, <1>5 DEF SentFits, Underway, Failed
<1>9. AllowedFits(next)
  BY <1>2, <1>5 DEF AllowedFits
<1>10. DelayFits(next)
  BY <1>4, <1>5 DEF DelayFits
<1> QED BY <1>a, <1>5, <1>6, <1>7, <1>8, <1>9, <1>10 DEF Fits

(* fetchWithBackoff sleeps or, after the last attempt or for a helper that *)
(* does not retry, fails.                                                  *)
LEMMA BackoffFits ==
    ASSUME NEW call, Fits(call), call.at \in Underway, MaxRetries \in Nat,
           call.done >= 1 => call.lost,
           NEW asked \in Int, NEW result \in Results \ {"none", "ok"},
           call.helper \in Valued => result # "throws",
           NEW next \in fetchWithBackoff(call, asked, result)
    PROVE  Fits(next) /\ next.at \in {"sleeping", "ended"} /\ next.n = call.n
<1>0. call \in CallRecord
  BY DEF Fits
<1>1. CASE call.helper \in Retrying /\ call.attempt < MaxRetries
  BY <1>1, SleepFits DEF fetchWithBackoff
<1>2. CASE ~(call.helper \in Retrying /\ call.attempt < MaxRetries)
  <2>1. next = Ended(call, result)
    BY <1>2 DEF fetchWithBackoff
  <2>2. call.helper \in Retrying => call.attempt = MaxRetries
    BY <1>0, <1>2 DEF CallRecord
  <2>3. Fits(next)
    BY <2>1, <2>2, EndedFits
  <2>4. next.at = "ended" /\ next.n = call.n
    BY <1>0, <2>1 DEF Ended, CallRecord
  <2> QED BY <2>3, <2>4
<1> QED BY <1>1, <1>2

(* The configuration does not change, so what fits a call still does.      *)
LEMMA FitsStays ==
    ASSUME configured' = configured, NEW d, Fits(calls'[d])
    PROVE  Fits(calls[d])'
  BY DEF Fits, AllowedFits, Configured

(* A step of one call keeps the invariant if the call fits and no object   *)
(* is removed.                                                             *)
LEMMA OneCallChanges ==
    ASSUME ForgeInv, NEW c \in Callers, NEW new, Fits(new),
           calls' = [calls EXCEPT ![c] = new], configured' = configured, begun' \in 0..MaxCalls,
           objects \subseteq objects', \A o \in objects' : o = ObjectOf(o.n), returned' \subseteq objects',
           new.at = "answered" /\ Helper[new.helper].requests[new.stage] = "upload"
              => ObjectOf(new.n) \in objects'
    PROVE  ForgeInv'
<1>0. /\ calls \in [Callers -> CallRecord] /\ \A d \in Callers : Fits(calls[d])
      /\ configured \subseteq {"url", "key"} /\ StoreFits
  BY DEF ForgeInv
<1>1. /\ calls' \in [Callers -> CallRecord]
      /\ \A d \in Callers : calls'[d] = IF d = c THEN new ELSE calls[d]
  BY <1>0 DEF Fits
<1>2. \A d \in Callers : Fits(calls[d])'
  <2> TAKE d \in Callers
  <2>1. Fits(calls'[d])
    BY <1>0, <1>1
  <2> QED BY <2>1, FitsStays
<1>3. ASSUME NEW d \in Callers, calls'[d].at = "answered", RequestOf(d)' = "upload"
      PROVE  ObjectOf(calls'[d].n) \in objects'
  <2>1. Helper[calls'[d].helper].requests[calls'[d].stage] = "upload"
    BY <1>3 DEF RequestOf
  <2>2. CASE d = c
    BY <1>1, <1>3, <2>1, <2>2
  <2>3. CASE d # c
    BY <1>0, <1>1, <1>3, <2>1, <2>3 DEF StoreFits, RequestOf
  <2> QED BY <2>2, <2>3
<1>4. StoreFits'
  BY <1>3 DEF StoreFits, ObjectOf
<1> QED BY <1>0, <1>1, <1>2, <1>4 DEF ForgeInv

(* A helper is called: it refuses, or sends its first request.             *)
LEMMA BeginFits ==
    ASSUME ForgeInv, NEW c \in Callers, Begin(c)
    PROVE  ForgeInv'
<1> DEFINE Starts(helper, good) ==
        LET call == [NoCall EXCEPT !.helper = helper, !.n = begun + 1, !.stage = 1] IN
        /\ calls[c].at \in {"idle", "ended"} /\ begun < MaxCalls
        /\ begun' = begun + 1
        /\ calls' = [calls EXCEPT ![c] =
                        CASE ~ good -> Ended(call, Failure(helper, "given"))
                          [] good /\ ~ Configured(helper) -> Ended(call, Failure(helper, "config"))
                          [] OTHER -> [call EXCEPT !.at = "sent", !.sent = 1]]
        /\ UNCHANGED <<configured, objects, returned>>
<1>0. PICK helper \in Helpers : \E good \in Helper[helper].given : Starts(helper, good)
  BY DEF Begin
<1>1. PICK good \in Helper[helper].given : Starts(helper, good)
  BY <1>0
<1> DEFINE call == [NoCall EXCEPT !.helper = helper, !.n = begun + 1, !.stage = 1]
           live == [call EXCEPT !.at = "sent", !.sent = 1]
           over(why) == Ended(call, Failure(helper, why))
<1>2. /\ begun \in Nat /\ MaxCalls \in Nat /\ MaxRetries \in Nat /\ begun' \in 0..MaxCalls
  BY <1>1, ForgeAssumption DEF ForgeInv
<1>3. /\ call \in CallRecord /\ call.helper = helper /\ call.stage = 1 /\ call.sent = 0 /\ call.done = 0
      /\ call.attempt = 0 /\ call.result = "none" /\ call.at = "idle" /\ call.lost = FALSE
  <2>1. NoCall \in CallRecord
    BY <1>2 DEF NoCall, CallRecord, Results
  <2> DEFINE r1 == [NoCall EXCEPT !.helper = helper]
             r2 == [r1 EXCEPT !.n = begun + 1]
             r3 == [r2 EXCEPT !.stage = 1]
  <2>2. call = r3
    OBVIOUS
  <2>3. r1 \in CallRecord
    BY <2>1, FieldsKeepType
  <2> HIDE DEF r1
  <2>4. r2 \in CallRecord
    BY <1>2, <2>3, FieldsKeepType
  <2> HIDE DEF r2
  <2>5. r3 \in CallRecord
    BY <2>4, FieldsKeepType
  <2>6. call \in CallRecord
    BY <2>2, <2>5
  <2> QED BY <2>6 DEF NoCall
<1> HIDE DEF call
<1>4. 1 \in 1..Len(Helper[helper].requests)
  BY RequestFacts
<1>5. ASSUME NEW why PROVE Fits(over(why)) /\ over(why).at = "ended"
  <2> DEFINE res == Failure(helper, why)
             new == Ended(call, res)
  <2>1. res \in Results \ {"none", "ok"}
    BY FailureIsNoSuccess
  <2> HIDE DEF res
  <2>2. new \in CallRecord
    <3> DEFINE r1 == [call EXCEPT !.at = "ended"]
               r2 == [r1 EXCEPT !.result = res]
               r3 == [r2 EXCEPT !.attempt = 0]
               r4 == [r3 EXCEPT !.asked = -1]
               r5 == [r4 EXCEPT !.status = 0]
    <3>1. new = r5
      BY DEF Ended
    <3>2. r1 \in CallRecord
      BY <1>3, FieldsKeepType
    <3> HIDE DEF r1
    <3>3. r2 \in CallRecord
      BY <2>1, <3>2, FieldsKeepType
    <3> HIDE DEF r2
    <3>4. r3 \in CallRecord
      BY <1>2, <3>3, FieldsKeepType
    <3> HIDE DEF r3
    <3>5. r4 \in CallRecord
      BY <3>4, FieldsKeepType
    <3> HIDE DEF r4
    <3>6. r5 \in CallRecord
      BY <3>5, FieldsKeepType
    <3> QED BY <3>1, <3>6
  <2>3. /\ new.at = "ended" /\ new.result = res /\ new.helper = helper /\ new.stage = 1
        /\ new.sent = 0 /\ new.done = 0 /\ new.attempt = 0 /\ new.lost = FALSE
    BY <1>3 DEF Ended, CallRecord
  <2> HIDE DEF new
  <2>4. PlaceFits(new) /\ DoneFits(new)
    BY <1>4, <2>1, <2>3 DEF PlaceFits, DoneFits
  <2>5. SentFits(new) /\ AllowedFits(new) /\ DelayFits(new)
    BY <1>2, <2>3 DEF SentFits, AllowedFits, DelayFits, Underway
  <2>6. Fits(new)
    BY <2>2, <2>4, <2>5 DEF Fits
  <2> QED BY <2>3, <2>6 DEF new, res
<1>6. ASSUME Configured(helper) PROVE Fits(live) /\ live.at = "sent"
  <2>1. live \in CallRecord
    <3> DEFINE r1 == [call EXCEPT !.at = "sent"]
               r2 == [r1 EXCEPT !.sent = 1]
    <3>1. live = r2
      OBVIOUS
    <3>2. r1 \in CallRecord
      BY <1>3, FieldsKeepType DEF Underway
    <3> HIDE DEF r1
    <3>3. r2 \in CallRecord
      BY <3>2, FieldsKeepType
    <3> QED BY <3>1, <3>3
  <2>2. /\ live.at = "sent" /\ live.result = "none" /\ live.helper = helper /\ live.stage = 1
        /\ live.sent = 1 /\ live.done = 0 /\ live.attempt = 0 /\ live.lost = FALSE
    BY <1>3 DEF CallRecord
  <2> HIDE DEF live
  <2>3. PlaceFits(live) /\ DoneFits(live)
    BY <1>4, <2>2 DEF PlaceFits, DoneFits
  <2>4. SentFits(live) /\ AllowedFits(live) /\ DelayFits(live)
    BY <1>2, <1>6, <2>2 DEF SentFits, AllowedFits, DelayFits, Underway, Failed
  <2> QED BY <2>1, <2>2, <2>3, <2>4 DEF Fits
<1>7. \E new : Fits(new) /\ new.at # "answered" /\ calls' = [calls EXCEPT ![c] = new]
  <2> HIDE DEF live, over
  <2>1. CASE ~ good
    <3>1. calls' = [calls EXCEPT ![c] = over("given")]
      BY <1>1, <2>1 DEF call, over
    <3> QED BY <1>5, <3>1
  <2>2. CASE good /\ ~ Configured(helper)
    <3>1. calls' = [calls EXCEPT ![c] = over("config")]
      BY <1>1, <2>2 DEF call, over
    <3> QED BY <1>5, <3>1
  <2>3. CASE good /\ Configured(helper)
    <3>1. calls' = [calls EXCEPT ![c] = live]
      BY <1>1, <2>3 DEF call, live
    <3> QED BY <1>6, <2>3, <3>1
  <2> QED BY <2>1, <2>2, <2>3
<1>8. PICK new : Fits(new) /\ new.at # "answered" /\ calls' = [calls EXCEPT ![c] = new]
  BY <1>7
<1> QED BY <1>1, <1>2, <1>8, OneCallChanges DEF ForgeInv, StoreFits

(* What the invariant says of one call.                                    *)
LEMMA CallFacts ==
    ASSUME ForgeInv, NEW c \in Callers
    PROVE  /\ calls \in [Callers -> CallRecord] /\ MaxRetries \in Nat
           /\ calls[c] \in CallRecord /\ Fits(calls[c])
           /\ PlaceFits(calls[c]) /\ DoneFits(calls[c]) /\ SentFits(calls[c]) /\ AllowedFits(calls[c])
           /\ begun \in 0..MaxCalls /\ StoreFits
           /\ \A o \in objects : o = ObjectOf(o.n)
           /\ returned \subseteq objects
  BY ForgeAssumption DEF ForgeInv, Fits, StoreFits

(* The upstream carries a request out, an upload by storing the object.    *)
LEMMA CarriedOutFits ==
    ASSUME ForgeInv, NEW c \in Callers, CarriedOut(c)
    PROVE  ForgeInv'
<1> DEFINE call == calls[c]
           new == [call EXCEPT !.at = "answered", !.done = @ + 1]
<1>0. /\ call \in CallRecord /\ PlaceFits(call) /\ DoneFits(call) /\ SentFits(call)
      /\ AllowedFits(call) /\ MaxRetries \in Nat /\ calls \in [Callers -> CallRecord]
      /\ \A o \in objects : o = ObjectOf(o.n)
      /\ returned \subseteq objects /\ begun \in 0..MaxCalls /\ call.at = "sent"
  BY CallFacts DEF CarriedOut
<1>1. calls' = [calls EXCEPT ![c] = new]
  BY <1>0 DEF CarriedOut
<1>2. new \in CallRecord
  <2> DEFINE r1 == [call EXCEPT !.at = "answered"]
             r2 == [r1 EXCEPT !.done = call.done + 1]
  <2>1. new = r2
    BY <1>0 DEF CallRecord
  <2>2. r1 \in CallRecord
    BY <1>0, FieldsKeepType DEF Underway
  <2>3. call.done + 1 \in Nat
    BY <1>0 DEF CallRecord
  <2> HIDE DEF r1
  <2>4. r2 \in CallRecord
    BY <2>2, <2>3, FieldsKeepType
  <2> QED BY <2>1, <2>4
<1>3. /\ new.at = "answered" /\ new.done = call.done + 1 /\ new.helper = call.helper /\ new.n = call.n
      /\ new.stage = call.stage /\ new.sent = call.sent /\ new.attempt = call.attempt
      /\ new.lost = call.lost /\ new.result = call.result /\ call.done \in Nat
  BY <1>0 DEF CallRecord
<1> HIDE DEF new
<1>4. PlaceFits(new) /\ DoneFits(new)
  BY <1>0, <1>3 DEF PlaceFits, DoneFits
<1>5. SentFits(new) /\ AllowedFits(new) /\ DelayFits(new)
  BY <1>0, <1>3 DEF SentFits, AllowedFits, DelayFits, Underway, Failed
<1>6. Fits(new)
  BY <1>2, <1>4, <1>5 DEF Fits
<1>7. /\ objects \subseteq objects' /\ \A o \in objects' : o = ObjectOf(o.n)
      /\ RequestOf(c) = "upload" => ObjectOf(call.n) \in objects'
  <2>1. CASE RequestOf(c) # "upload"
    BY <1>0, <2>1 DEF CarriedOut
  <2>2. CASE RequestOf(c) = "upload"
    <3>1. objects' = {o \in objects : o.key # Key(c)} \cup {ObjectOf(call.n)}
      BY <2>2 DEF CarriedOut, ObjectOf, Key
    <3>2. ObjectOf(call.n) = ObjectOf(ObjectOf(call.n).n)
      BY DEF ObjectOf
    <3>3. ASSUME NEW o \in objects, o.key = Key(c) PROVE o = ObjectOf(call.n)
      <4>1. o = ObjectOf(o.n)
        BY <1>0
      <4>2. o.key = <<"name", o.n>> /\ Key(c) = <<"name", call.n>>
        BY <4>1 DEF ObjectOf, Key, appendHashSuffix
      <4>3. <<"name", o.n>>[2] = <<"name", call.n>>[2]
        BY <3>3, <4>2
      <4>4. o.n = call.n
        BY <4>3
      <4> QED BY <4>1, <4>4
    <3> QED BY <1>0, <3>1, <3>2, <3>3
  <2> QED BY <2>1, <2>2
<1>8. /\ configured' = configured /\ begun' \in 0..MaxCalls /\ returned' \subseteq objects'
  BY <1>0, <1>7 DEF CarriedOut
<1>9. new.at = "answered" /\ Helper[new.helper].requests[new.stage] = "upload"
         => ObjectOf(new.n) \in objects'
  BY <1>3, <1>7 DEF RequestOf
<1> QED BY <1>1, <1>6, <1>7, <1>8, <1>9, OneCallChanges

(* A step that leaves the upstream's objects alone and no answer waiting. *)
LEMMA QuietChange ==
    ASSUME ForgeInv, NEW c \in Callers, NEW new, Fits(new), new.at # "answered",
           calls' = [calls EXCEPT ![c] = new], UNCHANGED <<configured, begun, objects, returned>>
    PROVE  ForgeInv'
  BY OneCallChanges DEF ForgeInv, StoreFits

(* The upstream's refusal is noted in the call.                            *)
LEMMA RejectionFits ==
    ASSUME ForgeInv, NEW c \in Callers, calls[c].at = "sent",
           NEW ms \in Int, NEW status \in Int,
           calls' = [calls EXCEPT ![c].at = "rejected", ![c].asked = ms, ![c].status = status],
           UNCHANGED <<configured, begun, objects, returned>>
    PROVE  ForgeInv'
<1> DEFINE call == calls[c]
<1>0. /\ call \in CallRecord /\ PlaceFits(call) /\ DoneFits(call) /\ SentFits(call)
      /\ AllowedFits(call) /\ MaxRetries \in Nat /\ calls \in [Callers -> CallRecord]
      /\ call.at = "sent"
  BY CallFacts
<1> DEFINE new == [call EXCEPT !.at = "rejected", !.asked = ms, !.status = status]
<1>2. calls' = [calls EXCEPT ![c] = new]
  BY <1>0
<1>3. new \in CallRecord
  <2> DEFINE r1 == [call EXCEPT !.at = "rejected"]
             r2 == [r1 EXCEPT !.asked = ms]
             r3 == [r2 EXCEPT !.status = status]
  <2>1. new = r3
    OBVIOUS
  <2>2. r1 \in CallRecord
    BY <1>0, FieldsKeepType DEF Underway
  <2> HIDE DEF r1
  <2>3. r2 \in CallRecord
    BY <2>2, FieldsKeepType
  <2> HIDE DEF r2
  <2>4. r3 \in CallRecord
    BY <2>3, FieldsKeepType
  <2> QED BY <2>1, <2>4
<1>4. /\ new.at = "rejected" /\ new.done = call.done /\ new.helper = call.helper
      /\ new.stage = call.stage /\ new.sent = call.sent /\ new.attempt = call.attempt
      /\ new.lost = call.lost /\ new.result = call.result
  BY <1>0 DEF CallRecord
<1> HIDE DEF new
<1>5. PlaceFits(new) /\ DoneFits(new)
  BY <1>0, <1>4 DEF PlaceFits, DoneFits
<1>6. SentFits(new) /\ AllowedFits(new) /\ DelayFits(new)
  BY <1>0, <1>4 DEF SentFits, AllowedFits, DelayFits, Underway, Failed
<1>7. Fits(new)
  BY <1>3, <1>5, <1>6 DEF Fits
<1> QED BY <1>2, <1>4, <1>7, QuietChange

(* The upstream refuses a request.                                         *)
LEMMA RejectedFits ==
    ASSUME ForgeInv, NEW c \in Callers, Rejected(c)
    PROVE  ForgeInv'
<1> DEFINE waits == IF calls[c].helper \in Retrying THEN RetryAfters ELSE {-1}
           codes == IF calls[c].helper \in Heartbeat THEN Statuses ELSE {503}
           After(ms, status) ==
              calls' = [calls EXCEPT ![c].at = "rejected", ![c].asked = ms, ![c].status = status]
<1>1. waits \subseteq Int /\ codes \subseteq Int
  BY ForgeAssumption
<1>2. /\ calls[c].at = "sent" /\ UNCHANGED <<configured, begun, objects, returned>>
      /\ \E ms \in waits : \E status \in codes : After(ms, status)
  BY DEF Rejected
<1>3. ASSUME NEW ms \in Int, NEW status \in Int, After(ms, status) PROVE ForgeInv'
  <2>1. /\ calls' = [calls EXCEPT ![c].at = "rejected", ![c].asked = ms, ![c].status = status]
        /\ calls[c].at = "sent" /\ UNCHANGED <<configured, begun, objects, returned>>
    BY <1>2, <1>3
  <2> HIDE DEF After, waits, codes
  <2> QED BY <1>3, <2>1, RejectionFits
<1> HIDE DEF waits, codes, After
<1> QED BY <1>1, <1>2, <1>3

(* The refusal arrives: the call is retried or fails.                      *)
LEMMA RejectionArrivesFits ==
    ASSUME ForgeInv, NEW c \in Callers, RejectionArrives(c)
    PROVE  ForgeInv'
<1> DEFINE call == calls[c]
           result == IF call.helper \in Heartbeat THEN mapForgeError(call.status)
                     ELSE Failure(call.helper, RequestOf(c))
<1>0. /\ call \in CallRecord /\ PlaceFits(call) /\ DoneFits(call) /\ Fits(call)
      /\ MaxRetries \in Nat /\ call.at = "rejected"
  BY CallFacts DEF RejectionArrives
<1>1. /\ call.helper \in Helpers
      /\ call.stage \in DOMAIN Helper[call.helper].requests
  BY <1>0, RequestFacts DEF PlaceFits
<1>2. RequestOf(c) \notin {"given", "config"}
  BY <1>1, RequestFacts DEF RequestOf
<1>3. /\ result \in Results \ {"none", "ok"}
      /\ call.helper \in Valued => result # "throws"
  BY <1>1, <1>2, FailureIsNoSuccess, StatusIsNoSuccess DEF Valued, Heartbeat
<1>4. call.done >= 1 => call.lost
  BY <1>0 DEF DoneFits, PlaceFits
<1>5. call.asked \in Int
  BY <1>0 DEF CallRecord
<1>6. PICK next \in fetchWithBackoff(call, call.asked, result) : calls' = [calls EXCEPT ![c] = next]
  BY DEF RejectionArrives
<1> HIDE DEF result, call
<1>7. Fits(next) /\ next.at \in {"sleeping", "ended"}
  BY <1>0, <1>3, <1>4, <1>5, <1>6, BackoffFits DEF Underway
<1> QED BY <1>6, <1>7, QuietChange DEF RejectionArrives

(* A request or its answer is lost.                                        *)
LEMMA NetworkErrorFits ==
    ASSUME ForgeInv, NEW c \in Callers, NetworkError(c)
    PROVE  ForgeInv'
<1> DEFINE old == calls[c]
           call == [old EXCEPT !.lost = @ \/ old.at = "answered"]
<1>0. /\ old \in CallRecord /\ PlaceFits(old) /\ DoneFits(old) /\ SentFits(old) /\ AllowedFits(old)
      /\ DelayFits(old)
      /\ MaxRetries \in Nat /\ old.at \in {"sent", "answered", "rejected"} /\ old.lost \in BOOLEAN
  BY CallFacts DEF NetworkError, CallRecord, Fits
<1>1. /\ call \in CallRecord
      /\ call.at = old.at /\ call.done = old.done /\ call.helper = old.helper
      /\ call.stage = old.stage /\ call.sent = old.sent /\ call.attempt = old.attempt
      /\ call.result = old.result /\ call.lost = (old.lost \/ old.at = "answered")
  <2>1. call = [old EXCEPT !.lost = (old.lost \/ old.at = "answered")]
    BY <1>0 DEF CallRecord
  <2>2. (old.lost \/ old.at = "answered") \in BOOLEAN
    BY <1>0
  <2>3. call \in CallRecord
    BY <1>0, <2>1, <2>2, FieldsKeepType
  <2> QED BY <1>0, <2>1, <2>3 DEF CallRecord
<1>2. PICK next \in fetchWithBackoff(call, -1, Failure(call.helper, "network")) :
         calls' = [calls EXCEPT ![c] = next]
  BY DEF NetworkError
<1> HIDE DEF call, old
<1>3. PlaceFits(call) /\ DoneFits(call)
  BY <1>0, <1>1 DEF PlaceFits, DoneFits
<1>4. SentFits(call) /\ AllowedFits(call) /\ DelayFits(call)
  <2>1. call.at \notin {"sleeping", "ended"} /\ ~ Failed(call)
    BY <1>0, <1>1 DEF PlaceFits, Failed
  <2>2. SentFits(call)
    BY <1>0, <1>1, <2>1 DEF SentFits, Underway
  <2>3. AllowedFits(call)
    BY <1>0, <1>1 DEF AllowedFits
  <2>4. DelayFits(call)
    BY <2>1 DEF DelayFits
  <2> QED BY <2>2, <2>3, <2>4
<1>5. Fits(call)
  BY <1>1, <1>3, <1>4 DEF Fits
<1>6. call.done >= 1 => call.lost
  <2>1. CASE old.at = "answered"
    BY <1>1, <2>1
  <2>2. CASE old.at # "answered"
    <3>1. old.result = "none" /\ call.done = old.done /\ call.lost = old.lost
      BY <1>0, <1>1, <2>2 DEF PlaceFits
    <3>2. old.done >= 1 => old.lost
      BY <1>0, <2>2, <3>1 DEF DoneFits
    <3> QED BY <3>1, <3>2
  <2> QED BY <2>1, <2>2
<1>7. call.helper \in Helpers /\ call.at \in Underway
  BY <1>0, <1>1 DEF PlaceFits, Underway
<1>8. /\ Failure(call.helper, "network") \in Results \ {"none", "ok"}
      /\ call.helper \in Valued => Failure(call.helper, "network") # "throws"
  BY <1>7, FailureIsNoSuccess
<1>9. Fits(next) /\ next.at \in {"sleeping", "ended"}
  BY <1>0, <1>2, <1>5, <1>6, <1>7, <1>8, BackoffFits
<1> QED BY <1>2, <1>9, QuietChange DEF NetworkError

(* The delay is over and the request is sent again.                        *)
LEMMA WakeFits ==
    ASSUME ForgeInv, NEW c \in Callers, Wake(c)
    PROVE  ForgeInv'
<1> DEFINE call == calls[c]
           new == [call EXCEPT !.at = "sent", !.sent = @ + 1, !.attempt = @ + 1,
                               !.asked = -1, !.status = 0, !.delay = 0]
<1>0. /\ call \in CallRecord /\ PlaceFits(call) /\ DoneFits(call) /\ SentFits(call)
      /\ AllowedFits(call) /\ MaxRetries \in Nat /\ calls \in [Callers -> CallRecord]
      /\ call.at = "sleeping"
  BY CallFacts DEF Wake
<1>1. /\ call.sent \in Nat /\ call.attempt \in 0..MaxRetries /\ call.attempt < MaxRetries
      /\ call.helper \in Retrying /\ call.sent = call.attempt + 1
  BY <1>0 DEF SentFits, CallRecord, Underway
<1>2. calls' = [calls EXCEPT ![c] = new]
  BY <1>0 DEF Wake
<1>3. new \in CallRecord
  <2> DEFINE r1 == [call EXCEPT !.at = "sent"]
             r2 == [r1 EXCEPT !.sent = call.sent + 1]
             r3 == [r2 EXCEPT !.attempt = call.attempt + 1]
             r4 == [r3 EXCEPT !.asked = -1]
             r5 == [r4 EXCEPT !.status = 0]
             r6 == [r5 EXCEPT !.delay = 0]
  <2>1. new = r6
    BY <1>0 DEF CallRecord
  <2>2. r1 \in CallRecord
    BY <1>0, FieldsKeepType DEF Underway
  <2> HIDE DEF r1
  <2>3. r2 \in CallRecord
    <3>1. call.sent + 1 \in Nat
      BY <1>1
    <3> QED BY <2>2, <3>1, FieldsKeepType
  <2> HIDE DEF r2
  <2>4. r3 \in CallRecord
    <3>1. call.attempt + 1 \in 0..MaxRetries
      BY <1>0, <1>1
    <3> QED BY <2>3, <3>1, FieldsKeepType
  <2> HIDE DEF r3
  <2>5. r4 \in CallRecord
    BY <2>4, FieldsKeepType
  <2> HIDE DEF r4
  <2>6. r5 \in CallRecord
    BY <2>5, FieldsKeepType
  <2> HIDE DEF r5
  <2>7. r6 \in CallRecord
    BY <2>6, FieldsKeepType
  <2> QED BY <2>1, <2>7
<1>4. /\ new.at = "sent" /\ new.done = call.done /\ new.helper = call.helper
      /\ new.stage = call.stage /\ new.sent = call.sent + 1 /\ new.attempt = call.attempt + 1
      /\ new.lost = call.lost /\ new.result = call.result
  BY <1>0 DEF CallRecord
<1> HIDE DEF new
<1>5. PlaceFits(new) /\ DoneFits(new)
  BY <1>0, <1>4 DEF PlaceFits, DoneFits
<1>6. SentFits(new)
  BY <1>0, <1>1, <1>4 DEF SentFits, PlaceFits, Underway, Failed
<1>7. AllowedFits(new) /\ DelayFits(new)
  BY <1>0, <1>1, <1>4 DEF AllowedFits, DelayFits
<1>8. Fits(new)
  BY <1>3, <1>5, <1>6, <1>7 DEF Fits
<1> QED BY <1>2, <1>4, <1>8, QuietChange DEF Wake

(* The body of an answer is cut off or is no answer.                       *)
LEMMA BodyFailsFits ==
    ASSUME ForgeInv, NEW c \in Callers, BodyFails(c)
    PROVE  ForgeInv'
<1> DEFINE old == calls[c]
           call == [old EXCEPT !.lost = TRUE]
<1>0. /\ old \in CallRecord /\ PlaceFits(old) /\ DoneFits(old) /\ SentFits(old) /\ AllowedFits(old)
      /\ DelayFits(old) /\ calls \in [Callers -> CallRecord]
      /\ MaxRetries \in Nat /\ old.at = "answered"
  BY CallFacts DEF BodyFails, Fits
<1>1. PICK why \in {"body", "large"} :
         calls' = [calls EXCEPT ![c] = Ended([@ EXCEPT !.lost = TRUE], Failure(@.helper, why))]
  BY DEF BodyFails
<1>2. calls' = [calls EXCEPT ![c] = Ended(call, Failure(old.helper, why))]
  BY <1>0, <1>1
<1>3. /\ call \in CallRecord
      /\ call.at = old.at /\ call.done = old.done /\ call.helper = old.helper
      /\ call.stage = old.stage /\ call.sent = old.sent /\ call.attempt = old.attempt
      /\ call.result = old.result /\ call.lost = TRUE
  <2>1. call \in CallRecord
    BY <1>0, FieldsKeepType
  <2> QED BY <1>0, <2>1 DEF CallRecord
<1> HIDE DEF call, old
<1>4. PlaceFits(call) /\ DoneFits(call)
  BY <1>0, <1>3 DEF PlaceFits, DoneFits
<1>5. SentFits(call) /\ AllowedFits(call) /\ DelayFits(call)
  BY <1>0, <1>3 DEF SentFits, AllowedFits, DelayFits, Underway, Failed
<1>6. Fits(call)
  BY <1>3, <1>4, <1>5 DEF Fits
<1>7. old.helper \in Helpers /\ call.at \in Underway
  BY <1>0, <1>3 DEF PlaceFits, Underway
<1>8. /\ Failure(old.helper, why) \in Results \ {"none", "ok"}
      /\ call.helper \in Valued => Failure(old.helper, why) # "throws"
  BY <1>3, <1>7, FailureIsNoSuccess
<1> DEFINE new == Ended(call, Failure(old.helper, why))
<1>9. Fits(new)
  BY <1>0, <1>3, <1>6, <1>7, <1>8, EndedFits
<1>10. new.at = "ended"
  BY <1>3 DEF Ended, CallRecord
<1> QED BY <1>2, <1>9, <1>10, QuietChange DEF BodyFails

(* An answer arrives: the next request is sent, or the call succeeds and   *)
(* returns what it stored.                                                 *)
LEMMA AnswerArrivesFits ==
    ASSUME ForgeInv, NEW c \in Callers, AnswerArrives(c)
    PROVE  ForgeInv'
<1> DEFINE call == calls[c]
           last == call.stage = Len(Helper[call.helper].requests)
           new == IF last THEN Ended(call, "ok")
                  ELSE [call EXCEPT !.stage = @ + 1, !.at = "sent", !.done = 0]
<1>0. /\ call \in CallRecord /\ PlaceFits(call) /\ DoneFits(call) /\ SentFits(call)
      /\ AllowedFits(call) /\ Fits(call) /\ MaxRetries \in Nat /\ calls \in [Callers -> CallRecord]
      /\ call.at = "answered" /\ StoreFits /\ begun \in 0..MaxCalls
      /\ \A o \in objects : o = ObjectOf(o.n)
      /\ returned \subseteq objects
  BY CallFacts DEF AnswerArrives
<1>1. /\ calls' = [calls EXCEPT ![c] = new]
      /\ returned' = IF last /\ call.helper \in Storing
                     THEN returned \cup {[key |-> Key(c), n |-> call.n]} ELSE returned
      /\ UNCHANGED <<configured, begun, objects>>
  BY DEF AnswerArrives
<1>2. /\ call.helper \in Helpers /\ call.stage \in Nat
      /\ call.stage \in 1..Len(Helper[call.helper].requests)
      /\ Len(Helper[call.helper].requests) \in Nat
  BY <1>0, RequestFacts DEF PlaceFits
<1>3. CASE last
  <2>1. Fits(new) /\ new.at = "ended"
    <3>1. "ok" \in Results \ {"none"} /\ call.at \in Underway
      BY <1>0 DEF Results, Underway
    <3>2. call.done >= 1
      BY <1>0 DEF DoneFits
    <3>3. Fits(Ended(call, "ok"))
      BY <1>0, <3>1, <3>2, EndedFits
    <3>4. Ended(call, "ok").at = "ended"
      BY <1>0 DEF Ended, CallRecord
    <3> QED BY <1>3, <3>3, <3>4
  <2>2. returned' \subseteq objects
    <3>1. CASE call.helper \in Storing
      <4>1. RequestOf(c) = "upload"
        BY <1>2, <1>3, <3>1, RequestFacts DEF RequestOf
      <4>2. [key |-> Key(c), n |-> call.n] \in objects
        BY <1>0, <4>1 DEF StoreFits, ObjectOf, Key
      <4> QED BY <1>0, <1>1, <4>2
    <3>2. CASE call.helper \notin Storing
      BY <1>0, <1>1, <3>2
    <3> QED BY <3>1, <3>2
  <2> HIDE DEF new
  <2> QED BY <1>0, <1>1, <2>1, <2>2, OneCallChanges
<1>4. CASE ~ last
  <2>1. /\ new \in CallRecord /\ new.at = "sent" /\ new.done = 0 /\ new.helper = call.helper
        /\ new.stage = call.stage + 1 /\ new.sent = call.sent /\ new.attempt = call.attempt
        /\ new.lost = call.lost /\ new.result = call.result
    <3> DEFINE r1 == [call EXCEPT !.stage = call.stage + 1]
               r2 == [r1 EXCEPT !.at = "sent"]
               r3 == [r2 EXCEPT !.done = 0]
    <3>1. new = r3
      BY <1>0, <1>4 DEF CallRecord
    <3>2. r1 \in CallRecord
      <4>1. call.stage + 1 \in Nat
        BY <1>2
      <4> QED BY <1>0, <4>1, FieldsKeepType
    <3>3. /\ r1.at = call.at /\ r1.done = call.done /\ r1.helper = call.helper
          /\ r1.stage = call.stage + 1 /\ r1.sent = call.sent /\ r1.attempt = call.attempt
          /\ r1.lost = call.lost /\ r1.result = call.result
      BY <1>0 DEF CallRecord
    <3> HIDE DEF r1
    <3>4. r2 \in CallRecord
      BY <3>2, FieldsKeepType DEF Underway
    <3>5. /\ r2.at = "sent" /\ r2.done = r1.done /\ r2.helper = r1.helper
          /\ r2.stage = r1.stage /\ r2.sent = r1.sent /\ r2.attempt = r1.attempt
          /\ r2.lost = r1.lost /\ r2.result = r1.result
      BY <3>2 DEF CallRecord
    <3> HIDE DEF r2
    <3>6. r3 \in CallRecord
      BY <3>4, FieldsKeepType
    <3>7. /\ r3.at = r2.at /\ r3.done = 0 /\ r3.helper = r2.helper
          /\ r3.stage = r2.stage /\ r3.sent = r2.sent /\ r3.attempt = r2.attempt
          /\ r3.lost = r2.lost /\ r3.result = r2.result
      BY <3>4 DEF CallRecord
    <3> HIDE DEF r3, new
    <3> QED BY <3>1, <3>3, <3>5, <3>6, <3>7
  <2> HIDE DEF new
  <2>2. PlaceFits(new) /\ DoneFits(new)
    BY <1>0, <1>2, <1>4, <2>1 DEF PlaceFits, DoneFits
  <2>3. SentFits(new)
    BY <1>0, <2>1 DEF SentFits, Underway, Failed
  <2>4. AllowedFits(new) /\ DelayFits(new)
    BY <1>0, <2>1 DEF AllowedFits, DelayFits
  <2>5. Fits(new)
    BY <2>1, <2>2, <2>3, <2>4 DEF Fits
  <2>6. /\ returned' = returned /\ returned' \subseteq objects' /\ objects' = objects
        /\ begun' \in 0..MaxCalls /\ configured' = configured
        /\ \A o \in objects' : o = ObjectOf(o.n)
        /\ new.at # "answered"
    BY <1>0, <1>1, <1>4, <2>1
  <2> HIDE DEF last
  <2> QED BY <1>1, <2>5, <2>6, OneCallChanges
<1> QED BY <1>3, <1>4

(* No call has begun.                                                      *)
LEMMA ForgeStartsWell ==
    ASSUME ForgeInit
    PROVE  ForgeInv
<1>0. MaxRetries \in Nat /\ MaxCalls \in Nat
  BY ForgeAssumption
<1>1. NoCall \in CallRecord
  BY <1>0 DEF NoCall, CallRecord, Results
<1>2. "none" \notin Retrying /\ "none" \notin Valued
  BY DEF Retrying, Valued
<1>3. Fits(NoCall)
  BY <1>0, <1>1, <1>2 DEF Fits, PlaceFits, DoneFits, SentFits, AllowedFits, DelayFits, NoCall, Underway
<1>4. \A c \in Callers : calls[c].at = "idle"
  BY DEF ForgeInit, NoCall
<1> QED BY <1>0, <1>1, <1>3, <1>4 DEF ForgeInit, ForgeInv, StoreFits

(* Every step keeps the invariant.                                         *)
LEMMA ForgeStep ==
    ASSUME ForgeInv, [ForgeNext]_forgeVars
    PROVE  ForgeInv'
<1>1. ASSUME NEW c \in Callers, Begin(c) PROVE ForgeInv'
  BY <1>1, BeginFits
<1>2. ASSUME NEW c \in Callers, Settles(c) PROVE ForgeInv'
  BY <1>2, CarriedOutFits, RejectedFits, RejectionArrivesFits, NetworkErrorFits,
     AnswerArrivesFits, BodyFailsFits, WakeFits DEF Settles
<1>3. CASE UNCHANGED forgeVars
  <2>1. /\ configured' = configured /\ calls' = calls /\ begun' = begun
        /\ objects' = objects /\ returned' = returned
    BY <1>3 DEF forgeVars
  <2>2. \A c \in Callers : Fits(calls[c])'
    BY <2>1, FitsStays DEF ForgeInv
  <2> QED BY <2>1, <2>2 DEF ForgeInv, StoreFits, RequestOf
<1> QED BY <1>1, <1>2, <1>3 DEF ForgeNext

(* The invariant says that callers are told the truth.                     *)
LEMMA TruthFollows ==
    ASSUME ForgeInv
    PROVE  CallersAreToldTheTruth
<1>1. ForgeTypeOK
  <2>1. ASSUME NEW c \in Callers
        PROVE  /\ calls[c].at \in {"idle", "sent", "answered", "rejected", "sleeping", "ended"}
               /\ calls[c].attempt \in 0..MaxRetries /\ calls[c].result \in Results
               /\ calls[c].at # "idle" =>
                     calls[c].stage \in DOMAIN Helper[calls[c].helper].requests
    <3>1. calls[c] \in CallRecord /\ PlaceFits(calls[c])
      BY CallFacts
    <3>2. /\ calls[c].at \in {"idle", "sent", "answered", "rejected", "sleeping", "ended"}
          /\ calls[c].attempt \in 0..MaxRetries /\ calls[c].result \in Results
      BY <3>1 DEF CallRecord, Underway
    <3> QED BY <3>1, <3>2, RequestFacts DEF PlaceFits
  <2> QED BY <2>1 DEF ForgeTypeOK, ForgeInv
<1>2. OutcomeIsHonest
  <2> SUFFICES ASSUME NEW c \in Callers
               PROVE  /\ calls[c].result = "ok" => calls[c].done >= 1
                      /\ (Failed(calls[c]) /\ calls[c].done >= 1) => calls[c].lost
                      /\ calls[c].done > 1 => calls[c].lost
    BY DEF OutcomeIsHonest
  <2> QED BY CallFacts DEF DoneFits, PlaceFits, Failed
<1>3. FailuresAreValues
  BY CallFacts DEF FailuresAreValues, AllowedFits, Valued
<1>4. NothingSentUnconfigured
  <2> SUFFICES ASSUME NEW c \in Callers, calls[c].sent > 0, configured # {"url", "key"}
               PROVE  configured = {"key"} /\ calls[c].helper \in Retrying
    BY DEF NothingSentUnconfigured
  <2>1. Configured(calls[c].helper) /\ configured \subseteq {"url", "key"}
    BY CallFacts DEF AllowedFits, ForgeInv
  <2>2. "key" \in configured
    BY <2>1 DEF Configured
  <2>3. "url" \notin configured
    BY <2>1, <2>2
  <2>4. calls[c].helper \in Retrying
    BY <2>1, <2>3 DEF Configured
  <2>5. \A x \in configured : x = "key"
    BY <2>1, <2>3
  <2>6. configured = {"key"}
    BY <2>2, <2>5
  <2> QED BY <2>4, <2>6
<1>5. StoredStays
  BY DEF StoredStays, ForgeInv, StoreFits
<1> QED BY <1>1, <1>2, <1>3, <1>4, <1>5 DEF CallersAreToldTheTruth

(* It says that retries stay in bounds.                                    *)
LEMMA BoundsFollow ==
    ASSUME ForgeInv
    PROVE  RetriesInBounds
<1>1. AllAttemptsUsed
  BY CallFacts DEF AllAttemptsUsed, SentFits
<1>2. DelayInRange
  <2> SUFFICES ASSUME NEW c \in Callers, calls[c].at = "sleeping"
               PROVE  /\ calls[c].delay >= Floor(calls[c].attempt)
                      /\ calls[c].delay >= Min({calls[c].asked, RETRY_MAX_DELAY_MS})
                      /\ calls[c].delay <= RETRY_MAX_DELAY_MS
    BY DEF DelayInRange, Floor
  <2> QED BY CallFacts DEF Fits, DelayFits, RETRY_MAX_DELAY_MS
<1> QED BY <1>1, <1>2 DEF RetriesInBounds

(* The calls of any number of callers, interleaved as they may be, fit     *)
(* what the upstream did for them.                                         *)
THEOREM ForgeInvariant == ForgeSpec => []ForgeInv
<1>1. ForgeInit => ForgeInv
  BY ForgeStartsWell
<1>2. ForgeInv /\ [ForgeNext]_forgeVars => ForgeInv'
  BY ForgeStep
<1> QED BY <1>1, <1>2, PTL DEF ForgeSpec

(* A helper of server/_core reports success only for requests that were    *)
(* carried out, and failure of one that was carried out only when its      *)
(* answer was lost; helpers that promise a value do not throw, nothing is  *)
(* sent without a configuration, and what storagePut returned stays under  *)
(* its key.                                                                *)
THEOREM TruthIsTold == ForgeSpec => []CallersAreToldTheTruth
<1>1. ForgeInv => CallersAreToldTheTruth
  BY TruthFollows
<1> QED BY <1>1, ForgeInvariant, PTL

(* A call that fails without a lost answer has used all attempts of        *)
(* fetchWithBackoff, and every delay is at least half of the exponential   *)
(* cap and what Retry-After asks for, and at most RETRY_MAX_DELAY_MS.      *)
THEOREM RetriesStayInBounds == ForgeSpec => []RetriesInBounds
<1>1. ForgeInv => RetriesInBounds
  BY BoundsFollow
<1> QED BY <1>1, ForgeInvariant, PTL
==============================================================================
