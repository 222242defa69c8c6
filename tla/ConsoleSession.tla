---------------------------- MODULE ConsoleSession ----------------------------
(***************************************************************************)
(* Signing in to the web console, staying signed in and signing out: the   *)
(* OAuth callback (server/_core/oauth.ts), sessions and request            *)
(* authentication (sdk.ts, context.ts, server/db.ts), and what the tabs of *)
(* one browser do about it (client const.ts, main.tsx, useAuth.ts).        *)
(*                                                                         *)
(* The tabs share the cookies.  Every request carries the token the        *)
(* browser held when it was sent; other tabs, the services and the clock   *)
(* may change anything between it and its answer.  A nonce is a random     *)
(* UUID: a new login takes one that nobody holds any more.                 *)
(***************************************************************************)
EXTENDS Naturals, FiniteSets

CONSTANTS
    Tabs,
    Framed,         \* tabs into which the preview runtime may put a token
    Users,          \* openIds of people
    Owner,          \* OWNER_OPEN_ID
    Nameless,       \* the people for whom the identity provider has no name
    Task            \* the openId of a scheduled task (prefix cron_)

Nobody   == "nobody"

ASSUME SessionAssumption ==
    /\ Framed \subseteq Tabs /\ IsFiniteSet(Tabs)
    /\ Nameless \subseteq Users /\ Task \notin Users
    /\ Owner \in Users /\ Nobody \notin Users \cup {Task}

Accounts == Users \cup {Task}
NoToken  == [who |-> Nobody, named |-> FALSE]
Tokens   == {NoToken} \cup [who : Accounts, named : BOOLEAN]
Nonces   == 1..(Cardinality(Tabs) + 1)
Deployments == {"usual", "no_database", "plain_http"}
Roles    == {"none", "user", "admin"}

VARIABLES
    deployment, \* how the server is set up
    up,         \* the database, the identity provider and the network answer
    rows,       \* users.role of each account, or "none"
    session,    \* the cookie app_session_id
    state,      \* the cookie __Host-oauth_state, or 0
    used,       \* nonces whose authorization code was exchanged
    tab,        \* what each tab shows and where its login is
    req,        \* the request a tab waits for, and where its handler is
    latest,     \* history: the nonce of the login started last, or 0 once a
                \* login was answered or the state cookie aged since
    wronged,    \* history: that login was refused all the same
    earned      \* history: who signed in at the portal in a login started here

server == <<deployment, rows>>
jar    == <<session, state>>
past   == <<latest, wronged, earned>>
vars   == <<server, up, jar, used, tab, req, past>>

Places == {"app", "portal", "exchanging", "refused"}
Idle   == [at |-> "idle", kind |-> "me", tok |-> NoToken, calm |-> TRUE, role |-> "none"]

TypeOK ==
    /\ deployment \in Deployments
    /\ up \in BOOLEAN
    /\ rows \in [Accounts -> Roles]
    /\ session \in Tokens
    /\ state \in Nonces \cup {0}
    /\ used \subseteq Nonces
    /\ tab \in [Tabs -> [at : Places, nonce : Nonces \cup {0}, who : Users \cup {Nobody},
                         bearer : Tokens, shown : Accounts \cup {Nobody}]]
    /\ req \in [Tabs -> [at : {"idle", "lookup", "sync", "cron", "known", "unknown"},
                         kind : {"me", "poll", "logout"}, tok : Tokens, calm : BOOLEAN,
                         role : Roles]]
    /\ latest \in Nonces \cup {0}
    /\ wronged \in BOOLEAN /\ earned \subseteq Users
-----------------------------------------------------------------------------
(* SameSite=None cookies are only kept when they are Secure.               *)
Secure == deployment # "plain_http"

Stored(db, who) == [db EXCEPT ![who] = IF who = Owner THEN "admin" ELSE IF @ = "none" THEN "user" ELSE @]

upsertUser(who) == rows' = IF deployment = "no_database" THEN rows ELSE Stored(rows, who)

(* Nothing answers, or the user table is there but cannot be reached.      *)
DatabaseFails == ~up /\ deployment # "no_database"

(* An authorization code can be exchanged once, while the provider answers. *)
exchangeCodeForToken(nonce) == up /\ nonce \notin used

getUserInfoWithJwt == up

Found(who) == deployment # "no_database" /\ rows[who] # "none"

(* The payload of the token: the openId, and the provider's name or "".    *)
createSessionToken(who) == [who |-> who, named |-> who \notin Nameless]

verifySession(tok) == tok.who # Nobody /\ tok.named

(* The cookie if there is one, whatever it is worth; else the header.      *)
SentToken(t, cookie) == IF cookie.who # Nobody THEN cookie ELSE tab[t].bearer

FirstStep(tok) ==
    IF ~verifySession(tok) THEN "unknown" ELSE IF tok.who = Task THEN "cron" ELSE "lookup"

Request(kind, tok) ==
    [at |-> FirstStep(tok), kind |-> kind, tok |-> tok, calm |-> up, role |-> "none"]

(* A handler whose client went away still runs to its end.                 *)
LeftAlone(t) ==
    IF req[t].at = "sync" /\ up
    THEN rows' = rows \/ upsertUser(req[t].tok.who)
    ELSE UNCHANGED rows

Init ==
    /\ deployment \in Deployments
    /\ up \in BOOLEAN
    /\ rows = [a \in Accounts |-> "none"]
    /\ session = NoToken /\ state = 0
    /\ used = {}
    /\ tab = [t \in Tabs |-> [at |-> "app", nonce |-> 0, who |-> Nobody, bearer |-> NoToken,
                              shown |-> Nobody]]
    /\ req = [t \in Tabs |-> Request("me", NoToken)]
    /\ latest = 0 /\ wronged = FALSE /\ earned = {}
-----------------------------------------------------------------------------
Held == {state} \cup {tab[t].nonce : t \in Tabs}

\* mutant: a nonce cookie that is already there is kept
StartLoginKeepingCookie(t) ==
    \E n \in {CHOOSE n \in Nonces : n \notin Held} :
        /\ state' = IF Secure /\ state = 0 THEN n ELSE state
        /\ used' = used \ {n}
        /\ tab' = [tab EXCEPT ![t].at = "portal", ![t].nonce = n, ![t].shown = Nobody]
        /\ req' = [req EXCEPT ![t] = Idle]
        /\ latest' = n
        /\ UNCHANGED <<session, wronged, earned>>

startLogin(t) ==
    \E n \in {CHOOSE n \in Nonces : n \notin Held} :
        /\ state' = IF Secure THEN n ELSE state
        /\ used' = used \ {n}
        /\ tab' = [tab EXCEPT ![t].at = "portal", ![t].nonce = n, ![t].shown = Nobody]
        /\ req' = [req EXCEPT ![t] = Idle]
        /\ latest' = n
        /\ UNCHANGED <<session, wronged, earned>>

(* The page is loaded anew: no data yet, and useAuth asks who is there.    *)
Load(t, cookie) ==
    /\ tab' = [tab EXCEPT ![t].at = "app", ![t].nonce = 0, ![t].who = Nobody,
                          ![t].shown = Nobody]
    /\ req' = [req EXCEPT ![t] = Request("me", SentToken(t, cookie))]

(* "Continue to sign in", on the page for visitors.                        *)
ClickSignIn(t) ==
    /\ tab[t].at = "app" /\ tab[t].shown = Nobody
    /\ req[t].at = "idle" \/ req[t].kind = "poll"
    /\ LeftAlone(t)
    /\ startLogin(t)
    /\ UNCHANGED <<deployment, up>>

(* A JSON error instead of the console.                                    *)
ErrorPage(t) ==
    /\ tab' = [tab EXCEPT ![t].at = "refused", ![t].nonce = 0, ![t].who = Nobody]
    /\ used' = used \ {tab[t].nonce}

\* mutant: the nonce is not compared
CallbackAcceptsAny(t, nonce, u) ==
    /\ tab' = [tab EXCEPT ![t].at = "exchanging", ![t].nonce = nonce, ![t].who = u]
    /\ UNCHANGED <<used, wronged>>

(* The callback: the nonce of the state must be that of the cookie.        *)
Callback(t, nonce, u) ==
    LET bound == nonce # 0 /\ nonce = state
    IN  /\ IF bound
           THEN /\ tab' = [tab EXCEPT ![t].at = "exchanging", ![t].nonce = nonce, ![t].who = u]
                /\ UNCHANGED used
           ELSE ErrorPage(t)
        /\ wronged' = (wronged \/ (~bound /\ Secure /\ nonce # 0 /\ nonce = latest))

(* The person signs in at the portal, which sends the tab to the callback. *)
Approve(t) ==
    \E u \in Users :
        /\ tab[t].at = "portal"
        /\ Callback(t, tab[t].nonce, u)
        /\ earned' = earned \cup {u}
        /\ UNCHANGED <<server, up, jar, req, latest>>

(* A callback address that no login of this browser produced, or one       *)
(* without a nonce, is opened.                                             *)
OpenLink(t) ==
    \E u \in Users :
        /\ tab[t].at = "portal"
        /\ Callback(t, 0, u)
        /\ UNCHANGED <<server, up, jar, req, latest, earned>>

(* The code is exchanged, the user is stored and the answer with both      *)
(* cookies reaches the tab, which goes to the console.  The state cookie   *)
(* that is cleared may by now be that of another tab.                      *)
CallbackSucceeds(t) ==
    /\ tab[t].at = "exchanging"
    /\ exchangeCodeForToken(tab[t].nonce)
    /\ upsertUser(tab[t].who)
    /\ session' = IF Secure THEN createSessionToken(tab[t].who) ELSE session
    /\ state' = 0 /\ latest' = 0
    /\ Load(t, session')
    /\ UNCHANGED <<deployment, up, used, wronged, earned>>

(* The provider does not answer, refuses the code or names no openId, or   *)
(* the user cannot be stored: an error page, and the state cookie is       *)
(* cleared all the same.                                                   *)
CallbackFails(t) ==
    /\ tab[t].at = "exchanging"
    /\ ErrorPage(t)
    /\ state' = 0 /\ latest' = 0
    /\ UNCHANGED <<server, up, session, req, wronged, earned>>

(* Reloading the callback asks again; the first handler may still exchange *)
(* the code and store the user, but its answer is lost.                    *)
Reload(t) ==
    /\ tab[t].at = "exchanging"
    /\ UNCHANGED rows \/ (up /\ upsertUser(tab[t].who))
    /\ \/ Callback(t, tab[t].nonce, tab[t].who)
       \/ /\ up /\ tab[t].nonce = state
          /\ used' = used \cup {tab[t].nonce}
          /\ UNCHANGED <<tab, wronged>>
    /\ UNCHANGED <<deployment, up, jar, req, latest, earned>>

(* Back to the console from an error page or the portal.                   *)
ReturnHome(t) ==
    /\ tab[t].at \in {"refused", "portal"}
    /\ Load(t, session)
    /\ UNCHANGED <<server, up, jar, used, past>>
-----------------------------------------------------------------------------
(* A page's own query, when the page opens, when its window gets the focus *)
(* and, on a page with a refetchInterval that is in view, again and again; *)
(* the tries before the last one leave no trace in the tab.  "me" again,   *)
(* when another page with its own layout is opened; signing out.           *)
Ask(t, kind) ==
    /\ tab[t].at = "app" /\ req[t].at = "idle"
    /\ kind # "poll" => tab[t].shown # Nobody
    /\ req' = [req EXCEPT ![t] = Request(kind, SentToken(t, session))]
    /\ UNCHANGED <<server, up, jar, used, tab, past>>

Poll(t)     == Ask(t, "poll")
OpenPage(t) == Ask(t, "me")
LogOut(t)   == Ask(t, "logout")

Refuse(t) == req' = [req EXCEPT ![t].at = "unknown"]

(* The handler goes on for this user, in this role.                        *)
Admit(t, role) == req' = [req EXCEPT ![t].at = "known", ![t].role = role]

\* mutant: a session whose user has no row is not synchronised
getUserOrNobody(t) ==
    /\ req[t].at = "lookup"
    /\ IF ~DatabaseFails /\ Found(req[t].tok.who) THEN Admit(t, rows[req[t].tok.who]) ELSE Refuse(t)
    /\ UNCHANGED <<server, up, jar, used, tab, past>>

(* The row is read, and lastSignedIn written before the request may go on. *)
getUserByOpenId(t) ==
    /\ req[t].at = "lookup"
    /\ \/ DatabaseFails /\ Refuse(t)
       \/ ~DatabaseFails /\ Found(req[t].tok.who) /\ Admit(t, rows[req[t].tok.who])
       \/ /\ ~DatabaseFails /\ ~Found(req[t].tok.who)
          /\ req' = [req EXCEPT ![t].at = "sync"]
    /\ UNCHANGED <<server, up, jar, used, tab, past>>

(* The user is fetched from the provider with the token itself.            *)
SyncUser(t) ==
    /\ req[t].at = "sync"
    /\ IF getUserInfoWithJwt
       THEN /\ upsertUser(req[t].tok.who)
            /\ LET role == rows'[req[t].tok.who]
               IN  IF role = "none" THEN Refuse(t) ELSE Admit(t, role)
       ELSE Refuse(t) /\ UNCHANGED rows
    /\ UNCHANGED <<deployment, up, jar, used, tab, past>>

(* The provider confirms the task, an ordinary user for whom no row is     *)
(* stored, or it does not answer or names no task.                         *)
CronUser(t) ==
    /\ req[t].at = "cron"
    /\ (getUserInfoWithJwt /\ Admit(t, "user")) \/ Refuse(t)
    /\ UNCHANGED <<server, up, jar, used, tab, past>>

Answered(t, kind) == req[t].kind = kind /\ req[t].at \in {"known", "unknown"}

MeAnswered(t) ==
    /\ Answered(t, "me")
    /\ tab' = [tab EXCEPT ![t].shown = IF req[t].at = "known" THEN req[t].tok.who ELSE Nobody]
    /\ req' = [req EXCEPT ![t] = Idle]
    /\ UNCHANGED <<server, up, jar, used, past>>

PollAnswered(t) ==
    /\ Answered(t, "poll")
    /\ req[t].at = "known"
    /\ req' = [req EXCEPT ![t] = Idle]
    /\ UNCHANGED <<server, up, jar, used, tab, past>>

\* mutant: the error is only logged
UnauthorizedLogged(t) ==
    /\ Answered(t, "poll") /\ req[t].at = "unknown"
    /\ req' = [req EXCEPT ![t] = Idle]
    /\ UNCHANGED <<server, up, jar, used, tab, past>>

(* UNAUTHORIZED after the last retry sends the tab to the portal.          *)
redirectToLoginIfUnauthorized(t) ==
    /\ Answered(t, "poll") /\ req[t].at = "unknown"
    /\ startLogin(t)
    /\ UNCHANGED <<server, up>>

(* useAuth's finally: the mirrored token and the user go, "me" is asked.   *)
LogOutEnds(t, cookie) ==
    /\ tab' = [tab EXCEPT ![t].shown = Nobody, ![t].bearer = NoToken]
    /\ req' = [req EXCEPT ![t] = Request("me", cookie)]

LogOutAnswered(t) ==
    /\ Answered(t, "logout")
    /\ session' = NoToken
    /\ LogOutEnds(t, NoToken)
    /\ UNCHANGED <<server, up, state, used, past>>

(* No answer: "me" and a query keep what they had, as the error is not     *)
(* UNAUTHORIZED; signing out still ends.                                   *)
RequestLost(t) ==
    /\ ~up /\ req[t].at # "idle"
    /\ IF req[t].kind = "logout"
       THEN LogOutEnds(t, session)
       ELSE req' = [req EXCEPT ![t] = Idle] /\ UNCHANGED tab
    /\ LeftAlone(t)
    /\ UNCHANGED <<deployment, up, jar, used, past>>
-----------------------------------------------------------------------------
(* The preview runtime mirrors a session into sessionStorage.              *)
Mirrored(t) == IF t \in Framed THEN {Owner, Task} ELSE {}

MirrorSession(t) ==
    \E a \in Mirrored(t) :
        /\ tab[t].at = "app" /\ tab[t].bearer = NoToken
        /\ tab' = [tab EXCEPT ![t].bearer = createSessionToken(a)]
        /\ UNCHANGED <<server, up, jar, used, req, past>>

(* ONE_YEAR_MS after it was made a session ends, as does its cookie; an    *)
(* expired token in sessionStorage is worth as little as none.             *)
YearPasses ==
    /\ session # NoToken \/ \E t \in Tabs : tab[t].bearer # NoToken
    /\ session' = NoToken
    /\ tab' = [t \in Tabs |-> [tab[t] EXCEPT !.bearer = NoToken]]
    /\ UNCHANGED <<server, up, state, used, req, past>>

(* Max-Age=600 of the state cookie.                                        *)
StateExpires ==
    /\ state # 0
    /\ state' = 0 /\ latest' = 0
    /\ UNCHANGED <<server, up, session, used, tab, req, wronged, earned>>

ServicesStop ==
    /\ up
    /\ up' = FALSE
    /\ req' = [t \in Tabs |-> [req[t] EXCEPT !.calm = req[t].at = "idle"]]
    /\ UNCHANGED <<server, jar, used, tab, past>>

ServicesReturn ==
    /\ ~up
    /\ up' = TRUE
    /\ UNCHANGED <<server, jar, used, tab, req, past>>

Handle(t) ==
    \/ getUserByOpenId(t) \/ SyncUser(t) \/ CronUser(t)
    \/ MeAnswered(t) \/ PollAnswered(t) \/ redirectToLoginIfUnauthorized(t) \/ LogOutAnswered(t)

Next ==
    \/ \E t \in Tabs :
         \/ ClickSignIn(t) \/ Approve(t) \/ OpenLink(t) \/ Reload(t) \/ ReturnHome(t)
         \/ CallbackSucceeds(t) \/ CallbackFails(t)
         \/ Poll(t) \/ OpenPage(t) \/ LogOut(t) \/ Handle(t) \/ RequestLost(t) \/ MirrorSession(t)
    \/ YearPasses \/ StateExpires \/ ServicesStop \/ ServicesReturn

Spec == Init /\ [][Next]_vars

(* Whatever a tab waits for is answered in the end, be it a callback or a  *)
(* request.                                                                *)
Progress(t) == Handle(t) \/ CallbackSucceeds(t) \/ CallbackFails(t)

Fairness == \A t \in Tabs : WF_vars(Progress(t))

FairSpec == Spec /\ Fairness
-----------------------------------------------------------------------------
(* The session cookie is that of a person who signed in at the portal in a *)
(* login which this browser started (the CSRF guard of the callback).      *)
OnlyOwnLogins == session.who \in earned \cup {Nobody}

(* A tab shows nobody but these people and, in a preview frame, those      *)
(* whose session the preview runtime may mirror; and nobody whose name the *)
(* identity provider lacks, although the callback accepts that login and   *)
(* sets the cookie.                                                        *)
ShownAreEntitled ==
    \A t \in Tabs : tab[t].shown \in (earned \cup Mirrored(t) \cup {Nobody}) \ Nameless

(* The role a request is handled in is the one stored for its user, that   *)
(* of an ordinary user for a scheduled task, and administrator only for    *)
(* the owner.                                                              *)
RoleInUse ==
    \A t \in Tabs :
        req[t].at = "known" =>
            /\ req[t].role = IF req[t].tok.who = Task THEN "user" ELSE rows[req[t].tok.who]
            /\ req[t].role # "none"
            /\ req[t].role = "admin" => req[t].tok.who = Owner

(* A scheduled task never gets a row in the user table.                    *)
RolesStored == rows[Task] = "none" /\ \A u \in Users : rows[u] = "admin" => u = Owner

(* Whoever gets in does so by a login of this browser or by a session      *)
(* mirrored into a preview frame, has a name, and acts in no more than the *)
(* stored role.                                                            *)
SessionsAreEarned ==
    TypeOK /\ OnlyOwnLogins /\ ShownAreEntitled /\ RoleInUse /\ RolesStored

(* The login started last is only refused as an invalid state when another *)
(* login was answered since, which clears the cookie, or the cookie aged.  *)
LatestLoginStands == ~wronged

(* A request that carries a live session of a named person is recognised,  *)
(* whether the user has a row or not, unless a service stopped meanwhile   *)
(* or the server has no database.                                          *)
LiveSessionRecognised ==
    \A t \in Tabs :
        (/\ req[t].at = "unknown" /\ req[t].calm
         /\ verifySession(req[t].tok) /\ req[t].tok.who # Task)
            => deployment = "no_database"

(* When the browser and the tab have no session any more, the tab stops    *)
(* showing a user, in whichever tab the person signed out, if it is kept   *)
(* in view on a page that polls (the fairness of Poll).  A tab in the      *)
(* background, or on the alert rules, which have no refetchInterval, goes  *)
(* on showing the user until it asks for something.                        *)
SignOutReachesTabs ==
    \A t \in Tabs :
        /\ WF_vars(Poll(t))
        /\ <>[](up /\ session = NoToken /\ tab[t].bearer = NoToken)
        => <>[](tab[t].shown = Nobody)
=============================================================================
