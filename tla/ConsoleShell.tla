---------------------------- MODULE ConsoleShell ----------------------------
(* The frame of the web console in one browser tab: the routes with their  *)
(* lazily loaded pages (App.tsx), the error boundary, the access gate, the *)
(* sidebar with its sheet on narrow windows, the dark class on the root    *)
(* element, and the filters each page keeps while it is mounted.           *)
(* Development and production builds differ in the preview pages only.     *)
(* What the pages load and change is the subject of Console, the session   *)
(* that of ConsoleSession.                                                 *)
EXTENDS Naturals, FiniteSets

CONSTANTS Host,         \* hosts of the fleet
          StrangeHost,  \* an identifier in the address that names no host
          NoHost,
          Term,         \* search texts with something other than blanks
          Matching,     \* hosts whose searchable text includes a term
          HostStatus,   \* status of each host
          Alert,        \* alerts of the queue: [host, state, severity]
          Tab,          \* sections of the host page
          FirstTab,
          MaxMoves      \* bound: address changes per document

ASSUME ShellAssumption ==
    /\ StrangeHost \notin Host /\ NoHost \notin Host /\ StrangeHost # NoHost
    /\ Matching \in [Term -> SUBSET Host]
    /\ HostStatus \in [Host -> {"healthy", "degraded", "unavailable"}]
    /\ Alert \subseteq [host     : Host,
                        state    : {"active", "acknowledged", "resolved"},
                        severity : {"critical", "warning", "info"}]
    /\ FirstTab \in Tab
    /\ MaxMoves \in Nat

VARIABLES
    dev,      \* import.meta.env.DEV of the build
    path,     \* window.location.pathname
    previous, \* the neighbouring entry of the tab's history
    moves,    \* address changes in this document
    narrow,   \* the window is below MOBILE_BREAKPOINT
    cookie,   \* sidebar_state, "unset" before the first toggle
    user,     \* meQuery: "loading", "in" or "out"
    loaded,   \* pages whose chunk has arrived
    crashed,  \* ErrorBoundary.state.hasError
    mounted,  \* the route component that is mounted, perhaps hidden
    view,     \* local state of the mounted page
    sidebar,  \* local state of the mounted SidebarProvider
    dark      \* the root element has the class "dark"

shellVars == <<dev, path, previous, moves, narrow, cookie, user, loaded, crashed,
               mounted, view, sidebar, dark>>

Blank == {"", "blanks"}
Status == {"healthy", "degraded", "unavailable"}
HostFilter == [search : Blank \cup Term, availability : {"all"} \cup Status]
AlertFilter == [state    : {"all", "active", "acknowledged"},
                severity : {"all", "critical", "warning"}]
HostTab == [tab : Tab]

LayoutPage == {"overview", "hosts", "host", "alerts", "operations",
               "administration", "alert-rules"}
Page == LayoutPage \cup {"notfound"}

At(p, g) == [preview |-> p, page |-> g, host |-> NoHost]
AtHost(p, h) == [preview |-> p, page |-> "host", host |-> h]
Path == {At(p, g) : p \in BOOLEAN, g \in Page \ {"host"}}
          \cup {AtHost(p, h) : p \in BOOLEAN, h \in Host \cup {StrangeHost}}

\* the component of the matching Route: hosts share one, so do unknown paths
Router(p) == [preview |-> p.preview /\ p.page # "notfound", page |-> p.page]
Nothing == [preview |-> FALSE, page |-> "none"]
Component == {Nothing} \cup {Router(p) : p \in Path}

FreshView(g) ==
    CASE g = "hosts"  -> [search |-> "", availability |-> "all"]
      [] g = "alerts" -> [state |-> "all", severity |-> "all"]
      [] g = "host"   -> [tab |-> FirstTab]
      [] OTHER        -> [nothing |-> "none"]

SidebarProvider == [here |-> TRUE, open |-> TRUE, sheet |-> FALSE]
NoSidebar == [here |-> FALSE, open |-> TRUE, sheet |-> FALSE]

-----------------------------------------------------------------------------
\* the layout's own test of the address, which ignores the page's preview prop
Preview(p) == dev /\ p.preview

\* DashboardLayout renders the sidebar and the page instead of the skeleton or sign-in
DashboardLayout(p, u) == p.page \in LayoutPage /\ (u = "in" \/ Preview(p))

\* mutant: the cleanup of the old sidebar runs last
DarkClassCleanedLast(unmounts, mounts) == (dark \/ mounts) /\ ~unmounts

\* root class after a commit: React runs the cleanups before the new effects
DarkClass(unmounts, mounts) == mounts \/ (dark /\ ~unmounts)

Suspended == ~crashed /\ path.page \notin loaded
Content == ~crashed /\ ~Suspended /\ (sidebar.here \/ mounted.page = "notfound")

\* a modal sheet on narrow windows, a column on others
Covered == narrow /\ sidebar.sheet
Sidebar == sidebar.here /\ (narrow => sidebar.sheet)

\* React commits what the new address, session, chunks and errors ask for.
\* A page that waits for its chunk leaves the old one mounted behind the fallback.
Commit ==
    LET unmounts == sidebar.here /\ (mounted' # mounted \/ ~sidebar'.here)
        mounts   == sidebar'.here /\ (mounted' # mounted \/ ~sidebar.here)
    IN  \/ /\ ~crashed' /\ path'.page \notin loaded'
           /\ UNCHANGED <<mounted, view, sidebar, dark>>
        \/ /\ ~crashed' /\ path'.page \in loaded'
           /\ mounted' = Router(path')
           /\ view' = IF mounted' = mounted THEN view ELSE FreshView(path'.page)
           /\ sidebar' = IF ~DashboardLayout(path', user') THEN NoSidebar
                         ELSE IF sidebar.here /\ mounted' = mounted THEN sidebar
                         ELSE SidebarProvider
           /\ dark' = DarkClass(unmounts, mounts)
        \/ /\ crashed'
           /\ mounted' = Nothing /\ view' = FreshView("none") /\ sidebar' = NoSidebar
           /\ dark' = DarkClass(unmounts, FALSE)

\* a new document: ThemeProvider adds the class once, with the fallback on screen
ThemeProvider ==
    /\ user' = "loading" /\ loaded' = {} /\ crashed' = FALSE
    /\ mounted' = Nothing /\ view' = FreshView("none") /\ sidebar' = NoSidebar
    /\ dark' = TRUE
    /\ UNCHANGED <<dev, narrow, cookie>>

ShellInit ==
    /\ dev \in BOOLEAN /\ path \in Path /\ previous = path /\ moves = 0
    /\ narrow \in BOOLEAN /\ cookie = "unset"
    /\ user = "loading" /\ loaded = {} /\ crashed = FALSE
    /\ mounted = Nothing /\ view = FreshView("none") /\ sidebar = NoSidebar
    /\ dark = TRUE

-----------------------------------------------------------------------------
\* Where the controls of a page lead.

VisibleHosts(f, status) ==
    {h \in Host : /\ f.availability \in {"all", status[h]}
                  /\ f.search \in Blank \/ h \in Matching[f.search]}
HostFiltersActive(f) == f.search \notin Blank \/ f.availability # "all"

FilteredAlerts(f, alerts) ==
    {a \in alerts : f.state \in {"all", a.state} /\ f.severity \in {"all", a.severity}}
AlertFiltersActive(f) == f.state # "all" \/ f.severity # "all"

FleetOverview(p) ==
    {At(p, g) : g \in {"operations", "hosts", "alerts"}} \cup {AtHost(p, h) : h \in Host}
HostsPage(p) ==
    {At(p, g) : g \in {"alerts", "operations"}}
      \cup {AtHost(p, h) : h \in VisibleHosts(view, HostStatus)}
\* mutant: the way back from a host forgets the preview
HostDetailNoGateway(p, h) == {At(FALSE, g) : g \in IF h \in Host THEN {"overview", "hosts"} ELSE {}}

HostDetail(p, h) == {At(p, g) : g \in IF h \in Host THEN {"overview", "hosts"} ELSE {}}
AlertsPage(p) == {AtHost(p, a.host) : a \in FilteredAlerts(view, Alert)}
AdministrationPage(p) == {At(p, "alert-rules")}
NotFound == {At(FALSE, "overview")}

Links ==
    CASE path.page = "overview"       -> FleetOverview(path.preview)
      [] path.page = "hosts"          -> HostsPage(path.preview)
      [] path.page = "host"           -> HostDetail(path.preview, path.host)
      [] path.page = "alerts"         -> AlertsPage(path.preview)
      [] path.page = "administration" -> AdministrationPage(path.preview)
      [] path.page = "notfound"       -> NotFound
      [] OTHER                        -> {}

navigation == {"overview", "hosts", "alerts", "operations", "administration"}
TargetPath(item) == At(Preview(path), item)

\* the items the sidebar marks: the address starts with theirs, after /preview is cut off
Active(item) ==
    /\ Preview(path) = path.preview
    /\ item \in CASE path.page \in {"host", "hosts"} -> {"hosts"}
                  [] path.page = "alert-rules"       -> {"administration"}
                  [] OTHER                           -> {path.page}

-----------------------------------------------------------------------------
\* the server refuses previews in production: those pages load for ever, but for
\* AdministrationPage, which waits for nothing
Answered == path.preview => dev \/ path.page \in {"administration", "notfound"}

Navigate(p) ==
    /\ moves < MaxMoves
    /\ path' = p /\ previous' = path /\ moves' = moves + 1
    /\ UNCHANGED <<dev, narrow, cookie, user, loaded, crashed>>
    /\ Commit

FollowLink ==
    /\ Content /\ Answered /\ ~Covered
    /\ \E p \in Links : Navigate(p)

FollowItem ==
    /\ Content /\ Sidebar
    /\ \E item \in navigation : Navigate(TargetPath(item))

\* the browser's Back and Forward between neighbouring entries
Traverse == previous # path /\ Navigate(previous)

\* an address typed in, or a link from outside
EnterAddress ==
    /\ moves < MaxMoves
    /\ \E p \in Path : path' = p /\ previous' = p
    /\ moves' = moves + 1
    /\ ThemeProvider

\* the button of the error page, or the browser's own
Reload == ThemeProvider /\ UNCHANGED <<path, previous, moves>>

ChunkArrives ==
    /\ Suspended
    /\ loaded' = loaded \cup {path.page}
    /\ UNCHANGED <<dev, path, previous, moves, narrow, cookie, user, crashed>>
    /\ Commit

ErrorBoundary ==
    /\ Suspended
    /\ crashed' = TRUE
    /\ UNCHANGED <<dev, path, previous, moves, narrow, cookie, user, loaded>>
    /\ Commit

\* The session query answers, is refetched by a newly mounted page, or logout ends.
\* A failed first fetch leaves nothing cached ("out" too), so the next page loads again.
MeAnswers ==
    /\ mounted.page \in LayoutPage
    /\ \E u \in {"in", "out", "loading"} \ {user} :
          /\ u = "loading" => user = "out"
          /\ user' = u
    /\ UNCHANGED <<dev, path, previous, moves, narrow, cookie, loaded, crashed>>
    /\ Commit

\* matchMedia reports that the window crossed the breakpoint, to a hidden page too
UseIsMobile ==
    /\ narrow' = ~narrow
    /\ UNCHANGED <<dev, path, previous, moves, cookie, user, loaded, crashed,
                   mounted, view, sidebar, dark>>

\* buttons of the sidebar and Ctrl+B, whose listener outlives a hidden page;
\* React may put the state change of a hidden page off for good, the cookie is written
ToggleSidebar ==
    LET toggled == IF narrow THEN [sidebar EXCEPT !.sheet = ~@]
                             ELSE [sidebar EXCEPT !.open = ~@]
    IN  /\ sidebar.here
        /\ sidebar' \in IF Suspended THEN {toggled, sidebar} ELSE {toggled}
        /\ cookie' = IF narrow THEN cookie ELSE IF sidebar.open THEN "false" ELSE "true"
        /\ UNCHANGED <<dev, path, previous, moves, narrow, user, loaded, crashed,
                       mounted, view, dark>>

\* Escape, or a press beside the sheet
DismissSheet ==
    /\ Content /\ Covered
    /\ sidebar' = [sidebar EXCEPT !.sheet = FALSE]
    /\ UNCHANGED <<dev, path, previous, moves, narrow, cookie, user, loaded, crashed,
                   mounted, view, dark>>

\* the controls of a page: search and filters, their Clear buttons, the tabs
Choose ==
    /\ Content /\ Answered /\ sidebar.here /\ ~Covered
    /\ \/ path.page = "hosts" /\ \E s \in Blank \cup Term : view' = [view EXCEPT !.search = s]
       \/ path.page = "hosts" /\ \E s \in {"all"} \cup Status : view' = [view EXCEPT !.availability = s]
       \/ path.page = "alerts" /\ \E s \in {"all", "active", "acknowledged"} : view' = [view EXCEPT !.state = s]
       \/ path.page = "alerts" /\ \E s \in {"all", "critical", "warning"} : view' = [view EXCEPT !.severity = s]
       \/ path.page \in {"hosts", "alerts"} /\ view' = FreshView(path.page)
       \/ path.page = "host" /\ path.host \in Host /\ view' \in HostTab
    /\ UNCHANGED <<dev, path, previous, moves, narrow, cookie, user, loaded, crashed,
                   mounted, sidebar, dark>>

ShellNext == \/ FollowLink \/ FollowItem \/ Traverse \/ EnterAddress \/ Reload
             \/ ChunkArrives \/ ErrorBoundary \/ MeAnswers \/ UseIsMobile
             \/ ToggleSidebar \/ DismissSheet \/ Choose

ShellSpec == ShellInit /\ [][ShellNext]_shellVars

-----------------------------------------------------------------------------
(* Every variable keeps its type, and the local state of a page has the    *)
(* shape of the page that is mounted.                                      *)
ShellTypeOK ==
    /\ dev \in BOOLEAN /\ path \in Path /\ previous \in Path /\ moves \in 0..MaxMoves
    /\ narrow \in BOOLEAN /\ cookie \in {"unset", "true", "false"}
    /\ user \in {"loading", "in", "out"} /\ loaded \subseteq Page
    /\ crashed \in BOOLEAN /\ mounted \in Component /\ dark \in BOOLEAN
    /\ sidebar \in [here : BOOLEAN, open : BOOLEAN, sheet : BOOLEAN]
    /\ view \in CASE mounted.page = "hosts"  -> HostFilter
                  [] mounted.page = "alerts" -> AlertFilter
                  [] mounted.page = "host"   -> HostTab
                  [] OTHER                   -> {FreshView("none")}

(* However pages, sessions and failures follow each other, a console page  *)
(* that is mounted stands on a dark root: the sidebar of the page that     *)
(* leaves does not take away the class the new one has added.              *)
DarkUnderLayout == sidebar.here => dark

(* Only a signed-in user sees a console page, its preview variant          *)
(* included; a development build alone shows previews to everyone.         *)
PreviewNeedsDevelopment ==
    Content /\ path.page \in LayoutPage /\ user # "in" => dev /\ path.preview

(* The sidebar marks one item, and following it stays in the marked        *)
(* section of the same data, live or preview; a production build, whose    *)
(* sidebar knows no previews, marks none there.                            *)
SidebarTellsWhere ==
    Content /\ sidebar.here =>
        IF path.preview /\ ~dev
        THEN \A item \in navigation : ~Active(item)
        ELSE \E item \in navigation :
                /\ \A other \in navigation : Active(other) <=> other = item
                /\ TargetPath(item).preview = path.preview

(* Whatever the status of the hosts and the alerts become while filters    *)
(* are set, a row that is not shown can be brought back: the page offers   *)
(* its Clear button.                                                       *)
HiddenRowsHaveClear ==
    /\ mounted.page = "hosts" =>
          \A status \in [Host -> Status] :
             VisibleHosts(view, status) # Host => HostFiltersActive(view)
    /\ mounted.page = "alerts" =>
          \A a \in [host : Host, state : {"active", "acknowledged", "resolved"},
                    severity : {"critical", "warning", "info"}] :
             FilteredAlerts(view, {a}) = {} => AlertFiltersActive(view)

(* The frame fits the page in it, after any succession of moves, loads and *)
(* failures: class, access, marked item and filters belong to that page.   *)
FrameFitsPage ==
    /\ ShellTypeOK
    /\ DarkUnderLayout /\ PreviewNeedsDevelopment /\ SidebarTellsWhere
    /\ HiddenRowsHaveClear

(* No chain of clicks in a console page of a development build leads out   *)
(* of the preview or into it, to an unknown page or to an unknown host.    *)
LinksKeepSource ==
    [][dev /\ path.page \in LayoutPage /\ (FollowLink \/ FollowItem)
         => /\ path'.preview = path.preview
            /\ path'.page \in LayoutPage
            /\ path'.page = "host" => path'.host \in Host]_shellVars

(* On a narrow window the sheet never covers the page one has just moved   *)
(* to, also when its chunk arrived later or the move was the browser's.    *)
SheetLeavesNewPage == [][mounted' # mounted => ~sidebar'.sheet]_shellVars

(* A move leads where its link says and uncovers what it leads to.         *)
MovesLeadThere == LinksKeepSource /\ SheetLeavesNewPage
=============================================================================
