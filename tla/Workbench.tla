----------------------------- MODULE Workbench -----------------------------
(* The window's main area (MainLayout.tsx): the bar of tabs and their terminals
   (TerminalTabs, TerminalPane, tabStore), the panels for files and forwards
   (SftpBrowser, ForwardPanel, Titlebar) and the host form that takes the place of all
   of them, over the sessions and tabs that the session manager reports (sessions.ts,
   here only as far as its listeners can tell).

   A component hears of an event only while it is mounted.  Titles, sizes, keyboard
   focus and the overflow menu are left out; so is Manager's disconnect, which the
   window never calls.                                                              *)
EXTENDS Naturals, Sequences, FiniteSets

CONSTANTS
    Session, \* stable ids of sessions
    Tab      \* ids of tabs

VARIABLES
    sess,    \* the manager's sessions
    opening, \* sessions whose first tab the connect flow is opening
    mtab,    \* the manager's tabs: their session, and whether a rebuild holds them
    tabs,    \* tabStore's tabs
    active,  \* tabStore's activeId, {} for none
    screen,  \* the terminal of each tab: not mounted, empty or with text
    ui,      \* what the main area shows: "tabs" and panels, the "form", or "dead"
    panel,   \* MainLayout's panel
    files,   \* SftpBrowser's session, {} for none
    forward, \* ForwardPanel's session, {} for none
    missed   \* history: the bar was not mounted, or late, for an event about its tabs

wbVars == <<sess, opening, mtab, tabs, active, screen, ui, panel, files, forward, missed>>
managerVars == <<sess, opening, mtab>>
barVars == <<tabs, active, screen>>
panelVars == <<ui, panel, files, forward>>

Ids(bar) == {bar[i].id : i \in DOMAIN bar}
OpenSessions == {s \in Session : sess[s] \in {"connected", "reconnecting"}}
TabsOf(s) == {t \in DOMAIN mtab : mtab[t].of = s}

BenchInit ==
    /\ sess = [s \in Session |-> "none"]
    /\ opening = {}
    /\ mtab = <<>>
    /\ tabs = <<>>
    /\ active = {}
    /\ screen = [t \in Tab |-> "none"]
    /\ ui = "tabs"
    /\ panel = "terminal"
    /\ files = {} /\ forward = {}
    /\ missed = FALSE

----------------------------------------------------------------------------
Listening == ui = "tabs"

\* Where the active one of the tabs closes: the next to its right that stays, else the
\* last to its left.
NextActive(bar, ids) ==
    LET at == CHOOSE i \in DOMAIN bar : {bar[i].id} = active
        stay == {i \in DOMAIN bar : bar[i].id \notin ids}
        right == {i \in stay : i > at}
    IN  IF active \cap ids = {} THEN active
        ELSE {bar[i].id : i \in IF right # {} THEN {CHOOSE i \in right : \A j \in right : i <= j}
                                ELSE {i \in stay : \A j \in stay : i >= j}}

\* The tabs of bar that stay, in their order.
Stay(bar, ids) ==
    LET stay[n \in 0..Len(bar)] ==
            IF n = 0 THEN <<>>
            ELSE IF bar[n].id \in ids THEN stay[n - 1] ELSE Append(stay[n - 1], bar[n])
    IN  stay[Len(bar)]

\* tabStore.close of the tabs of bar, for each of ids; their terminals are disposed of.
CloseInBar(bar, ids) ==
    /\ tabs' = Stay(bar, ids)
    /\ active' = NextActive(bar, ids)
    /\ screen' = [t \in Tab |-> IF t \in ids THEN "none" ELSE screen[t]]

\* onTabClosed, if the bar is there to hear it.
TabsClosed(bar, ids) ==
    IF Listening THEN CloseInBar(bar, ids) /\ UNCHANGED missed
    ELSE UNCHANGED barVars /\ missed' = (missed \/ ids # {})

\* A bug: a session that closes is left in the panels.
PanelsHearKeeping(s, state) ==
    /\ files' = IF Listening /\ panel = "files" /\ state = "connected" THEN {s} ELSE files
    /\ forward' = IF Listening /\ panel = "forwards" /\ state = "connected" THEN {s} ELSE forward

\* onSessionState in the panels.
PanelsHear(s, state) ==
    LET heard(shown, name) ==
            IF ~Listening \/ panel # name THEN shown
            ELSE CASE state = "connected" -> {s}
                   [] state = "closed" -> shown \ {s}
                   [] OTHER -> shown
    IN  /\ files' = heard(files, "files")
        /\ forward' = heard(forward, "forwards")

TabState(state) == IF state = "connected" THEN "live" ELSE state
\* setSessionState
Marked(s, state) ==
    [i \in DOMAIN tabs |-> IF tabs[i].of = s THEN [tabs[i] EXCEPT !.state = TabState(state)] ELSE tabs[i]]

\* #emitSessionState: the bar, then the panels.
Emit(s, state) ==
    /\ tabs' = IF Listening THEN Marked(s, state) ELSE tabs
    /\ missed' = (missed \/ (~Listening /\ \E i \in DOMAIN tabs : tabs[i].of = s))
    /\ PanelsHear(s, state)

----------------------------------------------------------------------------
\* A host of the list is clicked: the terminal panel comes up, the form stays.
Connect(s) ==
    /\ ui # "dead" /\ sess[s] = "none"
    /\ sess' = [sess EXCEPT ![s] = "connecting"]
    /\ panel' = "terminal" /\ files' = {} /\ forward' = {}
    /\ UNCHANGED <<opening, mtab, barVars, ui, missed>>

Connected(s) ==
    /\ sess[s] = "connecting"
    /\ sess' = [sess EXCEPT ![s] = "connected"]
    /\ opening' = opening \cup {s}
    /\ Emit(s, "connected")
    /\ UNCHANGED <<mtab, active, screen, ui, panel>>

ConnectFails(s) ==
    /\ sess[s] = "connecting"
    /\ sess' = [sess EXCEPT ![s] = "none"]
    /\ UNCHANGED <<opening, mtab, barVars, panelVars, missed>>

\* openTab resolves and the tab is added, live and active; the session may have dropped
\* meanwhile.
TabOpens(s, t) ==
    /\ s \in opening
    /\ t \notin DOMAIN mtab \cup Ids(tabs)
    /\ opening' = opening \ {s}
    /\ mtab' = [u \in DOMAIN mtab \cup {t} |-> IF u = t THEN [of |-> s, held |-> FALSE] ELSE mtab[u]]
    /\ tabs' = Append(tabs, [id |-> t, of |-> s, state |-> "live"])
    /\ active' = {t}
    /\ missed' = (missed \/ sess[s] # "connected")
    /\ UNCHANGED <<sess, screen, panelVars>>

TabOpenFails(s) ==
    /\ s \in opening
    /\ opening' = opening \ {s}
    /\ UNCHANGED <<sess, mtab, barVars, panelVars, missed>>

\* #reconnect begins: it takes the tabs that the session has now.
SessionDrops(s) ==
    /\ sess[s] = "connected"
    /\ sess' = [sess EXCEPT ![s] = "reconnecting"]
    /\ mtab' = [t \in DOMAIN mtab |-> IF mtab[t].of = s THEN [mtab[t] EXCEPT !.held = TRUE] ELSE mtab[t]]
    /\ Emit(s, "reconnecting")
    /\ UNCHANGED <<opening, active, screen, ui, panel>>

Reconnected(s) ==
    /\ sess[s] = "reconnecting"
    /\ sess' = [sess EXCEPT ![s] = "connected"]
    /\ mtab' = [t \in DOMAIN mtab |-> IF mtab[t].of = s THEN [mtab[t] EXCEPT !.held = FALSE] ELSE mtab[t]]
    /\ Emit(s, "connected")
    /\ UNCHANGED <<opening, active, screen, ui, panel>>

Without(ids) == [t \in DOMAIN mtab \ ids |-> mtab[t]]

\* The delays are used up: the session is announced closed and forgotten, and the tabs
\* that the rebuild held are closed.
Exhausted(s) ==
    LET held == {t \in TabsOf(s) : mtab[t].held}
    IN  /\ sess[s] = "reconnecting"
        /\ sess' = [sess EXCEPT ![s] = "gone"]
        /\ mtab' = Without(held)
        /\ PanelsHear(s, "closed")
        /\ TabsClosed(Marked(s, "closed"), held)
        /\ UNCHANGED <<opening, ui, panel>>

\* The shell of a tab exits.
Exit(t) ==
    /\ t \in DOMAIN mtab /\ ~mtab[t].held
    /\ mtab' = Without({t})
    /\ TabsClosed(tabs, {t})
    /\ UNCHANGED <<sess, opening, panelVars>>

\* Output of a tab reaches its terminal, if that is mounted.
Output(t) ==
    /\ t \in DOMAIN mtab /\ ~mtab[t].held
    /\ screen[t] = "empty"
    /\ screen' = [screen EXCEPT ![t] = "text"]
    /\ UNCHANGED <<managerVars, tabs, active, panelVars, missed>>

----------------------------------------------------------------------------
\* A bug: closing a tab leaves it to the manager to tell the bar.
CloseTabQuietly(t) ==
    /\ Listening /\ t \in Ids(tabs)
    /\ mtab' = Without({t})
    /\ UNCHANGED <<sess, opening, barVars, panelVars, missed>>

\* The tab's close button, or Cmd/Ctrl+W on the active one: it leaves the bar, and the
\* manager, which throws if it has no such tab.
CloseTab(t) ==
    /\ Listening /\ t \in Ids(tabs)
    /\ CloseInBar(tabs, {t})
    /\ mtab' = Without({t})
    /\ UNCHANGED <<sess, opening, panelVars, missed>>

Activate(t) ==
    /\ Listening /\ t \in Ids(tabs)
    /\ active' = {t}
    /\ UNCHANGED <<managerVars, tabs, screen, panelVars, missed>>

\* The effect of a pane that was rendered: a new terminal subscribes to its tab.  If the
\* manager has no such tab the effect throws, and React takes the whole page down.
Mount(t) ==
    /\ Listening /\ t \in Ids(tabs) /\ screen[t] = "none"
    /\ IF t \in DOMAIN mtab
       THEN screen' = [screen EXCEPT ![t] = "empty"] /\ UNCHANGED panelVars
       ELSE /\ screen' = [u \in Tab |-> "none"]
            /\ ui' = "dead" /\ files' = {} /\ forward' = {}
            /\ UNCHANGED panel
    /\ UNCHANGED <<managerVars, tabs, active, missed>>

\* A file browser that is mounted takes the first of the open sessions, a forward panel
\* none.
PanelsMount ==
    /\ files' \in IF panel' # "files" \/ OpenSessions = {} THEN {{}} ELSE {{s} : s \in OpenSessions}
    /\ forward' = {}

\* Titlebar's buttons, and Escape in a panel.
ShowPanel(name) ==
    /\ ui # "dead" /\ name # panel
    /\ panel' = name
    /\ IF ui = "tabs" THEN PanelsMount ELSE UNCHANGED <<files, forward>>
    /\ UNCHANGED <<managerVars, barVars, ui, missed>>

\* setEditing, from the sidebar: bar, terminals and panels are unmounted.
OpenForm ==
    /\ ui = "tabs"
    /\ ui' = "form"
    /\ screen' = [t \in Tab |-> "none"]
    /\ files' = {} /\ forward' = {}
    /\ UNCHANGED <<managerVars, tabs, active, panel, missed>>

CloseForm ==
    /\ ui = "form"
    /\ ui' = "tabs"
    /\ UNCHANGED panel
    /\ PanelsMount
    /\ UNCHANGED <<managerVars, barVars, missed>>

BenchNext ==
    \/ \E s \in Session :
        \/ Connect(s) \/ Connected(s) \/ ConnectFails(s) \/ TabOpenFails(s)
        \/ SessionDrops(s) \/ Reconnected(s) \/ Exhausted(s)
        \/ \E t \in Tab : TabOpens(s, t)
    \/ \E t \in Tab : Exit(t) \/ Output(t) \/ CloseTab(t) \/ Activate(t) \/ Mount(t)
    \/ \E name \in {"terminal", "files", "forwards"} : ShowPanel(name)
    \/ OpenForm \/ CloseForm

BenchSpec == BenchInit /\ [][BenchNext]_wbVars

----------------------------------------------------------------------------
\* The bar has the manager's tabs, each in the state of its session, and an active one
\* if it has any, and the page is alive: as long as no event came while the form hid the
\* bar, or before the tab it was about was there.
BarMirrors ==
    /\ active \subseteq Ids(tabs) /\ (active = {} <=> tabs = <<>>)
    /\ ~missed =>
           /\ ui # "dead"
           /\ Ids(tabs) = DOMAIN mtab
           /\ \A i \in DOMAIN tabs : tabs[i].state = TabState(sess[tabs[i].of])

\* However panels and form come and go, a panel never works on a session that is gone.
PanelsOnOpenSessions == files \cup forward \subseteq OpenSessions

\* TerminalPane.tsx 141: "Kept mounted while hidden: unmounting would discard scrollback":
\* the text of a tab is there as long as the tab is.
ScrollbackKept ==
    [][\A t \in Tab : screen[t] = "text" /\ t \in Ids(tabs') => screen'[t] = "text"]_wbVars
=============================================================================
