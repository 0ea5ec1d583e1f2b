--------------------------- MODULE SessionManager ---------------------------
(* SessionManager of packages/core/src/sessions.ts over the bridge: the tables
   it keeps, the calls its methods have in flight, and its #reconnect runs.

   JavaScript runs one continuation at a time, so a step here is the code from
   one await to the next.  A bridge call takes its effect when it is made and
   its outcome (an id, or None for a rejection) waits in `call` or `task` until
   the continuation runs; the queue may deliver events of the new connection or
   channel in between.  A rejected connect or openTab of a caller changes
   nothing and has no step.  A call may also never settle: only the TCP connect has
   a timeout, the handshake, the authentication and openShell have none.        *)
EXTENDS SshBridge

CONSTANTS
    MaxOpen,  \* bound: the UI connects while fewer connections than this were made
    MaxTab,   \* bound: tabs ever opened
    Delays,   \* length of the reconnect schedule, #reconnectDelays
    Call,     \* slots for connect and openTab calls of the UI in flight
    Stops     \* whether stop is ever called: the tests do, the application does not

ASSUME ManagerBounds ==
    MaxOpen \in Nat /\ MaxTab \in Nat \ {0} /\ Delays \in Nat \ {0} /\ Stops \in BOOLEAN

Tab == 1 .. MaxTab

VARIABLES
    sessions,         \* stable ids in #sessions
    handleOf,         \* SessionRecord.handleId, kept by the record after removal
    closing,          \* SessionRecord.closingDeliberately
    sessionState,     \* #sessionStates, "none" where there is no entry
    handleToSession,  \* #handleToSession
    tabs,             \* ids in #tabs
    nextTab,          \* id the next tab gets: a Map iterates in this order
    tabSession,       \* TabRecord.sessionId
    tabChannel,       \* TabRecord.channelId
    tabSize,          \* TabRecord.cols and rows
    tabByChannel,     \* #tabByChannel
    loop,             \* the drain loop: on since boot, or draining = false with a batch
                      \* left ("last"), or ended ("off"), or started "again"
    call,             \* calls of the UI waiting for their reply
    task              \* the #reconnect run started by the close of a handle

tables == <<sessions, handleOf, closing, sessionState, handleToSession>>
tabVars == <<tabs, nextTab, tabSession, tabChannel, tabSize, tabByChannel>>
vars == <<bridgeVars, tables, tabVars, loop, call, task>>

\* res: the id the bridge has given, waiting for the continuation.
NoCall == [op |-> "none", sid |-> None, size |-> None, res |-> None]
CallType ==
    {NoCall}
    \cup [op : {"connect"}, sid : {None}, size : {None}, res : Conn]
    \cup [op : {"openTab"}, sid : Conn, size : Size, res : Chan]

\* pc: where the run is suspended.  left: delays not yet used.  mine: the tabs it
\* captured.  todo: those it has still to reopen.  cur: the tab whose openShell
\* is in flight.  hd: the connection it made.  res: the outcome of the call.  A
\* stuck run awaits a call that never settles.
Idle == [pc |-> "idle", sid |-> None, left |-> 0, mine |-> {}, todo |-> {},
         cur |-> None, hd |-> None, res |-> None]
TaskType ==
    {Idle}
    \cup [pc : {"sleep"}, sid : Conn, left : 0 .. Delays, mine : SUBSET Tab,
          todo : {{}}, cur : {None}, hd : {None}, res : {None}]
    \cup [pc : {"connect"}, sid : Conn, left : 0 .. Delays, mine : SUBSET Tab,
          todo : {{}}, cur : {None}, hd : {None}, res : Conn \cup {None}]
    \cup [pc : {"open"}, sid : Conn, left : 0 .. Delays, mine : SUBSET Tab,
          todo : SUBSET Tab, cur : Tab, hd : Conn, res : Chan \cup {None}]
    \cup [pc : {"stuck"}, sid : Conn, left : 0 .. Delays, mine : SUBSET Tab,
          todo : SUBSET Tab, cur : Tab \cup {None}, hd : Conn \cup {None}, res : {None}]

Init ==
    /\ BridgeInit
    /\ sessions = {}
    /\ handleOf = [s \in Conn |-> None]
    /\ closing = [s \in Conn |-> FALSE]
    /\ sessionState = [s \in Conn |-> "none"]
    /\ handleToSession = [h \in Conn |-> None]
    /\ tabs = {} /\ nextTab = 1
    /\ tabSession = [t \in Tab |-> None]
    /\ tabChannel = [t \in Tab |-> None]
    /\ tabSize = [t \in Tab |-> None]
    /\ tabByChannel = [c \in Chan |-> None]
    /\ loop = "on"
    /\ call = [k \in Call |-> NoCall]
    /\ task = [h \in Conn |-> Idle]

----------------------------------------------------------------------------
TabsOf(s) == {t \in tabs : tabSession[t] = s}

\* The channels that stop mapping to a tab when the tabs T are forgotten.
Unrouted(T) ==
    [c \in Chan |-> IF \E t \in T : tabChannel[t] = c THEN None ELSE tabByChannel[c]]

\* A bug: the record stays in #tabs.
ForgetTabsKeepsRecord(T) ==
    /\ tabByChannel' = Unrouted(T \cap tabs)
    /\ UNCHANGED <<tabs, nextTab, tabSession, tabChannel, tabSize>>

\* #forgetTab for each tab of T; a tab already forgotten is passed over.
ForgetTabs(T) ==
    /\ tabs' = tabs \ T
    /\ tabByChannel' = Unrouted(T \cap tabs)
    /\ UNCHANGED <<nextTab, tabSession, tabChannel, tabSize>>

\* #draining.
Draining == loop \in {"on", "again"}

----------------------------------------------------------------------------
\* connect: the bridge has connected, the reply is on its way.
ConnectCall(k, h) ==
    /\ call[k] = NoCall
    /\ h <= MaxOpen
    /\ SshConnect(h)
    /\ call' = [call EXCEPT ![k] =
                   [op |-> "connect", sid |-> None, size |-> None, res |-> h]]
    /\ UNCHANGED <<tables, tabVars, loop, task>>

\* connect continues: the first handle becomes the stable session id.
ConnectReply(k) ==
    LET h == call[k].res IN
    /\ call[k].op = "connect" /\ h \notin fresh
    /\ sessions' = sessions \cup {h}
    /\ handleOf' = [handleOf EXCEPT ![h] = h]
    /\ closing' = [closing EXCEPT ![h] = FALSE]
    /\ handleToSession' = [handleToSession EXCEPT ![h] = h]
    /\ sessionState' = [sessionState EXCEPT ![h] = "connected"]
    /\ call' = [call EXCEPT ![k] = NoCall]
    /\ UNCHANGED <<bridgeVars, tabVars, loop, task>>

\* disconnect, for any id connect has returned, also one already closed: then
\* the stable id itself goes to the bridge.
Disconnect(s) ==
    LET open == s \in sessions
        h == IF open THEN handleOf[s] ELSE s
    IN
    /\ handleOf[s] # None
    /\ closing' = [closing EXCEPT ![s] = open \/ @]
    /\ ForgetTabs(TabsOf(s))
    /\ sessions' = sessions \ {s}
    /\ sessionState' = [sessionState EXCEPT ![s] = "none"]
    /\ handleToSession' = IF open THEN [handleToSession EXCEPT ![h] = None]
                                  ELSE handleToSession
    /\ SshDisconnect(h)
    /\ UNCHANGED <<handleOf, loop, call, task>>

\* openTab: only the presence of the session is checked, before the await.
OpenTabCall(k, s, size, c) ==
    /\ call[k] = NoCall
    /\ s \in sessions
    /\ handleOf[s] \in registered \cap up
    /\ SshOpenShell(handleOf[s], size, c)
    /\ call' = [call EXCEPT ![k] = [op |-> "openTab", sid |-> s, size |-> size, res |-> c]]
    /\ UNCHANGED <<tables, tabVars, loop, task>>

OpenTabReply(k) ==
    LET t == nextTab IN
    /\ call[k].op = "openTab"
    /\ t <= MaxTab
    /\ tabs' = tabs \cup {t}
    /\ nextTab' = nextTab + 1
    /\ tabSession' = [tabSession EXCEPT ![t] = call[k].sid]
    /\ tabChannel' = [tabChannel EXCEPT ![t] = call[k].res]
    /\ tabSize' = [tabSize EXCEPT ![t] = call[k].size]
    /\ tabByChannel' = [tabByChannel EXCEPT ![call[k].res] = t]
    /\ call' = [call EXCEPT ![k] = NoCall]
    /\ UNCHANGED <<bridgeVars, tables, loop, task>>

ResizeTab(t, size) ==
    /\ t \in tabs
    /\ tabSize' = [tabSize EXCEPT ![t] = size]
    /\ IF tabChannel[t] = None THEN UNCHANGED bridgeVars
                               ELSE SshResize(tabChannel[t], size)
    /\ UNCHANGED <<tables, tabs, nextTab, tabSession, tabChannel, tabByChannel,
                   loop, call, task>>

CloseTab(t) ==
    /\ t \in tabs
    /\ ForgetTabs({t})
    /\ IF tabChannel[t] = None THEN UNCHANGED bridgeVars
                               ELSE SshCloseChannel(tabChannel[t])
    /\ UNCHANGED <<tables, loop, call, task>>

----------------------------------------------------------------------------
\* What #handle does with an event.
HandleChannelClosed ==
    /\ loop # "off"
    /\ events # <<>> /\ Head(events).kind = "channelClosed"
    /\ ForgetTabs({tabByChannel[Head(events).id]} \ {None})
    /\ TakeEvent
    /\ UNCHANGED <<tables, loop, call, task>>

\* Whether a close of handle h starts a reconnect, and of which session.
Wakes(h) ==
    LET s == handleToSession[h] IN s # None /\ s \in sessions /\ ~closing[s]

IgnoreSessionClosed ==
    /\ loop # "off"
    /\ events # <<>> /\ Head(events).kind = "sessionClosed"
    /\ ~Wakes(Head(events).id)
    /\ TakeEvent
    /\ UNCHANGED <<tables, tabVars, loop, call, task>>

\* A run waiting out a delay, with so many delays left after it.
Sleeping(s, left, mine) ==
    [pc |-> "sleep", sid |-> s, left |-> left, mine |-> mine, todo |-> {},
     cur |-> None, hd |-> None, res |-> None]

\* #reconnect up to its first await: detach the session's tabs, unmap the handle
\* the record names, announce, and begin unless the loop has been stopped.
StartReconnect(h) ==
    LET s == handleToSession[h]
        mine == TabsOf(s)
    IN
    /\ loop # "off"
    /\ events # <<>> /\ Head(events) = SessionClosed(h)
    /\ Wakes(h)
    /\ tabByChannel' = Unrouted(mine)
    /\ tabChannel' = [t \in Tab |-> IF t \in mine THEN None ELSE tabChannel[t]]
    /\ handleToSession' = [handleToSession EXCEPT ![handleOf[s]] = None]
    /\ sessionState' = [sessionState EXCEPT ![s] = "reconnecting"]
    /\ task' = IF Draining
               THEN [task EXCEPT ![h] =
                        Sleeping(s, Delays - 1, mine)]
               ELSE task
    /\ TakeEvent
    /\ UNCHANGED <<sessions, handleOf, closing, tabs, nextTab, tabSession, tabSize,
                   loop, call>>

----------------------------------------------------------------------------
\* The backoff timer fires: give up if the caller has disconnected, else connect.
WakeAborted(h) ==
    /\ task[h].pc = "sleep"
    /\ closing[task[h].sid]
    /\ task' = [task EXCEPT ![h] = Idle]
    /\ UNCHANGED <<bridgeVars, tables, tabVars, loop, call>>

WakeConnect(h, res) ==
    /\ task[h].pc = "sleep"
    /\ ~closing[task[h].sid]
    /\ IF res = None THEN UNCHANGED bridgeVars ELSE SshConnect(res)
    /\ task' = [task EXCEPT ![h].pc = "connect", ![h].res = res]
    /\ UNCHANGED <<tables, tabVars, loop, call>>

\* One openShell of the rebuild, for the oldest tab still to do, at its size now.
OpenNext(h, hd, todo, res) ==
    \E t \in todo :
        /\ \A u \in todo : t <= u
        /\ IF res = None THEN UNCHANGED bridgeVars
                         ELSE hd \in registered \cap up /\ SshOpenShell(hd, tabSize[t], res)
        /\ task' = [task EXCEPT ![h].pc = "open", ![h].hd = hd, ![h].cur = t,
                                ![h].todo = todo \ {t}, ![h].res = res]

\* A bug: the run ends without announcing the session connected.
RebuildSilent(h, hd, todo, res) ==
    /\ UNCHANGED sessionState
    /\ \/ todo # {} /\ OpenNext(h, hd, todo, res)
       \/ /\ todo = {} /\ res = None
          /\ task' = [task EXCEPT ![h] = Idle]
          /\ UNCHANGED bridgeVars

\* The rebuild goes on with the tabs of todo, or is done and says so.
Rebuild(h, hd, todo, res) ==
    \/ /\ todo # {}
       /\ OpenNext(h, hd, todo, res)
       /\ UNCHANGED sessionState
    \/ /\ todo = {} /\ res = None
       /\ sessionState' = [sessionState EXCEPT ![task[h].sid] = "connected"]
       /\ task' = [task EXCEPT ![h] = Idle]
       /\ UNCHANGED bridgeVars

\* openConnection resolved: the record points at the new handle.
Reconnected(h, res) ==
    LET hd == task[h].res
        s == task[h].sid
    IN
    /\ task[h].pc = "connect" /\ hd # None /\ hd \notin fresh
    /\ handleOf' = [handleOf EXCEPT ![s] = hd]
    /\ handleToSession' = [handleToSession EXCEPT ![hd] = s]
    /\ Rebuild(h, hd, task[h].mine, res)
    /\ UNCHANGED <<sessions, closing, tabVars, loop, call>>

\* openShell resolved: the captured tab gets the channel, whatever became of it.
TabReopened(h, res) ==
    LET t == task[h].cur
        c == task[h].res
    IN
    /\ task[h].pc = "open" /\ c # None
    /\ tabSession' = [tabSession EXCEPT ![t] = task[h].sid]
    /\ tabChannel' = [tabChannel EXCEPT ![t] = c]
    /\ tabByChannel' = [tabByChannel EXCEPT ![c] = t]
    /\ Rebuild(h, task[h].hd, task[h].todo, res)
    /\ UNCHANGED <<sessions, handleOf, closing, handleToSession, tabs, nextTab,
                   tabSize, loop, call>>

\* A rejected connect or openShell ends the attempt.
Rejected(h) == task[h].pc \in {"connect", "open"} /\ task[h].res = None

\* The server took the connection and stalls: the call neither fails nor returns.
Hangs(h) ==
    /\ Rejected(h)
    /\ task' = [task EXCEPT ![h].pc = "stuck"]
    /\ UNCHANGED <<bridgeVars, tables, tabVars, loop, call>>

\* A bug: a rejected attempt ends the run.
RetryNever(h) ==
    /\ Rejected(h)
    /\ task[h].left > 0
    /\ task' = [task EXCEPT ![h] = Idle]
    /\ UNCHANGED <<bridgeVars, tables, tabVars, loop, call>>

\* A bug: one attempt more than the schedule has delays.
RetryOnceMore(h) ==
    /\ Rejected(h)
    /\ task' = [task EXCEPT ![h] =
                   Sleeping(task[h].sid, task[h].left - 1, task[h].mine)]
    /\ UNCHANGED <<bridgeVars, tables, tabVars, loop, call>>

RetryLater(h) ==
    /\ Rejected(h)
    /\ task[h].left > 0
    /\ task' = [task EXCEPT ![h] =
                   IF Draining
                   THEN Sleeping(task[h].sid, task[h].left - 1, task[h].mine)
                   ELSE Idle]
    /\ UNCHANGED <<bridgeVars, tables, tabVars, loop, call>>

\* A bug: the closed session stays in #sessions.
ExhaustedKeepsSession(h) ==
    /\ Rejected(h)
    /\ task[h].left = 0
    /\ sessionState' = [sessionState EXCEPT ![task[h].sid] = "none"]
    /\ ForgetTabs(task[h].mine)
    /\ task' = [task EXCEPT ![h] = Idle]
    /\ UNCHANGED <<bridgeVars, sessions, handleOf, closing, handleToSession, loop, call>>

\* The schedule is used up: the session and the captured tabs go.
Exhausted(h) ==
    LET s == task[h].sid IN
    /\ Rejected(h)
    /\ task[h].left = 0
    /\ sessionState' = [sessionState EXCEPT ![s] = "none"]
    /\ handleToSession' = [handleToSession EXCEPT ![handleOf[s]] = None]
    /\ sessions' = sessions \ {s}
    /\ ForgetTabs(task[h].mine)
    /\ task' = [task EXCEPT ![h] = Idle]
    /\ UNCHANGED <<bridgeVars, handleOf, closing, loop, call>>

----------------------------------------------------------------------------
\* stop: the poll in flight still hands over a batch before the loop ends.
Stop ==
    /\ Stops /\ Draining
    /\ loop' = "last"
    /\ UNCHANGED <<bridgeVars, tables, tabVars, call, task>>

\* start while draining is false.  The old loop may not have returned and then runs
\* on beside the new one; their batches are handled in the order of the queue.
Start ==
    /\ loop \in {"last", "off"}
    /\ loop' = "again"
    /\ UNCHANGED <<bridgeVars, tables, tabVars, call, task>>

LoopExit ==
    /\ loop = "last"
    /\ loop' = "off"
    /\ UNCHANGED <<bridgeVars, tables, tabVars, call, task>>

\* What ssh-core goes on to by itself after it has registered a connection.
Published(h) == Publish(h) /\ UNCHANGED <<tables, tabVars, loop, call, task>>

Network ==
    /\ \/ \E h \in Conn : NetworkDrop(h) \/ SilentDrop(h) \/ DisconnectReported(h)
       \/ \E c \in Chan : PumpEnds(c)
    /\ UNCHANGED <<tables, tabVars, loop, call, task>>

Caller ==
    \/ \E k \in Call :
          \/ \E h \in Conn : ConnectCall(k, h)
          \/ \E s \in Conn, size \in Size, c \in Chan : OpenTabCall(k, s, size, c)
    \/ \E s \in Conn : Disconnect(s)
    \/ \E t \in Tab : CloseTab(t)
    \/ \E t \in Tab, size \in Size : ResizeTab(t, size)
    \/ Stop \/ Start

Reply(k) == ConnectReply(k) \/ OpenTabReply(k)

HandleEvent ==
    \/ HandleChannelClosed
    \/ IgnoreSessionClosed
    \/ \E h \in Conn : StartReconnect(h)

ReconnectStep(h) ==
    \/ WakeAborted(h)
    \/ \E res \in Conn \cup {None} : WakeConnect(h, res)
    \/ \E res \in Chan \cup {None} : Reconnected(h, res) \/ TabReopened(h, res)
    \/ RetryLater(h)
    \/ Exhausted(h)

Next ==
    \/ Caller
    \/ \E k \in Call : Reply(k)
    \/ HandleEvent
    \/ \E h \in Conn : ReconnectStep(h) \/ Hangs(h) \/ Published(h)
    \/ LoopExit
    \/ Network

Spec == Init /\ [][Next]_vars

\* Timers fire, a run goes on once the call it awaits has settled, and connect
\* publishes the id it has registered.  That a call settles is not assumed: Hangs may
\* come instead, and then no step of the run is enabled.
Fairness == \A h \in Conn : WF_vars(ReconnectStep(h)) /\ WF_vars(Published(h))

FairSpec == Spec /\ Fairness

----------------------------------------------------------------------------
\* The tables hold values of their types.
ManagerTypeOK ==
    /\ sessions \subseteq Conn
    /\ handleOf \in [Conn -> Conn \cup {None}]
    /\ closing \in [Conn -> BOOLEAN]
    /\ sessionState \in [Conn -> {"none", "connected", "reconnecting"}]
    /\ handleToSession \in [Conn -> Conn \cup {None}]
    /\ tabs \subseteq Tab /\ nextTab \in 1 .. MaxTab + 1
    /\ tabSession \in [Tab -> Conn \cup {None}]
    /\ tabChannel \in [Tab -> Chan \cup {None}]
    /\ tabSize \in [Tab -> Size \cup {None}]
    /\ tabByChannel \in [Chan -> Tab \cup {None}]
    /\ loop \in {"on", "last", "off", "again"}
    /\ call \in [Call -> CallType]
    /\ task \in [Conn -> TaskType]

TypeOK == BridgeTypeOK /\ ManagerTypeOK

\* An open tab's channel routes to that tab, so its output has a place to go and
\* no two open tabs share a channel, however openTab, closeTab, disconnect and
\* any number of reconnects interleave (#handle, #reconnect, #forgetTab).
ChannelRouted ==
    \A t \in tabs : tabChannel[t] # None => tabByChannel[tabChannel[t]] = t

\* While the loop runs, an open session is watched (the close of its live handle
\* finds it) or some reconnect is to give it a new handle, though its connect may
\* never settle: the drop of a live handle is never missed (#handle and #reconnect
\* of sessions.ts).
GivesHandle(h) ==
    \/ task[h].pc \in {"sleep", "connect"}
    \/ task[h].pc = "stuck" /\ task[h].hd = None
Rebuilding(s) == \E h \in Conn : task[h].sid = s /\ GivesHandle(h)
WatchedOrRebuilding ==
    loop = "on" =>
        \A s \in sessions : handleToSession[handleOf[s]] = s \/ Rebuilding(s)

\* An open session always has a state to show: hostStates never drops a host
\* whose session is still open.
OpenHasState == \A s \in sessions : sessionState[s] # "none"

\* The close of one handle is acted on once: the run it started is over before
\* another report of that handle could start a second one.
OneRebuildPerHandle ==
    \A h \in Conn :
        events # <<>> /\ Head(events) = SessionClosed(h) /\ Wakes(h) => task[h] = Idle

\* "only the live handle may map back" (comment in #reconnect): every handle that
\* finds a session is the handle that session uses now.
OnlyLiveHandleMaps ==
    \A h \in Conn :
        handleToSession[h] # None => handleOf[handleToSession[h]] = h

\* "A caller may disconnect mid-reconnect (race): if so, abort before
\* re-establishing a handle" (comment in #reconnect): a session closed
\* deliberately gets no new handle.
NoHandleAfterDisconnect ==
    [][\A s \in Conn : closing[s] => handleOf'[s] = handleOf[s]]_vars

\* "mid-reconnect; the new channel gets this size" (comment in resizeTab): the
\* remote side of an open tab's live channel knows the size the tab has.
ChannelGetsTabSize ==
    \A t \in tabs : tabChannel[t] \in shells => pty[tabChannel[t]] = tabSize[t]

\* A session shown as reconnecting ends up connected or gone: no interleaving of
\* reconnects, drops and disconnects leaves it announced for ever (#reconnect).  It
\* is announced for ever when a run of it awaits a call that never settles, or when
\* stop ended its run; a run begun after a restart is held to this again.
RunOf(s) == \E h \in Conn : task[h].sid = s
Stuck(s) == \E h \in Conn : task[h].sid = s /\ task[h].pc = "stuck"
ReconnectSettles ==
    \A s \in Conn :
        sessionState[s] = "reconnecting" /\ (loop = "on" \/ RunOf(s)) ~>
            (sessionState[s] # "reconnecting" \/ ~Draining \/ Stuck(s))

=============================================================================
