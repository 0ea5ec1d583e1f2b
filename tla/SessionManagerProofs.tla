------------------------ MODULE SessionManagerProofs ------------------------
(* What TLAPS proves of SessionManager for every value of its constants.        *)
EXTENDS SessionManager, TLAPS

USE BridgeBounds, ManagerBounds DEF Conn, Chan, Tab, None

LEMMA InitTypeOK == Init => TypeOK
BY DEF Init, BridgeInit, TypeOK, ManagerTypeOK, BridgeTypeOK, CallType, TaskType, NoCall, Idle, Event

(* What a #reconnect run holds, from where it is. *)
LEMMA RunTyped ==
    ASSUME NEW r \in TaskType
    PROVE  /\ r.pc = "idle" => r = Idle
           /\ r.pc # "idle" => r.sid \in Conn
           /\ r.mine \in SUBSET Tab /\ r.todo \in SUBSET Tab
           /\ r.pc = "connect" => r.res \in Conn \cup {None}
           /\ r.pc = "open" => r.res \in Chan \cup {None} /\ r.cur \in Tab /\ r.hd \in Conn
           /\ DOMAIN r = {"pc", "sid", "left", "mine", "todo", "cur", "hd", "res"}
<1>1. CASE r = Idle
  BY <1>1 DEF Idle
<1>2. CASE r.pc = "sleep"
  BY <1>2 DEF TaskType, Idle
<1>3. CASE r.pc = "connect"
  BY <1>3 DEF TaskType, Idle
<1>4. CASE r.pc = "open"
  BY <1>4 DEF TaskType, Idle
<1>5. CASE r.pc = "stuck"
  BY <1>5 DEF TaskType, Idle
<1>6. r = Idle \/ r.pc \in {"sleep", "connect", "open", "stuck"}
  BY DEF TaskType
<1> QED
  BY <1>1, <1>2, <1>3, <1>4, <1>5, <1>6

LEMMA RunsTyped == ASSUME TypeOK, NEW h \in Conn PROVE task[h] \in TaskType
BY DEF TypeOK, ManagerTypeOK

(* A step of the bridge, whoever makes it, keeps the bridge's own types. *)
LEMMA BridgeTypes == ASSUME BridgeTypeOK, BridgeStep PROVE BridgeTypeOK'
<1> USE DEF BridgeTypeOK
<1>1. ASSUME NEW e \in Event, Push(e) PROVE events' \in Seq(Event)
  BY <1>1 DEF Push
<1>2. ASSUME NEW h \in Conn, SshConnect(h) PROVE BridgeTypeOK'
  <2>1. up' \subseteq Conn
    BY <1>2 DEF SshConnect
  <2>2. nextConn' \in 1 .. MaxConn + 1 /\ registered' \subseteq Conn /\ fresh' \subseteq Conn
    BY <1>2, BridgeBounds DEF SshConnect, Conn
  <2>3. QED
    BY <1>2, <2>1, <2>2 DEF SshConnect
<1>3. ASSUME NEW h \in Conn, SshDisconnect(h) \/ Publish(h) PROVE BridgeTypeOK'
  BY <1>3 DEF SshDisconnect, Publish
<1>4. ASSUME NEW h \in Conn, NetworkDrop(h) \/ DisconnectReported(h) PROVE BridgeTypeOK'
  <2>1. SessionClosed(h) \in Event
    BY DEF SessionClosed, Event
  <2>2. events' \in Seq(Event)
    BY <1>1, <1>4, <2>1 DEF NetworkDrop, DisconnectReported
  <2>3. QED
    BY <1>4, <2>2 DEF NetworkDrop, DisconnectReported
<1>5. ASSUME NEW h \in Conn, NEW s \in Size, NEW c \in Chan, SshOpenShell(h, s, c)
      PROVE  BridgeTypeOK'
  BY <1>5 DEF SshOpenShell
<1>6. ASSUME NEW c \in Chan, SshCloseChannel(c) PROVE BridgeTypeOK'
  BY <1>6 DEF SshCloseChannel
<1>7. ASSUME NEW c \in Chan, PumpEnds(c) PROVE BridgeTypeOK'
  <2>1. ChannelClosed(c) \in Event
    BY DEF ChannelClosed, Event
  <2>2. events' \in Seq(Event)
    BY <1>1, <1>7, <2>1 DEF PumpEnds
  <2>3. QED
    BY <1>7, <2>2 DEF PumpEnds
<1>8. ASSUME NEW c \in Chan, NEW s \in Size, SshResize(c, s) PROVE BridgeTypeOK'
  BY <1>8 DEF SshResize
<1>9. ASSUME TakeEvent PROVE BridgeTypeOK'
  BY <1>9 DEF TakeEvent
<1>10. ASSUME NEW h \in Conn, SilentDrop(h) PROVE BridgeTypeOK'
  BY <1>10 DEF SilentDrop
<1>11. QED
  BY <1>2, <1>3, <1>4, <1>5, <1>6, <1>7, <1>8, <1>9, <1>10 DEF BridgeStep

(* The same for an openShell at the size of a tab. *)
LEMMA OpenShellTypes ==
    ASSUME BridgeTypeOK, NEW h \in Conn, NEW c \in Chan, NEW s \in Size \cup {None},
           SshOpenShell(h, s, c)
    PROVE  BridgeTypeOK'
BY DEF SshOpenShell, BridgeTypeOK

LEMMA BridgeStutters == ASSUME BridgeTypeOK, UNCHANGED bridgeVars PROVE BridgeTypeOK'
BY DEF BridgeTypeOK, bridgeVars

LEMMA CallerTypeOK == ASSUME TypeOK, Caller PROVE TypeOK'
<1> USE DEF TypeOK, ManagerTypeOK, tables, tabVars
<1>1. ASSUME NEW k \in Call, NEW h \in Conn, ConnectCall(k, h) PROVE TypeOK'
  <2>1. BridgeTypeOK'
    BY <1>1, BridgeTypes DEF ConnectCall, BridgeStep
  <2>2. call' \in [Call -> CallType]
    BY <1>1 DEF ConnectCall, CallType
  <2>3. QED
    BY <1>1, <2>1, <2>2 DEF ConnectCall
<1>2. ASSUME NEW k \in Call, NEW s \in Conn, NEW size \in Size, NEW c \in Chan,
             OpenTabCall(k, s, size, c)
      PROVE  TypeOK'
  <2>1. handleOf[s] \in Conn
    BY <1>2 DEF OpenTabCall, SshOpenShell, BridgeTypeOK
  <2>2. BridgeTypeOK'
    BY <1>2, <2>1, BridgeTypes DEF OpenTabCall, BridgeStep
  <2>3. call' \in [Call -> CallType]
    BY <1>2 DEF OpenTabCall, CallType
  <2>4. QED
    BY <1>2, <2>2, <2>3 DEF OpenTabCall
<1>3. ASSUME NEW s \in Conn, Disconnect(s) PROVE TypeOK'
  <2> DEFINE h == IF s \in sessions THEN handleOf[s] ELSE s
  <2>1. CASE h = None
    <3>1. SshDisconnect(None)
      BY <1>3, <2>1 DEF Disconnect
    <3>2. BridgeTypeOK'
      BY <3>1 DEF SshDisconnect, BridgeTypeOK
    <3>3. QED
      BY <1>3, <3>2 DEF Disconnect, ForgetTabs, Unrouted
  <2>2. CASE h # None
    <3>1. BridgeTypeOK'
      BY <1>3, <2>2, BridgeTypes DEF Disconnect, BridgeStep
    <3>2. QED
      BY <1>3, <3>1 DEF Disconnect, ForgetTabs, Unrouted
  <2>3. QED
    BY <2>1, <2>2
<1>4. ASSUME NEW t \in Tab, CloseTab(t) PROVE TypeOK'
  <2>1. BridgeTypeOK'
    BY <1>4, BridgeTypes, BridgeStutters DEF CloseTab, BridgeStep
  <2>2. QED
    BY <1>4, <2>1 DEF CloseTab, ForgetTabs, Unrouted
<1>5. ASSUME NEW t \in Tab, NEW size \in Size, ResizeTab(t, size) PROVE TypeOK'
  <2>1. BridgeTypeOK'
    BY <1>5, BridgeTypes, BridgeStutters DEF ResizeTab, BridgeStep
  <2>2. QED
    BY <1>5, <2>1 DEF ResizeTab
<1>6. ASSUME Stop \/ Start PROVE TypeOK'
  BY <1>6, BridgeStutters DEF Stop, Start
<1>7. QED
  BY <1>1, <1>2, <1>3, <1>4, <1>5, <1>6 DEF Caller

LEMMA ReplyTypeOK == ASSUME TypeOK, NEW k \in Call, Reply(k) PROVE TypeOK'
<1> USE DEF TypeOK, ManagerTypeOK, tables, tabVars
<1>1. CASE ConnectReply(k)
  <2>1. call[k].res \in Conn
    BY <1>1 DEF ConnectReply, CallType, NoCall
  <2>2. call' \in [Call -> CallType]
    BY <1>1 DEF ConnectReply, CallType
  <2>3. QED
    BY <1>1, <2>1, <2>2, BridgeStutters DEF ConnectReply
<1>2. CASE OpenTabReply(k)
  <2>1. call[k].res \in Chan /\ call[k].sid \in Conn /\ call[k].size \in Size
    BY <1>2 DEF OpenTabReply, CallType, NoCall
  <2>2. call' \in [Call -> CallType]
    BY <1>2 DEF OpenTabReply, CallType
  <2>3. QED
    BY <1>2, <2>1, <2>2, BridgeStutters DEF OpenTabReply
<1>3. QED
  BY <1>1, <1>2 DEF Reply

LEMMA HandleEventTypeOK == ASSUME TypeOK, HandleEvent PROVE TypeOK'
<1> USE DEF TypeOK, ManagerTypeOK, tables, tabVars
<1>1. CASE HandleChannelClosed
  BY <1>1, BridgeTypes DEF HandleChannelClosed, BridgeStep, ForgetTabs, Unrouted
<1>2. CASE IgnoreSessionClosed
  BY <1>2, BridgeTypes DEF IgnoreSessionClosed, BridgeStep
<1>3. ASSUME NEW h \in Conn, StartReconnect(h) PROVE TypeOK'
  <2> DEFINE s == handleToSession[h]
  <2>1. s \in Conn
    BY <1>3 DEF StartReconnect, Wakes
  <2>2. Sleeping(s, Delays - 1, TabsOf(s)) \in TaskType
    <3>1. TabsOf(s) \in SUBSET Tab
      BY DEF TabsOf
    <3>2. QED
      BY <2>1, <3>1 DEF Sleeping, TaskType
  <2>3. task' \in [Conn -> TaskType]
    BY <1>3, <2>2 DEF StartReconnect
  <2>4. BridgeTypeOK'
    <3>1. TakeEvent
      BY <1>3 DEF StartReconnect
    <3>2. QED
      BY <3>1, BridgeTypes DEF BridgeStep
  <2>5. tabByChannel' \in [Chan -> Tab \cup {None}]
    <3>1. tabByChannel' = Unrouted(TabsOf(s))
      BY <1>3 DEF StartReconnect
    <3>2. QED
      BY <3>1 DEF Unrouted
  <2>6. tabChannel' \in [Tab -> Chan \cup {None}]
    <3>1. tabChannel' = [t \in Tab |-> IF t \in TabsOf(s) THEN None ELSE tabChannel[t]]
      BY <1>3 DEF StartReconnect
    <3>2. QED
      BY <3>1
  <2>7. QED
    BY <1>3, <2>1, <2>3, <2>4, <2>5, <2>6 DEF StartReconnect
<1>4. QED
  BY <1>1, <1>2, <1>3 DEF HandleEvent

LEMMA ReconnectTypeOK ==
    ASSUME TypeOK, NEW h \in Conn, ReconnectStep(h)
    PROVE  TypeOK'
<1> USE DEF TypeOK, ManagerTypeOK, tables, tabVars
<1>1. Idle \in TaskType
  BY DEF TaskType
<1>2. CASE WakeAborted(h)
  BY <1>1, <1>2, BridgeStutters DEF WakeAborted
<1>3. ASSUME NEW res \in Conn \cup {None}, WakeConnect(h, res) PROVE TypeOK'
  <2>1. BridgeTypeOK'
    BY <1>3, BridgeTypes, BridgeStutters DEF WakeConnect, BridgeStep
  <2> DEFINE run == [task[h] EXCEPT !.pc = "connect", !.res = res]
  <2>2. task[h] \in [pc : {"sleep"}, sid : Conn, left : 0 .. Delays, mine : SUBSET Tab,
                     todo : {{}}, cur : {None}, hd : {None}, res : {None}]
    BY <1>3 DEF WakeConnect, TaskType, Idle
  <2>3. run \in TaskType
    BY <2>2 DEF TaskType
  <2>4. task' = [task EXCEPT ![h] = run]
    BY <1>3 DEF WakeConnect
  <2>5. task' \in [Conn -> TaskType]
    BY <2>3, <2>4
  <2>6. QED
    BY <1>3, <2>1, <2>5 DEF WakeConnect
<1>4. ASSUME NEW hd \in Conn, NEW todo \in SUBSET Tab, NEW res \in Chan \cup {None},
             task[h].pc \in {"connect", "open"}, Rebuild(h, hd, todo, res)
      PROVE  /\ BridgeTypeOK' /\ task' \in [Conn -> TaskType]
             /\ sessionState' \in [Conn -> {"none", "connected", "reconnecting"}]
  <2>1. ASSUME OpenNext(h, hd, todo, res), UNCHANGED sessionState
        PROVE  BridgeTypeOK' /\ task' \in [Conn -> TaskType]
    <3>1. PICK t \in todo :
            /\ IF res = None THEN UNCHANGED bridgeVars
                             ELSE SshOpenShell(hd, tabSize[t], res)
            /\ task' = [task EXCEPT ![h].pc = "open", ![h].hd = hd, ![h].cur = t,
                                    ![h].todo = todo \ {t}, ![h].res = res]
      BY <2>1 DEF OpenNext
    <3>2. task' \in [Conn -> TaskType]
      <4> DEFINE run == [task[h] EXCEPT !.pc = "open", !.hd = hd, !.cur = t,
                                        !.todo = todo \ {t}, !.res = res]
      <4>1. \/ task[h] \in [pc : {"connect"}, sid : Conn, left : 0 .. Delays,
                             mine : SUBSET Tab, todo : {{}}, cur : {None}, hd : {None},
                             res : Conn \cup {None}]
            \/ task[h] \in [pc : {"open"}, sid : Conn, left : 0 .. Delays,
                             mine : SUBSET Tab, todo : SUBSET Tab, cur : Tab, hd : Conn,
                             res : Chan \cup {None}]
        BY <1>4 DEF TaskType, Idle
      <4>2. run \in [pc : {"open"}, sid : Conn, left : 0 .. Delays, mine : SUBSET Tab,
                     todo : SUBSET Tab, cur : Tab, hd : Conn, res : Chan \cup {None}]
        BY <1>4, <4>1
      <4>3. run \in TaskType
        BY <4>2 DEF TaskType
      <4>4. task' = [task EXCEPT ![h] = run]
        BY <3>1
      <4>5. QED
        BY <4>3, <4>4
    <3>3. BridgeTypeOK'
      <4>1. CASE res = None
        BY <3>1, <4>1, BridgeStutters
      <4>2. CASE res # None
        <5>1. t \in Tab /\ tabSize[t] \in Size \cup {None} /\ res \in Chan
          BY <1>4, <4>2
        <5>2. SshOpenShell(hd, tabSize[t], res)
          BY <3>1, <4>2
        <5>3. QED
          BY <5>1, <5>2, OpenShellTypes
      <4>3. QED
        BY <4>1, <4>2
    <3>4. QED
      BY <3>2, <3>3
  <2>2. CASE todo # {} /\ OpenNext(h, hd, todo, res) /\ UNCHANGED sessionState
    BY <2>1, <2>2
  <2>3. CASE /\ sessionState' = [sessionState EXCEPT ![task[h].sid] = "connected"]
             /\ task' = [task EXCEPT ![h] = Idle]
             /\ UNCHANGED bridgeVars
    BY <1>1, <2>3, BridgeStutters
  <2>4. QED
    BY <1>4, <2>2, <2>3 DEF Rebuild
<1>5. ASSUME NEW res \in Chan \cup {None}, Reconnected(h, res) PROVE TypeOK'
  <2>1. task[h].res \in Conn /\ task[h].mine \in SUBSET Tab /\ task[h].sid \in Conn
    BY <1>5 DEF Reconnected, TaskType, Idle
  <2>2. Rebuild(h, task[h].res, task[h].mine, res) /\ task[h].pc \in {"connect", "open"}
    BY <1>5 DEF Reconnected
  <2>3. QED
    BY <1>4, <1>5, <2>1, <2>2 DEF Reconnected
<1>6. ASSUME NEW res \in Chan \cup {None}, TabReopened(h, res) PROVE TypeOK'
  <2>1. /\ task[h].res \in Chan /\ task[h].todo \in SUBSET Tab /\ task[h].sid \in Conn
        /\ task[h].hd \in Conn /\ task[h].cur \in Tab
    BY <1>6 DEF TabReopened, TaskType, Idle
  <2>2. /\ Rebuild(h, task[h].hd, task[h].todo, res)
        /\ task[h].pc \in {"connect", "open"}
    BY <1>6 DEF TabReopened
  <2>3. QED
    BY <1>4, <1>6, <2>1, <2>2 DEF TabReopened
<1>7. CASE RetryLater(h)
  <2>1. Sleeping(task[h].sid, task[h].left - 1, task[h].mine) \in TaskType
    BY <1>7 DEF RetryLater, Rejected, Sleeping, TaskType, Idle
  <2>2. QED
    BY <1>1, <1>7, <2>1, BridgeStutters DEF RetryLater
<1>8. CASE Exhausted(h)
  BY <1>1, <1>8, BridgeStutters DEF Exhausted, ForgetTabs, Unrouted
<1>9. QED
  BY <1>2, <1>3, <1>5, <1>6, <1>7, <1>8 DEF ReconnectStep

(* A run that hangs stops where it is, its other fields as they were. *)
LEMMA HangsRun ==
    ASSUME TypeOK, NEW h \in Conn, Hangs(h)
    PROVE  /\ task' \in [Conn -> TaskType]
           /\ task[h].pc \in {"connect", "open"} /\ task[h].res = None
           /\ task'[h].pc = "stuck" /\ task'[h].sid = task[h].sid
           /\ task'[h].hd = task[h].hd /\ task'[h].res = task[h].res
           /\ (task[h].hd = None <=> task[h].pc = "connect")
           /\ \A g \in Conn : g # h => task'[g] = task[g]
<1> DEFINE run == [task[h] EXCEPT !.pc = "stuck"]
<1>1. task[h] \in TaskType /\ task[h].pc \in {"connect", "open"} /\ task[h].res = None
  BY DEF Hangs, Rejected, TypeOK, ManagerTypeOK
<1>2. \/ task[h] \in [pc : {"connect"}, sid : Conn, left : 0 .. Delays,
                       mine : SUBSET Tab, todo : {{}}, cur : {None}, hd : {None},
                       res : Conn \cup {None}]
      \/ task[h] \in [pc : {"open"}, sid : Conn, left : 0 .. Delays,
                       mine : SUBSET Tab, todo : SUBSET Tab, cur : Tab, hd : Conn,
                       res : Chan \cup {None}]
  BY <1>1 DEF TaskType, Idle
<1>3. run \in [pc : {"stuck"}, sid : Conn, left : 0 .. Delays, mine : SUBSET Tab,
               todo : SUBSET Tab, cur : Tab \cup {None}, hd : Conn \cup {None}, res : {None}]
  BY <1>1, <1>2
<1>4. run \in TaskType
  BY <1>3 DEF TaskType
<1>5. /\ run.pc = "stuck" /\ run.sid = task[h].sid /\ run.hd = task[h].hd
      /\ run.res = task[h].res /\ (task[h].hd = None <=> task[h].pc = "connect")
  BY <1>2
<1>6. task' = [task EXCEPT ![h] = run]
  BY DEF Hangs
<1> HIDE DEF run
<1>7. /\ task' \in [Conn -> TaskType] /\ task'[h] = run
      /\ \A g \in Conn : g # h => task'[g] = task[g]
  BY <1>4, <1>6 DEF TypeOK, ManagerTypeOK
<1>8. QED
  BY <1>1, <1>5, <1>7

LEMMA NextTypeOK == TypeOK /\ [Next]_vars => TypeOK'
<1> SUFFICES ASSUME TypeOK, [Next]_vars PROVE TypeOK'
  OBVIOUS
<1>1. CASE LoopExit
  BY <1>1, BridgeStutters DEF LoopExit, TypeOK, ManagerTypeOK, tables, tabVars
<1>2. CASE Network
  BY <1>2, BridgeTypes DEF Network, BridgeStep, TypeOK, ManagerTypeOK, tables, tabVars
<1>4. ASSUME NEW h \in Conn, Published(h) PROVE TypeOK'
  BY <1>4, BridgeTypes DEF Published, BridgeStep, TypeOK, ManagerTypeOK, tables, tabVars
<1>5. ASSUME NEW h \in Conn, Hangs(h) PROVE TypeOK'
  <2>1. task' \in [Conn -> TaskType]
    BY <1>5, HangsRun
  <2>2. QED
    BY <1>5, <2>1, BridgeStutters DEF Hangs, TypeOK, ManagerTypeOK, tables, tabVars
<1>3. CASE UNCHANGED vars
  BY <1>3, BridgeStutters DEF vars, TypeOK, ManagerTypeOK, tables, tabVars
<1>6. QED
  BY <1>1, <1>2, <1>3, <1>4, <1>5, CallerTypeOK, ReplyTypeOK, HandleEventTypeOK,
     ReconnectTypeOK
  DEF Next

(* Every reachable state is well typed: no reply, event or timer, in any order,
   puts a value into a table that the code would not expect there.              *)
THEOREM TypeCorrect == Spec => []TypeOK
BY InitTypeOK, NextTypeOK, PTL DEF Spec

----------------------------------------------------------------------------
(* Routing.  ChannelRouted is not inductive alone: a reply may write the routing
   entry of the channel it brings, so it needs that no tab uses that channel yet.
   RouteInv says so of the channel of every reply in flight and of every channel
   not yet issued.                                                              *)
NoTabOn(c) == \A t \in Tab : tabChannel[t] # c
OpenTabWaits(k) == call[k].op = "openTab"
ReopenWaits(h) == task[h].pc = "open" /\ task[h].res # None

WaitsUnused ==
    /\ \A k \in Call : OpenTabWaits(k) => call[k].res < nextChan /\ NoTabOn(call[k].res)
    /\ \A h \in Conn : ReopenWaits(h) => task[h].res < nextChan /\ NoTabOn(task[h].res)

WaitsDiffer ==
    /\ \A k1, k2 \in Call :
          OpenTabWaits(k1) /\ OpenTabWaits(k2) /\ k1 # k2 => call[k1].res # call[k2].res
    /\ \A h1, h2 \in Conn :
          ReopenWaits(h1) /\ ReopenWaits(h2) /\ h1 # h2 => task[h1].res # task[h2].res
    /\ \A k \in Call, h \in Conn :
          OpenTabWaits(k) /\ ReopenWaits(h) => call[k].res # task[h].res

RouteInv ==
    /\ ChannelRouted
    /\ \A t \in tabs : t < nextTab
    /\ \A c \in Chan : c >= nextChan => NoTabOn(c)
    /\ WaitsUnused
    /\ WaitsDiffer

(* A step that may open one shell c, for one caller, and may land one channel d
   that was in flight on tabs; what else was in flight stays so.                *)
LEMMA RouteMoves ==
    ASSUME TypeOK, RouteInv, ChannelRouted', \A t \in tabs' : t < nextTab',
           NEW c, NEW d,
           nextChan' \in Int, nextChan <= nextChan',
           c # None => c \in Chan /\ c = nextChan /\ c < nextChan',
           d # None => d \in Chan /\ d < nextChan,
           \A t \in Tab : tabChannel'[t] \in {tabChannel[t], None, d},
           \A k \in Call : OpenTabWaits(k)' =>
               \/ OpenTabWaits(k) /\ call'[k].res = call[k].res /\ call[k].res # d
               \/ call'[k].res = c /\ c # None,
           \A h \in Conn : ReopenWaits(h)' =>
               \/ ReopenWaits(h) /\ task'[h].res = task[h].res /\ task[h].res # d
               \/ task'[h].res = c /\ c # None,
           \A k1, k2 \in Call : call'[k1].res = c /\ call'[k2].res = c
               /\ OpenTabWaits(k1)' /\ OpenTabWaits(k2)' => k1 = k2,
           \A h1, h2 \in Conn : task'[h1].res = c /\ task'[h2].res = c
               /\ ReopenWaits(h1)' /\ ReopenWaits(h2)' => h1 = h2,
           \A k \in Call, h \in Conn :
               ~ (OpenTabWaits(k)' /\ ReopenWaits(h)' /\ call'[k].res = c /\ task'[h].res = c)
    PROVE  RouteInv'
<1>0. nextChan \in Int
  BY DEF TypeOK, BridgeTypeOK
<1>1. ASSUME NEW e \in Chan, NoTabOn(e), e # d PROVE \A t \in Tab : tabChannel'[t] # e
  BY <1>1 DEF NoTabOn
<1>2. \A k \in Call : OpenTabWaits(k) => call[k].res \in Chan
  BY DEF TypeOK, ManagerTypeOK, CallType, NoCall, OpenTabWaits
<1>3. \A h \in Conn : ReopenWaits(h) => task[h].res \in Chan
  BY RunsTyped, RunTyped DEF ReopenWaits
<1>4. \A e \in Chan : e >= nextChan => NoTabOn(e)
  BY DEF RouteInv
<1>5. ASSUME NEW e \in Chan, e >= nextChan' PROVE NoTabOn(e)'
  BY <1>0, <1>1, <1>4, <1>5 DEF NoTabOn
<1>6. ASSUME NEW k \in Call, OpenTabWaits(k)'
      PROVE  /\ call'[k].res < nextChan' /\ \A t \in Tab : tabChannel'[t] # call'[k].res
             /\ call'[k].res = c \/ (OpenTabWaits(k) /\ call'[k].res = call[k].res)
             /\ OpenTabWaits(k) /\ call'[k].res = call[k].res => call[k].res # c
  <2>1. CASE OpenTabWaits(k) /\ call'[k].res = call[k].res /\ call[k].res # d
    BY <1>0, <1>1, <1>2, <2>1 DEF RouteInv, WaitsUnused
  <2>2. CASE call'[k].res = c /\ c # None
    <3>1. c \in Chan /\ NoTabOn(c) /\ c # d
      BY <1>0, <1>4, <2>2
    <3>2. OpenTabWaits(k) => call[k].res < c
      BY <1>0, <2>2 DEF RouteInv, WaitsUnused
    <3>3. QED
      BY <1>0, <1>1, <1>2, <2>2, <3>1, <3>2
  <2>3. QED
    BY <1>6, <2>1, <2>2
<1>7. ASSUME NEW h \in Conn, ReopenWaits(h)'
      PROVE  /\ task'[h].res < nextChan' /\ \A t \in Tab : tabChannel'[t] # task'[h].res
             /\ task'[h].res = c \/ (ReopenWaits(h) /\ task'[h].res = task[h].res)
             /\ ReopenWaits(h) /\ task'[h].res = task[h].res => task[h].res # c
  <2>1. CASE ReopenWaits(h) /\ task'[h].res = task[h].res /\ task[h].res # d
    BY <1>0, <1>1, <1>3, <2>1 DEF RouteInv, WaitsUnused
  <2>2. CASE task'[h].res = c /\ c # None
    <3>1. c \in Chan /\ NoTabOn(c) /\ c # d
      BY <1>0, <1>4, <2>2
    <3>2. ReopenWaits(h) => task[h].res < c
      BY <1>0, <2>2 DEF RouteInv, WaitsUnused
    <3>3. QED
      BY <1>0, <1>1, <1>3, <2>2, <3>1, <3>2
  <2>3. QED
    BY <1>7, <2>1, <2>2
<1>8. WaitsUnused'
  BY <1>6, <1>7 DEF WaitsUnused, NoTabOn
<1>9. WaitsDiffer'
  <2>1. ASSUME NEW k1 \in Call, NEW k2 \in Call, OpenTabWaits(k1)', OpenTabWaits(k2)',
               k1 # k2, call'[k1].res = call'[k2].res
        PROVE  FALSE
    BY <1>6, <2>1 DEF RouteInv, WaitsDiffer
  <2>2. ASSUME NEW h1 \in Conn, NEW h2 \in Conn, ReopenWaits(h1)', ReopenWaits(h2)',
               h1 # h2, task'[h1].res = task'[h2].res
        PROVE  FALSE
    BY <1>7, <2>2 DEF RouteInv, WaitsDiffer
  <2>3. ASSUME NEW k \in Call, NEW h \in Conn, OpenTabWaits(k)', ReopenWaits(h)',
               call'[k].res = task'[h].res
        PROVE  FALSE
    BY <1>6, <1>7, <2>3 DEF RouteInv, WaitsDiffer
  <2>4. QED
    BY <2>1, <2>2, <2>3 DEF WaitsDiffer
<1>10. QED
  BY <1>5, <1>8, <1>9 DEF RouteInv

(* A step that lands d and opens no shell. *)
LEMMA RouteLands ==
    ASSUME TypeOK, RouteInv, ChannelRouted', \A t \in tabs' : t < nextTab',
           NEW d \in Chan, d < nextChan, nextChan' = nextChan,
           \A t \in Tab : tabChannel'[t] \in {tabChannel[t], None, d},
           \A k \in Call : OpenTabWaits(k)' =>
               /\ OpenTabWaits(k) /\ call'[k].res = call[k].res
               /\ call[k].res # d /\ call[k].res # None,
           \A h \in Conn : ReopenWaits(h)' =>
               /\ ReopenWaits(h) /\ task'[h].res = task[h].res
               /\ task[h].res # d /\ task[h].res # None
    PROVE  RouteInv'
<1>1. nextChan' \in Int /\ nextChan <= nextChan'
  BY DEF TypeOK, BridgeTypeOK
<1>2. QED
  BY <1>1, RouteMoves

(* A step that opens no shell, adds no tab and gives no tab a channel. *)
LEMMA RouteKept ==
    ASSUME TypeOK, RouteInv, ChannelRouted',
           tabs' \subseteq tabs, nextTab' = nextTab, nextChan' = nextChan,
           \A t \in Tab : tabChannel'[t] \in {tabChannel[t], None},
           \A k \in Call : OpenTabWaits(k)' => OpenTabWaits(k) /\ call'[k] = call[k],
           \A h \in Conn : ReopenWaits(h)' => ReopenWaits(h) /\ task'[h] = task[h]
    PROVE  RouteInv'
<1>1. nextChan' \in Int
  BY DEF TypeOK, BridgeTypeOK
<1>2. \A k \in Call : OpenTabWaits(k)' => call'[k].res # None
  BY DEF TypeOK, ManagerTypeOK, CallType, NoCall, OpenTabWaits
<1>3. \A h \in Conn : ReopenWaits(h)' => task'[h].res # None
  BY DEF TypeOK, ManagerTypeOK, TaskType, Idle, ReopenWaits
<1>4. \A t \in tabs' : t < nextTab'
  BY DEF RouteInv
<1>5. QED
  BY <1>1, <1>2, <1>3, <1>4, RouteMoves

(* Forgetting tabs unroutes no channel of a tab that stays. *)
LEMMA ForgetKeepsRouted ==
    ASSUME TypeOK, ChannelRouted, NEW T, ForgetTabs(T)
    PROVE  /\ ChannelRouted' /\ tabs' \subseteq tabs /\ nextTab' = nextTab
           /\ \A t \in Tab : tabChannel'[t] \in {tabChannel[t], None}
<1>1. ASSUME NEW t \in tabs', tabChannel'[t] # None
      PROVE  tabByChannel'[tabChannel'[t]] = t
  <2>1. t \in tabs /\ t \notin T /\ tabChannel'[t] = tabChannel[t] /\ tabChannel[t] \in Chan
    BY <1>1 DEF ForgetTabs, TypeOK, ManagerTypeOK
  <2>2. tabByChannel[tabChannel[t]] = t
    BY <1>1, <2>1 DEF ChannelRouted
  <2>3. ~ \E u \in T \cap tabs : tabChannel[u] = tabChannel[t]
    BY <2>1, <2>2, <1>1 DEF ChannelRouted
  <2>4. QED
    BY <2>1, <2>2, <2>3 DEF ForgetTabs, Unrouted
<1>2. QED
  BY <1>1 DEF ForgetTabs, ChannelRouted

(* A step that leaves the tab tables alone and makes no openShell. *)
LEMMA RouteUntouched ==
    ASSUME TypeOK, RouteInv, nextChan' = nextChan,
           UNCHANGED <<tabs, nextTab, tabChannel, tabByChannel>>,
           \A k \in Call : OpenTabWaits(k)' => OpenTabWaits(k) /\ call'[k] = call[k],
           \A h \in Conn : ReopenWaits(h)' => ReopenWaits(h) /\ task'[h] = task[h]
    PROVE  RouteInv'
<1>1. ChannelRouted'
  BY DEF RouteInv, ChannelRouted
<1>2. QED
  BY <1>1, RouteKept

LEMMA CallerRoute == ASSUME TypeOK, TypeOK', RouteInv, Caller PROVE RouteInv'
<1> USE DEF TypeOK, ManagerTypeOK, tables, tabVars, bridgeVars, OpenTabWaits, ReopenWaits
<1>1. ASSUME NEW k \in Call, NEW h \in Conn, ConnectCall(k, h) PROVE RouteInv'
  BY <1>1, RouteUntouched DEF ConnectCall, SshConnect
<1>2. ASSUME NEW k \in Call, NEW s \in Conn, NEW size \in Size, NEW c \in Chan,
             OpenTabCall(k, s, size, c)
      PROVE  RouteInv'
  <2>1. /\ c = nextChan /\ nextChan' = nextChan + 1 /\ c \in Chan /\ NoTabOn(c)
        /\ UNCHANGED <<tabs, nextTab, tabChannel, tabByChannel, task>>
        /\ call'[k].res = c /\ \A j \in Call : j # k => call'[j] = call[j]
    BY <1>2 DEF OpenTabCall, SshOpenShell, RouteInv
  <2>2. ChannelRouted'
    BY <2>1 DEF RouteInv, ChannelRouted
  <2>3. \A j \in Call : OpenTabWaits(j) => call[j].res \in Chan /\ call[j].res < nextChan
    BY DEF CallType, NoCall, RouteInv, WaitsUnused
  <2>4. \A g \in Conn : ReopenWaits(g) => task[g].res \in Chan /\ task[g].res < nextChan
    BY RunsTyped, RunTyped DEF ReopenWaits, RouteInv, WaitsUnused
  <2>5. nextChan \in Int /\ \A t \in tabs' : t < nextTab'
    BY <2>1 DEF BridgeTypeOK, RouteInv
  <2> HIDE DEF TypeOK, ManagerTypeOK
  <2>6. \A j \in Call : OpenTabWaits(j)' =>
            \/ OpenTabWaits(j) /\ call'[j].res = call[j].res /\ call[j].res # None
            \/ call'[j].res = c /\ c # None
    <3>1. ASSUME NEW j \in Call, j # k, OpenTabWaits(j)'
          PROVE  OpenTabWaits(j) /\ call'[j].res = call[j].res /\ call[j].res # None
      BY <2>1, <2>3, <3>1
    <3>2. call'[k].res = c /\ c # None
      BY <2>1
    <3>3. QED
      BY <3>1, <3>2
  <2>7. \A g \in Conn : ReopenWaits(g)' =>
            ReopenWaits(g) /\ task'[g].res = task[g].res /\ task[g].res # c
    BY <2>1, <2>4, <2>5
  <2>8. \A j1, j2 \in Call : call'[j1].res = c /\ call'[j2].res = c
            /\ OpenTabWaits(j1)' /\ OpenTabWaits(j2)' => j1 = j2
    <3>1. ASSUME NEW j \in Call, j # k, OpenTabWaits(j)' PROVE call'[j].res # c
      BY <2>1, <2>3, <2>5, <3>1
    <3>2. QED
      BY <3>1
  <2> HIDE DEF OpenTabWaits, ReopenWaits
  <2>9. /\ nextChan' \in Int /\ nextChan <= nextChan'
        /\ c \in Chan /\ c = nextChan /\ c < nextChan'
        /\ \A t \in Tab : tabChannel'[t] = tabChannel[t]
    BY <2>1, <2>5
  <2>10. \A g \in Conn : ReopenWaits(g)' =>
            ReopenWaits(g) /\ task'[g].res = task[g].res /\ task[g].res # None
    BY <2>1, <2>4 DEF ReopenWaits
  <2>11. QED
    BY <2>2, <2>5, <2>6, <2>7, <2>8, <2>9, <2>10, RouteMoves
<1>3. ASSUME NEW s \in Conn, Disconnect(s) PROVE RouteInv'
  <2>1. ForgetTabs(TabsOf(s)) /\ nextChan' = nextChan /\ UNCHANGED <<call, task>>
    BY <1>3 DEF Disconnect, SshDisconnect
  <2>2. QED
    BY <2>1, ForgetKeepsRouted, RouteKept DEF RouteInv
<1>4. ASSUME NEW t \in Tab, CloseTab(t) PROVE RouteInv'
  <2>1. ForgetTabs({t}) /\ nextChan' = nextChan /\ UNCHANGED <<call, task>>
    BY <1>4 DEF CloseTab, SshCloseChannel
  <2>2. QED
    BY <2>1, ForgetKeepsRouted, RouteKept DEF RouteInv
<1>5. ASSUME NEW t \in Tab, NEW size \in Size, ResizeTab(t, size) PROVE RouteInv'
  BY <1>5, RouteUntouched DEF ResizeTab, SshResize
<1>6. CASE Stop \/ Start
  BY <1>6, RouteUntouched DEF Stop, Start
<1>7. QED
  BY <1>1, <1>2, <1>3, <1>4, <1>5, <1>6 DEF Caller

(* A landing channel d was on no tab, so writing its entry disturbs no other tab. *)
LEMMA LandingKeepsRouted ==
    ASSUME TypeOK, ChannelRouted, NEW d \in Chan, NoTabOn(d), NEW t \in Tab,
           tabs' \subseteq tabs \cup {t},
           tabChannel' = [tabChannel EXCEPT ![t] = d],
           tabByChannel' = [tabByChannel EXCEPT ![d] = t]
    PROVE  ChannelRouted'
<1>1. ASSUME NEW u \in tabs', tabChannel'[u] # None
      PROVE  tabByChannel'[tabChannel'[u]] = u
  <2>1. CASE u = t
    BY <2>1 DEF TypeOK, ManagerTypeOK
  <2>2. CASE u # t
    <3>1. u \in tabs /\ tabChannel'[u] = tabChannel[u] /\ tabChannel[u] # d
      BY <2>2 DEF TypeOK, ManagerTypeOK, NoTabOn
    <3>2. QED
      BY <1>1, <3>1 DEF ChannelRouted, TypeOK, ManagerTypeOK
  <2>3. QED
    BY <2>1, <2>2
<1>2. QED
  BY <1>1 DEF ChannelRouted

LEMMA ReplyRoute == ASSUME TypeOK, RouteInv, NEW k \in Call, Reply(k) PROVE RouteInv'
<1>1. CASE ConnectReply(k)
  <2>1. /\ nextChan' = nextChan /\ UNCHANGED <<tabs, nextTab, tabChannel, tabByChannel, task>>
        /\ call' = [call EXCEPT ![k] = NoCall]
    BY <1>1 DEF ConnectReply, bridgeVars, tabVars
  <2>2. \A j \in Call : OpenTabWaits(j)' => OpenTabWaits(j) /\ call'[j] = call[j]
    BY <2>1 DEF OpenTabWaits, NoCall, TypeOK, ManagerTypeOK
  <2>3. \A h \in Conn : ReopenWaits(h)' => ReopenWaits(h) /\ task'[h] = task[h]
    BY <2>1 DEF ReopenWaits
  <2>4. QED
    BY <2>1, <2>2, <2>3, RouteUntouched
<1>2. CASE OpenTabReply(k)
  <2> DEFINE d == call[k].res
             t == nextTab
  <2>1. OpenTabWaits(k) /\ d \in Chan /\ d < nextChan /\ NoTabOn(d) /\ t \in Tab
    BY <1>2 DEF OpenTabReply, OpenTabWaits, RouteInv, WaitsUnused, TypeOK, ManagerTypeOK,
                CallType, NoCall
  <2>2. /\ nextChan' = nextChan /\ tabs' = tabs \cup {t} /\ nextTab' = t + 1
        /\ tabChannel' = [tabChannel EXCEPT ![t] = d]
        /\ tabByChannel' = [tabByChannel EXCEPT ![d] = t]
        /\ call' = [call EXCEPT ![k] = NoCall] /\ task' = task
    BY <1>2 DEF OpenTabReply, bridgeVars
  <2>3. ChannelRouted'
    BY <2>1, <2>2, LandingKeepsRouted DEF RouteInv
  <2>4. \A u \in tabs' : u < nextTab'
    BY <2>2 DEF RouteInv, TypeOK, ManagerTypeOK
  <2>5. \A u \in Tab : tabChannel'[u] \in {tabChannel[u], None, d}
    BY <2>2 DEF TypeOK, ManagerTypeOK
  <2>6. \A j \in Call : OpenTabWaits(j)' =>
            OpenTabWaits(j) /\ call'[j].res = call[j].res /\ call[j].res # d
                            /\ call[j].res # None
    <3>1. ASSUME NEW j \in Call, OpenTabWaits(j)'
          PROVE  OpenTabWaits(j) /\ j # k /\ call'[j] = call[j]
      <4>1. call'[j] = IF j = k THEN NoCall ELSE call[j]
        BY <2>2 DEF TypeOK, ManagerTypeOK
      <4>2. call'[j].op = "openTab" /\ NoCall.op = "none"
        BY <3>1 DEF OpenTabWaits, NoCall
      <4>3. QED
        BY <4>1, <4>2 DEF OpenTabWaits
    <3>2. ASSUME NEW j \in Call, OpenTabWaits(j) PROVE call[j].res # None
      <4>1. call[j] \in CallType /\ call[j].op = "openTab"
        BY <3>2 DEF OpenTabWaits, TypeOK, ManagerTypeOK
      <4>2. QED
        BY <4>1 DEF CallType, NoCall
    <3>3. \A j \in Call : OpenTabWaits(j) /\ j # k => call[j].res # d
      BY <2>1 DEF RouteInv, WaitsDiffer
    <3>4. QED
      BY <3>1, <3>2, <3>3
  <2>7. \A h \in Conn : ReopenWaits(h)' =>
            ReopenWaits(h) /\ task'[h].res = task[h].res /\ task[h].res # d
                           /\ task[h].res # None
    BY <2>1, <2>2 DEF RouteInv, WaitsDiffer, ReopenWaits
  <2> HIDE DEF d, t
  <2>8. QED
    BY <2>1, <2>2, <2>3, <2>4, <2>5, <2>6, <2>7, RouteLands
<1>3. QED
  BY <1>1, <1>2 DEF Reply

LEMMA HandleEventRoute == ASSUME TypeOK, RouteInv, HandleEvent PROVE RouteInv'
<1>1. CASE HandleChannelClosed
  <2>1. /\ ForgetTabs({tabByChannel[Head(events).id]} \ {None})
        /\ nextChan' = nextChan /\ UNCHANGED <<call, task>>
    BY <1>1 DEF HandleChannelClosed, TakeEvent
  <2>2. QED
    BY <2>1, ForgetKeepsRouted, RouteKept DEF RouteInv, OpenTabWaits, ReopenWaits
<1>2. CASE IgnoreSessionClosed
  BY <1>2, RouteUntouched
  DEF IgnoreSessionClosed, TakeEvent, tabVars, OpenTabWaits, ReopenWaits
<1>3. ASSUME NEW h \in Conn, StartReconnect(h) PROVE RouteInv'
  <2> DEFINE s == handleToSession[h]
  <2>1. /\ tabByChannel' = Unrouted(TabsOf(s))
        /\ tabChannel' = [t \in Tab |-> IF t \in TabsOf(s) THEN None ELSE tabChannel[t]]
        /\ nextChan' = nextChan /\ UNCHANGED <<tabs, nextTab, call>>
    BY <1>3 DEF StartReconnect, TakeEvent
  <2>2. ASSUME NEW t \in tabs', tabChannel'[t] # None
        PROVE  tabByChannel'[tabChannel'[t]] = t
    <3>1. /\ t \in tabs /\ t \in Tab /\ t \notin TabsOf(s) /\ tabChannel'[t] = tabChannel[t]
          /\ tabChannel[t] \in Chan
      BY <2>1, <2>2 DEF TypeOK, ManagerTypeOK
    <3>2. ~ \E u \in TabsOf(s) : tabChannel[u] = tabChannel[t]
      BY <2>2, <3>1 DEF RouteInv, ChannelRouted, TabsOf
    <3>3. QED
      BY <2>1, <2>2, <3>1, <3>2 DEF RouteInv, ChannelRouted, Unrouted
  <2>3. ChannelRouted'
    BY <2>2 DEF ChannelRouted
  <2>4. \A t \in Tab : tabChannel'[t] \in {tabChannel[t], None}
    BY <2>1
  <2>5. \A g \in Conn : ReopenWaits(g)' => ReopenWaits(g) /\ task'[g] = task[g]
    BY <1>3 DEF StartReconnect, Sleeping, ReopenWaits, TypeOK, ManagerTypeOK
  <2>6. QED
    BY <2>1, <2>3, <2>4, <2>5, RouteKept DEF OpenTabWaits
<1>4. QED
  BY <1>1, <1>2, <1>3 DEF HandleEvent

(* What Rebuild does to the replies in flight: run h waits for the shell it has
   just asked for, or for nothing, and no shell it waited for before.           *)
LEMMA RebuildWaits ==
    ASSUME TypeOK, NEW h \in Conn, NEW hd \in Conn, NEW todo \in SUBSET Tab,
           NEW res \in Chan \cup {None}, Rebuild(h, hd, todo, res)
    PROVE  /\ res = None => nextChan' = nextChan /\ ~ReopenWaits(h)'
           /\ res # None => /\ res = nextChan /\ nextChan' = nextChan + 1
                            /\ ReopenWaits(h)' => task'[h].res = res
           /\ \A g \in Conn : g # h => task'[g] = task[g]
<1>1. CASE /\ todo = {} /\ res = None
           /\ task' = [task EXCEPT ![h] = Idle]
           /\ UNCHANGED bridgeVars
  BY <1>1 DEF ReopenWaits, Idle, bridgeVars, TypeOK, ManagerTypeOK
<1>2. CASE OpenNext(h, hd, todo, res)
  <2>1. PICK t \in todo :
          /\ IF res = None THEN UNCHANGED bridgeVars
                           ELSE SshOpenShell(hd, tabSize[t], res)
          /\ task' = [task EXCEPT ![h].pc = "open", ![h].hd = hd, ![h].cur = t,
                                  ![h].todo = todo \ {t}, ![h].res = res]
    BY <1>2 DEF OpenNext
  <2> DEFINE run == [task[h] EXCEPT !.pc = "open", !.hd = hd, !.cur = t,
                                    !.todo = todo \ {t}, !.res = res]
  <2>2. task' = [task EXCEPT ![h] = run]
    BY <2>1
  <2>3. task[h] \in TaskType
    BY DEF TypeOK, ManagerTypeOK
  <2>4. run.res = res
    BY <2>3 DEF TaskType, Idle
  <2>5. task'[h] = run /\ \A g \in Conn : g # h => task'[g] = task[g]
    BY <2>2 DEF TypeOK, ManagerTypeOK
  <2> HIDE DEF run
  <2>6. res = None => nextChan' = nextChan
    BY <2>1 DEF bridgeVars
  <2>7. res # None => res = nextChan /\ nextChan' = nextChan + 1
    BY <2>1 DEF SshOpenShell
  <2>8. QED
    BY <2>4, <2>5, <2>6, <2>7 DEF ReopenWaits
<1>3. QED
  BY <1>1, <1>2 DEF Rebuild

(* A run goes on to its next tab, or ends, with d landed on a tab or nothing yet. *)
LEMMA ShellOpenedAndLanded ==
    ASSUME TypeOK, RouteInv, ChannelRouted', UNCHANGED <<tabs, nextTab, call>>,
           NEW h \in Conn, NEW res \in Chan \cup {None}, NEW d \in Chan \cup {None},
           d # None => d < nextChan,
           res = None => nextChan' = nextChan /\ ~ReopenWaits(h)',
           res # None => /\ res = nextChan /\ nextChan' = nextChan + 1
                         /\ ReopenWaits(h)' => task'[h].res = res,
           \A g \in Conn : g # h => task'[g] = task[g],
           \A t \in Tab : tabChannel'[t] \in {tabChannel[t], None, d},
           \A k \in Call : OpenTabWaits(k) => call[k].res # d,
           \A g \in Conn : ReopenWaits(g) /\ g # h => task[g].res # d
    PROVE  RouteInv'
<1>1. nextChan \in Int
  BY DEF TypeOK, BridgeTypeOK
<1>2. nextChan' \in Int /\ nextChan <= nextChan' /\ (res # None => res < nextChan')
  BY <1>1
<1>3. ASSUME NEW k \in Call, OpenTabWaits(k)'
      PROVE  /\ OpenTabWaits(k) /\ call'[k].res = call[k].res /\ call[k].res # d
             /\ call[k].res # res
  <2>1. OpenTabWaits(k) /\ call'[k] = call[k]
    BY <1>3 DEF OpenTabWaits
  <2>2. call[k].res \in Chan /\ call[k].res < nextChan
    BY <2>1 DEF OpenTabWaits, RouteInv, WaitsUnused, TypeOK, ManagerTypeOK, CallType, NoCall
  <2>3. QED
    BY <1>1, <2>1, <2>2
<1>4. ASSUME NEW g \in Conn, ReopenWaits(g)', g # h
      PROVE  /\ ReopenWaits(g) /\ task'[g].res = task[g].res /\ task[g].res # d
             /\ task[g].res # res
  <2>1. ReopenWaits(g) /\ task'[g] = task[g]
    BY <1>4 DEF ReopenWaits
  <2>2. task[g].res \in Chan /\ task[g].res < nextChan
    BY <2>1, RunsTyped, RunTyped DEF ReopenWaits, RouteInv, WaitsUnused
  <2>3. QED
    BY <1>1, <1>4, <2>1, <2>2
<1>5. ReopenWaits(h)' => task'[h].res = res /\ res # None
  OBVIOUS
<1>6. \A t \in tabs' : t < nextTab'
  BY DEF RouteInv
<1>7. \A h1, h2 \in Conn : task'[h1].res = res /\ task'[h2].res = res
          /\ ReopenWaits(h1)' /\ ReopenWaits(h2)' => h1 = h2
  BY <1>4
<1>8. \A k \in Call : OpenTabWaits(k)' => call'[k].res # res
  BY <1>3
<1>9. \A g \in Conn : ReopenWaits(g)' =>
          \/ ReopenWaits(g) /\ task'[g].res = task[g].res /\ task[g].res # d
          \/ task'[g].res = res /\ res # None
  BY <1>4, <1>5
<1>10. QED
  BY <1>2, <1>3, <1>6, <1>7, <1>8, <1>9, RouteMoves

LEMMA ReconnectRoute ==
    ASSUME TypeOK, RouteInv, NEW h \in Conn, ReconnectStep(h)
    PROVE  RouteInv'
<1>1. \A g \in Conn : ReopenWaits(g) => /\ task[g].res \in Chan /\ task[g].res < nextChan
                                        /\ task[g].res # None
  BY RunsTyped, RunTyped DEF ReopenWaits, RouteInv, WaitsUnused
<1>2. \A k \in Call : OpenTabWaits(k) => /\ call[k].res \in Chan /\ call[k].res < nextChan
                                         /\ call[k].res # None
  BY DEF OpenTabWaits, RouteInv, WaitsUnused, TypeOK, ManagerTypeOK, CallType, NoCall
<1>3. CASE WakeAborted(h)
  <2>1. /\ nextChan' = nextChan /\ UNCHANGED <<tabs, nextTab, tabChannel, tabByChannel, call>>
        /\ task' = [task EXCEPT ![h] = Idle]
    BY <1>3 DEF WakeAborted, bridgeVars, tabVars
  <2>2. \A g \in Conn : ReopenWaits(g)' => ReopenWaits(g) /\ task'[g] = task[g]
    BY <2>1 DEF ReopenWaits, Idle, TypeOK, ManagerTypeOK
  <2>3. QED
    BY <2>1, <2>2, RouteUntouched DEF OpenTabWaits
<1>4. ASSUME NEW res \in Conn \cup {None}, WakeConnect(h, res) PROVE RouteInv'
  <2>1. /\ nextChan' = nextChan /\ UNCHANGED <<tabs, nextTab, tabChannel, tabByChannel, call>>
    BY <1>4 DEF WakeConnect, bridgeVars, tabVars, SshConnect
  <2>2. task' = [task EXCEPT ![h] = [task[h] EXCEPT !.pc = "connect", !.res = res]]
    BY <1>4 DEF WakeConnect
  <2>3. task[h] \in TaskType
    BY DEF TypeOK, ManagerTypeOK
  <2>4. [task[h] EXCEPT !.pc = "connect", !.res = res].pc = "connect"
    BY <2>3 DEF TaskType, Idle
  <2>5. \A g \in Conn : ReopenWaits(g)' => ReopenWaits(g) /\ task'[g] = task[g]
    BY <2>2, <2>4 DEF ReopenWaits, TypeOK, ManagerTypeOK
  <2>6. QED
    BY <2>1, <2>5, RouteUntouched DEF OpenTabWaits
<1>5. ASSUME NEW res \in Chan \cup {None}, Reconnected(h, res) PROVE RouteInv'
  <2>1. task[h].res \in Conn /\ task[h].mine \in SUBSET Tab /\ ~ReopenWaits(h)
    BY <1>5, RunsTyped, RunTyped DEF Reconnected, ReopenWaits
  <2>2. /\ Rebuild(h, task[h].res, task[h].mine, res)
        /\ UNCHANGED <<tabs, nextTab, tabChannel, tabByChannel, call>>
    BY <1>5 DEF Reconnected, tabVars
  <2>3. /\ res = None => nextChan' = nextChan /\ ~ReopenWaits(h)'
        /\ res # None => /\ res = nextChan /\ nextChan' = nextChan + 1
                         /\ ReopenWaits(h)' => task'[h].res = res
        /\ \A g \in Conn : g # h => task'[g] = task[g]
    BY <2>1, <2>2, RebuildWaits
  <2>4. QED
    <3>1. ChannelRouted' /\ \A t \in Tab : tabChannel'[t] \in {tabChannel[t], None}
      BY <2>2 DEF RouteInv, ChannelRouted
    <3>2. QED
      BY <1>1, <1>2, <2>2, <2>3, <3>1, ShellOpenedAndLanded
<1>6. ASSUME NEW res \in Chan \cup {None}, TabReopened(h, res) PROVE RouteInv'
  <2> DEFINE d == task[h].res
             t == task[h].cur
  <2>1. /\ d \in Chan /\ t \in Tab /\ ReopenWaits(h)
        /\ task[h].todo \in SUBSET Tab /\ task[h].hd \in Conn
    BY <1>6, RunsTyped, RunTyped DEF TabReopened, ReopenWaits
  <2>2. /\ Rebuild(h, task[h].hd, task[h].todo, res)
        /\ tabChannel' = [tabChannel EXCEPT ![t] = d]
        /\ tabByChannel' = [tabByChannel EXCEPT ![d] = t]
        /\ UNCHANGED <<tabs, nextTab, call>>
    BY <1>6 DEF TabReopened
  <2>3. /\ res = None => nextChan' = nextChan /\ ~ReopenWaits(h)'
        /\ res # None => /\ res = nextChan /\ nextChan' = nextChan + 1
                         /\ ReopenWaits(h)' => task'[h].res = res
        /\ \A g \in Conn : g # h => task'[g] = task[g]
    BY <2>1, <2>2, RebuildWaits
  <2>4. NoTabOn(d) /\ d < nextChan
    BY <2>1 DEF RouteInv, WaitsUnused
  <2>5. ChannelRouted'
    BY <2>1, <2>2, <2>4, LandingKeepsRouted DEF RouteInv
  <2>6. /\ \A k \in Call : OpenTabWaits(k) => call[k].res # d
        /\ \A g \in Conn : ReopenWaits(g) /\ g # h => task[g].res # d
    BY <2>1 DEF RouteInv, WaitsDiffer
  <2>7. \A u \in Tab : tabChannel'[u] \in {tabChannel[u], None, d}
    BY <2>2 DEF TypeOK, ManagerTypeOK
  <2> HIDE DEF d, t
  <2>8. QED
    BY <1>1, <1>2, <2>1, <2>2, <2>3, <2>4, <2>5, <2>6, <2>7, ShellOpenedAndLanded
<1>7. CASE RetryLater(h)
  <2>1. /\ nextChan' = nextChan /\ UNCHANGED <<tabs, nextTab, tabChannel, tabByChannel, call>>
    BY <1>7 DEF RetryLater, bridgeVars, tabVars
  <2>2. \A g \in Conn : ReopenWaits(g)' => ReopenWaits(g) /\ task'[g] = task[g]
    BY <1>7 DEF RetryLater, ReopenWaits, Idle, Sleeping, TypeOK, ManagerTypeOK
  <2>3. QED
    BY <2>1, <2>2, RouteUntouched DEF OpenTabWaits
<1>8. CASE Exhausted(h)
  <2>1. /\ ForgetTabs(task[h].mine) /\ nextChan' = nextChan /\ call' = call
        /\ task' = [task EXCEPT ![h] = Idle]
    BY <1>8 DEF Exhausted, bridgeVars
  <2>2. \A g \in Conn : ReopenWaits(g)' => ReopenWaits(g) /\ task'[g] = task[g]
    BY <2>1 DEF ReopenWaits, Idle, TypeOK, ManagerTypeOK
  <2>3. QED
    BY <2>1, <2>2, ForgetKeepsRouted, RouteKept DEF RouteInv, OpenTabWaits
<1>9. QED
  BY <1>3, <1>4, <1>5, <1>6, <1>7, <1>8 DEF ReconnectStep

LEMMA NextRoute == TypeOK /\ TypeOK' /\ RouteInv /\ [Next]_vars => RouteInv'
<1> SUFFICES ASSUME TypeOK, TypeOK', RouteInv, [Next]_vars PROVE RouteInv'
  OBVIOUS
<1> USE DEF OpenTabWaits, ReopenWaits
<1>1. CASE LoopExit
  BY <1>1, RouteUntouched DEF LoopExit, bridgeVars, tabVars
<1>2. CASE Network
  BY <1>2, RouteUntouched
  DEF Network, NetworkDrop, SilentDrop, DisconnectReported, PumpEnds, tabVars
<1>3. CASE UNCHANGED vars
  BY <1>3, RouteUntouched DEF vars, bridgeVars, tabVars
<1>4. ASSUME NEW h \in Conn, Published(h) PROVE RouteInv'
  BY <1>4, RouteUntouched DEF Published, Publish, tabVars
<1>5. ASSUME NEW h \in Conn, Hangs(h) PROVE RouteInv'
  <2>1. /\ nextChan' = nextChan
        /\ UNCHANGED <<tabs, nextTab, tabChannel, tabByChannel, call>>
    BY <1>5 DEF Hangs, bridgeVars, tabVars
  <2>2. \A g \in Conn : ReopenWaits(g)' => ReopenWaits(g) /\ task'[g] = task[g]
    BY <1>5, HangsRun
  <2>3. QED
    BY <2>1, <2>2, RouteUntouched
<1>6. QED
  BY <1>1, <1>2, <1>3, <1>4, <1>5, CallerRoute, ReplyRoute, HandleEventRoute, ReconnectRoute
  DEF Next

LEMMA InitRoute == Init => RouteInv
BY DEF Init, BridgeInit, RouteInv, ChannelRouted, NoTabOn, WaitsUnused, WaitsDiffer,
       OpenTabWaits, ReopenWaits, NoCall, Idle

(* In every reachable state an open tab's channel routes to that tab: no reply,
   however late, and no other run of reconnect takes a tab's output away.       *)
THEOREM Routing == Spec => []ChannelRouted
<1>1. RouteInv => ChannelRouted
  BY DEF RouteInv
<1>2. QED
  BY <1>1, InitRoute, NextRoute, TypeCorrect, PTL DEF Spec

----------------------------------------------------------------------------
(* Watching.  A handle on its way in a reply, or not yet issued, is claimed by no
   record, map entry or run; each record has a handle of its own; a run belongs to
   the session its handle last mapped to.  From these, no step that unmaps or
   replaces one handle can unwatch another session.                             *)
ConnectWaits(k) == call[k].op = "connect"
ReconnectWaits(h) == task[h].pc = "connect" /\ task[h].res # None

Unclaimed(r) ==
    /\ handleOf[r] = None /\ handleToSession[r] = None /\ task[r].pc = "idle"
    /\ \A s \in Conn : handleOf[s] # r

ClaimInv ==
    /\ \A r \in Conn : r >= nextConn => Unclaimed(r)
    /\ \A k \in Call : ConnectWaits(k) => call[k].res < nextConn /\ Unclaimed(call[k].res)
    /\ \A h \in Conn : ReconnectWaits(h) => task[h].res < nextConn /\ Unclaimed(task[h].res)
    /\ \A k1, k2 \in Call :
          ConnectWaits(k1) /\ ConnectWaits(k2) /\ k1 # k2 => call[k1].res # call[k2].res
    /\ \A h1, h2 \in Conn :
          ReconnectWaits(h1) /\ ReconnectWaits(h2) /\ h1 # h2 => task[h1].res # task[h2].res
    /\ \A k \in Call, h \in Conn :
          ConnectWaits(k) /\ ReconnectWaits(h) => call[k].res # task[h].res

RecordInv ==
    /\ \A s \in sessions : handleOf[s] # None /\ ~closing[s]
    /\ \A s1, s2 \in Conn : s1 # s2 /\ handleOf[s1] # None => handleOf[s1] # handleOf[s2]
    /\ \A h \in Conn : task[h].pc # "idle" => handleOf[task[h].sid] # None
    /\ \A h \in Conn : task[h].pc # "idle" /\ handleToSession[h] # None
                          => handleToSession[h] = task[h].sid

WatchInv == ClaimInv /\ RecordInv /\ WatchedOrRebuilding

(* A step that may make one connection c, for one caller, and may give one handle d
   that was in flight to a record.                                              *)
LEMMA ClaimMoves ==
    ASSUME TypeOK, ClaimInv, NEW c, NEW d,
           nextConn' \in Int, nextConn <= nextConn',
           c # None => c \in Conn /\ c = nextConn /\ c < nextConn',
           d # None => d \in Conn /\ d < nextConn,
           \A r \in Conn : Unclaimed(r) /\ r # d => Unclaimed(r)',
           \A k \in Call : ConnectWaits(k)' =>
               \/ ConnectWaits(k) /\ call'[k].res = call[k].res /\ call[k].res # d
               \/ call'[k].res = c /\ c # None,
           \A h \in Conn : ReconnectWaits(h)' =>
               \/ ReconnectWaits(h) /\ task'[h].res = task[h].res /\ task[h].res # d
               \/ task'[h].res = c /\ c # None,
           \A k1, k2 \in Call : call'[k1].res = c /\ call'[k2].res = c
               /\ ConnectWaits(k1)' /\ ConnectWaits(k2)' => k1 = k2,
           \A h1, h2 \in Conn : task'[h1].res = c /\ task'[h2].res = c
               /\ ReconnectWaits(h1)' /\ ReconnectWaits(h2)' => h1 = h2,
           \A k \in Call, h \in Conn :
               ~ (ConnectWaits(k)' /\ ReconnectWaits(h)' /\ call'[k].res = c /\ task'[h].res = c)
    PROVE  ClaimInv'
<1>0. nextConn \in Int
  BY DEF TypeOK, BridgeTypeOK
<1>1. \A k \in Call : ConnectWaits(k) => call[k].res \in Conn
  BY DEF TypeOK, ManagerTypeOK, CallType, NoCall, ConnectWaits
<1>2. ASSUME NEW h \in Conn, ReconnectWaits(h) PROVE task[h].res \in Conn
  <2>1. task[h] \in TaskType /\ task[h].pc = "connect" /\ task[h].res # None
    BY <1>2 DEF TypeOK, ManagerTypeOK, ReconnectWaits
  <2>2. QED
    BY <2>1 DEF TaskType, Idle
<1>3. \A r \in Conn : r >= nextConn => Unclaimed(r)
  BY DEF ClaimInv
<1>4. ASSUME NEW r \in Conn, r >= nextConn' PROVE Unclaimed(r)'
  BY <1>0, <1>3, <1>4
<1>5. c # None => c \in Conn /\ Unclaimed(c)'
  BY <1>0, <1>3
<1>6. ASSUME NEW k \in Call, ConnectWaits(k)'
      PROVE  /\ call'[k].res < nextConn' /\ call'[k].res \in Conn
             /\ call'[k].res = c \/ (ConnectWaits(k) /\ call'[k].res = call[k].res)
             /\ ConnectWaits(k) /\ call'[k].res = call[k].res => call[k].res # c
             /\ \A r \in Conn : r = call'[k].res => Unclaimed(r)'
  <2>1. ConnectWaits(k) => /\ call[k].res < nextConn /\ call[k].res \in Conn
                           /\ \A r \in Conn : r = call[k].res => Unclaimed(r)
    BY <1>1 DEF ClaimInv
  <2>2. CASE ConnectWaits(k) /\ call'[k].res = call[k].res /\ call[k].res # d
    BY <1>0, <2>1, <2>2
  <2>3. CASE call'[k].res = c /\ c # None
    BY <1>0, <1>5, <2>1, <2>3
  <2>4. QED
    BY <1>6, <2>2, <2>3
<1>7. ASSUME NEW h \in Conn, ReconnectWaits(h)'
      PROVE  /\ task'[h].res < nextConn' /\ task'[h].res \in Conn
             /\ task'[h].res = c \/ (ReconnectWaits(h) /\ task'[h].res = task[h].res)
             /\ ReconnectWaits(h) /\ task'[h].res = task[h].res => task[h].res # c
             /\ \A r \in Conn : r = task'[h].res => Unclaimed(r)'
  <2>1. ReconnectWaits(h) => /\ task[h].res < nextConn /\ task[h].res \in Conn
                             /\ \A r \in Conn : r = task[h].res => Unclaimed(r)
    BY <1>2 DEF ClaimInv
  <2>2. CASE ReconnectWaits(h) /\ task'[h].res = task[h].res /\ task[h].res # d
    BY <1>0, <2>1, <2>2
  <2>3. CASE task'[h].res = c /\ c # None
    BY <1>0, <1>5, <2>1, <2>3
  <2>4. QED
    BY <1>7, <2>2, <2>3
<1>8. ASSUME NEW k1 \in Call, NEW k2 \in Call, ConnectWaits(k1)', ConnectWaits(k2)', k1 # k2
      PROVE  call'[k1].res # call'[k2].res
  BY <1>6, <1>8 DEF ClaimInv
<1>9. ASSUME NEW h1 \in Conn, NEW h2 \in Conn, ReconnectWaits(h1)', ReconnectWaits(h2)',
             h1 # h2
      PROVE  task'[h1].res # task'[h2].res
  BY <1>7, <1>9 DEF ClaimInv
<1>10. ASSUME NEW k \in Call, NEW h \in Conn, ConnectWaits(k)', ReconnectWaits(h)'
       PROVE  call'[k].res # task'[h].res
  BY <1>6, <1>7, <1>10 DEF ClaimInv
<1>11. ASSUME NEW k \in Call, ConnectWaits(k)' PROVE Unclaimed(call[k].res)'
  BY <1>6, <1>11 DEF Unclaimed
<1>12. ASSUME NEW h \in Conn, ReconnectWaits(h)' PROVE Unclaimed(task[h].res)'
  BY <1>7, <1>12 DEF Unclaimed
<1>13. QED
  BY <1>4, <1>6, <1>7, <1>8, <1>9, <1>10, <1>11, <1>12 DEF ClaimInv

(* A step that changes no table, no run and no connect in flight. *)
LEMMA WatchUntouched ==
    ASSUME TypeOK, WatchInv, UNCHANGED <<sessions, handleOf, closing, handleToSession, task>>,
           nextConn' = nextConn, loop' = "on" => loop = "on",
           \A k \in Call : ConnectWaits(k)' => ConnectWaits(k) /\ call'[k] = call[k]
    PROVE  WatchInv'
<1>1. RecordInv' /\ WatchedOrRebuilding'
  BY DEF WatchInv, RecordInv, WatchedOrRebuilding, Rebuilding, GivesHandle
<1>2. \A r \in Conn : Unclaimed(r) => Unclaimed(r)'
  BY DEF Unclaimed
<1>3. \A k \in Call : ConnectWaits(k)' =>
          ConnectWaits(k) /\ call'[k].res = call[k].res /\ call[k].res # None
  BY DEF TypeOK, ManagerTypeOK, CallType, NoCall, ConnectWaits
<1>4. \A h \in Conn : ReconnectWaits(h)' =>
          ReconnectWaits(h) /\ task'[h].res = task[h].res /\ task[h].res # None
  BY DEF ReconnectWaits
<1>5. nextConn' \in Int /\ nextConn <= nextConn'
  BY DEF TypeOK, BridgeTypeOK
<1>6. ClaimInv'
  BY <1>2, <1>3, <1>4, <1>5, ClaimMoves DEF WatchInv
<1>7. QED
  BY <1>1, <1>6 DEF WatchInv

(* A step of run h that changes no table: it may ask for a connection, and stays
   a run about to give its session a handle if it was one and the session is open. *)
LEMMA WatchRunStep ==
    ASSUME TypeOK, WatchInv, UNCHANGED <<sessions, handleOf, closing, handleToSession>>,
           UNCHANGED <<loop, call>>,
           NEW h \in Conn, NEW c \in Conn \cup {None},
           task[h].pc # "idle",
           task'[h].pc # "idle" => task'[h].sid = task[h].sid,
           \A g \in Conn : g # h => task'[g] = task[g],
           ReconnectWaits(h)' => task'[h].res = c /\ c # None,
           c = None => nextConn' = nextConn,
           c # None => c = nextConn /\ nextConn' = nextConn + 1,
           /\ loop = "on" /\ task[h].sid \in sessions /\ GivesHandle(h)
              => task'[h].sid = task[h].sid /\ GivesHandle(h)'
    PROVE  WatchInv'
<1>0. nextConn \in Int
  BY DEF TypeOK, BridgeTypeOK
<1>1. RecordInv'
  BY DEF WatchInv, RecordInv
<1>2. WatchedOrRebuilding'
  <2>1. ASSUME loop' = "on", NEW s \in sessions', handleToSession'[handleOf'[s]] # s
        PROVE  Rebuilding(s)'
    <3>1. PICK g \in Conn : task[g].sid = s /\ GivesHandle(g)
      BY <2>1 DEF WatchInv, WatchedOrRebuilding, Rebuilding, GivesHandle
    <3>2. task'[g].sid = s /\ GivesHandle(g)'
      BY <2>1, <3>1 DEF GivesHandle
    <3>3. QED
      BY <3>2 DEF Rebuilding, GivesHandle
  <2>2. QED
    BY <2>1 DEF WatchedOrRebuilding
<1>3. ASSUME NEW r \in Conn, Unclaimed(r) PROVE Unclaimed(r)'
  BY <1>3 DEF Unclaimed
<1>4. ASSUME NEW k \in Call, ConnectWaits(k)'
      PROVE  /\ ConnectWaits(k) /\ call'[k].res = call[k].res
             /\ call[k].res # None /\ call[k].res # c
  <2>1. ConnectWaits(k) /\ call'[k] = call[k]
    BY <1>4 DEF ConnectWaits
  <2>2. call[k] \in CallType /\ call[k].op = "connect"
    BY <2>1 DEF ConnectWaits, TypeOK, ManagerTypeOK
  <2>3. call[k].res \in Conn
    BY <2>2 DEF CallType, NoCall
  <2>4. call[k].res < nextConn
    BY <2>1 DEF WatchInv, ClaimInv
  <2>5. QED
    BY <1>0, <2>1, <2>3, <2>4 DEF Conn, None
<1>5. ASSUME NEW g \in Conn, ReconnectWaits(g)', g # h
      PROVE  /\ ReconnectWaits(g) /\ task'[g].res = task[g].res
             /\ task[g].res # None /\ task[g].res # c
  <2>1. ReconnectWaits(g) /\ task'[g] = task[g]
    BY <1>5 DEF ReconnectWaits
  <2>2. task[g].res \in Conn /\ task[g].res < nextConn
    BY <2>1, RunsTyped, RunTyped DEF ReconnectWaits, WatchInv, ClaimInv
  <2>3. QED
    BY <1>0, <2>1, <2>2
<1>6. /\ nextConn' \in Int /\ nextConn <= nextConn'
      /\ c # None => c \in Conn /\ c = nextConn /\ c < nextConn'
  BY <1>0
<1>7. \A h1, h2 \in Conn : task'[h1].res = c /\ task'[h2].res = c
          /\ ReconnectWaits(h1)' /\ ReconnectWaits(h2)' => h1 = h2
  BY <1>5
<1>8. \A g \in Conn : ReconnectWaits(g)' =>
          \/ ReconnectWaits(g) /\ task'[g].res = task[g].res /\ task[g].res # None
          \/ task'[g].res = c /\ c # None
  BY <1>5
<1>9. \A k \in Call : ConnectWaits(k)' => call'[k].res # c
  BY <1>4
<1>10. ClaimInv
  BY DEF WatchInv
<1>11. ClaimInv'
  BY <1>3, <1>4, <1>6, <1>7, <1>8, <1>9, <1>10, ClaimMoves
<1>12. QED
  BY <1>1, <1>2, <1>11 DEF WatchInv

LEMMA ConnectCallWatch ==
    ASSUME TypeOK, WatchInv, NEW k \in Call, NEW h \in Conn, ConnectCall(k, h)
    PROVE  WatchInv'
<1>0. nextConn \in Int
  BY DEF TypeOK, BridgeTypeOK
<1>1. /\ h = nextConn /\ nextConn' = nextConn + 1
      /\ UNCHANGED <<sessions, handleOf, closing, handleToSession, task, loop>>
      /\ call'[k].res = h /\ \A j \in Call : j # k => call'[j] = call[j]
  BY DEF ConnectCall, SshConnect, tables, TypeOK, ManagerTypeOK
<1>2. RecordInv' /\ WatchedOrRebuilding'
  BY <1>1 DEF WatchInv, RecordInv, WatchedOrRebuilding, Rebuilding, GivesHandle
<1>3. \A r \in Conn : Unclaimed(r) => Unclaimed(r)'
  BY <1>1 DEF Unclaimed
<1>4. ASSUME NEW j \in Call, ConnectWaits(j)', j # k
      PROVE  /\ ConnectWaits(j) /\ call'[j].res = call[j].res
             /\ call[j].res # None /\ call[j].res # h
  <2>1. ConnectWaits(j) /\ call'[j] = call[j]
    BY <1>1, <1>4 DEF ConnectWaits
  <2>2. call[j].res \in Conn /\ call[j].res < nextConn
    BY <2>1 DEF ConnectWaits, WatchInv, ClaimInv, TypeOK, ManagerTypeOK, CallType, NoCall
  <2>3. QED
    BY <1>0, <1>1, <2>1, <2>2
<1>5. ASSUME NEW g \in Conn, ReconnectWaits(g)'
      PROVE  /\ ReconnectWaits(g) /\ task'[g].res = task[g].res
             /\ task[g].res # None /\ task[g].res # h
  <2>1. ReconnectWaits(g) /\ task'[g] = task[g]
    BY <1>1, <1>5 DEF ReconnectWaits
  <2>2. task[g].res \in Conn /\ task[g].res < nextConn
    BY <2>1, RunsTyped, RunTyped DEF ReconnectWaits, WatchInv, ClaimInv
  <2>3. QED
    BY <1>0, <1>1, <2>1, <2>2
<1>6. nextConn' \in Int /\ nextConn <= nextConn' /\ h < nextConn' /\ h # None
  BY <1>0, <1>1
<1>7. \A k1, k2 \in Call : call'[k1].res = h /\ call'[k2].res = h
          /\ ConnectWaits(k1)' /\ ConnectWaits(k2)' => k1 = k2
  BY <1>4
<1>8. ClaimInv'
  BY <1>1, <1>3, <1>4, <1>5, <1>6, <1>7, ClaimMoves DEF WatchInv
<1>9. QED
  BY <1>2, <1>8 DEF WatchInv

(* A step that unmaps handles or ends records, and starts or ends runs, without a
   connection of its own: nothing unclaimed becomes claimed.                    *)
LEMMA ClaimKept ==
    ASSUME TypeOK, ClaimInv, nextConn' = nextConn, UNCHANGED <<handleOf, call>>,
           \A r \in Conn : handleToSession'[r] \in {handleToSession[r], None},
           \A h \in Conn : task'[h] # task[h] =>
               ~ReconnectWaits(h)' /\ (task'[h].pc = "idle" \/ handleToSession[h] # None)
    PROVE  ClaimInv'
<1>1. ASSUME NEW r \in Conn, Unclaimed(r) PROVE Unclaimed(r)'
  <2>1. task'[r].pc = "idle"
    BY <1>1 DEF Unclaimed
  <2>2. QED
    BY <1>1, <2>1 DEF Unclaimed
<1>2. \A k \in Call : ConnectWaits(k)' =>
          ConnectWaits(k) /\ call'[k].res = call[k].res /\ call[k].res # None
  BY DEF TypeOK, ManagerTypeOK, CallType, NoCall, ConnectWaits
<1>3. \A h \in Conn : ReconnectWaits(h)' =>
          ReconnectWaits(h) /\ task'[h].res = task[h].res /\ task[h].res # None
  BY DEF ReconnectWaits
<1>4. nextConn' \in Int /\ nextConn <= nextConn'
  BY DEF TypeOK, BridgeTypeOK
<1>5. QED
  BY <1>1, <1>2, <1>3, <1>4, ClaimMoves

(* A step that lands the connection d: it becomes the handle of record s, and of no
   other, while the runs only lose members.                                     *)
LEMMA ClaimLands ==
    ASSUME TypeOK, ClaimInv, nextConn' = nextConn,
           NEW d \in Conn, d < nextConn, NEW s \in Conn,
           handleOf' = [handleOf EXCEPT ![s] = d],
           handleToSession' = [handleToSession EXCEPT ![d] = s],
           s = d \/ handleOf[s] # None,
           \A h \in Conn : task[h].pc = "idle" => task'[h].pc = "idle",
           \A k \in Call : ConnectWaits(k)' =>
               ConnectWaits(k) /\ call'[k].res = call[k].res /\ call[k].res # d,
           \A h \in Conn : ReconnectWaits(h)' =>
               ReconnectWaits(h) /\ task'[h].res = task[h].res /\ task[h].res # d
    PROVE  ClaimInv'
<1>1. ASSUME NEW r \in Conn, Unclaimed(r), r # d PROVE Unclaimed(r)'
  BY <1>1 DEF Unclaimed, TypeOK, ManagerTypeOK
<1>2. ASSUME NEW k \in Call, ConnectWaits(k)'
      PROVE  /\ ConnectWaits(k) /\ call'[k].res = call[k].res /\ call[k].res # d
             /\ call'[k].res # None
  BY <1>2 DEF TypeOK, ManagerTypeOK, CallType, NoCall, ConnectWaits
<1>3. ASSUME NEW h \in Conn, ReconnectWaits(h)'
      PROVE  /\ ReconnectWaits(h) /\ task'[h].res = task[h].res /\ task[h].res # d
             /\ task'[h].res # None
  BY <1>3 DEF ReconnectWaits
<1>4. nextConn' \in Int /\ nextConn <= nextConn'
  BY DEF TypeOK, BridgeTypeOK
<1>5. QED
  BY <1>1, <1>2, <1>3, <1>4, ClaimMoves


LEMMA DisconnectWatch == ASSUME TypeOK, WatchInv, NEW s \in Conn, Disconnect(s) PROVE WatchInv'
<1>1. /\ nextConn' = nextConn /\ UNCHANGED <<handleOf, call, task, loop>>
      /\ sessions' = sessions \ {s}
      /\ closing' = [closing EXCEPT ![s] = s \in sessions \/ @]
      /\ handleToSession' = IF s \in sessions
                            THEN [handleToSession EXCEPT ![handleOf[s]] = None]
                            ELSE handleToSession
  BY DEF Disconnect, SshDisconnect
<1>2. \A r \in Conn : /\ handleToSession'[r] \in {handleToSession[r], None}
                      /\ s \notin sessions \/ r # handleOf[s]
                         => handleToSession'[r] = handleToSession[r]
  BY <1>1 DEF TypeOK, ManagerTypeOK
<1>3. ClaimInv'
  BY <1>1, <1>2, ClaimKept DEF WatchInv
<1>4. RecordInv'
  BY <1>1, <1>2 DEF WatchInv, RecordInv, TypeOK, ManagerTypeOK
<1>5. ASSUME NEW x \in sessions, x # s, handleToSession[handleOf[x]] = x
      PROVE  handleToSession'[handleOf'[x]] = x
  <2>1. x \in Conn /\ handleOf[x] \in Conn /\ (s \in sessions => handleOf[x] # handleOf[s])
    BY <1>5 DEF WatchInv, RecordInv, TypeOK, ManagerTypeOK
  <2>2. QED
    BY <1>1, <1>2, <1>5, <2>1
<1>6. WatchedOrRebuilding'
  BY <1>1, <1>5 DEF WatchInv, WatchedOrRebuilding, Rebuilding, GivesHandle
<1>7. QED
  BY <1>3, <1>4, <1>6 DEF WatchInv

LEMMA StartReconnectWatch ==
    ASSUME TypeOK, WatchInv, NEW h \in Conn, StartReconnect(h)
    PROVE  WatchInv'
<1> DEFINE s == handleToSession[h]
           run == Sleeping(s, Delays - 1, TabsOf(s))
<1>1. /\ nextConn' = nextConn /\ UNCHANGED <<sessions, handleOf, closing, call, loop>>
      /\ handleToSession' = [handleToSession EXCEPT ![handleOf[s]] = None]
      /\ task' = IF Draining THEN [task EXCEPT ![h] = run] ELSE task
      /\ s \in Conn /\ s \in sessions
  BY DEF StartReconnect, TakeEvent, Wakes, TypeOK, ManagerTypeOK
<1>2. run.pc = "sleep" /\ run.sid = s
  BY DEF Sleeping
<1> HIDE DEF run
<1>3. \A r \in Conn : /\ handleToSession'[r] \in {handleToSession[r], None}
                      /\ r # handleOf[s] => handleToSession'[r] = handleToSession[r]
  BY <1>1 DEF TypeOK, ManagerTypeOK
<1>4. \A g \in Conn : g # h => task'[g] = task[g]
  BY <1>1 DEF TypeOK, ManagerTypeOK
<1>5. /\ loop = "on" => task'[h] = run
      /\ task'[h] \in {run, task[h]}
  BY <1>1 DEF Draining, TypeOK, ManagerTypeOK
<1>6. ClaimInv'
  <2>1. \A g \in Conn : task'[g] # task[g] =>
            ~ReconnectWaits(g)' /\ (task'[g].pc = "idle" \/ handleToSession[g] # None)
    BY <1>1, <1>2, <1>4, <1>5 DEF ReconnectWaits
  <2>2. QED
    BY <1>1, <1>3, <2>1, ClaimKept DEF WatchInv
<1>7. handleOf[s] # None /\ handleOf[s] \in Conn
  BY <1>1 DEF WatchInv, RecordInv, TypeOK, ManagerTypeOK
<1>8. RecordInv'
  <2>1. \A g \in Conn : task'[g].pc # "idle" =>
            /\ handleOf[task'[g].sid] # None
            /\ handleToSession[g] # None => handleToSession[g] = task'[g].sid
    BY <1>2, <1>4, <1>5, <1>7 DEF WatchInv, RecordInv
  <2>2. QED
    BY <1>1, <1>3, <2>1 DEF WatchInv, RecordInv
<1>9. WatchedOrRebuilding'
  <2>1. ASSUME loop = "on", NEW x \in sessions, handleToSession'[handleOf[x]] # x
        PROVE  Rebuilding(x)'
    <3>1. CASE x = s
      BY <1>2, <1>5, <2>1, <3>1 DEF Rebuilding, GivesHandle
    <3>2. CASE x # s
      <4>1. handleOf[x] \in Conn /\ handleOf[x] # handleOf[s]
        BY <1>1, <3>2 DEF WatchInv, RecordInv, TypeOK, ManagerTypeOK
      <4>2. PICK g \in Conn : task[g].sid = x /\ GivesHandle(g)
        BY <1>3, <2>1, <4>1 DEF WatchInv, WatchedOrRebuilding, Rebuilding, GivesHandle
      <4>3. g # h
        BY <1>1, <3>2, <4>2 DEF WatchInv, RecordInv, GivesHandle
      <4>4. QED
        BY <1>4, <4>2, <4>3 DEF Rebuilding, GivesHandle
    <3>3. QED
      BY <3>1, <3>2
  <2>2. QED
    BY <1>1, <2>1 DEF WatchedOrRebuilding
<1>10. QED
  BY <1>6, <1>8, <1>9 DEF WatchInv

LEMMA ExhaustedWatch == ASSUME TypeOK, WatchInv, NEW h \in Conn, Exhausted(h) PROVE WatchInv'
<1> DEFINE s == task[h].sid
<1>1. /\ nextConn' = nextConn /\ UNCHANGED <<handleOf, closing, call, loop>>
      /\ handleToSession' = [handleToSession EXCEPT ![handleOf[s]] = None]
      /\ sessions' = sessions \ {s}
      /\ task' = [task EXCEPT ![h] = Idle]
  BY DEF Exhausted, bridgeVars
<1>2. s \in Conn /\ handleOf[s] # None /\ handleOf[s] \in Conn
  <2>1. task[h].pc \in {"connect", "open"}
    BY DEF Exhausted, Rejected
  <2>2. s \in Conn
    BY <2>1, RunsTyped, RunTyped
  <2>3. handleOf[s] # None
    BY <2>1 DEF WatchInv, RecordInv
  <2> QED
    BY <2>2, <2>3 DEF TypeOK, ManagerTypeOK
<1>3. \A r \in Conn : /\ handleToSession'[r] \in {handleToSession[r], None}
                      /\ r # handleOf[s] => handleToSession'[r] = handleToSession[r]
  BY <1>1 DEF TypeOK, ManagerTypeOK
<1>4. /\ \A g \in Conn : g # h => task'[g] = task[g]
      /\ task'[h].pc = "idle"
  BY <1>1 DEF Idle, TypeOK, ManagerTypeOK
<1>5. ClaimInv'
  <2>1. \A g \in Conn : task'[g] # task[g] =>
            ~ReconnectWaits(g)' /\ (task'[g].pc = "idle" \/ handleToSession[g] # None)
    BY <1>4 DEF ReconnectWaits
  <2>2. QED
    BY <1>1, <1>3, <2>1, ClaimKept DEF WatchInv
<1>6. RecordInv'
  BY <1>1, <1>3, <1>4 DEF WatchInv, RecordInv
<1>7. ASSUME loop = "on", NEW x \in sessions, x # s, handleToSession'[handleOf[x]] # x
      PROVE  Rebuilding(x)'
  <2>1. handleOf[x] \in Conn /\ handleOf[x] # handleOf[s]
    BY <1>2, <1>7 DEF WatchInv, RecordInv, TypeOK, ManagerTypeOK
  <2>2. PICK g \in Conn : task[g].sid = x /\ GivesHandle(g)
    BY <1>3, <1>7, <2>1 DEF WatchInv, WatchedOrRebuilding, Rebuilding, GivesHandle
  <2>3. QED
    BY <1>4, <1>7, <2>2 DEF Rebuilding, GivesHandle
<1>8. WatchedOrRebuilding'
  BY <1>1, <1>7 DEF WatchedOrRebuilding
<1>9. QED
  BY <1>5, <1>6, <1>8 DEF WatchInv

LEMMA ConnectReplyWatch ==
    ASSUME TypeOK, WatchInv, NEW k \in Call, ConnectReply(k)
    PROVE  WatchInv'
<1> DEFINE d == call[k].res
<1>1. /\ nextConn' = nextConn /\ UNCHANGED <<task, loop>>
      /\ sessions' = sessions \cup {d}
      /\ handleOf' = [handleOf EXCEPT ![d] = d]
      /\ closing' = [closing EXCEPT ![d] = FALSE]
      /\ handleToSession' = [handleToSession EXCEPT ![d] = d]
      /\ call' = [call EXCEPT ![k] = NoCall]
  BY DEF ConnectReply, bridgeVars
<1>2. ConnectWaits(k) /\ d \in Conn
  BY DEF ConnectReply, ConnectWaits, TypeOK, ManagerTypeOK, CallType, NoCall
<1>3. d < nextConn /\ Unclaimed(d)
  BY <1>2 DEF WatchInv, ClaimInv
<1>4. ASSUME NEW j \in Call, ConnectWaits(j)'
      PROVE  ConnectWaits(j) /\ call'[j].res = call[j].res /\ call[j].res # d
  <2>1. j # k
    BY <1>1, <1>4 DEF ConnectWaits, NoCall, TypeOK, ManagerTypeOK
  <2>2. call'[j] = call[j] /\ ConnectWaits(j)
    BY <1>1, <1>4, <2>1 DEF ConnectWaits, TypeOK, ManagerTypeOK
  <2>3. QED
    BY <1>2, <2>1, <2>2 DEF WatchInv, ClaimInv
<1>5. \A h \in Conn : ReconnectWaits(h)' =>
          ReconnectWaits(h) /\ task'[h].res = task[h].res /\ task[h].res # d
  BY <1>1, <1>2 DEF WatchInv, ClaimInv, ReconnectWaits
<1> HIDE DEF d
<1>6. ClaimInv'
  BY <1>1, <1>2, <1>3, <1>4, <1>5, ClaimLands DEF WatchInv
<1>7. \A s \in Conn : /\ s # d => handleOf'[s] = handleOf[s] /\ closing'[s] = closing[s]
                      /\ s # d => handleToSession'[s] = handleToSession[s]
                      /\ handleOf[s] # d
  BY <1>1, <1>3 DEF Unclaimed, TypeOK, ManagerTypeOK
<1>8. handleOf'[d] = d /\ handleToSession'[d] = d /\ ~closing'[d] /\ task'[d].pc = "idle"
  BY <1>1, <1>2, <1>3 DEF Unclaimed, TypeOK, ManagerTypeOK
<1>9. \A s \in sessions : s \in Conn
  BY DEF TypeOK, ManagerTypeOK
<1>10. RecordInv'
  <2>1. \A s \in sessions' : handleOf'[s] # None /\ ~closing'[s]
    BY <1>1, <1>2, <1>7, <1>8, <1>9 DEF WatchInv, RecordInv
  <2>2. \A s1, s2 \in Conn : s1 # s2 /\ handleOf'[s1] # None => handleOf'[s1] # handleOf'[s2]
    BY <1>7, <1>8 DEF WatchInv, RecordInv
  <2>3. \A h \in Conn : task[h].pc # "idle" => task[h].sid \in Conn
    BY RunsTyped, RunTyped
  <2>4. \A h \in Conn : task'[h].pc # "idle" => handleOf'[task'[h].sid] # None
    BY <1>1, <1>2, <1>7, <1>8, <2>3 DEF WatchInv, RecordInv
  <2>5. \A h \in Conn : task'[h].pc # "idle" /\ handleToSession'[h] # None
                           => handleToSession'[h] = task'[h].sid
    BY <1>1, <1>7, <1>8 DEF WatchInv, RecordInv
  <2>6. QED
    BY <2>1, <2>2, <2>4, <2>5 DEF RecordInv
<1>11. ASSUME NEW x \in sessions, x # d, handleToSession[handleOf[x]] = x
       PROVE  handleToSession'[handleOf'[x]] = x
  <2>1. handleOf[x] \in Conn
    BY <1>9 DEF WatchInv, RecordInv, TypeOK, ManagerTypeOK
  <2>2. QED
    BY <1>7, <1>9, <1>11, <2>1
<1>12. WatchedOrRebuilding'
  BY <1>1, <1>8, <1>11 DEF WatchInv, WatchedOrRebuilding, Rebuilding, GivesHandle
<1>13. QED
  BY <1>6, <1>10, <1>12 DEF WatchInv

(* After Rebuild, run h opens tabs for the same session or has ended. *)
LEMMA RebuildRun ==
    ASSUME TypeOK, NEW h \in Conn, NEW hd \in Conn, NEW todo \in SUBSET Tab,
           NEW res \in Chan \cup {None}, Rebuild(h, hd, todo, res)
    PROVE  /\ nextConn' = nextConn
           /\ \/ task'[h].pc = "open" /\ task'[h].sid = task[h].sid
              \/ task'[h].pc = "idle"
           /\ \A g \in Conn : g # h => task'[g] = task[g]
<1>1. CASE /\ task' = [task EXCEPT ![h] = Idle]
           /\ UNCHANGED bridgeVars
  BY <1>1 DEF Idle, bridgeVars, TypeOK, ManagerTypeOK
<1>2. CASE OpenNext(h, hd, todo, res)
  <2>1. PICK t \in todo :
          /\ IF res = None THEN UNCHANGED bridgeVars
                           ELSE SshOpenShell(hd, tabSize[t], res)
          /\ task' = [task EXCEPT ![h].pc = "open", ![h].hd = hd, ![h].cur = t,
                                  ![h].todo = todo \ {t}, ![h].res = res]
    BY <1>2 DEF OpenNext
  <2> DEFINE run == [task[h] EXCEPT !.pc = "open", !.hd = hd, !.cur = t,
                                    !.todo = todo \ {t}, !.res = res]
  <2>2. task' = [task EXCEPT ![h] = run]
    BY <2>1
  <2>3. run.pc = "open" /\ run.sid = task[h].sid
    BY RunsTyped, RunTyped
  <2>4. task'[h] = run /\ \A g \in Conn : g # h => task'[g] = task[g]
    BY <2>2 DEF TypeOK, ManagerTypeOK
  <2> HIDE DEF run
  <2>5. nextConn' = nextConn
    BY <2>1 DEF bridgeVars, SshOpenShell
  <2>6. QED
    BY <2>3, <2>4, <2>5
<1>3. QED
  BY <1>1, <1>2 DEF Rebuild

LEMMA ReconnectedWatch ==
    ASSUME TypeOK, WatchInv, NEW h \in Conn, NEW res \in Chan \cup {None}, Reconnected(h, res)
    PROVE  WatchInv'
<1> DEFINE d == task[h].res
           s == task[h].sid
<1>1. /\ UNCHANGED <<sessions, closing, call, loop>>
      /\ handleOf' = [handleOf EXCEPT ![s] = d]
      /\ handleToSession' = [handleToSession EXCEPT ![d] = s]
      /\ Rebuild(h, d, task[h].mine, res)
  BY DEF Reconnected
<1>2. /\ ReconnectWaits(h) /\ task[h].pc = "connect" /\ d \in Conn /\ s \in Conn
      /\ task[h].mine \in SUBSET Tab
  <2>1. task[h] \in TaskType /\ task[h].pc = "connect" /\ task[h].res # None
    BY DEF Reconnected, TypeOK, ManagerTypeOK
  <2>2. d \in Conn /\ s \in Conn /\ task[h].mine \in SUBSET Tab
    BY <2>1 DEF TaskType, Idle
  <2>3. QED
    BY <2>1, <2>2 DEF ReconnectWaits
<1>3. /\ nextConn' = nextConn
      /\ \/ task'[h].pc = "open" /\ task'[h].sid = s
         \/ task'[h].pc = "idle"
      /\ \A g \in Conn : g # h => task'[g] = task[g]
  BY <1>1, <1>2, RebuildRun
<1>4. d < nextConn /\ Unclaimed(d) /\ handleOf[s] # None
  BY <1>2 DEF WatchInv, ClaimInv, RecordInv
<1>5. \A k \in Call : ConnectWaits(k)' =>
          ConnectWaits(k) /\ call'[k].res = call[k].res /\ call[k].res # d
  BY <1>1, <1>2 DEF WatchInv, ClaimInv, ConnectWaits
<1>6. \A g \in Conn : ReconnectWaits(g)' =>
          ReconnectWaits(g) /\ task'[g].res = task[g].res /\ task[g].res # d
  <2>1. ~ReconnectWaits(h)'
    BY <1>3 DEF ReconnectWaits
  <2>2. QED
    BY <1>2, <1>3, <2>1 DEF WatchInv, ClaimInv, ReconnectWaits
<1>7. \A g \in Conn : task[g].pc = "idle" => task'[g].pc = "idle"
  BY <1>2, <1>3
<1>8. task[h].pc \in {"sleep", "connect"} /\ task'[d].pc = "idle"
  BY <1>2, <1>4, <1>7 DEF Unclaimed
<1>9. \A g \in Conn : task'[g].pc # "idle" => task[g].pc # "idle" /\ task'[g].sid = task[g].sid
  BY <1>2, <1>3
<1> HIDE DEF d, s
<1>10. ClaimInv'
  BY <1>1, <1>2, <1>3, <1>4, <1>5, <1>6, <1>7, ClaimLands DEF WatchInv
<1>11. /\ \A x \in Conn : x # s => handleOf'[x] = handleOf[x]
       /\ \A x \in Conn : x # d => handleToSession'[x] = handleToSession[x]
       /\ \A x \in Conn : handleOf[x] # d
       /\ handleOf'[s] = d /\ handleToSession'[d] = s
  BY <1>1, <1>2, <1>4 DEF Unclaimed, TypeOK, ManagerTypeOK
<1>12. RecordInv'
  <2>1. \A x \in Conn : handleOf[x] # None => handleOf'[x] # None
    BY <1>2, <1>11
  <2>2. \A x \in sessions' : handleOf'[x] # None /\ ~closing'[x]
    BY <1>1, <2>1 DEF WatchInv, RecordInv, TypeOK, ManagerTypeOK
  <2>3. \A s1, s2 \in Conn : s1 # s2 /\ handleOf'[s1] # None => handleOf'[s1] # handleOf'[s2]
    BY <1>11 DEF WatchInv, RecordInv
  <2>4. \A g \in Conn : task[g].pc # "idle" => task[g].sid \in Conn
    BY RunsTyped, RunTyped
  <2>5. \A g \in Conn : task'[g].pc # "idle" => handleOf'[task'[g].sid] # None
    BY <1>9, <2>1, <2>4 DEF WatchInv, RecordInv
  <2>6. \A g \in Conn : task'[g].pc # "idle" /\ handleToSession'[g] # None
                           => handleToSession'[g] = task'[g].sid
    BY <1>8, <1>9, <1>11 DEF WatchInv, RecordInv
  <2>7. QED
    BY <2>2, <2>3, <2>5, <2>6 DEF RecordInv
<1>13. WatchedOrRebuilding'
  <2>1. ASSUME loop = "on", NEW x \in sessions, handleToSession'[handleOf'[x]] # x
        PROVE  Rebuilding(x)'
    <3>1. x \in Conn /\ x # s /\ handleOf[x] \in Conn
      BY <1>11, <2>1 DEF WatchInv, RecordInv, TypeOK, ManagerTypeOK
    <3>2. PICK g \in Conn : task[g].sid = x /\ GivesHandle(g)
      BY <1>11, <2>1, <3>1 DEF WatchInv, WatchedOrRebuilding, Rebuilding, GivesHandle
    <3>3. g # h
      BY <3>1, <3>2 DEF s
    <3>4. QED
      BY <1>3, <3>2, <3>3 DEF Rebuilding, GivesHandle
  <2>2. QED
    BY <1>1, <2>1 DEF WatchedOrRebuilding
<1>14. QED
  BY <1>10, <1>12, <1>13 DEF WatchInv


LEMMA ReconnectWatch ==
    ASSUME TypeOK, WatchInv, NEW h \in Conn, ReconnectStep(h)
    PROVE  WatchInv'
<1>1. CASE WakeAborted(h)
  <2>1. /\ UNCHANGED <<sessions, handleOf, closing, handleToSession, loop, call>>
        /\ nextConn' = nextConn /\ task[h].pc = "sleep" /\ closing[task[h].sid]
        /\ task' = [task EXCEPT ![h] = Idle]
    BY <1>1 DEF WakeAborted, tables, bridgeVars
  <2>2. task'[h].pc = "idle" /\ \A g \in Conn : g # h => task'[g] = task[g]
    BY <2>1 DEF Idle, TypeOK, ManagerTypeOK
  <2>3. task[h].sid \notin sessions
    BY <2>1 DEF WatchInv, RecordInv
  <2>4. ~ReconnectWaits(h)'
    BY <2>2 DEF ReconnectWaits
  <2>5. None \in Conn \cup {None} /\ task[h].pc # "idle"
    BY <2>1
  <2>6. QED
    BY <2>1, <2>2, <2>3, <2>4, <2>5, WatchRunStep
<1>2. ASSUME NEW res \in Conn \cup {None}, WakeConnect(h, res) PROVE WatchInv'
  <2>1. /\ UNCHANGED <<sessions, handleOf, closing, handleToSession, loop, call>>
        /\ res = None => nextConn' = nextConn
        /\ res # None => res = nextConn /\ nextConn' = nextConn + 1
        /\ task[h].pc = "sleep"
        /\ task' = [task EXCEPT ![h] = [task[h] EXCEPT !.pc = "connect", !.res = res]]
    BY <1>2 DEF WakeConnect, tables, bridgeVars, SshConnect
  <2>2. /\ task'[h] = [task[h] EXCEPT !.pc = "connect", !.res = res]
        /\ \A g \in Conn : g # h => task'[g] = task[g]
    BY <2>1 DEF TypeOK, ManagerTypeOK
  <2>3. task'[h].pc = "connect" /\ task'[h].res = res /\ task'[h].sid = task[h].sid
    BY <2>2, RunsTyped, RunTyped
  <2>4. (ReconnectWaits(h)' => task'[h].res = res /\ res # None) /\ GivesHandle(h)'
    BY <2>3 DEF ReconnectWaits, GivesHandle
  <2>5. QED
    BY <2>1, <2>2, <2>3, <2>4, WatchRunStep
<1>3. ASSUME NEW res \in Chan \cup {None}, TabReopened(h, res) PROVE WatchInv'
  <2>1. /\ UNCHANGED <<sessions, handleOf, closing, handleToSession, loop, call>>
        /\ task[h].pc = "open"
        /\ Rebuild(h, task[h].hd, task[h].todo, res)
    BY <1>3 DEF TabReopened
  <2>2. task[h].hd \in Conn /\ task[h].todo \in SUBSET Tab
    BY <2>1, RunsTyped, RunTyped
  <2>3. /\ nextConn' = nextConn
        /\ \/ task'[h].pc = "open" /\ task'[h].sid = task[h].sid
           \/ task'[h].pc = "idle"
        /\ \A g \in Conn : g # h => task'[g] = task[g]
    BY <2>1, <2>2, RebuildRun
  <2>4. /\ ~ReconnectWaits(h)' /\ None \in Conn \cup {None} /\ task[h].pc # "idle"
        /\ ~GivesHandle(h)
    BY <2>1, <2>3 DEF ReconnectWaits, GivesHandle
  <2>5. QED
    BY <2>1, <2>3, <2>4, WatchRunStep
<1>4. CASE RetryLater(h)
  <2> DEFINE run == Sleeping(task[h].sid, task[h].left - 1, task[h].mine)
  <2>1. /\ UNCHANGED <<sessions, handleOf, closing, handleToSession, loop, call>>
        /\ nextConn' = nextConn /\ task[h].pc \in {"connect", "open"}
        /\ task' = [task EXCEPT ![h] = IF Draining THEN run ELSE Idle]
    BY <1>4 DEF RetryLater, Rejected, tables, bridgeVars
  <2>2. run.pc = "sleep" /\ run.sid = task[h].sid
    BY DEF Sleeping
  <2> HIDE DEF run
  <2>3. /\ \A g \in Conn : g # h => task'[g] = task[g]
        /\ task'[h] = IF Draining THEN run ELSE Idle
    BY <2>1 DEF TypeOK, ManagerTypeOK
  <2>4. /\ task'[h].pc # "idle" => task'[h].sid = task[h].sid
        /\ loop = "on" => task'[h].sid = task[h].sid /\ GivesHandle(h)'
        /\ ~ReconnectWaits(h)'
    BY <2>2, <2>3 DEF Draining, Idle, ReconnectWaits, GivesHandle
  <2>5. None \in Conn \cup {None} /\ task[h].pc # "idle"
    BY <2>1
  <2>6. QED
    BY <2>1, <2>3, <2>4, <2>5, WatchRunStep
<1>5. QED
  BY <1>1, <1>2, <1>3, <1>4, ReconnectedWatch, ExhaustedWatch DEF ReconnectStep

LEMMA CallerWatch == ASSUME TypeOK, WatchInv, Caller PROVE WatchInv'
<1>1. ASSUME NEW k \in Call, NEW s \in Conn, NEW size \in Size, NEW c \in Chan,
             OpenTabCall(k, s, size, c)
      PROVE  WatchInv'
  <2>1. /\ UNCHANGED <<sessions, handleOf, closing, handleToSession, task>>
        /\ nextConn' = nextConn /\ loop' = loop
        /\ call' = [call EXCEPT ![k] = [op |-> "openTab", sid |-> s, size |-> size, res |-> c]]
    BY <1>1 DEF OpenTabCall, SshOpenShell, tables
  <2>2. \A j \in Call : ConnectWaits(j)' => ConnectWaits(j) /\ call'[j] = call[j]
    BY <2>1 DEF ConnectWaits, TypeOK, ManagerTypeOK
  <2>3. QED
    BY <2>1, <2>2, WatchUntouched
<1>2. ASSUME NEW t \in Tab, CloseTab(t) PROVE WatchInv'
  <2>1. /\ UNCHANGED <<sessions, handleOf, closing, handleToSession, task>>
        /\ nextConn' = nextConn /\ loop' = loop /\ call' = call
    BY <1>2 DEF CloseTab, SshCloseChannel, tables, bridgeVars
  <2>2. QED
    BY <2>1, WatchUntouched DEF ConnectWaits
<1>3. ASSUME NEW t \in Tab, NEW size \in Size, ResizeTab(t, size) PROVE WatchInv'
  <2>1. /\ UNCHANGED <<sessions, handleOf, closing, handleToSession, task>>
        /\ nextConn' = nextConn /\ loop' = loop /\ call' = call
    BY <1>3 DEF ResizeTab, SshResize, tables, bridgeVars
  <2>2. QED
    BY <2>1, WatchUntouched DEF ConnectWaits
<1>4. CASE Stop \/ Start
  <2>1. /\ UNCHANGED <<sessions, handleOf, closing, handleToSession, task>>
        /\ nextConn' = nextConn /\ loop' # "on" /\ call' = call
    BY <1>4 DEF Stop, Start, tables, bridgeVars
  <2>2. QED
    BY <2>1, WatchUntouched DEF ConnectWaits
<1>5. QED
  BY <1>1, <1>2, <1>3, <1>4, ConnectCallWatch, DisconnectWatch DEF Caller

LEMMA ReplyWatch == ASSUME TypeOK, WatchInv, NEW k \in Call, Reply(k) PROVE WatchInv'
<1>1. CASE OpenTabReply(k)
  <2>1. /\ UNCHANGED <<sessions, handleOf, closing, handleToSession, task>>
        /\ nextConn' = nextConn /\ loop' = loop
        /\ call' = [call EXCEPT ![k] = NoCall]
    BY <1>1 DEF OpenTabReply, tables, bridgeVars
  <2>2. \A j \in Call : ConnectWaits(j)' => ConnectWaits(j) /\ call'[j] = call[j]
    BY <2>1 DEF ConnectWaits, NoCall, TypeOK, ManagerTypeOK
  <2>3. QED
    BY <2>1, <2>2, WatchUntouched
<1>2. QED
  BY <1>1, ConnectReplyWatch DEF Reply

LEMMA HandleEventWatch == ASSUME TypeOK, WatchInv, HandleEvent PROVE WatchInv'
<1>1. CASE HandleChannelClosed \/ IgnoreSessionClosed
  <2>1. /\ UNCHANGED <<sessions, handleOf, closing, handleToSession, task>>
        /\ nextConn' = nextConn /\ loop' = loop /\ call' = call
    BY <1>1 DEF HandleChannelClosed, IgnoreSessionClosed, TakeEvent, tables
  <2>2. QED
    BY <2>1, WatchUntouched DEF ConnectWaits
<1>2. QED
  BY <1>1, StartReconnectWatch DEF HandleEvent

LEMMA NextWatch == TypeOK /\ WatchInv /\ [Next]_vars => WatchInv'
<1> SUFFICES ASSUME TypeOK, WatchInv, [Next]_vars PROVE WatchInv'
  OBVIOUS
<1>1. CASE LoopExit \/ Network \/ UNCHANGED vars
  <2>1. /\ UNCHANGED <<sessions, handleOf, closing, handleToSession, task>>
        /\ nextConn' = nextConn /\ call' = call /\ (loop' = "on" => loop = "on")
    BY <1>1
    DEF LoopExit, Network, NetworkDrop, SilentDrop, DisconnectReported, PumpEnds, vars, tables,
        bridgeVars
  <2>2. QED
    BY <2>1, WatchUntouched DEF ConnectWaits
<1>2. ASSUME NEW h \in Conn, Published(h) PROVE WatchInv'
  <2>1. /\ UNCHANGED <<sessions, handleOf, closing, handleToSession, task>>
        /\ nextConn' = nextConn /\ call' = call /\ loop' = loop
    BY <1>2 DEF Published, Publish, tables
  <2>2. QED
    BY <2>1, WatchUntouched DEF ConnectWaits
<1>3. ASSUME NEW h \in Conn, Hangs(h) PROVE WatchInv'
  <2>1. /\ UNCHANGED <<sessions, handleOf, closing, handleToSession>>
        /\ UNCHANGED <<loop, call>> /\ nextConn' = nextConn
    BY <1>3 DEF Hangs, tables, bridgeVars
  <2>2. /\ task[h].pc # "idle" /\ task'[h].sid = task[h].sid
        /\ \A g \in Conn : g # h => task'[g] = task[g]
        /\ ~ReconnectWaits(h)'
        /\ GivesHandle(h) => GivesHandle(h)'
    BY <1>3, HangsRun DEF ReconnectWaits, GivesHandle
  <2>3. None \in Conn \cup {None}
    OBVIOUS
  <2>4. QED
    BY <2>1, <2>2, <2>3, WatchRunStep
<1>4. QED
  BY <1>1, <1>2, <1>3, CallerWatch, ReplyWatch, HandleEventWatch, ReconnectWatch DEF Next

LEMMA InitWatch == Init => WatchInv
BY DEF Init, BridgeInit, WatchInv, ClaimInv, RecordInv, Unclaimed, ConnectWaits,
       ReconnectWaits, WatchedOrRebuilding, Rebuilding, GivesHandle, NoCall, Idle

(* While the loop runs, every open session notices the close of the handle it uses,
   or has a reconnect under way that will give it another handle or end it.     *)
THEOREM Watching == Spec => []WatchedOrRebuilding
<1>1. WatchInv => WatchedOrRebuilding
  BY DEF WatchInv
<1>2. QED
  BY <1>1, InitWatch, NextWatch, TypeCorrect, PTL DEF Spec

----------------------------------------------------------------------------
(* The state of an open session is set when it opens and removed only with it. *)
LEMMA NextHasState == TypeOK /\ OpenHasState /\ [Next]_vars => OpenHasState'
<1> SUFFICES ASSUME TypeOK, OpenHasState, [Next]_vars PROVE OpenHasState'
  OBVIOUS
<1>1. ASSUME UNCHANGED <<sessions, sessionState>> PROVE OpenHasState'
  BY <1>1 DEF OpenHasState
<1>2. CASE UNCHANGED vars \/ LoopExit \/ Network \/ \E h \in Conn : Hangs(h) \/ Published(h)
  BY <1>1, <1>2 DEF vars, tables, LoopExit, Network, Hangs, Published
<1>3. CASE Caller
  <2>1. ASSUME NEW s \in Conn, Disconnect(s) PROVE OpenHasState'
    BY <2>1 DEF Disconnect, OpenHasState, TypeOK, ManagerTypeOK
  <2>2. QED
    BY <1>1, <1>3, <2>1
    DEF Caller, ConnectCall, OpenTabCall, CloseTab, ResizeTab, Stop, Start, tables
<1>4. ASSUME NEW k \in Call, Reply(k) PROVE OpenHasState'
  <2>1. CASE ConnectReply(k)
    <3>1. call[k].res \in Conn
      BY <2>1 DEF ConnectReply, TypeOK, ManagerTypeOK, CallType, NoCall
    <3>2. /\ sessions' = sessions \cup {call[k].res}
          /\ sessionState' = [sessionState EXCEPT ![call[k].res] = "connected"]
      BY <2>1 DEF ConnectReply
    <3>3. QED
      BY <3>1, <3>2 DEF OpenHasState, TypeOK, ManagerTypeOK
  <2>2. QED
    BY <1>1, <1>4, <2>1 DEF Reply, OpenTabReply, tables
<1>5. CASE HandleEvent
  <2>1. ASSUME NEW h \in Conn, StartReconnect(h) PROVE OpenHasState'
    BY <2>1 DEF StartReconnect, OpenHasState, TypeOK, ManagerTypeOK
  <2>2. QED
    BY <1>1, <1>5, <2>1 DEF HandleEvent, HandleChannelClosed, IgnoreSessionClosed, tables
<1>6. ASSUME NEW h \in Conn, ReconnectStep(h) PROVE OpenHasState'
  <2>1. ASSUME NEW hd, NEW todo, NEW res, Rebuild(h, hd, todo, res), UNCHANGED sessions
        PROVE  OpenHasState'
    BY <2>1 DEF Rebuild, OpenHasState, TypeOK, ManagerTypeOK
  <2>2. CASE Exhausted(h)
    BY <2>2 DEF Exhausted, OpenHasState, TypeOK, ManagerTypeOK
  <2>3. ASSUME NEW res, Reconnected(h, res) \/ TabReopened(h, res) PROVE OpenHasState'
    BY <2>1, <2>3 DEF Reconnected, TabReopened
  <2>4. QED
    BY <1>1, <1>6, <2>2, <2>3 DEF ReconnectStep, WakeAborted, WakeConnect, RetryLater, tables
<1>7. QED
  BY <1>2, <1>3, <1>4, <1>5, <1>6 DEF Next

(* An open session always has a state to show, however many reconnects of it or
   of its earlier handles overlap.                                              *)
THEOREM StateShown == Spec => []OpenHasState
<1>1. Init => OpenHasState
  BY DEF Init, OpenHasState
<1>2. QED
  BY <1>1, NextHasState, TypeCorrect, PTL DEF Spec

----------------------------------------------------------------------------
(* Reports.  A handle that can still wake a session, or is on its way to, has at
   most one report of its close ahead: the transport's, while it is up, or the one
   in the queue; and none once its run has started.  The second report a handle can
   have, the one a disconnect owes, is owed only when no session is left to wake,
   which needs that a stable id maps to itself or to nothing.                   *)
Reported(h) == \E i \in 1 .. Len(events) : events[i] = SessionClosed(h)
ReportedOnce(h) ==
    \A i, j \in 1 .. Len(events) :
        events[i] = SessionClosed(h) /\ events[j] = SessionClosed(h) => i = j
OneReport(h) ==
    /\ ReportedOnce(h)
    /\ h \in up => ~Reported(h)
    /\ task[h].pc # "idle" => ~Reported(h) /\ h \notin up

(* The reply of the connect that made h is still on its way. *)
Unpublished(h) ==
    \/ \E k \in Call : call[k].op = "connect" /\ call[k].res = h
    \/ \E g \in Conn : task[g].pc = "connect" /\ task[g].res = h

Live(h) == Unpublished(h) \/ Wakes(h)

MapInv ==
    /\ \A h \in Conn : handleToSession[h] # None => handleOf[handleToSession[h]] # None
    /\ \A s \in Conn : handleOf[s] # None => handleToSession[s] \in {None, s}

ReportInv ==
    /\ MapInv
    /\ \A h \in Conn : Live(h) => OneReport(h)
    /\ \A h \in Conn : h >= nextConn => h \notin up /\ ~Reported(h)
    /\ \A h \in leaving : h < nextConn /\ ~Live(h)

(* Taking the oldest event reports nothing new, and a report taken is not there
   any more if it was the only one.                                             *)
LEMMA EventTaken ==
    ASSUME TypeOK, events # <<>>, events' = Tail(events), NEW h \in Conn
    PROVE  /\ Reported(h)' => Reported(h)
           /\ ReportedOnce(h) => ReportedOnce(h)'
           /\ Head(events) = SessionClosed(h) => Reported(h)
           /\ Head(events) = SessionClosed(h) /\ ReportedOnce(h) => ~Reported(h)'
<1>1. /\ Len(events) \in Nat /\ Len(events) >= 1 /\ Len(events') = Len(events) - 1
      /\ \A i \in 1 .. Len(events') : events'[i] = events[i + 1]
      /\ Head(events) = events[1]
  BY DEF TypeOK, BridgeTypeOK
<1>2. QED
  BY <1>1 DEF Reported, ReportedOnce

(* A new event is the only report of a handle that had none. *)
LEMMA EventPushed ==
    ASSUME TypeOK, NEW e \in Event, Push(e), NEW h \in Conn
    PROVE  /\ Reported(h)' => Reported(h) \/ e = SessionClosed(h)
           /\ ReportedOnce(h) /\ e # SessionClosed(h) => ReportedOnce(h)'
           /\ ~Reported(h) => ReportedOnce(h)'
<1>1. /\ Len(events) \in Nat /\ Len(events') = Len(events) + 1
      /\ \A i \in 1 .. Len(events) : events'[i] = events[i]
      /\ events'[Len(events) + 1] = e
  BY DEF Push, TypeOK, BridgeTypeOK
<1>2. QED
  BY <1>1 DEF Reported, ReportedOnce

(* A connection whose reply is on its way belongs to nobody. *)
LEMMA UnpublishedUnclaimed ==
    ASSUME TypeOK, WatchInv, NEW h \in Conn, Unpublished(h)
    PROVE  h < nextConn /\ Unclaimed(h)
<1>1. CASE \E k \in Call : call[k].op = "connect" /\ call[k].res = h
  BY <1>1 DEF WatchInv, ClaimInv, ConnectWaits, Unclaimed
<1>2. CASE \E g \in Conn : task[g].pc = "connect" /\ task[g].res = h
  BY <1>2 DEF WatchInv, ClaimInv, ReconnectWaits, Unclaimed
<1>3. QED
  BY <1>1, <1>2 DEF Unpublished

(* A live handle has been issued. *)
LEMMA LiveIssued ==
    ASSUME TypeOK, WatchInv, NEW h \in Conn, Live(h)
    PROVE  h < nextConn
<1>1. CASE Unpublished(h)
  BY <1>1, UnpublishedUnclaimed
<1>2. CASE Wakes(h)
  BY <1>2 DEF Wakes, WatchInv, ClaimInv, Unclaimed, TypeOK, BridgeTypeOK
<1>3. QED
  BY <1>1, <1>2 DEF Live

(* With no new connect in flight, no connection becomes unpublished. *)
LEMMA NoNewWaits ==
    ASSUME \A k \in Call : ConnectWaits(k)' => ConnectWaits(k) /\ call'[k].res = call[k].res,
           \A g \in Conn : ReconnectWaits(g)' => ReconnectWaits(g) /\ task'[g].res = task[g].res,
           NEW h \in Conn, Unpublished(h)'
    PROVE  Unpublished(h)
BY DEF Unpublished, ConnectWaits, ReconnectWaits

(* A step that brings no report, no connection and no run of its own. *)
LEMMA ReportKept ==
    ASSUME TypeOK, ReportInv, MapInv',
           nextConn' = nextConn, up' \subseteq up, leaving' \subseteq leaving,
           \A h \in Conn : Reported(h)' => Reported(h),
           \A h \in Conn : ReportedOnce(h) => ReportedOnce(h)',
           \A h \in Conn : task'[h].pc # "idle" => task[h].pc # "idle",
           \A h \in Conn : Live(h)' => Live(h)
    PROVE  ReportInv'
<1>1. ASSUME NEW h \in Conn, Live(h)' PROVE OneReport(h)'
  BY <1>1 DEF ReportInv, OneReport
<1>2. \A h \in Conn : h >= nextConn' => h \notin up' /\ ~Reported(h)'
  BY DEF ReportInv
<1>3. \A h \in leaving' : h < nextConn' /\ ~Live(h)'
  BY DEF ReportInv, TypeOK, BridgeTypeOK
<1>4. QED
  BY <1>1, <1>2, <1>3 DEF ReportInv

(* A step that makes the connection c, nobody's yet. *)
LEMMA ConnectionIssued ==
    ASSUME TypeOK, WatchInv, ReportInv, MapInv', NEW c \in Conn, SshConnect(c),
           \A h \in Conn : task'[h].pc # "idle" => task[h].pc # "idle",
           \A h \in Conn : h # c /\ Live(h)' => Live(h)
    PROVE  ReportInv'
<1>0. nextConn \in Int
  BY DEF TypeOK, BridgeTypeOK
<1>1. /\ c = nextConn /\ nextConn' = nextConn + 1 /\ events' = events
      /\ up' \subseteq up \cup {c} /\ leaving' = leaving
  BY DEF SshConnect
<1>2. c \notin up /\ ~Reported(c) /\ task[c].pc = "idle"
  BY <1>0, <1>1 DEF ReportInv, WatchInv, ClaimInv, Unclaimed
<1>3. \A h \in Conn : (Reported(h)' <=> Reported(h)) /\ (ReportedOnce(h)' <=> ReportedOnce(h))
  BY <1>1 DEF Reported, ReportedOnce
<1>4. OneReport(c)'
  <2>1. ReportedOnce(c)
    BY <1>2 DEF Reported, ReportedOnce
  <2>2. QED
    BY <1>2, <1>3, <2>1 DEF OneReport
<1>5. ASSUME NEW h \in Conn, h # c, Live(h)' PROVE OneReport(h)'
  <2>1. OneReport(h) /\ (h \in up' => h \in up)
    BY <1>1, <1>5 DEF ReportInv
  <2>2. QED
    BY <1>3, <2>1 DEF OneReport
<1>6. ASSUME NEW h \in Conn, h >= nextConn' PROVE h \notin up' /\ ~Reported(h)'
  <2>1. h >= nextConn /\ h # c
    BY <1>0, <1>1, <1>6
  <2>2. QED
    BY <1>1, <1>3, <2>1 DEF ReportInv
<1>7. ASSUME NEW h \in leaving' PROVE h < nextConn' /\ ~Live(h)'
  <2>1. h \in Conn /\ h < nextConn /\ ~Live(h)
    BY <1>1, <1>7 DEF ReportInv, TypeOK, BridgeTypeOK
  <2>2. QED
    BY <1>0, <1>1, <2>1
<1>8. QED
  BY <1>4, <1>5, <1>6, <1>7 DEF ReportInv

(* A step that leaves the tables of handles alone. *)
LEMMA TablesKept ==
    ASSUME TypeOK, ReportInv, UNCHANGED <<sessions, handleOf, closing, handleToSession>>,
           \A k \in Call : ConnectWaits(k)' => ConnectWaits(k) /\ call'[k].res = call[k].res,
           \A g \in Conn : ReconnectWaits(g)' => ReconnectWaits(g) /\ task'[g].res = task[g].res
    PROVE  MapInv' /\ \A h \in Conn : Live(h)' => Live(h)
<1>1. MapInv'
  BY DEF ReportInv, MapInv
<1>2. \A h \in Conn : Wakes(h)' => Wakes(h)
  BY DEF Wakes
<1>3. \A h \in Conn : Unpublished(h)' => Unpublished(h)
  BY NoNewWaits
<1>4. QED
  BY <1>1, <1>2, <1>3 DEF Live

LEMMA ReplyReport ==
    ASSUME TypeOK, WatchInv, ReportInv, NEW k \in Call, Reply(k)
    PROVE  ReportInv'
<1>1. /\ UNCHANGED <<nextConn, up, leaving, events, task>>
      /\ call' = [call EXCEPT ![k] = NoCall]
  BY DEF Reply, ConnectReply, OpenTabReply, bridgeVars
<1>2. \A j \in Call : ConnectWaits(j)' =>
          ConnectWaits(j) /\ call'[j].res = call[j].res /\ j # k
  BY <1>1 DEF ConnectWaits, NoCall, TypeOK, ManagerTypeOK
<1>3. \A g \in Conn : ReconnectWaits(g)' => ReconnectWaits(g) /\ task'[g].res = task[g].res
  BY <1>1 DEF ReconnectWaits
<1>4. \A h \in Conn : (Reported(h)' <=> Reported(h)) /\ (ReportedOnce(h)' <=> ReportedOnce(h))
  BY <1>1 DEF Reported, ReportedOnce
<1>5. MapInv' /\ \A h \in Conn : Live(h)' => Live(h)
  <2>1. CASE OpenTabReply(k)
    BY <1>2, <1>3, <2>1, TablesKept DEF OpenTabReply, tables
  <2>2. CASE ConnectReply(k)
    <3> DEFINE d == call[k].res
    <3>1. /\ sessions' = sessions \cup {d}
          /\ handleOf' = [handleOf EXCEPT ![d] = d]
          /\ closing' = [closing EXCEPT ![d] = FALSE]
          /\ handleToSession' = [handleToSession EXCEPT ![d] = d]
      BY <2>2 DEF ConnectReply
    <3>2. d \in Conn /\ Unpublished(d)
      BY <2>2 DEF ConnectReply, Unpublished, TypeOK, ManagerTypeOK, CallType, NoCall
    <3>3. handleOf[d] = None /\ handleToSession[d] = None
      BY <3>2, UnpublishedUnclaimed DEF Unclaimed
    <3> HIDE DEF d
    <3>4. /\ handleOf'[d] = d /\ handleToSession'[d] = d
          /\ \A x \in Conn : x # d => /\ handleOf'[x] = handleOf[x]
                                      /\ handleToSession'[x] = handleToSession[x]
                                      /\ closing'[x] = closing[x]
      BY <3>1, <3>2 DEF TypeOK, ManagerTypeOK
    <3>5. \A x \in Conn : handleToSession[x] # None =>
              handleToSession[x] \in Conn /\ handleToSession[x] # d
      BY <3>2, <3>3 DEF ReportInv, MapInv, TypeOK, ManagerTypeOK
    <3>6. MapInv'
      BY <3>2, <3>4, <3>5 DEF ReportInv, MapInv
    <3>7. ASSUME NEW h \in Conn, h # d, Wakes(h)' PROVE Wakes(h)
      BY <3>1, <3>4, <3>5, <3>7 DEF Wakes
    <3>8. \A h \in Conn : Unpublished(h)' => Unpublished(h)
      BY <1>2, <1>3, NoNewWaits
    <3>9. QED
      BY <3>2, <3>6, <3>7, <3>8 DEF Live
  <2>3. QED
    BY <2>1, <2>2 DEF Reply
<1>6. QED
  BY <1>1, <1>4, <1>5, ReportKept

LEMMA DisconnectReport ==
    ASSUME TypeOK, WatchInv, ReportInv, NEW s \in Conn, Disconnect(s)
    PROVE  ReportInv'
<1>0. PICK d \in Conn : d = IF s \in sessions THEN handleOf[s] ELSE s
  BY DEF Disconnect, TypeOK, ManagerTypeOK
<1>1. /\ UNCHANGED <<nextConn, up, handleOf, call, task>>
      /\ sessions' = sessions \ {s}
      /\ closing' = [closing EXCEPT ![s] = s \in sessions \/ @]
      /\ handleToSession' = IF s \in sessions THEN [handleToSession EXCEPT ![d] = None]
                                              ELSE handleToSession
      /\ UNCHANGED events /\ leaving' \subseteq leaving \cup {d}
      /\ handleOf[s] # None
  BY <1>0 DEF Disconnect, SshDisconnect
<1>2. d \in Conn /\ (handleOf[d] # None \/ \E x \in Conn : handleOf[x] = d)
  BY <1>0, <1>1
<1>3. ~Unpublished(d) /\ d < nextConn
  <2>1. ~Unclaimed(d)
    BY <1>2 DEF Unclaimed
  <2>2. QED
    BY <2>1, UnpublishedUnclaimed DEF WatchInv, ClaimInv, TypeOK, BridgeTypeOK
<1>4. ASSUME NEW h \in Conn
      PROVE  /\ Wakes(h)' => Wakes(h)
             /\ Unpublished(h)' => Unpublished(h)
             /\ handleToSession'[h] \in {handleToSession[h], None}
  BY <1>1 DEF Wakes, Unpublished, TypeOK, ManagerTypeOK
<1>5. ~Live(d)'
  <2>1. CASE s \in sessions
    <3>1. handleToSession'[d] = None
      BY <1>1, <1>2, <2>1 DEF TypeOK, ManagerTypeOK
    <3>2. QED
      BY <1>2, <1>3, <1>4, <3>1 DEF Live, Wakes
  <2>2. CASE s \notin sessions
    <3>1. d = s /\ handleToSession'[s] \in {None, s} /\ s \notin sessions'
      BY <1>0, <1>1, <2>2 DEF ReportInv, MapInv
    <3>2. QED
      BY <1>2, <1>3, <1>4, <3>1 DEF Live, Wakes
  <2>3. QED
    BY <2>1, <2>2
<1>6. MapInv'
  BY <1>1, <1>4 DEF ReportInv, MapInv
<1>7. \A h \in Conn : (Reported(h)' <=> Reported(h)) /\ (ReportedOnce(h)' <=> ReportedOnce(h))
  BY <1>1 DEF Reported, ReportedOnce
<1>8. ASSUME NEW h \in Conn, Live(h)' PROVE OneReport(h)'
  <2>1. OneReport(h)
    BY <1>4, <1>8 DEF ReportInv, Live
  <2>2. QED
    BY <1>1, <1>7, <2>1 DEF OneReport
<1>9. \A h \in Conn : h >= nextConn' => h \notin up' /\ ~Reported(h)'
  BY <1>1, <1>7 DEF ReportInv
<1>10. ASSUME NEW h \in leaving' PROVE h < nextConn' /\ ~Live(h)'
  <2>1. CASE h = d
    BY <1>1, <1>3, <1>5, <2>1
  <2>2. CASE h # d
    <3>1. h \in Conn /\ h < nextConn /\ ~Live(h)
      BY <1>1, <1>10, <2>2 DEF ReportInv, TypeOK, BridgeTypeOK
    <3>2. QED
      BY <1>1, <1>4, <3>1 DEF Live
  <2>3. QED
    BY <2>1, <2>2
<1>11. QED
  BY <1>6, <1>8, <1>9, <1>10 DEF ReportInv

LEMMA DropReport ==
    ASSUME TypeOK, WatchInv, ReportInv, NEW d \in Conn, NetworkDrop(d),
           UNCHANGED <<tables, call, task>>
    PROVE  ReportInv'
<1>1. /\ nextConn' = nextConn /\ d \in up /\ up' = up \ {d} /\ leaving' = leaving
      /\ Push(SessionClosed(d)) /\ SessionClosed(d) \in Event
  BY DEF NetworkDrop, SessionClosed, Event
<1>2. MapInv' /\ \A h \in Conn : Live(h)' => Live(h)
  BY TablesKept DEF tables, ConnectWaits, ReconnectWaits
<1>3. ASSUME NEW h \in Conn, h # d
      PROVE  (Reported(h)' => Reported(h)) /\ (ReportedOnce(h) => ReportedOnce(h)')
  <2>1. SessionClosed(d) # SessionClosed(h)
    BY <1>3 DEF SessionClosed
  <2>2. QED
    BY <1>1, <2>1, EventPushed
<1>4. ASSUME NEW h \in Conn, Live(h)' PROVE OneReport(h)'
  <2>1. OneReport(h)
    BY <1>2, <1>4 DEF ReportInv
  <2>2. CASE h # d
    BY <1>1, <1>3, <2>1, <2>2 DEF OneReport
  <2>3. CASE h = d
    <3>1. ~Reported(d) /\ task[d].pc = "idle"
      BY <1>1, <2>1, <2>3 DEF OneReport
    <3>2. ReportedOnce(d)'
      BY <1>1, <3>1, EventPushed
    <3>3. QED
      BY <1>1, <2>3, <3>1, <3>2 DEF OneReport
  <2>4. QED
    BY <2>2, <2>3
<1>5. \A h \in Conn : h >= nextConn' => h \notin up' /\ ~Reported(h)'
  BY <1>1, <1>3 DEF ReportInv
<1>6. \A h \in leaving' : h < nextConn' /\ ~Live(h)'
  BY <1>1, <1>2 DEF ReportInv, TypeOK, BridgeTypeOK
<1>7. QED
  BY <1>2, <1>4, <1>5, <1>6 DEF ReportInv

(* The report a disconnect owed is of a handle that wakes nothing. *)
LEMMA LeftReport ==
    ASSUME TypeOK, WatchInv, ReportInv, NEW d \in Conn, DisconnectReported(d),
           UNCHANGED <<tables, call, task>>
    PROVE  ReportInv'
<1>1. /\ UNCHANGED <<nextConn, up>> /\ d \in leaving /\ leaving' \subseteq leaving
      /\ Push(SessionClosed(d)) /\ SessionClosed(d) \in Event
  BY DEF DisconnectReported, SessionClosed, Event
<1>2. MapInv' /\ \A h \in Conn : Live(h)' => Live(h)
  BY TablesKept DEF tables, ConnectWaits, ReconnectWaits
<1>3. ASSUME NEW h \in Conn, h # d
      PROVE  (Reported(h)' => Reported(h)) /\ (ReportedOnce(h) => ReportedOnce(h)')
  <2>1. SessionClosed(d) # SessionClosed(h)
    BY <1>3 DEF SessionClosed
  <2>2. QED
    BY <1>1, <2>1, EventPushed
<1>4. d < nextConn /\ ~Live(d)
  BY <1>1 DEF ReportInv
<1>5. ASSUME NEW h \in Conn, Live(h)' PROVE OneReport(h)'
  <2>1. h # d /\ OneReport(h)
    BY <1>2, <1>4, <1>5 DEF ReportInv
  <2>2. QED
    BY <1>1, <1>3, <2>1 DEF OneReport
<1>6. \A h \in Conn : h >= nextConn' => h \notin up' /\ ~Reported(h)'
  BY <1>1, <1>3, <1>4 DEF ReportInv, TypeOK, BridgeTypeOK
<1>7. \A h \in leaving' : h < nextConn' /\ ~Live(h)'
  BY <1>1, <1>2 DEF ReportInv, TypeOK, BridgeTypeOK
<1>8. QED
  BY <1>2, <1>5, <1>6, <1>7 DEF ReportInv

LEMMA StartReport ==
    ASSUME TypeOK, WatchInv, ReportInv, NEW d \in Conn, StartReconnect(d)
    PROVE  ReportInv'
<1> DEFINE s == handleToSession[d]
<1>1. /\ UNCHANGED <<nextConn, up, leaving, sessions, handleOf, closing, call>>
      /\ events # <<>> /\ events' = Tail(events) /\ Head(events) = SessionClosed(d)
      /\ handleToSession' = [handleToSession EXCEPT ![handleOf[s]] = None]
      /\ Wakes(d)
  BY DEF StartReconnect, TakeEvent
<1>2. task' = IF Draining THEN [task EXCEPT ![d] = Sleeping(s, Delays - 1, TabsOf(s))]
                          ELSE task
  BY DEF StartReconnect
<1>3. /\ \A g \in Conn : g # d => task'[g] = task[g]
      /\ task'[d] # task[d] => task'[d].pc = "sleep"
  BY <1>2 DEF Sleeping, TypeOK, ManagerTypeOK
<1> HIDE DEF s
<1>4. ASSUME NEW h \in Conn
      PROVE  /\ handleToSession'[h] \in {handleToSession[h], None}
             /\ Wakes(h)' => Wakes(h)
  BY <1>1 DEF Wakes, TypeOK, ManagerTypeOK
<1>5. MapInv'
  BY <1>1, <1>4 DEF ReportInv, MapInv
<1>6. \A h \in Conn : Unpublished(h)' => Unpublished(h)
  BY <1>1, <1>3, NoNewWaits DEF ConnectWaits, ReconnectWaits
<1>7. ASSUME NEW h \in Conn
      PROVE  (Reported(h)' => Reported(h)) /\ (ReportedOnce(h) => ReportedOnce(h)')
  BY <1>1, EventTaken
<1>8. OneReport(d)'
  <2>1. OneReport(d)
    BY <1>1 DEF ReportInv, Live
  <2>2. Reported(d) /\ ~Reported(d)'
    BY <1>1, <2>1, EventTaken DEF OneReport
  <2>3. QED
    BY <1>1, <1>7, <2>1, <2>2 DEF OneReport
<1>9. ASSUME NEW h \in Conn, h # d, Live(h)' PROVE OneReport(h)'
  <2>1. OneReport(h)
    BY <1>4, <1>6, <1>9 DEF ReportInv, Live
  <2>2. QED
    BY <1>1, <1>3, <1>7, <1>9, <2>1 DEF OneReport
<1>10. \A h \in Conn : h >= nextConn' => h \notin up' /\ ~Reported(h)'
  BY <1>1, <1>7 DEF ReportInv
<1>11. \A h \in leaving' : h < nextConn' /\ ~Live(h)'
  BY <1>1, <1>4, <1>6 DEF ReportInv, Live, TypeOK, BridgeTypeOK
<1>12. QED
  BY <1>5, <1>8, <1>9, <1>10, <1>11 DEF ReportInv

(* A step of run h that asks for no connection and reports nothing. *)
LEMMA RunReport ==
    ASSUME TypeOK, WatchInv, ReportInv, NEW h \in Conn, ReconnectStep(h),
           \A res \in Conn \cup {None} : ~WakeConnect(h, res)
    PROVE  ReportInv'
<1>1. /\ UNCHANGED <<nextConn, up, leaving, events, call>>
      /\ task[h].pc # "idle" /\ ~ReconnectWaits(h)'
      /\ \A g \in Conn : g # h => task'[g] = task[g]
  <2>1. CASE WakeAborted(h) \/ RetryLater(h) \/ Exhausted(h)
    <3>1. PICK run : run.pc # "connect" /\ task' = [task EXCEPT ![h] = run]
      BY <2>1 DEF WakeAborted, RetryLater, Exhausted, Idle, Sleeping
    <3>2. task'[h] = run /\ \A g \in Conn : g # h => task'[g] = task[g]
      BY <3>1 DEF TypeOK, ManagerTypeOK
    <3>3. ~ReconnectWaits(h)'
      BY <3>1, <3>2 DEF ReconnectWaits
    <3>4. UNCHANGED <<nextConn, up, leaving, events, call>> /\ task[h].pc # "idle"
      BY <2>1 DEF WakeAborted, RetryLater, Exhausted, Rejected, bridgeVars
    <3>5. QED
      BY <3>2, <3>3, <3>4
  <2>2. ASSUME NEW hd \in Conn, NEW todo \in SUBSET Tab, NEW res \in Chan \cup {None},
               Rebuild(h, hd, todo, res), task[h].pc # "idle", call' = call
        PROVE  <1>1
    <3>1. /\ task'[h].pc \in {"open", "idle"} /\ nextConn' = nextConn
          /\ \A g \in Conn : g # h => task'[g] = task[g]
      BY <2>2, RebuildRun
    <3>2. UNCHANGED <<up, leaving, events>>
      BY <2>2 DEF Rebuild, OpenNext, SshOpenShell, bridgeVars
    <3>3. QED
      BY <2>2, <3>1, <3>2 DEF ReconnectWaits
  <2>3. ASSUME NEW res \in Chan \cup {None}, Reconnected(h, res) PROVE <1>1
    <3>1. /\ task[h].res \in Conn /\ task[h].mine \in SUBSET Tab /\ task[h].pc = "connect"
          /\ Rebuild(h, task[h].res, task[h].mine, res) /\ call' = call
      BY <2>3, RunsTyped, RunTyped DEF Reconnected
    <3>2. QED
      BY <2>2, <3>1
  <2>4. ASSUME NEW res \in Chan \cup {None}, TabReopened(h, res) PROVE <1>1
    <3>1. /\ task[h].hd \in Conn /\ task[h].todo \in SUBSET Tab /\ task[h].pc = "open"
          /\ Rebuild(h, task[h].hd, task[h].todo, res) /\ call' = call
      BY <2>4, RunsTyped, RunTyped DEF TabReopened
    <3>2. QED
      BY <2>2, <3>1
  <2>5. QED
    BY <2>1, <2>3, <2>4 DEF ReconnectStep
<1>2. /\ \A k \in Call : ConnectWaits(k)' => ConnectWaits(k) /\ call'[k].res = call[k].res
      /\ \A g \in Conn : ReconnectWaits(g)' =>
             ReconnectWaits(g) /\ task'[g].res = task[g].res
  BY <1>1 DEF ConnectWaits, ReconnectWaits
<1>3. MapInv' /\ \A g \in Conn : Live(g)' => Live(g)
  <2>1. CASE UNCHANGED <<sessions, handleOf, closing, handleToSession>>
    BY <1>2, <2>1, TablesKept
  <2>2. CASE Exhausted(h)
    <3>1. /\ UNCHANGED <<handleOf, closing>> /\ sessions' \subseteq sessions
          /\ \A g \in Conn : handleToSession'[g] \in {handleToSession[g], None}
      BY <2>2 DEF Exhausted, TypeOK, ManagerTypeOK
    <3>2. MapInv'
      BY <3>1 DEF ReportInv, MapInv
    <3>3. \A g \in Conn : Wakes(g)' => Wakes(g)
      BY <3>1 DEF Wakes
    <3>4. \A g \in Conn : Unpublished(g)' => Unpublished(g)
      BY <1>2, NoNewWaits
    <3>5. QED
      BY <3>2, <3>3, <3>4 DEF Live
  <2>3. ASSUME NEW res \in Chan \cup {None}, Reconnected(h, res)
        PROVE  MapInv' /\ \A g \in Conn : Live(g)' => Live(g)
    <3> DEFINE d == task[h].res
               s == task[h].sid
    <3>1. /\ UNCHANGED <<sessions, closing>>
          /\ handleOf' = [handleOf EXCEPT ![s] = d]
          /\ handleToSession' = [handleToSession EXCEPT ![d] = s]
      BY <2>3 DEF Reconnected
    <3>2. /\ d \in Conn /\ s \in Conn /\ Unpublished(d)
      <4>1. task[h] \in TaskType /\ task[h].pc = "connect" /\ task[h].res # None
        BY <2>3 DEF Reconnected, TypeOK, ManagerTypeOK
      <4>2. d \in Conn /\ s \in Conn
        BY <4>1 DEF TaskType, Idle
      <4>3. QED
        BY <4>1, <4>2 DEF Unpublished
    <3>3. handleOf[d] = None /\ handleToSession[d] = None /\ handleOf[s] # None
      BY <2>3, <3>2, UnpublishedUnclaimed DEF Unclaimed, Reconnected, WatchInv, RecordInv
    <3> HIDE DEF d, s
    <3>4. /\ handleOf'[s] = d /\ handleToSession'[d] = s
          /\ \A x \in Conn : /\ x # s => handleOf'[x] = handleOf[x]
                             /\ x # d => handleToSession'[x] = handleToSession[x]
      BY <3>1, <3>2 DEF TypeOK, ManagerTypeOK
    <3>5. MapInv'
      <4>1. \A x \in Conn : handleOf[x] # None => handleOf'[x] # None
        BY <3>2, <3>4
      <4>2. ASSUME NEW g \in Conn, handleToSession'[g] # None
            PROVE  handleOf'[handleToSession'[g]] # None
        <5>1. CASE g = d
          BY <3>2, <3>4, <5>1
        <5>2. CASE g # d
          BY <3>4, <4>1, <4>2, <5>2 DEF ReportInv, MapInv, TypeOK, ManagerTypeOK
        <5>3. QED
          BY <5>1, <5>2
      <4>3. ASSUME NEW x \in Conn, handleOf'[x] # None
            PROVE  handleToSession'[x] \in {None, x}
        <5>1. handleOf[x] # None /\ x # d
          BY <3>3, <3>4, <4>3
        <5>2. QED
          BY <3>4, <5>1 DEF ReportInv, MapInv
      <4>4. QED
        BY <4>2, <4>3 DEF MapInv
    <3>6. \A g \in Conn : g # d /\ Wakes(g)' => Wakes(g)
      BY <3>1, <3>4 DEF Wakes
    <3>7. \A g \in Conn : Unpublished(g)' => Unpublished(g)
      BY <1>2, NoNewWaits
    <3>8. QED
      BY <3>2, <3>5, <3>6, <3>7 DEF Live
  <2>4. QED
    BY <2>1, <2>2, <2>3 DEF ReconnectStep, WakeAborted, TabReopened, RetryLater, tables
<1>4. \A g \in Conn : (Reported(g)' <=> Reported(g)) /\ (ReportedOnce(g)' <=> ReportedOnce(g))
  BY <1>1 DEF Reported, ReportedOnce
<1>5. \A g \in Conn : task'[g].pc # "idle" => task[g].pc # "idle"
  BY <1>1
<1>6. QED
  BY <1>1, <1>3, <1>4, <1>5, ReportKept

LEMMA WakeReport ==
    ASSUME TypeOK, WatchInv, ReportInv, NEW h \in Conn, NEW res \in Conn \cup {None},
           WakeConnect(h, res)
    PROVE  ReportInv'
<1>1. /\ UNCHANGED <<tables, call>> /\ task[h].pc = "sleep"
      /\ IF res = None THEN UNCHANGED bridgeVars ELSE SshConnect(res)
      /\ task' = [task EXCEPT ![h] = [task[h] EXCEPT !.pc = "connect", !.res = res]]
  BY DEF WakeConnect
<1>2. /\ task'[h].pc = "connect" /\ task'[h].res = res
      /\ \A g \in Conn : g # h => task'[g] = task[g]
  <2>1. task'[h] = [task[h] EXCEPT !.pc = "connect", !.res = res]
    BY <1>1 DEF TypeOK, ManagerTypeOK
  <2>2. task[h] \in TaskType
    BY DEF TypeOK, ManagerTypeOK
  <2>3. task'[h].pc = "connect" /\ task'[h].res = res
    BY <2>1, <2>2 DEF TaskType, Idle
  <2>4. QED
    BY <1>1, <2>3 DEF TypeOK, ManagerTypeOK
<1>3. \A g \in Conn : task'[g].pc # "idle" => task[g].pc # "idle"
  BY <1>1, <1>2
<1>4. MapInv'
  BY <1>1 DEF ReportInv, MapInv, tables
<1>5. \A g \in Conn : g # res /\ Live(g)' => Live(g)
  BY <1>1, <1>2 DEF Live, Wakes, Unpublished, tables
<1>6. CASE res = None
  <2>1. UNCHANGED <<nextConn, up, leaving, events>>
    BY <1>1, <1>6 DEF bridgeVars
  <2>2. \A g \in Conn :
            (Reported(g)' <=> Reported(g)) /\ (ReportedOnce(g)' <=> ReportedOnce(g))
    BY <2>1 DEF Reported, ReportedOnce
  <2>3. \A g \in Conn : Live(g)' => Live(g)
    BY <1>5, <1>6
  <2>4. QED
    BY <1>3, <1>4, <2>1, <2>2, <2>3, ReportKept
<1>7. CASE res # None
  BY <1>1, <1>3, <1>4, <1>5, <1>7, ConnectionIssued
<1>8. QED
  BY <1>6, <1>7

(* The remaining steps leave the tables, the runs and the connects in flight. *)
LEMMA OtherReport ==
    ASSUME TypeOK, WatchInv, ReportInv, UNCHANGED <<tables, task, nextConn>>,
           up' \subseteq up, leaving' \subseteq leaving,
           \A h \in Conn : Reported(h)' => Reported(h),
           \A h \in Conn : ReportedOnce(h) => ReportedOnce(h)',
           \A k \in Call : ConnectWaits(k)' => ConnectWaits(k) /\ call'[k] = call[k]
    PROVE  ReportInv'
<1>1. MapInv' /\ \A h \in Conn : Live(h)' => Live(h)
  BY TablesKept DEF tables, ReconnectWaits
<1>2. QED
  BY <1>1, ReportKept

LEMMA CallerReport == ASSUME TypeOK, WatchInv, ReportInv, Caller PROVE ReportInv'
<1>1. ASSUME NEW k \in Call, NEW h \in Conn, ConnectCall(k, h) PROVE ReportInv'
  <2>1. /\ UNCHANGED <<tables, task>> /\ SshConnect(h)
        /\ \A j \in Call : j # k => call'[j] = call[j]
        /\ call'[k].res = h
    BY <1>1 DEF ConnectCall, TypeOK, ManagerTypeOK
  <2>2. MapInv'
    BY <2>1 DEF ReportInv, MapInv, tables
  <2>3. \A g \in Conn : g # h /\ Live(g)' => Live(g)
    BY <2>1 DEF Live, Wakes, Unpublished, tables
  <2>4. QED
    BY <2>1, <2>2, <2>3, ConnectionIssued
<1>2. ASSUME NEW k \in Call, NEW s \in Conn, NEW size \in Size, NEW c \in Chan,
             OpenTabCall(k, s, size, c)
      PROVE  ReportInv'
  <2>1. /\ UNCHANGED <<tables, task, nextConn, up, leaving, events>>
        /\ call' = [call EXCEPT ![k] = [op |-> "openTab", sid |-> s, size |-> size, res |-> c]]
    BY <1>2 DEF OpenTabCall, SshOpenShell
  <2>2. \A j \in Call : ConnectWaits(j)' => ConnectWaits(j) /\ call'[j] = call[j]
    BY <2>1 DEF ConnectWaits, TypeOK, ManagerTypeOK
  <2>3. QED
    BY <2>1, <2>2, OtherReport DEF Reported, ReportedOnce
<1>3. CASE \/ Stop \/ Start \/ \E t \in Tab : CloseTab(t)
           \/ \E t \in Tab, size \in Size : ResizeTab(t, size)
  <2>1. UNCHANGED <<tables, task, nextConn, up, leaving, events, call>>
    BY <1>3 DEF Stop, Start, CloseTab, ResizeTab, SshCloseChannel, SshResize, bridgeVars
  <2>2. QED
    BY <2>1, OtherReport DEF Reported, ReportedOnce, ConnectWaits
<1>4. QED
  BY <1>1, <1>2, <1>3, DisconnectReport DEF Caller

LEMMA HandleEventReport == ASSUME TypeOK, WatchInv, ReportInv, HandleEvent PROVE ReportInv'
<1>1. CASE HandleChannelClosed \/ IgnoreSessionClosed
  <2>1. /\ UNCHANGED <<tables, task, nextConn, up, leaving, call>>
        /\ events # <<>> /\ events' = Tail(events)
    BY <1>1 DEF HandleChannelClosed, IgnoreSessionClosed, TakeEvent
  <2>2. QED
    BY <2>1, EventTaken, OtherReport DEF ConnectWaits
<1>2. QED
  BY <1>1, StartReport DEF HandleEvent

LEMMA NetworkReport == ASSUME TypeOK, WatchInv, ReportInv, Network PROVE ReportInv'
<1>1. UNCHANGED <<tables, call, task>>
  BY DEF Network
<1>2. ASSUME NEW h \in Conn, SilentDrop(h) PROVE ReportInv'
  BY <1>1, <1>2, OtherReport DEF SilentDrop, Reported, ReportedOnce, ConnectWaits
<1>3. ASSUME NEW c \in Chan, PumpEnds(c) PROVE ReportInv'
  <2>1. UNCHANGED <<nextConn, up, leaving>> /\ Push(ChannelClosed(c))
    BY <1>3 DEF PumpEnds
  <2>2. /\ ChannelClosed(c) \in Event
        /\ \A h \in Conn : ChannelClosed(c) # SessionClosed(h)
    BY DEF ChannelClosed, SessionClosed, Event
  <2>3. QED
    BY <1>1, <2>1, <2>2, EventPushed, OtherReport DEF ConnectWaits
<1>4. QED
  BY <1>1, <1>2, <1>3, DropReport, LeftReport DEF Network

LEMMA NextReport == TypeOK /\ WatchInv /\ ReportInv /\ [Next]_vars => ReportInv'
<1> SUFFICES ASSUME TypeOK, WatchInv, ReportInv, [Next]_vars PROVE ReportInv'
  OBVIOUS
<1>1. CASE LoopExit \/ UNCHANGED vars
  <2>1. UNCHANGED <<tables, task, nextConn, up, leaving, events, call>>
    BY <1>1 DEF LoopExit, vars, bridgeVars
  <2>2. QED
    BY <2>1, OtherReport DEF Reported, ReportedOnce, ConnectWaits
<1>2. ASSUME NEW h \in Conn, ReconnectStep(h) PROVE ReportInv'
  BY <1>2, RunReport, WakeReport
<1>3. ASSUME NEW h \in Conn, Published(h) PROVE ReportInv'
  <2>1. UNCHANGED <<tables, task, nextConn, up, leaving, events, call>>
    BY <1>3 DEF Published, Publish
  <2>2. QED
    BY <2>1, OtherReport DEF Reported, ReportedOnce, ConnectWaits
<1>4. ASSUME NEW h \in Conn, Hangs(h) PROVE ReportInv'
  <2>1. UNCHANGED <<tables, nextConn, up, leaving, events, call>>
    BY <1>4 DEF Hangs, bridgeVars
  <2>2. /\ \A g \in Conn : task'[g].pc # "idle" => task[g].pc # "idle"
        /\ \A g \in Conn : ReconnectWaits(g)' =>
               ReconnectWaits(g) /\ task'[g].res = task[g].res
    BY <1>4, HangsRun DEF ReconnectWaits
  <2>3. MapInv' /\ \A g \in Conn : Live(g)' => Live(g)
    BY <2>1, <2>2, TablesKept DEF tables, ConnectWaits
  <2>4. QED
    BY <2>1, <2>2, <2>3, ReportKept DEF Reported, ReportedOnce
<1>5. QED
  BY <1>1, <1>2, <1>3, <1>4, CallerReport, ReplyReport, HandleEventReport, NetworkReport
  DEF Next

LEMMA InitReport == Init => ReportInv
BY DEF Init, BridgeInit, ReportInv, MapInv, Live, Unpublished, Wakes, Reported, NoCall, Idle

(* The close of one handle starts at most one rebuild of its session: when a report
   of it is about to be acted on, no run that an earlier one started is left.   *)
THEOREM RebuiltOnce == Spec => []OneRebuildPerHandle
<1>1. TypeOK /\ ReportInv => OneRebuildPerHandle
  <2> SUFFICES ASSUME TypeOK, ReportInv, NEW h \in Conn,
                      events # <<>>, Head(events) = SessionClosed(h), Wakes(h)
               PROVE  task[h] = Idle
    BY DEF OneRebuildPerHandle
  <2>1. OneReport(h) /\ Reported(h)
    BY DEF ReportInv, Live, Reported, TypeOK, BridgeTypeOK
  <2>2. task[h].pc = "idle"
    BY <2>1 DEF OneReport
  <2>3. QED
    BY <2>2, RunsTyped, RunTyped
<1>2. QED
  BY <1>1, InitReport, NextReport, InitWatch, NextWatch, TypeCorrect, PTL DEF Spec

=============================================================================
