--------------------------- MODULE SshCoreProofs ---------------------------
(* What TLAPS proves of SshCore for every value of its constants.               *)
EXTENDS SshCore, SequenceTheorems, TLAPS

USE CoreBounds DEF Conn, Chan, None

LEMMA EventsTyped ==
    /\ \A h \in Conn : Bridge!SessionClosed(h) \in Bridge!Event
    /\ \A c \in Chan : Bridge!ChannelClosed(c) \in Bridge!Event
BY DEF Bridge!SessionClosed, Bridge!ChannelClosed, Bridge!Event, Bridge!Conn, Bridge!Chan

LEMMA PushTyped ==
    ASSUME TypeOK, NEW e \in Bridge!Event, Push(e)
    PROVE  queue' \in Seq(Bridge!Event) /\ owed' \in Nat
BY DEF Push, TypeOK

LEMMA InitTypeOK == Init => TypeOK
<1> SUFFICES ASSUME Init PROVE TypeOK
  OBVIOUS
<1>1. opener \in [Opener -> OpenType]
  BY DEF Init, OpenType
<1>2. nextConn \in 1 .. MaxConn + 1 /\ nextChan \in 1 .. MaxChan + 1
  BY DEF Init
<1>3. queue \in Seq(Bridge!Event) /\ inbox \in Seq(Bridge!Event)
  BY DEF Init
<1>4. QED
  BY <1>1, <1>2, <1>3 DEF Init, TypeOK

LEMMA ConnectionTypeOK == ASSUME TypeOK, NEW h \in Conn, Connection(h) PROVE TypeOK'
<1> USE DEF TypeOK, chanVars, waitVars
<1>1. CASE SessionInserted(h)
  <2>1. nextConn' \in 1 .. MaxConn + 1 /\ sessions' \subseteq Conn
    BY <1>1 DEF SessionInserted
  <2>2. alive' \subseteq Conn /\ handler' \in [Conn -> {"idle", "report", "ended"}]
    BY <1>1 DEF SessionInserted
  <2>3. connecting' \in [Conn -> {"no", "inserted", "done"}]
    BY <1>1 DEF SessionInserted
  <2>4. QED
    BY <1>1, <2>1, <2>2, <2>3 DEF SessionInserted
<1>2. CASE IdPublished(h)
  BY <1>2 DEF IdPublished
<1>3. CASE TransportLost(h)
  BY <1>3 DEF TransportLost
<1>4. CASE HandlerReports(h)
  <2>1. queue' \in Seq(Bridge!Event) /\ owed' \in Nat
    BY <1>4, EventsTyped, PushTyped DEF HandlerReports
  <2>2. QED
    BY <1>4, <2>1 DEF HandlerReports
<1>5. CASE DisconnectBegins(h)
  BY <1>5 DEF DisconnectBegins
<1>6. CASE DisconnectClears(h)
  BY <1>6 DEF DisconnectClears
<1>7. CASE DisconnectTells(h)
  BY <1>7 DEF DisconnectTells
<1>8. CASE DisconnectReports(h)
  <2>1. queue' \in Seq(Bridge!Event) /\ owed' \in Nat
    BY <1>8, EventsTyped, PushTyped DEF DisconnectReports
  <2>2. QED
    BY <1>8, <2>1 DEF DisconnectReports
<1>9. QED
  BY <1>1, <1>2, <1>3, <1>4, <1>5, <1>6, <1>7, <1>8 DEF Connection

LEMMA OpeningTypeOK == ASSUME TypeOK, NEW k \in Opener, Opening(k) PROVE TypeOK'
<1> USE DEF TypeOK, connVars, waitVars, OpenType, NoOpen
<1>1. ASSUME NEW h \in Conn, NEW size \in Size, OpenBegins(k, h, size) PROVE TypeOK'
  BY <1>1 DEF OpenBegins
<1>2. CASE OpenAsks(k)
  <2>1. opener[k] \in [at : {"begun", "asking", "opened"}, conn : Conn, size : Size]
    BY <1>2 DEF OpenAsks
  <2>2. opener' = [opener EXCEPT ![k] = [opener[k] EXCEPT !.at = "asking"]]
    BY <1>2 DEF OpenAsks
  <2>3. [opener[k] EXCEPT !.at = "asking"] \in OpenType
    BY <2>1
  <2>4. QED
    BY <1>2, <2>2, <2>3 DEF OpenAsks
<1>3. CASE OpenAnswered(k)
  <2>1. opener[k] \in [at : {"begun", "asking", "opened"}, conn : Conn, size : Size]
    BY <1>3 DEF OpenAnswered
  <2>2. opener' = [opener EXCEPT ![k] = [opener[k] EXCEPT !.at = "opened"]]
    BY <1>3 DEF OpenAnswered
  <2>3. [opener[k] EXCEPT !.at = "opened"] \in OpenType
    BY <2>1
  <2>4. QED
    BY <1>3, <2>2, <2>3 DEF OpenAnswered
<1>4. CASE OpenFails(k)
  BY <1>4 DEF OpenFails
<1>5. ASSUME NEW c \in Chan, ChannelInserted(k, c) PROVE TypeOK'
  <2>1. opener[k] # NoOpen
    BY <1>5 DEF ChannelInserted
  <2>2. QED
    BY <1>5, <2>1 DEF ChannelInserted
<1>6. QED
  BY <1>1, <1>2, <1>3, <1>4, <1>5 DEF Opening

LEMMA ChannelTypeOK == ASSUME TypeOK, NEW c \in Chan, Channel(c) PROVE TypeOK'
<1> USE DEF TypeOK, connVars, waitVars
<1>1. CASE PumpReports(c)
  <2>1. queue' \in Seq(Bridge!Event) /\ owed' \in Nat
    BY <1>1, EventsTyped, PushTyped DEF PumpReports
  <2>2. QED
    BY <1>1, <2>1 DEF PumpReports
<1>2. CASE PumpLeaves(c)
  BY <1>2 DEF PumpLeaves
<1>3. CASE ChannelTaken(c)
  BY <1>3 DEF ChannelTaken
<1>4. ASSUME NEW size \in Size, ChannelResized(c, size) PROVE TypeOK'
  BY <1>4 DEF ChannelResized
<1>5. QED
  BY <1>1, <1>2, <1>3, <1>4 DEF Channel

LEMMA QueueTypeOK == ASSUME TypeOK, NotifyOne \/ Consumer \/ DrainTimesOut PROVE TypeOK'
<1> USE DEF TypeOK, connVars, chanVars
<1>1. CASE NotifyOne
  <2>1. owed' \in Nat
    BY <1>1 DEF NotifyOne
  <2>2. permit' \in BOOLEAN /\ drain' \in {"out", "empty", "waiting", "woken"}
    BY <1>1 DEF NotifyOne
  <2>3. QED
    BY <1>1, <2>1, <2>2 DEF NotifyOne
<1>2. CASE DrainCalled
  BY <1>2 DEF DrainCalled
<1>3. CASE DrainWaits
  BY <1>3 DEF DrainWaits
<1>4. CASE DrainTimesOut
  BY <1>4 DEF DrainTimesOut
<1>5. CASE DrainTakes
  BY <1>5 DEF DrainTakes
<1>6. CASE Handled
  BY <1>6 DEF Handled
<1>7. QED
  BY <1>1, <1>2, <1>3, <1>4, <1>5, <1>6 DEF Consumer

LEMMA NextTypeOK == TypeOK /\ [Next]_vars => TypeOK'
<1> SUFFICES ASSUME TypeOK, [Next]_vars PROVE TypeOK'
  OBVIOUS
<1>1. CASE Next
  BY <1>1, ConnectionTypeOK, OpeningTypeOK, ChannelTypeOK, QueueTypeOK DEF Next
<1>2. CASE UNCHANGED vars
  BY <1>2 DEF TypeOK, vars, connVars, chanVars, waitVars
<1>3. QED
  BY <1>1, <1>2

(* Every reachable state of the tasks and the queue is well typed. *)
THEOREM CoreTypes == Spec => []TypeOK
<1>1. Init => TypeOK
  BY InitTypeOK
<1>2. TypeOK /\ [Next]_vars => TypeOK'
  BY NextTypeOK
<1>3. QED
  BY <1>1, <1>2, PTL DEF Spec

----------------------------------------------------------------------------
LEMMA NextWakeInv == ASSUME TypeOK, WakeInv, [Next]_vars PROVE WakeInv'
<1> USE DEF TypeOK, WakeInv, NoSleepWithEvents
<1>1. ASSUME NEW e, Push(e), UNCHANGED waitVars PROVE WakeInv'
  BY <1>1 DEF Push, waitVars
<1>2. ASSUME UNCHANGED <<queue, owed, waitVars>> PROVE WakeInv'
  BY <1>2 DEF waitVars
<1>3. ASSUME NEW h \in Conn, Connection(h) PROVE WakeInv'
  BY <1>1, <1>2, <1>3 DEF Connection, SessionInserted, IdPublished, TransportLost, HandlerReports,
                          DisconnectBegins, DisconnectClears, DisconnectTells, DisconnectReports
<1>4. ASSUME NEW k \in Opener, Opening(k) PROVE WakeInv'
  BY <1>2, <1>4 DEF Opening, OpenBegins, OpenAsks, OpenAnswered, OpenFails, ChannelInserted
<1>5. ASSUME NEW c \in Chan, Channel(c) PROVE WakeInv'
  BY <1>1, <1>2, <1>5 DEF Channel, PumpReports, PumpLeaves, ChannelTaken, ChannelResized
<1>6. CASE NotifyOne
  BY <1>6 DEF NotifyOne
<1>7. CASE DrainCalled
  BY <1>7 DEF DrainCalled
<1>8. CASE DrainWaits
  BY <1>8 DEF DrainWaits
<1>9. CASE DrainTimesOut
  BY <1>9 DEF DrainTimesOut
<1>10. CASE DrainTakes
  BY <1>10 DEF DrainTakes
<1>11. CASE Handled
  BY <1>11 DEF Handled
<1>12. CASE UNCHANGED vars
  BY <1>2, <1>12 DEF vars
<1>13. QED
  BY <1>3, <1>4, <1>5, <1>6, <1>7, <1>8, <1>9, <1>10, <1>11, <1>12 DEF Next, Consumer

(* No drain sleeps while an event is queued, unless its wake-up is on the way: a
   push and a drain cannot miss each other. *)
THEOREM NoSleep == Spec => []NoSleepWithEvents
<1>1. Init => TypeOK /\ WakeInv
  BY InitTypeOK DEF Init, WakeInv, NoSleepWithEvents
<1>2. (TypeOK /\ WakeInv) /\ [Next]_vars => (TypeOK /\ WakeInv)'
  BY NextTypeOK, NextWakeInv
<1>3. WakeInv => NoSleepWithEvents
  BY DEF WakeInv
<1>4. QED
  BY <1>1, <1>2, <1>3, PTL DEF Spec

LEMMA OpenTyped ==
    ASSUME TypeOK, NEW k \in Opener, opener[k] # NoOpen
    PROVE  opener[k] \in [at : {"begun", "asking", "opened"}, conn : Conn, size : Size]
BY DEF TypeOK, OpenType

LEMMA NextTaskInv == ASSUME TypeOK, TaskInv, [Next]_vars PROVE TaskInv'
<1> USE DEF TypeOK, TaskInv
<1>1. ASSUME UNCHANGED <<nextConn, sessions, cell, alive, handler, connecting, closing, opener>>
      PROVE  TaskInv'
  BY <1>1
<1>2. ASSUME NEW h \in Conn, SessionInserted(h) PROVE TaskInv'
  <2>1. nextConn' = nextConn + 1 /\ sessions' = sessions \cup {h} /\ h = nextConn
    BY <1>2 DEF SessionInserted
  <2>2. UNCHANGED <<cell, closing, opener>> /\ connecting'[h] = "inserted"
    BY <1>2 DEF SessionInserted, chanVars
  <2>3. \A g \in Conn : g # h => UNCHANGED <<handler[g], connecting[g]>> /\ (g \in alive' <=> g \in alive)
    BY <1>2 DEF SessionInserted
  <2>4. handler'[h] # "report"
    BY <1>2, <2>1 DEF SessionInserted
  <2>5. \A k \in Opener : opener'[k] # NoOpen => opener'[k].conn < nextConn'
    BY <2>1, <2>2, OpenTyped
  <2>a. connecting[h] = "no" /\ closing[h] = "no"
    BY <2>1
  <2>6. \A g \in Conn : closing'[g] # "no" => g \notin sessions' /\ connecting'[g] = "done"
    BY <2>1, <2>2, <2>3, <2>a
  <2>7. \A g \in Conn : handler'[g] = "report" => g \notin alive' /\ connecting'[g] = "done"
    BY <2>3, <2>4
  <2>b. \A g \in cell' : connecting'[g] = "done"
    BY <2>2, <2>3, <2>a
  <2>c. \A g \in sessions' : connecting'[g] = "inserted" \/ g \in cell'
    BY <2>1, <2>2, <2>3
  <2>8. \A g \in Conn : g >= nextConn' =>
            handler'[g] = "idle" /\ connecting'[g] = "no" /\ closing'[g] = "no" /\ g \notin alive'
    BY <2>1, <2>2, <2>3
  <2>9. QED
    BY <2>5, <2>6, <2>7, <2>8, <2>b, <2>c
<1>3. ASSUME NEW h \in Conn, IdPublished(h) PROVE TaskInv'
  BY <1>3 DEF IdPublished, chanVars
<1>4. ASSUME NEW h \in Conn, TransportLost(h) PROVE TaskInv'
  BY <1>4 DEF TransportLost, chanVars
<1>5. ASSUME NEW h \in Conn, HandlerReports(h) PROVE TaskInv'
  BY <1>5 DEF HandlerReports, chanVars
<1>6. ASSUME NEW h \in Conn, DisconnectBegins(h) PROVE TaskInv'
  BY <1>6 DEF DisconnectBegins, chanVars
<1>7. ASSUME NEW h \in Conn,
             DisconnectClears(h) \/ DisconnectTells(h) \/ DisconnectReports(h)
      PROVE  TaskInv'
  <2>1. CASE DisconnectClears(h)
    <3>1. h \notin sessions /\ connecting[h] = "done"
      BY <2>1 DEF DisconnectClears
    <3>2. QED
      BY <2>1, <3>1 DEF DisconnectClears, chanVars
  <2>2. CASE DisconnectTells(h)
    BY <2>2 DEF DisconnectTells, chanVars
  <2>3. CASE DisconnectReports(h)
    BY <2>3 DEF DisconnectReports, chanVars
  <2>4. QED
    BY <1>7, <2>1, <2>2, <2>3
<1>8. ASSUME NEW k \in Opener, Opening(k) PROVE TaskInv'
  <2>1. UNCHANGED connVars
    BY <1>8 DEF Opening, OpenBegins, OpenAsks, OpenAnswered, OpenFails, ChannelInserted
  <2>2. ASSUME NEW o, opener' = [opener EXCEPT ![k] = o],
               o = NoOpen \/ o.conn < nextConn
        PROVE  TaskInv'
    BY <2>1, <2>2 DEF connVars
  <2>3. ASSUME NEW h \in Conn, NEW size \in Size, OpenBegins(k, h, size) PROVE TaskInv'
    <3>1. h < nextConn
      BY <2>3 DEF OpenBegins
    <3>2. QED
      BY <2>2, <2>3, <3>1 DEF OpenBegins
  <2>4. ASSUME NEW at, opener[k] # NoOpen, opener' = [opener EXCEPT ![k] = [opener[k] EXCEPT !.at = at]]
        PROVE  TaskInv'
    <3>1. [opener[k] EXCEPT !.at = at].conn = opener[k].conn
      BY <2>4, OpenTyped
    <3>2. QED
      BY <2>2, <2>4, <3>1
  <2>5. CASE OpenAsks(k)
    <3>1. opener[k] # NoOpen
      BY <2>5 DEF OpenAsks, NoOpen
    <3>2. opener' = [opener EXCEPT ![k] = [opener[k] EXCEPT !.at = "asking"]]
      BY <2>5 DEF OpenAsks
    <3>3. QED
      BY <2>4, <3>1, <3>2
  <2>6. CASE OpenAnswered(k)
    <3>1. opener[k] # NoOpen
      BY <2>6 DEF OpenAnswered, NoOpen
    <3>2. opener' = [opener EXCEPT ![k] = [opener[k] EXCEPT !.at = "opened"]]
      BY <2>6 DEF OpenAnswered
    <3>3. QED
      BY <2>4, <3>1, <3>2
  <2>7. CASE OpenFails(k)
    BY <2>2, <2>7 DEF OpenFails
  <2>8. ASSUME NEW c \in Chan, ChannelInserted(k, c) PROVE TaskInv'
    BY <2>2, <2>8 DEF ChannelInserted
  <2>9. QED
    BY <1>8, <2>3, <2>5, <2>6, <2>7, <2>8 DEF Opening
<1>9. ASSUME NEW c \in Chan, Channel(c) PROVE TaskInv'
  BY <1>1, <1>9 DEF Channel, PumpReports, PumpLeaves, ChannelTaken, ChannelResized, connVars
<1>10. ASSUME NotifyOne \/ Consumer \/ DrainTimesOut \/ UNCHANGED vars PROVE TaskInv'
  BY <1>1, <1>10 DEF NotifyOne, Consumer, DrainCalled, DrainWaits, DrainTimesOut, DrainTakes,
                     Handled, vars, connVars, chanVars
<1>11. QED
  BY <1>2, <1>3, <1>4, <1>5, <1>6, <1>7, <1>8, <1>9, <1>10 DEF Next, Connection

----------------------------------------------------------------------------
(* What the bridge sees of the sessions, the transports, the shells and the events. *)
Fresh == {h \in Conn : connecting[h] = "inserted"}
Leaving == {h \in Conn : closing[h] \in {"removed", "cleared", "told"}}
Up == alive \cup {h \in Conn : handler[h] = "report"}
Shells == {c \in entries : pump[c] = "reading"}
Pumps == {c \in Chan : pump[c] = "reading"}
Events == inbox \o queue

LEMMA InitBridge == Init => Bridge!BridgeInit
BY DEF Init, Bridge!BridgeInit, Bridge!Chan, Bridge!None

LEMMA PushMaps ==
    ASSUME TypeOK, NEW e \in Bridge!Event, Push(e), UNCHANGED inbox
    PROVE  Bridge!Push(e)
<1>1. queue \in Seq(Bridge!Event) /\ inbox \in Seq(Bridge!Event)
  BY DEF TypeOK
<1>2. Append(queue, e) = queue \o <<e>> /\ <<e>> \in Seq(Bridge!Event)
  BY <1>1, AppendIsConcat
<1>3. inbox \o queue \in Seq(Bridge!Event)
  BY <1>1, ConcatProperties
<1>4. Append(inbox \o queue, e) = (inbox \o queue) \o <<e>>
  BY <1>3, AppendIsConcat
<1>5. (inbox \o queue) \o <<e>> = inbox \o (queue \o <<e>>)
  BY <1>1, <1>2, ConcatAssociative
<1>6. QED
  BY <1>2, <1>4, <1>5 DEF Push, Bridge!Push

LEMMA ConnectionMaps ==
    ASSUME TypeOK, TaskInv, NEW h \in Conn, Connection(h)
    PROVE  Bridge!BridgeStep \/ UNCHANGED Bridge!bridgeVars
<1> USE DEF TypeOK, chanVars, waitVars, Bridge!bridgeVars, Bridge!Conn
<1>1. CASE SessionInserted(h)
  <2>1. Fresh' = Fresh \cup {h} /\ UNCHANGED Leaving
    BY <1>1 DEF SessionInserted, Fresh, Leaving
  <2>2. Up' = Up \cup {h} \/ Up' = Up
    <3>1. handler[h] = "idle"
      BY <1>1 DEF SessionInserted, TaskInv
    <3>2. CASE alive' = alive \cup {h} /\ UNCHANGED handler
      BY <3>2 DEF Up
    <3>3. CASE handler' = [handler EXCEPT ![h] = "ended"] /\ UNCHANGED alive
      BY <3>1, <3>3 DEF Up
    <3>4. QED
      BY <1>1, <3>2, <3>3 DEF SessionInserted
  <2>3. Bridge!SshConnect(h)
    BY <1>1, <2>1, <2>2 DEF SessionInserted, Bridge!SshConnect, Fresh, Leaving, Up
  <2>4. QED
    BY <2>3 DEF Bridge!BridgeStep
<1>2. CASE IdPublished(h)
  <2>1. h \in Fresh /\ Fresh' = Fresh \ {h} /\ UNCHANGED <<Leaving, Up>>
    BY <1>2 DEF IdPublished, Fresh, Leaving, Up
  <2>2. Bridge!Publish(h)
    BY <1>2, <2>1 DEF IdPublished, Bridge!Publish, Fresh, Leaving, Up
  <2>3. QED
    BY <2>2 DEF Bridge!BridgeStep
<1>3. CASE TransportLost(h)
  <2>0. UNCHANGED <<Fresh, Leaving>>
    BY <1>3 DEF TransportLost, Fresh, Leaving
  <2>1. CASE h \in cell
    <3>1. Up' = Up
      BY <1>3, <2>1 DEF TransportLost, Up
    <3>2. QED
      BY <1>3, <2>0, <3>1 DEF TransportLost, Up, Fresh, Leaving
  <2>2. CASE h \notin cell
    <3>1. Up' = Up \ {h} /\ h \in Up
      BY <1>3, <2>2 DEF TransportLost, Up
    <3>2. h \in sessions => h \in Fresh
      BY <2>2 DEF TaskInv, Fresh
    <3>3. Bridge!SilentDrop(h)
      BY <1>3, <2>0, <3>1, <3>2 DEF TransportLost, Bridge!SilentDrop, Up, Fresh, Leaving
    <3>4. QED
      BY <3>3 DEF Bridge!BridgeStep
  <2>3. QED
    BY <2>1, <2>2
<1>4. CASE HandlerReports(h)
  <2>1. Up' = Up \ {h} /\ h \in Up /\ UNCHANGED <<Fresh, Leaving>>
    BY <1>4 DEF HandlerReports, Up, TaskInv, Fresh, Leaving
  <2>2. Bridge!Push(Bridge!SessionClosed(h))
    BY <1>4, PushMaps, EventsTyped DEF HandlerReports
  <2>3. h \notin Fresh
    BY <1>4 DEF HandlerReports, TaskInv, Fresh
  <2>4. Bridge!NetworkDrop(h)
    BY <1>4, <2>1, <2>2, <2>3 DEF HandlerReports, Bridge!NetworkDrop, Up, Fresh, Leaving
  <2>5. QED
    BY <2>4 DEF Bridge!BridgeStep
<1>5. CASE DisconnectBegins(h)
  <2>1. Leaving' = Leaving \cup ({h} \cap sessions) /\ UNCHANGED <<Fresh, Up>>
    BY <1>5 DEF DisconnectBegins, Fresh, Leaving, Up
  <2>2. Bridge!SshDisconnect(h)
    BY <1>5, <2>1 DEF DisconnectBegins, Bridge!SshDisconnect, Fresh, Leaving, Up
  <2>3. QED
    BY <2>2 DEF Bridge!BridgeStep
<1>6. CASE DisconnectClears(h) \/ DisconnectTells(h)
  <2>1. UNCHANGED <<Fresh, Leaving, Up>>
    BY <1>6 DEF DisconnectClears, DisconnectTells, Fresh, Leaving, Up
  <2>2. UNCHANGED <<nextConn, sessions, chanVars, queue, waitVars>>
    BY <1>6 DEF DisconnectClears, DisconnectTells
  <2>3. QED
    BY <2>1, <2>2 DEF Fresh, Leaving, Up
<1>7. CASE DisconnectReports(h)
  <2>1. h \in Leaving /\ Leaving' = Leaving \ {h} /\ UNCHANGED <<Fresh, Up>>
    BY <1>7 DEF DisconnectReports, Fresh, Leaving, Up
  <2>2. Bridge!Push(Bridge!SessionClosed(h))
    BY <1>7, PushMaps, EventsTyped DEF DisconnectReports
  <2>3. Bridge!DisconnectReported(h)
    BY <1>7, <2>1, <2>2 DEF DisconnectReports, Bridge!DisconnectReported, Fresh, Leaving, Up
  <2>4. QED
    BY <2>3 DEF Bridge!BridgeStep
<1>8. QED
  BY <1>1, <1>2, <1>3, <1>4, <1>5, <1>6, <1>7 DEF Connection

LEMMA OpeningMaps ==
    ASSUME TypeOK, TaskInv, NEW k \in Opener, Opening(k)
    PROVE  Bridge!BridgeStep \/ UNCHANGED Bridge!bridgeVars
<1> USE DEF TypeOK, connVars, waitVars, Bridge!bridgeVars, Bridge!Conn, Bridge!Chan
<1>1. ASSUME \/ \E h \in Conn, size \in Size : OpenBegins(k, h, size)
             \/ OpenAsks(k) \/ OpenAnswered(k) \/ OpenFails(k)
      PROVE  UNCHANGED Bridge!bridgeVars
  <2>1. UNCHANGED <<connVars, nextChan, entries, pump, chanConn, pty, queue, inbox>>
    BY <1>1 DEF OpenBegins, OpenAsks, OpenAnswered, OpenFails
  <2>2. QED
    BY <2>1
<1>2. ASSUME NEW c \in Chan, ChannelInserted(k, c) PROVE Bridge!BridgeStep
  <2> DEFINE h == opener[k].conn
             size == opener[k].size
  <2>1. opener[k] # NoOpen
    BY <1>2 DEF ChannelInserted, NoOpen
  <2>2. h \in Conn /\ size \in Size /\ h < nextConn
    BY <2>1, OpenTyped DEF TaskInv
  <2>3. Shells' = Shells \cup {c} /\ Pumps' = Pumps \cup {c}
    BY <1>2 DEF ChannelInserted, Shells, Pumps
  <2>4. Bridge!SshOpenShell(h, size, c)
    BY <1>2, <2>2, <2>3 DEF ChannelInserted, Bridge!SshOpenShell, Shells, Pumps
  <2>5. QED
    BY <2>2, <2>4 DEF Bridge!BridgeStep
<1>3. QED
  BY <1>1, <1>2 DEF Opening

LEMMA ChannelMaps ==
    ASSUME TypeOK, NEW c \in Chan, Channel(c)
    PROVE  Bridge!BridgeStep \/ UNCHANGED Bridge!bridgeVars
<1> USE DEF TypeOK, connVars, waitVars, Bridge!bridgeVars, Bridge!Chan
<1>1. CASE PumpReports(c)
  <2>1. Shells' = Shells \ {c} /\ Pumps' = Pumps \ {c} /\ c \in Pumps
    BY <1>1 DEF PumpReports, Shells, Pumps
  <2>2. Bridge!Push(Bridge!ChannelClosed(c))
    BY <1>1, PushMaps, EventsTyped DEF PumpReports
  <2>3. Bridge!PumpEnds(c)
    BY <1>1, <2>1, <2>2 DEF PumpReports, Bridge!PumpEnds, Shells, Pumps
  <2>4. QED
    BY <2>3 DEF Bridge!BridgeStep
<1>2. CASE PumpLeaves(c)
  <2>1. Shells' = Shells /\ Pumps' = Pumps
    BY <1>2 DEF PumpLeaves, Shells, Pumps
  <2>2. QED
    BY <1>2, <2>1 DEF PumpLeaves, Shells, Pumps
<1>3. CASE ChannelTaken(c)
  <2>1. Shells' = Shells \ {c}
    BY <1>3 DEF ChannelTaken, Shells
  <2>2. Bridge!SshCloseChannel(c)
    BY <1>3, <2>1 DEF ChannelTaken, Bridge!SshCloseChannel, Shells
  <2>3. QED
    BY <2>2 DEF Bridge!BridgeStep
<1>4. ASSUME NEW size \in Size, ChannelResized(c, size) PROVE Bridge!BridgeStep
  <2>1. Bridge!SshResize(c, size)
    BY <1>4 DEF ChannelResized, Bridge!SshResize
  <2>2. QED
    BY <2>1 DEF Bridge!BridgeStep
<1>5. QED
  BY <1>1, <1>2, <1>3, <1>4 DEF Channel

(* Taking a batch moves events from the queue to the inbox; handling one takes the oldest. *)
LEMMA QueueMaps ==
    ASSUME TypeOK, WakeInv, NotifyOne \/ Consumer \/ DrainTimesOut
    PROVE  Bridge!BridgeStep \/ UNCHANGED Bridge!bridgeVars
<1> USE DEF TypeOK, connVars, chanVars, Bridge!bridgeVars
<1>1. ASSUME inbox = <<>>, inbox' = queue, queue' = <<>> PROVE Events' = Events
  BY <1>1, ConcatEmptySeq DEF Events
<1>2. CASE NotifyOne \/ DrainWaits \/ DrainTimesOut
  BY <1>2 DEF NotifyOne, DrainWaits, DrainTimesOut
<1>3. CASE DrainCalled
  BY <1>1, <1>3 DEF DrainCalled, Events
<1>4. CASE DrainTakes
  BY <1>1, <1>4 DEF DrainTakes, WakeInv, Events
<1>5. CASE Handled
  <2>1. Tail(inbox \o queue) = Tail(inbox) \o queue /\ inbox \o queue # <<>>
    BY <1>5 DEF Handled
  <2>2. Bridge!TakeEvent
    BY <1>5, <2>1 DEF Handled, Bridge!TakeEvent
  <2>3. QED
    BY <2>2 DEF Bridge!BridgeStep
<1>6. QED
  BY <1>2, <1>3, <1>4, <1>5 DEF Consumer

(* The tasks of ssh-core, interleaved in any way, implement the bridge packages/core
   relies on: one step of SshBridge or none for each of theirs. *)
THEOREM Refinement == Spec => ImplementsBridge
<1> DEFINE Inv == TypeOK /\ WakeInv /\ TaskInv
<1>1. Init => Inv
  BY InitTypeOK DEF Init, WakeInv, NoSleepWithEvents, TaskInv
<1>2. Inv /\ [Next]_vars => Inv'
  BY NextTypeOK, NextWakeInv, NextTaskInv
<1>3. Init => Bridge!BridgeInit
  BY InitBridge
<1>4. Inv /\ [Next]_vars => [Bridge!BridgeStep]_(Bridge!bridgeVars)
  <2> SUFFICES ASSUME Inv, [Next]_vars PROVE Bridge!BridgeStep \/ UNCHANGED Bridge!bridgeVars
    OBVIOUS
  <2>1. CASE Next
    BY <2>1, ConnectionMaps, OpeningMaps, ChannelMaps, QueueMaps DEF Next
  <2>2. CASE UNCHANGED vars
    BY <2>2 DEF vars, connVars, chanVars, waitVars, Bridge!bridgeVars
  <2>3. QED
    BY <2>1, <2>2
<1>5. QED
  BY <1>1, <1>2, <1>3, <1>4, PTL DEF Spec, ImplementsBridge, Bridge!BridgeSpec

=============================================================================
