------------------------------ MODULE SshCore ------------------------------
(* The tasks of ssh-core behind the bridge, one step per lock, queue operation or
   await: connect and disconnect calls, the handler of each connection, openShell
   calls, the pump of each channel, and the drain loop of the one consumer.  They
   implement SshBridge, where each of these is a single step.

   A push is two steps: the event goes in under the lock, the notification follows
   outside it.                                                                   *)
EXTENDS Integers, Sequences, FiniteSets

CONSTANTS
    MaxConn,   \* bound: connections ever established
    MaxChan,   \* bound: shell channels ever opened
    MaxQueue,  \* bound: events queued or taken and not yet handled
    Size,      \* terminal sizes a caller may ask for
    Opener     \* slots for openShell calls in flight

ASSUME CoreBounds == MaxConn \in Nat \ {0} /\ MaxChan \in Nat \ {0} /\ MaxQueue \in Nat

Conn == 1 .. MaxConn
Chan == 1 .. MaxChan
None == 0

VARIABLES
    nextConn,   \* next id of the session registry
    sessions,   \* entries of the session registry
    cell,       \* connections whose session_id_cell holds the id
    alive,      \* connections whose transport works
    handler,    \* what `disconnected` of a connection is doing
    connecting, \* how far the connect call of a connection is
    closing,    \* how far the disconnect call of a connection is
    nextChan,   \* next id of the channel registry
    entries,    \* entries of the channel registry
    opener,     \* the openShell calls in flight
    pump,       \* the pump task of a channel
    chanConn,   \* the connection of a channel
    pty,        \* the size the remote side last heard for a channel
    queue,      \* EventQueue.inner
    owed,       \* events pushed whose notify_one is still to come
    permit,     \* whether EventQueue.notify holds a permit
    drain,      \* where the consumer is in drain
    inbox       \* the batch it was given and has not yet handled

connVars == <<nextConn, sessions, cell, alive, handler, connecting, closing>>
chanVars == <<nextChan, entries, opener, pump, chanConn, pty>>
waitVars == <<permit, drain, inbox>>
vars == <<connVars, chanVars, queue, owed, waitVars>>

\* A connection is fresh until the handler has its id, and leaving until disconnect
\* has reported; a lost transport is up until the handler has reported; a shell ends
\* with the report of its pump; events wait in the queue or in the batch being handled.
Bridge == INSTANCE SshBridge WITH
    registered <- sessions,
    fresh <- {h \in Conn : connecting[h] = "inserted"},
    leaving <- {h \in Conn : closing[h] \in {"removed", "cleared", "told"}},
    up <- alive \cup {h \in Conn : handler[h] = "report"},
    shells <- {c \in entries : pump[c] = "reading"},
    pumps <- {c \in Chan : pump[c] = "reading"},
    events <- inbox \o queue

NoOpen == [at |-> "none", conn |-> None, size |-> None]
OpenType ==
    {NoOpen} \cup [at : {"begun", "asking", "opened"}, conn : Conn, size : Size]

Init ==
    /\ nextConn = 1 /\ nextChan = 1
    /\ sessions = {} /\ cell = {} /\ alive = {} /\ entries = {}
    /\ handler = [h \in Conn |-> "idle"]
    /\ connecting = [h \in Conn |-> "no"]
    /\ closing = [h \in Conn |-> "no"]
    /\ opener = [k \in Opener |-> NoOpen]
    /\ pump = [c \in Chan |-> "none"]
    /\ chanConn = [c \in Chan |-> None]
    /\ pty = [c \in Chan |-> None]
    /\ queue = <<>> /\ inbox = <<>>
    /\ owed = 0 /\ permit = FALSE
    /\ drain = "out"

----------------------------------------------------------------------------
\* EventQueue.
Push(e) ==
    /\ Len(inbox \o queue) < MaxQueue /\ owed < MaxQueue
    /\ queue' = Append(queue, e)
    /\ owed' = owed + 1

\* A bug: notify_waiters, which wakes who waits now and remembers nothing.
NotifyWaiters ==
    /\ owed > 0
    /\ owed' = owed - 1
    /\ drain' = IF drain = "waiting" THEN "woken" ELSE drain
    /\ UNCHANGED <<connVars, chanVars, queue, permit, inbox>>

\* notify_one: wake the waiting drain or leave one permit for the next.
NotifyOne ==
    /\ owed > 0
    /\ owed' = owed - 1
    /\ IF drain = "waiting" THEN drain' = "woken" /\ UNCHANGED permit
                            ELSE permit' = TRUE /\ UNCHANGED drain
    /\ UNCHANGED <<connVars, chanVars, queue, inbox>>

\* The consumer calls drain once it has handled its batch; the fast path takes
\* what is there and leaves the permit alone.
DrainCalled ==
    /\ drain = "out" /\ inbox = <<>>
    /\ inbox' = queue /\ queue' = <<>>
    /\ drain' = IF queue = <<>> THEN "empty" ELSE "out"
    /\ UNCHANGED <<connVars, chanVars, owed, permit>>

DrainWaits ==
    /\ drain = "empty"
    /\ drain' = IF permit THEN "woken" ELSE "waiting"
    /\ permit' = FALSE
    /\ UNCHANGED <<connVars, chanVars, queue, owed, inbox>>

DrainTimesOut ==
    /\ drain = "waiting"
    /\ drain' = "woken"
    /\ UNCHANGED <<connVars, chanVars, queue, owed, permit, inbox>>

DrainTakes ==
    /\ drain = "woken"
    /\ drain' = "out"
    /\ inbox' = queue /\ queue' = <<>>
    /\ UNCHANGED <<connVars, chanVars, owed, permit>>

Handled ==
    /\ inbox # <<>>
    /\ inbox' = Tail(inbox)
    /\ UNCHANGED <<connVars, chanVars, queue, owed, permit, drain>>

----------------------------------------------------------------------------
\* connect: registered, and only then published to the handler.  The transport may
\* have been lost since the authentication, when the handler had no id to report.
SessionInserted(h) ==
    /\ h = nextConn /\ h <= MaxConn
    /\ nextConn' = nextConn + 1
    /\ sessions' = sessions \cup {h}
    /\ connecting' = [connecting EXCEPT ![h] = "inserted"]
    /\ \/ alive' = alive \cup {h} /\ UNCHANGED handler
       \/ handler' = [handler EXCEPT ![h] = "ended"] /\ UNCHANGED alive
    /\ UNCHANGED <<cell, closing, chanVars, queue, owed, waitVars>>

IdPublished(h) ==
    /\ connecting[h] = "inserted"
    /\ connecting' = [connecting EXCEPT ![h] = "done"]
    /\ cell' = cell \cup {h}
    /\ UNCHANGED <<nextConn, sessions, alive, handler, closing, chanVars, queue, owed, waitVars>>

\* A bug: disconnected gives up on a cell that another task is just looking at.
TransportLostQuietly(h) ==
    /\ h \in alive
    /\ alive' = alive \ {h}
    /\ \E emit \in {"report", "ended"} :
           handler' = [handler EXCEPT ![h] = IF h \in cell THEN emit ELSE "ended"]
    /\ UNCHANGED <<nextConn, sessions, cell, connecting, closing, chanVars, queue, owed, waitVars>>

\* disconnected reads the cell when the transport is gone, and reports after that.
TransportLost(h) ==
    /\ h \in alive
    /\ alive' = alive \ {h}
    /\ handler' = [handler EXCEPT ![h] = IF h \in cell THEN "report" ELSE "ended"]
    /\ UNCHANGED <<nextConn, sessions, cell, connecting, closing, chanVars, queue, owed, waitVars>>

HandlerReports(h) ==
    /\ handler[h] = "report"
    /\ handler' = [handler EXCEPT ![h] = "ended"]
    /\ Push(Bridge!SessionClosed(h))
    /\ UNCHANGED <<nextConn, sessions, cell, alive, connecting, closing, chanVars, waitVars>>

\* disconnect: out of the registry, the cell emptied, the transport told once no
\* openShell holds the handle, the close reported.
DisconnectBegins(h) ==
    /\ connecting[h] = "done" /\ h \in sessions
    /\ sessions' = sessions \ {h}
    /\ closing' = [closing EXCEPT ![h] = "removed"]
    /\ UNCHANGED <<nextConn, cell, alive, handler, connecting, chanVars, queue, owed, waitVars>>

DisconnectClears(h) ==
    /\ closing[h] = "removed"
    /\ closing' = [closing EXCEPT ![h] = "cleared"]
    /\ cell' = cell \ {h}
    /\ UNCHANGED <<nextConn, sessions, alive, handler, connecting, chanVars, queue, owed, waitVars>>

Locked(h) == \E k \in Opener : opener[k].at = "asking" /\ opener[k].conn = h

\* A bug: the error of telling a transport that is gone ends the call.
DisconnectTellsLive(h) ==
    /\ closing[h] = "cleared"
    /\ h \in alive /\ ~Locked(h)
    /\ closing' = [closing EXCEPT ![h] = "told"]
    /\ UNCHANGED <<nextConn, sessions, cell, alive, handler, connecting, chanVars, queue, owed, waitVars>>

DisconnectTells(h) ==
    /\ closing[h] = "cleared"
    /\ ~Locked(h)
    /\ closing' = [closing EXCEPT ![h] = "told"]
    /\ UNCHANGED <<nextConn, sessions, cell, alive, handler, connecting, chanVars, queue, owed, waitVars>>

DisconnectReports(h) ==
    /\ closing[h] = "told"
    /\ closing' = [closing EXCEPT ![h] = "done"]
    /\ Push(Bridge!SessionClosed(h))
    /\ UNCHANGED <<nextConn, sessions, cell, alive, handler, connecting, chanVars, waitVars>>

----------------------------------------------------------------------------
\* open_shell: the session looked up, its handle locked while the server is asked
\* for a channel, the channel registered with its pump.
OpenBegins(k, h, size) ==
    /\ opener[k] = NoOpen
    /\ connecting[h] = "done" /\ h \in sessions
    /\ opener' = [opener EXCEPT ![k] = [at |-> "begun", conn |-> h, size |-> size]]
    /\ UNCHANGED <<connVars, nextChan, entries, pump, chanConn, pty, queue, owed, waitVars>>

OpenAsks(k) ==
    /\ opener[k].at = "begun"
    /\ ~Locked(opener[k].conn)
    /\ opener' = [opener EXCEPT ![k].at = "asking"]
    /\ UNCHANGED <<connVars, nextChan, entries, pump, chanConn, pty, queue, owed, waitVars>>

OpenAnswered(k) ==
    /\ opener[k].at = "asking"
    /\ opener[k].conn \in alive
    /\ opener' = [opener EXCEPT ![k].at = "opened"]
    /\ UNCHANGED <<connVars, nextChan, entries, pump, chanConn, pty, queue, owed, waitVars>>

\* A bug: the call goes on without the session it was opening on.
OpenFailsGoesOn(k) ==
    /\ opener[k].at \in {"asking", "opened"}
    /\ opener' = [opener EXCEPT ![k].conn = None]
    /\ UNCHANGED <<connVars, nextChan, entries, pump, chanConn, pty, queue, owed, waitVars>>

OpenFails(k) ==
    /\ opener[k].at \in {"asking", "opened"}
    /\ opener' = [opener EXCEPT ![k] = NoOpen]
    /\ UNCHANGED <<connVars, nextChan, entries, pump, chanConn, pty, queue, owed, waitVars>>

ChannelInserted(k, c) ==
    /\ opener[k].at = "opened"
    /\ c = nextChan /\ c <= MaxChan
    /\ nextChan' = nextChan + 1
    /\ entries' = entries \cup {c}
    /\ pump' = [pump EXCEPT ![c] = "reading"]
    /\ chanConn' = [chanConn EXCEPT ![c] = opener[k].conn]
    /\ pty' = [pty EXCEPT ![c] = opener[k].size]
    /\ opener' = [opener EXCEPT ![k] = NoOpen]
    /\ UNCHANGED <<connVars, queue, owed, waitVars>>

\* The pump reads EOF, a close or the end of its connection, reports, then leaves.
PumpReports(c) ==
    /\ pump[c] = "reading"
    /\ pump' = [pump EXCEPT ![c] = "leaving"]
    /\ Push(Bridge!ChannelClosed(c))
    /\ UNCHANGED <<connVars, nextChan, entries, opener, chanConn, pty, waitVars>>

PumpLeaves(c) ==
    /\ pump[c] = "leaving"
    /\ pump' = [pump EXCEPT ![c] = "gone"]
    /\ entries' = entries \ {c}
    /\ UNCHANGED <<connVars, nextChan, opener, chanConn, pty, queue, owed, waitVars>>

ChannelResized(c, size) ==
    /\ c \in entries /\ pump[c] = "reading"
    /\ pty' = [pty EXCEPT ![c] = size]
    /\ UNCHANGED <<connVars, nextChan, entries, opener, pump, chanConn, queue, owed, waitVars>>

ChannelTaken(c) ==
    /\ c \in entries
    /\ entries' = entries \ {c}
    /\ UNCHANGED <<connVars, nextChan, opener, pump, chanConn, pty, queue, owed, waitVars>>

----------------------------------------------------------------------------
Connection(h) ==
    \/ SessionInserted(h) \/ IdPublished(h)
    \/ TransportLost(h) \/ HandlerReports(h)
    \/ DisconnectBegins(h) \/ DisconnectClears(h) \/ DisconnectTells(h) \/ DisconnectReports(h)

Opening(k) ==
    \/ \E h \in Conn, size \in Size : OpenBegins(k, h, size)
    \/ OpenAsks(k) \/ OpenAnswered(k) \/ OpenFails(k)
    \/ \E c \in Chan : ChannelInserted(k, c)

Channel(c) ==
    \/ PumpReports(c) \/ PumpLeaves(c) \/ ChannelTaken(c)
    \/ \E size \in Size : ChannelResized(c, size)

Consumer == DrainCalled \/ DrainWaits \/ DrainTakes \/ Handled

Next ==
    \/ \E h \in Conn : Connection(h)
    \/ \E k \in Opener : Opening(k)
    \/ \E c \in Chan : Channel(c)
    \/ NotifyOne
    \/ Consumer \/ DrainTimesOut

Spec == Init /\ [][Next]_vars

\* A disconnect goes on when it can, and an openShell waiting on a lost transport fails.
Disconnecting(h) == DisconnectClears(h) \/ DisconnectTells(h) \/ DisconnectReports(h)
OpenCutOff(k) == opener[k].at = "asking" /\ opener[k].conn \notin alive /\ OpenFails(k)

\* A producer goes on to its notification and the consumer keeps polling; a task of
\* the runtime goes on when what it awaits is there.  Nothing is assumed of the timer,
\* and nothing of a server: it may leave an openShell unanswered for ever.
Fairness ==
    /\ WF_vars(NotifyOne) /\ WF_vars(Consumer)
    /\ \A h \in Conn : WF_vars(Disconnecting(h))
    /\ \A k \in Opener : WF_vars(OpenCutOff(k))

FairSpec == Spec /\ Fairness

----------------------------------------------------------------------------
\* The registries, the tasks and the queue hold values of their types.
TypeOK ==
    /\ nextConn \in 1 .. MaxConn + 1 /\ nextChan \in 1 .. MaxChan + 1
    /\ sessions \subseteq Conn /\ cell \subseteq Conn /\ alive \subseteq Conn
    /\ entries \subseteq Chan
    /\ handler \in [Conn -> {"idle", "report", "ended"}]
    /\ connecting \in [Conn -> {"no", "inserted", "done"}]
    /\ closing \in [Conn -> {"no", "removed", "cleared", "told", "done"}]
    /\ opener \in [Opener -> OpenType]
    /\ pump \in [Chan -> {"none", "reading", "leaving", "gone"}]
    /\ chanConn \in [Chan -> Conn \cup {None}]
    /\ pty \in [Chan -> Size \cup {None}]
    /\ queue \in Seq(Bridge!Event) /\ inbox \in Seq(Bridge!Event)
    /\ owed \in Nat /\ permit \in BOOLEAN
    /\ drain \in {"out", "empty", "waiting", "woken"}

\* A drain never sleeps through an event: while one is queued and drain waits, the
\* notification that will wake it is still to come, although push notifies outside
\* the lock and drain looks at the queue before it waits (events.rs).
NoSleepWithEvents == drain = "waiting" /\ queue # <<>> => owed > 0

\* Why: a drain that found the queue empty and has not waited yet finds the permit of
\* any push since; and only a consumer with nothing in hand calls drain.
WakeInv ==
    /\ NoSleepWithEvents
    /\ drain = "waiting" => ~permit
    /\ drain = "empty" /\ queue # <<>> => owed > 0 \/ permit
    /\ drain # "out" => inbox = <<>>

\* A connection is nobody's before its id is issued; a handler reports after the
\* transport is gone, and disconnect goes on after the session left the registry; the
\* cell of a registered session holds the id from when it is published.
TaskInv ==
    /\ \A h \in Conn : h >= nextConn =>
           handler[h] = "idle" /\ connecting[h] = "no" /\ closing[h] = "no" /\ h \notin alive
    /\ \A h \in Conn : handler[h] = "report" => h \notin alive /\ connecting[h] = "done"
    /\ \A h \in Conn : closing[h] # "no" => h \notin sessions /\ connecting[h] = "done"
    /\ \A h \in sessions : connecting[h] = "inserted" \/ h \in cell
    /\ \A h \in cell : connecting[h] = "done"
    /\ \A k \in Opener : opener[k] # NoOpen => opener[k].conn < nextConn

\* Every event reaches the consumer even if the timeout never fires.
EventsDelivered == queue # <<>> ~> queue = <<>>

\* disconnect returns and reports the close, whatever the transport does, unless a
\* server that stays connected leaves an openShell unanswered: that call holds the
\* connection's handle for as long (disconnect of session.rs, open_shell of channel.rs).
DisconnectEnds ==
    \A h \in Conn :
        []<>(h \notin alive \/ ~Locked(h)) => (closing[h] = "removed" ~> closing[h] = "done")

\* "so a network-drop emission cannot double-report an application close" (comment on
\* session_id_cell): what disconnect has reported closed is not reported again.
Reports(h) == Len(queue') > Len(queue) /\ queue'[Len(queue')] = Bridge!SessionClosed(h)
SingleEmission == [][\A h \in Conn : closing[h] = "done" => ~Reports(h)]_vars

\* The tasks implement the bridge that packages/core relies on: whatever their
\* interleaving, each connection, close, shell and report is one step of SshBridge,
\* events come out once each, in the order they went in, and no drop of a registered
\* connection goes unreported once its id is published.
ImplementsBridge == Bridge!BridgeSpec

=============================================================================
