------------------------------ MODULE SshBridge ------------------------------
(* The bridge as packages/core sees it: the handle tables of ssh-core (sessions
   and shell channels), the network under them, and the one upward event queue.
   Each action is the effect of one bridge call, or of one thing the network or
   the remote shell does by itself.  A call that fails changes nothing here, so
   failure is a choice of the caller.

   The reply of a call is not in this module: the caller keeps it, because the
   events of what the call created can be delivered before the reply is.        *)
EXTENDS Integers, Sequences, FiniteSets

CONSTANTS
    MaxConn,   \* bound: connections ever established
    MaxChan,   \* bound: shell channels ever opened
    MaxQueue,  \* bound: events queued and not yet taken
    Size       \* terminal sizes a caller may ask for

ASSUME BridgeBounds == MaxConn \in Nat \ {0} /\ MaxChan \in Nat \ {0} /\ MaxQueue \in Nat

Conn == 1 .. MaxConn
Chan == 1 .. MaxChan
None == 0

VARIABLES
    nextConn,    \* id the session registry issues next
    nextChan,    \* id the channel registry issues next
    registered,  \* sessions in the registry; a network drop does not remove one
    fresh,       \* registered, and the id not yet published to the handler
    leaving,     \* out of the registry by a disconnect that has yet to report
    up,          \* connections whose transport still works
    shells,      \* channel entries, the writable half of a shell
    pumps,       \* channels whose pump task still reads
    chanConn,    \* the connection a channel runs on
    pty,         \* the size the remote side last heard for a channel
    events       \* the event queue, oldest first

bridgeVars ==
    <<nextConn, nextChan, registered, fresh, leaving, up, shells, pumps, chanConn, pty,
      events>>

SessionClosed(h) == [kind |-> "sessionClosed", id |-> h]
ChannelClosed(c) == [kind |-> "channelClosed", id |-> c]
Event ==
    [kind : {"sessionClosed"}, id : Conn] \cup [kind : {"channelClosed"}, id : Chan]

BridgeInit ==
    /\ nextConn = 1 /\ nextChan = 1
    /\ registered = {} /\ fresh = {} /\ leaving = {} /\ up = {}
    /\ shells = {} /\ pumps = {}
    /\ chanConn = [c \in Chan |-> None]
    /\ pty = [c \in Chan |-> None]
    /\ events = <<>>

BridgeTypeOK ==
    /\ nextConn \in 1 .. MaxConn + 1
    /\ nextChan \in 1 .. MaxChan + 1
    /\ registered \subseteq Conn /\ up \subseteq Conn
    /\ fresh \subseteq Conn /\ leaving \subseteq Conn
    /\ shells \subseteq Chan /\ pumps \subseteq Chan
    /\ chanConn \in [Chan -> Conn \cup {None}]
    /\ pty \in [Chan -> Size \cup {None}]
    /\ events \in Seq(Event)

----------------------------------------------------------------------------
Push(e) == Len(events) < MaxQueue /\ events' = Append(events, e)

\* A connect that succeeds: transport, host key and credential all accepted.  The
\* transport may be lost again by then; nobody reports that one closed.
SshConnect(h) ==
    /\ h = nextConn /\ h <= MaxConn
    /\ nextConn' = nextConn + 1
    /\ registered' = registered \cup {h}
    /\ fresh' = fresh \cup {h}
    /\ up' = up \cup {h} \/ up' = up
    /\ UNCHANGED <<nextChan, leaving, shells, pumps, chanConn, pty, events>>

\* The handler learns the id; connect returns after that.
Publish(h) ==
    /\ h \in fresh
    /\ fresh' = fresh \ {h}
    /\ UNCHANGED <<nextConn, nextChan, registered, leaving, up, shells, pumps, chanConn,
                   pty, events>>

\* disconnect begins for any registered session, dropped or not; for an id that is
\* not registered it only fails.
SshDisconnect(h) ==
    /\ registered' = registered \ {h}
    /\ leaving' = leaving \cup ({h} \cap registered)
    /\ UNCHANGED <<nextConn, nextChan, fresh, up, shells, pumps, chanConn, pty, events>>

\* It reports the close once the transport has been told, which waits for the
\* openShell calls that hold the connection's handle.
DisconnectReported(h) ==
    /\ h \in leaving
    /\ leaving' = leaving \ {h}
    /\ Push(SessionClosed(h))
    /\ UNCHANGED <<nextConn, nextChan, registered, fresh, up, shells, pumps, chanConn, pty>>

\* openShell that succeeds: the pump task is running before the call returns.  That
\* the session is registered and up is looked at when the call starts, so that is
\* its caller's to say.
SshOpenShell(h, size, c) ==
    /\ h < nextConn
    /\ c = nextChan /\ c <= MaxChan
    /\ nextChan' = nextChan + 1
    /\ shells' = shells \cup {c}
    /\ pumps' = pumps \cup {c}
    /\ chanConn' = [chanConn EXCEPT ![c] = h]
    /\ pty' = [pty EXCEPT ![c] = size]
    /\ UNCHANGED <<nextConn, registered, fresh, leaving, up, events>>

SshResize(c, size) ==
    /\ pty' = IF c \in shells THEN [pty EXCEPT ![c] = size] ELSE pty
    /\ UNCHANGED <<nextConn, nextChan, registered, fresh, leaving, up, shells, pumps, chanConn,
                   events>>

\* The entry goes at once; the pump ends when the server answers the close.
SshCloseChannel(c) ==
    /\ shells' = shells \ {c}
    /\ UNCHANGED <<nextConn, nextChan, registered, fresh, leaving, up, pumps, chanConn, pty,
                   events>>

\* A bug: the handler reports one drop of the transport again and again.
NetworkDropRepeats(h) ==
    /\ h \in up \ fresh
    /\ Push(SessionClosed(h))
    /\ UNCHANGED <<nextConn, nextChan, registered, fresh, leaving, up, shells, pumps, chanConn,
                   pty>>

\* The transport of a connection is lost and its handler, which read the id while it
\* was published, reports it, also when a disconnect has begun in between.
NetworkDrop(h) ==
    /\ h \in up \ fresh
    /\ up' = up \ {h}
    /\ Push(SessionClosed(h))
    /\ UNCHANGED <<nextConn, nextChan, registered, fresh, leaving, shells, pumps, chanConn,
                   pty>>

\* The transport ends and the handler has no id to report: it is not published yet,
\* or disconnect has taken it back.
SilentDrop(h) ==
    /\ h \in up
    /\ h \in registered => h \in fresh
    /\ up' = up \ {h}
    /\ UNCHANGED <<nextConn, nextChan, registered, fresh, leaving, shells, pumps, chanConn,
                   pty, events>>

\* A pump reads EOF, a close, or the end of its connection; it reports and stops.
PumpEnds(c) ==
    /\ c \in pumps
    /\ pumps' = pumps \ {c}
    /\ shells' = shells \ {c}
    /\ Push(ChannelClosed(c))
    /\ UNCHANGED <<nextConn, nextChan, registered, fresh, leaving, up, chanConn, pty>>

\* The caller takes the oldest event off the queue.
TakeEvent ==
    /\ events # <<>>
    /\ events' = Tail(events)
    /\ UNCHANGED <<nextConn, nextChan, registered, fresh, leaving, up, shells, pumps, chanConn,
                   pty>>

BridgeStep ==
    \/ \E h \in Conn :
          \/ SshConnect(h) \/ Publish(h)
          \/ SshDisconnect(h) \/ DisconnectReported(h)
          \/ NetworkDrop(h) \/ SilentDrop(h)
    \/ \E h \in Conn, s \in Size, c \in Chan : SshOpenShell(h, s, c)
    \/ \E c \in Chan : SshCloseChannel(c) \/ PumpEnds(c)
    \/ \E c \in Chan, s \in Size : SshResize(c, s)
    \/ TakeEvent

\* The bridge under any caller.
BridgeSpec == BridgeInit /\ [][BridgeStep]_bridgeVars

=============================================================================
