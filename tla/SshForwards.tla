---------------------------- MODULE SshForwards ----------------------------
(* The port forwards of ssh-core as packages/core sees them: the handle table, the
   accept loops of local and SOCKS forwards (which differ only in what they do with
   a connection, so both are "local" here), the table that routes the channels a
   server opens for remote forwards, and what the servers listen on.            *)
EXTENDS Integers, Sequences, FiniteSets

CONSTANTS
    MaxForward,  \* bound: forwards ever started
    MaxAccepted, \* bound: ForwardAccepted events queued and not yet taken
    Session,     \* session handles, all connected at first
    Port,        \* ports
    AnyPort,     \* "pick one for me", the port 0
    Ask          \* what callers ask for, ports and AnyPort

ASSUME ForwardBounds ==
    /\ MaxForward \in Nat \ {0} /\ MaxAccepted \in Nat
    /\ AnyPort \notin Port /\ Ask \subseteq Port \cup {AnyPort}

Forward == 1 .. MaxForward
None == 0

VARIABLES
    nextForward, \* id the registry issues next
    forwards,    \* entries of the registry
    started,     \* what each forward was started as, with the port it got
    accepting,   \* forwards whose accept loop holds its listening socket
    remotes,     \* REMOTE_FORWARDS: destinations of the channels servers open
    up,          \* sessions whose transport works
    served,      \* <<session, port>> the servers listen on
    accepted     \* ForwardAccepted events, oldest first

sshVars ==
    <<nextForward, forwards, started, accepting, remotes, up, served, accepted>>

\* What a caller asks for, and what it got.
Request == [kind : {"local", "remote"}, port : Ask]
Started == [kind : {"local", "remote"}, port : Port, session : Session]
Unstarted == [kind |-> "none"]

SshInit ==
    /\ nextForward = 1
    /\ forwards = {} /\ accepting = {} /\ remotes = {} /\ served = {}
    /\ started = [f \in Forward |-> Unstarted]
    /\ up = Session
    /\ accepted = <<>>

SshTypeOK ==
    /\ nextForward \in 1 .. MaxForward + 1
    /\ forwards \subseteq Forward /\ accepting \subseteq Forward /\ remotes \subseteq Forward
    /\ started \in [Forward -> Started \cup {Unstarted}]
    /\ up \subseteq Session
    /\ served \subseteq Session \X Port
    /\ accepted \in Seq(Forward)

----------------------------------------------------------------------------
Insert(f, kind, h, port) ==
    /\ f = nextForward /\ f <= MaxForward
    /\ nextForward' = nextForward + 1
    /\ forwards' = forwards \cup {f}
    /\ started' = [started EXCEPT ![f] = [kind |-> kind, port |-> port, session |-> h]]

Fits(port, request) == request.port \in {port, AnyPort}

\* forward_local and forward_socks that succeed: no open listener holds the port.  The
\* session has to be registered, which it may be long after its transport is lost.
StartLocal(f, h, request) ==
    \E port \in Port :
        /\ Fits(port, request)
        /\ \A g \in accepting : started[g].port # port
        /\ Insert(f, "local", h, port)
        /\ accepting' = accepting \cup {f}
        /\ UNCHANGED <<remotes, up, served, accepted>>

\* forward_remote that succeeds: the server was not listening on that port yet.
StartRemote(f, h, request) ==
    \E port \in Port :
        /\ h \in up
        /\ Fits(port, request)
        /\ <<h, port>> \notin served
        /\ Insert(f, "remote", h, port)
        /\ remotes' = remotes \cup {f}
        /\ served' = served \cup {<<h, port>>}
        /\ UNCHANGED <<accepting, up, accepted>>

Start(f, h, request) ==
    \/ request.kind = "local" /\ StartLocal(f, h, request)
    \/ request.kind = "remote" /\ StartRemote(f, h, request)

\* close_forward: out of both tables, and the accept loop told to end.  The server is
\* not told, it goes on listening.  For a handle that is gone it only fails.
CloseForward(f) ==
    /\ forwards' = forwards \ {f}
    /\ remotes' = remotes \ {f}
    /\ UNCHANGED <<nextForward, started, accepting, up, served, accepted>>

\* A connection on the listening socket; a loop told to end may take one more.
Accept(f) ==
    /\ f \in accepting
    /\ Len(accepted) < MaxAccepted
    /\ accepted' = Append(accepted, f)
    /\ UNCHANGED <<nextForward, forwards, started, accepting, remotes, up, served>>

\* The loop ends, told to or because accept failed, and takes its entry with it.
AcceptEnds(f) ==
    /\ f \in accepting
    /\ accepting' = accepting \ {f}
    /\ forwards' = forwards \ {f}
    /\ UNCHANGED <<nextForward, started, remotes, up, served, accepted>>

\* The transport of a session ends, lost or disconnected.  Its listeners and its table
\* entries stay; what its server listened on ends.
SessionEnds(h) ==
    /\ h \in up
    /\ up' = up \ {h}
    /\ served' = {s \in served : s[1] # h}
    /\ UNCHANGED <<nextForward, forwards, started, accepting, remotes, accepted>>

----------------------------------------------------------------------------
\* A bug: any destination in the table will do.
TargetsArbitrary(port) == remotes

\* remote_forward_target: the forwards a channel opened for `port` may reach.  The
\* table does not know of servers, and of several matches any may be found first.
Targets(port) ==
    LET exact == {f \in remotes : started[f].port = port}
    IN  IF exact = {} /\ Cardinality(remotes) = 1 THEN remotes ELSE exact

=============================================================================
