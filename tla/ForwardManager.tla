--------------------------- MODULE ForwardManager ---------------------------
(* ForwardManager (packages/core/src/forwards.ts) over the forwards of ssh-core.

   An action is the code from one await to the next, with the effect of the bridge
   call it ends in; the continuation is an action of its own.  A start that is
   rejected changes nothing in open*, so that needs no action.  The port a row
   shows, its description and its note are left out.                            *)
EXTENDS SshForwards

CONSTANTS
    MaxRecord,  \* bound: rows ever listed
    Call,       \* slots for open and close calls in flight
    Rebuilder   \* rebuildForSession calls, each made once

ASSUME RecordBounds == MaxRecord \in Nat \ {0}

Record == 1 .. MaxRecord

VARIABLES
    nextRecord, \* the next fresh row id, in the order of #records
    records,    \* keys of #records
    row,        \* the record objects, which a rebuild holds even when not listed
    index,      \* #byBridgeId
    used,       \* listed rows with an accepted connection: acceptedCount > 0, lastPeer set
    call,       \* open and close calls in flight
    rebuild     \* rebuildForSession calls

rowVars == <<nextRecord, records, row, index, used>>
vars == <<sshVars, rowVars, call, rebuild>>

Row == [request : Request, session : Session, bridge : Forward]
NoRow == [bridge |-> None]
NoCall == [op |-> "none"]
CallType ==
    {NoCall} \cup [op : {"open"}, new : Row] \cup [op : {"close"}, id : Record]
RebuildType ==
    [at : {"unused", "done"}] \cup
    [at : {"starting"}, id : Record, todo : SUBSET Record, to : Session, res : Forward \cup {None}] \cup
    [at : {"asking"}, id : Record, todo : SUBSET Record, to : Session, res : Forward]

Init ==
    /\ SshInit
    /\ nextRecord = 1 /\ records = {} /\ used = {}
    /\ row = [r \in Record |-> NoRow]
    /\ index = [f \in Forward |-> None]
    /\ call = [k \in Call |-> NoCall]
    /\ rebuild = [b \in Rebuilder |-> [at |-> "unused"]]

----------------------------------------------------------------------------
\* openLocal, openRemote and openSocks up to their first await.
OpenCall(k, h, request, f) ==
    /\ call[k] = NoCall
    /\ Start(f, h, request)
    /\ call' = [call EXCEPT ![k] =
           [op |-> "open", new |-> [request |-> request, session |-> h, bridge |-> f]]]
    /\ UNCHANGED <<rowVars, rebuild>>

\* A bug: the row is listed and its bridge id is not.
OpenListedUnindexed(k, r) ==
    /\ call[k].op = "open"
    /\ r = nextRecord /\ r <= MaxRecord
    /\ nextRecord' = nextRecord + 1
    /\ records' = records \cup {r}
    /\ row' = [row EXCEPT ![r] = call[k].new]
    /\ call' = [call EXCEPT ![k] = NoCall]
    /\ UNCHANGED <<sshVars, index, used, rebuild>>

\* #open once its forward has started and its bound port is known or not.
OpenListed(k, r) ==
    /\ call[k].op = "open"
    /\ r = nextRecord /\ r <= MaxRecord
    /\ nextRecord' = nextRecord + 1
    /\ records' = records \cup {r}
    /\ row' = [row EXCEPT ![r] = call[k].new]
    /\ index' = [index EXCEPT ![call[k].new.bridge] = r]
    /\ call' = [call EXCEPT ![k] = NoCall]
    /\ UNCHANGED <<sshVars, used, rebuild>>

\* A bug: the row goes without asking the bridge to close its forward.
CloseCallLocally(k, r) ==
    /\ call[k] = NoCall
    /\ r \in records
    /\ call' = [call EXCEPT ![k] = [op |-> "close", id |-> r]]
    /\ UNCHANGED <<sshVars, rowVars, rebuild>>

\* close: the forward the row has now is closed, or was gone and the call rejects.
CloseCall(k, r) ==
    /\ call[k] = NoCall
    /\ r \in records
    /\ CloseForward(row[r].bridge)
    /\ call' = [call EXCEPT ![k] = [op |-> "close", id |-> r]]
    /\ UNCHANGED <<rowVars, rebuild>>

\* #forget, whether the bridge closed the forward or refused.
CloseReply(k) ==
    /\ call[k].op = "close"
    /\ LET r == call[k].id
       IN  /\ index' = IF r \in records THEN [index EXCEPT ![row[r].bridge] = None] ELSE index
           /\ records' = records \ {r}
           /\ used' = used \ {r}
    /\ call' = [call EXCEPT ![k] = NoCall]
    /\ UNCHANGED <<sshVars, nextRecord, row, rebuild>>

\* A bug: the bridge id is taken for the row's own.
HandleAcceptedByForward ==
    /\ accepted # <<>>
    /\ accepted' = Tail(accepted)
    /\ used' = IF Head(accepted) \in records THEN used \cup {Head(accepted)} ELSE used
    /\ UNCHANGED <<nextForward, forwards, started, accepting, remotes, up, served,
                   nextRecord, records, row, index, call, rebuild>>

\* handleEvent of forwardAccepted, called by the session manager's drain loop.
HandleAccepted ==
    /\ accepted # <<>>
    /\ accepted' = Tail(accepted)
    /\ LET r == index[Head(accepted)]
       IN  used' = IF r \in records THEN used \cup {r} ELSE used
    /\ UNCHANGED <<nextForward, forwards, started, accepting, remotes, up, served,
                   nextRecord, records, row, index, call, rebuild>>

----------------------------------------------------------------------------
\* What is awaited for record r: its start, which the bridge answered with res, or
\* the bound port of that forward.
RebuildAt(at, r, todo, to, res) ==
    [at |-> at, id |-> r, todo |-> todo, to |-> to, res |-> res]

\* rebuildForSession from the top of its loop to the next await: the next record of
\* those it has captured loses its index entry and is started on the new session.
RebuildNext(b, to, todo, idx) ==
    \/ /\ todo = {}
       /\ rebuild' = [rebuild EXCEPT ![b] = [at |-> "done"]]
       /\ index' = idx
       /\ UNCHANGED sshVars
    \/ \E r \in todo :
       /\ \A j \in todo : r <= j
       /\ index' = [idx EXCEPT ![row[r].bridge] = None]
       /\ \/ /\ rebuild' = [rebuild EXCEPT ![b] = RebuildAt("starting", r, todo \ {r}, to, None)]
             /\ UNCHANGED sshVars
          \/ \E f \in Forward :
             /\ rebuild' = [rebuild EXCEPT ![b] = RebuildAt("starting", r, todo \ {r}, to, f)]
             /\ Start(f, to, row[r].request)

RebuildCall(b, from, to) ==
    /\ rebuild[b].at = "unused"
    /\ RebuildNext(b, to, {r \in records : row[r].session = from}, index)
    /\ UNCHANGED <<nextRecord, records, row, used, call>>

\* The start was refused: a forward that will not come back is not listed.
RebuildRefused(b) ==
    LET t == rebuild[b]
    IN  /\ t.at = "starting" /\ t.res = None
        /\ records' = records \ {t.id}
        /\ used' = used \ {t.id}
        /\ RebuildNext(b, t.to, t.todo, index)
        /\ UNCHANGED <<nextRecord, row, call>>

\* A bug: a refused start is taken for one that succeeded.
RebuildStartedAnyway(b) ==
    LET t == rebuild[b]
    IN  /\ t.at = "starting"
        /\ row' = [row EXCEPT ![t.id] =
               [request |-> row[t.id].request, session |-> t.to, bridge |-> t.res]]
        /\ rebuild' = [rebuild EXCEPT ![b] = RebuildAt("asking", t.id, t.todo, t.to, t.res)]
        /\ UNCHANGED <<sshVars, nextRecord, records, index, used, call>>

\* The forward runs on the new session: the record takes it over.
RebuildStarted(b) ==
    LET t == rebuild[b]
    IN  /\ t.at = "starting" /\ t.res # None
        /\ row' = [row EXCEPT ![t.id] =
               [request |-> row[t.id].request, session |-> t.to, bridge |-> t.res]]
        /\ rebuild' = [rebuild EXCEPT ![b] = RebuildAt("asking", t.id, t.todo, t.to, t.res)]
        /\ UNCHANGED <<sshVars, nextRecord, records, index, used, call>>

\* The bound port is known or not; the record is indexed, listed or not.
RebuildIndexed(b) ==
    LET t == rebuild[b]
    IN  /\ t.at = "asking"
        /\ RebuildNext(b, t.to, t.todo, [index EXCEPT ![t.res] = t.id])
        /\ UNCHANGED <<nextRecord, records, row, used, call>>

----------------------------------------------------------------------------
Network ==
    /\ \/ \E f \in Forward : Accept(f) \/ AcceptEnds(f)
       \/ \E h \in Session : SessionEnds(h)
    /\ UNCHANGED <<rowVars, call, rebuild>>

Caller(k) ==
    \/ \E h \in Session, request \in Request, f \in Forward : OpenCall(k, h, request, f)
    \/ \E r \in Record : OpenListed(k, r) \/ CloseCall(k, r)
    \/ CloseReply(k)

Rebuilding(b) ==
    \/ \E from \in Session : \E to \in Session \ {from} : RebuildCall(b, from, to)
    \/ RebuildRefused(b) \/ RebuildStarted(b) \/ RebuildIndexed(b)

Next ==
    \/ \E k \in Call : Caller(k)
    \/ \E b \in Rebuilder : Rebuilding(b)
    \/ HandleAccepted
    \/ Network

Spec == Init /\ [][Next]_vars

\* The drain loop runs for as long as the app does.
Fairness == WF_vars(HandleAccepted)

FairSpec == Spec /\ Fairness

----------------------------------------------------------------------------
\* Rows, index, calls and bridge hold values of their types.
TypeOK ==
    /\ SshTypeOK
    /\ nextRecord \in 1 .. MaxRecord + 1
    /\ records \subseteq Record /\ used \subseteq records
    /\ row \in [Record -> Row \cup {NoRow}]
    /\ index \in [Forward -> Record \cup {None}]
    /\ call \in [Call -> CallType]
    /\ rebuild \in [Rebuilder -> RebuildType]

Held(r) == \E b \in Rebuilder : rebuild[b].at \in {"starting", "asking"} /\ rebuild[b].id = r

\* Record objects are made once and keep their id.
Known ==
    /\ \A r \in Record : r < nextRecord => row[r] \in Row
    /\ \A r \in records : r < nextRecord
    /\ \A k \in Call : call[k].op = "close" => call[k].id < nextRecord
    /\ \A b \in Rebuilder : rebuild[b].at \in {"starting", "asking"} =>
           \A r \in rebuild[b].todo \cup {rebuild[b].id} : r < nextRecord

\* A forward belongs to one record, one open call or one rebuild.
RowOwns(r, f) ==
    \/ r < nextRecord /\ row[r].bridge = f
    \/ \E b \in Rebuilder : rebuild[b].at = "asking" /\ rebuild[b].id = r /\ rebuild[b].res = f
CallOwns(k, f) == call[k].op = "open" /\ call[k].new.bridge = f
RebuildOwns(b, f) == rebuild[b].at = "starting" /\ rebuild[b].res = f

OneOwner ==
    \A f \in Forward :
        /\ \A r, s \in Record : RowOwns(r, f) /\ RowOwns(s, f) => r = s
        /\ \A k, l \in Call : CallOwns(k, f) /\ CallOwns(l, f) => k = l
        /\ \A b, c \in Rebuilder : RebuildOwns(b, f) /\ RebuildOwns(c, f) => b = c
        /\ \A r \in Record, k \in Call : ~(RowOwns(r, f) /\ CallOwns(k, f))
        /\ \A r \in Record, b \in Rebuilder : ~(RowOwns(r, f) /\ RebuildOwns(b, f))
        /\ \A k \in Call, b \in Rebuilder : ~(CallOwns(k, f) /\ RebuildOwns(b, f))
        /\ \/ f < nextForward
           \/ /\ \A r \in Record : ~RowOwns(r, f)
              /\ \A k \in Call : ~CallOwns(k, f)
              /\ \A b \in Rebuilder : ~RebuildOwns(b, f)

\* A listed row is indexed, or a rebuild is about to change or to index its forward.
IndexInv ==
    \A r \in records :
        \/ index[row[r].bridge] = r
        \/ \E b \in Rebuilder :
            \/ rebuild[b].at = "starting" /\ rebuild[b].id = r
            \/ rebuild[b].at = "asking" /\ rebuild[b].id = r /\ rebuild[b].res = row[r].bridge

\* The events of a listed forward find its row: whatever opens, closes and rebuilds
\* overlap, a row that no rebuild is at work on is indexed under the bridge id it
\* shows (#byBridgeId and #records, forwards.ts).
RowIndexed == \A r \in records : ~Held(r) => index[row[r].bridge] = r

\* While nothing was rebuilt, no forward runs that the user cannot close: each entry
\* of the bridge belongs to a listed row or to an open call that is about to list it.
NoOrphan ==
    (\A b \in Rebuilder : rebuild[b].at = "unused") =>
        \A f \in forwards :
            \/ \E r \in records : row[r].bridge = f
            \/ \E k \in Call : call[k].op = "open" /\ call[k].new.bridge = f

\* Why: a row leaves the list only after the bridge let go of its forward.
ClosedGone ==
    (\A b \in Rebuilder : rebuild[b].at = "unused") =>
        \A k \in Call : call[k].op = "close" /\ call[k].id \in records =>
            row[call[k].id].bridge \notin forwards

\* A listed remote forward gets the channels its server opens for it, if no other
\* forward has its port: closing or rebuilding others does not take its route away.
RemoteRowReached ==
    \A r \in records :
        LET f == row[r].bridge
            port == started[f].port
        IN  /\ started[f].kind = "remote"
            /\ ~Held(r)
            /\ ~ \E k \in Call : call[k].op = "close" /\ call[k].id = r
            /\ \A g \in remotes \ {f} : started[g].port # port
            => Targets(port) = {f}

\* A connection accepted for a row is shown on it, unless the row is closed or
\* rebuilt first.
ConnectionShown ==
    \A f \in Forward :
        (\E i \in DOMAIN accepted : accepted[i] = f) /\ index[f] \in records
            ~> index[f] \in used \/ index[f] \notin records

=============================================================================
