------------------------ MODULE ForwardManagerProofs ------------------------
(* What TLAPS proves of ForwardManager for every value of its constants.        *)
EXTENDS ForwardManager, TLAPS

USE ForwardBounds, RecordBounds DEF Forward, Record, None

LEMMA InitTypeOK == Init => TypeOK
<1> SUFFICES ASSUME Init PROVE TypeOK
  OBVIOUS
<1>1. SshTypeOK
  BY DEF Init, SshInit, SshTypeOK
<1>2. call \in [Call -> CallType] /\ rebuild \in [Rebuilder -> RebuildType]
  BY DEF Init, CallType, RebuildType
<1>3. QED
  BY <1>1, <1>2 DEF Init, TypeOK

(* The calls and the network keep the bridge well typed. *)
LEMMA StartTypes ==
    ASSUME SshTypeOK, NEW f \in Forward, NEW h \in Session, NEW request \in Request,
           Start(f, h, request)
    PROVE  SshTypeOK'
<1> USE DEF SshTypeOK
<1>1. ASSUME NEW port \in Port, NEW kind \in {"local", "remote"}, Insert(f, kind, h, port)
      PROVE  /\ nextForward' \in 1 .. MaxForward + 1 /\ forwards' \subseteq Forward
             /\ started' \in [Forward -> Started \cup {Unstarted}]
  BY <1>1 DEF Insert, Started
<1>2. CASE StartLocal(f, h, request)
  BY <1>1, <1>2 DEF StartLocal
<1>3. CASE StartRemote(f, h, request)
  BY <1>1, <1>3 DEF StartRemote
<1>4. QED
  BY <1>2, <1>3 DEF Start

LEMMA CloseTypes == ASSUME SshTypeOK, NEW f, CloseForward(f) PROVE SshTypeOK'
BY DEF SshTypeOK, CloseForward

LEMMA NetworkTypes ==
    ASSUME SshTypeOK,
           \/ \E f \in Forward : Accept(f) \/ AcceptEnds(f)
           \/ \E h \in Session : SessionEnds(h)
    PROVE  SshTypeOK'
<1> USE DEF SshTypeOK
<1>1. ASSUME NEW f \in Forward, Accept(f) PROVE SshTypeOK'
  BY <1>1 DEF Accept
<1>2. ASSUME NEW f \in Forward, AcceptEnds(f) PROVE SshTypeOK'
  BY <1>2 DEF AcceptEnds
<1>3. ASSUME NEW h \in Session, SessionEnds(h) PROVE SshTypeOK'
  BY <1>3 DEF SessionEnds
<1>4. QED
  BY <1>1, <1>2, <1>3

LEMMA SshStutters == ASSUME SshTypeOK, UNCHANGED sshVars PROVE SshTypeOK'
BY DEF SshTypeOK, sshVars

(* What an entry of call and of rebuild is, by its kind. *)
LEMMA OpenTyped == ASSUME TypeOK, NEW k \in Call, call[k].op = "open" PROVE call[k].new \in Row
<1>1. call[k] \in CallType
  BY DEF TypeOK
<1>2. QED
  BY <1>1 DEF CallType, NoCall

LEMMA CloseTyped == ASSUME TypeOK, NEW k \in Call, call[k].op = "close" PROVE call[k].id \in Record
<1>1. call[k] \in CallType
  BY DEF TypeOK
<1>2. QED
  BY <1>1 DEF CallType, NoCall

LEMMA RebuildTyped ==
    ASSUME TypeOK, NEW b \in Rebuilder, rebuild[b].at \in {"starting", "asking"}
    PROVE  /\ rebuild[b].id \in Record /\ rebuild[b].todo \subseteq Record
           /\ rebuild[b].to \in Session /\ rebuild[b].res \in Forward \cup {None}
           /\ rebuild[b].at = "asking" => rebuild[b].res \in Forward
<1>1. rebuild[b] \in RebuildType
  BY DEF TypeOK
<1>2. QED
  BY <1>1 DEF RebuildType

LEMMA RebuildAtTyped ==
    ASSUME NEW r \in Record, NEW todo \in SUBSET Record, NEW to \in Session,
           NEW res \in Forward \cup {None}
    PROVE  /\ RebuildAt("starting", r, todo, to, res) \in RebuildType
           /\ res # None => RebuildAt("asking", r, todo, to, res) \in RebuildType
BY DEF RebuildAt, RebuildType

(* Whatever the loop of a rebuild does next, it stays well typed. *)
LEMMA RebuildNextTypes ==
    ASSUME TypeOK, Known, NEW b \in Rebuilder, NEW to \in Session,
           NEW todo \in SUBSET Record, \A r \in todo : r < nextRecord,
           NEW idx \in [Forward -> Record \cup {None}], RebuildNext(b, to, todo, idx)
    PROVE  /\ SshTypeOK'
           /\ index' \in [Forward -> Record \cup {None}]
           /\ rebuild' \in [Rebuilder -> RebuildType]
<1> USE DEF TypeOK
<1>1. CASE todo = {} /\ rebuild' = [rebuild EXCEPT ![b] = [at |-> "done"]] /\ index' = idx
           /\ UNCHANGED sshVars
  <2>1. [at |-> "done"] \in RebuildType
    BY DEF RebuildType
  <2>2. QED
    BY <1>1, <2>1, SshStutters
<1>2. ASSUME NEW r \in todo, index' = [idx EXCEPT ![row[r].bridge] = None],
             NEW res \in Forward \cup {None},
             rebuild' = [rebuild EXCEPT ![b] = RebuildAt("starting", r, todo \ {r}, to, res)],
             UNCHANGED sshVars \/ (res \in Forward /\ Start(res, to, row[r].request))
      PROVE  /\ SshTypeOK'
             /\ index' \in [Forward -> Record \cup {None}]
             /\ rebuild' \in [Rebuilder -> RebuildType]
  <2>1. row[r] \in Row
    BY DEF Known
  <2>2. row[r].request \in Request
    BY <2>1 DEF Row
  <2>3. SshTypeOK'
    BY <1>2, <2>2, SshStutters, StartTypes
  <2>4. RebuildAt("starting", r, todo \ {r}, to, res) \in RebuildType
    BY RebuildAtTyped
  <2>5. QED
    BY <1>2, <2>3, <2>4
<1>3. QED
  BY <1>1, <1>2 DEF RebuildNext

LEMMA CallerTypeOK == ASSUME TypeOK, Known, NEW k \in Call, Caller(k) PROVE TypeOK'
<1> USE DEF TypeOK, rowVars
<1>1. ASSUME NEW h \in Session, NEW request \in Request, NEW f \in Forward,
             OpenCall(k, h, request, f)
      PROVE  TypeOK'
  <2>1. SshTypeOK'
    BY <1>1, StartTypes DEF OpenCall
  <2>2. [request |-> request, session |-> h, bridge |-> f] \in Row
    BY DEF Row
  <2>3. call' \in [Call -> CallType]
    BY <1>1, <2>2 DEF OpenCall, CallType
  <2>4. QED
    BY <1>1, <2>1, <2>3 DEF OpenCall
<1>2. ASSUME NEW r \in Record, OpenListed(k, r) PROVE TypeOK'
  <2>1. call[k].new \in Row
    BY <1>2, OpenTyped DEF OpenListed
  <2>2. SshTypeOK'
    BY <1>2, SshStutters DEF OpenListed
  <2>3. row' \in [Record -> Row \cup {NoRow}]
    BY <1>2, <2>1 DEF OpenListed
  <2>4. index' \in [Forward -> Record \cup {None}]
    BY <1>2 DEF OpenListed
  <2>5. call' \in [Call -> CallType]
    BY <1>2 DEF OpenListed, CallType
  <2>6. QED
    BY <1>2, <2>2, <2>3, <2>4, <2>5 DEF OpenListed
<1>3. ASSUME NEW r \in Record, CloseCall(k, r) PROVE TypeOK'
  <2>1. SshTypeOK'
    BY <1>3, CloseTypes DEF CloseCall
  <2>2. call' \in [Call -> CallType]
    BY <1>3 DEF CloseCall, CallType
  <2>3. QED
    BY <1>3, <2>1, <2>2 DEF CloseCall
<1>4. CASE CloseReply(k)
  <2>1. SshTypeOK'
    BY <1>4, SshStutters DEF CloseReply
  <2>2. call' \in [Call -> CallType]
    BY <1>4 DEF CloseReply, CallType
  <2>3. index' \in [Forward -> Record \cup {None}]
    BY <1>4 DEF CloseReply
  <2>4. QED
    BY <1>4, <2>1, <2>2, <2>3 DEF CloseReply
<1>5. QED
  BY <1>1, <1>2, <1>3, <1>4 DEF Caller

LEMMA RebuildingTypeOK == ASSUME TypeOK, Known, NEW b \in Rebuilder, Rebuilding(b) PROVE TypeOK'
<1> USE DEF TypeOK
<1>1. ASSUME NEW from \in Session, NEW to \in Session, RebuildCall(b, from, to) PROVE TypeOK'
  <2>1. {r \in records : row[r].session = from} \in SUBSET Record
    BY DEF TypeOK
  <2>2. \A r \in {q \in records : row[q].session = from} : r < nextRecord
    BY DEF Known
  <2>3. QED
    BY <1>1, <2>1, <2>2, RebuildNextTypes DEF RebuildCall
<1>2. CASE RebuildRefused(b)
  <2>1. rebuild[b].to \in Session /\ rebuild[b].todo \in SUBSET Record
        /\ \A r \in rebuild[b].todo : r < nextRecord
    BY <1>2, RebuildTyped DEF RebuildRefused, Known
  <2>2. QED
    BY <1>2, <2>1, RebuildNextTypes DEF RebuildRefused
<1>3. CASE RebuildStarted(b)
  <2> DEFINE t == rebuild[b]
  <2>1. t.id \in Record /\ t.todo \in SUBSET Record /\ t.to \in Session /\ t.res \in Forward
        /\ t.id < nextRecord
    BY <1>3, RebuildTyped DEF RebuildStarted, Known
  <2>2. row[t.id].request \in Request
    BY <2>1 DEF Known, Row
  <2>3. [request |-> row[t.id].request, session |-> t.to, bridge |-> t.res] \in Row
    BY <2>1, <2>2 DEF Row
  <2>4. RebuildAt("asking", t.id, t.todo, t.to, t.res) \in RebuildType
    BY <2>1, RebuildAtTyped
  <2>5. SshTypeOK'
    BY <1>3, SshStutters DEF RebuildStarted
  <2>6. QED
    BY <1>3, <2>3, <2>4, <2>5 DEF RebuildStarted
<1>4. CASE RebuildIndexed(b)
  <2> DEFINE t == rebuild[b]
  <2>1. t.id \in Record /\ t.to \in Session /\ t.todo \in SUBSET Record
        /\ \A r \in t.todo : r < nextRecord
    BY <1>4, RebuildTyped DEF RebuildIndexed, Known
  <2>2. [index EXCEPT ![t.res] = t.id] \in [Forward -> Record \cup {None}]
    BY <2>1
  <2>3. QED
    BY <1>4, <2>1, <2>2, RebuildNextTypes DEF RebuildIndexed
<1>5. QED
  BY <1>1, <1>2, <1>3, <1>4 DEF Rebuilding

LEMMA HandleTypeOK == ASSUME TypeOK, HandleAccepted PROVE TypeOK'
<1>1. SshTypeOK'
  BY DEF HandleAccepted, TypeOK, SshTypeOK
<1>2. used' \subseteq records
  BY DEF HandleAccepted, TypeOK
<1>3. QED
  BY <1>1, <1>2 DEF HandleAccepted, TypeOK

LEMMA NextTypeOK == ASSUME TypeOK, Known, [Next]_vars PROVE TypeOK'
<1>1. CASE Network
  BY <1>1, NetworkTypes DEF Network, TypeOK, rowVars
<1>2. CASE UNCHANGED vars
  BY <1>2, SshStutters DEF vars, TypeOK, rowVars
<1>3. QED
  BY <1>1, <1>2, CallerTypeOK, RebuildingTypeOK, HandleTypeOK DEF Next

----------------------------------------------------------------------------
(* Record objects keep their place in every step. *)
LEMMA NextBounds == ASSUME TypeOK PROVE nextRecord \in Nat /\ nextForward \in Nat
BY DEF TypeOK, SshTypeOK

LEMMA RebuildNextKnown ==
    ASSUME TypeOK, Known, NEW b \in Rebuilder, NEW to, NEW idx,
           NEW todo \in SUBSET Record, \A r \in todo : r < nextRecord,
           RebuildNext(b, to, todo, idx)
    PROVE  /\ \A c \in Rebuilder \ {b} : rebuild'[c] = rebuild[c]
           /\ \/ rebuild'[b].at = "done"
              \/ /\ rebuild'[b].id \in todo /\ rebuild'[b].todo \subseteq todo
                 /\ rebuild'[b].at = "starting"
BY DEF RebuildNext, RebuildAt, TypeOK

LEMMA RebuildingKnown == ASSUME TypeOK, Known, NEW b \in Rebuilder, Rebuilding(b) PROVE Known'
<1> USE DEF Known
<1>1. ASSUME NEW todo \in SUBSET Record, \A r \in todo : r < nextRecord, NEW to, NEW idx,
             RebuildNext(b, to, todo, idx),
             UNCHANGED <<nextRecord, row, call>>, records' \subseteq records
      PROVE  Known'
  <2>1. \A c \in Rebuilder : rebuild'[c].at \in {"starting", "asking"} =>
            \A r \in rebuild'[c].todo \cup {rebuild'[c].id} : r < nextRecord
    <3> SUFFICES ASSUME NEW c \in Rebuilder, rebuild'[c].at \in {"starting", "asking"}
                 PROVE  \A r \in rebuild'[c].todo \cup {rebuild'[c].id} : r < nextRecord
      OBVIOUS
    <3>1. CASE c # b
      BY <1>1, <3>1, RebuildNextKnown
    <3>2. CASE c = b
      <4>1. rebuild'[b].id \in todo /\ rebuild'[b].todo \subseteq todo
        BY <1>1, <3>2, RebuildNextKnown
      <4>2. QED
        BY <1>1, <3>2, <4>1
    <3>3. QED
      BY <3>1, <3>2
  <2>2. QED
    BY <1>1, <2>1
<1>2. ASSUME NEW from \in Session, NEW to \in Session, RebuildCall(b, from, to) PROVE Known'
  <2>1. {r \in records : row[r].session = from} \in SUBSET Record
    BY DEF TypeOK
  <2>2. \A r \in {q \in records : row[q].session = from} : r < nextRecord
    OBVIOUS
  <2>3. QED
    BY <1>1, <1>2, <2>1, <2>2 DEF RebuildCall
<1>3. CASE RebuildRefused(b)
  <2>1. rebuild[b].todo \in SUBSET Record /\ \A r \in rebuild[b].todo : r < nextRecord
    BY <1>3, RebuildTyped DEF RebuildRefused
  <2>2. QED
    BY <1>1, <1>3, <2>1 DEF RebuildRefused
<1>4. CASE RebuildStarted(b)
  <2> DEFINE t == rebuild[b]
  <2>1. t.id \in Record /\ t.to \in Session /\ t.res \in Forward /\ t.id < nextRecord
        /\ \A r \in t.todo : r < nextRecord
    BY <1>4, RebuildTyped DEF RebuildStarted
  <2>2. [request |-> row[t.id].request, session |-> t.to, bridge |-> t.res] \in Row
    BY <2>1 DEF Row
  <2>3. \A r \in Record : r < nextRecord => row'[r] \in Row
    BY <1>4, <2>1, <2>2 DEF RebuildStarted, TypeOK
  <2>4. rebuild' = [rebuild EXCEPT ![b] = RebuildAt("asking", t.id, t.todo, t.to, t.res)]
    BY <1>4 DEF RebuildStarted
  <2>5. \A c \in Rebuilder : rebuild'[c].at \in {"starting", "asking"} =>
            \A r \in rebuild'[c].todo \cup {rebuild'[c].id} : r < nextRecord
    BY <2>1, <2>4 DEF RebuildAt, TypeOK
  <2>6. QED
    BY <1>4, <2>3, <2>5 DEF RebuildStarted
<1>5. CASE RebuildIndexed(b)
  <2>1. rebuild[b].todo \in SUBSET Record /\ \A r \in rebuild[b].todo : r < nextRecord
    BY <1>5, RebuildTyped DEF RebuildIndexed
  <2>2. QED
    BY <1>1, <1>5, <2>1 DEF RebuildIndexed
<1>6. QED
  BY <1>2, <1>3, <1>4, <1>5 DEF Rebuilding

LEMMA CallerKnown == ASSUME TypeOK, Known, NEW k \in Call, Caller(k) PROVE Known'
<1> USE DEF Known, rowVars
<1>1. ASSUME NEW h \in Session, NEW request \in Request, NEW f \in Forward,
             OpenCall(k, h, request, f)
      PROVE  Known'
  BY <1>1 DEF OpenCall, TypeOK
<1>2. ASSUME NEW r \in Record, OpenListed(k, r) PROVE Known'
  <2>1. nextRecord' = nextRecord + 1 /\ r = nextRecord /\ nextRecord \in Nat
    BY <1>2, NextBounds DEF OpenListed
  <2>2. call[k].new \in Row
    BY <1>2, OpenTyped DEF OpenListed
  <2>3. \A q \in Record : q < nextRecord' => row'[q] \in Row
    BY <1>2, <2>1, <2>2 DEF OpenListed, TypeOK
  <2>4. \A q \in records' : q < nextRecord'
    BY <1>2, <2>1 DEF OpenListed, TypeOK
  <2>5. \A l \in Call : call'[l].op = "close" => call'[l].id < nextRecord'
    <3> SUFFICES ASSUME NEW l \in Call, call'[l].op = "close" PROVE call'[l].id < nextRecord'
      OBVIOUS
    <3>1. call'[l] = call[l]
      BY <1>2 DEF OpenListed, TypeOK, NoCall
    <3>2. QED
      BY <2>1, <3>1, CloseTyped
  <2>6. \A b \in Rebuilder : rebuild'[b].at \in {"starting", "asking"} =>
            \A q \in rebuild'[b].todo \cup {rebuild'[b].id} : q < nextRecord'
    <3> SUFFICES ASSUME NEW b \in Rebuilder, rebuild[b].at \in {"starting", "asking"},
                        NEW q \in rebuild[b].todo \cup {rebuild[b].id}
                 PROVE  q < nextRecord'
      BY <1>2 DEF OpenListed
    <3>1. q \in Record /\ q < nextRecord
      BY RebuildTyped
    <3>2. QED
      BY <2>1, <3>1
  <2>7. QED
    BY <2>3, <2>4, <2>5, <2>6
<1>3. ASSUME NEW r \in Record, CloseCall(k, r) PROVE Known'
  BY <1>3 DEF CloseCall, TypeOK
<1>4. CASE CloseReply(k)
  BY <1>4 DEF CloseReply, TypeOK, NoCall
<1>5. QED
  BY <1>1, <1>2, <1>3, <1>4 DEF Caller

LEMMA NextKnown == ASSUME TypeOK, Known, [Next]_vars PROVE Known'
<1>1. CASE Network \/ HandleAccepted \/ UNCHANGED vars
  BY <1>1 DEF Network, HandleAccepted, vars, rowVars, Known
<1>2. QED
  BY <1>1, CallerKnown, RebuildingKnown DEF Next

(* Every reachable state of the forward manager is well typed. *)
THEOREM ForwardTypes == Spec => []TypeOK
<1>1. Init => TypeOK /\ Known
  BY InitTypeOK DEF Init, Known, NoCall
<1>2. (TypeOK /\ Known) /\ [Next]_vars => (TypeOK /\ Known)'
  BY NextTypeOK, NextKnown
<1>3. QED
  BY <1>1, <1>2, PTL DEF Spec

----------------------------------------------------------------------------
(* Steps seen as what they do to the owners of forwards.  Nobody new: *)
LEMMA OwnersKept ==
    ASSUME OneOwner, nextForward \in Nat, nextForward' \in Nat, nextForward' >= nextForward,
           \A f \in Forward : \A r \in Record : RowOwns(r, f)' => RowOwns(r, f),
           \A f \in Forward : \A k \in Call : CallOwns(k, f)' => CallOwns(k, f),
           \A f \in Forward : \A b \in Rebuilder : RebuildOwns(b, f)' => RebuildOwns(b, f)
    PROVE  OneOwner'
BY DEF OneOwner

(* an open call that started one; *)
LEMMA CallStartsOne ==
    ASSUME OneOwner, nextForward \in Nat, nextForward' = nextForward + 1, NEW k \in Call,
           \A f \in Forward : \A r \in Record : RowOwns(r, f)' => RowOwns(r, f),
           \A f \in Forward : \A l \in Call :
               CallOwns(l, f)' => CallOwns(l, f) \/ (l = k /\ f = nextForward),
           \A f \in Forward : \A b \in Rebuilder : RebuildOwns(b, f)' => RebuildOwns(b, f)
    PROVE  OneOwner'
BY DEF OneOwner

(* a rebuild that started one; *)
LEMMA RebuildStartsOne ==
    ASSUME OneOwner, nextForward \in Nat, nextForward' = nextForward + 1, NEW b \in Rebuilder,
           \A f \in Forward : \A r \in Record : RowOwns(r, f)' => RowOwns(r, f),
           \A f \in Forward : \A l \in Call : CallOwns(l, f)' => CallOwns(l, f),
           \A f \in Forward : \A c \in Rebuilder :
               RebuildOwns(c, f)' => RebuildOwns(c, f) \/ (c = b /\ f = nextForward)
    PROVE  OneOwner'
BY DEF OneOwner

(* and one handed over to a record, from an open call or from a rebuild. *)
LEMMA HandedOver ==
    ASSUME OneOwner, UNCHANGED nextForward, NEW r \in Record, NEW g \in Forward,
           (\E k \in Call : CallOwns(k, g)) \/ (\E b \in Rebuilder : RebuildOwns(b, g)),
           \A f \in Forward : \A s \in Record :
               RowOwns(s, f)' => RowOwns(s, f) \/ (s = r /\ f = g),
           \A f \in Forward : \A k \in Call : CallOwns(k, f)' => CallOwns(k, f) /\ f # g,
           \A f \in Forward : \A b \in Rebuilder :
               RebuildOwns(b, f)' => RebuildOwns(b, f) /\ f # g
    PROVE  OneOwner'
BY DEF OneOwner

LEMMA StartFresh ==
    ASSUME NEW f, NEW h, NEW request, Start(f, h, request)
    PROVE  f = nextForward /\ nextForward' = nextForward + 1
BY DEF Start, StartLocal, StartRemote, Insert

LEMMA CallerOneOwner ==
    ASSUME TypeOK, Known, OneOwner, NEW k \in Call, Caller(k)
    PROVE  OneOwner'
<1> USE NextBounds DEF RowOwns, CallOwns, RebuildOwns, rowVars
<1>1. ASSUME NEW h \in Session, NEW request \in Request, NEW g \in Forward,
             OpenCall(k, h, request, g)
      PROVE  OneOwner'
  <2>1. g = nextForward /\ nextForward' = nextForward + 1
    BY <1>1, StartFresh DEF OpenCall
  <2>2. \A f \in Forward : \A l \in Call :
            CallOwns(l, f)' => CallOwns(l, f) \/ (l = k /\ f = nextForward)
    BY <1>1, <2>1 DEF OpenCall, TypeOK
  <2>3. QED
    BY <1>1, <2>1, <2>2, CallStartsOne DEF OpenCall
<1>2. ASSUME NEW r \in Record, OpenListed(k, r) PROVE OneOwner'
  <2> DEFINE g == call[k].new.bridge
  <2>1. g \in Forward /\ CallOwns(k, g)
    BY <1>2, OpenTyped DEF OpenListed, Row
  <2>2. r = nextRecord /\ nextRecord' = nextRecord + 1 /\ row' = [row EXCEPT ![r] = call[k].new]
    BY <1>2 DEF OpenListed
  <2>3. \A f \in Forward : \A s \in Record :
            RowOwns(s, f)' => RowOwns(s, f) \/ (s = r /\ f = g)
    BY <1>2, <2>2 DEF OpenListed, TypeOK
  <2>4. \A f \in Forward : \A l \in Call : CallOwns(l, f)' => CallOwns(l, f) /\ l # k
    BY <1>2 DEF OpenListed, TypeOK, NoCall
  <2>5. \A f \in Forward : \A l \in Call : CallOwns(l, f)' => CallOwns(l, f) /\ f # g
    <3> SUFFICES ASSUME NEW f \in Forward, NEW l \in Call, CallOwns(l, f)'
                 PROVE  CallOwns(l, f) /\ f # g
      OBVIOUS
    <3>1. CallOwns(l, f) /\ l # k
      BY <2>4
    <3> HIDE DEF g, CallOwns
    <3>2. f # g
      BY <2>1, <3>1 DEF OneOwner
    <3>3. QED
      BY <3>1, <3>2
  <2>6. \A f \in Forward : \A b \in Rebuilder : RebuildOwns(b, f)' => RebuildOwns(b, f) /\ f # g
    BY <1>2, <2>1 DEF OpenListed, OneOwner
  <2>7. UNCHANGED nextForward
    BY <1>2 DEF OpenListed, sshVars
  <2> HIDE DEF g, RowOwns
  <2>8. QED
    BY <2>1, <2>3, <2>5, <2>6, <2>7, HandedOver
<1>3. ASSUME NEW r \in Record, CloseCall(k, r) PROVE OneOwner'
  <2>1. \A f \in Forward : \A l \in Call : CallOwns(l, f)' => CallOwns(l, f)
    BY <1>3 DEF CloseCall, TypeOK
  <2>2. UNCHANGED nextForward
    BY <1>3 DEF CloseCall, CloseForward
  <2>3. QED
    BY <1>3, <2>1, <2>2, OwnersKept DEF CloseCall
<1>4. CASE CloseReply(k)
  <2>1. \A f \in Forward : \A l \in Call : CallOwns(l, f)' => CallOwns(l, f)
    BY <1>4 DEF CloseReply, TypeOK, NoCall
  <2>2. UNCHANGED nextForward
    BY <1>4 DEF CloseReply, sshVars
  <2>3. QED
    BY <1>4, <2>1, <2>2, OwnersKept DEF CloseReply
<1>5. QED
  BY <1>1, <1>2, <1>3, <1>4 DEF Caller

(* The loop of a rebuild goes on: b gives up what it owned and may get a fresh forward. *)
LEMMA RebuildNextOneOwner ==
    ASSUME TypeOK, OneOwner, NEW b \in Rebuilder, NEW to, NEW todo, NEW idx,
           RebuildNext(b, to, todo, idx), UNCHANGED <<nextRecord, row, call>>
    PROVE  OneOwner'
<1> USE NextBounds DEF CallOwns, RebuildOwns
<1>1. \A f \in Forward : \A r \in Record : RowOwns(r, f)' => RowOwns(r, f)
  BY DEF RebuildNext, RebuildAt, RowOwns, TypeOK
<1>2. ASSUME UNCHANGED sshVars,
             \A c \in Rebuilder : rebuild'[c] = rebuild[c] \/ rebuild'[c].at = "done" \/
                 rebuild'[c].res = None
      PROVE  OneOwner'
  <2>1. \A f \in Forward : \A c \in Rebuilder : RebuildOwns(c, f)' => RebuildOwns(c, f)
    BY <1>2
  <2>2. UNCHANGED nextForward
    BY <1>2 DEF sshVars
  <2>3. QED
    BY <1>1, <2>1, <2>2, OwnersKept
<1>3. ASSUME NEW g \in Forward, NEW h, NEW request, NEW r, Start(g, h, request),
             rebuild' = [rebuild EXCEPT ![b] = RebuildAt("starting", r, todo \ {r}, to, g)]
      PROVE  OneOwner'
  <2>1. g = nextForward /\ nextForward' = nextForward + 1
    BY <1>3, StartFresh
  <2>2. \A f \in Forward : \A c \in Rebuilder :
            RebuildOwns(c, f)' => RebuildOwns(c, f) \/ (c = b /\ f = nextForward)
    BY <1>3, <2>1 DEF RebuildAt, TypeOK
  <2>3. QED
    BY <1>1, <2>1, <2>2, RebuildStartsOne
<1>4. CASE todo = {} /\ rebuild' = [rebuild EXCEPT ![b] = [at |-> "done"]] /\ UNCHANGED sshVars
  BY <1>2, <1>4 DEF TypeOK
<1>5. ASSUME NEW r,
             rebuild' = [rebuild EXCEPT ![b] = RebuildAt("starting", r, todo \ {r}, to, None)],
             UNCHANGED sshVars
      PROVE  OneOwner'
  BY <1>2, <1>5 DEF TypeOK, RebuildAt
<1>6. QED
  BY <1>3, <1>4, <1>5 DEF RebuildNext

LEMMA RebuildingOneOwner ==
    ASSUME TypeOK, Known, OneOwner, NEW b \in Rebuilder, Rebuilding(b)
    PROVE  OneOwner'
<1>1. CASE (\E from, to \in Session : RebuildCall(b, from, to)) \/ RebuildRefused(b)
           \/ RebuildIndexed(b)
  BY <1>1, RebuildNextOneOwner DEF RebuildCall, RebuildRefused, RebuildIndexed
<1>2. CASE RebuildStarted(b)
  <2> DEFINE t == rebuild[b]
             g == t.res
  <2>1. g \in Forward /\ RebuildOwns(b, g) /\ t.id \in Record
    BY <1>2, RebuildTyped DEF RebuildStarted, RebuildOwns
  <2>2. /\ row' = [row EXCEPT ![t.id] =
               [request |-> row[t.id].request, session |-> t.to, bridge |-> g]]
        /\ rebuild' = [rebuild EXCEPT ![b] = RebuildAt("asking", t.id, t.todo, t.to, g)]
        /\ UNCHANGED <<nextRecord, call, nextForward>>
    BY <1>2 DEF RebuildStarted, sshVars
  <2>3. \A f \in Forward : \A s \in Record :
            RowOwns(s, f)' => RowOwns(s, f) \/ (s = t.id /\ f = g)
    BY <2>1, <2>2 DEF RowOwns, RebuildAt, TypeOK
  <2>4. \A f \in Forward : \A k \in Call : CallOwns(k, f)' => CallOwns(k, f) /\ f # g
    BY <2>1, <2>2 DEF CallOwns, OneOwner
  <2>5. \A f \in Forward : \A c \in Rebuilder : RebuildOwns(c, f)' => RebuildOwns(c, f) /\ f # g
    <3> SUFFICES ASSUME NEW f \in Forward, NEW c \in Rebuilder, RebuildOwns(c, f)'
                 PROVE  RebuildOwns(c, f) /\ f # g
      OBVIOUS
    <3>1. RebuildOwns(c, f) /\ c # b
      BY <2>2 DEF RebuildOwns, RebuildAt, TypeOK
    <3> HIDE DEF t, g
    <3>2. f # g
      BY <2>1, <3>1 DEF OneOwner
    <3>3. QED
      BY <3>1, <3>2
  <2>6. UNCHANGED nextForward
    BY <2>2
  <2> HIDE DEF t, g
  <2>7. \E c \in Rebuilder : RebuildOwns(c, g)
    BY <2>1
  <2>8. t.id \in Record /\ g \in Forward
    BY <2>1
  <2>9. QED
    BY <2>3, <2>4, <2>5, <2>6, <2>7, <2>8, HandedOver
<1>3. QED
  BY <1>1, <1>2 DEF Rebuilding

LEMMA NextOneOwner == ASSUME TypeOK, Known, OneOwner, [Next]_vars PROVE OneOwner'
<1>1. CASE Network \/ HandleAccepted \/ UNCHANGED vars
  <2>1. UNCHANGED <<nextForward, nextRecord, row, call, rebuild>>
    BY <1>1 DEF Network, Accept, AcceptEnds, SessionEnds, HandleAccepted, vars, rowVars, sshVars
  <2>2. QED
    BY <2>1, NextBounds, OwnersKept DEF RowOwns, CallOwns, RebuildOwns
<1>2. QED
  BY <1>1, CallerOneOwner, RebuildingOneOwner DEF Next

----------------------------------------------------------------------------
(* Two listed rows show different forwards. *)
LEMMA RowsDiffer ==
    ASSUME TypeOK, Known, OneOwner, NEW r \in Record, NEW s \in Record,
           r < nextRecord, s < nextRecord, row[r].bridge = row[s].bridge
    PROVE  r = s
<1>1. row[r].bridge \in Forward
  BY DEF Known, Row
<1>2. RowOwns(r, row[r].bridge) /\ RowOwns(s, row[r].bridge)
  BY DEF RowOwns
<1>3. QED
  BY <1>1, <1>2 DEF OneOwner

LEMMA RebuildNextIndexed ==
    ASSUME TypeOK, Known, OneOwner, NEW b \in Rebuilder, NEW to,
           NEW todo \in SUBSET Record, \A r \in todo : r < nextRecord,
           NEW idx \in [Forward -> Record \cup {None}], RebuildNext(b, to, todo, idx),
           UNCHANGED row, records' \subseteq records,
           \A s \in records' :
               \/ idx[row[s].bridge] = s
               \/ \E c \in Rebuilder \ {b} :
                   \/ rebuild[c].at = "starting" /\ rebuild[c].id = s
                   \/ rebuild[c].at = "asking" /\ rebuild[c].id = s /\ rebuild[c].res = row[s].bridge
    PROVE  IndexInv'
<1> SUFFICES ASSUME NEW s \in records'
             PROVE  \/ index'[row'[s].bridge] = s
                    \/ \E c \in Rebuilder :
                        \/ rebuild'[c].at = "starting" /\ rebuild'[c].id = s
                        \/ rebuild'[c].at = "asking" /\ rebuild'[c].id = s
                           /\ rebuild'[c].res = row'[s].bridge
  BY DEF IndexInv
<1>1. s \in Record /\ s < nextRecord /\ row[s].bridge \in Forward
  BY DEF TypeOK, Known, Row
<1>2. \A c \in Rebuilder \ {b} : rebuild'[c] = rebuild[c]
  BY DEF RebuildNext, TypeOK
<1>3. CASE \E c \in Rebuilder \ {b} :
               \/ rebuild[c].at = "starting" /\ rebuild[c].id = s
               \/ rebuild[c].at = "asking" /\ rebuild[c].id = s /\ rebuild[c].res = row[s].bridge
  BY <1>2, <1>3
<1>4. CASE idx[row[s].bridge] = s
  <2>1. CASE index' = idx
    BY <1>4, <2>1
  <2>2. ASSUME NEW r \in todo, index' = [idx EXCEPT ![row[r].bridge] = None], NEW res,
               rebuild' = [rebuild EXCEPT ![b] = RebuildAt("starting", r, todo \ {r}, to, res)]
        PROVE  \/ index'[row[s].bridge] = s
               \/ rebuild'[b].at = "starting" /\ rebuild'[b].id = s
    <3>1. CASE r = s
      BY <2>2, <3>1 DEF RebuildAt, TypeOK
    <3>2. CASE r # s
      <4>1. row[r].bridge # row[s].bridge
        BY <1>1, <3>2, RowsDiffer
      <4>2. QED
        BY <1>1, <1>4, <2>2, <4>1
    <3>3. QED
      BY <3>1, <3>2
  <2>3. QED
    BY <2>1, <2>2 DEF RebuildNext
<1>5. QED
  BY <1>3, <1>4

LEMMA RebuildingIndexed ==
    ASSUME TypeOK, Known, OneOwner, IndexInv, NEW b \in Rebuilder, Rebuilding(b)
    PROVE  IndexInv'
<1>1. ASSUME NEW from \in Session, NEW to \in Session, RebuildCall(b, from, to) PROVE IndexInv'
  <2>1. {r \in records : row[r].session = from} \in SUBSET Record
        /\ \A r \in {q \in records : row[q].session = from} : r < nextRecord
    BY DEF TypeOK, Known
  <2>2. index \in [Forward -> Record \cup {None}]
    BY DEF TypeOK
  <2>3. rebuild[b].at = "unused" /\ UNCHANGED <<row, records>>
    BY <1>1 DEF RebuildCall
  <2>4. QED
    BY <1>1, <2>1, <2>2, <2>3, RebuildNextIndexed DEF RebuildCall, IndexInv
<1>2. CASE RebuildRefused(b)
  <2>1. rebuild[b].todo \in SUBSET Record /\ \A r \in rebuild[b].todo : r < nextRecord
    BY <1>2, RebuildTyped DEF RebuildRefused, Known
  <2>2. index \in [Forward -> Record \cup {None}]
    BY DEF TypeOK
  <2>3. rebuild[b].at = "starting" /\ records' = records \ {rebuild[b].id} /\ UNCHANGED row
    BY <1>2 DEF RebuildRefused
  <2>4. QED
    BY <1>2, <2>1, <2>2, <2>3, RebuildNextIndexed DEF RebuildRefused, IndexInv
<1>3. CASE RebuildStarted(b)
  <2> DEFINE t == rebuild[b]
  <2>1. /\ row' = [row EXCEPT ![t.id] =
               [request |-> row[t.id].request, session |-> t.to, bridge |-> t.res]]
        /\ rebuild' = [rebuild EXCEPT ![b] = RebuildAt("asking", t.id, t.todo, t.to, t.res)]
        /\ t.at = "starting"
        /\ UNCHANGED <<records, index>>
    BY <1>3 DEF RebuildStarted
  <2>2. \A s \in records : s # t.id => row'[s] = row[s]
    BY <2>1 DEF TypeOK
  <2>3. /\ \A c \in Rebuilder \ {b} : rebuild'[c] = rebuild[c]
        /\ rebuild'[b].at = "asking" /\ rebuild'[b].id = t.id /\ rebuild'[b].res = t.res
    BY <2>1 DEF TypeOK, RebuildAt
  <2>4. t.id \in records => row'[t.id].bridge = t.res
    BY <2>1 DEF TypeOK
  <2>5. ASSUME NEW s \in records, s # t.id
        PROVE  \/ index'[row'[s].bridge] = s
               \/ \E c \in Rebuilder \ {b} :
                   \/ rebuild'[c].at = "starting" /\ rebuild'[c].id = s
                   \/ rebuild'[c].at = "asking" /\ rebuild'[c].id = s
                      /\ rebuild'[c].res = row'[s].bridge
    BY <2>1, <2>2, <2>3, <2>5 DEF IndexInv
  <2> HIDE DEF t
  <2>6. QED
    BY <2>1, <2>3, <2>4, <2>5 DEF IndexInv
<1>4. CASE RebuildIndexed(b)
  <2> DEFINE t == rebuild[b]
             idx == [index EXCEPT ![t.res] = t.id]
  <2>1. t.todo \in SUBSET Record /\ \A r \in t.todo : r < nextRecord
    BY <1>4, RebuildTyped DEF RebuildIndexed, Known
  <2>2. t.at = "asking" /\ t.id \in Record /\ t.res \in Forward /\ UNCHANGED <<row, records>>
    BY <1>4, RebuildTyped DEF RebuildIndexed
  <2>3. idx \in [Forward -> Record \cup {None}]
    BY <2>2 DEF TypeOK
  <2>4. RowOwns(t.id, t.res)
    BY <2>2 DEF RowOwns
  <2>5. ASSUME NEW s \in records
        PROVE  \/ idx[row[s].bridge] = s
               \/ \E c \in Rebuilder \ {b} :
                   \/ rebuild[c].at = "starting" /\ rebuild[c].id = s
                   \/ rebuild[c].at = "asking" /\ rebuild[c].id = s /\ rebuild[c].res = row[s].bridge
    <3>1. s \in Record /\ row[s].bridge \in Forward /\ RowOwns(s, row[s].bridge)
      BY DEF TypeOK, Known, Row, RowOwns
    <3>2. CASE row[s].bridge = t.res
      <4>1. s = t.id
        BY <2>2, <2>4, <3>1, <3>2 DEF OneOwner
      <4>2. QED
        BY <2>2, <3>1, <3>2, <4>1 DEF TypeOK
    <3>3. CASE row[s].bridge # t.res
      <4>1. idx[row[s].bridge] = index[row[s].bridge]
        BY <3>1, <3>3 DEF TypeOK
      <4>2. QED
        BY <2>2, <3>3, <4>1 DEF IndexInv
    <3>4. QED
      BY <3>2, <3>3
  <2>6. RebuildNext(b, t.to, t.todo, idx)
    BY <1>4 DEF RebuildIndexed
  <2> HIDE DEF t, idx
  <2>7. QED
    BY <2>1, <2>2, <2>3, <2>5, <2>6, RebuildNextIndexed
<1>5. QED
  BY <1>1, <1>2, <1>3, <1>4 DEF Rebuilding

LEMMA CallerIndexed ==
    ASSUME TypeOK, Known, OneOwner, IndexInv, NEW k \in Call, Caller(k)
    PROVE  IndexInv'
<1> USE DEF IndexInv, rowVars
<1>1. ASSUME NEW h \in Session, NEW request \in Request, NEW f \in Forward,
             OpenCall(k, h, request, f)
      PROVE  IndexInv'
  BY <1>1 DEF OpenCall
<1>2. ASSUME NEW r \in Record, OpenListed(k, r) PROVE IndexInv'
  <2> DEFINE g == call[k].new.bridge
  <2>1. g \in Forward /\ CallOwns(k, g)
    BY <1>2, OpenTyped DEF OpenListed, Row, CallOwns
  <2>2. /\ r = nextRecord /\ records' = records \cup {r} /\ UNCHANGED rebuild
        /\ row' = [row EXCEPT ![r] = call[k].new] /\ index' = [index EXCEPT ![g] = r]
    BY <1>2 DEF OpenListed
  <2>3. index'[row'[r].bridge] = r
    BY <2>1, <2>2 DEF TypeOK
  <2>4. ASSUME NEW s \in records
        PROVE  row'[s] = row[s] /\ index'[row[s].bridge] = index[row[s].bridge]
    <3>1. s \in Record /\ s < nextRecord /\ row[s].bridge \in Forward /\ s # r
      BY <2>2, NextBounds DEF TypeOK, Known, Row
    <3>2. RowOwns(s, row[s].bridge)
      BY <3>1 DEF RowOwns
    <3>3. row[s].bridge # g
      BY <2>1, <3>1, <3>2 DEF OneOwner
    <3>4. QED
      BY <2>2, <3>1, <3>3 DEF TypeOK
  <2>5. QED
    BY <2>2, <2>3, <2>4
<1>3. ASSUME NEW r \in Record, CloseCall(k, r) PROVE IndexInv'
  BY <1>3 DEF CloseCall
<1>4. CASE CloseReply(k)
  <2> DEFINE r == call[k].id
  <2>1. r \in Record /\ r < nextRecord /\ records' = records \ {r} /\ UNCHANGED <<row, rebuild>>
    BY <1>4, CloseTyped DEF CloseReply, Known
  <2>2. ASSUME NEW s \in records' PROVE index'[row[s].bridge] = index[row[s].bridge]
    <3>1. s \in Record /\ s < nextRecord /\ row[s].bridge \in Forward /\ s # r
      BY <2>1 DEF TypeOK, Known, Row
    <3>2. row[s].bridge # row[r].bridge
      BY <2>1, <3>1, RowsDiffer
    <3>3. QED
      BY <1>4, <3>1, <3>2 DEF CloseReply, TypeOK
  <2>3. QED
    BY <2>1, <2>2
<1>5. QED
  BY <1>1, <1>2, <1>3, <1>4 DEF Caller

LEMMA NextIndexed ==
    ASSUME TypeOK, Known, OneOwner, IndexInv, [Next]_vars
    PROVE  IndexInv'
<1>1. CASE Network \/ HandleAccepted \/ UNCHANGED vars
  BY <1>1 DEF Network, HandleAccepted, vars, rowVars, IndexInv
<1>2. QED
  BY <1>1, CallerIndexed, RebuildingIndexed DEF Next

(* Whatever opens, closes and rebuilds overlap, and however many, a row no rebuild is
   at work on is indexed under the bridge id it shows. *)
THEOREM RowsIndexed == Spec => []RowIndexed
<1> DEFINE Inv == TypeOK /\ Known /\ OneOwner /\ IndexInv
<1>1. Init => Inv
  <2> SUFFICES ASSUME Init PROVE Inv
    OBVIOUS
  <2>1. TypeOK /\ Known /\ IndexInv
    BY InitTypeOK DEF Init, Known, NoCall, IndexInv
  <2>2. OneOwner
    BY DEF Init, NoCall, NoRow, OneOwner, RowOwns, CallOwns, RebuildOwns
  <2>3. QED
    BY <2>1, <2>2
<1>2. Inv /\ [Next]_vars => Inv'
  BY NextTypeOK, NextKnown, NextOneOwner, NextIndexed
<1>3. Inv => RowIndexed
  BY DEF IndexInv, RowIndexed, Held
<1>4. QED
  BY <1>1, <1>2, <1>3, PTL DEF Spec

----------------------------------------------------------------------------
LEMMA CallerNoOrphan ==
    ASSUME TypeOK, Known, OneOwner, NoOrphan, ClosedGone, NEW k \in Call, Caller(k)
    PROVE  NoOrphan' /\ ClosedGone'
<1> SUFFICES ASSUME \A b \in Rebuilder : rebuild'[b].at = "unused"
             PROVE  /\ \A f \in forwards' :
                          \/ \E r \in records' : row'[r].bridge = f
                          \/ \E l \in Call : call'[l].op = "open" /\ call'[l].new.bridge = f
                    /\ \A l \in Call : call'[l].op = "close" /\ call'[l].id \in records' =>
                          row'[call'[l].id].bridge \notin forwards'
  BY DEF NoOrphan, ClosedGone
<1>1. UNCHANGED rebuild
  BY DEF Caller, OpenCall, OpenListed, CloseCall, CloseReply
<1>2. \A f \in forwards :
          \/ \E r \in records : row[r].bridge = f
          \/ \E l \in Call : call[l].op = "open" /\ call[l].new.bridge = f
  BY <1>1 DEF NoOrphan
<1>3. \A l \in Call : call[l].op = "close" /\ call[l].id \in records =>
          row[call[l].id].bridge \notin forwards
  BY <1>1 DEF ClosedGone
<1> USE DEF TypeOK, rowVars
<1>4. ASSUME NEW h \in Session, NEW request \in Request, NEW g \in Forward,
             OpenCall(k, h, request, g)
      PROVE  /\ \A f \in forwards' :
                   \/ \E r \in records' : row'[r].bridge = f
                   \/ \E l \in Call : call'[l].op = "open" /\ call'[l].new.bridge = f
             /\ \A l \in Call : call'[l].op = "close" /\ call'[l].id \in records' =>
                   row'[call'[l].id].bridge \notin forwards'
  <2>1. g = nextForward /\ forwards' = forwards \cup {g}
    BY <1>4, StartFresh DEF OpenCall, Start, StartLocal, StartRemote, Insert
  <2>2. call' = [call EXCEPT ![k] =
            [op |-> "open", new |-> [request |-> request, session |-> h, bridge |-> g]]]
        /\ call[k] = NoCall /\ UNCHANGED <<records, row>>
    BY <1>4 DEF OpenCall
  <2>3. \A l \in Call \ {k} : call'[l] = call[l]
    BY <2>2
  <2>4. call'[k].op = "open" /\ call'[k].new.bridge = g
    BY <2>2
  <2>5. \A r \in records : row[r].bridge # g
    <3> SUFFICES ASSUME NEW r \in records, row[r].bridge = g PROVE FALSE
      OBVIOUS
    <3>1. RowOwns(r, g) /\ r \in Record
      BY DEF RowOwns, Known
    <3>2. QED
      BY <2>1, <3>1, NextBounds DEF OneOwner
  <2>6. \A f \in forwards' :
            \/ \E r \in records' : row'[r].bridge = f
            \/ \E l \in Call : call'[l].op = "open" /\ call'[l].new.bridge = f
    BY <1>2, <2>1, <2>2, <2>3, <2>4 DEF NoCall
  <2>7. ASSUME NEW l \in Call, call'[l].op = "close", call'[l].id \in records'
        PROVE  row'[call'[l].id].bridge \notin forwards'
    <3>1. l # k
      BY <2>4, <2>7
    <3>2. call'[l] = call[l] /\ call[l].id \in records
      BY <2>2, <2>3, <2>7, <3>1
    <3>3. row[call[l].id].bridge \notin forwards /\ row[call[l].id].bridge # g
      BY <1>3, <2>5, <2>7, <3>2
    <3>4. QED
      BY <2>1, <2>2, <3>2, <3>3
  <2>8. QED
    BY <2>6, <2>7
<1>5. ASSUME NEW r \in Record, OpenListed(k, r)
      PROVE  /\ \A f \in forwards' :
                   \/ \E s \in records' : row'[s].bridge = f
                   \/ \E l \in Call : call'[l].op = "open" /\ call'[l].new.bridge = f
             /\ \A l \in Call : call'[l].op = "close" /\ call'[l].id \in records' =>
                   row'[call'[l].id].bridge \notin forwards'
  <2>1. /\ r = nextRecord /\ records' = records \cup {r} /\ UNCHANGED forwards
        /\ row' = [row EXCEPT ![r] = call[k].new] /\ call' = [call EXCEPT ![k] = NoCall]
    BY <1>5 DEF OpenListed, sshVars
  <2>2. row'[r] = call[k].new /\ \A s \in records : row'[s] = row[s]
    BY <2>1, NextBounds DEF Known
  <2>3. \A l \in Call \ {k} : call'[l] = call[l]
    BY <2>1
  <2>4. call'[k].op = "none"
    BY <2>1 DEF NoCall
  <2>5. ASSUME NEW l \in Call, call'[l].op = "close" PROVE call'[l] = call[l] /\ call[l].id # r
    BY <2>1, <2>3, <2>4, <2>5, CloseTyped, NextBounds DEF Known
  <2>6. QED
    BY <1>2, <1>3, <2>1, <2>2, <2>3, <2>4, <2>5
<1>6. ASSUME NEW r \in Record, CloseCall(k, r)
      PROVE  /\ \A f \in forwards' :
                   \/ \E s \in records' : row'[s].bridge = f
                   \/ \E l \in Call : call'[l].op = "open" /\ call'[l].new.bridge = f
             /\ \A l \in Call : call'[l].op = "close" /\ call'[l].id \in records' =>
                   row'[call'[l].id].bridge \notin forwards'
  <2>1. /\ forwards' = forwards \ {row[r].bridge} /\ UNCHANGED <<records, row>>
        /\ call' = [call EXCEPT ![k] = [op |-> "close", id |-> r]] /\ call[k] = NoCall
    BY <1>6 DEF CloseCall, CloseForward
  <2>2. \A l \in Call \ {k} : call'[l] = call[l]
    BY <2>1
  <2>3. call'[k].op = "close" /\ call'[k].id = r /\ call[k].op = "none"
    BY <2>1 DEF NoCall
  <2>4. QED
    BY <1>2, <1>3, <2>1, <2>2, <2>3
<1>7. ASSUME CloseReply(k)
      PROVE  /\ \A f \in forwards' :
                   \/ \E s \in records' : row'[s].bridge = f
                   \/ \E l \in Call : call'[l].op = "open" /\ call'[l].new.bridge = f
             /\ \A l \in Call : call'[l].op = "close" /\ call'[l].id \in records' =>
                   row'[call'[l].id].bridge \notin forwards'
  <2>1. /\ records' = records \ {call[k].id} /\ UNCHANGED <<row, forwards>>
        /\ call' = [call EXCEPT ![k] = NoCall] /\ call[k].op = "close"
    BY <1>7 DEF CloseReply, sshVars
  <2>2. \A l \in Call \ {k} : call'[l] = call[l]
    BY <2>1
  <2>3. call'[k].op = "none"
    BY <2>1 DEF NoCall
  <2>4. QED
    BY <1>2, <1>3, <2>1, <2>2, <2>3
<1>8. QED
  BY <1>4, <1>5, <1>6, <1>7 DEF Caller

(* While nothing is rebuilt, every forward of the bridge has a row to close it with, or
   an open call about to list one. *)
THEOREM NothingOrphaned == Spec => []NoOrphan
<1> DEFINE Inv == TypeOK /\ Known /\ OneOwner /\ NoOrphan /\ ClosedGone
<1>1. Init => Inv
  <2> SUFFICES ASSUME Init PROVE Inv
    OBVIOUS
  <2>1. TypeOK /\ Known /\ NoOrphan /\ ClosedGone
    BY InitTypeOK DEF Init, SshInit, Known, NoCall, NoOrphan, ClosedGone
  <2>2. OneOwner
    BY DEF Init, NoCall, NoRow, OneOwner, RowOwns, CallOwns, RebuildOwns
  <2>3. QED
    BY <2>1, <2>2
<1>2. Inv /\ [Next]_vars => Inv'
  <2> SUFFICES ASSUME Inv, [Next]_vars PROVE NoOrphan' /\ ClosedGone'
    BY NextTypeOK, NextKnown, NextOneOwner
  <2>1. ASSUME NEW b \in Rebuilder, Rebuilding(b) PROVE NoOrphan' /\ ClosedGone'
    <3>1. ASSUME NEW to, NEW todo, NEW idx, RebuildNext(b, to, todo, idx)
          PROVE  rebuild'[b].at # "unused"
      BY <3>1 DEF RebuildNext, RebuildAt, TypeOK
    <3>2. RebuildStarted(b) => rebuild'[b].at # "unused"
      BY DEF RebuildStarted, RebuildAt, TypeOK
    <3>3. rebuild'[b].at # "unused"
      BY <2>1, <3>1, <3>2 DEF Rebuilding, RebuildCall, RebuildRefused, RebuildIndexed
    <3>4. QED
      BY <3>3 DEF NoOrphan, ClosedGone
  <2>2. CASE Network \/ HandleAccepted \/ UNCHANGED vars
    <3>1. UNCHANGED <<records, row, call, rebuild>> /\ forwards' \subseteq forwards
      BY <2>2 DEF Network, Accept, AcceptEnds, SessionEnds, HandleAccepted, vars, sshVars, rowVars
    <3>2. QED
      BY <3>1 DEF NoOrphan, ClosedGone
  <2>3. QED
    BY <2>1, <2>2, CallerNoOrphan DEF Next
<1>3. QED
  BY <1>1, <1>2, PTL DEF Spec

----------------------------------------------------------------------------
(* Routes.  A remote forward leaves the routing table only when a close call on its
   row asks for it, and that row stays on the list with the call under way.  So the
   forward that a listed row, an open call or a rebuild has is routed, unless a call
   is closing the row; one owner per forward keeps the closing of one row off the
   forwards of the others.                                                      *)
Closing(r) == \E k \in Call : call[k].op = "close" /\ call[k].id = r
Routed(f) == started[f].kind = "remote" => f \in remotes

RouteInv ==
    /\ \A r \in records : Closing(r) \/ Routed(row[r].bridge)
    /\ \A k \in Call : call[k].op = "open" => Routed(call[k].new.bridge)
    /\ \A b \in Rebuilder :
          rebuild[b].at = "starting" /\ rebuild[b].res # None => Routed(rebuild[b].res)

(* Starting a forward routes it, and changes no other. *)
LEMMA StartRouted ==
    ASSUME TypeOK, NEW f \in Forward, NEW h, NEW request, Start(f, h, request)
    PROVE  Routed(f)' /\ \A g \in Forward : Routed(g) => Routed(g)'
<1>1. ASSUME NEW port, NEW kind, Insert(f, kind, h, port)
      PROVE  /\ started'[f].kind = kind
             /\ \A g \in Forward : g # f => started'[g] = started[g]
  BY <1>1 DEF Insert, TypeOK, SshTypeOK
<1>2. CASE StartLocal(f, h, request)
  <2>1. started'[f].kind = "local" /\ UNCHANGED remotes
        /\ \A g \in Forward : g # f => started'[g] = started[g]
    BY <1>1, <1>2 DEF StartLocal
  <2>2. QED
    BY <2>1 DEF Routed
<1>3. CASE StartRemote(f, h, request)
  <2>1. remotes' = remotes \cup {f}
        /\ \A g \in Forward : g # f => started'[g] = started[g]
    BY <1>1, <1>3 DEF StartRemote
  <2>2. QED
    BY <2>1 DEF Routed
<1>4. QED
  BY <1>2, <1>3 DEF Start

(* The forwards that rows, open calls and rebuilds have are forwards. *)
LEMMA RowTyped == ASSUME TypeOK, Known, NEW r \in records PROVE r \in Record /\ row[r].bridge \in Forward
BY DEF TypeOK, Known, Row

LEMMA CallTyped ==
    ASSUME TypeOK, NEW k \in Call, call[k].op = "open"
    PROVE  call[k].new.bridge \in Forward
BY OpenTyped DEF Row

(* What is left of RouteInv when forwards stay routed. *)
LEMMA RoutesKept ==
    ASSUME TypeOK, Known, RouteInv,
           \A g \in Forward : Routed(g) => Routed(g)',
           records' \subseteq records, UNCHANGED row,
           \A r \in records' : Closing(r) => Closing(r)',
           \A k \in Call : call'[k].op = "open" =>
               \/ call'[k] = call[k]
               \/ call'[k].new.bridge \in Forward /\ Routed(call[k].new.bridge)',
           \A b \in Rebuilder : rebuild'[b].at = "starting" /\ rebuild'[b].res # None =>
               \/ rebuild'[b] = rebuild[b]
               \/ rebuild'[b].res \in Forward /\ Routed(rebuild[b].res)'
    PROVE  RouteInv'
<1>1. ASSUME NEW r \in records' PROVE Closing(r)' \/ Routed(row[r].bridge)'
  BY <1>1, RowTyped DEF RouteInv, Routed
<1>2. ASSUME NEW k \in Call, call'[k].op = "open" PROVE Routed(call[k].new.bridge)'
  BY <1>2, CallTyped DEF RouteInv, Routed
<1>3. ASSUME NEW b \in Rebuilder, rebuild'[b].at = "starting", rebuild'[b].res # None
      PROVE  Routed(rebuild[b].res)'
  BY <1>3, RebuildTyped DEF RouteInv, Routed
<1>4. QED
  BY <1>1, <1>2, <1>3 DEF RouteInv

LEMMA RebuildNextRoutes ==
    ASSUME TypeOK, Known, RouteInv, NEW b \in Rebuilder, NEW to, NEW todo, NEW idx,
           RebuildNext(b, to, todo, idx),
           UNCHANGED <<row, call>>, records' \subseteq records
    PROVE  RouteInv'
<1>1. /\ \A g \in Forward : Routed(g) => Routed(g)'
      /\ \A c \in Rebuilder : c # b => rebuild'[c] = rebuild[c]
      /\ rebuild'[b].at = "starting" /\ rebuild'[b].res # None =>
             rebuild'[b].res \in Forward /\ Routed(rebuild[b].res)'
  <2>1. CASE rebuild' = [rebuild EXCEPT ![b] = [at |-> "done"]] /\ UNCHANGED sshVars
    BY <2>1 DEF sshVars, Routed, TypeOK
  <2>2. ASSUME NEW r,
               rebuild' = [rebuild EXCEPT ![b] = RebuildAt("starting", r, todo \ {r}, to, None)],
               UNCHANGED sshVars
        PROVE  <1>1
    BY <2>2 DEF sshVars, Routed, RebuildAt, TypeOK
  <2>3. ASSUME NEW r, NEW f \in Forward,
               rebuild' = [rebuild EXCEPT ![b] = RebuildAt("starting", r, todo \ {r}, to, f)],
               Start(f, to, row[r].request)
        PROVE  <1>1
    <3>1. Routed(f)' /\ \A g \in Forward : Routed(g) => Routed(g)'
      BY <2>3, StartRouted
    <3>2. rebuild'[b].res = f /\ \A c \in Rebuilder : c # b => rebuild'[c] = rebuild[c]
      BY <2>3 DEF RebuildAt, TypeOK
    <3>3. QED
      BY <3>1, <3>2 DEF Routed
  <2>4. QED
    BY <2>1, <2>2, <2>3 DEF RebuildNext
<1>2. QED
  BY <1>1, RoutesKept DEF Closing

LEMMA RebuildingRoutes ==
    ASSUME TypeOK, Known, RouteInv, NEW b \in Rebuilder, Rebuilding(b)
    PROVE  RouteInv'
<1>1. ASSUME NEW from, NEW to, RebuildCall(b, from, to) PROVE RouteInv'
  BY <1>1, RebuildNextRoutes DEF RebuildCall
<1>2. CASE RebuildRefused(b)
  BY <1>2, RebuildNextRoutes DEF RebuildRefused
<1>3. CASE RebuildIndexed(b)
  BY <1>3, RebuildNextRoutes DEF RebuildIndexed
<1>4. CASE RebuildStarted(b)
  <2> DEFINE t == rebuild[b]
  <2>1. /\ t.at = "starting" /\ t.res # None
        /\ UNCHANGED <<started, remotes, records, call>>
        /\ row' = [row EXCEPT ![t.id] =
               [request |-> row[t.id].request, session |-> t.to, bridge |-> t.res]]
        /\ rebuild' = [rebuild EXCEPT ![b] = RebuildAt("asking", t.id, t.todo, t.to, t.res)]
    BY <1>4 DEF RebuildStarted, sshVars
  <2>2. t.id \in Record /\ t.res \in Forward /\ Routed(t.res)
    BY <2>1, RebuildTyped DEF RouteInv
  <2>3. \A c \in Rebuilder : rebuild'[c].at = "starting" => rebuild'[c] = rebuild[c]
    BY <2>1 DEF RebuildAt, TypeOK
  <2>4. /\ row'[t.id].bridge = t.res
        /\ \A r \in Record : r # t.id => row'[r] = row[r]
    BY <2>1, <2>2 DEF TypeOK
  <2>5. \A r \in records' : Closing(r)' \/ Routed(row[r].bridge)'
    BY <2>1, <2>2, <2>4, RowTyped DEF RouteInv, Routed, Closing
  <2>6. \A c \in Rebuilder : rebuild'[c].at = "starting" /\ rebuild'[c].res # None =>
            Routed(rebuild[c].res)'
    BY <2>1, <2>3 DEF RouteInv, Routed
  <2>7. QED
    BY <2>1, <2>5, <2>6 DEF RouteInv, Routed
<1>5. QED
  BY <1>1, <1>2, <1>3, <1>4 DEF Rebuilding

LEMMA CallerRoutes ==
    ASSUME TypeOK, Known, OneOwner, RouteInv, NEW k \in Call, Caller(k)
    PROVE  RouteInv'
<1>1. ASSUME NEW h \in Session, NEW request \in Request, NEW f \in Forward,
             OpenCall(k, h, request, f)
      PROVE  RouteInv'
  <2>1. /\ UNCHANGED <<records, row, rebuild>> /\ Start(f, h, request) /\ call[k] = NoCall
        /\ call' = [call EXCEPT ![k] =
               [op |-> "open", new |-> [request |-> request, session |-> h, bridge |-> f]]]
    BY <1>1 DEF OpenCall, rowVars
  <2>2. call'[k].new.bridge = f /\ \A l \in Call : l # k => call'[l] = call[l]
    BY <2>1 DEF TypeOK
  <2>3. \A r \in Record : Closing(r) => Closing(r)'
    BY <2>1, <2>2 DEF Closing, NoCall
  <2>4. QED
    BY <2>1, <2>2, <2>3, StartRouted, RoutesKept, RowTyped
<1>2. ASSUME NEW r \in Record, OpenListed(k, r) PROVE RouteInv'
  <2>1. /\ UNCHANGED <<started, remotes, rebuild>> /\ call[k].op = "open"
        /\ r = nextRecord /\ records' = records \cup {r}
        /\ row' = [row EXCEPT ![r] = call[k].new]
        /\ call' = [call EXCEPT ![k] = NoCall]
    BY <1>2 DEF OpenListed, sshVars
  <2>2. /\ row'[r] = call[k].new /\ Routed(call[k].new.bridge)
        /\ \A s \in Record : s # r => row'[s] = row[s]
        /\ \A l \in Call : l # k => call'[l] = call[l]
        /\ call'[k].op = "none"
    BY <2>1 DEF NoCall, RouteInv, TypeOK
  <2>3. \A s \in Record : Closing(s) => Closing(s)'
    BY <2>1, <2>2 DEF Closing
  <2>4. \A s \in records' : Closing(s)' \/ Routed(row[s].bridge)'
    BY <2>1, <2>2, <2>3, RowTyped DEF RouteInv, Routed
  <2>5. \A l \in Call : call'[l].op = "open" => Routed(call[l].new.bridge)'
    BY <2>1, <2>2 DEF RouteInv, Routed
  <2>6. QED
    BY <2>1, <2>4, <2>5 DEF RouteInv, Routed
<1>3. ASSUME NEW r \in Record, CloseCall(k, r) PROVE RouteInv'
  <2>1. /\ UNCHANGED <<started, records, row, rebuild>> /\ call[k] = NoCall /\ r \in records
        /\ remotes' = remotes \ {row[r].bridge}
        /\ call' = [call EXCEPT ![k] = [op |-> "close", id |-> r]]
    BY <1>3 DEF CloseCall, CloseForward, rowVars
  <2>2. /\ call'[k].op = "close" /\ call'[k].id = r
        /\ \A l \in Call : l # k => call'[l] = call[l]
    BY <2>1 DEF TypeOK
  <2>3. Closing(r)' /\ \A s \in Record : Closing(s) => Closing(s)'
    BY <2>1, <2>2 DEF Closing, NoCall
  <2>4. \A g \in Forward : g # row[r].bridge /\ Routed(g) => Routed(g)'
    BY <2>1 DEF Routed
  <2>5. RowOwns(r, row[r].bridge) /\ row[r].bridge \in Forward /\ r < nextRecord
    BY <2>1, RowTyped DEF RowOwns, Known
  <2>6. ASSUME NEW s \in records PROVE Closing(s)' \/ Routed(row[s].bridge)'
    <3>1. CASE s = r
      BY <2>3, <3>1
    <3>2. CASE s # r
      <4>1. row[s].bridge \in Forward /\ row[s].bridge # row[r].bridge /\ s \in Record
        BY <2>5, <3>2, RowTyped, RowsDiffer DEF Known
      <4>2. Closing(s) \/ Routed(row[s].bridge)
        BY DEF RouteInv
      <4>3. QED
        BY <2>1, <2>3, <2>4, <4>1, <4>2 DEF Routed
    <3>3. QED
      BY <3>1, <3>2
  <2>7. ASSUME NEW l \in Call, call'[l].op = "open" PROVE Routed(call[l].new.bridge)'
    <3>1. l # k /\ call'[l] = call[l] /\ call[l].op = "open"
      BY <2>2, <2>7
    <3>2. call[l].new.bridge \in Forward /\ CallOwns(l, call[l].new.bridge)
      BY <3>1, CallTyped DEF CallOwns
    <3>3. call[l].new.bridge # row[r].bridge
      BY <2>5, <3>2 DEF OneOwner
    <3>4. Routed(call[l].new.bridge)
      BY <3>1 DEF RouteInv
    <3>5. QED
      BY <2>4, <3>1, <3>2, <3>3, <3>4 DEF Routed
  <2>8. ASSUME NEW b \in Rebuilder, rebuild[b].at = "starting", rebuild[b].res # None
        PROVE  Routed(rebuild[b].res)'
    <3>1. rebuild[b].res \in Forward /\ RebuildOwns(b, rebuild[b].res)
      BY <2>8, RebuildTyped DEF RebuildOwns
    <3>2. rebuild[b].res # row[r].bridge
      BY <2>5, <3>1 DEF OneOwner
    <3>3. Routed(rebuild[b].res)
      BY <2>8 DEF RouteInv
    <3>4. QED
      BY <2>1, <2>4, <3>1, <3>2, <3>3 DEF Routed
  <2>9. QED
    BY <2>1, <2>6, <2>7, <2>8 DEF RouteInv, Routed
<1>4. CASE CloseReply(k)
  <2> DEFINE r == call[k].id
  <2>1. /\ UNCHANGED <<started, remotes, row, rebuild>> /\ records' = records \ {r}
        /\ call' = [call EXCEPT ![k] = NoCall] /\ call[k].op = "close"
    BY <1>4 DEF CloseReply, sshVars
  <2>2. \A l \in Call : l # k => call'[l] = call[l]
    BY <2>1 DEF TypeOK
  <2>3. call'[k].op = "none"
    BY <2>1 DEF NoCall, TypeOK
  <2>4. \A s \in records' : Closing(s) => Closing(s)'
    BY <2>1, <2>2 DEF Closing
  <2>5. \A g \in Forward : Routed(g) => Routed(g)'
    BY <2>1 DEF Routed
  <2>6. QED
    BY <2>1, <2>2, <2>3, <2>4, <2>5, RoutesKept
<1>5. QED
  BY <1>1, <1>2, <1>3, <1>4 DEF Caller

LEMMA NextRoutes == ASSUME TypeOK, Known, OneOwner, RouteInv, [Next]_vars PROVE RouteInv'
<1>1. CASE Network \/ HandleAccepted \/ UNCHANGED vars
  <2>1. UNCHANGED <<started, remotes, records, row, call, rebuild>>
    BY <1>1 DEF Network, Accept, AcceptEnds, SessionEnds, HandleAccepted, vars, rowVars, sshVars
  <2>2. QED
    BY <2>1 DEF RouteInv, Routed, Closing
<1>2. QED
  BY <1>1, CallerRoutes, RebuildingRoutes DEF Next

(* A listed remote forward that nobody closes stays in the routing table, so the
   channels its server opens for its port reach it, if no other forward has that port. *)
THEOREM RemotesReached == Spec => []RemoteRowReached
<1> DEFINE Inv == TypeOK /\ Known /\ OneOwner /\ RouteInv
<1>1. Init => Inv
  <2> SUFFICES ASSUME Init PROVE Inv
    OBVIOUS
  <2>1. TypeOK /\ Known /\ RouteInv
    BY InitTypeOK DEF Init, Known, NoCall, RouteInv
  <2>2. OneOwner
    BY DEF Init, NoCall, NoRow, OneOwner, RowOwns, CallOwns, RebuildOwns
  <2>3. QED
    BY <2>1, <2>2
<1>2. Inv /\ [Next]_vars => Inv'
  BY NextTypeOK, NextKnown, NextOneOwner, NextRoutes
<1>3. Inv => RemoteRowReached
  <2> SUFFICES ASSUME Inv, NEW r \in records,
                      started[row[r].bridge].kind = "remote", ~Closing(r),
                      \A g \in remotes \ {row[r].bridge} :
                          started[g].port # started[row[r].bridge].port
               PROVE  Targets(started[row[r].bridge].port) = {row[r].bridge}
    BY DEF RemoteRowReached, Closing
  <2>1. row[r].bridge \in remotes
    BY DEF RouteInv, Routed
  <2>2. {g \in remotes : started[g].port = started[row[r].bridge].port} = {row[r].bridge}
    BY <2>1
  <2>3. QED
    BY <2>2 DEF Targets
<1>4. QED
  BY <1>1, <1>2, <1>3, PTL DEF Spec

=============================================================================
