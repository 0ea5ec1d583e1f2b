----------------------- MODULE TransferManagerProofs -----------------------
(* What TLAPS proves of TransferManager for every value of its constants.       *)
EXTENDS TransferManager, FiniteSetTheorems, TLAPS

USE TransferBounds, RecordBounds DEF Transfer, Record, None

(* The number of records shown running, with any change to a few of them. *)
LEMMA RecordsCount ==
    ASSUME NEW S \in SUBSET Record
    PROVE  IsFiniteSet(S) /\ Cardinality(S) \in Nat
<1>1. IsFiniteSet(1 .. MaxRecord)
  BY FS_Interval
<1>2. IsFiniteSet(S)
  BY <1>1, FS_Subset
<1>3. QED
  BY <1>2, FS_CardinalityType

LEMMA RecordsMonotone ==
    ASSUME NEW S \in SUBSET Record, NEW T \in SUBSET S
    PROVE  Cardinality(T) <= Cardinality(S)
BY RecordsCount, FS_Subset

LEMMA RecordsAdd ==
    ASSUME NEW S \in SUBSET Record, NEW r \in Record
    PROVE  Cardinality(S \cup {r}) = Cardinality(S \ {r}) + 1
<1>1. IsFiniteSet(S \ {r}) /\ r \notin S \ {r} /\ (S \ {r}) \cup {r} = S \cup {r}
  BY RecordsCount
<1>2. QED
  BY <1>1, FS_AddElement

LEMMA FirstAndRest ==
    ASSUME NEW R, NEW q \in Seq(R), q # <<>>
    PROVE  Head(q) \in R /\ Tail(q) \in Seq(R)
OBVIOUS

----------------------------------------------------------------------------
LEMMA InitTypeOK == Init => TypeOK
BY DEF Init, SftpInit, TypeOK, SftpTypeOK, PumpType, NoPump, Outcome

(* The loop of a pump leaves the bridge and the suspended pumps well typed. *)
LEMMA PumpOnTypes ==
    ASSUME TypeOK, NEW p \in Pump, NEW from, NEW slots \in Int, slots <= MaxConcurrent,
           PumpOn(p, from, slots)
    PROVE  /\ nextTransfer' \in 1 .. MaxTransfer + 1
           /\ entries' \subseteq Transfer /\ working' \subseteq entries'
           /\ tokens' \subseteq Transfer
           /\ pump' \in [Pump -> PumpType]
<1>1. CASE pump' = [pump EXCEPT ![p] = NoPump]
           /\ UNCHANGED <<nextTransfer, entries, working, tokens>>
  BY <1>1 DEF TypeOK, SftpTypeOK, PumpType
<1>2. ASSUME slots > 0, NEW r \in Record, NEW b \in Transfer, StartTransfer(b),
             pump' = [pump EXCEPT ![p] = [at |-> r, slots |-> slots, res |-> b]]
      PROVE  /\ nextTransfer' \in 1 .. MaxTransfer + 1
             /\ entries' \subseteq Transfer /\ working' \subseteq entries'
             /\ tokens' \subseteq Transfer
             /\ pump' \in [Pump -> PumpType]
  <2>1. [at |-> r, slots |-> slots, res |-> b] \in PumpType
    BY <1>2 DEF PumpType
  <2>2. QED
    BY <1>2, <2>1 DEF TypeOK, SftpTypeOK, StartTransfer
<1>3. ASSUME slots > 0, NEW r \in Record,
             pump' = [pump EXCEPT ![p] = [at |-> r, slots |-> slots, res |-> None]],
             UNCHANGED <<nextTransfer, entries, working, tokens>>
      PROVE  pump' \in [Pump -> PumpType]
  <2>1. [at |-> r, slots |-> slots, res |-> None] \in PumpType
    BY <1>3 DEF PumpType
  <2>2. QED
    BY <1>3, <2>1 DEF TypeOK
<1>4. QED
  BY <1>1, <1>2, <1>3 DEF PumpOn, Queued, TypeOK, SftpTypeOK

LEMMA PumpStartsTypes ==
    ASSUME TypeOK, state' \in [Record -> {"absent", "queued", "running", "done", "failed",
                                          "cancelled"}],
           NEW p \in Pump, PumpStarts(p)
    PROVE  /\ nextTransfer' \in 1 .. MaxTransfer + 1
           /\ entries' \subseteq Transfer /\ working' \subseteq entries'
           /\ tokens' \subseteq Transfer
           /\ pump' \in [Pump -> PumpType]
<1>1. Cardinality(Running') \in Nat
  BY RecordsCount DEF Running
<1>2. QED
  BY <1>1, PumpOnTypes DEF PumpStarts

LEMMA NextTypeOK == TypeOK /\ [Next]_vars => TypeOK'
<1> SUFFICES ASSUME TypeOK, [Next]_vars PROVE TypeOK'
  OBVIOUS
<1>1. ASSUME NEW p \in Pump, NEW r \in Record, Enqueue(r, p) \/ CancelQueued(r, p)
      PROVE  TypeOK'
  <2>1. state' \in [Record -> {"absent", "queued", "running", "done", "failed", "cancelled"}]
    BY <1>1 DEF Enqueue, CancelQueued, TypeOK
  <2>2. QED
    BY <1>1, <2>1, PumpStartsTypes DEF Enqueue, CancelQueued, TypeOK, SftpTypeOK
<1>2. ASSUME NEW p \in Pump, PumpReply(p) PROVE TypeOK'
  <2>1. /\ pump[p].at \in Record /\ pump[p].slots \in 1 .. MaxConcurrent
        /\ pump[p].res \in Transfer \cup {None}
    BY <1>2 DEF PumpReply, TypeOK, PumpType
  <2>2. CASE pump[p].res # None
    <3>1. PumpOn(p, pump[p].at, pump[p].slots - 1)
      BY <1>2, <2>2 DEF PumpReply
    <3>2. pump[p].slots - 1 \in Int /\ pump[p].slots - 1 <= MaxConcurrent
      BY <2>1
    <3>3. QED
      BY <1>2, <2>1, <2>2, <3>1, <3>2, PumpOnTypes DEF PumpReply, TypeOK, SftpTypeOK
  <2>3. CASE pump[p].res = None
    <3>1. PumpOn(p, pump[p].at, pump[p].slots)
      BY <1>2, <2>3 DEF PumpReply
    <3>2. pump[p].slots \in Int /\ pump[p].slots <= MaxConcurrent
      BY <2>1
    <3>3. QED
      BY <1>2, <2>1, <2>3, <3>1, <3>2, PumpOnTypes DEF PumpReply, TypeOK, SftpTypeOK
  <2>4. QED
    BY <2>2, <2>3
<1>3. ASSUME NEW p \in Pump, HandleDone(p) PROVE TypeOK'
  <2> DEFINE b == Head(reports).id
             r == byBridgeId[b]
  <2>1. /\ b \in Transfer /\ Head(reports).outcome \in Outcome
        /\ reports' \in Seq([id : Transfer, outcome : Outcome])
    <3>1. /\ reports \in Seq([id : Transfer, outcome : Outcome]) /\ reports # <<>>
          /\ reports' = Tail(reports)
      BY <1>3 DEF HandleDone, TypeOK, SftpTypeOK
    <3>2. /\ Head(reports) \in [id : Transfer, outcome : Outcome]
          /\ reports' \in Seq([id : Transfer, outcome : Outcome])
      BY <3>1, FirstAndRest
    <3>3. QED
      BY <3>2
  <2>2. CASE r # None /\ ReportTaken(r, p) /\ UNCHANGED early
    <3>1. state' \in [Record -> {"absent", "queued", "running", "done", "failed", "cancelled"}]
      BY <2>1, <2>2 DEF ReportTaken, TypeOK, Outcome
    <3>2. QED
      BY <1>3, <2>1, <2>2, <3>1, PumpStartsTypes DEF HandleDone, ReportTaken, TypeOK, SftpTypeOK
  <2>3. CASE /\ r = None /\ early' = early \cup {b}
             /\ UNCHANGED <<nextTransfer, entries, working, tokens, state, pump>>
    BY <1>3, <2>1, <2>3 DEF HandleDone, TypeOK, SftpTypeOK
  <2>4. QED
    BY <1>3, <2>2, <2>3 DEF HandleDone
<1>4. ASSUME NEW r \in Record, CancelStarted(r) PROVE TypeOK'
  BY <1>4 DEF CancelStarted, CancelTransfer, TypeOK, SftpTypeOK
<1>5. ASSUME Worker PROVE TypeOK'
  <2>1. ASSUME NEW b \in Transfer, NEW o \in Outcome, WorkerReports(b, o)
        PROVE  SftpTypeOK'
    <3>1. TransferDone(b, o) \in [id : Transfer, outcome : Outcome]
      BY DEF TransferDone
    <3>2. QED
      BY <2>1, <3>1 DEF WorkerReports, TypeOK, SftpTypeOK
  <2>2. ASSUME NEW b \in Transfer, EntryRemoved(b) PROVE SftpTypeOK'
    BY <2>2 DEF EntryRemoved, TypeOK, SftpTypeOK
  <2>3. QED
    BY <1>5, <2>1, <2>2 DEF Worker, TypeOK
<1>6. CASE UNCHANGED vars
  BY <1>6 DEF vars, sftpVars, TypeOK, SftpTypeOK
<1>7. QED
  BY <1>1, <1>2, <1>3, <1>4, <1>5, <1>6 DEF Next

(* Every reachable state is well typed, whichever pumps, replies and reports
   overlap; a pump never runs on with fewer than one free slot.                 *)
THEOREM TransferTypes == Spec => []TypeOK
BY InitTypeOK, NextTypeOK, PTL DEF Spec


----------------------------------------------------------------------------
(* Free slots.  A suspended pump has seen everything up to its own record, so no
   earlier record is queued (Ahead).  SlotInv adds what the slots it still holds
   are worth: some pump's slots and the records running, its own apart, reach the
   limit.  A record that two pumps have started is why its own is counted apart. *)
InOrder == \A r, u \in Record : u < r /\ state[r] # "absent" => state[u] # "absent"

Ahead ==
    \A p \in Pump : pump[p] # NoPump =>
        /\ state[pump[p].at] # "absent"
        /\ \A u \in Record : u < pump[p].at => state[u] # "queued"
        /\ ~Rejects => pump[p].res # None

Witness(p) ==
    /\ pump[p] # NoPump
    /\ Cardinality(Running \ {pump[p].at}) + pump[p].slots >= MaxConcurrent

SlotInv ==
    \/ Queued = {}
    \/ Cardinality(Running) >= MaxConcurrent
    \/ \E p \in Pump : Witness(p)

QueueInv == InOrder /\ Ahead /\ SlotInv

(* A pump that goes on with all the slots that are free is a witness, or is over
   with nothing queued or every slot taken.                                     *)
LEMMA PumpOnWitness ==
    ASSUME TypeOK, TypeOK', NEW p \in Pump, NEW from \in Record \cup {None}, NEW slots \in Int,
           PumpOn(p, from, slots),
           Cardinality(Running') + slots >= MaxConcurrent,
           \A u \in Record : u <= from => state'[u] # "queued"
    PROVE  SlotInv'
<1>0. Cardinality(Running') \in Nat
  BY RecordsCount DEF Running
<1>1. CASE slots <= 0
  BY <1>0, <1>1 DEF SlotInv
<1>2. CASE {r \in Queued' : r > from} = {}
  BY <1>2 DEF SlotInv, Queued
<1>3. ASSUME NEW r \in Queued', pump'[p].at = r, pump'[p].slots = slots, pump'[p] # NoPump
      PROVE  SlotInv'
  <2>1. Running' \ {r} = Running'
    BY DEF Running, Queued
  <2>2. Witness(p)'
    BY <1>3, <2>1 DEF Witness
  <2>3. QED
    BY <2>2 DEF SlotInv
<1>4. ASSUME NEW r \in Queued', NEW b,
             pump' = [pump EXCEPT ![p] = [at |-> r, slots |-> slots, res |-> b]]
      PROVE  pump'[p].at = r /\ pump'[p].slots = slots /\ pump'[p] # NoPump
  BY <1>4 DEF TypeOK, NoPump, Queued
<1>5. QED
  BY <1>1, <1>2, <1>3, <1>4 DEF PumpOn

LEMMA PumpOnAhead ==
    ASSUME TypeOK, TypeOK', NEW p \in Pump, NEW from \in Record \cup {None}, NEW slots,
           PumpOn(p, from, slots),
           \A u \in Record : u <= from => state'[u] # "queued",
           \A q \in Pump : pump[q] # NoPump /\ q # p =>
               /\ state'[pump[q].at] # "absent"
               /\ \A u \in Record : u < pump[q].at => state'[u] # "queued"
               /\ ~Rejects => pump[q].res # None
    PROVE  Ahead'
<1>1. ASSUME NEW q \in Pump, q # p, pump'[q] # NoPump
      PROVE  /\ state'[pump'[q].at] # "absent"
             /\ \A u \in Record : u < pump'[q].at => state'[u] # "queued"
             /\ ~Rejects => pump'[q].res # None
  <2>1. pump'[q] = pump[q]
    BY <1>1 DEF PumpOn, TypeOK
  <2>2. QED
    BY <1>1, <2>1
<1>2. ASSUME pump'[p] # NoPump
      PROVE  /\ state'[pump'[p].at] # "absent"
             /\ \A u \in Record : u < pump'[p].at => state'[u] # "queued"
             /\ ~Rejects => pump'[p].res # None
  <2>1. PICK r \in Queued', b \in Transfer \cup {None} :
            /\ r > from /\ \A u \in Queued' : u > from => r <= u
            /\ b = None => Rejects
            /\ pump' = [pump EXCEPT ![p] = [at |-> r, slots |-> slots, res |-> b]]
    BY <1>2 DEF PumpOn, TypeOK
  <2>2. pump'[p].at = r /\ pump'[p].res = b
    BY <2>1 DEF TypeOK
  <2>3. r \in Record /\ state'[r] = "queued"
    BY DEF Queued
  <2>4. ASSUME NEW u \in Record, u < r PROVE state'[u] # "queued"
    BY <2>1, <2>3, <2>4 DEF Queued
  <2>5. QED
    BY <2>1, <2>2, <2>3, <2>4
<1>3. QED
  BY <1>1, <1>2 DEF Ahead

(* A call of #pump, with whatever change to the records came before it. *)
LEMMA PumpStartsQueue ==
    ASSUME TypeOK, TypeOK', QueueInv, NEW p \in Pump, PumpStarts(p), InOrder',
           \A q \in Pump : pump[q] # NoPump =>
               /\ state'[pump[q].at] # "absent"
               /\ \A u \in Record : u < pump[q].at => state'[u] # "queued"
    PROVE  QueueInv'
<1>1. Cardinality(Running') \in Nat
  BY RecordsCount DEF Running
<1>2. PumpOn(p, None, MaxConcurrent - Cardinality(Running'))
  BY DEF PumpStarts
<1>3. SlotInv'
  BY <1>1, <1>2, PumpOnWitness
<1>4. Ahead'
  BY <1>2, PumpOnAhead DEF QueueInv, Ahead
<1>5. QED
  BY <1>3, <1>4 DEF QueueInv

LEMMA PumpReplyQueue ==
    ASSUME TypeOK, TypeOK', QueueInv, ~Rejects \/ MaxConcurrent = 1,
           NEW p \in Pump, PumpReply(p)
    PROVE  QueueInv'
<1> DEFINE r == pump[p].at
           n == pump[p].slots
<1>1. /\ r \in Record /\ n \in 1 .. MaxConcurrent /\ pump[p] # NoPump
      /\ pump[p].res \in Transfer \cup {None}
  BY DEF PumpReply, TypeOK, PumpType
<1>2. /\ Cardinality(Running) \in Nat /\ Cardinality(Running') \in Nat
      /\ \A u \in Record : Cardinality(Running \ {u}) \in Nat
  BY RecordsCount DEF Running
<1>3. /\ state'[r] \in {"running", "failed"}
      /\ \A u \in Record : u # r => state'[u] = state[u]
  BY <1>1 DEF PumpReply, TypeOK
<1>4. InOrder'
  BY <1>1, <1>3 DEF QueueInv, InOrder, Ahead
<1>5. \A u \in Record : u <= r => state'[u] # "queued"
  BY <1>1, <1>3 DEF QueueInv, Ahead
<1>6. \A q \in Pump : pump[q] # NoPump =>
          /\ state'[pump[q].at] # "absent"
          /\ \A u \in Record : u < pump[q].at => state'[u] # "queued"
          /\ ~Rejects => pump[q].res # None
  <2>1. ASSUME NEW q \in Pump, pump[q] # NoPump
        PROVE  /\ state'[pump[q].at] # "absent"
               /\ \A u \in Record : u < pump[q].at => state'[u] # "queued"
               /\ ~Rejects => pump[q].res # None
    <3>1. pump[q].at \in Record
      BY <2>1 DEF TypeOK, PumpType
    <3>2. QED
      BY <1>3, <2>1, <3>1 DEF QueueInv, Ahead
  <2>2. QED
    BY <2>1
<1>7. CASE pump[p].res # None
  <2>1. /\ PumpOn(p, r, n - 1) /\ state' = [state EXCEPT ![r] = "running"]
    BY <1>7 DEF PumpReply
  <2>2. Running' = Running \cup {r} /\ Queued' = Queued \ {r}
    BY <1>1, <2>1 DEF Running, Queued, TypeOK
  <2>3. Cardinality(Running') = Cardinality(Running \ {r}) + 1
    BY <1>1, <2>2, RecordsAdd DEF Running
  <2>4. Ahead'
    BY <1>1, <1>5, <1>6, <2>1, PumpOnAhead
  <2>5. CASE Queued = {}
    BY <1>4, <2>2, <2>4, <2>5 DEF QueueInv, SlotInv
  <2>6. CASE Cardinality(Running) >= MaxConcurrent
    <3>1. Cardinality(Running) <= Cardinality(Running')
      <4>1. Running \in SUBSET Running' /\ Running' \in SUBSET Record
        BY <2>2 DEF Running
      <4>2. QED
        BY <4>1, RecordsMonotone
    <3>2. SlotInv'
      BY <1>2, <2>6, <3>1 DEF SlotInv
    <3>3. QED
      BY <1>4, <2>4, <3>2 DEF QueueInv
  <2>7. CASE Witness(p)
    <3>1. Cardinality(Running \ {r}) + n >= MaxConcurrent
      BY <2>7 DEF Witness
    <3>2. Cardinality(Running') + (n - 1) >= MaxConcurrent /\ n - 1 \in Int
      BY <1>1, <1>2, <2>3, <3>1
    <3> HIDE DEF r, n
    <3>3. SlotInv'
      BY <1>1, <1>5, <2>1, <3>2, PumpOnWitness
    <3>4. QED
      BY <1>4, <2>4, <3>3 DEF QueueInv
  <2>8. ASSUME NEW q \in Pump, q # p, Witness(q) PROVE QueueInv'
    <3>1. pump'[q] = pump[q] /\ pump[q].slots \in Int
      BY <2>1, <2>8 DEF PumpOn, TypeOK, PumpType, Witness
    <3>2. Cardinality(Running \ {pump[q].at}) <= Cardinality(Running' \ {pump[q].at})
      <4>1. /\ Running \ {pump[q].at} \in SUBSET (Running' \ {pump[q].at})
            /\ Running' \ {pump[q].at} \in SUBSET Record
        BY <2>2 DEF Running
      <4>2. QED
        BY <4>1, RecordsMonotone
    <3>3. /\ Cardinality(Running \ {pump[q].at}) \in Nat
          /\ Cardinality(Running' \ {pump[q].at}) \in Nat
      <4>1. Running \ {pump[q].at} \in SUBSET Record /\ Running' \ {pump[q].at} \in SUBSET Record
        BY DEF Running
      <4>2. QED
        BY <4>1, RecordsCount
    <3>4. Witness(q)'
      BY <2>8, <3>1, <3>2, <3>3 DEF Witness
    <3>5. QED
      BY <1>4, <2>4, <3>4 DEF QueueInv, SlotInv
  <2>9. QED
    BY <2>5, <2>6, <2>7, <2>8 DEF QueueInv, SlotInv
<1>8. CASE pump[p].res = None
  <2>1. PumpOn(p, r, n)
    BY <1>8 DEF PumpReply
  <2>2. MaxConcurrent = 1
    BY <1>1, <1>6, <1>8
  <2>3. Cardinality(Running') + n >= MaxConcurrent /\ n \in Int
    BY <1>1, <1>2, <2>2
  <2> HIDE DEF r, n
  <2>4. SlotInv'
    BY <1>1, <1>5, <2>1, <2>3, PumpOnWitness
  <2>5. Ahead'
    BY <1>1, <1>5, <1>6, <2>1, PumpOnAhead
  <2>6. QED
    BY <1>4, <2>4, <2>5 DEF QueueInv
<1>9. QED
  BY <1>7, <1>8

LEMMA QueueUntouched ==
    ASSUME QueueInv, UNCHANGED <<state, pump>>
    PROVE  QueueInv'
BY DEF QueueInv, InOrder, Ahead, SlotInv, Witness, Queued, Running

(* Only records that have been enqueued are found by the id of a transfer. *)
Known == \A b \in Transfer : byBridgeId[b] # None => state[byBridgeId[b]] # "absent"

LEMMA NextKnown == TypeOK /\ TypeOK' /\ Known /\ [Next]_vars => Known'
<1> SUFFICES ASSUME TypeOK, TypeOK', Known, [Next]_vars PROVE Known'
  OBVIOUS
<1>1. ASSUME NEW r \in Record, NEW x, state' = [state EXCEPT ![r] = x], x # "absent",
             byBridgeId' = byBridgeId
      PROVE  Known'
  BY <1>1 DEF Known, TypeOK
<1>2. ASSUME NEW p \in Pump, PumpReply(p) PROVE Known'
  <2>1. pump[p].at \in Record
    BY <1>2 DEF PumpReply, TypeOK, PumpType
  <2>2. \A u \in Record : state[u] # "absent" => state'[u] # "absent"
    BY <1>2, <2>1 DEF PumpReply, TypeOK
  <2>3. CASE pump[p].res = None
    BY <1>2, <2>2, <2>3 DEF PumpReply, Known, TypeOK
  <2>4. CASE pump[p].res # None
    <3>1. /\ byBridgeId' = [byBridgeId EXCEPT ![pump[p].res] = pump[p].at]
          /\ state' = [state EXCEPT ![pump[p].at] = "running"]
      BY <1>2, <2>4 DEF PumpReply
    <3>2. state'[pump[p].at] # "absent"
      BY <2>1, <3>1 DEF TypeOK
    <3>3. \A b \in Transfer : byBridgeId'[b] \in {byBridgeId[b], pump[p].at}
      BY <3>1 DEF TypeOK
    <3>4. QED
      BY <2>2, <3>2, <3>3 DEF Known, TypeOK
  <2>5. QED
    BY <2>3, <2>4
<1>3. ASSUME NEW p \in Pump, HandleDone(p) PROVE Known'
  <2>1. Head(reports) \in [id : Transfer, outcome : Outcome]
    BY <1>3, FirstAndRest DEF HandleDone, TypeOK, SftpTypeOK
  <2>2. Head(reports).id \in Transfer /\ Head(reports).outcome \in Outcome
    BY <2>1
  <2> DEFINE r == byBridgeId[Head(reports).id]
  <2>3. CASE r # None /\ ReportTaken(r, p)
    <3>1. r \in Record
      BY <2>2, <2>3 DEF TypeOK
    <3>2. \A u \in Record : state[u] # "absent" => state'[u] # "absent"
      BY <2>2, <2>3, <3>1 DEF ReportTaken, TypeOK, Outcome
    <3>3. byBridgeId' = byBridgeId
      BY <1>3 DEF HandleDone
    <3>4. QED
      BY <3>2, <3>3 DEF Known, TypeOK
  <2>4. CASE UNCHANGED state
    BY <1>3, <2>4 DEF HandleDone, Known
  <2>5. QED
    BY <1>3, <2>3, <2>4 DEF HandleDone
<1>4. ASSUME NEW r \in Record, NEW p \in Pump, Enqueue(r, p) \/ CancelQueued(r, p) PROVE Known'
  BY <1>1, <1>4 DEF Enqueue, CancelQueued
<1>5. CASE (\E r \in Record : CancelStarted(r)) \/ Worker \/ UNCHANGED vars
  BY <1>5 DEF CancelStarted, Worker, vars, Known
<1>6. QED
  BY <1>2, <1>3, <1>4, <1>5 DEF Next

LEMMA NextQueue ==
    ASSUME TypeOK, TypeOK', QueueInv, Known, ~Rejects \/ MaxConcurrent = 1, [Next]_vars
    PROVE  QueueInv'
<1>0. \A q \in Pump : pump[q] # NoPump => pump[q].at \in Record
  BY DEF TypeOK, PumpType
<1>1. ASSUME NEW p \in Pump, NEW r \in Record, Enqueue(r, p) PROVE QueueInv'
  <2>1. /\ PumpStarts(p) /\ state' = [state EXCEPT ![r] = "queued"] /\ state[r] = "absent"
        /\ \A u \in Record : u < r => state[u] # "absent"
    BY <1>1 DEF Enqueue
  <2>2. InOrder'
    BY <2>1 DEF QueueInv, InOrder, TypeOK
  <2>3. ASSUME NEW q \in Pump, pump[q] # NoPump
        PROVE  /\ state'[pump[q].at] # "absent"
               /\ \A u \in Record : u < pump[q].at => state'[u] # "queued"
    BY <1>0, <2>1, <2>3 DEF QueueInv, InOrder, Ahead, TypeOK
  <2>4. QED
    BY <2>1, <2>2, <2>3, PumpStartsQueue
<1>2. ASSUME NEW p \in Pump, NEW r \in Record, PumpStarts(p), state[r] # "absent",
             NEW x, state' = [state EXCEPT ![r] = x], x \notin {"absent", "queued"}
      PROVE  QueueInv'
  <2>1. InOrder'
    BY <1>2 DEF QueueInv, InOrder, TypeOK
  <2>2. ASSUME NEW q \in Pump, pump[q] # NoPump
        PROVE  /\ state'[pump[q].at] # "absent"
               /\ \A u \in Record : u < pump[q].at => state'[u] # "queued"
    BY <1>0, <1>2, <2>2 DEF QueueInv, Ahead, TypeOK
  <2>3. QED
    BY <1>2, <2>1, <2>2, PumpStartsQueue
<1>3. ASSUME NEW p \in Pump, HandleDone(p) PROVE QueueInv'
  <2> DEFINE b == Head(reports).id
             r == byBridgeId[b]
             o == Head(reports).outcome
  <2>1. b \in Transfer /\ o \in Outcome
    <3>1. Head(reports) \in [id : Transfer, outcome : Outcome]
      BY <1>3, FirstAndRest DEF HandleDone, TypeOK, SftpTypeOK
    <3>2. QED
      BY <3>1
  <2>2. CASE r # None /\ ReportTaken(r, p)
    <3>1. r \in Record /\ state[r] # "absent"
      BY <2>1, <2>2 DEF Known, TypeOK
    <3>2. \E x : state' = [state EXCEPT ![r] = x] /\ x \notin {"absent", "queued"}
      <4>1. CASE o = "ok"
        <5>1. state' = [state EXCEPT ![r] = "done"]
          BY <2>2, <4>1 DEF ReportTaken
        <5>2. "done" \notin {"absent", "queued"}
          OBVIOUS
        <5> HIDE DEF o, r
        <5>3. QED
          BY <5>1, <5>2
      <4>2. CASE o # "ok"
        <5>1. state' = [state EXCEPT ![r] = o]
          BY <2>2, <4>2 DEF ReportTaken
        <5>2. o \notin {"absent", "queued"}
          BY <2>1 DEF Outcome
        <5> HIDE DEF o, r
        <5>3. QED
          BY <5>1, <5>2
      <4>3. QED
        BY <4>1, <4>2
    <3>3. PumpStarts(p)
      BY <2>2 DEF ReportTaken
    <3> HIDE DEF r
    <3>4. QED
      BY <1>2, <3>1, <3>2, <3>3
  <2>3. CASE UNCHANGED <<state, pump>>
    BY <2>3, QueueUntouched
  <2>4. QED
    BY <1>3, <2>2, <2>3 DEF HandleDone
<1>4. ASSUME NEW p \in Pump, NEW r \in Record, CancelQueued(r, p) PROVE QueueInv'
  <2>1. /\ PumpStarts(p) /\ state[r] # "absent"
        /\ state' = [state EXCEPT ![r] = "cancelled"]
    BY <1>4 DEF CancelQueued
  <2>2. QED
    BY <1>2, <2>1
<1>5. CASE (\E r \in Record : CancelStarted(r)) \/ Worker \/ UNCHANGED vars
  BY <1>5, QueueUntouched DEF CancelStarted, Worker, vars
<1>6. QED
  BY <1>1, <1>3, <1>4, <1>5, PumpReplyQueue DEF Next

(* Nothing waits beside a free slot, for any limit and any number of pumps, if the
   bridge rejects no call or the limit is one.  With a limit of two and rejections
   it fails: a record started twice, once in vain, gives its slot back to nobody. *)
THEOREM NoIdleSlotHolds ==
    ASSUME ~Rejects \/ MaxConcurrent = 1
    PROVE  Spec => []NoIdleSlot
<1>1. Init => QueueInv /\ Known
  BY DEF Init, QueueInv, InOrder, Ahead, SlotInv, Queued, Known
<1>2. TypeOK /\ TypeOK' /\ QueueInv /\ Known /\ [Next]_vars => QueueInv' /\ Known'
  BY NextQueue, NextKnown
<1>3. QueueInv => NoIdleSlot
  BY DEF QueueInv, SlotInv, Witness, NoIdleSlot
<1>4. QED
  BY <1>1, <1>2, <1>3, TransferTypes, PTL DEF Spec


----------------------------------------------------------------------------
(* Live records.  A transfer is Tracked while something will still settle its
   record.  An id on its way back must be tracked too, and index no record yet;
   an id a record holds must be in the index.                                    *)
Tracked(b) ==
    \/ b \in working \cup early
    \/ \E i \in DOMAIN reports : reports[i].id = b

IdsFresh ==
    /\ \A b \in Transfer : b >= nextTransfer => byBridgeId[b] = None
    /\ \A p \in Pump : pump[p].res # None =>
          pump[p].res < nextTransfer /\ byBridgeId[pump[p].res] = None /\ Tracked(pump[p].res)
    /\ \A p, q \in Pump : p # q /\ pump[p].res # None => pump[p].res # pump[q].res
    /\ \A r \in Record : bridgeId[r] # None => byBridgeId[bridgeId[r]] = r

LiveInv == RunningIsLive /\ IdsFresh /\ \A r \in Running : bridgeId[r] # None

(* What PumpOn does to the ids on their way: pump p waits for a new one, or none. *)
LEMMA PumpOnIds ==
    ASSUME TypeOK, NEW p \in Pump, NEW from, NEW slots, PumpOn(p, from, slots)
    PROVE  /\ \A q \in Pump : q # p => pump'[q] = pump[q]
           /\ working \subseteq working'
           /\ \/ pump'[p].res = None /\ nextTransfer' = nextTransfer
              \/ /\ pump'[p].res = nextTransfer /\ nextTransfer' = nextTransfer + 1
                 /\ nextTransfer \in working'
<1>1. ASSUME NEW n, pump' = [pump EXCEPT ![p] = n]
      PROVE  pump'[p] = n /\ \A q \in Pump : q # p => pump'[q] = pump[q]
  BY <1>1 DEF TypeOK
<1>2. QED
  BY <1>1 DEF PumpOn, StartTransfer, NoPump

LEMMA PumpOnIssues ==
    ASSUME TypeOK, NEW p \in Pump, NEW from, NEW slots, PumpOn(p, from, slots),
           pump'[p].res # None
    PROVE  nextTransfer \in Transfer
<1>1. ASSUME NEW n, pump' = [pump EXCEPT ![p] = n] PROVE pump'[p] = n
  BY <1>1 DEF TypeOK
<1>2. QED
  BY <1>1 DEF PumpOn, StartTransfer, NoPump

(* A step of pump p: nothing else that is tracked gets lost. *)
LEMMA PumpKeepsIds ==
    ASSUME TypeOK, IdsFresh, NEW p \in Pump, NEW from, NEW slots, PumpOn(p, from, slots),
           \A b : Tracked(b) /\ b # None => Tracked(b)' \/ byBridgeId[b] # None,
           \A b \in Transfer : byBridgeId'[b] # byBridgeId[b] => b = pump[p].res,
           \A r \in Record : bridgeId'[r] # None => byBridgeId'[bridgeId'[r]] = r
    PROVE  IdsFresh'
<1>1. /\ \A q \in Pump : q # p => pump'[q] = pump[q]
      /\ working \subseteq working'
      /\ \/ pump'[p].res = None /\ nextTransfer' = nextTransfer
         \/ /\ pump'[p].res = nextTransfer /\ nextTransfer' = nextTransfer + 1
            /\ nextTransfer \in working'
  BY PumpOnIds
<1>2. nextTransfer \in Int /\ \A q \in Pump : pump[q].res \in Transfer \cup {None}
  BY DEF TypeOK, SftpTypeOK, PumpType, NoPump
<1>3. nextTransfer' \in Int /\ nextTransfer <= nextTransfer'
  BY <1>1, <1>2
<1>4. ASSUME NEW b \in Transfer, b >= nextTransfer' PROVE byBridgeId'[b] = None
  <2>1. b >= nextTransfer
    BY <1>2, <1>3, <1>4
  <2>2. b # pump[p].res
    BY <1>2, <2>1 DEF IdsFresh
  <2>3. QED
    BY <2>1, <2>2 DEF IdsFresh
<1>5. ASSUME NEW q \in Pump, q # p, pump'[q].res # None
      PROVE  /\ pump'[q].res < nextTransfer' /\ byBridgeId'[pump'[q].res] = None
             /\ \A b : b = pump'[q].res => Tracked(b)'
             /\ pump'[q].res < nextTransfer
  <2>1. /\ pump'[q] = pump[q] /\ pump[q].res < nextTransfer /\ pump[q].res \in Transfer
        /\ byBridgeId[pump[q].res] = None /\ pump[q].res # pump[p].res
        /\ \A b : b = pump[q].res => Tracked(b)
    BY <1>1, <1>2, <1>5 DEF IdsFresh
  <2>2. \A b : b = pump[q].res => Tracked(b)'
    BY <2>1
  <2>3. byBridgeId'[pump[q].res] = None
    BY <2>1
  <2>4. QED
    BY <1>2, <1>3, <2>1, <2>2, <2>3
<1>6. ASSUME pump'[p].res # None
      PROVE  /\ pump'[p].res < nextTransfer' /\ byBridgeId'[pump'[p].res] = None
             /\ \A b : b = pump'[p].res => Tracked(b)'
             /\ pump'[p].res = nextTransfer
  <2>1. /\ pump'[p].res = nextTransfer /\ nextTransfer' = nextTransfer + 1
        /\ nextTransfer \in working'
    BY <1>1, <1>6
  <2>2. nextTransfer \in Transfer
    BY <1>6, PumpOnIssues
  <2>3. byBridgeId'[nextTransfer] = None
    <3>1. nextTransfer # pump[p].res
      BY <1>2, <2>2 DEF IdsFresh
    <3>2. QED
      BY <1>2, <2>2, <3>1 DEF IdsFresh
  <2>4. \A b : b = nextTransfer => Tracked(b)'
    BY <2>1 DEF Tracked
  <2>5. QED
    BY <1>2, <2>1, <2>3, <2>4
<1>7. ASSUME NEW q1 \in Pump, NEW q2 \in Pump, q1 # q2, pump'[q1].res # None
      PROVE  pump'[q1].res # pump'[q2].res
  <2>1. CASE q1 # p /\ q2 # p
    BY <1>1, <1>7, <2>1 DEF IdsFresh
  <2>2. CASE q1 = p \/ q2 = p
    BY <1>2, <1>5, <1>6, <1>7, <2>2
  <2>3. QED
    BY <2>1, <2>2
<1>8. \A q \in Pump : pump'[q].res # None =>
          pump'[q].res < nextTransfer' /\ byBridgeId'[pump'[q].res] = None
  BY <1>5, <1>6
<1>9. ASSUME NEW q \in Pump, pump'[q].res # None PROVE Tracked(pump[q].res)'
  <2>1. \A b : b = pump'[q].res => Tracked(b)'
    BY <1>5, <1>6, <1>9
  <2>2. QED
    BY <2>1
<1>10. QED
  BY <1>4, <1>7, <1>8, <1>9 DEF IdsFresh


(* What was tracked stays tracked, but for the transfer whose report is taken. *)
LEMMA TakingKeepsTracked ==
    ASSUME TypeOK, reports # <<>>, reports' = Tail(reports), working \subseteq working',
           early \subseteq early', NEW b, Tracked(b), b # Head(reports).id
    PROVE  Tracked(b)'
<1>1. CASE b \in working \cup early
  BY <1>1 DEF Tracked
<1>2. ASSUME NEW i \in DOMAIN reports, reports[i].id = b PROVE Tracked(b)'
  <2>1. reports \in Seq([id : Transfer, outcome : Outcome])
    BY DEF TypeOK, SftpTypeOK
  <2>2. i # 1
    BY <1>2, <2>1
  <2>3. i - 1 \in DOMAIN reports' /\ reports'[i - 1] = reports[i]
    BY <1>2, <2>1, <2>2
  <2>4. QED
    BY <1>2, <2>3 DEF Tracked
<1>3. QED
  BY <1>1, <1>2 DEF Tracked

LEMMA ReportingKeepsTracked ==
    ASSUME TypeOK, NEW c \in Transfer, NEW o \in Outcome, WorkerReports(c, o), early' = early,
           NEW b, Tracked(b)
    PROVE  Tracked(b)'
<1>1. /\ reports \in Seq([id : Transfer, outcome : Outcome])
      /\ reports' = Append(reports, TransferDone(c, o)) /\ working' = working \ {c}
      /\ TransferDone(c, o).id = c
  BY DEF TypeOK, SftpTypeOK, WorkerReports, TransferDone
<1>2. CASE b = c
  <2>1. Len(reports) + 1 \in DOMAIN reports' /\ reports'[Len(reports) + 1] = TransferDone(c, o)
    BY <1>1
  <2>2. QED
    BY <1>1, <1>2, <2>1 DEF Tracked
<1>3. ASSUME NEW i \in DOMAIN reports, reports[i].id = b PROVE Tracked(b)'
  <2>1. i \in DOMAIN reports' /\ reports'[i] = reports[i]
    BY <1>1, <1>3
  <2>2. QED
    BY <1>3, <2>1 DEF Tracked
<1>4. QED
  BY <1>1, <1>2, <1>3 DEF Tracked

(* A step that moves no record, no id and no pump. *)
LEMMA LiveUntouched ==
    ASSUME LiveInv, UNCHANGED <<state, bridgeId, byBridgeId, pump, nextTransfer>>,
           \A b : Tracked(b) => Tracked(b)'
    PROVE  LiveInv'
<1>1. \A r \in Running : Tracked(bridgeId[r])
  BY DEF LiveInv, RunningIsLive, Tracked
<1>2. \A r \in Running : Tracked(bridgeId[r])'
  BY <1>1
<1>3. RunningIsLive'
  BY <1>2 DEF RunningIsLive, Running, Tracked
<1>4. \A p \in Pump : pump[p].res # None => Tracked(pump[p].res)'
  BY DEF LiveInv, IdsFresh
<1>5. IdsFresh'
  BY <1>4 DEF LiveInv, IdsFresh
<1>6. QED
  BY <1>3, <1>5 DEF LiveInv, Running

(* A call of #pump after a step that starts no record and loses no report but one
   whose record it settles.                                                       *)
LEMMA PumpStartsLive ==
    ASSUME TypeOK, LiveInv, NEW p \in Pump, PumpStarts(p), UNCHANGED <<bridgeId, byBridgeId>>,
           \A r \in Running' : r \in Running,
           \A b : Tracked(b) => Tracked(b)' \/ byBridgeId[b] # None,
           \A r \in Running' : Tracked(bridgeId[r])'
    PROVE  LiveInv'
<1>1. PumpOn(p, None, MaxConcurrent - Cardinality(Running'))
  BY DEF PumpStarts
<1>2. \A r \in Record : bridgeId'[r] # None => byBridgeId'[bridgeId'[r]] = r
  BY DEF LiveInv, IdsFresh
<1>3. IdsFresh'
  BY <1>1, <1>2, PumpKeepsIds DEF LiveInv
<1>4. RunningIsLive'
  BY DEF RunningIsLive, Tracked
<1>5. QED
  BY <1>3, <1>4 DEF LiveInv

LEMMA PumpReplyLive ==
    ASSUME TypeOK, LiveInv, NEW p \in Pump, PumpReply(p)
    PROVE  LiveInv'
<1> DEFINE r == pump[p].at
           b == pump[p].res
<1>1. r \in Record /\ b \in Transfer \cup {None} /\ UNCHANGED <<reports, early>>
  BY DEF PumpReply, TypeOK, PumpType
<1>2. CASE b # None
  <2>1. /\ PumpOn(p, r, pump[p].slots - 1)
        /\ state' = [state EXCEPT ![r] = "running"]
        /\ bridgeId' = [bridgeId EXCEPT ![r] = b]
        /\ byBridgeId' = [byBridgeId EXCEPT ![b] = r]
    BY <1>2 DEF PumpReply
  <2>2. working \subseteq working'
    BY <2>1, PumpOnIds
  <2>3. \A c : Tracked(c) => Tracked(c)'
    BY <1>1, <2>2 DEF Tracked
  <2>4. byBridgeId[b] = None /\ \A c : c = b => Tracked(c)
    BY <1>2 DEF LiveInv, IdsFresh
  <2>5. /\ bridgeId'[r] = b /\ byBridgeId'[b] = r
        /\ \A u \in Record : u # r => bridgeId'[u] = bridgeId[u] /\ state'[u] = state[u]
        /\ \A c \in Transfer : c # b => byBridgeId'[c] = byBridgeId[c]
    BY <1>1, <1>2, <2>1 DEF TypeOK
  <2>6. ASSUME NEW u \in Record, bridgeId'[u] # None PROVE byBridgeId'[bridgeId'[u]] = u
    <3>1. CASE u = r
      BY <2>5, <3>1
    <3>2. CASE u # r
      <4>1. bridgeId'[u] = bridgeId[u] /\ bridgeId[u] \in Transfer
        BY <2>5, <2>6, <3>2 DEF TypeOK
      <4>2. byBridgeId[bridgeId[u]] = u /\ u # None
        BY <2>6, <4>1 DEF LiveInv, IdsFresh, Record, None
      <4>3. QED
        BY <2>4, <2>5, <4>1, <4>2
    <3>3. QED
      BY <3>1, <3>2
  <2> HIDE DEF r
  <2>7. IdsFresh'
    BY <2>1, <2>3, <2>5, <2>6, PumpKeepsIds DEF LiveInv
  <2>8. ASSUME NEW u \in Running' PROVE bridgeId'[u] # None /\ \A c : c = bridgeId'[u] => Tracked(c)'
    <3>1. CASE u = r
      BY <1>2, <2>3, <2>4, <2>5, <3>1
    <3>2. CASE u # r
      <4>1. u \in Running /\ bridgeId'[u] = bridgeId[u]
        BY <2>5, <2>8, <3>2 DEF Running
      <4>2. bridgeId[u] # None /\ \A c : c = bridgeId[u] => Tracked(c)
        BY <4>1 DEF LiveInv, RunningIsLive, Tracked
      <4>3. QED
        BY <2>3, <4>1, <4>2
    <3>3. QED
      BY <3>1, <3>2
  <2>9. RunningIsLive'
    BY <2>8 DEF RunningIsLive, Tracked
  <2>10. QED
    BY <2>7, <2>8, <2>9 DEF LiveInv
<1>3. CASE b = None
  <2>1. /\ PumpOn(p, r, pump[p].slots) /\ UNCHANGED <<bridgeId, byBridgeId>>
        /\ state' = [state EXCEPT ![r] = "failed"]
    BY <1>3 DEF PumpReply
  <2>2. working \subseteq working'
    BY <2>1, PumpOnIds
  <2>3. \A c : Tracked(c) => Tracked(c)'
    BY <1>1, <2>2 DEF Tracked
  <2>4. \A u \in Record : bridgeId'[u] # None => byBridgeId'[bridgeId'[u]] = u
    BY <2>1 DEF LiveInv, IdsFresh
  <2>5. \A u \in Running' : u \in Running
    BY <1>1, <2>1 DEF Running, TypeOK
  <2>6. \A u \in Running' : Tracked(bridgeId[u])'
    BY <2>1, <2>3, <2>5 DEF LiveInv, RunningIsLive, Tracked
  <2> HIDE DEF r
  <2>7. IdsFresh'
    BY <2>1, <2>3, <2>4, PumpKeepsIds DEF LiveInv
  <2>8. RunningIsLive'
    BY <2>6 DEF RunningIsLive, Tracked
  <2>9. QED
    BY <2>1, <2>5, <2>7, <2>8 DEF LiveInv
<1>4. QED
  BY <1>2, <1>3

LEMMA HandleDoneLive ==
    ASSUME TypeOK, LiveInv, NEW p \in Pump, HandleDone(p)
    PROVE  LiveInv'
<1> DEFINE h == Head(reports).id
           r == byBridgeId[h]
           o == Head(reports).outcome
<1>1. /\ reports # <<>> /\ reports' = Tail(reports) /\ UNCHANGED <<bridgeId, byBridgeId>>
  BY DEF HandleDone
<1>2. h \in Transfer /\ o \in Outcome
  <2>1. Head(reports) \in [id : Transfer, outcome : Outcome]
    BY <1>1, FirstAndRest DEF TypeOK, SftpTypeOK
  <2>2. QED
    BY <2>1
<1>3. CASE r # None /\ ReportTaken(r, p) /\ UNCHANGED early
  <2>1. /\ PumpStarts(p)
        /\ state' = [state EXCEPT ![r] = IF o = "ok" THEN "done" ELSE o]
        /\ r \in Record
    BY <1>2, <1>3 DEF ReportTaken, TypeOK
  <2>2. working \subseteq working'
    <3>1. PumpOn(p, None, MaxConcurrent - Cardinality(Running'))
      BY <2>1 DEF PumpStarts
    <3>2. QED
      BY <3>1, PumpOnIds
  <2>3. \A b : Tracked(b) /\ b # h => Tracked(b)'
    BY <1>1, <1>3, <2>2, TakingKeepsTracked
  <2>4. \A u \in Running' : u \in Running /\ u # r
    BY <1>2, <2>1 DEF Running, TypeOK, Outcome
  <2>5. ASSUME NEW u \in Running' PROVE Tracked(bridgeId[u])'
    <3>1. u \in Running /\ u # r /\ u \in Record
      BY <2>4 DEF Running
    <3>2. bridgeId[u] # None /\ byBridgeId[bridgeId[u]] = u
      BY <3>1 DEF LiveInv, IdsFresh
    <3>3. bridgeId[u] # h /\ Tracked(bridgeId[u])
      BY <3>1, <3>2 DEF LiveInv, RunningIsLive, Tracked
    <3>4. \A b : b = bridgeId[u] => Tracked(b)'
      BY <2>3, <3>3
    <3>5. QED
      BY <1>1, <3>4
  <2>6. \A b : Tracked(b) => Tracked(b)' \/ byBridgeId[b] # None
    BY <1>3, <2>3
  <2>7. QED
    BY <1>1, <2>1, <2>4, <2>5, <2>6, PumpStartsLive
<1>4. CASE /\ r = None /\ early' = early \cup {h}
           /\ UNCHANGED <<nextTransfer, entries, working, tokens, state, pump>>
  <2>1. \A b : Tracked(b) /\ b # h => Tracked(b)'
    BY <1>1, <1>4, TakingKeepsTracked
  <2>2. \A b : b = h => Tracked(b)'
    BY <1>4 DEF Tracked
  <2>3. \A b : Tracked(b) => Tracked(b)'
    BY <2>1, <2>2
  <2>4. QED
    BY <1>1, <1>4, <2>3, LiveUntouched
<1>5. QED
  BY <1>3, <1>4 DEF HandleDone

LEMMA NextLive == TypeOK /\ LiveInv /\ [Next]_vars => LiveInv'
<1> SUFFICES ASSUME TypeOK, LiveInv, [Next]_vars PROVE LiveInv'
  OBVIOUS
<1>1. ASSUME NEW p \in Pump, NEW r \in Record, Enqueue(r, p) \/ CancelQueued(r, p)
      PROVE  LiveInv'
  <2>1. /\ PumpStarts(p) /\ UNCHANGED <<reports, early, bridgeId, byBridgeId>>
        /\ \A u \in Running' : u \in Running
    BY <1>1 DEF Enqueue, CancelQueued, Running, TypeOK
  <2>2. working \subseteq working'
    <3>1. PumpOn(p, None, MaxConcurrent - Cardinality(Running'))
      BY <2>1 DEF PumpStarts
    <3>2. QED
      BY <3>1, PumpOnIds
  <2>3. \A b : Tracked(b) => Tracked(b)'
    BY <2>1, <2>2 DEF Tracked
  <2>4. \A u \in Running' : Tracked(bridgeId[u])'
    BY <2>1, <2>3 DEF LiveInv, RunningIsLive, Tracked
  <2>5. QED
    BY <2>1, <2>3, <2>4, PumpStartsLive
<1>2. CASE Worker
  <2>1. ASSUME NEW c \in Transfer, NEW o \in Outcome, WorkerReports(c, o) PROVE LiveInv'
    <3>1. /\ UNCHANGED <<state, bridgeId, byBridgeId, pump, nextTransfer, early>>
      BY <1>2, <2>1 DEF Worker, WorkerReports
    <3>2. \A b : Tracked(b) => Tracked(b)'
      BY <2>1, <3>1, ReportingKeepsTracked
    <3>3. QED
      BY <3>1, <3>2, LiveUntouched
  <2>2. ASSUME NEW c \in Transfer, EntryRemoved(c) PROVE LiveInv'
    BY <1>2, <2>2, LiveUntouched DEF Worker, EntryRemoved, Tracked
  <2>3. QED
    BY <1>2, <2>1, <2>2 DEF Worker
<1>3. CASE (\E r \in Record : CancelStarted(r)) \/ UNCHANGED vars
  BY <1>3, LiveUntouched DEF CancelStarted, CancelTransfer, vars, sftpVars, Tracked
<1>4. QED
  BY <1>1, <1>2, <1>3, PumpReplyLive, HandleDoneLive DEF Next

(* No record is shown running for ever after its transfer has ended, unless the
   report overtook the reply with the transfer's id.                             *)
THEOREM RunningIsLiveHolds == Spec => []RunningIsLive
<1>1. Init => LiveInv
  BY DEF Init, SftpInit, LiveInv, RunningIsLive, Running, IdsFresh, NoPump
<1>2. LiveInv => RunningIsLive
  BY DEF LiveInv
<1>3. QED
  BY <1>1, <1>2, NextLive, TransferTypes, PTL DEF Spec

=============================================================================
