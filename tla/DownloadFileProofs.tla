------------------------- MODULE DownloadFileProofs -------------------------
(* What TLAPS proves of DownloadFile, for any sets of paths and transfers that have no
   member in common and files of any length.                                         *)
EXTENDS DownloadFile, SequenceTheorems, TLAPS

Sizes == Chunks \in Nat /\ Path \cap Transfer = {}

Elem == (File \X Nat) \cup {Hole}
Places == {"idle", "copying", "synced", "removing", "renamed", "done", "reading", "sent",
           "failed", "gone"}
JobType == [at : Places, path : SUBSET Path, file : SUBSET File, copy : Seq(Elem)]

TypeOK ==
    /\ real \in [Path -> SUBSET File] /\ temp \in [Path -> SUBSET File]
    /\ bytes \in [File -> Seq(Elem)]
    /\ durable \subseteq File
    /\ job \in [Transfer -> JobType]
    /\ fired \subseteq Transfer /\ mixed \subseteq Path /\ left \subseteq Path

(* The transfers of a path, and the files that its name and its .part may stand for. *)
Mine(p) == {t \in Transfer : job[t].path = {p}}
Kin(p) == {p} \cup Mine(p)

(* A path and its transfers have to do with no file of another path. *)
Names ==
    /\ \A p \in Path :
        /\ real[p] \subseteq Kin(p) /\ temp[p] \subseteq Mine(p)
        /\ \A f, g \in real[p] : f = g
        /\ \A f, g \in temp[p] : f = g
        /\ \A t \in Mine(p) : job[t].file \subseteq Kin(p)
    /\ \A t \in Transfer :
        IF job[t].at = "idle" THEN job[t].path = {} /\ job[t].copy = <<>>
        ELSE \E p \in Path : job[t].path = {p}

(* At a path to which one download goes at a time, that one's .part file is nobody else's
   and has what was copied so far, and every other file is whole. *)
Alone(p) ==
    /\ \A t, u \in Downloading(p) : t = u
    /\ temp[p] \cap real[p] = {}
    /\ real[p] \subseteq durable
CopyFits(t, p) ==
    /\ job[t].at \in {"copying", "synced"} => job[t].file = temp[p]
    /\ job[t].at = "copying" =>
        \E n \in 0..Chunks : job[t].copy = First(t, n) /\ \A f \in temp[p] : bytes[f] = First(t, n)
    /\ job[t].at = "synced" =>
        temp[p] \subseteq durable /\ \A f \in temp[p] : bytes[f] = Whole(t)
ReadFits(t, p) ==
    /\ job[t].at = "reading" =>
        /\ job[t].file \cap temp[p] = {}
        /\ \E x \in File, n \in 0..Chunks :
            job[t].copy = First(x, n) /\ \A f \in job[t].file : bytes[f] = Whole(x)
    /\ job[t].at = "sent" => \E x \in File : job[t].copy = Whole(x)
Copies(p) == \A t \in Mine(p) : CopyFits(t, p)
Reads(p) == \A t \in Mine(p) : ReadFits(t, p)
Lone(p) == Alone(p) /\ Copies(p) /\ Reads(p) /\ WholeAt(p)

IInv == TypeOK /\ Names /\ \A p \in Path \ mixed : Lone(p)

----------------------------------------------------------------------------
(* The first n chunks of a transfer. *)
LEMMA FirstTyped ==
    ASSUME NEW x \in File, NEW n \in Nat
    PROVE  First(x, n) \in Seq(Elem) /\ Len(First(x, n)) = n
<1>1. First(x, n) \in [1..n -> Elem]
  BY DEF First, Elem
<1>2. First(x, n) \in Seq(Elem)
  BY <1>1, SeqDef
<1>3. DOMAIN First(x, n) = 1..n
  BY DEF First
<1> QED
  BY <1>2, <1>3, LenProperties

LEMMA FirstNone == ASSUME NEW x PROVE First(x, 0) = <<>>
  BY DEF First

LEMMA FirstMore ==
    ASSUME NEW x \in File, NEW n \in Nat
    PROVE  /\ At(First(x, n), n + 1, <<x, n + 1>>) = First(x, n + 1)
           /\ Append(First(x, n), <<x, n + 1>>) = First(x, n + 1)
<1>1. Len(First(x, n)) = n
  BY FirstTyped
<1>2. At(First(x, n), n + 1, <<x, n + 1>>) = First(x, n + 1)
  BY <1>1 DEF At, First
<1>3. Append(First(x, n), <<x, n + 1>>) = First(x, n + 1)
  BY <1>1, FirstTyped DEF First
<1> QED
  BY <1>2, <1>3

LEMMA AtTyped ==
    ASSUME NEW s \in Seq(Elem), NEW i \in Nat \ {0}, NEW e \in Elem
    PROVE  At(s, i, e) \in Seq(Elem)
<1> DEFINE n == IF i <= Len(s) THEN Len(s) ELSE i
<1>1. n \in Nat
  OBVIOUS
<1>2. Hole \in Elem
  BY DEF Elem
<1>3. At(s, i, e) \in [1..n -> Elem]
  BY <1>2 DEF At
<1> QED
  BY <1>1, <1>3, SeqDef

(* Two paths have no file in common. *)
LEMMA KinApart ==
    ASSUME Sizes, NEW p \in Path, NEW q \in Path, p # q
    PROVE  Kin(p) \cap Kin(q) = {}
  BY DEF Sizes, Kin, Mine

LEMMA JobTyped ==
    ASSUME TypeOK, NEW t \in Transfer
    PROVE  /\ job[t] \in JobType
           /\ job[t].at \in Places /\ job[t].path \subseteq Path /\ job[t].file \subseteq File
           /\ job[t].copy \in Seq(Elem)
<1>1. job[t] \in JobType
  BY DEF TypeOK
<1> QED
  BY <1>1 DEF JobType

(* A step that leaves a path, its transfers and their files alone leaves it as it was. *)
LEMMA Untouched ==
    ASSUME TypeOK, Names, NEW p \in Path, Lone(p),
           real'[p] = real[p], temp'[p] = temp[p],
           \A f \in Kin(p) : bytes'[f] = bytes[f] /\ (f \in durable => f \in durable'),
           Mine(p)' = Mine(p), \A u \in Mine(p) : job'[u] = job[u]
    PROVE  Lone(p)'
<1>1. Downloading(p)' = Downloading(p)
  BY DEF Downloading, Mine
<1>2. real[p] \subseteq Kin(p) /\ temp[p] \subseteq Kin(p)
  BY DEF Names, Kin
<1>3. Alone(p)'
  BY <1>1, <1>2 DEF Lone, Alone
<1>4. Copies(p)'
  BY <1>2 DEF Lone, Copies, CopyFits
<1>5. Reads(p)'
  <2>1. \A t \in Mine(p) : job[t].file \subseteq Kin(p)
    BY DEF Names
  <2> QED
    BY <2>1, <1>2 DEF Lone, Reads, ReadFits
<1>6. WholeAt(p)'
  <2>1. WholeAt(p)
    BY DEF Lone
  <2>2. ASSUME NEW f \in real[p]
        PROVE  \/ f = p /\ bytes'[f] = Whole(p)
               \/ \E t \in Transfer :
                    job'[t].path = {p} /\ job'[t].at \in {"renamed", "done", "gone"} /\ bytes'[f] = Whole(t)
    <3>1. bytes'[f] = bytes[f]
      BY <1>2
    <3>2. \A t \in Transfer : job[t].path = {p} => job'[t] = job[t]
      BY DEF Mine
    <3> QED
      BY <2>1, <3>1, <3>2 DEF WholeAt
  <2> QED
    BY <2>2 DEF WholeAt
<1> QED
  BY <1>3, <1>4, <1>5, <1>6 DEF Lone

(* A step that changes one transfer at most changes what is of its path. *)
LEMMA OthersUntouched ==
    ASSUME IInv, Sizes, NEW t \in Transfer, NEW p \in Path, job'[t].path = {p},
           job[t].path \in {{}, {p}}, \A u \in Transfer \ {t} : job'[u] = job[u],
           \A q \in Path \ {p} : real'[q] = real[q] /\ temp'[q] = temp[q],
           NEW touched \in SUBSET (Kin(p) \cup {t}),
           \A f \in File \ touched : bytes'[f] = bytes[f] /\ (f \in durable => f \in durable'),
           mixed \subseteq mixed'
    PROVE  \A q \in Path \ (mixed' \cup {p}) : Lone(q)'
<1> SUFFICES ASSUME NEW q \in Path \ (mixed' \cup {p}) PROVE Lone(q)'
  OBVIOUS
<1>1. Lone(q) /\ TypeOK /\ Names
  BY DEF IInv
<1>2. t \notin Mine(q)
  BY DEF Mine
<1>3. Mine(q)' = Mine(q) /\ \A u \in Mine(q) : job'[u] = job[u]
  BY <1>2 DEF Mine
<1>4. Kin(q) \cap touched = {}
  <2>1. Kin(p) \cap Kin(q) = {}
    BY KinApart
  <2>2. t \notin Kin(q)
    BY <1>2 DEF Kin, Sizes
  <2> QED
    BY <2>1, <2>2
<1>5. Kin(q) \subseteq File
  BY DEF Kin, Mine, File
<1> QED
  BY <1>1, <1>3, <1>4, <1>5, Untouched

----------------------------------------------------------------------------
(* Every step keeps the types. *)
LEMMA CreateTyped == ASSUME TypeOK, NEW t \in Transfer, NEW p \in Path, CreatePart(t, p) PROVE TypeOK'
<1> DEFINE f == IF temp[p] = {} THEN {t} ELSE temp[p]
<1>1. f \subseteq File
  BY DEF TypeOK, File
<1>2. job[t] \in JobType /\ job' = [job EXCEPT ![t].at = "copying", ![t].path = {p}, ![t].file = f]
  BY JobTyped DEF CreatePart
<1>3. job' \in [Transfer -> JobType]
  BY <1>1, <1>2 DEF TypeOK, JobType, Places
<1>4. bytes' \in [File -> Seq(Elem)]
  BY DEF CreatePart, TypeOK
<1>5. temp' \in [Path -> SUBSET File]
  BY <1>1 DEF CreatePart, TypeOK
<1> QED
  BY <1>1, <1>3, <1>4, <1>5 DEF CreatePart, TypeOK

LEMMA CopyTyped == ASSUME TypeOK, NEW t \in Transfer, CopyChunk(t) PROVE TypeOK'
<1> DEFINE i == Len(job[t].copy) + 1
<1>1. job[t].copy \in Seq(Elem) /\ job[t] \in JobType
  BY JobTyped
<1>2. i \in Nat \ {0} /\ <<t, i>> \in Elem
  BY <1>1 DEF Elem, File
<1>3. bytes' = [f \in File |-> IF f \in job[t].file THEN At(bytes[f], i, <<t, i>>) ELSE bytes[f]]
  BY DEF CopyChunk
<1>4. \A f \in File : At(bytes[f], i, <<t, i>>) \in Seq(Elem)
  BY <1>2, AtTyped DEF TypeOK
<1> HIDE DEF i
<1>5. bytes' \in [File -> Seq(Elem)]
  BY <1>3, <1>4 DEF TypeOK
<1>6. job' = [job EXCEPT ![t].copy = Append(@, <<t, i>>)]
  BY DEF CopyChunk, i
<1>7. Append(job[t].copy, <<t, i>>) \in Seq(Elem)
  BY <1>1, <1>2
<1>8. job' \in [Transfer -> JobType]
  BY <1>1, <1>6, <1>7 DEF TypeOK, JobType
<1> QED
  BY <1>5, <1>8 DEF CopyChunk, TypeOK

LEMMA SendTyped == ASSUME TypeOK, NEW t \in Transfer, SendChunk(t) PROVE TypeOK'
<1>1. PICK f \in job[t].file :
        /\ Len(job[t].copy) < Len(bytes[f])
        /\ job' = [job EXCEPT ![t].copy = Append(@, bytes[f][Len(@) + 1])]
        /\ UNCHANGED <<real, temp, bytes, durable, fired, mixed, left>>
  BY DEF SendChunk
<1>2. job[t] \in JobType /\ job[t].copy \in Seq(Elem) /\ f \in File
  BY JobTyped
<1>3. bytes[f] \in Seq(Elem)
  BY <1>2 DEF TypeOK
<1>4. bytes[f][Len(job[t].copy) + 1] \in Elem
  BY <1>1, <1>2, <1>3
<1>5. Append(job[t].copy, bytes[f][Len(job[t].copy) + 1]) \in Seq(Elem)
  BY <1>2, <1>4
<1>6. job' \in [Transfer -> JobType]
  BY <1>1, <1>2, <1>5 DEF TypeOK, JobType
<1> QED
  BY <1>1, <1>6 DEF TypeOK

LEMMA PowerTyped == ASSUME TypeOK, Sizes, PowerFails PROVE TypeOK'
<1>1. PICK kept \in [File \ durable -> 0..Chunks] :
        bytes' = [f \in File |->
                    IF f \in durable \/ Len(bytes[f]) <= kept[f] THEN bytes[f]
                    ELSE SubSeq(bytes[f], 1, kept[f])]
  BY DEF PowerFails
<1>2. ASSUME NEW f \in File, ~(f \in durable \/ Len(bytes[f]) <= kept[f])
      PROVE  SubSeq(bytes[f], 1, kept[f]) \in Seq(Elem)
  <2>1. bytes[f] \in Seq(Elem) /\ kept[f] \in Nat /\ kept[f] <= Len(bytes[f])
    BY <1>2 DEF TypeOK, Sizes
  <2>2. \A i \in 1..kept[f] : bytes[f][i] \in Elem
    BY <2>1
  <2> QED
    BY <2>1, <2>2, SubSeqProperties
<1>3. bytes' \in [File -> Seq(Elem)]
  BY <1>1, <1>2 DEF TypeOK
<1>4. job' \in [Transfer -> JobType]
  <2>1. \A t \in Transfer :
          [job[t] EXCEPT !.at = IF @ \in {"idle", "done", "sent", "failed"} THEN @ ELSE "gone", !.file = {}]
            \in JobType
    BY JobTyped DEF JobType, Places
  <2> QED
    BY <2>1 DEF PowerFails
<1> QED
  BY <1>3, <1>4 DEF PowerFails, TypeOK

LEMMA Moves ==
    ASSUME TypeOK, NEW t \in Transfer, NEW a \in Places,
           \/ job' = [job EXCEPT ![t].at = a]
           \/ job' = [job EXCEPT ![t].at = a, ![t].file = {}]
    PROVE  job' \in [Transfer -> JobType]
<1>1. job[t] \in JobType
  BY JobTyped
<1>2. [job[t] EXCEPT !.at = a] \in JobType /\ [job[t] EXCEPT !.at = a, !.file = {}] \in JobType
  BY <1>1 DEF JobType
<1> QED
  BY <1>1, <1>2 DEF TypeOK

LEMMA TypeStep == ASSUME TypeOK, Sizes, DownloadNext PROVE TypeOK'
<1>1. CASE PowerFails
  BY <1>1, PowerTyped
<1>2. CASE \E t \in Transfer, p \in Path : CreatePart(t, p)
  BY <1>2, CreateTyped
<1>3. CASE \E t \in Transfer, p \in Path : OpenLocal(t, p)
  <2>1. PICK t \in Transfer, p \in Path : OpenLocal(t, p)
    BY <1>3
  <2>2. job[t] \in JobType
    BY JobTyped
  <2>3. job' \in [Transfer -> JobType]
    BY <2>1, <2>2 DEF OpenLocal, TypeOK, JobType, Places
  <2> QED
    BY <2>1, <2>3 DEF OpenLocal, TypeOK
<1>4. CASE \E t \in Transfer : CopyChunk(t)
  BY <1>4, CopyTyped
<1>5. CASE \E t \in Transfer : SendChunk(t)
  BY <1>5, SendTyped
<1>6. ASSUME NEW t \in Transfer, Sync(t) PROVE TypeOK'
  <2>1. job' \in [Transfer -> JobType]
    BY <1>6, Moves DEF Sync, Places
  <2> QED
    BY <1>6, <2>1, JobTyped DEF Sync, TypeOK
<1>7. ASSUME NEW t \in Transfer, CopyStops(t) \/ RenameFails(t) PROVE TypeOK'
  <2>1. job' \in [Transfer -> JobType]
    BY <1>7, Moves DEF CopyStops, RenameFails, Places
  <2> QED
    BY <1>7, <2>1 DEF CopyStops, RenameFails, TypeOK
<1>8. ASSUME NEW t \in Transfer, DownloadReports(t) \/ UploadEnds(t) \/ UploadStops(t) PROVE TypeOK'
  <2>1. job' \in [Transfer -> JobType]
    BY <1>8, Moves DEF DownloadReports, UploadEnds, UploadStops, Places
  <2> QED
    BY <1>8, <2>1 DEF DownloadReports, UploadEnds, UploadStops, TypeOK
<1>9. ASSUME NEW t \in Transfer, CancelToken(t) PROVE TypeOK'
  BY <1>9 DEF CancelToken, TypeOK
<1>10. ASSUME NEW t \in Transfer, Rename(t) PROVE TypeOK'
  <2>1. PICK p \in job[t].path :
          /\ real' = [real EXCEPT ![p] = temp[p]]
          /\ temp' = [temp EXCEPT ![p] = {}]
          /\ job' = [job EXCEPT ![t].at = "renamed", ![t].file = {}]
          /\ UNCHANGED <<bytes, durable, fired, mixed, left>>
    BY <1>10 DEF Rename
  <2>2. job' \in [Transfer -> JobType]
    BY <2>1, Moves DEF Places
  <2>3. p \in Path
    BY JobTyped
  <2> QED
    BY <2>1, <2>2, <2>3 DEF TypeOK
<1>11. ASSUME NEW t \in Transfer, RemovePart(t) PROVE TypeOK'
  <2>1. PICK p \in job[t].path :
          /\ temp' = [temp EXCEPT ![p] = {}]
          /\ job' = [job EXCEPT ![t].at = "failed", ![t].file = {}]
          /\ UNCHANGED <<real, bytes, durable, fired, mixed, left>>
    BY <1>11 DEF RemovePart
  <2>2. job' \in [Transfer -> JobType]
    BY <2>1, Moves DEF Places
  <2> QED
    BY <2>1, <2>2 DEF TypeOK
<1> QED
  BY <1>1, <1>2, <1>3, <1>4, <1>5, <1>6, <1>7, <1>8, <1>9, <1>10, <1>11 DEF DownloadNext

----------------------------------------------------------------------------
(* A transfer that goes on keeps its path. *)
LEMMA HasPath ==
    ASSUME TypeOK, Names, NEW t \in Transfer, job[t].at # "idle"
    PROVE  \E p \in Path : job[t].path = {p} /\ t \in Mine(p)
  BY DEF Names, Mine

GoesOn(t) ==
    /\ job[t].at # "idle" /\ job'[t].at # "idle"
    /\ job'[t].path = job[t].path /\ job'[t].file \subseteq job[t].file
    /\ \A u \in Transfer \ {t} : job'[u] = job[u]

LEMMA MineKept ==
    ASSUME NEW t \in Transfer, GoesOn(t), NEW p \in Path
    PROVE  Mine(p)' = Mine(p) /\ Kin(p)' = Kin(p)
  BY DEF GoesOn, Mine, Kin

LEMMA NamesKept ==
    ASSUME TypeOK, Names, NEW t \in Transfer, GoesOn(t),
           \A p \in Path : /\ real'[p] = real[p] \/ real'[p] = temp[p]
                           /\ temp'[p] = temp[p] \/ temp'[p] = {}
    PROVE  Names'
<1>1. ASSUME NEW p \in Path
      PROVE  /\ real'[p] \subseteq Kin(p)' /\ temp'[p] \subseteq Mine(p)'
             /\ \A f, g \in real'[p] : f = g
             /\ \A f, g \in temp'[p] : f = g
             /\ \A u \in Mine(p)' : job'[u].file \subseteq Kin(p)'
  <2>1. Mine(p)' = Mine(p) /\ Kin(p)' = Kin(p)
    BY MineKept
  <2>2. \A u \in Mine(p) : job[u].file \subseteq Kin(p)
    BY DEF Names
  <2>3. \A u \in Mine(p) : job'[u].file \subseteq Kin(p)
    BY <2>2 DEF Mine, GoesOn
  <2> QED
    BY <2>1, <2>3 DEF Names, Kin
<1>2. ASSUME NEW u \in Transfer
      PROVE  IF job'[u].at = "idle" THEN job'[u].path = {} /\ job'[u].copy = <<>>
             ELSE \E p \in Path : job'[u].path = {p}
  BY DEF Names, GoesOn
<1> QED
  BY <1>1, <1>2 DEF Names

(* What a step of t that goes on has to show: its own path is as it should be. *)
LEMMA GoneOn ==
    ASSUME IInv, Sizes, TypeOK', NEW t \in Transfer, NEW p \in Path, GoesOn(t), job[t].path = {p},
           real'[p] = real[p] \/ real'[p] = temp[p], temp'[p] = temp[p] \/ temp'[p] = {},
           \A q \in Path \ {p} : real'[q] = real[q] /\ temp'[q] = temp[q],
           \A f \in File \ job[t].file : bytes'[f] = bytes[f] /\ (f \in durable => f \in durable'),
           mixed' = mixed,
           p \notin mixed => Lone(p)'
    PROVE  IInv'
<1>1. Names'
  BY NamesKept DEF IInv
<1>2. job[t].file \subseteq Kin(p)
  BY DEF IInv, Names, Mine
<1>3. \A q \in Path \ (mixed \cup {p}) : Lone(q)'
  BY <1>2, OthersUntouched DEF GoesOn
<1> QED
  BY <1>1, <1>3 DEF IInv

(* The one of Downloading. *)
LEMMA OneDownload ==
    ASSUME NEW p \in Path, Lone(p), NEW t \in Downloading(p)
    PROVE  /\ t \in Mine(p)
           /\ \A u \in Mine(p) \ {t} : job[u].at \notin {"copying", "synced", "removing"}
  BY DEF Lone, Alone, Downloading, Mine

(* A step of t that changes neither names nor contents. *)
LEMMA Quiet ==
    ASSUME Names, NEW t \in Transfer, NEW p \in Path, GoesOn(t), job[t].path = {p}, Lone(p),
           UNCHANGED <<real, temp, bytes>>, durable \subseteq durable',
           job'[t].at \in {"copying", "synced", "removing"} =>
                job[t].at \in {"copying", "synced", "removing"},
           job[t].at \in {"renamed", "done", "gone"} => job'[t].at \in {"renamed", "done", "gone"},
           CopyFits(t, p)', ReadFits(t, p)'
    PROVE  Lone(p)'
<1>1. Mine(p)' = Mine(p)
  BY MineKept
<1>2. Downloading(p)' \subseteq Downloading(p)
  BY DEF Downloading, GoesOn
<1>3. Alone(p)'
  BY <1>2 DEF Lone, Alone
<1>4. Copies(p)'
  <2>1. ASSUME NEW u \in Mine(p), u # t PROVE CopyFits(u, p)'
    <3>1. job'[u] = job[u] /\ CopyFits(u, p)
      BY <2>1 DEF GoesOn, Mine, Lone, Copies
    <3> QED
      BY <3>1 DEF CopyFits
  <2> QED
    BY <1>1, <2>1 DEF Copies
<1>5. Reads(p)'
  <2>1. ASSUME NEW u \in Mine(p), u # t PROVE ReadFits(u, p)'
    <3>1. job'[u] = job[u] /\ ReadFits(u, p)
      BY <2>1 DEF GoesOn, Mine, Lone, Reads
    <3> QED
      BY <3>1 DEF ReadFits
  <2> QED
    BY <1>1, <2>1 DEF Reads
<1>6. WholeAt(p)'
  BY DEF Lone, WholeAt, GoesOn
<1> QED
  BY <1>3, <1>4, <1>5, <1>6 DEF Lone

----------------------------------------------------------------------------
LEMMA CopyStep ==
    ASSUME IInv, Sizes, TypeOK', NEW t \in Transfer, CopyChunk(t) PROVE IInv'
<1>1. job[t] \in JobType /\ job[t].copy \in Seq(Elem) /\ TypeOK /\ Names
  BY JobTyped DEF IInv
<1>2. PICK p \in Path : job[t].path = {p} /\ t \in Mine(p)
  BY <1>1, HasPath DEF CopyChunk
<1>3. GoesOn(t) /\ job'[t].at = "copying"
  BY <1>1 DEF CopyChunk, GoesOn, TypeOK
<1>4. ASSUME p \notin mixed PROVE Lone(p)'
  <2>1. Lone(p) /\ t \in Downloading(p) /\ CopyFits(t, p)
    BY <1>2, <1>4 DEF IInv, Downloading, CopyChunk, Lone, Copies
  <2>2. PICK n \in 0..Chunks : job[t].copy = First(t, n) /\ \A f \in temp[p] : bytes[f] = First(t, n)
    BY <2>1 DEF CopyFits, CopyChunk
  <2>3. Len(job[t].copy) = n /\ n + 1 \in 0..Chunks /\ n \in Nat /\ t \in File
    BY <2>2, FirstTyped DEF CopyChunk, Sizes, File
  <2>4. job[t].file = temp[p] /\ temp[p] \subseteq File /\ real[p] \subseteq File
    BY <1>1, <2>1 DEF CopyFits, CopyChunk, TypeOK
  <2>5. job' = [job EXCEPT ![t].copy = Append(@, <<t, n + 1>>)]
    BY <2>3 DEF CopyChunk
  <2>6. job'[t].copy = First(t, n + 1)
    <3>1. job'[t].copy = Append(job[t].copy, <<t, n + 1>>)
      BY <1>1, <2>5 DEF TypeOK, JobType
    <3> QED
      BY <2>2, <2>3, <3>1, FirstMore
  <2>7. \A f \in temp[p] : bytes'[f] = First(t, n + 1)
    BY <2>2, <2>3, <2>4, FirstMore DEF CopyChunk
  <2>8. \A f \in File \ temp[p] : bytes'[f] = bytes[f]
    BY <2>4 DEF CopyChunk
  <2>9. Mine(p)' = Mine(p) /\ Downloading(p)' = Downloading(p)
    BY <1>3, MineKept DEF Downloading, GoesOn, CopyChunk
  <2>10. Alone(p)'
    BY <2>1, <2>4, <2>9 DEF Alone, Lone, CopyChunk
  <2>11. ASSUME NEW u \in Mine(p) PROVE CopyFits(u, p)'
    <3>1. CASE u = t
      <4>1. job'[t].file = temp[p] /\ temp' = temp
        BY <1>1, <2>4 DEF CopyChunk, TypeOK, JobType
      <4> QED
        BY <1>3, <2>3, <2>6, <2>7, <3>1, <4>1 DEF CopyFits
    <3>2. CASE u # t
      BY <2>1, <3>2, <1>3, OneDownload DEF CopyFits, GoesOn, Mine
    <3> QED
      BY <3>1, <3>2
  <2>12. ASSUME NEW u \in Mine(p) PROVE ReadFits(u, p)'
    <3>1. CASE u = t
      BY <1>3, <3>1 DEF ReadFits
    <3>2. CASE u # t
      <4>1. ReadFits(u, p) /\ job'[u] = job[u] /\ job[u].file \subseteq File
        BY <1>1, <1>3, <2>1, <3>2, JobTyped DEF Lone, Reads, GoesOn, Mine
      <4> QED
        BY <4>1, <2>8 DEF ReadFits, CopyChunk
    <3> QED
      BY <3>1, <3>2
  <2>13. WholeAt(p)'
    <3>1. \A f \in real[p] : bytes'[f] = bytes[f]
      BY <2>1, <2>4, <2>8 DEF Lone, Alone
    <3>2. \A u \in Transfer : job[u].at \in {"renamed", "done", "gone"} => job'[u] = job[u]
      BY <1>3 DEF GoesOn, CopyChunk
    <3>3. WholeAt(p) /\ real' = real
      BY <2>1 DEF Lone, CopyChunk
    <3>4. ASSUME NEW f \in real[p]
          PROVE  \/ f = p /\ bytes'[f] = Whole(p)
                 \/ \E u \in Transfer :
                    job'[u].path = {p} /\ job'[u].at \in {"renamed", "done", "gone"} /\ bytes'[f] = Whole(u)
      BY <3>1, <3>2, <3>3 DEF WholeAt
    <3> QED
      BY <3>3, <3>4 DEF WholeAt
  <2> QED
    BY <2>9, <2>10, <2>11, <2>12, <2>13 DEF Lone, Copies, Reads
<1> QED
  BY <1>2, <1>3, <1>4, GoneOn DEF CopyChunk

LEMMA SyncStep == ASSUME IInv, Sizes, TypeOK', NEW t \in Transfer, Sync(t) PROVE IInv'
<1>1. job[t] \in JobType /\ TypeOK /\ Names
  BY JobTyped DEF IInv
<1>2. PICK p \in Path : job[t].path = {p} /\ t \in Mine(p)
  BY <1>1, HasPath DEF Sync
<1>3. GoesOn(t) /\ job'[t] = [job[t] EXCEPT !.at = "synced"]
  BY <1>1 DEF Sync, GoesOn, TypeOK, JobType
<1>4. ASSUME p \notin mixed PROVE Lone(p)'
  <2>1. Lone(p) /\ CopyFits(t, p)
    BY <1>2, <1>4 DEF IInv, Lone, Copies
  <2>2. PICK n \in 0..Chunks : job[t].copy = First(t, n) /\ \A f \in temp[p] : bytes[f] = First(t, n)
    BY <2>1 DEF CopyFits, Sync
  <2>3. n = Chunks
    BY <2>2, FirstTyped DEF Sync, Sizes, File
  <2>4. job'[t].at = "synced" /\ job'[t].file = temp[p] /\ temp[p] \subseteq durable'
    BY <1>1, <1>3, <2>1 DEF CopyFits, Sync, JobType
  <2>5. CopyFits(t, p)' /\ ReadFits(t, p)'
    BY <2>2, <2>3, <2>4 DEF CopyFits, ReadFits, Whole, Sync
  <2> QED
    BY <1>1, <1>2, <1>3, <2>1, <2>4, <2>5, Quiet DEF Sync
<1> QED
  BY <1>2, <1>3, <1>4, GoneOn DEF Sync

(* The steps on which a transfer only goes elsewhere. *)
LEMMA MoveStep ==
    ASSUME IInv, Sizes, TypeOK', NEW t \in Transfer,
           CopyStops(t) \/ RenameFails(t) \/ DownloadReports(t) \/ UploadStops(t)
    PROVE  IInv'
<1>1. job[t] \in JobType /\ TypeOK /\ Names
  BY JobTyped DEF IInv
<1>2. PICK p \in Path : job[t].path = {p} /\ t \in Mine(p)
  BY <1>1, HasPath DEF CopyStops, RenameFails, DownloadReports, UploadStops
<1>3. UNCHANGED <<real, temp, bytes, durable, mixed>>
  BY DEF CopyStops, RenameFails, DownloadReports, UploadStops
<1>4. GoesOn(t)
  <2>1. CASE CopyStops(t)
    BY <1>1, <2>1 DEF CopyStops, GoesOn, TypeOK, JobType
  <2>2. CASE RenameFails(t)
    BY <1>1, <2>2 DEF RenameFails, GoesOn, TypeOK, JobType
  <2>3. CASE DownloadReports(t)
    BY <1>1, <2>3 DEF DownloadReports, GoesOn, TypeOK, JobType
  <2>4. CASE UploadStops(t)
    BY <1>1, <2>4 DEF UploadStops, GoesOn, TypeOK, JobType
  <2> QED
    BY <2>1, <2>2, <2>3, <2>4
<1>5. \/ job[t].at \in {"copying", "synced"} /\ job'[t].at = "removing"
      \/ job[t].at = "renamed" /\ job'[t].at = "done"
      \/ job[t].at = "reading" /\ job'[t].at = "failed"
  BY <1>1 DEF CopyStops, RenameFails, DownloadReports, UploadStops, TypeOK, JobType
<1>6. ASSUME p \notin mixed PROVE Lone(p)'
  <2>1. Lone(p)
    BY <1>6 DEF IInv
  <2>2. CopyFits(t, p)' /\ ReadFits(t, p)'
    BY <1>5 DEF CopyFits, ReadFits
  <2> QED
    BY <1>1, <1>2, <1>3, <1>4, <1>5, <2>1, <2>2, Quiet
<1> QED
  BY <1>2, <1>3, <1>4, <1>6, GoneOn

LEMMA SendStep == ASSUME IInv, Sizes, TypeOK', NEW t \in Transfer, SendChunk(t) PROVE IInv'
<1>1. job[t] \in JobType /\ job[t].copy \in Seq(Elem) /\ TypeOK /\ Names
  BY JobTyped DEF IInv
<1>2. PICK p \in Path : job[t].path = {p} /\ t \in Mine(p)
  BY <1>1, HasPath DEF SendChunk
<1>3. PICK f \in job[t].file :
        /\ job[t].at = "reading" /\ Len(job[t].copy) < Len(bytes[f])
        /\ job' = [job EXCEPT ![t].copy = Append(@, bytes[f][Len(@) + 1])]
        /\ UNCHANGED <<real, temp, bytes, durable, fired, mixed, left>>
  BY DEF SendChunk
<1>4. GoesOn(t) /\ job'[t] = [job[t] EXCEPT !.copy = Append(@, bytes[f][Len(@) + 1])]
  BY <1>1, <1>3 DEF GoesOn, TypeOK, JobType
<1>5. ASSUME p \notin mixed PROVE Lone(p)'
  <2>1. Lone(p) /\ ReadFits(t, p)
    BY <1>2, <1>5 DEF IInv, Lone, Reads
  <2>2. PICK x \in File, n \in 0..Chunks :
          job[t].copy = First(x, n) /\ \A g \in job[t].file : bytes[g] = Whole(x)
    BY <1>3, <2>1 DEF ReadFits
  <2>3. n \in Nat /\ Len(First(x, n)) = n /\ Len(Whole(x)) = Chunks
    BY FirstTyped DEF Whole, Sizes
  <2>4. n < Chunks /\ n + 1 \in 0..Chunks
    BY <1>3, <2>2, <2>3 DEF Sizes
  <2>5. bytes[f][n + 1] = <<x, n + 1>>
    <3>1. bytes[f] = Whole(x)
      BY <2>2
    <3>2. n + 1 \in 1..Chunks
      BY <2>3, <2>4 DEF Sizes
    <3>3. Whole(x)[n + 1] = <<x, n + 1>>
      BY <3>2 DEF Whole, First
    <3> QED
      BY <3>1, <3>3
  <2>6. job'[t].copy = Append(First(x, n), <<x, n + 1>>)
    BY <1>1, <1>4, <2>2, <2>3, <2>5 DEF JobType
  <2>7. job'[t].copy = First(x, n + 1)
    BY <2>3, <2>6, FirstMore
  <2>8. job'[t].at = "reading" /\ job'[t].file = job[t].file
    BY <1>1, <1>3, <1>4 DEF JobType
  <2>9. CopyFits(t, p)' /\ ReadFits(t, p)'
    BY <1>3, <2>1, <2>2, <2>4, <2>7, <2>8 DEF CopyFits, ReadFits
  <2> QED
    BY <1>1, <1>2, <1>3, <1>4, <2>1, <2>8, <2>9, Quiet
<1> QED
  BY <1>2, <1>3, <1>4, <1>5, GoneOn

LEMMA UploadEndsStep == ASSUME IInv, Sizes, TypeOK', NEW t \in Transfer, UploadEnds(t) PROVE IInv'
<1>1. job[t] \in JobType /\ TypeOK /\ Names
  BY JobTyped DEF IInv
<1>2. PICK p \in Path : job[t].path = {p} /\ t \in Mine(p)
  BY <1>1, HasPath DEF UploadEnds
<1>3. PICK f \in job[t].file :
        /\ job[t].at = "reading" /\ Len(job[t].copy) >= Len(bytes[f])
        /\ job' = [job EXCEPT ![t].at = "sent", ![t].file = {}]
        /\ UNCHANGED <<real, temp, bytes, durable, fired, mixed, left>>
  BY DEF UploadEnds
<1>4. GoesOn(t) /\ job'[t].at = "sent" /\ job'[t].copy = job[t].copy
  BY <1>1, <1>3 DEF GoesOn, TypeOK, JobType
<1>5. ASSUME p \notin mixed PROVE Lone(p)'
  <2>1. Lone(p) /\ ReadFits(t, p)
    BY <1>2, <1>5 DEF IInv, Lone, Reads
  <2>2. PICK x \in File, n \in 0..Chunks :
          job[t].copy = First(x, n) /\ \A g \in job[t].file : bytes[g] = Whole(x)
    BY <1>3, <2>1 DEF ReadFits
  <2>3. n \in Nat /\ Len(First(x, n)) = n /\ Len(Whole(x)) = Chunks
    BY FirstTyped DEF Whole, Sizes
  <2>4. n = Chunks
    BY <1>3, <2>2, <2>3 DEF Sizes
  <2>5. CopyFits(t, p)' /\ ReadFits(t, p)'
    BY <1>4, <2>2, <2>4 DEF CopyFits, ReadFits, Whole
  <2> QED
    BY <1>1, <1>2, <1>3, <1>4, <2>1, <2>5, Quiet
<1> QED
  BY <1>2, <1>3, <1>4, <1>5, GoneOn

LEMMA RenameStep == ASSUME IInv, Sizes, TypeOK', NEW t \in Transfer, Rename(t) PROVE IInv'
<1>1. job[t] \in JobType /\ TypeOK /\ Names
  BY JobTyped DEF IInv
<1>2. PICK p \in Path : job[t].path = {p} /\ t \in Mine(p)
  BY <1>1, HasPath DEF Rename
<1>3. /\ job[t].at = "synced"
      /\ real' = [real EXCEPT ![p] = temp[p]] /\ temp' = [temp EXCEPT ![p] = {}]
      /\ job' = [job EXCEPT ![t].at = "renamed", ![t].file = {}]
      /\ UNCHANGED <<bytes, durable, fired, mixed, left>>
  BY <1>2 DEF Rename
<1>4. GoesOn(t) /\ job'[t].at = "renamed"
  BY <1>1, <1>3 DEF GoesOn, TypeOK, JobType
<1>5. real'[p] = temp[p] /\ temp'[p] = {}
  BY <1>1, <1>3 DEF TypeOK
<1>6. ASSUME p \notin mixed PROVE Lone(p)'
  <2>1. Lone(p) /\ t \in Downloading(p) /\ CopyFits(t, p)
    BY <1>2, <1>3, <1>6 DEF IInv, Downloading, Lone, Copies
  <2>2. Mine(p)' = Mine(p) /\ Downloading(p)' \subseteq Downloading(p)
    BY <1>4, MineKept DEF Downloading, GoesOn
  <2>3. Alone(p)'
    BY <1>3, <1>5, <2>1, <2>2 DEF Lone, Alone, CopyFits
  <2>4. ASSUME NEW u \in Mine(p) PROVE CopyFits(u, p)'
    BY <1>4, <2>1, OneDownload DEF CopyFits, GoesOn, Mine
  <2>5. ASSUME NEW u \in Mine(p) PROVE ReadFits(u, p)'
    <3>1. CASE u = t
      BY <1>4, <3>1 DEF ReadFits
    <3>2. CASE u # t
      <4>1. job'[u] = job[u] /\ ReadFits(u, p)
        BY <1>4, <2>1, <3>2 DEF Lone, Reads, GoesOn, Mine
      <4> QED
        BY <1>3, <1>5, <4>1 DEF ReadFits
    <3> QED
      BY <3>1, <3>2
  <2>6. WholeAt(p)'
    BY <1>2, <1>3, <1>4, <1>5, <2>1 DEF WholeAt, CopyFits, GoesOn
  <2> QED
    BY <2>2, <2>3, <2>4, <2>5, <2>6 DEF Lone, Copies, Reads
<1>7. \A q \in Path \ {p} : real'[q] = real[q] /\ temp'[q] = temp[q]
  BY <1>1, <1>3 DEF TypeOK
<1> QED
  BY <1>2, <1>3, <1>4, <1>5, <1>6, <1>7, GoneOn

LEMMA RemoveStep == ASSUME IInv, Sizes, TypeOK', NEW t \in Transfer, RemovePart(t) PROVE IInv'
<1>1. job[t] \in JobType /\ TypeOK /\ Names
  BY JobTyped DEF IInv
<1>2. PICK p \in Path : job[t].path = {p} /\ t \in Mine(p)
  BY <1>1, HasPath DEF RemovePart
<1>3. /\ job[t].at = "removing"
      /\ temp' = [temp EXCEPT ![p] = {}]
      /\ job' = [job EXCEPT ![t].at = "failed", ![t].file = {}]
      /\ UNCHANGED <<real, bytes, durable, fired, mixed, left>>
  BY <1>2 DEF RemovePart
<1>4. GoesOn(t) /\ job'[t].at = "failed"
  BY <1>1, <1>3 DEF GoesOn, TypeOK, JobType
<1>5. temp'[p] = {}
  BY <1>1, <1>3 DEF TypeOK
<1>6. ASSUME p \notin mixed PROVE Lone(p)'
  <2>1. Lone(p) /\ t \in Downloading(p)
    BY <1>2, <1>3, <1>6 DEF IInv, Downloading
  <2>2. Mine(p)' = Mine(p) /\ Downloading(p)' \subseteq Downloading(p)
    BY <1>4, MineKept DEF Downloading, GoesOn
  <2>3. Alone(p)'
    BY <1>3, <1>5, <2>1, <2>2 DEF Lone, Alone
  <2>4. ASSUME NEW u \in Mine(p) PROVE CopyFits(u, p)'
    BY <1>4, <2>1, OneDownload DEF CopyFits, GoesOn, Mine
  <2>5. ASSUME NEW u \in Mine(p) PROVE ReadFits(u, p)'
    <3>1. CASE u = t
      BY <1>4, <3>1 DEF ReadFits
    <3>2. CASE u # t
      <4>1. job'[u] = job[u] /\ ReadFits(u, p)
        BY <1>4, <2>1, <3>2 DEF Lone, Reads, GoesOn, Mine
      <4> QED
        BY <1>3, <1>5, <4>1 DEF ReadFits
    <3> QED
      BY <3>1, <3>2
  <2>6. WholeAt(p)'
    BY <1>3, <1>4, <2>1 DEF Lone, WholeAt, GoesOn
  <2> QED
    BY <2>2, <2>3, <2>4, <2>5, <2>6 DEF Lone, Copies, Reads
<1>7. \A q \in Path \ {p} : temp'[q] = temp[q]
  BY <1>1, <1>3 DEF TypeOK
<1> QED
  BY <1>2, <1>3, <1>4, <1>5, <1>6, <1>7, GoneOn

(* A step that changes neither files nor transfers. *)
LEMMA Still ==
    ASSUME IInv, TypeOK', UNCHANGED <<real, temp, bytes, durable, job, mixed>>
    PROVE  IInv'
<1>1. Names'
  BY DEF IInv, Names, Kin, Mine
<1>2. ASSUME NEW p \in Path \ mixed PROVE Lone(p)'
  <2>1. Mine(p)' = Mine(p)
    BY DEF Mine
  <2> QED
    BY <1>2, <2>1, Untouched DEF IInv
<1> QED
  BY <1>1, <1>2 DEF IInv

LEMMA PowerStep == ASSUME IInv, Sizes, TypeOK', PowerFails PROVE IInv'
<1>1. TypeOK /\ Names
  BY DEF IInv
<1>2. \A f \in durable : bytes'[f] = bytes[f]
  BY <1>1 DEF PowerFails, TypeOK
<1>3. durable' = File /\ UNCHANGED <<real, temp, mixed>>
  BY DEF PowerFails
<1>4. ASSUME NEW t \in Transfer
      PROVE  /\ job'[t].path = job[t].path /\ job'[t].copy = job[t].copy /\ job'[t].file = {}
             /\ job'[t].at = IF job[t].at \in {"idle", "done", "sent", "failed"} THEN job[t].at ELSE "gone"
  BY <1>1, JobTyped DEF PowerFails, JobType
<1>5. \A p \in Path : Mine(p)' = Mine(p) /\ Kin(p)' = Kin(p)
  BY <1>4 DEF Mine, Kin
<1>6. Names'
  <2>1. \A t \in Transfer : (job'[t].at = "idle") = (job[t].at = "idle")
    BY <1>4
  <2> QED
    BY <1>1, <1>3, <1>4, <1>5, <2>1 DEF Names, Mine
<1>7. ASSUME NEW p \in Path \ mixed PROVE Lone(p)'
  <2>1. Lone(p)
    BY <1>7 DEF IInv
  <2>2. Downloading(p)' = {}
    BY <1>4 DEF Downloading
  <2>3. Alone(p)'
    BY <1>1, <1>3, <2>1, <2>2 DEF Lone, Alone, TypeOK
  <2>4. \A t \in Mine(p) : CopyFits(t, p)'
    BY <1>4 DEF CopyFits, Mine
  <2>5. \A t \in Mine(p) : ReadFits(t, p)'
    BY <1>4, <2>1 DEF ReadFits, Mine, Lone, Reads
  <2>6. WholeAt(p)'
    <3>1. \A f \in real[p] : bytes'[f] = bytes[f]
      BY <1>2, <2>1 DEF Lone, Alone
    <3>2. \A t \in Transfer : job[t].at \in {"renamed", "done", "gone"} =>
            job'[t].at \in {"renamed", "done", "gone"}
      BY <1>4
    <3> QED
      BY <1>3, <1>4, <2>1, <3>1, <3>2 DEF Lone, WholeAt
  <2> QED
    BY <1>5, <2>3, <2>4, <2>5, <2>6 DEF Lone, Copies, Reads
<1> QED
  BY <1>3, <1>6, <1>7 DEF IInv

----------------------------------------------------------------------------
(* A transfer begins: it comes to the path with a file that is its own or the path's. *)
Begins(t, p) ==
    /\ job[t].at = "idle"
    /\ job'[t].at # "idle" /\ job'[t].path = {p} /\ job'[t].copy = <<>>
    /\ job'[t].file \subseteq Kin(p) \cup {t}
    /\ \A u \in Transfer \ {t} : job'[u] = job[u]

LEMMA BeginKin ==
    ASSUME TypeOK, Names, Sizes, NEW t \in Transfer, NEW p \in Path, Begins(t, p)
    PROVE  /\ Mine(p)' = Mine(p) \cup {t} /\ Kin(p)' = Kin(p) \cup {t}
           /\ t \notin Kin(p) /\ job[t].path = {}
           /\ \A q \in Path \ {p} : Mine(q)' = Mine(q) /\ Kin(q)' = Kin(q)
<1>1. job[t].path = {} /\ t \notin Path
  BY DEF Names, Begins, Sizes
<1>2. Mine(p)' = Mine(p) \cup {t}
  BY DEF Mine, Begins
<1>3. \A q \in Path \ {p} : Mine(q)' = Mine(q)
  BY <1>1 DEF Mine, Begins
<1> QED
  BY <1>1, <1>2, <1>3 DEF Kin, Mine

LEMMA BeginNames ==
    ASSUME TypeOK, Names, Sizes, NEW t \in Transfer, NEW p \in Path, Begins(t, p), real' = real,
           temp'[p] = temp[p] \/ temp'[p] = {t}, \A q \in Path \ {p} : temp'[q] = temp[q]
    PROVE  Names'
<1>1. ASSUME NEW q \in Path
      PROVE  /\ real'[q] \subseteq Kin(q)' /\ temp'[q] \subseteq Mine(q)'
             /\ \A f, g \in real'[q] : f = g
             /\ \A f, g \in temp'[q] : f = g
             /\ \A u \in Mine(q)' : job'[u].file \subseteq Kin(q)'
  <2>1. Mine(q) \subseteq Mine(q)' /\ Kin(q) \subseteq Kin(q)' /\ Mine(q)' \subseteq Mine(q) \cup {t}
    BY BeginKin
  <2>2. ASSUME NEW u \in Mine(q)' PROVE job'[u].file \subseteq Kin(q)'
    <3>1. CASE u = t
      <4>1. q = p
        BY <2>2, <3>1 DEF Mine, Begins
      <4> QED
        BY <3>1, <4>1, BeginKin DEF Begins
    <3>2. CASE u # t
      <4>1. u \in Mine(q) /\ job'[u] = job[u]
        BY <2>1, <2>2, <3>2 DEF Begins, Mine
      <4> QED
        BY <2>1, <4>1 DEF Names
    <3> QED
      BY <3>1, <3>2
  <2>3. temp'[q] \subseteq Mine(q)' /\ \A f, g \in temp'[q] : f = g
    BY <2>1, BeginKin DEF Names
  <2> QED
    BY <2>1, <2>2, <2>3 DEF Names
<1>2. ASSUME NEW u \in Transfer
      PROVE  IF job'[u].at = "idle" THEN job'[u].path = {} /\ job'[u].copy = <<>>
             ELSE \E q \in Path : job'[u].path = {q}
  BY DEF Names, Begins
<1> QED
  BY <1>1, <1>2 DEF Names

LEMMA OpenStep ==
    ASSUME IInv, Sizes, TypeOK', NEW t \in Transfer, NEW p \in Path, OpenLocal(t, p) PROVE IInv'
<1>1. job[t] \in JobType /\ TypeOK /\ Names
  BY JobTyped DEF IInv
<1>2. job'[t] = [job[t] EXCEPT !.at = "reading", !.path = {p}, !.file = real[p]]
  BY <1>1 DEF OpenLocal, TypeOK
<1>3. Begins(t, p) /\ job'[t].at = "reading" /\ job'[t].file = real[p]
  <2>1. job[t].at = "idle" /\ job[t].copy = <<>> /\ real[p] \subseteq Kin(p)
    BY <1>1 DEF OpenLocal, Names
  <2>2. \A u \in Transfer \ {t} : job'[u] = job[u]
    BY <1>1 DEF OpenLocal, TypeOK
  <2> QED
    BY <1>1, <1>2, <2>1, <2>2 DEF Begins, JobType
<1>4. UNCHANGED <<real, temp, bytes, durable, mixed>>
  BY DEF OpenLocal
<1>5. Names'
  BY <1>1, <1>3, <1>4, BeginNames
<1>6. \A q \in Path \ (mixed \cup {p}) : Lone(q)'
  BY <1>1, <1>3, <1>4, BeginKin, OthersUntouched DEF Begins
<1>7. ASSUME p \notin mixed PROVE Lone(p)'
  <2>1. Lone(p)
    BY <1>7 DEF IInv
  <2>2. Mine(p)' = Mine(p) \cup {t} /\ t \notin Mine(p)
    BY <1>1, <1>3, BeginKin DEF Kin
  <2>3. Downloading(p)' \subseteq Downloading(p)
    BY <1>3 DEF Downloading, Begins
  <2>4. Alone(p)'
    BY <1>4, <2>1, <2>3 DEF Lone, Alone
  <2>5. ASSUME NEW u \in Mine(p) PROVE CopyFits(u, p)' /\ ReadFits(u, p)'
    <3>1. job'[u] = job[u] /\ CopyFits(u, p) /\ ReadFits(u, p)
      BY <1>3, <2>1, <2>2 DEF Begins, Mine, Lone, Copies, Reads
    <3> QED
      BY <1>4, <3>1 DEF CopyFits, ReadFits
  <2>6. \E x \in File : \A f \in real[p] : bytes[f] = Whole(x)
    <3>1. PICK g \in real[p] : TRUE
      BY DEF OpenLocal
    <3>2. \E x \in File : bytes[g] = Whole(x)
      BY <2>1 DEF Lone, WholeAt, File
    <3> QED
      BY <1>1, <3>1, <3>2 DEF Names
  <2>7. CopyFits(t, p)' /\ ReadFits(t, p)'
    <3>1. \A x \in File : job'[t].copy = First(x, 0)
      BY <1>3, FirstNone DEF Begins
    <3>2. 0 \in 0..Chunks
      BY DEF Sizes
    <3>3. real[p] \cap temp[p] = {}
      BY <2>1 DEF Lone, Alone
    <3> QED
      BY <1>3, <1>4, <2>6, <3>1, <3>2, <3>3 DEF CopyFits, ReadFits
  <2>8. WholeAt(p)'
    <3>1. \A u \in Transfer : job[u].path = {p} => job'[u] = job[u]
      BY <2>2, <1>3 DEF Mine, Begins
    <3> QED
      BY <1>4, <2>1, <3>1 DEF Lone, WholeAt
  <2> QED
    BY <2>2, <2>4, <2>5, <2>7, <2>8 DEF Lone, Copies, Reads
<1> QED
  BY <1>4, <1>5, <1>6, <1>7 DEF IInv

LEMMA CreateStep ==
    ASSUME IInv, Sizes, TypeOK', NEW t \in Transfer, NEW p \in Path, CreatePart(t, p) PROVE IInv'
<1> DEFINE f == IF temp[p] = {} THEN {t} ELSE temp[p]
<1>1. job[t] \in JobType /\ TypeOK /\ Names
  BY JobTyped DEF IInv
<1>2. /\ job[t].at = "idle"
      /\ job'[t] = [job[t] EXCEPT !.at = "copying", !.path = {p}, !.file = f]
      /\ \A u \in Transfer \ {t} : job'[u] = job[u]
      /\ temp'[p] = f /\ \A q \in Path \ {p} : temp'[q] = temp[q]
      /\ bytes' = [g \in File |-> IF g \in f THEN <<>> ELSE bytes[g]]
      /\ durable' = durable \ f
      /\ mixed' = (IF Downloading(p) = {} THEN mixed ELSE mixed \cup {p})
      /\ real' = real
  BY <1>1 DEF CreatePart, TypeOK
<1>3. f \subseteq Kin(p) \cup {t} /\ f \subseteq File
  BY <1>1 DEF Names, TypeOK, Kin, File
<1>4. Begins(t, p) /\ job'[t].at = "copying" /\ job'[t].file = f
  <2>1. job[t].copy = <<>>
    BY <1>1, <1>2 DEF Names
  <2> QED
    BY <1>1, <1>2, <1>3, <2>1 DEF Begins, JobType
<1>5. temp'[p] = temp[p] \/ temp'[p] = {t}
  BY <1>2
<1>6. Names'
  BY <1>1, <1>2, <1>4, <1>5, BeginNames
<1>7. Mine(p)' = Mine(p) \cup {t} /\ t \notin Kin(p) /\ t \notin Mine(p) /\ job[t].path = {}
  BY <1>1, <1>4, BeginKin DEF Kin
<1> HIDE DEF f
<1>8. \A q \in Path \ (mixed' \cup {p}) : Lone(q)'
  <2>1. \A g \in File \ f : bytes'[g] = bytes[g] /\ (g \in durable => g \in durable')
    BY <1>2
  <2>2. mixed \subseteq mixed'
    BY <1>2
  <2> QED
    BY <1>2, <1>3, <1>4, <1>7, <2>1, <2>2, OthersUntouched DEF Begins
<1>9. ASSUME p \notin mixed' PROVE Lone(p)'
  <2>1. Downloading(p) = {} /\ p \notin mixed
    BY <1>2, <1>9
  <2>2. Lone(p)
    BY <2>1 DEF IInv
  <2>3. real[p] \subseteq Kin(p) /\ \A u \in Mine(p) : job[u].file \subseteq Kin(p)
    BY <1>1 DEF Names
  <2>4. f \cap real[p] = {}
    BY <1>7, <2>2, <2>3 DEF Lone, Alone, f
  <2>5. Downloading(p)' \subseteq {t}
    <3>1. \A u \in Transfer \ {t} : u \in Downloading(p)' => u \in Downloading(p)
      BY <1>2 DEF Downloading
    <3> QED
      BY <2>1, <3>1 DEF Downloading
  <2>6. Alone(p)'
    BY <1>2, <2>2, <2>4, <2>5 DEF Lone, Alone
  <2>7. ASSUME NEW u \in Mine(p) PROVE CopyFits(u, p)' /\ ReadFits(u, p)'
    <3>1. job'[u] = job[u] /\ ReadFits(u, p) /\ job[u].at \notin {"copying", "synced", "removing"}
      BY <1>2, <1>7, <2>1, <2>2 DEF Mine, Lone, Reads, Downloading
    <3>2. job[u].at = "reading" => job[u].file \cap f = {}
      BY <1>7, <2>3, <3>1 DEF ReadFits, f
    <3>3. job[u].at = "reading" => \A g \in job[u].file : bytes'[g] = bytes[g]
      <4>1. job[u].file \subseteq File
        BY <1>1, JobTyped DEF Mine
      <4> QED
        BY <1>2, <3>2, <4>1
    <3> QED
      BY <1>2, <3>1, <3>2, <3>3 DEF CopyFits, ReadFits
  <2>8. CopyFits(t, p)' /\ ReadFits(t, p)'
    <3>1. job'[t].copy = First(t, 0) /\ 0 \in 0..Chunks
      BY <1>4, FirstNone DEF Begins, Sizes
    <3>2. \A g \in f : bytes'[g] = First(t, 0)
      BY <1>2, <1>3, FirstNone
    <3> QED
      BY <1>2, <1>4, <3>1, <3>2 DEF CopyFits, ReadFits
  <2>9. WholeAt(p)'
    <3>1. \A u \in Transfer : job[u].path = {p} => job'[u] = job[u]
      BY <1>2, <1>7
    <3>2. \A g \in real[p] : bytes'[g] = bytes[g]
      BY <1>1, <1>2, <2>4 DEF TypeOK
    <3>3. WholeAt(p) /\ real'[p] = real[p]
      BY <1>2, <2>2 DEF Lone
    <3>4. ASSUME NEW g \in real[p]
          PROVE  \/ g = p /\ bytes'[g] = Whole(p)
                 \/ \E u \in Transfer :
                    job'[u].path = {p} /\ job'[u].at \in {"renamed", "done", "gone"} /\ bytes'[g] = Whole(u)
      BY <3>1, <3>2, <3>3 DEF WholeAt
    <3> QED
      BY <3>3, <3>4 DEF WholeAt
  <2> QED
    BY <1>7, <2>6, <2>7, <2>8, <2>9 DEF Lone, Copies, Reads
<1> QED
  BY <1>6, <1>8, <1>9 DEF IInv

----------------------------------------------------------------------------
LEMMA Starts == ASSUME Sizes, DownloadInit PROVE IInv
<1>1. TypeOK
  <2>1. \A p \in Path : Whole(p) \in Seq(Elem)
    BY FirstTyped DEF Whole, Sizes, File
  <2> QED
    BY <2>1 DEF DownloadInit, TypeOK, JobType, Places, File
<1>2. \A t \in Transfer : job[t].at = "idle" /\ job[t].path = {} /\ job[t].copy = <<>>
  BY DEF DownloadInit
<1>3. \A p \in Path : Mine(p) = {} /\ Downloading(p) = {} /\ temp[p] = {} /\ real[p] \subseteq {p}
  BY <1>2 DEF Mine, Downloading, DownloadInit
<1>4. Names
  BY <1>2, <1>3 DEF Names, Kin
<1>5. ASSUME NEW p \in Path PROVE Lone(p)
  <2>1. \A f \in real[p] : f = p /\ bytes[f] = Whole(p)
    BY <1>3 DEF DownloadInit, File
  <2>2. real[p] \subseteq durable
    BY <1>3 DEF DownloadInit
  <2> QED
    BY <1>3, <2>1, <2>2 DEF Lone, Alone, Copies, Reads, WholeAt
<1> QED
  BY <1>1, <1>4, <1>5 DEF IInv

LEMMA Steps == ASSUME IInv, Sizes, [DownloadNext]_dlVars PROVE IInv'
<1>1. CASE DownloadNext
  <2>1. TypeOK'
    BY <1>1, TypeStep DEF IInv
  <2>2. CASE PowerFails
    BY <2>1, <2>2, PowerStep
  <2>3. ASSUME NEW t \in Transfer,
               CopyChunk(t) \/ Sync(t) \/ CopyStops(t) \/ Rename(t) \/ RenameFails(t) \/ RemovePart(t)
               \/ DownloadReports(t) \/ SendChunk(t) \/ UploadEnds(t) \/ UploadStops(t)
        PROVE  IInv'
    BY <2>1, <2>3, CopyStep, SyncStep, MoveStep, RenameStep, RemoveStep, SendStep, UploadEndsStep
  <2>4. ASSUME NEW t \in Transfer, CancelToken(t) PROVE IInv'
    BY <2>1, <2>4, Still DEF CancelToken
  <2>5. ASSUME NEW t \in Transfer, NEW p \in Path, CreatePart(t, p) \/ OpenLocal(t, p) PROVE IInv'
    BY <2>1, <2>5, CreateStep, OpenStep
  <2> QED
    BY <1>1, <2>2, <2>3, <2>4, <2>5 DEF DownloadNext
<1>2. CASE UNCHANGED dlVars
  <2>1. TypeOK'
    BY <1>2 DEF dlVars, IInv, TypeOK
  <2> QED
    BY <1>2, <2>1, Still DEF dlVars
<1> QED
  BY <1>1, <1>2

LEMMA Invariance == ASSUME Sizes PROVE DownloadSpec => []IInv
<1>1. DownloadInit => IInv
  BY Starts
<1>2. IInv /\ [DownloadNext]_dlVars => IInv'
  BY Steps
<1> QED
  BY <1>1, <1>2, PTL DEF DownloadSpec

(* Whatever is cancelled, fails or loses power (sftp.rs, download_inner), a path to which no
   two downloads went together stands for the file that was there or for all of one that
   was renamed. *)
THEOREM DownloadsAreWhole == ASSUME Sizes PROVE DownloadSpec => []PublishedWhole
<1>1. IInv => PublishedWhole
  BY DEF IInv, Lone, PublishedWhole
<1> QED
  BY <1>1, Invariance, PTL

(* An upload that ended well has sent one whole file, whatever downloads did to its path
   while it read (sftp.rs, upload_inner). *)
THEOREM UploadsAreWhole == ASSUME Sizes PROVE DownloadSpec => []SentWhole
<1>1. IInv => SentWhole
  BY DEF IInv, Lone, Reads, ReadFits, Mine, SentWhole
<1> QED
  BY <1>1, Invariance, PTL

----------------------------------------------------------------------------
(* A .part is somebody's, or left by a power failure. *)
LEMMA PartsStep == ASSUME TypeOK, NoStrayPart, DownloadNext PROVE NoStrayPart'
<1>1. CASE PowerFails
  BY <1>1 DEF PowerFails, NoStrayPart
<1>2. ASSUME NEW t \in Transfer, NEW p \in Path, CreatePart(t, p) PROVE NoStrayPart'
  <2>1. t \in Downloading(p)'
    BY <1>2, JobTyped DEF CreatePart, Downloading, TypeOK, JobType
  <2>2. \A q \in Path \ {p} : Downloading(q) \subseteq Downloading(q)'
    BY <1>2 DEF CreatePart, Downloading, TypeOK
  <2>3. \A q \in Path \ {p} : temp'[q] = temp[q] /\ (q \in left => q \in left')
    BY <1>2 DEF CreatePart, TypeOK
  <2> QED
    BY <2>1, <2>2, <2>3 DEF NoStrayPart
<1>3. ASSUME NEW t \in Transfer, Rename(t) \/ RemovePart(t) PROVE NoStrayPart'
  <2>1. PICK p \in Path :
          /\ p \in job[t].path /\ temp' = [temp EXCEPT ![p] = {}] /\ left' = left
          /\ \E a : job' = [job EXCEPT ![t].at = a, ![t].file = {}]
    BY <1>3, JobTyped DEF Rename, RemovePart
  <2>2. \A q \in Path \ {p} : Downloading(q) \subseteq Downloading(q)' /\ temp'[q] = temp[q]
    BY <2>1 DEF Downloading, TypeOK
  <2>3. temp'[p] = {}
    BY <2>1 DEF TypeOK
  <2> QED
    BY <2>1, <2>2, <2>3 DEF NoStrayPart
<1>4. ASSUME NEW t \in Transfer,
             CopyChunk(t) \/ Sync(t) \/ CopyStops(t) \/ RenameFails(t) \/ DownloadReports(t)
             \/ SendChunk(t) \/ UploadEnds(t) \/ UploadStops(t) \/ CancelToken(t)
      PROVE  NoStrayPart'
  <2>1. temp' = temp /\ left' = left
    BY <1>4 DEF CopyChunk, Sync, CopyStops, RenameFails, DownloadReports, SendChunk, UploadEnds,
        UploadStops, CancelToken
  <2>2. \A u \in Transfer : /\ job'[u].path = job[u].path
                            /\ job[u].at \in {"copying", "synced", "removing"} =>
                                job'[u].at \in {"copying", "synced", "removing"}
    BY <1>4, JobTyped DEF CopyChunk, Sync, CopyStops, RenameFails, DownloadReports, SendChunk,
        UploadEnds, UploadStops, CancelToken, TypeOK, JobType
  <2> QED
    BY <2>1, <2>2 DEF NoStrayPart, Downloading
<1>5. ASSUME NEW t \in Transfer, NEW p \in Path, OpenLocal(t, p) PROVE NoStrayPart'
  <2>1. \A q \in Path : Downloading(q) \subseteq Downloading(q)'
    BY <1>5 DEF OpenLocal, Downloading, TypeOK
  <2> QED
    BY <1>5, <2>1 DEF NoStrayPart, OpenLocal
<1> QED
  BY <1>1, <1>2, <1>3, <1>4, <1>5 DEF DownloadNext

(* Every way a download ends takes its .part away (sftp.rs, download_inner), though two go
   to one path together. *)
THEOREM PartsAreTidy == ASSUME Sizes PROVE DownloadSpec => []NoStrayPart
<1>1. DownloadInit => NoStrayPart
  BY DEF DownloadInit, NoStrayPart
<1>2. IInv /\ NoStrayPart /\ [DownloadNext]_dlVars => NoStrayPart'
  <2>1. ASSUME UNCHANGED dlVars, NoStrayPart PROVE NoStrayPart'
    BY <2>1 DEF dlVars, NoStrayPart, Downloading
  <2> QED
    BY <2>1, PartsStep DEF IInv
<1> QED
  BY <1>1, <1>2, Invariance, PTL DEF DownloadSpec
=============================================================================
