-------------------------- MODULE HostEditorProofs --------------------------
(* What TLAPS proves of HostEditor, for any number of hosts, credentials and operations. *)
EXTENDS HostEditor, SequenceTheorems, TLAPS

Numbered == Host \subseteq Nat

Refs == {None} \cup {{c} : c \in Cred}
HostLines == [at : {"absent", "dead"}] \cup [at : {"live", "dead"}, ref : Refs]
Listings == UNION {[S -> Refs] : S \in SUBSET Host}
Places == {"credential", "host", "get", "delete", "forget", "reload"}
SaveType ==
    [at : Places, kind : {"form", "inspector"}, id : Host, ref : Refs, secret : SUBSET (Host \cup {New})]
RemoveType == [at : Places, kind : {"remove"}, id : Host, ref : Refs]
Busy == SaveType \cup RemoveType
FormType == [open : {TRUE}, id : {None} \cup {{h} : h \in Host}, secret : SUBSET (Host \cup {New})]
InspType == [open : {TRUE}, secret : SUBSET Host]

TypeOK ==
    /\ hostRow \in [Host -> HostLines]
    /\ credRow \in [Cred -> [at : {"absent", "live", "dead"}]]
    /\ view \in Listings
    /\ replies \in Seq([rows : Listings, op : SUBSET Op])
    /\ op \in [Op -> Busy \cup {NoOp}]
    /\ form \in {FormClosed} \cup FormType
    /\ insp \in {InspClosed} \cup InspType
    /\ unlisted \in BOOLEAN

(* Where a host is said to have credential c: in its row that is not a tombstone, in the list, in a listing under
   way, in an operation on it. *)
InRow(c, h) == hostRow[h].at = "live" /\ c \in hostRow[h].ref
InListing(rows, c, h) == h \in DOMAIN rows /\ c \in rows[h]
Coming == {replies[i].rows : i \in DOMAIN replies}
InOp(c, h) == \E k \in Op : op[k].at # "idle" /\ op[k].id = h /\ c \in op[k].ref
Claims(c, h) ==
    \/ InRow(c, h)
    \/ InListing(view, c, h)
    \/ \E rows \in Coming : InListing(rows, c, h)
    \/ InOp(c, h)

(* A credential is claimed for one host only. *)
Sole == \A c \in Cred, g, h \in Host : Claims(c, g) /\ Claims(c, h) => g = h

(* A claim other than that of a save which has still to write it is of a credential that
   was written. *)
Written ==
    \A c \in Cred : credRow[c].at = "absent" =>
        /\ \A h \in Host :
            /\ ~InRow(c, h)
            /\ ~InListing(view, c, h)
            /\ \A rows \in Coming : ~InListing(rows, c, h)
        /\ \A k \in Op : op[k].at \notin {"idle", "credential"} => c \notin op[k].ref

(* The listing that was asked for last, unless it was rejected, is of the rows as they are:
   nothing writes a row of hosts without asking for a listing after it. *)
Newest == IF replies = <<>> THEN view ELSE replies[Len(replies)].rows
Fresh == replies # <<>> \/ ~unlisted => Newest = Listing(hostRow)

IInv == TypeOK /\ Sole /\ Written /\ Fresh

----------------------------------------------------------------------------
(* An operation that moves on keeps its host and its credential. *)
LEMMA Moved ==
    ASSUME NEW o \in Busy, NEW place \in Places
    PROVE  /\ [o EXCEPT !.at = place] \in Busy
           /\ [o EXCEPT !.at = place].at = place
           /\ [o EXCEPT !.at = place].id = o.id
           /\ [o EXCEPT !.at = place].ref = o.ref
<1>1. CASE o \in SaveType
  BY <1>1 DEF SaveType, Busy
<1>2. CASE o \in RemoveType
  BY <1>2 DEF RemoveType, Busy
<1> QED
  BY <1>1, <1>2 DEF Busy

LEMMA BusyTyped ==
    ASSUME TypeOK, NEW k \in Op, op[k] # NoOp
    PROVE  op[k] \in Busy /\ op[k].at \in Places /\ op[k].id \in Host /\ op[k].ref \in Refs
BY DEF TypeOK, Busy, SaveType, RemoveType

LEMMA IdleIsNoOp ==
    ASSUME TypeOK, NEW k \in Op
    PROVE  op[k] = NoOp <=> op[k].at = "idle"
<1>1. ASSUME op[k] # NoOp PROVE op[k].at # "idle"
  BY <1>1, BusyTyped DEF Places
<1> QED
  BY <1>1 DEF NoOp

LEMMA ListingTyped ==
    ASSUME NEW rows \in [Host -> HostLines]
    PROVE  /\ Listing(rows) \in Listings
           /\ \A h \in Host, c \in Cred :
                InListing(Listing(rows), c, h) => rows[h].at = "live" /\ c \in rows[h].ref
<1>1. Live(rows) \subseteq Host
  BY DEF Live
<1>2. ASSUME NEW h \in Live(rows) PROVE rows[h].ref \in Refs
  BY <1>2 DEF Live, HostLines
<1>3. Listing(rows) \in [Live(rows) -> Refs]
  BY <1>2 DEF Listing
<1> QED
  BY <1>1, <1>3 DEF Listings, Listing, InListing, Live

(* What a listing that is asked for adds to those under way. *)
LEMMA RelistEffect ==
    ASSUME TypeOK, NEW rows \in [Host -> HostLines], NEW who \in SUBSET Op, Relist(rows, who)
    PROVE  /\ replies' \in Seq([rows : Listings, op : SUBSET Op])
           /\ Coming' = Coming \cup {Listing(rows)}
           /\ Newest' = Listing(rows)
<1> DEFINE r == [rows |-> Listing(rows), op |-> who]
<1>1. r \in [rows : Listings, op : SUBSET Op] /\ r.rows = Listing(rows)
  BY ListingTyped
<1>2. replies \in Seq([rows : Listings, op : SUBSET Op]) /\ replies' = Append(replies, r)
  BY DEF TypeOK, Relist
<1> HIDE DEF r
<1>3. replies' \in Seq([rows : Listings, op : SUBSET Op])
  BY <1>1, <1>2
<1>4. /\ Len(replies) \in Nat /\ DOMAIN replies = 1..Len(replies)
      /\ Len(replies') = Len(replies) + 1 /\ DOMAIN replies' = 1..(Len(replies) + 1)
      /\ replies'[Len(replies) + 1] = r
      /\ \A i \in 1..Len(replies) : replies'[i] = replies[i]
  BY <1>1, <1>2
<1>5. Coming' = Coming \cup {Listing(rows)}
  <2>1. \A x \in Coming' : x \in Coming \/ x = Listing(rows)
    BY <1>1, <1>4 DEF Coming
  <2>2. Listing(rows) \in Coming'
    BY <1>1, <1>4 DEF Coming
  <2>3. \A x \in Coming : x \in Coming'
    BY <1>4 DEF Coming
  <2> QED
    BY <2>1, <2>2, <2>3
<1>6. replies' # <<>>
  BY <1>2, <1>1
<1> QED
  BY <1>1, <1>3, <1>4, <1>5, <1>6 DEF Newest

(* The one that ends was asked for first; the newest is among the others, if there are any. *)
LEMMA HeadEffect ==
    ASSUME TypeOK, replies # <<>>, replies' = Tail(replies)
    PROVE  /\ Head(replies) \in [rows : Listings, op : SUBSET Op]
           /\ replies' \in Seq([rows : Listings, op : SUBSET Op])
           /\ Head(replies).rows \in Coming
           /\ Coming' \subseteq Coming
           /\ replies' = <<>> => Newest = Head(replies).rows
           /\ replies' # <<>> => Newest' = Newest
<1>1. /\ Len(replies) \in Nat /\ Len(replies) >= 1 /\ DOMAIN replies = 1..Len(replies)
      /\ Head(replies) = replies[1]
      /\ \A i \in 1..Len(replies) : replies[i] \in [rows : Listings, op : SUBSET Op]
  <2> DEFINE R == [rows : Listings, op : SUBSET Op]
  <2>1. replies \in Seq(R)
    BY DEF TypeOK
  <2> HIDE DEF R
  <2>2. Len(replies) \in Nat /\ DOMAIN replies = 1..Len(replies)
    BY <2>1
  <2>3. Len(replies) # 0
    BY <2>1, EmptySeq
  <2>4. \A i \in 1..Len(replies) : replies[i] \in R
    BY <2>1, <2>2, ElementOfSeq
  <2>5. Head(replies) = replies[1]
    BY <2>1, HeadTailProperties
  <2> QED
    BY <2>2, <2>3, <2>4, <2>5 DEF R
<1>2. /\ replies' \in Seq([rows : Listings, op : SUBSET Op])
      /\ Len(replies') = Len(replies) - 1 /\ DOMAIN replies' = 1..(Len(replies) - 1)
      /\ \A i \in 1..(Len(replies) - 1) : replies'[i] = replies[i + 1]
  BY DEF TypeOK
<1>3. Head(replies).rows \in Coming
  BY <1>1 DEF Coming
<1>4. Coming' \subseteq Coming
  <2> SUFFICES ASSUME NEW i \in DOMAIN replies' PROVE replies'[i].rows \in Coming
    BY DEF Coming
  <2>1. replies'[i] = replies[i + 1] /\ i + 1 \in DOMAIN replies
    BY <1>1, <1>2
  <2> QED
    BY <2>1 DEF Coming
<1>5. replies' = <<>> => Newest = Head(replies).rows
  <2> SUFFICES ASSUME replies' = <<>> PROVE Newest = Head(replies).rows
    OBVIOUS
  <2>1. Len(replies') = 0
    BY <1>2, EmptySeq
  <2>2. Len(replies) \in Nat /\ Len(replies') = Len(replies) - 1
    BY <1>1, <1>2, Zenon
  <2>3. Len(replies) = 1
    BY <2>1, <2>2
  <2> QED
    BY <1>1, <2>3 DEF Newest
<1>6. replies' # <<>> => Newest' = Newest
  <2> SUFFICES ASSUME replies' # <<>> PROVE Newest' = Newest
    OBVIOUS
  <2>1. Len(replies') # 0
    BY <1>2, EmptySeq
  <2>2. Len(replies') >= 1 /\ Len(replies') = Len(replies) - 1
    BY <1>1, <1>2, <2>1
  <2>3. replies'[Len(replies')] = replies[Len(replies)]
    BY <1>1, <1>2, <2>2
  <2> QED
    BY <2>3 DEF Newest
<1> QED
  BY <1>1, <1>2, <1>3, <1>4, <1>5, <1>6

LEMMA ViewTyped ==
    ASSUME TypeOK
    PROVE  DOMAIN view \subseteq Host /\ \A h \in DOMAIN view : view[h] \in Refs
BY DEF TypeOK, Listings

LEMMA FormTyped == ASSUME TypeOK, form.open PROVE form \in FormType
<1>1. form # FormClosed
  BY DEF FormClosed
<1> QED
  BY <1>1 DEF TypeOK, FormType

LEMMA InspTyped == ASSUME TypeOK, insp.open PROVE insp \in InspType
<1>1. insp # InspClosed
  BY DEF InspClosed
<1> QED
  BY <1>1 DEF TypeOK, InspType

(* The form and the inspector are given one host of the list, or none. *)
LEMMA FormHostOne ==
    ASSUME TypeOK, form.open
    PROVE  FormHost = None \/ \E h \in DOMAIN view : FormHost = {h}
<1>1. form.id \in {None} \cup {{h} : h \in Host}
  BY FormTyped DEF FormType
<1> QED
  BY <1>1 DEF FormHost, None

LEMMA ShownOne ==
    ASSUME TypeOK, Numbered, Shown # None
    PROVE  \E h \in DOMAIN view : Shown = {h}
<1>1. PICK h \in DOMAIN view : \A g \in DOMAIN view : h <= g
  BY DEF Shown, None
<1>2. ASSUME NEW g \in Shown PROVE g = h
  <2>1. g \in DOMAIN view /\ g <= h /\ h <= g
    BY <1>1, <1>2 DEF Shown
  <2>2. g \in Nat /\ h \in Nat
    BY <1>1, <2>1, ViewTyped DEF Numbered
  <2> QED
    BY <2>1, <2>2
<1>3. h \in Shown
  BY <1>1 DEF Shown
<1> QED
  BY <1>1, <1>2, <1>3

(* What an operation begins with: the credential that the list says its host has, none, or
   one that nobody has yet. *)
Begun(k, o) ==
    /\ op[k] = NoOp
    /\ op' = [op EXCEPT ![k] = o]
    /\ o \in Busy
    /\ \/ o.ref = None
       \/ o.id \in DOMAIN view /\ o.ref = view[o.id]
       \/ o.at = "credential" /\ \E c \in UnusedCred : o.ref = {c}

LEMMA SaveEffect ==
    ASSUME TypeOK, NEW k \in Op, NEW host, NEW secret \in SUBSET (Host \cup {New}),
           NEW from \in {"form", "inspector"},
           host = None \/ \E h \in DOMAIN view : host = {h},
           Save(k, host, secret, from)
    PROVE  \E o : Begun(k, o)
<1>1. PICK id \in IF host = None THEN UnusedHost ELSE host,
           ref \in IF host # None /\ view[Target(host)] # None THEN {view[Target(host)]}
                   ELSE IF secret = None THEN {None} ELSE {{c} : c \in UnusedCred} :
        Start(k, [at |-> IF secret = None THEN "host" ELSE "credential", kind |-> from,
                  id |-> id, ref |-> ref,
                  secret |-> IF host = None /\ secret = {New} THEN {id} ELSE secret])
  BY Zenon DEF Save
<1> DEFINE o == [at |-> IF secret = None THEN "host" ELSE "credential", kind |-> from,
                 id |-> id, ref |-> ref,
                 secret |-> IF host = None /\ secret = {New} THEN {id} ELSE secret]
<1>2. op[k] = NoOp /\ op' = [op EXCEPT ![k] = o]
  BY <1>1 DEF Start
<1>3. id \in Host
  BY <1>1, ViewTyped DEF UnusedHost
<1>4. host # None => host = {id} /\ id \in DOMAIN view /\ Target(host) = id
  BY <1>1 DEF Target
<1>5. \/ ref = None
      \/ id \in DOMAIN view /\ ref = view[id]
      \/ secret # None /\ \E c \in UnusedCred : ref = {c}
  BY <1>1, <1>4
<1>6. ref \in Refs
  BY <1>5, ViewTyped DEF Refs, UnusedCred
<1>7. o \in SaveType
  BY <1>3, <1>6 DEF SaveType, Places
<1>8. o.ref = ref /\ o.id = id /\ (secret # None => o.at = "credential")
  OBVIOUS
<1> HIDE DEF o
<1> QED
  BY <1>2, <1>5, <1>7, <1>8 DEF Begun, Busy

----------------------------------------------------------------------------
(* Where rows, list and listings stay, so do the claims in them and the freshness. *)
LEMMA TablesKept ==
    ASSUME UNCHANGED <<hostRow, view, replies, unlisted>>
    PROVE  /\ \A c, h : InRow(c, h)' = InRow(c, h)
           /\ \A c, h : InListing(view, c, h)' = InListing(view, c, h)
           /\ Coming' = Coming /\ Newest' = Newest /\ Fresh' = Fresh
BY DEF InRow, InListing, Coming, Newest, Fresh

LEMMA SaveBegins ==
    ASSUME IInv, NEW k \in Op, NEW o, Begun(k, o), UNCHANGED <<hostRow, credRow, view, replies, form, insp, unlisted>>
    PROVE  IInv'
<1>1. TypeOK'
  BY DEF IInv, TypeOK, Begun
<1>2. op'[k] = o /\ op[k].at = "idle" /\ \A j \in Op \ {k} : op'[j] = op[j]
  BY IdleIsNoOp DEF Begun, IInv, TypeOK
<1>3. o.at \in Places /\ o.id \in Host /\ o.ref \in Refs
  BY DEF Begun, Busy, SaveType, RemoveType
<1>4. ASSUME NEW c \in Cred, NEW h \in Host, Claims(c, h)' PROVE Claims(c, h) \/ (h = o.id /\ c \in o.ref)
  <2>1. InOp(c, h)' => InOp(c, h) \/ (h = o.id /\ c \in o.ref)
    BY <1>2 DEF InOp
  <2> QED
    BY <1>4, <2>1, TablesKept DEF Claims
<1>5. ASSUME o.ref = None PROVE Sole'
  <2>1. \A c \in Cred, h \in Host : Claims(c, h)' => Claims(c, h)
    BY <1>4, <1>5 DEF None
  <2> QED
    BY <2>1 DEF Sole, IInv
<1>6. ASSUME o.id \in DOMAIN view, o.ref = view[o.id] PROVE Sole'
  <2>1. \A c \in Cred : c \in o.ref => Claims(c, o.id)
    BY <1>6 DEF Claims, InListing
  <2>2. \A c \in Cred, h \in Host : Claims(c, h)' => Claims(c, h)
    BY <1>4, <2>1
  <2> QED
    BY <2>2 DEF Sole, IInv
<1>7. ASSUME NEW new \in UnusedCred, o.ref = {new} PROVE Sole'
  <2>1. \A h \in Host : ~Claims(new, h)
    <3>1. new \in Cred /\ credRow[new].at = "absent" /\ \A j \in Op : op[j].at # "idle" => op[j].ref # {new}
      BY <1>7 DEF UnusedCred
    <3>2. \A j \in Op : op[j].at # "idle" => new \notin op[j].ref
      BY <3>1, BusyTyped, IdleIsNoOp DEF Refs, None, IInv
    <3> QED
      BY <3>1, <3>2 DEF Claims, InOp, Written, IInv
  <2> QED
    BY <1>4, <1>7, <2>1 DEF Sole, IInv
<1>8. Sole'
  <2>1. o.ref = None \/ (o.id \in DOMAIN view /\ o.ref = view[o.id]) \/ \E c \in UnusedCred : o.ref = {c}
    BY DEF Begun
  <2> QED
    BY <1>5, <1>6, <1>7, <2>1
<1>9. Written'
  <2> SUFFICES ASSUME NEW c \in Cred, credRow[c].at = "absent"
               PROVE  \A j \in Op : op'[j].at \notin {"idle", "credential"} => c \notin op'[j].ref
    BY TablesKept DEF Written, IInv
  <2>1. o.at # "credential" => c \notin o.ref
    <3>1. CASE o.ref = None
      BY <3>1 DEF None
    <3>2. CASE o.id \in DOMAIN view /\ o.ref = view[o.id]
      BY <1>3, <3>2 DEF Written, IInv, InListing
    <3> QED
      BY <3>1, <3>2 DEF Begun
  <2> QED
    BY <1>2, <2>1 DEF Written, IInv
<1> QED
  BY <1>1, <1>8, <1>9, TablesKept DEF IInv

----------------------------------------------------------------------------
(* An operation that moves on claims what it claimed. *)
LEMMA OpMoves ==
    ASSUME TypeOK, NEW k \in Op, op[k] # NoOp, NEW place \in Places, op' = [op EXCEPT ![k].at = place]
    PROVE  /\ op' \in [Op -> Busy \cup {NoOp}]
           /\ op'[k].at = place /\ op'[k].id = op[k].id /\ op'[k].ref = op[k].ref
           /\ \A j \in Op \ {k} : op'[j] = op[j]
           /\ \A c, h : InOp(c, h)' => InOp(c, h)
<1>1. op[k] \in Busy /\ op[k].at # "idle"
  BY BusyTyped, IdleIsNoOp
<1>2. op' = [op EXCEPT ![k] = [op[k] EXCEPT !.at = place]]
  BY DEF TypeOK
<1>3. /\ op'[k] = [op[k] EXCEPT !.at = place]
      /\ \A j \in Op \ {k} : op'[j] = op[j]
  BY <1>2 DEF TypeOK
<1>4. op' \in [Op -> Busy \cup {NoOp}]
  <2>1. [op[k] EXCEPT !.at = place] \in Busy
    BY <1>1, Moved
  <2>2. op \in [Op -> Busy \cup {NoOp}]
    BY DEF TypeOK
  <2> QED
    BY <1>2, <2>1, <2>2
<1>5. op'[k].at = place /\ op'[k].id = op[k].id /\ op'[k].ref = op[k].ref
  <2> DEFINE new == [op[k] EXCEPT !.at = place]
  <2>1. new.at = place /\ new.id = op[k].id /\ new.ref = op[k].ref
    BY <1>1, Moved
  <2>2. op'[k] = new
    BY <1>3
  <2> HIDE DEF new
  <2> QED
    BY <2>1, <2>2
<1> QED
  BY <1>1, <1>3, <1>4, <1>5 DEF InOp

(* A credential of an operation is the only one in its option. *)
LEMMA OneRef ==
    ASSUME TypeOK, NEW k \in Op, op[k] # NoOp, NEW c
    PROVE  c \in op[k].ref <=> {c} = op[k].ref
BY BusyTyped DEF Refs, None

LEMMA SaveCredentialStep == ASSUME IInv, NEW k \in Op, SaveCredential(k) PROVE IInv'
<1>1. op[k].at = "credential" /\ op[k] # NoOp /\ op' = [op EXCEPT ![k].at = "host"]
  BY DEF SaveCredential, NoOp
<1>2. /\ op' \in [Op -> Busy \cup {NoOp}]
      /\ op'[k].at = "host" /\ op'[k].ref = op[k].ref
      /\ \A j \in Op \ {k} : op'[j] = op[j]
      /\ \A c, h : InOp(c, h)' => InOp(c, h)
  BY <1>1, OpMoves DEF IInv, Places
<1>3. /\ replies' \in Seq([rows : Listings, op : SUBSET Op])
      /\ Coming' = Coming \cup {Listing(hostRow)} /\ Newest' = Listing(hostRow)
  BY RelistEffect DEF SaveCredential, IInv, TypeOK, None
<1>4. \A c \in Cred, h \in Host : InListing(Listing(hostRow), c, h) => InRow(c, h)
  BY ListingTyped DEF InRow, IInv, TypeOK
<1>5. hostRow' = hostRow /\ view' = view /\ form' = form /\ insp' = insp /\ unlisted' = unlisted
  BY DEF SaveCredential
<1>6. credRow' \in [Cred -> [at : {"absent", "live", "dead"}]]
  BY DEF SaveCredential, IInv, TypeOK
<1>7. TypeOK'
  BY <1>2, <1>3, <1>5, <1>6 DEF IInv, TypeOK
<1>8. \A c, h : InRow(c, h)' = InRow(c, h) /\ InListing(view, c, h)' = InListing(view, c, h)
  BY <1>5 DEF InRow, InListing
<1>9. Sole'
  <2>1. \A c \in Cred, h \in Host : Claims(c, h)' => Claims(c, h)
    BY <1>2, <1>3, <1>4, <1>8 DEF Claims
  <2> QED
    BY <2>1 DEF Sole, IInv
<1>10. Written'
  <2>1. ASSUME NEW c \in Cred, credRow'[c].at = "absent" PROVE credRow[c].at = "absent" /\ c \notin op[k].ref
    BY <1>1, <2>1, OneRef DEF SaveCredential, IInv
  <2> QED
    BY <1>2, <1>3, <1>4, <1>8, <2>1 DEF Written, IInv
<1> QED
  BY <1>3, <1>5, <1>7, <1>9, <1>10 DEF IInv, Fresh

LEMMA SaveHostStep == ASSUME IInv, NEW k \in Op, SaveHost(k) PROVE IInv'
<1>1. op[k].at = "host" /\ op[k] # NoOp /\ op' = [op EXCEPT ![k].at = "reload"]
  BY DEF SaveHost, NoOp
<1>2. /\ op' \in [Op -> Busy \cup {NoOp}]
      /\ op'[k].at = "reload" /\ op'[k].ref = op[k].ref
      /\ \A j \in Op \ {k} : op'[j] = op[j]
      /\ \A c, h : InOp(c, h)' => InOp(c, h)
  BY <1>1, OpMoves DEF IInv, Places
<1>3. op[k].id \in Host /\ op[k].ref \in Refs
  BY <1>1, BusyTyped DEF IInv
<1>4. hostRow' \in [Host -> HostLines]
  BY <1>3 DEF SaveHost, HostLine, HostLines, IInv, TypeOK
<1>5. /\ replies' \in Seq([rows : Listings, op : SUBSET Op])
      /\ Coming' = Coming \cup {Listing(hostRow')} /\ Newest' = Listing(hostRow')
  BY <1>4, RelistEffect DEF SaveHost, IInv
<1>6. credRow' = credRow /\ view' = view /\ form' = form /\ insp' = insp /\ unlisted' = unlisted
  BY DEF SaveHost
<1>7. TypeOK'
  BY <1>2, <1>4, <1>5, <1>6 DEF IInv, TypeOK
<1>8. ASSUME NEW c \in Cred, NEW h \in Host, InRow(c, h)'
      PROVE  InRow(c, h) \/ (h = op[k].id /\ c \in op[k].ref)
  BY <1>3, <1>8 DEF SaveHost, HostLine, InRow, IInv, TypeOK
<1>9. \A c \in Cred, h \in Host : InListing(Listing(hostRow'), c, h) => InRow(c, h)'
  BY <1>4, ListingTyped DEF InRow
<1>10. \A c, h : InListing(view, c, h)' = InListing(view, c, h)
  BY <1>6 DEF InListing
<1>11. Sole'
  <2>1. \A c \in Cred : c \in op[k].ref => Claims(c, op[k].id)
    BY <1>1 DEF Claims, InOp
  <2>2. \A c \in Cred, h \in Host : Claims(c, h)' => Claims(c, h)
    BY <1>2, <1>5, <1>8, <1>9, <1>10, <2>1 DEF Claims
  <2> QED
    BY <2>2 DEF Sole, IInv
<1>12. Written'
  <2>1. ASSUME NEW c \in Cred, credRow'[c].at = "absent" PROVE credRow[c].at = "absent" /\ c \notin op[k].ref
    BY <1>1, <1>6, <2>1 DEF Written, IInv
  <2> QED
    BY <1>2, <1>5, <1>8, <1>9, <1>10, <2>1 DEF Written, IInv
<1> QED
  BY <1>5, <1>7, <1>11, <1>12 DEF IInv, Fresh

LEMMA RemoveHostStep == ASSUME IInv, NEW k \in Op, RemoveHost(k) PROVE IInv'
<1>0. op' = [op EXCEPT ![k].at = IF op[k].ref = None THEN "reload" ELSE "forget"]
  BY DEF RemoveHost
<1>1. PICK place \in {"reload", "forget"} : op[k].at = "delete" /\ op[k] # NoOp /\ op' = [op EXCEPT ![k].at = place]
  <2>1. op[k].at = "delete" /\ op[k] # NoOp
    BY DEF RemoveHost, NoOp
  <2>2. CASE op[k].ref = None
    BY <1>0, <2>1, <2>2
  <2>3. CASE op[k].ref # None
    BY <1>0, <2>1, <2>3
  <2> QED
    BY <2>2, <2>3
<1>2. /\ op' \in [Op -> Busy \cup {NoOp}]
      /\ op'[k].ref = op[k].ref
      /\ \A j \in Op \ {k} : op'[j] = op[j]
      /\ \A c, h : InOp(c, h)' => InOp(c, h)
  BY <1>1, OpMoves DEF IInv, Places
<1>3. op[k].id \in Host
  BY <1>1, BusyTyped DEF IInv
<1>4. hostRow' \in [Host -> HostLines]
  <2>1. [hostRow[op[k].id] EXCEPT !.at = "dead"] \in HostLines
    BY <1>3 DEF HostLines, IInv, TypeOK
  <2>2. hostRow' = [hostRow EXCEPT ![op[k].id] = [hostRow[op[k].id] EXCEPT !.at = "dead"]]
    BY <1>3 DEF RemoveHost, IInv, TypeOK
  <2> QED
    BY <2>1, <2>2 DEF IInv, TypeOK
<1>5. /\ replies' \in Seq([rows : Listings, op : SUBSET Op])
      /\ Coming' = Coming \cup {Listing(hostRow')} /\ Newest' = Listing(hostRow')
  BY <1>4, RelistEffect DEF RemoveHost, IInv, None
<1>6. credRow' = credRow /\ view' = view /\ form' = form /\ insp' = insp /\ unlisted' = unlisted
  BY DEF RemoveHost
<1>7. TypeOK'
  BY <1>2, <1>4, <1>5, <1>6 DEF IInv, TypeOK
<1>8. \A c \in Cred, h \in Host : InRow(c, h)' => InRow(c, h)
  <2>1. hostRow[op[k].id] \in HostLines /\ hostRow'[op[k].id].at = "dead"
    BY <1>3 DEF RemoveHost, HostLines, IInv, TypeOK
  <2>2. \A h \in Host \ {op[k].id} : hostRow'[h] = hostRow[h]
    BY <1>3 DEF RemoveHost, IInv, TypeOK
  <2> QED
    BY <2>1, <2>2 DEF InRow
<1>9. \A c \in Cred, h \in Host : InListing(Listing(hostRow'), c, h) => InRow(c, h)'
  BY <1>4, ListingTyped DEF InRow
<1>10. \A c, h : InListing(view, c, h)' = InListing(view, c, h)
  BY <1>6 DEF InListing
<1>11. Sole'
  <2>1. \A c \in Cred, h \in Host : Claims(c, h)' => Claims(c, h)
    BY <1>2, <1>5, <1>8, <1>9, <1>10 DEF Claims
  <2> QED
    BY <2>1 DEF Sole, IInv
<1>12. Written'
  BY <1>1, <1>2, <1>5, <1>6, <1>8, <1>9, <1>10 DEF Written, IInv
<1> QED
  BY <1>5, <1>7, <1>11, <1>12 DEF IInv, Fresh

LEMMA RemoveCredentialStep == ASSUME IInv, NEW k \in Op, RemoveCredential(k) PROVE IInv'
<1>1. op[k].at = "forget" /\ op[k] # NoOp /\ op' = [op EXCEPT ![k].at = "reload"]
  BY DEF RemoveCredential, NoOp
<1>2. /\ op' \in [Op -> Busy \cup {NoOp}]
      /\ op'[k].ref = op[k].ref
      /\ \A j \in Op \ {k} : op'[j] = op[j]
      /\ \A c, h : InOp(c, h)' => InOp(c, h)
  BY <1>1, OpMoves DEF IInv, Places
<1>3. /\ replies' \in Seq([rows : Listings, op : SUBSET Op])
      /\ Coming' = Coming \cup {Listing(hostRow)} /\ Newest' = Listing(hostRow)
  BY RelistEffect DEF RemoveCredential, IInv, TypeOK
<1>4. \A c \in Cred, h \in Host : InListing(Listing(hostRow), c, h) => InRow(c, h)
  BY ListingTyped DEF InRow, IInv, TypeOK
<1>5. hostRow' = hostRow /\ view' = view /\ form' = form /\ insp' = insp /\ unlisted' = unlisted
  BY DEF RemoveCredential
<1>6. credRow' \in [Cred -> [at : {"absent", "live", "dead"}]]
  BY DEF RemoveCredential, IInv, TypeOK
<1>7. TypeOK'
  BY <1>2, <1>3, <1>5, <1>6 DEF IInv, TypeOK
<1>8. \A c, h : InRow(c, h)' = InRow(c, h) /\ InListing(view, c, h)' = InListing(view, c, h)
  BY <1>5 DEF InRow, InListing
<1>9. Sole'
  <2>1. \A c \in Cred, h \in Host : Claims(c, h)' => Claims(c, h)
    BY <1>2, <1>3, <1>4, <1>8 DEF Claims
  <2> QED
    BY <2>1 DEF Sole, IInv
<1>10. Written'
  <2>1. ASSUME NEW c \in Cred, credRow'[c].at = "absent" PROVE credRow[c].at = "absent"
    BY <2>1 DEF RemoveCredential, IInv, TypeOK
  <2> QED
    BY <1>1, <1>2, <1>3, <1>4, <1>8, <2>1 DEF Written, IInv
<1> QED
  BY <1>3, <1>5, <1>7, <1>9, <1>10 DEF IInv, Fresh

(* The row is read as it is now. *)
LEMMA RemoveReadsStep == ASSUME IInv, NEW k \in Op, RemoveReads(k) PROVE IInv'
<1> DEFINE ref == IF hostRow[op[k].id].at = "live" THEN hostRow[op[k].id].ref ELSE None
<1>1. op[k].at = "get" /\ op[k] # NoOp /\ op[k] \in Busy /\ op[k].id \in Host
  BY BusyTyped DEF RemoveReads, NoOp, IInv
<1>2. ref = None \/ (hostRow[op[k].id].at = "live" /\ ref = hostRow[op[k].id].ref)
  OBVIOUS
<1>3. ref \in Refs
  BY <1>1 DEF Refs, HostLines, IInv, TypeOK
<1>4. op' = [op EXCEPT ![k] = [op[k] EXCEPT !.at = "delete", !.ref = ref]]
  BY DEF RemoveReads, IInv, TypeOK
<1> HIDE DEF ref
<1> DEFINE o == [op[k] EXCEPT !.at = "delete", !.ref = ref]
<1>5. o \in Busy /\ o.at = "delete" /\ o.id = op[k].id /\ o.ref = ref
  <2>1. CASE op[k] \in SaveType
    BY <1>3, <2>1 DEF SaveType, Busy, Places
  <2>2. CASE op[k] \in RemoveType
    BY <1>3, <2>2 DEF RemoveType, Busy, Places
  <2> QED
    BY <1>1, <2>1, <2>2 DEF Busy
<1>6. op' = [op EXCEPT ![k] = o]
  BY <1>4
<1> HIDE DEF o
<1>7. op'[k] = o /\ \A j \in Op \ {k} : op'[j] = op[j]
  BY <1>6 DEF IInv, TypeOK
<1>8. hostRow' = hostRow /\ credRow' = credRow /\ view' = view /\ replies' = replies /\ form' = form /\ insp' = insp /\ unlisted' = unlisted
  BY DEF RemoveReads
<1>9. op' \in [Op -> Busy \cup {NoOp}]
  BY <1>5, <1>6 DEF IInv, TypeOK
<1>10. TypeOK'
  BY <1>8, <1>9 DEF IInv, TypeOK
<1>11. \A c : c \in ref => InRow(c, op[k].id)
  BY <1>2 DEF InRow, None
<1>12. \A c, h : InOp(c, h)' => InOp(c, h) \/ InRow(c, h)
  BY <1>5, <1>7, <1>11 DEF InOp
<1>13. Sole'
  <2>1. \A c \in Cred, h \in Host : Claims(c, h)' => Claims(c, h)
    BY <1>8, <1>12, TablesKept DEF Claims
  <2> QED
    BY <2>1 DEF Sole, IInv
<1>14. Written'
  <2> SUFFICES ASSUME NEW c \in Cred, credRow[c].at = "absent"
               PROVE  \A j \in Op : op'[j].at \notin {"idle", "credential"} => c \notin op'[j].ref
    BY <1>8, TablesKept DEF Written, IInv
  <2>1. c \notin ref
    BY <1>1, <1>11 DEF Written, IInv
  <2> QED
    BY <1>5, <1>7, <2>1 DEF Written, IInv
<1> QED
  BY <1>8, <1>10, <1>13, <1>14, TablesKept DEF IInv

LEMMA FailsStep == ASSUME IInv, NEW k \in Op, Fails(k) PROVE IInv'
<1>1. /\ op' = [op EXCEPT ![k] = NoOp]
      /\ hostRow' = hostRow /\ credRow' = credRow /\ view' = view /\ replies' = replies
      /\ form' = form /\ insp' = insp /\ unlisted' = unlisted
  BY DEF Fails
<1>2. op'[k].at = "idle" /\ \A j \in Op \ {k} : op'[j] = op[j]
  BY <1>1 DEF IInv, TypeOK, NoOp
<1>3. TypeOK'
  BY <1>1 DEF IInv, TypeOK
<1>4. \A c, h : InOp(c, h)' => InOp(c, h)
  BY <1>2 DEF InOp
<1>5. Sole'
  <2>1. \A c \in Cred, h \in Host : Claims(c, h)' => Claims(c, h)
    BY <1>1, <1>4, TablesKept DEF Claims
  <2> QED
    BY <2>1 DEF Sole, IInv
<1>6. Written'
  BY <1>1, <1>2, TablesKept DEF Written, IInv
<1> QED
  BY <1>1, <1>3, <1>5, <1>6, TablesKept DEF IInv

(* The first listing ends: it becomes the list, or the list stays because it was rejected. *)
LEMMA ListingEnds ==
    ASSUME IInv, replies # <<>>, replies' = Tail(replies),
           op' = [j \in Op |-> IF j \in Head(replies).op THEN NoOp ELSE op[j]],
           UNCHANGED <<hostRow, credRow, insp>>, form' = FormClosed \/ form' = form,
           unlisted' \in BOOLEAN,
           IF unlisted' THEN view' = view ELSE view' = Head(replies).rows
    PROVE  IInv'
<1> DEFINE who == Head(replies).op
<1>1. op' = [j \in Op |-> IF j \in who THEN NoOp ELSE op[j]]
  OBVIOUS
<1>2. /\ Head(replies) \in [rows : Listings, op : SUBSET Op]
      /\ replies' \in Seq([rows : Listings, op : SUBSET Op])
      /\ Head(replies).rows \in Coming /\ Coming' \subseteq Coming
      /\ replies' = <<>> => Newest = Head(replies).rows
      /\ replies' # <<>> => Newest' = Newest
  BY HeadEffect DEF IInv
<1> HIDE DEF who
<1>3. view' \in Listings
  BY <1>2 DEF IInv, TypeOK
<1>4. op' \in [Op -> Busy \cup {NoOp}] /\ \A j \in Op : op'[j].at = "idle" \/ op'[j] = op[j]
  BY <1>1 DEF IInv, TypeOK, NoOp
<1>5. TypeOK'
  BY <1>2, <1>3, <1>4 DEF IInv, TypeOK
<1>6. \A c, h : InOp(c, h)' => InOp(c, h)
  BY <1>4 DEF InOp
<1>7. \A c, h : InRow(c, h)' = InRow(c, h)
  BY DEF InRow
<1>8. \A c, h : InListing(view, c, h)' => InListing(view, c, h) \/ \E rows \in Coming : InListing(rows, c, h)
  BY <1>2 DEF InListing
<1>9. Sole'
  <2>1. \A c \in Cred, h \in Host : Claims(c, h)' => Claims(c, h)
    BY <1>2, <1>6, <1>7, <1>8 DEF Claims
  <2> QED
    BY <2>1 DEF Sole, IInv
<1>10. Written'
  BY <1>2, <1>4, <1>7, <1>8 DEF Written, IInv
<1>11. Fresh'
  <2>1. Newest = Listing(hostRow)
    BY DEF IInv, Fresh
  <2>2. replies' # <<>> => Newest' = Listing(hostRow)
    BY <1>2, <2>1
  <2>3. replies' = <<>> /\ ~unlisted' => Newest' = Listing(hostRow)
    BY <1>2, <2>1 DEF Newest
  <2>4. Listing(hostRow)' = Listing(hostRow)
    BY DEF Listing, Live
  <2> QED
    BY <2>2, <2>3, <2>4 DEF Fresh
<1> QED
  BY <1>5, <1>9, <1>10, <1>11 DEF IInv

LEMMA RelistedStep == ASSUME IInv, Relisted PROVE IInv'
<1>1. /\ replies # <<>> /\ replies' = Tail(replies) /\ view' = Head(replies).rows
      /\ op' = [j \in Op |-> IF j \in Head(replies).op THEN NoOp ELSE op[j]]
      /\ form' = FormClosed \/ form' = form
      /\ UNCHANGED <<hostRow, credRow, insp>> /\ unlisted' = FALSE
  BY DEF Relisted
<1> QED
  BY <1>1, ListingEnds

LEMMA ListingFailsStep == ASSUME IInv, ListingFails PROVE IInv'
<1>1. /\ replies # <<>> /\ replies' = Tail(replies) /\ view' = view
      /\ op' = [j \in Op |-> IF j \in Head(replies).op THEN NoOp ELSE op[j]]
      /\ form' = form /\ UNCHANGED <<hostRow, credRow, insp>> /\ unlisted' = TRUE
  BY DEF ListingFails
<1> QED
  BY <1>1, ListingEnds

(* A step of form or inspector alone. *)
LEMMA ViewStep ==
    ASSUME IInv, UNCHANGED <<hostRow, credRow, view, replies, op, unlisted>>,
           form' \in {FormClosed} \cup FormType,
           insp' \in {InspClosed} \cup InspType
    PROVE  IInv'
<1>1. TypeOK'
  BY DEF IInv, TypeOK
<1>2. \A c, h : InOp(c, h)' = InOp(c, h)
  BY DEF InOp
<1>3. Sole'
  <2>1. \A c \in Cred, h \in Host : Claims(c, h)' => Claims(c, h)
    BY <1>2, TablesKept DEF Claims
  <2> QED
    BY <2>1 DEF Sole, IInv
<1>4. Written'
  BY TablesKept DEF Written, IInv
<1> QED
  BY <1>1, <1>3, <1>4, TablesKept DEF IInv

----------------------------------------------------------------------------
LEMMA Starts == ASSUME EditorInit PROVE IInv
<1> USE DEF EditorInit
<1>1. hostRow \in [Host -> HostLines] /\ \A h \in Host : hostRow[h].at = "absent"
  BY DEF NoRow, HostLines
<1>2. view = Listing(hostRow) /\ view \in Listings
  BY <1>1, ListingTyped
<1>3. credRow \in [Cred -> [at : {"absent", "live", "dead"}]]
  BY DEF NoRow
<1>4. replies \in Seq([rows : Listings, op : SUBSET Op]) /\ Coming = {}
  BY DEF Coming
<1>5. op \in [Op -> Busy \cup {NoOp}] /\ \A k \in Op : op[k].at = "idle"
  BY DEF NoOp
<1>6. TypeOK
  BY <1>1, <1>2, <1>3, <1>4, <1>5 DEF TypeOK
<1>7. \A c \in Cred, h \in Host : ~Claims(c, h)
  BY <1>1, <1>2, <1>4, <1>5, ListingTyped DEF Claims, InRow, InOp
<1>8. Sole
  BY <1>7 DEF Sole
<1>9. Written
  BY <1>5, <1>7 DEF Written, Claims
<1> QED
  BY <1>2, <1>6, <1>8, <1>9 DEF IInv, Fresh, Newest

(* Submit, Autosave and RemoveBegins begin an operation. *)
LEMMA Beginnings ==
    ASSUME IInv, Numbered, NEW k \in Op,
           Submit(k) \/ Autosave(k) \/ \E h \in Host : RemoveBegins(k, h)
    PROVE  /\ \E o : Begun(k, o)
           /\ UNCHANGED <<hostRow, credRow, view, replies, form, insp, unlisted>>
<1>1. CASE Submit(k)
  <2>1. FormHost = None \/ \E h \in DOMAIN view : FormHost = {h}
    BY <1>1, FormHostOne DEF Submit, IInv
  <2>2. form.secret \in SUBSET (Host \cup {New})
    BY <1>1, FormTyped DEF Submit, IInv, FormType
  <2> QED
    BY <1>1, <2>1, <2>2, SaveEffect DEF Submit, IInv
<1>2. CASE Autosave(k)
  <2>1. \E h \in DOMAIN view : Shown = {h}
    BY <1>2, ShownOne DEF Autosave, IInv
  <2>2. insp.secret \in SUBSET (Host \cup {New})
    BY <1>2, InspTyped DEF Autosave, IInv, InspType
  <2> QED
    BY <1>2, <2>1, <2>2, SaveEffect DEF Autosave, IInv
<1>3. ASSUME NEW h \in Host, RemoveBegins(k, h)
      PROVE  (\E o : Begun(k, o)) /\ UNCHANGED <<hostRow, credRow, view, replies, form, insp, unlisted>>
  <2> DEFINE o == [at |-> "get", kind |-> "remove", id |-> h, ref |-> None]
  <2>1. o \in Busy
    BY DEF Busy, RemoveType, Places, Refs
  <2>2. Begun(k, o)
    BY <1>3, <2>1 DEF Begun, RemoveBegins, Start
  <2> QED
    BY <1>3, <2>2 DEF RemoveBegins
<1> QED
  BY <1>1, <1>2, <1>3

LEMMA Steps == ASSUME IInv, Numbered, [EditorNext]_heVars PROVE IInv'
<1>1. ASSUME NEW k \in Op, Submit(k) \/ Autosave(k) \/ \E h \in Host : RemoveBegins(k, h) PROVE IInv'
  <2>1. PICK o : Begun(k, o)
    BY <1>1, Beginnings
  <2> QED
    BY <1>1, <2>1, Beginnings, SaveBegins
<1>4. ASSUME NEW host \in {None} \cup {{h} : h \in Host}, EditHost(host) PROVE IInv'
  <2>1. form' \in {FormClosed} \cup FormType
    BY <1>4, FormTyped DEF EditHost, FormType, IInv, None
  <2> QED
    BY <1>4, <2>1, ViewStep DEF EditHost, IInv, TypeOK
<1>5. CASE CancelForm
  BY <1>5, ViewStep DEF CancelForm, IInv, TypeOK
<1>6. CASE TypeInForm
  <2>1. Target(FormHost) \in Host \cup {New}
    BY <1>6, FormHostOne, ViewTyped DEF TypeInForm, Target, IInv
  <2>2. form \in FormType
    BY <1>6, FormTyped DEF TypeInForm, IInv
  <2>3. form' \in FormType
    BY <1>6, <2>1, <2>2 DEF TypeInForm, FormType
  <2> QED
    BY <1>6, <2>3, ViewStep DEF TypeInForm, FormType, IInv, TypeOK
<1>7. CASE ToggleInspector
  BY <1>7, ViewStep DEF ToggleInspector, IInv, TypeOK, InspType, None
<1>8. CASE TypeInInspector
  <2>1. Shown \in SUBSET Host
    BY ViewTyped DEF Shown, IInv
  <2>2. insp \in InspType
    BY <1>8, InspTyped DEF TypeInInspector, IInv
  <2>3. insp' \in InspType
    BY <1>8, <2>1, <2>2 DEF TypeInInspector, InspType
  <2> QED
    BY <1>8, <2>3, ViewStep DEF TypeInInspector, InspType, IInv, TypeOK
<1>9. CASE UNCHANGED heVars
  BY <1>9, ViewStep DEF heVars, IInv, TypeOK
<1> QED
  BY <1>1, <1>4, <1>5, <1>6, <1>7, <1>8, <1>9, RelistedStep, ListingFailsStep, FailsStep,
     SaveCredentialStep, SaveHostStep, RemoveReadsStep, RemoveHostStep, RemoveCredentialStep
     DEF EditorNext

(* IInv holds in every reachable state. *)
LEMMA Invariance == ASSUME Numbered PROVE EditorSpec => []IInv
<1>1. EditorInit => IInv
  BY Starts
<1>2. IInv /\ [EditorNext]_heVars => IInv'
  BY Steps
<1> QED
  BY <1>1, <1>2, PTL DEF EditorSpec

(* However saves, removals and failures overlap (hostStore.ts), a host's authRef names a
   credential that was written, and no two hosts share one. *)
THEOREM ReferencesSound == ASSUME Numbered PROVE EditorSpec => []RefsSound
<1>1. ASSUME IInv PROVE RefsSound
  <2> SUFFICES ASSUME NEW h \in Live(hostRow)
               PROVE  /\ \A c \in hostRow[h].ref : credRow[c].at # "absent"
                      /\ \A g \in Live(hostRow) \ {h} : hostRow[g].ref \cap hostRow[h].ref = {}
    BY DEF RefsSound
  <2>1. \A g \in Live(hostRow) : g \in Host /\ hostRow[g].at = "live" /\ hostRow[g].ref \subseteq Cred
    BY <1>1 DEF Live, IInv, TypeOK, HostLines, Refs, None
  <2>2. \A g \in Live(hostRow) : \A c \in hostRow[g].ref : InRow(c, g) /\ Claims(c, g)
    BY <2>1 DEF InRow, Claims
  <2>3. \A c \in hostRow[h].ref : credRow[c].at # "absent"
    BY <1>1, <2>1, <2>2 DEF Written, IInv
  <2>4. \A g \in Live(hostRow) \ {h} : hostRow[g].ref \cap hostRow[h].ref = {}
    BY <1>1, <2>1, <2>2 DEF Sole, IInv
  <2> QED
    BY <2>3, <2>4
<1> QED
  BY <1>1, Invariance, PTL

(* Once no listing is under way the list shows the hosts of the database, in spite of
   listings that were asked for by other operations (hostStore.reload, Store.onChange) and of
   listings that were rejected, unless that happened to the one asked for last. *)
THEOREM ListSettles == ASSUME Numbered PROVE EditorSpec => []ViewSettles
<1>1. IInv => ViewSettles
  BY DEF IInv, Fresh, Newest, ViewSettles
<1> QED
  BY <1>1, Invariance, PTL

=============================================================================
