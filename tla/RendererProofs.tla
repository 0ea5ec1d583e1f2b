--------------------------- MODULE RendererProofs ---------------------------
(* What TLAPS proves of the page: the workbench (Workbench), the file browser
   (FileBrowser), the snippet palette (Snippets), the preferences (Prefs), the connect
   flow (ConnectFlow) and its way to the native module (Ipc), for every value of their
   constants.                                                                       *)
EXTENDS Workbench, FileBrowser, ConnectFlow, Ipc, Snippets, Prefs,
        WellFoundedInduction, SequenceTheorems, FiniteSetTheorems, TLAPS

----------------------------------------------------------------------------
(* Induction over the natural numbers, as the least element of a set of them. *)
LEMMA LeastNat ==
    ASSUME NEW T, T \subseteq Nat, T # {}
    PROVE  \E x \in T : \A y \in T : x <= y
<1> DEFINE R == OpToRel(<, Nat)
<1>1. IsWellFoundedOn(R, Nat)
  BY NatLessThanWellFounded, Zenon
<1>2. \A y \in Nat, z \in Nat : y < z => <<y, z>> \in R
  BY DEF R, OpToRel
<1> HIDE DEF R
<1>3. PICK x \in T : \A y \in T : ~ (<<y, x>> \in R)
  BY <1>1, WFMin
<1>4. \A y \in T : x <= y
  <2> SUFFICES ASSUME NEW y \in T, ~ (x <= y) PROVE FALSE
    OBVIOUS
  <2>1. y < x /\ y \in Nat /\ x \in Nat
    OBVIOUS
  <2>2. <<y, x>> \in R
    BY <2>1, <1>2
  <2> QED
    BY <2>2, <1>3
<1> QED
  BY <1>4

(* So a set of indices that is bounded has a greatest element. *)
LEMMA GreatestNat ==
    ASSUME NEW n \in Nat, NEW T, T \subseteq 0..n, T # {}
    PROVE  \E x \in T : \A y \in T : x >= y
<1> DEFINE U == {n - x : x \in T}
<1>1. U \subseteq Nat /\ U # {}
  <2>1. \A x \in T : n - x \in Nat
    OBVIOUS
  <2>2. PICK x \in T : TRUE
    OBVIOUS
  <2>3. n - x \in U
    OBVIOUS
  <2> QED
    BY <2>1, <2>3
<1>2. PICK u \in U : \A v \in U : u <= v
  BY <1>1, LeastNat
<1>3. PICK x \in T : u = n - x
  OBVIOUS
<1>4. \A y \in T : x >= y
  <2> TAKE y \in T
  <2>1. n - x <= n - y
    BY <1>2, <1>3
  <2>2. x \in 0..n /\ y \in 0..n
    OBVIOUS
  <2> QED
    BY <2>1, <2>2
<1> QED
  BY <1>4

(* The bar after some of its tabs were closed (Stay).  The function that its definition
   recurs with exists for every length. *)
StayStep(f, bar, ids, n) ==
    IF n = 0 THEN <<>>
    ELSE IF bar[n].id \in ids THEN f[n - 1] ELSE Append(f[n - 1], bar[n])

LEMMA StayExists ==
    ASSUME NEW bar, NEW ids, NEW m \in Nat
    PROVE  \E f : f = [n \in 0..m |-> StayStep(f, bar, ids, n)]
<1> DEFINE T == {k \in Nat : ~ \E f : f = [n \in 0..k |-> StayStep(f, bar, ids, n)]}
<1> SUFFICES ASSUME T # {} PROVE FALSE
  OBVIOUS
<1>1. PICK k \in T : \A j \in T : k <= j
  BY LeastNat
<1>2. CASE k = 0
  <2> DEFINE g == [n \in 0..0 |-> <<>>]
  <2>1. g = [n \in 0..0 |-> StayStep(g, bar, ids, n)]
    BY DEF StayStep
  <2> QED
    BY <1>2, <2>1
<1>3. CASE k # 0
  <2>1. k - 1 \in Nat /\ k - 1 \notin T
    BY <1>1, <1>3
  <2>2. PICK f : f = [n \in 0..(k - 1) |-> StayStep(f, bar, ids, n)]
    BY <2>1
  <2> DEFINE last == StayStep(f, bar, ids, k)
             g == [n \in 0..k |-> IF n = k THEN last ELSE f[n]]
  <2>3. \A n \in 0..k : StayStep(g, bar, ids, n) = StayStep(f, bar, ids, n)
    <3> TAKE n \in 0..k
    <3>1. CASE n = 0
      BY <3>1 DEF StayStep
    <3>2. CASE n # 0
      <4>1. n - 1 \in 0..k /\ n - 1 # k
        BY <3>2
      <4>2. g[n - 1] = f[n - 1]
        BY <4>1
      <4> QED
        BY <3>2, <4>2 DEF StayStep
    <3> QED
      BY <3>1, <3>2
  <2>4. \A n \in 0..k : g[n] = StayStep(g, bar, ids, n)
    <3> TAKE n \in 0..k
    <3>1. CASE n = k
      BY <3>1, <2>3
    <3>2. CASE n # k
      <4>1. n \in 0..(k - 1)
        BY <3>2
      <4>2. f[n] = StayStep(f, bar, ids, n)
        BY <2>2, <4>1
      <4> QED
        BY <3>2, <4>2, <2>3
    <3> QED
      BY <3>1, <3>2
  <2>5. g = [n \in 0..k |-> StayStep(g, bar, ids, n)]
    BY <2>4
  <2> QED
    BY <2>5
<1> QED
  BY <1>2, <1>3

(* It keeps the tabs that are not closed, and only those. *)
LEMMA StayProperties ==
    ASSUME NEW S, NEW bar \in Seq(S), NEW ids
    PROVE  /\ Stay(bar, ids) \in Seq(S)
           /\ \A i \in DOMAIN Stay(bar, ids) :
                \E j \in DOMAIN bar : Stay(bar, ids)[i] = bar[j] /\ bar[j].id \notin ids
           /\ \A j \in DOMAIN bar :
                bar[j].id \notin ids => \E i \in DOMAIN Stay(bar, ids) : Stay(bar, ids)[i] = bar[j]
<1> DEFINE f == CHOOSE g : g = [n \in 0..Len(bar) |-> StayStep(g, bar, ids, n)]
<1>1. f = [n \in 0..Len(bar) |-> StayStep(f, bar, ids, n)]
  BY StayExists
<1>2. Stay(bar, ids) = f[Len(bar)]
  BY DEF Stay, StayStep
<1> HIDE DEF f
<1> DEFINE Good(n) ==
        /\ f[n] \in Seq(S)
        /\ \A i \in DOMAIN f[n] : \E j \in 1..n : f[n][i] = bar[j] /\ bar[j].id \notin ids
        /\ \A j \in 1..n : bar[j].id \notin ids => \E i \in DOMAIN f[n] : f[n][i] = bar[j]
<1>3. Good(0)
  <2>1. f[0] = <<>>
    BY <1>1 DEF StayStep
  <2> QED
    BY <2>1
<1>4. ASSUME NEW n \in 1..Len(bar), Good(n - 1) PROVE Good(n)
  <2>1. f[n] = IF bar[n].id \in ids THEN f[n - 1] ELSE Append(f[n - 1], bar[n])
    <3>1. n \in 0..Len(bar) /\ n # 0
      OBVIOUS
    <3>2. f[n] = StayStep(f, bar, ids, n)
      BY <1>1, <3>1
    <3> QED
      BY <3>1, <3>2 DEF StayStep
  <2>2. \A j : j \in 1..n <=> j \in 1..(n - 1) \/ j = n
    OBVIOUS
  <2>3. bar[n] \in S
    OBVIOUS
  <2>4. CASE bar[n].id \in ids
    BY <1>4, <2>1, <2>2, <2>4
  <2>5. CASE bar[n].id \notin ids
    <3> DEFINE q == f[n - 1]
    <3>1. f[n] = Append(q, bar[n]) /\ q \in Seq(S)
      BY <1>4, <2>1, <2>5
    <3> HIDE DEF q
    <3>2. /\ f[n] \in Seq(S)
          /\ \A i : i \in DOMAIN f[n] <=> i \in DOMAIN q \/ i = Len(q) + 1
          /\ \A i \in DOMAIN q : f[n][i] = q[i]
          /\ f[n][Len(q) + 1] = bar[n]
      BY <2>3, <3>1
    <3>3. ASSUME NEW i \in DOMAIN f[n]
          PROVE  \E j \in 1..n : f[n][i] = bar[j] /\ bar[j].id \notin ids
      <4>1. CASE i \in DOMAIN q
        <5>1. PICK j \in 1..(n - 1) : q[i] = bar[j] /\ bar[j].id \notin ids
          BY <1>4, <4>1 DEF q
        <5> QED
          BY <2>2, <3>2, <4>1, <5>1
      <4>2. CASE i = Len(q) + 1
        BY <2>2, <2>5, <3>2, <4>2
      <4> QED
        BY <3>2, <4>1, <4>2
    <3>4. ASSUME NEW j \in 1..n, bar[j].id \notin ids
          PROVE  \E i \in DOMAIN f[n] : f[n][i] = bar[j]
      <4>1. CASE j \in 1..(n - 1)
        <5>1. PICK i \in DOMAIN q : q[i] = bar[j]
          BY <1>4, <3>4, <4>1 DEF q
        <5> QED
          BY <3>2, <5>1
      <4>2. CASE j = n
        BY <3>2, <4>2
      <4> QED
        BY <2>2, <4>1, <4>2
    <3> QED
      BY <3>2, <3>3, <3>4
  <2> QED
    BY <2>4, <2>5
<1>5. \A n \in 0..Len(bar) : Good(n)
  <2> DEFINE T == {n \in 0..Len(bar) : ~Good(n)}
  <2> SUFFICES ASSUME T # {} PROVE FALSE
    OBVIOUS
  <2> HIDE DEF Good
  <2>1. PICK n \in T : \A m \in T : n <= m
    <3>1. T \subseteq Nat
      OBVIOUS
    <3> HIDE DEF T
    <3> QED
      BY <3>1, LeastNat
  <2>2. n # 0
    BY <1>3
  <2>3. n \in 1..Len(bar) /\ n - 1 \in 0..Len(bar) /\ n - 1 \notin T
    BY <2>1, <2>2
  <2>4. Good(n - 1)
    BY <2>3
  <2> QED
    BY <1>4, <2>3, <2>4
<1>6. Good(Len(bar))
  <2> HIDE DEF Good
  <2>1. Len(bar) \in 0..Len(bar)
    OBVIOUS
  <2> QED
    BY <1>5, <2>1
<1>7. DOMAIN bar = 1..Len(bar)
  OBVIOUS
<1> DEFINE last == f[Len(bar)]
<1>8. /\ last \in Seq(S)
      /\ \A i \in DOMAIN last : \E j \in DOMAIN bar : last[i] = bar[j] /\ bar[j].id \notin ids
      /\ \A j \in DOMAIN bar : bar[j].id \notin ids => \E i \in DOMAIN last : last[i] = bar[j]
  BY <1>6, <1>7
<1> QED
  BY <1>2, <1>8

----------------------------------------------------------------------------
(* The workbench (Workbench). *)

SessionState == {"none", "connecting", "connected", "reconnecting", "gone"}
TabType == [id : Tab, of : Session, state : {"live", "reconnecting", "closed"}]
BenchType ==
    /\ sess \in [Session -> SessionState]
    /\ opening \subseteq Session
    /\ DOMAIN mtab \subseteq Tab
    /\ mtab \in [DOMAIN mtab -> [of : Session, held : BOOLEAN]]
    /\ tabs \in Seq(TabType)
    /\ active = {} \/ \E t \in Tab : active = {t}
    /\ missed \in BOOLEAN

(* A panel has a session only while it is mounted, so it hears of that session's end. *)
PanelInv ==
    /\ files \cup forward \subseteq OpenSessions
    /\ files # {} => ui = "tabs" /\ panel = "files"
    /\ forward # {} => ui = "tabs" /\ panel = "forwards"

(* A tab of the bar that missed nothing is the manager's: it has the state of a session
   that is connected or being rebuilt, and in the second case the rebuild holds it, so that
   the end of the session closes it. *)
TabSound(tab, ss, mt) ==
    /\ tab.of = mt[tab.id].of
    /\ ss[tab.of] \in {"connected", "reconnecting"}
    /\ tab.state = TabState(ss[tab.of])
    /\ mt[tab.id].held <=> ss[tab.of] = "reconnecting"
BarInv ==
    /\ active \subseteq Ids(tabs) /\ (active = {} <=> tabs = <<>>)
    /\ ~missed =>
           /\ ui # "dead"
           /\ Ids(tabs) = DOMAIN mtab
           /\ \A i \in DOMAIN tabs : TabSound(tabs[i], sess, mtab)

BenchInv == BenchType /\ PanelInv /\ BarInv

LEMMA BenchInitInv == BenchInit => BenchInv
<1> SUFFICES ASSUME BenchInit PROVE BenchInv
  OBVIOUS
<1>1. /\ sess \in [Session -> SessionState] /\ opening = {} /\ mtab = <<>> /\ tabs = <<>>
      /\ active = {} /\ missed = FALSE /\ ui = "tabs" /\ files = {} /\ forward = {}
  BY DEF BenchInit, SessionState
<1>2. DOMAIN mtab = {} /\ mtab \in [{} -> [of : Session, held : BOOLEAN]]
  BY <1>1
<1>3. tabs \in Seq(TabType) /\ Ids(tabs) = {} /\ DOMAIN tabs = {}
  BY <1>1 DEF Ids
<1>4. BenchType
  BY <1>1, <1>2, <1>3 DEF BenchType
<1>5. PanelInv
  BY <1>1 DEF PanelInv
<1>6. BarInv
  BY <1>1, <1>2, <1>3 DEF BarInv
<1> QED
  BY <1>4, <1>5, <1>6 DEF BenchInv

(* Sessions do not end: the bar and its tabs stay sound. *)
LEMMA BarKept ==
    ASSUME BarInv, BenchType, UNCHANGED <<mtab, tabs, active, missed>>, ui = "dead" \/ ui' # "dead",
           \A s \in Session : sess[s] \in {"connected", "reconnecting"} => sess'[s] = sess[s]
    PROVE  BarInv'
<1>1. Ids(tabs)' = Ids(tabs)
  BY DEF Ids
<1>2. ASSUME NEW i \in DOMAIN tabs, TabSound(tabs[i], sess, mtab)
      PROVE  TabSound(tabs[i], sess, mtab)'
  <2>1. tabs[i] \in TabType
    BY DEF BenchType
  <2>2. tabs[i].of \in Session
    BY <2>1 DEF TabType
  <2> QED
    BY <1>2, <2>2 DEF TabSound, TabState
<1> QED
  BY <1>1, <1>2 DEF BarInv

LEMMA EmptyDomain ==
    ASSUME NEW S, NEW q \in Seq(S)
    PROVE  DOMAIN q = {} <=> q = <<>>
<1>1. q = <<>> => DOMAIN q = {}
  OBVIOUS
<1>2. ASSUME q # <<>> PROVE DOMAIN q # {}
  <2>1. Len(q) \in Nat \ {0}
    BY <1>2, EmptySeq
  <2>2. DOMAIN q = 1..Len(q)
    OBVIOUS
  <2>3. 1 \in 1..Len(q)
    BY <2>1
  <2> QED
    BY <2>2, <2>3
<1> QED
  BY <1>1, <1>2

(* The tabs of bar, and where the highlight goes when some of them close. *)
LEMMA NextActiveProperties ==
    ASSUME NEW bar \in Seq(TabType), NEW ids,
           active \subseteq Ids(bar), active = {} <=> bar = <<>>,
           active = {} \/ \E t \in Tab : active = {t}
    PROVE  /\ NextActive(bar, ids) \subseteq Ids(bar) \ ids
           /\ NextActive(bar, ids) = {} <=> Ids(bar) \ ids = {}
           /\ NextActive(bar, ids) = {} \/ \E t \in Tab : NextActive(bar, ids) = {t}
<1> DEFINE at == CHOOSE i \in DOMAIN bar : {bar[i].id} = active
           stay == {i \in DOMAIN bar : bar[i].id \notin ids}
           right == {i \in stay : i > at}
           least == CHOOSE i \in right : \A j \in right : i <= j
           last == {i \in stay : \A j \in stay : i >= j}
<1>1. CASE active \cap ids = {}
  <2>1. NextActive(bar, ids) = active
    BY <1>1 DEF NextActive
  <2>2. bar = <<>> => Ids(bar) = {}
    BY DEF Ids
  <2> QED
    BY <1>1, <2>1, <2>2
<1>2. CASE active \cap ids # {}
  <2>1. NextActive(bar, ids) = {bar[i].id : i \in IF right # {} THEN {least} ELSE last}
    BY <1>2 DEF NextActive
  <2>2. /\ DOMAIN bar = 1..Len(bar) /\ Len(bar) \in Nat
        /\ \A i \in stay : bar[i].id \in Ids(bar) \ ids /\ bar[i].id \in Tab
        /\ Ids(bar) \ ids = {} <=> stay = {}
    <3>1. DOMAIN bar = 1..Len(bar) /\ Len(bar) \in Nat /\ \A i \in DOMAIN bar : bar[i] \in TabType
      OBVIOUS
    <3>2. \A i \in DOMAIN bar : bar[i].id \in Tab
      BY <3>1 DEF TabType
    <3> QED
      BY <3>1, <3>2 DEF Ids
  <2>3. stay \subseteq 0..Len(bar) /\ right \subseteq Nat
    BY <2>2
  <2> HIDE DEF stay, right
  <2>4. CASE right # {}
    <3>1. \E i \in right : \A j \in right : i <= j
      BY <2>3, <2>4, LeastNat
    <3>2. least \in right
      BY <3>1
    <3>3. least \in stay
      BY <3>2 DEF right
    <3>4. NextActive(bar, ids) = {bar[least].id}
      BY <2>1, <2>4
    <3> QED
      BY <2>2, <3>3, <3>4
  <2>5. CASE right = {} /\ stay = {}
    <3>1. NextActive(bar, ids) = {}
      BY <2>1, <2>5
    <3> QED
      BY <2>2, <2>5, <3>1
  <2>6. CASE right = {} /\ stay # {}
    <3>1. PICK m \in stay : \A j \in stay : m >= j
      BY <2>2, <2>3, <2>6, GreatestNat
    <3>2. last = {m}
      <4>1. m \in last
        BY <3>1
      <4>2. ASSUME NEW i \in last PROVE i = m
        <5>1. i \in Nat /\ m \in Nat /\ i >= m /\ m >= i
          BY <2>3, <3>1, <4>2
        <5> QED
          BY <5>1
      <4> QED
        BY <4>1, <4>2
    <3> HIDE DEF last
    <3>3. NextActive(bar, ids) = {bar[m].id}
      BY <2>1, <2>6, <3>2
    <3> QED
      BY <2>2, <3>1, <3>3
  <2> QED
    BY <2>4, <2>5, <2>6
<1> QED
  BY <1>1, <1>2

(* What closing tabs of bar leaves in it. *)
LEMMA CloseInBarProperties ==
    ASSUME NEW bar \in Seq(TabType), NEW ids, CloseInBar(bar, ids),
           active \subseteq Ids(bar), active = {} <=> bar = <<>>,
           active = {} \/ \E t \in Tab : active = {t}
    PROVE  /\ tabs' \in Seq(TabType)
           /\ Ids(tabs') = Ids(bar) \ ids
           /\ active' \subseteq Ids(tabs') /\ (active' = {} <=> tabs' = <<>>)
           /\ active' = {} \/ \E t \in Tab : active' = {t}
           /\ \A i \in DOMAIN tabs' : \E j \in DOMAIN bar : tabs'[i] = bar[j] /\ bar[j].id \notin ids
<1> DEFINE new == Stay(bar, ids)
<1>1. tabs' = new /\ active' = NextActive(bar, ids)
  BY DEF CloseInBar
<1>2. /\ new \in Seq(TabType)
      /\ \A i \in DOMAIN new : \E j \in DOMAIN bar : new[i] = bar[j] /\ bar[j].id \notin ids
      /\ \A j \in DOMAIN bar : bar[j].id \notin ids => \E i \in DOMAIN new : new[i] = bar[j]
  BY StayProperties
<1> HIDE DEF new
<1>3. Ids(new) = Ids(bar) \ ids
  BY <1>2 DEF Ids
<1>4. Ids(new) = {} <=> new = <<>>
  <2>1. new \in Seq(TabType)
    BY <1>2
  <2>2. Ids(new) = {} <=> DOMAIN new = {}
    BY DEF Ids
  <2>3. DOMAIN new = {} <=> new = <<>>
    BY <2>1, EmptyDomain
  <2> QED
    BY <2>2, <2>3
<1> QED
  BY <1>1, <1>2, <1>3, <1>4, NextActiveProperties

(* Closing tabs of a bar that is there to hear of it, or of a session that ends. *)
LEMMA BarClosed ==
    ASSUME BenchType, BarInv, NEW bar \in Seq(TabType), NEW ids,
           Ids(bar) = Ids(tabs), bar = <<>> <=> tabs = <<>>,
           CloseInBar(bar, ids), mtab' = Without(ids), UNCHANGED <<ui, missed>>,
           \A i \in DOMAIN bar : ~missed /\ bar[i].id \notin ids => TabSound(bar[i], sess', mtab)
    PROVE  BarInv'
<1>1. /\ Ids(tabs') = Ids(bar) \ ids
      /\ active' \subseteq Ids(tabs') /\ (active' = {} <=> tabs' = <<>>)
      /\ \A i \in DOMAIN tabs' : \E j \in DOMAIN bar : tabs'[i] = bar[j] /\ bar[j].id \notin ids
  BY CloseInBarProperties DEF BenchType, BarInv
<1>2. DOMAIN mtab' = DOMAIN mtab \ ids /\ \A t \in DOMAIN mtab \ ids : mtab'[t] = mtab[t]
  BY DEF Without
<1>3. ASSUME ~missed
      PROVE  /\ ui' # "dead" /\ Ids(tabs') = DOMAIN mtab'
             /\ \A i \in DOMAIN tabs' : TabSound(tabs'[i], sess', mtab')
  <2>1. ui' # "dead" /\ Ids(tabs') = DOMAIN mtab'
    BY <1>1, <1>2, <1>3 DEF BarInv
  <2>2. ASSUME NEW i \in DOMAIN tabs' PROVE TabSound(tabs'[i], sess', mtab')
    <3>1. PICK j \in DOMAIN bar : tabs'[i] = bar[j] /\ bar[j].id \notin ids
      BY <1>1
    <3>2. TabSound(bar[j], sess', mtab)
      BY <1>3, <3>1
    <3>3. bar[j].id \in DOMAIN mtab
      BY <1>3 DEF Ids, BarInv
    <3>4. mtab'[bar[j].id] = mtab[bar[j].id]
      BY <1>2, <3>1, <3>3
    <3> QED
      BY <3>1, <3>2, <3>4 DEF TabSound
  <2> QED
    BY <2>1, <2>2
<1>4. Ids(tabs)' = Ids(tabs')
  BY DEF Ids
<1> QED
  BY <1>1, <1>3, <1>4 DEF BarInv

(* Without closes nothing else, and the manager's tabs keep their type. *)
LEMMA WithoutType ==
    ASSUME BenchType, NEW ids, mtab' = Without(ids)
    PROVE  /\ DOMAIN mtab' \subseteq Tab
           /\ mtab' \in [DOMAIN mtab' -> [of : Session, held : BOOLEAN]]
  BY DEF BenchType, Without

(* The tabs of a session that Emit tells of take its state. *)
LEMMA MarkedProperties ==
    ASSUME BenchType, NEW s \in Session, NEW state \in {"connected", "reconnecting", "closed"}
    PROVE  /\ Marked(s, state) \in Seq(TabType)
           /\ DOMAIN Marked(s, state) = DOMAIN tabs
           /\ \A i \in DOMAIN tabs :
                /\ Marked(s, state)[i].id = tabs[i].id /\ Marked(s, state)[i].of = tabs[i].of
                /\ tabs[i].of = s => Marked(s, state)[i].state = TabState(state)
                /\ tabs[i].of # s => Marked(s, state)[i] = tabs[i]
           /\ Ids(Marked(s, state)) = Ids(tabs)
           /\ Marked(s, state) = <<>> <=> tabs = <<>>
<1> DEFINE new == Marked(s, state)
<1>1. tabs \in Seq(TabType) /\ \A i \in DOMAIN tabs : tabs[i] \in TabType
  BY DEF BenchType
<1>2. TabState(state) \in {"live", "reconnecting", "closed"}
  BY DEF TabState
<1>3. /\ DOMAIN new = DOMAIN tabs
      /\ \A i \in DOMAIN tabs :
            new[i] = IF tabs[i].of = s THEN [tabs[i] EXCEPT !.state = TabState(state)] ELSE tabs[i]
  BY DEF Marked
<1> HIDE DEF new
<1>4. \A i \in DOMAIN tabs :
        /\ new[i] \in TabType /\ new[i].id = tabs[i].id /\ new[i].of = tabs[i].of
        /\ tabs[i].of = s => new[i].state = TabState(state)
        /\ tabs[i].of # s => new[i] = tabs[i]
  BY <1>1, <1>2, <1>3 DEF TabType
<1>5. new \in Seq(TabType)
  <2>1. Len(tabs) \in Nat /\ DOMAIN tabs = 1..Len(tabs)
    BY <1>1
  <2>2. new = [i \in 1..Len(tabs) |-> new[i]]
    BY <2>1 DEF new, Marked
  <2> QED
    BY <1>4, <2>1, <2>2, IsASeq
<1>6. Ids(new) = Ids(tabs)
  BY <1>3, <1>4 DEF Ids
<1>7. new = <<>> <=> tabs = <<>>
  BY <1>1, <1>3, <1>5, EmptyDomain
<1> QED
  BY <1>3, <1>4, <1>5, <1>6, <1>7 DEF new

(* A session that is connected, dropped or connected again: the bar hears of it, or it has
   none of its tabs, or it missed something. *)
LEMMA BarEmitted ==
    ASSUME BenchType, BarInv, NEW s \in Session, NEW state \in {"connected", "reconnecting"},
           sess' = [sess EXCEPT ![s] = state], Emit(s, state), UNCHANGED <<active, ui>>,
           DOMAIN mtab' = DOMAIN mtab,
           \A t \in DOMAIN mtab :
               /\ mtab'[t].of = mtab[t].of
               /\ mtab[t].of # s => mtab'[t].held = mtab[t].held
               /\ mtab[t].of = s /\ sess[s] \in {"connected", "reconnecting"} =>
                      (mtab'[t].held <=> state = "reconnecting")
    PROVE  BarInv'
<1>1. /\ DOMAIN tabs' = DOMAIN tabs /\ Ids(tabs') = Ids(tabs) /\ (tabs' = <<>> <=> tabs = <<>>)
      /\ Listening => tabs' = Marked(s, state)
      /\ ~Listening => tabs' = tabs
  BY MarkedProperties DEF Emit
<1>2. ASSUME ~missed'
      PROVE  /\ ui' # "dead" /\ Ids(tabs') = DOMAIN mtab'
             /\ \A i \in DOMAIN tabs' : TabSound(tabs'[i], sess', mtab')
  <2>1. ~missed /\ (Listening \/ \A i \in DOMAIN tabs : tabs[i].of # s)
    BY <1>2 DEF Emit
  <2>2. ASSUME NEW i \in DOMAIN tabs PROVE TabSound(tabs'[i], sess', mtab')
    <3>1. TabSound(tabs[i], sess, mtab) /\ tabs[i].id \in DOMAIN mtab
      BY <2>1 DEF BarInv, Ids
    <3>2. tabs[i] \in TabType
      BY DEF BenchType
    <3>3. tabs[i].of \in Session
      BY <3>2 DEF TabType
    <3>4. CASE tabs[i].of # s
      <4>1. tabs'[i] = tabs[i]
        BY <1>1, <3>4, MarkedProperties
      <4>2. sess'[tabs[i].of] = sess[tabs[i].of]
        BY <3>3, <3>4 DEF BenchType
      <4> QED
        BY <3>1, <3>4, <4>1, <4>2 DEF TabSound
    <3>5. CASE tabs[i].of = s
      <4>1. /\ tabs'[i].id = tabs[i].id /\ tabs'[i].of = tabs[i].of
            /\ tabs'[i].state = TabState(state)
        BY <1>1, <2>1, <3>5, MarkedProperties
      <4>2. sess'[s] = state
        BY DEF BenchType
      <4>3. mtab[tabs[i].id].of = s /\ sess[s] \in {"connected", "reconnecting"}
        BY <3>1, <3>5 DEF TabSound
      <4> QED
        BY <3>1, <3>5, <4>1, <4>2, <4>3 DEF TabSound
    <3> QED
      BY <3>4, <3>5
  <2> QED
    BY <1>1, <2>1, <2>2 DEF BarInv
<1>3. Ids(tabs)' = Ids(tabs')
  BY DEF Ids
<1> QED
  BY <1>1, <1>2, <1>3 DEF BarInv

LEMMA BenchTypeKept == BenchType /\ BarInv /\ [BenchNext]_wbVars => BenchType'
<1> SUFFICES ASSUME BenchType, BarInv, [BenchNext]_wbVars PROVE BenchType'
  OBVIOUS
<1> USE DEF BenchType
<1>1. ASSUME NEW s \in Session, Connect(s) \/ ConnectFails(s) \/ TabOpenFails(s) PROVE BenchType'
  BY <1>1 DEF Connect, ConnectFails, TabOpenFails, barVars, SessionState
<1>2. ASSUME NEW s \in Session, Connected(s) \/ SessionDrops(s) \/ Reconnected(s) PROVE BenchType'
  <2>1. PICK state \in {"connected", "reconnecting"} : Emit(s, state) /\ sess' = [sess EXCEPT ![s] = state]
    BY <1>2 DEF Connected, SessionDrops, Reconnected
  <2>2. tabs' \in Seq(TabType) /\ missed' \in BOOLEAN
    BY <2>1, MarkedProperties DEF Emit
  <2>3. opening' \subseteq Session /\ active' = active
    BY <1>2 DEF Connected, SessionDrops, Reconnected
  <2>4. sess' \in [Session -> SessionState]
    BY <2>1 DEF SessionState
  <2>5. DOMAIN mtab' = DOMAIN mtab /\ mtab' \in [DOMAIN mtab -> [of : Session, held : BOOLEAN]]
    <3>1. CASE Connected(s)
      BY <3>1 DEF Connected
    <3>2. CASE SessionDrops(s) \/ Reconnected(s)
      <4>1. PICK h \in BOOLEAN :
              mtab' = [t \in DOMAIN mtab |-> IF mtab[t].of = s THEN [mtab[t] EXCEPT !.held = h] ELSE mtab[t]]
        BY <3>2 DEF SessionDrops, Reconnected
      <4> QED
        BY <4>1
    <3> QED
      BY <1>2, <3>1, <3>2
  <2> QED
    BY <2>2, <2>3, <2>4, <2>5
<1>3. ASSUME NEW s \in Session, Exhausted(s) PROVE BenchType'
  <2> DEFINE held == {t \in TabsOf(s) : mtab[t].held}
             bar == Marked(s, "closed")
  <2>1. /\ sess' = [sess EXCEPT ![s] = "gone"] /\ mtab' = Without(held) /\ opening' = opening
        /\ TabsClosed(bar, held)
    BY <1>3 DEF Exhausted
  <2>2. bar \in Seq(TabType) /\ Ids(bar) = Ids(tabs) /\ (bar = <<>> <=> tabs = <<>>)
    BY MarkedProperties
  <2> HIDE DEF bar, held
  <2>3. /\ tabs' \in Seq(TabType) /\ missed' \in BOOLEAN
        /\ active' = {} \/ \E t \in Tab : active' = {t}
    <3>1. CASE Listening
      BY <2>1, <2>2, <3>1, CloseInBarProperties DEF TabsClosed, BarInv
    <3>2. CASE ~Listening
      BY <2>1, <3>2 DEF TabsClosed, barVars
    <3> QED
      BY <3>1, <3>2
  <2>4. sess' \in [Session -> SessionState]
    BY <2>1 DEF SessionState
  <2> QED
    BY <2>1, <2>3, <2>4, WithoutType
<1>4. ASSUME NEW s \in Session, NEW t \in Tab, TabOpens(s, t) PROVE BenchType'
  <2>1. [id |-> t, of |-> s, state |-> "live"] \in TabType
    BY DEF TabType
  <2>2. tabs' \in Seq(TabType)
    BY <1>4, <2>1 DEF TabOpens
  <2>3. /\ DOMAIN mtab' \subseteq Tab /\ mtab' \in [DOMAIN mtab' -> [of : Session, held : BOOLEAN]]
    BY <1>4 DEF TabOpens
  <2> QED
    BY <1>4, <2>2, <2>3 DEF TabOpens
<1>5. ASSUME NEW t \in Tab, Exit(t) \/ CloseTab(t) PROVE BenchType'
  <2>1. mtab' = Without({t}) /\ sess' = sess /\ opening' = opening
    BY <1>5 DEF Exit, CloseTab
  <2>2. \/ CloseInBar(tabs, {t}) /\ missed' = missed
        \/ UNCHANGED barVars /\ missed' \in BOOLEAN
    BY <1>5 DEF Exit, CloseTab, TabsClosed
  <2>3. /\ tabs' \in Seq(TabType) /\ missed' \in BOOLEAN
        /\ active' = {} \/ \E u \in Tab : active' = {u}
    BY <2>2, CloseInBarProperties DEF BarInv, barVars
  <2> QED
    BY <2>1, <2>3, WithoutType
<1>6. ASSUME NEW t \in Tab, Output(t) \/ Activate(t) \/ Mount(t) PROVE BenchType'
  BY <1>6 DEF Output, Activate, Mount, managerVars
<1>7. ASSUME NEW name, ShowPanel(name) \/ OpenForm \/ CloseForm PROVE BenchType'
  BY <1>7 DEF ShowPanel, OpenForm, CloseForm, managerVars, barVars
<1>8. CASE UNCHANGED wbVars
  BY <1>8 DEF wbVars
<1> QED
  BY <1>1, <1>2, <1>3, <1>4, <1>5, <1>6, <1>7, <1>8 DEF BenchNext

(* The panels. *)
LEMMA PanelKept == BenchType /\ PanelInv /\ [BenchNext]_wbVars => PanelInv'
<1> SUFFICES ASSUME BenchType, PanelInv, [BenchNext]_wbVars PROVE PanelInv'
  OBVIOUS
<1> USE DEF PanelInv
<1>0. sess \in [Session -> SessionState]
  BY DEF BenchType
<1>1. ASSUME NEW s \in Session, Connect(s) PROVE PanelInv'
  BY <1>1 DEF Connect
<1>2. ASSUME NEW s \in Session, Connected(s) \/ Reconnected(s) PROVE PanelInv'
  <2>1. /\ sess' = [sess EXCEPT ![s] = "connected"] /\ PanelsHear(s, "connected")
        /\ UNCHANGED <<ui, panel>>
    BY <1>2 DEF Connected, Reconnected, Emit
  <2>2. OpenSessions' = OpenSessions \cup {s}
    BY <1>0, <2>1 DEF OpenSessions
  <2> QED
    BY <2>1, <2>2 DEF PanelsHear, Listening
<1>3. ASSUME NEW s \in Session, SessionDrops(s) PROVE PanelInv'
  <2>1. /\ sess' = [sess EXCEPT ![s] = "reconnecting"] /\ sess[s] = "connected"
        /\ PanelsHear(s, "reconnecting") /\ UNCHANGED <<ui, panel>>
    BY <1>3 DEF SessionDrops, Emit
  <2>2. OpenSessions' = OpenSessions
    BY <1>0, <2>1 DEF OpenSessions
  <2> QED
    BY <2>1, <2>2 DEF PanelsHear
<1>4. ASSUME NEW s \in Session, Exhausted(s) PROVE PanelInv'
  <2>1. /\ sess' = [sess EXCEPT ![s] = "gone"]
        /\ PanelsHear(s, "closed") /\ UNCHANGED <<ui, panel>>
    BY <1>4 DEF Exhausted
  <2>2. OpenSessions' = OpenSessions \ {s}
    BY <1>0, <2>1 DEF OpenSessions
  <2> QED
    BY <2>1, <2>2 DEF PanelsHear, Listening
<1>5. ASSUME NEW s \in Session, ConnectFails(s) PROVE PanelInv'
  <2>1. OpenSessions' = OpenSessions
    BY <1>0, <1>5 DEF ConnectFails, OpenSessions
  <2> QED
    BY <1>5, <2>1 DEF ConnectFails, panelVars
<1>6. ASSUME UNCHANGED <<sess, panelVars>> PROVE PanelInv'
  BY <1>6 DEF panelVars, OpenSessions
<1>7. ASSUME NEW t \in Tab, Mount(t) PROVE PanelInv'
  <2>1. CASE t \in DOMAIN mtab
    BY <1>6, <1>7, <2>1 DEF Mount, managerVars
  <2>2. CASE t \notin DOMAIN mtab
    BY <1>7, <2>2 DEF Mount
  <2> QED
    BY <2>1, <2>2
<1>8. ASSUME NEW name, ShowPanel(name) PROVE PanelInv'
  <2>1. OpenSessions' = OpenSessions
    BY <1>8 DEF ShowPanel, managerVars, OpenSessions
  <2>2. CASE ui = "tabs"
    BY <1>8, <2>1, <2>2 DEF ShowPanel, PanelsMount
  <2>3. CASE ui # "tabs"
    BY <1>8, <2>1, <2>3 DEF ShowPanel
  <2> QED
    BY <2>2, <2>3
<1>9. CASE OpenForm
  BY <1>9 DEF OpenForm
<1>10. CASE CloseForm
  <2>1. OpenSessions' = OpenSessions
    BY <1>10 DEF CloseForm, managerVars, OpenSessions
  <2> QED
    BY <1>10, <2>1 DEF CloseForm, PanelsMount
<1>11. ASSUME NEW s \in Session, NEW t \in Tab, TabOpens(s, t) PROVE PanelInv'
  BY <1>6, <1>11 DEF TabOpens
<1>12. CASE UNCHANGED wbVars
  BY <1>6, <1>12 DEF wbVars, panelVars
<1>13. ASSUME NEW s \in Session, TabOpenFails(s) PROVE PanelInv'
  BY <1>6, <1>13 DEF TabOpenFails
<1>14. ASSUME NEW t \in Tab, Exit(t) \/ Output(t) \/ CloseTab(t) \/ Activate(t) PROVE PanelInv'
  BY <1>6, <1>14 DEF Exit, Output, CloseTab, Activate, managerVars
<1> QED
  BY <1>1, <1>2, <1>3, <1>4, <1>5, <1>7, <1>8, <1>9, <1>10, <1>11, <1>12, <1>13, <1>14 DEF BenchNext

(* The bar. *)
LEMMA BarOpened ==
    ASSUME BenchType, BarInv, NEW s \in Session, NEW t \in Tab, TabOpens(s, t) PROVE BarInv'
<1> DEFINE tab == [id |-> t, of |-> s, state |-> "live"]
<1>1. /\ tabs' = Append(tabs, tab) /\ active' = {t} /\ sess' = sess /\ ui' = ui
      /\ missed' = (missed \/ sess[s] # "connected") /\ t \notin DOMAIN mtab \cup Ids(tabs)
      /\ mtab' = [u \in DOMAIN mtab \cup {t} |-> IF u = t THEN [of |-> s, held |-> FALSE] ELSE mtab[u]]
  BY DEF TabOpens, panelVars
<1>2. tabs \in Seq(TabType) /\ Len(tabs) \in Nat /\ tab \in TabType
  BY DEF BenchType, TabType
<1>3. /\ \A i : i \in DOMAIN tabs' <=> i \in DOMAIN tabs \/ i = Len(tabs) + 1
      /\ \A i \in DOMAIN tabs : tabs'[i] = tabs[i]
      /\ tabs'[Len(tabs) + 1] = tab
  BY <1>1, <1>2
<1>4. Ids(tabs') = Ids(tabs) \cup {t} /\ tabs' # <<>>
  <2>1. Len(tabs) + 1 \in DOMAIN tabs'
    BY <1>3
  <2>2. tab.id = t
    OBVIOUS
  <2>3. tabs' # <<>>
    BY <2>1
  <2>4. Ids(tabs') \subseteq Ids(tabs) \cup {t}
    BY <1>3, <2>2 DEF Ids
  <2>5. Ids(tabs) \cup {t} \subseteq Ids(tabs')
    BY <1>3, <2>1, <2>2 DEF Ids
  <2> QED
    BY <2>3, <2>4, <2>5
<1>5. ASSUME ~missed'
      PROVE  /\ ui' # "dead" /\ Ids(tabs') = DOMAIN mtab'
             /\ \A i \in DOMAIN tabs' : TabSound(tabs'[i], sess', mtab')
  <2>1. ~missed /\ sess[s] = "connected"
    BY <1>1, <1>5
  <2>2. /\ DOMAIN mtab' = DOMAIN mtab \cup {t} /\ mtab'[t] = [of |-> s, held |-> FALSE]
        /\ \A u \in DOMAIN mtab : mtab'[u] = mtab[u]
    BY <1>1
  <2>3. ASSUME NEW i \in DOMAIN tabs PROVE TabSound(tabs'[i], sess', mtab')
    <3>1. TabSound(tabs[i], sess, mtab) /\ tabs[i].id \in DOMAIN mtab
      BY <2>1 DEF BarInv, Ids
    <3> QED
      BY <1>1, <1>3, <2>2, <3>1 DEF TabSound
  <2>4. TabSound(tab, sess', mtab')
    BY <1>1, <2>1, <2>2 DEF TabSound, TabState
  <2> QED
    BY <1>1, <1>3, <1>4, <2>1, <2>2, <2>3, <2>4 DEF BarInv
<1>6. Ids(tabs)' = Ids(tabs')
  BY DEF Ids
<1> QED
  BY <1>1, <1>4, <1>5, <1>6 DEF BarInv

(* The delays of a rebuild are used up: it held every tab of its session. *)
LEMMA BarExhausted ==
    ASSUME BenchType, BarInv, NEW s \in Session, Exhausted(s) PROVE BarInv'
<1> DEFINE held == {t \in TabsOf(s) : mtab[t].held}
           bar == Marked(s, "closed")
<1>1. /\ sess[s] = "reconnecting" /\ sess' = [sess EXCEPT ![s] = "gone"] /\ mtab' = Without(held)
      /\ TabsClosed(bar, held) /\ ui' = ui
  BY DEF Exhausted
<1>2. /\ bar \in Seq(TabType) /\ Ids(bar) = Ids(tabs) /\ (bar = <<>> <=> tabs = <<>>)
      /\ DOMAIN bar = DOMAIN tabs
      /\ \A i \in DOMAIN tabs : bar[i].id = tabs[i].id /\ (tabs[i].of # s => bar[i] = tabs[i])
  BY MarkedProperties
<1> HIDE DEF bar
<1>3. ASSUME ~missed, NEW i \in DOMAIN tabs, tabs[i].id \notin held
      PROVE  tabs[i].of # s /\ TabSound(tabs[i], sess', mtab)
  <2>1. TabSound(tabs[i], sess, mtab) /\ tabs[i].id \in DOMAIN mtab
    BY <1>3 DEF BarInv, Ids
  <2>2. tabs[i].of # s
    BY <1>1, <1>3, <2>1 DEF TabSound, TabsOf
  <2>3. tabs[i] \in TabType
    BY DEF BenchType
  <2>4. sess'[tabs[i].of] = sess[tabs[i].of]
    BY <1>1, <2>2, <2>3 DEF BenchType, TabType
  <2> QED
    BY <2>1, <2>2, <2>4 DEF TabSound
<1>4. CASE Listening
  <2>1. CloseInBar(bar, held) /\ missed' = missed
    BY <1>1, <1>4 DEF TabsClosed
  <2>2. ASSUME NEW i \in DOMAIN bar, ~missed, bar[i].id \notin held
        PROVE  TabSound(bar[i], sess', mtab)
    BY <1>2, <1>3, <2>2
  <2> HIDE DEF held
  <2> QED
    BY <1>1, <1>2, <2>1, <2>2, BarClosed
<1>5. CASE ~Listening
  <2>1. UNCHANGED barVars /\ missed' = (missed \/ held # {})
    BY <1>1, <1>5 DEF TabsClosed
  <2>2. Ids(tabs)' = Ids(tabs) /\ tabs' = tabs /\ active' = active
    BY <2>1 DEF barVars, Ids
  <2>3. ASSUME ~missed'
        PROVE  /\ Ids(tabs) = DOMAIN mtab' /\ ui' # "dead"
               /\ \A i \in DOMAIN tabs : TabSound(tabs[i], sess', mtab')
    <3>1. ~missed /\ held = {}
      BY <2>1, <2>3
    <3>2. mtab' = Without({})
      BY <1>1, <3>1
    <3>3. DOMAIN mtab' = DOMAIN mtab /\ \A u \in DOMAIN mtab : mtab'[u] = mtab[u]
      BY <3>2 DEF Without
    <3>4. ASSUME NEW i \in DOMAIN tabs PROVE TabSound(tabs[i], sess', mtab')
      <4>1. TabSound(tabs[i], sess', mtab)
        BY <1>3, <3>1
      <4>2. tabs[i].id \in DOMAIN mtab
        BY <3>1 DEF BarInv, Ids
      <4> QED
        BY <3>3, <4>1, <4>2 DEF TabSound
    <3> QED
      BY <1>1, <3>1, <3>3, <3>4 DEF BarInv
  <2> QED
    BY <2>2, <2>3 DEF BarInv
<1> QED
  BY <1>4, <1>5

LEMMA BarStep == BenchType /\ BarInv /\ [BenchNext]_wbVars => BarInv'
<1> SUFFICES ASSUME BenchType, BarInv, [BenchNext]_wbVars PROVE BarInv'
  OBVIOUS
<1>0. sess \in [Session -> SessionState]
  BY DEF BenchType
<1>1. ASSUME NEW s \in Session, Connect(s) \/ ConnectFails(s) \/ TabOpenFails(s) PROVE BarInv'
  <2>1. UNCHANGED <<mtab, tabs, active, missed, ui>>
    BY <1>1 DEF Connect, ConnectFails, TabOpenFails, barVars, panelVars
  <2>2. \A r \in Session : sess[r] \in {"connected", "reconnecting"} => sess'[r] = sess[r]
    BY <1>0, <1>1 DEF Connect, ConnectFails, TabOpenFails
  <2> QED
    BY <2>1, <2>2, BarKept
<1>2. ASSUME NEW s \in Session, Connected(s) PROVE BarInv'
  BY <1>2, BarEmitted DEF Connected
<1>3. ASSUME NEW s \in Session, SessionDrops(s) PROVE BarInv'
  <2>1. \A t \in DOMAIN mtab : mtab[t] \in [of : Session, held : BOOLEAN]
    BY DEF BenchType
  <2>2. /\ DOMAIN mtab' = DOMAIN mtab
        /\ \A t \in DOMAIN mtab :
            /\ mtab'[t].of = mtab[t].of
            /\ mtab[t].of # s => mtab'[t].held = mtab[t].held
            /\ mtab[t].of = s /\ sess[s] \in {"connected", "reconnecting"} =>
                   (mtab'[t].held <=> "reconnecting" = "reconnecting")
    BY <1>3, <2>1 DEF SessionDrops
  <2> QED
    <3>1. /\ sess' = [sess EXCEPT ![s] = "reconnecting"] /\ Emit(s, "reconnecting")
          /\ UNCHANGED <<active, ui>> /\ "reconnecting" \in {"connected", "reconnecting"}
      BY <1>3 DEF SessionDrops
    <3> QED
      BY <2>2, <3>1, BarEmitted
<1>4. ASSUME NEW s \in Session, Reconnected(s) PROVE BarInv'
  <2>1. \A t \in DOMAIN mtab : mtab[t] \in [of : Session, held : BOOLEAN]
    BY DEF BenchType
  <2>2. /\ DOMAIN mtab' = DOMAIN mtab
        /\ \A t \in DOMAIN mtab :
            /\ mtab'[t].of = mtab[t].of
            /\ mtab[t].of # s => mtab'[t].held = mtab[t].held
            /\ mtab[t].of = s /\ sess[s] \in {"connected", "reconnecting"} =>
                   (mtab'[t].held <=> "connected" = "reconnecting")
    BY <1>4, <2>1 DEF Reconnected
  <2> QED
    <3>1. /\ sess' = [sess EXCEPT ![s] = "connected"] /\ Emit(s, "connected")
          /\ UNCHANGED <<active, ui>> /\ "connected" \in {"connected", "reconnecting"}
      BY <1>4 DEF Reconnected
    <3> QED
      BY <2>2, <3>1, BarEmitted
<1>5. ASSUME NEW s \in Session, Exhausted(s) PROVE BarInv'
  BY <1>5, BarExhausted
<1>6. ASSUME NEW s \in Session, NEW t \in Tab, TabOpens(s, t) PROVE BarInv'
  BY <1>6, BarOpened
<1>7. ASSUME NEW t \in Tab, CloseTab(t) \/ Exit(t), CloseInBar(tabs, {t}), missed' = missed PROVE BarInv'
  <2>1. tabs \in Seq(TabType) /\ mtab' = Without({t}) /\ sess' = sess /\ ui' = ui
    BY <1>7 DEF CloseTab, Exit, BenchType, panelVars
  <2>2. \A i \in DOMAIN tabs : ~missed => TabSound(tabs[i], sess', mtab)
    BY <2>1 DEF BarInv
  <2> QED
    BY <1>7, <2>1, <2>2, BarClosed
<1>8. ASSUME NEW t \in Tab, Exit(t) PROVE BarInv'
  <2>1. CASE Listening
    BY <1>7, <1>8, <2>1 DEF Exit, TabsClosed
  <2>2. CASE ~Listening
    <3>1. UNCHANGED <<tabs, active>> /\ missed'
      BY <1>8, <2>2 DEF Exit, TabsClosed, barVars
    <3> QED
      BY <3>1 DEF BarInv, Ids
  <2> QED
    BY <2>1, <2>2
<1>9. ASSUME NEW t \in Tab, CloseTab(t) PROVE BarInv'
  BY <1>7, <1>9 DEF CloseTab
<1>10. ASSUME NEW t \in Tab, Output(t) PROVE BarInv'
  BY <1>10, BarKept DEF Output, managerVars, panelVars
<1>11. ASSUME NEW t \in Tab, Activate(t) PROVE BarInv'
  <2>1. active' = {t} /\ t \in Ids(tabs) /\ UNCHANGED <<sess, mtab, tabs, missed, ui>>
    BY <1>11 DEF Activate, managerVars, panelVars
  <2>2. tabs # <<>>
    BY <2>1 DEF Ids
  <2> QED
    BY <2>1, <2>2 DEF BarInv, Ids, TabSound, TabState
<1>12. ASSUME NEW t \in Tab, Mount(t) PROVE BarInv'
  <2>1. CASE t \in DOMAIN mtab
    BY <1>12, <2>1, BarKept DEF Mount, managerVars, panelVars
  <2>2. CASE t \notin DOMAIN mtab
    <3>1. missed
      BY <1>12, <2>2 DEF Mount, BarInv
    <3> QED
      BY <1>12, <3>1 DEF Mount, BarInv, Ids
  <2> QED
    BY <2>1, <2>2
<1>13. ASSUME NEW name, ShowPanel(name) PROVE BarInv'
  BY <1>13, BarKept DEF ShowPanel, managerVars, barVars
<1>14. CASE OpenForm
  BY <1>14, BarKept DEF OpenForm, managerVars
<1>15. CASE CloseForm
  BY <1>15, BarKept DEF CloseForm, managerVars, barVars
<1>16. CASE UNCHANGED wbVars
  BY <1>16, BarKept DEF wbVars
<1> QED
  BY <1>1, <1>2, <1>3, <1>4, <1>5, <1>6, <1>8, <1>9, <1>10, <1>11, <1>12, <1>13, <1>14, <1>15, <1>16 DEF BenchNext

LEMMA BenchAlways == BenchSpec => []BenchInv
<1>1. BenchInv /\ [BenchNext]_wbVars => BenchInv'
  BY BenchTypeKept, PanelKept, BarStep DEF BenchInv
<1> QED
  BY <1>1, BenchInitInv, PTL DEF BenchSpec

(* As long as the bar missed nothing it has the manager's tabs, each in the state of its
   session, and an active one if it has any; and the page is alive. *)
THEOREM BarFollows == BenchSpec => []BarMirrors
<1>1. BenchInv => BarMirrors
  BY DEF BenchInv, BarInv, BarMirrors, TabSound
<1> QED
  BY <1>1, BenchAlways, PTL

(* A panel never works on a session that is gone. *)
THEOREM PanelsFollow == BenchSpec => []PanelsOnOpenSessions
<1>1. BenchInv => PanelsOnOpenSessions
  BY DEF BenchInv, PanelInv, PanelsOnOpenSessions
<1> QED
  BY <1>1, BenchAlways, PTL

----------------------------------------------------------------------------
(* The file browser (FileBrowser). *)

CallRecord ==
    [kind : {"list", "mkdir", "remove", "enqueue"}, side : Side \cup {"none"}, dir : Dir,
     name : SUBSET Name, out : {"waiting", "ok", "failed"}, entries : SUBSET Name]
StoreRecord == [dir : Dir, entries : SUBSET Name, loading : BOOLEAN, error : BOOLEAN]
CallSound(call) ==
    /\ call = NoCall \/ call \in CallRecord
    /\ call.kind \notin {"none", "enqueue"} => call.side \in Side
    /\ call.kind \in {"mkdir", "remove"} => call.side = "remote"
    /\ call.kind = "enqueue" => call.out = "ok"
BrowserType ==
    /\ disk \in [Side -> [Dir -> SUBSET Name]]
    /\ late \in [Side -> [Dir -> SUBSET Name]]
    /\ moving \subseteq File
    /\ store \in [Side -> StoreRecord]
    /\ DOMAIN calls = Call /\ \A k \in Call : CallSound(calls[k])
    /\ source \in [Pane -> Side]
    /\ confirming \in [Pane -> SUBSET Name]
    /\ crossed \subseteq Side

(* A store that loads has a listing under way; a side whose calls did not overlap has one
   call under way at most, and its panes show what is there but for what came late, or
   that call, as a listing that has run, has it. *)
Timely(side, dir) == disk[side][dir] \ late[side][dir]
Loads(side) == \E k \in Call : calls[k].kind = "list" /\ calls[k].side = side
SideSound(side) ==
    /\ \A k, l \in Under(side) : k = l
    /\ Under(side) = {} => store[side].error \/ store[side].entries = Timely(side, store[side].dir)
    /\ \A k \in Under(side) :
        calls[k].kind = "list" /\ calls[k].out = "ok" => calls[k].entries = Timely(side, calls[k].dir)
BrowserInv ==
    /\ BrowserType
    /\ \A side \in Side : store[side].loading => Loads(side)
    /\ \A side \in Side \ crossed : SideSound(side)

LEMMA BrowserInitInv == BrowserInit => BrowserInv
<1> SUFFICES ASSUME BrowserInit PROVE BrowserInv
  OBVIOUS
<1>1. PICK k \in Call, l \in Call :
        /\ k # l
        /\ calls = [c \in Call |-> CASE c = k -> Ask("list", "remote", "home", {})
                                     [] c = l -> Ask("list", "local", "home", {})
                                     [] OTHER -> NoCall]
  BY DEF BrowserInit
<1>2. /\ calls[k] = Ask("list", "remote", "home", {}) /\ calls[l] = Ask("list", "local", "home", {})
      /\ \A c \in Call \ {k, l} : calls[c] = NoCall
      /\ DOMAIN calls = Call
  BY <1>1
<1>3. \A s \in Side : /\ Ask("list", s, "home", {}) \in CallRecord
                      /\ Ask("list", s, "home", {}).kind = "list" /\ Ask("list", s, "home", {}).side = s
                      /\ Ask("list", s, "home", {}).out = "waiting"
  BY DEF Ask, CallRecord, Side, Dir
<1>4. NoCall.kind = "none"
  BY DEF NoCall
<1>5. \A c \in Call : CallSound(calls[c])
  <2> TAKE c \in Call
  <2>1. CASE c = k
    BY <1>2, <1>3, <2>1 DEF CallSound, Side
  <2>2. CASE c = l
    BY <1>2, <1>3, <2>2 DEF CallSound, Side
  <2>3. CASE c \notin {k, l}
    BY <1>2, <1>4, <2>3 DEF CallSound
  <2> QED
    BY <2>1, <2>2, <2>3
<1>6. Under("remote") = {k} /\ Under("local") = {l}
  BY <1>1, <1>2, <1>3, <1>4 DEF Under, Side
<1>7. \A side \in Side : Loads(side) /\ SideSound(side)
  <2>1. Loads("remote") /\ Loads("local")
    BY <1>2, <1>3 DEF Loads, Side
  <2>2. SideSound("remote")
    BY <1>2, <1>3, <1>6 DEF SideSound, Side
  <2>3. SideSound("local")
    BY <1>2, <1>3, <1>6 DEF SideSound, Side
  <2> QED
    BY <2>1, <2>2, <2>3 DEF Side
<1>8. /\ disk \in [Side -> [Dir -> SUBSET Name]] /\ store \in [Side -> StoreRecord]
      /\ late \in [Side -> [Dir -> SUBSET Name]] /\ moving \subseteq File
      /\ source \in [Pane -> Side] /\ confirming \in [Pane -> SUBSET Name] /\ crossed = {}
  BY DEF BrowserInit, StoreRecord, Dir, Pane, Side
<1> QED
  BY <1>2, <1>5, <1>7, <1>8 DEF BrowserInv, BrowserType

(* What a step does to the calls under way on a side. *)
LEMMA UnderAfter ==
    ASSUME BrowserType, NEW k \in Call, NEW call, calls' = [calls EXCEPT ![k] = call]
    PROVE  /\ calls'[k] = call /\ DOMAIN calls' = Call
           /\ \A l \in Call : l # k => calls'[l] = calls[l]
  BY DEF BrowserType

LEMMA UnderJoined ==
    ASSUME BrowserType, NEW k \in Call, NEW call, calls' = [calls EXCEPT ![k] = call],
           NEW side, call.kind \notin {"none", "enqueue"}, call.side = side
    PROVE  Under(side)' = Under(side) \cup {k}
  BY DEF BrowserType, Under

LEMMA UnderLeft ==
    ASSUME BrowserType, NEW k \in Call, NEW call, calls' = [calls EXCEPT ![k] = call],
           NEW side, call.kind \in {"none", "enqueue"} \/ call.side # side
    PROVE  Under(side)' = Under(side) \ {k}
  BY DEF BrowserType, Under

(* A step that changes none of what a store shows, beside the calls in slot k that are not
   on any side. *)
LEMMA Aside ==
    ASSUME BrowserInv, NEW k \in Call, NEW call, calls' = [calls EXCEPT ![k] = call], CallSound(call),
           calls[k].kind \in {"none", "enqueue"}, call.kind \in {"none", "enqueue"},
           UNCHANGED <<disk, late, store, crossed>>, moving' \subseteq File,
           source' \in [Pane -> Side], confirming' \in [Pane -> SUBSET Name]
    PROVE  BrowserInv'
<1>1. BrowserType
  BY DEF BrowserInv
<1>2. ASSUME NEW side PROVE Under(side)' = Under(side)
  BY <1>1, UnderAfter DEF Under
<1>3. \A l \in Call : l # k => calls'[l] = calls[l]
  BY <1>1, UnderAfter
<1>4. BrowserType'
  BY <1>1, <1>3, UnderAfter DEF BrowserType
<1>5. ASSUME NEW side PROVE Loads(side) => Loads(side)'
  BY <1>3 DEF Loads
<1>6. ASSUME NEW side, SideSound(side) PROVE SideSound(side)'
  <2>1. k \notin Under(side)
    BY DEF Under
  <2> QED
    BY <1>2, <1>3, <1>6, <2>1 DEF SideSound, Under, Timely
<1> QED
  BY <1>4, <1>5, <1>6 DEF BrowserInv

LEMMA Elsewhere ==
    ASSUME BrowserInv, UNCHANGED <<disk, moving, late, store, calls, crossed>>,
           source' \in [Pane -> Side], confirming' \in [Pane -> SUBSET Name]
    PROVE  BrowserInv'
  BY DEF BrowserInv, BrowserType, Loads, SideSound, Under, Timely

(* A file that a transfer writes is late, or was there. *)
LEMMA LandsKept == ASSUME BrowserInv, NEW target \in File, Lands(target) PROVE BrowserInv'
<1> DEFINE side == target.side
           dir == target.dir
           name == target.name
<1>1. /\ UNCHANGED <<store, calls, source, confirming, crossed>> /\ BrowserType
      /\ disk' = [disk EXCEPT ![side][dir] = @ \cup {name}]
      /\ late' = [late EXCEPT ![side][dir] = @ \cup ({name} \ disk[side][dir])]
      /\ moving' \subseteq File
  BY DEF Lands, BrowserInv, BrowserType
<1>2. side \in Side /\ dir \in Dir /\ name \in Name
  BY DEF File
<1> HIDE DEF side, dir, name
<1>3. /\ disk \in [Side -> [Dir -> SUBSET Name]] /\ late \in [Side -> [Dir -> SUBSET Name]]
      /\ disk' \in [Side -> [Dir -> SUBSET Name]] /\ late' \in [Side -> [Dir -> SUBSET Name]]
  BY <1>1, <1>2 DEF BrowserType
<1>4. ASSUME NEW s \in Side, NEW d \in Dir PROVE Timely(s, d)' = Timely(s, d)
  <2>1. CASE s = side /\ d = dir
    <3>1. /\ disk'[s][d] = disk[s][d] \cup {name}
          /\ late'[s][d] = late[s][d] \cup ({name} \ disk[s][d])
      BY <1>1, <1>2, <1>3, <2>1
    <3> QED
      BY <3>1 DEF Timely
  <2>2. CASE ~(s = side /\ d = dir)
    <3>1. disk'[s][d] = disk[s][d] /\ late'[s][d] = late[s][d]
      BY <1>1, <1>2, <1>3, <2>2
    <3> QED
      BY <3>1 DEF Timely
  <2> QED
    BY <2>1, <2>2
<1>5. BrowserType'
  BY <1>1, <1>3 DEF BrowserType
<1>6. ASSUME NEW s \in Side, SideSound(s) PROVE SideSound(s)'
  <2>1. store[s].dir \in Dir /\ \A k \in Under(s) : calls[k].dir \in Dir
    BY <1>1 DEF BrowserType, StoreRecord, Under, CallSound, CallRecord, NoCall
  <2>2. Under(s)' = Under(s)
    BY <1>1 DEF Under
  <2> QED
    BY <1>1, <1>4, <1>6, <2>1, <2>2 DEF SideSound
<1> QED
  BY <1>1, <1>5, <1>6 DEF BrowserInv, Loads

(* A call on a side begins. *)
LEMMA CallBegins ==
    ASSUME BrowserInv, NEW k \in Call, NEW call, calls' = [calls EXCEPT ![k] = call], CallSound(call),
           calls[k].kind \in {"none", "enqueue"}, call.kind \notin {"none", "enqueue"},
           call.out = "waiting", UNCHANGED <<disk, moving, late>>, crossed' = Crossing(call.side),
           store' \in [Side -> StoreRecord],
           \A side \in Side :
               /\ store'[side].dir = store[side].dir /\ store'[side].entries = store[side].entries
               /\ store'[side].error = store[side].error
               /\ store'[side].loading => store[side].loading \/ (side = call.side /\ call.kind = "list"),
           source' \in [Pane -> Side], confirming' \in [Pane -> SUBSET Name]
    PROVE  BrowserInv'
<1>1. BrowserType /\ call.side \in Side
  BY DEF BrowserInv, CallSound
<1>2. \A l \in Call : l # k => calls'[l] = calls[l]
  BY <1>1, UnderAfter
<1>3. calls'[k] = call /\ DOMAIN calls' = Call
  BY <1>1, UnderAfter
<1>4. BrowserType'
  BY <1>1, <1>2, <1>3 DEF BrowserType, Crossing
<1>5. ASSUME NEW side \in Side, store'[side].loading PROVE Loads(side)'
  <2>1. CASE store[side].loading
    <3>1. PICK l \in Call : calls[l].kind = "list" /\ calls[l].side = side
      BY <2>1 DEF BrowserInv, Loads
    <3> QED
      BY <1>2, <3>1 DEF Loads
  <2>2. CASE ~store[side].loading
    BY <1>3, <1>5, <2>2 DEF Loads
  <2> QED
    BY <2>1, <2>2
<1>6. ASSUME NEW side \in Side, side \notin crossed' PROVE SideSound(side)'
  <2>1. CASE side = call.side
    <3>1. Under(side) = {}
      BY <1>6, <2>1 DEF Crossing
    <3>2. Under(side)' = Under(side) \cup {k}
      BY <1>1, <2>1, UnderJoined
    <3> QED
      BY <1>3, <3>1, <3>2 DEF SideSound
  <2>2. CASE side # call.side
    <3>1. side \notin crossed
      BY <1>6, <2>2 DEF Crossing
    <3>2. SideSound(side)
      BY <3>1 DEF BrowserInv
    <3>3. k \notin Under(side) /\ Under(side)' = Under(side)
      <4>1. k \notin Under(side)
        BY DEF Under
      <4>2. Under(side)' = Under(side) \ {k}
        BY <1>2, <1>3, <2>2 DEF Under
      <4> QED
        BY <4>1, <4>2
    <3>4. \A l \in Under(side) : calls'[l] = calls[l]
      BY <1>2, <3>3 DEF Under
    <3> QED
      BY <3>2, <3>3, <3>4 DEF SideSound, Timely
  <2> QED
    BY <2>1, <2>2
<1> QED
  BY <1>4, <1>5, <1>6 DEF BrowserInv

(* A call ends, or its listing follows in the same slot. *)
LEMMA SlotFacts ==
    ASSUME BrowserInv, NEW k \in Call, calls[k].kind \notin {"none", "enqueue"}
    PROVE  /\ calls[k] \in CallRecord /\ calls[k].side \in Side /\ k \in Under(calls[k].side)
           /\ \A side \in Side : side # calls[k].side => k \notin Under(side)
           /\ calls[k].side \notin crossed => Under(calls[k].side) = {k}
<1>1. calls[k] \in CallRecord /\ calls[k].side \in Side
  BY DEF BrowserInv, BrowserType, CallSound, NoCall
<1>2. k \in Under(calls[k].side)
  BY DEF Under
<1>3. \A side \in Side : side # calls[k].side => k \notin Under(side)
  BY DEF Under
<1>4. calls[k].side \notin crossed => Under(calls[k].side) = {k}
  BY <1>1, <1>2 DEF BrowserInv, SideSound
<1> QED
  BY <1>1, <1>2, <1>3, <1>4

(* The sides of the other calls, and the stores that are not touched, stay sound. *)
LEMMA OtherSides ==
    ASSUME BrowserInv, NEW k \in Call, calls[k].kind \notin {"none", "enqueue"},
           NEW call, calls' = [calls EXCEPT ![k] = call],
           call.kind \in {"none", "enqueue"} \/ call.side = calls[k].side, crossed' = crossed,
           NEW side \in Side \ crossed, side # calls[k].side,
           disk'[side] = disk[side], late'[side] = late[side], store'[side] = store[side]
    PROVE  SideSound(side)'
<1>1. BrowserType /\ SideSound(side) /\ k \notin Under(side)
  BY SlotFacts DEF BrowserInv
<1>2. Under(side)' = Under(side) \ {k}
  BY <1>1, UnderLeft
<1>3. Under(side)' = Under(side)
  BY <1>1, <1>2
<1>4. \A l \in Under(side) : calls'[l] = calls[l]
  BY <1>1, UnderAfter DEF Under
<1> QED
  BY <1>1, <1>3, <1>4 DEF SideSound, Timely

LEMMA RunsKept ==
    ASSUME BrowserInv, NEW k \in Call, NEW fails \in BOOLEAN, Runs(k, fails) PROVE BrowserInv'
<1> DEFINE call == calls[k]
           there == disk[call.side][call.dir]
           new == [call EXCEPT !.out = IF fails THEN "failed" ELSE "ok",
                               !.entries = IF call.kind = "list" THEN there ELSE {}]
<1>1. call.kind \notin {"none", "enqueue"} /\ call.out = "waiting"
  BY DEF Runs, BrowserInv, BrowserType, CallSound
<1>2. /\ call \in CallRecord /\ call.side \in Side /\ k \in Under(call.side)
      /\ call.side \notin crossed => Under(call.side) = {k}
  BY <1>1, SlotFacts
<1>3. /\ BrowserType
      /\ UNCHANGED <<store, source, confirming, crossed>>
      /\ calls' = [calls EXCEPT ![k].out = IF fails THEN "failed" ELSE "ok",
                                ![k].entries = IF call.kind = "list" THEN there ELSE {}]
      /\ disk' = IF fails \/ call.kind = "list" THEN disk
                 ELSE [disk EXCEPT ![call.side][call.dir] =
                            IF call.kind = "mkdir" THEN there \cup call.name ELSE there \ call.name]
      /\ late' = IF fails \/ call.kind # "list" THEN late ELSE [late EXCEPT ![call.side][call.dir] = {}]
      /\ moving' = moving
  BY DEF Runs, BrowserInv
<1>4. there \subseteq Name
  BY <1>2, <1>3 DEF BrowserType, CallRecord
<1>5. calls' = [calls EXCEPT ![k] = new]
  BY <1>2, <1>3 DEF BrowserType, CallRecord
<1>6. /\ new \in CallRecord /\ new.kind = call.kind /\ new.side = call.side /\ new.dir = call.dir
      /\ new.entries = IF call.kind = "list" THEN there ELSE {}
      /\ new.out = "ok" => ~fails
  BY <1>2, <1>4 DEF CallRecord
<1>7. CallSound(new)
  BY <1>1, <1>2, <1>3, <1>6 DEF CallSound, BrowserType
<1> HIDE DEF new
<1>8. /\ disk' \in [Side -> [Dir -> SUBSET Name]]
      /\ \A side \in Side : side # call.side => disk'[side] = disk[side]
      /\ call.kind = "list" => disk' = disk
      /\ late' \in [Side -> [Dir -> SUBSET Name]]
      /\ \A side \in Side : side # call.side => late'[side] = late[side]
      /\ call.kind = "list" /\ ~fails => late'[call.side][call.dir] = {}
  BY <1>2, <1>3, <1>4 DEF BrowserType, CallRecord
<1>9. /\ calls'[k] = new /\ DOMAIN calls' = Call
      /\ \A l \in Call : l # k => calls'[l] = calls[l]
  BY <1>3, <1>5, UnderAfter
<1>10. BrowserType'
  BY <1>3, <1>7, <1>8, <1>9 DEF BrowserType
<1>11. ASSUME NEW side \in Side, store'[side].loading PROVE Loads(side)'
  <2>1. PICK l \in Call : calls[l].kind = "list" /\ calls[l].side = side
    BY <1>3, <1>11 DEF BrowserInv, Loads
  <2>2. calls'[l].kind = "list" /\ calls'[l].side = side
    BY <1>6, <1>9, <2>1
  <2> QED
    BY <2>2 DEF Loads
<1>12. ASSUME NEW side \in Side, side \notin crossed' PROVE SideSound(side)'
  <2>1. CASE side # call.side
    BY <1>1, <1>3, <1>5, <1>6, <1>8, <1>12, <2>1, OtherSides
  <2>2. CASE side = call.side
    <3>1. Under(side) = {k}
      BY <1>2, <1>3, <1>12, <2>2
    <3>2. Under(side)' = Under(side) \cup {k}
      BY <1>1, <1>3, <1>5, <1>6, <2>2, UnderJoined
    <3>3. Under(side)' = {k}
      BY <3>1, <3>2
    <3>4. calls'[k].kind = "list" /\ calls'[k].out = "ok" =>
              /\ calls'[k].entries = disk'[side][calls'[k].dir]
              /\ late'[side][calls'[k].dir] = {}
      BY <1>6, <1>8, <1>9, <2>2
    <3> QED
      BY <3>3, <3>4 DEF SideSound, Timely
  <2> QED
    BY <2>1, <2>2
<1> QED
  BY <1>10, <1>11, <1>12 DEF BrowserInv

LEMMA ListedKept == ASSUME BrowserInv, NEW k \in Call, Listed(k) PROVE BrowserInv'
<1> DEFINE call == calls[k]
           new == IF call.out = "ok" THEN [dir |-> call.dir, entries |-> call.entries, loading |-> FALSE, error |-> FALSE]
                  ELSE [store[call.side] EXCEPT !.loading = FALSE, !.error = TRUE]
<1>1. /\ call.kind = "list" /\ call.out # "waiting" /\ BrowserType
      /\ store' = [store EXCEPT ![call.side] = new] /\ calls' = [calls EXCEPT ![k] = NoCall]
      /\ UNCHANGED <<disk, moving, late, source, confirming, crossed>>
  BY DEF Listed, BrowserInv
<1>2. /\ call \in CallRecord /\ call.side \in Side /\ k \in Under(call.side)
      /\ call.side \notin crossed => Under(call.side) = {k}
  BY <1>1, SlotFacts
<1>3. new \in StoreRecord /\ ~new.loading /\ (~new.error => new.dir = call.dir /\ new.entries = call.entries /\ call.out = "ok")
  BY <1>1, <1>2 DEF BrowserType, StoreRecord, CallRecord
<1> HIDE DEF new
<1>4. store' \in [Side -> StoreRecord] /\ store'[call.side] = new /\ \A side \in Side : side # call.side => store'[side] = store[side]
  BY <1>1, <1>2, <1>3 DEF BrowserType
<1>5. /\ calls'[k] = NoCall /\ DOMAIN calls' = Call /\ NoCall.kind = "none" /\ CallSound(NoCall)
      /\ \A l \in Call : l # k => calls'[l] = calls[l]
  BY <1>1, UnderAfter DEF NoCall, CallSound
<1>6. BrowserType'
  BY <1>1, <1>4, <1>5 DEF BrowserType
<1>7. ASSUME NEW side \in Side, store'[side].loading PROVE Loads(side)'
  <2>1. side # call.side /\ store[side].loading
    BY <1>3, <1>4, <1>7
  <2>2. PICK l \in Call : calls[l].kind = "list" /\ calls[l].side = side
    BY <2>1 DEF BrowserInv, Loads
  <2> QED
    BY <1>5, <2>1, <2>2 DEF Loads
<1>8. ASSUME NEW side \in Side, side \notin crossed' PROVE SideSound(side)'
  <2>1. CASE side # call.side
    BY <1>1, <1>4, <1>5, <1>8, <2>1, OtherSides
  <2>2. CASE side = call.side
    <3>1. Under(side) = {k}
      BY <1>1, <1>2, <1>8, <2>2
    <3>2. Under(side)' = Under(side) \ {k}
      <4>1. NoCall.kind \in {"none", "enqueue"} \/ NoCall.side # side
        BY <1>5
      <4> QED
        BY <1>1, <4>1, UnderLeft
    <3>3. Under(side)' = {}
      BY <3>1, <3>2
    <3>4. call.out = "ok" => call.entries = Timely(side, call.dir)
      BY <1>1, <1>2, <1>8, <2>2 DEF BrowserInv, SideSound
    <3>5. store'[side].error \/ store'[side].entries = Timely(side, store[side].dir)'
      BY <1>1, <1>3, <1>4, <2>2, <3>4 DEF StoreRecord, Timely
    <3> QED
      BY <3>3, <3>5 DEF SideSound
  <2> QED
    BY <2>1, <2>2
<1> QED
  BY <1>6, <1>7, <1>8 DEF BrowserInv

LEMMA MutatedKept == ASSUME BrowserInv, NEW k \in Call, Mutated(k) PROVE BrowserInv'
<1> DEFINE new == Ask("list", "remote", store["remote"].dir, {})
<1>1. /\ calls[k].kind \in {"mkdir", "remove"} /\ calls[k].out = "ok" /\ BrowserType
      /\ store' = [store EXCEPT !["remote"].error = FALSE, !["remote"].loading = TRUE]
      /\ calls' = [calls EXCEPT ![k] = new]
      /\ UNCHANGED <<disk, moving, late, source, confirming, crossed>>
  BY DEF Mutated, BrowserInv
<1>2. calls[k].side = "remote" /\ "remote" \in Side
  BY <1>1 DEF BrowserType, CallSound, Side
<1>3. calls[k].side \notin crossed => Under(calls[k].side) = {k}
  BY <1>1, SlotFacts
<1>4. /\ store' \in [Side -> StoreRecord]
      /\ \A side \in Side : side # "remote" => store'[side] = store[side]
      /\ store["remote"].dir \in Dir
  BY <1>1, <1>2 DEF BrowserType, StoreRecord
<1>5. CallSound(new) /\ new.kind = "list" /\ new.side = "remote" /\ new.out = "waiting"
  BY <1>4 DEF Ask, CallSound, CallRecord, Side
<1> HIDE DEF new
<1>6. /\ calls'[k] = new /\ DOMAIN calls' = Call
      /\ \A l \in Call : l # k => calls'[l] = calls[l]
  BY <1>1, UnderAfter
<1>7. BrowserType'
  BY <1>1, <1>4, <1>5, <1>6 DEF BrowserType
<1>8. ASSUME NEW side \in Side, store'[side].loading PROVE Loads(side)'
  <2>1. CASE side = "remote"
    BY <1>5, <1>6, <2>1 DEF Loads
  <2>2. CASE side # "remote"
    <3>1. PICK l \in Call : calls[l].kind = "list" /\ calls[l].side = side
      BY <1>4, <1>8, <2>2 DEF BrowserInv, Loads
    <3>2. l # k
      BY <1>1, <3>1
    <3> QED
      BY <1>6, <3>1, <3>2 DEF Loads
  <2> QED
    BY <2>1, <2>2
<1>9. ASSUME NEW side \in Side, side \notin crossed' PROVE SideSound(side)'
  <2>1. CASE side # "remote"
    BY <1>1, <1>2, <1>4, <1>5, <1>9, <2>1, OtherSides
  <2>2. CASE side = "remote"
    <3>1. Under(side) = {k}
      BY <1>1, <1>2, <1>3, <1>9, <2>2
    <3>2. Under(side)' = Under(side) \cup {k}
      BY <1>1, <1>5, <2>2, UnderJoined
    <3>3. Under(side)' = {k}
      BY <3>1, <3>2
    <3> QED
      BY <1>5, <1>6, <3>3 DEF SideSound
  <2> QED
    BY <2>1, <2>2
<1> QED
  BY <1>7, <1>8, <1>9 DEF BrowserInv

LEMMA MutationFailedKept == ASSUME BrowserInv, NEW k \in Call, MutationFailed(k) PROVE BrowserInv'
<1>1. /\ calls[k].kind \in {"mkdir", "remove"} /\ BrowserType
      /\ store' = [store EXCEPT !["remote"].error = TRUE]
      /\ calls' = [calls EXCEPT ![k] = NoCall]
      /\ UNCHANGED <<disk, moving, late, source, confirming, crossed>>
  BY DEF MutationFailed, BrowserInv
<1>2. calls[k].side = "remote" /\ "remote" \in Side
  BY <1>1 DEF BrowserType, CallSound, Side
<1>3. calls[k].side \notin crossed => Under(calls[k].side) = {k}
  BY <1>1, SlotFacts
<1>4. /\ store' \in [Side -> StoreRecord]
      /\ \A side \in Side : side # "remote" => store'[side] = store[side]
      /\ store'["remote"].loading = store["remote"].loading /\ store'["remote"].error
  BY <1>1, <1>2 DEF BrowserType, StoreRecord
<1>5. /\ calls'[k] = NoCall /\ DOMAIN calls' = Call /\ NoCall.kind = "none" /\ CallSound(NoCall)
      /\ \A l \in Call : l # k => calls'[l] = calls[l]
  BY <1>1, UnderAfter DEF NoCall, CallSound
<1>6. BrowserType'
  BY <1>1, <1>4, <1>5 DEF BrowserType
<1>7. ASSUME NEW side \in Side, store'[side].loading PROVE Loads(side)'
  <2>1. store[side].loading
    BY <1>4, <1>7
  <2>2. PICK l \in Call : calls[l].kind = "list" /\ calls[l].side = side
    BY <2>1 DEF BrowserInv, Loads
  <2>3. l # k
    BY <1>1, <2>2
  <2> QED
    BY <1>5, <2>2, <2>3 DEF Loads
<1>8. ASSUME NEW side \in Side, side \notin crossed' PROVE SideSound(side)'
  <2>1. CASE side # "remote"
    BY <1>1, <1>2, <1>4, <1>5, <1>8, <2>1, OtherSides
  <2>2. CASE side = "remote"
    <3>1. Under(side) = {k}
      BY <1>1, <1>2, <1>3, <1>8, <2>2
    <3>2. Under(side)' = Under(side) \ {k}
      <4>1. NoCall.kind \in {"none", "enqueue"} \/ NoCall.side # side
        BY <1>5
      <4> QED
        BY <1>1, <4>1, UnderLeft
    <3>3. Under(side)' = {}
      BY <3>1, <3>2
    <3> QED
      BY <1>4, <2>2, <3>3 DEF SideSound
  <2> QED
    BY <2>1, <2>2
<1> QED
  BY <1>6, <1>7, <1>8 DEF BrowserInv

(* The user's listings and mutations, and the listing after a copy was enqueued. *)
LEMMA ListKept ==
    ASSUME BrowserInv, NEW k \in Call, NEW side \in Side, NEW dir \in Dir, List(k, side, dir)
    PROVE  BrowserInv'
<1> DEFINE new == Ask("list", side, dir, {})
<1>1. /\ calls[k] = NoCall /\ calls' = [calls EXCEPT ![k] = new] /\ BrowserType
      /\ store' = [store EXCEPT ![side].loading = TRUE] /\ crossed' = Crossing(side)
      /\ UNCHANGED <<disk, moving, late, source, confirming>>
  BY DEF List, Make, BrowserInv
<1>2. CallSound(new) /\ new.kind = "list" /\ new.side = side /\ new.out = "waiting"
  BY DEF Ask, CallSound, CallRecord
<1>3. store' \in [Side -> StoreRecord]
  BY <1>1 DEF BrowserType, StoreRecord
<1>4. \A s \in Side :
        /\ store'[s].dir = store[s].dir /\ store'[s].entries = store[s].entries
        /\ store'[s].error = store[s].error
        /\ store'[s].loading => store[s].loading \/ s = side
  BY <1>1 DEF BrowserType, StoreRecord
<1>5. source' \in [Pane -> Side] /\ confirming' \in [Pane -> SUBSET Name] /\ calls[k].kind = "none"
  BY <1>1 DEF BrowserType, NoCall
<1> HIDE DEF new
<1> QED
  BY <1>1, <1>2, <1>3, <1>4, <1>5, CallBegins

LEMMA MutateKept ==
    ASSUME BrowserInv, NEW k \in Call, NEW kind \in {"mkdir", "remove"}, NEW name \in SUBSET Name,
           Mutate(k, kind, name), confirming' \in [Pane -> SUBSET Name]
    PROVE  BrowserInv'
<1> DEFINE new == Ask(kind, "remote", store["remote"].dir, name)
<1>1. /\ calls[k] = NoCall /\ calls' = [calls EXCEPT ![k] = new] /\ BrowserType
      /\ crossed' = Crossing("remote") /\ UNCHANGED <<disk, moving, late, store, source>>
  BY DEF Mutate, Make, BrowserInv
<1>2. store["remote"].dir \in Dir
  BY <1>1 DEF BrowserType, StoreRecord, Side
<1>3. CallSound(new) /\ new.kind = kind /\ new.side = "remote" /\ new.out = "waiting"
  BY <1>2 DEF Ask, CallSound, CallRecord, Side
<1>4. source' \in [Pane -> Side] /\ calls[k].kind = "none" /\ store' \in [Side -> StoreRecord]
  BY <1>1 DEF BrowserType, NoCall
<1> HIDE DEF new
<1> QED
  BY <1>1, <1>3, <1>4, CallBegins

LEMMA EnqueueKept ==
    ASSUME BrowserInv, NEW k \in Call, NEW to \in Side \cup {"none"}, NEW target \in File,
           Enqueue(k, to, target)
    PROVE  BrowserInv'
<1> DEFINE new == [Ask("enqueue", to, "home", {}) EXCEPT !.out = "ok"]
<1>1. /\ calls[k] = NoCall /\ calls' = [calls EXCEPT ![k] = new] /\ BrowserType
      /\ UNCHANGED <<disk, late, store, source, confirming, crossed>> /\ moving' \subseteq File
  BY DEF Enqueue, Make, BrowserInv, BrowserType
<1>2. CallSound(new) /\ new.kind = "enqueue"
  BY DEF Ask, CallSound, CallRecord, Dir
<1>3. /\ source' \in [Pane -> Side] /\ confirming' \in [Pane -> SUBSET Name]
      /\ calls[k].kind = "none"
  BY <1>1 DEF BrowserType, NoCall
<1> HIDE DEF new
<1> QED
  BY <1>1, <1>2, <1>3, Aside

LEMMA EnqueuedKept == ASSUME BrowserInv, NEW k \in Call, Enqueued(k) PROVE BrowserInv'
<1> DEFINE side == calls[k].side
           new == Ask("list", side, store[side].dir, {})
<1>1. calls[k].kind = "enqueue" /\ UNCHANGED <<disk, moving, late, source, confirming>> /\ BrowserType
  BY DEF Enqueued, BrowserInv
<1>2. source' \in [Pane -> Side] /\ confirming' \in [Pane -> SUBSET Name] /\ moving' \subseteq File
  BY <1>1 DEF BrowserType
<1>3. CASE side = "none"
  <2>1. calls' = [calls EXCEPT ![k] = NoCall] /\ UNCHANGED <<store, crossed>>
    BY <1>3 DEF Enqueued
  <2>2. CallSound(NoCall) /\ NoCall.kind = "none"
    BY DEF CallSound, NoCall
  <2> QED
    BY <1>1, <1>2, <2>1, <2>2, Aside
<1>4. CASE side # "none"
  <2>1. /\ calls' = [calls EXCEPT ![k] = new] /\ store' = [store EXCEPT ![side].loading = TRUE]
        /\ crossed' = Crossing(side)
    BY <1>4 DEF Enqueued
  <2>2. calls[k] \in CallRecord
    BY <1>1 DEF BrowserType, CallSound, NoCall
  <2>3. side \in Side
    BY <1>4, <2>2 DEF CallRecord
  <2>4. store[side].dir \in Dir
    BY <1>1, <2>3 DEF BrowserType, StoreRecord
  <2>5. CallSound(new) /\ new.kind = "list" /\ new.side = side /\ new.out = "waiting"
    BY <2>3, <2>4 DEF Ask, CallSound, CallRecord
  <2>6. store' \in [Side -> StoreRecord]
    BY <1>1, <2>1, <2>3 DEF BrowserType, StoreRecord
  <2>7. \A s \in Side :
          /\ store'[s].dir = store[s].dir /\ store'[s].entries = store[s].entries
          /\ store'[s].error = store[s].error
          /\ store'[s].loading => store[s].loading \/ s = side
    BY <1>1, <2>1, <2>3 DEF BrowserType, StoreRecord
  <2> HIDE DEF new, side
  <2> QED
    BY <1>1, <1>2, <2>1, <2>5, <2>6, <2>7, CallBegins
<1> QED
  BY <1>3, <1>4

LEMMA BrowserNextInv == BrowserInv /\ [BrowserNext]_fbVars => BrowserInv'
<1> SUFFICES ASSUME BrowserInv, [BrowserNext]_fbVars PROVE BrowserInv'
  OBVIOUS
<1>0. /\ source \in [Pane -> Side] /\ confirming \in [Pane -> SUBSET Name]
      /\ \A s \in Side : store[s].dir \in Dir
  BY DEF BrowserInv, BrowserType, StoreRecord
<1>1. ASSUME NEW p \in Pane, Point(p) PROVE BrowserInv'
  BY <1>0, <1>1, Elsewhere DEF Point, Other, Side
<1>2. ASSUME NEW p \in Pane, Keep(p) PROVE BrowserInv'
  BY <1>0, <1>2, Elsewhere DEF Keep
<1>3. ASSUME NEW p \in Pane, NEW name \in Name, AskRemove(p, name) PROVE BrowserInv'
  BY <1>0, <1>3, Elsewhere DEF AskRemove
<1>4. ASSUME NEW p \in Pane, NEW k \in Call, NEW dir \in Dir, OpenDir(p, k, dir) PROVE BrowserInv'
  BY <1>0, <1>4, ListKept DEF OpenDir
<1>5. ASSUME NEW p \in Pane, NEW k \in Call, Up(p, k) PROVE BrowserInv'
  <2>1. source[p] \in Side /\ Parent(store[source[p]].dir) \in Dir
    BY <1>0 DEF Parent, Dir
  <2> QED
    BY <1>5, <2>1, ListKept DEF Up
<1>6. ASSUME NEW p \in Pane, NEW k \in Call, Refresh(p, k) PROVE BrowserInv'
  BY <1>0, <1>6, ListKept DEF Refresh
<1>7. ASSUME NEW p \in Pane, NEW k \in Call, RemoveEntry(p, k) PROVE BrowserInv'
  <2>1. confirming[p] \in SUBSET Name /\ confirming' \in [Pane -> SUBSET Name]
    BY <1>0, <1>7 DEF RemoveEntry
  <2> QED
    BY <1>7, <2>1, MutateKept DEF RemoveEntry
<1>8. ASSUME NEW p \in Pane, NEW k \in Call, NEW name \in Name, Mkdir(p, k, name) PROVE BrowserInv'
  <2>1. {name} \in SUBSET Name /\ confirming' \in [Pane -> SUBSET Name]
    BY <1>0, <1>8 DEF Mkdir
  <2> QED
    BY <1>8, <2>1, MutateKept DEF Mkdir
<1>9. ASSUME NEW k \in Call, NEW to \in Side, NEW from, NEW name \in store[from].entries, from \in Side,
             Copy(k, to, name)
      PROVE  BrowserInv'
  <2>1. [side |-> to, dir |-> store[to].dir, name |-> name] \in File
    BY <1>0, <1>9 DEF File, BrowserInv, BrowserType, StoreRecord
  <2> QED
    BY <1>9, <2>1, EnqueueKept DEF Copy
<1>16. ASSUME NEW p \in Pane, NEW k \in Call, Send(p, k) PROVE BrowserInv'
  <2>1. source[p] \in Side /\ Other(source[p]) \in Side
    BY <1>0 DEF Other, Side
  <2> QED
    BY <1>9, <1>16, <2>1 DEF Send
<1>17. ASSUME NEW p \in Pane, NEW k \in Call, Drop(p, k) PROVE BrowserInv'
  BY <1>0, <1>9, <1>17 DEF Drop
<1>18. ASSUME NEW p \in Pane, NEW k \in Call, Dialog(p, k) PROVE BrowserInv'
  BY <1>18, EnqueueKept DEF Dialog
<1>19. ASSUME NEW target \in File, Lands(target) PROVE BrowserInv'
  BY <1>19, LandsKept
<1>10. ASSUME NEW k \in Call, Listed(k) PROVE BrowserInv'
  BY <1>10, ListedKept
<1>11. ASSUME NEW k \in Call, Mutated(k) PROVE BrowserInv'
  BY <1>11, MutatedKept
<1>12. ASSUME NEW k \in Call, MutationFailed(k) PROVE BrowserInv'
  BY <1>12, MutationFailedKept
<1>13. ASSUME NEW k \in Call, Enqueued(k) PROVE BrowserInv'
  BY <1>13, EnqueuedKept
<1>14. ASSUME NEW k \in Call, NEW fails \in BOOLEAN, Runs(k, fails) PROVE BrowserInv'
  BY <1>14, RunsKept
<1>15. CASE UNCHANGED fbVars
  BY <1>0, <1>15, Elsewhere DEF fbVars
<1> QED
  BY <1>1, <1>2, <1>3, <1>4, <1>5, <1>6, <1>7, <1>8, <1>10, <1>11, <1>12, <1>13, <1>14, <1>15,
     <1>16, <1>17, <1>18, <1>19 DEF BrowserNext

(* Once nothing is under way on a side, its panes show what is in the directory they name,
   but for what transfers wrote there since it was listed (SftpBrowser.copy refreshes before),
   or an error, and stop saying that they load: unless calls on that side overlapped. *)
THEOREM PanesSettle == BrowserSpec => []SettledListing
<1>1. BrowserInv => SettledListing
  <2> SUFFICES ASSUME BrowserInv, NEW side \in Side, Under(side) = {}
               PROVE  /\ ~store[side].loading
                      /\ \/ side \in crossed \/ store[side].error
                         \/ store[side].entries = disk[side][store[side].dir] \ late[side][store[side].dir]
    BY DEF SettledListing
  <2>1. ~store[side].loading
    BY DEF BrowserInv, Loads, Under
  <2>2. \/ side \in crossed \/ store[side].error
        \/ store[side].entries = disk[side][store[side].dir] \ late[side][store[side].dir]
    BY DEF BrowserInv, SideSound, Timely
  <2> QED
    BY <2>1, <2>2
<1> QED
  BY <1>1, BrowserInitInv, BrowserNextInv, PTL DEF BrowserSpec

----------------------------------------------------------------------------
(* The snippet palette (Snippets).

   The highlight is an index into what is shown, or 0 and below where nothing is.  The
   effect after a change of the list or the query restores that; it compares lengths only,
   which is enough because an index that fitted a list of the same length still fits.  The
   answers that change the list are those of the open palette's own store. *)

OpenState ==
    [open : {TRUE}, list : SUBSET Snippet, query : SUBSET Snippet, highlight : Int, adding : BOOLEAN]
RequestType == [kind : {"list", "insert", "delete"}, what : SUBSET Snippet, mine : BOOLEAN]
PaletteType ==
    /\ rows \in SUBSET Snippet
    /\ palette \in {Closed} \cup OpenState
    /\ requests \in Seq(RequestType)
    /\ aimless \in BOOLEAN

Shown(p) == Cardinality(Visible(p))
Fits(p) ==
    /\ p.highlight >= -1
    /\ p.highlight < Shown(p) \/ (Shown(p) = 0 /\ p.highlight <= 0)

PaletteInv ==
    /\ PaletteType
    /\ palette.open => Fits(palette) /\ (palette.highlight >= 0 \/ aimless)
    /\ \A i \in DOMAIN requests : requests[i].mine => palette.open

LEMMA ShownIsNat ==
    ASSUME NEW p \in OpenState
    PROVE Shown(p) \in Nat /\ (Visible(p) = {} <=> Shown(p) = 0)
<1>1. Visible(p) \subseteq Snippet
  BY DEF Visible, OpenState
<1>2. IsFiniteSet(Visible(p))
  BY <1>1, SnippetAssumption, FS_Subset DEF SnippetAssumption
<1> QED
  BY <1>2, FS_CardinalityType, FS_EmptySet DEF Shown

(* The effect puts the highlight inside, and never moves it to row -1 or away from it. *)
LEMMA ShowFits ==
    ASSUME palette \in OpenState, Fits(palette),
           NEW p \in OpenState, p.highlight = palette.highlight
    PROVE  /\ Show(p) \in OpenState /\ Fits(Show(p))
           /\ palette.highlight >= 0 => Show(p).highlight >= 0
<1> DEFINE last == IF Visible(p) = {} THEN 0 ELSE Shown(p) - 1
           q == [p EXCEPT !.highlight = Least(@, last)]
<1>1. /\ Shown(p) \in Nat /\ (Visible(p) = {} <=> Shown(p) = 0)
      /\ Shown(palette) \in Nat /\ palette.highlight \in Int
  BY ShownIsNat DEF OpenState
<1>2. CASE Shown(p) = Shown(palette)
  <2>1. Show(p) = p
    BY <1>2 DEF Show, Shown
  <2> QED
    BY <1>1, <1>2, <2>1 DEF Fits
<1>3. CASE Shown(p) # Shown(palette)
  <2>1. Show(p) = q
    BY <1>3 DEF Show, Shown
  <2>2. last \in Nat /\ Least(p.highlight, last) \in Int
    BY <1>1 DEF Least
  <2>3. q \in OpenState /\ q.highlight = Least(p.highlight, last)
    BY <2>2 DEF OpenState
  <2>4. q.list = p.list /\ q.query = p.query
    BY DEF OpenState
  <2>5. Shown(q) = Shown(p)
    BY <2>4 DEF Shown, Visible
  <2>6. Fits(q) /\ (palette.highlight >= 0 => q.highlight >= 0)
    BY <1>1, <2>2, <2>3, <2>5 DEF Fits, Least
  <2> QED
    BY <2>1, <2>3, <2>6
<1> QED
  BY <1>2, <1>3

LEMMA PaletteInitInv == PaletteInit => PaletteInv
<1> SUFFICES ASSUME PaletteInit PROVE PaletteInv
  OBVIOUS
<1>1. rows \in SUBSET Snippet /\ palette = Closed /\ requests = <<>> /\ aimless = FALSE
  BY DEF PaletteInit
<1>2. requests \in Seq(RequestType) /\ DOMAIN requests = {}
  BY <1>1
<1>3. ~palette.open
  BY <1>1 DEF Closed
<1> QED
  BY <1>1, <1>2, <1>3 DEF PaletteInv, PaletteType

(* A request of the open palette. *)
LEMMA RequestKept ==
    ASSUME PaletteInv, palette.open, NEW kind \in {"list", "insert", "delete"},
           NEW s \in SUBSET Snippet, Request(kind, s), UNCHANGED <<rows, palette, aimless>>
    PROVE  PaletteInv'
<1>1. [kind |-> kind, what |-> s, mine |-> TRUE] \in RequestType
  BY DEF RequestType
<1>2. requests' \in Seq(RequestType)
  BY <1>1 DEF Request, PaletteInv, PaletteType
<1>3. PaletteType'
  BY <1>2 DEF PaletteInv, PaletteType
<1> QED
  BY <1>3 DEF PaletteInv, Fits, Shown, Visible

LEMMA DismissKept ==
    ASSUME PaletteInv, Dismiss, UNCHANGED rows PROVE PaletteInv'
<1>1. requests \in Seq(RequestType) /\ requests' = [i \in DOMAIN requests |-> [requests[i] EXCEPT !.mine = FALSE]]
  BY DEF PaletteInv, PaletteType, Dismiss
<1>2. Len(requests) \in Nat /\ DOMAIN requests = 1..Len(requests)
  BY <1>1
<1>3. \A i \in DOMAIN requests : requests[i] \in RequestType
  BY <1>1
<1>4. \A i \in DOMAIN requests : [requests[i] EXCEPT !.mine = FALSE] \in RequestType
  BY <1>3 DEF RequestType
<1>5. requests' \in Seq(RequestType)
  BY <1>1, <1>2, <1>4
<1>6. \A i \in DOMAIN requests' : ~requests'[i].mine
  BY <1>1, <1>3 DEF RequestType
<1>7. PaletteType'
  BY <1>5 DEF PaletteInv, PaletteType, Dismiss
<1>8. ~palette'.open
  BY DEF Dismiss, Closed
<1> QED
  BY <1>6, <1>7, <1>8 DEF PaletteInv

(* The highlight moves, or the state changes elsewhere. *)
LEMMA StateKept ==
    ASSUME PaletteInv, palette.open, palette' \in OpenState, Fits(palette'),
           palette'.highlight >= 0 \/ aimless', aimless' \in BOOLEAN,
           UNCHANGED <<rows, requests>>
    PROVE  PaletteInv'
<1>1. PaletteType'
  BY DEF PaletteInv, PaletteType
<1>2. palette'.open
  BY DEF OpenState
<1>3. Fits(palette)'
  BY DEF Fits, Shown, Visible
<1> QED
  BY <1>1, <1>2, <1>3 DEF PaletteInv

LEMMA OnSendKept == ASSUME PaletteInv, NEW s, OnSend(s) PROVE PaletteInv'
<1>1. CASE Dismiss
  BY <1>1, DismissKept DEF OnSend
<1>2. CASE UNCHANGED <<palette, requests, aimless>>
  BY <1>2 DEF OnSend, PaletteInv, PaletteType, Fits, Shown, Visible
<1> QED
  BY <1>1, <1>2 DEF OnSend

LEMMA ArrowsKept == ASSUME PaletteInv, ArrowDown \/ ArrowUp PROVE PaletteInv'
<1> DEFINE new == IF ArrowDown THEN Least(palette.highlight + 1, Shown(palette) - 1)
                  ELSE IF palette.highlight <= 0 THEN 0 ELSE palette.highlight - 1
<1>1. palette \in OpenState /\ palette.open /\ Fits(palette)
  BY DEF PaletteInv, PaletteType, ArrowDown, ArrowUp, Closed
<1>2. Shown(palette) \in Nat /\ palette.highlight \in Int /\ (Visible(palette) = {} <=> Shown(palette) = 0)
  BY <1>1, ShownIsNat DEF OpenState
<1>3. new \in Int /\ palette' = [palette EXCEPT !.highlight = new]
  BY <1>2 DEF ArrowDown, ArrowUp, Least, Shown
<1>4. palette' \in OpenState /\ palette'.highlight = new
  BY <1>1, <1>3 DEF OpenState
<1>5. palette'.list = palette.list /\ palette'.query = palette.query
  BY <1>1, <1>3 DEF OpenState
<1>6. Shown(palette') = Shown(palette)
  BY <1>5 DEF Shown, Visible
<1>7. aimless' \in BOOLEAN /\ UNCHANGED <<rows, requests>> /\ (ArrowDown => aimless' = (Visible(palette) = {}))
  BY DEF ArrowDown, ArrowUp
<1>8. Fits(palette') /\ (palette'.highlight >= 0 \/ aimless')
  BY <1>1, <1>2, <1>4, <1>6, <1>7 DEF Fits, Least
<1> QED
  BY <1>1, <1>4, <1>7, <1>8, StateKept

LEMMA SetQueryKept == ASSUME PaletteInv, NEW q \in SUBSET Snippet, SetQuery(q) PROVE PaletteInv'
<1> DEFINE p == [palette EXCEPT !.query = q]
<1>1. palette \in OpenState /\ palette.open /\ Fits(palette)
  BY DEF PaletteInv, PaletteType, SetQuery, Closed
<1>2. p \in OpenState /\ p.highlight = palette.highlight
  BY <1>1 DEF OpenState
<1>3. palette' = Show(p) /\ UNCHANGED <<rows, requests, aimless>>
  BY DEF SetQuery
<1>4. /\ Show(p) \in OpenState /\ Fits(Show(p))
      /\ palette.highlight >= 0 => Show(p).highlight >= 0
  BY <1>1, <1>2, ShowFits
<1> QED
  BY <1>1, <1>3, <1>4, StateKept DEF PaletteInv, PaletteType

LEMMA ToggleKept == ASSUME PaletteInv, Toggle PROVE PaletteInv'
<1>1. palette \in OpenState /\ palette.open /\ Fits(palette)
  BY DEF PaletteInv, PaletteType, Toggle, Closed
<1>2. /\ palette' \in OpenState /\ palette'.highlight = palette.highlight
      /\ palette'.list = palette.list /\ palette'.query = palette.query
  BY <1>1 DEF Toggle, OpenState
<1>3. Fits(palette')
  BY <1>1, <1>2 DEF Fits, Shown, Visible
<1> QED
  BY <1>1, <1>2, <1>3, StateKept DEF Toggle, PaletteInv, PaletteType

LEMMA OpenPaletteKept == ASSUME PaletteInv, OpenPalette PROVE PaletteInv'
<1>1. palette' = Opened /\ rows' = rows /\ aimless' = FALSE /\ ~palette.open
  BY DEF OpenPalette
<1>2. palette' \in OpenState /\ palette'.open /\ palette'.highlight = 0 /\ palette'.list = {}
  BY <1>1 DEF Opened, OpenState
<1>3. Visible(palette') = {}
  BY <1>2 DEF Visible
<1>4. Shown(palette') = 0
  BY <1>2, <1>3, ShownIsNat
<1>5. Fits(palette')
  BY <1>2, <1>4 DEF Fits
<1>6. [kind |-> "list", what |-> {}, mine |-> TRUE] \in RequestType
  BY DEF RequestType
<1>7. requests' \in Seq(RequestType)
  BY <1>6 DEF OpenPalette, Request, PaletteInv, PaletteType
<1>8. PaletteType'
  BY <1>1, <1>2, <1>7 DEF PaletteInv, PaletteType
<1>9. Fits(palette)'
  BY <1>5 DEF Fits, Shown, Visible
<1> QED
  BY <1>2, <1>8, <1>9 DEF PaletteInv

(* The answer to the oldest request. *)
LEMMA AnsweredKept == ASSUME PaletteInv, Answered PROVE PaletteInv'
<1> DEFINE call == Head(requests)
           again == [call EXCEPT !.kind = "list", !.what = {}]
<1>1. /\ requests \in Seq(RequestType) /\ requests # <<>>
      /\ call \in RequestType /\ Tail(requests) \in Seq(RequestType)
      /\ call = requests[1] /\ 1 \in DOMAIN requests
  BY DEF Answered, PaletteInv, PaletteType
<1>2. again \in RequestType /\ again.mine = call.mine
  BY <1>1 DEF RequestType
<1>3. requests' = IF call.kind = "list" THEN Tail(requests) ELSE Append(Tail(requests), again)
  BY DEF Answered
<1>4. requests' \in Seq(RequestType)
  BY <1>1, <1>2, <1>3
<1>5. call.mine => palette.open
  BY <1>1 DEF PaletteInv
<1>6. \A i \in DOMAIN requests' : requests'[i].mine => palette.open
  <2>1. \A i \in DOMAIN Tail(requests) : Tail(requests)[i].mine => palette.open
    <3>1. \A i \in 1..Len(Tail(requests)) : i + 1 \in DOMAIN requests /\ Tail(requests)[i] = requests[i + 1]
      BY <1>1
    <3> QED
      BY <1>1, <3>1 DEF PaletteInv
  <2>2. CASE call.kind = "list"
    BY <1>3, <2>1, <2>2
  <2>3. CASE call.kind # "list"
    <3>1. requests' = Append(Tail(requests), again)
      BY <1>3, <2>3
    <3> SUFFICES ASSUME NEW i \in DOMAIN requests', requests'[i].mine PROVE palette.open
      OBVIOUS
    <3>2. CASE i \in DOMAIN Tail(requests)
      <4>1. requests'[i] = Tail(requests)[i]
        BY <1>1, <3>1, <3>2
      <4> QED
        BY <2>1, <3>2, <4>1
    <3>3. CASE i \notin DOMAIN Tail(requests)
      <4>1. requests'[i] = again
        BY <1>1, <1>2, <3>1, <3>3
      <4> QED
        BY <1>2, <1>5, <4>1
    <3> QED
      BY <3>2, <3>3
  <2> QED
    BY <2>2, <2>3
<1>7. rows' \in SUBSET Snippet
  BY <1>1 DEF Answered, PaletteInv, PaletteType, RequestType
<1>8. aimless' = aimless /\ aimless \in BOOLEAN
  BY DEF Answered, PaletteInv, PaletteType
<1>9. CASE call.mine /\ call.kind = "list"
  <2> DEFINE p == [palette EXCEPT !.list = rows]
  <2>1. palette \in OpenState /\ palette.open /\ Fits(palette)
    BY <1>5, <1>9 DEF PaletteInv, PaletteType, Closed
  <2>2. p \in OpenState /\ p.highlight = palette.highlight
    BY <2>1 DEF OpenState, PaletteInv, PaletteType
  <2>3. palette' = Show(p)
    BY <1>9 DEF Answered
  <2>4. /\ palette' \in OpenState /\ Fits(palette')
        /\ palette.highlight >= 0 => palette'.highlight >= 0
    BY <2>1, <2>2, <2>3, ShowFits
  <2>5. Fits(palette)' /\ palette'.open
    BY <2>4 DEF Fits, Shown, Visible, OpenState
  <2> QED
    BY <1>4, <1>6, <1>7, <1>8, <2>1, <2>4, <2>5 DEF PaletteInv, PaletteType
<1>10. CASE call.mine /\ call.kind = "insert"
  <2>1. palette \in OpenState /\ palette.open /\ Fits(palette)
    BY <1>5, <1>10 DEF PaletteInv, PaletteType, Closed
  <2>2. palette' = [palette EXCEPT !.adding = FALSE]
    BY <1>10 DEF Answered
  <2>3. /\ palette' \in OpenState /\ palette'.highlight = palette.highlight /\ palette'.open
        /\ palette'.list = palette.list /\ palette'.query = palette.query
    BY <2>1, <2>2 DEF OpenState
  <2>4. Fits(palette)'
    BY <2>1, <2>3 DEF Fits, Shown, Visible
  <2> QED
    BY <1>4, <1>6, <1>7, <1>8, <2>1, <2>3, <2>4 DEF PaletteInv, PaletteType
<1>11. CASE palette' = palette
  <2>1. palette.open => Fits(palette)'
    BY <1>11 DEF PaletteInv, Fits, Shown, Visible
  <2> QED
    BY <1>4, <1>6, <1>7, <1>8, <1>11, <2>1 DEF PaletteInv, PaletteType
<1> QED
  BY <1>9, <1>10, <1>11 DEF Answered

LEMMA PaletteNextInv == PaletteInv /\ [PaletteNext]_snVars => PaletteInv'
<1> SUFFICES ASSUME PaletteInv, [PaletteNext]_snVars PROVE PaletteInv'
  OBVIOUS
<1>1. CASE OpenPalette
  BY <1>1, OpenPaletteKept
<1>2. CASE ClosePalette
  BY <1>2, DismissKept DEF ClosePalette
<1>3. CASE ArrowDown \/ ArrowUp
  BY <1>3, ArrowsKept
<1>4. CASE Enter
  BY <1>4, OnSendKept DEF Enter
<1>5. CASE Toggle
  BY <1>5, ToggleKept
<1>6. CASE Answered
  BY <1>6, AnsweredKept
<1>7. ASSUME NEW q \in SUBSET Snippet, SetQuery(q) PROVE PaletteInv'
  BY <1>7, SetQueryKept
<1>8. ASSUME NEW s \in Snippet, Click(s) PROVE PaletteInv'
  BY <1>8, OnSendKept DEF Click
<1>9. ASSUME NEW s \in Snippet, DeleteSnippet(s) PROVE PaletteInv'
  BY <1>9, RequestKept DEF DeleteSnippet
<1>10. ASSUME NEW s \in Snippet, SaveNew(s) PROVE PaletteInv'
  BY <1>10, RequestKept DEF SaveNew
<1>11. CASE UNCHANGED snVars
  BY <1>11 DEF snVars, PaletteInv, PaletteType, Fits, Shown, Visible
<1> QED
  BY <1>1, <1>2, <1>3, <1>4, <1>5, <1>6, <1>7, <1>8, <1>9, <1>10, <1>11 DEF PaletteNext

(* Enter finds a row whenever there is one, whatever removals, listings and queries changed
   the list, unless the last arrow was pressed on an empty list. *)
THEOREM EnterFindsRow == PaletteSpec => []HighlightOnRow
<1>1. PaletteInv => HighlightOnRow
  <2> SUFFICES ASSUME PaletteInv, palette.open, Visible(palette) # {}
               PROVE  palette.highlight < Cardinality(Visible(palette)) /\ (palette.highlight >= 0 \/ aimless)
    BY DEF HighlightOnRow
  <2>1. palette \in OpenState
    BY DEF PaletteInv, PaletteType, Closed
  <2>2. Shown(palette) # 0
    BY <2>1, ShownIsNat
  <2> QED
    BY <2>2 DEF PaletteInv, Fits, Shown
<1> QED
  BY <1>1, PaletteInitInv, PaletteNextInv, PTL DEF PaletteSpec

----------------------------------------------------------------------------
(* Preferences (Prefs).

   A write carries the state of the moment it was sent, and the timer is off from then
   until the next change.  So while no write is due, the last write under way carries what
   is shown; when that one has ended too, the file has it, or the write failed. *)

Preference == [width : SIDEBAR_MIN..SIDEBAR_MAX, flag : BOOLEAN]
Text == [kind : {"object"}, value : Preference]
PrefsType ==
    /\ prefs \in Preference
    /\ timer \in BOOLEAN
    /\ writes \in Seq(Text)
    /\ failed \in BOOLEAN

LastWriteShown ==
    ~timer => IF writes = <<>> THEN failed \/ Sane(saved) = prefs
              ELSE writes[Len(writes)] = Object(prefs)

PrefsInv == PrefsType /\ LastWriteShown

(* What the resizer asks for is kept within its bounds, a number within them is not
   changed, and so a preference of the program's own is read back as it was written. *)
LEMMA ClampBounds ==
    /\ \A w \in Int : clamp(w) \in SIDEBAR_MIN..SIDEBAR_MAX
    /\ \A w \in SIDEBAR_MIN..SIDEBAR_MAX : clamp(w) = w /\ w # -1
  BY DEF clamp, SIDEBAR_MIN, SIDEBAR_MAX

LEMMA ReadBack == ASSUME NEW p \in Preference PROVE Sane(Object(p)) = p
<1>1. p = [width |-> p.width, flag |-> p.flag] /\ p.width \in SIDEBAR_MIN..SIDEBAR_MAX
  BY DEF Preference
<1>2. clamp(p.width) = p.width /\ p.width # -1
  BY <1>1, ClampBounds
<1> QED
  BY <1>1, <1>2 DEF Sane, Object

(* Whatever the file has, what the program starts from is a preference of its own. *)
LEMMA SaneIsPreference ==
    ASSUME NEW raw \in {[kind |-> "absent"], [kind |-> "damaged"]} \cup {Object(f) : f \in Files}
    PROVE Sane(raw) \in Preference
<1>1. DEFAULT_PREFS \in Preference
  BY DEF DEFAULT_PREFS, Preference, SIDEBAR_MIN, SIDEBAR_MAX
<1>2. CASE raw.kind # "object"
  BY <1>1, <1>2 DEF Sane
<1>3. CASE raw.kind = "object"
  <2>1. PICK f \in Files : raw = Object(f)
    BY <1>3
  <2>2. f.width \in Int /\ f.flag \in BOOLEAN
    <3>1. f.width \in Width \cup {-1} /\ f.flag \in BOOLEAN
      BY DEF Files
    <3>2. -1 \in Int
      OBVIOUS
    <3> QED
      BY <3>1, <3>2, WidthAssumption DEF WidthAssumption
  <2>3. clamp(f.width) \in SIDEBAR_MIN..SIDEBAR_MAX
    BY <2>2, ClampBounds
  <2>4. DEFAULT_PREFS.width \in SIDEBAR_MIN..SIDEBAR_MAX
    BY DEF DEFAULT_PREFS, SIDEBAR_MIN, SIDEBAR_MAX
  <2> QED
    BY <1>3, <2>1, <2>2, <2>3, <2>4 DEF Sane, Object, Preference
<1> QED
  BY <1>2, <1>3

LEMMA PrefsInitInv == PrefsInit => PrefsInv
<1> SUFFICES ASSUME PrefsInit PROVE PrefsInv
  OBVIOUS
<1>1. prefs \in Preference
  BY SaneIsPreference DEF PrefsInit
<1>2. timer = FALSE /\ writes = <<>> /\ failed = FALSE /\ prefs = Sane(saved)
  BY DEF PrefsInit
<1>3. PrefsType
  <2>1. writes \in Seq(Text)
    BY <1>2
  <2> QED
    BY <1>1, <1>2, <2>1 DEF PrefsType
<1>4. LastWriteShown
  BY <1>2 DEF LastWriteShown
<1> QED
  BY <1>3, <1>4 DEF PrefsInv

(* A change makes a write due. *)
LEMMA SetInv ==
    ASSUME PrefsInv, NEW p \in Preference, Set(p) PROVE PrefsInv'
  BY DEF PrefsInv, PrefsType, LastWriteShown, Set

(* A write that is sent carries what is shown. *)
LEMMA WriteInv ==
    ASSUME PrefsInv, Write, UNCHANGED <<prefs, saved, failed>> PROVE PrefsInv'
<1>1. Object(prefs) \in Text
  BY DEF PrefsInv, PrefsType, Object, Text
<1>2. /\ writes' \in Seq(Text)
      /\ writes' # <<>> /\ writes'[Len(writes')] = Object(prefs)
  BY <1>1 DEF PrefsInv, PrefsType, Write
<1>3. Object(prefs)' = Object(prefs)
  BY DEF Object
<1> QED
  BY <1>2, <1>3 DEF PrefsInv, PrefsType, LastWriteShown, Write

LEMMA LastOfTail ==
    ASSUME NEW S, NEW q \in Seq(S), q # <<>>, Len(q) # 1
    PROVE Tail(q) # <<>> /\ Tail(q)[Len(Tail(q))] = q[Len(q)]
<1>1. Len(q) \in Nat \ {0, 1}
  OBVIOUS
<1>2. Tail(q) \in Seq(S) /\ Len(Tail(q)) = Len(q) - 1
  BY <1>1
<1>3. Len(q) - 1 \in 1..Len(Tail(q))
  BY <1>1, <1>2
<1>4. Tail(q)[Len(q) - 1] = q[(Len(q) - 1) + 1]
  BY <1>1, <1>2, <1>3, HeadTailProperties
<1>5. (Len(q) - 1) + 1 = Len(q)
  BY <1>1
<1>6. Tail(q) # <<>>
  <2>1. Len(Tail(q)) # 0
    BY <1>1, <1>2
  <2>2. Len(<<>>) = 0
    BY EmptySeq
  <2> QED
    BY <2>1, <2>2, Zenon
<1> QED
  BY <1>2, <1>4, <1>5, <1>6

(* The last write under way is the last one still under way, or it has ended now. *)
LEMMA EndedInv ==
    ASSUME PrefsInv, NEW fails \in BOOLEAN, Ended(fails) PROVE PrefsInv'
<1>1. /\ writes # <<>> /\ writes \in Seq(Text)
      /\ writes' = Tail(writes) /\ saved' = (IF fails THEN saved ELSE Head(writes))
      /\ failed' = fails /\ prefs' = prefs /\ timer' = timer
  BY DEF Ended, PrefsInv, PrefsType
<1>2. PrefsType'
  BY <1>1 DEF PrefsInv, PrefsType
<1>3. Object(prefs)' = Object(prefs) /\ Sane(Object(prefs)) = prefs
  BY <1>1, ReadBack DEF PrefsInv, PrefsType, Object
<1>4. ASSUME ~timer PROVE writes[Len(writes)] = Object(prefs)
  BY <1>1, <1>4 DEF PrefsInv, LastWriteShown
<1>5. CASE Len(writes) = 1
  <2>1. writes' = <<>> /\ Head(writes) = writes[Len(writes)]
    BY <1>1, <1>5
  <2> QED
    BY <1>1, <1>2, <1>3, <1>4, <2>1 DEF PrefsInv, LastWriteShown
<1>6. CASE Len(writes) # 1
  <2>1. writes' # <<>> /\ writes'[Len(writes')] = writes[Len(writes)]
    BY <1>1, <1>6, LastOfTail
  <2> QED
    BY <1>1, <1>2, <1>3, <1>4, <2>1 DEF PrefsInv, LastWriteShown
<1> QED
  BY <1>5, <1>6

LEMMA PrefsNextInv == PrefsInv /\ [PrefsNext]_pfVars => PrefsInv'
<1> SUFFICES ASSUME PrefsInv, [PrefsNext]_pfVars PROVE PrefsInv'
  OBVIOUS
<1>1. ASSUME NEW w \in Width, Resize(w) PROVE PrefsInv'
  <2>1. clamp(w) \in SIDEBAR_MIN..SIDEBAR_MAX
    BY WidthAssumption, ClampBounds DEF WidthAssumption
  <2>2. [prefs EXCEPT !.width = clamp(w)] \in Preference
    BY <2>1 DEF PrefsInv, PrefsType, Preference
  <2> QED
    BY <1>1, <2>2, SetInv DEF Resize
<1>2. CASE Flip
  <2>1. [prefs EXCEPT !.flag = ~@] \in Preference
    BY DEF PrefsInv, PrefsType, Preference
  <2> QED
    BY <1>2, <2>1, SetInv DEF Flip
<1>3. CASE TimerFires
  BY <1>3, WriteInv DEF TimerFires
<1>4. CASE Flush
  <2>1. CASE timer
    BY <1>4, <2>1, WriteInv DEF Flush
  <2>2. CASE ~timer
    BY <1>4, <2>2 DEF Flush, PrefsInv, PrefsType, LastWriteShown, Object, Sane
  <2> QED
    BY <2>1, <2>2
<1>5. CASE FlushReturns
  BY <1>5 DEF FlushReturns, PrefsInv, PrefsType, LastWriteShown, Object, Sane
<1>6. ASSUME NEW fails \in BOOLEAN, Ended(fails) PROVE PrefsInv'
  BY <1>6, EndedInv
<1>7. CASE UNCHANGED pfVars
  BY <1>7 DEF pfVars, PrefsInv, PrefsType, LastWriteShown, Object, Sane
<1> QED
  BY <1>1, <1>2, <1>3, <1>4, <1>5, <1>6, <1>7 DEF PrefsNext

(* Once no write is due or under way, the file has what is shown, or the last write
   failed: no change is ever lost between the timer, the flushes and overlapping writes. *)
THEOREM ChoicesSaved == PrefsSpec => []SettledSaved
<1>1. PrefsInv => SettledSaved
  BY DEF PrefsInv, LastWriteShown, SettledSaved
<1> QED
  BY <1>1, PrefsInitInv, PrefsNextInv, PTL DEF PrefsSpec

----------------------------------------------------------------------------
(* The connect flow (ConnectFlow).

   What is asked follows from what the parser makes of an error: a refused host key keeps
   its code and its fingerprint, and no other error is taken for one.  The refusals only
   grow, so an attempt that failed, a prompt and a trust have theirs. *)

OwnCodes == {"credential_missing", "no_secret"}
Code == {"none"} \cup OwnCodes \cup Known
ErrorType == [code : Code, keys : SUBSET Fingerprint, colon : BOOLEAN]
AttemptType ==
    [at : {"connect", "shell", "failed"}, host : Host, first : BOOLEAN, error : ErrorType]
        \cup [at : {"trust", "failed"}, host : Host, first : BOOLEAN, error : ErrorType,
              keys : SUBSET Fingerprint]
AskType == [host : Host, mode : HostKeyCodes, keys : SUBSET Fingerprint]
FlowType ==
    /\ credential \in [Host -> {"none", "gone", "empty", "kept"}]
    /\ DOMAIN attempts = Attempt
    /\ \A a \in Attempt : attempts[a] = NoAttempt \/ attempts[a] \in AttemptType
    /\ prompt \subseteq AskType

(* keys were refused by the native module, for this host and with this code. *)
WereRefused(host, code, keys, past) == keys # {} /\ \A key \in keys : <<host, code, key>> \in past

AttemptSound(attempt, past) ==
    /\ attempt.at = "failed" =>
           /\ attempt.error.code # "none"
           /\ attempt.error.code \in HostKeyCodes =>
                  WereRefused(attempt.host, attempt.error.code, attempt.error.keys, past)
    /\ attempt.at = "trust" => WereRefused(attempt.host, "host_key_unknown", attempt.keys, past)
AnswerSound(answer) ==
    answer.error.code \in HostKeyCodes /\ answer.first =>
        \E asked \in answer.as : asked.mode = answer.error.code /\ asked.keys = answer.error.keys
FlowInv ==
    /\ FlowType
    /\ \A a \in Attempt : AttemptSound(attempts[a], refusals)
    /\ \A asked \in prompt : WereRefused(asked.host, asked.mode, asked.keys, refusals)
    /\ AnswerSound(shown)

(* The text of an error: what Electron and the binding put before its display, and the
   parts of the display. *)
LEMMA CrossedShape ==
    ASSUME NEW error \in ErrorType
    PROVE  LET text == Crossed(error)
               hostKey == error.code \in HostKeyCodes
               last == IF hostKey THEN Part("none", FALSE, error.keys) ELSE Words
           IN  /\ Len(text) \in 4..6 /\ DOMAIN text = 1..Len(text)
               /\ hostKey => Len(text) = 4
               /\ text[1] = Invoking /\ text[2] = ErrorName /\ text[3] = Part(error.code, TRUE, {})
               /\ \A i \in 4..Len(text) : text[i] = last
<1> DEFINE hostKey == error.code \in HostKeyCodes
           last == IF hostKey THEN Part("none", FALSE, error.keys) ELSE Words
           code == Part(error.code, TRUE, {})
           T == {Invoking, ErrorName, code, last}
           s == <<Invoking, ErrorName, code>>
           t == Display(error)
<1>1. s \in Seq(T) /\ Len(s) = 3 /\ s[1] = Invoking /\ s[2] = ErrorName /\ s[3] = code
  <2> HIDE DEF last, code
  <2> QED
    OBVIOUS
<1>2. t \in {<<last>>, <<last, last>>, <<last, last, last>>} /\ (hostKey => t = <<last>>)
  BY DEF Display, Bare, HostKeyCodes
<1> HIDE DEF last, code, t
<1>3. /\ t \in Seq(T) /\ Len(t) \in 1..3 /\ (hostKey => Len(t) = 1)
      /\ \A i \in 1..Len(t) : t[i] = last
  <2>1. CASE t = <<last>>
    BY <2>1
  <2>2. CASE t = <<last, last>>
    BY <1>2, <2>2
  <2>3. CASE t = <<last, last, last>>
    BY <1>2, <2>3
  <2> QED
    BY <1>2, <2>1, <2>2, <2>3
<1> HIDE DEF s, T
<1>4. /\ s \o t \in Seq(T) /\ Len(s \o t) = Len(s) + Len(t)
      /\ \A i \in 1 .. Len(s) + Len(t) : (s \o t)[i] = IF i <= Len(s) THEN s[i] ELSE t[i - Len(s)]
  BY <1>1, <1>3, ConcatProperties
<1>5. Crossed(error) = s \o t
  BY DEF Crossed, s, t, code
<1> DEFINE text == s \o t
<1>6. text \in Seq(T) /\ Len(text) = 3 + Len(t) /\ DOMAIN text = 1..Len(text)
  BY <1>1, <1>4
<1>7. text[1] = Invoking /\ text[2] = ErrorName /\ text[3] = code
  BY <1>1, <1>3, <1>4
<1>8. ASSUME NEW i \in 4..Len(text) PROVE text[i] = last
  <2>1. i \in 1 .. Len(s) + Len(t) /\ ~(i <= Len(s)) /\ i - Len(s) \in 1..Len(t)
    BY <1>1, <1>3, <1>6
  <2>2. text[i] = t[i - Len(s)]
    BY <1>4, <2>1
  <2> QED
    BY <1>3, <2>1, <2>2
<1> HIDE DEF text
<1>9. Len(text) \in 4..6 /\ (hostKey => Len(text) = 4)
  <2>1. PICK n \in 1..3 : Len(t) = n
    BY <1>3
  <2>2. Len(text) = 3 + n
    BY <1>6, <2>1
  <2>3. hostKey => n = 1
    BY <1>3, <2>1
  <2> HIDE DEF hostKey
  <2> QED
    BY <2>2, <2>3
<1>10. text = Crossed(error)
  BY <1>5 DEF text
<1>11. \A i \in 4..Len(text) : text[i] = last
  BY <1>8
<1> QED
  BY <1>6, <1>7, <1>9, <1>10, <1>11, Zenon DEF last, code

(* Its last "Error" is the one that Electron wrote. *)
LEMMA LastErrorIsSecond ==
    ASSUME NEW error \in ErrorType, error.code # "none"
    PROVE  AfterLastError(Crossed(error)) = SubSeq(Crossed(error), 3, Len(Crossed(error)))
<1> DEFINE text == Crossed(error)
           IsLast(i) == text[i] = ErrorName /\ \A j \in DOMAIN text : text[j] = ErrorName => j <= i
<1>1. /\ Len(text) \in 4..6 /\ DOMAIN text = 1..Len(text)
      /\ text[1] = Invoking /\ text[2] = ErrorName /\ text[3] = Part(error.code, TRUE, {})
      /\ \A i \in 4..Len(text) : text[i] = Part("none", FALSE, error.keys) \/ text[i] = Words
  BY CrossedShape
<1>2. error.code # "rror"
  BY DEF ErrorType, Code, OwnCodes, Known, HostKeyCodes, WithMessage, Bare
<1> HIDE DEF text
<1>3. Part(error.code, TRUE, {}) # ErrorName /\ Part("none", FALSE, error.keys) # ErrorName /\ Words # ErrorName
  BY <1>2 DEF Part, ErrorName, Words
<1>4. \A i \in DOMAIN text : text[i] = ErrorName => i <= 2
  <2> SUFFICES ASSUME NEW i \in DOMAIN text, ~(i <= 2) PROVE text[i] # ErrorName
    BY <1>1
  <2>1. i = 3 \/ i \in 4..Len(text)
    BY <1>1
  <2> QED
    BY <1>1, <1>3, <2>1
<1>5. 2 \in DOMAIN text /\ IsLast(2)
  BY <1>1, <1>4
<1>6. \A i \in DOMAIN text : IsLast(i) => i = 2
  <2> TAKE i \in DOMAIN text
  <2>1. IsLast(i) => i <= 2 /\ 2 <= i
    BY <1>4, <1>5
  <2>2. i \in Nat
    BY <1>1
  <2> QED
    BY <2>1, <2>2
<1> HIDE DEF IsLast
<1>7. (CHOOSE i \in DOMAIN text : IsLast(i)) = 2
  BY <1>5, <1>6
<1>8. AfterLastError(text) = SubSeq(text, (CHOOSE i \in DOMAIN text : IsLast(i)) + 1, Len(text))
  BY DEF AfterLastError, IsLast
<1>9. 2 + 1 = 3
  OBVIOUS
<1> QED
  BY <1>7, <1>8, <1>9 DEF text

(* What the parser makes of it: a refused host key as it was refused, and anything else
   as "unknown". *)
LEMMA HostKeyParsed ==
    ASSUME NEW error \in ErrorType, error.code \in HostKeyCodes
    PROVE  Parsed(Crossed(error)) = [code |-> error.code, keys |-> error.keys]
<1> DEFINE text == Crossed(error)
           code == Part(error.code, TRUE, {})
           last == Part("none", FALSE, error.keys)
           rest == SubSeq(text, 3, 4)
<1>1. Len(text) = 4 /\ DOMAIN text = 1..4 /\ text[3] = code /\ text[4] = last
  <2>1. /\ Len(text) = 4 /\ DOMAIN text = 1..Len(text) /\ text[3] = code
        /\ \A i \in 4..Len(text) : text[i] = last
    BY CrossedShape
  <2> HIDE DEF text, code, last
  <2>2. 4 \in 4..Len(text)
    BY <2>1
  <2> QED
    BY <2>1, <2>2
<1>2. AfterLastError(text) = rest
  BY <1>1, LastErrorIsSecond DEF HostKeyCodes
<1> HIDE DEF text, code, last
<1>3. rest \in Seq({code, last}) /\ Len(rest) = 2 /\ rest[1] = code /\ rest[2] = last
  <2>1. \A i \in 3..4 : text[i] \in {code, last}
    BY <1>1
  <2>2. /\ rest \in Seq({code, last}) /\ Len(rest) = IF 3 <= 4 THEN 4 - 3 + 1 ELSE 0
        /\ \A i \in 1..4 - 3 + 1 : rest[i] = text[3 + i - 1]
    BY <2>1, SubSeqProperties
  <2> QED
    BY <1>1, <2>2
<1> HIDE DEF rest
<1>4. DOMAIN rest = 1..2
  BY <1>3
<1>5. code.word = error.code /\ code.whole /\ code.keys = {} /\ last.keys = error.keys
  BY DEF code, last, Part
<1>6. Mentions(rest)
  BY <1>3, <1>4, <1>5 DEF Mentions
<1>7. Keys(rest) = error.keys
  BY <1>3, <1>4, <1>5 DEF Keys
<1> QED
  BY <1>2, <1>3, <1>5, <1>6, <1>7 DEF Parsed, text

LEMMA OthersUnknown ==
    ASSUME NEW error \in ErrorType, error.code \notin HostKeyCodes, error.code # "none"
    PROVE  Parsed(Crossed(error)) = [code |-> "unknown", keys |-> {}]
<1> DEFINE text == Crossed(error)
           code == Part(error.code, TRUE, {})
           rest == SubSeq(text, 3, Len(text))
           hits == {i \in 1..(Len(text) - 1) : text[i].word # "none"}
           First(i) == \A j \in hits : i <= j
<1>1. /\ Len(text) \in 4..6 /\ DOMAIN text = 1..Len(text)
      /\ text[1] = Invoking /\ text[2] = ErrorName /\ text[3] = code
      /\ \A i \in 4..Len(text) : text[i] = Words
  BY CrossedShape
<1>2. AfterLastError(text) = rest
  BY LastErrorIsSecond
<1>3. /\ code.word = error.code /\ Words.word = "failed" /\ ErrorName.word = "rror"
      /\ Invoking.word = "none" /\ ~Invoking.whole
  BY DEF code, Part, Words, ErrorName, Invoking
<1> HIDE DEF text, code
<1>4. ~Mentions(rest)
  <2> DEFINE n == Len(text)
  <2>1. \A i \in 3..n : text[i] \in {code, Words}
    BY <1>1
  <2>2. /\ rest \in Seq({code, Words}) /\ Len(rest) = IF 3 <= n THEN n - 3 + 1 ELSE 0
        /\ \A i \in 1..n - 3 + 1 : rest[i] = text[3 + i - 1]
    BY <1>1, <2>1, SubSeqProperties
  <2> HIDE DEF rest
  <2>3. \A i \in DOMAIN rest : rest[i] \in {code, Words}
    BY <2>2
  <2> QED
    BY <1>3, <2>3 DEF Mentions, HostKeyCodes
<1>5. Parsed(text) = Fallback(text)
  BY <1>1, <1>2, <1>3, <1>4 DEF Parsed
<1>6. 2 \in hits /\ 1 \notin hits /\ hits \subseteq 1..5
  BY <1>1, <1>3
<1> HIDE DEF hits
<1>7. 2 \in hits /\ First(2) /\ \A i \in hits : First(i) => i = 2
  <2>1. First(2)
    BY <1>6
  <2>2. ASSUME NEW i \in hits, First(i) PROVE i = 2
    <3>1. i <= 2 /\ i \in 1..5 /\ i # 1
      BY <1>6, <2>2
    <3> QED
      BY <3>1
  <2> QED
    BY <1>6, <2>1, <2>2
<1> HIDE DEF First
<1>8. (CHOOSE i \in hits : First(i)) = 2
  BY <1>7
<1>9. text[CHOOSE i \in hits : First(i)].word = "rror"
  BY <1>1, <1>3, <1>8
<1>10. "rror" \notin Known
  BY DEF Known, HostKeyCodes, WithMessage, Bare
<1> QED
  BY <1>5, <1>9, <1>10 DEF Fallback, First, hits, text

LEMMA CaughtFacts ==
    ASSUME NEW error \in ErrorType, error.code # "none"
    PROVE  /\ error.code \in HostKeyCodes => Caught(error) = [code |-> error.code, keys |-> error.keys]
           /\ error.code \notin HostKeyCodes => Caught(error).code \notin HostKeyCodes
<1>1. error.code \in HostKeyCodes => Caught(error) = [code |-> error.code, keys |-> error.keys]
  BY HostKeyParsed DEF Caught, HostKeyCodes
<1>2. error.code \notin HostKeyCodes => Caught(error).code \notin HostKeyCodes
  BY OthersUnknown DEF Caught, HostKeyCodes
<1> QED
  BY <1>1, <1>2

LEMMA RefusalTyped ==
    ASSUME NEW at \in DOMAIN Refusal, NEW error \in Refusal[at]
    PROVE  /\ error \in ErrorType /\ error.code # "none"
           /\ error.code \in HostKeyCodes => error.keys # {}
<1> USE DEF Refusal, ErrorType, Code, OwnCodes, Known, HostKeyCodes, WithMessage, Bare
<1>1. CASE at = "connect"
  <2>1. CASE error \in [code : HostKeyCodes, keys : {{f} : f \in Fingerprint}, colon : {FALSE}]
    BY <2>1
  <2>2. CASE error \in [code : {"connect", "auth"}, keys : {{}}, colon : BOOLEAN]
    BY <2>2
  <2>3. CASE error \in [code : {"timeout"}, keys : {{}}, colon : {FALSE}]
    BY <2>3
  <2> QED
    BY <1>1, <2>1, <2>2, <2>3
<1>2. CASE at = "shell"
  <2>1. CASE error \in [code : {"connect"}, keys : {{}}, colon : BOOLEAN]
    BY <2>1
  <2>2. CASE error \in [code : {"no_such_session"}, keys : {{}}, colon : {FALSE}]
    BY <2>2
  <2> QED
    BY <1>2, <2>1, <2>2
<1>3. CASE at = "trust"
  BY <1>3
<1> QED
  BY <1>1, <1>2, <1>3

LEMMA NoErrorTyped ==
    /\ NoError \in ErrorType /\ NoError.code = "none"
    /\ \A code \in OwnCodes : /\ [NoError EXCEPT !.code = code] \in ErrorType
                             /\ [NoError EXCEPT !.code = code].code = code
  BY DEF NoError, ErrorType, Code, OwnCodes

(* A step that puts a sound attempt, or none, into slot a and forgets no refusal. *)
LEMMA SlotKept ==
    ASSUME FlowInv, NEW a \in Attempt, NEW attempt, attempt = NoAttempt \/ attempt \in AttemptType,
           attempts' = [attempts EXCEPT ![a] = attempt], refusals \subseteq refusals',
           AttemptSound(attempt, refusals'),
           prompt' \subseteq AskType, \A asked \in prompt' : WereRefused(asked.host, asked.mode, asked.keys, refusals'),
           AnswerSound(shown'), credential' = credential
    PROVE  FlowInv'
<1>1. attempts'[a] = attempt /\ DOMAIN attempts' = Attempt
      /\ \A b \in Attempt : b # a => attempts'[b] = attempts[b]
  BY DEF FlowInv, FlowType
<1>2. FlowType'
  BY <1>1 DEF FlowInv, FlowType
<1>3. ASSUME NEW b \in Attempt PROVE AttemptSound(attempts[b], refusals)'
  <2>1. CASE b = a
    BY <1>1, <2>1 DEF AttemptSound, WereRefused
  <2>2. CASE b # a
    BY <1>1, <2>2 DEF FlowInv, AttemptSound, WereRefused
  <2> QED
    BY <2>1, <2>2
<1> QED
  BY <1>2, <1>3 DEF FlowInv, AnswerSound

(* What is asked stays justified while no refusal is forgotten. *)
LEMMA PromptKept ==
    ASSUME FlowInv, prompt' \subseteq prompt, refusals \subseteq refusals'
    PROVE  /\ prompt' \subseteq AskType
           /\ \A asked \in prompt' : WereRefused(asked.host, asked.mode, asked.keys, refusals')
  BY DEF FlowInv, FlowType, WereRefused

LEMMA BegunKept ==
    ASSUME FlowInv, NEW a \in Attempt, NEW host \in Host, NEW first \in BOOLEAN, Begun(a, host, first),
           UNCHANGED <<credential, prompt, refusals, shown>>
    PROVE  FlowInv'
<1> DEFINE own(code) == [at |-> "failed", host |-> host, first |-> first,
                         error |-> [NoError EXCEPT !.code = code]]
           fresh == [at |-> "connect", host |-> host, first |-> first, error |-> NoError]
<1>1. PICK attempt : /\ attempts' = [attempts EXCEPT ![a] = attempt]
                     /\ attempt \in {NoAttempt, fresh} \/ \E code \in OwnCodes : attempt = own(code)
  <2>1. credential[host] \in {"none", "gone", "empty", "kept"}
    BY DEF FlowInv, FlowType
  <2>2. DOMAIN OwnError = {"gone", "empty"} /\ \A why \in {"gone", "empty"} : OwnError[why] \in OwnCodes
    BY DEF OwnError, OwnCodes
  <2>3. CASE credential[host] = "none"
    BY <2>2, <2>3 DEF Begun
  <2>4. CASE credential[host] \in {"gone", "empty"}
    <3>1. attempts' = [attempts EXCEPT ![a] = own(OwnError[credential[host]])]
      BY <2>2, <2>4 DEF Begun
    <3> QED
      BY <2>2, <2>4, <3>1
  <2>5. CASE credential[host] = "kept"
    BY <2>2, <2>5 DEF Begun
  <2> QED
    BY <2>1, <2>3, <2>4, <2>5
<1>2. fresh \in AttemptType /\ \A code \in OwnCodes : own(code) \in AttemptType
  BY NoErrorTyped DEF AttemptType
<1>3. /\ AttemptSound(fresh, refusals') /\ AttemptSound(NoAttempt, refusals')
      /\ \A code \in OwnCodes : AttemptSound(own(code), refusals')
  BY NoErrorTyped DEF AttemptSound, NoAttempt, HostKeyCodes, OwnCodes
<1> HIDE DEF own, fresh
<1>4. attempt = NoAttempt \/ attempt \in AttemptType
  BY <1>1, <1>2
<1>5. AttemptSound(attempt, refusals')
  BY <1>1, <1>3
<1>6. AnswerSound(shown')
  BY DEF FlowInv
<1>7. prompt' \subseteq AskType /\ \A asked \in prompt' : WereRefused(asked.host, asked.mode, asked.keys, refusals')
  BY PromptKept
<1> QED
  BY <1>1, <1>4, <1>5, <1>6, <1>7, SlotKept

LEMMA AcceptedKept == ASSUME FlowInv, NEW a \in Attempt, Accepted(a) PROVE FlowInv'
<1> DEFINE attempt == attempts[a]
<1>1. /\ attempt.at \in {"connect", "shell", "trust"} /\ UNCHANGED <<credential, prompt, refusals, shown>>
      /\ attempt \in AttemptType
  BY DEF Accepted, FlowInv, FlowType, NoAttempt
<1>2. AnswerSound(shown')
  BY <1>1 DEF FlowInv
<1>3. prompt' \subseteq AskType /\ \A asked \in prompt' : WereRefused(asked.host, asked.mode, asked.keys, refusals')
  BY <1>1, PromptKept
<1>4. CASE attempt.at = "connect"
  <2> DEFINE new == [attempt EXCEPT !.at = "shell"]
  <2>1. attempts' = [attempts EXCEPT ![a] = new]
    BY <1>4 DEF Accepted, FlowInv, FlowType
  <2>2. new \in AttemptType /\ new.at = "shell"
    BY <1>1, <1>4 DEF AttemptType
  <2> HIDE DEF new
  <2>3. AttemptSound(new, refusals')
    BY <2>2 DEF AttemptSound
  <2> QED
    BY <1>1, <1>2, <1>3, <2>1, <2>2, <2>3, SlotKept
<1>5. CASE attempt.at = "shell"
  <2>1. attempts' = [attempts EXCEPT ![a] = NoAttempt]
    BY <1>5 DEF Accepted
  <2>2. AttemptSound(NoAttempt, refusals')
    BY DEF AttemptSound, NoAttempt
  <2> QED
    BY <1>1, <1>2, <1>3, <2>1, <2>2, SlotKept
<1>6. CASE attempt.at = "trust"
  <2>1. Begun(a, attempt.host, FALSE)
    BY <1>6 DEF Accepted
  <2>2. attempt.host \in Host
    BY <1>1 DEF AttemptType
  <2> QED
    BY <1>1, <2>1, <2>2, BegunKept
<1> QED
  BY <1>1, <1>4, <1>5, <1>6

LEMMA RefusedKept ==
    ASSUME FlowInv, NEW a \in Attempt, NEW error, Refused(a, error) PROVE FlowInv'
<1> DEFINE attempt == attempts[a]
           new == [attempt EXCEPT !.at = "failed", !.error = error]
<1>1. /\ attempt.at \in DOMAIN Refusal /\ error \in Refusal[attempt.at]
      /\ refusals' = refusals \cup {<<attempt.host, error.code, key>> : key \in error.keys}
      /\ UNCHANGED <<credential, prompt, shown>>
      /\ attempts' = [attempts EXCEPT ![a].at = "failed", ![a].error = error]
  BY DEF Refused
<1>2. attempt.at # "none"
  BY <1>1 DEF Refusal
<1>3. attempt \in AttemptType
  BY <1>2 DEF FlowInv, FlowType, NoAttempt
<1>4. /\ error \in ErrorType /\ error.code # "none"
      /\ error.code \in HostKeyCodes => error.keys # {}
  BY <1>1, RefusalTyped
<1>5. attempts' = [attempts EXCEPT ![a] = new]
  BY <1>1 DEF FlowInv, FlowType
<1>6. new \in AttemptType /\ new.at = "failed" /\ new.error = error /\ new.host = attempt.host
  BY <1>3, <1>4 DEF AttemptType
<1> HIDE DEF new
<1>7. AttemptSound(new, refusals')
  BY <1>1, <1>4, <1>6 DEF AttemptSound, WereRefused
<1>8. AnswerSound(shown')
  BY <1>1 DEF FlowInv
<1>9. prompt' \subseteq AskType /\ \A asked \in prompt' : WereRefused(asked.host, asked.mode, asked.keys, refusals')
  BY <1>1, PromptKept
<1> QED
  BY <1>1, <1>5, <1>6, <1>7, <1>8, <1>9, SlotKept

LEMMA FailedKept == ASSUME FlowInv, NEW a \in Attempt, Failed(a) PROVE FlowInv'
<1> DEFINE attempt == attempts[a]
           error == attempt.error
           core == Caught(error)
           asks == IF attempt.first THEN Asks(core, attempt.host) ELSE {}
<1>1. /\ attempt.at = "failed" /\ attempts' = [attempts EXCEPT ![a] = NoAttempt]
      /\ prompt' = IF asks = {} THEN prompt ELSE asks
      /\ shown' = [error |-> error, first |-> attempt.first, as |-> asks, code |-> core.code]
      /\ UNCHANGED <<credential, refusals>>
  BY DEF Failed
<1>2. attempt \in AttemptType
  BY <1>1 DEF FlowInv, FlowType, NoAttempt
<1>3. error \in ErrorType /\ error.code # "none" /\ attempt.host \in Host
  BY <1>1, <1>2 DEF AttemptType, FlowInv, AttemptSound
<1>4. /\ error.code \in HostKeyCodes => core = [code |-> error.code, keys |-> error.keys]
      /\ error.code \notin HostKeyCodes => core.code \notin HostKeyCodes
  BY <1>3, CaughtFacts
<1> HIDE DEF core
<1>5. error.code \in HostKeyCodes => WereRefused(attempt.host, error.code, error.keys, refusals)
  BY <1>1 DEF FlowInv, AttemptSound
<1>6. asks # {} =>
        /\ error.code \in HostKeyCodes
        /\ asks = {[host |-> attempt.host, mode |-> error.code, keys |-> error.keys]}
  BY <1>4 DEF Asks
<1>7. attempt.first /\ error.code \in HostKeyCodes =>
        asks = {[host |-> attempt.host, mode |-> error.code, keys |-> error.keys]}
  BY <1>4 DEF Asks
<1> HIDE DEF asks
<1>8. AnswerSound(shown')
  <2>1. /\ shown'.error = error /\ shown'.first = attempt.first /\ shown'.as = asks
    BY <1>1
  <2> SUFFICES ASSUME error.code \in HostKeyCodes, attempt.first
               PROVE  \E asked \in asks : asked.mode = error.code /\ asked.keys = error.keys
    BY <2>1 DEF AnswerSound
  <2>2. asks = {[host |-> attempt.host, mode |-> error.code, keys |-> error.keys]}
    BY <1>7
  <2> QED
    BY <2>2
<1>9. prompt' \subseteq AskType /\ \A asked \in prompt' : WereRefused(asked.host, asked.mode, asked.keys, refusals')
  <2>1. CASE asks = {}
    BY <1>1, <2>1, PromptKept
  <2>2. CASE asks # {}
    <3>1. prompt' = {[host |-> attempt.host, mode |-> error.code, keys |-> error.keys]}
      BY <1>1, <1>6, <2>2
    <3>2. error.code \in HostKeyCodes /\ error.keys \in SUBSET Fingerprint
      BY <1>3, <1>6, <2>2 DEF ErrorType
    <3>3. prompt' \subseteq AskType
      BY <1>3, <3>1, <3>2 DEF AskType
    <3> QED
      BY <1>1, <1>5, <3>1, <3>2, <3>3 DEF WereRefused
  <2> QED
    BY <2>1, <2>2
<1>10. AttemptSound(NoAttempt, refusals')
  BY DEF AttemptSound, NoAttempt
<1> QED
  BY <1>1, <1>8, <1>9, <1>10, SlotKept

LEMMA TrustAskKept == ASSUME FlowInv, NEW a \in Attempt, Trust(a) PROVE FlowInv'
<1>1. PICK asked \in prompt :
        /\ asked.mode = "host_key_unknown"
        /\ attempts' = [attempts EXCEPT ![a] =
               [at |-> "trust", host |-> asked.host, first |-> FALSE, error |-> NoError, keys |-> asked.keys]]
  BY DEF Trust
<1> DEFINE new == [at |-> "trust", host |-> asked.host, first |-> FALSE, error |-> NoError, keys |-> asked.keys]
<1>2. asked \in AskType /\ WereRefused(asked.host, "host_key_unknown", asked.keys, refusals)
  BY <1>1 DEF FlowInv, FlowType
<1>3. prompt' = {} /\ UNCHANGED <<credential, refusals, shown>>
  BY DEF Trust
<1>4. new \in AttemptType /\ new.at = "trust" /\ new.host = asked.host /\ new.keys = asked.keys
  BY <1>2, NoErrorTyped DEF AttemptType, AskType
<1>5. attempts' = [attempts EXCEPT ![a] = new]
  BY <1>1
<1> HIDE DEF new
<1>6. AttemptSound(new, refusals')
  BY <1>2, <1>3, <1>4 DEF AttemptSound, WereRefused
<1>7. AnswerSound(shown')
  BY <1>3 DEF FlowInv
<1>8. prompt' \subseteq AskType /\ \A ask \in prompt' : WereRefused(ask.host, ask.mode, ask.keys, refusals')
  BY <1>3
<1> QED
  BY <1>3, <1>4, <1>5, <1>6, <1>7, <1>8, SlotKept

LEMMA FlowNextInv == FlowInv /\ [FlowNext]_cfVars => FlowInv'
<1> SUFFICES ASSUME FlowInv, [FlowNext]_cfVars PROVE FlowInv'
  OBVIOUS
<1>1. ASSUME NEW a \in Attempt, NEW host \in Host, Start(a, host) PROVE FlowInv'
  BY <1>1, BegunKept DEF Start
<1>2. CASE Cancel
  BY <1>2 DEF Cancel, FlowInv, FlowType, AttemptSound, AnswerSound, WereRefused
<1>3. CASE UNCHANGED cfVars
  BY <1>3 DEF cfVars, FlowInv, FlowType, AttemptSound, AnswerSound, WereRefused
<1> QED
  BY <1>1, <1>2, <1>3, AcceptedKept, RefusedKept, FailedKept, TrustAskKept DEF FlowNext

LEMMA FlowInitInv == FlowInit => FlowInv
<1> SUFFICES ASSUME FlowInit PROVE FlowInv
  OBVIOUS
<1>1. FlowType /\ \A a \in Attempt : AttemptSound(attempts[a], refusals)
  BY DEF FlowInit, FlowType, AttemptSound, NoAttempt
<1>2. AnswerSound(shown) /\ prompt = {}
  BY NoErrorTyped DEF FlowInit, AnswerSound, HostKeyCodes
<1> QED
  BY <1>1, <1>2 DEF FlowInv

(* A refused host key always gets the user asked, in the mode of that refusal and with its
   fingerprint, however many attempts overlap; and a trust only goes to the native module
   with a host and a key that were refused together as unknown. *)
THEOREM KeysAsked == FlowSpec => []HostKeyAsked
<1>1. FlowInv => HostKeyAsked
  <2> SUFFICES ASSUME FlowInv PROVE HostKeyAsked
    OBVIOUS
  <2>1. ASSUME NEW a \in Attempt, attempts[a].at = "trust"
        PROVE  \E key \in attempts[a].keys : <<attempts[a].host, "host_key_unknown", key>> \in refusals
    BY <2>1 DEF FlowInv, AttemptSound, WereRefused
  <2> QED
    BY <2>1 DEF FlowInv, AnswerSound, HostKeyAsked
<1> QED
  BY <1>1, FlowInitInv, FlowNextInv, PTL DEF FlowSpec

----------------------------------------------------------------------------
(* What crosses to the native module and back (Ipc).

   A number survives its way through a text of decimal digits.  Both conversions are
   recursive functions, so each is shown to exist before it is reasoned about, and what
   they compute follows by the least number for which it would not. *)

DigitStep(f, n) == IF n < 10 THEN <<n>> ELSE Append(f[n \div 10], n % 10)
ValueStep(f, text, n) == IF n = 0 THEN 0 ELSE 10 * f[n - 1] + text[n]
IsValue(f, text) == f = [n \in 0..Len(text) |-> ValueStep(f, text, n)]

LEMMA DigitsExist ==
    ASSUME NEW m \in Nat
    PROVE  \E f : f = [n \in 0..m |-> DigitStep(f, n)]
<1> DEFINE T == {k \in Nat : ~ \E f : f = [n \in 0..k |-> DigitStep(f, n)]}
<1> SUFFICES ASSUME T # {} PROVE FALSE
  OBVIOUS
<1>1. PICK k \in T : \A j \in T : k <= j
  BY LeastNat
<1>2. CASE k = 0
  <2> DEFINE g == [n \in 0..0 |-> <<n>>]
  <2>1. g = [n \in 0..0 |-> DigitStep(g, n)]
    BY DEF DigitStep
  <2> QED
    BY <1>2, <2>1
<1>3. CASE k # 0
  <2>1. k - 1 \in Nat /\ k - 1 \notin T
    BY <1>1, <1>3
  <2>2. PICK f : f = [n \in 0..(k - 1) |-> DigitStep(f, n)]
    BY <2>1
  <2> DEFINE last == DigitStep(f, k)
             g == [n \in 0..k |-> IF n = k THEN last ELSE f[n]]
  <2>3. \A n \in 0..k : DigitStep(g, n) = DigitStep(f, n)
    <3> TAKE n \in 0..k
    <3>1. CASE n < 10
      BY <3>1 DEF DigitStep
    <3>2. CASE ~(n < 10)
      <4>1. n \div 10 \in 0..k /\ n \div 10 # k
        BY <3>2
      <4>2. g[n \div 10] = f[n \div 10]
        BY <4>1
      <4> QED
        BY <3>2, <4>2 DEF DigitStep
    <3> QED
      BY <3>1, <3>2
  <2>4. \A n \in 0..k : g[n] = DigitStep(g, n)
    <3> TAKE n \in 0..k
    <3>1. CASE n = k
      BY <3>1, <2>3
    <3>2. CASE n # k
      <4>1. n \in 0..(k - 1)
        BY <3>2
      <4>2. f[n] = DigitStep(f, n)
        BY <2>2, <4>1
      <4> QED
        BY <3>2, <4>2, <2>3
    <3> QED
      BY <3>1, <3>2
  <2>5. g = [n \in 0..k |-> DigitStep(g, n)]
    BY <2>4
  <2> QED
    BY <2>5
<1> QED
  BY <1>2, <1>3

LEMMA ValueExists ==
    ASSUME NEW text, NEW m \in Nat
    PROVE  \E f : f = [n \in 0..m |-> ValueStep(f, text, n)]
<1> DEFINE T == {k \in Nat : ~ \E f : f = [n \in 0..k |-> ValueStep(f, text, n)]}
<1> SUFFICES ASSUME T # {} PROVE FALSE
  OBVIOUS
<1>1. PICK k \in T : \A j \in T : k <= j
  BY LeastNat
<1>2. CASE k = 0
  <2> DEFINE g == [n \in 0..0 |-> 0]
  <2>1. g = [n \in 0..0 |-> ValueStep(g, text, n)]
    BY DEF ValueStep
  <2> QED
    BY <1>2, <2>1
<1>3. CASE k # 0
  <2>1. k - 1 \in Nat /\ k - 1 \notin T
    BY <1>1, <1>3
  <2>2. PICK f : f = [n \in 0..(k - 1) |-> ValueStep(f, text, n)]
    BY <2>1
  <2> DEFINE last == ValueStep(f, text, k)
             g == [n \in 0..k |-> IF n = k THEN last ELSE f[n]]
  <2>3. \A n \in 0..k : ValueStep(g, text, n) = ValueStep(f, text, n)
    <3> TAKE n \in 0..k
    <3>1. CASE n = 0
      BY <3>1 DEF ValueStep
    <3>2. CASE n # 0
      <4>1. n - 1 \in 0..k /\ n - 1 # k
        BY <3>2
      <4>2. g[n - 1] = f[n - 1]
        BY <4>1
      <4> QED
        BY <3>2, <4>2 DEF ValueStep
    <3> QED
      BY <3>1, <3>2
  <2>4. \A n \in 0..k : g[n] = ValueStep(g, text, n)
    <3> TAKE n \in 0..k
    <3>1. CASE n = k
      BY <3>1, <2>3
    <3>2. CASE n # k
      <4>1. n \in 0..(k - 1)
        BY <3>2
      <4>2. f[n] = ValueStep(f, text, n)
        BY <2>2, <4>1
      <4> QED
        BY <3>2, <4>2, <2>3
    <3> QED
      BY <3>1, <3>2
  <2>5. g = [n \in 0..k |-> ValueStep(g, text, n)]
    BY <2>4
  <2> QED
    BY <2>5
<1> QED
  BY <1>2, <1>3

(* Texts that begin alike have the same value up to there. *)
LEMMA ValuesAgree ==
    ASSUME NEW text \in Seq(Nat), NEW more \in Seq(Nat), NEW m \in 0..Len(text),
           m <= Len(more), \A i \in 1..m : text[i] = more[i],
           NEW f, IsValue(f, text), NEW g, IsValue(g, more)
    PROVE  f[m] = g[m] /\ f[m] \in Nat
<1>0. m \in Nat /\ m \in 0..m /\ Len(text) \in Nat /\ Len(more) \in Nat
  OBVIOUS
<1> DEFINE T == {k \in 0..m : ~ (f[k] = g[k] /\ f[k] \in Nat)}
<1> SUFFICES ASSUME T # {} PROVE FALSE
  BY <1>0
<1>1. PICK k \in T : \A j \in T : k <= j
  <2>1. T \subseteq Nat
    OBVIOUS
  <2> QED
    BY <2>1, LeastNat
<1>2. k \in 0..m /\ k \in Nat /\ k \in 0..Len(text) /\ k \in 0..Len(more)
  BY <1>0
<1>3. f[k] = ValueStep(f, text, k) /\ g[k] = ValueStep(g, more, k)
  BY <1>2 DEF IsValue
<1>4. CASE k = 0
  BY <1>3, <1>4 DEF ValueStep
<1>5. CASE k # 0
  <2>1. k - 1 \in 0..m /\ k - 1 \notin T
    BY <1>0, <1>1, <1>2, <1>5
  <2>2. f[k - 1] = g[k - 1] /\ f[k - 1] \in Nat
    BY <2>1
  <2>3. k \in 1..m /\ k \in 1..Len(text)
    BY <1>2, <1>5
  <2>4. text[k] = more[k]
    BY <2>3
  <2>5. text[k] \in Nat
    BY <2>3
  <2>6. f[k] = 10 * f[k - 1] + text[k] /\ g[k] = 10 * g[k - 1] + more[k]
    BY <1>3, <1>5 DEF ValueStep
  <2> QED
    BY <2>2, <2>4, <2>5, <2>6
<1> QED
  BY <1>4, <1>5

LEMMA BigIntIs ==
    ASSUME NEW text \in Seq(Nat)
    PROVE  \E f : IsValue(f, text) /\ BigInt(text) = f[Len(text)]
<1> DEFINE f == CHOOSE g : g = [n \in 0..Len(text) |-> ValueStep(g, text, n)]
<1>1. f = [n \in 0..Len(text) |-> ValueStep(f, text, n)]
  BY ValueExists
<1>2. BigInt(text) = f[Len(text)]
  BY DEF BigInt, ValueStep
<1> QED
  BY <1>1, <1>2 DEF IsValue

(* A digit more is a factor of ten and that digit. *)
LEMMA BigIntLonger ==
    ASSUME NEW text \in Seq(Nat), NEW more \in Seq(Nat), NEW n \in Nat,
           Len(text) = n, Len(more) = n + 1, \A i \in 1..n : text[i] = more[i]
    PROVE  BigInt(more) = 10 * BigInt(text) + more[n + 1]
<1>1. PICK f : IsValue(f, text) /\ BigInt(text) = f[Len(text)]
  BY BigIntIs
<1>2. PICK g : IsValue(g, more) /\ BigInt(more) = g[Len(more)]
  BY BigIntIs
<1>3. f[n] = g[n]
  <2>1. n \in 0..Len(text) /\ n <= Len(more)
    OBVIOUS
  <2> QED
    BY <1>1, <1>2, <2>1, ValuesAgree
<1>4. g[n + 1] = ValueStep(g, more, n + 1)
  <2>1. n + 1 \in 0..Len(more)
    OBVIOUS
  <2> QED
    BY <1>2, <2>1 DEF IsValue
<1>5. g[n + 1] = 10 * g[n] + more[n + 1]
  <2>1. n + 1 # 0 /\ (n + 1) - 1 = n
    OBVIOUS
  <2> QED
    BY <1>4, <2>1 DEF ValueStep
<1> QED
  BY <1>1, <1>2, <1>3, <1>5

LEMMA BigIntAppend ==
    ASSUME NEW text \in Seq(Nat), NEW d \in Nat
    PROVE  BigInt(Append(text, d)) = 10 * BigInt(text) + d
<1> DEFINE more == Append(text, d)
           n == Len(text)
<1>1. more \in Seq(Nat) /\ Len(more) = n + 1 /\ more[n + 1] = d
  BY AppendProperties
<1>2. \A i \in 1..n : text[i] = more[i]
  BY AppendProperties
<1>3. n \in Nat /\ Len(text) = n
  OBVIOUS
<1> HIDE DEF more, n
<1>4. BigInt(more) = 10 * BigInt(text) + more[n + 1]
  BY <1>1, <1>2, <1>3, BigIntLonger
<1>5. BigInt(more) = 10 * BigInt(text) + d
  BY <1>1, <1>4
<1> QED
  BY <1>5 DEF more

LEMMA BigIntDigit ==
    ASSUME NEW d \in Nat
    PROVE  BigInt(<<d>>) = d
<1>1. <<>> \in Seq(Nat) /\ Append(<<>>, d) = <<d>> /\ Len(<<>>) = 0
  OBVIOUS
<1>2. PICK f : IsValue(f, <<>>) /\ BigInt(<<>>) = f[Len(<<>>)]
  BY <1>1, BigIntIs
<1>3. BigInt(<<>>) = 0
  <2>1. 0 \in 0..Len(<<>>)
    BY <1>1
  <2>2. f[0] = ValueStep(f, <<>>, 0)
    BY <1>2, <2>1 DEF IsValue
  <2> QED
    BY <1>1, <1>2, <2>2 DEF ValueStep
<1>4. BigInt(Append(<<>>, d)) = 10 * BigInt(<<>>) + d
  BY <1>1, BigIntAppend
<1> QED
  BY <1>1, <1>3, <1>4

(* BigInt gives back what toString was given. *)
LEMMA NumberCrosses ==
    ASSUME NEW n \in Nat
    PROVE  BigInt(Decimal(n)) = n
<1> DEFINE f == CHOOSE g : g = [i \in 0..n |-> DigitStep(g, i)]
<1>1. f = [i \in 0..n |-> DigitStep(f, i)]
  BY DigitsExist
<1>2. Decimal(n) = f[n]
  BY DEF Decimal, Digits, DigitStep
<1> HIDE DEF f
<1> DEFINE T == {k \in 0..n : ~ (f[k] \in Seq(Nat) /\ BigInt(f[k]) = k)}
<1>3. T = {}
  <2> SUFFICES ASSUME T # {} PROVE FALSE
    OBVIOUS
  <2>1. PICK k \in T : \A j \in T : k <= j
    <3>1. T \subseteq Nat
      OBVIOUS
    <3> QED
      BY <3>1, LeastNat
  <2>2. k \in 0..n /\ k \in Nat /\ f[k] = DigitStep(f, k)
    BY <1>1
  <2>3. CASE k < 10
    <3>1. f[k] = <<k>>
      BY <2>2, <2>3 DEF DigitStep
    <3>2. <<k>> \in Seq(Nat)
      BY <2>2
    <3> QED
      BY <2>2, <3>1, <3>2, BigIntDigit
  <2>4. CASE ~(k < 10)
    <3> DEFINE high == k \div 10
               low == k % 10
    <3>1. high \in Nat /\ high < k /\ low \in Nat /\ k = 10 * high + low
      BY <2>2, <2>4
    <3>2. f[k] = Append(f[high], low)
      BY <2>2, <2>4 DEF DigitStep
    <3> HIDE DEF high, low
    <3>3. high \in 0..n /\ high \notin T
      BY <2>1, <2>2, <3>1
    <3>4. f[high] \in Seq(Nat) /\ BigInt(f[high]) = high
      BY <3>3
    <3>5. BigInt(f[k]) = k
      BY <3>1, <3>2, <3>4, BigIntAppend
    <3>6. f[k] \in Seq(Nat)
      BY <3>1, <3>2, <3>4
    <3> QED
      BY <3>5, <3>6
  <2> QED
    BY <2>3, <2>4
<1>4. n \in 0..n /\ n \notin T
  BY <1>3
<1> QED
  BY <1>2, <1>4

(* An event crosses in three steps: the binding flattens it, the main process serialises
   it and the page turns it back. *)
SomeEvent == UNION {CoreEvent(kind) : kind \in DOMAIN Carries}
Arrived(event) == Deserialised(Serialised(Flat(event)))

LEMMA OrOfOne == \A v, default : Or({v}, default) = v
BY DEF Or

LEMMA EventFields ==
    ASSUME NEW event \in SomeEvent
    PROVE  \E kind \in DOMAIN Carries :
             /\ event.kind = kind
             /\ event = [kind |-> event.kind, fields |-> event.fields]
             /\ event.fields = [x \in Carries[kind] |-> event.fields[x]]
             /\ \A x \in Carries[kind] :
                  /\ x \in Wide => \E n \in Id : event.fields[x] = {n}
                  /\ x \notin Wide /\ x \notin Nullable => \E p : event.fields[x] = {p}
<1>1. PICK kind \in DOMAIN Carries : event \in CoreEvent(kind)
  BY DEF SomeEvent
<1>2. PICK fields \in [Carries[kind] -> {{n} : n \in Id} \cup Options] :
        /\ event = [kind |-> kind, fields |-> fields]
        /\ \A x \in Carries[kind] :
             fields[x] \in IF x \in Wide THEN {{n} : n \in Id}
                           ELSE IF x \in Nullable THEN Options ELSE Options \ {{}}
  BY <1>1 DEF CoreEvent
<1>3. event.kind = kind /\ event.fields = fields
  BY <1>2
<1>4. fields = [x \in Carries[kind] |-> fields[x]]
  BY <1>2
<1>5. ASSUME NEW x \in Carries[kind]
      PROVE  /\ x \in Wide => \E n \in Id : fields[x] = {n}
             /\ x \notin Wide /\ x \notin Nullable => \E p : fields[x] = {p}
  <2>1. CASE x \in Wide
    <3>1. fields[x] \in {{n} : n \in Id}
      BY <1>2, <2>1
    <3> QED
      BY <2>1, <3>1
  <2>2. CASE x \notin Wide /\ x \notin Nullable
    <3>1. fields[x] \in Options \ {{}}
      BY <1>2, <2>2
    <3> QED
      BY <2>2, <3>1 DEF Options
  <2> QED
    BY <2>1, <2>2
<1> QED
  BY <1>2, <1>3, <1>4, <1>5

LEMMA EventCrosses ==
    ASSUME NEW event \in SomeEvent
    PROVE  Arrived(event) = event
<1>1. PICK kind \in DOMAIN Carries :
             /\ event.kind = kind
             /\ event = [kind |-> event.kind, fields |-> event.fields]
             /\ event.fields = [x \in Carries[kind] |-> event.fields[x]]
             /\ \A x \in Carries[kind] :
                  /\ x \in Wide => \E n \in Id : event.fields[x] = {n}
                  /\ x \notin Wide /\ x \notin Nullable => \E p : event.fields[x] = {p}
  BY EventFields
<1> DEFINE js == Flat(event)
           wire == Serialised(js)
           back == Deserialised(wire)
<1>2. js.kind = kind /\ \A x \in Carries[kind] : js.fields[x] = event.fields[x]
  <2>1. \A x \in Carries[kind] : x \in Field
    BY DEF Field
  <2> QED
    BY <1>1, <2>1 DEF Flat
<1> HIDE DEF js
<1>3. /\ wire.kind = kind
      /\ \A x \in Carries[kind] :
           wire.fields[x] = IF x \in Wide THEN Decimal(Or(js.fields[x], 0))
                            ELSE IF x \in Nullable THEN js.fields[x] ELSE {Or(js.fields[x], 0)}
  BY <1>2 DEF Serialised
<1> HIDE DEF wire
<1>4. /\ back.kind = kind
      /\ back = [kind |-> kind, fields |-> back.fields]
      /\ back.fields = [x \in Carries[kind] |-> back.fields[x]]
      /\ \A x \in Carries[kind] :
           back.fields[x] = IF x \in Wide THEN {BigInt(wire.fields[x])} ELSE wire.fields[x]
  BY <1>3 DEF Deserialised
<1> HIDE DEF back
<1>5. ASSUME NEW x \in Carries[kind] PROVE back.fields[x] = event.fields[x]
  <2>1. CASE x \in Wide
    <3>1. PICK n \in Id : event.fields[x] = {n}
      BY <1>1, <2>1
    <3>2. Or(js.fields[x], 0) = n
      BY <1>2, <3>1, OrOfOne
    <3>3. wire.fields[x] = Decimal(n)
      BY <1>3, <2>1, <3>2
    <3>4. n \in Nat
      BY IdAssumption DEF IdAssumption
    <3>5. BigInt(wire.fields[x]) = n
      BY <3>3, <3>4, NumberCrosses
    <3> QED
      BY <1>4, <2>1, <3>1, <3>5
  <2>2. CASE x \notin Wide /\ x \in Nullable
    BY <1>2, <1>3, <1>4, <2>2
  <2>3. CASE x \notin Wide /\ x \notin Nullable
    <3>1. PICK p : event.fields[x] = {p}
      BY <1>1, <2>3
    <3>2. Or(js.fields[x], 0) = p
      BY <1>2, <3>1, OrOfOne
    <3> QED
      BY <1>3, <1>4, <2>3, <3>1, <3>2
  <2> QED
    BY <2>1, <2>2, <2>3
<1>6. back.fields = event.fields
  BY <1>1, <1>4, <1>5
<1>7. back = event
  BY <1>1, <1>4, <1>6
<1> QED
  BY <1>7 DEF Arrived, js, wire, back

(* What the page makes of an answer is what the queue held. *)
LEMMA AnswerCrosses ==
    ASSUME NEW events \in Seq(SomeEvent)
    PROVE  Each(Deserialised, Each(Serialised, Each(Flat, events))) = events
<1>1. events = [i \in 1..Len(events) |-> events[i]] /\ DOMAIN events = 1..Len(events)
  OBVIOUS
<1>2. \A i \in 1..Len(events) : Arrived(events[i]) = events[i]
  <2> TAKE i \in 1..Len(events)
  <2>1. events[i] \in SomeEvent
    OBVIOUS
  <2> QED
    BY <2>1, EventCrosses
<1>3. Each(Deserialised, Each(Serialised, Each(Flat, events))) = [i \in DOMAIN events |-> Arrived(events[i])]
  BY DEF Each, Arrived
<1>4. [i \in DOMAIN events |-> Arrived(events[i])] = [i \in 1..Len(events) |-> events[i]]
  BY <1>1, <1>2
<1> QED
  BY <1>1, <1>3, <1>4

LEMMA NothingCrosses == Each(Deserialised, <<>>) = <<>>
BY DEF Each

IpcSlot ==
    {NoIpcCall}
        \cup [at : {"sent"}, handle : Id, text : {Decimal(n) : n \in Id}]
        \cup [at : {"handled"}, handle : Id, seen : Id, issued : Id, text : {Decimal(n) : n \in Id}]
        \cup [at : {"returned"}, handle : Id, seen : Id, issued : Id, got : Id]
SlotSound(slot) ==
    /\ slot.at = "sent" => slot.text = Decimal(slot.handle)
    /\ slot.at = "handled" => slot.seen = slot.handle /\ slot.text = Decimal(slot.issued)
    /\ slot.at = "returned" => slot.seen = slot.handle /\ slot.got = slot.issued
QueueInv ==
    /\ pushed \in Seq(SomeEvent) /\ backlog \in Seq(SomeEvent) /\ heard \in Seq(SomeEvent)
    /\ poll = [at |-> poll.at, events |-> poll.events]
    /\ poll.at \in {"idle", "asked", "answered"}
    /\ poll.at # "answered" => poll.events = <<>>
    /\ Each(Deserialised, poll.events) \in Seq(SomeEvent)
    /\ heard \o Each(Deserialised, poll.events) \o backlog = pushed
CallsInv ==
    /\ DOMAIN ipcCalls = Slot
    /\ \A k \in Slot : ipcCalls[k] \in IpcSlot /\ SlotSound(ipcCalls[k])
IpcInv == QueueInv /\ CallsInv

LEMMA PushKept ==
    ASSUME IpcInv, NEW kind \in DOMAIN Carries, NEW event \in CoreEvent(kind), PushEvent(event)
    PROVE  IpcInv'
<1> DEFINE E == Each(Deserialised, poll.events)
<1>1. event \in SomeEvent
  BY DEF SomeEvent
<1>2. /\ pushed' = Append(pushed, event) /\ backlog' = Append(backlog, event)
      /\ poll' = poll /\ heard' = heard /\ ipcCalls' = ipcCalls
  BY DEF PushEvent
<1>3. /\ pushed \in Seq(SomeEvent) /\ backlog \in Seq(SomeEvent) /\ heard \in Seq(SomeEvent)
      /\ E \in Seq(SomeEvent) /\ heard \o E \o backlog = pushed
  BY DEF IpcInv, QueueInv
<1>4. Each(Deserialised, poll'.events) = E
  BY <1>2
<1> HIDE DEF E
<1>5. heard \o E \in Seq(SomeEvent)
  BY <1>3
<1>6. heard \o E \o Append(backlog, event) = Append(heard \o E \o backlog, event)
  <2>1. <<event>> \in Seq(SomeEvent)
    BY <1>1
  <2>2. Append(backlog, event) = backlog \o <<event>>
    BY <1>1, <1>3, AppendIsConcat
  <2>3. heard \o E \o Append(backlog, event) = (heard \o E \o backlog) \o <<event>>
    BY <1>3, <1>5, <2>1, <2>2, ConcatAssociative
  <2> QED
    BY <1>1, <1>3, <2>3, AppendIsConcat
<1>7. pushed' \in Seq(SomeEvent) /\ backlog' \in Seq(SomeEvent)
  BY <1>1, <1>2, <1>3
<1>8. QueueInv'
  BY <1>2, <1>3, <1>4, <1>6, <1>7 DEF IpcInv, QueueInv, E
<1> QED
  BY <1>2, <1>8 DEF IpcInv, CallsInv

LEMMA PollKept == ASSUME IpcInv, Poll \/ PollRefused PROVE IpcInv'
<1>1. /\ pushed' = pushed /\ backlog' = backlog /\ heard' = heard /\ ipcCalls' = ipcCalls
      /\ poll.at # "answered" /\ poll'.events = poll.events
      /\ poll' = [at |-> poll'.at, events |-> poll'.events] /\ poll'.at \in {"idle", "asked"}
  BY DEF Poll, PollRefused, IpcInv, QueueInv
<1>2. Each(Deserialised, poll'.events) = Each(Deserialised, poll.events)
  BY <1>1
<1>3. QueueInv'
  BY <1>1, <1>2 DEF IpcInv, QueueInv
<1> QED
  BY <1>1, <1>3 DEF IpcInv, CallsInv

LEMMA DrainedKept == ASSUME IpcInv, Drained PROVE IpcInv'
<1>1. /\ pushed' = pushed /\ heard' = heard /\ ipcCalls' = ipcCalls /\ backlog' = <<>>
      /\ poll' = [at |-> "answered", events |-> Each(Serialised, Each(Flat, backlog))]
      /\ poll.events = <<>>
  BY DEF Drained, IpcInv, QueueInv
<1>2. /\ pushed \in Seq(SomeEvent) /\ backlog \in Seq(SomeEvent) /\ heard \in Seq(SomeEvent)
      /\ heard \o Each(Deserialised, poll.events) \o backlog = pushed
  BY DEF IpcInv, QueueInv
<1>3. heard \o backlog = pushed
  <2>1. Each(Deserialised, poll.events) = <<>>
    BY <1>1, NothingCrosses
  <2>2. heard \o <<>> = heard
    BY <1>2
  <2> QED
    BY <1>2, <2>1, <2>2
<1>4. Each(Deserialised, poll'.events) = backlog
  <2>1. poll'.events = Each(Serialised, Each(Flat, backlog))
    BY <1>1
  <2> QED
    BY <1>2, <2>1, AnswerCrosses
<1>5. heard' \o Each(Deserialised, poll'.events) \o backlog' = pushed'
  <2>1. pushed \o <<>> = pushed
    BY <1>2
  <2> QED
    BY <1>1, <1>3, <1>4, <2>1
<1>6. backlog' \in Seq(SomeEvent)
  BY <1>1
<1>7. poll' = [at |-> poll'.at, events |-> poll'.events] /\ poll'.at = "answered"
  BY <1>1
<1>8. QueueInv'
  BY <1>1, <1>2, <1>4, <1>5, <1>6, <1>7 DEF QueueInv
<1> QED
  BY <1>1, <1>8 DEF IpcInv, CallsInv

LEMMA HearKept == ASSUME IpcInv, Hear PROVE IpcInv'
<1> DEFINE E == Each(Deserialised, poll.events)
<1>1. /\ pushed' = pushed /\ backlog' = backlog /\ ipcCalls' = ipcCalls
      /\ heard' = heard \o E
      /\ poll' = [at |-> "idle", events |-> <<>>]
  BY DEF Hear
<1>2. /\ pushed \in Seq(SomeEvent) /\ backlog \in Seq(SomeEvent) /\ heard \in Seq(SomeEvent)
      /\ E \in Seq(SomeEvent) /\ heard \o E \o backlog = pushed
  BY DEF IpcInv, QueueInv
<1>3. Each(Deserialised, poll'.events) = <<>>
  <2>1. poll'.events = <<>>
    BY <1>1
  <2> QED
    BY <2>1, NothingCrosses
<1> HIDE DEF E
<1>4. heard' \in Seq(SomeEvent)
  BY <1>1, <1>2
<1>5. heard' \o <<>> = heard'
  BY <1>4
<1>6. heard' \o Each(Deserialised, poll'.events) \o backlog' = pushed'
  BY <1>1, <1>2, <1>3, <1>5
<1>7. <<>> \in Seq(SomeEvent)
  OBVIOUS
<1>8. poll' = [at |-> poll'.at, events |-> poll'.events] /\ poll'.at = "idle" /\ poll'.events = <<>>
  BY <1>1
<1>9. QueueInv'
  BY <1>1, <1>2, <1>3, <1>4, <1>6, <1>7, <1>8 DEF QueueInv
<1> QED
  BY <1>1, <1>9 DEF IpcInv, CallsInv

(* A call that goes one step on leaves the others and the queue alone. *)
LEMMA OneCallKept ==
    ASSUME IpcInv, NEW k \in Slot, NEW slot \in IpcSlot, SlotSound(slot),
           ipcCalls' = [ipcCalls EXCEPT ![k] = slot], UNCHANGED <<pushed, backlog, poll, heard>>
    PROVE  IpcInv'
<1>1. QueueInv'
  <2>1. Each(Deserialised, poll'.events) = Each(Deserialised, poll.events)
    OBVIOUS
  <2> QED
    BY <2>1 DEF IpcInv, QueueInv
<1>2. CallsInv'
  <2>1. DOMAIN ipcCalls' = Slot /\ \A j \in Slot : ipcCalls'[j] = IF j = k THEN slot ELSE ipcCalls[j]
    BY DEF IpcInv, CallsInv
  <2>2. \A j \in Slot : ipcCalls'[j] \in IpcSlot /\ SlotSound(ipcCalls'[j])
    <3> TAKE j \in Slot
    <3>1. CASE j = k
      BY <2>1, <3>1
    <3>2. CASE j # k
      <4>1. ipcCalls'[j] = ipcCalls[j]
        BY <2>1, <3>2
      <4> QED
        BY <4>1 DEF IpcInv, CallsInv
    <3> QED
      BY <3>1, <3>2
  <2> QED
    BY <2>1, <2>2 DEF CallsInv
<1> QED
  BY <1>1, <1>2 DEF IpcInv

LEMMA CallKept == ASSUME IpcInv, NEW k \in Slot, NEW handle \in Id, CallNative(k, handle) PROVE IpcInv'
<1> DEFINE slot == [at |-> "sent", handle |-> handle, text |-> Decimal(handle)]
<1>1. slot \in IpcSlot /\ SlotSound(slot)
  BY DEF IpcSlot, SlotSound
<1>2. ipcCalls' = [ipcCalls EXCEPT ![k] = slot] /\ UNCHANGED <<pushed, backlog, poll, heard>>
  BY DEF CallNative
<1> HIDE DEF slot
<1> QED
  BY <1>1, <1>2, OneCallKept

LEMMA HandledKept == ASSUME IpcInv, NEW k \in Slot, NEW id \in Id, Handled(k, id) PROVE IpcInv'
<1> DEFINE old == ipcCalls[k]
           slot == [at |-> "handled", handle |-> old.handle, seen |-> BigInt(old.text),
                    issued |-> id, text |-> Decimal(id)]
<1>1. old \in IpcSlot /\ SlotSound(old) /\ old.at = "sent"
  BY DEF Handled, IpcInv, CallsInv
<1>2. ipcCalls' = [ipcCalls EXCEPT ![k] = slot] /\ UNCHANGED <<pushed, backlog, poll, heard>>
  BY DEF Handled
<1> HIDE DEF old
<1>3. old.handle \in Id /\ old.text = Decimal(old.handle)
  BY <1>1 DEF IpcSlot, SlotSound, NoIpcCall
<1>4. BigInt(old.text) = old.handle
  <2>1. old.handle \in Nat
    BY <1>3, IdAssumption DEF IdAssumption
  <2> QED
    BY <1>3, <2>1, NumberCrosses
<1>5. slot = [at |-> "handled", handle |-> old.handle, seen |-> old.handle, issued |-> id, text |-> Decimal(id)]
  BY <1>4
<1>6. slot \in IpcSlot /\ SlotSound(slot)
  BY <1>3, <1>5 DEF IpcSlot, SlotSound
<1> HIDE DEF slot
<1> QED
  BY <1>2, <1>6, OneCallKept

LEMMA ReturnedKept == ASSUME IpcInv, NEW k \in Slot, Returned(k) PROVE IpcInv'
<1> DEFINE old == ipcCalls[k]
           slot == [at |-> "returned", handle |-> old.handle, seen |-> old.seen,
                    issued |-> old.issued, got |-> BigInt(old.text)]
<1>1. old \in IpcSlot /\ SlotSound(old) /\ old.at = "handled"
  BY DEF Returned, IpcInv, CallsInv
<1>2. ipcCalls' = [ipcCalls EXCEPT ![k] = slot] /\ UNCHANGED <<pushed, backlog, poll, heard>>
  BY DEF Returned
<1> HIDE DEF old
<1>3. /\ old.handle \in Id /\ old.seen \in Id /\ old.issued \in Id
      /\ old.seen = old.handle /\ old.text = Decimal(old.issued)
  BY <1>1 DEF IpcSlot, SlotSound, NoIpcCall
<1>4. BigInt(old.text) = old.issued
  <2>1. old.issued \in Nat
    BY <1>3, IdAssumption DEF IdAssumption
  <2> QED
    BY <1>3, <2>1, NumberCrosses
<1>5. slot = [at |-> "returned", handle |-> old.handle, seen |-> old.seen, issued |-> old.issued, got |-> old.issued]
  BY <1>4
<1>6. slot \in IpcSlot /\ SlotSound(slot)
  BY <1>3, <1>5 DEF IpcSlot, SlotSound
<1> HIDE DEF slot
<1> QED
  BY <1>2, <1>6, OneCallKept

LEMMA IpcNextInv == IpcInv /\ [IpcNext]_ipcVars => IpcInv'
<1> SUFFICES ASSUME IpcInv, [IpcNext]_ipcVars PROVE IpcInv'
  OBVIOUS
<1>1. CASE UNCHANGED ipcVars
  <2>1. /\ pushed' = pushed /\ backlog' = backlog /\ poll' = poll /\ heard' = heard
        /\ ipcCalls' = ipcCalls
    BY <1>1 DEF ipcVars
  <2>2. Each(Deserialised, poll'.events) = Each(Deserialised, poll.events)
    BY <2>1
  <2> QED
    BY <2>1, <2>2 DEF IpcInv, QueueInv, CallsInv
<1>2. CASE IpcNext
  BY <1>2, PushKept, PollKept, DrainedKept, HearKept, CallKept, HandledKept, ReturnedKept DEF IpcNext
<1> QED
  BY <1>1, <1>2

LEMMA IpcInitInv == IpcInit => IpcInv
<1> SUFFICES ASSUME IpcInit PROVE IpcInv
  OBVIOUS
<1>1. /\ pushed = <<>> /\ backlog = <<>> /\ heard = <<>> /\ poll = [at |-> "idle", events |-> <<>>]
      /\ ipcCalls = [k \in Slot |-> NoIpcCall]
  BY DEF IpcInit
<1>2. poll.events = <<>> /\ poll.at = "idle" /\ poll = [at |-> poll.at, events |-> poll.events]
  BY <1>1
<1>3. Each(Deserialised, poll.events) = <<>>
  BY <1>2, NothingCrosses
<1>4. <<>> \in Seq(SomeEvent) /\ <<>> \o <<>> \o <<>> = <<>>
  OBVIOUS
<1>5. QueueInv
  BY <1>1, <1>2, <1>3, <1>4 DEF QueueInv
<1>6. CallsInv
  BY <1>1 DEF CallsInv, IpcSlot, SlotSound, NoIpcCall
<1> QED
  BY <1>5, <1>6 DEF IpcInv

(* Events, handles and ids arrive as they were sent (CrossesIntact): the page has heard, is
   being told or will be told every event that ssh-core pushed, in that order and with
   every field as it was, for numbers of any size. *)
THEOREM NumbersCross == IpcSpec => []CrossesIntact
<1>1. IpcInv => CrossesIntact
  BY DEF IpcInv, QueueInv, CallsInv, SlotSound, CrossesIntact
<1> QED
  BY <1>1, IpcInitInv, IpcNextInv, PTL DEF IpcSpec
=============================================================================
