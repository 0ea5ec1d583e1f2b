--------------------------- MODULE DatabaseProofs ---------------------------
(* What TLAPS proves of the local database: the known hosts (KnownHosts) for every value
   of their constants, the schema and its upgrade (Migrations), and the write batch
   (StoreBatch) for any sets of pulls and upserts that have no member in common.      *)
EXTENDS KnownHosts, Migrations, StoreBatch, SequenceTheorems, TLAPS

----------------------------------------------------------------------------
(* The schema and its upgrade (Migrations). *)

(* What is left to send, with every suffix of a plan, by the step of the page. *)
Vault5 == <<"dropCredentials", "createCredentials", "addPassphrase", "clearMeta", "version2">>
Vault4 == <<"createCredentials", "addPassphrase", "clearMeta", "version2">>
Vault3 == <<"addPassphrase", "clearMeta", "version2">>
Vault2 == <<"clearMeta", "version2">>
Up8 == <<"begin", "createTables", "version1", "commit", "begin", "addPassphrase", "version2", "commit">>
Up7 == <<"createTables", "version1", "commit", "begin", "addPassphrase", "version2", "commit">>
Up6 == <<"version1", "commit", "begin", "addPassphrase", "version2", "commit">>
Up5 == <<"commit", "begin", "addPassphrase", "version2", "commit">>
Up4 == <<"begin", "addPassphrase", "version2", "commit">>
Up3 == <<"addPassphrase", "version2", "commit">>
Up2 == <<"version2", "commit">>

(* The databases that any mixture of versions, crashes and reloads leaves.  Only inside a
   transaction is version 1 seen with both columns. *)
DatabaseType ==
    [ver : 0..2, tables : SUBSET Table, cols : SUBSET {"cipher", "secret", "passphrase"},
     secrets : {"none", "cipher", "plain"}]
Without(d) == "credentials" \notin d.tables /\ d.ver = 0 /\ d.cols = {}
With(d, ver, cols) == Table \ {"known_hosts"} \subseteq d.tables /\ d.ver = ver /\ d.cols = cols
Sound(d) ==
    /\ d \in DatabaseType
    /\ \/ Without(d) \/ With(d, 0, {"cipher"}) \/ With(d, 0, {"secret"}) \/ With(d, 0, Upgraded)
       \/ With(d, 1, {"secret"}) \/ With(d, 1, Upgraded) \/ With(d, 2, Upgraded)
    /\ d.cols = {"cipher"} => d.secrets # "plain"
Settled(d) == Sound(d) /\ ~With(d, 1, Upgraded)

(* What the database is when a suffix of a plan is left to send. *)
AdoptLeft(q, d) ==
    \/ q \in {<<>>, <<"clearMeta">>} /\ (d.ver = 0 => Without(d))
    \/ q = <<"version1", "clearMeta">> /\ With(d, 0, {"secret"})
    \/ q = <<"version2", "clearMeta">> /\ With(d, 0, Upgraded)
    \/ q = Vault5 /\ With(d, 0, {"cipher"})
    \/ q = Vault4 /\ Without(d) /\ d.tables = Table \ {"credentials"}
    \/ q = Vault3 /\ With(d, 0, {"secret"})
    \/ q \in {Vault2, <<"version2">>} /\ With(d, 0, Upgraded)
MigrateLeft(q, d, open) ==
    \/ q = Up8 /\ Without(d)
    \/ q = Up7 /\ Without(d) /\ open
    \/ q = Up6 /\ With(d, 0, {"secret"}) /\ open
    \/ q = Up5 /\ With(d, 1, {"secret"}) /\ open
    \/ q = Up4 /\ (With(d, 1, {"secret"}) \/ (With(d, 1, Upgraded) /\ open))
    \/ q = Up3 /\ With(d, 1, {"secret"}) /\ open
    \/ q = Up2 /\ With(d, 1, Upgraded) /\ open
    \/ q = <<"commit">> /\ With(d, 2, Upgraded) /\ open
    \/ q = <<>> /\ With(d, 2, Upgraded)

(* Outside a transaction the connection sees what is committed; one that is open began
   before the last upgrade, and loses no secret. *)
TxnInv ==
    /\ inTxn \in BOOLEAN
    /\ ~inTxn => conn = disk
    /\ inTxn => disk.ver < 2 /\ (disk.secrets = "plain" => conn.secrets = "plain")
PageInv ==
    /\ page \in {"quit", "adopt", "migrate", "ready", "refused", "broken"}
    /\ page # "quit" => "known_hosts" \in conn.tables /\ "known_hosts" \in disk.tables
    /\ page = "quit" => ~inTxn
    /\ page = "refused" => inTxn
    /\ page = "ready" => With(conn, 2, Upgraded)
    /\ page = "adopt" => AdoptLeft(todo, conn)
    /\ page = "migrate" => MigrateLeft(todo, conn, inTxn)
    /\ page \notin {"adopt", "migrate"} => todo = <<>>
SchemaInv == Sound(conn) /\ Settled(disk) /\ TxnInv /\ PageInv

(* Heads, tails and ends of these sequences. *)
LEMMA Tuple1 == ASSUME NEW a PROVE <<a>> # <<>> /\ Head(<<a>>) = a /\ Tail(<<a>>) = <<>>
  OBVIOUS

LEMMA Tuple2 ==
    ASSUME NEW a, NEW b
    PROVE  <<a, b>> # <<>> /\ Head(<<a, b>>) = a /\ Tail(<<a, b>>) = <<b>>
  OBVIOUS

LEMMA VaultTails ==
    /\ Vault5 # <<>> /\ Head(Vault5) = "dropCredentials" /\ Tail(Vault5) = Vault4
    /\ Vault4 # <<>> /\ Head(Vault4) = "createCredentials" /\ Tail(Vault4) = Vault3
    /\ Vault3 # <<>> /\ Head(Vault3) = "addPassphrase" /\ Tail(Vault3) = Vault2
    /\ Vault2 # <<>> /\ Head(Vault2) = "clearMeta" /\ Tail(Vault2) = <<"version2">>
<1>1. Vault5 # <<>> /\ Head(Vault5) = "dropCredentials" /\ Tail(Vault5) = Vault4
  BY DEF Vault5, Vault4
<1>2. Vault4 # <<>> /\ Head(Vault4) = "createCredentials" /\ Tail(Vault4) = Vault3
  BY DEF Vault4, Vault3
<1>3. Vault3 # <<>> /\ Head(Vault3) = "addPassphrase" /\ Tail(Vault3) = Vault2
  BY DEF Vault3, Vault2
<1>4. Vault2 # <<>> /\ Head(Vault2) = "clearMeta" /\ Tail(Vault2) = <<"version2">>
  BY DEF Vault2
<1> QED
  BY <1>1, <1>2, <1>3, <1>4

LEMMA UpTails ==
    /\ Up8 # <<>> /\ Head(Up8) = "begin" /\ Tail(Up8) = Up7
    /\ Up7 # <<>> /\ Head(Up7) = "createTables" /\ Tail(Up7) = Up6
    /\ Up6 # <<>> /\ Head(Up6) = "version1" /\ Tail(Up6) = Up5
    /\ Up5 # <<>> /\ Head(Up5) = "commit" /\ Tail(Up5) = Up4
    /\ Up4 # <<>> /\ Head(Up4) = "begin" /\ Tail(Up4) = Up3
    /\ Up3 # <<>> /\ Head(Up3) = "addPassphrase" /\ Tail(Up3) = Up2
    /\ Up2 # <<>> /\ Head(Up2) = "version2" /\ Tail(Up2) = <<"commit">>
<1>1. Up8 # <<>> /\ Head(Up8) = "begin" /\ Tail(Up8) = Up7
  BY DEF Up8, Up7
<1>2. Up7 # <<>> /\ Head(Up7) = "createTables" /\ Tail(Up7) = Up6
  BY DEF Up7, Up6
<1>3. Up6 # <<>> /\ Head(Up6) = "version1" /\ Tail(Up6) = Up5
  BY DEF Up6, Up5
<1>4. Up5 # <<>> /\ Head(Up5) = "commit" /\ Tail(Up5) = Up4
  BY DEF Up5, Up4
<1>5. Up4 # <<>> /\ Head(Up4) = "begin" /\ Tail(Up4) = Up3
  BY DEF Up4, Up3
<1>6. Up3 # <<>> /\ Head(Up3) = "addPassphrase" /\ Tail(Up3) = Up2
  BY DEF Up3, Up2
<1>7. Up2 # <<>> /\ Head(Up2) = "version2" /\ Tail(Up2) = <<"commit">>
  BY DEF Up2
<1> QED
  BY <1>1, <1>2, <1>3, <1>4, <1>5, <1>6, <1>7

(* The two migrations together. *)
LEMMA FourAndFour ==
    ASSUME NEW a, NEW b, NEW c, NEW d, NEW e, NEW f, NEW g, NEW h
    PROVE  <<a, b, c, d>> \o <<e, f, g, h>> = <<a, b, c, d, e, f, g, h>>
<1> DEFINE T == {a, b, c, d, e, f, g, h}
           s == <<a, b, c, d>>
           t == <<e, f, g, h>>
           u == <<a, b, c, d, e, f, g, h>>
<1>1. s \in Seq(T) /\ t \in Seq(T) /\ u \in Seq(T)
  OBVIOUS
<1>2. Len(s) = 4 /\ Len(t) = 4 /\ Len(u) = 8
  OBVIOUS
<1>3. /\ s \o t \in Seq(T) /\ Len(s \o t) = Len(s) + Len(t)
      /\ \A i \in 1 .. Len(s) + Len(t) : (s \o t)[i] = IF i <= Len(s) THEN s[i] ELSE t[i - Len(s)]
  <2> HIDE DEF s, t, T
  <2> QED
    BY <1>1, ConcatProperties
<1>4. \A i \in 1..4 : s[i] = u[i] /\ t[i] = u[i + 4]
  OBVIOUS
<1> HIDE DEF s, t, u, T
<1>5. \A i \in 1..8 : (s \o t)[i] = u[i]
  <2> TAKE i \in 1..8
  <2>1. CASE i <= 4
    BY <1>2, <1>3, <1>4, <2>1
  <2>2. CASE ~(i <= 4)
    <3>1. PICK j \in 1..4 : j = i - 4 /\ i = j + 4
      BY <2>2
    <3>2. (s \o t)[i] = t[j]
      BY <1>2, <1>3, <2>2, <3>1
    <3>3. t[j] = u[j + 4]
      BY <1>4
    <3> QED
      BY <3>1, <3>2, <3>3
  <2> QED
    BY <2>1, <2>2
<1>6. s \o t = u
  BY <1>1, <1>2, <1>3, <1>5, SeqEqual
<1> QED
  BY <1>6 DEF s, t, u

(* The plans that a page makes for a database it finds. *)
LEMMA AdoptPlanFits == ASSUME NEW d, Sound(d) PROVE AdoptLeft(AdoptPlan(d), d)
<1>1. CASE d.ver # 0
  BY <1>1 DEF AdoptPlan, AdoptLeft
<1>2. CASE Without(d)
  BY <1>2 DEF AdoptPlan, AdoptLeft, Without
<1>3. CASE With(d, 0, {"cipher"})
  BY <1>3 DEF AdoptPlan, AdoptLeft, With, Table, Vault5
<1>4. CASE With(d, 0, {"secret"})
  BY <1>4 DEF AdoptPlan, AdoptLeft, With, Table
<1>5. CASE With(d, 0, Upgraded)
  BY <1>5 DEF AdoptPlan, AdoptLeft, With, Table, Upgraded
<1> QED
  BY <1>1, <1>2, <1>3, <1>4, <1>5 DEF Sound, With

LEMMA MigrationPlanFits ==
    ASSUME NEW d, NEW open, Sound(d), With(d, 1, Upgraded) => open, AdoptLeft(<<>>, d)
    PROVE  MigrateLeft(MigrationPlan(d), d, open)
<1>1. d.ver = 0 => Without(d)
  BY VaultTails, Tuple1, Tuple2 DEF AdoptLeft
<1>2. Migration[1] \o Migration[2] = Up8 /\ Migration[2] = Up4
  BY FourAndFour DEF Migration, Up8, Up4
<1>3. CASE d.ver = 0
  BY <1>1, <1>2, <1>3 DEF MigrationPlan, MigrateLeft
<1>4. CASE d.ver = 1
  <2>1. With(d, 1, {"secret"}) \/ With(d, 1, Upgraded)
    BY <1>4 DEF Sound, With, Without
  <2>2. MigrationPlan(d) = Up4
    BY <1>2, <1>4 DEF MigrationPlan
  <2> QED
    BY <2>1, <2>2 DEF MigrateLeft
<1>5. CASE d.ver = 2
  <2>1. With(d, 2, Upgraded)
    BY <1>5 DEF Sound, With, Without
  <2>2. MigrationPlan(d) = <<>>
    BY <1>5 DEF MigrationPlan
  <2> QED
    BY <2>1, <2>2 DEF MigrateLeft
<1> QED
  BY <1>3, <1>4, <1>5 DEF Sound, DatabaseType

(* What a statement that is next in a plan does to the database, and that SQLite takes it. *)
Taken(s, d) == s = "addPassphrase" => "passphrase" \notin d.cols /\ "credentials" \in d.tables
Follows(d, e) ==
    /\ Sound(e) /\ "known_hosts" \in e.tables
    /\ d.secrets = "plain" => e.secrets = "plain"

LEMMA Effects ==
    ASSUME NEW d, Sound(d), "known_hosts" \in d.tables
    PROVE  /\ With(d, 0, {"cipher"}) =>
                LET e == Effect("dropCredentials", d)
                IN  Follows(d, e) /\ Without(e) /\ e.tables = Table \ {"credentials"}
           /\ Without(d) /\ d.tables = Table \ {"credentials"} =>
                LET e == Effect("createCredentials", d) IN Follows(d, e) /\ With(e, 0, {"secret"})
           /\ Without(d) =>
                LET e == Effect("createTables", d) IN Follows(d, e) /\ With(e, 0, {"secret"})
           /\ \A ver \in {0, 1} : With(d, ver, {"secret"}) =>
                LET e == Effect("addPassphrase", d)
                IN  Follows(d, e) /\ With(e, ver, Upgraded) /\ Taken("addPassphrase", d)
           /\ With(d, 0, {"secret"}) =>
                LET e == Effect("version1", d) IN Follows(d, e) /\ With(e, 1, {"secret"})
           /\ \A ver \in {0, 1} : With(d, ver, Upgraded) =>
                LET e == Effect("version2", d) IN Follows(d, e) /\ With(e, 2, Upgraded)
           /\ Effect("clearMeta", d) = d
<1> USE DEF Sound, DatabaseType, Follows, Effect
<1>1. ASSUME With(d, 0, {"cipher"})
      PROVE  LET e == Effect("dropCredentials", d)
             IN  Follows(d, e) /\ Without(e) /\ e.tables = Table \ {"credentials"}
  <2> DEFINE e == [d EXCEPT !.tables = @ \ {"credentials"}, !.cols = {}, !.secrets = "none"]
  <2>1. e = Effect("dropCredentials", d)
    OBVIOUS
  <2>2. /\ e \in DatabaseType /\ e.ver = 0 /\ e.tables = d.tables \ {"credentials"} /\ e.cols = {}
        /\ d.secrets # "plain"
    BY <1>1 DEF With
  <2>3. d.tables = Table
    BY <1>1 DEF With, Table
  <2> HIDE DEF e
  <2>4. Without(e) /\ e.tables = Table \ {"credentials"} /\ "known_hosts" \in e.tables
    BY <2>2, <2>3 DEF Without, Table
  <2>5. Follows(d, e)
    BY <2>2, <2>4
  <2> QED
    BY <2>1, <2>4, <2>5
<1>2. ASSUME Without(d) /\ d.tables = Table \ {"credentials"}
      PROVE  LET e == Effect("createCredentials", d) IN Follows(d, e) /\ With(e, 0, {"secret"})
  BY <1>2 DEF With, Without, Table, Create
<1>3. ASSUME Without(d)
      PROVE  LET e == Effect("createTables", d) IN Follows(d, e) /\ With(e, 0, {"secret"})
  BY <1>3 DEF With, Without, Table, Create
<1>4. ASSUME NEW ver \in {0, 1}, With(d, ver, {"secret"})
      PROVE  LET e == Effect("addPassphrase", d)
             IN  Follows(d, e) /\ With(e, ver, Upgraded) /\ Taken("addPassphrase", d)
  <2> DEFINE e == [d EXCEPT !.cols = @ \cup {"passphrase"}]
  <2>1. e = Effect("addPassphrase", d)
    OBVIOUS
  <2>2. /\ e \in DatabaseType /\ e.ver = ver /\ e.tables = d.tables /\ e.cols = Upgraded
        /\ e.secrets = d.secrets
    BY <1>4 DEF With, Upgraded
  <2>3. Upgraded # {"cipher"}
    BY DEF Upgraded
  <2> HIDE DEF e
  <2>4. Follows(d, e) /\ With(e, ver, Upgraded)
    BY <1>4, <2>2, <2>3 DEF With
  <2>5. Taken("addPassphrase", d)
    BY <1>4 DEF With, Table, Taken
  <2> QED
    BY <2>1, <2>4, <2>5
<1>5. ASSUME With(d, 0, {"secret"})
      PROVE  LET e == Effect("version1", d) IN Follows(d, e) /\ With(e, 1, {"secret"})
  BY <1>5 DEF With, Without, Table
<1>6. ASSUME NEW ver \in {0, 1}, With(d, ver, Upgraded)
      PROVE  LET e == Effect("version2", d) IN Follows(d, e) /\ With(e, 2, Upgraded)
  BY <1>6 DEF With, Without, Table, Upgraded
<1>7. Effect("clearMeta", d) = d
  OBVIOUS
<1> QED
  BY <1>1, <1>2, <1>3, <1>4, <1>5, <1>6, <1>7

(* A page in adopt sends its next statement, or skips it. *)
LEMMA AdoptSends ==
    ASSUME NEW q, NEW d, Sound(d), "known_hosts" \in d.tables, AdoptLeft(q, d), q # <<>>
    PROVE  LET e == Effect(Head(q), d)
           IN  /\ Follows(d, e) /\ AdoptLeft(Tail(q), e) /\ Taken(Head(q), d)
               /\ Head(q) \notin {"begin", "commit"}
               /\ Settled(d) => Settled(e)
<1> DEFINE e == Effect(Head(q), d)
<1>0. Follows(d, d) /\ Effect("clearMeta", d) = d
  BY Effects DEF Follows
<1>1. CASE q = <<"clearMeta">> /\ (d.ver = 0 => Without(d))
  <2>1. Head(q) = "clearMeta" /\ Tail(q) = <<>>
    BY <1>1, Tuple1
  <2> QED
    BY <1>0, <1>1, <2>1 DEF AdoptLeft, Taken
<1>2. CASE q = <<"version1", "clearMeta">> /\ With(d, 0, {"secret"})
  <2>1. Head(q) = "version1" /\ Tail(q) = <<"clearMeta">>
    BY <1>2, Tuple2
  <2>2. Follows(d, e) /\ With(e, 1, {"secret"})
    BY <1>2, <2>1, Effects
  <2>3. e.ver # 0 /\ ~With(e, 1, Upgraded)
    BY <2>2 DEF With, Upgraded
  <2> HIDE DEF e
  <2>4. AdoptLeft(Tail(q), e)
    BY <2>1, <2>3 DEF AdoptLeft
  <2> QED
    BY <2>1, <2>2, <2>3, <2>4 DEF Taken, Settled, Follows, e
<1>3. CASE q = <<"version2", "clearMeta">> /\ With(d, 0, Upgraded)
  <2>1. Head(q) = "version2" /\ Tail(q) = <<"clearMeta">>
    BY <1>3, Tuple2
  <2>2. Follows(d, e) /\ With(e, 2, Upgraded)
    BY <1>3, <2>1, Effects
  <2>3. e.ver # 0 /\ ~With(e, 1, Upgraded)
    BY <2>2 DEF With
  <2> HIDE DEF e
  <2>4. AdoptLeft(Tail(q), e)
    BY <2>1, <2>3 DEF AdoptLeft
  <2> QED
    BY <2>1, <2>2, <2>3, <2>4 DEF Taken, Settled, Follows, e
<1>4. CASE q = Vault5 /\ With(d, 0, {"cipher"})
  <2>1. Head(q) = "dropCredentials" /\ Tail(q) = Vault4
    BY <1>4, VaultTails
  <2>2. Follows(d, e) /\ Without(e) /\ e.tables = Table \ {"credentials"}
    BY <1>4, <2>1, Effects
  <2>3. ~With(e, 1, Upgraded)
    BY <2>2 DEF With, Without
  <2> HIDE DEF e
  <2>4. AdoptLeft(Tail(q), e)
    BY <2>1, <2>2 DEF AdoptLeft
  <2> QED
    BY <2>1, <2>2, <2>3, <2>4 DEF Taken, Settled, Follows, e
<1>5. CASE q = Vault4 /\ Without(d) /\ d.tables = Table \ {"credentials"}
  <2>1. Head(q) = "createCredentials" /\ Tail(q) = Vault3
    BY <1>5, VaultTails
  <2>2. Follows(d, e) /\ With(e, 0, {"secret"})
    BY <1>5, <2>1, Effects
  <2>3. ~With(e, 1, Upgraded)
    BY <2>2 DEF With
  <2> HIDE DEF e
  <2>4. AdoptLeft(Tail(q), e)
    BY <2>1, <2>2 DEF AdoptLeft
  <2> QED
    BY <2>1, <2>2, <2>3, <2>4 DEF Taken, Settled, Follows, e
<1>6. CASE q = Vault3 /\ With(d, 0, {"secret"})
  <2>1. Head(q) = "addPassphrase" /\ Tail(q) = Vault2
    BY <1>6, VaultTails
  <2>2. Follows(d, e) /\ With(e, 0, Upgraded) /\ Taken(Head(q), d)
    BY <1>6, <2>1, Effects
  <2>3. ~With(e, 1, Upgraded)
    BY <2>2 DEF With
  <2> HIDE DEF e
  <2>4. AdoptLeft(Tail(q), e)
    BY <2>1, <2>2 DEF AdoptLeft
  <2> QED
    BY <2>1, <2>2, <2>3, <2>4 DEF Settled, Follows, e
<1>7. CASE q = Vault2 /\ With(d, 0, Upgraded)
  <2>1. Head(q) = "clearMeta" /\ Tail(q) = <<"version2">>
    BY <1>7, VaultTails
  <2> QED
    BY <1>0, <1>7, <2>1 DEF AdoptLeft, Taken
<1>8. CASE q = <<"version2">> /\ With(d, 0, Upgraded)
  <2>1. Head(q) = "version2" /\ Tail(q) = <<>>
    BY <1>8, Tuple1
  <2>2. Follows(d, e) /\ With(e, 2, Upgraded)
    BY <1>8, <2>1, Effects
  <2>3. e.ver # 0 /\ ~With(e, 1, Upgraded)
    BY <2>2 DEF With
  <2> HIDE DEF e
  <2>4. AdoptLeft(Tail(q), e)
    BY <2>1, <2>3 DEF AdoptLeft
  <2> QED
    BY <2>1, <2>2, <2>3, <2>4 DEF Taken, Settled, Follows, e
<1> HIDE DEF e
<1> QED
  BY <1>1, <1>2, <1>3, <1>4, <1>5, <1>6, <1>7, <1>8 DEF AdoptLeft

(* A page in the migrations sends its next statement. *)
LEMMA MigrateSends ==
    ASSUME NEW q, NEW d, NEW open \in BOOLEAN, Sound(d), "known_hosts" \in d.tables,
           MigrateLeft(q, d, open), q # <<>>
    PROVE  LET e == Effect(Head(q), d)
           IN  /\ Head(q) # "clearMeta" /\ Taken(Head(q), d)
               /\ Head(q) = "begin" => d.ver < 2 /\ (~open => MigrateLeft(Tail(q), d, TRUE))
               /\ Head(q) = "commit" => open /\ MigrateLeft(Tail(q), d, FALSE) /\ Settled(d)
               /\ Head(q) \notin {"begin", "commit"} => open /\ Follows(d, e) /\ MigrateLeft(Tail(q), e, TRUE)
<1> DEFINE e == Effect(Head(q), d)
<1>1. CASE q = Up8 /\ Without(d)
  <2>1. Head(q) = "begin" /\ Tail(q) = Up7
    BY <1>1, UpTails
  <2> QED
    BY <1>1, <2>1 DEF MigrateLeft, Taken, Without
<1>2. CASE q = Up7 /\ Without(d) /\ open
  <2>1. Head(q) = "createTables" /\ Tail(q) = Up6
    BY <1>2, UpTails
  <2>2. Follows(d, e) /\ With(e, 0, {"secret"})
    BY <1>2, <2>1, Effects
  <2> HIDE DEF e
  <2>3. MigrateLeft(Tail(q), e, TRUE)
    BY <2>1, <2>2 DEF MigrateLeft
  <2> QED
    BY <1>2, <2>1, <2>2, <2>3 DEF Taken, e
<1>3. CASE q = Up6 /\ With(d, 0, {"secret"}) /\ open
  <2>1. Head(q) = "version1" /\ Tail(q) = Up5
    BY <1>3, UpTails
  <2>2. Follows(d, e) /\ With(e, 1, {"secret"})
    BY <1>3, <2>1, Effects
  <2> HIDE DEF e
  <2>3. MigrateLeft(Tail(q), e, TRUE)
    BY <2>1, <2>2 DEF MigrateLeft
  <2> QED
    BY <1>3, <2>1, <2>2, <2>3 DEF Taken, e
<1>4. CASE q = Up5 /\ With(d, 1, {"secret"}) /\ open
  <2>1. Head(q) = "commit" /\ Tail(q) = Up4
    BY <1>4, UpTails
  <2>2. MigrateLeft(Tail(q), d, FALSE)
    BY <1>4, <2>1 DEF MigrateLeft
  <2>3. Settled(d)
    BY <1>4 DEF Settled, With, Upgraded
  <2> QED
    BY <1>4, <2>1, <2>2, <2>3 DEF Taken
<1>5. CASE q = Up4 /\ (With(d, 1, {"secret"}) \/ (With(d, 1, Upgraded) /\ open))
  <2>1. Head(q) = "begin" /\ Tail(q) = Up3
    BY <1>5, UpTails
  <2>2. ~open => With(d, 1, {"secret"}) /\ MigrateLeft(Tail(q), d, TRUE)
    BY <1>5, <2>1 DEF MigrateLeft
  <2>3. d.ver < 2
    BY <1>5 DEF With
  <2> QED
    BY <2>1, <2>2, <2>3 DEF Taken
<1>6. CASE q = Up3 /\ With(d, 1, {"secret"}) /\ open
  <2>1. Head(q) = "addPassphrase" /\ Tail(q) = Up2
    BY <1>6, UpTails
  <2>2. Follows(d, e) /\ With(e, 1, Upgraded) /\ Taken(Head(q), d)
    BY <1>6, <2>1, Effects
  <2> HIDE DEF e
  <2>3. MigrateLeft(Tail(q), e, TRUE)
    BY <2>1, <2>2 DEF MigrateLeft
  <2> QED
    BY <1>6, <2>1, <2>2, <2>3 DEF e
<1>7. CASE q = Up2 /\ With(d, 1, Upgraded) /\ open
  <2>1. Head(q) = "version2" /\ Tail(q) = <<"commit">>
    BY <1>7, UpTails
  <2>2. Follows(d, e) /\ With(e, 2, Upgraded)
    BY <1>7, <2>1, Effects
  <2> HIDE DEF e
  <2>3. MigrateLeft(Tail(q), e, TRUE)
    BY <2>1, <2>2 DEF MigrateLeft
  <2> QED
    BY <1>7, <2>1, <2>2, <2>3 DEF Taken, e
<1>8. CASE q = <<"commit">> /\ With(d, 2, Upgraded) /\ open
  <2>1. Head(q) = "commit" /\ Tail(q) = <<>>
    BY <1>8, Tuple1
  <2>2. MigrateLeft(Tail(q), d, FALSE)
    BY <1>8, <2>1 DEF MigrateLeft
  <2>3. Settled(d)
    BY <1>8 DEF Settled, With
  <2> QED
    BY <1>8, <2>1, <2>2, <2>3 DEF Taken
<1> HIDE DEF e
<1> QED
  BY <1>1, <1>2, <1>3, <1>4, <1>5, <1>6, <1>7, <1>8 DEF MigrateLeft

(* The main process makes its table when it opens the file. *)
LEMMA Launches ==
    ASSUME NEW d, Settled(d)
    PROVE  LET e == Create(d, {"known_hosts"})
           IN  Settled(e) /\ "known_hosts" \in e.tables /\ e.secrets = d.secrets
  BY DEF Settled, Sound, DatabaseType, With, Without, Create, Table, Upgraded

LEMMA SchemaInitInv == SchemaInit => SchemaInv
<1> SUFFICES ASSUME SchemaInit PROVE SchemaInv
  OBVIOUS
<1>1. ASSUME NEW d \in Shipped PROVE Settled(d)
  BY DEF Shipped, Database, Settled, Sound, DatabaseType, With, Without, Table, Upgraded
<1>2. Settled(disk)
  BY <1>1 DEF SchemaInit
<1> QED
  BY <1>2 DEF SchemaInit, SchemaInv, TxnInv, PageInv, Settled

LEMMA SentInv ==
    ASSUME SchemaInv, todo # <<>>, page' = page, todo' = Tail(todo), inTxn' = inTxn,
           Head(todo) \notin {"begin", "commit"}, Exec(Effect(Head(todo), conn))
    PROVE  SchemaInv' /\ (disk.secrets = "plain" => disk'.secrets = "plain")
<1> DEFINE e == Effect(Head(todo), conn)
<1>1. /\ Sound(conn) /\ Settled(disk) /\ TxnInv /\ PageInv
      /\ page \in {"adopt", "migrate"} /\ "known_hosts" \in conn.tables /\ inTxn \in BOOLEAN
  BY DEF SchemaInv, PageInv, TxnInv
<1>2. conn' = e /\ disk' = IF inTxn THEN disk ELSE e
  BY DEF Exec
<1>3. Follows(conn, e) /\ (~inTxn => Settled(e))
  <2>1. CASE page = "adopt"
    BY <1>1, <2>1, AdoptSends DEF PageInv, TxnInv
  <2>2. CASE page = "migrate"
    BY <1>1, <2>2, MigrateSends DEF PageInv
  <2> QED
    BY <1>1, <2>1, <2>2
<1>4. page = "adopt" => AdoptLeft(todo', conn')
  BY <1>1, <1>2, AdoptSends DEF PageInv
<1>5. page = "migrate" => MigrateLeft(todo', conn', inTxn')
  <2>1. page = "migrate" => inTxn /\ MigrateLeft(Tail(todo), e, TRUE)
    BY <1>1, MigrateSends DEF PageInv
  <2> HIDE DEF e
  <2> QED
    BY <1>1, <1>2, <2>1
<1> HIDE DEF e
<1>6. Sound(conn') /\ Settled(disk')
  BY <1>1, <1>2, <1>3 DEF Follows
<1>7. TxnInv' /\ (disk.secrets = "plain" => disk'.secrets = "plain")
  BY <1>1, <1>2, <1>3 DEF TxnInv, Follows
<1>8. PageInv'
  BY <1>1, <1>2, <1>3, <1>4, <1>5 DEF PageInv, Follows
<1> QED
  BY <1>6, <1>7, <1>8 DEF SchemaInv

(* A step keeps the invariant, and no step that is committed loses a secret. *)
LEMMA SchemaNextInv ==
    SchemaInv /\ [SchemaNext]_dbVars => SchemaInv' /\ (disk.secrets = "plain" => disk'.secrets = "plain")
<1> SUFFICES ASSUME SchemaInv, [SchemaNext]_dbVars
             PROVE  SchemaInv' /\ (disk.secrets = "plain" => disk'.secrets = "plain")
  OBVIOUS
<1>0. Sound(conn) /\ Settled(disk) /\ TxnInv /\ PageInv /\ Sound(disk)
  BY DEF SchemaInv, Settled
<1>1. CASE Launch
  <2>1. /\ Settled(conn') /\ "known_hosts" \in conn'.tables /\ conn'.secrets = disk.secrets
        /\ disk' = conn' /\ page' = "adopt" /\ todo' = AdoptPlan(conn') /\ inTxn' = inTxn /\ ~inTxn
    BY <1>0, <1>1, Launches DEF Launch, PageInv
  <2>2. Sound(conn')
    BY <2>1 DEF Settled
  <2>3. AdoptLeft(todo', conn')
    BY <2>1, <2>2, AdoptPlanFits
  <2> QED
    BY <1>0, <2>1, <2>2, <2>3 DEF SchemaInv, TxnInv, PageInv
<1>2. CASE Reload
  <2>1. /\ page # "quit" /\ page' = "adopt" /\ todo' = AdoptPlan(conn)
        /\ UNCHANGED <<disk, conn, inTxn>>
    BY <1>2 DEF Reload
  <2>2. AdoptLeft(todo', conn')
    BY <1>0, <2>1, AdoptPlanFits
  <2> QED
    BY <1>0, <2>1, <2>2 DEF SchemaInv, TxnInv, PageInv
<1>3. CASE Quit
  BY <1>0, <1>3 DEF Quit, SchemaInv, TxnInv, PageInv
<1>4. CASE Statement
  BY <1>4, SentInv DEF Statement
<1>5. CASE SkipMeta
  <2>1. /\ todo # <<>> /\ Head(todo) = "clearMeta" /\ todo' = Tail(todo)
        /\ UNCHANGED <<disk, conn, inTxn, page>>
    BY <1>5 DEF SkipMeta
  <2>2. page = "adopt" /\ "known_hosts" \in conn.tables
    BY <1>0, <2>1, MigrateSends DEF PageInv, TxnInv
  <2>3. Effect(Head(todo), conn) = conn
    BY <1>0, <2>1, <2>2, Effects
  <2>4. AdoptLeft(Tail(todo), conn)
    BY <1>0, <2>1, <2>2, <2>3, AdoptSends DEF PageInv
  <2> QED
    BY <1>0, <2>1, <2>2, <2>4 DEF SchemaInv, TxnInv, PageInv
<1>6. CASE BeginTxn
  <2>1. /\ todo # <<>> /\ Head(todo) = "begin" /\ ~inTxn /\ todo' = Tail(todo) /\ inTxn'
        /\ UNCHANGED <<disk, conn, page>> /\ inTxn' = TRUE
    BY <1>6 DEF BeginTxn
  <2>2. page = "migrate" /\ "known_hosts" \in conn.tables
    BY <1>0, <2>1, AdoptSends DEF PageInv
  <2>3. conn.ver < 2 /\ MigrateLeft(Tail(todo), conn, TRUE) /\ conn = disk
    BY <1>0, <2>1, <2>2, MigrateSends DEF PageInv, TxnInv
  <2> QED
    BY <1>0, <2>1, <2>2, <2>3 DEF SchemaInv, TxnInv, PageInv
<1>7. CASE CommitTxn
  <2>1. /\ todo # <<>> /\ Head(todo) = "commit" /\ inTxn /\ todo' = Tail(todo) /\ inTxn' = FALSE
        /\ disk' = conn /\ UNCHANGED <<conn, page>>
    BY <1>7 DEF CommitTxn
  <2>2. page = "migrate" /\ "known_hosts" \in conn.tables
    BY <1>0, <2>1, AdoptSends DEF PageInv
  <2>3. MigrateLeft(Tail(todo), conn, FALSE) /\ Settled(conn)
    BY <1>0, <2>1, <2>2, MigrateSends DEF PageInv, TxnInv
  <2> QED
    BY <1>0, <2>1, <2>2, <2>3 DEF SchemaInv, TxnInv, PageInv
<1>8. ASSUME NEW why \in {"refused", "broken"}, StatementFails(why)
      PROVE  SchemaInv' /\ (disk.secrets = "plain" => disk'.secrets = "plain")
  <2>1. /\ todo # <<>> /\ (why = "refused" <=> Refused(Head(todo))) /\ Head(todo) # "clearMeta"
        /\ page' = why /\ todo' = <<>> /\ disk' = disk
        /\ IF page = "migrate" /\ Head(todo) # "begin"
           THEN conn' = disk /\ inTxn' = FALSE ELSE UNCHANGED <<conn, inTxn>>
    BY <1>8 DEF StatementFails
  <2>2. /\ page \in {"adopt", "migrate"} /\ "known_hosts" \in conn.tables
        /\ "known_hosts" \in disk.tables
    BY <1>0, <2>1 DEF PageInv
  <2>3. Taken(Head(todo), conn)
    <3>1. CASE page = "adopt"
      BY <1>0, <2>1, <2>2, <3>1, AdoptSends DEF PageInv
    <3>2. CASE page = "migrate"
      BY <1>0, <2>1, <2>2, <3>2, MigrateSends DEF PageInv, TxnInv
    <3> QED
      BY <2>2, <3>1, <3>2
  <2>4. page = "adopt" => Head(todo) \notin {"begin", "commit"}
    BY <1>0, <2>1, <2>2, AdoptSends DEF PageInv
  <2>5. page = "migrate" /\ Head(todo) = "commit" => inTxn
    BY <1>0, <2>1, <2>2, MigrateSends DEF PageInv, TxnInv
  <2>6. why = "refused" => page = "migrate" /\ Head(todo) = "begin" /\ inTxn
    BY <2>1, <2>2, <2>3, <2>4, <2>5 DEF Refused, Taken
  <2> QED
    BY <1>0, <2>1, <2>2, <2>6 DEF SchemaInv, TxnInv, PageInv
<1>9. CASE AdoptDone
  <2>1. /\ page = "adopt" /\ todo = <<>> /\ page' = "migrate" /\ todo' = MigrationPlan(conn)
        /\ UNCHANGED <<disk, conn, inTxn>>
    BY <1>9 DEF AdoptDone
  <2>2. With(conn, 1, Upgraded) => inTxn
    BY <1>0 DEF TxnInv, Settled
  <2>3. AdoptLeft(<<>>, conn)
    BY <1>0, <2>1 DEF PageInv
  <2>4. MigrateLeft(todo', conn', inTxn')
    BY <1>0, <2>1, <2>2, <2>3, MigrationPlanFits
  <2> QED
    BY <1>0, <2>1, <2>4 DEF SchemaInv, TxnInv, PageInv
<1>10. CASE MigrateDone
  <2>1. /\ page = "migrate" /\ todo = <<>> /\ page' = "ready" /\ UNCHANGED <<disk, conn, inTxn, todo>>
    BY <1>10 DEF MigrateDone
  <2>2. With(conn, 2, Upgraded)
    BY <1>0, <2>1, UpTails, Tuple1 DEF PageInv, MigrateLeft
  <2> QED
    BY <1>0, <2>1, <2>2 DEF SchemaInv, TxnInv, PageInv
<1>11. CASE UNCHANGED dbVars
  BY <1>0, <1>11 DEF dbVars, SchemaInv, TxnInv, PageInv
<1> QED
  BY <1>1, <1>2, <1>3, <1>4, <1>5, <1>6, <1>7, <1>8, <1>9, <1>10, <1>11 DEF SchemaNext

LEMMA SchemaAlways == SchemaSpec => []SchemaInv
<1>1. SchemaInv /\ [SchemaNext]_dbVars => SchemaInv'
  BY SchemaNextInv
<1> QED
  BY <1>1, SchemaInitInv, PTL DEF SchemaSpec

(* When Store.open returns, the store's statements find their tables and columns,
   whichever database it started from and wherever earlier pages died. *)
THEOREM ReadyHasSchema == SchemaSpec => []SchemaWhenReady
<1>1. SchemaInv => SchemaWhenReady
  <2> SUFFICES ASSUME SchemaInv, page = "ready" PROVE conn.ver = 2 /\ conn.tables = Table /\ conn.cols = Upgraded
    BY DEF SchemaWhenReady
  <2>1. With(conn, 2, Upgraded) /\ "known_hosts" \in conn.tables /\ conn.tables \subseteq Table
    BY DEF SchemaInv, PageInv, Sound, DatabaseType
  <2> QED
    BY <2>1 DEF With, Table
<1> QED
  BY <1>1, SchemaAlways, PTL

(* A half-done upgrade is always continued: Store.open is refused only by a transaction
   that an earlier page left open. *)
THEOREM RefusalsExplained == SchemaSpec => []OnlyOpenTxnRefuses
<1>1. SchemaInv => OnlyOpenTxnRefuses
  BY DEF SchemaInv, PageInv, OnlyOpenTxnRefuses
<1> QED
  BY <1>1, SchemaAlways, PTL

(* An app that runs inside a transaction of a dead page is upgraded by it, and the file
   still has the old version. *)
THEOREM OpenTxnUpgrades == SchemaSpec => []OpenTxnCarriesUpgrade
<1>1. SchemaInv => OpenTxnCarriesUpgrade
  BY DEF SchemaInv, PageInv, TxnInv, OpenTxnCarriesUpgrade, With
<1> QED
  BY <1>1, SchemaAlways, PTL

(* No step loses a secret that is stored in the clear: only the vault's table is dropped. *)
THEOREM SecretsSurvive == SchemaSpec => SecretsKept
<1>1. SchemaInv /\ [SchemaNext]_dbVars => [disk.secrets = "plain" => disk'.secrets = "plain"]_dbVars
  BY SchemaNextInv
<1> QED
  BY <1>1, SchemaAlways, PTL DEF SchemaSpec, SecretsKept

----------------------------------------------------------------------------
(* The known hosts (KnownHosts). *)
USE NoKeyIsNone

(* What a call is, by the place it is at. *)
LEMMA CallTyped ==
    ASSUME TypeOK, NEW k \in Call, call[k].at # "none"
    PROVE  /\ call[k].name \in Name /\ call[k].key \in Key
           /\ call[k].at = "rewriting" => call[k].kept \in Lines /\ call[k].todo \subseteq Name
<1>1. call[k] \in CallType
  BY DEF TypeOK
<1>2. QED
  BY <1>1 DEF CallType, NoCall

LEMMA BootTyped ==
    ASSUME TypeOK, main.at # "running"
    PROVE  main.from \in {"file", "legacy"} /\ main.todo \subseteq Name
<1>1. main \in MainType
  BY DEF TypeOK
<1>2. QED
  BY <1>1 DEF MainType, Running

----------------------------------------------------------------------------
LEMMA BootTypeOK == ASSUME TypeOK, Boot PROVE TypeOK'
<1> USE DEF TypeOK, Booting, Running, Lines, NoLines, Names, Source
<1>1. CASE Migrate
  <2>1. main' \in MainType
    BY <1>1, BootTyped DEF Migrate, MainType
  <2>2. QED
    BY <1>1, <2>1 DEF Migrate
<1>2. CASE RenderBegins
  <2>1. main' \in MainType
    BY <1>2, BootTyped DEF RenderBegins, MainType
  <2>2. QED
    BY <1>2, <2>1 DEF RenderBegins
<1>3. CASE Rendered
  <2>1. main' \in MainType
    BY <1>3 DEF Rendered, MainType
  <2>2. QED
    BY <1>3, <2>1 DEF Rendered
<1>4. ASSUME NEW n \in Name, ImportLine(n) PROVE TypeOK'
  <2>1. main' \in MainType
    BY <1>4, BootTyped DEF ImportLine, MainType
  <2>2. table' \in Lines
    BY <1>4 DEF ImportLine
  <2>3. QED
    BY <1>4, <2>1, <2>2 DEF ImportLine
<1>5. QED
  BY <1>1, <1>2, <1>3, <1>4 DEF Boot

LEMMA TrustTypeOK == ASSUME TypeOK, NEW k \in Call, Trust(k) PROVE TypeOK'
<1> USE DEF TypeOK
<1>1. ASSUME NEW n \in Name, NEW key \in Key, Prompted(k, n, key) PROVE TypeOK'
  <2>1. [at |-> "prompted", name |-> n, key |-> key] \in CallType
    BY DEF CallType
  <2>2. QED
    BY <1>1, <2>1 DEF Prompted
<1>2. CASE Dismissed(k) \/ TrustFails(k) \/ Retried(k)
  <2>1. NoCall \in CallType
    BY DEF CallType
  <2>2. strayed' \subseteq Name
    BY <1>2, CallTyped DEF Dismissed, TrustFails, Retried
  <2>3. QED
    BY <1>2, <2>1, <2>2 DEF Dismissed, TrustFails, Retried
<1>3. CASE TrustCalled(k)
  <2>1. call[k] \in CallType /\ call[k].at = "prompted"
    BY <1>3 DEF TrustCalled
  <2>2. [call[k] EXCEPT !.at = "calling"] \in CallType
    BY <2>1 DEF CallType, NoCall
  <2>3. strayed' \subseteq Name
    BY <1>3, <2>1, CallTyped DEF TrustCalled
  <2>4. QED
    BY <1>3, <2>2, <2>3 DEF TrustCalled
<1>4. CASE RewriteBegins(k)
  <2> DEFINE n == call[k].name
             key == call[k].key
  <2>1. n \in Name /\ key \in Key
    BY <1>4, CallTyped DEF RewriteBegins
  <2>2. [file EXCEPT ![n] = key] \in Lines /\ Names(file) \cup {n} \subseteq Name /\ NoLines \in Lines
    BY <2>1 DEF Lines, Names, NoLines
  <2>3. [at |-> "rewriting", name |-> n, key |-> key,
         kept |-> [file EXCEPT ![n] = key], todo |-> Names(file) \cup {n}] \in CallType
    BY <2>1, <2>2 DEF CallType
  <2>4. QED
    BY <1>4, <2>2, <2>3 DEF RewriteBegins
<1>5. ASSUME NEW m \in Name, LineWritten(k, m) PROVE TypeOK'
  <2>1. /\ call[k] \in CallType /\ call[k].at = "rewriting"
        /\ call[k].name \in Name /\ call[k].key \in Key /\ call[k].kept \in Lines
    BY <1>5, CallTyped DEF LineWritten
  <2>2. /\ [at |-> "written", name |-> call[k].name, key |-> call[k].key] \in CallType
        /\ [call[k] EXCEPT !.todo = call[k].todo \ {m}] \in CallType
    BY <2>1 DEF CallType, NoCall
  <2>3. file' \in Lines
    BY <1>5, <2>1 DEF LineWritten, Lines
  <2>4. QED
    BY <1>5, <2>2, <2>3 DEF LineWritten
<1>6. CASE Inserted(k)
  <2>1. call[k] \in CallType /\ call[k].at = "written" /\ call[k].key \in Key
    BY <1>6, CallTyped DEF Inserted
  <2>2. [call[k] EXCEPT !.at = "retrying"] \in CallType
    BY <2>1 DEF CallType, NoCall
  <2>3. table' \in Lines /\ acked' \in Lines
    BY <1>6, <2>1 DEF Inserted, Lines
  <2>4. QED
    BY <1>6, <2>2, <2>3 DEF Inserted
<1>7. QED
  BY <1>1, <1>2, <1>3, <1>4, <1>5, <1>6 DEF Trust

LEMMA InitTypeOK == Init => TypeOK
BY DEF Init, TypeOK, Lines, NoLines, Booting, MainType, CallType

LEMMA NextTypeOK == ASSUME TypeOK, [Next]_vars PROVE TypeOK'
<1>1. CASE Crash \/ FileDeleted
  BY <1>1 DEF Crash, FileDeleted, TypeOK, Booting, MainType, CallType, Lines, NoLines
<1>2. CASE UNCHANGED vars
  BY <1>2 DEF vars, TypeOK
<1>3. QED
  BY <1>1, <1>2, BootTypeOK, TrustTypeOK DEF Next

(* Every reachable state is well typed. *)
THEOREM KnownHostsTypes == Spec => []TypeOK
<1>1. TypeOK /\ [Next]_vars => TypeOK'
  BY NextTypeOK
<1>2. QED
  BY InitTypeOK, <1>1, PTL DEF Spec

----------------------------------------------------------------------------
(* Trusts run only in a booted app, one of them in the file. *)
LEMMA NextCalls ==
    ASSUME TypeOK, CallsWhileRunning, OneRewriter, [Next]_vars
    PROVE  CallsWhileRunning' /\ OneRewriter'
<1> USE DEF CallsWhileRunning, OneRewriter, TypeOK
<1>1. CASE Boot
  <2>1. main.at # "running" /\ UNCHANGED call
    BY <1>1 DEF Boot, Migrate, RenderBegins, Rendered, ImportLine
  <2>2. QED
    BY <2>1
<1>2. ASSUME NEW k \in Call, Trust(k) PROVE CallsWhileRunning' /\ OneRewriter'
  <2>1. main.at = "running" /\ UNCHANGED main
    BY <1>2 DEF Trust, Prompted, Dismissed, TrustCalled, RewriteBegins, LineWritten,
                TrustFails, Inserted, Retried
  <2>2. \A l \in Call \ {k} : call'[l] = call[l]
    BY <1>2 DEF Trust, Prompted, Dismissed, TrustCalled, RewriteBegins, LineWritten,
                TrustFails, Inserted, Retried
  <2>3. call'[k].at = "rewriting" =>
            call[k].at = "rewriting" \/ \A l \in Call : call[l].at # "rewriting"
    <3>1. CASE RewriteBegins(k)
      BY <3>1 DEF RewriteBegins
    <3>2. ASSUME NEW m \in Name, LineWritten(k, m) PROVE call[k].at = "rewriting"
      BY <3>2 DEF LineWritten
    <3>3. CASE TrustCalled(k) \/ Inserted(k)
      <4>1. call[k] \in CallType /\ call[k].at \in {"prompted", "written"}
        BY <3>3 DEF TrustCalled, Inserted
      <4>2. \A at \in {"calling", "retrying"} : [call[k] EXCEPT !.at = at].at # "rewriting"
        BY <4>1 DEF CallType, NoCall
      <4>3. QED
        BY <3>3, <4>2 DEF TrustCalled, Inserted
    <3>4. CASE \/ \E n \in Name, key \in Key : Prompted(k, n, key)
               \/ Dismissed(k) \/ TrustFails(k) \/ Retried(k)
      BY <3>4 DEF Prompted, Dismissed, TrustFails, Retried, NoCall
    <3>5. QED
      BY <1>2, <3>1, <3>2, <3>3, <3>4 DEF Trust
  <2>4. QED
    BY <2>1, <2>2, <2>3
<1>3. CASE Crash
  BY <1>3 DEF Crash, NoCall
<1>4. CASE FileDeleted \/ UNCHANGED vars
  BY <1>4 DEF FileDeleted, vars
<1>5. QED
  BY <1>1, <1>2, <1>3, <1>4 DEF Next

(* An import runs only where nothing was ever trusted. *)
LEMMA NextKept ==
    ASSUME TypeOK, CallsWhileRunning, BootInv, TrustKept, [Next]_vars
    PROVE  BootInv' /\ TrustKept'
<1> USE DEF BootInv, TrustKept, TypeOK
<1>1. CASE Migrate
  <2>1. Names(table) = {} => acked = NoLines
    BY DEF Names, Lines, NoLines
  <2>2. main'.at = "import" => Names(table) = {}
    BY <1>1 DEF Migrate, Booting, Running
  <2>3. main'.at # "migrate"
    BY <1>1 DEF Migrate, Booting, Running
  <2>4. QED
    BY <1>1, <2>1, <2>2, <2>3 DEF Migrate
<1>2. ASSUME NEW n \in Name, ImportLine(n) PROVE BootInv' /\ TrustKept'
  BY <1>2 DEF ImportLine, NoLines, Booting
<1>3. CASE RenderBegins
  BY <1>3 DEF RenderBegins, Booting
<1>4. CASE Rendered
  <2>1. Names(table) = {} => table = NoLines
    BY DEF Names, Lines, NoLines
  <2>2. QED
    BY <1>4, <2>1 DEF Rendered, Booting, Running
<1>5. ASSUME NEW k \in Call, Trust(k) PROVE BootInv' /\ TrustKept'
  <2>1. main.at = "running" /\ UNCHANGED main
    BY <1>5 DEF Trust, Prompted, Dismissed, TrustCalled, RewriteBegins, LineWritten,
                TrustFails, Inserted, Retried, CallsWhileRunning
  <2>2. CASE Inserted(k)
    BY <2>1, <2>2, CallTyped DEF Inserted, Lines
  <2>3. CASE ~Inserted(k)
    <3>1. UNCHANGED <<table, acked>>
      BY <1>5, <2>3 DEF Trust, Prompted, Dismissed, TrustCalled, RewriteBegins, LineWritten,
                        TrustFails, Retried
    <3>2. QED
      BY <2>1, <3>1
  <2>4. QED
    BY <2>2, <2>3
<1>6. CASE Crash \/ FileDeleted \/ UNCHANGED vars
  BY <1>6 DEF Crash, FileDeleted, vars, Booting
<1>7. QED
  BY <1>1, <1>2, <1>3, <1>4, <1>5, <1>6 DEF Next, Boot

(* No crash, import or rendering takes an acknowledged trust out of the table. *)
THEOREM TrustsKept == Spec => []TrustKept
<1> DEFINE Inv == TypeOK /\ CallsWhileRunning /\ OneRewriter /\ BootInv /\ TrustKept
<1>1. Init => Inv
  BY InitTypeOK
     DEF Init, CallsWhileRunning, OneRewriter, BootInv, TrustKept, NoCall, NoLines, Booting
<1>2. Inv /\ [Next]_vars => Inv'
  BY NextTypeOK, NextCalls, NextKept
<1>3. QED
  BY <1>1, <1>2, PTL DEF Spec

----------------------------------------------------------------------------
(* The steps of a trust that touch no rewrite: the line of every name stays. *)
Aside(k) ==
    /\ \A l \in Call \ {k} : call'[l] = call[l]
    /\ call[k].at # "rewriting" /\ call'[k].at # "rewriting"
    /\ file' = file

LEMMA LineAside ==
    ASSUME NEW k \in Call, Aside(k), NEW m, NEW key
    PROVE  LineIs(m, key)' <=> LineIs(m, key)
<1>1. \A l \in Call : (call'[l].at = "rewriting" <=> call[l].at = "rewriting")
  BY DEF Aside
<1>2. \A l \in Call : call[l].at = "rewriting" => call'[l] = call[l]
  BY DEF Aside
<1>3. Rewriting' <=> Rewriting
  BY <1>1 DEF Rewriting
<1>4. CASE ~Rewriting
  BY <1>3, <1>4 DEF LineIs, Aside
<1>5. CASE Rewriting
  <2>1. LineIs(m, key) <=> \A l \in Call : call[l].at = "rewriting" => call[l].kept[m] = key
    BY <1>5 DEF LineIs
  <2>2. LineIs(m, key)' <=> \A l \in Call : call'[l].at = "rewriting" => call'[l].kept[m] = key
    BY <1>3, <1>5 DEF LineIs
  <2>3. QED
    BY <1>1, <1>2, <2>1, <2>2
<1>6. QED
  BY <1>4, <1>5

(* How a trust moves a call, and which steps are aside. *)
LEMMA CalledMoves ==
    ASSUME TypeOK, NEW k \in Call, TrustCalled(k)
    PROVE  /\ Aside(k)
           /\ call[k].at = "prompted" /\ call'[k].at = "calling"
           /\ call'[k].name = call[k].name /\ call'[k].key = call[k].key
<1>1. call[k] \in CallType /\ call[k].at = "prompted"
  BY DEF TrustCalled, TypeOK
<1>2. LET c == [call[k] EXCEPT !.at = "calling"]
      IN  c.at = "calling" /\ c.name = call[k].name /\ c.key = call[k].key
  BY <1>1 DEF CallType, NoCall
<1>3. QED
  BY <1>1, <1>2 DEF TrustCalled, TypeOK, Aside

LEMMA InsertedMoves ==
    ASSUME TypeOK, NEW k \in Call, Inserted(k)
    PROVE  /\ Aside(k)
           /\ call[k].at = "written" /\ call'[k].at = "retrying"
           /\ call'[k].name = call[k].name /\ call'[k].key = call[k].key
<1>1. call[k] \in CallType /\ call[k].at = "written"
  BY DEF Inserted, TypeOK
<1>2. LET c == [call[k] EXCEPT !.at = "retrying"]
      IN  c.at = "retrying" /\ c.name = call[k].name /\ c.key = call[k].key
  BY <1>1 DEF CallType, NoCall
<1>3. QED
  BY <1>1, <1>2 DEF Inserted, TypeOK, Aside

LEMMA BeginMoves ==
    ASSUME TypeOK, NEW k \in Call, RewriteBegins(k)
    PROVE  /\ \A l \in Call \ {k} : call'[l] = call[l]
           /\ call[k].at = "calling" /\ call'[k].at = "rewriting"
           /\ call'[k].name = call[k].name /\ call'[k].key = call[k].key
           /\ call'[k].kept = [file EXCEPT ![call[k].name] = call[k].key]
           /\ call'[k].todo = Names(file) \cup {call[k].name}
BY DEF RewriteBegins, TypeOK

LEMMA WriteMoves ==
    ASSUME TypeOK, NEW k \in Call, NEW m \in Name, LineWritten(k, m)
    PROVE  /\ \A l \in Call \ {k} : call'[l] = call[l]
           /\ call[k].at = "rewriting" /\ m \in call[k].todo
           /\ call'[k].name = call[k].name /\ call'[k].key = call[k].key
           /\ m = call[k].name => call'[k].at = "written"
           /\ m # call[k].name =>
                  call'[k].at = "rewriting" /\ call'[k].kept = call[k].kept
                  /\ call'[k].todo = call[k].todo \ {m}
<1>1. call[k] \in CallType /\ call[k].at = "rewriting"
  BY DEF LineWritten, TypeOK
<1>2. LET c == [call[k] EXCEPT !.todo = call[k].todo \ {m}]
      IN  /\ c.at = "rewriting" /\ c.name = call[k].name /\ c.key = call[k].key
          /\ c.kept = call[k].kept /\ c.todo = call[k].todo \ {m}
  BY <1>1 DEF CallType, NoCall
<1>3. QED
  BY <1>1, <1>2 DEF LineWritten, TypeOK

(* The rewrite of k begins: its own line is the new one, the others are as they were. *)
LEMMA LineBegins ==
    ASSUME TypeOK, NEW k \in Call, RewriteBegins(k), NEW m \in Name, NEW key
    PROVE  LineIs(m, key)' <=> IF m = call[k].name THEN call[k].key = key ELSE LineIs(m, key)
<1>1. call[k].name \in Name
  BY CallTyped DEF RewriteBegins
<1>2. \A l \in Call : call[l].at # "rewriting"
  BY DEF RewriteBegins
<1>3. \A l \in Call : call'[l].at = "rewriting" <=> l = k
  BY <1>2, BeginMoves
<1>4. ~Rewriting /\ Rewriting'
  BY <1>2, <1>3 DEF Rewriting
<1>5. call'[k].kept[m] = IF m = call[k].name THEN call[k].key ELSE file[m]
  BY <1>1, BeginMoves DEF TypeOK, Lines
<1>6. LineIs(m, key) <=> file[m] = key
  BY <1>4 DEF LineIs
<1>7. LineIs(m, key)' <=> call'[k].kept[m] = key
  BY <1>3, <1>4 DEF LineIs
<1>8. QED
  BY <1>5, <1>6, <1>7

(* Its lines are written: nothing changes but where they are. *)
LEMMA LineGoesOn ==
    ASSUME TypeOK, OneRewriter, RewriteInv, NEW k \in Call, NEW c \in Name, LineWritten(k, c),
           NEW m \in Name, NEW key
    PROVE  LineIs(m, key)' <=> LineIs(m, key)
<1>1. /\ call[k].at = "rewriting" /\ call[k].name \in Name /\ call[k].kept \in Lines
      /\ call[k] \in CallType
  BY CallTyped DEF LineWritten, TypeOK
<1>2. \A l \in Call : call[l].at = "rewriting" <=> l = k
  BY <1>1 DEF OneRewriter
<1>3. LineIs(m, key) <=> call[k].kept[m] = key
  BY <1>2 DEF LineIs, Rewriting
<1>4. CASE c = call[k].name
  <2>1. call' = [call EXCEPT ![k] =
            [at |-> "written", name |-> call[k].name, key |-> call[k].key]]
    BY <1>4 DEF LineWritten
  <2>2. ~Rewriting'
    BY <1>2, <2>1 DEF Rewriting, TypeOK
  <2>3. file'[m] = call[k].kept[m]
    BY <1>1, <1>4 DEF LineWritten, RewriteInv, TypeOK, Lines
  <2>4. QED
    BY <1>3, <2>2, <2>3 DEF LineIs
<1>5. CASE c # call[k].name
  <2>1. call' = [call EXCEPT ![k] = [call[k] EXCEPT !.todo = call[k].todo \ {c}]]
    BY <1>5 DEF LineWritten
  <2>2. [call[k] EXCEPT !.todo = call[k].todo \ {c}].at = "rewriting"
    BY <1>1 DEF CallType, NoCall
  <2>3. [call[k] EXCEPT !.todo = call[k].todo \ {c}].kept = call[k].kept
    BY <1>1 DEF CallType, NoCall
  <2>4. call'[k].at = "rewriting" /\ call'[k].kept = call[k].kept
    BY <2>1, <2>2, <2>3 DEF TypeOK
  <2>5. \A l \in Call : call'[l].at = "rewriting" <=> l = k
    BY <1>2, <2>1, <2>4 DEF TypeOK
  <2>6. QED
    BY <1>3, <2>4, <2>5 DEF LineIs, Rewriting
<1>6. QED
  BY <1>4, <1>5

----------------------------------------------------------------------------
(* A rewrite has its own line to write and the others written or still to write. *)
LEMMA NextRewrite ==
    ASSUME TypeOK, CallsWhileRunning, OneRewriter, RewriteInv, [Next]_vars
    PROVE  RewriteInv'
<1> USE DEF RewriteInv, TypeOK
<1>1. CASE Boot
  BY <1>1 DEF Boot, Migrate, RenderBegins, Rendered, ImportLine, CallsWhileRunning
<1>2. ASSUME NEW k \in Call, Aside(k) PROVE RewriteInv'
  BY <1>2 DEF Aside
<1>3. ASSUME NEW k \in Call, RewriteBegins(k) PROVE RewriteInv'
  <2>1. call[k].name \in Name
    BY <1>3, CallTyped DEF RewriteBegins
  <2>2. \A m \in Name \ call'[k].todo : file'[m] = call'[k].kept[m]
    BY <1>3, <2>1, BeginMoves DEF RewriteBegins, Names, NoLines, Lines
  <2>3. call'[k].name \in call'[k].todo /\ call'[k].kept[call'[k].name] = call'[k].key
    <3>1. /\ call'[k].name = call[k].name /\ call'[k].key = call[k].key
          /\ call'[k].kept = [file EXCEPT ![call[k].name] = call[k].key]
          /\ call'[k].todo = Names(file) \cup {call[k].name}
      BY <1>3, BeginMoves
    <3>2. QED
      BY <2>1, <3>1 DEF Lines
  <2>4. \A l \in Call \ {k} : call'[l].at # "rewriting"
    BY <1>3, BeginMoves DEF RewriteBegins
  <2>5. QED
    BY <2>2, <2>3, <2>4
<1>4. ASSUME NEW k \in Call, NEW m \in Name, LineWritten(k, m) PROVE RewriteInv'
  <2>1. \A l \in Call \ {k} : call'[l].at # "rewriting"
    BY <1>4, WriteMoves DEF OneRewriter
  <2>2. ASSUME call'[k].at = "rewriting"
        PROVE  /\ call'[k].name \in call'[k].todo
               /\ call'[k].kept[call'[k].name] = call'[k].key
               /\ \A c \in Name \ call'[k].todo : file'[c] = call'[k].kept[c]
    <3>1. m # call[k].name
      BY <1>4, <2>2, WriteMoves
    <3>2. file' = [file EXCEPT ![m] = call[k].kept[m]]
      BY <1>4 DEF LineWritten
    <3>3. QED
      BY <1>4, <3>1, <3>2, WriteMoves DEF Lines
  <2>3. QED
    BY <2>1, <2>2
<1>5. ASSUME NEW k \in Call, TrustFails(k) PROVE RewriteInv'
  BY <1>5 DEF TrustFails, NoCall
<1>6. CASE Crash \/ FileDeleted \/ UNCHANGED vars
  BY <1>6 DEF Crash, FileDeleted, vars, NoCall
<1>7. ASSUME NEW k \in Call, Dismissed(k) \/ Retried(k) \/ \E n \in Name, key \in Key : Prompted(k, n, key)
      PROVE  Aside(k)
  BY <1>7 DEF Dismissed, Retried, Prompted, Aside, NoCall
<1>8. QED
  BY <1>1, <1>2, <1>3, <1>4, <1>5, <1>6, <1>7, CalledMoves, InsertedMoves DEF Next, Trust

----------------------------------------------------------------------------
(* A step aside keeps the agreement if k stays what it was or trusts no more. *)
LEMMA AsideOneKey ==
    ASSUME OneKey, NEW k \in Call, Aside(k), strayed \subseteq strayed',
           \/ ~Trusting(k)'
           \/ /\ Trusting(k)
              /\ call'[k].name = call[k].name /\ call'[k].key = call[k].key
              /\ call'[k].at \in {"written", "retrying"} => call[k].at \in {"written", "retrying"}
    PROVE  OneKey'
<1>1. \A l \in Call : Trusting(l)' =>
          /\ Trusting(l) /\ call'[l].name = call[l].name /\ call'[l].key = call[l].key
          /\ call'[l].at \in {"written", "retrying"} => call[l].at \in {"written", "retrying"}
  BY DEF Aside, Trusting
<1>2. \A l \in Call : call'[l].at \in {"written", "retrying"} => Trusting(l)'
  BY DEF Trusting
<1>3. \A n \in Name, key \in Key : LineIs(n, key) => LineIs(n, key)'
  BY LineAside
<1>4. QED
  BY <1>1, <1>2, <1>3 DEF OneKey

LEMMA CalledOneKey == ASSUME TypeOK, OneKey, NEW k \in Call, TrustCalled(k) PROVE OneKey'
<1>1. /\ \A l \in Call \ {k} : call'[l] = call[l]
      /\ call'[k].at = "calling"
      /\ call'[k].name = call[k].name /\ call'[k].key = call[k].key
  BY CalledMoves DEF Aside
<1>2. strayed \subseteq strayed'
  BY DEF TrustCalled
<1>3. \A l \in Call \ {k} :
          Trusting(l) /\ call[l].name = call[k].name /\ call[k].name \notin strayed' =>
              call[l].key = call[k].key
  BY DEF TrustCalled
<1>4. \A n \in Name, key \in Key : LineIs(n, key) => LineIs(n, key)'
  BY LineAside, CalledMoves
<1>5. \A l \in Call \ {k} : Trusting(l)' <=> Trusting(l)
  BY <1>1 DEF Trusting
<1>6. ASSUME NEW n \in Name \ strayed', NEW a \in Call, NEW b \in Call,
             Trusting(a)', Trusting(b)', call'[a].name = n, call'[b].name = n
      PROVE  call'[a].key = call'[b].key
  BY <1>1, <1>2, <1>3, <1>5, <1>6 DEF OneKey
<1>7. ASSUME NEW n \in Name \ strayed', NEW a \in Call, NEW key \in Key,
             call'[a].at \in {"written", "retrying"}, call'[a].name = n, call'[a].key = key
      PROVE  LineIs(n, key)'
  BY <1>1, <1>2, <1>4, <1>7 DEF OneKey
<1>8. QED
  BY <1>6, <1>7 DEF OneKey

LEMMA BeginsOneKey == ASSUME TypeOK, OneKey, NEW k \in Call, RewriteBegins(k) PROVE OneKey'
<1>1. /\ \A l \in Call \ {k} : call'[l] = call[l]
      /\ call[k].at = "calling" /\ call'[k].at = "rewriting"
      /\ call'[k].name = call[k].name /\ call'[k].key = call[k].key
  BY BeginMoves
<1>2. strayed' = strayed
  BY DEF RewriteBegins
<1>3. \A l \in Call : Trusting(l)' <=> Trusting(l)
  BY <1>1 DEF Trusting
<1>4. ASSUME NEW n \in Name \ strayed', NEW a \in Call, NEW key \in Key,
             call'[a].at \in {"written", "retrying"}, call'[a].name = n, call'[a].key = key
      PROVE  LineIs(n, key)'
  <2>1. a # k /\ call[a].at \in {"written", "retrying"} /\ call[a].name = n /\ call[a].key = key
    BY <1>1, <1>4
  <2>2. LineIs(n, key)
    BY <1>2, <2>1 DEF OneKey
  <2>3. n = call[k].name => call[k].key = key
    BY <1>1, <1>2, <2>1 DEF OneKey, Trusting
  <2>4. QED
    BY <2>2, <2>3, LineBegins
<1>5. QED
  BY <1>1, <1>2, <1>3, <1>4 DEF OneKey

LEMMA WrittenOneKey ==
    ASSUME TypeOK, OneRewriter, RewriteInv, OneKey, NEW k \in Call, NEW m \in Name,
           LineWritten(k, m)
    PROVE  OneKey'
<1>1. /\ \A l \in Call \ {k} : call'[l] = call[l]
      /\ call[k].at = "rewriting"
      /\ call'[k].name = call[k].name /\ call'[k].key = call[k].key
      /\ call'[k].at \in {"rewriting", "written"}
  BY WriteMoves
<1>2. strayed' = strayed
  BY DEF LineWritten
<1>3. \A l \in Call : Trusting(l)' <=> Trusting(l)
  BY <1>1 DEF Trusting
<1>4. LineIs(call[k].name, call[k].key)
  BY <1>1 DEF LineIs, Rewriting, RewriteInv, OneRewriter
<1>5. ASSUME NEW n \in Name \ strayed', NEW a \in Call, NEW key \in Key,
             call'[a].at \in {"written", "retrying"}, call'[a].name = n, call'[a].key = key
      PROVE  LineIs(n, key)'
  <2>1. CASE a = k
    BY <1>1, <1>4, <1>5, <2>1, LineGoesOn
  <2>2. CASE a # k
    BY <1>1, <1>2, <1>5, <2>2, LineGoesOn DEF OneKey
  <2>3. QED
    BY <2>1, <2>2
<1>6. QED
  BY <1>1, <1>2, <1>3, <1>5 DEF OneKey

(* A trust or an insert that fails. *)
LEMMA FailsMoves ==
    ASSUME TypeOK, NEW k \in Call, TrustFails(k)
    PROVE  /\ call'[k].at = "none"
           /\ strayed' = Name \/ (Aside(k) /\ strayed \subseteq strayed')
BY DEF TrustFails, TypeOK, NoCall, Aside

LEMMA NextOneKey ==
    ASSUME TypeOK, CallsWhileRunning, OneRewriter, RewriteInv, OneKey, [Next]_vars
    PROVE  OneKey'
<1>1. CASE Boot
  <2>1. \A k \in Call : call'[k].at = "none"
    BY <1>1 DEF Boot, Migrate, RenderBegins, Rendered, ImportLine, CallsWhileRunning
  <2>2. QED
    BY <2>1 DEF OneKey, Trusting
<1>2. CASE Crash
  BY <1>2 DEF Crash, NoCall, OneKey, Trusting
<1>3. CASE FileDeleted
  BY <1>3 DEF FileDeleted, OneKey
<1>4. CASE UNCHANGED vars
  BY <1>4 DEF vars, OneKey, Trusting, LineIs, Rewriting
<1>5. ASSUME NEW k \in Call, Trust(k) PROVE OneKey'
  <2>1. CASE Dismissed(k) \/ Retried(k) \/ \E n \in Name, key \in Key : Prompted(k, n, key)
    <3>1. Aside(k) /\ strayed' = strayed /\ call'[k].at \in {"none", "prompted"}
      BY <2>1 DEF Dismissed, Retried, Prompted, Aside, NoCall, TypeOK
    <3>2. ~Trusting(k)'
      BY <3>1 DEF Trusting
    <3>3. QED
      BY <3>1, <3>2, AsideOneKey
  <2>2. CASE TrustFails(k)
    <3>1. ~Trusting(k)'
      BY <2>2, FailsMoves DEF Trusting
    <3>2. CASE strayed' = Name
      BY <3>2 DEF OneKey
    <3>3. QED
      BY <2>2, <3>1, <3>2, FailsMoves, AsideOneKey
  <2>3. CASE Inserted(k)
    <3>1. strayed' = strayed
      BY <2>3 DEF Inserted
    <3>2. QED
      BY <2>3, <3>1, InsertedMoves, AsideOneKey DEF Trusting
  <2>4. QED
    BY <1>5, <2>1, <2>2, <2>3, CalledOneKey, BeginsOneKey, WrittenOneKey DEF Trust
<1>6. QED
  BY <1>1, <1>2, <1>3, <1>4, <1>5 DEF Next

----------------------------------------------------------------------------
(* A step aside keeps file and table together if k had written no line. *)
LEMMA AsideCache ==
    ASSUME TypeOK, CacheInv, NEW k \in Call, Aside(k), call[k].at # "written",
           UNCHANGED <<main, table>>, strayed \subseteq strayed'
    PROVE  CacheInv'
<1>1. \A n \in Name : LineIs(n, table[n]) => LineIs(n, table[n])'
  <2> SUFFICES ASSUME NEW n \in Name, NEW key, key = table[n], LineIs(n, key)
               PROVE  LineIs(n, key)'
    OBVIOUS
  <2>1. QED
    BY LineAside
<1>2. \A l \in Call : call[l].at \in {"rewriting", "written"} => call'[l] = call[l]
  BY DEF Aside
<1>3. QED
  BY <1>1, <1>2 DEF CacheInv

LEMMA BeginsCache == ASSUME TypeOK, CacheInv, NEW k \in Call, RewriteBegins(k) PROVE CacheInv'
<1>1. /\ \A l \in Call \ {k} : call'[l] = call[l]
      /\ call[k].at = "calling" /\ call'[k].at = "rewriting" /\ call'[k].name = call[k].name
  BY BeginMoves
<1>2. UNCHANGED <<main, table, strayed>>
  BY DEF RewriteBegins
<1>3. \A n \in Name : n # call[k].name /\ LineIs(n, table[n]) => LineIs(n, table[n])'
  <2> SUFFICES ASSUME NEW n \in Name, NEW key, key = table[n], LineIs(n, key), n # call[k].name
               PROVE  LineIs(n, key)'
    BY <1>2
  <2>1. QED
    BY LineBegins
<1>4. QED
  BY <1>1, <1>2, <1>3 DEF CacheInv

LEMMA WrittenCache ==
    ASSUME TypeOK, OneRewriter, RewriteInv, CacheInv, NEW k \in Call, NEW m \in Name,
           LineWritten(k, m)
    PROVE  CacheInv'
<1>1. /\ \A l \in Call \ {k} : call'[l] = call[l]
      /\ call'[k].name = call[k].name /\ call'[k].at \in {"rewriting", "written"}
  BY WriteMoves
<1>2. UNCHANGED <<main, table, strayed>>
  BY DEF LineWritten
<1>3. \A n \in Name : LineIs(n, table[n]) => LineIs(n, table[n])'
  <2> SUFFICES ASSUME NEW n \in Name, NEW key, key = table[n], LineIs(n, key)
               PROVE  LineIs(n, key)'
    BY <1>2
  <2>1. QED
    BY LineGoesOn
<1>4. QED
  BY <1>1, <1>2, <1>3 DEF CacheInv

LEMMA InsertedCache ==
    ASSUME TypeOK, OneKey, CacheInv, NEW k \in Call, Inserted(k) PROVE CacheInv'
<1>1. /\ \A l \in Call \ {k} : call'[l] = call[l]
      /\ call[k].at = "written" /\ call[k].name \in Name /\ call[k].key \in Key
  BY InsertedMoves, CallTyped DEF Aside
<1>2. /\ UNCHANGED <<main, strayed>>
      /\ table' = [table EXCEPT ![call[k].name] = call[k].key]
  BY DEF Inserted
<1>3. call[k].name \notin strayed => LineIs(call[k].name, call[k].key)
  BY <1>1 DEF OneKey
<1>4. ASSUME NEW n \in Name \ strayed, n = call[k].name
      PROVE  LineIs(n, table[n])'
  <2> SUFFICES ASSUME NEW key, key = call[k].key PROVE LineIs(n, key)'
    BY <1>1, <1>2, <1>4 DEF TypeOK, Lines
  <2>1. LineIs(n, key)
    BY <1>3, <1>4
  <2>2. QED
    BY <2>1, LineAside, InsertedMoves
<1>5. ASSUME NEW n \in Name \ strayed, n # call[k].name, LineIs(n, table[n])
      PROVE  LineIs(n, table[n])'
  <2> SUFFICES ASSUME NEW key, key = table[n] PROVE LineIs(n, key)'
    BY <1>1, <1>2, <1>5 DEF TypeOK, Lines
  <2>1. QED
    BY <1>5, LineAside, InsertedMoves
<1>6. QED
  BY <1>1, <1>2, <1>4, <1>5 DEF CacheInv

(* A failed insert strays its own name and no other. *)
LEMMA FailsCache == ASSUME TypeOK, CacheInv, NEW k \in Call, TrustFails(k) PROVE CacheInv'
<1>1. CASE strayed' = Name
  BY <1>1 DEF CacheInv
<1>2. CASE call[k].at = "calling"
  BY <1>2, FailsMoves, AsideCache, <1>1 DEF TrustFails
<1>3. CASE call[k].at = "written" /\ strayed' # Name
  <2>1. /\ Aside(k) /\ call'[k].at = "none" /\ strayed' = strayed \cup {call[k].name}
        /\ UNCHANGED <<main, table>>
    BY <1>3, FailsMoves DEF TrustFails
  <2>2. \A n \in Name : LineIs(n, table[n]) => LineIs(n, table[n])'
    <3> SUFFICES ASSUME NEW n \in Name, NEW key, key = table[n], LineIs(n, key)
                 PROVE  LineIs(n, key)'
      BY <2>1
    <3>1. QED
      BY <2>1, LineAside
  <2>3. \A l \in Call \ {k} : call'[l] = call[l]
    BY <2>1 DEF Aside
  <2>4. QED
    BY <2>1, <2>2, <2>3 DEF CacheInv
<1>4. QED
  BY <1>1, <1>2, <1>3 DEF TrustFails

LEMMA NextCache ==
    ASSUME TypeOK, CallsWhileRunning, OneRewriter, RewriteInv, OneKey, BootInv, CacheInv,
           [Next]_vars
    PROVE  CacheInv'
<1>1. CASE Boot
  <2>1. ~Rewriting'
    BY <1>1 DEF Boot, Migrate, RenderBegins, Rendered, ImportLine, CallsWhileRunning, Rewriting
  <2>2. main'.at = "running" => file' = table'
    <3>1. CASE Migrate
      BY <3>1, BootTyped DEF Migrate, BootInv, Booting
    <3>2. CASE Rendered
      BY <3>2 DEF Rendered
    <3>3. CASE RenderBegins \/ \E n \in Name : ImportLine(n)
      BY <3>3 DEF RenderBegins, ImportLine, Booting
    <3>4. QED
      BY <1>1, <3>1, <3>2, <3>3 DEF Boot
  <2>3. QED
    BY <2>1, <2>2 DEF CacheInv, LineIs
<1>2. CASE Crash
  BY <1>2 DEF Crash, Booting, CacheInv
<1>3. CASE FileDeleted
  BY <1>3 DEF FileDeleted, CacheInv
<1>4. CASE UNCHANGED vars
  BY <1>4 DEF vars, CacheInv, LineIs, Rewriting
<1>5. ASSUME NEW k \in Call, Trust(k) PROVE CacheInv'
  <2>1. CASE Dismissed(k) \/ Retried(k) \/ \E n \in Name, key \in Key : Prompted(k, n, key)
    <3>1. /\ Aside(k) /\ call[k].at # "written"
          /\ UNCHANGED <<main, table, strayed>>
      BY <2>1 DEF Dismissed, Retried, Prompted, Aside, NoCall, TypeOK
    <3>2. QED
      BY <3>1, AsideCache
  <2>2. CASE TrustCalled(k)
    <3>1. UNCHANGED <<main, table>> /\ strayed \subseteq strayed'
      BY <2>2 DEF TrustCalled
    <3>2. QED
      BY <2>2, <3>1, CalledMoves, AsideCache
  <2>3. QED
    BY <1>5, <2>1, <2>2, BeginsCache, WrittenCache, InsertedCache, FailsCache DEF Trust
<1>6. QED
  BY <1>1, <1>2, <1>3, <1>4, <1>5 DEF Next

Agreement ==
    /\ TypeOK /\ CallsWhileRunning /\ OneRewriter /\ RewriteInv /\ OneKey
    /\ BootInv /\ TrustKept /\ CacheInv

LEMMA AgreementHolds == Spec => []Agreement
<1> USE DEF Agreement
<1>1. Init => Agreement
  <2> SUFFICES ASSUME Init PROVE Agreement
    OBVIOUS
  <2>1. \A k \in Call : call[k].at = "none"
    BY DEF Init, NoCall
  <2>2. main.at = "migrate" /\ main.from = "file" /\ acked = NoLines
    BY DEF Init, Booting
  <2>3. QED
    BY <2>1, <2>2, InitTypeOK
       DEF CallsWhileRunning, OneRewriter, RewriteInv, OneKey, Trusting, BootInv, TrustKept,
           CacheInv, NoLines
<1>2. Agreement /\ [Next]_vars => Agreement'
  BY NextTypeOK, NextCalls, NextKept, NextRewrite, NextOneKey, NextCache
<1>3. QED
  BY <1>1, <1>2, PTL DEF Spec

(* While no trust is at work on it, the file says what the table says. *)
THEOREM FileFollows == Spec => []FileIsCache
<1>1. Agreement => FileIsCache
  BY DEF Agreement, CacheInv, FileIsCache, LineIs, Rewriting
<1>2. QED
  BY <1>1, AgreementHolds, PTL

(* The retry after a trust finds the line that the trust wrote. *)
THEOREM RetriesAccepted == Spec => []RetryAccepted
<1>1. ASSUME Agreement, NEW k \in Call, call[k].at = "retrying", call[k].name \notin strayed,
             ~Rewriting
      PROVE  file[call[k].name] = call[k].key
  <2>1. TypeOK /\ OneKey /\ call[k].name \in Name \ strayed /\ call[k].key \in Key
    BY <1>1, CallTyped DEF Agreement
  <2>2. LineIs(call[k].name, call[k].key)
    BY <1>1, <2>1 DEF OneKey
  <2>3. QED
    BY <1>1, <2>2 DEF LineIs
<1>2. Agreement => RetryAccepted
  BY <1>1 DEF RetryAccepted, Verdict
<1>3. QED
  BY <1>2, AgreementHolds, PTL

----------------------------------------------------------------------------
(* The write batch (StoreBatch). *)
Apart == Pull \cap Upsert = {}

RowStatement == (Pull \cup Upsert) \X Rows
PullType ==
    [at : {"idle", "writing", "sent", "returned", "threw"}, next : 1..3, bad : 0..2,
     own : BOOLEAN, sent : Seq(RowStatement)]

BatchTypeOK ==
    /\ batch = <<>> \/ \E s \in Seq(RowStatement) : batch = <<s>>
    /\ pull \in [Pull -> PullType]
    /\ upsert \in [Upsert -> {"idle", "returned", "threw"}]

(* The rows held back, and those that p's call to the main process carries. *)
Held == IF Open THEN ToSet(batch[1]) ELSE {}
SentBy(p) == IF pull[p].at = "sent" THEN ToSet(pull[p].sent) ELSE {}

(* Who may have the batch, and where a call is. *)
Owners ==
    /\ BatchHasOwner
    /\ \A p, q \in Pull :
        (pull[p].own /\ pull[p].at = "writing" /\ pull[q].own /\ pull[q].at = "writing") => p = q
    /\ \A p \in Pull :
        /\ pull[p].at = "idle" => pull[p].next = 1 /\ ~pull[p].own
        /\ pull[p].at = "sent" => pull[p].own
        /\ pull[p].at \in {"sent", "returned"} => pull[p].next = 3

(* A row of a call that has not begun is nowhere; one of a call with a batch of its own is
   in one place at a time: held, sent by that call, stored, or dropped. *)
OwnRows ==
    \A p \in Pull :
        /\ (pull[p].at = "idle" \/ (pull[p].own /\ pull[p].at # "writing")) =>
            RowsOf(p) \cap Held = {}
        /\ (pull[p].at = "idle" \/ pull[p].own) =>
            \A q \in Pull \ {p} : RowsOf(p) \cap SentBy(q) = {}
        /\ (pull[p].at = "idle" \/ (pull[p].own /\ pull[p].at # "returned")) =>
            RowsOf(p) \cap stored = {}
        /\ pull[p].own /\ pull[p].at = "writing" => Written(p) \subseteq Held
        /\ pull[p].own /\ pull[p].at = "sent" => RowsOf(p) \subseteq SentBy(p)
        /\ pull[p].own /\ pull[p].at = "returned" => RowsOf(p) \subseteq stored

(* An acknowledged row is stored, or the pull it rides with holds it, has sent it or has
   thrown. *)
Accounted(row) ==
    \/ row \in stored
    \/ \E q \in Pull :
        /\ <<row, q>> \in rides
        /\ (q \in Owner /\ row \in Held) \/ row \in SentBy(q) \/ pull[q].at = "threw"
AckedRows == \A c \in Pull \cup Upsert : \A row \in Written(c) : Accounted(row)

BatchInv == BatchTypeOK /\ Owners /\ OwnRows /\ AckedRows

(* Appending adds one element to the set of a sequence. *)
LEMMA SetOfAppend ==
    ASSUME NEW S, NEW s \in Seq(S), NEW e
    PROVE  ToSet(Append(s, e)) = ToSet(s) \cup {e}
<1>1. DOMAIN Append(s, e) = 1..(Len(s) + 1) /\ DOMAIN s = 1..Len(s) /\ Len(s) \in Nat
  OBVIOUS
<1>2. \A i \in 1..Len(s) : Append(s, e)[i] = s[i]
  OBVIOUS
<1>3. Append(s, e)[Len(s) + 1] = e
  OBVIOUS
<1>4. \A i \in 1..(Len(s) + 1) : i \in 1..Len(s) \/ i = Len(s) + 1
  BY <1>1
<1>5. \A i \in 1..Len(s) : i \in 1..(Len(s) + 1)
  BY <1>1
<1>6. Len(s) + 1 \in 1..(Len(s) + 1)
  BY <1>1
<1> QED
  BY <1>1, <1>2, <1>3, <1>4, <1>5, <1>6, Zenon DEF ToSet

(* The batch is a tuple of at most one sequence. *)
LEMMA BatchTyped ==
    ASSUME BatchTypeOK, Open
    PROVE  batch[1] \in Seq(RowStatement) /\ batch = <<batch[1]>>
BY DEF BatchTypeOK, Open

(* exec: the row is held back where a batch is open, and stored where none is. *)
LEMMA ExecEffect ==
    ASSUME BatchTypeOK, NEW row, ExecRow(row)
    PROVE  /\ Open' = Open
           /\ Open => /\ Held' = Held \cup {row} /\ stored' = stored
                      /\ rides' = rides \cup ({row} \X Owner)
           /\ ~Open => /\ Held' = {} /\ Held = {} /\ stored' = stored \cup {row}
                       /\ rides' = rides
<1>1. CASE Open
  <2>1. batch' = <<Append(batch[1], row)>> /\ stored' = stored
    BY <1>1 DEF ExecRow
  <2>2. Open' /\ batch'[1] = Append(batch[1], row)
    BY <2>1 DEF Open
  <2>3. ToSet(batch'[1]) = ToSet(batch[1]) \cup {row}
    BY <1>1, <2>2, BatchTyped, SetOfAppend
  <2>4. Held' = Held \cup {row}
    BY <1>1, <2>2, <2>3 DEF Held
  <2>5. rides' = rides \cup ({row} \X Owner)
    BY <1>1 DEF ExecRow
  <2> QED
    BY <1>1, <2>1, <2>2, <2>4, <2>5
<1>2. CASE ~Open
  BY <1>2 DEF ExecRow, Open, Held
<1> QED
  BY <1>1, <1>2

LEMMA BeginEffect ==
    ASSUME BatchTypeOK, NEW p \in Pull, Begin(p)
    PROVE  Open' /\ Held' = Held /\ stored' = stored
<1>1. CASE Open
  BY <1>1 DEF Begin, Open, Held
<1>2. CASE ~Open
  <2>1. batch' = << <<>> >>
    BY <1>2 DEF Begin
  <2>2. Open' /\ batch'[1] = <<>> /\ ToSet(<<>>) = {}
    BY <2>1 DEF Open, ToSet
  <2> QED
    BY <1>2, <2>2 DEF Begin, Held
<1> QED
  BY <1>1, <1>2

(* The owner hands over what was held back, and a batch was open. *)
LEMMA SendEffect ==
    ASSUME BatchTypeOK, Owners, NEW p \in Pull, Send(p)
    PROVE  /\ Open /\ ~Open' /\ Held' = {} /\ stored' = stored
           /\ SentBy(p)' = Held
           /\ \A q \in Pull \ {p} : SentBy(q)' = SentBy(q)
<1>1. Open
  BY DEF Owners, BatchHasOwner, Send
<1>2. ~Open' /\ Held' = {} /\ stored' = stored
  BY DEF Send, Open, Held
<1>3. pull'[p].at = "sent" /\ pull'[p].sent = batch[1]
  BY DEF BatchTypeOK, Send, PullType
<1>4. SentBy(p)' = Held
  BY <1>1, <1>3 DEF SentBy, Held
<1> QED
  BY <1>1, <1>2, <1>4 DEF Send, SentBy, BatchTypeOK

----------------------------------------------------------------------------
LEMMA BatchTypeStep == ASSUME BatchTypeOK, Owners, BatchNext PROVE BatchTypeOK'
<1>1. ASSUME NEW p \in Pull, Begin(p) PROVE BatchTypeOK'
  <2>1. batch' = <<>> \/ \E s \in Seq(RowStatement) : batch' = <<s>>
    <3>1. <<>> \in Seq(RowStatement)
      OBVIOUS
    <3>2. batch' = batch \/ batch' = << <<>> >>
      BY <1>1 DEF Begin
    <3> QED
      BY <3>1, <3>2 DEF BatchTypeOK
  <2>2. pull' \in [Pull -> PullType]
    <3>1. pull[p] \in PullType
      BY DEF BatchTypeOK
    <3>2. [pull[p] EXCEPT !.at = "writing", !.own = ~Open] \in PullType
      BY <3>1 DEF PullType, Open
    <3>3. pull' = [pull EXCEPT ![p] = [pull[p] EXCEPT !.at = "writing", !.own = ~Open]]
      BY <1>1 DEF Begin, BatchTypeOK
    <3> QED
      BY <3>2, <3>3 DEF BatchTypeOK
  <2> QED
    BY <1>1, <2>1, <2>2 DEF BatchTypeOK, Begin
<1>2. ASSUME NEW p \in Pull, WriteRow(p) PROVE BatchTypeOK'
  <2>1. <<p, pull[p].next>> \in RowStatement
    BY <1>2 DEF RowStatement, WriteRow
  <2>2. batch' = <<>> \/ \E s \in Seq(RowStatement) : batch' = <<s>>
    <3>1. CASE Open
      <4>1. Append(batch[1], <<p, pull[p].next>>) \in Seq(RowStatement)
        BY <2>1, <3>1, BatchTyped
      <4> QED
        BY <1>2, <3>1, <4>1 DEF WriteRow, ExecRow
    <3>2. CASE ~Open
      BY <1>2, <3>2 DEF WriteRow, ExecRow, BatchTypeOK
    <3> QED
      BY <3>1, <3>2
  <2>3. pull' \in [Pull -> PullType]
    BY <1>2 DEF BatchTypeOK, WriteRow, PullType, Rows
  <2> QED
    BY <1>2, <2>2, <2>3 DEF BatchTypeOK, WriteRow
<1>3. ASSUME NEW p \in Pull, ParseFails(p) PROVE BatchTypeOK'
  <2>1. pull' \in [Pull -> PullType]
    BY <1>3 DEF BatchTypeOK, ParseFails, PullType
  <2> QED
    BY <1>3, <2>1 DEF BatchTypeOK, ParseFails
<1>4. ASSUME NEW p \in Pull, Send(p) PROVE BatchTypeOK'
  <2>1. batch[1] \in Seq(RowStatement)
    BY <1>4, SendEffect, BatchTyped
  <2>2. pull' \in [Pull -> PullType]
    BY <1>4, <2>1 DEF BatchTypeOK, Send, PullType
  <2> QED
    BY <1>4, <2>2 DEF BatchTypeOK, Send
<1>5. ASSUME NEW p \in Pull, ReturnJoined(p) PROVE BatchTypeOK'
  <2>1. pull' \in [Pull -> PullType]
    BY <1>5 DEF BatchTypeOK, ReturnJoined, PullType
  <2> QED
    BY <1>5, <2>1 DEF BatchTypeOK, ReturnJoined
<1>6. ASSUME NEW p \in Pull, Committed(p) PROVE BatchTypeOK'
  <2>1. pull' \in [Pull -> PullType]
    BY <1>6 DEF BatchTypeOK, Committed, PullType
  <2> QED
    BY <1>6, <2>1 DEF BatchTypeOK, Committed
<1>7. ASSUME NEW p \in Pull, RolledBack(p) PROVE BatchTypeOK'
  <2>1. pull' \in [Pull -> PullType]
    BY <1>7 DEF BatchTypeOK, RolledBack, PullType
  <2> QED
    BY <1>7, <2>1 DEF BatchTypeOK, RolledBack
<1>8. ASSUME NEW p \in Pull, WriteFails(p) PROVE BatchTypeOK'
  <2>1. pull' \in [Pull -> PullType]
    BY <1>8 DEF BatchTypeOK, WriteFails, PullType
  <2> QED
    BY <1>8, <2>1 DEF BatchTypeOK, WriteFails
<1>9. ASSUME NEW u \in Upsert, UpsertRow(u) PROVE BatchTypeOK'
  <2>1. <<u, 1>> \in RowStatement
    BY DEF RowStatement, Rows
  <2>2. batch' = <<>> \/ \E s \in Seq(RowStatement) : batch' = <<s>>
    <3>1. CASE Open
      <4>1. Append(batch[1], <<u, 1>>) \in Seq(RowStatement)
        BY <2>1, <3>1, BatchTyped
      <4> QED
        BY <1>9, <3>1, <4>1 DEF UpsertRow, ExecRow
    <3>2. CASE ~Open
      BY <1>9, <3>2 DEF UpsertRow, ExecRow, BatchTypeOK
    <3> QED
      BY <3>1, <3>2
  <2> QED
    BY <1>9, <2>2 DEF BatchTypeOK, UpsertRow
<1>10. ASSUME NEW u \in Upsert, UpsertFails(u) PROVE BatchTypeOK'
  BY <1>10 DEF BatchTypeOK, UpsertFails
<1> QED
  BY <1>1, <1>2, <1>3, <1>4, <1>5, <1>6, <1>7, <1>8, <1>9, <1>10
  DEF BatchNext

LEMMA OwnersStep == ASSUME BatchTypeOK, Owners, BatchNext PROVE Owners'
<1> USE DEF Owners, BatchHasOwner
<1>1. ASSUME NEW p \in Pull, Begin(p) PROVE Owners'
  <2>1. Open' /\ (Open <=> ~pull'[p].own)
    BY <1>1, BeginEffect DEF BatchTypeOK, Begin, PullType
  <2>2. /\ pull[p].at = "idle" /\ pull'[p].at = "writing"
        /\ \A q \in Pull \ {p} : pull'[q] = pull[q]
    BY <1>1 DEF BatchTypeOK, Begin, PullType
  <2>3. \E q \in Pull : pull'[q].own /\ pull'[q].at = "writing"
    <3>1. CASE Open
      <4>1. PICK q \in Pull : pull[q].own /\ pull[q].at = "writing"
        BY <3>1
      <4> QED
        BY <2>2, <4>1
    <3>2. CASE ~Open
      BY <2>1, <2>2, <3>2
    <3> QED
      BY <3>1, <3>2
  <2> QED
    BY <2>1, <2>2, <2>3
<1>2. ASSUME NEW p \in Pull, WriteRow(p) PROVE Owners'
  <2>1. Open' = Open
    BY <1>2, ExecEffect DEF WriteRow
  <2> QED
    BY <1>2, <2>1 DEF BatchTypeOK, WriteRow, PullType, Rows
<1>3. ASSUME NEW p \in Pull, ParseFails(p) PROVE Owners'
  BY <1>3 DEF BatchTypeOK, ParseFails, PullType, Open
<1>4. ASSUME NEW p \in Pull, Send(p) PROVE Owners'
  <2>1. ~Open'
    BY <1>4, SendEffect
  <2>2. /\ pull'[p].at = "sent" /\ pull'[p].own /\ pull[p].next = 3 /\ pull'[p].next = 3
        /\ \A q \in Pull \ {p} : pull'[q] = pull[q]
    BY <1>4 DEF BatchTypeOK, Send, PullType
  <2>3. ~ \E q \in Pull : pull'[q].own /\ pull'[q].at = "writing"
    BY <1>4, <2>2 DEF Send
  <2> QED
    BY <2>1, <2>2, <2>3
<1>5. ASSUME NEW p \in Pull, ReturnJoined(p) PROVE Owners'
  BY <1>5 DEF BatchTypeOK, ReturnJoined, PullType, Open
<1>6. ASSUME NEW p \in Pull, Committed(p) PROVE Owners'
  BY <1>6 DEF BatchTypeOK, Committed, PullType, Open
<1>7. ASSUME NEW p \in Pull, RolledBack(p) PROVE Owners'
  BY <1>7 DEF BatchTypeOK, RolledBack, PullType, Open
<1>8. ASSUME NEW p \in Pull, WriteFails(p) PROVE Owners'
  BY <1>8 DEF BatchTypeOK, WriteFails, PullType, Open
<1>9. ASSUME NEW u \in Upsert, UpsertRow(u) PROVE Owners'
  BY <1>9, ExecEffect DEF UpsertRow
<1>10. ASSUME NEW u \in Upsert, UpsertFails(u) PROVE Owners'
  BY <1>10 DEF UpsertFails, Open
<1> QED
  BY <1>1, <1>2, <1>3, <1>4, <1>5, <1>6, <1>7, <1>8, <1>9, <1>10
  DEF BatchNext

LEMMA OwnRowsStep == ASSUME BatchTypeOK, Owners, OwnRows, Apart, BatchNext PROVE OwnRows'
<1>1. ASSUME NEW p \in Pull, Begin(p) PROVE OwnRows'
  <2>1. Held' = Held /\ stored' = stored /\ (pull'[p].own => ~Open)
    BY <1>1, BeginEffect DEF BatchTypeOK, Begin, PullType
  <2>2. /\ pull[p].at = "idle" /\ pull'[p].at = "writing" /\ pull'[p].next = pull[p].next
        /\ \A q \in Pull \ {p} : pull'[q] = pull[q]
    BY <1>1 DEF BatchTypeOK, Begin, PullType
  <2>3. \A q \in Pull : SentBy(q)' = SentBy(q)
    BY <2>2 DEF SentBy
  <2>4. Written(p)' = {}
    BY <2>2 DEF Written, Owners
  <2>5. \A q \in Pull \ {p} : Written(q)' = Written(q)
    BY <2>2 DEF Written
  <2> QED
    BY <2>1, <2>2, <2>3, <2>4, <2>5 DEF OwnRows
<1>2. ASSUME NEW p \in Pull, WriteRow(p) PROVE OwnRows'
  <2> DEFINE row == <<p, pull[p].next>>
  <2>1. /\ pull[p].at = "writing" /\ pull'[p].at = "writing" /\ pull'[p].own = pull[p].own
        /\ pull'[p].next = pull[p].next + 1 /\ pull[p].next \in 1..2
        /\ \A q \in Pull \ {p} : pull'[q] = pull[q]
    BY <1>2 DEF BatchTypeOK, WriteRow, PullType, Rows
  <2>2. \A q \in Pull : SentBy(q)' = SentBy(q)
    BY <2>1 DEF SentBy
  <2>3. Written(p)' \subseteq Written(p) \cup {row}
    BY <2>1 DEF Written
  <2>4. \A q \in Pull \ {p} : Written(q)' = Written(q) /\ row \notin RowsOf(q)
    BY <2>1 DEF Written, RowsOf
  <2>5. \/ Open /\ Held' = Held \cup {row} /\ stored' = stored
        \/ ~Open /\ Held' = {} /\ Held = {} /\ stored' = stored \cup {row}
    BY <1>2, ExecEffect DEF WriteRow
  <2>6. pull[p].own => Open
    BY <2>1 DEF Owners, BatchHasOwner
  <2> HIDE DEF row
  <2> QED
    BY <2>1, <2>2, <2>3, <2>4, <2>5, <2>6 DEF OwnRows
<1>3. ASSUME NEW p \in Pull, ParseFails(p) PROVE OwnRows'
  <2>1. /\ pull[p].at = "writing" /\ pull'[p].at = "threw" /\ pull'[p].own = pull[p].own
        /\ \A q \in Pull \ {p} : pull'[q] = pull[q]
    BY <1>3 DEF BatchTypeOK, ParseFails, PullType
  <2>2. \A q \in Pull : SentBy(q)' = SentBy(q)
    BY <2>1 DEF SentBy
  <2>3. \A q \in Pull \ {p} : Written(q)' = Written(q)
    BY <2>1 DEF Written
  <2>4. /\ stored' = stored
        /\ pull[p].own => Held' = {}
        /\ ~pull[p].own => Held' = Held
    BY <1>3 DEF ParseFails, Held, Open
  <2>5. pull[p].own => \A q \in Pull \ {p} : ~(pull[q].own /\ pull[q].at = "writing")
    BY <2>1 DEF Owners
  <2> QED
    BY <2>1, <2>2, <2>3, <2>4, <2>5 DEF OwnRows
<1>4. ASSUME NEW p \in Pull, Send(p) PROVE OwnRows'
  <2>1. /\ pull[p].at = "writing" /\ pull[p].own /\ pull'[p].own /\ pull'[p].at = "sent"
        /\ pull[p].next = 3
        /\ \A q \in Pull \ {p} : pull'[q] = pull[q]
    BY <1>4 DEF BatchTypeOK, Send, PullType
  <2>2. Held' = {} /\ stored' = stored /\ SentBy(p)' = Held
    BY <1>4, SendEffect
  <2>3. \A q \in Pull \ {p} : SentBy(q)' = SentBy(q) /\ Written(q)' = Written(q)
    BY <2>1 DEF SentBy, Written
  <2>4. RowsOf(p) \subseteq Held
    <3>1. Written(p) = RowsOf(p)
      BY <2>1 DEF Written, RowsOf, Rows
    <3> QED
      BY <2>1, <3>1 DEF OwnRows
  <2>5. \A q \in Pull \ {p} : ~(pull[q].own /\ pull[q].at = "writing")
    BY <2>1 DEF Owners
  <2> QED
    BY <2>1, <2>2, <2>3, <2>4, <2>5 DEF OwnRows
<1>5. ASSUME NEW p \in Pull, ReturnJoined(p) PROVE OwnRows'
  <2>1. /\ pull[p].at = "writing" /\ ~pull'[p].own /\ pull'[p].at = "returned"
        /\ \A q \in Pull \ {p} : pull'[q] = pull[q]
    BY <1>5 DEF BatchTypeOK, ReturnJoined, PullType
  <2>2. Held' = Held /\ stored' = stored
    BY <1>5 DEF ReturnJoined, Held, Open
  <2>3. \A q \in Pull : SentBy(q)' = SentBy(q)
    BY <2>1 DEF SentBy
  <2>4. \A q \in Pull \ {p} : Written(q)' = Written(q)
    BY <2>1 DEF Written
  <2> QED
    BY <2>1, <2>2, <2>3, <2>4 DEF OwnRows
<1>6. ASSUME NEW p \in Pull, Committed(p) PROVE OwnRows'
  <2>1. /\ pull[p].at = "sent" /\ pull[p].own /\ pull'[p].own /\ pull'[p].at = "returned"
        /\ \A q \in Pull \ {p} : pull'[q] = pull[q]
    BY <1>6 DEF BatchTypeOK, Committed, PullType, Owners
  <2>2. Held' = Held /\ stored' = stored \cup SentBy(p)
    BY <1>6 DEF Committed, Held, Open, SentBy
  <2>3. SentBy(p)' = {} /\ \A q \in Pull \ {p} : SentBy(q)' = SentBy(q) /\ Written(q)' = Written(q)
    BY <2>1 DEF SentBy, Written
  <2> QED
    BY <2>1, <2>2, <2>3 DEF OwnRows
<1>7. ASSUME NEW p \in Pull, RolledBack(p) PROVE OwnRows'
  <2>1. /\ pull[p].at = "sent" /\ pull[p].own /\ pull'[p].own /\ pull'[p].at = "threw"
        /\ \A q \in Pull \ {p} : pull'[q] = pull[q]
    BY <1>7 DEF BatchTypeOK, RolledBack, PullType, Owners
  <2>2. Held' = Held /\ stored' = stored
    BY <1>7 DEF RolledBack, Held, Open
  <2>3. SentBy(p)' = {} /\ \A q \in Pull \ {p} : SentBy(q)' = SentBy(q) /\ Written(q)' = Written(q)
    BY <2>1 DEF SentBy, Written
  <2> QED
    BY <2>1, <2>2, <2>3 DEF OwnRows
<1>8. ASSUME NEW p \in Pull, WriteFails(p) PROVE OwnRows'
  <2>1. /\ pull[p].at = "writing" /\ pull'[p].at = "threw" /\ pull'[p].own = pull[p].own
        /\ \A q \in Pull \ {p} : pull'[q] = pull[q]
    BY <1>8 DEF BatchTypeOK, WriteFails, PullType
  <2>2. \A q \in Pull : SentBy(q)' = SentBy(q)
    BY <2>1 DEF SentBy
  <2>3. \A q \in Pull \ {p} : Written(q)' = Written(q)
    BY <2>1 DEF Written
  <2>4. /\ stored' = stored /\ Held' = Held /\ ~pull[p].own
    BY <1>8 DEF WriteFails, Held, Open, Owners, BatchHasOwner
  <2> QED
    BY <2>1, <2>2, <2>3, <2>4 DEF OwnRows
<1>9. ASSUME NEW u \in Upsert, UpsertRow(u) PROVE OwnRows'
  <2>1. pull' = pull
    BY <1>9 DEF UpsertRow
  <2>2. \A q \in Pull : SentBy(q)' = SentBy(q) /\ Written(q)' = Written(q)
    BY <2>1 DEF SentBy, Written
  <2>3. \A q \in Pull : <<u, 1>> \notin RowsOf(q)
    BY DEF Apart, RowsOf
  <2>4. \/ Open /\ Held' = Held \cup {<<u, 1>>} /\ stored' = stored
        \/ ~Open /\ Held' = {} /\ Held = {} /\ stored' = stored \cup {<<u, 1>>}
    BY <1>9, ExecEffect DEF UpsertRow
  <2>5. ASSUME NEW q \in Pull, pull[q].own, pull[q].at = "writing" PROVE Open
    BY <2>5 DEF Owners, BatchHasOwner
  <2> QED
    BY <2>1, <2>2, <2>3, <2>4, <2>5 DEF OwnRows
<1>10. ASSUME NEW u \in Upsert, UpsertFails(u) PROVE OwnRows'
  <2>1. pull' = pull /\ stored' = stored /\ Held' = Held
    BY <1>10 DEF UpsertFails, Held, Open
  <2>2. \A q \in Pull : SentBy(q)' = SentBy(q) /\ Written(q)' = Written(q)
    BY <2>1 DEF SentBy, Written
  <2> QED
    BY <2>1, <2>2 DEF OwnRows
<1> QED
  BY <1>1, <1>2, <1>3, <1>4, <1>5, <1>6, <1>7, <1>8, <1>9, <1>10
  DEF BatchNext

(* exec loses no row and the new one is accounted for: stored, or with the batch's owner. *)
LEMMA ExecAccounted ==
    ASSUME BatchTypeOK, Owners, NEW new, ExecRow(new), Owner' = Owner,
           \A q \in Pull : SentBy(q)' = SentBy(q) /\ pull'[q].at = pull[q].at
    PROVE  /\ \A row : Accounted(row) => Accounted(row)'
           /\ Accounted(new)'
<1>1. CASE Open
  <2>1. Held' = Held \cup {new} /\ rides' = rides \cup ({new} \X Owner) /\ stored' = stored
    BY <1>1, ExecEffect
  <2>2. ASSUME NEW row, Accounted(row) PROVE Accounted(row)'
    <3>1. CASE row \in stored
      BY <2>1, <3>1 DEF Accounted
    <3>2. ASSUME NEW q \in Pull, <<row, q>> \in rides,
                 (q \in Owner /\ row \in Held) \/ row \in SentBy(q) \/ pull[q].at = "threw"
          PROVE  Accounted(row)'
      <4>1. <<row, q>> \in rides'
        BY <2>1, <3>2
      <4>2. (q \in Owner' /\ row \in Held') \/ row \in SentBy(q)' \/ pull'[q].at = "threw"
        BY <2>1, <3>2
      <4> QED
        BY <4>1, <4>2 DEF Accounted
    <3> QED
      BY <2>2, <3>1, <3>2 DEF Accounted
  <2>3. PICK q \in Pull : q \in Owner
    BY <1>1 DEF Owners, BatchHasOwner, Owner
  <2>4. Accounted(new)'
    BY <2>1, <2>3 DEF Accounted
  <2> QED
    BY <2>2, <2>4
<1>2. CASE ~Open
  <2>1. Held' = {} /\ Held = {} /\ stored' = stored \cup {new} /\ rides' = rides
    BY <1>2, ExecEffect
  <2> QED
    BY <2>1 DEF Accounted
<1> QED
  BY <1>1, <1>2

LEMMA AckedRowsStep == ASSUME BatchTypeOK, Owners, AckedRows, Apart, BatchNext PROVE AckedRows'
<1> USE DEF Owner
<1>1. ASSUME NEW p \in Pull, Begin(p) PROVE AckedRows'
  <2>1. Held' = Held /\ stored' = stored /\ upsert' = upsert /\ rides' = rides
    BY <1>1, BeginEffect DEF Begin
  <2>2. /\ pull[p].at = "idle" /\ pull'[p].at = "writing" /\ pull'[p].next = pull[p].next
        /\ \A q \in Pull \ {p} : pull'[q] = pull[q]
    BY <1>1 DEF BatchTypeOK, Begin, PullType
  <2>3. \A q \in Pull : SentBy(q)' = SentBy(q)
    BY <2>2 DEF SentBy
  <2>4. ASSUME NEW row, Accounted(row) PROVE Accounted(row)'
    BY <2>1, <2>2, <2>3, <2>4 DEF Accounted
  <2>5. \A c \in Pull \cup Upsert : Written(c)' = Written(c)
    BY <2>1, <2>2 DEF Written
  <2> QED
    BY <2>4, <2>5 DEF AckedRows
<1>2. ASSUME NEW p \in Pull, WriteRow(p) PROVE AckedRows'
  <2>0. PICK new : new = <<p, pull[p].next>>
    OBVIOUS
  <2>1. /\ pull[p].at = "writing" /\ pull'[p].at = "writing" /\ pull'[p].own = pull[p].own
        /\ pull'[p].next = pull[p].next + 1 /\ pull[p].next \in 1..2
        /\ \A q \in Pull \ {p} : pull'[q] = pull[q]
        /\ upsert' = upsert
    BY <1>2 DEF BatchTypeOK, WriteRow, PullType, Rows
  <2>2. \A q \in Pull : SentBy(q)' = SentBy(q) /\ pull'[q].at = pull[q].at
    BY <2>1 DEF SentBy
  <2>3. Written(p)' \subseteq Written(p) \cup {new}
    BY <2>0, <2>1 DEF Written
  <2>4. \A c \in (Pull \cup Upsert) \ {p} : Written(c)' = Written(c)
    BY <2>1 DEF Written
  <2>5. Owner' = Owner /\ ExecRow(new)
    BY <1>2, <2>0, <2>1 DEF WriteRow
  <2>6. /\ \A row : Accounted(row) => Accounted(row)'
        /\ Accounted(new)'
    BY <2>2, <2>5, ExecAccounted
  <2> QED
    BY <2>3, <2>4, <2>6 DEF AckedRows
<1>3. ASSUME NEW p \in Pull, ParseFails(p) PROVE AckedRows'
  <2>1. /\ pull[p].at = "writing" /\ pull'[p].at = "threw"
        /\ pull'[p].own = pull[p].own /\ pull'[p].next = pull[p].next
        /\ \A q \in Pull \ {p} : pull'[q] = pull[q]
        /\ upsert' = upsert /\ rides' = rides
    BY <1>3 DEF BatchTypeOK, ParseFails, PullType
  <2>2. \A q \in Pull : SentBy(q)' = SentBy(q)
    BY <2>1 DEF SentBy
  <2>3. stored' = stored /\ (~pull[p].own => Held' = Held)
    BY <1>3 DEF ParseFails, Held, Open
  <2>4. pull[p].own => \A q \in Pull \ {p} : q \notin Owner
    BY <2>1 DEF Owners
  <2>5. ASSUME NEW row, Accounted(row) PROVE Accounted(row)'
    BY <2>1, <2>2, <2>3, <2>4, <2>5 DEF Accounted
  <2>6. \A c \in Pull \cup Upsert : Written(c)' = Written(c)
    BY <2>1 DEF Written
  <2> QED
    BY <2>5, <2>6 DEF AckedRows
<1>4. ASSUME NEW p \in Pull, Send(p) PROVE AckedRows'
  <2>1. /\ pull[p].at = "writing" /\ pull[p].own /\ pull'[p].at = "sent"
        /\ pull'[p].own = pull[p].own /\ pull'[p].next = pull[p].next
        /\ \A q \in Pull \ {p} : pull'[q] = pull[q]
        /\ upsert' = upsert /\ rides' = rides
    BY <1>4 DEF BatchTypeOK, Send, PullType
  <2>2. Held' = {} /\ stored' = stored /\ SentBy(p)' = Held
    BY <1>4, SendEffect
  <2>3. SentBy(p) = {} /\ \A q \in Pull \ {p} : SentBy(q)' = SentBy(q)
    BY <2>1 DEF SentBy
  <2>4. \A q \in Pull \ {p} : q \notin Owner
    BY <2>1 DEF Owners
  <2>5. ASSUME NEW row, Accounted(row) PROVE Accounted(row)'
    BY <2>1, <2>2, <2>3, <2>4, <2>5 DEF Accounted
  <2>6. \A c \in Pull \cup Upsert : Written(c)' = Written(c)
    BY <2>1 DEF Written
  <2> QED
    BY <2>5, <2>6 DEF AckedRows
<1>5. ASSUME NEW p \in Pull, ReturnJoined(p) \/ WriteFails(p) PROVE AckedRows'
  <2>1. /\ pull[p].at = "writing" /\ ~pull[p].own /\ pull'[p].at \in {"returned", "threw"}
        /\ pull'[p].own = pull[p].own /\ pull'[p].next = pull[p].next
        /\ \A q \in Pull \ {p} : pull'[q] = pull[q]
        /\ upsert' = upsert /\ rides' = rides
    BY <1>5 DEF BatchTypeOK, ReturnJoined, WriteFails, PullType, Owners, BatchHasOwner
  <2>2. Held' = Held /\ stored' = stored
    BY <1>5 DEF ReturnJoined, WriteFails, Held, Open
  <2>3. \A q \in Pull : SentBy(q)' = SentBy(q)
    BY <2>1 DEF SentBy
  <2>4. ASSUME NEW row, Accounted(row) PROVE Accounted(row)'
    BY <2>1, <2>2, <2>3, <2>4 DEF Accounted
  <2>5. \A c \in Pull \cup Upsert : Written(c)' = Written(c)
    BY <2>1 DEF Written
  <2> QED
    BY <2>4, <2>5 DEF AckedRows
<1>6. ASSUME NEW p \in Pull, Committed(p) PROVE AckedRows'
  <2>1. /\ pull[p].at = "sent" /\ pull'[p].at = "returned"
        /\ pull'[p].own = pull[p].own /\ pull'[p].next = pull[p].next
        /\ \A q \in Pull \ {p} : pull'[q] = pull[q]
        /\ upsert' = upsert /\ rides' = rides
    BY <1>6 DEF BatchTypeOK, Committed, PullType
  <2>2. Held' = Held /\ stored' = stored \cup SentBy(p)
    BY <1>6 DEF Committed, Held, Open, SentBy
  <2>3. \A q \in Pull \ {p} : SentBy(q)' = SentBy(q)
    BY <2>1 DEF SentBy
  <2>4. ASSUME NEW row, Accounted(row) PROVE Accounted(row)'
    BY <2>1, <2>2, <2>3, <2>4 DEF Accounted
  <2>5. \A c \in Pull \cup Upsert : Written(c)' = Written(c)
    BY <2>1 DEF Written
  <2> QED
    BY <2>4, <2>5 DEF AckedRows
<1>7. ASSUME NEW p \in Pull, RolledBack(p) PROVE AckedRows'
  <2>1. /\ pull[p].at = "sent" /\ pull'[p].at = "threw"
        /\ pull'[p].own = pull[p].own /\ pull'[p].next = pull[p].next
        /\ \A q \in Pull \ {p} : pull'[q] = pull[q]
        /\ upsert' = upsert /\ rides' = rides
    BY <1>7 DEF BatchTypeOK, RolledBack, PullType
  <2>2. Held' = Held /\ stored' = stored
    BY <1>7 DEF RolledBack, Held, Open
  <2>3. \A q \in Pull \ {p} : SentBy(q)' = SentBy(q)
    BY <2>1 DEF SentBy
  <2>4. ASSUME NEW row, Accounted(row) PROVE Accounted(row)'
    BY <2>1, <2>2, <2>3, <2>4 DEF Accounted
  <2>5. \A c \in Pull \cup Upsert : Written(c)' = Written(c)
    BY <2>1 DEF Written
  <2> QED
    BY <2>4, <2>5 DEF AckedRows
<1>8. ASSUME NEW u \in Upsert, UpsertRow(u) PROVE AckedRows'
  <2>1. pull' = pull /\ \A c \in Upsert \ {u} : upsert'[c] = upsert[c]
    BY <1>8 DEF UpsertRow, BatchTypeOK
  <2>2. \A q \in Pull : SentBy(q)' = SentBy(q) /\ pull'[q].at = pull[q].at
    BY <2>1 DEF SentBy
  <2>3. \A c \in (Pull \cup Upsert) \ {u} : Written(c)' = Written(c)
    BY <2>1 DEF Written
  <2>4. Written(u)' \subseteq {<<u, 1>>}
    BY DEF Apart, Written
  <2>5. Owner' = Owner /\ ExecRow(<<u, 1>>)
    BY <1>8, <2>1 DEF UpsertRow
  <2>6. /\ \A row : Accounted(row) => Accounted(row)'
        /\ Accounted(<<u, 1>>)'
    BY <2>2, <2>5, ExecAccounted
  <2> QED
    BY <2>3, <2>4, <2>6 DEF AckedRows
<1>9. ASSUME NEW u \in Upsert, UpsertFails(u) PROVE AckedRows'
  <2>1. /\ UNCHANGED <<pull, stored, rides>> /\ Held' = Held
        /\ \A c \in Upsert \ {u} : upsert'[c] = upsert[c]
        /\ upsert[u] = "idle" /\ upsert'[u] = "threw"
    BY <1>9 DEF UpsertFails, Held, Open, BatchTypeOK
  <2>2. \A q \in Pull : SentBy(q)' = SentBy(q)
    BY <2>1 DEF SentBy
  <2>3. ASSUME NEW row, Accounted(row) PROVE Accounted(row)'
    BY <2>1, <2>2, <2>3 DEF Accounted
  <2>4. \A c \in Pull \cup Upsert : Written(c)' = Written(c)
    BY <2>1 DEF Written
  <2> QED
    BY <2>3, <2>4 DEF AckedRows
<1> QED
  BY <1>1, <1>2, <1>3, <1>4, <1>5, <1>6, <1>7, <1>8, <1>9 DEF BatchNext

----------------------------------------------------------------------------
LEMMA Starts == ASSUME Apart, BatchInit PROVE BatchInv
<1>1. PICK bad \in [Pull -> 0..2] :
        pull = [p \in Pull |-> [at |-> "idle", next |-> 1, bad |-> bad[p], own |-> FALSE, sent |-> <<>>]]
  BY DEF BatchInit
<1>2. BatchTypeOK
  <2>1. <<>> \in Seq(RowStatement)
    OBVIOUS
  <2>2. pull \in [Pull -> PullType]
    BY <1>1, <2>1 DEF PullType
  <2> QED
    BY <2>2 DEF BatchTypeOK, BatchInit
<1>3. \A p \in Pull : pull[p].at = "idle" /\ pull[p].next = 1 /\ ~pull[p].own
  BY <1>1
<1>4. ~Open /\ Held = {} /\ stored = {}
  BY DEF BatchInit, Open, Held
<1>5. \A p \in Pull : SentBy(p) = {} /\ Written(p) = {}
  BY <1>3 DEF SentBy, Written
<1>6. Owners
  BY <1>3, <1>4 DEF Owners, BatchHasOwner
<1>7. OwnRows
  BY <1>3, <1>4, <1>5 DEF OwnRows
<1>8. AckedRows
  BY <1>5 DEF AckedRows, Written, BatchInit
<1> QED
  BY <1>2, <1>6, <1>7, <1>8 DEF BatchInv

LEMMA Stutters == ASSUME BatchInv, UNCHANGED sbVars PROVE BatchInv'
<1> USE DEF sbVars, Held, Open
<1>1. BatchTypeOK'
  BY DEF BatchInv, BatchTypeOK
<1>2. \A q \in Pull : SentBy(q)' = SentBy(q)
  BY DEF SentBy
<1>3. \A c \in Pull \cup Upsert : Written(c)' = Written(c)
  BY DEF Written
<1>4. Owners'
  BY DEF BatchInv, Owners, BatchHasOwner
<1>5. OwnRows'
  BY <1>2, <1>3 DEF BatchInv, OwnRows
<1>6. AckedRows'
  BY <1>2, <1>3 DEF BatchInv, AckedRows, Accounted, Owner
<1> QED
  BY <1>1, <1>4, <1>5, <1>6 DEF BatchInv

(* BatchInv holds in every reachable state. *)
LEMMA Invariance == ASSUME Apart PROVE BatchSpec => []BatchInv
<1>1. BatchInit => BatchInv
  BY Starts
<1>2. BatchInv /\ [BatchNext]_sbVars => BatchInv'
  BY BatchTypeStep, OwnersStep, OwnRowsStep, AckedRowsStep, Stutters DEF BatchInv
<1> QED
  BY <1>1, <1>2, PTL DEF BatchSpec

(* A batch is open only while the function that opened it runs (platform.ts, transaction),
   whatever fails. *)
THEOREM NoOrphanBatch == ASSUME Apart PROVE BatchSpec => []BatchHasOwner
<1>1. BatchInv => BatchHasOwner
  BY DEF BatchInv, Owners
<1> QED
  BY <1>1, Invariance, PTL

(* applyRemote with a batch of its own stores all of its rows or none, though others add
   theirs to the batch and other batches come and go. *)
THEOREM PullsAreAtomic == ASSUME Apart PROVE BatchSpec => []AllOrNothing
<1>1. BatchInv => AllOrNothing
  BY DEF BatchInv, OwnRows, AllOrNothing
<1> QED
  BY <1>1, Invariance, PTL

(* An acknowledged row that is not stored is with the pull whose batch it was added to,
   held back or on its way, or that pull has thrown. *)
THEOREM NoSilentLoss == ASSUME Apart PROVE BatchSpec => []AckedOrOwnerTold
<1>1. ASSUME BatchInv PROVE AckedOrOwnerTold
  <2>1. ASSUME NEW row, NEW q \in Pull, row \in SentBy(q) PROVE Carries(q, row)
    BY <2>1 DEF SentBy, Carries
  <2>2. ASSUME NEW row, NEW q \in Pull, q \in Owner, row \in Held PROVE Carries(q, row)
    BY <2>2 DEF Held, Carries
  <2>3. ASSUME NEW row, NEW q \in Pull, pull[q].at = "threw" PROVE Carries(q, row)
    BY <2>3 DEF Carries
  <2> QED
    BY <1>1, <2>1, <2>2, <2>3 DEF BatchInv, AckedRows, Accounted, AckedOrOwnerTold
<1> QED
  BY <1>1, Invariance, PTL
=============================================================================
