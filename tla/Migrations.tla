----------------------------- MODULE Migrations -----------------------------
(* The schema of the local database (store.ts: adopt, runMigrations, Store.open), run by
   the window's page one statement per IPC call over the one connection that the main
   process keeps (handlers.ts, db.ts, main/index.ts).  The page may die or be reloaded
   between any two statements while the connection and its transaction live on; the
   main process may die too, and then what is not committed is gone.

   A database is a record of what the program tells apart: PRAGMA user_version, the
   tables, the columns of credentials that decide its era, and what its secrets are.
   Indexes, the other columns and the rows are left out.                           *)
EXTENDS Naturals, Sequences, FiniteSets

VARIABLES
    disk,   \* the committed database
    conn,   \* the database as the main process's connection sees it
    inTxn,  \* whether that connection is inside BEGIN ... COMMIT
    page,   \* the page: where its Store.open is
    todo    \* the statements its current step has still to send

dbVars == <<disk, conn, inTxn, page, todo>>

\* Tables that the runner's first migration creates; known_hosts is among them.
Table == {"hosts", "credentials", "snippets", "known_hosts", "meta"}
Database(ver, tables, cols, secrets) ==
    [ver |-> ver, tables |-> tables, cols |-> cols, secrets |-> secrets]
Upgraded == {"secret", "passphrase"}

\* The databases that earlier versions left: none, the vault's, and those of the two
\* schemas written before user_version was; and one of this version.
Shipped ==
    {Database(0, {}, {}, "none"),
     Database(2, Table, Upgraded, "plain")} \cup
    {Database(0, Table \ {"known_hosts"}, era[1], era[2]) :
        era \in {<<{"cipher"}, "cipher">>, <<{"secret"}, "plain">>, <<Upgraded, "plain">>}}

SchemaInit ==
    /\ disk \in Shipped
    /\ conn = disk
    /\ inTxn = FALSE
    /\ page = "quit"
    /\ todo = <<>>

----------------------------------------------------------------------------
\* A bug: every table of before user_version is taken for the vault's.
AdoptPlanDropsAll(d) ==
    IF d.ver # 0 THEN <<>>
    ELSE IF "credentials" \notin d.tables THEN <<"clearMeta">>
    ELSE <<"dropCredentials", "createCredentials", "addPassphrase", "clearMeta", "version2">>

\* adopt: the statements it sends for the database it reads.
AdoptPlan(d) ==
    IF d.ver # 0 THEN <<>>
    ELSE IF "credentials" \notin d.tables THEN <<"clearMeta">>
    ELSE IF "secret" \notin d.cols
         THEN <<"dropCredentials", "createCredentials", "addPassphrase", "clearMeta", "version2">>
    ELSE IF "passphrase" \in d.cols THEN <<"version2", "clearMeta">>
    ELSE <<"version1", "clearMeta">>

\* A bug: the version is written after the transaction.
MigrationVersionLast == <<
    <<"begin", "createTables", "commit", "version1">>,
    <<"begin", "addPassphrase", "commit", "version2">> >>

\* A bug: the version is written before the transaction.
MigrationVersionFirst == <<
    <<"version1", "begin", "createTables", "commit">>,
    <<"version2", "begin", "addPassphrase", "commit">> >>

\* MIGRATIONS, each between BEGIN and COMMIT with the version it leads to.
Migration == <<
    <<"begin", "createTables", "version1", "commit">>,
    <<"begin", "addPassphrase", "version2", "commit">> >>

\* runMigrations: the entries from the version that it reads on.
MigrationPlan(d) ==
    CASE d.ver = 0 -> Migration[1] \o Migration[2]
      [] d.ver = 1 -> Migration[2]
      [] OTHER -> <<>>

\* What SQLite refuses: a second BEGIN, a COMMIT without one, a column that exists, and
\* a statement on a table that does not.
Refused(s) ==
    \/ s = "begin" /\ inTxn
    \/ s = "commit" /\ ~inTxn
    \/ s = "addPassphrase" /\ ("passphrase" \in conn.cols \/ "credentials" \notin conn.tables)
    \/ s = "clearMeta" /\ "meta" \notin conn.tables

Create(d, tables) ==
    [d EXCEPT !.tables = @ \cup tables,
              !.cols = IF "credentials" \in tables \ d.tables THEN {"secret"} ELSE @]

Effect(s, d) ==
    CASE s = "dropCredentials" -> [d EXCEPT !.tables = @ \ {"credentials"}, !.cols = {}, !.secrets = "none"]
      [] s = "createCredentials" -> Create(d, {"credentials"})
      [] s = "createTables" -> Create(d, Table)
      [] s = "addPassphrase" -> [d EXCEPT !.cols = @ \cup {"passphrase"}]
      [] s = "version1" -> [d EXCEPT !.ver = 1]
      [] s = "version2" -> [d EXCEPT !.ver = 2]
      [] OTHER -> d

\* Outside a transaction a statement is committed at once.
Exec(d) == conn' = d /\ disk' = IF inTxn THEN disk ELSE d

----------------------------------------------------------------------------
\* A bug: the main process leaves its table to the migrations.
LaunchBare ==
    /\ page = "quit"
    /\ conn' = disk
    /\ disk' = conn'
    /\ page' = "adopt"
    /\ todo' = AdoptPlan(conn')
    /\ UNCHANGED inTxn

\* main/index.ts: open the file, prepareKnownHosts makes its table, the window loads.
Launch ==
    /\ page = "quit"
    /\ conn' = Create(disk, {"known_hosts"})
    /\ disk' = conn'
    /\ page' = "adopt"
    /\ todo' = AdoptPlan(conn')
    /\ UNCHANGED inTxn

\* The page goes, in the middle of anything, and another loads: View > Reload, a renderer
\* that crashed, a macOS window closed and opened again.  Nobody rolls back.
Reload ==
    /\ page # "quit"
    /\ page' = "adopt"
    /\ todo' = AdoptPlan(conn)
    /\ UNCHANGED <<disk, conn, inTxn>>

\* The main process ends, by quitting or by crashing: an open transaction is undone.
Quit ==
    /\ page # "quit"
    /\ page' = "quit"
    /\ todo' = <<>>
    /\ conn' = disk
    /\ inTxn' = FALSE
    /\ UNCHANGED disk

\* One statement of the page runs in the main process.
Statement ==
    /\ todo # <<>>
    /\ ~Refused(Head(todo))
    /\ todo' = Tail(todo)
    /\ Exec(Effect(Head(todo), conn))
    /\ UNCHANGED <<page, inTxn>>
    /\ Head(todo) \notin {"begin", "commit"}

BeginTxn ==
    /\ todo # <<>> /\ Head(todo) = "begin" /\ ~inTxn
    /\ todo' = Tail(todo)
    /\ inTxn' = TRUE
    /\ UNCHANGED <<disk, conn, page>>

CommitTxn ==
    /\ todo # <<>> /\ Head(todo) = "commit" /\ inTxn
    /\ todo' = Tail(todo)
    /\ inTxn' = FALSE
    /\ disk' = conn
    /\ UNCHANGED <<conn, page>>

\* Every DELETE on meta is in a try of its own.
SkipMeta ==
    /\ todo # <<>> /\ Head(todo) = "clearMeta"
    /\ todo' = Tail(todo)
    /\ UNCHANGED <<disk, conn, inTxn, page>>

\* A statement fails: refused by SQLite, or broken by the disk.  Inside the try of
\* runMigrations, after BEGIN, it is rolled back; the page shows that it could not boot.
StatementFails(why) ==
    /\ todo # <<>> /\ Head(todo) # "clearMeta"
    /\ why = "refused" <=> Refused(Head(todo))
    /\ page' = why
    /\ todo' = <<>>
    /\ IF page = "migrate" /\ Head(todo) # "begin"
       THEN conn' = disk /\ inTxn' = FALSE
       ELSE UNCHANGED <<conn, inTxn>>
    /\ UNCHANGED disk

\* adopt returns and runMigrations reads the version.
AdoptDone ==
    /\ page = "adopt" /\ todo = <<>>
    /\ page' = "migrate"
    /\ todo' = MigrationPlan(conn)
    /\ UNCHANGED <<disk, conn, inTxn>>

\* Store.open returns: the app runs.
MigrateDone ==
    /\ page = "migrate" /\ todo = <<>>
    /\ page' = "ready"
    /\ UNCHANGED <<disk, conn, inTxn, todo>>

SchemaNext ==
    \/ Launch \/ Reload \/ Quit
    \/ Statement \/ BeginTxn \/ CommitTxn \/ SkipMeta \/ AdoptDone \/ MigrateDone
    \/ \E why \in {"refused", "broken"} : StatementFails(why)

SchemaSpec == SchemaInit /\ [][SchemaNext]_dbVars

----------------------------------------------------------------------------
\* When Store.open returns, the store's statements find their tables and columns,
\* whichever database it started from and wherever earlier pages died.
SchemaWhenReady ==
    page = "ready" => conn.ver = 2 /\ conn.tables = Table /\ conn.cols = Upgraded

\* Store.open is refused only by a transaction that an earlier page left open: a
\* half-done upgrade is always continued, never tripped over.
OnlyOpenTxnRefuses == page = "refused" => inTxn

\* An app that runs inside a transaction a dead page left open is upgraded by that very
\* transaction: the file still has the old version, and the next launch upgrades it again.
OpenTxnCarriesUpgrade == page = "ready" /\ inTxn => disk.ver < 2 /\ conn.ver = 2

\* No step loses a secret that is stored in the clear: only the vault's table is dropped.
SecretsKept == [][disk.secrets = "plain" => disk'.secrets = "plain"]_dbVars
=============================================================================
