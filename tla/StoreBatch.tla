----------------------------- MODULE StoreBatch -----------------------------
(* The renderer's transaction (platform.ts): while its function runs, exec does not call
   the main process but adds to a batch, and the batch goes over in one call (db.ts runs
   it as a SQLite transaction).  The batch is one variable for every caller: an exec of
   somebody else joins it, and a second transaction joins the first.

   The callers are applyRemote (store.ts), with two rows each, any of which may be one
   that its schema refuses, and upserts of one row.  While a batch is open its
   functions run in promise callbacks only, so no reply of the main process is taken.
   A row of a pull that joined a batch since closed goes over by itself, and may fail. *)
EXTENDS Naturals, Sequences, SequencesExt, FiniteSets

CONSTANTS
    Pull,   \* calls of applyRemote
    Upsert  \* calls of upsertHost, upsertCredential or upsertSnippet

VARIABLES
    batch,   \* <<>> or <<statements>>: the statements held back, if a batch is open
    pull,    \* the calls of applyRemote
    upsert,  \* the calls of upsert
    stored,  \* the rows that are in the database
    rides    \* history: <<row, p>> where the row was added to the batch that p had opened

sbVars == <<batch, pull, upsert, stored, rides>>

Rows == 1..2
RowsOf(c) == {<<c, i>> : i \in Rows}

BatchInit ==
    /\ batch = <<>>
    /\ \E bad \in [Pull -> 0..2] :
        pull = [p \in Pull |-> [at |-> "idle", next |-> 1, bad |-> bad[p], own |-> FALSE, sent |-> <<>>]]
    /\ upsert = [u \in Upsert |-> "idle"]
    /\ stored = {} /\ rides = {}

----------------------------------------------------------------------------
Open == batch # <<>>

\* The pull whose function the open batch was opened for.
Owner == {p \in Pull : pull[p].own /\ pull[p].at = "writing"}

\* exec: add to the open batch, or call the main process.
ExecRow(row) ==
    IF Open THEN /\ batch' = <<Append(batch[1], row)>>
                 /\ rides' = rides \cup ({row} \X Owner)
                 /\ UNCHANGED stored
    ELSE stored' = stored \cup {row} /\ UNCHANGED <<batch, rides>>

\* transaction: open a batch, or join the open one.
Begin(p) ==
    /\ pull[p].at = "idle"
    /\ pull' = [pull EXCEPT ![p].at = "writing", ![p].own = ~Open]
    /\ batch' = IF Open THEN batch ELSE << <<>> >>
    /\ UNCHANGED <<upsert, stored, rides>>

\* The next row passes its schema and is written.
WriteRow(p) ==
    /\ pull[p].at = "writing"
    /\ pull[p].next \in Rows \ {pull[p].bad}
    /\ ExecRow(<<p, pull[p].next>>)
    /\ pull' = [pull EXCEPT ![p].next = @ + 1]
    /\ UNCHANGED upsert

\* The main process refuses a row that goes over by itself: the joined pull throws.
WriteFails(p) ==
    /\ ~Open
    /\ pull[p].at = "writing" /\ pull[p].next \in Rows \ {pull[p].bad}
    /\ pull' = [pull EXCEPT ![p].at = "threw"]
    /\ UNCHANGED <<batch, upsert, stored, rides>>

\* A bug: a row that its schema refuses leaves the batch open.
ParseFailsKeepingBatch(p) ==
    /\ pull[p].at = "writing" /\ pull[p].next = pull[p].bad
    /\ pull' = [pull EXCEPT ![p].at = "threw"]
    /\ UNCHANGED <<batch, upsert, stored, rides>>

\* The next row is refused: the owner's catch drops the batch, a joined one just throws.
ParseFails(p) ==
    /\ pull[p].at = "writing" /\ pull[p].next = pull[p].bad
    /\ pull' = [pull EXCEPT ![p].at = "threw"]
    /\ batch' = IF pull[p].own THEN <<>> ELSE batch
    /\ UNCHANGED <<upsert, stored, rides>>

\* A bug: only the owner's own statements go over.
SendOwn(p) ==
    /\ pull[p].at = "writing" /\ pull[p].next > 2 /\ pull[p].own
    /\ pull' = [pull EXCEPT ![p].at = "sent", ![p].sent = SelectSeq(batch[1], LAMBDA row : row[1] = p)]
    /\ batch' = <<>>
    /\ UNCHANGED <<upsert, stored, rides>>

\* The owner's function is done: the batch is closed and goes to the main process.
Send(p) ==
    /\ pull[p].at = "writing" /\ pull[p].next > 2 /\ pull[p].own
    /\ pull' = [pull EXCEPT ![p].at = "sent", ![p].sent = batch[1]]
    /\ batch' = <<>>
    /\ UNCHANGED <<upsert, stored, rides>>

\* A joined function is done: it returns at once, whatever becomes of the batch.
ReturnJoined(p) ==
    /\ pull[p].at = "writing" /\ pull[p].next > 2 /\ ~pull[p].own
    /\ pull' = [pull EXCEPT ![p].at = "returned"]
    /\ UNCHANGED <<batch, upsert, stored, rides>>

\* The main process ran the whole batch, and the reply is taken.
Committed(p) ==
    /\ ~Open /\ pull[p].at = "sent"
    /\ stored' = stored \cup ToSet(pull[p].sent)
    /\ pull' = [pull EXCEPT ![p].at = "returned"]
    /\ UNCHANGED <<batch, upsert, rides>>

\* A bug: the statements run one by one, outside a transaction.
RolledBackPartly(p) ==
    /\ ~Open /\ pull[p].at = "sent"
    /\ pull' = [pull EXCEPT ![p].at = "threw"]
    /\ stored' = stored \cup {Head(pull[p].sent)}
    /\ batch' = <<>>
    /\ UNCHANGED <<upsert, rides>>

\* It ran none of it: the catch closes whatever batch is open and throws.
RolledBack(p) ==
    /\ ~Open /\ pull[p].at = "sent"
    /\ pull' = [pull EXCEPT ![p].at = "threw"]
    /\ batch' = <<>>
    /\ UNCHANGED <<upsert, stored, rides>>

\* An upsert: one exec, and it is acknowledged.
UpsertRow(u) ==
    /\ upsert[u] = "idle"
    /\ ExecRow(<<u, 1>>)
    /\ upsert' = [upsert EXCEPT ![u] = "returned"]
    /\ UNCHANGED pull

\* The exec of an upsert fails in the main process.
UpsertFails(u) ==
    /\ ~Open /\ upsert[u] = "idle"
    /\ upsert' = [upsert EXCEPT ![u] = "threw"]
    /\ UNCHANGED <<batch, pull, stored, rides>>

BatchNext ==
    \/ \E p \in Pull :
        \/ Begin(p) \/ WriteRow(p) \/ WriteFails(p) \/ ParseFails(p) \/ Send(p) \/ ReturnJoined(p)
        \/ Committed(p) \/ RolledBack(p)
    \/ \E u \in Upsert : UpsertRow(u) \/ UpsertFails(u)

BatchSpec == BatchInit /\ [][BatchNext]_sbVars

----------------------------------------------------------------------------
\* A batch is open only while the function that opened it runs, and there is one such
\* function: no failure leaves a batch that would swallow every later write.
BatchHasOwner ==
    Open <=> \E p \in Pull : pull[p].own /\ pull[p].at = "writing"

\* applyRemote that opened its batch stores all of its rows or none of them.
AllOrNothing ==
    \A p \in Pull : pull[p].own => RowsOf(p) \subseteq stored \/ RowsOf(p) \cap stored = {}

\* The rows of c that exec has acknowledged.
Written(c) ==
    IF c \in Pull THEN {<<c, i>> : i \in 1..(pull[c].next - 1)}
    ELSE IF upsert[c] = "returned" THEN {<<c, 1>>} ELSE {}

\* p still has the row, held back or on its way, or p has thrown.
Carries(p, row) ==
    \/ p \in Owner /\ Open /\ row \in ToSet(batch[1])
    \/ pull[p].at = "sent" /\ row \in ToSet(pull[p].sent)
    \/ pull[p].at = "threw"

\* Every row that exec has acknowledged is stored, or the very pull whose batch it was
\* added to still has it or has thrown: a row is lost only with its batch, and the
\* caller of that batch is told (transaction and exec of platform.ts).  The caller of a
\* row that joined somebody else's batch is not.
AckedOrOwnerTold ==
    \A c \in Pull \cup Upsert : \A row \in Written(c) :
        row \in stored \/ \E p \in Pull : <<row, p>> \in rides /\ Carries(p, row)
=============================================================================
