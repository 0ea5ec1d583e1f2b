--------------------------- MODULE SftpTransfers ---------------------------
(* The transfers of ssh-core (crates/ssh-core/src/sftp.rs) as packages/core sees
   them: a call registers an entry, spawns a worker and returns the id; the worker
   copies the file and reports once, whatever became of it; the entry outlives the
   report by a moment.  The bytes are copied in DownloadFile.tla, not here.      *)
EXTENDS Integers, Sequences, FiniteSets

CONSTANT MaxTransfer   \* bound: transfers ever started on the bridge

ASSUME TransferBounds == MaxTransfer \in Nat \ {0}

Transfer == 1 .. MaxTransfer
None == 0

VARIABLES
    nextTransfer,  \* id the transfer registry issues next
    entries,       \* transfers in the registry
    working,       \* transfers whose worker has not reported
    tokens,        \* transfers whose cancellation token has fired
    reports        \* TransferDone events on their way, oldest first

sftpVars == <<nextTransfer, entries, working, tokens, reports>>

Outcome == {"ok", "cancelled", "failed"}
TransferDone(b, o) == [id |-> b, outcome |-> o]

SftpInit ==
    /\ nextTransfer = 1
    /\ entries = {} /\ working = {} /\ tokens = {}
    /\ reports = <<>>

SftpTypeOK ==
    /\ nextTransfer \in 1 .. MaxTransfer + 1
    /\ entries \subseteq Transfer /\ working \subseteq entries /\ tokens \subseteq Transfer
    /\ reports \in Seq([id : Transfer, outcome : Outcome])

\* sftp_upload or sftp_download: the call itself looks at neither the session nor
\* the files.  What becomes of `reports` in the step is its caller's to say.
StartTransfer(b) ==
    /\ b = nextTransfer /\ b <= MaxTransfer
    /\ nextTransfer' = nextTransfer + 1
    /\ entries' = entries \cup {b}
    /\ working' = working \cup {b}
    /\ UNCHANGED tokens

\* The worker has copied everything, has failed, or has seen its token between
\* two chunks: a token that fires after the last look is not seen.
WorkerReports(b, o) ==
    /\ b \in working
    /\ o = "cancelled" => b \in tokens
    /\ working' = working \ {b}
    /\ reports' = Append(reports, TransferDone(b, o))
    /\ UNCHANGED <<nextTransfer, entries, tokens>>

EntryRemoved(b) ==
    /\ b \in entries \ working
    /\ entries' = entries \ {b}
    /\ UNCHANGED <<nextTransfer, working, tokens, reports>>

\* cancel_transfer: NoSuchTransfer, which changes nothing, unless the entry is there.
CancelTransfer(b) ==
    /\ tokens' = IF b \in entries THEN tokens \cup {b} ELSE tokens
    /\ UNCHANGED <<nextTransfer, entries, working, reports>>

=============================================================================
