--------------------------- MODULE DownloadFile ---------------------------
(* The files that transfers read and write on this machine (sftp.rs).  A download writes
   to <path>.part, syncs it and renames it to <path>; an upload reads the file it opened.
   A name stands for at most one file; what has a file open keeps it when the name is
   removed or comes to stand for another.

   A download is modelled from the creation of its .part file on: what can fail before
   then touches no file.  All remote files have Chunks chunks; a chunk is named by the
   transfer that fetched it.  Hole is what a file has where nobody wrote.  Removing a
   .part file always succeeds.  The files are Path, the ones that were there before, and
   Transfer, the .part file each download creates if there is none.                  *)
EXTENDS Naturals, Sequences

CONSTANTS
    Path,      \* local paths, none of which is the .part of another
    Transfer,  \* calls of sftp_upload and sftp_download
    Chunks     \* chunks of a file

VARIABLES
    real,     \* for each path, the set of the file it stands for
    temp,     \* the same for its .part
    bytes,    \* the contents of the files
    durable,  \* files that are on disk as they are read
    job,      \* the transfers
    fired,    \* transfers whose cancellation token has fired
    mixed,    \* history: paths to which two downloads were under way together
    left      \* history: paths whose .part is left from before the last power failure

dlVars == <<real, temp, bytes, durable, job, fired, mixed, left>>

File == Path \cup Transfer
Hole == <<"hole">>
First(x, n) == [i \in 1..n |-> <<x, i>>]
Whole(x) == First(x, Chunks)

DownloadInit ==
    /\ real \in [Path -> {{}} \cup {{p} : p \in Path}] /\ \A p \in Path : real[p] \subseteq {p}
    /\ temp = [p \in Path |-> {}]
    /\ bytes = [f \in File |-> IF f \in Path THEN Whole(f) ELSE <<>>]
    /\ durable = Path
    /\ job = [t \in Transfer |-> [at |-> "idle", path |-> {}, file |-> {}, copy |-> <<>>]]
    /\ fired = {} /\ mixed = {} /\ left = {}

----------------------------------------------------------------------------
\* The downloads that hold or are about to remove the .part of p.
Downloading(p) == {t \in Transfer : job[t].path = {p} /\ job[t].at \in {"copying", "synced", "removing"}}

\* File::create: empty the .part file that is there, or make one.
CreatePart(t, p) ==
    LET f == IF temp[p] = {} THEN {t} ELSE temp[p]
    IN  /\ job[t].at = "idle"
        /\ job' = [job EXCEPT ![t].at = "copying", ![t].path = {p}, ![t].file = f]
        /\ temp' = [temp EXCEPT ![p] = f]
        /\ bytes' = [g \in File |-> IF g \in f THEN <<>> ELSE bytes[g]]
        /\ durable' = durable \ f
        /\ mixed' = IF Downloading(p) = {} THEN mixed ELSE mixed \cup {p}
        /\ left' = left \ {p}
        /\ UNCHANGED <<real, fired>>

\* One chunk more, at the place this handle has come to, whatever the file has there.
At(seq, i, chunk) ==
    [j \in 1..(IF i <= Len(seq) THEN Len(seq) ELSE i) |->
        IF j = i THEN chunk ELSE IF j <= Len(seq) THEN seq[j] ELSE Hole]

CopyChunk(t) ==
    LET chunk == <<t, Len(job[t].copy) + 1>>
    IN  /\ job[t].at = "copying" /\ t \notin fired /\ Len(job[t].copy) < Chunks
        /\ bytes' = [f \in File |->
                        IF f \in job[t].file THEN At(bytes[f], chunk[2], chunk) ELSE bytes[f]]
        /\ durable' = durable \ job[t].file
        /\ job' = [job EXCEPT ![t].copy = Append(@, chunk)]
        /\ UNCHANGED <<real, temp, fired, mixed, left>>

\* A bug: the chunks may still be in memory when the file gets its name.
FlushOnly(t) ==
    /\ job[t].at = "copying" /\ t \notin fired /\ Len(job[t].copy) = Chunks
    /\ job' = [job EXCEPT ![t].at = "synced"]
    /\ UNCHANGED <<real, temp, bytes, durable, fired, mixed, left>>

\* The end of the remote file: flush, sync_all, and the handle is dropped.
Sync(t) ==
    /\ job[t].at = "copying" /\ t \notin fired /\ Len(job[t].copy) = Chunks
    /\ durable' = durable \cup job[t].file
    /\ job' = [job EXCEPT ![t].at = "synced"]
    /\ UNCHANGED <<real, temp, bytes, fired, mixed, left>>

\* The token is seen between two chunks, or reading, writing or syncing fails.
CopyStops(t) ==
    /\ job[t].at = "copying"
    /\ job' = [job EXCEPT ![t].at = "removing"]
    /\ UNCHANGED <<real, temp, bytes, durable, fired, mixed, left>>

\* A bug: the .part is copied over the file that is there.
CopyOver(t) ==
    \E p \in job[t].path :
        /\ job[t].at = "synced" /\ temp[p] # {}
        /\ real' = IF real[p] = {} THEN [real EXCEPT ![p] = temp[p]] ELSE real
        /\ bytes' = [f \in File |-> IF f \in real[p] THEN Whole(t) ELSE bytes[f]]
        /\ temp' = [temp EXCEPT ![p] = {}]
        /\ job' = [job EXCEPT ![t].at = "renamed", ![t].file = {}]
        /\ UNCHANGED <<durable, fired, mixed, left>>

\* rename: the path stands for what its .part stood for.
Rename(t) ==
    \E p \in job[t].path :
        /\ job[t].at = "synced" /\ temp[p] # {}
        /\ real' = [real EXCEPT ![p] = temp[p]]
        /\ temp' = [temp EXCEPT ![p] = {}]
        /\ job' = [job EXCEPT ![t].at = "renamed", ![t].file = {}]
        /\ UNCHANGED <<bytes, durable, fired, mixed, left>>

\* A bug: a failed rename is only reported.
RenameFailsOnly(t) ==
    /\ job[t].at = "synced"
    /\ job' = [job EXCEPT ![t].at = "failed", ![t].file = {}]
    /\ UNCHANGED <<real, temp, bytes, durable, fired, mixed, left>>

\* There is no .part any more, or the rename fails.
RenameFails(t) ==
    /\ job[t].at = "synced"
    /\ job' = [job EXCEPT ![t].at = "removing"]
    /\ UNCHANGED <<real, temp, bytes, durable, fired, mixed, left>>

\* remove_file, whose failure is ignored: the .part may be gone.
RemovePart(t) ==
    \E p \in job[t].path :
        /\ job[t].at = "removing"
        /\ temp' = [temp EXCEPT ![p] = {}]
        /\ job' = [job EXCEPT ![t].at = "failed", ![t].file = {}]
        /\ UNCHANGED <<real, bytes, durable, fired, mixed, left>>

\* The sftp session is closed and the report pushed.
DownloadReports(t) ==
    /\ job[t].at = "renamed"
    /\ job' = [job EXCEPT ![t].at = "done"]
    /\ UNCHANGED <<real, temp, bytes, durable, fired, mixed, left>>

----------------------------------------------------------------------------
\* upload_inner opens the local file.
OpenLocal(t, p) ==
    /\ job[t].at = "idle" /\ real[p] # {}
    /\ job' = [job EXCEPT ![t].at = "reading", ![t].path = {p}, ![t].file = real[p]]
    /\ UNCHANGED <<real, temp, bytes, durable, fired, mixed, left>>

\* The next chunk of the file it opened goes over.
SendChunk(t) ==
    \E f \in job[t].file :
        /\ job[t].at = "reading" /\ t \notin fired /\ Len(job[t].copy) < Len(bytes[f])
        /\ job' = [job EXCEPT ![t].copy = Append(@, bytes[f][Len(@) + 1])]
        /\ UNCHANGED <<real, temp, bytes, durable, fired, mixed, left>>

\* The end of the file: the remote one is synced and the report pushed.
UploadEnds(t) ==
    \E f \in job[t].file :
        /\ job[t].at = "reading" /\ t \notin fired /\ Len(job[t].copy) >= Len(bytes[f])
        /\ job' = [job EXCEPT ![t].at = "sent", ![t].file = {}]
        /\ UNCHANGED <<real, temp, bytes, durable, fired, mixed, left>>

\* The token is seen, or reading or writing fails: what was sent stays there.
UploadStops(t) ==
    /\ job[t].at = "reading"
    /\ job' = [job EXCEPT ![t].at = "failed", ![t].file = {}]
    /\ UNCHANGED <<real, temp, bytes, durable, fired, mixed, left>>

----------------------------------------------------------------------------
\* cancel_transfer: the registry has the transfer until its worker ends.
CancelToken(t) ==
    /\ job[t].at \notin {"done", "sent", "failed", "gone"}
    /\ fired' = fired \cup {t}
    /\ UNCHANGED <<real, temp, bytes, durable, job, mixed, left>>

\* The power fails: no transfer goes on, and of a file that was not synced some first part
\* is left.
PowerFails ==
    /\ \E kept \in [File \ durable -> 0..Chunks] :
        bytes' = [f \in File |->
                    IF f \in durable \/ Len(bytes[f]) <= kept[f] THEN bytes[f]
                    ELSE SubSeq(bytes[f], 1, kept[f])]
    /\ durable' = File
    /\ job' = [t \in Transfer |->
                [job[t] EXCEPT !.at = IF @ \in {"idle", "done", "sent", "failed"} THEN @ ELSE "gone",
                               !.file = {}]]
    /\ left' = {p \in Path : temp[p] # {}}
    /\ UNCHANGED <<real, temp, fired, mixed>>

DownloadNext ==
    \/ PowerFails
    \/ \E t \in Transfer :
        \/ CopyChunk(t) \/ Sync(t) \/ CopyStops(t) \/ Rename(t) \/ RenameFails(t)
        \/ RemovePart(t) \/ DownloadReports(t)
        \/ SendChunk(t) \/ UploadEnds(t) \/ UploadStops(t) \/ CancelToken(t)
        \/ \E p \in Path : CreatePart(t, p) \/ OpenLocal(t, p)

DownloadSpec == DownloadInit /\ [][DownloadNext]_dlVars

----------------------------------------------------------------------------
\* A path stands for the file that was there, or for all of one that was renamed.
WholeAt(p) ==
    \A f \in real[p] :
        \/ f = p /\ bytes[f] = Whole(p)
        \/ \E t \in Transfer :
            job[t].path = {p} /\ job[t].at \in {"renamed", "done", "gone"} /\ bytes[f] = Whole(t)

\* "A cancelled or failed download never leaves a truncated file at the real path"
\* (sftp.rs 290-291), nor does a power failure, unless two downloads went to the path
\* together.
PublishedWhole == \A p \in Path \ mixed : WholeAt(p)

\* The same whether or not two downloads went to one path together.
NeverTruncated == \A p \in Path : WholeAt(p)

\* An upload that ends well has sent one whole file, though downloads may have replaced
\* the file at its path meanwhile.
SentWhole ==
    \A t \in Transfer, p \in Path \ mixed :
        job[t].at = "sent" /\ job[t].path = {p} =>
            \E x \in File : job[t].copy = Whole(x)

\* No .part stays behind when every download to the path has ended, whatever became of
\* them (sftp.rs 331-332; tests/sftp_transfer.rs 263-266), unless the power failed.
NoStrayPart ==
    \A p \in Path : temp[p] # {} => p \in left \/ Downloading(p) # {}
=============================================================================
