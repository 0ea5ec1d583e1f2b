----------------------------- MODULE MCStorage -----------------------------
(* What is stored on the user's machine, for TLC: the known hosts, the schema and its
   upgrade, the write batch, the host editor, the files of transfers, the snippet palette
   and the preferences.  They share no state that a model has, so each behaviour takes
   place in one part, and the others stay in one initial state.                     *)
EXTENDS KnownHosts, Migrations, StoreBatch, HostEditor, DownloadFile, Snippets, Prefs, TLC

VARIABLE part  \* the part that runs

Parts == {"keys", "schema", "batch", "editor", "files", "palette", "prefs"}

MCInit ==
    /\ part \in Parts
    /\ Init
    /\ part # "keys" => <<file, legacy, table>> = <<NoLines, NoLines, NoLines>>
    /\ SchemaInit
    /\ part # "schema" => disk = Database(0, {}, {}, "none")
    /\ BatchInit
    /\ part # "batch" => \A p \in Pull : pull[p].bad = 0
    /\ EditorInit
    /\ DownloadInit
    /\ part # "files" => real = [p \in Path |-> {}]
    /\ PaletteInit
    /\ part # "palette" => rows = {}
    /\ PrefsInit
    /\ part # "prefs" => saved.kind = "absent"

\* A step of one part leaves the others alone.
keyVars == <<part, vars>>
Keys == part = "keys" /\ UNCHANGED <<part, dbVars, sbVars, heVars, dlVars, snVars, pfVars>>
InSchema == part = "schema" /\ UNCHANGED <<keyVars, sbVars, heVars, dlVars, snVars, pfVars>>
InBatch == part = "batch" /\ UNCHANGED <<keyVars, dbVars, heVars, dlVars, snVars, pfVars>>
InEditor == part = "editor" /\ UNCHANGED <<keyVars, dbVars, sbVars, dlVars, snVars, pfVars>>
InFiles == part = "files" /\ UNCHANGED <<keyVars, dbVars, sbVars, heVars, snVars, pfVars>>
InPalette == part = "palette" /\ UNCHANGED <<keyVars, dbVars, sbVars, heVars, dlVars, pfVars>>
InPrefs == part = "prefs" /\ UNCHANGED <<keyVars, dbVars, sbVars, heVars, dlVars, snVars>>

MCNext ==
    \/ Keys /\ Migrate
    \/ Keys /\ RenderBegins
    \/ Keys /\ Rendered
    \/ Keys /\ Crash
    \/ Keys /\ FileDeleted
    \/ \E n \in Name : Keys /\ ImportLine(n)
    \/ \E k \in Call :
        \/ \E n \in Name, key \in Key : Keys /\ Prompted(k, n, key)
        \/ Keys /\ Dismissed(k)
        \/ Keys /\ TrustCalled(k)
        \/ Keys /\ RewriteBegins(k)
        \/ \E m \in Name : Keys /\ LineWritten(k, m)
        \/ Keys /\ TrustFails(k)
        \/ Keys /\ Inserted(k)
        \/ Keys /\ Retried(k)
    \/ InSchema /\ Launch
    \/ InSchema /\ Reload
    \/ InSchema /\ Quit
    \/ InSchema /\ Statement
    \/ InSchema /\ BeginTxn
    \/ InSchema /\ CommitTxn
    \/ InSchema /\ SkipMeta
    \/ InSchema /\ AdoptDone
    \/ InSchema /\ MigrateDone
    \/ \E why \in {"refused", "broken"} : InSchema /\ StatementFails(why)
    \/ \E p \in Pull :
        \/ InBatch /\ Begin(p)
        \/ InBatch /\ WriteRow(p)
        \/ InBatch /\ WriteFails(p)
        \/ InBatch /\ ParseFails(p)
        \/ InBatch /\ Send(p)
        \/ InBatch /\ ReturnJoined(p)
        \/ InBatch /\ Committed(p)
        \/ InBatch /\ RolledBack(p)
    \/ \E u \in Upsert : InBatch /\ (UpsertRow(u) \/ UpsertFails(u))
    \/ \E k \in Op :
        \/ InEditor /\ SaveCredential(k)
        \/ InEditor /\ SaveHost(k)
        \/ InEditor /\ Fails(k)
        \/ InEditor /\ RemoveReads(k)
        \/ InEditor /\ RemoveHost(k)
        \/ InEditor /\ RemoveCredential(k)
        \/ InEditor /\ Submit(k)
        \/ InEditor /\ Autosave(k)
        \/ \E h \in Host : InEditor /\ RemoveBegins(k, h)
    \/ InEditor /\ Relisted
    \/ InEditor /\ ListingFails
    \/ InEditor /\ CancelForm
    \/ InEditor /\ TypeInForm
    \/ InEditor /\ ToggleInspector
    \/ InEditor /\ TypeInInspector
    \/ \E host \in {{}} \cup {{h} : h \in Host} : InEditor /\ EditHost(host)
    \/ InFiles /\ PowerFails
    \/ \E t \in Transfer :
        \/ InFiles /\ CopyChunk(t)
        \/ InFiles /\ Sync(t)
        \/ InFiles /\ CopyStops(t)
        \/ InFiles /\ Rename(t)
        \/ InFiles /\ RenameFails(t)
        \/ InFiles /\ RemovePart(t)
        \/ InFiles /\ DownloadReports(t)
        \/ InFiles /\ SendChunk(t)
        \/ InFiles /\ UploadEnds(t)
        \/ InFiles /\ UploadStops(t)
        \/ InFiles /\ CancelToken(t)
        \/ \E p \in Path : InFiles /\ CreatePart(t, p)
        \/ \E p \in Path : InFiles /\ OpenLocal(t, p)
    \/ InPalette /\ OpenPalette
    \/ InPalette /\ ClosePalette
    \/ InPalette /\ Toggle
    \/ InPalette /\ ArrowDown
    \/ InPalette /\ ArrowUp
    \/ InPalette /\ Enter
    \/ InPalette /\ Answered
    \/ \E q \in SUBSET Snippet : InPalette /\ SetQuery(q)
    \/ \E s \in Snippet :
        \/ InPalette /\ Click(s)
        \/ InPalette /\ DeleteSnippet(s)
        \/ InPalette /\ SaveNew(s)
    \/ \E w \in Width : InPrefs /\ Resize(w)
    \/ InPrefs /\ Flip
    \/ InPrefs /\ TimerFires
    \/ InPrefs /\ Flush
    \/ InPrefs /\ FlushReturns
    \/ \E fails \in BOOLEAN : InPrefs /\ Ended(fails)

MCSpec == MCInit /\ [][MCNext]_<<keyVars, dbVars, sbVars, heVars, dlVars, snVars, pfVars>>

Alike == Permutations(Key) \cup Permutations(Call)
=============================================================================
