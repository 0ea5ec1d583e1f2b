----------------------------- MODULE KnownHosts -----------------------------
(* The trusted host keys: the file that ssh-core reads and rewrites (hostkey.rs), the
   table known_hosts of the local database, the boot that imports and renders
   (knownHosts.ts), the handler that trusts (handlers.ts), and the connect flow's
   prompt and one retry (connectFlow.tsx).

   A name stands for host, port and algorithm.  Neither writer of the file leaves two
   lines for a name, so a file is a function; the order of its lines is left out,
   except that trust writes its own line last.                                  *)
EXTENDS Naturals

CONSTANTS
    Name,  \* host, port and algorithm
    Key,   \* fingerprints
    NoKey, \* nothing is known
    Call   \* slots for connect attempts that stopped at the host key

ASSUME NoKeyIsNone == NoKey \notin Key

VARIABLES
    file,    \* known_hosts, the file
    legacy,  \* termif_known_hosts, the file of earlier versions
    table,   \* known_hosts, the table
    main,    \* the main process: where its boot is
    call,    \* connect attempts, from the prompt to the retry
    acked,   \* history: the key of the last trust that was acknowledged
    strayed  \* history: names whose line may differ from the table's until the next boot

vars == <<file, legacy, table, main, call, acked, strayed>>

Lines == [Name -> Key \cup {NoKey}]
NoLines == [n \in Name |-> NoKey]
Names(lines) == {n \in Name : lines[n] # NoKey}

Booting(at, from, todo) == [at |-> at, from |-> from, todo |-> todo]
Running == [at |-> "running"]
MainType ==
    {Running} \cup
    [at : {"migrate", "render", "writing"}, from : {"file", "legacy"}, todo : {{}}] \cup
    [at : {"import"}, from : {"file", "legacy"}, todo : (SUBSET Name) \ {{}}]

NoCall == [at |-> "none"]
CallType ==
    {NoCall} \cup
    [at : {"prompted", "calling", "written", "retrying"}, name : Name, key : Key] \cup
    [at : {"rewriting"}, name : Name, key : Key, kept : Lines, todo : SUBSET Name]

Init ==
    /\ file \in Lines /\ legacy \in Lines /\ table \in Lines
    /\ main = Booting("migrate", "file", {})
    /\ call = [k \in Call |-> NoCall]
    /\ acked = NoLines
    /\ strayed = {}

----------------------------------------------------------------------------
Source(from) == IF from = "file" THEN file ELSE legacy

\* A bug: the import does not look whether the table has rows.
MigrateAlways ==
    /\ main.at = "migrate"
    /\ LET lines == Names(Source(main.from))
       IN  main' = IF lines # {} THEN Booting("import", main.from, lines)
                   ELSE IF main.from = "file" THEN Booting("render", "file", {})
                   ELSE Running
    /\ strayed' = IF main'.at = "running" THEN {} ELSE strayed
    /\ UNCHANGED <<file, legacy, table, call, acked>>

\* migrateKnownHostsFromFile up to its loop: nothing to import if the table has rows or
\* the file has no lines.  Of the legacy file that is the end of the boot.
Migrate ==
    /\ main.at = "migrate"
    /\ LET lines == Names(Source(main.from))
       IN  main' = IF Names(table) = {} /\ lines # {} THEN Booting("import", main.from, lines)
                   ELSE IF main.from = "file" THEN Booting("render", "file", {})
                   ELSE Running
    /\ strayed' = IF main'.at = "running" THEN {} ELSE strayed
    /\ UNCHANGED <<file, legacy, table, call, acked>>

\* One line is imported, in a statement of its own.
ImportLine(n) ==
    /\ main.at = "import" /\ n \in main.todo
    /\ table' = [table EXCEPT ![n] = Source(main.from)[n]]
    /\ main' = IF main.todo = {n} THEN Booting("render", main.from, {})
               ELSE Booting("import", main.from, main.todo \ {n})
    /\ UNCHANGED <<file, legacy, call, acked, strayed>>

\* renderKnownHostsFile has the rows and opens the file, which truncates it.
RenderBegins ==
    /\ main.at = "render"
    /\ file' = NoLines
    /\ main' = Booting("writing", main.from, {})
    /\ UNCHANGED <<legacy, table, call, acked, strayed>>

\* The file is the table; with no rows at all the legacy file is tried, then init.
Rendered ==
    /\ main.at = "writing"
    /\ file' = table
    /\ main' = IF main.from = "file" /\ Names(table) = {}
               THEN Booting("migrate", "legacy", {}) ELSE Running
    /\ strayed' = IF main'.at = "running" THEN {} ELSE strayed
    /\ UNCHANGED <<legacy, table, call, acked>>

\* The main process dies, or its boot throws and the user starts it again.
Crash ==
    /\ main' = Booting("migrate", "file", {})
    /\ call' = [k \in Call |-> NoCall]
    /\ UNCHANGED <<file, legacy, table, acked, strayed>>

\* "The file is disposable": somebody deletes it.
FileDeleted ==
    /\ \A k \in Call : call[k].at # "rewriting"
    /\ main.at \in {"migrate", "running"}
    /\ file' = NoLines
    /\ strayed' = Name
    /\ UNCHANGED <<legacy, table, main, call, acked>>

----------------------------------------------------------------------------
\* verify, which takes no lock: it reads what is in the file at the moment.
Verdict(n, key) ==
    IF file[n] = key THEN "ok" ELSE IF file[n] = NoKey THEN "unknown" ELSE "mismatch"

\* A server shows a key for a name that is unknown: the user is asked.
Prompted(k, n, key) ==
    /\ main.at = "running"
    /\ call[k].at = "none"
    /\ \A l \in Call : call[l].at # "prompted"
    /\ Verdict(n, key) = "unknown"
    /\ call' = [call EXCEPT ![k] = [at |-> "prompted", name |-> n, key |-> key]]
    /\ UNCHANGED <<file, legacy, table, main, acked, strayed>>

\* The user refuses, or the prompt gives way to another.
Dismissed(k) ==
    /\ call[k].at = "prompted"
    /\ call' = [call EXCEPT ![k] = NoCall]
    /\ UNCHANGED <<file, legacy, table, main, acked, strayed>>

Trusting(k) == call[k].at \in {"calling", "rewriting", "written", "retrying"}

\* trustAndRetry calls trustHostKey, maybe while another key of the name is on its way.
TrustCalled(k) ==
    LET n == call[k].name
        contested == \E l \in Call \ {k} :
            Trusting(l) /\ call[l].name = n /\ call[l].key # call[k].key
    IN  /\ call[k].at = "prompted"
        /\ call' = [call EXCEPT ![k] = [@ EXCEPT !.at = "calling"]]
        /\ strayed' = IF contested THEN strayed \cup {n} ELSE strayed
        /\ UNCHANGED <<file, legacy, table, main, acked>>

\* A bug: the file is read and rewritten without the lock.
RewriteBeginsUnlocked(k) ==
    LET n == call[k].name
        key == call[k].key
    IN  /\ call[k].at = "calling"
        /\ file' = NoLines
        /\ call' = [call EXCEPT ![k] =
               [at |-> "rewriting", name |-> n, key |-> key,
                kept |-> [file EXCEPT ![n] = key], todo |-> Names(file) \cup {n}]]
        /\ UNCHANGED <<legacy, table, main, acked, strayed>>

\* trust under its lock: the lines are read, then the file is truncated.
RewriteBegins(k) ==
    LET n == call[k].name
        key == call[k].key
    IN  /\ call[k].at = "calling"
        /\ \A l \in Call : call[l].at # "rewriting"
        /\ file' = NoLines
        /\ call' = [call EXCEPT ![k] =
               [at |-> "rewriting", name |-> n, key |-> key,
                kept |-> [file EXCEPT ![n] = key], todo |-> Names(file) \cup {n}]]
        /\ UNCHANGED <<legacy, table, main, acked, strayed>>

\* One line is written, the new one last; with it the file is synced and unlocked.
LineWritten(k, m) ==
    LET c == call[k]
    IN  /\ c.at = "rewriting" /\ m \in c.todo
        /\ m = c.name => c.todo = {m}
        /\ file' = [file EXCEPT ![m] = c.kept[m]]
        /\ call' = [call EXCEPT ![k] =
               IF m = c.name THEN [at |-> "written", name |-> c.name, key |-> c.key]
               ELSE [c EXCEPT !.todo = c.todo \ {m}]]
        /\ UNCHANGED <<legacy, table, main, acked, strayed>>

\* trust or the insert fails: before the file is touched, with the file cut short, or
\* with the line written and no row.
TrustFails(k) ==
    /\ \/ call[k].at = "calling" /\ UNCHANGED strayed
       \/ call[k].at = "rewriting" /\ strayed' = Name
       \/ call[k].at = "written" /\ strayed' = strayed \cup {call[k].name}
    /\ call' = [call EXCEPT ![k] = NoCall]
    /\ UNCHANGED <<file, legacy, table, main, acked>>

\* A bug: the row is inserted only if the name has none.
InsertedOnce(k) ==
    LET n == call[k].name
    IN  /\ call[k].at = "written"
        /\ table' = IF table[n] = NoKey THEN [table EXCEPT ![n] = call[k].key] ELSE table
        /\ acked' = [acked EXCEPT ![n] = call[k].key]
        /\ call' = [call EXCEPT ![k] = [@ EXCEPT !.at = "retrying"]]
        /\ UNCHANGED <<file, legacy, main, strayed>>

\* The row is inserted and the trust acknowledged.
Inserted(k) ==
    LET n == call[k].name
    IN  /\ call[k].at = "written"
        /\ table' = [table EXCEPT ![n] = call[k].key]
        /\ acked' = [acked EXCEPT ![n] = call[k].key]
        /\ call' = [call EXCEPT ![k] = [@ EXCEPT !.at = "retrying"]]
        /\ UNCHANGED <<file, legacy, main, strayed>>

\* "Exactly one retry": the key is verified once more, and that is the end of it.
Retried(k) ==
    /\ call[k].at = "retrying"
    /\ call' = [call EXCEPT ![k] = NoCall]
    /\ UNCHANGED <<file, legacy, table, main, acked, strayed>>

----------------------------------------------------------------------------
Boot ==
    \/ Migrate \/ RenderBegins \/ Rendered
    \/ \E n \in Name : ImportLine(n)

Trust(k) ==
    \/ \E n \in Name, key \in Key : Prompted(k, n, key)
    \/ Dismissed(k) \/ TrustCalled(k) \/ RewriteBegins(k)
    \/ \E m \in Name : LineWritten(k, m)
    \/ TrustFails(k) \/ Inserted(k) \/ Retried(k)

Next ==
    \/ Boot
    \/ \E k \in Call : Trust(k)
    \/ Crash
    \/ FileDeleted

Spec == Init /\ [][Next]_vars

----------------------------------------------------------------------------
\* Files, table, boot and calls hold values of their types.
TypeOK ==
    /\ file \in Lines /\ legacy \in Lines /\ table \in Lines /\ acked \in Lines
    /\ main \in MainType
    /\ call \in [Call -> CallType]
    /\ strayed \subseteq Name

Rewriting == \E k \in Call : call[k].at = "rewriting"

\* Trusts run only in a booted app, and only one of them rewrites the file.
CallsWhileRunning == main.at # "running" => \A k \in Call : call[k].at = "none"
OneRewriter ==
    \A k, l \in Call : call[k].at = "rewriting" /\ call[l].at = "rewriting" => k = l

\* A rewrite has its own line still to write, and what it has not to write is written.
RewriteInv ==
    \A k \in Call : call[k].at = "rewriting" =>
        /\ call[k].name \in call[k].todo
        /\ call[k].kept[call[k].name] = call[k].key
        /\ \A m \in Name \ call[k].todo : file[m] = call[k].kept[m]

\* The line of a name, once the rewrite in progress is through.
LineIs(m, key) ==
    IF Rewriting THEN \A k \in Call : call[k].at = "rewriting" => call[k].kept[m] = key
    ELSE file[m] = key

\* Of a name that has not strayed all trusts are for one key, and a line once written
\* stays that key.
OneKey ==
    \A n \in Name \ strayed :
        /\ \A k, l \in Call :
               Trusting(k) /\ Trusting(l) /\ call[k].name = n /\ call[l].name = n =>
                   call[k].key = call[l].key
        /\ \A k \in Call, key \in Key :
               /\ call[k].at \in {"written", "retrying"}
               /\ call[k].name = n /\ call[k].key = key
               => LineIs(n, key)

CacheInv ==
    main.at = "running" =>
        \A n \in Name \ strayed :
            \/ LineIs(n, table[n])
            \/ \E k \in Call : call[k].at \in {"rewriting", "written"} /\ call[k].name = n

\* An import runs on a table that held nothing, and the legacy file is tried on nothing.
BootInv ==
    /\ main.at = "import" => acked = NoLines
    /\ main.at = "migrate" /\ main.from = "legacy" => table = NoLines /\ file = NoLines

\* "DB is source of truth; file is derived cache" (renderKnownHostsFile): while nobody
\* rewrites the file and no row is about to be inserted, each line is the table's, but
\* for names two keys were trusted for at once and for writes that failed.  A boot
\* repairs all of these, wherever the last run was cut off.
FileIsCache ==
    main.at = "running" /\ ~Rewriting =>
        \A n \in Name \ strayed :
            \/ file[n] = table[n]
            \/ \E k \in Call : call[k].at = "written" /\ call[k].name = n

\* A trust that was acknowledged is never lost or replaced by an older key: no crash,
\* import or rendering takes it out of the table.
TrustKept == \A n \in Name : acked[n] # NoKey => table[n] = acked[n]

\* The one retry after a trust finds its key, whatever other trusts rewrite the file in
\* between: none of them drops the line of another.
RetryAccepted ==
    \A k \in Call :
        /\ call[k].at = "retrying" /\ call[k].name \notin strayed
        /\ ~Rewriting
        => Verdict(call[k].name, call[k].key) = "ok"

=============================================================================
