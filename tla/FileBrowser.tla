---------------------------- MODULE FileBrowser ----------------------------
(* The file browser of one session (SftpBrowser.tsx): two panes, each pointed at the
   remote or the local side, over one store per side (sftpStore.ts, localStore.ts).
   Listings, mutations and the enqueueing of transfers are calls that run and are
   answered in any order: sftp.rs opens a channel for each, handlers.ts reads the local
   disk with a promise for each.

   A directory is "home", which is where a store starts, "sub" below it, or "root".
   Whether an entry is a directory, sizes and the order of the rows are left out.  Of a
   transfer (TransferManager, SftpTransfers) what counts here is that at some time after
   it was enqueued its file is in the directory it was enqueued for, if it does not fail
   before; the .part file that a download has beside it until then is left out.     *)
EXTENDS Naturals, Sequences, FiniteSets

CONSTANTS
    Name,     \* names of entries
    Call,     \* slots for calls under way
    MaxCalls  \* bound on the calls that the user ever makes

VARIABLES
    disk,       \* what is in the directories, of each side
    moving,     \* the files that transfers are still to write
    late,       \* history: what transfers wrote into a directory since it was listed
    store,      \* the stores' state
    calls,      \* calls under way
    source,     \* the side that each pane is pointed at
    confirming, \* the name whose removal each pane asks to confirm, {} for none
    made,       \* how many calls the user made
    crossed     \* history: sides where a call began while another was under way

fbVars == <<disk, moving, late, store, calls, source, confirming, made, crossed>>

Side == {"local", "remote"}
Dir == {"home", "sub", "root"}
Pane == {1, 2}
File == [side : Side, dir : Dir, name : Name]
Other(side) == IF side = "local" THEN "remote" ELSE "local"
\* parentPath, parentLocal: of the '.' that the remote store starts with, and of '/', it
\* is '/'.
Parent(dir) == IF dir = "sub" THEN "home" ELSE "root"

NoCall == [kind |-> "none"]
Ask(kind, side, dir, name) ==
    [kind |-> kind, side |-> side, dir |-> dir, name |-> name, out |-> "waiting", entries |-> {}]

\* The browser mounts and both stores ask for their first listing. What is there to begin
\* with is in "home".
BrowserInit ==
    /\ disk = [side \in Side |-> [dir \in Dir |-> IF dir = "home" THEN Name ELSE {}]]
    /\ moving = {}
    /\ late = [side \in Side |-> [dir \in Dir |-> {}]]
    /\ \E k, l \in Call :
        /\ k # l
        /\ calls = [c \in Call |-> CASE c = k -> Ask("list", "remote", "home", {})
                                     [] c = l -> Ask("list", "local", "home", {})
                                     [] OTHER -> NoCall]
    /\ store = [side \in Side |-> [dir |-> "home", entries |-> {}, loading |-> TRUE, error |-> FALSE]]
    /\ source = <<"local", "remote">>
    /\ confirming = [p \in Pane |-> {}]
    /\ made = 0
    /\ crossed = {}

----------------------------------------------------------------------------
Under(side) == {k \in Call : calls[k].kind \notin {"none", "enqueue"} /\ calls[k].side = side}
Crossing(side) == IF Under(side) = {} THEN crossed \ {side} ELSE crossed \cup {side}

\* The user makes a call, in slot k.
Make(k, call) ==
    /\ calls[k] = NoCall /\ made < MaxCalls
    /\ made' = made + 1
    /\ calls' = [calls EXCEPT ![k] = call]

\* listInto, up to its call.
List(k, side, dir) ==
    /\ Make(k, Ask("list", side, dir, {}))
    /\ store' = [store EXCEPT ![side].loading = TRUE]
    /\ crossed' = Crossing(side)
    /\ UNCHANGED <<disk, moving, late, source, confirming>>

\* open: a double click on a directory, or a path typed into the pane's field.
OpenDir(p, k, dir) == dir # store[source[p]].dir /\ List(k, source[p], dir)

Up(p, k) == List(k, source[p], Parent(store[source[p]].dir))

Refresh(p, k) == List(k, source[p], store[source[p]].dir)

\* The source picker of a pane; what it asks to confirm stays.
Point(p) ==
    /\ source' = [source EXCEPT ![p] = Other(@)]
    /\ UNCHANGED <<disk, moving, late, store, calls, confirming, made, crossed>>

\* mkdir and remove put the path together at the click, and mutate calls.
Mutate(k, kind, name) ==
    /\ Make(k, Ask(kind, "remote", store["remote"].dir, name))
    /\ crossed' = Crossing("remote")
    /\ UNCHANGED <<disk, moving, late, store, source>>

\* Only a pane on the remote side has the buttons that change something.
Mkdir(p, k, name) ==
    /\ source[p] = "remote"
    /\ Mutate(k, "mkdir", {name})
    /\ UNCHANGED confirming

Asking(p) == source[p] = "remote" /\ confirming[p] \cap store["remote"].entries # {}

\* "Delete" on a row asks first, and "keep" takes the question back.
AskRemove(p, name) ==
    /\ source[p] = "remote" /\ name \in store["remote"].entries
    /\ confirming' = [confirming EXCEPT ![p] = {name}]
    /\ UNCHANGED <<disk, moving, late, store, calls, source, made, crossed>>

Keep(p) ==
    /\ Asking(p)
    /\ confirming' = [confirming EXCEPT ![p] = {}]
    /\ UNCHANGED <<disk, moving, late, store, calls, source, made, crossed>>

\* The answer, on the row of that name in whatever directory the pane now shows.
RemoveEntry(p, k) ==
    /\ Asking(p)
    /\ Mutate(k, "remove", confirming[p])
    /\ confirming' = [confirming EXCEPT ![p] = {}]

----------------------------------------------------------------------------
\* copy, for the button on a row or for a drop on a pane, and the uploads and downloads
\* through the file dialogs: a transfer is enqueued for a file.  to is the side that is
\* listed afterwards, "none" after a dialog.
Enqueue(k, to, target) ==
    /\ Make(k, [Ask("enqueue", to, "home", {}) EXCEPT !.out = "ok"])
    /\ moving' = moving \cup {target}
    /\ UNCHANGED <<disk, late, store, source, confirming, crossed>>

\* copy: into the directory that the other side shows.
Copy(k, to, name) == Enqueue(k, to, [side |-> to, dir |-> store[to].dir, name |-> name])

CanCopy == source[1] # source[2]

Send(p, k) == CanCopy /\ \E name \in store[source[p]].entries : Copy(k, Other(source[p]), name)

\* A drag carries the row's name and not its side, so a drop copies from the side that
\* the pane is not pointed at, wherever the row came from.
Drop(p, k) == CanCopy /\ \E side \in Side : \E name \in store[side].entries : Copy(k, source[p], name)

\* The user picks what to upload, into the directory shown when the dialog was opened, or
\* where to save a row.
Dialog(p, k) ==
    /\ source[p] = "remote"
    /\ \E target \in File :
        /\ target.side = "local" => store["remote"].entries # {}
        /\ Enqueue(k, "none", target)

\* A transfer writes its file.
Lands(target) ==
    /\ target \in moving
    /\ moving' = moving \ {target}
    /\ disk' = [disk EXCEPT ![target.side][target.dir] = @ \cup {target.name}]
    /\ late' = [late EXCEPT ![target.side][target.dir] =
                   @ \cup ({target.name} \ disk[target.side][target.dir])]
    /\ UNCHANGED <<store, calls, source, confirming, made, crossed>>

----------------------------------------------------------------------------
\* The other side of the bridge runs a call: a listing has what is there at that moment;
\* a directory that exists is not made again, and what is gone not removed.
Runs(k, fails) ==
    LET call == calls[k]
        there == disk[call.side][call.dir]
    IN  /\ call.kind # "none" /\ call.out = "waiting"
        /\ call.kind = "mkdir" /\ call.name \subseteq there => fails
        /\ call.kind = "remove" /\ call.name \cap there = {} => fails
        /\ calls' = [calls EXCEPT ![k].out = IF fails THEN "failed" ELSE "ok",
                                  ![k].entries = IF call.kind = "list" THEN there ELSE {}]
        /\ disk' = IF fails \/ call.kind = "list" THEN disk
                   ELSE [disk EXCEPT ![call.side][call.dir] =
                            IF call.kind = "mkdir" THEN there \cup call.name ELSE there \ call.name]
        /\ late' = IF fails \/ call.kind # "list" THEN late
                   ELSE [late EXCEPT ![call.side][call.dir] = {}]
        /\ UNCHANGED <<moving, store, source, confirming, made, crossed>>

\* A listing answers: its path and entries are shown together, whatever was asked for
\* since; a failed one leaves what was shown.
Listed(k) ==
    LET call == calls[k]
    IN  /\ call.kind = "list" /\ call.out # "waiting"
        /\ store' = [store EXCEPT ![call.side] =
               IF call.out = "ok" THEN [dir |-> call.dir, entries |-> call.entries, loading |-> FALSE, error |-> FALSE]
               ELSE [@ EXCEPT !.loading = FALSE, !.error = TRUE]]
        /\ calls' = [calls EXCEPT ![k] = NoCall]
        /\ UNCHANGED <<disk, moving, late, source, confirming, made, crossed>>

\* A bug: nothing is listed after a mutation.
MutatedQuietly(k) ==
    /\ calls[k].kind \in {"mkdir", "remove"} /\ calls[k].out = "ok"
    /\ store' = [store EXCEPT !["remote"].error = FALSE]
    /\ calls' = [calls EXCEPT ![k] = NoCall]
    /\ UNCHANGED <<disk, moving, late, source, confirming, made, crossed>>

\* mutate went well, and lists what the pane shows by now.
Mutated(k) ==
    /\ calls[k].kind \in {"mkdir", "remove"} /\ calls[k].out = "ok"
    /\ store' = [store EXCEPT !["remote"].error = FALSE, !["remote"].loading = TRUE]
    /\ calls' = [calls EXCEPT ![k] = Ask("list", "remote", store["remote"].dir, {})]
    /\ UNCHANGED <<disk, moving, late, source, confirming, made, crossed>>

MutationFailed(k) ==
    /\ calls[k].kind \in {"mkdir", "remove"} /\ calls[k].out = "failed"
    /\ store' = [store EXCEPT !["remote"].error = TRUE]
    /\ calls' = [calls EXCEPT ![k] = NoCall]
    /\ UNCHANGED <<disk, moving, late, source, confirming, made, crossed>>

\* copy's transfer is enqueued: the other store is refreshed, long before the file is there.
Enqueued(k) ==
    LET side == calls[k].side
    IN  /\ calls[k].kind = "enqueue"
        /\ IF side = "none" THEN calls' = [calls EXCEPT ![k] = NoCall] /\ UNCHANGED <<store, crossed>>
           ELSE /\ calls' = [calls EXCEPT ![k] = Ask("list", side, store[side].dir, {})]
                /\ store' = [store EXCEPT ![side].loading = TRUE]
                /\ crossed' = Crossing(side)
        /\ UNCHANGED <<disk, moving, late, source, confirming, made>>

BrowserNext ==
    \/ \E p \in Pane :
        \/ Point(p) \/ Keep(p)
        \/ \E name \in Name : AskRemove(p, name)
        \/ \E k \in Call :
            \/ Up(p, k) \/ Refresh(p, k) \/ RemoveEntry(p, k)
            \/ Send(p, k) \/ Drop(p, k) \/ Dialog(p, k)
            \/ \E dir \in Dir : OpenDir(p, k, dir)
            \/ \E name \in Name : Mkdir(p, k, name)
    \/ \E k \in Call :
        \/ Listed(k) \/ Mutated(k) \/ MutationFailed(k) \/ Enqueued(k)
        \/ \E fails \in BOOLEAN : Runs(k, fails)
    \/ \E target \in File : Lands(target)

BrowserSpec == BrowserInit /\ [][BrowserNext]_fbVars

----------------------------------------------------------------------------
\* Once nothing is under way on a side, its panes show what is in the directory they
\* name, but for the files that transfers wrote there after it was listed, or an error,
\* and stop saying that they load: unless calls on that side overlapped, when an older
\* listing may have answered last.  A copy refreshes when its transfer is enqueued, so
\* its own file is, as a rule, one of those that are not shown.
SettledListing ==
    \A side \in Side : Under(side) = {} =>
        /\ ~store[side].loading
        /\ \/ side \in crossed \/ store[side].error
           \/ LET dir == store[side].dir
              IN  store[side].entries = disk[side][dir] \ late[side][dir]
=============================================================================
