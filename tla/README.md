# Termif in TLA+

Termif is a cross-platform SSH client: a Rust core (`crates/ssh-core`) that owns
connections, shells, transfers and forwards; a TypeScript core (`packages/core`)
that owns sessions, tabs, queues and the local store; and an Electron shell
(`apps/desktop`).  This directory holds TLA+ modules of its parts, the TLC
configurations that check them and the TLAPS proofs of what matters most.

## 1. The system

| Part | Source | State | Operations | What is hard |
|---|---|---|---|---|
| Session manager | `packages/core/src/sessions.ts` | sessions (stable id, live handle, closing flag), tabs (channel, size), handle and channel indexes, session states | connect, disconnect, openTab, resizeTab, closeTab, start, stop, event handling, `#reconnect` | every method awaits the bridge; any number of `#reconnect` runs are suspended at once |
| Transfer manager | `packages/core/src/transfers.ts` | records, index by bridge id | enqueue, cancel, handleEvent, `#pump` | `#pump` awaits inside a loop over live records and is started from four places |
| Forward manager | `packages/core/src/forwards.ts` | records, index by bridge id | open, close, handleEvent, rebuildForSession | two awaits per open; rebuild runs against close |
| ssh-core sessions | `crates/ssh-core/src/session.rs` | session registry, id cell of each handler, remote-forward table | connect, disconnect, disconnected, forwarded channels | the handler runs in its own task |
| ssh-core channels | `channel.rs` | channel registry, one pump task each | open_shell, write, resize, close_channel | the pump reports and unregisters by itself |
| Event queue | `events.rs` | queue and notify permit | push, drain | one consumer with a timeout, many producers |
| Registry | `registry.rs` | next id, entries | insert, get, remove | ids are never reused |
| SFTP | `sftp.rs` | transfer registry, `.part` files | list, stat, mkdir, rename, remove, upload, download, cancel | the worker races cancel and other downloads |
| Forwards | `forward.rs` | forward registry, listeners | local, remote, socks, close | accept loops race close |
| Known hosts | `hostkey.rs`, `main/knownHosts.ts`, `main/handlers.ts` | a file and a table that must agree | verify, trust, import, render | no lock between verify and trust; crash between file and table |
| Store and migrations | `store.ts`, `main/db.ts` | SQLite file, user_version | adopt, runMigrations, Store.open, CRUD, applyRemote | a page that dies between two statements leaves its transaction to the next page |
| Platform adapter | `renderer/platform.ts` | the write batch | exec, query, transaction, calls, nextEvents | one batch for every caller |
| Host editing | `hostStore.ts`, `HostList`, `HostForm`, `Inspector`, `MainLayout` | the list, the form, the inspector's draft | save, remove, reload, autosave | four awaits per save, nothing waits for the last one |
| Snippets | `snippetStore.ts`, `SnippetPalette`, `TerminalTabs` | one store per opening of the palette, the highlight | open, send, save, remove | a list that shrinks under the highlight |
| Preferences | `prefs.ts`, `SidebarResizer` | the value, a timer, the write under way | load, set, flush | a timer, a flush and a slow write overlap |
| Tabs and panels | `MainLayout`, `TerminalTabs`, `TerminalPane`, `tabStore`, `SftpBrowser`, `ForwardPanel` | the bar, what is mounted, each panel's session | open, close, select, toggle, mount | a view hears of an event only while it is mounted |
| File browser | `sftpStore.ts`, `localStore.ts`, `SftpBrowser` | a listing per side, a side per pane | list, open, make, remove, copy, drag | answers of overlapping calls in any order |
| Connect flow | `connectFlow.tsx`, `errors.ts`, `error.rs` | attempts, the prompt, the message | connect, openTab, trust and retry | several attempts, one prompt; an error is recognised by its text |
| IPC and N-API binding | `ffi-napi/src/lib.rs`, `main/native.ts`, `main/handlers.ts` | none of their own | events and handles across two processes | 64-bit numbers that a double does not hold |

Calls go down (renderer, IPC, N-API, `ssh-core`), and everything the core has to
say comes up through one event queue, which one loop in `SessionManager` drains
and hands to the transfer and forward managers first, then to itself.

What makes each part correct: a session must stay recoverable (its close can be
noticed, its rebuild ends), a tab's output must reach that tab, a transfer must
hold its slot only while it runs, a forward shown must exist, a trust must survive
a restart, a migration must be all or nothing, and what a pane shows must be the
latest thing asked for.  The hazards that put these at risk are listed with their
lines in `PROJECT.json`.

## 2. The modules

| Module | Models | Extends |
|---|---|---|
| `SshBridge` | the bridge as `packages/core` sees it: registries, network, event queue | |
| `SessionManager` | `sessions.ts` over `SshBridge` | `SshBridge` |
| `SshCore` | the tasks of `session.rs`, `channel.rs` and `events.rs` step by step, shown to implement `SshBridge` | |
| `SshCoreProofs` | its invariants and the refinement, proved | `SshCore`, TLAPS |
| `SessionManagerProofs` | its invariants, proved | `SessionManager`, TLAPS |
| `SftpTransfers` | transfers of `sftp.rs` as the manager sees them | |
| `TransferManager` | `transfers.ts` over `SftpTransfers` | `SftpTransfers` |
| `TransferManagerProofs` | its invariants, proved | `TransferManager`, TLAPS |
| `SshForwards` | forwards and routing of `forward.rs`, `session.rs` as the manager sees them | |
| `ForwardManager` | `forwards.ts` over `SshForwards` | `SshForwards` |
| `ForwardManagerProofs` | its invariants, proved | `ForwardManager`, TLAPS |
| `KnownHosts` | the trusted keys: file, table, boot, trust and the connect flow's retry | |
| `Migrations` | the schema and its upgrade, statement by statement, over one connection that outlives the page | |
| `StoreBatch` | the write batch of `platform.ts` that concurrent callers share | |
| `DatabaseProofs` | the invariants of these three, proved | `KnownHosts`, `Migrations`, `StoreBatch`, TLAPS |
| `DownloadFile` | the local files that downloads and uploads write and read, power failures included | |
| `DownloadFileProofs` | its invariants, proved | `DownloadFile`, TLAPS |
| `HostEditor` | hosts with their credentials: form, inspector, save, remove, listings | |
| `HostEditorProofs` | its invariants, proved | `HostEditor`, TLAPS |
| `Snippets` | the snippet palette over its rows | |
| `Prefs` | preferences: boot, changes, debounced writes | |
| `Workbench` | bar, terminals, panels and the form that replaces them | |
| `FileBrowser` | two panes over two stores, with calls answered in any order | |
| `Ipc` | events and handles between page, main process and native module | |
| `ConnectFlow` | attempts, prompt and message, and the text of an error on its way | |
| `RendererProofs` | the invariants of these six, proved | `Snippets`, `Prefs`, `Workbench`, `FileBrowser`, `Ipc`, `ConnectFlow`, TLAPS |
| `MCStorage` | one instance of what is kept on the machine: a behaviour takes place in one `part`, which `MCInit` picks, since the parts share no variable | `KnownHosts`, `Migrations`, `StoreBatch`, `HostEditor`, `DownloadFile`, `Snippets`, `Prefs` |
| `MCRenderer` | the same for what the window does | `Workbench`, `FileBrowser`, `Ipc`, `ConnectFlow` |
| `MCSessionManager`, `MCTransferManager` | instances for TLC | the module of that name |

### SshBridge

One action is the effect of one bridge call, or of one thing the network or a
remote shell does by itself.  `registered` is the session registry (a dropped
connection stays in it until `disconnect`), `up` the connections whose transport
works, `shells` the channel entries, `pumps` the pump tasks that still read,
`events` the queue.  A failed call changes nothing.  `SshConnect`, `SshDisconnect`,
`SshOpenShell`, `SshResize` and `SshCloseChannel` are the functions of the same
name in `session.rs` and `channel.rs`; `NetworkDrop` is `disconnected`, `PumpEnds` the
end of a pump.  `fresh` are the connections whose id the handler does not have yet
(`Publish` gives it) and `leaving` those that a `disconnect` has taken out and not yet
reported (`DisconnectReported`).  `SilentDrop` is a drop whose close nobody hears of: only a
connection that is fresh, or no longer registered, may drop so.  `BridgeSpec` lets all of
this happen in any order, with callers that may ask for anything.  The steps that
`SessionManager` takes in it are the same actions, and it is what `SshCore` implements: a
core that did not report a published connection's drop would fail `ImplementsBridge`.

### SshCore

The same bridge at the grain of its tasks: `connect` registers the session and publishes
its id to the handler in two steps; `disconnected` reads the id in one and reports in
another; `disconnect` takes the session out, clears the id, tells the server under the
handle's lock and reports; `open_shell` holds that lock while the server answers; a pump
reports and unregisters by itself; `push` queues and then notifies, `drain` looks at the
queue, waits on the permit of the notify or times out, and takes what is there.  The
mapping to `SshBridge` is by state (`registered`, `fresh`, `leaving`, `up`, `shells`, `pumps`,
`events`): a step that only moves a task along is a stutter.  A connection is `up` there
until its handler has reported, so a handler that has read the id and then loses the race
with `disconnect` is a `NetworkDrop` that comes late; `SingleEmission` is violated by it.

### SessionManager

JavaScript runs one continuation at a time, so a step is the code from one `await`
to the next.  The call takes its effect in the bridge when it is made; its id
waits in `call` (UI calls) or `task` (`#reconnect` runs) until the continuation
runs, and the queue may deliver events of the new object in between.  The tables
carry the names of the source: `sessions`, `handleOf` (handleId), `closing`
(closingDeliberately), `sessionState`, `handleToSession`, `tabs`, `tabSession`,
`tabChannel`, `tabSize`, `tabByChannel`.  A `#reconnect` run is identified by the handle
whose close started it (`OneRebuildPerHandle` shows there is one at most) and goes
through `sleep` (the backoff), `connect` and `open` (one `openShell` after another).
A call of a run may also never settle (`Hangs`): only the TCP connect has a timeout, the
handshake, the authentication and `openShell` have none.  `loop` is the drain loop with the
batch it may still deliver after `stop`, and `Start` a start after that, when the old loop
may still be there.  The application never calls `stop`, only tests do, so it is a constant
(`Stops`).  `MaxOpen` bounds the connections the user makes, so that ids are left for rebuilds.

Left out: subscribers and bytes, log lines, the choice of credential.  Delays are
counted, not timed.

### TransferManager

A pump suspended in its bridge call is a slot of `pump` with the record it asked
for, the slots it had counted, and the reply.  `Enqueue`, `CancelQueued` and `HandleDone`
start one in the same step, as the code does.  `early` is a history variable: the
reports that overtook the reply carrying their id, which `handleEvent` drops.  `Rejects` says
whether bridge calls may be rejected: `#pump` handles it, but `sftp_upload` and
`sftp_download` fail only before `init`.

### SshForwards and ForwardManager

`SshForwards` has one action per call that starts or closes a forward, and what happens
by itself: a connection on a listening socket (`Accept`), the end of an accept loop, the
end of a session.  Local and SOCKS forwards differ in what they do with a connection, so
both are `local`.  `served` is what the servers listen on: `close_forward` leaves it as it
is.  `Targets` is `remote_forward_target`, with every answer its map may give.

`ForwardManager` keeps `#records` (`records`, with the objects in `row`, since a rebuild
holds the object of a row that may be gone) and `#byBridgeId` (`index`).  `call` are opens
and closes in flight, `rebuild` the runs of `rebuildForSession`, which go from record to
record through two awaits each: `starting` and `asking` for the bound port.  The
application does not call `rebuildForSession` yet, its tests do.

### KnownHosts

A name stands for host, port and algorithm; `file`, `legacy` and `table` map names to
fingerprints.  `main` is where the boot is (`migrate`, `import` with the lines still to
insert, `render`, `writing`, then the same for the legacy file, `running`).  A connect attempt
that stops at an unknown key is a slot of `call`: `prompted`, `calling`, `rewriting` (the
lines it kept and those still to write), `written`, `retrying`.  The main process may die in
any state, trust and insert may fail at any point, and the file may be deleted.  `acked` and
`strayed` are history variables; `strayed` are the names whose line may differ from the table's
until the next boot: two keys were trusted for the name at once, or a write failed.

The order of the lines is left out, except that trust writes its own last; both readers take
the first line of a name and both writers leave one.  Statements that were executed survive
a crash of the process; what a power failure does to the disk is left out.

### Migrations

`conn` is the database as the main process's one connection sees it and `disk` what is
committed; they differ only inside a transaction (`inTxn`).  `page` is where the page's
`Store.open` is (`adopt`, `migrate`, `ready`, `failed`) and `todo` the statements it has still
to send, one IPC call each.  `AdoptPlan` and `MigrationPlan` are the branches of `adopt` and
the pending versions of `runMigrations`; `Reload` and the end of a page leave
`conn` and `inTxn` as they are, `Quit` takes them away.  `Shipped` are the databases earlier
versions of the program left.  A database keeps its version, its tables, the columns that
tell the eras apart and what its secrets are; indexes, other columns and rows are left out.

### StoreBatch

`batch` is `platform.ts`'s variable of that name.  `pull` are calls of `applyRemote` with two
rows, any of which its schema may refuse; the first opens the batch (`own`), a second that
comes meanwhile joins it.  `upsert` are writes of one row that know nothing of the batch and
join it all the same.  `sent` is the batch as it was handed to the main process; `rides`, a
history variable, says to whose batch a row was added.  A statement may fail with its batch
(`RolledBack`) or by itself (`WriteFails`, `UpsertFails`).

### HostEditor

An operation `op` is a run of `hostStore.save` (credential, then host) or `remove` (read, host,
credential) with one step per await; `replies` are the listings each asks for afterwards.  The
form and the inspector are modelled with what they keep when the list changes under them: the
inspector shows the first host of the list and resets its draft, not its secret, when another
comes first.  A secret is the host it was typed for.  A listing may be rejected
(`ListingFails`): the list then stays as it is, and `unlisted` notes it.  A credential that was
removed is a tombstone (`dead`), which in the code keeps its secret.

### DownloadFile

`real` and `temp` say which file a path and its `.part` stand for, `bytes` what is in the files,
`job` where each transfer is.  Names and files are kept apart because `rename` and `remove_file`
work on names and a handle on a file: a second download empties and then shares the `.part`
file of the first, and an upload goes on reading the file it opened after a rename has put another in
its place.  A power failure ends every transfer and leaves some first part of a file that was not
synced; renames survive it.  `mixed` are the paths two downloads went to together: of
those `PublishedWhole` says nothing, and `DownloadFileTogether.cfg` shows why.

### Snippets and Prefs

Each opening of the palette has a store of its own, so `mine` tells the calls of this opening
from those of an earlier one.  `highlight` is an index in what the query lets through.
`aimless` is a history variable: an arrow down on an empty list leaves row -1.

`Prefs` has the value, the debounce `timer`, the `writes` under way in the order they were
sent, and `pending`, which `flush` awaits and clears.  Time is left out: the timer may fire
whenever it runs.

### Workbench

`sess` and `mtab` are the session manager's sessions and tabs as far as its listeners can
tell; `tabs`, `active` and `screen` the bar, and `ui` what takes the main area.  An event changes a
component only while it is mounted; `missed` notes an event the bar was not there for.

### FileBrowser

`store` is a listing per side (`sftpStore.ts`, `localStore.ts`), `source` the side each pane is
pointed at, `calls` the requests under way: they take effect on `disk` and are answered in
steps of their own, in any order.  `crossed` notes the sides on which two overlapped.  A copy,
an upload or a download adds a file to `moving`, which `Lands` writes into its directory at some
later time; `late` notes what landed since the directory was listed.  The `.part` file beside
it is left out.

### Ipc

An event is pushed by `ssh-core`, flattened by the binding, serialised by the main process and
deserialised by the page; each conversion is an operator over the fields of the event, digits
and all.  A double is a number below `Precision`, which the model itself needs nowhere: it is
there for the mutant that lets a number cross as one.  Calls carry a handle down and bring an id
back the same way.

### ConnectFlow

A text is the sequence of its parts, of which `parseFfiError` tells the word in small letters
at the end, whether that is the whole part, and a fingerprint.  `Display`, `Crossed` and `Parsed`
are the Rust text, what Electron makes of it and the parser; the attempts call them for every error
that comes from the other side.  The page's own errors (`OwnError`: no credential, an empty one)
stay what they are.

## 3. What is checked

| Run | Shows | Bounds |
|---|---|---|
| `sessions` | routing, recoverability, state to show, one rebuild per close | 3 connections (the first, its rebuild, and a second rebuild or a second session), 2 channels, 1 tab, 2 delays, 1 event queued |
| `sessions_live` | a reconnecting session settles unless a call of its run never does | 2 connections, 2 channels, 2 tabs, `stop` and `start` at any time |
| `sessions_disconnect` | violated: a disconnected session gets a new handle | 2 connections |
| `transfers` | no idle slot, running means live | 3 transfers, 3 records, 2 pumps at a time, 1 slot |
| `transfers_limit` | violated: more workers than the limit | 2 transfers, 2 records |
| `ssh_core` | a drain does not sleep on an event, every event is delivered, a disconnect ends, each step is a step of `SshBridge` | 1 connection, 1 channel, 2 openShell callers, 3 events, 2 sizes |
| `ssh_core_emission` | violated: an application's close is reported once more as a drop | 1 connection, 1 channel |
| `forwards` | rows are indexed, nothing is orphaned, remote forwards are routed, connections shown | 2 forwards, 2 rows, 2 calls, 1 rebuild, 2 sessions, 2 ports, 1 event queued |
| `storage` | what is kept on the machine: the table below | per part, below |
| `renderer` | what the window shows and sends: the table below | per part, below |
| `host_editor_secret` | violated: a secret typed for one host is saved for another | 2 hosts, 2 credentials, 2 operations at a time of 3 |
| `errors_code` | violated: every error but a refused key becomes `unknown` | 2 hosts, 2 fingerprints, 2 attempts |

Types are checked in `sessions`, `ssh_core` and `forwards`; those of the other
modules are proved without a run, as parts of their inductive invariants.

| Part of | Properties | Bounds |
|---|---|---|
| `storage`: known hosts | `TrustKept`, `FileIsCache`, `RetryAccepted`: acknowledged trusts are kept, the file follows the table, the retry is accepted | 2 names, 2 keys, 3 connect attempts, any number of crashes, every content of files and table to start from |
| `storage`: schema | `SchemaWhenReady`, `OnlyOpenTxnRefuses`, `OpenTxnCarriesUpgrade`, `SecretsKept`: wherever pages die, a page that opens finds its schema, only a transaction left open can refuse it, that transaction loses nothing done, and no secret in the clear is lost | every database an earlier version left, any number of reloads, quits and failed statements |
| `storage`: batch | `BatchHasOwner`, `AllOrNothing`, `AckedOrOwnerTold`: a failure leaves no open batch, a pull is all or nothing, a row that is lost was in the batch of a pull that has thrown | 2 pulls of 2 rows, 1 upsert |
| `storage`: hosts | `RefsSound`, `ViewSettles`: references name a credential that was written and is nobody else's, the list settles on the table unless its last listing was rejected | 2 hosts, 2 credentials, 2 operations at a time of 3, 2 listings |
| `storage`: files | `PublishedWhole`, `SentWhole`, `NoStrayPart`: a path stands for a whole file whatever is cancelled, fails or loses power; an upload sends one whole file; no `.part` stays behind | 1 path, 2 transfers of 2 chunks, any number of power failures |
| `storage`: snippets | `HighlightOnRow`: Enter finds a row whenever there is one | 3 snippets, every query, 2 calls |
| `storage`: preferences | `SettledSaved`: what is kept settles on the last choice | 3 widths (below, within and above the bounds), a flag, 2 writes |
| `renderer`: workbench | `BarMirrors`, `PanelsOnOpenSessions`: bar and panels follow sessions and tabs | 2 sessions, 3 tabs |
| `renderer`: files | `SettledListing`: panes settle on their directories, but for files that landed since | 1 entry, 3 directories a side, 2 calls at a time besides the first listings |
| `renderer`: bridge | `CrossesIntact`: events and handles arrive as they were sent, in order | 2 events of any kind, a number above a double's precision, zeros, nulls |
| `renderer`: connect | `HostKeyAsked`: a refused key is always asked about, with its fingerprint, and only a refused key is trusted | 2 hosts, 2 fingerprints, 2 attempts at a time, of which each may be retried |

Three connections are enough for a rebuild to fail after connecting and be tried
again, and for a rebuild of a rebuilt session; two delays for one retry and for
running out; one queued event because deliveries are one at a time and the
queue's order is exercised by which of drop and close comes first.  In `ssh_core` one
connection has all the tasks that race (connect, handler, disconnect, two openings, a
pump, the drain): connections share nothing but the queue, and three events fill it from
all of them.  Two forwards are what a rebuild needs to take over one and what two
remote forwards need to be told apart by their ports.

Two names are enough for a rewrite to drop another's line and for an import to be cut in
two, three attempts for two that contest a name beside one that waits for the lock.  Two
pulls are one that owns the batch and one that joins it, with an upsert between them.  Two
hosts let one take the other's place at the head of the list; three operations are two that
overlap and one that finds what they left.  Two transfers are a download
beside another, beside an upload, or on the `.part` a power failure left; paths share no file,
and with three transfers (3,696,190 states) the three properties hold as well.  Two calls are the least that can be answered
out of order.  Keys and attempts of the known hosts are interchangeable and the
run has no liveness property, so `storage` uses symmetry.

Deadlock is not checked: the bounds on ids, calls and operations make the instances stop,
and a finished upload, a refused launch or a closed window may stop for good.

The violated runs are disagreements between a comment, a document or a test and the code;
each is a finding in `PROJECT.json` with the line it bites at.  Six more configurations
show disagreements of the same kind and are kept for whoever works on those lines:

| Configuration | Module | What TLC finds violated |
|---|---|---|
| `SessionManagerHandles.cfg` | `MCSessionManager` | `OnlyLiveHandleMaps`: two handles map to one session |
| `SessionManagerSize.cfg` | `MCSessionManager` | `ChannelGetsTabSize`: a resize while `openShell` is in flight is lost |
| `TransferManagerCancel.cfg` | `MCTransferManager` | `NothingToCancel`: a cancelled record has a worker |
| `DownloadFileTogether.cfg` | `DownloadFile` | `NeverTruncated`: two downloads to one path share the `.part` file, and the first rename puts a file at the path that the second has emptied and is still writing, although "a cancelled or failed download never leaves a truncated file at the real path" (`sftp.rs:290-291`); `transfers.ts` starts them side by side |
| `HostEditorRemoved.cfg` | `HostEditor` | `SecretGone`: `deleteCredential` sets `deleted` and leaves secret and passphrase in the row (`store.ts:308-314`), and `pruneTombstones` has no caller, although "leaving it behind would accumulate secrets nothing references" (`hostStore.ts:95-96`) |
| `WorkbenchScrollback.cfg` | `Workbench` | `ScrollbackKept`: the host form unmounts the terminals, although "unmounting would discard scrollback" (`TerminalPane.tsx:141`) |

**Fairness.** `sessions_live` assumes weak fairness of each `#reconnect` run and of the
publication of an id: timers fire, and a run goes on once what it awaits has settled.  That a
call settles is not assumed.  `connect` limits the TCP connect in time
(`session.rs:197-205`) and nothing after it (`session.rs:207-228`), so a server that takes the
connection and says nothing leaves the tab reconnecting for ever: `Hangs` is that, and
`ReconnectSettles` excuses such a session, and one whose run was ended by `stop`.
Nothing is assumed of the user, the network or the drain loop.  `ssh_core` assumes that the
drain loop goes on, that a task which has queued an event goes on to notify, that a
`disconnect` goes on when the lock it waits for is free, and that an `openShell` whose
transport is lost fails; a connected server may leave an `openShell` unanswered.
`forwards` assumes the drain loop only.  `storage` and `renderer` assume nothing: their
properties are about what may not happen and about what holds once nothing is under way.

`NoIdleSlot` needs an explanation.  With rejections and two slots it fails (one record can
be started twice, once refused); an initialised core refuses no transfer, so the
theorem assumes `~Rejects \/ MaxConcurrent = 1` and the run takes the second case.

## 4. What is proved

For every value of the constants that satisfies the assumptions:

- `SessionManagerProofs`: `TypeCorrect`, `Routing` (`ChannelRouted`), `Watching`
  (`WatchedOrRebuilding`), `StateShown` (`OpenHasState`), `RebuiltOnce` (`OneRebuildPerHandle`).
  *Routing* is not inductive: a run in `open` holds a tab it captured long ago and a
  channel nobody has yet.  The strengthening says that a channel id waiting in a
  call or a run is fresh (no tab, index entry or other call has it), so the
  assignment on reply cannot take another tab's channel.
  *Watching* needs to know who is responsible for a session while its handle is
  unmapped: the strengthening relates each run to the record it rebuilds and each
  connection id to the single call, run or record that owns it.
  *Rebuilt once* counts the reports: as long as a handle can still be heard of, its close is
  queued at most once, and neither while its connection is up nor while a run it started is
  under way (`ReportInv`).
- `TransferManagerProofs`: `TransferTypes`, `NoIdleSlotHolds`, `RunningIsLiveHolds`.
  *No idle slot* is carried by a witness: whenever a queued record waits beside a free
  slot there is a pump in flight that has still to pass it with a slot in hand.
  *Running is live* says that the id of a suspended pump is being worked on, is
  reported, or is in `early`.
- `SshCoreProofs`: `CoreTypes`, `NoSleep` (`NoSleepWithEvents`), `Refinement`
  (`ImplementsBridge`: initial states map to initial states, every step to a step or a
  stutter).  *No sleep* needs an account of the wake-ups: a drain that has
  found the queue empty and meets an event now has a permit stored for it, or a push that
  has still to notify, and one that waits has taken no permit away (`WakeInv`).  The
  refinement needs to know, for each task, what it may rely on (`TaskInv`): a connection is
  nobody's before its id is issued, a handler reports after its transport is gone,
  `disconnect` goes on after the session left the registry, and the cell of a registered
  session holds the id from when it is published, so that a drop then is no silent one.
- `ForwardManagerProofs`: `ForwardTypes`, `RowsIndexed` (`RowIndexed`), `NothingOrphaned`
  (`NoOrphan`), `RemotesReached` (`RemoteRowReached`).  *Rows are indexed* rests on `OneOwner`: a forward belongs to one record,
  one open call or one rebuild, and what nobody owns is unborn; without it an index entry
  that is set for one row could be another's.  *Nothing orphaned* rests on `ClosedGone`: a
  row with a close in flight has no forward any more, so forgetting it orphans nothing.
  *Remotes reached* says that a started remote forward is in the routing table until a close
  of its row is under way (`RouteInv`).
- `DatabaseProofs`, of the known hosts: `KnownHostsTypes`, `TrustsKept` (`TrustKept`), `FileFollows`
  (`FileIsCache`), `RetriesAccepted` (`RetryAccepted`).  *Trusts kept* needs that an import
  runs only where nothing was ever acknowledged (`BootInv`).  *File follows* and *retries
  accepted* speak of the line a name will have once the rewrite in progress is through
  (`LineIs`): a line once written stays its key (`OneKey`), and where line and table differ a
  trust is on its way to the table (`CacheInv`).
- `DatabaseProofs`, of the schema: `ReadyHasSchema` (`SchemaWhenReady`), `RefusalsExplained`
  (`OnlyOpenTxnRefuses`), `OpenTxnUpgrades` (`OpenTxnCarriesUpgrade`), `SecretsSurvive`
  (`SecretsKept`).  The module has no constants, so the run visits every state there is; the
  proof says why it holds.  `SchemaInv` relates what is left of a plan to the database it
  will be run on (`AdoptLeft`, `MigrateLeft`): wherever a page dies, the statements that are
  still to come find the tables, the version and the columns they rely on.  A transaction
  left open began below version 2, and what it hides of the disk is no secret lost (`TxnInv`).
- `DatabaseProofs`, of the batch: `NoOrphanBatch` (`BatchHasOwner`), `PullsAreAtomic`
  (`AllOrNothing`), `NoSilentLoss` (`AckedOrOwnerTold`), assuming that no pull is an upsert
  (`Apart`).  The invariant says where a row may be.  A row of a pull with a batch of its own is in one
  place at a time, held, sent or stored (`OwnRows`), so that a batch that fails takes all of
  them.  Every acknowledged row is stored, or with the pull whose batch it was added to, or that
  pull threw (`AckedRows`); that another pull is in flight or has failed is no excuse.
- `HostEditorProofs`: `ReferencesSound` (`RefsSound`), `ListSettles` (`ViewSettles`),
  assuming that hosts are numbers (`Numbered`).  Both rest on `Sole`: a credential is claimed
  for one host only by rows, list, listings under way and operations together, because a form
  or an inspector takes the reference from a list that may be stale.  *The list settles* needs
  that the last listing asked for, under way or shown, equals the table unless it was
  rejected (`Fresh`).
- `DownloadFileProofs`: `DownloadsAreWhole` (`PublishedWhole`), `UploadsAreWhole`
  (`SentWhole`), `PartsAreTidy` (`NoStrayPart`), assuming that no path is a transfer and that a
  file has a natural number of chunks (`Sizes`).  The invariant keeps paths apart (`Names`: no
  name and no handle of one path leads to a file of another) and says of a path to which one
  download goes at a time (`Lone`) that the `.part` is nobody else's file and has what was copied
  so far, that the file at the path is whole and on disk, and that an upload has sent the
  first chunks of a file nobody writes to.

- `RendererProofs`, each under an invariant of its own:
  - `BarFollows` (`BarMirrors`), `PanelsFollow` (`PanelsOnOpenSessions`).  `BarInv` says that as
    long as the bar missed nothing its tabs are the manager's, with the state of a session that
    is connected or being rebuilt; and that in the second case the rebuild holds the tab,
    so that the end of the session closes it.  Without that a session could end and leave a tab.
  - `PanesSettle` (`SettledListing`).  On a side where no two calls overlapped there is one call
    under way at most, and the panes show what is there, but for what landed since, or that
    call has it so (`SideSound`).
  - `EnterFindsRow` (`HighlightOnRow`), assuming finitely many snippets (`SnippetAssumption`):
    after every change of the list or the query the effect puts the highlight inside, and an
    answer reaches the palette only while the opening that asked for it lasts (`PaletteInv`).
  - `ChoicesSaved` (`SettledSaved`): unless the timer runs, the last write sent is what the page
    shows (`LastWriteShown`), and a preference within the bounds is read back as it was
    written (`ReadBack`), for every integer width (`WidthAssumption`).
  - `KeysAsked` (`HostKeyAsked`).  The parser is the heart of it: for every error, a refused key
    keeps its code and fingerprint through three texts (`HostKeyParsed`) and no other error
    is taken for one (`OthersUnknown`).  Refusals only grow, so an attempt that failed, a prompt
    and a trust have theirs (`FlowInv`).
  - `NumbersCross` (`CrossesIntact`), assuming that handles are natural numbers
    (`IdAssumption`).  `NumberCrosses` says that `BigInt` gives back what `toString` was
    given, for every number; with it every event is what it was after three conversions
    (`EventCrosses`), and the queue, the answer and what was heard make up what was pushed.

`Decimal`, `BigInt` and the tabs that stay in the bar (`Stay`) are recursive functions.  What they
compute is proved for every input with `LeastNat`, that a set of natural numbers has a least
element: a function is first shown to exist up to every bound (`DigitsExist`, `ValueExists`,
`StayExists`), since a recursive definition of TLA+ promises no more than a choice.  It stands in
for the induction theorems of the library, which take an operator as a parameter that the
provers at hand do not instantiate.

Every safety property that a run checks is a theorem.  Model-checked only is liveness
(`ReconnectSettles`, `EventsDelivered`, `DisconnectEnds`, `ConnectionShown`), which is out of the prover's reach, as
is `ENABLED`.

## 5. What the models say of the code besides

Met while modelling, and not worth a run of their own:

- A tab whose terminals were unmounted by the host form misses the events of its session:
  the bar keeps tabs that are gone, and `subscribeTab` then throws in an effect, which takes the
  page down (`missed` in `Workbench` is where `BarMirrors` stops).
- The file browser takes the oldest open session, its comment says the most recent; the
  forward panel starts with none.
- A drag carries only the name (`SftpBrowser.tsx:13`): a row dropped back on its own pane copies
  the other side's file of that name.  A pane's question whether to remove survives a change of directory.  The
  listing after a copy is asked for when the transfer is enqueued (`SftpBrowser.tsx:340-342`), so
  the copied file is, as a rule, not in it.
- The inspector saves again about every 400 ms while it is open, since each listing hands it a new object,
  and always shows the first host of the list.  The host form keeps its fields, the secret
  among them, when another host's edit button is pressed; a save that ends closes whichever form is
  open by then.
- A removed credential keeps its secret in the tombstone (`HostEditorRemoved.cfg`), and a save
  whose host write fails leaves its credential without a host.
- `reload` is not tried again after a rejection: the list then shows what it showed before.
- `close_forward` leaves the server listening on a remote forward's port
  (`forward.rs:294-305`).  A channel for it reaches the one forward that is left, which is the case the
  comment of `remote_forward_target` calls unambiguous.
- Saving a snippet twice before the first answer stores it twice.
- Output that arrives between `openShell`'s reply and the pane's subscription is lost.
- `db.ts:36-38` says that a page's death cannot leave a transaction open; true of `transaction`,
  not of the `BEGIN` that `runMigrations` sends by itself (`OnlyOpenTxnRefuses` and
  `OpenTxnCarriesUpgrade` say what comes of it).
- `flush` clears `pending` though a later write may be in it; the application never calls it.

## 6. Plan

1. Known hosts: a run for the import that a crash cuts short ("Any `known_hosts` file already
   in the user-data directory is imported", `2026-08-30-termif-local-only-storage.md`).
2. Forwards: the rebuild of a forward whose own old listener holds its port, and the
   forward a close during a rebuild leaves behind.
3. Proofs: that `SshForwards` and `SftpTransfers` are implemented by their tasks, once those are
   modelled at the grain of `SshCore`.

Not modelled: the SOCKS5 front end (a sequential parser), texts and styles, pure helpers of
the renderer, views that only draw what they are given, the stubs `napi` generates
(`index.js`, `index.d.ts`), directory operations of `sftp.rs` beyond their effect on a listing,
rename (no view calls it), a rejected look-up of a credential in the connect flow, rejected calls
of the store in the snippet palette, an error of `remove_file`, which `sftp.rs` drops too, `rowsChangedSince` and `pruneTombstones` (no caller), packaging and CI.
