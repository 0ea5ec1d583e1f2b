------------------------------- MODULE Prefs -------------------------------
(* The preferences of the interface (prefs.ts): read once at boot and made sane, changed
   by the sidebar's resizer, the groups of the list and the inspector's button
   (SidebarResizer, HostList, Titlebar, MainLayout), written 250 ms after the last
   change under one key of meta (store.ts), in writes that may overlap.

   The value is abstracted to the sidebar's width and one flag, which stands for the
   inspector, the hidden files and the set of collapsed groups.                     *)
EXTENDS Integers, Sequences

CONSTANTS
    Width,     \* the widths that a file may hold, or a pointer or key may ask for
    MaxWrites  \* bound on the writes under way

VARIABLES
    saved,   \* the value of the key in meta: "absent", "damaged" or a preference
    prefs,   \* the store's state
    timer,   \* whether a write is due
    writes,  \* writes under way, in the order they were sent, with their text
    pending, \* the place in writes of the one that a flush would await, 0 for none
    flush,   \* {} or {the place of the write that a flush awaits}
    failed   \* history: the last write to end failed

\* Widths are numbers of pixels.
ASSUME WidthAssumption == Width \subseteq Int

pfVars == <<saved, prefs, timer, writes, pending, flush, failed>>

SIDEBAR_MIN == 200
SIDEBAR_MAX == 400
DEFAULT_PREFS == [width |-> 260, flag |-> FALSE]
clamp(w) == IF w < SIDEBAR_MIN THEN SIDEBAR_MIN ELSE IF w > SIDEBAR_MAX THEN SIDEBAR_MAX ELSE w

\* What a file may hold: a width that is no number stands for itself as -1.
Files == [width : Width \cup {-1}, flag : BOOLEAN]

\* load, with sanitise: whatever is not as it should be is the default.
Sane(raw) ==
    IF raw.kind # "object" THEN DEFAULT_PREFS
    ELSE [width |-> IF raw.value.width = -1 THEN DEFAULT_PREFS.width ELSE clamp(raw.value.width),
          flag |-> raw.value.flag]

Object(p) == [kind |-> "object", value |-> p]
PrefsInit ==
    /\ saved \in {[kind |-> "absent"], [kind |-> "damaged"]} \cup {Object(f) : f \in Files}
    /\ prefs = Sane(saved)
    /\ timer = FALSE
    /\ writes = <<>>
    /\ pending = 0
    /\ flush = {}
    /\ failed = FALSE

----------------------------------------------------------------------------
\* A bug: no timer is started while a write is under way.
SetQuietly(p) ==
    /\ prefs' = p
    /\ timer' = (timer \/ writes = <<>>)
    /\ UNCHANGED <<saved, writes, pending, flush, failed>>

\* set: the timer starts anew.
Set(p) ==
    /\ prefs' = p
    /\ timer' = TRUE
    /\ UNCHANGED <<saved, writes, pending, flush, failed>>

\* The resizer: dragging, an arrow key, a double click.
Resize(w) == Set([prefs EXCEPT !.width = clamp(w)])

Flip == Set([prefs EXCEPT !.flag = ~@])

\* write: the text is made now, and sent; pending is this write.
Write ==
    /\ Len(writes) < MaxWrites
    /\ timer' = FALSE
    /\ writes' = Append(writes, Object(prefs))
    /\ pending' = Len(writes')

TimerFires ==
    /\ timer
    /\ Write
    /\ UNCHANGED <<saved, prefs, flush, failed>>

\* flush: what is due is written at once, and the last write awaited.
Flush ==
    /\ flush = {}
    /\ IF timer THEN Write ELSE UNCHANGED <<timer, writes, pending>>
    /\ flush' = {pending'}
    /\ UNCHANGED <<saved, prefs, failed>>

\* The awaited write ended; pending is cleared, though it may be a later one by now, or
\* stays because the write failed and flush throws.
FlushReturns ==
    /\ flush = {0}
    /\ flush' = {}
    /\ pending' \in {0, pending}
    /\ UNCHANGED <<saved, prefs, timer, writes, failed>>

Earlier(place) == IF place = 0 THEN 0 ELSE place - 1
\* The oldest write ends: setMetaValue ran in the main process, or failed there.
Ended(fails) ==
    /\ writes # <<>>
    /\ saved' = IF fails THEN saved ELSE Head(writes)
    /\ writes' = Tail(writes)
    /\ pending' = Earlier(pending)
    /\ flush' = {Earlier(place) : place \in flush}
    /\ failed' = fails
    /\ UNCHANGED <<prefs, timer>>

PrefsNext ==
    \/ \E w \in Width : Resize(w)
    \/ Flip \/ TimerFires \/ Flush \/ FlushReturns
    \/ \E fails \in BOOLEAN : Ended(fails)

PrefsSpec == PrefsInit /\ [][PrefsNext]_pfVars

----------------------------------------------------------------------------
\* Once no write is due or under way, the file has what is shown, in spite of writes and
\* flushes that overlap with changes, or what it had at boot, made sane; unless the last
\* write failed, which nobody tries again.
SettledSaved ==
    ~timer /\ writes = <<>> /\ ~failed => Sane(saved) = prefs
=============================================================================
