------------------------------ MODULE Snippets ------------------------------
(* The snippet palette (SnippetPalette.tsx, snippetStore.ts, TerminalTabs.tsx) over the
   rows of snippets (store.ts).  Opening it makes a store of its own, which lists the
   rows once and again after each of its own writes; nothing else tells it of changes.
   Closing it drops that store, while its calls run on.

   Snippets are numbers in the order of the list.  A query is the set of the snippets it
   matches.  The list and what is shown of it are sets; the highlight is an index.   *)
EXTENDS Naturals, Integers, Sequences, FiniteSets

CONSTANTS
    Snippet,       \* ids, numbered in the order of their labels
    MaxRequests    \* bound on the calls under way

VARIABLES
    rows,      \* the table: snippets that are not tombstones
    palette,   \* whether it is open, and its state
    requests,  \* calls to the main process under way, which answers in order
    sent,      \* the snippet that was handed to the tab last
    aimless    \* history: an arrow-down met an empty list, and no arrow was pressed since

ASSUME SnippetAssumption == Snippet \subseteq Nat /\ IsFiniteSet(Snippet)

snVars == <<rows, palette, requests, sent, aimless>>

Closed == [open |-> FALSE]
Opened == [open |-> TRUE, list |-> {}, query |-> Snippet, highlight |-> 0, adding |-> FALSE]

\* visible(), in the state p of the palette.
Visible(p) == p.list \cap p.query
\* The row at an index that counts from 0: its number has index rows before it.
Row(p, index) ==
    {s \in Visible(p) : Cardinality({r \in Visible(p) : r < s}) = index}

PaletteInit ==
    /\ rows \in SUBSET Snippet
    /\ palette = Closed
    /\ requests = <<>>
    /\ sent = {}
    /\ aimless = FALSE

----------------------------------------------------------------------------
\* mine: the call was made by the store of the palette that is open now.
Request(kind, snippets) ==
    /\ Len(requests) < MaxRequests
    /\ requests' = Append(requests, [kind |-> kind, what |-> snippets, mine |-> TRUE])

\* Cmd/Ctrl+K: a new store lists the rows.
OpenPalette ==
    /\ ~palette.open
    /\ palette' = Opened
    /\ aimless' = FALSE
    /\ Request("list", {})
    /\ UNCHANGED <<rows, sent>>

Dismiss ==
    /\ palette' = Closed
    /\ aimless' = FALSE
    /\ requests' = [i \in DOMAIN requests |-> [requests[i] EXCEPT !.mine = FALSE]]

\* Escape, or Cmd/Ctrl+K again.
ClosePalette ==
    /\ palette.open
    /\ Dismiss
    /\ UNCHANGED <<rows, sent>>

\* A bug: nothing pulls the highlight back when the list gets shorter.
ShowAsIs(p) == p

Least(a, b) == IF a <= b THEN a ELSE b
\* The list or the query changed; where that changes the length, the effect that keeps
\* the highlight inside runs before the next key.
Show(p) ==
    LET last == IF Visible(p) = {} THEN 0 ELSE Cardinality(Visible(p)) - 1
    IN  IF Cardinality(Visible(p)) = Cardinality(Visible(palette)) THEN p
        ELSE [p EXCEPT !.highlight = Least(@, last)]

SetQuery(q) ==
    /\ palette.open
    /\ palette' = Show([palette EXCEPT !.query = q])
    /\ UNCHANGED <<rows, requests, sent, aimless>>

\* ArrowDown: to the last row at most, which is row -1 of an empty list.
ArrowDown ==
    /\ palette.open
    /\ palette' = [palette EXCEPT !.highlight = Least(@ + 1, Cardinality(Visible(palette)) - 1)]
    /\ aimless' = (Visible(palette) = {})
    /\ UNCHANGED <<rows, requests, sent>>

ArrowUp ==
    /\ palette.open
    /\ palette' = [palette EXCEPT !.highlight = IF @ <= 0 THEN 0 ELSE @ - 1]
    /\ aimless' = FALSE
    /\ UNCHANGED <<rows, requests, sent>>

\* onSend: the palette closes once the tab has the snippet, and stays if it cannot be
\* written (a tab that is reconnecting).
OnSend(s) ==
    /\ sent' = {s}
    /\ Dismiss \/ UNCHANGED <<palette, requests, aimless>>
    /\ UNCHANGED rows

\* Enter sends the highlighted row, and nothing where there is none.
Enter ==
    /\ palette.open
    /\ \E s \in Row(palette, palette.highlight) : OnSend(s)

\* A click on a row sends that row.
Click(s) ==
    /\ palette.open /\ s \in Visible(palette)
    /\ OnSend(s)

\* deleteSnippet, then the listing.
DeleteSnippet(s) ==
    /\ palette.open /\ s \in Visible(palette)
    /\ Request("delete", {s})
    /\ UNCHANGED <<rows, palette, sent, aimless>>

\* "New snippet" and its cancel; the button is not disabled while a save is under way.
Toggle ==
    /\ palette.open
    /\ palette' = [palette EXCEPT !.adding = ~@]
    /\ UNCHANGED <<rows, requests, sent, aimless>>

\* saveNew: upsertSnippet with a new id, then the listing.
SaveNew(s) ==
    /\ palette.open /\ palette.adding
    /\ s \notin rows /\ \A i \in DOMAIN requests : s \notin requests[i].what
    /\ Request("insert", {s})
    /\ UNCHANGED <<rows, palette, sent, aimless>>

\* The main process has run the oldest call and its answer is taken: a listing is shown
\* if its palette is open, a write is followed by a listing (and closes the form).
Answered ==
    /\ requests # <<>>
    /\ LET call == Head(requests)
       IN  /\ rows' = CASE call.kind = "insert" -> rows \cup call.what
                        [] call.kind = "delete" -> rows \ call.what
                        [] OTHER -> rows
           /\ requests' = IF call.kind = "list" THEN Tail(requests)
                       ELSE Append(Tail(requests), [call EXCEPT !.kind = "list", !.what = {}])
           /\ palette' = IF call.mine /\ call.kind = "list" THEN Show([palette EXCEPT !.list = rows])
                         ELSE IF call.mine /\ call.kind = "insert" THEN [palette EXCEPT !.adding = FALSE]
                         ELSE palette
    /\ UNCHANGED <<sent, aimless>>

PaletteNext ==
    \/ OpenPalette \/ ClosePalette \/ ArrowDown \/ ArrowUp \/ Enter \/ Toggle \/ Answered
    \/ \E q \in SUBSET Snippet : SetQuery(q)
    \/ \E s \in Snippet : Click(s) \/ DeleteSnippet(s) \/ SaveNew(s)

PaletteSpec == PaletteInit /\ [][PaletteNext]_snVars

----------------------------------------------------------------------------
\* SnippetPalette.tsx 35: "A shrinking list must not leave the highlight past the end":
\* Enter finds a row whenever there is one, whatever removals, listings and queries
\* changed the list, but after an arrow-down on an empty list, which leaves row -1.
HighlightOnRow ==
    palette.open /\ Visible(palette) # {} =>
        palette.highlight < Cardinality(Visible(palette))
        /\ (palette.highlight >= 0 \/ aimless)
=============================================================================
