----------------------------- MODULE HostEditor -----------------------------
(* Editing hosts: the rows of hosts and credentials (store.ts, model.ts), the operations
   save and remove over them (hostStore.ts), the list in the sidebar, the form and the
   inspector that start these operations (HostList, HostForm, Inspector, MainLayout).

   Each await of an operation is a step of its own, and operations overlap: no button
   waits for the last one.  A write is followed by a listing (Store.onChange and the
   operation's own reload); listings come back in the order they were asked for.

   The fields of a host are left out, but for its authRef.  A secret is abstracted to
   the host it was typed for; New stands for the host that an empty form describes.  An
   option is a set of at most one element.                                           *)
EXTENDS Naturals, Sequences, FiniteSets

CONSTANTS
    Host,       \* ids of hosts, numbers from 1 on in the order of the list
    Cred,       \* ids of credentials
    Op,         \* slots for operations in progress
    MaxReplies, \* bound on the listings under way
    MaxStarts   \* bound on the operations that are ever started

VARIABLES
    hostRow,  \* the table hosts
    credRow,  \* the table credentials
    view,     \* hostStore's hosts: the last listing that came back
    replies,  \* listings under way, with the operation that awaits each
    op,       \* operations in progress
    form,     \* MainLayout's editing and the state of HostForm
    insp,     \* whether the inspector is open, and its state
    starts,   \* how many operations were started
    unlisted  \* history: the listing that ended last was rejected

heVars == <<hostRow, credRow, view, replies, op, form, insp, starts, unlisted>>

New == 0
None == {}
NoRow == [at |-> "absent"]
HostLine(ref) == [at |-> "live", ref |-> ref]
NoOp == [at |-> "idle"]
FormClosed == [open |-> FALSE]
InspClosed == [open |-> FALSE]

Live(rows) == {id \in DOMAIN rows : rows[id].at = "live"}

\* listHosts: tombstones are left out.
Listing(rows) == [h \in Live(rows) |-> rows[h].ref]

EditorInit ==
    /\ hostRow = [h \in Host |-> NoRow]
    /\ credRow = [c \in Cred |-> NoRow]
    /\ view = Listing(hostRow)
    /\ replies = <<>>
    /\ op = [k \in Op |-> NoOp]
    /\ form = FormClosed
    /\ insp = InspClosed
    /\ starts = 0
    /\ unlisted = FALSE

----------------------------------------------------------------------------
\* The host that the inspector is given: the first of the list.
Shown == {h \in DOMAIN view : \A g \in DOMAIN view : h <= g}
\* The host that the form is given: the one being edited, as long as it is listed.
FormHost == form.id \cap DOMAIN view
Target(host) == IF host = None THEN New ELSE CHOOSE h \in host : TRUE

\* newId: no id comes twice.
UnusedHost == {h \in Host : hostRow[h].at = "absent" /\ \A k \in Op : op[k].at # "idle" => op[k].id # h}
UnusedCred == {c \in Cred : credRow[c].at = "absent" /\ \A k \in Op : op[k].at # "idle" => op[k].ref # {c}}

\* Store.#emit and the reload of MainLayout: ask for the listing of the rows now.
Relist(rows, k) == replies' = Append(replies, [rows |-> Listing(rows), op |-> k])

\* An operation begins in slot k.
Start(k, o) ==
    /\ op[k] = NoOp
    /\ starts < MaxStarts
    /\ starts' = starts + 1
    /\ op' = [op EXCEPT ![k] = o]

\* hostStore.save: the credential first, under the host's authRef or a new id, if there
\* is a secret.
Save(k, host, secret, from) ==
    \E id \in IF host = None THEN UnusedHost ELSE host,
       ref \in IF host # None /\ view[Target(host)] # None THEN {view[Target(host)]}
               ELSE IF secret = None THEN {None} ELSE {{c} : c \in UnusedCred} :
        Start(k, [at |-> IF secret = None THEN "host" ELSE "credential", kind |-> from,
                  id |-> id, ref |-> ref,
                  secret |-> IF host = None /\ secret = {New} THEN {id} ELSE secret])

\* upsertCredential.
SaveCredential(k) ==
    /\ op[k].at = "credential"
    /\ Len(replies) < MaxReplies
    /\ credRow' = [c \in Cred |-> IF {c} = op[k].ref THEN [at |-> "live"] ELSE credRow[c]]
    /\ op' = [op EXCEPT ![k].at = "host"]
    /\ Relist(hostRow, None)
    /\ UNCHANGED <<hostRow, view, form, insp, starts, unlisted>>

\* A bug: the host is saved without waiting for its credential.
SaveHostFirst(k) ==
    /\ op[k].at \in {"credential", "host"}
    /\ Len(replies) < MaxReplies
    /\ hostRow' = [hostRow EXCEPT ![op[k].id] = HostLine(op[k].ref)]
    /\ op' = [op EXCEPT ![k].at = "reload"]
    /\ Relist(hostRow', {k})
    /\ UNCHANGED <<credRow, view, form, insp, starts, unlisted>>

\* A bug: nobody asks for a listing after the host is saved.
SaveHostUnlisted(k) ==
    /\ op[k].at = "host"
    /\ hostRow' = [hostRow EXCEPT ![op[k].id] = HostLine(op[k].ref)]
    /\ op' = [op EXCEPT ![k] = NoOp]
    /\ UNCHANGED <<credRow, view, replies, form, insp, starts, unlisted>>

\* upsertHost, and the reload that save awaits.
SaveHost(k) ==
    /\ op[k].at = "host"
    /\ Len(replies) < MaxReplies
    /\ hostRow' = [hostRow EXCEPT ![op[k].id] = HostLine(op[k].ref)]
    /\ op' = [op EXCEPT ![k].at = "reload"]
    /\ Relist(hostRow', {k})
    /\ UNCHANGED <<credRow, view, form, insp, starts, unlisted>>

\* hostStore.remove, after the second click on a row of the list.
RemoveBegins(k, h) ==
    /\ h \in DOMAIN view
    /\ Start(k, [at |-> "get", kind |-> "remove", id |-> h, ref |-> None])
    /\ UNCHANGED <<hostRow, credRow, view, replies, form, insp, unlisted>>

\* getHost: the row as it is now, if it is still there.
RemoveReads(k) ==
    /\ op[k].at = "get"
    /\ op' = [op EXCEPT ![k].at = "delete",
                        ![k].ref = IF hostRow[op[k].id].at = "live" THEN hostRow[op[k].id].ref ELSE None]
    /\ UNCHANGED <<hostRow, credRow, view, replies, form, insp, starts, unlisted>>

\* deleteHost: a tombstone.  Without a credential the reload follows.
RemoveHost(k) ==
    /\ op[k].at = "delete"
    /\ Len(replies) < MaxReplies
    /\ hostRow' = [hostRow EXCEPT ![op[k].id].at = "dead"]
    /\ op' = [op EXCEPT ![k].at = IF op[k].ref = None THEN "reload" ELSE "forget"]
    /\ Relist(hostRow', IF op[k].ref = None THEN {k} ELSE None)
    /\ UNCHANGED <<credRow, view, form, insp, starts, unlisted>>

\* deleteCredential, and the reload.  It sets deleted and the date: the row stays in the
\* table, and its secret with it.
RemoveCredential(k) ==
    /\ op[k].at = "forget"
    /\ Len(replies) < MaxReplies
    /\ credRow' = [c \in Cred |-> IF {c} = op[k].ref THEN [credRow[c] EXCEPT !.at = "dead"] ELSE credRow[c]]
    /\ op' = [op EXCEPT ![k].at = "reload"]
    /\ Relist(hostRow, {k})
    /\ UNCHANGED <<hostRow, view, form, insp, starts, unlisted>>

\* A call to the store fails and the operation throws; the form shows it and stays.
Fails(k) ==
    /\ op[k].at \in {"credential", "host", "get", "delete", "forget"}
    /\ op' = [op EXCEPT ![k] = NoOp]
    /\ UNCHANGED <<hostRow, credRow, view, replies, form, insp, starts, unlisted>>

\* A listing comes back; a save of the form that waited for it closes the form.  The
\* inspector is given the new first host and keeps the secret in its field.
Relisted ==
    /\ replies # <<>>
    /\ LET reply == Head(replies)
           saver == {k \in reply.op : op[k].kind = "form"}
       IN  /\ view' = reply.rows
           /\ op' = [k \in Op |-> IF k \in reply.op THEN NoOp ELSE op[k]]
           /\ form' = IF saver # {} THEN FormClosed ELSE form
    /\ replies' = Tail(replies)
    /\ unlisted' = FALSE
    /\ UNCHANGED <<hostRow, credRow, insp, starts>>

\* listHosts or listCredentials rejects, and reload with them: the list stays what it was,
\* and the operation that awaited it throws, although its writes are done.
ListingFails ==
    /\ replies # <<>>
    /\ op' = [k \in Op |-> IF k \in Head(replies).op THEN NoOp ELSE op[k]]
    /\ replies' = Tail(replies)
    /\ unlisted' = TRUE
    /\ UNCHANGED <<hostRow, credRow, view, form, insp, starts>>

----------------------------------------------------------------------------
\* setEditing: the list's "add" and the edit button of a row.  A form that is open
\* already is given another host and keeps what its fields hold.
EditHost(host) ==
    /\ host \in {None} \cup {{h} : h \in DOMAIN view}
    /\ form' = IF form.open THEN [form EXCEPT !.id = host]
               ELSE [open |-> TRUE, id |-> host, secret |-> None]
    /\ UNCHANGED <<hostRow, credRow, view, replies, op, insp, starts, unlisted>>

CancelForm ==
    /\ form.open
    /\ form' = FormClosed
    /\ UNCHANGED <<hostRow, credRow, view, replies, op, insp, starts, unlisted>>

TypeInForm ==
    /\ form.open
    /\ form' = [form EXCEPT !.secret = {Target(FormHost)}]
    /\ UNCHANGED <<hostRow, credRow, view, replies, op, insp, starts, unlisted>>

\* HostForm.submit, with fields that pass its checks.
Submit(k) ==
    /\ form.open
    /\ Save(k, FormHost, form.secret, "form")
    /\ UNCHANGED <<hostRow, credRow, view, replies, form, insp, unlisted>>

ToggleInspector ==
    /\ insp' = IF insp.open THEN InspClosed ELSE [open |-> TRUE, secret |-> None]
    /\ UNCHANGED <<hostRow, credRow, view, replies, op, form, starts, unlisted>>

TypeInInspector ==
    /\ insp.open /\ Shown # None
    /\ insp' = [insp EXCEPT !.secret = Shown]
    /\ UNCHANGED <<hostRow, credRow, view, replies, op, form, starts, unlisted>>

\* The inspector's timer: 400 ms after its host, its draft or its secret last changed, or
\* MainLayout rendered; a listing gives it a new host object, so it saves again.
Autosave(k) ==
    /\ insp.open /\ Shown # None
    /\ Save(k, Shown, insp.secret, "inspector")
    /\ UNCHANGED <<hostRow, credRow, view, replies, form, insp, unlisted>>

EditorNext ==
    \/ \E k \in Op :
        \/ SaveCredential(k) \/ SaveHost(k) \/ Fails(k)
        \/ RemoveReads(k) \/ RemoveHost(k) \/ RemoveCredential(k)
        \/ Submit(k) \/ Autosave(k)
        \/ \E h \in Host : RemoveBegins(k, h)
    \/ Relisted \/ ListingFails
    \/ \E host \in {None} \cup {{h} : h \in Host} : EditHost(host)
    \/ CancelForm \/ TypeInForm \/ ToggleInspector \/ TypeInInspector

EditorSpec == EditorInit /\ [][EditorNext]_heVars

----------------------------------------------------------------------------
\* However saves, removals and failures overlap, the authRef of a host names a credential
\* that was written, and no two hosts share one.
RefsSound ==
    \A h \in Live(hostRow) :
        /\ \A c \in hostRow[h].ref : credRow[c].at # "absent"
        /\ \A g \in Live(hostRow) \ {h} : hostRow[g].ref \cap hostRow[h].ref = {}

\* Once no listing is under way, the list shows the hosts of the database, unless the
\* listing that was asked for last was rejected: reload is not tried again.
ViewSettles == replies = <<>> /\ ~unlisted => view = Listing(hostRow)

\* hostStore.ts 95-96: a removal that is through with its writes has left no row behind
\* with a secret that nothing references.  The code leaves the credential's tombstone.
SecretGone ==
    \A k \in Op : op[k].at = "reload" /\ op[k].kind = "remove" =>
        \A c \in op[k].ref : credRow[c].at = "absent" \/ \E h \in Live(hostRow) : c \in hostRow[h].ref

\* What the inspector saves for a host was typed for that host: it resets its draft when
\* the first host of the list becomes another one, and not its secret.
InspectorSecretStays ==
    \A k \in Op : op[k].at = "credential" /\ op[k].kind = "inspector" => op[k].secret = {op[k].id}
=============================================================================
