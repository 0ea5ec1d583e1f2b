-------------------------------- MODULE Ipc --------------------------------
(* What crosses between the page and the native module: the handles that calls carry and
   return (platform.ts, handlers.ts), and the events of the drain loop, which the binding
   flattens (ffi-napi lib.rs), the main process serialises (native.ts) and the page turns
   back. Handles and byte counts are unsigned 64-bit numbers; a bigint is one, and a text
   of decimal digits is how it crosses.

   Payloads (bytes, reasons, peers, levels, messages) are numbers too, with 0 for the
   empty one; a field that may be null is a set of at most one value.                 *)
EXTENDS Naturals, Sequences

CONSTANTS
    Id,        \* handles and byte counts
    Payload,   \* payloads and exit statuses
    Precision, \* the numbers that a double holds exactly are those below it
    Slot,      \* calls under way
    MaxEvents  \* bound on the events ever pushed

ASSUME IdAssumption == Id \subseteq Nat

VARIABLES
    pushed,  \* history: every event pushed, as ssh-core made it
    backlog, \* events that no drain has taken
    poll,    \* nextEvents: "idle", "asked", or "answered" with the serialised events
    heard,   \* events handed to the page's listeners
    ipcCalls \* the calls: handle sent, handle the native module saw, id issued, id received

ipcVars == <<pushed, backlog, poll, heard, ipcCalls>>

Wide == {"channelId", "sessionId", "transferId", "forwardId", "done", "total"}
Nullable == {"exitStatus", "error"}
\* The fields of each kind of event.
Carries ==
    [channelData |-> {"channelId", "bytes"}, channelClosed |-> {"channelId", "exitStatus"},
     sessionClosed |-> {"sessionId", "reason"}, transferProgress |-> {"transferId", "done", "total"},
     transferDone |-> {"transferId", "error"}, forwardAccepted |-> {"forwardId", "peer"},
     log |-> {"level", "msg"}]
Field == UNION {Carries[kind] : kind \in DOMAIN Carries}

Options == {{}} \cup {{p} : p \in Payload}
\* An event of ssh-core: every field is a set, of one value if it cannot be null.
CoreEvent(kind) ==
    {[kind |-> kind, fields |-> fields] :
        fields \in {f \in [Carries[kind] -> {{n} : n \in Id} \cup Options] :
            \A x \in Carries[kind] :
                f[x] \in IF x \in Wide THEN {{n} : n \in Id}
                         ELSE IF x \in Nullable THEN Options ELSE Options \ {{}}}}

----------------------------------------------------------------------------
Digits(n) ==
    LET digits[i \in 0..n] == IF i < 10 THEN <<i>> ELSE Append(digits[i \div 10], i % 10)
    IN  digits[n]

\* A bug: the number crosses as a double and loses its low bit where that has no room.
Rounded(n) == Digits(IF n < Precision THEN n ELSE n - (n % 2))

\* toString of a bigint, and BigInt of a text.
Decimal(n) == Digits(n)
BigInt(text) ==
    LET value[i \in 0..Len(text)] == IF i = 0 THEN 0 ELSE 10 * value[i - 1] + text[i]
    IN  value[Len(text)]

\* value ?? default
Or(option, default) == IF option = {} THEN default ELSE CHOOSE v \in option : TRUE

\* JsEvent: one flat shape, null where the kind has no such field.
Flat(event) ==
    [kind |-> event.kind,
     fields |-> [x \in Field |-> IF x \in Carries[event.kind] THEN event.fields[x] ELSE {}]]

\* A bug: "||" for "??" makes a zero exit status a missing one.
SerialisedTruthy(js) ==
    [kind |-> js.kind,
     fields |-> [x \in Carries[js.kind] |->
        IF x \in Wide THEN Decimal(Or(js.fields[x], 0))
        ELSE IF x \in Nullable THEN js.fields[x] \ {0} ELSE {Or(js.fields[x], 0)}]]

\* serialiseEvents, for one event.
Serialised(js) ==
    [kind |-> js.kind,
     fields |-> [x \in Carries[js.kind] |->
        IF x \in Wide THEN Decimal(Or(js.fields[x], 0))
        ELSE IF x \in Nullable THEN js.fields[x] ELSE {Or(js.fields[x], 0)}]]

\* deserialiseEvent.
Deserialised(event) ==
    [kind |-> event.kind,
     fields |-> [x \in Carries[event.kind] |->
        IF x \in Wide THEN {BigInt(event.fields[x])} ELSE event.fields[x]]]

Each(Op(_), events) == [i \in DOMAIN events |-> Op(events[i])]

----------------------------------------------------------------------------
NoIpcCall == [at |-> "none"]

IpcInit ==
    /\ pushed = <<>> /\ backlog = <<>> /\ heard = <<>>
    /\ poll = [at |-> "idle", events |-> <<>>]
    /\ ipcCalls = [k \in Slot |-> NoIpcCall]

\* ssh-core pushes an event.
PushEvent(event) ==
    /\ Len(pushed) < MaxEvents
    /\ pushed' = Append(pushed, event) /\ backlog' = Append(backlog, event)
    /\ UNCHANGED <<poll, heard, ipcCalls>>

\* The drain loop asks; a refused call is asked again after a pause.
Poll ==
    /\ poll.at = "idle"
    /\ poll' = [poll EXCEPT !.at = "asked"]
    /\ UNCHANGED <<pushed, backlog, heard, ipcCalls>>

PollRefused ==
    /\ poll.at = "asked"
    /\ poll' = [poll EXCEPT !.at = "idle"]
    /\ UNCHANGED <<pushed, backlog, heard, ipcCalls>>

\* The handler drains the queue, or times out with nothing, and answers.
Drained ==
    /\ poll.at = "asked"
    /\ poll' = [at |-> "answered", events |-> Each(Serialised, Each(Flat, backlog))]
    /\ backlog' = <<>>
    /\ UNCHANGED <<pushed, heard, ipcCalls>>

Hear ==
    /\ poll.at = "answered"
    /\ heard' = heard \o Each(Deserialised, poll.events)
    /\ poll' = [at |-> "idle", events |-> <<>>]
    /\ UNCHANGED <<pushed, backlog, ipcCalls>>

\* A call that takes a handle and returns one: openShell, a transfer, a forward.
CallNative(k, handle) ==
    /\ ipcCalls[k] = NoIpcCall
    /\ ipcCalls' = [ipcCalls EXCEPT ![k] = [at |-> "sent", handle |-> handle, text |-> Decimal(handle)]]
    /\ UNCHANGED <<pushed, backlog, poll, heard>>

\* The handler makes a bigint of the text, and the native module answers with a new id.
Handled(k, id) ==
    /\ ipcCalls[k].at = "sent"
    /\ ipcCalls' = [ipcCalls EXCEPT ![k] =
           [at |-> "handled", handle |-> @.handle, seen |-> BigInt(@.text), issued |-> id, text |-> Decimal(id)]]
    /\ UNCHANGED <<pushed, backlog, poll, heard>>

Returned(k) ==
    /\ ipcCalls[k].at = "handled"
    /\ ipcCalls' = [ipcCalls EXCEPT ![k] =
           [at |-> "returned", handle |-> @.handle, seen |-> @.seen, issued |-> @.issued, got |-> BigInt(@.text)]]
    /\ UNCHANGED <<pushed, backlog, poll, heard>>

IpcNext ==
    \/ \E kind \in DOMAIN Carries : \E event \in CoreEvent(kind) : PushEvent(event)
    \/ Poll \/ PollRefused \/ Drained \/ Hear
    \/ \E k \in Slot : Returned(k) \/ \E id \in Id : CallNative(k, id) \/ Handled(k, id)

IpcSpec == IpcInit /\ [][IpcNext]_ipcVars

----------------------------------------------------------------------------
\* What crosses arrives as it was sent: the page has heard, is being told or will be told
\* every event that ssh-core pushed, in that order and with every field as it was; the
\* native module sees the handle that the page holds, and the page gets the id it issued.
CrossesIntact ==
    /\ heard \o Each(Deserialised, poll.events) \o backlog = pushed
    /\ \A k \in Slot :
        /\ ipcCalls[k].at \in {"handled", "returned"} => ipcCalls[k].seen = ipcCalls[k].handle
        /\ ipcCalls[k].at = "returned" => ipcCalls[k].got = ipcCalls[k].issued
=============================================================================
