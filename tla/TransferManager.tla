-------------------------- MODULE TransferManager --------------------------
(* TransferManager of packages/core/src/transfers.ts over the bridge.  #pump is
   asynchronous and nothing keeps two of them apart: each enqueue, each report and
   each cancel of a queued record starts one, and each is suspended while its own
   bridge call is in flight.  transferProgress only repaints a row and is left out. *)
EXTENDS SftpTransfers

CONSTANTS
    MaxRecord,      \* bound: transfers ever enqueued
    MaxConcurrent,  \* maxConcurrent of the constructor
    Pump,           \* slots for pumps suspended at the same time
    Rejects         \* whether a bridge call may be rejected, which #pump handles
                    \* but an initialised core never does

ASSUME RecordBounds ==
    MaxRecord \in Nat \ {0} /\ MaxConcurrent \in Nat \ {0} /\ Rejects \in BOOLEAN

Record == 1 .. MaxRecord

VARIABLES
    state,       \* TransferRecord.state, "absent" before enqueue; ids are issued in order
    bridgeId,    \* TransferRecord.bridgeId
    byBridgeId,  \* #byBridgeId
    pump,        \* the pumps in flight
    early        \* history: transfers reported before their id had come back

vars == <<sftpVars, state, bridgeId, byBridgeId, pump, early>>

\* at: the record whose bridge call is in flight; res: its id, or None if rejected.
NoPump == [at |-> None, slots |-> 0, res |-> None]
PumpType ==
    {NoPump} \cup [at : Record, slots : 1 .. MaxConcurrent, res : Transfer \cup {None}]

Init ==
    /\ SftpInit
    /\ state = [r \in Record |-> "absent"]
    /\ bridgeId = [r \in Record |-> None]
    /\ byBridgeId = [b \in Transfer |-> None]
    /\ pump = [p \in Pump |-> NoPump]
    /\ early = {}

Running == {r \in Record : state[r] = "running"}
Queued == {r \in Record : state[r] = "queued"}

----------------------------------------------------------------------------
\* The loop of #pump after record `from`: the next queued record goes to the
\* bridge and stays queued until the reply, or the pump is over.
PumpOn(p, from, slots) ==
    LET rest == {r \in Queued' : r > from} IN
    \/ /\ slots > 0
       /\ \E r \in rest :
             /\ \A u \in rest : r <= u
             /\ \/ \E b \in Transfer :
                      /\ StartTransfer(b)
                      /\ pump' = [pump EXCEPT ![p] = [at |-> r, slots |-> slots, res |-> b]]
                \/ /\ Rejects
                   /\ pump' = [pump EXCEPT ![p] = [at |-> r, slots |-> slots, res |-> None]]
                   /\ UNCHANGED <<nextTransfer, entries, working, tokens>>
    \/ /\ slots <= 0 \/ rest = {}
       /\ pump' = [pump EXCEPT ![p] = NoPump]
       /\ UNCHANGED <<nextTransfer, entries, working, tokens>>

\* A call of #pump: the free slots are counted once, before the first await.
PumpStarts(p) ==
    pump[p] = NoPump /\ PumpOn(p, None, MaxConcurrent - Cardinality(Running'))

Enqueue(r, p) ==
    /\ state[r] = "absent"
    /\ \A u \in Record : u < r => state[u] # "absent"
    /\ state' = [state EXCEPT ![r] = "queued"]
    /\ PumpStarts(p)
    /\ UNCHANGED <<reports, bridgeId, byBridgeId, early>>

\* The reply of the bridge: the record takes the id, whatever became of it since.
PumpReply(p) ==
    LET r == pump[p].at
        b == pump[p].res
    IN
    /\ pump[p] # NoPump
    /\ IF b # None
       THEN /\ state' = [state EXCEPT ![r] = "running"]
            /\ bridgeId' = [bridgeId EXCEPT ![r] = b]
            /\ byBridgeId' = [byBridgeId EXCEPT ![b] = r]
            /\ PumpOn(p, r, pump[p].slots - 1)
       ELSE /\ state' = [state EXCEPT ![r] = "failed"]
            /\ PumpOn(p, r, pump[p].slots)
            /\ UNCHANGED <<bridgeId, byBridgeId>>
    /\ UNCHANGED <<reports, early>>

\* cancel of a record with no id: settled here, also if it had already failed.
CancelQueued(r, p) ==
    /\ state[r] # "absent" /\ bridgeId[r] = None
    /\ state' = [state EXCEPT ![r] = "cancelled"]
    /\ PumpStarts(p)
    /\ UNCHANGED <<reports, bridgeId, byBridgeId, early>>

\* cancel of a record with an id; the record changes when the worker reports.
CancelStarted(r) ==
    /\ bridgeId[r] # None
    /\ CancelTransfer(bridgeId[r])
    /\ UNCHANGED <<state, bridgeId, byBridgeId, pump, early>>

\* A bug: a report that says the transfer was cancelled is taken for progress.
ReportTakenIgnoresCancel(r, p) ==
    LET o == Head(reports).outcome IN
    /\ state' = [state EXCEPT ![r] = IF o = "ok" THEN "done"
                                     ELSE IF o = "failed" THEN o ELSE @]
    /\ PumpStarts(p)

\* A bug: the freed slot is not filled.
ReportTakenWithoutPump(r, p) ==
    LET o == Head(reports).outcome IN
    /\ state' = [state EXCEPT ![r] = IF o = "ok" THEN "done" ELSE o]
    /\ UNCHANGED <<nextTransfer, entries, working, tokens, pump>>

\* A report of record r: it settles, and the next may start.
ReportTaken(r, p) ==
    LET o == Head(reports).outcome IN
    /\ state' = [state EXCEPT ![r] = IF o = "ok" THEN "done" ELSE o]
    /\ PumpStarts(p)

\* handleEvent of a transferDone; one nobody knows is dropped.
HandleDone(p) ==
    /\ reports # <<>>
    /\ reports' = Tail(reports)
    /\ LET b == Head(reports).id
           r == byBridgeId[b]
       IN  \/ /\ r # None
              /\ ReportTaken(r, p)
              /\ UNCHANGED early
           \/ /\ r = None
              /\ early' = early \cup {b}
              /\ UNCHANGED <<nextTransfer, entries, working, tokens, state, pump>>
    /\ UNCHANGED <<bridgeId, byBridgeId>>

Worker ==
    /\ \E b \in Transfer : EntryRemoved(b) \/ \E o \in Outcome : WorkerReports(b, o)
    /\ UNCHANGED <<state, bridgeId, byBridgeId, pump, early>>

Next ==
    \/ \E p \in Pump :
          \/ \E r \in Record : Enqueue(r, p) \/ CancelQueued(r, p)
          \/ PumpReply(p)
          \/ HandleDone(p)
    \/ \E r \in Record : CancelStarted(r)
    \/ Worker

Spec == Init /\ [][Next]_vars

----------------------------------------------------------------------------
\* The records, the index and the suspended pumps hold values of their types.
TypeOK ==
    /\ SftpTypeOK
    /\ state \in [Record -> {"absent", "queued", "running", "done", "failed", "cancelled"}]
    /\ bridgeId \in [Record -> Transfer \cup {None}]
    /\ byBridgeId \in [Transfer -> Record \cup {None}]
    /\ pump \in [Pump -> PumpType]
    /\ early \subseteq Transfer

\* Nothing waits beside a free slot: when no pump is in flight, a queued record
\* means that as many records as the limit allows are shown running, although a
\* pump counts the free slots only once and several overlap (#pump).
NoIdleSlot ==
    (\A p \in Pump : pump[p] = NoPump) /\ Queued # {}
        => Cardinality(Running) >= MaxConcurrent

\* A record shown running has a worker that has yet to report, or a report that has
\* yet to be handled, unless that report overtook the reply that carried its id.
RunningIsLive ==
    \A r \in Running :
        \/ bridgeId[r] \in working \cup early
        \/ \E i \in DOMAIN reports : reports[i].id = bridgeId[r]

\* "Starts queued transfers up to the concurrency limit" (comment on #pump).
ConcurrencyLimit == Cardinality(working) <= MaxConcurrent

\* "Never started, so there is nothing for Rust to cancel" (comment in cancel): a
\* record cancelled here is not one that the bridge is working on or is asked to.
NothingToCancel ==
    [][\A r \in Record : state[r] = "queued" /\ state'[r] = "cancelled"
          => \A p \in Pump : pump[p].at = r => pump[p].res \notin working]_vars

=============================================================================
