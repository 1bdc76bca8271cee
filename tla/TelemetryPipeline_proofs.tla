----------------------- MODULE TelemetryPipeline_proofs -----------------------
(***************************************************************************)
(* Proofs about TelemetryPipeline: its safety invariants, and that it      *)
(* implements ReliableDelivery.                                            *)
(***************************************************************************)
EXTENDS TelemetryPipeline, TLAPS

\* Every event anywhere in the system was recorded.
Numbered ==
  /\ \A i \in DOMAIN outbox : outbox[i].event.id <= recorded
  /\ \A e \in stored : e.id <= recorded
  /\ \A r \in late : \A e \in r.events : e.id <= recorded
  /\ flight # NoFlight => \A e \in flight.request.events : e.id <= recorded

\* The rows of the awaited batch, those still there, are PENDING and hold
\* events of the request; what the cloud accepted it has stored.
FlightOK ==
  flight # NoFlight =>
    /\ flight.ids \subseteq 1..lastId
    /\ \A i \in flight.ids \intersect DOMAIN outbox :
         outbox[i].status = "PENDING" /\ outbox[i].event \in flight.request.events
    /\ flight.answer = "accepted" => flight.request.events \subseteq stored

\* SentIsStored and RetriesCounted, row by row.
RowOK(row) ==
  /\ row.status = "SENT" => row.event \in stored
  /\ row.status = "PENDING" => row.attempts < MaxRetries
  /\ row.status = "DLQ" => row.attempts = MaxRetries

RowsOK == \A i \in DOMAIN outbox : RowOK(outbox[i])

IInv == TypeOK /\ Numbered /\ FlightOK /\ RowsOK /\ StoredBySigner

-----------------------------------------------------------------------------
(* Rows. *)

\* The oldest of some rows are among them.
LEMMA OldestSubset == \A S, n : Oldest(S, n) \subseteq S
  BY DEF Oldest

\* A row marked sent keeps its event.
LEMMA SentRow ==
  ASSUME NEW row \in Row
  PROVE  Sent(row) \in Row /\ Sent(row).event = row.event /\ Sent(row).status = "SENT"
  BY DEF Sent, Row

\* A failed row keeps its event, and reaches the DLQ with MaxRetries attempts.
LEMMA FailedRow ==
  ASSUME NEW row \in Row, row.attempts < MaxRetries
  PROVE  /\ Failed(row) \in Row
         /\ Failed(row).event = row.event
         /\ Failed(row).status \in {row.status, "DLQ"}
         /\ Failed(row).status = "DLQ" /\ row.status # "DLQ" => Failed(row).attempts = MaxRetries
         /\ Failed(row).status = "PENDING" => Failed(row).attempts < MaxRetries
<1>1. row.attempts \in Nat /\ row.attempts + 1 \in Nat
  BY DEF Row
<1>2. CASE row.attempts + 1 >= MaxRetries
  <2>1. Failed(row) = [row EXCEPT !.attempts = @ + 1, !.status = "DLQ"]
    BY <1>2 DEF Failed
  <2>2. row.attempts + 1 = MaxRetries
    BY <1>1, <1>2, PipelineConstants
  <2> QED
    BY <1>1, <2>1, <2>2 DEF Row
<1>3. CASE ~(row.attempts + 1 >= MaxRetries)
  <2>1. Failed(row) = [row EXCEPT !.attempts = @ + 1, !.due = FALSE]
    BY <1>3 DEF Failed
  <2>2. row.attempts + 1 < MaxRetries
    BY <1>1, <1>3, PipelineConstants
  <2>3. Failed(row) \in Row
    BY <1>1, <2>1 DEF Row
  <2>4. Failed(row).attempts = row.attempts + 1 /\ Failed(row).status = row.status
        /\ Failed(row).event = row.event
    BY <2>1 DEF Row
  <2> QED
    BY <2>2, <2>3, <2>4
<1> QED
  BY <1>2, <1>3

\* A replayed row keeps its event and starts over.
LEMMA ReplayedRow ==
  ASSUME NEW row \in Row
  PROVE  /\ Replayed(row) \in Row /\ Replayed(row).event = row.event
         /\ Replayed(row).status = "PENDING" /\ Replayed(row).attempts = 0
  BY DEF Replayed, Row

\* A step that keeps the rows, their events and their correctness.
RowsKept ==
  /\ DOMAIN outbox' = DOMAIN outbox
  /\ \A i \in DOMAIN outbox :
       /\ outbox'[i] \in Row /\ outbox'[i].event = outbox[i].event /\ RowOK(outbox'[i])
       /\ outbox[i].status = "SENT" => outbox'[i].status = "SENT"

\* Marking rows sent is sound when the cloud has their events.
LEMMA SentRows ==
  ASSUME TypeOK, RowsOK, NEW S,
         \A i \in S \intersect DOMAIN outbox : outbox[i].event \in stored,
         outbox' = Updated(S, Sent)
  PROVE  RowsKept
<1>1. DOMAIN outbox' = DOMAIN outbox
  BY DEF Updated
<1>2. ASSUME NEW i \in DOMAIN outbox
      PROVE  /\ outbox'[i] \in Row /\ outbox'[i].event = outbox[i].event /\ RowOK(outbox'[i])
             /\ outbox[i].status = "SENT" => outbox'[i].status = "SENT"
  <2>1. outbox[i] \in Row /\ RowOK(outbox[i])
    BY DEF TypeOK, RowsOK
  <2>2. CASE i \in S
    <3>1. outbox'[i] = Sent(outbox[i])
      BY <2>2 DEF Updated
    <3> QED
      BY <2>1, <2>2, <3>1, SentRow DEF RowOK
  <2>3. CASE i \notin S
    BY <2>1, <2>3 DEF Updated
  <2> QED
    BY <2>2, <2>3
<1> QED
  BY <1>1, <1>2 DEF RowsKept

\* Marking pending rows failed is sound.
LEMMA FailedRows ==
  ASSUME TypeOK, RowsOK, NEW S,
         \A i \in S \intersect DOMAIN outbox : outbox[i].status = "PENDING",
         outbox' = Updated(S, Failed)
  PROVE  RowsKept
<1>1. DOMAIN outbox' = DOMAIN outbox
  BY DEF Updated
<1>2. ASSUME NEW i \in DOMAIN outbox
      PROVE  /\ outbox'[i] \in Row /\ outbox'[i].event = outbox[i].event /\ RowOK(outbox'[i])
             /\ outbox[i].status = "SENT" => outbox'[i].status = "SENT"
  <2>1. outbox[i] \in Row /\ RowOK(outbox[i])
    BY DEF TypeOK, RowsOK
  <2>2. CASE i \in S
    <3>1. outbox'[i] = Failed(outbox[i]) /\ outbox[i].status = "PENDING"
      BY <2>2 DEF Updated
    <3>2. outbox[i].attempts < MaxRetries
      BY <2>1, <3>1 DEF RowOK
    <3> QED
      BY <2>1, <3>1, <3>2, FailedRow DEF RowOK
  <2>3. CASE i \notin S
    BY <2>1, <2>3 DEF Updated
  <2> QED
    BY <2>2, <2>3
<1> QED
  BY <1>1, <1>2 DEF RowsKept

\* Replaying rows of the DLQ is sound.
LEMMA ReplayedRows ==
  ASSUME TypeOK, RowsOK, NEW S \in SUBSET With("DLQ"), outbox' = Updated(S, Replayed)
  PROVE  RowsKept
<1>1. DOMAIN outbox' = DOMAIN outbox
  BY DEF Updated
<1>2. ASSUME NEW i \in DOMAIN outbox
      PROVE  /\ outbox'[i] \in Row /\ outbox'[i].event = outbox[i].event /\ RowOK(outbox'[i])
             /\ outbox[i].status = "SENT" => outbox'[i].status = "SENT"
  <2>1. outbox[i] \in Row /\ RowOK(outbox[i])
    BY DEF TypeOK, RowsOK
  <2>2. CASE i \in S
    <3>1. outbox'[i] = Replayed(outbox[i])
      BY <2>2 DEF Updated
    <3> QED
      BY <2>1, <2>2, <3>1, ReplayedRow, PipelineConstants DEF RowOK, With
  <2>3. CASE i \notin S
    BY <2>1, <2>3 DEF Updated
  <2> QED
    BY <2>2, <2>3
<1> QED
  BY <1>1, <1>2 DEF RowsKept

\* Whatever the verdict, marking rows of the awaited batch is sound.
LEMMA MarkedRows ==
  ASSUME IInv, flight # NoFlight, NEW S \in SUBSET flight.ids,
         NEW verdict \in Verdicts(flight.answer),
         outbox' = Marked(S, verdict)
  PROVE  RowsKept
<1>1. \A i \in S \intersect DOMAIN outbox :
        outbox[i].status = "PENDING" /\ outbox[i].event \in flight.request.events
  BY DEF IInv, FlightOK
<1>2. CASE verdict = "accepted"
  <2>1. flight.answer = "accepted"
    BY <1>2 DEF Verdicts
  <2>2. \A i \in S \intersect DOMAIN outbox : outbox[i].event \in stored
    BY <1>1, <2>1 DEF IInv, FlightOK
  <2>3. outbox' = Updated(S, Sent)
    BY <1>2 DEF Marked
  <2> QED
    BY <2>2, <2>3, SentRows DEF IInv
<1>3. CASE verdict # "accepted"
  <2>1. outbox' = Updated(S, Failed)
    BY <1>3 DEF Marked
  <2> QED
    BY <1>1, <2>1, FailedRows DEF IInv
<1> QED
  BY <1>2, <1>3

-----------------------------------------------------------------------------
(* Steps. *)

\* What a step that keeps the rows has to show of the rest.
RestOK ==
  /\ proc' \in {"down", "running", "stopping", "draining", "flushing"}
  /\ enabled' \in BOOLEAN /\ key' \in Key /\ device' \in Key
  /\ UNCHANGED <<recorded, lastId, stored, registered>>
  /\ late' \subseteq Request
  /\ \A r \in late' : \A e \in r.events : e.id <= recorded
  /\ flight' \in Flight \union {NoFlight}
  /\ flight' # NoFlight => \A e \in flight'.request.events : e.id <= recorded

\* A step that keeps the rows and the awaited batch keeps the invariant.
LEMMA KeptIInv ==
  ASSUME IInv, RowsKept, RestOK, FlightOK'
  PROVE  IInv'
<1>1. TypeOK'
  BY DEF IInv, TypeOK, RowsKept, RestOK
<1>2. Numbered'
  BY DEF IInv, Numbered, RowsKept, RestOK
<1>3. RowsOK'
  BY DEF RowsOK, RowsKept, RestOK, RowOK
<1>4. StoredBySigner'
  BY DEF IInv, StoredBySigner, RestOK
<1> QED
  BY <1>1, <1>2, <1>3, <1>4 DEF IInv

\* An abandoned request is a request, of recorded events.
LEMMA AbandonedOK ==
  ASSUME IInv, late' \in Abandoned
  PROVE  late' \subseteq Request /\ \A r \in late' : \A e \in r.events : e.id <= recorded
<1>1. late \subseteq Request /\ \A r \in late : \A e \in r.events : e.id <= recorded
  BY DEF IInv, TypeOK, Numbered
<1>2. CASE late' = late
  BY <1>1, <1>2
<1>3. CASE late' # late
  <2>1. flight # NoFlight /\ late' = late \union {flight.request}
    BY <1>3 DEF Abandoned
  <2>2. flight.request \in Request
    BY <2>1 DEF IInv, TypeOK, Flight
  <2>3. \A e \in flight.request.events : e.id <= recorded
    BY <2>1 DEF IInv, Numbered
  <2> QED
    BY <1>1, <2>1, <2>2, <2>3
<1> QED
  BY <1>2, <1>3

\* An export keeps the rows, and the batch it sends is in order.
LEMMA ExportKeeps ==
  ASSUME IInv, flight = NoFlight, Export(Oldest(Due, BatchSize)),
         UNCHANGED <<lastId, stored>>
  PROVE  /\ RowsKept
         /\ flight' \in Flight \union {NoFlight}
         /\ flight' # NoFlight => \A e \in flight'.request.events : e.id <= recorded
         /\ FlightOK'
<1> DEFINE ids == Oldest(Due, BatchSize)
<1>1. /\ ids \subseteq DOMAIN outbox
      /\ \A i \in ids : outbox[i].status = "PENDING"
  BY OldestSubset DEF Due, With
<1>2. CASE UNCHANGED <<outbox, flight>>
  BY <1>2 DEF IInv, TypeOK, RowsOK, RowsKept, FlightOK
<1>3. CASE outbox' = Updated(ids, Failed) /\ flight' = NoFlight
  BY <1>1, <1>3, FailedRows DEF IInv, FlightOK
<1>4. CASE /\ flight' = [ids |-> ids, answer |-> "none",
                         request |-> [device |-> device, key |-> key,
                                      events |-> {outbox[i].event : i \in ids}]]
           /\ UNCHANGED outbox
  <2> DEFINE request == [device |-> device, key |-> key,
                         events |-> {outbox[i].event : i \in ids}]
  <2>1. \A i \in ids : outbox[i] \in Row /\ outbox[i].event \in Event
    BY <1>1 DEF IInv, TypeOK, Row
  <2>2. request \in Request
    BY <2>1 DEF IInv, TypeOK, Request
  <2>3. ids \subseteq 1..lastId /\ ids \subseteq Nat
    BY <1>1 DEF IInv, TypeOK
  <2>4. flight' \in Flight
    BY <1>4, <2>2, <2>3 DEF Flight
  <2>5. \A e \in flight'.request.events : e.id <= recorded
    BY <1>1, <1>4 DEF IInv, Numbered
  <2>6. RowsKept
    BY <1>4 DEF IInv, TypeOK, RowsOK, RowsKept
  <2>7. FlightOK'
    BY <1>1, <1>4, <2>3 DEF FlightOK
  <2> QED
    BY <2>4, <2>5, <2>6, <2>7
<1> QED
  BY <1>2, <1>3, <1>4 DEF Export

\* The initial state satisfies the inductive invariant.
LEMMA InitIInv == Init => IInv
  BY PipelineConstants
  DEF Init, IInv, TypeOK, Numbered, FlightOK, RowsOK, StoredBySigner, Key

\* Recording an event takes a row id no batch and no row has.
LEMMA RecordKeeps ==
  ASSUME IInv, RecordEvent
  PROVE  IInv'
<1> DEFINE n == lastId + 1
<1> DEFINE new == [event |-> [id |-> recorded + 1, device |-> device, key |-> key],
                   status |-> "PENDING", attempts |-> 0, due |-> TRUE]
<1>1. /\ n \notin DOMAIN outbox /\ DOMAIN outbox \subseteq 1..lastId
      /\ n \in Nat /\ recorded + 1 \in 1..MaxEvents /\ recorded \in Nat /\ lastId \in Nat
  BY PipelineConstants DEF IInv, TypeOK, RecordEvent
<1>2. /\ recorded' = recorded + 1 /\ lastId' = n
      /\ UNCHANGED <<proc, enabled, key, device, flight, late, stored, registered>>
      /\ outbox' = [i \in DOMAIN outbox \union {n} |-> IF i = n THEN new ELSE outbox[i]]
  BY DEF RecordEvent, NextId, cloud
<1>3. /\ DOMAIN outbox' = DOMAIN outbox \union {n}
      /\ outbox'[n] = new
      /\ \A i \in DOMAIN outbox : outbox'[i] = outbox[i]
  BY <1>1, <1>2
<1>4. new \in Row
  BY <1>1 DEF IInv, TypeOK, Row, Event
<1>5. TypeOK'
  <2>1. DOMAIN outbox' \subseteq 1..lastId'
    BY <1>1, <1>2, <1>3
  <2>2. \A i \in DOMAIN outbox' : outbox'[i] \in Row
    BY <1>3, <1>4 DEF IInv, TypeOK
  <2>3. recorded' \in 0..MaxEvents /\ lastId' \in Nat
    BY <1>1, <1>2, PipelineConstants
  <2> QED
    BY <1>2, <2>1, <2>2, <2>3 DEF IInv, TypeOK
<1>6. Numbered'
  <2>1. \A x \in 1..MaxEvents : x <= recorded => x <= recorded'
    BY <1>1, <1>2
  <2>2. \A e \in Event : e.id <= recorded => e.id <= recorded'
    BY <2>1 DEF Event
  <2>3. new.event.id <= recorded'
    BY <1>1, <1>2
  <2>4. \A i \in DOMAIN outbox' : outbox'[i].event.id <= recorded'
    BY <1>3, <2>2, <2>3 DEF IInv, TypeOK, Numbered, Row
  <2>5. \A e \in stored : e.id <= recorded'
    BY <2>2 DEF IInv, TypeOK, Numbered
  <2>6. \A r \in late : \A e \in r.events : e.id <= recorded'
    BY <2>2 DEF IInv, TypeOK, Numbered, Request
  <2>7. flight # NoFlight => \A e \in flight.request.events : e.id <= recorded'
    BY <2>2 DEF IInv, TypeOK, Numbered, Flight, Request
  <2> QED
    BY <1>2, <2>4, <2>5, <2>6, <2>7 DEF Numbered
<1>7. FlightOK'
  <2> SUFFICES ASSUME flight # NoFlight
               PROVE  FlightOK'
    BY <1>2 DEF FlightOK
  <2>1. n \notin flight.ids /\ flight.ids \subseteq 1..n
    BY <1>1 DEF IInv, FlightOK
  <2> QED
    BY <1>2, <1>3, <2>1 DEF IInv, FlightOK
<1>8. RowsOK'
  BY <1>2, <1>3, PipelineConstants DEF IInv, RowsOK, RowOK
<1>9. StoredBySigner'
  BY <1>2 DEF IInv, StoredBySigner
<1> QED
  BY <1>5, <1>6, <1>7, <1>8, <1>9 DEF IInv

\* A replay touches no row of the awaited batch: those are PENDING.
LEMMA ReplayKeeps ==
  ASSUME IInv, ReplayDlq
  PROVE  IInv' /\ RowsKept
<1>1. PICK S \in SUBSET With("DLQ") : outbox' = Updated(S, Replayed)
  BY OldestSubset DEF ReplayDlq
<1>2. RowsKept
  BY <1>1, ReplayedRows DEF IInv
<1>3. UNCHANGED <<proc, enabled, key, device, recorded, lastId, flight, late, stored, registered>>
  BY DEF ReplayDlq, cloud
<1>4. FlightOK'
  <2> SUFFICES ASSUME flight # NoFlight
               PROVE  FlightOK'
    BY <1>3 DEF FlightOK
  <2>1. \A i \in flight.ids \intersect DOMAIN outbox : outbox'[i] = outbox[i]
    BY <1>1 DEF IInv, FlightOK, With, Updated
  <2> QED
    BY <1>2, <1>3, <2>1 DEF IInv, FlightOK, RowsKept
<1> QED
  BY <1>2, <1>3, <1>4, KeptIInv DEF IInv, TypeOK, Numbered, RestOK

\* Clearing the outbox or changing the key leaves nothing unsound behind.
LEMMA DeleteKeeps ==
  ASSUME IInv, DeleteIdentity
  PROVE  IInv'
<1>1. \/ outbox' = outbox
      \/ DOMAIN outbox' = {}
  BY DEF DeleteIdentity
<1>2. UNCHANGED <<proc, enabled, recorded, lastId, flight, late, stored, registered>>
  BY DEF DeleteIdentity, cloud
<1>3. key' \in Key /\ device' \in Key
  <2>1. key \in Key /\ device \in Key /\ (key < MaxKey => key + 1 \in Key)
    BY PipelineConstants DEF IInv, TypeOK, Key
  <2> QED
    BY <2>1 DEF DeleteIdentity
<1>4. TypeOK' /\ Numbered' /\ FlightOK'
  BY <1>1, <1>2, <1>3 DEF IInv, TypeOK, Numbered, FlightOK
<1>5. RowsOK' /\ StoredBySigner'
  BY <1>1, <1>2 DEF IInv, RowsOK, RowOK, StoredBySigner
<1> QED
  BY <1>4, <1>5 DEF IInv

\* The retention sweep removes rows and changes none.
LEMMA PurgeKeeps ==
  ASSUME IInv, Purge
  PROVE  IInv'
<1>1. /\ DOMAIN outbox' \subseteq DOMAIN outbox
      /\ \A i \in DOMAIN outbox' : outbox'[i] = outbox[i]
  BY DEF Purge
<1>2. UNCHANGED <<proc, enabled, key, device, recorded, lastId, flight, late, stored, registered>>
  BY DEF Purge, cloud
<1>3. TypeOK' /\ Numbered' /\ FlightOK'
  BY <1>1, <1>2 DEF IInv, TypeOK, Numbered, FlightOK
<1>4. RowsOK' /\ StoredBySigner'
  BY <1>1, <1>2 DEF IInv, RowsOK, RowOK, StoredBySigner
<1> QED
  BY <1>3, <1>4 DEF IInv

\* The end of a backoff changes one flag.
LEMMA BackoffKeeps ==
  ASSUME IInv, NEW i \in DOMAIN outbox, BackoffElapses(i)
  PROVE  IInv' /\ RowsKept
<1>1. /\ outbox' = [outbox EXCEPT ![i].due = TRUE]
      /\ UNCHANGED <<proc, enabled, key, device, recorded, lastId, flight, late, stored, registered>>
  BY DEF BackoffElapses, cloud
<1>2. \A j \in DOMAIN outbox :
        /\ outbox'[j] \in Row /\ outbox'[j].event = outbox[j].event
        /\ outbox'[j].status = outbox[j].status /\ outbox'[j].attempts = outbox[j].attempts
  BY <1>1 DEF IInv, TypeOK, Row
<1>3. RowsKept
  BY <1>1, <1>2 DEF IInv, RowsOK, RowOK, RowsKept
<1>4. FlightOK'
  BY <1>1, <1>2 DEF IInv, FlightOK
<1> QED
  BY <1>1, <1>3, <1>4, KeptIInv DEF IInv, TypeOK, Numbered, RestOK

\* The two actions that export preserve the invariant.
LEMMA ExporterKeeps ==
  ASSUME IInv, LoopExport \/ Flush
  PROVE  IInv' /\ RowsKept
<1>1. /\ flight = NoFlight /\ Export(Oldest(Due, BatchSize))
      /\ UNCHANGED <<enabled, key, device, recorded, lastId, late, stored, registered>>
      /\ proc' \in {"down", "running", "draining", "flushing"}
  BY DEF LoopExport, Flush, cloud
<1>2. /\ RowsKept /\ FlightOK'
      /\ flight' \in Flight \union {NoFlight}
      /\ flight' # NoFlight => \A e \in flight'.request.events : e.id <= recorded
  BY <1>1, ExportKeeps
<1>3. RestOK
  BY <1>1, <1>2 DEF RestOK, IInv, TypeOK, Numbered
<1> QED
  BY <1>2, <1>3, KeptIInv

\* Concluding a batch, whatever its verdict, preserves it.
LEMMA ConcludeKeeps ==
  ASSUME IInv, Conclude
  PROVE  IInv' /\ RowsKept
<1>1. PICK verdict \in Verdicts(flight.answer) : outbox' = Marked(flight.ids, verdict)
  BY DEF Conclude
<1>2. flight # NoFlight
  BY DEF Conclude
<1>3. RowsKept
  BY <1>1, <1>2, MarkedRows
<1>4. late' \subseteq Request /\ \A r \in late' : \A e \in r.events : e.id <= recorded
  BY AbandonedOK DEF Conclude
<1>5. RestOK
  BY <1>4 DEF Conclude, RestOK, IInv, TypeOK, cloud
<1>6. FlightOK'
  BY DEF Conclude, FlightOK
<1> QED
  BY <1>3, <1>5, <1>6, KeptIInv

\* A crash preserves it, however many rows were marked.
LEMMA CrashKeeps ==
  ASSUME IInv, Crash
  PROVE  IInv' /\ RowsKept
<1>1. ASSUME UNCHANGED outbox
      PROVE  RowsKept
  BY <1>1 DEF IInv, TypeOK, RowsOK, RowsKept
<1>2. ASSUME flight # NoFlight,
             NEW verdict \in Verdicts(flight.answer), NEW n \in 1..BatchSize,
             outbox' = Marked(Oldest(flight.ids, n), verdict)
      PROVE  RowsKept
  <2>1. Oldest(flight.ids, n) \in SUBSET flight.ids
    BY OldestSubset
  <2> QED
    BY <1>2, <2>1, MarkedRows
<1>3. RowsKept
  BY <1>1, <1>2 DEF Crash
<1>4. late' \subseteq Request /\ \A r \in late' : \A e \in r.events : e.id <= recorded
  BY AbandonedOK DEF Crash
<1>5. RestOK
  BY <1>4 DEF Crash, RestOK, IInv, TypeOK, cloud
<1>6. FlightOK'
  BY DEF Crash, FlightOK
<1> QED
  BY <1>3, <1>5, <1>6, KeptIInv

\* SetEnabled, LoopEnds, Start and Stop leave everything but proc and enabled alone.
LEMMA ControlKeeps ==
  ASSUME IInv, SetEnabled \/ LoopEnds \/ Start \/ Stop
  PROVE  IInv'
<1>1. /\ UNCHANGED <<key, device, recorded, lastId, outbox, flight, late, stored, registered>>
      /\ proc' \in {"down", "running", "stopping", "draining", "flushing"}
  BY DEF SetEnabled, LoopEnds, Start, Stop, cloud, IInv, TypeOK
<1>2. enabled' \in BOOLEAN
  BY DEF SetEnabled, LoopEnds, Start, Stop, IInv, TypeOK
<1>3. RowsKept /\ FlightOK'
  BY <1>1 DEF IInv, TypeOK, RowsOK, RowsKept, FlightOK
<1>4. RestOK
  BY <1>1, <1>2 DEF RestOK, IInv, TypeOK, Numbered
<1> QED
  BY <1>3, <1>4, KeptIInv

\* The cloud stores only events of the key it has on record.
LEMMA IngestKeeps ==
  ASSUME IInv, NEW r \in Request, Ingest(r), \A e \in r.events : e.id <= recorded
  PROVE  /\ stored \subseteq stored' /\ r.events \subseteq stored'
         /\ stored' \subseteq Event
         /\ registered' \in [Key -> Key \union {0}]
         /\ \A e \in stored' : e.id <= recorded
         /\ StoredBySigner'
<1>1. /\ stored' = stored \union r.events
      /\ registered' = [registered EXCEPT ![r.device] = r.key]
      /\ r.device \in Key /\ r.key \in Key /\ r.events \subseteq Event
  BY DEF Ingest, Request
<1>2. registered' \in [Key -> Key \union {0}]
  BY <1>1 DEF IInv, TypeOK
<1>3. \A e \in stored : registered'[e.device] = e.key
  <2> SUFFICES ASSUME NEW e \in stored
               PROVE  registered'[e.device] = e.key
    OBVIOUS
  <2>1. e \in Event /\ registered[e.device] = e.key /\ registered \in [Key -> Key \union {0}]
    BY DEF IInv, TypeOK, StoredBySigner
  <2>2. e.device \in Key /\ e.key \in Key /\ e.key # 0
    BY <2>1, PipelineConstants DEF Event, Key
  <2>3. registered[r.device] \in {0, r.key}
    BY DEF Ingest, Authentic
  <2> QED
    BY <1>1, <2>1, <2>2, <2>3
<1>4. \A e \in r.events : registered'[e.device] = e.key
  BY <1>1 DEF Ingest, Authentic, IInv, TypeOK
<1> QED
  BY <1>1, <1>2, <1>3, <1>4 DEF IInv, TypeOK, Numbered, StoredBySigner

\* The cloud's answers, in time or late, preserve the invariant.
LEMMA CloudKeeps ==
  ASSUME IInv, CloudAnswers \/ CloudReceivesLate
  PROVE  IInv'
<1>1. UNCHANGED <<proc, enabled, key, device, recorded, lastId, outbox>>
  BY DEF CloudAnswers, CloudReceivesLate, edge
<1>2. late' \subseteq late
  BY DEF CloudAnswers, CloudReceivesLate
<1>3. /\ stored \subseteq stored' /\ stored' \subseteq Event
      /\ registered' \in [Key -> Key \union {0}]
      /\ \A e \in stored' : e.id <= recorded
      /\ StoredBySigner'
  <2>1. CASE UNCHANGED <<stored, registered>>
    BY <2>1 DEF IInv, TypeOK, Numbered, StoredBySigner
  <2>2. CASE CloudAnswers /\ Ingest(flight.request)
    <3>1. flight.request \in Request /\ \A e \in flight.request.events : e.id <= recorded
      BY <2>2 DEF CloudAnswers, IInv, TypeOK, Numbered, Flight
    <3> QED
      BY <2>2, <3>1, IngestKeeps
  <2>3. CASE \E r \in late : Ingest(r)
    <3>1. PICK r \in late : Ingest(r)
      BY <2>3
    <3>2. r \in Request /\ \A e \in r.events : e.id <= recorded
      BY DEF IInv, TypeOK, Numbered
    <3> QED
      BY <3>1, <3>2, IngestKeeps
  <2> QED
    BY <2>1, <2>2, <2>3 DEF CloudAnswers, CloudReceivesLate, cloud
<1>4. /\ flight' \in Flight \union {NoFlight}
      /\ flight' # NoFlight =>
           /\ flight # NoFlight
           /\ flight'.ids = flight.ids /\ flight'.request = flight.request
           /\ flight'.answer = "accepted" => flight.request.events \subseteq stored'
  <2>1. CASE CloudReceivesLate
    BY <1>3, <2>1 DEF CloudReceivesLate, edge, IInv, TypeOK, FlightOK
  <2>2. CASE CloudAnswers
    <3>1. flight # NoFlight /\ flight \in Flight
      BY <2>2 DEF CloudAnswers, IInv, TypeOK
    <3>2. PICK answer \in {"accepted", "refused"} :
            /\ flight' = [flight EXCEPT !.answer = answer]
            /\ answer = "accepted" => Ingest(flight.request)
      BY <2>2 DEF CloudAnswers
    <3>3. flight' = [ids |-> flight.ids, request |-> flight.request, answer |-> answer]
      BY <3>1, <3>2 DEF Flight
    <3>4. flight' \in Flight
      BY <3>1, <3>3 DEF Flight
    <3>5. answer = "accepted" => flight.request.events \subseteq stored'
      BY <3>2 DEF Ingest
    <3> QED
      BY <3>1, <3>3, <3>4, <3>5
  <2> QED
    BY <2>1, <2>2
<1>5. FlightOK'
  BY <1>1, <1>4 DEF IInv, FlightOK
<1>6. TypeOK' /\ Numbered'
  BY <1>1, <1>2, <1>3, <1>4 DEF IInv, TypeOK, Numbered
<1>7. RowsOK'
  BY <1>1, <1>3 DEF IInv, RowsOK, RowOK
<1> QED
  BY <1>3, <1>5, <1>6, <1>7 DEF IInv

\* Every step preserves the inductive invariant.
LEMMA StepIInv == IInv /\ [Next]_vars => IInv'
<1> SUFFICES ASSUME IInv, [Next]_vars
             PROVE  IInv'
  OBVIOUS
<1>1. CASE UNCHANGED vars
  BY <1>1 DEF vars, edge, cloud, IInv, TypeOK, Numbered, FlightOK, RowsOK, RowOK, StoredBySigner
<1>2. CASE Next
  BY <1>2, RecordKeeps, ReplayKeeps, DeleteKeeps, PurgeKeeps, BackoffKeeps, ExporterKeeps,
     ConcludeKeeps, CrashKeeps, ControlKeeps, CloudKeeps DEF Next
<1> QED
  BY <1>1, <1>2

-----------------------------------------------------------------------------
(* Theorems. *)

\* IInv holds in every reachable state.
THEOREM Inductive == Spec => []IInv
  BY InitIInv, StepIInv, PTL DEF Spec

\* Type correctness.
THEOREM TypeCorrect == Spec => []TypeOK
<1>1. IInv => TypeOK
  BY DEF IInv
<1> QED
  BY <1>1, Inductive, PTL

\* A SENT row holds an event the cloud has.
THEOREM SentStored == Spec => []SentIsStored
<1>1. IInv => SentIsStored
  BY DEF IInv, RowsOK, RowOK, SentIsStored, With
<1> QED
  BY <1>1, Inductive, PTL

\* PENDING rows have attempts left, DLQ rows have used all of them.
THEOREM RetriesAreCounted == Spec => []RetriesCounted
<1>1. IInv => RetriesCounted
  BY DEF IInv, RowsOK, RowOK, RetriesCounted, With
<1> QED
  BY <1>1, Inductive, PTL

\* Every stored event was signed by the key on record for its device.
THEOREM StoredBySignerAlways == Spec => []StoredBySigner
<1>1. IInv => StoredBySigner
  BY DEF IInv
<1> QED
  BY <1>1, Inductive, PTL

-----------------------------------------------------------------------------
(* What becomes of a row. *)

\* One step of a row.
Progress(row, next) ==
  /\ next.event = row.event
  /\ row.status = "SENT" => next = row
  /\ row.status = "DLQ" => next = row
  /\ row.status = "PENDING" => next.attempts \in {row.attempts, row.attempts + 1}

Stays(i) == i \in DOMAIN outbox /\ i \in DOMAIN outbox'

\* mark_sent and mark_failed, for a waiting row.
LEMMA MarkedRow ==
  ASSUME NEW row \in Row, row.status = "PENDING"
  PROVE  /\ Progress(row, Sent(row)) /\ Progress(row, Failed(row))
         /\ Failed(row).attempts = row.attempts + 1
<1>1. Failed(row).attempts = row.attempts + 1 /\ Failed(row).event = row.event
  BY DEF Failed, Row
<1>2. Sent(row).attempts = row.attempts /\ Sent(row).event = row.event
  BY DEF Sent, Row
<1> QED
  BY <1>1, <1>2 DEF Progress

\* The rows a verdict marks are waiting ones, whatever happened while the answer
\* was awaited; each of them is sent or has one attempt less to go.
LEMMA MarkedProgress ==
  ASSUME IInv, flight # NoFlight, NEW S \in SUBSET flight.ids,
         NEW verdict \in Verdicts(flight.answer), outbox' = Marked(S, verdict),
         NEW i, Stays(i)
  PROVE  /\ Progress(outbox[i], outbox'[i])
         /\ i \in S => /\ outbox[i].status = "PENDING"
                       /\ \/ outbox'[i].status = "SENT"
                          \/ outbox'[i].attempts = outbox[i].attempts + 1
<1>1. outbox[i] \in Row
  BY DEF Stays, IInv, TypeOK
<1>2. CASE i \in S
  <2>1. outbox[i].status = "PENDING"
    BY <1>2 DEF Stays, IInv, FlightOK
  <2>2. outbox'[i] = Sent(outbox[i]) \/ outbox'[i] = Failed(outbox[i])
    BY <1>2 DEF Stays, Marked, Updated
  <2> QED
    BY <1>1, <2>1, <2>2, MarkedRow, SentRow
<1>3. CASE i \notin S
  <2>1. outbox'[i] = outbox[i]
    BY <1>3 DEF Stays, Marked, Updated
  <2> QED
    BY <1>3, <2>1 DEF Progress
<1> QED
  BY <1>2, <1>3

\* The rows that an export without a request marks are waiting ones, too.
LEMMA ExportProgress ==
  ASSUME IInv, Export(Oldest(Due, BatchSize)), NEW i, Stays(i)
  PROVE  Progress(outbox[i], outbox'[i])
<1>1. outbox[i] \in Row
  BY DEF Stays, IInv, TypeOK
<1>2. \/ outbox'[i] = outbox[i]
      \/ outbox[i].status = "PENDING" /\ outbox'[i] = Failed(outbox[i])
  BY OldestSubset DEF Stays, Export, Updated, Due, With
<1> QED
  BY <1>1, <1>2, MarkedRow DEF Progress

\* One step: a row only makes progress, or is replayed.
LEMMA RowStep ==
  ASSUME IInv, Next, NEW i, Stays(i)
  PROVE  /\ outbox'[i].event = outbox[i].event
         /\ outbox[i].status = "SENT" => outbox'[i] = outbox[i]
         /\ outbox[i].status = "DLQ" => outbox'[i] = outbox[i] \/ ReplayDlq
         /\ outbox[i].status = "PENDING" =>
              outbox'[i].attempts \in {outbox[i].attempts, outbox[i].attempts + 1}
<1>1. outbox[i] \in Row
  BY DEF Stays, IInv, TypeOK
<1>2. CASE ReplayDlq
  <2>1. PICK S \in SUBSET With("DLQ") : outbox' = Updated(S, Replayed)
    BY <1>2, OldestSubset DEF ReplayDlq
  <2>2. \/ outbox'[i] = outbox[i]
        \/ outbox[i].status = "DLQ" /\ outbox'[i] = Replayed(outbox[i])
    BY <2>1 DEF Stays, Updated, With
  <2> QED
    BY <1>1, <1>2, <2>2, ReplayedRow
<1>3. CASE Conclude
  <2>1. flight.ids \in SUBSET flight.ids
    OBVIOUS
  <2> QED
    BY <1>3, <2>1, MarkedProgress DEF Conclude, Progress
<1>4. CASE Crash
  <2>1. CASE UNCHANGED outbox
    BY <2>1
  <2>2. ASSUME flight # NoFlight,
               NEW verdict \in Verdicts(flight.answer), NEW n \in 1..BatchSize,
               outbox' = Marked(Oldest(flight.ids, n), verdict)
        PROVE  Progress(outbox[i], outbox'[i])
    <3>1. Oldest(flight.ids, n) \in SUBSET flight.ids
      BY OldestSubset
    <3> QED
      BY <2>2, <3>1, MarkedProgress
  <2> QED
    BY <1>4, <2>1, <2>2 DEF Crash, Progress
<1>5. CASE LoopExport \/ Flush
  BY <1>5, ExportProgress DEF LoopExport, Flush, Progress
<1>6. CASE \E j \in DOMAIN outbox : BackoffElapses(j)
  <2>1. \/ outbox'[i] = outbox[i]
        \/ outbox[i].status = "PENDING" /\ outbox'[i] = [outbox[i] EXCEPT !.due = TRUE]
    BY <1>6 DEF BackoffElapses, Stays, With
  <2> QED
    BY <1>1, <2>1 DEF Row
<1>7. CASE RecordEvent
  <2>1. i # lastId + 1
    BY PipelineConstants DEF Stays, IInv, TypeOK
  <2> QED
    BY <1>7, <2>1 DEF RecordEvent, NextId, Stays
<1>8. CASE \/ SetEnabled \/ DeleteIdentity \/ Purge \/ LoopEnds \/ Start \/ Stop
           \/ CloudAnswers \/ CloudReceivesLate
  BY <1>8 DEF SetEnabled, DeleteIdentity, Purge, LoopEnds, Start, Stop, CloudAnswers,
              CloudReceivesLate, edge, Stays
<1> QED
  BY <1>2, <1>3, <1>4, <1>5, <1>6, <1>7, <1>8 DEF Next

\* The marks never hit a row that is sent, buried or another event's.
THEOREM RowsProgress == Spec => RowsOnlyProgress
<1>1. IInv /\ [Next]_vars =>
        [\A i \in DOMAIN outbox \intersect DOMAIN outbox' :
           LET row == outbox[i]
               next == outbox'[i]
           IN  /\ next.event = row.event
               /\ row.status = "SENT" => next = row
               /\ row.status = "DLQ" => next = row \/ ReplayDlq
               /\ row.status = "PENDING" =>
                    next.attempts \in {row.attempts, row.attempts + 1}]_vars
  BY RowStep DEF Stays
<1> QED
  BY <1>1, Inductive, PTL DEF Spec, RowsOnlyProgress

\* No request is in vain: when it is over, each of its rows that still exists was
\* waiting, and is sent now or has one attempt less to go.  So between two
\* replays a row takes part in at most MaxRetries requests that end.
EveryBatchCounts ==
  [][Conclude => \A i \in flight.ids \intersect DOMAIN outbox :
       /\ outbox[i].status = "PENDING"
       /\ \/ outbox'[i].status = "SENT"
          \/ outbox'[i].attempts = outbox[i].attempts + 1]_vars

\* Every request that ends moves each of its rows on, so MaxRetries of them are
\* the most a row takes part in between two replays.
THEOREM BatchesCount == Spec => EveryBatchCounts
<1>1. IInv /\ [Next]_vars =>
        [Conclude => \A i \in flight.ids \intersect DOMAIN outbox :
           /\ outbox[i].status = "PENDING"
           /\ \/ outbox'[i].status = "SENT"
              \/ outbox'[i].attempts = outbox[i].attempts + 1]_vars
  <2> SUFFICES ASSUME IInv, Conclude, NEW i \in flight.ids \intersect DOMAIN outbox
               PROVE  /\ outbox[i].status = "PENDING"
                      /\ \/ outbox'[i].status = "SENT"
                         \/ outbox'[i].attempts = outbox[i].attempts + 1
    OBVIOUS
  <2>1. PICK verdict \in Verdicts(flight.answer) : outbox' = Marked(flight.ids, verdict)
    BY DEF Conclude
  <2>2. Stays(i) /\ flight.ids \in SUBSET flight.ids /\ flight # NoFlight
    BY <2>1 DEF Stays, Marked, Updated, Conclude
  <2> QED
    BY <2>1, <2>2, MarkedProgress
<1> QED
  BY <1>1, Inductive, PTL DEF Spec, EveryBatchCounts

-----------------------------------------------------------------------------
(* The refinement. *)

Held == {outbox[i].event.id : i \in DOMAIN outbox \ With("SENT")}
Delivered == {e.id : e \in stored}

\* The device holds recorded events only.
LEMMA HeldAccepted == IInv => Held \subseteq 1..recorded
<1> SUFFICES ASSUME IInv, NEW i \in DOMAIN outbox
             PROVE  outbox[i].event.id \in 1..recorded
  BY DEF Held
<1>1. outbox[i].event.id \in 1..MaxEvents /\ outbox[i].event.id <= recorded
  BY DEF IInv, TypeOK, Numbered, Row, Event
<1> QED
  BY <1>1, PipelineConstants DEF IInv, TypeOK

\* The rows a step marks SENT hold delivered events, which are let go.
LEMMA KeptSettles ==
  ASSUME IInv, RowsKept, UNCHANGED <<recorded, stored>>
  PROVE  Promise!Next
<1>0. PICK S : S = Held \ Held'
  OBVIOUS
<1>1. Held' \subseteq Held
  BY DEF Held, With, RowsKept
<1>2. S \subseteq Delivered
  BY <1>0 DEF Held, With, Delivered, RowsKept, RowOK
<1>3. S \in SUBSET (1..recorded)
  BY <1>0, HeldAccepted
<1>4. Promise!Settle(S)
  BY <1>0, <1>1, <1>2 DEF Promise!Settle, Held, Delivered
<1> QED
  BY <1>3, <1>4 DEF Promise!Next

\* Recording an event is Accept of the abstract specification.
LEMMA RecordAccepts ==
  ASSUME IInv, RecordEvent
  PROVE  Promise!Next
<1> DEFINE n == lastId + 1
<1>1. n \notin DOMAIN outbox /\ recorded + 1 \in 1..MaxEvents /\ recorded \in Nat
  BY PipelineConstants DEF IInv, TypeOK, RecordEvent
<1>2. /\ DOMAIN outbox' = DOMAIN outbox \union {n}
      /\ outbox'[n].event.id = recorded + 1 /\ outbox'[n].status = "PENDING"
      /\ \A i \in DOMAIN outbox : outbox'[i] = outbox[i]
      /\ recorded' = recorded + 1 /\ stored' = stored
  BY <1>1 DEF RecordEvent, NextId, cloud
<1>3. Held' = Held \union {recorded + 1}
  BY <1>1, <1>2 DEF Held, With
<1>4. 1..recorded' = (1..recorded) \union {recorded + 1} /\ recorded + 1 \notin 1..recorded
  BY <1>1, <1>2
<1>5. PICK e : e = recorded + 1
  OBVIOUS
<1>6. Promise!Accept(e)
  BY <1>2, <1>3, <1>4, <1>5 DEF Promise!Accept, Held, Delivered
<1> QED
  BY <1>1, <1>5, <1>6 DEF Promise!Next

\* An ingested batch is Deliver, or nothing at all.
LEMMA CloudDelivers ==
  ASSUME IInv, CloudAnswers \/ CloudReceivesLate
  PROVE  Promise!Next
<1>0. PICK S : S = Delivered' \ Delivered
  OBVIOUS
<1>1. IInv'
  BY CloudKeeps
<1>2. UNCHANGED <<recorded, outbox>>
  BY DEF CloudAnswers, CloudReceivesLate, edge
<1>3. stored \subseteq stored'
  BY DEF CloudAnswers, CloudReceivesLate, Ingest, cloud
<1>4. S \in SUBSET (1..recorded)
  <2>1. \A e \in stored' : e.id \in 1..MaxEvents /\ e.id <= recorded
    BY <1>1, <1>2 DEF IInv, TypeOK, Numbered, Event
  <2> QED
    BY <1>0, <2>1, PipelineConstants DEF Delivered, IInv, TypeOK
<1>5. Promise!Deliver(S)
  BY <1>0, <1>2, <1>3 DEF Promise!Deliver, Held, Delivered, With
<1> QED
  BY <1>4, <1>5 DEF Promise!Next

\* Every step is a step of the abstract specification or a stutter.
LEMMA StepRefines == IInv /\ [Next]_vars => [Promise!Next]_(Promise!vars)
<1> SUFFICES ASSUME IInv, [Next]_vars
             PROVE  Promise!Next \/ UNCHANGED Promise!vars
  OBVIOUS
<1>1. CASE UNCHANGED vars
  BY <1>1 DEF vars, edge, cloud, With, Promise!vars
<1>2. CASE RecordEvent
  BY <1>2, RecordAccepts
<1>3. CASE CloudAnswers \/ CloudReceivesLate
  BY <1>3, CloudDelivers
<1>4. CASE DeleteIdentity
  <2>1. UNCHANGED <<recorded, stored>> /\ (outbox' = outbox \/ DOMAIN outbox' = {})
    BY <1>4 DEF DeleteIdentity, cloud
  <2>2. CASE outbox' = outbox
    BY <2>1, <2>2 DEF With, Promise!vars
  <2>3. CASE DOMAIN outbox' = {}
    BY <2>1, <2>3 DEF With, Promise!Wipe, Promise!Next
  <2> QED
    BY <2>1, <2>2, <2>3
<1>5. CASE Purge
  <2>1. PICK S \in SUBSET With("SENT") : outbox' = [i \in DOMAIN outbox \ S |-> outbox[i]]
    BY <1>5 DEF Purge
  <2>2. Held' = Held
    BY <2>1 DEF Held, With
  <2> QED
    BY <1>5, <2>2 DEF Purge, cloud, Held, Promise!vars
<1>6. CASE RowsKept /\ UNCHANGED <<recorded, stored>>
  BY <1>6, KeptSettles
<1>7. CASE ReplayDlq
  BY <1>6, <1>7, ReplayKeeps DEF ReplayDlq, cloud
<1>8. CASE SetEnabled \/ LoopEnds \/ Start \/ Stop
  BY <1>8 DEF SetEnabled, LoopEnds, Start, Stop, cloud, With, Promise!vars
<1>9. CASE \E i \in DOMAIN outbox : BackoffElapses(i)
  BY <1>6, <1>9, BackoffKeeps DEF BackoffElapses, cloud
<1>10. CASE LoopExport \/ Flush
  BY <1>6, <1>10, ExporterKeeps DEF LoopExport, Flush, cloud
<1>11. CASE Conclude
  BY <1>6, <1>11, ConcludeKeeps DEF Conclude, cloud
<1>12. CASE Crash
  BY <1>6, <1>12, CrashKeeps DEF Crash, cloud
<1> QED
  BY <1>1, <1>2, <1>3, <1>4, <1>5, <1>7, <1>8, <1>9, <1>10, <1>11, <1>12 DEF Next

\* The pipeline implements the outbox's promise: an event is held until the
\* cloud has it or the user wipes the outbox.
THEOREM Refinement == Spec => NoEventLost
<1>1. Init => Promise!Init
  BY DEF Init, With, Promise!Init
<1>2. IInv /\ [Next]_vars => [Promise!Next]_(Promise!vars)
  BY StepRefines
<1> QED
  BY <1>1, <1>2, Inductive, PTL DEF Spec, NoEventLost, Promise!Spec

=============================================================================
