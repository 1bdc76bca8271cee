--------------------------- MODULE TelemetryPipeline ---------------------------
(***************************************************************************)
(* The way of a telemetry event from the edge service to the cloud: the    *)
(* durable outbox (services/storage/repo_outbox.py), the exporter and its  *)
(* background loop (services/telemetry/exporter.py, runtime.py), the       *)
(* device identity that signs it (services/security/device_binding.py),    *)
(* and the cloud's ingest endpoint (cloud/api/ingest_router.py).           *)
(*                                                                         *)
(* The exporter awaits the answer to one request at a time; every other    *)
(* handler runs between the request and the answer.  A timeout, a lost     *)
(* answer and an answer 500 look the same to the exporter, and a request   *)
(* it gave up may still reach the cloud.  The process may crash between    *)
(* any two commits.                                                        *)
(*                                                                         *)
(* A keypair is a number; the device id derived from it is the same        *)
(* number.  A signature is the key that made it.  The backoff is a flag    *)
(* the passing of time sets.                                               *)
(***************************************************************************)
EXTENDS Naturals, FiniteSets

CONSTANTS
  BatchSize,         \* TELEMETRY_BATCH_SIZE
  MaxRetries,        \* TELEMETRY_MAX_RETRIES
  NoFlight,          \* the exporter awaits nothing
  MaxEvents,         \* bound: events recorded
  MaxKey,            \* bound: keypairs generated
  MaxLate            \* bound: abandoned requests still on their way

ASSUME PipelineConstants ==
  /\ BatchSize \in Nat \ {0} /\ MaxRetries \in Nat \ {0}
  /\ MaxEvents \in Nat /\ MaxKey \in Nat \ {0} /\ MaxLate \in Nat

VARIABLES
  proc,              \* the edge process, from start to shutdown
  enabled,           \* TelemetryRuntime.enabled, in memory only
  key, device,       \* the keypair, and the id stored in device_id.json
  recorded,          \* events recorded so far, which numbers them
  lastId,            \* sqlite_sequence: the highest row id handed out
  outbox,            \* outbox_events, by row id
  flight,            \* the request the exporter awaits, and its rows
  late,              \* abandoned requests
  stored, registered \* the cloud's events, and the key it has for a device

edge == <<proc, enabled, key, device, recorded, lastId, outbox, flight>>
cloud == <<stored, registered>>
vars == <<edge, late, cloud>>

Key == 1..MaxKey
Event == [id : 1..MaxEvents, device : Key, key : Key]
Row == [event : Event, status : {"PENDING", "SENT", "DLQ"},
        attempts : Nat, due : BOOLEAN]
Request == [device : Key, key : Key, events : SUBSET Event]
Flight == [ids : SUBSET Nat, request : Request,
           answer : {"none", "accepted", "refused"}]

TypeOK ==
  /\ proc \in {"down", "running", "stopping", "draining", "flushing"}
  /\ enabled \in BOOLEAN
  /\ key \in Key /\ device \in Key
  /\ recorded \in 0..MaxEvents /\ lastId \in Nat
  /\ DOMAIN outbox \subseteq 1..lastId
  /\ \A i \in DOMAIN outbox : outbox[i] \in Row
  /\ flight \in Flight \union {NoFlight}
  /\ late \subseteq Request
  /\ stored \subseteq Event
  /\ registered \in [Key -> Key \union {0}]

Init ==
  /\ proc = "down" /\ enabled = TRUE
  /\ key = 1 /\ device = 1
  /\ recorded = 0 /\ lastId = 0 /\ outbox = [i \in {} |-> 0]
  /\ flight = NoFlight /\ late = {}
  /\ stored = {} /\ registered = [d \in Key |-> 0]

-----------------------------------------------------------------------------
(* Outbox rows. *)

With(status) == {i \in DOMAIN outbox : outbox[i].status = status}
Due == {i \in With("PENDING") : outbox[i].due}

\* ORDER BY created_at ASC LIMIT n: row ids grow with created_at.
Oldest(S, n) == {i \in S : Cardinality({j \in S : j < i}) < n}

\* Mutant: a replayed row keeps its attempts.
ReplayedMutant(row) == [row EXCEPT !.status = "PENDING", !.due = TRUE]

\* UPDATE ... WHERE id IN S; an id whose row was deleted meanwhile is skipped.
Updated(S, Change(_)) ==
  [i \in DOMAIN outbox |-> IF i \in S THEN Change(outbox[i]) ELSE outbox[i]]

Sent(row) == [row EXCEPT !.status = "SENT"]

\* Mutants: the attempts are counted but never run out; a status of its own
\* for a failed row.
FailedForeverMutant(row) == [row EXCEPT !.attempts = 1, !.due = FALSE]
FailedStatusMutant(row) == [row EXCEPT !.attempts = @ + 1, !.status = "FAILED"]

Failed(row) ==
  IF row.attempts + 1 >= MaxRetries
  THEN [row EXCEPT !.attempts = @ + 1, !.status = "DLQ"]
  ELSE [row EXCEPT !.attempts = @ + 1, !.due = FALSE]

Replayed(row) == [row EXCEPT !.status = "PENDING", !.attempts = 0, !.due = TRUE]

-----------------------------------------------------------------------------
(* Handlers of the edge service. *)

\* Mutant: INTEGER PRIMARY KEY without AUTOINCREMENT, which hands out the
\* ids of a cleared table again.
NextIdMutant == Cardinality(DOMAIN outbox) + 1

NextId == lastId + 1

\* TelemetryExporter.add_event: the event takes the present device id and is
\* signed with the present key.
RecordEvent ==
  /\ proc = "running" /\ enabled
  /\ recorded < MaxEvents
  /\ recorded' = recorded + 1
  /\ lastId' = NextId
  /\ outbox' = [i \in DOMAIN outbox \union {NextId} |->
                  IF i = NextId
                  THEN [event |-> [id |-> recorded + 1, device |-> device, key |-> key],
                        status |-> "PENDING", attempts |-> 0, due |-> TRUE]
                  ELSE outbox[i]]
  /\ UNCHANGED <<proc, enabled, key, device, flight, late, cloud>>

SetEnabled ==
  /\ proc = "running"
  /\ enabled' = ~enabled
  /\ UNCHANGED <<proc, key, device, recorded, lastId, outbox, flight, late, cloud>>

\* Mutant: a row replayed by its id need not be in the DLQ.
ReplayDlqMutant ==
  /\ proc = "running"
  /\ \E S \in {{i} : i \in DOMAIN outbox} \union {Oldest(With("DLQ"), n) : n \in 1..MaxEvents} :
       S # {} /\ outbox' = Updated(S, Replayed)
  /\ UNCHANGED <<proc, enabled, key, device, recorded, lastId, flight, late, cloud>>

\* POST /admin/outbox/replay-dlq: one row by id, or the oldest up to a limit.
ReplayDlq ==
  /\ proc = "running"
  /\ \E S \in {{i} : i \in With("DLQ")} \union {Oldest(With("DLQ"), n) : n \in 1..MaxEvents} :
       S # {} /\ outbox' = Updated(S, Replayed)
  /\ UNCHANGED <<proc, enabled, key, device, recorded, lastId, flight, late, cloud>>

\* The outbox and keypair steps of delete_identity.  Each is tried on its
\* own: the outbox is kept when the caller asks for it or the DELETE fails,
\* and the new keypair can be stored without its device id.
DeleteIdentity ==
  /\ proc = "running"
  /\ \E cleared \in BOOLEAN, rekeyed \in {"no", "keypair", "keypair and id"} :
       /\ outbox' = IF cleared THEN [i \in {} |-> 0] ELSE outbox
       /\ rekeyed # "no" => key < MaxKey
       /\ key' = IF rekeyed = "no" THEN key ELSE key + 1
       /\ device' = IF rekeyed = "keypair and id" THEN key + 1 ELSE device
  /\ UNCHANGED <<proc, enabled, recorded, lastId, flight, late, cloud>>

BackoffElapses(i) ==
  /\ i \in With("PENDING") /\ ~outbox[i].due
  /\ outbox' = [outbox EXCEPT ![i].due = TRUE]
  /\ UNCHANGED <<proc, enabled, key, device, recorded, lastId, flight, late, cloud>>

\* The retention sweep deletes rows sent long enough ago.
Purge ==
  /\ proc \in {"running", "stopping"} /\ flight = NoFlight
  /\ \E S \in SUBSET With("SENT") \ {{}} :
       outbox' = [i \in DOMAIN outbox \ S |-> outbox[i]]
  /\ UNCHANGED <<proc, enabled, key, device, recorded, lastId, flight, late, cloud>>

-----------------------------------------------------------------------------
(***************************************************************************)
(* The exporter.  The loop exports full batches only; the flush at         *)
(* shutdown exports one batch, full or not.  A batch with an event of      *)
(* another device id is not sent: all its rows are marked failed.          *)
(***************************************************************************)

Export(ids) ==
  IF ids = {} THEN UNCHANGED <<outbox, flight>>
  ELSE IF \E i \in ids : outbox[i].event.device # device
  THEN /\ outbox' = Updated(ids, Failed)
       /\ flight' = NoFlight
  ELSE /\ flight' = [ids |-> ids, answer |-> "none",
                     request |-> [device |-> device, key |-> key,
                                  events |-> {outbox[i].event : i \in ids}]]
       /\ UNCHANGED outbox

\* One turn of TelemetryRuntime._run with a full batch.  A loop that was
\* waiting when stop() was called takes one more turn.
LoopExport ==
  /\ proc \in {"running", "stopping"} /\ enabled
  /\ flight = NoFlight
  /\ Cardinality(Due) >= BatchSize
  /\ Export(Oldest(Due, BatchSize))
  /\ proc' = IF proc = "stopping" THEN "draining" ELSE proc
  /\ UNCHANGED <<enabled, key, device, recorded, lastId, late, cloud>>

LoopEnds ==
  /\ proc = "stopping"
  /\ ~enabled \/ Cardinality(Due) < BatchSize
  /\ proc' = "draining"
  /\ UNCHANGED <<enabled, key, device, recorded, lastId, outbox, flight, late, cloud>>

Flush ==
  /\ proc = "draining" /\ flight = NoFlight
  /\ Export(Oldest(Due, BatchSize))
  /\ proc' = IF flight' = NoFlight THEN "down" ELSE "flushing"
  /\ UNCHANGED <<enabled, key, device, recorded, lastId, late, cloud>>

\* Mutant: a request whose answer timed out counts as delivered.
VerdictsMutant(answer) == IF answer = "refused" THEN {"failed"} ELSE {"accepted"}

\* What the exporter can make of the answer: without one, or when the answer
\* is lost, the batch failed.
Verdicts(answer) == IF answer = "accepted" THEN {"accepted", "failed"} ELSE {"failed"}

Marked(ids, verdict) ==
  IF verdict = "accepted" THEN Updated(ids, Sent) ELSE Updated(ids, Failed)

\* A request abandoned unanswered is lost or arrives later.
Abandoned ==
  {late} \union (IF flight = NoFlight \/ Cardinality(late) >= MaxLate THEN {}
                 ELSE IF flight.answer # "none" THEN {}
                 ELSE {late \union {flight.request}})

Conclude ==
  /\ flight # NoFlight
  /\ \E verdict \in Verdicts(flight.answer) : outbox' = Marked(flight.ids, verdict)
  /\ late' \in Abandoned
  /\ flight' = NoFlight
  /\ proc' = IF proc = "flushing" THEN "down" ELSE proc
  /\ UNCHANGED <<enabled, key, device, recorded, lastId, cloud>>

-----------------------------------------------------------------------------
(* The process. *)

Start ==
  /\ proc = "down"
  /\ proc' = "running" /\ enabled' = TRUE
  /\ UNCHANGED <<key, device, recorded, lastId, outbox, flight, late, cloud>>

Stop ==
  /\ proc = "running"
  /\ proc' = IF flight = NoFlight THEN "stopping" ELSE "draining"
  /\ UNCHANGED <<enabled, key, device, recorded, lastId, outbox, flight, late, cloud>>

\* Rows are marked one commit at a time, oldest first: a crash may come
\* before, between or after the marks.
Crash ==
  /\ proc # "down"
  /\ proc' = "down" /\ flight' = NoFlight
  /\ late' \in Abandoned
  /\ \/ UNCHANGED outbox
     \/ /\ flight # NoFlight
        /\ \E verdict \in Verdicts(flight.answer), n \in 1..BatchSize :
             outbox' = Marked(Oldest(flight.ids, n), verdict)
  /\ UNCHANGED <<enabled, key, device, recorded, lastId, cloud>>

-----------------------------------------------------------------------------
(***************************************************************************)
(* The cloud's ingest endpoint, one transaction.  A database error rolls   *)
(* everything back and answers 500.                                        *)
(***************************************************************************)

\* Mutant: an event is not checked against the key of its batch.
AuthenticMutant(r) ==
  /\ \A e \in r.events : e.device = r.device
  /\ registered[r.device] \in {0, r.key}

Authentic(r) ==
  /\ \A e \in r.events : e.device = r.device /\ e.key = r.key
  /\ registered[r.device] \in {0, r.key}

\* events_ingested + events_duplicated = the number of events sent
AllCounted(r) ==
  Cardinality(r.events \ stored) + Cardinality(r.events \intersect stored)
    = Cardinality(r.events)

Ingest(r) ==
  /\ Authentic(r)
  /\ stored' = stored \union r.events
  /\ registered' = [registered EXCEPT ![r.device] = r.key]

CloudAnswers ==
  /\ flight # NoFlight /\ flight.answer = "none"
  /\ \/ /\ Ingest(flight.request)
        /\ flight' = [flight EXCEPT !.answer =
                        IF AllCounted(flight.request) THEN "accepted" ELSE "refused"]
     \/ /\ flight' = [flight EXCEPT !.answer = "refused"]
        /\ UNCHANGED cloud
  /\ UNCHANGED <<proc, enabled, key, device, recorded, lastId, outbox, late>>

CloudReceivesLate ==
  /\ \E r \in late :
       /\ Ingest(r) \/ UNCHANGED cloud
       /\ late' = late \ {r}
  /\ UNCHANGED edge

Next ==
  \/ RecordEvent \/ SetEnabled \/ ReplayDlq \/ DeleteIdentity \/ Purge
  \/ \E i \in DOMAIN outbox : BackoffElapses(i)
  \/ LoopExport \/ LoopEnds \/ Flush \/ Conclude
  \/ Start \/ Stop \/ Crash
  \/ CloudAnswers \/ CloudReceivesLate

Spec == Init /\ [][Next]_vars

\* The loop wakes on a signal or after the export interval, the HTTP client
\* times out, and time passes.  Nothing is assumed of the cloud, the user or
\* the process's starts and stops.
Fairness ==
  /\ WF_vars(LoopExport)
  /\ WF_vars(Conclude)
  /\ WF_vars(\E i \in DOMAIN outbox : BackoffElapses(i))

FairSpec == Spec /\ Fairness

-----------------------------------------------------------------------------
(***************************************************************************)
(* Properties.                                                             *)
(***************************************************************************)

\* A row is SENT only if the cloud has the event that row holds: whatever
\* was deleted, recorded, replayed or crashed while the answer was awaited.
SentIsStored == \A i \in With("SENT") : outbox[i].event \in stored

\* A row waits in PENDING with attempts left and reaches the DLQ with all of
\* them used, also after replays and after a crash among the marks.
RetriesCounted ==
  /\ \A i \in With("PENDING") : outbox[i].attempts < MaxRetries
  /\ \A i \in With("DLQ") : outbox[i].attempts = MaxRetries

\* Every stored event was signed by the key the cloud has on record for its
\* device, across key rotations, stale device ids and late requests.
StoredBySigner == \A e \in stored : registered[e.device] = e.key

\* The marks that follow an answer go by row id and look at no status.  Still,
\* a row keeps its event for as long as it exists, a SENT row never changes, one
\* in the DLQ is only moved by a replay, and no attempt of a waiting one is
\* forgotten or counted twice.
RowsOnlyProgress ==
  [][\A i \in DOMAIN outbox \intersect DOMAIN outbox' :
       LET row == outbox[i]
           next == outbox'[i]
       IN  /\ next.event = row.event
           /\ row.status = "SENT" => next = row
           /\ row.status = "DLQ" => next = row \/ ReplayDlq
           /\ row.status = "PENDING" => next.attempts \in {row.attempts, row.attempts + 1}]_vars

\* The pipeline keeps the outbox's promise.
Promise == INSTANCE ReliableDelivery WITH
  Event <- 1..MaxEvents,
  accepted <- 1..recorded,
  held <- {outbox[i].event.id : i \in DOMAIN outbox \ With("SENT")},
  delivered <- {e.id : e \in stored}

NoEventLost == Promise!Spec

\* A full batch of pending rows does not wait forever: every turn of the
\* loop sends the rows, buries them or counts an attempt, so they get fewer
\* unless telemetry is switched off, the process leaves its running state or
\* the operator replays the DLQ again and again.
Full == Cardinality(With("PENDING")) >= BatchSize
FullBatchDrains ==
  []<><<ReplayDlq>>_vars \/ (Full ~> (~Full \/ ~enabled \/ proc # "running"))

=============================================================================
