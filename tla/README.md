# SentinelID: models, checks and proofs

SentinelID is a face-authentication product: a desktop application (Tauri shell
and React front end) starts a local *edge* service (FastAPI), which enrolls a
face, challenges the user for liveness, decides, writes an encrypted audit log
and sends signed telemetry to a *cloud* service, over which an admin dashboard
sits.  This directory holds TLA+ models of the parts whose correctness depends
on the order in which things happen, the TLC configurations that check them, and
TLAPS proofs of the properties that matter most.

Paths below are relative to `src/`; `edge/` stands for
`apps/edge/sentinelid_edge/`.  `PROJECT.json` maps every definition to the lines
it models and lists the runs, hazards, mutants, findings and theorems.

    tlc -workers 2 -config AuthSession.cfg MCAuthSession     # one run
    tlapm AuthSession_proofs.tla                             # one proof module

## 1. Inventory

| Component | State | Operations | Interacts with | Hard part | Correct when |
|---|---|---|---|---|---|
| Authentication endpoints `edge/api/v1/auth.py`, session store, frame controller | sessions in memory, rate cap per session, audit rows | start, frame (also one that ends in a 500), finish; expiry on access | detectors, policy, template and audit repositories, telemetry, desktop client | retried finishes, late frames, frames that replace part of the session, process restart | "allow" is earned and final decisions stay final |
| Policy and verdict `edge/domain/policy.py`, `services/liveness/evaluator.py` | none (session record) | `evaluate`, `process_frame`, `evaluate_session_result` | called by the endpoints | order of early returns; step-up keeps the flag of the first round | every early return is the right one |
| Liveness detectors `blink.py`, `pose.py` | counters of one shared pair | `update`, `reset` | fed by all sessions | interleaved sessions, thresholds and debounce | a challenge passes exactly when it was performed |
| Outbox, exporter, runtime `edge/services/telemetry`, `storage/repo_outbox.py` | SQLite rows, one request in flight, switch | record, export, flush, replay, purge, stop | endpoints, cloud, identity deletion | everything runs between a request and its answer; crash between marks; retry | nothing recorded is lost, SENT means stored |
| Cloud ingest `apps/cloud/api/ingest_router.py` | devices, events | ingest | exporter | duplicated and late requests | stored events are authentic, once each |
| Device identity `security/device_binding.py`, `keychain.py` | key pair, `device_id.json` | read, create, rotate | exporter, identity deletion | one of the two is replaced without the other | signer and device id belong together at the cloud |
| Desktop edge lifecycle `apps/desktop/src-tauri/src/main.rs` | `EdgeState` behind a mutex, child processes | start_edge, get_edge_info, kill_edge, exit | front end, edge process | concurrent callers, awaits outside the mutex, failures half-way, exit | one launcher, address of the owned child, every call returns |
| Master key, templates, audit `security/encryption.py`, `repo_templates.py`, `repo_audit.py`, `api/v1/admin.py`, `settings.py` | environment, keychain, file, cache; blobs | load, create, rotate, delete | enrollment, authentication | two stores without a common transaction, keychain that comes and goes | data stays readable by the key a restart finds |
| Enrollment `api/v1/enroll.py`, `services/enrollment` | sessions in memory | start, frame, commit, reset | templates | delete before store; resent frames and commits, resets under way | a success stands for the stored template |
| Lockout and rate limit `security/rate_limit.py`, middleware in `main.py` | counters, buckets, a file | check, failure, success | every request | two writes per request, each may fail; restart | the tracker agrees with each client's history |
| Desktop authentication flow `CameraView.tsx`, `apiClient.ts`, `stateMachine.ts` | React state, refs, timers | start, capture loop, finish, reset | edge service | state used after an await; retried POSTs | frames go to the session shown, success means allowed, waiting ends |
| Vision, heuristics, risk scoring | model handles | per-frame numerics | endpoints | floating point | out of reach of a model checker |
| Admin dashboard, cloud admin API | signed cookie; queries | read | cloud database | none that is concurrent | - |
| Packaging, scripts, migrations, logging, vendored `wry` | - | - | - | - | - |

What is hard to test is listed line by line under `hazards` in `PROJECT.json`.

## 2. Modules

| Module | What it is | Instances and proofs |
|---|---|---|
| `PolicyEngine` | the session record; verdict and policy cascade as pure operators | extended by `AuthSession` |
| `SessionVerdict` | what the edge promises a client about a session | implemented by `AuthSession`, relied on by `LoginFlow` |
| `AuthSession` | the authentication endpoints over the store | `MCAuthSession`, `AuthSession_proofs` |
| `LivenessDetectors` | sessions sharing the pair of detectors | `MCLivenessDetectors`, `LivenessDetectors_proofs` |
| `ReliableDelivery` | what an outbox promises: held until delivered or wiped | instantiated by `TelemetryPipeline` |
| `TelemetryPipeline` | outbox, exporter, network, crash, cloud | `TelemetryPipeline_proofs` |
| `EdgeLifecycle` | the desktop shell and its child processes | `EdgeLifecycle_proofs` |
| `KeyStore` | master key: sources, cache and ciphertexts | `KeyStore_proofs` |
| `DeviceKeys` | device key pair and device id next to `KeyStore`, which it extends | `KeyStore_proofs` |
| `Lockout` | the middleware over token buckets and the lockout tracker | `MCLockout`, `Lockout_proofs` |
| `EdgeClient` | one call of the desktop as up to three attempts | extended by `Enrollment` and `LoginFlow` |
| `Enrollment` | enrollment wizard, calls, endpoints, template | `MCEnrollment`, `Enrollment_proofs` |
| `LoginFlow` | login screen and calls over `SessionVerdict` | `MCLoginFlow`, `LoginFlow_proofs` |

### State and actions, module by module

**PolicyEngine / AuthSession.** The edge process has one event loop and the
handlers of `auth.py` contain no `await` before their answer, so a request is one
action.  It is not one instant: a handler reads the clock several times, and an
action that does so uses `now` for the first check and a later instant (`Later`)
for the ones after.  `session` is the record of `domain/models.py`; a challenge
is its status.  `Start`, the four frame actions (over the limit, model
unavailable, without a single face, with a face) and the two finish actions
(`FinishStepUp`, `FinishFinal`) partition the paths through the handlers that
change state and answer.  The outcome of a frame with a face (`Captures`) is: a
rejected quality gate, an embedding of the model, an embedding of the fallback.
`FrameRaises` is the frame whose handler raises half-way: the session object is
changed in place, so what was done before the exception stays.
`template` changes under the session's feet (`ChangeTemplate`), `Restart` empties
the store.  `audit` records what `write_event` was given; the write may fail
after the session was closed.

The answers of the detectors, of the face model and of the risk scorer are
inputs.  The properties of `AuthSession` therefore hold for any detector, and do
not depend on the defect `LivenessDetectors` shows in the present one: the two
models meet at `detected` of `ProcessFrame`.

**SessionVerdict.** Five verdicts per session ("gone", "open", "step_up", "allow",
"deny") and what may follow what.  It promises less than one might expect: an
allowed session can be asked again and be denied.  That is not because the
template may have changed: the cascade answers a finished session before it looks
at the template.  It takes a session that expires between the two clock reads of
the repeated request, and `DecisionStands` says that nothing else does it.
`AuthSession` implements `SessionVerdict` under `VerdictOf`, as the property
`VerdictsArePromised`.

**LivenessDetectors.** The same two handlers seen from the detectors.  A frame is
eyes open or closed and a head direction.  `FrameForBlink` and `FrameForTurn` are
the two branches of `process_frame`, `FrameTooLate` its timeout;
`ResetDetectors` is called by a start and by the completion of a challenge that
has a successor, as in `auth.py`.  `film` is a history variable: the eyes in the
frames fed since the last reset.  Step-up rounds are left out: they start only from
a primary list that was passed, and there is none while finding 1 stands
(`NoListPassed` in the proofs).  When it is repaired they have to be added.

**TelemetryPipeline.** `outbox` maps row ids (AUTOINCREMENT: `NextId`) to rows.
The exporter awaits one request at a time (`flight`); between `Export` and
`Conclude` every other handler may run.  An exporter that gets no usable answer
counts a failure whatever the cloud did (`Verdicts`), and a request it gave up on
may still arrive (`late`).  `Crash` may come after any prefix of the per-row
commits.  `Ingest` is one transaction of the cloud.  `proc` follows the life of
`TelemetryRuntime`: running, stopping (the loop takes one more turn), draining,
flushing, down.  `DeleteIdentity` has the partial outcomes of its best-effort
steps.

**EdgeLifecycle.** `EdgeState` is three variables; an action is one critical
section of `start_edge` or one step outside of it.  `pc` is the place of each
call, `mine` the child that is a local variable of the launcher.  A dropped
`std::process::Child` keeps running, so `alive` is separate from `edgeProcess`.

**KeyStore.** A blob is named by the key that encrypted it, a key by the number of
its generation.  `Persistent` is what a fresh process would find with the
keychain open, `Loaded` what this one uses now.  A lookup accesses the keychain
twice: the probe decides whether production refuses to go on (`Guarded`), the read
yields the key, and a read that raises looks like an empty keychain.  `access` has
the three outcomes: it answers, it answers the probe and loses the read
("falters"), or it is locked.  `Rotate`, `RotateUnstored` and
`RotateCrash` are the three ways through `rotate_master_key` after the
transaction commits.  One template is enough: `commit_template` deletes every
row before it stores one, and `rewrap_all_blobs` treats all rows alike in one
transaction.

**DeviceKeys.** The same keychain (`access`) also holds the device key pair.
Nothing is cached: every signature is a `LoadPair`, which may copy a pair from the
file into the keychain or generate one.  A device id is the hash of a public key
and is written as the number of the pair.  `DeleteKeys` is the whole of
`delete_identity`: `DeleteIdentity` of `KeyStore` together with the rotation or
deletion of the pair, which may be refused or cut off (`DeviceCutOff`).  `known`
is a history variable: the pair last used since the identity was last deleted.

**Lockout.** A request is one action: `dispatch` awaits nothing that yields before
it has recorded the outcome.  `Rejected` and `Accepted` are the wrong and the right
token, `RateLimited` the empty bucket; a locked client changes nothing.  `Save` has
the two writes one request can need (a lockout released by `is_locked`, then the
outcome), each of which may fail.  `Restart` reads the file, `BlankRestart` is a
file or directory that cannot be used.  `streak` and `due` are the history of each
client, told from its requests alone; `window` counts the requests let through
one bucket since an instant that `Observe` may choose anew at any time.

**EdgeClient.** A call has a status and the two permissions `resend` (a network
error in the first attempt) and `renew` (401, 502 or 503).  An attempt may be
handled and its answer lost: then `Resends` or `Fails` follows a handled request.

**Enrollment.** Three layers in one module, because the properties relate them: the
buttons, the calls, and the endpoints over the store.  The wizard's continuations
after an await write over whatever session is shown by then (`Show`, `CommitDone`,
`CallFails`).  `hasty` is a history variable: the session shown (or the empty
screen) replaced one that calls were still under way for, as after a cancel.  It
is set anew at each such replacement, so it becomes false again when a start or a
reset returns with no other call open.

**LoginFlow.** The refs and timers of `CameraView.tsx` are variables of their own
(`streaming`, `streamSession`, `inFlight`, `timerRef`), because a continuation reads
some and writes others.  A timer closes over the session it was set for, and only
the one `timerRef` names can be cleared.  The edge is `SessionVerdict` and nothing
else.  `hasty` is as in `Enrollment`, and counts timers too.

## 3. Runs

| Run | Module / cfg | Result | Shows |
|---|---|---|---|
| `auth` | MCAuthSession / AuthSession.cfg | pass | `LivenessEarned`, `FrameLimitIsFinal`, `NoAllowAfterDeny`, `AllowIsEarned`, `DecisionStands`, refinement `VerdictsArePromised` |
| `liveness` | MCLivenessDetectors / LivenessDetectors.cfg | pass | `BlinkPassesAsFilmed` |
| `liveness_turn` | LivenessDetectors / LivenessTurn.cfg | violation | a completed head turn does not pass its challenge |
| `telemetry` | TelemetryPipeline / .cfg | pass | `SentIsStored`, `RetriesCounted`, `StoredBySigner`, `RowsOnlyProgress`, refinement `NoEventLost` |
| `telemetry_live` | TelemetryPipeline / TelemetryPipelineLive.cfg | pass | `FullBatchDrains` |
| `lifecycle` | EdgeLifecycle / .cfg | pass | `OneLauncher`, `InfoOfOwnedChild`, `ChildrenAreKept`, `CallReturns` |
| `keys` | DeviceKeys / KeyStore.cfg | pass | `KeyInUseSurvives`, `KeyStaysInUse`, `ReadableStaysReadable`, `OnePairInUse`, `IdKeepsNaming` |
| `keys_rotation` | KeyStore / KeyStoreRotateTemplate.cfg | violation | a rotation cut off after its commit loses the template |
| `lockout` | MCLockout / Lockout.cfg | pass | `HistoryKept`, `NoServiceWhileLocked`, `BurstBounded` |
| `enrollment` | MCEnrollment / Enrollment.cfg | pass | `NeverOverstated`, `SuccessMeansStored`, `ResendsAreBounded`, `WaitingIsBacked` |
| `login` | MCLoginFlow / LoginFlow.cfg | pass | `SuccessMeansAllowed`, `OneAtATime` |
| `login_live` | MCLoginFlow / LoginFlowLive.cfg | pass | `WaitingEnds` |

Every passing safety run also checks its module's type invariant.  Each property of a run has a mutant,
a definition of the model changed the way a plausible bug in the code would
change it, under which TLC finds that property violated.

### Bounds

* `auth`: one session, because sessions share nothing but `template` and `audit`
  and no handler reads another session; two faces; risk scores 0, 1, 2 with
  `R1 = 1`, `R2 = 2` (one per region); two challenges, so that a list has a first
  and a last; four frames and the one over the limit; `SessionTimeout = 4`,
  `ChallengeTimeout = 2` and a clock to 5, so that challenges expire before and
  sessions after each other's turn; `MaxStepUps = 2`, one more than is ever
  reached.  `DevFallback` is TRUE, the configuration with more behaviours; the
  theorems cover both.  The clock and the audit length end the run, hence
  `CHECK_DEADLOCK FALSE`.
* `liveness`: two sessions, which is what interleaving needs; lists of two and
  three challenges; two closed frames in a row as in the code; the debounces (5
  and 5) cut to 3 and 0, so that the blink debounce asks for more than the closed
  frames do; 6 frames per session, so that one session alone can show a blink and a
  turn.  `liveness_turn` has a blink debounce of 2, which takes no part in it.
* `telemetry`: three events, batches of two (so a full and a partial batch exist
  together), two attempts before the dead-letter queue, two key pairs, one late
  request.  In `telemetry_live` no request is late: a late one changes no row.
  The events run out and the process may stay down, hence `CHECK_DEADLOCK FALSE`.
* `lifecycle`: three callers (launcher, waiter, newcomer), two children, two polls
  instead of 50.  The children run out: `CHECK_DEADLOCK FALSE`.
* `keys`: three generated master keys (the one in use, the one a rotation writes, and
  one more), one audit row, three key pairs; `prod` and the environment key are
  chosen in the initial state, so one run covers the four configurations.
  `keys_rotation` has four keys and two audit rows.  Deadlock is checked.
* `lockout`: two clients and one endpoint, a bucket of two tokens refilled by one per
  unit, a schedule with two thresholds (2 and 3 failures, for 1 and 2 units), three
  failures in a row and a clock to 3: enough to lock, to run out, to lock longer and
  to restart in between.  The clients are interchangeable.  A locked client at the
  end of the clock has nothing left to do: `CHECK_DEADLOCK FALSE`.
* `enrollment`: two calls under way at a time, which is what a late answer needs; two
  sessions (an old and a new one), a target of two frames, at most three accepted, so
  that a resent frame can overshoot the target.
* `login`: two calls under way and two sessions.  `login_live` has one session, since
  a second adds no waiting screen; its symmetry is off, as liveness needs.
  In both desktop modules the sessions that can be started run out:
  `CHECK_DEADLOCK FALSE`.

### Fairness

`telemetry_live`: weak fairness of the loop's turn (it
wakes on a signal or after the export interval), of the end of an exchange (the
HTTP client has a timeout) and of the backoff (time passes).  Nothing is assumed
of the cloud, the user, or starts and stops of the process.  `lifecycle`: weak
fairness of what a call does on its own once it entered (the thread pool runs
it, polls are counted, the health probe has a deadline).  `login_live`: weak
fairness, per call, of being handled or returned (a local connection answers or
breaks, and a promise that is settled resumes its awaiter) and of each timer.  No
button has to be pressed, and no session has to survive.

## 4. Findings

1. **Head turns are never accepted** (`liveness_turn`; evaluator.py:65, 69).  The
   pose detector reports a turn in the frame in which the head is neutral again;
   the evaluator wants that very frame to point left or right.  Each list holds
   two or three of three distinct challenges, so at least one turn, and no list is
   passed whole.  Outside the development relaxation nobody can be allowed.
2. **Rotation is not all or nothing** (`keys_rotation`; admin.py:100-104): the
   database commits before the new key is stored.

### Observations

What the models show without a run of its own: each is a behaviour of a module,
and a property that forbids it fails.

* A keychain read that is lost replaces the key (encryption.py:79-88, 105-118).  The
  guard of production goes by a probe of the keychain, and a read that fails after the
  probe was answered counts as an empty keychain: the environment's key is taken, or a
  new one is generated and stored over the entry, and with the old one goes every
  template and audit payload.  CHANGELOG.md:29 says that initialization "fails clearly
  when OS keychain access is unavailable".  It is the step that `KeyStaysInUse` and
  `ReadableStaysReadable` leave out by `access # "falters"`; without that condition
  both fail.  The device pair is looked up in the same way (keychain.py:59-78), and
  `OnePairInUse` and `IdKeepsNaming` have the same condition.
* A row whose export failed, and that has fewer than a batch of company, is not
  retried until others join it or the process stops (exporter.py:229), while
  RECOVERY.md:63-65 says that pending events retry automatically.  The default batch
  is ten (core/config.py:23); the script that page offers as validation sets it to one
  (smoke_test_cloud_recovery.sh:104), where this cannot be seen.
* `starting` leaks (main.rs:103, 107): an early `?` leaves the flag raised, and
  start_edge answers with a timeout until the application restarts.
* Exit during a launch leaves the child running (main.rs:412): the exit handler
  knows only the published one.  `ChildrenAreKept` names it as one of the two steps
  that forget a running child; the other is a call that had waited and publishes its
  own child over another's.
* Rotation forgets the audit log (admin.py:100): the rows stay under the key that
  was replaced.  KEY_MANAGEMENT.md:89 says "without any downtime or data loss".
  `ReadableStaysReadable` excepts exactly that step and the deletion of the identity.
* A picture whose answer was lost is sent again and may count as two accepted
  frames (apiClient.ts:209); `ResendsAreBounded` says no more than two.
* A commit whose answer was lost is sent again, meets a session that is gone, and
  the user sees an error although the template is stored.
* `commit_template` that fails between delete and store leaves nobody enrolled; the
  session is kept, so Retry Capture and Commit recover.
* A cancel or a reset does not withdraw the calls under way: what comes back may
  bring back a session that was left, or end the next one on the error screen.
  The properties of the two screens therefore speak of the states that are not
  `hasty`.
* A finish whose step-up answer was lost is sent again and decides the step-up
  round before a frame of it was shown: a denial the user did not earn.
* In development, a rotation of the device pair that the keychain refuses writes
  the file only, and the old pair is back when the keychain answers again
  (keychain.py:91-93).  In production a keychain that answers and refuses a write
  still puts a newly generated pair into the file (keychain.py:77).

## 5. Proofs

Each proof module extends its component and proves `Spec => []IInv` from
`Init => IInv` and `IInv /\ [Next]_vars => IInv'`, one lemma or step per action,
then each property from `IInv`.  The only assumptions are the named ones on the
constants (`PolicyConstants`, `AuthConstants`, `LivenessConstants`,
`PipelineConstants`, `LifecycleConstants`, `KeyConstants`, `PairConstants`,
`LockoutConstants`, `EnrollConstants`, `NoRequestIsNone`, `LoginConstants`), which
TLC evaluates in the runs.

* **AuthSession_proofs**: `IInv` is `TypeOK` and, per stored session, three parts:
  `ListsOK` (what lies ahead of the active challenge is pending, and in the
  step-up phase there is a step-up list), `VerdictOK` (an open session has no
  decision, and its liveness flag is backed by passed lists) and `RecordOK`
  (step-ups, frame count, decision, fallback code).  `LivenessEarned` alone is not inductive: a
  judgement looks at whole lists, so one must know what lies ahead.  Proved:
  type, `LivenessEarned`, `AtMostOneStepUpRound`, `FrameLimitIsFinal`,
  `FallbackFlagHonest`, `AllowIsEarned`; `NoAllowAfterDeny`, from an invariant that
  ties the log to the store (a session with a denial in the log is denied there, or
  gone for good); `DecisionStands`, from an invariant of closed sessions (`Sealed`:
  what a finish would add to the reasons is among them); and the refinement
  `VerdictsArePromised`, by one case per action.  `NeverBetter` is about the cascade
  alone: no higher risk score and no later clock improves a decision.
* **LivenessDetectors_proofs**: `IInv` adds that the last `closed` frames of the
  film are closed, that `since` counts frames on the film, and that no turn has
  passed.  Proved: type.  The last part is finding 1 seen from the proof, and goes when
  it is repaired; besides the induction only `NoListPassed` uses it, which justifies
  the scope of the module and promises nothing.  A second invariant, `FilmCounted`,
  has the counters at least as large as the film says; with it `OpenFrameDetects` gives the exact condition under which the detector
  reports a blink.  `BlinkPassesAsFilmed` says both that a blink that passes is on film
  (from `IInv`) and that one on film passes (from `FilmCounted`).
* **TelemetryPipeline_proofs**: `IInv` adds `Numbered` (every event anywhere in
  the system was recorded), `FlightOK` (the rows of the request in flight are
  pending and still hold the events it carries, or are gone; what the cloud
  accepted it has stored) and `RowsOK` (status, attempts and delivery of each
  row), to which `SentIsStored` and `RetriesCounted` reduce.  Proved: type,
  `SentIsStored`, `RetriesCounted`, `StoredBySigner`; `RowsOnlyProgress` and
  `EveryBatchCounts`, from `FlightOK`: the marks name rows by id and look at no status,
  so they are right only because nothing else moves a row that is in flight; and the
  refinement `NoEventLost`: initial states map to initial states, each step to a step of
  `ReliableDelivery` or a stutter.
* **EdgeLifecycle_proofs**: the safety properties are inductive together with
  `PollsOK`.  Proved: type, `OneLauncher`, `InfoOfOwnedChild`,
  `DirectLaunchReplacesNothing`; with `MineOK` (a call has a child of its own only from
  the spawn to the publication) `ChildrenAreKept`; and `CallsDrawCloser`, a measure of
  the steps a call has left, which leaves to fairness only that it takes them.
* **KeyStore_proofs**: `KeyInUseSurvives` is strengthened by `NoFileInProd`: production
  never writes the fallback file, so the file cannot hold a key that differs from the
  keychain's.  This holds for every lookup, also one whose read is lost.  The action
  properties `KeyStaysInUse` and `ReadableStaysReadable` leave that lookup out: their
  condition `Steady` says that production runs, that no read is being lost, and that
  the key in use is the one a restart loads.  Then a lookup returns the key a new
  process loads (`GetKeyPersists`), and each property follows step by step, for
  templates and audit log by one lemma each.  `KeysAreKept` says that each step of
  `DeviceKeys` is a step of `KeyStore` or leaves it alone, which carries these results
  over to the composition the run checks.  `OnePairInUse` and `IdKeepsNaming` are proved
  the same way from the types and `LoadPairKeeps`, which says what a lookup of the pair
  returns when its read is not lost.
* **Lockout_proofs**: `HistoryKept` is not inductive by itself.  What it needs is that
  the file agrees with the tracker unless the last write failed, and that a lockout
  in force is the one the history counts.  `BurstBounded` needs that the
  tokens in the bucket and those served since never exceed capacity and refill,
  where the refill is cut off at the capacity only at a request.
* **Enrollment_proofs**: the core is that, while not `hasty`, every open call belongs
  to the session shown, so that a late answer can only bring a count of that
  session, and the count only grows.  `ResendsAreBounded` rests on what a call may
  still do: an attempt that was handled used up one of its permissions.
  `WaitingIsBacked` needs no condition on `hasty`, and of `IInv` only the types.
* **LoginFlow_proofs**: while not `hasty`, calls and timers belong to the session
  shown, and a stream, a finish under way and a timer exclude one another.
  Without the last part a timer could restart the stream under a finish call
  (`OneAtATime`).  `WaitingIsBacked` holds also while `hasty`.  The
  edge of this module is not proved to be anything: its answers are the operators of
  `SessionVerdict` taken whole, with every outcome those allow.  `AuthSession` is
  proved to implement `SessionVerdict`, so whatever the endpoints answer is among the
  answers this screen is checked against.

Stated in the proof modules and proved there, without a run of their own, because a
checked property covers what a small instance can show of them:
`AtMostOneStepUpRound` and `FallbackFlagHonest` (AuthSession_proofs; `VerdictsArePromised`
has one step-up per session, `AllowIsEarned` what the fallback code lets through),
`DirectLaunchReplacesNothing` and `CallsDrawCloser` (EdgeLifecycle_proofs;
`ChildrenAreKept`, `CallReturns`), `EveryBatchCounts` (TelemetryPipeline_proofs;
`FullBatchDrains`) and `WaitingIsBacked` of the login screen (LoginFlow_proofs;
`WaitingEnds`).

Only model-checked: the liveness properties `FullBatchDrains`, `CallReturns` and
`WaitingEnds` (liveness under fairness and ENABLED are out of this prover's reach).  What
is proved instead is the safety each of them rests on: `EveryBatchCounts`,
`CallsDrawCloser` and the `WaitingIsBacked` of the login screen.  That a full batch drains
needs an induction on the sum of the attempts its rows have left, which stays with TLC.
No module
uses a RECURSIVE operator, which the prover could not see through; induction over
data is not used.

## 6. Assumptions about the environment

* The cloud runs one uvicorn worker (`apps/cloud/scripts/start_cloud.sh`), so an
  ingest request is one transaction without a concurrent one.
* A fetch of the desktop is an HTTP request to a local port: an attempt that failed
  is not handled later.
* The edge handlers that are modelled as atomic contain no `await` on their path;
  the exporter's exchange, which does, is split.
* The telemetry switch is kept in memory only and is on after every start.
* `flush` exports one batch, also when telemetry is switched off; a batch with an
  event of another device fails as a whole.  Both are modelled as the code has them.

## 7. Not modelled, and why

Vision, anti-fraud heuristics, risk scoring and calibration are floating-point
numerics; their outcomes are inputs.  TLS pinning, logging, diagnostics, support
bundles, packaging and migrations take no part in an interleaving.  The cloud's
admin API reads; the dashboard keeps its session in a signed cookie.  The audit
hash chain and the byte layout of envelopes are data the properties do not tell
apart.  Of the desktop front end, the scheduling of animation frames is left out
(while the stream runs and no frame is in flight one may be sent), and with it
that a frame's `finally` and a restarted stream may each schedule a tick
(CameraView.tsx:376-411); so are the settings screen, camera issues and the support
bundle.  A deletion of the identity from the settings screen empties the template
under a wizard that is open; `Enrollment` leaves that out.
`/enroll/calibrate` writes nothing.

## 8. Plan

Done, in this order: `PolicyEngine` and `AuthSession`; `TelemetryPipeline` over
`ReliableDelivery`; `EdgeLifecycle`; `KeyStore`; `LivenessDetectors`; `Lockout`;
`EdgeClient` with `Enrollment`; `SessionVerdict` with `LoginFlow`; `DeviceKeys`;
the proofs of all of them.

Left, most important first:

1. Join `DeviceKeys` and `TelemetryPipeline`: the pair an export signs with is looked
   up anew for each batch, so a keychain that flaps in development changes the
   signer between two batches.
2. Join `EdgeClient` and `EdgeLifecycle`: the last attempt of a call is sent to the
   address that `start_edge` returned.
3. Deletion of the identity while a wizard or a login is open.
4. The scheduling of the capture loop.
