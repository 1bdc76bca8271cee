------------------------------ MODULE AuthSession ------------------------------
(***************************************************************************)
(* The authentication endpoints of the edge service, api/v1/auth.py:       *)
(* POST /auth/start, /auth/frame and /auth/finish over the in-memory       *)
(* session store, with the frame controller, the template store and the    *)
(* audit log they consult or write.                                        *)
(*                                                                         *)
(* The endpoints are coroutines of one event loop and none of them awaits, *)
(* so each request is one atomic action.  A request takes time, though,    *)
(* and reads the clock more than once: an action that does reads now first *)
(* and a later instant t afterwards.  The answers of the face model and of *)
(* the risk scorer are inputs chosen from their range.  So is the answer   *)
(* of the blink and pose detectors: what is shown here does not rest on    *)
(* them.  Module LivenessDetectors models what they answer today.          *)
(***************************************************************************)
EXTENDS PolicyEngine, Sequences

CONSTANTS
  SessionId,         \* uuid4 values: an id is issued at most once
  Unreadable,        \* a stored template that cannot be decrypted
  MaxFrames,         \* MAX_FRAMES_PER_SESSION
  MinInterval,       \* 1 / FRAME_PROCESSING_MAX_FPS, in clock ticks
  MaxTime,           \* bound: the clock stops here
  MaxAudit           \* bound: length of the audit log

ASSUME AuthConstants ==
  /\ Unreadable \notin Face /\ Unreadable # Nobody
  /\ MaxFrames \in Nat /\ MinInterval \in Nat
  /\ MaxTime \in Nat /\ MaxAudit \in Nat

VARIABLES
  now,               \* the clock
  issued,            \* ids handed out by /auth/start since the beginning
  store,             \* keys of SessionStore.sessions
  session,           \* their records; Blank for the others
  nextFrameAt,       \* per session, when the rate cap admits a frame again
  template,          \* what load_latest_template would find
  audit              \* auth_finished events, oldest first

vars == <<now, issued, store, session, nextFrameAt, template, audit>>

Blank == NewSession([i \in 1..MinChallenges |-> "pending"], 0)

AuditRecord ==
  [session: SessionId, outcome: {"allow", "deny"}, codes: SUBSET ReasonCode]

TypeOK ==
  /\ now \in 0..MaxTime
  /\ issued \subseteq SessionId
  /\ store \subseteq issued
  /\ session \in [SessionId -> Session]
  /\ nextFrameAt \in [SessionId -> Nat]
  /\ template \in Face \union {Nobody, Unreadable}
  /\ audit \in Seq(AuditRecord)

Init ==
  /\ now = 0
  /\ issued = {} /\ store = {}
  /\ session = [s \in SessionId |-> Blank]
  /\ nextFrameAt = [s \in SessionId |-> 0]
  /\ template \in Face \union {Nobody}
  /\ audit = <<>>

\* The instants a request that started at now may still read.
Later == {t \in {now, now + 1} : t <= MaxTime}

-----------------------------------------------------------------------------
(* POST /auth/start *)

Start(s) ==
  /\ s \notin issued
  /\ \E list \in FreshChallenges :
       session' = [session EXCEPT ![s] = NewSession(list, now)]
  /\ issued' = issued \union {s}
  /\ store' = store \union {s}
  /\ UNCHANGED <<now, nextFrameAt, template, audit>>

\* SessionStore.get_session deletes an expired session when a request names
\* it; the request answers 404.
DropExpired(s) ==
  /\ s \in store
  /\ Expired(session[s], now)
  /\ store' = store \ {s}
  /\ session' = [session EXCEPT ![s] = Blank]
  /\ nextFrameAt' = [nextFrameAt EXCEPT ![s] = 0]
  /\ UNCHANGED <<now, issued, template, audit>>

Found(s) == s \in store /\ ~Expired(session[s], now)

-----------------------------------------------------------------------------
(***************************************************************************)
(* POST /auth/frame.  A frame of a finished session (409), and one the     *)
(* frame controller drops, change nothing.  in_flight is always 0 here:    *)
(* it is raised and lowered within one request.                            *)
(***************************************************************************)

Admitted(s) == Found(s) /\ ~session[s].finished /\ now >= nextFrameAt[s]

Counted(x) == [x EXCEPT !.frameCount = @ + 1]

\* Mutant: the frame over the limit is refused and the session stays open.
FrameOverLimitMutant(s) ==
  /\ Admitted(s)
  /\ session[s].frameCount >= MaxFrames
  /\ session' = [session EXCEPT ![s] = Counted(@)]
  /\ UNCHANGED <<now, issued, store, nextFrameAt, template, audit>>

FrameOverLimit(s) ==
  /\ Admitted(s)
  /\ session[s].frameCount >= MaxFrames
  /\ session' = [session EXCEPT ![s] = [Counted(@) EXCEPT !.finished = TRUE]]
  /\ UNCHANGED <<now, issued, store, nextFrameAt, template, audit>>

\* 503: no face model.  The frame is counted but not processed, so the rate
\* cap is not armed.
FrameModelUnavailable(s) ==
  /\ Admitted(s)
  /\ session[s].frameCount < MaxFrames
  /\ session' = [session EXCEPT ![s] = Counted(@)]
  /\ UNCHANGED <<now, issued, store, nextFrameAt, template, audit>>

\* A processed frame ends at t and turns the session into x.
Processed(s, x, t) ==
  /\ now' = t
  /\ session' = [session EXCEPT ![s] = x]
  /\ nextFrameAt' = [nextFrameAt EXCEPT ![s] = t + MinInterval]
  /\ UNCHANGED <<issued, store, template, audit>>

\* No face, or more than one: the liveness evaluator never sees the frame.
FrameWithoutSingleFace(s) ==
  /\ Admitted(s)
  /\ session[s].frameCount < MaxFrames
  /\ \E t \in Later, code \in {"NO_FACE", "MULTIPLE_FACES"} :
       Processed(s, [Counted(session[s]) EXCEPT !.qualityReasons = {code}], t)

\* What the quality gate and the embedder make of a frame with one face.
\* A rejected frame replaces the quality reasons but keeps the last probe.
Captures(x) ==
  {[x EXCEPT !.qualityReasons = {"LOW_QUALITY"}]}
    \union {[x EXCEPT !.probe = [face |-> f, fallback |-> FALSE],
                      !.qualityReasons = {}] : f \in Face}
    \union {[x EXCEPT !.probe = [face |-> f, fallback |-> TRUE],
                      !.qualityReasons = {"FALLBACK_EMBEDDING_USED"}] :
                f \in IF DevFallback THEN Face ELSE {}}

\* Mutant: risk adds up over the frames.
RiskierMutant(x, risk) == [x EXCEPT !.risk = @ + risk]

Riskier(x, risk) == IF risk > x.risk THEN [x EXCEPT !.risk = risk] ELSE x

FrameWithFace(s) ==
  /\ Admitted(s)
  /\ session[s].frameCount < MaxFrames
  /\ \E t \in Later, x \in Captures(Counted(session[s])),
        risk \in RiskScore, detected \in BOOLEAN :
       Processed(s, ProcessFrame(Riskier(x, risk), detected, t), t)

\* 500: the risk scorer or a detector raises on a frame with one face.  The
\* session is changed in place, so what was done before stays; the rate cap is
\* not armed.  Without a score the risk stays, as with a score of 0; a frame
\* that raises earlier is as one without a model.
FrameRaises(s) ==
  /\ Admitted(s)
  /\ session[s].frameCount < MaxFrames
  /\ \E x \in Captures(Counted(session[s])), risk \in RiskScore :
       session' = [session EXCEPT ![s] = Riskier(x, risk)]
  /\ UNCHANGED <<now, issued, store, nextFrameAt, template, audit>>

-----------------------------------------------------------------------------
(* POST /auth/finish *)

Relaxed(x) ==
  [x EXCEPT !.challenges = [i \in DOMAIN @ |-> "passed"],
            !.stepUp = [i \in DOMAIN @ |-> "passed"],
            !.livenessPassed = TRUE]

\* _dev_fallback_liveness_relaxation_eligible, and the condition at its call
RelaxationApplies(x, decision) ==
  /\ decision.decision = "deny" /\ decision.codes = {"LIVENESS_FAILED"}
  /\ DevFallback
  /\ Similarity(x.probe, template) = "match"
  /\ "FALLBACK_EMBEDDING_USED" \in x.qualityReasons

\* The decision of one finish request.  A session in its step-up phase is
\* evaluated with force_final.
Decision(x, t) ==
  LET decision == Evaluate(x, t, template, x.inStepUp)
  IN  IF RelaxationApplies(x, decision)
      THEN Evaluate(Relaxed(x), t, template, TRUE)
      ELSE decision

FallbackCode(x) == x.qualityReasons \intersect {"FALLBACK_EMBEDDING_USED"}

FinalCodes(x, d) ==
  d.codes
    \union (IF ~x.inStepUp THEN {}
            ELSE IF d.decision = "allow" THEN {"STEP_UP_COMPLETED"}
            ELSE {"STEP_UP_FAILED"})
    \union (IF d.decision = "deny" /\ "SIMILARITY_BELOW_THRESHOLD" \in d.codes
            THEN x.qualityReasons ELSE {})
    \union FallbackCode(x)

EnterStepUp(x, list, t) ==
  [x EXCEPT !.stepUp = list, !.stepUpIndex = 1, !.stepUpIssued = t,
            !.stepUpCount = @ + 1, !.inStepUp = TRUE]

\* Mutant: the decision is recorded, the session is not marked finished.
CloseMutant(x, d) ==
  [x EXCEPT !.decision = d.decision, !.reasonCodes = FinalCodes(x, d),
            !.livenessPassed = d.liveness,
            !.inStepUp = FALSE, !.stepUp = <<>>, !.stepUpIndex = 1]

Close(x, d) ==
  [x EXCEPT !.finished = TRUE, !.decision = d.decision,
            !.reasonCodes = FinalCodes(x, d), !.livenessPassed = d.liveness,
            !.inStepUp = FALSE, !.stepUp = <<>>, !.stepUpIndex = 1]

FinishStepUp(s) ==
  /\ Found(s) /\ template # Unreadable
  /\ \E t \in Later, list \in FreshChallenges :
       /\ Decision(session[s], t).decision = "step_up"
       /\ session' = [session EXCEPT ![s] = EnterStepUp(@, list, t)]
       /\ now' = t
  /\ UNCHANGED <<issued, store, nextFrameAt, template, audit>>

\* The session is closed before the audit event is written; a write that
\* raises answers 500 and leaves the session closed.
FinishFinal(s) ==
  /\ Found(s) /\ template # Unreadable
  /\ Len(audit) < MaxAudit
  /\ \E t \in Later, auditWritten \in BOOLEAN :
       LET d == Decision(session[s], t)
       IN  /\ d.decision # "step_up"
           /\ session' = [session EXCEPT ![s] = Close(@, d)]
           /\ audit' = IF auditWritten
                       THEN Append(audit, [session |-> s, outcome |-> d.decision,
                                           codes |-> FinalCodes(session[s], d)])
                       ELSE audit
           /\ now' = t
  /\ UNCHANGED <<issued, store, nextFrameAt, template>>

-----------------------------------------------------------------------------
(* The environment: time, enrolment and identity deletion, process restart *)

Tick == now < MaxTime /\ now' = now + 1
        /\ UNCHANGED <<issued, store, session, nextFrameAt, template, audit>>

\* Enrolment commits a template, delete_identity removes it, a lost master
\* key makes it unreadable (module KeyStore).
ChangeTemplate ==
  /\ template' \in (Face \union {Nobody, Unreadable}) \ {template}
  /\ UNCHANGED <<now, issued, store, session, nextFrameAt, audit>>

\* The session store and the frame controller live in memory only.
Restart ==
  /\ store' = {}
  /\ session' = [s \in SessionId |-> Blank]
  /\ nextFrameAt' = [s \in SessionId |-> 0]
  /\ UNCHANGED <<now, issued, template, audit>>

Next ==
  \/ \E s \in SessionId :
       \/ Start(s) \/ DropExpired(s)
       \/ FrameOverLimit(s) \/ FrameModelUnavailable(s)
       \/ FrameWithoutSingleFace(s) \/ FrameWithFace(s) \/ FrameRaises(s)
       \/ FinishStepUp(s) \/ FinishFinal(s)
  \/ Tick \/ ChangeTemplate \/ Restart

Spec == Init /\ [][Next]_vars

-----------------------------------------------------------------------------
(***************************************************************************)
(* Safety.                                                                 *)
(***************************************************************************)

\* While a session is open, liveness_passed is worth what it says: every
\* primary challenge was passed, and once the step-up list is completed it
\* was passed too, although start_step_up leaves the flag of the primary
\* round standing.
LivenessEarned ==
  \A s \in store : LET x == session[s] IN
    ~x.finished /\ x.livenessPassed =>
      /\ AllPassed(x.challenges)
      /\ x.inStepUp /\ AllCompleted(x.stepUp) => AllPassed(x.stepUp)

\* The frame over the limit closes the session, and no later finish can
\* turn that into an allow.
FrameLimitIsFinal ==
  \A s \in store : LET x == session[s] IN
    /\ x.frameCount <= MaxFrames + 1
    /\ x.frameCount > MaxFrames => x.finished /\ x.decision # "allow"

\* In the audit log, across retries, refused writes and restarts, a session
\* that was denied is never allowed afterwards.
NoAllowAfterDeny ==
  \A i, j \in DOMAIN audit :
    i < j /\ audit[i].session = audit[j].session /\ audit[i].outcome = "deny"
      => audit[j].outcome = "deny"

\* What the state before a decision must show for "allow": a matching probe,
\* risk below R2, every primary challenge passed and, from R1 on, a passed
\* step-up round; or the development relaxation on a fallback probe.
Earned(x) ==
  /\ Similarity(x.probe, template) = "match"
  /\ x.risk < R2
  /\ \/ /\ AllPassed(x.challenges)
        /\ x.risk >= R1 => x.inStepUp /\ AllPassed(x.stepUp)
     \/ DevFallback /\ x.probe.fallback

\* A session turns to "allow" only from a state that earned it.
AllowIsEarned ==
  [][\A s \in SessionId :
       session'[s].decision = "allow" /\ session[s].decision # "allow"
         => Earned(session[s])]_vars

\* auth_finish judges a closed session again when the request is repeated.  A
\* decision stands all the same, a denial with its reasons, whatever became of
\* the template in between.  The one way to change it is to expire between the
\* two clock reads of such a request: that turns an allow into a denial.
DecisionStands ==
  [][\A s \in store \intersect store' :
       LET x == session[s]
           y == session'[s]
       IN  x.decision # "none" /\ ~Expired(x, now') =>
             /\ y.decision = x.decision
             /\ x.decision = "deny" => y.reasonCodes = x.reasonCodes]_vars

-----------------------------------------------------------------------------
(***************************************************************************)
(* What clients may rely on: the endpoints implement SessionVerdict.       *)
(***************************************************************************)

VerdictOf(s) ==
  IF s \notin store THEN "gone"
  ELSE IF ~session[s].finished THEN (IF session[s].inStepUp THEN "step_up" ELSE "open")
  ELSE IF session[s].decision = "allow" THEN "allow" ELSE "deny"

Promise == INSTANCE SessionVerdict WITH verdict <- [s \in SessionId |-> VerdictOf(s)]

\* Frames, finishes, expiry, restarts and refused audit writes change what a
\* session was told in the promised ways only: one step-up round at most, and
\* no way back from a denial.
VerdictsArePromised == Promise!VerdictSpec

=============================================================================
