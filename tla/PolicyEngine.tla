----------------------------- MODULE PolicyEngine -----------------------------
(***************************************************************************)
(* The authentication session record of the edge service                   *)
(* (domain/models.py) and the two pure functions that judge it: the        *)
(* liveness evaluator's verdict (services/liveness/evaluator.py) and the   *)
(* policy cascade (domain/policy.py).                                      *)
(*                                                                         *)
(* Data is abstracted to what a decision can tell apart.  A challenge is   *)
(* its status; "pending" is ~completed.  A probe is the face it shows and  *)
(* whether the development fallback produced it; Similar holds the         *)
(* <<probe face, template>> pairs whose cosine similarity reaches the      *)
(* threshold.  Risk scores are naturals ordered as the floats are.  Spoof  *)
(* reason codes, which decorate a decision and never change it, are left   *)
(* out.                                                                    *)
(***************************************************************************)
EXTENDS Naturals

CONSTANTS
  Face,              \* faces that can be seen or enrolled
  Nobody,            \* no probe yet, or no enrolled template
  Similar,           \* pairs <<probe face, template face>> at or above the threshold
  RiskScore,         \* values the risk scorer can return
  R1, R2,            \* RISK_THRESHOLD_R1 and RISK_THRESHOLD_R2
  MaxStepUps,        \* MAX_STEP_UPS_PER_SESSION
  MinChallenges, MaxChallenges,     \* challenges per list
  SessionTimeout, ChallengeTimeout, \* lifetimes, in clock ticks
  DevFallback        \* EDGE_ENV = dev and ALLOW_FALLBACK_EMBEDDINGS = 1

ASSUME PolicyConstants ==
  /\ Nobody \notin Face
  /\ Similar \subseteq Face \X Face
  /\ RiskScore \subseteq Nat /\ 0 \in RiskScore
  /\ R1 \in Nat /\ R2 \in Nat /\ R1 <= R2
  /\ MaxStepUps \in Nat
  /\ MinChallenges \in Nat \ {0} /\ MaxChallenges \in Nat
  /\ MinChallenges <= MaxChallenges
  /\ SessionTimeout \in Nat /\ ChallengeTimeout \in Nat
  /\ DevFallback \in BOOLEAN

ReasonCode ==
  {"SUCCESS", "LIVENESS_PASSED", "LIVENESS_FAILED", "CHALLENGE_TIMEOUT",
   "SESSION_EXPIRED", "NOT_ENROLLED", "SIMILARITY_BELOW_THRESHOLD",
   "NO_FACE", "MULTIPLE_FACES", "LOW_QUALITY", "FALLBACK_EMBEDDING_USED",
   "RISK_HIGH", "RISK_STEP_UP", "STEP_UP_COMPLETED", "STEP_UP_FAILED",
   "MAX_STEP_UPS_REACHED"}

-----------------------------------------------------------------------------
(* The session record. *)

ChallengeStatus == {"pending", "passed", "failed"}

ChallengeList ==
  UNION {[1..n -> ChallengeStatus] : n \in MinChallenges..MaxChallenges}

\* What ChallengeGenerator.generate_challenges can return.
FreshChallenges ==
  {[i \in 1..n |-> "pending"] : n \in MinChallenges..MaxChallenges}

Session ==
  [created: Nat, challenges: ChallengeList, index: Nat,
   finished: BOOLEAN, decision: {"none", "allow", "deny"},
   reasonCodes: SUBSET ReasonCode, livenessPassed: BOOLEAN,
   frameCount: Nat, probe: [face: Face \union {Nobody}, fallback: BOOLEAN],
   qualityReasons: SUBSET ReasonCode, risk: RiskScore,
   stepUpCount: Nat, stepUp: ChallengeList \union {<<>>}, stepUpIndex: Nat,
   stepUpIssued: Nat, inStepUp: BOOLEAN]

NoProbe == [face |-> Nobody, fallback |-> FALSE]

\* A session as SessionStore.create_session leaves it.
NewSession(list, t) ==
  [created |-> t, challenges |-> list, index |-> 1,
   finished |-> FALSE, decision |-> "none",
   reasonCodes |-> {}, livenessPassed |-> FALSE,
   frameCount |-> 0, probe |-> NoProbe,
   qualityReasons |-> {}, risk |-> 0,
   stepUpCount |-> 0, stepUp |-> <<>>,
   stepUpIndex |-> 1, stepUpIssued |-> 0, inStepUp |-> FALSE]

Expired(x, t) == t > x.created + SessionTimeout

AllCompleted(list) == \A i \in DOMAIN list : list[i] # "pending"
AllPassed(list) == \A i \in DOMAIN list : list[i] = "passed"

\* Mutant: only the primary list counts, in the step-up phase too.
ChallengesDoneMutant(x) == AllCompleted(x.challenges)

\* all_challenges_completed and, in the step-up phase,
\* all_step_up_challenges_completed (an empty step-up list is not complete)
ChallengesDone(x) ==
  /\ AllCompleted(x.challenges)
  /\ x.inStepUp => x.stepUp # <<>> /\ AllCompleted(x.stepUp)

-----------------------------------------------------------------------------
(* Liveness: one frame against the active challenge. *)

ActiveList(x) == IF x.inStepUp THEN x.stepUp ELSE x.challenges
ActiveIndex(x) == IF x.inStepUp THEN x.stepUpIndex ELSE x.index
ActiveIssued(x) == IF x.inStepUp THEN x.stepUpIssued ELSE x.created

\* Every challenge of a list is stamped when the list is generated, not when
\* its turn comes.
ChallengeExpired(x, t) == t > ActiveIssued(x) + ChallengeTimeout

\* Mark the active challenge of x.
MarkActive(x, status) ==
  IF x.inStepUp
  THEN [x EXCEPT !.stepUp[x.stepUpIndex] = status]
  ELSE [x EXCEPT !.challenges[x.index] = status]

\* LivenessEvaluator.evaluate_session_result
Judged(x, passed) ==
  [x EXCEPT !.livenessPassed = passed,
            !.reasonCodes = IF "LIVENESS_FAILED" \in @ THEN @
                            ELSE @ \union {IF passed THEN "LIVENESS_PASSED"
                                           ELSE "LIVENESS_FAILED"}]

\* Mutant: the step-up list is completed, its outcome is not looked at.
EvaluateSessionResultMutant(x) ==
  IF ChallengesDone(x) THEN Judged(x, AllPassed(x.challenges)) ELSE x

EvaluateSessionResult(x) ==
  IF ~ChallengesDone(x) THEN x
  ELSE IF AllPassed(x.challenges) /\ (x.inStepUp => AllPassed(x.stepUp))
       THEN Judged(x, TRUE) ELSE Judged(x, FALSE)

\* What /auth/frame does once the active challenge is completed: the next
\* challenge of the list becomes active, or the whole list is judged.
AdvanceOrJudge(x) ==
  IF ActiveIndex(x) + 1 \notin DOMAIN ActiveList(x) THEN EvaluateSessionResult(x)
  ELSE IF x.inStepUp THEN [x EXCEPT !.stepUpIndex = @ + 1]
  ELSE [x EXCEPT !.index = @ + 1]

\* LivenessEvaluator.process_frame and its caller.  detected is the answer
\* of the blink or pose detector for the active challenge.
ProcessFrame(x, detected, t) ==
  IF ChallengeExpired(x, t)
  THEN AdvanceOrJudge([MarkActive(x, "failed") EXCEPT
                         !.reasonCodes = @ \union {"CHALLENGE_TIMEOUT"}])
  ELSE IF detected THEN AdvanceOrJudge(MarkActive(x, "passed"))
  ELSE x

-----------------------------------------------------------------------------
(* Policy: the cascade of PolicyEngine.evaluate, in the order of its       *)
(* early returns, with liveness required and similarity enforced.          *)

Decide(decision, codes, liveness) ==
  [decision |-> decision, codes |-> codes, liveness |-> liveness]
Deny(codes, liveness) == Decide("deny", codes, liveness)

Similarity(probe, template) ==
  IF probe.face = Nobody \/ template = Nobody THEN "none"
  ELSE IF <<probe.face, template>> \in Similar THEN "match" ELSE "below"

LivenessSatisfied(x) == ChallengesDone(x) /\ x.livenessPassed

RiskGate(x, forceFinal) ==
  IF x.risk >= R2 THEN Deny({"RISK_HIGH"}, x.livenessPassed)
  ELSE IF forceFinal \/ x.risk < R1 THEN Decide("allow", {"LIVENESS_PASSED"}, TRUE)
  ELSE IF x.stepUpCount < MaxStepUps
       THEN Decide("step_up", {"RISK_STEP_UP"}, x.livenessPassed)
  ELSE Deny({"MAX_STEP_UPS_REACHED"}, FALSE)

\* Mutant: the template is looked at before the decision of a closed session.
EvaluateMutant(x, t, template, forceFinal) ==
  IF Expired(x, t) THEN Deny({"SESSION_EXPIRED"}, FALSE)
  ELSE IF template = Nobody THEN Deny({"NOT_ENROLLED"}, x.livenessPassed)
  ELSE IF x.finished
       THEN IF x.decision = "allow"
            THEN Decide("allow", {"SUCCESS"}, x.livenessPassed)
            ELSE Deny(x.reasonCodes, FALSE)
  ELSE IF ~LivenessSatisfied(x) THEN Deny({"LIVENESS_FAILED"}, FALSE)
  ELSE IF Similarity(x.probe, template) # "match"
       THEN Deny({"SIMILARITY_BELOW_THRESHOLD"}, x.livenessPassed)
  ELSE RiskGate(x, forceFinal)

Evaluate(x, t, template, forceFinal) ==
  IF Expired(x, t) THEN Deny({"SESSION_EXPIRED"}, FALSE)
  ELSE IF x.finished
       THEN IF x.decision = "allow"
            THEN Decide("allow", {"SUCCESS"}, x.livenessPassed)
            ELSE Deny(x.reasonCodes, FALSE)
  ELSE IF template = Nobody THEN Deny({"NOT_ENROLLED"}, x.livenessPassed)
  ELSE IF ~LivenessSatisfied(x) THEN Deny({"LIVENESS_FAILED"}, FALSE)
  ELSE IF Similarity(x.probe, template) # "match"
       THEN Deny({"SIMILARITY_BELOW_THRESHOLD"}, x.livenessPassed)
  ELSE RiskGate(x, forceFinal)

=============================================================================
