-------------------------- MODULE AuthSession_proofs --------------------------
(***************************************************************************)
(* Proofs about AuthSession, for every number of sessions and every value  *)
(* of the limits, thresholds and lifetimes.  The sessions of the store do  *)
(* not interact, so the inductive invariant is a predicate on one record,  *)
(* and the work is to show that each function that turns a record into     *)
(* its successor preserves it.                                             *)
(***************************************************************************)
EXTENDS AuthSession, TLAPS

\* The challenges after the active one have not been touched.
PendingAhead(list, i) == \A j \in DOMAIN list : j > i => list[j] = "pending"

\* What holds of the primary list and, in the step-up phase, of the other.
ListsOK(x) ==
  /\ PendingAhead(x.challenges, x.index)
  /\ x.inStepUp => x.stepUp \in ChallengeList /\ PendingAhead(x.stepUp, x.stepUpIndex)

\* What an open session owes to the verdicts it has been given.
VerdictOK(x) ==
  ~x.finished =>
    /\ x.decision = "none"
    /\ x.livenessPassed =>
         /\ AllPassed(x.challenges)
         /\ x.inStepUp /\ AllCompleted(x.stepUp) => AllPassed(x.stepUp)
    /\ IF x.inStepUp THEN x.stepUpCount = 1 /\ AllPassed(x.challenges)
                     ELSE x.stepUpCount = 0

\* What a record keeps from its first frame to its last.
RecordOK(x) ==
  /\ x.stepUpCount <= 1
  /\ x.frameCount <= MaxFrames + 1
  /\ x.frameCount > MaxFrames => x.finished /\ x.decision # "allow"
  /\ "FALLBACK_EMBEDDING_USED" \in x.qualityReasons => x.probe.fallback

SessionOK(x) == ListsOK(x) /\ VerdictOK(x) /\ RecordOK(x)

IInv == TypeOK /\ \A s \in store : SessionOK(session[s])

-----------------------------------------------------------------------------
(* Lists of challenges. *)

\* Marking one challenge keeps the list a list of the same length.
LEMMA MarkKeepsList ==
  ASSUME NEW list \in ChallengeList, NEW i, NEW status \in ChallengeStatus
  PROVE  /\ [list EXCEPT ![i] = status] \in ChallengeList
         /\ DOMAIN [list EXCEPT ![i] = status] = DOMAIN list
BY DEF ChallengeList

\* A list has a first challenge, its positions are naturals, and it is not
\* the empty list.
LEMMA ListShape ==
  ASSUME NEW list \in ChallengeList
  PROVE  /\ 1 \in DOMAIN list /\ DOMAIN list \subseteq Nat
         /\ list # <<>>
         /\ \A j \in DOMAIN list : list[j] \in ChallengeStatus
<1>1. PICK n \in MinChallenges..MaxChallenges : list \in [1..n -> ChallengeStatus]
  BY DEF ChallengeList
<1>2. 1 \in DOMAIN list /\ DOMAIN list \subseteq Nat
  BY <1>1, PolicyConstants
<1>3. list # <<>>
  BY <1>2
<1>4. QED
  BY <1>1, <1>2, <1>3

\* A fresh list is a list, and none of its challenges is completed.
LEMMA FreshShape ==
  ASSUME NEW list \in FreshChallenges
  PROVE  /\ list \in ChallengeList
         /\ \A j \in DOMAIN list : list[j] = "pending"
         /\ ~AllCompleted(list)
<1>1. PICK n \in MinChallenges..MaxChallenges : list = [i \in 1..n |-> "pending"]
  BY DEF FreshChallenges
<1>2. list \in ChallengeList
  BY <1>1 DEF ChallengeList, ChallengeStatus
<1>3. QED
  BY <1>1, <1>2, ListShape DEF AllCompleted

\* The relaxed copy keeps the shape of the lists.
LEMMA PassedListShape ==
  ASSUME NEW list \in ChallengeList \union {<<>>}
  PROVE  [i \in DOMAIN list |-> "passed"] \in ChallengeList \union {<<>>}
BY DEF ChallengeList, ChallengeStatus

-----------------------------------------------------------------------------
(* Type correctness, one transformer of the record after the other. *)

\* Marking the active challenge keeps the record a session.
LEMMA MarkActiveType ==
  ASSUME NEW x \in Session, NEW status \in ChallengeStatus,
         x.inStepUp => x.stepUp \in ChallengeList
  PROVE  MarkActive(x, status) \in Session
<1>1. CASE x.inStepUp
  <2>1. [x.stepUp EXCEPT ![x.stepUpIndex] = status] \in ChallengeList
    BY <1>1, MarkKeepsList
  <2>2. MarkActive(x, status)
          = [x EXCEPT !.stepUp = [x.stepUp EXCEPT ![x.stepUpIndex] = status]]
    BY <1>1 DEF MarkActive, Session
  <2>3. QED
    BY <2>1, <2>2 DEF Session
<1>2. CASE ~x.inStepUp
  <2>1. [x.challenges EXCEPT ![x.index] = status] \in ChallengeList
    BY MarkKeepsList DEF Session
  <2>2. MarkActive(x, status)
          = [x EXCEPT !.challenges = [x.challenges EXCEPT ![x.index] = status]]
    BY <1>2 DEF MarkActive, Session
  <2>3. QED
    BY <2>1, <2>2 DEF Session
<1>3. QED
  BY <1>1, <1>2 DEF Session

\* So does the verdict.
LEMMA JudgedType ==
  ASSUME NEW x \in Session, NEW passed \in BOOLEAN
  PROVE  Judged(x, passed) \in Session
<1>1. (IF passed THEN "LIVENESS_PASSED" ELSE "LIVENESS_FAILED") \in ReasonCode
  BY DEF ReasonCode
<1>2. QED
  BY <1>1 DEF Judged, Session

\* Judging the lists keeps the record a session.
LEMMA EvaluateSessionResultType ==
  ASSUME NEW x \in Session
  PROVE  EvaluateSessionResult(x) \in Session
BY JudgedType DEF EvaluateSessionResult

\* So does moving on to the next challenge.
LEMMA AdvanceOrJudgeType ==
  ASSUME NEW x \in Session
  PROVE  AdvanceOrJudge(x) \in Session
BY EvaluateSessionResultType DEF AdvanceOrJudge, Session

\* So does the whole of a frame's liveness evaluation.
LEMMA ProcessFrameType ==
  ASSUME NEW x \in Session, x.inStepUp => x.stepUp \in ChallengeList,
         NEW detected, NEW t
  PROVE  ProcessFrame(x, detected, t) \in Session
<1>1. MarkActive(x, "failed") \in Session /\ MarkActive(x, "passed") \in Session
  BY MarkActiveType DEF ChallengeStatus
<1>2. [MarkActive(x, "failed") EXCEPT !.reasonCodes = @ \union {"CHALLENGE_TIMEOUT"}]
        \in Session
  BY <1>1 DEF Session, ReasonCode
<1>3. QED
  BY <1>1, <1>2, AdvanceOrJudgeType DEF ProcessFrame

\* A record as it is created is a session.
LEMMA NewSessionType ==
  ASSUME NEW list \in ChallengeList, NEW t \in Nat
  PROVE  NewSession(list, t) \in Session
BY PolicyConstants DEF NewSession, Session, NoProbe

\* So is the placeholder of an id that is not in the store.
LEMMA BlankType == Blank \in Session
<1>1. [i \in 1..MinChallenges |-> "pending"] \in ChallengeList
  BY PolicyConstants DEF ChallengeList, ChallengeStatus
<1>2. QED
  BY <1>1, NewSessionType DEF Blank

\* What the quality gate and the embedder leave is a session.
LEMMA CaptureType ==
  ASSUME NEW x \in Session, NEW y \in Captures(x)
  PROVE  y \in Session
<1>1. CASE y = [x EXCEPT !.qualityReasons = {"LOW_QUALITY"}]
  BY <1>1 DEF Session, ReasonCode
<1>2. ASSUME NEW f \in Face, NEW b \in BOOLEAN, NEW codes \in SUBSET ReasonCode,
             y = [x EXCEPT !.probe = [face |-> f, fallback |-> b], !.qualityReasons = codes]
      PROVE  y \in Session
  BY <1>2 DEF Session
<1>3. QED
  BY <1>1, <1>2 DEF Captures, ReasonCode

-----------------------------------------------------------------------------
(***************************************************************************)
(* The record invariant.  A frame marks the active challenge, which breaks *)
(* the verdict part until the list is advanced or judged; MarkedOK is what *)
(* holds in between.                                                       *)
(***************************************************************************)

MarkedOK(y) ==
  /\ y \in Session /\ ListsOK(y) /\ RecordOK(y)
  /\ ~y.finished /\ y.decision = "none"
  /\ y.livenessPassed /\ ~y.inStepUp => AllCompleted(y.challenges)
  /\ IF y.inStepUp THEN y.stepUpCount = 1 /\ AllPassed(y.challenges)
                   ELSE y.stepUpCount = 0

\* Marking the active challenge leads from a sound open record to a marked one.
LEMMA MarkActiveKeeps ==
  ASSUME NEW x \in Session, SessionOK(x), ~x.finished, NEW status \in {"passed", "failed"}
  PROVE  MarkedOK(MarkActive(x, status))
<1> DEFINE y == MarkActive(x, status)
<1>1. y \in Session
  BY MarkActiveType DEF ChallengeStatus, SessionOK, ListsOK
<1>2. CASE x.inStepUp
  <2> DEFINE list == [x.stepUp EXCEPT ![x.stepUpIndex] = status]
  <2>1. y = [x EXCEPT !.stepUp = list]
    BY <1>2 DEF MarkActive, Session
  <2>2. list \in ChallengeList /\ DOMAIN list = DOMAIN x.stepUp
    BY <1>2, MarkKeepsList DEF SessionOK, ListsOK, ChallengeStatus
  <2>3. PendingAhead(list, x.stepUpIndex)
    BY <1>2, <2>2, ListShape DEF SessionOK, ListsOK, PendingAhead, Session
  <2>4. QED
    BY <1>1, <1>2, <2>1, <2>2, <2>3
       DEF MarkedOK, SessionOK, ListsOK, VerdictOK, RecordOK, Session
<1>3. CASE ~x.inStepUp
  <2> DEFINE list == [x.challenges EXCEPT ![x.index] = status]
  <2>1. y = [x EXCEPT !.challenges = list]
    BY <1>3 DEF MarkActive, Session
  <2>2. list \in ChallengeList /\ DOMAIN list = DOMAIN x.challenges
    BY MarkKeepsList DEF Session, ChallengeStatus
  <2>3. PendingAhead(list, x.index)
    BY <2>2, ListShape DEF SessionOK, ListsOK, PendingAhead, Session
  <2>4. x.livenessPassed => AllCompleted(list)
    BY <2>2 DEF SessionOK, VerdictOK, AllPassed, AllCompleted
  <2>5. QED
    BY <1>1, <1>3, <2>1, <2>2, <2>3, <2>4
       DEF MarkedOK, SessionOK, ListsOK, VerdictOK, RecordOK, Session
<1>4. QED
  BY <1>2, <1>3 DEF Session

\* The verdict over completed lists makes a marked record sound again.
LEMMA JudgeKeeps ==
  ASSUME NEW y, MarkedOK(y)
  PROVE  SessionOK(EvaluateSessionResult(y))
<1>1. CASE ~ChallengesDone(y)
  <2>1. ~y.inStepUp => ~y.livenessPassed
    BY <1>1 DEF MarkedOK, ChallengesDone
  <2>2. y.inStepUp => ~AllCompleted(y.stepUp)
    BY <1>1, ListShape DEF MarkedOK, ListsOK, ChallengesDone, AllPassed, AllCompleted
  <2>3. EvaluateSessionResult(y) = y
    BY <1>1 DEF EvaluateSessionResult
  <2>4. QED
    BY <2>1, <2>2, <2>3 DEF MarkedOK, SessionOK, VerdictOK
<1>2. ASSUME NEW passed \in BOOLEAN,
             passed => AllPassed(y.challenges) /\ (y.inStepUp => AllPassed(y.stepUp))
      PROVE  SessionOK(Judged(y, passed))
  <2>1. /\ Judged(y, passed).livenessPassed = passed
        /\ Judged(y, passed).challenges = y.challenges
        /\ Judged(y, passed).index = y.index
        /\ Judged(y, passed).stepUp = y.stepUp
        /\ Judged(y, passed).stepUpIndex = y.stepUpIndex
        /\ Judged(y, passed).inStepUp = y.inStepUp
        /\ Judged(y, passed).stepUpCount = y.stepUpCount
        /\ Judged(y, passed).finished = y.finished
        /\ Judged(y, passed).decision = y.decision
        /\ Judged(y, passed).frameCount = y.frameCount
        /\ Judged(y, passed).qualityReasons = y.qualityReasons
        /\ Judged(y, passed).probe = y.probe
    BY DEF Judged, MarkedOK, Session
  <2>2. ListsOK(Judged(y, passed)) /\ RecordOK(Judged(y, passed))
    BY <2>1 DEF MarkedOK, ListsOK, RecordOK
  <2>3. VerdictOK(Judged(y, passed))
    BY <1>2, <2>1 DEF MarkedOK, VerdictOK
  <2>4. QED
    BY <2>2, <2>3 DEF SessionOK
<1>3. QED
  BY <1>1, <1>2 DEF EvaluateSessionResult

\* So does moving on to the next challenge.
LEMMA AdvanceOrJudgeKeeps ==
  ASSUME NEW y, MarkedOK(y)
  PROVE  SessionOK(AdvanceOrJudge(y))
<1>1. CASE ActiveIndex(y) + 1 \notin DOMAIN ActiveList(y)
  BY <1>1, JudgeKeeps DEF AdvanceOrJudge
<1>2. CASE ActiveIndex(y) + 1 \in DOMAIN ActiveList(y) /\ y.inStepUp
  <2>1. AdvanceOrJudge(y) = [y EXCEPT !.stepUpIndex = y.stepUpIndex + 1]
    BY <1>2 DEF AdvanceOrJudge
  <2>2. y.stepUp[y.stepUpIndex + 1] = "pending" /\ y.stepUpIndex + 1 \in DOMAIN y.stepUp
    BY <1>2 DEF ActiveIndex, ActiveList, MarkedOK, ListsOK, PendingAhead, Session
  <2>3. ~AllCompleted(y.stepUp)
    BY <2>2 DEF AllCompleted
  <2>4. PendingAhead(y.stepUp, y.stepUpIndex + 1)
    BY <1>2, ListShape DEF MarkedOK, ListsOK, PendingAhead, Session
  <2>5. QED
    BY <1>2, <2>1, <2>3, <2>4 DEF MarkedOK, SessionOK, ListsOK, VerdictOK, RecordOK, Session
<1>3. CASE ActiveIndex(y) + 1 \in DOMAIN ActiveList(y) /\ ~y.inStepUp
  <2>1. AdvanceOrJudge(y) = [y EXCEPT !.index = y.index + 1]
    BY <1>3 DEF AdvanceOrJudge
  <2>2. y.challenges[y.index + 1] = "pending" /\ y.index + 1 \in DOMAIN y.challenges
    BY <1>3 DEF ActiveIndex, ActiveList, MarkedOK, ListsOK, PendingAhead, Session
  <2>3. ~y.livenessPassed
    BY <1>3, <2>2 DEF AllCompleted, MarkedOK
  <2>4. PendingAhead(y.challenges, y.index + 1)
    BY ListShape DEF MarkedOK, ListsOK, PendingAhead, Session
  <2>5. QED
    BY <1>3, <2>1, <2>3, <2>4 DEF MarkedOK, SessionOK, ListsOK, VerdictOK, RecordOK, Session
<1>4. QED
  BY <1>1, <1>2, <1>3 DEF MarkedOK, Session

\* A frame with a face, whatever the detector says, keeps the record sound.
LEMMA ProcessFrameKeeps ==
  ASSUME NEW x \in Session, SessionOK(x), ~x.finished, NEW detected, NEW t
  PROVE  ProcessFrame(x, detected, t) \in Session /\ SessionOK(ProcessFrame(x, detected, t))
<1>1. ProcessFrame(x, detected, t) \in Session
  BY ProcessFrameType DEF SessionOK, ListsOK
<1>2. CASE ChallengeExpired(x, t)
  <2> DEFINE m == MarkActive(x, "failed")
             y == [m EXCEPT !.reasonCodes = @ \union {"CHALLENGE_TIMEOUT"}]
  <2>1. MarkedOK(m)
    BY MarkActiveKeeps
  <2>2. MarkedOK(y)
    BY <2>1 DEF MarkedOK, Session, ReasonCode, ListsOK, RecordOK
  <2>3. QED
    BY <1>1, <1>2, <2>2, AdvanceOrJudgeKeeps DEF ProcessFrame
<1>3. CASE ~ChallengeExpired(x, t)
  BY <1>1, <1>3, MarkActiveKeeps, AdvanceOrJudgeKeeps DEF ProcessFrame
<1>4. QED
  BY <1>2, <1>3

\* A frame never closes the session: the liveness verdict does not.
LEMMA ProcessFrameStaysOpen ==
  ASSUME NEW x \in Session, SessionOK(x), ~x.finished, NEW detected, NEW t
  PROVE  ~ProcessFrame(x, detected, t).finished
<1>1. \A y : MarkedOK(y) => ~AdvanceOrJudge(y).finished
  BY DEF MarkedOK, AdvanceOrJudge, EvaluateSessionResult, Judged, Session
<1>2. MarkedOK(MarkActive(x, "failed")) /\ MarkedOK(MarkActive(x, "passed"))
  BY MarkActiveKeeps
<1>3. MarkedOK([MarkActive(x, "failed") EXCEPT
                  !.reasonCodes = @ \union {"CHALLENGE_TIMEOUT"}])
  BY <1>2 DEF MarkedOK, Session, ReasonCode, ListsOK, RecordOK
<1>4. QED
  BY <1>1, <1>2, <1>3 DEF ProcessFrame

\* Counting a frame keeps the record a session.
LEMMA CountedType ==
  ASSUME NEW x \in Session
  PROVE  Counted(x) \in Session /\ Counted(x).frameCount = x.frameCount + 1
<1>1. Counted(x).frameCount = x.frameCount + 1 /\ x.frameCount + 1 \in Nat
  BY DEF Counted, Session
<1>2. QED
  BY <1>1 DEF Counted, Session

\* Below the limit, counting a frame keeps an open record sound.
LEMMA CountedKeeps ==
  ASSUME NEW x \in Session, SessionOK(x), ~x.finished, x.frameCount < MaxFrames
  PROVE  Counted(x) \in Session /\ SessionOK(Counted(x)) /\ ~Counted(x).finished
<1>1. Counted(x) \in Session /\ Counted(x).frameCount = x.frameCount + 1
  BY CountedType
<1>3. ListsOK(Counted(x)) /\ VerdictOK(Counted(x)) /\ ~Counted(x).finished
  BY DEF Counted, Session, SessionOK, ListsOK, VerdictOK
<1>4. x.frameCount + 1 <= MaxFrames
  BY AuthConstants DEF Session
<1>5. /\ Counted(x).stepUpCount = x.stepUpCount
      /\ Counted(x).qualityReasons = x.qualityReasons
      /\ Counted(x).probe = x.probe
  BY DEF Counted, Session
<1>6. RecordOK(Counted(x))
  BY <1>1, <1>4, <1>5, AuthConstants DEF Session, SessionOK, RecordOK
<1>7. QED
  BY <1>1, <1>3, <1>6 DEF SessionOK

\* The quality gate and the embedder keep an open record sound.
LEMMA CaptureKeeps ==
  ASSUME NEW x \in Session, SessionOK(x), ~x.finished, NEW y \in Captures(x)
  PROVE  y \in Session /\ SessionOK(y) /\ ~y.finished
<1>1. CASE y = [x EXCEPT !.qualityReasons = {"LOW_QUALITY"}]
  BY <1>1 DEF Session, ReasonCode, SessionOK, ListsOK, VerdictOK, RecordOK
<1>2. ASSUME NEW f \in Face, NEW b \in BOOLEAN, NEW codes \in SUBSET ReasonCode,
             "FALLBACK_EMBEDDING_USED" \in codes => b,
             y = [x EXCEPT !.probe = [face |-> f, fallback |-> b], !.qualityReasons = codes]
      PROVE  y \in Session /\ SessionOK(y) /\ ~y.finished
  BY <1>2 DEF Session, SessionOK, ListsOK, VerdictOK, RecordOK
<1>3. QED
  BY <1>1, <1>2 DEF Captures, ReasonCode

\* Raising the risk keeps an open record sound.
LEMMA RiskierKeeps ==
  ASSUME NEW x \in Session, SessionOK(x), ~x.finished, NEW risk \in RiskScore
  PROVE  /\ Riskier(x, risk) \in Session /\ SessionOK(Riskier(x, risk))
         /\ ~Riskier(x, risk).finished
BY DEF Riskier, Session, SessionOK, ListsOK, VerdictOK, RecordOK

\* A record is sound when it is created.
LEMMA NewSessionKeeps ==
  ASSUME NEW list \in FreshChallenges, NEW t \in Nat
  PROVE  NewSession(list, t) \in Session /\ SessionOK(NewSession(list, t))
<1>1. NewSession(list, t) \in Session
  BY FreshShape, NewSessionType
<1>2. SessionOK(NewSession(list, t))
  BY FreshShape, AuthConstants
     DEF NewSession, NoProbe, SessionOK, ListsOK, VerdictOK, RecordOK, PendingAhead
<1>3. QED
  BY <1>1, <1>2

-----------------------------------------------------------------------------
(* The decision. *)

\* The policy cascade answers one of three decisions, with known codes.
LEMMA EvaluateType ==
  ASSUME NEW x \in Session, NEW t, NEW tpl, NEW force
  PROVE  Evaluate(x, t, tpl, force) \in
           [decision: {"allow", "deny", "step_up"}, codes: SUBSET ReasonCode,
            liveness: BOOLEAN]
BY DEF Evaluate, RiskGate, Deny, Decide, Session, ReasonCode

\* The relaxed copy of a session is a session.
LEMMA RelaxedType ==
  ASSUME NEW x \in Session
  PROVE  Relaxed(x) \in Session
<1>1. [i \in DOMAIN x.challenges |-> "passed"] \in ChallengeList
  BY DEF Session, ChallengeList, ChallengeStatus
<1>2. [i \in DOMAIN x.stepUp |-> "passed"] \in ChallengeList \union {<<>>}
  BY PassedListShape DEF Session
<1>3. QED
  BY <1>1, <1>2 DEF Relaxed, Session

\* A finish request comes to one of the three decisions.
LEMMA DecisionType ==
  ASSUME NEW x \in Session, NEW t
  PROVE  Decision(x, t) \in
           [decision: {"allow", "deny", "step_up"}, codes: SUBSET ReasonCode,
            liveness: BOOLEAN]
BY EvaluateType, RelaxedType DEF Decision

\* A session that is already closed, and not by an allow, is denied.
LEMMA ClosedStaysDenied ==
  ASSUME NEW x \in Session, x.finished, x.decision # "allow", NEW t
  PROVE  Decision(x, t).decision = "deny"
<1>1. \A y \in Session : \A force : y.finished /\ y.decision # "allow"
        => Evaluate(y, t, template, force).decision = "deny"
  BY DEF Evaluate, Deny, Decide
<1>2. Relaxed(x) \in Session /\ Relaxed(x).finished /\ Relaxed(x).decision # "allow"
  BY RelaxedType DEF Relaxed, Session
<1>3. QED
  BY <1>1, <1>2 DEF Decision

\* A step-up is decided only for an open session that has had none and whose
\* primary challenges are all passed.
LEMMA StepUpIsFirst ==
  ASSUME NEW x \in Session, SessionOK(x), NEW t, Decision(x, t).decision = "step_up"
  PROVE  ~x.finished /\ ~x.inStepUp /\ x.stepUpCount = 0 /\ AllPassed(x.challenges)
<1>1. Evaluate(Relaxed(x), t, template, TRUE).decision # "step_up"
  BY DEF Evaluate, RiskGate, Deny, Decide
<1>2. Evaluate(x, t, template, x.inStepUp).decision = "step_up"
  BY <1>1 DEF Decision
<1>3. ~x.finished /\ ~x.inStepUp /\ x.livenessPassed
  BY <1>2 DEF Evaluate, RiskGate, Deny, Decide, LivenessSatisfied, Session
<1>4. QED
  BY <1>3 DEF SessionOK, VerdictOK

\* An open session is allowed only when it earned it.
LEMMA AllowIsEarnedByRecord ==
  ASSUME NEW x \in Session, SessionOK(x), ~x.finished, NEW t,
         Decision(x, t).decision = "allow"
  PROVE  Earned(x)
<1>1. ASSUME NEW y \in Session, NEW force, ~y.finished,
             Evaluate(y, t, template, force).decision = "allow"
      PROVE  /\ Similarity(y.probe, template) = "match" /\ y.risk < R2
             /\ LivenessSatisfied(y)
             /\ y.risk >= R1 => force
  <2>1. y.risk \in Nat
    BY PolicyConstants DEF Session
  <2>2. QED
    BY <1>1, <2>1, PolicyConstants DEF Evaluate, RiskGate, Deny, Decide
<1>2. CASE RelaxationApplies(x, Evaluate(x, t, template, x.inStepUp))
  <2>1. Evaluate(Relaxed(x), t, template, TRUE).decision = "allow"
    BY <1>2 DEF Decision
  <2>2. Relaxed(x) \in Session /\ ~Relaxed(x).finished
        /\ Relaxed(x).risk = x.risk /\ Relaxed(x).probe = x.probe
    BY RelaxedType DEF Relaxed, Session
  <2>3. x.risk < R2 /\ Similarity(x.probe, template) = "match"
    BY <1>1, <2>1, <2>2
  <2>4. DevFallback /\ x.probe.fallback
    BY <1>2 DEF RelaxationApplies, SessionOK, RecordOK
  <2>5. QED
    BY <2>3, <2>4 DEF Earned
<1>3. CASE ~RelaxationApplies(x, Evaluate(x, t, template, x.inStepUp))
  <2>1. Evaluate(x, t, template, x.inStepUp).decision = "allow"
    BY <1>3 DEF Decision
  <2>2. /\ Similarity(x.probe, template) = "match" /\ x.risk < R2
        /\ LivenessSatisfied(x)
        /\ x.risk >= R1 => x.inStepUp
    BY <1>1, <2>1
  <2>3. AllPassed(x.challenges) /\ (x.inStepUp => AllPassed(x.stepUp))
    BY <2>2 DEF LivenessSatisfied, ChallengesDone, SessionOK, VerdictOK
  <2>4. QED
    BY <2>2, <2>3 DEF Earned
<1>4. QED
  BY <1>2, <1>3

\* Decisions from the worst for the user to the best.
Rank(d) == IF d.decision = "deny" THEN 0 ELSE IF d.decision = "step_up" THEN 1 ELSE 2

\* The denial that the development relaxation looks for.
LivenessDenial(d) == d.decision = "deny" /\ d.codes = {"LIVENESS_FAILED"}

\* The policy cascade alone: more risk and a later clock never help, and decide
\* nothing about liveness until the session expires.
LEMMA CascadeNeverBetter ==
  ASSUME NEW x \in Session, NEW y \in Session, NEW t1 \in Nat, NEW t2 \in Nat,
         t1 <= t2, y = [x EXCEPT !.risk = y.risk], x.risk <= y.risk, NEW force
  PROVE  LET before == Evaluate(x, t1, template, force)
             after == Evaluate(y, t2, template, force)
         IN  /\ Rank(after) <= Rank(before)
             /\ Expired(y, t2) => Rank(after) = 0 /\ ~LivenessDenial(after)
             /\ ~Expired(y, t2) => (LivenessDenial(before) <=> LivenessDenial(after))
<1>1. /\ y.created = x.created /\ y.finished = x.finished /\ y.decision = x.decision
      /\ y.reasonCodes = x.reasonCodes /\ y.probe = x.probe
      /\ LivenessSatisfied(y) = LivenessSatisfied(x)
      /\ y.livenessPassed = x.livenessPassed /\ y.stepUpCount = x.stepUpCount
  BY DEF Session, LivenessSatisfied, ChallengesDone
<1>2. /\ x.risk \in Nat /\ y.risk \in Nat /\ R1 \in Nat /\ R2 \in Nat
      /\ x.created \in Nat /\ SessionTimeout \in Nat
  BY PolicyConstants DEF Session
<1>3. Expired(x, t1) => Expired(y, t2)
  BY <1>1, <1>2 DEF Expired
<1>4. Rank(RiskGate(y, force)) <= Rank(RiskGate(x, force))
  BY <1>1, <1>2 DEF RiskGate, Rank, Deny, Decide
<1>5. \A z, t, f : /\ Rank(Evaluate(z, t, template, f)) \in 0..2
                   /\ Expired(z, t) => Rank(Evaluate(z, t, template, f)) = 0
  BY DEF Evaluate, RiskGate, Rank, Deny, Decide
<1>6. CASE Expired(y, t2)
  <2>1. Evaluate(y, t2, template, force).codes = {"SESSION_EXPIRED"}
    BY <1>6 DEF Evaluate, Deny, Decide
  <2>2. "SESSION_EXPIRED" \notin {"LIVENESS_FAILED"}
    OBVIOUS
  <2>3. ~LivenessDenial(Evaluate(y, t2, template, force))
    BY <2>1, <2>2 DEF LivenessDenial
  <2> QED
    BY <1>5, <1>6, <2>3
<1>7. CASE ~Expired(y, t2)
  <2>1. ~Expired(x, t1)
    BY <1>3, <1>7
  <2>2. ~LivenessDenial(RiskGate(x, force)) /\ ~LivenessDenial(RiskGate(y, force))
    BY DEF RiskGate, Deny, Decide, LivenessDenial
  <2>3. \/ Evaluate(x, t1, template, force) = Evaluate(y, t2, template, force)
        \/ /\ Evaluate(x, t1, template, force) = RiskGate(x, force)
           /\ Evaluate(y, t2, template, force) = RiskGate(y, force)
    BY <1>1, <1>7, <2>1 DEF Evaluate
  <2> QED
    BY <1>4, <1>5, <1>7, <2>2, <2>3
<1> QED
  BY <1>6, <1>7

\* A frame's risk score and the time that passes never turn the decision of a
\* session in the user's favour: an attempt denied as it stands is not allowed by
\* a worse score or a later finish, with the development relaxation or without.
THEOREM NeverBetter ==
  ASSUME NEW x \in Session, NEW risk \in RiskScore,
         NEW t1 \in Nat, NEW t2 \in Nat, t1 <= t2
  PROVE  Rank(Decision(Riskier(x, risk), t2)) <= Rank(Decision(x, t1))
<1> DEFINE y == Riskier(x, risk)
<1>1. y \in Session /\ y = [x EXCEPT !.risk = y.risk] /\ x.risk <= y.risk
  <2>1. PICK r \in RiskScore : y = [x EXCEPT !.risk = r] /\ x.risk <= r
    <3>1. x.risk \in RiskScore /\ x = [x EXCEPT !.risk = x.risk]
      BY DEF Session
    <3>2. x.risk \in Nat /\ risk \in Nat
      BY <3>1, PolicyConstants
    <3>3. CASE risk > x.risk
      BY <3>2, <3>3 DEF Riskier
    <3>4. CASE ~(risk > x.risk)
      BY <3>1, <3>2, <3>4 DEF Riskier
    <3> QED
      BY <3>3, <3>4
  <2> HIDE DEF y
  <2>2. y.risk = r /\ y \in Session
    BY <2>1 DEF Session
  <2> QED
    BY <2>1, <2>2
<1>2. /\ y.inStepUp = x.inStepUp /\ y.probe = x.probe /\ y.finished = x.finished
      /\ y.qualityReasons = x.qualityReasons /\ y.decision = x.decision
      /\ y.created = x.created /\ y.reasonCodes = x.reasonCodes
  BY DEF Riskier, Session
<1>3. /\ Relaxed(x) \in Session /\ Relaxed(y) \in Session
      /\ Relaxed(y) = [Relaxed(x) EXCEPT !.risk = Relaxed(y).risk]
      /\ Relaxed(x).risk <= Relaxed(y).risk
  <2>1. y.challenges = x.challenges /\ y.stepUp = x.stepUp
    BY DEF Riskier, Session
  <2> HIDE DEF y
  <2>2. Relaxed(x).risk = x.risk /\ Relaxed(y).risk = y.risk
    BY <1>1 DEF Relaxed, Session
  <2>3. Relaxed(y) = [Relaxed(x) EXCEPT !.risk = y.risk]
    BY <1>1, <2>1 DEF Relaxed, Session
  <2> QED
    BY <1>1, <2>2, <2>3, RelaxedType
<1> DEFINE ex == Evaluate(x, t1, template, x.inStepUp)
           ey == Evaluate(y, t2, template, x.inStepUp)
           rx == Evaluate(Relaxed(x), t1, template, TRUE)
           ry == Evaluate(Relaxed(y), t2, template, TRUE)
<1>4. Rank(ey) <= Rank(ex) /\ Rank(ry) <= Rank(rx)
  BY <1>1, <1>3, CascadeNeverBetter
<1>5. \A z, t, f : Rank(Evaluate(z, t, template, f)) \in 0..2
  BY DEF Evaluate, RiskGate, Rank, Deny, Decide
<1> HIDE DEF y
<1>6. Decision(x, t1) = IF RelaxationApplies(x, ex) THEN rx ELSE ex
  BY DEF Decision
<1>7. Decision(y, t2) = IF RelaxationApplies(y, ey) THEN ry ELSE ey
  BY <1>2 DEF Decision
<1>8. RelaxationApplies(x, ex) => LivenessDenial(ex) /\ Rank(ex) = 0
  BY DEF RelaxationApplies, LivenessDenial, Rank
<1>9. RelaxationApplies(y, ey) => LivenessDenial(ey)
  BY DEF RelaxationApplies, LivenessDenial
<1>10. /\ RelaxationApplies(x, ex) /\ LivenessDenial(ey) => RelaxationApplies(y, ey)
       /\ RelaxationApplies(y, ey) /\ LivenessDenial(ex) => RelaxationApplies(x, ex)
  BY <1>2 DEF RelaxationApplies, LivenessDenial
<1>11. /\ Expired(y, t2) => Rank(ey) = 0 /\ ~LivenessDenial(ey)
       /\ ~Expired(y, t2) => (LivenessDenial(ex) <=> LivenessDenial(ey))
  BY <1>1, CascadeNeverBetter
<1> HIDE DEF ex, ey, rx, ry
<1>12. Rank(ex) \in 0..2 /\ Rank(ey) \in 0..2 /\ Rank(rx) \in 0..2 /\ Rank(ry) \in 0..2
  BY <1>5 DEF ex, ey, rx, ry
<1> QED
  BY <1>4, <1>6, <1>7, <1>8, <1>9, <1>10, <1>11, <1>12 DEF y
-----------------------------------------------------------------------------
(* Closing a session and entering the step-up phase. *)

\* The codes a closed session reports are reason codes.
LEMMA FinalCodesType ==
  ASSUME NEW x \in Session, NEW d, d.codes \subseteq ReasonCode
  PROVE  FinalCodes(x, d) \subseteq ReasonCode
BY DEF FinalCodes, FallbackCode, Session, ReasonCode

\* Closing a session on a final decision keeps its record sound.
LEMMA CloseKeeps ==
  ASSUME NEW x \in Session, SessionOK(x), NEW t, Decision(x, t).decision # "step_up"
  PROVE  /\ Close(x, Decision(x, t)) \in Session
         /\ SessionOK(Close(x, Decision(x, t)))
<1> DEFINE d == Decision(x, t)
           c == Close(x, d)
<1> HIDE DEF d
<1>1. d \in [decision: {"allow", "deny", "step_up"}, codes: SUBSET ReasonCode,
             liveness: BOOLEAN]
  BY DecisionType DEF d
<1>2. d.decision \in {"allow", "deny"}
  BY <1>1 DEF d
<1>3. FinalCodes(x, d) \subseteq ReasonCode
  BY <1>1, FinalCodesType
<1>4. c \in Session
  BY <1>1, <1>2, <1>3 DEF Close, Session
<1>5. ListsOK(c) /\ VerdictOK(c)
  BY DEF Close, Session, SessionOK, ListsOK, VerdictOK
<1>6. x.frameCount > MaxFrames => d.decision # "allow"
  BY ClosedStaysDenied DEF SessionOK, RecordOK, d
<1>7. RecordOK(c)
  BY <1>6 DEF Close, Session, SessionOK, RecordOK
<1>8. QED
  BY <1>4, <1>5, <1>7 DEF SessionOK, d

\* Entering the step-up phase keeps the record sound.
LEMMA EnterStepUpKeeps ==
  ASSUME NEW x \in Session, SessionOK(x), NEW t \in Nat, NEW list \in FreshChallenges,
         Decision(x, t).decision = "step_up"
  PROVE  EnterStepUp(x, list, t) \in Session /\ SessionOK(EnterStepUp(x, list, t))
<1> DEFINE y == EnterStepUp(x, list, t)
<1>1. ~x.finished /\ ~x.inStepUp /\ x.stepUpCount = 0 /\ AllPassed(x.challenges)
  BY StepUpIsFirst
<1>2. list \in ChallengeList /\ ~AllCompleted(list) /\ PendingAhead(list, 1)
  BY FreshShape DEF PendingAhead
<1>3. y \in Session
  <2> DEFINE z == [x EXCEPT !.stepUp = list, !.stepUpIndex = 1, !.stepUpIssued = t,
                            !.stepUpCount = 1, !.inStepUp = TRUE]
  <2>1. z \in Session
    BY <1>2 DEF Session
  <2>2. y = z
    BY <1>1 DEF EnterStepUp
  <2>3. QED
    BY <2>1, <2>2
<1>4. ListsOK(y)
  BY <1>2 DEF EnterStepUp, Session, SessionOK, ListsOK
<1>5. VerdictOK(y)
  BY <1>1, <1>2 DEF EnterStepUp, Session, SessionOK, VerdictOK
<1>6. RecordOK(y)
  BY <1>1 DEF EnterStepUp, Session, SessionOK, RecordOK
<1>7. QED
  BY <1>3, <1>4, <1>5, <1>6 DEF SessionOK

-----------------------------------------------------------------------------
(* The inductive invariant. *)

\* The instants a request reads are within the bound of the clock.
LEMMA LaterType ==
  ASSUME now \in 0..MaxTime, NEW t \in Later
  PROVE  t \in 0..MaxTime /\ t \in Nat
BY AuthConstants DEF Later

\* A step that replaces one stored record by a sound one keeps the sessions.
LEMMA UpdateKeeps ==
  ASSUME IInv, NEW s \in SessionId, NEW x \in Session, SessionOK(x),
         session' = [session EXCEPT ![s] = x], store' \subseteq store \union {s}
  PROVE  /\ session' \in [SessionId -> Session]
         /\ \A q \in store' : SessionOK(session'[q])
BY DEF IInv, TypeOK

\* A frame that raises (auth.py:397) leaves a sound session, open and in its
\* phase.
LEMMA RaisedStep ==
  ASSUME IInv, NEW s \in SessionId, FrameRaises(s)
  PROVE  /\ s \in store /\ ~session[s].finished
         /\ UNCHANGED <<issued, store, audit>>
         /\ \E y \in Session :
              /\ session' = [session EXCEPT ![s] = y]
              /\ SessionOK(y) /\ ~y.finished /\ y.decision = "none"
              /\ y.inStepUp = session[s].inStepUp
<1> DEFINE c == Counted(session[s])
<1>1. PICK x \in Captures(c), risk \in RiskScore :
        session' = [session EXCEPT ![s] = Riskier(x, risk)]
  BY DEF FrameRaises
<1>2. /\ s \in store /\ ~session[s].finished /\ session[s] \in Session
      /\ session[s].frameCount < MaxFrames
  BY DEF IInv, TypeOK, FrameRaises, Admitted, Found
<1>3. c \in Session /\ SessionOK(c) /\ ~c.finished
  BY <1>2, CountedKeeps DEF IInv
<1>4. c.inStepUp = session[s].inStepUp
  BY <1>2 DEF Counted, Session
<1>5. x \in Session /\ SessionOK(x) /\ ~x.finished
  BY <1>3, CaptureKeeps
<1>6. x.inStepUp = c.inStepUp
  BY <1>3 DEF Captures, Session
<1>7. Riskier(x, risk) \in Session /\ SessionOK(Riskier(x, risk)) /\ ~Riskier(x, risk).finished
  BY <1>5, RiskierKeeps
<1>8. Riskier(x, risk).inStepUp = x.inStepUp
  BY <1>5 DEF Riskier, Session
<1>9. Riskier(x, risk).decision = "none"
  BY <1>7 DEF SessionOK, VerdictOK
<1>10. UNCHANGED <<issued, store, audit>>
  BY DEF FrameRaises
<1>11. QED
  BY <1>1, <1>2, <1>4, <1>6, <1>7, <1>8, <1>9, <1>10

\* The initial states satisfy the inductive invariant.
LEMMA InitIInv == Init => IInv
BY BlankType, AuthConstants DEF Init, IInv, TypeOK

\* Every step, one action after the other, preserves it.
LEMMA StepIInv == IInv /\ [Next]_vars => IInv'
<1> SUFFICES ASSUME IInv, [Next]_vars PROVE IInv'
  OBVIOUS
<1> USE DEF IInv, TypeOK
<1>1. ASSUME NEW s \in SessionId, Start(s) PROVE IInv'
  <2>1. PICK list \in FreshChallenges : session' = [session EXCEPT ![s] = NewSession(list, now)]
    BY <1>1 DEF Start
  <2>2. NewSession(list, now) \in Session /\ SessionOK(NewSession(list, now))
    BY NewSessionKeeps
  <2>3. QED
    BY <1>1, <2>1, <2>2, UpdateKeeps DEF Start
<1>2. ASSUME NEW s \in SessionId, DropExpired(s) PROVE IInv'
  BY <1>2, BlankType DEF DropExpired
<1>3. ASSUME NEW s \in SessionId, FrameOverLimit(s) PROVE IInv'
  <2> DEFINE x == session[s]
             y == [Counted(x) EXCEPT !.finished = TRUE]
  <2>1. x \in Session /\ SessionOK(x) /\ ~x.finished /\ x.frameCount = MaxFrames
    BY <1>3, AuthConstants DEF FrameOverLimit, Admitted, Found, SessionOK, RecordOK, Session
  <2>2. y \in Session /\ y.frameCount = MaxFrames + 1 /\ y.finished
    <3>1. Counted(x) \in Session /\ Counted(x).frameCount = MaxFrames + 1
      BY <2>1, CountedType
    <3>2. QED
      BY <3>1 DEF Session
  <2>3. ListsOK(y) /\ VerdictOK(y)
    BY <2>1 DEF Counted, Session, SessionOK, ListsOK, VerdictOK
  <2>4. RecordOK(y)
    <3>1. /\ y.stepUpCount = x.stepUpCount /\ y.decision = x.decision
          /\ y.qualityReasons = x.qualityReasons /\ y.probe = x.probe
      BY <2>1 DEF Counted, Session
    <3>2. x.decision = "none"
      BY <2>1 DEF SessionOK, VerdictOK
    <3>3. QED
      BY <2>1, <2>2, <3>1, <3>2, AuthConstants DEF SessionOK, RecordOK
  <2>5. SessionOK(y)
    BY <2>3, <2>4 DEF SessionOK
  <2>6. session' = [session EXCEPT ![s] = y] /\ store' = store
    BY <1>3 DEF FrameOverLimit
  <2>7. QED
    BY <1>3, <2>2, <2>5, <2>6, UpdateKeeps DEF FrameOverLimit
<1>4. ASSUME NEW s \in SessionId, FrameModelUnavailable(s) PROVE IInv'
  <2>1. Counted(session[s]) \in Session /\ SessionOK(Counted(session[s]))
    BY <1>4, CountedKeeps DEF FrameModelUnavailable, Admitted, Found
  <2>2. QED
    BY <1>4, <2>1, UpdateKeeps DEF FrameModelUnavailable
<1>5. ASSUME NEW s \in SessionId, NEW t \in Later, NEW x \in Session, SessionOK(x),
             Processed(s, x, t)
      PROVE  IInv'
  <2>1. t \in 0..MaxTime /\ t + MinInterval \in Nat
    BY LaterType, AuthConstants
  <2>2. QED
    BY <1>5, <2>1, UpdateKeeps DEF Processed
<1>6. ASSUME NEW s \in SessionId, FrameWithoutSingleFace(s) PROVE IInv'
  <2>1. PICK t \in Later, code \in {"NO_FACE", "MULTIPLE_FACES"} :
          Processed(s, [Counted(session[s]) EXCEPT !.qualityReasons = {code}], t)
    BY <1>6 DEF FrameWithoutSingleFace
  <2> DEFINE x == Counted(session[s])
             y == [x EXCEPT !.qualityReasons = {code}]
  <2>2. x \in Session /\ SessionOK(x)
    BY <1>6, CountedKeeps DEF FrameWithoutSingleFace, Admitted, Found
  <2>3. y \in Session /\ SessionOK(y)
    BY <2>2 DEF Session, ReasonCode, SessionOK, ListsOK, VerdictOK, RecordOK
  <2>4. QED
    BY <1>5, <2>1, <2>3
<1>7. ASSUME NEW s \in SessionId, FrameWithFace(s) PROVE IInv'
  <2>1. PICK t \in Later, x \in Captures(Counted(session[s])),
             risk \in RiskScore, detected \in BOOLEAN :
          Processed(s, ProcessFrame(Riskier(x, risk), detected, t), t)
    BY <1>7 DEF FrameWithFace
  <2>2. /\ Counted(session[s]) \in Session /\ SessionOK(Counted(session[s]))
        /\ ~Counted(session[s]).finished
    BY <1>7, CountedKeeps DEF FrameWithFace, Admitted, Found
  <2>3. x \in Session /\ SessionOK(x) /\ ~x.finished
    BY <2>2, CaptureKeeps
  <2>4. Riskier(x, risk) \in Session /\ SessionOK(Riskier(x, risk)) /\ ~Riskier(x, risk).finished
    BY <2>3, RiskierKeeps
  <2>5. QED
    BY <1>5, <2>1, <2>4, ProcessFrameKeeps
<1>8. ASSUME NEW s \in SessionId, FinishStepUp(s) PROVE IInv'
  <2>1. PICK t \in Later, list \in FreshChallenges :
          /\ Decision(session[s], t).decision = "step_up"
          /\ session' = [session EXCEPT ![s] = EnterStepUp(session[s], list, t)]
          /\ now' = t
    BY <1>8 DEF FinishStepUp
  <2>2. t \in 0..MaxTime /\ t \in Nat
    BY LaterType
  <2>3. /\ EnterStepUp(session[s], list, t) \in Session
        /\ SessionOK(EnterStepUp(session[s], list, t))
    BY <1>8, <2>1, <2>2, EnterStepUpKeeps DEF FinishStepUp, Found
  <2>4. QED
    BY <1>8, <2>1, <2>2, <2>3, UpdateKeeps DEF FinishStepUp
<1>9. ASSUME NEW s \in SessionId, FinishFinal(s) PROVE IInv'
  <2>1. PICK t \in Later, auditWritten \in BOOLEAN :
          LET d == Decision(session[s], t)
          IN  /\ d.decision # "step_up"
              /\ session' = [session EXCEPT ![s] = Close(session[s], d)]
              /\ audit' = IF auditWritten
                          THEN Append(audit, [session |-> s, outcome |-> d.decision,
                                              codes |-> FinalCodes(session[s], d)])
                          ELSE audit
              /\ now' = t
    BY <1>9 DEF FinishFinal
  <2> DEFINE d == Decision(session[s], t)
  <2>2. t \in 0..MaxTime
    BY LaterType
  <2>3. session[s] \in Session /\ SessionOK(session[s]) /\ s \in store
    BY <1>9 DEF FinishFinal, Found
  <2>4. Close(session[s], d) \in Session /\ SessionOK(Close(session[s], d))
    BY <2>1, <2>3, CloseKeeps
  <2>5. d.decision \in {"allow", "deny"} /\ FinalCodes(session[s], d) \subseteq ReasonCode
    BY <2>1, <2>3, DecisionType, FinalCodesType
  <2> HIDE DEF d
  <2>6. audit' \in Seq(AuditRecord)
    <3>1. [session |-> s, outcome |-> d.decision, codes |-> FinalCodes(session[s], d)]
            \in AuditRecord
      BY <2>5 DEF AuditRecord
    <3>2. QED
      BY <2>1, <3>1 DEF d
  <2>7. QED
    BY <1>9, <2>1, <2>2, <2>3, <2>4, <2>6, UpdateKeeps DEF FinishFinal, d
<1>10. CASE Tick
  BY <1>10, AuthConstants DEF Tick
<1>11. CASE ChangeTemplate
  BY <1>11 DEF ChangeTemplate
<1>12. CASE Restart
  BY <1>12, BlankType DEF Restart
<1>13. CASE UNCHANGED vars
  BY <1>13 DEF vars
<1>14. ASSUME NEW s \in SessionId, FrameRaises(s) PROVE IInv'
  <2>1. PICK y \in Session : session' = [session EXCEPT ![s] = y] /\ SessionOK(y)
    BY <1>14, RaisedStep
  <2>2. QED
    BY <1>14, <2>1, UpdateKeeps DEF FrameRaises
<1>15. QED
  BY <1>1, <1>2, <1>3, <1>4, <1>6, <1>7, <1>8, <1>9, <1>10, <1>11, <1>12, <1>13, <1>14
     DEF Next

-----------------------------------------------------------------------------
(* The theorems. *)

\* Every reachable state is well typed and every stored session sound.
THEOREM Inductive == Spec => []IInv
<1>1. QED
  BY InitIInv, StepIInv, PTL DEF Spec

\* Type correctness of the session store, the rate cap and the audit log.
THEOREM TypeCorrect == Spec => []TypeOK
<1>1. IInv => TypeOK
  BY DEF IInv
<1>2. QED
  BY <1>1, Inductive, PTL

\* liveness_passed of an open session means what it says (evaluator.py).
THEOREM LivenessIsEarned == Spec => []LivenessEarned
<1>1. IInv => LivenessEarned
  BY DEF IInv, SessionOK, VerdictOK, LivenessEarned
<1>2. QED
  BY <1>1, Inductive, PTL

\* Whatever MAX_STEP_UPS_PER_SESSION says, a session gets at most one
\* step-up round: the finish that follows it is forced to be final.
AtMostOneStepUpRound == \A s \in store : session[s].stepUpCount <= 1

\* One step-up round at most, for every value of MaxStepUps (policy.py).
THEOREM OneStepUpRound == Spec => []AtMostOneStepUpRound
<1>1. IInv => AtMostOneStepUpRound
  BY DEF IInv, SessionOK, RecordOK, AtMostOneStepUpRound
<1>2. QED
  BY <1>1, Inductive, PTL

\* The frame limit closes a session for good (auth_frame and policy.py).
THEOREM FrameLimitCloses == Spec => []FrameLimitIsFinal
<1>1. IInv => FrameLimitIsFinal
  BY DEF IInv, SessionOK, RecordOK, FrameLimitIsFinal
<1>2. QED
  BY <1>1, Inductive, PTL

\* The code that lets the development relaxation skip liveness is present
\* only while the probe to be compared came from the fallback embedder.
FallbackFlagHonest ==
  \A s \in store :
    "FALLBACK_EMBEDDING_USED" \in session[s].qualityReasons => session[s].probe.fallback

\* The fallback code never outlives its probe (auth_frame).
THEOREM FallbackFlag == Spec => []FallbackFlagHonest
<1>1. IInv => FallbackFlagHonest
  BY DEF IInv, SessionOK, RecordOK, FallbackFlagHonest
<1>2. QED
  BY <1>1, Inductive, PTL

\* The only step that turns a session to "allow" is a final decision, on an
\* open session of the store, that allows it.
LEMMA AllowStep ==
  ASSUME IInv, [Next]_vars, NEW s \in SessionId,
         session'[s].decision = "allow", session[s].decision # "allow"
  PROVE  Earned(session[s])
<1> USE DEF IInv, TypeOK
<1>1. Blank.decision = "none"
  BY DEF Blank, NewSession
<1>2. ASSUME NEW q \in SessionId, NEW x, session' = [session EXCEPT ![q] = x],
             x.decision # "allow" \/ x.decision = session[q].decision
      PROVE  FALSE
  BY <1>2
<1>3. ASSUME NEW q \in SessionId, Start(q) PROVE FALSE
  <2>1. PICK list : session' = [session EXCEPT ![q] = NewSession(list, now)]
    BY <1>3 DEF Start
  <2>2. QED
    BY <1>2, <2>1 DEF NewSession
<1>4. ASSUME NEW q \in SessionId, DropExpired(q) PROVE FALSE
  BY <1>1, <1>2, <1>4 DEF DropExpired
<1>5. ASSUME NEW q \in SessionId, Admitted(q) PROVE session[q].decision = "none"
  BY <1>5 DEF Admitted, Found, SessionOK, VerdictOK
<1>6. ASSUME NEW q \in SessionId, FrameOverLimit(q) PROVE FALSE
  <2>1. [Counted(session[q]) EXCEPT !.finished = TRUE].decision = session[q].decision
    BY DEF Counted, Session
  <2>2. session' = [session EXCEPT ![q] = [Counted(session[q]) EXCEPT !.finished = TRUE]]
    BY <1>6 DEF FrameOverLimit
  <2>3. QED
    BY <1>2, <2>1, <2>2
<1>7. ASSUME NEW q \in SessionId, FrameModelUnavailable(q) PROVE FALSE
  <2>1. Counted(session[q]).decision = session[q].decision
    BY DEF Counted, Session
  <2>2. session' = [session EXCEPT ![q] = Counted(session[q])]
    BY <1>7 DEF FrameModelUnavailable
  <2>3. QED
    BY <1>2, <2>1, <2>2
<1>8. ASSUME NEW q \in SessionId, FrameWithoutSingleFace(q) PROVE FALSE
  <2>1. PICK t, code : Processed(q, [Counted(session[q]) EXCEPT !.qualityReasons = {code}], t)
    BY <1>8 DEF FrameWithoutSingleFace
  <2>2. [Counted(session[q]) EXCEPT !.qualityReasons = {code}].decision = session[q].decision
    BY DEF Counted, Session
  <2>3. QED
    BY <1>2, <2>1, <2>2 DEF Processed
<1>9. ASSUME NEW q \in SessionId, FrameWithFace(q) PROVE FALSE
  <2>1. PICK t \in Later, x \in Captures(Counted(session[q])),
             risk \in RiskScore, detected \in BOOLEAN :
          Processed(q, ProcessFrame(Riskier(x, risk), detected, t), t)
    BY <1>9 DEF FrameWithFace
  <2> DEFINE y == ProcessFrame(Riskier(x, risk), detected, t)
  <2>2. q \in store /\ session' = [session EXCEPT ![q] = y]
    BY <1>9, <2>1 DEF FrameWithFace, Admitted, Found, Processed
  <2>3. SessionOK(y) /\ y \in Session /\ y.decision = "none"
    <3>1. /\ Counted(session[q]) \in Session /\ SessionOK(Counted(session[q]))
          /\ ~Counted(session[q]).finished
      BY <1>9, CountedKeeps DEF FrameWithFace, Admitted, Found
    <3>2. x \in Session /\ SessionOK(x) /\ ~x.finished
      BY <3>1, CaptureKeeps
    <3>3. Riskier(x, risk) \in Session /\ SessionOK(Riskier(x, risk)) /\ ~Riskier(x, risk).finished
      BY <3>2, RiskierKeeps
    <3>4. QED
      BY <3>3, ProcessFrameKeeps, ProcessFrameStaysOpen DEF SessionOK, VerdictOK
  <2>4. QED
    BY <1>2, <2>2, <2>3
<1>10. ASSUME NEW q \in SessionId, FinishStepUp(q) PROVE FALSE
  <2>1. PICK t \in Later, list \in FreshChallenges :
          session' = [session EXCEPT ![q] = EnterStepUp(session[q], list, t)]
    BY <1>10 DEF FinishStepUp
  <2>2. EnterStepUp(session[q], list, t).decision = session[q].decision
    BY DEF EnterStepUp, Session
  <2>3. QED
    BY <1>2, <2>1, <2>2
<1>11. ASSUME NEW q \in SessionId, FinishFinal(q) PROVE Earned(session[s])
  <2>1. PICK t \in Later : session' = [session EXCEPT ![q] =
                             Close(session[q], Decision(session[q], t))]
    BY <1>11 DEF FinishFinal
  <2>2. s = q
    BY <2>1
  <2>3. session[q] \in Session /\ SessionOK(session[q])
    BY <1>11 DEF FinishFinal, Found
  <2>4. Decision(session[q], t).decision = "allow"
    BY <2>1, <2>2 DEF Close, Session
  <2>5. ~session[q].finished
    BY <2>2, <2>3, <2>4, ClosedStaysDenied
  <2>6. QED
    BY <2>2, <2>3, <2>4, <2>5, AllowIsEarnedByRecord
<1>12. CASE Restart
  BY <1>1, <1>12 DEF Restart
<1>13. CASE Tick \/ ChangeTemplate \/ UNCHANGED vars
  BY <1>13 DEF Tick, ChangeTemplate, vars
<1>14. ASSUME NEW q \in SessionId, FrameRaises(q) PROVE FALSE
  <2>1. PICK y : session' = [session EXCEPT ![q] = y] /\ y.decision = "none"
    BY <1>14, RaisedStep
  <2>2. QED
    BY <1>2, <2>1
<1>15. QED
  BY <1>3, <1>4, <1>6, <1>7, <1>8, <1>9, <1>10, <1>11, <1>12, <1>13, <1>14 DEF Next

\* No interleaving of frames, retries, re-enrolments and restarts makes a
\* session "allow" without the evidence (auth_finish, policy.py).
THEOREM AllowEarned == Spec => AllowIsEarned
<1>1. IInv /\ [Next]_vars =>
        [\A s \in SessionId :
           session'[s].decision = "allow" /\ session[s].decision # "allow"
             => Earned(session[s])]_vars
  BY AllowStep
<1>2. QED
  BY <1>1, Inductive, PTL DEF Spec, AllowIsEarned

-----------------------------------------------------------------------------
(* What a step does to the verdicts of the sessions. *)

\* A processed frame leaves a session in its phase.
LEMMA ProcessFrameKeepsPhase ==
  ASSUME NEW x \in Session, SessionOK(x), ~x.finished, NEW detected, NEW t
  PROVE  ProcessFrame(x, detected, t).inStepUp = x.inStepUp
<1>1. \A y : MarkedOK(y) => AdvanceOrJudge(y).inStepUp = y.inStepUp
  BY DEF MarkedOK, AdvanceOrJudge, EvaluateSessionResult, Judged, Session
<1>2. /\ MarkActive(x, "failed").inStepUp = x.inStepUp
      /\ MarkActive(x, "passed").inStepUp = x.inStepUp
  BY DEF MarkActive, Session
<1>3. MarkedOK(MarkActive(x, "failed")) /\ MarkedOK(MarkActive(x, "passed"))
  BY MarkActiveKeeps
<1> DEFINE late == [MarkActive(x, "failed") EXCEPT
                      !.reasonCodes = @ \union {"CHALLENGE_TIMEOUT"}]
<1>4. MarkedOK(late) /\ late.inStepUp = x.inStepUp
  BY <1>2, <1>3 DEF MarkedOK, Session, ReasonCode, ListsOK, RecordOK
<1>5. QED
  BY <1>1, <1>2, <1>3, <1>4 DEF ProcessFrame

\* An admitted frame below the limit leaves the session open, in its phase.
LEMMA FrameStep ==
  ASSUME IInv, NEW s \in SessionId,
         \/ FrameModelUnavailable(s) \/ FrameWithoutSingleFace(s)
         \/ FrameWithFace(s) \/ FrameRaises(s)
  PROVE  /\ s \in store /\ ~session[s].finished
         /\ UNCHANGED <<issued, store, audit>>
         /\ \E x : /\ session' = [session EXCEPT ![s] = x]
                   /\ ~x.finished /\ x.inStepUp = session[s].inStepUp
<1> DEFINE c == Counted(session[s])
<1>1. /\ s \in store /\ ~session[s].finished /\ session[s] \in Session
      /\ session[s].frameCount < MaxFrames
  BY DEF IInv, TypeOK, FrameModelUnavailable, FrameWithoutSingleFace, FrameWithFace,
         FrameRaises, Admitted, Found
<1>2. c \in Session /\ SessionOK(c) /\ ~c.finished
  BY <1>1, CountedKeeps DEF IInv
<1>3. c.inStepUp = session[s].inStepUp
  BY <1>1 DEF Counted, Session
<1>4. CASE FrameModelUnavailable(s)
  BY <1>1, <1>2, <1>3, <1>4 DEF FrameModelUnavailable
<1>5. CASE FrameWithoutSingleFace(s)
  <2>1. PICK t, code : Processed(s, [c EXCEPT !.qualityReasons = {code}], t)
    BY <1>5 DEF FrameWithoutSingleFace
  <2>2. /\ ~[c EXCEPT !.qualityReasons = {code}].finished
        /\ [c EXCEPT !.qualityReasons = {code}].inStepUp = c.inStepUp
    BY <1>2 DEF Session
  <2>3. QED
    BY <1>1, <1>3, <2>1, <2>2 DEF Processed
<1>6. CASE FrameWithFace(s)
  <2>1. PICK t \in Later, x \in Captures(c), risk \in RiskScore, detected \in BOOLEAN :
          Processed(s, ProcessFrame(Riskier(x, risk), detected, t), t)
    BY <1>6 DEF FrameWithFace
  <2>2. x \in Session /\ SessionOK(x) /\ ~x.finished
    BY <1>2, CaptureKeeps
  <2>3. x.inStepUp = c.inStepUp
    BY <1>2 DEF Captures, Session
  <2>4. Riskier(x, risk) \in Session /\ SessionOK(Riskier(x, risk)) /\ ~Riskier(x, risk).finished
    BY <2>2, RiskierKeeps
  <2>5. Riskier(x, risk).inStepUp = x.inStepUp
    BY <2>2 DEF Riskier, Session
  <2> DEFINE y == ProcessFrame(Riskier(x, risk), detected, t)
  <2>6. ~y.finished /\ y.inStepUp = session[s].inStepUp
    BY <1>3, <2>3, <2>4, <2>5, ProcessFrameStaysOpen, ProcessFrameKeepsPhase
  <2>7. session' = [session EXCEPT ![s] = y] /\ UNCHANGED <<issued, store, audit>>
    BY <2>1 DEF Processed
  <2>8. QED
    BY <1>1, <2>6, <2>7
<1>7. CASE FrameRaises(s)
  BY <1>7, RaisedStep
<1>8. QED
  BY <1>4, <1>5, <1>6, <1>7

\* A step-up round begins in an open session that has had none.
LEMMA StepUpStep ==
  ASSUME IInv, NEW s \in SessionId, FinishStepUp(s)
  PROVE  /\ s \in store /\ ~session[s].finished /\ ~session[s].inStepUp
         /\ UNCHANGED <<issued, store, audit>>
         /\ \E x : /\ session' = [session EXCEPT ![s] = x]
                   /\ ~x.finished /\ x.inStepUp
<1>1. PICK t \in Later, list \in FreshChallenges :
        /\ Decision(session[s], t).decision = "step_up"
        /\ session' = [session EXCEPT ![s] = EnterStepUp(session[s], list, t)]
  BY DEF FinishStepUp
<1>2. s \in store /\ session[s] \in Session /\ SessionOK(session[s])
  BY DEF FinishStepUp, Found, IInv, TypeOK
<1>3. ~session[s].finished /\ ~session[s].inStepUp
  BY <1>1, <1>2, StepUpIsFirst
<1>4. /\ EnterStepUp(session[s], list, t).finished = session[s].finished
      /\ EnterStepUp(session[s], list, t).inStepUp
  BY <1>2 DEF EnterStepUp, Session
<1>5. QED
  BY <1>1, <1>2, <1>3, <1>4 DEF FinishStepUp

\* A final decision closes the session, as a denial if it was denied before;
\* what is written to the audit log, if anything, is that decision.
LEMMA FinalStep ==
  ASSUME IInv, NEW s \in SessionId, FinishFinal(s)
  PROVE  \E x, entry :
           /\ s \in store
           /\ session' = [session EXCEPT ![s] = x]
           /\ x.finished /\ x.decision \in {"allow", "deny"}
           /\ session[s].finished /\ session[s].decision # "allow"
                => x.decision = "deny"
           /\ entry.session = s /\ entry.outcome = x.decision
           /\ audit' = audit \/ audit' = Append(audit, entry)
           /\ UNCHANGED <<issued, store>>
<1>1. PICK t \in Later, auditWritten \in BOOLEAN :
        LET d == Decision(session[s], t)
        IN  /\ d.decision # "step_up"
            /\ session' = [session EXCEPT ![s] = Close(session[s], d)]
            /\ audit' = IF auditWritten
                        THEN Append(audit, [session |-> s, outcome |-> d.decision,
                                            codes |-> FinalCodes(session[s], d)])
                        ELSE audit
  BY DEF FinishFinal
<1> DEFINE d == Decision(session[s], t)
           x == Close(session[s], d)
           entry == [session |-> s, outcome |-> d.decision,
                     codes |-> FinalCodes(session[s], d)]
<1>2. s \in store /\ session[s] \in Session
  BY DEF FinishFinal, Found, IInv, TypeOK
<1>3. d.decision \in {"allow", "deny"}
  BY <1>1, <1>2, DecisionType
<1>4. session[s].finished /\ session[s].decision # "allow" => d.decision = "deny"
  BY <1>2, ClosedStaysDenied
<1> HIDE DEF d
<1>5. x.finished /\ x.decision = d.decision
  BY <1>2 DEF Close, Session
<1>6. entry.session = s /\ entry.outcome = d.decision
  OBVIOUS
<1>7. audit' = audit \/ audit' = Append(audit, entry)
  BY <1>1 DEF d
<1>8. session' = [session EXCEPT ![s] = x] /\ UNCHANGED <<issued, store>>
  BY <1>1 DEF FinishFinal, d
<1>9. QED
  BY <1>2, <1>3, <1>4, <1>5, <1>6, <1>7, <1>8

\* The frame over the limit closes an open session.
LEMMA LimitStep ==
  ASSUME IInv, NEW s \in SessionId, FrameOverLimit(s)
  PROVE  /\ s \in store /\ ~session[s].finished
         /\ UNCHANGED <<issued, store, audit>>
         /\ \E x : /\ session' = [session EXCEPT ![s] = x]
                   /\ x.finished /\ x.decision = "none"
<1> DEFINE x == [Counted(session[s]) EXCEPT !.finished = TRUE]
<1>1. /\ s \in store /\ ~session[s].finished /\ session[s] \in Session
      /\ session[s].decision = "none"
  BY DEF IInv, TypeOK, FrameOverLimit, Admitted, Found, SessionOK, VerdictOK
<1>2. x.finished /\ x.decision = "none"
  BY <1>1 DEF Counted, Session
<1>3. session' = [session EXCEPT ![s] = x] /\ UNCHANGED <<issued, store, audit>>
  BY DEF FrameOverLimit
<1>4. QED
  BY <1>1, <1>2, <1>3

-----------------------------------------------------------------------------
(***************************************************************************)
(* The audit log.  NoAllowAfterDeny is not inductive: a session whose      *)
(* denial is in the log must still be closed and denied, or gone for good. *)
(***************************************************************************)

DeniedIsFinal ==
  \A i \in DOMAIN audit : audit[i].outcome = "deny" =>
    /\ audit[i].session \in issued
    /\ audit[i].session \in store =>
         /\ session[audit[i].session].finished
         /\ session[audit[i].session].decision # "allow"

\* A step without a final decision leaves the log, and whatever is closed.
LEMMA ClosedIsKept ==
  ASSUME IInv, [Next]_vars, \A s \in SessionId : ~FinishFinal(s),
         NEW q \in issued
  PROVE  /\ audit' = audit /\ issued \subseteq issued'
         /\ q \in store' =>
              /\ q \in store
              /\ session[q].finished => session'[q] = session[q]
<1> USE DEF IInv, TypeOK
<1>1. ASSUME NEW s \in SessionId, NEW x, ~session[s].finished,
             session' = [session EXCEPT ![s] = x], UNCHANGED <<issued, store, audit>>
      PROVE  /\ audit' = audit /\ issued \subseteq issued'
             /\ q \in store' =>
                  /\ q \in store
                  /\ session[q].finished => session'[q] = session[q]
  BY <1>1
<1>2. CASE \E s \in SessionId : Start(s)
  <2>1. PICK s \in SessionId : Start(s)
    BY <1>2
  <2>2. PICK x : session' = [session EXCEPT ![s] = x]
    BY <2>1 DEF Start
  <2>3. QED
    BY <2>1, <2>2 DEF Start
<1>3. CASE \E s \in SessionId : DropExpired(s)
  BY <1>3 DEF DropExpired
<1>4. CASE \E s \in SessionId : FrameOverLimit(s)
  BY <1>1, <1>4, LimitStep
<1>5. CASE \E s \in SessionId :
             \/ FrameModelUnavailable(s) \/ FrameWithoutSingleFace(s)
             \/ FrameWithFace(s) \/ FrameRaises(s)
  BY <1>1, <1>5, FrameStep
<1>6. CASE \E s \in SessionId : FinishStepUp(s)
  BY <1>1, <1>6, StepUpStep
<1>7. CASE Tick \/ ChangeTemplate \/ UNCHANGED vars
  BY <1>7 DEF Tick, ChangeTemplate, vars
<1>8. CASE Restart
  BY <1>8 DEF Restart
<1>9. QED
  BY <1>2, <1>3, <1>4, <1>5, <1>6, <1>7, <1>8 DEF Next

LEMMA StepKeepsLog ==
  ASSUME IInv, DeniedIsFinal, NoAllowAfterDeny, [Next]_vars
  PROVE  DeniedIsFinal' /\ NoAllowAfterDeny'
<1>1. CASE \E s \in SessionId : FinishFinal(s)
  <2>1. PICK s \in SessionId : FinishFinal(s)
    BY <1>1
  <2>2. PICK x, entry :
          /\ s \in store
          /\ session' = [session EXCEPT ![s] = x]
          /\ x.finished /\ x.decision \in {"allow", "deny"}
          /\ session[s].finished /\ session[s].decision # "allow"
               => x.decision = "deny"
          /\ entry.session = s /\ entry.outcome = x.decision
          /\ audit' = audit \/ audit' = Append(audit, entry)
          /\ UNCHANGED <<issued, store>>
    BY <2>1, FinalStep
  <2>3. session'[s] = x /\ \A q \in SessionId \ {s} : session'[q] = session[q]
    BY <2>2 DEF IInv, TypeOK
  <2>4. ASSUME NEW i \in DOMAIN audit, audit[i].outcome = "deny"
        PROVE  /\ audit[i].session = s => x.decision = "deny"
               /\ audit[i].session \in issued'
               /\ audit[i].session \in store' =>
                    /\ session'[audit[i].session].finished
                    /\ session'[audit[i].session].decision # "allow"
    <3>1. audit \in Seq(AuditRecord)
      BY DEF IInv, TypeOK
    <3>2. audit[i] \in AuditRecord
      BY <2>4, <3>1
    <3>3. QED
      BY <2>2, <2>3, <2>4, <3>2 DEF DeniedIsFinal, AuditRecord
  <2>5. CASE audit' = audit
    BY <2>4, <2>5 DEF DeniedIsFinal, NoAllowAfterDeny
  <2>6. CASE audit' = Append(audit, entry)
    <3>1. /\ audit \in Seq(AuditRecord)
          /\ \A i \in DOMAIN audit' : i \in DOMAIN audit \/ i = Len(audit) + 1
          /\ \A i \in DOMAIN audit : audit'[i] = audit[i] /\ i < Len(audit) + 1
          /\ audit'[Len(audit) + 1] = entry
          /\ DOMAIN audit = 1..Len(audit) /\ Len(audit) \in Nat
      BY <2>6 DEF IInv, TypeOK
    <3>2. s \in issued'
      BY <2>2 DEF IInv, TypeOK
    <3>3. DeniedIsFinal'
      BY <2>2, <2>3, <2>4, <3>1, <3>2 DEF DeniedIsFinal
    <3>4. ASSUME NEW i \in DOMAIN audit', NEW j \in DOMAIN audit', i < j,
                 audit'[i].session = audit'[j].session, audit'[i].outcome = "deny"
          PROVE  audit'[j].outcome = "deny"
      <4>1. i \in DOMAIN audit
        BY <3>1, <3>4
      <4>2. CASE j \in DOMAIN audit
        BY <3>1, <3>4, <4>1, <4>2 DEF NoAllowAfterDeny
      <4>3. CASE j = Len(audit) + 1
        BY <2>2, <2>4, <3>1, <3>4, <4>1, <4>3
      <4>4. QED
        BY <3>1, <4>2, <4>3
    <3>5. QED
      BY <3>3, <3>4 DEF NoAllowAfterDeny
  <2>7. QED
    BY <2>2, <2>5, <2>6
<1>2. CASE \A s \in SessionId : ~FinishFinal(s)
  <2>1. ASSUME NEW i \in DOMAIN audit, audit[i].outcome = "deny"
        PROVE  /\ audit' = audit /\ audit[i].session \in issued'
               /\ audit[i].session \in store' =>
                    /\ session'[audit[i].session].finished
                    /\ session'[audit[i].session].decision # "allow"
    <3>1. audit[i].session \in issued
      BY <2>1 DEF DeniedIsFinal
    <3>2. QED
      BY <1>2, <2>1, <3>1, ClosedIsKept DEF DeniedIsFinal
  <2>2. audit' = audit
    BY <1>2 DEF Next, vars, Start, DropExpired, FrameOverLimit, FrameModelUnavailable,
         FrameWithoutSingleFace, FrameWithFace, FrameRaises, Processed, FinishStepUp, Tick,
         ChangeTemplate, Restart
  <2>3. QED
    BY <2>1, <2>2 DEF DeniedIsFinal, NoAllowAfterDeny
<1>3. QED
  BY <1>1, <1>2

\* The audit log never shows an allow of a session after its denial
\* (auth_finished events of api/v1/auth.py).
THEOREM DenialsStand == Spec => []NoAllowAfterDeny
<1>1. Init => DeniedIsFinal /\ NoAllowAfterDeny
  BY DEF Init, DeniedIsFinal, NoAllowAfterDeny
<1>2. IInv /\ DeniedIsFinal /\ NoAllowAfterDeny /\ [Next]_vars
        => DeniedIsFinal' /\ NoAllowAfterDeny'
  BY StepKeepsLog
<1>3. QED
  BY <1>1, <1>2, Inductive, PTL DEF Spec

-----------------------------------------------------------------------------
(***************************************************************************)
(* A closed session judged again.  It gives the same answer because what   *)
(* a finish would add to its reasons is in them already, which takes an    *)
(* invariant of its own.                                                   *)
(***************************************************************************)

Sealed(x) ==
  x.decision # "none" =>
    /\ ~x.inStepUp
    /\ FallbackCode(x) \subseteq x.reasonCodes
    /\ x.decision = "deny" /\ "SIMILARITY_BELOW_THRESHOLD" \in x.reasonCodes
         => x.qualityReasons \subseteq x.reasonCodes

AllSealed == \A s \in store : Sealed(session[s])

\* Closing a session, for the first time or again, seals it.
LEMMA CloseSeals ==
  ASSUME NEW x \in Session, NEW d
  PROVE  Sealed(Close(x, d))
<1> DEFINE c == Close(x, d)
<1>1. /\ ~c.inStepUp /\ c.decision = d.decision /\ c.reasonCodes = FinalCodes(x, d)
      /\ c.qualityReasons = x.qualityReasons
  BY DEF Close, Session
<1>2. FallbackCode(c) \subseteq c.reasonCodes
  BY <1>1 DEF FallbackCode, FinalCodes
<1>3. ASSUME d.decision = "deny", "SIMILARITY_BELOW_THRESHOLD" \in FinalCodes(x, d)
      PROVE  x.qualityReasons \subseteq FinalCodes(x, d)
  BY <1>3 DEF FinalCodes, FallbackCode
<1> QED
  BY <1>1, <1>2, <1>3 DEF Sealed

\* Judged again in time, a sealed session is given the same answer.
LEMMA JudgedAgain ==
  ASSUME NEW x \in Session, SessionOK(x), Sealed(x), x.decision # "none",
         NEW t, ~Expired(x, t)
  PROVE  LET y == Close(x, Decision(x, t))
         IN  /\ y.decision = x.decision
             /\ x.decision = "deny" => y.reasonCodes = x.reasonCodes
<1> DEFINE d == Decision(x, t)
<1>1. x.finished /\ ~x.inStepUp
  BY DEF Sealed, SessionOK, VerdictOK
<1>2. \A y \in Session : \A force : y.finished /\ ~Expired(y, t) =>
        /\ Evaluate(y, t, template, force).decision
             = (IF y.decision = "allow" THEN "allow" ELSE "deny")
        /\ y.decision # "allow" => Evaluate(y, t, template, force).codes = y.reasonCodes
  BY DEF Evaluate, Deny, Decide
<1>3. /\ Relaxed(x) \in Session /\ Relaxed(x).finished /\ ~Expired(Relaxed(x), t)
      /\ Relaxed(x).decision = x.decision /\ Relaxed(x).reasonCodes = x.reasonCodes
  BY <1>1, RelaxedType DEF Relaxed, Session, Expired
<1>4. /\ d.decision = (IF x.decision = "allow" THEN "allow" ELSE "deny")
      /\ x.decision # "allow" => d.codes = x.reasonCodes
  BY <1>1, <1>2, <1>3 DEF Decision
<1>5. x.decision \in {"allow", "deny"}
  BY DEF Session
<1>6. ASSUME x.decision = "deny" PROVE FinalCodes(x, d) = x.reasonCodes
  <2> HIDE DEF d
  <2>1. d.codes = x.reasonCodes /\ d.decision = "deny"
    BY <1>4, <1>6
  <2> QED
    BY <1>1, <1>6, <2>1 DEF Sealed, FinalCodes
<1> HIDE DEF d
<1>7. Close(x, d).decision = d.decision /\ Close(x, d).reasonCodes = FinalCodes(x, d)
  BY DEF Close, Session
<1> QED
  BY <1>4, <1>5, <1>6, <1>7 DEF d

\* Only a final decision decides a session.
LEMMA FinalsDecide ==
  ASSUME IInv, IInv', [Next]_vars, \A s \in SessionId : ~FinishFinal(s),
         NEW q \in store'
  PROVE  \/ session'[q].decision = "none"
         \/ q \in store /\ session'[q] = session[q]
<1>1. CASE ~session'[q].finished
  BY <1>1 DEF IInv, SessionOK, VerdictOK
<1>2. CASE session'[q].finished
  <2> USE DEF IInv, TypeOK
  <2>1. ASSUME NEW s \in SessionId, NEW x, ~x.finished \/ x.decision = "none",
               session' = [session EXCEPT ![s] = x], store' \subseteq store \union {s}
        PROVE  \/ session'[q].decision = "none"
               \/ q \in store /\ session'[q] = session[q]
    BY <1>2, <2>1
  <2>2. ASSUME NEW s \in SessionId, Start(s)
        PROVE  \/ session'[q].decision = "none"
               \/ q \in store /\ session'[q] = session[q]
    <3>1. PICK list : session' = [session EXCEPT ![s] = NewSession(list, now)]
      BY <2>2 DEF Start
    <3>2. NewSession(list, now).decision = "none"
      BY DEF NewSession
    <3> QED
      BY <2>1, <2>2, <3>1, <3>2 DEF Start
  <2>3. CASE \E s \in SessionId : DropExpired(s)
    BY <2>3 DEF DropExpired
  <2>4. CASE \E s \in SessionId : FrameOverLimit(s)
    BY <2>1, <2>4, LimitStep
  <2>5. CASE \E s \in SessionId :
               \/ FrameModelUnavailable(s) \/ FrameWithoutSingleFace(s)
               \/ FrameWithFace(s) \/ FrameRaises(s)
    BY <2>1, <2>5, FrameStep
  <2>6. CASE \E s \in SessionId : FinishStepUp(s)
    BY <2>1, <2>6, StepUpStep
  <2>7. CASE Tick \/ ChangeTemplate \/ UNCHANGED vars
    BY <2>7 DEF Tick, ChangeTemplate, vars
  <2>8. CASE Restart
    BY <2>8 DEF Restart
  <2> QED
    BY <2>2, <2>3, <2>4, <2>5, <2>6, <2>7, <2>8 DEF Next
<1> QED
  BY <1>1, <1>2

\* One step keeps what is sealed sealed, and what was decided in time.
LEMMA SealedStep ==
  ASSUME IInv, IInv', AllSealed, [Next]_vars
  PROVE  /\ AllSealed'
         /\ \A q \in store \intersect store' :
              LET x == session[q]
                  y == session'[q]
              IN  x.decision # "none" /\ ~Expired(x, now') =>
                    /\ y.decision = x.decision
                    /\ x.decision = "deny" => y.reasonCodes = x.reasonCodes
<1>1. CASE \E s \in SessionId : FinishFinal(s)
  <2>1. PICK s \in SessionId : FinishFinal(s)
    BY <1>1
  <2>2. PICK t \in Later :
          /\ session' = [session EXCEPT ![s] =
                           Close(session[s], Decision(session[s], t))]
          /\ now' = t
    BY <2>1 DEF FinishFinal
  <2>3. /\ s \in store /\ store' = store
        /\ session[s] \in Session /\ SessionOK(session[s]) /\ Sealed(session[s])
    BY <2>1 DEF FinishFinal, Found, IInv, TypeOK, AllSealed
  <2>4. /\ session'[s] = Close(session[s], Decision(session[s], t))
        /\ \A q \in SessionId \ {s} : session'[q] = session[q]
    BY <2>2 DEF IInv, TypeOK
  <2>5. Sealed(session'[s])
    BY <2>3, <2>4, CloseSeals
  <2>6. store \subseteq SessionId
    BY DEF IInv, TypeOK
  <2>7. AllSealed'
    BY <2>3, <2>4, <2>5, <2>6 DEF AllSealed, Sealed
  <2>8. session[s].decision # "none" /\ ~Expired(session[s], now') =>
          /\ session'[s].decision = session[s].decision
          /\ session[s].decision = "deny" =>
               session'[s].reasonCodes = session[s].reasonCodes
    BY <2>2, <2>3, <2>4, JudgedAgain
  <2> QED
    BY <2>4, <2>6, <2>7, <2>8
<1>2. CASE \A s \in SessionId : ~FinishFinal(s)
  <2>1. AllSealed'
    BY <1>2, FinalsDecide DEF AllSealed, Sealed, FallbackCode
  <2>2. ASSUME NEW q \in store \intersect store', session[q].decision # "none"
        PROVE  session'[q] = session[q]
    <3>1. session[q].finished /\ q \in issued
      BY <2>2 DEF IInv, TypeOK, SessionOK, VerdictOK
    <3> QED
      BY <1>2, <2>2, <3>1, ClosedIsKept
  <2> QED
    BY <2>1, <2>2
<1> QED
  BY <1>1, <1>2

\* A decision outlives every retry of the request for it, whatever became of the
\* template, and only expiry changes it (auth_finish, policy.py).
THEOREM DecisionsStand == Spec => DecisionStands
<1>1. Init => AllSealed
  BY DEF Init, AllSealed
<1>2. IInv /\ IInv' /\ AllSealed /\ [Next]_vars => AllSealed'
  BY SealedStep
<1>3. IInv /\ IInv' /\ AllSealed /\ [Next]_vars =>
        [\A s \in store \intersect store' :
           LET x == session[s]
               y == session'[s]
           IN  x.decision # "none" /\ ~Expired(x, now') =>
                 /\ y.decision = x.decision
                 /\ x.decision = "deny" => y.reasonCodes = x.reasonCodes]_vars
  BY SealedStep
<1> QED
  BY <1>1, <1>2, <1>3, Inductive, PTL DEF Spec, DecisionStands

-----------------------------------------------------------------------------
(* The endpoints implement SessionVerdict. *)

\* A step that touches one session changes one verdict.
LEMMA OneVerdict ==
  ASSUME NEW s \in SessionId, NEW v, VerdictOf(s)' = v,
         \A q \in SessionId \ {s} :
           (q \in store' <=> q \in store) /\ session'[q] = session[q]
  PROVE  [q \in SessionId |-> VerdictOf(q)]'
           = [[q \in SessionId |-> VerdictOf(q)] EXCEPT ![s] = v]
<1>1. \A q \in SessionId \ {s} : VerdictOf(q)' = VerdictOf(q)
  BY DEF VerdictOf
<1>2. QED
  BY <1>1

LEMMA StepRefines ==
  ASSUME IInv, [Next]_vars
  PROVE  Promise!VerdictNext \/ UNCHANGED <<issued, [q \in SessionId |-> VerdictOf(q)]>>
<1> DEFINE verdict == [q \in SessionId |-> VerdictOf(q)]
<1> USE DEF IInv, TypeOK
<1>1. ASSUME NEW s \in SessionId, NEW x, s \in store, UNCHANGED <<issued, store>>,
             session' = [session EXCEPT ![s] = x]
      PROVE  /\ session'[s] = x /\ s \in store'
             /\ \A v : VerdictOf(s)' = v => verdict' = [verdict EXCEPT ![s] = v]
  <2>1. session'[s] = x /\ \A q \in SessionId \ {s} : session'[q] = session[q]
    BY <1>1
  <2>2. QED
    BY <1>1, <2>1, OneVerdict
<1>2. ASSUME NEW s \in SessionId, Start(s) PROVE Promise!VerdictNext
  <2>1. PICK list \in FreshChallenges : session' = [session EXCEPT ![s] = NewSession(list, now)]
    BY <1>2 DEF Start
  <2>2. VerdictOf(s)' = "open"
    BY <1>2, <2>1 DEF Start, VerdictOf, NewSession
  <2>3. verdict' = [verdict EXCEPT ![s] = "open"]
    BY <1>2, <2>1, <2>2, OneVerdict DEF Start
  <2>4. Promise!Issue(s)
    BY <1>2, <2>3 DEF Start, Promise!Issue
  <2>5. QED
    BY <2>4 DEF Promise!VerdictNext
<1>3. ASSUME NEW s \in SessionId, DropExpired(s) PROVE Promise!VerdictNext
  <2>1. verdict' = [q \in SessionId |-> IF q \in {s} THEN "gone" ELSE VerdictOf(q)]
    BY <1>3 DEF DropExpired, VerdictOf
  <2>2. Promise!Forget({s})
    BY <1>3, <2>1 DEF DropExpired, Promise!Forget
  <2>3. QED
    BY <2>2 DEF Promise!VerdictNext
<1>4. ASSUME NEW s \in SessionId, FrameOverLimit(s) PROVE Promise!VerdictNext
  <2>1. PICK x : /\ session' = [session EXCEPT ![s] = x]
                 /\ x.finished /\ x.decision = "none"
    BY <1>4, LimitStep
  <2>2. s \in store /\ ~session[s].finished /\ UNCHANGED <<issued, store>>
    BY <1>4, LimitStep
  <2>3. VerdictOf(s)' = "deny" /\ VerdictOf(s) \in {"open", "step_up"}
    BY <1>1, <2>1, <2>2 DEF VerdictOf
  <2>4. verdict' = [verdict EXCEPT ![s] = "deny"]
    BY <1>1, <2>1, <2>2, <2>3
  <2>5. Promise!LimitReached(s)
    BY <2>2, <2>3, <2>4 DEF Promise!LimitReached, Promise!Pending
  <2>6. QED
    BY <2>5 DEF Promise!VerdictNext
<1>5. ASSUME NEW s \in SessionId,
             \/ FrameModelUnavailable(s) \/ FrameWithoutSingleFace(s)
             \/ FrameWithFace(s) \/ FrameRaises(s)
      PROVE  UNCHANGED <<issued, verdict>>
  <2>1. PICK x : /\ session' = [session EXCEPT ![s] = x]
                 /\ ~x.finished /\ x.inStepUp = session[s].inStepUp
    BY <1>5, FrameStep
  <2>2. s \in store /\ ~session[s].finished /\ UNCHANGED <<issued, store>>
    BY <1>5, FrameStep
  <2>3. VerdictOf(s)' = VerdictOf(s)
    BY <1>1, <2>1, <2>2 DEF VerdictOf
  <2>4. QED
    BY <1>1, <2>1, <2>2, <2>3
<1>6. ASSUME NEW s \in SessionId, NEW outcome \in {"step_up", "allow", "deny"},
             UNCHANGED issued, verdict' = [verdict EXCEPT ![s] = outcome],
             outcome \in Promise!Outcomes(VerdictOf(s))
      PROVE  Promise!VerdictNext
  <2>1. Promise!Decide(s, outcome)
    BY <1>6 DEF Promise!Decide
  <2>2. outcome \in Promise!Verdict
    BY DEF Promise!Verdict
  <2>3. QED
    BY <2>1, <2>2 DEF Promise!VerdictNext
<1>7. ASSUME NEW s \in SessionId, FinishStepUp(s) PROVE Promise!VerdictNext
  <2>1. PICK x : session' = [session EXCEPT ![s] = x] /\ ~x.finished /\ x.inStepUp
    BY <1>7, StepUpStep
  <2>2. /\ s \in store /\ ~session[s].finished /\ ~session[s].inStepUp
        /\ UNCHANGED <<issued, store>>
    BY <1>7, StepUpStep
  <2>3. VerdictOf(s)' = "step_up" /\ VerdictOf(s) = "open"
    BY <1>1, <2>1, <2>2 DEF VerdictOf
  <2>4. verdict' = [verdict EXCEPT ![s] = "step_up"]
    BY <1>1, <2>1, <2>2, <2>3
  <2>5. QED
    BY <1>6, <2>2, <2>3, <2>4 DEF Promise!Outcomes
<1>8. ASSUME NEW s \in SessionId, FinishFinal(s) PROVE Promise!VerdictNext
  <2>1. PICK x :
          /\ s \in store
          /\ session' = [session EXCEPT ![s] = x]
          /\ x.finished /\ x.decision \in {"allow", "deny"}
          /\ session[s].finished /\ session[s].decision # "allow"
               => x.decision = "deny"
          /\ UNCHANGED <<issued, store>>
    BY <1>8, FinalStep
  <2>2. VerdictOf(s)' = x.decision
    BY <1>1, <2>1 DEF VerdictOf
  <2>3. x.decision \in Promise!Outcomes(VerdictOf(s))
    BY <2>1 DEF VerdictOf, Promise!Outcomes
  <2>4. verdict' = [verdict EXCEPT ![s] = x.decision]
    BY <1>1, <2>1, <2>2
  <2>5. QED
    BY <1>6, <2>1, <2>3, <2>4
<1>9. CASE Tick \/ ChangeTemplate \/ UNCHANGED vars
  BY <1>9 DEF Tick, ChangeTemplate, vars, VerdictOf
<1>10. CASE Restart
  <2>1. verdict' = [q \in SessionId |-> IF q \in SessionId THEN "gone" ELSE VerdictOf(q)]
    BY <1>10 DEF Restart, VerdictOf
  <2>2. Promise!Forget(SessionId)
    BY <1>10, <2>1 DEF Restart, Promise!Forget
  <2>3. QED
    BY <2>2 DEF Promise!VerdictNext
<1>11. QED
  BY <1>2, <1>3, <1>4, <1>5, <1>7, <1>8, <1>9, <1>10 DEF Next

\* The authentication endpoints keep the promise their clients rely on.
THEOREM PromiseIsKept == Spec => VerdictsArePromised
<1>1. Init => Promise!VerdictInit
  BY DEF Init, VerdictOf, Promise!VerdictInit
<1>2. IInv /\ [Next]_vars
        => [Promise!VerdictNext]_(Promise!verdictVars)
  BY StepRefines DEF Promise!verdictVars
<1>3. QED
  BY <1>1, <1>2, Inductive, PTL DEF Spec, VerdictsArePromised, Promise!VerdictSpec

=============================================================================
