--------------------------- MODULE LivenessDetectors ---------------------------
(***************************************************************************)
(* The liveness stage of POST /auth/frame (api/v1/auth.py): the evaluator  *)
(* (services/liveness/evaluator.py) and the blink and head-pose detectors  *)
(* (blink.py, pose.py), of which the process has one pair that every       *)
(* session shares.                                                         *)
(*                                                                         *)
(* A frame is what the landmarks say of it: eyes open or closed (the eye   *)
(* aspect ratio against EAR_THRESHOLD), head left, right or neutral (the   *)
(* yaw against YAW_TURN_THRESHOLD).  Landmarks are never absent here: the  *)
(* endpoint returns before this stage unless there is one face.            *)
(*                                                                         *)
(* Only primary lists are modelled.  A step-up round starts from a passed  *)
(* primary list, and as long as a completed head turn does not pass its    *)
(* challenge (CompletedTurnPasses) there is none.                          *)
(***************************************************************************)
EXTENDS Naturals, Sequences

CONSTANTS
  SessionId,
  MinChallenges, MaxChallenges,   \* of ChallengeGenerator
  EarConsecFrames,                \* EAR_CONSEC_FRAMES
  DebounceFrames,                 \* DEBOUNCE_FRAMES of the blink detector
  YawDebounceFrames,              \* YAW_DEBOUNCE_FRAMES of the pose detector
  MaxFrames                       \* MAX_FRAMES_PER_SESSION

ASSUME LivenessConstants ==
  /\ MinChallenges \in 2..3 /\ MaxChallenges \in MinChallenges..3
  /\ EarConsecFrames \in Nat \ {0}
  /\ DebounceFrames \in Nat /\ YawDebounceFrames \in Nat
  /\ MaxFrames \in Nat

VARIABLES
  live,              \* sessions that are stored and not finished
  session,           \* the liveness part of their records
  blink,             \* the BlinkDetector of the process
  pose,              \* its HeadPoseDetector
  film               \* history: eyes in the frames blink saw since its reset

vars == <<live, session, blink, pose, film>>

ChallengeType == {"blink", "left", "right"}

\* What generate_challenges can return: random.sample draws without
\* replacement, so the types of a list are distinct.
ChallengeLists ==
  {list \in UNION {[1..n -> ChallengeType] : n \in MinChallenges..MaxChallenges} :
     \A i, j \in DOMAIN list : i # j => list[i] # list[j]}

Round ==
  [types: ChallengeLists, status: [1..3 -> {"pending", "passed", "failed"}],
   active: 1..3, expired: BOOLEAN, frames: 0..MaxFrames,
   verdict: {"none", "passed", "failed"}]

NewRound(list) ==
  [types |-> list, status |-> [i \in 1..3 |-> "pending"], active |-> 1,
   expired |-> FALSE, frames |-> 0, verdict |-> "none"]

ActiveType(x) == x.types[x.active]

FreshBlink == [closed |-> 0, since |-> 0, wasClosed |-> FALSE]
FreshPose == [turn |-> "neutral", frames |-> 0]

TypeOK ==
  /\ live \subseteq SessionId
  /\ session \in [live -> Round]
  /\ \A s \in live : session[s].active \in DOMAIN session[s].types
  /\ blink \in [closed: Nat, since: Nat, wasClosed: BOOLEAN]
  /\ pose \in [turn: {"neutral", "left", "right"}, frames: Nat]
  /\ film \in Seq({"open", "closed"})

Init ==
  /\ live = {} /\ session = <<>>
  /\ blink = FreshBlink /\ pose = FreshPose /\ film = <<>>

-----------------------------------------------------------------------------
(* The detectors *)

Closed(eyes) == IF eyes = "closed" THEN blink.closed + 1 ELSE 0

\* The first value BlinkDetector.update returns ...
BlinkDetected(eyes) ==
  /\ blink.wasClosed
  /\ Closed(eyes) < EarConsecFrames
  /\ blink.since + 1 > DebounceFrames

\* ... and the state it leaves.
UpdateBlink(eyes) ==
  [closed |-> Closed(eyes),
   since |-> IF BlinkDetected(eyes) THEN 0 ELSE blink.since + 1,
   wasClosed |-> Closed(eyes) >= EarConsecFrames]

\* HeadPoseDetector.update reports a turn in the frame that ends it.
TurnDetected(direction) ==
  /\ direction = "neutral"
  /\ pose.turn # "neutral"
  /\ pose.frames > YawDebounceFrames

UpdatePose(direction) ==
  IF direction = "neutral" THEN FreshPose
  ELSE IF pose.turn = direction THEN [pose EXCEPT !.frames = @ + 1]
  ELSE [turn |-> direction, frames |-> 0]

\* The evaluator's condition for a turn challenge.
TurnPasses(type, direction) == TurnDetected(direction) /\ direction = type

-----------------------------------------------------------------------------
(* POST /auth/start and the liveness stage of POST /auth/frame *)

\* evaluator.reset_detectors
ResetDetectors == blink' = FreshBlink /\ pose' = FreshPose /\ film' = <<>>

\* Mutant: a new session inherits the detectors.
StartMutant(s) ==
  /\ s \notin live
  /\ live' = live \union {s}
  /\ \E list \in ChallengeLists :
       session' = [t \in live' |-> IF t = s THEN NewRound(list) ELSE session[t]]
  /\ film' = <<>> /\ UNCHANGED <<blink, pose>>

Start(s) ==
  /\ s \notin live
  /\ live' = live \union {s}
  /\ \E list \in ChallengeLists :
       session' = [t \in live' |-> IF t = s THEN NewRound(list) ELSE session[t]]
  /\ ResetDetectors

\* A frame of s that reaches the evaluator.
Fed(s) == s \in live /\ session[s].frames < MaxFrames

Counted(x) == [x EXCEPT !.frames = @ + 1]

HasNext(x) == x.active + 1 \in DOMAIN x.types

\* Mutant: the challenge after the last one becomes active.
CompletedMutant(x, outcome) ==
  [x EXCEPT !.status[x.active] = outcome, !.active = x.active + 1]

\* The active challenge ends with outcome: the next one becomes active, or
\* the whole list is judged.  The last challenge stays the active one.
Completed(x, outcome) ==
  LET y == [x EXCEPT !.status[x.active] = outcome]
  IN  IF HasNext(x) THEN [y EXCEPT !.active = @ + 1]
      ELSE [y EXCEPT !.verdict =
              IF \A i \in DOMAIN x.types : y.status[i] = "passed"
              THEN "passed" ELSE "failed"]

\* The deadline of the list passed: the active challenge fails unseen.
FrameTooLate(s) ==
  /\ Fed(s) /\ session[s].expired
  /\ session' = [session EXCEPT ![s] = Completed(Counted(@), "failed")]
  /\ IF HasNext(session[s]) THEN ResetDetectors ELSE UNCHANGED <<blink, pose, film>>
  /\ UNCHANGED live

FrameForBlink(s, eyes) ==
  /\ Fed(s) /\ ~session[s].expired
  /\ ActiveType(session[s]) = "blink"
  /\ session' = [session EXCEPT ![s] = IF BlinkDetected(eyes)
                                       THEN Completed(Counted(@), "passed")
                                       ELSE Counted(@)]
  /\ IF BlinkDetected(eyes) /\ HasNext(session[s]) THEN ResetDetectors
     ELSE /\ blink' = UpdateBlink(eyes)
          /\ film' = Append(film, eyes)
          /\ UNCHANGED pose
  /\ UNCHANGED live

FrameForTurn(s, direction) ==
  LET type == ActiveType(session[s])
      passes == TurnPasses(type, direction)
  IN  /\ Fed(s) /\ ~session[s].expired
      /\ type # "blink"
      /\ session' = [session EXCEPT ![s] = IF passes
                                           THEN Completed(Counted(@), "passed")
                                           ELSE Counted(@)]
      /\ IF passes /\ HasNext(session[s]) THEN ResetDetectors
         ELSE pose' = UpdatePose(direction) /\ UNCHANGED <<blink, film>>
      /\ UNCHANGED live

\* Ten seconds after the list was issued all its challenges expire.
Expire(s) ==
  /\ s \in live /\ ~session[s].expired
  /\ session' = [session EXCEPT ![s].expired = TRUE]
  /\ UNCHANGED <<live, blink, pose, film>>

\* The session is finished, dropped, or over its frame limit.
Close(s) ==
  /\ s \in live
  /\ live' = live \ {s}
  /\ session' = [t \in live' |-> session[t]]
  /\ UNCHANGED <<blink, pose, film>>

Next ==
  \E s \in SessionId :
    \/ Start(s) \/ Expire(s) \/ Close(s) \/ FrameTooLate(s)
    \/ \E eyes \in {"open", "closed"} : FrameForBlink(s, eyes)
    \/ \E direction \in {"left", "right", "neutral"} : FrameForTurn(s, direction)

Spec == Init /\ [][Next]_vars

-----------------------------------------------------------------------------
(***************************************************************************)
(* Properties.                                                             *)
(***************************************************************************)

\* The last n frames of the film show closed eyes.
ClosedFor(n) ==
  n <= Len(film) /\ \A k \in (Len(film) - n + 1)..Len(film) : film[k] = "closed"

\* A blink challenge passes only on film: after a reset of the shared
\* detectors, more than DEBOUNCE_FRAMES frames with the passing one, and
\* the eyes closed in the EAR_CONSEC_FRAMES frames just before it; a closed
\* eye from before the challenge or before another session's start is not
\* counted.  And no blink is missed, whatever other sessions showed the shared
\* detector before: eyes closed for EAR_CONSEC_FRAMES and for DEBOUNCE_FRAMES
\* frames in a row, and open in the next, pass the challenge.
BlinkPassesAsFilmed ==
  [][/\ \A s \in live \intersect live', i \in 1..3 :
          session[s].status[i] # "passed" /\ session'[s].status[i] = "passed"
          /\ ActiveType(session[s]) = "blink"
            => Len(film) >= DebounceFrames /\ ClosedFor(EarConsecFrames)
     /\ \A s \in live :
          FrameForBlink(s, "open") /\ ClosedFor(EarConsecFrames) /\ ClosedFor(DebounceFrames)
            => session'[s].status[session[s].active] = "passed"]_vars

\* pose.py promises "True if a head turn was completed": a turn in the
\* direction the active challenge asks for, held and ended in time, passes it.
CompletedTurnPasses ==
  [][\A s \in live \intersect live' :
       LET x == session[s]
       IN  /\ ~x.expired /\ session'[s].frames = x.frames + 1
           /\ pose.turn = ActiveType(x) /\ pose.frames > YawDebounceFrames
           /\ pose'.turn = "neutral"
           => session'[s].status[x.active] = "passed"]_vars

=============================================================================
