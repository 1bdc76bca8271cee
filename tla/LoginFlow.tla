------------------------------- MODULE LoginFlow -------------------------------
(***************************************************************************)
(* The login screen of the desktop (CameraView.tsx): the states a user     *)
(* sees, the loop that streams frames while a challenge runs, the timer    *)
(* that resumes it for a step-up, and the calls under way (EdgeClient),    *)
(* against an edge that keeps its promises about sessions                  *)
(* (SessionVerdict).                                                       *)
(*                                                                         *)
(* What follows an await runs whatever happened since: it closes over the  *)
(* session it was started for, and writes over the one that is shown.  How *)
(* often the loop looks whether it may send is left out: while it streams  *)
(* and no frame is in flight it may.                                       *)
(***************************************************************************)
EXTENDS EdgeClient, SessionVerdict

CONSTANT NoSession

Kind == {"start", "frame", "finish"}
Request == [kind : Kind, session : SessionId \union {NoSession}]
Value == SessionId \union {"done", "more"} \union Verdict

ASSUME LoginConstants ==
  /\ NoSession \notin SessionId
  /\ NoRequest \notin Request /\ NoValue \notin Value
  /\ SessionId \intersect ({"done", "more"} \union Verdict) = {}

VARIABLES
  authState,
  shown,             \* session.session_id; NoSession when session is null
  streaming,         \* streamingRef
  streamSession,     \* streamSessionIdRef
  inFlight,          \* inFlightRef
  timers,            \* sessions a step-up timer is running for
  timerRef,          \* stepUpTimerRef: the one of them that can be cleared
  allowed,           \* history: sessions the edge has allowed
  hasty              \* history: the session shown, or none, replaced one that
                     \* calls or timers were still under way for

stream == <<streaming, streamSession, inFlight>>
timer == <<timers, timerRef>>
edge == <<issued, verdict, allowed>>
screen == <<authState, shown, stream, timer, hasty>>
vars == <<calls, edge, screen>>

AuthState ==
  {"idle", "starting", "in_challenge", "step_up_notice", "step_up", "finishing",
   "success", "error"}

TypeOK ==
  /\ calls \in [Slots -> Call(Request, Value)]
  /\ issued \subseteq SessionId /\ verdict \in [SessionId -> Verdict]
  /\ authState \in AuthState
  /\ shown \in SessionId \union {NoSession}
  /\ streaming \in BOOLEAN /\ inFlight \in BOOLEAN
  /\ streamSession \in SessionId \union {NoSession}
  /\ timers \subseteq SessionId /\ timerRef \in SessionId \union {NoSession}
  /\ allowed \subseteq SessionId /\ hasty \in BOOLEAN

Init ==
  /\ NoCalls /\ VerdictInit /\ allowed = {}
  /\ authState = "idle" /\ shown = NoSession /\ hasty = FALSE
  /\ streaming = FALSE /\ streamSession = NoSession /\ inFlight = FALSE
  /\ timers = {} /\ timerRef = NoSession

Asks(k, kind) == calls[k].status = "sent" /\ calls[k].request.kind = kind
Of(k) == calls[k].request.session

-----------------------------------------------------------------------------
(* The edge.  A request it refuses without a change (404, 409, 429) fails. *)

StartAtEdge(k, s) ==
  /\ Asks(k, "start") /\ Issue(s)
  /\ Answers(k, "ok", s)
  /\ UNCHANGED <<allowed, screen>>

\* A frame is processed, or dropped by the frame controller.
FrameAtEdge(k) ==
  /\ Asks(k, "frame") /\ Pending(Of(k))
  /\ \E progress \in {"done", "more"} : Answers(k, "ok", progress)
  /\ UNCHANGED <<edge, screen>>

FrameOverLimit(k) ==
  /\ Asks(k, "frame") /\ LimitReached(Of(k))
  /\ Answers(k, "failed", NoValue)
  /\ UNCHANGED <<allowed, screen>>

\* The answer is 500 when the decision stands but its audit event could not be
\* written.
FinishAtEdge(k) ==
  /\ Asks(k, "finish") /\ Of(k) \in SessionId
  /\ \E outcome \in Verdict :
       /\ Decide(Of(k), outcome)
       /\ \/ Answers(k, "ok", outcome)
          \/ outcome # "step_up" /\ Answers(k, "failed", NoValue)
       /\ allowed' = IF outcome = "allow" THEN allowed \union {Of(k)} ELSE allowed
  /\ UNCHANGED screen

Refused(k) == Refuses(k) /\ UNCHANGED <<edge, screen>>

\* A session expires, or the process ends and its sessions with it.
SessionsLost ==
  /\ \E S \in {{s} : s \in SessionId} \union {SessionId} :
       (\E s \in S : verdict[s] # "gone") /\ Forget(S)
  /\ UNCHANGED <<calls, allowed, screen>>

-----------------------------------------------------------------------------
(* The stream and the timer *)

StopVerifyStream ==
  streaming' = FALSE /\ streamSession' = NoSession /\ inFlight' = FALSE

\* startVerifyStream stops whatever was streaming first.
StartVerifyStream(s) ==
  streaming' = TRUE /\ streamSession' = s /\ inFlight' = FALSE

ClearTimer == timers' = timers \ {timerRef} /\ timerRef' = NoSession

SendFrame(k) ==
  /\ streaming /\ ~inFlight
  /\ Opens(k, [kind |-> "frame", session |-> streamSession])
  /\ inFlight' = TRUE
  /\ UNCHANGED <<authState, shown, streaming, streamSession, timer, hasty, edge>>

\* The 1200 ms are over.
TimerFires(s) ==
  /\ s \in timers
  /\ authState' = "step_up" /\ StartVerifyStream(s)
  /\ timers' = timers \ {s} /\ timerRef' = NoSession
  /\ UNCHANGED <<calls, shown, hasty, edge>>

-----------------------------------------------------------------------------
(* The buttons *)

StartAuth(k) ==
  /\ authState = "idle"
  /\ Opens(k, [kind |-> "start", session |-> NoSession])
  /\ authState' = "starting"
  /\ UNCHANGED <<shown, stream, timer, hasty, edge>>

FinishAuth(k) ==
  /\ authState \in {"in_challenge", "step_up"} /\ shown # NoSession
  /\ Opens(k, [kind |-> "finish", session |-> shown])
  /\ authState' = "finishing" /\ StopVerifyStream
  /\ UNCHANGED <<shown, timer, hasty, edge>>

\* Mutant: the timer goes on running.
ContinueStepUpMutant ==
  /\ authState = "step_up_notice" /\ shown # NoSession
  /\ authState' = "step_up" /\ StartVerifyStream(shown)
  /\ UNCHANGED <<calls, shown, timer, hasty, edge>>

ContinueStepUp ==
  /\ authState = "step_up_notice" /\ shown # NoSession
  /\ authState' = "step_up" /\ StartVerifyStream(shown) /\ ClearTimer
  /\ UNCHANGED <<calls, shown, hasty, edge>>

\* Cancel, Retry Login, and an identity reset on the Settings tab.
ResetAuth ==
  /\ authState' = "idle" /\ shown' = NoSession
  /\ StopVerifyStream /\ ClearTimer
  /\ hasty' = ((\E k \in Slots : ~Free(k)) \/ timers' # {})
  /\ UNCHANGED <<calls, edge>>

-----------------------------------------------------------------------------
(* What follows the await of a call *)

Done(k, kind) == Succeeds(k) /\ calls[k].request.kind = kind /\ Closes(k)

StartDone(k) ==
  /\ Done(k, "start")
  /\ shown' = calls[k].value /\ authState' = "in_challenge"
  /\ StartVerifyStream(shown')
  /\ hasty' = (OthersOpen(k) \/ timers # {})
  /\ UNCHANGED <<timer, edge>>

\* The sequence of challenges is complete: the stream pauses, whichever it is.
FrameDone(k) ==
  /\ Done(k, "frame")
  /\ IF calls[k].value = "done" THEN StopVerifyStream
     ELSE inFlight' = FALSE /\ UNCHANGED <<streaming, streamSession>>
  /\ UNCHANGED <<authState, shown, timer, hasty, edge>>

\* There was no picture to send.
NoPicture(k) ==
  /\ Asks(k, "frame") /\ calls[k].resend
  /\ Closes(k) /\ inFlight' = FALSE
  /\ UNCHANGED <<authState, shown, streaming, streamSession, timer, hasty, edge>>

\* Mutant: the notice is shown, and nothing continues by itself.
StepUpNoticeMutant(k) ==
  /\ Done(k, "finish") /\ calls[k].value = "step_up"
  /\ authState' = "step_up_notice"
  /\ UNCHANGED <<shown, stream, timer, hasty, edge>>

StepUpNotice(k) ==
  /\ Done(k, "finish") /\ calls[k].value = "step_up"
  /\ authState' = "step_up_notice"
  /\ timers' = timers \union {Of(k)} /\ timerRef' = Of(k)
  /\ UNCHANGED <<shown, stream, hasty, edge>>

\* Mutant: every decision that is not a step-up ends on the success screen.
DecisionMutant(k) ==
  /\ Done(k, "finish") /\ calls[k].value # "step_up"
  /\ authState' = "success"
  /\ shown' = IF shown = NoSession THEN NoSession ELSE Of(k)
  /\ UNCHANGED <<stream, timer, hasty, edge>>

\* The result, its session_id included, is spread over the session shown.
Decision(k) ==
  /\ Done(k, "finish") /\ calls[k].value # "step_up"
  /\ authState' = IF calls[k].value = "allow" THEN "success" ELSE "error"
  /\ shown' = IF shown = NoSession THEN NoSession ELSE Of(k)
  /\ UNCHANGED <<stream, timer, hasty, edge>>

\* A call fails: the error screen; a frame that fails also ends the stream.
CallFails(k) ==
  /\ Fails(k) /\ Closes(k)
  /\ authState' = "error"
  /\ IF calls[k].request.kind = "frame" THEN StopVerifyStream ELSE UNCHANGED stream
  /\ UNCHANGED <<shown, timer, hasty, edge>>

Retries(k) == (Resends(k) \/ Renews(k)) /\ UNCHANGED <<edge, screen>>

-----------------------------------------------------------------------------
Handled(k) ==
  \/ \E s \in SessionId : StartAtEdge(k, s)
  \/ FrameAtEdge(k) \/ FrameOverLimit(k) \/ FinishAtEdge(k) \/ Refused(k)

Returned(k) ==
  \/ StartDone(k) \/ FrameDone(k) \/ NoPicture(k) \/ StepUpNotice(k)
  \/ Decision(k) \/ CallFails(k) \/ Retries(k)

Pressed(k) == StartAuth(k) \/ FinishAuth(k)

Next ==
  \/ \E k \in Slots : Handled(k) \/ Returned(k) \/ Pressed(k) \/ SendFrame(k)
  \/ \E s \in SessionId : TimerFires(s)
  \/ ContinueStepUp \/ ResetAuth \/ SessionsLost

Spec == Init /\ [][Next]_vars

\* Requests are answered or fail, what awaits them is resumed, timers fire.
\* Nobody has to press a button.
FairSpec ==
  /\ Spec
  /\ \A k \in Slots : WF_vars(Handled(k) \/ Returned(k))
  /\ \A s \in SessionId : WF_vars(TimerFires(s))

-----------------------------------------------------------------------------
(***************************************************************************)
(* Properties.                                                             *)
(***************************************************************************)

\* While no session was left behind with calls or timers under way, frames are
\* streamed for the session shown only, and only while its challenges are on
\* the screen, whatever order answers, errors and the timer come in.
StreamIsShown ==
  ~hasty /\ streaming =>
    streamSession = shown /\ authState \in {"in_challenge", "step_up"}

\* The success screen is up only after the edge allowed a session, and under
\* the same condition that session is the one shown: lost and repeated finish
\* calls do not turn a denial into a success.
SuccessMeansAllowed ==
  authState = "success" => /\ allowed # {}
                           /\ ~hasty => shown \in allowed

UnderWay(k, kind) == ~Free(k) /\ calls[k].request.kind = kind

\* Under the same condition a session has one thing going on at a time: the
\* stream of its frames, a finish call, and no second one, or the timer that
\* resumes the stream.
OneAtATime ==
  /\ StreamIsShown
  /\ ~hasty =>
       /\ \A k \in Slots : UnderWay(k, "finish") =>
            /\ ~streaming /\ timers = {}
            /\ \A j \in Slots : UnderWay(j, "finish") => j = k
       /\ timers # {} => ~streaming

\* The screens that ask the user to wait do not stay.
WaitingEnds ==
  authState \in {"starting", "finishing", "step_up_notice"}
    ~> authState \notin {"starting", "finishing", "step_up_notice"}

=============================================================================
