--------------------------- MODULE LoginFlow_proofs ---------------------------
(***************************************************************************)
(* Proofs of the safety properties of LoginFlow, for any number of calls   *)
(* under way and of sessions.                                              *)
(*                                                                         *)
(* While hasty is false the calls, the timer and the stream belong to the  *)
(* session shown, and at most one of three is there: a stream, a finish    *)
(* call, or the timer that resumes the stream.                             *)
(***************************************************************************)
EXTENDS LoginFlow, TLAPS

\* What a call under way was made for, and what its answer says.
CallOK(k) ==
  /\ ~Free(k) => /\ calls[k].request \in Request
                 /\ Of(k) = NoSession <=> calls[k].request.kind = "start"
  /\ calls[k].status = "ok" =>
       /\ calls[k].request.kind = "start" => calls[k].value \in SessionId
       /\ calls[k].request.kind = "finish" /\ calls[k].value = "allow"
            => Of(k) \in allowed

Finishing(k) == UnderWay(k, "finish")

ScreenOK ==
  /\ streaming => streamSession \in SessionId
  /\ authState \in {"idle", "starting"} => shown = NoSession

\* Calls and timers are for the session shown.
OfShown ==
  ~hasty =>
    /\ \A k \in Slots : ~Free(k) => Of(k) = shown
    /\ timers # {} => timers = {shown} /\ timerRef = shown

\* While a decision is awaited the screen says so, or that something failed;
\* the timer runs behind the notice, or behind an error.
ScreenTells ==
  ~hasty =>
    /\ \A k \in Slots : Finishing(k) =>
         /\ authState \in {"finishing", "error"} /\ timers = {}
         /\ \A j \in Slots : Finishing(j) => j = k
    /\ timers # {} => authState \in {"step_up_notice", "error"}

IInv ==
  /\ TypeOK /\ ScreenOK /\ OfShown /\ ScreenTells
  /\ \A k \in Slots : CallOK(k)
  /\ StreamIsShown /\ SuccessMeansAllowed

-----------------------------------------------------------------------------
(* The steps of a call: what becomes of it, and the others stay.  *)

CallsType == calls \in [Slots -> Call(Request, Value)]

OthersStay(k) == \A j \in Slots \ {k} : calls'[j] = calls[j]

LEMMA OpensCall ==
  ASSUME CallsType, NEW k \in Slots, NEW r \in Request, Opens(k, r)
  PROVE  /\ CallsType' /\ OthersStay(k)
         /\ calls'[k].status = "sent" /\ calls'[k].request = r
         /\ calls'[k].resend /\ calls'[k].value = NoValue
<1> DEFINE c == [status |-> "sent", request |-> r, resend |-> TRUE,
                 renew |-> TRUE, value |-> NoValue]
<1>1. calls' = [calls EXCEPT ![k] = c]
  BY DEF Opens
<1>2. c \in Call(Request, Value)
  BY DEF Call, Status
<1>3. c.status = "sent" /\ c.request = r /\ c.resend /\ c.value = NoValue
  OBVIOUS
<1> QED
  BY <1>1, <1>2, <1>3 DEF CallsType, OthersStay

LEMMA AnswersCall ==
  ASSUME CallsType, NEW k \in Slots, NEW status \in Status,
         NEW v \in Value \union {NoValue}, Answers(k, status, v)
  PROVE  /\ CallsType' /\ OthersStay(k)
         /\ calls'[k].status = status /\ calls'[k].value = v
         /\ calls'[k].request = calls[k].request
         /\ calls'[k].resend = calls[k].resend
<1> DEFINE c == [calls[k] EXCEPT !.status = status, !.value = v]
<1>1. calls' = [calls EXCEPT ![k] = c]
  BY DEF Answers
<1>2. /\ c \in Call(Request, Value) /\ c.status = status /\ c.value = v
      /\ c.request = calls[k].request /\ c.resend = calls[k].resend
  BY DEF CallsType, Call
<1> QED
  BY <1>1, <1>2 DEF CallsType, OthersStay

LEMMA RepeatsCall ==
  ASSUME CallsType, NEW k \in Slots, Resends(k) \/ Renews(k)
  PROVE  /\ CallsType' /\ OthersStay(k) /\ ~Free(k)
         /\ calls'[k].status = "sent" /\ ~calls'[k].resend
         /\ calls'[k].request = calls[k].request
         /\ calls[k].resend \/ calls[k].status = "busy"
<1> DEFINE c(b) == [calls[k] EXCEPT !.status = "sent", !.resend = FALSE, !.renew = b,
                                    !.value = NoValue]
<1>1. calls[k] \in Call(Request, Value)
  BY DEF CallsType
<1>2. PICK b \in BOOLEAN : calls' = [calls EXCEPT ![k] = c(b)]
  <2>1. CASE Resends(k)
    <3>1. c(calls[k].renew) = [calls[k] EXCEPT !.status = "sent", !.resend = FALSE,
                                               !.value = NoValue]
      BY <1>1 DEF Call
    <3>2. calls[k].renew \in BOOLEAN
      BY <1>1 DEF Call
    <3>3. calls' = [calls EXCEPT ![k] = c(calls[k].renew)]
      BY <2>1, <3>1 DEF Resends
    <3> QED
      BY <3>2, <3>3
  <2>2. CASE Renews(k)
    BY <2>2 DEF Renews
  <2> QED
    BY <2>1, <2>2
<1>3. /\ c(b) \in Call(Request, Value) /\ c(b).status = "sent" /\ ~c(b).resend
      /\ c(b).request = calls[k].request
  BY <1>1 DEF Call, Status
<1>4. ~Free(k) /\ (calls[k].resend \/ calls[k].status = "busy")
  BY DEF Resends, Renews, Free
<1> HIDE DEF c
<1> QED
  BY <1>2, <1>3, <1>4 DEF CallsType, OthersStay

LEMMA ClosesCall ==
  ASSUME CallsType, NEW k \in Slots, Closes(k)
  PROVE  CallsType' /\ OthersStay(k) /\ calls'[k].status = "free" /\ ~calls'[k].resend
<1>1. NoCall \in Call(Request, Value) /\ NoCall.status = "free" /\ ~NoCall.resend
  BY DEF Call, NoCall, Status
<1> QED
  BY <1>1 DEF Closes, CallsType, OthersStay

-----------------------------------------------------------------------------
(* Every step keeps the invariant. *)

USE DEF Free, Of, UnderWay, Finishing

LEMMA InitIInv == Init => IInv
<1> SUFFICES ASSUME Init PROVE IInv
  OBVIOUS
<1>1. NoCall \in Call(Request, Value) /\ NoCall.status = "free"
  BY DEF NoCall, Call, Status
<1> QED
  BY <1>1 DEF Init, NoCalls, VerdictInit, IInv, TypeOK, Verdict, AuthState, ScreenOK,
    OfShown, ScreenTells, Finishing, CallOK, Free, StreamIsShown, SuccessMeansAllowed

\* The edge handles an attempt: the screen stays, and so does what the call was
\* made for.
LEMMA HandledKeeps ==
  ASSUME IInv, NEW k \in Slots, Handled(k)
  PROVE  IInv'
<1>1. /\ \E status \in {"ok", "busy", "failed"}, v \in Value \union {NoValue} :
            /\ Answers(k, status, v)
            /\ status = "ok" /\ calls[k].request.kind = "start" => v \in SessionId
            /\ status = "ok" /\ calls[k].request.kind = "finish" /\ v = "allow"
                 => Of(k) \in allowed'
      /\ UNCHANGED screen /\ ~Free(k) /\ allowed \subseteq allowed'
      /\ issued' \subseteq SessionId /\ verdict' \in [SessionId -> Verdict]
      /\ allowed' \subseteq SessionId
  <2> USE DEF IInv, TypeOK, Asks, Free
  <2>1. CASE \E s \in SessionId : StartAtEdge(k, s)
    BY <2>1 DEF StartAtEdge, Issue, Value, Verdict
  <2>2. CASE FrameAtEdge(k)
    BY <2>2 DEF FrameAtEdge, Value, edge
  <2>3. CASE FrameOverLimit(k)
    BY <2>3 DEF FrameOverLimit, LimitReached, Verdict
  <2>4. CASE FinishAtEdge(k)
    BY <2>4 DEF FinishAtEdge, Decide, Value
  <2>5. CASE Refused(k)
    BY <2>5 DEF Refused, Refuses, edge
  <2> QED
    BY <2>1, <2>2, <2>3, <2>4, <2>5 DEF Handled
<1>2. PICK status \in {"ok", "busy", "failed"}, v \in Value \union {NoValue} :
            /\ Answers(k, status, v)
            /\ status = "ok" /\ calls[k].request.kind = "start" => v \in SessionId
            /\ status = "ok" /\ calls[k].request.kind = "finish" /\ v = "allow"
                 => Of(k) \in allowed'
  BY <1>1
<1>3. /\ CallsType' /\ OthersStay(k)
      /\ calls'[k].status = status /\ calls'[k].value = v
      /\ calls'[k].request = calls[k].request
  BY <1>2, AnswersCall DEF IInv, TypeOK, CallsType, Status
<1>4. UNCHANGED <<authState, shown, streaming, streamSession, inFlight, timers,
                  timerRef, hasty>>
  BY <1>1 DEF screen, stream, timer
<1>5. \A j \in Slots : /\ Free(j)' <=> Free(j)
                       /\ Of(j)' = Of(j) /\ (Finishing(j)' <=> Finishing(j))
  BY <1>1, <1>3 DEF Free, OthersStay, Of, Finishing
<1>6. TypeOK'
  BY <1>1, <1>3, <1>4 DEF IInv, TypeOK, CallsType
<1>7. \A j \in Slots : CallOK(j)'
  <2> TAKE j \in Slots
  <2>1. CASE j = k
    BY <1>1, <1>2, <1>3, <1>5, <2>1 DEF IInv, CallOK, Of, Free
  <2>2. CASE j # k
    BY <1>1, <1>3, <2>2 DEF IInv, CallOK, Of, Free, OthersStay
  <2> QED
    BY <2>1, <2>2
<1>8. ScreenOK' /\ StreamIsShown' /\ SuccessMeansAllowed'
  BY <1>1, <1>4 DEF IInv, ScreenOK, StreamIsShown, SuccessMeansAllowed
<1>9. OfShown'
  BY <1>4, <1>5 DEF IInv, OfShown
<1>10. ScreenTells'
  BY <1>4, <1>5 DEF IInv, ScreenTells
<1> QED
  BY <1>6, <1>7, <1>8, <1>9, <1>10 DEF IInv

\* What a step leaves alone when it only opens, repeats or closes a call.
Kept ==
  /\ CallsType' /\ issued' \subseteq SessionId /\ verdict' \in [SessionId -> Verdict]
  /\ allowed' = allowed /\ allowed \subseteq SessionId
  /\ \A j \in Slots : CallOK(j)'

LEMMA OpensKeeps ==
  ASSUME IInv, NEW k \in Slots, NEW r \in Request, Opens(k, r), UNCHANGED edge,
         r.session = NoSession <=> r.kind = "start"
  PROVE  /\ Kept /\ Free(k) /\ ~Free(k)' /\ Of(k)' = r.session
         /\ Finishing(k)' <=> r.kind = "finish"
         /\ \A j \in Slots \ {k} :
              /\ Free(j)' <=> Free(j)
              /\ Of(j)' = Of(j) /\ (Finishing(j)' <=> Finishing(j))
<1>1. /\ CallsType' /\ OthersStay(k)
      /\ calls'[k].status = "sent" /\ calls'[k].request = r
  BY OpensCall DEF IInv, TypeOK, CallsType
<1>2. \A j \in Slots : CallOK(j)'
  BY <1>1 DEF IInv, CallOK, Of, Free, OthersStay, edge
<1> QED
  BY <1>1, <1>2 DEF Kept, IInv, TypeOK, edge, Opens, Free, Of, Finishing, OthersStay

LEMMA RepeatsKeeps ==
  ASSUME IInv, NEW k \in Slots, Retries(k)
  PROVE  IInv'
<1>1. /\ CallsType' /\ OthersStay(k) /\ ~Free(k) /\ calls'[k].status = "sent"
      /\ calls'[k].request = calls[k].request
  BY RepeatsCall DEF Retries, IInv, TypeOK, CallsType
<1>2. UNCHANGED <<issued, verdict, allowed, authState, shown, streaming, streamSession,
                  inFlight, timers, timerRef, hasty>>
  BY DEF Retries, edge, screen, stream, timer
<1>3. \A j \in Slots : /\ Free(j)' <=> Free(j)
                       /\ Of(j)' = Of(j) /\ (Finishing(j)' <=> Finishing(j))
  BY <1>1 DEF Free, OthersStay, Of, Finishing
<1>4. TypeOK' /\ ScreenOK' /\ StreamIsShown' /\ SuccessMeansAllowed'
  BY <1>1, <1>2 DEF IInv, TypeOK, CallsType, ScreenOK, StreamIsShown, SuccessMeansAllowed
<1>5. \A j \in Slots : CallOK(j)'
  BY <1>1, <1>2 DEF IInv, CallOK, Of, Free, OthersStay
<1>6. OfShown'
  BY <1>2, <1>3 DEF IInv, OfShown
<1>7. ScreenTells'
  BY <1>2, <1>3 DEF IInv, ScreenTells
<1> QED
  BY <1>4, <1>5, <1>6, <1>7 DEF IInv

LEMMA ClosesKeeps ==
  ASSUME IInv, NEW k \in Slots, Closes(k), UNCHANGED edge
  PROVE  /\ Kept /\ Free(k)'
         /\ \A j \in Slots \ {k} :
              /\ Free(j)' <=> Free(j)
              /\ Of(j)' = Of(j) /\ (Finishing(j)' <=> Finishing(j))
<1>1. CallsType' /\ OthersStay(k) /\ calls'[k].status = "free"
  BY ClosesCall DEF IInv, TypeOK, CallsType
<1>2. \A j \in Slots : CallOK(j)'
  BY <1>1 DEF IInv, CallOK, Of, Free, OthersStay, edge
<1> QED
  BY <1>1, <1>2 DEF Kept, IInv, TypeOK, edge, Free, Of, Finishing, OthersStay

\* The buttons.
LEMMA StartAuthKeeps ==
  ASSUME IInv, NEW k \in Slots, StartAuth(k)
  PROVE  IInv'
<1> USE DEF StartAuth, stream, timer
<1>1. /\ Kept /\ Free(k) /\ ~Free(k)' /\ Of(k)' = NoSession /\ ~Finishing(k)'
      /\ \A j \in Slots \ {k} :
           /\ Free(j)' <=> Free(j)
           /\ Of(j)' = Of(j) /\ (Finishing(j)' <=> Finishing(j))
  BY OpensKeeps DEF Request, Kind
<1>2. TypeOK' /\ ScreenOK' /\ StreamIsShown' /\ SuccessMeansAllowed'
  BY <1>1 DEF Kept, IInv, TypeOK, CallsType, AuthState, ScreenOK, StreamIsShown,
    SuccessMeansAllowed
<1>3. OfShown'
  BY <1>1 DEF IInv, OfShown, ScreenOK
<1>4. ScreenTells'
  BY <1>1 DEF IInv, ScreenTells
<1> QED
  BY <1>1, <1>2, <1>3, <1>4 DEF IInv, Kept

LEMMA FinishAuthKeeps ==
  ASSUME IInv, NEW k \in Slots, FinishAuth(k)
  PROVE  IInv'
<1> USE DEF FinishAuth, StopVerifyStream, timer
<1>1. shown \in SessionId
  BY DEF IInv, TypeOK
<1>2. /\ Kept /\ Free(k) /\ ~Free(k)' /\ Of(k)' = shown
      /\ \A j \in Slots \ {k} :
           /\ Free(j)' <=> Free(j)
           /\ Of(j)' = Of(j) /\ (Finishing(j)' <=> Finishing(j))
  BY <1>1, OpensKeeps DEF Request, Kind
<1>3. TypeOK' /\ ScreenOK' /\ StreamIsShown' /\ SuccessMeansAllowed'
  BY <1>2 DEF Kept, IInv, TypeOK, CallsType, AuthState, ScreenOK, StreamIsShown,
    SuccessMeansAllowed
<1>4. OfShown'
  BY <1>2 DEF IInv, OfShown
<1>5. ~hasty => timers = {} /\ \A j \in Slots : ~Finishing(j)
  BY DEF IInv, ScreenTells
<1>6. ScreenTells'
  BY <1>2, <1>5 DEF IInv, ScreenTells
<1> QED
  BY <1>2, <1>3, <1>4, <1>6 DEF IInv, Kept

LEMMA ContinueStepUpKeeps ==
  ASSUME IInv, ContinueStepUp
  PROVE  IInv'
<1> USE DEF ContinueStepUp, StartVerifyStream, ClearTimer, edge, Free, Of, Finishing
<1>1. shown \in SessionId /\ authState = "step_up_notice"
  BY DEF IInv, TypeOK
<1>2. TypeOK' /\ ScreenOK' /\ StreamIsShown' /\ SuccessMeansAllowed'
  BY <1>1 DEF IInv, TypeOK, AuthState, ScreenOK, StreamIsShown, SuccessMeansAllowed
<1>3. ~hasty' => timers' = {}
  BY DEF IInv, OfShown
<1>4. OfShown' /\ ScreenTells'
  BY <1>1, <1>3 DEF IInv, OfShown, ScreenTells
<1>5. \A k \in Slots : CallOK(k)'
  BY DEF IInv, CallOK
<1> QED
  BY <1>2, <1>4, <1>5 DEF IInv

LEMMA ResetAuthKeeps ==
  ASSUME IInv, ResetAuth
  PROVE  IInv'
<1> USE DEF ResetAuth, StopVerifyStream, ClearTimer, edge, Free, Of, Finishing
<1>1. TypeOK' /\ ScreenOK' /\ StreamIsShown' /\ SuccessMeansAllowed'
  BY DEF IInv, TypeOK, AuthState, ScreenOK, StreamIsShown, SuccessMeansAllowed
<1>2. OfShown' /\ ScreenTells'
  BY DEF OfShown, ScreenTells
<1>3. \A k \in Slots : CallOK(k)'
  BY DEF IInv, CallOK
<1> QED
  BY <1>1, <1>2, <1>3 DEF IInv

\* The stream and the timer.
LEMMA SendFrameKeeps ==
  ASSUME IInv, NEW k \in Slots, SendFrame(k)
  PROVE  IInv'
<1> USE DEF SendFrame, timer
<1>1. streamSession \in SessionId
  BY DEF IInv, ScreenOK
<1>2. /\ Kept /\ Free(k) /\ ~Free(k)' /\ Of(k)' = streamSession /\ ~Finishing(k)'
      /\ \A j \in Slots \ {k} :
           /\ Free(j)' <=> Free(j)
           /\ Of(j)' = Of(j) /\ (Finishing(j)' <=> Finishing(j))
  BY <1>1, OpensKeeps, LoginConstants DEF Request, Kind
<1>3. TypeOK' /\ ScreenOK' /\ StreamIsShown' /\ SuccessMeansAllowed'
  BY <1>2 DEF Kept, IInv, TypeOK, CallsType, ScreenOK, StreamIsShown, SuccessMeansAllowed
<1>4. OfShown'
  BY <1>2 DEF IInv, OfShown, StreamIsShown
<1>5. ScreenTells'
  BY <1>2 DEF IInv, ScreenTells
<1> QED
  BY <1>2, <1>3, <1>4, <1>5 DEF IInv, Kept

LEMMA TimerKeeps ==
  ASSUME IInv, NEW s \in SessionId, TimerFires(s)
  PROVE  IInv'
<1> USE DEF TimerFires, StartVerifyStream, edge, Free, Of, Finishing
<1>1. ~hasty => s = shown /\ timers' = {} /\ \A k \in Slots : ~Finishing(k)
  BY DEF IInv, OfShown, ScreenTells
<1>2. TypeOK' /\ ScreenOK' /\ StreamIsShown' /\ SuccessMeansAllowed'
  BY <1>1 DEF IInv, TypeOK, AuthState, ScreenOK, StreamIsShown, SuccessMeansAllowed
<1>3. OfShown' /\ ScreenTells'
  BY <1>1 DEF IInv, OfShown, ScreenTells
<1>4. \A k \in Slots : CallOK(k)'
  BY DEF IInv, CallOK
<1> QED
  BY <1>2, <1>3, <1>4 DEF IInv

\* What follows the await of a call.
LEMMA StartDoneKeeps ==
  ASSUME IInv, NEW k \in Slots, StartDone(k)
  PROVE  IInv'
<1> USE DEF StartDone, Done, Succeeds, StartVerifyStream, timer
<1>1. /\ Kept /\ Free(k)'
      /\ \A j \in Slots \ {k} :
           /\ Free(j)' <=> Free(j)
           /\ Of(j)' = Of(j) /\ (Finishing(j)' <=> Finishing(j))
  BY ClosesKeeps
<1>2. shown' \in SessionId
  BY DEF IInv, CallOK
<1>3. TypeOK' /\ ScreenOK' /\ StreamIsShown' /\ SuccessMeansAllowed'
  BY <1>1, <1>2 DEF Kept, IInv, TypeOK, CallsType, AuthState, ScreenOK, StreamIsShown,
    SuccessMeansAllowed
<1>4. ~hasty' => timers' = {} /\ \A j \in Slots : Free(j)'
  BY <1>1 DEF OthersOpen
<1>5. OfShown' /\ ScreenTells'
  BY <1>4 DEF OfShown, ScreenTells
<1> QED
  BY <1>1, <1>3, <1>5 DEF IInv, Kept

\* Frames that are answered or have no picture end or pause the stream, and
\* leave the rest.
LEMMA FrameReturnKeeps ==
  ASSUME IInv, NEW k \in Slots, FrameDone(k) \/ NoPicture(k)
  PROVE  IInv'
<1> USE DEF FrameDone, NoPicture, Done, StopVerifyStream, timer
<1>1. /\ Kept /\ Free(k)'
      /\ \A j \in Slots \ {k} :
           /\ Free(j)' <=> Free(j)
           /\ Of(j)' = Of(j) /\ (Finishing(j)' <=> Finishing(j))
  BY ClosesKeeps
<1>2. /\ UNCHANGED <<authState, shown, timers, timerRef, hasty>> /\ ~inFlight'
      /\ \/ ~streaming' /\ streamSession' = NoSession
         \/ UNCHANGED <<streaming, streamSession>>
  OBVIOUS
<1>3. TypeOK'
  BY <1>1, <1>2 DEF Kept, IInv, TypeOK, CallsType
<1>4. ScreenOK' /\ StreamIsShown' /\ SuccessMeansAllowed'
  BY <1>1, <1>2 DEF Kept, IInv, ScreenOK, StreamIsShown, SuccessMeansAllowed
<1>5. OfShown' /\ ScreenTells'
  BY <1>1, <1>2 DEF IInv, OfShown, ScreenTells
<1> QED
  BY <1>1, <1>3, <1>4, <1>5 DEF IInv, Kept

LEMMA StepUpNoticeKeeps ==
  ASSUME IInv, NEW k \in Slots, StepUpNotice(k)
  PROVE  IInv'
<1> USE DEF StepUpNotice, Done, Succeeds, stream
<1>1. /\ Kept /\ Free(k)'
      /\ \A j \in Slots \ {k} :
           /\ Free(j)' <=> Free(j)
           /\ Of(j)' = Of(j) /\ (Finishing(j)' <=> Finishing(j))
  BY ClosesKeeps
<1>2. Finishing(k) /\ Of(k) \in SessionId
  BY DEF IInv, CallOK, Request
<1>3. ~hasty => /\ Of(k) = shown /\ timers = {} /\ ~streaming
                /\ \A j \in Slots : Finishing(j) => j = k
  BY <1>2 DEF IInv, OfShown, ScreenTells, StreamIsShown
<1>4. TypeOK'
  BY <1>1, <1>2 DEF Kept, IInv, TypeOK, CallsType, AuthState
<1>5. ScreenOK' /\ StreamIsShown' /\ SuccessMeansAllowed'
  BY <1>3 DEF IInv, ScreenOK, StreamIsShown, SuccessMeansAllowed
<1>6. OfShown'
  BY <1>1, <1>3 DEF IInv, OfShown
<1>7. ScreenTells'
  BY <1>1, <1>3 DEF ScreenTells
<1> QED
  BY <1>1, <1>4, <1>5, <1>6, <1>7 DEF IInv, Kept

LEMMA DecisionKeeps ==
  ASSUME IInv, NEW k \in Slots, Decision(k)
  PROVE  IInv'
<1> USE DEF Decision, Done, Succeeds, stream, timer
<1>1. /\ Kept /\ Free(k)'
      /\ \A j \in Slots \ {k} :
           /\ Free(j)' <=> Free(j)
           /\ Of(j)' = Of(j) /\ (Finishing(j)' <=> Finishing(j))
  BY ClosesKeeps
<1>2. Finishing(k) /\ Of(k) \in SessionId /\ (calls[k].value = "allow" => Of(k) \in allowed)
  BY DEF IInv, CallOK, Request
<1>3. ~hasty => /\ Of(k) = shown /\ timers = {} /\ ~streaming
                /\ \A j \in Slots : Finishing(j) => j = k
  BY <1>2 DEF IInv, OfShown, ScreenTells, StreamIsShown
<1>4. ~hasty => shown' = shown /\ shown \in SessionId
  BY <1>2, <1>3
<1>5. TypeOK'
  BY <1>1, <1>2 DEF Kept, IInv, TypeOK, CallsType, AuthState
<1>6. ScreenOK' /\ StreamIsShown' /\ SuccessMeansAllowed'
  BY <1>1, <1>2, <1>3, <1>4 DEF Kept, IInv, ScreenOK, StreamIsShown, SuccessMeansAllowed
<1>7. OfShown'
  BY <1>1, <1>3, <1>4 DEF IInv, OfShown
<1>8. ScreenTells'
  BY <1>1, <1>3 DEF ScreenTells
<1> QED
  BY <1>1, <1>5, <1>6, <1>7, <1>8 DEF IInv, Kept

LEMMA CallFailsKeeps ==
  ASSUME IInv, NEW k \in Slots, CallFails(k)
  PROVE  IInv'
<1> USE DEF CallFails, Fails, StopVerifyStream, stream, timer
<1>1. /\ Kept /\ Free(k)'
      /\ \A j \in Slots \ {k} :
           /\ Free(j)' <=> Free(j)
           /\ Of(j)' = Of(j) /\ (Finishing(j)' <=> Finishing(j))
  BY ClosesKeeps
<1>2. ASSUME ~hasty PROVE ~streaming'
  <2>1. CASE calls[k].request.kind = "frame"
    BY <2>1
  <2>2. CASE calls[k].request.kind = "finish"
    BY <1>2, <2>2 DEF IInv, ScreenTells, StreamIsShown
  <2>3. CASE calls[k].request.kind = "start"
    <3>1. Of(k) = NoSession /\ Of(k) = shown
      BY <1>2, <2>3 DEF IInv, CallOK, OfShown
    <3> QED
      BY <1>2, <2>3, <3>1, LoginConstants DEF IInv, ScreenOK, StreamIsShown
  <2> QED
    BY <2>1, <2>2, <2>3 DEF IInv, CallOK, Request, Kind
<1>3. TypeOK' /\ ScreenOK' /\ StreamIsShown' /\ SuccessMeansAllowed'
  BY <1>1, <1>2 DEF Kept, IInv, TypeOK, CallsType, AuthState, ScreenOK, StreamIsShown,
    SuccessMeansAllowed
<1>4. OfShown' /\ ScreenTells'
  BY <1>1 DEF IInv, OfShown, ScreenTells
<1> QED
  BY <1>1, <1>3, <1>4 DEF IInv, Kept

\* Sessions are forgotten by the edge alone.
LEMMA LostKeeps ==
  ASSUME IInv, SessionsLost \/ UNCHANGED vars
  PROVE  IInv'
<1>1. /\ UNCHANGED <<calls, allowed, issued, authState, shown, streaming,
                     streamSession, inFlight, timers, timerRef, hasty>>
      /\ verdict' \in [SessionId -> Verdict]
  BY DEF SessionsLost, Forget, IInv, TypeOK, Verdict, vars, edge, screen, stream, timer
<1>2. TypeOK' /\ ScreenOK' /\ StreamIsShown' /\ SuccessMeansAllowed'
  BY <1>1 DEF IInv, TypeOK, ScreenOK, StreamIsShown, SuccessMeansAllowed
<1>3. OfShown'
  BY <1>1 DEF IInv, OfShown
<1>4. ScreenTells'
  BY <1>1 DEF IInv, ScreenTells
<1>5. \A k \in Slots : CallOK(k)'
  BY <1>1 DEF IInv, CallOK
<1> QED
  BY <1>2, <1>3, <1>4, <1>5 DEF IInv

LEMMA StepIInv == IInv /\ [Next]_vars => IInv'
<1> SUFFICES ASSUME IInv, [Next]_vars PROVE IInv'
  OBVIOUS
<1>1. CASE \E k \in Slots : Handled(k)
  BY <1>1, HandledKeeps
<1>2. CASE \E k \in Slots : Returned(k)
  BY <1>2, StartDoneKeeps, FrameReturnKeeps, StepUpNoticeKeeps, DecisionKeeps,
    CallFailsKeeps, RepeatsKeeps DEF Returned
<1>3. CASE \E k \in Slots : Pressed(k) \/ SendFrame(k)
  BY <1>3, StartAuthKeeps, FinishAuthKeeps, SendFrameKeeps DEF Pressed
<1>4. CASE \E s \in SessionId : TimerFires(s)
  BY <1>4, TimerKeeps
<1>5. CASE ContinueStepUp \/ ResetAuth \/ SessionsLost \/ UNCHANGED vars
  BY <1>5, ContinueStepUpKeeps, ResetAuthKeeps, LostKeeps
<1> QED
  BY <1>1, <1>2, <1>3, <1>4, <1>5 DEF Next

-----------------------------------------------------------------------------
(* Theorems.  *)

\* The invariant holds in every reachable state.
THEOREM Inductive == Spec => []IInv
  BY InitIInv, StepIInv, PTL DEF Spec

\* Type correctness.
THEOREM TypeCorrect == Spec => []TypeOK
<1>1. IInv => TypeOK
  BY DEF IInv
<1> QED
  BY <1>1, Inductive, PTL

\* The success screen tells of a session that the edge allowed.
THEOREM SuccessIsAllowed == Spec => []SuccessMeansAllowed
<1>1. IInv => SuccessMeansAllowed
  BY DEF IInv
<1> QED
  BY <1>1, Inductive, PTL

\* Unless something was left behind, the stream is for the session shown and
\* runs on a challenge screen only, and a stream, a finish call and the timer
\* exclude one another.
THEOREM OneThingAtATime == Spec => []OneAtATime
<1>1. IInv => OneAtATime
  BY DEF IInv, ScreenTells, StreamIsShown, OneAtATime
<1> QED
  BY <1>1, Inductive, PTL

-----------------------------------------------------------------------------
(* Nobody waits for nothing: that a waiting screen ends is checked by TLC; that  *)
(* what ends it is under way is proved here, for sessions left behind, too.      *)

\* Who waits, waits for something: behind each screen that asks the user to wait
\* is a call or a timer that ends it, and behind the mark that holds back the
\* next frame is a frame under way, however calls and sessions overlapped.
WaitingIsBacked ==
  /\ authState = "starting" => \E k \in Slots : UnderWay(k, "start")
  /\ authState = "finishing" => \E k \in Slots : UnderWay(k, "finish")
  /\ authState = "step_up_notice" => timers # {}
  /\ inFlight => \E k \in Slots : UnderWay(k, "frame")

\* A call under way goes on being the call it is until it is closed.
GoOn(S) == \A j \in S, kind \in Kind : UnderWay(j, kind) => UnderWay(j, kind)'

LEMMA OpensGoOn ==
  ASSUME CallsType, NEW k \in Slots, NEW r \in Request, Opens(k, r)
  PROVE  GoOn(Slots) /\ UnderWay(k, r.kind)'
<1>1. /\ OthersStay(k) /\ Free(k)
      /\ calls'[k].status = "sent" /\ calls'[k].request = r
  BY OpensCall DEF Opens
<1> QED
  BY <1>1 DEF GoOn, OthersStay

LEMMA ClosesGoOn ==
  ASSUME CallsType, NEW k \in Slots, Closes(k)
  PROVE  GoOn(Slots \ {k})
  BY ClosesCall DEF GoOn, OthersStay

\* What the edge and the client do in between changes no screen.
LEMMA BetweenGoOn ==
  ASSUME TypeOK, NEW k \in Slots, Handled(k) \/ Retries(k)
  PROVE  GoOn(Slots) /\ UNCHANGED screen
<1>1. CallsType
  BY DEF TypeOK, CallsType
<1>2. CASE Retries(k)
  <2>1. OthersStay(k) /\ ~Free(k) /\ calls'[k].status = "sent"
        /\ calls'[k].request = calls[k].request
    BY <1>1, <1>2, RepeatsCall DEF Retries
  <2> QED
    BY <1>2, <2>1 DEF Retries, GoOn, OthersStay
<1>3. CASE Handled(k)
  <2>1. /\ \E status \in {"ok", "busy", "failed"}, v \in Value \union {NoValue} :
              Answers(k, status, v)
        /\ UNCHANGED screen
    BY <1>3 DEF Handled, StartAtEdge, FrameAtEdge, FrameOverLimit, FinishAtEdge, Refused,
                Refuses, Value
  <2>2. PICK status \in {"ok", "busy", "failed"}, v \in Value \union {NoValue} :
              Answers(k, status, v)
    BY <2>1
  <2>3. /\ OthersStay(k) /\ calls'[k].status = status
        /\ calls'[k].request = calls[k].request
    BY <1>1, <2>2, AnswersCall DEF Status
  <2> QED
    BY <2>1, <2>3 DEF GoOn, OthersStay
<1> QED
  BY <1>2, <1>3

LEMMA BackedStep == IInv /\ WaitingIsBacked /\ [Next]_vars => WaitingIsBacked'
<1> SUFFICES ASSUME IInv, WaitingIsBacked, [Next]_vars PROVE WaitingIsBacked'
  OBVIOUS
<1>1. TypeOK /\ CallsType
  BY DEF IInv, TypeOK, CallsType
<1> USE DEF WaitingIsBacked, Kind
<1>2. ASSUME NEW k \in Slots, Handled(k) \/ Retries(k) PROVE WaitingIsBacked'
  BY <1>1, <1>2, BetweenGoOn DEF GoOn, screen, stream, timer
<1>3. ASSUME NEW k \in Slots, StartAuth(k) \/ FinishAuth(k) \/ SendFrame(k)
      PROVE WaitingIsBacked'
  <2>1. CASE StartAuth(k)
    <3>1. GoOn(Slots) /\ UnderWay(k, "start")'
      BY <1>1, <2>1, OpensGoOn DEF StartAuth, Request
    <3> QED
      BY <2>1, <3>1 DEF StartAuth, GoOn, stream
  <2>2. CASE FinishAuth(k)
    <3>1. GoOn(Slots) /\ UnderWay(k, "finish")'
      BY <1>1, <2>2, OpensGoOn DEF FinishAuth, Request, TypeOK
    <3> QED
      BY <2>2, <3>1 DEF FinishAuth, StopVerifyStream
  <2>3. CASE SendFrame(k)
    <3>1. GoOn(Slots) /\ UnderWay(k, "frame")'
      BY <1>1, <2>3, OpensGoOn DEF SendFrame, Request, TypeOK
    <3> QED
      BY <2>3, <3>1 DEF SendFrame, GoOn, timer
  <2> QED
    BY <1>3, <2>1, <2>2, <2>3
<1>4. ASSUME NEW k \in Slots,
             \/ StartDone(k) \/ FrameDone(k) \/ NoPicture(k) \/ StepUpNotice(k)
             \/ Decision(k) \/ CallFails(k)
      PROVE  WaitingIsBacked'
  <2>1. GoOn(Slots \ {k})
    BY <1>1, <1>4, ClosesGoOn
    DEF StartDone, FrameDone, NoPicture, StepUpNotice, Decision, CallFails, Done
  <2>2. CASE StartDone(k)
    BY <2>2 DEF StartDone, StartVerifyStream
  <2>3. CASE FrameDone(k) \/ NoPicture(k)
    <3>1. calls[k].request.kind = "frame" /\ ~inFlight'
          /\ authState' = authState /\ timers' = timers
      BY <2>3 DEF FrameDone, NoPicture, Done, Asks, StopVerifyStream, timer
    <3> QED
      BY <2>1, <3>1 DEF GoOn
  <2>4. CASE StepUpNotice(k) \/ Decision(k)
    <3>1. /\ calls[k].request.kind = "finish" /\ inFlight' = inFlight
          /\ authState' \in {"step_up_notice", "success", "error"}
          /\ authState' = "step_up_notice" => timers' # {}
      BY <2>4 DEF StepUpNotice, Decision, Done, stream
    <3> QED
      BY <2>1, <3>1 DEF GoOn
  <2>5. CASE CallFails(k)
    <3>1. /\ authState' = "error" /\ timers' = timers
          /\ inFlight' => inFlight /\ calls[k].request.kind # "frame"
      BY <2>5 DEF CallFails, StopVerifyStream, stream, timer
    <3> QED
      BY <2>1, <3>1 DEF GoOn
  <2> QED
    BY <1>4, <2>2, <2>3, <2>4, <2>5
<1>5. CASE \E s \in SessionId : TimerFires(s)
  BY <1>5 DEF TimerFires, StartVerifyStream
<1>6. CASE ContinueStepUp \/ ResetAuth
  BY <1>6 DEF ContinueStepUp, ResetAuth, StartVerifyStream, StopVerifyStream
<1>7. CASE SessionsLost \/ UNCHANGED vars
  BY <1>7 DEF SessionsLost, vars, screen, stream, timer
<1> QED
  BY <1>2, <1>3, <1>4, <1>5, <1>6, <1>7 DEF Next, Returned, Pressed

\* Behind every screen that asks to wait, and behind a frame that holds back
\* the next, is what ends the wait.
THEOREM WaitsAreBacked == Spec => []WaitingIsBacked
<1>1. Init => WaitingIsBacked
  BY DEF Init, WaitingIsBacked
<1> QED
  BY <1>1, BackedStep, Inductive, PTL DEF Spec

=============================================================================
