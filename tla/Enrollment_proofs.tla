--------------------------- MODULE Enrollment_proofs ---------------------------
(***************************************************************************)
(* Proofs of the safety properties of Enrollment, for any number of calls  *)
(* under way, any target, and any number of sessions and frames.           *)
(*                                                                         *)
(* The invariant says of a call what its answer still means when it comes, *)
(* of a session that it is either live or stored, and of the screen that   *)
(* while hasty is false every open call was made for the session shown.    *)
(***************************************************************************)
EXTENDS Enrollment, TLAPS

\* What a call under way was made for, and what its answer still says.
CallOK(k) ==
  /\ Free(k) => taken[k] = 0
  /\ ~Free(k) => /\ calls[k].request \in Request
                 /\ Of(k) = NoSession <=> calls[k].request.kind = "start"
                 /\ Of(k) <= issued

AnswerOK(k) ==
  calls[k].status = "ok" =>
    /\ calls[k].request.kind = "start" => calls[k].value \in 1..issued
    /\ calls[k].request.kind = "frame" =>
         /\ calls[k].value \in Nat
         /\ Live(Of(k)) => calls[k].value <= sessions[Of(k)].accepted
    /\ calls[k].request.kind = "commit" =>
         /\ calls[k].value \in Nat
         /\ stored[Of(k)].times = 1
         /\ ~hasty => template = Of(k)

\* A picture is accepted by an attempt that ends well; only a lost answer, and
\* only one, makes the client send it again after that.
TakenOK(k) ==
  /\ taken[k] <= 2
  /\ calls[k].resend => taken[k] <= 1
  /\ calls[k].status \in {"sent", "busy"} =>
       taken[k] <= 1 /\ (calls[k].resend => taken[k] = 0)

\* A session is live, or stored once, or neither.
SessionOK(s) ==
  /\ stored[s].times <= 1
  /\ stored[s].times = 1 => stored[s].frames >= Target
  /\ sessions[s].live => s <= issued /\ stored[s].times = 0
  /\ s > issued => stored[s].times = 0

TemplateOK == template \in Sessions => stored[template].times = 1

ShownOK ==
  /\ shown.session <= issued
  /\ shown.session = NoSession => shown = NotShown
  /\ ui \in {"idle", "starting"} => shown = NotShown

CallsMatch == ~hasty => \A k \in Slots : ~Free(k) => Of(k) = shown.session

IInv ==
  /\ TypeOK
  /\ \A k \in Slots : CallOK(k) /\ AnswerOK(k) /\ TakenOK(k)
  /\ \A s \in Sessions : SessionOK(s)
  /\ TemplateOK /\ ShownOK /\ CallsMatch
  /\ NeverOverstated /\ SuccessMeansStored

-----------------------------------------------------------------------------
(* The steps of a call: what becomes of it, and the others stay.  *)

CallsType == calls \in [Slots -> Call(Request, Nat)]

OthersStay(k) == \A j \in Slots \ {k} : calls'[j] = calls[j]

LEMMA OpensCall ==
  ASSUME CallsType, NEW k \in Slots, NEW r \in Request, Opens(k, r)
  PROVE  /\ CallsType' /\ OthersStay(k)
         /\ calls'[k].status = "sent" /\ calls'[k].request = r
         /\ calls'[k].resend /\ calls'[k].value = NoValue
<1> DEFINE c == [status |-> "sent", request |-> r, resend |-> TRUE,
                 renew |-> TRUE, value |-> NoValue]
<1>1. calls' = [calls EXCEPT ![k] = c]
  BY DEF Opens
<1>2. c \in Call(Request, Nat)
  BY DEF Call, Status
<1>3. c.status = "sent" /\ c.request = r /\ c.resend /\ c.value = NoValue
  OBVIOUS
<1> QED
  BY <1>1, <1>2, <1>3 DEF CallsType, OthersStay

LEMMA AnswersCall ==
  ASSUME CallsType, NEW k \in Slots, NEW status \in Status,
         NEW v \in Nat \union {NoValue}, Answers(k, status, v)
  PROVE  /\ CallsType' /\ OthersStay(k)
         /\ calls'[k].status = status /\ calls'[k].value = v
         /\ calls'[k].request = calls[k].request
         /\ calls'[k].resend = calls[k].resend
<1> DEFINE c == [calls[k] EXCEPT !.status = status, !.value = v]
<1>1. calls' = [calls EXCEPT ![k] = c]
  BY DEF Answers
<1>2. /\ c \in Call(Request, Nat) /\ c.status = status /\ c.value = v
      /\ c.request = calls[k].request /\ c.resend = calls[k].resend
  BY DEF CallsType, Call
<1> QED
  BY <1>1, <1>2 DEF CallsType, OthersStay

LEMMA RepeatsCall ==
  ASSUME CallsType, NEW k \in Slots, Resends(k) \/ Renews(k)
  PROVE  /\ CallsType' /\ OthersStay(k) /\ ~Free(k)
         /\ calls'[k].status = "sent" /\ ~calls'[k].resend
         /\ calls'[k].request = calls[k].request
         /\ calls[k].resend \/ calls[k].status = "busy"
<1> DEFINE c(b) == [calls[k] EXCEPT !.status = "sent", !.resend = FALSE, !.renew = b,
                                    !.value = NoValue]
<1>1. calls[k] \in Call(Request, Nat)
  BY DEF CallsType
<1>2. PICK b \in BOOLEAN : calls' = [calls EXCEPT ![k] = c(b)]
  <2>1. CASE Resends(k)
    <3>1. c(calls[k].renew) = [calls[k] EXCEPT !.status = "sent", !.resend = FALSE,
                                               !.value = NoValue]
      BY <1>1 DEF Call
    <3>2. calls[k].renew \in BOOLEAN
      BY <1>1 DEF Call
    <3>3. calls' = [calls EXCEPT ![k] = c(calls[k].renew)]
      BY <2>1, <3>1 DEF Resends
    <3> QED
      BY <3>2, <3>3
  <2>2. CASE Renews(k)
    BY <2>2 DEF Renews
  <2> QED
    BY <2>1, <2>2
<1>3. /\ c(b) \in Call(Request, Nat) /\ c(b).status = "sent" /\ ~c(b).resend
      /\ c(b).request = calls[k].request
  BY <1>1 DEF Call, Status
<1>4. ~Free(k) /\ (calls[k].resend \/ calls[k].status = "busy")
  BY DEF Resends, Renews, Free
<1> HIDE DEF c
<1> QED
  BY <1>2, <1>3, <1>4 DEF CallsType, OthersStay

LEMMA ClosesCall ==
  ASSUME CallsType, NEW k \in Slots, Closes(k)
  PROVE  CallsType' /\ OthersStay(k) /\ calls'[k].status = "free" /\ ~calls'[k].resend
<1>1. NoCall \in Call(Request, Nat) /\ NoCall.status = "free" /\ ~NoCall.resend
  BY DEF Call, NoCall, Status
<1> QED
  BY <1>1 DEF Closes, CallsType, OthersStay

-----------------------------------------------------------------------------
(* Every step keeps the invariant. *)

USE DEF Free, Of

\* A call that is not under way owes nothing.
LEMMA FreeIsOK ==
  ASSUME NEW k \in Slots, Free(k), ~calls[k].resend, taken[k] = 0
  PROVE  CallOK(k) /\ AnswerOK(k) /\ TakenOK(k)
<1>1. taken[k] <= 2 /\ taken[k] <= 1
  OBVIOUS
<1> QED
  BY <1>1 DEF CallOK, AnswerOK, TakenOK

LEMMA InitIInv == Init => IInv
<1> SUFFICES ASSUME Init PROVE IInv
  OBVIOUS
<1>1. NoCall \in Call(Request, Nat) /\ NoCall.status = "free" /\ ~NoCall.resend
  BY DEF NoCall, Call, Status
<1> USE DEF Init, NoCalls, Ended, NotShown, NoSession, Sessions
<1>2. TypeOK
  <2>1. calls \in [Slots -> Call(Request, Nat)]
    BY <1>1
  <2>2. sessions \in [Sessions -> [live : BOOLEAN, accepted : 0..MaxAccepted]]
    BY EnrollConstants
  <2>3. stored \in [Sessions -> [times : Nat, frames : Nat]] /\ taken \in [Slots -> Nat]
    OBVIOUS
  <2>4. issued \in 0..MaxSessions /\ shown \in [session : Sessions \union {0}, accepted : Nat]
    BY EnrollConstants
  <2> QED
    BY <2>1, <2>2, <2>3, <2>4 DEF TypeOK, EnrollState
<1>3. \A k \in Slots : CallOK(k) /\ AnswerOK(k) /\ TakenOK(k)
  <2>1. \A k \in Slots : Free(k) /\ ~calls[k].resend /\ taken[k] = 0
    BY <1>1
  <2> QED
    BY <2>1, FreeIsOK
<1>4. (\A s \in Sessions : SessionOK(s)) /\ TemplateOK /\ ShownOK
  BY EnrollConstants DEF SessionOK, TemplateOK, ShownOK
<1>5. CallsMatch /\ NeverOverstated /\ SuccessMeansStored
  BY <1>1 DEF CallsMatch, NeverOverstated, SuccessMeansStored, Live
<1> QED
  BY <1>2, <1>3, <1>4, <1>5 DEF IInv

\* Types, in the form the steps below use them.
Typed ==
  /\ issued \in Nat /\ issued <= MaxSessions /\ MaxSessions \in Nat
  /\ MaxAccepted \in Nat /\ Target \in Nat
  /\ \A s \in Sessions : /\ s \in Nat /\ s # NoSession
                         /\ sessions[s].accepted \in 0..MaxAccepted
                         /\ sessions[s].live \in BOOLEAN
                         /\ stored[s].times \in Nat /\ stored[s].frames \in Nat
  /\ \A k \in Slots : taken[k] \in Nat
  /\ shown.session \in Sessions \union {NoSession} /\ shown.accepted \in Nat

LEMMA TypesHold == ASSUME TypeOK PROVE Typed
BY EnrollConstants DEF TypeOK, Typed, Sessions, NoSession

\* The edge answers: the screen stays, and what the calls were made for.
LEMMA AnswersKeeps ==
  ASSUME IInv, NEW k \in Slots, NEW status \in {"ok", "busy", "failed"},
         NEW v \in Nat \union {NoValue}, Answers(k, status, v), ~Free(k),
         UNCHANGED wizard, issued <= issued', issued' \in Nat,
         \A j \in Slots \ {k} : taken'[j] = taken[j]
  PROVE  /\ CallsType' /\ OthersStay(k)
         /\ calls'[k].status = status /\ calls'[k].value = v
         /\ calls'[k].request = calls[k].request
         /\ calls'[k].resend = calls[k].resend
         /\ UNCHANGED <<ui, shown, hasty>>
         /\ \A j \in Slots : CallOK(j)'
         /\ ShownOK' /\ CallsMatch'
<1>1. /\ CallsType' /\ OthersStay(k)
      /\ calls'[k].status = status /\ calls'[k].value = v
      /\ calls'[k].request = calls[k].request
      /\ calls'[k].resend = calls[k].resend
  BY AnswersCall DEF IInv, TypeOK, CallsType, Status
<1>2. UNCHANGED <<ui, shown, hasty>>
  BY DEF wizard
<1>3. Typed
  BY TypesHold DEF IInv
<1>4. \A j \in Slots : CallOK(j)'
  <2> TAKE j \in Slots
  <2>1. ~Free(j) => Of(j) \in Nat
    BY <1>3 DEF IInv, CallOK, Request, Typed, NoSession
  <2>2. CASE j = k
    BY <1>1, <1>3, <2>1, <2>2 DEF IInv, CallOK, Typed
  <2>3. CASE j # k
    BY <1>1, <1>3, <2>1, <2>3 DEF IInv, CallOK, Typed, OthersStay
  <2> QED
    BY <2>2, <2>3
<1>5. ShownOK'
  BY <1>2, <1>3 DEF IInv, ShownOK, Typed, NoSession
<1>6. CallsMatch'
  BY <1>1, <1>2 DEF IInv, CallsMatch, OthersStay
<1> QED
  BY <1>1, <1>2, <1>4, <1>5, <1>6

\* The edge as it was, or with sessions ended: what is stored stays sound, and
\* so do answers that came before.
SessionsEnd ==
  /\ UNCHANGED <<issued, template, stored>>
  /\ sessions' \in [Sessions -> [live : BOOLEAN, accepted : 0..MaxAccepted]]
  /\ \A s \in Sessions : sessions'[s] = sessions[s] \/ ~sessions'[s].live

LEMMA EndsKeeps ==
  ASSUME IInv, SessionsEnd, UNCHANGED <<ui, shown, hasty>>
  PROVE  /\ \A s \in Sessions : SessionOK(s)'
         /\ TemplateOK' /\ NeverOverstated' /\ SuccessMeansStored'
<1>1. \A s \in Sessions : SessionOK(s)'
  BY DEF IInv, SessionsEnd, SessionOK
<1>2. TemplateOK' /\ SuccessMeansStored'
  BY DEF IInv, SessionsEnd, TemplateOK, SuccessMeansStored
<1>3. NeverOverstated'
  BY DEF IInv, SessionsEnd, NeverOverstated, Live
<1> QED
  BY <1>1, <1>2, <1>3

\* A frame that is not accepted, a reset, and a request the gate refuses.
LEMMA HandledWithoutGainKeeps ==
  ASSUME IInv, NEW k \in Slots, FrameRejected(k) \/ ResetAtEdge(k) \/ Refused(k)
  PROVE  IInv'
<1>1. /\ SessionsEnd /\ UNCHANGED <<taken, wizard>> /\ calls[k].status = "sent"
      /\ \E status \in {"ok", "busy"}, v \in Nat \union {NoValue} :
           /\ Answers(k, status, v)
           /\ status = "ok" => \/ calls[k].request.kind = "reset"
                               \/ /\ calls[k].request.kind = "frame" /\ v \in Nat
                                  /\ Live(Of(k)) /\ v = sessions'[Of(k)].accepted
  <2>1. CASE FrameRejected(k)
    BY <2>1 DEF FrameRejected, Asks, edge, IInv, TypeOK, SessionsEnd, Live
  <2>2. CASE ResetAtEdge(k)
    <3>1. Ended \in [live : BOOLEAN, accepted : 0..MaxAccepted] /\ ~Ended.live
      BY EnrollConstants DEF Ended
    <3> QED
      BY <2>2, <3>1 DEF ResetAtEdge, Asks, IInv, TypeOK, SessionsEnd, Live
  <2>3. CASE Refused(k)
    BY <2>3 DEF Refused, Refuses, edge, IInv, TypeOK, SessionsEnd
  <2> QED
    BY <2>1, <2>2, <2>3
<1>2. PICK status \in {"ok", "busy"}, v \in Nat \union {NoValue} :
           /\ Answers(k, status, v)
           /\ status = "ok" => \/ calls[k].request.kind = "reset"
                               \/ /\ calls[k].request.kind = "frame" /\ v \in Nat
                                  /\ Live(Of(k)) /\ v = sessions'[Of(k)].accepted
  BY <1>1
<1>3. issued' = issued /\ issued \in Nat /\ issued <= issued' /\ taken' = taken
  BY <1>1, TypesHold DEF IInv, SessionsEnd, Typed
<1>4. /\ CallsType' /\ OthersStay(k)
      /\ calls'[k].status = status /\ calls'[k].value = v
      /\ calls'[k].request = calls[k].request
      /\ calls'[k].resend = calls[k].resend
      /\ UNCHANGED <<ui, shown, hasty>>
      /\ \A j \in Slots : CallOK(j)'
      /\ ShownOK' /\ CallsMatch'
  BY <1>1, <1>2, <1>3, AnswersKeeps
<1>5. TypeOK'
  BY <1>1, <1>4 DEF IInv, TypeOK, CallsType, SessionsEnd
<1>6. \A j \in Slots : AnswerOK(j)'
  <2> TAKE j \in Slots
  <2>1. CASE j = k
    BY <1>1, <1>2, <1>4, <2>1, TypesHold DEF IInv, AnswerOK, Live, SessionsEnd, Typed
  <2>2. CASE j # k
    BY <1>1, <1>4, <2>2 DEF IInv, AnswerOK, OthersStay, SessionsEnd, Live
  <2> QED
    BY <2>1, <2>2
<1>7. \A j \in Slots : TakenOK(j)'
  BY <1>1, <1>2, <1>4 DEF IInv, TakenOK, OthersStay
<1> QED
  BY <1>1, <1>4, <1>5, <1>6, <1>7, EndsKeeps DEF IInv

LEMMA StartEnrollmentKeeps ==
  ASSUME IInv, NEW k \in Slots, StartEnrollment(k)
  PROVE  IInv'
<1> USE DEF StartEnrollment, Asks, NoSession
<1>1. Typed /\ issued' = issued + 1 /\ issued' \in Sessions
  BY TypesHold, EnrollConstants DEF IInv, Typed, Sessions
<1>2. /\ CallsType' /\ OthersStay(k)
      /\ calls'[k].status = "ok" /\ calls'[k].value = issued'
      /\ calls'[k].request = calls[k].request
      /\ calls'[k].resend = calls[k].resend
      /\ UNCHANGED <<ui, shown, hasty>>
      /\ \A j \in Slots : CallOK(j)'
      /\ ShownOK' /\ CallsMatch'
  <2>1. issued <= issued' /\ issued' \in Nat
    BY <1>1 DEF Typed
  <2> QED
    BY <2>1, AnswersKeeps
<1>3. /\ sessions'[issued'] = [live |-> TRUE, accepted |-> 0]
      /\ \A s \in Sessions \ {issued'} : sessions'[s] = sessions[s]
      /\ sessions' \in [Sessions -> [live : BOOLEAN, accepted : 0..MaxAccepted]]
  BY <1>1, EnrollConstants DEF IInv, TypeOK
<1>4. TypeOK'
  <2>1. issued' \in 0..MaxSessions
    BY <1>1 DEF Typed, Sessions
  <2> QED
    BY <1>2, <1>3, <2>1 DEF IInv, TypeOK, CallsType
<1>5. \A s \in Sessions : SessionOK(s)'
  <2> TAKE s \in Sessions
  <2>1. CASE s = issued'
    BY <1>1, <1>3, <2>1 DEF IInv, SessionOK, Typed
  <2>2. CASE s # issued'
    BY <1>1, <1>3, <2>2 DEF IInv, SessionOK, Typed
  <2> QED
    BY <2>1, <2>2
<1>6. TemplateOK' /\ SuccessMeansStored'
  BY <1>2 DEF IInv, TemplateOK, SuccessMeansStored
<1>7. NeverOverstated'
  BY <1>1, <1>2, <1>3 DEF IInv, NeverOverstated, ShownOK, Live, Typed
<1>8. \A j \in Slots : AnswerOK(j)'
  <2> TAKE j \in Slots
  <2>1. CASE j = k
    BY <1>1, <1>2, <2>1 DEF AnswerOK, Sessions, Typed
  <2>2. CASE j # k
    <3>1. ~Free(j) => Of(j) # issued'
      BY <1>1, <2>2 DEF IInv, CallOK, Typed
    <3> QED
      BY <1>1, <1>2, <1>3, <2>2, <3>1 DEF IInv, AnswerOK, OthersStay, Live, Typed, Sessions
  <2> QED
    BY <2>1, <2>2
<1>9. \A j \in Slots : TakenOK(j)'
  BY <1>2, TypesHold DEF IInv, TakenOK, OthersStay, Typed
<1> QED
  BY <1>2, <1>4, <1>5, <1>6, <1>7, <1>8, <1>9 DEF IInv

LEMMA FrameAcceptedKeeps ==
  ASSUME IInv, NEW k \in Slots, FrameAccepted(k)
  PROVE  IInv'
<1> USE DEF FrameAccepted, Asks
<1> DEFINE s == Of(k)
           n == sessions[s].accepted
<1>1. Typed /\ s \in Sessions /\ sessions[s].live /\ n \in Nat /\ n < MaxAccepted
  BY TypesHold DEF IInv, Typed, Live
<1>2. /\ sessions'[s].accepted = n + 1 /\ sessions'[s].live
      /\ \A q \in Sessions \ {s} : sessions'[q] = sessions[q]
      /\ sessions' \in [Sessions -> [live : BOOLEAN, accepted : 0..MaxAccepted]]
  <2> DEFINE x == [sessions[s] EXCEPT !.accepted = n + 1]
  <2>1. sessions' = [sessions EXCEPT ![s] = x]
    OBVIOUS
  <2>2. x \in [live : BOOLEAN, accepted : 0..MaxAccepted] /\ x.accepted = n + 1 /\ x.live
    BY <1>1, EnrollConstants DEF IInv, TypeOK
  <2> HIDE DEF x
  <2> QED
    BY <1>1, <2>1, <2>2 DEF IInv, TypeOK
<1>3. /\ taken'[k] = taken[k] + 1 /\ taken' \in [Slots -> Nat]
      /\ \A j \in Slots \ {k} : taken'[j] = taken[j]
  BY DEF IInv, TypeOK
<1>4. /\ CallsType' /\ OthersStay(k)
      /\ calls'[k].status = "ok" /\ calls'[k].value = n + 1
      /\ calls'[k].request = calls[k].request
      /\ calls'[k].resend = calls[k].resend
      /\ UNCHANGED <<ui, shown, hasty>>
      /\ \A j \in Slots : CallOK(j)'
      /\ ShownOK' /\ CallsMatch'
  <2>1. issued <= issued' /\ issued' \in Nat /\ n + 1 \in Nat
    BY <1>1 DEF Typed
  <2>2. Answers(k, "ok", n + 1)
    BY <1>1, <1>2
  <2> QED
    BY <1>3, <2>1, <2>2, AnswersKeeps
<1> HIDE DEF n
<1>5. TypeOK'
  BY <1>2, <1>3, <1>4 DEF IInv, TypeOK, CallsType
<1>6. \A q \in Sessions : SessionOK(q)'
  BY <1>1, <1>2 DEF IInv, SessionOK
<1>7. TemplateOK' /\ SuccessMeansStored'
  BY <1>4 DEF IInv, TemplateOK, SuccessMeansStored
<1>8. \A q \in Sessions : sessions[q].accepted <= sessions'[q].accepted
  BY <1>1, <1>2 DEF Typed, n
<1>9. \A q \in Sessions : sessions'[q].live <=> sessions[q].live
  BY <1>1, <1>2
<1>10. NeverOverstated'
  <2>1. \A q \in Sessions : sessions'[q].accepted \in Nat /\ sessions[q].accepted \in Nat
    BY <1>1, <1>2 DEF Typed
  <2> QED
    BY <1>1, <1>4, <1>8, <1>9, <2>1 DEF IInv, NeverOverstated, Live, Typed
<1>11. \A j \in Slots : AnswerOK(j)'
  <2> TAKE j \in Slots
  <2>1. CASE j = k
    BY <1>1, <1>2, <1>4, <2>1 DEF AnswerOK
  <2>2. CASE j # k
    BY <1>1, <1>4, <1>8, <1>9, <2>2 DEF IInv, AnswerOK, OthersStay, Live, Typed
  <2> QED
    BY <2>1, <2>2
<1>12. \A j \in Slots : TakenOK(j)'
  BY <1>1, <1>3, <1>4 DEF IInv, TakenOK, OthersStay, Typed
<1> QED
  BY <1>4, <1>5, <1>6, <1>7, <1>10, <1>11, <1>12 DEF IInv

\* A commit only finds a live session, which has nothing stored; afterwards it
\* is not live.
LEMMA CommitEnrollmentKeeps ==
  ASSUME IInv, NEW k \in Slots, CommitEnrollment(k)
  PROVE  IInv'
<1> USE DEF CommitEnrollment, Complete, Asks
<1> DEFINE s == Of(k)
           n == sessions[s].accepted
<1>1. /\ Typed /\ s \in Sessions /\ sessions[s].live /\ n \in Nat /\ n >= Target
      /\ stored[s].times = 0 /\ s <= issued
  BY TypesHold DEF IInv, Typed, Live, SessionOK
<1>2. /\ stored'[s].times = 1 /\ stored'[s].frames = n
      /\ \A q \in Sessions \ {s} : stored'[q] = stored[q]
      /\ stored' \in [Sessions -> [times : Nat, frames : Nat]]
  <2> DEFINE x == [times |-> stored[s].times + 1, frames |-> n]
  <2>1. stored' = [stored EXCEPT ![s] = x]
    OBVIOUS
  <2>2. x \in [times : Nat, frames : Nat] /\ x.times = 1 /\ x.frames = n
    BY <1>1
  <2> HIDE DEF x
  <2> QED
    BY <1>1, <2>1, <2>2 DEF IInv, TypeOK
<1>3. /\ ~sessions'[s].live /\ \A q \in Sessions \ {s} : sessions'[q] = sessions[q]
      /\ sessions' \in [Sessions -> [live : BOOLEAN, accepted : 0..MaxAccepted]]
  BY <1>1, EnrollConstants DEF IInv, TypeOK, Ended
<1>4. /\ CallsType' /\ OthersStay(k)
      /\ calls'[k].status = "ok" /\ calls'[k].value = n
      /\ calls'[k].request = calls[k].request
      /\ calls'[k].resend = calls[k].resend
      /\ UNCHANGED <<ui, shown, hasty>>
      /\ \A j \in Slots : CallOK(j)'
      /\ ShownOK' /\ CallsMatch'
  <2>1. issued <= issued' /\ issued' \in Nat
    BY <1>1 DEF Typed
  <2> QED
    BY <1>1, <2>1, AnswersKeeps
<1> HIDE DEF n
<1>5. TypeOK' /\ UNCHANGED <<issued, taken>> /\ template' = s
  BY <1>1, <1>2, <1>3, <1>4 DEF IInv, TypeOK, CallsType
<1>6. \A q \in Sessions : SessionOK(q)'
  <2> TAKE q \in Sessions
  <2>1. CASE q = s
    BY <1>1, <1>2, <1>3, <1>5, <2>1 DEF IInv, SessionOK, Typed, n
  <2>2. CASE q # s
    BY <1>1, <1>2, <1>3, <1>5, <2>2 DEF IInv, SessionOK
  <2> QED
    BY <2>1, <2>2
<1>7. TemplateOK'
  BY <1>2, <1>5 DEF TemplateOK
<1>8. ~hasty => shown.session = s
  BY DEF IInv, CallsMatch
<1>9. SuccessMeansStored'
  BY <1>4, <1>5, <1>8 DEF IInv, SuccessMeansStored
<1>10. NeverOverstated'
  BY <1>3, <1>4, <1>8 DEF NeverOverstated, Live
<1>11. \A j \in Slots : AnswerOK(j)'
  <2> TAKE j \in Slots
  <2>1. CASE j = k
    BY <1>1, <1>2, <1>4, <1>5, <2>1 DEF AnswerOK
  <2>2. CASE j # k /\ calls[j].status = "ok"
    <3>1. calls'[j] = calls[j] /\ (~hasty => Of(j) = s) /\ Of(j) \in Sessions \union {NoSession}
      BY <1>4, <1>8, <2>2 DEF IInv, CallsMatch, OthersStay, CallOK, Request
    <3>2. calls[j].request.kind \in {"frame", "commit"} => Of(j) \in Sessions
      BY <2>2, <3>1 DEF IInv, CallOK
    <3>3. calls[j].request.kind = "start" => calls[j].value \in 1..issued
      BY <2>2 DEF IInv, AnswerOK
    <3>4. calls[j].request.kind = "frame" =>
            /\ calls[j].value \in Nat
            /\ Live(Of(j))' => calls[j].value <= sessions'[Of(j)].accepted
      BY <1>3, <2>2, <3>1, <3>2 DEF IInv, AnswerOK, Live
    <3>5. calls[j].request.kind = "commit" =>
            calls[j].value \in Nat /\ stored'[Of(j)].times = 1
      BY <1>2, <2>2, <3>2 DEF IInv, AnswerOK
    <3> QED
      BY <1>4, <1>5, <3>1, <3>3, <3>4, <3>5 DEF AnswerOK
  <2>3. CASE j # k /\ calls[j].status # "ok"
    BY <1>4, <2>3 DEF AnswerOK, OthersStay
  <2> QED
    BY <2>1, <2>2, <2>3
<1>12. \A j \in Slots : TakenOK(j)'
  BY <1>1, <1>4, <1>5 DEF IInv, TakenOK, OthersStay, Typed
<1> QED
  BY <1>4, <1>5, <1>6, <1>7, <1>9, <1>10, <1>11, <1>12 DEF IInv

\* A commit that fails may delete the template; nobody was told of it, for the
\* session shown is still live.
LEMMA CommitFailsKeeps ==
  ASSUME IInv, NEW k \in Slots, CommitFails(k)
  PROVE  IInv'
<1> USE DEF CommitFails, Complete, Asks
<1>1. /\ Typed /\ Of(k) \in Sessions /\ sessions[Of(k)].live
      /\ stored[Of(k)].times = 0
  BY TypesHold DEF IInv, Typed, Live, SessionOK
<1>2. /\ CallsType' /\ OthersStay(k)
      /\ calls'[k].status = "failed"
      /\ calls'[k].request = calls[k].request
      /\ calls'[k].resend = calls[k].resend
      /\ UNCHANGED <<ui, shown, hasty>>
      /\ \A j \in Slots : CallOK(j)'
      /\ ShownOK' /\ CallsMatch'
  <2>1. issued <= issued' /\ issued' \in Nat
    BY <1>1 DEF Typed
  <2> QED
    BY <2>1, AnswersKeeps
<1>3. UNCHANGED <<issued, sessions, taken, stored>> /\ template' \in {template, Nobody}
  OBVIOUS
<1>4. TypeOK'
  BY <1>2, <1>3 DEF IInv, TypeOK, CallsType
<1>5. \A s \in Sessions : SessionOK(s)'
  BY <1>3 DEF IInv, SessionOK
<1>6. TemplateOK'
  BY <1>3, EnrollConstants DEF IInv, TemplateOK, Sessions
<1>7. ~hasty => shown.session = Of(k) /\ ~(\E j \in Slots : /\ calls[j].status = "ok"
                                                         /\ calls[j].request.kind = "commit")
  BY <1>1 DEF IInv, CallsMatch, AnswerOK
<1>8. ~hasty => ui # "success"
  BY <1>1, <1>7 DEF IInv, SuccessMeansStored, TemplateOK
<1>9. SuccessMeansStored'
  BY <1>2, <1>8 DEF SuccessMeansStored
<1>10. NeverOverstated'
  BY <1>2, <1>3 DEF IInv, NeverOverstated, Live
<1>11. \A j \in Slots : AnswerOK(j)'
  BY <1>2, <1>3, <1>7 DEF IInv, AnswerOK, OthersStay, Live
<1>12. \A j \in Slots : TakenOK(j)'
  BY <1>1, <1>2, <1>3 DEF IInv, TakenOK, OthersStay, Typed
<1> QED
  BY <1>2, <1>4, <1>5, <1>6, <1>9, <1>10, <1>11, <1>12 DEF IInv

\* Sessions expire, or are lost with the edge.
LEMMA LostKeeps ==
  ASSUME IInv, (\E s \in Sessions : Expires(s)) \/ EdgeRestarts
  PROVE  IInv'
<1>1. SessionsEnd /\ UNCHANGED <<calls, taken, ui, shown, hasty>>
  <2>1. Ended \in [live : BOOLEAN, accepted : 0..MaxAccepted] /\ ~Ended.live
    BY EnrollConstants DEF Ended
  <2> QED
    BY <2>1 DEF Expires, EdgeRestarts, wizard, IInv, TypeOK, SessionsEnd
<1>2. TypeOK'
  BY <1>1 DEF IInv, TypeOK, SessionsEnd
<1>3. \A j \in Slots : CallOK(j)' /\ TakenOK(j)'
  BY <1>1 DEF IInv, CallOK, TakenOK, SessionsEnd
<1>4. \A j \in Slots : AnswerOK(j)'
  BY <1>1 DEF IInv, AnswerOK, SessionsEnd, Live
<1>5. ShownOK' /\ CallsMatch'
  BY <1>1 DEF IInv, ShownOK, CallsMatch, SessionsEnd
<1> QED
  BY <1>1, <1>2, <1>3, <1>4, <1>5, EndsKeeps DEF IInv

\* A call is sent, or sent again: the edge stays.
LEMMA EdgeStays ==
  ASSUME IInv, UNCHANGED edge
  PROVE  (\A s \in Sessions : SessionOK(s)') /\ TemplateOK'
  BY DEF IInv, edge, SessionOK, TemplateOK

\* The buttons that make a call: only for the session shown.
LEMMA OpensKeeps ==
  ASSUME IInv, NEW k \in Slots, NEW r \in Request, Opens(k, r),
         UNCHANGED <<shown, hasty, edge>>, r.session = shown.session,
         r.session = NoSession <=> r.kind = "start",
         ui' \in EnrollState, ui' = "success" => ui = "success",
         ui' \in {"idle", "starting"} => shown = NotShown
  PROVE  IInv'
<1>1. /\ CallsType' /\ OthersStay(k) /\ Free(k)
      /\ calls'[k].status = "sent" /\ calls'[k].request = r /\ calls'[k].resend
  BY OpensCall DEF IInv, TypeOK, CallsType, Opens
<1>2. UNCHANGED <<issued, sessions, template, taken, stored>> /\ Typed
  BY TypesHold DEF edge, IInv
<1>3. TypeOK'
  BY <1>1, <1>2 DEF IInv, TypeOK, CallsType
<1>4. \A j \in Slots : CallOK(j)'
  BY <1>1, <1>2 DEF IInv, CallOK, OthersStay, ShownOK
<1>5. \A j \in Slots : AnswerOK(j)'
  BY <1>1, <1>2 DEF IInv, AnswerOK, OthersStay, Live
<1>6. \A j \in Slots : TakenOK(j)'
  <2>1. taken'[k] = 0 /\ taken'[k] <= 2 /\ taken'[k] <= 1
    BY <1>1, <1>2 DEF IInv, CallOK
  <2> QED
    BY <1>1, <1>2, <2>1 DEF IInv, TakenOK, OthersStay
<1>7. ShownOK' /\ CallsMatch'
  BY <1>1, <1>2 DEF IInv, ShownOK, CallsMatch, OthersStay
<1>8. NeverOverstated' /\ SuccessMeansStored'
  BY <1>2 DEF IInv, NeverOverstated, SuccessMeansStored, Live
<1> QED
  BY <1>3, <1>4, <1>5, <1>6, <1>7, <1>8, EdgeStays DEF IInv

LEMMA PressedKeeps ==
  ASSUME IInv, NEW k \in Slots, Pressed(k)
  PROVE  IInv'
<1>1. shown # NotShown => shown.session \in Sessions
  BY DEF IInv, ShownOK, TypeOK
<1>2. \A q \in Sessions : q # NoSession
  BY TypesHold DEF IInv, Typed
<1>3. CASE Start(k)
  <2> DEFINE r == [kind |-> "start", session |-> NoSession]
  <2>1. shown = NotShown /\ shown.session = NoSession
    BY <1>3 DEF Start, IInv, ShownOK, NotShown
  <2>2. r \in Request /\ r.session = NoSession /\ r.kind = "start"
    BY DEF Request, Kind
  <2> QED
    BY <1>3, <2>1, <2>2, OpensKeeps DEF Start, EnrollState
<1>4. CASE Capture(k)
  <2> DEFINE r == [kind |-> "frame", session |-> shown.session]
  <2>1. r \in Request /\ r.session = shown.session /\ r.kind = "frame" /\ r.session # NoSession
    BY <1>1, <1>2, <1>4 DEF Capture, Request, Kind
  <2> QED
    BY <1>4, <2>1, OpensKeeps DEF Capture, EnrollState, wizard
<1>5. CASE Commit(k)
  <2> DEFINE r == [kind |-> "commit", session |-> shown.session]
  <2>1. r \in Request /\ r.session = shown.session /\ r.kind = "commit" /\ r.session # NoSession
    BY <1>1, <1>2, <1>5 DEF Commit, Request, Kind
  <2> QED
    BY <1>5, <2>1, OpensKeeps DEF Commit, EnrollState
<1>6. CASE Reset(k)
  <2> DEFINE r == [kind |-> "reset", session |-> shown.session]
  <2>1. r \in Request /\ r.session = shown.session /\ r.kind = "reset" /\ r.session # NoSession
    BY <1>1, <1>2, <1>6 DEF Reset, Request, Kind
  <2>2. ui' = ui /\ ui \in EnrollState /\ (ui \in {"idle", "starting"} => shown = NotShown)
    BY <1>6 DEF Reset, wizard, IInv, TypeOK, ShownOK
  <2> QED
    BY <1>6, <2>1, <2>2, OpensKeeps DEF Reset, wizard, IInv, TypeOK, ShownOK
<1> QED
  BY <1>3, <1>4, <1>5, <1>6 DEF Pressed

LEMMA RepeatsKeeps ==
  ASSUME IInv, NEW k \in Slots, Retries(k)
  PROVE  IInv'
<1>1. /\ CallsType' /\ OthersStay(k) /\ ~Free(k)
      /\ calls'[k].status = "sent" /\ ~calls'[k].resend
      /\ calls'[k].request = calls[k].request
      /\ calls[k].resend \/ calls[k].status = "busy"
  BY RepeatsCall DEF Retries, IInv, TypeOK, CallsType
<1>2. /\ UNCHANGED <<issued, sessions, template, taken, stored, ui, shown, hasty>>
      /\ UNCHANGED edge
  BY DEF Retries, edge, wizard
<1>3. TypeOK'
  BY <1>1, <1>2 DEF IInv, TypeOK, CallsType
<1>4. \A j \in Slots : CallOK(j)'
  BY <1>1, <1>2 DEF IInv, CallOK, OthersStay
<1>5. \A j \in Slots : AnswerOK(j)'
  BY <1>1, <1>2 DEF IInv, AnswerOK, OthersStay, Live
<1>6. \A j \in Slots : TakenOK(j)'
  BY <1>1, <1>2 DEF IInv, TakenOK, OthersStay
<1>7. ShownOK' /\ CallsMatch' /\ NeverOverstated' /\ SuccessMeansStored'
  BY <1>1, <1>2 DEF IInv, ShownOK, CallsMatch, OthersStay, NeverOverstated,
    SuccessMeansStored, Live
<1> QED
  BY <1>2, <1>3, <1>4, <1>5, <1>6, <1>7, EdgeStays DEF IInv

\* A call is over; unless the screen starts afresh with nothing under way, what
\* held of the other calls holds on.
LEMMA ClosesKeeps ==
  ASSUME IInv, NEW k \in Slots, Closes(k), taken' = [taken EXCEPT ![k] = 0],
         UNCHANGED Unstarted, hasty' \in BOOLEAN,
         ~hasty' => ~hasty \/ ~OthersOpen(k)
  PROVE  /\ CallsType' /\ OthersStay(k) /\ Free(k)' /\ taken' \in [Slots -> Nat]
         /\ UNCHANGED <<issued, sessions, template, stored>>
         /\ \A j \in Slots : CallOK(j)' /\ AnswerOK(j)' /\ TakenOK(j)'
         /\ \A s \in Sessions : SessionOK(s)'
         /\ TemplateOK'
<1>1. CallsType' /\ OthersStay(k) /\ Free(k)' /\ ~calls'[k].resend
  BY ClosesCall DEF IInv, TypeOK, CallsType
<1>2. UNCHANGED <<issued, sessions, template, stored>>
  BY DEF Unstarted
<1>3. /\ taken'[k] = 0 /\ \A j \in Slots \ {k} : taken'[j] = taken[j]
      /\ taken' \in [Slots -> Nat]
  BY DEF IInv, TypeOK
<1>4. \A j \in Slots : CallOK(j)'
  BY <1>1, <1>2, <1>3 DEF IInv, CallOK, OthersStay
<1>5. \A j \in Slots : AnswerOK(j)'
  BY <1>1, <1>2 DEF IInv, AnswerOK, OthersStay, OthersOpen, Live
<1>6. \A j \in Slots : TakenOK(j)'
  <2>1. taken'[k] <= 2 /\ taken'[k] <= 1
    BY <1>3
  <2> QED
    BY <1>1, <1>3, <2>1 DEF IInv, TakenOK, OthersStay
<1>7. (\A s \in Sessions : SessionOK(s)') /\ TemplateOK'
  BY <1>2 DEF IInv, SessionOK, TemplateOK
<1> QED
  BY <1>1, <1>2, <1>3, <1>4, <1>5, <1>6, <1>7

\* What follows the await of a call.
LEMMA StartDoneKeeps ==
  ASSUME IInv, NEW k \in Slots, StartDone(k)
  PROVE  IInv'
<1> USE DEF StartDone, Done, Over, Succeeds
<1>1. /\ CallsType' /\ OthersStay(k) /\ Free(k)' /\ taken' \in [Slots -> Nat]
      /\ UNCHANGED <<issued, sessions, template, stored>>
      /\ \A j \in Slots : CallOK(j)' /\ AnswerOK(j)' /\ TakenOK(j)'
      /\ \A s \in Sessions : SessionOK(s)'
      /\ TemplateOK'
  BY ClosesKeeps DEF OthersOpen
<1>2. /\ calls[k].value \in 1..issued /\ calls[k].value \in Sessions
      /\ shown' = [session |-> calls[k].value, accepted |-> 0]
      /\ shown'.session # NoSession /\ shown'.session <= issued
  BY TypesHold DEF IInv, AnswerOK, Typed, Sessions, NoSession
<1>3. TypeOK'
  BY <1>1, <1>2 DEF IInv, TypeOK, CallsType, EnrollState, OthersOpen
<1>4. ShownOK' /\ SuccessMeansStored'
  BY <1>1, <1>2 DEF ShownOK, SuccessMeansStored
<1>5. CallsMatch'
  BY <1>1 DEF CallsMatch, OthersOpen, OthersStay
<1>6. NeverOverstated'
  BY <1>1, <1>2, TypesHold DEF IInv, NeverOverstated, Live, Typed
<1> QED
  BY <1>1, <1>3, <1>4, <1>5, <1>6 DEF IInv

\* A count is written over the one shown, or nothing is shown.
LEMMA ShowKeepsSession ==
  ASSUME IInv, NEW n \in Nat, Show(n)
  PROVE  /\ shown' \in [session : Sessions \union {NoSession}, accepted : Nat]
         /\ shown'.session = shown.session
         /\ shown = NotShown => shown' = NotShown
         /\ shown'.session = NoSession => shown' = NotShown
         /\ shown # NotShown => shown'.accepted = n
         /\ NotShown.session = NoSession /\ NotShown.accepted = 0
<1>1. shown \in [session : Sessions \union {NoSession}, accepted : Nat]
  BY DEF IInv, TypeOK
<1>2. NotShown \in [session : Sessions \union {NoSession}, accepted : Nat]
  BY DEF NotShown
<1>3. CASE shown = NotShown
  BY <1>2, <1>3 DEF Show, NotShown
<1>4. CASE shown # NotShown
  <2>1. shown' = [shown EXCEPT !.accepted = n]
    BY <1>4 DEF Show
  <2>2. shown.session # NoSession
    BY <1>4 DEF IInv, ShownOK
  <2> QED
    BY <1>1, <1>4, <2>1, <2>2 DEF NotShown
<1> QED
  BY <1>3, <1>4

LEMMA FrameDoneKeeps ==
  ASSUME IInv, NEW k \in Slots, FrameDone(k)
  PROVE  IInv'
<1> USE DEF FrameDone, Done, Over, Succeeds
<1>1. /\ CallsType' /\ OthersStay(k) /\ Free(k)' /\ taken' \in [Slots -> Nat]
      /\ UNCHANGED <<issued, sessions, template, stored>>
      /\ \A j \in Slots : CallOK(j)' /\ AnswerOK(j)' /\ TakenOK(j)'
      /\ \A s \in Sessions : SessionOK(s)'
      /\ TemplateOK'
  BY ClosesKeeps DEF IInv, TypeOK
<1>2. /\ calls[k].value \in Nat
      /\ Live(Of(k)) => calls[k].value <= sessions[Of(k)].accepted
  BY DEF IInv, AnswerOK
<1>3. /\ shown' \in [session : Sessions \union {NoSession}, accepted : Nat]
      /\ shown'.session = shown.session
      /\ shown = NotShown => shown' = NotShown
      /\ shown'.session = NoSession => shown' = NotShown
      /\ shown # NotShown => shown'.accepted = calls[k].value
      /\ NotShown.session = NoSession
  BY <1>2, ShowKeepsSession
<1>4. TypeOK'
  BY <1>1, <1>3 DEF IInv, TypeOK, CallsType
<1>5. ShownOK'
  BY <1>1, <1>3 DEF IInv, ShownOK
<1>6. CallsMatch'
  BY <1>1, <1>3 DEF IInv, CallsMatch, OthersStay
<1>7. SuccessMeansStored'
  BY <1>1, <1>3 DEF IInv, SuccessMeansStored, ShownOK
<1>8. NeverOverstated'
  <2>1. ASSUME ~hasty, Live(shown.session) PROVE shown # NotShown /\ Of(k) = shown.session
    BY <1>3, <2>1, TypesHold DEF IInv, CallsMatch, Live, Typed
  <2> QED
    BY <1>1, <1>2, <1>3, <2>1 DEF NeverOverstated, Live
<1> QED
  BY <1>1, <1>4, <1>5, <1>6, <1>7, <1>8 DEF IInv

LEMMA CommitDoneKeeps ==
  ASSUME IInv, NEW k \in Slots, CommitDone(k)
  PROVE  IInv'
<1> USE DEF CommitDone, Done, Over, Succeeds
<1>1. /\ CallsType' /\ OthersStay(k) /\ Free(k)' /\ taken' \in [Slots -> Nat]
      /\ UNCHANGED <<issued, sessions, template, stored>>
      /\ \A j \in Slots : CallOK(j)' /\ AnswerOK(j)' /\ TakenOK(j)'
      /\ \A s \in Sessions : SessionOK(s)'
      /\ TemplateOK'
  BY ClosesKeeps DEF IInv, TypeOK
<1>2. /\ calls[k].value \in Nat /\ stored[Of(k)].times = 1
      /\ ~hasty => template = Of(k)
  BY DEF IInv, AnswerOK
<1>3. /\ shown' \in [session : Sessions \union {NoSession}, accepted : Nat]
      /\ shown'.session = shown.session
      /\ shown = NotShown => shown' = NotShown
      /\ shown'.session = NoSession => shown' = NotShown
      /\ NotShown.session = NoSession
  BY <1>2, ShowKeepsSession
<1>4. TypeOK'
  BY <1>1, <1>3 DEF IInv, TypeOK, CallsType, EnrollState
<1>5. ShownOK'
  BY <1>1, <1>3 DEF IInv, ShownOK
<1>6. CallsMatch'
  BY <1>1, <1>3 DEF IInv, CallsMatch, OthersStay
<1>7. ~hasty => Of(k) = shown.session /\ Of(k) \in Sessions /\ Of(k) # NoSession
  BY TypesHold DEF IInv, CallsMatch, CallOK, Request, Typed
<1>8. SuccessMeansStored'
  BY <1>1, <1>2, <1>3, <1>7 DEF SuccessMeansStored
<1>9. NeverOverstated'
  BY <1>1, <1>2, <1>3, <1>7 DEF IInv, NeverOverstated, Live, SessionOK
<1> QED
  BY <1>1, <1>4, <1>5, <1>6, <1>8, <1>9 DEF IInv

LEMMA CallFailsKeeps ==
  ASSUME IInv, NEW k \in Slots, CallFails(k)
  PROVE  IInv'
<1> USE DEF CallFails
<1>1. /\ CallsType' /\ OthersStay(k) /\ Free(k)' /\ taken' \in [Slots -> Nat]
      /\ UNCHANGED <<issued, sessions, template, stored>>
      /\ \A j \in Slots : CallOK(j)' /\ AnswerOK(j)' /\ TakenOK(j)'
      /\ \A s \in Sessions : SessionOK(s)'
      /\ TemplateOK'
  BY ClosesKeeps DEF IInv, TypeOK
<1>2. TypeOK'
  BY <1>1 DEF IInv, TypeOK, CallsType, EnrollState
<1>3. ShownOK' /\ SuccessMeansStored' /\ NeverOverstated'
  BY <1>1 DEF IInv, ShownOK, SuccessMeansStored, NeverOverstated, Live
<1>4. CallsMatch'
  BY <1>1 DEF IInv, CallsMatch, OthersStay
<1> QED
  BY <1>1, <1>2, <1>3, <1>4 DEF IInv

LEMMA ResetDoneKeeps ==
  ASSUME IInv, NEW k \in Slots, ResetDone(k)
  PROVE  IInv'
<1> USE DEF ResetDone, Over
<1>1. /\ CallsType' /\ OthersStay(k) /\ Free(k)' /\ taken' \in [Slots -> Nat]
      /\ UNCHANGED <<issued, sessions, template, stored>>
      /\ \A j \in Slots : CallOK(j)' /\ AnswerOK(j)' /\ TakenOK(j)'
      /\ \A s \in Sessions : SessionOK(s)'
      /\ TemplateOK'
  BY ClosesKeeps DEF OthersOpen
<1>2. /\ NotShown \in [session : Sessions \union {NoSession}, accepted : Nat]
      /\ NotShown.session = NoSession /\ 0 <= issued /\ ~Live(NoSession)
  BY TypesHold DEF IInv, NotShown, Typed, Live, NoSession, Sessions
<1>3. TypeOK'
  BY <1>1, <1>2 DEF IInv, TypeOK, CallsType, EnrollState, OthersOpen
<1>4. ShownOK'
  BY <1>1, <1>2 DEF ShownOK, NoSession
<1>5. CallsMatch'
  BY <1>1 DEF CallsMatch, OthersOpen, OthersStay
<1>6. SuccessMeansStored' /\ NeverOverstated'
  BY <1>1, <1>2 DEF SuccessMeansStored, NeverOverstated, Live
<1> QED
  BY <1>1, <1>3, <1>4, <1>5, <1>6 DEF IInv

\* The buttons that make no call.
LEMMA LocalKeeps ==
  ASSUME IInv, RetryCapture \/ ResetLocally \/ UNCHANGED vars
  PROVE  IInv'
<1>1. /\ UNCHANGED <<calls, issued, sessions, template, taken, stored, shown>>
      /\ UNCHANGED edge
      /\ ui' \in EnrollState /\ (ui' = "success" => ui = "success")
      /\ hasty' \in BOOLEAN
      /\ ~hasty' => ~hasty \/ \A k \in Slots : Free(k)
      /\ hasty' = hasty \/ (ui' = "idle" /\ shown = NotShown)
      /\ ui' \in {"idle", "starting"} => shown = NotShown
  BY DEF RetryCapture, ResetLocally, vars, edge, wizard, EnrollState, IInv, TypeOK, ShownOK
<1>2. TypeOK'
  BY <1>1 DEF IInv, TypeOK
<1>3. \A k \in Slots : CallOK(k)' /\ TakenOK(k)'
  BY <1>1 DEF IInv, CallOK, TakenOK
<1>4. \A k \in Slots : AnswerOK(k)'
  BY <1>1 DEF IInv, AnswerOK, Live
<1>5. ShownOK' /\ CallsMatch'
  BY <1>1 DEF IInv, ShownOK, CallsMatch
<1>6. NeverOverstated' /\ SuccessMeansStored'
  <2>1. shown = NotShown => ~Live(shown.session)
    BY TypesHold DEF IInv, Typed, Live, NotShown
  <2> QED
    BY <1>1, <2>1 DEF IInv, NeverOverstated, SuccessMeansStored, Live
<1> QED
  BY <1>1, <1>2, <1>3, <1>4, <1>5, <1>6, EdgeStays DEF IInv

LEMMA StepIInv == IInv /\ [Next]_vars => IInv'
<1> SUFFICES ASSUME IInv, [Next]_vars PROVE IInv'
  OBVIOUS
<1>1. CASE \E k \in Slots : Handled(k)
  BY <1>1, StartEnrollmentKeeps, FrameAcceptedKeeps, CommitEnrollmentKeeps,
    CommitFailsKeeps, HandledWithoutGainKeeps DEF Handled
<1>2. CASE \E k \in Slots : Returned(k)
  BY <1>2, StartDoneKeeps, FrameDoneKeeps, CommitDoneKeeps, ResetDoneKeeps,
    CallFailsKeeps, RepeatsKeeps DEF Returned
<1>3. CASE \E k \in Slots : Pressed(k)
  BY <1>3, PressedKeeps
<1>4. CASE (\E s \in Sessions : Expires(s)) \/ EdgeRestarts
  BY <1>4, LostKeeps
<1>5. CASE RetryCapture \/ ResetLocally \/ UNCHANGED vars
  BY <1>5, LocalKeeps
<1> QED
  BY <1>1, <1>2, <1>3, <1>4, <1>5 DEF Next

-----------------------------------------------------------------------------
(* Theorems.  *)

\* The invariant holds in every reachable state.
THEOREM Inductive == Spec => []IInv
  BY InitIInv, StepIInv, PTL DEF Spec

\* Type correctness.
THEOREM TypeCorrect == Spec => []TypeOK
<1>1. IInv => TypeOK
  BY DEF IInv
<1> QED
  BY <1>1, Inductive, PTL

\* Unless a session was left behind with calls under way, the wizard shows no
\* more frames than the edge has counted.
THEOREM CountIsNotOverstated == Spec => []NeverOverstated
<1>1. IInv => NeverOverstated
  BY DEF IInv
<1> QED
  BY <1>1, Inductive, PTL

\* The success screen tells of the template that is stored.
THEOREM SuccessIsStored == Spec => []SuccessMeansStored
<1>1. IInv => SuccessMeansStored
  BY DEF IInv
<1> QED
  BY <1>1, Inductive, PTL

\* Resending counts a picture twice at most, and stores a template once.
THEOREM ResendsCountTwice == Spec => []ResendsAreBounded
<1>1. IInv => ResendsAreBounded
  BY DEF IInv, ResendsAreBounded, TakenOK, SessionOK, TemplateOK
<1> QED
  BY <1>1, Inductive, PTL

-----------------------------------------------------------------------------
(* Nobody waits for nothing, whatever was left behind.  *)

\* A call under way goes on being the call it is until it is closed.
GoOn(S) == \A j \in S, kind \in Kind : UnderWay(j, kind) => UnderWay(j, kind)'

LEMMA OpensGoOn ==
  ASSUME CallsType, NEW k \in Slots, NEW r \in Request, Opens(k, r)
  PROVE  GoOn(Slots) /\ UnderWay(k, r.kind)'
<1>1. /\ OthersStay(k) /\ Free(k)
      /\ calls'[k].status = "sent" /\ calls'[k].request = r
  BY OpensCall DEF Opens
<1> QED
  BY <1>1 DEF GoOn, OthersStay, UnderWay, Free

LEMMA ClosesGoOn ==
  ASSUME CallsType, NEW k \in Slots, Closes(k)
  PROVE  GoOn(Slots \ {k})
  BY ClosesCall DEF GoOn, OthersStay, UnderWay, Free

\* What the edge and the client do in between changes no screen.
LEMMA BetweenGoOn ==
  ASSUME IInv, NEW k \in Slots, Handled(k) \/ Retries(k)
  PROVE  GoOn(Slots) /\ ui' = ui
<1> USE DEF UnderWay, Free
<1>1. CallsType
  BY DEF IInv, TypeOK, CallsType
<1>2. CASE Retries(k)
  <2>1. OthersStay(k) /\ calls'[k].status = "sent"
        /\ calls'[k].request = calls[k].request
    BY <1>1, <1>2, RepeatsCall DEF Retries
  <2> QED
    BY <1>2, <2>1 DEF Retries, GoOn, OthersStay, wizard
<1>3. CASE Handled(k)
  <2>1. \E status \in {"ok", "busy", "failed"}, v \in Nat \union {NoValue} :
          Answers(k, status, v)
    <3>1. CASE StartEnrollment(k)
      <4>1. issued' \in Nat
        BY <3>1, EnrollConstants DEF StartEnrollment, IInv, TypeOK
      <4> QED
        BY <3>1, <4>1 DEF StartEnrollment
    <3>2. CASE FrameAccepted(k)
      <4>1. sessions'[Of(k)].accepted \in Nat
        BY <3>2, EnrollConstants DEF FrameAccepted, Live, IInv, TypeOK
      <4> QED
        BY <3>2, <4>1 DEF FrameAccepted
    <3>3. CASE FrameRejected(k) \/ CommitEnrollment(k)
      <4>1. sessions[Of(k)].accepted \in Nat
        BY <3>3, EnrollConstants
        DEF FrameRejected, CommitEnrollment, Complete, Live, IInv, TypeOK
      <4> QED
        BY <3>3, <4>1 DEF FrameRejected, CommitEnrollment
    <3>4. CASE CommitFails(k) \/ ResetAtEdge(k) \/ Refused(k)
      BY <3>4 DEF CommitFails, ResetAtEdge, Refused, Refuses
    <3> QED
      BY <1>3, <3>1, <3>2, <3>3, <3>4 DEF Handled
  <2>2. PICK status \in {"ok", "busy", "failed"}, v \in Nat \union {NoValue} :
          Answers(k, status, v)
    BY <2>1
  <2>3. /\ OthersStay(k) /\ calls'[k].status = status
        /\ calls'[k].request = calls[k].request
    BY <1>1, <2>2, AnswersCall DEF Status
  <2>4. ui' = ui
    BY <1>3 DEF Handled, StartEnrollment, FrameAccepted, FrameRejected,
                CommitEnrollment, CommitFails, ResetAtEdge, Refused, wizard
  <2> QED
    BY <2>3, <2>4 DEF GoOn, OthersStay
<1> QED
  BY <1>2, <1>3

LEMMA BackedStep == IInv /\ WaitingIsBacked /\ [Next]_vars => WaitingIsBacked'
<1> SUFFICES ASSUME IInv, WaitingIsBacked, [Next]_vars PROVE WaitingIsBacked'
  OBVIOUS
<1>1. CallsType /\ NotShown \in [session : Sessions \union {NoSession}, accepted : Nat]
  BY DEF IInv, TypeOK, CallsType, NotShown
<1> USE DEF WaitingIsBacked, Kind
<1>2. ASSUME NEW k \in Slots, Handled(k) \/ Retries(k) PROVE WaitingIsBacked'
  BY <1>2, BetweenGoOn DEF GoOn
<1>3. ASSUME NEW k \in Slots, Pressed(k) PROVE WaitingIsBacked'
  <2>1. shown.session \in Sessions \union {NoSession}
    BY DEF IInv, TypeOK
  <2>2. CASE Start(k)
    <3>1. UnderWay(k, "start")' /\ ui' = "starting"
      BY <1>1, <2>2, OpensGoOn DEF Start, Request
    <3> QED
      BY <3>1
  <2>3. CASE Commit(k)
    <3>1. UnderWay(k, "commit")' /\ ui' = "committing"
      BY <1>1, <2>1, <2>3, OpensGoOn DEF Commit, Request
    <3> QED
      BY <3>1
  <2>4. CASE Capture(k) \/ Reset(k)
    <3>1. GoOn(Slots) /\ ui' = ui
      BY <1>1, <2>1, <2>4, OpensGoOn DEF Capture, Reset, Request, wizard
    <3> QED
      BY <3>1 DEF GoOn
  <2> QED
    BY <1>3, <2>2, <2>3, <2>4 DEF Pressed
<1>4. ASSUME NEW k \in Slots, FrameDone(k) PROVE WaitingIsBacked'
  <2>1. /\ GoOn(Slots \ {k}) /\ ui' = ui /\ calls[k].request.kind = "frame"
    BY <1>1, <1>4, ClosesGoOn DEF FrameDone, Done, Over
  <2> QED
    BY <2>1 DEF GoOn, UnderWay
<1>5. ASSUME NEW k \in Slots, StartDone(k) \/ CommitDone(k) \/ ResetDone(k) \/ CallFails(k)
      PROVE  WaitingIsBacked'
  BY <1>5 DEF StartDone, CommitDone, ResetDone, CallFails
<1>6. CASE RetryCapture \/ ResetLocally
  BY <1>6 DEF RetryCapture, ResetLocally
<1>7. CASE (\E s \in Sessions : Expires(s)) \/ EdgeRestarts \/ UNCHANGED vars
  <2>1. calls' = calls /\ ui' = ui
    BY <1>7 DEF Expires, EdgeRestarts, vars, wizard
  <2> QED
    BY <2>1 DEF UnderWay, Free
<1> QED
  BY <1>2, <1>3, <1>4, <1>5, <1>6, <1>7 DEF Next, Returned

\* Behind each screen that only asks to wait is the call that ends it.
THEOREM WaitsAreBacked == Spec => []WaitingIsBacked
<1>1. Init => WaitingIsBacked
  BY DEF Init, WaitingIsBacked
<1> QED
  BY <1>1, BackedStep, Inductive, PTL DEF Spec

=============================================================================
