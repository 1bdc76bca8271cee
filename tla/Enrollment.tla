------------------------------- MODULE Enrollment -------------------------------
(***************************************************************************)
(* Enrollment from the button to the template: the wizard of the desktop   *)
(* (CameraView.tsx), the calls it makes (module EdgeClient), the endpoints *)
(* of api/v1/enroll.py over the session store and pipeline of              *)
(* services/enrollment/sessions.py, and the one template they leave.       *)
(*                                                                         *)
(* The handlers of the edge do not await, so each is one action.  The      *)
(* wizard goes on while its calls are under way: another button, a second  *)
(* capture and a reset may come first, and answers come in any order.      *)
(***************************************************************************)
EXTENDS EdgeClient, Integers

CONSTANTS
  Target,            \* target_frames
  Nobody, Earlier,   \* no template; the template of an earlier enrollment
  MaxSessions,       \* bound: enrollment sessions that are started
  MaxAccepted        \* bound: frames one session accepts

ASSUME EnrollConstants ==
  /\ Target \in Nat \ {0} /\ MaxSessions \in Nat /\ MaxAccepted \in Nat
  /\ Nobody \notin Nat /\ Earlier \notin Nat /\ Nobody # Earlier
  /\ NoValue \notin Nat

Sessions == 1..MaxSessions
NoSession == 0

Kind == {"start", "frame", "commit", "reset"}
Request == [kind : Kind, session : Sessions \union {NoSession}]

ASSUME NoRequestIsNone == NoRequest \notin Request

VARIABLES
  ui, shown,         \* enrollState; enrollSession, NotShown when null
  issued, sessions,  \* session ids handed out; EnrollmentSessionStore
  template,          \* the stored template: of which session
  taken,             \* history: how often the picture of a call was accepted
  stored,            \* history: per session, templates stored and their frames
  hasty              \* history: the session shown, or none, replaced one that
                     \* calls still under way were made for

edge == <<issued, sessions, template, taken, stored>>
wizard == <<ui, shown, hasty>>
vars == <<calls, edge, wizard>>

EnrollState == {"idle", "starting", "capturing", "committing", "success", "error"}
NotShown == [session |-> NoSession, accepted |-> 0]
Ended == [live |-> FALSE, accepted |-> 0]

TypeOK ==
  /\ calls \in [Slots -> Call(Request, Nat)]
  /\ ui \in EnrollState
  /\ shown \in [session : Sessions \union {NoSession}, accepted : Nat]
  /\ issued \in 0..MaxSessions
  /\ sessions \in [Sessions -> [live : BOOLEAN, accepted : 0..MaxAccepted]]
  /\ template \in Sessions \union {Nobody, Earlier}
  /\ taken \in [Slots -> Nat]
  /\ stored \in [Sessions -> [times : Nat, frames : Nat]]
  /\ hasty \in BOOLEAN

Init ==
  /\ NoCalls
  /\ ui = "idle" /\ shown = NotShown /\ hasty = FALSE
  /\ issued = 0 /\ sessions = [s \in Sessions |-> Ended]
  /\ template \in {Nobody, Earlier}
  /\ taken = [k \in Slots |-> 0]
  /\ stored = [s \in Sessions |-> [times |-> 0, frames |-> 0]]

Asks(k, kind) == calls[k].status = "sent" /\ calls[k].request.kind = kind
Of(k) == calls[k].request.session
Live(s) == s \in Sessions /\ sessions[s].live

-----------------------------------------------------------------------------
(* The edge.  A request it refuses without a change (404, 400, 429) fails. *)

\* POST /enroll/start
StartEnrollment(k) ==
  /\ Asks(k, "start") /\ issued < MaxSessions
  /\ issued' = issued + 1
  /\ sessions' = [sessions EXCEPT ![issued'] = [live |-> TRUE, accepted |-> 0]]
  /\ Answers(k, "ok", issued')
  /\ UNCHANGED <<template, taken, stored, wizard>>

\* POST /enroll/frame: the picture passes detector, quality gate and embedder.
FrameAccepted(k) ==
  /\ Asks(k, "frame") /\ Live(Of(k)) /\ sessions[Of(k)].accepted < MaxAccepted
  /\ sessions' = [sessions EXCEPT ![Of(k)].accepted = @ + 1]
  /\ taken' = [taken EXCEPT ![k] = @ + 1]
  /\ Answers(k, "ok", sessions'[Of(k)].accepted)
  /\ UNCHANGED <<issued, template, stored, wizard>>

\* It does not: no face, several, too low a quality.
FrameRejected(k) ==
  /\ Asks(k, "frame") /\ Live(Of(k))
  /\ Answers(k, "ok", sessions[Of(k)].accepted)
  /\ UNCHANGED <<edge, wizard>>

\* POST /enroll/commit: 404 for a session that is gone, 400 for one without
\* enough frames.
Complete(k) ==
  Asks(k, "commit") /\ Live(Of(k)) /\ sessions[Of(k)].accepted >= Target

\* Mutant: the session stays after the commit.
CommitMutant(k) ==
  /\ Complete(k)
  /\ template' = Of(k)
  /\ stored' = [stored EXCEPT ![Of(k)] =
                  [times |-> @.times + 1, frames |-> sessions[Of(k)].accepted]]
  /\ Answers(k, "ok", sessions[Of(k)].accepted)
  /\ UNCHANGED <<issued, sessions, taken, wizard>>

CommitEnrollment(k) ==
  /\ Complete(k)
  /\ template' = Of(k)
  /\ stored' = [stored EXCEPT ![Of(k)] =
                  [times |-> @.times + 1, frames |-> sessions[Of(k)].accepted]]
  /\ sessions' = [sessions EXCEPT ![Of(k)] = Ended]
  /\ Answers(k, "ok", sessions[Of(k)].accepted)
  /\ UNCHANGED <<issued, taken, wizard>>

\* commit_template deletes every template and then fails to store the new one,
\* or fails before; the session is kept.
CommitFails(k) ==
  /\ Complete(k)
  /\ template' \in {template, Nobody}
  /\ Answers(k, "failed", NoValue)
  /\ UNCHANGED <<issued, sessions, taken, stored, wizard>>

\* POST /enroll/reset
ResetAtEdge(k) ==
  /\ Asks(k, "reset")
  /\ sessions' = IF Live(Of(k)) THEN [sessions EXCEPT ![Of(k)] = Ended] ELSE sessions
  /\ Answers(k, "ok", NoValue)
  /\ UNCHANGED <<issued, template, taken, stored, wizard>>

\* 401 from the gate, 503 when the face model is unavailable.
Refused(k) == Refuses(k) /\ UNCHANGED <<edge, wizard>>

\* The session is older than its timeout when it is next looked up.
Expires(s) ==
  /\ Live(s)
  /\ sessions' = [sessions EXCEPT ![s] = Ended]
  /\ UNCHANGED <<calls, issued, template, taken, stored, wizard>>

\* The sessions are in memory only.
EdgeRestarts ==
  /\ sessions' = [s \in Sessions |-> Ended]
  /\ UNCHANGED <<calls, issued, template, taken, stored, wizard>>

-----------------------------------------------------------------------------
(* The wizard: what its buttons do *)

Start(k) ==
  /\ ui = "idle"
  /\ Opens(k, [kind |-> "start", session |-> NoSession])
  /\ ui' = "starting"
  /\ UNCHANGED <<shown, hasty, edge>>

Capture(k) ==
  /\ ui = "capturing" /\ shown # NotShown
  /\ Opens(k, [kind |-> "frame", session |-> shown.session])
  /\ UNCHANGED <<edge, wizard>>

Commit(k) ==
  /\ ui = "capturing" /\ shown # NotShown /\ shown.accepted >= Target
  /\ Opens(k, [kind |-> "commit", session |-> shown.session])
  /\ ui' = "committing"
  /\ UNCHANGED <<shown, hasty, edge>>

RetryCapture ==
  /\ ui = "error" /\ ui' = "capturing"
  /\ UNCHANGED <<calls, shown, hasty, edge>>

\* Reset, Cancel and Enroll Again: the edge is told first, if it knows.
Reset(k) ==
  /\ ui # "idle" /\ shown # NotShown
  /\ Opens(k, [kind |-> "reset", session |-> shown.session])
  /\ UNCHANGED <<edge, wizard>>

ResetLocally ==
  /\ ui # "idle" /\ shown = NotShown
  /\ ui' = "idle" /\ hasty' = (\E k \in Slots : ~Free(k))
  /\ UNCHANGED <<calls, shown, edge>>

-----------------------------------------------------------------------------
(* What it does when a call is over *)

Over(k, kind) == calls[k].request.kind = kind /\ Closes(k)

Done(k, kind) == Succeeds(k) /\ Over(k, kind) /\ taken' = [taken EXCEPT ![k] = 0]

Unstarted == <<issued, sessions, template, stored>>

StartDone(k) ==
  /\ Done(k, "start")
  /\ shown' = [session |-> calls[k].value, accepted |-> 0]
  /\ ui' = "capturing" /\ hasty' = OthersOpen(k)
  /\ UNCHANGED Unstarted

\* Mutant: the count goes up by the frame that was accepted, whatever the edge
\* says.
ShowMutant(n) ==
  shown' = IF shown = NotShown THEN NotShown ELSE [shown EXCEPT !.accepted = @ + 1]

\* The answer is written over the session shown, whichever that is by now.
Show(n) ==
  shown' = IF shown = NotShown THEN NotShown ELSE [shown EXCEPT !.accepted = n]

FrameDone(k) ==
  /\ Done(k, "frame") /\ Show(calls[k].value)
  /\ UNCHANGED <<ui, hasty, Unstarted>>

CommitDone(k) ==
  /\ Done(k, "commit") /\ Show(calls[k].value)
  /\ ui' = "success"
  /\ UNCHANGED <<hasty, Unstarted>>

\* Mutant: the failure of a start leaves the screen as it is.
CallFailsMutant(k) ==
  /\ Fails(k) /\ calls[k].request.kind # "reset"
  /\ Closes(k) /\ taken' = [taken EXCEPT ![k] = 0]
  /\ ui' = IF calls[k].request.kind = "start" THEN ui ELSE "error"
  /\ UNCHANGED <<shown, hasty, Unstarted>>

\* A call fails: the error screen, from whatever screen is up.
CallFails(k) ==
  /\ Fails(k) /\ calls[k].request.kind # "reset"
  /\ Closes(k) /\ taken' = [taken EXCEPT ![k] = 0]
  /\ ui' = "error"
  /\ UNCHANGED <<shown, hasty, Unstarted>>

\* The reset is over, one way or the other, and only now the wizard forgets.
ResetDone(k) ==
  /\ Succeeds(k) \/ Fails(k)
  /\ Over(k, "reset") /\ taken' = [taken EXCEPT ![k] = 0]
  /\ shown' = NotShown /\ ui' = "idle" /\ hasty' = OthersOpen(k)
  /\ UNCHANGED Unstarted

Retries(k) == (Resends(k) \/ Renews(k)) /\ UNCHANGED <<edge, wizard>>

-----------------------------------------------------------------------------
Handled(k) ==
  \/ StartEnrollment(k) \/ FrameAccepted(k) \/ FrameRejected(k)
  \/ CommitEnrollment(k) \/ CommitFails(k) \/ ResetAtEdge(k) \/ Refused(k)

Returned(k) ==
  \/ StartDone(k) \/ FrameDone(k) \/ CommitDone(k) \/ ResetDone(k)
  \/ CallFails(k) \/ Retries(k)

Pressed(k) == Start(k) \/ Capture(k) \/ Commit(k) \/ Reset(k)

Next ==
  \/ \E k \in Slots : Handled(k) \/ Returned(k) \/ Pressed(k)
  \/ RetryCapture \/ ResetLocally
  \/ (\E s \in Sessions : Expires(s)) \/ EdgeRestarts

Spec == Init /\ [][Next]_vars

-----------------------------------------------------------------------------
(***************************************************************************)
(* Properties.                                                             *)
(***************************************************************************)

\* While no session was left behind with calls under way, the wizard never
\* shows more accepted frames than the edge has counted, whatever was resent
\* and whichever answer came last: a commit it offers is not refused as
\* incomplete.
NeverOverstated ==
  ~hasty /\ Live(shown.session) => shown.accepted <= sessions[shown.session].accepted

\* Under the same condition the success screen is up only when the template
\* stored is the one of the session shown.
SuccessMeansStored ==
  ~hasty /\ ui = "success" => shown # NotShown /\ template = shown.session

\* A picture that is sent up to three times counts at most twice in its
\* session; a commit that is sent up to three times stores at most one
\* template, of a session that had accepted enough frames.
ResendsAreBounded ==
  /\ \A k \in Slots : taken[k] <= 2
  /\ \A s \in Sessions : stored[s].times <= 1
  /\ template \in Sessions => /\ stored[template].times = 1
                              /\ stored[template].frames >= Target

UnderWay(k, kind) == ~Free(k) /\ calls[k].request.kind = kind

\* Who waits, waits for something: behind each of the two screens that only ask
\* the user to wait is the call that ends it, however calls, resets and sessions
\* overlapped.
WaitingIsBacked ==
  /\ ui = "starting" => \E k \in Slots : UnderWay(k, "start")
  /\ ui = "committing" => \E k \in Slots : UnderWay(k, "commit")

=============================================================================
