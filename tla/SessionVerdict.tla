----------------------------- MODULE SessionVerdict -----------------------------
(***************************************************************************)
(* What the edge promises its clients about authentication sessions: an id *)
(* is handed out once, a session gets at most one step-up round, and once  *)
(* it is denied it stays denied until it is forgotten.                     *)
(*                                                                         *)
(* AuthSession implements this; LoginFlow, the desktop's side, relies on   *)
(* it and on nothing else about the edge.                                  *)
(***************************************************************************)

CONSTANT SessionId

VARIABLES
  issued,            \* ids handed out
  verdict            \* of each session; "gone" before it starts and after

Verdict == {"gone", "open", "step_up", "allow", "deny"}

VerdictInit == issued = {} /\ verdict = [s \in SessionId |-> "gone"]

\* POST /auth/start
Issue(s) ==
  /\ s \notin issued
  /\ issued' = issued \union {s}
  /\ verdict' = [verdict EXCEPT ![s] = "open"]

Pending(s) == verdict[s] \in {"open", "step_up"}

\* POST /auth/frame: the frame over the limit closes the session.
LimitReached(s) ==
  /\ Pending(s)
  /\ verdict' = [verdict EXCEPT ![s] = "deny"]
  /\ UNCHANGED issued

\* POST /auth/finish.  A decided session may be asked again, and may have
\* expired by then.
Outcomes(v) ==
  CASE v = "gone" -> {}
    [] v = "open" -> {"allow", "deny", "step_up"}
    [] v = "deny" -> {"deny"}
    [] OTHER -> {"allow", "deny"}

Decide(s, outcome) ==
  /\ outcome \in Outcomes(verdict[s])
  /\ verdict' = [verdict EXCEPT ![s] = outcome]
  /\ UNCHANGED issued

\* Sessions expire, one at a time, or are lost with the process.
Forget(S) ==
  /\ verdict' = [s \in SessionId |-> IF s \in S THEN "gone" ELSE verdict[s]]
  /\ UNCHANGED issued

VerdictNext ==
  \/ \E s \in SessionId :
       \/ Issue(s) \/ LimitReached(s) \/ Forget({s})
       \/ \E outcome \in Verdict : Decide(s, outcome)
  \/ Forget(SessionId)

verdictVars == <<issued, verdict>>

VerdictSpec == VerdictInit /\ [][VerdictNext]_verdictVars

=============================================================================
