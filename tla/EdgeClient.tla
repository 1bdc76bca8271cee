------------------------------- MODULE EdgeClient -------------------------------
(***************************************************************************)
(* request() of the desktop's lib/apiClient.ts: how one call of the user   *)
(* interface becomes up to three attempts at the edge service.             *)
(*                                                                         *)
(* A first attempt that ends in a network error is resent once.  An answer *)
(* 401, 502 or 503 to that, or to the first, makes the client ask the      *)
(* shell to start the edge, and the request is sent once more.  An attempt *)
(* whose answer is lost has been handled all the same.  The client gives   *)
(* up when its attempts are used up, on any other error status, and when   *)
(* the shell has no edge to send to.  A fetch has no timeout: an attempt   *)
(* that failed is not handled later.                                       *)
(***************************************************************************)

CONSTANTS
  Slots,             \* the calls that may be under way at a time
  NoRequest,         \* what a free slot asks for
  NoValue            \* what a call without an answer carries

VARIABLE calls

Status == {"free", "sent", "ok", "busy", "failed"}

Call(Request, Value) ==
  [status : Status, request : Request \union {NoRequest},
   resend : BOOLEAN, renew : BOOLEAN, value : Value \union {NoValue}]

NoCall ==
  [status |-> "free", request |-> NoRequest, resend |-> FALSE, renew |-> FALSE,
   value |-> NoValue]

NoCalls == calls = [k \in Slots |-> NoCall]

Free(k) == calls[k].status = "free"

OthersOpen(k) == \E j \in Slots \ {k} : ~Free(j)

\* The user interface calls the edge.
Opens(k, r) ==
  /\ Free(k)
  /\ calls' = [calls EXCEPT ![k] =
                 [status |-> "sent", request |-> r, resend |-> TRUE,
                  renew |-> TRUE, value |-> NoValue]]

\* The edge answers: "busy" is 401, 502 or 503 while the client may still send
\* the request once more, "failed" any other error.  An attempt that is refused
\* without effect, and not repeated, needs no answer: it may fail as it is.
Answers(k, status, v) ==
  calls' = [calls EXCEPT ![k].status = status, ![k].value = v]

Refuses(k) == calls[k].status = "sent" /\ calls[k].renew /\ Answers(k, "busy", NoValue)

\* doEdgeFetch throws a network error, before or after the edge handled the
\* attempt, and the request is sent again.
Resends(k) ==
  /\ ~Free(k) /\ calls[k].resend
  /\ calls' = [calls EXCEPT ![k].status = "sent", ![k].resend = FALSE,
                            ![k].value = NoValue]

\* Mutant: the last attempt may be resent, too.
RenewsMutant(k) ==
  /\ calls[k].status = "busy" /\ calls[k].renew
  /\ calls' = [calls EXCEPT ![k].status = "sent", ![k].resend = TRUE,
                            ![k].renew = FALSE, ![k].value = NoValue]

\* start_edge succeeded: the last attempt, outside of the try.
Renews(k) ==
  /\ calls[k].status = "busy" /\ calls[k].renew
  /\ calls' = [calls EXCEPT ![k].status = "sent", ![k].resend = FALSE,
                            ![k].renew = FALSE, ![k].value = NoValue]

\* Mutant: the status of the answer is not looked at.
SucceedsMutant(k) == calls[k].status \in {"ok", "busy", "failed"}

\* The call is over for its caller: with an answer when Succeeds(k), with an
\* error when Fails(k).  Any attempt may fail: by an error status (504 also for
\* one that was handled), a lost last answer, or no edge to send it to again.
Succeeds(k) == calls[k].status = "ok"
Fails(k) == ~Free(k)

Closes(k) == calls' = [calls EXCEPT ![k] = NoCall]

=============================================================================
