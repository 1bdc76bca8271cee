--------------------------- MODULE ReliableDelivery ---------------------------
(***************************************************************************)
(* What the telemetry outbox promises the edge service that records an     *)
(* event: the event is held until the cloud has it or the user wipes the   *)
(* device, and what the cloud has it keeps.  Implemented by                *)
(* TelemetryPipeline.                                                      *)
(***************************************************************************)
CONSTANT Event

VARIABLES
  accepted,          \* events recorded so far
  held,              \* of these, the ones the device still answers for
  delivered          \* events the cloud has stored

vars == <<accepted, held, delivered>>

Init == accepted = {} /\ held = {} /\ delivered = {}

Accept(e) ==
  /\ e \notin accepted
  /\ accepted' = accepted \union {e}
  /\ held' = held \union {e}
  /\ UNCHANGED delivered

\* Also an event that is no longer held may arrive: it was on its way.
Deliver(S) ==
  /\ delivered' = delivered \union S
  /\ UNCHANGED <<accepted, held>>

\* Only a delivered event is let go.
Settle(S) ==
  /\ S \subseteq delivered
  /\ held' = held \ S
  /\ UNCHANGED <<accepted, delivered>>

Wipe == held' = {} /\ UNCHANGED <<accepted, delivered>>

Next ==
  \/ \E e \in Event : Accept(e)
  \/ \E S \in SUBSET accepted : Deliver(S) \/ Settle(S)
  \/ Wipe

Spec == Init /\ [][Next]_vars

=============================================================================
