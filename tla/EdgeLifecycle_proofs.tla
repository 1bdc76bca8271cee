-------------------------- MODULE EdgeLifecycle_proofs --------------------------
(***************************************************************************)
(* Proofs about EdgeLifecycle, for any number of callers, children and     *)
(* polls.  The safety properties are nearly inductive together: what is    *)
(* missing is that a call which stops waiting has polled, which tells its  *)
(* launch from a direct one.                                               *)
(***************************************************************************)
EXTENDS EdgeLifecycle, TLAPS

\* A call waits while it has polls left, and has polled when it stops.
PollsOK ==
  \A c \in Caller :
    /\ pc[c] = "waiting" => polls[c] < MaxPolls
    /\ pc[c] = "relocking" => polls[c] > 0

\* A call that launches without having waited replaces nothing: no living
\* child of an earlier launch is forgotten when it publishes its own.
DirectLaunchReplacesNothing ==
  \A c \in Caller : Launching(c) /\ polls[c] = 0 => edgeProcess = None

IInv ==
  /\ TypeOK
  /\ OneLauncher
  /\ InfoOfOwnedChild
  /\ DirectLaunchReplacesNothing
  /\ PollsOK

\* The initial state satisfies the inductive invariant.
LEMMA InitIInv == Init => IInv
<1>1. SUFFICES ASSUME Init PROVE IInv
  OBVIOUS
<1>2. MaxPolls \in Nat /\ 0 \in 0..MaxPolls
  BY LifecycleConstants
<1>3. TypeOK
  BY <1>1, <1>2 DEF Init, TypeOK
<1>4. \A c \in Caller : pc[c] = "idle"
  BY <1>1 DEF Init
<1> QED BY <1>1, <1>3, <1>4
        DEF Init, IInv, OneLauncher, InfoOfOwnedChild,
            DirectLaunchReplacesNothing, PollsOK, Launching

\* The first critical section of start_edge, and the second of a call that
\* waited, are where a launcher is made.
LEMMA EnterStep == IInv /\ (\E c \in Caller : Enter(c)) => IInv'
<1>1. SUFFICES ASSUME IInv, NEW c \in Caller, Enter(c) PROVE IInv'
  OBVIOUS
<1>2. TypeOK'
  BY <1>1, LifecycleConstants DEF IInv, TypeOK, Enter, ReapStale, Goto
<1>3. OneLauncher'
  BY <1>1 DEF IInv, TypeOK, OneLauncher, Launching, Enter, Goto
<1>4. InfoOfOwnedChild'
  BY <1>1 DEF IInv, InfoOfOwnedChild, Enter, ReapStale
<1>5. DirectLaunchReplacesNothing'
  BY <1>1 DEF DirectLaunchReplacesNothing, Enter, ReapStale
<1>6. PollsOK'
  BY <1>1, LifecycleConstants DEF IInv, TypeOK, PollsOK, Enter, Goto
<1> QED BY <1>2, <1>3, <1>4, <1>5, <1>6 DEF IInv

\* What an entered call does on its own, one action after the other.
LEMMA ProceedStep == IInv /\ (\E c \in Caller : Proceed(c)) => IInv'
<1>1. SUFFICES ASSUME IInv, NEW c \in Caller, Proceed(c) PROVE IInv'
  OBVIOUS
<1> USE DEF state
<1>2. CASE Poll(c)
  <2>1. TypeOK'
    BY <1>1, <1>2, LifecycleConstants DEF IInv, TypeOK, PollsOK, Poll, Goto
  <2>2. OneLauncher' /\ DirectLaunchReplacesNothing'
    BY <1>1, <1>2
    DEF IInv, TypeOK, OneLauncher, DirectLaunchReplacesNothing, Launching, Poll, Goto
  <2>3. PollsOK'
    BY <1>1, <1>2, LifecycleConstants DEF IInv, TypeOK, PollsOK, Poll, Goto
  <2> QED BY <1>1, <1>2, <2>1, <2>2, <2>3 DEF IInv, InfoOfOwnedChild, Poll
<1>3. CASE Relock(c)
  <2>1. TypeOK'
    BY <1>1, <1>3 DEF IInv, TypeOK, Relock, Goto
  <2>2. OneLauncher'
    BY <1>1, <1>3 DEF IInv, TypeOK, OneLauncher, Launching, Relock, Goto
  <2>3. DirectLaunchReplacesNothing'
    BY <1>1, <1>3
    DEF IInv, TypeOK, DirectLaunchReplacesNothing, PollsOK,
        Launching, Relock, Goto
  <2>4. PollsOK'
    BY <1>1, <1>3 DEF IInv, TypeOK, PollsOK, Relock, Goto
  <2> QED BY <1>1, <1>3, <2>1, <2>2, <2>3, <2>4 DEF IInv, InfoOfOwnedChild, Relock
<1>4. CASE PrepareFails(c) \/ SpawnFails(c) \/ HealthFails(c)
  <2>1. TypeOK'
    BY <1>1, <1>4 DEF IInv, TypeOK, PrepareFails, SpawnFails, HealthFails, Goto
  <2>2. OneLauncher' /\ DirectLaunchReplacesNothing' /\ PollsOK'
    BY <1>1, <1>4
    DEF IInv, TypeOK, OneLauncher, DirectLaunchReplacesNothing,
        PollsOK, Launching, PrepareFails, SpawnFails, HealthFails, Goto
  <2> QED BY <1>1, <1>4, <2>1, <2>2
          DEF IInv, InfoOfOwnedChild, PrepareFails, SpawnFails, HealthFails
<1>5. CASE Spawn(c) \/ HealthPasses(c)
  <2>1. TypeOK'
    BY <1>1, <1>5 DEF IInv, TypeOK, Spawn, HealthPasses, Goto
  <2>2. OneLauncher' /\ DirectLaunchReplacesNothing' /\ PollsOK'
    BY <1>1, <1>5
    DEF IInv, TypeOK, OneLauncher, DirectLaunchReplacesNothing,
        PollsOK, Launching, Spawn, HealthPasses, Goto
  <2> QED BY <1>1, <1>5, <2>1, <2>2 DEF IInv, InfoOfOwnedChild, Spawn, HealthPasses
<1>6. CASE Publish(c)
  <2>1. TypeOK'
    BY <1>1, <1>6 DEF IInv, TypeOK, Publish, Goto
  <2>2. \A d \in Caller : ~Launching(d)'
    BY <1>1, <1>6 DEF IInv, TypeOK, OneLauncher, Launching, Publish, Goto
  <2>3. PollsOK'
    BY <1>1, <1>6 DEF IInv, TypeOK, PollsOK, Publish, Goto
  <2> QED BY <1>6, <2>1, <2>2, <2>3
          DEF IInv, OneLauncher, DirectLaunchReplacesNothing, InfoOfOwnedChild, Publish
<1> QED BY <1>1, <1>2, <1>3, <1>4, <1>5, <1>6 DEF Proceed

\* Everything else leaves the calls and starting alone and can only take the
\* child out of the state, together with its information.
LEMMA OtherStep ==
  IInv /\ ( \/ GetEdgeInfo \/ KillEdge \/ ExitRequested \/ Exit
            \/ \E k \in alive : ChildExits(k)
            \/ UNCHANGED vars ) => IInv'
<1>1. SUFFICES ASSUME IInv,
                      \/ GetEdgeInfo \/ KillEdge \/ ExitRequested \/ Exit
                      \/ \E k \in alive : ChildExits(k)
                      \/ UNCHANGED vars
               PROVE IInv'
  OBVIOUS
<1> USE DEF state, vars, GetEdgeInfo, KillEdge, StopChild, ExitRequested, Exit, ChildExits
<1>2. TypeOK'
  BY <1>1 DEF IInv, TypeOK
<1>3. /\ pc' = pc /\ polls' = polls /\ starting' = starting
      /\ edgeProcess' \in {edgeProcess, None}
      /\ InfoOfOwnedChild'
  BY <1>1 DEF IInv, InfoOfOwnedChild
<1>4. OneLauncher' /\ DirectLaunchReplacesNothing' /\ PollsOK'
  BY <1>1, <1>3
  DEF IInv, OneLauncher, DirectLaunchReplacesNothing, PollsOK, Launching
<1> QED BY <1>2, <1>3, <1>4 DEF IInv

\* The invariant holds in every state, whatever the number of callers.
THEOREM Inductive == Spec => []IInv
<1>1. IInv /\ [Next]_vars => IInv'
  BY EnterStep, ProceedStep, OtherStep DEF Next
<1> QED BY InitIInv, <1>1, PTL DEF Spec

\* Type correctness.
THEOREM TypeCorrect == Spec => []TypeOK
BY Inductive, PTL DEF IInv

\* However calls, kills and retries overlap, one call launches at a time.
THEOREM OneLauncherAlways == Spec => []OneLauncher
BY Inductive, PTL DEF IInv

\* The port and token handed out are those of the child that is owned.
THEOREM InfoOwned == Spec => []InfoOfOwnedChild
BY Inductive, PTL DEF IInv

\* A call that launches without having waited forgets no child.
THEOREM DirectLaunchSafe == Spec => []DirectLaunchReplacesNothing
BY Inductive, PTL DEF IInv

-----------------------------------------------------------------------------
(* What becomes of the children. *)

\* A call has a child of its own from the spawn to the publication.
MineOK == \A c \in Caller : mine[c] # None => pc[c] \in {"probing", "publishing"}

LEMMA MineInit == Init => MineOK
  BY DEF Init, MineOK

LEMMA MineStep == TypeOK /\ MineOK /\ [Next]_vars => MineOK'
<1> SUFFICES ASSUME TypeOK, MineOK, [Next]_vars PROVE MineOK'
  OBVIOUS
<1> USE DEF TypeOK, MineOK, state, Goto
<1>1. ASSUME NEW c \in Caller, Enter(c) PROVE MineOK'
  BY <1>1 DEF Enter
<1>2. ASSUME NEW c \in Caller, Poll(c) \/ Relock(c) \/ HealthPasses(c) PROVE MineOK'
  BY <1>2 DEF Poll, Relock, HealthPasses
<1>3. ASSUME NEW c \in Caller, PrepareFails(c) \/ SpawnFails(c) PROVE MineOK'
  BY <1>3 DEF PrepareFails, SpawnFails
<1>4. ASSUME NEW c \in Caller, Spawn(c) PROVE MineOK'
  BY <1>4 DEF Spawn
<1>5. ASSUME NEW c \in Caller, HealthFails(c) \/ Publish(c) PROVE MineOK'
  BY <1>5 DEF HealthFails, Publish
<1>6. CASE \/ GetEdgeInfo \/ KillEdge \/ ExitRequested \/ Exit
           \/ (\E k \in alive : ChildExits(k)) \/ UNCHANGED vars
  BY <1>6 DEF GetEdgeInfo, KillEdge, ExitRequested, Exit, ChildExits, vars
<1> QED BY <1>1, <1>2, <1>3, <1>4, <1>5, <1>6 DEF Next, Proceed

\* A call holds a child of its own while it probes and publishes, and not after:
\* every early return of start_edge drops it.
THEOREM MineInductive == Spec => []MineOK
BY MineInit, MineStep, TypeCorrect, PTL DEF Spec

\* One step at a time: who owned a running child owns it still, or handed it
\* over, unless the application ends or a call that had waited publishes.
LEMMA ChildKept ==
  ASSUME IInv, MineOK, [Next]_vars, ~Exit,
         NEW k \in alive, k \in alive', Owned(k)
  PROVE  Owned(k)' \/ (k = edgeProcess /\ \E c \in Caller : Publish(c) /\ polls[c] > 0)
<1> USE DEF state, Owned, Goto, Launching
<1>1. k # None
  BY LifecycleConstants DEF IInv, TypeOK
<1>2. ASSUME NEW c \in Caller, Enter(c) PROVE Owned(k)'
  BY <1>2 DEF IInv, TypeOK, Enter, ReapStale
<1>3. ASSUME NEW c \in Caller, Poll(c) \/ Relock(c) \/ HealthPasses(c) PROVE Owned(k)'
  BY <1>3 DEF IInv, TypeOK, Poll, Relock, HealthPasses
<1>4. ASSUME NEW c \in Caller, PrepareFails(c) \/ SpawnFails(c) \/ Spawn(c)
      PROVE Owned(k)'
  <2>1. mine[c] = None
    BY <1>4 DEF MineOK, PrepareFails, SpawnFails, Spawn
  <2> QED BY <1>1, <1>4, <2>1 DEF IInv, TypeOK, PrepareFails, SpawnFails, Spawn
<1>5. ASSUME NEW c \in Caller, HealthFails(c) PROVE Owned(k)'
  BY <1>5 DEF IInv, TypeOK, HealthFails
<1>6. ASSUME NEW c \in Caller, Publish(c) PROVE Owned(k)' \/ (k = edgeProcess /\ polls[c] > 0)
  <2>1. polls[c] \in Nat /\ (polls[c] = 0 => edgeProcess = None)
    BY <1>6, LifecycleConstants
    DEF IInv, TypeOK, DirectLaunchReplacesNothing, Publish
  <2>2. CASE k = edgeProcess
    BY <1>1, <2>1, <2>2
  <2>3. ASSUME NEW d \in Caller, Launching(d), mine[d] = k PROVE Owned(k)'
    <3>1. d = c
      BY <1>6, <2>3 DEF IInv, OneLauncher, Publish
    <3> QED BY <1>6, <2>3, <3>1 DEF Publish
  <2> QED BY <2>2, <2>3
<1>7. CASE GetEdgeInfo \/ KillEdge \/ ExitRequested
  BY <1>7 DEF GetEdgeInfo, KillEdge, ExitRequested, StopChild
<1>8. CASE (\E j \in alive : ChildExits(j)) \/ UNCHANGED vars
  BY <1>8 DEF ChildExits, vars
<1> QED BY <1>2, <1>3, <1>4, <1>5, <1>6, <1>7, <1>8 DEF Next, Proceed

\* A running child is forgotten by the end of the application, or by the
\* publication of a call that had waited, and by nothing else.
THEOREM ChildrenKept == Spec => ChildrenAreKept
<1>1. IInv /\ MineOK /\ [Next]_vars =>
        [\A k \in alive \intersect alive' : Owned(k) =>
           \/ Owned(k)'
           \/ Exit
           \/ k = edgeProcess /\ \E c \in Caller : Publish(c) /\ polls[c] > 0]_vars
  BY ChildKept
<1> QED BY <1>1, Inductive, MineInductive, PTL DEF Spec, ChildrenAreKept

-----------------------------------------------------------------------------
(* How long a call takes. *)

\* How many more steps a call can take by itself.
Remaining(c) ==
  [waiting |-> 4 + MaxPolls - polls[c], relocking |-> 4,
   launching |-> 3, probing |-> 2, publishing |-> 1, idle |-> 0][pc[c]]

\* Each step of a call brings it nearer to its return, and nothing another call
\* or the application does sends it back: it takes at most MaxPolls + 4.
CallsDrawCloser ==
  [][\A c \in Caller : pc[c] # "idle" =>
       IF Proceed(c) THEN Remaining(c)' < Remaining(c)
       ELSE Remaining(c)' = Remaining(c)]_vars

\* A call that makes a step of its own has fewer of them left.
LEMMA ProceedShortens ==
  ASSUME IInv, NEW c \in Caller, Proceed(c)
  PROVE  Remaining(c)' < Remaining(c)
<1> USE DEF Goto, Remaining
<1>1. pc \in [Caller -> {"idle", "waiting", "relocking",
                        "launching", "probing", "publishing"}]
      /\ polls \in [Caller -> 0..MaxPolls] /\ MaxPolls \in Nat
  BY LifecycleConstants DEF IInv, TypeOK
<1>2. CASE Poll(c)
  <2>1. /\ polls[c] \in Nat /\ polls[c] < MaxPolls
        /\ polls'[c] = polls[c] + 1 /\ pc[c] = "waiting"
        /\ pc'[c] \in {"idle", "waiting", "relocking"}
    BY <1>1, <1>2 DEF IInv, PollsOK, Poll
  <2> QED BY <1>1, <2>1
<1>3. CASE Relock(c)
  <2>1. pc[c] = "relocking" /\ pc'[c] \in {"idle", "launching"}
    BY <1>1, <1>3 DEF Relock
  <2> QED BY <2>1
<1>4. CASE PrepareFails(c) \/ SpawnFails(c) \/ Spawn(c)
  <2>1. pc[c] = "launching" /\ pc'[c] \in {"idle", "probing"}
    BY <1>1, <1>4 DEF PrepareFails, SpawnFails, Spawn
  <2> QED BY <2>1
<1>5. CASE HealthPasses(c) \/ HealthFails(c) \/ Publish(c)
  <2>1. \/ pc[c] = "probing" /\ pc'[c] \in {"idle", "publishing"}
        \/ pc[c] = "publishing" /\ pc'[c] = "idle"
    BY <1>1, <1>5 DEF HealthPasses, HealthFails, Publish
  <2> QED BY <2>1
<1> QED BY <1>2, <1>3, <1>4, <1>5 DEF Proceed

\* Nobody else moves it.
LEMMA OthersLeaveCall ==
  ASSUME IInv, NEW c \in Caller, pc[c] # "idle", [Next]_vars, ~Proceed(c)
  PROVE  Remaining(c)' = Remaining(c)
<1> USE DEF state, Goto
<1>1. pc'[c] = pc[c] /\ polls'[c] = polls[c]
  <2>1. ASSUME NEW d \in Caller, Enter(d) PROVE pc'[c] = pc[c] /\ polls'[c] = polls[c]
    BY <2>1 DEF IInv, TypeOK, Enter
  <2>2. ASSUME NEW d \in Caller, Proceed(d) PROVE pc'[c] = pc[c] /\ polls'[c] = polls[c]
    <3>1. d # c
      BY <2>2
    <3> QED BY <2>2, <3>1
            DEF IInv, TypeOK, Proceed, Poll, Relock, PrepareFails, SpawnFails, Spawn,
                HealthPasses, HealthFails, Publish
  <2>3. CASE \/ GetEdgeInfo \/ KillEdge \/ ExitRequested \/ Exit
             \/ (\E k \in alive : ChildExits(k)) \/ UNCHANGED vars
    BY <2>3 DEF GetEdgeInfo, KillEdge, ExitRequested, Exit, ChildExits, vars
  <2> QED BY <2>1, <2>2, <2>3 DEF Next
<1> QED BY <1>1 DEF Remaining

\* A call of start_edge takes at most MaxPolls + 4 steps, whatever happens next
\* to it.
THEOREM CallsAreShort == Spec => CallsDrawCloser
<1>1. IInv /\ [Next]_vars =>
        [\A c \in Caller : pc[c] # "idle" =>
           IF Proceed(c) THEN Remaining(c)' < Remaining(c)
           ELSE Remaining(c)' = Remaining(c)]_vars
  BY ProceedShortens, OthersLeaveCall
<1> QED BY <1>1, Inductive, PTL DEF Spec, CallsDrawCloser

=============================================================================
