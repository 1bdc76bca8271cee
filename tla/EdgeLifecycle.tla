----------------------------- MODULE EdgeLifecycle -----------------------------
(***************************************************************************)
(* How the desktop shell starts, hands out and stops the edge service      *)
(* (apps/desktop/src-tauri/src/main.rs).                                   *)
(*                                                                         *)
(* Every call of the start_edge command is a task of a thread pool.  The   *)
(* tasks share one EdgeState behind a mutex, which no task keeps across an *)
(* await: an action is one critical section, or one step a task takes      *)
(* outside of it.  get_edge_info and kill_edge are one critical section.   *)
(* The information handed out (port and token) is named by the child it    *)
(* belongs to.  A call that finds a running child and its information      *)
(* returns at once and changes nothing.                                    *)
(***************************************************************************)
EXTENDS Naturals

CONSTANTS
  Caller,            \* tasks that call start_edge
  Child,             \* processes that can be spawned, each once
  None,              \* Option::None
  MaxPolls           \* polls of a waiting caller (50)

ASSUME LifecycleConstants == None \notin Child /\ MaxPolls \in Nat \ {0}

VARIABLES
  app,               \* the desktop application
  pc, polls, mine,   \* per caller: where it is, its polls, the child it spawned
  edgeProcess, edgeInfo, starting,  \* EdgeState
  spawned, alive     \* processes spawned so far, and those still running

state == <<edgeProcess, edgeInfo, starting>>
vars == <<app, pc, polls, mine, state, spawned, alive>>

Launching(c) == pc[c] \in {"launching", "probing", "publishing"}

TypeOK ==
  /\ app \in {"running", "exiting", "gone"}
  /\ pc \in [Caller -> {"idle", "waiting", "relocking",
                        "launching", "probing", "publishing"}]
  /\ polls \in [Caller -> 0..MaxPolls]
  /\ mine \in [Caller -> Child \union {None}]
  /\ edgeProcess \in Child \union {None} /\ edgeInfo \in Child \union {None}
  /\ starting \in BOOLEAN
  /\ spawned \subseteq Child /\ alive \subseteq spawned

Init ==
  /\ app = "running"
  /\ pc = [c \in Caller |-> "idle"]
  /\ polls = [c \in Caller |-> 0]
  /\ mine = [c \in Caller |-> None]
  /\ edgeProcess = None /\ edgeInfo = None /\ starting = FALSE
  /\ spawned = {} /\ alive = {}

Goto(c, label) == pc' = [pc EXCEPT ![c] = label]

Available == edgeProcess \in alive /\ edgeInfo # None

-----------------------------------------------------------------------------
(* start_edge *)

\* A child that exited, or has no information, is killed and forgotten.
ReapStale ==
  /\ alive' = alive \ {edgeProcess}
  /\ edgeProcess' = None
  /\ edgeInfo' = IF edgeProcess = None THEN edgeInfo ELSE None

Enter(c) ==
  /\ app = "running" /\ pc[c] = "idle" /\ ~Available
  /\ ReapStale
  /\ starting' = TRUE
  /\ Goto(c, IF starting THEN "waiting" ELSE "launching")
  /\ polls' = [polls EXCEPT ![c] = 0]
  /\ UNCHANGED <<app, mine, spawned>>

\* Mutant: a waiting caller does not count its polls.
PollMutant(c) ==
  /\ app # "gone" /\ pc[c] = "waiting"
  /\ Goto(c, IF Available THEN "idle" ELSE IF starting THEN "waiting" ELSE "relocking")
  /\ UNCHANGED <<app, polls, mine, state, spawned, alive>>

\* Mutant: it polls once too often.
PollOffByOneMutant(c) ==
  /\ app # "gone" /\ pc[c] = "waiting"
  /\ polls' = [polls EXCEPT ![c] = @ + 1]
  /\ Goto(c, IF Available THEN "idle"
             ELSE IF starting /\ polls[c] < MaxPolls THEN "waiting"
             ELSE "relocking")
  /\ UNCHANGED <<app, mine, state, spawned, alive>>

\* A waiting caller wakes and looks: the child is there, the launch is over
\* without one, or it goes on waiting.
Poll(c) ==
  /\ app # "gone" /\ pc[c] = "waiting"
  /\ polls' = [polls EXCEPT ![c] = @ + 1]
  /\ Goto(c, IF Available THEN "idle"
             ELSE IF starting /\ polls[c] + 1 < MaxPolls THEN "waiting"
             ELSE "relocking")
  /\ UNCHANGED <<app, mine, state, spawned, alive>>

\* Mutant: the caller that stopped waiting launches, whoever else does.
RelockMutant(c) ==
  /\ app # "gone" /\ pc[c] = "relocking"
  /\ starting' = TRUE
  /\ Goto(c, "launching")
  /\ UNCHANGED <<app, polls, mine, edgeProcess, edgeInfo, spawned, alive>>

\* The caller left the loop, and with it the mutex; it takes the mutex again
\* and looks at starting only.
Relock(c) ==
  /\ app # "gone" /\ pc[c] = "relocking"
  /\ starting' = TRUE
  /\ Goto(c, IF starting THEN "idle" ELSE "launching")
  /\ UNCHANGED <<app, polls, mine, edgeProcess, edgeInfo, spawned, alive>>

\* No free port, or no launcher script: the ? operator returns the error.
PrepareFails(c) ==
  /\ app # "gone" /\ pc[c] = "launching"
  /\ Goto(c, "idle")
  /\ UNCHANGED <<app, polls, mine, state, spawned, alive>>

SpawnFails(c) ==
  /\ app # "gone" /\ pc[c] = "launching"
  /\ starting' = FALSE
  /\ Goto(c, "idle")
  /\ UNCHANGED <<app, polls, mine, edgeProcess, edgeInfo, spawned, alive>>

Spawn(c) ==
  /\ app # "gone" /\ pc[c] = "launching"
  /\ \E k \in Child \ spawned :
       /\ mine' = [mine EXCEPT ![c] = k]
       /\ spawned' = spawned \union {k} /\ alive' = alive \union {k}
  /\ Goto(c, "probing")
  /\ UNCHANGED <<app, polls, state>>

HealthPasses(c) ==
  /\ app # "gone" /\ pc[c] = "probing" /\ mine[c] \in alive
  /\ Goto(c, "publishing")
  /\ UNCHANGED <<app, polls, mine, state, spawned, alive>>

\* Mutant: the child that did not become healthy is dropped, not killed.
HealthFailsMutant(c) ==
  /\ app # "gone" /\ pc[c] = "probing"
  /\ mine' = [mine EXCEPT ![c] = None]
  /\ starting' = FALSE
  /\ Goto(c, "idle")
  /\ UNCHANGED <<app, polls, edgeProcess, edgeInfo, spawned, alive>>

HealthFails(c) ==
  /\ app # "gone" /\ pc[c] = "probing"
  /\ alive' = alive \ {mine[c]} /\ mine' = [mine EXCEPT ![c] = None]
  /\ starting' = FALSE
  /\ Goto(c, "idle")
  /\ UNCHANGED <<app, polls, edgeProcess, edgeInfo, spawned>>

\* The child that was in the state, if any, is dropped: a dropped Child goes
\* on running.
Publish(c) ==
  /\ app # "gone" /\ pc[c] = "publishing"
  /\ edgeProcess' = mine[c] /\ edgeInfo' = mine[c] /\ starting' = FALSE
  /\ mine' = [mine EXCEPT ![c] = None]
  /\ Goto(c, "idle")
  /\ UNCHANGED <<app, polls, spawned, alive>>

\* Everything a call does on its own once it entered.
Proceed(c) ==
  \/ Poll(c) \/ Relock(c)
  \/ PrepareFails(c) \/ SpawnFails(c) \/ Spawn(c)
  \/ HealthPasses(c) \/ HealthFails(c) \/ Publish(c)

-----------------------------------------------------------------------------
(* The other commands, the children and the end of the application *)

GetEdgeInfo ==
  /\ app = "running"
  /\ edgeProcess \notin alive
  /\ edgeProcess' = None /\ edgeInfo' = None
  /\ UNCHANGED <<app, pc, polls, mine, starting, spawned, alive>>

\* Mutant: the child is killed, its information stays.
StopChildMutant ==
  /\ alive' = alive \ {edgeProcess}
  /\ edgeProcess' = None
  /\ UNCHANGED edgeInfo

StopChild ==
  /\ alive' = alive \ {edgeProcess}
  /\ edgeProcess' = None /\ edgeInfo' = None

KillEdge ==
  /\ app = "running"
  /\ StopChild
  /\ UNCHANGED <<app, pc, polls, mine, starting, spawned>>

ChildExits(k) ==
  /\ alive' = alive \ {k}
  /\ UNCHANGED <<app, pc, polls, mine, state, spawned>>

ExitRequested ==
  /\ app = "running" /\ app' = "exiting"
  /\ StopChild
  /\ UNCHANGED <<pc, polls, mine, starting, spawned>>

\* The last event: the tasks end with the application, the children do not.
Exit ==
  /\ app # "gone" /\ app' = "gone"
  /\ StopChild
  /\ UNCHANGED <<pc, polls, mine, starting, spawned>>

Next ==
  \/ \E c \in Caller : Enter(c) \/ Proceed(c)
  \/ GetEdgeInfo \/ KillEdge
  \/ \E k \in alive : ChildExits(k)
  \/ ExitRequested \/ Exit

Spec == Init /\ [][Next]_vars

\* The thread pool runs every task that can run; polls, the health probe and
\* the critical sections all take bounded time.
Fairness == \A c \in Caller : WF_vars(Proceed(c))

FairSpec == Spec /\ Fairness

-----------------------------------------------------------------------------
(***************************************************************************)
(* Properties.                                                             *)
(***************************************************************************)

\* However calls, kills and retries overlap, one task launches at a time,
\* and starting stays set while it does.
OneLauncher ==
  \A c \in Caller : Launching(c) =>
    /\ starting
    /\ \A d \in Caller : Launching(d) => d = c

\* The port and token the shell hands out are those of the child it would
\* kill, so no caller is sent to a service the shell no longer owns.
InfoOfOwnedChild == edgeInfo = edgeProcess

\* The children the application would still stop: the one in its state, and
\* the one a launcher is probing.
Owned(k) ==
  /\ app # "gone"
  /\ k = edgeProcess \/ \E c \in Caller : Launching(c) /\ mine[c] = k

\* A running child is not forgotten, whatever fails, exits or is killed next to
\* it: only the end of the application lets go of one that is not published
\* yet, and a call that had waited may publish its own child over another's.
ChildrenAreKept ==
  [][\A k \in alive \intersect alive' : Owned(k) =>
       \/ Owned(k)'
       \/ Exit
       \/ k = edgeProcess /\ \E c \in Caller : Publish(c) /\ polls[c] > 0]_vars

\* Every call of start_edge returns, whatever became of the launch it waits
\* for, unless the application ends first.
CallReturns == \A c \in Caller : pc[c] # "idle" ~> (pc[c] = "idle" \/ app = "gone")

=============================================================================
