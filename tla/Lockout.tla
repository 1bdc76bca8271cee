-------------------------------- MODULE Lockout --------------------------------
(***************************************************************************)
(* The gate in front of every protected endpoint of the edge service:      *)
(* BearerTokenMiddleware (main.py) over the token buckets and the lockout  *)
(* tracker of services/security/rate_limit.py.                             *)
(*                                                                         *)
(* dispatch awaits nothing that yields before it forwards the request, so  *)
(* a request is one action up to that point.  What it changes in memory it *)
(* then writes to a file, and a failing write is only logged: a process    *)
(* that dies between the change and the write is a failing write followed  *)
(* by a restart.                                                           *)
(***************************************************************************)
EXTENDS Naturals

CONSTANTS
  Clients,           \* client keys: the hash of a presented token, or an address
  Endpoints,
  Capacity, Rate,    \* of the bucket of each endpoint; Rate per unit of time
  Thresholds,        \* the failure counts of _LOCKOUT_SCHEDULE
  LockoutSeconds,    \* the duration at each of them
  MaxTime,           \* bound: the clock
  MaxFailures        \* bound: failures of one client in a row

ASSUME LockoutConstants ==
  /\ Capacity \in [Endpoints -> Nat] /\ Rate \in [Endpoints -> Nat]
  /\ Thresholds \subseteq Nat \ {0}
  /\ LockoutSeconds \in [Thresholds -> Nat]
  /\ MaxTime \in Nat /\ MaxFailures \in Nat

VARIABLES
  now,               \* the clock, read once by a request
  good,              \* the keys whose token is EDGE_AUTH_TOKEN of this process
  clients,           \* LockoutTracker._state; NoRecord where there is no entry
  file,              \* lockout_state.json
  usable,            \* persistence was not disabled when the tracker was built
  buckets,           \* RateLimiter._buckets; a full one where there is none yet
  unwritten,         \* history: the last write was needed and did not happen
  streak, due,       \* history: failures in a row, end of the last lockout
  window             \* history: requests let through one bucket since an instant

tracker == <<clients, file, usable>>
history == <<unwritten, streak, due>>
vars == <<now, good, tracker, buckets, history, window>>

Record == [failures : 0..MaxFailures, until : Nat]
NoRecord == [failures |-> 0, until |-> 0]
Bucket == [tokens : Nat, last : Nat]
Full(e) == [tokens |-> Capacity[e], last |-> now]

TypeOK ==
  /\ now \in 0..MaxTime
  /\ good \in SUBSET Clients
  /\ clients \in [Clients -> Record] /\ file \in [Clients -> Record]
  /\ usable \in BOOLEAN /\ unwritten \in BOOLEAN
  /\ buckets \in [Clients \X Endpoints -> Bucket]
  /\ streak \in [Clients -> 0..MaxFailures] /\ due \in [Clients -> Nat]
  /\ window \in [of : Clients \X Endpoints, since : Nat, served : Nat]

Init ==
  /\ now = 0
  /\ good \in SUBSET Clients
  /\ clients = [c \in Clients |-> NoRecord] /\ file = clients
  /\ usable \in BOOLEAN
  /\ buckets = [b \in Clients \X Endpoints |-> Full(b[2])]
  /\ unwritten = FALSE
  /\ streak = [c \in Clients |-> 0] /\ due = [c \in Clients |-> 0]
  /\ window \in [of : Clients \X Endpoints, since : {0}, served : {0}]

-----------------------------------------------------------------------------
(* The token bucket and the lockout schedule *)

Smaller(m, n) == IF m <= n THEN m ELSE n

\* Mutant: the refill is not cut off at the capacity.
RefilledMutant(b) ==
  buckets[b].tokens + Rate[b[2]] * (now - buckets[b].last)

\* The tokens consume() finds.
Refilled(b) ==
  Smaller(Capacity[b[2]], buckets[b].tokens + Rate[b[2]] * (now - buckets[b].last))

\* t is the largest threshold n failures have reached: the schedule is read
\* from its largest one down.
Applies(t, n) == t <= n /\ \A u \in Thresholds : u <= n => u <= t

LockoutForFailures(n) ==
  IF \E t \in Thresholds : Applies(t, n)
  THEN LockoutSeconds[CHOOSE t \in Thresholds : Applies(t, n)]
  ELSE 0

Locked(c) == clients[c].until > now

\* is_locked: a lockout that has run out is taken back, the count stays.
Released(c) == [clients EXCEPT ![c].until = 0]

\* record_failure, after is_locked.
Failed(c) ==
  LET n == clients[c].failures + 1
      d == LockoutForFailures(n)
  IN [clients EXCEPT ![c] = [failures |-> n, until |-> IF d > 0 THEN now + d ELSE 0]]

\* record_success, after is_locked.
Pardoned(c) == [clients EXCEPT ![c] = NoRecord]

-----------------------------------------------------------------------------
(* Writing the tracker's state *)

\* Whether a write takes place when it is tried.
Outcomes == IF usable THEN BOOLEAN ELSE {FALSE}

\* Mutant: what is_locked and record_failure changed is not written.
SaveMutant(c, state) ==
  UNCHANGED <<file, unwritten>>

\* The state after the request, written as a whole; is_locked may have written
\* the released lockout before.
Save(c, state) ==
  \E first, last \in Outcomes :
    LET earlier == IF first THEN Released(c) ELSE file
    IN  IF state = clients THEN UNCHANGED <<file, unwritten>>
        ELSE /\ file' = (IF last THEN state
                         ELSE IF state # Released(c) /\ clients[c].until # 0 THEN earlier
                         ELSE file)
             /\ unwritten' = ~last

-----------------------------------------------------------------------------
(* Requests.  One of a locked client is refused and changes nothing. *)

\* check() finds the bucket empty: 429.
RateLimited(c, e) ==
  /\ ~Locked(c) /\ Refilled(<<c, e>>) = 0
  /\ buckets' = [buckets EXCEPT ![<<c, e>>] = [tokens |-> 0, last |-> now]]
  /\ clients' = Released(c) /\ Save(c, Released(c))
  /\ UNCHANGED <<now, good, usable, streak, due, window>>

\* Mutant: a client that is locked out passes.
PassesMutant(c, e) ==
  /\ Refilled(<<c, e>>) > 0
  /\ buckets' = [buckets EXCEPT ![<<c, e>>] =
                   [tokens |-> Refilled(<<c, e>>) - 1, last |-> now]]
  /\ window' = IF window.of = <<c, e>>
               THEN [window EXCEPT !.served = @ + 1] ELSE window

\* Mutant: a token is taken from an empty bucket.
OverdrawnMutant(c, e) ==
  /\ ~Locked(c)
  /\ buckets' = [buckets EXCEPT ![<<c, e>>] =
                   [tokens |-> Refilled(<<c, e>>) - 1, last |-> now]]
  /\ window' = IF window.of = <<c, e>>
               THEN [window EXCEPT !.served = @ + 1] ELSE window

\* check() lets the request through and takes a token.
Passes(c, e) ==
  /\ ~Locked(c) /\ Refilled(<<c, e>>) > 0
  /\ buckets' = [buckets EXCEPT ![<<c, e>>] =
                   [tokens |-> Refilled(<<c, e>>) - 1, last |-> now]]
  /\ window' = IF window.of = <<c, e>>
               THEN [window EXCEPT !.served = @ + 1] ELSE window

\* The token is refused: 401.
Rejected(c, e) ==
  /\ c \notin good /\ streak[c] < MaxFailures
  /\ Passes(c, e)
  /\ clients' = Failed(c) /\ Save(c, Failed(c))
  /\ streak' = [streak EXCEPT ![c] = @ + 1]
  /\ due' = [due EXCEPT ![c] = LET d == LockoutForFailures(streak[c] + 1)
                               IN  IF d > 0 THEN now + d ELSE 0]
  /\ UNCHANGED <<now, good, usable>>

\* The token is right: the request is forwarded.
Accepted(c, e) ==
  /\ c \in good
  /\ Passes(c, e)
  /\ clients' = Pardoned(c) /\ Save(c, Pardoned(c))
  /\ streak' = [streak EXCEPT ![c] = 0] /\ due' = [due EXCEPT ![c] = 0]
  /\ UNCHANGED <<now, good, usable>>

-----------------------------------------------------------------------------
(* Time, and the life of the process *)

Tick ==
  /\ now < MaxTime /\ now' = now + 1
  /\ UNCHANGED <<good, tracker, buckets, history, window>>

\* The property about bursts is about any stretch of time: one may begin at
\* any moment, for the bucket that was chosen at the start.
Observe ==
  /\ window' = [of |-> window.of, since |-> now, served |-> 0]
  /\ UNCHANGED <<now, good, tracker, buckets, history>>

FreshProcess ==
  /\ good' \in SUBSET Clients
  /\ buckets' = [b \in Clients \X Endpoints |-> Full(b[2])]
  /\ window' = [of |-> window.of, since |-> now, served |-> 0]
  /\ UNCHANGED <<now, file>>

\* _load_state.  It skips entries without failures and lockout, which
\* _persist_state did not write.
Loaded == file

\* The process ends, however, and its successor reads the file.  What the last
\* write did not save is forgotten, and so is not counted from here on.
Restart ==
  /\ FreshProcess
  /\ usable' = TRUE /\ clients' = Loaded
  /\ unwritten' = FALSE
  /\ IF unwritten
     THEN /\ streak' = [c \in Clients |-> Loaded[c].failures]
          /\ due' = [c \in Clients |-> Loaded[c].until]
     ELSE UNCHANGED <<streak, due>>

\* The file cannot be read, or its directory cannot be made: the tracker
\* starts empty, and in the second case never writes.
BlankRestart ==
  /\ FreshProcess
  /\ usable' \in BOOLEAN
  /\ clients' = [c \in Clients |-> NoRecord]
  /\ unwritten' = TRUE
  /\ streak' = [c \in Clients |-> 0] /\ due' = [c \in Clients |-> 0]

Next ==
  \/ \E c \in Clients, e \in Endpoints :
       RateLimited(c, e) \/ Rejected(c, e) \/ Accepted(c, e)
  \/ Tick \/ Observe \/ Restart \/ BlankRestart

Spec == Init /\ [][Next]_vars

-----------------------------------------------------------------------------
(***************************************************************************)
(* Properties.                                                             *)
(***************************************************************************)

\* The tracker knows of each client how often it failed since it last
\* succeeded, and enforces the last lockout to its end: requests of other
\* clients, released lockouts, the two writes of one request and restarts in
\* between make no difference, as long as the last write took place and was
\* read.
HistoryKept ==
  \A c \in Clients :
    /\ clients[c].failures = streak[c]
    /\ due[c] > now => clients[c].until = due[c]

\* A client that is locked out is served by no endpoint, whatever its buckets
\* hold and whether its token has become the right one since.
NoServiceWhileLocked ==
  [][\A c \in Clients, e \in Endpoints :
       Rejected(c, e) \/ Accepted(c, e) => due[c] <= now]_vars

\* In any stretch of time in the life of a process no more requests pass a
\* bucket than its capacity and what was refilled since.
BurstBounded ==
  window.served <= Capacity[window.of[2]] + Rate[window.of[2]] * (now - window.since)

=============================================================================
