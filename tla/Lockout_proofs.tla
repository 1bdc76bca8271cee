---------------------------- MODULE Lockout_proofs ----------------------------
(***************************************************************************)
(* Proofs of the safety properties of Lockout, for every set of clients    *)
(* and endpoints, every schedule and every bucket.  The invariant has a    *)
(* part about the tracker and its file, and one about the buckets.         *)
(***************************************************************************)
EXTENDS Lockout, TLAPS

TrackerType ==
  /\ now \in 0..MaxTime /\ good \in SUBSET Clients
  /\ clients \in [Clients -> Record] /\ file \in [Clients -> Record]
  /\ usable \in BOOLEAN /\ unwritten \in BOOLEAN
  /\ streak \in [Clients -> 0..MaxFailures] /\ due \in [Clients -> Nat]

BucketType ==
  /\ buckets \in [Clients \X Endpoints -> Bucket]
  /\ window \in [of : Clients \X Endpoints, since : Nat, served : Nat]

\* What the file holds whenever nothing is waiting to be written again.
FileAgrees == ~unwritten => file = clients

TrackerInv == TrackerType /\ HistoryKept /\ FileAgrees

\* No bucket overflows or was refilled in the future, and what passed the
\* observed one plus what is left in it is covered by its capacity and refill.
BucketInv ==
  /\ BucketType
  /\ \A b \in Clients \X Endpoints :
       buckets[b].last <= now /\ buckets[b].tokens <= Capacity[b[2]]
  /\ window.since <= now
  /\ window.served + Refilled(window.of)
       <= Capacity[window.of[2]] + Rate[window.of[2]] * (now - window.since)

IInv == TrackerInv /\ BucketInv

-----------------------------------------------------------------------------
(* The schedule and the refill *)

\* A lockout is a number of seconds, zero below the first threshold.
LEMMA LockoutIsNat == ASSUME NEW n PROVE LockoutForFailures(n) \in Nat
<1>1. CASE \E t \in Thresholds : Applies(t, n)
  <2>1. (CHOOSE t \in Thresholds : Applies(t, n)) \in Thresholds
    BY <1>1
  <2>2. LockoutForFailures(n) = LockoutSeconds[CHOOSE t \in Thresholds : Applies(t, n)]
    BY <1>1 DEF LockoutForFailures
  <2> QED BY <2>1, <2>2, LockoutConstants
<1>2. CASE ~ \E t \in Thresholds : Applies(t, n)
  BY <1>2 DEF LockoutForFailures
<1> QED BY <1>1, <1>2

\* What a stretch of time adds to a bucket: nothing in no time, and a further
\* unit of time adds the rate.
LEMMA RefillSteps ==
  ASSUME NEW r \in Nat, NEW d \in Nat
  PROVE  r * d \in Nat /\ r * 0 = 0 /\ r * (d + 1) = r * d + r
BY SMT

\* The tokens found are at most the capacity.
LEMMA RefilledIsBounded ==
  ASSUME BucketInv, now \in Nat, NEW b \in Clients \X Endpoints
  PROVE  /\ Refilled(b) \in Nat /\ Refilled(b) <= Capacity[b[2]]
         /\ Capacity[b[2]] \in Nat /\ Rate[b[2]] \in Nat
<1>1. b[2] \in Endpoints /\ Capacity[b[2]] \in Nat /\ Rate[b[2]] \in Nat
  BY LockoutConstants
<1>2. buckets[b] \in Bucket /\ buckets[b].last <= now
  BY DEF BucketInv, BucketType
<1>3. now - buckets[b].last \in Nat
  BY <1>2 DEF Bucket
<1>4. Rate[b[2]] * (now - buckets[b].last) \in Nat
  BY <1>1, <1>3, RefillSteps
<1> QED BY <1>1, <1>2, <1>4 DEF Refilled, Smaller, Bucket

-----------------------------------------------------------------------------
(* The tracker *)

\* After a save the file holds the new state, or the flag says it does not.
LEMMA SaveKeepsFile ==
  ASSUME TrackerInv, NEW c \in Clients, NEW state \in [Clients -> Record],
         Released(c) \in [Clients -> Record],
         Save(c, state), clients' = state
  PROVE  /\ file' \in [Clients -> Record] /\ unwritten' \in BOOLEAN
         /\ FileAgrees'
<1>1. PICK first \in Outcomes, last \in Outcomes :
        LET earlier == IF first THEN Released(c) ELSE file
        IN  IF state = clients THEN UNCHANGED <<file, unwritten>>
            ELSE /\ file' = (IF last THEN state
                             ELSE IF state # Released(c) /\ clients[c].until # 0 THEN earlier
                             ELSE file)
                 /\ unwritten' = ~last
  BY DEF Save
<1>2. Outcomes \subseteq BOOLEAN
  BY DEF Outcomes
<1>3. CASE state = clients
  BY <1>1, <1>3 DEF TrackerInv, TrackerType, FileAgrees
<1>4. CASE state # clients
  BY <1>1, <1>2, <1>4 DEF TrackerInv, TrackerType, FileAgrees
<1> QED BY <1>3, <1>4

LEMMA ReleasedIsRecord ==
  ASSUME TrackerType, NEW c \in Clients
  PROVE  Released(c) \in [Clients -> Record]
BY DEF TrackerType, Released, Record

LEMMA RateLimitedKeepsTracker ==
  ASSUME TrackerInv, NEW c \in Clients, NEW e \in Endpoints, RateLimited(c, e)
  PROVE  TrackerInv'
<1>1. Released(c) \in [Clients -> Record]
  BY ReleasedIsRecord DEF TrackerInv
<1>2. file' \in [Clients -> Record] /\ unwritten' \in BOOLEAN /\ FileAgrees'
  BY <1>1, SaveKeepsFile DEF RateLimited
<1>3. TrackerType'
  BY <1>1, <1>2 DEF RateLimited, TrackerInv, TrackerType
<1>4. ASSUME NEW d \in Clients
      PROVE  /\ clients'[d].failures = streak'[d]
             /\ due'[d] > now' => clients'[d].until = due'[d]
  <2>1. CASE d = c
    <3>1. ~ (due[c] > now)
      BY DEF RateLimited, Locked, TrackerInv, TrackerType, HistoryKept, Record
    <3>2. clients'[c].failures = clients[c].failures
      BY DEF RateLimited, Released, TrackerInv, TrackerType, Record
    <3> QED BY <2>1, <3>1, <3>2 DEF RateLimited, TrackerInv, HistoryKept
  <2>2. CASE d # c
    BY <2>2 DEF RateLimited, Released, TrackerInv, TrackerType, HistoryKept
  <2> QED BY <2>1, <2>2
<1> QED BY <1>2, <1>3, <1>4 DEF TrackerInv, HistoryKept

LEMMA RejectedKeepsTracker ==
  ASSUME TrackerInv, NEW c \in Clients, NEW e \in Endpoints, Rejected(c, e)
  PROVE  TrackerInv'
<1> DEFINE d == LockoutForFailures(streak[c] + 1)
<1>1. d \in Nat
  BY LockoutIsNat
<1>2. clients[c].failures = streak[c] /\ streak[c] + 1 \in 0..MaxFailures
  BY LockoutConstants DEF Rejected, TrackerInv, TrackerType, HistoryKept
<1>3. clients' = [clients EXCEPT ![c] =
                    [failures |-> streak[c] + 1, until |-> IF d > 0 THEN now + d ELSE 0]]
  BY <1>2 DEF Rejected, Failed
<1>4. due' = [due EXCEPT ![c] = IF d > 0 THEN now + d ELSE 0]
  BY DEF Rejected
<1> HIDE DEF d
<1>5. now \in Nat /\ (IF d > 0 THEN now + d ELSE 0) \in Nat
  BY <1>1, LockoutConstants DEF TrackerInv, TrackerType
<1>6. Released(c) \in [Clients -> Record] /\ clients' \in [Clients -> Record]
  BY <1>2, <1>3, <1>5, ReleasedIsRecord DEF TrackerInv, TrackerType, Record
<1>7. file' \in [Clients -> Record] /\ unwritten' \in BOOLEAN /\ FileAgrees'
  BY <1>6, SaveKeepsFile DEF Rejected
<1>8. TrackerType'
  BY <1>2, <1>4, <1>5, <1>6, <1>7 DEF Rejected, TrackerInv, TrackerType
<1>9. ASSUME NEW k \in Clients
      PROVE  /\ clients'[k].failures = streak'[k]
             /\ due'[k] > now' => clients'[k].until = due'[k]
  <2>1. CASE k = c
    BY <1>3, <1>4, <2>1 DEF Rejected, TrackerInv, TrackerType
  <2>2. CASE k # c
    BY <1>3, <1>4, <2>2 DEF Rejected, TrackerInv, TrackerType, HistoryKept
  <2> QED BY <2>1, <2>2
<1> QED BY <1>7, <1>8, <1>9 DEF TrackerInv, HistoryKept

LEMMA AcceptedKeepsTracker ==
  ASSUME TrackerInv, NEW c \in Clients, NEW e \in Endpoints, Accepted(c, e)
  PROVE  TrackerInv'
<1>1. NoRecord \in Record
  BY LockoutConstants DEF NoRecord, Record
<1>2. Released(c) \in [Clients -> Record] /\ Pardoned(c) \in [Clients -> Record]
  BY <1>1, ReleasedIsRecord DEF TrackerInv, TrackerType, Pardoned
<1>3. file' \in [Clients -> Record] /\ unwritten' \in BOOLEAN /\ FileAgrees'
  BY <1>2, SaveKeepsFile DEF Accepted
<1>4. TrackerType'
  <2>1. 0 \in 0..MaxFailures /\ 0 \in Nat
    BY LockoutConstants
  <2>2. /\ streak' \in [Clients -> 0..MaxFailures] /\ due' \in [Clients -> Nat]
    BY <2>1 DEF Accepted, TrackerInv, TrackerType
  <2> QED BY <1>2, <1>3, <2>2 DEF Accepted, TrackerInv, TrackerType
<1>5. HistoryKept'
  BY LockoutConstants DEF Accepted, Pardoned, NoRecord, TrackerInv, TrackerType, HistoryKept
<1> QED BY <1>3, <1>4, <1>5 DEF TrackerInv

LEMMA RestartKeepsTracker ==
  ASSUME TrackerInv, Restart
  PROVE  TrackerInv'
<1>1. TrackerType'
  BY DEF Restart, FreshProcess, Loaded, TrackerInv, TrackerType, Record
<1>2. FileAgrees'
  BY DEF Restart, FreshProcess, Loaded, FileAgrees
<1>3. HistoryKept'
  <2>1. CASE unwritten
    BY <2>1 DEF Restart, FreshProcess, Loaded, TrackerInv, TrackerType, HistoryKept, Record
  <2>2. CASE ~unwritten
    BY <2>2 DEF Restart, FreshProcess, Loaded, TrackerInv, FileAgrees, HistoryKept
  <2> QED BY <2>1, <2>2
<1> QED BY <1>1, <1>2, <1>3 DEF TrackerInv

LEMMA BlankRestartKeepsTracker ==
  ASSUME TrackerInv, BlankRestart
  PROVE  TrackerInv'
<1>1. TrackerType'
  BY LockoutConstants DEF BlankRestart, FreshProcess, NoRecord, TrackerInv, TrackerType, Record
<1>2. HistoryKept' /\ FileAgrees'
  BY LockoutConstants DEF BlankRestart, FreshProcess, NoRecord, HistoryKept, FileAgrees,
       TrackerInv, TrackerType
<1> QED BY <1>1, <1>2 DEF TrackerInv

LEMMA TimeKeepsTracker ==
  ASSUME TrackerInv, Tick \/ Observe \/ UNCHANGED vars
  PROVE  TrackerInv'
BY LockoutConstants DEF Tick, Observe, vars, tracker, history, TrackerInv, TrackerType,
     HistoryKept, FileAgrees

-----------------------------------------------------------------------------
(* The buckets *)

\* What is found in a bucket that is written at this instant.
LEMMA WrittenBucket ==
  ASSUME BucketInv, now \in Nat, NEW b \in Clients \X Endpoints,
         NEW n \in Nat, n <= Capacity[b[2]],
         buckets' = [buckets EXCEPT ![b] = [tokens |-> n, last |-> now]], now' = now
  PROVE  /\ buckets' \in [Clients \X Endpoints -> Bucket]
         /\ \A a \in Clients \X Endpoints :
              buckets'[a].last <= now' /\ buckets'[a].tokens <= Capacity[a[2]]
         /\ Refilled(b)' = n
         /\ \A a \in Clients \X Endpoints : a # b => Refilled(a)' = Refilled(a)
<1>1. [tokens |-> n, last |-> now] \in Bucket
  BY DEF Bucket
<1>2. buckets' \in [Clients \X Endpoints -> Bucket]
  BY <1>1 DEF BucketInv, BucketType
<1>3. buckets'[b] = [tokens |-> n, last |-> now]
  BY DEF BucketInv, BucketType
<1>4. \A a \in Clients \X Endpoints : a # b => buckets'[a] = buckets[a]
  BY DEF BucketInv, BucketType
<1>5. ASSUME NEW a \in Clients \X Endpoints
      PROVE  buckets'[a].last <= now' /\ buckets'[a].tokens <= Capacity[a[2]]
  BY <1>3, <1>4 DEF BucketInv
<1>6. Refilled(b)' = n
  <2>1. Capacity[b[2]] \in Nat /\ Rate[b[2]] \in Nat
    BY LockoutConstants
  <2>2. Rate[b[2]] * (now - now) = 0
    BY <2>1, RefillSteps
  <2>3. Refilled(b)' = Smaller(Capacity[b[2]], n + Rate[b[2]] * (now - now))
    BY <1>3 DEF Refilled
  <2> QED BY <2>1, <2>2, <2>3 DEF Smaller
<1>7. ASSUME NEW a \in Clients \X Endpoints, a # b PROVE Refilled(a)' = Refilled(a)
  BY <1>4, <1>7 DEF Refilled
<1> QED BY <1>2, <1>5, <1>6, <1>7

LEMMA RateLimitedKeepsBuckets ==
  ASSUME BucketInv, now \in Nat, NEW c \in Clients, NEW e \in Endpoints,
         RateLimited(c, e)
  PROVE  BucketInv'
<1> DEFINE b == <<c, e>>
<1>1. b \in Clients \X Endpoints /\ Capacity[b[2]] \in Nat
  BY LockoutConstants
<1>2. /\ buckets' = [buckets EXCEPT ![b] = [tokens |-> 0, last |-> now]]
      /\ now' = now /\ window' = window /\ Refilled(b) = 0
  BY DEF RateLimited
<1> HIDE DEF b
<1>3. /\ buckets' \in [Clients \X Endpoints -> Bucket]
      /\ \A a \in Clients \X Endpoints :
           buckets'[a].last <= now' /\ buckets'[a].tokens <= Capacity[a[2]]
      /\ \A a \in Clients \X Endpoints : Refilled(a)' = Refilled(a)
  <2>1. 0 \in Nat /\ 0 <= Capacity[b[2]]
    BY <1>1
  <2>2. /\ buckets' \in [Clients \X Endpoints -> Bucket]
        /\ \A a \in Clients \X Endpoints :
             buckets'[a].last <= now' /\ buckets'[a].tokens <= Capacity[a[2]]
        /\ Refilled(b)' = 0
        /\ \A a \in Clients \X Endpoints : a # b => Refilled(a)' = Refilled(a)
    BY <1>1, <1>2, <2>1, WrittenBucket
  <2>3. ASSUME NEW a \in Clients \X Endpoints PROVE Refilled(a)' = Refilled(a)
    <3>1. CASE a = b
      BY <1>2, <2>2, <3>1
    <3>2. CASE a # b
      BY <2>2, <3>2
    <3> QED BY <3>1, <3>2
  <2> QED BY <2>2, <2>3
<1>4. window.of \in Clients \X Endpoints
  BY DEF BucketInv, BucketType
<1>5. Refilled(window.of)' = Refilled(window.of)
  BY <1>2, <1>3, <1>4 DEF Refilled
<1> QED BY <1>2, <1>3, <1>5 DEF BucketInv, BucketType

LEMMA PassesKeepsBuckets ==
  ASSUME BucketInv, now \in Nat, NEW c \in Clients, NEW e \in Endpoints,
         Passes(c, e), now' = now
  PROVE  BucketInv'
<1> DEFINE b == <<c, e>>
<1>1. b \in Clients \X Endpoints
  OBVIOUS
<1>2. /\ Refilled(b) > 0
      /\ buckets' = [buckets EXCEPT ![b] = [tokens |-> Refilled(b) - 1, last |-> now]]
      /\ window' = IF window.of = b THEN [window EXCEPT !.served = @ + 1] ELSE window
  BY DEF Passes
<1> HIDE DEF b
<1>3. /\ Refilled(b) \in Nat /\ Refilled(b) <= Capacity[b[2]]
      /\ Capacity[b[2]] \in Nat
  BY <1>1, RefilledIsBounded
<1>4. Refilled(b) - 1 \in Nat /\ Refilled(b) - 1 <= Capacity[b[2]]
  BY <1>2, <1>3
<1>5. /\ buckets' \in [Clients \X Endpoints -> Bucket]
      /\ \A a \in Clients \X Endpoints :
           buckets'[a].last <= now' /\ buckets'[a].tokens <= Capacity[a[2]]
      /\ Refilled(b)' = Refilled(b) - 1
      /\ \A a \in Clients \X Endpoints : a # b => Refilled(a)' = Refilled(a)
  BY <1>1, <1>2, <1>4, WrittenBucket
<1>6. window \in [of : Clients \X Endpoints, since : Nat, served : Nat]
  BY DEF BucketInv, BucketType
<1>7. /\ window' \in [of : Clients \X Endpoints, since : Nat, served : Nat]
      /\ window'.of = window.of /\ window'.since = window.since
  BY <1>2, <1>6
<1>8. window'.served + Refilled(window.of)'
        = window.served + Refilled(window.of)
  <2>1. CASE window.of = b
    <3>1. window'.served = window.served + 1
      BY <1>2, <1>6, <2>1
    <3>2. Refilled(window.of)' = Refilled(b) - 1
      BY <1>5, <1>7, <2>1 DEF Refilled
    <3> QED BY <1>3, <1>6, <2>1, <3>1, <3>2
  <2>2. CASE window.of # b
    <3>1. window' = window
      BY <1>2, <2>2
    <3>2. Refilled(window.of)' = Refilled(window.of)
      BY <1>5, <1>6, <2>2, <3>1 DEF Refilled
    <3> QED BY <3>1, <3>2
  <2> QED BY <2>1, <2>2
<1> QED BY <1>5, <1>7, <1>8 DEF BucketInv, BucketType

LEMMA TickKeepsBuckets ==
  ASSUME BucketInv, now \in Nat, Tick
  PROVE  BucketInv'
<1> DEFINE b == window.of
<1>1. now' = now + 1 /\ buckets' = buckets /\ window' = window
  BY DEF Tick
<1>2. b \in Clients \X Endpoints /\ window.since \in Nat /\ window.served \in Nat
      /\ window.since <= now /\ buckets[b] \in Bucket /\ buckets[b].last <= now
  BY DEF BucketInv, BucketType
<1>3. Capacity[b[2]] \in Nat /\ Rate[b[2]] \in Nat
  BY <1>2, LockoutConstants
<1>4. /\ now - buckets[b].last \in Nat /\ now - window.since \in Nat
      /\ (now + 1) - buckets[b].last = (now - buckets[b].last) + 1
      /\ (now + 1) - window.since = (now - window.since) + 1
  BY <1>2 DEF Bucket
<1>5. /\ Rate[b[2]] * ((now + 1) - buckets[b].last)
           = Rate[b[2]] * (now - buckets[b].last) + Rate[b[2]]
      /\ Rate[b[2]] * ((now + 1) - window.since)
           = Rate[b[2]] * (now - window.since) + Rate[b[2]]
      /\ Rate[b[2]] * (now - buckets[b].last) \in Nat
      /\ Rate[b[2]] * (now - window.since) \in Nat
  BY <1>3, <1>4, RefillSteps
<1>6. Refilled(b)' <= Refilled(b) + Rate[b[2]]
  <2>1. Refilled(b)' = Smaller(Capacity[b[2]],
          buckets[b].tokens + Rate[b[2]] * ((now + 1) - buckets[b].last))
    BY <1>1 DEF Refilled
  <2> QED BY <1>2, <1>3, <1>5, <2>1 DEF Refilled, Smaller, Bucket
<1>7. Refilled(b) \in Nat /\ Refilled(b)' \in Nat
  <2>1. Refilled(b)' = Smaller(Capacity[b[2]],
          buckets[b].tokens + Rate[b[2]] * ((now + 1) - buckets[b].last))
    BY <1>1 DEF Refilled
  <2> QED BY <1>2, <1>3, <1>5, <2>1 DEF Refilled, Smaller, Bucket
<1>8. window.served + Refilled(b)
        <= Capacity[b[2]] + Rate[b[2]] * (now - window.since)
  BY DEF BucketInv
<1>9. window'.served + Refilled(window.of)'
        <= Capacity[window'.of[2]] + Rate[window'.of[2]] * (now' - window'.since)
  BY <1>1, <1>2, <1>3, <1>5, <1>6, <1>7, <1>8
<1> QED BY <1>1, <1>2, <1>9 DEF BucketInv, BucketType, Bucket

LEMMA ObserveKeepsBuckets ==
  ASSUME BucketInv, now \in Nat, Observe
  PROVE  BucketInv'
<1> DEFINE b == window.of
<1>1. /\ now' = now /\ buckets' = buckets
      /\ window' = [of |-> b, since |-> now, served |-> 0]
  BY DEF Observe
<1>2. b \in Clients \X Endpoints
  BY DEF BucketInv, BucketType
<1>3. /\ Refilled(b) \in Nat /\ Refilled(b) <= Capacity[b[2]]
      /\ Capacity[b[2]] \in Nat /\ Rate[b[2]] \in Nat
  BY <1>2, RefilledIsBounded
<1>4. Refilled(window.of)' = Refilled(b)
  BY <1>1 DEF Refilled
<1>5. Rate[b[2]] * (now - now) = 0
  BY <1>3, RefillSteps
<1>6. window'.served + Refilled(window.of)'
        <= Capacity[window'.of[2]] + Rate[window'.of[2]] * (now' - window'.since)
  BY <1>1, <1>3, <1>4, <1>5
<1> QED BY <1>1, <1>2, <1>6 DEF BucketInv, BucketType

\* The buckets of a new process, and of the initial state, are full.
LEMMA FullBuckets ==
  ASSUME now \in Nat, NEW b \in Clients \X Endpoints,
         buckets = [a \in Clients \X Endpoints |-> Full(a[2])],
         window = [of |-> b, since |-> now, served |-> 0]
  PROVE  BucketInv
<1>1. \A a \in Clients \X Endpoints : Capacity[a[2]] \in Nat /\ Rate[a[2]] \in Nat
  BY LockoutConstants
<1>2. buckets \in [Clients \X Endpoints -> Bucket]
  BY <1>1 DEF Full, Bucket
<1>3. \A a \in Clients \X Endpoints :
        buckets[a].last <= now /\ buckets[a].tokens <= Capacity[a[2]]
  BY <1>1 DEF Full
<1>4. Rate[b[2]] * (now - now) = 0
  BY <1>1, RefillSteps
<1>5. Refilled(b) = Capacity[b[2]]
  BY <1>1, <1>4 DEF Refilled, Smaller, Full
<1> QED BY <1>1, <1>2, <1>3, <1>4, <1>5 DEF BucketInv, BucketType

LEMMA FreshProcessKeepsBuckets ==
  ASSUME BucketInv, now \in Nat, FreshProcess
  PROVE  BucketInv'
<1> DEFINE b == window.of
<1>1. /\ now' = now /\ window' = [of |-> b, since |-> now, served |-> 0]
      /\ buckets' = [a \in Clients \X Endpoints |-> Full(a[2])]
  BY DEF FreshProcess
<1>2. b \in Clients \X Endpoints
  BY DEF BucketInv, BucketType
<1>3. \A a \in Clients \X Endpoints : Capacity[a[2]] \in Nat /\ Rate[a[2]] \in Nat
  BY LockoutConstants
<1>4. buckets' \in [Clients \X Endpoints -> Bucket]
  BY <1>1, <1>3 DEF Full, Bucket
<1>5. \A a \in Clients \X Endpoints :
        buckets'[a].last <= now' /\ buckets'[a].tokens <= Capacity[a[2]]
  BY <1>1, <1>3 DEF Full
<1>6. Rate[b[2]] * (now - now) = 0
  BY <1>2, <1>3, RefillSteps
<1>7. Refilled(window.of)' = Capacity[b[2]]
  BY <1>1, <1>2, <1>3, <1>6 DEF Refilled, Smaller, Full
<1>8. window'.served + Refilled(window.of)'
        <= Capacity[window'.of[2]] + Rate[window'.of[2]] * (now' - window'.since)
  BY <1>1, <1>2, <1>3, <1>6, <1>7
<1> QED BY <1>1, <1>2, <1>4, <1>5, <1>8 DEF BucketInv, BucketType

-----------------------------------------------------------------------------
(* The theorems *)

LEMMA InitImpliesIInv == Init => IInv
<1> SUFFICES ASSUME Init PROVE IInv
  OBVIOUS
<1>1. now = 0 /\ now \in 0..MaxTime /\ 0 \in 0..MaxFailures /\ NoRecord \in Record
  BY LockoutConstants DEF Init, NoRecord, Record
<1>2. TrackerInv
  BY <1>1 DEF Init, TrackerInv, TrackerType, HistoryKept, FileAgrees, NoRecord
<1>3. window.of \in Clients \X Endpoints
      /\ window = [of |-> window.of, since |-> now, served |-> 0]
  BY <1>1 DEF Init
<1>4. BucketInv
  BY <1>1, <1>3, FullBuckets DEF Init
<1> QED BY <1>2, <1>4 DEF IInv

LEMMA NextKeepsIInv == IInv /\ [Next]_vars => IInv'
<1> SUFFICES ASSUME IInv, [Next]_vars PROVE IInv'
  OBVIOUS
<1>0. TrackerInv /\ BucketInv /\ now \in Nat
  BY LockoutConstants DEF IInv, TrackerInv, TrackerType
<1>1. ASSUME NEW c \in Clients, NEW e \in Endpoints, RateLimited(c, e) PROVE IInv'
  BY <1>0, <1>1, RateLimitedKeepsTracker, RateLimitedKeepsBuckets DEF IInv
<1>2. ASSUME NEW c \in Clients, NEW e \in Endpoints, Rejected(c, e) PROVE IInv'
  <2>1. TrackerInv'
    BY <1>0, <1>2, RejectedKeepsTracker
  <2>2. Passes(c, e) /\ now' = now
    BY <1>2 DEF Rejected
  <2> QED BY <1>0, <2>1, <2>2, PassesKeepsBuckets DEF IInv
<1>3. ASSUME NEW c \in Clients, NEW e \in Endpoints, Accepted(c, e) PROVE IInv'
  <2>1. TrackerInv'
    BY <1>0, <1>3, AcceptedKeepsTracker
  <2>2. Passes(c, e) /\ now' = now
    BY <1>3 DEF Accepted
  <2> QED BY <1>0, <2>1, <2>2, PassesKeepsBuckets DEF IInv
<1>4. CASE Tick
  BY <1>0, <1>4, TimeKeepsTracker, TickKeepsBuckets DEF IInv
<1>5. CASE Observe
  BY <1>0, <1>5, TimeKeepsTracker, ObserveKeepsBuckets DEF IInv
<1>6. CASE Restart
  BY <1>0, <1>6, RestartKeepsTracker, FreshProcessKeepsBuckets DEF Restart, IInv
<1>7. CASE BlankRestart
  BY <1>0, <1>7, BlankRestartKeepsTracker, FreshProcessKeepsBuckets DEF BlankRestart, IInv
<1>8. CASE UNCHANGED vars
  <2>1. TrackerInv'
    BY <1>0, <1>8, TimeKeepsTracker
  <2>2. BucketInv'
    BY <1>0, <1>8 DEF vars, BucketInv, BucketType, Refilled
  <2> QED BY <2>1, <2>2 DEF IInv
<1> QED BY <1>1, <1>2, <1>3, <1>4, <1>5, <1>6, <1>7, <1>8 DEF Next

\* The inductive invariant holds throughout.
THEOREM Invariance == Spec => []IInv
BY InitImpliesIInv, NextKeepsIInv, PTL DEF Spec

\* The variables keep their types.
THEOREM TypeCorrect == Spec => []TypeOK
<1>1. IInv => TypeOK
  BY DEF IInv, TrackerInv, TrackerType, BucketInv, BucketType, TypeOK
<1> QED BY <1>1, Invariance, PTL

\* Failures and lockouts are remembered, across restarts too, unless a write
\* was lost (rate_limit.py, LockoutTracker).
THEOREM HistoryIsKept == Spec => []HistoryKept
<1>1. IInv => HistoryKept
  BY DEF IInv, TrackerInv
<1> QED BY <1>1, Invariance, PTL

\* No request of a locked client is served (RateLimiter.check).
THEOREM LockedIsNotServed == Spec => NoServiceWhileLocked
<1>1. IInv /\ [Next]_vars
        => [\A c \in Clients, e \in Endpoints :
              Rejected(c, e) \/ Accepted(c, e) => due[c] <= now]_vars
  BY LockoutConstants DEF IInv, TrackerInv, TrackerType, HistoryKept, Record,
       Rejected, Accepted, Passes, Locked
<1> QED BY <1>1, Invariance, PTL DEF Spec, NoServiceWhileLocked

\* A bucket never lets through more than its burst and its rate allow, over
\* any stretch of time (TokenBucket.consume).
THEOREM BurstsAreBounded == Spec => []BurstBounded
<1>1. IInv => BurstBounded
  <2> SUFFICES ASSUME IInv PROVE BurstBounded
    OBVIOUS
  <2>1. BucketInv /\ now \in Nat
    BY LockoutConstants DEF IInv, TrackerInv, TrackerType
  <2>2. window.of \in Clients \X Endpoints /\ window.served \in Nat
        /\ window.since \in Nat /\ window.since <= now
    BY <2>1 DEF BucketInv, BucketType
  <2>3. Refilled(window.of) \in Nat /\ Capacity[window.of[2]] \in Nat
        /\ Rate[window.of[2]] \in Nat
    BY <2>1, <2>2, RefilledIsBounded
  <2>4. now - window.since \in Nat
    BY <2>1, <2>2
  <2>5. Rate[window.of[2]] * (now - window.since) \in Nat
    BY <2>3, <2>4, RefillSteps
  <2> QED BY <2>1, <2>2, <2>3, <2>5 DEF BucketInv, BurstBounded
<1> QED BY <1>1, Invariance, PTL

=============================================================================
