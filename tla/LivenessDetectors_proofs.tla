------------------------ MODULE LivenessDetectors_proofs ------------------------
(***************************************************************************)
(* Proofs about LivenessDetectors, for every set of sessions, every limit  *)
(* and every list length.  The inductive invariant adds to the type what   *)
(* the blink detector knows of the film, and that no head-turn challenge   *)
(* is passed, which is so until the defect CompletedTurnPasses shows is    *)
(* repaired.                                                               *)
(***************************************************************************)
EXTENDS LivenessDetectors, TLAPS

\* The last blink.closed frames of the film show closed eyes; since counts
\* no frame that is not on it.
FilmOK ==
  /\ blink.closed <= Len(film) /\ blink.since <= Len(film)
  /\ \A k \in (Len(film) - blink.closed + 1)..Len(film) : film[k] = "closed"
  /\ blink.wasClosed => blink.closed >= EarConsecFrames

\* A round without a passed turn, and its verdict.
RoundOK(x) ==
  /\ x.verdict # "passed"
  /\ \A i \in DOMAIN x.types : x.types[i] # "blink" => x.status[i] # "passed"

IInv == TypeOK /\ FilmOK /\ \A s \in live : RoundOK(session[s])

\* generate_challenges: a list has its first two places, and one of them is
\* a head turn.
LEMMA ListHasTurn ==
  ASSUME NEW list \in ChallengeLists
  PROVE  /\ list \in [DOMAIN list -> ChallengeType]
         /\ \E n \in 2..3 : DOMAIN list = 1..n
         /\ list[1] # "blink" \/ list[2] # "blink"
<1>1. PICK n \in MinChallenges..MaxChallenges : list \in [1..n -> ChallengeType]
  BY DEF ChallengeLists
<1>2. n \in 2..3 /\ DOMAIN list = 1..n
  BY <1>1, LivenessConstants
<1>3. list[1] # list[2]
  BY <1>2 DEF ChallengeLists
<1>. QED
  BY <1>1, <1>2, <1>3

\* create_session: a new round is well-formed and has no passed challenge.
LEMMA NewRoundOK ==
  ASSUME NEW list \in ChallengeLists
  PROVE  /\ NewRound(list) \in Round /\ RoundOK(NewRound(list))
         /\ NewRound(list).active \in DOMAIN NewRound(list).types
<1>1. \E n \in 2..3 : DOMAIN list = 1..n
  BY ListHasTurn
<1>. QED
  BY <1>1, LivenessConstants DEF NewRound, Round, RoundOK

\* auth_frame: counting a frame changes nothing else of a round.
LEMMA CountedOK ==
  ASSUME NEW x \in Round, RoundOK(x), x.active \in DOMAIN x.types,
         x.frames < MaxFrames
  PROVE  /\ Counted(x) \in Round /\ RoundOK(Counted(x))
         /\ Counted(x).active = x.active /\ Counted(x).types = x.types
         /\ Counted(x).status = x.status /\ Counted(x).expired = x.expired
BY LivenessConstants DEF Counted, Round, RoundOK

\* auth_frame and evaluate_session_result: ending the active challenge keeps
\* the round well-formed; the verdict is "failed" unless a turn was passed.
LEMMA CompletedOK ==
  ASSUME NEW x \in Round, RoundOK(x), x.active \in DOMAIN x.types,
         NEW outcome \in {"passed", "failed"},
         outcome = "passed" => ActiveType(x) = "blink"
  PROVE  /\ Completed(x, outcome) \in Round /\ RoundOK(Completed(x, outcome))
         /\ Completed(x, outcome).active \in DOMAIN Completed(x, outcome).types
         /\ \A i \in 1..3 : i # x.active => Completed(x, outcome).status[i] = x.status[i]
<1>. DEFINE y == [x EXCEPT !.status[x.active] = outcome]
<1>1. /\ x.types \in ChallengeLists /\ x.active \in 1..3
      /\ x.status \in [1..3 -> {"pending", "passed", "failed"}]
  BY DEF Round
<1>2. PICK n \in 2..3 : DOMAIN x.types = 1..n
  BY <1>1, ListHasTurn
<1>3. y \in Round /\ y.types = x.types /\ y.active = x.active /\ y.verdict = x.verdict
  BY <1>1 DEF Round
<1>4. \A i \in 1..3 : y.status[i] = IF i = x.active THEN outcome ELSE x.status[i]
  BY <1>1 DEF Round
<1>5. \A i \in DOMAIN x.types : x.types[i] # "blink" => y.status[i] # "passed"
  BY <1>2, <1>4 DEF RoundOK, ActiveType
<1>6. ~ \A i \in DOMAIN x.types : y.status[i] = "passed"
  BY <1>1, <1>2, <1>5, ListHasTurn
<1>7. CASE HasNext(x)
  <2>1. Completed(x, outcome) = [y EXCEPT !.active = @ + 1]
    BY <1>7 DEF Completed
  <2>2. x.active + 1 \in DOMAIN x.types /\ x.active + 1 \in 1..3
    BY <1>1, <1>2, <1>7 DEF HasNext
  <2>3. /\ Completed(x, outcome) \in Round
        /\ Completed(x, outcome).active = x.active + 1
        /\ Completed(x, outcome).types = x.types
        /\ Completed(x, outcome).status = y.status
        /\ Completed(x, outcome).verdict = x.verdict
    BY <2>1, <2>2, <1>3 DEF Round
  <2>. QED
    BY <2>2, <2>3, <1>4, <1>5 DEF RoundOK
<1>8. CASE ~HasNext(x)
  <2>1. Completed(x, outcome) = [y EXCEPT !.verdict = "failed"]
    BY <1>8, <1>6 DEF Completed
  <2>2. /\ Completed(x, outcome) \in Round
        /\ Completed(x, outcome).active = x.active
        /\ Completed(x, outcome).types = x.types
        /\ Completed(x, outcome).status = y.status
        /\ Completed(x, outcome).verdict = "failed"
    BY <2>1, <1>3 DEF Round
  <2>. QED
    BY <2>2, <1>4, <1>5 DEF RoundOK
<1>. QED
  BY <1>7, <1>8

\* blink.py, update: a new frame keeps the detector true to the film.
LEMMA UpdateBlinkOK ==
  ASSUME TypeOK, FilmOK, NEW eyes \in {"open", "closed"},
         blink' = UpdateBlink(eyes), film' = Append(film, eyes)
  PROVE  /\ FilmOK'
         /\ blink' \in [closed: Nat, since: Nat, wasClosed: BOOLEAN]
         /\ film' \in Seq({"open", "closed"})
<1>1. /\ blink \in [closed: Nat, since: Nat, wasClosed: BOOLEAN]
      /\ film \in Seq({"open", "closed"})
  BY DEF TypeOK
<1>2. /\ film' \in Seq({"open", "closed"}) /\ Len(film') = Len(film) + 1
      /\ film'[Len(film) + 1] = eyes
      /\ \A k \in 1..Len(film) : film'[k] = film[k]
  BY <1>1
<1>3. /\ blink'.closed = Closed(eyes)
      /\ blink'.since \in {0, blink.since + 1}
      /\ blink'.wasClosed = (Closed(eyes) >= EarConsecFrames)
      /\ Closed(eyes) = IF eyes = "closed" THEN blink.closed + 1 ELSE 0
      /\ blink' \in [closed: Nat, since: Nat, wasClosed: BOOLEAN]
  BY <1>1, LivenessConstants DEF UpdateBlink, Closed
<1>4. blink.closed \in Nat /\ blink.since \in Nat /\ Len(film) \in Nat
  BY <1>1
<1>5. blink'.closed <= Len(film') /\ blink'.since <= Len(film')
  BY <1>2, <1>3, <1>4 DEF FilmOK
<1>6. ASSUME NEW k \in (Len(film') - blink'.closed + 1)..Len(film')
      PROVE  film'[k] = "closed"
  <2>1. eyes = "closed"
    BY <1>2, <1>3, <1>4
  <2>2. CASE k = Len(film) + 1
    BY <2>1, <2>2, <1>2
  <2>3. CASE k # Len(film) + 1
    <3>1. blink'.closed = blink.closed + 1 /\ Len(film') = Len(film) + 1
      BY <2>1, <1>2, <1>3
    <3>2. blink.closed <= Len(film)
      BY DEF FilmOK
    <3>3. k \in (Len(film) - blink.closed + 1)..Len(film) /\ k \in 1..Len(film)
      BY <3>1, <3>2, <2>3, <1>4
    <3>. QED
      BY <3>3, <1>2 DEF FilmOK
  <2>. QED
    BY <2>2, <2>3
<1>7. blink'.wasClosed => blink'.closed >= EarConsecFrames
  BY <1>3
<1>8. FilmOK'
  BY <1>5, <1>6, <1>7 DEF FilmOK
<1>. QED
  BY <1>2, <1>3, <1>8

\* reset_detectors leaves an empty film and detectors that know nothing.
LEMMA ResetOK ==
  ASSUME ResetDetectors
  PROVE  /\ FilmOK'
         /\ blink' \in [closed: Nat, since: Nat, wasClosed: BOOLEAN]
         /\ pose' \in [turn: {"neutral", "left", "right"}, frames: Nat]
         /\ film' \in Seq({"open", "closed"})
BY LivenessConstants DEF ResetDetectors, FilmOK, FreshBlink, FreshPose

\* IInv is inductive: every request of every session keeps it.
THEOREM Inductive == Spec => []IInv
<1>1. Init => IInv
  BY LivenessConstants DEF Init, IInv, TypeOK, FilmOK, FreshBlink, FreshPose
<1>2. IInv /\ [Next]_vars => IInv'
  <2>. SUFFICES ASSUME IInv, [Next]_vars
                PROVE  IInv'
    OBVIOUS
  <2>1. ASSUME NEW s \in SessionId, Start(s)
        PROVE  IInv'
    <3>1. PICK list \in ChallengeLists :
            session' = [t \in live' |-> IF t = s THEN NewRound(list) ELSE session[t]]
      BY <2>1 DEF Start
    <3>2. live' = live \union {s} /\ ResetDetectors
      BY <2>1 DEF Start
    <3>3. /\ NewRound(list) \in Round /\ RoundOK(NewRound(list))
          /\ NewRound(list).active \in DOMAIN NewRound(list).types
      BY NewRoundOK
    <3>4. /\ session' \in [live' -> Round] /\ \A t \in live' : RoundOK(session'[t])
          /\ \A t \in live' : session'[t].active \in DOMAIN session'[t].types
      BY <3>1, <3>2, <3>3 DEF IInv, TypeOK
    <3>. QED
      BY <3>2, <3>4, ResetOK DEF IInv, TypeOK
  <2>2. ASSUME NEW s \in SessionId, Expire(s)
        PROVE  IInv'
    <3>1. s \in live /\ session[s] \in Round /\ RoundOK(session[s])
      BY <2>2 DEF Expire, IInv, TypeOK
    <3>. DEFINE x == [session[s] EXCEPT !.expired = TRUE]
    <3>2. /\ x \in Round /\ RoundOK(x)
          /\ x.active = session[s].active /\ x.types = session[s].types
      BY <3>1 DEF Round, RoundOK
    <3>3. session' = [session EXCEPT ![s] = x] /\ UNCHANGED <<live, blink, pose, film>>
      BY <2>2 DEF Expire
    <3>. HIDE DEF x
    <3>. QED
      BY <3>1, <3>2, <3>3 DEF IInv, TypeOK, FilmOK
  <2>3. ASSUME NEW s \in SessionId, Close(s)
        PROVE  IInv'
    BY <2>3 DEF Close, IInv, TypeOK, FilmOK
  <2>4. ASSUME NEW s \in SessionId, Fed(s)
        PROVE  /\ session[s] \in Round /\ RoundOK(session[s])
               /\ session[s].active \in DOMAIN session[s].types
               /\ Counted(session[s]) \in Round /\ RoundOK(Counted(session[s]))
               /\ Counted(session[s]).active = session[s].active
               /\ Counted(session[s]).types = session[s].types
    BY <2>4, CountedOK DEF Fed, IInv, TypeOK
  <2>5. ASSUME NEW s \in SessionId, FrameTooLate(s)
        PROVE  IInv'
    <3>1. /\ Completed(Counted(session[s]), "failed") \in Round
          /\ RoundOK(Completed(Counted(session[s]), "failed"))
          /\ Completed(Counted(session[s]), "failed").active
               \in DOMAIN Completed(Counted(session[s]), "failed").types
      BY <2>4, <2>5, CompletedOK DEF FrameTooLate
    <3>2. ResetDetectors \/ UNCHANGED <<blink, pose, film>>
      BY <2>5 DEF FrameTooLate
    <3>3. FilmOK' /\ blink' \in [closed: Nat, since: Nat, wasClosed: BOOLEAN]
          /\ pose' \in [turn: {"neutral", "left", "right"}, frames: Nat]
          /\ film' \in Seq({"open", "closed"})
      BY <3>2, ResetOK DEF IInv, TypeOK, FilmOK
    <3>. QED
      BY <2>5, <3>1, <3>3 DEF FrameTooLate, IInv, TypeOK
  <2>6. ASSUME NEW s \in SessionId, NEW eyes \in {"open", "closed"},
               FrameForBlink(s, eyes)
        PROVE  IInv'
    <3>1. /\ Completed(Counted(session[s]), "passed") \in Round
          /\ RoundOK(Completed(Counted(session[s]), "passed"))
          /\ Completed(Counted(session[s]), "passed").active
               \in DOMAIN Completed(Counted(session[s]), "passed").types
      BY <2>4, <2>6, CompletedOK DEF FrameForBlink, ActiveType
    <3>2. \/ ResetDetectors
          \/ blink' = UpdateBlink(eyes) /\ film' = Append(film, eyes) /\ UNCHANGED pose
      BY <2>6 DEF FrameForBlink
    <3>3. FilmOK' /\ blink' \in [closed: Nat, since: Nat, wasClosed: BOOLEAN]
          /\ pose' \in [turn: {"neutral", "left", "right"}, frames: Nat]
          /\ film' \in Seq({"open", "closed"})
      BY <3>2, ResetOK, UpdateBlinkOK DEF IInv, TypeOK
    <3>4. /\ live' = live
          /\ \/ session' = [session EXCEPT ![s] = Completed(Counted(session[s]), "passed")]
             \/ session' = [session EXCEPT ![s] = Counted(session[s])]
      BY <2>6 DEF FrameForBlink
    <3>. QED
      BY <2>4, <2>6, <3>1, <3>3, <3>4 DEF FrameForBlink, IInv, TypeOK
  <2>7. ASSUME NEW s \in SessionId, NEW direction \in {"left", "right", "neutral"},
               FrameForTurn(s, direction)
        PROVE  IInv'
    <3>1. Fed(s) /\ ActiveType(session[s]) # "blink" /\ live' = live
      BY <2>7 DEF FrameForTurn
    <3>2. ActiveType(session[s]) \in {"left", "right"}
      BY <2>4, <3>1, ListHasTurn DEF ActiveType, Round, ChallengeType
    <3>3. ~TurnPasses(ActiveType(session[s]), direction)
      BY <3>2 DEF TurnPasses, TurnDetected
    <3>4. /\ session' = [session EXCEPT ![s] = Counted(session[s])]
          /\ pose' = UpdatePose(direction) /\ UNCHANGED <<blink, film>>
      BY <2>7, <3>3 DEF FrameForTurn
    <3>5. pose' \in [turn: {"neutral", "left", "right"}, frames: Nat]
      BY <3>4 DEF UpdatePose, FreshPose, IInv, TypeOK
    <3>. QED
      BY <2>4, <3>1, <3>4, <3>5 DEF IInv, TypeOK, FilmOK
  <2>8. CASE UNCHANGED vars
    BY <2>8 DEF vars, IInv, TypeOK, FilmOK
  <2>. QED
    BY <2>1, <2>2, <2>3, <2>5, <2>6, <2>7, <2>8 DEF Next
<1>. QED
  BY <1>1, <1>2, PTL DEF Spec

\* TypeOK of module LivenessDetectors, in every reachable state.
THEOREM TypeCorrect == Spec => []TypeOK
<1>1. IInv => TypeOK
  BY DEF IInv
<1>. QED
  BY <1>1, Inductive, PTL

\* A consequence of what CompletedTurnPasses finds, and true only until that is
\* repaired: every list holds a head turn, so none is passed whole.  It is what
\* makes the primary lists, without step-up rounds, all there is to model.
LEMMA NoListPassed == Spec => [](\A s \in live : session[s].verdict # "passed")
<1>1. IInv => \A s \in live : session[s].verdict # "passed"
  BY DEF IInv, RoundOK
<1>. QED
  BY <1>1, Inductive, PTL

\* What BlinkPassesAsFilmed says of a step that passes a blink challenge.
OnFilm ==
  \A s \in live \intersect live', i \in 1..3 :
    session[s].status[i] # "passed" /\ session'[s].status[i] = "passed"
    /\ ActiveType(session[s]) = "blink"
      => Len(film) >= DebounceFrames /\ ClosedFor(EarConsecFrames)

\* A blink challenge passes only on film: frames from before a reset of the
\* shared detectors never count.
LEMMA BlinkFilmed == IInv /\ Next => OnFilm
<1>. SUFFICES ASSUME IInv, Next,
                     NEW s \in live \intersect live', NEW i \in 1..3,
                     session[s].status[i] # "passed",
                     session'[s].status[i] = "passed",
                     ActiveType(session[s]) = "blink"
              PROVE  Len(film) >= DebounceFrames /\ ClosedFor(EarConsecFrames)
  BY DEF OnFilm
<1>1. /\ session[s] \in Round /\ RoundOK(session[s]) /\ s \in SessionId
      /\ session[s].active \in DOMAIN session[s].types
  BY DEF IInv, TypeOK
<1>2. PICK r \in SessionId :
        \/ Start(r) \/ Expire(r) \/ Close(r) \/ FrameTooLate(r)
        \/ \E eyes \in {"open", "closed"} : FrameForBlink(r, eyes)
        \/ \E direction \in {"left", "right", "neutral"} : FrameForTurn(r, direction)
  BY DEF Next
<1>3. CASE Start(r)
  BY <1>3 DEF Start, IInv, TypeOK
<1>4. CASE Expire(r)
  BY <1>4, <1>1 DEF Expire, IInv, TypeOK, Round
<1>5. CASE Close(r)
  BY <1>5 DEF Close
<1>6. CASE FrameTooLate(r)
  <2>1. r = s
    BY <1>6 DEF FrameTooLate, IInv, TypeOK
  <2>2. /\ Counted(session[s]).status = session[s].status
        /\ Counted(session[s]) \in Round
        /\ session'[s] = Completed(Counted(session[s]), "failed")
    BY <2>1, <1>1, <1>6, CountedOK DEF FrameTooLate, Fed, IInv, TypeOK
  <2>3. session'[s].status[i] \in {session[s].status[i], "failed"}
    BY <2>2 DEF Completed, Round
  <2>. QED
    BY <2>3
<1>7. CASE \E direction \in {"left", "right", "neutral"} : FrameForTurn(r, direction)
  <2>1. r # s
    BY <1>7 DEF FrameForTurn
  <2>2. session'[s] = session[s]
    BY <2>1, <1>7 DEF FrameForTurn, IInv, TypeOK
  <2>. QED
    BY <2>2
<1>8. CASE \E eyes \in {"open", "closed"} : FrameForBlink(r, eyes)
  <2>1. PICK eyes \in {"open", "closed"} : FrameForBlink(r, eyes)
    BY <1>8
  <2>2. r = s
    BY <2>1 DEF FrameForBlink, IInv, TypeOK
  <2>3. Counted(session[s]).status = session[s].status
    BY <1>1, <2>1, <2>2, CountedOK DEF FrameForBlink, Fed
  <2>4. BlinkDetected(eyes)
    BY <2>1, <2>2, <2>3 DEF FrameForBlink, IInv, TypeOK
  <2>5. blink.wasClosed /\ blink.since + 1 > DebounceFrames
    BY <2>4 DEF BlinkDetected
  <2>6. /\ blink.closed \in Nat /\ blink.since \in Nat /\ Len(film) \in Nat
        /\ blink.closed >= EarConsecFrames /\ blink.closed <= Len(film)
        /\ blink.since <= Len(film)
    BY <2>5 DEF IInv, TypeOK, FilmOK
  <2>7. /\ Len(film) >= DebounceFrames /\ Len(film) >= EarConsecFrames
        /\ (Len(film) - EarConsecFrames + 1)..Len(film)
             \subseteq (Len(film) - blink.closed + 1)..Len(film)
    BY <2>5, <2>6, LivenessConstants
  <2>. QED
    BY <2>7 DEF IInv, FilmOK, ClosedFor
<1>. QED
  BY <1>2, <1>3, <1>4, <1>5, <1>6, <1>7, <1>8

-----------------------------------------------------------------------------
(* The other direction: no blink is missed. *)

\* The detector counted every closed frame at the end of the film, and knows
\* no more frames since the last blink than it knows closed ones.
FilmCounted ==
  /\ \A n \in Nat : ClosedFor(n) => n <= blink.closed /\ n <= blink.since
  /\ blink.closed >= EarConsecFrames => blink.wasClosed

\* reset_detectors leaves nothing to count.
LEMMA ResetCounts ==
  ASSUME ResetDetectors PROVE FilmCounted'
<1>1. film' = <<>> /\ Len(film') = 0 /\ blink' = FreshBlink
  BY DEF ResetDetectors
<1>. QED
  BY <1>1, LivenessConstants DEF FilmCounted, ClosedFor, FreshBlink

\* blink.py, update: one more closed frame is one more in both counters, and
\* an open one ends the run of closed frames.
LEMMA UpdateCounts ==
  ASSUME TypeOK, FilmOK, FilmCounted, NEW eyes \in {"open", "closed"},
         blink' = UpdateBlink(eyes), film' = Append(film, eyes)
  PROVE  FilmCounted'
<1>1. /\ blink.closed \in Nat /\ blink.since \in Nat /\ blink.wasClosed \in BOOLEAN
      /\ film \in Seq({"open", "closed"}) /\ Len(film) \in Nat
  BY DEF TypeOK
<1>2. /\ Len(film') = Len(film) + 1 /\ film'[Len(film) + 1] = eyes
      /\ \A k \in 1..Len(film) : film'[k] = film[k]
  BY <1>1
<1>3. ASSUME NEW n \in Nat, ClosedFor(n)'
      PROVE  n <= blink'.closed /\ n <= blink'.since
  <2>1. CASE n = 0
    BY <2>1, <1>1, LivenessConstants DEF UpdateBlink, Closed
  <2>2. CASE n # 0
    <3>1. eyes = "closed"
      BY <2>2, <1>1, <1>2, <1>3 DEF ClosedFor
    <3>2. ClosedFor(n - 1)
      <4>1. /\ n - 1 <= Len(film)
            /\ \A k \in (Len(film) - (n - 1) + 1)..Len(film) :
                 k \in 1..Len(film) /\ k \in (Len(film') - n + 1)..Len(film')
        BY <2>2, <1>1, <1>2, <1>3 DEF ClosedFor
      <4>. QED
        BY <4>1, <1>2, <1>3 DEF ClosedFor
    <3>3. n - 1 <= blink.closed /\ n - 1 <= blink.since
      BY <3>2, <2>2 DEF FilmCounted
    <3>4. Closed(eyes) = blink.closed + 1
      BY <3>1 DEF Closed
    <3>5. ~BlinkDetected(eyes)
      BY <3>4, <1>1, LivenessConstants DEF BlinkDetected, FilmOK
    <3>. QED
      BY <3>3, <3>4, <3>5, <1>1 DEF UpdateBlink
  <2>. QED
    BY <2>1, <2>2
<1>4. blink'.closed >= EarConsecFrames => blink'.wasClosed
  BY DEF UpdateBlink
<1>. QED
  BY <1>3, <1>4 DEF FilmCounted

\* Every step keeps the count, those of other sessions included.
THEOREM FilmIsCounted == Spec => []FilmCounted
<1>1. Init => FilmCounted
  <2>. SUFFICES ASSUME Init PROVE FilmCounted
    OBVIOUS
  <2>1. film = <<>> /\ Len(film) = 0 /\ blink = FreshBlink
    BY DEF Init
  <2>. QED
    BY <2>1, LivenessConstants DEF FilmCounted, ClosedFor, FreshBlink
<1>2. IInv /\ FilmCounted /\ [Next]_vars => FilmCounted'
  <2>. SUFFICES ASSUME IInv, FilmCounted, [Next]_vars PROVE FilmCounted'
    OBVIOUS
  <2>1. \/ ResetDetectors
        \/ UNCHANGED <<blink, film>>
        \/ \E eyes \in {"open", "closed"} :
             blink' = UpdateBlink(eyes) /\ film' = Append(film, eyes)
    BY DEF Next, Start, Expire, Close, FrameTooLate, FrameForBlink, FrameForTurn, vars
  <2>2. CASE UNCHANGED <<blink, film>>
    BY <2>2 DEF FilmCounted, ClosedFor
  <2>. QED
    BY <2>1, <2>2, ResetCounts, UpdateCounts DEF IInv
<1>. QED
  BY <1>1, <1>2, Inductive, PTL DEF Spec

\* blink.py: the detector answers True to an open frame exactly when the
\* eyes were closed long enough just before it and the last blink is old enough.
THEOREM OpenFrameDetects ==
  ASSUME IInv, FilmCounted
  PROVE  BlinkDetected("open")
           <=> ClosedFor(EarConsecFrames) /\ blink.since >= DebounceFrames
<1>1. /\ blink.closed \in Nat /\ blink.since \in Nat /\ blink.wasClosed \in BOOLEAN
      /\ Len(film) \in Nat /\ EarConsecFrames \in Nat \ {0} /\ DebounceFrames \in Nat
  BY LivenessConstants DEF IInv, TypeOK
<1>2. ClosedFor(EarConsecFrames) => blink.wasClosed
  BY <1>1 DEF FilmCounted
<1>3. blink.wasClosed => ClosedFor(EarConsecFrames)
  BY <1>1 DEF IInv, FilmOK, ClosedFor
<1>. QED
  BY <1>1, <1>2, <1>3 DEF BlinkDetected, Closed

\* What BlinkPassesAsFilmed says of a step that ends a blink.
BlinkSeen ==
  \A s \in live :
    FrameForBlink(s, "open") /\ ClosedFor(EarConsecFrames) /\ ClosedFor(DebounceFrames)
      => session'[s].status[session[s].active] = "passed"

\* Whatever the sessions did to the shared detector before, a completed blink
\* passes the challenge that asks for it.
LEMMA NoBlinkMissed == IInv /\ FilmCounted /\ Next => BlinkSeen
<1>. SUFFICES ASSUME IInv, FilmCounted, NEW s \in live, FrameForBlink(s, "open"),
                     ClosedFor(EarConsecFrames), ClosedFor(DebounceFrames)
              PROVE  session'[s].status[session[s].active] = "passed"
  BY DEF BlinkSeen
<1>1. blink.since >= DebounceFrames
  BY LivenessConstants DEF FilmCounted, IInv, TypeOK
<1>2. BlinkDetected("open")
  BY <1>1, OpenFrameDetects
<1>3. session[s] \in Round /\ RoundOK(session[s]) /\ session \in [live -> Round]
      /\ session[s].active \in DOMAIN session[s].types /\ session[s].frames < MaxFrames
  BY DEF IInv, TypeOK, FrameForBlink, Fed
<1>4. session'[s] = Completed(Counted(session[s]), "passed")
  BY <1>2, <1>3 DEF FrameForBlink
<1>5. Counted(session[s]) \in Round /\ Counted(session[s]).active = session[s].active
  BY <1>3, CountedOK
<1>6. \A x \in Round : Completed(x, "passed").status[x.active] = "passed"
  BY DEF Completed, Round
<1>. QED
  BY <1>4, <1>5, <1>6

\* BlinkPassesAsFilmed of module LivenessDetectors: a blink challenge passes on
\* film only, and every completed blink passes it.
THEOREM BlinksAreFilmed == Spec => BlinkPassesAsFilmed
<1>1. IInv /\ FilmCounted /\ [Next]_vars => [OnFilm /\ BlinkSeen]_vars
  BY BlinkFilmed, NoBlinkMissed
<1>. QED
  BY <1>1, Inductive, FilmIsCounted, PTL
     DEF Spec, BlinkPassesAsFilmed, OnFilm, BlinkSeen

=============================================================================
