-------------------------- MODULE EnrollmentProofs --------------------------
(***************************************************************************)
(* A mandate gives one subscription unless poll runs overlap, what becomes *)
(* of a mandate is what the bank decided, and the bank is asked no sooner  *)
(* than promised: proofs for any number of mandates, runs and faults.      *)
(***************************************************************************)
EXTENDS Enrollment, FiniteSetTheorems, SequenceTheorems, WellFoundedInduction, TLAPS

\* A run acts on copies it loaded while the rows were pending, and on an answer
\* of the bank that is still true.
RunInv(w) ==
    /\ poll[w].at <= now
    /\ \A m \in poll[w].todo : poll[w].row[m].st = "pending" /\ request[m] = "done"
    /\ poll[w].cur # NoMandate => poll[w].cur \in poll[w].todo
    /\ poll[w].pc \in {"ask", "fail", "activate"} => poll[w].cur # NoMandate
    /\ poll[w].pc = "fail" => mandate[poll[w].cur] = "deleted"
    /\ poll[w].pc = "activate" => mandate[poll[w].cur] \in {"active", "deleted"}

\* A row that is not completed has no more subscriptions than stale writes, so
\* the activation of an unchanged row makes at most one more.
MandateInv(m) ==
    /\ request[m] = "done" <=> initiation[m].st # "absent"
    /\ request[m] # "done" => subs[m] = 0
    /\ request[m] \in {"new", "checked"} => mandate[m] = "none"
    /\ initiation[m].st # "completed" => subs[m] <= stale[m]
    /\ initiation[m].st = "completed" => subs[m] > 0 /\ subs[m] <= 1 + stale[m]
    /\ initiation[m].st = "failed" =>
           mandate[m] = "deleted" \/ Expired(initiation[m], now)
    /\ subs[m] > 0 => mandate[m] \in {"active", "deleted"}

Broken == {m \in Mandates : request[m] = "broken"}

IInv ==
    /\ TypeOK
    /\ \A w \in Pollers : RunInv(w)
    /\ \A m \in Mandates : MandateInv(m)
    /\ Cardinality(Broken) <= faults
-----------------------------------------------------------------------------
(* The waits of the back-off                                               *)

Level(levels) == CHOOSE k \in levels : \A j \in levels : k <= j

LEMMA Smallest == ASSUME NEW N \in SUBSET Nat, N # {} PROVE \E n \in N : \A m \in N : n <= m
  <1> DEFINE R == OpToRel(<, Nat)
  <1>1. IsWellFoundedOn(R, Nat)
    BY NatLessThanWellFounded
  <1>2. \A x, y \in Nat : x < y => <<x, y>> \in R
    BY DEF OpToRel
  <1> HIDE DEF R
  <1>3. PICK x \in N : \A y \in N : ~(<<y, x>> \in R)
    BY <1>1, WFMin
  <1>4. \A y \in N : ~(y < x)
    BY <1>2, <1>3
  <1> QED
    BY <1>4

\* There is a first level, and its wait is at most the default.
LEMMA LevelWait ==
  ASSUME NEW levels \in SUBSET DOMAIN Backoff, levels # {}
  PROVE  /\ Level(levels) \in levels /\ \A j \in levels : Level(levels) <= j
         /\ Backoff[Level(levels)].wait \in Nat /\ Backoff[Level(levels)].wait <= LastWait
  <1>1. /\ Backoff \in Seq([below : Nat, wait : Nat])
        /\ \A k \in DOMAIN Backoff : Backoff[k].wait <= LastWait
    BY EnrollmentAssumption
  <1>2. DOMAIN Backoff = 1 .. Len(Backoff) /\ Len(Backoff) \in Nat
        /\ \A k \in DOMAIN Backoff : Backoff[k] \in [below : Nat, wait : Nat]
    BY <1>1, LenProperties
  <1>3. levels \in SUBSET Nat /\ levels \subseteq DOMAIN Backoff
    BY <1>2
  <1>4. \E k \in levels : \A j \in levels : k <= j
    BY <1>3, Smallest
  <1>5. Level(levels) \in levels /\ \A j \in levels : Level(levels) <= j
    BY <1>4 DEF Level
  <1>6. Backoff[Level(levels)] \in [below : Nat, wait : Nat]
    BY <1>2, <1>3, <1>5
  <1> QED
    BY <1>1, <1>3, <1>5, <1>6

\* The comment promises no longer wait than the code keeps.
LEMMA PromisedShorter ==
  ASSUME NEW n \in Int
  PROVE  Promised(n) \in Nat /\ nextPollDelay(n) \in Nat /\ Promised(n) <= nextPollDelay(n)
  <1> DEFINE kept == {k \in DOMAIN Backoff : n < Backoff[k].below}
             said == {k \in DOMAIN Backoff : n <= Backoff[k].below}
  <1>1. /\ nextPollDelay(n) = IF kept = {} THEN LastWait ELSE Backoff[Level(kept)].wait
        /\ Promised(n) = IF said = {} THEN LastWait ELSE Backoff[Level(said)].wait
    BY DEF nextPollDelay, Promised, Level
  <1>2. kept \subseteq said /\ said \in SUBSET DOMAIN Backoff /\ kept \in SUBSET DOMAIN Backoff
    <2>1. Backoff \in Seq([below : Nat, wait : Nat])
      BY EnrollmentAssumption
    <2>2. \A k \in DOMAIN Backoff : Backoff[k].below \in Nat
      <3>1. \A k \in DOMAIN Backoff : Backoff[k] \in [below : Nat, wait : Nat]
        BY <2>1, LenProperties
      <3> QED
        BY <3>1
    <2>3. \A k \in DOMAIN Backoff : n < Backoff[k].below => n <= Backoff[k].below
      BY <2>2
    <2> QED
      BY <2>3
  <1> HIDE DEF kept, said
  <1>3. LastWait \in Nat
    BY EnrollmentAssumption
  <1>4. CASE kept = {} /\ said = {}
    BY <1>1, <1>3, <1>4
  <1>5. CASE kept = {} /\ said # {}
    BY <1>1, <1>2, <1>3, <1>5, LevelWait
  <1>6. CASE kept # {}
    <2>1. said # {} /\ Level(kept) \in said /\ Level(said) \in said
      BY <1>2, <1>6, LevelWait
    <2>2. Level(said) <= Level(kept)
      BY <1>2, <2>1, LevelWait
    <2>3. Backoff[Level(said)].wait \in Nat /\ Backoff[Level(kept)].wait \in Nat
      BY <1>2, <1>6, <2>1, LevelWait
    <2>4. Backoff[Level(said)].wait <= Backoff[Level(kept)].wait
      <3>1. CASE Level(said) = Level(kept)
        BY <2>3, <3>1
      <3>2. CASE Level(said) # Level(kept)
        <4>1. Level(said) \in DOMAIN Backoff /\ Level(kept) \in DOMAIN Backoff
          BY <1>2, <2>1
        <4>2. DOMAIN Backoff \subseteq Int
          BY EnrollmentAssumption, LenProperties
        <4>3. Level(said) < Level(kept)
          BY <2>2, <3>2, <4>1, <4>2
        <4> QED
          BY <4>1, <4>3, EnrollmentAssumption
      <3> QED
        BY <3>1, <3>2
    <2> QED
      BY <1>1, <1>6, <2>1, <2>3, <2>4
  <1> QED
    BY <1>4, <1>5, <1>6
-----------------------------------------------------------------------------
(* The inductive invariant                                                 *)

LEMMA InitIInv == Init => IInv
  <1> SUFFICES ASSUME Init PROVE IInv
    OBVIOUS
  <1>1. NoRow \in Row /\ Idle \in Poll
    BY EnrollmentAssumption DEF NoRow, Row, Status, Times, NoTime, Idle, Poll, PollPc
  <1>2. TypeOK
    BY <1>1, EnrollmentAssumption DEF Init, TypeOK, Times, NoTime, Requests, Calls
  <1>3. \A w \in Pollers : RunInv(w)
    BY DEF Init, RunInv, Idle
  <1>4. \A m \in Mandates : MandateInv(m)
    BY DEF Init, MandateInv, NoRow, Calls
  <1>5. Broken = {}
    BY DEF Init, Broken, Calls
  <1> QED
    BY <1>2, <1>3, <1>4, <1>5, FS_EmptySet DEF Init, IInv

\* The runs other than w do not notice a step that leaves calls, bank and clock.
LEMMA OtherRuns ==
  ASSUME IInv, NEW w \in Pollers, NEW v \in Pollers \ {w}, poll'[v] = poll[v],
         UNCHANGED <<now, request, mandate>>
  PROVE  RunInv(v)'
  BY DEF IInv, RunInv

\* Going on with the next row keeps a run's copies in order.
LEMMA ContinueStep ==
  ASSUME IInv, NEW w \in Pollers, NEW m \in poll[w].todo, Continue(w, m),
         UNCHANGED <<now, request, mandate>>
  PROVE  poll' \in [Pollers -> Poll] /\ \A v \in Pollers : RunInv(v)'
  <1> DEFINE left == [poll[w] EXCEPT !.pc = "next", !.todo = poll[w].todo \ {m},
                                     !.cur = NoMandate, !.row[m] = NoRow]
  <1>1. poll \in [Pollers -> Poll] /\ poll[w] \in Poll /\ m \in Mandates
    BY DEF IInv, TypeOK, Poll
  <1>2. NoRow \in Row /\ Idle \in Poll
    BY EnrollmentAssumption DEF NoRow, Row, Status, Times, NoTime, Idle, Poll, PollPc
  <1>3. left \in Poll /\ left.pc = "next" /\ left.todo = poll[w].todo \ {m}
        /\ left.cur = NoMandate /\ left.at = poll[w].at
        /\ \A n \in left.todo : left.row[n] = poll[w].row[n]
    BY <1>1, <1>2 DEF Poll, PollPc
  <1>4. poll' = [poll EXCEPT ![w] = IF poll[w].todo \ {m} = {} THEN Idle ELSE left]
    BY DEF Continue
  <1> HIDE DEF left
  <1>5. poll' \in [Pollers -> Poll]
    BY <1>1, <1>2, <1>3, <1>4
  <1>6. RunInv(w)'
    <2>1. CASE poll'[w] = Idle
      BY <2>1 DEF RunInv, Idle, IInv, TypeOK, Times
    <2>2. CASE poll'[w] = left
      BY <1>3, <2>2 DEF RunInv, IInv
    <2> QED
      BY <1>1, <1>4, <2>1, <2>2
  <1>7. \A v \in Pollers \ {w} : RunInv(v)'
    BY <1>1, <1>4, OtherRuns
  <1> QED
    BY <1>5, <1>6, <1>7

\* What a run stores keeps the row and its subscriptions in step.
LEMMA StoreStep ==
  ASSUME IInv, NEW w \in Pollers, NEW m \in poll[w].todo, NEW row \in Row,
         Store(w, m, row), UNCHANGED <<now, request, mandate>>,
         \/ row.st = "pending" /\ subs' = subs
         \/ /\ row.st = "failed" /\ subs' = subs
            /\ mandate[m] = "deleted" \/ Expired(row, now)
         \/ /\ row.st = "completed" /\ subs' = [subs EXCEPT ![m] = @ + 1]
            /\ mandate[m] \in {"active", "deleted"}
  PROVE  /\ initiation' \in [Calls -> Row]
         /\ subs' \in [Calls -> Nat]
         /\ stale' \in [Mandates -> Nat]
         /\ \A n \in Mandates : MandateInv(n)'
  <1>1. m \in Mandates /\ m \in Calls /\ poll[w] \in Poll
    BY DEF IInv, TypeOK, Poll, Calls
  <1>2. /\ initiation \in [Calls -> Row] /\ subs \in [Calls -> Nat]
        /\ stale \in [Mandates -> Nat]
    BY DEF IInv, TypeOK
  <1>3. /\ initiation' = [initiation EXCEPT ![m] = row]
        /\ stale' = [stale EXCEPT ![m] = IF initiation[m] = poll[w].row[m] THEN @ ELSE @ + 1]
    BY DEF Store
  <1>4. poll[w].row[m].st = "pending" /\ request[m] = "done"
    BY DEF IInv, RunInv
  <1>5. ASSUME NEW n \in Mandates, n # m PROVE MandateInv(n)'
    <2>1. n \in Calls /\ MandateInv(n)
      BY <1>5 DEF Calls, IInv
    <2>2. initiation'[n] = initiation[n] /\ stale'[n] = stale[n] /\ subs'[n] = subs[n]
      BY <1>1, <1>2, <1>3, <1>5, <2>1
    <2> QED
      BY <2>1, <2>2 DEF MandateInv, Expired
  <1>6. MandateInv(m)'
    <2>1. MandateInv(m) /\ initiation'[m] = row
      BY <1>1, <1>2, <1>3 DEF IInv
    <2>2. subs[m] \in Nat /\ stale[m] \in Nat /\ subs[m] <= 1 + stale[m]
      BY <1>1, <1>2, <2>1 DEF MandateInv
    <2>3. subs[m] <= stale'[m] /\ stale'[m] \in Nat
      BY <1>1, <1>2, <1>3, <1>4, <2>1, <2>2 DEF MandateInv
    <2>4. CASE row.st = "completed" /\ subs' = [subs EXCEPT ![m] = @ + 1]
               /\ mandate[m] \in {"active", "deleted"}
      BY <1>1, <1>2, <1>4, <2>1, <2>2, <2>3, <2>4 DEF MandateInv
    <2>5. CASE row.st = "pending" /\ subs' = subs
      BY <1>4, <2>1, <2>3, <2>5 DEF MandateInv
    <2>6. CASE /\ row.st = "failed" /\ subs' = subs
               /\ mandate[m] = "deleted" \/ Expired(row, now)
      BY <1>4, <2>1, <2>3, <2>6 DEF MandateInv, Expired
    <2> QED
      BY <2>4, <2>5, <2>6
  <1>7. initiation' \in [Calls -> Row] /\ subs' \in [Calls -> Nat]
        /\ stale' \in [Mandates -> Nat]
    BY <1>1, <1>2, <1>3
  <1> QED
    BY <1>5, <1>6, <1>7
-----------------------------------------------------------------------------
(* The runs of the poll                                                    *)

\* A step of a run that stores no row.
LEMMA LocalStep ==
  ASSUME IInv, UNCHANGED <<now, initiation, subs, request, mandate, heard>>,
         poll' \in [Pollers -> Poll], \A v \in Pollers : RunInv(v)',
         asked' \in [Mandates -> Nat], waits' \in [Mandates -> Nat],
         stale' \in [Mandates -> Nat], \A m \in Mandates : stale'[m] >= stale[m],
         faults' \in 0 .. MaxFaults, faults' >= faults
  PROVE  IInv'
  <1>1. TypeOK'
    BY DEF IInv, TypeOK
  <1>2. ASSUME NEW m \in Mandates PROVE MandateInv(m)'
    BY DEF IInv, TypeOK, MandateInv, Expired, Calls
  <1>3. Broken' = Broken
    BY DEF Broken
  <1>4. Cardinality(Broken) <= faults'
    <2>1. Cardinality(Broken) \in Nat
      BY EnrollmentAssumption, FS_Subset, FS_CardinalityType DEF Broken
    <2> QED
      BY <2>1 DEF IInv, TypeOK
  <1> QED
    BY <1>1, <1>2, <1>3, <1>4 DEF IInv

\* A step of a run that stores a row and goes on.
LEMMA StoringStep ==
  ASSUME IInv, NEW w \in Pollers, NEW m \in poll[w].todo, NEW row \in Row,
         Store(w, m, row), UNCHANGED <<now, request, mandate, heard, asked, waits, faults>>,
         poll' \in [Pollers -> Poll], \A v \in Pollers : RunInv(v)',
         \/ row.st = "pending" /\ subs' = subs
         \/ /\ row.st = "failed" /\ subs' = subs
            /\ mandate[m] = "deleted" \/ Expired(row, now)
         \/ /\ row.st = "completed" /\ subs' = [subs EXCEPT ![m] = @ + 1]
            /\ mandate[m] \in {"active", "deleted"}
  PROVE  IInv'
  <1>1. /\ initiation' \in [Calls -> Row] /\ subs' \in [Calls -> Nat]
        /\ stale' \in [Mandates -> Nat] /\ \A n \in Mandates : MandateInv(n)'
    BY StoreStep
  <1>2. TypeOK'
    BY <1>1 DEF IInv, TypeOK
  <1>3. Broken' = Broken
    BY DEF Broken
  <1> QED
    BY <1>1, <1>2, <1>3 DEF IInv

\* What a run knows of the row it holds.
LEMMA Held ==
  ASSUME IInv, NEW w \in Pollers, NEW m \in poll[w].todo
  PROVE  /\ m \in Mandates /\ poll[w] \in Poll /\ poll[w].row[m] \in Row
         /\ poll[w].row[m].st = "pending" /\ request[m] = "done"
         /\ poll[w].at \in Times /\ poll[w].at <= now
  BY DEF IInv, TypeOK, RunInv, Poll

LEMMA HeldCurrent ==
  ASSUME IInv, NEW w \in Pollers, NEW m \in Mandates, poll[w].cur = m
  PROVE  m \in poll[w].todo
  BY EnrollmentAssumption DEF IInv, RunInv, Calls

LEMMA PollStartStep ==
  ASSUME IInv, NEW w \in Pollers, PollStart(w)
  PROVE  IInv'
  <1> DEFINE due == {m \in Mandates : /\ initiation[m].st = "pending"
                                      /\ \/ Expired(initiation[m], now)
                                         \/ mandateReadyToPoll(initiation[m], now)}
             rows == [m \in Mandates |-> IF m \in due THEN initiation[m] ELSE NoRow]
             run == [Idle EXCEPT !.pc = "next", !.todo = due, !.at = now, !.row = rows]
  <1>1. poll' = [poll EXCEPT ![w] = run]
        /\ UNCHANGED <<now, dbVars, request, mandate, history, faults>>
    BY DEF PollStart
  <1>2. NoRow \in Row /\ due \subseteq Mandates
    BY EnrollmentAssumption DEF NoRow, Row, Status, Times, NoTime
  <1>3. rows \in [Mandates -> Row]
    BY <1>2 DEF IInv, TypeOK, Calls
  <1>4. \A m \in due : rows[m].st = "pending" /\ request[m] = "done"
    BY DEF IInv, MandateInv
  <1> HIDE DEF due, rows
  <1>5. run \in Poll /\ run.at = now /\ run.todo = due /\ run.row = rows
        /\ run.cur = NoMandate /\ run.pc = "next"
    BY <1>2, <1>3 DEF Idle, Poll, PollPc, IInv, TypeOK
  <1> HIDE DEF run
  <1>6. poll' \in [Pollers -> Poll]
    BY <1>1, <1>5 DEF IInv, TypeOK
  <1>7. RunInv(w)'
    <2>1. poll'[w] = run
      BY <1>1 DEF IInv, TypeOK
    <2> QED
      BY <1>1, <1>4, <1>5, <2>1 DEF RunInv, IInv, TypeOK, Times
  <1>8. \A v \in Pollers \ {w} : RunInv(v)'
    BY <1>1, OtherRuns DEF IInv, TypeOK
  <1> QED
    BY <1>1, <1>6, <1>7, <1>8, LocalStep DEF dbVars, history, IInv, TypeOK

LEMMA ExpireStep ==
  ASSUME IInv, NEW w \in Pollers, NEW m \in Mandates, Expire(w, m)
  PROVE  IInv'
  <1> DEFINE row == [poll[w].row[m] EXCEPT !.st = "failed"]
  <1>1. /\ m \in poll[w].todo /\ Expired(poll[w].row[m], poll[w].at) /\ Store(w, m, row)
        /\ Continue(w, m)
        /\ UNCHANGED <<now, subs, request, mandate, heard, asked, waits, faults>>
    BY DEF Expire
  <1>2. /\ poll[w].row[m] \in Row /\ poll[w].at \in Times /\ poll[w].at <= now
    BY <1>1, Held
  <1>3. row \in Row /\ row.st = "failed" /\ Expired(row, now)
    <2>1. row \in Row /\ row.st = "failed" /\ row.born = poll[w].row[m].born
      BY <1>2 DEF Row, Status
    <2>2. row.born \in Int /\ poll[w].at \in Int /\ now \in Int /\ MaxAge \in Int
      BY <1>2, <2>1, EnrollmentAssumption DEF Row, Times, IInv, TypeOK
    <2>3. poll[w].at - row.born > MaxAge
      BY <1>1, <2>1 DEF Expired
    <2> HIDE DEF row
    <2> QED
      BY <1>2, <2>1, <2>2, <2>3 DEF Expired
  <1>4. poll' \in [Pollers -> Poll] /\ \A v \in Pollers : RunInv(v)'
    BY <1>1, ContinueStep
  <1> HIDE DEF row
  <1> QED
    BY <1>1, <1>3, <1>4, StoringStep

LEMMA BookStep ==
  ASSUME IInv, NEW w \in Pollers, NEW m \in Mandates, Book(w, m)
  PROVE  IInv'
  <1> DEFINE row == [poll[w].row[m] EXCEPT !.polled = poll[w].at, !.polls = @ + 1]
             run == [poll[w] EXCEPT !.pc = "ask", !.cur = m, !.row[m] = row]
  <1>1. /\ m \in poll[w].todo /\ Store(w, m, row)
        /\ poll' = [poll EXCEPT ![w].pc = "ask", ![w].cur = m, ![w].row[m] = row]
        /\ UNCHANGED <<now, subs, request, mandate, heard, asked, waits, faults>>
    BY DEF Book
  <1>2. /\ poll[w].row[m] \in Row /\ poll[w].at \in Times /\ poll[w] \in Poll
        /\ poll[w].row[m].st = "pending" /\ poll[w].at <= now
    BY <1>1, Held
  <1>3. row \in Row /\ row.st = "pending"
    <2>1. poll[w].row[m].polls + 1 \in Nat
      BY <1>2 DEF Row
    <2> QED
      BY <1>2, <2>1, Zenon DEF Row
  <1> HIDE DEF row
  <1>4. /\ run \in Poll /\ run.pc = "ask" /\ run.cur = m /\ run.todo = poll[w].todo
        /\ run.at = poll[w].at /\ run.row[m] = row
        /\ \A n \in Mandates \ {m} : run.row[n] = poll[w].row[n]
    BY <1>2, <1>3 DEF Poll, PollPc
  <1>5. poll' = [poll EXCEPT ![w] = run]
    BY <1>1 DEF IInv, TypeOK
  <1> HIDE DEF run
  <1>6. poll' \in [Pollers -> Poll] /\ poll'[w] = run
    BY <1>4, <1>5 DEF IInv, TypeOK
  <1>7. RunInv(w)'
    <2>1. \A n \in run.todo : run.row[n].st = "pending" /\ request[n] = "done"
      BY <1>2, <1>3, <1>4 DEF IInv, RunInv, Poll
    <2>2. m # NoMandate /\ m \in run.todo
      BY <1>1, <1>4, EnrollmentAssumption DEF Calls
    <2> QED
      BY <1>1, <1>2, <1>4, <1>6, <2>1, <2>2 DEF RunInv
  <1>8. \A v \in Pollers \ {w} : RunInv(v)'
    BY <1>1, <1>5, OtherRuns DEF IInv, TypeOK
  <1> QED
    BY <1>1, <1>3, <1>6, <1>7, <1>8, StoringStep

LEMMA AskStatusStep ==
  ASSUME IInv, NEW w \in Pollers, NEW m \in Mandates, AskStatus(w, m)
  PROVE  IInv'
  <1>1. /\ poll[w].pc = "ask" /\ poll[w].cur = m
        /\ asked' = [asked EXCEPT ![m] = @ + 1]
        /\ waits' = [waits EXCEPT ![m] = @ + Promised(asked[m] + 1) + 1]
        /\ stale' = [stale EXCEPT ![m] = IF initiation[m] = poll[w].row[m] THEN @ ELSE @ + 1]
        /\ UNCHANGED <<now, initiation, subs, request, mandate, heard, faults>>
    BY DEF AskStatus, Asked, At, dbVars
  <1>2. m \in poll[w].todo
    BY <1>1, HeldCurrent
  <1>3. poll[w] \in Poll /\ poll[w].at \in Times
    BY <1>2, Held
  <1>4. /\ asked' \in [Mandates -> Nat] /\ waits' \in [Mandates -> Nat]
        /\ stale' \in [Mandates -> Nat] /\ \A n \in Mandates : stale'[n] >= stale[n]
    <2>1. Promised(asked[m] + 1) \in Nat
      BY PromisedShorter DEF IInv, TypeOK
    <2>2. PICK p \in Nat : p = Promised(asked[m] + 1)
      BY <2>1
    <2> QED
      BY <1>1, <2>2 DEF IInv, TypeOK
  <1>5. poll' \in [Pollers -> Poll] /\ \A v \in Pollers : RunInv(v)'
    <2>1. ASSUME NEW pc \in {"fail", "activate"}, poll' = [poll EXCEPT ![w].pc = pc],
                 pc = "fail" => mandate[m] = "deleted",
                 pc = "activate" => mandate[m] = "active"
          PROVE  poll' \in [Pollers -> Poll] /\ \A v \in Pollers : RunInv(v)'
      <3>1. poll' \in [Pollers -> Poll]
        BY <1>3, <2>1 DEF IInv, TypeOK, Poll, PollPc
      <3>2. /\ poll'[w].pc = pc /\ poll'[w].cur = m /\ poll'[w].todo = poll[w].todo
            /\ poll'[w].at = poll[w].at /\ poll'[w].row = poll[w].row
        BY <1>1, <1>3, <2>1 DEF IInv, TypeOK, Poll
      <3>3. RunInv(w)'
        BY <1>1, <1>2, <2>1, <3>2 DEF IInv, RunInv
      <3>4. \A v \in Pollers \ {w} : RunInv(v)'
        BY <1>1, <2>1, OtherRuns DEF IInv, TypeOK
      <3> QED
        BY <3>1, <3>3, <3>4
    <2>2. CASE mandate[m] = "deleted"
      <3>1. poll' = [poll EXCEPT ![w].pc = "fail"]
        BY <2>2 DEF AskStatus
      <3> QED
        BY <2>1, <2>2, <3>1
    <2>3. CASE mandate[m] = "active"
      <3>1. poll' = [poll EXCEPT ![w].pc = "activate"]
        BY <2>3 DEF AskStatus
      <3> QED
        BY <2>1, <2>3, <3>1
    <2>4. CASE mandate[m] \notin {"active", "deleted"}
      <3>1. Continue(w, m)
        BY <2>4 DEF AskStatus
      <3> QED
        BY <1>1, <1>2, <3>1, ContinueStep
    <2> QED
      BY <2>2, <2>3, <2>4
  <1> QED
    BY <1>1, <1>4, <1>5, LocalStep DEF IInv, TypeOK

LEMMA FailDeletedStep ==
  ASSUME IInv, NEW w \in Pollers, NEW m \in Mandates, FailDeleted(w, m)
  PROVE  IInv'
  <1> DEFINE row == [poll[w].row[m] EXCEPT !.st = "failed"]
  <1>1. /\ poll[w].pc = "fail" /\ poll[w].cur = m /\ Store(w, m, row) /\ Continue(w, m)
        /\ UNCHANGED <<now, subs, request, mandate, heard, asked, waits, faults>>
    BY DEF FailDeleted, At
  <1>2. m \in poll[w].todo /\ mandate[m] = "deleted"
    BY <1>1, HeldCurrent DEF IInv, RunInv
  <1>3. row \in Row /\ row.st = "failed"
    BY <1>2, Held DEF Row, Status
  <1>4. poll' \in [Pollers -> Poll] /\ \A v \in Pollers : RunInv(v)'
    BY <1>1, <1>2, ContinueStep
  <1> HIDE DEF row
  <1> QED
    BY <1>1, <1>2, <1>3, <1>4, StoringStep

LEMMA ActivateStep ==
  ASSUME IInv, NEW w \in Pollers, NEW m \in Mandates, Activate(w, m)
  PROVE  IInv'
  <1> DEFINE row == [poll[w].row[m] EXCEPT !.st = "completed"]
  <1>1. /\ poll[w].pc = "activate" /\ poll[w].cur = m /\ Store(w, m, row)
        /\ Continue(w, m) /\ subs' = [subs EXCEPT ![m] = @ + 1]
        /\ UNCHANGED <<now, request, mandate, heard, asked, waits, faults>>
    BY DEF Activate, At
  <1>2. m \in poll[w].todo /\ mandate[m] \in {"active", "deleted"}
    BY <1>1, HeldCurrent DEF IInv, RunInv
  <1>3. row \in Row /\ row.st = "completed"
    BY <1>2, Held DEF Row, Status
  <1>4. poll' \in [Pollers -> Poll] /\ \A v \in Pollers : RunInv(v)'
    BY <1>1, <1>2, ContinueStep
  <1> HIDE DEF row
  <1> QED
    BY <1>1, <1>2, <1>3, <1>4, StoringStep

LEMMA ActivateNothingStep ==
  ASSUME IInv, NEW w \in Pollers, NEW m \in Mandates, ActivateNothing(w, m)
  PROVE  IInv'
  <1>1. /\ poll[w].cur = m /\ Continue(w, m)
        /\ UNCHANGED <<now, initiation, subs, request, mandate, heard, asked, waits, stale, faults>>
    BY DEF ActivateNothing, At, dbVars, history
  <1>2. m \in poll[w].todo
    BY <1>1, HeldCurrent
  <1>3. poll' \in [Pollers -> Poll] /\ \A v \in Pollers : RunInv(v)'
    BY <1>1, <1>2, ContinueStep
  <1> QED
    BY <1>1, <1>3, LocalStep DEF IInv, TypeOK

LEMMA FaultStep ==
  ASSUME IInv, NEW w \in Pollers,
         Crash(w) \/ \E m \in Mandates : StepFails(w, m)
  PROVE  IInv'
  <1>1. /\ UNCHANGED <<now, initiation, subs, request, mandate, heard, asked, waits, stale>>
        /\ faults' \in 0 .. MaxFaults /\ faults' >= faults
    BY EnrollmentAssumption DEF Crash, StepFails, Fault, dbVars, history, IInv, TypeOK
  <1>2. poll' \in [Pollers -> Poll] /\ \A v \in Pollers : RunInv(v)'
    <2>1. CASE Crash(w)
      <3>1. Idle \in Poll
        BY EnrollmentAssumption DEF NoRow, Row, Status, Times, NoTime, Idle, Poll, PollPc
      <3>2. poll' = [poll EXCEPT ![w] = Idle]
        BY <2>1 DEF Crash
      <3>3. poll' \in [Pollers -> Poll] /\ poll'[w] = Idle
        BY <3>1, <3>2 DEF IInv, TypeOK
      <3>4. RunInv(w)'
        BY <1>1, <3>3 DEF RunInv, Idle, IInv, TypeOK, Times
      <3>5. \A v \in Pollers \ {w} : RunInv(v)'
        BY <1>1, <3>2, OtherRuns DEF IInv, TypeOK
      <3> QED
        BY <3>3, <3>4, <3>5
    <2>2. ASSUME NEW m \in Mandates, StepFails(w, m)
          PROVE  poll' \in [Pollers -> Poll] /\ \A v \in Pollers : RunInv(v)'
      <3>1. m \in poll[w].todo /\ Continue(w, m)
        BY <2>2, HeldCurrent DEF StepFails
      <3> QED
        BY <1>1, <3>1, ContinueStep
    <2> QED
      BY <2>1, <2>2
  <1> QED
    BY <1>1, <1>2, LocalStep DEF IInv, TypeOK
-----------------------------------------------------------------------------
(* The calls, the bank and the clock                                       *)

\* An order's steps touch no mandate.
LEMMA OrderStep ==
  ASSUME IInv, NEW o \in Orders,
         Check(o) \/ PlaceOrder(o) \/ PaymentSuccess(o)
  PROVE  IInv'
  <1>1. o \in Calls /\ \A m \in Mandates : m \in Calls /\ m # o
    BY EnrollmentAssumption DEF Calls
  <1>2. UNCHANGED <<now, poll, mandate, asked, waits, stale, faults>>
    BY DEF Check, PlaceOrder, PaymentSuccess, history
  <1>3. /\ initiation' \in [Calls -> Row] /\ subs' \in [Calls -> Nat]
        /\ request' \in [Calls -> Requests] /\ heard' \subseteq Orders
        /\ \A m \in Mandates : /\ initiation'[m] = initiation[m]
                               /\ subs'[m] = subs[m] /\ request'[m] = request[m]
    <2>1. CASE Check(o)
      BY <1>1, <2>1 DEF Check, dbVars, history, IInv, TypeOK, Requests
    <2>2. CASE PlaceOrder(o)
      <3>1. [NoRow EXCEPT !.st = "unset"] \in Row
        BY EnrollmentAssumption DEF NoRow, Row, Status, Times, NoTime
      <3> QED
        BY <1>1, <2>2, <3>1 DEF PlaceOrder, history, IInv, TypeOK, Requests
    <2>3. CASE PaymentSuccess(o)
      <3>1. initiation[o] \in Row /\ [initiation[o] EXCEPT !.st = "completed"] \in Row
        BY <1>1 DEF IInv, TypeOK, Row, Status
      <3>2. \/ UNCHANGED <<initiation, subs>>
            \/ /\ initiation' = [initiation EXCEPT ![o] =
                                   [initiation[o] EXCEPT !.st = "completed"]]
               /\ subs' = [subs EXCEPT ![o] = @ + 1]
        BY <1>1, <2>3 DEF PaymentSuccess, dbVars, IInv, TypeOK
      <3>3. request' = request /\ heard' = heard \cup {o}
        BY <2>3 DEF PaymentSuccess
      <3> QED
        BY <1>1, <3>1, <3>2, <3>3 DEF IInv, TypeOK
    <2> QED
      BY <2>1, <2>2, <2>3
  <1>4. TypeOK'
    BY <1>2, <1>3 DEF IInv, TypeOK
  <1>5. ASSUME NEW w \in Pollers PROVE RunInv(w)'
    <2>1. poll[w].todo \subseteq Mandates
      BY DEF IInv, TypeOK, Poll
    <2> QED
      BY <1>2, <1>3, <2>1 DEF IInv, RunInv
  <1>6. ASSUME NEW m \in Mandates PROVE MandateInv(m)'
    BY <1>2, <1>3 DEF IInv, MandateInv, Expired
  <1>7. Broken' = Broken
    BY <1>3 DEF Broken
  <1> QED
    BY <1>2, <1>4, <1>5, <1>6, <1>7 DEF IInv

\* A call for a mandate changes nothing of other mandates.
LEMMA MandateCallStep ==
  ASSUME IInv, NEW m \in Mandates,
         Check(m) \/ CreateMandate(m) \/ StoreMandate(m) \/ CallFails(m)
  PROVE  IInv'
  <1>1. m \in Calls /\ \A n \in Mandates : n \in Calls
    BY DEF Calls
  <1>2. UNCHANGED <<now, poll, subs, heard, asked, waits, stale>> /\ request[m] # "done"
    BY DEF Check, CreateMandate, StoreMandate, CallFails, dbVars, history
  <1>3. /\ request' \in [Calls -> Requests] /\ initiation' \in [Calls -> Row]
        /\ mandate' \in [Mandates -> {"none", "waiting", "active", "deleted"}]
        /\ \A n \in Mandates \ {m} : /\ request'[n] = request[n]
                                     /\ initiation'[n] = initiation[n]
                                     /\ mandate'[n] = mandate[n]
        /\ MandateInv(m)'
    <2>0. MandateInv(m) /\ subs[m] = 0 /\ stale[m] \in Nat
      BY <1>2 DEF IInv, TypeOK, MandateInv
    <2>1. CASE Check(m)
      <3>1. /\ request[m] = "new" /\ request' = [request EXCEPT ![m] = "checked"]
            /\ UNCHANGED <<now, initiation, subs, mandate, stale>>
        BY <2>1 DEF Check, dbVars, history
      <3> QED
        BY <1>1, <2>0, <3>1 DEF IInv, TypeOK, Requests, MandateInv, Expired
    <2>2. CASE CreateMandate(m)
      <3>1. /\ request[m] = "checked" /\ request' = [request EXCEPT ![m] = "made"]
            /\ mandate' = [mandate EXCEPT ![m] = "waiting"]
            /\ UNCHANGED <<now, initiation, subs, stale>>
        BY <2>2 DEF CreateMandate, dbVars, history
      <3> QED
        BY <1>1, <2>0, <3>1 DEF IInv, TypeOK, Requests, MandateInv, Expired
    <2>3. CASE StoreMandate(m)
      <3> DEFINE row == [NoRow EXCEPT !.st = "pending", !.born = now]
      <3>1. row \in Row /\ row.st = "pending"
        BY EnrollmentAssumption DEF NoRow, Row, Status, Times, NoTime, IInv, TypeOK
      <3>2. /\ initiation' = [initiation EXCEPT ![m] = row] /\ mandate' = mandate
            /\ request' = [request EXCEPT ![m] = "done"] /\ subs' = subs /\ stale' = stale
        BY <2>3 DEF StoreMandate, history
      <3> HIDE DEF row
      <3> QED
        BY <1>1, <2>0, <3>1, <3>2 DEF IInv, TypeOK, Requests, MandateInv
    <2>4. CASE CallFails(m)
      <3>1. PICK left \in {"none", "waiting", mandate[m]} :
              mandate' = [mandate EXCEPT ![m] = left]
        BY <2>4 DEF CallFails
      <3>2. request' = [request EXCEPT ![m] = "broken"] /\ UNCHANGED <<initiation, subs, stale>>
        BY <2>4 DEF CallFails, dbVars, history
      <3> QED
        BY <1>1, <1>2, <2>0, <3>1, <3>2 DEF IInv, TypeOK, Requests, MandateInv
    <2> QED
      BY <2>1, <2>2, <2>3, <2>4
  <1>4. /\ faults' \in 0 .. MaxFaults
        /\ \/ faults' = faults /\ request'[m] # "broken"
           \/ faults' = faults + 1
    BY <1>1, EnrollmentAssumption
    DEF Check, CreateMandate, StoreMandate, CallFails, Fault, IInv, TypeOK
  <1>5. TypeOK'
    BY <1>2, <1>3, <1>4 DEF IInv, TypeOK
  <1>6. ASSUME NEW w \in Pollers PROVE RunInv(w)'
    <2>1. poll[w].todo \subseteq Mandates /\ m \notin poll[w].todo
      BY <1>2 DEF IInv, TypeOK, Poll, RunInv
    <2>2. poll[w].cur # m
      BY <2>1, HeldCurrent
    <2>3. \A n \in poll[w].todo : request'[n] = request[n] /\ mandate'[n] = mandate[n]
      BY <1>3, <2>1
    <2>4. RunInv(w)
      BY DEF IInv
    <2> QED
      BY <1>2, <2>3, <2>4 DEF RunInv
  <1>7. ASSUME NEW n \in Mandates PROVE MandateInv(n)'
    <2>1. CASE n = m
      BY <1>3, <2>1
    <2>2. CASE n # m
      BY <1>2, <1>3, <2>2 DEF IInv, MandateInv, Expired
    <2> QED
      BY <2>1, <2>2
  <1>8. Cardinality(Broken') <= faults'
    <2>1. IsFiniteSet(Broken) /\ Cardinality(Broken) \in Nat /\ Cardinality(Broken) <= faults
      BY EnrollmentAssumption, FS_Subset, FS_CardinalityType DEF Broken, IInv
    <2>2. CASE faults' = faults /\ request'[m] # "broken"
      <3>1. Broken' \subseteq Broken
        BY <1>3, <2>2 DEF Broken
      <3>2. Cardinality(Broken') \in Nat /\ Cardinality(Broken') <= Cardinality(Broken)
        BY <2>1, <3>1, FS_Subset, FS_CardinalityType
      <3> QED
        BY <2>1, <2>2, <3>2 DEF IInv, TypeOK
    <2>3. CASE faults' = faults + 1
      <3>1. Broken' \subseteq Broken \cup {m}
        BY <1>3 DEF Broken
      <3>2. /\ IsFiniteSet(Broken \cup {m})
            /\ Cardinality(Broken \cup {m}) \in Nat
            /\ Cardinality(Broken \cup {m}) <= Cardinality(Broken) + 1
        BY <2>1, FS_AddElement, FS_CardinalityType
      <3>3. /\ Cardinality(Broken') \in Nat
            /\ Cardinality(Broken') <= Cardinality(Broken \cup {m})
        BY <3>1, <3>2, FS_Subset, FS_CardinalityType
      <3> QED
        BY <2>1, <2>3, <3>2, <3>3 DEF IInv, TypeOK
    <2> QED
      BY <1>4, <2>2, <2>3
  <1> QED
    BY <1>5, <1>6, <1>7, <1>8 DEF IInv

LEMMA BankStep ==
  ASSUME IInv, NEW m \in Mandates, Approve(m) \/ Delete(m)
  PROVE  IInv'
  <1>1. PICK new \in {"active", "deleted"} :
          /\ mandate' = [mandate EXCEPT ![m] = new]
          /\ mandate[m] \in {"waiting", "active"}
          /\ UNCHANGED <<now, initiation, subs, request, poll, heard, asked, waits, stale, faults>>
    BY DEF Approve, Delete, dbVars, history
  <1>2. TypeOK'
    BY <1>1 DEF IInv, TypeOK
  <1>3. ASSUME NEW w \in Pollers PROVE RunInv(w)'
    <2>1. poll[w].todo \subseteq Mandates /\ RunInv(w)
      BY DEF IInv, TypeOK, Poll
    <2>2. ASSUME poll[w].cur # NoMandate
          PROVE  /\ mandate[poll[w].cur] = "deleted" => mandate'[poll[w].cur] = "deleted"
                 /\ mandate[poll[w].cur] \in {"active", "deleted"} =>
                        mandate'[poll[w].cur] \in {"active", "deleted"}
      BY <1>1, <2>1, <2>2 DEF RunInv, IInv, TypeOK
    <2>3. poll'[w] = poll[w] /\ now' = now /\ request' = request
      BY <1>1
    <2> QED
      BY <2>1, <2>2, <2>3 DEF RunInv
  <1>4. ASSUME NEW n \in Mandates PROVE MandateInv(n)'
    <2>1. CASE n = m
      BY <1>1, <2>1 DEF IInv, TypeOK, MandateInv, Expired, Calls
    <2>2. CASE n # m
      BY <1>1, <2>2 DEF IInv, TypeOK, MandateInv, Expired
    <2> QED
      BY <2>1, <2>2
  <1>5. Broken' = Broken
    BY <1>1 DEF Broken
  <1> QED
    BY <1>1, <1>2, <1>3, <1>4, <1>5 DEF IInv

LEMMA TickStep ==
  ASSUME IInv, Tick
  PROVE  IInv'
  <1>1. /\ now \in Times /\ now' = now + 1 /\ now < MaxTime
        /\ UNCHANGED <<initiation, subs, request, poll, mandate, heard, asked, waits, stale, faults>>
    BY DEF Tick, dbVars, history, IInv, TypeOK
  <1>2. now' \in Times
    BY <1>1, EnrollmentAssumption DEF Times
  <1>3. TypeOK'
    BY <1>1, <1>2 DEF IInv, TypeOK
  <1>4. ASSUME NEW w \in Pollers PROVE RunInv(w)'
    <2>1. poll[w].at \in Times /\ RunInv(w)
      BY DEF IInv, TypeOK, Poll
    <2> QED
      BY <1>1, <2>1 DEF RunInv, Times
  <1>5. ASSUME NEW m \in Mandates PROVE MandateInv(m)'
    <2>1. initiation[m].born \in Times /\ MandateInv(m)
      BY DEF IInv, TypeOK, Row, Calls
    <2>2. Expired(initiation[m], now) => Expired(initiation[m], now')
      BY <1>1, <2>1, EnrollmentAssumption DEF Expired, Times
    <2> QED
      BY <1>1, <2>1, <2>2 DEF MandateInv, Expired
  <1>6. Broken' = Broken
    BY <1>1 DEF Broken
  <1> QED
    BY <1>1, <1>3, <1>4, <1>5, <1>6 DEF IInv
-----------------------------------------------------------------------------
(* The theorems                                                            *)

LEMMA NextStep == IInv /\ [Next]_vars => IInv'
  <1> SUFFICES ASSUME IInv, [Next]_vars PROVE IInv'
    OBVIOUS
  <1>1. ASSUME NEW c \in Calls, Check(c) PROVE IInv'
    BY <1>1, OrderStep, MandateCallStep DEF Calls
  <1>2. ASSUME NEW o \in Orders, PlaceOrder(o) \/ PaymentSuccess(o) PROVE IInv'
    BY <1>2, OrderStep
  <1>3. ASSUME NEW m \in Mandates, CreateMandate(m) \/ StoreMandate(m) \/ CallFails(m)
        PROVE IInv'
    BY <1>3, MandateCallStep
  <1>4. ASSUME NEW m \in Mandates, Approve(m) \/ Delete(m) PROVE IInv'
    BY <1>4, BankStep
  <1>5. ASSUME NEW w \in Pollers, PollStep(w) PROVE IInv'
    BY <1>5, ExpireStep, BookStep, AskStatusStep, FailDeletedStep, ActivateStep,
       ActivateNothingStep DEF PollStep
  <1>6. ASSUME NEW w \in Pollers, Crash(w) \/ \E m \in Mandates : StepFails(w, m)
        PROVE IInv'
    BY <1>6, FaultStep
  <1>7. CASE UNCHANGED vars
    <2>1. UNCHANGED <<now, initiation, subs, request, poll, mandate, heard, asked, waits, stale, faults>>
      BY <1>7 DEF vars, dbVars, history
    <2>2. \A w \in Pollers : RunInv(w)'
      BY <2>1 DEF IInv, RunInv
    <2> QED
      BY <2>1, <2>2, LocalStep DEF IInv, TypeOK
  <1> QED
    BY <1>1, <1>2, <1>3, <1>4, <1>5, <1>6, <1>7, PollStartStep, TickStep DEF Next

LEMMA Inductive == Spec => []IInv
  BY InitIInv, NextStep, PTL DEF Spec

\* Rows, copies and histories keep their types.
THEOREM TypeCorrect == Spec => []TypeOK
  <1>1. IInv => TypeOK
    BY DEF IInv
  <1> QED
    BY <1>1, Inductive, PTL

\* However many runs of the poll overlap, crash or lose answers, a mandate gives
\* one subscription, and one more for each time a run acts on a row that another
\* run has changed (direct_debit_subscription.go:98 reads nothing again); without
\* such runs a subscription has its completed row, so no later run activates the
\* mandate again.
THEOREM ActivatedOnceCorrect == Spec => []ActivatedOnce
  <1>1. IInv => ActivatedOnce
    <2> SUFFICES ASSUME IInv, NEW m \in Mandates
                 PROVE  /\ subs[m] <= 1 + stale[m]
                        /\ initiation[m].st = "completed" => subs[m] > 0
                        /\ subs[m] > 0 /\ stale[m] = 0 => initiation[m].st = "completed"
      BY DEF ActivatedOnce
    <2>1. subs[m] \in Nat /\ stale[m] \in Nat /\ MandateInv(m)
      BY DEF IInv, TypeOK, Calls
    <2> QED
      BY <2>1 DEF MandateInv
  <1> QED
    BY <1>1, Inductive, PTL

\* At most one mandate per failed call exists at the bank and is unknown here.
LEMMA LostAreBroken ==
  ASSUME IInv
  PROVE  Cardinality({m \in Mandates : /\ mandate[m] # "none" /\ initiation[m].st = "absent"
                                       /\ request[m] # "made"}) <= faults
  <1> DEFINE Lost == {m \in Mandates : /\ mandate[m] # "none"
                                       /\ initiation[m].st = "absent"
                                       /\ request[m] # "made"}
  <1>1. Lost \subseteq Broken
    BY DEF IInv, TypeOK, MandateInv, Broken, Requests, Calls
  <1>2. IsFiniteSet(Broken) /\ Cardinality(Broken) \in Nat /\ Cardinality(Broken) <= faults
    BY EnrollmentAssumption, FS_Subset, FS_CardinalityType DEF Broken, IInv
  <1>3. Cardinality(Lost) \in Nat /\ Cardinality(Lost) <= Cardinality(Broken)
    BY <1>1, <1>2, FS_Subset, FS_CardinalityType
  <1> HIDE DEF Lost
  <1>4. Cardinality(Lost) <= faults
    BY <1>2, <1>3 DEF IInv, TypeOK
  <1> QED
    BY <1>4 DEF Lost

\* The poll gives a mandate up only when the bank deleted it or thirty days are
\* over, and activates it only when the bank approved it; no mandate is unknown
\* here unless a call failed.
THEOREM OutcomeBackedCorrect == Spec => []OutcomeBacked
  <1>1. IInv => OutcomeBacked
    BY LostAreBroken DEF IInv, MandateInv, OutcomeBacked
  <1> QED
    BY <1>1, Inductive, PTL
-----------------------------------------------------------------------------
(* The waits between two questions about a mandate                         *)

\* A copy that may be booked: too old, never polled or polled long enough ago.
Due(row, at) ==
    \/ Expired(row, at) \/ row.polled = NoTime
    \/ at > row.polled + nextPollDelay(row.polls)

\* The run is about to ask, and nobody has changed the row since it booked it.
Fresh(w, m) == At(w, m, "ask") /\ poll[w].row[m] = initiation[m]

RunSpaced(w, m) ==
    /\ m \in poll[w].todo =>
         /\ poll[w].row[m].polls <= initiation[m].polls
         /\ poll[w].pc = "next" \/ poll[w].cur # m => Due(poll[w].row[m], poll[w].at)
    /\ Fresh(w, m) =>
         /\ initiation[m].polled = poll[w].at
         /\ \A v \in Pollers \ {w} : ~Fresh(v, m)

\* As long as no run has acted on a changed row, only the run that wrote the row
\* last may ask.
SpacingInv(m) == stale[m] = 0 => \A w \in Pollers : RunSpaced(w, m)

\* What a step leaves of the run w's work on m.
Follows(w, m) ==
    /\ m \in poll'[w].todo =>
         /\ m \in poll[w].todo /\ poll'[w].row[m] = poll[w].row[m] /\ poll'[w].at = poll[w].at
         /\ poll'[w].pc = "next" \/ poll'[w].cur # m => poll[w].pc = "next" \/ poll[w].cur # m
    /\ At(w, m, "ask")' => At(w, m, "ask") /\ m \in poll'[w].todo
-----------------------------------------------------------------------------
LEMMA SpacingTypes ==
  ASSUME IInv, NEW m \in Mandates
  PROVE  /\ initiation[m] \in Row /\ initiation[m].polled \in Int /\ initiation[m].polls \in Nat
         /\ asked[m] \in Nat /\ waits[m] \in Nat /\ stale[m] \in Nat
         /\ \A w \in Pollers : poll[w] \in Poll /\ poll[w].at \in Nat
                               /\ poll[w].row[m] \in Row
  <1>1. initiation[m] \in Row /\ asked[m] \in Nat /\ waits[m] \in Nat /\ stale[m] \in Nat
    BY DEF IInv, TypeOK, Calls
  <1>2. ASSUME NEW w \in Pollers PROVE poll[w] \in Poll /\ poll[w].at \in Nat
                                       /\ poll[w].row[m] \in Row
    BY DEF IInv, TypeOK, Poll, Times
  <1>3. \A t \in Times \cup {NoTime} : t \in Int
    BY DEF Times, NoTime
  <1>4. initiation[m].polled \in Times \cup {NoTime} /\ initiation[m].polls \in Nat
    BY <1>1 DEF Row
  <1>5. initiation[m].polled \in Int
    BY <1>3, <1>4
  <1> QED
    BY <1>1, <1>2, <1>4, <1>5

LEMMA SameFollows ==
  ASSUME IInv, NEW w \in Pollers, NEW m \in Mandates, poll'[w] = poll[w]
  PROVE  Follows(w, m)
  BY HeldCurrent DEF Follows, At

\* A step that leaves the row and asks nothing.
LEMMA FollowStep ==
  ASSUME IInv, NEW m \in Mandates, SpacingInv(m), initiation'[m] = initiation[m],
         stale'[m] = stale[m], \A w \in Pollers : Follows(w, m)
  PROVE  SpacingInv(m)'
  <1>3. \A w \in Pollers : Fresh(w, m)' =>
                             Fresh(w, m) /\ m \in poll'[w].todo /\ poll'[w].at = poll[w].at
    BY DEF Follows, Fresh, At
  <1>4. ASSUME stale'[m] = 0, NEW w \in Pollers PROVE RunSpaced(w, m)'
    <2>1. RunSpaced(w, m) /\ Follows(w, m)
      BY <1>4 DEF SpacingInv
    <2>2. ASSUME m \in poll'[w].todo
          PROVE  /\ poll'[w].row[m].polls <= initiation'[m].polls
                 /\ poll'[w].pc = "next" \/ poll'[w].cur # m
                      => Due(poll'[w].row[m], poll'[w].at)
      BY <2>1, <2>2 DEF RunSpaced, Follows
    <2>3. ASSUME Fresh(w, m)'
          PROVE  /\ initiation'[m].polled = poll'[w].at
                 /\ \A v \in Pollers \ {w} : ~Fresh(v, m)'
      BY <1>3, <2>1, <2>3 DEF RunSpaced
    <2> QED
      BY <2>2, <2>3 DEF RunSpaced, Due, Expired
  <1> QED
    BY <1>4 DEF SpacingInv

LEMMA ContinueFollows ==
  ASSUME IInv, NEW w \in Pollers, NEW m \in poll[w].todo, Continue(w, m),
         poll[w].pc = "next" \/ poll[w].cur = m
  PROVE  /\ \A v \in Pollers, n \in Mandates : Follows(v, n)
         /\ m \notin poll'[w].todo /\ poll'[w].pc \in {"idle", "next"}
         /\ \A v \in Pollers \ {w} : poll'[v] = poll[v]
  <1>1. poll \in [Pollers -> Poll] /\ poll[w] \in Poll
    BY DEF IInv, TypeOK
  <1>2. PICK run : /\ run = IF poll[w].todo \ {m} = {} THEN Idle
                            ELSE [poll[w] EXCEPT !.pc = "next", !.todo = poll[w].todo \ {m},
                                                 !.cur = NoMandate, !.row[m] = NoRow]
                   /\ poll' = [poll EXCEPT ![w] = run]
    BY DEF Continue
  <1>3. \/ run.todo = {} /\ run.pc = "idle"
        \/ /\ run.pc = "next" /\ run.todo = poll[w].todo \ {m} /\ run.at = poll[w].at
           /\ \A n \in Mandates \ {m} : run.row[n] = poll[w].row[n]
    BY <1>1, <1>2 DEF Idle, Poll
  <1>4. poll'[w] = run /\ \A v \in Pollers \ {w} : poll'[v] = poll[v]
    BY <1>1, <1>2
  <1>5. ASSUME NEW n \in Mandates PROVE Follows(w, n)
    BY <1>3, <1>4 DEF Follows, At
  <1>6. ASSUME NEW v \in Pollers, NEW n \in Mandates, v # w PROVE Follows(v, n)
    BY <1>4, <1>6, SameFollows
  <1> QED
    BY <1>3, <1>4, <1>5, <1>6

LEMMA PollStartSpaced ==
  ASSUME IInv, NEW w \in Pollers, PollStart(w), NEW m \in Mandates, SpacingInv(m)
  PROVE  SpacingInv(m)'
  <1> DEFINE due == {n \in Mandates : /\ initiation[n].st = "pending"
                                      /\ \/ Expired(initiation[n], now)
                                         \/ mandateReadyToPoll(initiation[n], now)}
             rows == [n \in Mandates |-> IF n \in due THEN initiation[n] ELSE NoRow]
  <1>1. PICK run : /\ run = [Idle EXCEPT !.pc = "next", !.todo = due, !.at = now, !.row = rows]
                   /\ poll' = [poll EXCEPT ![w] = run]
    BY DEF PollStart
  <1>2. UNCHANGED <<initiation, stale>>
    BY DEF PollStart, dbVars, history
  <1>3. m \in due => /\ rows[m] = initiation[m] /\ Due(initiation[m], now)
    BY DEF mandateReadyToPoll, Due
  <1> HIDE DEF due, rows
  <1>4. run.pc = "next" /\ run.todo = due /\ run.at = now /\ run.row = rows
    BY <1>1 DEF Idle
  <1>5. poll'[w] = run /\ \A v \in Pollers \ {w} : poll'[v] = poll[v]
    BY <1>1 DEF IInv, TypeOK
  <1>6. \A v \in Pollers \ {w} : Follows(v, m)
    BY <1>5, SameFollows
  <1>7. ~Fresh(w, m)' /\ \A v \in Pollers \ {w} : Fresh(v, m)' => Fresh(v, m)
    BY <1>2, <1>4, <1>5 DEF Fresh, At
  <1>8. ASSUME stale'[m] = 0 PROVE RunSpaced(w, m)'
    <2>1. initiation[m].polls <= initiation[m].polls
      BY SpacingTypes
    <2>2. ASSUME m \in poll'[w].todo
          PROVE  /\ poll'[w].row[m].polls <= initiation'[m].polls
                 /\ Due(poll'[w].row[m], poll'[w].at)
      BY <1>2, <1>3, <1>4, <1>5, <2>1, <2>2
    <2> QED
      BY <1>7, <2>2 DEF RunSpaced, Due, Expired
  <1>9. ASSUME stale'[m] = 0, NEW v \in Pollers \ {w} PROVE RunSpaced(v, m)'
    <2>1. RunSpaced(v, m)
      BY <1>2, <1>9 DEF SpacingInv
    <2>2. ASSUME Fresh(v, m)' PROVE \A u \in Pollers \ {v} : ~Fresh(u, m)'
      BY <1>7, <2>1, <2>2 DEF RunSpaced
    <2>3. poll'[v] = poll[v]
      BY <1>5
    <2>4. Fresh(v, m)' <=> Fresh(v, m)
      BY <1>2, <2>3 DEF Fresh, At
    <2> QED
      BY <1>2, <2>1, <2>2, <2>3, <2>4 DEF RunSpaced, Due, Expired
  <1> QED
    BY <1>2, <1>8, <1>9 DEF SpacingInv

\* A run ends its work on m with a row that is no longer pending.
LEMMA EndedSpaced ==
  ASSUME IInv, NEW w \in Pollers, NEW m \in poll[w].todo, NEW st \in {"failed", "completed"},
         Store(w, m, [poll[w].row[m] EXCEPT !.st = st]), Continue(w, m),
         poll[w].pc = "next" \/ poll[w].cur = m,
         NEW n \in Mandates, SpacingInv(n)
  PROVE  SpacingInv(n)'
  <1>1. m \in Mandates /\ m \in Calls /\ n \in Calls
    BY Held DEF Calls
  <1>2. initiation \in [Calls -> Row] /\ stale \in [Mandates -> Nat]
    BY DEF IInv, TypeOK
  <1>3. /\ \A v \in Pollers, k \in Mandates : Follows(v, k)
        /\ m \notin poll'[w].todo /\ poll'[w].pc \in {"idle", "next"}
        /\ \A v \in Pollers \ {w} : poll'[v] = poll[v]
    BY ContinueFollows
  <1>4. CASE n # m
    <2>1. initiation'[n] = initiation[n] /\ stale'[n] = stale[n]
      BY <1>1, <1>2, <1>4 DEF Store
    <2> QED
      BY <1>3, <2>1, FollowStep
  <1>5. CASE n = m
    <2>1. PICK row : row = [poll[w].row[m] EXCEPT !.st = st] /\ initiation'[m] = row
      BY <1>1, <1>2 DEF Store
    <2>2. /\ row.st = st /\ row.polled = poll[w].row[m].polled /\ row.polls = poll[w].row[m].polls
      BY <2>1, Held DEF Row
    <2>3. stale'[m] = 0 => stale[m] = 0 /\ initiation[m] = poll[w].row[m]
      BY <1>1, <1>2 DEF Store
    <2>4. ASSUME NEW v \in Pollers PROVE ~Fresh(v, m)'
      <3>1. CASE v = w
        BY <1>3, <3>1 DEF Fresh, At
      <3>2. CASE v # w
        <4>1. poll'[v] = poll[v]
          BY <1>3, <3>2
        <4>2. poll[v].cur = m => poll[v].row[m].st = "pending"
          BY <1>1, HeldCurrent, Held
        <4> QED
          BY <2>1, <2>2, <4>1, <4>2 DEF Fresh, At
      <3> QED
        BY <3>1, <3>2
    <2>6. ASSUME stale'[m] = 0, NEW v \in Pollers PROVE RunSpaced(v, m)'
      <3>1. RunSpaced(v, m) /\ Follows(v, m)
        BY <1>1, <1>3, <1>5, <2>3, <2>6 DEF SpacingInv
      <3>2. initiation'[m].polls = initiation[m].polls
        BY <2>1, <2>2, <2>3, <2>6
      <3>3. ASSUME m \in poll'[v].todo
            PROVE  /\ poll'[v].row[m].polls <= initiation'[m].polls
                   /\ poll'[v].pc = "next" \/ poll'[v].cur # m
                        => Due(poll'[v].row[m], poll'[v].at)
        BY <3>1, <3>2, <3>3 DEF RunSpaced, Follows
      <3> QED
        BY <2>4, <3>3 DEF RunSpaced, Due, Expired
    <2> QED
      BY <1>5, <2>6 DEF SpacingInv
  <1> QED
    BY <1>4, <1>5

LEMMA BookSpaced ==
  ASSUME IInv, NEW w \in Pollers, NEW m \in Mandates, Book(w, m), NEW n \in Mandates, SpacingInv(n)
  PROVE  SpacingInv(n)'
  <1>1. /\ poll[w].pc = "next" /\ m \in poll[w].todo /\ ~Expired(poll[w].row[m], poll[w].at)
    BY DEF Book
  <1>2. PICK row : /\ row = [poll[w].row[m] EXCEPT !.polled = poll[w].at, !.polls = @ + 1]
                   /\ Store(w, m, row)
                   /\ poll' = [poll EXCEPT ![w].pc = "ask", ![w].cur = m, ![w].row[m] = row]
    BY DEF Book
  <1>3. PICK run : /\ run = [poll[w] EXCEPT !.pc = "ask", !.cur = m, !.row[m] = row]
                   /\ poll' = [poll EXCEPT ![w] = run]
    <2>1. w \in DOMAIN poll
      BY DEF IInv, TypeOK
    <2> QED
      BY <1>2, <2>1
  <1>4. poll \in [Pollers -> Poll] /\ poll[w] \in Poll /\ poll[w].row[m] \in Row
        /\ initiation \in [Calls -> Row] /\ stale \in [Mandates -> Nat] /\ m \in Calls
    BY <1>1, Held DEF IInv, TypeOK, Calls
  <1>5. row.polled = poll[w].at /\ row.polls = poll[w].row[m].polls + 1
    BY <1>2, <1>4 DEF Row
  <1>6. /\ run.pc = "ask" /\ run.cur = m /\ run.todo = poll[w].todo /\ run.at = poll[w].at
        /\ run.row[m] = row /\ \A k \in Mandates \ {m} : run.row[k] = poll[w].row[k]
    BY <1>3, <1>4 DEF Poll
  <1>7. poll'[w] = run /\ \A v \in Pollers \ {w} : poll'[v] = poll[v]
    BY <1>3, <1>4
  <1>8. initiation'[m] = row
        /\ (stale'[m] = 0 => stale[m] = 0 /\ initiation[m] = poll[w].row[m])
    BY <1>2, <1>4 DEF Store
  <1>9. CASE n # m
    <2>1. initiation'[n] = initiation[n] /\ stale'[n] = stale[n]
      BY <1>2, <1>4, <1>9 DEF Store, Calls
    <2>2. Follows(w, n)
      BY <1>1, <1>6, <1>7, <1>9 DEF Follows, At
    <2>3. \A v \in Pollers : Follows(v, n)
      BY <1>7, <2>2, SameFollows
    <2> QED
      BY <1>1, <2>1, <2>3, FollowStep
  <1>10. CASE n = m
    <2>2. SUFFICES ASSUME stale'[m] = 0 PROVE \A v \in Pollers : RunSpaced(v, m)'
      BY <1>10 DEF SpacingInv
    <2>3. /\ stale[m] = 0 /\ initiation[m] = poll[w].row[m]
          /\ \A v \in Pollers : RunSpaced(v, m)
      BY <1>8, <1>10, <2>2 DEF SpacingInv
    <2> DEFINE old == initiation[m]
    <2>4. old.polled \in Int /\ old.polls \in Nat /\ poll[w].at \in Nat
      BY SpacingTypes
    <2>8. initiation'[m].polls = old.polls + 1 /\ initiation'[m].polls - 1 = old.polls
      BY <1>5, <1>8, <2>3, <2>4
    <2>9. ASSUME NEW v \in Pollers \ {w} PROVE ~Fresh(v, m)'
      <3>1. poll'[v] = poll[v] /\ RunSpaced(v, m)
        BY <1>7, <2>3
      <3>2. ASSUME poll[v].cur = m PROVE poll[v].row[m].polls # initiation'[m].polls
        <4>1. m \in poll[v].todo
          BY <3>2, HeldCurrent
        <4>2. poll[v].row[m].polls <= old.polls
          BY <3>1, <4>1 DEF RunSpaced
        <4>3. poll[v].row[m].polls \in Nat
          BY SpacingTypes DEF Row
        <4> QED
          BY <2>4, <2>8, <4>2, <4>3
      <3> QED
        BY <3>1, <3>2 DEF Fresh, At
    <2>10. ASSUME NEW v \in Pollers \ {w} PROVE RunSpaced(v, m)'
      <3>1. poll'[v] = poll[v] /\ RunSpaced(v, m)
        BY <1>7, <2>3
      <3>2. ASSUME m \in poll[v].todo PROVE poll[v].row[m].polls <= initiation'[m].polls
        <4>1. poll[v].row[m].polls <= old.polls
          BY <3>1, <3>2 DEF RunSpaced
        <4>2. poll[v].row[m].polls \in Nat
          BY SpacingTypes DEF Row
        <4> QED
          BY <2>4, <2>8, <4>1, <4>2
      <3> QED
        BY <2>9, <3>1, <3>2 DEF RunSpaced, Due, Expired
    <2>11. RunSpaced(w, m)'
      <3>1. poll'[w].row[m].polls <= initiation'[m].polls
        BY <1>6, <1>7, <1>8, <2>4, <2>8
      <3>2. initiation'[m].polled = poll'[w].at
        BY <1>5, <1>6, <1>7, <1>8
      <3>5. poll'[w].pc # "next" /\ poll'[w].cur = m
        BY <1>6, <1>7
      <3> QED
        BY <2>9, <3>1, <3>2, <3>5 DEF RunSpaced
    <2> QED
      BY <2>10, <2>11
  <1> QED
    BY <1>9, <1>10

\* A run that has the answer of the bank asks no more.
LEMMA AskFollows ==
  ASSUME IInv, NEW w \in Pollers, NEW m \in Mandates, AskStatus(w, m)
  PROVE  /\ \A v \in Pollers, k \in Mandates : Follows(v, k)
         /\ poll'[w].pc # "ask" /\ \A v \in Pollers \ {w} : poll'[v] = poll[v]
  <1>1. At(w, m, "ask")
    BY DEF AskStatus
  <1>2. poll \in [Pollers -> Poll] /\ poll[w] \in Poll
    BY DEF IInv, TypeOK
  <1>3. m \in poll[w].todo
    BY <1>1, HeldCurrent DEF At
  <1>4. CASE Continue(w, m)
    BY <1>1, <1>3, <1>4, ContinueFollows DEF At
  <1>5. ASSUME NEW pc \in {"fail", "activate"}, poll' = [poll EXCEPT ![w].pc = pc]
        PROVE  /\ \A v \in Pollers, k \in Mandates : Follows(v, k)
               /\ poll'[w].pc # "ask" /\ \A v \in Pollers \ {w} : poll'[v] = poll[v]
    <2>1. /\ poll'[w].pc = pc /\ poll'[w].cur = m /\ poll'[w].todo = poll[w].todo
          /\ poll'[w].at = poll[w].at /\ poll'[w].row = poll[w].row
      BY <1>1, <1>2, <1>5 DEF Poll, At
    <2>2. \A v \in Pollers \ {w} : poll'[v] = poll[v]
      BY <1>2, <1>5
    <2>3. \A k \in Mandates : Follows(w, k)
      BY <1>1, <2>1 DEF Follows, At
    <2> QED
      BY <2>1, <2>2, <2>3, SameFollows
  <1> QED
    BY <1>4, <1>5 DEF AskStatus

LEMMA AskSpaced ==
  ASSUME IInv, NEW w \in Pollers, NEW m \in Mandates, AskStatus(w, m),
         NEW n \in Mandates, SpacingInv(n)
  PROVE  SpacingInv(n)'
  <1>1. /\ At(w, m, "ask") /\ UNCHANGED initiation
        /\ stale' = [stale EXCEPT ![m] = IF initiation[m] = poll[w].row[m] THEN @ ELSE @ + 1]
    BY DEF AskStatus, dbVars
  <1>2. poll \in [Pollers -> Poll] /\ poll[w] \in Poll /\ stale \in [Mandates -> Nat]
    BY DEF IInv, TypeOK
  <1>3. m \in poll[w].todo
    BY <1>1, HeldCurrent DEF At
  <1>4. /\ \A v \in Pollers, k \in Mandates : Follows(v, k)
        /\ poll'[w].pc # "ask" /\ \A v \in Pollers \ {w} : poll'[v] = poll[v]
    BY AskFollows
  <1>5. CASE n # m
    <2>1. stale'[n] = stale[n]
      BY <1>1, <1>2, <1>5
    <2> QED
      BY <1>1, <1>4, <2>1, FollowStep
  <1>6. CASE n = m
    <2>2. SUFFICES ASSUME stale'[m] = 0 PROVE \A v \in Pollers : RunSpaced(v, m)'
      BY <1>6 DEF SpacingInv
    <2>3. stale[m] = 0 /\ initiation[m] = poll[w].row[m]
      BY <1>1, <1>2, <2>2
    <2>4. Fresh(w, m) /\ \A v \in Pollers : RunSpaced(v, m)
      BY <1>1, <1>6, <2>3 DEF Fresh, SpacingInv
    <2>6. ASSUME NEW v \in Pollers PROVE ~Fresh(v, m)'
      <3>1. CASE v = w
        BY <1>4, <3>1 DEF Fresh, At
      <3>2. CASE v # w
        <4>1. ~Fresh(v, m) /\ poll'[v] = poll[v]
          BY <1>4, <2>4, <3>2 DEF RunSpaced
        <4> QED
          BY <1>1, <4>1 DEF Fresh, At
      <3> QED
        BY <3>1, <3>2
    <2>7. ASSUME NEW v \in Pollers PROVE RunSpaced(v, m)'
      <3>1. RunSpaced(v, m) /\ Follows(v, m)
        BY <1>4, <2>4
      <3>2. ASSUME m \in poll'[v].todo
            PROVE  /\ poll'[v].row[m].polls <= initiation'[m].polls
                   /\ poll'[v].pc = "next" \/ poll'[v].cur # m
                        => Due(poll'[v].row[m], poll'[v].at)
        BY <1>1, <3>1, <3>2 DEF RunSpaced, Follows
      <3> QED
        BY <2>6, <3>2 DEF RunSpaced, Due, Expired
    <2> QED
      BY <2>7
  <1> QED
    BY <1>5, <1>6

\* A step of a run that stores nothing and does not ask: it fails, dies or finds
\* nothing to activate.
LEMMA IdleFollows ==
  ASSUME IInv, NEW w \in Pollers,
         Crash(w) \/ \E m \in Mandates : StepFails(w, m) \/ ActivateNothing(w, m),
         NEW n \in Mandates
  PROVE  /\ UNCHANGED <<now, initiation, request, asked, waits, stale>>
         /\ \A v \in Pollers : Follows(v, n)
  <1>1. UNCHANGED <<now, initiation, request, asked, waits, stale>>
    BY DEF Crash, StepFails, ActivateNothing, dbVars, history
  <1>2. \A v \in Pollers : Follows(v, n)
    <2>1. CASE Crash(w)
      <3>1. poll'[w] = Idle /\ \A v \in Pollers \ {w} : poll'[v] = poll[v]
        BY <2>1 DEF Crash, IInv, TypeOK
      <3>2. Follows(w, n)
        BY <3>1 DEF Follows, At, Idle
      <3> QED
        BY <3>1, <3>2, SameFollows
    <2>2. ASSUME NEW m \in Mandates, StepFails(w, m) \/ ActivateNothing(w, m)
          PROVE  \A v \in Pollers : Follows(v, n)
      <3>1. m \in poll[w].todo /\ Continue(w, m) /\ (poll[w].pc = "next" \/ poll[w].cur = m)
        BY <2>2, HeldCurrent DEF StepFails, ActivateNothing, At
      <3> QED
        BY <3>1, ContinueFollows
    <2> QED
      BY <2>1, <2>2
  <1> QED
    BY <1>1, <1>2

\* No run works on a mandate that is being stored.
LEMMA StoreMandateSpaced ==
  ASSUME IInv, NEW m \in Mandates, StoreMandate(m), NEW n \in Mandates, SpacingInv(n)
  PROVE  SpacingInv(n)'
  <1>1. /\ request[m] = "made" /\ UNCHANGED <<poll, stale>>
        /\ initiation' = [initiation EXCEPT ![m] = [NoRow EXCEPT !.st = "pending", !.born = now]]
    BY DEF StoreMandate, history
  <1>2. initiation \in [Calls -> Row] /\ m \in Calls /\ n \in Calls
    BY DEF IInv, TypeOK, Calls
  <1>3. CASE n # m
    <2>1. initiation'[n] = initiation[n]
      BY <1>1, <1>2, <1>3
    <2>2. \A v \in Pollers : Follows(v, n)
      BY <1>1, SameFollows
    <2> QED
      BY <1>1, <2>1, <2>2, FollowStep
  <1>4. CASE n = m
    <2>2. \A v \in Pollers : m \notin poll[v].todo
      BY <1>1 DEF IInv, RunInv
    <2>3. \A v \in Pollers : poll[v].cur # m
      BY <2>2, HeldCurrent
    <2>4. \A v \in Pollers : RunSpaced(v, m)'
      BY <1>1, <2>2, <2>3 DEF RunSpaced, Fresh, At
    <2> QED
      BY <1>4, <2>4 DEF SpacingInv
  <1> QED
    BY <1>3, <1>4

\* The other calls, the bank and the clock.
LEMMA OutsideSpaced ==
  ASSUME IInv, NEW n \in Mandates, SpacingInv(n),
         \/ Tick \/ UNCHANGED vars
         \/ \E c \in Calls : Check(c)
         \/ \E o \in Orders : PlaceOrder(o) \/ PaymentSuccess(o)
         \/ \E m \in Mandates : CreateMandate(m) \/ CallFails(m) \/ Approve(m) \/ Delete(m)
  PROVE  SpacingInv(n)'
  <1>1. UNCHANGED <<poll, stale>>
    BY DEF Tick, vars, Check, PlaceOrder, PaymentSuccess, CreateMandate, CallFails, Approve, Delete,
           dbVars, history
  <1>2. n \in Calls /\ n \notin Orders /\ initiation \in [Calls -> Row]
    BY EnrollmentAssumption DEF IInv, TypeOK, Calls
  <1>3. initiation'[n] = initiation[n]
    BY <1>2 DEF Tick, vars, Check, PlaceOrder, PaymentSuccess, CreateMandate, CallFails, Approve,
                Delete, dbVars, history
  <1>5. \A v \in Pollers : Follows(v, n)
    BY <1>1, SameFollows
  <1> QED
    BY <1>1, <1>3, <1>5, FollowStep

LEMMA SpacingInit == Init => \A m \in Mandates : SpacingInv(m)
  <1> SUFFICES ASSUME Init, NEW m \in Mandates PROVE SpacingInv(m)
    OBVIOUS
  <1>1. \A w \in Pollers : RunSpaced(w, m)
    BY DEF Init, RunSpaced, Fresh, At, Idle
  <1> QED
    BY <1>1 DEF SpacingInv

LEMMA SpacingNext ==
  IInv /\ (\A m \in Mandates : SpacingInv(m)) /\ [Next]_vars => (\A m \in Mandates : SpacingInv(m))'
  <1> SUFFICES ASSUME IInv, \A m \in Mandates : SpacingInv(m), [Next]_vars, NEW n \in Mandates
               PROVE  SpacingInv(n)'
    OBVIOUS
  <1>1. SpacingInv(n)
    OBVIOUS
  <1>2. ASSUME NEW w \in Pollers, NEW m \in Mandates, Expire(w, m) PROVE SpacingInv(n)'
    <2>1. /\ m \in poll[w].todo /\ poll[w].pc = "next" /\ Continue(w, m)
          /\ Store(w, m, [poll[w].row[m] EXCEPT !.st = "failed"])
      BY <1>2 DEF Expire
    <2> QED
      BY <1>1, <2>1, EndedSpaced
  <1>3. ASSUME NEW w \in Pollers, NEW m \in Mandates, FailDeleted(w, m) PROVE SpacingInv(n)'
    <2>1. /\ poll[w].cur = m /\ Continue(w, m)
          /\ Store(w, m, [poll[w].row[m] EXCEPT !.st = "failed"])
      BY <1>3 DEF FailDeleted, At
    <2> QED
      BY <1>1, <2>1, HeldCurrent, EndedSpaced
  <1>4. ASSUME NEW w \in Pollers, NEW m \in Mandates, Activate(w, m) PROVE SpacingInv(n)'
    <2>1. /\ poll[w].cur = m /\ Continue(w, m)
          /\ Store(w, m, [poll[w].row[m] EXCEPT !.st = "completed"])
         
      BY <1>4 DEF Activate, At
    <2> QED
      BY <1>1, <2>1, HeldCurrent, EndedSpaced
  <1>5. ASSUME NEW w \in Pollers, PollStep(w) PROVE SpacingInv(n)'
    <2>1. ASSUME NEW m \in Mandates, ActivateNothing(w, m) PROVE SpacingInv(n)'
      BY <1>1, <2>1, IdleFollows, FollowStep
    <2> QED
      BY <1>1, <1>2, <1>3, <1>4, <1>5, <2>1, BookSpaced, AskSpaced DEF PollStep
  <1>6. ASSUME NEW w \in Pollers, Crash(w) \/ \E m \in Mandates : StepFails(w, m)
        PROVE  SpacingInv(n)'
    BY <1>1, <1>6, IdleFollows, FollowStep
  <1>7. ASSUME NEW w \in Pollers, PollStart(w) PROVE SpacingInv(n)'
    BY <1>1, <1>7, PollStartSpaced
  <1>8. ASSUME NEW m \in Mandates, StoreMandate(m) PROVE SpacingInv(n)'
    BY <1>1, <1>8, StoreMandateSpaced
  <1> QED
    BY <1>1, <1>5, <1>6, <1>7, <1>8, OutsideSpaced DEF Next

-----------------------------------------------------------------------------
(* What the questions keep to                                              *)

\* While no run has acted on a changed row: the row counts every question, and
\* the waits promised after them are over when the row is due again, or, if a
\* run is about to ask, when it was booked.
Paced(m) ==
    LET row == initiation[m] IN
    /\ row.polled = NoTime => asked[m] = 0 /\ waits[m] = 0
    /\ row.polled # NoTime => /\ asked[m] <= row.polls
                              /\ row.born + waits[m] <= row.polled + nextPollDelay(row.polls) + 1
    /\ \A w \in Pollers : Fresh(w, m) => /\ asked[m] < row.polls
                                         /\ row.born + waits[m] <= row.polled

PaceInv(m) ==
    /\ initiation[m].born <= now
    /\ \A w \in Pollers : m \in poll[w].todo => poll[w].row[m].born <= poll[w].at
    /\ request[m] # "done" => asked[m] = 0 /\ waits[m] = 0
    /\ stale[m] = 0 => Paced(m)

LEMMA PaceTypes ==
  ASSUME IInv, NEW m \in Mandates
  PROVE  /\ now \in Nat /\ asked[m] \in Nat /\ waits[m] \in Nat /\ stale[m] \in Nat
         /\ initiation[m].born \in Nat /\ initiation[m].polls \in Nat
         /\ initiation[m].polled \in Int
         /\ nextPollDelay(initiation[m].polls) \in Nat
         /\ \A w \in Pollers : /\ poll[w].at \in Nat /\ poll[w].at <= now
                               /\ poll[w].row[m] \in Row /\ poll[w].row[m].born \in Nat
  <1>1. initiation[m] \in Row /\ m \in Calls
    BY DEF IInv, TypeOK, Calls
  <1>2. \A row \in Row : row.born \in Nat
    BY DEF Row, Times
  <1>3. initiation[m].polls \in Nat /\ initiation[m].polled \in Int
    BY SpacingTypes
  <1>4. nextPollDelay(initiation[m].polls) \in Nat
    <2>1. PICK n \in Int : n = initiation[m].polls
      BY <1>3
    <2> QED
      BY <2>1, PromisedShorter
  <1>5. \A w \in Pollers : poll[w].at <= now
    BY DEF IInv, RunInv
  <1> QED
    BY <1>1, <1>2, <1>3, <1>4, <1>5, SpacingTypes DEF IInv, TypeOK, Times

\* A longer series of attempts is promised no shorter a wait.
LEMMA PromisedGrows ==
  ASSUME NEW n \in Int, NEW k \in Int, n <= k
  PROVE  Promised(n) \in Nat /\ Promised(k) \in Nat /\ Promised(n) <= Promised(k)
  <1> DEFINE few == {j \in DOMAIN Backoff : n <= Backoff[j].below}
             many == {j \in DOMAIN Backoff : k <= Backoff[j].below}
  <1>1. /\ Promised(n) = IF few = {} THEN LastWait ELSE Backoff[Level(few)].wait
        /\ Promised(k) = IF many = {} THEN LastWait ELSE Backoff[Level(many)].wait
    BY DEF Promised, Level
  <1>2. many \subseteq few /\ few \in SUBSET DOMAIN Backoff /\ many \in SUBSET DOMAIN Backoff
    <2>1. Backoff \in Seq([below : Nat, wait : Nat])
      BY EnrollmentAssumption
    <2>2. \A j \in DOMAIN Backoff : Backoff[j].below \in Nat
      <3>1. \A j \in DOMAIN Backoff : Backoff[j] \in [below : Nat, wait : Nat]
        BY <2>1, LenProperties
      <3> QED
        BY <3>1
    <2>3. \A j \in DOMAIN Backoff : k <= Backoff[j].below => n <= Backoff[j].below
      BY <2>2
    <2> QED
      BY <2>3
  <1>3. Promised(n) \in Nat /\ Promised(k) \in Nat
    BY PromisedShorter
  <1> HIDE DEF few, many
  <1>4. LastWait \in Nat
    BY EnrollmentAssumption
  <1>5. CASE few = {}
    BY <1>1, <1>2, <1>4, <1>5
  <1>6. CASE few # {} /\ many = {}
    BY <1>1, <1>2, <1>4, <1>6, LevelWait
  <1>7. CASE many # {}
    <2>1. few # {} /\ Level(many) \in few /\ Level(few) \in few
      BY <1>2, <1>7, LevelWait
    <2>2. Level(few) <= Level(many)
      BY <1>2, <2>1, LevelWait
    <2>3. Backoff[Level(few)].wait <= Backoff[Level(many)].wait
      <3>1. CASE Level(few) = Level(many)
        BY <1>1, <1>3, <1>7, <2>1, <3>1
      <3>2. CASE Level(few) # Level(many)
        <4>1. Level(few) \in DOMAIN Backoff /\ Level(many) \in DOMAIN Backoff
          BY <1>2, <2>1
        <4>2. DOMAIN Backoff \subseteq Int
          BY EnrollmentAssumption, LenProperties
        <4>3. Level(few) < Level(many)
          BY <2>2, <3>2, <4>1, <4>2
        <4> QED
          BY <4>1, <4>3, EnrollmentAssumption
      <3> QED
        BY <3>1, <3>2
    <2> QED
      BY <1>1, <1>3, <1>7, <2>1, <2>3
  <1> QED
    BY <1>5, <1>6, <1>7

\* A step that leaves the row and asks nothing.
LEMMA PaceFollows ==
  ASSUME IInv, NEW m \in Mandates, PaceInv(m), initiation'[m] = initiation[m],
         asked'[m] = asked[m], waits'[m] = waits[m], stale'[m] = 0 => stale[m] = 0,
         request'[m] # "done" => request[m] # "done",
         now' \in Int, now' >= now, \A w \in Pollers : Follows(w, m)
  PROVE  PaceInv(m)'
  <1>1. \A w \in Pollers : Fresh(w, m)' => Fresh(w, m)
    BY DEF Follows, Fresh, At
  <1>2. initiation'[m].born <= now'
    BY PaceTypes DEF PaceInv
  <1>3. \A w \in Pollers : m \in poll'[w].todo => poll'[w].row[m].born <= poll'[w].at
    BY DEF PaceInv, Follows
  <1>4. stale'[m] = 0 => Paced(m)'
    BY <1>1 DEF PaceInv, Paced
  <1> QED
    BY <1>2, <1>3, <1>4 DEF PaceInv

LEMMA PollStartPaced ==
  ASSUME IInv, NEW w \in Pollers, PollStart(w), NEW m \in Mandates, PaceInv(m)
  PROVE  PaceInv(m)'
  <1> DEFINE due == {n \in Mandates : /\ initiation[n].st = "pending"
                                      /\ \/ Expired(initiation[n], now)
                                         \/ mandateReadyToPoll(initiation[n], now)}
             rows == [n \in Mandates |-> IF n \in due THEN initiation[n] ELSE NoRow]
  <1>1. PICK run : /\ run = [Idle EXCEPT !.pc = "next", !.todo = due, !.at = now, !.row = rows]
                   /\ poll' = [poll EXCEPT ![w] = run]
    BY DEF PollStart
  <1>2. UNCHANGED <<now, initiation, asked, waits, stale, request>>
    BY DEF PollStart, dbVars, history
  <1>3. m \in due => rows[m] = initiation[m]
    OBVIOUS
  <1> HIDE DEF due, rows
  <1>4. run.pc = "next" /\ run.todo = due /\ run.at = now /\ run.row = rows
    BY <1>1 DEF Idle
  <1>5. poll'[w] = run /\ \A v \in Pollers \ {w} : poll'[v] = poll[v]
    BY <1>1 DEF IInv, TypeOK
  <1>6. \A v \in Pollers : Fresh(v, m)' => Fresh(v, m)
    BY <1>2, <1>4, <1>5 DEF Fresh, At
  <1>7. \A v \in Pollers : m \in poll'[v].todo => poll'[v].row[m].born <= poll'[v].at
    BY <1>3, <1>4, <1>5 DEF PaceInv
  <1> QED
    BY <1>2, <1>6, <1>7 DEF PaceInv, Paced

\* A run ends its work on m: nobody is about to ask any more.
LEMMA EndedPaced ==
  ASSUME IInv, NEW w \in Pollers, NEW m \in poll[w].todo, NEW st \in {"failed", "completed"},
         Store(w, m, [poll[w].row[m] EXCEPT !.st = st]), Continue(w, m),
         poll[w].pc = "next" \/ poll[w].cur = m, UNCHANGED <<now, asked, waits, request>>,
         NEW n \in Mandates, PaceInv(n)
  PROVE  PaceInv(n)'
  <1>1. m \in Mandates /\ m \in Calls /\ n \in Calls
    BY Held DEF Calls
  <1>2. initiation \in [Calls -> Row] /\ stale \in [Mandates -> Nat]
    BY DEF IInv, TypeOK
  <1>3. /\ \A v \in Pollers, k \in Mandates : Follows(v, k)
        /\ m \notin poll'[w].todo /\ poll'[w].pc \in {"idle", "next"}
        /\ \A v \in Pollers \ {w} : poll'[v] = poll[v]
    BY ContinueFollows
  <1>4. CASE n # m
    <2>1. initiation'[n] = initiation[n] /\ stale'[n] = stale[n]
      BY <1>1, <1>2, <1>4 DEF Store
    <2> QED
      BY <1>3, <2>1, PaceFollows, PaceTypes
  <1>5. CASE n = m
    <2>1. PICK row : row = [poll[w].row[m] EXCEPT !.st = st] /\ initiation'[m] = row
      BY <1>1, <1>2 DEF Store
    <2>2. /\ row.st = st /\ row.polled = poll[w].row[m].polled /\ row.polls = poll[w].row[m].polls
          /\ row.born = poll[w].row[m].born
      BY <2>1, Held DEF Row
    <2>3. stale'[m] = 0 => stale[m] = 0 /\ initiation[m] = poll[w].row[m]
      BY <1>1, <1>2 DEF Store
    <2>4. ASSUME NEW v \in Pollers PROVE ~Fresh(v, m)'
      <3>1. CASE v = w
        BY <1>3, <3>1 DEF Fresh, At
      <3>2. CASE v # w
        <4>1. poll'[v] = poll[v]
          BY <1>3, <3>2
        <4>2. poll[v].cur = m => poll[v].row[m].st = "pending"
          BY <1>1, HeldCurrent, Held
        <4> QED
          BY <2>1, <2>2, <4>1, <4>2 DEF Fresh, At
      <3> QED
        BY <3>1, <3>2
    <2>5. initiation'[m].born <= now'
      <3>1. poll[w].row[m].born <= poll[w].at /\ poll[w].row[m].born \in Nat
            /\ poll[w].at \in Nat /\ poll[w].at <= now /\ now \in Nat
        BY <1>1, <1>5, PaceTypes DEF PaceInv
      <3> QED
        BY <2>1, <2>2, <3>1
    <2>6. \A v \in Pollers : m \in poll'[v].todo => poll'[v].row[m].born <= poll'[v].at
      BY <1>1, <1>3, <1>5 DEF PaceInv, Follows
    <2>7. ASSUME stale'[m] = 0 PROVE Paced(m)'
      <3>1. /\ Paced(m) /\ initiation'[m].polled = initiation[m].polled
            /\ initiation'[m].polls = initiation[m].polls
            /\ initiation'[m].born = initiation[m].born
        BY <1>5, <2>1, <2>2, <2>3, <2>7 DEF PaceInv
      <3> QED
        BY <2>4, <3>1 DEF Paced, nextPollDelay
    <2> QED
      BY <1>5, <2>5, <2>6, <2>7 DEF PaceInv
  <1> QED
    BY <1>4, <1>5

\* The booking takes place after the waits of all the questions so far.
LEMMA BookPaced ==
  ASSUME IInv, NEW w \in Pollers, NEW m \in Mandates, Book(w, m),
         NEW n \in Mandates, PaceInv(n), SpacingInv(n)
  PROVE  PaceInv(n)'
  <1>1. /\ poll[w].pc = "next" /\ m \in poll[w].todo /\ ~Expired(poll[w].row[m], poll[w].at)
        /\ UNCHANGED <<now, asked, waits, request>>
    BY DEF Book
  <1>2. PICK row : /\ row = [poll[w].row[m] EXCEPT !.polled = poll[w].at, !.polls = @ + 1]
                   /\ Store(w, m, row)
                   /\ poll' = [poll EXCEPT ![w].pc = "ask", ![w].cur = m, ![w].row[m] = row]
    BY DEF Book
  <1>3. PICK run : /\ run = [poll[w] EXCEPT !.pc = "ask", !.cur = m, !.row[m] = row]
                   /\ poll' = [poll EXCEPT ![w] = run]
    <2>1. w \in DOMAIN poll
      BY DEF IInv, TypeOK
    <2> QED
      BY <1>2, <2>1
  <1>4. poll \in [Pollers -> Poll] /\ poll[w] \in Poll /\ poll[w].row[m] \in Row
        /\ initiation \in [Calls -> Row] /\ stale \in [Mandates -> Nat] /\ m \in Calls
    BY <1>1, Held DEF IInv, TypeOK, Calls
  <1>5. row.polled = poll[w].at /\ row.polls = poll[w].row[m].polls + 1
        /\ row.born = poll[w].row[m].born
    BY <1>2, <1>4 DEF Row
  <1>6. /\ run.pc = "ask" /\ run.cur = m /\ run.todo = poll[w].todo /\ run.at = poll[w].at
        /\ run.row[m] = row /\ \A k \in Mandates \ {m} : run.row[k] = poll[w].row[k]
    BY <1>3, <1>4 DEF Poll
  <1>7. poll'[w] = run /\ \A v \in Pollers \ {w} : poll'[v] = poll[v]
    BY <1>3, <1>4
  <1>8. initiation'[m] = row
        /\ (stale'[m] = 0 => stale[m] = 0 /\ initiation[m] = poll[w].row[m])
    BY <1>2, <1>4 DEF Store
  <1>9. CASE n # m
    <2>1. initiation'[n] = initiation[n] /\ stale'[n] = stale[n]
      BY <1>2, <1>4, <1>9 DEF Store, Calls
    <2>2. Follows(w, n)
      BY <1>1, <1>6, <1>7, <1>9 DEF Follows, At
    <2>3. \A v \in Pollers : Follows(v, n)
      BY <1>7, <2>2, SameFollows
    <2> QED
      BY <1>1, <2>1, <2>3, PaceFollows, PaceTypes
  <1>10. CASE n = m
    <2>1. /\ poll[w].row[m].born <= poll[w].at /\ poll[w].row[m].born \in Nat
          /\ poll[w].at \in Nat /\ poll[w].at <= now /\ now \in Nat
      BY <1>1, <1>10, PaceTypes DEF PaceInv
    <2>2. initiation'[m].born <= now'
      BY <1>1, <1>5, <1>8, <2>1
    <2>3. \A v \in Pollers : m \in poll'[v].todo => poll'[v].row[m].born <= poll'[v].at
      BY <1>1, <1>5, <1>6, <1>7, <1>10, <2>1 DEF PaceInv
    <2>4. ASSUME stale'[m] = 0 PROVE Paced(m)'
      <3>1. stale[m] = 0 /\ initiation[m] = poll[w].row[m] /\ Paced(m) /\ RunSpaced(w, m)
        BY <1>8, <1>10, <2>4 DEF PaceInv, SpacingInv
      <3> DEFINE old == initiation[m]
                 wait == nextPollDelay(old.polls)
                 at == poll[w].at
      <3>2. /\ old.born \in Nat /\ old.polls \in Nat /\ old.polled \in Int /\ wait \in Nat
            /\ asked[m] \in Nat /\ waits[m] \in Nat
        BY PaceTypes
      <3>3. old.polled = NoTime \/ at > old.polled + wait
        BY <1>1, <3>1 DEF RunSpaced, Due
      <3>4. asked[m] < old.polls + 1 /\ old.born + waits[m] <= at
        <4>1. CASE old.polled = NoTime
          <5>1. asked[m] = 0 /\ waits[m] = 0 /\ old.born <= at
            BY <2>1, <3>1, <4>1 DEF Paced
          <5> HIDE DEF old, wait, at
          <5> QED
            BY <3>2, <5>1
        <4>2. CASE old.polled # NoTime
          <5>1. /\ asked[m] <= old.polls /\ old.born + waits[m] <= old.polled + wait + 1
                /\ at > old.polled + wait /\ at \in Nat
            BY <2>1, <3>1, <3>3, <4>2 DEF Paced
          <5> HIDE DEF old, wait, at
          <5> QED
            BY <3>2, <5>1
        <4> QED
          BY <4>1, <4>2
      <3>5. /\ initiation'[m].born = old.born /\ initiation'[m].polled = at
            /\ initiation'[m].polls = old.polls + 1 /\ at \in Nat
        BY <1>5, <1>8, <2>1, <3>1
      <3>6. nextPollDelay(initiation'[m].polls) \in Nat
        <4>1. PICK k \in Int : k = initiation'[m].polls
          BY <3>2, <3>5
        <4> QED
          BY <4>1, PromisedShorter
      <3> HIDE DEF old, wait, at
      <3>7. /\ asked'[m] < initiation'[m].polls
            /\ initiation'[m].born + waits'[m] <= initiation'[m].polled
        BY <1>1, <3>4, <3>5
      <3>8. /\ asked'[m] <= initiation'[m].polls
            /\ initiation'[m].born + waits'[m]
                 <= initiation'[m].polled + nextPollDelay(initiation'[m].polls) + 1
        <4>1. PICK k \in Nat : k = nextPollDelay(initiation'[m].polls)
          BY <3>6
        <4>2. /\ asked'[m] \in Nat /\ waits'[m] \in Nat /\ initiation'[m].polls \in Nat
              /\ initiation'[m].born \in Nat /\ initiation'[m].polled \in Nat
          BY <1>1, <3>2, <3>5
        <4>3. /\ asked'[m] <= initiation'[m].polls
              /\ initiation'[m].born + waits'[m] <= initiation'[m].polled + k + 1
          BY <3>7, <4>1, <4>2
        <4> QED
          BY <4>1, <4>3
      <3>9. initiation'[m].polled # NoTime
        BY <3>5 DEF NoTime
      <3> QED
        BY <3>7, <3>8, <3>9 DEF Paced, nextPollDelay
    <2> QED
      BY <1>1, <1>10, <2>2, <2>3, <2>4 DEF PaceInv
  <1> QED
    BY <1>9, <1>10

\* A question is asked by the one run that holds the row as it is; the wait
\* promised after it is no longer than the one the row keeps.
LEMMA AskPaced ==
  ASSUME IInv, NEW w \in Pollers, NEW m \in Mandates, AskStatus(w, m),
         NEW n \in Mandates, PaceInv(n), SpacingInv(n)
  PROVE  PaceInv(n)'
  <1>1. /\ At(w, m, "ask") /\ UNCHANGED <<now, initiation, request>>
        /\ asked' = [asked EXCEPT ![m] = @ + 1]
        /\ waits' = [waits EXCEPT ![m] = @ + Promised(asked[m] + 1) + 1]
        /\ stale' = [stale EXCEPT ![m] = IF initiation[m] = poll[w].row[m] THEN @ ELSE @ + 1]
    BY DEF AskStatus, Asked, dbVars
  <1>2. poll \in [Pollers -> Poll] /\ poll[w] \in Poll /\ stale \in [Mandates -> Nat]
        /\ asked \in [Mandates -> Nat] /\ waits \in [Mandates -> Nat]
    BY DEF IInv, TypeOK
  <1>3. m \in poll[w].todo
    BY <1>1, HeldCurrent DEF At
  <1>4. /\ \A v \in Pollers, k \in Mandates : Follows(v, k)
        /\ poll'[w].pc # "ask" /\ \A v \in Pollers \ {w} : poll'[v] = poll[v]
    BY AskFollows
  <1>5. CASE n # m
    <2>1. asked'[n] = asked[n] /\ waits'[n] = waits[n] /\ stale'[n] = stale[n]
      BY <1>1, <1>2, <1>5
    <2> QED
      BY <1>1, <1>4, <2>1, PaceFollows, PaceTypes
  <1>6. CASE n = m
    <2>1. request[m] = "done"
      BY <1>1, <1>3, Held
    <2>2. \A v \in Pollers : m \in poll'[v].todo => poll'[v].row[m].born <= poll'[v].at
      BY <1>4, <1>6 DEF PaceInv, Follows
    <2>3. ASSUME stale'[m] = 0 PROVE Paced(m)'
      <3>1. stale[m] = 0 /\ initiation[m] = poll[w].row[m]
        BY <1>1, <1>2, <2>3
      <3>2. Fresh(w, m) /\ Paced(m) /\ \A v \in Pollers : RunSpaced(v, m)
        BY <1>1, <1>6, <3>1 DEF Fresh, SpacingInv, PaceInv
      <3>3. ASSUME NEW v \in Pollers PROVE ~Fresh(v, m)'
        <4>1. CASE v = w
          BY <1>4, <4>1 DEF Fresh, At
        <4>2. CASE v # w
          <5>1. ~Fresh(v, m) /\ poll'[v] = poll[v]
            BY <1>4, <3>2, <4>2 DEF RunSpaced
          <5> QED
            BY <1>1, <5>1 DEF Fresh, At
        <4> QED
          BY <4>1, <4>2
      <3> DEFINE row == initiation[m]
                 said == Promised(asked[m] + 1)
                 kept == nextPollDelay(row.polls)
      <3>4. /\ row.born \in Nat /\ row.polls \in Nat /\ row.polled \in Int /\ kept \in Nat
            /\ asked[m] \in Nat /\ waits[m] \in Nat
        BY PaceTypes
      <3>5. asked[m] < row.polls /\ row.born + waits[m] <= row.polled
        BY <3>2 DEF Paced
      <3>6. said \in Nat /\ said <= kept
        <4>1. PICK a \in Int, p \in Int : a = asked[m] + 1 /\ p = row.polls /\ a <= p
          BY <3>4, <3>5
        <4>2. /\ Promised(a) \in Nat /\ Promised(p) \in Nat /\ nextPollDelay(p) \in Nat
              /\ Promised(a) <= Promised(p) /\ Promised(p) <= nextPollDelay(p)
          BY <4>1, PromisedGrows, PromisedShorter
        <4>3. Promised(a) <= nextPollDelay(p)
          BY <4>2
        <4> QED
          BY <4>1, <4>2, <4>3
      <3>7. asked'[m] = asked[m] + 1 /\ waits'[m] = waits[m] + said + 1
        BY <1>1, <1>2
      <3>8. row.polled # NoTime
        <4>1. row.polled = poll[w].at
          BY <3>2 DEF RunSpaced
        <4> QED
          BY <4>1, PaceTypes DEF NoTime
      <3> HIDE DEF said, kept
      <3>9. asked'[m] <= row.polls /\ row.born + waits'[m] <= row.polled + kept + 1
        <4>1. PICK b \in Nat, q \in Int : b = row.born /\ q = row.polled
          BY <3>4
        <4>2. b + waits[m] + said + 1 <= q + kept + 1
          BY <3>4, <3>5, <3>6, <4>1
        <4> QED
          BY <3>4, <3>5, <3>6, <3>7, <4>1, <4>2
      <3> QED
        BY <1>1, <3>3, <3>8, <3>9 DEF Paced, kept, nextPollDelay
    <2> QED
      BY <1>1, <1>6, <2>1, <2>2, <2>3 DEF PaceInv
  <1> QED
    BY <1>5, <1>6

\* A mandate that is being stored was never asked about.
LEMMA StoreMandatePaced ==
  ASSUME IInv, NEW m \in Mandates, StoreMandate(m), NEW n \in Mandates, PaceInv(n)
  PROVE  PaceInv(n)'
  <1>1. /\ request[m] = "made" /\ UNCHANGED <<now, poll, asked, waits, stale>>
        /\ request' = [request EXCEPT ![m] = "done"]
        /\ initiation' = [initiation EXCEPT ![m] = [NoRow EXCEPT !.st = "pending", !.born = now]]
    BY DEF StoreMandate, history
  <1>2. /\ request \in [Calls -> Requests] /\ initiation \in [Calls -> Row]
        /\ m \in Calls /\ n \in Calls
    BY DEF IInv, TypeOK, Calls
  <1>3. CASE n # m
    <2>1. request'[n] = request[n] /\ initiation'[n] = initiation[n]
      BY <1>1, <1>2, <1>3
    <2>2. \A v \in Pollers : Follows(v, n)
      BY <1>1, SameFollows
    <2> QED
      BY <1>1, <2>1, <2>2, PaceFollows, PaceTypes
  <1>4. CASE n = m
    <2>1. /\ initiation'[m].polled = NoTime /\ initiation'[m].born = now
          /\ asked[m] = 0 /\ waits[m] = 0
      BY <1>1, <1>2, <1>4 DEF NoRow, PaceInv
    <2>2. \A v \in Pollers : m \notin poll[v].todo
      BY <1>1 DEF IInv, RunInv
    <2>3. \A v \in Pollers : poll[v].cur # m
      BY <2>2, HeldCurrent
    <2>4. Paced(m)'
      BY <1>1, <2>1, <2>3 DEF Paced, Fresh, At
    <2>5. now \in Nat
      BY PaceTypes
    <2> QED
      BY <1>1, <1>2, <1>4, <2>1, <2>2, <2>4, <2>5 DEF PaceInv
  <1> QED
    BY <1>3, <1>4

\* The other calls, the bank and the clock.
LEMMA OutsidePaced ==
  ASSUME IInv, NEW n \in Mandates, PaceInv(n),
         \/ Tick \/ UNCHANGED vars
         \/ \E c \in Calls : Check(c)
         \/ \E o \in Orders : PlaceOrder(o) \/ PaymentSuccess(o)
         \/ \E m \in Mandates : CreateMandate(m) \/ CallFails(m) \/ Approve(m) \/ Delete(m)
  PROVE  PaceInv(n)'
  <1>1. UNCHANGED <<poll, asked, waits, stale>>
    BY DEF Tick, vars, Check, PlaceOrder, PaymentSuccess, CreateMandate, CallFails, Approve, Delete,
           dbVars, history
  <1>2. n \in Calls /\ n \notin Orders /\ initiation \in [Calls -> Row]
        /\ request \in [Calls -> Requests]
    BY EnrollmentAssumption DEF IInv, TypeOK, Calls
  <1>3. initiation'[n] = initiation[n]
    BY <1>2 DEF Tick, vars, Check, PlaceOrder, PaymentSuccess, CreateMandate, CallFails, Approve,
                Delete, dbVars, history
  <1>4. request'[n] # "done" => request[n] # "done"
    BY <1>2 DEF Tick, vars, Check, PlaceOrder, PaymentSuccess, CreateMandate, CallFails, Approve,
                Delete, dbVars, history
  <1>5. now' \in Int /\ now' >= now
    <2>1. now' = now \/ now' = now + 1
      BY DEF Tick, vars, Check, PlaceOrder, PaymentSuccess, CreateMandate, CallFails, Approve, Delete
    <2> QED
      BY <2>1, PaceTypes
  <1>6. \A v \in Pollers : Follows(v, n)
    BY <1>1, SameFollows
  <1> QED
    BY <1>1, <1>3, <1>4, <1>5, <1>6, PaceFollows

LEMMA PaceInit == Init => \A m \in Mandates : PaceInv(m)
  <1> SUFFICES ASSUME Init, NEW m \in Mandates PROVE PaceInv(m)
    OBVIOUS
  <1>1. /\ asked[m] = 0 /\ waits[m] = 0 /\ initiation[m] = NoRow /\ now = 0
        /\ \A w \in Pollers : poll[w] = Idle
    BY DEF Init, Calls
  <1> QED
    BY <1>1 DEF PaceInv, Paced, NoRow, Idle, Fresh, At

LEMMA PaceNext ==
  /\ IInv /\ (\A m \in Mandates : SpacingInv(m)) /\ (\A m \in Mandates : PaceInv(m))
  /\ [Next]_vars
  => (\A m \in Mandates : PaceInv(m))'
  <1> SUFFICES ASSUME IInv, \A m \in Mandates : SpacingInv(m), \A m \in Mandates : PaceInv(m),
                      [Next]_vars, NEW n \in Mandates
               PROVE  PaceInv(n)'
    OBVIOUS
  <1>1. SpacingInv(n) /\ PaceInv(n)
    OBVIOUS
  <1>2. ASSUME NEW w \in Pollers, NEW m \in Mandates, Expire(w, m) PROVE PaceInv(n)'
    <2>1. /\ m \in poll[w].todo /\ poll[w].pc = "next" /\ Continue(w, m)
          /\ Store(w, m, [poll[w].row[m] EXCEPT !.st = "failed"])
          /\ UNCHANGED <<now, asked, waits, request>>
      BY <1>2 DEF Expire
    <2> QED
      BY <1>1, <2>1, EndedPaced
  <1>3. ASSUME NEW w \in Pollers, NEW m \in Mandates, FailDeleted(w, m) PROVE PaceInv(n)'
    <2>1. /\ poll[w].cur = m /\ Continue(w, m)
          /\ Store(w, m, [poll[w].row[m] EXCEPT !.st = "failed"])
          /\ UNCHANGED <<now, asked, waits, request>>
      BY <1>3 DEF FailDeleted, At
    <2> QED
      BY <1>1, <2>1, HeldCurrent, EndedPaced
  <1>4. ASSUME NEW w \in Pollers, NEW m \in Mandates, Activate(w, m) PROVE PaceInv(n)'
    <2>1. /\ poll[w].cur = m /\ Continue(w, m)
          /\ Store(w, m, [poll[w].row[m] EXCEPT !.st = "completed"])
          /\ UNCHANGED <<now, asked, waits, request>>
      BY <1>4 DEF Activate, At
    <2> QED
      BY <1>1, <2>1, HeldCurrent, EndedPaced
  <1>5. ASSUME NEW w \in Pollers,
               Crash(w) \/ \E m \in Mandates : StepFails(w, m) \/ ActivateNothing(w, m)
        PROVE  PaceInv(n)'
    BY <1>1, <1>5, IdleFollows, PaceFollows, PaceTypes
  <1>6. ASSUME NEW w \in Pollers, PollStep(w) PROVE PaceInv(n)'
    BY <1>1, <1>2, <1>3, <1>4, <1>5, <1>6, BookPaced, AskPaced DEF PollStep
  <1>7. ASSUME NEW w \in Pollers, PollStart(w) PROVE PaceInv(n)'
    BY <1>1, <1>7, PollStartPaced
  <1>8. ASSUME NEW m \in Mandates, StoreMandate(m) PROVE PaceInv(n)'
    BY <1>1, <1>8, StoreMandatePaced
  <1> QED
    BY <1>1, <1>5, <1>6, <1>7, <1>8, OutsidePaced DEF Next

\* Who asks while no row was stale has the row as it is, so the waits are over.
LEMMA AskedInTime ==
  ASSUME IInv, \A m \in Mandates : SpacingInv(m), \A m \in Mandates : PaceInv(m), [Next]_vars,
         NEW m \in Mandates, asked'[m] # asked[m], stale'[m] = 0
  PROVE  now >= initiation[m].born + waits[m]
  <1>1. PICK w \in Pollers : AskStatus(w, m)
    <2>1. asked \in [Mandates -> Nat]
      BY DEF IInv, TypeOK
    <2>2. asked' # asked
      OBVIOUS
    <2>3. PICK w \in Pollers, n \in Mandates : AskStatus(w, n)
      <3>1. UNCHANGED vars \/ Tick => asked' = asked
        BY DEF vars, history, Tick
      <3>2. ASSUME NEW c \in Calls, Check(c) PROVE asked' = asked
        BY <3>2 DEF Check, history
      <3>3. ASSUME NEW o \in Orders, PlaceOrder(o) \/ PaymentSuccess(o) PROVE asked' = asked
        BY <3>3 DEF PlaceOrder, PaymentSuccess, history
      <3>4. ASSUME NEW k \in Mandates,
                   CreateMandate(k) \/ StoreMandate(k) \/ CallFails(k) \/ Approve(k) \/ Delete(k)
            PROVE  asked' = asked
        BY <3>4 DEF CreateMandate, StoreMandate, CallFails, Approve, Delete, history
      <3>5. ASSUME NEW w \in Pollers, NEW k \in Mandates,
                   StepFails(w, k) \/ Expire(w, k) \/ Book(w, k) \/ FailDeleted(w, k)
                   \/ Activate(w, k) \/ ActivateNothing(w, k)
            PROVE  asked' = asked
        BY <3>5 DEF StepFails, Expire, Book, FailDeleted, Activate, ActivateNothing, history
      <3>6. ASSUME NEW w \in Pollers, PollStart(w) \/ Crash(w) PROVE asked' = asked
        BY <3>6 DEF PollStart, Crash, history
      <3> QED
        BY <2>2, <3>1, <3>2, <3>3, <3>4, <3>5, <3>6 DEF Next, PollStep
    <2>4. asked' = [asked EXCEPT ![n] = @ + 1]
      BY <2>3 DEF AskStatus, Asked
    <2>5. n = m
      BY <2>1, <2>4
    <2> QED
      BY <2>3, <2>5
  <1>2. At(w, m, "ask") /\ stale[m] = 0 /\ initiation[m] = poll[w].row[m]
    BY <1>1 DEF AskStatus, IInv, TypeOK
  <1>3. RunSpaced(w, m) /\ Fresh(w, m) /\ Paced(m)
    BY <1>2 DEF SpacingInv, Fresh, PaceInv
  <1>4. /\ initiation[m].born + waits[m] <= initiation[m].polled
        /\ initiation[m].polled = poll[w].at /\ poll[w].at <= now
    BY <1>3, PaceTypes DEF RunSpaced, Paced
  <1>5. initiation[m].born \in Nat /\ waits[m] \in Nat /\ poll[w].at \in Nat /\ now \in Nat
    BY PaceTypes
  <1> QED
    BY <1>4, <1>5

LEMMA SpacingInductive ==
  Spec => [](IInv /\ (\A m \in Mandates : SpacingInv(m)) /\ \A m \in Mandates : PaceInv(m))
  <1>1. Spec => [](\A m \in Mandates : SpacingInv(m))
    BY SpacingInit, SpacingNext, Inductive, PTL DEF Spec
  <1>2. Spec => [](\A m \in Mandates : PaceInv(m))
    BY <1>1, PaceInit, PaceNext, Inductive, PTL DEF Spec
  <1> QED
    BY <1>1, <1>2, Inductive, PTL

\* The provider is asked about a mandate no faster than the comment of the poll
\* promises (direct_debit_backoff.go:16), unless a run acts on a row that another
\* one has changed: the waits promised after all the earlier questions have
\* passed since the mandate was stored, however late the runs ask, for every
\* back-off that grows.
THEOREM PollSpacingCorrect == Spec => PollSpacing
  <1> DEFINE InTime == \A m \in Mandates : asked'[m] # asked[m] /\ stale'[m] = 0
                                             => now >= initiation[m].born + waits[m]
  <1>1. /\ IInv /\ (\A m \in Mandates : SpacingInv(m)) /\ (\A m \in Mandates : PaceInv(m))
        /\ [Next]_vars
        => InTime
    BY AskedInTime
  <1>2. Spec => [][InTime]_vars
    BY <1>1, SpacingInductive, PTL DEF Spec
  <1> QED
    BY <1>2 DEF PollSpacing
=============================================================================
