----------------------- MODULE PatternExecutor_proofs -----------------------
(***************************************************************************)
(* Lemmas about the executor: for any program the validator accepts it     *)
(* starts in a state and returns states.                                   *)
(***************************************************************************)
EXTENDS PatternExecutor, SequenceTheorems, WellFoundedInduction, TLAPS

(* Only the transitions of an FSM name states; a sequence counts its own.  *)
WellFormed(program, Roots) ==
  program.kind = "Fsm" =>
    ValidFsm(program.states, program.start, program.transitions, Roots)

(* A set of numbers that is not empty has a least one.                     *)
LEMMA LeastNumber ==
  ASSUME NEW S \in SUBSET Nat, S # {}
  PROVE  \E x \in S : \A y \in S : x <= y
<1> DEFINE R == {p \in Nat \X Nat : p[1] < p[2]}
<1>1. IsWellFoundedOn(R, Nat)
  BY NatLessThanWellFounded DEF OpToRel
<1>2. PICK x \in S : \A y \in S : <<y, x>> \notin R
  <2> HIDE DEF R
  <2> QED BY <1>1, WFMin
<1>3. \A y \in S : ~(y < x) /\ x \in Nat /\ y \in Nat
  BY <1>2
<1> QED BY <1>3

(* A set of numbers with a bound has a greatest one.                       *)
LEMMA GreatestNumber ==
  ASSUME NEW n \in Nat, NEW S \in SUBSET Nat, S # {}, \A x \in S : x <= n
  PROVE  \E x \in S : \A y \in S : x >= y
<1> DEFINE T == {k \in Nat : \E x \in S : k = n - x}
<1>1. T # {}
  <2>1. PICK x \in S : x <= n
    OBVIOUS
  <2>2. n - x \in T
    BY <2>1
  <2> QED BY <2>2
<1>2. PICK k \in T : \A j \in T : k <= j
  <2>1. T \in SUBSET Nat
    OBVIOUS
  <2> HIDE DEF T
  <2> QED BY <1>1, <2>1, LeastNumber
<1>3. PICK x \in S : k = n - x
  OBVIOUS
<1>4. ASSUME NEW y \in S
      PROVE  x >= y
  <2>1. n - y \in T
    OBVIOUS
  <2>2. n - x <= n - y
    BY <1>2, <1>3, <2>1
  <2> QED BY <2>2
<1> QED BY <1>4

LEMMA StartTyped ==
  ASSUME NEW program, NEW Roots, WellFormed(program, Roots)
  PROVE  StartState(program) \in PatternState
<1>1. program.kind = "Fsm" => program.start \in Nat
  BY DEF WellFormed, ValidFsm
<1> QED BY <1>1 DEF StartState, PatternState

LEMMA AdvanceTyped ==
  ASSUME NEW program, NEW Roots, NEW holds, NEW state \in PatternState,
         WellFormed(program, Roots)
  PROVE  Advance(program, state, holds).state \in PatternState
<1> DEFINE transitions == program.transitions
<1>1. CASE program.kind = "Fsm"
  <2> DEFINE able == Leaving(transitions, state, holds)
             i == CHOOSE k \in able : \A j \in able : k <= j
             taken == transitions[i]
  <2>1. transitions \in Seq(Transition(Roots))
    BY <1>1 DEF WellFormed, ValidFsm
  <2>2. Advance(program, state, holds).state =
          IF able = {} \/ taken.trigger THEN state ELSE [state EXCEPT !.fsm = taken.next]
    BY <1>1 DEF Advance, AdvanceFsm
  <2>3. ASSUME able # {}
        PROVE  taken.next \in Nat
    <3>1. DOMAIN transitions = 1..Len(transitions) /\ Len(transitions) \in Nat
      BY <2>1, LenProperties
    <3>2. able \subseteq 1..Len(transitions)
      BY <3>1 DEF Leaving
    <3>3. \E k \in able : \A j \in able : k <= j
      <4> HIDE DEF able
      <4> QED BY <2>3, <3>1, <3>2, LeastNumber
    <3>4. i \in 1..Len(transitions)
      BY <3>2, <3>3
    <3>5. taken \in Transition(Roots)
      BY <2>1, <3>4, ElementOfSeq
    <3> QED BY <3>5 DEF Transition
  <2> HIDE DEF able, i
  <2> QED BY <2>2, <2>3 DEF PatternState
<1>2. CASE program.kind # "Fsm"
  <2> DEFINE step == program.steps[state.index + 1]
             counted == Counted(step, state, holds)
  <2>1. counted \in PatternState
    BY DEF PatternState, Counted, WithinAge
  <2> DEFINE At(k) == [state EXCEPT !.index = k, !.age = 0, !.held = 0]
             next == Advance(program, state, holds).state
  <2>2. next = counted \/ next = At(0) \/ next = At(state.index + 1)
    BY <1>2 DEF Advance, AdvanceSequence
  <2>3. ASSUME NEW k \in Nat
        PROVE  At(k) \in PatternState
    BY DEF PatternState
  <2>4. state.index + 1 \in Nat
    BY DEF PatternState
  <2> HIDE DEF counted, next, At
  <2>5. next \in PatternState
    BY <2>1, <2>2, <2>3, <2>4
  <2> QED BY <2>5 DEF next
<1> QED BY <1>1, <1>2
(* What a step of a sequence makes of an attempt.                          *)
LEMMA CountedIs ==
  ASSUME NEW step, NEW state \in PatternState, NEW holds
  PROVE  Counted(step, state, holds) =
           [index |-> state.index, fsm |-> state.fsm,
            age  |-> IF step.kind = "Within" THEN state.age + 1 ELSE state.age,
            held |-> IF step.kind = "Hold"
                     THEN IF step.root \in holds THEN state.held + 1 ELSE 0
                     ELSE state.held]
BY SMTT(30) DEF Counted, WithinAge, PatternState

LEMMA CountedFields ==
  ASSUME NEW step, NEW state \in PatternState, NEW holds
  PROVE  /\ Counted(step, state, holds).index = state.index
         /\ Counted(step, state, holds).fsm = state.fsm
<1> DEFINE age  == IF step.kind = "Within" THEN state.age + 1 ELSE state.age
           held == IF step.kind = "Hold" THEN IF step.root \in holds THEN state.held + 1 ELSE 0
                   ELSE state.held
<1>1. Counted(step, state, holds) =
        [index |-> state.index, fsm |-> state.fsm, age |-> age, held |-> held]
  BY CountedIs, Zenon
<1> HIDE DEF age, held
<1> QED BY <1>1

Breaks(step, state, holds) == StepFails(step, Counted(step, state, holds), holds)
IsDone(step, state, holds) == /\ ~Breaks(step, state, holds)
                              /\ StepCompletes(step, Counted(step, state, holds), holds)
IsLate(step, state, holds) == StepExpires(step, Counted(step, state, holds))
AtStep(k, state) == [index |-> k, age |-> 0, held |-> 0, fsm |-> state.fsm]

LEMMA SequenceResult ==
  ASSUME NEW steps, NEW state \in PatternState, NEW holds
  PROVE  LET r == AdvanceSequence(steps, state, holds)
             step == steps[state.index + 1]
             last == state.index + 1 = Len(steps)
         IN  /\ r.failed <=> Breaks(step, state, holds)
             /\ r.expired <=> IsLate(step, state, holds)
             /\ r.completed <=> IsDone(step, state, holds) /\ last
             /\ Breaks(step, state, holds) => r.state = AtStep(0, state)
             /\ IsDone(step, state, holds) =>
                  r.state = AtStep(IF last THEN 0 ELSE state.index + 1, state)
             /\ ~Breaks(step, state, holds) /\ ~IsDone(step, state, holds) =>
                  r.state = Counted(step, state, holds)
<1> DEFINE r == AdvanceSequence(steps, state, holds)
           step == steps[state.index + 1]
           counted == Counted(step, state, holds)
           fails == StepFails(step, counted, holds)
           completes == StepCompletes(step, counted, holds)
           done == ~fails /\ completes
           last == state.index + 1 = Len(steps)
           At(k) == [state EXCEPT !.index = k, !.age = 0, !.held = 0]
           next == IF fails \/ (done /\ last) THEN At(0)
                   ELSE IF done THEN At(state.index + 1) ELSE counted
<1>1. r = [state |-> next, completed |-> done /\ last, failed |-> fails,
           expired |-> StepExpires(step, counted), terminal |-> 0]
  BY DEF AdvanceSequence
<1>2. ASSUME NEW k
      PROVE  At(k) = [index |-> k, age |-> 0, held |-> 0, fsm |-> state.fsm]
  <2>1. [state EXCEPT !.index = k]
          = [index |-> k, age |-> state.age, held |-> state.held, fsm |-> state.fsm]
    BY DEF PatternState
  <2>2. [[index |-> k, age |-> state.age, held |-> state.held, fsm |-> state.fsm]
           EXCEPT !.age = 0]
          = [index |-> k, age |-> 0, held |-> state.held, fsm |-> state.fsm]
    OBVIOUS
  <2>3. [[index |-> k, age |-> 0, held |-> state.held, fsm |-> state.fsm] EXCEPT !.held = 0]
          = [index |-> k, age |-> 0, held |-> 0, fsm |-> state.fsm]
    OBVIOUS
  <2> QED BY <2>1, <2>2, <2>3, Zenon
<1> HIDE DEF next, r, counted, fails, completes, last, At
<1>3. /\ r.state = next /\ (r.completed <=> done /\ last) /\ (r.failed <=> fails)
      /\ (r.expired <=> StepExpires(step, counted))
  BY <1>1, Zenon
<1>4. next = IF fails \/ (done /\ last) THEN At(0)
             ELSE IF done THEN At(state.index + 1) ELSE counted
  BY DEF next
<1>5. fails => r.state = AtStep(0, state)
  BY <1>2, <1>3, <1>4, Zenon DEF AtStep
<1>6. done => r.state = AtStep(IF last THEN 0 ELSE state.index + 1, state)
  BY <1>2, <1>3, <1>4, Zenon DEF AtStep
<1>7. ~fails /\ ~done => r.state = counted
  BY <1>3, <1>4, Zenon
<1> HIDE DEF done
<1>8. /\ fails <=> Breaks(step, state, holds)
      /\ done <=> IsDone(step, state, holds)
      /\ StepExpires(step, counted) <=> IsLate(step, state, holds)
  BY DEF fails, done, completes, counted, Breaks, IsDone, IsLate
<1> QED BY <1>3, <1>5, <1>6, <1>7, <1>8, Zenon DEF r, counted, last
=============================================================================
