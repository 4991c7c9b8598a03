-------------------------- MODULE PatternExecutor --------------------------
(***************************************************************************)
(* One sample of one attempt at a temporal pattern                         *)
(* (src/trigger/executor.cpp): sequences of Wait, Next, Within and Hold    *)
(* steps, and finite state machines.  Pure operators, no state.            *)
(*                                                                         *)
(* A step or a transition reads its expression only through "known and     *)
(* true", so a sample is the set "holds" of the roots that are both.       *)
(***************************************************************************)
EXTENDS Naturals, Sequences

CONSTANT NoRoot     (* root == -1: an unconditional transition.            *)

SequenceStep(Roots) ==
  [kind : {"Wait", "Next", "Within", "Hold"}, root : Roots,
   minimum : Nat, maximum : Nat, cycles : Nat]

Transition(Roots) ==
  [from : Nat, root : Roots \cup {NoRoot}, next : Nat, trigger : BOOLEAN, terminal : Nat]

(* PatternState: the position in the program. Indices count from 0.        *)
PatternState == [index : Nat, age : Nat, held : Nat, fsm : Nat]

StartState(program) ==
  [index |-> 0, age |-> 0, held |-> 0,
   fsm |-> IF program.kind = "Fsm" THEN program.start ELSE 0]

(* MatchCondition: a plain expression hits on every true sample, on the    *)
(* samples where it becomes true, or where it changes; a sample on which   *)
(* it is unknown neither hits nor is remembered.                           *)
Modes == {"Enter", "EachSample", "Change"}

Hits(current, mode, previous) ==
  CASE mode = "EachSample" -> current
    [] mode = "Enter"      -> current /\ ~previous
    [] OTHER               -> current # previous

MatchRemembersUnknown(known, current, mode, previous) ==     \* mutant
  [hit |-> known /\ Hits(current, mode, previous), previous |-> current]

MatchCondition(known, current, mode, previous) ==
  [hit      |-> known /\ Hits(current, mode, previous),
   previous |-> IF known THEN current ELSE previous]

-----------------------------------------------------------------------------
(* ProgramValidator                                                        *)

ValidStep(step) ==
  /\ step.kind = "Within" => step.minimum <= step.maximum
  /\ step.kind = "Hold" => step.cycles > 0

ValidSequence(steps, Roots) ==
  /\ steps \in Seq(SequenceStep(Roots)) /\ steps # << >>
  /\ \A i \in DOMAIN steps : ValidStep(steps[i])

ValidFsm(states, start, transitions, Roots) ==
  /\ start \in Nat /\ start < states
  /\ transitions \in Seq(Transition(Roots)) /\ transitions # << >>
  /\ \A i \in DOMAIN transitions : LET t == transitions[i] IN
       /\ t.from < states
       /\ ~t.trigger => t.next < states

(* Overlapping sequences start with Wait; without overlap there is one     *)
(* attempt at a time.                                                      *)
ValidOverlap(program, overlap, max_active) ==
  /\ max_active > 0
  /\ ~overlap => max_active = 1
  /\ overlap /\ program.kind = "Sequence" => program.steps[1].kind = "Wait"

ValidProgram(program, overlap, max_active, Roots) ==
  /\ ValidOverlap(program, overlap, max_active)
  /\ CASE program.kind = "Expr" ->
            program.root \in Roots /\ program.mode \in Modes /\ ~overlap
       [] program.kind = "Sequence" -> ValidSequence(program.steps, Roots)
       [] program.kind = "Fsm" ->
            ValidFsm(program.states, program.start, program.transitions, Roots)

-----------------------------------------------------------------------------
(* PatternExecutor::AdvanceSequence                                        *)

WithinAge(step, state) == state.age + 1

(* Age counts the samples of a Within step, held the consecutive true      *)
(* samples of a Hold step.                                                 *)
Counted(step, state, holds) ==
  CASE step.kind = "Within" -> [state EXCEPT !.age = WithinAge(step, state)]
    [] step.kind = "Hold"   -> [state EXCEPT !.held = IF step.root \in holds
                                                      THEN @ + 1 ELSE 0]
    [] OTHER                -> state

StepExpiresEarly(step, counted) ==              \* mutant: one sample too soon
  step.kind = "Within" /\ counted.age >= step.maximum
StepExpires(step, counted) == step.kind = "Within" /\ counted.age > step.maximum

StepFails(step, counted, holds) ==
  \/ StepExpires(step, counted)
  \/ step.kind = "Next" /\ step.root \notin holds

StepCompletes(step, counted, holds) ==
  CASE step.kind = "Hold"   -> counted.held >= step.cycles
    [] step.kind = "Within" -> /\ counted.age \in step.minimum..step.maximum
                               /\ step.root \in holds
    [] OTHER                -> step.root \in holds

AdvanceSequence(steps, state, holds) ==
  LET step    == steps[state.index + 1]
      counted == Counted(step, state, holds)
      fails   == StepFails(step, counted, holds)
      done    == ~fails /\ StepCompletes(step, counted, holds)
      last    == state.index + 1 = Len(steps)
      At(i)   == [state EXCEPT !.index = i, !.age = 0, !.held = 0]
  IN [state     |-> IF fails \/ (done /\ last) THEN At(0)
                    ELSE IF done THEN At(state.index + 1) ELSE counted,
      completed |-> done /\ last,
      failed    |-> fails,
      expired   |-> StepExpires(step, counted),
      terminal  |-> 0]

(* PatternExecutor::AdvanceFsm: the first transition in declaration order  *)
(* that leaves the current state and whose condition is known true.  The   *)
(* attempt has failed when it is back in the start state.                  *)
Leaving(transitions, state, holds) ==
  {i \in DOMAIN transitions :
     /\ transitions[i].from = state.fsm
     /\ transitions[i].root \in holds \cup {NoRoot}}

AdvanceFsm(program, state, holds) ==
  LET able  == Leaving(program.transitions, state, holds)
      taken == program.transitions[CHOOSE i \in able : \A j \in able : i <= j]
      done  == able # {} /\ taken.trigger
      next  == IF able = {} \/ done THEN state ELSE [state EXCEPT !.fsm = taken.next]
  IN [state     |-> next,
      completed |-> done,
      failed    |-> ~done /\ next.fsm = program.start,
      expired   |-> FALSE,
      terminal  |-> IF done THEN taken.terminal ELSE 0]

Advance(program, state, holds) ==
  IF program.kind = "Fsm" THEN AdvanceFsm(program, state, holds)
  ELSE AdvanceSequence(program.steps, state, holds)
=============================================================================
