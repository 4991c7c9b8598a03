---------------------------- MODULE XClock_proofs ----------------------------
(***************************************************************************)
(* Proofs about the clock, for any functions, bounds and re-entrant calls. *)
(***************************************************************************)
EXTENDS XClock, WellFoundedInduction, SequenceTheorems, TLAPS

(* A nonempty set of naturals has a least element: what stands in here for *)
(* induction.                                                              *)
LEMMA SmallestOf ==
  ASSUME NEW T, T \subseteq Nat, T # {}
  PROVE  \E m \in T : \A k \in T : m <= k
<1>1. PICK x \in T : \A y \in T : <<y, x>> \notin OpToRel(<, Nat)
  BY NatLessThanWellFounded, WFMin
<1>2. \A y \in T : ~(y < x)
  BY <1>1 DEF OpToRel
<1> QED BY <1>2

-----------------------------------------------------------------------------
(* Without: the recursive function in it exists, and what it returns.      *)

Entry(list, f, rest, i) ==
  IF i = 0 THEN << >>
  ELSE IF list[i] = f THEN rest[i - 1] ELSE Append(rest[i - 1], list[i])

Kept(list, f, n) == CHOOSE kept : kept = [i \in 0..n |-> Entry(list, f, kept, i)]

LEMMA KeptExists ==
  ASSUME NEW list, NEW f, NEW n \in Nat
  PROVE  \E kept : kept = [i \in 0..n |-> Entry(list, f, kept, i)]
<1> DEFINE Works(m) == \E kept : kept = [i \in 0..m |-> Entry(list, f, kept, i)]
           Fails == {m \in Nat : ~Works(m)}
<1>1. SUFFICES ASSUME Fails # {} PROVE FALSE
  OBVIOUS
<1>2. PICK m \in Fails : \A k \in Fails : m <= k
  <2>1. Fails \subseteq Nat
    OBVIOUS
  <2> HIDE DEF Fails
  <2> QED BY <1>1, <2>1, SmallestOf
<1>3. m # 0
  <2> DEFINE zero == [i \in 0..0 |-> << >>]
  <2>1. zero = [i \in 0..0 |-> Entry(list, f, zero, i)]
    BY DEF Entry
  <2>2. Works(0)
    BY <2>1
  <2> QED BY <2>2
<1>4. PICK kept : kept = [i \in 0..m-1 |-> Entry(list, f, kept, i)]
  <2>1. m - 1 \in Nat /\ m - 1 \notin Fails
    BY <1>2, <1>3
  <2> QED BY <2>1
<1> DEFINE more == [i \in 0..m |-> Entry(list, f, kept, i)]
<1>5. more = [i \in 0..m |-> Entry(list, f, more, i)]
  <2>1. \A i \in 0..m-1 : more[i] = kept[i]
    BY <1>4
  <2>2. ASSUME NEW i \in 0..m
        PROVE  Entry(list, f, kept, i) = Entry(list, f, more, i)
    <3>1. i # 0 => more[i - 1] = kept[i - 1]
      <4>1. i # 0 => i - 1 \in 0..m-1
        OBVIOUS
      <4> QED BY <4>1, <2>1
    <3> HIDE DEF more
    <3> QED BY <3>1 DEF Entry
  <2> QED BY <2>2
<1> QED BY <1>5

LEMMA WithoutType ==
  ASSUME NEW S, NEW list \in Seq(S), NEW f
  PROVE  Without(list, f) \in Seq(S \ {f})
<1> DEFINE kept == Kept(list, f, Len(list))
           Fails == {i \in 0..Len(list) : kept[i] \notin Seq(S \ {f})}
<1>1. kept = [i \in 0..Len(list) |-> Entry(list, f, kept, i)]
  BY KeptExists, SMTT(30) DEF Kept
<1>2. Without(list, f) = kept[Len(list)]
  BY DEF Without, Kept, Entry
<1> HIDE DEF kept
<1>3. ASSUME NEW i \in Fails, \A k \in Fails : i <= k
      PROVE  FALSE
  <2>1. kept[i] = Entry(list, f, kept, i)
    BY <1>1
  <2>2. CASE i = 0
    <3>1. kept[i] = << >>
      BY <2>1, <2>2 DEF Entry
    <3>2. << >> \in Seq(S \ {f})
      OBVIOUS
    <3> QED BY <3>1, <3>2
  <2>3. CASE i # 0
    <3>1. kept[i - 1] \in Seq(S \ {f})
      BY <1>3, <2>3
    <3>2. list[i] \in S
      BY <2>3
    <3>3. kept[i] = IF list[i] = f THEN kept[i - 1] ELSE Append(kept[i - 1], list[i])
      BY <2>1, <2>3 DEF Entry
    <3>4. kept[i] \in Seq(S \ {f})
      BY <3>1, <3>2, <3>3
    <3> QED BY <3>4
  <2> QED BY <2>2, <2>3
<1>4. Fails = {}
  <2>1. Fails \subseteq Nat
    OBVIOUS
  <2> HIDE DEF Fails
  <2> QED BY <1>3, <2>1, SmallestOf
<1> QED BY <1>2, <1>4

-----------------------------------------------------------------------------
(* The invariant.  Drive exclusion needs the types of the stack and of the *)
(* flags; the type of a frame needs that a half step being run is still to *)
(* be counted, or its countdown would leave the naturals.                  *)
HalfStepCounted == InHalfStep => Top.left # 0

IInv == TypeOK /\ DriveExclusion /\ TombstonesFlagged /\ HalfStepCounted

(* There is at most one frame, so changing or leaving it is simple.        *)
LEMMA OneFrame ==
  ASSUME TypeOK, DriveExclusion, ~Idle
  PROVE  /\ Len(stack) = 1 /\ Top \in Frame /\ Stage = Top.stage
         /\ \A f \in Frame : SetTop(f) => /\ stack' \in Seq(Frame)
                                         /\ Len(stack') = 1 /\ Top' = f
                                         /\ ~Idle' /\ Stage' = f.stage
         /\ Pop => Idle' /\ Len(stack') = 0 /\ stack' \in Seq(Frame) /\ Stage' = "user"
<1>1. Len(stack) = 1 /\ Top \in Frame /\ Stage = Top.stage
  <2>1. stack \in Seq(Frame) /\ stack # << >> /\ Len(stack) <= 1
    BY DEF TypeOK, DriveExclusion, Idle
  <2>2. Len(stack) \in Nat \ {0}
    BY <2>1, EmptySeq, Zenon
  <2>3. Len(stack) = 1
    <3>1. \A n \in Nat \ {0} : n <= 1 => n = 1
      OBVIOUS
    <3> QED BY <2>1, <2>2, <3>1, Zenon
  <2> QED BY <2>1, <2>3, ElementOfSeq DEF Top, Stage, Idle
<1>2. ASSUME NEW f \in Frame, SetTop(f)
      PROVE  stack' \in Seq(Frame) /\ Len(stack') = 1 /\ Top' = f /\ ~Idle' /\ Stage' = f.stage
  <2>1. stack' = [stack EXCEPT ![1] = f]
    BY <1>1, <1>2 DEF SetTop
  <2>2. stack \in Seq(Frame) /\ 1 \in 1..Len(stack)
    BY <1>1 DEF TypeOK
  <2>3. stack' \in Seq(Frame) /\ Len(stack') = 1 /\ stack'[1] = f
    BY <2>1, <2>2, <1>1, <1>2, ExceptSeq
  <2> QED BY <2>3 DEF Top, Idle, Stage
<1>3. ASSUME Pop PROVE Idle' /\ Len(stack') = 0 /\ stack' \in Seq(Frame) /\ Stage' = "user"
  <2>1. stack' = SubSeq(stack, 1, 0)
    BY <1>1, <1>3 DEF Pop, Front
  <2>2. stack' = << >>
    BY <2>1, <1>1 DEF TypeOK
  <2> QED BY <2>2 DEF Idle, Stage
<1> QED BY <1>1, <1>2, <1>3

(* A call that is entered finds the stack empty.                           *)
LEMMA PushIdle ==
  ASSUME TypeOK, Idle, NEW f \in Frame, Push(f)
  PROVE  stack' \in Seq(Frame) /\ Len(stack') = 1 /\ Top' = f /\ ~Idle' /\ Stage' = f.stage
<1>1. stack' = <<f>>
  BY DEF Idle, Push
<1> QED BY <1>1 DEF Idle, Top, Stage

(* The manual entry points and AcquireClock are rejected inside a half     *)
(* step: an unowned clock is then driven by a manual call, which is        *)
(* stepping.                                                               *)
LEMMA FreeMeansIdle ==
  ASSUME TypeOK, DriveExclusion, ~owned, ~stepping
  PROVE  Idle
<1>1. SUFFICES ASSUME ~Idle PROVE FALSE
  OBVIOUS
<1>2. Top \in Frame
  BY <1>1, OneFrame
<1>3. Top.call # "RunUntil" /\ Top.call \notin Manual
  BY <1>1 DEF DriveExclusion, TypeOK
<1> QED BY <1>2, <1>3 DEF Frame

LEMMA NotRunningMeansIdle ==
  ASSUME TypeOK, DriveExclusion, owned, ~EngineRunning
  PROVE  Idle
<1>1. SUFFICES ASSUME ~Idle PROVE FALSE
  OBVIOUS
<1>2. Len(stack) = 1 /\ Top.call = "RunUntil"
  BY <1>1, OneFrame DEF DriveExclusion
<1> QED BY <1>2 DEF EngineRunning, Top, TypeOK

LEMMA InitIInv == Init => IInv
<1> SUFFICES ASSUME Init PROVE IInv
  OBVIOUS
<1>1. callbacks \in [Edges -> Seq(Funcs \cup {NoFunc})] /\ stack \in Seq(Frame)
  BY DEF Init
<1>2. TypeOK
  BY <1>1 DEF Init, TypeOK, Edges
<1>3. DriveExclusion
  BY DEF Init, DriveExclusion, Idle, Stage
<1>4. TombstonesFlagged
  BY DEF Init, TombstonesFlagged
<1>5. HalfStepCounted
  BY DEF Init, HalfStepCounted, InHalfStep, Stage, Idle
<1> QED BY <1>2, <1>3, <1>4, <1>5 DEF IInv

(* The calls that enter the clock push one new frame f.                    *)
Entered(f) ==
  /\ f \in Frame /\ Push(f) /\ f.stage = "enter"
  /\ IF f.call \in Manual THEN ~owned /\ ~stepping ELSE owned /\ ~EngineRunning
  /\ UNCHANGED <<time, lists, control, in_callback, history>>

LEMMA EnterStep ==
  ASSUME IInv,
         \/ \E s \in 1..MaxCycles : Step(s)
         \/ StepHalf
         \/ \E n \in 1..2 * MaxCycles : RunUntil(n)
  PROVE  IInv' /\ \E f : Entered(f) /\ Idle /\ ~Idle' /\ Top' = f
<1>0. PICK f : Entered(f)
  <2>1. ASSUME NEW s \in 1..MaxCycles, Step(s)
        PROVE  Entered(NewFrame("Step", 2 * s))
    BY <2>1, BoundsAssumption DEF Step, NewFrame, Frame, StepGuard, CheckManualStep,
       Manual, Stages, Entered
  <2>2. ASSUME StepHalf
        PROVE  Entered(NewFrame("StepHalf", 1))
    BY <2>2 DEF StepHalf, NewFrame, Frame, StepHalfGuard, CheckManualStep, Manual, Stages,
       Entered
  <2>3. ASSUME NEW n \in 1..2 * MaxCycles, RunUntil(n)
        PROVE  Entered(NewFrame("RunUntil", n))
    BY <2>3, BoundsAssumption DEF RunUntil, NewFrame, Frame, Manual, Stages, Entered
  <2> QED BY <2>1, <2>2, <2>3
<1>1. /\ f \in Frame /\ Push(f) /\ f.stage = "enter"
      /\ IF f.call \in Manual THEN ~owned /\ ~stepping ELSE owned /\ ~EngineRunning
      /\ UNCHANGED <<time, lists, control, in_callback, history>>
  BY <1>0 DEF Entered
<1>2. Idle
  BY <1>1, FreeMeansIdle, NotRunningMeansIdle DEF IInv, TypeOK
<1>3. /\ stack' \in Seq(Frame) /\ Len(stack') = 1 /\ Top' = f /\ ~Idle'
      /\ Stage' = "enter"
  BY <1>1, <1>2, PushIdle DEF IInv
<1>4. stepping' = (f.call \in Manual)
  BY <1>1, <1>2 DEF Push, IInv, DriveExclusion, TypeOK
<1>5. TypeOK'
  BY <1>1, <1>3, <1>4 DEF IInv, TypeOK, time, lists, control, history
<1>6. DriveExclusion'
  <2>0. Len(stack') <= 1
    BY <1>3
  <2>1. stepping' <=> ~Idle' /\ Top'.call \in Manual
    BY <1>3, <1>4, Zenon
  <2>2. ~in_callback'
    BY <1>1, <1>2 DEF IInv, DriveExclusion, Stage
  <2>3. owned' <=> Top'.call = "RunUntil"
    BY <1>1, <1>3 DEF Frame, Manual, control
  <2> QED BY <2>0, <2>1, <2>2, <2>3, <1>3, Zenon DEF DriveExclusion
<1>7. TombstonesFlagged'
  BY <1>1 DEF IInv, TombstonesFlagged, lists
<1>8. HalfStepCounted'
  BY <1>3 DEF HalfStepCounted, InHalfStep
<1> QED BY <1>0, <1>2, <1>3, <1>5, <1>6, <1>7, <1>8 DEF IInv

(* The steps that leave it.                                                *)
LEMMA LeaveStep ==
  ASSUME IInv, ReturnFromDrive \/ RunUntilStops \/ Throws
  PROVE  IInv' /\ ~Idle /\ Idle' /\ owned' = owned
<1>1. /\ ~Idle /\ Pop
      /\ in_callback' = FALSE
      /\ ran' \in SUBSET Funcs /\ disturbed' \in BOOLEAN
      /\ UNCHANGED <<time, lists, control, dropped, driven>>
  BY DEF ReturnFromDrive, RunUntilStops, Throws, IInv, TypeOK, DriveExclusion, Stage,
     Idle, InHalfStep, history
<1>2. Idle' /\ Len(stack') = 0 /\ stack' \in Seq(Frame) /\ Stage' = "user"
  BY <1>1, OneFrame DEF IInv
<1>3. stepping' = FALSE
  BY <1>1 DEF Pop, IInv, TypeOK, DriveExclusion
<1>4. TypeOK'
  BY <1>1, <1>2, <1>3 DEF IInv, TypeOK, time, lists, control
<1>5. DriveExclusion'
  BY <1>1, <1>2, <1>3 DEF DriveExclusion
<1>6. TombstonesFlagged'
  BY <1>1 DEF IInv, TombstonesFlagged, lists
<1>7. HalfStepCounted'
  BY <1>2 DEF HalfStepCounted, InHalfStep
<1> QED BY <1>1, <1>2, <1>4, <1>5, <1>6, <1>7 DEF IInv, control

(* The steps that leave the call stack, the lease and the lists alone.     *)
LEMMA QuietStep ==
  ASSUME IInv,
         \/ AssertFails \/ Disable \/ Enable \/ Reset
         \/ \E rise \in BOOLEAN : default_stop_on_rise(rise)
         \/ UNCHANGED vars
  PROVE  IInv' /\ UNCHANGED <<stack, owned>>
<1>1. UNCHANGED <<lists, owned, stepping, in_callback, stack, ran, dropped, driven>>
  BY DEF AssertFails, Disable, Enable, Reset, default_stop_on_rise, vars, control, history
<1>2. /\ clk' \in Nat /\ half_tick' \in Nat /\ half_cycle_open' \in BOOLEAN
      /\ next_half_is_rise' \in BOOLEAN /\ stop_on_rise' \in BOOLEAN
      /\ phase' \in Edges /\ is_disable' \in BOOLEAN
      /\ halted' \in BOOLEAN /\ disturbed' \in BOOLEAN
  <2>1. CASE AssertFails
    BY <2>1 DEF AssertFails, IInv, TypeOK, time, history
  <2>2. CASE Disable \/ Enable
    BY <2>2 DEF Disable, Enable, IInv, TypeOK, time, history
  <2>3. CASE Reset
    BY <2>3 DEF Reset, ZeroTime, StopPhase, IInv, TypeOK, control, Edges, InHalfStep, Idle
  <2>4. ASSUME NEW rise \in BOOLEAN, default_stop_on_rise(rise)
        PROVE  /\ clk' \in Nat /\ half_tick' \in Nat /\ half_cycle_open' \in BOOLEAN
               /\ next_half_is_rise' \in BOOLEAN /\ stop_on_rise' \in BOOLEAN
               /\ phase' \in Edges /\ is_disable' \in BOOLEAN
               /\ halted' \in BOOLEAN /\ disturbed' \in BOOLEAN
    BY <2>4 DEF default_stop_on_rise, StopPhase, IInv, TypeOK, history, Edges
  <2>5. CASE UNCHANGED vars
    BY <2>5 DEF vars, IInv, TypeOK, time, control, history
  <2> QED BY <2>1, <2>2, <2>3, <2>4, <2>5, Zenon
<1>3. TypeOK'
  BY <1>1, <1>2 DEF IInv, TypeOK, lists
<1>4. DriveExclusion'
  BY <1>1 DEF IInv, DriveExclusion, Idle, Top, Stage
<1>5. TombstonesFlagged'
  BY <1>1 DEF IInv, TombstonesFlagged, lists
<1>6. HalfStepCounted'
  BY <1>1 DEF IInv, HalfStepCounted, InHalfStep, Stage, Idle, Top
<1> QED BY <1>1, <1>3, <1>4, <1>5, <1>6 DEF IInv

(* The lease changes hands at rest only.                                   *)
LEMMA LeaseStep ==
  ASSUME IInv, AcquireClock \/ ReleaseClock
  PROVE  IInv' /\ Idle /\ Idle'
<1>1. /\ Idle /\ owned' \in BOOLEAN
      /\ UNCHANGED <<time, lists, is_disable, stop_on_rise, halted, stepping,
                     in_callback, stack, history>>
  BY FreeMeansIdle, NotRunningMeansIdle DEF AcquireClock, ReleaseClock, IInv
<1>2. TypeOK'
  BY <1>1 DEF IInv, TypeOK, time, lists, history
<1>3. DriveExclusion'
  BY <1>1 DEF IInv, DriveExclusion, Idle, Top, Stage
<1>4. TombstonesFlagged'
  BY <1>1 DEF IInv, TombstonesFlagged, lists
<1>5. HalfStepCounted'
  BY <1>1 DEF IInv, HalfStepCounted, InHalfStep, Stage, Idle, Top
<1> QED BY <1>1, <1>2, <1>3, <1>4, <1>5 DEF IInv, Idle

(* The lists of a clock that owes no sweep hold functions only.            *)
LEMMA NothingOwed ==
  ASSUME IInv, ~callbacks_removed, NEW e \in Edges
  PROVE  callbacks[e] \in Seq(Funcs)
<1>1. callbacks[e] \in Seq(Funcs \cup {NoFunc})
  BY DEF IInv, TypeOK
<1>2. \A i \in 1..Len(callbacks[e]) : callbacks[e][i] \in Funcs
  BY <1>1, LenProperties, ElementOfSeq DEF IInv, TombstonesFlagged
<1> QED BY <1>1, <1>2

(* A list of functions holds no removed entry.                             *)
LEMMA NoTombstone ==
  ASSUME NEW list \in Seq(Funcs), NEW i \in DOMAIN list
  PROVE  list[i] # NoFunc
<1>1. i \in 1..Len(list)
  BY LenProperties
<1> QED BY <1>1, NoFuncAssumption

(* Registering and removing callbacks, from outside or from a callback.    *)
LEMMA ListsStep ==
  ASSUME IInv, NEW e \in Edges, NEW f,
         ClearCallBacks(e) \/ (f \in Funcs /\ (AddCallBack(e, f) \/ RemoveCallBack(e, f)))
  PROVE  IInv'
<1> DEFINE Entries == Funcs \cup {NoFunc}
<1>1. UNCHANGED <<time, control, stepping, in_callback, stack, disturbed, ran, driven>>
  BY DEF AddCallBack, ClearCallBacks, RemoveCallBack
<1>2. callbacks[e] \in Seq(Entries) /\ callbacks \in [Edges -> Seq(Entries)]
  BY DEF IInv, TypeOK
<1>3. PICK list \in Seq(Entries) :
        /\ callbacks' = [callbacks EXCEPT ![e] = list]
        /\ callbacks_removed' \in BOOLEAN
        /\ callbacks_removed => callbacks_removed'
        /\ ~callbacks_removed' => list \in Seq(Funcs)
  <2>0. callbacks_removed \in BOOLEAN
    BY DEF IInv, TypeOK
  <2>1. CASE f \in Funcs /\ AddCallBack(e, f)
    <3>1. Append(callbacks[e], f) \in Seq(Entries)
      BY <1>2, <2>1
    <3>2. ~callbacks_removed => Append(callbacks[e], f) \in Seq(Funcs)
      BY <2>1, NothingOwed
    <3> QED BY <2>0, <2>1, <3>1, <3>2 DEF AddCallBack
  <2>2. CASE ClearCallBacks(e)
    <3>1. << >> \in Seq(Entries) /\ << >> \in Seq(Funcs)
      OBVIOUS
    <3> QED BY <2>0, <2>2, <3>1 DEF ClearCallBacks
  <2>3. CASE f \in Funcs /\ RemoveCallBack(e, f) /\ ~in_callback
    <3>1. Without(callbacks[e], f) \in Seq(Entries)
      <4>1. Without(callbacks[e], f) \in Seq(Entries \ {f})
        BY <1>2, WithoutType
      <4> QED BY <4>1, SeqMonotonic
    <3>2. ~callbacks_removed => Without(callbacks[e], f) \in Seq(Funcs)
      <4>1. ASSUME ~callbacks_removed
            PROVE  Without(callbacks[e], f) \in Seq(Funcs \ {f})
        BY <4>1, NothingOwed, WithoutType
      <4> QED BY <4>1, SeqMonotonic
    <3> QED BY <2>0, <2>3, <3>1, <3>2 DEF RemoveCallBack, RemovedFrom
  <2>4. CASE f \in Funcs /\ RemoveCallBack(e, f) /\ in_callback
    <3>1. Tombstoned(callbacks[e], f) \in Seq(Entries)
      BY <1>2 DEF Tombstoned
    <3>2. ~callbacks_removed' => Tombstoned(callbacks[e], f) = callbacks[e] /\ ~callbacks_removed
      <4>1. SUFFICES ASSUME ~callbacks_removed'
            PROVE  Tombstoned(callbacks[e], f) = callbacks[e] /\ ~callbacks_removed
        OBVIOUS
      <4>2. ~callbacks_removed /\ \A i \in DOMAIN callbacks[e] : callbacks[e][i] # f
        BY <2>4, <4>1, Zenon DEF RemoveCallBack
      <4>3. callbacks[e] \in [1..Len(callbacks[e]) -> Entries]
        BY <1>2, LenProperties
      <4>4. Tombstoned(callbacks[e], f) = [i \in DOMAIN callbacks[e] |-> callbacks[e][i]]
        BY <4>2 DEF Tombstoned
      <4> QED BY <4>2, <4>3, <4>4
    <3> QED BY <2>0, <2>4, <3>1, <3>2, NothingOwed DEF RemoveCallBack, RemovedFrom
  <2> QED BY <2>1, <2>2, <2>3, <2>4
<1>4. dropped' \in SUBSET (Edges \X Funcs)
  BY DEF AddCallBack, ClearCallBacks, RemoveCallBack, IInv, TypeOK
<1>5. TypeOK'
  BY <1>1, <1>2, <1>3, <1>4 DEF IInv, TypeOK, time, control
<1>6. DriveExclusion'
  BY <1>1 DEF IInv, DriveExclusion, Idle, Top, Stage, control
<1>7. TombstonesFlagged'
  <2>1. ASSUME ~callbacks_removed', NEW d \in Edges
        PROVE  callbacks'[d] \in Seq(Funcs)
    BY <2>1, <1>2, <1>3, NothingOwed
  <2> QED BY <2>1, NoTombstone DEF TombstonesFlagged
<1>8. HalfStepCounted'
  BY <1>1 DEF IInv, HalfStepCounted, InHalfStep, Stage, Idle, Top
<1> QED BY <1>5, <1>6, <1>7, <1>8 DEF IInv

(* A step inside a call: it is still the one in progress.                  *)
SameCall == ~Idle /\ ~Idle' /\ Top'.call = Top.call /\ owned' = owned

(* The next half step, and the return of the coroutines after a cycle.     *)
LEMMA FrameStep ==
  ASSUME IInv, ~Idle, NEW f \in Frame, SetTop(f), f.call = Top.call,
         in_callback' <=> f.stage = "callbacks",
         UNCHANGED <<stepping, owned>>
  PROVE  /\ stack' \in Seq(Frame) /\ Top' = f /\ Stage' = f.stage
         /\ DriveExclusion' /\ SameCall
<1>1. stack' \in Seq(Frame) /\ Len(stack') = 1 /\ Top' = f /\ ~Idle' /\ Stage' = f.stage
  BY OneFrame DEF IInv
<1>2. Len(stack') <= 1
  BY <1>1
<1>3. (stepping <=> Top.call \in Manual) /\ (owned <=> Top.call = "RunUntil")
  BY Zenon DEF IInv, DriveExclusion
<1>4. DriveExclusion'
  BY <1>1, <1>2, <1>3, Zenon DEF DriveExclusion
<1> QED BY <1>1, <1>4 DEF SameCall

LEMMA HalfStep ==
  ASSUME IInv, BeginHalf \/ CoroutinesReturn
  PROVE  IInv' /\ SameCall
<1>1. ~Idle /\ Stage = Top.stage /\ Top \in Frame /\ ~in_callback
  <2>1. ~Idle /\ Stage # "callbacks"
    BY DEF BeginHalf, CoroutinesReturn, Stage
  <2> QED BY <2>1, OneFrame DEF IInv, DriveExclusion
<1>2. PICK f \in Frame :
        /\ SetTop(f) /\ f.call = Top.call
        /\ f.stage \in {"dut", "enter"} /\ f.left = Top.left
        /\ f.stage = "dut" => ~Stops(Top)
  <2>1. CASE BeginHalf
    <3> DEFINE starts == ~half_cycle_open
               rise   == IF starts THEN ~stop_on_rise ELSE next_half_is_rise
               f == [Top EXCEPT !.stage = "dut", !.starts = starts, !.rise = rise]
    <3>1. starts \in BOOLEAN /\ rise \in BOOLEAN
      BY DEF IInv, TypeOK
    <3>2. f \in Frame /\ f.call = Top.call /\ f.stage = "dut" /\ f.left = Top.left
      BY <1>1, <3>1 DEF Frame, Stages
    <3>3. SetTop(f) /\ ~Stops(Top)
      BY <2>1 DEF BeginHalf
    <3> HIDE DEF f
    <3> QED BY <3>2, <3>3
  <2>2. CASE CoroutinesReturn
    <3> DEFINE f == [Top EXCEPT !.stage = "enter"]
    <3>1. f \in Frame /\ f.call = Top.call /\ f.stage = "enter" /\ f.left = Top.left
      BY <1>1 DEF Frame, Stages
    <3>2. SetTop(f)
      BY <2>2 DEF CoroutinesReturn
    <3> HIDE DEF f
    <3> QED BY <3>1, <3>2
  <2> QED BY <2>1, <2>2
<1>3. UNCHANGED <<lists, control, stepping, in_callback, disturbed, ran, dropped>>
  BY DEF BeginHalf, CoroutinesReturn, history
<1>4. /\ clk' \in Nat /\ half_tick' \in Nat /\ half_cycle_open' \in BOOLEAN
      /\ next_half_is_rise' \in BOOLEAN /\ phase' \in Edges /\ driven' \in SUBSET Edges
  <2>1. CASE BeginHalf
    <3>1. /\ clk \in Nat /\ half_tick \in Nat /\ phase \in Edges /\ driven \in SUBSET Edges
          /\ stop_on_rise \in BOOLEAN /\ next_half_is_rise \in BOOLEAN
      BY DEF IInv, TypeOK
    <3>2. half_cycle_open' \in BOOLEAN /\ UNCHANGED <<half_tick, phase>>
      BY <2>1 DEF BeginHalf
    <3>3. clk' \in Nat
      BY <2>1, <3>1 DEF BeginHalf
    <3>4. next_half_is_rise' \in BOOLEAN
      BY <2>1, <3>1 DEF BeginHalf
    <3>5. driven' \in SUBSET Edges
      BY <2>1, <3>1, Zenon DEF BeginHalf
    <3> QED BY <3>1, <3>2, <3>3, <3>4, <3>5
  <2>2. CASE CoroutinesReturn
    BY <2>2 DEF CoroutinesReturn, IInv, TypeOK, time, history
  <2> QED BY <2>1, <2>2
<1>5. stack' \in Seq(Frame) /\ Top' = f /\ Stage' = f.stage /\ DriveExclusion' /\ SameCall
  <2>1. ~in_callback' /\ f.stage # "callbacks" /\ UNCHANGED <<stepping, owned>>
    BY <1>1, <1>2, <1>3 DEF control
  <2> QED BY <1>1, <1>2, <2>1, FrameStep
<1>6. TypeOK'
  BY <1>3, <1>4, <1>5 DEF IInv, TypeOK, lists, control
<1>7. TombstonesFlagged'
  BY <1>3 DEF IInv, TombstonesFlagged, lists
<1>8. HalfStepCounted'
  BY <1>2, <1>5 DEF HalfStepCounted, InHalfStep, Stops
<1> QED BY <1>5, <1>6, <1>7, <1>8 DEF IInv

(* The epilogue of a half step.                                            *)
LEMMA FinishStep ==
  ASSUME IInv, InHalfStep, FinishHalf(Top), ~in_callback',
         UNCHANGED <<clk, control, stepping>>
  PROVE  /\ stack' \in Seq(Frame) /\ DriveExclusion' /\ HalfStepCounted' /\ SameCall
         /\ half_tick' \in Nat /\ half_cycle_open' \in BOOLEAN
         /\ next_half_is_rise' \in BOOLEAN /\ phase' \in Edges /\ driven' \in SUBSET Edges
<1> DEFINE f == [Top EXCEPT !.stage = IF Top.starts THEN "enter" ELSE "await",
                            !.left = Top.left - 1, !.at = 0]
<1>1. ~Idle /\ Top \in Frame /\ Top.left - 1 \in Nat
  <2>1. ~Idle /\ Top.left # 0
    BY DEF IInv, HalfStepCounted, InHalfStep, Stage
  <2>2. Top \in Frame
    BY <2>1, OneFrame DEF IInv
  <2> QED BY <2>1, <2>2 DEF Frame
<1>2. f \in Frame /\ f.call = Top.call /\ f.stage \in {"enter", "await"}
  BY <1>1 DEF Frame, Stages
<1>3. SetTop(f)
  BY DEF FinishHalf
<1> HIDE DEF f
<1>4. stack' \in Seq(Frame) /\ Top' = f /\ Stage' = f.stage /\ DriveExclusion' /\ SameCall
  BY <1>1, <1>2, <1>3, FrameStep DEF control
<1>5. HalfStepCounted'
  BY <1>2, <1>4 DEF HalfStepCounted, InHalfStep
<1>6. /\ half_tick' \in Nat /\ half_cycle_open' \in BOOLEAN
      /\ next_half_is_rise' \in BOOLEAN /\ phase' \in Edges /\ driven' \in SUBSET Edges
  BY <1>1 DEF FinishHalf, EdgeOf, Edges, Frame, IInv, TypeOK
<1> QED BY <1>4, <1>5, <1>6

(* The lists after a pass: sweeping leaves functions only, and a pass with *)
(* nothing to sweep had no removed entry.                                  *)
LEMMA SweepStep ==
  ASSUME IInv, NEW f, EndPass(f)
  PROVE  /\ callbacks' \in [Edges -> Seq(Funcs \cup {NoFunc})]
         /\ callbacks_removed' = FALSE /\ TombstonesFlagged'
<1> DEFINE Entries == Funcs \cup {NoFunc}
<1>1. \A e \in Edges : callbacks'[e] \in Seq(Funcs)
  <2>1. CASE ~callbacks_removed
    BY <2>1, NothingOwed DEF EndPass
  <2>2. CASE callbacks_removed
    <3>1. ASSUME NEW e \in Edges PROVE Sweep(callbacks[e]) \in Seq(Funcs)
      <4>1. Without(callbacks[e], NoFunc) \in Seq(Entries \ {NoFunc})
        BY WithoutType DEF IInv, TypeOK
      <4>2. Entries \ {NoFunc} \subseteq Funcs
        OBVIOUS
      <4> HIDE DEF Entries
      <4> QED BY <4>1, <4>2, SeqMonotonic DEF Sweep
    <3> QED BY <2>2, <3>1 DEF EndPass, Swept
  <2> QED BY <2>1, <2>2
<1>2. callbacks' \in [Edges -> Seq(Entries)]
  <2>1. DOMAIN callbacks' = Edges /\ callbacks' = [e \in DOMAIN callbacks' |-> callbacks'[e]]
    BY DEF EndPass, Swept, IInv, TypeOK
  <2>2. \A e \in Edges : callbacks'[e] \in Seq(Entries)
    BY <1>1, SeqMonotonic
  <2> QED BY <2>1, <2>2
<1>3. TombstonesFlagged'
  BY <1>1, NoTombstone DEF TombstonesFlagged
<1> QED BY <1>2, <1>3 DEF EndPass

(* The next invocation: the least pending entry holds a function.          *)
LEMMA InvokeStep ==
  ASSUME IInv, InHalfStep, NEW i, Pending(Top, i) # {},
         Invoke(Top, CHOOSE j \in Pending(Top, i) : \A k \in Pending(Top, i) : j <= k),
         UNCHANGED <<clk, control, stepping>>
  PROVE  /\ stack' \in Seq(Frame) /\ DriveExclusion' /\ HalfStepCounted' /\ SameCall
         /\ ran' \in SUBSET Funcs
<1>1. ~Idle /\ Top \in Frame /\ Top.left # 0
  BY OneFrame DEF IInv, HalfStepCounted, InHalfStep, Stage
<1>2. callbacks[EdgeOf(Top)] \in Seq(Funcs \cup {NoFunc})
  BY DEF IInv, TypeOK, EdgeOf, Edges
<1>3. Pending(Top, i) \subseteq Nat
  BY <1>2, LenProperties, SMTT(30) DEF Pending
<1>4. PICK j \in Pending(Top, i) : Invoke(Top, j)
  <2>1. \E j \in Pending(Top, i) : \A k \in Pending(Top, i) : j <= k
    BY <1>3, SmallestOf
  <2> QED BY <2>1
<1> DEFINE f == [Top EXCEPT !.stage = "callbacks", !.at = j]
<1>5. j \in 1..Len(callbacks[EdgeOf(Top)]) /\ callbacks[EdgeOf(Top)][j] # NoFunc
  BY <1>2, LenProperties DEF Pending
<1>6. f \in Frame /\ f.call = Top.call /\ f.stage = "callbacks" /\ f.left = Top.left
  BY <1>1, <1>3 DEF Frame, Stages
<1>7. SetTop(f) /\ in_callback'
  BY <1>4 DEF Invoke
<1> HIDE DEF f
<1>8. stack' \in Seq(Frame) /\ Top' = f /\ Stage' = f.stage /\ DriveExclusion' /\ SameCall
  BY <1>1, <1>6, <1>7, FrameStep DEF control
<1>9. HalfStepCounted'
  BY <1>1, <1>6, <1>8 DEF HalfStepCounted
<1>10. ran' \in SUBSET Funcs
  <2>1. callbacks[EdgeOf(Top)][j] \in Funcs
    BY <1>2, <1>5, ElementOfSeq
  <2> QED BY <2>1, <1>4 DEF Invoke, IInv, TypeOK
<1> QED BY <1>8, <1>9, <1>10

(* User code returns to a half step: the step function, or a callback.     *)
LEMMA UserReturns ==
  ASSUME IInv, DutReturns \/ CallBackReturns
  PROVE  IInv' /\ SameCall
<1>1. InHalfStep /\ UNCHANGED <<clk, control, stepping, disturbed, dropped>>
  BY DEF DutReturns, CallBackReturns, InHalfStep
<1>2. CASE FinishHalf(Top) /\ UNCHANGED <<in_callback, lists, ran>> /\ ~in_callback
  <2>1. TypeOK' /\ DriveExclusion' /\ HalfStepCounted' /\ SameCall
    BY <1>1, <1>2, FinishStep DEF IInv, TypeOK, lists, control
  <2>2. TombstonesFlagged'
    BY <1>2 DEF IInv, TombstonesFlagged, lists
  <2> QED BY <2>1, <2>2 DEF IInv
<1>3. ASSUME NEW i, CallBackFrom(Top, i)
      PROVE  IInv' /\ SameCall
  <2>1. CASE Pending(Top, i) = {}
    <3>1. EndPass(Top) /\ FinishHalf(Top) /\ ~in_callback' /\ ran' = {}
      BY <1>3, <2>1 DEF CallBackFrom, EndPass
    <3>2. /\ stack' \in Seq(Frame) /\ DriveExclusion' /\ HalfStepCounted' /\ SameCall
          /\ half_tick' \in Nat /\ half_cycle_open' \in BOOLEAN
          /\ next_half_is_rise' \in BOOLEAN /\ phase' \in Edges /\ driven' \in SUBSET Edges
      BY <1>1, <3>1, FinishStep
    <3>3. /\ callbacks' \in [Edges -> Seq(Funcs \cup {NoFunc})]
          /\ callbacks_removed' = FALSE /\ TombstonesFlagged'
      BY <3>1, SweepStep
    <3>4. in_callback' = FALSE
      BY <3>1 DEF EndPass
    <3>5. TypeOK'
      BY <1>1, <3>1, <3>2, <3>3, <3>4 DEF IInv, TypeOK, control
    <3> QED BY <3>2, <3>3, <3>5 DEF IInv
  <2>2. CASE Pending(Top, i) # {}
    <3> DEFINE j == CHOOSE j \in Pending(Top, i) : \A k \in Pending(Top, i) : j <= k
    <3>1. Invoke(Top, j)
      BY <1>3, <2>2 DEF CallBackFrom
    <3>2. /\ stack' \in Seq(Frame) /\ DriveExclusion' /\ HalfStepCounted' /\ SameCall
          /\ ran' \in SUBSET Funcs
      BY <1>1, <2>2, <3>1, InvokeStep
    <3>3. /\ in_callback' = TRUE
          /\ UNCHANGED <<half_tick, half_cycle_open, next_half_is_rise, phase, driven, lists>>
      BY <3>1 DEF Invoke
    <3>4. TypeOK' /\ TombstonesFlagged'
      BY <1>1, <3>2, <3>3 DEF IInv, TypeOK, TombstonesFlagged, lists, control
    <3> QED BY <3>2, <3>4 DEF IInv
  <2> QED BY <2>1, <2>2
<1>4. CASE DutReturns
  <2>1. ~in_callback
    BY <1>4 DEF DutReturns, IInv, DriveExclusion
  <2> QED BY <1>2, <1>3, <1>4, <2>1 DEF DutReturns
<1>5. CASE CallBackReturns
  BY <1>3, <1>5 DEF CallBackReturns
<1> QED BY <1>4, <1>5

LEMMA NextIInv == IInv /\ [Next]_vars => IInv'
<1> SUFFICES ASSUME IInv, [Next]_vars PROVE IInv'
  OBVIOUS
<1>1. CASE UNCHANGED vars
  BY <1>1, QuietStep
<1>2. CASE Interface
  <2>1. CASE (\E s \in 1..MaxCycles : Step(s)) \/ StepHalf
                \/ (\E n \in 1..2 * MaxCycles : RunUntil(n))
    BY <2>1, EnterStep
  <2>2. CASE Disable \/ Enable \/ Reset
                \/ (\E rise \in BOOLEAN : default_stop_on_rise(rise))
    BY <2>2, QuietStep
  <2>3. ASSUME NEW e \in Edges, NEW f \in Funcs, AddCallBack(e, f) \/ RemoveCallBack(e, f)
        PROVE  IInv'
    BY <2>3, ListsStep
  <2>4. ASSUME NEW e \in Edges, ClearCallBacks(e)
        PROVE  IInv'
    <3> DEFINE f == NoFunc
    <3>1. ClearCallBacks(e) \/ (f \in Funcs /\ (AddCallBack(e, f) \/ RemoveCallBack(e, f)))
      BY <2>4
    <3> QED BY <3>1, ListsStep
  <2>5. CASE AcquireClock \/ ReleaseClock
    BY <2>5, LeaseStep
  <2> QED BY <1>2, <2>1, <2>2, <2>3, <2>4, <2>5 DEF Interface
<1>3. CASE Progress
  BY <1>3, LeaveStep, HalfStep, QuietStep, UserReturns DEF Progress
<1>4. CASE RunUntilStops \/ Throws
  BY <1>4, LeaveStep
<1> QED BY <1>1, <1>2, <1>3, <1>4 DEF Next

(* Every variable keeps its type; in particular the countdown of a call    *)
(* never leaves the naturals and a sweep never leaves a list malformed.    *)
THEOREM TypeCorrect == Spec => []TypeOK
<1>1. IInv => TypeOK
  BY DEF IInv
<1> QED BY <1>1, InitIInv, NextIInv, PTL DEF Spec

(* One driver at a time, matching the lease, whatever user code calls from *)
(* inside a half step and whatever it throws.                              *)
THEOREM OneDriver == Spec => []DriveExclusion
<1>1. IInv => DriveExclusion
  BY DEF IInv
<1> QED BY <1>1, InitIInv, NextIInv, PTL DEF Spec

(* No pass forgets the entries removed during it or before an exception.   *)
THEOREM NoForgottenTombstone == Spec => []TombstonesFlagged
<1>1. IInv => TombstonesFlagged
  BY DEF IInv
<1> QED BY <1>1, InitIInv, NextIInv, PTL DEF Spec

(* The clock keeps the lease (LeaseSpec): every step is a step of the      *)
(* abstract lease or changes neither its holder nor its driver.            *)
LEMMA LeaseInit == Init => Lease!Init
BY DEF Init, Lease!Init, LeaseHolder, LeaseDriver, Idle

LEMMA LeaseUnmoved ==
  ASSUME SameCall \/ UNCHANGED <<stack, owned>>
  PROVE  UNCHANGED Lease!lease
BY DEF SameCall, Lease!lease, LeaseHolder, LeaseDriver, Idle, Top

LEMMA LeaseNext == IInv /\ [Next]_vars => [Lease!Next]_(Lease!lease)
<1> SUFFICES ASSUME IInv, [Next]_vars PROVE Lease!Next \/ UNCHANGED Lease!lease
  OBVIOUS
<1>1. CASE \/ (\E s \in 1..MaxCycles : Step(s)) \/ StepHalf
           \/ (\E n \in 1..2 * MaxCycles : RunUntil(n))
  <2>1. PICK f : Entered(f) /\ Idle /\ ~Idle' /\ Top' = f
    BY <1>1, EnterStep
  <2>2. owned' = owned /\ f \in Frame /\ (f.call \in Manual <=> ~owned)
    BY <2>1 DEF Entered, control, IInv, TypeOK
  <2>3. CASE owned
    <3>1. Lease!Drive("engine")
      BY <2>1, <2>2, <2>3 DEF Lease!Drive, LeaseHolder, LeaseDriver, Frame, Manual
    <3> QED BY <3>1 DEF Lease!Next
  <2>4. CASE ~owned
    <3>1. Lease!DriveManually
      BY <2>1, <2>2, <2>4 DEF Lease!DriveManually, LeaseHolder, LeaseDriver, Frame, Manual
    <3> QED BY <3>1 DEF Lease!Next
  <2> QED BY <2>3, <2>4
<1>2. CASE ReturnFromDrive \/ RunUntilStops \/ Throws
  <2>1. ~Idle /\ Idle' /\ owned' = owned
    BY <1>2, LeaveStep
  <2>2. Lease!Rest
    BY <2>1 DEF Lease!Rest, LeaseHolder, LeaseDriver
  <2> QED BY <2>2 DEF Lease!Next
<1>3. CASE AcquireClock
  <2>1. Idle /\ Idle' /\ ~owned /\ owned' = TRUE
    BY <1>3, LeaseStep DEF AcquireClock, Idle
  <2>2. Lease!Grant("engine")
    BY <2>1 DEF Lease!Grant, LeaseHolder, LeaseDriver
  <2> QED BY <2>2 DEF Lease!Next
<1>4. CASE ReleaseClock
  <2>1. Idle /\ Idle' /\ owned /\ owned' = FALSE
    BY <1>4, LeaseStep DEF ReleaseClock, Idle
  <2>2. Lease!Return("engine")
    BY <2>1 DEF Lease!Return, LeaseHolder, LeaseDriver
  <2> QED BY <2>2 DEF Lease!Next
<1>5. CASE \/ Disable \/ Enable \/ Reset \/ AssertFails \/ UNCHANGED vars
           \/ (\E rise \in BOOLEAN : default_stop_on_rise(rise))
  <2>1. UNCHANGED <<stack, owned>>
    BY <1>5, QuietStep
  <2> QED BY <2>1, LeaseUnmoved
<1>6. CASE \/ (\E e \in Edges, f \in Funcs : AddCallBack(e, f) \/ RemoveCallBack(e, f))
           \/ (\E e \in Edges : ClearCallBacks(e))
  <2>1. UNCHANGED <<stack, owned>>
    BY <1>6 DEF AddCallBack, RemoveCallBack, ClearCallBacks, control
  <2> QED BY <2>1, LeaseUnmoved
<1>7. CASE BeginHalf \/ CoroutinesReturn \/ DutReturns \/ CallBackReturns
  BY <1>7, HalfStep, UserReturns, LeaseUnmoved
<1> QED BY <1>1, <1>2, <1>3, <1>4, <1>5, <1>6, <1>7 DEF Next, Interface, Progress

THEOREM KeepsLease == Spec => LeaseSpec
<1> QED BY InitIInv, NextIInv, LeaseInit, LeaseNext, PTL DEF Spec, LeaseSpec, Lease!Spec

-----------------------------------------------------------------------------
(* The callback passes: which entries a pass invokes while its callbacks   *)
(* change the lists, and after exceptions have left removed entries in     *)
(* them.                                                                   *)

(* What a list may hold: a removed entry, or a function not dropped since  *)
(* it was registered.                                                      *)
Standing(e) == {NoFunc} \cup {f \in Funcs : <<e, f>> \notin dropped}
Undropped   == \A e \in Edges : callbacks[e] \in Seq(Standing(e))

(* The entries a pass is past have run or are removed.                     *)
Passed(list, at, done) == \A j \in DOMAIN list : j <= at => list[j] \in done \cup {NoFunc}
AllRan == in_callback => Passed(callbacks[EdgeOf(Top)], Top.at, ran)

PInv == Undropped /\ AllRan

(* What a step owes that invokes a callback, and one that ends a pass.     *)
InvokesWell ==
  Invokes => <<EdgeOf(Top'), callbacks'[EdgeOf(Top')][Top'.at]>> \notin dropped
EndsWell ==
  in_callback /\ ~in_callback' /\ Len(stack') = Len(stack)
    => \A j \in DOMAIN callbacks[EdgeOf(Top)] :
         callbacks[EdgeOf(Top)][j] # NoFunc => callbacks[EdgeOf(Top)][j] \in ran

LEMMA InitPInv == Init => PInv
<1> SUFFICES ASSUME Init PROVE PInv
  OBVIOUS
<1>1. \A e \in Edges : callbacks[e] \in Seq(Standing(e))
  BY EmptySeq DEF Init
<1>2. ~in_callback
  BY DEF Init
<1> QED BY <1>1, <1>2 DEF PInv, Undropped, AllRan

LEMMA EdgesOf == EdgeOf(Top) \in Edges
BY DEF EdgeOf, Edges

(* A pass goes on in the same frame: nothing is invoked, nothing ends.     *)
LEMMA SamePass ==
  ASSUME in_callback' = in_callback, in_callback => Top' = Top
  PROVE  InvokesWell /\ EndsWell
BY DEF InvokesWell, EndsWell, Invokes

(* Steps that leave the lists alone, outside passes or in the same one.    *)
LEMMA ListsUntouched ==
  ASSUME IInv, PInv, UNCHANGED <<callbacks, dropped>>,
         in_callback' = in_callback, in_callback => Top' = Top /\ ran' = ran
  PROVE  PInv' /\ InvokesWell /\ EndsWell
<1>1. Undropped'
  BY DEF PInv, Undropped, Standing
<1>2. AllRan'
  BY DEF PInv, AllRan, EdgeOf
<1> QED BY <1>1, <1>2, SamePass DEF PInv

(* Registering and removing, also during a pass: the list being iterated   *)
(* only loses functions, and what is removed is no longer standing.        *)
LEMMA ListsPass ==
  ASSUME IInv, PInv, NEW e \in Edges, NEW f,
         ClearCallBacks(e) \/ (f \in Funcs /\ (AddCallBack(e, f) \/ RemoveCallBack(e, f)))
  PROVE  PInv' /\ InvokesWell /\ EndsWell
<1> DEFINE list == callbacks[e]
<1>1. UNCHANGED <<in_callback, stack, ran>> /\ Top' = Top
  BY DEF AddCallBack, ClearCallBacks, RemoveCallBack, Top
<1>2. list \in Seq(Standing(e)) /\ callbacks \in [Edges -> Seq(Funcs \cup {NoFunc})]
  BY DEF PInv, Undropped, IInv, TypeOK
<1>3. PICK new :
        /\ callbacks' = [callbacks EXCEPT ![e] = new]
        /\ new \in Seq(Standing(e)')
        /\ in_callback /\ EdgeOf(Top) = e =>
             DOMAIN new = DOMAIN list /\ \A j \in DOMAIN list : new[j] \in {list[j], NoFunc}
  <2>1. CASE f \in Funcs /\ AddCallBack(e, f)
    <3>1. callbacks' = [callbacks EXCEPT ![e] = Append(list, f)] /\ ~Iterating(e)
      BY <2>1 DEF AddCallBack
    <3>2. Standing(e) \subseteq Standing(e)' /\ f \in Standing(e)'
      BY <2>1 DEF AddCallBack, Standing
    <3>3. list \in Seq(Standing(e)')
      BY <1>2, <3>2, SeqMonotonic
    <3>4. Append(list, f) \in Seq(Standing(e)')
      BY <3>2, <3>3, AppendProperties
    <3> QED BY <3>1, <3>4 DEF Iterating
  <2>2. CASE ClearCallBacks(e)
    <3>1. << >> \in Seq(Standing(e)')
      OBVIOUS
    <3> QED BY <2>2, <3>1 DEF ClearCallBacks, Iterating
  <2>3. CASE f \in Funcs /\ RemoveCallBack(e, f)
    <3>1. Standing(e) \ {f} \subseteq Standing(e)' /\ NoFunc \in Standing(e)'
      BY <2>3 DEF RemoveCallBack, Standing
    <3>2. CASE ~in_callback
      <4>1. Without(list, f) \in Seq(Standing(e) \ {f})
        BY <1>2, WithoutType
      <4>2. Without(list, f) \in Seq(Standing(e)')
        BY <3>1, <4>1, SeqMonotonic
      <4> QED BY <2>3, <3>2, <4>2 DEF RemoveCallBack, RemovedFrom
    <3>3. CASE in_callback
      <4>1. DOMAIN list = 1..Len(list) /\ Len(list) \in Nat
            /\ \A j \in DOMAIN list : list[j] \in Standing(e)
        BY <1>2, LenProperties, ElementOfSeq
      <4> HIDE DEF list
      <4>2. Tombstoned(list, f) = [j \in 1..Len(list) |-> IF list[j] = f THEN NoFunc ELSE list[j]]
        BY <4>1 DEF Tombstoned
      <4>3. \A j \in 1..Len(list) : (IF list[j] = f THEN NoFunc ELSE list[j]) \in Standing(e)'
        BY <3>1, <4>1
      <4>4. Tombstoned(list, f) \in Seq(Standing(e)')
        BY <4>1, <4>2, <4>3
      <4>5. DOMAIN Tombstoned(list, f) = DOMAIN list
            /\ \A j \in DOMAIN list : Tombstoned(list, f)[j] \in {list[j], NoFunc}
        BY <4>1, <4>2
      <4>6. callbacks' = [callbacks EXCEPT ![e] = Tombstoned(list, f)]
        BY <2>3, <3>3 DEF RemoveCallBack, RemovedFrom, list
      <4> QED BY <4>4, <4>5, <4>6
    <3> QED BY <3>2, <3>3
  <2> QED BY <2>1, <2>2, <2>3
<1>4. \A d \in Edges : callbacks'[d] = IF d = e THEN new ELSE callbacks[d]
  BY <1>2, <1>3
<1>5. Undropped'
  <2> SUFFICES ASSUME NEW d \in Edges PROVE callbacks'[d] \in Seq(Standing(d)')
    BY DEF Undropped
  <2>1. CASE d = e
    BY <1>3, <1>4, <2>1
  <2>2. CASE d # e
    <3>1. callbacks'[d] = callbacks[d] /\ callbacks[d] \in Seq(Standing(d))
      BY <1>4, <2>2 DEF PInv, Undropped
    <3>2. Standing(d) \subseteq Standing(d)'
      BY <2>2 DEF Standing, AddCallBack, RemoveCallBack, ClearCallBacks
    <3> QED BY <3>1, <3>2, SeqMonotonic
  <2> QED BY <2>1, <2>2
<1>6. AllRan'
  <2> SUFFICES ASSUME in_callback PROVE Passed(callbacks'[EdgeOf(Top)], Top.at, ran)
    BY <1>1 DEF AllRan
  <2>1. Passed(callbacks[EdgeOf(Top)], Top.at, ran)
    BY DEF PInv, AllRan
  <2>2. CASE EdgeOf(Top) = e
    <3>1. callbacks'[EdgeOf(Top)] = new
      BY <1>4, <2>2
    <3> QED BY <1>3, <2>1, <2>2, <3>1 DEF Passed
  <2>3. CASE EdgeOf(Top) # e
    BY <1>4, <2>1, <2>3, EdgesOf
  <2> QED BY <2>2, <2>3
<1> QED BY <1>1, <1>5, <1>6, SamePass DEF PInv

(* The next entry of a pass after entry i, and the end of the pass.        *)
LEMMA InvokePass ==
  ASSUME IInv, PInv, InHalfStep, NEW i \in Nat, Pending(Top, i) # {},
         Invoke(Top, CHOOSE j \in Pending(Top, i) : \A k \in Pending(Top, i) : j <= k),
         Passed(callbacks[EdgeOf(Top)], i, ran), UNCHANGED dropped
  PROVE  PInv' /\ InvokesWell /\ EndsWell
<1> DEFINE list == callbacks[EdgeOf(Top)]
<1>1. ~Idle /\ Top \in Frame
  BY OneFrame DEF IInv, InHalfStep, Stage
<1>2. list \in Seq(Standing(EdgeOf(Top)))
  BY EdgesOf DEF PInv, Undropped
<1>3. DOMAIN list = 1..Len(list) /\ Len(list) \in Nat
      /\ \A k \in DOMAIN list : list[k] \in Standing(EdgeOf(Top))
  BY <1>2, LenProperties, ElementOfSeq
<1>4. PICK j \in Pending(Top, i) : Invoke(Top, j) /\ \A k \in Pending(Top, i) : j <= k
  <2>1. Pending(Top, i) \subseteq Nat
    BY <1>3 DEF Pending
  <2>2. \E j \in Pending(Top, i) : \A k \in Pending(Top, i) : j <= k
    BY <2>1, SmallestOf
  <2> QED BY <2>2
<1> DEFINE f == [Top EXCEPT !.stage = "callbacks", !.at = j]
<1>5. j \in 1..Len(list) /\ list[j] # NoFunc /\ j \in Nat
  BY <1>3 DEF Pending
<1> HIDE DEF list
<1>6. f \in Frame /\ f.at = j /\ f.rise = Top.rise
  BY <1>1, <1>5 DEF Frame, Stages
<1>7. SetTop(f) /\ in_callback' = TRUE /\ ran' = ran \cup {list[j]} /\ callbacks' = callbacks
  BY <1>4 DEF Invoke, lists, list
<1> HIDE DEF f
<1>8. Top' = f /\ EdgeOf(Top)' = EdgeOf(Top)
  BY <1>1, <1>6, <1>7, OneFrame DEF IInv, EdgeOf
<1>9. Undropped'
  BY <1>7 DEF PInv, Undropped, Standing
<1>10. Passed(list, j, ran')
  <2> SUFFICES ASSUME NEW k \in DOMAIN list, k <= j PROVE list[k] \in ran' \cup {NoFunc}
    BY DEF Passed
  <2>1. CASE k <= i
    BY <1>7, <2>1 DEF Passed, list
  <2>2. CASE k = j
    BY <1>7, <2>2
  <2>3. CASE ~(k <= i) /\ k # j
    <3>1. k \in Nat /\ j \in Nat /\ k > i /\ ~(j <= k)
      BY <1>3, <1>5, <2>3
    <3>2. k \notin Pending(Top, i)
      BY <1>4, <3>1
    <3> QED BY <3>1, <3>2 DEF Pending, list
  <2> QED BY <2>1, <2>2, <2>3
<1>11. AllRan'
  BY <1>6, <1>7, <1>8, <1>10 DEF AllRan, list
<1>12. InvokesWell
  <2>1. list[j] \in Standing(EdgeOf(Top))
    BY <1>3, <1>5
  <2>2. <<EdgeOf(Top), list[j]>> \notin dropped
    BY <1>5, <2>1 DEF Standing
  <2>3. EdgeOf(Top') = EdgeOf(Top)
    BY <1>6, <1>8 DEF EdgeOf
  <2> QED BY <1>6, <1>7, <1>8, <2>2, <2>3 DEF InvokesWell, list
<1> QED BY <1>7, <1>9, <1>11, <1>12 DEF PInv, EndsWell

LEMMA EndOfPass ==
  ASSUME IInv, PInv, NEW i \in Nat, Pending(Top, i) = {}, EndPass(Top),
         in_callback => i = Top.at, UNCHANGED dropped
  PROVE  PInv' /\ InvokesWell /\ EndsWell
<1>1. in_callback' = FALSE
  BY DEF EndPass
<1>2. Undropped'
  <2> SUFFICES ASSUME NEW e \in Edges PROVE callbacks'[e] \in Seq(Standing(e))
    BY DEF Undropped, Standing
  <2>1. callbacks[e] \in Seq(Standing(e))
    BY DEF PInv, Undropped
  <2>2. Without(callbacks[e], NoFunc) \in Seq(Standing(e) \ {NoFunc})
    BY <2>1, WithoutType
  <2>3. Without(callbacks[e], NoFunc) \in Seq(Standing(e))
    BY <2>2, SeqMonotonic
  <2> QED BY <2>1, <2>3 DEF EndPass, Swept, Sweep
<1>3. EndsWell
  <2> SUFFICES ASSUME in_callback, NEW j \in DOMAIN callbacks[EdgeOf(Top)],
                      callbacks[EdgeOf(Top)][j] # NoFunc
               PROVE  callbacks[EdgeOf(Top)][j] \in ran
    BY DEF EndsWell
  <2>1. callbacks[EdgeOf(Top)] \in Seq(Standing(EdgeOf(Top)))
    BY EdgesOf DEF PInv, Undropped
  <2>2. j \in Nat
    BY <2>1, LenProperties
  <2>3. ~(j > Top.at)
    BY DEF Pending
  <2>4. i = Top.at /\ j <= Top.at
    BY <2>2, <2>3
  <2> QED BY <2>4 DEF PInv, AllRan, Passed
<1> QED BY <1>1, <1>2, <1>3 DEF PInv, AllRan, InvokesWell, Invokes

LEMMA UserPass ==
  ASSUME IInv, PInv, DutReturns \/ CallBackReturns
  PROVE  PInv' /\ InvokesWell /\ EndsWell
<1>1. InHalfStep /\ UNCHANGED dropped /\ ~Idle
  BY DEF DutReturns, CallBackReturns, InHalfStep, Stage
<1>2. Top \in Frame /\ Top.at \in Nat
  BY <1>1, OneFrame DEF IInv, Frame
<1>3. ASSUME NEW i \in Nat, CallBackFrom(Top, i), in_callback => i = Top.at,
             Passed(callbacks[EdgeOf(Top)], i, ran)
      PROVE  PInv' /\ InvokesWell /\ EndsWell
  <2>1. CASE Pending(Top, i) = {}
    BY <1>1, <1>3, <2>1, EndOfPass DEF CallBackFrom
  <2>2. CASE Pending(Top, i) # {}
    BY <1>1, <1>3, <2>2, InvokePass DEF CallBackFrom
  <2> QED BY <2>1, <2>2
<1>4. CASE DutReturns
  <2>1. ~in_callback
    BY <1>4 DEF DutReturns, IInv, DriveExclusion
  <2>2. CASE callbacks[EdgeOf(Top)] = << >>
    BY <1>4, <2>1, <2>2, ListsUntouched DEF DutReturns, lists
  <2>3. CASE callbacks[EdgeOf(Top)] # << >>
    <3>1. CallBackFrom(Top, 0)
      BY <1>4, <2>3 DEF DutReturns
    <3>2. callbacks[EdgeOf(Top)] \in Seq(Standing(EdgeOf(Top)))
      BY EdgesOf DEF PInv, Undropped
    <3>3. Passed(callbacks[EdgeOf(Top)], 0, ran)
      BY <3>2, LenProperties DEF Passed
    <3> QED BY <1>3, <2>1, <3>1, <3>3
  <2> QED BY <2>2, <2>3
<1>5. CASE CallBackReturns
  <2>1. in_callback /\ CallBackFrom(Top, Top.at)
    BY <1>5 DEF CallBackReturns, IInv, DriveExclusion
  <2>2. Passed(callbacks[EdgeOf(Top)], Top.at, ran)
    BY <2>1 DEF PInv, AllRan
  <2> QED BY <1>2, <1>3, <2>1, <2>2
<1> QED BY <1>4, <1>5

LEMMA NextPInv == IInv /\ PInv /\ [Next]_vars => PInv' /\ InvokesWell /\ EndsWell
<1> SUFFICES ASSUME IInv, PInv, [Next]_vars PROVE PInv' /\ InvokesWell /\ EndsWell
  OBVIOUS
<1>1. CASE \/ (\E s \in 1..MaxCycles : Step(s)) \/ StepHalf
           \/ (\E n \in 1..2 * MaxCycles : RunUntil(n))
  <2>1. PICK f : Entered(f) /\ Idle
    BY <1>1, EnterStep
  <2>2. ~in_callback /\ UNCHANGED <<callbacks, dropped, in_callback>>
    BY <2>1 DEF Entered, lists, history, IInv, DriveExclusion, Stage
  <2> QED BY <2>2, ListsUntouched
<1>2. CASE ReturnFromDrive \/ RunUntilStops
  <2>1. ~in_callback /\ UNCHANGED <<callbacks, dropped, in_callback>>
    BY <1>2 DEF ReturnFromDrive, RunUntilStops, lists, history, IInv, DriveExclusion
  <2> QED BY <2>1, ListsUntouched
<1>3. CASE Throws
  <2>1. in_callback' = FALSE /\ UNCHANGED <<callbacks, dropped>>
    BY <1>3 DEF Throws, lists
  <2>2. Len(stack') # Len(stack)
    <3>1. ~Idle /\ Pop
      BY <1>3 DEF Throws, InHalfStep, Stage
    <3>2. Len(stack) = 1 /\ Len(stack') = 0
      BY <3>1, OneFrame DEF IInv
    <3> QED BY <3>2
  <2>3. Undropped'
    BY <2>1 DEF PInv, Undropped, Standing
  <2> QED BY <2>1, <2>2, <2>3 DEF PInv, AllRan, InvokesWell, Invokes, EndsWell
<1>4. CASE BeginHalf \/ CoroutinesReturn
  <2>1. ~in_callback /\ UNCHANGED <<callbacks, dropped, in_callback>>
    BY <1>4 DEF BeginHalf, CoroutinesReturn, lists, history, IInv, DriveExclusion
  <2> QED BY <2>1, ListsUntouched
<1>5. CASE DutReturns \/ CallBackReturns
  BY <1>5, UserPass
<1>6. CASE \/ Disable \/ Enable \/ AssertFails \/ AcquireClock \/ ReleaseClock
           \/ Reset \/ (\E rise \in BOOLEAN : default_stop_on_rise(rise)) \/ UNCHANGED vars
  <2>1. UNCHANGED <<callbacks, dropped, in_callback, ran, stack>>
    BY <1>6 DEF Disable, Enable, AssertFails, AcquireClock, ReleaseClock, Reset,
                default_stop_on_rise, vars, lists, history
  <2>2. Top' = Top
    BY <2>1 DEF Top
  <2> QED BY <2>1, <2>2, ListsUntouched
<1>7. ASSUME NEW e \in Edges, NEW f \in Funcs, AddCallBack(e, f) \/ RemoveCallBack(e, f)
      PROVE  PInv' /\ InvokesWell /\ EndsWell
  BY <1>7, ListsPass
<1>8. ASSUME NEW e \in Edges, ClearCallBacks(e)
      PROVE  PInv' /\ InvokesWell /\ EndsWell
  <2> DEFINE f == NoFunc
  <2>1. ClearCallBacks(e) \/ (f \in Funcs /\ (AddCallBack(e, f) \/ RemoveCallBack(e, f)))
    BY <1>8
  <2> QED BY <2>1, ListsPass
<1> QED BY <1>1, <1>2, <1>3, <1>4, <1>5, <1>6, <1>7, <1>8 DEF Next, Interface, Progress

(* For any functions and re-entrant calls (_call_back,                     *)
(* _remove_step_cb_by): a callback removed from an edge, also by a         *)
(* callback of the same pass or before an exception ended one, is not      *)
(* invoked again until it is registered again.                             *)
THEOREM RemovedStayQuiet == Spec => NeverInvokesRemoved
<1>1. IInv /\ PInv /\ [Next]_vars =>
        PInv' /\ [Invokes => <<EdgeOf(Top'), callbacks'[EdgeOf(Top')][Top'.at]>> \notin dropped]_vars
  BY NextPInv DEF InvokesWell
<1> QED BY <1>1, InitIInv, NextIInv, InitPInv, PTL DEF Spec, NeverInvokesRemoved

(* And a pass that is not cut short invokes every entry still live at its  *)
(* end: entries removed during the pass make it skip no other.             *)
THEOREM PassesSkipNone == Spec => EveryLiveEntryRuns
<1>1. IInv /\ PInv /\ [Next]_vars =>
        PInv' /\ [in_callback /\ ~in_callback' /\ Len(stack') = Len(stack)
                    => \A j \in DOMAIN callbacks[EdgeOf(Top)] :
                         callbacks[EdgeOf(Top)][j] # NoFunc
                           => callbacks[EdgeOf(Top)][j] \in ran]_vars
  BY NextPInv DEF EndsWell
<1> QED BY <1>1, InitIInv, NextIInv, InitPInv, PTL DEF Spec, EveryLiveEntryRuns

-----------------------------------------------------------------------------
(* The time of the clock: what the counters, the phase and the edges       *)
(* driven have to do with each other, for any functions, bounds and        *)
(* re-entrant calls, exceptions and Reset included.                        *)
First == InHalfStep /\ Top.starts

(* While no half step has been cut short: the counters agree, a half step  *)
(* has its cycle open, and an open cycle has driven, or is driving, the    *)
(* edge away from the stop phase first.                                    *)
Counted   == half_tick + HalvesOwed = 2 * clk
Opened    == InHalfStep => half_cycle_open
EdgesDone == driven = IF First THEN {} ELSE {StopPhase(~stop_on_rise)}
EdgeNext  == IF InHalfStep THEN Top.rise <=> (Top.starts <=> ~stop_on_rise)
             ELSE next_half_is_rise <=> stop_on_rise

Timed == ~disturbed => Counted /\ Opened /\ (half_cycle_open => EdgesDone /\ EdgeNext)

(* The half steps that Step has left are whole cycles where the cycle is   *)
(* closed.  Only just after it is entered may the cycle be open: then the  *)
(* Assert fails, and not Disable, which would make it return.              *)
Aligned ==
  ~disturbed /\ ~Idle /\ Top.call = "Step" =>
    /\ Stage = "enter" /\ Top.left % 2 = 0 => ~half_cycle_open \/ (~is_disable /\ Top.left # 0)
    /\ Stage = "enter" /\ Top.left % 2 # 0 => half_cycle_open
    /\ InHalfStep => (Top.starts <=> Top.left % 2 = 0)
    /\ Stage = "await" => ~half_cycle_open /\ Top.left % 2 = 0

TInv == Timed /\ Aligned

LEMMA InitTInv == Init => TInv
BY DEF Init, TInv, Timed, Aligned, Counted, Opened, HalvesOwed, InHalfStep, Stage, Idle

(* Calls that leave the time and the call alone; Disable may be called in  *)
(* user code only.                                                         *)
LEMMA Untouched ==
  ASSUME IInv, TInv, UNCHANGED <<time, stack, stop_on_rise, disturbed, driven>>,
         is_disable' => is_disable \/ Stage # "enter"
  PROVE  TInv'
<1>1. /\ UNCHANGED <<clk, half_tick, half_cycle_open, next_half_is_rise>>
      /\ Idle' = Idle /\ Top' = Top /\ Stage' = Stage /\ InHalfStep' = InHalfStep
      /\ First' = First
  BY DEF time, Idle, Top, Stage, InHalfStep, First
<1>2. Timed'
  BY <1>1 DEF TInv, Timed, Counted, Opened, EdgesDone, EdgeNext, HalvesOwed
<1>3. Aligned'
  BY <1>1 DEF TInv, Aligned
<1> QED BY <1>2, <1>3 DEF TInv

(* A call that is entered finds the clock between two half steps.          *)
LEMMA EnterTime ==
  ASSUME IInv, TInv,
         (\E s \in 1..MaxCycles : Step(s)) \/ StepHalf \/ (\E n \in 1..2 * MaxCycles : RunUntil(n))
  PROVE  TInv'
<1>1. PICK f : Entered(f) /\ Idle /\ ~Idle' /\ Top' = f
  BY EnterStep
<1>2. Stage = "user" /\ Stage' = "enter"
  BY <1>1 DEF Stage, Entered
<1>3. ~InHalfStep /\ ~InHalfStep' /\ ~First /\ ~First'
  BY <1>2 DEF InHalfStep, First
<1>4. UNCHANGED <<clk, half_tick, half_cycle_open, next_half_is_rise, disturbed, driven,
                  is_disable, stop_on_rise>>
  BY <1>1 DEF Entered, time, control, history
<1>5. Timed'
  BY <1>3, <1>4 DEF TInv, Timed, Counted, Opened, EdgesDone, EdgeNext, HalvesOwed
<1>6. ASSUME f.call = "Step"
      PROVE  ~is_disable /\ f.left % 2 = 0 /\ f.left # 0
  <2>1. stack' = Append(stack, f) /\ stack = << >>
    BY <1>1 DEF Entered, Push, Idle
  <2>2. stack' = <<f>>
    BY <2>1
  <2>3. CASE \E s \in 1..MaxCycles : Step(s)
    <3>1. PICK s \in 1..MaxCycles : Step(s)
      BY <2>3
    <3>2. stack' = <<NewFrame("Step", 2 * s)>> /\ ~is_disable
      BY <2>1, <3>1 DEF Step, Push, StepGuard
    <3>3. f.left = 2 * s /\ s \in Nat \ {0}
      BY <2>2, <3>2, BoundsAssumption DEF NewFrame
    <3> QED BY <3>2, <3>3
  <2>4. CASE StepHalf
    BY <1>6, <2>1, <2>2, <2>4 DEF StepHalf, Push, NewFrame
  <2>5. CASE \E n \in 1..2 * MaxCycles : RunUntil(n)
    BY <1>6, <2>1, <2>2, <2>5 DEF RunUntil, Push, NewFrame
  <2> QED BY <2>3, <2>4, <2>5
<1>7. Aligned'
  BY <1>1, <1>2, <1>3, <1>4, <1>6 DEF Aligned
<1> QED BY <1>5, <1>7 DEF TInv

(* A call that returns does so between two half steps, or was cut short.   *)
LEMMA LeaveTime ==
  ASSUME IInv, TInv, ReturnFromDrive \/ RunUntilStops \/ Throws
  PROVE  TInv'
<1>1. ~Idle /\ Idle'
  BY LeaveStep
<1>2. Aligned' /\ ~InHalfStep' /\ ~First'
  BY <1>1 DEF Aligned, InHalfStep, Stage, First
<1>3. CASE Throws
  BY <1>2, <1>3 DEF Throws, TInv, Timed
<1>4. CASE ReturnFromDrive \/ RunUntilStops
  <2>1. ~InHalfStep /\ ~First
    BY <1>4 DEF ReturnFromDrive, RunUntilStops, InHalfStep, First
  <2>2. UNCHANGED <<clk, half_tick, half_cycle_open, next_half_is_rise, disturbed, driven,
                    stop_on_rise>>
    BY <1>4 DEF ReturnFromDrive, RunUntilStops, time, control, history
  <2>3. Timed'
    BY <1>2, <2>1, <2>2 DEF TInv, Timed, Counted, Opened, EdgesDone, EdgeNext, HalvesOwed
  <2> QED BY <1>2, <2>3 DEF TInv
<1> QED BY <1>3, <1>4

(* Reset closes the cycle; inside a half step it cuts it short.            *)
LEMMA ResetTime ==
  ASSUME IInv, TInv, Reset
  PROVE  TInv'
<1>1. /\ clk' = 0 /\ half_tick' = 0 /\ half_cycle_open' = FALSE
      /\ disturbed' = IF Idle THEN FALSE ELSE disturbed \/ InHalfStep
      /\ UNCHANGED <<stack, is_disable, stop_on_rise>>
  BY DEF Reset, ZeroTime, control
<1>2. /\ Idle' = Idle /\ Top' = Top /\ Stage' = Stage /\ InHalfStep' = InHalfStep
      /\ Stage # "enter"
  BY <1>1 DEF Idle, Top, Stage, InHalfStep, Reset, May, InUserCode
<1>3. ~disturbed' => ~InHalfStep
  BY <1>1 DEF InHalfStep, Stage
<1>4. Timed'
  BY <1>1, <1>2, <1>3 DEF Timed, Counted, Opened, HalvesOwed
<1>5. ~Idle /\ ~disturbed' => ~disturbed
  BY <1>1
<1>6. Aligned'
  BY <1>1, <1>2, <1>3, <1>5 DEF TInv, Aligned
<1> QED BY <1>4, <1>6 DEF TInv

(* The stop edge changes in a closed cycle only, hence in no half step.    *)
LEMMA StopEdgeTime ==
  ASSUME IInv, TInv, NEW rise \in BOOLEAN, default_stop_on_rise(rise)
  PROVE  TInv'
<1>1. CASE half_cycle_open
  <2>1. UNCHANGED <<time, stack, stop_on_rise, disturbed, driven, is_disable>>
    BY <1>1 DEF default_stop_on_rise, StopOnRiseAssert, time, control, history
  <2> QED BY <2>1, Untouched
<1>2. CASE ~half_cycle_open
  <2>1. UNCHANGED <<clk, half_tick, half_cycle_open, stack, disturbed, is_disable>>
    BY DEF default_stop_on_rise, history
  <2>2. Idle' = Idle /\ Top' = Top /\ Stage' = Stage /\ InHalfStep' = InHalfStep
    BY <2>1 DEF Idle, Top, Stage, InHalfStep
  <2>3. Timed'
    BY <1>2, <2>1, <2>2 DEF TInv, Timed, Counted, Opened, HalvesOwed
  <2>4. Aligned'
    BY <2>1, <2>2 DEF TInv, Aligned
  <2> QED BY <2>3, <2>4 DEF TInv
<1> QED BY <1>1, <1>2

(* A half step begins: it starts a cycle or it finishes the one started.   *)
LEMMA BeginTime ==
  ASSUME IInv, TInv, BeginHalf
  PROVE  TInv'
<1> DEFINE starts == ~half_cycle_open
           rise   == IF starts THEN ~stop_on_rise ELSE next_half_is_rise
           f == [Top EXCEPT !.stage = "dut", !.starts = starts, !.rise = rise]
<1>1. ~Idle /\ Stage = "enter" /\ Top \in Frame /\ Stage = Top.stage
  <2>1. ~Idle /\ Stage = "enter"
    BY DEF BeginHalf, Stage
  <2> QED BY <2>1, OneFrame DEF IInv
<1>2. half_cycle_open \in BOOLEAN /\ stop_on_rise \in BOOLEAN /\ next_half_is_rise \in BOOLEAN
  BY DEF IInv, TypeOK
<1>3. /\ f \in Frame /\ f.stage = "dut" /\ f.starts = starts /\ f.rise = rise
      /\ f.left = Top.left /\ f.call = Top.call
  BY <1>1, <1>2 DEF Frame, Stages
<1>4. SetTop(f)
  BY DEF BeginHalf
<1> HIDE DEF f
<1>5. Top' = f /\ ~Idle' /\ Stage' = "dut"
  BY <1>1, <1>3, <1>4, OneFrame DEF IInv
<1>6. /\ ~InHalfStep /\ ~First /\ InHalfStep' /\ (First' <=> starts)
      /\ (Top'.starts <=> starts) /\ (Top'.rise <=> rise)
      /\ Top'.left = Top.left /\ Top'.call = Top.call
  BY <1>1, <1>3, <1>5 DEF InHalfStep, First
<1>7. /\ clk' = (IF starts THEN clk + 1 ELSE clk) /\ half_cycle_open' = TRUE
      /\ driven' = (IF starts THEN {} ELSE driven)
      /\ UNCHANGED <<half_tick, disturbed, stop_on_rise>>
  BY DEF BeginHalf, control
<1> HIDE DEF rise
<1>8. ASSUME ~disturbed' PROVE Counted' /\ EdgesDone' /\ EdgeNext'
  <2>1. Counted /\ (half_cycle_open => EdgesDone /\ EdgeNext)
    BY <1>7, <1>8 DEF TInv, Timed
  <2>2. clk \in Nat /\ half_tick \in Nat
    BY DEF IInv, TypeOK
  <2>3. CASE starts
    <3>1. HalvesOwed = 0 /\ HalvesOwed' = 2 /\ clk' = clk + 1
      BY <1>6, <1>7, <2>3 DEF HalvesOwed
    <3>2. Counted'
      BY <1>7, <2>1, <2>2, <3>1 DEF Counted
    <3>3. EdgesDone' /\ EdgeNext'
      BY <1>2, <1>6, <1>7, <2>3 DEF EdgesDone, EdgeNext, rise
    <3> QED BY <3>2, <3>3
  <2>4. CASE ~starts
    <3>1. HalvesOwed = 1 /\ HalvesOwed' = 1 /\ clk' = clk
      BY <1>6, <1>7, <2>4 DEF HalvesOwed
    <3>2. Counted'
      BY <1>7, <2>1, <2>2, <3>1 DEF Counted
    <3>3. EdgesDone' /\ EdgeNext'
      BY <1>2, <1>6, <1>7, <2>1, <2>4 DEF EdgesDone, EdgeNext, rise
    <3> QED BY <3>2, <3>3
  <2> QED BY <2>3, <2>4
<1>9. Timed'
  BY <1>7, <1>8 DEF Timed, Opened
<1>10. ASSUME ~disturbed', Top'.call = "Step"
       PROVE  Top'.starts <=> Top'.left % 2 = 0
  <2>1. Top.left % 2 = 0 => starts
    BY <1>6, <1>10 DEF BeginHalf, BoundaryAssert
  <2>2. Top.left % 2 # 0 => ~starts
    BY <1>1, <1>6, <1>7, <1>10 DEF TInv, Aligned
  <2> QED BY <1>6, <2>1, <2>2
<1>11. Aligned'
  BY <1>5, <1>10 DEF Aligned
<1> QED BY <1>9, <1>11 DEF TInv

LEMMA AwaitTime ==
  ASSUME IInv, TInv, CoroutinesReturn
  PROVE  TInv'
<1> DEFINE f == [Top EXCEPT !.stage = "enter"]
<1>1. ~Idle /\ Stage = "await" /\ Top \in Frame /\ Stage = Top.stage
  <2>1. ~Idle /\ Stage = "await"
    BY DEF CoroutinesReturn, Stage
  <2> QED BY <2>1, OneFrame DEF IInv
<1>2. f \in Frame /\ f.stage = "enter" /\ f.left = Top.left /\ f.call = Top.call
  BY <1>1 DEF Frame, Stages
<1>3. SetTop(f)
  BY DEF CoroutinesReturn
<1> HIDE DEF f
<1>4. Top' = f /\ ~Idle' /\ Stage' = "enter"
  BY <1>1, <1>2, <1>3, OneFrame DEF IInv
<1>5. ~InHalfStep /\ ~First /\ ~InHalfStep' /\ ~First'
  BY <1>1, <1>4 DEF InHalfStep, First
<1>6. UNCHANGED <<clk, half_tick, half_cycle_open, next_half_is_rise, disturbed, driven, stop_on_rise>>
  BY DEF CoroutinesReturn, time, control, history
<1>7. Timed'
  BY <1>5, <1>6 DEF TInv, Timed, Counted, Opened, EdgesDone, EdgeNext, HalvesOwed
<1>8. Aligned'
  BY <1>1, <1>2, <1>4, <1>5, <1>6 DEF TInv, Aligned
<1> QED BY <1>7, <1>8 DEF TInv

-----------------------------------------------------------------------------
(* User code returns into a half step.                                     *)
LEMMA FinishTime ==
  ASSUME IInv, TInv, InHalfStep, FinishHalf(Top), UNCHANGED <<clk, control, disturbed>>
  PROVE  /\ TInv'
         /\ ~disturbed /\ half_cycle_open /\ ~half_cycle_open'
              => driven' = Edges /\ phase' = StopPhase(stop_on_rise)
<1> DEFINE f == [Top EXCEPT !.stage = IF Top.starts THEN "enter" ELSE "await",
                            !.left = Top.left - 1, !.at = 0]
<1>1. /\ ~Idle /\ Top \in Frame /\ Top.left \in Nat /\ Top.left - 1 \in Nat
      /\ Top.starts \in BOOLEAN /\ Top.rise \in BOOLEAN
  <2>1. ~Idle /\ Top.left # 0
    BY DEF IInv, HalfStepCounted, InHalfStep, Stage
  <2>2. Top \in Frame
    BY <2>1, OneFrame DEF IInv
  <2> QED BY <2>1, <2>2 DEF Frame
<1>2. half_cycle_open \in BOOLEAN /\ stop_on_rise \in BOOLEAN
  BY DEF IInv, TypeOK
<1>3. /\ f \in Frame /\ f.stage = (IF Top.starts THEN "enter" ELSE "await")
      /\ f.left = Top.left - 1 /\ f.call = Top.call
  BY <1>1 DEF Frame, Stages
<1>4. SetTop(f)
  BY DEF FinishHalf
<1> HIDE DEF f
<1>5. Top' = f /\ ~Idle' /\ Stage' = IF Top.starts THEN "enter" ELSE "await"
  BY <1>1, <1>3, <1>4, OneFrame DEF IInv
<1>6. ~InHalfStep' /\ ~First' /\ (First <=> Top.starts)
  BY <1>5 DEF InHalfStep, First
<1>7. /\ half_tick' = half_tick + 1 /\ next_half_is_rise' = ~Top.rise
      /\ half_cycle_open' = (half_cycle_open /\ Top.starts)
      /\ driven' = driven \cup {EdgeOf(Top)} /\ phase' = EdgeOf(Top)
      /\ UNCHANGED <<clk, disturbed, stop_on_rise, is_disable>>
  BY DEF FinishHalf, control
<1>8. ASSUME ~disturbed
      PROVE  Counted /\ half_cycle_open /\ EdgesDone /\ EdgeNext
  BY <1>8 DEF TInv, Timed, Opened
<1>9. EdgeOf(Top) = StopPhase(Top.rise)
  BY DEF EdgeOf, StopPhase
<1>10. ASSUME ~disturbed
       PROVE  Top.rise <=> (Top.starts <=> ~stop_on_rise)
  BY <1>8, <1>10 DEF EdgeNext
<1>11. ASSUME ~disturbed
       PROVE  Counted' /\ (half_cycle_open' => EdgesDone' /\ EdgeNext')
  <2>1. clk \in Nat /\ half_tick \in Nat
    BY DEF IInv, TypeOK
  <2>2. HalvesOwed = (IF Top.starts THEN 2 ELSE 1) /\ HalvesOwed' = (IF Top.starts THEN 1 ELSE 0)
    BY <1>6, <1>7, <1>8, <1>11 DEF HalvesOwed
  <2>3. Counted'
    BY <1>1, <1>7, <1>8, <1>11, <2>1, <2>2 DEF Counted
  <2>4. ASSUME half_cycle_open'
        PROVE  EdgesDone' /\ EdgeNext'
    <3>1. Top.starts
      BY <1>7, <2>4
    <3>2. Top.rise <=> ~stop_on_rise
      BY <1>10, <1>11, <3>1
    <3>3. driven = {}
      BY <1>6, <1>8, <1>11, <3>1 DEF EdgesDone
    <3>4. driven' = {StopPhase(~stop_on_rise)}
      BY <1>7, <1>9, <3>2, <3>3 DEF StopPhase
    <3>5. next_half_is_rise' <=> stop_on_rise
      BY <1>7, <3>2
    <3> QED BY <1>6, <1>7, <3>4, <3>5 DEF EdgesDone, EdgeNext
  <2> QED BY <2>3, <2>4
<1>12. Timed'
  BY <1>6, <1>7, <1>11 DEF Timed, Opened
<1>13. Aligned'
  <2>1. SUFFICES ASSUME ~disturbed', ~Idle', Top'.call = "Step"
                 PROVE  /\ Top.starts => Top'.left % 2 # 0 /\ half_cycle_open'
                        /\ ~Top.starts => Top'.left % 2 = 0 /\ ~half_cycle_open'
    BY <1>5, <1>6 DEF Aligned
  <2>2. Top.starts <=> Top.left % 2 = 0
    BY <1>1, <1>3, <1>5, <1>7, <2>1 DEF TInv, Aligned
  <2>3. Top'.left = Top.left - 1
    BY <1>3, <1>5
  <2>4. \A n \in Nat : n - 1 \in Nat => (n % 2 = 0 <=> (n - 1) % 2 # 0)
    OBVIOUS
  <2> QED BY <1>1, <1>7, <1>8, <2>1, <2>2, <2>3, <2>4
<1>14. ASSUME ~disturbed, half_cycle_open, ~half_cycle_open'
       PROVE  driven' = Edges /\ phase' = StopPhase(stop_on_rise)
  <2>1. ~Top.starts
    BY <1>7, <1>14
  <2>2. Top.rise <=> stop_on_rise
    BY <1>10, <1>14, <2>1
  <2>3. driven = {StopPhase(~stop_on_rise)}
    BY <1>6, <1>8, <1>14, <2>1 DEF EdgesDone
  <2> QED BY <1>7, <1>9, <2>2, <2>3 DEF StopPhase, Edges
<1> QED BY <1>12, <1>13, <1>14 DEF TInv

LEMMA InvokeTime ==
  ASSUME IInv, TInv, InHalfStep, NEW j \in Nat, Invoke(Top, j),
         UNCHANGED <<clk, control, disturbed>>
  PROVE  TInv' /\ half_cycle_open' = half_cycle_open
<1> DEFINE f == [Top EXCEPT !.stage = "callbacks", !.at = j]
<1>1. ~Idle /\ Top \in Frame
  BY OneFrame DEF IInv, InHalfStep, Stage
<1>2. /\ f \in Frame /\ f.stage = "callbacks" /\ f.left = Top.left /\ f.call = Top.call
      /\ f.starts = Top.starts /\ f.rise = Top.rise
  BY <1>1 DEF Frame, Stages
<1>3. SetTop(f)
  BY DEF Invoke
<1> HIDE DEF f
<1>4. Top' = f /\ ~Idle' /\ Stage' = "callbacks"
  BY <1>1, <1>2, <1>3, OneFrame DEF IInv
<1>5. InHalfStep' /\ (First' <=> First)
  BY <1>2, <1>4 DEF InHalfStep, First
<1>6. UNCHANGED <<clk, half_tick, half_cycle_open, next_half_is_rise, disturbed, driven, stop_on_rise>>
  BY DEF Invoke, control
<1>7. Timed'
  BY <1>2, <1>4, <1>5, <1>6 DEF TInv, Timed, Counted, Opened, EdgesDone, EdgeNext, HalvesOwed
<1>8. Aligned'
  BY <1>1, <1>2, <1>4, <1>6 DEF TInv, Aligned
<1> QED BY <1>6, <1>7, <1>8 DEF TInv

(* What a step owes when it closes a cycle, and when it returns from Step. *)
ClosesWell  == ClosesCycle /\ ~disturbed => driven' = Edges /\ phase' = StopPhase(stop_on_rise)
ReturnsWell == StepReturns /\ ~disturbed' => ~half_cycle_open'

LEMMA UserTime ==
  ASSUME IInv, TInv, DutReturns \/ CallBackReturns
  PROVE  TInv' /\ ClosesWell
<1>1. InHalfStep /\ UNCHANGED <<clk, control, stepping, disturbed>>
  BY DEF DutReturns, CallBackReturns, InHalfStep
<1>2. CASE FinishHalf(Top)
  BY <1>1, <1>2, FinishTime DEF ClosesWell, ClosesCycle
<1>3. ASSUME NEW i, CallBackFrom(Top, i), ~FinishHalf(Top)
      PROVE  TInv' /\ ClosesWell
  <2> DEFINE j == CHOOSE j \in Pending(Top, i) : \A k \in Pending(Top, i) : j <= k
  <2>1. Pending(Top, i) # {} /\ Invoke(Top, j)
    BY <1>3 DEF CallBackFrom, EndPass
  <2>2. Pending(Top, i) \subseteq Nat
    <3>1. callbacks[EdgeOf(Top)] \in Seq(Funcs \cup {NoFunc})
      BY DEF IInv, TypeOK, EdgeOf, Edges
    <3> QED BY <3>1, LenProperties DEF Pending
  <2>3. j \in Nat
    <3>1. \E m \in Pending(Top, i) : \A k \in Pending(Top, i) : m <= k
      BY <2>1, <2>2, SmallestOf
    <3> QED BY <2>2, <3>1
  <2> HIDE DEF j
  <2> QED BY <1>1, <2>1, <2>3, InvokeTime DEF ClosesWell, ClosesCycle
<1>4. CASE DutReturns
  BY <1>2, <1>3, <1>4 DEF DutReturns
<1>5. CASE CallBackReturns
  BY <1>2, <1>3, <1>5 DEF CallBackReturns
<1> QED BY <1>4, <1>5

(* The calls that leave the time alone close no cycle and return from none.*)
LEMMA QuietTime ==
  ASSUME IInv, TInv,
         \/ Disable \/ Enable \/ AssertFails \/ AcquireClock \/ ReleaseClock
         \/ \E e \in Edges : ClearCallBacks(e)
         \/ \E e \in Edges, f \in Funcs : AddCallBack(e, f) \/ RemoveCallBack(e, f)
         \/ UNCHANGED vars
  PROVE  TInv' /\ ClosesWell /\ ReturnsWell
<1>1. UNCHANGED <<time, stack, stop_on_rise, disturbed, driven>>
  BY DEF Disable, Enable, AssertFails, AcquireClock, ReleaseClock, ClearCallBacks, AddCallBack,
         RemoveCallBack, vars, control, history
<1>2. is_disable' => is_disable \/ Stage # "enter"
  BY DEF Disable, Enable, AssertFails, AcquireClock, ReleaseClock, ClearCallBacks, AddCallBack,
         RemoveCallBack, vars, control, May, InUserCode
<1>3. TInv'
  BY <1>1, <1>2, Untouched
<1> QED BY <1>1, <1>3 DEF ClosesWell, ClosesCycle, ReturnsWell, StepReturns, time, Idle

LEMMA NextTInv == IInv /\ TInv /\ [Next]_vars => TInv' /\ ClosesWell /\ ReturnsWell
<1> SUFFICES ASSUME IInv, TInv, [Next]_vars PROVE TInv' /\ ClosesWell /\ ReturnsWell
  OBVIOUS
<1>1. half_tick \in Nat
  BY DEF IInv, TypeOK
<1>2. CASE \/ (\E s \in 1..MaxCycles : Step(s)) \/ StepHalf
           \/ (\E n \in 1..2 * MaxCycles : RunUntil(n))
  <2>1. PICK f : Entered(f) /\ Idle
    BY <1>2, EnterStep
  <2>2. ClosesWell /\ ReturnsWell
    BY <2>1 DEF Entered, time, ClosesWell, ClosesCycle, ReturnsWell, StepReturns
  <2> QED BY <1>2, <2>2, EnterTime
<1>3. CASE ReturnFromDrive \/ RunUntilStops \/ Throws
  <2>1. ClosesWell
    BY <1>3 DEF ReturnFromDrive, RunUntilStops, Throws, time, ClosesWell, ClosesCycle
  <2>2. ReturnsWell
    <3>1. CASE ReturnFromDrive
      <4>1. UNCHANGED <<half_cycle_open, disturbed>> /\ Stage = "enter" /\ Stops(Top)
        BY <3>1 DEF ReturnFromDrive, time, history
      <4>2. ASSUME StepReturns, ~disturbed
            PROVE  ~half_cycle_open
        <5>1. ~Idle /\ Top.call = "Step"
          BY <4>2 DEF StepReturns
        <5>2. Top.left % 2 = 0
          BY <4>1, <5>1 DEF Stops, HonorsDisable
        <5>3. ~half_cycle_open \/ (~is_disable /\ Top.left # 0)
          BY <4>1, <4>2, <5>1, <5>2 DEF TInv, Aligned
        <5> QED BY <4>1, <5>3 DEF Stops
      <4> QED BY <4>1, <4>2 DEF ReturnsWell
    <3>2. CASE RunUntilStops
      BY <3>2 DEF RunUntilStops, ReturnsWell, StepReturns
    <3>3. CASE Throws
      BY <3>3 DEF Throws, ReturnsWell
    <3> QED BY <1>3, <3>1, <3>2, <3>3
  <2> QED BY <1>3, <2>1, <2>2, LeaveTime
<1>4. CASE Reset
  <2>1. ClosesWell /\ ReturnsWell
    BY <1>1, <1>4 DEF Reset, ZeroTime, ClosesWell, ClosesCycle, ReturnsWell, StepReturns, Idle
  <2> QED BY <1>4, <2>1, ResetTime
<1>5. ASSUME NEW rise \in BOOLEAN, default_stop_on_rise(rise)
      PROVE  TInv' /\ ClosesWell /\ ReturnsWell
  <2>1. UNCHANGED <<half_cycle_open, stack>>
    BY <1>5 DEF default_stop_on_rise
  <2>2. ClosesWell /\ ReturnsWell
    BY <2>1 DEF ClosesWell, ClosesCycle, ReturnsWell, StepReturns, Idle
  <2> QED BY <1>5, <2>2, StopEdgeTime
<1>6. CASE BeginHalf \/ CoroutinesReturn
  <2>1. ~Idle'
    BY <1>6, HalfStep DEF SameCall
  <2>2. half_cycle_open' = TRUE \/ half_cycle_open' = half_cycle_open
    BY <1>6 DEF BeginHalf, CoroutinesReturn, time
  <2>3. ClosesWell /\ ReturnsWell
    BY <2>1, <2>2 DEF ClosesWell, ClosesCycle, ReturnsWell, StepReturns, Idle
  <2> QED BY <1>6, <2>3, BeginTime, AwaitTime
<1>7. CASE DutReturns \/ CallBackReturns
  <2>1. ~Idle'
    BY <1>7, UserReturns DEF SameCall
  <2> QED BY <1>7, <2>1, UserTime DEF ReturnsWell, StepReturns, Idle
<1>8. CASE \/ Disable \/ Enable \/ AssertFails \/ AcquireClock \/ ReleaseClock
           \/ (\E e \in Edges : ClearCallBacks(e))
           \/ (\E e \in Edges, f \in Funcs : AddCallBack(e, f) \/ RemoveCallBack(e, f))
           \/ UNCHANGED vars
  BY <1>8, QuietTime
<1> QED BY <1>2, <1>3, <1>4, <1>5, <1>6, <1>7, <1>8 DEF Next, Interface, Progress

(* For any functions, bounds and re-entrant calls (_step_half_impl,        *)
(* Reset): the counter of half steps and the counter of cycles agree,      *)
(* until an exception or a Reset cuts a half step short.                   *)
THEOREM CountersAgree == Spec => []HalfTickParity
<1>1. TInv => HalfTickParity
  BY DEF TInv, Timed, Counted, HalfTickParity
<1>2. IInv /\ TInv /\ [Next]_vars => TInv'
  BY NextTInv
<1> QED BY <1>1, <1>2, InitIInv, NextIInv, InitTInv, PTL DEF Spec

(* However StepHalf, Step and RunUntil share a cycle, and whenever the     *)
(* stop edge is chosen: a closed cycle has driven both edges and stands in *)
(* the phase of the stop edge.                                             *)
THEOREM CyclesWhole == Spec => CycleDrivesBothEdges
<1>1. IInv /\ TInv /\ [Next]_vars =>
        TInv' /\ [ClosesCycle /\ ~disturbed
                    => driven' = Edges /\ phase' = StopPhase(stop_on_rise)]_vars
  BY NextTInv DEF ClosesWell
<1> QED BY <1>1, InitIInv, NextIInv, InitTInv, PTL DEF Spec, CycleDrivesBothEdges

(* Step returns at a cycle boundary, also when user code inside it         *)
(* disables the clock: Step honours Disable between cycles only, and its   *)
(* Assert stops a Step entered in mid-cycle.                               *)
THEOREM StepWhole == Spec => StepReturnsAtBoundary
<1>1. IInv /\ TInv /\ [Next]_vars =>
        TInv' /\ [StepReturns /\ ~disturbed' => ~half_cycle_open']_vars
  BY NextTInv DEF ReturnsWell
<1> QED BY <1>1, InitIInv, NextIInv, InitTInv, PTL DEF Spec, StepReturnsAtBoundary
=============================================================================
