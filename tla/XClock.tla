------------------------------- MODULE XClock -------------------------------
(***************************************************************************)
(* The clock of a simulation (src/core/clock.cpp): half cycles, the two    *)
(* lists of edge callbacks, Disable, and the guards that let exactly one   *)
(* driver move simulated time: the manual calls Step and StepHalf, or the  *)
(* half steps that the owning XEngine takes inside RunUntil.               *)
(*                                                                         *)
(* Everything runs on one thread, so the hard part is re-entrancy: a half  *)
(* step calls user code (the DUT step function, the edge callbacks, the    *)
(* coroutines resumed when a cycle closes), and that code calls the clock  *)
(* again.  The call stack is therefore explicit: a frame is a call of      *)
(* Step, StepHalf or RunUntil, and "stage" says where in its current half  *)
(* step it is.  Control is in user code when the stack is empty or the top *)
(* frame is in the stage "dut", "callbacks" or "await"; user code then     *)
(* makes any number of calls before it returns or throws.                  *)
(*                                                                         *)
(* A call that a guard rejects (it warns, returns, or throws an exception  *)
(* the caller handles) changes nothing and needs no action.                *)
(***************************************************************************)
EXTENDS Naturals, Sequences, FiniteSets, SequencesExt

CONSTANTS
  Funcs,        (* Functions that can be registered as edge callbacks.     *)
  NoFunc,       (* The null function: an entry removed during a pass.      *)
  Reentrant,    (* The calls user code makes from inside a half step.      *)
  MaxClk,       (* Bound: no call starts once clk has reached it.          *)
  MaxCycles,    (* Bound, in cycles, on what one Step or RunUntil takes.   *)
  MaxList       (* Bound on the length of a callback list.                 *)

ASSUME NoFuncAssumption == NoFunc \notin Funcs
ASSUME BoundsAssumption == MaxClk \in Nat /\ MaxCycles \in Nat /\ MaxList \in Nat

VARIABLES
  clk, half_tick, half_cycle_open, next_half_is_rise, stop_on_rise, phase,
  is_disable, in_callback, callbacks_removed,
  callbacks,    (* list_call_back_ris and list_call_back_fal.              *)
  owned,        (* drive_control.owner is not null.                        *)
  stepping,     (* drive_control.stepping.                                 *)
  stack,        (* The calls in progress, innermost last.                  *)
  halted,       (* An Assert failed and the process has exited.            *)
  (* History, read by properties only. *)
  disturbed,    (* A half step was cut short or its clock reset under it.  *)
  ran,          (* Functions invoked by the current callback pass.         *)
  dropped,      (* <<edge, func>> removed and not registered since.        *)
  driven        (* Edges completed in the current cycle.                   *)

time    == <<clk, half_tick, half_cycle_open, next_half_is_rise, phase>>
lists   == <<callbacks, callbacks_removed>>
control == <<is_disable, stop_on_rise, owned, halted>>
history == <<disturbed, ran, dropped, driven>>
vars    == <<time, lists, control, stepping, in_callback, stack, history>>

Edges  == {"Rising", "Falling"}
Manual == {"Step", "StepHalf"}
Stages == {"enter", "dut", "callbacks", "await"}

Frame == [call : Manual \cup {"RunUntil"}, left : Nat, stage : Stages,
          starts : BOOLEAN, rise : BOOLEAN, at : Nat]

NewFrame(call, left) ==
  [call |-> call, left |-> left, stage |-> "enter",
   starts |-> FALSE, rise |-> FALSE, at |-> 0]

Idle   == stack = << >>
Top    == stack[Len(stack)]
SetTop(f) == stack' = [stack EXCEPT ![Len(stack)] = f]
EdgeOf(f) == IF f.rise THEN "Rising" ELSE "Falling"

(* Control is in user code, which may call the clock. *)
Stage      == IF Idle THEN "user" ELSE Top.stage
InUserCode == ~halted /\ Stage # "enter"
May(call)  == InUserCode /\ (~Idle => call \in Reentrant)

(* The half steps of a frame are cut short only while one is being run. *)
InHalfStep == Stage \in {"dut", "callbacks"}

TypeOK ==
  /\ clk \in Nat /\ half_tick \in Nat
  /\ half_cycle_open \in BOOLEAN /\ next_half_is_rise \in BOOLEAN
  /\ stop_on_rise \in BOOLEAN /\ phase \in Edges
  /\ is_disable \in BOOLEAN /\ in_callback \in BOOLEAN
  /\ callbacks_removed \in BOOLEAN
  /\ callbacks \in [Edges -> Seq(Funcs \cup {NoFunc})]
  /\ owned \in BOOLEAN /\ stepping \in BOOLEAN /\ halted \in BOOLEAN
  /\ stack \in Seq(Frame)
  /\ disturbed \in BOOLEAN /\ ran \in SUBSET Funcs
  /\ dropped \in SUBSET (Edges \X Funcs) /\ driven \in SUBSET Edges

Init ==
  /\ clk = 0 /\ half_tick = 0 /\ half_cycle_open = FALSE
  /\ next_half_is_rise = FALSE /\ stop_on_rise = TRUE /\ phase = "Rising"
  /\ is_disable = FALSE /\ in_callback = FALSE /\ callbacks_removed = FALSE
  /\ callbacks = [e \in Edges |-> << >>]
  /\ owned = FALSE /\ stepping = FALSE /\ stack = << >> /\ halted = FALSE
  /\ disturbed = FALSE /\ ran = {} /\ dropped = {} /\ driven = {}

-----------------------------------------------------------------------------
(* Frames.  Leaving one destroys its StepScope, if it is a manual call.    *)

Push(f) ==
  /\ stack' = Append(stack, f)
  /\ stepping' = (stepping \/ f.call \in Manual)

Pop ==
  /\ stack' = Front(stack)
  /\ stepping' = (stepping /\ Top.call \notin Manual)

(* CheckManualStep, then the early returns of Step and StepHalf, then the  *)
(* StepScope that throws when a half step is already being run.            *)
ManualUnchecked == TRUE                      \* mutant: ownership not looked at
CheckManualStep == ~owned

StepGuard     == CheckManualStep /\ ~is_disable /\ ~in_callback /\ ~stepping

StepHalfUnscoped == CheckManualStep /\ ~in_callback       \* mutant: no StepScope
StepHalfGuard == CheckManualStep /\ ~in_callback /\ ~stepping

Step(s) ==
  /\ May("Step") /\ StepGuard /\ clk < MaxClk
  /\ Push(NewFrame("Step", 2 * s))
  /\ UNCHANGED <<time, lists, control, in_callback, history>>

StepHalf ==
  /\ May("StepHalf") /\ StepHalfGuard /\ clk < MaxClk
  /\ Push(NewFrame("StepHalf", 1))
  /\ UNCHANGED <<time, lists, control, in_callback, history>>

(* XEngine::RunUntil of the owner: its RunScope refuses a second run.      *)
EngineRunning == \E i \in DOMAIN stack : stack[i].call = "RunUntil"

RunUntil(n) ==
  /\ May("RunUntil") /\ ~EngineRunning /\ owned /\ ~in_callback
  /\ clk < MaxClk
  /\ Push(NewFrame("RunUntil", n))
  /\ UNCHANGED <<time, lists, control, in_callback, history>>

-----------------------------------------------------------------------------
(* One half step: _step_half_impl, _step_ris/_step_fal and _call_back.     *)

(* The entries of a list that are not f.  (A recursive function where      *)
(* SelectSeq would do, because the provers know nothing of SelectSeq.)     *)
Without(list, f) ==
  LET kept[i \in 0..Len(list)] ==
        IF i = 0 THEN << >>
        ELSE IF list[i] = f THEN kept[i - 1] ELSE Append(kept[i - 1], list[i])
  IN kept[Len(list)]

(* The frame returns because nothing is left or because the clock is       *)
(* disabled; Step looks at is_disable between whole cycles only.           *)
HonorsDisableInside(f) == TRUE                 \* mutant: after every half step
HonorsDisable(f) == f.call # "Step" \/ f.left % 2 = 0

Stops(f) == f.left = 0 \/ (is_disable /\ HonorsDisable(f))

ReturnWhenDone ==                            \* mutant: waits to be enabled again
  /\ Stage = "enter" /\ ~halted /\ Top.left = 0
  /\ Pop
  /\ UNCHANGED <<time, lists, control, in_callback, history>>

ReturnFromDrive ==
  /\ Stage = "enter" /\ ~halted /\ Stops(Top)
  /\ Pop
  /\ UNCHANGED <<time, lists, control, in_callback, history>>

(* The Assert of Step: a whole cycle must start at a cycle boundary.       *)
BoundaryAssert(f) == f.call = "Step" /\ f.left % 2 = 0 => ~half_cycle_open

AssertFails ==
  /\ Stage = "enter" /\ ~halted
  /\ ~Stops(Top)
  /\ ~BoundaryAssert(Top)
  /\ halted' = TRUE
  /\ UNCHANGED <<time, lists, is_disable, stop_on_rise, owned, stepping,
                 in_callback, stack, history>>

BeginHalf ==
  /\ Stage = "enter" /\ ~halted
  /\ ~Stops(Top)
  /\ BoundaryAssert(Top)
  /\ LET starts == ~half_cycle_open
         rise   == IF starts THEN ~stop_on_rise ELSE next_half_is_rise
     IN /\ clk' = IF starts THEN clk + 1 ELSE clk
        /\ next_half_is_rise' = rise
        /\ half_cycle_open' = TRUE
        /\ SetTop([Top EXCEPT !.stage = "dut", !.starts = starts, !.rise = rise])
        /\ driven' = IF starts THEN {} ELSE driven
  /\ UNCHANGED <<half_tick, phase, lists, control, stepping, in_callback,
                 disturbed, ran, dropped>>

FinishHalfByCycle(f) ==                      \* mutant: counts whole cycles
  /\ phase' = EdgeOf(f)
  /\ half_tick' = half_tick + 1
  /\ next_half_is_rise' = ~f.rise
  /\ half_cycle_open' = (half_cycle_open /\ f.starts)
  /\ driven' = driven \cup {EdgeOf(f)}
  /\ SetTop([f EXCEPT !.stage = IF f.starts THEN "enter" ELSE "await",
                      !.left = f.left - 2, !.at = 0])

(* The epilogue of _step_half_impl.  The second half closes the cycle and  *)
(* resumes the coroutines; otherwise control returns to the frame.         *)
FinishHalf(f) ==
  /\ phase' = EdgeOf(f)
  /\ half_tick' = half_tick + 1
  /\ next_half_is_rise' = ~f.rise
  /\ half_cycle_open' = (half_cycle_open /\ f.starts)
  /\ driven' = driven \cup {EdgeOf(f)}
  /\ SetTop([f EXCEPT !.stage = IF f.starts THEN "enter" ELSE "await",
                      !.left = f.left - 1, !.at = 0])

(* _call_back after entry i: invoke the next entry that is not removed, or *)
(* end the pass, which erases the removed entries of both lists.           *)
Sweep(list) == Without(list, NoFunc)

Pending(f, i) == {j \in DOMAIN callbacks[EdgeOf(f)] :
                    j > i /\ callbacks[EdgeOf(f)][j] # NoFunc}

Invoke(f, j) ==
  /\ in_callback' = TRUE
  /\ ran' = ran \cup {callbacks[EdgeOf(f)][j]}
  /\ SetTop([f EXCEPT !.stage = "callbacks", !.at = j])
  /\ UNCHANGED <<half_tick, half_cycle_open, next_half_is_rise, phase, driven,
                 lists>>

SweptOne(f) == [callbacks EXCEPT ![EdgeOf(f)] = Sweep(@)]  \* mutant: one list
Swept(f)    == [e \in Edges |-> Sweep(callbacks[e])]

EndPass(f) ==
  /\ in_callback' = FALSE
  /\ callbacks_removed' = FALSE
  /\ callbacks' = IF callbacks_removed THEN Swept(f) ELSE callbacks
  /\ ran' = {}
  /\ FinishHalf(f)

CallBackFrom(f, i) ==
  IF Pending(f, i) = {} THEN EndPass(f)
  ELSE Invoke(f, CHOOSE j \in Pending(f, i) : \A k \in Pending(f, i) : j <= k)

(* The step function has returned and the ports are refreshed.  An empty   *)
(* list is not a pass: it neither sets in_callback nor erases anything.    *)
DutReturns ==
  /\ Stage = "dut" /\ ~halted
  /\ IF callbacks[EdgeOf(Top)] = << >>
     THEN FinishHalf(Top) /\ UNCHANGED <<in_callback, lists, ran>>
     ELSE CallBackFrom(Top, 0)
  /\ UNCHANGED <<clk, control, stepping, disturbed, dropped>>

CallBackReturns ==
  /\ Stage = "callbacks" /\ ~halted
  /\ CallBackFrom(Top, Top.at)
  /\ UNCHANGED <<clk, control, stepping, disturbed, dropped>>

(* schedule_awit has resumed the ready coroutines.                         *)
CoroutinesReturn ==
  /\ Stage = "await" /\ ~halted
  /\ SetTop([Top EXCEPT !.stage = "enter"])
  /\ UNCHANGED <<time, lists, control, stepping, in_callback, history>>

(* EvaluatePhase found a hit, a phase barrier or the end of the wall-clock *)
(* budget: RunUntil returns between two half steps.                        *)
RunUntilStops ==
  /\ Stage = "enter" /\ ~halted /\ Top.call = "RunUntil"
  /\ Pop
  /\ UNCHANGED <<time, lists, control, in_callback, history>>

(* The step function or a callback throws and nothing below catches it.    *)
Throws ==
  /\ InHalfStep /\ ~halted /\ "Throw" \in Reentrant
  /\ Pop
  /\ in_callback' = FALSE
  /\ disturbed' = TRUE
  /\ ran' = {}
  /\ UNCHANGED <<time, lists, control, dropped, driven>>

-----------------------------------------------------------------------------
(* The other calls of the interface.                                       *)

Disable ==
  /\ May("Disable")
  /\ is_disable' = TRUE
  /\ UNCHANGED <<time, lists, stop_on_rise, owned, halted, stepping,
                 in_callback, stack, history>>

Enable ==
  /\ May("Disable")
  /\ is_disable' = FALSE
  /\ UNCHANGED <<time, lists, stop_on_rise, owned, halted, stepping,
                 in_callback, stack, history>>

StopPhase(rise) == IF rise THEN "Rising" ELSE "Falling"

ZeroCounters == clk' = 0 /\ half_tick' = 0 /\ UNCHANGED half_cycle_open  \* mutant
ZeroTime     == clk' = 0 /\ half_tick' = 0 /\ half_cycle_open' = FALSE

Reset ==
  /\ May("Reset") /\ CheckManualStep
  /\ ZeroTime
  /\ next_half_is_rise' = ~stop_on_rise
  /\ phase' = StopPhase(stop_on_rise)
  /\ disturbed' = IF Idle THEN FALSE ELSE disturbed \/ InHalfStep
  /\ UNCHANGED <<lists, control, stepping, in_callback, stack, ran, dropped, driven>>

NoBoundaryAssert == TRUE                     \* mutant: allowed in mid-cycle
StopOnRiseAssert == ~half_cycle_open

default_stop_on_rise(rise) ==
  /\ May("default_stop_on_rise") /\ CheckManualStep
  /\ IF StopOnRiseAssert
     THEN /\ stop_on_rise' = rise
          /\ next_half_is_rise' = ~rise
          /\ phase' = StopPhase(rise)
          /\ UNCHANGED halted
     ELSE halted' = TRUE /\ UNCHANGED <<stop_on_rise, next_half_is_rise, phase>>
  /\ UNCHANGED <<clk, half_tick, half_cycle_open, lists, is_disable, owned,
                 stepping, in_callback, stack, history>>

(* Growing or clearing the vector being iterated is undefined behaviour,   *)
(* which no caller may rely on: user code does neither.                    *)
Iterating(e) == in_callback /\ EdgeOf(Top) = e

AddCallBack(e, f) ==
  /\ May("AddCallBack") /\ ~Iterating(e) /\ Len(callbacks[e]) < MaxList
  /\ callbacks' = [callbacks EXCEPT ![e] = Append(@, f)]
  /\ dropped' = dropped \ {<<e, f>>}
  /\ UNCHANGED <<time, callbacks_removed, control, stepping, in_callback,
                 stack, disturbed, ran, driven>>

ClearCallBacks(e) ==
  /\ May("ClearCallBacks") /\ ~Iterating(e)
  /\ callbacks' = [callbacks EXCEPT ![e] = << >>]
  /\ dropped' = dropped \cup ({e} \X Funcs)
  /\ UNCHANGED <<time, callbacks_removed, control, stepping, in_callback,
                 stack, disturbed, ran, driven>>

(* _remove_step_cb_by: during a pass the entries only lose their function. *)
TombstonedFirst(list, f) ==                  \* mutant: stops at the first match
  IF \E i \in DOMAIN list : list[i] = f
  THEN [list EXCEPT ![SelectInSeq(list, LAMBDA g : g = f)] = NoFunc] ELSE list
Tombstoned(list, f) == [i \in DOMAIN list |-> IF list[i] = f THEN NoFunc ELSE list[i]]

ErasedFrom(list, f)  == Without(list, f)      \* mutant: erases at once
RemovedFrom(list, f) ==
  IF in_callback THEN Tombstoned(list, f) ELSE Without(list, f)

RemoveCallBack(e, f) ==
  /\ May("RemoveCallBack")
  /\ callbacks' = [callbacks EXCEPT ![e] = RemovedFrom(@, f)]
  /\ callbacks_removed' =
       (callbacks_removed \/ (in_callback /\ \E i \in DOMAIN callbacks[e] : callbacks[e][i] = f))
  /\ dropped' = dropped \cup {<<e, f>>}
  /\ UNCHANGED <<time, control, stepping, in_callback, stack, disturbed, ran, driven>>

(* XEngine::AcquireClock and ReleaseClock, seen from the clock: whether    *)
(* the engine still holds registrations is its own state (module XEngine). *)
AcquireClock ==
  /\ May("AcquireClock") /\ ~owned /\ ~in_callback /\ ~stepping
  /\ owned' = TRUE
  /\ UNCHANGED <<time, lists, is_disable, stop_on_rise, halted, stepping,
                 in_callback, stack, history>>

ReleaseClock ==
  /\ May("ReleaseClock") /\ owned /\ ~EngineRunning
  /\ owned' = FALSE
  /\ UNCHANGED <<time, lists, is_disable, stop_on_rise, halted, stepping,
                 in_callback, stack, history>>

-----------------------------------------------------------------------------
Interface ==
  \/ \E s \in 1..MaxCycles : Step(s)
  \/ \E n \in 1..2 * MaxCycles : RunUntil(n)
  \/ StepHalf
  \/ Disable \/ Enable \/ Reset
  \/ \E rise \in BOOLEAN : default_stop_on_rise(rise)
  \/ \E e \in Edges, f \in Funcs : AddCallBack(e, f) \/ RemoveCallBack(e, f)
  \/ \E e \in Edges : ClearCallBacks(e)
  \/ AcquireClock \/ ReleaseClock

(* What the clock does by itself, and user code returning to it.           *)
Progress ==
  \/ ReturnFromDrive \/ BeginHalf \/ AssertFails
  \/ DutReturns \/ CallBackReturns \/ CoroutinesReturn

Next == Interface \/ Progress \/ RunUntilStops \/ Throws

Spec == Init /\ [][Next]_vars

(* User code returns and the thread keeps running.                         *)
FairSpec == Spec /\ WF_vars(Progress)

-----------------------------------------------------------------------------
(* Safety.                                                                 *)

(* One half step runs at a time, whichever way user code re-enters the     *)
(* clock, and its driver matches the lease: manual calls advance a free    *)
(* clock only, and while an engine owns the clock only its RunUntil does.  *)
(* The flags stepping and in_callback mirror the call stack, also after an *)
(* exception.  (Step, StepHalf, AcquireClock, ReleaseClock, RunUntil.)     *)
DriveExclusion ==
  /\ Len(stack) <= 1
  /\ stepping <=> ~Idle /\ Top.call \in Manual
  /\ in_callback <=> Stage = "callbacks"
  /\ ~Idle => (owned <=> Top.call = "RunUntil")

(* An entry without a function is always covered by callbacks_removed, so  *)
(* no pass can forget to erase it.  (_remove_step_cb_by, _call_back.)      *)
TombstonesFlagged ==
  (\E e \in Edges : \E i \in DOMAIN callbacks[e] : callbacks[e][i] = NoFunc)
     => callbacks_removed

(* half_tick counts completed half steps and clk the started cycles: they  *)
(* agree until a half step is cut short or Reset runs inside one.          *)
HalvesOwed ==
  IF InHalfStep THEN IF Top.starts THEN 2 ELSE 1
  ELSE IF half_cycle_open THEN 1 ELSE 0

HalfTickParity == ~disturbed => half_tick + HalvesOwed = 2 * clk

(* The step starts an invocation of the callback it leaves on top.         *)
Invokes == in_callback' /\ (~in_callback \/ Top'.at # Top.at)

(* A callback removed from an edge, also by a callback of the same pass    *)
(* and also when exceptions have left removed entries in the list, is not  *)
(* invoked again until it is registered again.                             *)
NeverInvokesRemoved ==
  [][Invokes => <<EdgeOf(Top'), callbacks'[EdgeOf(Top')][Top'.at]>> \notin dropped]_vars

(* A pass that is not cut short invokes every entry that is still live at  *)
(* its end: removing callbacks during the pass makes it skip no other one. *)
EveryLiveEntryRuns ==
  [][in_callback /\ ~in_callback' /\ Len(stack') = Len(stack)
       => \A j \in DOMAIN callbacks[EdgeOf(Top)] :
            callbacks[EdgeOf(Top)][j] # NoFunc => callbacks[EdgeOf(Top)][j] \in ran]_vars

(* Closing a cycle: the second half has been counted.                      *)
ClosesCycle == half_cycle_open /\ ~half_cycle_open' /\ half_tick' > half_tick

(* A closed cycle has driven both edges and stands in the phase that       *)
(* stop_on_rise selects; the cycles after an exception are left out.       *)
CycleDrivesBothEdges ==
  [][ClosesCycle /\ ~disturbed => driven' = Edges /\ phase' = StopPhase(stop_on_rise)]_vars

(* Step advances whole cycles: it returns at a cycle boundary, also when a *)
(* callback of the first half disables the clock.                          *)
StepReturns == ~Idle /\ Top.call = "Step" /\ stack' = << >>

StepReturnsAtBoundary == [][StepReturns /\ ~disturbed' => ~half_cycle_open']_vars

(* What the documentation says of every cycle and of every Step.           *)
EveryCycleDrivesBothEdges == [][ClosesCycle => driven' = Edges]_vars
EveryStepReturnsAtBoundary == [][StepReturns => ~half_cycle_open']_vars

(* The clock keeps the lease: manual calls drive it while it is free, the  *)
(* owning engine while it is owned, and it changes owners only at rest.    *)
LeaseHolder == IF owned THEN "engine" ELSE "nobody"
LeaseDriver == IF Idle THEN "nobody"
               ELSE IF Top.call = "RunUntil" THEN "engine" ELSE "manual"

Lease == INSTANCE ClockLease WITH
           Engines <- {"engine"}, Nobody <- "nobody", Manual <- "manual",
           holder <- LeaseHolder, driving <- LeaseDriver

LeaseSpec == Lease!Spec

(* Liveness: a drive that has been started returns to its caller.          *)
DriveReturns == ~Idle ~> (Idle \/ halted)
=============================================================================
