------------------------------ MODULE XEngine ------------------------------
(***************************************************************************)
(* The execution engine (src/runtime/engine.cpp): registrations in slots   *)
(* with generations, the lease on the clock, RunUntil and SamplePhase.     *)
(* RunUntil takes half steps of the clock and evaluates the registrations  *)
(* of the phase it reaches; the first phase with a hit ends the run.  A    *)
(* registration with coverage (src/coverage/registration.cpp) samples      *)
(* instead of hitting, and stays armed.                                    *)
(*                                                                         *)
(* User code runs between two calls and inside every half step of a run    *)
(* (the DUT step function, edge callbacks, coroutines).  Evaluation runs   *)
(* no user code, so the end of a half step and the evaluation of its       *)
(* phase are one step.  A call that the code rejects with an exception or  *)
(* false changes nothing and needs no action.                              *)
(***************************************************************************)
EXTENDS PatternExecutor, FiniteSets, SequencesExt

CONSTANTS
  Engines, NoEngine,   (* The engines on the clock; owner = nullptr.       *)
  Capacity,            (* The capacity of an engine.                       *)
  Sources,             (* What a registration may wait for.                *)
  Values,              (* Of the signal: "T", "F", or "X" for unknown.     *)
  Root,                (* The expression of the sources, of one signal.    *)
  Coverage,            (* Registrations may have coverage attached.        *)
  CoverageThrows,      (* Coverage may raise on a sample.                  *)
  MaxCount,            (* 2^64 - 1, where a counter wraps.                 *)
  MaxGeneration,       (* Bound on the generation of a slot.               *)
  MaxHalves            (* Bound on the argument of RunUntil.               *)

ClockPhases == {"RisingStable", "FallingStable"}
Phases == ClockPhases \cup {"DriveStable"}
Kinds  == {"Edge", "ClockCycles", "ValueEq", "ValueChange", "Sample", "Expr",
           "Sequence", "Fsm"}
Temporal == {"Sequence", "Fsm"}      \* The kinds with a PatternView.

ASSUME EnginesAssumption == NoEngine \notin Engines
ASSUME NumbersAssumption ==
  Capacity \in Nat \ {0} /\ MaxCount \in Nat /\ MaxGeneration \in Nat \ {0} /\ MaxHalves \in Nat
ASSUME FlagsAssumption == Coverage \in BOOLEAN /\ CoverageThrows \in BOOLEAN
ASSUME SourcesAssumption ==
  \A s \in Sources :
    /\ s.kind \in Kinds /\ s.phase \in Phases /\ s.mode \in Modes
    /\ s.cycles \in 0..MaxCount /\ (s.kind = "ClockCycles" => s.cycles > 0)
    /\ s.kind \in Temporal \/ s.program.kind \in Temporal => s.program.kind = s.kind
    /\ s.kind = "Sequence" => ValidSequence(s.program.steps, {Root})
    /\ s.kind = "Fsm" => ValidFsm(s.program.states, s.program.start,
                                  s.program.transitions, {Root})

VARIABLES
  watchers,      (* The slots of each engine, numbered from 1.             *)
  free_slots,    (* The slots to use again, the last one first.            *)
  hit_buffer,    (* The slots that hit in the latest evaluation.           *)
  owner,         (* drive_control.owner of the clock.                      *)
  run,           (* The RunUntil in progress.                              *)
  phase,         (* The phase of the clock.                                *)
  signal,        (* The value of the signal.                               *)
  cut            (* History: an evaluation was cut short by an exception.  *)

clock == <<owner, run, phase, signal>>
slots == <<watchers, free_slots>>
vars  == <<slots, hit_buffer, clock, cut>>

(* TriggerRegistration with its coverage.  "told" is history: the latest   *)
(* hit was in the result of a call.                                        *)
Watcher ==
  [generation : Nat, occupied : BOOLEAN, armed : BOOLEAN, source : Sources,
   remaining : 0..MaxCount, last_condition : BOOLEAN, expected : Values,
   pattern : PatternState, covered : BOOLEAN, sampled : BOOLEAN, told : BOOLEAN]

NoRun == [engine |-> NoEngine, left |-> 0]
Running(e) == run.engine = e

TypeOK ==
  /\ watchers \in [Engines -> Seq(Watcher)]
  /\ free_slots \in [Engines -> Seq(Nat)]
  /\ hit_buffer \in [Engines -> SUBSET Nat]
  /\ owner \in Engines \cup {NoEngine}
  /\ run \in [engine : Engines \cup {NoEngine}, left : Nat]
  /\ phase \in ClockPhases
  /\ signal \in Values
  /\ cut \in [Engines -> BOOLEAN]

Init ==
  /\ watchers = [e \in Engines |-> << >>]
  /\ free_slots = [e \in Engines |-> << >>]
  /\ hit_buffer = [e \in Engines |-> {}]
  /\ owner = NoEngine /\ run = NoRun
  /\ phase = "RisingStable" /\ signal \in Values
  /\ cut = [e \in Engines |-> FALSE]

-----------------------------------------------------------------------------
(* The lease.                                                              *)

AcquireClock(e) ==
  /\ ~Running(e) /\ owner = NoEngine
  /\ owner' = e
  /\ UNCHANGED <<slots, hit_buffer, run, phase, signal, cut>>

Occupied(e)    == {s \in DOMAIN watchers[e] : watchers[e][s].occupied}
ActiveCount(e) == Cardinality(Occupied(e))

ReleaseUnchecked(e) == ~Running(e)               \* mutant: with registrations
ReleaseGuard(e)     == ~Running(e) /\ ActiveCount(e) = 0

ReleaseClock(e) ==
  /\ ReleaseGuard(e) /\ owner = e
  /\ owner' = NoEngine
  /\ UNCHANGED <<slots, hit_buffer, run, phase, signal, cut>>

NewEngine(e) ==
  /\ watchers' = [watchers EXCEPT ![e] = << >>]
  /\ free_slots' = [free_slots EXCEPT ![e] = << >>]
  /\ hit_buffer' = [hit_buffer EXCEPT ![e] = {}]
  /\ cut' = [cut EXCEPT ![e] = FALSE]

(* ~XEngine, outside its own run; an engine is then constructed anew.      *)
DestroyEngine(e) ==
  /\ ~Running(e)
  /\ NewEngine(e)
  /\ owner' = IF owner = e THEN NoEngine ELSE owner
  /\ UNCHANGED <<run, phase, signal>>

-----------------------------------------------------------------------------
(* Registrations.                                                          *)

NewWatcher(generation, source) ==
  [generation |-> generation, occupied |-> TRUE, armed |-> TRUE,
   source |-> source, remaining |-> source.cycles, last_condition |-> FALSE,
   expected |-> signal, pattern |-> StartState(source.program),
   covered |-> FALSE, sampled |-> FALSE, told |-> FALSE]

(* Allocate, then the fields the Arm call sets: the slot freed last with   *)
(* its next generation, else a new slot.                                   *)
SameGeneration(g) == g                           \* mutant: generation not moved
NextGeneration(g) == g + 1

ReuseSlot(e, source) ==
  LET s == Last(free_slots[e]) IN
  /\ owner = e /\ free_slots[e] # << >>
  /\ watchers[e][s].generation < MaxGeneration
  /\ watchers' = [watchers EXCEPT ![e][s] =
                    NewWatcher(NextGeneration(@.generation), source)]
  /\ free_slots' = [free_slots EXCEPT ![e] = Front(@)]
  /\ UNCHANGED <<hit_buffer, clock, cut>>

GrowSlots(e, source) ==
  /\ owner = e /\ free_slots[e] = << >> /\ Len(watchers[e]) < Capacity
  /\ watchers' = [watchers EXCEPT ![e] = Append(@, NewWatcher(1, source))]
  /\ UNCHANGED <<free_slots, hit_buffer, clock, cut>>

Arm(e, source) == ReuseSlot(e, source) \/ GrowSlots(e, source)

(* The check of a handle in every call that takes one.                     *)
Handles == (1..Capacity) \X (1..MaxGeneration)

Live(e, h) ==
  /\ h[1] \in DOMAIN watchers[e]
  /\ watchers[e][h[1]].occupied /\ watchers[e][h[1]].generation = h[2]

Covered(e) == {s \in DOMAIN watchers[e] : watchers[e][s].covered}

SetSlot(e, s, watcher) == watchers' = [watchers EXCEPT ![e][s] = watcher]

DisarmedOnly(w) == [w EXCEPT !.occupied = FALSE, !.armed = FALSE]    \* mutant
Disarmed(w)     == [w EXCEPT !.occupied = FALSE, !.armed = FALSE, !.covered = FALSE]

(* Neither the run nor the ownership of the clock is looked at.            *)
Disarm(e, h) ==
  /\ Live(e, h)
  /\ SetSlot(e, h[1], Disarmed(watchers[e][h[1]]))
  /\ free_slots' = [free_slots EXCEPT ![e] = Append(@, h[1])]
  /\ UNCHANGED <<hit_buffer, clock, cut>>

(* A condition keeps its history; the other kinds start again.             *)
RearmedArmed(w) == [w EXCEPT !.armed = TRUE, !.told = FALSE]  \* mutant: no reload

Rearmed(w) ==
  [w EXCEPT
     !.armed = TRUE, !.told = FALSE,
     !.remaining = IF w.source.kind = "ClockCycles" THEN w.source.cycles ELSE @,
     !.pattern   = IF w.source.kind \in Temporal THEN StartState(w.source.program) ELSE @,
     !.expected  = IF w.source.kind = "ValueChange" THEN signal ELSE @]

Rearm(e, h) ==
  /\ Live(e, h) /\ ~watchers[e][h[1]].armed
  /\ SetSlot(e, h[1], Rearmed(watchers[e][h[1]]))
  /\ UNCHANGED <<free_slots, hit_buffer, clock, cut>>

RearmSample(e, h) ==
  /\ Live(e, h) /\ watchers[e][h[1]].source.kind = "Sample" /\ ~watchers[e][h[1]].armed
  /\ SetSlot(e, h[1], [watchers[e][h[1]] EXCEPT !.armed = TRUE, !.told = FALSE])
  /\ UNCHANGED <<free_slots, hit_buffer, clock, cut>>

ClearExecutionState(e) ==
  /\ ~Running(e) /\ ActiveCount(e) = 0
  /\ hit_buffer' = [hit_buffer EXCEPT ![e] = {}]
  /\ UNCHANGED <<slots, clock, cut>>

Clear(e) ==
  /\ ~Running(e)
  /\ NewEngine(e)
  /\ UNCHANGED clock

-----------------------------------------------------------------------------
(* Coverage of a registration.                                             *)

AttachCoverage(e, h) ==
  /\ Coverage /\ Live(e, h) /\ ~watchers[e][h[1]].covered
  /\ SetSlot(e, h[1], [watchers[e][h[1]] EXCEPT !.covered = TRUE, !.sampled = FALSE])
  /\ UNCHANGED <<free_slots, hit_buffer, clock, cut>>

ResetPattern(w) ==
  [w EXCEPT !.remaining = w.source.cycles, !.pattern = StartState(w.source.program)]

ResetCoverage(e, h) ==
  /\ owner = e /\ Live(e, h) /\ watchers[e][h[1]].covered
  /\ SetSlot(e, h[1], [ResetPattern(watchers[e][h[1]]) EXCEPT !.last_condition = FALSE])
  /\ UNCHANGED <<free_slots, hit_buffer, clock, cut>>

-----------------------------------------------------------------------------
(* TriggerRegistration::Evaluate on one sample v of the signal.            *)

Holds(v) == IF v = "T" THEN {Root} ELSE {}

Decremented(n) == n - 1                          \* mutant: does not wrap
Unwrapped(n)   == IF n = 0 THEN MaxCount ELSE n - 1          \* uint64 --n

Condition(w, v) ==
  MatchCondition(v # "X", v = "T", w.source.mode, w.last_condition)

Step(w, v) == Advance(w.source.program, w.pattern, Holds(v))

Matches(w, v) ==
  CASE w.source.kind = "ClockCycles"        -> Unwrapped(w.remaining) = 0
    [] w.source.kind \in {"ValueEq", "Expr"} -> Condition(w, v).hit
    [] w.source.kind = "ValueChange"        -> v # w.expected
    [] w.source.kind \in Temporal           -> Step(w, v).completed
    [] OTHER                                -> TRUE

Evaluated(w, v) ==
  [w EXCEPT
     !.remaining      = IF w.source.kind = "ClockCycles" THEN Unwrapped(@) ELSE @,
     !.last_condition = IF w.source.kind \in {"ValueEq", "Expr"}
                        THEN Condition(w, v).previous ELSE @,
     !.expected       = IF w.source.kind = "ValueChange" THEN v ELSE @,
     !.pattern        = IF w.source.kind \in Temporal THEN Step(w, v).state ELSE @]

(* EvaluatePhase on one registration: skipped, hit (AppendHit), or sampled *)
(* by its coverage (EvaluateCoverage).  A temporal source of a group has   *)
(* its own matcher (module PatternMatcher); any other source samples when  *)
(* it matches.  The abort condition clears its history instead.            *)
Selected(w, p) == w.occupied /\ w.armed /\ w.source.phase = p

HitsOf(w, p, v) == Selected(w, p) /\ ~w.covered /\ Matches(w, v)

SamplesOf(w, p, v, abort) ==
  /\ Selected(w, p) /\ w.covered /\ ~w.sampled /\ ~abort
  /\ w.source.kind \in Temporal \/ Matches(w, v)

HitDisarms(w, v) == [Evaluated(w, v) EXCEPT !.armed = ~Matches(w, v)]

CoverageStep(w, v, abort) ==
  LET ready == [w EXCEPT !.sampled = TRUE] IN
  CASE w.sampled                   -> w
    [] ~w.sampled /\ abort         -> [ResetPattern(ready) EXCEPT !.last_condition = FALSE]
    [] OTHER -> IF w.source.kind \in Temporal THEN ready
                ELSE IF Matches(w, v) THEN ResetPattern(Evaluated(ready, v))
                ELSE Evaluated(ready, v)

TakesTurnAsWait(w, p, v, abort) ==   \* mutant: coverage does not stop the hit
  IF ~Selected(w, p) THEN w ELSE HitDisarms(w, v)

TakesTurn(w, p, v, abort) ==
  IF ~Selected(w, p) THEN w
  ELSE IF w.covered THEN CoverageStep(w, v, abort)
  ELSE HitDisarms(w, v)

(* Sample has raised: ResetPattern is not reached.                         *)
Raises(w, v) ==
  LET ready == [w EXCEPT !.sampled = TRUE] IN
  IF w.source.kind \in Temporal THEN ready ELSE Evaluated(ready, v)

(* The slots before "stop" take their turn, the sample of "stop" raises,   *)
(* the slots after it are not reached.                                     *)
Evaluation(list, p, v, aborts, stop) ==
  [s \in DOMAIN list |->
     IF s < stop THEN TakesTurn(list[s], p, v, s \in aborts)
     ELSE IF s = stop THEN Raises(list[s], v) ELSE list[s]]

HitsBefore(list, p, v, stop) == {s \in DOMAIN list : s < stop /\ HitsOf(list[s], p, v)}

Raisers(list, p, v, aborts) ==
  {s \in DOMAIN list : CoverageThrows /\ SamplesOf(list[s], p, v, s \in aborts)}

(* A result that reaches the caller reports the hits.                      *)
Told(list, hits) ==
  [s \in DOMAIN list |-> IF s \in hits THEN [list[s] EXCEPT !.told = TRUE] ELSE list[s]]

NewTick(list) == [s \in DOMAIN list |-> [list[s] EXCEPT !.sampled = FALSE]]

(* EvaluatePhase of phase p on the registrations of e, and the return of   *)
(* the call that made it.  "before" are the hits already in the buffer; an *)
(* exception at "stop" returns no result.                                  *)
EvaluatePhase(e, list, before, p, aborts, stop, returns) ==
  LET hits == before \cup HitsBefore(list, p, signal', stop)
      done == Evaluation(list, p, signal', aborts, stop)
  IN /\ stop \in Raisers(list, p, signal', aborts) \cup {Len(list) + 1}
     /\ hit_buffer' = [hit_buffer EXCEPT ![e] = hits]
     /\ watchers' = [watchers EXCEPT ![e] =
                       IF stop > Len(list) /\ returns THEN Told(done, hits) ELSE done]
     /\ cut' = [cut EXCEPT ![e] = @ \/ stop <= Len(list)]

-----------------------------------------------------------------------------
(* Driving.                                                                *)

(* The run starts its first half step, or returns at once because nothing  *)
(* may be stepped or the clock is disabled.                                *)
RunUntilUnguarded(e) == ~Running(e)             \* mutant: ownership unchecked
RunGuard(e)          == ~Running(e) /\ owner = e

RunUntil(e, n) ==
  /\ RunGuard(e)
  /\ hit_buffer' = [hit_buffer EXCEPT ![e] = {}]
  /\ run' = IF n = 0 THEN NoRun ELSE [engine |-> e, left |-> n]
  /\ UNCHANGED <<slots, owner, phase, signal, cut>>

HasArmedPhase(list, p) == \E s \in DOMAIN list : Selected(list[s], p)

(* User code has returned: the half step ends in phase p (which of the two *)
(* is the business of module XClock) and p is evaluated.  The run goes on  *)
(* unless something hit, a DriveStable registration waits at the falling   *)
(* phase, nothing is left, or "quit": the clock is disabled or the         *)
(* wall-clock budget is used up.                                           *)
GoesOnAfterHits(list, p, v, stop) ==             \* mutant: hits do not stop it
  ~(p = "FallingStable" /\ HasArmedPhase(list, "DriveStable"))

GoesOn(list, p, v, stop) ==
  /\ HitsBefore(list, p, v, stop) = {}
  /\ ~(p = "FallingStable" /\ HasArmedPhase(list, "DriveStable"))

EndHalf(e, p, v, aborts, stop, quit) ==
  LET list == NewTick(watchers[e])
      more == ~quit /\ stop > Len(list) /\ run.left > 1 /\ GoesOn(list, p, v, stop)
  IN /\ e # NoEngine /\ Running(e)
     /\ signal' = v
     /\ phase' = p
     /\ EvaluatePhase(e, list, hit_buffer[e], p, aborts, stop, ~more)
     /\ run' = IF more THEN [run EXCEPT !.left = @ - 1] ELSE NoRun
     /\ UNCHANGED <<free_slots, owner>>

(* User code throws inside the half step, through RunUntil.                *)
UserThrows ==
  /\ run # NoRun
  /\ run' = NoRun
  /\ UNCHANGED <<slots, hit_buffer, owner, phase, signal, cut>>

SamplePhase(e, v, aborts, stop) ==
  /\ RunGuard(e) /\ phase = "FallingStable"
  /\ signal' = v
  /\ EvaluatePhase(e, watchers[e], {}, "DriveStable", aborts, stop, TRUE)
  /\ UNCHANGED <<free_slots, owner, run, phase>>

(* A half step taken by hand, with all the user code it calls.             *)
StepByHand(p, v) ==
  /\ owner = NoEngine
  /\ signal' = v /\ phase' = p
  /\ watchers' = [e \in Engines |-> NewTick(watchers[e])]
  /\ UNCHANGED <<free_slots, hit_buffer, owner, run, cut>>

-----------------------------------------------------------------------------
Registrations(e) ==
  \/ \E source \in Sources : Arm(e, source)
  \/ \E h \in Handles : \/ Disarm(e, h) \/ Rearm(e, h) \/ RearmSample(e, h)
                        \/ AttachCoverage(e, h) \/ ResetCoverage(e, h)
  \/ ClearExecutionState(e) \/ Clear(e)

Evaluating(e) ==
  \E v \in Values, aborts \in SUBSET Covered(e), stop \in 1..Len(watchers[e]) + 1 :
    \/ \E p \in ClockPhases, quit \in BOOLEAN : EndHalf(e, p, v, aborts, stop, quit)
    \/ SamplePhase(e, v, aborts, stop)

Driving(e) ==
  \/ AcquireClock(e) \/ ReleaseClock(e) \/ DestroyEngine(e)
  \/ \E n \in 0..MaxHalves : RunUntil(e, n)
  \/ Evaluating(e)

Next ==
  \/ \E e \in Engines : Registrations(e) \/ Driving(e)
  \/ UserThrows
  \/ \E p \in ClockPhases, v \in Values : StepByHand(p, v)

Spec == Init /\ [][Next]_vars

-----------------------------------------------------------------------------
(* Every slot of an engine is occupied or free, never both and never freed *)
(* twice, whatever handles the calls were given; only occupied slots are   *)
(* armed or hold coverage.  (Allocate, Disarm, Clear.)                     *)
SlotPartition ==
  \A e \in Engines :
    /\ Range(free_slots[e]) = DOMAIN watchers[e] \ Occupied(e)
    /\ IsInjective(free_slots[e])
    /\ Len(watchers[e]) <= Capacity
    /\ \A s \in DOMAIN watchers[e] :
         watchers[e][s].armed \/ watchers[e][s].covered => watchers[e][s].occupied

(* An engine with registrations, and an engine that runs, holds the clock: *)
(* nobody else can move the time its registrations are waiting for.        *)
ActiveMeansOwner ==
  /\ \A e \in Engines : Occupied(e) # {} => owner = e
  /\ run # NoRun => owner = run.engine

(* A registration that has fired and waits to be rearmed was reported in   *)
(* the result of a call; only an exception of an evaluation loses hits.    *)
FiredIsReported ==
  \A e \in Engines : \A s \in Occupied(e) :
    cut[e] \/ watchers[e][s].armed \/ watchers[e][s].told

(* A counting registration that is armed has phases left to count: its     *)
(* counter is never decremented at zero.  (Rearm, ResetPattern.)           *)
CyclesLeft(w) == w.armed /\ w.source.kind = "ClockCycles" => w.remaining \in 1..w.source.cycles

CyclesRemain ==
  \A e \in Engines : \A s \in Occupied(e) : cut[e] \/ CyclesLeft(watchers[e][s])

(* The same after exceptions too: the documentation calls a registration   *)
(* with coverage persistent and counts "selected phases".                  *)
CyclesAlwaysRemain == \A e \in Engines : \A s \in Occupied(e) : CyclesLeft(watchers[e][s])

(* Coverage makes a registration persistent: while it is attached, nothing *)
(* but Disarm, Clear or the destructor ends the registration's sampling.   *)
CoveredStaysArmed ==
  [][\A e \in Engines : \A s \in Covered(e) :
       watchers[e][s].armed /\ s \in Occupied(e)'
         => watchers'[e][s].armed /\ watchers'[e][s].covered]_vars

-----------------------------------------------------------------------------
(* The engines keep the promises of the lease and of the registry.         *)
driving == IF run = NoRun THEN NoEngine ELSE run.engine

Lease == INSTANCE ClockLease WITH holder <- owner, driving <- driving,
                                  Nobody <- NoEngine, Manual <- "manual"

Issued(e, h) == h[1] \in DOMAIN watchers[e] /\ h[2] <= watchers[e][h[1]].generation

LiveHandles   == {p \in Engines \X Handles : Live(p[1], p[2])}
IssuedHandles == {p \in Engines \X Handles : Issued(p[1], p[2])}

Registry == INSTANCE HandleRegistry WITH live <- LiveHandles, issued <- IssuedHandles

(* Grant, return and drive: simulated time has one driver at a time.       *)
LeaseSpec == Lease!Spec

(* No handle is issued twice, and a retired handle stays dead.             *)
RegistrySpec == Registry!Spec
=============================================================================
