---------------------------- MODULE XEngine_proofs ----------------------------
(***************************************************************************)
(* Proofs about the engine, for any engines, capacities, registrations,    *)
(* samples and bounds.  Engines share nothing but the clock, so most of    *)
(* the invariant speaks of one engine: its registrations, its free list    *)
(* and whether an exception has cut an evaluation short.                   *)
(***************************************************************************)
EXTENDS XEngine, PatternExecutor_proofs, FiniteSetTheorems

(* A registration that has fired was reported, unless it is armed again.   *)
Accounted(w) == w.armed \/ w.told

SlotOK(w, lost) ==
  /\ w.generation \in 1..MaxGeneration
  /\ w.armed \/ w.covered => w.occupied
  /\ w.occupied => lost \/ (CyclesLeft(w) /\ Accounted(w))

EngineOK(list, free, lost) ==
  /\ list \in Seq(Watcher) /\ free \in Seq(Nat) /\ lost \in BOOLEAN
  /\ Len(list) <= Capacity
  /\ Range(free) = {s \in DOMAIN list : ~list[s].occupied}
  /\ IsInjective(free)
  /\ \A s \in DOMAIN list : SlotOK(list[s], lost)

(* What an evaluation never changes in a registration.                     *)
Continues(w, r) ==
  /\ r \in Watcher
  /\ r.generation = w.generation /\ r.occupied = w.occupied
  /\ r.source = w.source /\ r.covered = w.covered
  /\ r.armed => w.armed
  /\ w.covered => r.armed = w.armed

-----------------------------------------------------------------------------
(* What a registration matches is a valid program.                         *)
LEMMA SourceProgram ==
  ASSUME NEW source \in Sources
  PROVE  /\ WellFormed(source.program, {Root})
         /\ StartState(source.program) \in PatternState
<1>1. WellFormed(source.program, {Root})
  BY SourcesAssumption DEF Temporal, WellFormed
<1> QED BY <1>1, StartTyped

(* What Evaluate and ResetPattern do to a registration.                    *)
LEMMA Samples ==
  ASSUME NEW w \in Watcher, NEW v \in Values
  PROVE  LET r == Evaluated(w, v) IN
         /\ r \in Watcher
         /\ r.generation = w.generation /\ r.occupied = w.occupied /\ r.armed = w.armed
         /\ r.source = w.source /\ r.covered = w.covered /\ r.told = w.told
         /\ r.remaining = IF w.source.kind = "ClockCycles" THEN Unwrapped(w.remaining)
                          ELSE w.remaining
<1> DEFINE r == Evaluated(w, v)
<1>1. /\ w.source \in Sources /\ w.remaining \in 0..MaxCount /\ w.pattern \in PatternState
      /\ w.last_condition \in BOOLEAN /\ w.expected \in Values
  BY DEF Watcher
<1>2. Unwrapped(w.remaining) \in 0..MaxCount
  BY <1>1, NumbersAssumption DEF Unwrapped
<1>3. Condition(w, v).previous \in BOOLEAN
  BY <1>1 DEF Condition, MatchCondition
<1>4. w.source.kind \in Temporal => Step(w, v).state \in PatternState
  <2>1. ASSUME w.source.kind \in Temporal PROVE Step(w, v).state \in PatternState
    BY <1>1, SourceProgram, AdvanceTyped DEF Step
  <2> QED BY <2>1
<1> DEFINE remaining == IF w.source.kind = "ClockCycles" THEN Unwrapped(w.remaining) ELSE w.remaining
           condition == IF w.source.kind \in {"ValueEq", "Expr"} THEN Condition(w, v).previous
                        ELSE w.last_condition
           expected == IF w.source.kind = "ValueChange" THEN v ELSE w.expected
           pattern == IF w.source.kind \in Temporal THEN Step(w, v).state ELSE w.pattern
<1>5. /\ remaining \in 0..MaxCount /\ condition \in BOOLEAN
      /\ expected \in Values /\ pattern \in PatternState
  BY <1>1, <1>2, <1>3, <1>4
<1>6. r = [w EXCEPT !.remaining = remaining, !.last_condition = condition,
                    !.expected = expected, !.pattern = pattern]
  BY DEF Evaluated, Watcher
<1> HIDE DEF r, remaining, condition, expected, pattern
<1>7. /\ r \in Watcher
      /\ r.generation = w.generation /\ r.occupied = w.occupied /\ r.armed = w.armed
      /\ r.source = w.source /\ r.covered = w.covered /\ r.told = w.told
      /\ r.remaining = remaining
  BY <1>5, <1>6 DEF Watcher
<1> QED BY <1>7 DEF r, remaining

LEMMA Resets ==
  ASSUME NEW w \in Watcher
  PROVE  LET r == ResetPattern(w) IN
         /\ r \in Watcher /\ [r EXCEPT !.last_condition = FALSE] \in Watcher
         /\ r.generation = w.generation /\ r.occupied = w.occupied /\ r.armed = w.armed
         /\ r.source = w.source /\ r.covered = w.covered /\ r.told = w.told
         /\ r.remaining = w.source.cycles
<1>1. w.source \in Sources
  BY DEF Watcher
<1>2. w.source.cycles \in 0..MaxCount /\ StartState(w.source.program) \in PatternState
  BY <1>1, SourceProgram, SourcesAssumption
<1> DEFINE pattern == StartState(w.source.program)
           cycles == w.source.cycles
<1> HIDE DEF pattern, cycles
<1>3. ResetPattern(w) = [w EXCEPT !.remaining = cycles, !.pattern = pattern]
  BY DEF ResetPattern, pattern, cycles
<1>4. cycles \in 0..MaxCount /\ pattern \in PatternState
  BY <1>2 DEF pattern, cycles
<1> QED BY <1>3, <1>4 DEF Watcher, cycles

(* One registration in one evaluation: it hits, samples, or is left alone. *)
LEMMA Turn ==
  ASSUME NEW w \in Watcher, NEW p, NEW v \in Values, NEW abort \in BOOLEAN
  PROVE  LET r == TakesTurn(w, p, v, abort) IN
         /\ Continues(w, r) /\ r.told = w.told
         /\ CyclesLeft(w) => CyclesLeft(r)
         /\ w.armed /\ ~r.armed => HitsOf(w, p, v)
<1> DEFINE r == TakesTurn(w, p, v, abort)
           Goal == /\ Continues(w, r) /\ r.told = w.told
                   /\ CyclesLeft(w) => CyclesLeft(r)
                   /\ w.armed /\ ~r.armed => HitsOf(w, p, v)
<1>1. CASE ~Selected(w, p)
  BY <1>1 DEF TakesTurn, Continues
<1> DEFINE ready == [w EXCEPT !.sampled = TRUE]
<1>2. /\ ready \in Watcher
      /\ ready.generation = w.generation /\ ready.occupied = w.occupied /\ ready.armed = w.armed
      /\ ready.source = w.source /\ ready.covered = w.covered /\ ready.told = w.told
      /\ ready.remaining = w.remaining
  BY DEF Watcher
<1> HIDE DEF ready
<1>3. w.source \in Sources /\ w.source.cycles \in 0..MaxCount
      /\ (w.source.kind = "ClockCycles" => w.source.cycles > 0)
  BY SourcesAssumption DEF Watcher
<1>4. ASSUME NEW u \in Watcher, u.remaining = w.source.cycles, u.source = w.source
      PROVE  CyclesLeft(u)
  BY <1>3, <1>4 DEF CyclesLeft
<1>5. ASSUME NEW u \in Watcher, u.source = w.source, u.remaining = w.remaining, u.armed = w.armed,
             CyclesLeft(w), Evaluated(u, v).armed, ~Matches(u, v)
      PROVE  CyclesLeft(Evaluated(u, v))
  <2>1. CASE w.source.kind = "ClockCycles"
    <3>1. /\ Evaluated(u, v).remaining = Unwrapped(u.remaining)
          /\ Evaluated(u, v).source = w.source /\ Evaluated(u, v).armed = w.armed
      <4> DEFINE x == Evaluated(u, v)
      <4>1. /\ x.armed = u.armed /\ x.source = u.source
            /\ x.remaining = IF u.source.kind = "ClockCycles" THEN Unwrapped(u.remaining)
                             ELSE u.remaining
        BY Samples, Zenon
      <4> HIDE DEF x
      <4>2. /\ x.armed = w.armed /\ x.source = w.source
            /\ x.remaining = Unwrapped(u.remaining)
        BY <4>1, <1>5, <2>1
      <4> QED BY <4>2 DEF x
    <3>2. w.armed /\ w.armed \in BOOLEAN
      BY <1>5, <3>1 DEF Watcher
    <3>3. Unwrapped(u.remaining) # 0
      <4>1. u.source.kind = "ClockCycles"
        BY <1>5, <2>1
      <4>2. Unwrapped(u.remaining) = 0 => Matches(u, v)
        BY <4>1 DEF Matches, Temporal
      <4> QED BY <1>5, <4>2
    <3> QED BY <1>3, <1>5, <2>1, <3>1, <3>2, <3>3 DEF CyclesLeft, Unwrapped
  <2>2. CASE w.source.kind # "ClockCycles"
    <3>1. Evaluated(u, v).source = w.source
      BY <1>5, Samples
    <3> QED BY <2>2, <3>1 DEF CyclesLeft
  <2> QED BY <2>1, <2>2
<1>6. CASE Selected(w, p) /\ w.covered
  <2>1. r = CoverageStep(w, v, abort)
    BY <1>6 DEF TakesTurn
  <2>2. CASE w.sampled
    BY <2>1, <2>2 DEF CoverageStep, Continues
  <2>3. CASE ~w.sampled /\ abort
    <3>1. r = [ResetPattern(ready) EXCEPT !.last_condition = FALSE]
      BY <2>1, <2>3 DEF CoverageStep, ready
    <3> DEFINE u == ResetPattern(ready)
    <3>2. /\ u \in Watcher /\ r \in Watcher /\ r = [u EXCEPT !.last_condition = FALSE]
          /\ u.generation = w.generation /\ u.occupied = w.occupied /\ u.armed = w.armed
          /\ u.source = w.source /\ u.covered = w.covered /\ u.told = w.told
          /\ u.remaining = w.source.cycles
      BY <1>2, <3>1, Resets
    <3> HIDE DEF u, r
    <3>3. /\ r.generation = w.generation /\ r.occupied = w.occupied /\ r.armed = w.armed
          /\ r.source = w.source /\ r.covered = w.covered /\ r.told = w.told
          /\ r.remaining = w.source.cycles
      BY <3>2 DEF Watcher
    <3> QED BY <1>4, <3>2, <3>3 DEF Continues, r
  <2>4. CASE ~w.sampled /\ ~abort /\ w.source.kind \in Temporal
    <3>1. r = ready
      BY <2>1, <2>4 DEF CoverageStep, ready
    <3> QED BY <1>2, <2>4, <3>1 DEF Continues, CyclesLeft
  <2>5. CASE ~w.sampled /\ ~abort /\ w.source.kind \notin Temporal /\ Matches(w, v)
    <3>1. r = ResetPattern(Evaluated(ready, v))
      BY <2>1, <2>5 DEF CoverageStep, ready
    <3> DEFINE u == Evaluated(ready, v)
    <3>2. /\ u \in Watcher
          /\ u.generation = w.generation /\ u.occupied = w.occupied /\ u.armed = w.armed
          /\ u.source = w.source /\ u.covered = w.covered /\ u.told = w.told
      BY <1>2, Samples
    <3> HIDE DEF u, r
    <3>3. /\ r \in Watcher
          /\ r.generation = w.generation /\ r.occupied = w.occupied /\ r.armed = w.armed
          /\ r.source = w.source /\ r.covered = w.covered /\ r.told = w.told
          /\ r.remaining = w.source.cycles
      BY <3>1, <3>2, Resets DEF u
    <3> QED BY <1>4, <3>3 DEF Continues, r
  <2>6. CASE ~w.sampled /\ ~abort /\ w.source.kind \notin Temporal /\ ~Matches(w, v)
    <3>1. r = Evaluated(ready, v)
      BY <2>1, <2>6 DEF CoverageStep, ready
    <3>2. /\ r \in Watcher
          /\ r.generation = w.generation /\ r.occupied = w.occupied /\ r.armed = w.armed
          /\ r.source = w.source /\ r.covered = w.covered /\ r.told = w.told
      BY <1>2, <3>1, Samples
    <3>3. Matches(ready, v) = Matches(w, v)
      BY DEF Matches, Condition, Step, Watcher, ready
    <3>4. CyclesLeft(w) /\ r.armed => CyclesLeft(r)
      BY <1>2, <1>5, <2>6, <3>1, <3>3
    <3>5. ~r.armed => CyclesLeft(r)
      BY DEF CyclesLeft
    <3> HIDE DEF r
    <3> QED BY <3>2, <3>4, <3>5 DEF Continues, r
  <2> QED BY <2>2, <2>3, <2>4, <2>5, <2>6
<1>7. CASE Selected(w, p) /\ ~w.covered
  <2> DEFINE u == Evaluated(w, v)
  <2>1. r = [u EXCEPT !.armed = ~Matches(w, v)]
    BY <1>7 DEF TakesTurn, HitDisarms
  <2>2. /\ u \in Watcher
        /\ u.generation = w.generation /\ u.occupied = w.occupied /\ u.armed = w.armed
        /\ u.source = w.source /\ u.covered = w.covered /\ u.told = w.told
    BY Samples
  <2>3. (~Matches(w, v)) \in BOOLEAN
    BY Zenon
  <2>4. /\ r \in Watcher /\ r.armed = ~Matches(w, v) /\ r.remaining = u.remaining
        /\ r.generation = w.generation /\ r.occupied = w.occupied
        /\ r.source = w.source /\ r.covered = w.covered /\ r.told = w.told
    <3> HIDE DEF u, r
    <3> QED BY <2>1, <2>2, <2>3 DEF Watcher
  <2>5. w.armed
    BY <1>7 DEF Selected
  <2>6. CyclesLeft(w) => CyclesLeft(r)
    <3>1. CASE Matches(w, v)
      BY <2>4, <3>1 DEF CyclesLeft
    <3>2. CASE ~Matches(w, v)
      <4>1. CyclesLeft(w) => CyclesLeft(u)
        BY <1>5, <2>2, <2>5, <3>2
      <4> HIDE DEF u, r
      <4> QED BY <2>2, <2>4, <2>5, <3>2, <4>1 DEF CyclesLeft
    <3> QED BY <3>1, <3>2
  <2>7. ~r.armed => HitsOf(w, p, v)
    BY <1>7, <2>4 DEF HitsOf
  <2> HIDE DEF r, u
  <2> QED BY <1>7, <2>4, <2>5, <2>6, <2>7 DEF Continues, r
<1> QED BY <1>1, <1>6, <1>7

LEMMA RaiseTurn ==
  ASSUME NEW w \in Watcher, NEW v \in Values
  PROVE  Continues(w, Raises(w, v)) /\ Raises(w, v).told = w.told
<1> DEFINE ready == [w EXCEPT !.sampled = TRUE]
           r == Raises(w, v)
<1>1. /\ ready \in Watcher
      /\ ready.generation = w.generation /\ ready.occupied = w.occupied /\ ready.armed = w.armed
      /\ ready.source = w.source /\ ready.covered = w.covered /\ ready.told = w.told
  BY DEF Watcher
<1>2. r = ready \/ r = Evaluated(ready, v)
  BY DEF Raises
<1> HIDE DEF ready, r
<1>3. /\ r \in Watcher
      /\ r.generation = w.generation /\ r.occupied = w.occupied /\ r.armed = w.armed
      /\ r.source = w.source /\ r.covered = w.covered /\ r.told = w.told
  BY <1>1, <1>2, Samples
<1> QED BY <1>3 DEF Continues, r

-----------------------------------------------------------------------------
(* The registrations of one engine.                                        *)
LEMMA ListFacts ==
  ASSUME NEW list \in Seq(Watcher)
  PROVE  /\ Len(list) \in Nat /\ DOMAIN list = 1..Len(list)
         /\ \A s \in DOMAIN list : list[s] \in Watcher
BY LenProperties, ElementOfSeq

LEMMA IsList ==
  ASSUME NEW n \in Nat, NEW f, f = [i \in 1..n |-> f[i]], \A i \in 1..n : f[i] \in Watcher
  PROVE  f \in Seq(Watcher) /\ Len(f) = n /\ DOMAIN f = 1..n
<1>1. f \in [1..n -> Watcher]
  OBVIOUS
<1>2. f \in Seq(Watcher)
  BY <1>1
<1> QED BY <1>1, <1>2, LenProperties

(* Who is registered where does not change: the free list still fits.      *)
SameSlots(new, list) == new = [s \in DOMAIN list |-> new[s]]

LEMMA SameShape ==
  ASSUME NEW list, NEW free, NEW lost, EngineOK(list, free, lost),
         NEW new, SameSlots(new, list), NEW lost2 \in BOOLEAN,
         \A s \in DOMAIN list :
           /\ new[s] \in Watcher
           /\ new[s].occupied = list[s].occupied
           /\ SlotOK(new[s], lost2)
  PROVE  EngineOK(new, free, lost2) /\ DOMAIN new = DOMAIN list
<1>1. /\ list \in Seq(Watcher) /\ Len(list) \in Nat /\ DOMAIN list = 1..Len(list)
      /\ Len(list) <= Capacity
  BY ListFacts DEF EngineOK
<1>2. new \in Seq(Watcher) /\ Len(new) = Len(list) /\ DOMAIN new = DOMAIN list
  <2>1. new = [s \in 1..Len(list) |-> new[s]]
    BY <1>1 DEF SameSlots
  <2> QED BY <1>1, <2>1, IsList
<1>3. {s \in DOMAIN new : ~new[s].occupied} = {s \in DOMAIN list : ~list[s].occupied}
  BY <1>2
<1> QED BY <1>1, <1>2, <1>3 DEF EngineOK

(* The evaluation of a list up to stop gives new; lost2 is what is known of*)
(* lost hits afterwards.  A call that goes on has met no hit.              *)
Evaluates(list, lost, before, p, v, aborts, stop, returns, new, lost2) ==
  LET hits == before \cup HitsBefore(list, p, v, stop)
      done == Evaluation(list, p, v, aborts, stop)
  IN /\ stop \in 1..Len(list) + 1
     /\ stop \in Raisers(list, p, v, aborts) \cup {Len(list) + 1}
     /\ ~returns /\ stop > Len(list) => HitsBefore(list, p, v, stop) = {}
     /\ new = IF stop > Len(list) /\ returns THEN Told(done, hits) ELSE done
     /\ lost2 = (lost \/ stop <= Len(list))

LEMMA EvaluatedList ==
  ASSUME NEW list, NEW free, NEW lost, NEW before, NEW p, NEW v, NEW aborts, NEW stop,
         NEW returns, NEW new, NEW lost2,
         EngineOK(list, free, lost), v \in Values, returns \in BOOLEAN,
         Evaluates(list, lost, before, p, v, aborts, stop, returns, new, lost2)
  PROVE  /\ EngineOK(new, free, lost2)
         /\ DOMAIN new = DOMAIN list
         /\ \A s \in DOMAIN list : Continues(list[s], new[s])
<1> DEFINE hits == before \cup HitsBefore(list, p, v, stop)
<1>0. /\ stop \in 1..Len(list) + 1
      /\ stop \in Raisers(list, p, v, aborts) \cup {Len(list) + 1}
      /\ ~returns /\ stop > Len(list) => HitsBefore(list, p, v, stop) = {}
      /\ new = IF stop > Len(list) /\ returns
               THEN Told(Evaluation(list, p, v, aborts, stop), hits)
               ELSE Evaluation(list, p, v, aborts, stop)
      /\ lost2 = (lost \/ stop <= Len(list))
  BY DEF Evaluates
<1> DEFINE done == Evaluation(list, p, v, aborts, stop)
<1>1. /\ Len(list) \in Nat /\ DOMAIN list = 1..Len(list)
      /\ \A s \in DOMAIN list : list[s] \in Watcher /\ SlotOK(list[s], lost)
  BY ListFacts DEF EngineOK
<1>2. ASSUME NEW s \in DOMAIN list
      PROVE  /\ Continues(list[s], done[s]) /\ done[s].told = list[s].told
             /\ s < stop /\ CyclesLeft(list[s]) => CyclesLeft(done[s])
             /\ s < stop /\ list[s].armed /\ ~done[s].armed => s \in HitsBefore(list, p, v, stop)
  <2>1. list[s] \in Watcher
    BY <1>1
  <2>2. CASE s < stop
    <3> DEFINE abort == s \in aborts
    <3>1. done[s] = TakesTurn(list[s], p, v, abort)
      BY <2>2 DEF Evaluation
    <3>2. abort \in BOOLEAN
      OBVIOUS
    <3> HIDE DEF done, abort
    <3>3. /\ Continues(list[s], done[s]) /\ done[s].told = list[s].told
          /\ CyclesLeft(list[s]) => CyclesLeft(done[s])
          /\ list[s].armed /\ ~done[s].armed => HitsOf(list[s], p, v)
      <4> DEFINE w == list[s]
                 r == TakesTurn(w, p, v, abort)
      <4>1. w \in Watcher /\ v \in Values
        BY <2>1
      <4> HIDE DEF w
      <4>2. /\ Continues(w, r) /\ r.told = w.told
            /\ CyclesLeft(w) => CyclesLeft(r)
            /\ w.armed /\ ~r.armed => HitsOf(w, p, v)
        BY <3>2, <4>1, Turn
      <4>3. done[s] = r
        BY <3>1 DEF w
      <4> HIDE DEF r
      <4> QED BY <4>2, <4>3 DEF w
    <3> QED BY <2>2, <3>3 DEF HitsBefore
  <2>3. CASE s = stop
    <3>1. done[s] = Raises(list[s], v) /\ ~(s < stop)
      BY <1>0, <1>1, <2>3 DEF Evaluation
    <3> QED BY <2>1, <3>1, RaiseTurn
  <2>4. CASE ~(s < stop) /\ s # stop
    <3>1. done[s] = list[s]
      BY <2>4 DEF Evaluation
    <3> QED BY <2>1, <2>4, <3>1 DEF Continues
  <2> QED BY <2>2, <2>3, <2>4
<1>3. ASSUME NEW s \in DOMAIN list
      PROVE  /\ Continues(list[s], new[s])
             /\ s < stop /\ CyclesLeft(list[s]) => CyclesLeft(new[s])
             /\ stop > Len(list) /\ Accounted(list[s]) => Accounted(new[s])
  <2> DEFINE w == list[s]
             d == done[s]
             r == new[s]
  <2>1. CASE stop > Len(list) /\ returns
    <3>1. r = IF s \in hits THEN [d EXCEPT !.told = TRUE] ELSE d
      <4>1. new = Told(done, hits) /\ DOMAIN done = DOMAIN list
        BY <1>0, <2>1 DEF Evaluation
      <4> QED BY <4>1 DEF Told
    <3>2. d \in Watcher
      BY <1>2 DEF Continues
    <3> HIDE DEF d
    <3>3. /\ r \in Watcher /\ r.generation = d.generation /\ r.occupied = d.occupied
          /\ r.source = d.source /\ r.covered = d.covered /\ r.armed = d.armed
          /\ r.remaining = d.remaining /\ r.told = (s \in hits \/ d.told)
      BY <3>1, <3>2 DEF Watcher
    <3>4. /\ Continues(w, d) /\ d.told = w.told /\ s < stop
          /\ CyclesLeft(w) => CyclesLeft(d)
          /\ w.armed /\ ~d.armed => s \in hits
      BY <1>0, <1>1, <1>2, <2>1 DEF d
    <3>5. CyclesLeft(d) => CyclesLeft(r)
      BY <3>3 DEF CyclesLeft
    <3> HIDE DEF r
    <3>6. Continues(w, r)
      BY <3>3, <3>4 DEF Continues
    <3>7. Accounted(w) => Accounted(r)
      BY <3>3, <3>4 DEF Accounted
    <3> QED BY <3>4, <3>5, <3>6, <3>7 DEF r
  <2>2. CASE ~(stop > Len(list) /\ returns)
    <3>1. new = done
      BY <1>0, <2>2
    <3>2. stop > Len(list) => s < stop /\ s \notin HitsBefore(list, p, v, stop)
      BY <1>0, <1>1, <2>2
    <3> QED BY <1>2, <3>1, <3>2 DEF Accounted
  <2> QED BY <2>1, <2>2
<1>4. ASSUME NEW s \in DOMAIN list
      PROVE  SlotOK(new[s], lost2)
  <2>1. CASE stop <= Len(list)
    BY <1>0, <1>1, <1>3, <2>1 DEF SlotOK, Continues, Watcher
  <2>2. CASE ~(stop <= Len(list))
    <3>1. s < stop /\ stop > Len(list) /\ lost2 = lost
      BY <1>0, <1>1, <2>2 DEF EngineOK
    <3> QED BY <1>1, <1>3, <3>1 DEF SlotOK, Continues
  <2> QED BY <2>1, <2>2
<1>5. SameSlots(new, list)
  BY <1>0 DEF Told, Evaluation, SameSlots
<1>6. lost2 \in BOOLEAN
  BY <1>0
<1>7. \A s \in DOMAIN list : new[s] \in Watcher /\ new[s].occupied = list[s].occupied
  BY <1>3 DEF Continues
<1>8. EngineOK(new, free, lost2) /\ DOMAIN new = DOMAIN list
  BY <1>4, <1>5, <1>6, <1>7, SameShape
<1> QED BY <1>3, <1>8

(* A half step begins a tick: no coverage has sampled in it yet.           *)
LEMMA TickList ==
  ASSUME NEW list, NEW free, NEW lost, EngineOK(list, free, lost)
  PROVE  /\ EngineOK(NewTick(list), free, lost) /\ DOMAIN NewTick(list) = DOMAIN list
         /\ \A s \in DOMAIN list : Continues(list[s], NewTick(list)[s])
<1> DEFINE new == NewTick(list)
<1>1. \A s \in DOMAIN list : list[s] \in Watcher /\ SlotOK(list[s], lost)
  BY ListFacts DEF EngineOK
<1>2. ASSUME NEW s \in DOMAIN list
      PROVE  Continues(list[s], new[s]) /\ SlotOK(new[s], lost)
  <2>1. new[s] = [list[s] EXCEPT !.sampled = FALSE]
    BY DEF NewTick
  <2> DEFINE w == list[s]
             r == new[s]
  <2>2. w \in Watcher /\ SlotOK(w, lost)
    BY <1>1
  <2> HIDE DEF w
  <2>3. /\ r \in Watcher /\ r.generation = w.generation /\ r.occupied = w.occupied
        /\ r.source = w.source /\ r.covered = w.covered /\ r.armed = w.armed
        /\ r.remaining = w.remaining /\ r.told = w.told
    BY <2>1, <2>2 DEF Watcher, w
  <2> HIDE DEF r
  <2>4. Continues(w, r) /\ SlotOK(r, lost)
    BY <2>2, <2>3 DEF Continues, SlotOK, CyclesLeft, Accounted
  <2> QED BY <2>4 DEF w, r
<1>3. SameSlots(new, list)
  BY DEF NewTick, SameSlots
<1>4. \A s \in DOMAIN list : new[s] \in Watcher /\ new[s].occupied = list[s].occupied
  BY <1>2 DEF Continues
<1>5. lost \in BOOLEAN
  BY DEF EngineOK
<1> HIDE DEF new
<1>6. EngineOK(new, free, lost) /\ DOMAIN new = DOMAIN list
  BY <1>2, <1>3, <1>4, <1>5, SameShape
<1> QED BY <1>2, <1>6 DEF new

(* One registration is changed and stays registered.                       *)
LEMMA ReplaceSlot ==
  ASSUME NEW list, NEW free, NEW lost, EngineOK(list, free, lost),
         NEW s \in DOMAIN list, list[s].occupied,
         NEW r \in Watcher, r.occupied, SlotOK(r, lost)
  PROVE  /\ EngineOK([list EXCEPT ![s] = r], free, lost)
         /\ DOMAIN [list EXCEPT ![s] = r] = DOMAIN list
<1> DEFINE new == [list EXCEPT ![s] = r]
<1>1. \A i \in DOMAIN list : list[i] \in Watcher /\ SlotOK(list[i], lost)
  BY ListFacts DEF EngineOK
<1>2. lost \in BOOLEAN
  BY DEF EngineOK
<1>3. /\ SameSlots(new, list)
      /\ \A i \in DOMAIN list : new[i] = IF i = s THEN r ELSE list[i]
  BY ListFacts DEF EngineOK, SameSlots
<1>4. \A i \in DOMAIN list : /\ new[i] \in Watcher /\ SlotOK(new[i], lost)
                             /\ new[i].occupied = list[i].occupied
  BY <1>1, <1>3 DEF Watcher
<1> HIDE DEF new
<1>5. EngineOK(new, free, lost) /\ DOMAIN new = DOMAIN list
  BY <1>2, <1>3, <1>4, SameShape
<1> QED BY <1>5 DEF new

(* An engine without registrations.                                        *)
LEMMA EmptyEngine == EngineOK(<< >>, << >>, FALSE)
<1>1. /\ << >> \in Seq(Watcher) /\ << >> \in Seq(Nat) /\ Len(<< >>) = 0 /\ DOMAIN << >> = {}
  BY EmptySeq
<1>2. Range(<< >>) = {} /\ IsInjective(<< >>)
  BY <1>1 DEF Range, IsInjective
<1> QED BY <1>1, <1>2, NumbersAssumption DEF EngineOK

(* Disarm: the slot joins the free list, which did not hold it.            *)
LEMMA FreeSlot ==
  ASSUME NEW list, NEW free, NEW lost, EngineOK(list, free, lost),
         NEW s \in DOMAIN list, list[s].occupied
  PROVE  EngineOK([list EXCEPT ![s] = Disarmed(list[s])], Append(free, s), lost)
<1> DEFINE new == [list EXCEPT ![s] = Disarmed(list[s])]
           more == Append(free, s)
           n == Len(free)
           w == list[s]
           r == Disarmed(w)
<1>1. /\ Len(list) \in Nat /\ DOMAIN list = 1..Len(list)
      /\ \A i \in DOMAIN list : list[i] \in Watcher /\ SlotOK(list[i], lost)
  BY ListFacts DEF EngineOK
<1>2. r \in Watcher /\ ~r.occupied /\ SlotOK(r, lost)
  <2>1. w \in Watcher /\ SlotOK(w, lost)
    BY <1>1
  <2> HIDE DEF w
  <2>2. r \in Watcher /\ ~r.occupied /\ ~r.armed /\ ~r.covered /\ r.generation = w.generation
    BY <2>1 DEF Disarmed, Watcher
  <2> QED BY <2>1, <2>2 DEF SlotOK
<1> HIDE DEF w, r
<1>3. new = [list EXCEPT ![s] = r]
  BY DEF r, w
<1>4. /\ new = [i \in 1..Len(list) |-> new[i]]
      /\ \A i \in DOMAIN list : new[i] = IF i = s THEN r ELSE list[i]
  <2>1. list = [i \in 1..Len(list) |-> list[i]]
    BY <1>1, LenProperties DEF EngineOK
  <2> QED BY <1>1, <1>3, <2>1
<1> HIDE DEF new
<1>5. \A i \in DOMAIN list : new[i] \in Watcher /\ SlotOK(new[i], lost)
  BY <1>1, <1>2, <1>4
<1>6. new \in Seq(Watcher) /\ Len(new) = Len(list) /\ DOMAIN new = DOMAIN list
  BY <1>1, <1>4, <1>5, IsList
<1>7. /\ n \in Nat /\ DOMAIN free = 1..n /\ free \in Seq(Nat) /\ s \in Nat
  BY <1>1, LenProperties DEF EngineOK
<1>8. /\ more \in Seq(Nat) /\ DOMAIN more = 1..(n + 1) /\ more[n + 1] = s
      /\ \A k \in 1..n : more[k] = free[k]
  BY <1>7, AppendProperties, LenProperties
<1> HIDE DEF more
<1>9. Range(more) = Range(free) \cup {s}
  <2>1. \A k \in 1..(n + 1) : k \in 1..n \/ k = n + 1
    BY <1>7
  <2>2. 1..n \subseteq 1..(n + 1) /\ n + 1 \in 1..(n + 1)
    BY <1>7
  <2> QED BY <1>7, <1>8, <2>1, <2>2 DEF Range
<1>10. s \notin Range(free) /\ Range(free) = {i \in DOMAIN list : ~list[i].occupied} /\ IsInjective(free)
  BY DEF EngineOK
<1>11. IsInjective(more)
  <2>1. ASSUME NEW a \in 1..(n + 1), NEW b \in 1..(n + 1), more[a] = more[b]
        PROVE  a = b
    <3>1. CASE a \in 1..n /\ b \in 1..n
      BY <1>7, <1>8, <1>10, <2>1, <3>1 DEF IsInjective
    <3>2. CASE a = n + 1 /\ b = n + 1
      BY <3>2
    <3>3. CASE (a \in 1..n /\ b = n + 1) \/ (a = n + 1 /\ b \in 1..n)
      BY <1>7, <1>8, <1>10, <2>1, <3>3 DEF Range
    <3> QED BY <1>7, <3>1, <3>2, <3>3
  <2> QED BY <1>8, <2>1 DEF IsInjective
<1>12. Range(more) = {i \in DOMAIN new : ~new[i].occupied}
  BY <1>2, <1>4, <1>6, <1>9, <1>10
<1>13. EngineOK(new, more, lost)
  BY <1>5, <1>6, <1>8, <1>11, <1>12 DEF EngineOK
<1> QED BY <1>13 DEF new, more, r, w

(* A new registration.                                                     *)
LEMMA NewOK ==
  ASSUME NEW source \in Sources, NEW g \in 1..MaxGeneration, signal \in Values, NEW lost
  PROVE  /\ NewWatcher(g, source) \in Watcher /\ SlotOK(NewWatcher(g, source), lost)
         /\ NewWatcher(g, source).occupied /\ NewWatcher(g, source).generation = g
<1> DEFINE r == NewWatcher(g, source)
<1>1. /\ source.cycles \in 0..MaxCount /\ (source.kind = "ClockCycles" => source.cycles > 0)
      /\ StartState(source.program) \in PatternState
  BY SourcesAssumption, SourceProgram
<1>2. g \in Nat
  BY NumbersAssumption
<1>3. /\ r \in Watcher /\ r.generation = g /\ r.occupied /\ r.armed
      /\ r.source = source /\ r.remaining = source.cycles
  BY <1>1, <1>2 DEF NewWatcher, Watcher
<1> HIDE DEF r
<1>4. CyclesLeft(r)
  BY <1>1, <1>3 DEF CyclesLeft
<1>5. SlotOK(r, lost)
  BY <1>3, <1>4 DEF SlotOK, Accounted
<1> QED BY <1>3, <1>5 DEF r

LEMMA GrowList ==
  ASSUME NEW list, NEW lost, EngineOK(list, << >>, lost), Len(list) < Capacity,
         NEW r \in Watcher, r.occupied, SlotOK(r, lost)
  PROVE  /\ EngineOK(Append(list, r), << >>, lost)
         /\ DOMAIN Append(list, r) = DOMAIN list \cup {Len(list) + 1}
         /\ Len(list) + 1 \in 1..Capacity /\ Len(list) + 1 \notin DOMAIN list
         /\ Append(list, r)[Len(list) + 1] = r
         /\ \A s \in DOMAIN list : Append(list, r)[s] = list[s]
<1> DEFINE new == Append(list, r)
           n == Len(list)
<1>1. /\ n \in Nat /\ DOMAIN list = 1..n /\ list \in Seq(Watcher)
      /\ \A i \in DOMAIN list : SlotOK(list[i], lost)
  BY ListFacts DEF EngineOK
<1>2. /\ new \in Seq(Watcher) /\ Len(new) = n + 1 /\ DOMAIN new = 1..(n + 1)
      /\ new[n + 1] = r /\ \A s \in 1..n : new[s] = list[s]
  BY <1>1, AppendProperties, LenProperties
<1> HIDE DEF new
<1>3. /\ 1..(n + 1) = (1..n) \cup {n + 1} /\ n + 1 \in 1..Capacity /\ n + 1 \notin 1..n
      /\ n + 1 <= Capacity
  BY <1>1, NumbersAssumption
<1>4. \A s \in DOMAIN list : list[s].occupied
  BY EmptySeq DEF EngineOK, Range
<1>5. {s \in DOMAIN new : ~new[s].occupied} = {}
  BY <1>1, <1>2, <1>3, <1>4
<1>6. \A s \in DOMAIN new : SlotOK(new[s], lost)
  BY <1>1, <1>2, <1>3
<1>7. Range(<< >>) = {}
  BY EmptySeq DEF Range
<1>8. EngineOK(new, << >>, lost)
  BY <1>2, <1>3, <1>5, <1>6, <1>7 DEF EngineOK
<1> QED BY <1>1, <1>2, <1>3, <1>8 DEF new

LEMMA ReuseList ==
  ASSUME NEW list, NEW free, NEW lost, EngineOK(list, free, lost), free # << >>,
         NEW r \in Watcher, r.occupied, SlotOK(r, lost)
  PROVE  /\ Last(free) \in DOMAIN list /\ ~list[Last(free)].occupied
         /\ EngineOK([list EXCEPT ![Last(free)] = r], Front(free), lost)
         /\ DOMAIN [list EXCEPT ![Last(free)] = r] = DOMAIN list
<1> DEFINE s == Last(free)
           n == Len(free)
           new == [list EXCEPT ![s] = r]
           front == Front(free)
<1>1. /\ Len(list) \in Nat /\ DOMAIN list = 1..Len(list)
      /\ \A i \in DOMAIN list : list[i] \in Watcher /\ SlotOK(list[i], lost)
      /\ list = [i \in 1..Len(list) |-> list[i]]
  BY ListFacts, LenProperties DEF EngineOK
<1>2. /\ free \in Seq(Nat) /\ n \in Nat /\ n # 0 /\ DOMAIN free = 1..n /\ IsInjective(free)
      /\ Range(free) = {i \in DOMAIN list : ~list[i].occupied}
  BY LenProperties, EmptySeq DEF EngineOK
<1>3. n \in 1..n /\ s = free[n] /\ n - 1 \in 0..n /\ n - 1 \in Nat
  BY <1>2 DEF Last
<1>4. s \in DOMAIN list /\ ~list[s].occupied
  BY <1>2, <1>3 DEF Range
<1>5. front \in Seq(Nat) /\ DOMAIN front = 1..(n - 1) /\ \A k \in 1..(n - 1) : front[k] = free[k]
  BY <1>2, <1>3 DEF Front
<1> HIDE DEF front, s
<1>6. 1..n = 1..(n - 1) \cup {n} /\ n \notin 1..(n - 1) /\ 1..(n - 1) \subseteq 1..n
  BY <1>3
<1>7. IsInjective(front)
  BY <1>2, <1>5, <1>6 DEF IsInjective
<1>8. Range(front) = Range(free) \ {s}
  <2>1. \A k \in 1..(n - 1) : free[k] # s
    BY <1>2, <1>3, <1>6 DEF IsInjective
  <2>2. \A x : x \in Range(front) <=> \E k \in 1..(n - 1) : x = free[k]
    BY <1>5 DEF Range
  <2>3. \A x : x \in Range(free) <=> (\E k \in 1..(n - 1) : x = free[k]) \/ x = s
    BY <1>2, <1>3, <1>6 DEF Range
  <2> QED BY <2>1, <2>2, <2>3
<1>9. /\ new = [i \in 1..Len(list) |-> new[i]]
      /\ \A i \in DOMAIN list : new[i] = IF i = s THEN r ELSE list[i]
  BY <1>1
<1> HIDE DEF new
<1>10. \A i \in DOMAIN list : new[i] \in Watcher /\ SlotOK(new[i], lost)
  BY <1>1, <1>9
<1>11. new \in Seq(Watcher) /\ Len(new) = Len(list) /\ DOMAIN new = DOMAIN list
  BY <1>1, <1>9, <1>10, IsList
<1>12. Range(front) = {i \in DOMAIN new : ~new[i].occupied}
  BY <1>2, <1>8, <1>9, <1>11
<1>13. EngineOK(new, front, lost)
  BY <1>5, <1>7, <1>10, <1>11, <1>12 DEF EngineOK
<1> QED BY <1>4, <1>11, <1>13 DEF new, front, s

-----------------------------------------------------------------------------
(* The inductive invariant.                                                *)
IsTable(f) == f = [e \in Engines |-> f[e]]

Registered ==
  /\ IsTable(watchers) /\ IsTable(free_slots) /\ IsTable(cut)
  /\ \A e \in Engines : EngineOK(watchers[e], free_slots[e], cut[e])

Reading ==
  /\ hit_buffer \in [Engines -> SUBSET Nat]
  /\ phase \in ClockPhases /\ signal \in Values

Holding ==
  /\ owner \in Engines \cup {NoEngine}
  /\ run \in [engine : Engines \cup {NoEngine}, left : Nat]
  /\ run # NoRun => run.engine \in Engines
  /\ ActiveMeansOwner

IInv == Registered /\ Reading /\ Holding

(* Steps that register nothing and free nothing.                           *)
Still ==
  \A e \in Engines :
    /\ DOMAIN watchers'[e] = DOMAIN watchers[e]
    /\ \A s \in DOMAIN watchers[e] :
         /\ watchers'[e][s].occupied = watchers[e][s].occupied
         /\ watchers'[e][s].generation = watchers[e][s].generation
         /\ watchers[e][s].covered /\ watchers[e][s].armed
              => watchers'[e][s].covered /\ watchers'[e][s].armed

LEMMA InitIInv == Init => IInv
<1> SUFFICES ASSUME Init PROVE IInv
  OBVIOUS
<1>1. Registered
  BY EmptyEngine DEF Init, Registered, IsTable
<1>2. Reading
  BY DEF Init, Reading, ClockPhases
<1>3. \A e \in Engines : Occupied(e) = {}
  BY EmptySeq DEF Init, Occupied
<1>4. owner = NoEngine /\ run = [engine |-> NoEngine, left |-> 0]
  BY DEF Init, NoRun
<1>5. Holding
  BY <1>3, <1>4 DEF Holding, ActiveMeansOwner, NoRun
<1> QED BY <1>1, <1>2, <1>5 DEF IInv

(* What the parts of the invariant say of an engine.                       *)
LEMMA EngineFacts ==
  ASSUME Registered, NEW e \in Engines
  PROVE  /\ EngineOK(watchers[e], free_slots[e], cut[e])
         /\ watchers[e] \in Seq(Watcher) /\ free_slots[e] \in Seq(Nat) /\ cut[e] \in BOOLEAN
         /\ Len(watchers[e]) \in Nat /\ DOMAIN watchers[e] = 1..Len(watchers[e])
         /\ \A s \in DOMAIN watchers[e] : watchers[e][s] \in Watcher /\ SlotOK(watchers[e][s], cut[e])
BY ListFacts DEF Registered, EngineOK

(* A step that gives one engine other registrations.                       *)
LEMMA OneEngine ==
  ASSUME Registered, NEW e \in Engines, NEW list, NEW free, NEW lost,
         EngineOK(list, free, lost),
         watchers' = [watchers EXCEPT ![e] = list],
         \/ free_slots' = free_slots /\ free = free_slots[e]
         \/ free_slots' = [free_slots EXCEPT ![e] = free],
         \/ cut' = cut /\ lost = cut[e]
         \/ cut' = [cut EXCEPT ![e] = lost]
  PROVE  /\ Registered'
         /\ \A d \in Engines : watchers'[d] = IF d = e THEN list ELSE watchers[d]
<1>1. IsTable(watchers) /\ IsTable(free_slots) /\ IsTable(cut)
  BY DEF Registered
<1>2. /\ IsTable(watchers')
      /\ \A d \in Engines : watchers'[d] = IF d = e THEN list ELSE watchers[d]
  BY <1>1 DEF IsTable
<1>3. /\ IsTable(free_slots')
      /\ \A d \in Engines : free_slots'[d] = IF d = e THEN free ELSE free_slots[d]
  BY <1>1 DEF IsTable
<1>4. /\ IsTable(cut')
      /\ \A d \in Engines : cut'[d] = IF d = e THEN lost ELSE cut[d]
  BY <1>1 DEF IsTable
<1>5. \A d \in Engines : EngineOK(watchers'[d], free_slots'[d], cut'[d])
  BY <1>2, <1>3, <1>4 DEF Registered
<1> QED BY <1>2, <1>3, <1>4, <1>5 DEF Registered

(* A step that changes one registration.                                   *)
LEMMA OneSlot ==
  ASSUME Registered, NEW e \in Engines, NEW s \in DOMAIN watchers[e], watchers[e][s].occupied,
         NEW r \in Watcher, r.occupied, r.generation = watchers[e][s].generation,
         SlotOK(r, cut[e]),
         watchers[e][s].covered /\ watchers[e][s].armed => r.covered /\ r.armed,
         SetSlot(e, s, r), UNCHANGED <<free_slots, cut>>
  PROVE  Registered' /\ Still
<1> DEFINE list == [watchers[e] EXCEPT ![s] = r]
<1>1. EngineOK(list, free_slots[e], cut[e]) /\ DOMAIN list = DOMAIN watchers[e]
  BY EngineFacts, ReplaceSlot
<1>2. \A i \in DOMAIN watchers[e] : list[i] = IF i = s THEN r ELSE watchers[e][i]
  BY EngineFacts
<1>3. watchers' = [watchers EXCEPT ![e] = list]
  BY DEF SetSlot
<1> HIDE DEF list
<1>4. /\ Registered'
      /\ \A d \in Engines : watchers'[d] = IF d = e THEN list ELSE watchers[d]
  <2>1. free_slots' = free_slots /\ cut' = cut
    OBVIOUS
  <2> QED BY <1>1, <1>3, <2>1, OneEngine
<1>5. r.occupied = watchers[e][s].occupied
  BY EngineFacts DEF Watcher
<1>6. Still
  BY <1>1, <1>2, <1>4, <1>5 DEF Still
<1> QED BY <1>4, <1>6

LEMMA SameTables ==
  ASSUME Registered, UNCHANGED <<slots, cut>>
  PROVE  Registered' /\ Still
BY DEF slots, Registered, Still

-----------------------------------------------------------------------------
(* The calls that change one registration.                                 *)
LEMMA LiveFacts ==
  ASSUME Registered, NEW e \in Engines, NEW h, Live(e, h)
  PROVE  /\ h[1] \in DOMAIN watchers[e] /\ watchers[e][h[1]].occupied
         /\ watchers[e][h[1]] \in Watcher /\ SlotOK(watchers[e][h[1]], cut[e])
BY EngineFacts DEF Live

LEMMA RearmStep ==
  ASSUME Registered, signal \in Values, NEW e \in Engines, NEW h, Rearm(e, h) \/ RearmSample(e, h)
  PROVE  Registered' /\ Still
<1> DEFINE w == watchers[e][h[1]]
<1>1. /\ h[1] \in DOMAIN watchers[e] /\ w.occupied /\ w \in Watcher /\ SlotOK(w, cut[e]) /\ ~w.armed
      /\ UNCHANGED <<free_slots, cut>>
  BY LiveFacts DEF Rearm, RearmSample
<1>2. w.source \in Sources /\ w.source.cycles \in 0..MaxCount
      /\ (w.source.kind = "ClockCycles" => w.source.cycles > 0)
      /\ StartState(w.source.program) \in PatternState
  BY <1>1, SourcesAssumption, SourceProgram DEF Watcher
<1>3. CASE Rearm(e, h)
  <2> DEFINE remaining == IF w.source.kind = "ClockCycles" THEN w.source.cycles ELSE w.remaining
             pattern == IF w.source.kind \in Temporal THEN StartState(w.source.program) ELSE w.pattern
             expected == IF w.source.kind = "ValueChange" THEN signal ELSE w.expected
             r == Rearmed(w)
  <2>1. remaining \in 0..MaxCount /\ pattern \in PatternState /\ expected \in Values
    BY <1>1, <1>2 DEF Watcher
  <2>2. r = [w EXCEPT !.armed = TRUE, !.told = FALSE, !.remaining = remaining,
                      !.pattern = pattern, !.expected = expected]
    BY <1>1 DEF Rearmed, Watcher
  <2>3. w.source.kind = "ClockCycles" => remaining \in 1..w.source.cycles
    BY <1>2
  <2>4. SetSlot(e, h[1], r)
    BY <1>3 DEF Rearm
  <2> HIDE DEF w, remaining, pattern, expected, r
  <2>5. /\ r \in Watcher /\ r.generation = w.generation /\ r.occupied /\ r.armed
        /\ r.source = w.source /\ r.covered = w.covered /\ r.remaining = remaining
    BY <1>1, <2>1, <2>2 DEF Watcher
  <2>6. SlotOK(r, cut[e])
    BY <1>1, <2>3, <2>5 DEF SlotOK, CyclesLeft, Accounted
  <2> QED BY <1>1, <2>4, <2>5, <2>6, OneSlot DEF w
<1>4. CASE RearmSample(e, h)
  <2> DEFINE r == [w EXCEPT !.armed = TRUE, !.told = FALSE]
  <2>1. SetSlot(e, h[1], r) /\ w.source.kind # "ClockCycles"
    BY <1>4 DEF RearmSample
  <2> HIDE DEF w
  <2>2. /\ r \in Watcher /\ r.generation = w.generation /\ r.occupied /\ r.armed
        /\ r.source = w.source /\ r.covered = w.covered
    BY <1>1 DEF Watcher
  <2> HIDE DEF r
  <2>3. SlotOK(r, cut[e])
    BY <1>1, <2>1, <2>2 DEF SlotOK, CyclesLeft, Accounted
  <2> QED BY <1>1, <2>1, <2>2, <2>3, OneSlot DEF w
<1> QED BY <1>3, <1>4

LEMMA CoverageStepKeeps ==
  ASSUME Registered, NEW e \in Engines, NEW h, AttachCoverage(e, h) \/ ResetCoverage(e, h)
  PROVE  Registered' /\ Still
<1> DEFINE w == watchers[e][h[1]]
<1>1. /\ h[1] \in DOMAIN watchers[e] /\ w.occupied /\ w \in Watcher /\ SlotOK(w, cut[e])
      /\ UNCHANGED <<free_slots, cut>>
  BY LiveFacts DEF AttachCoverage, ResetCoverage
<1>2. CASE AttachCoverage(e, h)
  <2> DEFINE r == [w EXCEPT !.covered = TRUE, !.sampled = FALSE]
  <2>1. SetSlot(e, h[1], r)
    BY <1>2 DEF AttachCoverage
  <2> HIDE DEF w
  <2>2. /\ r \in Watcher /\ r.generation = w.generation /\ r.occupied /\ r.armed = w.armed
        /\ r.source = w.source /\ r.covered /\ r.remaining = w.remaining /\ r.told = w.told
    BY <1>1 DEF Watcher
  <2> HIDE DEF r
  <2>3. SlotOK(r, cut[e])
    BY <1>1, <2>2 DEF SlotOK, CyclesLeft, Accounted
  <2> QED BY <1>1, <2>1, <2>2, <2>3, OneSlot DEF w
<1>3. CASE ResetCoverage(e, h)
  <2> DEFINE u == ResetPattern(w)
             r == [u EXCEPT !.last_condition = FALSE]
  <2>1. SetSlot(e, h[1], r) /\ w.covered
    BY <1>3 DEF ResetCoverage
  <2>2. w.source.cycles \in 0..MaxCount /\ (w.source.kind = "ClockCycles" => w.source.cycles > 0)
    BY <1>1, SourcesAssumption DEF Watcher
  <2> HIDE DEF w
  <2>3. /\ u \in Watcher /\ r \in Watcher
        /\ u.generation = w.generation /\ u.occupied = w.occupied /\ u.armed = w.armed
        /\ u.source = w.source /\ u.covered = w.covered /\ u.told = w.told
        /\ u.remaining = w.source.cycles
    BY <1>1, Resets
  <2> HIDE DEF u
  <2>4. /\ r.generation = w.generation /\ r.occupied = w.occupied /\ r.armed = w.armed
        /\ r.source = w.source /\ r.covered = w.covered /\ r.told = w.told
        /\ r.remaining = w.source.cycles
    BY <2>3 DEF Watcher
  <2> HIDE DEF r
  <2>5. SlotOK(r, cut[e])
    BY <1>1, <2>2, <2>4 DEF SlotOK, CyclesLeft, Accounted
  <2> QED BY <1>1, <2>1, <2>3, <2>4, <2>5, OneSlot DEF w
<1> QED BY <1>2, <1>3

-----------------------------------------------------------------------------
(* An evaluation of registrations that are those of e, or those of e at    *)
(* the start of a tick.                                                    *)
Tick(e, list) ==
  /\ EngineOK(list, free_slots[e], cut[e])
  /\ DOMAIN list = DOMAIN watchers[e] /\ Len(list) = Len(watchers[e])
  /\ \A s \in DOMAIN watchers[e] : Continues(watchers[e][s], list[s])

LEMMA EvaluateStep ==
  ASSUME NEW e, NEW list, NEW before, NEW p, NEW aborts, NEW stop, NEW returns,
         Registered, Reading, e \in Engines, Tick(e, list), before \in SUBSET Nat,
         signal' \in Values, stop \in 1..Len(watchers[e]) + 1, returns \in BOOLEAN,
         EvaluatePhase(e, list, before, p, aborts, stop, returns),
         returns = FALSE /\ stop > Len(list) => HitsBefore(list, p, signal', stop) = {},
         free_slots' = free_slots
  PROVE  Registered' /\ Still /\ hit_buffer' \in [Engines -> SUBSET Nat]
<1> DEFINE v == signal'
           found == HitsBefore(list, p, v, stop)
           hits == before \cup found
           done == Evaluation(list, p, v, aborts, stop)
           new == IF stop > Len(list) /\ returns THEN Told(done, hits) ELSE done
           lost == cut[e] \/ stop <= Len(list)
<1>1. /\ stop \in Raisers(list, p, v, aborts) \cup {Len(list) + 1}
      /\ hit_buffer' = [hit_buffer EXCEPT ![e] = hits]
      /\ watchers' = [watchers EXCEPT ![e] = new]
      /\ cut' = [cut EXCEPT ![e] = lost]
  BY EngineFacts DEF EvaluatePhase
<1> DEFINE free == free_slots[e]
           lost0 == cut[e]
<1>2. /\ EngineOK(new, free, lost) /\ DOMAIN new = DOMAIN list
      /\ \A s \in DOMAIN list : Continues(list[s], new[s])
  <2>1. Evaluates(list, lost0, before, p, v, aborts, stop, returns, new, lost)
    BY <1>1 DEF Evaluates, Tick
  <2>2. EngineOK(list, free, lost0) /\ v \in Values
    BY DEF Tick
  <2> HIDE DEF v, new, lost, free, lost0
  <2> QED BY <2>1, <2>2, EvaluatedList
<1>3. found \subseteq Nat
  <2>1. found \subseteq DOMAIN list
    BY DEF HitsBefore
  <2> QED BY <2>1, EngineFacts DEF Tick
<1> HIDE DEF new, lost, found, done
<1>4. /\ Registered'
      /\ \A d \in Engines : watchers'[d] = IF d = e THEN new ELSE watchers[d]
  BY <1>1, <1>2, OneEngine
<1>5. Still
  <2>1. ASSUME NEW s \in DOMAIN watchers[e]
        PROVE  /\ new[s].occupied = watchers[e][s].occupied
               /\ new[s].generation = watchers[e][s].generation
               /\ watchers[e][s].covered /\ watchers[e][s].armed => new[s].covered /\ new[s].armed
    BY <1>2 DEF Continues, Tick
  <2> QED BY <1>2, <1>4, <2>1 DEF Still, Tick
<1>6. hit_buffer' \in [Engines -> SUBSET Nat]
  BY <1>1, <1>3 DEF Reading
<1> QED BY <1>4, <1>5, <1>6

LEMMA EndHalfStep ==
  ASSUME Registered, Reading, NEW e \in Engines, NEW p \in ClockPhases, NEW v \in Values,
         NEW aborts, NEW stop \in 1..Len(watchers[e]) + 1, NEW quit \in BOOLEAN,
         EndHalf(e, p, v, aborts, stop, quit)
  PROVE  Registered' /\ Still /\ Reading'
<1> DEFINE list == NewTick(watchers[e])
           more == ~quit /\ stop > Len(list) /\ run.left > 1 /\ GoesOn(list, p, v, stop)
           returns == ~more
           before == hit_buffer[e]
<1>1. Tick(e, list)
  <2>1. /\ EngineOK(list, free_slots[e], cut[e]) /\ DOMAIN list = DOMAIN watchers[e]
        /\ \A s \in DOMAIN watchers[e] : Continues(watchers[e][s], list[s])
    BY EngineFacts, TickList
  <2> HIDE DEF list
  <2>2. Len(list) = Len(watchers[e])
    BY <2>1, EngineFacts, ListFacts DEF EngineOK
  <2> QED BY <2>1, <2>2 DEF Tick
<1>2. /\ signal' = v /\ phase' = p /\ free_slots' = free_slots
      /\ EvaluatePhase(e, list, before, p, aborts, stop, returns)
  BY DEF EndHalf
<1>3. before \in SUBSET Nat
  BY DEF Reading
<1>4. returns \in BOOLEAN /\ (returns = FALSE => HitsBefore(list, p, signal', stop) = {})
  BY <1>2 DEF GoesOn
<1> HIDE DEF list, returns, before
<1>5. Registered' /\ Still /\ hit_buffer' \in [Engines -> SUBSET Nat]
  BY <1>1, <1>2, <1>3, <1>4, EvaluateStep
<1> QED BY <1>2, <1>5 DEF Reading

LEMMA SamplePhaseStep ==
  ASSUME Registered, Reading, NEW e \in Engines, NEW v \in Values,
         NEW aborts, NEW stop \in 1..Len(watchers[e]) + 1, SamplePhase(e, v, aborts, stop)
  PROVE  Registered' /\ Still /\ Reading'
<1> DEFINE list == watchers[e]
           before == {}
           p == "DriveStable"
           returns == TRUE
<1>1. Tick(e, list)
  BY EngineFacts DEF Tick, Continues
<1>2. /\ signal' = v /\ phase' = phase /\ free_slots' = free_slots
      /\ EvaluatePhase(e, list, before, p, aborts, stop, returns)
  BY DEF SamplePhase
<1>3. before \in SUBSET Nat /\ returns \in BOOLEAN /\ returns # FALSE
  OBVIOUS
<1> HIDE DEF list, before, p, returns
<1>4. Registered' /\ Still /\ hit_buffer' \in [Engines -> SUBSET Nat]
  BY <1>1, <1>2, <1>3, EvaluateStep
<1> QED BY <1>2, <1>4 DEF Reading

LEMMA StepByHandStep ==
  ASSUME Registered, Reading, NEW p \in ClockPhases, NEW v \in Values, StepByHand(p, v)
  PROVE  Registered' /\ Still /\ Reading'
<1>1. /\ watchers' = [e \in Engines |-> NewTick(watchers[e])]
      /\ UNCHANGED <<free_slots, cut, hit_buffer>> /\ phase' = p /\ signal' = v
  BY DEF StepByHand
<1>2. ASSUME NEW e \in Engines
      PROVE  /\ EngineOK(watchers'[e], free_slots[e], cut[e])
             /\ DOMAIN watchers'[e] = DOMAIN watchers[e]
             /\ \A s \in DOMAIN watchers[e] : Continues(watchers[e][s], watchers'[e][s])
  BY <1>1, EngineFacts, TickList
<1>3. Registered'
  BY <1>1, <1>2 DEF Registered, IsTable
<1>4. Still
  BY <1>2 DEF Still, Continues
<1> QED BY <1>1, <1>3, <1>4 DEF Reading

-----------------------------------------------------------------------------
(* The calls that register and free: one slot of one engine moves.         *)
Elsewhere(e, s) ==
  \A d \in Engines : \A i \in DOMAIN watchers[d] :
    d # e \/ i # s => i \in DOMAIN watchers'[d] /\ watchers'[d][i] = watchers[d][i]

SameDomains == \A d \in Engines : DOMAIN watchers'[d] = DOMAIN watchers[d]

Freed(e, s) ==
  /\ SameDomains /\ Elsewhere(e, s)
  /\ s \in DOMAIN watchers[e] /\ watchers[e][s].occupied
  /\ ~watchers'[e][s].occupied
  /\ watchers'[e][s].generation = watchers[e][s].generation

Reused(e, s) ==
  /\ SameDomains /\ Elsewhere(e, s)
  /\ s \in DOMAIN watchers[e] /\ ~watchers[e][s].occupied
  /\ watchers'[e][s].occupied
  /\ watchers'[e][s].generation = watchers[e][s].generation + 1

Grown(e, s) ==
  /\ \A d \in Engines : DOMAIN watchers'[d] = IF d = e THEN DOMAIN watchers[d] \cup {s}
                                              ELSE DOMAIN watchers[d]
  /\ Elsewhere(e, s)
  /\ s \in 1..Capacity /\ s \notin DOMAIN watchers[e]
  /\ watchers'[e][s].occupied /\ watchers'[e][s].generation = 1

Emptied(e) ==
  \A d \in Engines : watchers'[d] = IF d = e THEN << >> ELSE watchers[d]

LEMMA DisarmStep ==
  ASSUME Registered, NEW e \in Engines, NEW h, Disarm(e, h)
  PROVE  Registered' /\ Freed(e, h[1])
<1> DEFINE s == h[1]
           w == watchers[e][s]
           r == Disarmed(w)
           list == [watchers[e] EXCEPT ![s] = r]
           free == Append(free_slots[e], s)
           lost == cut[e]
<1>1. s \in DOMAIN watchers[e] /\ w.occupied /\ w \in Watcher
  BY LiveFacts DEF Disarm
<1>2. EngineOK(list, free, lost)
  <2>1. EngineOK(watchers[e], free_slots[e], lost)
    BY EngineFacts
  <2> QED BY <1>1, <2>1, FreeSlot
<1>3. /\ watchers' = [watchers EXCEPT ![e] = list]
      /\ free_slots' = [free_slots EXCEPT ![e] = free] /\ cut' = cut
  BY DEF Disarm, SetSlot, Registered, IsTable
<1>4. DOMAIN list = DOMAIN watchers[e] /\ \A i \in DOMAIN list : list[i] = IF i = s THEN r ELSE watchers[e][i]
  BY EngineFacts
<1>5. ~r.occupied /\ r.generation = w.generation
  BY <1>1 DEF Disarmed, Watcher
<1> HIDE DEF s, r, list, free, lost
<1>6. /\ Registered'
      /\ \A d \in Engines : watchers'[d] = IF d = e THEN list ELSE watchers[d]
  <2>1. lost = cut[e]
    BY DEF lost
  <2> QED BY <1>2, <1>3, <2>1, OneEngine
<1>7. Freed(e, s)
  BY <1>1, <1>4, <1>5, <1>6 DEF Freed, SameDomains, Elsewhere
<1> QED BY <1>6, <1>7 DEF s

LEMMA ReuseStep ==
  ASSUME Registered, signal \in Values, NEW e \in Engines, NEW source \in Sources, ReuseSlot(e, source)
  PROVE  Registered' /\ Reused(e, Last(free_slots[e]))
<1> DEFINE old == free_slots[e]
           s == Last(old)
           g == watchers[e][s].generation
           r == NewWatcher(g + 1, source)
           list == [watchers[e] EXCEPT ![s] = r]
           free == Front(old)
           lost == cut[e]
<1>1. EngineOK(watchers[e], old, lost) /\ old # << >> /\ g < MaxGeneration
  BY EngineFacts DEF ReuseSlot
<1>2. /\ watchers' = [watchers EXCEPT ![e] = list]
      /\ free_slots' = [free_slots EXCEPT ![e] = free] /\ cut' = cut
  BY DEF ReuseSlot, NextGeneration, Registered, IsTable
<1>3. s \in DOMAIN watchers[e] /\ ~watchers[e][s].occupied
  <2> USE DEF s
  <2>1. old \in Seq(Nat) /\ Range(old) = {i \in DOMAIN watchers[e] : ~watchers[e][i].occupied}
    BY <1>1 DEF EngineOK
  <2>2. Len(old) \in DOMAIN old
    <3> HIDE DEF old
    <3> QED BY <1>1, <2>1, LenProperties, EmptySeq
  <2> QED BY <2>1, <2>2 DEF Last, Range
<1>4. g + 1 \in 1..MaxGeneration
  BY <1>1, <1>3, EngineFacts, NumbersAssumption DEF SlotOK
<1> HIDE DEF s, g
<1>5. r \in Watcher /\ SlotOK(r, lost) /\ r.occupied /\ r.generation = g + 1
  BY <1>4, NewOK
<1> HIDE DEF r
<1>6. EngineOK(list, free, lost)
  BY <1>1, <1>5, ReuseList DEF s
<1>7. DOMAIN list = DOMAIN watchers[e] /\ \A i \in DOMAIN list : list[i] = IF i = s THEN r ELSE watchers[e][i]
  BY EngineFacts
<1> HIDE DEF list, free, lost, old
<1>8. /\ Registered'
      /\ \A d \in Engines : watchers'[d] = IF d = e THEN list ELSE watchers[d]
  <2>1. lost = cut[e]
    BY DEF lost
  <2> QED BY <1>2, <1>6, <2>1, OneEngine
<1>9. Reused(e, s)
  BY <1>3, <1>5, <1>7, <1>8 DEF Reused, SameDomains, Elsewhere, g
<1> QED BY <1>8, <1>9 DEF s, old

LEMMA GrowStep ==
  ASSUME Registered, signal \in Values, NEW e \in Engines, NEW source \in Sources, GrowSlots(e, source)
  PROVE  Registered' /\ Grown(e, Len(watchers[e]) + 1)
<1> DEFINE n == Len(watchers[e])
           r == NewWatcher(1, source)
           list == Append(watchers[e], r)
           free == << >>
           lost == cut[e]
<1>1. EngineOK(watchers[e], free, lost) /\ free = free_slots[e] /\ n < Capacity
  BY EngineFacts DEF GrowSlots
<1>2. /\ watchers' = [watchers EXCEPT ![e] = list] /\ free_slots' = free_slots /\ cut' = cut
  BY DEF GrowSlots
<1>3. 1 \in 1..MaxGeneration
  BY NumbersAssumption
<1>4. r \in Watcher /\ SlotOK(r, lost) /\ r.occupied /\ r.generation = 1
  BY <1>3, NewOK
<1> HIDE DEF r
<1>5. /\ EngineOK(list, free, lost)
      /\ DOMAIN list = DOMAIN watchers[e] \cup {n + 1}
      /\ n + 1 \in 1..Capacity /\ n + 1 \notin DOMAIN watchers[e] /\ list[n + 1] = r
      /\ \A s \in DOMAIN watchers[e] : list[s] = watchers[e][s]
  BY <1>1, <1>4, GrowList
<1> HIDE DEF list, free, lost, n
<1>6. /\ Registered'
      /\ \A d \in Engines : watchers'[d] = IF d = e THEN list ELSE watchers[d]
  <2>1. lost = cut[e]
    BY DEF lost
  <2>2. watchers' = [watchers EXCEPT ![e] = list]
    BY <1>2
  <2>3. EngineOK(list, free, lost)
    BY <1>5
  <2>4. free_slots' = free_slots /\ free = free_slots[e] /\ cut' = cut
    BY <1>1, <1>2
  <2> QED BY <2>1, <2>2, <2>3, <2>4, OneEngine
<1>7. Grown(e, n + 1)
  BY <1>4, <1>5, <1>6 DEF Grown, Elsewhere
<1> QED BY <1>6, <1>7 DEF n

LEMMA NewEngineStep ==
  ASSUME Registered, hit_buffer \in [Engines -> SUBSET Nat], NEW e \in Engines, NewEngine(e)
  PROVE  Registered' /\ Emptied(e) /\ hit_buffer' \in [Engines -> SUBSET Nat]
<1>1. IsTable(watchers) /\ IsTable(free_slots) /\ IsTable(cut)
  BY DEF Registered
<1>2. IsTable(watchers') /\ \A d \in Engines : watchers'[d] = IF d = e THEN << >> ELSE watchers[d]
  BY <1>1 DEF NewEngine, IsTable
<1>3. IsTable(free_slots') /\ \A d \in Engines : free_slots'[d] = IF d = e THEN << >> ELSE free_slots[d]
  BY <1>1 DEF NewEngine, IsTable
<1>4. IsTable(cut') /\ \A d \in Engines : cut'[d] = IF d = e THEN FALSE ELSE cut[d]
  BY <1>1 DEF NewEngine, IsTable
<1>5. ASSUME NEW d \in Engines
      PROVE  EngineOK(watchers'[d], free_slots'[d], cut'[d])
  BY <1>2, <1>3, <1>4, EmptyEngine, EngineFacts
<1>6. hit_buffer' \in [Engines -> SUBSET Nat]
  BY DEF NewEngine
<1> QED BY <1>2, <1>3, <1>4, <1>5, <1>6 DEF Registered, Emptied

-----------------------------------------------------------------------------
(* Every step is one of these to the registrations.                        *)
Effect ==
  \/ Still
  \/ \E e \in Engines : \E s : Freed(e, s)
  \/ \E e \in Engines : \E s : owner = e /\ (Reused(e, s) \/ Grown(e, s))
  \/ \E e \in Engines : Emptied(e)

LEMMA RegistrationsStep ==
  ASSUME IInv, NEW e \in Engines, Registrations(e)
  PROVE  Registered' /\ Reading' /\ Effect /\ UNCHANGED clock
<1>1. Registered /\ Reading /\ signal \in Values /\ hit_buffer \in [Engines -> SUBSET Nat]
  BY DEF IInv, Reading
<1>2. ASSUME NEW source \in Sources, Arm(e, source)
      PROVE  Registered' /\ Reading' /\ Effect /\ UNCHANGED clock
  <2>1. UNCHANGED clock /\ UNCHANGED hit_buffer /\ owner = e
    BY <1>2 DEF Arm, ReuseSlot, GrowSlots
  <2>2. Reading'
    BY <1>1, <2>1 DEF Reading, clock
  <2>3. CASE ReuseSlot(e, source)
    BY <1>1, <2>1, <2>2, <2>3, ReuseStep DEF Effect
  <2>4. CASE GrowSlots(e, source)
    BY <1>1, <2>1, <2>2, <2>4, GrowStep DEF Effect
  <2> QED BY <1>2, <2>3, <2>4 DEF Arm
<1>3. ASSUME NEW h, Disarm(e, h) \/ Rearm(e, h) \/ RearmSample(e, h)
                    \/ AttachCoverage(e, h) \/ ResetCoverage(e, h)
      PROVE  Registered' /\ Reading' /\ Effect /\ UNCHANGED clock
  <2>1. UNCHANGED clock /\ UNCHANGED hit_buffer
    BY <1>3 DEF Disarm, Rearm, RearmSample, AttachCoverage, ResetCoverage
  <2>2. Reading'
    BY <1>1, <2>1 DEF Reading, clock
  <2>3. CASE Disarm(e, h)
    <3>1. Registered' /\ Freed(e, h[1])
      BY <1>1, <2>3, DisarmStep
    <3> QED BY <2>1, <2>2, <3>1 DEF Effect
  <2>4. CASE ~Disarm(e, h)
    <3>1. Registered' /\ Still
      BY <1>1, <1>3, <2>4, RearmStep, CoverageStepKeeps
    <3> QED BY <2>1, <2>2, <3>1 DEF Effect
  <2> QED BY <2>3, <2>4
<1>4. CASE ClearExecutionState(e)
  <2>1. UNCHANGED clock /\ UNCHANGED <<slots, cut>> /\ hit_buffer' \in [Engines -> SUBSET Nat]
    BY <1>1, <1>4 DEF ClearExecutionState
  <2>2. Reading'
    BY <1>1, <2>1 DEF Reading, clock
  <2> QED BY <1>1, <2>1, <2>2, SameTables DEF Effect
<1>5. CASE Clear(e)
  <2>1. UNCHANGED clock /\ NewEngine(e)
    BY <1>5 DEF Clear
  <2>2. Registered' /\ Emptied(e) /\ hit_buffer' \in [Engines -> SUBSET Nat]
    BY <1>1, <2>1, NewEngineStep
  <2>3. Reading'
    BY <1>1, <2>1, <2>2 DEF Reading, clock
  <2> QED BY <2>1, <2>2, <2>3 DEF Effect
<1> QED BY <1>2, <1>3, <1>4, <1>5 DEF Registrations

(* The other steps.                                                        *)
LEMMA DrivingStep ==
  ASSUME IInv, NEW e \in Engines, Driving(e)
  PROVE  Registered' /\ Reading' /\ (Still \/ (Emptied(e) /\ DestroyEngine(e)))
<1>1. Registered /\ Reading /\ hit_buffer \in [Engines -> SUBSET Nat]
  BY DEF IInv, Reading
<1>2. CASE AcquireClock(e) \/ ReleaseClock(e)
  <2>1. UNCHANGED <<slots, cut>> /\ UNCHANGED <<hit_buffer, phase, signal>>
    BY <1>2 DEF AcquireClock, ReleaseClock
  <2> QED BY <1>1, <2>1, SameTables DEF Reading
<1>3. CASE DestroyEngine(e)
  <2>1. NewEngine(e) /\ UNCHANGED <<phase, signal>>
    BY <1>3 DEF DestroyEngine
  <2>2. Registered' /\ Emptied(e) /\ hit_buffer' \in [Engines -> SUBSET Nat]
    BY <1>1, <2>1, NewEngineStep
  <2> QED BY <1>1, <1>3, <2>1, <2>2 DEF Reading
<1>4. ASSUME NEW n, RunUntil(e, n)
      PROVE  Registered' /\ Reading' /\ Still
  <2>1. /\ UNCHANGED <<slots, cut>> /\ UNCHANGED <<phase, signal>>
        /\ hit_buffer' \in [Engines -> SUBSET Nat]
    BY <1>1, <1>4 DEF RunUntil
  <2> QED BY <1>1, <2>1, SameTables DEF Reading
<1>5. ASSUME NEW v \in Values, NEW aborts, NEW stop \in 1..Len(watchers[e]) + 1,
             NEW p \in ClockPhases, NEW quit \in BOOLEAN, EndHalf(e, p, v, aborts, stop, quit)
      PROVE  Registered' /\ Reading' /\ Still
  BY <1>1, <1>5, EndHalfStep
<1>6. ASSUME NEW v \in Values, NEW aborts, NEW stop \in 1..Len(watchers[e]) + 1,
             SamplePhase(e, v, aborts, stop)
      PROVE  Registered' /\ Reading' /\ Still
  BY <1>1, <1>6, SamplePhaseStep
<1> QED BY <1>2, <1>3, <1>4, <1>5, <1>6 DEF Driving, Evaluating

(* The owner is still the only engine with registrations.                  *)
LEMMA OwnerRegisters ==
  ASSUME Registered, ActiveMeansOwner, Effect
  PROVE  \A d \in Engines : Occupied(d)' # {} => owner = d
<1> SUFFICES ASSUME NEW d \in Engines, Occupied(d)' # {} PROVE owner = d
  OBVIOUS
<1>1. PICK i \in DOMAIN watchers'[d] : watchers'[d][i].occupied
  BY DEF Occupied
<1>2. \A k \in DOMAIN watchers[d] : watchers[d][k].occupied => owner = d
  BY DEF ActiveMeansOwner, Occupied
<1>3. CASE Still
  BY <1>1, <1>2, <1>3 DEF Still
<1>4. CASE \E e \in Engines : \E s : Freed(e, s)
  BY <1>1, <1>2, <1>4 DEF Freed, SameDomains, Elsewhere
<1>5. ASSUME NEW e \in Engines, NEW s, owner = e, Reused(e, s) \/ Grown(e, s)
      PROVE  owner = d
  BY <1>1, <1>2, <1>5 DEF Reused, Grown, SameDomains, Elsewhere
<1>6. CASE \E e \in Engines : Emptied(e)
  BY <1>1, <1>2, <1>6, EmptySeq DEF Emptied
<1> QED BY <1>3, <1>4, <1>5, <1>6 DEF Effect

LEMMA NothingRegistered ==
  ASSUME Registered, NEW e \in Engines, ActiveCount(e) = 0
  PROVE  Occupied(e) = {}
<1>1. Occupied(e) \subseteq 1..Len(watchers[e]) /\ Len(watchers[e]) \in Nat
  BY EngineFacts DEF Occupied
<1>2. IsFiniteSet(Occupied(e))
  <2>1. IsFiniteSet(1..Len(watchers[e]))
    BY <1>1, FS_Interval
  <2> QED BY <1>1, <2>1, FS_Subset
<1> QED BY <1>2, FS_EmptySet DEF ActiveCount

(* The lease and the run in progress, through every step of a driver.      *)
LEMMA LeaseStep ==
  ASSUME IInv, NEW e \in Engines, Driving(e)
  PROVE  Holding'
<1>1. /\ Registered /\ ActiveMeansOwner
      /\ owner \in Engines \cup {NoEngine}
      /\ run \in [engine : Engines \cup {NoEngine}, left : Nat]
      /\ run # NoRun => run.engine \in Engines /\ owner = run.engine
      /\ e # NoEngine
  BY EnginesAssumption DEF IInv, Holding, ActiveMeansOwner
<1>2. Still \/ (Emptied(e) /\ DestroyEngine(e))
  BY DrivingStep
<1>3. \A d \in Engines : Occupied(d)' # {} => owner = d
  BY <1>1, <1>2, OwnerRegisters DEF Effect
<1>4. NoRun \in [engine : Engines \cup {NoEngine}, left : Nat]
  BY DEF NoRun
<1>5. CASE owner' = owner /\ run' = run
  BY <1>1, <1>3, <1>5 DEF Holding, ActiveMeansOwner
<1>6. CASE AcquireClock(e)
  BY <1>1, <1>3, <1>6, EnginesAssumption DEF AcquireClock, Holding, ActiveMeansOwner
<1>7. CASE ReleaseClock(e)
  <2>1. run = NoRun /\ run' = run /\ owner' = NoEngine /\ owner = e /\ ActiveCount(e) = 0
    BY <1>1, <1>7 DEF ReleaseClock, ReleaseGuard, Running
  <2>2. Occupied(e)' = {}
    <3>1. Occupied(e) = {}
      BY <1>1, <2>1, NothingRegistered
    <3>2. CASE Still
      BY <3>1, <3>2 DEF Still, Occupied
    <3>3. CASE Emptied(e)
      BY <3>3, EmptySeq DEF Emptied, Occupied
    <3> QED BY <1>2, <3>2, <3>3
  <2> QED BY <1>1, <1>3, <2>1, <2>2 DEF Holding, ActiveMeansOwner
<1>8. CASE DestroyEngine(e)
  <2>1. run' = run /\ owner' = IF owner = e THEN NoEngine ELSE owner
    BY <1>8 DEF DestroyEngine
  <2>2. owner = e => run = NoRun
    BY <1>1, <1>8 DEF DestroyEngine, Running
  <2>3. Occupied(e)' = {}
    <3>1. watchers'[e] = << >>
      BY <1>1, <1>8 DEF DestroyEngine, NewEngine, Registered, IsTable
    <3> QED BY <3>1, EmptySeq DEF Occupied
  <2> QED BY <1>1, <1>3, <2>1, <2>2, <2>3 DEF Holding, ActiveMeansOwner
<1>9. ASSUME NEW n \in 0..MaxHalves, RunUntil(e, n)
      PROVE  Holding'
  <2>1. owner' = owner /\ owner = e /\ run' \in {NoRun, [engine |-> e, left |-> n]} /\ n \in Nat
    BY <1>9, NumbersAssumption DEF RunUntil, RunGuard
  <2>2. run' \in [engine : Engines \cup {NoEngine}, left : Nat] /\ (run' # NoRun => run'.engine = e)
    BY <1>4, <2>1
  <2> QED BY <1>1, <1>3, <2>1, <2>2 DEF Holding, ActiveMeansOwner
<1>10. ASSUME NEW p, NEW v, NEW aborts, NEW stop, NEW quit, EndHalf(e, p, v, aborts, stop, quit)
       PROVE  Holding'
  <2>1. /\ owner' = owner /\ run.engine = e
        /\ run' = NoRun \/ (run.left > 1 /\ run' = [run EXCEPT !.left = @ - 1])
    BY <1>10 DEF EndHalf, Running
  <2>2. run # NoRun
    BY <1>1, <2>1 DEF NoRun
  <2>3. run' \in [engine : Engines \cup {NoEngine}, left : Nat] /\ (run' # NoRun => run'.engine = e)
    BY <1>1, <1>4, <2>1
  <2> QED BY <1>1, <1>3, <2>1, <2>2, <2>3 DEF Holding, ActiveMeansOwner
<1>11. ASSUME NEW v, NEW aborts, NEW stop, SamplePhase(e, v, aborts, stop)
       PROVE  Holding'
  BY <1>5, <1>11 DEF SamplePhase
<1> QED BY <1>6, <1>7, <1>8, <1>9, <1>10, <1>11 DEF Driving, Evaluating

LEMMA NextIInv == IInv /\ [Next]_vars => IInv' /\ (Effect \/ UNCHANGED vars)
<1> SUFFICES ASSUME IInv, [Next]_vars PROVE IInv' /\ (Effect \/ UNCHANGED vars)
  OBVIOUS
<1>1. Registered /\ Reading /\ Holding
  BY DEF IInv
<1>2. ASSUME NEW e \in Engines, Registrations(e)
      PROVE  IInv' /\ Effect
  <2>1. Registered' /\ Reading' /\ Effect /\ UNCHANGED clock
    BY <1>2, RegistrationsStep
  <2>2. \A d \in Engines : Occupied(d)' # {} => owner = d
    BY <1>1, <2>1, OwnerRegisters DEF Holding
  <2>3. Holding'
    BY <1>1, <2>1, <2>2 DEF Holding, ActiveMeansOwner, clock
  <2> QED BY <2>1, <2>3 DEF IInv
<1>3. ASSUME NEW e \in Engines, Driving(e)
      PROVE  IInv' /\ Effect
  BY <1>3, DrivingStep, LeaseStep DEF IInv, Effect
<1>4. CASE UserThrows
  <2>1. UNCHANGED <<slots, cut>> /\ UNCHANGED <<hit_buffer, owner, phase, signal>> /\ run' = NoRun
    BY <1>4 DEF UserThrows
  <2>2. Registered' /\ Still /\ Reading'
    BY <1>1, <2>1, SameTables DEF Reading
  <2>3. \A d \in Engines : Occupied(d)' # {} => owner = d
    BY <1>1, <2>2, OwnerRegisters DEF Holding, Effect
  <2>4. NoRun \in [engine : Engines \cup {NoEngine}, left : Nat]
    BY DEF NoRun
  <2> QED BY <1>1, <2>1, <2>2, <2>3, <2>4 DEF IInv, Holding, ActiveMeansOwner, Effect
<1>5. ASSUME NEW p \in ClockPhases, NEW v \in Values, StepByHand(p, v)
      PROVE  IInv' /\ Effect
  <2>1. UNCHANGED <<owner, run>>
    BY <1>5 DEF StepByHand
  <2>2. Registered' /\ Still /\ Reading'
    BY <1>1, <1>5, StepByHandStep
  <2>3. \A d \in Engines : Occupied(d)' # {} => owner = d
    BY <1>1, <2>2, OwnerRegisters DEF Holding, Effect
  <2> QED BY <1>1, <2>1, <2>2, <2>3 DEF IInv, Holding, ActiveMeansOwner, Effect
<1>6. CASE UNCHANGED vars
  <2>1. UNCHANGED <<slots, cut>> /\ UNCHANGED <<hit_buffer, phase, signal>> /\ UNCHANGED <<owner, run>>
    BY <1>6 DEF vars, clock
  <2>2. Registered' /\ Still /\ Reading'
    BY <1>1, <2>1, SameTables DEF Reading
  <2>3. \A d \in Engines : Occupied(d)' # {} => owner = d
    BY <1>1, <2>2, OwnerRegisters DEF Holding, Effect
  <2> QED BY <1>1, <2>1, <2>2, <2>3 DEF IInv, Holding, ActiveMeansOwner, Effect
<1> QED BY <1>2, <1>3, <1>4, <1>5, <1>6 DEF Next

-----------------------------------------------------------------------------
(* What the invariant says.                                                *)
LEMMA InvariantSays ==
  IInv => TypeOK /\ SlotPartition /\ ActiveMeansOwner /\ FiredIsReported /\ CyclesRemain
<1> SUFFICES ASSUME IInv
             PROVE  TypeOK /\ SlotPartition /\ ActiveMeansOwner /\ FiredIsReported /\ CyclesRemain
  OBVIOUS
<1>1. Registered /\ Reading /\ Holding
  BY DEF IInv
<1>2. ASSUME NEW e \in Engines
      PROVE  /\ watchers[e] \in Seq(Watcher) /\ free_slots[e] \in Seq(Nat) /\ cut[e] \in BOOLEAN
             /\ Len(watchers[e]) <= Capacity /\ IsInjective(free_slots[e])
             /\ Range(free_slots[e]) = {s \in DOMAIN watchers[e] : ~watchers[e][s].occupied}
             /\ \A s \in DOMAIN watchers[e] : SlotOK(watchers[e][s], cut[e])
  BY <1>1 DEF Registered, EngineOK
<1>3. /\ watchers \in [Engines -> Seq(Watcher)] /\ free_slots \in [Engines -> Seq(Nat)]
      /\ cut \in [Engines -> BOOLEAN]
  BY <1>1, <1>2 DEF Registered, IsTable
<1>4. TypeOK
  BY <1>1, <1>3 DEF TypeOK, Reading, Holding
<1>5. SlotPartition
  <2>1. \A e \in Engines : {s \in DOMAIN watchers[e] : ~watchers[e][s].occupied}
                             = DOMAIN watchers[e] \ Occupied(e)
    BY DEF Occupied
  <2> QED BY <1>2, <2>1 DEF SlotPartition, SlotOK
<1>6. FiredIsReported /\ CyclesRemain
  BY <1>2 DEF FiredIsReported, CyclesRemain, SlotOK, Occupied, Accounted
<1> QED BY <1>1, <1>4, <1>5, <1>6 DEF Holding

(* Every reachable state of an engine is well typed (TypeOK): no counter   *)
(* leaves its width and no pattern state its program.                      *)
THEOREM TypeCorrect == Spec => []TypeOK
<1> QED BY InitIInv, NextIInv, InvariantSays, PTL DEF Spec

(* For any capacity and whatever handles the calls are given: a slot is    *)
(* occupied or free, and never freed twice (SlotPartition).                *)
THEOREM SlotsPartitioned == Spec => []SlotPartition
<1> QED BY InitIInv, NextIInv, InvariantSays, PTL DEF Spec

(* An engine with registrations or in a run holds the clock                *)
(* (ActiveMeansOwner).                                                     *)
THEOREM OnlyOwnerWaits == Spec => []ActiveMeansOwner
<1> QED BY InitIInv, NextIInv, InvariantSays, PTL DEF Spec

(* Unless an exception cut an evaluation short, a registration that fired  *)
(* was in the result of a call (FiredIsReported).                          *)
THEOREM HitsReported == Spec => []FiredIsReported
<1> QED BY InitIInv, NextIInv, InvariantSays, PTL DEF Spec

(* Unless an exception cut an evaluation short, an armed counter is never  *)
(* at zero, so it is never decremented below it (CyclesRemain).            *)
THEOREM CountersNeverWrap == Spec => []CyclesRemain
<1> QED BY InitIInv, NextIInv, InvariantSays, PTL DEF Spec

-----------------------------------------------------------------------------
Persists ==
  \A e \in Engines : \A s \in Covered(e) :
    watchers[e][s].armed /\ s \in Occupied(e)' => watchers'[e][s].armed /\ watchers'[e][s].covered

LEMMA CoveragePersists ==
  ASSUME Registered, Effect \/ UNCHANGED vars
  PROVE  Persists
<1> SUFFICES ASSUME NEW d \in Engines, NEW i \in Covered(d), watchers[d][i].armed, i \in Occupied(d)'
             PROVE  watchers'[d][i].armed /\ watchers'[d][i].covered
  BY DEF Persists
<1>1. /\ i \in DOMAIN watchers[d] /\ watchers[d][i].covered /\ watchers[d][i].occupied
      /\ i \in DOMAIN watchers'[d] /\ watchers'[d][i].occupied
  BY EngineFacts DEF Covered, Occupied, SlotOK
<1>2. CASE Still
  BY <1>1, <1>2 DEF Still
<1>3. CASE \E e \in Engines : \E s : Freed(e, s)
  BY <1>1, <1>3 DEF Freed, Elsewhere
<1>4. ASSUME NEW e \in Engines, NEW s, Reused(e, s) \/ Grown(e, s)
      PROVE  watchers'[d][i].armed /\ watchers'[d][i].covered
  BY <1>1, <1>4 DEF Reused, Grown, Elsewhere
<1>5. CASE \E e \in Engines : Emptied(e)
  BY <1>1, <1>5, EmptySeq DEF Emptied
<1>6. CASE UNCHANGED vars
  BY <1>1, <1>6 DEF vars, slots
<1> QED BY <1>2, <1>3, <1>4, <1>5, <1>6 DEF Effect

(* For any sources, samples and exceptions: while coverage is attached to  *)
(* an armed registration it stays armed and covered (CoveredStaysArmed).   *)
THEOREM CoverageIsPersistent == Spec => CoveredStaysArmed
<1>1. IInv /\ [Next]_vars => IInv' /\ [Persists]_vars
  BY NextIInv, CoveragePersists DEF IInv
<1> QED BY <1>1, InitIInv, PTL DEF Spec, CoveredStaysArmed, Persists

-----------------------------------------------------------------------------
(* The engines implement the lease on the clock.                           *)
LEMMA LeaseInit == Init => Lease!Init
BY DEF Init, Lease!Init, driving

LEMMA LeaseNext == IInv /\ [Next]_vars => [Lease!Next]_(Lease!lease)
<1> SUFFICES ASSUME IInv, [Next]_vars PROVE Lease!Next \/ UNCHANGED Lease!lease
  OBVIOUS
<1>1. /\ run # NoRun => run.engine \in Engines /\ owner = run.engine
      /\ NoEngine \notin Engines /\ owner \in Engines \cup {NoEngine}
      /\ driving = IF run = NoRun THEN NoEngine ELSE run.engine
  BY EnginesAssumption DEF IInv, Holding, ActiveMeansOwner, driving
<1>2. ASSUME UNCHANGED <<owner, run>>
      PROVE  UNCHANGED Lease!lease
  BY <1>2 DEF Lease!lease, driving
<1>3. ASSUME owner' = owner, run # NoRun, run' = NoRun
      PROVE  Lease!Next
  <2>1. Lease!Rest
    BY <1>1, <1>3 DEF Lease!Rest, driving
  <2> QED BY <2>1 DEF Lease!Next
<1>4. ASSUME NEW e \in Engines, Registrations(e)
      PROVE  UNCHANGED Lease!lease
  BY <1>2, <1>4, RegistrationsStep DEF clock
<1>5. ASSUME NEW e \in Engines, AcquireClock(e)
      PROVE  Lease!Next
  <2>1. Lease!Grant(e)
    BY <1>1, <1>5 DEF AcquireClock, Lease!Grant, driving
  <2> QED BY <2>1 DEF Lease!Next
<1>6. ASSUME NEW e \in Engines, ReleaseClock(e) \/ DestroyEngine(e)
      PROVE  Lease!Next \/ UNCHANGED Lease!lease
  <2>1. run' = run /\ run.engine # e
        /\ owner' = (IF owner = e THEN NoEngine ELSE owner)
    BY <1>6 DEF ReleaseClock, ReleaseGuard, DestroyEngine, Running
  <2>2. CASE owner = e
    <3>1. Lease!Return(e)
      BY <1>1, <2>1, <2>2 DEF Lease!Return, driving
    <3> QED BY <3>1 DEF Lease!Next
  <2>3. CASE owner # e
    BY <1>2, <2>1, <2>3
  <2> QED BY <2>2, <2>3
<1>7. ASSUME NEW e \in Engines, NEW n \in 0..MaxHalves, RunUntil(e, n)
      PROVE  Lease!Next \/ UNCHANGED Lease!lease
  <2>1. /\ run.engine # e /\ owner = e /\ owner' = owner
        /\ run' = IF n = 0 THEN NoRun ELSE [engine |-> e, left |-> n]
    BY <1>7 DEF RunUntil, RunGuard, Running
  <2>2. run = NoRun
    BY <1>1, <2>1
  <2>3. CASE n = 0
    BY <1>2, <2>1, <2>2, <2>3
  <2>4. CASE n # 0
    <3>1. run'.engine = e /\ run' # NoRun
      BY <1>1, <2>1, <2>4 DEF NoRun
    <3>2. Lease!Drive(e)
      BY <1>1, <2>1, <2>2, <3>1 DEF Lease!Drive, driving
    <3> QED BY <3>2 DEF Lease!Next
  <2> QED BY <2>3, <2>4
<1>8. ASSUME NEW e \in Engines, NEW p, NEW v, NEW aborts, NEW stop, NEW quit,
             EndHalf(e, p, v, aborts, stop, quit)
      PROVE  Lease!Next \/ UNCHANGED Lease!lease
  <2>1. /\ owner' = owner /\ run.engine = e /\ e # NoEngine
        /\ run' = NoRun \/ run' = [run EXCEPT !.left = @ - 1]
    BY <1>8 DEF EndHalf, Running
  <2>2. run # NoRun /\ run \in [engine : Engines \cup {NoEngine}, left : Nat]
    BY <2>1 DEF NoRun, IInv, Holding
  <2>3. CASE run' = NoRun
    BY <1>3, <2>1, <2>2, <2>3
  <2>4. CASE run' = [run EXCEPT !.left = @ - 1]
    <3>1. run'.engine = e
      BY <2>1, <2>2, <2>4
    <3>2. run' # NoRun
      BY <2>1, <3>1 DEF NoRun
    <3>3. driving' = driving
      BY <2>1, <2>2, <3>1, <3>2 DEF driving
    <3> QED BY <2>1, <3>3 DEF Lease!lease
  <2> QED BY <2>1, <2>3, <2>4
<1>9. ASSUME NEW e, NEW v, NEW aborts, NEW stop, SamplePhase(e, v, aborts, stop)
      PROVE  UNCHANGED Lease!lease
  BY <1>2, <1>9 DEF SamplePhase
<1>10. CASE UserThrows
  BY <1>3, <1>10 DEF UserThrows
<1>11. ASSUME NEW p, NEW v, StepByHand(p, v)
       PROVE  UNCHANGED Lease!lease
  BY <1>2, <1>11 DEF StepByHand
<1>12. CASE UNCHANGED vars
  BY <1>2, <1>12 DEF vars, clock
<1> QED
  BY <1>4, <1>5, <1>6, <1>7, <1>8, <1>9, <1>10, <1>11, <1>12 DEF Next, Driving, Evaluating

(* For any engines and any interleaving of their calls, runs and           *)
(* exceptions: the engines implement the abstract lease (LeaseSpec), so    *)
(* simulated time has one driver at a time.                                *)
THEOREM EnginesKeepLease == Spec => LeaseSpec
<1> QED BY InitIInv, NextIInv, LeaseInit, LeaseNext, PTL DEF Spec, LeaseSpec, Lease!Spec

-----------------------------------------------------------------------------
(* The registry of handles.                                                *)
LEMMA HandleSets ==
  ASSUME NEW e \in Engines, NEW h \in Handles
  PROVE  /\ <<e, h>> \in LiveHandles <=> Live(e, h)
         /\ <<e, h>> \in IssuedHandles <=> Issued(e, h)
         /\ <<e, h>> \in LiveHandles' <=> Live(e, h)'
         /\ <<e, h>> \in IssuedHandles' <=> Issued(e, h)'
BY DEF LiveHandles, IssuedHandles

LEMMA HandlePairs ==
  /\ LiveHandles \subseteq Engines \X Handles /\ IssuedHandles \subseteq Engines \X Handles
  /\ LiveHandles' \subseteq Engines \X Handles /\ IssuedHandles' \subseteq Engines \X Handles
BY DEF LiveHandles, IssuedHandles, Handles

LEMMA SamePairs ==
  ASSUME NEW A, NEW B, NEW H, A \subseteq Engines \X H, B \subseteq Engines \X H,
         \A e \in Engines : \A h \in H : <<e, h>> \in A <=> <<e, h>> \in B
  PROVE  A = B
<1>1. \A p \in Engines \X H : p[1] \in Engines /\ p[2] \in H /\ p = <<p[1], p[2]>>
  OBVIOUS
<1>2. \A p \in Engines \X H : p \in A <=> p \in B
  BY <1>1
<1> QED BY <1>2

LEMMA HandleParts ==
  ASSUME NEW h \in Handles
  PROVE  h[1] \in 1..Capacity /\ h[2] \in 1..MaxGeneration /\ h = <<h[1], h[2]>>
BY DEF Handles

LEMMA SameCardinality == \A S : Registry!Cardinality(S) = Cardinality(S)
BY DEF Registry!Cardinality, Cardinality

(* A slot that is not occupied is room for one more handle.                *)
LEMMA RoomForHandle ==
  ASSUME Registered, NEW e \in Engines, NEW s \in 1..Capacity, s \notin Occupied(e)
  PROVE  Cardinality(Registry!Of(e, LiveHandles)) < Capacity
<1> DEFINE S == Registry!Of(e, LiveHandles)
           T == (1..Capacity) \ {s}
           f == [p \in S |-> p[2][1]]
<1>1. Capacity \in Nat \ {0} /\ IsFiniteSet(1..Capacity) /\ Cardinality(1..Capacity) = Capacity
  BY NumbersAssumption, FS_Interval
<1>2. IsFiniteSet(T) /\ Cardinality(T) = Capacity - 1
  <2> DEFINE I == 1..Capacity
  <2>1. IsFiniteSet(I) /\ Cardinality(I) = Capacity /\ s \in I
    BY <1>1
  <2> HIDE DEF I
  <2>2. /\ IsFiniteSet(I \ {s})
        /\ Cardinality(I \ {s}) = IF s \in I THEN Cardinality(I) - 1 ELSE Cardinality(I)
    BY <2>1, FS_RemoveElement, Zenon
  <2>3. IsFiniteSet(I \ {s}) /\ Cardinality(I \ {s}) = Capacity - 1
    BY <2>1, <2>2
  <2> QED BY <2>3 DEF I
<1>3. ASSUME NEW p \in S
      PROVE  \E h \in Handles : p = <<e, h>> /\ Live(e, h)
  BY HandleSets DEF Registry!Of
<1>4. ASSUME NEW h \in Handles, Live(e, h)
      PROVE  /\ h[1] \in T /\ h = <<h[1], watchers[e][h[1]].generation>>
  BY <1>4, HandleParts DEF Live, Occupied
<1>5. \A p \in S : p[2][1] \in T /\ p = <<e, <<p[2][1], watchers[e][p[2][1]].generation>>>>
  <2> TAKE p \in S
  <2>1. PICK h \in Handles : p = <<e, h>> /\ Live(e, h)
    BY <1>3
  <2>2. p[2] = h
    BY <2>1
  <2> QED BY <1>4, <2>1, <2>2
<1> HIDE DEF S, T
<1>6. f \in [S -> T]
  BY <1>5
<1>7. \A p, q \in S : f[p] = f[q] => p = q
  <2> TAKE p, q \in S
  <2>1. f[p] = p[2][1] /\ f[q] = q[2][1]
    OBVIOUS
  <2> QED BY <1>5, <2>1
<1> HIDE DEF f
<1>8. f \in Injection(S, T)
  BY <1>6, <1>7 DEF Injection, IsInjective
<1>9. Cardinality(S) <= Cardinality(T) /\ IsFiniteSet(S)
  BY <1>2, <1>8, FS_Injection
<1>10. Cardinality(S) \in Nat
  BY <1>9, FS_CardinalityType
<1> QED BY <1>1, <1>2, <1>9, <1>10 DEF S

LEMMA StillHandles ==
  ASSUME Still
  PROVE  UNCHANGED Registry!registry
<1>1. ASSUME NEW e \in Engines, NEW h \in Handles
      PROVE  /\ Live(e, h)' <=> Live(e, h)
             /\ Issued(e, h)' <=> Issued(e, h)
  BY DEF Still, Live, Issued
<1>2. LiveHandles' = LiveHandles
  <2>1. ASSUME NEW e \in Engines, NEW h \in Handles
        PROVE  <<e, h>> \in LiveHandles' <=> <<e, h>> \in LiveHandles
    BY <1>1, HandleSets
  <2> QED BY <2>1, HandlePairs, SamePairs
<1>3. IssuedHandles' = IssuedHandles
  <2>1. ASSUME NEW e \in Engines, NEW h \in Handles
        PROVE  <<e, h>> \in IssuedHandles' <=> <<e, h>> \in IssuedHandles
    BY <1>1, HandleSets
  <2> QED BY <2>1, HandlePairs, SamePairs
<1> QED BY <1>2, <1>3 DEF Registry!registry

LEMMA FreedHandle ==
  ASSUME Registered, NEW e \in Engines, NEW s, Freed(e, s)
  PROVE  Registry!Next
<1> DEFINE k == <<s, watchers[e][s].generation>>
<1>1. s \in DOMAIN watchers[e] /\ SlotOK(watchers[e][s], cut[e]) /\ Len(watchers[e]) <= Capacity
  BY EngineFacts DEF Freed, EngineOK
<1>2. s \in 1..Capacity
  BY <1>1, EngineFacts, NumbersAssumption
<1>3. k \in Handles /\ k[1] = s /\ k[2] = watchers[e][s].generation
  BY <1>1, <1>2 DEF SlotOK, Handles
<1>4. Live(e, k)
  BY <1>1, <1>3 DEF Live, Freed
<1> HIDE DEF k
<1>5. ASSUME NEW d \in Engines, NEW h \in Handles
      PROVE  /\ Live(d, h)' <=> Live(d, h) /\ ~(d = e /\ h = k)
             /\ Issued(d, h)' <=> Issued(d, h)
  <2>1. h = <<h[1], h[2]>> /\ k = <<s, watchers[e][s].generation>>
    BY HandleParts DEF k
  <2>2. CASE d = e /\ h[1] = s
    BY <1>1, <2>1, <2>2 DEF Freed, SameDomains, Live, Issued
  <2>3. CASE d # e \/ h[1] # s
    BY <1>3, <2>3 DEF Freed, SameDomains, Elsewhere, Live, Issued
  <2> QED BY <2>2, <2>3
<1>6. LiveHandles' = LiveHandles \ {<<e, k>>}
  <2>1. LiveHandles \ {<<e, k>>} \subseteq Engines \X Handles
    BY HandlePairs
  <2>2. ASSUME NEW d \in Engines, NEW h \in Handles
        PROVE  <<d, h>> \in LiveHandles' <=> <<d, h>> \in LiveHandles \ {<<e, k>>}
    BY <1>5, HandleSets
  <2> QED BY <2>1, <2>2, HandlePairs, SamePairs
<1>7. IssuedHandles' = IssuedHandles
  <2>1. ASSUME NEW d \in Engines, NEW h \in Handles
        PROVE  <<d, h>> \in IssuedHandles' <=> <<d, h>> \in IssuedHandles
    BY <1>5, HandleSets
  <2> QED BY <2>1, HandlePairs, SamePairs, SMTT(30)
<1>8. Registry!Retire(e, k)
  BY <1>3, <1>4, <1>6, <1>7, HandleSets DEF Registry!Retire
<1> QED BY <1>3, <1>8 DEF Registry!Next

(* A slot that becomes occupied issues the handle of its new generation.   *)
LEMMA IssuesHandle ==
  ASSUME Registered, Registered', NEW e \in Engines, NEW s \in 1..Capacity,
         s \notin Occupied(e), s \in DOMAIN watchers'[e], watchers'[e][s].occupied,
         \A d \in Engines : DOMAIN watchers'[d] = IF d = e THEN DOMAIN watchers[d] \cup {s}
                                                  ELSE DOMAIN watchers[d],
         Elsewhere(e, s),
         \A g \in 1..MaxGeneration :
           g <= watchers'[e][s].generation
             <=> g = watchers'[e][s].generation \/ Issued(e, <<s, g>>),
         ~Issued(e, <<s, watchers'[e][s].generation>>)
  PROVE  Registry!Next
<1> DEFINE g0 == watchers'[e][s].generation
           k == <<s, g0>>
<1>1. g0 \in 1..MaxGeneration
  <2>1. EngineOK(watchers'[e], free_slots'[e], cut'[e])
    BY DEF Registered
  <2> QED BY <2>1 DEF EngineOK, SlotOK
<1> HIDE DEF g0
<1>2. k \in Handles /\ k[1] = s /\ k[2] = g0
  BY <1>1 DEF Handles
<1>3. ~Issued(e, k) /\ ~Live(e, k)
  BY <1>2 DEF g0, Live, Occupied
<1> HIDE DEF k
<1>4. ASSUME NEW d \in Engines, NEW h \in Handles
      PROVE  /\ Live(d, h)' <=> Live(d, h) \/ (d = e /\ h = k)
             /\ Issued(d, h)' <=> Issued(d, h) \/ (d = e /\ h = k)
  <2>1. h = <<h[1], h[2]>> /\ k = <<s, g0>> /\ h[2] \in 1..MaxGeneration
    BY HandleParts DEF k
  <2>2. CASE d = e /\ h[1] = s
    <3>1. h = k <=> h[2] = g0
      BY <2>1, <2>2
    <3>2. Live(d, h)' <=> h[2] = g0
      BY <2>2 DEF Live, g0
    <3>3. ~Live(d, h)
      BY <2>2 DEF Live, Occupied
    <3>4. Issued(d, h)' <=> h[2] <= g0
      BY <2>2 DEF Issued, g0
    <3>5. h[2] <= g0 <=> h[2] = g0 \/ Issued(e, <<s, h[2]>>)
      BY <2>1 DEF g0
    <3>6. h = <<s, h[2]>>
      BY <2>1, <2>2
    <3>7. Issued(e, <<s, h[2]>>) <=> Issued(d, h)
      BY <2>2, <3>6
    <3> QED BY <2>2, <3>1, <3>2, <3>3, <3>4, <3>5, <3>7
  <2>3. CASE d # e \/ h[1] # s
    <3>1. h[1] \in DOMAIN watchers'[d] <=> h[1] \in DOMAIN watchers[d]
      BY <2>3
    <3>2. h[1] \in DOMAIN watchers[d] => watchers'[d][h[1]] = watchers[d][h[1]]
      BY <2>3 DEF Elsewhere
    <3>3. ~(d = e /\ h = k)
      BY <1>2, <2>3
    <3>4. Live(d, h)' <=> Live(d, h)
      BY <3>1, <3>2 DEF Live
    <3>5. Issued(d, h)' <=> Issued(d, h)
      BY <3>1, <3>2 DEF Issued
    <3> QED BY <3>3, <3>4, <3>5
  <2> QED BY <2>2, <2>3
<1>5. LiveHandles' = LiveHandles \cup {<<e, k>>}
  <2>1. LiveHandles \cup {<<e, k>>} \subseteq Engines \X Handles
    BY <1>2, HandlePairs
  <2>2. ASSUME NEW d \in Engines, NEW h \in Handles
        PROVE  <<d, h>> \in LiveHandles' <=> <<d, h>> \in LiveHandles \cup {<<e, k>>}
    BY <1>4, HandleSets
  <2> QED BY <2>1, <2>2, HandlePairs, SamePairs
<1>6. IssuedHandles' = IssuedHandles \cup {<<e, k>>}
  <2>1. IssuedHandles \cup {<<e, k>>} \subseteq Engines \X Handles
    BY <1>2, HandlePairs
  <2>2. ASSUME NEW d \in Engines, NEW h \in Handles
        PROVE  <<d, h>> \in IssuedHandles' <=> <<d, h>> \in IssuedHandles \cup {<<e, k>>}
    BY <1>4, HandleSets
  <2> QED BY <2>1, <2>2, HandlePairs, SamePairs
<1>7. Registry!Cardinality(Registry!Of(e, LiveHandles)) < Capacity
  BY RoomForHandle, SameCardinality
<1>8. <<e, k>> \notin IssuedHandles
  BY <1>2, <1>3, HandleSets
<1>9. Registry!Issue(e, k)
  BY <1>5, <1>6, <1>7, <1>8 DEF Registry!Issue
<1> QED BY <1>2, <1>9 DEF Registry!Next

LEMMA EmptiedHandles ==
  ASSUME NEW e \in Engines, Emptied(e)
  PROVE  Registry!Next
<1>1. ASSUME NEW d \in Engines, NEW h \in Handles
      PROVE  /\ Live(d, h)' <=> Live(d, h) /\ d # e
             /\ Issued(d, h)' <=> Issued(d, h) /\ d # e
  BY EmptySeq DEF Emptied, Live, Issued
<1>2. LiveHandles' = LiveHandles \ ({e} \X Handles)
  <2>1. LiveHandles \ ({e} \X Handles) \subseteq Engines \X Handles
    BY HandlePairs
  <2>2. ASSUME NEW d \in Engines, NEW h \in Handles
        PROVE  <<d, h>> \in LiveHandles' <=> <<d, h>> \in LiveHandles \ ({e} \X Handles)
    BY <1>1, HandleSets
  <2> QED BY <2>1, <2>2, HandlePairs, SamePairs
<1>3. IssuedHandles' = IssuedHandles \ ({e} \X Handles)
  <2>1. IssuedHandles \ ({e} \X Handles) \subseteq Engines \X Handles
    BY HandlePairs
  <2>2. ASSUME NEW d \in Engines, NEW h \in Handles
        PROVE  <<d, h>> \in IssuedHandles' <=> <<d, h>> \in IssuedHandles \ ({e} \X Handles)
    BY <1>1, HandleSets
  <2> QED BY <2>1, <2>2, HandlePairs, SamePairs
<1>4. Registry!Forget(e)
  BY <1>2, <1>3 DEF Registry!Forget
<1> QED BY <1>4 DEF Registry!Next

LEMMA RegistryInit == Init => Registry!Init
<1> SUFFICES ASSUME Init PROVE Registry!Init
  OBVIOUS
<1>1. ASSUME NEW e \in Engines, NEW h \in Handles
      PROVE  ~Live(e, h) /\ ~Issued(e, h)
  BY EmptySeq DEF Init, Live, Issued
<1>2. ASSUME NEW e \in Engines, NEW h \in Handles
      PROVE  <<e, h>> \notin LiveHandles /\ <<e, h>> \notin IssuedHandles
  BY <1>1, HandleSets
<1>3. ASSUME NEW A, A \subseteq Engines \X Handles,
             \A e \in Engines : \A h \in Handles : <<e, h>> \notin A
      PROVE  A = {}
  BY <1>3, SamePairs
<1>4. LiveHandles = {} /\ IssuedHandles = {}
  BY <1>2, <1>3, HandlePairs
<1> QED BY <1>4 DEF Registry!Init

LEMMA RegistryNext ==
  IInv /\ IInv' /\ (Effect \/ UNCHANGED vars) => [Registry!Next]_(Registry!registry)
<1> SUFFICES ASSUME IInv, IInv', Effect \/ UNCHANGED vars
             PROVE  Registry!Next \/ UNCHANGED Registry!registry
  OBVIOUS
<1>1. Registered /\ Registered'
  BY DEF IInv
<1>2. CASE Still
  BY <1>2, StillHandles
<1>3. ASSUME NEW e \in Engines, NEW s, Freed(e, s)
      PROVE  Registry!Next
  BY <1>1, <1>3, FreedHandle
<1>4. ASSUME NEW e \in Engines, NEW s, Reused(e, s)
      PROVE  Registry!Next
  <2> DEFINE g == watchers[e][s].generation
             next == watchers'[e][s].generation
  <2>1. s \in DOMAIN watchers[e] /\ SlotOK(watchers[e][s], cut[e]) /\ Len(watchers[e]) <= Capacity
    BY <1>1, <1>4, EngineFacts DEF Reused, EngineOK
  <2>2. s \in 1..Capacity /\ g \in Nat
    BY <1>1, <2>1, EngineFacts, NumbersAssumption DEF SlotOK
  <2>3. s \notin Occupied(e) /\ s \in DOMAIN watchers'[e] /\ watchers'[e][s].occupied
    BY <1>4 DEF Reused, SameDomains, Occupied
  <2>4. \A d \in Engines : DOMAIN watchers'[d] = IF d = e THEN DOMAIN watchers[d] \cup {s}
                                                ELSE DOMAIN watchers[d]
    BY <1>4 DEF Reused, SameDomains
  <2>5. next = g + 1
    BY <1>4 DEF Reused
  <2>6. \A x \in 1..MaxGeneration : Issued(e, <<s, x>>) <=> x <= g
    BY <2>1 DEF Issued
  <2>7. ~Issued(e, <<s, next>>)
    BY <2>2, <2>5 DEF Issued
  <2>8. Elsewhere(e, s)
    BY <1>4 DEF Reused
  <2>9. \A x \in 1..MaxGeneration : x <= next <=> x = next \/ Issued(e, <<s, x>>)
    <3> HIDE DEF g, next
    <3> QED BY <2>2, <2>5, <2>6, NumbersAssumption
  <2> QED BY <1>1, <2>2, <2>3, <2>4, <2>7, <2>8, <2>9, IssuesHandle
<1>5. ASSUME NEW e \in Engines, NEW s, Grown(e, s)
      PROVE  Registry!Next
  <2>1. s \in 1..Capacity /\ s \notin DOMAIN watchers[e]
    BY <1>5 DEF Grown
  <2>2. s \notin Occupied(e) /\ s \in DOMAIN watchers'[e] /\ watchers'[e][s].occupied
    BY <1>5 DEF Grown, Occupied
  <2>3. \A d \in Engines : DOMAIN watchers'[d] = IF d = e THEN DOMAIN watchers[d] \cup {s}
                                                ELSE DOMAIN watchers[d]
    BY <1>5 DEF Grown
  <2>4. watchers'[e][s].generation = 1 /\ Elsewhere(e, s)
    BY <1>5 DEF Grown
  <2>5. \A x : ~Issued(e, <<s, x>>)
    BY <2>1 DEF Issued
  <2>6. \A x \in 1..MaxGeneration :
          x <= watchers'[e][s].generation
            <=> x = watchers'[e][s].generation \/ Issued(e, <<s, x>>)
    BY <2>4, <2>5, NumbersAssumption
  <2> QED BY <1>1, <2>1, <2>2, <2>3, <2>4, <2>5, <2>6, IssuesHandle
<1>6. ASSUME NEW e \in Engines, Emptied(e)
      PROVE  Registry!Next
  BY <1>6, EmptiedHandles
<1>7. CASE UNCHANGED vars
  <2>1. UNCHANGED watchers
    BY <1>7 DEF vars, slots
  <2>2. Still
    BY <2>1 DEF Still
  <2> QED BY <2>2, StillHandles
<1> QED BY <1>2, <1>3, <1>4, <1>5, <1>6, <1>7 DEF Effect

(* For any engines, capacities and registrations: the slots and their      *)
(* generations implement the abstract registry (RegistrySpec).  No call    *)
(* issues a handle a second time or makes a retired one live again, and an *)
(* engine never has more than Capacity live handles.                       *)
THEOREM HandlesIssuedOnce == Spec => RegistrySpec
<1>1. IInv /\ [Next]_vars => IInv' /\ [Registry!Next]_(Registry!registry)
  BY NextIInv, RegistryNext
<1> QED BY <1>1, InitIInv, RegistryInit, PTL DEF Spec, RegistrySpec, Registry!Spec
=============================================================================
