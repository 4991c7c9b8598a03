----------------------- MODULE PatternReference_proofs -----------------------
(***************************************************************************)
(* Proofs that a matcher finds in its samples, one at a time, what the     *)
(* whole trace of them implies, for any programs, capacities and samples.  *)
(***************************************************************************)
EXTENDS PatternReference, PatternMatcher_proofs

(* A sample is added at the end of a trace.                                *)
LEMMA Longer ==
  ASSUME NEW tr \in Seq(Samples), NEW sample \in Samples
  PROVE  LET n == Len(tr)  more == Append(tr, sample) IN
         /\ n \in Nat /\ Len(more) = n + 1 /\ more \in Seq(Samples)
         /\ more[n + 1] = sample /\ \A t \in 1..n : more[t] = tr[t]
BY AppendProperties, LenProperties

-----------------------------------------------------------------------------
(* Plain expressions.  The last condition remembered is the one held on    *)
(* the latest sample where the expression was known.                       *)
Remembered == last_condition = HeldBefore(trace, Program.root, now)

CInv == Program.kind = "Expr" => Remembered /\ ConditionMatchesReference

LEMMA LatestKnown ==
  ASSUME NEW tr, NEW root, NEW t \in Nat, KnownBefore(tr, root, t) # {}
  PROVE  LET K == KnownBefore(tr, root, t) IN
         Max(K) \in K /\ \A u \in K : Max(K) >= u
<1> DEFINE K == KnownBefore(tr, root, t)
<1>1. K \in SUBSET Nat /\ \A u \in K : u <= t
  BY DEF KnownBefore
<1>2. \E x \in K : \A y \in K : x >= y
  <2> HIDE DEF K
  <2>1. K # {}
    BY DEF K
  <2> QED BY <1>1, <2>1, GreatestNumber
<1> HIDE DEF K
<1>3. Max(K) \in K /\ \A u \in K : Max(K) >= u
  BY <1>2 DEF Max
<1> QED BY <1>3 DEF K

LEMMA HeldLonger ==
  ASSUME NEW tr \in Seq(Samples), NEW sample \in Samples, NEW root
  PROVE  LET n == Len(tr)  more == Append(tr, sample) IN
         /\ \A t \in 1..n + 1 : HeldBefore(more, root, t) <=> HeldBefore(tr, root, t)
         /\ HeldBefore(more, root, n + 2) <=>
              IF root \in sample.known THEN root \in sample.holds
              ELSE HeldBefore(tr, root, n + 1)
<1> DEFINE n == Len(tr)
           more == Append(tr, sample)
<1>1. /\ n \in Nat /\ more[n + 1] = sample
      /\ \A t \in 1..n : more[t] = tr[t]
  BY Longer
<1> HIDE DEF n, more
<1>2. ASSUME NEW t \in 1..n + 1
      PROVE  /\ KnownBefore(more, root, t) = KnownBefore(tr, root, t)
             /\ HeldBefore(more, root, t) <=> HeldBefore(tr, root, t)
  <2>1. KnownBefore(more, root, t) = KnownBefore(tr, root, t)
    <3>1. \A u \in 1..t - 1 : u \in 1..n
      BY <1>1
    <3> QED BY <1>1, <3>1 DEF KnownBefore, Known
  <2>2. CASE KnownBefore(tr, root, t) = {}
    BY <2>1, <2>2 DEF HeldBefore
  <2>3. CASE KnownBefore(tr, root, t) # {}
    <3> DEFINE m == Max(KnownBefore(tr, root, t))
    <3>1. m \in KnownBefore(tr, root, t)
      BY <1>1, <2>3, LatestKnown
    <3>2. m \in 1..n
      BY <1>1, <3>1 DEF KnownBefore
    <3> QED BY <1>1, <2>1, <3>2 DEF HeldBefore, True
  <2> QED BY <2>1, <2>2, <2>3
<1>3. HeldBefore(more, root, n + 2) <=>
        IF root \in sample.known THEN root \in sample.holds ELSE HeldBefore(tr, root, n + 1)
  <2> DEFINE K == KnownBefore(more, root, n + 2)
  <2>1. K = KnownBefore(more, root, n + 1) \cup (IF root \in sample.known THEN {n + 1} ELSE {})
    <3>1. \A u : u \in 1..n + 2 - 1 <=> u \in 1..n + 1 - 1 \/ u = n + 1
      BY <1>1
    <3> QED BY <1>1, <3>1 DEF KnownBefore, Known
  <2>2. CASE root \in sample.known
    <3>1. n + 1 \in K /\ K # {}
      BY <2>1, <2>2
    <3>2. \A u \in K : u <= n + 1 /\ u \in Nat
      BY <1>1 DEF KnownBefore
    <3>3. Max(K) \in K /\ Max(K) >= n + 1
      BY <1>1, <3>1, LatestKnown
    <3>4. Max(K) = n + 1
      BY <1>1, <3>2, <3>3
    <3> QED BY <1>1, <2>2, <3>1, <3>4 DEF HeldBefore, True
  <2>3. CASE root \notin sample.known
    <3>1. K = KnownBefore(more, root, n + 1)
      BY <2>1, <2>3
    <3>2. HeldBefore(more, root, n + 2) <=> HeldBefore(more, root, n + 1)
      BY <3>1 DEF HeldBefore
    <3>3. n + 1 \in 1..n + 1
      BY <1>1
    <3> QED BY <1>2, <2>3, <3>2, <3>3
  <2> QED BY <2>2, <2>3
<1> QED BY <1>2, <1>3 DEF n, more

(* The hits of a longer trace are those it had, and its last sample if the *)
(* condition hits there.                                                   *)
LEMMA HitsLonger ==
  ASSUME NEW tr \in Seq(Samples), NEW sample \in Samples, NEW root, NEW mode, mode \in Modes
  PROVE  ExpectedHits(Append(tr, sample), root, mode) =
           ExpectedHits(tr, root, mode) \cup
             (IF MatchCondition(root \in sample.known, root \in sample.holds, mode,
                                HeldBefore(tr, root, Len(tr) + 1)).hit
              THEN {Len(tr) + 1} ELSE {})
<1> DEFINE n == Len(tr)
           more == Append(tr, sample)
           hit == MatchCondition(root \in sample.known, root \in sample.holds, mode,
                                 HeldBefore(tr, root, n + 1)).hit
           Due(r, t) == /\ Known(r, root, t)
                        /\ CASE mode = "EachSample" -> True(r, root, t)
                             [] mode = "Enter" -> True(r, root, t) /\ ~HeldBefore(r, root, t)
                             [] OTHER -> True(r, root, t) # HeldBefore(r, root, t)
<1>1. /\ n \in Nat /\ Len(more) = n + 1 /\ more[n + 1] = sample
      /\ \A t \in 1..n : more[t] = tr[t]
  BY Longer
<1>2. \A t \in 1..n + 1 : HeldBefore(more, root, t) <=> HeldBefore(tr, root, t)
  BY HeldLonger
<1>3. ExpectedHits(more, root, mode) = {t \in 1..Len(more) : Due(more, t)}
      /\ ExpectedHits(tr, root, mode) = {t \in 1..n : Due(tr, t)}
  BY DEF ExpectedHits
<1> HIDE DEF n, more
<1>4. \A t \in 1..n : Due(more, t) <=> Due(tr, t)
  <2> TAKE t \in 1..n
  <2>1. HeldBefore(more, root, t) <=> HeldBefore(tr, root, t)
    BY <1>1, <1>2
  <2>2. Known(more, root, t) <=> Known(tr, root, t)
    BY <1>1 DEF Known
  <2>3. True(more, root, t) <=> True(tr, root, t)
    BY <1>1 DEF True
  <2>4. True(more, root, t) = True(tr, root, t)
    BY <2>3 DEF True
  <2>5. HeldBefore(more, root, t) = HeldBefore(tr, root, t)
    BY <2>1 DEF HeldBefore
  <2> QED BY <2>2, <2>4, <2>5, Zenon
<1>5. Due(more, n + 1) <=> hit
  <2>1. n + 1 \in 1..n + 1
    BY <1>1
  <2>2. HeldBefore(more, root, n + 1) <=> HeldBefore(tr, root, n + 1)
    BY <1>2, <2>1
  <2>3. /\ Known(more, root, n + 1) <=> root \in sample.known
        /\ True(more, root, n + 1) <=> root \in sample.holds
    BY <1>1 DEF Known, True
  <2>4. True(more, root, n + 1) = (root \in sample.holds)
    BY <2>3 DEF True
  <2>5. HeldBefore(more, root, n + 1) = HeldBefore(tr, root, n + 1)
    BY <2>2 DEF HeldBefore
  <2>6. hit <=> /\ root \in sample.known
                /\ Hits(root \in sample.holds, mode, HeldBefore(tr, root, n + 1))
    BY DEF MatchCondition
  <2>7. hit <=> /\ root \in sample.known
                /\ CASE mode = "EachSample" -> root \in sample.holds
                     [] mode = "Enter" -> root \in sample.holds /\ ~HeldBefore(tr, root, n + 1)
                     [] OTHER -> (root \in sample.holds) # HeldBefore(tr, root, n + 1)
    BY <2>6 DEF Hits, Modes
  <2> HIDE DEF hit
  <2> QED BY <2>3, <2>4, <2>5, <2>7
<1> HIDE DEF Due, hit
<1>6. \A t : t \in 1..n + 1 <=> t \in 1..n \/ t = n + 1
  BY <1>1
<1>7. ExpectedHits(more, root, mode) =
        ExpectedHits(tr, root, mode) \cup (IF hit THEN {n + 1} ELSE {})
  BY <1>1, <1>3, <1>4, <1>5, <1>6
<1> QED BY <1>7 DEF n, more, hit

LEMMA ClearedTrace ==
  ASSUME Clear, UNCHANGED config
  PROVE  trace' = << >> /\ Len(trace') = 0 /\ now' = 1 /\ Active' = {} /\ Program' = Program
BY EmptySeq DEF Clear, Active, now, Program

LEMMA InitCInv == Init => CInv
<1> SUFFICES ASSUME Init PROVE CInv
  OBVIOUS
<1>1. trace = << >> /\ Len(trace) = 0 /\ now = 1 /\ hits = {} /\ ~last_condition
  BY EmptySeq DEF Init, now
<1>2. ~HeldBefore(trace, Program.root, 1) /\ HeldBefore(trace, Program.root, 1) \in BOOLEAN
  BY DEF HeldBefore, KnownBefore
<1>3. ExpectedHits(trace, Program.root, Program.mode) = {}
  BY <1>1 DEF ExpectedHits
<1> QED BY <1>1, <1>2, <1>3 DEF Init, CInv, Remembered, ConditionMatchesReference

LEMMA NextCInv == Named /\ CInv /\ [Next]_vars => CInv'
<1> SUFFICES ASSUME Named, CInv, [Next]_vars, (Program.kind = "Expr")'
             PROVE  Remembered' /\ ConditionMatchesReference'
  BY DEF CInv
<1> DEFINE root == Program.root
           mode == Program.mode
<1>1. Program' = Program /\ config' = config
  BY DEF Next, vars, Sample, ClearMatcher, ResetCoverage, Program
<1>2. Program.kind = "Expr" /\ mode \in Modes /\ trace \in Seq(Samples)
  BY <1>1, ValidAssumption DEF Named, ValidProgram, Program
<1>3. Remembered /\ hits = ExpectedHits(trace, root, mode)
  BY <1>2 DEF CInv, ConditionMatchesReference
<1>4. ASSUME NEW sample \in Samples, Sample(sample)
      PROVE  Remembered' /\ ConditionMatchesReference'
  <2> DEFINE held == HeldBefore(trace, root, now)
             found == Condition(sample)
  <2>1. SampleCondition(sample) /\ trace' = Append(trace, sample)
    BY <1>2, <1>4 DEF Sample, SamplePattern
  <2>2. now = Len(trace) + 1 /\ now' = Len(trace) + 2 /\ Len(trace) \in Nat
    BY <1>2, <2>1, Longer DEF now
  <2>3. found = MatchCondition(root \in sample.known, root \in sample.holds, mode, held)
    BY <1>3 DEF Condition, Remembered
  <2>4. HeldBefore(trace', root, now') <=>
          IF root \in sample.known THEN root \in sample.holds ELSE held
    BY <1>2, <2>1, <2>2, HeldLonger
  <2>5. Remembered'
    <3>1. last_condition' = IF root \in sample.known THEN root \in sample.holds ELSE held
      BY <2>1, <2>3 DEF SampleCondition, MatchCondition
    <3>2. HeldBefore(trace', root, now') \in BOOLEAN /\ held \in BOOLEAN
      BY DEF HeldBefore
    <3>3. last_condition' = HeldBefore(trace', root, now')
      <4> HIDE DEF held, root
      <4> QED BY <2>4, <3>1, <3>2
    <3> QED BY <1>1, <3>3 DEF Remembered
  <2>6. hits' = ExpectedHits(trace', root, mode)
    <3>1. ExpectedHits(trace', root, mode) =
            ExpectedHits(trace, root, mode) \cup (IF found.hit THEN {now} ELSE {})
      BY <1>2, <2>1, <2>2, <2>3, HitsLonger
    <3>2. hits' = IF found.hit THEN hits \cup {now} ELSE hits
      BY <2>1 DEF SampleCondition
    <3> QED BY <1>3, <3>1, <3>2
  <2> QED BY <1>1, <2>5, <2>6 DEF ConditionMatchesReference
<1>5. CASE Clear
  <2>1. trace' = << >> /\ Len(trace') = 0 /\ now' = 1
    BY <1>1, <1>5, ClearedTrace
  <2>2. ~HeldBefore(trace', root, 1) /\ HeldBefore(trace', root, 1) \in BOOLEAN
    BY DEF HeldBefore, KnownBefore
  <2>3. ExpectedHits(trace', root, mode) = {}
    BY <2>1 DEF ExpectedHits
  <2> QED BY <1>1, <1>5, <2>1, <2>2, <2>3 DEF Clear, Remembered, ConditionMatchesReference
<1>6. CASE UNCHANGED vars
  BY <1>1, <1>3, <1>6 DEF vars, Remembered, now, ConditionMatchesReference
<1> QED BY <1>4, <1>5, <1>6 DEF Next, ClearMatcher, ResetCoverage

(* A plain expression hits exactly on the samples its mode says            *)
(* (MatchCondition), however often it is unknown and cleared in between.   *)
THEOREM ConditionsFound == Spec => []ConditionMatchesReference
<1>1. IInv => Named
  BY DEF IInv
<1>2. CInv => ConditionMatchesReference
  BY DEF CInv, ConditionMatchesReference
<1> QED BY <1>1, <1>2, InitIInv, NextIInv, InitCInv, NextCInv, PTL DEF Spec

-----------------------------------------------------------------------------
(* Value transitions.  With overlap an attempt moves one step a sample or  *)
(* ends, so its step says how long ago it started and two attempts are     *)
(* never at the same step.                                                 *)
InStep == \A i \in Active : attempts[i].index \in 1..Len(Program.steps) - 1
                             /\ i + attempts[i].index = now

AInv == Adjacent => /\ ~incomplete
                    /\ config.overlap => InStep

LEMMA SequenceProgram ==
  ASSUME Named, Program.kind = "Sequence"
  PROVE  /\ Program.steps \in Seq(SequenceStep(Roots)) /\ Len(Program.steps) \in Nat \ {0}
         /\ config.overlap => Program.steps[1].kind = "Wait"
         /\ \A k \in 1..Len(Program.steps) : /\ Program.steps[k] \in SequenceStep(Roots)
                                             /\ ValidStep(Program.steps[k])
<1>1. ValidProgram(Program, config.overlap, config.max_active, Roots)
  BY ValidAssumption DEF Named, Program
<1>2. ValidOverlap(Program, config.overlap, config.max_active)
      /\ ValidSequence(Program.steps, Roots)
  BY <1>1 DEF ValidProgram
<1> DEFINE steps == Program.steps
<1>3. steps \in Seq(SequenceStep(Roots)) /\ steps # << >>
      /\ \A k \in DOMAIN steps : ValidStep(steps[k])
  BY <1>2 DEF ValidSequence
<1>4. config.overlap => steps[1].kind = "Wait"
  BY <1>2 DEF ValidOverlap
<1> HIDE DEF steps
<1>5. Len(steps) \in Nat \ {0} /\ DOMAIN steps = 1..Len(steps)
  BY <1>3, EmptySeq, LenProperties
<1>6. \A k \in 1..Len(steps) : steps[k] \in SequenceStep(Roots)
  BY <1>3, ElementOfSeq
<1> QED BY <1>3, <1>4, <1>5, <1>6 DEF steps

(* A Next step is the matter of one sample.                                *)
LEMMA NextStep ==
  ASSUME Named, Program.kind = "Sequence", NEW i \in Active, NEW holds,
         attempts[i] \in PatternState,
         Program.steps[attempts[i].index + 1].kind = "Next",
         i \in Kept(holds)
  PROVE  /\ attempts[i].index + 1 # Len(Program.steps)
         /\ Result(i, holds).state.index = attempts[i].index + 1
<1> DEFINE steps == Program.steps
           state == attempts[i]
           step == steps[state.index + 1]
           r == Result(i, holds)
           done == step.root \in holds
<1>1. r = AdvanceSequence(steps, state, holds)
  BY DEF Result, Advance
<1>2. /\ Breaks(step, state, holds) <=> ~done
      /\ IsDone(step, state, holds) <=> done
  BY DEF Breaks, IsDone, StepFails, StepExpires, StepCompletes
<1>3. HowEnds(r) = "continues"
  BY DEF Kept, Ends
<1>4. ~r.failed /\ ~r.completed
  BY <1>3 DEF HowEnds
<1> HIDE DEF steps, state, r, done
<1>5. /\ r.failed <=> ~done
      /\ r.completed <=> done /\ state.index + 1 = Len(steps)
      /\ done /\ state.index + 1 # Len(steps) => r.state = AtStep(state.index + 1, state)
  BY <1>1, <1>2, SequenceResult DEF state
<1>6. AtStep(state.index + 1, state).index = state.index + 1
  BY DEF AtStep
<1> QED BY <1>4, <1>5, <1>6 DEF steps, state, r, done

(* An attempt begins with overlap when its Wait step is satisfied.         *)
LEMMA WaitStep ==
  ASSUME Named, Program.kind = "Sequence", Program.steps[1].kind = "Wait", NEW holds,
         Stays(holds)
  PROVE  Len(Program.steps) # 1 /\ Candidate(holds).state.index = 1
<1> DEFINE steps == Program.steps
           state == StartState(Program)
           step == steps[1]
           r == Candidate(holds)
           done == step.root \in holds
<1>1. state = [index |-> 0, age |-> 0, held |-> 0, fsm |-> 0] /\ state \in PatternState
  BY DEF StartState, PatternState
<1>2. r = AdvanceSequence(steps, state, holds) /\ state.index + 1 = 1
  BY <1>1 DEF Candidate, Advance
<1>3. /\ ~Breaks(step, state, holds) /\ Counted(step, state, holds) = state
      /\ IsDone(step, state, holds) <=> done
  BY DEF Breaks, IsDone, StepFails, StepExpires, StepCompletes, Counted
<1>4. ~r.completed /\ HasLeft(r.state)
  BY DEF Stays, Starts, Proceeds
<1>5. HasLeft(r.state) => r.state # state
  BY <1>1 DEF HasLeft
<1> HIDE DEF steps, state, r, done
<1>6. /\ r.completed <=> done /\ 1 = Len(steps)
      /\ ~done => r.state = state
      /\ done /\ 1 # Len(steps) => r.state = AtStep(1, state)
  <2>1. /\ r.completed <=> IsDone(steps[1], state, holds) /\ state.index + 1 = Len(steps)
        /\ IsDone(steps[1], state, holds) =>
             r.state = AtStep(IF state.index + 1 = Len(steps) THEN 0 ELSE state.index + 1, state)
        /\ ~Breaks(steps[1], state, holds) /\ ~IsDone(steps[1], state, holds) =>
             r.state = Counted(steps[1], state, holds)
    BY <1>1, <1>2, SequenceResult, Zenon
  <2> QED BY <1>2, <1>3, <2>1, Zenon
<1>7. AtStep(1, state).index = 1
  BY DEF AtStep
<1> QED BY <1>4, <1>5, <1>6, <1>7 DEF steps, r

LEMMA WindowRoom ==
  ASSUME NEW m \in Nat, NEW n \in Nat \ {0}, NEW S,
         \A i \in S : i \in Nat /\ i < m /\ m < i + n
  PROVE  IsFiniteSet(S) /\ Cardinality(S) \in Nat /\ Cardinality(S) < n
<1>1. S \in SUBSET ((m - n + 1)..(m - 1))
  OBVIOUS
<1>2. /\ IsFiniteSet((m - n + 1)..(m - 1))
      /\ Cardinality((m - n + 1)..(m - 1)) = n - 1
  <2>1. m - n + 1 \in Int /\ m - 1 \in Int
    OBVIOUS
  <2>2. /\ IsFiniteSet((m - n + 1)..(m - 1))
        /\ Cardinality((m - n + 1)..(m - 1)) =
             IF m - n + 1 > m - 1 THEN 0 ELSE (m - 1) - (m - n + 1) + 1
    BY <2>1, FS_Interval
  <2> QED BY <2>2
<1>3. IsFiniteSet(S) /\ Cardinality(S) <= n - 1
  BY <1>1, <1>2, FS_Subset
<1> QED BY <1>3, FS_CardinalityType

LEMMA SampleAInv ==
  ASSUME IInv, Typed, AInv, Adjacent, NEW sample \in Samples, Sample(sample)
  PROVE  AInv'
<1> DEFINE steps == Program.steps
           n == Len(steps)
           holds == sample.holds
<1>1. Named /\ now \in Nat /\ now' = now + 1 /\ config' = config /\ Program' = Program
  <2>1. trace \in Seq(Samples) /\ trace' = Append(trace, sample) /\ config' = config
    BY DEF IInv, Named, Sample
  <2> QED BY <2>1, Longer DEF IInv, now, Program
<1>2. /\ Program.kind = "Sequence" /\ n \in Nat \ {0} /\ config.max_active >= n
      /\ \A k \in 2..n : steps[k].kind = "Next"
      /\ config.overlap => steps[1].kind = "Wait"
  BY <1>1, SequenceProgram DEF Adjacent
<1>3. /\ SamplePattern(sample) /\ ~incomplete
  BY <1>2 DEF Sample, SampleCondition, AInv
<1>4. Kept(holds) \subseteq Active /\ Active' = ActiveAfter(holds) /\ attempts' = Advanced(holds)
  BY <1>1, <1>3, Growth DEF SamplePattern, Active, Kept, Ends
<1>5. CASE ~config.overlap
  <2>1. Proceeds(holds) => Kept(holds) = {}
    BY <1>4, <1>5 DEF Proceeds, Tries
  <2>2. Proceeds(holds) => HasRoom(holds)
    <3>1. config.max_active \in Nat
      BY <1>1, ConfigsAssumption DEF Named
    <3>2. Cardinality({}) = 0
      BY FS_EmptySet
    <3>3. 0 < config.max_active
      BY <1>2, <3>1
    <3>4. Proceeds(holds) => Cardinality(Kept(holds)) = 0
      BY <2>1, <3>2
    <3> QED BY <3>3, <3>4 DEF HasRoom
  <2> QED BY <1>1, <1>3, <1>5, <2>2 DEF SamplePattern, AInv
<1>6. CASE config.overlap
  <2>1. InStep
    BY <1>6 DEF AInv
  <2>2. ASSUME NEW i \in Kept(holds)
        PROVE  /\ i \in Nat /\ Result(i, holds).state.index \in 2..n - 1
               /\ i + Result(i, holds).state.index = now'
    <3>1. i \in Active /\ attempts[i].index \in 1..n - 1 /\ i + attempts[i].index = now
      BY <1>4, <2>1 DEF InStep
    <3>2. steps[attempts[i].index + 1].kind = "Next"
      BY <1>2, <3>1
    <3>3. attempts[i] \in PatternState
      BY <3>1 DEF Typed
    <3>4. attempts[i].index + 1 # n
          /\ Result(i, holds).state.index = attempts[i].index + 1
      BY <1>1, <1>2, <3>1, <3>2, <3>3, NextStep
    <3>5. i \in Nat
      BY <1>1, <3>1, LenProperties DEF Named
    <3> DEFINE k == attempts[i].index
    <3>6. k \in 1..n - 1 /\ i + k = now /\ k + 1 # n
      BY <3>1, <3>4
    <3> HIDE DEF k, n
    <3>7. k + 1 \in 2..n - 1 /\ i + (k + 1) = now'
      BY <1>1, <1>2, <3>5, <3>6
    <3> QED BY <3>4, <3>5, <3>7 DEF k, n
  <2>3. HasRoom(holds)
    <3>1. ASSUME NEW i \in Kept(holds)
          PROVE  i \in Nat /\ i < now /\ now < i + n
      <4>1. i \in Nat /\ Result(i, holds).state.index \in 2..n - 1
            /\ i + Result(i, holds).state.index = now'
        BY <2>2
      <4> QED BY <1>1, <1>2, <4>1
    <3>2. Cardinality(Kept(holds)) \in Nat /\ Cardinality(Kept(holds)) < n
      BY <1>1, <1>2, <3>1, WindowRoom
    <3>3. config.max_active \in Nat
      BY <1>1, ConfigsAssumption DEF Named
    <3> QED BY <1>2, <3>2, <3>3 DEF HasRoom
  <2>4. ASSUME NEW i \in ActiveAfter(holds)
        PROVE  attempts'[i].index \in 1..n - 1 /\ i + attempts'[i].index = now'
    <3>1. CASE i \in Kept(holds)
      <4>1. attempts'[i] = Result(i, holds).state
        BY <1>4, <3>1 DEF Advanced, Active
      <4>2. i \in Nat /\ attempts'[i].index \in 2..n - 1 /\ i + attempts'[i].index = now'
        BY <2>2, <3>1, <4>1
      <4> QED BY <1>2, <4>2
    <3>2. CASE i \notin Kept(holds)
      <4>1. i = now /\ Stays(holds) /\ i \notin Active
        BY <1>1, <1>4, <3>2, ActiveIsFinite DEF ActiveAfter
      <4>2. attempts'[i] = Candidate(holds).state
        BY <1>4, <4>1 DEF Advanced
      <4>3. n # 1 /\ Candidate(holds).state.index = 1
        BY <1>1, <1>2, <1>6, <4>1, WaitStep
      <4>4. attempts'[i].index = 1
        BY <4>2, <4>3
      <4>5. 1 \in 1..n - 1
        <5>1. n \in Nat \ {0} /\ n # 1
          BY <1>2, <4>3
        <5> HIDE DEF n
        <5> QED BY <5>1
      <4>6. i + 1 = now'
        BY <1>1, <4>1
      <4> QED BY <4>4, <4>5, <4>6
    <3> QED BY <3>1, <3>2
  <2>5. InStep'
    BY <1>1, <1>4, <2>4 DEF InStep
  <2>6. ~incomplete'
    BY <1>3, <2>3 DEF SamplePattern
  <2> QED BY <2>5, <2>6 DEF AInv
<1> QED BY <1>5, <1>6

LEMMA NextAInv == IInv /\ Typed /\ AInv /\ [Next]_vars => AInv'
<1> SUFFICES ASSUME IInv, Typed, AInv, [Next]_vars, Adjacent' PROVE AInv'
  BY DEF AInv
<1>1. config' = config /\ Program' = Program /\ Adjacent
  BY DEF Next, vars, Sample, ClearMatcher, ResetCoverage, Program, Adjacent
<1>2. ASSUME NEW sample \in Samples, Sample(sample)
      PROVE  AInv'
  BY <1>1, <1>2, SampleAInv
<1>3. CASE (\E reason \in Reasons : ClearMatcher(reason)) \/ ResetCoverage
  <2>1. Clear /\ (incomplete' = incomplete \/ incomplete' = FALSE)
    BY <1>3 DEF ClearMatcher, ResetCoverage
  <2>2. Active' = {}
    BY <1>1, <2>1, ClearedTrace
  <2> QED BY <1>1, <2>1, <2>2 DEF AInv, InStep
<1>4. CASE UNCHANGED vars
  BY <1>1, <1>4 DEF vars, AInv, InStep, Active, now
<1> QED BY <1>2, <1>3, <1>4 DEF Next

(* The capacity given to a value transition is enough on any trace: no     *)
(* sample of it is refused (CoverageState::SampleValuePoint, which gives   *)
(* the matcher as many attempts as there are steps).                       *)
THEOREM TransitionsHaveRoom == Spec => []AdjacentNeverExhausts
<1>1. Init => AInv
  <2> SUFFICES ASSUME Init PROVE AInv
    OBVIOUS
  <2>1. Active = {} /\ ~incomplete
    BY EmptySeq DEF Init, Active
  <2> QED BY <2>1 DEF AInv, InStep
<1>2. AInv => AdjacentNeverExhausts
  BY DEF AInv, AdjacentNeverExhausts
<1> QED BY <1>1, <1>2, InitIInv, NextIInv, InitTyped, NextTyped, NextAInv, PTL DEF Spec

-----------------------------------------------------------------------------
(* Sequences.  The fates of the attempts are those of a recursion from the *)
(* last step to the first.                                                 *)
FateAt(tr, steps, fate, k) == [s \in 1..Len(tr) + 1 |-> Outcome(tr, steps, k, s, fate[k + 1])]

LEMMA FatesExist ==
  ASSUME NEW tr, NEW steps, Len(steps) \in Nat
  PROVE  \E fate : fate = [k \in 1..Len(steps) + 1 |-> FateAt(tr, steps, fate, k)]
<1> DEFINE m == Len(steps) + 1
           Works(d) == \E fate : fate = [k \in (m - d)..m |-> FateAt(tr, steps, fate, k)]
           Failing == {d \in Nat : ~Works(d)}
<1>1. ASSUME NEW fate, NEW other, NEW k \in Int, k < m => other[k + 1] = fate[k + 1], k <= m
      PROVE  FateAt(tr, steps, other, k) = FateAt(tr, steps, fate, k)
  <2>1. \A s : Outcome(tr, steps, k, s, other[k + 1]) = Outcome(tr, steps, k, s, fate[k + 1])
    BY <1>1 DEF Outcome
  <2> QED BY <2>1 DEF FateAt
<1>2. m \in Nat \ {0}
  OBVIOUS
<1> HIDE DEF m
<1>3. SUFFICES ASSUME Failing # {} PROVE FALSE
  <2>1. ASSUME Failing = {}
        PROVE  \E fate : fate = [k \in 1..m |-> FateAt(tr, steps, fate, k)]
    <3>1. m - 1 \in Nat /\ m - (m - 1) = 1
      BY <1>2
    <3>2. Works(m - 1)
      BY <2>1, <3>1
    <3> QED BY <3>1, <3>2
  <2> QED BY <2>1 DEF m
<1>4. PICK d \in Failing : \A e \in Failing : d <= e
  <2>1. Failing \subseteq Nat
    OBVIOUS
  <2> HIDE DEF Failing
  <2> QED BY <1>3, <2>1, LeastNumber
<1>5. d # 0
  <2> DEFINE none == [k \in (m - 0)..m |-> FateAt(tr, steps, << >>, k)]
  <2>1. ASSUME NEW k \in (m - 0)..m
        PROVE  FateAt(tr, steps, << >>, k) = FateAt(tr, steps, none, k)
    BY <1>1, <1>2
  <2>2. none = [k \in (m - 0)..m |-> FateAt(tr, steps, none, k)]
    BY <2>1
  <2>3. Works(0)
    <3> HIDE DEF none
    <3> QED BY <2>2
  <2> QED BY <2>3
<1>6. PICK fate : fate = [k \in (m - (d - 1))..m |-> FateAt(tr, steps, fate, k)]
  <2>1. d - 1 \in Nat /\ d - 1 \notin Failing
    BY <1>4, <1>5
  <2> QED BY <2>1
<1> DEFINE more == [k \in (m - d)..m |-> FateAt(tr, steps, fate, k)]
<1>7. more = [k \in (m - d)..m |-> FateAt(tr, steps, more, k)]
  <2>1. ASSUME NEW k \in (m - d)..m
        PROVE  FateAt(tr, steps, fate, k) = FateAt(tr, steps, more, k)
    <3>1. k \in Int /\ k <= m /\ d \in Nat
      BY <1>2
    <3>2. ASSUME k < m
          PROVE  more[k + 1] = fate[k + 1]
      <4>1. k + 1 \in (m - (d - 1))..m /\ k + 1 \in (m - d)..m
        BY <1>2, <3>1, <3>2
      <4>2. fate[k + 1] = FateAt(tr, steps, fate, k + 1)
        BY <1>6, <4>1
      <4> QED BY <4>1, <4>2
    <3> HIDE DEF more
    <3> QED BY <1>1, <3>1, <3>2
  <2> QED BY <2>1
<1> QED BY <1>4, <1>7

(* What the recursion gives to each step and sample.                       *)
LEMMA FatesAre ==
  ASSUME NEW tr \in Seq(Samples), NEW steps, Len(steps) \in Nat,
         NEW k \in 1..Len(steps) + 1, NEW s \in 1..Len(tr) + 1
  PROVE  Fates(tr, steps)[k][s] = Outcome(tr, steps, k, s, Fates(tr, steps)[k + 1])
<1> DEFINE fates == Fates(tr, steps)
<1>1. fates = [j \in 1..Len(steps) + 1 |-> FateAt(tr, steps, fates, j)]
  <2> DEFINE P(fate) == fate = [j \in 1..Len(steps) + 1 |-> FateAt(tr, steps, fate, j)]
  <2>1. \E fate : P(fate)
    BY FatesExist
  <2>2. fates = CHOOSE fate : P(fate)
    BY Zenon DEF Fates, FateAt
  <2> HIDE DEF P, fates
  <2>3. P(fates)
    BY <2>1, <2>2
  <2> QED BY <2>3 DEF P
<1> HIDE DEF fates
<1>2. fates[k] = FateAt(tr, steps, fates, k)
  BY <1>1
<1>3. fates[k][s] = Outcome(tr, steps, k, s, fates[k + 1])
  BY <1>2 DEF FateAt
<1> QED BY <1>3 DEF fates

LEMMA FirstIs ==
  ASSUME NEW S \in SUBSET Nat, S # {}
  PROVE  Min(S) \in S /\ \A x \in S : Min(S) <= x
BY LeastNumber DEF Min

(* How each kind of step is settled.                                       *)
LEMMA Settling ==
  ASSUME NEW tr, NEW step \in SequenceStep(Roots), NEW s, NEW t
  PROVE  LET satisfied == SatisfiedOn(tr, step, s, t)
             missed == MissedOn(tr, step, s, t)
             holds(u) == True(tr, step.root, u)
         IN  /\ satisfied \in BOOLEAN /\ missed \in BOOLEAN
             /\ step.kind = "Wait" => (satisfied <=> holds(t)) /\ ~missed
             /\ step.kind = "Next" => /\ satisfied <=> t = s /\ holds(t)
                                      /\ missed <=> t = s /\ ~holds(t)
             /\ step.kind = "Within" =>
                  /\ satisfied <=> t - s + 1 \in step.minimum..step.maximum /\ holds(t)
                  /\ missed <=> t - s + 1 > step.maximum
             /\ step.kind = "Hold" =>
                  /\ satisfied <=> \E first \in s..t : /\ first + step.cycles = t + 1
                                                      /\ \A u \in first..t : holds(u)
                  /\ ~missed
<1>1. step.kind \in {"Wait", "Next", "Within", "Hold"}
  BY DEF SequenceStep
<1>2. CASE step.kind = "Wait"
  BY <1>2 DEF SatisfiedOn, MissedOn, True
<1>3. CASE step.kind = "Next"
  BY <1>3 DEF SatisfiedOn, MissedOn, True
<1>4. CASE step.kind = "Within"
  BY <1>4 DEF SatisfiedOn, MissedOn, True
<1>5. CASE step.kind = "Hold"
  BY <1>5 DEF SatisfiedOn, MissedOn, True
<1> QED BY <1>1, <1>2, <1>3, <1>4, <1>5, Zenon

(* What is settled on the samples of a trace is not changed by another.    *)
LEMMA SettlesLonger ==
  ASSUME NEW tr \in Seq(Samples), NEW sample \in Samples,
         NEW step \in SequenceStep(Roots), NEW s \in Nat \ {0}
  PROVE  LET n == Len(tr)  more == Append(tr, sample) IN
         /\ \A t \in s..n : /\ SatisfiedOn(more, step, s, t) <=> SatisfiedOn(tr, step, s, t)
                            /\ MissedOn(more, step, s, t) <=> MissedOn(tr, step, s, t)
         /\ \A t : t \in SettlesOn(more, step, s) <=>
                    \/ t \in SettlesOn(tr, step, s)
                    \/ /\ t = n + 1 /\ s <= n + 1
                       /\ SatisfiedOn(more, step, s, t) \/ MissedOn(more, step, s, t)
<1> DEFINE n == Len(tr)
           more == Append(tr, sample)
<1>1. n \in Nat /\ Len(more) = n + 1 /\ \A t \in 1..n : more[t] = tr[t]
  BY Longer
<1> HIDE DEF n, more
<1>2. ASSUME NEW t \in s..n
      PROVE  /\ SatisfiedOn(more, step, s, t) <=> SatisfiedOn(tr, step, s, t)
             /\ MissedOn(more, step, s, t) <=> MissedOn(tr, step, s, t)
  <2>1. \A u \in s..t : True(more, step.root, u) <=> True(tr, step.root, u)
    BY <1>1 DEF True
  <2>2. t \in s..t /\ \A first \in s..t : \A u \in first..t : u \in s..t
    OBVIOUS
  <2>3. \A first \in s..t : (\A u \in first..t : True(more, step.root, u))
                              <=> (\A u \in first..t : True(tr, step.root, u))
    BY <2>1, <2>2
  <2>4. step.kind \in {"Wait", "Next", "Within", "Hold"}
    BY DEF SequenceStep
  <2>5. True(more, step.root, t) <=> True(tr, step.root, t)
    BY <2>1, <2>2
  <2>6. CASE step.kind = "Wait"
    BY <2>5, <2>6, Settling
  <2>7. CASE step.kind = "Next"
    BY <2>5, <2>7, Settling
  <2>8. CASE step.kind = "Within"
    BY <2>5, <2>8, Settling
  <2>9. CASE step.kind = "Hold"
    BY <2>3, <2>9, Settling
  <2> QED BY <2>4, <2>6, <2>7, <2>8, <2>9
<1>3. ASSUME NEW t
      PROVE  t \in SettlesOn(more, step, s) <=>
                 \/ t \in SettlesOn(tr, step, s)
                 \/ /\ t = n + 1 /\ s <= n + 1
                    /\ SatisfiedOn(more, step, s, t) \/ MissedOn(more, step, s, t)
  <2>1. t \in s..n + 1 <=> t \in s..n \/ (t = n + 1 /\ s <= n + 1)
    BY <1>1
  <2>2. t \in SettlesOn(more, step, s) <=>
          t \in s..n + 1 /\ (SatisfiedOn(more, step, s, t) \/ MissedOn(more, step, s, t))
    BY <1>1 DEF SettlesOn
  <2>3. t \in SettlesOn(tr, step, s) <=>
          t \in s..n /\ (SatisfiedOn(tr, step, s, t) \/ MissedOn(tr, step, s, t))
    BY DEF SettlesOn, n
  <2>4. ~(t \in s..n /\ t = n + 1)
    BY <1>1
  <2> QED BY <1>2, <2>1, <2>2, <2>3, <2>4
<1> QED BY <1>2, <1>3 DEF n, more

(* When a sample is added the attempts that had ended keep their fates, and *)
(* the fate of any other is that of the step it had reached.               *)
Grows(tr, more, steps, k, s) ==
  LET old == Fates(tr, steps)[k][s]
      new == Fates(more, steps)[k][s]
  IN  /\ old.how = "continues" =>
           /\ old.at = Len(tr) + 1 /\ old.step \in 1..Len(steps) /\ old.since \in 1..Len(tr) + 1
           /\ SettlesOn(tr, steps[old.step], old.since) = {}
           /\ new = Fates(more, steps)[old.step][old.since]
      /\ old.how # "continues" =>
           /\ old.how \in Outcomes /\ old.at \in 0..Len(tr) /\ new = old

LEMMA GrowsStep ==
  ASSUME NEW tr \in Seq(Samples), NEW sample \in Samples,
         NEW steps \in Seq(SequenceStep(Roots)), NEW k \in 1..Len(steps) + 1,
         k <= Len(steps) =>
           \A s \in 1..Len(tr) + 1 : Grows(tr, Append(tr, sample), steps, k + 1, s),
         NEW s \in 1..Len(tr) + 1
  PROVE  Grows(tr, Append(tr, sample), steps, k, s)
<1> DEFINE n == Len(tr)
           more == Append(tr, sample)
           old == Fates(tr, steps)[k][s]
           new == Fates(more, steps)[k][s]
           settles == SettlesOn(tr, steps[k], s)
<1>1. /\ n \in Nat /\ Len(more) = n + 1 /\ more \in Seq(Samples) /\ Len(steps) \in Nat
      /\ s \in Nat \ {0} /\ s <= n + 1
  BY Longer, LenProperties
<1>2. /\ old = Outcome(tr, steps, k, s, Fates(tr, steps)[k + 1])
      /\ new = Outcome(more, steps, k, s, Fates(more, steps)[k + 1])
  <2>1. s \in 1..Len(more) + 1
    BY <1>1
  <2> QED BY <1>1, <2>1, FatesAre, Zenon
<1>3. CASE k > Len(steps)
  <2>1. /\ old = [how |-> "completed", at |-> s - 1, step |-> k, since |-> s]
        /\ new = [how |-> "completed", at |-> s - 1, step |-> k, since |-> s]
    BY <1>2, <1>3 DEF Outcome
  <2>2. old.how = "completed" /\ old.at = s - 1 /\ new = old
    BY <2>1
  <2>3. s - 1 \in 0..n
    BY <1>1
  <2> QED BY <2>2, <2>3 DEF Grows, Outcomes
<1>4. CASE k <= Len(steps) /\ settles = {}
  <2>1. old = [how |-> "continues", at |-> n + 1, step |-> k, since |-> s]
    BY <1>1, <1>2, <1>4 DEF Outcome
  <2>2. old.how = "continues" /\ old.at = n + 1 /\ old.step = k /\ old.since = s
    BY <2>1
  <2> QED BY <1>1, <1>4, <2>2 DEF Grows
<1>5. CASE k <= Len(steps) /\ settles # {}
  <2> DEFINE step == steps[k]
             t == Min(settles)
             moreSettles == SettlesOn(more, step, s)
  <2>1. k \in 1..Len(steps) /\ step \in SequenceStep(Roots)
    BY <1>1, <1>5, ElementOfSeq
  <2>2. settles \in SUBSET Nat /\ \A u \in settles : u \in s..n
    BY <1>1 DEF SettlesOn
  <2>3. t \in settles /\ \A u \in settles : t <= u
    BY <1>5, <2>2, FirstIs
  <2>4. t \in s..n
    BY <2>2, <2>3
  <2>5. t \in moreSettles /\ \A u \in moreSettles : u \in settles \/ u = n + 1
    BY <1>1, <2>1, <2>3, SettlesLonger
  <2>6. \A u \in moreSettles : t <= u /\ u \in Nat
    BY <1>1, <2>2, <2>3, <2>4, <2>5
  <2>7. Min(moreSettles) = t
    <3>1. moreSettles \in SUBSET Nat /\ moreSettles # {}
      BY <2>5, <2>6
    <3>2. Min(moreSettles) \in moreSettles /\ \A u \in moreSettles : Min(moreSettles) <= u
      BY <3>1, FirstIs
    <3>3. Min(moreSettles) <= t /\ t <= Min(moreSettles) /\ Min(moreSettles) \in Nat /\ t \in Nat
      BY <2>5, <2>6, <3>2
    <3> QED BY <3>3
  <2>8. SatisfiedOn(more, step, s, t) <=> SatisfiedOn(tr, step, s, t)
    BY <1>1, <2>1, <2>4, SettlesLonger
  <2> DEFINE missed == [how |-> IF step.kind = "Next" THEN "failed" ELSE "expired",
                        at |-> t, step |-> k, since |-> s]
  <2> HIDE DEF t, moreSettles, settles
  <2>9. old = IF SatisfiedOn(tr, step, s, t) THEN Fates(tr, steps)[k + 1][t + 1] ELSE missed
    BY <1>1, <1>2, <1>5 DEF Outcome, settles, t
  <2>10. new = IF SatisfiedOn(more, step, s, t) THEN Fates(more, steps)[k + 1][t + 1] ELSE missed
    BY <1>1, <1>2, <2>1, <2>5, <2>7 DEF Outcome, moreSettles
  <2>11. CASE SatisfiedOn(tr, step, s, t)
    <3>1. old = Fates(tr, steps)[k + 1][t + 1] /\ new = Fates(more, steps)[k + 1][t + 1]
      BY <2>8, <2>9, <2>10, <2>11
    <3>2. t + 1 \in 1..n + 1
      BY <1>1, <2>4
    <3>3. Grows(tr, more, steps, k + 1, t + 1)
      BY <1>5, <3>2
    <3> QED BY <3>1, <3>3 DEF Grows
  <2>12. CASE ~SatisfiedOn(tr, step, s, t)
    <3>1. old = missed /\ new = missed
      BY <2>8, <2>9, <2>10, <2>12
    <3>2. missed.how \in {"failed", "expired"} /\ missed.at = t
      OBVIOUS
    <3>3. t \in 0..n
      BY <1>1, <2>4
    <3> HIDE DEF missed
    <3> QED BY <3>1, <3>2, <3>3 DEF Grows, Outcomes
  <2> QED BY <2>11, <2>12
<1> QED BY <1>1, <1>3, <1>4, <1>5

LEMMA FatesGrow ==
  ASSUME NEW tr \in Seq(Samples), NEW sample \in Samples,
         NEW steps \in Seq(SequenceStep(Roots))
  PROVE  \A k \in 1..Len(steps) + 1 : \A s \in 1..Len(tr) + 1 :
            Grows(tr, Append(tr, sample), steps, k, s)
<1> DEFINE m == Len(steps) + 1
           AllGrow(k) == \A s \in 1..Len(tr) + 1 : Grows(tr, Append(tr, sample), steps, k, s)
           Failing == {d \in Nat : d < m /\ ~AllGrow(m - d)}
<1>1. m \in Nat \ {0} /\ Len(steps) = m - 1
  BY LenProperties
<1> HIDE DEF m
<1>2. ASSUME NEW k \in 1..m, k < m => AllGrow(k + 1)
      PROVE  AllGrow(k)
  <2> TAKE s \in 1..Len(tr) + 1
  <2>1. k \in 1..Len(steps) + 1 /\ (k <= Len(steps) => AllGrow(k + 1))
    BY <1>1, <1>2 DEF m
  <2> QED BY <2>1, GrowsStep
<1> HIDE DEF AllGrow
<1>3. Failing = {}
  <2>1. SUFFICES ASSUME Failing # {} PROVE FALSE
    OBVIOUS
  <2>2. PICK d \in Failing : \A e \in Failing : d <= e
    <3>1. Failing \in SUBSET Nat
      OBVIOUS
    <3> HIDE DEF Failing
    <3> QED BY <2>1, <3>1, LeastNumber
  <2>3. d \in Nat /\ d < m /\ m - d \in 1..m /\ ~AllGrow(m - d)
    BY <1>1
  <2>4. ASSUME m - d < m
        PROVE  AllGrow(m - d + 1)
    <3>1. d - 1 \in Nat /\ d - 1 < d /\ d - 1 < m /\ m - (d - 1) = m - d + 1
      BY <1>1, <2>3, <2>4
    <3>2. d - 1 \notin Failing
      BY <2>2, <3>1
    <3> QED BY <3>1, <3>2
  <2> QED BY <1>2, <2>3, <2>4
<1>4. ASSUME NEW k \in 1..m
      PROVE  AllGrow(k)
  <2>1. m - k \in Nat /\ m - k < m /\ m - (m - k) = k
    BY <1>1
  <2> QED BY <1>3, <2>1
<1> QED BY <1>4 DEF m, AllGrow

(* What the latest sample makes of an attempt that has reached step k and  *)
(* looks at it since s.                                                    *)
Moved(tr, steps, k, s) ==
  LET now_ == Len(tr) IN
  IF SatisfiedOn(tr, steps[k], s, now_)
  THEN [how |-> IF k = Len(steps) THEN "completed" ELSE "continues",
        at  |-> IF k = Len(steps) THEN now_ ELSE now_ + 1, step |-> k + 1, since |-> now_ + 1]
  ELSE IF MissedOn(tr, steps[k], s, now_)
  THEN [how |-> IF steps[k].kind = "Next" THEN "failed" ELSE "expired",
        at  |-> now_, step |-> k, since |-> s]
  ELSE [how |-> "continues", at |-> now_ + 1, step |-> k, since |-> s]

LEMMA FateMoves ==
  ASSUME NEW tr \in Seq(Samples), NEW sample \in Samples,
         NEW steps \in Seq(SequenceStep(Roots)), NEW k \in 1..Len(steps),
         NEW s \in 1..Len(tr) + 1, SettlesOn(tr, steps[k], s) = {}
  PROVE  Fates(Append(tr, sample), steps)[k][s] = Moved(Append(tr, sample), steps, k, s)
<1> DEFINE n == Len(tr)
           more == Append(tr, sample)
           step == steps[k]
           new == Fates(more, steps)[k][s]
           settles == SettlesOn(more, step, s)
           satisfied == SatisfiedOn(more, step, s, n + 1)
           missed == MissedOn(more, step, s, n + 1)
<1>1. /\ n \in Nat /\ Len(more) = n + 1 /\ more \in Seq(Samples) /\ Len(steps) \in Nat
      /\ s \in Nat \ {0} /\ s <= n + 1 /\ s \in 1..(n + 1) + 1
      /\ k \in 1..Len(steps) + 1 /\ ~(k > Len(steps))
  BY Longer, LenProperties
<1>2. step \in SequenceStep(Roots) /\ satisfied \in BOOLEAN /\ missed \in BOOLEAN
  BY ElementOfSeq, Settling
<1> HIDE DEF n, more, step, satisfied, missed
<1>3. new = Outcome(more, steps, k, s, Fates(more, steps)[k + 1])
  <2>1. s \in 1..Len(more) + 1
    BY <1>1
  <2> QED BY <1>1, <2>1, FatesAre, Zenon
<1>4. \A t : t \in settles <=> t = n + 1 /\ (satisfied \/ missed)
  BY <1>1, <1>2, SettlesLonger DEF n, more, step, satisfied, missed
<1> DEFINE next == Fates(more, steps)[k + 1][(n + 1) + 1]
           lost == [how |-> IF step.kind = "Next" THEN "failed" ELSE "expired",
                    at |-> n + 1, step |-> k, since |-> s]
           stays == [how |-> "continues", at |-> (n + 1) + 1, step |-> k, since |-> s]
<1>5. new = IF satisfied THEN next ELSE IF missed THEN lost ELSE stays
  <2>1. CASE settles = {}
    <3>1. new = stays
      BY <1>1, <1>3, <2>1 DEF Outcome, step
    <3>2. ~satisfied /\ ~missed
      BY <1>4, <2>1
    <3> QED BY <3>1, <3>2
  <2>2. CASE settles # {}
    <3>1. settles \in SUBSET Nat /\ settles # {}
      BY <1>1, <1>4, <2>2
    <3>2. Min(settles) = n + 1 /\ (satisfied \/ missed)
      <4> HIDE DEF settles
      <4> QED BY <1>4, <3>1, FirstIs
    <3>3. new = IF satisfied THEN next ELSE lost
      <4>1. new = LET t == Min(settles) IN
                  IF SatisfiedOn(more, step, s, t) THEN Fates(more, steps)[k + 1][t + 1]
                  ELSE [how |-> IF step.kind = "Next" THEN "failed" ELSE "expired",
                        at |-> t, step |-> k, since |-> s]
        BY <1>1, <1>3, <2>2 DEF Outcome, step
      <4> HIDE DEF settles, new
      <4> QED BY <3>2, <4>1 DEF satisfied
    <3> QED BY <3>2, <3>3
  <2> QED BY <2>1, <2>2
<1>6. next = [how |-> IF k = Len(steps) THEN "completed" ELSE "continues",
              at  |-> IF k = Len(steps) THEN n + 1 ELSE (n + 1) + 1,
              step |-> k + 1, since |-> (n + 1) + 1]
  <2>1. k + 1 \in 1..Len(steps) + 1 /\ (n + 1) + 1 \in 1..(n + 1) + 1
    BY <1>1
  <2>2. next = Outcome(more, steps, k + 1, (n + 1) + 1, Fates(more, steps)[(k + 1) + 1])
    BY <1>1, <2>1, FatesAre
  <2>3. CASE k = Len(steps)
    <3>1. k + 1 > Len(steps) /\ ((n + 1) + 1) - 1 = n + 1
      BY <1>1, <2>3
    <3>2. next = [how |-> "completed", at |-> ((n + 1) + 1) - 1, step |-> k + 1,
                  since |-> (n + 1) + 1]
      BY <2>2, <3>1 DEF Outcome
    <3> QED BY <2>3, <3>1, <3>2
  <2>4. CASE k # Len(steps)
    <3>1. ~(k + 1 > Len(steps)) /\ \A t : t \notin (n + 1) + 1..n + 1
      BY <1>1, <2>4
    <3>2. SettlesOn(more, steps[k + 1], (n + 1) + 1) = {}
      BY <1>1, <3>1 DEF SettlesOn
    <3>3. next = [how |-> "continues", at |-> (n + 1) + 1, step |-> k + 1,
                  since |-> (n + 1) + 1]
      BY <1>1, <2>2, <3>1, <3>2 DEF Outcome
    <3> QED BY <2>4, <3>3
  <2> QED BY <2>3, <2>4
<1> HIDE DEF next
<1>7. new = Moved(more, steps, k, s)
  BY <1>1, <1>5, <1>6 DEF Moved, satisfied, missed, step
<1> QED BY <1>7 DEF more

(* The state of an attempt whose step has been looked at since sample s and *)
(* is still open: a Within step has counted these samples, a Hold step the *)
(* true ones at their end.                                                 *)
Held(tr, step, held, s) ==
  /\ held <= Len(tr) + 1 - s
  /\ \A u \in (Len(tr) + 1 - held)..Len(tr) : True(tr, step.root, u)
  /\ held # Len(tr) + 1 - s => ~True(tr, step.root, Len(tr) - held)

Counts(tr, step, state, s) ==
  /\ state \in PatternState
  /\ SettlesOn(tr, step, s) = {}
  /\ state.age = IF step.kind = "Within" THEN Len(tr) + 1 - s ELSE 0
  /\ IF step.kind = "Hold" THEN Held(tr, step, state.held, s) ELSE state.held = 0

LEMMA FreshCounts ==
  ASSUME NEW tr \in Seq(Samples), NEW step, NEW state \in PatternState,
         state.age = 0, state.held = 0
  PROVE  Counts(tr, step, state, Len(tr) + 1)
<1>1. Len(tr) \in Nat
  BY LenProperties
<1>2. SettlesOn(tr, step, Len(tr) + 1) = {}
  BY <1>1 DEF SettlesOn
<1>3. Held(tr, step, 0, Len(tr) + 1)
  BY <1>1 DEF Held
<1> QED BY <1>1, <1>2, <1>3 DEF Counts

(* A sample of a Hold step: the run of true samples grows or is broken.    *)
LEMMA RunLonger ==
  ASSUME NEW tr \in Seq(Samples), NEW sample \in Samples, NEW step, NEW held \in Nat,
         NEW s \in 1..Len(tr) + 1, Held(tr, step, held, s)
  PROVE  LET more == Append(tr, sample)
             after == IF step.root \in sample.holds THEN held + 1 ELSE 0
         IN  /\ Held(more, step, after, s)
             /\ \A cycles \in Nat \ {0} :
                  after >= cycles <=>
                    \E first \in s..Len(tr) + 1 :
                      /\ first + cycles = Len(tr) + 1 + 1
                      /\ \A u \in first..Len(tr) + 1 : True(more, step.root, u)
<1> DEFINE n == Len(tr)
           more == Append(tr, sample)
           after == IF step.root \in sample.holds THEN held + 1 ELSE 0
           T(u) == True(more, step.root, u)
<1>1. /\ n \in Nat /\ Len(more) = n + 1 /\ s \in Nat \ {0} /\ s <= n + 1
      /\ T(n + 1) <=> step.root \in sample.holds
      /\ \A u \in 1..n : T(u) <=> True(tr, step.root, u)
  BY Longer DEF True
<1>2. /\ held <= n + 1 - s /\ \A u \in (n + 1 - held)..n : T(u)
      /\ held # n + 1 - s => ~T(n - held)
  <2>1. /\ held <= n + 1 - s /\ \A u \in (n + 1 - held)..n : True(tr, step.root, u)
        /\ held # n + 1 - s => ~True(tr, step.root, n - held)
    BY DEF Held
  <2>2. \A u \in (n + 1 - held)..n : u \in 1..n
    BY <1>1, <2>1
  <2>3. held # n + 1 - s => n - held \in 1..n
    BY <1>1, <2>1
  <2> QED BY <1>1, <2>1, <2>2, <2>3
<1> HIDE DEF n, more, T
<1>3. /\ after \in Nat /\ after <= n + 2 - s /\ \A u \in (n + 2 - after)..n + 1 : T(u)
      /\ after # n + 2 - s => ~T(n + 1 - after)
  <2>1. CASE step.root \in sample.holds
    <3>1. \A u \in (n + 2 - after)..n + 1 : u \in (n + 1 - held)..n \/ u = n + 1
      BY <1>1, <2>1
    <3>2. after = held + 1 /\ n + 1 - after = n - held /\ n + 2 - after = n + 1 - held
      BY <1>1, <2>1
    <3> HIDE DEF after
    <3>3. after \in Nat /\ after <= n + 2 - s /\ (after # n + 2 - s => held # n + 1 - s)
      BY <1>1, <1>2, <3>2
    <3>4. \A u \in (n + 2 - after)..n + 1 : T(u)
      BY <1>1, <1>2, <2>1, <3>1
    <3> QED BY <1>2, <3>2, <3>3, <3>4
  <2>2. CASE step.root \notin sample.holds
    <3>1. after = 0 /\ \A u : u \notin (n + 2 - 0)..n + 1
      BY <1>1, <2>2
    <3> QED BY <1>1, <2>2, <3>1
  <2> QED BY <2>1, <2>2
<1> HIDE DEF after
<1>4. Held(more, step, after, s)
  <2>1. Len(more) + 1 = n + 2
    BY <1>1
  <2> QED BY <1>1, <1>3, <2>1 DEF Held, T
<1>5. ASSUME NEW cycles \in Nat \ {0}
      PROVE  after >= cycles <=> \E first \in s..n + 1 : /\ first + cycles = n + 1 + 1
                                                         /\ \A u \in first..n + 1 : T(u)
  <2>1. ASSUME after >= cycles
        PROVE  \E first \in s..n + 1 : /\ first + cycles = n + 1 + 1
                                       /\ \A u \in first..n + 1 : T(u)
    <3> DEFINE first == n + 2 - cycles
    <3>1. first \in s..n + 1 /\ first + cycles = n + 1 + 1
      <4>1. after <= n + 2 - s /\ after \in Nat
        BY <1>3
      <4> QED BY <1>1, <2>1, <4>1
    <3>2. \A u \in first..n + 1 : u \in (n + 2 - after)..n + 1
      BY <1>1, <1>3, <2>1
    <3>3. \A u \in first..n + 1 : T(u)
      BY <1>3, <3>2
    <3> QED BY <3>1, <3>3
  <2>2. ASSUME NEW first \in s..n + 1, first + cycles = n + 1 + 1,
               \A u \in first..n + 1 : T(u), ~(after >= cycles)
        PROVE  FALSE
    <3>1. n + 1 - after \in first..n + 1 /\ after # n + 2 - s
      BY <1>1, <1>3, <2>2
    <3> QED BY <1>3, <2>2, <3>1
  <2> QED BY <2>1, <2>2
<1> QED BY <1>4, <1>5 DEF n, more, after, T

(* The executor settles a step on the sample that the whole trace says, and *)
(* in the way it says, and keeps its count otherwise.                      *)
LEMMA StepMeets ==
  ASSUME NEW tr \in Seq(Samples), NEW sample \in Samples,
         NEW step \in SequenceStep(Roots), ValidStep(step),
         NEW s \in 1..Len(tr) + 1, NEW state, Counts(tr, step, state, s)
  PROVE  LET more == Append(tr, sample)
             satisfied == SatisfiedOn(more, step, s, Len(tr) + 1)
             missed == MissedOn(more, step, s, Len(tr) + 1)
             holds == sample.holds
         IN  /\ IsDone(step, state, holds) <=> satisfied
             /\ Breaks(step, state, holds) <=> missed
             /\ IsLate(step, state, holds) <=> missed /\ step.kind = "Within"
             /\ ~(satisfied /\ missed)
             /\ ~satisfied /\ ~missed => Counts(more, step, Counted(step, state, holds), s)
<1> DEFINE n == Len(tr)
           more == Append(tr, sample)
           satisfied == SatisfiedOn(more, step, s, n + 1)
           missed == MissedOn(more, step, s, n + 1)
           holds == sample.holds
           counted == Counted(step, state, holds)
           done == IsDone(step, state, holds)
           fails == Breaks(step, state, holds)
           late == IsLate(step, state, holds)
           now_ == step.root \in holds
<1>1. /\ n \in Nat /\ Len(more) = n + 1 /\ s \in Nat \ {0} /\ s <= n + 1
      /\ True(more, step.root, n + 1) <=> now_
  BY Longer DEF True
<1>2. /\ step.kind \in {"Wait", "Next", "Within", "Hold"}
      /\ step.minimum \in Nat /\ step.maximum \in Nat /\ step.cycles \in Nat
  BY DEF SequenceStep
<1>3. /\ state \in PatternState /\ SettlesOn(tr, step, s) = {}
      /\ state.age = IF step.kind = "Within" THEN n + 1 - s ELSE 0
      /\ IF step.kind = "Hold" THEN Held(tr, step, state.held, s) ELSE state.held = 0
  BY DEF Counts
<1>4. /\ counted = [index |-> state.index, fsm |-> state.fsm,
                    age  |-> IF step.kind = "Within" THEN state.age + 1 ELSE state.age,
                    held |-> IF step.kind = "Hold" THEN IF now_ THEN state.held + 1 ELSE 0
                             ELSE state.held]
      /\ counted \in PatternState
      /\ state.age \in Nat /\ state.held \in Nat
  <2>1. state.index \in Nat /\ state.fsm \in Nat /\ state.age \in Nat /\ state.held \in Nat
    BY <1>3 DEF PatternState
  <2> QED BY <1>3, <2>1, CountedIs DEF PatternState
<1>5. /\ counted.age = IF step.kind = "Within" THEN state.age + 1 ELSE state.age
      /\ counted.held = IF step.kind = "Hold" THEN IF now_ THEN state.held + 1 ELSE 0
                        ELSE state.held
  BY <1>4
<1> HIDE DEF n, more, holds, counted
<1>6. /\ fails <=> \/ step.kind = "Within" /\ counted.age > step.maximum
                   \/ step.kind = "Next" /\ ~now_
      /\ late <=> step.kind = "Within" /\ counted.age > step.maximum
  BY DEF Breaks, IsLate, StepFails, StepExpires, counted, holds
<1>7. ~satisfied /\ ~missed => SettlesOn(more, step, s) = {}
  BY <1>1, <1>3, SettlesLonger DEF n, more
<1>8. CASE step.kind = "Wait"
  <2>1. /\ satisfied <=> now_
        /\ ~missed
    BY <1>1, <1>8, Settling
  <2>2. done <=> now_
    BY <1>6, <1>8 DEF IsDone, StepCompletes, holds
  <2>3. ~satisfied => Counts(more, step, counted, s)
    BY <1>3, <1>4, <1>5, <1>7, <1>8, <2>1 DEF Counts
  <2> QED BY <1>6, <1>8, <2>1, <2>2, <2>3 DEF n, more, holds, counted
<1>9. CASE step.kind = "Next"
  <2>1. s = n + 1
    <3>1. SUFFICES ASSUME s # n + 1 PROVE FALSE
      OBVIOUS
    <3>2. s \in s..n /\ (SatisfiedOn(tr, step, s, s) \/ MissedOn(tr, step, s, s))
      BY <1>1, <1>9, <3>1, Settling
    <3> QED BY <1>3, <3>2 DEF SettlesOn, n
  <2>2. (satisfied <=> now_) /\ (missed <=> ~now_)
    BY <1>1, <1>9, <2>1, Settling
  <2>3. done <=> now_
    BY <1>6, <1>9 DEF IsDone, StepCompletes, holds
  <2> QED BY <1>6, <1>9, <2>2, <2>3 DEF n, more, holds, counted
<1>10. CASE step.kind = "Within"
  <2>1. counted.age = n + 1 - s + 1 /\ counted.age \in Nat
    BY <1>1, <1>3, <1>5, <1>10
  <2>2. /\ satisfied <=> counted.age \in step.minimum..step.maximum /\ now_
        /\ missed <=> counted.age > step.maximum
    <3>1. (n + 1) - s + 1 = counted.age
      BY <1>1, <2>1
    <3>2. /\ satisfied <=> (n + 1) - s + 1 \in step.minimum..step.maximum
                           /\ True(more, step.root, n + 1)
          /\ missed <=> (n + 1) - s + 1 > step.maximum
      BY <1>10, Settling, Zenon
    <3> HIDE DEF satisfied, missed
    <3> QED BY <1>1, <3>1, <3>2
  <2>3. ~(counted.age \in step.minimum..step.maximum /\ counted.age > step.maximum)
    BY <1>2, <2>1
  <2>4. done <=> ~fails /\ counted.age \in step.minimum..step.maximum /\ now_
    BY <1>10 DEF IsDone, StepCompletes, holds, counted
  <2>5. ~satisfied /\ ~missed => Counts(more, step, counted, s)
    BY <1>1, <1>3, <1>4, <1>5, <1>7, <1>10, <2>1 DEF Counts
  <2> QED BY <1>6, <1>10, <2>2, <2>3, <2>4, <2>5 DEF n, more, holds, counted
<1>11. CASE step.kind = "Hold"
  <2> DEFINE after == IF now_ THEN state.held + 1 ELSE 0
  <2>1. step.cycles \in Nat \ {0}
    BY <1>2, <1>11 DEF ValidStep
  <2>2. Held(tr, step, state.held, s) /\ counted.held = after
    BY <1>3, <1>5, <1>11
  <2>3. /\ Held(more, step, after, s)
        /\ after >= step.cycles <=>
             \E first \in s..n + 1 : /\ first + step.cycles = n + 1 + 1
                                     /\ \A u \in first..n + 1 : True(more, step.root, u)
    BY <1>4, <2>1, <2>2, RunLonger DEF n, more, holds
  <2>4. (satisfied <=> after >= step.cycles) /\ ~missed
    BY <1>11, <2>3, Settling
  <2>5. done <=> after >= step.cycles
    BY <1>6, <1>11, <2>2 DEF IsDone, StepCompletes, holds, counted
  <2>6. ~satisfied => Counts(more, step, counted, s)
    BY <1>3, <1>4, <1>5, <1>7, <1>11, <2>2, <2>3, <2>4 DEF Counts
  <2> QED BY <1>6, <1>11, <2>4, <2>5, <2>6 DEF n, more, holds, counted
<1> QED BY <1>2, <1>8, <1>9, <1>10, <1>11

(* The attempts begun on the first samples of a trace.                     *)
NextBegun(tr, c, fate, begun, t) ==
  IF t = 0 THEN {}
  ELSE begun[t - 1] \cup (IF BeginsOn(tr, c, fate, begun[t - 1], t) THEN {t} ELSE {})

BegunUpTo(tr, c, fate, begun, n) == [t \in 0..n |-> NextBegun(tr, c, fate, begun, t)]

LEMMA BegunExists ==
  ASSUME NEW tr, NEW c, NEW fate, NEW n \in Nat
  PROVE  \E begun : begun = BegunUpTo(tr, c, fate, begun, n)
<1> DEFINE Works(m) == \E begun : begun = [t \in 0..m |-> NextBegun(tr, c, fate, begun, t)]
           Failing == {m \in Nat : ~Works(m)}
<1>1. SUFFICES ASSUME Failing # {} PROVE FALSE
  BY DEF BegunUpTo
<1>2. PICK m \in Failing : \A k \in Failing : m <= k
  <2>1. Failing \in SUBSET Nat
    OBVIOUS
  <2> HIDE DEF Failing
  <2> QED BY <1>1, <2>1, LeastNumber
<1>3. m # 0
  <2> DEFINE zero == [t \in 0..0 |-> {}]
  <2>1. zero = [t \in 0..0 |-> NextBegun(tr, c, fate, zero, t)]
    BY DEF NextBegun
  <2>2. Works(0)
    BY <2>1
  <2> QED BY <2>2
<1>4. PICK begun : begun = [t \in 0..m - 1 |-> NextBegun(tr, c, fate, begun, t)]
  <2>1. m - 1 \in Nat /\ m - 1 \notin Failing
    BY <1>2, <1>3
  <2> QED BY <2>1
<1> DEFINE more == [t \in 0..m |-> NextBegun(tr, c, fate, begun, t)]
<1>5. more = [t \in 0..m |-> NextBegun(tr, c, fate, more, t)]
  <2>1. \A t \in 0..m - 1 : more[t] = begun[t]
    BY <1>4
  <2>2. ASSUME NEW t \in 0..m
        PROVE  NextBegun(tr, c, fate, begun, t) = NextBegun(tr, c, fate, more, t)
    <3>1. t # 0 => more[t - 1] = begun[t - 1]
      <4>1. t # 0 => t - 1 \in 0..m - 1
        OBVIOUS
      <4> QED BY <4>1, <2>1
    <3> HIDE DEF more
    <3> QED BY <3>1 DEF NextBegun
  <2> QED BY <2>2
<1> QED BY <1>5 DEF BegunUpTo

LEMMA BegunIs ==
  ASSUME NEW tr \in Seq(Samples), NEW c, NEW fate, NEW t \in 0..Len(tr)
  PROVE  Begun(tr, c, fate)[t] = NextBegun(tr, c, fate, Begun(tr, c, fate), t)
<1> DEFINE n == Len(tr)
           P(begun) == begun = BegunUpTo(tr, c, fate, begun, n)
           begun_ == Begun(tr, c, fate)
<1>1. P(begun_)
  <2>1. \E begun : P(begun)
    <3>1. n \in Nat
      BY LenProperties
    <3> HIDE DEF n
    <3> QED BY <3>1, BegunExists
  <2>2. begun_ = CHOOSE begun : P(begun)
    BY Zenon DEF Begun, NextBegun, BegunUpTo
  <2> HIDE DEF P, begun_
  <2> QED BY <2>1, <2>2
<1> HIDE DEF begun_
<1>2. begun_[t] = NextBegun(tr, c, fate, begun_, t)
  BY <1>1 DEF BegunUpTo
<1> QED BY <1>2 DEF begun_

LEMMA BegunWithin ==
  ASSUME NEW tr \in Seq(Samples), NEW c, NEW fate
  PROVE  \A t \in 0..Len(tr) : Begun(tr, c, fate)[t] \subseteq 1..t
<1> DEFINE n == Len(tr)
           begun == Begun(tr, c, fate)
           Failing == {t \in 0..n : ~(begun[t] \subseteq 1..t)}
<1>1. n \in Nat
  BY LenProperties
<1> HIDE DEF n
<1>2. SUFFICES ASSUME Failing # {} PROVE FALSE
  BY DEF n
<1>3. PICK t \in Failing : \A u \in Failing : t <= u
  <2>1. Failing \in SUBSET Nat
    BY <1>1
  <2> HIDE DEF Failing
  <2> QED BY <1>2, <2>1, LeastNumber
<1>4. begun[t] = NextBegun(tr, c, fate, begun, t)
  BY <1>3, BegunIs DEF n
<1>5. t \in 1..n
  BY <1>1, <1>3, <1>4 DEF NextBegun
<1>6. begun[t] \subseteq begun[t - 1] \cup {t}
  BY <1>4, <1>5 DEF NextBegun
<1>7. begun[t - 1] \subseteq 1..t - 1
  <2>1. t - 1 \in 0..n /\ t - 1 \notin Failing
    BY <1>1, <1>3, <1>5
  <2> QED BY <2>1
<1>8. \A u : u \in 1..t - 1 \/ u = t => u \in 1..t
  BY <1>1, <1>5
<1>9. begun[t] \subseteq 1..t
  BY <1>6, <1>7, <1>8
<1> QED BY <1>3, <1>9

(* A longer trace begins the same attempts on the samples before, if it    *)
(* ends none of them on an earlier sample than before.                     *)
Alike(old, new, n) ==
  \A s, t \in 1..n : /\ new[s].at < t <=> old[s].at < t
                     /\ new[s].at > t <=> old[s].at > t

LEMMA BegunLonger ==
  ASSUME NEW tr \in Seq(Samples), NEW sample \in Samples, NEW c, NEW old, NEW new,
         Alike(old, new, Len(tr))
  PROVE  \A t \in 0..Len(tr) : Begun(Append(tr, sample), c, new)[t] = Begun(tr, c, old)[t]
<1> DEFINE n == Len(tr)
           more == Append(tr, sample)
           before == Begun(tr, c, old)
           after == Begun(more, c, new)
           Failing == {t \in 0..n : after[t] # before[t]}
<1>1. /\ n \in Nat /\ Len(more) = n + 1 /\ more \in Seq(Samples)
      /\ \A t \in 1..n : more[t] = tr[t]
  BY Longer
<1>2. /\ \A t \in 0..n : before[t] = NextBegun(tr, c, old, before, t)
      /\ \A t \in 0..Len(more) : after[t] = NextBegun(more, c, new, after, t)
  BY <1>1, BegunIs, Zenon
<1>3. \A t \in 0..n : before[t] \subseteq 1..t
  BY BegunWithin
<1>4. Alike(old, new, n)
  OBVIOUS
<1> HIDE DEF n, more, before, after
<1>5. SUFFICES ASSUME Failing # {} PROVE FALSE
  BY DEF n, more, before, after
<1>6. PICK t \in Failing : \A u \in Failing : t <= u
  <2>1. Failing \in SUBSET Nat
    BY <1>1
  <2> HIDE DEF Failing
  <2> QED BY <1>5, <2>1, LeastNumber
<1>7. /\ t \in 1..n /\ before[t] = NextBegun(tr, c, old, before, t)
      /\ after[t] = NextBegun(more, c, new, after, t)
  <2>1. t \in 0..n /\ t \in 0..Len(more) /\ before[t] # after[t]
    BY <1>1, <1>6
  <2>2. before[t] = NextBegun(tr, c, old, before, t)
        /\ after[t] = NextBegun(more, c, new, after, t)
    BY <1>2, <2>1
  <2>3. t # 0
    BY <2>1, <2>2 DEF NextBegun
  <2> QED BY <1>1, <2>1, <2>2, <2>3
<1> DEFINE earlier == before[t - 1]
<1>8. after[t - 1] = earlier /\ earlier \subseteq 1..n
  <2>1. t - 1 \in 0..n /\ t - 1 \notin Failing
    BY <1>1, <1>6, <1>7
  <2>2. 1..t - 1 \subseteq 1..n
    BY <1>1, <1>7
  <2> QED BY <1>3, <2>1, <2>2
<1> HIDE DEF earlier
<1>9. BeginsOn(more, c, new, earlier, t) <=> BeginsOn(tr, c, old, earlier, t)
  <2>1. CanBegin(more, c.program.steps[1], t) = CanBegin(tr, c.program.steps[1], t)
    BY <1>1, <1>7 DEF CanBegin, True
  <2>2. \A s \in earlier : new[s].at < t <=> old[s].at < t
    BY <1>4, <1>7, <1>8 DEF Alike
  <2>3. {s \in earlier : new[s].at > t} = {s \in earlier : old[s].at > t}
    BY <1>4, <1>7, <1>8 DEF Alike
  <2> QED BY <2>1, <2>2, <2>3 DEF BeginsOn
<1>10. after[t] = before[t]
  BY <1>7, <1>8, <1>9 DEF earlier, NextBegun
<1> QED BY <1>6, <1>10

LEMMA StartsLonger ==
  ASSUME NEW tr \in Seq(Samples), NEW sample \in Samples, NEW c, NEW old, NEW new,
         Alike(old, new, Len(tr))
  PROVE  LET before == ReferenceStarts(tr, c, old)
             more == Append(tr, sample)
             n == Len(tr)
         IN  /\ before \subseteq 1..n
             /\ ReferenceStarts(more, c, new) =
                  before \cup (IF BeginsOn(more, c, new, before, n + 1) THEN {n + 1} ELSE {})
<1> DEFINE n == Len(tr)
           more == Append(tr, sample)
<1>1. /\ n \in Nat /\ Len(more) = n + 1 /\ more \in Seq(Samples)
  BY Longer
<1>2. n \in 0..n /\ n + 1 \in 1..Len(more) /\ (n + 1) - 1 = n
  BY <1>1
<1>3. Begun(more, c, new)[n] = Begun(tr, c, old)[n] /\ Begun(tr, c, old)[n] \subseteq 1..n
  BY <1>2, BegunLonger, BegunWithin
<1>4. Begun(more, c, new)[n + 1] = NextBegun(more, c, new, Begun(more, c, new), n + 1)
  <2>1. n + 1 \in 0..Len(more)
    BY <1>1
  <2> QED BY <1>1, <2>1, BegunIs, Zenon
<1>5. n + 1 # 0
  BY <1>1
<1> QED BY <1>1, <1>2, <1>3, <1>4, <1>5 DEF ReferenceStarts, NextBegun

(* One sample of one attempt: it ends, or goes on from step to step, as the *)
(* longer trace says.                                                      *)
LEMMA AttemptMoves ==
  ASSUME NEW tr \in Seq(Samples), NEW sample \in Samples,
         NEW steps \in Seq(SequenceStep(Roots)), \A k \in 1..Len(steps) : ValidStep(steps[k]),
         NEW k \in 1..Len(steps), NEW s \in 1..Len(tr) + 1, NEW state,
         Counts(tr, steps[k], state, s), state.index + 1 = k
  PROVE  LET more == Append(tr, sample)
             r == AdvanceSequence(steps, state, sample.holds)
             w == Fates(more, steps)[k][s]
         IN  /\ w.how = HowEnds(r) /\ (r.completed <=> w.how = "completed")
             /\ w.how # "continues" => w.at = Len(tr) + 1
             /\ w.how = "continues" => /\ w.at = Len(tr) + 2 /\ w.step = r.state.index + 1
                                       /\ Counts(more, steps[w.step], r.state, w.since)
             /\ w.how \in {"failed", "expired"} => r.state = AtStep(0, state)
<1> DEFINE n == Len(tr)
           more == Append(tr, sample)
           step == steps[k]
           holds == sample.holds
           r == AdvanceSequence(steps, state, holds)
           w == Fates(more, steps)[k][s]
           satisfied == SatisfiedOn(more, step, s, n + 1)
           missed == MissedOn(more, step, s, n + 1)
           last == k = Len(steps)
           next == steps[k + 1]
           ends == IF step.kind = "Next" THEN "failed" ELSE "expired"
<1>1. /\ n \in Nat /\ Len(more) = n + 1 /\ more \in Seq(Samples) /\ Len(steps) \in Nat
      /\ k \in Nat \ {0}
  BY Longer, LenProperties
<1>2. step \in SequenceStep(Roots) /\ ValidStep(step)
  BY ElementOfSeq
<1>3. state \in PatternState /\ SettlesOn(tr, step, s) = {}
  BY DEF Counts
<1>4. /\ IsDone(step, state, holds) <=> satisfied
      /\ Breaks(step, state, holds) <=> missed
      /\ IsLate(step, state, holds) <=> missed /\ step.kind = "Within"
      /\ ~(satisfied /\ missed)
      /\ ~satisfied /\ ~missed => Counts(more, step, Counted(step, state, holds), s)
  BY <1>2, StepMeets
<1>5. /\ r.failed <=> Breaks(step, state, holds)
      /\ r.expired <=> IsLate(step, state, holds)
      /\ r.completed <=> IsDone(step, state, holds) /\ last
      /\ Breaks(step, state, holds) => r.state = AtStep(0, state)
      /\ IsDone(step, state, holds) => r.state = AtStep(IF last THEN 0 ELSE k, state)
      /\ ~Breaks(step, state, holds) /\ ~IsDone(step, state, holds) =>
           r.state = Counted(step, state, holds)
  <2>1. /\ r.failed <=> Breaks(steps[state.index + 1], state, holds)
        /\ r.expired <=> IsLate(steps[state.index + 1], state, holds)
        /\ r.completed <=> /\ IsDone(steps[state.index + 1], state, holds)
                           /\ state.index + 1 = Len(steps)
        /\ Breaks(steps[state.index + 1], state, holds) => r.state = AtStep(0, state)
        /\ IsDone(steps[state.index + 1], state, holds) =>
             r.state = AtStep(IF state.index + 1 = Len(steps) THEN 0 ELSE state.index + 1, state)
        /\ ~Breaks(steps[state.index + 1], state, holds)
           /\ ~IsDone(steps[state.index + 1], state, holds) =>
             r.state = Counted(steps[state.index + 1], state, holds)
    BY <1>3, SequenceResult, Zenon
  <2>2. state.index + 1 = k
    OBVIOUS
  <2> QED BY <2>1, <2>2, Zenon
<1>6. w = Moved(more, steps, k, s)
  BY <1>3, FateMoves
<1>7. /\ satisfied /\ last => w.how = "completed" /\ w.at = n + 1
      /\ satisfied /\ ~last =>
           w.how = "continues" /\ w.at = n + 2 /\ w.step = k + 1 /\ w.since = n + 2
      /\ missed => w.how = ends /\ w.at = n + 1
      /\ ~satisfied /\ ~missed =>
           w.how = "continues" /\ w.at = n + 2 /\ w.step = k /\ w.since = s
  <2>1. w = IF satisfied
            THEN [how |-> IF last THEN "completed" ELSE "continues",
                  at  |-> IF last THEN n + 1 ELSE n + 2, step |-> k + 1, since |-> n + 2]
            ELSE IF missed THEN [how |-> ends, at |-> n + 1, step |-> k, since |-> s]
            ELSE [how |-> "continues", at |-> n + 2, step |-> k, since |-> s]
    BY <1>1, <1>6 DEF Moved
  <2> HIDE DEF w, satisfied, missed, last, ends
  <2> QED BY <1>4, <2>1
<1>8. missed => step.kind \in {"Next", "Within"}
  BY <1>2, Settling DEF SequenceStep
<1> HIDE DEF n, more, step, holds, r, w, satisfied, missed
<1>9. CASE missed
  <2>1. r.failed /\ ~r.completed /\ (r.expired <=> step.kind = "Within")
        /\ r.state = AtStep(0, state)
    BY <1>4, <1>5, <1>9
  <2>2. HowEnds(r) = ends
    BY <1>8, <1>9, <2>1 DEF HowEnds
  <2>3. w.how = ends /\ w.at = n + 1
    BY <1>7, <1>9
  <2> QED BY <1>1, <2>1, <2>2, <2>3 DEF n, more, holds, r, w
<1>10. CASE satisfied /\ last
  <2>1. r.completed /\ HowEnds(r) = "completed"
    BY <1>4, <1>5, <1>10 DEF HowEnds
  <2>2. w.how = "completed" /\ w.at = n + 1
    BY <1>7, <1>10
  <2> QED BY <2>1, <2>2 DEF n, more, holds, r, w
<1>11. CASE satisfied /\ ~last
  <2>1. ~r.completed /\ ~r.failed /\ ~r.expired /\ r.state = AtStep(k, state)
    BY <1>4, <1>5, <1>11
  <2>2. HowEnds(r) = "continues"
    BY <2>1 DEF HowEnds
  <2>3. w.how = "continues" /\ w.at = n + 2 /\ w.step = k + 1 /\ w.since = n + 2
    BY <1>7, <1>11
  <2>4. r.state \in PatternState /\ r.state.index = k /\ r.state.age = 0 /\ r.state.held = 0
    BY <1>1, <1>3, <2>1 DEF AtStep, PatternState
  <2>5. Counts(more, next, r.state, n + 2)
    <3>1. n + 2 = Len(more) + 1
      BY <1>1
    <3> HIDE DEF next
    <3> QED BY <1>1, <2>4, <3>1, FreshCounts
  <2> QED BY <2>1, <2>2, <2>3, <2>4, <2>5 DEF n, more, holds, r, w
<1>12. CASE ~satisfied /\ ~missed
  <2>1. ~r.completed /\ ~r.failed /\ ~r.expired /\ r.state = Counted(step, state, holds)
    BY <1>4, <1>5, <1>12
  <2>2. HowEnds(r) = "continues"
    BY <2>1 DEF HowEnds
  <2>3. w.how = "continues" /\ w.at = n + 2 /\ w.step = k /\ w.since = s
    BY <1>7, <1>12
  <2>4. r.state.index + 1 = k
    <3>1. Counted(step, state, holds).index = state.index
      BY <1>3, CountedFields
    <3> QED BY <2>1, <3>1
  <2>5. Counts(more, step, r.state, s)
    BY <1>4, <1>12, <2>1
  <2> QED BY <2>1, <2>2, <2>3, <2>4, <2>5 DEF n, more, step, holds, r, w
<1> QED BY <1>9, <1>10, <1>11, <1>12

(* A new attempt makes progress exactly when the trace lets one begin.     *)
LEMMA CandidateBegins ==
  ASSUME Program.kind = "Sequence", NEW steps, Program.steps = steps, steps[1] \in SequenceStep(Roots),
         ValidStep(steps[1]), Len(steps) \in Nat \ {0}, NEW tr \in Seq(Samples), NEW sample \in Samples
  PROVE  Candidate(sample.holds).completed \/ HasLeft(Candidate(sample.holds).state)
           <=> CanBegin(Append(tr, sample), steps[1], Len(tr) + 1)
<1> DEFINE step == steps[1]
           state == StartState(Program)
           holds == sample.holds
           r == Candidate(holds)
           last == 1 = Len(steps)
           now_ == step.root \in holds
           counted == Counted(step, state, holds)
           Left(x) == x.index # 0 \/ x.age # 0 \/ x.held # 0
<1>1. state = [index |-> 0, age |-> 0, held |-> 0, fsm |-> 0] /\ state.index + 1 = 1
  BY DEF StartState
<1> state \in PatternState
  BY <1>1 DEF PatternState
<1>2. r = AdvanceSequence(steps, state, holds)
  BY DEF Candidate, Advance
<1>3. /\ r.completed <=> IsDone(step, state, holds) /\ last
      /\ Breaks(step, state, holds) => r.state = AtStep(0, state)
      /\ IsDone(step, state, holds) => r.state = AtStep(IF last THEN 0 ELSE 1, state)
      /\ ~Breaks(step, state, holds) /\ ~IsDone(step, state, holds) => r.state = counted
  <2> HIDE DEF state, r, holds
  <2>1. /\ r.completed <=> /\ IsDone(steps[state.index + 1], state, holds)
                           /\ state.index + 1 = Len(steps)
        /\ Breaks(steps[state.index + 1], state, holds) => r.state = AtStep(0, state)
        /\ IsDone(steps[state.index + 1], state, holds) =>
             r.state = AtStep(IF state.index + 1 = Len(steps) THEN 0 ELSE state.index + 1, state)
        /\ ~Breaks(steps[state.index + 1], state, holds)
           /\ ~IsDone(steps[state.index + 1], state, holds) =>
             r.state = Counted(steps[state.index + 1], state, holds)
    BY <1>2, SequenceResult, Zenon
  <2> QED BY <1>1, <2>1, Zenon
<1>4. HasLeft(r.state) <=> Left(r.state)
  BY DEF HasLeft
<1>5. ~Left(AtStep(0, state)) /\ Left(AtStep(1, state))
  BY DEF AtStep
<1>6. counted = [index |-> 0, fsm |-> 0,
                 age  |-> IF step.kind = "Within" THEN 0 + 1 ELSE 0,
                 held |-> IF step.kind = "Hold" THEN IF now_ THEN 0 + 1 ELSE 0 ELSE 0]
  BY <1>1, CountedIs
<1>7. /\ counted.age = IF step.kind = "Within" THEN 1 ELSE 0
      /\ counted.held = IF step.kind = "Hold" /\ now_ THEN 1 ELSE 0
      /\ counted.index = 0
  BY <1>6
<1>8. /\ step.kind \in {"Wait", "Next", "Within", "Hold"}
      /\ step.minimum \in Nat /\ step.maximum \in Nat /\ step.cycles \in Nat
  BY DEF SequenceStep
<1> DEFINE fails == Breaks(step, state, holds)
           done == IsDone(step, state, holds)
<1> HIDE DEF counted, state
<1>9. r.completed \/ Left(r.state) <=> done \/ (~fails /\ ~done /\ Left(counted))
  <2>1. CASE done
    <3>1. r.completed \/ r.state = AtStep(1, state)
      BY <1>3, <2>1
    <3> HIDE DEF Left
    <3> QED BY <1>5, <2>1, <3>1
  <2>2. CASE ~done /\ fails
    <3> HIDE DEF Left
    <3> QED BY <1>3, <1>5, <2>2
  <2>3. CASE ~done /\ ~fails
    <3> HIDE DEF Left
    <3> QED BY <1>3, <2>3
  <2> QED BY <2>1, <2>2, <2>3
<1>10. Left(counted) <=> step.kind = "Within" \/ (step.kind = "Hold" /\ now_)
  BY <1>7
<1>11. /\ fails <=> \/ step.kind = "Within" /\ counted.age > step.maximum
                    \/ step.kind = "Next" /\ ~now_
       /\ step.kind \in {"Wait", "Next"} => (done <=> ~fails /\ now_)
       /\ step.kind = "Hold" => (done <=> ~fails /\ counted.held >= step.cycles)
       /\ done => ~fails
  BY DEF Breaks, IsDone, StepFails, StepExpires, StepCompletes, counted
<1>12. CanBegin(Append(tr, sample), step, Len(tr) + 1) <=>
         IF step.kind = "Within" THEN step.maximum > 0 ELSE now_
  BY Longer DEF CanBegin, True
<1>13. step.kind = "Hold" => step.cycles > 0
  BY DEF ValidStep
<1> HIDE DEF fails, done, Left, r, step, holds, now_
<1>14. done \/ (~fails /\ ~done /\ Left(counted)) <=>
         IF step.kind = "Within" THEN step.maximum > 0 ELSE now_
  <2>1. CASE step.kind \in {"Wait", "Next"}
    BY <1>10, <1>11, <2>1
  <2>2. CASE step.kind = "Within"
    BY <1>7, <1>8, <1>10, <1>11, <2>2
  <2>3. CASE step.kind = "Hold"
    BY <1>7, <1>8, <1>10, <1>11, <1>13, <2>3
  <2> QED BY <1>8, <2>1, <2>2, <2>3
<1> QED BY <1>4, <1>9, <1>12, <1>14 DEF r, step, holds

(* What a matcher has in progress and has recorded is what the trace says, *)
(* and each attempt has counted what its step has seen of the trace.       *)
DoneOf(fate, starts) == {s \in starts : fate[s].how # "continues"}

Agrees(tr, c, inProgress, ends, found) ==
  LET steps  == c.program.steps
      fate   == Fate(tr, steps)
      starts == ReferenceStarts(tr, c, fate)
      done   == DoneOf(fate, starts)
  IN  /\ DOMAIN inProgress = starts \ done
      /\ \A s \in starts \ done : /\ inProgress[s].index + 1 = fate[s].step
                                  /\ Counts(tr, steps[fate[s].step], inProgress[s], fate[s].since)
      /\ ends = {<<s, fate[s].at, fate[s].how>> : s \in done}
      /\ found = {fate[s].at : s \in {d \in done : fate[d].how = "completed"}}

FInv == Program.kind = "Sequence" => Agrees(trace, config, attempts, ended, hits)

(* The fates of all attempts when a sample is added.                       *)
LEMMA FatesAfter ==
  ASSUME NEW tr \in Seq(Samples), NEW sample \in Samples,
         NEW steps \in Seq(SequenceStep(Roots)), Len(steps) # 0
  PROVE  LET old == Fate(tr, steps)
             new == Fate(Append(tr, sample), steps)
             n == Len(tr)
         IN  /\ \A s \in 1..n + 1 :
                  /\ old[s].how # "continues" => /\ old[s].at \in 0..n /\ new[s] = old[s]
                  /\ old[s].how = "continues" =>
                       /\ old[s].at = n + 1 /\ new[s].at \in {n + 1, n + 2}
                       /\ old[s].step \in 1..Len(steps) /\ old[s].since \in 1..n + 1
                       /\ new[s] = Fates(Append(tr, sample), steps)[old[s].step][old[s].since]
             /\ Alike(old, new, n)
<1> DEFINE old == Fate(tr, steps)
           more == Append(tr, sample)
           new == Fate(more, steps)
           n == Len(tr)
<1>1. n \in Nat /\ Len(more) = n + 1 /\ Len(steps) \in Nat /\ 1 \in 1..Len(steps) + 1
  BY Longer, LenProperties
<1>2. ASSUME NEW s \in 1..n + 1
      PROVE  /\ old[s].how # "continues" => /\ old[s].at \in 0..n /\ new[s] = old[s]
             /\ old[s].how = "continues" =>
                  /\ old[s].at = n + 1 /\ new[s].at \in {n + 1, n + 2}
                  /\ old[s].step \in 1..Len(steps) /\ old[s].since \in 1..n + 1
                  /\ new[s] = Fates(more, steps)[old[s].step][old[s].since]
  <2>1. Grows(tr, more, steps, 1, s)
    BY <1>1, FatesGrow
  <2>2. /\ old[s].how # "continues" => /\ old[s].at \in 0..n /\ new[s] = old[s]
        /\ old[s].how = "continues" =>
             /\ old[s].at = n + 1
             /\ old[s].step \in 1..Len(steps) /\ old[s].since \in 1..n + 1
             /\ SettlesOn(tr, steps[old[s].step], old[s].since) = {}
             /\ new[s] = Fates(more, steps)[old[s].step][old[s].since]
    BY <2>1, Zenon DEF Grows, Fate
  <2>3. ASSUME NEW k \in 1..Len(steps), NEW t \in 1..n + 1, SettlesOn(tr, steps[k], t) = {}
        PROVE  Fates(more, steps)[k][t].at \in {n + 1, n + 2}
    <3>1. Fates(more, steps)[k][t] = Moved(more, steps, k, t)
      BY <2>3, FateMoves
    <3>2. Moved(more, steps, k, t).at \in {n + 1, (n + 1) + 1}
      BY <1>1 DEF Moved
    <3> QED BY <1>1, <3>1, <3>2
  <2> HIDE DEF old, new, n, more
  <2> QED BY <2>2, <2>3
<1> HIDE DEF old, new, n, more
<1>3. Alike(old, new, n)
  <2> SUFFICES ASSUME NEW s \in 1..n, NEW t \in 1..n
               PROVE  (new[s].at < t <=> old[s].at < t) /\ (new[s].at > t <=> old[s].at > t)
    BY DEF Alike
  <2>1. s \in 1..n + 1
    BY <1>1
  <2>2. CASE old[s].how # "continues"
    BY <1>2, <2>1, <2>2
  <2>3. CASE old[s].how = "continues"
    <3>1. old[s].at = n + 1 /\ new[s].at \in {n + 1, n + 2}
      BY <1>2, <2>1, <2>3
    <3> QED BY <1>1, <3>1
  <2> QED BY <2>2, <2>3
<1> QED BY <1>2, <1>3 DEF old, new, n, more

(* A fate w on a longer trace is what one sample made of an attempt.       *)
Follows(tr, steps, w, r) ==
  /\ w.how = HowEnds(r) /\ (r.completed <=> w.how = "completed")
  /\ w.how # "continues" => w.at = Len(tr)
  /\ w.how = "continues" => /\ w.at = Len(tr) + 1 /\ w.step = r.state.index + 1
                            /\ Counts(tr, steps[w.step], r.state, w.since)

LEMMA AttemptFollows ==
  ASSUME NEW tr \in Seq(Samples), NEW sample \in Samples,
         NEW steps \in Seq(SequenceStep(Roots)), \A k \in 1..Len(steps) : ValidStep(steps[k]),
         NEW k \in 1..Len(steps), NEW s \in 1..Len(tr) + 1, NEW state,
         Counts(tr, steps[k], state, s), state.index + 1 = k
  PROVE  LET more == Append(tr, sample)
             r == AdvanceSequence(steps, state, sample.holds)
             w == Fates(more, steps)[k][s]
         IN  /\ Follows(more, steps, w, r)
             /\ w.how \in {"failed", "expired"} => r.state = AtStep(0, state)
<1> DEFINE more == Append(tr, sample)
           r == AdvanceSequence(steps, state, sample.holds)
           w == Fates(more, steps)[k][s]
<1>1. /\ w.how = HowEnds(r) /\ (r.completed <=> w.how = "completed")
      /\ w.how # "continues" => w.at = Len(tr) + 1
      /\ w.how = "continues" => /\ w.at = Len(tr) + 2 /\ w.step = r.state.index + 1
                                /\ Counts(more, steps[w.step], r.state, w.since)
      /\ w.how \in {"failed", "expired"} => r.state = AtStep(0, state)
  BY AttemptMoves
<1>2. Len(more) = Len(tr) + 1 /\ Len(more) + 1 = Len(tr) + 2
  BY Longer
<1> HIDE DEF more, r, w
<1>3. Follows(more, steps, w, r)
  BY <1>1, <1>2, Zenon DEF Follows
<1> QED BY <1>1, <1>3 DEF more, r, w

(* What the attempts in progress become, and what the first sample makes   *)
(* of a new one.                                                           *)
LEMMA ActiveFollows ==
  ASSUME Named, FInv, NEW sample \in Samples, Program.kind = "Sequence", NEW i \in Active
  PROVE  LET more == Append(trace, sample) IN
         Follows(more, Program.steps, Fate(more, Program.steps)[i], Result(i, sample.holds))
<1> DEFINE steps == Program.steps
           more == Append(trace, sample)
           old == Fate(trace, steps)
           k == old[i].step
           s == old[i].since
<1>1. /\ trace \in Seq(Samples) /\ Len(trace) \in Nat
      /\ steps \in Seq(SequenceStep(Roots)) /\ Len(steps) # 0
      /\ \A j \in 1..Len(steps) : ValidStep(steps[j])
  BY SequenceProgram, LenProperties DEF Named
<1>2. /\ i \in 1..Len(trace) + 1 /\ old[i].how = "continues"
      /\ attempts[i].index + 1 = k /\ Counts(trace, steps[k], attempts[i], s)
  <2>1. i \in 1..Len(trace) + 1
    BY <1>1 DEF Named
  <2>2. Agrees(trace, config, attempts, ended, hits) /\ config.program = Program
    BY DEF FInv, Program
  <2> QED BY <2>1, <2>2 DEF Agrees, DoneOf, Active
<1>3. /\ k \in 1..Len(steps) /\ s \in 1..Len(trace) + 1
      /\ Fate(more, steps)[i] = Fates(more, steps)[k][s]
  <2> HIDE DEF steps
  <2> QED BY <1>1, <1>2, FatesAfter
<1>4. Result(i, sample.holds) = AdvanceSequence(steps, attempts[i], sample.holds)
  BY DEF Result, Advance
<1> HIDE DEF k, s, steps, more
<1>5. Follows(more, steps, Fates(more, steps)[k][s], AdvanceSequence(steps, attempts[i], sample.holds))
  BY <1>1, <1>2, <1>3, AttemptFollows DEF more
<1> QED BY <1>3, <1>4, <1>5, Zenon DEF steps, more

LEMMA CandidateFollows ==
  ASSUME Named, NEW sample \in Samples, Program.kind = "Sequence"
  PROVE  LET more == Append(trace, sample)
             w == Fate(more, Program.steps)[Len(trace) + 1]
             r == Candidate(sample.holds)
         IN  /\ Follows(more, Program.steps, w, r)
             /\ w.how \in {"failed", "expired"} => ~HasLeft(r.state)
<1> DEFINE steps == Program.steps
           more == Append(trace, sample)
           state == StartState(Program)
           s == Len(trace) + 1
           r == Candidate(sample.holds)
<1>1. /\ trace \in Seq(Samples) /\ Len(trace) \in Nat /\ s \in 1..Len(trace) + 1
      /\ steps \in Seq(SequenceStep(Roots)) /\ 1 \in 1..Len(steps)
      /\ \A j \in 1..Len(steps) : ValidStep(steps[j])
  BY SequenceProgram, LenProperties DEF Named
<1>2. state = [index |-> 0, age |-> 0, held |-> 0, fsm |-> 0]
  BY DEF StartState
<1>3. state \in PatternState /\ state.age = 0 /\ state.held = 0 /\ state.index + 1 = 1
  BY <1>2 DEF PatternState
<1>4. r = AdvanceSequence(steps, state, sample.holds)
  BY DEF Candidate, Advance
<1>5. ~HasLeft(AtStep(0, state))
  BY DEF HasLeft, AtStep
<1> HIDE DEF state, steps, r, more
<1>6. Counts(trace, steps[1], state, s)
  BY <1>1, <1>3, FreshCounts
<1> HIDE DEF s
<1>7. /\ Follows(more, steps, Fates(more, steps)[1][s], AdvanceSequence(steps, state, sample.holds))
      /\ Fates(more, steps)[1][s].how \in {"failed", "expired"} =>
           AdvanceSequence(steps, state, sample.holds).state = AtStep(0, state)
  BY <1>1, <1>3, <1>6, AttemptFollows DEF more
<1> QED BY <1>4, <1>5, <1>7, Zenon DEF steps, more, r, s, Fate

(* The attempts the longer trace has, the ones that end on its last sample *)
(* and the ones still in progress after it are those of Advance.           *)
LEMMA AttemptsAfter ==
  ASSUME IInv, FInv, NEW sample \in Samples, Program.kind = "Sequence"
  PROVE  LET more == Append(trace, sample)
             holds == sample.holds
             old == Fate(trace, Program.steps)
             new == Fate(more, Program.steps)
             starts == ReferenceStarts(trace, config, old)
             later == ReferenceStarts(more, config, new)
             first == IF Starts(holds) /\ ~Stays(holds) THEN {now} ELSE {}
         IN  /\ \A s \in DoneOf(old, starts) : new[s] = old[s]
             /\ DoneOf(new, later) =
                  (DoneOf(old, starts) \cup (Active \ Kept(holds))) \cup first
             /\ later \ DoneOf(new, later) = ActiveAfter(holds)
             /\ first # {} => new[now].how = "completed" /\ new[now].at = now
             /\ \A i \in Active \ Kept(holds) :
                  new[i].how = HowEnds(Result(i, holds)) /\ new[i].at = now
<1> DEFINE steps == Program.steps
           n == Len(trace)
           more == Append(trace, sample)
           holds == sample.holds
           old == Fate(trace, steps)
           new == Fate(more, steps)
           starts == ReferenceStarts(trace, config, old)
           done == DoneOf(old, starts)
           later == ReferenceStarts(more, config, new)
           first == IF Starts(holds) /\ ~Stays(holds) THEN {now} ELSE {}
           begins == BeginsOn(more, config, new, starts, n + 1)
           c == Candidate(holds)
<1>1. /\ Named /\ trace \in Seq(Samples) /\ n \in Nat /\ now = n + 1
      /\ Len(more) = n + 1 /\ Len(more) + 1 = n + 2
  <2>1. trace \in Seq(Samples) /\ Named
    BY DEF IInv, Named
  <2> QED BY <2>1, Longer DEF now
<1>2. /\ steps \in Seq(SequenceStep(Roots)) /\ Len(steps) \in Nat \ {0}
      /\ steps[1] \in SequenceStep(Roots) /\ ValidStep(steps[1]) /\ steps = config.program.steps
  <2>1. 1 \in 1..Len(Program.steps)
    BY <1>1, SequenceProgram
  <2> QED BY <1>1, <2>1, SequenceProgram DEF Program
<1>3. Active = starts \ done
  BY DEF FInv, Agrees, Active, Program
<1>4. /\ \A s \in 1..n + 1 :
           /\ old[s].how # "continues" => old[s].at \in 0..n /\ new[s] = old[s]
           /\ old[s].how = "continues" => new[s].at \in {n + 1, n + 2}
      /\ Alike(old, new, n)
  BY <1>1, <1>2, FatesAfter
<1>5. starts \subseteq 1..n /\ later = starts \cup (IF begins THEN {n + 1} ELSE {})
  BY <1>1, <1>4, StartsLonger
<1>6. /\ \A s \in starts : s \in 1..n + 1 /\ s # n + 1
      /\ \A s \in starts : s \in done <=> old[s].how # "continues"
      /\ done \subseteq starts
  BY <1>1, <1>5 DEF DoneOf
<1>7. \A s \in done : new[s] = old[s] /\ new[s].at \in 0..n /\ new[s].how # "continues"
  BY <1>4, <1>6
<1>8. \A s \in Active : new[s].at \in {n + 1, n + 2}
  BY <1>3, <1>4, <1>6
<1>9. \A i \in Active : /\ new[i].how = HowEnds(Result(i, holds))
                        /\ new[i].how # "continues" => new[i].at = n + 1
                        /\ new[i].how = "continues" => new[i].at = n + 2
  BY <1>1, ActiveFollows, Zenon DEF Follows
<1>10. /\ new[n + 1].how = HowEnds(c) /\ (c.completed <=> new[n + 1].how = "completed")
       /\ new[n + 1].how # "continues" => new[n + 1].at = n + 1
       /\ new[n + 1].how \in {"failed", "expired"} => ~HasLeft(c.state)
  BY <1>1, CandidateFollows, Zenon DEF Follows
<1>11. c.completed \/ HasLeft(c.state) <=> CanBegin(more, config.program.steps[1], n + 1)
  BY <1>1, <1>2, CandidateBegins
<1> HIDE DEF steps, n, more, holds, old, new, starts, done, later, begins, c
<1>12. \A i : i \in Kept(holds) <=> i \in Active /\ new[i].how = "continues"
  BY <1>9 DEF Kept, Ends
<1>13. {s \in starts : new[s].at > n + 1} = Kept(holds)
  <2>1. ASSUME NEW s \in starts PROVE new[s].at > n + 1 <=> s \in Kept(holds)
    <3>1. CASE s \in done
      BY <1>1, <1>3, <1>7, <1>12, <3>1
    <3>2. CASE s \in Active
      BY <1>1, <1>9, <1>12, <3>2
    <3> QED BY <1>3, <3>1, <3>2
  <2>2. Kept(holds) \subseteq starts
    BY <1>3, <1>12
  <2> QED BY <2>1, <2>2
<1>14. (\A s \in starts : new[s].at < n + 1) <=> Active = {}
  <2>1. \A s \in done : new[s].at < n + 1
    BY <1>1, <1>7
  <2>2. \A s \in Active : ~(new[s].at < n + 1)
    BY <1>1, <1>8
  <2> QED BY <1>3, <1>6, <2>1, <2>2
<1>15. begins <=> Starts(holds)
  BY <1>11, <1>13, <1>14, Zenon DEF begins, BeginsOn, Starts, Proceeds, HasRoom, Tries, c
<1>16. later = starts \cup (IF Starts(holds) THEN {now} ELSE {})
  BY <1>1, <1>5, <1>15
<1>17. Starts(holds) => /\ c.completed => new[now].how = "completed" /\ new[now].at = now
                        /\ ~c.completed => new[now].how = "continues"
  <2>1. HowEnds(c) \in {"completed", "failed", "expired", "continues"}
    BY DEF HowEnds
  <2>2. Starts(holds) => c.completed \/ HasLeft(c.state)
    BY DEF Starts, Proceeds, c
  <2> QED BY <1>1, <1>10, <2>1, <2>2
<1>18. Stays(holds) <=> Starts(holds) /\ ~c.completed
  BY DEF Stays, c
<1>19. now \notin starts
  BY <1>1, <1>6
<1>20. \A s : s \in DoneOf(new, later) <=>
           s \in (done \cup (Active \ Kept(holds))) \cup first
  <2> TAKE s
  <2>1. s \in DoneOf(new, later) <=> s \in later /\ new[s].how # "continues"
    BY DEF DoneOf
  <2>2. CASE s = now
    <3>1. s \notin done /\ s \notin Active
      BY <1>3, <1>6, <1>19, <2>2
    <3>2. s \in later <=> Starts(holds)
      BY <1>16, <1>19, <2>2
    <3> QED BY <1>17, <1>18, <2>1, <2>2, <3>1, <3>2
  <2>3. CASE s # now
    <3>1. s \in later <=> s \in starts
      BY <1>16, <2>3
    <3> QED BY <1>3, <1>6, <1>7, <1>12, <2>1, <2>3, <3>1
  <2> QED BY <2>2, <2>3
<1>21. \A s : s \in later \ DoneOf(new, later) <=> s \in ActiveAfter(holds)
  <2> TAKE s
  <2>1. s \in ActiveAfter(holds) <=> s \in Kept(holds) \/ (Stays(holds) /\ s = now)
    BY DEF ActiveAfter
  <2>2. CASE s = now
    BY <1>3, <1>6, <1>12, <1>16, <1>17, <1>18, <1>19, <1>20, <2>1, <2>2
  <2>3. CASE s # now
    BY <1>3, <1>6, <1>12, <1>16, <1>20, <2>1, <2>3
  <2> QED BY <2>2, <2>3
<1>22. /\ DoneOf(new, later) = (done \cup (Active \ Kept(holds))) \cup first
       /\ later \ DoneOf(new, later) = ActiveAfter(holds)
  <2> HIDE DEF first
  <2> QED BY <1>20, <1>21
<1>23. first # {} => new[now].how = "completed" /\ new[now].at = now
  BY <1>17, <1>18
<1>24. \A i \in Active \ Kept(holds) :
         new[i].how = HowEnds(Result(i, holds)) /\ new[i].at = now
  BY <1>1, <1>9, <1>12
<1> HIDE DEF first
<1> QED BY <1>7, <1>22, <1>23, <1>24, Zenon
        DEF first, later, done, starts, old, new, more, holds, steps

LEMMA SampleFInv ==
  ASSUME IInv, FInv, NEW sample \in Samples, Sample(sample), Program.kind = "Sequence"
  PROVE  Agrees(trace', config, attempts', ended', hits')
<1> DEFINE steps == Program.steps
           more == Append(trace, sample)
           holds == sample.holds
           old == Fate(trace, steps)
           new == Fate(more, steps)
           starts == ReferenceStarts(trace, config, old)
           done == DoneOf(old, starts)
           later == ReferenceStarts(more, config, new)
           over == DoneOf(new, later)
           first == IF Starts(holds) /\ ~Stays(holds) THEN {now} ELSE {}
           stops == Active \ Kept(holds)
<1>1. /\ Named /\ trace' = more /\ SamplePattern(sample) /\ steps = config.program.steps
  BY DEF IInv, Sample, SampleCondition, Program
<1>2. /\ ended = {<<s, old[s].at, old[s].how>> : s \in done}
      /\ hits = {old[s].at : s \in {d \in done : old[d].how = "completed"}}
  BY DEF FInv, Agrees, Program
<1>3. /\ \A s \in done : new[s] = old[s]
      /\ over = (done \cup stops) \cup first /\ later \ over = ActiveAfter(holds)
      /\ first # {} => new[now].how = "completed" /\ new[now].at = now
      /\ \A i \in stops : new[i].how = HowEnds(Result(i, holds)) /\ new[i].at = now
  BY AttemptsAfter
<1>4. /\ \A i \in Active : Follows(more, steps, new[i], Result(i, holds))
      /\ Follows(more, steps, new[now], Candidate(holds))
  BY <1>1, ActiveFollows, CandidateFollows, Zenon DEF now
<1>5. \A s \in later \ over : new[s].how = "continues"
  BY DEF DoneOf
<1>6. first = {} \/ first = {now}
  OBVIOUS
<1>7. /\ attempts' = Advanced(holds) /\ ended' = ended \cup EndedBy(holds)
      /\ hits' = IF Completes(holds) > 0 THEN hits \cup {now} ELSE hits
  BY <1>1 DEF SamplePattern
<1> HIDE DEF steps, more, old, new, starts, done, later, over, holds, stops
<1>8. /\ DOMAIN attempts' = later \ over
      /\ \A s \in later \ over :
           attempts'[s] = IF s \in Active THEN Result(s, holds).state ELSE Candidate(holds).state
  BY <1>3, <1>7, Zenon DEF Advanced
<1>9. ASSUME NEW s \in later \ over
      PROVE  /\ attempts'[s].index + 1 = new[s].step
             /\ Counts(more, steps[new[s].step], attempts'[s], new[s].since)
  <2>1. CASE s \in Active
    <3>1. Follows(more, steps, new[s], Result(s, holds)) /\ new[s].how = "continues"
      BY <1>4, <1>5, <2>1
    <3>2. attempts'[s] = Result(s, holds).state
      BY <1>8, <2>1, Zenon
    <3> QED BY <3>1, <3>2, Zenon DEF Follows
  <2>2. CASE s \notin Active
    <3>1. s = now
      BY <1>3, <2>2 DEF ActiveAfter, Kept, Ends
    <3>2. Follows(more, steps, new[s], Candidate(holds)) /\ new[s].how = "continues"
      BY <1>4, <1>5, <3>1
    <3>3. attempts'[s] = Candidate(holds).state
      BY <1>8, <2>2, Zenon
    <3> QED BY <3>2, <3>3, Zenon DEF Follows
  <2> QED BY <2>1, <2>2
<1>10. ended' = {<<s, new[s].at, new[s].how>> : s \in over}
  <2>1. EndedBy(holds) = {<<i, now, HowEnds(Result(i, holds))>> : i \in stops}
                           \cup {<<s, now, "completed">> : s \in first}
    BY <1>6 DEF EndedBy, stops
  <2>2. {<<i, now, HowEnds(Result(i, holds))>> : i \in stops} =
          {<<s, new[s].at, new[s].how>> : s \in stops}
    BY <1>3
  <2>3. {<<s, now, "completed">> : s \in first} = {<<s, new[s].at, new[s].how>> : s \in first}
    BY <1>3, <1>6
  <2>4. ended = {<<s, new[s].at, new[s].how>> : s \in done}
    BY <1>2, <1>3
  <2> HIDE DEF first
  <2> QED BY <1>3, <1>7, <2>1, <2>2, <2>3, <2>4
<1>11. hits' = {new[s].at : s \in {d \in over : new[d].how = "completed"}}
  <2> DEFINE At(S) == {new[s].at : s \in {d \in S : new[d].how = "completed"}}
  <2>1. hits = At(done)
    BY <1>2, <1>3
  <2>2. At(over) = (At(done) \cup At(stops)) \cup At(first)
    <3> HIDE DEF first
    <3> QED BY <1>3
  <2>3. At(stops) = IF Ends("completed", holds) # {} THEN {now} ELSE {}
    <3>1. \A d : d \in stops /\ new[d].how = "completed" <=> d \in Ends("completed", holds)
      BY <1>3 DEF stops, Ends, Kept
    <3>2. \A d \in stops : new[d].at = now
      BY <1>3
    <3> QED BY <3>1, <3>2
  <2>4. At(first) = first
    BY <1>3, <1>6
  <2>5. Completes(holds) > 0 <=> Ends("completed", holds) # {} \/ first # {}
    <3> DEFINE E == Ends("completed", holds)
               b == Starts(holds) /\ ~Stays(holds)
    <3>1. IsFiniteSet(E) /\ Cardinality(E) \in Nat
      BY <1>1, Partition
    <3>2. Cardinality(E) = 0 <=> E = {}
      BY <3>1, FS_EmptySet
    <3>3. Completes(holds) = Cardinality(E) + One(b)
      BY Zenon DEF Completes
    <3>4. One(b) = IF b THEN 1 ELSE 0
      BY Zenon DEF One
    <3>5. first # {} <=> b
      OBVIOUS
    <3> HIDE DEF E, b, first
    <3>6. Completes(holds) > 0 <=> E # {} \/ b
      BY <3>1, <3>2, <3>3, <3>4
    <3> QED BY <3>5, <3>6 DEF E
  <2>6. hits' = IF Ends("completed", holds) # {} \/ first # {} THEN hits \cup {now} ELSE hits
    BY <1>7, <2>5
  <2> HIDE DEF At, first
  <2>7. hits' = At(over)
    BY <1>6, <2>1, <2>2, <2>3, <2>4, <2>6
  <2> QED BY <2>7 DEF At
<1> QED BY <1>1, <1>8, <1>9, <1>10, <1>11, Zenon
        DEF Agrees, steps, more, new, later, over

LEMMA NothingBegun ==
  ASSUME NEW tr \in Seq(Samples), Len(tr) = 0, NEW c, NEW fate
  PROVE  ReferenceStarts(tr, c, fate) = {}
<1>1. 0 \in 0..Len(tr)
  OBVIOUS
<1>2. Begun(tr, c, fate)[0] = NextBegun(tr, c, fate, Begun(tr, c, fate), 0)
  BY <1>1, BegunIs
<1> QED BY <1>2 DEF ReferenceStarts, NextBegun

(* A matcher that has seen no sample has nothing in progress or recorded.  *)
LEMMA NothingAgrees ==
  ASSUME NEW tr, tr = << >>, NEW c, NEW inProgress, DOMAIN inProgress = {}
  PROVE  Agrees(tr, c, inProgress, {}, {})
<1> DEFINE fate == Fate(tr, c.program.steps)
           starts == ReferenceStarts(tr, c, fate)
<1>1. tr \in Seq(Samples) /\ Len(tr) = 0
  BY EmptySeq
<1>2. starts = {}
  BY <1>1, NothingBegun, Zenon
<1> HIDE DEF starts, fate
<1>3. DoneOf(fate, starts) = {}
  BY <1>2 DEF DoneOf
<1> QED BY <1>2, <1>3 DEF Agrees, fate, starts

LEMMA InitFInv == Init => FInv
<1> SUFFICES ASSUME Init PROVE FInv
  OBVIOUS
<1>1. trace = << >> /\ DOMAIN attempts = {} /\ ended = {} /\ hits = {}
  BY EmptySeq DEF Init
<1>2. Agrees(trace, config, attempts, {}, {})
  BY <1>1, NothingAgrees
<1> QED BY <1>1, <1>2 DEF FInv

LEMMA NextFInv == IInv /\ FInv /\ [Next]_vars => FInv'
<1> SUFFICES ASSUME IInv, FInv, [Next]_vars, (Program.kind = "Sequence")'
             PROVE  Agrees(trace', config', attempts', ended', hits')
  BY Zenon DEF FInv, Agrees
<1>1. config' = config /\ Program.kind = "Sequence"
  BY DEF Next, vars, Sample, ClearMatcher, ResetCoverage, Program
<1>2. ASSUME NEW sample \in Samples, Sample(sample)
      PROVE  Agrees(trace', config, attempts', ended', hits')
  BY <1>1, <1>2, SampleFInv
<1>3. ASSUME Clear
      PROVE  Agrees(trace', config, attempts', ended', hits')
  <2>1. trace' = << >> /\ DOMAIN attempts' = {} /\ ended' = {} /\ hits' = {}
    BY <1>3, EmptySeq DEF Clear
  <2>2. Agrees(trace', config, attempts', {}, {})
    BY <2>1, NothingAgrees
  <2> QED BY <2>1, <2>2
<1>4. ASSUME UNCHANGED vars
      PROVE  Agrees(trace', config, attempts', ended', hits')
  BY <1>1, <1>4 DEF vars, FInv
<1>5. Agrees(trace', config, attempts', ended', hits')
  BY <1>2, <1>3, <1>4 DEF Next, ClearMatcher, ResetCoverage
<1> QED BY <1>1, <1>5

(* A sequence matcher that sees one sample at a time has the attempts in   *)
(* progress, at the steps, and has recorded the ends and the hits that the *)
(* whole trace implies, for every program the validator accepts.           *)
(* (PatternMatcher::Advance and PatternExecutor::AdvanceSequence.)         *)
THEOREM SequencesFound == Spec => []SequenceMatchesReference
<1>1. FInv => SequenceMatchesReference
  <2> SUFFICES ASSUME FInv, Program.kind = "Sequence" PROVE SequenceMatchesReference
    BY DEF SequenceMatchesReference
  <2>1. Agrees(trace, config, attempts, ended, hits)
    BY DEF FInv
  <2> QED BY <2>1, Zenon DEF Agrees, DoneOf, Active, Program, SequenceMatchesReference
<1> QED BY <1>1, InitIInv, NextIInv, InitFInv, NextFInv, PTL DEF Spec
=============================================================================
