------------------------ MODULE PatternMatcher_proofs ------------------------
(***************************************************************************)
(* Proofs about the bookkeeping of a matcher, for any programs, capacities *)
(* and samples: whatever the executor returns, attempts are conserved and  *)
(* the capacity holds.                                                     *)
(***************************************************************************)
EXTENDS PatternMatcher, PatternExecutor_proofs, FiniteSetTheorems

(* The inductive invariant: attempts are named by samples already taken,   *)
(* so the new one has a name of its own, and they are finitely many, so    *)
(* counting them makes sense.                                              *)
Named ==
  /\ config \in Configs
  /\ trace \in Seq(Samples)
  /\ Active \subseteq 1..Len(trace)
  /\ diagnostics \in [DOMAIN NoDiagnostics -> Nat]

IInv == Named /\ Conservation /\ WithinCapacity

LEMMA Counters ==
  DOMAIN NoDiagnostics =
    {"started", "completed", "failed", "expired", "aborted", "cleared", "peak"}
BY DEF NoDiagnostics

LEMMA ActiveIsFinite ==
  ASSUME Named
  PROVE  IsFiniteSet(Active) /\ Cardinality(Active) \in Nat /\ now \notin Active
<1>1. Len(trace) \in Nat
  BY LenProperties DEF Named
<1>2. IsFiniteSet(1..Len(trace))
  BY <1>1, FS_Interval
<1>3. IsFiniteSet(Active)
  BY <1>2, FS_Subset DEF Named
<1>4. now \notin Active
  BY <1>1 DEF Named, now
<1> QED BY <1>3, <1>4, FS_CardinalityType

(* A finite set cut in two.                                                *)
LEMMA Cut ==
  ASSUME NEW S, NEW T, IsFiniteSet(S), IsFiniteSet(T), S \cap T = {}
  PROVE  /\ IsFiniteSet(S \cup T)
         /\ Cardinality(S \cup T) = Cardinality(S) + Cardinality(T)
<1>1. Cardinality(S) \in Nat /\ Cardinality(T) \in Nat
  BY FS_CardinalityType
<1>2. Cardinality(S \cap T) = 0
  BY FS_EmptySet
<1>3. /\ IsFiniteSet(S \cup T)
      /\ Cardinality(S \cup T) = Cardinality(S) + Cardinality(T) - Cardinality(S \cap T)
  BY FS_Union
<1> QED BY <1>1, <1>2, <1>3

(* Every attempt in progress completes, fails, expires or goes on.         *)
LEMMA Partition ==
  ASSUME Named, NEW holds
  PROVE  /\ \A how : IsFiniteSet(Ends(how, holds)) /\ Cardinality(Ends(how, holds)) \in Nat
         /\ Cardinality(Active) =
              Cardinality(Ends("completed", holds)) + Cardinality(Ends("failed", holds))
                + Cardinality(Ends("expired", holds)) + Cardinality(Kept(holds))
<1>1. ASSUME NEW how
      PROVE  IsFiniteSet(Ends(how, holds)) /\ Cardinality(Ends(how, holds)) \in Nat
  <2>1. Ends(how, holds) \in SUBSET Active
    BY DEF Ends
  <2>2. IsFiniteSet(Ends(how, holds))
    BY <2>1, ActiveIsFinite, FS_Subset
  <2> QED BY <2>2, FS_CardinalityType
<1> DEFINE C == Ends("completed", holds)
           F == Ends("failed", holds)
           X == Ends("expired", holds)
           K == Ends("continues", holds)
<1>2. Active = ((C \cup F) \cup X) \cup K
  BY Zenon DEF Ends, HowEnds
<1>3. C \cap F = {} /\ (C \cup F) \cap X = {} /\ ((C \cup F) \cup X) \cap K = {}
  BY DEF Ends
<1>4. IsFiniteSet(C) /\ IsFiniteSet(F) /\ IsFiniteSet(X) /\ IsFiniteSet(K)
  BY <1>1
<1>5. /\ Cardinality(C) \in Nat /\ Cardinality(F) \in Nat
      /\ Cardinality(X) \in Nat /\ Cardinality(K) \in Nat
  BY <1>1
<1> HIDE DEF C, F, X, K
<1>6. IsFiniteSet(C \cup F) /\ Cardinality(C \cup F) = Cardinality(C) + Cardinality(F)
  BY <1>3, <1>4, Cut
<1>7. /\ IsFiniteSet((C \cup F) \cup X)
      /\ Cardinality((C \cup F) \cup X) = Cardinality(C \cup F) + Cardinality(X)
  BY <1>3, <1>4, <1>6, Cut
<1>8. Cardinality(Active) = Cardinality((C \cup F) \cup X) + Cardinality(K)
  BY <1>2, <1>3, <1>4, <1>7, Cut
<1>9. Cardinality(Active) =
        Cardinality(C) + Cardinality(F) + Cardinality(X) + Cardinality(K)
  BY <1>5, <1>6, <1>7, <1>8
<1> QED BY <1>1, <1>9 DEF C, F, X, K, Kept

(* The attempts after a sample are those that go on and the new one.       *)
LEMMA Growth ==
  ASSUME Named, NEW holds
  PROVE  /\ DOMAIN Advanced(holds) = ActiveAfter(holds)
         /\ ActiveAfter(holds) \subseteq 1..Len(trace) + 1
         /\ Cardinality(ActiveAfter(holds)) = Cardinality(Kept(holds)) + One(Stays(holds))
<1>1. DOMAIN Advanced(holds) = ActiveAfter(holds)
  BY DEF Advanced
<1>2. Kept(holds) \subseteq Active
  BY DEF Kept, Ends
<1>3. ActiveAfter(holds) \subseteq 1..Len(trace) + 1
  <2>1. Len(trace) \in Nat
    BY LenProperties DEF Named
  <2>2. Kept(holds) \subseteq 1..Len(trace) + 1 /\ now \in 1..Len(trace) + 1
    <3>1. Active \subseteq 1..Len(trace)
      BY DEF Named
    <3>2. 1..Len(trace) \subseteq 1..Len(trace) + 1
      BY <2>1
    <3>3. now \in 1..Len(trace) + 1
      BY <2>1 DEF now
    <3> QED BY <1>2, <3>1, <3>2, <3>3, Zenon
  <2> QED BY <2>2, Zenon DEF ActiveAfter
<1>4. Cardinality(ActiveAfter(holds)) = Cardinality(Kept(holds)) + One(Stays(holds))
  <2>1. IsFiniteSet(Kept(holds)) /\ Cardinality(Kept(holds)) \in Nat
    BY Partition DEF Kept
  <2>2. now \notin Kept(holds)
    BY <1>2, ActiveIsFinite
  <2>3. CASE Stays(holds)
    <3>1. ActiveAfter(holds) = Kept(holds) \cup {now} /\ One(Stays(holds)) = 1
      BY <2>3 DEF ActiveAfter, One
    <3> QED BY <3>1, <2>1, <2>2, FS_AddElement
  <2>4. CASE ~Stays(holds)
    <3>1. ActiveAfter(holds) = Kept(holds) /\ One(Stays(holds)) = 0
      BY <2>4 DEF ActiveAfter, One
    <3> QED BY <3>1, <2>1
  <2> QED BY <2>3, <2>4
<1> QED BY <1>1, <1>3, <1>4

LEMMA InitIInv == Init => IInv
<1> SUFFICES ASSUME Init PROVE IInv
  OBVIOUS
<1>1. Active = {} /\ Cardinality(Active) = 0
  BY FS_EmptySet DEF Init, Active
<1>2. config \in Configs /\ config.max_active \in Nat
  BY ConfigsAssumption DEF Init
<1>3. Named
  BY <1>1, <1>2, Counters, EmptySeq DEF Init, Named, NoDiagnostics
<1>4. Conservation
  BY <1>1 DEF Init, Conservation, NoDiagnostics
<1>5. WithinCapacity
  BY <1>1, <1>2 DEF Init, WithinCapacity, NoDiagnostics
<1> QED BY <1>3, <1>4, <1>5 DEF IInv

(* A sample of a sequence or state machine.                                *)
LEMMA PatternStep ==
  ASSUME IInv, NEW sample \in Samples, Sample(sample), SamplePattern(sample)
  PROVE  IInv'
<1> DEFINE holds == sample.holds
           C == Cardinality(Ends("completed", holds))
           F == Cardinality(Ends("failed", holds))
           X == Cardinality(Ends("expired", holds))
           K == Cardinality(Kept(holds))
           new == One(Starts(holds))
           stay == One(Stays(holds))
           once == One(Starts(holds) /\ ~Stays(holds))
           d == diagnostics
           peak == IF Starts(holds) /\ d.peak <= K THEN K + 1 ELSE d.peak
<1>1. /\ Active' = ActiveAfter(holds)
      /\ Cardinality(Active') = K + stay
      /\ ActiveAfter(holds) \subseteq 1..Len(trace) + 1
  BY Growth DEF IInv, SamplePattern, Active
<1>2. C \in Nat /\ F \in Nat /\ X \in Nat /\ K \in Nat /\ Cardinality(Active) = C + F + X + K
  BY Partition DEF IInv, Kept
<1>3. /\ d.started \in Nat /\ d.completed \in Nat /\ d.failed \in Nat /\ d.expired \in Nat
      /\ d.aborted \in Nat /\ d.cleared \in Nat /\ d.peak \in Nat
  BY Counters DEF IInv, Named
<1>4. new \in Nat /\ stay \in Nat /\ once \in Nat /\ stay <= 1 /\ new = stay + once
  BY DEF One, Stays
<1>5. /\ diagnostics' \in [DOMAIN NoDiagnostics -> Nat]
      /\ diagnostics'.started = d.started + new
      /\ diagnostics'.completed = d.completed + (C + once)
      /\ diagnostics'.failed = d.failed + F /\ diagnostics'.expired = d.expired + X
      /\ diagnostics'.aborted = d.aborted /\ diagnostics'.cleared = d.cleared
      /\ diagnostics'.peak = peak
  <2>1. diagnostics' = [d EXCEPT !.started = @ + new, !.completed = @ + (C + once),
                                 !.failed = @ + F, !.expired = @ + X, !.peak = peak]
    BY DEF SamplePattern, RecordDiagnostics, Completes
  <2>2. peak \in Nat
    BY <1>2, <1>3
  <2>3. d \in [DOMAIN NoDiagnostics -> Nat]
    BY DEF IInv, Named
  <2> HIDE DEF C, F, X, K, new, stay, once, d, peak
  <2>4. DOMAIN d = DOMAIN NoDiagnostics
    BY <2>3
  <2>5. /\ diagnostics'.started = d.started + new
        /\ diagnostics'.completed = d.completed + (C + once)
        /\ diagnostics'.failed = d.failed + F /\ diagnostics'.expired = d.expired + X
        /\ diagnostics'.aborted = d.aborted /\ diagnostics'.cleared = d.cleared
        /\ diagnostics'.peak = peak
    BY <2>1, <2>4, Counters
  <2>6. DOMAIN diagnostics' = DOMAIN NoDiagnostics
        /\ diagnostics' = [n \in DOMAIN diagnostics' |-> diagnostics'[n]]
    BY <2>1, <2>4
  <2>7. \A n \in DOMAIN NoDiagnostics : diagnostics'[n] \in Nat
    <3>1. /\ d.started + new \in Nat /\ d.completed + (C + once) \in Nat
          /\ d.failed + F \in Nat /\ d.expired + X \in Nat
      BY <1>2, <1>3, <1>4
    <3> QED BY <3>1, <1>3, <2>2, <2>5, Counters
  <2>8. diagnostics' \in [DOMAIN NoDiagnostics -> Nat]
    BY <2>6, <2>7
  <2> QED BY <2>5, <2>8
<1>6. Named'
  <2>1. trace' \in Seq(Samples) /\ Len(trace') = Len(trace) + 1
    BY AppendProperties DEF Sample, IInv, Named
  <2> QED BY <2>1, <1>1, <1>5 DEF Sample, IInv, Named, NoDiagnostics
<1>7. Conservation'
  <2>1. d.started = d.completed + d.failed + d.expired + d.aborted + d.cleared
                      + Cardinality(Active)
    BY DEF IInv, Conservation
  <2> HIDE DEF C, F, X, K, new, stay, once, d, peak
  <2>2. diagnostics'.started =
          diagnostics'.completed + diagnostics'.failed + diagnostics'.expired
            + diagnostics'.aborted + diagnostics'.cleared + Cardinality(Active')
    <3>1. d.started + new =
            (d.completed + (C + once)) + (d.failed + F) + (d.expired + X)
              + d.aborted + d.cleared + (K + stay)
      BY <1>2, <1>3, <1>4, <2>1
    <3> QED BY <1>1, <1>5, <3>1, Zenon
  <2> QED BY <2>2 DEF Conservation
<1>8. WithinCapacity'
  <2>1. config.max_active \in Nat /\ d.peak <= config.max_active /\ Cardinality(Active) <= d.peak
    BY ConfigsAssumption DEF IInv, Named, WithinCapacity
  <2>2. Starts(holds) => K + 1 <= config.max_active
    BY <1>2, <2>1 DEF Starts, HasRoom
  <2>3. ~config.overlap => config.max_active = 1
    BY ValidAssumption DEF IInv, Named, ValidProgram, ValidOverlap
  <2>4. K + stay <= peak /\ peak <= config.max_active
    <3>1. CASE Starts(holds)
      <4>1. d.peak <= K => peak = K + 1
        BY <3>1
      <4>2. ~(d.peak <= K) => peak = d.peak
        OBVIOUS
      <4>3. K + 1 <= config.max_active
        BY <2>2, <3>1
      <4> HIDE DEF K, stay, d, peak
      <4>4. K \in Nat /\ d.peak \in Nat /\ stay \in Nat /\ stay <= 1 /\ config.max_active \in Nat
            /\ d.peak <= config.max_active
        BY <1>2, <1>3, <1>4, <2>1
      <4> QED BY <4>1, <4>2, <4>3, <4>4
    <3>2. CASE ~Starts(holds)
      <4>1. stay = 0 /\ peak = d.peak
        BY <3>2 DEF Stays, One
      <4> HIDE DEF C, F, X, K, stay, d, peak
      <4> QED BY <1>2, <1>3, <2>1, <4>1 DEF d
    <3> QED BY <3>1, <3>2
  <2>5. Cardinality(Active') <= diagnostics'.peak /\ diagnostics'.peak <= config.max_active
    BY <1>1, <1>5, <2>4
  <2>6. ~config.overlap => Cardinality(Active') <= 1
    <3>1. K \in Nat /\ stay \in Nat /\ stay <= 1 /\ peak \in Nat
      <4>1. K \in Nat /\ stay \in Nat /\ stay <= 1 /\ d.peak \in Nat
        BY <1>2, <1>3, <1>4
      <4>2. peak = K + 1 \/ peak = d.peak
        OBVIOUS
      <4> HIDE DEF K, stay, peak, d
      <4> QED BY <4>1, <4>2
    <3> HIDE DEF K, stay, peak
    <3>2. config.max_active = 1 => K + stay <= 1
      BY <2>4, <3>1
    <3> QED BY <1>1, <2>3, <3>2, Zenon
  <2>7. config' = config
    BY DEF Sample
  <2> QED BY <2>5, <2>6, <2>7 DEF WithinCapacity
<1> QED BY <1>6, <1>7, <1>8 DEF IInv

(* A sample of a plain expression has nothing to count.                    *)
LEMMA ConditionStep ==
  ASSUME IInv, NEW sample \in Samples, Sample(sample), SampleCondition(sample)
  PROVE  IInv'
<1>1. UNCHANGED <<attempts, diagnostics>> /\ Active' = Active
  BY DEF SampleCondition, Active
<1>2. trace' \in Seq(Samples) /\ Len(trace') = Len(trace) + 1 /\ Len(trace) \in Nat
  BY AppendProperties, LenProperties DEF Sample, IInv, Named
<1>3. Named'
  <2>1. Active' \subseteq 1..Len(trace')
    BY <1>1, <1>2 DEF IInv, Named
  <2> QED BY <1>1, <1>2, <2>1 DEF Sample, IInv, Named, NoDiagnostics
<1>4. config' = config
  BY DEF Sample
<1> QED BY <1>1, <1>3, <1>4 DEF IInv, Conservation, WithinCapacity

(* Clearing counts what it drops; resetting starts the counters over.      *)
LEMMA ClearStep ==
  ASSUME IInv, (\E reason \in Reasons : ClearMatcher(reason)) \/ ResetCoverage
  PROVE  IInv'
<1>1. /\ Active' = {} /\ Cardinality(Active') = 0
      /\ trace' = << >> /\ config' = config
  BY FS_EmptySet DEF ClearMatcher, ResetCoverage, Clear, Active
<1>2. Cardinality(Active) \in Nat /\ config.max_active \in Nat
  BY ActiveIsFinite, ConfigsAssumption DEF IInv, Named
<1> DEFINE d == diagnostics
<1>3. /\ d.started \in Nat /\ d.completed \in Nat /\ d.failed \in Nat /\ d.expired \in Nat
      /\ d.aborted \in Nat /\ d.cleared \in Nat /\ d.peak \in Nat
  BY Counters DEF IInv, Named
<1>4. /\ diagnostics' \in [DOMAIN NoDiagnostics -> Nat]
      /\ Conservation' /\ diagnostics'.peak <= config.max_active
      /\ diagnostics'.peak \in Nat
  <2> DEFINE n == Cardinality(Active)
  <2>0. /\ d \in [DOMAIN NoDiagnostics -> Nat] /\ n \in Nat
        /\ d.started = d.completed + d.failed + d.expired + d.aborted + d.cleared + n
        /\ d.peak <= config.max_active
    BY <1>2 DEF IInv, Named, Conservation, WithinCapacity
  <2>1. ASSUME NEW reason \in Reasons, diagnostics' = [d EXCEPT ![reason] = @ + n]
        PROVE  /\ diagnostics' \in [DOMAIN NoDiagnostics -> Nat]
               /\ Conservation' /\ diagnostics'.peak <= config.max_active
               /\ diagnostics'.peak \in Nat
    <3> HIDE DEF n, d
    <3>1. diagnostics' \in [DOMAIN NoDiagnostics -> Nat] /\ diagnostics'.peak = d.peak
      BY <2>0, <2>1, Counters DEF Reasons
    <3>2. diagnostics'.started =
            diagnostics'.completed + diagnostics'.failed + diagnostics'.expired
              + diagnostics'.aborted + diagnostics'.cleared + 0
      <4>1. CASE reason = "aborted"
        BY <1>3, <2>0, <2>1, <4>1, Counters
      <4>2. CASE reason = "cleared"
        BY <1>3, <2>0, <2>1, <4>2, Counters
      <4> QED BY <4>1, <4>2 DEF Reasons
    <3> QED BY <1>1, <1>3, <2>0, <3>1, <3>2 DEF Conservation
  <2>2. ASSUME NEW reason \in Reasons, ClearMatcher(reason)
        PROVE  /\ diagnostics' \in [DOMAIN NoDiagnostics -> Nat]
               /\ Conservation' /\ diagnostics'.peak <= config.max_active
               /\ diagnostics'.peak \in Nat
    <3>1. diagnostics' = [d EXCEPT ![reason] = @ + n]
      BY <2>2 DEF ClearMatcher
    <3> HIDE DEF n, d
    <3> QED BY <2>1, <3>1
  <2>3. CASE ResetCoverage
    BY <1>1, <1>2, <2>3, Counters DEF ResetCoverage, Conservation, NoDiagnostics
  <2> QED BY <2>2, <2>3, Zenon
<1>5. Named'
  BY <1>1, <1>4, EmptySeq DEF IInv, Named, NoDiagnostics
<1>6. WithinCapacity'
  BY <1>1, <1>4 DEF WithinCapacity
<1> QED BY <1>4, <1>5, <1>6 DEF IInv

LEMMA NextIInv == IInv /\ [Next]_vars => IInv'
<1> SUFFICES ASSUME IInv, [Next]_vars PROVE IInv'
  OBVIOUS
<1>1. CASE UNCHANGED vars
  BY <1>1 DEF vars, IInv, Named, Conservation, WithinCapacity, Active, NoDiagnostics
<1>2. ASSUME NEW sample \in Samples, Sample(sample)
      PROVE  IInv'
  <2>1. SampleCondition(sample) \/ SamplePattern(sample)
    BY <1>2 DEF Sample
  <2> QED BY <1>2, <2>1, PatternStep, ConditionStep
<1>3. CASE (\E reason \in Reasons : ClearMatcher(reason)) \/ ResetCoverage
  BY <1>3, ClearStep
<1> QED BY <1>1, <1>2, <1>3 DEF Next

(* No attempt is lost or counted twice, whatever the program.              *)
THEOREM AttemptsConserved == Spec => []Conservation
<1>1. IInv => Conservation
  BY DEF IInv
<1> QED BY <1>1, InitIInv, NextIInv, PTL DEF Spec

(* The capacity holds for every limit, with and without overlap.           *)
THEOREM CapacityKept == Spec => []WithinCapacity
<1>1. IInv => WithinCapacity
  BY DEF IInv
<1> QED BY <1>1, InitIInv, NextIInv, PTL DEF Spec

-----------------------------------------------------------------------------
(* Types.  That the set of attempts is finite follows from Named; the rest *)
(* concerns what the attempts hold and the history.                        *)
Typed ==
  /\ \A i \in Active : attempts[i] \in PatternState
  /\ last_condition \in BOOLEAN /\ incomplete \in BOOLEAN
  /\ ended \subseteq ((1..Len(trace)) \X (1..Len(trace)) \X Outcomes)
  /\ hits \subseteq 1..Len(trace)

LEMMA MatcherProgram ==
  ASSUME Named
  PROVE  WellFormed(Program, Roots)
BY ValidAssumption DEF Named, Program, ValidProgram, WellFormed

LEMMA AdvancedTyped ==
  ASSUME Named, Typed, NEW holds
  PROVE  \A i \in ActiveAfter(holds) : Advanced(holds)[i] \in PatternState
<1> TAKE i \in ActiveAfter(holds)
<1>1. CASE i \in Active
  <2>1. Advanced(holds)[i] = Advance(Program, attempts[i], holds).state
    BY <1>1 DEF Advanced, Result
  <2> QED BY <1>1, <2>1, MatcherProgram, AdvanceTyped DEF Typed
<1>2. CASE i \notin Active
  <2>1. Advanced(holds)[i] = Advance(Program, StartState(Program), holds).state
    BY <1>2 DEF Advanced, Candidate
  <2> QED BY <2>1, MatcherProgram, StartTyped, AdvanceTyped
<1> QED BY <1>1, <1>2

(* An attempt ends now, in one of the three ways.                          *)
LEMMA EndedTyped ==
  ASSUME Named, NEW holds
  PROVE  EndedBy(holds) \subseteq ((1..now) \X (1..now) \X Outcomes)
<1>1. now \in 1..now /\ Active \subseteq 1..now
  <2>1. Len(trace) \in Nat /\ now = Len(trace) + 1
    BY LenProperties DEF Named, now
  <2> QED BY <2>1 DEF Named
<1>2. \A i \in Active \ Kept(holds) : HowEnds(Result(i, holds)) \in Outcomes
  BY DEF Kept, Ends, HowEnds, Outcomes
<1>3. "completed" \in Outcomes
  BY DEF Outcomes
<1> QED BY <1>1, <1>2, <1>3 DEF EndedBy

LEMMA InitTyped == Init => Typed
<1> SUFFICES ASSUME Init PROVE Typed
  OBVIOUS
<1>1. Active = {} /\ ended = {} /\ hits = {}
  BY EmptySeq DEF Init, Active
<1>2. last_condition \in BOOLEAN
  BY DEF Init
<1>3. incomplete \in BOOLEAN
  BY DEF Init
<1> QED BY <1>1, <1>2, <1>3 DEF Typed

LEMMA NextTyped == IInv /\ Typed /\ [Next]_vars => Typed'
<1> SUFFICES ASSUME IInv, Typed, [Next]_vars PROVE Typed'
  OBVIOUS
<1>1. Named /\ Len(trace) \in Nat /\ now = Len(trace) + 1
  BY LenProperties DEF IInv, Named, now
<1>2. ASSUME NEW sample \in Samples, Sample(sample)
      PROVE  Typed'
  <2>1. Len(trace') = now
    BY <1>1, <1>2, AppendProperties DEF Sample, Named
  <2>2. now \in 1..now /\ 1..Len(trace) \subseteq 1..now
    BY <1>1
  <2>3. CASE SampleCondition(sample)
    <3>1. UNCHANGED <<attempts, incomplete, ended>> /\ Active' = Active
      BY <2>3 DEF SampleCondition, Active
    <3>2. last_condition' \in BOOLEAN
      <4>1. last_condition' = IF Program.root \in sample.known
                              THEN Program.root \in sample.holds ELSE last_condition
        BY <2>3 DEF SampleCondition, Condition, MatchCondition
      <4>2. last_condition \in BOOLEAN /\ (Program.root \in sample.holds) \in BOOLEAN
        BY DEF Typed
      <4> QED BY <4>1, <4>2
    <3>3. hits' \subseteq 1..now
      BY <2>2, <2>3 DEF SampleCondition, Typed
    <3>4. ended' \subseteq ((1..now) \X (1..now) \X Outcomes)
      BY <2>2, <3>1 DEF Typed
    <3> QED BY <2>1, <3>1, <3>2, <3>3, <3>4 DEF Typed
  <2>4. CASE SamplePattern(sample)
    <3> DEFINE holds == sample.holds
    <3>1. Active' = ActiveAfter(holds) /\ attempts' = Advanced(holds)
      BY <1>1, <2>4, Growth DEF SamplePattern, Active
    <3>2. \A i \in Active' : attempts'[i] \in PatternState
      BY <1>1, <3>1, AdvancedTyped
    <3>3. last_condition' \in BOOLEAN /\ incomplete' \in BOOLEAN
      BY <2>4 DEF SamplePattern, Typed, Proceeds, HasRoom
    <3>4. ended' \subseteq ((1..now) \X (1..now) \X Outcomes)
      BY <1>1, <2>2, <2>4, EndedTyped DEF SamplePattern, Typed
    <3>5. hits' \subseteq 1..now
      BY <2>2, <2>4 DEF SamplePattern, Typed
    <3> QED BY <2>1, <3>2, <3>3, <3>4, <3>5 DEF Typed
  <2> QED BY <1>2, <2>3, <2>4 DEF Sample
<1>3. CASE (\E reason \in Reasons : ClearMatcher(reason)) \/ ResetCoverage
  <2>1. Clear /\ (incomplete' = incomplete \/ incomplete' = FALSE)
    BY <1>3 DEF ClearMatcher, ResetCoverage
  <2>2. Active' = {} /\ ended' = {} /\ hits' = {}
    BY <2>1, EmptySeq DEF Clear, Active
  <2>3. incomplete' \in BOOLEAN
    BY <2>1 DEF Typed
  <2>4. last_condition' \in BOOLEAN
    BY <2>1 DEF Clear
  <2> QED BY <2>2, <2>3, <2>4 DEF Typed
<1>4. CASE UNCHANGED vars
  BY <1>4 DEF vars, Typed, Active
<1> QED BY <1>2, <1>3, <1>4 DEF Next

(* For every valid program, overlap and capacity each reachable state of   *)
(* the matcher is well typed (PatternMatcher::Advance, Clear): attempts    *)
(* hold states of the program and are named by samples taken since the     *)
(* last clear.                                                             *)
THEOREM TypeCorrect == Spec => []TypeOK
<1>1. IInv /\ Typed => TypeOK
  BY ActiveIsFinite DEF IInv, Named, Typed, TypeOK
<1> QED BY <1>1, InitIInv, NextIInv, InitTyped, NextTyped, PTL DEF Spec
=============================================================================
