-------------------------- MODULE PatternReference --------------------------
(***************************************************************************)
(* What a matcher should have found in the samples it has seen, stated     *)
(* over a whole trace of them instead of sample by sample: the meaning     *)
(* docs/en/reference/triggers.md gives to the steps and modes.             *)
(***************************************************************************)
EXTENDS PatternMatcher, FiniteSetsExt

True(tr, root, t)  == root \in tr[t].holds
Known(tr, root, t) == root \in tr[t].known

(* A step first looked at on sample s is satisfied, or missed, on t.       *)
SatisfiedOn(tr, step, s, t) ==
  CASE step.kind = "Wait"   -> True(tr, step.root, t)
    [] step.kind = "Next"   -> t = s /\ True(tr, step.root, t)
    [] step.kind = "Within" -> /\ t - s + 1 \in step.minimum..step.maximum
                               /\ True(tr, step.root, t)
    [] step.kind = "Hold"   -> \E first \in s..t : /\ first + step.cycles = t + 1
                                                   /\ \A u \in first..t : True(tr, step.root, u)

MissedOn(tr, step, s, t) ==
  CASE step.kind = "Next"   -> t = s /\ ~True(tr, step.root, t)
    [] step.kind = "Within" -> t - s + 1 > step.maximum
    [] OTHER                -> FALSE

SettlesOn(tr, step, s) ==
  {t \in s..Len(tr) : SatisfiedOn(tr, step, s, t) \/ MissedOn(tr, step, s, t)}

(* What becomes of an attempt whose step k is first looked at on sample s: *)
(* how and on which sample it ends, or at which step it still is.  The     *)
(* fates of attempts at the next step are in next.                         *)
Outcome(tr, steps, k, s, next) ==
  IF k > Len(steps) THEN [how |-> "completed", at |-> s - 1, step |-> k, since |-> s]
  ELSE IF SettlesOn(tr, steps[k], s) = {}
  THEN [how |-> "continues", at |-> Len(tr) + 1, step |-> k, since |-> s]
  ELSE LET t == Min(SettlesOn(tr, steps[k], s)) IN
       IF SatisfiedOn(tr, steps[k], s, t) THEN next[t + 1]
       ELSE [how |-> IF steps[k].kind = "Next" THEN "failed" ELSE "expired",
             at |-> t, step |-> k, since |-> s]

Fates(tr, steps) ==
  LET fate[k \in 1..Len(steps) + 1] ==
        [s \in 1..Len(tr) + 1 |-> Outcome(tr, steps, k, s, fate[k + 1])]
  IN fate
Fate(tr, steps) == Fates(tr, steps)[1]

(* An attempt can begin on s: its first step makes progress there.         *)
CanBegin(tr, step, s) ==
  CASE step.kind = "Within" -> step.maximum > 0
    [] OTHER                -> True(tr, step.root, s)

(* Attempts begin as soon as they can; without overlap, only on samples    *)
(* that no earlier attempt has used; never beyond the capacity.            *)
BeginsOn(tr, c, fate, earlier, t) ==
  /\ CanBegin(tr, c.program.steps[1], t)
  /\ c.overlap \/ \A s \in earlier : fate[s].at < t
  /\ Cardinality({s \in earlier : fate[s].at > t}) < c.max_active

Begun(tr, c, fate) ==
  LET begun[t \in 0..Len(tr)] ==
        IF t = 0 THEN {}
        ELSE begun[t - 1] \cup (IF BeginsOn(tr, c, fate, begun[t - 1], t) THEN {t} ELSE {})
  IN begun
ReferenceStarts(tr, c, fate) == Begun(tr, c, fate)[Len(tr)]

(* The attempts a sequence matcher has in progress, the steps they are at, *)
(* and when and how the others ended, are those the whole trace implies.   *)
(* (Wait, Next, Within and Hold, overlap, the sample on which an attempt   *)
(* ends.)                                                                  *)
SequenceMatchesReference ==
  Program.kind = "Sequence" =>
    LET fate   == Fate(trace, Program.steps)
        starts == ReferenceStarts(trace, config, fate)
        done   == {s \in starts : fate[s].how # "continues"}
    IN /\ Active = starts \ done
       /\ \A s \in Active : attempts[s].index + 1 = fate[s].step
       /\ ended = {<<s, fate[s].at, fate[s].how>> : s \in done}
       /\ hits = {fate[s].at : s \in {d \in done : fate[d].how = "completed"}}

(* A plain expression hits where its mode says, compared with the latest   *)
(* earlier sample on which it was known, and false before the first.       *)
KnownBefore(tr, root, t) == {u \in 1..t - 1 : Known(tr, root, u)}
HeldBefore(tr, root, t) ==
  KnownBefore(tr, root, t) # {} /\ True(tr, root, Max(KnownBefore(tr, root, t)))
ExpectedHits(tr, root, mode) ==
  {t \in 1..Len(tr) :
     /\ Known(tr, root, t)
     /\ CASE mode = "EachSample" -> True(tr, root, t)
          [] mode = "Enter"      -> True(tr, root, t) /\ ~HeldBefore(tr, root, t)
          [] OTHER               -> True(tr, root, t) # HeldBefore(tr, root, t)}

ConditionMatchesReference ==
  Program.kind = "Expr" => hits = ExpectedHits(trace, Program.root, Program.mode)

(* A value-transition bin (Wait, then only Next steps) gives its matcher a *)
(* capacity of as many attempts as it has steps: that is always enough, so *)
(* sampling never fails on it.  (CoverageState::SampleValuePoint.)         *)
Adjacent == /\ Program.kind = "Sequence"
            /\ \A k \in 2..Len(Program.steps) : Program.steps[k].kind = "Next"
            /\ config.max_active >= Len(Program.steps)

AdjacentNeverExhausts == Adjacent => ~incomplete
=============================================================================
