------------------------------ MODULE Coverage ------------------------------
(***************************************************************************)
(* The statistics of one coverage group (src/coverage/state.cpp).  When    *)
(* its source hits, a group is sampled: every point classifies the sample  *)
(* into its bins, and the counters of the group, its points and its bins   *)
(* are updated together.  Gates leave samples out, and a pattern a gate    *)
(* interrupts starts afresh.  A sample can raise: because the group        *)
(* met an illegal bin, or because it could not be counted.                 *)
(*                                                                         *)
(* Points and bins count from 1 here and the group itself is point 0, so   *)
(* that a counter is a pair <<owner, what it counts>>.                     *)
(***************************************************************************)
EXTENDS PatternExecutor, SequencesExt

CONSTANTS
  Roots,        (* The expressions.                                        *)
  Groups,       (* The coverage definitions a registration may attach.     *)
  Looks,        (* What a tick may find: known, holds, valid signals.      *)
  MaxCounter,   (* Stands for the largest uint64_t.                        *)
  MaxEpoch,     (* The same, for the number of resets.                     *)
  MaxTicks      (* Bound on the ticks the source is evaluated on.          *)

VARIABLES
  group,        (* The definition, never changed.                          *)
  source,       (* The matcher of a temporal source.                       *)
  matchers,     (* A matcher for each bin; bins may share their owner's.   *)
  counters,     (* snapshot.counters                                       *)
  illegal,      (* snapshot.illegal_bins                                   *)
  epoch,        (* snapshot.epoch                                          *)
  incomplete,   (* snapshot.incomplete                                     *)
  look,         (* What the expressions and signals are in this tick, or   *)
                (* Nothing once it has been sampled.                       *)
  sampled,      (* No evaluation of the source is due on this tick.        *)
  pending,      (* Samples the source still has to take on this tick.      *)
  ticks,
  (* History, read by properties only. *)
  recent        (* The samples that each transition last took, in a row.   *)

vars == <<group, source, matchers, counters, illegal, epoch, incomplete, look,
          sampled, pending, ticks, recent>>

-----------------------------------------------------------------------------
(* The definition of a group                                               *)

Kinds == {"Normal", "Ignore", "Illegal", "Default"}

points == group.points
bins   == group.bins
Points == DOMAIN points
Bins   == DOMAIN bins
BinsOf(p)  == {b \in Bins : bins[b].point = p}
PointOf(b) == bins[b].point
KindOf(b)  == points[PointOf(b)].kind
IsPattern(b) == KindOf(b) = "Pattern"
IsSequence(b) == bins[b].program.kind = "Sequence"

(* An execution runs once for all bins of a pattern point that declare the *)
(* same program: the first of them owns the matcher.                       *)
SameCoverageExecution(a, b) ==
  /\ bins[a].point = bins[b].point
  /\ bins[a].program = bins[b].program
  /\ bins[a].overlap = bins[b].overlap
  /\ bins[a].max_active = bins[b].max_active

OwnerOf(b) == IF IsPattern(b) THEN Min({a \in 1..b : SameCoverageExecution(a, b)})
              ELSE b
Owners     == {b \in Bins : OwnerOf(b) = b}

(* A transition of a value point keeps as many attempts as it has steps.   *)
Limits(b) ==
  [program    |-> bins[b].program,
   overlap    |-> bins[b].overlap,
   max_active |-> IF IsPattern(b) THEN bins[b].max_active
                  ELSE Len(bins[b].program.steps)]

ValidPoint(g, p) ==
  LET point == g.points[p] IN
  /\ point.kind \in {"Value", "Pattern", "Cross"} /\ point.dims \in Seq(DOMAIN g.points)
  /\ point.gate \in Roots \cup {NoRoot}
  /\ (point.kind = "Cross") = (point.dims # << >>)
  /\ \A d \in Range(point.dims) : d < p /\ g.points[d].kind = "Value"

ValidBin(g, b) ==
  LET bin == g.bins[b]  point == g.points[bin.point] IN
  /\ bin.point \in DOMAIN g.points /\ bin.kind \in Kinds
  /\ IF point.kind = "Pattern" \/ bin.program.kind = "Sequence"
     THEN ValidProgram(bin.program, bin.overlap, bin.max_active, Roots)
     ELSE bin.program.kind = "Expr" /\ bin.program.root \in Roots \cup {NoRoot}
  /\ point.kind = "Pattern" => bin.kind # "Default"
  /\ point.kind # "Pattern" =>
       /\ bin.program.kind # "Fsm" /\ bin.terminals = {}
       /\ bin.program.kind = "Sequence" =>
            \A step \in Range(bin.program.steps) : step.kind \in {"Wait", "Next"}
  /\ bin.terminals \subseteq
       (IF bin.program.kind # "Fsm" THEN {}
        ELSE {t.terminal : t \in {u \in Range(bin.program.transitions) : u.trigger}})
  /\ Len(bin.dims) = Len(point.dims)
  /\ \A j \in DOMAIN bin.dims : LET d == bin.dims[j] IN
       d \in DOMAIN g.bins /\ g.bins[d].kind = "Normal" /\ g.bins[d].point = point.dims[j]

ASSUME GroupsAssumption == \A g \in Groups :
  /\ g.points # << >> /\ g.points \in Seq(Range(g.points))
  /\ g.bins # << >> /\ g.bins \in Seq(Range(g.bins))
  /\ g.diagnostic_capacity \in Nat \ {0}
  /\ {g.gate, g.abort} \subseteq Roots \cup {NoRoot}
  /\ \A p \in DOMAIN g.points : ValidPoint(g, p)
  /\ \A b \in DOMAIN g.bins : ValidBin(g, b)

ASSUME LooksAssumption == \A l \in Looks : l.holds \subseteq l.known /\ l.known \subseteq Roots
ASSUME BoundsAssumption == MaxCounter \in Nat \ {0} /\ MaxEpoch \in Nat /\ MaxTicks \in Nat

-----------------------------------------------------------------------------
(* Matchers.  An attempt is named by a number no other attempt has.        *)

NoHistory == [attempts |-> << >>, last_condition |-> FALSE]
Fresh(m)  == [i \in 1..Max({0} \cup DOMAIN m.attempts) |-> << >>]

Matcher(limits, m) == INSTANCE PatternMatcher WITH
  config <- limits, attempts <- m.attempts, last_condition <- m.last_condition,
  trace <- Fresh(m), diagnostics <- << >>, incomplete <- FALSE, ended <- {},
  hits <- {}, Configs <- {}, Samples <- {}, MaxSamples <- 0, MaxStarted <- 0

AdvanceMatcher(limits, m) ==
  IF limits.program.kind = "Expr"
  THEN [attempts |-> m.attempts, last_condition |-> Matcher(limits, m)!Condition(look).previous]
  ELSE [attempts |-> Matcher(limits, m)!Advanced(look.holds), last_condition |-> m.last_condition]

Exhausted(limits, m) ==
  /\ limits.program.kind # "Expr"
  /\ Matcher(limits, m)!Proceeds(look.holds) /\ ~Matcher(limits, m)!HasRoom(look.holds)

One(condition) == IF condition THEN 1 ELSE 0

(* The attempts that complete on this look, at the selected terminals.     *)
SelectedOnly(result, terminals) ==                  \* mutant: empty selects none
  result.completed /\ result.terminal \in terminals

Selected(result, terminals) ==
  result.completed /\ (terminals = {} \/ result.terminal \in terminals)

Completed(limits, m, terminals) ==
  IF limits.program.kind = "Expr" THEN One(Matcher(limits, m)!Condition(look).hit)
  ELSE Cardinality({i \in DOMAIN m.attempts :
                      Selected(Matcher(limits, m)!Result(i, look.holds), terminals)})
         + One(/\ Matcher(limits, m)!Starts(look.holds)
               /\ Selected(Matcher(limits, m)!Candidate(look.holds), terminals))

-----------------------------------------------------------------------------
(* What one look at the group adds to each counter                         *)

Enabled(root) == root = NoRoot \/ root \in look.holds

GroupOpen   == Enabled(group.gate)
Open(p)     == Enabled(points[p].gate)
Known(p)    == points[p].kind = "Value" => p \in look.valid
Eligible(p) == Open(p) /\ Known(p)

Completions(b) ==
  Completed(Limits(b), matchers[OwnerOf(b)], bins[b].terminals)

(* Value points: the hits of the highest kind count, or else the defaults. *)
Hit(b) == /\ bins[b].kind # "Default"
          /\ IF IsSequence(b) THEN Completions(b) # 0 ELSE Enabled(bins[b].program.root)
Rank(kind) == CASE kind = "Illegal" -> 2 [] kind = "Ignore" -> 1 [] OTHER -> 0
Outranks(a, b) == Rank(bins[a].kind) > Rank(bins[b].kind)

Highest(p, hits) ==
  IF hits = {} THEN {b \in BinsOf(p) : bins[b].kind = "Default"}
  ELSE {b \in hits : \A c \in hits : ~Outranks(c, b)}
Classified(p) == Highest(p, {b \in BinsOf(p) : Hit(b)})

Matched(p) == IF Eligible(p) THEN {b \in Classified(p) : bins[b].kind = "Normal"} ELSE {}

(* Cross points: the combinations of the normal hits of the dimensions.    *)
Products(p) ==
  LET product[n \in 0..Len(points[p].dims)] ==
        IF n = 0 THEN 1 ELSE Cardinality(Matched(points[p].dims[n])) * product[n - 1]
  IN product
Combinations(p) == Products(p)[Len(points[p].dims)]
CrossOverflows(p) == \E n \in DOMAIN points[p].dims : Products(p)[n] > MaxCounter

CrossHits(p) ==
  LET matched == UNION {Matched(d) : d \in Range(points[p].dims)}
  IN {b \in BinsOf(p) : Range(bins[b].dims) \subseteq matched}

HitBins(p) == CASE points[p].kind = "Value"   -> Classified(p)
                [] points[p].kind = "Pattern" -> {b \in BinsOf(p) : Completions(b) > 0}
                [] points[p].kind = "Cross"   -> CrossHits(p)
Count(b) == IF IsPattern(b) THEN Completions(b) ELSE One(b \in HitBins(PointOf(b)))

(* The unsigned difference of the combinations and the bins they hit.      *)
CrossUnmatched(p, hits) ==
  IF Combinations(p) = 0 THEN 1
  ELSE (Combinations(p) - Cardinality(hits)) % (MaxCounter + 1)

TakenDelta(p, hits) ==
  LET ignored == {b \in hits : bins[b].kind = "Ignore"} IN
  [samples |-> 1, gated |-> 0, unknown |-> 0,
   ignored   |-> IF points[p].kind = "Cross" THEN Cardinality(ignored)
                 ELSE One(ignored # {}),
   unmatched |-> IF points[p].kind = "Cross" THEN CrossUnmatched(p, hits)
                 ELSE One(hits = {})]

GatedUnlessUnknown(p) ==                            \* mutant: unknown apart from gated
  [samples |-> 0, gated |-> One(~Open(p)), unknown |-> One(Open(p)),
   ignored |-> 0, unmatched |-> 0]

GatedDelta(p) == [samples |-> 0, gated |-> 1, unknown |-> One(Open(p)),
                  ignored |-> 0, unmatched |-> 0]

PointDelta(p) == IF Eligible(p) THEN TakenDelta(p, HitBins(p)) ELSE GatedDelta(p)

Fields == {"samples", "gated", "ignored", "unmatched", "unknown"}
Names  == ({0} \X {"samples", "gated"}) \cup (Points \X Fields) \cup (Bins \X {"count"})
ZeroCounters == [name \in Names |-> 0]

BinDelta(b)   == IF Eligible(PointOf(b)) THEN Count(b) ELSE 0

Delta == [name \in Names |->
  IF name[1] = 0 THEN One(name[2] = "samples" <=> GroupOpen)
  ELSE IF ~GroupOpen THEN 0
  ELSE IF name[2] = "count" THEN BinDelta(name[1]) ELSE PointDelta(name[1])[name[2]]]

IllegalHits == {b \in Bins : bins[b].kind = "Illegal" /\ Delta[<<b, "count">>] > 0}

-----------------------------------------------------------------------------
(* What one look does to the matchers.  Points, and the bins of a point,   *)
(* take their turn in order; one that cannot go on raises, and those after *)
(* it are left as they were.                                               *)

Advances(b) ==
  /\ b \in Owners /\ Eligible(PointOf(b))
  /\ \/ IsPattern(b)
     \/ KindOf(b) = "Value" /\ IsSequence(b) /\ bins[b].kind # "Default"

Failures == {<<PointOf(b), b>> : b \in {c \in Bins : Advances(c) /\ Exhausted(Limits(c), matchers[c])}}
  \cup {<<p, 0>> : p \in {q \in Points : Eligible(q) /\ CrossOverflows(q)}}

Precedes(x, y) == x[1] < y[1] \/ (x[1] = y[1] /\ x[2] < y[2])
Reached(p, b)  == \A f \in Failures : ~Precedes(f, <<p, b>>)
FailsInMatcher == \E f \in Failures : f[2] # 0 /\ Reached(f[1], f[2])

(* A gate, of the group or of a point reached, ends what it interrupts.    *)
Interrupted(b) == ~GroupOpen \/ (Reached(PointOf(b), b) /\ ~Eligible(PointOf(b)))

AdvancedAcrossGates(b) ==                           \* mutant: a point's gate keeps history
  IF b \in Owners /\ ~GroupOpen THEN NoHistory
  ELSE IF Advances(b) THEN AdvanceMatcher(Limits(b), matchers[b])
  ELSE matchers[b]

AdvancedBin(b) ==
  IF b \in Owners /\ Interrupted(b) THEN NoHistory
  ELSE IF Reached(PointOf(b), b) /\ Advances(b) THEN AdvanceMatcher(Limits(b), matchers[b])
  ELSE matchers[b]

(* A bin of a value point that counts consecutive samples, and as many of  *)
(* the samples it last took as it has steps.                               *)
Adjacent(b) == \A k \in 2..Len(bins[b].program.steps) : bins[b].program.steps[k].kind = "Next"
Transitions == {b \in Bins : /\ KindOf(b) = "Value" /\ bins[b].kind # "Default"
                             /\ IsSequence(b) /\ bins[b].overlap /\ Adjacent(b)}

LastOf(s, n) == SubSeq(s, IF Len(s) < n THEN 1 ELSE Len(s) - n + 1, Len(s))
Seen(b) ==
  IF Interrupted(b) THEN << >>
  ELSE IF Reached(PointOf(b), b)
  THEN LastOf(Append(recent[b], look.holds), Len(bins[b].program.steps))
  ELSE recent[b]

-----------------------------------------------------------------------------
Nothing == [known |-> {}, holds |-> {}, valid |-> {}]
Rest    == look' = IF pending' = 0 THEN Nothing ELSE look

Init ==
  /\ group \in Groups
  /\ source = NoHistory /\ matchers = [b \in Bins |-> NoHistory]
  /\ counters = ZeroCounters /\ illegal = << >> /\ epoch = 0 /\ incomplete = FALSE
  /\ look = Nothing /\ sampled = TRUE /\ pending = 0 /\ ticks = 0
  /\ recent = [b \in Transitions |-> << >>]

ClearHistory ==
  /\ source' = NoHistory /\ matchers' = [b \in Bins |-> NoHistory]
  /\ recent' = [b \in Transitions |-> << >>]

(* Time passes: the clock reaches the phase of the registration.           *)
Tick ==
  /\ pending = 0 /\ ticks < MaxTicks
  /\ look' \in Looks /\ sampled' = FALSE /\ ticks' = ticks + 1
  /\ UNCHANGED <<group, source, matchers, counters, illegal, epoch, incomplete,
                 pending, recent>>

(* EvaluateCoverage: the source is evaluated once per tick.                *)
BeginSample == ~sampled /\ sampled' = TRUE

Aborted == group.abort # NoRoot /\ group.abort \in look.holds

Abort ==
  /\ BeginSample /\ Aborted
  /\ ClearHistory
  /\ UNCHANGED <<group, counters, illegal, epoch, incomplete, pending, ticks>>
  /\ Rest

(* A source without a pattern takes one sample when it hits.               *)
IsTemporal == group.source.program.kind # "Expr"

EvaluateSource(hits) ==
  /\ BeginSample /\ ~Aborted /\ ~IsTemporal
  /\ pending' = hits
  /\ Rest
  /\ UNCHANGED <<group, source, matchers, counters, illegal, epoch, incomplete,
                 ticks, recent>>

(* SamplePattern: each attempt the source completes is a sample.           *)
AdvanceSource ==
  /\ BeginSample /\ ~Aborted /\ IsTemporal
  /\ source' = AdvanceMatcher(group.source, source)
  /\ incomplete' = (incomplete \/ Exhausted(group.source, source))
  /\ pending' = IF Exhausted(group.source, source) THEN 0
                ELSE Completed(group.source, source, {})
  /\ Rest
  /\ UNCHANGED <<group, matchers, counters, illegal, epoch, ticks, recent>>

-----------------------------------------------------------------------------
(* Sample.  The counters are updated after every point has had its turn,   *)
(* so a sample that raises before that leaves them alone; what remains of  *)
(* the samples of this tick is lost with it.                               *)

Look ==
  /\ pending > 0
  /\ matchers' = [b \in Bins |-> AdvancedBin(b)]
  /\ recent' = [b \in Transitions |-> Seen(b)]
  /\ Rest
  /\ UNCHANGED <<group, source, epoch, sampled, ticks>>

FitsInCounters ==                                   \* mutant: capacity not checked
  \A name \in Names : MaxCounter - counters[name] >= Delta[name]

FitsOnRecord ==                                     \* mutant: overflow not checked
  Len(illegal) + Cardinality(IllegalHits) <= group.diagnostic_capacity

Fits == /\ Len(illegal) + Cardinality(IllegalHits) <= group.diagnostic_capacity
        /\ \A name \in Names : MaxCounter - counters[name] >= Delta[name]

Fails == GroupOpen /\ Failures # {}

SampleFails ==
  /\ Fails
  /\ incomplete' = (incomplete \/ FailsInMatcher)
  /\ pending' = 0
  /\ UNCHANGED <<counters, illegal>>
  /\ Look

SampleDoesNotFit ==
  /\ ~Fails /\ ~Fits
  /\ pending' = 0
  /\ UNCHANGED <<counters, illegal, incomplete>>
  /\ Look

(* The sequence that lists a set of bins in their order.                   *)
Listings(S) == {list \in [1..Cardinality(S) -> S] :
                  \A i, j \in DOMAIN list : i < j => list[i] < list[j]}

SampleCounts ==
  /\ ~Fails /\ Fits
  /\ counters' = [name \in Names |-> (counters[name] + Delta[name]) % (MaxCounter + 1)]
  /\ \E list \in Listings(IllegalHits) : illegal' = illegal \o list
  /\ pending' = IF IllegalHits # {} /\ group.raise_illegal THEN 0 ELSE pending - 1
  /\ UNCHANGED incomplete
  /\ Look

-----------------------------------------------------------------------------
(* XEngine::ResetCoverage.  The history is cleared first; the epoch may    *)
(* then refuse to advance, and the counters stay.                          *)
MayReset == pending = 0 /\ ClearHistory /\ UNCHANGED <<group, look, sampled, pending, ticks>>

ResetHistory == MayReset /\ UNCHANGED <<counters, illegal, epoch, incomplete>>

ResetEpochWraps ==                                  \* mutant: epoch not checked
  /\ MayReset
  /\ counters' = ZeroCounters /\ illegal' = << >> /\ incomplete' = FALSE
  /\ epoch' = epoch + 1

ResetCounters ==
  /\ epoch < MaxEpoch
  /\ MayReset
  /\ counters' = ZeroCounters /\ illegal' = << >> /\ incomplete' = FALSE
  /\ epoch' = epoch + 1

Next ==
  \/ Tick \/ Abort \/ AdvanceSource \/ \E hits \in 0..1 : EvaluateSource(hits)
  \/ SampleFails \/ SampleDoesNotFit \/ SampleCounts
  \/ ResetHistory \/ ResetCounters

Spec == Init /\ [][Next]_vars
-----------------------------------------------------------------------------
TypeOK ==
  /\ group \in Groups
  /\ DOMAIN matchers = Bins
  /\ \A m \in {source} \cup Range(matchers) :
       /\ DOMAIN m.attempts \subseteq Nat \ {0} /\ IsFiniteSet(DOMAIN m.attempts)
       /\ m.last_condition \in BOOLEAN
  /\ counters \in [Names -> 0..MaxCounter]
  /\ illegal \in Seq(Bins) /\ epoch \in 0..MaxEpoch /\ incomplete \in BOOLEAN
  /\ look \in Looks \cup {Nothing} /\ sampled \in BOOLEAN /\ pending \in Nat /\ ticks \in 0..MaxTicks
  /\ recent \in [Transitions -> Seq(SUBSET Roots)]

(* The hits that the bins of a point have counted, one mark for each.      *)
Marks(p) == {mark \in BinsOf(p) \X (1..MaxCounter) : mark[2] <= counters[<<mark[1], "count">>]}

(* Every sample of the group is accounted for at every point: it was taken *)
(* or gated there, and a sample taken fell into a bin or is unmatched.     *)
(* Raising samples leave no trace in one counter without the others.       *)
(* (Sample, SampleValuePoint, SamplePatternPoint, SampleCrossPoint.)       *)
PointsAccountForSamples ==
  \A p \in Points :
    /\ counters[<<0, "samples">>] = counters[<<p, "samples">>] + counters[<<p, "gated">>]
    /\ counters[<<p, "unknown">>] <= counters[<<p, "gated">>]
    /\ counters[<<p, "samples">>] <= counters[<<p, "unmatched">>] + Cardinality(Marks(p))
    /\ points[p].kind # "Cross" =>
         counters[<<p, "unmatched">>] <= counters[<<p, "samples">>]

(* An illegal bin counts if and only if it is on record, the record is     *)
(* within its capacity, and outside pattern points it is exact.            *)
(* (Sample: the capacity is checked before either is updated.)             *)
Records(b) == Cardinality({i \in DOMAIN illegal : illegal[i] = b})
IllegalOnRecord ==
  /\ Len(illegal) <= group.diagnostic_capacity
  /\ \A b \in Bins : IF bins[b].kind # "Illegal" THEN Records(b) = 0
       ELSE /\ Records(b) <= counters[<<b, "count">>]
            /\ Records(b) = 0 => counters[<<b, "count">>] = 0
            /\ ~IsPattern(b) => Records(b) = counters[<<b, "count">>]

(* Bins that share one execution agree on it, however many there are: a    *)
(* bin for all terminals counts at least what a bin for some of them does, *)
(* and bins for the same terminals count the same.                         *)
(* (SamplePatternPoint, PatternMatcher::Count.)                            *)
SharedExecutionsAgree ==
  \A b, c \in Bins : OwnerOf(b) = OwnerOf(c) =>
    /\ bins[b].terminals = {} => counters[<<c, "count">>] <= counters[<<b, "count">>]
    /\ bins[b].terminals = bins[c].terminals =>
         counters[<<b, "count">>] = counters[<<c, "count">>]

(* Between two resets no counter goes down, wraps or loses an illegal      *)
(* sample; the group counts one sample at a time, and nothing else is      *)
(* counted without it.                                                     *)
NeverDecreases ==
  [][epoch' = epoch =>
       /\ \A name \in Names : counters[name] <= counters'[name]
       /\ IsPrefix(illegal, illegal')
       /\ (counters' # counters) =>
            counters'[<<0, "samples">>] + counters'[<<0, "gated">>]
              = counters[<<0, "samples">>] + counters[<<0, "gated">>] + 1]_vars

(* A transition of a value point counts exactly on the samples that end a  *)
(* run of consecutive samples satisfying its steps, unless a bin of higher *)
(* priority is hit.  A gated or unknown sample, an abort and a reset break *)
(* the run; a sample that raised is part of it.                            *)
Rose(b)    == counters'[<<b, "count">>] > counters[<<b, "count">>]
Follows(seen, steps) ==
  LET from == Len(seen) - Len(steps)
  IN from >= 0 /\ \A i \in DOMAIN steps : steps[i].root \in seen[from + i]
Outranked(b) == \E c \in BinsOf(PointOf(b)) :
  Rose(c) /\ Outranks(c, b)

TransitionsAreAdjacent ==
  [][epoch' = epoch /\ counters' # counters =>
       \A b \in Transitions :
         Rose(b) <=> /\ Follows(recent'[b], bins[b].program.steps)
                     /\ ~Outranked(b)]_vars
=============================================================================
