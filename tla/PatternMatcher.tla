--------------------------- MODULE PatternMatcher ---------------------------
(***************************************************************************)
(* A matcher of one pattern program (src/trigger/matcher.cpp) with the     *)
(* diagnostics coverage keeps of it (src/coverage/state.cpp).  On every    *)
(* sample each attempt in progress advances, and a new attempt may start;  *)
(* with overlap several attempts are in progress at once, up to a          *)
(* capacity.  Coverage clears the matcher when its gate closes, when its   *)
(* abort condition holds and when its history is reset.                    *)
(*                                                                         *)
(* At most one attempt starts per sample, so an attempt is named by the    *)
(* number, since the last clear, of the sample it started on.              *)
(***************************************************************************)
EXTENDS PatternExecutor, FiniteSets

CONSTANTS
  Roots,        (* The expressions of the programs.                        *)
  Configs,      (* The matchers: records program, overlap, max_active.     *)
  Samples,      (* What the expressions may evaluate to: known, holds.     *)
  MaxSamples,   (* Bound on the samples between two clears.                *)
  MaxStarted    (* Bound on the attempts started between two resets.       *)

ASSUME ConfigsAssumption ==
  \A c \in Configs : c.max_active \in Nat /\ c.overlap \in BOOLEAN
ASSUME ValidAssumption ==
  \A c \in Configs : ValidProgram(c.program, c.overlap, c.max_active, Roots)
ASSUME SamplesAssumption == \A s \in Samples : s.holds \subseteq s.known

VARIABLES
  config,         (* The program and its limits, never changed.            *)
  attempts,       (* The state of each attempt in progress.                *)
  last_condition, (* The last known value of a plain expression.           *)
  diagnostics,    (* Counters since the last reset.                        *)
  incomplete,     (* The capacity was exhausted since the last reset.      *)
  (* History, read by properties only. *)
  trace,          (* The samples since the last clear.                     *)
  ended,          (* How the attempts since the last clear have ended.     *)
  hits            (* The samples since the last clear that completed.      *)

vars == <<config, attempts, last_condition, diagnostics, incomplete, trace,
          ended, hits>>

Outcomes == {"completed", "failed", "expired"}
Reasons  == {"aborted", "cleared"}

NoDiagnostics == [started |-> 0, completed |-> 0, failed |-> 0, expired |-> 0,
                  aborted |-> 0, cleared |-> 0, peak |-> 0]

Init ==
  /\ config \in Configs
  /\ attempts = << >> /\ last_condition = FALSE
  /\ diagnostics = NoDiagnostics /\ incomplete = FALSE
  /\ trace = << >> /\ ended = {} /\ hits = {}

-----------------------------------------------------------------------------
(* PatternMatcher::Advance                                                 *)

now     == Len(trace) + 1
Active  == DOMAIN attempts
Program == config.program

(* The results of the attempts in progress, and how each of them ends.     *)
Result(i, holds) == Advance(Program, attempts[i], holds)

HowEndsUnlessFailed(r) == IF r.completed THEN "completed"    \* mutant: not dropped
                          ELSE IF r.expired THEN "expired" ELSE "continues"

HowEnds(r) == IF r.completed THEN "completed"
              ELSE IF r.expired THEN "expired"
              ELSE IF r.failed THEN "failed" ELSE "continues"

Ends(how, holds) == {i \in Active : HowEnds(Result(i, holds)) = how}
Kept(holds)      == Ends("continues", holds)

(* A new attempt is tried on this sample; it starts if it completes at     *)
(* once or has left the start of the program.                              *)
Tries == config.overlap \/ Active = {}
Candidate(holds) == Advance(Program, StartState(Program), holds)
HasLeft(state)   == IF Program.kind = "Fsm" THEN state.fsm # Program.start
                    ELSE state.index # 0 \/ state.age # 0 \/ state.held # 0
Proceeds(holds)  == /\ Tries
                    /\ Candidate(holds).completed \/ HasLeft(Candidate(holds).state)

HasRoomForMore(holds) == Cardinality(Kept(holds)) <= config.max_active  \* mutant
HasRoom(holds) == Cardinality(Kept(holds)) < config.max_active
Starts(holds)  == Proceeds(holds) /\ HasRoom(holds)
Stays(holds)   == Starts(holds) /\ ~Candidate(holds).completed

One(b) == IF b THEN 1 ELSE 0

(* The attempts that finished are dropped and the new one is added.        *)
ActiveAfter(holds) == Kept(holds) \cup (IF Stays(holds) THEN {now} ELSE {})
Advanced(holds) ==
  [i \in ActiveAfter(holds) |->
     IF i \in Active THEN Result(i, holds).state ELSE Candidate(holds).state]

EndedBy(holds) ==
  {<<i, now, HowEnds(Result(i, holds))>> : i \in Active \ Kept(holds)}
    \cup (IF Starts(holds) /\ ~Stays(holds) THEN {<<now, now, "completed">>} ELSE {})

Completes(holds) == Cardinality(Ends("completed", holds)) + One(Starts(holds) /\ ~Stays(holds))

(* CoverageState::RecordDiagnostics                                        *)
CountOnlyKept(holds) ==        \* mutant: completions of a first sample uncounted
  [diagnostics EXCEPT
     !.started   = @ + One(Starts(holds)),
     !.completed = @ + Cardinality(Ends("completed", holds)),
     !.failed    = @ + Cardinality(Ends("failed", holds)),
     !.expired   = @ + Cardinality(Ends("expired", holds))]

RecordDiagnostics(holds) ==
  [diagnostics EXCEPT
     !.started   = @ + One(Starts(holds)),
     !.completed = @ + Completes(holds),
     !.failed    = @ + Cardinality(Ends("failed", holds)),
     !.expired   = @ + Cardinality(Ends("expired", holds)),
     !.peak      = IF Starts(holds) /\ @ <= Cardinality(Kept(holds))
                   THEN Cardinality(Kept(holds)) + 1 ELSE @]

(* A plain expression has no attempts and no diagnostics.                  *)
Condition(sample) ==
  MatchCondition(Program.root \in sample.known, Program.root \in sample.holds,
                 Program.mode, last_condition)

SampleCondition(sample) ==
  /\ Program.kind = "Expr"
  /\ last_condition' = Condition(sample).previous
  /\ hits' = IF Condition(sample).hit THEN hits \cup {now} ELSE hits
  /\ UNCHANGED <<attempts, diagnostics, incomplete, ended>>

(* Advance has taken effect when coverage reports an exhausted capacity.   *)
SamplePattern(sample) ==
  /\ Program.kind # "Expr"
  /\ attempts' = Advanced(sample.holds)
  /\ diagnostics' = RecordDiagnostics(sample.holds)
  /\ incomplete' = (incomplete \/ (Proceeds(sample.holds) /\ ~HasRoom(sample.holds)))
  /\ ended' = ended \cup EndedBy(sample.holds)
  /\ hits' = IF Completes(sample.holds) > 0 THEN hits \cup {now} ELSE hits
  /\ UNCHANGED last_condition

Sample(sample) ==
  /\ Len(trace) < MaxSamples /\ diagnostics.started < MaxStarted
  /\ trace' = Append(trace, sample)
  /\ SampleCondition(sample) \/ SamplePattern(sample)
  /\ UNCHANGED config

-----------------------------------------------------------------------------
(* PatternMatcher::Clear, as CoverageState::ClearMatcher calls it.         *)

ClearCondition ==                            \* mutant: the attempts are kept
  /\ UNCHANGED attempts /\ last_condition' = FALSE
  /\ trace' = << >> /\ ended' = {} /\ hits' = {}

Clear ==
  /\ attempts' = << >> /\ last_condition' = FALSE
  /\ trace' = << >> /\ ended' = {} /\ hits' = {}

ClearMatcher(reason) ==
  /\ Clear
  /\ diagnostics' = [diagnostics EXCEPT ![reason] = @ + Cardinality(Active)]
  /\ UNCHANGED <<config, incomplete>>

(* XEngine::ResetCoverage with counters: ClearHistory, then ResetCounters. *)
ResetCoverage ==
  /\ Clear
  /\ diagnostics' = NoDiagnostics
  /\ incomplete' = FALSE
  /\ UNCHANGED config

Next ==
  \/ \E s \in Samples : Sample(s)
  \/ \E reason \in Reasons : ClearMatcher(reason)
  \/ ResetCoverage

Spec == Init /\ [][Next]_vars

-----------------------------------------------------------------------------
TypeOK ==
  /\ config \in Configs
  /\ Active \subseteq 1..Len(trace)
  /\ IsFiniteSet(Active)
  /\ \A i \in Active : attempts[i] \in PatternState
  /\ last_condition \in BOOLEAN /\ incomplete \in BOOLEAN
  /\ diagnostics \in [DOMAIN NoDiagnostics -> Nat]
  /\ trace \in Seq(Samples)
  /\ ended \subseteq ((1..Len(trace)) \X (1..Len(trace)) \X Outcomes)
  /\ hits \subseteq 1..Len(trace)

(* No attempt is lost or counted twice: every attempt started since the    *)
(* counters were reset has ended in exactly one of the recorded ways, was  *)
(* dropped by a clear, or is in progress.  (PatternMatcher::Advance,       *)
(* RecordDiagnostics, ClearMatcher.)                                       *)
Conservation ==
  diagnostics.started =
    diagnostics.completed + diagnostics.failed + diagnostics.expired
      + diagnostics.aborted + diagnostics.cleared + Cardinality(Active)

(* The capacity is never exceeded, peak_active covers the attempts in      *)
(* progress, and without overlap at most one is.                           *)
WithinCapacity ==
  /\ Cardinality(Active) <= diagnostics.peak
  /\ diagnostics.peak <= config.max_active
  /\ ~config.overlap => Cardinality(Active) <= 1
=============================================================================
