---------------------------- MODULE ExprReference ----------------------------
(***************************************************************************)
(* What a monitor program means, without nodes, stacks or cached history:  *)
(* conditions are formulas, evaluated over the whole log of calls since    *)
(* the program was loaded or reset.                                        *)
(*                                                                         *)
(* A line with a condition also has its formula; the monitor sees only     *)
(* line.text, the rendering of the formula.                                *)
(***************************************************************************)
EXTENDS FsmMonitor

F(kind, op, n, args) == [kind |-> kind, op |-> op, n |-> n, args |-> args]
Num(v)         == F("num", "", v, <<>>)
Sig(s)         == F("sig", s, 0, <<>>)
Un(op, a)      == F("un", op, 0, <<a>>)
Bin(a, op, b)  == F("bin", op, 0, <<a, b>>)
Chain(a, b, c) == F("chain", "<", 0, <<a, b, c>>)
Cond(c, a, b)  == F("cond", "?", 0, <<c, a, b>>)
Holds(w, a)    == F("temporal", "hold", w, <<a>>)
Within(w, a)   == F("temporal", "within", w, <<a>>)
Bad            == F("bad", "", 0, <<>>)     \* not a formula

(* How tightly each operator binds, and the text of a formula.             *)
Tightness(f) ==
  CASE f.kind = "cond"  -> 0
    [] f.kind = "chain" -> CompareLevel
    [] f.kind = "un"    -> IF f.op = "!" THEN NotLevel ELSE UnaryLevel
    [] f.kind = "bin"   -> CHOOSE l \in DOMAIN BinaryOps : f.op \in DOMAIN BinaryOps[l]
    [] OTHER -> UnaryLevel + 1

RECURSIVE Render(_, _)
Render(f, level) ==
  LET own  == Tightness(f)
      Arg(i, l) == Render(f.args[i], l)
      left == IF own = CompareLevel THEN own + 1 ELSE own
      text ==
        CASE f.kind = "num" -> <<Number(f.n)>>
          [] f.kind = "sig" -> <<Ident(f.op)>>
          [] f.kind = "un"  -> <<Op(f.op)>> \o Arg(1, own)
          [] f.kind = "bin" -> Arg(1, left) \o <<Op(f.op)>> \o Arg(2, own + 1)
          [] f.kind = "chain" -> Arg(1, left) \o <<Op("<")>> \o Arg(2, left) \o <<Op("<")>> \o Arg(3, left)
          [] f.kind = "cond"  -> Arg(1, 1) \o <<Op("?")>> \o Arg(2, 0) \o <<Op(":")>> \o Arg(3, 0)
          [] f.kind = "temporal" -> <<Op(f.op), Op("("), Number(f.n), Op(",")>> \o Arg(1, 0) \o <<Op(")")>>
          [] f.kind = "bad" -> <<Number(1), Op(")")>>
  IN  IF own < level THEN <<Op("(")>> \o text \o <<Op(")")>> ELSE text

(* Which formulas are legal: a signal is declared, is compared only with a *)
(* signal of its width, and, if wider than a word, is only compared.       *)
IsCompare(f) == f.kind = "bin" /\ f.op \in DOMAIN BinaryOps[CompareLevel]
IsWide(f)    == f.kind = "sig" /\ Width[f.op] > WordBits
RECURSIVE Legal(_)
Legal(f) ==
  /\ f.kind # "bad"
  /\ f.kind = "sig" => f.op \in DOMAIN Width
  /\ \A i \in DOMAIN f.args : Legal(f.args[i])
  /\ LET sigs == {i \in DOMAIN f.args : f.args[i].kind = "sig"} IN
     IF IsCompare(f)
     THEN /\ \A i, j \in sigs : Width[f.args[i].op] = Width[f.args[j].op]
          /\ \A i, j \in DOMAIN f.args : IsWide(f.args[i]) => f.args[j].kind \in {"sig", "num"}
     ELSE \A i \in sigs : ~IsWide(f.args[i])
-----------------------------------------------------------------------------
(* The value of f at call j; on is the set of calls that evaluated it.  An *)
(* operand that && or || does not need, and a branch not taken, are not.   *)
RECURSIVE Val(_, _, _)
Val(f, j, on) ==
  LET At(i) == Val(f.args[i], j, on)
      True(i, k)   == Val(f.args[i], k, on) # 0
      OnlyIf(i, c) == Val(f.args[i], j, {k \in on : True(1, k) = c})
      level == Tightness(f)
      Ago(k) == log[j].cycle - log[k].cycle IN
  CASE f.kind = "num" -> f.n % Word
    [] f.kind = "sig" -> log[j].env[f.op]
    [] f.op = "!" -> Truth(At(1) = 0)
    [] f.op = "~" -> Word - 1 - At(1)
    [] f.kind = "un" -> (0 - At(1)) % Word
    [] f.op = "&&" -> Truth(True(1, j) /\ OnlyIf(2, TRUE) # 0)
    [] f.op = "||" -> Truth(True(1, j) \/ OnlyIf(2, FALSE) # 0)
    [] f.op = "?"  -> IF True(1, j) THEN OnlyIf(2, TRUE) ELSE OnlyIf(3, FALSE)
    [] f.op = "hold" -> Truth(\A d \in 0..(IF f.n <= 1 THEN 0 ELSE f.n - 1) :
                                \E k \in on : k <= j /\ Ago(k) = d /\ True(1, k))
    [] f.op = "within" -> Truth(\E k \in on : k <= j /\ Ago(k) <= f.n /\ True(1, k))
    [] f.kind = "chain" -> Truth(At(1) < At(2) /\ At(2) < At(3))
    [] f.kind = "bin" -> Arith(BinaryOps[level][f.op], At(1), At(2))

(* A program read as its lines: the lines of a state are those between its *)
(* state line and the next.                                                *)
Actions == {"set", "clear", "inc", "reset"}
Jumps   == {"if", "else", "goto", "trigger"}
StateLines(p) == {i \in DOMAIN p : p[i].stmt = "state"}
LinesOf(p, s) ==
  LET i == CHOOSE k \in StateLines(p) : p[k].name = s IN
  SelectSeq([k \in DOMAIN p |-> [p[k] EXCEPT !.name =
               IF k > i /\ StateLines(p) \cap (i + 1)..k = {} THEN s ELSE ""]] \o <<>>,
            LAMBDA line : line.name = s)
Named(p) == {p[i].name : i \in StateLines(p)}
First(p) ==
  LET starts == {i \in DOMAIN p : p[i].stmt = "start"} IN
  IF starts # {} THEN p[CHOOSE i \in starts : \A k \in starts : k <= i].name
  ELSE p[CHOOSE i \in StateLines(p) : \A k \in StateLines(p) : i <= k].name

WellFormed(p) ==
  /\ StateLines(p) # {} /\ "" \notin Named(p) /\ First(p) \in Named(p)
  /\ \A i, j \in StateLines(p) : p[i].name = p[j].name => i = j
  /\ \A i \in DOMAIN p :
       /\ p[i].stmt \in Actions \cup Jumps \cup {"start", "state"}
       /\ p[i].stmt = "start" => p[i].name # ""
       /\ p[i].stmt \in Actions \cup Jumps => \E k \in StateLines(p) : k < i
       /\ p[i].stmt \in {"set", "clear"} => p[i].var \in FlagNames
       /\ p[i].stmt \in {"inc", "reset"} => p[i].var \in CounterNames
       /\ p[i].stmt = "if" => Legal(p[i].formula)
       /\ p[i].stmt \in Jumps =>
            p[i].how = "trigger" \/ (p[i].how = "goto" /\ p[i].target \in Named(p))

(* The jump that call j takes: the first of its state whose condition holds.*)
JumpsOf(s) == SelectSeq(LinesOf(loaded, s), LAMBDA line : line.stmt \in Jumps)
RECURSIVE Reaches(_, _, _)
Taken(s, k, j) ==
  LET line == JumpsOf(s)[k] IN
  line.stmt = "if" => Val(line.formula, j, {i \in DOMAIN log : Reaches(s, k, i)}) # 0
Reaches(s, k, j) == log[j].at = s /\ \A m \in 1..(k - 1) : ~Taken(s, m, j)
JumpAt(j) ==
  LET s == log[j].at
      taken == {k \in DOMAIN JumpsOf(s) : Reaches(s, k, j) /\ Taken(s, k, j)}
  IN  IF taken = {} THEN [how |-> "stay", target |-> s]
      ELSE LET line == JumpsOf(s)[CHOOSE k \in taken : TRUE]
           IN  [how |-> line.how, target |-> IF line.how = "goto" THEN line.target ELSE s]

(* The actions run so far, and what they leave in a flag or counter.       *)
Done == FlattenSeq([j \in DOMAIN log |->
          SelectSeq(LinesOf(loaded, log[j].at), LAMBDA line : line.stmt \in Actions)])
Stands(v) ==
  LET mine  == SelectSeq(Done, LAMBDA line : line.var = v)
      zeros == {0} \cup {i \in DOMAIN mine : mine[i].stmt \in {"clear", "reset"}}
      since == Len(mine) - (CHOOSE i \in zeros : \A k \in zeros : k <= i)
  IN  IF v \in FlagNames THEN Truth(since > 0) ELSE since % Word
-----------------------------------------------------------------------------
(* The monitor is in the state, with the flags, the counters and the       *)
(* trigger, that its program prescribes for the inputs of the calls since  *)
(* it was loaded or reset; a program with an error leaves it empty.  This  *)
(* is about LoadProgram, Reset and Call of fsm.cpp and about the parsing,  *)
(* constant folding, reordering and evaluation they rest on: hold and      *)
(* within count the cycles on which they were evaluated.                   *)
FollowsProgram ==
  IF loaded = <<>> \/ ~WellFormed(loaded) THEN Empty
  ELSE LET jump == IF log = <<>> THEN [how |-> "stay", target |-> First(loaded)]
                   ELSE JumpAt(Len(log))
       IN  /\ states[current_state].name = jump.target
           /\ triggered = (jump.how = "trigger")
           /\ triggered => stopped /\ cb_counts > 0
           /\ \A v \in DOMAIN values : values[v] = Stands(v)

(* The two evaluators of the engine, the recursive EvalNode and the loop   *)
(* EvalIterative, give one value and leave the same histories behind, for  *)
(* every condition of the program, at any cycle that may come next.        *)
IterativeMatchesRecursive ==
  \A i \in DOMAIN states : \A k \in DOMAIN states[i].transitions : \A input \in Inputs :
    LET root == states[i].transitions[k].root
        env  == values @@ input
        a == EvalIterative(nodes, root, cycle, env)
        b == EvalNode(nodes, root, cycle, env)
    IN  a.val = b.val /\ (a.nodes \o <<>>) = (b.nodes \o <<>>)
=============================================================================
