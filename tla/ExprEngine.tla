----------------------------- MODULE ExprEngine -----------------------------
(***************************************************************************)
(* The expression engine (src/expr/engine.cpp): a growing sequence of      *)
(* nodes, each an operation on earlier nodes.  WITHIN and HOLD nodes carry *)
(* a history that every evaluation advances.  Evaluation exists twice in   *)
(* the code, as a recursion (EvalNode) and as a loop over a stack of       *)
(* frames (EvalIterative); both return the value and the nodes after it.   *)
(*                                                                         *)
(* Words are WordBits wide where the code has 64.  Node identifiers start  *)
(* at 1; 0 stands for the identifier -1.  Signals hold known values; typed *)
(* (TYPED) nodes, masked comparisons and Collect are left out.             *)
(***************************************************************************)
EXTENDS Integers, Sequences, SequencesExt, Bitwise

CONSTANTS
  WordBits,   \* the width of a word
  Width       \* [signal names -> Nat]: the width of each signal

Word   == 2^WordBits
Truth(b) == IF b THEN 1 ELSE 0
Never  == -1       \* (uint64_t)-1, the cycle before cycle 0

Node(op, lhs, rhs) ==
  [op |-> op, lhs |-> lhs, rhs |-> rhs, alt |-> 0, imm |-> 0, sig |-> "", data |-> <<>>,
   window |-> 0, last |-> Never, count |-> 0]
NewConst(v)     == [Node("CONST", 0, 0) EXCEPT !.imm = v]
NewSignal(s)    == [Node("SIGNAL", 0, 0) EXCEPT !.sig = s]
NewSelect(c, a, b) == [Node("SELECT", c, a) EXCEPT !.alt = b]
NewTemporal(op, child, window) == [Node(op, child, 0) EXCEPT !.window = window]

(* A comparison of whole signals, for those wider than a word.             *)
Literal(v) == [from |-> "const", value |-> v]
Signal(s)  == [from |-> "signal", name |-> s]
Missing    == [from |-> "none"]
NewCompareData(op, x, y) == [Node(op, 0, 0) EXCEPT !.data = <<x, y>>]
-----------------------------------------------------------------------------
Compares == {"EQ", "NE", "GT", "GE", "LT", "LE"}
Compare(op, a, b) ==
  CASE op = "EQ" -> a = b  [] op = "NE" -> a # b
    [] op = "GT" -> a > b  [] op = "GE" -> a >= b
    [] op = "LT" -> a < b  [] op = "LE" -> a <= b

Shift(b) == b % WordBits      \* & 0x3F
Arith(op, a, b) ==
  CASE op = "ADD" -> (a + b) % Word
    [] op = "SUB" -> (a - b) % Word
    [] op = "MUL" -> (a * b) % Word
    [] op = "DIV" -> IF b = 0 THEN 0 ELSE a \div b
    [] op = "MOD" -> IF b = 0 THEN 0 ELSE a % b
    [] op = "BAND" -> a & b
    [] op = "BOR"  -> a | b
    [] op = "BXOR" -> a ^^ b
    [] op = "SHL" -> (a * 2^Shift(b)) % Word
    [] op = "SHR" -> a \div 2^Shift(b)
    [] OTHER -> Truth(Compare(op, a, b))
Unary(op, a) == IF op = "BNOT" THEN Word - 1 - a ELSE Truth(a = 0)   \* BNOT, LNOT

EvalCompareNode(n, env) ==
  LET At(x) == IF x.from = "const" THEN x.value ELSE env[x.name]
  IN  IF \E i \in {1, 2} : n.data[i] = Missing THEN 0
      ELSE Truth(Compare(n.op, At(n.data[1]), At(n.data[2])))

(* The history of a node after its child had value v, and its own value.   *)
HeldAnew(n, cycle) == n.count + 1          \* mutant: a gap does not restart the count
Held(n, cycle) == IF n.last + 1 = cycle THEN n.count + 1 ELSE 1
Advanced(n, v, cycle) ==
  CASE n.op = "WITHIN" -> IF v # 0 THEN [n EXCEPT !.last = cycle] ELSE n
    [] n.op = "HOLD"   -> IF v # 0 THEN [n EXCEPT !.last = cycle, !.count = Held(n, cycle)]
                          ELSE [n EXCEPT !.last = Never, !.count = 0]
History(n, v, cycle) ==
  CASE n.op = "WITHIN" ->
         Truth(v # 0 \/ (n.window # 0 /\ n.last # Never /\ cycle - n.last <= n.window))
    [] n.op = "HOLD" -> Truth(v # 0 /\ (n.window <= 1 \/ n.count >= n.window))
-----------------------------------------------------------------------------
(* EvalNode.  An operation on two operands evaluates the left one first    *)
(* (C++ leaves the order open), a division its divisor.                    *)
RECURSIVE EvalNode(_, _, _, _)
EvalNode(nodes, id, cycle, env) ==
  LET Result(v, ns) == [val |-> v, nodes |-> ns]
      Eval(ns, i) == EvalNode(ns, i, cycle, env)
      n == nodes[id]
      l == Eval(nodes, n.lhs)
      r == Eval(l.nodes, n.rhs) IN
  CASE id \notin DOMAIN nodes -> Result(0, nodes)
    [] n.op = "CONST"  -> Result(n.imm, nodes)
    [] n.op = "SIGNAL" -> Result(env[n.sig], nodes)
    [] n.op \in {"BNOT", "LNOT"} -> Result(Unary(n.op, l.val), l.nodes)
    [] n.op = "LAND"   -> IF l.val = 0 THEN l ELSE Result(Truth(r.val # 0), r.nodes)
    [] n.op = "LOR"    -> IF l.val # 0 THEN Result(1, l.nodes)
                          ELSE Result(Truth(r.val # 0), r.nodes)
    [] n.op = "SELECT" -> IF l.val # 0 THEN r ELSE Eval(l.nodes, n.alt)
    [] n.op \in {"DIV", "MOD"} ->
         LET d == Eval(nodes, n.rhs)
             q == Eval(d.nodes, n.lhs)
         IN  IF d.val = 0 THEN Result(0, d.nodes) ELSE Result(Arith(n.op, q.val, d.val), q.nodes)
    [] n.op \in {"WITHIN", "HOLD"} ->
         LET after == [l.nodes EXCEPT ![id] = Advanced(@, l.val, cycle)]
         IN  Result(History(after[id], l.val, cycle), after)
    [] n.op \in Compares /\ n.data # <<>> -> Result(EvalCompareNode(n, env), nodes)
    [] OTHER -> Result(Arith(n.op, l.val, r.val), r.nodes)

(* EvalIterative.  A frame [id, state, lhs] waits for the value of a child *)
(* on top of vals; its node is done when the frame is popped.              *)
Frame(id) == [id |-> id, state |-> 0, lhs |-> 0]

(* What the frame on top does with its first operand lv.                   *)
ShortcutNot(n, lv) == FALSE               \* mutant: the right operand is always evaluated
Shortcut(n, lv) == (n.op = "LAND" /\ lv = 0) \/ (n.op = "LOR" /\ lv # 0)
Second(n, lv)   == IF n.op = "SELECT" /\ lv = 0 THEN n.alt ELSE n.rhs
Combined(n, lv, rv) == IF n.op \in {"LAND", "LOR"} THEN Truth(rv # 0) ELSE Arith(n.op, lv, rv)

RECURSIVE Loop(_, _, _)
Loop(m, cycle, env) ==
  IF m.stack = <<>> THEN m
  ELSE
  LET f    == Last(m.stack)
      rest == Front(m.stack)
      n    == m.nodes[f.id]
      v    == IF m.vals = <<>> THEN 0 ELSE Last(m.vals)           \* pop_val
      popped == IF m.vals = <<>> THEN <<>> ELSE Front(m.vals)
      Push(x)    == [m EXCEPT !.stack = rest, !.vals = Append(@, x)]
      Replace(x) == [m EXCEPT !.stack = rest, !.vals = Append(popped, x)]
      Descend(vals, lhs, id) ==
        [m EXCEPT !.vals = vals,
                  !.stack = rest \o <<[f EXCEPT !.state = @ + 1, !.lhs = lhs], Frame(id)>>]
      next ==
        CASE f.id \notin DOMAIN m.nodes -> Push(0)
          [] n.op = "CONST"  -> Push(n.imm)
          [] n.op = "SIGNAL" -> Push(env[n.sig])
          [] n.op \in Compares /\ n.data # <<>> -> Push(EvalCompareNode(n, env))
          [] f.state = 0 -> Descend(m.vals, 0, n.lhs)
          [] n.op \in {"BNOT", "LNOT"} -> Replace(Unary(n.op, v))
          [] n.op \in {"WITHIN", "HOLD"} ->
               LET after == Advanced(n, v, cycle)
               IN  [Replace(History(after, v, cycle)) EXCEPT !.nodes[f.id] = after]
          [] f.state = 1 /\ Shortcut(n, v) -> Replace(Truth(n.op = "LOR"))
          [] f.state = 1 -> Descend(popped, v, Second(n, v))
          [] n.op = "SELECT" -> [m EXCEPT !.stack = rest]
          [] OTHER -> Replace(Combined(n, f.lhs, v))
  IN  Loop(next, cycle, env)

EvalIterative(nodes, root, cycle, env) ==
  IF root \notin DOMAIN nodes THEN [val |-> 0, nodes |-> nodes]
  ELSE LET m == Loop([stack |-> <<Frame(root)>>, vals |-> <<>>, nodes |-> nodes], cycle, env)
       IN  [val |-> IF m.vals = <<>> THEN 0 ELSE Last(m.vals), nodes |-> m.nodes]

Eval(nodes, root, cycle, env) == EvalIterative(nodes, root, cycle, env)

ResetState(nodes) == [i \in DOMAIN nodes |-> [nodes[i] EXCEPT !.last = Never, !.count = 0]]
-----------------------------------------------------------------------------
(* OptimizeShortCircuitOrder: the cheaper operand of && and || first, when *)
(* neither keeps a history.                                                *)
RECURSIVE Cost(_, _), Stateful(_, _), Reorder(_, _)
Cost(nodes, id) ==
  IF id \notin DOMAIN nodes THEN 0
  ELSE LET n == nodes[id] IN
       CASE n.op = "CONST" -> 1
         [] n.op = "SIGNAL" -> 2
         [] n.data # <<>> -> 3
         [] OTHER -> (IF n.op \in {"WITHIN", "HOLD"} THEN 2 ELSE 1)
                     + Cost(nodes, n.lhs) + Cost(nodes, n.rhs) + Cost(nodes, n.alt)
Stateful(nodes, id) ==
  id \in DOMAIN nodes /\ LET n == nodes[id] IN
    n.op \in {"WITHIN", "HOLD"} \/ \E i \in {n.lhs, n.rhs, n.alt} : Stateful(nodes, i)

Swaps(nodes, n) ==
  /\ n.op \in {"LAND", "LOR"} /\ Cost(nodes, n.rhs) < Cost(nodes, n.lhs)
  /\ ~Stateful(nodes, n.lhs) /\ ~Stateful(nodes, n.rhs)
Reorder(nodes, id) ==
  IF id \notin DOMAIN nodes THEN nodes
  ELSE LET n == nodes[id]
           below == Reorder(Reorder(Reorder(nodes, n.lhs), n.rhs), n.alt)
       IN  IF Swaps(nodes, n) THEN [below EXCEPT ![id].lhs = n.rhs, ![id].rhs = n.lhs] ELSE below
=============================================================================
