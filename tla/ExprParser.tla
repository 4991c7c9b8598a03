----------------------------- MODULE ExprParser -----------------------------
(***************************************************************************)
(* The compiler of expression texts (src/expr/parser.cpp): a recursive     *)
(* descent that appends nodes to the engine, folds constants and rejects   *)
(* some uses of signals wider than a word.  The lexer is abstracted: a     *)
(* text is its sequence of tokens, a literal its value.                    *)
(*                                                                         *)
(* A parse is a record [in, nodes, info, ok]: the tokens left, the nodes   *)
(* so far, what is known of the operand just read (NodeInfo), and whether  *)
(* no exception was thrown.                                                *)
(***************************************************************************)
EXTENDS ExprEngine, TLC

Op(s)   == [type |-> "Op", text |-> s]      \* also parentheses, commas and keywords
Ident(s) == [type |-> "Ident", text |-> s]
Number(v) == [type |-> "Number", value |-> v]

NodeInfo(id) == [id |-> id, const |-> FALSE, val |-> 0, signal |-> FALSE,
                 width |-> WordBits, sig |-> ""]
Compiled(id, width) == [NodeInfo(id) EXCEPT !.width = width]
Wide(info) == info.width > WordBits

IsOp(p, ops) == p.in # <<>> /\ Head(p.in).type = "Op" /\ Head(p.in).text \in ops
Skip(p)    == [p EXCEPT !.in = Tail(@)]
Throw(p)   == [p EXCEPT !.ok = FALSE, !.in = <<>>]
Require(p, cond) == IF cond THEN p ELSE Throw(p)
Expect(p, s) == IF IsOp(p, {s}) THEN Skip(p) ELSE Throw(p)

(* Append a node and describe it.                                          *)
Emit(p, node, info) ==
  [p EXCEPT !.nodes = Append(@, node), !.info = [info EXCEPT !.id = Len(p.nodes) + 1]]
MakeConst(p, v) == Emit(p, NewConst(v), [NodeInfo(0) EXCEPT !.const = TRUE, !.val = v])
MakeSignal(p, s) ==       \* the engine has no node for a wide signal
  LET info == [NodeInfo(0) EXCEPT !.signal = TRUE, !.width = Width[s], !.sig = s]
  IN  CASE s \notin DOMAIN Width -> Throw(p)
        [] Wide(info) -> [p EXCEPT !.info = info]
        [] OTHER -> Emit(p, NewSignal(s), info)

(* FoldUnary, FoldBinary, FoldCompare: constants are computed at once.     *)
Applied(op, a, b) ==
  CASE op = "LAND" -> Truth(a # 0 /\ b # 0)
    [] op = "LOR"  -> Truth(a # 0 \/ b # 0)
    [] OTHER -> Arith(op, a, b)
MakeUnary(p, op) ==
  IF p.info.const THEN MakeConst(p, Unary(op, p.info.val))
  ELSE Emit(p, Node(op, p.info.id, 0), NodeInfo(0))
MakeBinary(p, op, lhs, rhs) ==
  IF lhs.const /\ rhs.const THEN MakeConst(p, Applied(op, lhs.val, rhs.val))
  ELSE Emit(p, Node(op, lhs.id, rhs.id), NodeInfo(0))

(* BuildCompare: signals must have one width; a wide one is compared as a  *)
(* whole, with a signal or a constant.  A conditional of signals counts as *)
(* a signal and has none (Missing).                                        *)
DataOf(info) ==
  CASE info.const -> Literal(info.val)
    [] info.sig # "" -> Signal(info.sig)
    [] OTHER -> Missing
BuildCompare(p, op, lhs, rhs) ==
  LET both == lhs.signal /\ rhs.signal
      wide == (lhs.signal /\ Wide(lhs)) \/ (rhs.signal /\ Wide(rhs)) IN
  CASE lhs.const /\ rhs.const -> MakeConst(p, Arith(op, lhs.val, rhs.val))
    [] both /\ lhs.width # rhs.width -> Throw(p)
    [] wide /\ ~both /\ ~lhs.const /\ ~rhs.const -> Throw(p)
    [] wide -> Emit(p, NewCompareData(op, DataOf(lhs), DataOf(rhs)), Compiled(0, 1))
    [] OTHER -> Emit(p, Node(op, lhs.id, rhs.id), Compiled(0, 1))
RequireNarrow(p, info) == Require(p, ~(info.signal /\ Wide(info)))
-----------------------------------------------------------------------------
(* The levels of the grammar, loosest first: ParseConditional, ParseOr,    *)
(* ParseAnd, ParseNot, ParseCompare, ParseBor to ParseMul, ParseUnary.     *)
BinaryOps == <<
  ("||" :> "LOR") @@ ("or" :> "LOR"), ("&&" :> "LAND") @@ ("and" :> "LAND"),
  << >>,
  ("==" :> "EQ") @@ ("!=" :> "NE") @@ (">" :> "GT") @@ (">=" :> "GE") @@ ("<" :> "LT") @@ ("<=" :> "LE"),
  "|" :> "BOR", "^" :> "BXOR", "&" :> "BAND", ("<<" :> "SHL") @@ (">>" :> "SHR"),
  ("+" :> "ADD") @@ ("-" :> "SUB"), ("*" :> "MUL") @@ ("/" :> "DIV") @@ ("%" :> "MOD") >>
Loosest == 0
NotLevel == 3
CompareLevel == 4
UnaryLevel == 11

RECURSIVE Parse(_, _), Operands(_, _), Comparisons(_, _)

(* p has read the first operand of a left-associative chain.               *)
Operands(p, level) ==
  IF ~IsOp(p, DOMAIN BinaryOps[level]) THEN p
  ELSE LET q == Parse(level + 1, Skip(p))
           r == IF level < CompareLevel THEN q ELSE RequireNarrow(RequireNarrow(q, p.info), q.info)
       IN  Operands(MakeBinary(r, BinaryOps[level][Head(p.in).text], p.info, q.info), level)

(* a < b < c is a < b && b < c, where both comparisons share the node b.   *)
Comparisons(p, done) ==
  IF IsOp(p, DOMAIN BinaryOps[CompareLevel])
  THEN LET q == Parse(CompareLevel + 1, Skip(p))
           r == BuildCompare(q, BinaryOps[CompareLevel][Head(p.in).text], p.info, q.info)
       IN  Comparisons([r EXCEPT !.info = q.info], Append(done, r.info))
  ELSE IF done = <<>> THEN p
  ELSE FoldLeft(LAMBDA q, c : Emit(q, Node("LAND", q.info.id, c.id), NodeInfo(0)),
                [p EXCEPT !.info = Head(done)], Tail(done))

ParseNot(p) ==
  IF IsOp(p, {"!", "not"}) THEN MakeUnary(Parse(NotLevel, Skip(p)), "LNOT")
  ELSE Parse(CompareLevel, p)

(* Select among what a and b have read, in that order, on condition c.     *)
Select(c, a, b) ==
  LET wider == IF a.width > b.info.width THEN a ELSE b.info
      both  == [NodeInfo(0) EXCEPT !.width = wider.width, !.signal = a.signal \/ b.info.signal]
  IN  IF c.const THEN [b EXCEPT !.info = IF c.val # 0 THEN a ELSE @]
      ELSE Emit(b, NewSelect(c.id, a.id, b.info.id), both)
ParseConditional(p) ==
  LET c == Parse(Loosest + 1, p)
      a == Parse(Loosest, Skip(c))
  IN  IF IsOp(c, {"?"}) THEN Select(c.info, a.info, Parse(Loosest, Expect(a, ":"))) ELSE c

(* within(n, e) and hold(n, e).                                            *)
ParseTemporal(p, op) ==
  LET open   == Expect(Skip(p), "(")
      child  == Parse(Loosest, Expect(Skip(open), ","))
      closed == Expect(child, ")")
  IN  IF open.in = <<>> \/ Head(open.in).type # "Number" THEN Throw(open)
      ELSE Emit(closed, NewTemporal(op, child.info.id, Head(open.in).value), Compiled(0, 1))

ParsePrimary(p) ==
  CASE p.in = <<>> -> Throw(p)
    [] Head(p.in).type = "Number" -> MakeConst(Skip(p), Head(p.in).value % Word)
    [] Head(p.in).type = "Ident"  -> MakeSignal(Skip(p), Head(p.in).text)
    [] IsOp(p, {"within"}) -> ParseTemporal(p, "WITHIN")
    [] IsOp(p, {"hold"})   -> ParseTemporal(p, "HOLD")
    [] IsOp(p, {"("})      -> Expect(Parse(Loosest, Skip(p)), ")")
    [] OTHER -> Throw(p)

ParseUnary(p) ==
  LET q == Parse(UnaryLevel, Skip(p))
      child == RequireNarrow(q, q.info)
      zero  == MakeConst(child, 0) IN
  CASE IsOp(p, {"~"}) -> MakeUnary(child, "BNOT")
    [] IsOp(p, {"-"}) -> IF q.info.const THEN MakeConst(child, (0 - q.info.val) % Word)
                         ELSE MakeBinary(zero, "SUB", NodeInfo(zero.info.id), q.info)
    [] IsOp(p, {"+"}) -> q
    [] OTHER -> ParsePrimary(p)

Parse(level, p) ==
  CASE level = Loosest      -> ParseConditional(p)
    [] level = NotLevel     -> ParseNot(p)
    [] level = CompareLevel -> Comparisons(Parse(level + 1, p), <<>>)
    [] level = UnaryLevel   -> ParseUnary(p)
    [] OTHER -> Operands(Parse(level + 1, p), level)

(* CompileExpr: the root is optimised once the whole text has been read.   *)
Optimized(nodes, p) ==
  IF ~p.ok \/ p.in # <<>> THEN [ok |-> FALSE, root |-> 0, nodes |-> nodes]
  ELSE [ok |-> TRUE, root |-> p.info.id, nodes |-> Reorder(p.nodes, p.info.id)]
CompileExpr(nodes, text) ==
  Optimized(nodes, Parse(Loosest, [in |-> text, nodes |-> nodes, info |-> NodeInfo(0), ok |-> TRUE]))
=============================================================================
