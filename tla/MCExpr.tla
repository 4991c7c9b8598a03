------------------------------- MODULE MCExpr -------------------------------
(***************************************************************************)
(* Small instances of the state machine monitor: programs that use every   *)
(* statement and operator, with hold and within under short circuits, and  *)
(* programs with one error each.                                           *)
(***************************************************************************)
EXTENDS ExprReference

flag == "$flag_seen"
counter == "$counter_n"
a == Sig("a")
b == Sig("b")
w == Sig("w")
v == Sig("v")
MCWidth == ("a" :> 1) @@ ("b" :> 2) @@ ("w" :> 4) @@ ("v" :> 4) @@ (flag :> 1) @@ (counter :> 3)
In(x, y, z) == ("a" :> x) @@ ("b" :> y) @@ ("w" :> z) @@ ("v" :> 9)
MCInputs == {In(0, 0, 7), In(1, 0, 10), In(1, 3, 9), In(0, 2, 7)}

Line(stmt, name, var, f, how, target) ==
  [stmt |-> stmt, name |-> name, var |-> var, formula |-> f,
   text |-> IF f = Num(0) THEN <<>> ELSE Render(f, 0), how |-> how, target |-> target]
Plain(stmt, name) == Line(stmt, name, "", Num(0), "", "")
State(s) == Plain("state", s)
Act1(stmt, x) == Line(stmt, "", x, Num(0), "", "")
If(f, s)  == Line("if", "", "", f, IF s = "trigger" THEN s ELSE "goto", IF s = "trigger" THEN "" ELSE s)
Jump(stmt, s) == [If(Num(0), s) EXCEPT !.stmt = stmt]

Handshake == <<
  Plain("start", "idle"),
  State("busy"), Act1("inc", counter),
    If(Bin(Bin(Sig(counter), ">=", Num(2)), "&&", Within(1, Un("!", a))), "trigger"),
    If(Bin(b, "==", Num(0)), "idle"),
  State("idle"), If(Holds(2, a), "busy") >>
Flags == <<
  State("low"), Act1("set", flag), If(Bin(a, "&&", Holds(2, Bin(b, ">", Num(1)))), "high"),
  State("high"), Act1("clear", flag), Act1("inc", counter),
    If(Bin(Bin(b, "==", Num(3)), "||", Within(1, a)), "low"),
    Act1("reset", counter), Jump("else", "trigger") >>
Ordered == <<
  State("s"), If(Bin(Holds(2, a), "&&", b), "t"),
    If(Bin(Bin(b, "==", Num(2)), "||", a), "s"), Jump("else", "t"),
  State("t"), Act1("inc", counter), If(Un("!", Bin(Within(2, Bin(b, "!=", Num(0))), "||", Holds(2, a))), "s"),
    If(Cond(a, Holds(2, b), Sig(counter)), "trigger") >>
Numbers == <<
  State("s"), If(Chain(Num(0), b, Num(3)), "trigger"),
    If(Bin(Bin(Bin(Bin(b, "*", Num(3)), "-", Num(1)), "^", Bin(Un("~", b), ">>", Num(1))), "==", Num(2)), "u"),
    If(Bin(Bin(Num(6), "/", b), "<=", Bin(Num(5), "%", b)), "t"),
  State("t"), If(Bin(Bin(Bin(Num(1), "+", Num(9)), "==", Num(2)), "&&", Bin(Bin(b, "|", Num(4)), "<", Bin(Un("-", b), "&", Num(7)))), "s"),
    If(Cond(Num(0), a, Bin(Bin(b, "<<", Num(2)), "-", Num(5))), "u"),
  State("u"), If(a, "s"), Jump("trigger", "trigger") >>
Wider == <<
  State("s"), If(Bin(Bin(w, "==", Num(7)), "&&", Un("!", Holds(2, Bin(w, "!=", v)))), "t"),
  State("t"), If(Holds(2, Within(1, Bin(w, ">", v))), "trigger"), If(Bin(v, "<=", w), "t"), Jump("goto", "s") >>
Good == {Handshake, Flags, Ordered, Numbers, Wider}

One(f) == <<State("s"), If(f, "s")>>
Wrong == {
  <<Plain("start", "s")>>,
  <<Plain("start", "t"), State("s"), Jump("goto", "s")>>,
  <<State("s"), Act1("inc", counter), If(a, "t")>>,
  <<State("s"), Act1("set", flag), State("s")>>,
  <<Act1("set", flag), State("s")>>,
  <<State("s"), Act1("set", "a")>>,
  <<State("s"), Act1("inc", flag)>>,
  <<State("s"), Plain("wait", "")>>,
  One(Bad), One(Bin(Sig(counter), "<", b)), One(Bin(Bin(w, "+", Num(1)), "==", Num(1))),
  One(Bin(w, "==", Bin(b, "+", Num(1)))), One(Sig("c")) }
MCPrograms == Good \cup Wrong
=============================================================================
