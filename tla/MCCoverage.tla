----------------------------- MODULE MCCoverage -----------------------------
(* Four groups over three expressions: transitions, a cross, a shared FSM  *)
(* and a temporal source.                                                  *)
EXTENDS Coverage

MCNoRoot == "none"
MCRoots  == {"a", "b", "g"}

Sees(known, holds, valid) == [known |-> known, holds |-> holds, valid |-> valid]
MCLooks ==
  {Sees(MCRoots, h, {1, 2}) : h \in SUBSET MCRoots}
    \cup {Sees({"b", "g"}, {"b"}, {1, 2}), Sees(MCRoots, {"a", "b", "g"}, {2})}

Point(kind, gate, dims) == [kind |-> kind, gate |-> gate, dims |-> dims]

Expr(root) == [kind |-> "Expr", root |-> root, mode |-> "Enter"]
Step(kind, root) == [kind |-> kind, root |-> root, minimum |-> 0, maximum |-> 0, cycles |-> 0]
Then(first, second) ==
  [kind |-> "Sequence", steps |-> <<Step("Wait", first), Step("Next", second)>>]
Arc(from, root, next) ==
  [from |-> from, root |-> root, next |-> next, trigger |-> FALSE, terminal |-> 0]
Done(from, root, terminal) ==
  [from |-> from, root |-> root, next |-> 0, trigger |-> TRUE, terminal |-> terminal]
Handshake == [kind |-> "Fsm", states |-> 2, start |-> 0,
  transitions |-> <<Arc(0, "a", 1), Done(1, "b", 7), Done(1, "g", 8)>>]

BinOf(point, kind, program, overlap, max_active, terminals, dims) ==
  [point |-> point, kind |-> kind, program |-> program, overlap |-> overlap,
   max_active |-> max_active, terminals |-> terminals, dims |-> dims]
ValueBin(point, kind, program) ==
  BinOf(point, kind, program, program.kind = "Sequence", 1, {}, << >>)

Edge == [program |-> Expr(MCNoRoot), overlap |-> FALSE, max_active |-> 1]

(* Transitions under a group gate, a point gate and an unknown signal.     *)
TransitionGroup ==
  [gate |-> "g", abort |-> MCNoRoot, source |-> Edge,
   points |-> <<Point("Value", MCNoRoot, << >>)>>,
   bins |-> <<ValueBin(1, "Normal", Then("a", "b")), ValueBin(1, "Illegal", Then("b", "b")),
              ValueBin(1, "Ignore", Expr("g")), ValueBin(1, "Default", Expr(MCNoRoot))>>,
   raise_illegal |-> TRUE, diagnostic_capacity |-> 1]

(* Two points, the second gated, and their cross.                          *)
CrossGroup ==
  [gate |-> MCNoRoot, abort |-> MCNoRoot, source |-> Edge,
   points |-> <<Point("Value", MCNoRoot, << >>), Point("Value", "g", << >>),
                Point("Cross", MCNoRoot, <<1, 2>>)>>,
   bins |-> <<ValueBin(1, "Normal", Expr("a")), ValueBin(1, "Normal", Then("a", "a")),
              ValueBin(1, "Normal", Expr(MCNoRoot)),
              ValueBin(2, "Normal", Expr("b")), ValueBin(2, "Ignore", Then("b", "b")),
              ValueBin(2, "Normal", Then("a", "a")),
              BinOf(3, "Normal", Expr(MCNoRoot), FALSE, 1, {}, <<1, 4>>),
              BinOf(3, "Illegal", Expr(MCNoRoot), FALSE, 1, {}, <<2, 6>>)>>,
   raise_illegal |-> FALSE, diagnostic_capacity |-> 2]

(* Three bins of one execution, with room for two attempts.                *)
SharedGroup ==
  [gate |-> MCNoRoot, abort |-> MCNoRoot, source |-> Edge,
   points |-> <<Point("Pattern", MCNoRoot, << >>), Point("Value", MCNoRoot, << >>)>>,
   bins |-> <<BinOf(1, "Normal", Handshake, TRUE, 2, {}, << >>),
              BinOf(1, "Illegal", Handshake, TRUE, 2, {7}, << >>),
              BinOf(1, "Ignore", Handshake, TRUE, 2, {8}, << >>),
              BinOf(1, "Normal", Expr("a"), FALSE, 1, {}, << >>),
              ValueBin(2, "Normal", Then("a", "b"))>>,
   raise_illegal |-> FALSE, diagnostic_capacity |-> 2]

(* A source that may complete twice on one tick, and an abort.             *)
TemporalGroup ==
  [gate |-> MCNoRoot, abort |-> "g",
   source |-> [program |-> [kind |-> "Sequence", steps |-> <<Step("Wait", "a"), Step("Wait", "b")>>],
               overlap |-> TRUE, max_active |-> 2],
   points |-> <<Point("Value", MCNoRoot, << >>)>>,
   bins |-> <<ValueBin(1, "Normal", Then("b", "b")), ValueBin(1, "Illegal", Expr("a"))>>,
   raise_illegal |-> TRUE, diagnostic_capacity |-> 2]

MCGroups == {TransitionGroup, CrossGroup, SharedGroup, TemporalGroup}
=============================================================================
