-------------------------- MODULE MCPatternMatcher --------------------------
(* Nine matchers over two expressions; the first may be unknown. *)
EXTENDS PatternReference

MCNoRoot == "none"
MCRoots  == {"a", "b"}

MCSamples ==
  {[known |-> {"a", "b"}, holds |-> h] : h \in SUBSET MCRoots}
    \cup {[known |-> {"b"}, holds |-> {}]}

DoStep(kind, root, minimum, maximum, cycles) ==
  [kind |-> kind, root |-> root, minimum |-> minimum, maximum |-> maximum,
   cycles |-> cycles]
WaitFor(root)        == DoStep("Wait", root, 0, 0, 0)
NextIs(root)         == DoStep("Next", root, 0, 0, 0)
WithinOf(root, m, n) == DoStep("Within", root, m, n, 0)
HoldFor(root, n)     == DoStep("Hold", root, 0, 0, n)

SequenceOf(steps, overlap, max_active) ==
  [program |-> [kind |-> "Sequence", steps |-> steps],
   overlap |-> overlap, max_active |-> max_active]

Arc(from, root, next) ==
  [from |-> from, root |-> root, next |-> next, trigger |-> FALSE, terminal |-> 0]
Done(from, root, terminal) ==
  [from |-> from, root |-> root, next |-> 0, trigger |-> TRUE, terminal |-> terminal]

Handshake ==
  [program |-> [kind |-> "Fsm", states |-> 3, start |-> 0,
     transitions |-> <<Arc(0, "a", 1), Done(0, "b", 9), Done(1, "b", 7), Arc(1, "a", 2),
                       Done(2, "a", 8), Arc(2, MCNoRoot, 0)>>],
   overlap |-> TRUE, max_active |-> 2]

ConditionOf(mode) ==
  [program |-> [kind |-> "Expr", root |-> "a", mode |-> mode],
   overlap |-> FALSE, max_active |-> 1]

MCConfigs ==
  { SequenceOf(<<WaitFor("a"), WithinOf("b", 2, 3)>>, TRUE, 2),
    SequenceOf(<<HoldFor("a", 2), NextIs("b")>>, FALSE, 1),
    SequenceOf(<<WaitFor("b"), HoldFor("a", 2), WaitFor("b")>>, TRUE, 2),
    SequenceOf(<<WithinOf("a", 1, 2), WithinOf("b", 0, 1)>>, FALSE, 1),
    SequenceOf(<<WaitFor("a"), NextIs("a"), NextIs("b")>>, TRUE, 3),
    Handshake }
    \cup {ConditionOf(mode) : mode \in Modes}
=============================================================================
