--------------------------- MODULE HandleRegistry ---------------------------
(***************************************************************************)
(* What the slots and generations of an engine promise to the holders of   *)
(* registration handles (src/runtime/engine.cpp): a handle is issued once, *)
(* and after it has been retired nothing makes it live again, so an old    *)
(* handle never reaches a newer registration.  Only Clear, after which all *)
(* old handles must be discarded, starts over.                             *)
(***************************************************************************)
EXTENDS Naturals, FiniteSets

CONSTANTS
  Engines,
  Handles,   (* What the handles of one engine look like.                  *)
  Capacity   (* How many registrations an engine holds at once.            *)

VARIABLES
  live,      (* <<engine, handle>> of the registrations that exist.        *)
  issued     (* Every <<engine, handle>> given out since the last Forget.  *)

registry == <<live, issued>>

Of(e, set) == {<<e, h>> : h \in {k \in Handles : <<e, k>> \in set}}

Init == live = {} /\ issued = {}

Issue(e, h) ==
  /\ <<e, h>> \notin issued
  /\ Cardinality(Of(e, live)) < Capacity
  /\ live' = live \cup {<<e, h>>}
  /\ issued' = issued \cup {<<e, h>>}

Retire(e, h) ==
  /\ <<e, h>> \in live
  /\ live' = live \ {<<e, h>>}
  /\ UNCHANGED issued

Forget(e) ==
  /\ live' = live \ ({e} \X Handles)
  /\ issued' = issued \ ({e} \X Handles)

Next ==
  \E e \in Engines : Forget(e) \/ \E h \in Handles : Issue(e, h) \/ Retire(e, h)

Spec == Init /\ [][Next]_registry
=============================================================================
