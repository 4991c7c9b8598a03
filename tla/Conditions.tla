----------------------------- MODULE Conditions -----------------------------
(***************************************************************************)
(* The named conditions of XConditionCheck and XExprCheck (src/monitor/    *)
(* condition.cpp and expr.cpp).  They are kept in three tables, one per    *)
(* kind, each a vector of entries and an index from names to positions;    *)
(* removing an entry moves the last one into its place.                    *)
(*                                                                         *)
(* What a condition compares is left out: its outcome is a free choice at  *)
(* each check, and so is an exception of a user's comparison function.  A  *)
(* custom function for XData exits the process (the Assert of              *)
(* condition.cpp:11) and is not among the calls.                           *)
(***************************************************************************)
EXTENDS StepCallback, Sequences

CONSTANT Names   \* names of conditions

VARIABLES
  tables,     \* [Tables -> [vec, index]]
  clk_list,   \* the clocks a hit disables
  told        \* history: names the last check found true and still has

vars == <<callbackVars, tables, clk_list, told>>

Tables == {"xdata", "uint64", "expressions"}
Entry  == [name : Names, triggered : BOOLEAN]
NoTable == [vec |-> <<>>, index |-> <<>>]

TableOK(t) ==
  /\ t = [vec |-> t.vec, index |-> t.index]
  /\ t.vec \in Seq(Entry)
  /\ t.index \in [DOMAIN t.index -> Nat] /\ DOMAIN t.index \subseteq Names
TypeOK ==
  /\ CallbackTypeOK
  /\ tables = [t \in Tables |-> tables[t]] /\ \A t \in Tables : TableOK(tables[t])
  /\ clk_list \subseteq Clocks /\ told \subseteq Names

Init == CallbackInit /\ tables = [t \in Tables |-> NoTable] /\ clk_list = {} /\ told = {}
-----------------------------------------------------------------------------
Has(t, name) == name \in DOMAIN t.index

(* The last entry takes the place of the one removed.                      *)
RemoveUnmoved(t, name) ==       \* mutant: the index of the entry that moved is kept
  IF ~Has(t, name) THEN t
  ELSE LET at == t.index[name]
           n  == Len(t.vec)
       IN  [vec   |-> [i \in 1..(n - 1) |-> IF i = at THEN t.vec[n] ELSE t.vec[i]],
            index |-> [x \in DOMAIN t.index \ {name} |-> t.index[x]]]
RemoveEntry(t, name) ==
  IF ~Has(t, name) THEN t
  ELSE LET at == t.index[name]
           n  == Len(t.vec)
       IN  [vec   |-> [i \in 1..(n - 1) |-> IF i = at THEN t.vec[n] ELSE t.vec[i]],
            index |-> [x \in DOMAIN t.index \ {name} |->
                         IF x = t.vec[n].name THEN at ELSE t.index[x]]]

(* A name already in the table keeps its entry, and the result in it.      *)
PutEntry(t, name) ==
  IF Has(t, name) THEN t
  ELSE [vec   |-> Append(t.vec, [name |-> name, triggered |-> FALSE]),
        index |-> [x \in DOMAIN t.index \cup {name} |->
                     IF x = name THEN Len(t.vec) + 1 ELSE t.index[x]]]

(* told, when the tables become new: a name in a new table is a new entry. *)
StillTold(new) == {x \in told : \E t \in Tables : Has(tables[t], x) /\ Has(new[t], x)}
Edit(new) == tables' = new /\ told' = StillTold(new) /\ UNCHANGED <<callbackVars, clk_list>>

(* SetCondition on signals and on native memory.  The expression of that   *)
(* name is removed before the arguments are checked.                       *)
SetCondition(kind, name, valid) ==
  LET other == IF kind = "xdata" THEN "uint64" ELSE "xdata"
      noExpr == [tables EXCEPT !["expressions"] = RemoveEntry(@, name)]
  IN  Edit(IF valid THEN [noExpr EXCEPT ![other] = RemoveEntry(@, name), ![kind] = PutEntry(@, name)]
           ELSE noExpr)
SetExpression(name) ==
  Edit([tables EXCEPT !["xdata"] = RemoveEntry(@, name), !["uint64"] = RemoveEntry(@, name),
                      !["expressions"] = PutEntry(@, name)])
RemoveCondition(name) == Edit([t \in Tables |-> RemoveEntry(tables[t], name)])
ClearCondition == Edit([t \in Tables |-> NoTable])

BindXClock(c) == clk_list' = clk_list \cup {c} /\ UNCHANGED <<callbackVars, tables, told>>
ClearClock    == clk_list' = {} /\ UNCHANGED <<callbackVars, tables, told>>
-----------------------------------------------------------------------------
(* Call, on the edge e of clock c: the conditions true are holding.  The   *)
(* first last entries are checked, in the order of the tables; the custom  *)
(* function of the next one, a comparison of native memory, throws.        *)
Offset(kind) ==
  CASE kind = "xdata" -> 0
    [] kind = "uint64" -> Len(tables["xdata"].vec)
    [] kind = "expressions" -> Len(tables["xdata"].vec) + Len(tables["uint64"].vec)
Total == Offset("expressions") + Len(tables["expressions"].vec)
Place(kind, i) == Offset(kind) + i
Ends == {Total} \cup Offset("uint64")..(Offset("expressions") - 1)
Checked(last) == {x \in Names : \E t \in Tables : \E i \in DOMAIN tables[t].vec :
                                  tables[t].vec[i].name = x /\ Place(t, i) <= last}

(* The vector after its entries have been checked.                         *)
Result(entry, holding) == [name |-> entry.name, triggered |-> entry.name \in holding]
UntilHit(kind, holding, last) ==     \* mutant: the check stops at a hit
  LET vec == tables[kind].vec IN
  [i \in DOMAIN vec |->
     IF Place(kind, i) <= last /\ \A k \in 1..(i - 1) : vec[k].name \notin holding
     THEN Result(vec[i], holding) ELSE vec[i]]
CheckEntries(kind, holding, last) ==
  LET vec == tables[kind].vec IN
  [i \in DOMAIN vec |->
     IF Place(kind, i) <= last THEN Result(vec[i], holding) ELSE vec[i]]

Call(c, e, holding, last) ==
  /\ Cb(c, e, Checked(last) \cap holding # {}, clk_list, last < Total)
  /\ tables' = [t \in Tables |-> [vec |-> CheckEntries(t, holding, last), index |-> tables[t].index]]
  /\ told' = (told \ Checked(last)) \cup (Checked(last) \cap holding)
  /\ UNCHANGED clk_list

Next ==
  \/ UserCall /\ UNCHANGED <<tables, clk_list, told>>
  \/ \E c \in Clocks : c \notin clk_list /\ ReplaceClock(c) /\ UNCHANGED <<tables, clk_list, told>>
  \/ \E x \in Names :
       \/ \E kind \in {"xdata", "uint64"}, valid \in BOOLEAN : SetCondition(kind, x, valid)
       \/ SetExpression(x) \/ RemoveCondition(x)
  \/ ClearCondition \/ ClearClock
  \/ \E c \in Clocks : BindXClock(c)
  \/ \E c \in Clocks, e \in Edges, holding \in SUBSET Names, last \in Ends :
       Call(c, e, holding, last)
Spec == Init /\ [][Next]_vars
-----------------------------------------------------------------------------
(* In each table the index is the inverse of the vector, and a name is in  *)
(* one table at most: after any removal that moved an entry, any rejected  *)
(* SetCondition, and any change of a condition's kind.  Names share one    *)
(* name space (docs/en/reference/monitors.md:69).                          *)
Inverts(t) ==
  /\ \A i \in DOMAIN t.vec : Has(t, t.vec[i].name) /\ t.index[t.vec[i].name] = i
  /\ \A x \in DOMAIN t.index : t.index[x] \in DOMAIN t.vec /\ t.vec[t.index[x]].name = x
IndexesAgree ==
  /\ \A t \in Tables : Inverts(tables[t])
  /\ \A t, u \in Tables : t # u => DOMAIN tables[t].index \cap DOMAIN tables[u].index = {}

(* GetTriggeredConditionKeys and ListCondition report, of each condition,  *)
(* the result of the last check that reached it, wherever its entry has    *)
(* been moved since; a condition added since then has no result.           *)
ResultsAreLatest ==
  \A t \in Tables : \A i \in DOMAIN tables[t].vec :
    tables[t].vec[i].triggered <=> tables[t].vec[i].name \in told
=============================================================================
