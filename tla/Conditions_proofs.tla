-------------------------- MODULE Conditions_proofs --------------------------
(***************************************************************************)
(* Proofs about the named conditions of a monitor, for any names, clocks   *)
(* and bounds.                                                             *)
(***************************************************************************)
EXTENDS Conditions, SequenceTheorems, TLAPS

(* What is invariant of the tables, as a predicate, so that it can be said *)
(* of the tables a call is about to store.                                 *)
Disjoint(T) == \A t, u \in Tables : t # u => DOMAIN T[t].index \cap DOMAIN T[u].index = {}
Good(T) ==
  /\ T = [t \in Tables |-> T[t]]
  /\ \A t \in Tables : TableOK(T[t]) /\ Inverts(T[t])
  /\ Disjoint(T)

(* Removing by moving the last entry keeps the index inverse to the vector.*)
LEMMA Removal ==
  ASSUME NEW t, TableOK(t), Inverts(t), NEW name
  PROVE  /\ TableOK(RemoveEntry(t, name)) /\ Inverts(RemoveEntry(t, name))
         /\ DOMAIN RemoveEntry(t, name).index = DOMAIN t.index \ {name}
<1> DEFINE r == RemoveEntry(t, name)
           n == Len(t.vec)
           at == t.index[name]
           end == t.vec[n].name
<1>1. CASE ~Has(t, name)
  BY <1>1 DEF RemoveEntry, Has
<1>2. CASE Has(t, name)
  <2>1. /\ n \in Nat /\ DOMAIN t.vec = 1..n /\ at \in 1..n /\ t.vec[at].name = name
        /\ \A i \in 1..n : t.vec[i] \in Entry
    BY <1>2, LenProperties, ElementOfSeq DEF Has, Inverts, TableOK
  <2>2. /\ r = [vec |-> r.vec, index |-> r.index]
        /\ r.vec = [i \in 1..(n - 1) |-> IF i = at THEN t.vec[n] ELSE t.vec[i]]
        /\ r.index = [x \in DOMAIN t.index \ {name} |-> IF x = end THEN at ELSE t.index[x]]
    BY <1>2 DEF RemoveEntry
  <2>3. n \in 1..n /\ end \in DOMAIN t.index /\ t.index[end] = n
    <3>1. n \in DOMAIN t.vec
      BY <2>1
    <3> QED BY <2>1, <3>1 DEF Inverts, Has
  <2>4. /\ r.vec \in [1..(n - 1) -> Entry] /\ n - 1 \in Nat
        /\ DOMAIN r.vec = 1..(n - 1) /\ DOMAIN r.index = DOMAIN t.index \ {name}
    BY <2>1, <2>2, <2>3
  <2>5. r.vec \in Seq(Entry)
    BY <2>4, IsASeq
  <2>6. r.index \in [DOMAIN r.index -> Nat] /\ DOMAIN r.index \subseteq Names
    BY <2>1, <2>2, <2>4 DEF TableOK
  <2>7. /\ \A i \in 1..n : t.vec[i].name \in DOMAIN t.index /\ t.index[t.vec[i].name] = i
        /\ \A x \in DOMAIN t.index : t.index[x] \in 1..n /\ t.vec[t.index[x]].name = x
    <3>1. DOMAIN t.vec = 1..n
      BY <2>1
    <3>2. /\ \A i \in DOMAIN t.vec : t.vec[i].name \in DOMAIN t.index /\ t.index[t.vec[i].name] = i
          /\ \A x \in DOMAIN t.index : t.index[x] \in DOMAIN t.vec /\ t.vec[t.index[x]].name = x
      BY Zenon DEF Inverts, Has
    <3> QED BY <3>1, <3>2, Zenon
  <2>8. /\ \A i \in 1..(n - 1) : r.vec[i].name \in DOMAIN r.index /\ r.index[r.vec[i].name] = i
        /\ \A x \in DOMAIN r.index : r.index[x] \in 1..(n - 1) /\ r.vec[r.index[x]].name = x
    <3>1. name \in DOMAIN t.index /\ n \in Nat \ {0}
      BY <1>2, <2>1 DEF Has
    <3>2. PICK m, a, e, v, x, less, rest :
            /\ m = n /\ a = at /\ e = end /\ v = t.vec /\ x = t.index
            /\ less = r.vec /\ rest = r.index
      OBVIOUS
    <3>3. /\ m \in Nat \ {0} /\ a \in 1..m /\ name \in DOMAIN x /\ a = x[name] /\ e = v[m].name
          /\ less = [i \in 1..(m - 1) |-> IF i = a THEN v[m] ELSE v[i]]
          /\ rest = [y \in DOMAIN x \ {name} |-> IF y = e THEN a ELSE x[y]]
      BY <2>1, <2>2, <3>1, <3>2
    <3>4. /\ \A i \in 1..m : v[i].name \in DOMAIN x /\ x[v[i].name] = i
          /\ \A y \in DOMAIN x : x[y] \in 1..m /\ v[x[y]].name = y
      BY <2>7, <3>2
    <3>5. DOMAIN rest = DOMAIN x \ {name} /\ e \in DOMAIN x /\ x[e] = m
      BY <3>3, <3>4
    <3>6. ASSUME NEW i \in 1..(m - 1)
          PROVE  less[i].name \in DOMAIN rest /\ rest[less[i].name] = i
      <4>1. i \in 1..m /\ i # m
        BY <3>3
      <4>2. CASE i = a
        <5>1. less[i].name = e /\ e # name
          BY <3>3, <3>4, <3>5, <4>1, <4>2
        <5>2. rest[e] = a
          BY <3>3, <3>4, <3>5, <5>1
        <5> QED BY <3>3, <3>4, <3>5, <4>2, <5>1, <5>2
      <4>3. CASE i # a
        <5>1. less[i] = v[i] /\ v[i].name \in DOMAIN x /\ x[v[i].name] = i
          BY <3>3, <3>4, <4>1, <4>3
        <5>2. v[i].name # name /\ v[i].name # e
          BY <3>3, <3>4, <3>5, <4>1, <4>3, <5>1
        <5> QED BY <3>3, <3>4, <3>5, <5>1, <5>2
      <4> QED BY <4>2, <4>3
    <3>7. ASSUME NEW y \in DOMAIN rest
          PROVE  rest[y] \in 1..(m - 1) /\ less[rest[y]].name = y
      <4>1. y \in DOMAIN x /\ y # name
        BY <3>3, <3>4, <3>5
      <4>2. CASE y = e
        <5>1. rest[y] = a /\ a \in 1..(m - 1)
          BY <3>3, <3>4, <3>5, <4>1, <4>2
        <5>2. less[a] = v[m]
          BY <3>3, <5>1
        <5> QED BY <3>3, <4>2, <5>1, <5>2
      <4>3. CASE y # e
        <5>1. /\ rest[y] = x[y] /\ x[y] \in 1..m /\ v[x[y]].name = y
              /\ x[y] # a /\ x[y] # m
          BY <3>3, <3>4, <3>5, <4>1, <4>3
        <5>2. x[y] \in 1..(m - 1) /\ less[x[y]] = v[x[y]]
          BY <3>3, <5>1
        <5> QED BY <5>1, <5>2, Zenon
      <4> QED BY <4>2, <4>3
    <3> QED BY <3>2, <3>3, <3>5, <3>6, <3>7, Zenon
  <2>9. TableOK(r)
    BY <2>2, <2>5, <2>6 DEF TableOK
  <2>10. Inverts(r)
    BY <2>4, <2>8 DEF Inverts, Has
  <2> QED BY <2>4, <2>9, <2>10
<1> QED BY <1>1, <1>2

LEMMA Placement ==
  ASSUME NEW t, TableOK(t), Inverts(t), NEW name \in Names
  PROVE  /\ TableOK(PutEntry(t, name)) /\ Inverts(PutEntry(t, name))
         /\ DOMAIN PutEntry(t, name).index = DOMAIN t.index \cup {name}
<1> DEFINE r == PutEntry(t, name)
           n == Len(t.vec)
           new == [name |-> name, triggered |-> FALSE]
<1>1. CASE Has(t, name)
  BY <1>1 DEF PutEntry, Has
<1>2. CASE ~Has(t, name)
  <2>1. n \in Nat /\ DOMAIN t.vec = 1..n /\ t.vec \in Seq(Entry)
    BY LenProperties DEF TableOK
  <2>2. /\ r = [vec |-> r.vec, index |-> r.index]
        /\ r.vec = Append(t.vec, new)
        /\ r.index = [x \in DOMAIN t.index \cup {name} |-> IF x = name THEN n + 1 ELSE t.index[x]]
    BY <1>2 DEF PutEntry
  <2>3. new \in Entry
    BY DEF Entry
  <2>4. /\ r.vec \in Seq(Entry) /\ DOMAIN r.vec = 1..(n + 1) /\ r.vec[n + 1] = new
        /\ \A i \in 1..n : r.vec[i] = t.vec[i]
    BY <2>1, <2>2, <2>3, AppendProperties, LenProperties
  <2>5. r.index \in [DOMAIN r.index -> Nat] /\ DOMAIN r.index \subseteq Names
    BY <2>1, <2>2 DEF TableOK
  <2>6. ASSUME NEW i \in DOMAIN r.vec
        PROVE  Has(r, r.vec[i].name) /\ r.index[r.vec[i].name] = i
    <3>1. CASE i = n + 1
      BY <2>2, <2>4, <3>1 DEF Has
    <3>2. CASE i # n + 1
      <4>1. i \in 1..n
        BY <2>1, <2>4, <2>6, <3>2
      <4>2. Has(t, t.vec[i].name) /\ t.index[t.vec[i].name] = i
        BY <2>1, <4>1 DEF Inverts
      <4>3. t.vec[i].name # name
        BY <1>2, <4>2
      <4> QED BY <2>2, <2>4, <4>1, <4>2, <4>3 DEF Has
    <3> QED BY <3>1, <3>2
  <2>7. ASSUME NEW x \in DOMAIN r.index
        PROVE  r.index[x] \in DOMAIN r.vec /\ r.vec[r.index[x]].name = x
    <3>1. CASE x = name
      BY <2>1, <2>2, <2>4, <3>1
    <3>2. CASE x # name
      <4>1. x \in DOMAIN t.index /\ r.index[x] = t.index[x]
        BY <2>2, <2>7, <3>2
      <4>2. t.index[x] \in 1..n /\ t.vec[t.index[x]].name = x
        BY <2>1, <4>1 DEF Inverts
      <4> QED BY <2>1, <2>4, <4>1, <4>2
    <3> QED BY <3>1, <3>2
  <2>8. TableOK(r)
    BY <2>2, <2>4, <2>5 DEF TableOK
  <2>9. Inverts(r)
    BY <2>6, <2>7 DEF Inverts
  <2> QED BY <2>2, <2>8, <2>9
<1> QED BY <1>1, <1>2
-----------------------------------------------------------------------------
(* Checking changes no name.                                               *)
LEMMA Checking ==
  ASSUME Good(tables), NEW kind \in Tables, NEW holding, NEW last,
         NEW r, r = [vec |-> CheckEntries(kind, holding, last), index |-> tables[kind].index]
  PROVE  /\ TableOK(r) /\ Inverts(r) /\ r.index = tables[kind].index
         /\ r.vec = CheckEntries(kind, holding, last)
<1> DEFINE t == tables[kind]
<1>1. TableOK(t) /\ Inverts(t)
  BY DEF Good
<1>2. /\ r = [vec |-> r.vec, index |-> r.index] /\ r.index = t.index
      /\ r.vec = CheckEntries(kind, holding, last)
  BY <1>1 DEF TableOK
<1>3. /\ Len(t.vec) \in Nat /\ DOMAIN t.vec = 1..Len(t.vec)
      /\ \A i \in DOMAIN t.vec : t.vec[i] \in Entry
  BY <1>1, LenProperties, ElementOfSeq DEF TableOK
<1>4. /\ DOMAIN r.vec = DOMAIN t.vec
      /\ \A i \in DOMAIN t.vec : r.vec[i].name = t.vec[i].name /\ r.vec[i] \in Entry
  <2>1. ASSUME NEW i \in DOMAIN t.vec
        PROVE  LET e == Result(t.vec[i], holding) IN e.name = t.vec[i].name /\ e \in Entry
    <3>1. t.vec[i].name \in Names /\ (t.vec[i].name \in holding) \in BOOLEAN
      BY <1>3 DEF Entry
    <3> QED BY <3>1 DEF Result, Entry
  <2> QED BY <1>2, <1>3, <2>1 DEF CheckEntries
<1>5. r.vec \in [1..Len(t.vec) -> Entry]
  BY <1>2, <1>3, <1>4 DEF CheckEntries
<1>6. r.vec \in Seq(Entry)
  BY <1>3, <1>5, IsASeq
<1>7. TableOK(r)
  BY <1>1, <1>2, <1>6 DEF TableOK
<1>8. Inverts(r)
  BY <1>1, <1>2, <1>4 DEF Inverts, Has
<1> QED BY <1>2, <1>7, <1>8

LEMMA TablesInit == Init => Good(tables)
<1> SUFFICES ASSUME Init PROVE Good(tables)
  OBVIOUS
<1>1. tables = [t \in Tables |-> NoTable]
  BY DEF Init
<1>2. TableOK(NoTable) /\ Inverts(NoTable) /\ DOMAIN NoTable.index = {}
  BY EmptySeq DEF NoTable, TableOK, Inverts
<1> QED BY <1>1, <1>2 DEF Good, Disjoint

(* Every call that edits the tables, and every check, leaves them good.    *)
LEMMA TablesEdit ==
  ASSUME Good(tables), NEW new, new = [t \in Tables |-> new[t]], NEW name \in Names, NEW kind,
         \A t \in Tables :
           \/ new[t] = RemoveEntry(tables[t], name)
           \/ t = kind /\ new[t] = PutEntry(tables[t], name)
           \/ new[t] = tables[t] /\ kind \notin Tables
  PROVE  Good(new)
<1>1. ASSUME NEW t \in Tables
      PROVE  /\ TableOK(new[t]) /\ Inverts(new[t])
             /\ DOMAIN new[t].index \subseteq DOMAIN tables[t].index \cup {name}
             /\ t # kind /\ kind \in Tables => name \notin DOMAIN new[t].index
             /\ name \in DOMAIN new[t].index => name \in DOMAIN tables[t].index \/ t = kind
  <2>1. TableOK(tables[t]) /\ Inverts(tables[t])
    BY DEF Good
  <2>2. CASE new[t] = RemoveEntry(tables[t], name)
    BY <2>1, <2>2, Removal
  <2>3. CASE t = kind /\ new[t] = PutEntry(tables[t], name)
    BY <2>1, <2>3, Placement
  <2>4. CASE new[t] = tables[t] /\ kind \notin Tables
    BY <2>1, <2>4
  <2> QED BY <2>2, <2>3, <2>4
<1>2. Disjoint(new)
  <2> SUFFICES ASSUME NEW t \in Tables, NEW u \in Tables, t # u,
                      NEW x \in DOMAIN new[t].index, x \in DOMAIN new[u].index
               PROVE  FALSE
    BY DEF Disjoint
  <2>1. DOMAIN tables[t].index \cap DOMAIN tables[u].index = {}
    BY DEF Good, Disjoint
  <2>2. CASE x # name
    BY <1>1, <2>1, <2>2
  <2>3. CASE x = name
    BY <1>1, <2>1, <2>3
  <2> QED BY <2>2, <2>3
<1> QED BY <1>1, <1>2 DEF Good
(* Every step stores good tables.  Where the tables are edited, a result   *)
(* is kept by the entries that stay and by no other.                       *)
EntriesStay(new) ==
  \A t \in Tables : \A i \in DOMAIN new[t].vec :
    \/ \E k \in DOMAIN tables[t].vec : new[t].vec[i] = tables[t].vec[k]
    \/ ~new[t].vec[i].triggered /\ ~Has(tables[t], new[t].vec[i].name)

LEMMA RemovalStays ==
  ASSUME NEW t, TableOK(t), Inverts(t), NEW name, NEW i \in DOMAIN RemoveEntry(t, name).vec
  PROVE  \E k \in DOMAIN t.vec : RemoveEntry(t, name).vec[i] = t.vec[k]
<1>1. CASE ~Has(t, name)
  BY <1>1 DEF RemoveEntry
<1>2. CASE Has(t, name)
  <2>1. Len(t.vec) \in Nat /\ DOMAIN t.vec = 1..Len(t.vec) /\ t.index[name] \in DOMAIN t.vec
    BY <1>2, LenProperties DEF TableOK, Inverts, Has
  <2>2. DOMAIN RemoveEntry(t, name).vec = 1..(Len(t.vec) - 1)
    BY <1>2, <2>1 DEF RemoveEntry
  <2>3. RemoveEntry(t, name).vec[i] = IF i = t.index[name] THEN t.vec[Len(t.vec)] ELSE t.vec[i]
    BY <1>2, <2>2 DEF RemoveEntry
  <2>4. i \in DOMAIN t.vec /\ Len(t.vec) \in DOMAIN t.vec
    BY <2>1, <2>2
  <2> QED BY <2>3, <2>4
<1> QED BY <1>1, <1>2

LEMMA PlacementStays ==
  ASSUME NEW t, TableOK(t), NEW name \in Names, NEW i \in DOMAIN PutEntry(t, name).vec
  PROVE  LET e == PutEntry(t, name).vec[i] IN
         \/ \E k \in DOMAIN t.vec : e = t.vec[k]
         \/ ~e.triggered /\ ~Has(t, e.name)
<1>1. CASE Has(t, name)
  BY <1>1 DEF PutEntry
<1>2. CASE ~Has(t, name)
  <2> DEFINE new == [name |-> name, triggered |-> FALSE]
  <2>1. new \in Entry /\ t.vec \in Seq(Entry) /\ PutEntry(t, name).vec = Append(t.vec, new)
    BY <1>2 DEF PutEntry, Entry, TableOK
  <2>2. /\ DOMAIN t.vec = 1..Len(t.vec) /\ Len(t.vec) \in Nat
        /\ DOMAIN Append(t.vec, new) = 1..(Len(t.vec) + 1)
        /\ Append(t.vec, new)[Len(t.vec) + 1] = new
        /\ \A k \in 1..Len(t.vec) : Append(t.vec, new)[k] = t.vec[k]
    BY <2>1, AppendProperties, LenProperties
  <2>3. CASE i = Len(t.vec) + 1
    BY <1>2, <2>1, <2>2, <2>3
  <2>4. CASE i # Len(t.vec) + 1
    <3>1. i \in DOMAIN t.vec
      BY <2>1, <2>2, <2>4
    <3> QED BY <2>1, <2>2, <3>1
  <2> QED BY <2>3, <2>4
<1> QED BY <1>1, <1>2

(* The calls that edit the tables, one at a time.                          *)
LEMMA EditGood ==
  ASSUME Good(tables), NEW new, new = [t \in Tables |-> new[t]], NEW name \in Names, NEW kind,
         \A t \in Tables :
           \/ new[t] = RemoveEntry(tables[t], name)
           \/ t = kind /\ new[t] = PutEntry(tables[t], name)
           \/ new[t] = tables[t] /\ kind \notin Tables
  PROVE  Good(new) /\ EntriesStay(new)
<1>1. Good(new)
  BY TablesEdit
<1>2. ASSUME NEW t \in Tables, NEW i \in DOMAIN new[t].vec
      PROVE  \/ \E k \in DOMAIN tables[t].vec : new[t].vec[i] = tables[t].vec[k]
             \/ ~new[t].vec[i].triggered /\ ~Has(tables[t], new[t].vec[i].name)
  <2>1. TableOK(tables[t]) /\ Inverts(tables[t])
    BY DEF Good
  <2>2. CASE new[t] = RemoveEntry(tables[t], name)
    BY <1>2, <2>1, <2>2, RemovalStays
  <2>3. CASE new[t] = PutEntry(tables[t], name)
    BY <1>2, <2>1, <2>3, PlacementStays
  <2>4. CASE new[t] = tables[t]
    BY <1>2, <2>4
  <2> QED BY <2>2, <2>3, <2>4
<1> QED BY <1>1, <1>2 DEF EntriesStay

Edits ==
  \/ \E x \in Names :
       \/ \E kind \in {"xdata", "uint64"}, valid \in BOOLEAN : SetCondition(kind, x, valid)
       \/ SetExpression(x) \/ RemoveCondition(x)
  \/ ClearCondition
LEMMA EditStep ==
  ASSUME Good(tables), Edits
  PROVE  /\ Good(tables') /\ EntriesStay(tables') /\ told' = StillTold(tables')
         /\ UNCHANGED <<callbackVars, clk_list>>
<1>1. tables = [t \in Tables |-> tables[t]]
  BY DEF Good
<1>2. ASSUME NEW x \in Names, NEW kind \in {"xdata", "uint64"}, SetCondition(kind, x, TRUE)
      PROVE  Good(tables') /\ EntriesStay(tables')
  <2>1. /\ tables' = [t \in Tables |-> tables'[t]]
        /\ \A t \in Tables : \/ tables'[t] = RemoveEntry(tables[t], x)
                             \/ t = kind /\ tables'[t] = PutEntry(tables[t], x)
    BY <1>1, <1>2 DEF SetCondition, Edit, Tables
  <2> QED BY <2>1, EditGood
<1>3. ASSUME NEW x \in Names, NEW kind \in {"xdata", "uint64"}, SetCondition(kind, x, FALSE)
      PROVE  Good(tables') /\ EntriesStay(tables')
  <2>1. /\ tables' = [t \in Tables |-> tables'[t]]
        /\ \A t \in Tables : tables'[t] = RemoveEntry(tables[t], x) \/ tables'[t] = tables[t]
    BY <1>1, <1>3 DEF SetCondition, Edit, Tables
  <2>2. "none" \notin Tables
    BY DEF Tables
  <2> QED BY <2>1, <2>2, EditGood
<1>4. ASSUME NEW x \in Names, SetExpression(x)
      PROVE  Good(tables') /\ EntriesStay(tables')
  <2>1. /\ tables' = [t \in Tables |-> tables'[t]]
        /\ \A t \in Tables : \/ tables'[t] = RemoveEntry(tables[t], x)
                             \/ t = "expressions" /\ tables'[t] = PutEntry(tables[t], x)
    BY <1>1, <1>4 DEF SetExpression, Edit, Tables
  <2> QED BY <2>1, EditGood
<1>5. ASSUME NEW x \in Names, RemoveCondition(x)
      PROVE  Good(tables') /\ EntriesStay(tables')
  <2>1. /\ tables' = [t \in Tables |-> tables'[t]]
        /\ \A t \in Tables : tables'[t] = RemoveEntry(tables[t], x)
    BY <1>5 DEF RemoveCondition, Edit
  <2> QED BY <2>1, EditGood
<1>6. ASSUME ClearCondition
      PROVE  Good(tables') /\ EntriesStay(tables')
  <2>1. tables' = [t \in Tables |-> NoTable]
    BY <1>6 DEF ClearCondition, Edit
  <2>2. /\ TableOK(NoTable) /\ Inverts(NoTable)
        /\ DOMAIN NoTable.index = {} /\ DOMAIN NoTable.vec = {}
    BY EmptySeq DEF NoTable, TableOK, Inverts
  <2> QED BY <2>1, <2>2 DEF Good, Disjoint, EntriesStay
<1>7. told' = StillTold(tables') /\ UNCHANGED <<callbackVars, clk_list>>
  BY DEF Edits, SetCondition, SetExpression, RemoveCondition, ClearCondition, Edit
<1>8. Good(tables') /\ EntriesStay(tables')
  BY <1>2, <1>3, <1>4, <1>5, <1>6 DEF Edits
<1> QED BY <1>7, <1>8

LEMMA CheckStep ==
  ASSUME Good(tables), NEW holding \in SUBSET Names, NEW last, NEW c, NEW e,
         Call(c, e, holding, last)
  PROVE  Good(tables')
<1>1. tables' = [t \in Tables |-> [vec |-> CheckEntries(t, holding, last), index |-> tables[t].index]]
  BY DEF Call
<1>2. ASSUME NEW t \in Tables
      PROVE  TableOK(tables'[t]) /\ Inverts(tables'[t]) /\ tables'[t].index = tables[t].index
  <2>1. tables'[t] = [vec |-> CheckEntries(t, holding, last), index |-> tables[t].index]
    BY <1>1
  <2> QED BY <2>1, Checking
<1>3. tables' = [t \in Tables |-> tables'[t]]
  BY <1>1
<1>4. Disjoint(tables')
  BY <1>2 DEF Good, Disjoint
<1> QED BY <1>2, <1>3, <1>4 DEF Good

(* Next by what it does to the tables.                                     *)
LEMMA Cases ==
  ASSUME [Next]_vars
  PROVE  \/ Edits
         \/ \E c \in Clocks, e \in Edges, holding \in SUBSET Names, last \in Ends :
              Call(c, e, holding, last)
         \/ UNCHANGED <<tables, told>>
BY DEF Next, Edits, vars, BindXClock, ClearClock

LEMMA GoodNext == Good(tables) /\ [Next]_vars => Good(tables')
<1> SUFFICES ASSUME Good(tables), [Next]_vars PROVE Good(tables')
  OBVIOUS
<1>1. CASE Edits
  BY <1>1, EditStep
<1>2. CASE \E c \in Clocks, e \in Edges, holding \in SUBSET Names, last \in Ends :
             Call(c, e, holding, last)
  BY <1>2, CheckStep
<1>3. CASE UNCHANGED <<tables, told>>
  BY <1>3
<1> QED BY <1>1, <1>2, <1>3, Cases

(* For any names and calls: in each table the index is the inverse of the  *)
(* vector, and no name is in two tables (IndexesAgree).                    *)
THEOREM NamesIndexed == Spec => []IndexesAgree
<1>1. Init => Good(tables)
  BY TablesInit
<1>2. Good(tables) /\ [Next]_vars => Good(tables)'
  BY GoodNext DEF Good, Disjoint
<1>3. Good(tables) => IndexesAgree
  BY DEF Good, Disjoint, IndexesAgree
<1> QED BY <1>1, <1>2, <1>3, PTL DEF Spec
-----------------------------------------------------------------------------
(* The results kept in the entries are those of the last check.            *)
ResultsInv == Good(tables) /\ ResultsAreLatest

LEMMA EditResults ==
  ASSUME ResultsInv, Edits
  PROVE  ResultsAreLatest'
<1> SUFFICES ASSUME NEW t \in Tables, NEW i \in DOMAIN tables'[t].vec
             PROVE  tables'[t].vec[i].triggered <=> tables'[t].vec[i].name \in told'
  BY DEF ResultsAreLatest
<1> DEFINE x == tables'[t].vec[i].name
<1>1. /\ Good(tables) /\ Good(tables') /\ EntriesStay(tables') /\ told' = StillTold(tables')
  BY EditStep DEF ResultsInv
<1>2. Has(tables'[t], x)
  BY <1>1 DEF Good, Inverts
<1>3. CASE \E k \in DOMAIN tables[t].vec : tables'[t].vec[i] = tables[t].vec[k]
  <2> PICK k \in DOMAIN tables[t].vec : tables'[t].vec[i] = tables[t].vec[k]
    BY <1>3
  <2>1. Has(tables[t], x) /\ (tables[t].vec[k].triggered <=> x \in told)
    BY <1>1 DEF Good, Inverts, ResultsInv, ResultsAreLatest
  <2>2. x \in told' <=> x \in told
    BY <1>1, <1>2, <2>1 DEF StillTold
  <2> QED BY <2>1, <2>2
<1>4. CASE ~tables'[t].vec[i].triggered /\ ~Has(tables[t], x)
  <2>1. ASSUME NEW u \in Tables, Has(tables[u], x), Has(tables'[u], x)
        PROVE  FALSE
    BY <1>1, <1>2, <1>4, <2>1 DEF Good, Disjoint, Has
  <2> QED BY <1>1, <1>4, <2>1 DEF StillTold
<1> QED BY <1>1, <1>3, <1>4 DEF EntriesStay

(* A name has one place, so an entry is checked exactly if its name is.    *)
LEMMA CheckResults ==
  ASSUME ResultsInv, NEW holding \in SUBSET Names, NEW last, NEW c, NEW e,
         Call(c, e, holding, last)
  PROVE  ResultsAreLatest'
<1> SUFFICES ASSUME NEW t \in Tables, NEW i \in DOMAIN tables'[t].vec
             PROVE  tables'[t].vec[i].triggered <=> tables'[t].vec[i].name \in told'
  BY DEF ResultsAreLatest
<1> DEFINE old == tables[t].vec[i]
           x == old.name
<1>1. /\ tables'[t].vec = CheckEntries(t, holding, last)
      /\ told' = (told \ Checked(last)) \cup (Checked(last) \cap holding)
  BY DEF Call
<1>2. /\ i \in DOMAIN tables[t].vec
      /\ tables'[t].vec[i] = IF Place(t, i) <= last THEN Result(old, holding) ELSE old
  BY <1>1 DEF CheckEntries
<1>3. Has(tables[t], x) /\ tables[t].index[x] = i /\ x \in Names
  BY <1>2 DEF ResultsInv, Good, Inverts, TableOK, Has
<1>4. tables'[t].vec[i].name = x
  BY <1>2 DEF Result
<1>5. CASE Place(t, i) <= last
  <2>1. x \in Checked(last)
    BY <1>2, <1>3, <1>5 DEF Checked
  <2>2. tables'[t].vec[i].triggered <=> x \in holding
    <3>1. tables'[t].vec[i] = Result(old, holding)
      BY <1>2, <1>5
    <3>2. Result(old, holding).triggered = (x \in holding)
      BY Zenon DEF Result
    <3> QED BY <3>1, <3>2, Zenon
  <2>3. x \in told' <=> x \in holding
    BY <1>1, <2>1
  <2> QED BY <1>4, <2>2, <2>3
<1>6. CASE ~(Place(t, i) <= last)
  <2>1. ASSUME NEW u \in Tables, NEW k \in DOMAIN tables[u].vec, tables[u].vec[k].name = x
        PROVE  u = t /\ k = i
    <3>1. Has(tables[u], x) /\ tables[u].index[x] = k
      BY <2>1 DEF ResultsInv, Good, Inverts
    <3>2. u = t
      BY <1>3, <3>1 DEF ResultsInv, Good, Disjoint, Has
    <3> QED BY <1>3, <3>1, <3>2
  <2>2. x \notin Checked(last)
    BY <1>6, <2>1 DEF Checked
  <2>3. tables'[t].vec[i].triggered <=> x \in told
    BY <1>2, <1>6 DEF ResultsInv, ResultsAreLatest
  <2>4. x \in told' <=> x \in told
    BY <1>1, <2>2
  <2> QED BY <1>4, <2>3, <2>4
<1> QED BY <1>5, <1>6

LEMMA ResultsNext == ResultsInv /\ [Next]_vars => ResultsInv'
<1> SUFFICES ASSUME ResultsInv, [Next]_vars PROVE ResultsInv'
  OBVIOUS
<1>1. Good(tables')
  BY GoodNext DEF ResultsInv
<1>2. Good(tables)'
  BY <1>1 DEF Good, Disjoint
<1>3. CASE Edits
  BY <1>2, <1>3, EditResults DEF ResultsInv
<1>4. CASE \E c \in Clocks, e \in Edges, holding \in SUBSET Names, last \in Ends :
             Call(c, e, holding, last)
  BY <1>2, <1>4, CheckResults DEF ResultsInv
<1>5. CASE UNCHANGED <<tables, told>>
  BY <1>2, <1>5 DEF ResultsInv, ResultsAreLatest
<1> QED BY <1>3, <1>4, <1>5, Cases

(* For any names and calls: what a monitor reports of a condition is the   *)
(* result of the last check that reached it (ResultsAreLatest).            *)
THEOREM LatestResults == Spec => []ResultsAreLatest
<1>1. Init => ResultsInv
  <2> SUFFICES ASSUME Init PROVE ResultsAreLatest
    BY TablesInit DEF ResultsInv
  <2>1. \A t \in Tables : tables[t].vec = <<>>
    BY DEF Init, NoTable
  <2>2. DOMAIN <<>> = {}
    BY EmptySeq
  <2> QED BY <2>1, <2>2 DEF ResultsAreLatest
<1>2. ResultsInv => ResultsAreLatest
  BY DEF ResultsInv
<1> QED BY <1>1, <1>2, ResultsNext, PTL DEF Spec
-----------------------------------------------------------------------------
(* Attachments.  A place is wanted exactly if a registration with the      *)
(* clock that is there now exists; no registration is with a clock yet to  *)
(* be created, so a new clock finds none.                                  *)
AttachInv ==
  /\ lives \in [Clocks -> Nat] /\ hooks \in [Places -> Nat]
  /\ registrations \subseteq [clock : Clocks, life : Nat, edge : Edges]
  /\ \A r \in registrations : r.life <= lives[r.clock]
  /\ wanted \subseteq Places /\ cleared \subseteq wanted
  /\ \A c \in Clocks, e \in Edges : <<c, e>> \in wanted <=> Known(c, e)
  /\ CalledOncePerEdge

LEMMA AttachInit == CallbackInit => AttachInv
BY DEF CallbackInit, AttachInv, CalledOncePerEdge, Known, Places

LEMMA AttachStep ==
  ASSUME AttachInv, NEW c \in Clocks, NEW e \in Edges, Attach(c, e)
  PROVE  AttachInv'
<1> DEFINE r0 == [clock |-> c, life |-> lives[c], edge |-> e]
<1>1. lives' = lives /\ cleared' = cleared /\ wanted' = wanted \cup {<<c, e>>} /\ <<c, e>> \in Places
  BY DEF Attach, Places
<1>2. CASE Known(c, e)
  <2>1. <<c, e>> \in wanted /\ registrations' = registrations /\ hooks' = hooks
    BY <1>2 DEF Attach, AttachInv
  <2>2. wanted' = wanted
    BY <1>1, <2>1
  <2> QED BY <1>1, <2>1, <2>2 DEF AttachInv, CalledOncePerEdge, Known, Live
<1>3. CASE ~Known(c, e)
  <2>1. /\ registrations' = registrations \cup {r0}
        /\ hooks' = [hooks EXCEPT ![<<c, e>>] = @ + 1]
    BY <1>3 DEF Attach
  <2>2. <<c, e>> \notin wanted /\ hooks[<<c, e>>] = 0
    BY <1>1, <1>3 DEF AttachInv, CalledOncePerEdge
  <2>3. r0 \in [clock : Clocks, life : Nat, edge : Edges] /\ r0.life <= lives[r0.clock]
    BY DEF AttachInv
  <2>4. ASSUME NEW c1 \in Clocks, NEW e1 \in Edges
        PROVE  <<c1, e1>> \in wanted' <=> Known(c1, e1)'
    <3>1. r0.clock = c /\ r0.edge = e /\ r0.life = lives[c]
      OBVIOUS
    <3>2. \A r : Live(r)' <=> Live(r)
      BY <1>1 DEF Live
    <3>3. Known(c1, e1)' <=> \E r \in registrations' : r.clock = c1 /\ r.edge = e1 /\ Live(r)
      BY <3>2 DEF Known
    <3>4. Live(r0)
      BY <3>1 DEF Live
    <3>5. Known(c1, e1)' <=> Known(c1, e1) \/ (c1 = c /\ e1 = e)
      <4> HIDE DEF r0
      <4> QED BY <2>1, <3>1, <3>3, <3>4 DEF Known
    <3> QED BY <1>1, <3>5 DEF AttachInv
  <2>5. hooks' \in [Places -> Nat] /\ \A p \in Places : hooks'[p] = IF p = <<c, e>> THEN 1 ELSE hooks[p]
    BY <1>1, <2>1, <2>2 DEF AttachInv
  <2>6. CalledOncePerEdge'
    BY <1>1, <2>2, <2>5 DEF AttachInv, CalledOncePerEdge
  <2>7. /\ registrations' \subseteq [clock : Clocks, life : Nat, edge : Edges]
        /\ \A r \in registrations' : r.life <= lives'[r.clock]
    BY <1>1, <2>1, <2>3 DEF AttachInv
  <2>8. wanted' \subseteq Places /\ cleared' \subseteq wanted' /\ lives' \in [Clocks -> Nat]
    BY <1>1 DEF AttachInv
  <2> QED BY <2>4, <2>5, <2>6, <2>7, <2>8 DEF AttachInv
<1> QED BY <1>2, <1>3

LEMMA DetachStep == AttachInv /\ Detach => AttachInv'
<1> SUFFICES ASSUME AttachInv, Detach PROVE AttachInv'
  OBVIOUS
<1>1. /\ registrations' = {} /\ wanted' = {} /\ cleared' = {} /\ lives' = lives
      /\ hooks' = [p \in Places |->
           IF \E r \in registrations : Live(r) /\ p = <<r.clock, r.edge>> THEN 0 ELSE hooks[p]]
  BY DEF Detach
<1>2. ASSUME NEW p \in Places
      PROVE  hooks'[p] = 0
  <2>1. CASE \E r \in registrations : Live(r) /\ p = <<r.clock, r.edge>>
    BY <1>1, <2>1
  <2>2. CASE ~\E r \in registrations : Live(r) /\ p = <<r.clock, r.edge>>
    <3>1. PICK c \in Clocks, e \in Edges : p = <<c, e>>
      BY DEF Places
    <3>2. ~Known(c, e)
      BY <2>2, <3>1 DEF Known
    <3>3. hooks[p] = 0
      BY <3>1, <3>2 DEF AttachInv, CalledOncePerEdge
    <3> QED BY <1>1, <2>2, <3>3
  <2> QED BY <2>1, <2>2
<1>3. hooks' \in [Places -> Nat]
  BY <1>1 DEF AttachInv
<1> QED BY <1>1, <1>2, <1>3 DEF AttachInv, CalledOncePerEdge, Known

LEMMA ClearStep ==
  ASSUME AttachInv, NEW c \in Clocks, NEW e \in Edges, ClearCallBacks(c, e)
  PROVE  AttachInv'
<1>1. /\ lives' = lives /\ registrations' = registrations /\ wanted' = wanted
      /\ hooks' = [hooks EXCEPT ![<<c, e>>] = 0] /\ <<c, e>> \in Places
      /\ cleared' = IF <<c, e>> \in wanted THEN cleared \cup {<<c, e>>} ELSE cleared
  BY DEF ClearCallBacks, AttachInv, Places
<1>2. /\ hooks' \in [Places -> Nat]
      /\ \A p \in Places : hooks'[p] = IF p = <<c, e>> THEN 0 ELSE hooks[p]
  BY <1>1 DEF AttachInv
<1>3. CalledOncePerEdge'
  BY <1>1, <1>2 DEF AttachInv, CalledOncePerEdge
<1>4. cleared' \subseteq wanted' /\ \A c1 \in Clocks, e1 \in Edges : Known(c1, e1)' <=> Known(c1, e1)
  BY <1>1 DEF AttachInv, Known, Live
<1> QED BY <1>1, <1>2, <1>3, <1>4 DEF AttachInv

LEMMA ReplaceStep ==
  ASSUME AttachInv, NEW c \in Clocks, ReplaceClock(c)
  PROVE  AttachInv'
<1>1. /\ registrations' = registrations /\ lives' = [lives EXCEPT ![c] = @ + 1]
      /\ hooks' = [p \in Places |-> IF p[1] = c THEN 0 ELSE hooks[p]]
      /\ wanted' = {p \in wanted : p[1] # c} /\ cleared' = {p \in cleared : p[1] # c}
  BY DEF ReplaceClock
<1>2. /\ lives' \in [Clocks -> Nat] /\ lives'[c] = lives[c] + 1 /\ lives[c] \in Nat
      /\ \A d \in Clocks : d # c => lives'[d] = lives[d]
  BY <1>1 DEF AttachInv
<1>3. ASSUME NEW r \in registrations
      PROVE  /\ r.life <= lives'[r.clock]
             /\ Live(r)' <=> Live(r) /\ r.clock # c
  <2>1. r.clock \in Clocks /\ r.life \in Nat /\ r.life <= lives[r.clock]
    BY DEF AttachInv
  <2>2. CASE r.clock = c
    BY <1>2, <2>1, <2>2 DEF Live
  <2>3. CASE r.clock # c
    BY <1>2, <2>1, <2>3 DEF Live
  <2> QED BY <2>2, <2>3
<1>4. ASSUME NEW d \in Clocks, NEW e \in Edges
      PROVE  <<d, e>> \in wanted' <=> Known(d, e)'
  <2>1. Known(d, e)' <=> Known(d, e) /\ d # c
    BY <1>1, <1>3 DEF Known
  <2> QED BY <1>1, <2>1 DEF AttachInv
<1>5. hooks' \in [Places -> Nat] /\ CalledOncePerEdge'
  BY <1>1 DEF AttachInv, CalledOncePerEdge
<1>6. wanted' \subseteq Places /\ cleared' \subseteq wanted'
  BY <1>1 DEF AttachInv
<1> QED BY <1>1, <1>2, <1>3, <1>4, <1>5, <1>6 DEF AttachInv

(* The other steps attach nothing.                                         *)
LEMMA AttachCases ==
  ASSUME [Next]_vars
  PROVE  \/ \E c \in Clocks, e \in Edges : Attach(c, e) \/ ClearCallBacks(c, e)
         \/ Detach \/ \E c \in Clocks : ReplaceClock(c)
         \/ UNCHANGED attaching
<1>1. CASE UserCall
  BY <1>1 DEF UserCall, Enable, Disable, Reset, SetMaxCbs, IncCbCount, DecCbCount, Counts, EnableClock
<1>2. CASE Edits
  BY <1>2 DEF Edits, SetCondition, SetExpression, RemoveCondition, ClearCondition, Edit, callbackVars
<1>3. CASE \E c \in Clocks, e \in Edges, holding \in SUBSET Names, last \in Ends : Call(c, e, holding, last)
  BY <1>3 DEF Call, Cb
<1>4. CASE ClearClock \/ \E c \in Clocks : BindXClock(c)
  BY <1>4 DEF ClearClock, BindXClock, callbackVars
<1>5. CASE UNCHANGED vars
  BY <1>5 DEF vars, callbackVars
<1> QED BY <1>1, <1>2, <1>3, <1>4, <1>5 DEF Next, Edits

(* For any clocks, destroyed and created at any moment: the monitor is     *)
(* called once on each edge it is attached to (CalledOncePerEdge).         *)
THEOREM CalledOnce == Spec => []CalledOncePerEdge
<1>1. Init => AttachInv
  BY AttachInit DEF Init
<1>2. AttachInv /\ [Next]_vars => AttachInv'
  <2> SUFFICES ASSUME AttachInv, [Next]_vars PROVE AttachInv'
    OBVIOUS
  <2>1. CASE UNCHANGED attaching
    BY <2>1 DEF attaching, AttachInv, CalledOncePerEdge, Known, Live
  <2> QED BY <2>1, AttachCases, AttachStep, ClearStep, DetachStep, ReplaceStep
<1>3. AttachInv => CalledOncePerEdge
  BY DEF AttachInv
<1> QED BY <1>1, <1>2, <1>3, PTL DEF Spec
-----------------------------------------------------------------------------
(* Counting.                                                               *)
CountInv == cb_counts \in Int /\ cb_maxcts \in Int /\ cb_enable \in BOOLEAN
            /\ pardoned \in BOOLEAN /\ QuotaHolds

(* For any quotas and calls: a monitor that has reached its quota is       *)
(* disabled, unless the user or an exception let it pass (QuotaHolds).     *)
THEOREM QuotaKept == Spec => []QuotaHolds
<1>1. Init => CountInv
  <2> SUFFICES ASSUME Init PROVE CountInv
    OBVIOUS
  <2>1. cb_enable \in BOOLEAN /\ pardoned \in BOOLEAN
    BY Zenon DEF Init, CallbackInit
  <2>2. cb_counts = 0 /\ cb_maxcts = -1
    BY Zenon DEF Init, CallbackInit
  <2>3. ~(cb_maxcts > 0) /\ cb_counts \in Int /\ cb_maxcts \in Int
    BY <2>2
  <2> QED BY <2>1, <2>3, Zenon DEF CountInv, QuotaHolds
<1>2. CountInv /\ [Next]_vars => CountInv'
  <2> SUFFICES ASSUME CountInv, [Next]_vars PROVE CountInv'
    OBVIOUS
  <2>1. CASE UNCHANGED counting
    BY <2>1 DEF counting, CountInv, QuotaHolds
  <2>2. CASE Enable \/ Disable \/ Reset \/ SetMaxCbs \/ IncCbCount \/ DecCbCount
    <3>1. CASE Enable \/ SetMaxCbs \/ IncCbCount
      <4>1. pardoned' /\ pardoned' \in BOOLEAN /\ cb_enable' \in BOOLEAN
        BY <3>1, Zenon DEF Enable, SetMaxCbs, IncCbCount, Counts, CountInv
      <4>2. cb_counts' \in {cb_counts, cb_counts + 1} /\ cb_maxcts' \in {cb_maxcts} \cup Quotas
        BY <3>1, Zenon DEF Enable, SetMaxCbs, IncCbCount, Counts
      <4>3. cb_counts' \in Int /\ cb_maxcts' \in Int
        BY <4>2, BoundsAssumption DEF CountInv
      <4> QED BY <4>1, <4>3, Zenon DEF CountInv, QuotaHolds
    <3>2. CASE Disable
      <4>1. ~cb_enable' /\ cb_enable' \in BOOLEAN /\ UNCHANGED <<pardoned, cb_counts, cb_maxcts>>
        BY <3>2, Zenon DEF Disable, Counts
      <4> QED BY <4>1, Zenon DEF CountInv, QuotaHolds
    <3>4. CASE Reset
      <4>1. /\ cb_enable' \in BOOLEAN /\ pardoned' \in BOOLEAN
            /\ cb_counts' = 0 /\ cb_maxcts' = cb_maxcts
        BY <3>4, Zenon DEF Reset, Counts
      <4>2. cb_counts' \in Int /\ (cb_maxcts' > 0 => cb_counts' < cb_maxcts')
        BY <4>1 DEF CountInv
      <4> QED BY <4>1, <4>2, Zenon DEF CountInv, QuotaHolds
    <3>3. CASE DecCbCount
      BY <3>3 DEF DecCbCount, Counts, CountInv, QuotaHolds
    <3> QED BY <2>2, <3>1, <3>2, <3>3, <3>4
  <2>3. ASSUME NEW c \in Clocks, NEW e \in Edges, NEW holding \in SUBSET Names, NEW last \in Ends,
               Call(c, e, holding, last)
        PROVE  CountInv'
    <3> DEFINE hit == Checked(last) \cap holding # {}
               count == IF hit THEN cb_counts + 1 ELSE cb_counts
               throws == last < Total
    <3>1. /\ cb_counts' = count /\ cb_maxcts' = cb_maxcts /\ pardoned' = throws
          /\ cb_enable' = (throws \/ ~QuotaReached(count))
      BY <2>3 DEF Call, Cb
    <3>2. count \in Int
      BY DEF CountInv
    <3>3. cb_maxcts > 0 => QuotaReached(count) \/ count < cb_maxcts
      BY <3>2 DEF CountInv, QuotaReached
    <3>4. QuotaHolds'
      BY <3>1, <3>3, Zenon DEF QuotaHolds
    <3>5. cb_enable' \in BOOLEAN /\ pardoned' \in BOOLEAN
      BY <3>1
    <3> QED BY <3>1, <3>2, <3>4, <3>5 DEF CountInv
  <2>4. CASE UserCall
    BY <2>1, <2>2, <2>4 DEF UserCall, Attach, ClearCallBacks, Detach, EnableClock
  <2>5. CASE Edits \/ ClearClock \/ (\E c \in Clocks : BindXClock(c) \/ ReplaceClock(c)) \/ UNCHANGED vars
    BY <2>1, <2>5 DEF Edits, SetCondition, SetExpression, RemoveCondition, ClearCondition, Edit,
       callbackVars, ClearClock, BindXClock, ReplaceClock, vars
  <2> QED BY <2>3, <2>4, <2>5 DEF Next, Edits
<1>3. CountInv => QuotaHolds
  BY DEF CountInv
<1> QED BY <1>1, <1>2, <1>3, PTL DEF Spec
=============================================================================
