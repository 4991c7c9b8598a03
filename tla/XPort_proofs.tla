---------------------------- MODULE XPort_proofs ----------------------------
(***************************************************************************)
(* Proofs about the signals and ports of XPort.  A call of the user is run *)
(* one member function at a time; the invariant Pending holds between any  *)
(* two of them and relates the world to the calls still on the stack.  The *)
(* second half adds to it what the pins are owed: Carried and Settled.     *)
(***************************************************************************)
EXTENDS XPort, SequenceTheorems, WellFoundedInduction, TLAPS

Directions == {"Input", "Output", "InOut"}
Modes      == {"Imme", "Rise", "Fall"}
Listeners(s) == {"user"} \cup {t \in Signals : mWidth[t] = mWidth[s]}

(* What a signal may be read from and written to: storage of its width,    *)
(* a signal of its width, a slice of its width.                            *)
Readers(s) ==
  {Unbound}
  \cup {[from |-> "pin", pin |-> p] : p \in {q \in Pins : PinWidth[q] = Width(s)}}
  \cup {[from |-> "const", value |-> v] : v \in Vectors(s)}
  \cup {[from |-> "expr", of |-> t] : t \in {u \in Signals : Width(u) = Width(s)}}
  \cup {b \in [from : {"view"}, of : Signals, at : Nat] : b.at + Width(s) <= Width(b.of)}

SignalType(s) ==
  [io : Directions, rd : Readers(s), same : BOOLEAN, wr : Readers(s), last : Vectors(s) \cup {None},
   cbs : Seq(Listeners(s)), local : Vectors(s), shadow : Vectors(s), mode : Modes,
   busy : BOOLEAN, readonly : BOOLEAN]
AnySignal == UNION {SignalType(s) : s \in Signals}
AnyVector == (UNION {Vectors(s) : s \in Signals}) \cup (UNION {Storage(p) : p \in Pins}) \cup {None}

WorldOK(w) ==
  /\ w \in [sig : [Signals -> AnySignal], pin : [Pins -> AnyVector], asked : [Signals -> AnyVector],
            told : [Signals -> AnyVector], foreign : SUBSET Signals, late : SUBSET Signals, within : SUBSET Signals]
  /\ \A s \in Signals :
       /\ w.sig[s] \in SignalType(s) /\ w.sig[s].wr.from \notin {"const", "expr"}
       /\ w.asked[s] \in Vectors(s) \cup {None} /\ w.told[s] \in Vectors(s) \cup {None}
  /\ \A p \in Pins : w.pin[p] \in Storage(p)

LEMMA WidthFacts ==
  ASSUME NEW s \in Signals
  PROVE  Width(s) \in Nat \ {0} /\ Bits(s) = 1 .. Width(s)
BY SignalAssumption DEF Width, Bits

LEMMA VecIs ==
  ASSUME NEW n \in Nat, NEW S, NEW f \in [1 .. n -> S]
  PROVE  Vec(f) = f
<1>1. f \in Seq(S)
  BY SeqDef
<1> QED BY <1>1, ConcatEmptySeq, Zenon DEF Vec

LEMMA VectorIs ==
  ASSUME NEW s \in Signals, NEW v \in Vectors(s)
  PROVE  Vec(v) = v
BY VecIs, WidthFacts DEF Vectors

LEMMA ReaderFacts ==
  ASSUME NEW s \in Signals, NEW b \in Readers(s)
  PROVE  /\ b.from \in {"none", "pin", "const", "expr", "view"}
         /\ b.from = "pin" => b.pin \in Pins /\ PinWidth[b.pin] = Width(s)
         /\ b.from = "const" => b.value \in Vectors(s)
         /\ b.from = "expr" => b.of \in Signals /\ Width(b.of) = Width(s)
         /\ b.from = "view" => /\ b.of \in Signals /\ b.at \in Nat
                               /\ b.at + Width(s) <= Width(b.of)
<1>1. CASE b = Unbound
  BY <1>1 DEF Unbound
<1>2. CASE b \in {[from |-> "pin", pin |-> p] : p \in {q \in Pins : PinWidth[q] = Width(s)}}
  BY <1>2
<1>3. CASE b \in {[from |-> "const", value |-> v] : v \in Vectors(s)}
  BY <1>3
<1>4. CASE b \in {[from |-> "expr", of |-> t] : t \in {u \in Signals : Width(u) = Width(s)}}
  BY <1>4
<1>5. CASE b \in {x \in [from : {"view"}, of : Signals, at : Nat] : x.at + Width(s) <= Width(x.of)}
  BY <1>5
<1> QED BY <1>1, <1>2, <1>3, <1>4, <1>5 DEF Readers
-----------------------------------------------------------------------------
(* What the conversions make of vectors.                                   *)
LEMMA ZeroIs ==
  ASSUME NEW s \in Signals
  PROVE  Zero(s) = [i \in Bits(s) |-> 0] /\ Zero(s) \in Vectors(s)
<1>1. [i \in Bits(s) |-> 0] \in Vectors(s)
  BY DEF Vectors
<1> QED BY <1>1, VectorIs DEF Zero

LEMMA AvalIs ==
  ASSUME NEW s \in Signals, NEW t \in Signals, Width(t) = Width(s), NEW v \in Vectors(t)
  PROVE  /\ Aval(v) \in Vectors(s) /\ Aval(v) \in [1 .. Width(s) -> 0 .. 1]
<1>1. DOMAIN v = 1 .. Width(s) /\ Width(s) \in Nat
  BY WidthFacts DEF Vectors
<1>2. \A i \in 1 .. Width(s) : v[i] \in 0 .. 3
  BY WidthFacts DEF Vectors
<1>3. \A i \in 1 .. Width(s) : v[i] % 2 \in 0 .. 1
  BY <1>2
<1>4. [i \in DOMAIN v |-> v[i] % 2] \in [1 .. Width(s) -> 0 .. 1]
  BY <1>1, <1>3
<1>5. Aval(v) \in [1 .. Width(s) -> 0 .. 1]
  BY <1>1, <1>4, VecIs DEF Aval
<1>6. Aval(v) \in [1 .. Width(s) -> 0 .. 3]
  BY <1>5
<1> QED BY <1>5, <1>6, WidthFacts DEF Vectors

LEMMA StoredIs ==
  ASSUME NEW s \in Signals, NEW p \in Pins, PinWidth[p] = Width(s), NEW v \in Vectors(s)
  PROVE  Stored(p, v) \in Storage(p)
BY AvalIs, WidthFacts DEF Stored, Storage, Vectors

LEMMA FetchedIs ==
  ASSUME NEW s \in Signals, NEW p \in Pins, PinWidth[p] = Width(s), NEW now \in Vectors(s), NEW v \in Storage(p)
  PROVE  Fetched(p, now, v) \in Vectors(s)
<1>1. Width(s) \in Nat /\ Bits(s) = 1 .. Width(s)
  BY WidthFacts
<1>2. CASE p \in NativePins
  <2>1. v \in [1 .. Width(s) -> 0 .. 1] /\ now \in [1 .. Width(s) -> 0 .. 3]
    BY <1>1, <1>2 DEF Storage, Vectors
  <2>2. \A i \in 1 .. Width(s) : now[i] \in 0 .. 3 /\ v[i] \in 0 .. 1
    BY <2>1
  <2>3. \A i \in 1 .. Width(s) : 2 * (now[i] \div 2) + v[i] \in 0 .. 3
    BY <2>2
  <2>4. [i \in DOMAIN v |-> 2 * (now[i] \div 2) + v[i]] \in Vectors(s)
    BY <1>1, <2>1, <2>3 DEF Vectors
  <2> QED BY <1>2, <2>4, VectorIs DEF Fetched
<1>3. CASE p \notin NativePins
  BY <1>1, <1>3 DEF Fetched, Storage, Vectors
<1> QED BY <1>2, <1>3

LEMMA SliceIs ==
  ASSUME NEW s \in Signals, NEW t \in Signals, NEW at \in Nat, at + Width(s) <= Width(t), NEW v \in Vectors(t)
  PROVE  Slice(v, at, Width(s)) \in Vectors(s)
<1>1. Width(s) \in Nat \ {0} /\ Bits(s) = 1 .. Width(s) /\ Width(t) \in Nat /\ Bits(t) = 1 .. Width(t)
  BY WidthFacts
<1>2. \A i \in at + 1 .. at + Width(s) : v[i] \in 0 .. 3
  BY <1>1 DEF Vectors
<1> DEFINE q == SubSeq(v, at + 1, at + Width(s))
<1>3. /\ q \in Seq(0 .. 3)
      /\ Len(q) = IF at + 1 <= at + Width(s) THEN at + Width(s) - (at + 1) + 1 ELSE 0
  BY <1>1, <1>2, SubSeqProperties
<1>4. Len(q) = Width(s)
  BY <1>1, <1>3
<1>5. q \in [1 .. Width(s) -> 0 .. 3]
  BY <1>3, <1>4, LenProperties
<1> QED BY <1>1, <1>5 DEF Slice, Vectors

LEMMA VectorSeq ==
  ASSUME NEW s \in Signals, NEW v \in Vectors(s)
  PROVE  v \in Seq(0 .. 3) /\ Len(v) = Width(s) /\ DOMAIN v = 1 .. Width(s)
<1>1. Width(s) \in Nat /\ v \in [1 .. Width(s) -> 0 .. 3]
  BY WidthFacts DEF Vectors
<1>2. v \in Seq(0 .. 3)
  BY <1>1, SeqDef
<1> QED BY <1>1, <1>2, LenProperties

LEMMA SpliceIs ==
  ASSUME NEW s \in Signals, NEW t \in Signals, NEW at \in Nat, at + Width(s) <= Width(t),
         NEW v \in Vectors(s), NEW old \in Vectors(t)
  PROVE  /\ Splice(old, at, v) \in Vectors(t)
         /\ Width(s) = Width(t) => Splice(old, at, v) = v
<1>1. Width(s) \in Nat \ {0} /\ Width(t) \in Nat /\ Bits(t) = 1 .. Width(t) /\ Bits(s) = 1 .. Width(s)
  BY WidthFacts
<1>2. v \in Seq(0 .. 3) /\ Len(v) = Width(s) /\ old \in Seq(0 .. 3) /\ Len(old) = Width(t)
  BY VectorSeq
<1>3. \A i \in 1 .. Width(t) : old[i] \in 0 .. 3
  BY <1>1 DEF Vectors
<1> DEFINE a == SubSeq(old, 1, at)
           b == SubSeq(old, at + Width(s) + 1, Width(t))
<1>4. a \in Seq(0 .. 3) /\ Len(a) = at
  <2>1. \A i \in 1 .. at : old[i] \in 0 .. 3
    BY <1>1, <1>3
  <2>2. a \in Seq(0 .. 3) /\ Len(a) = IF 1 <= at THEN at - 1 + 1 ELSE 0
    BY <2>1, SubSeqProperties
  <2> QED BY <2>2
<1>5. b \in Seq(0 .. 3) /\ Len(b) = Width(t) - (at + Width(s))
  <2>1. \A i \in at + Width(s) + 1 .. Width(t) : old[i] \in 0 .. 3
    BY <1>1, <1>3
  <2>2. b \in Seq(0 .. 3) /\ Len(b) = IF at + Width(s) + 1 <= Width(t) THEN Width(t) - (at + Width(s) + 1) + 1 ELSE 0
    BY <1>1, <2>1, SubSeqProperties
  <2> QED BY <1>1, <2>2
<1>6. Splice(old, at, v) = a \o v \o b
  BY <1>2 DEF Splice
<1> HIDE DEF a, b
<1>7. a \o v \in Seq(0 .. 3) /\ Len(a \o v) = at + Width(s)
  <2>1. a \o v \in Seq(0 .. 3) /\ Len(a \o v) = Len(a) + Len(v)
    BY <1>2, <1>4, ConcatProperties
  <2> QED BY <1>2, <1>4, <2>1
<1>8. a \o v \o b \in Seq(0 .. 3) /\ Len(a \o v \o b) = Width(t)
  <2>1. a \o v \o b \in Seq(0 .. 3) /\ Len(a \o v \o b) = Len(a \o v) + Len(b)
    BY <1>5, <1>7, ConcatProperties
  <2> QED BY <1>1, <1>5, <1>7, <2>1
<1>9. a \o v \o b \in [1 .. Width(t) -> 0 .. 3]
  BY <1>8, LenProperties
<1>10. ASSUME Width(s) = Width(t)
       PROVE  a \o v \o b = v
  <2>1. Len(a) = 0 /\ Len(b) = 0
    BY <1>1, <1>4, <1>5, <1>10
  <2>2. a = <<>> /\ b = <<>>
    BY <1>4, <1>5, <2>1, EmptySeq
  <2> QED BY <1>2, <2>2, ConcatEmptySeq
<1> QED BY <1>1, <1>6, <1>9, <1>10 DEF Vectors

LEMMA BitIs ==
  ASSUME NEW n \in Nat, NEW i \in Nat
  PROVE  (n \div (2 ^ (i - 1))) % 2 \in 0 .. 1
OBVIOUS

LEMMA NumberIs ==
  ASSUME NEW s \in Signals, NEW n \in Nat, mWidth[s] = 0 => n < 4
  PROVE  Number(s, n) \in Vectors(s)
<1>1. CASE mWidth[s] = 0
  <2>1. <<n>> \in [1 .. 1 -> 0 .. 3]
    BY <1>1
  <2> QED BY <1>1, <2>1 DEF Number, Vectors, Bits, Width
<1>2. CASE mWidth[s] # 0
  <2>1. 0 .. 1 \subseteq 0 .. 3 /\ Bits(s) \subseteq Nat
    BY WidthFacts
  <2>2. [i \in Bits(s) |-> (n \div (2 ^ (i - 1))) % 2] \in [Bits(s) -> 0 .. 3]
    BY <2>1, BitIs, Zenon
  <2> QED BY <1>2, <2>2 DEF Number, Vectors
<1> QED BY <1>1, <1>2
-----------------------------------------------------------------------------
(* The calls that may be on the stack, and their arguments.                *)
Arguments == Modes \cup Signals \cup {"user"} \cup [valid : BOOLEAN, cb : Signals \cup {"user"}]
             \cup [at : Nat, to : Nat] \cup UNION {Vectors(s) : s \in Signals}
Plain   == {"UpdateRead", "Fetch", "UpdateShadow", "Release", "FlipIOType", "AsBiIO", "SetZero",
            "Observe", "Flush"}
Members == Plain \cup {"SetMode", "AsWrite", "CallBack", "Copy", "Connect", "OnChange", "Listen", "SetBit",
                      "Assign"}
AnyCall == [fc : Members, on : Signals] \cup [fc : Members, on : Signals, arg : Arguments]
CallOK(c) ==
  /\ c \in AnyCall
  /\ \/ c.fc \in Plain
     \/ c.fc \in {"SetMode", "AsWrite"} /\ c.arg \in Modes
     \/ c.fc = "CallBack" /\ c.arg.cb \in Listeners(c.on)
     \/ c.fc \in {"Copy", "Connect"} /\ c.arg \in Signals /\ mWidth[c.arg] = mWidth[c.on]
     \/ c.fc \in {"OnChange", "Listen"} /\ c.arg \in Listeners(c.on)
     \/ c.fc = "SetBit" /\ c.arg.at \in Bits(c.on) /\ c.arg.to \in 0 .. 3
     \/ c.fc = "Assign" /\ c.arg \in Vectors(c.on)

Is(c, fc, s)        == c.fc = fc /\ c.on = s
Awaits(q, fc, s)    == \E i \in DOMAIN q : Is(q[i], fc, s)
Later(q, i, fc, s)  == \E j \in DOMAIN q : j > i /\ Is(q[j], fc, s)

(* Calls made while some signal runs its callbacks, and where they may be: *)
(* on wider signals, or on signals of equal width with an equal value.     *)
Inward == {"UpdateShadow", "Flush", "CallBack", "Release"}
Above(w, x, s) ==
  Width(x) > Width(s) \/ (Width(x) = Width(s) /\ w.sig[x].local = w.sig[s].local)

Locked(w, s) == w.sig[s].busy /\ s \notin w.within
Typed(q) == \A i \in DOMAIN q : CallOK(q[i])
BusyReleased(w, q) == \A s \in Signals : w.sig[s].busy <=> Awaits(q, "Release", s)
ReleasedOnce(q) ==
  \A i, j \in DOMAIN q : q[i].fc = "Release" /\ Is(q[j], "Release", q[i].on) => i = j
Nested(w, q) ==
  \A i, j \in DOMAIN q : q[i].fc = "Release" /\ q[i].on \notin w.within /\ j < i
                           => q[j].fc \in Inward /\ Above(w, q[j].on, q[i].on)
CalledInside(q) == \A i \in DOMAIN q : q[i].fc = "CallBack" => Later(q, i, "Release", q[i].on)
Announced(q)    == \A i \in DOMAIN q : q[i].fc = "Fetch" => Later(q, i, "UpdateShadow", q[i].on)
ShadowAgrees(w) == \A s \in Signals : Locked(w, s) => w.sig[s].shadow = w.sig[s].local

(* What an observer knows: the current value, or it will be called.        *)
Watched(w, s)  == \E i \in DOMAIN w.sig[s].cbs : w.sig[s].cbs[i] = "user"
Knows(w, s)    == w.told[s] \in {None, w.sig[s].local}
WillHear(q, s) == \E i \in DOMAIN q : Is(q[i], "CallBack", s) /\ q[i].arg.cb = "user"
Informed(w, q) ==
  \A s \in Signals : Watched(w, s) =>
    /\ Locked(w, s) => Knows(w, s) \/ WillHear(q, s)
    /\ ~w.sig[s].busy => /\ w.told[s] \in {None, w.sig[s].shadow}
                         /\ Knows(w, s) \/ Awaits(q, "UpdateShadow", s)

Pending(w, q) ==
  /\ q \in Seq(AnyCall) /\ Typed(q)
  /\ BusyReleased(w, q) /\ ReleasedOnce(q) /\ Nested(w, q) /\ CalledInside(q) /\ Announced(q)
  /\ ShadowAgrees(w) /\ Informed(w, q)

(* What no member but _update_shadow and its callbacks changes.            *)
Alike(w, u) ==
  /\ u.within = w.within
  /\ \A s \in Signals : /\ u.sig[s].shadow = w.sig[s].shadow /\ u.sig[s].busy = w.sig[s].busy
                        /\ u.sig[s].cbs = w.sig[s].cbs /\ u.told[s] = w.told[s]

LEMMA Concat ==
  ASSUME NEW a \in Seq(AnyCall), NEW b \in Seq(AnyCall)
  PROVE  LET q == a \o b IN
         /\ q \in Seq(AnyCall) /\ Len(q) = Len(a) + Len(b) /\ Len(a) \in Nat /\ Len(b) \in Nat
         /\ DOMAIN q = 1 .. Len(q) /\ DOMAIN a = 1 .. Len(a) /\ DOMAIN b = 1 .. Len(b)
         /\ \A i \in DOMAIN a : i \in DOMAIN q /\ q[i] = a[i]
         /\ \A i \in DOMAIN b : i + Len(a) \in DOMAIN q /\ q[i + Len(a)] = b[i]
         /\ \A i \in DOMAIN q : \/ i \in DOMAIN a /\ q[i] = a[i]
                                \/ i > Len(a) /\ i - Len(a) \in DOMAIN b /\ q[i] = b[i - Len(a)]
<1> DEFINE q == a \o b
<1>1. q \in Seq(AnyCall) /\ Len(q) = Len(a) + Len(b)
  BY ConcatProperties
<1>2. \A i \in 1 .. Len(a) + Len(b) : q[i] = IF i <= Len(a) THEN a[i] ELSE b[i - Len(a)]
  BY ConcatProperties
<1> HIDE DEF q
<1>3. Len(a) \in Nat /\ Len(b) \in Nat /\ DOMAIN q = 1 .. Len(q) /\ DOMAIN a = 1 .. Len(a) /\ DOMAIN b = 1 .. Len(b)
  BY <1>1, LenProperties
<1> QED BY <1>1, <1>2, <1>3 DEF q

(* A call that changes at most the value of x, and makes calls that        *)
(* announce the change, keeps what is pending.                             *)
LEMMA WriteStep ==
  ASSUME NEW w, NEW rest, Pending(w, rest),
         NEW u, NEW new \in Seq(AnyCall), Typed(new), NEW x \in Signals, Alike(w, u),
         \A s \in Signals \ {x} : u.sig[s].local = w.sig[s].local,
         u.sig[x].local = w.sig[x].local \/ Awaits(new, "UpdateShadow", x)
           \/ Awaits(rest, "UpdateShadow", x),
         \A i \in DOMAIN new : new[i].fc \notin {"Release", "CallBack"},
         Announced(new),
         \A s \in Signals : Locked(w, s) =>
           /\ u.sig[s].local = w.sig[s].local
           /\ u.sig[x].local = w.sig[x].local \/ Above(u, x, s)
           /\ \A i \in DOMAIN new : new[i].fc \in Inward /\ Above(u, new[i].on, s)
  PROVE  Pending(u, new \o rest)
<1> DEFINE q == new \o rest
<1>0. rest \in Seq(AnyCall) /\ Len(new) \in Nat /\ Len(rest) \in Nat
  BY LenProperties DEF Pending
<1>1. /\ q \in Seq(AnyCall) /\ DOMAIN q = 1 .. Len(q) /\ DOMAIN new = 1 .. Len(new) /\ DOMAIN rest = 1 .. Len(rest)
      /\ \A i \in DOMAIN new : i \in DOMAIN q /\ q[i] = new[i]
      /\ \A i \in DOMAIN rest : i + Len(new) \in DOMAIN q /\ q[i + Len(new)] = rest[i]
      /\ \A i \in DOMAIN q : \/ i \in DOMAIN new /\ q[i] = new[i]
                             \/ i > Len(new) /\ i - Len(new) \in DOMAIN rest /\ q[i] = rest[i - Len(new)]
      /\ Len(q) \in Nat
  BY <1>0, Concat
<1> HIDE DEF q
<1>2. Typed(q)
  BY <1>1 DEF Typed, Pending
<1>3. \A fc, s : Awaits(rest, fc, s) => Awaits(q, fc, s)
  BY <1>1 DEF Awaits
<1>4. \A s : Awaits(new, "UpdateShadow", s) => Awaits(q, "UpdateShadow", s)
  BY <1>1 DEF Awaits
<1>5. \A s \in Signals : Awaits(q, "Release", s) => Awaits(rest, "Release", s)
  BY <1>1 DEF Awaits, Is
<1>6. BusyReleased(u, q)
  BY <1>3, <1>5 DEF BusyReleased, Pending, Alike
<1>7. ReleasedOnce(q)
  <2> SUFFICES ASSUME NEW i \in DOMAIN q, NEW j \in DOMAIN q, q[i].fc = "Release", Is(q[j], "Release", q[i].on)
               PROVE  i = j
    BY DEF ReleasedOnce
  <2>1. i - Len(new) \in DOMAIN rest /\ q[i] = rest[i - Len(new)] /\ j - Len(new) \in DOMAIN rest /\ q[j] = rest[j - Len(new)]
    BY <1>1 DEF Is
  <2>2. i - Len(new) = j - Len(new)
    BY <2>1 DEF ReleasedOnce, Pending
  <2> QED BY <2>2, <1>0, <1>1
<1>8. Nested(u, q)
  <2> SUFFICES ASSUME NEW i \in DOMAIN q, NEW j \in DOMAIN q, q[i].fc = "Release", q[i].on \notin u.within, j < i
               PROVE  q[j].fc \in Inward /\ Above(u, q[j].on, q[i].on)
    BY DEF Nested
  <2>1. i > Len(new) /\ i - Len(new) \in DOMAIN rest /\ q[i] = rest[i - Len(new)]
    BY <1>1
  <2> DEFINE s == q[i].on
  <2>2. s \in Signals /\ Locked(w, s)
    <3>1. CallOK(q[i])
      BY <1>2 DEF Typed
    <3>2. s \in Signals
      BY <3>1 DEF CallOK, AnyCall
    <3> QED BY <2>1, <3>2 DEF Pending, BusyReleased, Awaits, Is, Locked, Alike
  <2>3. CASE j \in DOMAIN new /\ q[j] = new[j]
    BY <2>2, <2>3
  <2>4. CASE j > Len(new) /\ j - Len(new) \in DOMAIN rest /\ q[j] = rest[j - Len(new)]
    <3> DEFINE y == q[j].on
    <3>1. j - Len(new) < i - Len(new)
      BY <1>0, <1>1, <2>1, <2>4
    <3>2. q[j].fc \in Inward /\ Above(w, y, s)
      BY <2>1, <2>4, <3>1 DEF Pending, Nested, Alike
    <3>3. y \in Signals
      BY <1>2 DEF Typed, CallOK, AnyCall
    <3>4. CASE y = x /\ u.sig[x].local # w.sig[x].local
      BY <2>2, <3>2, <3>4
    <3>5. CASE u.sig[y].local = w.sig[y].local
      BY <2>2, <3>2, <3>5 DEF Above
    <3> QED BY <3>2, <3>3, <3>4, <3>5
  <2> QED BY <1>1, <2>3, <2>4
<1>9. CalledInside(q)
  <2> SUFFICES ASSUME NEW i \in DOMAIN q, q[i].fc = "CallBack"
               PROVE  Later(q, i, "Release", q[i].on)
    BY DEF CalledInside
  <2>1. i - Len(new) \in DOMAIN rest /\ q[i] = rest[i - Len(new)]
    BY <1>1
  <2>2. PICK j \in DOMAIN rest : j > i - Len(new) /\ Is(rest[j], "Release", q[i].on)
    BY <2>1 DEF Pending, CalledInside, Later
  <2>3. j + Len(new) \in DOMAIN q /\ j + Len(new) > i /\ q[j + Len(new)] = rest[j]
    BY <1>0, <1>1, <2>2
  <2> QED BY <2>2, <2>3 DEF Later
<1>10. Announced(q)
  <2> SUFFICES ASSUME NEW i \in DOMAIN q, q[i].fc = "Fetch"
               PROVE  Later(q, i, "UpdateShadow", q[i].on)
    BY DEF Announced
  <2>1. CASE i \in DOMAIN new /\ q[i] = new[i]
    BY <1>1, <2>1 DEF Announced, Later
  <2>2. CASE i - Len(new) \in DOMAIN rest /\ q[i] = rest[i - Len(new)]
    <3>1. PICK j \in DOMAIN rest : j > i - Len(new) /\ Is(rest[j], "UpdateShadow", q[i].on)
      BY <2>2 DEF Pending, Announced, Later
    <3>2. j + Len(new) \in DOMAIN q /\ j + Len(new) > i /\ q[j + Len(new)] = rest[j]
      BY <1>0, <1>1, <3>1
    <3> QED BY <3>1, <3>2 DEF Later
  <2> QED BY <1>1, <2>1, <2>2
<1>11. ShadowAgrees(u)
  BY DEF Pending, ShadowAgrees, Alike, Locked
<1>12. Informed(u, q)
  <2> SUFFICES ASSUME NEW s \in Signals, Watched(u, s)
               PROVE  /\ Locked(u, s) => Knows(u, s) \/ WillHear(q, s)
                      /\ ~u.sig[s].busy => /\ u.told[s] \in {None, u.sig[s].shadow}
                                           /\ Knows(u, s) \/ Awaits(q, "UpdateShadow", s)
    BY DEF Informed
  <2>1. Watched(w, s)
    BY DEF Watched, Alike
  <2>2. ASSUME Locked(u, s)
        PROVE  Knows(u, s) \/ WillHear(q, s)
    <3>1. Knows(w, s) \/ WillHear(rest, s)
      BY <2>1, <2>2 DEF Pending, Informed, Alike, Locked
    <3>2. Knows(w, s) => Knows(u, s)
      BY <2>2 DEF Knows, Alike, Locked
    <3>3. WillHear(rest, s) => WillHear(q, s)
      BY <1>1 DEF WillHear
    <3> QED BY <3>1, <3>2, <3>3
  <2>3. ASSUME ~u.sig[s].busy
        PROVE  /\ u.told[s] \in {None, u.sig[s].shadow}
               /\ Knows(u, s) \/ Awaits(q, "UpdateShadow", s)
    <3>1. w.told[s] \in {None, w.sig[s].shadow} /\ (Knows(w, s) \/ Awaits(rest, "UpdateShadow", s))
      BY <2>1, <2>3 DEF Pending, Informed, Alike
    <3>2. u.sig[s].local = w.sig[s].local => (Knows(w, s) => Knows(u, s))
      BY DEF Knows, Alike
    <3>3. u.sig[s].local # w.sig[s].local => Awaits(q, "UpdateShadow", s)
      BY <1>3, <1>4
    <3> QED BY <3>1, <3>2, <3>3, <1>3 DEF Alike
  <2> QED BY <2>2, <2>3
<1> QED BY <1>1, <1>2, <1>6, <1>7, <1>8, <1>9, <1>10, <1>11, <1>12 DEF Pending, q
-----------------------------------------------------------------------------
(* Updates of a world keep it well typed.                                  *)
WithSig(w, s, x)   == [w EXCEPT !.sig[s] = x]
WithPin(w, p, v)   == [w EXCEPT !.pin[p] = v]
WithAsked(w, s, v) == [w EXCEPT !.asked[s] = v]
WithTold(w, s, v)  == [w EXCEPT !.told[s] = v]
WithForeign(w, f)  == [w EXCEPT !.foreign = f]
WithLate(w, l)     == [w EXCEPT !.late = l]
WithWithin(w, b)   == [w EXCEPT !.within = b]

LEMMA RecordChange ==
  ASSUME NEW A, NEW B, NEW C, NEW D, NEW E, NEW F, NEW G,
         NEW w \in [sig : A, pin : B, asked : C, told : D, foreign : E, late : F, within : G]
  PROVE  /\ \A x \in A : [w EXCEPT !.sig = x] \in [sig : A, pin : B, asked : C, told : D, foreign : E, late : F, within : G]
         /\ \A x \in B : [w EXCEPT !.pin = x] \in [sig : A, pin : B, asked : C, told : D, foreign : E, late : F, within : G]
         /\ \A x \in C : [w EXCEPT !.asked = x] \in [sig : A, pin : B, asked : C, told : D, foreign : E, late : F, within : G]
OBVIOUS

LEMMA SignalChange ==
  ASSUME NEW w, WorldOK(w), NEW s \in Signals, NEW x \in SignalType(s),
         x.wr.from \notin {"const", "expr"}
  PROVE  LET u == WithSig(w, s, x) IN
         /\ WorldOK(u) /\ u.sig[s] = x /\ \A t \in Signals \ {s} : u.sig[t] = w.sig[t]
         /\ u.pin = w.pin /\ u.asked = w.asked /\ u.told = w.told /\ u.foreign = w.foreign /\ u.late = w.late /\ u.within = w.within
<1> DEFINE u == WithSig(w, s, x)
<1>0. u = [w EXCEPT !.sig[s] = x]
  BY DEF WithSig
<1> HIDE DEF u
<1>1. x \in AnySignal
  BY DEF AnySignal
<1>2. u.sig = [w.sig EXCEPT ![s] = x]
  BY <1>0 DEF WorldOK
<1>3. u.pin = w.pin /\ u.asked = w.asked /\ u.told = w.told /\ u.foreign = w.foreign /\ u.late = w.late /\ u.within = w.within
  BY <1>0 DEF WorldOK
<1>4. u.sig[s] = x /\ \A t \in Signals \ {s} : u.sig[t] = w.sig[t]
  BY <1>0, <1>2 DEF WorldOK
<1>5. u.sig \in [Signals -> AnySignal]
  BY <1>0, <1>1, <1>2 DEF WorldOK
<1>6. u \in [sig : [Signals -> AnySignal], pin : [Pins -> AnyVector], asked : [Signals -> AnyVector],
             told : [Signals -> AnyVector], foreign : SUBSET Signals, late : SUBSET Signals, within : SUBSET Signals]
  <2>1. u = [w EXCEPT !.sig = u.sig]
    BY <1>0 DEF WorldOK
  <2> QED BY <2>1, <1>5, RecordChange DEF WorldOK
<1> QED BY <1>3, <1>4, <1>6 DEF WorldOK, u

LEMMA AskedChange ==
  ASSUME NEW w, WorldOK(w), NEW s \in Signals, NEW v \in Vectors(s) \cup {None}
  PROVE  LET u == WithAsked(w, s, v) IN
         /\ WorldOK(u) /\ u.sig = w.sig /\ u.pin = w.pin /\ u.told = w.told /\ u.foreign = w.foreign /\ u.late = w.late /\ u.within = w.within
         /\ u.asked[s] = v /\ \A t \in Signals \ {s} : u.asked[t] = w.asked[t]
<1> DEFINE u == WithAsked(w, s, v)
<1>0. u = [w EXCEPT !.asked[s] = v]
  BY DEF WithAsked
<1> HIDE DEF u
<1>1. v \in AnyVector
  BY DEF AnyVector
<1>2. /\ u.asked = [w.asked EXCEPT ![s] = v]
      /\ u.sig = w.sig /\ u.pin = w.pin /\ u.told = w.told /\ u.foreign = w.foreign /\ u.late = w.late /\ u.within = w.within
  BY <1>0 DEF WorldOK
<1>3. u.asked \in [Signals -> AnyVector] /\ \A t \in Signals : u.asked[t] \in Vectors(t) \cup {None}
  BY <1>0, <1>1, <1>2 DEF WorldOK
<1>4. u \in [sig : [Signals -> AnySignal], pin : [Pins -> AnyVector], asked : [Signals -> AnyVector],
             told : [Signals -> AnyVector], foreign : SUBSET Signals, late : SUBSET Signals, within : SUBSET Signals]
  <2>1. u = [w EXCEPT !.asked = u.asked]
    BY <1>0 DEF WorldOK
  <2> QED BY <2>1, <1>3, RecordChange DEF WorldOK
<1> QED BY <1>2, <1>3, <1>4 DEF WorldOK, u

LEMMA ToldChange ==
  ASSUME NEW w, WorldOK(w), NEW s \in Signals, NEW v \in Vectors(s) \cup {None}
  PROVE  LET u == WithTold(w, s, v) IN
         /\ WorldOK(u) /\ u.sig = w.sig /\ u.pin = w.pin /\ u.asked = w.asked /\ u.foreign = w.foreign /\ u.late = w.late /\ u.within = w.within
         /\ u.told[s] = v /\ \A t \in Signals \ {s} : u.told[t] = w.told[t]
<1> DEFINE u == WithTold(w, s, v)
<1>0. u = [w EXCEPT !.told[s] = v]
  BY DEF WithTold
<1> HIDE DEF u
<1>1. v \in AnyVector
  BY DEF AnyVector
<1>2. /\ u.told = [w.told EXCEPT ![s] = v]
      /\ u.sig = w.sig /\ u.pin = w.pin /\ u.asked = w.asked /\ u.foreign = w.foreign /\ u.late = w.late /\ u.within = w.within
  BY <1>0 DEF WorldOK
<1>3. u.told \in [Signals -> AnyVector] /\ \A t \in Signals : u.told[t] \in Vectors(t) \cup {None}
  BY <1>0, <1>1, <1>2 DEF WorldOK
<1>4. u \in [sig : [Signals -> AnySignal], pin : [Pins -> AnyVector], asked : [Signals -> AnyVector],
             told : [Signals -> AnyVector], foreign : SUBSET Signals, late : SUBSET Signals, within : SUBSET Signals]
  BY <1>0, <1>3 DEF WorldOK
<1> QED BY <1>2, <1>3, <1>4 DEF WorldOK, u

LEMMA ForeignChange ==
  ASSUME NEW w, WorldOK(w), NEW f \in SUBSET Signals
  PROVE  LET u == WithForeign(w, f) IN
         WorldOK(u) /\ u.sig = w.sig /\ u.pin = w.pin /\ u.asked = w.asked /\ u.told = w.told /\ u.foreign = f /\ u.late = w.late /\ u.within = w.within
<1> DEFINE u == WithForeign(w, f)
<1>0. u = [w EXCEPT !.foreign = f]
  BY DEF WithForeign
<1> HIDE DEF u
<1>1. u.foreign = f /\ u.late = w.late /\ u.within = w.within /\ u.sig = w.sig /\ u.pin = w.pin /\ u.told = w.told /\ u.asked = w.asked
  BY <1>0 DEF WorldOK
<1>2. u \in [sig : [Signals -> AnySignal], pin : [Pins -> AnyVector], asked : [Signals -> AnyVector],
             told : [Signals -> AnyVector], foreign : SUBSET Signals, late : SUBSET Signals, within : SUBSET Signals]
  BY <1>0 DEF WorldOK
<1> QED BY <1>1, <1>2 DEF WorldOK, u

LEMMA LateChange ==
  ASSUME NEW w, WorldOK(w), NEW l \in SUBSET Signals
  PROVE  LET u == WithLate(w, l) IN
         /\ WorldOK(u) /\ u.sig = w.sig /\ u.pin = w.pin /\ u.asked = w.asked /\ u.told = w.told
         /\ u.foreign = w.foreign /\ u.late = l /\ u.within = w.within
<1> DEFINE u == WithLate(w, l)
<1>0. u = [w EXCEPT !.late = l]
  BY DEF WithLate
<1> HIDE DEF u
<1>1. /\ u.late = l /\ u.within = w.within /\ u.sig = w.sig /\ u.pin = w.pin /\ u.told = w.told /\ u.asked = w.asked
      /\ u.foreign = w.foreign
  BY <1>0 DEF WorldOK
<1>2. u \in [sig : [Signals -> AnySignal], pin : [Pins -> AnyVector], asked : [Signals -> AnyVector],
             told : [Signals -> AnyVector], foreign : SUBSET Signals, late : SUBSET Signals, within : SUBSET Signals]
  BY <1>0 DEF WorldOK
<1> QED BY <1>1, <1>2 DEF WorldOK, u

LEMMA WithinChange ==
  ASSUME NEW w, WorldOK(w), NEW b \in SUBSET Signals
  PROVE  LET u == WithWithin(w, b) IN
         /\ WorldOK(u) /\ u.sig = w.sig /\ u.pin = w.pin /\ u.asked = w.asked /\ u.told = w.told
         /\ u.foreign = w.foreign /\ u.late = w.late /\ u.within = b
<1> DEFINE u == WithWithin(w, b)
<1>0. u = [w EXCEPT !.within = b]
  BY DEF WithWithin
<1> HIDE DEF u
<1>1. /\ u.late = w.late /\ u.within = b /\ u.sig = w.sig /\ u.pin = w.pin /\ u.told = w.told /\ u.asked = w.asked
      /\ u.foreign = w.foreign
  BY <1>0 DEF WorldOK
<1>2. u \in [sig : [Signals -> AnySignal], pin : [Pins -> AnyVector], asked : [Signals -> AnyVector],
             told : [Signals -> AnyVector], foreign : SUBSET Signals, late : SUBSET Signals, within : SUBSET Signals]
  BY <1>0 DEF WorldOK
<1> QED BY <1>1, <1>2 DEF WorldOK, u

LEMMA PinChange ==
  ASSUME NEW w, WorldOK(w), NEW p \in Pins, NEW v \in Storage(p)
  PROVE  LET u == WithPin(w, p, v) IN
         /\ WorldOK(u) /\ u.sig = w.sig /\ u.asked = w.asked /\ u.told = w.told /\ u.foreign = w.foreign /\ u.late = w.late /\ u.within = w.within
         /\ u.pin[p] = v /\ \A q \in Pins \ {p} : u.pin[q] = w.pin[q]
<1> DEFINE u == WithPin(w, p, v)
<1>0. u = [w EXCEPT !.pin[p] = v]
  BY DEF WithPin
<1> HIDE DEF u
<1>1. v \in AnyVector
  BY DEF AnyVector
<1>2. /\ u.pin = [w.pin EXCEPT ![p] = v]
      /\ u.sig = w.sig /\ u.told = w.told /\ u.asked = w.asked /\ u.foreign = w.foreign /\ u.late = w.late /\ u.within = w.within
  BY <1>0 DEF WorldOK
<1>3. u.pin \in [Pins -> AnyVector] /\ \A q \in Pins : u.pin[q] \in Storage(q)
  BY <1>0, <1>1, <1>2 DEF WorldOK
<1>4. u \in [sig : [Signals -> AnySignal], pin : [Pins -> AnyVector], asked : [Signals -> AnyVector],
             told : [Signals -> AnyVector], foreign : SUBSET Signals, late : SUBSET Signals, within : SUBSET Signals]
  <2>1. u = [w EXCEPT !.pin = u.pin]
    BY <1>0 DEF WorldOK
  <2> QED BY <2>1, <1>3, RecordChange DEF WorldOK
<1> QED BY <1>2, <1>3, <1>4 DEF WorldOK, u

SameConfig(x, y) ==
  x.io = y.io /\ x.rd = y.rd /\ x.wr = y.wr /\ x.same = y.same /\ x.last = y.last /\ x.mode = y.mode

LEMMA SetLocalOK ==
  ASSUME NEW w, WorldOK(w), NEW s \in Signals, NEW v \in Vectors(s)
  PROVE  LET u == SetLocal(w, s, v) IN
         /\ WorldOK(u) /\ Alike(w, u)
         /\ SameConfig(u.sig[s], w.sig[s])
         /\ u.sig[s].local = v /\ \A t \in Signals \ {s} : u.sig[t] = w.sig[t]
         /\ u.pin = w.pin /\ u.asked = w.asked /\ u.told = w.told /\ u.foreign = w.foreign /\ u.late = w.late /\ u.within = w.within
<1> DEFINE u == SetLocal(w, s, v)
<1>1. u = [w EXCEPT !.sig[s].local = v]
  BY VectorIs DEF SetLocal
<1> HIDE DEF u
<1> DEFINE x == [w.sig[s] EXCEPT !.local = v]
<1>2. w.sig[s] \in SignalType(s) /\ w.sig[s].wr.from \notin {"const", "expr"}
  BY DEF WorldOK
<1>3. /\ x \in SignalType(s) /\ x.local = v /\ x.wr = w.sig[s].wr /\ x.shadow = w.sig[s].shadow
      /\ x.busy = w.sig[s].busy /\ x.cbs = w.sig[s].cbs
  BY <1>2 DEF SignalType
<1>4. u = WithSig(w, s, x)
  BY <1>1 DEF WorldOK, WithSig
<1> HIDE DEF x
<1>5. /\ WorldOK(u) /\ u.sig[s] = x /\ \A t \in Signals \ {s} : u.sig[t] = w.sig[t]
      /\ u.pin = w.pin /\ u.asked = w.asked /\ u.told = w.told /\ u.foreign = w.foreign /\ u.late = w.late /\ u.within = w.within
  BY <1>2, <1>3, <1>4, SignalChange
<1>6. Alike(w, u) /\ u.sig[s].local = v
  BY <1>3, <1>5 DEF Alike, x
<1>7. SameConfig(u.sig[s], w.sig[s])
  BY <1>2, <1>5 DEF SameConfig, x, SignalType
<1> QED BY <1>5, <1>6, <1>7 DEF u
-----------------------------------------------------------------------------
(* Taking the next call off the stack, and putting calls on it.            *)
Idle(w)      == \A t \in Signals : ~Locked(w, t)
Inside(w, x) == \A t \in Signals : Locked(w, t) => Above(w, x, t)
Kept(w, u)   == Alike(w, u) /\ \A s \in Signals : u.sig[s].local = w.sig[s].local
Sound(r, rest) ==
  WorldOK(r.world) /\ r.todo \in Seq(AnyCall) /\ Pending(r.world, r.todo \o rest)

LEMMA Push ==
  ASSUME NEW w, NEW rest, Pending(w, rest),
         NEW u, Kept(w, u), NEW new \in Seq(AnyCall), Typed(new), NEW x \in Signals,
         \A i \in DOMAIN new : new[i].fc \notin {"Release", "CallBack"},
         Announced(new),
         \A s \in Signals : Locked(w, s) =>
           \A i \in DOMAIN new : new[i].fc \in Inward /\ Above(w, new[i].on, s)
  PROVE  Pending(u, new \o rest)
<1>1. Alike(w, u) /\ \A s \in Signals : u.sig[s].local = w.sig[s].local
  BY DEF Kept
<1>2. \A s \in Signals : Locked(w, s) =>
           \A i \in DOMAIN new : new[i].fc \in Inward /\ Above(u, new[i].on, s)
  <2> SUFFICES ASSUME NEW s \in Signals, Locked(w, s), NEW i \in DOMAIN new
               PROVE  new[i].fc \in Inward /\ Above(u, new[i].on, s)
    OBVIOUS
  <2>1. new[i].on \in Signals
    BY DEF Typed, CallOK, AnyCall
  <2> QED BY <1>1, <2>1 DEF Above
<1> QED BY <1>1, <1>2, WriteStep

LEMMA Quiet ==
  ASSUME NEW w, NEW rest, Pending(w, rest), NEW u, Kept(w, u)
  PROVE  Pending(u, rest)
<1>1. Alike(w, u) /\ \A s \in Signals : u.sig[s].local = w.sig[s].local
  BY DEF Kept
<1>2. Nested(u, rest)
  <2> SUFFICES ASSUME NEW i \in DOMAIN rest, NEW j \in DOMAIN rest, rest[i].fc = "Release", rest[i].on \notin u.within, j < i
               PROVE  rest[j].fc \in Inward /\ Above(u, rest[j].on, rest[i].on)
    BY DEF Nested
  <2>1. rest[j].on \in Signals /\ rest[i].on \in Signals
    BY DEF Pending, Typed, CallOK, AnyCall
  <2>2. rest[j].fc \in Inward /\ Above(w, rest[j].on, rest[i].on)
    BY <1>1 DEF Pending, Nested, Alike
  <2> QED BY <1>1, <2>1, <2>2 DEF Above
<1>3. BusyReleased(u, rest) /\ ShadowAgrees(u)
  BY <1>1 DEF Pending, BusyReleased, ShadowAgrees, Alike, Locked
<1>4. Informed(u, rest)
  BY <1>1 DEF Pending, Informed, Alike, Watched, Knows, Locked
<1> QED BY <1>2, <1>3, <1>4 DEF Pending

LEMMA Pop ==
  ASSUME NEW w, NEW q, Pending(w, q), q # <<>>, NEW c, c = Head(q), NEW rest, rest = Tail(q)
  PROVE  /\ CallOK(c) /\ rest \in Seq(AnyCall) /\ Typed(rest)
         /\ ReleasedOnce(rest) /\ CalledInside(rest) /\ Announced(rest) /\ Nested(w, rest)
         /\ \A s \in Signals : w.sig[s].busy <=> (Awaits(rest, "Release", s) \/ Is(c, "Release", s))
         /\ c.fc = "Release" => ~Awaits(rest, "Release", c.on)
         /\ \A s \in Signals : Locked(w, s) /\ ~Is(c, "Release", s) => c.fc \in Inward /\ Above(w, c.on, s)
         /\ c.fc = "Fetch" => Awaits(rest, "UpdateShadow", c.on)
         /\ c.fc = "CallBack" => Awaits(rest, "Release", c.on)
         /\ \A s \in Signals : Watched(w, s) =>
              /\ Locked(w, s) => Knows(w, s) \/ WillHear(rest, s) \/ (Is(c, "CallBack", s) /\ c.arg.cb = "user")
              /\ ~w.sig[s].busy => /\ w.told[s] \in {None, w.sig[s].shadow}
                                   /\ Knows(w, s) \/ Awaits(rest, "UpdateShadow", s) \/ Is(c, "UpdateShadow", s)
<1>1. q \in Seq(AnyCall) /\ Typed(q)
  BY DEF Pending
<1>2. /\ rest \in Seq(AnyCall) /\ DOMAIN q = 1 .. Len(q) /\ DOMAIN rest = 1 .. Len(rest)
      /\ Len(q) \in Nat /\ Len(rest) = Len(q) - 1 /\ 1 \in DOMAIN q /\ q[1] = c
      /\ \A i \in DOMAIN rest : i + 1 \in DOMAIN q /\ rest[i] = q[i + 1]
  <2>1. rest \in Seq(AnyCall) /\ Len(rest) = Len(q) - 1 /\ \A i \in 1 .. Len(rest) : rest[i] = q[i + 1]
    BY <1>1, HeadTailProperties
  <2>2. Len(q) \in Nat /\ Len(q) # 0 /\ DOMAIN q = 1 .. Len(q) /\ DOMAIN rest = 1 .. Len(rest)
    BY <1>1, <2>1, LenProperties, EmptySeq
  <2> QED BY <1>1, <2>1, <2>2
<1>3. \A i \in DOMAIN q : i = 1 \/ (i - 1 \in DOMAIN rest /\ rest[i - 1] = q[i])
  BY <1>2
<1>4. CallOK(c) /\ Typed(rest)
  BY <1>1, <1>2 DEF Typed
<1>5. \A fc, s : Awaits(q, fc, s) <=> Awaits(rest, fc, s) \/ Is(c, fc, s)
  BY <1>2, <1>3 DEF Awaits
<1>6. \A fc, s : \A i \in DOMAIN rest : Later(q, i + 1, fc, s) => Later(rest, i, fc, s)
  <2> SUFFICES ASSUME NEW fc, NEW s, NEW i \in DOMAIN rest, NEW j \in DOMAIN q, j > i + 1, Is(q[j], fc, s)
               PROVE  \E k \in DOMAIN rest : k > i /\ Is(rest[k], fc, s)
    BY DEF Later
  <2>1. j - 1 \in DOMAIN rest /\ rest[j - 1] = q[j] /\ j - 1 > i
    BY <1>2, <1>3
  <2> QED BY <2>1
<1>7. \A fc, s : Later(q, 1, fc, s) => Awaits(rest, fc, s)
  <2> SUFFICES ASSUME NEW fc, NEW s, NEW j \in DOMAIN q, j > 1, Is(q[j], fc, s)
               PROVE  Awaits(rest, fc, s)
    BY DEF Later
  <2>1. j - 1 \in DOMAIN rest /\ rest[j - 1] = q[j]
    BY <1>2, <1>3
  <2> QED BY <2>1 DEF Awaits
<1>8. ReleasedOnce(rest)
  <2> SUFFICES ASSUME NEW i \in DOMAIN rest, NEW j \in DOMAIN rest, rest[i].fc = "Release", Is(rest[j], "Release", rest[i].on)
               PROVE  i = j
    BY DEF ReleasedOnce
  <2>1. i + 1 = j + 1
    BY <1>2 DEF Pending, ReleasedOnce
  <2> QED BY <1>2, <2>1
<1>9. CalledInside(rest) /\ Announced(rest)
  BY <1>2, <1>6 DEF Pending, CalledInside, Announced
<1>10. Nested(w, rest)
  <2> SUFFICES ASSUME NEW i \in DOMAIN rest, NEW j \in DOMAIN rest, rest[i].fc = "Release", rest[i].on \notin w.within, j < i
               PROVE  rest[j].fc \in Inward /\ Above(w, rest[j].on, rest[i].on)
    BY DEF Nested
  <2>1. i + 1 \in DOMAIN q /\ j + 1 \in DOMAIN q /\ j + 1 < i + 1 /\ rest[i] = q[i + 1] /\ rest[j] = q[j + 1]
    BY <1>2
  <2> QED BY <2>1 DEF Pending, Nested
<1>11. \A s \in Signals : w.sig[s].busy <=> (Awaits(rest, "Release", s) \/ Is(c, "Release", s))
  BY <1>5 DEF Pending, BusyReleased
<1>12. ASSUME c.fc = "Release", Awaits(rest, "Release", c.on)
       PROVE  FALSE
  <2>1. PICK i \in DOMAIN rest : Is(rest[i], "Release", c.on)
    BY <1>12 DEF Awaits
  <2>2. 1 = i + 1
    BY <1>2, <1>12, <2>1 DEF Pending, ReleasedOnce
  <2> QED BY <1>2, <2>1, <2>2
<1>13. ASSUME NEW s \in Signals, Locked(w, s), ~Is(c, "Release", s)
       PROVE  c.fc \in Inward /\ Above(w, c.on, s)
  <2>1. PICK i \in DOMAIN rest : Is(rest[i], "Release", s)
    BY <1>11, <1>13 DEF Awaits, Locked
  <2>2. i + 1 \in DOMAIN q /\ 1 < i + 1 /\ Is(q[i + 1], "Release", s)
    BY <1>2, <2>1
  <2> QED BY <1>2, <1>13, <2>2 DEF Pending, Nested, Is, Locked
<1>14. /\ c.fc = "Fetch" => Awaits(rest, "UpdateShadow", c.on)
       /\ c.fc = "CallBack" => Awaits(rest, "Release", c.on)
  BY <1>2, <1>7 DEF Pending, Announced, CalledInside
<1>15. ASSUME NEW s \in Signals, Watched(w, s)
       PROVE  /\ Locked(w, s) => Knows(w, s) \/ WillHear(rest, s) \/ (Is(c, "CallBack", s) /\ c.arg.cb = "user")
              /\ ~w.sig[s].busy => /\ w.told[s] \in {None, w.sig[s].shadow}
                                   /\ Knows(w, s) \/ Awaits(rest, "UpdateShadow", s) \/ Is(c, "UpdateShadow", s)
  <2>1. WillHear(q, s) => WillHear(rest, s) \/ (Is(c, "CallBack", s) /\ c.arg.cb = "user")
    BY <1>2, <1>3 DEF WillHear
  <2> QED BY <1>5, <1>15, <2>1 DEF Pending, Informed
<1> QED BY <1>2, <1>4, <1>8, <1>9, <1>10, <1>11, <1>12, <1>13, <1>14, <1>15

(* A call that is neither an announcement nor its end leaves what is       *)
(* pending to the calls after it.                                          *)
LEMMA PopPlain ==
  ASSUME NEW w, NEW q, Pending(w, q), q # <<>>, NEW c, c = Head(q), NEW rest, rest = Tail(q),
         c.fc \notin {"UpdateShadow", "Release"}, c.fc = "CallBack" => c.arg.cb # "user"
  PROVE  /\ Pending(w, rest) /\ CallOK(c) /\ Inside(w, c.on)
         /\ c.fc \notin Inward => Idle(w)
         /\ c.fc = "Fetch" => Awaits(rest, "UpdateShadow", c.on)
<1>1. /\ CallOK(c) /\ rest \in Seq(AnyCall) /\ Typed(rest)
      /\ ReleasedOnce(rest) /\ CalledInside(rest) /\ Announced(rest) /\ Nested(w, rest)
      /\ \A s \in Signals : w.sig[s].busy <=> Awaits(rest, "Release", s)
      /\ \A s \in Signals : Locked(w, s) => c.fc \in Inward /\ Above(w, c.on, s)
      /\ c.fc = "Fetch" => Awaits(rest, "UpdateShadow", c.on)
      /\ \A s \in Signals : Watched(w, s) =>
           /\ Locked(w, s) => Knows(w, s) \/ WillHear(rest, s)
           /\ ~w.sig[s].busy => /\ w.told[s] \in {None, w.sig[s].shadow}
                                /\ Knows(w, s) \/ Awaits(rest, "UpdateShadow", s)
  <2>1. \A s : ~Is(c, "UpdateShadow", s) /\ ~Is(c, "Release", s) /\ ~(Is(c, "CallBack", s) /\ c.arg.cb = "user")
    BY DEF Is
  <2>2. /\ CallOK(c) /\ rest \in Seq(AnyCall) /\ Typed(rest)
        /\ ReleasedOnce(rest) /\ CalledInside(rest) /\ Announced(rest) /\ Nested(w, rest)
        /\ \A s \in Signals : w.sig[s].busy <=> (Awaits(rest, "Release", s) \/ Is(c, "Release", s))
        /\ \A s \in Signals : Locked(w, s) /\ ~Is(c, "Release", s) => c.fc \in Inward /\ Above(w, c.on, s)
        /\ c.fc = "Fetch" => Awaits(rest, "UpdateShadow", c.on)
    BY Pop, Zenon
  <2>3. \A s \in Signals : Watched(w, s) =>
          /\ Locked(w, s) => Knows(w, s) \/ WillHear(rest, s) \/ (Is(c, "CallBack", s) /\ c.arg.cb = "user")
          /\ ~w.sig[s].busy => /\ w.told[s] \in {None, w.sig[s].shadow}
                               /\ Knows(w, s) \/ Awaits(rest, "UpdateShadow", s) \/ Is(c, "UpdateShadow", s)
    BY Pop, Zenon
  <2> QED BY <2>1, <2>2, <2>3
<1>2. BusyReleased(w, rest) /\ Informed(w, rest) /\ ShadowAgrees(w)
  BY <1>1 DEF BusyReleased, Informed, Pending
<1> QED BY <1>1, <1>2 DEF Pending, Inside, Idle

LEMMA LiteralSeq ==
  /\ \A a \in AnyCall : /\ <<a>> \in Seq(AnyCall) /\ DOMAIN <<a>> = {1} /\ <<a>>[1] = a
  /\ \A a, b \in AnyCall : /\ <<a, b>> \in Seq(AnyCall) /\ DOMAIN <<a, b>> = {1, 2}
                           /\ <<a, b>>[1] = a /\ <<a, b>>[2] = b
OBVIOUS

LEMMA CallTypes ==
  ASSUME NEW s \in Signals
  PROVE  /\ \A fc \in Plain : Do(fc, s) \in AnyCall /\ CallOK(Do(fc, s)) /\ Is(Do(fc, s), fc, s)
         /\ \A fc \in Plain, m \in Modes : /\ DoWith(fc, s, m) \in AnyCall /\ CallOK(DoWith(fc, s, m))
                                           /\ Is(DoWith(fc, s, m), fc, s)
         /\ \A fc \in {"SetMode", "AsWrite"}, m \in Modes :
              DoWith(fc, s, m) \in AnyCall /\ CallOK(DoWith(fc, s, m)) /\ Is(DoWith(fc, s, m), fc, s)
         /\ \A fc \in {"OnChange", "Listen"}, cb \in Listeners(s) :
              DoWith(fc, s, cb) \in AnyCall /\ CallOK(DoWith(fc, s, cb)) /\ Is(DoWith(fc, s, cb), fc, s)
         /\ \A fc \in {"Copy", "Connect"}, t \in Signals : mWidth[t] = mWidth[s] =>
              DoWith(fc, s, t) \in AnyCall /\ CallOK(DoWith(fc, s, t)) /\ Is(DoWith(fc, s, t), fc, s)
<1>1. \A fc \in Members : Do(fc, s) \in AnyCall /\ Is(Do(fc, s), fc, s)
  BY DEF Do, AnyCall, Is
<1>2. \A fc \in Members, arg \in Arguments : DoWith(fc, s, arg) \in AnyCall /\ Is(DoWith(fc, s, arg), fc, s)
  BY DEF DoWith, AnyCall, Is
<1>3. \A fc, arg : DoWith(fc, s, arg).fc = fc /\ DoWith(fc, s, arg).on = s /\ DoWith(fc, s, arg).arg = arg
                   /\ Do(fc, s).fc = fc
  BY DEF DoWith, Do
<1>4. Plain \subseteq Members /\ {"SetMode", "AsWrite", "OnChange", "Listen", "Copy", "Connect"} \subseteq Members
  BY DEF Members
<1>5. Modes \subseteq Arguments /\ Signals \subseteq Arguments /\ Listeners(s) \subseteq Arguments
  BY DEF Arguments, Listeners
<1>6. \A fc \in Plain : Do(fc, s) \in AnyCall /\ CallOK(Do(fc, s)) /\ Is(Do(fc, s), fc, s)
  BY <1>1, <1>3, <1>4 DEF CallOK
<1>7. \A fc \in Plain, m \in Modes : /\ DoWith(fc, s, m) \in AnyCall /\ CallOK(DoWith(fc, s, m))
                                     /\ Is(DoWith(fc, s, m), fc, s)
  BY <1>2, <1>3, <1>4, <1>5 DEF CallOK
<1>8. \A fc \in {"SetMode", "AsWrite"}, m \in Modes :
        DoWith(fc, s, m) \in AnyCall /\ CallOK(DoWith(fc, s, m)) /\ Is(DoWith(fc, s, m), fc, s)
  BY <1>2, <1>3, <1>4, <1>5 DEF CallOK
<1>9. \A fc \in {"OnChange", "Listen"}, cb \in Listeners(s) :
        DoWith(fc, s, cb) \in AnyCall /\ CallOK(DoWith(fc, s, cb)) /\ Is(DoWith(fc, s, cb), fc, s)
  BY <1>2, <1>3, <1>4, <1>5 DEF CallOK
<1>10. \A fc \in {"Copy", "Connect"}, t \in Signals : mWidth[t] = mWidth[s] =>
         DoWith(fc, s, t) \in AnyCall /\ CallOK(DoWith(fc, s, t)) /\ Is(DoWith(fc, s, t), fc, s)
  BY <1>2, <1>3, <1>4, <1>5 DEF CallOK
<1> QED BY <1>6, <1>7, <1>8, <1>9, <1>10

(* The calls a callback of the user makes.                                 *)
LEMMA ReplyIs ==
  ASSUME NEW s \in Signals, NEW v \in Vectors(s)
  PROVE  LET reply == Reaction[s][v] IN
         /\ reply \in Seq(AnyCall) /\ Typed(reply)
         /\ \A i \in DOMAIN reply : reply[i].fc \in {"UpdateRead", "Assign"}
<1> DEFINE reply == Reaction[s][v]
<1>1. reply \in Seq(UserCalls)
  BY ReactionAssumption
<1>2. ASSUME NEW c \in UserCalls
      PROVE  c \in AnyCall /\ CallOK(c) /\ c.fc \in {"UpdateRead", "Assign"}
  <2>1. CASE c \in {Do("UpdateRead", t) : t \in Signals}
    BY <2>1, CallTypes DEF Plain, Is
  <2>2. ASSUME NEW t \in Signals, NEW x \in Vectors(t), c = DoWith("Assign", t, x)
        PROVE  c \in AnyCall /\ CallOK(c) /\ c.fc \in {"UpdateRead", "Assign"}
    <3>1. x \in Arguments /\ "Assign" \in Members
      BY DEF Arguments, Members
    <3>2. c = [fc |-> "Assign", on |-> t, arg |-> x]
      BY <2>2 DEF DoWith
    <3>3. c \in AnyCall
      BY <3>1, <3>2 DEF AnyCall
    <3> QED BY <3>2, <3>3 DEF CallOK
  <2> QED BY <2>1, <2>2 DEF UserCalls
<1>3. DOMAIN reply = 1 .. Len(reply) /\ Len(reply) \in Nat /\ reply \in [1 .. Len(reply) -> UserCalls]
  BY <1>1, LenProperties
<1> HIDE DEF reply
<1>4. \A i \in DOMAIN reply : reply[i] \in UserCalls
  BY <1>3
<1>5. reply \in Seq(AnyCall)
  BY <1>2, <1>3, <1>4, SeqDef
<1> QED BY <1>2, <1>4, <1>5 DEF Typed, reply

(* An assignment may be made to x when no signal at work is wider, or as   *)
(* wide with another value.                                                *)
LEMMA PutStep ==
  ASSUME NEW w, WorldOK(w), NEW x \in Signals, NEW v \in Vectors(x)
  PROVE  LET u == Put(w, x, v) IN
         /\ WorldOK(u) /\ Alike(w, u)
         /\ u.sig[x].local = v /\ \A t \in Signals \ {x} : u.sig[t] = w.sig[t]
         /\ u.pin = w.pin /\ u.told = w.told /\ u.foreign = w.foreign
         /\ u.asked[x] = v /\ (\A t \in Signals \ {x} : u.asked[t] = w.asked[t]) /\ u.late = w.late \cup {x} /\ u.within = w.within
         /\ SameConfig(u.sig[x], w.sig[x])
<1> DEFINE u == Put(w, x, v)
           y == SetLocal(w, x, v)
           z == WithAsked(y, x, v)
<1>1. /\ WorldOK(y) /\ Alike(w, y) /\ y.sig[x].local = v /\ \A t \in Signals \ {x} : y.sig[t] = w.sig[t]
      /\ y.pin = w.pin /\ y.told = w.told /\ y.foreign = w.foreign /\ y.late = w.late /\ y.within = w.within /\ y.asked = w.asked
      /\ SameConfig(y.sig[x], w.sig[x])
  BY SetLocalOK
<1>2. u = WithLate(z, z.late \cup {x})
  <2>1. Vec(v) = v
    BY VectorIs
  <2>2. u = [[y EXCEPT !.asked[x] = v] EXCEPT !.late = @ \cup {x}]
    BY <2>1 DEF Put
  <2> QED BY <2>2 DEF WithAsked, WithLate
<1> HIDE DEF y, u
<1>3. /\ WorldOK(z) /\ z.sig = y.sig /\ z.pin = y.pin /\ z.told = y.told /\ z.foreign = y.foreign
      /\ z.late = y.late /\ z.within = y.within /\ z.asked[x] = v /\ \A t \in Signals \ {x} : z.asked[t] = y.asked[t]
  BY <1>1, AskedChange
<1> HIDE DEF z
<1>4. z.late \cup {x} \in SUBSET Signals
  BY <1>3 DEF WorldOK
<1>5. /\ WorldOK(u) /\ u.sig = z.sig /\ u.pin = z.pin /\ u.told = z.told /\ u.foreign = z.foreign
      /\ u.late = z.late \cup {x} /\ u.within = z.within /\ u.asked = z.asked
  BY <1>2, <1>3, <1>4, LateChange
<1>6. Alike(w, u)
  BY <1>1, <1>3, <1>5 DEF Alike
<1> QED BY <1>1, <1>3, <1>5, <1>6 DEF u, y

LEMMA StoreStep ==
  ASSUME NEW w, WorldOK(w), NEW rest, Pending(w, rest), NEW x \in Signals, NEW v \in Vectors(x),
         \A t \in Signals : Locked(w, t) =>
           Width(x) > Width(t) \/ (Width(x) = Width(t) /\ v = w.sig[t].local)
  PROVE  Sound(StoreValue(w, x, v), rest)
<1> DEFINE u   == Put(w, x, v)
           new == <<DoWith("Flush", x, "Imme"), Do("UpdateShadow", x)>>
<1>1. WorldOK(u) /\ Alike(w, u) /\ u.sig[x].local = v /\ \A t \in Signals \ {x} : u.sig[t] = w.sig[t]
  BY PutStep
<1>2. /\ new \in Seq(AnyCall) /\ DOMAIN new = {1, 2}
      /\ CallOK(new[1]) /\ Is(new[1], "Flush", x) /\ CallOK(new[2]) /\ Is(new[2], "UpdateShadow", x)
  BY CallTypes, LiteralSeq DEF Plain, Modes
<1>3. StoreValue(w, x, v) = [world |-> u, todo |-> new]
  BY DEF StoreValue, Then
<1> HIDE DEF u, new
<1>4. \A t \in Signals : Locked(w, t) => u.sig[t].local = w.sig[t].local
  BY <1>1, WidthFacts
<1>5. Typed(new) /\ Announced(new) /\ Awaits(new, "UpdateShadow", x)
      /\ \A i \in DOMAIN new : new[i].fc \in {"Flush", "UpdateShadow"} /\ new[i].on = x
  BY <1>2 DEF Typed, Announced, Awaits, Is
<1>6. \A t \in Signals : Locked(w, t) => Above(u, x, t)
  BY <1>1, <1>4 DEF Above
<1>7. Pending(u, new \o rest)
  BY <1>1, <1>2, <1>4, <1>5, <1>6, WriteStep DEF Inward
<1> QED BY <1>1, <1>2, <1>3, <1>7 DEF Sound

LEMMA DoneSound ==
  ASSUME NEW u, NEW rest, WorldOK(u), Pending(u, rest)
  PROVE  Sound(Done(u), rest)
<1>1. <<>> \in Seq(AnyCall) /\ <<>> \o rest = rest
  BY ConcatEmptySeq DEF Pending
<1> QED BY <1>1 DEF Sound, Done, Then

LEMMA Associative ==
  ASSUME NEW a \in Seq(AnyCall), NEW b \in Seq(AnyCall), NEW c \in Seq(AnyCall)
  PROVE  (a \o b) \o c = a \o (b \o c)
BY ConcatAssociative

LEMMA FollowSound ==
  ASSUME NEW r, NEW more \in Seq(AnyCall), NEW rest \in Seq(AnyCall), Sound(r, more \o rest)
  PROVE  Sound(Follow(r, more), rest)
<1>1. /\ WorldOK(r.world) /\ r.todo \in Seq(AnyCall) /\ Pending(r.world, r.todo \o (more \o rest))
  BY DEF Sound
<1>2. (r.todo \o more) \o rest = r.todo \o (more \o rest)
  BY <1>1, Associative
<1>3. r.todo \o more \in Seq(AnyCall)
  BY <1>1, ConcatProperties
<1> QED BY <1>1, <1>2, <1>3 DEF Sound, Follow, Then

(* Writing to a pin changes no signal; a view's parent is at least as wide *)
(* as the view, and as wide only if the view is all of it.                 *)
LEMMA WriteOutStep ==
  ASSUME NEW w, WorldOK(w), NEW rest, Pending(w, rest), NEW s \in Signals, Inside(w, s), NEW flushed
  PROVE  Sound(WriteOut(w, s, flushed), rest)
<1> DEFINE wr == w.sig[s].wr
           v  == w.sig[s].local
           r  == WriteOut(w, s, flushed)
<1>1. /\ wr.from \in {"none", "pin", "view"} /\ v \in Vectors(s)
      /\ wr.from = "pin" => wr.pin \in Pins /\ PinWidth[wr.pin] = Width(s)
      /\ wr.from = "view" => wr.of \in Signals /\ wr.at \in Nat /\ wr.at + Width(s) <= Width(wr.of)
  <2>1. wr \in Readers(s) /\ wr.from \notin {"const", "expr"} /\ v \in Vectors(s)
    BY DEF WorldOK, SignalType
  <2> QED BY <2>1, ReaderFacts
<1>2. rest \in Seq(AnyCall)
  BY DEF Pending
<1>3. CASE wr.from = "none"
  <2>1. r = Done(w)
    BY <1>3 DEF WriteOut
  <2> QED BY <2>1, DoneSound
<1>4. CASE wr.from = "pin"
  <2> DEFINE out == Stored(wr.pin, v)
             f == (w.foreign \ IF flushed THEN {s} ELSE {})
                        \cup {t \in Signals : /\ w.sig[t].wr = wr
                                              /\ t = s => ~flushed /\ w.sig[s].last # None}
             z == WithPin(w, wr.pin, out)
             u == WithForeign(z, f)
  <2>1. r = Done(u)
    BY <1>4 DEF WriteOut, WithPin, WithForeign
  <2>2. WorldOK(z) /\ z.sig = w.sig /\ z.told = w.told /\ z.within = w.within
    <3>1. out \in Storage(wr.pin) /\ wr.pin \in Pins
      BY <1>1, <1>4, StoredIs
    <3> HIDE DEF out, wr
    <3> QED BY <3>1, PinChange
  <2>3. f \in SUBSET Signals
    BY DEF WorldOK
  <2> HIDE DEF z, f
  <2>4. WorldOK(u) /\ u.sig = w.sig /\ u.told = w.told /\ u.within = w.within
    BY <2>2, <2>3, ForeignChange
  <2>5. Pending(u, rest)
    BY <2>4, Quiet DEF Kept, Alike
  <2> QED BY <2>1, <2>4, <2>5, DoneSound
<1>5. CASE wr.from = "view"
  <2> DEFINE x == wr.of
             new == Splice(w.sig[x].local, wr.at, v)
             more == IF mWidth[s] = 0 THEN <<>> ELSE <<Do("UpdateShadow", s)>>
  <2>1. r = Follow(StoreValue(w, x, new), more)
    BY <1>5 DEF WriteOut
  <2>2. x \in Signals /\ w.sig[x].local \in Vectors(x)
    BY <1>1, <1>5 DEF WorldOK, SignalType
  <2>3. new \in Vectors(x) /\ (Width(s) = Width(x) => new = v) /\ Width(s) <= Width(x)
    <3>1. new \in Vectors(x) /\ (Width(s) = Width(x) => new = v)
      BY <1>1, <1>5, <2>2, SpliceIs
    <3>2. Width(s) <= Width(x)
      BY <1>1, <1>5, <2>2, WidthFacts
    <3> QED BY <3>1, <3>2
  <2>4. more \in Seq(AnyCall) /\ Pending(w, more \o rest)
    <3>1. CASE mWidth[s] = 0
      BY <1>2, <3>1, ConcatEmptySeq
    <3>2. CASE mWidth[s] # 0
      <4> DEFINE one == <<Do("UpdateShadow", s)>>
      <4>1. one \in Seq(AnyCall) /\ DOMAIN one = {1} /\ CallOK(one[1]) /\ Is(one[1], "UpdateShadow", s)
        BY CallTypes, LiteralSeq DEF Plain
      <4>2. Kept(w, w)
        BY DEF Kept, Alike
      <4> HIDE DEF one
      <4>3. Typed(one) /\ Announced(one) /\ \A i \in DOMAIN one : one[i].fc = "UpdateShadow" /\ one[i].on = s
        BY <4>1 DEF Typed, Announced, Is
      <4>4. Pending(w, one \o rest)
        BY <4>1, <4>2, <4>3, Push DEF Inside, Inward
      <4> QED BY <3>2, <4>1, <4>4 DEF one
    <3> QED BY <3>1, <3>2
  <2> HIDE DEF new, more, x
  <2>5. \A t \in Signals : Locked(w, t) => Width(x) > Width(t) \/ (Width(x) = Width(t) /\ new = w.sig[t].local)
    <3> SUFFICES ASSUME NEW t \in Signals, Locked(w, t)
                 PROVE  Width(x) > Width(t) \/ (Width(x) = Width(t) /\ new = w.sig[t].local)
      OBVIOUS
    <3>1. Width(s) \in Nat /\ Width(x) \in Nat /\ Width(t) \in Nat
      BY <2>2, WidthFacts
    <3>2. Width(s) > Width(t) \/ (Width(s) = Width(t) /\ v = w.sig[t].local)
      BY DEF Inside, Above
    <3> QED BY <2>3, <3>1, <3>2
  <2>6. Sound(StoreValue(w, x, new), more \o rest)
    BY <2>2, <2>3, <2>4, <2>5, StoreStep
  <2> QED BY <1>2, <2>1, <2>4, <2>6, FollowSound
<1> QED BY <1>1, <1>3, <1>4, <1>5

LEMMA FlushInStep ==
  ASSUME NEW w, WorldOK(w), NEW rest, Pending(w, rest), NEW s \in Signals, Inside(w, s), NEW mode
  PROVE  Sound(FlushIn(w, s, mode), rest)
<1>1. CASE w.sig[s].io = "Output" \/ w.sig[s].mode # mode \/ ~NeedWrite(w, s)
  BY <1>1, DoneSound DEF FlushIn, Flush
<1>2. CASE ~(w.sig[s].io = "Output" \/ w.sig[s].mode # mode \/ ~NeedWrite(w, s))
  <2> DEFINE u == [w EXCEPT !.sig[s].last = w.sig[s].local]
             x == [w.sig[s] EXCEPT !.last = w.sig[s].local]
  <2>1. FlushIn(w, s, mode) = WriteOut(IF w.sig[s].same THEN u ELSE w, s, TRUE)
    BY <1>2 DEF FlushIn, Flush
  <2>2. WorldOK(u) /\ u.sig[s] = x /\ (\A t \in Signals \ {s} : u.sig[t] = w.sig[t]) /\ u.told = w.told /\ u.within = w.within
    <3>1. w.sig[s] \in SignalType(s) /\ w.sig[s].wr.from \notin {"const", "expr"}
      BY DEF WorldOK
    <3>2. x \in SignalType(s) /\ x.wr.from \notin {"const", "expr"}
      BY <3>1 DEF SignalType
    <3>3. u = WithSig(w, s, x)
      BY DEF WorldOK, WithSig
    <3> HIDE DEF x, u
    <3> QED BY <3>2, <3>3, SignalChange
  <2>3. /\ x.local = w.sig[s].local /\ x.shadow = w.sig[s].shadow
        /\ x.busy = w.sig[s].busy /\ x.cbs = w.sig[s].cbs
    BY DEF WorldOK, SignalType
  <2> HIDE DEF u, x
  <2>4. Kept(w, u)
    BY <2>2, <2>3 DEF Kept, Alike
  <2>5. Pending(u, rest) /\ Inside(u, s)
    <3>1. Pending(u, rest)
      BY <2>4, Quiet
    <3>2. Inside(u, s)
      BY <2>4 DEF Inside, Kept, Alike, Above, Locked
    <3> QED BY <3>1, <3>2
  <2> QED BY <2>1, <2>2, <2>5, WriteOutStep
<1> QED BY <1>1, <1>2

(* A link is the assignment of the source's value to a target as wide.     *)
LEMMA LinkStep ==
  ASSUME NEW w, WorldOK(w), NEW rest, Pending(w, rest), NEW s \in Signals, Inside(w, s),
         NEW valid, NEW cb \in Listeners(s), cb # "user"
  PROVE  Sound(CallBack(w, s, valid, cb), rest)
<1>1. CASE ~valid
  BY <1>1, DoneSound DEF CallBack
<1>2. CASE valid
  <2>1. CallBack(w, s, valid, cb) = StoreValue(w, cb, w.sig[s].local)
    BY <1>2 DEF CallBack
  <2>2. cb \in Signals /\ Width(cb) = Width(s)
    BY DEF Listeners, Width
  <2>3. w.sig[s].local \in Vectors(s)
    BY DEF WorldOK, SignalType
  <2>4. w.sig[s].local \in Vectors(cb)
    BY <2>2, <2>3 DEF Vectors, Bits
  <2>5. \A t \in Signals : Locked(w, t) =>
          Width(cb) > Width(t) \/ (Width(cb) = Width(t) /\ w.sig[s].local = w.sig[t].local)
    BY <2>2 DEF Inside, Above
  <2> QED BY <2>1, <2>2, <2>4, <2>5, StoreStep
<1> QED BY <1>1, <1>2

(* The user's callback hears the current value of a signal at work, and no *)
(* signal at work is held to its value once it makes calls of its own.     *)
LEMMA TellIs ==
  ASSUME NEW w, WorldOK(w), NEW s \in Signals, NEW valid
  PROVE  LET r == CallBack(w, s, valid, "user")
             reply == Reaction[s][w.sig[s].local] IN
         /\ r.todo = reply /\ WorldOK(r.world)
         /\ r.world.sig = w.sig /\ r.world.pin = w.pin /\ r.world.asked = w.asked
         /\ r.world.foreign = w.foreign /\ r.world.late = w.late
         /\ r.world.told[s] = w.sig[s].local /\ \A t \in Signals \ {s} : r.world.told[t] = w.told[t]
         /\ w.within \subseteq r.world.within
         /\ reply # <<>> => \A t \in Signals : w.sig[t].busy => t \in r.world.within
<1> DEFINE reply == Reaction[s][w.sig[s].local]
           z == WithTold(w, s, w.sig[s].local)
           b == IF reply = <<>> THEN w.within ELSE w.within \cup {t \in Signals : w.sig[t].busy}
           u == WithWithin(z, b)
<1>1. w.sig[s].local \in Vectors(s) \cup {None} /\ w.within \in SUBSET Signals
  BY DEF WorldOK, SignalType
<1>2. CallBack(w, s, valid, "user") = [world |-> u, todo |-> reply]
  BY <1>1 DEF CallBack, Tell, WithTold, WithWithin, Then, WorldOK
<1>3. /\ WorldOK(z) /\ z.sig = w.sig /\ z.pin = w.pin /\ z.asked = w.asked /\ z.foreign = w.foreign
      /\ z.late = w.late /\ z.told[s] = w.sig[s].local /\ \A t \in Signals \ {s} : z.told[t] = w.told[t]
  BY <1>1, ToldChange
<1>4. b \in SUBSET Signals /\ w.within \subseteq b /\ (reply # <<>> => \A t \in Signals : w.sig[t].busy => t \in b)
  BY <1>1
<1> HIDE DEF z, b
<1>5. /\ WorldOK(u) /\ u.sig = z.sig /\ u.pin = z.pin /\ u.asked = z.asked /\ u.told = z.told
      /\ u.foreign = z.foreign /\ u.late = z.late /\ u.within = b
  BY <1>3, <1>4, WithinChange
<1> HIDE DEF u
<1> QED BY <1>2, <1>3, <1>4, <1>5

LEMMA HeardStep ==
  ASSUME NEW w, WorldOK(w), NEW q, Pending(w, q), q # <<>>, NEW c, c = Head(q), NEW rest, rest = Tail(q),
         c.fc = "CallBack", c.arg.cb = "user", NEW valid
  PROVE  Sound(CallBack(w, c.on, valid, "user"), rest)
<1> DEFINE s == c.on
           r == CallBack(w, s, valid, "user")
           u == r.world
           reply == Reaction[s][w.sig[s].local]
<1>1. /\ CallOK(c) /\ rest \in Seq(AnyCall) /\ Typed(rest)
      /\ ReleasedOnce(rest) /\ CalledInside(rest) /\ Announced(rest) /\ Nested(w, rest)
      /\ \A t \in Signals : w.sig[t].busy <=> (Awaits(rest, "Release", t) \/ Is(c, "Release", t))
      /\ Awaits(rest, "Release", s)
  BY Pop, Zenon
<1>2. \A t \in Signals : Watched(w, t) =>
        /\ Locked(w, t) => Knows(w, t) \/ WillHear(rest, t) \/ (Is(c, "CallBack", t) /\ c.arg.cb = "user")
        /\ ~w.sig[t].busy => /\ w.told[t] \in {None, w.sig[t].shadow}
                             /\ Knows(w, t) \/ Awaits(rest, "UpdateShadow", t) \/ Is(c, "UpdateShadow", t)
  BY Pop, Zenon
<1>3. \A t : ~Is(c, "Release", t) /\ ~Is(c, "UpdateShadow", t) /\ (Is(c, "CallBack", t) => t = s)
  BY DEF Is
<1>4. s \in Signals /\ w.sig[s].busy
  BY <1>1 DEF CallOK, AnyCall
<1>5. w.sig[s].local \in Vectors(s)
  BY <1>4 DEF WorldOK, SignalType
<1> HIDE DEF s
<1>6. /\ r.todo = reply /\ WorldOK(u) /\ u.sig = w.sig
      /\ u.told[s] = w.sig[s].local /\ \A t \in Signals \ {s} : u.told[t] = w.told[t]
      /\ w.within \subseteq u.within
      /\ reply # <<>> => \A t \in Signals : w.sig[t].busy => t \in u.within
  BY <1>4, TellIs
<1>7. reply \in Seq(AnyCall) /\ Typed(reply) /\ \A i \in DOMAIN reply : reply[i].fc \in {"UpdateRead", "Assign"}
  BY <1>4, <1>5, ReplyIs
<1> HIDE DEF r, reply
<1>8. BusyReleased(u, rest) /\ Nested(u, rest) /\ ShadowAgrees(u)
  BY <1>1, <1>3, <1>6 DEF BusyReleased, Nested, ShadowAgrees, Pending, Above, Locked
<1>9. Informed(u, rest)
  <2> SUFFICES ASSUME NEW t \in Signals, Watched(u, t)
               PROVE  /\ Locked(u, t) => Knows(u, t) \/ WillHear(rest, t)
                      /\ ~u.sig[t].busy => /\ u.told[t] \in {None, u.sig[t].shadow}
                                           /\ Knows(u, t) \/ Awaits(rest, "UpdateShadow", t)
    BY DEF Informed
  <2>1. CASE t = s
    BY <1>4, <1>6, <2>1 DEF Knows
  <2>2. CASE t # s
    BY <1>2, <1>3, <1>6, <2>2 DEF Knows, Watched, Locked
  <2> QED BY <2>1, <2>2
<1>10. Pending(u, rest)
  BY <1>1, <1>8, <1>9 DEF Pending
<1>11. Pending(u, reply \o rest)
  <2>1. CASE reply = <<>>
    BY <1>1, <1>10, <2>1, ConcatEmptySeq
  <2>2. CASE reply # <<>>
    <3>1. \A t \in Signals : ~Locked(u, t)
      BY <1>6, <2>2 DEF Locked
    <3>2. Announced(reply) /\ \A i \in DOMAIN reply : reply[i].fc \notin {"Release", "CallBack"}
      BY <1>7 DEF Announced
    <3>3. Kept(u, u)
      BY DEF Kept, Alike
    <3> HIDE DEF u
    <3> QED BY <1>4, <1>7, <1>10, <3>1, <3>2, <3>3, Push
  <2> QED BY <2>1, <2>2
<1> QED BY <1>6, <1>7, <1>11 DEF Sound, s, r

(* The end of a signal's work: nobody calls its callbacks any more.        *)
LEMMA ReleaseIs ==
  ASSUME NEW w, WorldOK(w), NEW s \in Signals
  PROVE  LET u == Release(w, s).world IN
         /\ Release(w, s) = Done(u) /\ WorldOK(u)
         /\ u.sig[s].busy = FALSE /\ u.sig[s].local = w.sig[s].local /\ u.sig[s].shadow = w.sig[s].shadow
         /\ u.sig[s].cbs = w.sig[s].cbs /\ SameConfig(u.sig[s], w.sig[s]) /\ u.sig[s].readonly = w.sig[s].readonly
         /\ \A t \in Signals \ {s} : u.sig[t] = w.sig[t] /\ u.told[t] = w.told[t]
         /\ u.told[s] = IF Unheard(w, s) THEN None ELSE w.told[s]
         /\ u.within = w.within \ {s} /\ u.pin = w.pin /\ u.asked = w.asked
         /\ u.foreign = w.foreign /\ u.late = w.late
<1> DEFINE x == [w.sig[s] EXCEPT !.busy = FALSE]
           y == WithSig(w, s, x)
           heard == IF Unheard(w, s) THEN None ELSE w.told[s]
           z == WithTold(y, s, heard)
           u == WithWithin(z, w.within \ {s})
<1>1. w.sig[s] \in SignalType(s) /\ w.sig[s].wr.from \notin {"const", "expr"} /\ heard \in Vectors(s) \cup {None}
      /\ w.within \ {s} \in SUBSET Signals
  BY DEF WorldOK
<1>2. x \in SignalType(s) /\ x.wr.from \notin {"const", "expr"}
  BY <1>1 DEF SignalType
<1>3. /\ x.busy = FALSE /\ x.local = w.sig[s].local /\ x.shadow = w.sig[s].shadow /\ x.cbs = w.sig[s].cbs
      /\ SameConfig(x, w.sig[s]) /\ x.readonly = w.sig[s].readonly
  BY <1>1 DEF SignalType, SameConfig
<1>4. Release(w, s) = Done(u)
  BY DEF Release, WithSig, WithTold, WithWithin, WorldOK
<1> HIDE DEF x, heard
<1>5. /\ WorldOK(y) /\ y.sig[s] = x /\ (\A t \in Signals \ {s} : y.sig[t] = w.sig[t])
      /\ y.pin = w.pin /\ y.asked = w.asked /\ y.told = w.told /\ y.foreign = w.foreign
      /\ y.late = w.late /\ y.within = w.within
  BY <1>2, SignalChange
<1> HIDE DEF y
<1>6. /\ WorldOK(z) /\ z.sig = y.sig /\ z.pin = y.pin /\ z.asked = y.asked /\ z.foreign = y.foreign
      /\ z.late = y.late /\ z.within = y.within
      /\ z.told[s] = heard /\ \A t \in Signals \ {s} : z.told[t] = y.told[t]
  BY <1>1, <1>5, ToldChange
<1> HIDE DEF z
<1>7. /\ WorldOK(u) /\ u.sig = z.sig /\ u.pin = z.pin /\ u.asked = z.asked /\ u.told = z.told
      /\ u.foreign = z.foreign /\ u.late = z.late /\ u.within = w.within \ {s}
  BY <1>1, <1>6, WithinChange
<1> HIDE DEF u
<1>8. Release(w, s).world = u
  BY <1>4 DEF Done, Then
<1> QED BY <1>3, <1>4, <1>5, <1>6, <1>7, <1>8 DEF heard

LEMMA ReleaseStep ==
  ASSUME NEW w, WorldOK(w), NEW q, Pending(w, q), q # <<>>, NEW c, c = Head(q), NEW rest, rest = Tail(q),
         c.fc = "Release"
  PROVE  Sound(Release(w, c.on), rest)
<1> DEFINE s == c.on
           u == Release(w, s).world
<1>1. /\ CallOK(c) /\ rest \in Seq(AnyCall) /\ Typed(rest)
      /\ ReleasedOnce(rest) /\ CalledInside(rest) /\ Announced(rest) /\ Nested(w, rest)
      /\ \A t \in Signals : w.sig[t].busy <=> (Awaits(rest, "Release", t) \/ Is(c, "Release", t))
      /\ ~Awaits(rest, "Release", s)
  BY Pop, Zenon
<1>2. \A t \in Signals : Watched(w, t) =>
        /\ Locked(w, t) => Knows(w, t) \/ WillHear(rest, t) \/ (Is(c, "CallBack", t) /\ c.arg.cb = "user")
        /\ ~w.sig[t].busy => /\ w.told[t] \in {None, w.sig[t].shadow}
                             /\ Knows(w, t) \/ Awaits(rest, "UpdateShadow", t) \/ Is(c, "UpdateShadow", t)
  BY Pop, Zenon
<1>3. \A t : ~Is(c, "CallBack", t) /\ ~Is(c, "UpdateShadow", t) /\ (Is(c, "Release", t) <=> t = s)
  BY DEF Is
<1>4. s \in Signals /\ w.sig[s].busy
  BY <1>1, <1>3 DEF CallOK, AnyCall
<1> HIDE DEF s
<1>5. /\ Release(w, s) = Done(u) /\ WorldOK(u)
      /\ u.sig[s].busy = FALSE /\ u.sig[s].local = w.sig[s].local /\ u.sig[s].shadow = w.sig[s].shadow
      /\ u.sig[s].cbs = w.sig[s].cbs /\ SameConfig(u.sig[s], w.sig[s]) /\ u.sig[s].readonly = w.sig[s].readonly
      /\ \A t \in Signals \ {s} : u.sig[t] = w.sig[t] /\ u.told[t] = w.told[t]
      /\ u.told[s] = IF Unheard(w, s) THEN None ELSE w.told[s]
      /\ u.within = w.within \ {s} /\ u.pin = w.pin /\ u.asked = w.asked
      /\ u.foreign = w.foreign /\ u.late = w.late
  BY <1>4, ReleaseIs
<1> HIDE DEF u
<1>6. /\ \A t \in Signals : u.sig[t].local = w.sig[t].local /\ u.sig[t].shadow = w.sig[t].shadow
                              /\ u.sig[t].cbs = w.sig[t].cbs
      /\ \A t \in Signals \ {s} : Locked(u, t) <=> Locked(w, t)
      /\ ~Locked(u, s)
  BY <1>5 DEF Locked
<1>7. BusyReleased(u, rest) /\ ShadowAgrees(u)
  BY <1>1, <1>3, <1>5, <1>6 DEF BusyReleased, ShadowAgrees, Pending
<1>8. Nested(u, rest)
  <2> SUFFICES ASSUME NEW i \in DOMAIN rest, NEW j \in DOMAIN rest, rest[i].fc = "Release", rest[i].on \notin u.within, j < i
               PROVE  rest[j].fc \in Inward /\ Above(u, rest[j].on, rest[i].on)
    BY DEF Nested
  <2>1. rest[j].on \in Signals /\ rest[i].on \in Signals
    BY <1>1 DEF Typed, CallOK, AnyCall
  <2>2. rest[i].on # s
    BY <1>1 DEF Awaits, Is
  <2>3. rest[j].fc \in Inward /\ Above(w, rest[j].on, rest[i].on)
    BY <1>1, <1>5, <2>2 DEF Nested
  <2> QED BY <1>6, <2>1, <2>3 DEF Above
<1>9. ~WillHear(rest, s)
  <2> SUFFICES ASSUME NEW i \in DOMAIN rest, Is(rest[i], "CallBack", s)
               PROVE  FALSE
    BY DEF WillHear
  <2>1. Later(rest, i, "Release", s)
    BY <1>1 DEF CalledInside, Is
  <2> QED BY <1>1, <2>1 DEF Later, Awaits
<1>10. Informed(u, rest)
  <2> SUFFICES ASSUME NEW t \in Signals, Watched(u, t)
               PROVE  /\ Locked(u, t) => Knows(u, t) \/ WillHear(rest, t)
                      /\ ~u.sig[t].busy => /\ u.told[t] \in {None, u.sig[t].shadow}
                                           /\ Knows(u, t) \/ Awaits(rest, "UpdateShadow", t)
    BY DEF Informed
  <2>1. Watched(w, t)
    BY <1>6 DEF Watched
  <2>2. CASE t = s /\ Unheard(w, s)
    BY <1>5, <1>6, <2>2 DEF Knows
  <2>3. CASE t = s /\ s \in w.within /\ ~Unheard(w, s)
    <3>1. w.told[s] = w.sig[s].local /\ w.sig[s].shadow = w.sig[s].local
      BY <2>3 DEF Unheard
    <3> QED BY <1>5, <1>6, <2>3, <3>1 DEF Knows
  <2>4. CASE t = s /\ s \notin w.within
    <3>1. Locked(w, s) /\ ~Unheard(w, s)
      BY <1>4, <2>4 DEF Locked, Unheard
    <3>2. Knows(w, s)
      BY <1>2, <1>3, <1>9, <2>1, <2>4, <3>1
    <3>3. w.sig[s].shadow = w.sig[s].local
      BY <1>4, <3>1 DEF Pending, ShadowAgrees
    <3> QED BY <1>5, <1>6, <2>4, <3>1, <3>2, <3>3 DEF Knows
  <2>5. CASE t # s
    BY <1>2, <1>3, <1>5, <1>6, <2>1, <2>5 DEF Knows
  <2> QED BY <2>2, <2>3, <2>4, <2>5
<1>11. Pending(u, rest)
  BY <1>1, <1>7, <1>8, <1>10 DEF Pending
<1> QED BY <1>5, <1>11, DoneSound DEF s, u

(* The calls of a signal's callbacks.                                      *)
LEMMA CallBacksAre ==
  ASSUME NEW s \in Signals, NEW now, NEW cbs \in Seq(Listeners(s))
  PROVE  LET hear == CallBacks(s, now, cbs) IN
         /\ hear \in Seq(AnyCall) /\ DOMAIN hear = DOMAIN cbs
         /\ \A i \in DOMAIN hear : Is(hear[i], "CallBack", s) /\ CallOK(hear[i]) /\ hear[i].arg.cb = cbs[i]
<1> DEFINE ok == Valid(now)
           call(cb) == DoWith("CallBack", s, [valid |-> ok, cb |-> cb])
           hear == CallBacks(s, now, cbs)
<1>1. hear = [i \in DOMAIN cbs |-> call(cbs[i])]
  BY DEF CallBacks
<1>2. DOMAIN cbs = 1 .. Len(cbs) /\ Len(cbs) \in Nat
  BY LenProperties
<1>3. ok \in BOOLEAN
  BY DEF Valid
<1> HIDE DEF ok, hear
<1>4. \A cb \in Listeners(s) : call(cb) \in AnyCall /\ CallOK(call(cb)) /\ Is(call(cb), "CallBack", s)
                               /\ call(cb).arg.cb = cb
  <2> SUFFICES ASSUME NEW cb \in Listeners(s)
               PROVE  call(cb) \in AnyCall /\ CallOK(call(cb)) /\ Is(call(cb), "CallBack", s) /\ call(cb).arg.cb = cb
    OBVIOUS
  <2> DEFINE arg == [valid |-> ok, cb |-> cb]
  <2>1. cb \in Signals \cup {"user"}
    BY DEF Listeners
  <2>2. arg \in [valid : BOOLEAN, cb : Signals \cup {"user"}] /\ arg.cb = cb
    BY <1>3, <2>1
  <2>3. arg \in Arguments
    BY <2>2 DEF Arguments
  <2>4. "CallBack" \in Members
    BY DEF Members
  <2> HIDE DEF arg
  <2>5. call(cb) = [fc |-> "CallBack", on |-> s, arg |-> arg]
    BY DEF DoWith, arg
  <2>6. call(cb) \in AnyCall
    BY <2>3, <2>4, <2>5 DEF AnyCall
  <2>7. call(cb).fc = "CallBack" /\ call(cb).on = s /\ call(cb).arg = arg
    BY <2>5
  <2> HIDE DEF call
  <2> QED BY <2>2, <2>6, <2>7 DEF CallOK, Is
<1>5. \A i \in DOMAIN cbs : cbs[i] \in Listeners(s)
  BY <1>2
<1> HIDE DEF call
<1>6. DOMAIN hear = 1 .. Len(cbs) /\ \A i \in DOMAIN hear : hear[i] = call(cbs[i])
  BY <1>1, <1>2
<1>7. hear \in Seq(AnyCall)
  BY <1>1, <1>2, <1>4, <1>5, SeqDef
<1> QED BY <1>2, <1>4, <1>5, <1>6, <1>7 DEF hear

(* An announcement is ignored by a signal at work; otherwise the signal    *)
(* goes to work, and every callback is told if the value is another.       *)
LEMMA AnnounceStep ==
  ASSUME NEW w, WorldOK(w), NEW q, Pending(w, q), q # <<>>, NEW c, c = Head(q), NEW rest, rest = Tail(q),
         c.fc = "UpdateShadow"
  PROVE  Sound(UpdateShadow(w, c.on), rest)
<1> DEFINE s == c.on
<1>1. /\ CallOK(c) /\ rest \in Seq(AnyCall) /\ Typed(rest)
      /\ ReleasedOnce(rest) /\ CalledInside(rest) /\ Announced(rest) /\ Nested(w, rest)
      /\ \A t \in Signals : w.sig[t].busy <=> (Awaits(rest, "Release", t) \/ Is(c, "Release", t))
      /\ \A t \in Signals : Locked(w, t) /\ ~Is(c, "Release", t) => c.fc \in Inward /\ Above(w, c.on, t)
  BY Pop, Zenon
<1>2. \A t \in Signals : Watched(w, t) =>
        /\ Locked(w, t) => Knows(w, t) \/ WillHear(rest, t) \/ (Is(c, "CallBack", t) /\ c.arg.cb = "user")
        /\ ~w.sig[t].busy => /\ w.told[t] \in {None, w.sig[t].shadow}
                             /\ Knows(w, t) \/ Awaits(rest, "UpdateShadow", t) \/ Is(c, "UpdateShadow", t)
  BY Pop, Zenon
<1>3. \A t : ~Is(c, "CallBack", t) /\ ~Is(c, "Release", t) /\ (Is(c, "UpdateShadow", t) <=> t = s)
  BY DEF Is
<1>4. s \in Signals /\ \A t \in Signals : Locked(w, t) => Above(w, s, t)
  BY <1>1, <1>3 DEF CallOK, AnyCall
<1>5. BusyReleased(w, rest) /\ ShadowAgrees(w)
  BY <1>1, <1>3 DEF BusyReleased, Pending
<1>6. w.sig[s] \in SignalType(s) /\ w.sig[s].wr.from \notin {"const", "expr"}
  BY <1>4 DEF WorldOK
<1> HIDE DEF s
<1>7. CASE w.sig[s].busy \/ w.sig[s].cbs = <<>>
  <2>1. ASSUME NEW t \in Signals, Watched(w, t)
        PROVE  /\ Locked(w, t) => Knows(w, t) \/ WillHear(rest, t)
               /\ ~w.sig[t].busy => /\ w.told[t] \in {None, w.sig[t].shadow}
                                    /\ Knows(w, t) \/ Awaits(rest, "UpdateShadow", t)
    <3>1. t = s => w.sig[s].busy
      BY <1>7, <2>1 DEF Watched
    <3> QED BY <1>2, <1>3, <2>1, <3>1
  <2>2. Informed(w, rest)
    BY <2>1 DEF Informed
  <2>3. Pending(w, rest)
    BY <1>1, <1>5, <2>2 DEF Pending
  <2>4. UpdateShadow(w, s) = Done(w)
    BY <1>7 DEF UpdateShadow
  <2> QED BY <2>3, <2>4, DoneSound DEF s
<1>8. CASE ~(w.sig[s].busy \/ w.sig[s].cbs = <<>>)
  <2> DEFINE now == w.sig[s].local
             cbs == w.sig[s].cbs
             x   == [w.sig[s] EXCEPT !.shadow = now, !.busy = TRUE]
             u   == WithSig(w, s, x)
             hear == IF w.sig[s].shadow = now THEN <<>> ELSE CallBacks(s, now, cbs)
             new  == hear \o <<Do("Release", s)>>
  <2>1. UpdateShadow(w, s) = [world |-> u, todo |-> new]
    <3>1. Mark(w, s) = u
      BY <1>4, <1>6 DEF Mark, WithSig, WorldOK, SignalType
    <3> HIDE DEF u
    <3> QED BY <1>8, <3>1 DEF UpdateShadow, Then
  <2>2. /\ WorldOK(u) /\ u.sig[s] = x /\ (\A t \in Signals \ {s} : u.sig[t] = w.sig[t]) /\ u.told = w.told /\ u.within = w.within
    <3>1. x \in SignalType(s) /\ x.wr.from \notin {"const", "expr"}
      BY <1>6 DEF SignalType
    <3> HIDE DEF x
    <3> QED BY <1>4, <3>1, SignalChange
  <2>3. x.local = now /\ x.shadow = now /\ x.busy = TRUE /\ x.cbs = cbs
    BY <1>6 DEF SignalType
  <2>4. /\ hear \in Seq(AnyCall)
        /\ \A i \in DOMAIN hear : Is(hear[i], "CallBack", s) /\ CallOK(hear[i])
        /\ w.sig[s].shadow = now \/ (Watched(w, s) => \E i \in DOMAIN hear : hear[i].arg.cb = "user")
    <3>1. CASE w.sig[s].shadow = now
      BY <3>1
    <3>2. CASE w.sig[s].shadow # now
      <4>1. hear = CallBacks(s, now, cbs)
        BY <3>2
      <4>2. cbs \in Seq(Listeners(s))
        BY <1>6 DEF SignalType
      <4> HIDE DEF hear, cbs
      <4>3. /\ hear \in Seq(AnyCall) /\ DOMAIN hear = DOMAIN cbs
            /\ \A i \in DOMAIN hear : Is(hear[i], "CallBack", s) /\ CallOK(hear[i]) /\ hear[i].arg.cb = cbs[i]
        BY <1>4, <4>1, <4>2, CallBacksAre
      <4>4. Watched(w, s) => \E i \in DOMAIN hear : hear[i].arg.cb = "user"
        BY <4>3 DEF Watched, cbs
      <4> QED BY <4>3, <4>4
    <3> QED BY <3>1, <3>2
  <2>5. /\ new \in Seq(AnyCall) /\ DOMAIN new = 1 .. Len(hear) + 1 /\ Len(hear) \in Nat
        /\ \A i \in DOMAIN hear : i \in DOMAIN new /\ i < Len(hear) + 1 /\ new[i] = hear[i]
        /\ Is(new[Len(hear) + 1], "Release", s) /\ CallOK(new[Len(hear) + 1])
        /\ \A i \in DOMAIN new : i = Len(hear) + 1 \/ (i \in DOMAIN hear /\ new[i] = hear[i])
    <3> DEFINE end == <<Do("Release", s)>>
    <3>1. end \in Seq(AnyCall) /\ DOMAIN end = {1} /\ CallOK(end[1]) /\ Is(end[1], "Release", s)
      BY <1>4, CallTypes, LiteralSeq DEF Plain
    <3>2. Len(end) = 1
      OBVIOUS
    <3> HIDE DEF end, hear
    <3>3. new = hear \o end
      BY DEF end
    <3> HIDE DEF new
    <3>4. /\ new \in Seq(AnyCall) /\ Len(new) = Len(hear) + Len(end) /\ Len(hear) \in Nat
          /\ DOMAIN new = 1 .. Len(new) /\ DOMAIN hear = 1 .. Len(hear)
          /\ \A i \in DOMAIN hear : i \in DOMAIN new /\ new[i] = hear[i]
          /\ \A i \in DOMAIN end : i + Len(hear) \in DOMAIN new /\ new[i + Len(hear)] = end[i]
          /\ \A i \in DOMAIN new : \/ i \in DOMAIN hear /\ new[i] = hear[i]
                                   \/ i > Len(hear) /\ i - Len(hear) \in DOMAIN end /\ new[i] = end[i - Len(hear)]
      BY <2>4, <3>1, <3>3, Concat
    <3> QED BY <3>1, <3>2, <3>4
  <2> HIDE DEF x, u, now, cbs, hear, new
  <2> DEFINE m == Len(hear) + 1
             q2 == new \o rest
  <2>6. /\ q2 \in Seq(AnyCall) /\ Len(new) = m /\ m \in Nat /\ m \in DOMAIN new
        /\ \A i \in DOMAIN new : i \in DOMAIN q2 /\ q2[i] = new[i] /\ i <= m
        /\ \A i \in DOMAIN rest : i + m \in DOMAIN q2 /\ q2[i + m] = rest[i] /\ i + m > m
        /\ \A i \in DOMAIN q2 : \/ i \in DOMAIN new /\ q2[i] = new[i]
                                \/ i > m /\ i - m \in DOMAIN rest /\ q2[i] = rest[i - m]
    <3>1. Len(new) = m /\ m \in Nat /\ m \in DOMAIN new /\ DOMAIN new = 1 .. m
      BY <2>5, LenProperties
    <3>2. /\ q2 \in Seq(AnyCall) /\ DOMAIN rest = 1 .. Len(rest)
          /\ \A i \in DOMAIN new : i \in DOMAIN q2 /\ q2[i] = new[i]
          /\ \A i \in DOMAIN rest : i + Len(new) \in DOMAIN q2 /\ q2[i + Len(new)] = rest[i]
          /\ \A i \in DOMAIN q2 : \/ i \in DOMAIN new /\ q2[i] = new[i]
                                  \/ i > Len(new) /\ i - Len(new) \in DOMAIN rest /\ q2[i] = rest[i - Len(new)]
      BY <1>1, <2>5, Concat
    <3> HIDE DEF m, q2
    <3> QED BY <1>1, <3>1, <3>2, LenProperties
  <2> HIDE DEF m, q2
  <2>7. /\ Is(new[m], "Release", s) /\ CallOK(new[m])
        /\ \A i \in DOMAIN new : i = m \/ (i < m /\ Is(new[i], "CallBack", s) /\ CallOK(new[i]))
    BY <2>4, <2>5 DEF m
  <2>8. Typed(q2)
    BY <1>1, <2>6, <2>7 DEF Typed
  <2>9. ~Awaits(rest, "Release", s)
    BY <1>4, <1>5, <1>8 DEF BusyReleased
  <2>10. BusyReleased(u, q2)
    <3> SUFFICES ASSUME NEW t \in Signals
                 PROVE  u.sig[t].busy <=> Awaits(q2, "Release", t)
      BY DEF BusyReleased
    <3>1. CASE t = s
      BY <2>2, <2>3, <2>6, <2>7, <3>1 DEF Awaits
    <3>2. CASE t # s
      <4>1. Awaits(q2, "Release", t) <=> Awaits(rest, "Release", t)
        <5>1. ASSUME NEW i \in DOMAIN q2, Is(q2[i], "Release", t)
              PROVE  Awaits(rest, "Release", t)
          <6>1. ~(i \in DOMAIN new /\ q2[i] = new[i])
            BY <2>7, <3>2, <5>1 DEF Is
          <6>2. i - m \in DOMAIN rest /\ q2[i] = rest[i - m]
            BY <2>6, <6>1
          <6> QED BY <5>1, <6>2 DEF Awaits
        <5>2. ASSUME NEW i \in DOMAIN rest, Is(rest[i], "Release", t)
              PROVE  Awaits(q2, "Release", t)
          BY <2>6, <5>2 DEF Awaits
        <5> QED BY <5>1, <5>2 DEF Awaits
      <4> QED BY <1>5, <2>2, <3>2, <4>1 DEF BusyReleased
    <3> QED BY <3>1, <3>2
  <2>11. ReleasedOnce(q2)
    <3> SUFFICES ASSUME NEW i \in DOMAIN q2, NEW j \in DOMAIN q2, q2[i].fc = "Release", Is(q2[j], "Release", q2[i].on)
                 PROVE  i = j
      BY DEF ReleasedOnce
    <3>1. \A k \in DOMAIN q2 : q2[k].fc = "Release" => \/ k = m /\ q2[k].on = s
                                                       \/ k > m /\ k - m \in DOMAIN rest /\ q2[k] = rest[k - m] /\ q2[k].on # s
      BY <2>6, <2>7, <2>9 DEF Is, Awaits
    <3>2. q2[j].fc = "Release" /\ q2[j].on = q2[i].on
      BY DEF Is
    <3>3. CASE q2[i].on = s
      BY <3>1, <3>2, <3>3
    <3>4. CASE q2[i].on # s
      <4>1. i - m \in DOMAIN rest /\ q2[i] = rest[i - m] /\ j - m \in DOMAIN rest /\ q2[j] = rest[j - m]
        BY <3>1, <3>2, <3>4
      <4>2. i - m = j - m
        BY <1>1, <4>1 DEF ReleasedOnce
      <4>3. i \in Nat /\ j \in Nat
        BY <2>6, LenProperties
      <4> QED BY <2>6, <4>2, <4>3
    <3> QED BY <3>3, <3>4
  <2>12. Nested(u, q2)
    <3> SUFFICES ASSUME NEW i \in DOMAIN q2, NEW j \in DOMAIN q2, q2[i].fc = "Release", q2[i].on \notin u.within, j < i
                 PROVE  q2[j].fc \in Inward /\ Above(u, q2[j].on, q2[i].on)
      BY DEF Nested
    <3>1. \A t \in Signals : u.sig[t].local = w.sig[t].local
      BY <2>2, <2>3 DEF now
    <3>2. q2[i].on \in Signals /\ q2[j].on \in Signals
      BY <2>8 DEF Typed, CallOK, AnyCall
    <3>3. \A k \in DOMAIN new : new[k].fc \in Inward /\ new[k].on = s
      BY <2>7 DEF Is, Inward
    <3>4. i \in Nat /\ j \in Nat
      BY <2>6, LenProperties
    <3>5. CASE i \in DOMAIN new
      <4>1. j \in DOMAIN new
        BY <2>5, <2>6, <3>4, <3>5, LenProperties
      <4> QED BY <2>6, <3>3, <3>5, <4>1 DEF Above
    <3>6. CASE i > m /\ i - m \in DOMAIN rest /\ q2[i] = rest[i - m]
      <4>1. Locked(w, q2[i].on)
        BY <1>5, <2>2, <3>2, <3>6 DEF BusyReleased, Awaits, Is, Locked
      <4>2. CASE j \in DOMAIN new
        BY <1>4, <2>6, <3>1, <3>2, <3>3, <4>1, <4>2 DEF Above
      <4>3. CASE j > m /\ j - m \in DOMAIN rest /\ q2[j] = rest[j - m]
        <5>1. j - m < i - m
          BY <2>6, <3>4
        <5>2. q2[j].fc \in Inward /\ Above(w, q2[j].on, q2[i].on)
          BY <1>1, <2>2, <3>6, <4>3, <5>1 DEF Nested
        <5> QED BY <3>1, <3>2, <5>2 DEF Above
      <4> QED BY <2>6, <4>2, <4>3
    <3> QED BY <2>6, <3>5, <3>6
  <2>13. CalledInside(q2)
    <3> SUFFICES ASSUME NEW i \in DOMAIN q2, q2[i].fc = "CallBack"
                 PROVE  Later(q2, i, "Release", q2[i].on)
      BY DEF CalledInside
    <3>1. CASE i \in DOMAIN new
      BY <2>6, <2>7, <3>1 DEF Later, Is
    <3>2. CASE i > m /\ i - m \in DOMAIN rest /\ q2[i] = rest[i - m]
      <4>1. PICK j \in DOMAIN rest : j > i - m /\ Is(rest[j], "Release", q2[i].on)
        BY <1>1, <3>2 DEF CalledInside, Later
      <4>2. j \in Nat /\ i \in Nat
        BY <1>1, <2>6, LenProperties
      <4> QED BY <2>6, <4>1, <4>2 DEF Later
    <3> QED BY <2>6, <3>1, <3>2
  <2>14. Announced(q2)
    <3> SUFFICES ASSUME NEW i \in DOMAIN q2, q2[i].fc = "Fetch"
                 PROVE  Later(q2, i, "UpdateShadow", q2[i].on)
      BY DEF Announced
    <3>1. i > m /\ i - m \in DOMAIN rest /\ q2[i] = rest[i - m]
      BY <2>6, <2>7 DEF Is
    <3>2. PICK j \in DOMAIN rest : j > i - m /\ Is(rest[j], "UpdateShadow", q2[i].on)
      BY <1>1, <3>1 DEF Announced, Later
    <3>3. j \in Nat /\ i \in Nat
      BY <1>1, <2>6, LenProperties
    <3> QED BY <2>6, <3>2, <3>3 DEF Later
  <2>15. ShadowAgrees(u)
    BY <1>5, <2>2, <2>3 DEF ShadowAgrees, Locked
  <2>16. Informed(u, q2)
    <3> SUFFICES ASSUME NEW t \in Signals, Watched(u, t)
                 PROVE  /\ Locked(u, t) => Knows(u, t) \/ WillHear(q2, t)
                        /\ ~u.sig[t].busy => /\ u.told[t] \in {None, u.sig[t].shadow}
                                             /\ Knows(u, t) \/ Awaits(q2, "UpdateShadow", t)
      BY DEF Informed
    <3>1. CASE t = s
      <4>1. Watched(w, s) /\ u.sig[s].busy /\ u.sig[s].local = now
        BY <2>2, <2>3, <3>1 DEF Watched, cbs
      <4>2. CASE w.sig[s].shadow = now
        <5>1. w.told[s] \in {None, now}
          BY <1>2, <1>4, <1>8, <4>1, <4>2
        <5> QED BY <2>2, <3>1, <4>1, <5>1 DEF Knows
      <4>3. CASE w.sig[s].shadow # now
        <5>1. PICK i \in DOMAIN hear : hear[i].arg.cb = "user"
          BY <2>4, <4>1, <4>3
        <5>2. i \in DOMAIN q2 /\ q2[i] = hear[i] /\ Is(hear[i], "CallBack", s)
          BY <2>4, <2>5, <2>6, <5>1
        <5>3. WillHear(q2, s)
          BY <5>1, <5>2 DEF WillHear
        <5> QED BY <3>1, <4>1, <5>3
      <4> QED BY <4>2, <4>3
    <3>2. CASE t # s
      <4>1. Watched(w, t) /\ u.sig[t] = w.sig[t] /\ u.told[t] = w.told[t] /\ (Knows(w, t) <=> Knows(u, t))
        BY <2>2, <3>2 DEF Watched, Knows
      <4>2. (WillHear(rest, t) => WillHear(q2, t)) /\ (Awaits(rest, "UpdateShadow", t) => Awaits(q2, "UpdateShadow", t))
        BY <2>6 DEF WillHear, Awaits
      <4> QED BY <1>2, <1>3, <2>2, <3>2, <4>1, <4>2 DEF Locked
    <3> QED BY <3>1, <3>2
  <2>17. Pending(u, new \o rest)
    BY <2>6, <2>8, <2>10, <2>11, <2>12, <2>13, <2>14, <2>15, <2>16 DEF Pending, q2
  <2> QED BY <2>1, <2>2, <2>5, <2>17 DEF Sound, s
<1> QED BY <1>7, <1>8 DEF s
-----------------------------------------------------------------------------
(* Reading.  The value read is announced by a call that is still to come.  *)
LEMMA FetchStep ==
  ASSUME NEW w, WorldOK(w), NEW rest, Pending(w, rest), NEW s \in Signals, Idle(w),
         Awaits(rest, "UpdateShadow", s)
  PROVE  Sound(Fetch(w, s), rest)
<1> DEFINE rd == w.sig[s].rd
<1>1. /\ rd.from \in {"none", "pin", "const", "expr", "view"}
      /\ rd.from = "pin" => rd.pin \in Pins /\ PinWidth[rd.pin] = Width(s)
      /\ rd.from = "const" => rd.value \in Vectors(s)
      /\ rd.from = "expr" => rd.of \in Signals /\ Width(rd.of) = Width(s)
      /\ rd.from = "view" => rd.of \in Signals /\ rd.at \in Nat /\ rd.at + Width(s) <= Width(rd.of)
  <2>1. rd \in Readers(s)
    BY DEF WorldOK, SignalType
  <2> HIDE DEF rd
  <2> QED BY <2>1, ReaderFacts
<1>2. \A t \in Signals : w.sig[t].local \in Vectors(t)
  BY DEF WorldOK, SignalType
<1>3. ASSUME NEW v \in Vectors(s), NEW u, WorldOK(u), u.sig = SetLocal(w, s, v).sig, u.told = w.told, u.within = w.within
      PROVE  Sound(Done(u), rest)
  <2> DEFINE z == SetLocal(w, s, v)
  <2>1. Alike(w, z) /\ \A t \in Signals \ {s} : z.sig[t] = w.sig[t]
    BY SetLocalOK
  <2> HIDE DEF z
  <2>2. Alike(w, u) /\ \A t \in Signals \ {s} : u.sig[t].local = w.sig[t].local
    BY <1>3, <2>1 DEF Alike, z
  <2>3. <<>> \in Seq(AnyCall) /\ <<>> \o rest = rest /\ Typed(<<>>) /\ Announced(<<>>) /\ DOMAIN <<>> = {}
    BY ConcatEmptySeq DEF Pending, Typed, Announced
  <2>4. Pending(u, <<>> \o rest)
    BY <2>2, <2>3, WriteStep DEF Idle
  <2> QED BY <1>3, <2>3, <2>4, DoneSound
<1>4. ASSUME NEW v \in Vectors(s)
      PROVE  Sound(Done(SetLocal(w, s, v)), rest)
  <2> DEFINE z == SetLocal(w, s, v)
  <2>1. WorldOK(z) /\ z.told = w.told /\ z.within = w.within
    BY SetLocalOK
  <2> HIDE DEF z
  <2>2. z.sig = SetLocal(w, s, v).sig
    BY DEF z
  <2> QED BY <1>3, <2>1, <2>2 DEF z
<1>5. CASE rd.from = "none"
  BY <1>5, DoneSound DEF Fetch
<1>6. CASE rd.from = "pin"
  <2> DEFINE v == Fetched(rd.pin, w.sig[s].local, w.pin[rd.pin])
             z == SetLocal(w, s, v)
             owed == IF s \in w.foreign THEN None ELSE z.asked[s]
             u == WithAsked(z, s, owed)
  <2>1. Fetch(w, s) = Done(u)
    BY <1>6 DEF Fetch, WithAsked
  <2>2. v \in Vectors(s)
    <3>1. w.pin[rd.pin] \in Storage(rd.pin)
      BY <1>1, <1>6 DEF WorldOK
    <3> QED BY <1>1, <1>2, <1>6, <3>1, FetchedIs
  <2> HIDE DEF v
  <2>3. WorldOK(z) /\ z.told = w.told /\ z.within = w.within
    BY <2>2, SetLocalOK
  <2>4. z.sig = SetLocal(w, s, v).sig
    OBVIOUS
  <2> HIDE DEF z
  <2>5. owed \in Vectors(s) \cup {None}
    BY <2>3 DEF WorldOK
  <2> HIDE DEF owed
  <2>6. WorldOK(u) /\ u.sig = z.sig /\ u.told = z.told /\ u.within = z.within
    BY <2>3, <2>5, AskedChange
  <2> HIDE DEF u
  <2> QED BY <1>3, <2>1, <2>2, <2>3, <2>4, <2>6
<1>7. CASE rd.from = "const"
  BY <1>1, <1>4, <1>7 DEF Fetch
<1>8. CASE rd.from = "expr"
  <2> DEFINE v == Aval(w.sig[rd.of].local)
  <2>1. v \in Vectors(s)
    BY <1>1, <1>2, <1>8, AvalIs
  <2>2. Fetch(w, s) = Done(SetLocal(w, s, v))
    BY <1>8 DEF Fetch
  <2> HIDE DEF v
  <2> QED BY <1>4, <2>1, <2>2
<1>9. CASE rd.from = "view"
  <2> DEFINE v == Slice(w.sig[rd.of].local, rd.at, Width(s))
  <2>1. v \in Vectors(s)
    BY <1>1, <1>2, <1>9, SliceIs
  <2>2. Fetch(w, s) = Done(SetLocal(w, s, v))
    BY <1>9 DEF Fetch
  <2> HIDE DEF v
  <2> QED BY <1>4, <2>1, <2>2
<1> QED BY <1>1, <1>5, <1>6, <1>7, <1>8, <1>9

(* The calls a read of s is made of.                                       *)
ReadsOf(s, a) ==
  /\ a \in Seq(AnyCall) /\ Typed(a)
  /\ \A i \in DOMAIN a : /\ a[i].fc \in {"UpdateRead", "Fetch", "UpdateShadow"}
                         /\ a[i].fc = "Fetch" => a[i].on = s

LEMMA ReadsJoin ==
  ASSUME NEW s \in Signals, NEW a, NEW b, ReadsOf(s, a), ReadsOf(s, b)
  PROVE  ReadsOf(s, a \o b)
<1> DEFINE q == a \o b
<1>1. a \in Seq(AnyCall) /\ b \in Seq(AnyCall)
  BY DEF ReadsOf
<1>2. /\ q \in Seq(AnyCall)
      /\ \A i \in DOMAIN q : \/ i \in DOMAIN a /\ q[i] = a[i]
                             \/ i > Len(a) /\ i - Len(a) \in DOMAIN b /\ q[i] = b[i - Len(a)]
  BY <1>1, Concat
<1> HIDE DEF q
<1>3. ReadsOf(s, q)
  BY <1>2 DEF ReadsOf, Typed
<1> QED BY <1>3 DEF q

LEMMA ReadsSimple ==
  ASSUME NEW s \in Signals
  PROVE  /\ ReadsOf(s, <<>>) /\ ReadsOf(s, <<Do("Fetch", s)>>)
         /\ \A t \in Signals : ReadsOf(s, <<Do("UpdateRead", t)>>) /\ ReadsOf(s, <<Do("UpdateShadow", t)>>)
<1>1. ReadsOf(s, <<>>)
  BY DEF ReadsOf, Typed
<1>2. ASSUME NEW c \in AnyCall, CallOK(c), c.fc \in {"UpdateRead", "Fetch", "UpdateShadow"}, c.fc = "Fetch" => c.on = s
      PROVE  ReadsOf(s, <<c>>)
  <2> DEFINE one == <<c>>
  <2>1. one \in Seq(AnyCall) /\ DOMAIN one = {1} /\ one[1] = c
    BY LiteralSeq
  <2> HIDE DEF one
  <2>2. ReadsOf(s, one)
    BY <1>2, <2>1 DEF ReadsOf, Typed
  <2> QED BY <2>2 DEF one
<1>3. ReadsOf(s, <<Do("Fetch", s)>>)
  BY <1>2, CallTypes DEF Plain, Is
<1>4. ASSUME NEW t \in Signals
      PROVE  ReadsOf(s, <<Do("UpdateRead", t)>>) /\ ReadsOf(s, <<Do("UpdateShadow", t)>>)
  BY <1>2, CallTypes DEF Plain, Is
<1> QED BY <1>1, <1>3, <1>4

LEMMA LoadReads ==
  ASSUME NEW w, WorldOK(w), NEW s \in Signals
  PROVE  ReadsOf(s, Load(w, s)) /\ ReadsOf(s, DpiRead(w, s))
<1> DEFINE rd == w.sig[s].rd
           a == IF rd.from \in {"expr", "view"} THEN <<Do("UpdateRead", rd.of)>> ELSE <<>>
           b == <<Do("Fetch", s)>>
           c == IF rd.from = "view" /\ mWidth[s] > 0 THEN <<Do("UpdateShadow", s)>> ELSE <<>>
<1>1. rd.from \in {"expr", "view"} => rd.of \in Signals
  <2>1. rd \in Readers(s)
    BY DEF WorldOK, SignalType
  <2> HIDE DEF rd
  <2> QED BY <2>1, ReaderFacts
<1>2. ReadsOf(s, a) /\ ReadsOf(s, b) /\ ReadsOf(s, c)
  BY <1>1, ReadsSimple
<1>3. Load(w, s) = a \o b \o c
  BY DEF Load
<1> HIDE DEF a, b, c
<1>4. ReadsOf(s, a \o b)
  BY <1>2, ReadsJoin
<1>5. ReadsOf(s, Load(w, s))
  BY <1>2, <1>3, <1>4, ReadsJoin
<1>6. DpiRead(w, s) = <<>> \/ DpiRead(w, s) = Load(w, s)
  BY DEF DpiRead
<1> QED BY <1>5, <1>6, ReadsSimple

LEMMA ReadSound ==
  ASSUME NEW w, WorldOK(w), NEW rest, Pending(w, rest), NEW s \in Signals, Idle(w), NEW a, ReadsOf(s, a)
  PROVE  Sound(Then(w, a \o <<Do("UpdateShadow", s)>>), rest)
<1> DEFINE end == <<Do("UpdateShadow", s)>>
           new == a \o end
<1>1. a \in Seq(AnyCall) /\ end \in Seq(AnyCall) /\ DOMAIN end = {1} /\ Is(end[1], "UpdateShadow", s) /\ Len(end) = 1
  BY CallTypes, LiteralSeq DEF Plain, ReadsOf
<1>2. ReadsOf(s, new)
  BY ReadsJoin, ReadsSimple
<1> HIDE DEF end
<1>3. /\ DOMAIN new = 1 .. Len(new) /\ Len(new) = Len(a) + Len(end) /\ Len(a) \in Nat
      /\ \A i \in DOMAIN end : i + Len(a) \in DOMAIN new /\ new[i + Len(a)] = end[i]
      /\ DOMAIN a = 1 .. Len(a) /\ \A i \in DOMAIN a : new[i] = a[i]
  BY <1>1, Concat
<1> HIDE DEF new
<1>4. Announced(new)
  <2> SUFFICES ASSUME NEW i \in DOMAIN new, new[i].fc = "Fetch"
               PROVE  Later(new, i, "UpdateShadow", new[i].on)
    BY DEF Announced
  <2> DEFINE m == Len(a) + 1
  <2>1. m \in DOMAIN new /\ Is(new[m], "UpdateShadow", s)
    BY <1>1, <1>3
  <2>2. i # m /\ i <= m
    BY <1>1, <1>3, <2>1 DEF Is
  <2>3. new[i].on = s
    BY <1>2 DEF ReadsOf
  <2> QED BY <1>3, <2>1, <2>2, <2>3 DEF Later
<1>5. Kept(w, w)
  BY DEF Kept, Alike
<1>6. Pending(w, new \o rest)
  BY <1>2, <1>4, <1>5, Push DEF ReadsOf, Idle
<1>7. Then(w, new).world = w /\ Then(w, new).todo = new
  BY DEF Then
<1>8. Sound(Then(w, new), rest)
  BY <1>2, <1>6, <1>7 DEF Sound, ReadsOf
<1> QED BY <1>8 DEF new, end

LEMMA UpdateReadStep ==
  ASSUME NEW w, WorldOK(w), NEW rest, Pending(w, rest), NEW s \in Signals, Idle(w)
  PROVE  Sound(UpdateRead(w, s), rest)
BY LoadReads, ReadSound DEF UpdateRead

LEMMA ReadFreshStep ==
  ASSUME NEW w, WorldOK(w), NEW rest, Pending(w, rest), NEW s \in Signals, Idle(w), NEW m
  PROVE  Sound(ReadFresh(w, s, m), rest)
<1> DEFINE skip == w.sig[s].io # "Output" /\ w.sig[s].mode # m /\ m # "Imme"
<1>1. CASE skip
  BY <1>1, DoneSound DEF ReadFresh, Done
<1>2. CASE ~skip
  <2>1. ReadFresh(w, s, m) = Then(w, Load(w, s) \o <<Do("UpdateShadow", s)>>)
    BY <1>2 DEF ReadFresh
  <2> QED BY <2>1, LoadReads, ReadSound
<1> QED BY <1>1, <1>2
-----------------------------------------------------------------------------
(* Changes of direction, mode, filter and backend: no value is touched.    *)
LEMMA SettleIs ==
  ASSUME NEW w, WorldOK(w), NEW s \in Signals
  PROVE  LET u == Settle(w, s) IN
         /\ WorldOK(u) /\ u.sig = w.sig /\ u.pin = w.pin /\ u.foreign = w.foreign /\ u.late = w.late /\ u.within = w.within
         /\ u.told = w.told /\ u.asked[s] = None /\ \A t \in Signals \ {s} : u.asked[t] = w.asked[t]
<1>1. Settle(w, s) = WithAsked(w, s, None)
  BY DEF Settle, WithAsked
<1> QED BY <1>1, AskedChange

LEMMA SettleStep ==
  ASSUME NEW w, WorldOK(w), NEW rest, Pending(w, rest), NEW s \in Signals
  PROVE  LET u == Settle(w, s) IN
         /\ WorldOK(u) /\ Pending(u, rest) /\ u.sig = w.sig /\ u.pin = w.pin
         /\ u.told = w.told /\ u.foreign = w.foreign /\ u.within = w.within
<1> DEFINE u == Settle(w, s)
<1>1. u = WithAsked(w, s, None)
  BY DEF Settle, WithAsked
<1>2. WorldOK(u) /\ u.sig = w.sig /\ u.pin = w.pin /\ u.told = w.told /\ u.foreign = w.foreign /\ u.within = w.within
  BY <1>1, AskedChange
<1> HIDE DEF u
<1>3. Pending(u, rest)
  BY <1>2, Quiet DEF Kept, Alike
<1> QED BY <1>2, <1>3 DEF u

LEMMA WaiveStep ==
  ASSUME NEW w, WorldOK(w), NEW rest, Pending(w, rest), NEW s \in Signals
  PROVE  LET u == Waive(w, s) IN
         /\ WorldOK(u) /\ Pending(u, rest) /\ u.sig = w.sig /\ u.pin = w.pin
         /\ u.told = w.told /\ u.foreign = w.foreign
BY SettleStep DEF Waive

LEMMA FieldStep ==
  ASSUME NEW w, WorldOK(w), NEW rest, Pending(w, rest), NEW s \in Signals, NEW x \in SignalType(s),
         x.wr.from \notin {"const", "expr"}, x.local = w.sig[s].local, x.shadow = w.sig[s].shadow,
         x.busy = w.sig[s].busy, x.cbs = w.sig[s].cbs
  PROVE  LET u == WithSig(w, s, x) IN
         /\ WorldOK(u) /\ Pending(u, rest) /\ u.sig[s] = x /\ \A t \in Signals \ {s} : u.sig[t] = w.sig[t]
<1> DEFINE u == WithSig(w, s, x)
<1>1. WorldOK(u) /\ u.sig[s] = x /\ (\A t \in Signals \ {s} : u.sig[t] = w.sig[t]) /\ u.told = w.told /\ u.within = w.within
  BY SignalChange
<1> HIDE DEF u
<1>2. Kept(w, u)
  BY <1>1 DEF Kept, Alike
<1>3. Pending(u, rest)
  BY <1>2, Quiet
<1> QED BY <1>1, <1>3 DEF u

LEMMA SetModeStep ==
  ASSUME NEW w, WorldOK(w), NEW rest, Pending(w, rest), NEW s \in Signals, NEW m \in Modes
  PROVE  WorldOK(SetMode(w, s, m)) /\ Pending(SetMode(w, s, m), rest)
<1> DEFINE x == [w.sig[s] EXCEPT !.mode = m]
<1>1. w.sig[s] \in SignalType(s) /\ w.sig[s].wr.from \notin {"const", "expr"}
  BY DEF WorldOK
<1>2. /\ x \in SignalType(s) /\ x.wr.from \notin {"const", "expr"} /\ x.local = w.sig[s].local
      /\ x.shadow = w.sig[s].shadow /\ x.busy = w.sig[s].busy /\ x.cbs = w.sig[s].cbs
  BY <1>1 DEF SignalType
<1>3. SetMode(w, s, m) = WithSig(w, s, x)
  BY DEF SetMode, WithSig, WorldOK
<1> HIDE DEF x
<1> QED BY <1>2, <1>3, FieldStep

LEMMA SetWriteModeStep ==
  ASSUME NEW w, WorldOK(w), NEW rest, Pending(w, rest), NEW s \in Signals, NEW m \in Modes
  PROVE  WorldOK(SetWriteMode(w, s, m)) /\ Pending(SetWriteMode(w, s, m), rest)
<1>1. WorldOK(Waive(w, s)) /\ Pending(Waive(w, s), rest)
  BY WaiveStep
<1> QED BY <1>1, SetModeStep DEF SetWriteMode

LEMMA SetIOStep ==
  ASSUME NEW w, WorldOK(w), NEW rest, Pending(w, rest), NEW s \in Signals, NEW io \in Directions
  PROVE  WorldOK(SetIO(w, s, io)) /\ Pending(SetIO(w, s, io), rest)
<1> DEFINE z == Waive(w, s)
           x == [z.sig[s] EXCEPT !.io = io]
<1>1. WorldOK(z) /\ Pending(z, rest)
  BY WaiveStep
<1>2. SetIO(w, s, io) = [z EXCEPT !.sig[s].io = io]
  BY DEF SetIO
<1> HIDE DEF z
<1>3. z.sig[s] \in SignalType(s) /\ z.sig[s].wr.from \notin {"const", "expr"}
  BY <1>1 DEF WorldOK
<1>4. /\ x \in SignalType(s) /\ x.wr.from \notin {"const", "expr"} /\ x.local = z.sig[s].local
      /\ x.shadow = z.sig[s].shadow /\ x.busy = z.sig[s].busy /\ x.cbs = z.sig[s].cbs
  BY <1>3 DEF SignalType
<1>5. SetIO(w, s, io) = WithSig(z, s, x)
  BY <1>1, <1>2 DEF WithSig, WorldOK
<1> HIDE DEF x
<1> QED BY <1>1, <1>4, <1>5, FieldStep

LEMMA FlipStep ==
  ASSUME NEW w, WorldOK(w), NEW rest, Pending(w, rest), NEW s \in Signals
  PROVE  WorldOK(FlipIOType(w, s)) /\ Pending(FlipIOType(w, s), rest)
<1> DEFINE io == CASE w.sig[s].io = "Input"  -> "Output"
                   [] w.sig[s].io = "Output" -> "Input"
                   [] OTHER -> "InOut"
<1>1. io \in Directions
  BY DEF Directions
<1>2. FlipIOType(w, s) = SetIO(w, s, io)
  BY DEF FlipIOType
<1> HIDE DEF io
<1> QED BY <1>1, <1>2, SetIOStep
-----------------------------------------------------------------------------
(* Observers and links.                                                    *)
LEMMA CallsSound ==
  ASSUME NEW w, WorldOK(w), NEW rest, Pending(w, rest), Idle(w), NEW x \in Signals,
         NEW new \in Seq(AnyCall), Typed(new),
         \A i \in DOMAIN new : new[i].fc \notin {"Release", "CallBack", "Fetch"}
  PROVE  Sound(Then(w, new), rest)
<1>1. Kept(w, w)
  BY DEF Kept, Alike
<1>2. Announced(new)
  BY DEF Announced
<1>3. Pending(w, new \o rest)
  BY <1>1, <1>2, Push DEF Idle
<1>4. Then(w, new).world = w /\ Then(w, new).todo = new
  BY DEF Then
<1> QED BY <1>3, <1>4 DEF Sound

LEMMA OnChangeStep ==
  ASSUME NEW w, WorldOK(w), NEW rest, Pending(w, rest), Idle(w), NEW s \in Signals, NEW cb \in Listeners(s)
  PROVE  Sound(OnChange(w, s, cb), rest)
<1> DEFINE a == Do("UpdateRead", s)
           b == DoWith("Listen", s, cb)
           read == IF w.sig[s].cbs = <<>> THEN <<a>> ELSE <<>>
           add == <<b>>
           new == read \o add
<1>1. a \in AnyCall /\ CallOK(a) /\ Is(a, "UpdateRead", s) /\ b \in AnyCall /\ CallOK(b) /\ Is(b, "Listen", s)
  BY CallTypes DEF Plain
<1>2. OnChange(w, s, cb) = Then(w, new)
  BY DEF OnChange
<1> HIDE DEF a, b
<1>3. read \in Seq(AnyCall) /\ \A i \in DOMAIN read : read[i] = a
  BY <1>1, LiteralSeq
<1>4. add \in Seq(AnyCall) /\ \A i \in DOMAIN add : add[i] = b
  BY <1>1, LiteralSeq
<1> HIDE DEF read, add
<1>5. new \in Seq(AnyCall) /\ \A i \in DOMAIN new : new[i] \in {a, b}
  BY <1>3, <1>4, Concat
<1> HIDE DEF new
<1>6. Typed(new) /\ \A i \in DOMAIN new : new[i].fc \notin {"Release", "CallBack", "Fetch"}
  BY <1>1, <1>5 DEF Typed, Is
<1> QED BY <1>2, <1>5, <1>6, CallsSound

(* The first observer's shadow is the value just read; a later one joins   *)
(* in knowing what the others were told.                                   *)
LEMMA ListenStep ==
  ASSUME NEW w, WorldOK(w), NEW rest, Pending(w, rest), Idle(w), NEW s \in Signals, NEW cb \in Listeners(s)
  PROVE  Sound(Listen(w, s, cb), rest)
<1> DEFINE now    == w.sig[s]
           shadow == IF now.cbs = <<>> THEN now.local ELSE now.shadow
           x      == [now EXCEPT !.cbs = Append(now.cbs, cb), !.shadow = shadow]
           y      == WithSig(w, s, x)
           heard  == IF shadow = now.local THEN shadow ELSE None
           u      == IF cb = "user" THEN WithTold(y, s, heard) ELSE y
<1>1. now \in SignalType(s) /\ now.wr.from \notin {"const", "expr"}
  BY DEF WorldOK
<1>2. now.cbs \in Seq(Listeners(s)) /\ now.local \in Vectors(s) /\ now.shadow \in Vectors(s)
  BY <1>1 DEF SignalType
<1>3. Listen(w, s, cb) = Done(u)
  BY <1>1 DEF Listen, WithSig, WithTold, WorldOK, SignalType
<1>4. Append(now.cbs, cb) \in Seq(Listeners(s)) /\ shadow \in Vectors(s) /\ heard \in Vectors(s) \cup {None}
  BY <1>2
<1>5. /\ DOMAIN Append(now.cbs, cb) = 1 .. Len(now.cbs) + 1 /\ DOMAIN now.cbs = 1 .. Len(now.cbs)
      /\ Len(now.cbs) \in Nat /\ \A i \in DOMAIN now.cbs : Append(now.cbs, cb)[i] = now.cbs[i]
      /\ Append(now.cbs, cb)[Len(now.cbs) + 1] = cb
  BY <1>2, AppendProperties, LenProperties
<1>6. /\ x \in SignalType(s) /\ x.wr.from \notin {"const", "expr"} /\ x.local = now.local /\ x.shadow = shadow
      /\ x.busy = now.busy /\ x.cbs = Append(now.cbs, cb)
  BY <1>1, <1>4 DEF SignalType
<1>7. WorldOK(y) /\ y.sig[s] = x /\ (\A t \in Signals \ {s} : y.sig[t] = w.sig[t]) /\ y.told = w.told /\ y.within = w.within
  <2> HIDE DEF x
  <2> QED BY <1>6, SignalChange
<1>8. /\ WorldOK(u) /\ u.sig = y.sig /\ u.within = y.within
      /\ \A t \in Signals : IF t = s /\ cb = "user" THEN u.told[t] = heard ELSE u.told[t] = w.told[t]
  <2> HIDE DEF y, heard
  <2> QED BY <1>4, <1>7, ToldChange
<1> HIDE DEF u, y, x, heard
<1>9. \A t \in Signals : u.sig[t].busy = w.sig[t].busy /\ u.sig[t].local = w.sig[t].local /\ ~Locked(u, t)
  BY <1>6, <1>7, <1>8 DEF Idle, Locked
<1>10. /\ rest \in Seq(AnyCall) /\ Typed(rest) /\ ReleasedOnce(rest) /\ CalledInside(rest) /\ Announced(rest)
       /\ \A t \in Signals : w.sig[t].busy <=> Awaits(rest, "Release", t)
  BY DEF Pending, BusyReleased
<1>11. BusyReleased(u, rest) /\ ShadowAgrees(u)
  BY <1>9, <1>10 DEF BusyReleased, ShadowAgrees
<1>12. Nested(u, rest)
  <2> SUFFICES ASSUME NEW i \in DOMAIN rest, rest[i].fc = "Release", rest[i].on \notin u.within
               PROVE  FALSE
    BY DEF Nested
  <2>1. rest[i].on \in Signals
    BY <1>10 DEF Typed, CallOK, AnyCall
  <2> QED BY <1>9, <1>10, <2>1 DEF Awaits, Is, Locked
<1>13. Informed(u, rest)
  <2> SUFFICES ASSUME NEW t \in Signals, Watched(u, t), ~u.sig[t].busy
               PROVE  /\ u.told[t] \in {None, u.sig[t].shadow}
                      /\ Knows(u, t) \/ Awaits(rest, "UpdateShadow", t)
    BY <1>9 DEF Informed
  <2>1. CASE t = s /\ cb = "user"
    BY <1>6, <1>7, <1>8, <2>1 DEF Knows, heard
  <2>2. CASE t = s /\ cb # "user"
    <3>1. PICK i \in DOMAIN Append(now.cbs, cb) : Append(now.cbs, cb)[i] = "user"
      BY <1>6, <1>7, <1>8, <2>2 DEF Watched
    <3>2. i \in DOMAIN now.cbs /\ now.cbs[i] = "user"
      BY <1>5, <2>2, <3>1
    <3>3. Watched(w, s) /\ now.cbs # <<>>
      BY <3>2 DEF Watched
    <3>4. w.told[s] \in {None, now.shadow} /\ (Knows(w, s) \/ Awaits(rest, "UpdateShadow", s))
      BY <1>9, <2>2, <3>3 DEF Pending, Informed
    <3> QED BY <1>6, <1>7, <1>8, <2>2, <3>3, <3>4 DEF Knows
  <2>3. CASE t # s
    <3>1. Watched(w, t)
      BY <1>7, <1>8, <2>3 DEF Watched
    <3>2. w.told[t] \in {None, w.sig[t].shadow} /\ (Knows(w, t) \/ Awaits(rest, "UpdateShadow", t))
      BY <1>9, <3>1 DEF Pending, Informed
    <3> QED BY <1>7, <1>8, <2>3, <3>2 DEF Knows
  <2> QED BY <2>1, <2>2, <2>3
<1>14. Pending(u, rest)
  BY <1>10, <1>11, <1>12, <1>13 DEF Pending
<1> QED BY <1>3, <1>8, <1>14, DoneSound

LEMMA ConnectStep ==
  ASSUME NEW w, WorldOK(w), NEW rest, Pending(w, rest), Idle(w),
         NEW s \in Signals, NEW t \in Signals, mWidth[t] = mWidth[s]
  PROVE  Sound(Connect(w, s, t), rest)
<1>1. ASSUME NEW a \in Signals, NEW b \in Signals, mWidth[a] = mWidth[b]
      PROVE  Sound(Link(w, a, b), rest)
  <2> DEFINE c1 == Do("UpdateRead", a)
             c2 == DoWith("Copy", b, a)
             c3 == DoWith("OnChange", a, b)
             new == <<c1, c2, c3>>
  <2>1. /\ c1 \in AnyCall /\ CallOK(c1) /\ Is(c1, "UpdateRead", a)
        /\ c2 \in AnyCall /\ CallOK(c2) /\ Is(c2, "Copy", b)
        /\ c3 \in AnyCall /\ CallOK(c3) /\ Is(c3, "OnChange", a)
    <3>1. b \in Listeners(a)
      BY <1>1 DEF Listeners
    <3> QED BY <1>1, <3>1, CallTypes DEF Plain
  <2>2. Link(w, a, b) = Then(w, new)
    BY DEF Link
  <2> HIDE DEF c1, c2, c3
  <2>3. new \in Seq(AnyCall) /\ DOMAIN new = {1, 2, 3} /\ new[1] = c1 /\ new[2] = c2 /\ new[3] = c3
    BY <2>1
  <2> HIDE DEF new
  <2>4. Typed(new) /\ \A i \in DOMAIN new : new[i].fc \notin {"Release", "CallBack", "Fetch"}
    BY <2>1, <2>3 DEF Typed, Is
  <2> QED BY <2>2, <2>3, <2>4, CallsSound
<1> QED BY <1>1, DoneSound DEF Connect
-----------------------------------------------------------------------------
(* One call of any kind.                                                   *)
LEMMA AssignStep ==
  ASSUME NEW w, WorldOK(w), NEW rest, Pending(w, rest), Idle(w), NEW s \in Signals, NEW v \in Vectors(s)
  PROVE  Sound(StoreValue(w, s, v), rest)
BY StoreStep DEF Idle

LEMMA Performs ==
  ASSUME NEW w, NEW c
  PROVE  /\ c.fc = "UpdateRead"   => Perform(w, c) = UpdateRead(w, c.on)
         /\ c.fc = "Fetch"        => Perform(w, c) = Fetch(w, c.on)
         /\ c.fc = "Observe"      => Perform(w, c) = IF w.sig[c.on].cbs = <<>> THEN Done(w) ELSE ReadFresh(w, c.on, c.arg)
         /\ c.fc = "Flush"        => Perform(w, c) = FlushIn(w, c.on, c.arg)
         /\ c.fc = "UpdateShadow" => Perform(w, c) = UpdateShadow(w, c.on)
         /\ c.fc = "CallBack"     => Perform(w, c) = CallBack(w, c.on, c.arg.valid, c.arg.cb)
         /\ c.fc = "Release"      => Perform(w, c) = Release(w, c.on)
         /\ c.fc = "Assign"       => Perform(w, c) = IF CheckWriteable(w, c.on) THEN StoreValue(w, c.on, c.arg)
                                                     ELSE Done(w)
         /\ c.fc = "Copy"         => Perform(w, c) = Copy(w, c.on, c.arg)
         /\ c.fc = "SetBit"       => Perform(w, c) = SetBit(w, c.on, c.arg.at, c.arg.to)
         /\ c.fc = "SetMode"      => Perform(w, c) = Done(SetMode(w, c.on, c.arg))
         /\ c.fc = "OnChange"     => Perform(w, c) = OnChange(w, c.on, c.arg)
         /\ c.fc = "Listen"       => Perform(w, c) = Listen(w, c.on, c.arg)
         /\ c.fc = "Connect"      => Perform(w, c) = Connect(w, c.on, c.arg)
         /\ c.fc = "FlipIOType"   => Perform(w, c) = Done(FlipIOType(w, c.on))
         /\ c.fc = "AsBiIO"       => Perform(w, c) = Done(SetIO(w, c.on, "InOut"))
         /\ c.fc = "AsWrite"      => Perform(w, c) = Done(IF w.sig[c.on].io = "Output" THEN w
                                                          ELSE SetWriteMode(w, c.on, c.arg))
         /\ c.fc = "SetZero"      => Perform(w, c) = IF w.sig[c.on].io = "Output" THEN Done(w)
                                                     ELSE AssignInt(w, c.on, 0)
BY DEF Perform

LEMMA PerformStep ==
  ASSUME NEW w, WorldOK(w), NEW q, Pending(w, q), q # <<>>
  PROVE  Sound(Perform(w, Head(q)), Tail(q))
<1> DEFINE c    == Head(q)
           rest == Tail(q)
           s    == c.on
<1>1. CallOK(c) /\ rest \in Seq(AnyCall) /\ s \in Signals
  <2>1. CallOK(c) /\ rest \in Seq(AnyCall)
    BY Pop, Zenon
  <2> QED BY <2>1 DEF CallOK, AnyCall
<1>2. ASSUME c.fc \notin {"UpdateShadow", "Release"}, c.fc = "CallBack" => c.arg.cb # "user"
      PROVE  /\ Pending(w, rest) /\ Inside(w, s)
             /\ c.fc \notin Inward => Idle(w)
             /\ c.fc = "Fetch" => Awaits(rest, "UpdateShadow", s)
  <2> HIDE DEF c, rest
  <2>1. c = Head(q) /\ rest = Tail(q)
    BY DEF c, rest
  <2> QED BY <1>2, <2>1, PopPlain, Zenon
<1>3. \A r : Sound(r, rest) => Sound(r, Tail(q))
  OBVIOUS
<1>4. CASE c.fc = "UpdateShadow"
  <2>1. Perform(w, c) = UpdateShadow(w, c.on)
    BY <1>4, Performs
  <2>2. Sound(UpdateShadow(w, c.on), rest)
    BY <1>4, AnnounceStep, Zenon
  <2> QED BY <2>1, <2>2
<1>5. CASE c.fc = "Release"
  <2>1. Perform(w, c) = Release(w, c.on)
    BY <1>5, Performs
  <2>2. Sound(Release(w, c.on), rest)
    BY <1>5, ReleaseStep, Zenon
  <2> QED BY <2>1, <2>2
<1>6. CASE c.fc = "CallBack" /\ c.arg.cb = "user"
  <2>1. Perform(w, c) = CallBack(w, c.on, c.arg.valid, "user")
    BY <1>6, Performs
  <2>2. Sound(CallBack(w, c.on, c.arg.valid, "user"), rest)
    BY <1>6, HeardStep, Zenon
  <2> QED BY <2>1, <2>2
<1>7. CASE c.fc = "CallBack" /\ c.arg.cb # "user"
  <2>1. c.arg.cb \in Listeners(s)
    BY <1>1, <1>7 DEF CallOK, Plain
  <2>2. Pending(w, rest) /\ Inside(w, s)
    BY <1>2, <1>7
  <2>3. Perform(w, c) = CallBack(w, s, c.arg.valid, c.arg.cb)
    BY <1>7, Performs
  <2> HIDE DEF c, rest, s
  <2>4. Sound(Perform(w, c), rest)
    BY <1>1, <1>7, <2>1, <2>2, <2>3, LinkStep
  <2> QED BY <2>4 DEF c, rest
<1>8. CASE c.fc = "Flush"
  <2>1. Pending(w, rest) /\ Inside(w, s)
    BY <1>2, <1>8
  <2> QED BY <1>1, <1>8, <2>1, FlushInStep, Performs
<1>9. CASE c.fc \notin {"UpdateShadow", "Release", "CallBack", "Flush"}
  <2>1. Pending(w, rest) /\ Idle(w) /\ (c.fc = "Fetch" => Awaits(rest, "UpdateShadow", s))
    BY <1>2, <1>9 DEF Inward
  <2>2. \A t \in Signals : w.sig[t].local \in Vectors(t)
    BY DEF WorldOK, SignalType
  <2> HIDE DEF rest, s, c
  <2>3. ASSUME c.fc = "UpdateRead" PROVE Sound(Perform(w, c), rest)
    <3>1. Perform(w, c) = UpdateRead(w, s)
      BY <2>3, Performs DEF s
    <3> QED BY <1>1, <2>1, <3>1, UpdateReadStep
  <2>4. ASSUME c.fc = "Fetch" PROVE Sound(Perform(w, c), rest)
    <3>1. Perform(w, c) = Fetch(w, s)
      BY <2>4, Performs DEF s
    <3> QED BY <1>1, <2>1, <2>4, <3>1, FetchStep
  <2>5. ASSUME c.fc = "Observe" PROVE Sound(Perform(w, c), rest)
    <3>1. Perform(w, c) = Done(w) \/ Perform(w, c) = ReadFresh(w, s, c.arg)
      BY <2>5, Performs DEF s
    <3> QED BY <1>1, <2>1, <3>1, ReadFreshStep, DoneSound
  <2>6. ASSUME c.fc = "Copy" PROVE Sound(Perform(w, c), rest)
    <3>1. Perform(w, c) = StoreValue(w, s, w.sig[c.arg].local)
      BY <2>6, Performs DEF s, Copy
    <3>2. c.arg \in Signals /\ mWidth[c.arg] = mWidth[s]
      BY <1>1, <2>6 DEF CallOK, Plain, s
    <3>3. w.sig[c.arg].local \in Vectors(s)
      BY <2>2, <3>2 DEF Vectors, Bits, Width
    <3> QED BY <1>1, <2>1, <3>1, <3>3, AssignStep
  <2>7. ASSUME c.fc = "SetBit" PROVE Sound(Perform(w, c), rest)
    <3> DEFINE v == [w.sig[s].local EXCEPT ![c.arg.at] = c.arg.to]
    <3>1. Perform(w, c) = StoreValue(w, s, v)
      BY <2>7, Performs DEF s, SetBit
    <3>2. c.arg.at \in Bits(s) /\ c.arg.to \in 0 .. 3
      BY <1>1, <2>7 DEF CallOK, Plain, s
    <3>3. v \in Vectors(s)
      BY <1>1, <2>2, <3>2 DEF Vectors
    <3> HIDE DEF v
    <3> QED BY <1>1, <2>1, <3>1, <3>3, AssignStep
  <2>8. ASSUME c.fc = "SetMode" PROVE Sound(Perform(w, c), rest)
    <3>1. Perform(w, c) = Done(SetMode(w, s, c.arg)) /\ c.arg \in Modes
      BY <1>1, <2>8, Performs DEF CallOK, Plain, s
    <3> QED BY <1>1, <2>1, <3>1, SetModeStep, DoneSound
  <2>9. ASSUME c.fc = "OnChange" PROVE Sound(Perform(w, c), rest)
    <3>1. Perform(w, c) = OnChange(w, s, c.arg) /\ c.arg \in Listeners(s)
      BY <1>1, <2>9, Performs DEF CallOK, Plain, s
    <3> QED BY <1>1, <2>1, <3>1, OnChangeStep
  <2>10. ASSUME c.fc = "Listen" PROVE Sound(Perform(w, c), rest)
    <3>1. Perform(w, c) = Listen(w, s, c.arg) /\ c.arg \in Listeners(s)
      BY <1>1, <2>10, Performs DEF CallOK, Plain, s
    <3> QED BY <1>1, <2>1, <3>1, ListenStep
  <2>11. ASSUME c.fc = "Connect" PROVE Sound(Perform(w, c), rest)
    <3>1. Perform(w, c) = Connect(w, s, c.arg) /\ c.arg \in Signals /\ mWidth[c.arg] = mWidth[s]
      BY <1>1, <2>11, Performs DEF CallOK, Plain, s
    <3> QED BY <1>1, <2>1, <3>1, ConnectStep
  <2>12. ASSUME c.fc = "FlipIOType" PROVE Sound(Perform(w, c), rest)
    <3>1. Perform(w, c) = Done(FlipIOType(w, s))
      BY <2>12, Performs DEF s
    <3> QED BY <1>1, <2>1, <3>1, FlipStep, DoneSound
  <2>13. ASSUME c.fc = "AsBiIO" PROVE Sound(Perform(w, c), rest)
    <3>1. Perform(w, c) = Done(SetIO(w, s, "InOut")) /\ "InOut" \in Directions
      BY <2>13, Performs DEF s, Directions
    <3> QED BY <1>1, <2>1, <3>1, SetIOStep, DoneSound
  <2>14. ASSUME c.fc = "AsWrite" PROVE Sound(Perform(w, c), rest)
    <3>1. Perform(w, c) = Done(w) \/ Perform(w, c) = Done(SetWriteMode(w, s, c.arg))
      BY <2>14, Performs DEF s
    <3>2. c.arg \in Modes
      BY <1>1, <2>14 DEF CallOK, Plain
    <3> QED BY <1>1, <2>1, <3>1, <3>2, SetWriteModeStep, DoneSound
  <2>15. ASSUME c.fc = "SetZero" PROVE Sound(Perform(w, c), rest)
    <3>1. Perform(w, c) = Done(w) \/ Perform(w, c) = StoreValue(w, s, Number(s, 0))
      BY <2>15, Performs DEF s, AssignInt
    <3>2. Number(s, 0) \in Vectors(s)
      BY <1>1, NumberIs
    <3> QED BY <1>1, <2>1, <3>1, <3>2, AssignStep, DoneSound
  <2>16. ASSUME c.fc = "Assign" PROVE Sound(Perform(w, c), rest)
    <3>1. Perform(w, c) = Done(w) \/ Perform(w, c) = StoreValue(w, s, c.arg)
      BY <2>16, Performs DEF s
    <3>2. c.arg \in Vectors(s)
      BY <1>1, <2>16 DEF CallOK, Plain, s
    <3> QED BY <1>1, <2>1, <3>1, <3>2, AssignStep, DoneSound
  <2>17. Sound(Perform(w, c), rest)
    <3>1. c.fc \in {"UpdateRead", "Fetch", "FlipIOType", "AsBiIO", "SetZero", "Observe", "SetMode", "AsWrite",
                   "Copy", "Connect", "OnChange", "Listen", "SetBit", "Assign"}
      BY <1>1, <1>9 DEF CallOK, Plain
    <3> QED BY <2>3, <2>4, <2>5, <2>6, <2>7, <2>8, <2>9, <2>10, <2>11, <2>12, <2>13, <2>14, <2>15, <2>16, <3>1
  <2> QED BY <2>17 DEF c, rest
<1> QED BY <1>4, <1>5, <1>6, <1>7, <1>8, <1>9

LEMMA AdvanceStep ==
  ASSUME NEW m, WorldOK(m.world), Pending(m.world, m.todo)
  PROVE  WorldOK(Advance(m).world) /\ Pending(Advance(m).world, Advance(m).todo)
<1>1. CASE m.todo = <<>>
  BY <1>1 DEF Advance
<1>2. CASE m.todo # <<>>
  <2> DEFINE r == Perform(m.world, Head(m.todo))
  <2>1. Sound(r, Tail(m.todo))
    BY <1>2, PerformStep
  <2>2. Advance(m) = [world |-> r.world, todo |-> r.todo \o Tail(m.todo)]
    BY <1>2 DEF Advance, Follow, Then
  <2> HIDE DEF r
  <2> QED BY <2>1, <2>2 DEF Sound
<1> QED BY <1>1, <1>2

(* The recursive function of Run exists, and what is pending stays so.     *)
LEMMA SmallestOf ==
  ASSUME NEW T, T \subseteq Nat, T # {}
  PROVE  \E m \in T : \A k \in T : m <= k
<1>1. PICK x \in T : \A y \in T : <<y, x>> \notin OpToRel(<, Nat)
  BY NatLessThanWellFounded, WFMin
<1>2. \A y \in T : ~(y < x)
  BY <1>1 DEF OpToRel
<1> QED BY <1>2

Step(m, run, n) == IF n = 0 THEN m ELSE Advance(run[n - 1])
RunTo(m, k)     == CHOOSE run : run = [n \in 0 .. k |-> Step(m, run, n)]

LEMMA RunExists ==
  ASSUME NEW m, NEW k \in Nat
  PROVE  \E run : run = [n \in 0 .. k |-> Step(m, run, n)]
<1> DEFINE Works(j) == \E run : run = [n \in 0 .. j |-> Step(m, run, n)]
           Fails == {j \in Nat : ~Works(j)}
<1>1. SUFFICES ASSUME Fails # {} PROVE FALSE
  OBVIOUS
<1>2. PICK j \in Fails : \A i \in Fails : j <= i
  <2>1. Fails \subseteq Nat
    OBVIOUS
  <2> HIDE DEF Fails
  <2> QED BY <1>1, <2>1, SmallestOf
<1>3. j # 0
  <2> DEFINE zero == [n \in 0 .. 0 |-> m]
  <2>1. zero = [n \in 0 .. 0 |-> Step(m, zero, n)]
    BY DEF Step
  <2>2. Works(0)
    BY <2>1
  <2> QED BY <2>2
<1>4. PICK run : run = [n \in 0 .. j - 1 |-> Step(m, run, n)]
  <2>1. j - 1 \in Nat /\ j - 1 \notin Fails
    BY <1>2, <1>3
  <2> QED BY <2>1
<1> DEFINE more == [n \in 0 .. j |-> Step(m, run, n)]
<1>5. more = [n \in 0 .. j |-> Step(m, more, n)]
  <2>1. \A n \in 0 .. j - 1 : more[n] = run[n]
    BY <1>4
  <2>2. ASSUME NEW n \in 0 .. j
        PROVE  Step(m, run, n) = Step(m, more, n)
    <3>1. n # 0 => more[n - 1] = run[n - 1]
      <4>1. n # 0 => n - 1 \in 0 .. j - 1
        OBVIOUS
      <4> QED BY <4>1, <2>1
    <3> HIDE DEF more
    <3> QED BY <3>1 DEF Step
  <2> QED BY <2>2
<1> QED BY <1>5

LEMMA RunStep ==
  ASSUME NEW m, WorldOK(m.world), Pending(m.world, m.todo)
  PROVE  WorldOK(Run(m).world) /\ Pending(Run(m).world, Run(m).todo)
<1> DEFINE run == RunTo(m, MaxSteps)
           Good(r) == WorldOK(r.world) /\ Pending(r.world, r.todo)
           Fails == {n \in 0 .. MaxSteps : ~Good(run[n])}
<1>0. MaxSteps \in Nat
  BY SignalAssumption
<1>1. run = [n \in 0 .. MaxSteps |-> Step(m, run, n)]
  BY <1>0, RunExists DEF RunTo
<1>2. Run(m) = run[MaxSteps]
  BY DEF Run, RunTo, Step
<1> HIDE DEF run
<1>3. ASSUME NEW n \in Fails, \A k \in Fails : n <= k
      PROVE  FALSE
  <2>1. run[n] = Step(m, run, n)
    BY <1>1
  <2>2. CASE n = 0
    BY <2>1, <2>2 DEF Step
  <2>3. CASE n # 0
    <3>1. n - 1 \in 0 .. MaxSteps /\ n - 1 \notin Fails
      BY <1>0, <1>3, <2>3
    <3>2. Good(run[n - 1])
      BY <3>1
    <3>3. run[n] = Advance(run[n - 1])
      BY <2>1, <2>3 DEF Step
    <3>4. Good(run[n])
      BY <3>2, <3>3, AdvanceStep
    <3> QED BY <3>4
  <2> QED BY <2>2, <2>3
<1>4. Fails = {}
  <2>1. Fails \subseteq Nat
    BY <1>0
  <2> HIDE DEF Fails
  <2> QED BY <1>3, <2>1, SmallestOf
<1> QED BY <1>0, <1>2, <1>4
-----------------------------------------------------------------------------
(* Between two calls of the user nothing is pending.                       *)
AtRest(w) == WorldOK(w) /\ Pending(w, <<>>)
Free(w)   == \A t \in Signals : ~w.sig[t].busy

LEMMA RestIs ==
  ASSUME NEW w
  PROVE  AtRest(w) <=> /\ WorldOK(w) /\ Free(w)
                       /\ \A s \in Signals : Watched(w, s) => w.told[s] \in {None, w.sig[s].shadow} /\ Knows(w, s)
<1>1. /\ <<>> \in Seq(AnyCall) /\ DOMAIN <<>> = {}
  OBVIOUS
<1>2. \A fc, s : ~Awaits(<<>>, fc, s)
  BY DEF Awaits
<1>3. Typed(<<>>) /\ ReleasedOnce(<<>>) /\ Nested(w, <<>>) /\ CalledInside(<<>>) /\ Announced(<<>>)
  BY <1>1 DEF Typed, ReleasedOnce, Nested, CalledInside, Announced
<1>4. BusyReleased(w, <<>>) <=> Free(w)
  BY <1>2 DEF BusyReleased, Free
<1>5. Free(w) => ShadowAgrees(w)
  BY DEF Free, ShadowAgrees, Locked
<1>6. Free(w) => (Informed(w, <<>>) <=> \A s \in Signals : Watched(w, s) => w.told[s] \in {None, w.sig[s].shadow} /\ Knows(w, s))
  BY <1>2 DEF Informed, Free
<1> QED BY <1>1, <1>3, <1>4, <1>5, <1>6 DEF AtRest, Pending

LEMMA RestUse ==
  ASSUME NEW w, AtRest(w)
  PROVE  /\ WorldOK(w) /\ Pending(w, <<>>) /\ Free(w) /\ Idle(w)
         /\ \A s \in Signals : Inside(w, s) /\ w.sig[s].local \in Vectors(s)
<1>1. WorldOK(w) /\ Free(w)
  BY RestIs
<1> QED BY <1>1 DEF AtRest, Inside, Idle, Free, Locked, WorldOK, SignalType

(* What is at rest is told from the signals and their observers alone.     *)
LEMMA RestSame ==
  ASSUME NEW w, AtRest(w), NEW u, WorldOK(u), u.sig = w.sig, u.told = w.told
  PROVE  AtRest(u)
<1>1. Free(w) /\ \A s \in Signals : Watched(w, s) => w.told[s] \in {None, w.sig[s].shadow} /\ Knows(w, s)
  BY RestIs
<1>2. Free(u) /\ \A s \in Signals : Watched(u, s) => u.told[s] \in {None, u.sig[s].shadow} /\ Knows(u, s)
  BY <1>1 DEF Free, Watched, Knows
<1> QED BY <1>2, RestIs

LEMMA BecomeRest ==
  ASSUME NEW w, AtRest(w), Become(w), late' \subseteq Signals
  PROVE  AtRest(World')
<1> DEFINE u == World'
<1>1. u = [sig |-> w.sig, pin |-> w.pin, asked |-> w.asked, told |-> w.told, foreign |-> w.foreign,
           late |-> late', within |-> {}]
  BY DEF World, Become
<1>2. WorldOK(w)
  BY RestUse
<1> HIDE DEF u
<1>3. WorldOK(u)
  BY <1>1, <1>2 DEF WorldOK
<1>4. u.sig = w.sig /\ u.told = w.told
  BY <1>1
<1>5. AtRest(u)
  BY <1>3, <1>4, RestSame
<1> QED BY <1>5 DEF u

LEMMA ForgetsIs ==
  ASSUME NEW w, WorldOK(w), NEW e
  PROVE  LET u == Forgets(w, e) IN
         /\ WorldOK(u) /\ u.sig = w.sig /\ u.told = w.told /\ u.pin = w.pin /\ u.foreign = w.foreign
         /\ \A s \in Signals :
              u.asked[s] = IF /\ s \in w.late /\ w.sig[s].cbs # <<>> /\ w.sig[s].mode = e
                              /\ ~Delivered(w, s) THEN None ELSE w.asked[s]
<1> DEFINE g == [s \in Signals |-> IF /\ s \in w.late /\ w.sig[s].cbs # <<>> /\ w.sig[s].mode = e
                                       /\ ~Delivered(w, s) THEN None ELSE w.asked[s]]
           u == [w EXCEPT !.asked = g]
<1>1. Forgets(w, e) = u
  BY DEF Forgets
<1>2. g \in [Signals -> AnyVector] /\ \A s \in Signals : g[s] \in Vectors(s) \cup {None}
  BY DEF WorldOK, AnyVector
<1>3. \A s \in Signals :
        g[s] = IF /\ s \in w.late /\ w.sig[s].cbs # <<>> /\ w.sig[s].mode = e
                  /\ ~Delivered(w, s) THEN None ELSE w.asked[s]
  OBVIOUS
<1> HIDE DEF g
<1>4. u.asked = g /\ u.sig = w.sig /\ u.told = w.told /\ u.pin = w.pin /\ u.foreign = w.foreign
  BY DEF WorldOK
<1>5. u \in [sig : [Signals -> AnySignal], pin : [Pins -> AnyVector], asked : [Signals -> AnyVector],
             told : [Signals -> AnyVector], foreign : SUBSET Signals, late : SUBSET Signals, within : SUBSET Signals]
  BY <1>2, RecordChange DEF WorldOK
<1>6. WorldOK(u)
  BY <1>2, <1>4, <1>5 DEF WorldOK
<1> QED BY <1>1, <1>3, <1>4, <1>6

LEMMA ForgetsRest ==
  ASSUME NEW w, AtRest(w), NEW e
  PROVE  AtRest(Forgets(w, e))
<1> DEFINE u == Forgets(w, e)
<1>1. WorldOK(w)
  BY RestUse
<1>2. WorldOK(u) /\ u.sig = w.sig /\ u.told = w.told
  BY <1>1, ForgetsIs
<1> HIDE DEF u
<1>3. AtRest(u)
  BY <1>2, RestSame
<1> QED BY <1>3 DEF u

LEMMA RunRest ==
  ASSUME NEW m, Sound(m, <<>>), Run(m).todo = <<>>
  PROVE  AtRest(Run(m).world)
<1>1. WorldOK(m.world) /\ Pending(m.world, m.todo)
  <2>1. m.todo \in Seq(AnyCall) /\ WorldOK(m.world) /\ Pending(m.world, m.todo \o <<>>)
    BY DEF Sound
  <2>2. m.todo \o <<>> = m.todo
    BY <2>1, ConcatEmptySeq
  <2> QED BY <2>1, <2>2
<1> QED BY <1>1, RunStep DEF AtRest

LEMMA ReturnStep ==
  ASSUME NEW m, Sound(m, <<>>), Return(m), late' \subseteq Signals
  PROVE  AtRest(World')
<1>1. Run(m).todo = <<>> /\ Become(Run(m).world)
  BY DEF Return
<1> QED BY <1>1, RunRest, BecomeRest

LEMMA DoneReturn ==
  ASSUME NEW u, AtRest(u), Return(Done(u)), late' \subseteq Signals
  PROVE  AtRest(World')
BY DoneSound, ReturnStep DEF AtRest

(* Two calls made by a call of the user.                                   *)
LEMMA PairSound ==
  ASSUME NEW w, AtRest(w), NEW a \in AnyCall, NEW b \in AnyCall, CallOK(a), CallOK(b), NEW x \in Signals,
         a.fc \notin {"Release", "CallBack", "Fetch"}, b.fc \notin {"Release", "CallBack", "Fetch"}
  PROVE  Sound(Then(w, <<a, b>>), <<>>)
<1> DEFINE new == <<a, b>>
<1>1. new \in Seq(AnyCall) /\ DOMAIN new = {1, 2} /\ new[1] = a /\ new[2] = b
  BY LiteralSeq
<1> HIDE DEF new
<1>2. Typed(new) /\ \A i \in DOMAIN new : new[i].fc \notin {"Release", "CallBack", "Fetch"}
  BY <1>1 DEF Typed
<1>3. Sound(Then(w, new), <<>>)
  BY <1>1, <1>2, RestUse, CallsSound
<1> QED BY <1>3 DEF new
-----------------------------------------------------------------------------
(* The calls of the user on one signal.                                    *)
LEMMA ImmSetSound ==
  ASSUME NEW w, AtRest(w), NEW s \in Signals, NEW n \in Nat, mWidth[s] = 0 => n < 4
  PROVE  Sound(ImmSet(w, s, n), <<>>)
<1> DEFINE u == SetWriteMode(w, s, "Imme")
           c == DoWith("SetMode", s, w.sig[s].mode)
           more == <<c>>
<1>1. AtRest(u)
  BY RestUse, SetWriteModeStep DEF AtRest, Modes
<1>2. w.sig[s].mode \in Modes
  BY RestUse DEF WorldOK, SignalType
<1>3. c \in AnyCall /\ CallOK(c) /\ c.fc = "SetMode"
  BY <1>2, CallTypes DEF Is
<1>4. ImmSet(w, s, n) = Follow(StoreValue(u, s, Number(s, n)), more)
  BY DEF ImmSet, AssignInt
<1> HIDE DEF u, c
<1>5. more \in Seq(AnyCall) /\ DOMAIN more = {1} /\ more[1] = c
  BY <1>3, LiteralSeq
<1> HIDE DEF more
<1>6. Typed(more) /\ \A i \in DOMAIN more : more[i].fc \notin {"Release", "CallBack", "Fetch"}
  BY <1>3, <1>5 DEF Typed
<1>7. Sound(Then(u, more), <<>>)
  BY <1>1, <1>5, <1>6, RestUse, CallsSound
<1>8. Pending(u, more \o <<>>)
  BY <1>7 DEF Sound, Then
<1>9. Number(s, n) \in Vectors(s)
  BY NumberIs
<1>10. Sound(StoreValue(u, s, Number(s, n)), more \o <<>>)
  BY <1>1, <1>8, <1>9, RestUse, AssignStep
<1>11. <<>> \in Seq(AnyCall)
  OBVIOUS
<1> QED BY <1>4, <1>5, <1>10, <1>11, FollowSound

LEMMA StoreSound ==
  ASSUME NEW w, AtRest(w), NEW s \in Signals, NEW v \in Vectors(s)
  PROVE  Sound(StoreValue(w, s, v), <<>>)
BY RestUse, AssignStep

LEMMA FillSound ==
  ASSUME NEW w, AtRest(w), NEW s \in Signals, NEW b \in 0 .. 3
  PROVE  Sound(FillText(w, s, b), <<>>)
<1>1. Width(s) \in Nat \ {0} /\ Bits(s) = 1 .. Width(s)
  BY WidthFacts
<1>2. CASE mWidth[s] = 0
  <2>1. <<b>> \in [1 .. 1 -> 0 .. 3]
    OBVIOUS
  <2>2. <<b>> \in Vectors(s)
    BY <1>2, <2>1 DEF Vectors, Bits, Width
  <2> QED BY <1>2, <2>2, StoreSound DEF FillText
<1>3. CASE mWidth[s] # 0
  <2> DEFINE v == [Zero(s) EXCEPT ![1] = b]
             y == Put(w, s, v)
             owed == IF w.sig[s].mode = "Imme" THEN None ELSE v
             z == WithTold(y, s, None)
             u == WithAsked(z, s, owed)
  <2>1. v \in Vectors(s)
    BY <1>1, ZeroIs DEF Vectors
  <2>2. FillText(w, s, b) = Done([Put(w, s, v) EXCEPT !.told[s] = None, !.asked[s] = owed])
    BY <1>3 DEF FillText
  <2> HIDE DEF v
  <2>3. WorldOK(y) /\ Alike(w, y) /\ (\A t \in Signals \ {s} : y.sig[t] = w.sig[t]) /\ y.told = w.told
    BY <2>1, RestUse, PutStep
  <2>4. FillText(w, s, b) = Done(u)
    BY <2>2 DEF WithAsked, WithTold
  <2> HIDE DEF y
  <2>5. WorldOK(z) /\ z.sig = y.sig /\ z.told[s] = None /\ \A t \in Signals \ {s} : z.told[t] = y.told[t]
    BY <2>3, ToldChange
  <2>6. owed \in Vectors(s) \cup {None}
    BY <2>1
  <2> HIDE DEF z, owed
  <2>7. WorldOK(u) /\ u.sig = z.sig /\ u.told = z.told
    BY <2>5, <2>6, AskedChange
  <2> HIDE DEF u
  <2>8. AtRest(u)
    <3>1. Free(u)
      BY <2>3, <2>5, <2>7, RestUse DEF Free, Alike
    <3>2. ASSUME NEW t \in Signals, Watched(u, t)
          PROVE  u.told[t] \in {None, u.sig[t].shadow} /\ Knows(u, t)
      <4>1. CASE t = s
        BY <2>5, <2>7, <4>1 DEF Knows
      <4>2. CASE t # s
        <5>1. u.sig[t] = w.sig[t] /\ u.told[t] = w.told[t]
          BY <2>3, <2>5, <2>7, <4>2
        <5>2. Watched(w, t)
          BY <3>2, <5>1 DEF Watched
        <5> QED BY <5>1, <5>2, RestIs DEF Knows
      <4> QED BY <4>1, <4>2
    <3> QED BY <2>7, <3>1, <3>2, RestIs
  <2> QED BY <2>4, <2>8, DoneSound DEF AtRest
<1> QED BY <1>2, <1>3

LEMMA SetPinSound ==
  ASSUME NEW w, AtRest(w), NEW s \in Signals, NEW i \in Bits(s), NEW b \in 0 .. 3
  PROVE  Sound(SetPin(w, s, i, b), <<>>)
<1> DEFINE arg == [at |-> i, to |-> b]
           c == DoWith("SetBit", s, arg)
<1>1. i \in Nat /\ b \in Nat
  BY WidthFacts
<1>2. arg \in Arguments /\ arg.at = i /\ arg.to = b
  BY <1>1 DEF Arguments
<1> HIDE DEF arg
<1>3. c = [fc |-> "SetBit", on |-> s, arg |-> arg] /\ "SetBit" \in Members
  BY DEF DoWith, Members
<1>4. c \in AnyCall /\ c.fc = "SetBit" /\ c.on = s /\ c.arg = arg
  BY <1>2, <1>3 DEF AnyCall
<1> HIDE DEF c
<1>5. CallOK(c)
  BY <1>2, <1>4 DEF CallOK
<1>6. Do("UpdateRead", s) \in AnyCall /\ CallOK(Do("UpdateRead", s)) /\ Do("UpdateRead", s).fc = "UpdateRead"
  BY CallTypes DEF Plain, Is
<1>7. Sound(Then(w, <<Do("UpdateRead", s), c>>), <<>>)
  BY <1>4, <1>5, <1>6, PairSound
<1> QED BY <1>7 DEF SetPin, c, arg
-----------------------------------------------------------------------------
(* Configuration.  A signal that is given a new state keeps the others     *)
(* informed, and is informed itself when nothing was told of it.           *)
LEMMA ResetRest ==
  ASSUME NEW w, AtRest(w), NEW s \in Signals, NEW x \in SignalType(s), x.wr.from \notin {"const", "expr"},
         ~x.busy, NEW u, WorldOK(u), u.sig[s] = x, \A t \in Signals \ {s} : u.sig[t] = w.sig[t] /\ u.told[t] = w.told[t],
         (\E i \in DOMAIN x.cbs : x.cbs[i] = "user") => u.told[s] \in {None, x.shadow} /\ u.told[s] \in {None, x.local}
  PROVE  AtRest(u)
<1>1. Free(u)
  BY RestUse DEF Free
<1>2. ASSUME NEW t \in Signals, Watched(u, t)
      PROVE  u.told[t] \in {None, u.sig[t].shadow} /\ Knows(u, t)
  <2>1. CASE t = s
    BY <1>2, <2>1 DEF Watched, Knows
  <2>2. CASE t # s
    <3>1. Watched(w, t)
      BY <1>2, <2>2 DEF Watched
    <3> QED BY <2>2, <3>1, RestIs DEF Knows
  <2> QED BY <2>1, <2>2
<1> QED BY <1>1, <1>2, RestIs

(* A change of fields that are neither values nor callbacks.               *)
LEMMA FieldRest ==
  ASSUME NEW w, AtRest(w), NEW s \in Signals, NEW x \in SignalType(s),
         x.wr.from \notin {"const", "expr"}, x.local = w.sig[s].local, x.shadow = w.sig[s].shadow,
         x.busy = w.sig[s].busy, x.cbs = w.sig[s].cbs
  PROVE  LET y == Rebound(w, s) IN AtRest(WithSig(y, s, x)) /\ y.sig = w.sig
<1> DEFINE z == Settle(w, s)
           f == IF w.sig[s].last = None THEN w.foreign ELSE w.foreign \cup {s}
           y == WithForeign(z, f)
<1>1. WorldOK(z) /\ Pending(z, <<>>) /\ z.sig = w.sig /\ z.foreign = w.foreign /\ z.within = w.within
  BY RestUse, SettleStep
<1>2. Rebound(w, s) = y
  BY <1>1 DEF Rebound, WithForeign
<1> HIDE DEF z
<1>3. f \in SUBSET Signals
  BY <1>1 DEF WorldOK
<1> HIDE DEF f
<1>4. WorldOK(y) /\ y.sig = z.sig /\ y.told = z.told /\ y.within = z.within
  BY <1>1, <1>3, ForeignChange
<1> HIDE DEF y
<1>5. Pending(y, <<>>)
  BY <1>1, <1>4, Quiet DEF Kept, Alike
<1>6. AtRest(WithSig(y, s, x))
  BY <1>1, <1>4, <1>5, FieldStep DEF AtRest
<1> QED BY <1>1, <1>2, <1>4, <1>6

LEMMA ReInitIs ==
  ASSUME NEW w, WorldOK(w), NEW s \in Signals, NEW io \in Directions
  PROVE  LET u == ReInit(w, s, io) IN
         /\ WorldOK(u) /\ (\A t \in Signals \ {s} : u.sig[t] = w.sig[t] /\ u.told[t] = w.told[t])
         /\ u.sig[s].last = None /\ u.sig[s].rd = w.sig[s].rd /\ u.sig[s].mode = w.sig[s].mode
         /\ u.sig[s].busy = w.sig[s].busy /\ u.told[s] = None
         /\ u.pin = w.pin /\ u.foreign = w.foreign \ {s} /\ u.late = w.late /\ u.within = w.within
         /\ u.asked[s] = None /\ \A t \in Signals \ {s} : u.asked[t] = w.asked[t]
<1> DEFINE shadow == IF mWidth[s] = 0 THEN w.sig[s].shadow ELSE Zero(s)
           new(z) == [z EXCEPT !.local = Zero(s), !.io = io, !.last = None, !.readonly = FALSE, !.shadow = shadow]
           x == new(w.sig[s])
           a == Settle(w, s)
           b == WithSig(a, s, x)
           c == WithTold(b, s, None)
           f == w.foreign \ {s}
           u == WithForeign(c, f)
<1>1. w.sig[s] \in SignalType(s) /\ w.sig[s].wr.from \notin {"const", "expr"}
  BY DEF WorldOK
<1>2. ReInit(w, s, io) = [a EXCEPT !.sig[s] = new(@), !.told[s] = None, !.foreign = @ \ {s}]
  BY DEF ReInit
<1>3. /\ x \in SignalType(s) /\ x.wr.from \notin {"const", "expr"} /\ x.busy = w.sig[s].busy
      /\ x.last = None /\ x.rd = w.sig[s].rd /\ x.mode = w.sig[s].mode
  <2>1. shadow \in Vectors(s) /\ Zero(s) \in Vectors(s)
    BY <1>1, ZeroIs DEF SignalType
  <2> HIDE DEF shadow
  <2>2. x \in SignalType(s) /\ x.wr = w.sig[s].wr
    BY <1>1, <2>1 DEF SignalType
  <2>3. /\ x.busy = w.sig[s].busy /\ x.last = None /\ x.rd = w.sig[s].rd /\ x.mode = w.sig[s].mode
    BY <1>1 DEF SignalType
  <2> HIDE DEF x
  <2> QED BY <1>1, <2>2, <2>3
<1> HIDE DEF new
<1>4. /\ WorldOK(a) /\ a.sig = w.sig /\ a.told = w.told /\ a.pin = w.pin /\ a.foreign = w.foreign /\ a.late = w.late /\ a.within = w.within
      /\ a.asked[s] = None /\ \A t \in Signals \ {s} : a.asked[t] = w.asked[t]
  BY SettleIs
<1> HIDE DEF a
<1>5. /\ WorldOK(b) /\ b.sig[s] = x /\ (\A t \in Signals \ {s} : b.sig[t] = a.sig[t])
      /\ b.told = a.told /\ b.pin = a.pin /\ b.asked = a.asked /\ b.foreign = a.foreign /\ b.late = a.late /\ b.within = a.within
  <2> HIDE DEF x
  <2> QED BY <1>3, <1>4, SignalChange
<1>6. b = [a EXCEPT !.sig[s] = new(@)]
  BY <1>4 DEF WithSig
<1> HIDE DEF b, x
<1>7. /\ WorldOK(c) /\ c.sig = b.sig /\ c.told[s] = None /\ (\A t \in Signals \ {s} : c.told[t] = b.told[t])
      /\ c.pin = b.pin /\ c.asked = b.asked /\ c.foreign = b.foreign /\ c.late = b.late /\ c.within = b.within
  BY <1>5, ToldChange
<1>8. c = [a EXCEPT !.sig[s] = new(@), !.told[s] = None]
  BY <1>6 DEF WithTold
<1> HIDE DEF c
<1>9. f \in SUBSET Signals
  BY DEF WorldOK
<1>10. ReInit(w, s, io) = u
  BY <1>2, <1>4, <1>5, <1>7, <1>8 DEF WithForeign
<1>11. /\ WorldOK(u) /\ u.sig = c.sig /\ u.pin = c.pin /\ u.asked = c.asked /\ u.told = c.told
       /\ u.foreign = f /\ u.late = c.late /\ u.within = c.within
  BY <1>7, <1>9, ForeignChange
<1> HIDE DEF u
<1> QED BY <1>3, <1>4, <1>5, <1>7, <1>10, <1>11

LEMMA ReInitRest ==
  ASSUME NEW w, AtRest(w), NEW s \in Signals, NEW io \in Directions
  PROVE  AtRest(ReInit(w, s, io))
<1> DEFINE u == ReInit(w, s, io)
<1>1. WorldOK(w) /\ Free(w)
  BY RestUse
<1>2. /\ WorldOK(u) /\ (\A t \in Signals \ {s} : u.sig[t] = w.sig[t] /\ u.told[t] = w.told[t])
      /\ u.sig[s].busy = w.sig[s].busy /\ u.told[s] = None
  BY <1>1, ReInitIs
<1> HIDE DEF u
<1>3. u.sig[s] \in SignalType(s) /\ u.sig[s].wr.from \notin {"const", "expr"} /\ ~u.sig[s].busy
  BY <1>1, <1>2 DEF WorldOK, Free
<1>4. AtRest(u)
  BY <1>2, <1>3, ResetRest
<1> QED BY <1>4 DEF u

LEMMA IgnoreSameRest ==
  ASSUME NEW w, AtRest(w), NEW s \in Signals, NEW b \in BOOLEAN
  PROVE  AtRest(SetIgnoreSame(w, s, b))
<1> DEFINE x == [w.sig[s] EXCEPT !.same = b]
           f == IF ~b \/ w.sig[s].last = None THEN w.foreign ELSE w.foreign \cup {s}
           y == WithSig(w, s, x)
           u == WithForeign(y, f)
<1>1. WorldOK(w) /\ Pending(w, <<>>) /\ w.sig[s] \in SignalType(s) /\ w.sig[s].wr.from \notin {"const", "expr"}
  BY RestUse DEF WorldOK
<1>2. SetIgnoreSame(w, s, b) = u
  BY <1>1 DEF SetIgnoreSame, WithSig, WithForeign, WorldOK, SignalType
<1>3. /\ x \in SignalType(s) /\ x.wr.from \notin {"const", "expr"} /\ x.local = w.sig[s].local
      /\ x.shadow = w.sig[s].shadow /\ x.busy = w.sig[s].busy /\ x.cbs = w.sig[s].cbs
  BY <1>1 DEF SignalType
<1>4. f \in SUBSET Signals
  BY <1>1 DEF WorldOK
<1> HIDE DEF x, f
<1>5. WorldOK(y) /\ Pending(y, <<>>)
  BY <1>1, <1>3, FieldStep
<1> HIDE DEF y
<1>6. WorldOK(u) /\ u.sig = y.sig /\ u.told = y.told /\ u.within = y.within
  BY <1>4, <1>5, ForeignChange
<1> HIDE DEF u
<1>7. Pending(u, <<>>)
  BY <1>5, <1>6, Quiet DEF Kept, Alike
<1> QED BY <1>2, <1>6, <1>7 DEF AtRest

LEMMA ClearRest ==
  ASSUME NEW w, AtRest(w), NEW s \in Signals
  PROVE  AtRest(ClearOnChangeCbs(w, s))
<1> DEFINE x == [w.sig[s] EXCEPT !.cbs = <<>>]
           u == WithSig(w, s, x)
<1>1. WorldOK(w) /\ Free(w) /\ w.sig[s] \in SignalType(s) /\ w.sig[s].wr.from \notin {"const", "expr"}
  BY RestUse DEF WorldOK
<1>2. ClearOnChangeCbs(w, s) = u
  BY <1>1 DEF ClearOnChangeCbs, WithSig, WorldOK, SignalType
<1>3. x \in SignalType(s) /\ x.wr.from \notin {"const", "expr"} /\ ~x.busy /\ x.cbs = <<>>
  <2>1. <<>> \in Seq(Listeners(s))
    OBVIOUS
  <2>2. x \in SignalType(s) /\ x.wr = w.sig[s].wr /\ x.busy = w.sig[s].busy /\ x.cbs = <<>>
    BY <1>1, <2>1 DEF SignalType
  <2> HIDE DEF x
  <2> QED BY <1>1, <2>2 DEF Free
<1> HIDE DEF x
<1>4. WorldOK(u) /\ u.sig[s] = x /\ (\A t \in Signals \ {s} : u.sig[t] = w.sig[t]) /\ u.told = w.told
  BY <1>1, <1>3, SignalChange
<1> HIDE DEF u
<1>5. AtRest(u)
  BY <1>3, <1>4, ResetRest
<1> QED BY <1>2, <1>5
-----------------------------------------------------------------------------
(* Backends.                                                               *)
LEMMA ReadBack ==
  ASSUME NEW u, AtRest(u), NEW s \in Signals
  PROVE  Sound(Then(u, <<Do("UpdateRead", s)>>), <<>>)
<1> DEFINE new == <<Do("UpdateRead", s)>>
<1>1. new \in Seq(AnyCall) /\ DOMAIN new = {1} /\ CallOK(new[1]) /\ Is(new[1], "UpdateRead", s)
  BY CallTypes, LiteralSeq DEF Plain
<1> HIDE DEF new
<1>2. Typed(new) /\ \A i \in DOMAIN new : new[i].fc \notin {"Release", "CallBack", "Fetch"}
  BY <1>1 DEF Typed, Is
<1>3. Sound(Then(u, new), <<>>)
  BY <1>1, <1>2, RestUse, CallsSound
<1> QED BY <1>3 DEF new

LEMMA BindPinSound ==
  ASSUME NEW w, AtRest(w), NEW s \in Signals, NEW p \in Pins, PinWidth[p] = Width(s)
  PROVE  Sound(BindPin(w, s, p), <<>>)
<1> DEFINE b == [from |-> "pin", pin |-> p]
           x == [w.sig[s] EXCEPT !.rd = b, !.wr = b, !.readonly = FALSE]
           y == Rebound(w, s)
           u == WithSig(y, s, x)
<1>1. WorldOK(w) /\ w.sig[s] \in SignalType(s)
  BY RestUse DEF WorldOK
<1>3. b \in Readers(s) /\ b.from = "pin"
  BY DEF Readers
<1>4. /\ x \in SignalType(s) /\ x.wr.from \notin {"const", "expr"} /\ x.local = w.sig[s].local
      /\ x.shadow = w.sig[s].shadow /\ x.busy = w.sig[s].busy /\ x.cbs = w.sig[s].cbs
  BY <1>1, <1>3 DEF SignalType
<1>5. AtRest(u) /\ y.sig = w.sig
  <2> HIDE DEF x
  <2> QED BY <1>4, FieldRest
<1> HIDE DEF y
<1>6. BindPin(w, s, p) = Then(u, <<Do("UpdateRead", s)>>)
  BY <1>5 DEF BindPin, WithSig, y
<1> HIDE DEF u
<1> QED BY <1>5, <1>6, ReadBack

LEMMA BindMixRest ==
  ASSUME NEW w, AtRest(w), NEW s \in Signals, NEW p \in Pins, PinWidth[p] = Width(s)
  PROVE  AtRest(BindMixFromUvs(w, s, p))
<1> DEFINE b == [from |-> "pin", pin |-> p]
           x == [w.sig[s] EXCEPT !.rd = b]
           y == Settle(w, s)
<1>1. WorldOK(w) /\ w.sig[s] \in SignalType(s) /\ w.sig[s].wr.from \notin {"const", "expr"}
  BY RestUse DEF WorldOK
<1>2. WorldOK(y) /\ Pending(y, <<>>) /\ y.sig = w.sig
  BY RestUse, SettleStep
<1>3. BindMixFromUvs(w, s, p) = WithSig(y, s, x)
  BY <1>1 DEF BindMixFromUvs, Settle, WithSig, WorldOK, SignalType
<1>4. b \in Readers(s)
  BY DEF Readers
<1> HIDE DEF b
<1>5. /\ x \in SignalType(s) /\ x.wr.from \notin {"const", "expr"} /\ x.local = w.sig[s].local
      /\ x.shadow = w.sig[s].shadow /\ x.busy = w.sig[s].busy /\ x.cbs = w.sig[s].cbs
  BY <1>1, <1>4 DEF SignalType
<1> HIDE DEF x, y
<1> QED BY <1>2, <1>3, <1>5, FieldStep DEF AtRest

LEMMA BindReadonlySound ==
  ASSUME NEW w, AtRest(w), NEW s \in Signals, NEW source \in Readers(s)
  PROVE  Sound(BindReadonly(w, s, source), <<>>)
<1> DEFINE x == [w.sig[s] EXCEPT !.rd = source, !.wr = Unbound, !.readonly = TRUE, !.io = "Output"]
           y == Rebound(w, s)
           u == WithSig(y, s, x)
<1>1. WorldOK(w) /\ w.sig[s] \in SignalType(s)
  BY RestUse DEF WorldOK
<1>3. Unbound \in Readers(s) /\ Unbound.from = "none" /\ "Output" \in Directions
  BY DEF Readers, Unbound, Directions
<1>4. /\ x \in SignalType(s) /\ x.wr.from \notin {"const", "expr"} /\ x.local = w.sig[s].local
      /\ x.shadow = w.sig[s].shadow /\ x.busy = w.sig[s].busy /\ x.cbs = w.sig[s].cbs
  <2>1. x \in SignalType(s) /\ x.wr = Unbound
    BY <1>1, <1>3 DEF SignalType
  <2>2. x.local = w.sig[s].local /\ x.shadow = w.sig[s].shadow /\ x.busy = w.sig[s].busy /\ x.cbs = w.sig[s].cbs
    BY <1>1 DEF SignalType
  <2> HIDE DEF x
  <2> QED BY <1>3, <2>1, <2>2
<1>5. AtRest(u) /\ y.sig = w.sig
  <2> HIDE DEF x
  <2> QED BY <1>4, FieldRest
<1> HIDE DEF y
<1>6. BindReadonly(w, s, source) = Then(u, <<Do("UpdateRead", s)>>)
  BY <1>5 DEF BindReadonly, WithSig, y
<1> HIDE DEF u
<1> QED BY <1>5, <1>6, ReadBack

LEMMA BindConstSound ==
  ASSUME NEW w, AtRest(w), NEW s \in Signals, NEW v \in Vectors(s)
  PROVE  Sound(BindConst(w, s, v), <<>>)
<1>1. [from |-> "const", value |-> v] \in Readers(s)
  BY DEF Readers
<1> QED BY <1>1, BindReadonlySound DEF BindConst

LEMMA BindExprSound ==
  ASSUME NEW w, AtRest(w), NEW s \in Signals, NEW t \in Signals, Width(t) = Width(s)
  PROVE  Sound(BindExpr(w, s, t), <<>>)
<1>1. [from |-> "expr", of |-> t] \in Readers(s)
  BY DEF Readers
<1> QED BY <1>1, BindReadonlySound DEF BindExpr

LEMMA SubDataRefSound ==
  ASSUME NEW w, AtRest(w), NEW s \in Signals, NEW p \in Signals, NEW at \in 0 .. (mWidth[p] - Width(s))
  PROVE  Sound(SubDataRef(w, s, p, at), <<>>)
<1> DEFINE b  == [from |-> "view", of |-> p, at |-> at]
           io == w.sig[p].io
           y  == Settle(w, s)
           view == [Fresh(s, io) EXCEPT !.rd = b]
           x  == IF io = "Output" THEN view ELSE [view EXCEPT !.wr = b, !.mode = "Imme"]
           u  == WithSig(y, s, x)
<1>1. WorldOK(w) /\ io \in Directions
  BY RestUse DEF WorldOK, SignalType
<1>2. SubDataRef(w, s, p, at) = Then(u, <<Do("UpdateRead", s)>>)
  BY DEF SubDataRef, WithSig
<1>3. at \in Nat /\ at + Width(s) <= Width(p)
  BY WidthFacts, SignalAssumption DEF Width
<1>4. b \in Readers(s) /\ b.from = "view" /\ Unbound \in Readers(s) /\ Unbound.from = "none"
  BY <1>3 DEF Readers, Unbound
<1>5. Zero(s) \in Vectors(s) /\ <<>> \in Seq(Listeners(s)) /\ {"Imme", "Rise"} \subseteq Modes
  BY ZeroIs DEF Modes
<1>6. x \in SignalType(s) /\ x.wr.from \notin {"const", "expr"} /\ ~x.busy /\ x.cbs = <<>>
  <2> HIDE DEF io, b
  <2>1. Fresh(s, io) \in SignalType(s) /\ Fresh(s, io).wr = Unbound /\ Fresh(s, io).busy = FALSE /\ Fresh(s, io).cbs = <<>>
    BY <1>1, <1>4, <1>5 DEF SignalType, Fresh
  <2>2. view \in SignalType(s) /\ view.wr = Unbound /\ view.busy = FALSE /\ view.cbs = <<>>
    BY <1>4, <2>1 DEF SignalType
  <2> HIDE DEF view
  <2>3. CASE io = "Output"
    BY <1>4, <2>2, <2>3
  <2>4. CASE io # "Output"
    <3> DEFINE z == [view EXCEPT !.wr = b, !.mode = "Imme"]
    <3>1. z \in SignalType(s) /\ z.wr = b /\ z.busy = FALSE /\ z.cbs = <<>>
      BY <1>4, <1>5, <2>2 DEF SignalType
    <3> HIDE DEF z
    <3> QED BY <1>4, <2>4, <3>1 DEF z
  <2> QED BY <2>3, <2>4
<1>7. WorldOK(y) /\ y.sig = w.sig /\ y.told = w.told
  BY RestUse, SettleStep
<1> HIDE DEF x, y
<1>8. WorldOK(u) /\ u.sig[s] = x /\ (\A t \in Signals \ {s} : u.sig[t] = y.sig[t]) /\ u.told = y.told
  BY <1>6, <1>7, SignalChange
<1> HIDE DEF u
<1>9. AtRest(u)
  BY <1>6, <1>7, <1>8, ResetRest
<1> QED BY <1>2, <1>9, ReadBack
-----------------------------------------------------------------------------
(* Among: the recursive function in it exists, and what it returns.        *)
Entry(list, S, kept, i) ==
  IF i = 0 THEN <<>>
  ELSE IF list[i] \in S THEN Append(kept[i - 1], list[i]) ELSE kept[i - 1]
KeptOf(list, S, n) == CHOOSE kept : kept = [i \in 0 .. n |-> Entry(list, S, kept, i)]

LEMMA KeptExists ==
  ASSUME NEW list, NEW S, NEW n \in Nat
  PROVE  \E kept : kept = [i \in 0 .. n |-> Entry(list, S, kept, i)]
<1> DEFINE Works(m) == \E kept : kept = [i \in 0 .. m |-> Entry(list, S, kept, i)]
           Fails == {m \in Nat : ~Works(m)}
<1>1. SUFFICES ASSUME Fails # {} PROVE FALSE
  OBVIOUS
<1>2. PICK m \in Fails : \A k \in Fails : m <= k
  <2>1. Fails \subseteq Nat
    OBVIOUS
  <2> HIDE DEF Fails
  <2> QED BY <1>1, <2>1, SmallestOf
<1>3. m # 0
  <2> DEFINE zero == [i \in 0 .. 0 |-> <<>>]
  <2>1. zero = [i \in 0 .. 0 |-> Entry(list, S, zero, i)]
    BY DEF Entry
  <2>2. Works(0)
    BY <2>1
  <2> QED BY <2>2
<1>4. PICK kept : kept = [i \in 0 .. m - 1 |-> Entry(list, S, kept, i)]
  <2>1. m - 1 \in Nat /\ m - 1 \notin Fails
    BY <1>2, <1>3
  <2> QED BY <2>1
<1> DEFINE more == [i \in 0 .. m |-> Entry(list, S, kept, i)]
<1>5. more = [i \in 0 .. m |-> Entry(list, S, more, i)]
  <2>1. \A i \in 0 .. m - 1 : more[i] = kept[i]
    BY <1>4
  <2>2. ASSUME NEW i \in 0 .. m
        PROVE  Entry(list, S, kept, i) = Entry(list, S, more, i)
    <3>1. i # 0 => more[i - 1] = kept[i - 1]
      <4>1. i # 0 => i - 1 \in 0 .. m - 1
        OBVIOUS
      <4> QED BY <4>1, <2>1
    <3> HIDE DEF more
    <3> QED BY <3>1 DEF Entry
  <2> QED BY <2>2
<1> QED BY <1>5

LEMMA AmongKept ==
  ASSUME NEW T, NEW list \in Seq(T), NEW S
  PROVE  LET kept == KeptOf(list, S, Len(list)) IN
         /\ Among(list, S) = kept[Len(list)]
         /\ \A i \in 0 .. Len(list) : kept[i] \in Seq(S \cap T) /\ kept[i] = Entry(list, S, kept, i)
<1> DEFINE kept == KeptOf(list, S, Len(list))
           Fails == {i \in 0 .. Len(list) : kept[i] \notin Seq(S \cap T)}
<1>1. kept = [i \in 0 .. Len(list) |-> Entry(list, S, kept, i)]
  BY KeptExists, SMTT(30) DEF KeptOf
<1>2. Among(list, S) = kept[Len(list)]
  BY DEF Among, KeptOf, Entry
<1> HIDE DEF kept
<1>3. ASSUME NEW i \in Fails, \A k \in Fails : i <= k
      PROVE  FALSE
  <2>1. kept[i] = Entry(list, S, kept, i)
    BY <1>1
  <2>2. CASE i = 0
    <3>1. kept[i] = <<>>
      BY <2>1, <2>2 DEF Entry
    <3>2. <<>> \in Seq(S \cap T)
      OBVIOUS
    <3> QED BY <3>1, <3>2
  <2>3. CASE i # 0
    <3>1. kept[i - 1] \in Seq(S \cap T)
      BY <1>3, <2>3
    <3>2. list[i] \in T
      BY <2>3
    <3>3. kept[i] = IF list[i] \in S THEN Append(kept[i - 1], list[i]) ELSE kept[i - 1]
      BY <2>1, <2>3 DEF Entry
    <3>4. kept[i] \in Seq(S \cap T)
      BY <3>1, <3>2, <3>3
    <3> QED BY <3>4
  <2> QED BY <2>2, <2>3
<1>4. Fails = {}
  <2>1. Fails \subseteq Nat
    OBVIOUS
  <2> HIDE DEF Fails
  <2> QED BY <1>3, <2>1, SmallestOf
<1>5. \A i \in 0 .. Len(list) : kept[i] \in Seq(S \cap T) /\ kept[i] = Entry(list, S, kept, i)
  BY <1>1, <1>4
<1> QED BY <1>2, <1>5 DEF kept

LEMMA AmongType ==
  ASSUME NEW T, NEW list \in Seq(T), NEW S
  PROVE  Among(list, S) \in Seq(S \cap T)
<1>1. Len(list) \in 0 .. Len(list)
  BY LenProperties
<1> QED BY <1>1, AmongKept

(* Sequences of entries each computed from an entry.                       *)
LEMMA MapType ==
  ASSUME NEW T, NEW list \in Seq(T), NEW R, NEW f, f = [i \in DOMAIN list |-> f[i]],
         \A i \in DOMAIN list : f[i] \in R
  PROVE  f \in Seq(R) /\ Vec(f) = f
<1>1. DOMAIN list = 1 .. Len(list) /\ Len(list) \in Nat
  BY LenProperties
<1>2. f \in [1 .. Len(list) -> R]
  BY <1>1
<1>3. f \in Seq(R)
  BY <1>1, <1>2, SeqDef
<1> QED BY <1>1, <1>2, <1>3, VecIs

LEMMA BatchSound ==
  ASSUME NEW w, AtRest(w), NEW new \in Seq(AnyCall), Typed(new),
         \A i \in DOMAIN new : new[i].fc \notin {"Release", "CallBack", "Fetch"}
  PROVE  Sound(Then(w, new), <<>>)
<1>1. WorldOK(w) /\ Pending(w, <<>>) /\ Idle(w)
  BY RestUse
<1>2. CASE new = <<>>
  BY <1>1, <1>2, DoneSound DEF Done
<1>3. CASE new # <<>>
  <2>1. 1 \in DOMAIN new
    BY <1>3, LenProperties, EmptySeq
  <2>2. new[1].on \in Signals
    BY <2>1 DEF AnyCall
  <2> QED BY <1>1, <2>2, CallsSound
<1> QED BY <1>2, <1>3

(* The calls that a call of the user begins with, and sequences of them.   *)
Visits == {c \in AnyCall : CallOK(c) /\ c.fc \notin {"Release", "CallBack", "Fetch"}}

LEMMA VisitsSound ==
  ASSUME NEW w, AtRest(w), NEW new \in Seq(Visits)
  PROVE  Sound(Then(w, new), <<>>)
<1>1. \A i \in DOMAIN new : new[i] \in Visits
  BY LenProperties
<1>2. new = [i \in DOMAIN new |-> new[i]]
  BY LenProperties, SeqDef
<1>3. new \in Seq(AnyCall)
  BY <1>1, <1>2, MapType DEF Visits
<1> QED BY <1>1, <1>3, BatchSound DEF Visits, Typed

LEMMA EachVisits ==
  ASSUME NEW vec \in Seq(Signals)
  PROVE  /\ \A fc \in {"FlipIOType", "AsBiIO", "SetZero"} :
              Each(fc, vec) \in Seq(Visits) /\ Vec(Each(fc, vec)) = Each(fc, vec)
         /\ \A fc \in {"AsWrite", "Observe", "Flush"}, m \in Modes :
              EachWith(fc, vec, m) \in Seq(Visits) /\ Vec(EachWith(fc, vec, m)) = EachWith(fc, vec, m)
<1>1. \A i \in DOMAIN vec : vec[i] \in Signals
  BY LenProperties
<1>2. ASSUME NEW fc \in {"FlipIOType", "AsBiIO", "SetZero"}
      PROVE  Each(fc, vec) \in Seq(Visits) /\ Vec(Each(fc, vec)) = Each(fc, vec)
  <2> DEFINE f == Each(fc, vec)
  <2>1. DOMAIN f = DOMAIN vec /\ f = [i \in DOMAIN vec |-> f[i]]
    BY DEF Each
  <2>2. ASSUME NEW i \in DOMAIN vec
        PROVE  f[i] \in Visits
    <3>1. f[i] = Do(fc, vec[i]) /\ vec[i] \in Signals
      BY <1>1 DEF Each
    <3>2. f[i] \in AnyCall /\ CallOK(f[i]) /\ f[i].fc = fc
      BY <3>1, CallTypes DEF Plain, Is
    <3> QED BY <3>2 DEF Visits
  <2> HIDE DEF f
  <2>3. f \in Seq(Visits) /\ Vec(f) = f
    BY <2>1, <2>2, MapType
  <2> QED BY <2>3 DEF f
<1>3. ASSUME NEW fc \in {"AsWrite", "Observe", "Flush"}, NEW m \in Modes
      PROVE  EachWith(fc, vec, m) \in Seq(Visits) /\ Vec(EachWith(fc, vec, m)) = EachWith(fc, vec, m)
  <2> DEFINE f == EachWith(fc, vec, m)
  <2>1. DOMAIN f = DOMAIN vec /\ f = [i \in DOMAIN vec |-> f[i]]
    BY DEF EachWith
  <2>2. ASSUME NEW i \in DOMAIN vec
        PROVE  f[i] \in Visits
    <3>1. f[i] = DoWith(fc, vec[i], m) /\ vec[i] \in Signals
      BY <1>1 DEF EachWith
    <3>2. f[i] \in AnyCall /\ CallOK(f[i]) /\ f[i].fc = fc
      BY <3>1, CallTypes DEF Plain, Is
    <3> QED BY <3>2 DEF Visits
  <2> HIDE DEF f
  <2>3. f \in Seq(Visits) /\ Vec(f) = f
    BY <2>1, <2>2, MapType
  <2> QED BY <2>3 DEF f
<1> QED BY <1>2, <1>3

(* FlattenSeq: the recursive function in it exists, and what it returns.   *)
Joined(seqs, flat, i) == IF i = 1 THEN seqs[i] ELSE flat[i - 1] \o seqs[i]
FlatOf(seqs, n) == CHOOSE flat : flat = [i \in 1 .. n |-> Joined(seqs, flat, i)]

LEMMA FlatExists ==
  ASSUME NEW seqs, NEW n \in Nat \ {0}
  PROVE  \E flat : flat = [i \in 1 .. n |-> Joined(seqs, flat, i)]
<1> DEFINE Works(m) == \E flat : flat = [i \in 1 .. m |-> Joined(seqs, flat, i)]
           Fails == {m \in Nat \ {0} : ~Works(m)}
<1>1. SUFFICES ASSUME Fails # {} PROVE FALSE
  OBVIOUS
<1>2. PICK m \in Fails : \A k \in Fails : m <= k
  <2>1. Fails \subseteq Nat
    OBVIOUS
  <2> HIDE DEF Fails
  <2> QED BY <1>1, <2>1, SmallestOf
<1>3. m # 1
  <2> DEFINE one == [i \in 1 .. 1 |-> seqs[1]]
  <2>1. one = [i \in 1 .. 1 |-> Joined(seqs, one, i)]
    BY DEF Joined
  <2>2. Works(1)
    BY <2>1
  <2> QED BY <2>2
<1>4. PICK flat : flat = [i \in 1 .. m - 1 |-> Joined(seqs, flat, i)]
  <2>1. m - 1 \in Nat \ {0} /\ m - 1 \notin Fails
    BY <1>2, <1>3
  <2> QED BY <2>1
<1> DEFINE more == [i \in 1 .. m |-> Joined(seqs, flat, i)]
<1>5. more = [i \in 1 .. m |-> Joined(seqs, more, i)]
  <2>1. \A i \in 1 .. m - 1 : more[i] = flat[i]
    BY <1>4
  <2>2. ASSUME NEW i \in 1 .. m
        PROVE  Joined(seqs, flat, i) = Joined(seqs, more, i)
    <3>1. i # 1 => more[i - 1] = flat[i - 1]
      <4>1. i # 1 => i - 1 \in 1 .. m - 1
        OBVIOUS
      <4> QED BY <4>1, <2>1
    <3> HIDE DEF more
    <3> QED BY <3>1 DEF Joined
  <2> QED BY <2>2
<1> QED BY <1>5

LEMMA FlatIs ==
  ASSUME NEW C, NEW seqs \in Seq(Seq(C)), Len(seqs) # 0
  PROVE  LET flat == FlatOf(seqs, Len(seqs)) IN
         /\ FlattenSeq(seqs) = flat[Len(seqs)]
         /\ \A i \in 1 .. Len(seqs) : flat[i] \in Seq(C) /\ flat[i] = Joined(seqs, flat, i)
<1> DEFINE flat == FlatOf(seqs, Len(seqs))
           Fails == {i \in 1 .. Len(seqs) : flat[i] \notin Seq(C)}
<1>0. Len(seqs) \in Nat /\ DOMAIN seqs = 1 .. Len(seqs) /\ \A i \in 1 .. Len(seqs) : seqs[i] \in Seq(C)
  BY LenProperties
<1>1. flat = [i \in 1 .. Len(seqs) |-> Joined(seqs, flat, i)]
  <2>1. Len(seqs) \in Nat \ {0}
    BY <1>0
  <2>2. \E any : any = [i \in 1 .. Len(seqs) |-> Joined(seqs, any, i)]
    BY <2>1, FlatExists
  <2> QED BY <2>2, Zenon DEF FlatOf
<1>2. FlattenSeq(seqs) = flat[Len(seqs)]
  BY DEF FlattenSeq, FlatOf, Joined
<1> HIDE DEF flat
<1>3. ASSUME NEW i \in Fails, \A k \in Fails : i <= k
      PROVE  FALSE
  <2>1. flat[i] = Joined(seqs, flat, i)
    BY <1>1
  <2>2. CASE i = 1
    BY <1>0, <2>1, <2>2 DEF Joined
  <2>3. CASE i # 1
    <3>1. flat[i - 1] \in Seq(C) /\ seqs[i] \in Seq(C)
      BY <1>0, <1>3, <2>3
    <3>2. flat[i] = flat[i - 1] \o seqs[i]
      BY <2>1, <2>3 DEF Joined
    <3>3. flat[i] \in Seq(C)
      BY <3>1, <3>2, ConcatProperties
    <3> QED BY <3>3
  <2> QED BY <2>2, <2>3
<1>4. Fails = {}
  <2>1. Fails \subseteq Nat
    OBVIOUS
  <2> HIDE DEF Fails
  <2> QED BY <1>3, <2>1, SmallestOf
<1>5. \A i \in 1 .. Len(seqs) : flat[i] \in Seq(C) /\ flat[i] = Joined(seqs, flat, i)
  BY <1>1, <1>4
<1> QED BY <1>2, <1>5 DEF flat

LEMMA FlattenType ==
  ASSUME NEW C, NEW seqs \in Seq(Seq(C))
  PROVE  FlattenSeq(seqs) \in Seq(C)
<1>0. Len(seqs) \in Nat
  BY LenProperties
<1>1. CASE Len(seqs) = 0
  BY <1>1, EmptySeq DEF FlattenSeq
<1>2. CASE Len(seqs) # 0
  <2>1. Len(seqs) \in 1 .. Len(seqs)
    BY <1>0, <1>2
  <2> QED BY <1>2, <2>1, FlatIs
<1> QED BY <1>1, <1>2

PortType == [Ports -> [list : SUBSET Names, vec : Seq(Signals)]]

LEMMA AllPortsVisit ==
  ASSUME PortAssumption, port \in PortType, NEW fc \in {"Observe", "Flush"}, NEW m \in Modes
  PROVE  AllPorts(fc, m) \in Seq(Visits)
<1> DEFINE f == [i \in DOMAIN Attached |-> EachWith(fc, port[Attached[i]].vec, m)]
<1>1. Attached \in Seq(Ports) /\ \A i \in DOMAIN Attached : Attached[i] \in Ports
  BY LenProperties DEF PortAssumption
<1>2. ASSUME NEW i \in DOMAIN Attached
      PROVE  f[i] \in Seq(Visits)
  <2>1. port[Attached[i]].vec \in Seq(Signals)
    BY <1>1 DEF PortType
  <2>2. EachWith(fc, port[Attached[i]].vec, m) \in Seq(Visits)
    BY <2>1, EachVisits
  <2> QED BY <2>2
<1>3. f = [i \in DOMAIN Attached |-> f[i]]
  OBVIOUS
<1> HIDE DEF f
<1>4. f \in Seq(Seq(Visits))
  BY <1>1, <1>2, <1>3, MapType
<1> QED BY <1>4, FlattenType DEF AllPorts, f
-----------------------------------------------------------------------------
(* The other calls of the user on one signal, and the device.              *)
LEMMA FittingIs ==
  ASSUME PortAssumption, NEW s \in Signals, NEW v \in Fitting(s)
  PROVE  v \in Vectors(s)
<1>1. v \in Seq(0 .. 3) /\ DOMAIN v = Bits(s)
  BY DEF Fitting, PortAssumption
<1>2. v \in [1 .. Len(v) -> 0 .. 3] /\ DOMAIN v = 1 .. Len(v)
  BY <1>1, LenProperties
<1> QED BY <1>1, <1>2 DEF Vectors

LEMMA AssignIntSound ==
  ASSUME NEW w, AtRest(w), NEW s \in Signals, NEW n \in Nat, mWidth[s] = 0 => n < 4
  PROVE  Sound(AssignInt(w, s, n), <<>>)
BY NumberIs, StoreSound DEF AssignInt

LEMMA AssignDataSound ==
  ASSUME NEW w, AtRest(w), NEW s \in Signals, NEW t \in Signals, mWidth[t] = mWidth[s]
  PROVE  Sound(AssignData(w, s, t), <<>>)
<1> DEFINE a == Do("UpdateRead", t)
           b == DoWith("Copy", s, t)
<1>1. /\ a \in AnyCall /\ CallOK(a) /\ Is(a, "UpdateRead", t)
      /\ b \in AnyCall /\ CallOK(b) /\ Is(b, "Copy", s)
  BY CallTypes DEF Plain
<1>2. a.fc = "UpdateRead" /\ b.fc = "Copy"
  BY <1>1 DEF Is
<1>3. AssignData(w, s, t) = Then(w, <<a, b>>)
  BY DEF AssignData
<1> HIDE DEF a, b
<1> QED BY <1>1, <1>2, <1>3, PairSound

LEMMA SetBitsStores ==
  ASSUME NEW w, AtRest(w), NEW s \in Signals, NEW v \in Vectors(s), NEW mask
  PROVE  \E x \in Vectors(s) : SetBits(w, s, v, mask) = StoreValue(w, s, x)
<1>1. \A i \in Bits(s) : v[i] \in 0 .. 3 /\ w.sig[s].local[i] \in 0 .. 3
  BY RestUse DEF Vectors
<1>2. \A i \in Bits(s) : v[i] % 2 \in 0 .. 3 /\ w.sig[s].local[i] % 2 \in 0 .. 3
  BY <1>1
<1>3. [i \in Bits(s) |-> IF i \in mask THEN v[i] % 2 ELSE w.sig[s].local[i] % 2] \in Vectors(s)
  BY <1>2 DEF Vectors
<1> QED BY <1>3 DEF SetBits

LEMMA SetBitsSound ==
  ASSUME NEW w, AtRest(w), NEW s \in Signals, NEW v \in Vectors(s), NEW mask
  PROVE  Sound(SetBits(w, s, v, mask), <<>>)
BY SetBitsStores, StoreSound

LEMMA InvertStores ==
  ASSUME NEW w, AtRest(w), NEW s \in Signals
  PROVE  \E x \in Vectors(s) : Invert(w, s) = StoreValue(w, s, x)
<1>1. \A i \in Bits(s) : w.sig[s].local[i] \in 0 .. 3
  BY RestUse DEF Vectors
<1>2. \A i \in Bits(s) : 1 - (w.sig[s].local[i] % 2) \in 0 .. 3
  BY <1>1
<1>3. [i \in Bits(s) |-> IF mWidth[s] = 0 /\ w.sig[s].local[i] > 1 THEN 0
                         ELSE 1 - (w.sig[s].local[i] % 2)] \in Vectors(s)
  BY <1>2 DEF Vectors
<1> QED BY <1>3 DEF Invert

LEMMA InvertSound ==
  ASSUME NEW w, AtRest(w), NEW s \in Signals
  PROVE  Sound(Invert(w, s), <<>>)
BY InvertStores, StoreSound

LEMMA SettleRest ==
  ASSUME NEW w, AtRest(w), NEW s \in Signals
  PROVE  AtRest(Settle(w, s))
BY RestUse, SettleStep DEF AtRest

LEMMA WaiveRest ==
  ASSUME NEW w, AtRest(w), NEW s \in Signals
  PROVE  AtRest(Waive(w, s))
BY SettleRest DEF Waive

LEMMA UpdateReadSound ==
  ASSUME NEW w, AtRest(w), NEW s \in Signals
  PROVE  Sound(UpdateRead(w, s), <<>>)
BY RestUse, UpdateReadStep

LEMMA RefreshSound ==
  ASSUME NEW w, AtRest(w), NEW s \in Signals, NEW m
  PROVE  Sound(ReadFresh(Waive(w, s), s, m), <<>>)
<1> DEFINE y == Waive(w, s)
<1>1. WorldOK(y) /\ Pending(y, <<>>) /\ Idle(y)
  BY WaiveRest, RestUse
<1> HIDE DEF y
<1>2. Sound(ReadFresh(y, s, m), <<>>)
  BY <1>1, ReadFreshStep
<1> QED BY <1>2 DEF y

LEMMA DirectSound ==
  ASSUME NEW w, AtRest(w), NEW s \in Signals
  PROVE  Sound(WriteDirect(w, s), <<>>)
BY RestUse, WriteOutStep DEF WriteDirect

LEMMA OnChangeSound ==
  ASSUME NEW w, AtRest(w), NEW s \in Signals
  PROVE  Sound(OnChange(w, s, "user"), <<>>)
BY RestUse, OnChangeStep DEF Listeners

LEMMA ConnectSound ==
  ASSUME NEW w, AtRest(w), NEW s \in Signals, NEW t \in Signals, mWidth[t] = mWidth[s]
  PROVE  Sound(Connect(w, s, t), <<>>)
BY RestUse, ConnectStep

LEMMA SetWriteModeRest ==
  ASSUME NEW w, AtRest(w), NEW s \in Signals, NEW m \in Modes
  PROVE  AtRest(SetWriteMode(w, s, m))
BY RestUse, SetWriteModeStep DEF AtRest

LEMMA SetIORest ==
  ASSUME NEW w, AtRest(w), NEW s \in Signals, NEW io \in Directions
  PROVE  AtRest(SetIO(w, s, io))
BY RestUse, SetIOStep DEF AtRest

LEMMA FlipRest ==
  ASSUME NEW w, AtRest(w), NEW s \in Signals
  PROVE  AtRest(FlipIOType(w, s))
BY RestUse, FlipStep DEF AtRest

LEMMA DrivenRest ==
  ASSUME PortAssumption, AtRest(World), NEW d,
         \A p \in DevicePins : d[p] \in DeviceValues[p]
  PROVE  AtRest(Driven(d))
<1> DEFINE w == World
           u == Driven(d)
           f == w.foreign \cup {s \in Signals : sig[s].wr.from = "pin" /\ sig[s].wr.pin \in DevicePins}
           g == [p \in Pins |-> IF p \in DevicePins THEN d[p] ELSE w.pin[p]]
<1>1. WorldOK(w)
  BY RestUse
<1>2. u = [w EXCEPT !.pin = g, !.foreign = f]
  BY DEF Driven
<1>3. f \subseteq Signals
  BY <1>1 DEF WorldOK
<1> HIDE DEF f
<1>4. \A p \in Pins : g[p] \in Storage(p)
  <2>1. \A p \in DevicePins : d[p] \in Storage(p)
    BY DEF PortAssumption
  <2>2. \A p \in Pins : w.pin[p] \in Storage(p)
    BY <1>1 DEF WorldOK
  <2> QED BY <2>1, <2>2
<1>5. g \in [Pins -> AnyVector]
  BY <1>4 DEF AnyVector
<1> HIDE DEF g, w
<1>6. /\ u.sig = w.sig /\ u.asked = w.asked /\ u.told = w.told /\ u.pin = g /\ u.foreign = f
      /\ u \in [sig : [Signals -> AnySignal], pin : [Pins -> AnyVector], asked : [Signals -> AnyVector],
                told : [Signals -> AnyVector], foreign : SUBSET Signals, late : SUBSET Signals, within : SUBSET Signals]
  BY <1>1, <1>2, <1>3, <1>5 DEF g, WorldOK
<1> HIDE DEF u
<1>7. WorldOK(u)
  BY <1>1, <1>4, <1>6 DEF WorldOK, g
<1>8. AtRest(w)
  BY DEF w
<1>9. AtRest(u)
  <2>1. Free(w) /\ \A s \in Signals : Watched(w, s) => w.told[s] \in {None, w.sig[s].shadow} /\ Knows(w, s)
    BY <1>8, RestIs
  <2>2. Free(u) /\ \A s \in Signals : Watched(u, s) => u.told[s] \in {None, u.sig[s].shadow} /\ Knows(u, s)
    BY <1>6, <2>1 DEF Free, Watched, Knows
  <2> QED BY <1>7, <2>2, RestIs
<1> QED BY <1>9 DEF u
-----------------------------------------------------------------------------
(* Between any two calls of the user, and between the passes of an edge,   *)
(* the world is at rest; no action of XPort disturbs it.                   *)
Safe ==
  /\ AtRest(World) /\ port \in PortType /\ edge \in {"none", "Rise", "Fall"} /\ late \subseteq Signals
  /\ calls \in 0 .. MaxCalls /\ setups \in 0 .. MaxSetup

LEMMA DoneRest ==
  ASSUME NEW u, AtRest(u)
  PROVE  Sound(Done(u), <<>>)
BY DoneSound DEF AtRest

LEMMA UserCall ==
  ASSUME Safe, PortAssumption, NEW m, Sound(m, <<>>), Call(m) \/ Setup(m)
  PROVE  Safe'
<1>1. AtRest(World')
  BY ReturnStep DEF Call, Setup, Safe
<1>2. port' \in PortType /\ edge' \in {"none", "Rise", "Fall"} /\ late' \subseteq Signals
  BY DEF Call, Setup, Safe
<1>3. calls' \in 0 .. MaxCalls /\ setups' \in 0 .. MaxSetup
  BY DEF Call, Setup, Safe, PortAssumption
<1> QED BY <1>1, <1>2, <1>3 DEF Safe

LEMMA AssignKeeps ==
  ASSUME Safe, PortAssumption, Assign
  PROVE  Safe'
<1> DEFINE w == World
<1>0. AtRest(w) /\ Writeable \subseteq Signals /\ Ints \subseteq Nat
  BY DEF Safe, Writeable, PortAssumption
<1> HIDE DEF w
<1>1. PICK s \in Signals :
         \/ \E n \in Nat : (mWidth[s] = 0 => n < 4) /\ (Call(AssignInt(w, s, n)) \/ Call(ImmSet(w, s, n)))
         \/ \E t \in Signals : mWidth[t] = mWidth[s] /\ Call(AssignData(w, s, t))
         \/ \E v \in Fitting(s) : Call(StoreValue(w, s, v))
         \/ \E b \in {2, 3} : Call(FillText(w, s, b))
         \/ \E v \in Fitting(s), i \in Bits(s) : Call(SetBits(w, s, v, {i}))
         \/ Call(Invert(w, s))
  BY <1>0 DEF Assign, AssignText, w
<1>2. ASSUME NEW n \in Nat, mWidth[s] = 0 => n < 4, Call(AssignInt(w, s, n)) \/ Call(ImmSet(w, s, n))
      PROVE  Safe'
  BY <1>0, <1>2, AssignIntSound, ImmSetSound, UserCall
<1>3. ASSUME NEW t \in Signals, mWidth[t] = mWidth[s], Call(AssignData(w, s, t))
      PROVE  Safe'
  BY <1>0, <1>3, AssignDataSound, UserCall
<1>4. ASSUME NEW v \in Fitting(s), Call(StoreValue(w, s, v))
      PROVE  Safe'
  BY <1>0, <1>4, FittingIs, StoreSound, UserCall
<1>5. ASSUME NEW b \in {2, 3}, Call(FillText(w, s, b))
      PROVE  Safe'
  <2>1. b \in 0 .. 3
    OBVIOUS
  <2> QED BY <1>0, <1>5, <2>1, FillSound, UserCall
<1>6. ASSUME NEW v \in Fitting(s), NEW mask, Call(SetBits(w, s, v, mask))
      PROVE  Safe'
  BY <1>0, <1>6, FittingIs, SetBitsSound, UserCall
<1>7. ASSUME Call(Invert(w, s))
      PROVE  Safe'
  BY <1>0, <1>7, InvertSound, UserCall
<1> QED BY <1>1, <1>2, <1>3, <1>4, <1>5, <1>6, <1>7

LEMMA PinKeeps ==
  ASSUME Safe, PortAssumption, PinSet \/ Read \/ Refresh \/ Direct
  PROVE  Safe'
<1> DEFINE w == World
<1>0. AtRest(w) /\ Levels \subseteq 0 .. 3
  BY DEF Safe, PortAssumption
<1> HIDE DEF w
<1>1. CASE PinSet
  <2>1. PICK s \in Signals : \E i \in Bits(s), b \in Levels : Call(SetPin(w, s, i, b))
    BY <1>1 DEF PinSet, w
  <2>2. PICK i \in Bits(s), b \in Levels : Call(SetPin(w, s, i, b))
    BY <2>1
  <2>3. b \in 0 .. 3
    BY <1>0
  <2>4. Sound(SetPin(w, s, i, b), <<>>)
    BY <1>0, <2>3, SetPinSound
  <2> QED BY <2>2, <2>4, UserCall
<1>2. CASE Read
  BY <1>0, <1>2, UpdateReadSound, UserCall DEF Read, w
<1>3. CASE Refresh
  BY <1>0, <1>3, RefreshSound, UserCall DEF Refresh, w
<1>4. CASE Direct
  BY <1>0, <1>4, DirectSound, UserCall DEF Direct, w
<1> QED BY <1>1, <1>2, <1>3, <1>4

LEMMA SameWidth ==
  ASSUME NEW s \in Signals, NEW t \in Signals, Bits(s) = Bits(t)
  PROVE  Width(s) = Width(t)
<1>1. Width(s) \in Nat \ {0} /\ Width(t) \in Nat \ {0} /\ 1 .. Width(s) = 1 .. Width(t)
  BY WidthFacts
<1>2. Width(s) \in 1 .. Width(t) /\ Width(t) \in 1 .. Width(s)
  BY <1>1
<1> QED BY <1>1, <1>2

LEMMA ConfigureKeeps ==
  ASSUME Safe, PortAssumption, Configure
  PROVE  Safe'
<1> DEFINE w == World
<1>0. AtRest(w) /\ w.sig = sig
  BY DEF Safe, World
<1> HIDE DEF w
<1>1. PICK s \in Signals :
    \/ \E m \in Modes : Setup(Done(SetWriteMode(w, s, m)))
    \/ \E io \in Directions : Setup(Done(SetIO(w, s, io))) \/ Setup(Done(ReInit(w, s, io)))
    \/ Setup(Done(FlipIOType(w, s)))
    \/ \E b \in BOOLEAN : Setup(Done(SetIgnoreSame(w, s, b)))
    \/ \E p \in Pins : PinWidth[p] = Width(s) /\ (Setup(BindPin(w, s, p)) \/ Setup(Done(BindMixFromUvs(w, s, p))))
    \/ \E t \in Signals : Bits(s) = Bits(t) /\ Setup(BindExpr(w, s, t))
    \/ Setup(BindConst(w, s, Vec(Number(s, 1))))
    \/ \E p \in Signals : \E at \in 0 .. (mWidth[p] - Width(s)) : Setup(SubDataRef(w, s, p, at))
    \/ Setup(OnChange(w, s, "user"))
    \/ Setup(Done(ClearOnChangeCbs(w, s)))
    \/ \E t \in Signals : mWidth[t] = mWidth[s] /\ Setup(Connect(w, s, t))
  <2>1. \A s \in Signals : (~sig[s].same) \in BOOLEAN
    OBVIOUS
  <2>2. \A s, t : Linkable(w, s, t) => mWidth[t] = mWidth[s]
    BY DEF Linkable
  <2> QED BY <2>1, <2>2, Zenon DEF Configure, Modes, Directions, w
<1>2. ASSUME NEW m \in Modes, Setup(Done(SetWriteMode(w, s, m)))
      PROVE  Safe'
  BY <1>0, <1>2, SetWriteModeRest, DoneRest, UserCall
<1>3. ASSUME NEW io \in Directions, Setup(Done(SetIO(w, s, io))) \/ Setup(Done(ReInit(w, s, io)))
      PROVE  Safe'
  BY <1>0, <1>3, SetIORest, ReInitRest, DoneRest, UserCall
<1>4. ASSUME Setup(Done(FlipIOType(w, s)))
      PROVE  Safe'
  BY <1>0, <1>4, FlipRest, DoneRest, UserCall
<1>5. ASSUME NEW b \in BOOLEAN, Setup(Done(SetIgnoreSame(w, s, b)))
      PROVE  Safe'
  BY <1>0, <1>5, IgnoreSameRest, DoneRest, UserCall
<1>6. ASSUME NEW p \in Pins, PinWidth[p] = Width(s), Setup(BindPin(w, s, p)) \/ Setup(Done(BindMixFromUvs(w, s, p)))
      PROVE  Safe'
  BY <1>0, <1>6, BindPinSound, BindMixRest, DoneRest, UserCall
<1>7. ASSUME NEW t \in Signals, Bits(s) = Bits(t), Setup(BindExpr(w, s, t))
      PROVE  Safe'
  BY <1>0, <1>7, SameWidth, BindExprSound, UserCall
<1>8. ASSUME Setup(BindConst(w, s, Vec(Number(s, 1))))
      PROVE  Safe'
  <2>1. Number(s, 1) \in Vectors(s)
    BY NumberIs
  <2>2. Vec(Number(s, 1)) \in Vectors(s)
    BY <2>1, VectorIs
  <2> QED BY <1>0, <1>8, <2>2, BindConstSound, UserCall
<1>9. ASSUME NEW p \in Signals, NEW at \in 0 .. (mWidth[p] - Width(s)), Setup(SubDataRef(w, s, p, at))
      PROVE  Safe'
  BY <1>0, <1>9, SubDataRefSound, UserCall
<1>10. ASSUME Setup(OnChange(w, s, "user"))
      PROVE  Safe'
  BY <1>0, <1>10, OnChangeSound, UserCall
<1>11. ASSUME Setup(Done(ClearOnChangeCbs(w, s)))
      PROVE  Safe'
  BY <1>0, <1>11, ClearRest, DoneRest, UserCall
<1>12. ASSUME NEW t \in Signals, mWidth[t] = mWidth[s], Setup(Connect(w, s, t))
      PROVE  Safe'
  BY <1>0, <1>12, ConnectSound, UserCall
<1> QED BY <1>1, <1>2, <1>3, <1>4, <1>5, <1>6, <1>7, <1>8, <1>9, <1>10, <1>11, <1>12

LEMMA PortCallKeeps ==
  ASSUME Safe, PortAssumption, PortCall
  PROVE  Safe'
<1> DEFINE w == World
<1>0. AtRest(w)
  BY DEF Safe
<1> HIDE DEF w
<1>1. PICK p \in Ports :
         \/ \E fc \in {"FlipIOType", "AsBiIO", "SetZero"} : Setup(Then(w, Vec(Each(fc, port[p].vec))))
         \/ \E m \in Modes : Setup(Then(w, Vec(EachWith("AsWrite", port[p].vec, m))))
  BY DEF PortCall, Modes, w
<1>2. port[p].vec \in Seq(Signals)
  BY DEF Safe, PortType
<1>3. ASSUME NEW fc \in {"FlipIOType", "AsBiIO", "SetZero"}, Setup(Then(w, Vec(Each(fc, port[p].vec))))
      PROVE  Safe'
  <2>1. Vec(Each(fc, port[p].vec)) \in Seq(Visits)
    BY <1>2, EachVisits
  <2> QED BY <1>0, <1>3, <2>1, VisitsSound, UserCall
<1>4. ASSUME NEW m \in Modes, Setup(Then(w, Vec(EachWith("AsWrite", port[p].vec, m))))
      PROVE  Safe'
  <2>1. Vec(EachWith("AsWrite", port[p].vec, m)) \in Seq(Visits)
    BY <1>2, EachVisits
  <2> QED BY <1>0, <1>4, <2>1, VisitsSound, UserCall
<1> QED BY <1>1, <1>3, <1>4

LEMMA PortConnectKeeps ==
  ASSUME Safe, PortAssumption, PortConnect
  PROVE  Safe'
<1> DEFINE w == World
<1>0. AtRest(w)
  BY DEF Safe
<1> HIDE DEF w
<1>1. PICK p \in Ports, q \in Ports :
         LET pairs == Among(NameOrder, {n \in port[p].list : Has(q, Peer[n])})
         IN  /\ \A i \in DOMAIN pairs : Linkable(w, Wire[pairs[i]], Wire[Peer[pairs[i]]])
             /\ Setup(Then(w, [i \in DOMAIN pairs |-> DoWith("Connect", Wire[pairs[i]], Wire[Peer[pairs[i]]])]))
  BY Zenon DEF PortConnect, w
<1> DEFINE pairs == Among(NameOrder, {n \in port[p].list : Has(q, Peer[n])})
           f == [i \in DOMAIN pairs |-> DoWith("Connect", Wire[pairs[i]], Wire[Peer[pairs[i]]])]
<1>2. pairs \in Seq({n \in port[p].list : Has(q, Peer[n])} \cap Names)
  BY AmongType DEF PortAssumption
<1>3. (\A i \in DOMAIN pairs : Linkable(w, Wire[pairs[i]], Wire[Peer[pairs[i]]])) /\ Setup(Then(w, f))
  BY <1>1
<1> HIDE DEF pairs
<1>4. ASSUME NEW i \in DOMAIN pairs
      PROVE  f[i] \in Visits
  <2> DEFINE s == Wire[pairs[i]]
             t == Wire[Peer[pairs[i]]]
  <2>1. pairs[i] \in Names
    BY <1>2
  <2>2. s \in Signals /\ t \in Signals
    BY <2>1 DEF PortAssumption
  <2>3. mWidth[t] = mWidth[s]
    BY <1>3 DEF Linkable
  <2> HIDE DEF s, t
  <2>4. DoWith("Connect", s, t) \in AnyCall /\ CallOK(DoWith("Connect", s, t)) /\ Is(DoWith("Connect", s, t), "Connect", s)
    BY <2>2, <2>3, CallTypes
  <2>5. DoWith("Connect", s, t) \in Visits
    BY <2>4 DEF Visits, Is
  <2> QED BY <2>5 DEF s, t
<1>5. f = [i \in DOMAIN pairs |-> f[i]]
  OBVIOUS
<1> HIDE DEF f
<1>6. f \in Seq(Visits)
  BY <1>2, <1>4, <1>5, MapType
<1> QED BY <1>0, <1>3, <1>6, VisitsSound, UserCall

LEMMA WiredType ==
  ASSUME PortAssumption, NEW order \in Seq(Names)
  PROVE  [i \in DOMAIN order |-> Wire[order[i]]] \in Seq(Signals)
<1> DEFINE f == [i \in DOMAIN order |-> Wire[order[i]]]
<1>1. \A i \in DOMAIN order : f[i] \in Signals
  BY DEF PortAssumption
<1>2. f = [i \in DOMAIN order |-> f[i]]
  OBVIOUS
<1> HIDE DEF f
<1>3. f \in Seq(Signals)
  BY <1>1, <1>2, MapType
<1> QED BY <1>3 DEF f

LEMMA PortTypes ==
  ASSUME PortAssumption, port \in PortType, NEW p \in Ports
  PROVE  LET T == [list : SUBSET Names, vec : Seq(Signals)] IN
         /\ port[p] \in T /\ NewSubPort(p) \in T
         /\ \A n \in Names : Add(p, n) \in T /\ Del(p, n) \in T
         /\ \A a, b \in Names : SelectPins(p, <<a, b>>) \in T
<1> DEFINE T == [list : SUBSET Names, vec : Seq(Signals)]
<1>1. port[p] \in T /\ port[p].list \subseteq Names /\ port[p].vec \in Seq(Signals)
  BY DEF PortType
<1>2. NewSubPort(p) \in T
  <2> DEFINE names == port[p].list \cap Under
             order == Among(NameOrder, names)
  <2>1. order \in Seq(names \cap Names) /\ names \subseteq Names
    BY <1>1, AmongType DEF PortAssumption
  <2> HIDE DEF order
  <2>2. order \in Seq(Names)
    BY <2>1
  <2>3. [i \in DOMAIN order |-> Wire[order[i]]] \in Seq(Signals)
    BY <2>2, WiredType
  <2> QED BY <2>1, <2>3 DEF NewSubPort, InPort, order
<1>3. ASSUME NEW n \in Names
      PROVE  Add(p, n) \in T /\ Del(p, n) \in T
  <2>1. Wire[n] \in Signals
    BY DEF PortAssumption
  <2>2. Append(port[p].vec, Wire[n]) \in Seq(Signals)
    BY <1>1, <2>1
  <2>3. Add(p, n) \in T
    BY <1>1, <2>2 DEF Add
  <2> DEFINE others == Among(port[p].vec, Signals \ {Wire[n]})
  <2>4. others \in Seq((Signals \ {Wire[n]}) \cap Signals)
    BY <1>1, AmongType
  <2> HIDE DEF others
  <2>5. others \in Seq(Signals)
    BY <2>4
  <2>6. Del(p, n) \in T
    BY <1>1, <2>5 DEF Del, others
  <2> QED BY <2>3, <2>6
<1>4. ASSUME NEW a \in Names, NEW b \in Names
      PROVE  SelectPins(p, <<a, b>>) \in T
  <2> DEFINE known == Among(<<a, b>>, port[p].list)
  <2>1. <<a, b>> \in Seq(Names)
    OBVIOUS
  <2>2. known \in Seq(port[p].list \cap Names)
    BY <2>1, AmongType
  <2> HIDE DEF known
  <2>3. known \in Seq(Names) /\ \A i \in DOMAIN known : known[i] \in Names
    BY <2>2
  <2>4. ToSet(known) \subseteq Names
    BY <2>3 DEF ToSet
  <2>5. [i \in DOMAIN known |-> Wire[known[i]]] \in Seq(Signals)
    BY <2>3, WiredType
  <2> QED BY <2>4, <2>5 DEF SelectPins, known
<1> QED BY <1>1, <1>2, <1>3, <1>4

LEMMA EditKeeps ==
  ASSUME Safe, PortAssumption, EditPort
  PROVE  Safe'
<1> DEFINE T == [list : SUBSET Names, vec : Seq(Signals)]
<1>1. port \in PortType
  BY DEF Safe
<1>2. PICK p \in Ports, q \in Ports :
         \/ \E n \in Names : port' = [port EXCEPT ![p] = Add(p, n)]
         \/ \E n \in Names : port' = [port EXCEPT ![p] = Del(p, n)]
         \/ port' = [port EXCEPT ![q] = NewSubPort(p)]
         \/ \E a, b \in Names : port' = [port EXCEPT ![q] = SelectPins(p, <<a, b>>)]
         \/ port' = [port EXCEPT ![q] = port[p]]
  BY DEF EditPort
<1>3. \E r \in Ports : \E x \in T : port' = [port EXCEPT ![r] = x]
  BY <1>1, <1>2, PortTypes, Zenon
<1>4. port' \in PortType
  BY <1>1, <1>3 DEF PortType
<1>5. World' = World
  BY DEF EditPort, World
<1>6. edge' = edge /\ calls' = calls /\ setups' \in 0 .. MaxSetup /\ late' \subseteq Signals
  BY DEF EditPort, Safe, PortAssumption
<1> QED BY <1>4, <1>5, <1>6 DEF Safe

LEMMA EdgeKeeps ==
  ASSUME Safe, PortAssumption, WriteEdge \/ ReadEdge
  PROVE  Safe'
<1>0. AtRest(World) /\ port \in PortType
  BY DEF Safe
<1>1. CASE WriteEdge
  <2>1. PICK e \in {"Rise", "Fall"} :
           LET m == Then(World, AllPorts("Flush", e)) IN
           /\ edge' = e /\ Run(m).todo = <<>> /\ Become(Run(m).world)
           /\ late' = {s \in Run(m).world.late : ~Delivered(Run(m).world, s)}
    BY <1>1 DEF WriteEdge
  <2>2. AllPorts("Flush", e) \in Seq(Visits)
    BY <1>0, AllPortsVisit DEF Modes
  <2>3. Sound(Then(World, AllPorts("Flush", e)), <<>>)
    BY <1>0, <2>2, VisitsSound
  <2> DEFINE x == Run(Then(World, AllPorts("Flush", e))).world
  <2>4. AtRest(x)
    BY <2>1, <2>3, RunRest
  <2>5. late' \subseteq Signals
    <3>1. WorldOK(x)
      BY <2>4, RestUse
    <3>2. x.late \subseteq Signals
      BY <3>1 DEF WorldOK
    <3> QED BY <2>1, <3>2
  <2>6. AtRest(World')
    BY <2>1, <2>4, <2>5, BecomeRest
  <2> QED BY <1>1, <2>1, <2>5, <2>6 DEF WriteEdge, Safe
<1>2. CASE ReadEdge
  <2>1. PICK d \in [DevicePins -> UNION {DeviceValues[p] : p \in DevicePins}] :
           LET r == Run(Then(Driven(d), AllPorts("Observe", edge))) IN
           /\ \A p \in DevicePins : d[p] \in DeviceValues[p]
           /\ r.todo = <<>> /\ Become(Forgets(r.world, edge))
    BY <1>2 DEF ReadEdge
  <2>2. edge \in Modes
    BY <1>2 DEF ReadEdge, Safe, Modes
  <2>3. AllPorts("Observe", edge) \in Seq(Visits)
    BY <1>0, <2>2, AllPortsVisit
  <2>4. AtRest(Driven(d))
    BY <1>0, <2>1, DrivenRest
  <2>5. Sound(Then(Driven(d), AllPorts("Observe", edge)), <<>>)
    BY <2>3, <2>4, VisitsSound
  <2>6. late' = {}
    BY <1>2 DEF ReadEdge
  <2>7. AtRest(World')
    BY <2>1, <2>5, <2>6, RunRest, ForgetsRest, BecomeRest
  <2> QED BY <1>2, <2>6, <2>7 DEF ReadEdge, Safe
<1> QED BY <1>1, <1>2

LEMMA InitSafe ==
  ASSUME PortAssumption, Init
  PROVE  Safe
<1>1. PICK io \in [Signals -> Directions], pins \in [Pins -> UNION {Storage(p) : p \in Pins}] :
         (\A p \in Pins : pins[p] \in Storage(p)) /\ Begin(NewWorld(io, pins), [p \in Ports |-> NewPort])
  BY DEF Init, Directions
<1> DEFINE w == NewWorld(io, pins)
<1>2. World = w
  BY <1>1 DEF Begin, World, NewWorld
<1>3. /\ w.sig = [s \in Signals |-> Fresh(s, io[s])] /\ w.pin = pins /\ w.asked = [s \in Signals |-> None]
      /\ w.told = [s \in Signals |-> Zero(s)] /\ w.foreign = {}
      /\ w = [sig |-> w.sig, pin |-> w.pin, asked |-> w.asked, told |-> w.told, foreign |-> w.foreign, late |-> w.late,
               within |-> w.within]
      /\ w.late = {} /\ w.within = {}
  BY DEF NewWorld
<1> HIDE DEF w
<1>4. ASSUME NEW s \in Signals
      PROVE  /\ w.sig[s] \in SignalType(s) /\ w.sig[s].wr.from \notin {"const", "expr"} /\ ~w.sig[s].busy
             /\ w.sig[s].cbs = <<>> /\ w.asked[s] = None /\ w.told[s] \in Vectors(s)
  <2>1. io[s] \in Directions /\ Zero(s) \in Vectors(s) /\ <<>> \in Seq(Listeners(s)) /\ "Rise" \in Modes
    BY ZeroIs DEF Modes
  <2>2. Unbound \in Readers(s) /\ Unbound.from = "none"
    BY DEF Readers, Unbound
  <2> DEFINE x == Fresh(s, io[s])
  <2>3. x \in SignalType(s) /\ x.wr = Unbound /\ x.busy = FALSE /\ x.cbs = <<>>
    BY <2>1, <2>2 DEF Fresh, SignalType
  <2> HIDE DEF x
  <2>4. w.sig[s] = x
    BY <1>3 DEF x
  <2> QED BY <1>3, <2>1, <2>2, <2>3, <2>4
<1>5. WorldOK(w)
  <2>1. w.sig \in [Signals -> AnySignal]
    BY <1>3, <1>4 DEF AnySignal
  <2>2. w.asked \in [Signals -> AnyVector] /\ w.told \in [Signals -> AnyVector]
    BY <1>3, <1>4 DEF AnyVector
  <2>3. w.pin \in [Pins -> AnyVector] /\ \A p \in Pins : w.pin[p] \in Storage(p)
    BY <1>1, <1>3 DEF AnyVector
  <2> QED BY <1>3, <1>4, <2>1, <2>2, <2>3 DEF WorldOK
<1>6. AtRest(w)
  <2>1. Free(w) /\ \A s \in Signals : ~Watched(w, s)
    BY <1>4 DEF Free, Watched
  <2> QED BY <1>5, <2>1, RestIs
<1>7. port \in PortType
  <2>1. NewPort \in [list : SUBSET Names, vec : Seq(Signals)]
    BY DEF NewPort
  <2>2. port = [p \in Ports |-> NewPort]
    BY <1>1 DEF Begin
  <2> QED BY <2>1, <2>2 DEF PortType
<1>8. edge = "none" /\ calls \in 0 .. MaxCalls /\ setups \in 0 .. MaxSetup /\ late \subseteq Signals
  BY <1>1 DEF Begin, PortAssumption
<1> QED BY <1>2, <1>6, <1>7, <1>8 DEF Safe

LEMMA NextSafe ==
  ASSUME PortAssumption, Safe, [Next]_vars
  PROVE  Safe'
<1>1. CASE UNCHANGED vars
  BY <1>1 DEF vars, Safe, World
<1>2. CASE Next
  BY <1>2, AssignKeeps, PinKeeps, ConfigureKeeps, PortCallKeeps, EditKeeps, PortConnectKeeps, EdgeKeeps DEF Next
<1> QED BY <1>1, <1>2
-----------------------------------------------------------------------------
LEMMA SafeAlways == Spec => []Safe
<1>1. PortAssumption
  BY PortAssumption
<1>2. Init => Safe
  BY <1>1, InitSafe
<1>3. Safe /\ [Next]_vars => Safe'
  BY <1>1, NextSafe
<1> QED BY <1>2, <1>3, PTL DEF Spec

(* Whatever the user, the ports and the edges do, in any order and through *)
(* any chain of views, links and callbacks: every field of every signal    *)
(* and pin stays in its range, and no call returns with a signal still     *)
(* marked busy, so that no later change of it is swallowed.                *)
THEOREM TypeCorrect == Spec => []TypeOK
<1>1. Safe => TypeOK
  <2> SUFFICES ASSUME Safe PROVE TypeOK
    OBVIOUS
  <2> DEFINE w == World
  <2>1. WorldOK(w) /\ Free(w)
    BY RestUse DEF Safe
  <2>2. w.sig = sig /\ w.pin = pin /\ w.asked = asked /\ w.told = told /\ w.foreign = foreign
    BY DEF World
  <2> HIDE DEF w
  <2>3. ASSUME NEW s \in Signals
        PROVE  /\ sig[s].local \in Vectors(s) /\ sig[s].shadow \in Vectors(s)
               /\ sig[s].last \in Vectors(s) \cup {None}
               /\ sig[s].io \in {"Input", "Output", "InOut"} /\ sig[s].mode \in {"Imme", "Rise", "Fall"}
               /\ ~sig[s].busy /\ sig[s].same \in BOOLEAN /\ sig[s].readonly \in BOOLEAN
               /\ sig[s].cbs \in Seq(Signals \cup {"user"})
               /\ asked[s] \in Vectors(s) \cup {None} /\ told[s] \in Vectors(s) \cup {None}
    <3>1. sig[s] \in SignalType(s) /\ ~sig[s].busy
      BY <2>1, <2>2 DEF WorldOK, Free
    <3>2. sig[s].cbs \in Seq(Listeners(s)) /\ Listeners(s) \subseteq Signals \cup {"user"}
      BY <3>1 DEF SignalType, Listeners
    <3>3. sig[s].cbs \in Seq(Signals \cup {"user"})
      BY <3>2
    <3>4. asked[s] \in Vectors(s) \cup {None} /\ told[s] \in Vectors(s) \cup {None}
      BY <2>1, <2>2 DEF WorldOK
    <3> QED BY <3>1, <3>3, <3>4 DEF SignalType, Directions, Modes
  <2>4. (\A p \in Pins : pin[p] \in Storage(p)) /\ foreign \subseteq Signals
    BY <2>1, <2>2 DEF WorldOK
  <2> QED BY <2>3, <2>4 DEF TypeOK, Safe, PortType
<1> QED BY <1>1, SafeAlways, PTL

(* No path through the code - an assignment, a write to a bit or a slice,  *)
(* a read, a refresh at an edge, a rebinding, a chain or a cycle of links, *)
(* what callbacks assign in turn - changes the cached value of a signal    *)
(* that the user observes without the callback hearing of it; except, by   *)
(* the code's design, a fill, a ReInit, and what the user's own calls do   *)
(* to a signal while its callbacks run, until the signal is next announced.*)
THEOREM ObserversCurrent == Spec => []ObserverIsCurrent
<1>1. Safe => ObserverIsCurrent
  <2> SUFFICES ASSUME Safe, NEW s \in Signals, "user" \in ToSet(sig[s].cbs)
               PROVE  told[s] \in {None, sig[s].local}
    BY DEF ObserverIsCurrent
  <2> DEFINE w == World
  <2>1. \A t \in Signals : Watched(w, t) => Knows(w, t)
    BY RestIs DEF Safe
  <2>2. w.sig = sig /\ w.told = told
    BY DEF World
  <2> HIDE DEF w
  <2>3. Watched(w, s)
    BY <2>2 DEF Watched, ToSet
  <2> QED BY <2>1, <2>2, <2>3 DEF Knows
<1> QED BY <1>1, SafeAlways, PTL
-----------------------------------------------------------------------------
(* What is on its way to the pins.  An Input that reads back the pin it    *)
(* writes owes it the value last asked for.  During the passes of the edge *)
(* e, due are the signals the write pass has been called for, and seen     *)
(* those the refresh pass is called for.                                   *)
Owed(w, s) ==
  w.sig[s].io = "Input" /\ w.sig[s].wr.from = "pin" /\ w.sig[s].rd = w.sig[s].wr /\ w.asked[s] # None
OnPin(w, s)  == w.pin[w.sig[s].wr.pin] = Stored(w.sig[s].wr.pin, w.asked[s])
Flushes(c, s, m) == Is(c, "Flush", s) /\ c.arg = m
Recorded(w, s) ==
  w.sig[s].wr.from = "pin" /\ w.sig[s].same /\ w.sig[s].last # None /\ s \notin w.foreign
    => w.pin[w.sig[s].wr.pin] = Stored(w.sig[s].wr.pin, w.sig[s].last)
Lost(w, s, seen, e) == s \in seen /\ w.sig[s].cbs # <<>> /\ s \in w.late /\ w.sig[s].mode = e
Cached(w, s, seen, e) == Owed(w, s) /\ ~Lost(w, s, seen, e) => w.sig[s].local = w.asked[s]
Sent(w, q, s) ==
  Owed(w, s) /\ w.sig[s].mode = "Imme" /\ s \notin w.foreign
    => OnPin(w, s) \/ (1 \in DOMAIN q /\ Flushes(q[1], s, "Imme"))
Passed(w, q, s, due, e) ==
  s \in due /\ Owed(w, s) /\ w.sig[s].mode = e /\ s \notin w.foreign /\ s \notin w.late
    => OnPin(w, s) \/ \E i \in DOMAIN q : Flushes(q[i], s, e)

(* The calls that may be pending with it.                                  *)
Allowed(w, c, seen, e) ==
  /\ c.fc = "SetMode" => w.sig[c.on].mode = "Imme"
  /\ c.fc = "Observe" => c.on \in seen /\ c.arg = e
  /\ c.fc = "Flush"   => c.arg = "Imme" \/ (seen = {} /\ c.arg = e)
  /\ c.fc = "AsWrite" => e = "none"
Away(w, c) == c.fc = "Fetch" => w.sig[c.on].rd.from # "pin"
MayFetch(w, s, seen, e) ==
  \/ ~Owed(w, s) \/ w.sig[s].mode = "Imme" \/ OnPin(w, s)
  \/ s \in seen /\ w.sig[s].cbs # <<>> /\ w.sig[s].mode = e
OneMode(q) == \A i, j \in DOMAIN q : q[i].fc = "SetMode" /\ q[j].fc \in {"SetMode", "AsWrite"} => i = j
Agreed(w, q, due, seen, e) ==
  \A s \in Signals : Recorded(w, s) /\ Cached(w, s, seen, e) /\ Sent(w, q, s) /\ Passed(w, q, s, due, e)
Carried(w, q, due, seen, e) ==
  /\ \A i \in DOMAIN q : /\ Allowed(w, q[i], seen, e)
                         /\ Away(w, q[i]) \/ (i = 1 /\ MayFetch(w, q[i].on, seen, e))
  /\ OneMode(q) /\ Agreed(w, q, due, seen, e)

(* The same when the next call is not one that must come next.             *)
Settled(w, q, due, seen, e) ==
  /\ Carried(w, q, due, seen, e)
  /\ \A i \in DOMAIN q : Away(w, q[i])
  /\ \A s \in Signals : Sent(w, <<>>, s)

(* What the pass over the signals in due or seen leaves to be done.        *)
LEMMA PopCarried ==
  ASSUME NEW w, NEW q \in Seq(AnyCall), q # <<>>, NEW c, c = Head(q), NEW rest, rest = Tail(q),
         NEW due, NEW seen, NEW e, Carried(w, q, due, seen, e)
  PROVE  /\ Allowed(w, c, seen, e) /\ (Away(w, c) \/ MayFetch(w, c.on, seen, e))
         /\ \A i \in DOMAIN rest : Allowed(w, rest[i], seen, e) /\ Away(w, rest[i])
         /\ c.fc = "SetMode" => \A i \in DOMAIN rest : rest[i].fc \notin {"SetMode", "AsWrite"}
         /\ c.fc = "AsWrite" => \A i \in DOMAIN rest : rest[i].fc # "SetMode"
         /\ OneMode(rest)
         /\ \A s \in Signals : /\ Recorded(w, s) /\ Cached(w, s, seen, e)
                               /\ Sent(w, <<>>, s) \/ Flushes(c, s, "Imme")
                               /\ Passed(w, rest, s, due, e) \/ Flushes(c, s, e)
<1>1. /\ DOMAIN q = 1 .. Len(q) /\ DOMAIN rest = 1 .. Len(rest) /\ Len(q) \in Nat /\ Len(rest) = Len(q) - 1
      /\ 1 \in DOMAIN q /\ q[1] = c /\ \A i \in DOMAIN rest : i + 1 \in DOMAIN q /\ rest[i] = q[i + 1] /\ i + 1 # 1
  <2>1. rest \in Seq(AnyCall) /\ Len(rest) = Len(q) - 1 /\ \A i \in 1 .. Len(rest) : rest[i] = q[i + 1]
    BY HeadTailProperties
  <2>2. Len(q) \in Nat /\ Len(q) # 0 /\ DOMAIN q = 1 .. Len(q) /\ DOMAIN rest = 1 .. Len(rest)
    BY <2>1, LenProperties, EmptySeq
  <2> QED BY <2>1, <2>2
<1>2. \A i \in DOMAIN q : i = 1 \/ (i - 1 \in DOMAIN rest /\ rest[i - 1] = q[i])
  BY <1>1
<1>3. /\ Allowed(w, c, seen, e) /\ (Away(w, c) \/ MayFetch(w, c.on, seen, e))
      /\ \A i \in DOMAIN rest : Allowed(w, rest[i], seen, e) /\ Away(w, rest[i])
  BY <1>1 DEF Carried
<1>4. /\ c.fc = "SetMode" => \A i \in DOMAIN rest : rest[i].fc \notin {"SetMode", "AsWrite"}
      /\ c.fc = "AsWrite" => \A i \in DOMAIN rest : rest[i].fc # "SetMode"
  BY <1>1 DEF Carried, OneMode
<1>5. OneMode(rest)
  <2> SUFFICES ASSUME NEW i \in DOMAIN rest, NEW j \in DOMAIN rest,
                      rest[i].fc = "SetMode", rest[j].fc \in {"SetMode", "AsWrite"}
               PROVE  i = j
    BY DEF OneMode
  <2>1. i + 1 = j + 1
    BY <1>1 DEF Carried, OneMode
  <2> QED BY <1>1, <2>1
<1>6. ASSUME NEW s \in Signals
      PROVE  /\ Recorded(w, s) /\ Cached(w, s, seen, e)
             /\ Sent(w, <<>>, s) \/ Flushes(c, s, "Imme")
             /\ Passed(w, rest, s, due, e) \/ Flushes(c, s, e)
  <2>1. Recorded(w, s) /\ Cached(w, s, seen, e) /\ Sent(w, q, s) /\ Passed(w, q, s, due, e)
    BY DEF Carried, Agreed
  <2>2. Sent(w, <<>>, s) \/ Flushes(c, s, "Imme")
    BY <1>1, <2>1 DEF Sent
  <2>3. Passed(w, rest, s, due, e) \/ Flushes(c, s, e)
    BY <1>2, <1>1, <2>1 DEF Passed
  <2> QED BY <2>1, <2>2, <2>3
<1> QED BY <1>3, <1>4, <1>5, <1>6

LEMMA SettledIs ==
  ASSUME NEW w, NEW q, NEW due, NEW seen, NEW e
  PROVE  Settled(w, q, due, seen, e) <=>
           /\ \A i \in DOMAIN q : Allowed(w, q[i], seen, e) /\ Away(w, q[i])
           /\ OneMode(q)
           /\ \A s \in Signals : /\ Recorded(w, s) /\ Cached(w, s, seen, e) /\ Sent(w, <<>>, s)
                                 /\ Passed(w, q, s, due, e)
<1>1. \A s : Sent(w, <<>>, s) => Sent(w, q, s)
  BY DEF Sent
<1> QED BY <1>1 DEF Settled, Carried, Agreed

(* A signal for which nothing changes but that more is known to be lost.   *)
SameAt(w, u, s) ==
  /\ SameConfig(u.sig[s], w.sig[s]) /\ u.sig[s].local = w.sig[s].local /\ u.asked[s] = w.asked[s]
  /\ w.sig[s].cbs # <<>> => u.sig[s].cbs # <<>>
  /\ s \in w.foreign => s \in u.foreign
  /\ s \in w.late => s \in u.late
  /\ w.sig[s].wr.from = "pin" => u.pin[w.sig[s].wr.pin] = w.pin[w.sig[s].wr.pin] \/ s \in u.foreign

LEMMA SameFacts ==
  ASSUME NEW w, NEW u, NEW s, SameAt(w, u, s), NEW q, NEW due, NEW seen, NEW e
  PROVE  /\ Recorded(w, s) => Recorded(u, s)
         /\ Cached(w, s, seen, e) => Cached(u, s, seen, e)
         /\ Sent(w, q, s) => Sent(u, q, s)
         /\ Passed(w, q, s, due, e) => Passed(u, q, s, due, e)
<1>1. Recorded(w, s) => Recorded(u, s)
  BY DEF Recorded, SameAt, SameConfig
<1>2. (Owed(u, s) <=> Owed(w, s)) /\ (Owed(w, s) /\ s \notin u.foreign => (OnPin(u, s) <=> OnPin(w, s)))
  BY DEF Owed, OnPin, SameAt, SameConfig
<1>3. Cached(w, s, seen, e) => Cached(u, s, seen, e)
  BY <1>2 DEF Cached, Lost, SameAt, SameConfig
<1>4. Sent(w, q, s) => Sent(u, q, s)
  BY <1>2 DEF Sent, SameAt, SameConfig
<1>5. Passed(w, q, s, due, e) => Passed(u, q, s, due, e)
  BY <1>2 DEF Passed, SameAt, SameConfig
<1> QED BY <1>1, <1>3, <1>4, <1>5

(* One signal at most changes: the others stay as they are.                *)
LEMMA OneChanges ==
  ASSUME NEW w, NEW u, NEW q, NEW due, NEW seen, NEW e, Typed(q), NEW x \in Signals,
         \A s \in Signals \ {x} : SameAt(w, u, s),
         \A i \in DOMAIN q : Allowed(w, q[i], seen, e) /\ Away(w, q[i]),
         OneMode(q),
         \A s \in Signals \ {x} : /\ Recorded(w, s) /\ Cached(w, s, seen, e) /\ Sent(w, <<>>, s)
                                  /\ Passed(w, q, s, due, e),
         Recorded(u, x), Cached(u, x, seen, e), Sent(u, <<>>, x), Passed(u, q, x, due, e),
         u.sig[x].rd = w.sig[x].rd \/ \A i \in DOMAIN q : q[i].fc # "Fetch",
         u.sig[x].mode = w.sig[x].mode \/ \A i \in DOMAIN q : q[i].fc # "SetMode"
  PROVE  Settled(u, q, due, seen, e)
<1>1. ASSUME NEW i \in DOMAIN q
      PROVE  Allowed(u, q[i], seen, e) /\ Away(u, q[i])
  <2>1. q[i].on \in Signals
    BY DEF Typed, CallOK, AnyCall
  <2>2. CASE q[i].on = x
    BY <2>2 DEF Allowed, Away
  <2>3. CASE q[i].on # x
    BY <2>1, <2>3 DEF Allowed, Away, SameAt, SameConfig
  <2> QED BY <2>2, <2>3
<1>2. ASSUME NEW s \in Signals
      PROVE  Recorded(u, s) /\ Cached(u, s, seen, e) /\ Sent(u, <<>>, s) /\ Passed(u, q, s, due, e)
  BY SameFacts
<1> QED BY <1>1, <1>2, SettledIs

LEMMA NothingChanges ==
  ASSUME NEW w, NEW u, NEW q, NEW due, NEW seen, NEW e, Typed(q), Settled(w, q, due, seen, e),
         \A s \in Signals : SameAt(w, u, s)
  PROVE  Settled(u, q, due, seen, e)
<1>1. ASSUME NEW i \in DOMAIN q
      PROVE  Allowed(u, q[i], seen, e) /\ Away(u, q[i])
  <2>1. q[i].on \in Signals
    BY DEF Typed, CallOK, AnyCall
  <2> QED BY <2>1, SettledIs DEF Allowed, Away, SameAt, SameConfig
<1>2. ASSUME NEW s \in Signals
      PROVE  Recorded(u, s) /\ Cached(u, s, seen, e) /\ Sent(u, <<>>, s) /\ Passed(u, q, s, due, e)
  BY SettledIs, SameFacts
<1> QED BY <1>1, <1>2, SettledIs

(* Calls put on the stack.                                                 *)
Harmless(c) == c.fc \notin {"SetMode", "AsWrite", "Observe"} /\ (c.fc = "Flush" => c.arg = "Imme")
Delivers(r, rest, due, seen, e) ==
  r.todo \in Seq(AnyCall) /\ Carried(r.world, r.todo \o rest, due, seen, e)

LEMMA PushCarried ==
  ASSUME NEW w, NEW new \in Seq(AnyCall), NEW rest \in Seq(AnyCall), NEW due, NEW seen, NEW e,
         Settled(w, rest, due, seen, e),
         \A i \in DOMAIN new : /\ Harmless(new[i])
                               /\ Away(w, new[i]) \/ (i = 1 /\ MayFetch(w, new[i].on, seen, e))
  PROVE  /\ Carried(w, new \o rest, due, seen, e)
         /\ (\A i \in DOMAIN new : Away(w, new[i])) => Settled(w, new \o rest, due, seen, e)
<1> DEFINE q == new \o rest
<1>1. /\ Len(new) \in Nat /\ DOMAIN rest = 1 .. Len(rest)
      /\ \A i \in DOMAIN new : i \in DOMAIN q /\ q[i] = new[i]
      /\ \A i \in DOMAIN rest : i + Len(new) \in DOMAIN q /\ q[i + Len(new)] = rest[i]
      /\ \A i \in DOMAIN q : \/ i \in DOMAIN new /\ q[i] = new[i]
                             \/ i > Len(new) /\ i - Len(new) \in DOMAIN rest /\ q[i] = rest[i - Len(new)]
      /\ DOMAIN q \subseteq Nat
  BY Concat
<1> HIDE DEF q
<1>2. /\ \A i \in DOMAIN rest : Allowed(w, rest[i], seen, e) /\ Away(w, rest[i])
      /\ OneMode(rest)
      /\ \A s \in Signals : /\ Recorded(w, s) /\ Cached(w, s, seen, e) /\ Sent(w, <<>>, s)
                            /\ Passed(w, rest, s, due, e)
  BY SettledIs
<1>3. \A i \in DOMAIN new : Allowed(w, new[i], seen, e)
  BY DEF Harmless, Allowed
<1>4. \A i \in DOMAIN q : /\ Allowed(w, q[i], seen, e)
                          /\ Away(w, q[i]) \/ (i = 1 /\ MayFetch(w, q[i].on, seen, e))
  BY <1>1, <1>2, <1>3
<1>5. OneMode(q)
  <2> SUFFICES ASSUME NEW i \in DOMAIN q, NEW j \in DOMAIN q, q[i].fc = "SetMode", q[j].fc \in {"SetMode", "AsWrite"}
               PROVE  i = j
    BY DEF OneMode
  <2>1. i - Len(new) \in DOMAIN rest /\ q[i] = rest[i - Len(new)] /\ j - Len(new) \in DOMAIN rest /\ q[j] = rest[j - Len(new)]
    BY <1>1 DEF Harmless
  <2>2. i - Len(new) = j - Len(new)
    BY <1>2, <2>1 DEF OneMode
  <2> QED BY <1>1, <2>2
<1>6. \A s \in Signals : Sent(w, q, s) /\ Passed(w, q, s, due, e)
  <2>1. \A s \in Signals : Sent(w, q, s)
    BY <1>2 DEF Sent
  <2>2. \A s \in Signals : Passed(w, q, s, due, e)
    BY <1>1, <1>2 DEF Passed
  <2> QED BY <2>1, <2>2
<1>7. Carried(w, q, due, seen, e)
  BY <1>2, <1>4, <1>5, <1>6 DEF Carried, Agreed
<1>8. (\A i \in DOMAIN new : Away(w, new[i])) => Settled(w, q, due, seen, e)
  BY <1>1, <1>2, <1>7 DEF Settled
<1> QED BY <1>7, <1>8 DEF q

LEMMA DoneDelivers ==
  ASSUME NEW u, NEW rest \in Seq(AnyCall), NEW due, NEW seen, NEW e, Settled(u, rest, due, seen, e)
  PROVE  Delivers(Done(u), rest, due, seen, e)
<1>1. <<>> \in Seq(AnyCall) /\ <<>> \o rest = rest
  BY ConcatEmptySeq
<1> QED BY <1>1 DEF Delivers, Done, Then, Settled

LEMMA FollowDelivers ==
  ASSUME NEW r, NEW more \in Seq(AnyCall), NEW rest \in Seq(AnyCall), NEW due, NEW seen, NEW e,
         Delivers(r, more \o rest, due, seen, e)
  PROVE  Delivers(Follow(r, more), rest, due, seen, e)
<1>1. (r.todo \o more) \o rest = r.todo \o (more \o rest) /\ r.todo \o more \in Seq(AnyCall)
  BY Associative, ConcatProperties DEF Delivers
<1> QED BY <1>1 DEF Delivers, Follow, Then

(* An assignment is owed, and the call that may send it comes next.        *)
LEMMA StoreDelivers ==
  ASSUME NEW w, WorldOK(w), NEW rest \in Seq(AnyCall), NEW due, NEW seen, NEW e, Typed(rest),
         Settled(w, rest, due, seen, e), NEW x \in Signals, NEW v \in Vectors(x)
  PROVE  Delivers(StoreValue(w, x, v), rest, due, seen, e)
<1> DEFINE u   == Put(w, x, v)
           new == <<DoWith("Flush", x, "Imme"), Do("UpdateShadow", x)>>
           q   == new \o rest
<1>1. /\ u.sig[x].local = v /\ \A t \in Signals \ {x} : u.sig[t] = w.sig[t]
      /\ u.pin = w.pin /\ u.foreign = w.foreign
      /\ u.asked[x] = v /\ (\A t \in Signals \ {x} : u.asked[t] = w.asked[t]) /\ u.late = w.late \cup {x} /\ u.within = w.within
      /\ SameConfig(u.sig[x], w.sig[x])
  BY PutStep
<1>2. /\ new \in Seq(AnyCall) /\ DOMAIN new = {1, 2}
      /\ Flushes(new[1], x, "Imme") /\ Is(new[2], "UpdateShadow", x)
  <2>1. DoWith("Flush", x, "Imme").arg = "Imme"
    BY DEF DoWith
  <2> QED BY <2>1, CallTypes, LiteralSeq DEF Plain, Modes, Flushes
<1>3. StoreValue(w, x, v) = [world |-> u, todo |-> new]
  BY DEF StoreValue, Then
<1> HIDE DEF u, new
<1>4. \A t \in Signals \ {x} : SameAt(w, u, t)
  BY <1>1 DEF SameAt, SameConfig
<1>5. \A i \in DOMAIN new : Harmless(new[i]) /\ Away(w, new[i])
  BY <1>2 DEF Harmless, Away, Flushes, Is
<1>6. Settled(w, q, due, seen, e)
  BY <1>2, <1>5, PushCarried
<1>7. q \in Seq(AnyCall) /\ 1 \in DOMAIN q /\ q[1] = new[1]
  BY <1>2, Concat
<1> HIDE DEF q
<1>8. \A i \in DOMAIN q : q[i].on \in Signals
  BY <1>7, LenProperties DEF AnyCall
<1>9. \A i \in DOMAIN q : Allowed(u, q[i], seen, e) /\ Away(u, q[i])
  <2> SUFFICES ASSUME NEW i \in DOMAIN q
               PROVE  Allowed(u, q[i], seen, e) /\ Away(u, q[i])
    OBVIOUS
  <2>1. Allowed(w, q[i], seen, e) /\ Away(w, q[i])
    BY <1>6, SettledIs
  <2>2. u.sig[q[i].on].mode = w.sig[q[i].on].mode /\ u.sig[q[i].on].rd = w.sig[q[i].on].rd
    BY <1>1, <1>8 DEF SameConfig
  <2> QED BY <2>1, <2>2 DEF Allowed, Away
<1>10. ASSUME NEW s \in Signals
       PROVE  Recorded(u, s) /\ Cached(u, s, seen, e) /\ Sent(u, q, s) /\ Passed(u, q, s, due, e)
  <2>1. Recorded(w, s) /\ Cached(w, s, seen, e) /\ Sent(w, q, s) /\ Passed(w, q, s, due, e)
    BY <1>6 DEF Settled, Carried, Agreed
  <2>2. CASE s = x
    <3>1. Recorded(u, x)
      BY <1>1, <2>1, <2>2 DEF Recorded, SameConfig
    <3>2. Cached(u, x, seen, e) /\ Sent(u, q, x) /\ Passed(u, q, x, due, e)
      BY <1>1, <1>2, <1>7 DEF Cached, Sent, Passed
    <3> QED BY <2>2, <3>1, <3>2
  <2>3. CASE s # x
    BY <1>4, <2>1, <2>3, SameFacts
  <2> QED BY <2>2, <2>3
<1>11. Carried(u, q, due, seen, e)
  BY <1>6, <1>9, <1>10 DEF Settled, Carried, Agreed
<1> QED BY <1>2, <1>3, <1>11 DEF Delivers, q

LEMMA SamePin ==
  ASSUME NEW s \in Signals, NEW t \in Signals, NEW a \in Readers(s), NEW b \in Readers(t),
         a.from = "pin", b.from = "pin", a.pin = b.pin
  PROVE  a = b
<1>1. ASSUME NEW x \in Signals, NEW c \in Readers(x), c.from = "pin"
      PROVE  c = [from |-> "pin", pin |-> c.pin]
  <2>1. CASE c = Unbound
    BY <1>1, <2>1 DEF Unbound
  <2>2. CASE c \in {[from |-> "pin", pin |-> p] : p \in {q \in Pins : PinWidth[q] = Width(x)}}
    BY <2>2
  <2>3. CASE c \in {[from |-> "const", value |-> v] : v \in Vectors(x)}
    BY <1>1, <2>3
  <2>4. CASE c \in {[from |-> "expr", of |-> y] : y \in {u \in Signals : Width(u) = Width(x)}}
    BY <1>1, <2>4
  <2>5. CASE c \in {y \in [from : {"view"}, of : Signals, at : Nat] : y.at + Width(x) <= Width(y.of)}
    BY <1>1, <2>5
  <2> QED BY <2>1, <2>2, <2>3, <2>4, <2>5 DEF Readers
<1>2. a = [from |-> "pin", pin |-> a.pin] /\ b = [from |-> "pin", pin |-> b.pin]
  BY <1>1
<1> QED BY <1>2

(* A write that reaches a pin.                                             *)
LEMMA PinWritten ==
  ASSUME NEW w, WorldOK(w), NEW s \in Signals, w.sig[s].wr.from = "pin", NEW flushed
  PROVE  LET u == WriteOut(w, s, flushed).world IN
         /\ WriteOut(w, s, flushed) = Done(u) /\ u.sig = w.sig /\ u.asked = w.asked /\ u.late = w.late /\ u.within = w.within
         /\ u.pin[w.sig[s].wr.pin] = Stored(w.sig[s].wr.pin, w.sig[s].local)
         /\ \A p \in Pins \ {w.sig[s].wr.pin} : u.pin[p] = w.pin[p]
         /\ \A t \in Signals \ {s} : /\ t \in w.foreign => t \in u.foreign
                                     /\ w.sig[t].wr = w.sig[s].wr => t \in u.foreign
         /\ flushed = TRUE => s \notin u.foreign
         /\ flushed = FALSE => (s \in u.foreign <=> s \in w.foreign \/ w.sig[s].last # None)
<1> DEFINE p   == w.sig[s].wr.pin
           out == Stored(p, w.sig[s].local)
           f == (w.foreign \ IF flushed THEN {s} ELSE {})
                      \cup {t \in Signals : /\ w.sig[t].wr = w.sig[s].wr
                                            /\ t = s => ~flushed /\ w.sig[s].last # None}
           z == WithPin(w, p, out)
           u == WithForeign(z, f)
<1>1. WriteOut(w, s, flushed) = Done(u) /\ Done(u).world = u
  BY DEF WriteOut, WithPin, WithForeign, Done, Then
<1>2. p \in Pins /\ out \in Storage(p)
  <2>1. w.sig[s].wr \in Readers(s) /\ w.sig[s].local \in Vectors(s)
    BY DEF WorldOK, SignalType
  <2>2. p \in Pins /\ PinWidth[p] = Width(s)
    BY <2>1, ReaderFacts
  <2> QED BY <2>1, <2>2, StoredIs
<1> HIDE DEF p, out
<1>3. /\ WorldOK(z) /\ z.sig = w.sig /\ z.asked = w.asked /\ z.foreign = w.foreign /\ z.late = w.late /\ z.within = w.within
      /\ z.pin[p] = out /\ \A r \in Pins \ {p} : z.pin[r] = w.pin[r]
  BY <1>2, PinChange
<1>4. f \in SUBSET Signals
  BY DEF WorldOK
<1> HIDE DEF z, f
<1>5. /\ u.sig = z.sig /\ u.pin = z.pin /\ u.asked = z.asked /\ u.foreign = f /\ u.late = z.late /\ u.within = z.within
  BY <1>3, <1>4, ForeignChange
<1> HIDE DEF u
<1>6. \A t \in Signals \ {s} : (t \in w.foreign => t \in f) /\ (w.sig[t].wr = w.sig[s].wr => t \in f)
  BY DEF f
<1>7. /\ flushed = TRUE => s \notin f
      /\ flushed = FALSE => (s \in f <=> s \in w.foreign \/ w.sig[s].last # None)
  BY DEF f
<1> QED BY <1>1, <1>3, <1>5, <1>6, <1>7 DEF p, out

(* What is left when a call that may be a flush of x is taken off.         *)
Popped(w, rest, x, m, due, seen, e) ==
  /\ \A i \in DOMAIN rest : Allowed(w, rest[i], seen, e) /\ Away(w, rest[i])
  /\ OneMode(rest)
  /\ \A s \in Signals : /\ Recorded(w, s) \/ s = x
                        /\ Cached(w, s, seen, e)
                        /\ Sent(w, <<>>, s) \/ (s = x /\ m = "Imme")
                        /\ Passed(w, rest, s, due, e) \/ (s = x /\ m = e)

LEMMA PoppedSettled ==
  ASSUME NEW w, NEW rest, NEW x, NEW m, NEW due, NEW seen, NEW e, Popped(w, rest, x, m, due, seen, e),
         x \in Signals => Recorded(w, x) /\ Sent(w, <<>>, x) /\ Passed(w, rest, x, due, e)
  PROVE  Settled(w, rest, due, seen, e)
BY SettledIs DEF Popped

LEMMA WriteOutDelivers ==
  ASSUME NEW w, WorldOK(w), NEW rest \in Seq(AnyCall), Typed(rest), NEW x \in Signals, NEW m,
         NEW due, NEW seen, NEW e, e # "Imme", Popped(w, rest, x, m, due, seen, e), NEW flushed,
         flushed = TRUE => (w.sig[x].same => w.sig[x].last = w.sig[x].local),
         flushed \in BOOLEAN
  PROVE  Delivers(WriteOut(w, x, flushed), rest, due, seen, e)
<1> DEFINE wr == w.sig[x].wr
           v  == w.sig[x].local
<1>1. /\ wr.from \in {"none", "pin", "view"} /\ v \in Vectors(x)
      /\ wr.from = "view" => wr.of \in Signals /\ wr.at \in Nat /\ wr.at + Width(x) <= Width(wr.of)
  <2>1. wr \in Readers(x) /\ wr.from \notin {"const", "expr"} /\ v \in Vectors(x)
    BY DEF WorldOK, SignalType
  <2> QED BY <2>1, ReaderFacts
<1>2. wr.from # "pin" => Settled(w, rest, due, seen, e)
  <2> SUFFICES ASSUME wr.from # "pin" PROVE Settled(w, rest, due, seen, e)
    OBVIOUS
  <2>1. ~Owed(w, x)
    BY DEF Owed
  <2>2. Recorded(w, x) /\ Sent(w, <<>>, x) /\ Passed(w, rest, x, due, e)
    BY <2>1 DEF Recorded, Sent, Passed
  <2> QED BY <2>2, PoppedSettled
<1>3. CASE wr.from = "none"
  <2>1. WriteOut(w, x, flushed) = Done(w)
    BY <1>3 DEF WriteOut
  <2> QED BY <1>2, <1>3, <2>1, DoneDelivers
<1>4. CASE wr.from = "pin"
  <2> DEFINE u == WriteOut(w, x, flushed).world
  <2>1. /\ WriteOut(w, x, flushed) = Done(u) /\ u.sig = w.sig /\ u.asked = w.asked /\ u.late = w.late /\ u.within = w.within
        /\ u.pin[wr.pin] = Stored(wr.pin, v)
        /\ \A p \in Pins \ {wr.pin} : u.pin[p] = w.pin[p]
        /\ \A t \in Signals \ {x} : /\ t \in w.foreign => t \in u.foreign
                                    /\ w.sig[t].wr = wr => t \in u.foreign
        /\ flushed = TRUE => x \notin u.foreign
        /\ flushed = FALSE => (x \in u.foreign <=> x \in w.foreign \/ w.sig[x].last # None)
    BY <1>4, PinWritten
  <2> HIDE DEF u
  <2>2. ASSUME NEW t \in Signals \ {x}
        PROVE  SameAt(w, u, t)
    <3>1. SameConfig(u.sig[t], w.sig[t])
      BY <2>1 DEF SameConfig
    <3>2. ASSUME w.sig[t].wr.from = "pin"
          PROVE  u.pin[w.sig[t].wr.pin] = w.pin[w.sig[t].wr.pin] \/ t \in u.foreign
      <4>1. w.sig[t].wr \in Readers(t) /\ wr \in Readers(x)
        BY DEF WorldOK, SignalType
      <4>2. w.sig[t].wr.pin \in Pins
        BY <3>2, <4>1, ReaderFacts
      <4>3. w.sig[t].wr.pin = wr.pin => w.sig[t].wr = wr
        BY <1>4, <3>2, <4>1, SamePin
      <4> QED BY <2>1, <4>2, <4>3
    <3> QED BY <2>1, <3>1, <3>2 DEF SameAt
  <2>3. Recorded(u, x)
    BY <2>1 DEF Recorded
  <2>4. Cached(u, x, seen, e)
    BY <2>1 DEF Cached, Owed, Lost, Popped
  <2>5. Owed(u, x) /\ ~Lost(u, x, seen, e) => OnPin(u, x)
    BY <2>1, <2>4 DEF Cached, OnPin
  <2>6. Sent(u, <<>>, x) /\ Passed(u, rest, x, due, e)
    BY <2>5 DEF Sent, Passed, Lost
  <2>7. Settled(u, rest, due, seen, e)
    BY <2>1, <2>2, <2>3, <2>4, <2>6, OneChanges DEF Popped
  <2>8. Delivers(Done(u), rest, due, seen, e)
    BY <2>7, DoneDelivers
  <2> QED BY <2>1, <2>8, Zenon
<1>5. CASE wr.from = "view"
  <2> DEFINE y == wr.of
             new == Splice(w.sig[y].local, wr.at, v)
             more == IF mWidth[x] = 0 THEN <<>> ELSE <<Do("UpdateShadow", x)>>
  <2>1. WriteOut(w, x, flushed) = Follow(StoreValue(w, y, new), more)
    BY <1>5 DEF WriteOut
  <2>2. y \in Signals /\ w.sig[y].local \in Vectors(y)
    BY <1>1, <1>5 DEF WorldOK, SignalType
  <2>3. new \in Vectors(y)
    BY <1>1, <1>5, <2>2, SpliceIs
  <2>4. more \in Seq(AnyCall) /\ \A i \in DOMAIN more : CallOK(more[i]) /\ Is(more[i], "UpdateShadow", x)
    BY CallTypes, LiteralSeq DEF Plain
  <2> HIDE DEF new, more, y
  <2>5. \A i \in DOMAIN more : Harmless(more[i]) /\ Away(w, more[i])
    BY <2>4 DEF Harmless, Away, Is
  <2>6. Settled(w, more \o rest, due, seen, e)
    BY <1>2, <1>5, <2>4, <2>5, PushCarried
  <2>7. more \o rest \in Seq(AnyCall) /\ Typed(more \o rest)
    BY <2>4, Concat DEF Typed
  <2>8. Delivers(StoreValue(w, y, new), more \o rest, due, seen, e)
    BY <2>2, <2>3, <2>6, <2>7, StoreDelivers
  <2> QED BY <2>1, <2>4, <2>8, FollowDelivers
<1> QED BY <1>1, <1>3, <1>4, <1>5

(* A flush sends what is owed, or what it would send is on the pin: the    *)
(* same-write filter knows nothing else of a pin nobody else has written.  *)
LEMMA FlushDelivers ==
  ASSUME NEW w, WorldOK(w), NEW rest \in Seq(AnyCall), Typed(rest), NEW x \in Signals, NEW m,
         NEW due, NEW seen, NEW e, e # "Imme", Popped(w, rest, x, m, due, seen, e), Recorded(w, x)
  PROVE  Delivers(FlushIn(w, x, m), rest, due, seen, e)
<1>0. Cached(w, x, seen, e)
  BY DEF Popped
<1>1. CASE w.sig[x].io = "Output" \/ w.sig[x].mode # m
  <2>1. Sent(w, <<>>, x)
    BY <1>1 DEF Popped, Sent, Owed
  <2>2. Passed(w, rest, x, due, e)
    BY <1>1 DEF Popped, Passed, Owed
  <2>3. FlushIn(w, x, m) = Done(w)
    BY <1>1 DEF FlushIn
  <2> QED BY <2>1, <2>2, <2>3, PoppedSettled, DoneDelivers
<1>2. CASE ~(w.sig[x].io = "Output" \/ w.sig[x].mode # m) /\ ~NeedWrite(w, x)
  <2>1. w.sig[x].same /\ w.sig[x].last = w.sig[x].local
    BY <1>2 DEF NeedWrite
  <2>2. Owed(w, x) /\ ~Lost(w, x, seen, e) /\ x \notin w.foreign => OnPin(w, x)
    BY <1>0, <2>1 DEF Recorded, Cached, OnPin, Owed
  <2>3. Sent(w, <<>>, x) /\ Passed(w, rest, x, due, e)
    BY <2>2 DEF Sent, Passed, Lost
  <2>4. FlushIn(w, x, m) = Done(w)
    BY <1>2 DEF FlushIn, Flush
  <2> QED BY <2>3, <2>4, PoppedSettled, DoneDelivers
<1>3. CASE ~(w.sig[x].io = "Output" \/ w.sig[x].mode # m) /\ NeedWrite(w, x) /\ ~w.sig[x].same
  <2>1. FlushIn(w, x, m) = WriteOut(w, x, TRUE)
    BY <1>3 DEF FlushIn, Flush
  <2> QED BY <1>3, <2>1, WriteOutDelivers
<1>4. CASE ~(w.sig[x].io = "Output" \/ w.sig[x].mode # m) /\ NeedWrite(w, x) /\ w.sig[x].same
  <2> DEFINE u == [w EXCEPT !.sig[x].last = w.sig[x].local]
             y == [w.sig[x] EXCEPT !.last = w.sig[x].local]
  <2>1. FlushIn(w, x, m) = WriteOut(u, x, TRUE)
    BY <1>4 DEF FlushIn, Flush
  <2>2. /\ WorldOK(u) /\ u.sig[x] = y /\ (\A t \in Signals \ {x} : u.sig[t] = w.sig[t])
        /\ u.pin = w.pin /\ u.asked = w.asked /\ u.foreign = w.foreign /\ u.late = w.late /\ u.within = w.within
    <3>1. w.sig[x] \in SignalType(x) /\ w.sig[x].wr.from \notin {"const", "expr"}
      BY DEF WorldOK
    <3>2. y \in SignalType(x) /\ y.wr.from \notin {"const", "expr"}
      BY <3>1 DEF SignalType
    <3>3. u = WithSig(w, x, y)
      BY DEF WorldOK, WithSig
    <3> HIDE DEF y, u
    <3> QED BY <3>2, <3>3, SignalChange
  <2>3. /\ y.io = w.sig[x].io /\ y.rd = w.sig[x].rd /\ y.wr = w.sig[x].wr /\ y.mode = w.sig[x].mode
        /\ y.local = w.sig[x].local /\ y.last = y.local /\ y.cbs = w.sig[x].cbs
    BY DEF WorldOK, SignalType
  <2> HIDE DEF u, y
  <2>4. Popped(u, rest, x, m, due, seen, e)
    <3>1. \A t \in Signals \ {x} : SameAt(w, u, t)
      BY <2>2 DEF SameAt, SameConfig
    <3>2. \A t \in Signals \ {x} : Recorded(u, t) /\ Cached(u, t, seen, e) /\ Sent(u, <<>>, t) /\ Passed(u, rest, t, due, e)
      BY <3>1, SameFacts DEF Popped
    <3>3. Cached(u, x, seen, e) /\ (Sent(w, <<>>, x) => Sent(u, <<>>, x)) /\ (Passed(w, rest, x, due, e) => Passed(u, rest, x, due, e))
      BY <1>0, <2>2, <2>3 DEF Cached, Sent, Passed, Owed, OnPin, Lost
    <3>4. \A i \in DOMAIN rest : rest[i].on \in Signals
      BY DEF Typed, CallOK, AnyCall
    <3>5. \A i \in DOMAIN rest : Allowed(u, rest[i], seen, e) /\ Away(u, rest[i])
      BY <2>2, <2>3, <3>4 DEF Popped, Allowed, Away
    <3> QED BY <3>2, <3>3, <3>5 DEF Popped
  <2> QED BY <2>1, <2>2, <2>3, <2>4, WriteOutDelivers
<1> QED BY <1>1, <1>2, <1>3, <1>4

(* A read of a pin that holds what was assigned gives the assigned value.  *)
LEMMA FetchBack ==
  ASSUME NEW s \in Signals, NEW p \in Pins, PinWidth[p] = Width(s), NEW a \in Vectors(s)
  PROVE  Fetched(p, a, Stored(p, a)) = a
<1>1. Width(s) \in Nat /\ Bits(s) = 1 .. Width(s) /\ a \in [1 .. Width(s) -> 0 .. 3]
  BY WidthFacts DEF Vectors
<1>2. CASE p \in NativePins
  <2> DEFINE b == [i \in DOMAIN a |-> a[i] % 2]
  <2>1. b \in [1 .. Width(s) -> 0 .. 1]
    BY <1>1
  <2>2. Aval(a) = b
    BY <1>1, <2>1, VecIs DEF Aval
  <2>3. \A i \in 1 .. Width(s) : 2 * (a[i] \div 2) + b[i] = a[i]
    BY <1>1
  <2>4. [i \in DOMAIN b |-> 2 * (a[i] \div 2) + b[i]] = a
    BY <1>1, <2>1, <2>3
  <2>5. Vec([i \in DOMAIN b |-> 2 * (a[i] \div 2) + b[i]]) = a
    BY <2>4, VectorIs
  <2> QED BY <1>2, <2>2, <2>5 DEF Fetched, Stored
<1>3. CASE p \notin NativePins
  BY <1>3 DEF Fetched, Stored
<1> QED BY <1>2, <1>3

(* A read changes what is cached of one signal.                            *)
LEMMA FetchIs ==
  ASSUME NEW w, WorldOK(w), NEW s \in Signals
  PROVE  \E u : /\ Fetch(w, s) = Done(u)
                /\ (\A t \in Signals \ {s} : u.sig[t] = w.sig[t] /\ u.asked[t] = w.asked[t])
                /\ u.pin = w.pin /\ u.foreign = w.foreign /\ u.late = w.late /\ u.within = w.within
                /\ SameConfig(u.sig[s], w.sig[s]) /\ u.sig[s].cbs = w.sig[s].cbs
                /\ w.sig[s].rd.from = "pin" =>
                     /\ u.asked[s] = IF s \in w.foreign THEN None ELSE w.asked[s]
                     /\ u.sig[s].local = Fetched(w.sig[s].rd.pin, w.sig[s].local, w.pin[w.sig[s].rd.pin])
<1> DEFINE rd == w.sig[s].rd
<1>1. /\ rd.from \in {"none", "pin", "const", "expr", "view"}
      /\ rd.from = "pin" => rd.pin \in Pins /\ PinWidth[rd.pin] = Width(s)
      /\ rd.from = "const" => rd.value \in Vectors(s)
      /\ rd.from = "expr" => rd.of \in Signals /\ Width(rd.of) = Width(s)
      /\ rd.from = "view" => rd.of \in Signals /\ rd.at \in Nat /\ rd.at + Width(s) <= Width(rd.of)
  <2>1. rd \in Readers(s)
    BY DEF WorldOK, SignalType
  <2> HIDE DEF rd
  <2> QED BY <2>1, ReaderFacts
<1>2. \A t \in Signals : w.sig[t].local \in Vectors(t)
  BY DEF WorldOK, SignalType
<1>3. ASSUME NEW v \in Vectors(s), Fetch(w, s) = Done(SetLocal(w, s, v)), rd.from # "pin"
      PROVE  \E u : /\ Fetch(w, s) = Done(u)
                    /\ (\A t \in Signals \ {s} : u.sig[t] = w.sig[t] /\ u.asked[t] = w.asked[t])
                    /\ u.pin = w.pin /\ u.foreign = w.foreign /\ u.late = w.late /\ u.within = w.within
                    /\ SameConfig(u.sig[s], w.sig[s]) /\ u.sig[s].cbs = w.sig[s].cbs
  <2> DEFINE z == SetLocal(w, s, v)
  <2>1. /\ Alike(w, z) /\ SameConfig(z.sig[s], w.sig[s]) /\ \A t \in Signals \ {s} : z.sig[t] = w.sig[t]
        /\ z.pin = w.pin /\ z.asked = w.asked /\ z.foreign = w.foreign /\ z.late = w.late /\ z.within = w.within
    BY SetLocalOK
  <2>2. Fetch(w, s) = Done(z)
    BY <1>3
  <2> HIDE DEF z
  <2> QED BY <2>1, <2>2 DEF Alike
<1>5. CASE rd.from = "none"
  <2>1. Fetch(w, s) = Done(w)
    BY <1>5 DEF Fetch
  <2> QED BY <1>5, <2>1 DEF SameConfig
<1>6. CASE rd.from = "pin"
  <2> DEFINE v == Fetched(rd.pin, w.sig[s].local, w.pin[rd.pin])
             z == SetLocal(w, s, v)
             owed == IF s \in w.foreign THEN None ELSE z.asked[s]
             u == WithAsked(z, s, owed)
  <2>1. Fetch(w, s) = Done(u)
    BY <1>6 DEF Fetch, WithAsked
  <2>2. v \in Vectors(s)
    <3>1. w.pin[rd.pin] \in Storage(rd.pin)
      BY <1>1, <1>6 DEF WorldOK
    <3> QED BY <1>1, <1>2, <1>6, <3>1, FetchedIs
  <2> HIDE DEF v
  <2>3. /\ WorldOK(z) /\ Alike(w, z) /\ SameConfig(z.sig[s], w.sig[s]) /\ \A t \in Signals \ {s} : z.sig[t] = w.sig[t]
        /\ z.pin = w.pin /\ z.asked = w.asked /\ z.foreign = w.foreign /\ z.late = w.late /\ z.within = w.within /\ z.sig[s].local = v
    BY <2>2, SetLocalOK
  <2> HIDE DEF z
  <2>5. owed \in Vectors(s) \cup {None} /\ owed = IF s \in w.foreign THEN None ELSE w.asked[s]
    BY <2>3 DEF WorldOK
  <2> HIDE DEF owed
  <2>6. /\ u.sig = z.sig /\ u.pin = z.pin /\ u.foreign = z.foreign /\ u.late = z.late /\ u.within = z.within
        /\ u.asked[s] = owed /\ \A t \in Signals \ {s} : u.asked[t] = z.asked[t]
    BY <2>3, <2>5, AskedChange
  <2> HIDE DEF u
  <2> QED BY <2>1, <2>3, <2>5, <2>6 DEF Alike, v
<1>7. CASE rd.from = "const"
  <2>1. Fetch(w, s) = Done(SetLocal(w, s, rd.value))
    BY <1>7 DEF Fetch
  <2> QED BY <1>1, <1>3, <1>7, <2>1
<1>8. CASE rd.from = "expr"
  <2> DEFINE v == Aval(w.sig[rd.of].local)
  <2>1. v \in Vectors(s)
    BY <1>1, <1>2, <1>8, AvalIs
  <2>2. Fetch(w, s) = Done(SetLocal(w, s, v))
    BY <1>8 DEF Fetch
  <2> HIDE DEF v
  <2> QED BY <1>3, <1>8, <2>1, <2>2
<1>9. CASE rd.from = "view"
  <2> DEFINE v == Slice(w.sig[rd.of].local, rd.at, Width(s))
  <2>1. v \in Vectors(s)
    BY <1>1, <1>2, <1>9, SliceIs
  <2>2. Fetch(w, s) = Done(SetLocal(w, s, v))
    BY <1>9 DEF Fetch
  <2> HIDE DEF v
  <2> QED BY <1>3, <1>9, <2>1, <2>2
<1> QED BY <1>1, <1>5, <1>6, <1>7, <1>8, <1>9

(* A pin is read when the value owed is on it, or known to be lost.        *)
LEMMA FetchDelivers ==
  ASSUME NEW w, WorldOK(w), NEW rest \in Seq(AnyCall), Typed(rest), NEW x \in Signals,
         NEW due, NEW seen, NEW e, Settled(w, rest, due, seen, e), seen \subseteq due, e # "Imme",
         w.sig[x].rd.from # "pin" \/ MayFetch(w, x, seen, e)
  PROVE  Delivers(Fetch(w, x), rest, due, seen, e)
<1>1. PICK u : /\ Fetch(w, x) = Done(u)
               /\ (\A t \in Signals \ {x} : u.sig[t] = w.sig[t] /\ u.asked[t] = w.asked[t])
               /\ u.pin = w.pin /\ u.foreign = w.foreign /\ u.late = w.late /\ u.within = w.within
               /\ SameConfig(u.sig[x], w.sig[x]) /\ u.sig[x].cbs = w.sig[x].cbs
               /\ w.sig[x].rd.from = "pin" =>
                    /\ u.asked[x] = IF x \in w.foreign THEN None ELSE w.asked[x]
                    /\ u.sig[x].local = Fetched(w.sig[x].rd.pin, w.sig[x].local, w.pin[w.sig[x].rd.pin])
  BY FetchIs
<1>2. /\ \A i \in DOMAIN rest : Allowed(w, rest[i], seen, e) /\ Away(w, rest[i])
      /\ OneMode(rest)
      /\ \A s \in Signals : /\ Recorded(w, s) /\ Cached(w, s, seen, e) /\ Sent(w, <<>>, s)
                            /\ Passed(w, rest, s, due, e)
  BY SettledIs
<1>3. \A t \in Signals \ {x} : SameAt(w, u, t)
  BY <1>1 DEF SameAt, SameConfig
<1>4. Recorded(u, x)
  BY <1>1, <1>2 DEF Recorded, SameConfig
<1>5. Owed(u, x) => /\ Owed(w, x) /\ x \notin w.foreign /\ u.asked[x] = w.asked[x]
                    /\ u.sig[x].local = Fetched(w.sig[x].wr.pin, w.sig[x].local, w.pin[w.sig[x].wr.pin])
                    /\ MayFetch(w, x, seen, e)
  BY <1>1 DEF Owed, SameConfig
<1>6. Sent(u, <<>>, x) /\ Passed(u, rest, x, due, e)
  BY <1>1, <1>2, <1>5 DEF Sent, Passed, OnPin, SameConfig
<1>7. ASSUME Owed(w, x), x \notin w.foreign, MayFetch(w, x, seen, e), ~Lost(w, x, seen, e)
      PROVE  OnPin(w, x)
  <2>1. CASE w.sig[x].mode = "Imme"
    BY <1>2, <1>7, <2>1 DEF Sent
  <2>2. CASE w.sig[x].mode # "Imme" /\ ~OnPin(w, x)
    <3>1. x \in seen /\ w.sig[x].cbs # <<>> /\ w.sig[x].mode = e /\ x \notin w.late /\ x \in due
      BY <1>7, <2>2 DEF MayFetch, Lost
    <3>2. \A i \in DOMAIN rest : ~Flushes(rest[i], x, e)
      BY <1>2, <3>1 DEF Allowed, Flushes, Is
    <3> QED BY <1>2, <1>7, <3>1, <3>2 DEF Passed
  <2> QED BY <2>1, <2>2
<1>8. Cached(u, x, seen, e)
  <2> SUFFICES ASSUME Owed(u, x), ~Lost(u, x, seen, e) PROVE u.sig[x].local = u.asked[x]
    BY DEF Cached
  <2>1. ~Lost(w, x, seen, e)
    BY <1>1 DEF Lost, SameConfig
  <2>2. w.pin[w.sig[x].wr.pin] = Stored(w.sig[x].wr.pin, w.asked[x]) /\ w.sig[x].local = w.asked[x]
    BY <1>2, <1>5, <1>7, <2>1 DEF OnPin, Cached
  <2>3. w.sig[x].wr.pin \in Pins /\ PinWidth[w.sig[x].wr.pin] = Width(x) /\ w.sig[x].local \in Vectors(x)
    <3>1. w.sig[x].wr \in Readers(x) /\ w.sig[x].local \in Vectors(x) /\ w.sig[x].wr.from = "pin"
      BY <1>5 DEF WorldOK, SignalType, Owed
    <3> QED BY <3>1, ReaderFacts
  <2> QED BY <1>5, <2>2, <2>3, FetchBack
<1>9. Settled(u, rest, due, seen, e)
  BY <1>1, <1>2, <1>3, <1>4, <1>6, <1>8, OneChanges DEF SameConfig
<1> QED BY <1>1, <1>9, DoneDelivers

(* Announcements change nothing that is owed; what the user's callbacks    *)
(* call is like any other call.                                            *)
LEMMA AnnounceDelivers ==
  ASSUME NEW w, WorldOK(w), NEW rest \in Seq(AnyCall), Typed(rest), NEW s \in Signals,
         NEW due, NEW seen, NEW e, Settled(w, rest, due, seen, e)
  PROVE  Delivers(UpdateShadow(w, s), rest, due, seen, e)
<1>1. w.sig[s] \in SignalType(s) /\ w.sig[s].wr.from \notin {"const", "expr"}
  BY DEF WorldOK
<1>2. CASE w.sig[s].busy \/ w.sig[s].cbs = <<>>
  BY <1>2, DoneDelivers DEF UpdateShadow
<1>3. CASE ~(w.sig[s].busy \/ w.sig[s].cbs = <<>>)
  <2> DEFINE now == w.sig[s].local
             cbs == w.sig[s].cbs
             x   == [w.sig[s] EXCEPT !.shadow = now, !.busy = TRUE]
             u   == WithSig(w, s, x)
             hear == IF w.sig[s].shadow = now THEN <<>> ELSE CallBacks(s, now, cbs)
             end  == <<Do("Release", s)>>
             new  == hear \o end
  <2>1. UpdateShadow(w, s) = [world |-> u, todo |-> new]
    <3>1. Mark(w, s) = u
      BY <1>1 DEF Mark, WithSig, WorldOK, SignalType
    <3> HIDE DEF u
    <3> QED BY <1>3, <3>1 DEF UpdateShadow, Then
  <2>2. /\ u.sig[s] = x /\ (\A t \in Signals \ {s} : u.sig[t] = w.sig[t])
        /\ u.pin = w.pin /\ u.asked = w.asked /\ u.foreign = w.foreign /\ u.late = w.late /\ u.within = w.within
    <3>1. x \in SignalType(s) /\ x.wr.from \notin {"const", "expr"}
      BY <1>1 DEF SignalType
    <3> HIDE DEF x
    <3> QED BY <3>1, SignalChange
  <2>3. x.local = now /\ x.cbs = cbs /\ SameConfig(x, w.sig[s])
    BY <1>1 DEF SignalType, SameConfig
  <2> HIDE DEF x, u
  <2>4. \A t \in Signals : SameAt(w, u, t)
    BY <2>2, <2>3 DEF SameAt, SameConfig
  <2>5. hear \in Seq(AnyCall) /\ \A i \in DOMAIN hear : hear[i].fc = "CallBack"
    <3>1. cbs \in Seq(Listeners(s))
      BY <1>1 DEF SignalType
    <3> HIDE DEF cbs, now
    <3>2. CallBacks(s, now, cbs) \in Seq(AnyCall) /\ \A i \in DOMAIN CallBacks(s, now, cbs) : CallBacks(s, now, cbs)[i].fc = "CallBack"
      BY <3>1, CallBacksAre DEF Is
    <3> QED BY <3>2
  <2>6. end \in Seq(AnyCall) /\ \A i \in DOMAIN end : end[i].fc = "Release"
    BY CallTypes, LiteralSeq DEF Plain, Is
  <2> HIDE DEF hear, end
  <2>7. new \in Seq(AnyCall) /\ \A i \in DOMAIN new : new[i].fc \in {"CallBack", "Release"}
    BY <2>5, <2>6, Concat
  <2> HIDE DEF new
  <2>8. \A i \in DOMAIN new : Harmless(new[i]) /\ Away(u, new[i])
    BY <2>7 DEF Harmless, Away
  <2>9. Carried(u, new \o rest, due, seen, e)
    BY <2>4, <2>7, <2>8, NothingChanges, PushCarried
  <2>10. new = hear \o <<Do("Release", s)>>
    BY DEF new, end
  <2> QED BY <2>1, <2>7, <2>9, <2>10 DEF Delivers, hear, new, end
<1> QED BY <1>2, <1>3

LEMMA ReleaseDelivers ==
  ASSUME NEW w, WorldOK(w), NEW rest \in Seq(AnyCall), Typed(rest), NEW s \in Signals,
         NEW due, NEW seen, NEW e, Settled(w, rest, due, seen, e)
  PROVE  Delivers(Release(w, s), rest, due, seen, e)
<1> DEFINE u == Release(w, s).world
<1>0. /\ Release(w, s) = Done(u) /\ WorldOK(u)
      /\ u.sig[s].busy = FALSE /\ u.sig[s].local = w.sig[s].local /\ u.sig[s].shadow = w.sig[s].shadow
      /\ u.sig[s].cbs = w.sig[s].cbs /\ SameConfig(u.sig[s], w.sig[s]) /\ u.sig[s].readonly = w.sig[s].readonly
      /\ \A t \in Signals \ {s} : u.sig[t] = w.sig[t] /\ u.told[t] = w.told[t]
      /\ u.told[s] = IF Unheard(w, s) THEN None ELSE w.told[s]
      /\ u.within = w.within \ {s} /\ u.pin = w.pin /\ u.asked = w.asked
      /\ u.foreign = w.foreign /\ u.late = w.late
  BY ReleaseIs
<1> HIDE DEF u
<1>1. /\ Release(w, s) = Done(u) /\ u.sig[s].local = w.sig[s].local /\ u.sig[s].cbs = w.sig[s].cbs
      /\ SameConfig(u.sig[s], w.sig[s]) /\ \A t \in Signals \ {s} : u.sig[t] = w.sig[t]
      /\ u.pin = w.pin /\ u.asked = w.asked /\ u.foreign = w.foreign /\ u.late = w.late
  BY <1>0
<1>2. \A t \in Signals : SameAt(w, u, t)
  BY <1>1 DEF SameAt, SameConfig
<1>3. Delivers(Done(u), rest, due, seen, e)
  BY <1>2, NothingChanges, DoneDelivers
<1> QED BY <1>1, <1>3, Zenon

LEMMA ToldDelivers ==
  ASSUME NEW w, WorldOK(w), NEW rest \in Seq(AnyCall), Typed(rest), NEW s \in Signals, NEW v \in Vectors(s) \cup {None},
         NEW due, NEW seen, NEW e, Settled(w, rest, due, seen, e)
  PROVE  Delivers(Done(WithTold(w, s, v)), rest, due, seen, e)
<1> DEFINE u == WithTold(w, s, v)
<1>1. u.sig = w.sig /\ u.pin = w.pin /\ u.asked = w.asked /\ u.foreign = w.foreign /\ u.late = w.late /\ u.within = w.within
  BY ToldChange
<1> HIDE DEF u
<1>2. \A t \in Signals : SameAt(w, u, t)
  BY <1>1 DEF SameAt, SameConfig
<1>3. Delivers(Done(u), rest, due, seen, e)
  BY <1>2, NothingChanges, DoneDelivers
<1> QED BY <1>3 DEF u

LEMMA ListenDelivers ==
  ASSUME NEW w, WorldOK(w), NEW rest \in Seq(AnyCall), Typed(rest), NEW s \in Signals, NEW cb \in Listeners(s),
         NEW due, NEW seen, NEW e, Settled(w, rest, due, seen, e)
  PROVE  Delivers(Listen(w, s, cb), rest, due, seen, e)
<1> DEFINE now    == w.sig[s]
           shadow == IF now.cbs = <<>> THEN now.local ELSE now.shadow
           x      == [now EXCEPT !.cbs = Append(now.cbs, cb), !.shadow = shadow]
           y      == WithSig(w, s, x)
           heard  == IF shadow = now.local THEN shadow ELSE None
           u      == IF cb = "user" THEN WithTold(y, s, heard) ELSE y
<1>1. now \in SignalType(s) /\ now.wr.from \notin {"const", "expr"}
  BY DEF WorldOK
<1>2. now.cbs \in Seq(Listeners(s)) /\ now.local \in Vectors(s) /\ now.shadow \in Vectors(s)
  BY <1>1 DEF SignalType
<1>3. Listen(w, s, cb) = Done(u)
  BY <1>1 DEF Listen, WithSig, WithTold, WorldOK, SignalType
<1>4. /\ Append(now.cbs, cb) \in Seq(Listeners(s)) /\ Append(now.cbs, cb) # <<>>
      /\ shadow \in Vectors(s) /\ heard \in Vectors(s) \cup {None}
  BY <1>2
<1>5. /\ x \in SignalType(s) /\ x.wr.from \notin {"const", "expr"} /\ x.local = now.local
      /\ x.cbs # <<>> /\ SameConfig(x, now)
  BY <1>1, <1>4 DEF SignalType, SameConfig
<1>6. /\ WorldOK(y) /\ y.sig[s] = x /\ (\A t \in Signals \ {s} : y.sig[t] = w.sig[t])
      /\ y.pin = w.pin /\ y.asked = w.asked /\ y.foreign = w.foreign /\ y.late = w.late /\ y.within = w.within
  <2> HIDE DEF x
  <2> QED BY <1>5, SignalChange
<1> HIDE DEF y, x, heard
<1>7. \A t \in Signals : SameAt(w, y, t)
  BY <1>5, <1>6 DEF SameAt, SameConfig
<1>8. Settled(y, rest, due, seen, e)
  BY <1>7, NothingChanges
<1>9. Delivers(Done(WithTold(y, s, heard)), rest, due, seen, e) /\ Delivers(Done(y), rest, due, seen, e)
  BY <1>4, <1>6, <1>8, ToldDelivers, DoneDelivers
<1> QED BY <1>3, <1>9

(* A read, when the pin may be read or another signal is.                  *)
LEMMA ReadDelivers ==
  ASSUME NEW w, WorldOK(w), NEW rest \in Seq(AnyCall), Typed(rest), NEW s \in Signals,
         NEW due, NEW seen, NEW e, Settled(w, rest, due, seen, e), NEW a,
         a = <<>> \/ (a = Load(w, s) /\ (w.sig[s].rd.from # "pin" \/ MayFetch(w, s, seen, e)))
  PROVE  Delivers(Then(w, a \o <<Do("UpdateShadow", s)>>), rest, due, seen, e)
<1> DEFINE end == <<Do("UpdateShadow", s)>>
           new == a \o end
<1>1. /\ ReadsOf(s, a) /\ ReadsOf(s, end) /\ DOMAIN end = {1} /\ end[1].fc = "UpdateShadow"
  <2>1. ReadsOf(s, a) /\ ReadsOf(s, end)
    BY LoadReads, ReadsSimple
  <2>2. DOMAIN end = {1} /\ end[1].fc = "UpdateShadow"
    BY CallTypes, LiteralSeq DEF Plain, Is
  <2> QED BY <2>1, <2>2
<1>2. a = Load(w, s) /\ w.sig[s].rd.from = "pin" => DOMAIN a = {1}
  <2> SUFFICES ASSUME a = Load(w, s), w.sig[s].rd.from = "pin" PROVE DOMAIN a = {1}
    OBVIOUS
  <2> DEFINE one == <<Do("Fetch", s)>>
  <2>1. one \in Seq(AnyCall) /\ DOMAIN one = {1}
    BY CallTypes, LiteralSeq DEF Plain
  <2>2. a = <<>> \o one \o <<>>
    BY DEF Load
  <2> HIDE DEF one
  <2>3. a = one
    BY <2>1, <2>2, ConcatEmptySeq
  <2> QED BY <2>1, <2>3
<1> HIDE DEF end
<1>3. /\ new \in Seq(AnyCall)
      /\ \A i \in DOMAIN new : \/ i \in DOMAIN a /\ new[i] = a[i]
                               \/ i > Len(a) /\ i - Len(a) \in DOMAIN end /\ new[i] = end[i - Len(a)]
  BY <1>1, Concat DEF ReadsOf
<1> HIDE DEF new
<1>4. ASSUME NEW i \in DOMAIN new
      PROVE  Harmless(new[i]) /\ (Away(w, new[i]) \/ (i = 1 /\ MayFetch(w, new[i].on, seen, e)))
  <2>1. CASE i \in DOMAIN a /\ new[i] = a[i]
    <3>1. a[i].fc \in {"UpdateRead", "Fetch", "UpdateShadow"} /\ (a[i].fc = "Fetch" => a[i].on = s)
      BY <1>1, <2>1 DEF ReadsOf
    <3>2. a # <<>>
      BY <2>1
    <3> QED BY <1>2, <2>1, <3>1, <3>2 DEF Harmless, Away
  <2>2. CASE i - Len(a) \in DOMAIN end /\ new[i] = end[i - Len(a)]
    BY <1>1, <2>2 DEF Harmless, Away
  <2> QED BY <1>3, <2>1, <2>2
<1>5. Carried(w, new \o rest, due, seen, e)
  BY <1>3, <1>4, PushCarried
<1>6. Then(w, new).world = w /\ Then(w, new).todo = new
  BY DEF Then
<1>7. Delivers(Then(w, new), rest, due, seen, e)
  BY <1>3, <1>5, <1>6 DEF Delivers
<1> QED BY <1>7 DEF new, end

LEMMA UpdateReadDelivers ==
  ASSUME NEW w, WorldOK(w), NEW rest \in Seq(AnyCall), Typed(rest), NEW s \in Signals,
         NEW due, NEW seen, NEW e, Settled(w, rest, due, seen, e)
  PROVE  Delivers(UpdateRead(w, s), rest, due, seen, e)
<1> DEFINE a == DpiRead(w, s)
<1>1. a = <<>> \/ (a = Load(w, s) /\ MayFetch(w, s, seen, e))
  BY DEF DpiRead, MayFetch, Owed
<1>2. UpdateRead(w, s) = Then(w, a \o <<Do("UpdateShadow", s)>>)
  BY DEF UpdateRead
<1> HIDE DEF a
<1> QED BY <1>1, <1>2, ReadDelivers

LEMMA ReadFreshDelivers ==
  ASSUME NEW w, WorldOK(w), NEW rest \in Seq(AnyCall), Typed(rest), NEW s \in Signals,
         NEW due, NEW seen, NEW e, Settled(w, rest, due, seen, e), NEW m,
         \/ ~Owed(w, s) \/ OnPin(w, s)
         \/ s \in seen /\ w.sig[s].cbs # <<>> /\ m = e /\ e # "Imme"
  PROVE  Delivers(ReadFresh(w, s, m), rest, due, seen, e)
<1> DEFINE skip == w.sig[s].io # "Output" /\ w.sig[s].mode # m /\ m # "Imme"
           a == Load(w, s)
<1>1. CASE skip
  BY <1>1, DoneDelivers DEF ReadFresh, Done
<1>2. CASE ~skip
  <2>1. ReadFresh(w, s, m) = Then(w, a \o <<Do("UpdateShadow", s)>>)
    BY <1>2 DEF ReadFresh
  <2>2. MayFetch(w, s, seen, e)
    BY <1>2 DEF MayFetch, Owed
  <2>3. a = Load(w, s)
    OBVIOUS
  <2> HIDE DEF a
  <2> QED BY <2>1, <2>2, <2>3, ReadDelivers
<1> QED BY <1>1, <1>2

(* Calls that change nothing themselves and make others.                   *)
LEMMA CallsDeliver ==
  ASSUME NEW w, NEW rest \in Seq(AnyCall), NEW due, NEW seen, NEW e, Settled(w, rest, due, seen, e),
         NEW r, r.world = w, r.todo \in Seq(AnyCall),
         \A i \in DOMAIN r.todo : Harmless(r.todo[i]) /\ r.todo[i].fc # "Fetch"
  PROVE  Delivers(r, rest, due, seen, e)
<1>1. \A i \in DOMAIN r.todo : Away(w, r.todo[i])
  BY DEF Away
<1>2. Carried(w, r.todo \o rest, due, seen, e)
  BY <1>1, PushCarried
<1> QED BY <1>2 DEF Delivers

LEMMA TellDelivers ==
  ASSUME NEW w, WorldOK(w), NEW rest \in Seq(AnyCall), Typed(rest), NEW s \in Signals, NEW valid,
         NEW due, NEW seen, NEW e, Settled(w, rest, due, seen, e)
  PROVE  Delivers(CallBack(w, s, valid, "user"), rest, due, seen, e)
<1> DEFINE r == CallBack(w, s, valid, "user")
           u == r.world
           reply == Reaction[s][w.sig[s].local]
<1>1. /\ r.todo = reply /\ u.sig = w.sig /\ u.pin = w.pin /\ u.asked = w.asked
      /\ u.foreign = w.foreign /\ u.late = w.late
  BY TellIs
<1>2. w.sig[s].local \in Vectors(s)
  BY DEF WorldOK, SignalType
<1>3. reply \in Seq(AnyCall) /\ \A i \in DOMAIN reply : reply[i].fc \in {"UpdateRead", "Assign"}
  BY <1>2, ReplyIs
<1> HIDE DEF r, u, reply
<1>4. \A t \in Signals : SameAt(w, u, t)
  BY <1>1 DEF SameAt, SameConfig
<1>5. Settled(u, rest, due, seen, e)
  BY <1>4, NothingChanges
<1>6. \A i \in DOMAIN r.todo : Harmless(r.todo[i]) /\ r.todo[i].fc # "Fetch"
  BY <1>1, <1>3 DEF Harmless
<1>7. r.world = u /\ r.todo \in Seq(AnyCall)
  BY <1>1, <1>3 DEF u
<1>8. Delivers(r, rest, due, seen, e)
  BY <1>5, <1>6, <1>7, CallsDeliver
<1> QED BY <1>8 DEF r

LEMMA OnChangeDelivers ==
  ASSUME NEW w, NEW s \in Signals, NEW cb \in Listeners(s), NEW rest \in Seq(AnyCall), NEW due, NEW seen, NEW e,
         Settled(w, rest, due, seen, e)
  PROVE  Delivers(OnChange(w, s, cb), rest, due, seen, e)
<1> DEFINE a == Do("UpdateRead", s)
           b == DoWith("Listen", s, cb)
           read == IF w.sig[s].cbs = <<>> THEN <<a>> ELSE <<>>
           add == <<b>>
           new == read \o add
<1>1. a \in AnyCall /\ a.fc = "UpdateRead" /\ b \in AnyCall /\ b.fc = "Listen"
  BY CallTypes DEF Plain, Is
<1>2. OnChange(w, s, cb).world = w /\ OnChange(w, s, cb).todo = new
  BY DEF OnChange, Then
<1> HIDE DEF a, b
<1>3. read \in Seq(AnyCall) /\ \A i \in DOMAIN read : read[i] = a
  BY <1>1, LiteralSeq
<1>4. add \in Seq(AnyCall) /\ \A i \in DOMAIN add : add[i] = b
  BY <1>1, LiteralSeq
<1> HIDE DEF read, add
<1>5. new \in Seq(AnyCall) /\ \A i \in DOMAIN new : new[i] \in {a, b}
  BY <1>3, <1>4, Concat
<1> HIDE DEF new
<1>6. \A i \in DOMAIN new : Harmless(new[i]) /\ new[i].fc # "Fetch"
  BY <1>1, <1>5 DEF Harmless
<1> QED BY <1>2, <1>5, <1>6, CallsDeliver

LEMMA ConnectDelivers ==
  ASSUME NEW w, NEW s \in Signals, NEW t \in Signals, mWidth[t] = mWidth[s],
         NEW rest \in Seq(AnyCall), NEW due, NEW seen, NEW e, Settled(w, rest, due, seen, e)
  PROVE  Delivers(Connect(w, s, t), rest, due, seen, e)
<1>1. ASSUME NEW a \in Signals, NEW b \in Signals, mWidth[a] = mWidth[b]
      PROVE  Delivers(Link(w, a, b), rest, due, seen, e)
  <2> DEFINE c1 == Do("UpdateRead", a)
             c2 == DoWith("Copy", b, a)
             c3 == DoWith("OnChange", a, b)
             new == <<c1, c2, c3>>
  <2>1. /\ c1 \in AnyCall /\ c1.fc = "UpdateRead"
        /\ c2 \in AnyCall /\ c2.fc = "Copy"
        /\ c3 \in AnyCall /\ c3.fc = "OnChange"
    <3>1. b \in Listeners(a)
      BY <1>1 DEF Listeners
    <3> QED BY <1>1, <3>1, CallTypes DEF Plain, Is
  <2>2. Link(w, a, b).world = w /\ Link(w, a, b).todo = new
    BY DEF Link, Then
  <2> HIDE DEF c1, c2, c3
  <2>3. new \in Seq(AnyCall) /\ DOMAIN new = {1, 2, 3} /\ new[1] = c1 /\ new[2] = c2 /\ new[3] = c3
    BY <2>1
  <2> HIDE DEF new
  <2>4. \A i \in DOMAIN new : Harmless(new[i]) /\ new[i].fc # "Fetch"
    BY <2>1, <2>3 DEF Harmless
  <2> QED BY <2>2, <2>3, <2>4, CallsDeliver
<1> QED BY <1>1, DoneDelivers DEF Connect
-----------------------------------------------------------------------------
(* Changes of direction, mode, filter and backend.                         *)
LEMMA UnowedSettled ==
  ASSUME NEW w, NEW u, NEW q, NEW due, NEW seen, NEW e, Typed(q), Settled(w, q, due, seen, e), NEW x \in Signals,
         \A s \in Signals \ {x} : SameAt(w, u, s),
         u.asked[x] = None, Recorded(u, x),
         u.sig[x].rd = w.sig[x].rd \/ \A i \in DOMAIN q : q[i].fc # "Fetch",
         u.sig[x].mode = w.sig[x].mode \/ \A i \in DOMAIN q : q[i].fc # "SetMode"
  PROVE  Settled(u, q, due, seen, e)
<1>1. /\ \A i \in DOMAIN q : Allowed(w, q[i], seen, e) /\ Away(w, q[i])
      /\ OneMode(q)
      /\ \A s \in Signals : /\ Recorded(w, s) /\ Cached(w, s, seen, e) /\ Sent(w, <<>>, s)
                            /\ Passed(w, q, s, due, e)
  BY SettledIs
<1>2. ~Owed(u, x)
  BY DEF Owed
<1>3. Cached(u, x, seen, e) /\ Sent(u, <<>>, x) /\ Passed(u, q, x, due, e)
  BY <1>2 DEF Cached, Sent, Passed
<1> QED BY <1>1, <1>3, OneChanges

(* The signal whose direction or mode is set.                              *)
LEMMA SetModeIs ==
  ASSUME NEW w, WorldOK(w), NEW s \in Signals, NEW m \in Modes
  PROVE  LET u == SetMode(w, s, m) IN
         /\ WorldOK(u) /\ (\A t \in Signals \ {s} : u.sig[t] = w.sig[t])
         /\ u.pin = w.pin /\ u.asked = w.asked /\ u.foreign = w.foreign /\ u.late = w.late /\ u.within = w.within
         /\ u.sig[s].mode = m /\ u.sig[s].io = w.sig[s].io /\ u.sig[s].rd = w.sig[s].rd /\ u.sig[s].wr = w.sig[s].wr
         /\ u.sig[s].same = w.sig[s].same /\ u.sig[s].last = w.sig[s].last /\ u.sig[s].cbs = w.sig[s].cbs
         /\ u.sig[s].local = w.sig[s].local
<1> DEFINE x == [w.sig[s] EXCEPT !.mode = m]
<1>1. w.sig[s] \in SignalType(s) /\ w.sig[s].wr.from \notin {"const", "expr"}
  BY DEF WorldOK
<1>2. /\ x \in SignalType(s) /\ x.wr.from \notin {"const", "expr"}
      /\ x.mode = m /\ x.io = w.sig[s].io /\ x.rd = w.sig[s].rd /\ x.wr = w.sig[s].wr
      /\ x.same = w.sig[s].same /\ x.last = w.sig[s].last /\ x.cbs = w.sig[s].cbs /\ x.local = w.sig[s].local
  BY <1>1 DEF SignalType
<1>3. SetMode(w, s, m) = WithSig(w, s, x)
  BY DEF SetMode, WithSig, WorldOK
<1> HIDE DEF x
<1> QED BY <1>2, <1>3, SignalChange

LEMMA SettleDelivers ==
  ASSUME NEW w, WorldOK(w), NEW rest, Typed(rest), NEW s \in Signals,
         NEW due, NEW seen, NEW e, Settled(w, rest, due, seen, e)
  PROVE  Settled(Settle(w, s), rest, due, seen, e)
<1> DEFINE u == Settle(w, s)
<1>1. /\ u.sig = w.sig /\ u.pin = w.pin /\ u.foreign = w.foreign /\ u.late = w.late /\ u.within = w.within
      /\ u.asked[s] = None /\ \A t \in Signals \ {s} : u.asked[t] = w.asked[t]
  BY SettleIs
<1> HIDE DEF u
<1>2. Recorded(w, s)
  BY SettledIs
<1>3. Recorded(u, s) /\ \A t \in Signals \ {s} : SameAt(w, u, t)
  BY <1>1, <1>2 DEF Recorded, SameAt, SameConfig
<1>4. Settled(u, rest, due, seen, e)
  BY <1>1, <1>3, UnowedSettled
<1> QED BY <1>4 DEF u

(* What is not on its pin is waived.                                       *)
LEMMA WaiveDelivers ==
  ASSUME NEW w, WorldOK(w), NEW rest, Typed(rest), NEW s \in Signals,
         NEW due, NEW seen, NEW e, Settled(w, rest, due, seen, e)
  PROVE  LET u == Waive(w, s) IN
         /\ WorldOK(u) /\ Settled(u, rest, due, seen, e) /\ u.sig = w.sig
         /\ u.asked[s] = None \/ (u.sig[s].local = u.asked[s] /\ OnPin(u, s))
<1>1. CASE Delivered(w, s)
  <2>1. Waive(w, s) = w
    BY <1>1 DEF Waive
  <2>2. w.sig[s].local = w.asked[s] /\ OnPin(w, s)
    BY <1>1 DEF Delivered, OnPin
  <2> QED BY <2>1, <2>2
<1>2. CASE ~Delivered(w, s)
  <2>1. Waive(w, s) = Settle(w, s)
    BY <1>2 DEF Waive
  <2> QED BY <2>1, SettleIs, SettleDelivers
<1> QED BY <1>1, <1>2

(* Another direction or mode for a signal that owes nothing, or whose      *)
(* value is cached and on its pin.                                         *)
LEMMA ServedSettled ==
  ASSUME NEW w, NEW u, NEW q, NEW due, NEW seen, NEW e, Typed(q), Settled(w, q, due, seen, e), NEW x \in Signals,
         \A s \in Signals \ {x} : SameAt(w, u, s),
         u.asked[x] = None \/ (u.sig[x].local = u.asked[x] /\ OnPin(u, x)), Recorded(u, x),
         u.sig[x].rd = w.sig[x].rd \/ \A i \in DOMAIN q : q[i].fc # "Fetch",
         u.sig[x].mode = w.sig[x].mode \/ \A i \in DOMAIN q : q[i].fc # "SetMode"
  PROVE  Settled(u, q, due, seen, e)
<1>1. /\ \A i \in DOMAIN q : Allowed(w, q[i], seen, e) /\ Away(w, q[i])
      /\ OneMode(q)
      /\ \A s \in Signals : /\ Recorded(w, s) /\ Cached(w, s, seen, e) /\ Sent(w, <<>>, s)
                            /\ Passed(w, q, s, due, e)
  BY SettledIs
<1>2. Owed(u, x) => u.sig[x].local = u.asked[x] /\ OnPin(u, x)
  BY DEF Owed
<1>3. Cached(u, x, seen, e) /\ Sent(u, <<>>, x) /\ Passed(u, q, x, due, e)
  BY <1>2 DEF Cached, Sent, Passed
<1> QED BY <1>1, <1>3, OneChanges

LEMMA SetWriteModeDelivers ==
  ASSUME NEW w, WorldOK(w), NEW rest, Typed(rest), NEW s \in Signals, NEW m \in Modes,
         NEW due, NEW seen, Settled(w, rest, due, seen, "none"),
         \A i \in DOMAIN rest : rest[i].fc # "SetMode"
  PROVE  Settled(SetWriteMode(w, s, m), rest, due, seen, "none")
<1> DEFINE z == IF m = "Imme" THEN Waive(w, s) ELSE w
           u == SetMode(z, s, m)
<1>1. /\ WorldOK(z) /\ Settled(z, rest, due, seen, "none")
      /\ m = "Imme" => z.asked[s] = None \/ (z.sig[s].local = z.asked[s] /\ OnPin(z, s))
  BY WaiveDelivers
<1>2. SetWriteMode(w, s, m) = u
  BY DEF SetWriteMode
<1> HIDE DEF z
<1>3. /\ (\A t \in Signals \ {s} : u.sig[t] = z.sig[t])
      /\ u.pin = z.pin /\ u.asked = z.asked /\ u.foreign = z.foreign /\ u.late = z.late /\ u.sig[s].mode = m
      /\ u.sig[s].io = z.sig[s].io /\ u.sig[s].rd = z.sig[s].rd /\ u.sig[s].wr = z.sig[s].wr
      /\ u.sig[s].same = z.sig[s].same /\ u.sig[s].last = z.sig[s].last /\ u.sig[s].local = z.sig[s].local
  BY <1>1, SetModeIs
<1> HIDE DEF u
<1>4. /\ \A i \in DOMAIN rest : Allowed(z, rest[i], seen, "none") /\ Away(z, rest[i])
      /\ OneMode(rest)
      /\ \A t \in Signals : /\ Recorded(z, t) /\ Cached(z, t, seen, "none") /\ Sent(z, <<>>, t)
                            /\ Passed(z, rest, t, due, "none")
  BY <1>1, SettledIs
<1>5. Recorded(u, s) /\ \A t \in Signals \ {s} : SameAt(z, u, t)
  BY <1>3, <1>4 DEF Recorded, SameAt, SameConfig
<1>6. CASE m = "Imme"
  <2>1. u.asked[s] = None \/ (u.sig[s].local = u.asked[s] /\ OnPin(u, s))
    BY <1>1, <1>3, <1>6 DEF OnPin
  <2>2. Settled(u, rest, due, seen, "none")
    BY <1>1, <1>3, <1>5, <2>1, ServedSettled
  <2> QED BY <1>2, <2>2
<1>7. CASE m # "Imme"
  <2>1. z.sig[s].mode \in Modes
    BY <1>1 DEF WorldOK, SignalType
  <2>2. z.sig[s].mode # "none" /\ u.sig[s].mode \notin {"none", "Imme"}
    BY <1>3, <1>7, <2>1 DEF Modes
  <2>3. Cached(u, s, seen, "none")
    BY <1>3, <1>4, <2>2 DEF Cached, Lost, Owed
  <2>4. Sent(u, <<>>, s) /\ Passed(u, rest, s, due, "none")
    BY <2>2 DEF Sent, Passed
  <2>5. Settled(u, rest, due, seen, "none")
    BY <1>3, <1>4, <1>5, <2>3, <2>4, OneChanges
  <2> QED BY <1>2, <2>5
<1> QED BY <1>6, <1>7

LEMMA SetIODelivers ==
  ASSUME NEW w, WorldOK(w), NEW rest, Typed(rest), NEW s \in Signals, NEW io \in Directions,
         NEW due, NEW seen, NEW e, Settled(w, rest, due, seen, e)
  PROVE  Settled(SetIO(w, s, io), rest, due, seen, e)
<1> DEFINE z == Waive(w, s)
           x == [z.sig[s] EXCEPT !.io = io]
           u == WithSig(z, s, x)
<1>1. /\ WorldOK(z) /\ Settled(z, rest, due, seen, e)
      /\ z.asked[s] = None \/ (z.sig[s].local = z.asked[s] /\ OnPin(z, s))
  BY WaiveDelivers
<1>2. SetIO(w, s, io) = [z EXCEPT !.sig[s].io = io]
  BY DEF SetIO
<1> HIDE DEF z
<1>3. z.sig[s] \in SignalType(s) /\ z.sig[s].wr.from \notin {"const", "expr"}
  BY <1>1 DEF WorldOK
<1>4. /\ x \in SignalType(s) /\ x.wr.from \notin {"const", "expr"} /\ x.local = z.sig[s].local
      /\ x.rd = z.sig[s].rd /\ x.wr = z.sig[s].wr /\ x.mode = z.sig[s].mode
      /\ x.same = z.sig[s].same /\ x.last = z.sig[s].last
  BY <1>3 DEF SignalType
<1>5. SetIO(w, s, io) = u
  BY <1>1, <1>2 DEF WithSig, WorldOK
<1> HIDE DEF x
<1>6. /\ u.sig[s] = x /\ (\A t \in Signals \ {s} : u.sig[t] = z.sig[t])
      /\ u.pin = z.pin /\ u.asked = z.asked /\ u.foreign = z.foreign /\ u.late = z.late
  BY <1>1, <1>4, SignalChange
<1> HIDE DEF u
<1>7. Recorded(z, s)
  BY <1>1, SettledIs
<1>8. Recorded(u, s) /\ \A t \in Signals \ {s} : SameAt(z, u, t)
  BY <1>4, <1>6, <1>7 DEF Recorded, SameAt, SameConfig
<1>9. u.asked[s] = None \/ (u.sig[s].local = u.asked[s] /\ OnPin(u, s))
  BY <1>1, <1>4, <1>6 DEF OnPin
<1> QED BY <1>1, <1>4, <1>5, <1>6, <1>8, <1>9, ServedSettled

LEMMA FlipDelivers ==
  ASSUME NEW w, WorldOK(w), NEW rest, Typed(rest), NEW s \in Signals,
         NEW due, NEW seen, NEW e, Settled(w, rest, due, seen, e)
  PROVE  Settled(FlipIOType(w, s), rest, due, seen, e)
<1> DEFINE io == CASE w.sig[s].io = "Input"  -> "Output"
                   [] w.sig[s].io = "Output" -> "Input"
                   [] OTHER -> "InOut"
<1>1. io \in Directions
  BY DEF Directions
<1>2. FlipIOType(w, s) = SetIO(w, s, io)
  BY DEF FlipIOType
<1> HIDE DEF io
<1> QED BY <1>1, <1>2, SetIODelivers

(* The mode ImmSet puts back: what was assigned in between is on the pin.  *)
LEMMA SetModeDelivers ==
  ASSUME NEW w, WorldOK(w), NEW rest, Typed(rest), NEW s \in Signals, NEW m \in Modes,
         NEW due, NEW seen, NEW e, e # "Imme", Settled(w, rest, due, seen, e),
         \A i \in DOMAIN rest : rest[i].fc # "SetMode", w.sig[s].mode = "Imme"
  PROVE  Settled(SetMode(w, s, m), rest, due, seen, e)
<1> DEFINE u == SetMode(w, s, m)
<1>1. /\ (\A t \in Signals \ {s} : u.sig[t] = w.sig[t])
      /\ u.pin = w.pin /\ u.asked = w.asked /\ u.foreign = w.foreign /\ u.late = w.late /\ u.within = w.within
      /\ u.sig[s].mode = m /\ u.sig[s].io = w.sig[s].io /\ u.sig[s].rd = w.sig[s].rd /\ u.sig[s].wr = w.sig[s].wr
      /\ u.sig[s].same = w.sig[s].same /\ u.sig[s].last = w.sig[s].last
      /\ u.sig[s].local = w.sig[s].local
  BY SetModeIs
<1> HIDE DEF u
<1>2. /\ \A i \in DOMAIN rest : Allowed(w, rest[i], seen, e) /\ Away(w, rest[i])
      /\ OneMode(rest)
      /\ \A t \in Signals : /\ Recorded(w, t) /\ Cached(w, t, seen, e) /\ Sent(w, <<>>, t)
                            /\ Passed(w, rest, t, due, e)
  BY SettledIs
<1>3. \A t \in Signals \ {s} : SameAt(w, u, t)
  BY <1>1 DEF SameAt, SameConfig
<1>4. Owed(u, s) => /\ Owed(w, s) /\ u.sig[s].local = u.asked[s] /\ (s \notin u.foreign => OnPin(u, s))
  <2>1. Owed(u, s) <=> Owed(w, s)
    BY <1>1 DEF Owed
  <2>2. Owed(w, s) => w.sig[s].local = w.asked[s]
    BY <1>2 DEF Cached, Lost
  <2>3. Owed(w, s) /\ s \notin w.foreign => OnPin(w, s)
    BY <1>2 DEF Sent
  <2> QED BY <1>1, <2>1, <2>2, <2>3 DEF OnPin
<1>5. Recorded(u, s) /\ Cached(u, s, seen, e) /\ Sent(u, <<>>, s) /\ Passed(u, rest, s, due, e)
  BY <1>1, <1>2, <1>4 DEF Recorded, Cached, Sent, Passed
<1>6. Settled(u, rest, due, seen, e)
  BY <1>1, <1>2, <1>3, <1>5, OneChanges
<1> QED BY <1>6 DEF u
-----------------------------------------------------------------------------
(* One call of any kind, and all of them.                                  *)
LEMMA PerformDelivers ==
  ASSUME NEW w, WorldOK(w), NEW q, Pending(w, q), q # <<>>, NEW due, NEW seen, NEW e,
         Carried(w, q, due, seen, e), seen \subseteq due, e # "Imme"
  PROVE  Delivers(Perform(w, Head(q)), Tail(q), due, seen, e)
<1> DEFINE c    == Head(q)
           rest == Tail(q)
           s    == c.on
<1>1. CallOK(c) /\ rest \in Seq(AnyCall) /\ Typed(rest) /\ s \in Signals
  <2>1. CallOK(c) /\ rest \in Seq(AnyCall) /\ Typed(rest)
    BY Pop, Zenon
  <2> QED BY <2>1 DEF CallOK, AnyCall
<1>2. /\ Allowed(w, c, seen, e) /\ (Away(w, c) \/ MayFetch(w, c.on, seen, e))
      /\ \A i \in DOMAIN rest : Allowed(w, rest[i], seen, e) /\ Away(w, rest[i])
      /\ c.fc = "SetMode" => \A i \in DOMAIN rest : rest[i].fc \notin {"SetMode", "AsWrite"}
      /\ c.fc = "AsWrite" => \A i \in DOMAIN rest : rest[i].fc # "SetMode"
      /\ OneMode(rest)
      /\ \A t \in Signals : /\ Recorded(w, t) /\ Cached(w, t, seen, e)
                            /\ Sent(w, <<>>, t) \/ Flushes(c, t, "Imme")
                            /\ Passed(w, rest, t, due, e) \/ Flushes(c, t, e)
  <2>1. q \in Seq(AnyCall)
    BY DEF Pending
  <2> QED BY <2>1, PopCarried, Zenon
<1>3. \A t \in Signals : w.sig[t].local \in Vectors(t)
  BY DEF WorldOK, SignalType
<1> HIDE DEF rest, s, c
<1>4. c.fc # "Flush" => Settled(w, rest, due, seen, e)
  <2> SUFFICES ASSUME c.fc # "Flush" PROVE Settled(w, rest, due, seen, e)
    OBVIOUS
  <2>1. \A t, m : ~Flushes(c, t, m)
    BY DEF Flushes, Is
  <2> QED BY <1>2, <2>1, SettledIs
<1>5. ASSUME c.fc = "Flush" PROVE Delivers(Perform(w, c), rest, due, seen, e)
  <2>1. \A t, m : Flushes(c, t, m) => t = s /\ c.arg = m
    BY DEF Flushes, Is, s
  <2>2. Popped(w, rest, s, c.arg, due, seen, e)
    BY <1>2, <2>1 DEF Popped
  <2>3. Perform(w, c) = FlushIn(w, s, c.arg) /\ Recorded(w, s)
    BY <1>1, <1>2, <1>5, Performs DEF s
  <2> QED BY <1>1, <2>2, <2>3, FlushDelivers
<1>6. ASSUME c.fc = "UpdateRead" PROVE Delivers(Perform(w, c), rest, due, seen, e)
  <2>1. Perform(w, c) = UpdateRead(w, s)
    BY <1>6, Performs DEF s
  <2> QED BY <1>1, <1>4, <1>6, <2>1, UpdateReadDelivers
<1>7. ASSUME c.fc = "Fetch" PROVE Delivers(Perform(w, c), rest, due, seen, e)
  <2>1. Perform(w, c) = Fetch(w, s)
    BY <1>7, Performs DEF s
  <2>2. w.sig[s].rd.from # "pin" \/ MayFetch(w, s, seen, e)
    BY <1>2, <1>7 DEF Away, s
  <2> QED BY <1>1, <1>4, <1>7, <2>1, <2>2, FetchDelivers
<1>8. ASSUME c.fc = "Observe" PROVE Delivers(Perform(w, c), rest, due, seen, e)
  <2>1. Perform(w, c) = IF w.sig[s].cbs = <<>> THEN Done(w) ELSE ReadFresh(w, s, c.arg)
    BY <1>8, Performs DEF s
  <2>2. s \in seen /\ c.arg = e
    BY <1>2, <1>8 DEF Allowed, s
  <2> QED BY <1>1, <1>4, <1>8, <2>1, <2>2, ReadFreshDelivers, DoneDelivers
<1>9. ASSUME c.fc = "UpdateShadow" PROVE Delivers(Perform(w, c), rest, due, seen, e)
  <2>1. Perform(w, c) = UpdateShadow(w, s)
    BY <1>9, Performs DEF s
  <2> QED BY <1>1, <1>4, <1>9, <2>1, AnnounceDelivers
<1>10. ASSUME c.fc = "Release" PROVE Delivers(Perform(w, c), rest, due, seen, e)
  <2>1. Perform(w, c) = Release(w, s)
    BY <1>10, Performs DEF s
  <2> QED BY <1>1, <1>4, <1>10, <2>1, ReleaseDelivers
<1>11. ASSUME c.fc = "CallBack" PROVE Delivers(Perform(w, c), rest, due, seen, e)
  <2>1. Perform(w, c) = CallBack(w, s, c.arg.valid, c.arg.cb) /\ c.arg.cb \in Listeners(s)
    BY <1>1, <1>11, Performs DEF s, CallOK, Plain
  <2>2. Settled(w, rest, due, seen, e)
    BY <1>4, <1>11
  <2>3. CASE c.arg.cb = "user"
    BY <1>1, <2>1, <2>2, <2>3, TellDelivers
  <2>4. CASE c.arg.cb # "user"
    <3>1. Perform(w, c) = Done(w) \/ Perform(w, c) = StoreValue(w, c.arg.cb, w.sig[s].local)
      BY <2>1, <2>4 DEF CallBack
    <3>2. c.arg.cb \in Signals /\ mWidth[c.arg.cb] = mWidth[s]
      BY <2>1, <2>4 DEF Listeners
    <3>3. w.sig[s].local \in Vectors(c.arg.cb)
      BY <1>1, <1>3, <3>2 DEF Vectors, Bits, Width
    <3> QED BY <1>1, <2>2, <3>1, <3>2, <3>3, StoreDelivers, DoneDelivers
  <2> QED BY <2>3, <2>4
<1>12. ASSUME c.fc = "Copy" PROVE Delivers(Perform(w, c), rest, due, seen, e)
  <2>1. Perform(w, c) = StoreValue(w, s, w.sig[c.arg].local)
    BY <1>12, Performs DEF s, Copy
  <2>2. c.arg \in Signals /\ mWidth[c.arg] = mWidth[s]
    BY <1>1, <1>12 DEF CallOK, Plain, s
  <2>3. w.sig[c.arg].local \in Vectors(s)
    BY <1>3, <2>2 DEF Vectors, Bits, Width
  <2> QED BY <1>1, <1>4, <1>12, <2>1, <2>3, StoreDelivers
<1>13. ASSUME c.fc = "SetBit" PROVE Delivers(Perform(w, c), rest, due, seen, e)
  <2> DEFINE v == [w.sig[s].local EXCEPT ![c.arg.at] = c.arg.to]
  <2>1. Perform(w, c) = StoreValue(w, s, v)
    BY <1>13, Performs DEF s, SetBit
  <2>2. c.arg.at \in Bits(s) /\ c.arg.to \in 0 .. 3
    BY <1>1, <1>13 DEF CallOK, Plain, s
  <2>3. v \in Vectors(s)
    BY <1>1, <1>3, <2>2 DEF Vectors
  <2> HIDE DEF v
  <2> QED BY <1>1, <1>4, <1>13, <2>1, <2>3, StoreDelivers
<1>14. ASSUME c.fc = "SetMode" PROVE Delivers(Perform(w, c), rest, due, seen, e)
  <2>1. Perform(w, c) = Done(SetMode(w, s, c.arg)) /\ c.arg \in Modes
    BY <1>1, <1>14, Performs DEF CallOK, Plain, s
  <2>2. w.sig[s].mode = "Imme" /\ \A i \in DOMAIN rest : rest[i].fc # "SetMode"
    BY <1>2, <1>14 DEF Allowed, s
  <2>3. Settled(SetMode(w, s, c.arg), rest, due, seen, e)
    BY <1>1, <1>4, <1>14, <2>1, <2>2, SetModeDelivers
  <2> QED BY <1>1, <2>1, <2>3, DoneDelivers
<1>15. ASSUME c.fc = "OnChange" PROVE Delivers(Perform(w, c), rest, due, seen, e)
  <2>1. Perform(w, c) = OnChange(w, s, c.arg) /\ c.arg \in Listeners(s)
    BY <1>1, <1>15, Performs DEF CallOK, Plain, s
  <2> QED BY <1>1, <1>4, <1>15, <2>1, OnChangeDelivers
<1>16. ASSUME c.fc = "Listen" PROVE Delivers(Perform(w, c), rest, due, seen, e)
  <2>1. Perform(w, c) = Listen(w, s, c.arg) /\ c.arg \in Listeners(s)
    BY <1>1, <1>16, Performs DEF CallOK, Plain, s
  <2> QED BY <1>1, <1>4, <1>16, <2>1, ListenDelivers
<1>17. ASSUME c.fc = "Connect" PROVE Delivers(Perform(w, c), rest, due, seen, e)
  <2>1. Perform(w, c) = Connect(w, s, c.arg) /\ c.arg \in Signals /\ mWidth[c.arg] = mWidth[s]
    BY <1>1, <1>17, Performs DEF CallOK, Plain, s
  <2> QED BY <1>1, <1>4, <1>17, <2>1, ConnectDelivers
<1>18. ASSUME c.fc = "FlipIOType" PROVE Delivers(Perform(w, c), rest, due, seen, e)
  <2>1. Perform(w, c) = Done(FlipIOType(w, s))
    BY <1>18, Performs DEF s
  <2> QED BY <1>1, <1>4, <1>18, <2>1, FlipDelivers, DoneDelivers
<1>19. ASSUME c.fc = "AsBiIO" PROVE Delivers(Perform(w, c), rest, due, seen, e)
  <2>1. Perform(w, c) = Done(SetIO(w, s, "InOut")) /\ "InOut" \in Directions
    BY <1>19, Performs DEF s, Directions
  <2> QED BY <1>1, <1>4, <1>19, <2>1, SetIODelivers, DoneDelivers
<1>20. ASSUME c.fc = "AsWrite" PROVE Delivers(Perform(w, c), rest, due, seen, e)
  <2>1. Perform(w, c) = Done(w) \/ Perform(w, c) = Done(SetWriteMode(w, s, c.arg))
    BY <1>20, Performs DEF s
  <2>2. c.arg \in Modes /\ (\A i \in DOMAIN rest : rest[i].fc # "SetMode") /\ e = "none"
    BY <1>1, <1>2, <1>20 DEF CallOK, Plain, Allowed
  <2>3. Settled(w, rest, due, seen, e)
    BY <1>4, <1>20
  <2>4. Settled(SetWriteMode(w, s, c.arg), rest, due, seen, e)
    BY <1>1, <2>2, <2>3, SetWriteModeDelivers
  <2> QED BY <1>1, <2>1, <2>3, <2>4, DoneDelivers
<1>21. ASSUME c.fc = "SetZero" PROVE Delivers(Perform(w, c), rest, due, seen, e)
  <2>1. Perform(w, c) = Done(w) \/ Perform(w, c) = StoreValue(w, s, Number(s, 0))
    BY <1>21, Performs DEF s, AssignInt
  <2>2. Number(s, 0) \in Vectors(s)
    BY <1>1, NumberIs
  <2> QED BY <1>1, <1>4, <1>21, <2>1, <2>2, StoreDelivers, DoneDelivers
<1>22. ASSUME c.fc = "Assign" PROVE Delivers(Perform(w, c), rest, due, seen, e)
  <2>1. Perform(w, c) = Done(w) \/ Perform(w, c) = StoreValue(w, s, c.arg)
    BY <1>22, Performs DEF s
  <2>2. c.arg \in Vectors(s)
    BY <1>1, <1>22 DEF CallOK, Plain, s
  <2> QED BY <1>1, <1>4, <1>22, <2>1, <2>2, StoreDelivers, DoneDelivers
<1>23. Delivers(Perform(w, c), rest, due, seen, e)
  <2>1. c.fc \in {"UpdateRead", "Fetch", "FlipIOType", "AsBiIO", "SetZero", "Observe", "SetMode", "AsWrite",
                 "Copy", "Connect", "OnChange", "Listen", "SetBit", "Flush", "UpdateShadow", "Release", "CallBack",
                 "Assign"}
    BY <1>1 DEF CallOK, Plain
  <2> QED BY <1>5, <1>6, <1>7, <1>8, <1>9, <1>10, <1>11, <1>12, <1>13, <1>14, <1>15, <1>16, <1>17, <1>18,
             <1>19, <1>20, <1>21, <1>22, <2>1
<1> QED BY <1>23 DEF c, rest

LEMMA AdvanceDelivers ==
  ASSUME NEW m, WorldOK(m.world), Pending(m.world, m.todo), NEW due, NEW seen, NEW e,
         Carried(m.world, m.todo, due, seen, e), seen \subseteq due, e # "Imme"
  PROVE  Carried(Advance(m).world, Advance(m).todo, due, seen, e)
<1>1. CASE m.todo = <<>>
  BY <1>1 DEF Advance
<1>2. CASE m.todo # <<>>
  <2> DEFINE r == Perform(m.world, Head(m.todo))
  <2>1. Delivers(r, Tail(m.todo), due, seen, e)
    BY <1>2, PerformDelivers
  <2>2. Advance(m) = [world |-> r.world, todo |-> r.todo \o Tail(m.todo)]
    BY <1>2 DEF Advance, Follow, Then
  <2> HIDE DEF r
  <2> QED BY <2>1, <2>2 DEF Delivers
<1> QED BY <1>1, <1>2

LEMMA RunDelivers ==
  ASSUME NEW m, WorldOK(m.world), Pending(m.world, m.todo), NEW due, NEW seen, NEW e,
         Carried(m.world, m.todo, due, seen, e), seen \subseteq due, e # "Imme"
  PROVE  Carried(Run(m).world, Run(m).todo, due, seen, e)
<1> DEFINE run == RunTo(m, MaxSteps)
           Good(r) == WorldOK(r.world) /\ Pending(r.world, r.todo) /\ Carried(r.world, r.todo, due, seen, e)
           Fails == {n \in 0 .. MaxSteps : ~Good(run[n])}
<1>0. MaxSteps \in Nat
  BY SignalAssumption
<1>1. run = [n \in 0 .. MaxSteps |-> Step(m, run, n)]
  BY <1>0, RunExists DEF RunTo
<1>2. Run(m) = run[MaxSteps]
  BY DEF Run, RunTo, Step
<1> HIDE DEF run
<1>3. ASSUME NEW n \in Fails, \A k \in Fails : n <= k
      PROVE  FALSE
  <2>1. run[n] = Step(m, run, n)
    BY <1>1
  <2>2. CASE n = 0
    BY <2>1, <2>2 DEF Step
  <2>3. CASE n # 0
    <3>1. n - 1 \in 0 .. MaxSteps /\ n - 1 \notin Fails
      BY <1>0, <1>3, <2>3
    <3>2. Good(run[n - 1])
      BY <3>1
    <3>3. run[n] = Advance(run[n - 1])
      BY <2>1, <2>3 DEF Step
    <3>4. Good(run[n])
      BY <3>2, <3>3, AdvanceStep, AdvanceDelivers
    <3> QED BY <3>4
  <2> QED BY <2>2, <2>3
<1>4. Fails = {}
  <2>1. Fails \subseteq Nat
    BY <1>0
  <2> HIDE DEF Fails
  <2> QED BY <1>3, <2>1, SmallestOf
<1> QED BY <1>0, <1>2, <1>4
-----------------------------------------------------------------------------
(* The calls a call of the user or the pass of an edge begins with, and    *)
(* what they leave when all are done.                                      *)
Even(w) == Settled(w, <<>>, {}, {}, "none")

LEMMA StartSettled ==
  ASSUME NEW w, NEW new, NEW due, NEW seen, NEW e,
         \A i \in DOMAIN new : Allowed(w, new[i], seen, e) /\ new[i].fc \notin {"Fetch", "SetMode"},
         \A s \in Signals : Recorded(w, s) /\ Cached(w, s, seen, e) /\ Sent(w, <<>>, s) /\ Passed(w, new, s, due, e)
  PROVE  Settled(w, new, due, seen, e)
<1>1. \A i \in DOMAIN new : Allowed(w, new[i], seen, e) /\ Away(w, new[i])
  BY DEF Away
<1>2. OneMode(new)
  BY DEF OneMode
<1> QED BY <1>1, <1>2, SettledIs

LEMMA EndSettled ==
  ASSUME NEW w, NEW u, NEW due, NEW seen, NEW e, NEW d, NEW x, Carried(w, <<>>, due, seen, e),
         u.sig = w.sig, u.pin = w.pin, u.foreign = w.foreign, e # "Imme",
         \A s \in Signals : u.asked[s] \in {None, w.asked[s]},
         \A s \in Signals : Lost(w, s, seen, e) => u.asked[s] = None \/ w.sig[s].local = w.asked[s],
         d = {} \/ (d = due /\ x = e /\ \A s \in Signals \cap w.late : s \in u.late \/ Delivered(w, s))
  PROVE  Settled(u, <<>>, d, {}, x)
<1>1. DOMAIN <<>> = {}
  OBVIOUS
<1>2. ASSUME NEW s \in Signals
      PROVE  Recorded(u, s) /\ Cached(u, s, {}, x) /\ Sent(u, <<>>, s) /\ Passed(u, <<>>, s, d, x)
  <2>1. Recorded(w, s) /\ Cached(w, s, seen, e) /\ Sent(w, <<>>, s) /\ Passed(w, <<>>, s, due, e)
    BY DEF Carried, Agreed
  <2>2. Owed(u, s) => Owed(w, s) /\ u.asked[s] = w.asked[s] /\ (OnPin(u, s) <=> OnPin(w, s))
    BY DEF Owed, OnPin
  <2>3. Recorded(u, s)
    BY <2>1 DEF Recorded
  <2>4. Cached(u, s, {}, x)
    <3>1. Owed(u, s) /\ Lost(w, s, seen, e) => w.sig[s].local = w.asked[s]
      BY <2>2 DEF Owed
    <3> QED BY <2>1, <2>2, <3>1 DEF Cached
  <2>5. Sent(u, <<>>, s)
    BY <1>1, <2>1, <2>2 DEF Sent
  <2>6. Passed(u, <<>>, s, d, x)
    <3>1. Delivered(w, s) => OnPin(w, s)
      BY DEF Delivered, OnPin
    <3> QED BY <1>1, <2>1, <2>2, <3>1 DEF Passed
  <2> QED BY <2>3, <2>4, <2>5, <2>6
<1>3. OneMode(<<>>)
  BY <1>1 DEF OneMode
<1> QED BY <1>1, <1>2, <1>3, SettledIs

LEMMA RunEnds ==
  ASSUME NEW m, Sound(m, <<>>), NEW due, NEW seen, NEW e, Delivers(m, <<>>, due, seen, e),
         seen \subseteq due, e # "Imme", Run(m).todo = <<>>
  PROVE  Carried(Run(m).world, <<>>, due, seen, e)
<1>1. m.todo \in Seq(AnyCall) /\ WorldOK(m.world) /\ Pending(m.world, m.todo \o <<>>)
  BY DEF Sound
<1>2. m.todo \o <<>> = m.todo
  BY <1>1, ConcatEmptySeq
<1>3. Carried(m.world, m.todo, due, seen, e)
  BY <1>2 DEF Delivers
<1> QED BY <1>1, <1>2, <1>3, RunDelivers

LEMMA ReturnEven ==
  ASSUME NEW m, Sound(m, <<>>), Delivers(m, <<>>, {}, {}, "none"), Return(m)
  PROVE  Even(World')
<1> DEFINE w == Run(m).world
           u == World'
<1>1. Run(m).todo = <<>> /\ Become(w)
  BY DEF Return
<1>2. Carried(w, <<>>, {}, {}, "none")
  BY <1>1, RunEnds
<1> HIDE DEF w
<1>3. u.sig = w.sig /\ u.pin = w.pin /\ u.foreign = w.foreign /\ u.asked = w.asked
  BY <1>1 DEF World, Become
<1> HIDE DEF u
<1>4. Settled(u, <<>>, {}, {}, "none")
  BY <1>2, <1>3, EndSettled DEF Lost
<1> QED BY <1>4 DEF Even, u

(* A world at rest in which every value owed is on its way.                *)
Ready(w) == AtRest(w) /\ Even(w)

LEMMA ReadyUse ==
  ASSUME NEW w, Ready(w)
  PROVE  /\ AtRest(w) /\ WorldOK(w) /\ Settled(w, <<>>, {}, {}, "none") /\ Even(w)
         /\ <<>> \in Seq(AnyCall) /\ Typed(<<>>)
         /\ \A s \in Signals : Recorded(w, s) /\ Cached(w, s, {}, "none") /\ Sent(w, <<>>, s) /\ Passed(w, <<>>, s, {}, "none")
<1>1. <<>> \in Seq(AnyCall) /\ Typed(<<>>)
  BY DEF Typed
<1> QED BY <1>1, RestUse, SettledIs DEF Ready, Even

LEMMA StartDelivers ==
  ASSUME NEW w, Ready(w), NEW new \in Seq(Visits),
         \A i \in DOMAIN new : new[i].fc \notin {"SetMode", "Observe", "Flush"}
  PROVE  Delivers(Then(w, new), <<>>, {}, {}, "none")
<1>1. \A i \in DOMAIN new : new[i] \in Visits
  BY LenProperties
<1>2. new = [i \in DOMAIN new |-> new[i]]
  BY LenProperties, SeqDef
<1>3. new \in Seq(AnyCall) /\ new \o <<>> = new
  BY <1>1, <1>2, MapType, ConcatEmptySeq DEF Visits
<1>4. \A i \in DOMAIN new : Allowed(w, new[i], {}, "none") /\ new[i].fc \notin {"Fetch", "SetMode"}
  BY <1>1 DEF Allowed, Visits
<1>5. \A s \in Signals : Recorded(w, s) /\ Cached(w, s, {}, "none") /\ Sent(w, <<>>, s) /\ Passed(w, new, s, {}, "none")
  BY ReadyUse DEF Passed
<1>6. Settled(w, new, {}, {}, "none")
  BY <1>4, <1>5, StartSettled
<1> QED BY <1>3, <1>6 DEF Delivers, Then, Settled

(* The calls of the user on one signal.                                    *)
Fits(m) == Delivers(m, <<>>, {}, {}, "none")

LEMMA StoreFits ==
  ASSUME NEW w, Ready(w), NEW s \in Signals, NEW v \in Vectors(s)
  PROVE  Fits(StoreValue(w, s, v))
BY ReadyUse, StoreDelivers DEF Fits

LEMMA DoneFits ==
  ASSUME NEW u, Settled(u, <<>>, {}, {}, "none")
  PROVE  Fits(Done(u))
<1>1. <<>> \in Seq(AnyCall)
  OBVIOUS
<1> QED BY <1>1, DoneDelivers DEF Fits

LEMMA PairFits ==
  ASSUME NEW w, Ready(w), NEW a \in AnyCall, NEW b \in AnyCall, CallOK(a), CallOK(b),
         a.fc \notin {"Release", "CallBack", "Fetch", "SetMode", "Observe", "Flush"},
         b.fc \notin {"Release", "CallBack", "Fetch", "SetMode", "Observe", "Flush"}
  PROVE  Fits(Then(w, <<a, b>>))
<1> DEFINE new == <<a, b>>
<1>1. a \in Visits /\ b \in Visits
  BY DEF Visits
<1>2. new \in Seq(Visits) /\ \A i \in DOMAIN new : new[i].fc \notin {"SetMode", "Observe", "Flush"}
  BY <1>1
<1> HIDE DEF new
<1>3. Fits(Then(w, new))
  BY <1>2, StartDelivers DEF Fits
<1> QED BY <1>3 DEF new

LEMMA ReadBackFits ==
  ASSUME NEW u, Ready(u), NEW s \in Signals
  PROVE  Fits(Then(u, <<Do("UpdateRead", s)>>))
<1> DEFINE a == Do("UpdateRead", s)
           new == <<a>>
<1>1. a \in Visits /\ a.fc = "UpdateRead"
  BY CallTypes DEF Plain, Visits, Is
<1> HIDE DEF a
<1>2. new \in Seq(Visits) /\ \A i \in DOMAIN new : new[i].fc \notin {"SetMode", "Observe", "Flush"}
  BY <1>1
<1> HIDE DEF new
<1>3. Fits(Then(u, new))
  BY <1>2, StartDelivers DEF Fits
<1> QED BY <1>3 DEF new, a

(* ImmSet assigns in immediate mode, and no read comes before the mode is  *)
(* put back.                                                               *)
LEMMA ImmSetFits ==
  ASSUME NEW w, Ready(w), NEW s \in Signals, NEW n \in Nat, mWidth[s] = 0 => n < 4
  PROVE  Fits(ImmSet(w, s, n))
<1> DEFINE z == Waive(w, s)
           u == SetWriteMode(w, s, "Imme")
           c == DoWith("SetMode", s, w.sig[s].mode)
           more == <<c>>
<1>0. /\ AtRest(w) /\ WorldOK(w) /\ Settled(w, <<>>, {}, {}, "none") /\ <<>> \in Seq(AnyCall) /\ Typed(<<>>)
      /\ "Imme" \in Modes
  BY ReadyUse DEF Modes
<1>1. AtRest(u)
  BY <1>0, SetWriteModeRest
<1>2. Settled(u, <<>>, {}, {}, "none")
  BY <1>0, SetWriteModeDelivers
<1>3. u.sig[s].mode = "Imme"
  <2>1. WorldOK(z) /\ u = SetMode(z, s, "Imme")
    BY <1>0, WaiveDelivers DEF SetWriteMode
  <2> HIDE DEF z, u
  <2> QED BY <1>0, <2>1, SetModeIs
<1>4. w.sig[s].mode \in Modes
  BY <1>0 DEF WorldOK, SignalType
<1>5. c \in AnyCall /\ CallOK(c) /\ c.fc = "SetMode" /\ c.on = s
  BY <1>4, CallTypes DEF Is
<1>6. ImmSet(w, s, n) = Follow(StoreValue(u, s, Number(s, n)), more)
  BY DEF ImmSet, AssignInt
<1> HIDE DEF u, c
<1>7. more \in Seq(AnyCall) /\ DOMAIN more = {1} /\ more[1] = c
  BY <1>5, LiteralSeq
<1> HIDE DEF more
<1>8. Typed(more)
  BY <1>5, <1>7 DEF Typed
<1>9. Settled(u, more, {}, {}, "none")
  <2>1. \A i \in DOMAIN more : Allowed(u, more[i], {}, "none") /\ Away(u, more[i])
    BY <1>3, <1>5, <1>7 DEF Allowed, Away
  <2>2. OneMode(more)
    BY <1>7 DEF OneMode
  <2>3. \A t \in Signals : Recorded(u, t) /\ Cached(u, t, {}, "none") /\ Sent(u, <<>>, t) /\ Passed(u, more, t, {}, "none")
    BY <1>2, SettledIs DEF Passed
  <2> QED BY <2>1, <2>2, <2>3, SettledIs
<1>10. Number(s, n) \in Vectors(s)
  BY NumberIs
<1>11. more \o <<>> = more
  BY <1>7, ConcatEmptySeq
<1>12. Delivers(StoreValue(u, s, Number(s, n)), more \o <<>>, {}, {}, "none")
  BY <1>1, <1>7, <1>8, <1>9, <1>10, <1>11, RestUse, StoreDelivers
<1> QED BY <1>0, <1>6, <1>7, <1>12, FollowDelivers DEF Fits

(* A fill writes nothing: in immediate mode nothing is owed for it.        *)
LEMMA FillFits ==
  ASSUME NEW w, Ready(w), NEW s \in Signals, NEW b \in 0 .. 3
  PROVE  Fits(FillText(w, s, b))
<1>0. AtRest(w) /\ WorldOK(w) /\ Settled(w, <<>>, {}, {}, "none") /\ Typed(<<>>)
  BY ReadyUse
<1>1. Width(s) \in Nat \ {0} /\ Bits(s) = 1 .. Width(s)
  BY WidthFacts
<1>2. CASE mWidth[s] = 0
  <2>1. <<b>> \in [1 .. 1 -> 0 .. 3]
    OBVIOUS
  <2>2. <<b>> \in Vectors(s)
    BY <1>2, <2>1 DEF Vectors, Bits, Width
  <2> QED BY <1>2, <2>2, StoreFits DEF FillText
<1>3. CASE mWidth[s] # 0
  <2> DEFINE v == [Zero(s) EXCEPT ![1] = b]
             y == Put(w, s, v)
             owed == IF w.sig[s].mode = "Imme" THEN None ELSE v
             z == WithTold(y, s, None)
             u == WithAsked(z, s, owed)
  <2>1. v \in Vectors(s)
    BY <1>1, ZeroIs DEF Vectors
  <2>2. FillText(w, s, b) = Done([Put(w, s, v) EXCEPT !.told[s] = None, !.asked[s] = owed])
    BY <1>3 DEF FillText
  <2> HIDE DEF v
  <2>3. /\ WorldOK(y) /\ (\A t \in Signals \ {s} : y.sig[t] = w.sig[t])
        /\ y.sig[s].local = v /\ SameConfig(y.sig[s], w.sig[s])
        /\ y.pin = w.pin /\ y.foreign = w.foreign /\ y.late = w.late \cup {s} /\ y.within = w.within
        /\ \A t \in Signals \ {s} : y.asked[t] = w.asked[t]
    BY <1>0, <2>1, PutStep
  <2>4. FillText(w, s, b) = Done(u)
    BY <2>2 DEF WithAsked, WithTold
  <2> HIDE DEF y
  <2>5. WorldOK(z) /\ z.sig = y.sig /\ z.pin = y.pin /\ z.foreign = y.foreign /\ z.late = y.late /\ z.within = y.within /\ z.asked = y.asked
    BY <2>3, ToldChange
  <2>6. owed \in Vectors(s) \cup {None} /\ owed \in {None, v} /\ (w.sig[s].mode = "Imme" => owed = None)
    BY <2>1
  <2> HIDE DEF z, owed
  <2>7. /\ u.sig = z.sig /\ u.pin = z.pin /\ u.foreign = z.foreign /\ u.late = z.late /\ u.within = z.within
        /\ u.asked[s] = owed /\ \A t \in Signals \ {s} : u.asked[t] = z.asked[t]
    BY <2>5, <2>6, AskedChange
  <2> HIDE DEF u
  <2>8. \A t \in Signals \ {s} : SameAt(w, u, t)
    BY <2>3, <2>5, <2>7 DEF SameAt, SameConfig
  <2>9. Recorded(u, s) /\ Cached(u, s, {}, "none") /\ Sent(u, <<>>, s) /\ Passed(u, <<>>, s, {}, "none")
    <3>1. Recorded(w, s)
      BY <1>0, SettledIs
    <3>2. Recorded(u, s)
      BY <2>3, <2>5, <2>7, <3>1 DEF Recorded, SameConfig
    <3>3. Cached(u, s, {}, "none") /\ Sent(u, <<>>, s) /\ Passed(u, <<>>, s, {}, "none")
      BY <2>3, <2>5, <2>6, <2>7 DEF Cached, Sent, Passed, Owed, SameConfig
    <3> QED BY <3>2, <3>3
  <2>10. /\ \A i \in DOMAIN <<>> : Allowed(w, <<>>[i], {}, "none") /\ Away(w, <<>>[i])
         /\ OneMode(<<>>)
         /\ \A t \in Signals : Recorded(w, t) /\ Cached(w, t, {}, "none") /\ Sent(w, <<>>, t) /\ Passed(w, <<>>, t, {}, "none")
    BY <1>0, SettledIs
  <2>11. u.sig[s].rd = w.sig[s].rd /\ u.sig[s].mode = w.sig[s].mode
    BY <2>3, <2>5, <2>7 DEF SameConfig
  <2>12. Settled(u, <<>>, {}, {}, "none")
    BY <1>0, <2>8, <2>9, <2>10, <2>11, OneChanges
  <2> QED BY <2>4, <2>12, DoneFits
<1> QED BY <1>2, <1>3

LEMMA SetPinFits ==
  ASSUME NEW w, Ready(w), NEW s \in Signals, NEW i \in Bits(s), NEW b \in 0 .. 3
  PROVE  Fits(SetPin(w, s, i, b))
<1> DEFINE arg == [at |-> i, to |-> b]
           c == DoWith("SetBit", s, arg)
<1>1. i \in Nat /\ b \in Nat
  BY WidthFacts
<1>2. arg \in Arguments /\ arg.at = i /\ arg.to = b
  BY <1>1 DEF Arguments
<1> HIDE DEF arg
<1>3. c = [fc |-> "SetBit", on |-> s, arg |-> arg] /\ "SetBit" \in Members
  BY DEF DoWith, Members
<1>4. c \in AnyCall /\ c.fc = "SetBit" /\ c.on = s /\ c.arg = arg
  BY <1>2, <1>3 DEF AnyCall
<1> HIDE DEF c
<1>5. CallOK(c)
  BY <1>2, <1>4 DEF CallOK
<1>6. Do("UpdateRead", s) \in AnyCall /\ CallOK(Do("UpdateRead", s)) /\ Do("UpdateRead", s).fc = "UpdateRead"
  BY CallTypes DEF Plain, Is
<1>7. Fits(Then(w, <<Do("UpdateRead", s), c>>))
  BY <1>4, <1>5, <1>6, PairFits
<1> QED BY <1>7 DEF SetPin, c, arg

LEMMA AssignDataFits ==
  ASSUME NEW w, Ready(w), NEW s \in Signals, NEW t \in Signals, mWidth[t] = mWidth[s]
  PROVE  Fits(AssignData(w, s, t))
<1> DEFINE a == Do("UpdateRead", t)
           b == DoWith("Copy", s, t)
<1>1. /\ a \in AnyCall /\ CallOK(a) /\ Is(a, "UpdateRead", t)
      /\ b \in AnyCall /\ CallOK(b) /\ Is(b, "Copy", s)
  BY CallTypes DEF Plain
<1>2. a.fc = "UpdateRead" /\ b.fc = "Copy"
  BY <1>1 DEF Is
<1>3. AssignData(w, s, t) = Then(w, <<a, b>>)
  BY DEF AssignData
<1> HIDE DEF a, b
<1> QED BY <1>1, <1>2, <1>3, PairFits

LEMMA RefreshFits ==
  ASSUME NEW w, Ready(w), NEW s \in Signals, NEW m
  PROVE  Fits(ReadFresh(Waive(w, s), s, m))
<1> DEFINE y == Waive(w, s)
<1>0. WorldOK(w) /\ Settled(w, <<>>, {}, {}, "none") /\ <<>> \in Seq(AnyCall) /\ Typed(<<>>)
  BY ReadyUse
<1>1. WorldOK(y) /\ (y.asked[s] = None \/ OnPin(y, s)) /\ Settled(y, <<>>, {}, {}, "none")
  BY <1>0, WaiveDelivers
<1> HIDE DEF y
<1>2. ~Owed(y, s) \/ OnPin(y, s)
  BY <1>1 DEF Owed
<1>3. Fits(ReadFresh(y, s, m))
  BY <1>0, <1>1, <1>2, ReadFreshDelivers DEF Fits
<1> QED BY <1>3 DEF y

LEMMA DirectFits ==
  ASSUME NEW w, Ready(w), NEW s \in Signals
  PROVE  Fits(WriteDirect(w, s))
<1>0. WorldOK(w) /\ Settled(w, <<>>, {}, {}, "none") /\ <<>> \in Seq(AnyCall) /\ Typed(<<>>)
  BY ReadyUse
<1>1. Popped(w, <<>>, s, "none", {}, {}, "none")
  BY <1>0, SettledIs DEF Popped
<1>2. ASSUME NEW flushed \in BOOLEAN, flushed = FALSE
      PROVE  Delivers(WriteOut(w, s, flushed), <<>>, {}, {}, "none")
  <2>1. flushed = TRUE => (w.sig[s].same => w.sig[s].last = w.sig[s].local)
    BY <1>2
  <2> QED BY <1>0, <1>1, <2>1, WriteOutDelivers
<1>3. Delivers(WriteOut(w, s, FALSE), <<>>, {}, {}, "none")
  BY <1>2
<1> QED BY <1>3 DEF Fits, WriteDirect
-----------------------------------------------------------------------------
(* Configuration of one signal.                                            *)
LEMMA NothingPending ==
  /\ \A i \in DOMAIN <<>> : FALSE
  /\ Typed(<<>>) /\ OneMode(<<>>)
BY DEF Typed, OneMode

LEMMA ReInitEven ==
  ASSUME NEW w, Ready(w), NEW s \in Signals, NEW io \in Directions
  PROVE  Settled(ReInit(w, s, io), <<>>, {}, {}, "none")
<1> DEFINE u == ReInit(w, s, io)
<1>0. WorldOK(w) /\ Settled(w, <<>>, {}, {}, "none")
  BY ReadyUse
<1>1. /\ \A t \in Signals \ {s} : u.sig[t] = w.sig[t]
      /\ u.sig[s].last = None /\ u.sig[s].rd = w.sig[s].rd /\ u.sig[s].mode = w.sig[s].mode
      /\ u.pin = w.pin /\ u.foreign = w.foreign \ {s} /\ u.late = w.late /\ u.within = w.within
      /\ u.asked[s] = None /\ \A t \in Signals \ {s} : u.asked[t] = w.asked[t]
  BY <1>0, ReInitIs
<1> HIDE DEF u
<1>2. Recorded(u, s)
  BY <1>1 DEF Recorded
<1>3. \A t \in Signals \ {s} : SameAt(w, u, t)
  BY <1>1 DEF SameAt, SameConfig
<1>4. Settled(u, <<>>, {}, {}, "none")
  BY <1>0, <1>1, <1>2, <1>3, NothingPending, UnowedSettled
<1> QED BY <1>4 DEF u

(* While the filter is switched, what it last recorded may be out of date. *)
LEMMA IgnoreSameEven ==
  ASSUME NEW w, Ready(w), NEW s \in Signals, NEW b \in BOOLEAN
  PROVE  Settled(SetIgnoreSame(w, s, b), <<>>, {}, {}, "none")
<1> DEFINE x == [w.sig[s] EXCEPT !.same = b]
           f == IF ~b \/ w.sig[s].last = None THEN w.foreign ELSE w.foreign \cup {s}
           y == WithSig(w, s, x)
           u == WithForeign(y, f)
<1>1. WorldOK(w) /\ w.sig[s] \in SignalType(s) /\ w.sig[s].wr.from \notin {"const", "expr"}
  BY ReadyUse DEF WorldOK
<1>2. SetIgnoreSame(w, s, b) = u
  BY <1>1 DEF SetIgnoreSame, WithSig, WithForeign, WorldOK, SignalType
<1>3. /\ x \in SignalType(s) /\ x.wr.from \notin {"const", "expr"} /\ x.local = w.sig[s].local /\ x.same = b
      /\ x.io = w.sig[s].io /\ x.rd = w.sig[s].rd /\ x.wr = w.sig[s].wr /\ x.last = w.sig[s].last
      /\ x.mode = w.sig[s].mode /\ x.cbs = w.sig[s].cbs
  BY <1>1 DEF SignalType
<1>4. f \in SUBSET Signals /\ w.foreign \subseteq f /\ (b /\ x.last # None => s \in f)
  BY <1>1, <1>3 DEF WorldOK
<1> HIDE DEF x, f
<1>5. /\ WorldOK(y) /\ y.sig[s] = x /\ (\A t \in Signals \ {s} : y.sig[t] = w.sig[t])
      /\ y.pin = w.pin /\ y.asked = w.asked /\ y.late = w.late /\ y.within = w.within
  BY <1>1, <1>3, SignalChange
<1> HIDE DEF y
<1>6. u.sig = y.sig /\ u.pin = y.pin /\ u.asked = y.asked /\ u.late = y.late /\ u.within = y.within /\ u.foreign = f
  BY <1>4, <1>5, ForeignChange
<1> HIDE DEF u
<1>7. \A t \in Signals \ {s} : SameAt(w, u, t)
  BY <1>4, <1>5, <1>6 DEF SameAt, SameConfig
<1>8. \A t \in Signals : Recorded(w, t) /\ Cached(w, t, {}, "none") /\ Sent(w, <<>>, t) /\ Passed(w, <<>>, t, {}, "none")
  BY ReadyUse
<1>9. Recorded(u, s)
  BY <1>3, <1>4, <1>5, <1>6 DEF Recorded
<1>10. Owed(u, s) => Owed(w, s) /\ (OnPin(u, s) <=> OnPin(w, s))
  BY <1>3, <1>5, <1>6 DEF Owed, OnPin
<1>11. Cached(u, s, {}, "none") /\ Passed(u, <<>>, s, {}, "none")
  BY <1>3, <1>5, <1>6, <1>8, <1>10 DEF Cached, Passed, Lost
<1>12. Sent(u, <<>>, s)
  BY <1>3, <1>4, <1>5, <1>6, <1>8, <1>10, NothingPending DEF Sent
<1>13. Settled(u, <<>>, {}, {}, "none")
  BY <1>3, <1>5, <1>6, <1>7, <1>8, <1>9, <1>11, <1>12, NothingPending, OneChanges
<1> QED BY <1>2, <1>13

LEMMA ClearEven ==
  ASSUME NEW w, Ready(w), NEW s \in Signals
  PROVE  Settled(ClearOnChangeCbs(w, s), <<>>, {}, {}, "none")
<1> DEFINE x == [w.sig[s] EXCEPT !.cbs = <<>>]
           u == WithSig(w, s, x)
<1>1. WorldOK(w) /\ w.sig[s] \in SignalType(s) /\ w.sig[s].wr.from \notin {"const", "expr"}
  BY ReadyUse DEF WorldOK
<1>2. ClearOnChangeCbs(w, s) = u
  BY <1>1 DEF ClearOnChangeCbs, WithSig, WorldOK, SignalType
<1>3. /\ x \in SignalType(s) /\ x.wr.from \notin {"const", "expr"} /\ x.local = w.sig[s].local
      /\ SameConfig(x, w.sig[s])
  <2>1. <<>> \in Seq(Listeners(s))
    OBVIOUS
  <2>2. x \in SignalType(s)
    BY <1>1, <2>1 DEF SignalType
  <2>3. x.local = w.sig[s].local /\ SameConfig(x, w.sig[s])
    BY <1>1 DEF SignalType, SameConfig
  <2> HIDE DEF x
  <2> QED BY <1>1, <2>2, <2>3 DEF SameConfig
<1> HIDE DEF x
<1>4. /\ u.sig[s] = x /\ (\A t \in Signals \ {s} : u.sig[t] = w.sig[t])
      /\ u.pin = w.pin /\ u.asked = w.asked /\ u.foreign = w.foreign /\ u.late = w.late /\ u.within = w.within
  BY <1>1, <1>3, SignalChange
<1> HIDE DEF u
<1>5. \A t \in Signals \ {s} : SameAt(w, u, t)
  BY <1>4 DEF SameAt, SameConfig
<1>6. \A t \in Signals : Recorded(w, t) /\ Cached(w, t, {}, "none") /\ Sent(w, <<>>, t) /\ Passed(w, <<>>, t, {}, "none")
  BY ReadyUse
<1>7. Owed(u, s) => Owed(w, s) /\ (OnPin(u, s) <=> OnPin(w, s))
  BY <1>3, <1>4 DEF Owed, OnPin, SameConfig
<1>8. Recorded(u, s)
  BY <1>3, <1>4, <1>6 DEF Recorded, SameConfig
<1>9. Cached(u, s, {}, "none") /\ Passed(u, <<>>, s, {}, "none")
  BY <1>3, <1>4, <1>6, <1>7 DEF Cached, Passed, Lost
<1>10. Sent(u, <<>>, s)
  BY <1>3, <1>4, <1>6, <1>7 DEF Sent, SameConfig
<1>11. u.sig[s].rd = w.sig[s].rd /\ u.sig[s].mode = w.sig[s].mode
  BY <1>3, <1>4 DEF SameConfig
<1>12. Settled(u, <<>>, {}, {}, "none")
  BY <1>5, <1>6, <1>8, <1>9, <1>10, <1>11, NothingPending, OneChanges
<1> QED BY <1>2, <1>12

(* A signal that is bound anew owes nothing, and what it recorded is of no *)
(* use.                                                                    *)
LEMMA BoundEven ==
  ASSUME NEW w, Ready(w), NEW z, WorldOK(z), NEW s \in Signals, z.sig = w.sig, z.pin = w.pin,
         z.late = w.late /\ z.within = w.within, w.foreign \subseteq z.foreign, z.asked[s] = None,
         \A t \in Signals \ {s} : z.asked[t] = w.asked[t],
         NEW x \in SignalType(s), x.wr.from \notin {"const", "expr"},
         x.wr.from # "pin" \/ x.last = None \/ s \in z.foreign \/ (x.wr = w.sig[s].wr /\ x.same = w.sig[s].same /\ x.last = w.sig[s].last)
  PROVE  Settled(WithSig(z, s, x), <<>>, {}, {}, "none")
<1> DEFINE u == WithSig(z, s, x)
<1>1. /\ u.sig[s] = x /\ (\A t \in Signals \ {s} : u.sig[t] = z.sig[t])
      /\ u.pin = z.pin /\ u.asked = z.asked /\ u.foreign = z.foreign /\ u.late = z.late /\ u.within = z.within
  BY SignalChange
<1> HIDE DEF u
<1>2. Recorded(w, s) /\ Settled(w, <<>>, {}, {}, "none")
  BY ReadyUse
<1>3. Recorded(u, s)
  BY <1>1, <1>2 DEF Recorded
<1>4. \A t \in Signals \ {s} : SameAt(w, u, t)
  BY <1>1 DEF SameAt, SameConfig
<1>5. Settled(u, <<>>, {}, {}, "none")
  BY <1>1, <1>2, <1>3, <1>4, NothingPending, UnowedSettled
<1> QED BY <1>5 DEF u

LEMMA ReboundReady ==
  ASSUME NEW w, Ready(w), NEW s \in Signals, NEW x \in SignalType(s),
         x.wr.from \notin {"const", "expr"}, x.local = w.sig[s].local, x.shadow = w.sig[s].shadow,
         x.busy = w.sig[s].busy, x.cbs = w.sig[s].cbs, x.last = w.sig[s].last
  PROVE  LET y == Rebound(w, s) IN Ready(WithSig(y, s, x)) /\ y.sig = w.sig
<1> DEFINE z == Settle(w, s)
           f == IF w.sig[s].last = None THEN w.foreign ELSE w.foreign \cup {s}
           y == WithForeign(z, f)
<1>0. AtRest(w) /\ WorldOK(w)
  BY ReadyUse
<1>1. /\ WorldOK(z) /\ z.sig = w.sig /\ z.pin = w.pin /\ z.foreign = w.foreign /\ z.late = w.late /\ z.within = w.within
      /\ z.asked[s] = None /\ \A t \in Signals \ {s} : z.asked[t] = w.asked[t]
  BY <1>0, SettleIs
<1>2. Rebound(w, s) = y
  BY <1>1 DEF Rebound, WithForeign
<1> HIDE DEF z
<1>3. f \in SUBSET Signals /\ w.foreign \subseteq f /\ (x.last # None => s \in f)
  BY <1>0 DEF WorldOK
<1> HIDE DEF f
<1>4. WorldOK(y) /\ y.sig = z.sig /\ y.pin = z.pin /\ y.late = z.late /\ y.within = z.within /\ y.asked = z.asked /\ y.foreign = f
  BY <1>1, <1>3, ForeignChange
<1> HIDE DEF y
<1>5. Settled(WithSig(y, s, x), <<>>, {}, {}, "none")
  BY <1>1, <1>3, <1>4, BoundEven
<1>6. AtRest(WithSig(y, s, x)) /\ y.sig = w.sig
  BY <1>0, <1>1, <1>2, <1>4, FieldRest
<1> QED BY <1>2, <1>5, <1>6 DEF Ready, Even

LEMMA BindPinFits ==
  ASSUME NEW w, Ready(w), NEW s \in Signals, NEW p \in Pins, PinWidth[p] = Width(s)
  PROVE  Fits(BindPin(w, s, p))
<1> DEFINE b == [from |-> "pin", pin |-> p]
           x == [w.sig[s] EXCEPT !.rd = b, !.wr = b, !.readonly = FALSE]
           y == Rebound(w, s)
           u == WithSig(y, s, x)
<1>1. WorldOK(w) /\ w.sig[s] \in SignalType(s)
  BY ReadyUse DEF WorldOK
<1>2. b \in Readers(s) /\ b.from = "pin"
  BY DEF Readers
<1>3. /\ x \in SignalType(s) /\ x.wr.from \notin {"const", "expr"} /\ x.local = w.sig[s].local
      /\ x.shadow = w.sig[s].shadow /\ x.busy = w.sig[s].busy /\ x.cbs = w.sig[s].cbs /\ x.last = w.sig[s].last
  BY <1>1, <1>2 DEF SignalType
<1>4. Ready(u) /\ y.sig = w.sig
  <2> HIDE DEF x
  <2> QED BY <1>3, ReboundReady
<1> HIDE DEF y
<1>5. BindPin(w, s, p) = Then(u, <<Do("UpdateRead", s)>>)
  BY <1>4 DEF BindPin, WithSig, y
<1> HIDE DEF u
<1> QED BY <1>4, <1>5, ReadBackFits

LEMMA BindMixEven ==
  ASSUME NEW w, Ready(w), NEW s \in Signals, NEW p \in Pins, PinWidth[p] = Width(s)
  PROVE  Settled(BindMixFromUvs(w, s, p), <<>>, {}, {}, "none")
<1> DEFINE b == [from |-> "pin", pin |-> p]
           x == [w.sig[s] EXCEPT !.rd = b]
           y == Settle(w, s)
<1>1. WorldOK(w) /\ w.sig[s] \in SignalType(s) /\ w.sig[s].wr.from \notin {"const", "expr"}
  BY ReadyUse DEF WorldOK
<1>2. /\ WorldOK(y) /\ y.sig = w.sig /\ y.pin = w.pin /\ y.foreign = w.foreign /\ y.late = w.late /\ y.within = w.within
      /\ y.asked[s] = None /\ \A t \in Signals \ {s} : y.asked[t] = w.asked[t]
  BY <1>1, SettleIs
<1>3. BindMixFromUvs(w, s, p) = WithSig(y, s, x)
  BY <1>1 DEF BindMixFromUvs, Settle, WithSig, WorldOK, SignalType
<1>4. b \in Readers(s)
  BY DEF Readers
<1> HIDE DEF b
<1>5. /\ x \in SignalType(s) /\ x.wr.from \notin {"const", "expr"} /\ x.wr = w.sig[s].wr
      /\ x.same = w.sig[s].same /\ x.last = w.sig[s].last
  BY <1>1, <1>4 DEF SignalType
<1> HIDE DEF x, y
<1> QED BY <1>2, <1>3, <1>5, BoundEven

LEMMA BindReadonlyFits ==
  ASSUME NEW w, Ready(w), NEW s \in Signals, NEW source \in Readers(s)
  PROVE  Fits(BindReadonly(w, s, source))
<1> DEFINE x == [w.sig[s] EXCEPT !.rd = source, !.wr = Unbound, !.readonly = TRUE, !.io = "Output"]
           y == Rebound(w, s)
           u == WithSig(y, s, x)
<1>1. WorldOK(w) /\ w.sig[s] \in SignalType(s)
  BY ReadyUse DEF WorldOK
<1>2. Unbound \in Readers(s) /\ Unbound.from = "none" /\ "Output" \in Directions
  BY DEF Readers, Unbound, Directions
<1>3. /\ x \in SignalType(s) /\ x.wr.from \notin {"const", "expr"} /\ x.local = w.sig[s].local
      /\ x.shadow = w.sig[s].shadow /\ x.busy = w.sig[s].busy /\ x.cbs = w.sig[s].cbs /\ x.last = w.sig[s].last
  <2>1. x \in SignalType(s) /\ x.wr = Unbound
    BY <1>1, <1>2 DEF SignalType
  <2>2. /\ x.local = w.sig[s].local /\ x.shadow = w.sig[s].shadow /\ x.busy = w.sig[s].busy
        /\ x.cbs = w.sig[s].cbs /\ x.last = w.sig[s].last
    BY <1>1 DEF SignalType
  <2> HIDE DEF x
  <2> QED BY <1>2, <2>1, <2>2
<1>4. Ready(u) /\ y.sig = w.sig
  <2> HIDE DEF x
  <2> QED BY <1>3, ReboundReady
<1> HIDE DEF y
<1>5. BindReadonly(w, s, source) = Then(u, <<Do("UpdateRead", s)>>)
  BY <1>4 DEF BindReadonly, WithSig, y
<1> HIDE DEF u
<1> QED BY <1>4, <1>5, ReadBackFits

LEMMA SubDataRefFits ==
  ASSUME NEW w, Ready(w), NEW s \in Signals, NEW p \in Signals, NEW at \in 0 .. (mWidth[p] - Width(s))
  PROVE  Fits(SubDataRef(w, s, p, at))
<1> DEFINE b  == [from |-> "view", of |-> p, at |-> at]
           io == w.sig[p].io
           y  == Settle(w, s)
           view == [Fresh(s, io) EXCEPT !.rd = b]
           x  == IF io = "Output" THEN view ELSE [view EXCEPT !.wr = b, !.mode = "Imme"]
           u  == WithSig(y, s, x)
<1>1. AtRest(w) /\ WorldOK(w) /\ io \in Directions
  BY ReadyUse DEF WorldOK, SignalType
<1>2. SubDataRef(w, s, p, at) = Then(u, <<Do("UpdateRead", s)>>)
  BY DEF SubDataRef, WithSig
<1>3. at \in Nat /\ at + Width(s) <= Width(p)
  BY WidthFacts, SignalAssumption DEF Width
<1>4. b \in Readers(s) /\ b.from = "view" /\ Unbound \in Readers(s) /\ Unbound.from = "none"
  BY <1>3 DEF Readers, Unbound
<1>5. Zero(s) \in Vectors(s) /\ <<>> \in Seq(Listeners(s)) /\ {"Imme", "Rise"} \subseteq Modes
  BY ZeroIs DEF Modes
<1>6. x \in SignalType(s) /\ x.wr.from \in {"none", "view"} /\ ~x.busy /\ x.cbs = <<>>
  <2> HIDE DEF io, b
  <2>1. Fresh(s, io) \in SignalType(s) /\ Fresh(s, io).wr = Unbound /\ Fresh(s, io).busy = FALSE /\ Fresh(s, io).cbs = <<>>
    BY <1>1, <1>4, <1>5 DEF SignalType, Fresh
  <2>2. view \in SignalType(s) /\ view.wr = Unbound /\ view.busy = FALSE /\ view.cbs = <<>>
    BY <1>4, <2>1 DEF SignalType
  <2> HIDE DEF view
  <2>3. CASE io = "Output"
    BY <1>4, <2>2, <2>3
  <2>4. CASE io # "Output"
    <3> DEFINE z == [view EXCEPT !.wr = b, !.mode = "Imme"]
    <3>1. z \in SignalType(s) /\ z.wr = b /\ z.busy = FALSE /\ z.cbs = <<>>
      BY <1>4, <1>5, <2>2 DEF SignalType
    <3> HIDE DEF z
    <3> QED BY <1>4, <2>4, <3>1 DEF z
  <2> QED BY <2>3, <2>4
<1>7. /\ WorldOK(y) /\ y.sig = w.sig /\ y.pin = w.pin /\ y.told = w.told /\ y.foreign = w.foreign /\ y.late = w.late /\ y.within = w.within
      /\ y.asked[s] = None /\ \A t \in Signals \ {s} : y.asked[t] = w.asked[t]
  BY <1>1, SettleIs
<1> HIDE DEF x, y
<1>8. WorldOK(u) /\ u.sig[s] = x /\ (\A t \in Signals \ {s} : u.sig[t] = y.sig[t]) /\ u.told = y.told
  BY <1>6, <1>7, SignalChange
<1>9. Settled(u, <<>>, {}, {}, "none")
  BY <1>6, <1>7, BoundEven
<1> HIDE DEF u
<1>10. AtRest(u)
  BY <1>1, <1>6, <1>7, <1>8, ResetRest
<1>11. Ready(u)
  BY <1>9, <1>10 DEF Ready, Even
<1> QED BY <1>2, <1>11, ReadBackFits

LEMMA OtherFits ==
  ASSUME NEW w, Ready(w), NEW s \in Signals
  PROVE  /\ Fits(UpdateRead(w, s)) /\ Fits(OnChange(w, s, "user"))
         /\ \A t \in Signals : mWidth[t] = mWidth[s] => Fits(Connect(w, s, t))
         /\ \A v \in Vectors(s) : Fits(BindConst(w, s, v))
         /\ \A t \in Signals : Width(t) = Width(s) => Fits(BindExpr(w, s, t))
<1>0. WorldOK(w) /\ Settled(w, <<>>, {}, {}, "none") /\ <<>> \in Seq(AnyCall) /\ Typed(<<>>)
  BY ReadyUse
<1>1. Fits(UpdateRead(w, s))
  BY <1>0, UpdateReadDelivers DEF Fits
<1>2. Fits(OnChange(w, s, "user"))
  <2>1. "user" \in Listeners(s)
    BY DEF Listeners
  <2> QED BY <1>0, <2>1, OnChangeDelivers DEF Fits
<1>3. ASSUME NEW t \in Signals, mWidth[t] = mWidth[s]
      PROVE  Fits(Connect(w, s, t))
  BY <1>0, <1>3, ConnectDelivers DEF Fits
<1>4. ASSUME NEW v \in Vectors(s)
      PROVE  Fits(BindConst(w, s, v))
  <2>1. [from |-> "const", value |-> v] \in Readers(s)
    BY DEF Readers
  <2> QED BY <2>1, BindReadonlyFits DEF BindConst
<1>5. ASSUME NEW t \in Signals, Width(t) = Width(s)
      PROVE  Fits(BindExpr(w, s, t))
  <2>1. [from |-> "expr", of |-> t] \in Readers(s)
    BY <1>5 DEF Readers
  <2> QED BY <2>1, BindReadonlyFits DEF BindExpr
<1> QED BY <1>1, <1>2, <1>3, <1>4, <1>5

LEMMA DoneFields ==
  ASSUME NEW w, Ready(w), NEW s \in Signals
  PROVE  /\ \A m \in Modes : Fits(Done(SetWriteMode(w, s, m)))
         /\ \A io \in Directions : Fits(Done(SetIO(w, s, io))) /\ Fits(Done(ReInit(w, s, io)))
         /\ Fits(Done(FlipIOType(w, s))) /\ Fits(Done(ClearOnChangeCbs(w, s)))
         /\ \A b \in BOOLEAN : Fits(Done(SetIgnoreSame(w, s, b)))
         /\ \A p \in Pins : PinWidth[p] = Width(s) => Fits(Done(BindMixFromUvs(w, s, p)))
<1>0. WorldOK(w) /\ Settled(w, <<>>, {}, {}, "none") /\ Typed(<<>>) /\ \A i \in DOMAIN <<>> : FALSE
  BY ReadyUse
<1>1. \A m \in Modes : Settled(SetWriteMode(w, s, m), <<>>, {}, {}, "none")
  BY <1>0, SetWriteModeDelivers
<1>2. \A io \in Directions : Settled(SetIO(w, s, io), <<>>, {}, {}, "none")
  BY <1>0, SetIODelivers
<1>3. \A io \in Directions : Settled(ReInit(w, s, io), <<>>, {}, {}, "none")
  BY ReInitEven
<1>4. Settled(FlipIOType(w, s), <<>>, {}, {}, "none")
  BY <1>0, FlipDelivers
<1>5. Settled(ClearOnChangeCbs(w, s), <<>>, {}, {}, "none")
  BY ClearEven
<1>6. \A b \in BOOLEAN : Settled(SetIgnoreSame(w, s, b), <<>>, {}, {}, "none")
  BY IgnoreSameEven
<1>7. \A p \in Pins : PinWidth[p] = Width(s) => Settled(BindMixFromUvs(w, s, p), <<>>, {}, {}, "none")
  BY BindMixEven
<1> QED BY <1>1, <1>2, <1>3, <1>4, <1>5, <1>6, <1>7, DoneFits
-----------------------------------------------------------------------------
(* The calls of the user, each with what makes it sound.                   *)
LEMMA UserEven ==
  ASSUME NEW m, Sound(m, <<>>), Fits(m), Call(m) \/ Setup(m)
  PROVE  Even(World') /\ edge' = "none"
BY ReturnEven DEF Call, Setup, Fits

LEMMA AssignEven ==
  ASSUME Safe, Even(World), PortAssumption, Assign
  PROVE  Even(World') /\ edge' = "none"
<1> DEFINE w == World
<1>0. Ready(w) /\ AtRest(w) /\ Writeable \subseteq Signals /\ Ints \subseteq Nat
  BY DEF Safe, Writeable, PortAssumption, Ready
<1> HIDE DEF w
<1>1. PICK s \in Signals :
         \/ \E n \in Nat : (mWidth[s] = 0 => n < 4) /\ (Call(AssignInt(w, s, n)) \/ Call(ImmSet(w, s, n)))
         \/ \E t \in Signals : mWidth[t] = mWidth[s] /\ Call(AssignData(w, s, t))
         \/ \E v \in Fitting(s) : Call(StoreValue(w, s, v))
         \/ \E b \in {2, 3} : Call(FillText(w, s, b))
         \/ \E v \in Fitting(s), i \in Bits(s) : Call(SetBits(w, s, v, {i}))
         \/ Call(Invert(w, s))
  BY <1>0 DEF Assign, AssignText, w
<1>2. ASSUME NEW n \in Nat, mWidth[s] = 0 => n < 4, Call(AssignInt(w, s, n)) \/ Call(ImmSet(w, s, n))
      PROVE  Even(World') /\ edge' = "none"
  <2>1. Fits(AssignInt(w, s, n))
    BY <1>0, <1>2, NumberIs, StoreFits DEF AssignInt
  <2> QED BY <1>0, <1>2, <2>1, ImmSetFits, AssignIntSound, ImmSetSound, UserEven
<1>3. ASSUME NEW t \in Signals, mWidth[t] = mWidth[s], Call(AssignData(w, s, t))
      PROVE  Even(World') /\ edge' = "none"
  BY <1>0, <1>3, AssignDataFits, AssignDataSound, UserEven
<1>4. ASSUME NEW v \in Fitting(s), Call(StoreValue(w, s, v))
      PROVE  Even(World') /\ edge' = "none"
  BY <1>0, <1>4, FittingIs, StoreFits, StoreSound, UserEven
<1>5. ASSUME NEW b \in {2, 3}, Call(FillText(w, s, b))
      PROVE  Even(World') /\ edge' = "none"
  <2>1. b \in 0 .. 3
    OBVIOUS
  <2> QED BY <1>0, <1>5, <2>1, FillFits, FillSound, UserEven
<1>6. ASSUME NEW v \in Fitting(s), NEW mask, Call(SetBits(w, s, v, mask))
      PROVE  Even(World') /\ edge' = "none"
  <2>1. Sound(SetBits(w, s, v, mask), <<>>) /\ Fits(SetBits(w, s, v, mask))
    BY <1>0, FittingIs, SetBitsSound, SetBitsStores, StoreFits
  <2> QED BY <1>6, <2>1, UserEven
<1>7. ASSUME Call(Invert(w, s))
      PROVE  Even(World') /\ edge' = "none"
  <2>1. Sound(Invert(w, s), <<>>) /\ Fits(Invert(w, s))
    BY <1>0, InvertSound, InvertStores, StoreFits
  <2> QED BY <1>7, <2>1, UserEven
<1> QED BY <1>1, <1>2, <1>3, <1>4, <1>5, <1>6, <1>7

LEMMA PinEven ==
  ASSUME Safe, Even(World), PortAssumption, PinSet \/ Read \/ Refresh \/ Direct
  PROVE  Even(World') /\ edge' = "none"
<1> DEFINE w == World
<1>0. Ready(w) /\ AtRest(w) /\ Levels \subseteq 0 .. 3
  BY DEF Safe, PortAssumption, Ready
<1> HIDE DEF w
<1>1. CASE PinSet
  <2>1. PICK s \in Signals : \E i \in Bits(s), b \in Levels : Call(SetPin(w, s, i, b))
    BY <1>1 DEF PinSet, w
  <2>2. PICK i \in Bits(s), b \in Levels : Call(SetPin(w, s, i, b))
    BY <2>1
  <2>3. b \in 0 .. 3
    BY <1>0
  <2>4. Sound(SetPin(w, s, i, b), <<>>) /\ Fits(SetPin(w, s, i, b))
    BY <1>0, <2>3, SetPinSound, SetPinFits
  <2> QED BY <2>2, <2>4, UserEven
<1>2. CASE Read
  BY <1>0, <1>2, OtherFits, UpdateReadSound, UserEven DEF Read, w
<1>3. CASE Refresh
  BY <1>0, <1>3, RefreshFits, RefreshSound, UserEven DEF Refresh, w
<1>4. CASE Direct
  BY <1>0, <1>4, DirectFits, DirectSound, UserEven DEF Direct, w
<1> QED BY <1>1, <1>2, <1>3, <1>4

LEMMA ConfigureEven ==
  ASSUME Safe, Even(World), PortAssumption, Configure
  PROVE  Even(World') /\ edge' = "none"
<1> DEFINE w == World
<1>0. Ready(w) /\ AtRest(w) /\ w.sig = sig
  BY DEF Safe, World, Ready
<1> HIDE DEF w
<1>1. PICK s \in Signals :
    \/ \E m \in Modes : Setup(Done(SetWriteMode(w, s, m)))
    \/ \E io \in Directions : Setup(Done(SetIO(w, s, io))) \/ Setup(Done(ReInit(w, s, io)))
    \/ Setup(Done(FlipIOType(w, s)))
    \/ \E b \in BOOLEAN : Setup(Done(SetIgnoreSame(w, s, b)))
    \/ \E p \in Pins : PinWidth[p] = Width(s) /\ (Setup(BindPin(w, s, p)) \/ Setup(Done(BindMixFromUvs(w, s, p))))
    \/ \E t \in Signals : Bits(s) = Bits(t) /\ Setup(BindExpr(w, s, t))
    \/ Setup(BindConst(w, s, Vec(Number(s, 1))))
    \/ \E p \in Signals : \E at \in 0 .. (mWidth[p] - Width(s)) : Setup(SubDataRef(w, s, p, at))
    \/ Setup(OnChange(w, s, "user"))
    \/ Setup(Done(ClearOnChangeCbs(w, s)))
    \/ \E t \in Signals : mWidth[t] = mWidth[s] /\ Setup(Connect(w, s, t))
  <2>1. \A s \in Signals : (~sig[s].same) \in BOOLEAN
    OBVIOUS
  <2>2. \A s, t : Linkable(w, s, t) => mWidth[t] = mWidth[s]
    BY DEF Linkable
  <2> QED BY <2>1, <2>2, Zenon DEF Configure, Modes, Directions, w
<1>2. ASSUME NEW u, AtRest(u), Fits(Done(u)), Setup(Done(u))
      PROVE  Even(World') /\ edge' = "none"
  BY <1>2, DoneRest, UserEven
<1>3. ASSUME NEW m \in Modes, Setup(Done(SetWriteMode(w, s, m)))
      PROVE  Even(World') /\ edge' = "none"
  BY <1>0, <1>2, <1>3, SetWriteModeRest, DoneFields
<1>4. ASSUME NEW io \in Directions, Setup(Done(SetIO(w, s, io))) \/ Setup(Done(ReInit(w, s, io)))
      PROVE  Even(World') /\ edge' = "none"
  BY <1>0, <1>2, <1>4, SetIORest, ReInitRest, DoneFields
<1>5. ASSUME Setup(Done(FlipIOType(w, s))) \/ Setup(Done(ClearOnChangeCbs(w, s)))
      PROVE  Even(World') /\ edge' = "none"
  BY <1>0, <1>2, <1>5, FlipRest, ClearRest, DoneFields
<1>6. ASSUME NEW b \in BOOLEAN, Setup(Done(SetIgnoreSame(w, s, b)))
      PROVE  Even(World') /\ edge' = "none"
  BY <1>0, <1>2, <1>6, IgnoreSameRest, DoneFields
<1>7. ASSUME NEW p \in Pins, PinWidth[p] = Width(s), Setup(BindPin(w, s, p)) \/ Setup(Done(BindMixFromUvs(w, s, p)))
      PROVE  Even(World') /\ edge' = "none"
  <2>1. CASE Setup(BindPin(w, s, p))
    BY <1>0, <1>7, <2>1, BindPinSound, BindPinFits, UserEven
  <2>2. CASE Setup(Done(BindMixFromUvs(w, s, p)))
    BY <1>0, <1>2, <1>7, <2>2, BindMixRest, DoneFields
  <2> QED BY <1>7, <2>1, <2>2
<1>8. ASSUME NEW t \in Signals, Bits(s) = Bits(t), Setup(BindExpr(w, s, t))
      PROVE  Even(World') /\ edge' = "none"
  BY <1>0, <1>8, SameWidth, BindExprSound, OtherFits, UserEven
<1>9. ASSUME Setup(BindConst(w, s, Vec(Number(s, 1))))
      PROVE  Even(World') /\ edge' = "none"
  <2>1. Number(s, 1) \in Vectors(s)
    BY NumberIs
  <2>2. Vec(Number(s, 1)) \in Vectors(s)
    BY <2>1, VectorIs
  <2> QED BY <1>0, <1>9, <2>2, BindConstSound, OtherFits, UserEven
<1>10. ASSUME NEW p \in Signals, NEW at \in 0 .. (mWidth[p] - Width(s)), Setup(SubDataRef(w, s, p, at))
      PROVE  Even(World') /\ edge' = "none"
  BY <1>0, <1>10, SubDataRefSound, SubDataRefFits, UserEven
<1>11. ASSUME Setup(OnChange(w, s, "user"))
      PROVE  Even(World') /\ edge' = "none"
  BY <1>0, <1>11, OnChangeSound, OtherFits, UserEven
<1>12. ASSUME NEW t \in Signals, mWidth[t] = mWidth[s], Setup(Connect(w, s, t))
      PROVE  Even(World') /\ edge' = "none"
  BY <1>0, <1>12, ConnectSound, OtherFits, UserEven
<1> QED BY <1>1, <1>3, <1>4, <1>5, <1>6, <1>7, <1>8, <1>9, <1>10, <1>11, <1>12

LEMMA BatchEven ==
  ASSUME Safe, Even(World), NEW new \in Seq(Visits), Setup(Then(World, new)),
         \A i \in DOMAIN new : new[i].fc \notin {"SetMode", "Observe", "Flush"}
  PROVE  Even(World') /\ edge' = "none"
<1> DEFINE w == World
<1>0. Ready(w) /\ AtRest(w) /\ Setup(Then(w, new))
  BY DEF Safe, Ready
<1> HIDE DEF w
<1>1. Sound(Then(w, new), <<>>) /\ Fits(Then(w, new))
  BY <1>0, VisitsSound, StartDelivers DEF Fits
<1> QED BY <1>0, <1>1, UserEven

LEMMA PortCallEven ==
  ASSUME Safe, Even(World), PortAssumption, PortCall
  PROVE  Even(World') /\ edge' = "none"
<1>1. PICK p \in Ports :
         \/ \E fc \in {"FlipIOType", "AsBiIO", "SetZero"} : Setup(Then(World, Vec(Each(fc, port[p].vec))))
         \/ \E m \in Modes : Setup(Then(World, Vec(EachWith("AsWrite", port[p].vec, m))))
  BY DEF PortCall, Modes
<1>2. port[p].vec \in Seq(Signals)
  BY DEF Safe, PortType
<1>3. ASSUME NEW fc \in {"FlipIOType", "AsBiIO", "SetZero"}, Setup(Then(World, Vec(Each(fc, port[p].vec))))
      PROVE  Even(World') /\ edge' = "none"
  <2> DEFINE new == Each(fc, port[p].vec)
  <2>1. new \in Seq(Visits) /\ Vec(new) = new
    BY <1>2, EachVisits
  <2>2. \A i \in DOMAIN new : new[i].fc = fc
    BY DEF Each, Do
  <2>3. Setup(Then(World, new))
    BY <1>3, <2>1
  <2> HIDE DEF new
  <2> QED BY <2>1, <2>2, <2>3, BatchEven
<1>4. ASSUME NEW m \in Modes, Setup(Then(World, Vec(EachWith("AsWrite", port[p].vec, m))))
      PROVE  Even(World') /\ edge' = "none"
  <2> DEFINE new == EachWith("AsWrite", port[p].vec, m)
  <2>1. new \in Seq(Visits) /\ Vec(new) = new
    BY <1>2, EachVisits
  <2>2. \A i \in DOMAIN new : new[i].fc = "AsWrite"
    BY DEF EachWith, DoWith
  <2>3. Setup(Then(World, new))
    BY <1>4, <2>1
  <2> HIDE DEF new
  <2> QED BY <2>1, <2>2, <2>3, BatchEven
<1> QED BY <1>1, <1>3, <1>4

LEMMA PortConnectEven ==
  ASSUME Safe, Even(World), PortAssumption, PortConnect
  PROVE  Even(World') /\ edge' = "none"
<1>1. PICK p \in Ports, q \in Ports :
         LET pairs == Among(NameOrder, {n \in port[p].list : Has(q, Peer[n])})
         IN  /\ \A i \in DOMAIN pairs : Linkable(World, Wire[pairs[i]], Wire[Peer[pairs[i]]])
             /\ Setup(Then(World, [i \in DOMAIN pairs |-> DoWith("Connect", Wire[pairs[i]], Wire[Peer[pairs[i]]])]))
  BY Zenon DEF PortConnect
<1> DEFINE pairs == Among(NameOrder, {n \in port[p].list : Has(q, Peer[n])})
           f == [i \in DOMAIN pairs |-> DoWith("Connect", Wire[pairs[i]], Wire[Peer[pairs[i]]])]
<1>2. pairs \in Seq({n \in port[p].list : Has(q, Peer[n])} \cap Names)
  BY AmongType DEF PortAssumption
<1>3. (\A i \in DOMAIN pairs : Linkable(World, Wire[pairs[i]], Wire[Peer[pairs[i]]])) /\ Setup(Then(World, f))
  BY <1>1
<1> HIDE DEF pairs
<1>4. ASSUME NEW i \in DOMAIN pairs
      PROVE  f[i] \in Visits /\ f[i].fc = "Connect"
  <2> DEFINE s == Wire[pairs[i]]
             t == Wire[Peer[pairs[i]]]
             c == DoWith("Connect", s, t)
  <2>1. pairs[i] \in Names
    BY <1>2
  <2>2. s \in Signals /\ t \in Signals
    BY <2>1 DEF PortAssumption
  <2>3. mWidth[t] = mWidth[s]
    BY <1>3 DEF Linkable
  <2> HIDE DEF s, t
  <2>4. c \in AnyCall /\ CallOK(c) /\ Is(c, "Connect", s)
    BY <2>2, <2>3, CallTypes
  <2>5. c \in Visits /\ c.fc = "Connect"
    BY <2>4 DEF Visits, Is
  <2> QED BY <2>5 DEF s, t
<1>5. f = [i \in DOMAIN pairs |-> f[i]] /\ DOMAIN f = DOMAIN pairs
  OBVIOUS
<1> HIDE DEF f
<1>6. f \in Seq(Visits)
  BY <1>2, <1>4, <1>5, MapType
<1>7. \A i \in DOMAIN f : f[i].fc \notin {"SetMode", "Observe", "Flush"}
  BY <1>4, <1>5
<1> QED BY <1>3, <1>6, <1>7, BatchEven
-----------------------------------------------------------------------------
(* The pass of an edge calls every signal of every attached port.          *)
Lists(q, c) == \E k \in DOMAIN q : q[k] = c

LEMMA JoinHas ==
  ASSUME NEW C, NEW a \in Seq(C), NEW b \in Seq(C), NEW c, Lists(a, c) \/ Lists(b, c)
  PROVE  Lists(a \o b, c)
<1> DEFINE q == a \o b
<1>1. /\ q \in Seq(C) /\ Len(q) = Len(a) + Len(b)
      /\ \A k \in 1 .. Len(a) + Len(b) : q[k] = IF k <= Len(a) THEN a[k] ELSE b[k - Len(a)]
  BY ConcatProperties
<1> HIDE DEF q
<1>2. Len(a) \in Nat /\ Len(b) \in Nat /\ DOMAIN q = 1 .. Len(q) /\ DOMAIN a = 1 .. Len(a) /\ DOMAIN b = 1 .. Len(b)
  BY <1>1, LenProperties
<1>3. \A k \in DOMAIN a : k \in DOMAIN q /\ q[k] = a[k]
  BY <1>1, <1>2
<1>4. \A k \in DOMAIN b : k + Len(a) \in DOMAIN q /\ q[k + Len(a)] = b[k]
  BY <1>1, <1>2
<1> QED BY <1>3, <1>4 DEF q, Lists

LEMMA FlattenHas ==
  ASSUME NEW C, NEW seqs \in Seq(Seq(C)), NEW i \in DOMAIN seqs, NEW j \in DOMAIN seqs[i]
  PROVE  Lists(FlattenSeq(seqs), seqs[i][j])
<1> DEFINE flat == FlatOf(seqs, Len(seqs))
           c == seqs[i][j]
           Holds(n) == Lists(flat[n], c)
           Fails == {n \in i .. Len(seqs) : ~Holds(n)}
<1>0. Len(seqs) \in Nat /\ DOMAIN seqs = 1 .. Len(seqs) /\ \A n \in 1 .. Len(seqs) : seqs[n] \in Seq(C)
  BY LenProperties
<1>1. /\ FlattenSeq(seqs) = flat[Len(seqs)]
      /\ \A n \in 1 .. Len(seqs) : flat[n] \in Seq(C) /\ flat[n] = Joined(seqs, flat, n)
  BY <1>0, FlatIs
<1>2. i \in Nat \ {0} /\ i <= Len(seqs) /\ Lists(seqs[i], c)
  BY <1>0 DEF Lists
<1> HIDE DEF flat, c
<1>3. ASSUME NEW n \in i .. Len(seqs), n # i => Holds(n - 1)
      PROVE  Holds(n)
  <2>1. n \in 1 .. Len(seqs) /\ flat[n] = Joined(seqs, flat, n) /\ seqs[n] \in Seq(C)
    BY <1>0, <1>1, <1>2
  <2>2. CASE n = 1
    <3>1. flat[n] = seqs[i] /\ n = i
      BY <1>2, <2>1, <2>2 DEF Joined
    <3> QED BY <1>2, <3>1
  <2>3. CASE n # 1
    <3> DEFINE a == flat[n - 1]
               b == seqs[n]
    <3>1. flat[n] = a \o b
      BY <2>1, <2>3 DEF Joined
    <3>2. n - 1 \in 1 .. Len(seqs)
      BY <1>0, <2>1, <2>3
    <3>3. a \in Seq(C)
      BY <1>1, <3>2
    <3>4. b \in Seq(C) /\ (Lists(a, c) \/ Lists(b, c))
      BY <1>2, <1>3, <2>1
    <3> HIDE DEF a, b
    <3>5. Lists(a \o b, c)
      BY <3>3, <3>4, JoinHas
    <3> QED BY <3>1, <3>5
  <2> QED BY <2>2, <2>3
<1> HIDE DEF Holds
<1>4. ASSUME NEW n \in Fails, \A k \in Fails : n <= k
      PROVE  FALSE
  <2>1. n # i => n - 1 \in i .. Len(seqs) /\ n - 1 \notin Fails
    BY <1>0, <1>2, <1>4
  <2>2. n # i => Holds(n - 1)
    BY <2>1
  <2> QED BY <1>3, <2>2
<1>5. Fails = {}
  <2>1. Fails \subseteq Nat
    BY <1>2
  <2> HIDE DEF Fails
  <2> QED BY <1>4, <2>1, SmallestOf
<1>6. Len(seqs) \in i .. Len(seqs)
  BY <1>0, <1>2
<1>7. Holds(Len(seqs))
  BY <1>5, <1>6
<1> QED BY <1>1, <1>7 DEF Holds, c

InVec == {s \in Signals : \E i \in DOMAIN Attached : \E j \in DOMAIN port[Attached[i]].vec : port[Attached[i]].vec[j] = s}

LEMMA AllPortsAre ==
  ASSUME PortAssumption, port \in PortType, NEW fc, NEW m
  PROVE  LET q == AllPorts(fc, m) IN
         /\ \A i \in DOMAIN q : q[i].fc = fc /\ q[i].arg = m /\ q[i].on \in InVec
         /\ \A s \in InVec : \E i \in DOMAIN q : Is(q[i], fc, s) /\ q[i].arg = m
<1> DEFINE C == [fc : {fc}, on : InVec, arg : {m}]
           f == [i \in DOMAIN Attached |-> EachWith(fc, port[Attached[i]].vec, m)]
           q == FlattenSeq(f)
<1>1. Attached \in Seq(Ports) /\ \A i \in DOMAIN Attached : Attached[i] \in Ports
  BY LenProperties DEF PortAssumption
<1>2. ASSUME NEW i \in DOMAIN Attached
      PROVE  /\ f[i] \in Seq(C) /\ DOMAIN f[i] = DOMAIN port[Attached[i]].vec
             /\ \A j \in DOMAIN f[i] : f[i][j] = [fc |-> fc, on |-> port[Attached[i]].vec[j], arg |-> m]
  <2> DEFINE vec == port[Attached[i]].vec
             g == EachWith(fc, vec, m)
  <2>1. vec \in Seq(Signals)
    BY <1>1 DEF PortType
  <2>2. \A j \in DOMAIN vec : vec[j] \in InVec
    <3>1. \A j \in DOMAIN vec : vec[j] \in Signals
      BY <2>1, LenProperties
    <3> QED BY <3>1 DEF InVec
  <2>3. DOMAIN g = DOMAIN vec /\ g = [j \in DOMAIN vec |-> g[j]]
    BY DEF EachWith
  <2>4. \A j \in DOMAIN vec : g[j] = [fc |-> fc, on |-> vec[j], arg |-> m]
    BY DEF EachWith, DoWith
  <2>5. f[i] = g
    OBVIOUS
  <2> HIDE DEF vec, g
  <2>6. \A j \in DOMAIN vec : g[j] \in C
    <3>1. \A s \in InVec : [fc |-> fc, on |-> s, arg |-> m] \in C
      OBVIOUS
    <3> HIDE DEF C
    <3> QED BY <2>2, <2>4, <3>1
  <2> HIDE DEF C, f
  <2>7. g \in Seq(C)
    BY <2>1, <2>3, <2>6, MapType
  <2> QED BY <2>3, <2>4, <2>5, <2>7 DEF vec
<1>3. f = [i \in DOMAIN Attached |-> f[i]] /\ DOMAIN f = DOMAIN Attached
  OBVIOUS
<1>4. AllPorts(fc, m) = q
  BY DEF AllPorts
<1> HIDE DEF f
<1>5. f \in Seq(Seq(C))
  <2> HIDE DEF C
  <2> QED BY <1>1, <1>2, <1>3, MapType
<1>6. q \in Seq(C)
  <2> HIDE DEF C
  <2> QED BY <1>5, FlattenType
<1>7. ASSUME NEW s \in InVec
      PROVE  \E i \in DOMAIN q : Is(q[i], fc, s) /\ q[i].arg = m
  <2>1. PICK i \in DOMAIN f : \E j \in DOMAIN f[i] : f[i][j] = [fc |-> fc, on |-> s, arg |-> m]
    <3>1. PICK i \in DOMAIN Attached : \E j \in DOMAIN port[Attached[i]].vec : port[Attached[i]].vec[j] = s
      BY DEF InVec
    <3> HIDE DEF C
    <3>2. \E j \in DOMAIN f[i] : f[i][j] = [fc |-> fc, on |-> s, arg |-> m]
      BY <1>2, <3>1
    <3> QED BY <1>3, <3>1, <3>2
  <2>2. PICK j \in DOMAIN f[i] : f[i][j] = [fc |-> fc, on |-> s, arg |-> m]
    BY <2>1
  <2>3. PICK k \in DOMAIN q : q[k] = f[i][j]
    <3> HIDE DEF C, q
    <3>1. Lists(FlattenSeq(f), f[i][j])
      BY <1>5, FlattenHas
    <3> QED BY <3>1 DEF q, Lists
  <2> QED BY <2>2, <2>3 DEF Is
<1> HIDE DEF q
<1>8. \A i \in DOMAIN q : q[i] \in C
  <2> HIDE DEF C
  <2> QED BY <1>6, LenProperties
<1>9. \A i \in DOMAIN q : q[i].fc = fc /\ q[i].arg = m /\ q[i].on \in InVec
  BY <1>8
<1> QED BY <1>4, <1>7, <1>9

LEMMA AllPortsCalls ==
  ASSUME PortAssumption, port \in PortType, NEW fc \in {"Observe", "Flush"}, NEW m \in Modes
  PROVE  AllPorts(fc, m) \in Seq(Visits) /\ AllPorts(fc, m) \in Seq(AnyCall) /\ AllPorts(fc, m) \o <<>> = AllPorts(fc, m)
<1> DEFINE new == AllPorts(fc, m)
<1>1. new \in Seq(Visits)
  BY AllPortsVisit
<1> HIDE DEF new
<1>2. \A i \in DOMAIN new : new[i] \in Visits
  BY <1>1, LenProperties
<1>3. new = [i \in DOMAIN new |-> new[i]]
  BY <1>1, LenProperties, SeqDef
<1>4. new \in Seq(AnyCall) /\ new \o <<>> = new
  BY <1>1, <1>2, <1>3, MapType, ConcatEmptySeq DEF Visits
<1> QED BY <1>1, <1>4 DEF new

(* The write pass of an edge leaves nothing owed on any signal it visits   *)
(* but what it came too late for.                                          *)
LEMMA WriteEdgeSettles ==
  ASSUME Safe, Even(World), PortAssumption, WriteEdge
  PROVE  Settled(World', <<>>, InVec, {}, edge')
<1>0. AtRest(World) /\ port \in PortType /\ Ready(World)
  BY DEF Safe, Ready
<1>1. PICK e \in {"Rise", "Fall"} :
         LET m == Then(World, AllPorts("Flush", e)) IN
         /\ edge' = e /\ Run(m).todo = <<>> /\ Become(Run(m).world)
         /\ late' = {s \in Run(m).world.late : ~Delivered(Run(m).world, s)}
  BY DEF WriteEdge
<1> DEFINE w == World
           new == AllPorts("Flush", e)
           m == Then(w, new)
<1>2. e \in Modes /\ e # "Imme"
  BY DEF Modes
<1>3. new \in Seq(Visits) /\ new \in Seq(AnyCall) /\ new \o <<>> = new
  BY <1>0, <1>2, AllPortsCalls
<1>4. /\ \A i \in DOMAIN new : new[i].fc = "Flush" /\ new[i].arg = e
      /\ \A s \in InVec : \E i \in DOMAIN new : Flushes(new[i], s, e)
  BY <1>0, AllPortsAre DEF Flushes
<1> HIDE DEF new, w
<1>5. Ready(w)
  BY <1>0 DEF w
<1>6. Sound(m, <<>>)
  BY <1>0, <1>3, VisitsSound DEF w
<1>7. \A i \in DOMAIN new : Allowed(w, new[i], {}, e) /\ new[i].fc \notin {"Fetch", "SetMode"}
  BY <1>4 DEF Allowed
<1>8. \A s \in Signals : Recorded(w, s) /\ Cached(w, s, {}, e) /\ Sent(w, <<>>, s) /\ Passed(w, new, s, InVec, e)
  BY <1>4, <1>5, ReadyUse DEF Passed, Cached, Lost
<1>9. Settled(w, new, InVec, {}, e)
  BY <1>7, <1>8, StartSettled
<1>10. Delivers(m, <<>>, InVec, {}, e)
  BY <1>3, <1>9 DEF Delivers, Then, Settled
<1> HIDE DEF m
<1> DEFINE r == Run(m).world
           u == World'
<1>11. Run(m).todo = <<>> /\ Become(r) /\ late' = {s \in r.late : ~Delivered(r, s)}
  BY <1>1 DEF m, new, w
<1>12. Carried(r, <<>>, InVec, {}, e)
  BY <1>2, <1>6, <1>10, <1>11, RunEnds
<1> HIDE DEF r
<1>13. u.sig = r.sig /\ u.pin = r.pin /\ u.foreign = r.foreign /\ u.asked = r.asked /\ u.late = late'
  BY <1>11 DEF World, Become
<1> HIDE DEF u
<1>14. \A s \in Signals \cap r.late : s \in u.late \/ Delivered(r, s)
  BY <1>11, <1>13
<1>15. \A s \in Signals : ~Lost(r, s, {}, e)
  BY DEF Lost
<1>16. Settled(u, <<>>, InVec, {}, e)
  BY <1>2, <1>12, <1>13, <1>14, <1>15, EndSettled
<1> QED BY <1>1, <1>16 DEF u

(* Between two edges the refresh pass has forgotten what it came too late  *)
(* for, and every other value owed is where it was.                        *)
LEMMA ReadEdgeEven ==
  ASSUME Safe, Settled(World, <<>>, InVec, {}, edge), PortAssumption, ReadEdge
  PROVE  Even(World')
<1>0. AtRest(World) /\ port \in PortType /\ WorldOK(World)
  BY RestUse DEF Safe
<1>1. PICK d \in [DevicePins -> UNION {DeviceValues[p] : p \in DevicePins}] :
         LET r == Run(Then(Driven(d), AllPorts("Observe", edge))) IN
         /\ \A p \in DevicePins : d[p] \in DeviceValues[p]
         /\ r.todo = <<>> /\ Become(Forgets(r.world, edge))
  BY DEF ReadEdge
<1> DEFINE w == World
           v == Driven(d)
           new == AllPorts("Observe", edge)
           m == Then(v, new)
<1>2. edge \in Modes /\ edge # "Imme"
  BY DEF ReadEdge, Safe, Modes
<1>3. new \in Seq(Visits) /\ new \in Seq(AnyCall) /\ new \o <<>> = new
  BY <1>0, <1>2, AllPortsCalls
<1>4. \A i \in DOMAIN new : new[i].fc = "Observe" /\ new[i].arg = edge /\ new[i].on \in InVec
  BY <1>0, AllPortsAre
<1>5. \A s \in Signals : Recorded(w, s) /\ Cached(w, s, {}, edge) /\ Sent(w, <<>>, s) /\ Passed(w, <<>>, s, InVec, edge)
  BY SettledIs
<1>6. AtRest(v)
  BY <1>0, <1>1, DrivenRest
<1>7. Sound(m, <<>>)
  BY <1>3, <1>6, VisitsSound
<1>8. v.late = w.late /\ v.sig = w.sig /\ v.asked = w.asked
  BY DEF World, Driven
<1>9. ASSUME NEW s \in Signals
      PROVE  SameAt(w, v, s)
  <2>1. w.sig[s].wr.from = "pin" => w.sig[s].wr.pin \in Pins
    <3>1. w.sig[s].wr \in Readers(s)
      BY <1>0 DEF WorldOK, SignalType
    <3> QED BY <3>1, ReaderFacts
  <2>2. /\ w.sig = sig /\ w.foreign = foreign
        /\ v.foreign = foreign \cup {t \in Signals : sig[t].wr.from = "pin" /\ sig[t].wr.pin \in DevicePins}
        /\ \A p \in Pins \ DevicePins : v.pin[p] = w.pin[p]
    BY DEF World, Driven
  <2> HIDE DEF w, v
  <2>3. w.sig[s].wr.from = "pin" => v.pin[w.sig[s].wr.pin] = w.pin[w.sig[s].wr.pin] \/ s \in v.foreign
    BY <2>1, <2>2
  <2>4. s \in w.foreign => s \in v.foreign
    BY <2>2
  <2> QED BY <1>8, <2>3, <2>4 DEF SameAt, SameConfig
<1> HIDE DEF new, w, v
<1>10. ASSUME NEW s \in Signals
       PROVE  Recorded(v, s) /\ Cached(v, s, InVec, edge) /\ Sent(v, <<>>, s) /\ Passed(v, new, s, InVec, edge)
  <2>1. Recorded(v, s) /\ Cached(v, s, {}, edge) /\ Sent(v, <<>>, s) /\ Passed(v, <<>>, s, InVec, edge)
    BY <1>5, <1>9, SameFacts
  <2>2. Cached(v, s, InVec, edge)
    BY <2>1 DEF Cached, Lost
  <2>3. Passed(v, new, s, InVec, edge)
    BY <2>1 DEF Passed
  <2> QED BY <2>1, <2>2, <2>3
<1>11. \A i \in DOMAIN new : Allowed(v, new[i], InVec, edge) /\ new[i].fc \notin {"Fetch", "SetMode"}
  BY <1>4 DEF Allowed
<1>12. Settled(v, new, InVec, InVec, edge)
  BY <1>10, <1>11, StartSettled
<1>13. Delivers(m, <<>>, InVec, InVec, edge)
  BY <1>3, <1>12 DEF Delivers, Then, Settled
<1> HIDE DEF m
<1> DEFINE r == Run(m).world
           u == World'
<1>14. Run(m).todo = <<>> /\ Become(Forgets(r, edge))
  BY <1>1 DEF m, new, v
<1>15. Carried(r, <<>>, InVec, InVec, edge)
  BY <1>2, <1>7, <1>13, <1>14, RunEnds
<1>16. WorldOK(r)
  BY <1>7, <1>14, RunRest, RestUse
<1> HIDE DEF r
<1> DEFINE f == Forgets(r, edge)
<1>17. /\ f.sig = r.sig /\ f.pin = r.pin /\ f.foreign = r.foreign
       /\ \A s \in Signals :
            f.asked[s] = IF /\ s \in r.late /\ r.sig[s].cbs # <<>> /\ r.sig[s].mode = edge
                            /\ ~Delivered(r, s) THEN None ELSE r.asked[s]
  BY <1>16, ForgetsIs
<1>18. u.sig = f.sig /\ u.pin = f.pin /\ u.foreign = f.foreign /\ u.asked = f.asked
  BY <1>14 DEF World, Become
<1> HIDE DEF u, f
<1>19. \A s \in Signals : u.asked[s] \in {None, r.asked[s]}
  BY <1>17, <1>18
<1>20. \A s \in Signals : Lost(r, s, InVec, edge) => u.asked[s] = None \/ r.sig[s].local = r.asked[s]
  BY <1>17, <1>18 DEF Lost, Delivered
<1>21. Settled(u, <<>>, {}, {}, "none")
  BY <1>2, <1>15, <1>17, <1>18, <1>19, <1>20, EndSettled
<1> QED BY <1>21 DEF Even, u
-----------------------------------------------------------------------------
(* Every pin in the list of a port is in the vector the edges walk: so it  *)
(* stays whatever is added, removed, selected, prefixed or copied.         *)
LEMMA AppendHas ==
  ASSUME NEW C, NEW a \in Seq(C), NEW x, NEW c, Lists(a, c) \/ x = c
  PROVE  Lists(Append(a, x), c)
<1> DEFINE q == Append(a, x)
<1>1. Len(a) \in Nat /\ DOMAIN a = 1 .. Len(a)
  BY LenProperties
<1>2. DOMAIN q = 1 .. Len(a) + 1 /\ q[Len(a) + 1] = x /\ \A k \in 1 .. Len(a) : q[k] = a[k]
  BY <1>1, AppendProperties
<1> HIDE DEF q
<1>3. Len(a) + 1 \in DOMAIN q /\ \A k \in DOMAIN a : k \in DOMAIN q
  BY <1>1, <1>2
<1> QED BY <1>1, <1>2, <1>3 DEF Lists, q

LEMMA AmongHas ==
  ASSUME NEW T, NEW list \in Seq(T), NEW S, NEW c \in S, Lists(list, c)
  PROVE  Lists(Among(list, S), c)
<1> DEFINE kept == KeptOf(list, S, Len(list))
<1>0. PICK j \in DOMAIN list : list[j] = c
  BY DEF Lists
<1> DEFINE Fails == {i \in j .. Len(list) : ~Lists(kept[i], c)}
<1>1. Among(list, S) = kept[Len(list)]
  BY AmongKept
<1>2. \A i \in 0 .. Len(list) : kept[i] \in Seq(S \cap T) /\ kept[i] = Entry(list, S, kept, i)
  BY AmongKept
<1>3. Len(list) \in Nat /\ j \in Nat \ {0} /\ j <= Len(list)
  BY LenProperties
<1>4. \A i \in 1 .. Len(list) : kept[i - 1] \in Seq(S \cap T) /\ list[i] \in T
  <2>1. \A i \in 1 .. Len(list) : list[i] \in T /\ i - 1 \in 0 .. Len(list)
    BY <1>3, LenProperties
  <2> HIDE DEF kept
  <2> QED BY <1>2, <2>1
<1> HIDE DEF kept
<1>5. ASSUME NEW i \in j .. Len(list), i # j => Lists(kept[i - 1], c)
      PROVE  Lists(kept[i], c)
  <2>1. i \in 1 .. Len(list) /\ i # 0 /\ kept[i] = Entry(list, S, kept, i)
    BY <1>2, <1>3
  <2> DEFINE a == kept[i - 1]
  <2>2. a \in Seq(S \cap T) /\ list[i] \in T
    BY <1>4, <2>1
  <2>3. kept[i] = IF list[i] \in S THEN Append(a, list[i]) ELSE a
    BY <2>1 DEF Entry
  <2>4. i = j => list[i] \in S /\ list[i] = c
    BY <1>0
  <2>5. i # j => Lists(a, c)
    BY <1>5
  <2> HIDE DEF a
  <2>6. list[i] \in S => Lists(Append(a, list[i]), c)
    BY <2>2, <2>4, <2>5, AppendHas
  <2> QED BY <2>3, <2>4, <2>5, <2>6
<1>6. ASSUME NEW i \in Fails, \A k \in Fails : i <= k
      PROVE  FALSE
  <2>1. i # j => i - 1 \in j .. Len(list) /\ i - 1 \notin Fails
    BY <1>3, <1>6
  <2>2. i # j => Lists(kept[i - 1], c)
    BY <2>1
  <2> QED BY <1>5, <2>2
<1>7. Fails = {}
  <2>1. Fails \subseteq Nat
    BY <1>3
  <2> HIDE DEF Fails
  <2> QED BY <1>6, <2>1, SmallestOf
<1>8. Len(list) \in j .. Len(list)
  BY <1>3
<1> QED BY <1>1, <1>7, <1>8

Sited(x) == \A n \in x.list : Lists(x.vec, Wire[n])

LEMMA WiredHas ==
  ASSUME PortAssumption, NEW order \in Seq(Names), NEW n, Lists(order, n)
  PROVE  Lists([i \in DOMAIN order |-> Wire[order[i]]], Wire[n])
<1> DEFINE f == [i \in DOMAIN order |-> Wire[order[i]]]
<1>1. DOMAIN f = DOMAIN order /\ \A i \in DOMAIN order : f[i] = Wire[order[i]]
  OBVIOUS
<1> HIDE DEF f
<1>2. Lists(f, Wire[n])
  BY <1>1 DEF Lists
<1> QED BY <1>2 DEF f

LEMMA EditSited ==
  ASSUME PortAssumption, port \in PortType, NEW p \in Ports, Sited(port[p])
  PROVE  /\ Sited(NewSubPort(p))
         /\ \A n \in Names : Sited(Add(p, n)) /\ Sited(Del(p, n))
         /\ \A a, b \in Names : Sited(SelectPins(p, <<a, b>>))
<1>1. port[p].list \subseteq Names /\ port[p].vec \in Seq(Signals)
  BY DEF PortType
<1>2. Sited(NewSubPort(p))
  <2> DEFINE names == port[p].list \cap Under
             order == Among(NameOrder, names)
  <2>1. names \subseteq Names /\ NameOrder \in Seq(Names)
    BY <1>1 DEF PortAssumption
  <2> HIDE DEF names
  <2>2. order \in Seq(names \cap Names) /\ names \cap Names = names
    BY <2>1, AmongType
  <2>3. ASSUME NEW n \in names
        PROVE  Lists(order, n)
    <3>1. n \in ToSet(NameOrder)
      BY <2>1 DEF PortAssumption
    <3>2. Lists(NameOrder, n)
      BY <3>1 DEF ToSet, Lists
    <3> QED BY <2>1, <3>2, AmongHas
  <2> HIDE DEF order
  <2>4. order \in Seq(Names)
    BY <2>1, <2>2
  <2>5. \A n \in names : Lists([i \in DOMAIN order |-> Wire[order[i]]], Wire[n])
    BY <2>3, <2>4, WiredHas
  <2> QED BY <2>5 DEF NewSubPort, InPort, Sited, order, names
<1>3. ASSUME NEW n \in Names
      PROVE  Sited(Add(p, n)) /\ Sited(Del(p, n))
  <2>1. Wire[n] \in Signals /\ \A m \in Names : Wire[m] \in Signals /\ (Wire[m] = Wire[n] => m = n)
    BY DEF PortAssumption
  <2> DEFINE vec == port[p].vec
             more == Append(vec, Wire[n])
             others == Among(vec, Signals \ {Wire[n]})
  <2>2. vec \in Seq(Signals) /\ \A m \in port[p].list : m \in Names /\ Lists(vec, Wire[m])
    BY <1>1 DEF Sited
  <2> HIDE DEF vec
  <2>3. Lists(more, Wire[n]) /\ \A m \in port[p].list : Lists(more, Wire[m])
    BY <2>2, AppendHas
  <2>4. \A m \in port[p].list \ {n} : Wire[m] \in Signals \ {Wire[n]}
    BY <2>1, <2>2
  <2>5. \A m \in port[p].list \ {n} : Lists(others, Wire[m])
    BY <2>2, <2>4, AmongHas
  <2> HIDE DEF more, others
  <2>6. Sited(Add(p, n))
    BY <2>3 DEF Sited, Add, more, vec
  <2>7. Sited(Del(p, n))
    BY <2>5 DEF Sited, Del, others, vec
  <2> QED BY <2>6, <2>7
<1>4. ASSUME NEW a \in Names, NEW b \in Names
      PROVE  Sited(SelectPins(p, <<a, b>>))
  <2> DEFINE known == Among(<<a, b>>, port[p].list)
  <2>1. <<a, b>> \in Seq(Names)
    OBVIOUS
  <2>2. known \in Seq(port[p].list \cap Names)
    BY <2>1, AmongType
  <2> HIDE DEF known
  <2>3. known \in Seq(Names)
    BY <2>2
  <2>4. \A n \in ToSet(known) : Lists(known, n)
    BY DEF ToSet, Lists
  <2>5. \A n \in ToSet(known) : Lists([i \in DOMAIN known |-> Wire[known[i]]], Wire[n])
    BY <2>3, <2>4, WiredHas
  <2> QED BY <2>5 DEF SelectPins, Sited, known
<1> QED BY <1>2, <1>3, <1>4
-----------------------------------------------------------------------------
(* Safe, and every value owed is on time; the ports list what they walk.   *)
Due == IF edge = "none" THEN {} ELSE InVec
OnTime ==
  /\ Safe /\ Settled(World, <<>>, Due, {}, edge)
  /\ \A p \in Ports : Sited(port[p])

LEMMA InitOnTime ==
  ASSUME PortAssumption, Init
  PROVE  OnTime
<1>1. PICK io \in [Signals -> {"Input", "Output", "InOut"}], pins \in [Pins -> UNION {Storage(p) : p \in Pins}] :
         Begin(NewWorld(io, pins), [p \in Ports |-> NewPort])
  BY DEF Init
<1> DEFINE w == World
<1>2. edge = "none" /\ \A p \in Ports : port[p] = NewPort
  BY <1>1 DEF Begin
<1>3. \A s \in Signals : w.asked[s] = None /\ w.sig[s].wr.from # "pin"
  BY <1>1 DEF Begin, World, NewWorld, Fresh, Unbound
<1> HIDE DEF w
<1>4. \A s \in Signals : Recorded(w, s) /\ Cached(w, s, {}, "none") /\ Sent(w, <<>>, s) /\ Passed(w, <<>>, s, {}, "none")
  BY <1>3 DEF Recorded, Cached, Sent, Passed, Owed
<1>5. DOMAIN <<>> = {} /\ OneMode(<<>>)
  BY DEF OneMode
<1>6. Settled(w, <<>>, {}, {}, "none")
  BY <1>4, <1>5, SettledIs
<1>7. \A p \in Ports : Sited(port[p])
  BY <1>2 DEF Sited, NewPort
<1> QED BY <1>2, <1>6, <1>7, InitSafe DEF OnTime, Due, w

LEMMA EditOnTime ==
  ASSUME PortAssumption, OnTime, EditPort
  PROVE  OnTime'
<1>0. Safe /\ port \in PortType /\ \A p \in Ports : Sited(port[p])
  BY DEF OnTime, Safe
<1>1. PICK p \in Ports, q \in Ports :
         \/ \E n \in Names : port' = [port EXCEPT ![p] = Add(p, n)]
         \/ \E n \in Names : port' = [port EXCEPT ![p] = Del(p, n)]
         \/ port' = [port EXCEPT ![q] = NewSubPort(p)]
         \/ \E a, b \in Names : port' = [port EXCEPT ![q] = SelectPins(p, <<a, b>>)]
         \/ port' = [port EXCEPT ![q] = port[p]]
  BY DEF EditPort
<1>2. \E r \in Ports : \E x : Sited(x) /\ port' = [port EXCEPT ![r] = x]
  BY <1>0, <1>1, EditSited, Zenon
<1>3. \A r \in Ports : Sited(port'[r])
  BY <1>0, <1>2 DEF PortType
<1>4. World' = World /\ edge' = edge /\ edge = "none"
  BY DEF EditPort, World
<1>5. Due = {} /\ Due' = {}
  BY <1>4 DEF Due
<1>6. Settled(World, <<>>, {}, {}, edge)
  BY <1>5 DEF OnTime
<1>7. Settled(World', <<>>, Due', {}, edge')
  BY <1>4, <1>5, <1>6
<1> QED BY <1>0, <1>3, <1>7, EditKeeps DEF OnTime

LEMMA NextOnTime ==
  ASSUME PortAssumption, OnTime, [Next]_vars
  PROVE  OnTime'
<1>0. Safe /\ Safe' /\ Settled(World, <<>>, Due, {}, edge) /\ \A p \in Ports : Sited(port[p])
  BY NextSafe DEF OnTime
<1>1. ASSUME World' = World, port' = port, edge' = edge
      PROVE  OnTime'
  <2>1. Due' = Due
    BY <1>1 DEF Due, InVec
  <2>2. Settled(World', <<>>, Due', {}, edge')
    BY <1>0, <1>1, <2>1
  <2> QED BY <1>0, <1>1, <2>2 DEF OnTime
<1>2. ASSUME Assign \/ PinSet \/ Read \/ Refresh \/ Direct \/ Configure \/ PortCall \/ PortConnect
      PROVE  OnTime'
  <2>1. edge = "none" /\ port' = port
    BY <1>2 DEF Assign, PinSet, Read, Refresh, Direct, Configure, PortCall, PortConnect, Call, Setup
  <2>2. Even(World)
    BY <1>0, <2>1 DEF Even, Due
  <2>3. Even(World') /\ edge' = "none"
    BY <1>0, <1>2, <2>2, AssignEven, PinEven, ConfigureEven, PortCallEven, PortConnectEven
  <2>4. Settled(World', <<>>, Due', {}, edge')
    BY <2>3 DEF Even, Due
  <2> QED BY <1>0, <2>1, <2>4 DEF OnTime
<1>3. ASSUME WriteEdge
      PROVE  OnTime'
  <2>1. edge = "none" /\ port' = port /\ edge' \in {"Rise", "Fall"}
    BY <1>3 DEF WriteEdge
  <2>2. Even(World)
    BY <1>0, <2>1 DEF Even, Due
  <2>3. Settled(World', <<>>, InVec, {}, edge')
    BY <1>0, <1>3, <2>2, WriteEdgeSettles
  <2>4. Due' = InVec
    BY <2>1 DEF Due, InVec
  <2>5. Settled(World', <<>>, Due', {}, edge')
    BY <2>3, <2>4
  <2> QED BY <1>0, <2>1, <2>5 DEF OnTime
<1>4. ASSUME ReadEdge
      PROVE  OnTime'
  <2>1. edge # "none" /\ port' = port /\ edge' = "none"
    BY <1>4 DEF ReadEdge
  <2>2. Settled(World, <<>>, InVec, {}, edge)
    BY <1>0, <2>1 DEF Due
  <2>3. Even(World')
    BY <1>0, <1>4, <2>2, ReadEdgeEven
  <2>4. Settled(World', <<>>, Due', {}, edge')
    BY <2>1, <2>3 DEF Even, Due
  <2> QED BY <1>0, <2>1, <2>4 DEF OnTime
<1>5. CASE UNCHANGED vars
  BY <1>1, <1>5 DEF vars, World
<1>6. CASE Next
  BY <1>2, <1>3, <1>4, <1>6, EditOnTime DEF Next
<1> QED BY <1>5, <1>6

LEMMA OnTimeAlways == Spec => []OnTime
<1>1. PortAssumption
  BY PortAssumption
<1>2. Init => OnTime
  BY <1>1, InitOnTime
<1>3. OnTime /\ [Next]_vars => OnTime'
  BY <1>1, NextOnTime
<1> QED BY <1>2, <1>3, PTL DEF Spec

(* The last value assigned to an input that reads back the pin it writes - *)
(* by a call, a view, a chain or a cycle of links and callbacks - is on    *)
(* that pin after the write pass of its edge, if a port of the clock lists *)
(* the signal, and at once when the signal writes immediately.  Reads,     *)
(* announcements and edges do not lose it on the way, nor does a switch    *)
(* between the two edges.  Not owed any more is a value that was not yet   *)
(* on its pin when the user refreshed the signal, turned it to immediate   *)
(* mode or gave it a direction, and any value after a rebinding or ReInit; *)
(* what a callback assigns after the flush of a pass is due at the next    *)
(* edge, unless the signal is observed and refreshed over it.  Nothing is  *)
(* said of a pin changed behind the same-write filter (foreign).           *)
THEOREM DeliveredOnTime == Spec => []EdgeDelivers
<1>1. OnTime => EdgeDelivers
  <2> SUFFICES ASSUME OnTime, NEW s \in Signals, Owing(s),
                      sig[s].mode = "Imme" \/ (sig[s].mode = edge /\ Served(s) /\ s \notin late)
               PROVE  pin[sig[s].wr.pin] = Stored(sig[s].wr.pin, asked[s])
    BY DEF EdgeDelivers
  <2> DEFINE w == World
  <2>1. Safe /\ PortAssumption /\ WorldOK(w) /\ Settled(w, <<>>, Due, {}, edge) /\ \A p \in Ports : Sited(port[p])
    BY RestUse, PortAssumption DEF OnTime, Safe
  <2>2. w.sig = sig /\ w.pin = pin /\ w.asked = asked /\ w.foreign = foreign /\ w.late = late
    BY DEF World
  <2> HIDE DEF w
  <2>3. Sent(w, <<>>, s) /\ Passed(w, <<>>, s, Due, edge) /\ DOMAIN <<>> = {}
    BY <2>1, SettledIs
  <2>4. Owed(w, s) /\ s \notin w.foreign
    BY <2>2 DEF Owing, Owed
  <2>5. CASE sig[s].mode = "Imme"
    <3>1. OnPin(w, s)
      BY <2>2, <2>3, <2>4, <2>5 DEF Sent
    <3> QED BY <2>2, <3>1 DEF OnPin
  <2>6. CASE sig[s].mode = edge /\ Served(s) /\ s \notin late
    <3>1. edge # "none"
      BY <2>1, <2>2, <2>6 DEF WorldOK, SignalType, Modes
    <3>2. PICK i \in DOMAIN Attached : \E n \in port[Attached[i]].list : Wire[n] = s
      BY <2>6 DEF Served, ToSet
    <3>3. Attached[i] \in Ports
      BY <2>1, LenProperties DEF PortAssumption
    <3>4. Lists(port[Attached[i]].vec, s)
      BY <2>1, <3>2, <3>3 DEF Sited
    <3>5. s \in Due
      BY <3>1, <3>4 DEF Due, InVec, Lists
    <3>6. OnPin(w, s)
      BY <2>2, <2>3, <2>4, <2>6, <3>5 DEF Passed
    <3> QED BY <2>2, <3>6 DEF OnPin
  <2> QED BY <2>5, <2>6
<1> QED BY <1>1, OnTimeAlways, PTL
=============================================================================
