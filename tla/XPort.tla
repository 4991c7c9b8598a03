------------------------------- MODULE XPort -------------------------------
(***************************************************************************)
(* Signals grouped in ports (src/core/port.cpp) and the clock edges that   *)
(* flush and refresh them (src/core/clock.cpp).  A port keeps its pins     *)
(* twice: by name (port_list, port_name and name_port, one relation here)  *)
(* and in a vector, the index every edge walks.                            *)
(* An edge has two actions: the write pass over all ports, and, once the   *)
(* device has evaluated and driven its own pins, the refresh pass over the *)
(* observed signals.  The thread that steps the clock makes every call.    *)
(***************************************************************************)
EXTENDS XData

CONSTANTS
  Ports,        \* the XPort objects
  Attached,     \* XClock.ports: the sequence of ports the clock serves
  Names,        \* pin names
  NameOrder,    \* Names in the order of the map
  Wire,         \* [Names -> Signals]: the member a generated port adds under a name
  Peer,         \* [Names -> Names]: the name with the same stem in the other port
  Under,        \* names that start with the prefix of a sub-port
  DeviceValues, \* [pins the device drives -> vectors it drives there]
  Ints, Texts,  \* integers and four-state literals the user assigns
  Levels,       \* bits the user sets
  MaxCalls,     \* bound: calls on signals after the start
  MaxSetup      \* bound: configuration calls after the start

VARIABLES
  sig, pin, asked, told, foreign,   \* the world of XData
  late,    \* inputs assigned after the write pass had flushed them (history)
  port,    \* [Ports -> [list : subset of Names, vec : Seq(Signals)]]
  edge,    \* "none", or the edge whose refresh pass is still to come
  calls, setups   \* calls made so far

vars == <<sig, pin, asked, told, foreign, late, port, edge, calls, setups>>
DevicePins == DOMAIN DeviceValues
Storage(p) == [1 .. PinWidth[p] -> IF p \in NativePins THEN 0 .. 1 ELSE 0 .. 3]

PortAssumption ==
  /\ Attached \in Seq(Ports) /\ NameOrder \in Seq(Names)
  /\ ToSet(NameOrder) = Names /\ \A m, n \in Names : Wire[m] = Wire[n] => m = n
  /\ Wire \in [Names -> Signals] /\ Peer \in [Names -> Names] /\ Under \subseteq Names
  /\ Ints \subseteq Nat /\ Levels \subseteq 0 .. 3 /\ \A v \in Texts : v \in Seq(0 .. 3)
  /\ DevicePins \subseteq Pins /\ \A p \in DevicePins : DeviceValues[p] \subseteq Storage(p)
  /\ MaxCalls \in Nat /\ MaxSetup \in Nat
ASSUME PortAssumption

World == [sig |-> sig, pin |-> pin, asked |-> asked, told |-> told, foreign |-> foreign,
          late |-> late, within |-> {}]
Become(w) == /\ sig' = w.sig /\ pin' = w.pin /\ asked' = w.asked
             /\ told' = w.told /\ foreign' = w.foreign
Return(m) == \E r \in {Run(m)} : r.todo = <<>> /\ Become(r.world)

Begin(w, p) == /\ sig = w.sig /\ pin = w.pin /\ asked = w.asked /\ told = w.told
               /\ foreign = w.foreign /\ late = {} /\ port = p /\ edge = "none" /\ calls = 0 /\ setups = 0
NewWorld(io, pins) ==
  [sig |-> [s \in Signals |-> Fresh(s, io[s])], pin |-> pins,
   asked |-> [s \in Signals |-> None], told |-> [s \in Signals |-> Zero(s)], foreign |-> {},
   late |-> {}, within |-> {}]
NewPort == [list |-> {}, vec |-> <<>>]

Init == \E io \in [Signals -> {"Input", "Output", "InOut"}],
            pins \in [Pins -> UNION {Storage(p) : p \in Pins}] :
          /\ \A p \in Pins : pins[p] \in Storage(p)
          /\ Begin(NewWorld(io, pins), [p \in Ports |-> NewPort])
-----------------------------------------------------------------------------
(* One call on one signal between two edges, with all it leads to.         *)
Call(m)  == /\ edge = "none" /\ calls < MaxCalls /\ calls' = calls + 1
            /\ Return(m) /\ UNCHANGED <<late, port, edge, setups>>
Setup(m) == /\ edge = "none" /\ setups < MaxSetup /\ setups' = setups + 1
            /\ Return(m) /\ UNCHANGED <<late, port, edge, calls>>
Writeable == {s \in Signals : CheckWriteable(World, s)}
Fitting(s) == {v \in Texts : DOMAIN v = Bits(s)}

Assign ==
  \E s \in Writeable :
    \/ \E n \in Ints : (mWidth[s] = 0 => n < 4) /\
         \/ Call(AssignInt(World, s, n))
         \/ Call(ImmSet(World, s, n))
    \/ \E t \in Signals \ {s} : mWidth[t] = mWidth[s] /\ Call(AssignData(World, s, t))
    \/ mWidth[s] > 0 /\ \E v \in Fitting(s) : Call(AssignText(World, s, v))
    \/ \E b \in {2, 3} \cap Levels : Call(FillText(World, s, b))
    \/ mWidth[s] > 0 /\ \E v \in Fitting(s), i \in Bits(s) : Call(SetBits(World, s, v, {i}))
    \/ Call(Invert(World, s))
PinSet == \E s \in Signals : \E i \in Bits(s), b \in Levels : Call(SetPin(World, s, i, b))
Read   == \E s \in Signals : Call(UpdateRead(World, s))
Refresh == \E s \in Signals : Call(ReadFresh(Waive(World, s), s, "Imme"))
Direct == \E s \in Signals : Call(WriteDirect(World, s))
-----------------------------------------------------------------------------
(* Configuration: direction, mode, filter, backend, observers, links.  A   *)
(* parent of a view is never re-initialised: the view would dangle.        *)
Views   == {t \in Signals : sig[t].rd.from = "view"}
Parents == {sig[t].rd.of : t \in Views}
Reads(t, s) == sig[t].rd.from \in {"expr", "view"} /\ sig[t].rd.of = s
New(s) ==                 \* nothing has been done with s, nothing refers to it
  /\ sig[s] = Fresh(s, sig[s].io) /\ s \notin Parents
  /\ \A t \in Signals : ~Reads(t, s) /\ s \notin ToSet(sig[t].cbs)
  /\ \A p \in Ports : s \notin ToSet(port[p].vec)
Configure ==
  \E s \in Signals :
    \/ s \in Writeable /\ \E m \in {"Imme", "Rise", "Fall"} : Setup(Done(SetWriteMode(World, s, m)))
    \/ \E io \in {"Input", "Output", "InOut"} :
         \/ Setup(Done(SetIO(World, s, io)))
         \/ s \notin Parents /\ Setup(Done(ReInit(World, s, io)))
    \/ Setup(Done(FlipIOType(World, s)))
    \/ Setup(Done(SetIgnoreSame(World, s, ~sig[s].same)))
    \/ \E p \in Pins : PinWidth[p] = Width(s) /\
         (Setup(BindPin(World, s, p)) \/ Setup(Done(BindMixFromUvs(World, s, p))))
    \/ \E t \in Signals \ {s} : s \notin Parents /\ Bits(s) = Bits(t)
                                /\ sig[t].rd.from = "pin" /\ Setup(BindExpr(World, s, t))
    \/ Setup(BindConst(World, s, Vec(Number(s, 1))))
    \/ New(s) /\ \E p \in Signals \ {s} : \E at \in 0 .. (mWidth[p] - Width(s)) :
         Setup(SubDataRef(World, s, p, at))
    \/ Setup(OnChange(World, s, "user"))
    \/ Setup(Done(ClearOnChangeCbs(World, s)))
    \/ \E t \in Signals \ {s} : Linkable(World, s, t) /\ Setup(Connect(World, s, t))
-----------------------------------------------------------------------------
(* XPort: the calls on every pin of a port, and those that change a port.  *)
Each(fc, vec)         == [i \in DOMAIN vec |-> Do(fc, vec[i])]
EachWith(fc, vec, arg) == [i \in DOMAIN vec |-> DoWith(fc, vec[i], arg)]
PortCall ==
  \E p \in Ports :
    LET Whole(todo) == Setup(Then(World, Vec(todo)))
        Ready == \A s \in ToSet(port[p].vec) : sig[s].io = "Output" \/ s \in Writeable IN
    \/ Whole(Each("FlipIOType", port[p].vec))
    \/ Whole(Each("AsBiIO", port[p].vec))
    \/ Ready /\ \E m \in {"Imme", "Rise", "Fall"} : Whole(EachWith("AsWrite", port[p].vec, m))
    \/ Ready /\ Whole(Each("SetZero", port[p].vec))

(* The entries of a list that are in S.  (A recursive function where       *)
(* SelectSeq would do, because the provers know nothing of SelectSeq.)     *)
Among(list, S) ==
  LET kept[i \in 0 .. Len(list)] ==
        IF i = 0 THEN <<>>
        ELSE IF list[i] \in S THEN Append(kept[i - 1], list[i]) ELSE kept[i - 1]
  IN  kept[Len(list)]

InPort(names) ==
  LET order == Among(NameOrder, names)
  IN  [list |-> names, vec |-> [i \in DOMAIN order |-> Wire[order[i]]]]
Has(p, n) == n \in port[p].list
Add(p, n) == IF Has(p, n) THEN port[p]
             ELSE [list |-> port[p].list \cup {n}, vec |-> Append(port[p].vec, Wire[n])]
Del(p, n) == IF ~Has(p, n) THEN port[p]
             ELSE [list |-> port[p].list \ {n},
                   vec  |-> Among(port[p].vec, Signals \ {Wire[n]})]
NewSubPort(p) == InPort(port[p].list \cap Under)
SelectPins(p, pins) ==
  LET known == Among(pins, port[p].list)
  IN  [list |-> ToSet(known), vec |-> [i \in DOMAIN known |-> Wire[known[i]]]]
EditPort ==
  /\ edge = "none" /\ setups < MaxSetup /\ setups' = setups + 1
  /\ \E p, q \in Ports :
       \/ \E n \in Names : port' = [port EXCEPT ![p] = Add(p, n)]
       \/ \E n \in Names : port' = [port EXCEPT ![p] = Del(p, n)]
       \/ p # q /\ port' = [port EXCEPT ![q] = NewSubPort(p)]
       \/ p # q /\ \E a, b \in Names : port' = [port EXCEPT ![q] = SelectPins(p, <<a, b>>)]
       \/ p # q /\ port' = [port EXCEPT ![q] = port[p]]                      \* operator=
  /\ UNCHANGED <<sig, pin, asked, told, foreign, late, edge, calls>>

(* Connect(target): every pin of this port with its peer there, in the     *)
(* order of the map; names without a peer are skipped.                     *)
PortConnect ==
  \E p, q \in Ports :
    LET pairs == Among(NameOrder, {n \in port[p].list : Has(q, Peer[n])})
    IN  /\ \A i \in DOMAIN pairs : Linkable(World, Wire[pairs[i]], Wire[Peer[pairs[i]]])
        /\ pairs # <<>>
        /\ Setup(Then(World, [i \in DOMAIN pairs |-> DoWith("Connect", Wire[pairs[i]], Wire[Peer[pairs[i]]])]))
-----------------------------------------------------------------------------
(* One clock edge: _ris_ports or _fal_ports, the device, _ris_refresh or   *)
(* _fal_refresh.  (At fast mode levels above 0 passes are left out.)       *)
AllPorts(fc, m) == FlattenSeq([i \in DOMAIN Attached |-> EachWith(fc, port[Attached[i]].vec, m)])

(* A signal that a callback, a link or a view assigns after the write pass *)
(* has flushed it waits for its next edge, and is late until the refresh   *)
(* pass is over.  An observed signal of this edge is refreshed by that     *)
(* pass: it forgets what it was assigned in either pass and is not yet on  *)
(* its pin, and no longer owes it.                                         *)
WriteEdge ==
  /\ edge = "none"
  /\ \E e \in {"Rise", "Fall"} :
       /\ edge' = e
       /\ \E r \in {Run(Then(World, AllPorts("Flush", e)))} :
            /\ r.todo = <<>> /\ Become(r.world)
            /\ late' = {s \in r.world.late : ~Delivered(r.world, s)}
  /\ UNCHANGED <<port, calls, setups>>

Forgets(w, e) ==
  [w EXCEPT !.asked =
     [s \in Signals |-> IF /\ s \in w.late /\ w.sig[s].cbs # <<>> /\ w.sig[s].mode = e
                           /\ ~Delivered(w, s) THEN None ELSE @[s]]]
Driven(d) ==
  [World EXCEPT
     !.pin = [p \in Pins |-> IF p \in DevicePins THEN d[p] ELSE @[p]],
     !.foreign = @ \cup {s \in Signals : sig[s].wr.from = "pin" /\ sig[s].wr.pin \in DevicePins}]
ReadEdge ==
  /\ edge # "none" /\ edge' = "none"
  /\ \E d \in [DevicePins -> UNION {DeviceValues[p] : p \in DevicePins}] :
       /\ \A p \in DevicePins : d[p] \in DeviceValues[p]
       /\ \E r \in {Run(Then(Driven(d), AllPorts("Observe", edge)))} :
            r.todo = <<>> /\ Become(Forgets(r.world, edge))
  /\ late' = {} /\ UNCHANGED <<port, calls, setups>>

Next == \/ Assign \/ PinSet \/ Read \/ Refresh \/ Direct \/ Configure
        \/ PortCall \/ EditPort \/ PortConnect \/ WriteEdge \/ ReadEdge
Spec == Init /\ [][Next]_vars
-----------------------------------------------------------------------------
(* Every field keeps its range, and no signal is left marked busy.         *)
TypeOK ==
  /\ \A s \in Signals :
       /\ sig[s].local \in Vectors(s) /\ sig[s].shadow \in Vectors(s)
       /\ sig[s].last \in Vectors(s) \cup {None}
       /\ sig[s].io \in {"Input", "Output", "InOut"} /\ sig[s].mode \in {"Imme", "Rise", "Fall"}
       /\ ~sig[s].busy /\ sig[s].same \in BOOLEAN /\ sig[s].readonly \in BOOLEAN
       /\ sig[s].cbs \in Seq(Signals \cup {"user"})
       /\ asked[s] \in Vectors(s) \cup {None} /\ told[s] \in Vectors(s) \cup {None}
  /\ \A p \in Pins : pin[p] \in Storage(p)
  /\ port \in [Ports -> [list : SUBSET Names, vec : Seq(Signals)]]
  /\ foreign \subseteq Signals /\ late \subseteq Signals /\ edge \in {"none", "Rise", "Fall"}
  /\ calls \in 0 .. MaxCalls /\ setups \in 0 .. MaxSetup

(* The last value assigned to an input - by a call, a callback or a link,  *)
(* or through a view of some of its bits - is on its pin after the write   *)
(* pass of its edge, and at once when the signal writes immediately: no    *)
(* read or announcement, no edge before and no switch between the edges    *)
(* loses it.  What the code does give up is not owed: a value not yet on   *)
(* its pin when the user's own ReadFresh reads over it, when the signal is *)
(* turned to immediate mode or given a direction; any value of a signal    *)
(* rebound or re-initialised; and what a pass assigns to an observed       *)
(* signal after its flush (late), which the refresh of the edge reads      *)
(* over.  Other late values are due at the next edge.  Left out are the    *)
(* inputs whose pin was changed behind the same-write filter (foreign).    *)
Owing(s)  == /\ sig[s].io = "Input" /\ sig[s].wr.from = "pin" /\ sig[s].rd = sig[s].wr
             /\ asked[s] # None /\ s \notin foreign
Served(s) == \E p \in ToSet(Attached) : \E n \in port[p].list : Wire[n] = s
EdgeDelivers ==
  \A s \in Signals :
    Owing(s) /\ (sig[s].mode = "Imme" \/ (sig[s].mode = edge /\ Served(s) /\ s \notin late))
      => pin[sig[s].wr.pin] = Stored(sig[s].wr.pin, asked[s])

(* An observer always knows the current value: no path - assignment, bit   *)
(* or slice write, read, refresh, link, another observer's own calls -     *)
(* changes the cached value of an observed signal without calling it.  A   *)
(* fill and ReInit do, by design; so does what the user's callbacks make   *)
(* of a signal while its own callbacks run, which igore_callback drops:    *)
(* the observer is then excused until the signal is next announced.        *)
ObserverIsCurrent ==
  \A s \in Signals : "user" \in ToSet(sig[s].cbs) => told[s] \in {None, sig[s].local}

(* A change of a link's source that is announced and fully known is in the *)
(* target when the call returns, along chains and around cycles; an        *)
(* observed target may have been refreshed from its own pin after it, and  *)
(* one the user's callbacks assign too, itself or through a view (Meddled),*)
(* may hold what they assigned.                                            *)
Observed(s) == sig[s].cbs # <<>>
Targets(s)  == ToSet(sig[s].cbs) \ {"user"}
Sources(s)  == {t \in Signals : s \in Targets(t)}
Reacts  == [s \in Signals |-> {c.on : c \in UNION {ToSet(Reaction[s][v]) : v \in Vectors(s)}}]
Reacted == UNION {Reacts[s] : s \in {t \in Signals : "user" \in ToSet(sig[t].cbs)}}
Meddled == Reacted \cup {sig[t].rd.of : t \in Reacted \cap Views}
=============================================================================
