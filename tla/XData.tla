------------------------------- MODULE XData -------------------------------
(***************************************************************************)
(* XData (src/data/data.cpp, value.cpp, pin.cpp, backends.cpp): a signal   *)
(* object caches a four-state vector between the user and a pin of the     *)
(* device.  The world w of all signals is                                  *)
(*                                                                         *)
(*   w.sig      the private fields of each XData                           *)
(*   w.pin      what the device (or the native memory) holds at each pin   *)
(*   w.asked    the value last assigned to a signal and still owed to its  *)
(*              pin, None when nothing is owed (history, read by no code)  *)
(*   w.told     the value the user's OnChange callback last saw (history)  *)
(*   w.foreign  signals whose pin changed, since the last write they       *)
(*              recorded, by something else than such a write (history)    *)
(*   w.late     signals assigned since the pass of an edge began (history) *)
(*   w.within   signals in whose callbacks the user's own code has called  *)
(*              on signals (history)                                       *)
(*                                                                         *)
(* The members of XData call each other, on this signal and on parents,    *)
(* link targets and sources.  A machine is a world and the calls still to  *)
(* be made, the next one first: what is left of every member function on   *)
(* the C++ stack, from the innermost one out.  Each member is an operator  *)
(* that does its own work up to its first call and leaves the calls it     *)
(* makes; what it does after a call is a call of its own, to itself.       *)
(*                                                                         *)
(* A bit is 0, 1, 2 (Z) or 3 (X): the pair (bval, aval).  Bits above       *)
(* mWidth, which some writers send before _trunc_sv, are abstracted away.  *)
(***************************************************************************)
EXTENDS Integers, Sequences, SequencesExt

CONSTANTS
  Signals,     \* the XData objects
  Pins,        \* storage a backend binds to
  NativePins,  \* vector pins that are native memory: they keep aval only
  PinWidth,    \* [Pins -> Nat], bits of that storage
  mWidth,      \* [Signals -> Nat], 0 for a scalar (xsvLogic)
  None,        \* no value
  Reaction,    \* Reaction[s][v]: the calls the user's callback on s makes when told v
  MaxSteps     \* bound: calls that one call of the user leads to

ASSUME SignalAssumption ==
  /\ NativePins \subseteq Pins
  /\ mWidth \in [Signals -> Nat] /\ PinWidth \in [Pins -> Nat \ {0}]
  /\ "user" \notin Signals
  /\ MaxSteps \in Nat

Width(s)   == IF mWidth[s] = 0 THEN 1 ELSE mWidth[s]
Bits(s)    == 1 .. Width(s)
Vectors(s) == [Bits(s) -> 0 .. 3]
Vec(f)     == f \o <<>>      \* a function on 1 .. n, as the sequence it is
Zero(s)    == Vec([i \in Bits(s) |-> 0])
Unbound    == [from |-> "none"]
Valid(v)   == \A i \in DOMAIN v : v[i] < 2
Aval(v)    == Vec([i \in DOMAIN v |-> v[i] % 2])

Then(w, todo)      == [world |-> w, todo |-> todo]
Done(w)            == Then(w, <<>>)
Follow(r, rest)    == Then(r.world, r.todo \o rest)
Do(fc, s)          == [fc |-> fc, on |-> s]
DoWith(fc, s, arg) == [fc |-> fc, on |-> s, arg |-> arg]

(* What the user's callback may call: any read, and an assignment to what  *)
(* may be written (of the value that is left of it when it is made).       *)
UserCalls == {Do("UpdateRead", s) : s \in Signals}
             \cup UNION {{DoWith("Assign", s, v) : v \in Vectors(s)} : s \in Signals}
ASSUME ReactionAssumption ==
  \A s \in Signals : \A v \in Vectors(s) : Reaction[s][v] \in Seq(UserCalls)

(* XData(width, itype) and the fields it leaves to their initialisers.     *)
Fresh(s, io) ==
  [io |-> io, rd |-> Unbound, same |-> TRUE, wr |-> Unbound, last |-> None, cbs |-> <<>>,
   local |-> Zero(s), shadow |-> Zero(s), mode |-> "Rise", busy |-> FALSE, readonly |-> FALSE]

CheckWriteable(w, s) == ~w.sig[s].readonly /\ w.sig[s].io # "Output"

(* What a pin keeps of a vector, and what a read makes of the pin: native  *)
(* vectors carry aval only, and a read leaves the bval the object had.     *)
Stored(p, v)       == IF p \in NativePins THEN Aval(v) ELSE v
Fetched(p, now, v) == IF p \in NativePins
                      THEN Vec([i \in DOMAIN v |-> 2 * (now[i] \div 2) + v[i]])
                      ELSE v

SetLocal(w, s, v) == [w EXCEPT !.sig[s].local = Vec(v)]
-----------------------------------------------------------------------------
(* The body of bitRead or vecRead, by backend.  A view and an expression   *)
(* refresh what they read from, and a vector view announces on its own.    *)
(* What is read from a foreign pin replaces what was owed to it.           *)
Slice(v, at, n) == SubSeq(v, at + 1, at + n)
Fetch(w, s) ==
  LET rd == w.sig[s].rd IN
  Done(CASE rd.from = "none"  -> w
         [] rd.from = "pin"   -> [SetLocal(w, s, Fetched(rd.pin, w.sig[s].local, w.pin[rd.pin]))
                                   EXCEPT !.asked[s] = IF s \in w.foreign THEN None ELSE @]
         [] rd.from = "const" -> SetLocal(w, s, rd.value)
         [] rd.from = "expr"  -> SetLocal(w, s, Aval(w.sig[rd.of].local))
         [] rd.from = "view"  -> SetLocal(w, s, Slice(w.sig[rd.of].local, rd.at, Width(s))))
Load(w, s) ==
  LET rd == w.sig[s].rd
  IN  (IF rd.from \in {"expr", "view"} THEN <<Do("UpdateRead", rd.of)>> ELSE <<>>)
      \o <<Do("Fetch", s)>>
      \o (IF rd.from = "view" /\ mWidth[s] > 0 THEN <<Do("UpdateShadow", s)>> ELSE <<>>)

DpiReadAlways(w, s) == Load(w, s)      \* mutant: an Input is read like any other

(* _dpi_read: the value an Input still owes its pin is not overwritten.    *)
DpiRead(w, s) ==
  IF w.sig[s].io = "Input" /\ w.sig[s].mode # "Imme" THEN <<>> ELSE Load(w, s)

UpdateRead(w, s) == Then(w, DpiRead(w, s) \o <<Do("UpdateShadow", s)>>)

(* ReadFresh: at an edge, every Output and the signals of that edge.       *)
ReadFresh(w, s, m) ==
  Then(w, IF w.sig[s].io # "Output" /\ w.sig[s].mode # m /\ m # "Imme" THEN <<>>
          ELSE Load(w, s) \o <<Do("UpdateShadow", s)>>)
-----------------------------------------------------------------------------
(* Every assignment ends alike: the value is cached, written if the mode   *)
(* is immediate, and announced.  So does a write to a slice, in the parent.*)
Put(w, s, v) == [SetLocal(w, s, v) EXCEPT !.asked[s] = Vec(v), !.late = @ \cup {s}]
StoreUnannounced(w, s, v) == Then(Put(w, s, v), <<DoWith("Flush", s, "Imme")>>)   \* mutant
StoreValue(w, s, v) ==
  Then(Put(w, s, v), <<DoWith("Flush", s, "Imme"), Do("UpdateShadow", s)>>)

(* The body of bitWrite or vecWrite, by backend; flushed says whether      *)
(* _need_write let the value through, WriteDirect being the other caller.  *)
(* A view splices into its parent, which writes and announces in turn.     *)
Splice(old, at, v) == SubSeq(old, 1, at) \o v \o SubSeq(old, at + Len(v) + 1, Len(old))
WriteOut(w, s, flushed) ==
  LET wr == w.sig[s].wr
      v  == w.sig[s].local IN
  CASE wr.from = "none" -> Done(w)
    [] wr.from = "pin"  -> Done(
         [w EXCEPT
            !.pin[wr.pin] = Stored(wr.pin, v),
            !.foreign = (@ \ IF flushed THEN {s} ELSE {})
                        \cup {t \in Signals : /\ w.sig[t].wr = wr
                                              /\ t = s => ~flushed /\ w.sig[s].last # None}])
    [] wr.from = "view" ->
         Follow(StoreValue(w, wr.of, Splice(w.sig[wr.of].local, wr.at, v)),
                 IF mWidth[s] = 0 THEN <<>> ELSE <<Do("UpdateShadow", s)>>)

(* _need_write and the write it guards: the value is recorded whether or   *)
(* not a writer is bound, and never while same writes are not ignored.     *)
NeedWrite(w, s) == ~w.sig[s].same \/ w.sig[s].last # w.sig[s].local
Flush(w, s) ==
  IF ~NeedWrite(w, s) THEN Done(w)
  ELSE WriteOut(IF w.sig[s].same THEN [w EXCEPT !.sig[s].last = w.sig[s].local] ELSE w, s, TRUE)

(* _dpi_write, WriteOnRise and WriteOnFall: "Imme", "Rise" and "Fall".     *)
FlushIn(w, s, mode) ==
  IF w.sig[s].io = "Output" \/ w.sig[s].mode # mode THEN Done(w) ELSE Flush(w, s)
WriteDirect(w, s) == WriteOut(w, s, FALSE)

(* One registered callback: the user's, which is told the value and makes  *)
(* calls of its own, or a link, which copies a fully known value to its    *)
(* target and writes it on.                                                *)
Tell(w, s) ==
  LET reply == Reaction[s][w.sig[s].local]
  IN  Then([w EXCEPT !.told[s] = w.sig[s].local,
                     !.within = IF reply = <<>> THEN @ ELSE @ \cup {t \in Signals : w.sig[t].busy}],
           reply)
CallBack(w, s, valid, cb) ==
  IF cb = "user" THEN Tell(w, s)
  ELSE IF valid THEN StoreValue(w, cb, w.sig[s].local) ELSE Done(w)

(* While its callbacks run a signal ignores further calls of               *)
(* _update_shadow; Release is the end of the call, igore_callback = false. *)
(* What the user's code did to the signal meanwhile stays unannounced; the *)
(* history then says so: its observer is told nothing until the next call. *)
CallBacks(s, now, cbs) ==
  [i \in DOMAIN cbs |-> DoWith("CallBack", s, [valid |-> Valid(now), cb |-> cbs[i]])]
Mark(w, s) == [w EXCEPT !.sig[s] = [@ EXCEPT !.shadow = w.sig[s].local, !.busy = TRUE]]
UpdateShadowLocked(w, s) ==              \* mutant: igore_callback is not cleared
  IF w.sig[s].busy \/ w.sig[s].cbs = <<>> THEN Done(w)
  ELSE Then(Mark(w, s), IF w.sig[s].shadow = w.sig[s].local THEN <<>>
                        ELSE Vec(CallBacks(s, w.sig[s].local, w.sig[s].cbs)))
UpdateShadow(w, s) ==
  IF w.sig[s].busy \/ w.sig[s].cbs = <<>> THEN Done(w)
  ELSE Then(Mark(w, s), (IF w.sig[s].shadow = w.sig[s].local THEN <<>>
                         ELSE CallBacks(s, w.sig[s].local, w.sig[s].cbs)) \o <<Do("Release", s)>>)
Unheard(w, s) == s \in w.within /\ {w.told[s], w.sig[s].shadow} # {w.sig[s].local}
Release(w, s) ==
  Done([w EXCEPT !.sig[s].busy = FALSE, !.within = @ \ {s},
                 !.told[s] = IF Unheard(w, s) THEN None ELSE @])
-----------------------------------------------------------------------------
(* The assignments.  Each is used only where CheckWriteable holds: the     *)
(* code asserts it, and a failed Assert ends the process.                  *)

Number(s, n) ==           \* a scalar takes 0..3, a vector bits of n
  IF mWidth[s] = 0 THEN <<n>> ELSE [i \in Bits(s) |-> (n \div 2^(i - 1)) % 2]
AssignInt(w, s, n) == StoreValue(w, s, Number(s, n))     \* operator=(u_int64_t)
AssignData(w, s, t) == Then(w, <<Do("UpdateRead", t), DoWith("Copy", s, t)>>)
Copy(w, s, t) == StoreValue(w, s, w.sig[t].local)        \* operator=(XData &), widths equal
AssignText(w, s, v) ==    \* operator=(string), "0b.." and "0x..": any four-state vector
  StoreValue(w, s, v)
SetBits(w, s, new, mask) ==   \* masked bits take new, and bval is cleared in all of them
  StoreValue(w, s, [i \in Bits(s) |-> IF i \in mask THEN new[i] % 2 ELSE w.sig[s].local[i] % 2])
Invert(w, s) ==
  StoreValue(w, s, [i \in Bits(s) |-> IF mWidth[s] = 0 /\ w.sig[s].local[i] > 1 THEN 0
                                      ELSE 1 - (w.sig[s].local[i] % 2)])

(* operator=("x"), operator=("z") on a vector: the lowest bit of each word *)
(* is set and the call returns at once, nothing written nor announced.     *)
FillText(w, s, b) ==
  IF mWidth[s] = 0 THEN StoreValue(w, s, <<b>>)
  ELSE LET v == [Zero(s) EXCEPT ![1] = b]
       IN  Done([Put(w, s, v) EXCEPT !.told[s] = None,
                                     !.asked[s] = IF w.sig[s].mode = "Imme" THEN None ELSE v])

(* x[i] = b: operator[] refreshes, the PinBind sets one bit and calls its  *)
(* write_fc.  No writability check: an Output changes its own copy.        *)
SetPin(w, s, i, b) == Then(w, <<Do("UpdateRead", s), DoWith("SetBit", s, [at |-> i, to |-> b])>>)
SetBit(w, s, i, b) == StoreValue(w, s, [w.sig[s].local EXCEPT ![i] = b])

(* What withdraws an assignment.  Another backend and ReInit always do;    *)
(* the immediate mode, another direction and the user's ReadFresh do while *)
(* the value is not on the pin: none of them writes it, and the last reads *)
(* over it.  A value that is on its pin stays owed through these.          *)
Settle(w, s) == [w EXCEPT !.asked[s] = None]
Delivered(w, s) ==
  LET wr == w.sig[s].wr
  IN  /\ wr.from = "pin" /\ w.asked[s] # None /\ w.sig[s].local = w.asked[s]
      /\ w.pin[wr.pin] = Stored(wr.pin, w.asked[s])
Waive(w, s) == IF Delivered(w, s) THEN w ELSE Settle(w, s)
SetMode(w, s, m) == [w EXCEPT !.sig[s].mode = m]
SetWriteMode(w, s, m) == SetMode(IF m = "Imme" THEN Waive(w, s) ELSE w, s, m)
ImmSet(w, s, n) ==
  Follow(AssignInt(SetWriteMode(w, s, "Imme"), s, n), <<DoWith("SetMode", s, w.sig[s].mode)>>)
SetIO(w, s, io) == [Waive(w, s) EXCEPT !.sig[s].io = io]
FlipIOType(w, s) ==
  SetIO(w, s, CASE w.sig[s].io = "Input"  -> "Output"
                [] w.sig[s].io = "Output" -> "Input"
                [] OTHER -> "InOut")
SetIgnoreSame(w, s, b) ==   \* the last value recorded is kept, however old
  [w EXCEPT !.sig[s].same = b, !.foreign = IF ~b \/ w.sig[s].last = None THEN @ ELSE @ \cup {s}]

(* ReInit: value, filter and read-only flag are reset; mode, backend and   *)
(* callbacks stay, and nobody is told.  A scalar's shadow stays too.       *)
ReInit(w, s, io) ==
  [Settle(w, s) EXCEPT
     !.sig[s] = [@ EXCEPT !.local = Zero(s), !.io = io, !.last = None, !.readonly = FALSE,
                          !.shadow = IF mWidth[s] = 0 THEN w.sig[s].shadow ELSE Zero(s)],
     !.told[s] = None, !.foreign = @ \ {s}]
-----------------------------------------------------------------------------
(* Backends.  No Bind forgets the last value written.                      *)
Rebound(w, s) == [Settle(w, s) EXCEPT
                    !.foreign = IF w.sig[s].last = None THEN @ ELSE @ \cup {s}]
BindPin(w, s, p) ==       \* BindDPIPtr, BindDPIRW, BindNativeData
  LET b == [from |-> "pin", pin |-> p]
  IN  Then([Rebound(w, s) EXCEPT !.sig[s] = [@ EXCEPT !.rd = b, !.wr = b, !.readonly = FALSE]],
           <<Do("UpdateRead", s)>>)
BindMixFromUvs(w, s, p) ==  \* replaces the reader only, and does not read
  [Settle(w, s) EXCEPT !.sig[s].rd = [from |-> "pin", pin |-> p]]
BindReadonly(w, s, source) ==   \* BindConst, BindExpr
  Then([Rebound(w, s) EXCEPT
          !.sig[s] = [@ EXCEPT !.rd = source, !.wr = Unbound, !.readonly = TRUE, !.io = "Output"]],
       <<Do("UpdateRead", s)>>)
BindConst(w, s, v) == BindReadonly(w, s, [from |-> "const", value |-> v])
BindExpr(w, s, t)  == BindReadonly(w, s, [from |-> "expr", of |-> t])

(* SubDataRefRaw: s, a new object, becomes a view of p from bit at + 1 on, *)
(* written at once; a view of an Output has no writer.                     *)
SubDataRef(w, s, p, at) ==
  LET b    == [from |-> "view", of |-> p, at |-> at]
      view == [Fresh(s, w.sig[p].io) EXCEPT !.rd = b]
  IN  Then([Settle(w, s) EXCEPT !.sig[s] = IF w.sig[p].io = "Output" THEN view
                                           ELSE [view EXCEPT !.wr = b, !.mode = "Imme"]],
           <<Do("UpdateRead", s)>>)
-----------------------------------------------------------------------------
(* Observers.  The first one refreshes the signal before it is listed, so  *)
(* that it hears of later changes only.                                    *)
OnChange(w, s, cb) ==
  Then(w, (IF w.sig[s].cbs = <<>> THEN <<Do("UpdateRead", s)>> ELSE <<>>)
          \o <<DoWith("Listen", s, cb)>>)
Listen(w, s, cb) ==
  LET now    == w.sig[s]
      shadow == IF now.cbs = <<>> THEN now.local ELSE now.shadow
      x      == [w EXCEPT !.sig[s].cbs = Append(@, cb), !.sig[s].shadow = shadow]
  IN  Done(IF cb = "user" THEN [x EXCEPT !.told[s] = IF shadow = now.local THEN shadow ELSE None]
           ELSE x)
ClearOnChangeCbs(w, s) == [w EXCEPT !.sig[s].cbs = <<>>]

(* Connect: the driver is the side that may drive; two Inputs or two       *)
(* Outputs are refused.  The target takes the driver's value at once.      *)
Connectable(w, s, t) == w.sig[s].io # w.sig[t].io \/ w.sig[s].io = "InOut"
Drives(w, s, t) ==
  \/ w.sig[s].io = "Output"
  \/ w.sig[s].io = "InOut" /\ w.sig[t].io # "Output"
Linkable(w, s, t) ==      \* the assignment Connect starts with does not assert
  /\ s # t /\ mWidth[s] = mWidth[t]
  /\ Connectable(w, s, t) => CheckWriteable(w, IF Drives(w, s, t) THEN t ELSE s)
Link(w, from, to) ==      \* a_drive_b, after the assignment
  Then(w, <<Do("UpdateRead", from), DoWith("Copy", to, from), DoWith("OnChange", from, to)>>)
Connect(w, s, t) ==
  IF ~Connectable(w, s, t) THEN Done(w)
  ELSE IF Drives(w, s, t) THEN Link(w, s, t) ELSE Link(w, t, s)
-----------------------------------------------------------------------------
(* The next call, and the call of the user run to its end.                 *)
Perform(w, c) ==
  CASE c.fc = "UpdateRead"   -> UpdateRead(w, c.on)
    [] c.fc = "Fetch"        -> Fetch(w, c.on)
    [] c.fc = "Observe"      -> IF w.sig[c.on].cbs = <<>> THEN Done(w) ELSE ReadFresh(w, c.on, c.arg)
    [] c.fc = "Flush"        -> FlushIn(w, c.on, c.arg)
    [] c.fc = "UpdateShadow" -> UpdateShadow(w, c.on)
    [] c.fc = "CallBack"     -> CallBack(w, c.on, c.arg.valid, c.arg.cb)
    [] c.fc = "Release"      -> Release(w, c.on)
    [] c.fc = "Assign"       -> IF CheckWriteable(w, c.on) THEN StoreValue(w, c.on, c.arg) ELSE Done(w)
    [] c.fc = "Copy"         -> Copy(w, c.on, c.arg)
    [] c.fc = "SetBit"       -> SetBit(w, c.on, c.arg.at, c.arg.to)
    [] c.fc = "SetMode"      -> Done(SetMode(w, c.on, c.arg))
    [] c.fc = "OnChange"     -> OnChange(w, c.on, c.arg)
    [] c.fc = "Listen"       -> Listen(w, c.on, c.arg)
    [] c.fc = "Connect"      -> Connect(w, c.on, c.arg)
    [] c.fc = "FlipIOType"   -> Done(FlipIOType(w, c.on))
    [] c.fc = "AsBiIO"       -> Done(SetIO(w, c.on, "InOut"))
    [] c.fc = "AsWrite"      -> Done(IF w.sig[c.on].io = "Output" THEN w ELSE SetWriteMode(w, c.on, c.arg))
    [] c.fc = "SetZero"      -> IF w.sig[c.on].io = "Output" THEN Done(w) ELSE AssignInt(w, c.on, 0)

Advance(m) == IF m.todo = <<>> THEN m ELSE Follow(Perform(m.world, Head(m.todo)), Tail(m.todo))
Run(m) ==
  LET run[n \in 0 .. MaxSteps] == IF n = 0 THEN m ELSE Advance(run[n - 1]) IN run[MaxSteps]
=============================================================================
