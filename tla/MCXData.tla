------------------------------ MODULE MCXData ------------------------------
(***************************************************************************)
(* Small instances of XPort: a two-bit input on native memory, a view of   *)
(* its upper bit and an output the device drives; the output is linked to  *)
(* the input, or the input is observed. The output's pin starts unknown.   *)
(***************************************************************************)
EXTENDS XPort

CONSTANTS din, upper, dout, pd, pq, main, extra

MCWidth == (din :> 2) @@ (upper :> 1) @@ (dout :> 2)
MCIO    == (din :> "Input") @@ (upper :> "Input") @@ (dout :> "Output")
MCWire  == ("d" :> din) @@ ("u" :> upper) @@ ("q" :> dout)
MCPinWidth == (pd :> 2) @@ (pq :> 2)
MCPeer  == ("d" :> "q") @@ ("u" :> "u") @@ ("q" :> "d")
MCOrder == <<"d", "u", "q">>
MCPins  == (pd :> <<0, 0>>) @@ (pq :> <<0, 3>>)
MCAttached == <<main, extra>>
MCTexts  == {<<0, 3>>}
MCDevice == pq :> {<<1, 0>>}

(* The observer of dout assigns din; that of din, told 3, assigns the      *)
(* upper bit, then din itself; that of the upper bit assigns its parent.   *)
Told(s, v, reply) == [x \in Vectors(s) |-> IF x = v THEN reply ELSE <<>>]
MCReaction ==
  (din   :> Told(din, <<1, 1>>, <<DoWith("Assign", upper, <<0>>), DoWith("Assign", din, <<1, 0>>)>>))
  @@ (upper :> Told(upper, <<1>>, <<DoWith("Assign", din, <<1, 0>>)>>))
  @@ (dout  :> Told(dout, <<1, 0>>, <<Do("UpdateRead", din), DoWith("Assign", din, <<0, 1>>)>>))

(* f @@ <<>> is f: TLC then evaluates it at once.                          *)
Start == LET w == NewWorld(MCIO, MCPins)
         IN  [w EXCEPT !.sig = @ @@ <<>>, !.asked = @ @@ <<>>, !.told = @ @@ <<>>]

(* The program has constructed and bound its signals and filled its ports; *)
(* in Plain it has not yet made the view.  (The CHOOSE has one candidate:  *)
(* it makes TLC evaluate each call before the next.)                       *)
After(m) == CHOOSE w \in {Run(m).world} : TRUE
Bound  == After(BindPin(After(BindPin(Start, din, pd)), dout, pq))
Plain  == After(OnChange(After(OnChange(Bound, din, "user")), dout, "user"))
Viewed == After(SubDataRef(Bound, upper, din, 1))
Sliced == After(OnChange(SetWriteMode(Viewed, upper, "Rise"), din, "user"))
Linked == After(Connect(Viewed, dout, din))
MCPorts(own) == [p \in Ports |-> InPort(IF p = main THEN own ELSE {"q"})]
MCInit == \/ Begin(Plain, MCPorts({"d"}))
          \/ \E w \in {Sliced, Linked} : Begin(w, MCPorts({"d", "u"}))
MCSpec == MCInit /\ [][Next]_vars
=============================================================================
