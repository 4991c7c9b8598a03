----------------------------- MODULE FsmMonitor -----------------------------
(***************************************************************************)
(* The state machine monitor (src/monitor/fsm.cpp): it loads a program     *)
(* text, and each time its clock callback fires runs the actions of the    *)
(* current state and takes the first transition whose condition holds.     *)
(* Flags and counters are signals of its own, visible to conditions.       *)
(*                                                                         *)
(* A program is a sequence of lines [stmt, ...]; how lines are trimmed,    *)
(* split and matched without case is left out.  The condition of an if is  *)
(* the tokens in line.text.  A part that a line lacks is "".                *)
(***************************************************************************)
EXTENDS ExprParser

CONSTANTS
  FlagNames, CounterNames,   \* names that begin with $flag, $counter
  Programs,                  \* the programs the user loads
  Inputs,                    \* [input signals -> values]: what the device may drive
  MaxCycle                   \* bound: clock cycles

VARIABLES
  states,      \* [name, actions, transitions] in the order of the text
  start_state, current_state,   \* indexes of states, 0 for -1
  triggered,
  values,       \* flags and counters: [declared names -> value]
  nodes,       \* the engine's nodes
  cycle,       \* the cycle the callback passes
  cb_counts, stopped,   \* hits counted; whether the bound clocks were disabled
  loaded,      \* history: the program last loaded, <<>> after Clear
  log          \* history: the calls since then that did something

fsm  == <<states, start_state, current_state, triggered, values, nodes>>
vars == <<states, start_state, current_state, triggered, values, nodes, cycle,
          cb_counts, stopped, loaded, log>>
-----------------------------------------------------------------------------
(* LoadProgram as a fold over the lines: m is the monitor so far.          *)
Blank == [states |-> <<>>, first |-> "", declared |-> {}, nodes |-> <<>>, ok |-> TRUE]
Fail(m) == [m EXCEPT !.ok = FALSE]

AddState(m, name) ==
  IF name = "" \/ \E i \in DOMAIN m.states : m.states[i].name = name THEN Fail(m)
  ELSE [m EXCEPT !.states = Append(@, [name |-> name, actions |-> <<>>, transitions |-> <<>>])]
InState(m, field, item) ==
  IF m.states = <<>> THEN Fail(m)
  ELSE [m EXCEPT !.states[Len(m.states)] = [@ EXCEPT ![field] = Append(@, item)]]

Declare(m, names) == [m EXCEPT !.declared = @ \cup names]
AddAction(m, line) ==     \* set, clear, inc, reset
  IF line.var \notin (IF line.stmt \in {"set", "clear"} THEN FlagNames ELSE CounterNames)
  THEN Fail(m)
  ELSE InState(Declare(m, {line.var}), "actions", line)
AddTransition(m, root, line) ==
  IF line.how = "" THEN Fail(m)
  ELSE InState(m, "transitions", [root |-> root, trigger |-> line.how = "trigger", target |-> line.target])

(* An if names its flags and counters before its condition is compiled.    *)
Mentioned(text) == {text[i].text : i \in {j \in DOMAIN text : text[j].type = "Ident"}}
Special == FlagNames \cup CounterNames
AddCompiled(m, line, c) ==
  IF line.how = "" \/ line.text = <<>> \/ m.states = <<>> \/ ~c.ok THEN Fail(m)
  ELSE AddTransition([Declare(m, Mentioned(line.text) \cap Special) EXCEPT !.nodes = c.nodes],
                     c.root, line)
AddIf(m, line) == AddCompiled(m, line, CompileExpr(m.nodes, line.text))

Read(m, line) ==
  CASE ~m.ok -> m
    [] line.stmt = "start" -> IF line.name = "" THEN Fail(m) ELSE [m EXCEPT !.first = line.name]
    [] line.stmt = "state" -> AddState(m, line.name)
    [] line.stmt \in {"set", "clear", "inc", "reset"} -> AddAction(m, line)
    [] line.stmt = "if" -> AddIf(m, line)
    [] line.stmt \in {"else", "goto", "trigger"} -> AddTransition(m, 0, line)
    [] OTHER -> Fail(m)

(* The start state and the targets are looked up once all states exist.    *)
IndexOf(m, name) == LET found == {i \in DOMAIN m.states : m.states[i].name = name}
                    IN  IF found = {} THEN 0 ELSE CHOOSE i \in found : TRUE
StartOf(m) == IF m.first = "" THEN 1 ELSE IndexOf(m, m.first)
Resolves(m) == \A i \in DOMAIN m.states : \A k \in DOMAIN m.states[i].transitions :
                 LET t == m.states[i].transitions[k] IN t.trigger \/ IndexOf(m, t.target) # 0
Linked(m) == [i \in DOMAIN m.states |->
  [m.states[i] EXCEPT !.transitions =
     [k \in DOMAIN @ |-> [root |-> @[k].root, trigger |-> @[k].trigger, next |-> IndexOf(m, @[k].target)]]]]
Failed(m) == ~m.ok \/ m.states = <<>> \/ StartOf(m) = 0 \/ ~Resolves(m)
-----------------------------------------------------------------------------
Empty == /\ states = <<>> /\ start_state = 0 /\ current_state = 0 /\ triggered = FALSE
         /\ values = <<>> /\ nodes = <<>>
Init  == Empty /\ cycle = 0 /\ cb_counts = 0 /\ stopped = FALSE /\ loaded = <<>> /\ log = <<>>

Become(sts, first, vs, ns) ==
  /\ states' = sts /\ start_state' = first /\ current_state' = first /\ triggered' = FALSE
  /\ values' = vs /\ nodes' = ns
Zeroed(names) == [v \in names |-> 0]
Reset ==
  /\ Become(states, start_state, Zeroed(DOMAIN values), ResetState(nodes)) /\ log' = <<>>
  /\ UNCHANGED <<cycle, cb_counts, stopped, loaded>>

Cleared == Become(<<>>, 0, <<>>, <<>>)
Clear == Cleared /\ loaded' = <<>> /\ log' = <<>> /\ UNCHANGED <<cycle, cb_counts, stopped>>

Loads == [p \in Programs |-> FoldLeft(Read, Blank, p)]
LoadProgram ==
  \E p \in Programs :
    LET m == Loads[p] IN
    /\ loaded' = p /\ log' = <<>>
    /\ IF Failed(m) THEN Cleared
       ELSE Become(Linked(m), StartOf(m), Zeroed(m.declared), m.nodes)
    /\ UNCHANGED <<cycle, cb_counts, stopped>>

Act(vs, line) ==
  [vs EXCEPT ![line.var] =
     CASE line.stmt = "set" -> 1 [] line.stmt = "inc" -> (@ + 1) % Word [] OTHER -> 0]

(* The transitions from k on, with the engine as the earlier ones left it. *)
RECURSIVE Choose(_, _, _, _)
Choose(transitions, k, ns, env) ==
  IF k > Len(transitions) THEN [at |-> 0, nodes |-> ns]
  ELSE LET t == transitions[k]
           e == Eval(ns, t.root, cycle, env)
       IN  IF t.root = 0 THEN [at |-> k, nodes |-> ns]
           ELSE IF e.val # 0 THEN [at |-> k, nodes |-> e.nodes]
           ELSE Choose(transitions, k + 1, e.nodes, env)

Call ==
  \E input \in Inputs :
    /\ cycle < MaxCycle /\ cycle' = cycle + 1
    /\ IF triggered \/ current_state = 0
       THEN UNCHANGED <<fsm, cb_counts, stopped, log>>
       ELSE LET st     == states[current_state]
                after  == FoldLeft(Act, values, st.actions)
                env    == after @@ input
                c      == Choose(st.transitions, 1, nodes, env)
                hit    == c.at # 0 /\ st.transitions[c.at].trigger
            IN  /\ values' = after /\ nodes' = c.nodes
                /\ triggered' = hit
                /\ current_state' = IF c.at = 0 \/ hit THEN current_state
                                    ELSE st.transitions[c.at].next
                /\ cb_counts' = IF hit THEN cb_counts + 1 ELSE cb_counts
                /\ stopped' = (stopped \/ hit)
                /\ log' = Append(log, [cycle |-> cycle, env |-> env, at |-> st.name])
                /\ UNCHANGED <<states, start_state>>
    /\ UNCHANGED loaded

(* A cycle on which the callback is disabled.                              *)
Idle == cycle < MaxCycle /\ cycle' = cycle + 1 /\ UNCHANGED <<fsm, cb_counts, stopped, loaded, log>>

Next == LoadProgram \/ Reset \/ Clear \/ Call \/ Idle
Spec == Init /\ [][Next]_vars
=============================================================================
