---------------------------- MODULE StepCallback ----------------------------
(***************************************************************************)
(* A monitor as a callback of clocks (src/monitor/callback.cpp): on which  *)
(* edges it is registered, whether it is enabled, and the count of hits    *)
(* that disables it.  A clock object may be destroyed and another one be   *)
(* created at its address: lives[c] counts them.                           *)
(*                                                                         *)
(* Of a clock (see XClock) only this is kept: whether it is enabled, and   *)
(* how many callbacks of this monitor are in its lists.                    *)
(***************************************************************************)
EXTENDS Integers

CONSTANTS
  Clocks,     \* addresses of clocks
  Quotas,     \* values of SetMaxCbs
  MaxLives,   \* bound: clocks created at one address
  MaxCount    \* bound: hits counted

ASSUME BoundsAssumption == Quotas \subseteq Int /\ MaxLives \in Nat /\ MaxCount \in Nat

VARIABLES
  cb_enable, cb_counts, cb_maxcts,
  registrations,   \* of this monitor: [clock, life, edge]
  lives,
  hooks,           \* [Clocks \X Edges -> Nat]: callbacks of this monitor
  running,         \* the clocks that are enabled
  wanted,          \* history: the edges the user asked to be called on
  cleared,         \* history: where the user cleared all callbacks while this one was registered
  pardoned         \* history: the user, or an exception, let the monitor pass its quota

counting == <<cb_enable, cb_counts, cb_maxcts, pardoned>>
attaching == <<registrations, lives, hooks, wanted, cleared>>
callbackVars == <<counting, attaching, running>>

Edges == {"rise", "fall"}
Places == Clocks \X Edges
Live(r) == r.life = lives[r.clock]

CallbackTypeOK ==
  /\ cb_enable \in BOOLEAN /\ cb_counts \in Int /\ cb_maxcts \in Int /\ pardoned \in BOOLEAN
  /\ registrations \subseteq [clock : Clocks, life : Nat, edge : Edges]
  /\ lives \in [Clocks -> Nat] /\ hooks \in [Places -> Nat]
  /\ running \subseteq Clocks /\ wanted \subseteq Places /\ cleared \subseteq Places

CallbackInit ==
  /\ cb_enable = TRUE /\ cb_counts = 0 /\ cb_maxcts = -1 /\ pardoned = FALSE
  /\ registrations = {} /\ lives = [c \in Clocks |-> 1] /\ hooks = [p \in Places |-> 0]
  /\ running = Clocks /\ wanted = {} /\ cleared = {}
-----------------------------------------------------------------------------
(* Attach looks for a registration with the clock at this address and edge *)
(* whose clock still exists.                                               *)
KnownByAddress(c, e) == \E r \in registrations : r.clock = c /\ r.edge = e   \* mutant
Known(c, e) == \E r \in registrations : r.clock = c /\ r.edge = e /\ Live(r)
Attach(c, e) ==
  /\ wanted' = wanted \cup {<<c, e>>}
  /\ IF Known(c, e) THEN UNCHANGED <<registrations, hooks>>
     ELSE /\ registrations' = registrations \cup {[clock |-> c, life |-> lives[c], edge |-> e]}
          /\ hooks' = [hooks EXCEPT ![<<c, e>>] = @ + 1]
  /\ UNCHANGED <<counting, lives, running, cleared>>

(* Detach, and the destructor: callbacks are removed by their description, *)
(* which names the monitor.                                                *)
Detach ==
  /\ hooks' = [p \in Places |->
                 IF \E r \in registrations : Live(r) /\ p = <<r.clock, r.edge>> THEN 0 ELSE hooks[p]]
  /\ registrations' = {} /\ wanted' = {} /\ cleared' = {}
  /\ UNCHANGED <<counting, lives, running>>

(* ClearRisCallBacks and ClearFalCallBacks of the clock.                   *)
ClearCallBacks(c, e) ==
  /\ hooks' = [hooks EXCEPT ![<<c, e>>] = 0]
  /\ cleared' = IF Known(c, e) THEN cleared \cup {<<c, e>>} ELSE cleared
  /\ UNCHANGED <<counting, registrations, lives, running, wanted>>

(* A clock is destroyed and a new one takes its address.                   *)
ReplaceClock(c) ==
  /\ lives[c] < MaxLives
  /\ lives' = [lives EXCEPT ![c] = @ + 1]
  /\ hooks' = [p \in Places |-> IF p[1] = c THEN 0 ELSE hooks[p]]
  /\ running' = running \cup {c}
  /\ wanted' = {p \in wanted : p[1] # c} /\ cleared' = {p \in cleared : p[1] # c}
  /\ UNCHANGED <<counting, registrations>>
-----------------------------------------------------------------------------
EnableClock(c) == running' = running \cup {c} /\ UNCHANGED <<counting, attaching>>

Counts(enable, count, quota, pardon) ==
  /\ cb_enable' = enable /\ cb_counts' = count /\ cb_maxcts' = quota /\ pardoned' = pardon
  /\ UNCHANGED <<attaching, running>>
Enable     == Counts(TRUE, cb_counts, cb_maxcts, TRUE)
Disable    == Counts(FALSE, cb_counts, cb_maxcts, pardoned)
Reset      == Counts(TRUE, 0, cb_maxcts, FALSE)
SetMaxCbs  == \E q \in Quotas : Counts(cb_enable, cb_counts, q, TRUE)
IncCbCount == cb_counts < MaxCount /\ Counts(cb_enable, cb_counts + 1, cb_maxcts, TRUE)
DecCbCount == cb_counts > 0 /\ Counts(cb_enable, cb_counts - 1, cb_maxcts, pardoned)

UserCall ==
  \/ \E c \in Clocks, e \in Edges : Attach(c, e) \/ ClearCallBacks(c, e)
  \/ Detach \/ Enable \/ Disable \/ Reset \/ SetMaxCbs \/ IncCbCount \/ DecCbCount
  \/ \E c \in Clocks : EnableClock(c)

(* Cb, where Call counted hit and disabled the clocks stopped, or threw    *)
(* after that.                                                             *)
QuotaPassed(count) == cb_maxcts > 0 /\ count > cb_maxcts       \* mutant
QuotaReached(count) == cb_maxcts > 0 /\ count >= cb_maxcts
Cb(c, e, hit, stopped, throws) ==
  LET count == IF hit THEN cb_counts + 1 ELSE cb_counts IN
  /\ c \in running /\ hooks[<<c, e>>] > 0 /\ cb_enable /\ count <= MaxCount
  /\ cb_counts' = count
  /\ cb_enable' = (throws \/ ~QuotaReached(count))
  /\ pardoned' = throws
  /\ running' = IF hit THEN running \ stopped ELSE running
  /\ UNCHANGED <<attaching, cb_maxcts>>
-----------------------------------------------------------------------------
(* The monitor is called exactly once on each edge the user attached it    *)
(* to since the last Detach, and on no other: a registration with a clock  *)
(* that no longer exists does not keep Attach from registering with the    *)
(* clock now at its address, attaching twice does not add a callback, and  *)
(* Detach leaves none behind (Attach and Detach of callback.cpp).  The     *)
(* exception is a list the user cleared: there Attach does nothing.        *)
CalledOncePerEdge == \A p \in Places : hooks[p] = IF p \in wanted \ cleared THEN 1 ELSE 0

(* A monitor that has used up its quota of hits is disabled, unless since  *)
(* its last call the user enabled it, set the quota or the count, or that  *)
(* call threw (Cb of callback.cpp checks the quota only after Call).       *)
QuotaHolds == cb_enable /\ cb_maxcts > 0 => cb_counts < cb_maxcts \/ pardoned
=============================================================================
