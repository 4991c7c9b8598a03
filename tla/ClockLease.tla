----------------------------- MODULE ClockLease -----------------------------
(***************************************************************************)
(* What drive_control promises (include/xspcomm/xclock.h,                  *)
(* src/core/clock.cpp, src/runtime/engine.cpp): simulated time has one     *)
(* driver at a time.  While an engine holds the lease only it may drive;   *)
(* manual calls drive a free clock; the lease does not change hands while  *)
(* anybody drives.                                                         *)
(***************************************************************************)
CONSTANTS Engines, Nobody, Manual

VARIABLES
  holder,    (* The engine that holds the lease, or Nobody.                *)
  driving    (* Who is inside a half step: an engine, Manual or Nobody.    *)

lease == <<holder, driving>>

Init == holder = Nobody /\ driving = Nobody

Grant(e) ==
  /\ holder = Nobody /\ driving = Nobody
  /\ holder' = e
  /\ UNCHANGED driving

Return(e) ==
  /\ holder = e /\ driving = Nobody
  /\ holder' = Nobody
  /\ UNCHANGED driving

Drive(e) ==
  /\ holder = e /\ driving = Nobody
  /\ driving' = e
  /\ UNCHANGED holder

DriveManually ==
  /\ holder = Nobody /\ driving = Nobody
  /\ driving' = Manual
  /\ UNCHANGED holder

(* A drive ends by returning or by an exception.                           *)
Rest ==
  /\ driving # Nobody
  /\ driving' = Nobody
  /\ UNCHANGED holder

Next ==
  \/ \E e \in Engines : Grant(e) \/ Return(e) \/ Drive(e)
  \/ DriveManually \/ Rest

Spec == Init /\ [][Next]_lease

(* Whoever drives is entitled to.                                          *)
DriverIsEntitled ==
  /\ driving \in Engines => holder = driving
  /\ driving = Manual => holder = Nobody
=============================================================================
