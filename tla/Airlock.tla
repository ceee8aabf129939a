------------------------------- MODULE Airlock -------------------------------
(***************************************************************************)
(* What the door entry system (assignment1/) promises, without its         *)
(* commands, states or messages: a chamber with a door and a guard's lock   *)
(* on each side, that one person at a time crosses.  A person is identified *)
(* on one side, admitted through that side, weighed, shut in, and released  *)
(* through either side.  des_controller is shown to implement this.         *)
(***************************************************************************)

CONSTANT Sides        (* the sides of the chamber                          *)

VARIABLES unlocked,   (* the sides whose guard is unlocked                 *)
          open,       (* the sides whose door is open                      *)
          phase,      (* how far the crossing has got                      *)
          entry       (* the side waiting for its door to be opened first  *)

avars == <<unlocked, open, phase, entry>>

NoSide == "none"
Phases == {"idle", "identified", "weighed", "leaving"}

Init ==
  /\ unlocked = {} /\ open = {}
  /\ phase = "idle" /\ entry = NoSide

Identify(s) ==
  /\ phase = "idle"
  /\ phase' = "identified" /\ entry' = s
  /\ UNCHANGED <<unlocked, open>>

Admit(s) ==
  /\ phase = "identified" /\ entry = s /\ unlocked = {}
  /\ unlocked' = {s}
  /\ UNCHANGED <<open, phase, entry>>

Open(s) ==
  /\ unlocked = {s} /\ open = {}
  /\ \/ phase = "identified" /\ entry = s
     \/ phase = "leaving"
  /\ open' = {s} /\ entry' = NoSide
  /\ UNCHANGED <<unlocked, phase>>

Weigh ==
  /\ phase = "identified" /\ open # {}
  /\ phase' = "weighed"
  /\ UNCHANGED <<unlocked, open, entry>>

Close(s) ==
  /\ phase \in {"weighed", "leaving"} /\ open = {s}
  /\ open' = {}
  /\ UNCHANGED <<unlocked, phase, entry>>

(* Locking shuts the person in the first time and ends the crossing the     *)
(* second time.                                                             *)
Lock(s) ==
  /\ unlocked = {s} /\ open = {}
  /\ unlocked' = {}
  /\ \/ phase = "weighed" /\ phase' = "weighed"
     \/ phase = "leaving" /\ phase' = "idle"
  /\ UNCHANGED <<open, entry>>

Release(s) ==
  /\ phase = "weighed" /\ unlocked = {} /\ open = {}
  /\ unlocked' = {s} /\ phase' = "leaving"
  /\ UNCHANGED <<open, entry>>

Next ==
  \/ Weigh
  \/ \E s \in Sides : \/ Identify(s) \/ Admit(s) \/ Open(s)
                      \/ Close(s) \/ Lock(s) \/ Release(s)

Spec == Init /\ [][Next]_avars
=============================================================================
