----------------------------- MODULE MotionOwner -----------------------------
(***************************************************************************)
(* What the command arbiter promises, seen from the robot: who owns the    *)
(* motion, and whether it may move.  A source takes the motion from its    *)
(* equals and its inferiors only; an emergency stop takes it from anyone;  *)
(* and a silent remote owner's motion is taken away, which ends with the   *)
(* robot held, unless a command comes in between.                          *)
(***************************************************************************)
VARIABLES
  owner,            \* the source that owns the motion, or NONE
  robot,            \* free to move, held still, or stopped by an estop
  expiry            \* none; under way and due to hold; or torn by a command

vars == <<owner, robot, expiry>>

Remote == {"AI", "RC"}

(* From whom a source may take the motion. *)
Yields ==
  [CONSOLE |-> {"CONSOLE", "AI", "RC", "NONE"},
   AI |-> {"AI", "RC", "NONE"},
   RC |-> {"RC", "NONE"}]

Init ==
  /\ owner \in {"CONSOLE", "NONE"}
  /\ robot = "free"
  /\ expiry = "none"

(* A command during an expiry tears it. *)
Store(src) ==
  /\ owner' = src
  /\ expiry' = IF expiry = "none" THEN "none" ELSE "torn"

Take(src) ==
  /\ owner \in Yields[src]
  /\ robot' \in {"free", "held"}
  /\ Store(src)

(* The RC receiver has no emergency stop. *)
Stop(src) == robot' = "stopped" /\ Store(src)

(* A remote owner has been silent too long. *)
Notice ==
  /\ expiry = "none"
  /\ owner \in Remote
  /\ expiry' = "due"
  /\ UNCHANGED <<owner, robot>>

(* While it is taken away, the motion only comes to rest. *)
Settle ==
  /\ expiry # "none"
  /\ robot = "free" /\ robot' = "held"
  /\ UNCHANGED <<owner, expiry>>

Release ==
  /\ expiry # "none"
  /\ expiry = "due" => robot # "free"
  /\ owner' = "NONE"
  /\ expiry' = "none"
  /\ UNCHANGED robot

Next ==
  \/ \E src \in {"CONSOLE", "AI", "RC"} : Take(src)
  \/ \E src \in {"CONSOLE", "AI"} : Stop(src)
  \/ Notice \/ Settle \/ Release

Spec == Init /\ [][Next]_vars
=============================================================================
