------------------------------- MODULE Balance ------------------------------
(***************************************************************************)
(* One balance period after another: balance_set_cmd, balance_step of      *)
(* balance_ctrl.c and pid_step of pid.c, and the console lines balmode,    *)
(* lqr on and pid, whose receive interrupt resets the slewed references    *)
(* and the controllers between any load and store of the period.           *)
(*                                                                         *)
(* Numbers are scaled integers or NaN, which strtof and a MOTION payload   *)
(* can both deliver and which passes every comparison.  References and     *)
(* integrators are computed; measurements, and with them errors and        *)
(* torques, are abstracted to whether they are NaN.                        *)
(***************************************************************************)
EXTENDS Integers, Sequences

CONSTANTS
  NaN,              \* not a number
  Axes,             \* "vx", "wz"
  PidOrder,         \* the controllers in the order step_pid runs them
  Refs,             \* references a command can carry
  Limit,            \* APP_CFG_VX_MAX_MPS, APP_CFG_WZ_MAX_RADPS
  Step,             \* APP_CFG_AX_MAX_MPS2 * dt, APP_CFG_AWZ_MAX_RADPS2 * dt
  ILimit,           \* pid->i_limit
  Gain              \* bound of error * dt * ki

ASSUME AxesAssumption == Axes \subseteq {"vx", "wz"} /\ "vx" \in Axes
ASSUME PidAssumption ==
  PidOrder = IF "wz" \in Axes THEN <<"vel", "pitch", "yaw">> ELSE <<"vel", "pitch">>
ASSUME NumberAssumption ==
  /\ Limit \in Nat /\ Step \in Nat /\ ILimit \in Nat /\ Gain \in Nat
  /\ NaN \notin Int
  /\ Refs \subseteq Int \cup {NaN}

VARIABLES
  s_mode,           \* balance_ctrl.c: s_mode
  s_cmd,            \* balance_ctrl.c: s_cmd
  slew,             \* balance_ctrl.c: s_vx_slew, s_wz_slew
  integrator,       \* of each controller
  prev_err,         \* of each controller, and has_prev: "none", "fin" or "nan"
  bad_gains,        \* the controllers whose three gains are NaN
  pc,               \* where the period is
  next,             \* slew_toward's or clampf's result, not yet stored
  ref,              \* balance_step: vx and wz as used
  k,                \* which controller step_pid runs
  acc,              \* pid_step: the new integrator, not yet stored
  nan_out,          \* the controllers that returned NaN in this step
  out,              \* the torques: "zero", "fin" or "nan"
  base,             \* ghost: where the next reference may start from
  steps,            \* ghost: errors integrated since the last reset
  fed,              \* ghost: controllers that met NaN since the last reset
  torn              \* ghost: controllers whose last reset an update overtook

controllers == <<integrator, prev_err, bad_gains>>
locals == <<next, ref, k, acc, nan_out, out>>
ghosts == <<base, steps, fed, torn>>
vars == <<s_mode, s_cmd, slew, controllers, pc, locals, ghosts>>

Pids == {PidOrder[i] : i \in 1 .. Len(PidOrder)}
Number == Int \cup {NaN}
Upto(bound) == (-bound .. bound) \cup {NaN}
Modes == {"OFF", "LQR", "PID"}
Using == {"branch", "acc", "integrate", "output"}
Zero == [a \in Axes |-> 0]
Reset == [p \in Pids |-> 0]
NoPrev == [p \in Pids |-> "none"]

TypeOK ==
  /\ s_mode \in Modes
  /\ s_cmd.ref \in [Axes -> Refs \cup {0}]
  /\ s_cmd.brake \in BOOLEAN /\ s_cmd.enable \in BOOLEAN
  /\ slew \in [Axes -> Upto(Limit)]
  /\ integrator \in [Pids -> Upto(ILimit)]
  /\ prev_err \in [Pids -> {"none", "fin", "nan"}]
  /\ bad_gains \subseteq Pids
  /\ pc \in {"cmd", "gate", "enabled", "load", "store", "clamp", "put", "ref", "apply"}
             \cup Using
  /\ next \in [Axes -> Upto(Limit)]
  /\ ref \in [Axes -> Upto(Limit)]
  /\ k \in 1 .. Len(PidOrder)
  /\ acc \in Upto(ILimit + Gain)
  /\ nan_out \subseteq Pids
  /\ out \in {"zero", "fin", "nan"}
  /\ base \in [Axes -> SUBSET Upto(Limit)]
  /\ steps \in [Pids -> Nat]
  /\ fed \subseteq Pids
  /\ torn \subseteq Pids

(* balance_init *)
Init ==
  /\ s_mode = "LQR"
  /\ s_cmd = [ref |-> Zero, brake |-> FALSE, enable |-> FALSE]
  /\ slew = Zero
  /\ integrator = Reset
  /\ prev_err = NoPrev
  /\ bad_gains = {}
  /\ pc = "cmd"
  /\ next = Zero
  /\ ref = Zero
  /\ k = 1
  /\ acc = 0
  /\ nan_out = {}
  /\ out = "zero"
  /\ base = [a \in Axes |-> {0}]
  /\ steps = Reset
  /\ fed = {}
  /\ torn = {}

-----------------------------------------------------------------------------
(* No comparison with NaN holds: it passes every clamp, and as a target or *)
(* as the current value it makes the target the result.                    *)
Magnitude(x) == IF x < 0 THEN -x ELSE x

(* A slip: only the upper bound is enforced. *)
clamp_above(v, bound) == IF v # NaN /\ v > bound THEN bound ELSE v

clampf(v, bound) ==
  CASE v = NaN -> NaN
    [] v # NaN /\ v > bound -> bound
    [] v # NaN /\ v < -bound -> -bound
    [] OTHER -> v

(* A slip: written as a sum with a clamped error, which NaN never leaves. *)
slew_sum(cur, tgt) ==
  IF NaN \in {cur, tgt} THEN NaN ELSE cur + clampf(tgt - cur, Step)

(* A slip: an error of no more than a step is left alone. *)
slew_lazy(cur, tgt) ==
  CASE NaN \in {cur, tgt} -> tgt
    [] NaN \notin {cur, tgt} /\ tgt - cur > Step -> cur + Step
    [] NaN \notin {cur, tgt} /\ tgt - cur < -Step -> cur - Step
    [] OTHER -> cur

slew_toward(cur, tgt) ==
  CASE NaN \in {cur, tgt} -> tgt
    [] NaN \notin {cur, tgt} /\ tgt - cur > Step -> cur + Step
    [] NaN \notin {cur, tgt} /\ tgt - cur < -Step -> cur - Step
    [] OTHER -> tgt

(* The reference that the command asks for, inside the limits. *)
Target(a) == clampf(IF s_cmd.brake THEN 0 ELSE s_cmd.ref[a], Limit)

Goto(s) == pc' = s
SameCmd == UNCHANGED <<s_mode, s_cmd>>

-----------------------------------------------------------------------------
(* app_main: the command of this period, with zero for brake. *)
balance_set_cmd ==
  /\ pc = "cmd"
  /\ \E r \in [Axes -> Refs], brake, enable \in BOOLEAN :
       s_cmd' = [ref |-> IF brake THEN Zero ELSE r, brake |-> brake, enable |-> enable]
  /\ Goto("gate")
  /\ UNCHANGED <<s_mode, slew, controllers, locals, ghosts>>

(* app_main: no balance step unless enabled; nothing else is touched. *)
Gate ==
  /\ pc = "gate"
  /\ Goto(IF s_cmd.enable /\ s_mode # "OFF" THEN "enabled" ELSE "cmd")
  /\ SameCmd
  /\ UNCHANGED <<slew, controllers, locals, ghosts>>

(* balance_step clears its output and tests the mode again. *)
BalanceEnabled ==
  /\ pc = "enabled"
  /\ out' = "zero"
  /\ Goto(IF s_cmd.enable /\ s_mode # "OFF" THEN "load" ELSE "apply")
  /\ SameCmd
  /\ UNCHANGED <<slew, controllers, next, ref, k, acc, nan_out, ghosts>>

SlewLoad ==
  /\ pc = "load"
  /\ next' = [a \in Axes |-> slew_toward(slew[a], Target(a))]
  /\ Goto("store")
  /\ SameCmd
  /\ UNCHANGED <<slew, controllers, ref, k, acc, nan_out, out, ghosts>>

SlewStore ==
  /\ pc = "store"
  /\ slew' = next
  /\ Goto("clamp")
  /\ SameCmd
  /\ UNCHANGED <<controllers, locals, ghosts>>

(* clamp_cmd on the stored references: once more a load, *)
ClampLoad ==
  /\ pc = "clamp"
  /\ next' = [a \in Axes |-> clampf(slew[a], Limit)]
  /\ Goto("put")
  /\ SameCmd
  /\ UNCHANGED <<slew, controllers, ref, k, acc, nan_out, out, ghosts>>

(* and a store. *)
ClampStore ==
  /\ pc = "put"
  /\ slew' = next
  /\ next' = Zero
  /\ Goto("ref")
  /\ SameCmd
  /\ UNCHANGED <<controllers, ref, k, acc, nan_out, out, ghosts>>

UseRef ==
  /\ pc = "ref"
  /\ ref' = slew
  /\ base' = [a \in Axes |-> {slew[a]}]
  /\ Goto("branch")
  /\ SameCmd
  /\ UNCHANGED <<slew, controllers, next, k, acc, nan_out, out, steps, fed, torn>>

(* Any mode but PID, one that has just become OFF included, takes the LQR. *)
step_lqr ==
  /\ pc = "branch"
  /\ s_mode # "PID"
  /\ out' = IF \E a \in Axes : ref[a] = NaN THEN "nan" ELSE "fin"
  /\ Goto("apply")
  /\ SameCmd
  /\ UNCHANGED <<slew, controllers, next, ref, k, acc, nan_out, ghosts>>

step_pid ==
  /\ pc = "branch"
  /\ s_mode = "PID"
  /\ k' = 1
  /\ nan_out' = {}
  /\ Goto("acc")
  /\ SameCmd
  /\ UNCHANGED <<slew, controllers, next, ref, acc, out, ghosts>>

-----------------------------------------------------------------------------
(* pid_step of the k-th controller. *)
This == PidOrder[k]

(* Its error is NaN: from the reference, or from the controller before it. *)
ErrorIsNaN ==
  CASE This = "vel" -> ref["vx"] = NaN
    [] This = "pitch" -> "vel" \in nan_out
    [] This = "yaw" -> ref["wz"] = NaN

MeetsNaN == ErrorIsNaN \/ This \in bad_gains

(* Load the integrator and ki. *)
PidLoad ==
  /\ pc = "acc"
  /\ \/ /\ MeetsNaN \/ integrator[This] = NaN
        /\ acc' = NaN
     \/ /\ ~MeetsNaN /\ integrator[This] # NaN
        /\ \E d \in -Gain .. Gain : acc' = integrator[This] + d
  /\ fed' = IF MeetsNaN THEN fed \cup {This} ELSE fed
  /\ Goto("integrate")
  /\ SameCmd
  /\ UNCHANGED <<slew, controllers, next, ref, k, nan_out, out, base, steps, torn>>

(* Store it, clamped. *)
PidStore ==
  /\ pc = "integrate"
  /\ integrator' = [integrator EXCEPT ![This] = clampf(acc, ILimit)]
  /\ acc' = 0
  /\ steps' = [steps EXCEPT ![This] = IF @ * Gain > ILimit THEN @ ELSE @ + 1]
  /\ Goto("output")
  /\ SameCmd
  /\ UNCHANGED <<slew, prev_err, bad_gains, next, ref, k, nan_out, out, base, fed, torn>>

(* The derivative, prev_err, and the output from what the integrator is by now. *)
PidOutput ==
  /\ pc = "output"
  /\ LET nan == MeetsNaN \/ integrator[This] = NaN \/ prev_err[This] = "nan"
         outs == IF nan THEN nan_out \cup {This} ELSE nan_out
     IN \/ /\ k < Len(PidOrder)
           /\ k' = k + 1
           /\ nan_out' = outs
           /\ Goto("acc")
           /\ UNCHANGED out
        \/ /\ k = Len(PidOrder)
           /\ k' = 1
           /\ nan_out' = {}
           /\ out' = IF {"pitch", "yaw"} \cap outs # {} THEN "nan" ELSE "fin"
           /\ Goto("apply")
  /\ prev_err' = [prev_err EXCEPT ![This] = IF ErrorIsNaN THEN "nan" ELSE "fin"]
  /\ fed' = IF MeetsNaN THEN fed \cup {This} ELSE fed
  /\ SameCmd
  /\ UNCHANGED <<slew, integrator, bad_gains, next, ref, acc, base, steps, torn>>

(* apply_balance_output, and the end of the period. *)
Apply ==
  /\ pc = "apply"
  /\ Goto("cmd")
  /\ SameCmd
  /\ UNCHANGED <<slew, controllers, locals, ghosts>>

-----------------------------------------------------------------------------
(* A slip: the derivatives are forgotten and the integrators are not. *)
reset_prev_only ==
  /\ prev_err' = NoPrev
  /\ steps' = Reset
  /\ fed' = {}
  /\ torn' = {}
  /\ UNCHANGED integrator

(* A reset between a load of an integrator and its store is overtaken. *)
balance_pid_reset ==
  /\ integrator' = Reset
  /\ prev_err' = NoPrev
  /\ steps' = Reset
  /\ fed' = {}
  /\ torn' = IF pc = "integrate" THEN {This} ELSE {}

(* A slip: the references keep their values across a change of the mode. *)
KeepSlew ==
  /\ base' = [a \in Axes |-> {0}]
  /\ UNCHANGED slew

(* Between their load and their last store the old values may survive. *)
ResetSlew ==
  /\ slew' = Zero
  /\ base' = [a \in Axes |-> IF pc \in {"store", "put"} THEN base[a] \cup {0} ELSE {0}]

(* balmode, and lqr on when the mode is OFF. *)
balance_set_mode ==
  /\ s_mode' \in Modes
  /\ ResetSlew
  /\ balance_pid_reset
  /\ UNCHANGED <<s_cmd, bad_gains, pc, locals>>

(* pid <controller> <kp> <ki> <kd>: numbers, or NaN all three. *)
PidLine ==
  /\ \E p \in Pids : bad_gains' \in {bad_gains \cup {p}, bad_gains \ {p}}
  /\ balance_pid_reset
  /\ UNCHANGED <<s_mode, s_cmd, slew, pc, locals, base>>

-----------------------------------------------------------------------------
Slewing == SlewLoad \/ SlewStore \/ ClampLoad \/ ClampStore \/ UseRef
Controllers == PidLoad \/ PidStore \/ PidOutput
Period ==
  \/ balance_set_cmd \/ Gate \/ BalanceEnabled
  \/ Slewing \/ step_lqr \/ step_pid \/ Controllers \/ Apply

Next == Period \/ balance_set_mode \/ PidLine

Spec == Init /\ [][Next]_vars /\ WF_vars(Period)

-----------------------------------------------------------------------------
(* The reference a period uses is at most one step of the slope limit from *)
(* the last one used, however long ago that was, or from zero when the     *)
(* mode was set since, although setting it interrupts the update; only NaN *)
(* lets the reference jump, when it comes and when it goes.                *)
SlopeIsLimited ==
  [][pc = "ref" /\ pc' = "branch" =>
       \A a \in Axes :
         \/ NaN \in base[a] \cup {ref'[a]}
         \/ \E b \in base[a] : Magnitude(ref'[a] - b) <= Step]_vars

(* NaN stays only where its cause is still in force.  The reference in use *)
(* is NaN only if the command of this very period is, and a controller     *)
(* holds NaN only if it met one since its last reset, or an update that    *)
(* had read the old integrator overtook that reset.                        *)
NaNHasACause ==
  /\ pc \in Using => \A a \in Axes : ref[a] = NaN => s_cmd.ref[a] = NaN
  /\ \A p \in Pids : integrator[p] = NaN \/ prev_err[p] = "nan" => p \in fed \cup torn

(* A reset really forgets: an integrator holds no more than the errors     *)
(* since the last reset can have brought, unless an update overtook it.    *)
WindupIsRecent ==
  \A p \in Pids \ torn :
    integrator[p] # NaN => Magnitude(integrator[p]) <= steps[p] * Gain

(* A brake that stays in force while the robot balances brings the used    *)
(* reference to zero, through modes, resets and an earlier NaN.            *)
BrakeStops ==
  <>[](s_cmd.brake /\ s_cmd.enable /\ s_mode # "OFF")
    => <>[](\A a \in Axes : ref[a] = 0)
=============================================================================
