--------------------------- MODULE BalanceProofs ----------------------------
(***************************************************************************)
(* Theorems about Balance, for both axes and every limit, slope and gain:  *)
(* types, the slope limit of the references, what NaN outlives, and what a *)
(* controller remembers.                                                   *)
(***************************************************************************)
EXTENDS Balance, TLAPS

(* One step of the slope limit at most from one of the values in B. *)
Near(x, B) == NaN \in B \cup {x} \/ \E b \in B : Magnitude(x - b) <= Step

(* Where a reference may be while it is updated: at rest it is what the    *)
(* next one starts from, later it is already the next one.                 *)
SlopeInv ==
  \A a \in Axes :
    /\ pc \notin {"clamp", "put", "ref"} => slew[a] \in base[a]
    /\ pc \in {"clamp", "put", "ref"} => Near(slew[a], base[a])
    /\ pc \in {"store", "put"} => Near(next[a], base[a])

(* A NaN reference on its way comes from this period's command. *)
NaNRefInv ==
  \A a \in Axes :
    /\ pc \in {"store", "put"} /\ next[a] = NaN => s_cmd.ref[a] = NaN
    /\ pc \in {"clamp", "put", "ref"} /\ slew[a] = NaN => s_cmd.ref[a] = NaN
    /\ pc \in Using /\ ref[a] = NaN => s_cmd.ref[a] = NaN

(* A NaN in a controller has been met since its last reset, or was torn. *)
NaNPidInv ==
  /\ \A p \in Pids : integrator[p] = NaN \/ prev_err[p] = "nan" => p \in fed \cup torn
  /\ pc = "integrate" /\ acc = NaN => This \in fed \cup torn

(* The value about to be stored belongs to one more error. *)
WindupInv ==
  /\ WindupIsRecent
  /\ pc = "integrate" /\ This \notin torn /\ acc # NaN
       => Magnitude(acc) <= (steps[This] + 1) * Gain

-----------------------------------------------------------------------------
(* Where the arithmetic of the code leads. *)
LEMMA NumberFacts == NaN \notin Int /\ 0 \in Upto(Limit) /\ 0 \in Upto(ILimit + Gain)
BY NumberAssumption DEF Upto

LEMMA ClampRange ==
  ASSUME NEW bound \in Nat, NEW v \in Number
  PROVE  /\ clampf(v, bound) \in Upto(bound)
         /\ clampf(v, bound) = NaN <=> v = NaN
         /\ v \in Upto(bound) => clampf(v, bound) = v
BY NumberAssumption DEF clampf, Upto, Number

LEMMA ClampShrinks ==
  ASSUME NEW bound \in Nat, NEW v \in Int
  PROVE  /\ clampf(v, bound) \in Int
         /\ Magnitude(clampf(v, bound)) <= Magnitude(v)
         /\ Magnitude(clampf(v, bound)) <= bound
BY NumberAssumption DEF clampf, Magnitude

LEMMA SlewRange ==
  ASSUME NEW cur \in Upto(Limit), NEW tgt \in Upto(Limit)
  PROVE  /\ slew_toward(cur, tgt) \in Upto(Limit)
         /\ slew_toward(cur, tgt) = NaN => tgt = NaN
         /\ NaN \notin {cur, slew_toward(cur, tgt)} => Magnitude(slew_toward(cur, tgt) - cur) <= Step
BY NumberAssumption DEF slew_toward, Upto, Magnitude

LEMMA TargetRange ==
  ASSUME TypeOK, NEW a \in Axes
  PROVE  /\ Target(a) \in Upto(Limit)
         /\ Target(a) = NaN => s_cmd.ref[a] = NaN
<1> DEFINE asked == IF s_cmd.brake THEN 0 ELSE s_cmd.ref[a]
<1>1. asked \in Number
  <2>1. s_cmd.ref[a] \in Refs \cup {0} /\ s_cmd.brake \in BOOLEAN
    BY DEF TypeOK
  <2>2. Refs \cup {0} \subseteq Number
    <3>1. Refs \subseteq Number
      BY NumberAssumption DEF Number
    <3>2. 0 \in Number
      BY DEF Number
    <3> QED
      BY <3>1, <3>2
  <2> QED
    BY <2>1, <2>2
<1>2. Target(a) = clampf(asked, Limit)
  BY DEF Target
<1>3. asked = NaN => s_cmd.ref[a] = NaN
  BY NumberAssumption
<1> QED
  BY <1>1, <1>2, <1>3, ClampRange, NumberAssumption

LEMMA ThisIsAPid == ASSUME TypeOK PROVE This \in Pids
BY DEF TypeOK, This, Pids

-----------------------------------------------------------------------------
LEMMA InitType == Init => TypeOK
BY NumberFacts, PidAssumption, NumberAssumption
DEF Init, TypeOK, Modes, Zero, Reset, NoPrev, Upto, Using

LEMMA NextType == TypeOK /\ [Next]_vars => TypeOK'
<1> SUFFICES ASSUME TypeOK, [Next]_vars PROVE TypeOK'
  OBVIOUS
<1> USE DEF TypeOK
<1>1. CASE balance_set_cmd
  BY <1>1 DEF balance_set_cmd, Goto, controllers, locals, ghosts, Zero
<1>2. CASE Gate
  BY <1>2 DEF Gate, Goto, SameCmd, controllers, locals, ghosts
<1>3. CASE BalanceEnabled
  BY <1>3 DEF BalanceEnabled, Goto, SameCmd, controllers, ghosts
<1>4. CASE SlewLoad
  <2>1. next' \in [Axes -> Upto(Limit)]
    BY <1>4, SlewRange, TargetRange DEF SlewLoad
  <2> QED
    BY <1>4, <2>1 DEF SlewLoad, Goto, SameCmd, controllers, ghosts
<1>5. CASE SlewStore
  BY <1>5 DEF SlewStore, Goto, SameCmd, controllers, locals, ghosts
<1>6. CASE ClampLoad
  <2>1. next' \in [Axes -> Upto(Limit)]
    BY <1>6, ClampRange, NumberAssumption DEF ClampLoad, Upto, Number
  <2> QED
    BY <1>6, <2>1 DEF ClampLoad, Goto, SameCmd, controllers, ghosts
<1>7. CASE ClampStore
  BY <1>7, NumberFacts DEF ClampStore, Goto, SameCmd, controllers, ghosts, Zero
<1>8. CASE UseRef
  BY <1>8 DEF UseRef, Goto, SameCmd, controllers, Using
<1>9. CASE step_lqr
  BY <1>9 DEF step_lqr, Goto, SameCmd, controllers, ghosts
<1>10. CASE step_pid
  BY <1>10, PidAssumption DEF step_pid, Goto, SameCmd, controllers, ghosts, Using
<1>11. CASE PidLoad
  <2>1. acc' \in Upto(ILimit + Gain)
    BY <1>11, ThisIsAPid, NumberAssumption DEF PidLoad, Upto
  <2> QED
    BY <1>11, <2>1, ThisIsAPid DEF PidLoad, Goto, SameCmd, controllers, Using
<1>12. CASE PidStore
  <2>1. clampf(acc, ILimit) \in Upto(ILimit)
    BY ClampRange, NumberAssumption DEF Upto, Number
  <2> QED
    BY <1>12, <2>1, ThisIsAPid, NumberFacts DEF PidStore, Goto, SameCmd, Using
<1>13. CASE PidOutput
  <2>1. nan_out' \subseteq Pids /\ fed' \subseteq Pids /\ k' \in 1 .. Len(PidOrder)
        /\ out' \in {"zero", "fin", "nan"} /\ pc' \in {"acc", "apply"}
    BY <1>13, ThisIsAPid, PidAssumption DEF PidOutput, Goto
  <2>2. prev_err' \in [Pids -> {"none", "fin", "nan"}]
    BY <1>13 DEF PidOutput
  <2> QED
    BY <1>13, <2>1, <2>2 DEF PidOutput, SameCmd, Using
<1>14. CASE Apply
  BY <1>14 DEF Apply, Goto, SameCmd, controllers, locals, ghosts
<1>15. ASSUME balance_pid_reset
       PROVE  /\ integrator' \in [Pids -> Upto(ILimit)]
              /\ prev_err' \in [Pids -> {"none", "fin", "nan"}]
              /\ steps' \in [Pids -> Nat]
              /\ fed' \subseteq Pids
              /\ torn' \subseteq Pids
  BY <1>15, ThisIsAPid, NumberAssumption DEF balance_pid_reset, Reset, NoPrev, Upto
<1>16. CASE balance_set_mode
  <2>1. slew' \in [Axes -> Upto(Limit)] /\ base' \in [Axes -> SUBSET Upto(Limit)]
    BY <1>16, NumberFacts DEF balance_set_mode, ResetSlew, Zero
  <2> QED
    BY <1>15, <1>16, <2>1 DEF balance_set_mode, locals
<1>17. CASE PidLine
  <2>1. bad_gains' \subseteq Pids
    BY <1>17 DEF PidLine
  <2> QED
    BY <1>15, <1>17, <2>1 DEF PidLine, locals
<1>18. CASE UNCHANGED vars
  BY <1>18 DEF vars, controllers, locals, ghosts
<1> QED
  BY <1>1, <1>2, <1>3, <1>4, <1>5, <1>6, <1>7, <1>8, <1>9, <1>10, <1>11, <1>12, <1>13,
     <1>14, <1>16, <1>17, <1>18 DEF Next, Period, Slewing, Controllers

(* Every variable keeps its type under every interleaving of the period    *)
(* and the console: the references stay inside their limit and the         *)
(* integrators inside theirs, unless they are NaN.                         *)
THEOREM TypeCorrect == Spec => []TypeOK
<1>1. Init => TypeOK
  BY InitType
<1>2. TypeOK /\ [Next]_vars => TypeOK'
  BY NextType
<1> QED
  BY <1>1, <1>2, PTL DEF Spec

-----------------------------------------------------------------------------
(* The steps of a period that leave the references alone. *)
LEMMA NearGrows ==
  ASSUME NEW x, NEW B, NEW C, B \subseteq C, Near(x, B)
  PROVE  Near(x, C)
BY DEF Near

LEMMA NearZero ==
  ASSUME NEW B, 0 \in B
  PROVE  Near(0, B)
BY NumberAssumption DEF Near, Magnitude

LEMMA SlopeStep == TypeOK /\ SlopeInv /\ [Next]_vars => SlopeInv'
<1> SUFFICES ASSUME TypeOK, SlopeInv, [Next]_vars, NEW a \in Axes
             PROVE  /\ pc' \notin {"clamp", "put", "ref"} => slew'[a] \in base'[a]
                    /\ pc' \in {"clamp", "put", "ref"} => Near(slew'[a], base'[a])
                    /\ pc' \in {"store", "put"} => Near(next'[a], base'[a])
  BY DEF SlopeInv, Near, Magnitude
<1>1. CASE SlewLoad
  <2>1. next'[a] = slew_toward(slew[a], Target(a)) /\ slew[a] \in base[a]
        /\ UNCHANGED <<slew, base>> /\ pc' = "store"
    BY <1>1 DEF SlewLoad, SlopeInv, Goto, ghosts
  <2>2. slew[a] \in Upto(Limit)
    BY DEF TypeOK
  <2>3. Near(next'[a], base[a])
    BY <2>1, <2>2, SlewRange, TargetRange DEF Near
  <2> QED
    BY <2>1, <2>3
<1>2. CASE ClampLoad
  <2>1. slew[a] \in Upto(Limit) /\ slew[a] \in Number
    BY NumberAssumption DEF TypeOK, Upto, Number
  <2>2. next'[a] = slew[a]
    BY <1>2, <2>1, ClampRange, NumberAssumption DEF ClampLoad
  <2>3. UNCHANGED <<slew, base>> /\ pc = "clamp" /\ pc' = "put"
    BY <1>2 DEF ClampLoad, Goto, ghosts
  <2> QED
    BY <2>2, <2>3 DEF SlopeInv
<1>3. CASE SlewStore \/ ClampStore
  BY <1>3 DEF SlewStore, ClampStore, SlopeInv, Goto, locals, ghosts
<1>4. CASE UseRef
  BY <1>4 DEF UseRef, Goto
<1>5. CASE balance_set_mode
  <2>1. slew'[a] = 0 /\ UNCHANGED <<pc, next>>
    BY <1>5 DEF balance_set_mode, ResetSlew, Zero, locals
  <2>2. base'[a] = IF pc \in {"store", "put"} THEN base[a] \cup {0} ELSE {0}
    BY <1>5 DEF balance_set_mode, ResetSlew
  <2>3. Near(slew'[a], base'[a]) /\ slew'[a] \in base'[a]
    BY <2>1, <2>2, NearZero
  <2>4. pc \in {"store", "put"} => Near(next[a], base'[a])
    BY <2>2, NearGrows DEF SlopeInv
  <2> QED
    BY <2>1, <2>3, <2>4
<1>6. CASE PidLine
  BY <1>6 DEF PidLine, SlopeInv, locals
<1>7. CASE balance_set_cmd \/ Gate \/ BalanceEnabled \/ step_lqr \/ step_pid \/ Apply
  BY <1>7 DEF balance_set_cmd, Gate, BalanceEnabled, step_lqr, step_pid, Apply, SlopeInv,
     Goto, locals, ghosts
<1>8. CASE Controllers
  BY <1>8 DEF Controllers, PidLoad, PidStore, PidOutput, SlopeInv, Goto
<1>9. CASE UNCHANGED vars
  BY <1>9 DEF vars, locals, ghosts, SlopeInv
<1> QED
  BY <1>1, <1>2, <1>3, <1>4, <1>5, <1>6, <1>7, <1>8, <1>9 DEF Next, Period, Slewing

(* The speed lock's slope: no interleaving of mode changes with the update *)
(* of the references makes them jump, except into and out of NaN.          *)
THEOREM SlopeHolds == Spec => SlopeIsLimited
<1>1. Init => TypeOK /\ SlopeInv
  <2>1. Init => SlopeInv
    BY DEF Init, SlopeInv, Zero
  <2> QED
    BY <2>1, InitType
<1>2. TypeOK /\ SlopeInv /\ [Next]_vars => TypeOK' /\ SlopeInv'
  BY NextType, SlopeStep
<1>3. TypeOK /\ SlopeInv /\ [Next]_vars
        => [pc = "ref" /\ pc' = "branch" =>
             \A a \in Axes :
               \/ NaN \in base[a] \cup {ref'[a]}
               \/ \E b \in base[a] : Magnitude(ref'[a] - b) <= Step]_vars
  <2> SUFFICES ASSUME SlopeInv, Next, pc = "ref", pc' = "branch", NEW a \in Axes
               PROVE  Near(ref'[a], base[a])
    BY DEF Near
  <2>1. UseRef
    BY DEF Next, Period, Slewing, Controllers, balance_set_cmd, Gate, BalanceEnabled,
       SlewLoad, SlewStore, ClampLoad, ClampStore, step_lqr, step_pid, PidLoad, PidStore,
       PidOutput, Apply, balance_set_mode, PidLine, Goto
  <2> QED
    BY <2>1 DEF UseRef, SlopeInv
<1> QED
  BY <1>1, <1>2, <1>3, PTL DEF Spec, SlopeIsLimited

-----------------------------------------------------------------------------
LEMMA NaNRefStep == TypeOK /\ NaNRefInv /\ [Next]_vars => NaNRefInv'
<1> SUFFICES ASSUME TypeOK, NaNRefInv, [Next]_vars, NEW a \in Axes
             PROVE  /\ pc' \in {"store", "put"} /\ next'[a] = NaN => s_cmd'.ref[a] = NaN
                    /\ pc' \in {"clamp", "put", "ref"} /\ slew'[a] = NaN
                         => s_cmd'.ref[a] = NaN
                    /\ pc' \in Using /\ ref'[a] = NaN => s_cmd'.ref[a] = NaN
  BY DEF NaNRefInv
<1>1. CASE SlewLoad
  <2>1. next'[a] = NaN => s_cmd.ref[a] = NaN
    <3>1. next'[a] = slew_toward(slew[a], Target(a)) /\ slew[a] \in Upto(Limit)
      BY <1>1 DEF SlewLoad, TypeOK
    <3> QED
      BY <3>1, SlewRange, TargetRange
  <2> QED
    BY <1>1, <2>1 DEF SlewLoad, Goto, SameCmd, Using
<1>2. CASE ClampLoad
  <2>1. slew[a] \in Number
    BY NumberAssumption DEF TypeOK, Upto, Number
  <2>2. next'[a] = NaN => slew[a] = NaN
    BY <1>2, <2>1, ClampRange, NumberAssumption DEF ClampLoad
  <2> QED
    BY <1>2, <2>2 DEF ClampLoad, NaNRefInv, Goto, SameCmd, Using
<1>3. CASE SlewStore \/ ClampStore \/ UseRef
  BY <1>3, NumberFacts
  DEF SlewStore, ClampStore, UseRef, NaNRefInv, Goto, SameCmd, Using, locals, Zero
<1>4. CASE balance_set_mode
  BY <1>4, NumberFacts DEF balance_set_mode, ResetSlew, NaNRefInv, Zero, locals
<1>5. CASE PidLine
  BY <1>5 DEF PidLine, NaNRefInv, locals
<1>6. CASE balance_set_cmd \/ Gate \/ BalanceEnabled \/ Apply
  BY <1>6 DEF balance_set_cmd, Gate, BalanceEnabled, Apply, NaNRefInv, Goto, SameCmd,
     locals, Using
<1>7. CASE step_lqr \/ step_pid \/ Controllers
  BY <1>7 DEF step_lqr, step_pid, Controllers, PidLoad, PidStore, PidOutput, NaNRefInv,
     Goto, SameCmd, Using
<1>8. CASE UNCHANGED vars
  BY <1>8 DEF vars, locals, NaNRefInv
<1> QED
  BY <1>1, <1>2, <1>3, <1>4, <1>5, <1>6, <1>7, <1>8 DEF Next, Period, Slewing

LEMMA NaNPidStep == TypeOK /\ NaNPidInv /\ [Next]_vars => NaNPidInv'
<1> SUFFICES ASSUME TypeOK, NaNPidInv, [Next]_vars PROVE NaNPidInv'
  OBVIOUS
<1>1. CASE PidLoad
  <2>1. acc' = NaN => This \in fed' \cup torn
    BY <1>1, ThisIsAPid, NumberAssumption DEF PidLoad, NaNPidInv, TypeOK, Upto
  <2>2. fed \subseteq fed'
    BY <1>1 DEF PidLoad
  <2> QED
    BY <1>1, <2>1, <2>2 DEF PidLoad, NaNPidInv, controllers, Goto, This
<1>2. CASE PidStore
  <2>1. clampf(acc, ILimit) = NaN => acc = NaN
    BY ClampRange, NumberAssumption DEF TypeOK, Upto, Number
  <2> QED
    BY <1>2, <2>1, ThisIsAPid DEF PidStore, NaNPidInv, Goto, TypeOK
<1>3. CASE PidOutput
  <2>1. fed \subseteq fed' /\ ErrorIsNaN => This \in fed'
    BY <1>3 DEF PidOutput, MeetsNaN
  <2>2. \A p \in Pids : prev_err'[p] = IF p = This THEN IF ErrorIsNaN THEN "nan" ELSE "fin"
                                       ELSE prev_err[p]
    BY <1>3 DEF PidOutput, TypeOK
  <2>3. UNCHANGED <<integrator, torn>> /\ pc' # "integrate" /\ fed \subseteq fed'
    BY <1>3 DEF PidOutput, Goto
  <2> QED
    BY <2>1, <2>2, <2>3 DEF NaNPidInv
<1>4. CASE balance_set_mode \/ PidLine
  <2>1. balance_pid_reset /\ UNCHANGED <<pc, k, acc>>
    BY <1>4 DEF balance_set_mode, PidLine, locals
  <2>2. \A p \in Pids : integrator'[p] = 0 /\ prev_err'[p] = "none"
    BY <2>1 DEF balance_pid_reset, Reset, NoPrev
  <2>3. pc = "integrate" => This' \in torn'
    BY <2>1 DEF balance_pid_reset, This
  <2> QED
    BY <2>1, <2>2, <2>3, NumberFacts DEF NaNPidInv
<1>5. CASE balance_set_cmd \/ Gate \/ BalanceEnabled \/ Slewing \/ step_lqr \/ Apply
  BY <1>5 DEF balance_set_cmd, Gate, BalanceEnabled, Slewing, SlewLoad, SlewStore,
     ClampLoad, ClampStore, UseRef, step_lqr, Apply, NaNPidInv, Goto, controllers, locals,
     ghosts, This
<1>6. CASE step_pid
  BY <1>6 DEF step_pid, NaNPidInv, Goto, controllers, ghosts
<1>7. CASE UNCHANGED vars
  BY <1>7 DEF vars, controllers, locals, ghosts, NaNPidInv, This
<1> QED
  BY <1>1, <1>2, <1>3, <1>4, <1>5, <1>6, <1>7 DEF Next, Period, Controllers

(* NaN stays in the reference in use, and in a controller, only while its  *)
(* cause is in force or no reset has been able to remove it.               *)
THEOREM NaNIsRecent == Spec => []NaNHasACause
<1>1. Init => TypeOK /\ NaNRefInv /\ NaNPidInv
  <2>1. Init => NaNRefInv /\ NaNPidInv
    BY NumberFacts DEF Init, NaNRefInv, NaNPidInv, Zero, Reset, NoPrev, Using
  <2> QED
    BY <2>1, InitType
<1>2. TypeOK /\ NaNRefInv /\ NaNPidInv /\ [Next]_vars
        => TypeOK' /\ NaNRefInv' /\ NaNPidInv'
  BY NextType, NaNRefStep, NaNPidStep
<1>3. NaNRefInv /\ NaNPidInv => NaNHasACause
  BY DEF NaNRefInv, NaNPidInv, NaNHasACause
<1> QED
  BY <1>1, <1>2, <1>3, PTL DEF Spec

-----------------------------------------------------------------------------
(* One more error, and the cap of the count of errors. *)
LEMMA OneMore ==
  ASSUME NEW n \in Nat
  PROVE  n * Gain \in Nat /\ (n + 1) * Gain = n * Gain + Gain
BY NumberAssumption

LEMMA SumBound ==
  ASSUME NEW m \in Int, NEW a \in Int, NEW g \in Int, NEW p \in Int, NEW q \in Int,
         m <= a + g, a <= p, q = p + g
  PROVE  m <= q
OBVIOUS

LEMMA WindupStep == TypeOK /\ WindupInv /\ [Next]_vars => WindupInv'
<1> SUFFICES ASSUME TypeOK, WindupInv, [Next]_vars PROVE WindupInv'
  OBVIOUS
<1>1. CASE PidLoad
  <2>1. UNCHANGED <<integrator, steps, torn, k>> /\ This' = This
    BY <1>1 DEF PidLoad, controllers, This
  <2>2. ASSUME This \notin torn, acc' # NaN
        PROVE  Magnitude(acc') <= (steps[This] + 1) * Gain
    <3>1. PICK d \in -Gain .. Gain :
            integrator[This] # NaN /\ acc' = integrator[This] + d
      BY <1>1, <2>2 DEF PidLoad
    <3>2. integrator[This] \in Int /\ steps[This] \in Nat
          /\ Magnitude(integrator[This]) <= steps[This] * Gain
      BY <2>2, <3>1, ThisIsAPid, NumberAssumption
      DEF WindupInv, WindupIsRecent, TypeOK, Upto
    <3>3. Magnitude(acc') <= Magnitude(integrator[This]) + Gain
      BY <3>1, <3>2, NumberAssumption DEF Magnitude
    <3>4. Magnitude(acc') \in Int /\ Magnitude(integrator[This]) \in Int
      BY <3>1, <3>2, NumberAssumption DEF Magnitude
    <3>5. /\ steps[This] * Gain \in Nat
          /\ (steps[This] + 1) * Gain = steps[This] * Gain + Gain
      BY <3>2, OneMore
    <3> QED
      BY <3>2, <3>3, <3>4, <3>5, NumberAssumption, SumBound
  <2> QED
    BY <2>1, <2>2 DEF WindupInv, WindupIsRecent
<1>2. CASE PidStore
  <2>1. \A p \in Pids \ {This} : integrator'[p] = integrator[p] /\ steps'[p] = steps[p]
    BY <1>2 DEF PidStore, TypeOK
  <2>2. ASSUME This \notin torn, integrator'[This] # NaN
        PROVE  Magnitude(integrator'[This]) <= steps'[This] * Gain
    <3>1. integrator'[This] = clampf(acc, ILimit)
          /\ steps'[This] = IF steps[This] * Gain > ILimit THEN steps[This]
                           ELSE steps[This] + 1
      BY <1>2, ThisIsAPid DEF PidStore, TypeOK
    <3>2. acc \in Int
      BY <2>2, <3>1, ClampRange, NumberAssumption DEF TypeOK, Upto, Number
    <3>3. integrator'[This] \in Int
          /\ Magnitude(integrator'[This]) <= Magnitude(acc)
          /\ Magnitude(integrator'[This]) <= ILimit
      BY <3>1, <3>2, ClampShrinks, NumberAssumption
    <3>4. Magnitude(acc) <= (steps[This] + 1) * Gain
      BY <1>2, <2>2, <3>2, NumberAssumption DEF PidStore, WindupInv
    <3>5. steps[This] \in Nat
      BY ThisIsAPid DEF TypeOK
    <3>6. Magnitude(acc) \in Int /\ Magnitude(integrator'[This]) \in Int
      BY <3>2, <3>3 DEF Magnitude
    <3>7. CASE steps[This] * Gain > ILimit
      BY <3>1, <3>3, <3>5, <3>6, <3>7, OneMore, NumberAssumption
    <3>8. CASE ~(steps[This] * Gain > ILimit)
      BY <3>1, <3>3, <3>4, <3>5, <3>6, <3>8, OneMore, NumberAssumption
    <3> QED
      BY <3>7, <3>8
  <2>3. torn' = torn /\ pc' # "integrate"
    BY <1>2 DEF PidStore, Goto
  <2> QED
    BY <2>1, <2>2, <2>3 DEF WindupInv, WindupIsRecent
<1>3. CASE balance_set_mode \/ PidLine
  <2>1. balance_pid_reset /\ UNCHANGED <<pc, k, acc>>
    BY <1>3 DEF balance_set_mode, PidLine, locals
  <2>2. \A p \in Pids : integrator'[p] = 0 /\ steps'[p] = 0
    BY <2>1 DEF balance_pid_reset, Reset
  <2>3. pc = "integrate" => This' \in torn'
    BY <2>1 DEF balance_pid_reset, This
  <2>4. Magnitude(0) <= 0 * Gain
    BY NumberAssumption DEF Magnitude
  <2> QED
    BY <2>1, <2>2, <2>3, <2>4 DEF WindupInv, WindupIsRecent
<1>4. CASE balance_set_cmd \/ Gate \/ BalanceEnabled \/ Slewing \/ step_lqr \/ Apply
  BY <1>4 DEF balance_set_cmd, Gate, BalanceEnabled, Slewing, SlewLoad, SlewStore,
     ClampLoad, ClampStore, UseRef, step_lqr, Apply, WindupInv, WindupIsRecent, Goto,
     controllers, locals, ghosts, This
<1>5. CASE step_pid \/ PidOutput
  BY <1>5 DEF step_pid, PidOutput, WindupInv, WindupIsRecent, Goto, controllers, ghosts
<1>6. CASE UNCHANGED vars
  BY <1>6 DEF vars, controllers, locals, ghosts, WindupInv, WindupIsRecent, This
<1> QED
  BY <1>1, <1>2, <1>3, <1>4, <1>5, <1>6 DEF Next, Period, Controllers

(* A reset forgets what the controller had integrated, unless an update    *)
(* that had already read it is stored afterwards.                          *)
THEOREM ResetForgets == Spec => []WindupIsRecent
<1>1. Init => TypeOK /\ WindupInv
  <2>1. 0 \in Int /\ Magnitude(0) <= 0 * Gain
    BY NumberAssumption DEF Magnitude
  <2>2. Init => WindupInv
    BY <2>1 DEF Init, WindupInv, WindupIsRecent, Reset
  <2> QED
    BY <2>2, InitType
<1>2. TypeOK /\ WindupInv /\ [Next]_vars => TypeOK' /\ WindupInv'
  BY NextType, WindupStep
<1>3. WindupInv => WindupIsRecent
  BY DEF WindupInv
<1> QED
  BY <1>1, <1>2, <1>3, PTL DEF Spec
=============================================================================
