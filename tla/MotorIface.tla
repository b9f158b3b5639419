----------------------------- MODULE MotorIface -----------------------------
(***************************************************************************)
(* The two wheel motors as the application drives them: motor_iface.c over *)
(* the registers of motor_port_fsp.c.  A speed or a current reference is   *)
(* abstracted to whether it is nonzero: the question asked of the motors   *)
(* is whether anything can still turn the wheels.                          *)
(*                                                                         *)
(* motor_set_mode is two operations here, SetMode and Enable, because its  *)
(* stores to s_mode and to s_en are separate and an emergency stop in an   *)
(* interrupt can come between them.  The position reference s_pos_cmd is   *)
(* written and never read, so motor_set_position_counts changes nothing.   *)
(***************************************************************************)

VARIABLES
  m_mode,           \* s_mode of motor_iface.c
  m_en,             \* s_en of motor_iface.c
  m_rpm,            \* s_rpm of the port is nonzero
  m_iq              \* current_a of the port is nonzero

motors == <<m_mode, m_en, m_rpm, m_iq>>

Wheels == {"L", "R"}
MotorModes == {"DISABLED", "SPEED", "POSITION", "TORQUE"}

MotorTypeOK ==
  /\ m_mode \in [Wheels -> MotorModes]
  /\ m_en \in [Wheels -> BOOLEAN]
  /\ m_rpm \in [Wheels -> BOOLEAN]
  /\ m_iq \in [Wheels -> BOOLEAN]

(* The wheels a motor_id_t stands for. *)
Of(id) == IF id = "BOTH" THEN Wheels ELSE {id}

(* reg, with the wheels of id set to v. *)
Set(reg, id, v) == [w \in Wheels |-> IF w \in Of(id) THEN v ELSE reg[w]]

MotorInit ==
  /\ m_mode = [w \in Wheels |-> "DISABLED"]
  /\ m_en = [w \in Wheels |-> FALSE]
  /\ m_rpm = [w \in Wheels |-> FALSE]
  /\ m_iq = [w \in Wheels |-> FALSE]

-----------------------------------------------------------------------------
(* motor_init: the port's speed register keeps its value. *)
motor_init ==
  /\ m_mode' = [w \in Wheels |-> "DISABLED"]
  /\ m_en' = [w \in Wheels |-> FALSE]
  /\ m_iq' = [w \in Wheels |-> FALSE]
  /\ UNCHANGED m_rpm

(* motor_set_mode(id, mode), first half. *)
SetMode(id, mode) ==
  /\ m_mode' = Set(m_mode, id, mode)
  /\ UNCHANGED <<m_en, m_rpm, m_iq>>

(* motor_set_mode(id, mode), second half: motor_enable; a motor that is *)
(* disabled is also stopped.                                            *)
Enable(id, mode) ==
  /\ m_en' = Set(m_en, id, mode # "DISABLED")
  /\ m_rpm' = IF mode = "DISABLED" THEN Set(m_rpm, id, FALSE) ELSE m_rpm
  /\ UNCHANGED <<m_mode, m_iq>>

motor_set_speed_rpm(id, nonzero) ==
  /\ m_rpm' = Set(m_rpm, id, nonzero)
  /\ UNCHANGED <<m_mode, m_en, m_iq>>

motor_set_torque_nm(id, nonzero) ==
  /\ m_iq' = Set(m_iq, id, nonzero)
  /\ UNCHANGED <<m_mode, m_en, m_rpm>>

(* A slip: the port is not stopped, and keeps its speed reference. *)
EstopKeepsSpeed ==
  /\ m_iq' = [w \in Wheels |-> FALSE]
  /\ m_en' = [w \in Wheels |-> FALSE]
  /\ m_mode' = [w \in Wheels |-> "DISABLED"]
  /\ UNCHANGED m_rpm

(* A slip: the current reference is not reset, as motor_port_stop leaves it. *)
EstopKeepsTorque ==
  /\ m_rpm' = [w \in Wheels |-> FALSE]
  /\ m_en' = [w \in Wheels |-> FALSE]
  /\ m_mode' = [w \in Wheels |-> "DISABLED"]
  /\ UNCHANGED m_iq

(* The outputs are opened, and no mode, reference or enable is left on. *)
motor_estop ==
  /\ m_rpm' = [w \in Wheels |-> FALSE]
  /\ m_iq' = [w \in Wheels |-> FALSE]
  /\ m_en' = [w \in Wheels |-> FALSE]
  /\ m_mode' = [w \in Wheels |-> "DISABLED"]

MotorsOff ==
  \A w \in Wheels : m_mode[w] = "DISABLED" /\ ~m_en[w] /\ ~m_rpm[w] /\ ~m_iq[w]
=============================================================================
