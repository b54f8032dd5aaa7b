------------------------------- MODULE Sensors -------------------------------
(***************************************************************************)
(* The sensors of the board on their one I2C bus: the HDC1000 driver with *)
(* its reading cache and renew timer (Hdc1000Cache) beside the ISL29035   *)
(* and LSM303C drivers behind SAUL (SaulSensors).  They share i2c_owner:  *)
(* an HDC1000 caller holds the bus between its i2c_acquire and            *)
(* i2c_release, and a SAUL driver call waits for it.                      *)
(***************************************************************************)
EXTENDS Naturals

CONSTANTS
  Threads, MaxCalls, NoThread,
  IslRange, IslMode, AccRate, AccScale, MagRate,
  LightLevels, AccLevels, I2cErr, MaxFaults, MaxReads

VARIABLES
  i2c_owner,
  init_status, temp_cached, hum_cached, timer_armed, pc, want, buf, calls,
  conv, served,
  isl_reg, isl_lux, isl_raw, lsm_reg, acc_mg, acc_raw, auto_done, saul,
  disabled, last_light, last_acc, faults, reads

Hdc == INSTANCE Hdc1000Cache
Saul == INSTANCE SaulSensors

hdc_vars == <<init_status, temp_cached, hum_cached, timer_armed, pc, want,
              buf, calls, conv, served>>
saul_vars == <<isl_reg, isl_lux, isl_raw, lsm_reg, acc_mg, acc_raw,
               auto_done, saul, disabled, last_light, last_acc, faults, reads>>
vars == <<i2c_owner, hdc_vars, saul_vars>>

Init == Hdc!Init /\ Saul!Init

Next ==
  \/ Hdc!Next /\ UNCHANGED saul_vars
  \/ Saul!Next /\ UNCHANGED hdc_vars

(* The HDC1000 fairness of Hdc1000Cache; nothing obliges the application  *)
(* to read a SAUL sensor or a device to convert.                          *)
Spec ==
  /\ Init /\ [][Next]_vars
  /\ \A t \in Threads : WF_vars(Hdc!Running(t) /\ UNCHANGED saul_vars)
  /\ WF_vars(Hdc!RenewTimerCb /\ UNCHANGED saul_vars)

-----------------------------------------------------------------------------
TypeOK == Hdc!TypeOK /\ Saul!TypeOK

(* The properties of the two components, checked in the composition. *)
CacheEventuallyCleared == Hdc!CacheEventuallyCleared
LightReportsLux == Saul!LightReportsLux
RegisteredSensorsConfigured == Saul!RegisteredSensorsConfigured

====
