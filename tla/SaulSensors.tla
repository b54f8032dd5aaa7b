----------------------------- MODULE SaulSensors -----------------------------
(***************************************************************************)
(* The two I2C sensors behind SAUL: the ISL29035 light sensor              *)
(* (src/drivers/isl29035) and the LSM303C accelerometer and magnetometer   *)
(* (src/drivers/lsm303c), with their SAUL read shims and the boot-time     *)
(* registration in src/sys/auto_init/saul.                                 *)
(*                                                                         *)
(* A driver call holds the bus lock from its i2c_acquire to its           *)
(* i2c_release and touches nothing but the bus and its own descriptor, so *)
(* each call is one step, taken while no other thread owns the bus.       *)
(* Every bus transfer returns 1 or an error from I2cErr; at most          *)
(* MaxFaults transfers fail in a behaviour.                                *)
(*                                                                         *)
(* The devices are modelled by their registers: a write that succeeds     *)
(* stores its byte, a failed one leaves the register as it was.  A device *)
(* converts while its operating-mode field is non-zero, from an           *)
(* environment value (lux, mg) to the ADC count the driver reads.  The    *)
(* x axis stands for all three; magnetometer values are not modelled.     *)
(***************************************************************************)
EXTENDS Integers, SequencesExt, Bitwise

CONSTANTS
  IslRange,     \* isl29035_params: range (0..3 for 1K..64K lux)
  IslMode,      \* isl29035_params: operating mode
  AccRate,      \* lsm303c_params: acc_rate
  AccScale,     \* lsm303c_params: acc_scale (0x00, 0x20, 0x30)
  MagRate,      \* lsm303c_params: mag_rate
  LightLevels,  \* illuminance (lux) the ISL29035 may see
  AccLevels,    \* acceleration (mg) the LSM303C may see
  I2cErr,       \* what a failed i2c_read_reg / i2c_write_reg returns
  MaxFaults,    \* failed bus transfers in a behaviour
  MaxReads,     \* SAUL reads in a behaviour
  NoThread      \* the free I2C bus

OK == 1         \* a transfer that moved its byte

VARIABLES
  i2c_owner,    \* thread holding the bus lock (only other modules take it)
  isl_reg,      \* ISL29035 registers CMD1, CMD2
  isl_lux,      \* illuminance of the ISL29035's last conversion
  isl_raw,      \* its 16-bit ADC count (DATA registers)
  lsm_reg,      \* LSM303C control registers
  acc_mg,       \* acceleration of the accelerometer's last conversion
  acc_raw,      \* its signed 16-bit OUT_X_A
  auto_done,    \* auto_init functions that have run
  saul,         \* SAUL registry entries ("light", "accel", "mag")
  disabled,     \* devices the application has switched off
  last_light,   \* last SAUL light value, with the lux it measured
  last_acc,     \* last SAUL acceleration value, with the mg it measured
  faults,       \* failed transfers so far
  reads         \* SAUL reads so far

vars == <<i2c_owner, isl_reg, isl_lux, isl_raw, lsm_reg, acc_mg, acc_raw,
          auto_done, saul, disabled, last_light, last_acc, faults, reads>>

-----------------------------------------------------------------------------
(* The devices.  Power-on register values and full scales are the ones    *)
(* the data sheets give; the full scales are also the header comments of  *)
(* the range and scale enums.                                              *)
IslReset == [CMD1 |-> 0, CMD2 |-> 0]
LsmReset == [CTRL1_A |-> 7, CTRL4_A |-> 4, CTRL5_A |-> 0,
             CTRL1_M |-> 16, CTRL3_M |-> 3, CTRL5_M |-> 0]

IslFullScale(range) == CASE range = 0 -> 1000 [] range = 1 -> 4000
                         [] range = 2 -> 16000 [] range = 3 -> 64000

(* FS field of CTRL4_A (bits 5:4): 0 = 2G, 2 = 4G, 3 = 8G, as the enum   *)
(* names of lsm303c.h and the datasheet say; the enum's comments label    *)
(* 4G and 8G as +-8g and +-16g.  The runs use the default 2G only.        *)
AccFullScale(fs) == IF fs = 0 THEN 2000 ELSE 2000 * 2 ^ (fs - 1)

Int16(v) == ((v + 32768) % 65536) - 32768

NoReport == [ok |-> FALSE, val |-> 0, ref |-> 0]

(* Results of n transfers, within what is left of the fault budget. *)
Fails(rs) == Cardinality({i \in DOMAIN rs : rs[i] # OK})
Results(n) == {rs \in [1 .. n -> {OK} \cup I2cErr] :
                 Fails(rs) <= MaxFaults - faults}

(* A sequence of register writes, each stored when its transfer worked. *)
Written(regs, ws, rs) ==
  FoldLeftDomain(LAMBDA r, i : IF rs[i] = OK
                               THEN [r EXCEPT ![ws[i][1]] = ws[i][2]]
                               ELSE r, regs, ws)

(* auto_init runs both SAUL init functions in the boot sequence, before   *)
(* any application thread reads a sensor or switches one.                 *)
Booted == auto_done = {"isl", "lsm"}

-----------------------------------------------------------------------------
(* isl29035_init: CMD1 = mode << 5, CMD2 = RES_INT_16 | range. *)
IslInitWrites == << <<"CMD1", IslMode * 32>>, <<"CMD2", 0 | IslRange>> >>

(* Mutant: only a negative sum counts as failure, as in res < 0. *)
IslInitTolerant(rs) ==
  [regs |-> Written(isl_reg, IslInitWrites, rs),
   ret  |-> IF SumFunction(rs) < 0 THEN -1 ELSE 0]

IslInit(rs) ==
  [regs |-> Written(isl_reg, IslInitWrites, rs),
   ret  |-> IF SumFunction(rs) < 2 THEN -1 ELSE 0]

(* auto_init_isl29035: a failed init is skipped, a good one registered. *)
AutoInitIsl ==
  /\ "isl" \notin auto_done /\ i2c_owner = NoThread
  /\ auto_done' = auto_done \cup {"isl"}
  /\ \E rs \in Results(2) :
       LET r == IslInit(rs) IN
       /\ isl_reg' = r.regs
       /\ saul' = IF r.ret < 0 THEN saul ELSE saul \cup {"light"}
       /\ faults' = faults + Fails(rs)
  /\ UNCHANGED <<i2c_owner, isl_lux, isl_raw, lsm_reg, acc_mg, acc_raw,
                 disabled, last_light, last_acc, reads>>

(* The lux of a count, in the range the descriptor was given:            *)
(* (uint32_t)res * K >> 16; the product of a 16-bit count and K <= 64000  *)
(* never wraps the uint32_t.  Every K is a multiple of 8, so the same     *)
(* value is computed as res * (K / 8) >> 13, which stays within TLC's     *)
(* 32-bit integers in the 64K range too.                                  *)
IslLux(raw) == (raw * (IslFullScale(IslRange) \div 8)) \div 2 ^ 13

(* isl29035_read: LDATA, HDATA, then CMD1 = mode << 5 again. *)
IslRead(rs) ==
  [regs |-> Written(isl_reg, << <<"CMD1", IslMode * 32>> >>, <<rs[3]>>),
   ret  |-> IF SumFunction(rs) < 3 THEN -1 ELSE IslLux(isl_raw)]

(* read of isl29035_saul: the driver's int, cast to int16_t. *)
SaulReadLight ==
  /\ Booted /\ "light" \in saul /\ i2c_owner = NoThread /\ reads < MaxReads
  /\ \E rs \in Results(3) :
       LET r == IslRead(rs) IN
       /\ isl_reg' = r.regs
       /\ last_light' = [ok |-> Fails(rs) = 0, val |-> Int16(r.ret),
                         ref |-> isl_lux]
       /\ faults' = faults + Fails(rs)
  /\ reads' = reads + 1
  /\ UNCHANGED <<i2c_owner, isl_lux, isl_raw, lsm_reg, acc_mg, acc_raw,
                 auto_done, saul, disabled, last_acc>>

(* isl29035_enable: CMD1 = mode (not shifted). *)
IslEnable ==
  /\ Booted /\ "light" \in saul /\ i2c_owner = NoThread
  /\ \E r \in Results(1) :
       /\ isl_reg' = Written(isl_reg, << <<"CMD1", IslMode>> >>, r)
       /\ disabled' = IF r[1] < 1 THEN disabled ELSE disabled \ {"isl"}
       /\ faults' = faults + Fails(r)
  /\ UNCHANGED <<i2c_owner, isl_lux, isl_raw, lsm_reg, acc_mg, acc_raw,
                 auto_done, saul, last_light, last_acc, reads>>

(* isl29035_disable: CMD1 = 0. *)
IslDisable ==
  /\ Booted /\ "light" \in saul /\ i2c_owner = NoThread
  /\ \E r \in Results(1) :
       /\ isl_reg' = Written(isl_reg, << <<"CMD1", 0>> >>, r)
       /\ faults' = faults + Fails(r)
  /\ disabled' = disabled \cup {"isl"}
  /\ UNCHANGED <<i2c_owner, isl_lux, isl_raw, lsm_reg, acc_mg, acc_raw,
                 auto_done, saul, last_light, last_acc, reads>>

-----------------------------------------------------------------------------
(* lsm303c_init: the reboot write (its own bus section), then              *)
(* accelerometer and magnetometer set-up; init fails only when res < 5.   *)
LsmInitWrites ==
  << <<"CTRL5_A", 64>>, <<"CTRL1_A", 1 | 2 | 4 | AccRate>>,
     <<"CTRL4_A", AccScale>>, <<"CTRL3_M", 12>>, <<"CTRL3_M", 96>>,
     <<"CTRL1_M", MagRate>>, <<"CTRL3_M", 1>>, <<"CTRL5_M", 64>> >>

LsmInit(rs) ==
  [regs |-> Written(lsm_reg, LsmInitWrites, rs),
   ret  |-> IF SumFunction(rs) < 5 THEN -1 ELSE 0]

(* auto_init_lsm303c: registers the accelerometer and the magnetometer. *)
AutoInitLsm ==
  /\ "lsm" \notin auto_done /\ i2c_owner = NoThread
  /\ auto_done' = auto_done \cup {"lsm"}
  /\ \E rs \in Results(8) :
       LET r == LsmInit(rs) IN
       /\ lsm_reg' = r.regs
       /\ saul' = IF r.ret < 0 THEN saul ELSE saul \cup {"accel", "mag"}
       /\ faults' = faults + Fails(rs)
  /\ UNCHANGED <<i2c_owner, isl_reg, isl_lux, isl_raw, acc_mg, acc_raw,
                 disabled, last_light, last_acc, reads>>

LsmReadAcc(rs) ==
  [x   |-> acc_raw \div 16,
   ret |-> IF SumFunctionOnSet(rs, 2 .. 7) < 6 THEN -1 ELSE 0]

(* fac = 1 << (acc_scale >> 4) *)
AccFac == 2 ^ (AccScale \div 16)

(* read_acc of lsm303c_saul: the driver's result is not looked at. *)
SaulReadAcc ==
  /\ Booted /\ "accel" \in saul /\ i2c_owner = NoThread /\ reads < MaxReads
  /\ \E rs \in Results(7) :
       LET r == LsmReadAcc(rs) IN
       /\ last_acc' = IF r.ret < 0 THEN NoReport
                      ELSE [ok |-> TRUE, val |-> Int16(r.x * AccFac),
                            ref |-> acc_mg]
       /\ faults' = faults + Fails(rs)
  /\ reads' = reads + 1
  /\ UNCHANGED <<i2c_owner, isl_reg, isl_lux, isl_raw, lsm_reg, acc_mg,
                 acc_raw, auto_done, saul, disabled, last_light>>

(* lsm303c_read_mag: CTRL3_M = SINGLE_CONV to trigger a conversion (its   *)
(* result unused), then the six OUT bytes, read at once.                  *)
LsmReadMag(rs) == Written(lsm_reg, << <<"CTRL3_M", 1>> >>, <<rs[1]>>)

(* read_mag of lsm303c_saul: scales the driver's values by 580 / 1000 and *)
(* ignores its result.                                                     *)
SaulReadMag ==
  /\ Booted /\ "mag" \in saul /\ i2c_owner = NoThread /\ reads < MaxReads
  /\ \E rs \in Results(7) :
       /\ lsm_reg' = LsmReadMag(rs)
       /\ faults' = faults + Fails(rs)
  /\ reads' = reads + 1
  /\ UNCHANGED <<i2c_owner, isl_reg, isl_lux, isl_raw, acc_mg, acc_raw,
                 auto_done, saul, disabled, last_light, last_acc>>

(* lsm303c_disable: CTRL1_A = POWEROFF, CTRL3_M = POWERDOWN.               *)
(* lsm303c_enable only returns -1, so nothing switches the device on.     *)
LsmDisable ==
  /\ Booted /\ "accel" \in saul /\ i2c_owner = NoThread
  /\ \E rs \in Results(2) :
       /\ lsm_reg' = Written(lsm_reg, << <<"CTRL1_A", 0>>, <<"CTRL3_M", 2>> >>, rs)
       /\ faults' = faults + Fails(rs)
  /\ disabled' = disabled \cup {"lsm"}
  /\ UNCHANGED <<i2c_owner, isl_reg, isl_lux, isl_raw, acc_mg, acc_raw,
                 auto_done, saul, last_light, last_acc, reads>>

-----------------------------------------------------------------------------
(* The ISL29035 converts while the operating mode in CMD1[7:5] is not     *)
(* power-down, in the range CMD2[1:0] selects.                             *)
IslConvert ==
  /\ isl_reg.CMD1 \div 32 # 0
  /\ \E l \in LightLevels :
       /\ isl_lux' = l
       /\ isl_raw' = Min({65535, (l * 2 ^ 13) \div (IslFullScale(isl_reg.CMD2 % 4) \div 8)})
  /\ UNCHANGED <<i2c_owner, isl_reg, lsm_reg, acc_mg, acc_raw, auto_done,
                 saul, disabled, last_light, last_acc, faults, reads>>

(* The accelerometer converts while the data rate CTRL1_A[6:4] is not     *)
(* power-down, at the full scale CTRL4_A[5:4] selects (16-bit output).    *)
AccConvert ==
  /\ (lsm_reg.CTRL1_A \div 16) % 8 # 0
  /\ \E g \in AccLevels :
       /\ acc_mg' = g
       /\ acc_raw' = Int16((g * 2 ^ 15) \div
                        AccFullScale((lsm_reg.CTRL4_A \div 16) % 4))
  /\ UNCHANGED <<i2c_owner, isl_reg, isl_lux, isl_raw, lsm_reg, auto_done,
                 saul, disabled, last_light, last_acc, faults, reads>>

-----------------------------------------------------------------------------
Init ==
  /\ i2c_owner = NoThread
  /\ isl_reg = IslReset /\ isl_lux = 0 /\ isl_raw = 0
  /\ lsm_reg = LsmReset /\ acc_mg = 0 /\ acc_raw = 0
  /\ auto_done = {} /\ saul = {} /\ disabled = {}
  /\ last_light = NoReport /\ last_acc = NoReport
  /\ faults = 0 /\ reads = 0

Next ==
  \/ AutoInitIsl \/ AutoInitLsm
  \/ SaulReadLight \/ SaulReadAcc \/ SaulReadMag
  \/ IslEnable \/ IslDisable \/ LsmDisable
  \/ IslConvert \/ AccConvert

Spec == Init /\ [][Next]_vars

-----------------------------------------------------------------------------
Reports == [ok : BOOLEAN, val : -32768 .. 32767, ref : Int]

TypeOK ==
  /\ isl_reg \in [{"CMD1", "CMD2"} -> 0 .. 255]
  /\ isl_raw \in 0 .. 65535 /\ acc_raw \in -32768 .. 32767
  /\ lsm_reg \in [DOMAIN LsmReset -> 0 .. 255]
  /\ auto_done \subseteq {"isl", "lsm"} /\ disabled \subseteq {"isl", "lsm"}
  /\ saul \subseteq {"light", "accel", "mag"}
  /\ last_light \in Reports /\ last_acc \in Reports
  /\ faults \in 0 .. MaxFaults /\ reads \in 0 .. MaxReads

(* A light value the ISL29035 driver read without a bus error is within  *)
(* 1 lux of the illuminance the device converted: isl29035_init's range   *)
(* and the range isl29035_read converts with must agree.                  *)
LightReportsLux ==
  last_light.ok => last_light.val - last_light.ref \in -1 .. 1

RegisteredSensorsConfigured ==
  /\ "light" \in saul /\ "isl" \notin disabled =>
       isl_reg = Written(IslReset, IslInitWrites, <<OK, OK>>)
  /\ "accel" \in saul /\ "lsm" \notin disabled =>
       lsm_reg = Written(LsmReset, LsmInitWrites, [i \in 1 .. 8 |-> OK])

====
