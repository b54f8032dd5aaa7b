------------------------------ MODULE MCSensors ------------------------------
(* Sensors with the default parameters of isl29035_params.h and            *)
(* lsm303c_params.h, and environment values at the ends of the ranges.    *)
EXTENDS Sensors, Integers

(* ISL29035_RANGE_16K, ISL29035_MODE_AUTO_POWERDOWN_AMBIENT *)
MCIslRange == 2
MCIslMode == 1
(* LSM303C_ACC_SAMPLE_RATE_ONESHOT, LSM303C_ACC_SCALE_2G,                  *)
(* LSM303C_MAG_SAMPLE_RATE_5HZ                                             *)
MCAccRate == 255
MCAccScale == 0
MCMagRate == 12

(* Within the 1K range: a count converted in one range and read in the  *)
(* other is far off. *)
MCLightLevels == {700}
(* -1 g: a negative count through the arithmetic >> 4. *)
MCAccLevels == {-1000}
(* I2C_ERR of i2c_read_reg / i2c_write_reg. *)
MCI2cErr == {-1}
====
