---------------------------- MODULE Hdc1000Cache ----------------------------
(***************************************************************************)
(* The HDC1000 driver, src/drivers/hdc1000/hdc1000.c: hdc1000_init, the   *)
(* conversion (hdc1000_trigger_conversion, hdc1000_get_results) and the   *)
(* one-value cache of hdc1000_read, which the renew timer callback        *)
(* clears from interrupt context.                                         *)
(*                                                                         *)
(* Callers are threads; each runs one C statement per step, since the     *)
(* timer interrupt (and a higher-priority thread it wakes) may preempt    *)
(* any of them.  The I2C bus is the mutex i2c_acquire / i2c_release.      *)
(* A reading is abstracted to the number of the conversion that produced  *)
(* it (1, 2, ...), temperature and humidity alike, so 0 is never a real   *)
(* reading and stands only for "not cached".                              *)
(***************************************************************************)
EXTENDS Naturals, Sequences

CONSTANTS
  Threads,     \* the threads calling hdc1000_read
  MaxCalls,    \* calls each thread makes
  NoThread     \* the free I2C bus

ASSUME NoThread \notin Threads /\ MaxCalls \in Nat \ {0}

(* What a caller passes: only temp, only hum, or both pointers non-NULL. *)
Kinds == {"temp", "hum", "both"}

VARIABLES
  init_status,   \* result of hdc1000_init, "NONE" until it ran
  temp_cached,   \* int16_t temp_cached
  hum_cached,    \* int16_t hum_cached
  timer_armed,   \* hdc1000_renew_timer is set
  i2c_owner,     \* thread holding the bus lock
  pc,            \* statement each thread is at
  want,          \* which pointers the current call passed
  buf,           \* the reading get_results fetched from the bus
  calls,         \* calls made per thread (bounded by MaxCalls)
  conv,          \* conversions read so far
  served         \* history: readings handed out with HDC1000_OK

vars == <<init_status, temp_cached, hum_cached, timer_armed, i2c_owner, pc,
          want, buf, calls, conv, served>>

Pcs == {"idle", "check", "copy", "zero", "remove", "trig_acq", "trig_write",
        "get_acq", "get_read", "set_temp", "set_hum", "out_temp", "clr_temp",
        "out_hum", "clr_hum", "arm"}

Goto(t, l) == pc' = [pc EXCEPT ![t] = l]

(* The cache a single-pointer call reads. *)
Cached(k) == IF k = "temp" THEN temp_cached ELSE hum_cached

Wants(t, k) == want[t] \in {k, "both"}

Serve(k, v) == served' = Append(served, [kind |-> k, val |-> v])

-----------------------------------------------------------------------------
(* hdc1000_init: under the bus lock, bus init, manufacturer id, config;   *)
(* each step may fail and returns after releasing the bus.                *)
HdcInit ==
  /\ init_status = "NONE"
  /\ i2c_owner = NoThread
  /\ \E r \in {"OK", "NOBUS", "NODEV"} : init_status' = r
  /\ UNCHANGED <<temp_cached, hum_cached, timer_armed, i2c_owner, pc, want,
                 buf, calls, conv, served>>

(* A thread calls hdc1000_read with some pointers (after a good init). *)
Call(t) ==
  /\ init_status = "OK"
  /\ pc[t] = "idle" /\ calls[t] < MaxCalls
  /\ \E k \in Kinds : want' = [want EXCEPT ![t] = k]
  /\ calls' = [calls EXCEPT ![t] = @ + 1]
  /\ Goto(t, "check")
  /\ UNCHANGED <<init_status, temp_cached, hum_cached, timer_armed,
                 i2c_owner, buf, conv, served>>

(* The cache test of hdc1000_read: one pointer and a non-zero cache. *)
ReadCheck(t) ==
  /\ pc[t] = "check"
  /\ Goto(t, IF want[t] # "both" /\ Cached(want[t]) # 0
             THEN "copy" ELSE "trig_acq")
  /\ UNCHANGED <<init_status, temp_cached, hum_cached, timer_armed,
                 i2c_owner, want, buf, calls, conv, served>>

(* *hum = hum_cached (or *temp = temp_cached): the cache is read again. *)
ReadCopy(t) ==
  /\ pc[t] = "copy"
  /\ Serve(want[t], Cached(want[t]))
  /\ Goto(t, "zero")
  /\ UNCHANGED <<init_status, temp_cached, hum_cached, timer_armed,
                 i2c_owner, want, buf, calls, conv>>

(* hum_cached = 0 (or temp_cached = 0). *)
ReadZero(t) ==
  /\ pc[t] = "zero"
  /\ temp_cached' = IF want[t] = "temp" THEN 0 ELSE temp_cached
  /\ hum_cached' = IF want[t] = "hum" THEN 0 ELSE hum_cached
  /\ Goto(t, "remove")
  /\ UNCHANGED <<init_status, timer_armed, i2c_owner, want, buf, calls,
                 conv, served>>

(* xtimer_remove(&hdc1000_renew_timer); return HDC1000_OK. *)
ReadRemoveTimer(t) ==
  /\ pc[t] = "remove"
  /\ timer_armed' = FALSE
  /\ Goto(t, "idle")
  /\ UNCHANGED <<init_status, temp_cached, hum_cached, i2c_owner, want, buf,
                 calls, conv, served>>

-----------------------------------------------------------------------------
(* i2c_acquire: block until the bus is free, then own it. *)
Acquire(t, from, to) ==
  /\ pc[t] = from /\ i2c_owner = NoThread
  /\ i2c_owner' = t
  /\ Goto(t, to)
  /\ UNCHANGED <<init_status, temp_cached, hum_cached, timer_armed, want, buf,
                 calls, conv, served>>

(* hdc1000_trigger_conversion: write the start byte, release the bus; a   *)
(* bus error makes hdc1000_read return HDC1000_BUSERR.  On success the    *)
(* caller sleeps for the conversion time, then calls get_results.         *)
TriggerWrite(t) ==
  /\ pc[t] = "trig_write"
  /\ i2c_owner' = NoThread
  /\ \E ok \in BOOLEAN : Goto(t, IF ok THEN "get_acq" ELSE "idle")
  /\ UNCHANGED <<init_status, temp_cached, hum_cached, timer_armed, want, buf,
                 calls, conv, served>>

(* hdc1000_get_results: read the 4 result bytes, release the bus. *)
GetRead(t) ==
  /\ pc[t] = "get_read"
  /\ i2c_owner' = NoThread
  /\ \/ /\ conv' = conv + 1
        /\ buf' = [buf EXCEPT ![t] = conv + 1]
        /\ Goto(t, "set_temp")
     \/ /\ Goto(t, "idle")
        /\ UNCHANGED <<conv, buf>>
  /\ UNCHANGED <<init_status, temp_cached, hum_cached, timer_armed, want,
                 calls, served>>

(* temp_cached = (converted traw). *)
SetTemp(t) ==
  /\ pc[t] = "set_temp"
  /\ temp_cached' = buf[t]
  /\ Goto(t, "set_hum")
  /\ UNCHANGED <<init_status, hum_cached, timer_armed, i2c_owner, want, buf,
                 calls, conv, served>>

(* Mutant: the humidity conversion stores the wrong raw word. *)
SetHumNext(t) ==
  /\ pc[t] = "set_hum"
  /\ hum_cached' = buf[t] + 1
  /\ Goto(t, "out_temp")
  /\ UNCHANGED <<init_status, temp_cached, timer_armed, i2c_owner, want, buf,
                 calls, conv, served>>

(* hum_cached = (converted hraw). *)
SetHum(t) ==
  /\ pc[t] = "set_hum"
  /\ hum_cached' = buf[t]
  /\ Goto(t, "out_temp")
  /\ UNCHANGED <<init_status, temp_cached, timer_armed, i2c_owner, want, buf,
                 calls, conv, served>>

(* if (temp) *temp = temp_cached;  then, in the same branch, the clear. *)
OutTemp(t) ==
  /\ pc[t] = "out_temp"
  /\ IF Wants(t, "temp") THEN Serve("temp", temp_cached) /\ Goto(t, "clr_temp")
                         ELSE UNCHANGED served /\ Goto(t, "out_hum")
  /\ UNCHANGED <<init_status, temp_cached, hum_cached, timer_armed, i2c_owner,
                 want, buf, calls, conv>>

ClrTemp(t) ==
  /\ pc[t] = "clr_temp"
  /\ temp_cached' = 0
  /\ Goto(t, "out_hum")
  /\ UNCHANGED <<init_status, hum_cached, timer_armed, i2c_owner, want, buf,
                 calls, conv, served>>

(* if (hum) *hum = hum_cached;  hum_cached = 0. *)
OutHum(t) ==
  /\ pc[t] = "out_hum"
  /\ IF Wants(t, "hum") THEN Serve("hum", hum_cached) /\ Goto(t, "clr_hum")
                        ELSE UNCHANGED served /\ Goto(t, "arm")
  /\ UNCHANGED <<init_status, temp_cached, hum_cached, timer_armed, i2c_owner,
                 want, buf, calls, conv>>

ClrHum(t) ==
  /\ pc[t] = "clr_hum"
  /\ hum_cached' = 0
  /\ Goto(t, "arm")
  /\ UNCHANGED <<init_status, temp_cached, timer_armed, i2c_owner, want, buf,
                 calls, conv, served>>

(* Mutant: only a cached humidity arms the renew timer. *)
ArmTimerHumOnly(t) ==
  /\ pc[t] = "arm"
  /\ timer_armed' = (timer_armed \/ hum_cached # 0)
  /\ Goto(t, "idle")
  /\ UNCHANGED <<init_status, temp_cached, hum_cached, i2c_owner, want, buf,
                 calls, conv, served>>

(* A value left in the cache arms the renew timer; return HDC1000_OK. *)
ArmTimer(t) ==
  /\ pc[t] = "arm"
  /\ timer_armed' = (timer_armed \/ hum_cached # 0 \/ temp_cached # 0)
  /\ Goto(t, "idle")
  /\ UNCHANGED <<init_status, temp_cached, hum_cached, i2c_owner, want, buf,
                 calls, conv, served>>

(* hdc1000_renew_timer_cb, in interrupt context. *)
RenewTimerCb ==
  /\ timer_armed
  /\ timer_armed' = FALSE
  /\ temp_cached' = 0 /\ hum_cached' = 0
  /\ UNCHANGED <<init_status, i2c_owner, pc, want, buf, calls, conv, served>>

-----------------------------------------------------------------------------
Init ==
  /\ init_status = "NONE"
  /\ temp_cached = 0 /\ hum_cached = 0
  /\ timer_armed = FALSE
  /\ i2c_owner = NoThread
  /\ pc = [t \in Threads |-> "idle"]
  /\ want = [t \in Threads |-> "both"]
  /\ buf = [t \in Threads |-> 0]
  /\ calls = [t \in Threads |-> 0]
  /\ conv = 0
  /\ served = <<>>

(* The steps of a call in progress. *)
Running(t) ==
  \/ ReadCheck(t) \/ ReadCopy(t) \/ ReadZero(t) \/ ReadRemoveTimer(t)
  \/ Acquire(t, "trig_acq", "trig_write") \/ TriggerWrite(t)
  \/ Acquire(t, "get_acq", "get_read") \/ GetRead(t)
  \/ SetTemp(t) \/ SetHum(t) \/ OutTemp(t) \/ ClrTemp(t) \/ OutHum(t)
  \/ ClrHum(t) \/ ArmTimer(t)

Next ==
  \/ HdcInit \/ RenewTimerCb
  \/ \E t \in Threads : Call(t) \/ Running(t)

(* A thread in a call keeps running; an armed xtimer fires.  Callers need *)
(* not call.                                                              *)
Spec ==
  /\ Init /\ [][Next]_vars
  /\ \A t \in Threads : WF_vars(Running(t))
  /\ WF_vars(RenewTimerCb)

-----------------------------------------------------------------------------
TypeOK ==
  /\ init_status \in {"NONE", "OK", "NOBUS", "NODEV"}
  /\ temp_cached \in 0 .. conv /\ hum_cached \in 0 .. conv
  /\ timer_armed \in BOOLEAN
  /\ i2c_owner \in Threads \cup {NoThread}
  /\ pc \in [Threads -> Pcs] /\ want \in [Threads -> Kinds]
  /\ buf \in [Threads -> 0 .. conv]
  /\ calls \in [Threads -> 0 .. MaxCalls]
  /\ served \in Seq([kind : {"temp", "hum"}, val : 0 .. conv])

(* Every reading hdc1000_read hands out with HDC1000_OK is the result of a *)
(* conversion: the cache test at line 154/159 and the copy after it, and  *)
(* get_results' store and copy, must not be split by the renew timer      *)
(* clearing the cache.                                                    *)
ServedValuesMeasured ==
  \A i \in DOMAIN served : served[i].val \in 1 .. conv

(* A cached reading does not stay in the cache for ever: whatever path    *)
(* leaves a value cached also leaves the renew timer armed.               *)
CacheEventuallyCleared ==
  (temp_cached # 0 \/ hum_cached # 0) ~> (temp_cached = 0 /\ hum_cached = 0)

=============================================================================
