------------------------------ MODULE SamdClock ------------------------------
(***************************************************************************)
(* clk_init of cpu/samd21/cpu.c: the SAMD21 clock tree set up by a        *)
(* straight-line sequence of register writes and busy-waits.              *)
(*                                                                         *)
(* ClkInit is the program: one record per register write or busy-wait    *)
(* loop, in source order, with the #if branches chosen by the board       *)
(* constants.  Exec runs the instruction at pc; a busy-wait is an         *)
(* instruction that cannot run until its exit condition holds.  The       *)
(* hardware is the environment: the GCLK write synchronisation, the DFLL  *)
(* register synchronisation (PCLKSR.DFLLRDY) and OSC8M start/stop         *)
(* (PCLKSR.OSC8MRDY) finish some time later.  A write to GENCTRL, GENDIV  *)
(* or CTRL of GCLK stalls the bus while GCLK is synchronising.            *)
(*                                                                         *)
(* Not modelled: the APBAMASK/APBBMASK writes (every register written     *)
(* here has its bus clock on when written), the DFLL step sizes, the      *)
(* RUNSTDBY/ONDEMAND bits, and DFLL lock: DFLL48M's frequency is taken to *)
(* be MUL times its 32.768 kHz reference once it is enabled.              *)
(***************************************************************************)
EXTENDS Naturals, Sequences

CONSTANTS
  CLOCK_USE_FLL,     \* periph_conf.h: DFLL48M (1) or OSC8M (0) core clock
  CLOCK_CORECLOCK,   \* periph_conf.h: core clock frequency in Hz
  TIMER_1_EN,        \* periph_conf.h: clock generator 3 for TIMER_1
  TIMER_RTT_EN       \* periph_conf.h: clock generator 2 for the RTT

ASSUME CLOCK_USE_FLL \in BOOLEAN /\ TIMER_1_EN \in BOOLEAN
ASSUME TIMER_RTT_EN \in BOOLEAN /\ CLOCK_CORECLOCK \in Nat

VARIABLES
  pc,        \* index of the next instruction of ClkInit
  gen,       \* GCLK generators: source, GENEN, divisor
  chan,      \* GCLK channels (CLKCTRL): generator and CLKEN
  osc8m,     \* SYSCTRL OSC8M: ENABLE, PCLKSR.OSC8MRDY, PRESC
  dfll,      \* SYSCTRL DFLL48M: ENABLE, PCLKSR.DFLLRDY, closed loop, MUL
  rws,       \* NVMCTRL CTRLB.RWS: flash read wait states
  syncbusy   \* GCLK STATUS.SYNCBUSY

vars == <<pc, gen, chan, osc8m, dfll, rws, syncbusy>>

Gens == 0 .. 7
Channels == 0 .. 36            \* GCLK_CLKCTRL_ID 0x00 .. 0x24
DFLL48_ID == 0                  \* GCLK_CLKCTRL_ID_DFLL48_Val
Sources == {"XOSC", "OSC8M", "OSCULP32K", "DFLL48M"}

(* One instruction: a register write (op, register id, value) or a        *)
(* busy-wait (op "WAIT", the condition in arg).                          *)
I(op, id, arg) == [op |-> op, id |-> id, arg |-> arg]
Wait(cond) == I("WAIT", 0, cond)

(* GCLK_GENDIV_DIV(d): 0 and 1 both mean no division. *)
GenDivisor(d) == IF d = 0 THEN 1 ELSE d

(* GCLK after CTRL.SWRST: generator 0 runs from OSC8M, the others and all *)
(* channels are disabled.                                                 *)
GclkReset ==
  [gen  |-> [g \in Gens |-> [src |-> IF g = 0 THEN "OSC8M" ELSE "XOSC",
                             en |-> g = 0, div |-> 1]],
   chan |-> [c \in Channels |-> [gen |-> 0, en |-> FALSE]]]

-----------------------------------------------------------------------------
(* Lines 33-38: one flash wait state above 24 MHz. *)
RwsSteps ==
  IF CLOCK_CORECLOCK > 24000000 THEN << I("RWS", 0, 1) >> ELSE << >>

(* Mutant: OSC8M is switched off before generator 0 leaves it. *)
FllStepsEarlyOsc8mOff ==
  << I("SWRST", 0, 0), Wait("SYNC"),
     I("GENDIV", 1, 0), I("GENCTRL", 1, "OSCULP32K"),
     I("CLKCTRL", DFLL48_ID, [gen |-> 1, en |-> TRUE]), Wait("SYNC"),
     I("DFLLCTRL", 0, CLOCK_CORECLOCK \div 32768), I("DFLLEN", 0, 0),
     Wait("DFLLRDY"),
     I("OSC8M", 0, [en |-> FALSE, presc |-> 3]), Wait("OSC8M_OFF"),
     I("GENDIV", 0, 0), I("GENCTRL", 0, "DFLL48M") >>
  \o (IF TIMER_1_EN THEN << I("GENDIV", 3, 6), I("GENCTRL", 3, "DFLL48M") >>
                    ELSE << >>)

(* Lines 40-91, CLOCK_USE_FLL: OSCULP32K -> generator 1 -> DFLL48M        *)
(* (closed loop, MUL = CLOCK_CORECLOCK / 32768) -> generator 0, and       *)
(* generator 3 (TIMER_1) at 48/6 MHz; OSC8M is switched off last.  The   *)
(* DFLLCTRL/DFLLMUL bit-field writes of lines 62-70 are one write.        *)
FllSteps ==
  << I("SWRST", 0, 0), Wait("SYNC"),
     I("GENDIV", 1, 0), I("GENCTRL", 1, "OSCULP32K"),
     I("CLKCTRL", DFLL48_ID, [gen |-> 1, en |-> TRUE]), Wait("SYNC"),
     I("DFLLCTRL", 0, CLOCK_CORECLOCK \div 32768), I("DFLLEN", 0, 0),
     Wait("DFLLRDY"),
     I("GENDIV", 0, 0), I("GENCTRL", 0, "DFLL48M") >>
  \o (IF TIMER_1_EN THEN << I("GENDIV", 3, 6), I("GENCTRL", 3, "DFLL48M") >>
                    ELSE << >>)
  \o << I("OSC8M", 0, [en |-> FALSE, presc |-> 3]), Wait("OSC8M_OFF") >>

(* Lines 93-111, otherwise: OSC8M undivided -> generators 0 and 3. *)
Osc8mSteps ==
  << I("OSC8M", 0, [en |-> TRUE, presc |-> 0]), Wait("OSC8MRDY"),
     I("SWRST", 0, 0), Wait("SYNC"),
     I("GENDIV", 0, 0), I("GENCTRL", 0, "OSC8M") >>
  \o (IF TIMER_1_EN THEN << I("GENDIV", 3, 0), I("GENCTRL", 3, "OSC8M") >>
                    ELSE << >>)

(* Lines 117-126: generator 2 (RTT) from OSCULP32K. *)
RttSteps ==
  IF TIMER_RTT_EN
    THEN << I("GENDIV", 2, 0), I("GENCTRL", 2, "OSCULP32K"), Wait("SYNC") >>
    ELSE << >>

(* Mutant: the loop starts at channel 0. *)
ParkBoundsFromZero == <<0, 34>>

(* Line 130: for (int i = 0x3; i <= 0x22; i++). *)
ParkBounds == <<3, 34>>

(* Lines 130-133: each channel to the disabled generator 7, then a sync   *)
(* wait.                                                                  *)
ParkSteps ==
  LET lo == ParkBounds[1]
      n == ParkBounds[2] - lo + 1
  IN [k \in 1 .. 2 * n |->
        IF k % 2 = 1
          THEN I("CLKCTRL", lo + (k - 1) \div 2, [gen |-> 7, en |-> FALSE])
          ELSE Wait("SYNC")]

(* Mutant: the flash wait state is set after the core clock switch. *)
ClkInitLateRws ==
  (IF CLOCK_USE_FLL THEN FllSteps ELSE Osc8mSteps)
  \o RwsSteps \o << Wait("SYNC") >> \o RttSteps \o ParkSteps

(* clk_init, lines 27-135. *)
ClkInit ==
  RwsSteps \o (IF CLOCK_USE_FLL THEN FllSteps ELSE Osc8mSteps)
  \o << Wait("SYNC") >> \o RttSteps \o ParkSteps

-----------------------------------------------------------------------------
(* The exit conditions of the busy-wait loops. *)
GclkSynced == ~syncbusy                     \* lines 43, 59, 101, 114, 125, 132
DfllReady == dfll.rdy                       \* line 72

(* Mutant: the loop waits for OSC8MRDY to be set rather than cleared. *)
Osc8mStoppedInverted == osc8m.rdy

Osc8mStopped == ~osc8m.rdy                  \* line 91
Osc8mReady == osc8m.rdy                     \* line 98

Waited(cond) ==
  CASE cond = "SYNC"      -> GclkSynced
    [] cond = "DFLLRDY"   -> DfllReady
    [] cond = "OSC8M_OFF" -> Osc8mStopped
    [] cond = "OSC8MRDY"  -> Osc8mReady

(* Each kind of instruction, as executed at pc. *)
BusyWait(w) ==
  /\ w.op = "WAIT" /\ Waited(w.arg)
  /\ UNCHANGED <<gen, chan, osc8m, dfll, rws, syncbusy>>

GclkSwrst(w) ==
  /\ w.op = "SWRST" /\ ~syncbusy
  /\ gen' = GclkReset.gen /\ chan' = GclkReset.chan /\ syncbusy' = TRUE
  /\ UNCHANGED <<osc8m, dfll, rws>>

GclkGenDiv(w) ==
  /\ w.op = "GENDIV" /\ ~syncbusy
  /\ gen' = [gen EXCEPT ![w.id].div = GenDivisor(w.arg)] /\ syncbusy' = TRUE
  /\ UNCHANGED <<chan, osc8m, dfll, rws>>

GclkGenCtrl(w) ==
  /\ w.op = "GENCTRL" /\ ~syncbusy
  /\ gen' = [gen EXCEPT ![w.id].src = w.arg, ![w.id].en = TRUE]
  /\ syncbusy' = TRUE
  /\ UNCHANGED <<chan, osc8m, dfll, rws>>

(* CLKCTRL is not write-synchronised. *)
GclkClkCtrl(w) ==
  /\ w.op = "CLKCTRL"
  /\ chan' = [chan EXCEPT ![w.id] = w.arg]
  /\ UNCHANGED <<gen, osc8m, dfll, rws, syncbusy>>

(* A DFLL register write clears DFLLRDY until it is synchronised. *)
DfllCtrl(w) ==
  /\ w.op = "DFLLCTRL"
  /\ dfll' = [dfll EXCEPT !.closed = TRUE, !.mul = w.arg, !.rdy = FALSE]
  /\ UNCHANGED <<gen, chan, osc8m, rws, syncbusy>>

DfllEnable(w) ==
  /\ w.op = "DFLLEN"
  /\ dfll' = [dfll EXCEPT !.en = TRUE, !.rdy = FALSE]
  /\ UNCHANGED <<gen, chan, osc8m, rws, syncbusy>>

Osc8mCtrl(w) ==
  /\ w.op = "OSC8M"
  /\ osc8m' = [osc8m EXCEPT !.en = w.arg.en, !.presc = w.arg.presc]
  /\ UNCHANGED <<gen, chan, dfll, rws, syncbusy>>

NvmRws(w) ==
  /\ w.op = "RWS"
  /\ rws' = w.arg
  /\ UNCHANGED <<gen, chan, osc8m, dfll, syncbusy>>

(* The CPU executes the instruction at pc. *)
Exec ==
  /\ pc \in DOMAIN ClkInit
  /\ LET w == ClkInit[pc] IN
       \/ BusyWait(w) \/ GclkSwrst(w) \/ GclkGenDiv(w) \/ GclkGenCtrl(w)
       \/ GclkClkCtrl(w) \/ DfllCtrl(w) \/ DfllEnable(w) \/ Osc8mCtrl(w)
       \/ NvmRws(w)
  /\ pc' = pc + 1

(* Hardware: GCLK, DFLL and OSC8M finish synchronising or settling. *)
GclkSyncDone ==
  /\ syncbusy /\ syncbusy' = FALSE
  /\ UNCHANGED <<pc, gen, chan, osc8m, dfll, rws>>

DfllSyncDone ==
  /\ ~dfll.rdy /\ dfll' = [dfll EXCEPT !.rdy = TRUE]
  /\ UNCHANGED <<pc, gen, chan, osc8m, rws, syncbusy>>

Osc8mSettles ==
  /\ osc8m.rdy # osc8m.en /\ osc8m' = [osc8m EXCEPT !.rdy = osc8m.en]
  /\ UNCHANGED <<pc, gen, chan, dfll, rws, syncbusy>>

(* Reset values; the watchdog disable and cortexm_init before clk_init do *)
(* not touch these registers.  OSC8M runs at 8 MHz / 2^3.                 *)
Init ==
  /\ pc = 1
  /\ gen = GclkReset.gen /\ chan = GclkReset.chan
  /\ osc8m = [en |-> TRUE, rdy |-> TRUE, presc |-> 3]
  /\ dfll = [en |-> FALSE, rdy |-> TRUE, closed |-> FALSE, mul |-> 0]
  /\ rws = 0
  /\ syncbusy = FALSE

Next == Exec \/ GclkSyncDone \/ DfllSyncDone \/ Osc8mSettles

(* The CPU runs while it has a clock, and the hardware finishes every     *)
(* synchronisation it starts.                                             *)
Fairness ==
  /\ WF_vars(Exec)
  /\ WF_vars(GclkSyncDone) /\ WF_vars(DfllSyncDone) /\ WF_vars(Osc8mSettles)

Spec == Init /\ [][Next]_vars /\ Fairness

-----------------------------------------------------------------------------
Running(src) ==
  CASE src = "OSC8M"     -> osc8m.en
    [] src = "DFLL48M"   -> dfll.en
    [] src = "OSCULP32K" -> TRUE
    [] src = "XOSC"      -> FALSE

SrcFreq(src) ==
  CASE ~Running(src)     -> 0
    [] src = "OSC8M"     -> 8000000 \div 2 ^ osc8m.presc
    [] src = "DFLL48M"   -> dfll.mul * 32768
    [] src = "OSCULP32K" -> 32768

CoreFreq == SrcFreq(gen[0].src) \div gen[0].div

Done == pc = Len(ClkInit) + 1

(* The CPU never loses its clock: generator 0 is enabled and its source  *)
(* oscillator runs at every step.  Lines 86-89 say OSC8M may only be     *)
(* switched off after another oscillator feeds generator 0.              *)
CoreClockRunning == gen[0].en /\ Running(gen[0].src)

(* The flash never runs above 24 MHz with zero wait states (the NVM       *)
(* wait-state adjustment of lines 33-38 comes before the switch to        *)
(* DFLL48M).                                                              *)
FlashWaitStates == CoreFreq > 24000000 => rws >= 1

(* While DFLL48M runs closed-loop, its reference channel (GCLK_DFLL48M_REF *)
(* fed by generator 1 at line 57) stays enabled on a running generator:  *)
(* the loop that parks unused channels on generator 7 must skip it.      *)
DfllReferenceRunning ==
  dfll.en /\ dfll.closed =>
    LET c == chan[DFLL48_ID] IN
      c.en /\ gen[c.gen].en /\ Running(gen[c.gen].src)

(* clk_init returns: none of its busy-wait loops spins forever. *)
ClkInitReturns == <>Done

====
