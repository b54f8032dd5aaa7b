----------------------------- MODULE MCSamdClock -----------------------------
(***************************************************************************)
(* SamdClock for two board configurations at once, chosen in the initial *)
(* state and never changed: the DFLL48M build (CLOCK_USE_FLL, 48 MHz,     *)
(* TIMER_1 and the RTT clocked) and the OSC8M build (8 MHz, neither       *)
(* timer generator).  Together they take every #if branch of clk_init.    *)
(***************************************************************************)
EXTENDS Naturals

VARIABLES pc, gen, chan, osc8m, dfll, rws, syncbusy,
          use_fll   \* the board: CLOCK_USE_FLL

Fll == INSTANCE SamdClock
         WITH CLOCK_USE_FLL <- TRUE, CLOCK_CORECLOCK <- 48000000,
              TIMER_1_EN <- TRUE, TIMER_RTT_EN <- TRUE
Osc == INSTANCE SamdClock
         WITH CLOCK_USE_FLL <- FALSE, CLOCK_CORECLOCK <- 8000000,
              TIMER_1_EN <- FALSE, TIMER_RTT_EN <- FALSE

vars == <<Fll!vars, use_fll>>

Init == use_fll \in BOOLEAN /\ Fll!Init

Next ==
  \/ use_fll /\ Fll!Next /\ UNCHANGED use_fll
  \/ ~use_fll /\ Osc!Next /\ UNCHANGED use_fll

(* The fairness of SamdClock, for the board the behaviour runs on. *)
Spec ==
  /\ Init /\ [][Next]_vars
  /\ WF_vars(use_fll /\ Fll!Exec /\ UNCHANGED use_fll)
  /\ WF_vars(~use_fll /\ Osc!Exec /\ UNCHANGED use_fll)
  /\ WF_vars(Fll!GclkSyncDone /\ UNCHANGED use_fll)
  /\ WF_vars(Fll!DfllSyncDone /\ UNCHANGED use_fll)
  /\ WF_vars(Fll!Osc8mSettles /\ UNCHANGED use_fll)

-----------------------------------------------------------------------------
(* The properties of SamdClock, on the board the behaviour runs on. *)
CoreClockRunning == IF use_fll THEN Fll!CoreClockRunning ELSE Osc!CoreClockRunning
FlashWaitStates == IF use_fll THEN Fll!FlashWaitStates ELSE Osc!FlashWaitStates
DfllReferenceRunning == IF use_fll THEN Fll!DfllReferenceRunning ELSE Osc!DfllReferenceRunning
ClkInitReturns == <>(IF use_fll THEN Fll!Done ELSE Osc!Done)

=============================================================================
