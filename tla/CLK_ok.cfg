SPECIFICATION Spec
INVARIANTS CoreClockRunning FlashWaitStates DfllReferenceRunning
PROPERTY ClkInitReturns
\* clk_init returns to cpu_init, which the model does not follow further.
CHECK_DEADLOCK FALSE
