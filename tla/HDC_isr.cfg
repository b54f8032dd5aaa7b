\* One caller thread against the renew timer interrupt.
CONSTANTS
  Threads = {t1}
  MaxCalls = 3
  NoThread = NoThread
SPECIFICATION Spec
INVARIANT ServedValuesMeasured
\* Each thread makes MaxCalls calls and then stops.
CHECK_DEADLOCK FALSE
