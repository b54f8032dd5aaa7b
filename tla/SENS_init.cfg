\* lsm303c_init beside the HDC1000 caller, with one failed bus transfer.
CONSTANTS
  Threads = {t1}
  MaxCalls = 2
  NoThread = NoThread
  IslRange <- MCIslRange
  IslMode <- MCIslMode
  AccRate <- MCAccRate
  AccScale <- MCAccScale
  MagRate <- MCMagRate
  LightLevels <- MCLightLevels
  AccLevels <- MCAccLevels
  I2cErr <- MCI2cErr
  MaxFaults = 1
  MaxReads = 1
SPECIFICATION Spec
INVARIANT RegisteredSensorsConfigured
\* Callers and the application make a bounded number of calls, then stop.
CHECK_DEADLOCK FALSE
