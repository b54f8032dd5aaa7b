\* One HDC1000 caller thread beside the SAUL sensors, one failed bus transfer.
CONSTANTS
  Threads = {t1}
  MaxCalls = 2
  NoThread = NoThread
  IslRange <- MCIslRange
  IslMode <- MCIslMode
  AccRate <- MCAccRate
  AccScale <- MCAccScale
  MagRate <- MCMagRate
  LightLevels <- MCLightLevels
  AccLevels <- MCAccLevels
  I2cErr <- MCI2cErr
  MaxFaults = 1
  MaxReads = 1
SPECIFICATION Spec
INVARIANTS TypeOK LightReportsLux 
PROPERTY CacheEventuallyCleared
\* Callers and the application make a bounded number of calls, then stop.
CHECK_DEADLOCK FALSE
