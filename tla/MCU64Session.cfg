\* Two sessions on one device; a product with the steps 1 and 48 MHz.
SPECIFICATION FairSpec
CONSTANTS
  ada = ada
  bob = bob
  Tools <- MCTools
  Nobody = Nobody
  Plans <- MCPlans
  Found <- MCFound
  Steps = {1, 48}
  InitMhz = 48
  MaxPolls = 1
INVARIANTS
  MeasurementRight
  SentinelMeansThisRun
  ConfigHandedBack
  CompleteOrFailed
PROPERTIES
  SessionEnds
