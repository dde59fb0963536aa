SPECIFICATION RegulatorSpec
CONSTANTS
  Devices <- MCDevices
  StepCtrls <- MCStepCtrls
  Configs <- MCConfigs
  MaxRetries = 3
  Disables = "idle"
  SawFaults = {}
INVARIANTS RequestsServed SettingsHeld RetriesBounded
PROPERTIES Retried
CHECK_DEADLOCK FALSE
