SPECIFICATION Spec
CONSTANTS
  ScanChannels = {1, 36}
  Masks <- MCMasks
  Faults <- MCFaults
INVARIANTS ScanBooksAgree ScanSound LinkAgrees DeviceUnwinds
PROPERTIES CancelEnds
