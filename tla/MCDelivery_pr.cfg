CONSTANTS
  Commands <- ConfiguredCommands
  HelperKinds = {"piped", "quiet", "escaped"}
  Faults = {"git", "allowlist"}
  MaxMain = 1
SPECIFICATION FairSpec
INVARIANTS SignalledNeverPasses OutputSettled OfferIsComplete
PROPERTIES RemoteAppendOnly DeliveryEnds ImplementsDispatch
CHECK_DEADLOCK FALSE
