SPECIFICATION FairSpec
CONSTANTS
  Specs <- SomeSpecs
  Secrets <- SomeSecrets
  Bootstraps <- SomeBootstraps
  Texts = {"refused"}
  MissingLists = TRUE
  Lag = 2
  Faults = {"abort", "crash", "edit", "secret", "bootstrap", "server", "timeout"}
  MaxFaults = 2
INVARIANTS TypeOK ReadyIsBootstrapped
PROPERTIES ProbeTimeForward ReadyTracksTruth QuietBetweenProbes
