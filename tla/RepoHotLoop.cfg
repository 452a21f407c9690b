SPECIFICATION FairSpec
CONSTANTS
  Specs <- PlainSpec
  Secrets <- OneSecret
  Bootstraps <- OneBootstrap
  Texts = {"reset, port 1", "reset, port 2"}
  MissingLists = TRUE
  Lag = 2
  Faults = {"server"}
  MaxFaults = 1
PROPERTIES QuietBetweenProbes
