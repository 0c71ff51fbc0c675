\* Three specs, and one foreign edit, deletion, failing call or crash.
CONSTANTS
  Plan <- ServiceToDeployment
  Upserted = {"scripts"}
  Copied = {"service"}
  Watched = {"scripts", "service", "deployment"}
  Specs <- MixedSpecs
  MaxMishaps = 1
SPECIFICATION FairSpec
PROPERTIES DeploymentAfterAll CompletionStays  DegradedSettles
CHECK_DEADLOCK FALSE
