\* One resource of each style, with users and faults.
CONSTANTS
  plain = plain
  labelled = labelled
  Tampered = Tampered
  Bare = Bare
  Styles <- All
  Wanted <- Specs
  Labelled <- Labels
  Malformed <- NoSize
  MaxMishaps = 3
  MaxLag = 2
SPECIFICATION Spec
PROPERTIES ForeignKept SuccessIsReal CredentialsStay EnsureConverges
CHECK_DEADLOCK FALSE
