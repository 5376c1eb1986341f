\* Images of one and a half sectors, damaged packets, resets at any point.
CONSTANTS
  app = app
  plain = plain
  loader = loader
  NoImage = NoImage
  Torn = Torn
  Image = {app, plain, loader}
  Loader = {loader}
  Length <- MCLength
  Marked = {app}
  SectorChunks = 2
  MaxAttempts = 2
  Retries = 2
  Configs <- MCConfigs
  ResetCap = 1
  MaxReceived = 3

SPECIFICATION Spec

INVARIANTS
  TypeOK
  BootsOnlyValid
  TrialBounded

PROPERTIES
  ActiveUntouched
