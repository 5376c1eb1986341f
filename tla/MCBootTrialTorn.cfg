\* A reset tears the metadata of an application on trial in slot A.
CONSTANTS
  app = app
  plain = plain
  loader = loader
  NoImage = NoImage
  Torn = Torn
  Image = {app, plain, loader}
  Loader = {loader}
  Length <- MCLength
  Marked = {app}
  SectorChunks = 2
  MaxAttempts = 3
  Retries = 2
  Configs <- MCConfigs
  ResetCap = 1
  MaxReceived = 3

SPECIFICATION Spec

INVARIANTS
  TrialSurvivesTearing
