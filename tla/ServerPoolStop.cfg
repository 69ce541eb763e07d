\* One select loop serves two connections, one place for two models.
SPECIFICATION FairSpec
CONSTANTS
  Connections = {k1, k2}
  Models = {m0, m1}
  Default = m0
  Threads = {t1}
  MaxConnections = 2
  ConcurrentLimit = 1
  CheckModelsLoadable = TRUE
  PreloadDefault = FALSE
  Main = Main
  None = None
PROPERTIES
  StopFinishes
