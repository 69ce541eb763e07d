\* A thread per connection: three connections over three models and two
\* places, one of them kept by the preloaded default model.
SPECIFICATION FairSpec
CONSTANTS
  Connections = {k1, k2, k3}
  Models = {m0, m1, m2}
  Default = m0
  Threads = {}
  MaxConnections = 3
  ConcurrentLimit = 2
  CheckModelsLoadable = TRUE
  PreloadDefault = TRUE
  Main = Main
  None = None
INVARIANTS
  WorksWithLoadedModel
  NoLeakedModel
  QuietExit
PROPERTIES
  StopFinishes
  ConnectionsEnd
