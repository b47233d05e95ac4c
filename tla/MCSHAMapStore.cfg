CONSTANTS
  node_a = node_a
  node_z = node_z
  Nodes <- MCNodes
  StateMap <- MCStateMap
  Dirs <- MCDirs
  Configs <- MCConfigs
  Readers = {r1}
  deleteInterval = 1
  deleteBatch = 1
  CanDeletes = {4}
  SaveFails <- MCSaveFails
  MaxUnsaved = 1
  MaxCrashes <- MCMaxCrashes
SPECIFICATION Spec
INVARIANTS StartSucceeds NodesKept FetchFinds RowsFollow
PROPERTIES StopCompletes
CHECK_DEADLOCK FALSE
