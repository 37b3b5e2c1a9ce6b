SPECIFICATION StoreSpec
CONSTANTS
  Sources <- MCSources
  ModuleNames <- MCNames
  Dirs <- MCDirs
  Globals = {g}
  Projects <- MCProjects
  MaxChecks = 3
  Nil = Nil
INVARIANTS StoreTypeOK OneAnswer WholeClosure
PROPERTY OneInstance
CHECK_DEADLOCK FALSE
