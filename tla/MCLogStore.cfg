SPECIFICATION Spec
CONSTANTS
  pObj = pObj
  qObj = qObj
  vObj = vObj
  Programs <- MCPrograms
  Object = {pObj, qObj, vObj}
  Persistent = {pObj, qObj}
  MaxWords = 4
  MaxRuns = 2
INVARIANTS
  TypeOK
  RollbackComplete
  StoresInOrder
  HandleMatchesBlocks
CHECK_DEADLOCK FALSE
