SPECIFICATION Spec
CONSTANTS
  IDLength = 3
  TxIDs <- MCTxIDs
  Blocks <- MCBlocks
  ScaleSize = 3
  MaxCount = 4
  Null = null
INVARIANTS TypeOK ListsClose Searchable BucketsStaySmall
PROPERTIES AddKeepsOthers RemoveIsLocal
