SPECIFICATION Spec
CONSTANTS
  Types = {"float", "double"}
  Size <- MCSize
  Units <- MCUnits
  Slots = 1
  Programs <- MCPrograms
  LastOp <- MCLastOp
  MaxPass = 10
INVARIANT InstrSplitsDivide
