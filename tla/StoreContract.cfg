CONSTANTS
  a1 = a1
  a2 = a2
  Agents <- MCAgents
  NoMessage = 0
  NoReceipt = NoReceipt
  Units <- MCUnits
  Times = {0, 1}
  PopLimit = 2
SPECIFICATION Spec
INVARIANTS StoreTypeOK AllOrNothing AppliedOnce ReceiptTruthful
PROPERTIES NoLostUpdate
