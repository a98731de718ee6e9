CONSTANTS
  a1 = a1
  a2 = a2
  Agents <- MCAgents
  NoMessage = 0
  NoReceipt = NoReceipt
  NoTxn = NoTxn
  NoUnit = NoUnit
  Units <- MCUnits
  Times = {0, 1}
  PopLimit = 2
SPECIFICATION Spec
INVARIANTS NoTransactionLeaks
PROPERTIES ImplementsContract
