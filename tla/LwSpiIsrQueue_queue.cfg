SPECIFICATION Spec
CONSTANTS
  i1 = i1
  i2 = i2
  NoInst = NoInst
  Inst <- TwoBuses
  MaxWords = 3
INVARIANTS TypeOK ActivationPerEntry InOnePlace
PROPERTIES ImplementsFifo TransactionsEnd
