CONSTANTS
  i1 = i1  i2 = i2  mA = mA  mE = mE  mX = mX
  Iters = {i1, i2}
  Msgs = {mA, mE, mX}
  Body <- MCBody
  MsgValid <- MCMsgValid
  MaxOps = 6
SPECIFICATION Spec
INVARIANT TypeOK
PROPERTY Refines
