CONSTANTS
  p1 = p1
  jx = jx
  jy = jy
  ox = ox
  mx = mx
  my = my
  NoPosition = NoPosition
  NoJob = NoJob
  Position = {p1}
  Mint = {mx, my}
  Job = {jx, jy, ox}
  Owner <- MCOwner
  MintOf <- MCMintOf
  MaxTx = 3
  MaxFaults = 2
  Events <- MCBoth

SPECIFICATION Spec

INVARIANT TypeOK
INVARIANT ConfirmedIsSold
INVARIANT FinalGroupSettled
PROPERTY NoBlindResubmit
PROPERTY SignatureKept
PROPERTY FinalIsForever
PROPERTY ImplementsLedger
