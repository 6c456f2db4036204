CONSTANTS
  p1 = p1
  jx = jx
  jy = jy
  ox = ox
  mx = mx
  my = my
  NoPosition = NoPosition
  NoJob = NoJob
  Position = {p1}
  Mint = {mx, my}
  Job = {jx, jy, ox}
  Owner <- MCOwner
  MintOf <- MCMintOf
  MaxTx = 3
  MaxFaults = 1
  Events <- MCBoth

SPECIFICATION Spec

INVARIANT SoldOnce
