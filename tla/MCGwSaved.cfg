SPECIFICATION Spec
CONSTANTS
  Items <- MCItems
  Secrets <- MCSecrets
  Default <- MCDefault
  Fixed <- MCFixed
  useAdminPass <- Use
  adminPassword <- Pass
  True <- MCTrue
  Windows = 2
  Conns = {c1}
  Requests <- UserRequests
  Passwords <- MCPasswords
  HashName <- Hash
  MaxName = 3
  MaxValue = 3
  Images = {i1}
  Pieces = 2
  Factory = Factory
  Earlier <- MCEarlier
  LockMin = 1
  LockMax = 2
PROPERTIES
  SavedIsUsed
