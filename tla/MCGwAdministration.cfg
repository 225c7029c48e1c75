SPECIFICATION FairSpec
CONSTANTS
  Items <- MCItems
  Secrets <- MCSecrets
  Default <- MCDefault
  Fixed <- MCFixed
  useAdminPass <- Use
  adminPassword <- Pass
  True <- MCTrue
  Windows = 1
  Conns = {c1, c2}
  Requests <- MCRequests
  Passwords <- MCPasswords
  HashName <- Hash
  MaxName = 3
  MaxValue = 3
  Images = {i1}
  Pieces = 2
  Factory = Factory
  Earlier <- MCEarlier
  LockMin = 2
  LockMax = 2
INVARIANTS
  TypeOK
  StoredWhole
PROPERTIES
  OnlyWithPassword
  UploadNotDisturbed
  UploadPossible
