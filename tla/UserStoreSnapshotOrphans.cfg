CONSTANTS
  c1 = c1
  c2 = c2
  Clients <- MCClients
  Names <- SmallNames
  ValidNames <- SmallValidNames
  RSNames <- SmallRSNames
  RemoteSources <- SmallRSNames
  RUIDs = {1}
  TokenNames = {"t"}
  Orgs = {}
  MaxUsers = 2
  MaxLAs = 1
  MaxPage = 5
  Isolation = "snapshot"
SPECIFICATION Spec
SYMMETRY MCClientSymmetry
INVARIANT NoOrphanedUserObjects
