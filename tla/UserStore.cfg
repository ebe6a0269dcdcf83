CONSTANTS
  c1 = c1
  c2 = c2
  Clients <- OneClient
  Names <- MCNames
  ValidNames <- MCValidNames
  RSNames <- MCRSNames
  RemoteSources <- MCRemoteSources
  RUIDs = {1, 2}
  TokenNames = {"t"}
  Orgs = {"o"}
  MaxUsers = 2
  MaxLAs = 2
  MaxPage = 5
  Isolation = "serializable"
SPECIFICATION Spec
INVARIANTS TypeOK UserNamesUnique NoOrphanedUserObjects PaginationMatchesReference
PROPERTIES OwnerOnlyChangesOwnObjects
