\* Two clients start with specs that differ, from directories of their own; one
\* names the envelope, one creates it directly, and a caller of the store lacks
\* its provider.  Each may begin twice.
CONSTANTS
  None = None
  Clients <- MCClients
  Specs <- MCSpecs
  Roots <- MCRoots
  ById = {"named"}
  Direct = {"direct"}
  Unprovided = {"poor"}
  MaxTries = 2
SPECIFICATION FairSpec
INVARIANT RowsHaveTheirKeys
INVARIANT BoundClientsAgree
INVARIANT KeysLeftWereCutOff
PROPERTY StartsEnd
CHECK_DEADLOCK FALSE
