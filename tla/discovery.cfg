CONSTANTS
  Items <- MCItems
  RepoOf <- MCRepoOf
  IdOf <- MCIdOf
  NameOf <- MCNameOf
  DepthOf <- MCDepthOf
  Official <- MCOfficial
  PageSize = 2
  MaxPages = 2
SPECIFICATION Spec
INVARIANTS
  TypeOK
  NothingOverlooked
  FirstOfTree
PROPERTIES
  ImplementsSource
