SPECIFICATION FairSpec
CONSTANTS
  Doc1 = Doc1
  Doc2 = Doc2
  Doc3 = Doc3
  Docs <- ThreeDocs
  NoDoc = NoDoc
  NoId = NoId
INVARIANT
  FlagMeansHandler
PROPERTY
  EveryDocumentIsTried
CHECK_DEADLOCK FALSE
