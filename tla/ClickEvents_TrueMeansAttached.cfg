SPECIFICATION Spec
CONSTANTS
  Doc1 = Doc1
  Doc2 = Doc2
  Doc3 = Doc3
  Docs <- ThreeDocs
  NoDoc = NoDoc
  NoId = NoId
INVARIANT
  TrueMeansAttached
CHECK_DEADLOCK FALSE
