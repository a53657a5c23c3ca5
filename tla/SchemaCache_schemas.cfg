SPECIFICATION Spec
CONSTANTS
  Charts = {"parent", "sub", "faulty"}
  Related <- Family
  Faulty = {"faulty"}
  Unwritable = {"parent"}
  Requests = {"r1", "r2"}
  Checksums <- SubChanges
  Calm = TRUE
INVARIANTS
  TypeOK
  RefsExist
  
PROPERTIES
  AnsweredOneByOne
CHECK_DEADLOCK FALSE
