SPECIFICATION Spec
CONSTANTS
  Charts = {"parent", "sub", "faulty"}
  Related <- Family
  Faulty = {"faulty"}
  Unwritable = {}
  Requests = {"r1"}
  Checksums <- BothChange
  Calm = TRUE
PROPERTIES
  EventuallyAnswered
CHECK_DEADLOCK FALSE
