\* Every implementation, and up to four operations.
SPECIFICATION Spec
CONSTANT MaxMessages = 4
INVARIANTS
  MessagesAreReportedOnce
  WorkersEndBeforeTheirBase
PROPERTIES
  FailedWorkersLetTheDestructorEnd
\* A destructor waits for an operation that need not end.
CHECK_DEADLOCK FALSE
