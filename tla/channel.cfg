SPECIFICATION FairSpec
CONSTANTS
  None = None
  Request = {r1, r2, r3}
  Cancellable = {r1, r2}
INVARIANTS
  TypeOK
  NoLostWakeup
  ClosedIsDrained
  NothingAfterTruncated
PROPERTIES
  ImplementsPipe
  AnsweredUnlessCancelled
  CloseAnswersAll
CHECK_DEADLOCK FALSE
