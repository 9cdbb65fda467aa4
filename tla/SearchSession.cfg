SPECIFICATION FairSpec
CONSTANTS
  Fulltext <- MCFulltext
  Semantic <- MCSemantic
  Grep <- MCGrep
  Requests = {{}, {"semantic"}, {"grep"}, {"semantic", "grep"}}
  Full = 2
  Page = 1
  MaxEvents <- MCMaxEvents
INVARIANTS PublishedOnce FinishedIsComplete CompletedIsFinished NotLostWithoutReason
PROPERTIES PagesAreImmutable SearchEnds SessionIsCollected
CHECK_DEADLOCK FALSE
