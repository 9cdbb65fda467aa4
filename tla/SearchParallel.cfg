SPECIFICATION Spec
CONSTANTS
  Fulltext <- MCFulltext
  Semantic <- MCSemantic
  Grep <- MCGrep
  Requests = {{"semantic", "grep"}}
  Full = 2
  Page = 1
  MaxEvents <- MCMaxEvents
INVARIANT FinishedAfterEverySource
CHECK_DEADLOCK FALSE
