SPECIFICATION FairSpec
CONSTANTS
  MaxDepth = 2
  Settings <- AllChains
INVARIANTS
  ResultsAndDestinationsMeet
  AnswerSettlesTheChain
PROPERTY RunEndsSettled
\* a run ends when its window is answered and its decodes have ended
CHECK_DEADLOCK FALSE
