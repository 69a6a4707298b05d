SPECIFICATION SpuriousSpec
CONSTANTS
  NumWorkers = 2
  M = 8
  Ranges <- OneTask
  MaxDepth = 1
INVARIANTS
  TasksCompleteOnReturn
