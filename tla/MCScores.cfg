CONSTANTS
  Score <- MCScore
  Precedes <- MCPrecedes
  Width <- MCWidth
  MaxCompletions = 5
SPECIFICATION Spec
INVARIANTS TypeOK RanksFollowOrder RankLeadsToScore EveryScoreRanked
CHECK_DEADLOCK FALSE
