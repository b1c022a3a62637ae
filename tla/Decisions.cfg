SPECIFICATION Spec
CONSTANTS
  MaxItemBytes = 8
  MaxContextBytes = 20
  MaxContextItems = 4
  MaxComposedBytes = 99
  MaxMatches = 1
  Frame = 2
  Plans <- MCPlans
  Pressures <- MCPressures
INVARIANTS GatheredIsThePlan ManageDropsLeast
CHECK_DEADLOCK FALSE
