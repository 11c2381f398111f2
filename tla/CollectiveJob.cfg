CONSTANTS Ranks = {0, 1, 2}
          MaxIds = 3
SPECIFICATION JobSpec
INVARIANT AllHaveTheIdOfRank0
CHECK_DEADLOCK FALSE
