SPECIFICATION FairSpec
CONSTANTS
  s1 = s1
  s2 = s2
  Sessions = {s1, s2}
  Discarded = {s2}
  MinTopics = 1
  Tokens = 2
  MaxFacts = 2
  MaxBriefings = 3
  MaxThreads = 2
INVARIANTS ShownPlanIsCurrent RunningIsHonest OneTokenOverlap
PROPERTIES DeliberationsEnd
