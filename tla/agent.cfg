SPECIFICATION FairSpec
CONSTANTS
  SERVICES <- MCServices
  Http <- MCHttp
  Redis = "redis"
  Rules <- MCRules
  LlmThreshold = 2
  MaxRestart = 1
  MaxChange = 2
INVARIANTS CounterSettles ToldIsSeen
PROPERTY FaultIsTold
