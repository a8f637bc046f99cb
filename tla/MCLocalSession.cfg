\* Two processes with one id, each with up to two sessions and two requests.
SPECIFICATION FairSpec
CONSTANTS
  q1 = q1
  q2 = q2
  Req = {q1, q2}
  MaxProcesses = 2
  MaxFaults = 1
INVARIANTS
  OrderlyExitTearsDown
  AgentReachable
  FatalNeedsFault
  DrainedBeforeStop
PROPERTY
  QuitEnds
CHECK_DEADLOCK FALSE
