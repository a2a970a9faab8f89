SPECIFICATION Spec
CONSTANTS
  Pod = {p1, p2}
  NoPod = NoPod
  MaxSignals = 2
  MaxFaults = 3
INVARIANTS NoIdleLeader OnePipeline
PROPERTIES LeadershipRecovers OverlapEnds SignalEndsLeader
CHECK_DEADLOCK FALSE
