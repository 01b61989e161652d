CONSTANTS
  w1 = w1
  w2 = w2
  o1 = o1
  o2 = o2
  Workers <- TwoWorkers
  Operations <- TwoOperations
  MaxOverlaps = 1
SPECIFICATION FairSpec
INVARIANTS ChannelSound
PROPERTIES PipelineOnlyGrows PeerConnectsBack
CHECK_DEADLOCK FALSE
