SPECIFICATION Spec
CONSTANTS
  Ingress <- TwoWorkers
  Modes <- Nodes
INVARIANTS TypeOK ClosedAfterUse DrainServes
PROPERTIES FeedDeathExits ReturnExits
