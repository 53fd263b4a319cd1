SPECIFICATION Spec
CONSTANTS
  Ingress <- TwoWorkers
  Modes <- Nodes
INVARIANT ReadyMeansIngress
