\* A flowgraph that is created once.
SPECIFICATION Spec
CONSTANTS
  Clients = {c1, c2}
  MaxFlowgraphs = 1
INVARIANTS
  Stoppable
CHECK_DEADLOCK FALSE
