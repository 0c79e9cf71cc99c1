\* Two requests at a time, of every kind and in every order.
SPECIFICATION Spec
CONSTANTS
  Clients = {c1, c2}
  MaxFlowgraphs = 2
INVARIANTS
  TypeOK
  StartsStayStoppable
  LockGivenBack
  ModeTruthful
\* A start request waits in mode switching, with the lock held, while a block
\* that another request started again is on the air; all may wait behind it.
CHECK_DEADLOCK FALSE
