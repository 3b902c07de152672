SPECIFICATION Spec
CONSTANTS
  Arity <- MCArity
  Args <- MCArgs
  EmptyLogAnswers = {TRUE, FALSE}
  MaxCalls = 3
INVARIANTS
  ReplayFaithful
  ReplayComplete
