CONSTANTS
  Ops = {o1, o2, o3}
  Callers = {c1}
  Resetters = {btm}
  Testers = {}
  Retries = 2
  MaxCalls = 2
  MaxResets = 1
  NoOp = NoOp
SPECIFICATION Spec
CHECK_DEADLOCK FALSE
INVARIANTS
  PoolInv
  OnlyResetOps
  EndMeansReset
  ResetWakesAll
PROPERTIES
  AnswerIsOwn
  ResetEnds
