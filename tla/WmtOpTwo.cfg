CONSTANTS
  Ops = {o1, o2, o3}
  Callers = {c1}
  Resetters = {btm, dbg}
  Testers = {dbg}
  Retries = 2
  MaxCalls = 2
  MaxResets = 2
  NoOp = NoOp
SPECIFICATION Spec
CHECK_DEADLOCK FALSE
INVARIANT OnlyResetOps
