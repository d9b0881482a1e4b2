SPECIFICATION Spec
CONSTANTS
  c1 = c1  c2 = c2  r1 = r1  r2 = r2
  Calls = {c1, c2}
  Session = Session
  Roots = {r1, r2}
  NoRoot = NoRoot
  Setups <- SafetySetups
  MaxRuntimes = 3
  MaxIdentity = 2
  MaxChanges = 1
SYMMETRY Interchangeable
INVARIANTS AuthorityFollowsBinding ResponsesTrue QuietAfterClose
PROPERTIES SwitchesClean
CHECK_DEADLOCK FALSE
