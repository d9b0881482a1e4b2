SPECIFICATION Spec
CONSTANTS
  c1 = c1  c2 = c2  r1 = r1  r2 = r2
  Calls = {c1, c2}
  Session = Session
  Roots = {r1}
  NoRoot = NoRoot
  Setups <- DetachingSetups
  MaxRuntimes = 3
  MaxIdentity = 1
  MaxChanges = 1
SYMMETRY Interchangeable
INVARIANTS AuthorityFollowsBinding
CHECK_DEADLOCK FALSE
