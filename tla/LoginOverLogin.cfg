SPECIFICATION Spec
CONSTANTS
  Handler = {h1, h2}
  Worker = w
  User = {w}
  Limits <- TwoLogins
  Capacity = 1
INVARIANTS OneLoginFlow
