SPECIFICATION Spec
CONSTANTS
  Codes = {c1}
  Tokens = {t1, t2}
  Requests = {r1}
  CodeTtl = 1
  RefreshTtl = 2
  MaxTime = 2
  MaxFailures = 1
  NoCode = NoCode
  NoToken = NoToken
  NoCaller = NoCaller
  Own = Own
  Other = Other
  Callers = {Own, Other}
  CodeCaller <- MCCodeCaller
SYMMETRY Symmetry
INVARIANTS AbsoluteLifetime
