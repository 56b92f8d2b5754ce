SPECIFICATION Spec
CONSTANTS
  Codes = {c1}
  Tokens = {t1, t2, t3, t4}
  Requests = {r1, r2}
  CodeTtl = 1
  RefreshTtl = 2
  MaxTime = 3
  MaxFailures = 1
  NoCode = NoCode
  NoToken = NoToken
  NoCaller = NoCaller
  Own = Own
  Other = Other
  Callers = {Own, Other}
  CodeCaller <- MCCodeCaller
SYMMETRY Symmetry
INVARIANTS TypeOK LineIsLinear LineSurvives RotationIsRecorded GrantedInTime RevokedIsConsumed
PROPERTIES IsOneTimeArtifact
