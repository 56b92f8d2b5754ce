SPECIFICATION Spec
CONSTANTS
    Tokens = {t1}
    Requests = {r1, r2}
    NoToken = NoToken
    NoCaller = NoCaller
    Own = Own
    Elsewhere = Elsewhere
    Stranger = Stranger
    Callers = {Own, Elsewhere, Stranger}
    Platform = Platform
    Custom = Custom
    Issuers = {Platform, Custom}
    IssuerOf <- MCIssuerOf
    Claims <- MCClaims
    MaxKeys = 5
    MaxRotations = 1
    MaxFailures = 1
PROPERTY KeyBackOnRetry
