SPECIFICATION Spec
CONSTANTS
    Users = {u1, u2}
    agent = agent
    read = read
    publish = publish
    Clients = {agent}
    Scopes = {read, publish}
    ManagedScopes = {read, publish}
    Allowed <- AllowedDef
    Managed = Managed
    Consents = {n1}
    Codes = {k1, k2}
    Requests = {r1, r2}
    CodeTtl = 1
    ConsentTtl = 1
    TokenTtl = 1
    ReaderTtl = 2
    MaxTime = 1
    MaxPatches = 1
    MaxTokens = 2
    None = None
SYMMETRY Symmetry
INVARIANTS
    TypeOK
    DecisionIsFinal
    ResourceHeld
    ScopeCeiling
    ScopedWithinSubject
PROPERTIES IsOneTimeArtifact
