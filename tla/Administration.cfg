SPECIFICATION Spec
CONSTANTS
    Tenants = {t1, t2}
    Clients = {c1, c2}
    Requests = {r1, r2}
    Profiles = {"web", "spa", "db"}
    Sources = {"fixed", "hook"}
    MaxSecrets = 2
    MaxJobs = 3
    MaxFailures = 1
    None = None
SYMMETRY Symmetry
INVARIANTS
    TypeOK
    ClientRowConsistent
    TablesAgree
    RegistrationIsWhole
    DeletedIsGone
PROPERTY PolicyKept
