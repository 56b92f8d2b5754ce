SPECIFICATION Spec
CONSTANTS
    Tenants = {t1}
    Clients = {c1}
    Requests = {r1, r2}
    Profiles = {"web"}
    Sources = {"hook"}
    MaxSecrets = 2
    MaxJobs = 3
    MaxFailures = 0
    None = None
SYMMETRY Symmetry
INVARIANT ReplacedSecretIsDead
