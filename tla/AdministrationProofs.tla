------------------------- MODULE AdministrationProofs -------------------------
(***************************************************************************)
(* Theorems about Administration, for any number of tenants, clients and   *)
(* requests, any profiles and claims, and any bounds.                      *)
(***************************************************************************)
EXTENDS Administration, FiniteSetTheorems, TLAPS

-----------------------------------------------------------------------------
(* What a request carries depends on where it is. *)

Newborn == {"checkDb", "insertRow"}
Stored == {"insertClaims", "storeToken", "insertPolicy", "record"}
RegPCs == Newborn \cup Stored \cup {"undo"}
TenantPCs == {"tenantInsert", "tenantDelete"}
Writers == {"patchDb", "patchClaims", "patchWrite", "resetWrite"}
Registering == {"admin", "dynamic", "mcp"}

\* What ClientRowConsistent says of one row.
RowOk(x) ==
    /\ x.method = "none" <=> x.secret = 0
    /\ x.profile \in {"spa", "db"} => x.method = "none"

RequestKnown(q) ==
    /\ q \in Request
    /\ q.pc \in {"idle"} \cup TenantPCs => q.client = None
    /\ q.pc \notin {"idle"} \cup TenantPCs => q.client \in Clients
    /\ q.pc \in TenantPCs \cup RegPCs => q.tenant \in Tenants
    /\ q.pc \in RegPCs <=> q.kind \in Registering
    /\ q.pc \in Newborn \cup Writers => q.row \in Row /\ RowOk(q.row)
    /\ q.pc = "resetWrite" => q.row.method # "none"
    /\ q.pc \in Newborn \cup {"insertClaims", "patchReplace"} =>
         q.claims \in SUBSET Sources
    /\ q.kind = "edit" => /\ q.pc \in {"editGet", "getPolicy", "getCreate", "form"}
                          /\ q.row \in Row
                          /\ q.pc \in {"getCreate", "form"} => q.claims \in SUBSET Sources

Typed ==
    /\ TypeOK /\ ClientRowConsistent
    /\ \A r \in Requests : RequestKnown(req[r])

-----------------------------------------------------------------------------
(* How far a registration has come shows in the tables, unless its client  *)
(* was deleted or part of it could not be taken back.                      *)

Untouched(c) ==
    row[c] = None /\ claims[c] = {} /\ policy[c] = "none" /\ c \notin tokens

RequestOk(q) ==
    LET c == q.client
    IN  /\ q.pc \in Newborn => Untouched(c) /\ outcome[c] = "open"
        /\ q.pc \in Stored \cup {"undo"} => outcome[c] \in {"open", "deleted", "stranded"}
        /\ q.pc \in Stored /\ outcome[c] = "open" =>
             /\ Present(c)
             /\ q.pc \in {"insertPolicy", "record"} => c \in tokens
             /\ q.pc = "record" /\ q.kind = "admin" => policy[c] # "none"
        /\ q.pc = "undo" /\ outcome[c] = "open" =>
             /\ "row" \notin q.undo => ~Present(c) /\ claims[c] = {} /\ policy[c] = "none"
             /\ "token" \notin q.undo => c \notin tokens
        /\ q.pc = "mcpToken" => ~Present(c)
        /\ q.pc \in Writers /\ Present(c) => row[c].tenant = q.row.tenant
        /\ c \in Clients => outcome[c] # "unused"

\* Nobody else knows a client whose row is not inserted yet, and a client has
\* one registration.
Apart(p, q) ==
    /\ p.pc \in Newborn => q.client # p.client
    /\ p.pc \in RegPCs /\ q.pc \in RegPCs => q.client # p.client

Under ==
    /\ \A r \in Requests : RequestOk(req[r])
    /\ \A r, s \in Requests : r # s => Apart(req[r], req[s])
    /\ \A c \in Clients : outcome[c] = "unused" => Untouched(c)

\* The tables: every row has a live tenant, and two db clients two tenants.
Keyed ==
    /\ \A c \in Clients :
         /\ claims[c] # {} \/ policy[c] # "none" => Present(c)
         /\ Present(c) => tenant[row[c].tenant] \in Live
         /\ Present(c) /\ row[c].profile = "db" => DbSlotFree(c, row[c].tenant)
    /\ \A s, t \in Tenants : tenant[s] \in Live /\ tenant[t] \in Live => s = t


-----------------------------------------------------------------------------
(* The records a request becomes *)

Kept(p, q) ==
    /\ q.kind = p.kind /\ q.client = p.client /\ q.tenant = p.tenant /\ q.old = p.old

LEMMA ConstantsTyped ==
    /\ Profiles \subseteq {"web", "spa", "native", "db"}
    /\ MaxSecrets \in Nat /\ MaxJobs \in Nat /\ MaxFailures \in Nat
    /\ None \notin Tenants /\ None \notin Clients
    /\ 0 \in Secrets
BY AdministrationAssumption DEF Secrets

LEMMA IdleFields ==
    /\ Idle \in Request /\ Idle.pc = "idle" /\ Idle.kind = "other" /\ Idle.client = None
    /\ Idle.tenant = None /\ Idle.row = None /\ Idle.claims = None /\ Idle.undo = {}
    /\ Idle.old = 0
BY ConstantsTyped DEF Idle, Request, PCs, Kinds

LEMMA IdleKnown == RequestKnown(Idle)
BY IdleFields DEF RequestKnown, Newborn, Stored, RegPCs, TenantPCs, Writers, Registering

LEMMA GotoFields ==
    ASSUME NEW p \in Request, NEW pc \in PCs, NEW q, q = [p EXCEPT !.pc = pc]
    PROVE  /\ q \in Request /\ q.pc = pc /\ Kept(p, q)
           /\ q.row = p.row /\ q.claims = p.claims /\ q.undo = p.undo
BY DEF Request, Kept

Unrowed(p, pc) == [p EXCEPT !.pc = pc, !.row = None]

LEMMA UnrowedFields ==
    ASSUME NEW p \in Request, NEW pc \in PCs, NEW q, q = Unrowed(p, pc)
    PROVE  /\ q \in Request /\ q.pc = pc /\ Kept(p, q)
           /\ q.row = None /\ q.claims = p.claims /\ q.undo = p.undo
BY DEF Request, Kept, Unrowed

Claiming(p, pc, s) == [p EXCEPT !.pc = pc, !.claims = s]

LEMMA ClaimingFields ==
    ASSUME NEW p \in Request, NEW pc \in PCs, NEW s \in (SUBSET Sources) \cup {None},
           NEW q, q = Claiming(p, pc, s)
    PROVE  /\ q \in Request /\ q.pc = pc /\ Kept(p, q)
           /\ q.row = p.row /\ q.claims = s /\ q.undo = p.undo
BY DEF Request, Kept, Claiming

Undoing(p, u) == [p EXCEPT !.pc = "undo", !.undo = u]
Left(p, u) == [p EXCEPT !.undo = u]

LEMMA UndoFields ==
    ASSUME NEW p \in Request, NEW u \in SUBSET {"row", "token"},
           NEW q, q = Undoing(p, u)
    PROVE  /\ q \in Request /\ q.pc = "undo" /\ Kept(p, q)
           /\ q.row = p.row /\ q.claims = p.claims /\ q.undo = u
BY DEF Request, Kept, Undoing, PCs

LEMMA LeftFields ==
    ASSUME NEW p \in Request, NEW u \in SUBSET {"row", "token"},
           NEW q, q = Left(p, u)
    PROVE  /\ q \in Request /\ q.pc = p.pc /\ Kept(p, q)
           /\ q.row = p.row /\ q.claims = p.claims /\ q.undo = u
BY DEF Request, Kept, Left

LEMMA FetchedFields ==
    ASSUME NEW p \in Request, p.row \in Row, NEW h \in Hooks,
           NEW q, q = [p EXCEPT !.pc = "getPolicy", !.row.hook = h]
    PROVE  /\ q \in Request /\ q.pc = "getPolicy" /\ Kept(p, q)
           /\ q.row \in Row /\ q.claims = p.claims
<1>1. PICK x : x = [p.row EXCEPT !.hook = h]
  OBVIOUS
<1>2. x \in Row
  BY <1>1 DEF Row
<1>3. q = [p EXCEPT !.pc = "getPolicy", !.row = x]
  BY <1>1 DEF Request
<1> QED BY <1>2, <1>3 DEF Request, Kept, PCs

\* The requests that begin.
Registered(kind, c, t, x, s, pc) ==
    [Idle EXCEPT !.kind = kind, !.client = c, !.tenant = t, !.row = x, !.claims = s,
                 !.pc = pc]
Opened(kind, c, x) == [Idle EXCEPT !.kind = kind, !.client = c, !.pc = "editGet", !.row = x]
Patching(c, x, s, pc) == [Idle EXCEPT !.client = c, !.row = x, !.claims = s, !.pc = pc]
Resetting(c, x, o) ==
    [Idle EXCEPT !.pc = "resetWrite", !.client = c, !.row = x, !.old = o]
AboutClient(pc, c) == [Idle EXCEPT !.pc = pc, !.client = c]
AboutTenant(pc, t) == [Idle EXCEPT !.pc = pc, !.tenant = t]

LEMMA RegisterFields ==
    ASSUME NEW pc \in PCs, NEW kind \in Kinds, NEW c \in Clients, NEW t \in Tenants,
           NEW x \in Row, NEW s \in SUBSET Sources,
           NEW q, q = Registered(kind, c, t, x, s, pc)
    PROVE  /\ q \in Request /\ q.pc = pc /\ q.kind = kind /\ q.client = c
           /\ q.tenant = t /\ q.row = x /\ q.claims = s
BY IdleFields DEF Idle, Request, Registered

LEMMA OpenFields ==
    ASSUME NEW kind \in Kinds, NEW c \in Clients, NEW x \in Row \cup {None},
           NEW q, q = Opened(kind, c, x)
    PROVE  /\ q \in Request /\ q.pc = "editGet" /\ q.kind = kind /\ q.client = c
           /\ q.row = x
BY IdleFields DEF Idle, Request, Opened, PCs

LEMMA PatchFields ==
    ASSUME NEW pc \in PCs, NEW c \in Clients, NEW x \in Row,
           NEW s \in (SUBSET Sources) \cup {None},
           NEW q, q = Patching(c, x, s, pc)
    PROVE  /\ q \in Request /\ q.pc = pc /\ q.kind = "other" /\ q.client = c /\ q.row = x
BY IdleFields DEF Idle, Request, Patching, Kinds

LEMMA ResetFields ==
    ASSUME NEW c \in Clients, NEW x \in Row, NEW o \in Secrets,
           NEW q, q = Resetting(c, x, o)
    PROVE  /\ q \in Request /\ q.pc = "resetWrite" /\ q.kind = "other" /\ q.client = c
           /\ q.row = x
BY IdleFields DEF Idle, Request, Resetting, Kinds, PCs

LEMMA ClientFields ==
    ASSUME NEW pc \in PCs, NEW c \in Clients,
           NEW q, q = AboutClient(pc, c)
    PROVE  q \in Request /\ q.pc = pc /\ q.kind = "other" /\ q.client = c
BY IdleFields DEF Idle, Request, AboutClient, Kinds

LEMMA TenantFields ==
    ASSUME NEW pc \in PCs, NEW t \in Tenants,
           NEW q, q = AboutTenant(pc, t)
    PROVE  /\ q \in Request /\ q.pc = pc /\ q.kind = "other" /\ q.client = None
           /\ q.tenant = t
BY IdleFields DEF Idle, Request, AboutTenant, Kinds

-----------------------------------------------------------------------------
(* The rows that requests write *)

LEMMA SecretGiven ==
    ASSUME NEW x \in Row, x.profile \in {"spa", "db"} => x.method = "none",
           NeedsSecret(x) => FreshSecrets # {}
    PROVE  WithSecret(x) \in Row /\ RowOk(WithSecret(x))
           /\ WithSecret(x).tenant = x.tenant /\ WithSecret(x).method = x.method
<1>1. PICK n : n = IF x.method = "none" THEN 0 ELSE IF x.secret # 0 THEN x.secret
                    ELSE CHOOSE m \in FreshSecrets : TRUE
  OBVIOUS
<1>2. n \in Secrets /\ (x.method = "none" <=> n = 0)
  <2>1. CASE NeedsSecret(x)
    <3>1. n \in FreshSecrets
      BY <1>1, <2>1 DEF NeedsSecret
    <3> QED BY <2>1, <3>1, ConstantsTyped DEF FreshSecrets, Secrets, NeedsSecret
  <2>2. CASE ~NeedsSecret(x)
    BY <1>1, <2>2, ConstantsTyped DEF NeedsSecret, Row
  <2> QED BY <2>1, <2>2
<1>3. PICK y : y = [x EXCEPT !.secret = n]
  OBVIOUS
<1>4. WithSecret(x) = y
  BY <1>1, <1>3 DEF WithSecret, Row
<1>5. y \in Row /\ y.tenant = x.tenant /\ y.method = x.method /\ y.secret = n
      /\ y.profile = x.profile
  BY <1>2, <1>3 DEF Row
<1> QED BY <1>2, <1>4, <1>5 DEF RowOk

LEMMA SecretErased ==
    ASSUME NEW x \in Row, NEW y, y = [x EXCEPT !.secret = 0]
    PROVE  /\ y \in Row /\ y.tenant = x.tenant /\ y.method = x.method
           /\ y.profile = x.profile
BY ConstantsTyped DEF Row

\* A patch body, as the schema or a form makes it.
Body(b) ==
    /\ b.profile \in Profiles \cup {None} /\ b.method \in Methods \cup {None}
    /\ b.hook \in Hooks \cup {None} /\ b.claims \in (SUBSET Sources) \cup {None}

LEMMA MergedTyped ==
    ASSUME NEW x \in Row, NEW b, Body(b)
    PROVE  Merged(x, b) \in Row /\ Merged(x, b).tenant = x.tenant
<1>1. PICK p \in Profiles : p = IF b.profile = None THEN x.profile ELSE b.profile
  BY DEF Body, Row
<1>2. PICK m \in Methods : m = IF b.method = None THEN x.method ELSE b.method
  BY DEF Body, Row
<1>3. PICK h \in Hooks : h = IF b.hook = None THEN x.hook ELSE b.hook
  BY DEF Body, Row
<1>4. PICK y : y = [x EXCEPT !.profile = p, !.method = m, !.hook = h]
  OBVIOUS
<1>5. y = Merged(x, b)
  BY <1>1, <1>2, <1>3, <1>4 DEF Merged
<1>6. y \in Row /\ y.tenant = x.tenant
  BY <1>4 DEF Row
<1> QED BY <1>5, <1>6

LEMMA BodiesTyped == ASSUME NEW b \in Bodies PROVE Body(b)
BY DEF Bodies, Body

LEMMA FormBodiesTyped ==
    ASSUME NEW q, q.row \in Row, q.claims \in SUBSET Sources, NEW b \in FormBodies(q)
    PROVE  Body(b)
<1>1. q.row.profile \in Profiles /\ q.row.hook \in Hooks
  BY DEF Row
<1>2. PICK p \in Profiles, h \in Hooks, s \in SUBSET Sources :
        b = [profile |-> p, hook |-> h, claims |-> s,
             method |-> IF p = "web" THEN "client_secret" ELSE "none"]
  BY <1>1 DEF FormBodies
<1> QED BY <1>2 DEF Body, Methods

-----------------------------------------------------------------------------
(* What each step makes of its request *)

Acts(r) ==
    \/ Continue(r)
    \/ \E t \in Tenants : OfTenant(r, t)
    \/ \E c \in Clients : OfClient(r, c)

Becomes(r, q) == RequestKnown(q) /\ req' = [req EXCEPT ![r] = q]
Quiet == UNCHANGED <<store, outcome>>

\* A request about a client that is there, or about a tenant.
Begins(r, q) ==
    /\ Quiet
    /\ \/ q.pc \in TenantPCs
       \/ /\ q.pc \in {"editGet", "patchDb", "patchClaims", "resetWrite", "policyRead",
                       "delete", "mcpDelete"}
          /\ Present(q.client)
          /\ q.pc \in Writers => q.row.tenant = row[q.client].tenant

\* A registration begins.
Registers(r, q) ==
    /\ req[r] = Idle /\ q.pc \in Newborn
    /\ outcome[q.client] = "unused" /\ outcome' = [outcome EXCEPT ![q.client] = "open"]
    /\ UNCHANGED store

\* A request other than a registration goes on.
GoesOn(r, q) ==
    LET p == req[r]
    IN  /\ q.client = p.client /\ UNCHANGED outcome
        /\ {p.pc, q.pc} \cap ({"idle", "mcpToken"} \cup TenantPCs \cup RegPCs) = {}
        /\ q.pc \in Writers => p.pc \in Writers /\ q.row = p.row /\ UNCHANGED row

Deletes(r, q) ==
    LET p == req[r]
    IN  /\ p.pc = "mcpDelete" /\ q.pc = "mcpToken" /\ q.client = p.client
        /\ row' = [row EXCEPT ![q.client] = None]
        /\ outcome' = [outcome EXCEPT ![q.client] =
                          IF Present(q.client) THEN "deleted" ELSE @]

Takes(part, c) ==
    IF part = "row"
    THEN row' = [row EXCEPT ![c] = None] /\ Drop({c}) /\ UNCHANGED tokens
    ELSE tokens' = tokens \ {c} /\ UNCHANGED <<row, claims, policy>>

\* A registration goes on.
Advances(r, q) ==
    LET p == req[r]
        c == q.client
    IN  /\ Kept(p, q)
        /\ \/ p.pc = "checkDb" /\ q.pc = "insertRow" /\ Quiet
           \/ /\ p.pc = "insertRow" /\ q.pc \in {"insertClaims", "storeToken"}
              /\ row' = [row EXCEPT ![c] = p.row] /\ UNCHANGED outcome
           \/ /\ p.pc = "insertClaims" /\ q.pc = "storeToken"
              /\ Present(c) /\ UNCHANGED <<row, outcome>>
           \/ /\ p.pc = "storeToken"
              /\ q.pc = IF p.kind = "admin" THEN "insertPolicy" ELSE "record"
              /\ tokens' = tokens \cup {c} /\ UNCHANGED <<row, outcome>>
           \/ /\ p.pc = "insertPolicy" /\ q.pc = "record"
              /\ policy' = [policy EXCEPT ![c] = "default"]
              /\ UNCHANGED <<row, tokens, outcome>>
           \/ /\ p.pc \in Stored /\ q.pc = "undo"
              /\ q.undo = {"row", "token"} /\ Quiet
           \/ /\ p.pc = "undo" /\ q.pc = "undo"
              /\ \E part \in {"row", "token"} :
                    q.undo = p.undo \ {part} /\ Takes(part, c) /\ UNCHANGED outcome
           \/ /\ p.pc = "undo" /\ q.pc = "undo"
              /\ UNCHANGED store /\ Became(c, "stranded")

Moves(r, q) ==
    q = Idle \/ Begins(r, q) \/ Registers(r, q) \/ GoesOn(r, q) \/ Deletes(r, q)
    \/ Advances(r, q)

LEMMA Known ==
    ASSUME Typed, NEW r \in Requests
    PROVE  req[r] \in Request /\ RequestKnown(req[r])
BY DEF Typed, TypeOK

LEMMA FinishMoves ==
    ASSUME NEW r \in Requests, Finish(r)
    PROVE  \E q : Becomes(r, q) /\ Moves(r, q)
BY IdleKnown DEF Finish, Becomes, Moves

LEMMA PatchMoves ==
    ASSUME Typed, NEW r \in Requests, NEW c \in Clients, NEW b, Body(b), Patch(r, c, b)
    PROVE  \E q : Becomes(r, q) /\ Moves(r, q)
<1>1. row[c] \in Row
  BY DEF Patch, Present, Typed, TypeOK
<1>2. PICK x : x = Merged(row[c], b)
  OBVIOUS
<1>3. x \in Row /\ x.tenant = row[c].tenant
  BY <1>1, <1>2, MergedTyped
<1>4. PICK y : y = WithSecret(x)
  OBVIOUS
<1>5. y \in Row /\ RowOk(y) /\ y.tenant = row[c].tenant
  BY <1>2, <1>3, <1>4, SecretGiven DEF Patch, ValidRow
<1>6. PICK pc \in {"patchDb", "patchClaims"} :
        pc = IF x.profile = "db" THEN "patchDb" ELSE "patchClaims"
  OBVIOUS
<1>7. PICK s \in (SUBSET Sources) \cup {None} : s = b.claims
  BY DEF Body
<1>8. PICK q : q = Patching(c, y, s, pc)
  OBVIOUS
<1>9. pc \in PCs
  BY DEF PCs
<1>10. req' = [req EXCEPT ![r] = q]
  BY <1>2, <1>4, <1>6, <1>7, <1>8 DEF Patch, Patching
<1>11. /\ q \in Request /\ q.pc = pc /\ q.kind = "other" /\ q.client = c /\ q.row = y
  BY <1>5, <1>8, <1>9, PatchFields
<1>12. RequestKnown(q)
  BY <1>5, <1>11 DEF RequestKnown, Newborn, Stored, RegPCs, TenantPCs, Writers, Registering
<1>13. Begins(r, q)
  BY <1>5, <1>11 DEF Begins, Patch, Reads, History, Quiet, Writers
<1> QED BY <1>10, <1>12, <1>13 DEF Becomes, Moves

LEMMA RegisterMoves ==
    ASSUME Typed, NEW r \in Requests, NEW c \in Clients, NEW kind \in Registering,
           NEW x \in Row, x.profile \in {"spa", "db"} => x.method = "none",
           NEW s \in SUBSET Sources, Register(r, c, kind, x, s)
    PROVE  \E q : Becomes(r, q) /\ Moves(r, q)
<1>1. PICK pc \in Newborn :
        pc = IF kind = "admin" /\ x.profile = "db" THEN "checkDb" ELSE "insertRow"
  BY DEF Newborn
<1>2. PICK y : y = WithSecret(x)
  OBVIOUS
<1>3. y \in Row /\ RowOk(y)
  BY <1>2, SecretGiven DEF Register
<1>4. PICK q : q = Registered(kind, c, x.tenant, y, s, pc)
  OBVIOUS
<1>5. pc \in PCs /\ kind \in Kinds /\ x.tenant \in Tenants
  BY DEF Newborn, PCs, Registering, Kinds, Row
<1>6. /\ q \in Request /\ q.pc = pc /\ q.kind = kind /\ q.client = c
      /\ q.tenant = x.tenant /\ q.row = y /\ q.claims = s
  BY <1>3, <1>4, <1>5, RegisterFields
<1>7. req[r] = Idle /\ req' = [req EXCEPT ![r] = q]
  BY <1>1, <1>2, <1>4 DEF Register, Start, Registered
<1>8. RequestKnown(q)
  BY <1>3, <1>5, <1>6 DEF RequestKnown, Newborn, Stored, RegPCs, TenantPCs, Writers, Registering
<1>9. Registers(r, q)
  BY <1>6, <1>7 DEF Registers, Register
<1> QED BY <1>7, <1>8, <1>9 DEF Becomes, Moves

LEMMA TenantMoves ==
    ASSUME Typed, NEW r \in Requests, NEW t \in Tenants, OfTenant(r, t)
    PROVE  \E q : Becomes(r, q) /\ Moves(r, q)
<1>1. CASE StartTenant(r, t) \/ StartDeleteTenant(r, t)
  <2>1. PICK pc \in TenantPCs : Start(r, AboutTenant(pc, t)) /\ Reads
    BY <1>1 DEF StartTenant, StartDeleteTenant, TenantPCs, AboutTenant
  <2>2. PICK q : q = AboutTenant(pc, t)
    OBVIOUS
  <2>3. pc \in PCs
    BY DEF TenantPCs, PCs
  <2>4. /\ q \in Request /\ q.pc = pc /\ q.kind = "other" /\ q.client = None
        /\ q.tenant = t
    BY <2>2, <2>3, TenantFields
  <2>5. RequestKnown(q)
    BY <2>4 DEF RequestKnown, Newborn, Stored, RegPCs, TenantPCs, Writers, Registering
  <2>6. Begins(r, q)
    BY <2>1, <2>4 DEF Begins, Reads, History, Quiet
  <2> QED BY <2>1, <2>2, <2>5, <2>6 DEF Start, Becomes, Moves
<1>2. ASSUME NEW c \in Clients, NEW x \in NewRows(t), NEW s \in SUBSET Sources,
             RegisterAdmin(r, c, x, s) \/ RegisterDynamic(r, c, x) \/ RegisterMcp(r, c, x)
      PROVE  \E q : Becomes(r, q) /\ Moves(r, q)
  <2>1. x \in Row
    BY ConstantsTyped DEF NewRows, Row
  <2>2. PICK kind \in Registering, u \in SUBSET Sources :
          /\ Register(r, c, kind, x, u)
          /\ x.profile \in {"spa", "db"} => x.method = "none"
    <3>1. CASE RegisterAdmin(r, c, x, s)
      BY <3>1 DEF RegisterAdmin, AdminRegistrable, ValidRow, Registering
    <3>2. CASE RegisterDynamic(r, c, x)
      BY <3>2 DEF RegisterDynamic, DynamicRegistrable, Registering
    <3>3. CASE RegisterMcp(r, c, x)
      BY <3>3 DEF RegisterMcp, McpRegistrable, Registering
    <3> QED BY <1>2, <3>1, <3>2, <3>3
  <2> QED BY <2>1, <2>2, RegisterMoves
<1>3. ({} \in SUBSET Sources)
  OBVIOUS
<1> QED BY <1>1, <1>2, <1>3 DEF OfTenant

\* A request about a client that carries nothing but the client.
LEMMA AboutClientMoves ==
    ASSUME NEW r \in Requests, NEW c \in Clients, Present(c), Reads,
           NEW pc \in {"policyRead", "delete", "mcpDelete"},
           req' = [req EXCEPT ![r] = AboutClient(pc, c)]
    PROVE  \E q : Becomes(r, q) /\ Moves(r, q)
<1>1. PICK q : q = AboutClient(pc, c)
  OBVIOUS
<1>2. pc \in PCs
  BY DEF PCs
<1>3. q \in Request /\ q.pc = pc /\ q.kind = "other" /\ q.client = c
  BY <1>1, <1>2, ClientFields
<1>4. RequestKnown(q)
  BY <1>3 DEF RequestKnown, Newborn, Stored, RegPCs, TenantPCs, Writers, Registering
<1>5. Begins(r, q)
  BY <1>3 DEF Begins, Reads, History, Quiet, Writers
<1> QED BY <1>1, <1>4, <1>5 DEF Becomes, Moves

LEMMA OpenMoves ==
    ASSUME Typed, NEW r \in Requests, NEW c \in Clients, NEW kind \in {"edit", "policy"},
           Open(r, c, kind)
    PROVE  \E q : Becomes(r, q) /\ Moves(r, q)
<1>0. row[c] \in Row
  BY DEF Open, Present, Typed, TypeOK
<1>1. PICK y : y = [row[c] EXCEPT !.secret = 0]
  OBVIOUS
<1>2. y \in Row
  BY <1>0, <1>1, SecretErased
<1>3. PICK x \in Row \cup {None} : x = IF kind = "edit" THEN y ELSE None
  BY <1>2
<1>4. PICK q : q = Opened(kind, c, x)
  OBVIOUS
<1>5. kind \in Kinds
  BY DEF Kinds
<1>6. q \in Request /\ q.pc = "editGet" /\ q.kind = kind /\ q.client = c /\ q.row = x
  BY <1>4, <1>5, OpenFields
<1>7. req' = [req EXCEPT ![r] = q]
  BY <1>1, <1>3, <1>4 DEF Open, Start, Opened
<1>8. RequestKnown(q)
  BY <1>2, <1>3, <1>6 DEF RequestKnown, Newborn, Stored, RegPCs, TenantPCs, Writers, Registering
<1>9. Begins(r, q)
  BY <1>6 DEF Open, Begins, Reads, History, Quiet, Writers
<1> QED BY <1>7, <1>8, <1>9 DEF Becomes, Moves

LEMMA ResetMoves ==
    ASSUME Typed, NEW r \in Requests, NEW c \in Clients, StartReset(r, c)
    PROVE  \E q : Becomes(r, q) /\ Moves(r, q)
<1>0. row[c] \in Row /\ RowOk(row[c]) /\ row[c].secret \in Secrets
  BY DEF StartReset, Present, Typed, TypeOK, ClientRowConsistent, RowOk, Row
<1>1. PICK y : y = [row[c] EXCEPT !.secret = 0]
  OBVIOUS
<1>2. y \in Row /\ y.tenant = row[c].tenant /\ y.method = row[c].method
      /\ y.profile = row[c].profile
  BY <1>0, <1>1, SecretErased
<1>3. PICK x : x = WithSecret(y)
  OBVIOUS
<1>4. FreshSecrets # {} /\ row[c].method # "none" /\ Present(c)
  BY DEF StartReset
<1>5. x \in Row /\ RowOk(x) /\ x.tenant = row[c].tenant /\ x.method # "none"
  BY <1>0, <1>2, <1>3, <1>4, SecretGiven DEF RowOk
<1>6. PICK o \in Secrets : o = row[c].secret
  BY <1>0
<1>7. PICK q : q = Resetting(c, x, o)
  OBVIOUS
<1>8. /\ q \in Request /\ q.pc = "resetWrite" /\ q.kind = "other" /\ q.client = c
      /\ q.row = x
  BY <1>5, <1>7, ResetFields
<1>9. req' = [req EXCEPT ![r] = q]
  BY <1>1, <1>3, <1>6, <1>7 DEF StartReset, Start, Resetting
<1>10. RequestKnown(q)
  BY <1>5, <1>8 DEF RequestKnown, Newborn, Stored, RegPCs, TenantPCs, Writers, Registering
<1>11. Begins(r, q)
  BY <1>4, <1>5, <1>8 DEF StartReset, Begins, Reads, History, Quiet, Writers
<1> QED BY <1>9, <1>10, <1>11 DEF Becomes, Moves

LEMMA ClientMoves ==
    ASSUME Typed, NEW r \in Requests, NEW c \in Clients, OfClient(r, c)
    PROVE  \E q : Becomes(r, q) /\ Moves(r, q)
<1>1. CASE Open(r, c, "edit") \/ Open(r, c, "policy")
  BY <1>1, OpenMoves
<1>2. CASE \E b \in Bodies : StartPatch(r, c, b)
  BY <1>2, BodiesTyped, PatchMoves DEF StartPatch
<1>3. CASE StartReset(r, c)
  BY <1>3, ResetMoves
<1>4. CASE StartPolicy(r, c) \/ StartDelete(r, c) \/ StartMcpDelete(r, c)
  <2>1. PICK pc \in {"policyRead", "delete", "mcpDelete"} :
          Start(r, AboutClient(pc, c)) /\ Reads /\ Present(c)
    BY <1>4 DEF StartPolicy, StartDelete, StartMcpDelete, AboutClient
  <2> QED BY <2>1, AboutClientMoves DEF Start
<1> QED BY <1>1, <1>2, <1>3, <1>4 DEF OfClient

Places == {"editGet", "getPolicy", "getCreate", "form", "patchDb", "patchClaims",
           "patchWrite", "patchReplace", "policyRead", "policyCreate", "policyUpdate",
           "resetWrite", "resetAnswer"}
Alike(p, q) == Kept(p, q) /\ q.row = p.row /\ q.claims = p.claims /\ q.undo = p.undo
Put(r, q) == req' = [req EXCEPT ![r] = q]

LEMMA GotoMoves ==
    ASSUME Typed, NEW r \in Requests, NEW pc \in PCs, Goto(r, pc)
    PROVE  \E q : q \in Request /\ Put(r, q) /\ Alike(req[r], q) /\ q.pc = pc
<1>1. PICK q : q = [req[r] EXCEPT !.pc = pc]
  OBVIOUS
<1>2. q \in Request /\ Alike(req[r], q) /\ q.pc = pc
  BY <1>1, Known, GotoFields DEF Alike
<1>3. Put(r, q)
  BY <1>1 DEF Goto, Put, Typed, TypeOK
<1> QED BY <1>2, <1>3

\* Going on within the console's forms, the patches and the resets.
LEMMA PlacesMove ==
    ASSUME Typed, NEW r \in Requests, NEW q \in Request, Put(r, q), UNCHANGED outcome,
           Kept(req[r], q), req[r].pc \in Places, q.pc \in Places,
           q.pc \in Writers => /\ q.pc # "resetWrite" /\ req[r].pc \in Writers
                               /\ q.row = req[r].row /\ UNCHANGED row,
           q.pc = "patchReplace" => q.claims \in SUBSET Sources,
           q.kind = "edit" => /\ q.pc \in {"getPolicy", "getCreate", "form"}
                              /\ q.row \in Row
                              /\ q.pc \in {"getCreate", "form"} => q.claims \in SUBSET Sources
    PROVE  \E x : Becomes(r, x) /\ Moves(r, x)
<1>1. RequestKnown(req[r])
  BY Known
<1>2. /\ Places \cap ({"idle", "mcpToken"} \cup TenantPCs \cup RegPCs) = {}
      /\ Places \cap (Newborn \cup {"insertClaims"}) = {}
  BY DEF Places, TenantPCs, RegPCs, Newborn, Stored
<1>3. q.client = req[r].client /\ q.kind = req[r].kind
  BY DEF Kept
<1>4. RequestKnown(q)
  BY <1>1, <1>2, <1>3 DEF RequestKnown, Writers
<1>5. GoesOn(r, q)
  BY <1>2, <1>3 DEF GoesOn
<1> QED BY <1>4, <1>5 DEF Becomes, Put, Moves

LEMMA UnfilledMoves ==
    ASSUME Typed, NEW r \in Requests, Unfilled(r), UNCHANGED outcome,
           req[r].pc \in {"editGet", "getPolicy", "getCreate"}
    PROVE  \E q : Becomes(r, q) /\ Moves(r, q)
<1>1. CASE req[r].kind = "edit"
  <2>1. PICK q : q = Claiming(req[r], "form", {})
    OBVIOUS
  <2>2. /\ q \in Request /\ q.pc = "form" /\ Kept(req[r], q) /\ q.row = req[r].row
        /\ q.claims = {}
    BY <2>1, Known, ClaimingFields DEF PCs
  <2>3. Put(r, q)
    BY <1>1, <2>1 DEF Unfilled, Put, Claiming, Typed, TypeOK
  <2>4. q.row \in Row
    BY <1>1, <2>2, Known DEF RequestKnown
  <2> QED BY <2>2, <2>3, <2>4, PlacesMove DEF Places, Writers
<1>2. CASE req[r].kind # "edit"
  <2>1. Finish(r)
    BY <1>2 DEF Unfilled, Finish, Typed, TypeOK
  <2> QED BY <2>1, FinishMoves
<1> QED BY <1>1, <1>2

LEMMA EditGetMoves ==
    ASSUME Typed, NEW r \in Requests, EditGet(r)
    PROVE  \E q : Becomes(r, q) /\ Moves(r, q)
<1>0. req[r].pc = "editGet" /\ UNCHANGED outcome
  BY DEF EditGet, Reads, History
<1>1. CASE ~Present(req[r].client)
  BY <1>0, <1>1, UnfilledMoves DEF EditGet
<1>2. CASE Present(req[r].client) /\ req[r].kind = "edit"
  <2>1. req[r].row \in Row /\ req[r].client \in Clients
    BY <1>0, <1>2, Known DEF RequestKnown, TenantPCs
  <2>2. PICK h \in Hooks : h = row[req[r].client].hook
    BY <1>2, <2>1 DEF Present, Typed, TypeOK, Row
  <2>3. PICK q : q = [req[r] EXCEPT !.pc = "getPolicy", !.row.hook = h]
    OBVIOUS
  <2>4. q \in Request /\ q.pc = "getPolicy" /\ Kept(req[r], q) /\ q.row \in Row
    BY <2>1, <2>3, Known, FetchedFields
  <2>5. Put(r, q)
    BY <1>2, <2>2, <2>3 DEF EditGet, Put, Typed, TypeOK
  <2> QED BY <1>0, <2>4, <2>5, PlacesMove DEF Places, Writers
<1>3. CASE Present(req[r].client) /\ req[r].kind # "edit"
  <2>1. PICK q : q = [req[r] EXCEPT !.pc = "getPolicy"]
    OBVIOUS
  <2>2. q \in Request /\ q.pc = "getPolicy" /\ Kept(req[r], q)
    BY <2>1, Known, GotoFields DEF PCs
  <2>3. Put(r, q) /\ q.kind # "edit"
    BY <1>3, <2>1, <2>2 DEF EditGet, Put, Kept, Typed, TypeOK
  <2> QED BY <1>0, <2>2, <2>3, PlacesMove DEF Places, Writers
<1> QED BY <1>1, <1>2, <1>3

LEMMA GetPolicyMoves ==
    ASSUME Typed, NEW r \in Requests, GetPolicy(r)
    PROVE  \E q : Becomes(r, q) /\ Moves(r, q)
<1>0. /\ req[r].pc = "getPolicy" /\ UNCHANGED outcome
      /\ req[r].client \in Clients
  BY Known DEF GetPolicy, Reads, History, RequestKnown, TenantPCs
<1>1. PICK pc \in {"getCreate", "form"} :
        pc = IF policy[req[r].client] = "none" THEN "getCreate" ELSE "form"
  OBVIOUS
<1>2. PICK s \in (SUBSET Sources) \cup {None} :
        /\ s = IF req[r].kind = "edit" THEN claims[req[r].client] ELSE None
        /\ req[r].kind = "edit" => s \in SUBSET Sources
  BY <1>0 DEF Typed, TypeOK
<1>3. PICK q : q = Claiming(req[r], pc, s)
  OBVIOUS
<1>4. pc \in PCs
  BY DEF PCs
<1>5. /\ q \in Request /\ q.pc = pc /\ Kept(req[r], q) /\ q.row = req[r].row
      /\ q.claims = s
  BY <1>3, <1>4, Known, ClaimingFields
<1>6. Put(r, q)
  BY <1>1, <1>2, <1>3 DEF GetPolicy, Put, Claiming, Typed, TypeOK
<1>7. q.kind = "edit" => q.row \in Row /\ q.claims \in SUBSET Sources
  BY <1>2, <1>5, Known DEF Kept, RequestKnown
<1> QED BY <1>0, <1>5, <1>6, <1>7, PlacesMove DEF Places, Writers

LEMMA GetCreateMoves ==
    ASSUME Typed, NEW r \in Requests, GetCreate(r)
    PROVE  \E q : Becomes(r, q) /\ Moves(r, q)
<1>0. req[r].pc = "getCreate" /\ UNCHANGED outcome /\ RequestKnown(req[r])
  BY Known DEF GetCreate, History
<1>1. CASE Unfilled(r)
  BY <1>0, <1>1, UnfilledMoves
<1>2. CASE Goto(r, "form")
  <2>1. PICK q : q \in Request /\ Put(r, q) /\ Alike(req[r], q) /\ q.pc = "form"
    BY <1>2, GotoMoves DEF PCs
  <2>2. q.kind = "edit" => q.row \in Row /\ q.claims \in SUBSET Sources
    BY <1>0, <2>1 DEF Alike, Kept, RequestKnown
  <2> QED BY <1>0, <2>1, <2>2, PlacesMove DEF Places, Writers, Alike
<1> QED BY <1>1, <1>2 DEF GetCreate

LEMMA ChangeMoves ==
    ASSUME Typed, NEW r \in Requests,
           \/ PatchDb(r) \/ PatchClaims(r) \/ PatchWrite(r) \/ PolicyRead(r) \/ ResetWrite(r)
    PROVE  \E q : Becomes(r, q) /\ Moves(r, q)
<1>0. RequestKnown(req[r])
  BY Known
<1>1. UNCHANGED outcome
  BY DEF PatchDb, PatchClaims, PatchWrite, PolicyRead, ResetWrite, Reads, History
<1>2. ASSUME NEW pc \in {"patchClaims", "patchWrite", "patchReplace", "policyCreate",
                         "policyUpdate"},
             Goto(r, pc), req[r].pc \in Places, req[r].kind # "edit",
             pc \in Writers => req[r].pc \in Writers /\ UNCHANGED row,
             pc = "patchReplace" => req[r].claims \in SUBSET Sources
      PROVE  \E q : Becomes(r, q) /\ Moves(r, q)
  <2>1. pc \in PCs /\ pc \in Places
    BY DEF PCs, Places
  <2>2. PICK q : q \in Request /\ Put(r, q) /\ Alike(req[r], q) /\ q.pc = pc
    BY <1>2, <2>1, GotoMoves
  <2> QED BY <1>1, <1>2, <2>1, <2>2, PlacesMove DEF Alike, Kept
<1>3. req[r].kind = "edit" => req[r].pc \in {"editGet", "getPolicy", "getCreate", "form"}
  BY <1>0 DEF RequestKnown
<1>4. CASE PatchDb(r)
  BY <1>2, <1>3, <1>4, FinishMoves DEF PatchDb, GotoIf, Places, Writers, Reads, store
<1>5. CASE PatchClaims(r)
  BY <1>2, <1>3, <1>5, FinishMoves DEF PatchClaims, GotoIf, Places, Writers, Reads, store
<1>6. CASE PatchWrite(r)
  <2>1. req[r].claims \in (SUBSET Sources) \cup {None}
    BY Known DEF Request
  <2> QED BY <1>2, <1>3, <1>6, <2>1, FinishMoves DEF PatchWrite, GotoIf, Places, Writers
<1>7. CASE PolicyRead(r)
  BY <1>2, <1>3, <1>7 DEF PolicyRead, Places, Writers
<1>8. CASE ResetWrite(r)
  <2>1. PICK q : q = Unrowed(req[r], "resetAnswer")
    OBVIOUS
  <2>2. q \in Request /\ q.pc = "resetAnswer" /\ Kept(req[r], q)
    BY <2>1, Known, UnrowedFields DEF PCs
  <2>3. Put(r, q)
    BY <1>8, <2>1 DEF ResetWrite, Put, Unrowed, Typed, TypeOK
  <2>4. q.kind # "edit" /\ req[r].pc \in Places /\ q.pc \in Places
    BY <1>3, <1>8, <2>2 DEF ResetWrite, Kept, Places
  <2> QED BY <1>1, <2>2, <2>3, <2>4, PlacesMove DEF Writers
<1> QED BY <1>4, <1>5, <1>6, <1>7, <1>8

LEMMA SubmitMoves ==
    ASSUME Typed, NEW r \in Requests, Submit(r) \/ SavePolicy(r)
    PROVE  \E q : Becomes(r, q) /\ Moves(r, q)
<1>0. RequestKnown(req[r])
  BY Known
<1>1. CASE Submit(r)
  <2>1. /\ req[r].row \in Row /\ req[r].claims \in SUBSET Sources
        /\ req[r].client \in Clients
    BY <1>0, <1>1 DEF Submit, RequestKnown, TenantPCs
  <2>2. PICK b \in FormBodies(req[r]) : Patch(r, req[r].client, b)
    BY <1>1 DEF Submit
  <2> QED BY <2>1, <2>2, FormBodiesTyped, PatchMoves
<1>2. CASE SavePolicy(r)
  <2>1. PICK c \in Clients : c = req[r].client /\ Present(c) /\ Reads
    BY <1>0, <1>2 DEF SavePolicy, RequestKnown, TenantPCs
  <2>2. req' = [req EXCEPT ![r] = AboutClient("policyRead", c)]
    BY <1>2, <2>1 DEF SavePolicy, AboutClient
  <2> QED BY <2>1, <2>2, AboutClientMoves
<1> QED BY <1>1, <1>2

LEMMA DeleteMoves ==
    ASSUME Typed, NEW r \in Requests, Delete(r)
    PROVE  \E q : Becomes(r, q) /\ Moves(r, q)
<1>1. CASE req[r].pc = "mcpDelete" /\ Goto(r, "mcpToken")
  <2>1. PICK q : q \in Request /\ Put(r, q) /\ Alike(req[r], q) /\ q.pc = "mcpToken"
    BY <1>1, GotoMoves DEF PCs
  <2>2. req[r].client \in Clients /\ req[r].kind \notin Registering \cup {"edit"}
    BY <1>1, Known DEF RequestKnown, TenantPCs, RegPCs, Newborn, Stored
  <2>3. RequestKnown(q)
    BY <2>1, <2>2 DEF RequestKnown, Alike, Kept, Newborn, Stored, RegPCs, TenantPCs,
       Writers
  <2>4. Deletes(r, q)
    BY <1>1, <2>1 DEF Deletes, Delete, Alike, Kept
  <2> QED BY <2>1, <2>3, <2>4 DEF Put, Becomes, Moves
<1> QED BY <1>1, FinishMoves DEF Delete, GotoIf

\* Going on within a registration.
LEMMA StoredMoves ==
    ASSUME Typed, NEW r \in Requests, NEW q \in Request, Put(r, q), Kept(req[r], q),
           req[r].pc \in RegPCs, q.pc \in RegPCs, Advances(r, q),
           q.pc \in Newborn => /\ req[r].pc \in Newborn /\ q.row = req[r].row
                               /\ q.claims = req[r].claims,
           q.pc = "insertClaims" => req[r].pc \in Newborn /\ q.claims = req[r].claims
    PROVE  \E x : Becomes(r, x) /\ Moves(r, x)
<1>1. RequestKnown(req[r])
  BY Known
<1>2. /\ q.client = req[r].client /\ q.kind = req[r].kind /\ q.tenant = req[r].tenant
  BY DEF Kept
<1>3. RegPCs \cap ({"idle", "patchReplace", "form", "getCreate", "editGet", "getPolicy"}
                    \cup TenantPCs \cup Writers) = {} /\ Newborn \subseteq RegPCs
  BY DEF RegPCs, Newborn, Stored, TenantPCs, Writers
<1>4. q.kind # "edit"
  BY <1>1, <1>2 DEF RequestKnown, Registering
<1>5. RequestKnown(q)
  BY <1>1, <1>2, <1>3, <1>4 DEF RequestKnown, Writers
<1> QED BY <1>5 DEF Becomes, Put, Moves

LEMMA CompensateMoves ==
    ASSUME Typed, NEW r \in Requests, Compensate(r), Quiet, req[r].pc \in Stored
    PROVE  \E q : Becomes(r, q) /\ Moves(r, q)
<1>1. PICK q : q = Undoing(req[r], Compensated)
  OBVIOUS
<1>2. /\ q \in Request /\ q.pc = "undo" /\ Kept(req[r], q) /\ q.undo = {"row", "token"}
  BY <1>1, Known, UndoFields DEF Compensated
<1>3. Put(r, q)
  BY <1>1 DEF Compensate, Put, Undoing, Typed, TypeOK
<1>4. Advances(r, q)
  BY <1>2 DEF Advances
<1> QED BY <1>2, <1>3, <1>4, StoredMoves DEF RegPCs, Newborn

LEMMA InsertMoves ==
    ASSUME Typed, NEW r \in Requests, InsertRow(r)
    PROVE  \E q : Becomes(r, q) /\ Moves(r, q)
<1>0. RequestKnown(req[r]) /\ req[r].pc = "insertRow"
  BY Known DEF InsertRow
<1>1. CASE Insertable(req[r].client, req[r].row)
  <2>1. PICK pc \in {"insertClaims", "storeToken"} :
          pc = IF req[r].claims # {} THEN "insertClaims" ELSE "storeToken"
    OBVIOUS
  <2>2. PICK q : q = Unrowed(req[r], pc)
    OBVIOUS
  <2>3. pc \in PCs
    BY DEF PCs
  <2>4. /\ q \in Request /\ q.pc = pc /\ Kept(req[r], q) /\ q.claims = req[r].claims
    BY <2>2, <2>3, Known, UnrowedFields
  <2>5. Put(r, q)
    BY <1>1, <2>1, <2>2 DEF InsertRow, Put, Unrowed, Typed, TypeOK
  <2>6. Advances(r, q)
    BY <1>0, <1>1, <2>4 DEF Advances, InsertRow, Kept
  <2> QED BY <1>0, <2>4, <2>5, <2>6, StoredMoves DEF RegPCs, Newborn, Stored
<1>2. CASE ~Insertable(req[r].client, req[r].row)
  <2>1. Finish(r)
    BY <1>2 DEF InsertRow, Finish, Typed, TypeOK
  <2> QED BY <2>1, FinishMoves
<1> QED BY <1>1, <1>2

LEMMA InsertClaimsMoves ==
    ASSUME Typed, NEW r \in Requests, InsertClaims(r)
    PROVE  \E q : Becomes(r, q) /\ Moves(r, q)
<1>0. RequestKnown(req[r]) /\ req[r].pc = "insertClaims"
  BY Known DEF InsertClaims
<1>1. CASE Present(req[r].client)
  <2>1. PICK q : q = Claiming(req[r], "storeToken", {})
    OBVIOUS
  <2>2. q \in Request /\ q.pc = "storeToken" /\ Kept(req[r], q)
    BY <2>1, Known, ClaimingFields DEF PCs
  <2>3. Put(r, q)
    BY <1>1, <2>1 DEF InsertClaims, Put, Claiming, Typed, TypeOK
  <2>4. Advances(r, q)
    BY <1>0, <1>1, <2>2 DEF Advances, InsertClaims, Kept, History
  <2> QED BY <1>0, <2>2, <2>3, <2>4, StoredMoves DEF RegPCs, Newborn, Stored
<1>2. CASE ~Present(req[r].client)
  <2>1. Finish(r)
    BY <1>2 DEF InsertClaims, Finish, Typed, TypeOK
  <2> QED BY <2>1, FinishMoves
<1> QED BY <1>1, <1>2

LEMMA UndoMoves ==
    ASSUME Typed, NEW r \in Requests, NEW part \in {"row", "token"},
           Undo(r, part) \/ UndoFails(r, part)
    PROVE  \E q : Becomes(r, q) /\ Moves(r, q)
<1>0. RequestKnown(req[r]) /\ req[r].pc = "undo"
  BY Known DEF Undo, UndoFails
<1>1. PICK u \in SUBSET {"row", "token"} : u = req[r].undo \ {part}
  BY Known DEF Request
<1>2. CASE u = {}
  <2>1. Finish(r)
    BY <1>1, <1>2 DEF Undo, UndoFails, Finish, Typed, TypeOK
  <2> QED BY <2>1, FinishMoves
<1>3. CASE u # {}
  <2>1. PICK q : q = Left(req[r], u)
    OBVIOUS
  <2>2. q \in Request /\ q.pc = "undo" /\ Kept(req[r], q) /\ q.undo = u
    BY <1>0, <2>1, Known, LeftFields
  <2>3. Put(r, q)
    BY <1>1, <1>3, <2>1 DEF Undo, UndoFails, Put, Left, Typed, TypeOK
  <2>4. Advances(r, q)
    <3>1. CASE Undo(r, part)
      <4>1. Takes(part, req[r].client) /\ UNCHANGED outcome
        BY <1>1, <1>3, <3>1 DEF Undo, Takes
      <4> QED BY <1>0, <1>1, <2>2, <4>1 DEF Advances, Kept
    <3>2. CASE UndoFails(r, part)
      BY <1>0, <2>2, <3>2 DEF Advances, UndoFails, Kept
    <3> QED BY <3>1, <3>2
  <2> QED BY <1>0, <2>2, <2>3, <2>4, StoredMoves DEF RegPCs, Newborn
<1> QED BY <1>2, <1>3

LEMMA RegistrationMoves ==
    ASSUME Typed, NEW r \in Requests,
           CheckDb(r) \/ StoreToken(r) \/ InsertPolicy(r) \/ Record(r)
    PROVE  \E q : Becomes(r, q) /\ Moves(r, q)
<1>1. CASE CheckDb(r)
  <2>1. CASE Goto(r, "insertRow") /\ UNCHANGED outcome
    <3>1. PICK q : q \in Request /\ Put(r, q) /\ Alike(req[r], q) /\ q.pc = "insertRow"
      BY <2>1, GotoMoves DEF PCs
    <3>2. Advances(r, q)
      BY <1>1, <2>1, <3>1 DEF CheckDb, Advances, Alike, Quiet
    <3> QED BY <1>1, <3>1, <3>2, StoredMoves DEF CheckDb, Alike, RegPCs, Newborn
  <2> QED BY <1>1, <2>1, FinishMoves DEF CheckDb, GotoIf
<1>2. CASE StoreToken(r)
  <2>1. PICK pc \in {"insertPolicy", "record"} :
          pc = IF req[r].kind = "admin" THEN "insertPolicy" ELSE "record"
    OBVIOUS
  <2>2. pc \in PCs /\ Goto(r, pc)
    BY <1>2, <2>1 DEF PCs, StoreToken
  <2>3. PICK q : q \in Request /\ Put(r, q) /\ Alike(req[r], q) /\ q.pc = pc
    BY <2>2, GotoMoves
  <2>4. Advances(r, q)
    BY <1>2, <2>1, <2>3 DEF StoreToken, Advances, Alike, Kept, History
  <2> QED BY <1>2, <2>3, <2>4, StoredMoves DEF StoreToken, Alike, RegPCs, Newborn, Stored
<1>3. CASE InsertPolicy(r)
  <2>1. CASE Goto(r, "record") /\ PolicyInsertable(req[r].client)
    <3>1. PICK q : q \in Request /\ Put(r, q) /\ Alike(req[r], q) /\ q.pc = "record"
      BY <2>1, GotoMoves DEF PCs
    <3>2. Advances(r, q)
      BY <1>3, <2>1, <3>1 DEF InsertPolicy, Advances, Alike, Kept, History
    <3> QED BY <1>3, <3>1, <3>2, StoredMoves DEF InsertPolicy, Alike, RegPCs, Newborn, Stored
  <2>2. CASE ~PolicyInsertable(req[r].client)
    BY <1>3, <2>2, CompensateMoves DEF InsertPolicy, Quiet, store, History, Stored
  <2> QED BY <1>3, <2>1, <2>2 DEF InsertPolicy
<1>4. CASE Record(r)
  <2>1. CASE tenant[req[r].tenant] \in Live
    BY <1>4, <2>1, FinishMoves DEF Record
  <2>2. CASE tenant[req[r].tenant] \notin Live
    BY <1>4, <2>2, CompensateMoves DEF Record, Quiet, Stored
  <2> QED BY <2>1, <2>2
<1> QED BY <1>1, <1>2, <1>3, <1>4

LEMMA RejectMoves ==
    ASSUME Typed, NEW r \in Requests, Reject(r)
    PROVE  \E q : Becomes(r, q) /\ Moves(r, q)
<1>1. CASE req[r].pc \in {"storeToken", "insertPolicy", "record"}
  BY <1>1, CompensateMoves DEF Reject, Quiet, Stored
<1>2. CASE req[r].pc \in {"checkDb", "insertRow", "insertClaims"}
  BY <1>2, FinishMoves DEF Reject
<1>3. CASE req[r].pc \in {"editGet", "getPolicy", "getCreate"}
  BY <1>3, UnfilledMoves DEF Reject
<1>4. CASE req[r].pc \notin {"storeToken", "insertPolicy", "record", "checkDb", "insertRow",
                             "insertClaims", "editGet", "getPolicy", "getCreate"}
  BY <1>4, FinishMoves DEF Reject
<1> QED BY <1>1, <1>2, <1>3, <1>4

LEMMA MovesStep ==
    ASSUME Typed, NEW r \in Requests, Acts(r)
    PROVE  \E q : Becomes(r, q) /\ Moves(r, q)
<1>1. CASE \/ InsertTenant(r) \/ DeleteTenant(r) \/ Close(r) \/ PatchReplace(r)
           \/ ResetAnswer(r) \/ WritePolicy(r) \/ PolicyLost(r) \/ DeleteToken(r) \/ Die(r)
  BY <1>1, FinishMoves DEF InsertTenant, DeleteTenant, Close, PatchReplace, ResetAnswer,
     WritePolicy, PolicyLost, DeleteToken, Die
<1> QED BY <1>1, TenantMoves, ClientMoves, EditGetMoves, GetPolicyMoves, GetCreateMoves,
           ChangeMoves, SubmitMoves, DeleteMoves, InsertMoves, InsertClaimsMoves, UndoMoves,
           RegistrationMoves, RejectMoves DEF Acts, Continue

-----------------------------------------------------------------------------
(* What each step makes of the tables of one client *)

StillHere(c) ==
    /\ row'[c] = row[c] /\ claims'[c] = claims[c] /\ policy'[c] = policy[c]
    /\ c \in tokens' <=> c \in tokens
Still(c) == StillHere(c) /\ outcome'[c] = outcome[c]
Dropped(c) == row'[c] = None /\ claims'[c] = {} /\ policy'[c] = "none"
Ends(c, o) == outcome'[c] = IF outcome[c] = "open" THEN o ELSE outcome[c]

\* The client is deleted, alone or with its tenant.
Gone(c) ==
    /\ Dropped(c) /\ (c \in tokens' <=> c \in tokens)
    /\ outcome'[c] = IF Present(c) THEN "deleted" ELSE outcome[c]

\* A request about a client that is there.
Changes(p, c) ==
    /\ Present(c) /\ (c \in tokens' <=> c \in tokens)
    /\ outcome'[c] = outcome[c]
    /\ \/ /\ p.pc \in {"patchWrite", "resetWrite"} /\ row'[c] = p.row
          /\ p.row.profile = "db" => DbSlotFree(c, p.row.tenant)
          /\ claims'[c] = claims[c] /\ policy'[c] = policy[c]
       \/ row'[c] = row[c] /\ policy'[c] = policy[c]
       \/ /\ row'[c] = row[c] /\ claims'[c] = claims[c] /\ policy'[c] # "none"
          /\ policy[c] = "none" \/ policy'[c] = "saved"

\* The registration of the client.
Registration(p, c) ==
    \/ p.pc \in Newborn /\ StillHere(c) /\ Ends(c, "refused")
    \/ p.pc \in RegPCs /\ StillHere(c) /\ Ends(c, "stranded")
    \/ /\ p.pc = "record" /\ StillHere(c)
       /\ Ends(c, IF p.kind = "admin" THEN "managed" ELSE "created")
    \/ /\ p.pc = "insertRow" /\ row'[c] = p.row /\ Insertable(c, p.row)
       /\ claims'[c] = claims[c] /\ policy'[c] = policy[c] /\ outcome'[c] = outcome[c]
       /\ c \in tokens' <=> c \in tokens
    \/ /\ p.pc = "storeToken" /\ row'[c] = row[c] /\ claims'[c] = claims[c]
       /\ policy'[c] = policy[c] /\ outcome'[c] = outcome[c]
    \/ /\ p.pc = "undo" /\ "row" \in p.undo /\ Dropped(c) /\ (c \in tokens' <=> c \in tokens)
       /\ IF p.undo = {"row"} THEN Ends(c, "refused") ELSE outcome'[c] = outcome[c]
    \/ /\ p.pc = "undo" /\ "token" \in p.undo /\ row'[c] = row[c] /\ claims'[c] = claims[c]
       /\ policy'[c] = policy[c] /\ c \notin tokens'
       /\ IF p.undo = {"token"} THEN Ends(c, "refused") ELSE outcome'[c] = outcome[c]

ClientStep(r, c) ==
    LET p == req[r]
    IN  \/ Still(c)
        \/ Gone(c) /\ (Present(c) \/ (c = p.client /\ p.pc \in {"delete", "mcpDelete"}))
        \/ p = Idle /\ StillHere(c) /\ outcome[c] = "unused" /\ outcome'[c] = "open"
        \/ /\ c = p.client
           /\ \/ Changes(p, c) \/ Registration(p, c)
              \/ /\ p.pc = "mcpToken" /\ row'[c] = row[c] /\ claims'[c] = claims[c]
                 /\ policy'[c] = policy[c] /\ outcome'[c] = outcome[c] /\ c \notin tokens'

LEMMA QuietStill == ASSUME Quiet, NEW c \in Clients PROVE Still(c)
BY DEF Quiet, store, Still, StillHere

LEMMA BegunWrites ==
    ASSUME Typed, NEW r \in Requests, NEW c \in Clients,
           (\E t \in Tenants : OfTenant(r, t)) \/ (\E d \in Clients : OfClient(r, d))
    PROVE  ClientStep(r, c)
<1>1. ASSUME Quiet PROVE ClientStep(r, c)
  BY <1>1, QuietStill DEF ClientStep
<1>2. ASSUME NEW d \in Clients, NEW kind, NEW x, NEW s, Register(r, d, kind, x, s)
      PROVE  ClientStep(r, c)
  <2>1. /\ req[r] = Idle /\ UNCHANGED store /\ outcome[d] = "unused"
        /\ outcome' = [outcome EXCEPT ![d] = "open"]
    BY <1>2 DEF Register, Start
  <2> QED BY <2>1 DEF store, ClientStep, Still, StillHere, Typed, TypeOK
<1>3. ASSUME NEW t \in Tenants, OfTenant(r, t) PROVE ClientStep(r, c)
  BY <1>1, <1>2, <1>3 DEF OfTenant, StartTenant, StartDeleteTenant, Reads, History, Quiet,
     RegisterAdmin, RegisterDynamic, RegisterMcp
<1>4. ASSUME NEW d \in Clients, OfClient(r, d) PROVE ClientStep(r, c)
  BY <1>1, <1>4 DEF OfClient, Open, StartPatch, Patch, StartReset, StartPolicy, StartDelete,
     StartMcpDelete, Reads, History, Quiet
<1> QED BY <1>3, <1>4

LEMMA ReadWrites ==
    ASSUME Typed, NEW r \in Requests, NEW c \in Clients,
           \/ EditGet(r) \/ GetPolicy(r) \/ Close(r) \/ Submit(r) \/ PatchDb(r)
           \/ PatchClaims(r) \/ SavePolicy(r) \/ PolicyRead(r) \/ PolicyLost(r)
           \/ InsertTenant(r) \/ ResetAnswer(r)
    PROVE  ClientStep(r, c)
<1>1. Still(c)
  BY DEF EditGet, GetPolicy, Close, Submit, Patch, PatchDb, PatchClaims, SavePolicy,
     PolicyRead, PolicyLost, InsertTenant, ResetAnswer, Reads, History, store, Still, StillHere
<1> QED BY <1>1 DEF ClientStep

LEMMA ChangeWrites ==
    ASSUME Typed, Keyed, NEW r \in Requests, NEW c \in Clients,
           \/ GetCreate(r) \/ PatchWrite(r) \/ PatchReplace(r) \/ ResetWrite(r)
           \/ WritePolicy(r)
    PROVE  ClientStep(r, c)
<1>0. RequestKnown(req[r])
  BY Known
<1>1. req[r].client \in Clients
  BY <1>0 DEF GetCreate, PatchWrite, PatchReplace, ResetWrite, WritePolicy, RequestKnown,
     TenantPCs
<1>2. SUFFICES Still(c) \/ (c = req[r].client /\ Changes(req[r], c))
  BY DEF ClientStep
<1>3. CASE GetCreate(r)
  BY <1>1, <1>3 DEF GetCreate, PolicyInsertable, History, Still, StillHere, Changes, Typed,
     TypeOK
<1>4. CASE PatchWrite(r)
  BY <1>1, <1>4 DEF PatchWrite, Updated, History, Still, StillHere, Changes, Typed, TypeOK
<1>5. CASE PatchReplace(r)
  BY <1>1, <1>5 DEF PatchReplace, History, Still, StillHere, Changes, Typed, TypeOK
<1>6. CASE ResetWrite(r)
  <2>1. req[r].row.profile # "db"
    BY <1>0, <1>6 DEF ResetWrite, RequestKnown, RowOk, Writers
  <2> QED BY <1>1, <1>6, <2>1 DEF ResetWrite, ResetRow, Updated, History, Still, StillHere,
             Changes, Typed, TypeOK
<1>7. CASE WritePolicy(r)
  <2>1. policy' = [policy EXCEPT ![req[r].client] = "saved"]
        /\ UNCHANGED <<row, claims, tokens, outcome>>
    BY <1>7 DEF WritePolicy, History
  <2> QED BY <1>1, <1>7, <2>1
          DEF WritePolicy, PolicyInsertable, Still, StillHere, Changes, Typed, TypeOK, Keyed
<1> QED BY <1>3, <1>4, <1>5, <1>6, <1>7

LEMMA BecameEnds ==
    ASSUME Typed, NEW d \in Clients, NEW o, Became(d, o)
    PROVE  Ends(d, o) /\ \A c \in Clients \ {d} : outcome'[c] = outcome[c]
BY DEF Became, Ends, Typed, TypeOK

LEMMA RegistrationWrites ==
    ASSUME Typed, NEW r \in Requests, NEW c \in Clients,
           \/ CheckDb(r) \/ InsertRow(r) \/ InsertClaims(r)
           \/ StoreToken(r) \/ InsertPolicy(r) \/ Record(r)
    PROVE  ClientStep(r, c)
<1> DEFINE p == req[r]
           d == p.client
<1>0. RequestKnown(p) /\ d \in Clients
  BY Known DEF CheckDb, InsertRow, InsertClaims, StoreToken, InsertPolicy, Record,
     RequestKnown, TenantPCs
<1>1. SUFFICES Still(c) \/ (c = d /\ (Changes(p, c) \/ Registration(p, c)))
  BY DEF ClientStep
<1>2. CASE CheckDb(r)
  <2>1. p.pc = "checkDb" /\ UNCHANGED store /\ (UNCHANGED outcome \/ Became(d, "refused"))
    BY <1>2 DEF CheckDb
  <2>2. StillHere(c) /\ p.pc \in Newborn
    BY <2>1 DEF StillHere, store, Newborn
  <2> QED BY <1>0, <2>1, <2>2, BecameEnds DEF Registration, Still
<1>3. CASE InsertRow(r)
  <2>1. p.pc = "insertRow" /\ p.pc \in Newborn /\ UNCHANGED <<claims, policy, tokens>>
    BY <1>3 DEF InsertRow, Newborn
  <2>2. CASE Insertable(d, p.row)
    <3>1. row' = [row EXCEPT ![d] = p.row] /\ UNCHANGED outcome
      BY <1>3, <2>2 DEF InsertRow
    <3> QED BY <1>0, <2>1, <2>2, <3>1 DEF Registration, Still, StillHere, Typed, TypeOK
  <2>3. CASE ~Insertable(d, p.row)
    <3>1. UNCHANGED row /\ Became(d, "refused")
      BY <1>3, <2>3 DEF InsertRow
    <3> QED BY <1>0, <2>1, <3>1, BecameEnds DEF Registration, Still, StillHere
  <2> QED BY <2>2, <2>3
<1>4. CASE InsertClaims(r)
  <2>1. /\ UNCHANGED <<row, policy, tokens, outcome>>
        /\ claims' = IF Present(d) THEN [claims EXCEPT ![d] = p.claims] ELSE claims
    BY <1>4 DEF InsertClaims, History
  <2> QED BY <1>0, <2>1 DEF Changes, Still, StillHere, Typed, TypeOK
<1>5. CASE StoreToken(r)
  BY <1>0, <1>5 DEF StoreToken, History, Registration, Still, StillHere
<1>6. CASE InsertPolicy(r)
  <2>1. /\ UNCHANGED <<row, claims, tokens, outcome>>
        /\ \/ UNCHANGED policy
           \/ PolicyInsertable(d) /\ policy' = [policy EXCEPT ![d] = "default"]
    BY <1>6 DEF InsertPolicy, History
  <2> QED BY <1>0, <2>1 DEF PolicyInsertable, Changes, Still, StillHere, Typed, TypeOK
<1>7. CASE Record(r)
  <2>1. /\ p.pc = "record" /\ UNCHANGED store
        /\ \/ UNCHANGED outcome
           \/ Became(d, IF p.kind = "admin" THEN "managed" ELSE "created")
    BY <1>7 DEF Record
  <2>2. StillHere(c)
    BY <2>1 DEF StillHere, store
  <2> QED BY <1>0, <2>1, <2>2, BecameEnds DEF Registration, Still
<1> QED BY <1>2, <1>3, <1>4, <1>5, <1>6, <1>7

LEMMA UndoWrites ==
    ASSUME Typed, NEW r \in Requests, NEW c \in Clients,
           \E part \in {"row", "token"} : Undo(r, part) \/ UndoFails(r, part)
    PROVE  ClientStep(r, c)
<1> DEFINE p == req[r]
           d == p.client
<1>0. /\ RequestKnown(p) /\ d \in Clients /\ p.undo \subseteq {"row", "token"}
      /\ p.pc = "undo" /\ p.pc \in RegPCs
  BY Known DEF Undo, UndoFails, RequestKnown, TenantPCs, Request, RegPCs
<1>1. SUFFICES Still(c) \/ (c = d /\ Registration(p, c))
  BY DEF ClientStep
<1>2. CASE Undo(r, "row")
  <2>1. /\ "row" \in p.undo /\ row' = [row EXCEPT ![d] = None] /\ Drop({d})
        /\ UNCHANGED tokens
        /\ IF p.undo = {"row"} THEN Became(d, "refused") ELSE UNCHANGED outcome
    BY <1>0, <1>2 DEF Undo
  <2>2. IF c = d THEN Dropped(c) ELSE StillHere(c)
    BY <1>0, <2>1 DEF Drop, Dropped, StillHere, Typed, TypeOK
  <2> QED BY <1>0, <2>1, <2>2, BecameEnds DEF Registration, Still
<1>3. CASE Undo(r, "token")
  <2>1. /\ "token" \in p.undo /\ tokens' = tokens \ {d} /\ UNCHANGED <<row, claims, policy>>
        /\ IF p.undo = {"token"} THEN Became(d, "refused") ELSE UNCHANGED outcome
    BY <1>0, <1>3 DEF Undo
  <2> QED BY <1>0, <2>1, BecameEnds DEF Registration, Still, StillHere
<1>4. CASE UndoFails(r, "row") \/ UndoFails(r, "token")
  <2>1. UNCHANGED store /\ Became(d, "stranded")
    BY <1>4 DEF UndoFails
  <2>2. StillHere(c)
    BY <2>1 DEF StillHere, store
  <2> QED BY <1>0, <2>1, <2>2, BecameEnds DEF Registration, Still
<1> QED BY <1>2, <1>3, <1>4

LEMMA FailureWrites ==
    ASSUME Typed, NEW r \in Requests, NEW c \in Clients, Reject(r) \/ Die(r)
    PROVE  ClientStep(r, c)
<1> DEFINE p == req[r]
           d == p.client
<1>0. RequestKnown(p)
  BY Known
<1>1. /\ UNCHANGED store
      /\ \/ UNCHANGED outcome
         \/ p.pc \in Newborn /\ Became(d, "refused")
         \/ p.pc \in RegPCs /\ Became(d, "stranded")
  <2>1. CASE Reject(r)
    BY <2>1 DEF Reject, Newborn, RegPCs, Stored
  <2>2. CASE Die(r)
    BY <1>0, <2>2 DEF Die, RequestKnown, Registering
  <2> QED BY <2>1, <2>2
<1>2. StillHere(c)
  BY <1>1 DEF StillHere, store
<1>3. CASE UNCHANGED outcome
  BY <1>2, <1>3 DEF ClientStep, Still
<1>4. CASE p.pc \in RegPCs /\ ~UNCHANGED outcome
  <2>1. d \in Clients
    BY <1>0, <1>4 DEF RequestKnown, RegPCs, Newborn, Stored, TenantPCs
  <2> QED BY <1>1, <1>2, <1>4, <2>1, BecameEnds DEF Registration, ClientStep, Still
<1> QED BY <1>1, <1>3, <1>4 DEF RegPCs

LEMMA DeleteWrites ==
    ASSUME Typed, NEW r \in Requests, NEW c \in Clients,
           Delete(r) \/ DeleteTenant(r) \/ DeleteToken(r)
    PROVE  ClientStep(r, c)
<1> DEFINE p == req[r]
           d == p.client
<1>1. CASE Delete(r)
  <2>1. /\ p.pc \in {"delete", "mcpDelete"} /\ row' = [row EXCEPT ![d] = None] /\ Drop({d})
        /\ outcome' = [outcome EXCEPT ![d] = IF Present(d) THEN "deleted" ELSE @]
        /\ UNCHANGED tokens
    BY <1>1 DEF Delete
  <2>2. IF c = d THEN Gone(c) ELSE Still(c)
    BY <2>1 DEF Drop, Gone, Dropped, Still, StillHere, Typed, TypeOK
  <2> QED BY <2>1, <2>2 DEF ClientStep
<1>2. CASE DeleteTenant(r)
  <2>1. IF Present(c) /\ row[c].tenant = p.tenant THEN Gone(c) ELSE Still(c)
    BY <1>2 DEF DeleteTenant, WithoutTenant, Drop, Gone, Dropped, Still, StillHere
  <2>2. CASE Present(c) /\ row[c].tenant = p.tenant
    BY <2>1, <2>2 DEF ClientStep
  <2>3. CASE ~(Present(c) /\ row[c].tenant = p.tenant)
    BY <2>1, <2>3 DEF ClientStep
  <2> QED BY <2>2, <2>3
<1>3. CASE DeleteToken(r)
  <2>1. /\ p.pc = "mcpToken" /\ tokens' = tokens \ {d}
        /\ UNCHANGED <<row, claims, policy, outcome>>
    BY <1>3 DEF DeleteToken, History
  <2> QED BY <2>1 DEF ClientStep, Still, StillHere
<1> QED BY <1>1, <1>2, <1>3

LEMMA WritesStep ==
    ASSUME Typed, Keyed, NEW r \in Requests, NEW c \in Clients, Acts(r)
    PROVE  ClientStep(r, c)
BY BegunWrites, ReadWrites, ChangeWrites, RegistrationWrites, UndoWrites, FailureWrites,
   DeleteWrites DEF Acts, Continue

-----------------------------------------------------------------------------
(* What requests know of the tables stays true. *)

\* The names of the places are distinct.
LEMMA PlacesDiffer ==
    /\ Newborn \cap Stored = {} /\ Newborn \subseteq RegPCs /\ Stored \subseteq RegPCs
    /\ "undo" \in RegPCs /\ "undo" \notin Newborn \cup Stored
    /\ {"mcpToken", "idle"} \cap RegPCs = {} /\ Writers \cap RegPCs = {}
    /\ TenantPCs \cap RegPCs = {} /\ TenantPCs \cap Writers = {}
    /\ {"mcpToken", "idle"} \cap (Writers \cup Newborn \cup Stored \cup TenantPCs) = {}
BY DEF Newborn, Stored, RegPCs, TenantPCs, Writers

LEMMA RowsAreRows ==
    ASSUME NEW q, RequestKnown(q), q.pc \in Newborn \cup Writers
    PROVE  q.row \in Row /\ q.row # None /\ RowOk(q.row)
BY NoneIsNoRow DEF RequestKnown

LEMMA OthersStay ==
    ASSUME Typed, Under, NEW r \in Requests, NEW s \in Requests, r # s,
           req'[s] = req[s], \A c \in Clients : ClientStep(r, c)
    PROVE  RequestOk(req[s])'
<1> DEFINE p == req[r]
           o == req[s]
           c == o.client
<1>1. RequestKnown(p) /\ RequestKnown(o)
  BY Known
<1>2. RequestOk(p) /\ RequestOk(o) /\ Apart(p, o) /\ Apart(o, p)
  BY DEF Under
<1>3. CASE c \notin Clients
  <2>1. o.pc \in {"idle"} \cup TenantPCs
    BY <1>1, <1>3 DEF RequestKnown
  <2>2. /\ o.pc \notin Newborn /\ o.pc \notin Stored \cup {"undo"} /\ o.pc # "mcpToken"
        /\ o.pc \notin Writers
    BY <2>1 DEF TenantPCs, Newborn, Stored, Writers
  <2> QED BY <1>3, <2>2 DEF RequestOk
<1>4. CASE c \in Clients /\ Still(c)
  BY <1>2, <1>4 DEF RequestOk, Still, StillHere, Untouched, Present
<1>5. CASE c \in Clients /\ Gone(c) /\ (Present(c) \/ (c = p.client /\ p.pc \in {"delete", "mcpDelete"}))
  <2>1. o.pc \notin Newborn
    BY <1>2, <1>5 DEF RequestOk, Untouched, Present, Apart
  <2>2. ~Present(c)' /\ claims'[c] = {} /\ policy'[c] = "none" /\ (c \in tokens' <=> c \in tokens)
    BY <1>5 DEF Gone, Dropped, Present
  <2>3. outcome'[c] = IF Present(c) THEN "deleted" ELSE outcome[c]
    BY <1>5 DEF Gone
  <2> QED BY <1>2, <2>1, <2>2, <2>3 DEF RequestOk
<1>6. CASE c \in Clients /\ c = p.client /\ Changes(p, c)
  <2>1. o.pc \notin Newborn
    BY <1>2, <1>6 DEF Apart, Changes, RequestOk, Untouched, Present
  <2>2. /\ Present(c) /\ Present(c)' /\ outcome'[c] = outcome[c]
        /\ (c \in tokens' <=> c \in tokens)
        /\ policy[c] # "none" => policy'[c] # "none"
    BY <1>1, <1>6, RowsAreRows DEF Changes, Present, Writers
  <2>3. row'[c].tenant = row[c].tenant
    BY <1>2, <1>6 DEF Changes, RequestOk, Writers
  <2> QED BY <1>2, <2>1, <2>2, <2>3 DEF RequestOk
<1>7. CASE c \in Clients /\ c = p.client /\ Registration(p, c)
  <2>1. p.pc \in RegPCs \ Newborn /\ o.pc \notin RegPCs
    <3>1. p.pc \in RegPCs
      BY <1>7 DEF Registration, RegPCs, Newborn, Stored
    <3> QED BY <1>2, <1>7, <3>1 DEF Apart
  <2>2. (Present(c)' => row'[c] = row[c]) /\ (outcome[c] # "unused" => outcome'[c] # "unused")
    BY <1>7, <2>1 DEF Registration, Newborn, StillHere, Dropped, Present, Ends
  <2>3. Present(c)' => Present(c)
    BY <2>2 DEF Present
  <2> QED BY <1>2, <1>7, <2>1, <2>2, <2>3, PlacesDiffer DEF RequestOk
<1>8. CASE /\ c \in Clients /\ c = p.client /\ p.pc = "mcpToken" /\ row'[c] = row[c]
           /\ claims'[c] = claims[c] /\ policy'[c] = policy[c] /\ outcome'[c] = outcome[c]
           /\ c \notin tokens'
  BY <1>2, <1>8 DEF RequestOk, Untouched, Present
<1>9. CASE c \in Clients /\ outcome[c] = "unused"
  BY <1>2, <1>9 DEF RequestOk
<1> QED BY <1>3, <1>4, <1>5, <1>6, <1>7, <1>8, <1>9 DEF ClientStep

LEMMA OwnStays ==
    ASSUME Typed, Under, NEW r \in Requests, NEW q, RequestKnown(q), req'[r] = q,
           Moves(r, q), TypeOK'
    PROVE  RequestOk(req[r])'
<1> DEFINE p == req[r]
           c == q.client
<1>1. RequestKnown(p) /\ RequestOk(p)
  BY Known DEF Under
<1>2. SUFFICES RequestOk(q)'
  OBVIOUS
<1>3. CASE q.pc \in {"idle"} \cup TenantPCs
  <2>1. c \notin Clients
    BY <1>3, ConstantsTyped DEF RequestKnown
  <2> QED BY <1>3, <2>1, PlacesDiffer DEF RequestOk
<1>4. CASE q.pc \notin {"idle"} \cup TenantPCs
  <2>0. c \in Clients
    BY <1>4 DEF RequestKnown
  <2>1. CASE Begins(r, q)
    <3>1. /\ q.pc \notin Newborn /\ q.pc \notin Stored \cup {"undo"} /\ q.pc # "mcpToken"
          /\ Present(c) /\ UNCHANGED <<row, outcome>>
          /\ q.pc \in Writers => q.row.tenant = row[c].tenant
      BY <1>4, <2>1 DEF Begins, Newborn, Stored, Quiet, store
    <3>2. outcome[c] # "unused"
      BY <2>0, <3>1 DEF Under, Untouched, Present
    <3> QED BY <3>1, <3>2 DEF RequestOk, Present
  <2>2. CASE Registers(r, q)
    <3>1. Untouched(c)' /\ outcome'[c] = "open" /\ q.pc \in Newborn
      BY <2>0, <2>2 DEF Registers, Under, store, Untouched, Typed, TypeOK
    <3> QED BY <3>1, PlacesDiffer DEF RequestOk
  <2>3. CASE GoesOn(r, q)
    <3>1. /\ q.pc \notin Newborn /\ q.pc \notin Stored \cup {"undo"} /\ q.pc # "mcpToken"
          /\ c = p.client /\ UNCHANGED outcome
          /\ q.pc \in Writers => p.pc \in Writers /\ q.row = p.row /\ UNCHANGED row
      BY <2>3 DEF GoesOn, RegPCs
    <3> QED BY <1>1, <3>1 DEF RequestOk, Present
  <2>4. CASE Deletes(r, q)
    <3>1. /\ c = p.client /\ q.pc = "mcpToken" /\ row'[c] = None
          /\ outcome'[c] = IF Present(c) THEN "deleted" ELSE outcome[c]
      BY <2>0, <2>4 DEF Deletes, Typed, TypeOK
    <3> QED BY <1>1, <2>0, <3>1, PlacesDiffer DEF RequestOk, Present
  <2>5. CASE Advances(r, q)
    <3>0. Kept(p, q) /\ c = p.client
      BY <2>5 DEF Advances, Kept
    <3>1. CASE p.pc = "checkDb" /\ q.pc = "insertRow" /\ Quiet
      <4>1. p.pc \in Newborn /\ q.pc \in Newborn /\ Untouched(c)' /\ outcome'[c] = "open"
        BY <1>1, <3>0, <3>1 DEF Newborn, RequestOk, Untouched, Quiet, store
      <4> QED BY <4>1, PlacesDiffer DEF RequestOk
    <3>2. CASE p.pc = "insertRow" /\ q.pc \in {"insertClaims", "storeToken"}
      <4>1. row' = [row EXCEPT ![c] = p.row] /\ UNCHANGED outcome
        BY <2>5, <3>2, <3>0 DEF Advances, Kept, Stored
      <4>2. p.pc \in Newborn
        BY <3>2 DEF Newborn
      <4>3. Present(c)' /\ outcome'[c] = "open"
        BY <1>1, <2>0, <3>0, <4>1, <4>2, RowsAreRows DEF RequestOk, Present, Typed, TypeOK
      <4>4. q.pc \in Stored /\ q.pc \notin {"insertPolicy", "record"}
        BY <3>2 DEF Stored
      <4> QED BY <4>3, <4>4, PlacesDiffer DEF RequestOk
    <3>3. CASE p.pc \in Stored /\ q.pc \in Stored
      <4>1. /\ row'[c] = row[c] /\ outcome'[c] = outcome[c]
            /\ q.pc \in {"insertPolicy", "record"} => c \in tokens' \/ (p.pc = "insertPolicy" /\ UNCHANGED tokens)
            /\ q.pc = "record" /\ q.kind = "admin" => policy'[c] # "none"
            /\ p.pc = "insertClaims" => q.pc = "storeToken"
        BY <2>0, <2>5, <3>0, <3>3 DEF Advances, Kept, Stored, Typed, TypeOK
      <4>2. outcome[c] = "open" => Present(c) /\ (p.pc = "insertPolicy" => c \in tokens)
        BY <1>1, <3>0, <3>3 DEF RequestOk
      <4> QED BY <1>1, <3>0, <3>3, <4>1, <4>2, PlacesDiffer DEF RequestOk, Present
    <3>4. CASE p.pc \in Stored /\ q.pc = "undo"
      <4>1. q.undo = {"row", "token"} /\ Quiet
        BY <2>5, <3>4 DEF Advances, Stored
      <4> QED BY <1>1, <3>0, <3>4, <4>1, PlacesDiffer DEF RequestOk, Quiet
    <3>5. CASE p.pc = "undo" /\ q.pc = "undo"
      <4>1. \/ \E part \in {"row", "token"} :
                 q.undo = p.undo \ {part} /\ Takes(part, c) /\ UNCHANGED outcome
            \/ UNCHANGED store /\ Became(c, "stranded")
        BY <2>5, <3>0, <3>5 DEF Advances, Stored
      <4>2. CASE UNCHANGED store /\ Became(c, "stranded")
        <5>1. outcome'[c] \in {"deleted", "stranded"}
          BY <1>1, <2>0, <3>0, <3>5, <4>2, BecameEnds DEF RequestOk, Ends
        <5> QED BY <3>5, <5>1, PlacesDiffer DEF RequestOk
      <4>3. CASE q.undo = p.undo \ {"row"} /\ Takes("row", c) /\ UNCHANGED outcome
        <5>1. Dropped(c) /\ UNCHANGED tokens
          BY <2>0, <4>3 DEF Takes, Dropped, Drop, Typed, TypeOK
        <5> QED BY <1>1, <3>0, <3>5, <4>3, <5>1, PlacesDiffer DEF RequestOk, Dropped, Present
      <4>4. CASE q.undo = p.undo \ {"token"} /\ Takes("token", c) /\ UNCHANGED outcome
        <5>1. tokens' = tokens \ {c} /\ UNCHANGED <<row, claims, policy>>
          BY <4>4 DEF Takes
        <5> QED BY <1>1, <3>0, <3>5, <4>4, <5>1, PlacesDiffer DEF RequestOk, Present
      <4> QED BY <4>1, <4>2, <4>3, <4>4
    <3> QED BY <2>5, <3>1, <3>2, <3>3, <3>4, <3>5 DEF Advances, Stored
  <2> QED BY <1>4, <2>1, <2>2, <2>3, <2>4, <2>5, IdleFields DEF Moves
<1> QED BY <1>3, <1>4

LEMMA ApartStays ==
    ASSUME Typed, Under, NEW r \in Requests, NEW q, RequestKnown(q), Moves(r, q),
           NEW s \in Requests, r # s
    PROVE  Apart(q, req[s]) /\ Apart(req[s], q)
<1> DEFINE p == req[r]
           o == req[s]
<1>1. /\ RequestKnown(p) /\ RequestKnown(o) /\ RequestOk(o)
      /\ Apart(p, o) /\ Apart(o, p)
  BY Known DEF Under
<1>2. CASE q.client = None
  <2>1. q.pc \in {"idle"} \cup TenantPCs
    BY <1>2, ConstantsTyped DEF RequestKnown
  <2>2. q.pc \notin RegPCs /\ q.pc \notin Newborn
    BY <2>1, PlacesDiffer
  <2>3. o.pc \in Newborn => o.client \in Clients
    BY <1>1, PlacesDiffer DEF RequestKnown
  <2> QED BY <1>2, <2>2, <2>3, ConstantsTyped DEF Apart
<1>3. CASE q.client \in Clients
  <2>1. CASE Begins(r, q)
    <3>1. q.pc \notin RegPCs /\ q.pc \notin Newborn /\ Present(q.client)
      BY <1>3, <2>1, ConstantsTyped DEF Begins, RegPCs, Newborn, Stored, TenantPCs, RequestKnown
    <3>2. o.pc \in Newborn => o.client # q.client
      BY <1>1, <3>1 DEF RequestOk, Untouched, Present
    <3> QED BY <3>1, <3>2 DEF Apart
  <2>2. CASE Registers(r, q)
    <3>1. o.client # q.client
      BY <1>1, <1>3, <2>2 DEF RequestOk, Registers
    <3> QED BY <3>1 DEF Apart
  <2>3. CASE GoesOn(r, q)
    <3>1. q.pc \notin RegPCs /\ q.pc \notin Newborn /\ q.client = p.client
      BY <2>3, PlacesDiffer DEF GoesOn
    <3> QED BY <1>1, <3>1 DEF Apart
  <2>4. CASE Deletes(r, q)
    <3>1. q.pc \notin RegPCs /\ q.pc \notin Newborn /\ q.client = p.client
      BY <2>4, PlacesDiffer DEF Deletes
    <3> QED BY <1>1, <3>1 DEF Apart
  <2>5. CASE Advances(r, q)
    <3>1. /\ q.client = p.client /\ p.pc \in RegPCs
          /\ q.pc \in Newborn => p.pc \in Newborn
      BY <2>5 DEF Advances, Kept, RegPCs, Newborn, Stored
    <3> QED BY <1>1, <3>1 DEF Apart
  <2> QED BY <1>3, <2>1, <2>2, <2>3, <2>4, <2>5, IdleFields, ConstantsTyped DEF Moves
<1> QED BY <1>2, <1>3 DEF RequestKnown

LEMMA UnusedStay ==
    ASSUME Typed, Under, NEW r \in Requests, NEW c \in Clients, ClientStep(r, c),
           outcome'[c] = "unused"
    PROVE  Untouched(c)'
<1> DEFINE p == req[r]
<1>1. c = p.client => outcome[c] # "unused"
  BY DEF Under, RequestOk
<1>2. outcome[c] = "unused" => Untouched(c)
  BY DEF Under
<1>3. CASE Still(c)
  BY <1>2, <1>3 DEF Still, StillHere, Untouched
<1>4. CASE Gone(c)
  BY <1>2, <1>4 DEF Gone, Dropped, Untouched
<1>5. CASE c = p.client
  <2>1. Changes(p, c) => outcome'[c] = outcome[c]
    BY DEF Changes
  <2>2. Registration(p, c) => outcome'[c] \in {outcome[c], "refused", "stranded", "managed", "created"}
    BY DEF Registration, Ends
  <2> QED BY <1>1, <1>3, <1>4, <1>5, <2>1, <2>2 DEF ClientStep
<1> QED BY <1>3, <1>4, <1>5 DEF ClientStep

LEMMA UnderStep ==
    ASSUME Typed, Under, Keyed, TypeOK', NEW r \in Requests, Acts(r)
    PROVE  Under'
<1>1. PICK q : Becomes(r, q) /\ Moves(r, q)
  BY MovesStep
<1>2. \A c \in Clients : ClientStep(r, c)
  BY WritesStep
<1>3. /\ RequestKnown(q) /\ req'[r] = q
      /\ \A s \in Requests \ {r} : req'[s] = req[s]
  BY <1>1 DEF Becomes, Typed, TypeOK
<1>4. ASSUME NEW s \in Requests PROVE RequestOk(req[s])'
  <2>1. CASE s = r
    BY <1>1, <1>3, <2>1, OwnStays
  <2>2. CASE s # r
    BY <1>2, <1>3, <2>2, OthersStay
  <2> QED BY <2>1, <2>2
<1>5. ASSUME NEW s \in Requests, NEW t \in Requests, s # t PROVE Apart(req[s], req[t])'
  <2>1. CASE s = r
    BY <1>1, <1>3, <1>5, <2>1, ApartStays DEF Apart
  <2>2. CASE t = r
    BY <1>1, <1>3, <1>5, <2>2, ApartStays DEF Apart
  <2>3. CASE s # r /\ t # r
    BY <1>3, <1>5, <2>3 DEF Apart, Under
  <2> QED BY <2>1, <2>2, <2>3
<1>6. ASSUME NEW c \in Clients, outcome'[c] = "unused" PROVE Untouched(c)'
  BY <1>2, <1>6, UnusedStay
<1> QED BY <1>4, <1>5, <1>6 DEF Under

-----------------------------------------------------------------------------
(* The tables stay well-typed, and no client row is half of two.           *)

\* The row a client is left with is its own, none, or the one its request wrote.
RowAfter(p, c) ==
    \/ row'[c] = row[c] \/ row'[c] = None
    \/ /\ c = p.client /\ row'[c] = p.row /\ p.row \in Row /\ RowOk(p.row)
       /\ p.row.profile = "db" => DbSlotFree(c, p.row.tenant)
       /\ \/ p.pc \in Writers /\ Present(c)
          \/ p.pc = "insertRow" /\ Insertable(c, p.row)

LEMMA RowsAfter ==
    ASSUME Typed, NEW r \in Requests, NEW c \in Clients, ClientStep(r, c)
    PROVE  RowAfter(req[r], c)
<1> DEFINE p == req[r]
<1>1. RequestKnown(p)
  BY Known
<1>2. CASE Still(c) \/ StillHere(c) \/ Gone(c) \/ p.pc = "mcpToken"
  BY <1>2 DEF ClientStep, Still, StillHere, Gone, Dropped, RowAfter, Changes, Registration,
     Newborn, RegPCs, Stored
<1>3. CASE c = p.client /\ Changes(p, c)
  <2>1. CASE row'[c] = row[c]
    BY <2>1 DEF RowAfter
  <2>2. CASE row'[c] # row[c]
    <3>1. /\ p.pc \in {"patchWrite", "resetWrite"} /\ row'[c] = p.row /\ Present(c)
          /\ p.row.profile = "db" => DbSlotFree(c, p.row.tenant)
      BY <1>3, <2>2 DEF Changes
    <3>2. p.pc \in Writers
      BY <3>1 DEF Writers
    <3> QED BY <1>1, <1>3, <3>1, <3>2, RowsAreRows DEF RowAfter
  <2> QED BY <2>1, <2>2
<1>4. CASE c = p.client /\ Registration(p, c)
  <2>1. CASE p.pc = "insertRow" /\ row'[c] = p.row /\ Insertable(c, p.row)
    <3>1. p.pc \in Newborn
      BY <2>1 DEF Newborn
    <3> QED BY <1>1, <1>4, <2>1, <3>1, RowsAreRows DEF RowAfter, Insertable
  <2>2. CASE row'[c] = row[c] \/ row'[c] = None
    BY <2>2 DEF RowAfter
  <2> QED BY <1>4, <2>1, <2>2 DEF Registration, StillHere, Dropped
<1> QED BY <1>2, <1>3, <1>4 DEF ClientStep

\* Functions whose values are right everywhere.
LEMMA DropTyped ==
    ASSUME Typed, NEW gone, Drop(gone)
    PROVE  /\ claims' \in [Clients -> SUBSET Sources]
           /\ policy' \in [Clients -> {"none", "default", "saved"}]
BY DEF Drop, Typed, TypeOK

LEMMA RowTyped ==
    ASSUME Typed, NEW r \in Requests, \A c \in Clients : ClientStep(r, c),
           NEW d, NEW x, row' \in {row, [row EXCEPT ![d] = x],
                                   [c \in Clients |-> IF Present(c) /\ row[c].tenant = d
                                                      THEN None ELSE row[c]]}
    PROVE  row' \in [Clients -> Row \cup {None}]
<1>1. ASSUME NEW c \in Clients PROVE row'[c] \in Row \cup {None}
  BY <1>1, RowsAfter DEF RowAfter, Typed, TypeOK
<1>2. row \in [Clients -> Row \cup {None}]
  BY DEF Typed, TypeOK
<1>3. CASE row' = row
  BY <1>2, <1>3
<1>4. CASE row' = [row EXCEPT ![d] = x]
  BY <1>1, <1>2, <1>4
<1>5. CASE row' = [c \in Clients |-> IF Present(c) /\ row[c].tenant = d THEN None ELSE row[c]]
  BY <1>2, <1>5
<1> QED BY <1>3, <1>4, <1>5

LEMMA BecameTyped ==
    ASSUME Typed, NEW d, NEW o, Became(d, o), o \in {"created", "managed", "refused", "stranded"}
    PROVE  outcome' \in [Clients -> {"unused", "open", "created", "managed", "refused",
                                     "stranded", "deleted"}]
BY DEF Became, Typed, TypeOK

RowWritten ==
    \E d, x : row' \in {row, [row EXCEPT ![d] = x],
                        [c \in Clients |-> IF Present(c) /\ row[c].tenant = d
                                           THEN None ELSE row[c]]}
TablesTyped ==
    /\ tenant' \in [Tenants -> Live \cup {"absent", "gone"}] /\ RowWritten
    /\ claims' \in [Clients -> SUBSET Sources]
    /\ policy' \in [Clients -> {"none", "default", "saved"}]
    /\ tokens' \subseteq Clients
HistoryTyped ==
    /\ failures' \in 0..MaxFailures /\ replaced' \subseteq Secrets
    /\ outcome' \in [Clients -> {"unused", "open", "created", "managed", "refused",
                                 "stranded", "deleted"}]

LEMMA SameTables == ASSUME Typed, UNCHANGED store PROVE TablesTyped
BY DEF store, TablesTyped, RowWritten, Typed, TypeOK

LEMMA SameHistory == ASSUME Typed, History PROVE HistoryTyped
BY DEF History, HistoryTyped, Typed, TypeOK

LEMMA BegunTyped ==
    ASSUME Typed, NEW r \in Requests,
           (\E t \in Tenants : OfTenant(r, t)) \/ (\E d \in Clients : OfClient(r, d))
    PROVE  TablesTyped /\ HistoryTyped
<1>1. CASE Reads
  BY <1>1, SameTables, SameHistory DEF Reads
<1>2. ASSUME NEW d \in Clients, NEW kind, NEW x, NEW s, Register(r, d, kind, x, s)
      PROVE  TablesTyped /\ HistoryTyped
  <2>1. /\ UNCHANGED <<store, failures, replaced>>
        /\ outcome' = [outcome EXCEPT ![d] = "open"]
    BY <1>2 DEF Register
  <2> QED BY <2>1, SameTables DEF HistoryTyped, Typed, TypeOK
<1>3. ASSUME NEW t \in Tenants, OfTenant(r, t) PROVE TablesTyped /\ HistoryTyped
  BY <1>1, <1>2, <1>3 DEF OfTenant, StartTenant, StartDeleteTenant,
     RegisterAdmin, RegisterDynamic, RegisterMcp
<1>4. ASSUME NEW d \in Clients, OfClient(r, d) PROVE TablesTyped /\ HistoryTyped
  BY <1>1, <1>4 DEF OfClient, Open, StartPatch, Patch, StartReset, StartPolicy, StartDelete,
     StartMcpDelete
<1> QED BY <1>3, <1>4

LEMMA ChangesTyped ==
    ASSUME Typed, NEW r \in Requests,
           \/ EditGet(r) \/ GetPolicy(r) \/ Close(r) \/ Submit(r) \/ PatchDb(r)
           \/ PatchClaims(r) \/ SavePolicy(r) \/ PolicyRead(r) \/ PolicyLost(r)
           \/ GetCreate(r) \/ PatchWrite(r) \/ PatchReplace(r) \/ ResetWrite(r)
           \/ WritePolicy(r) \/ ResetAnswer(r)
    PROVE  TablesTyped /\ HistoryTyped
<1> DEFINE p == req[r]
           c == p.client
<1>0. RequestKnown(p) /\ p \in Request
  BY Known
<1>1. CASE \/ EditGet(r) \/ GetPolicy(r) \/ Close(r) \/ Submit(r) \/ PatchDb(r)
           \/ PatchClaims(r) \/ SavePolicy(r) \/ PolicyRead(r) \/ PolicyLost(r)
  <2>1. Reads
    BY <1>1 DEF EditGet, GetPolicy, Close, Submit, Patch, PatchDb, PatchClaims, SavePolicy,
       PolicyRead, PolicyLost
  <2> QED BY <2>1, SameTables, SameHistory DEF Reads
<1>2. CASE GetCreate(r) \/ WritePolicy(r)
  <2>1. /\ UNCHANGED <<tenant, row, claims, tokens>> /\ History
        /\ policy' \in {policy, [policy EXCEPT ![c] = "default"], [policy EXCEPT ![c] = "saved"]}
    BY <1>2 DEF GetCreate, WritePolicy
  <2> QED BY <2>1, SameHistory DEF TablesTyped, RowWritten, Typed, TypeOK
<1>3. CASE PatchWrite(r) \/ ResetWrite(r)
  <2>1. /\ UNCHANGED <<tenant, claims, policy, tokens>> /\ History
        /\ row' \in {row, [row EXCEPT ![c] = p.row]}
    BY <1>3 DEF PatchWrite, ResetWrite, ResetRow, Updated
  <2>2. RowWritten
    BY <2>1 DEF RowWritten
  <2> QED BY <2>1, <2>2, SameHistory DEF TablesTyped, Typed, TypeOK
<1>4. CASE PatchReplace(r)
  <2>1. p.claims \in SUBSET Sources
    BY <1>0, <1>4 DEF PatchReplace, RequestKnown
  <2>2. /\ UNCHANGED <<tenant, row, policy, tokens>> /\ History
        /\ claims' \in {claims, [claims EXCEPT ![c] = p.claims]}
    BY <1>4 DEF PatchReplace
  <2> QED BY <2>1, <2>2, SameHistory DEF TablesTyped, RowWritten, Typed, TypeOK
<1>5. CASE ResetAnswer(r)
  <2>1. UNCHANGED <<store, failures, outcome>> /\ replaced' = replaced \cup {p.old}
    BY <1>5 DEF ResetAnswer
  <2>2. p.old \in Secrets
    BY <1>0 DEF Request
  <2> QED BY <2>1, <2>2, SameTables DEF HistoryTyped, Typed, TypeOK
<1> QED BY <1>1, <1>2, <1>3, <1>4, <1>5

LEMMA RegistrationTyped ==
    ASSUME Typed, NEW r \in Requests,
           \/ CheckDb(r) \/ InsertRow(r) \/ InsertClaims(r)
           \/ StoreToken(r) \/ InsertPolicy(r) \/ Record(r)
    PROVE  TablesTyped /\ HistoryTyped
<1> DEFINE p == req[r]
           c == p.client
<1>0. RequestKnown(p)
  BY Known
<1>1. ASSUME UNCHANGED <<failures, replaced>>,
             UNCHANGED outcome \/ (\E o \in {"created", "managed", "refused", "stranded"} : Became(c, o))
      PROVE  HistoryTyped
  <2>1. CASE UNCHANGED outcome
    BY <1>1, <2>1 DEF HistoryTyped, Typed, TypeOK
  <2>2. CASE \E o \in {"created", "managed", "refused", "stranded"} : Became(c, o)
    BY <1>1, <2>2, BecameTyped DEF HistoryTyped, Typed, TypeOK
  <2> QED BY <1>1, <2>1, <2>2
<1>2. CASE CheckDb(r) \/ Record(r)
  <2>1. /\ UNCHANGED <<store, failures, replaced>>
        /\ UNCHANGED outcome \/ (\E o \in {"created", "managed", "refused", "stranded"} : Became(c, o))
    BY <1>2 DEF CheckDb, Record
  <2> QED BY <1>1, <2>1, SameTables
<1>3. CASE InsertRow(r)
  <2>1. /\ UNCHANGED <<tenant, claims, policy, tokens, failures, replaced>>
        /\ UNCHANGED outcome \/ Became(c, "refused")
        /\ row' \in {row, [row EXCEPT ![c] = p.row]}
    BY <1>3 DEF InsertRow
  <2>2. RowWritten
    BY <2>1 DEF RowWritten
  <2> QED BY <1>1, <2>1, <2>2 DEF TablesTyped, Typed, TypeOK
<1>4. CASE InsertClaims(r)
  <2>1. p.claims \in SUBSET Sources
    BY <1>0, <1>4 DEF InsertClaims, RequestKnown
  <2>2. /\ UNCHANGED <<tenant, row, policy, tokens>> /\ History
        /\ claims' \in {claims, [claims EXCEPT ![c] = p.claims]}
    BY <1>4 DEF InsertClaims
  <2> QED BY <2>1, <2>2, SameHistory DEF TablesTyped, RowWritten, Typed, TypeOK
<1>5. CASE StoreToken(r)
  <2>1. c \in Clients
    BY <1>0, <1>5 DEF StoreToken, RequestKnown, TenantPCs
  <2>2. UNCHANGED <<tenant, row, claims, policy>> /\ tokens' = tokens \cup {c} /\ History
    BY <1>5 DEF StoreToken
  <2> QED BY <2>1, <2>2, SameHistory DEF TablesTyped, RowWritten, Typed, TypeOK
<1>6. CASE InsertPolicy(r)
  <2>1. /\ UNCHANGED <<tenant, row, claims, tokens>> /\ History
        /\ policy' \in {policy, [policy EXCEPT ![c] = "default"]}
    BY <1>6 DEF InsertPolicy
  <2> QED BY <2>1, SameHistory DEF TablesTyped, RowWritten, Typed, TypeOK
<1> QED BY <1>2, <1>3, <1>4, <1>5, <1>6

LEMMA EndingTyped ==
    ASSUME Typed, NEW r \in Requests,
           \/ \E part \in {"row", "token"} : Undo(r, part) \/ UndoFails(r, part)
           \/ Reject(r) \/ Die(r)
    PROVE  TablesTyped /\ HistoryTyped
<1> DEFINE p == req[r]
           c == p.client
<1>1. CASE \/ \E part \in {"row", "token"} : UndoFails(r, part)
           \/ Reject(r) \/ Die(r)
  <2>1. /\ UNCHANGED <<store, replaced>> /\ failures < MaxFailures /\ failures' = failures + 1
        /\ UNCHANGED outcome \/ Became(c, "refused") \/ Became(c, "stranded")
    <3>1. CASE \E part \in {"row", "token"} : UndoFails(r, part)
      BY <3>1 DEF UndoFails
    <3>2. CASE Reject(r)
      BY <3>2 DEF Reject
    <3>3. CASE Die(r)
      BY <3>3 DEF Die
    <3> QED BY <1>1, <3>1, <3>2, <3>3
  <2>2. failures' \in 0..MaxFailures /\ replaced' \subseteq Secrets
    BY <2>1, ConstantsTyped DEF Typed, TypeOK
  <2>3. outcome' \in [Clients -> {"unused", "open", "created", "managed", "refused",
                                  "stranded", "deleted"}]
    <3>1. CASE UNCHANGED outcome
      BY <3>1 DEF Typed, TypeOK
    <3>2. CASE Became(c, "refused") \/ Became(c, "stranded")
      BY <3>2, BecameTyped
    <3> QED BY <2>1, <3>1, <3>2
  <2> QED BY <2>1, <2>2, <2>3, SameTables DEF HistoryTyped
<1>2. ASSUME NEW part \in {"row", "token"}, Undo(r, part) PROVE TablesTyped /\ HistoryTyped
  <2>1. /\ UNCHANGED <<tenant, failures, replaced>> /\ (UNCHANGED outcome \/ Became(c, "refused"))
        /\ \/ row' = [row EXCEPT ![c] = None] /\ Drop({c}) /\ UNCHANGED tokens
           \/ tokens' = tokens \ {c} /\ UNCHANGED <<row, claims, policy>>
    BY <1>2 DEF Undo
  <2>2. RowWritten
    BY <2>1 DEF RowWritten
  <2>3. TablesTyped
    BY <2>1, <2>2, DropTyped DEF TablesTyped, Typed, TypeOK
  <2>4. outcome' \in [Clients -> {"unused", "open", "created", "managed", "refused",
                                  "stranded", "deleted"}]
    <3>1. CASE UNCHANGED outcome
      BY <3>1 DEF Typed, TypeOK
    <3>2. CASE Became(c, "refused")
      BY <3>2, BecameTyped
    <3> QED BY <2>1, <3>1, <3>2
  <2> QED BY <2>1, <2>3, <2>4 DEF HistoryTyped, Typed, TypeOK
<1> QED BY <1>1, <1>2

LEMMA DeletesTyped ==
    ASSUME Typed, NEW r \in Requests,
           InsertTenant(r) \/ DeleteTenant(r) \/ Delete(r) \/ DeleteToken(r)
    PROVE  TablesTyped /\ HistoryTyped
<1> DEFINE p == req[r]
           c == p.client
<1>1. CASE InsertTenant(r)
  <2>1. UNCHANGED <<row, claims, policy, tokens>> /\ History
        /\ tenant' \in {tenant, [tenant EXCEPT ![p.tenant] = "active"]}
    BY <1>1 DEF InsertTenant
  <2>2. RowWritten
    BY <2>1 DEF RowWritten
  <2>3. tenant' \in [Tenants -> Live \cup {"absent", "gone"}]
    BY <2>1 DEF Typed, TypeOK, Live
  <2> QED BY <2>1, <2>2, <2>3, SameHistory DEF TablesTyped, Typed, TypeOK
<1>2. CASE DeleteTenant(r)
  <2>1. /\ tenant' = [tenant EXCEPT ![p.tenant] = "gone"]
        /\ UNCHANGED <<tokens, failures, replaced>>
        /\ \E gone : /\ Drop(gone)
                     /\ outcome' = [d \in Clients |-> IF d \in gone THEN "deleted" ELSE outcome[d]]
    BY <1>2 DEF DeleteTenant
  <2>2. RowWritten
    BY <1>2 DEF DeleteTenant, WithoutTenant, RowWritten
  <2>3. HistoryTyped
    BY <2>1 DEF HistoryTyped, Typed, TypeOK
  <2>4. tenant' \in [Tenants -> Live \cup {"absent", "gone"}]
    BY <2>1 DEF Typed, TypeOK
  <2> QED BY <2>1, <2>2, <2>3, <2>4, DropTyped DEF TablesTyped, Typed, TypeOK
<1>3. CASE Delete(r)
  <2>1. /\ row' = [row EXCEPT ![c] = None] /\ Drop({c})
        /\ outcome' = [outcome EXCEPT ![c] = IF Present(c) THEN "deleted" ELSE @]
        /\ UNCHANGED <<tenant, tokens, failures, replaced>>
    BY <1>3 DEF Delete
  <2>2. RowWritten
    BY <2>1 DEF RowWritten
  <2>3. HistoryTyped
    BY <2>1 DEF HistoryTyped, Typed, TypeOK
  <2> QED BY <2>1, <2>2, <2>3, DropTyped DEF TablesTyped, Typed, TypeOK
<1>4. CASE DeleteToken(r)
  BY <1>4, SameHistory DEF DeleteToken, TablesTyped, RowWritten, Typed, TypeOK
<1> QED BY <1>1, <1>2, <1>3, <1>4

LEMMA ActsTyped ==
    ASSUME Typed, NEW r \in Requests, Acts(r)
    PROVE  TablesTyped /\ HistoryTyped
BY BegunTyped, ChangesTyped, RegistrationTyped, EndingTyped, DeletesTyped DEF Acts, Continue

LEMMA TypedStep ==
    ASSUME Typed, Keyed, NEW r \in Requests, Acts(r), jobs' \in 0..MaxJobs
    PROVE  Typed'
<1>1. PICK q : Becomes(r, q)
  BY MovesStep
<1>2. \A s \in Requests : RequestKnown(req[s])'
  <2>1. RequestKnown(q) /\ \A s \in Requests : req'[s] = IF s = r THEN q ELSE req[s]
    BY <1>1 DEF Becomes, Typed, TypeOK
  <2>2. \A s \in Requests : RequestKnown(req[s])
    BY Known
  <2> QED BY <2>1, <2>2
<1>3. req' \in [Requests -> Request]
  BY <1>1 DEF Becomes, RequestKnown, Typed, TypeOK
<1>4. \A c \in Clients : ClientStep(r, c)
  BY WritesStep
<1>5. TablesTyped /\ HistoryTyped
  BY ActsTyped
<1>6. row' \in [Clients -> Row \cup {None}]
  <2>1. PICK d, x : row' \in {row, [row EXCEPT ![d] = x],
                              [c \in Clients |-> IF Present(c) /\ row[c].tenant = d
                                                 THEN None ELSE row[c]]}
    BY <1>5 DEF TablesTyped, RowWritten
  <2> QED BY <1>4, <2>1, RowTyped
<1>7. TypeOK'
  BY <1>3, <1>5, <1>6 DEF TypeOK, TablesTyped, HistoryTyped
<1>8. ASSUME NEW c \in Clients, row'[c] # None PROVE RowOk(row'[c])
  <2>1. RowAfter(req[r], c)
    BY <1>4, RowsAfter
  <2>2. row[c] # None => RowOk(row[c])
    BY DEF Typed, ClientRowConsistent, RowOk, Present
  <2> QED BY <1>8, <2>1, <2>2 DEF RowAfter
<1>9. ClientRowConsistent'
  BY <1>8 DEF ClientRowConsistent, RowOk, Present
<1> QED BY <1>2, <1>7, <1>9 DEF Typed

-----------------------------------------------------------------------------
(* The tables agree. *)

\* What the steps do to the tenants, beside the rows.
TenantsStep(r) ==
    \/ UNCHANGED tenant
    \/ /\ UNCHANGED row
       /\ \/ \E t \in Tenants : SlugFree /\ tenant' = [tenant EXCEPT ![t] = "active"]
          \/ \E t \in Tenants, status \in Live :
                tenant[t] \in Live /\ tenant' = [tenant EXCEPT ![t] = status]
    \/ \E t \in Tenants :
          tenant' = [tenant EXCEPT ![t] = "gone"] /\ row' = WithoutTenant(t)

LEMMA TenantsMove ==
    ASSUME Typed, NEW r \in Requests, Acts(r)
    PROVE  TenantsStep(r)
<1> DEFINE p == req[r]
<1>0. p.pc \in TenantPCs => p.tenant \in Tenants
  BY Known DEF RequestKnown
<1>1. CASE InsertTenant(r)
  BY <1>0, <1>1 DEF InsertTenant, TenantsStep, TenantPCs
<1>2. CASE DeleteTenant(r)
  BY <1>0, <1>2 DEF DeleteTenant, TenantsStep, TenantPCs
<1>3. CASE (\E t \in Tenants : OfTenant(r, t)) \/ (\E d \in Clients : OfClient(r, d))
  <2>1. UNCHANGED store
    <3>1. ASSUME NEW t \in Tenants, OfTenant(r, t) PROVE UNCHANGED store
      BY <3>1 DEF OfTenant, StartTenant, StartDeleteTenant, RegisterAdmin, RegisterDynamic,
         RegisterMcp, Register, Reads
    <3>2. ASSUME NEW d \in Clients, OfClient(r, d) PROVE UNCHANGED store
      BY <3>2 DEF OfClient, Open, StartPatch, Patch, StartReset, StartPolicy, StartDelete,
         StartMcpDelete, Reads
    <3> QED BY <1>3, <3>1, <3>2
  <2> QED BY <2>1 DEF store, TenantsStep
<1>4. CASE \/ EditGet(r) \/ GetPolicy(r) \/ GetCreate(r) \/ Close(r)
           \/ Submit(r) \/ PatchDb(r) \/ PatchClaims(r)
           \/ PatchWrite(r) \/ PatchReplace(r) \/ ResetWrite(r) \/ ResetAnswer(r)
           \/ SavePolicy(r) \/ PolicyRead(r) \/ WritePolicy(r) \/ PolicyLost(r)
  BY <1>4 DEF EditGet, GetPolicy, GetCreate, Close, Submit, Patch, PatchDb, PatchClaims,
     PatchWrite, PatchReplace, ResetWrite, ResetAnswer, SavePolicy, PolicyRead, WritePolicy,
     PolicyLost, Reads, store, TenantsStep
<1>5. CASE \/ CheckDb(r) \/ InsertRow(r) \/ InsertClaims(r) \/ StoreToken(r)
           \/ InsertPolicy(r) \/ Record(r)
           \/ \E part \in {"row", "token"} : Undo(r, part) \/ UndoFails(r, part)
           \/ Delete(r) \/ DeleteToken(r) \/ Reject(r) \/ Die(r)
  BY <1>5 DEF CheckDb, InsertRow, InsertClaims, StoreToken, InsertPolicy, Record, Undo,
     UndoFails, Delete, DeleteToken, Reject, Die, store, TenantsStep
<1> QED BY <1>1, <1>2, <1>3, <1>4, <1>5 DEF Acts, Continue

\* The rows of two db clients are in two tenants.
DbApart ==
    \A c, d \in Clients :
        c # d /\ Present(c) /\ Present(d) /\ row[c].profile = "db" /\ row[d].profile = "db"
            => row[c].tenant # row[d].tenant
OneSlug == \A s, t \in Tenants : tenant[s] \in Live /\ tenant[t] \in Live => s = t
Owned(c) == claims[c] # {} \/ policy[c] # "none" => Present(c)
Housed(c) == Present(c) => tenant[row[c].tenant] \in Live

LEMMA KeyedParts ==
    Keyed <=> (\A c \in Clients : Owned(c) /\ Housed(c)) /\ DbApart /\ OneSlug
BY DEF Keyed, Owned, Housed, DbApart, OneSlug, DbSlotFree

LEMMA OwnedStep ==
    ASSUME Typed, Keyed, Under, NEW r \in Requests, NEW c \in Clients, ClientStep(r, c)
    PROVE  Owned(c)'
<1> DEFINE p == req[r]
<1>1. RequestKnown(p) /\ RequestOk(p) /\ Owned(c)
  BY Known, KeyedParts DEF Under
<1>2. CASE Still(c) \/ StillHere(c) \/ Gone(c) \/ p.pc = "mcpToken"
  BY <1>1, <1>2 DEF ClientStep, Still, StillHere, Gone, Dropped, Owned, Present, Changes, Registration, Newborn, RegPCs, Stored
<1>3. CASE c = p.client /\ Changes(p, c)
  <2>1. Present(c)'
    BY <1>1, <1>3, RowsAreRows DEF Changes, Present, Writers
  <2> QED BY <2>1 DEF Owned
<1>4. CASE c = p.client /\ Registration(p, c)
  <2>1. p.pc = "insertRow" => p.row # None
    BY <1>1, RowsAreRows DEF Newborn
  <2> QED BY <1>1, <1>4, <2>1 DEF Registration, StillHere, Dropped, Owned, Present
<1> QED BY <1>2, <1>3, <1>4 DEF ClientStep

LEMMA HousedStep ==
    ASSUME Typed, Keyed, Under, NEW r \in Requests, NEW c \in Clients, ClientStep(r, c),
           TenantsStep(r)
    PROVE  Housed(c)'
<1> DEFINE p == req[r]
<1>1. Housed(c) /\ RequestOk(p) /\ RowAfter(p, c)
  BY KeyedParts, RowsAfter DEF Under
<1>2. row[c] \in Row \cup {None} /\ tenant \in [Tenants -> Live \cup {"absent", "gone"}]
  BY DEF Typed, TypeOK
<1>3. CASE UNCHANGED tenant
  BY <1>1, <1>3 DEF RowAfter, RequestOk, Insertable, Housed, Present
<1>4. CASE /\ UNCHANGED row
           /\ \/ \E t \in Tenants : SlugFree /\ tenant' = [tenant EXCEPT ![t] = "active"]
              \/ \E t \in Tenants, status \in Live :
                    tenant[t] \in Live /\ tenant' = [tenant EXCEPT ![t] = status]
  BY <1>1, <1>2, <1>4 DEF Housed, Present, Live, Row
<1>5. CASE \E t \in Tenants :
              tenant' = [tenant EXCEPT ![t] = "gone"] /\ row' = WithoutTenant(t)
  BY <1>1, <1>2, <1>5 DEF Housed, Present, WithoutTenant, Row
<1> QED BY <1>3, <1>4, <1>5 DEF TenantsStep

LEMMA DbApartStep ==
    ASSUME Typed, Keyed, NEW r \in Requests, \A c \in Clients : ClientStep(r, c)
    PROVE  DbApart'
<1> DEFINE p == req[r]
<1>1. SUFFICES ASSUME NEW c \in Clients, NEW d \in Clients, c # d, row'[c] # None, row'[d] # None,
                      row'[c].profile = "db", row'[d].profile = "db"
               PROVE  row'[c].tenant # row'[d].tenant
  BY DEF DbApart, Present
<1>2. RowAfter(p, c) /\ RowAfter(p, d) /\ DbApart
  BY RowsAfter, KeyedParts
<1>3. CASE row'[c] = row[c] /\ row'[d] = row[d]
  BY <1>1, <1>2, <1>3 DEF DbApart, Present
<1>4. CASE row'[c] # row[c]
  <2>1. c = p.client /\ row'[c] = p.row /\ DbSlotFree(c, p.row.tenant)
    BY <1>1, <1>2, <1>4 DEF RowAfter
  <2>2. row'[d] = row[d]
    BY <1>1, <1>2, <2>1 DEF RowAfter
  <2> QED BY <1>1, <2>1, <2>2 DEF DbSlotFree, Present
<1>5. CASE row'[d] # row[d]
  <2>1. d = p.client /\ row'[d] = p.row /\ DbSlotFree(d, p.row.tenant)
    BY <1>1, <1>2, <1>5 DEF RowAfter
  <2>2. row'[c] = row[c]
    BY <1>1, <1>2, <2>1 DEF RowAfter
  <2> QED BY <1>1, <2>1, <2>2 DEF DbSlotFree, Present
<1> QED BY <1>3, <1>4, <1>5

LEMMA OneSlugStep ==
    ASSUME Typed, Keyed, NEW r \in Requests, TenantsStep(r)
    PROVE  OneSlug'
<1>1. OneSlug /\ tenant \in [Tenants -> Live \cup {"absent", "gone"}]
  BY KeyedParts DEF Typed, TypeOK
<1>2. CASE UNCHANGED tenant
  BY <1>1, <1>2 DEF OneSlug
<1>3. CASE \E t \in Tenants : SlugFree /\ tenant' = [tenant EXCEPT ![t] = "active"]
  BY <1>1, <1>3 DEF OneSlug, SlugFree
<1>4. CASE \E t \in Tenants, status \in Live :
              tenant[t] \in Live /\ tenant' = [tenant EXCEPT ![t] = status]
  BY <1>1, <1>4 DEF OneSlug
<1>5. CASE \E t \in Tenants : tenant' = [tenant EXCEPT ![t] = "gone"]
  BY <1>1, <1>5 DEF OneSlug, Live
<1> QED BY <1>2, <1>3, <1>4, <1>5 DEF TenantsStep

LEMMA KeyedStep ==
    ASSUME Typed, Under, Keyed, NEW r \in Requests, Acts(r)
    PROVE  Keyed'
<1>1. \A c \in Clients : ClientStep(r, c)
  BY WritesStep
<1>2. TenantsStep(r)
  BY TenantsMove
<1>3. \A c \in Clients : Owned(c)' /\ Housed(c)'
  BY <1>1, <1>2, OwnedStep, HousedStep
<1>4. DbApart' /\ OneSlug'
  BY <1>1, <1>2, DbApartStep, OneSlugStep
<1> QED BY <1>3, <1>4 DEF Keyed, Owned, Housed, DbApart, OneSlug, DbSlotFree

-----------------------------------------------------------------------------
(* Registrations are whole, and deleted clients are gone. *)

Whole(c) ==
    /\ outcome[c] \in {"created", "managed"} => Present(c) /\ c \in tokens
    /\ outcome[c] = "managed" => policy[c] # "none"
    /\ outcome[c] = "refused" => Untouched(c)

LEMMA WholeStep ==
    ASSUME Typed, Under, NEW r \in Requests, NEW c \in Clients, ClientStep(r, c), Whole(c)
    PROVE  Whole(c)'
<1> DEFINE p == req[r]
<1>1. RequestKnown(p) /\ RequestOk(p)
  BY Known DEF Under
<1>2. CASE Still(c)
  BY <1>2 DEF Still, StillHere, Whole, Present, Untouched
<1>3. CASE Gone(c)
  BY <1>3 DEF Gone, Dropped, Whole, Present, Untouched
<1>4. CASE outcome'[c] = "open"
  BY <1>4 DEF Whole
<1>5. CASE c = p.client /\ Changes(p, c)
  <2>1. Present(c)' /\ Present(c) /\ outcome'[c] = outcome[c]
        /\ (c \in tokens' <=> c \in tokens) /\ (policy[c] # "none" => policy'[c] # "none")
    BY <1>1, <1>5, RowsAreRows DEF Changes, Present, Writers
  <2> QED BY <2>1 DEF Whole, Untouched, Present
<1>6. CASE c = p.client /\ Registration(p, c)
  <2>1. CASE p.pc \in Newborn /\ StillHere(c) /\ Ends(c, "refused")
    BY <1>1, <1>6, <2>1 DEF RequestOk, Ends, StillHere, Untouched, Whole
  <2>2. CASE p.pc \in RegPCs /\ StillHere(c) /\ Ends(c, "stranded")
    BY <2>2 DEF Ends, StillHere, Untouched, Whole, Present
  <2>3. CASE /\ p.pc = "record" /\ StillHere(c)
             /\ Ends(c, IF p.kind = "admin" THEN "managed" ELSE "created")
    <3>1. p.pc \in Stored
      BY <2>3 DEF Stored
    <3>2. outcome[c] = "open" => /\ Present(c) /\ c \in tokens
                                 /\ p.kind = "admin" => policy[c] # "none"
      BY <1>1, <1>6, <2>3, <3>1 DEF RequestOk
    <3> QED BY <2>3, <3>2 DEF Ends, StillHere, Untouched, Whole, Present
  <2>4. CASE p.pc = "insertRow" /\ outcome'[c] = outcome[c]
    <3>1. outcome[c] = "open"
      BY <1>1, <1>6, <2>4 DEF RequestOk, Newborn
    <3> QED BY <2>4, <3>1 DEF Whole
  <2>5. CASE p.pc = "storeToken" /\ outcome'[c] = outcome[c]
    <3>1. outcome[c] \in {"open", "deleted", "stranded"}
      BY <1>1, <1>6, <2>5 DEF RequestOk, Stored
    <3> QED BY <2>5, <3>1 DEF Whole
  <2>6. CASE p.pc = "undo" /\ (Ends(c, "refused") \/ outcome'[c] = outcome[c])
    <3>1. /\ outcome[c] \in {"open", "deleted", "stranded"} /\ p.undo \subseteq {"row", "token"}
          /\ outcome[c] = "open" =>
               /\ "row" \notin p.undo => ~Present(c) /\ claims[c] = {} /\ policy[c] = "none"
               /\ "token" \notin p.undo => c \notin tokens
      BY <1>1, <1>6, <2>6 DEF RequestOk, RequestKnown, Request
    <3>2. CASE outcome'[c] = outcome[c]
      BY <3>1, <3>2 DEF Whole
    <3>3. CASE outcome'[c] # outcome[c]
      <4>1. outcome[c] = "open" /\ outcome'[c] = "refused"
        BY <2>6, <3>3 DEF Ends
      <4>2. \/ p.undo = {"row"} /\ Dropped(c) /\ (c \in tokens' <=> c \in tokens)
            \/ /\ p.undo = {"token"} /\ row'[c] = row[c] /\ claims'[c] = claims[c]
               /\ policy'[c] = policy[c] /\ c \notin tokens'
        BY <1>6, <2>6, <3>3, <4>1 DEF Registration, Newborn, RegPCs, Stored, Ends
      <4>3. Untouched(c)'
        BY <3>1, <4>1, <4>2 DEF Untouched, Dropped, Present
      <4> QED BY <4>1, <4>3 DEF Whole
    <3> QED BY <3>2, <3>3
  <2> QED BY <1>6, <2>1, <2>2, <2>3, <2>4, <2>5, <2>6 DEF Registration
<1>7. CASE /\ c = p.client /\ p.pc = "mcpToken" /\ row'[c] = row[c] /\ claims'[c] = claims[c]
           /\ policy'[c] = policy[c] /\ outcome'[c] = outcome[c] /\ c \notin tokens'
  <2>1. ~Present(c)
    BY <1>1, <1>7 DEF RequestOk
  <2> QED BY <1>7, <2>1 DEF Whole, Untouched, Present
<1> QED BY <1>2, <1>3, <1>4, <1>5, <1>6, <1>7 DEF ClientStep

LEMMA GoneStep ==
    ASSUME Typed, Under, NEW r \in Requests, NEW c \in Clients, ClientStep(r, c),
           outcome[c] = "deleted" => ~Present(c), outcome'[c] = "deleted"
    PROVE  ~Present(c)'
<1> DEFINE p == req[r]
<1>1. RequestKnown(p) /\ RequestOk(p)
  BY Known DEF Under
<1>2. CASE Still(c) \/ Gone(c)
  BY <1>2 DEF Still, StillHere, Gone, Dropped, Present
<1>3. CASE c = p.client /\ Changes(p, c)
  BY <1>3 DEF Changes
<1>4. CASE c = p.client /\ Registration(p, c)
  <2>1. outcome[c] = "deleted"
    BY <1>4 DEF Registration, Ends
  <2>2. p.pc \notin Newborn
    BY <1>1, <1>4, <2>1 DEF RequestOk
  <2> QED BY <1>4, <2>1, <2>2 DEF Registration, StillHere, Dropped, Present, Newborn
<1>5. CASE p.pc = "mcpToken" /\ row'[c] = row[c] /\ outcome'[c] = outcome[c]
  BY <1>5 DEF Present
<1> QED BY <1>2, <1>3, <1>4, <1>5 DEF ClientStep

LEMMA PolicyStep ==
    ASSUME NEW r \in Requests, NEW c \in Clients, ClientStep(r, c), policy[c] = "saved"
    PROVE  policy'[c] = "saved" \/ row'[c] = None
BY DEF ClientStep, Still, StillHere, Gone, Dropped, Changes, Registration

-----------------------------------------------------------------------------
(* The invariant, and the theorems *)

Invariant ==
    /\ Typed /\ Under /\ Keyed
    /\ \A c \in Clients : Whole(c) /\ (outcome[c] = "deleted" => ~Present(c))

LEMMA WholeIsRegistrationIsWhole == (\A c \in Clients : Whole(c)) <=> RegistrationIsWhole
BY DEF Whole, RegistrationIsWhole, Untouched, Present

LEMMA InvariantInit == Init => Invariant
<1> SUFFICES ASSUME Init PROVE Invariant
  OBVIOUS
<1>1. PICK first \in Tenants : tenant \in {[t \in Tenants |-> "absent"],
                     [t \in Tenants |-> IF t = first THEN "active" ELSE "absent"]}
  BY DEF Init
<1>2. tenant \in [Tenants -> Live \cup {"absent", "gone"}] /\ OneSlug
  BY <1>1 DEF Live, OneSlug
<1>3. /\ row = [c \in Clients |-> None] /\ claims = [c \in Clients |-> {}]
      /\ policy = [c \in Clients |-> "none"] /\ tokens = {}
      /\ req = [r \in Requests |-> Idle] /\ jobs = 0 /\ failures = 0
      /\ outcome = [c \in Clients |-> "unused"] /\ replaced = {}
  BY DEF Init
<1>4. \A r \in Requests : req[r] = Idle /\ RequestKnown(req[r])
  BY <1>3, IdleKnown
<1>5. TypeOK
  BY <1>2, <1>3, IdleFields, ConstantsTyped DEF TypeOK
<1>6. Typed
  BY <1>3, <1>4, <1>5 DEF Typed, ClientRowConsistent, Present
<1>7. Under
  <2>1. Idle.pc = "idle" /\ Idle.client \notin Clients
    BY IdleFields, ConstantsTyped
  <2>2. RequestOk(Idle)
    BY <2>1, PlacesDiffer DEF RequestOk
  <2>3. Apart(Idle, Idle)
    BY <2>1, PlacesDiffer DEF Apart
  <2> QED BY <1>3, <1>4, <2>2, <2>3 DEF Under, Untouched
<1>8. Keyed
  BY <1>2, <1>3, KeyedParts DEF Owned, Housed, DbApart, Present
<1>9. \A c \in Clients : Whole(c) /\ (outcome[c] = "deleted" => ~Present(c))
  BY <1>3 DEF Whole
<1> QED BY <1>6, <1>7, <1>8, <1>9 DEF Invariant

LEMMA ActsStep ==
    ASSUME Invariant, NEW r \in Requests, Acts(r), jobs' \in 0..MaxJobs
    PROVE  Invariant'
<1>1. Typed /\ Under /\ Keyed
  BY DEF Invariant
<1>2. Typed' /\ Keyed'
  BY <1>1, TypedStep, KeyedStep
<1>3. Under'
  BY <1>1, <1>2, UnderStep DEF Typed
<1>4. \A c \in Clients : Whole(c)'
  BY <1>1, WritesStep, WholeStep DEF Invariant
<1>5. \A c \in Clients : outcome'[c] = "deleted" => ~Present(c)'
  BY <1>1, WritesStep, GoneStep DEF Invariant
<1> QED BY <1>1, <1>2, <1>3, <1>4, <1>5 DEF Invariant

\* A tenant is switched: no client and no request changes.
LEMMA PatchTenantStep ==
    ASSUME Invariant, NEW t \in Tenants, NEW status \in Live, PatchTenant(t, status),
           jobs' \in 0..MaxJobs
    PROVE  Invariant'
<1>1. /\ UNCHANGED <<row, claims, policy, tokens, req, failures, outcome, replaced>>
      /\ tenant[t] \in Live /\ tenant' = [tenant EXCEPT ![t] = status]
  BY DEF PatchTenant, History
<1>2. Typed /\ Under /\ Keyed
  BY DEF Invariant
<1>3. tenant' \in [Tenants -> Live \cup {"absent", "gone"}]
  BY <1>1, <1>2 DEF Typed, TypeOK
<1>4. Typed'
  BY <1>1, <1>2, <1>3 DEF Typed, TypeOK, ClientRowConsistent, RequestKnown, Present
<1>5. Under'
  BY <1>1, <1>2 DEF Under, RequestOk, Apart, Untouched, Present
<1>6. Keyed'
  BY <1>1, <1>2 DEF Keyed, DbSlotFree, Present, Typed, TypeOK, Live
<1>7. (\A c \in Clients : Whole(c) /\ (outcome[c] = "deleted" => ~Present(c)))'
  BY <1>1 DEF Invariant, Whole, Untouched, Present
<1> QED BY <1>4, <1>5, <1>6, <1>7 DEF Invariant

LEMMA InvariantStep == Invariant /\ [Next]_vars => Invariant'
<1> SUFFICES ASSUME Invariant, [Next]_vars PROVE Invariant'
  OBVIOUS
<1>1. CASE UNCHANGED vars
  <2>1. UNCHANGED <<tenant, row, claims, policy, tokens, req, jobs, failures, outcome, replaced>>
    BY <1>1 DEF vars, store
  <2>2. Typed'
    BY <2>1 DEF Invariant, Typed, TypeOK, ClientRowConsistent, Present, RequestKnown
  <2>3. Under'
    BY <2>1 DEF Invariant, Under, RequestOk, Apart, Untouched, Present
  <2>4. Keyed'
    BY <2>1 DEF Invariant, Keyed, DbSlotFree, Present
  <2>5. (\A c \in Clients : Whole(c) /\ (outcome[c] = "deleted" => ~Present(c)))'
    BY <2>1 DEF Invariant, Whole, Untouched, Present
  <2> QED BY <2>2, <2>3, <2>4, <2>5 DEF Invariant
<1>2. ASSUME Arrivals, jobs < MaxJobs, jobs' = jobs + 1 PROVE Invariant'
  <2>1. jobs' \in 0..MaxJobs
    BY <1>2, ConstantsTyped DEF Invariant, Typed, TypeOK
  <2> QED BY <1>2, <2>1, ActsStep, PatchTenantStep DEF Arrivals, Acts
<1>3. ASSUME NEW r \in Requests, Continue(r), UNCHANGED jobs PROVE Invariant'
  <2>1. jobs' \in 0..MaxJobs
    BY <1>3 DEF Invariant, Typed, TypeOK
  <2> QED BY <1>3, <2>1, ActsStep DEF Acts
<1> QED BY <1>1, <1>2, <1>3 DEF Next, Refused

LEMMA Holds == Spec => []Invariant
BY InvariantInit, InvariantStep, PTL DEF Spec

(* Type correctness, for every number of tenants, clients and requests.    *)
THEOREM TypeCorrect == Spec => []TypeOK
<1>1. Invariant => TypeOK
  BY DEF Invariant, Typed
<1> QED BY <1>1, Holds, PTL

(* Whatever patches, resets and registrations overlap, a public client has *)
(* no secret and a confidential client has one.                            *)
THEOREM RowsAreConsistent == Spec => []ClientRowConsistent
<1>1. Invariant => ClientRowConsistent
  BY DEF Invariant, Typed
<1> QED BY <1>1, Holds, PTL

(* An answered registration has its row, its token and its policy; one     *)
(* that was refused has left nothing.                                      *)
THEOREM RegistrationsAreWhole == Spec => []RegistrationIsWhole
<1>1. Invariant => RegistrationIsWhole
  BY WholeIsRegistrationIsWhole DEF Invariant
<1> QED BY <1>1, Holds, PTL

(* No patch, reset or form brings a deleted client back.                   *)
THEOREM DeletedClientsStayGone == Spec => []DeletedIsGone
<1>1. Invariant => DeletedIsGone
  BY DEF Invariant, DeletedIsGone
<1> QED BY <1>1, Holds, PTL

(* Claims and policies belong to clients, clients to live tenants, and the *)
(* unique indexes hold, whatever deletions overtake the writers.           *)
THEOREM TablesAlwaysAgree == Spec => []TablesAgree
<1>1. Invariant => TablesAgree
  <2> SUFFICES ASSUME Invariant PROVE TablesAgree
    OBVIOUS
  <2>1. Keyed
    BY DEF Invariant
  <2> DEFINE live == {t \in Tenants : tenant[t] \in Live}
  <2>2. Cardinality(live) <= 1
    <3>1. CASE live = {}
      BY <3>1, FS_EmptySet
    <3>2. CASE live # {}
      <4>1. PICK t \in live : TRUE
        BY <3>2
      <4>2. live = {t}
        BY <2>1, <4>1 DEF Keyed
      <4>3. Cardinality({t}) = 1
        BY FS_Singleton
      <4> QED BY <4>2, <4>3
    <3> QED BY <3>1, <3>2
  <2> QED BY <2>1, <2>2 DEF Keyed, TablesAgree
<1> QED BY <1>1, Holds, PTL

(* A saved policy is never replaced by a default one.                      *)
THEOREM SavedPoliciesAreKept == Spec => PolicyKept
<1> DEFINE Keeps == \A c \in Clients : policy[c] = "saved" =>
                        policy'[c] = "saved" \/ row'[c] = None
<1>1. Invariant /\ [Next]_vars => [Keeps]_vars
  <2> SUFFICES ASSUME Invariant, Next PROVE Keeps \/ UNCHANGED vars
    OBVIOUS
  <2>1. ASSUME NEW r \in Requests, Acts(r) PROVE Keeps
    BY <2>1, WritesStep, PolicyStep DEF Invariant
  <2>2. ASSUME NEW t \in Tenants, NEW status \in Live, PatchTenant(t, status) PROVE Keeps
    BY <2>2 DEF PatchTenant
  <2> QED BY <2>1, <2>2 DEF Next, Arrivals, Acts, Refused
<1> QED BY <1>1, Holds, PTL DEF Spec, PolicyKept
===============================================================================
