--------------------------- MODULE Administration ---------------------------
(***************************************************************************)
(* How tenants and OIDC clients are administered: tenants are created,     *)
(* switched and deleted; clients are registered by an administrator, by    *)
(* dynamic registration and by MCP agents, opened in the console's forms,  *)
(* patched, given new secrets and policies, and deleted.                   *)
(*                                                                         *)
(* Each statement or batch is a step, and D1 enforces keys, foreign keys   *)
(* and unique indexes.  Callers are past their gate.  A request refused    *)
(* before it writes anything is not taken at all, and audit events appear  *)
(* only where their failure undoes something.  Names, URIs, audiences and  *)
(* grant types are left out; all tenants of the model share one slug.      *)
(***************************************************************************)
EXTENDS Naturals, FiniteSets

CONSTANTS
    Tenants, Clients, Requests,
    Profiles,     \* the client profiles in use
    Sources,      \* the kinds of custom claims in use
    MaxSecrets,   \* bound on the client secrets in use or replaced
    MaxJobs,      \* bound on the requests that get past their checks
    MaxFailures,  \* bound on statements that fail and isolates that die
    None

ASSUME AdministrationAssumption ==
    /\ Profiles \subseteq {"web", "spa", "native", "db"}
    /\ Sources \subseteq {"fixed", "user_field", "hook"}
    /\ MaxSecrets \in Nat /\ MaxJobs \in Nat /\ MaxFailures \in Nat
    /\ None \notin Tenants \cup Clients

VARIABLES
    tenant,    \* tenants: the status of each
    row,       \* oidc_clients; secret 0 is none
    claims,    \* client_access_token_claims: the sources of a client's claims
    policy,    \* client_auth_method_policies
    tokens,    \* KV: clients whose registration access token is stored
    req,       \* requests and open forms
    jobs, failures,
    outcome,   \* history: what became of each client id
    replaced   \* history: secrets whose reset was answered

store == <<tenant, row, claims, policy, tokens>>
vars == <<store, req, jobs, failures, outcome, replaced>>

Methods == {"none", "client_secret"}
Secrets == 0..MaxSecrets
\* Whether a client has a claim hook URL.
Hooks == IF "hook" \in Sources THEN BOOLEAN ELSE {FALSE}
Live == {"active", "disabled"}
Row == [tenant: Tenants, mcp: BOOLEAN, profile: Profiles, method: Methods,
        secret: Secrets, hook: Hooks]

\* What is absent is not a row.
ASSUME NoneIsNoRow == None \notin Row

PCs == {"idle", "checkDb", "insertRow", "insertClaims", "storeToken",
        "insertPolicy", "record", "undo", "editGet", "getPolicy", "getCreate",
        "form", "patchDb", "patchClaims", "patchWrite", "patchReplace",
        "policyRead", "policyCreate", "policyUpdate", "resetWrite",
        "resetAnswer", "delete", "mcpDelete", "mcpToken",
        "tenantInsert", "tenantDelete"}
Kinds == {"admin", "dynamic", "mcp", "edit", "policy", "other"}
Request == [pc: PCs, kind: Kinds, client: Clients \cup {None},
            tenant: Tenants \cup {None}, row: Row \cup {None},
            claims: (SUBSET Sources) \cup {None},
            undo: SUBSET {"row", "token"}, old: Secrets]
Idle == [pc |-> "idle", kind |-> "other", client |-> None, tenant |-> None,
         row |-> None, claims |-> None, undo |-> {}, old |-> 0]

TypeOK ==
    /\ tenant \in [Tenants -> Live \cup {"absent", "gone"}]
    /\ row \in [Clients -> Row \cup {None}]
    /\ claims \in [Clients -> SUBSET Sources]
    /\ policy \in [Clients -> {"none", "default", "saved"}]
    /\ tokens \subseteq Clients
    /\ req \in [Requests -> Request]
    /\ jobs \in 0..MaxJobs /\ failures \in 0..MaxFailures
    /\ outcome \in [Clients -> {"unused", "open", "created", "managed",
                                "refused", "stranded", "deleted"}]
    /\ replaced \subseteq Secrets

-----------------------------------------------------------------------------
Init ==
    /\ \E first \in Tenants :
         tenant \in {[t \in Tenants |-> "absent"],
                     [t \in Tenants |->
                        IF t = first THEN "active" ELSE "absent"]}
    /\ row = [c \in Clients |-> None]
    /\ claims = [c \in Clients |-> {}]
    /\ policy = [c \in Clients |-> "none"]
    /\ tokens = {}
    /\ req = [r \in Requests |-> Idle]
    /\ jobs = 0 /\ failures = 0
    /\ outcome = [c \in Clients |-> "unused"]
    /\ replaced = {}

Goto(r, pc) == req' = [req EXCEPT ![r].pc = pc]
Finish(r) == req' = [req EXCEPT ![r] = Idle]
\* The next step, or the refusal that ends the request.
GotoIf(r, cond, pc) == IF cond THEN Goto(r, pc) ELSE Finish(r)
History == UNCHANGED <<failures, outcome, replaced>>
Reads == UNCHANGED store /\ History
Start(r, q) == req[r] = Idle /\ req' = [req EXCEPT ![r] = q]

\* What a registration's id became, unless it was deleted in the meantime.
Became(c, o) ==
    outcome' = [outcome EXCEPT ![c] = IF @ = "open" THEN o ELSE @]

Present(c) == row[c] # None
\* The unique index on the db clients of a tenant.
DbSlotFree(c, t) ==
    \A d \in Clients \ {c} :
        Present(d) => row[d].tenant # t \/ row[d].profile # "db"
\* validateClientConfiguration, and the schemas before it
ValidRow(x) ==
    /\ x.profile \in {"spa", "db"} => x.method = "none"
    /\ x.profile = "web" => x.method = "client_secret"
\* validateClaimHookConfiguration
ValidClaims(x, s) ==
    /\ "hook" \in s => x.hook
    /\ x.profile = "db" => s \subseteq {"fixed"}
\* A secret is generated when the method needs one and the row has none.
UsedSecrets ==
    replaced \cup {row[c].secret : c \in {d \in Clients : Present(d)}}
             \cup {req[r].old : r \in Requests}
             \cup {req[r].row.secret :
                       r \in {q \in Requests : req[q].row # None}}
FreshSecrets == (1..MaxSecrets) \ UsedSecrets
NeedsSecret(x) == x.method # "none" /\ x.secret = 0
WithSecret(x) ==
    [x EXCEPT !.secret = IF x.method = "none" THEN 0
                         ELSE IF x.secret # 0 THEN x.secret
                         ELSE CHOOSE n \in FreshSecrets : TRUE]

-----------------------------------------------------------------------------
(* Tenants *)

SlugFree == \A t \in Tenants : tenant[t] \notin Live

StartTenant(r, t) ==
    /\ tenant[t] = "absent" /\ SlugFree
    /\ \A q \in Requests : req[q].tenant # t
    /\ Start(r, [Idle EXCEPT !.pc = "tenantInsert", !.tenant = t])
    /\ Reads

\* A slug taken since the check breaks the unique index.
InsertTenant(r) ==
    /\ req[r].pc = "tenantInsert"
    /\ tenant' = IF SlugFree THEN [tenant EXCEPT ![req[r].tenant] = "active"]
                 ELSE tenant
    /\ Finish(r)
    /\ UNCHANGED <<row, claims, policy, tokens>> /\ History

PatchTenant(t, status) ==
    /\ tenant[t] \in Live
    /\ tenant' = [tenant EXCEPT ![t] = status]
    /\ UNCHANGED <<row, claims, policy, tokens, req>>
    /\ History

StartDeleteTenant(r, t) ==
    /\ tenant[t] \in Live
    /\ Start(r, [Idle EXCEPT !.pc = "tenantDelete", !.tenant = t])
    /\ Reads

\* ON DELETE CASCADE takes a client's claims and its policy with it.
Drop(gone) ==
    /\ claims' = [c \in Clients |-> IF c \in gone THEN {} ELSE claims[c]]
    /\ policy' = [c \in Clients |-> IF c \in gone THEN "none" ELSE policy[c]]

\* Bug: ON DELETE SET NULL.
NulledTenant(t) ==
    [c \in Clients |-> IF Present(c) /\ row[c].tenant = t
                       THEN [row[c] EXCEPT !.tenant = None] ELSE row[c]]

WithoutTenant(t) ==
    [c \in Clients |-> IF Present(c) /\ row[c].tenant = t THEN None ELSE row[c]]

DeleteTenant(r) ==
    LET t == req[r].tenant
        gone == {c \in Clients : Present(c) /\ row[c].tenant = t}
    IN  /\ req[r].pc = "tenantDelete"
        /\ tenant' = [tenant EXCEPT ![t] = "gone"]
        /\ row' = WithoutTenant(t)
        /\ Drop(gone)
        /\ outcome' = [c \in Clients |-> IF c \in gone THEN "deleted"
                                         ELSE outcome[c]]
        /\ Finish(r)
        /\ UNCHANGED <<tokens, failures, replaced>>

-----------------------------------------------------------------------------
(* Registration *)

\* The id is new, and a secret is generated for a method that needs one.
Register(r, c, kind, x, s) ==
    /\ tenant[x.tenant] = "active" /\ outcome[c] = "unused"
    /\ NeedsSecret(x) => FreshSecrets # {}
    /\ Start(r, [Idle EXCEPT !.kind = kind, !.client = c, !.tenant = x.tenant,
                   !.row = WithSecret(x), !.claims = s,
                   !.pc = IF kind = "admin" /\ x.profile = "db" THEN "checkDb"
                          ELSE "insertRow"])
    /\ outcome' = [outcome EXCEPT ![c] = "open"]
    /\ UNCHANGED <<store, failures, replaced>>

AdminRegistrable(x, s) == ~x.mcp /\ ValidRow(x) /\ ValidClaims(x, s)

RegisterAdmin(r, c, x, s) ==
    AdminRegistrable(x, s) /\ Register(r, c, "admin", x, s)

\* A web client, confidential or public; the schema knows nothing else.
DynamicRegistrable(x) == ~x.mcp /\ x.profile = "web" /\ ~x.hook

RegisterDynamic(r, c, x) ==
    DynamicRegistrable(x) /\ Register(r, c, "dynamic", x, {})

\* An agent is a public client.
McpRegistrable(x) ==
    /\ x.mcp /\ x.profile \in {"native", "spa"}
    /\ x.method = "none" /\ ~x.hook

RegisterMcp(r, c, x) ==
    McpRegistrable(x) /\ Register(r, c, "mcp", x, {})

\* findDbClientByTenantId
CheckDb(r) ==
    LET c == req[r].client
        free == DbSlotFree(c, req[r].row.tenant)
    IN  /\ req[r].pc = "checkDb"
        /\ GotoIf(r, free, "insertRow")
        /\ IF free THEN UNCHANGED outcome ELSE Became(c, "refused")
        /\ UNCHANGED <<store, failures, replaced>>

\* Bug: no unique index, the check above is all there is.
InsertableWithoutIndex(c, x) == tenant[x.tenant] \in Live

Insertable(c, x) ==
    /\ tenant[x.tenant] \in Live
    /\ x.profile = "db" => DbSlotFree(c, x.tenant)

InsertRow(r) ==
    LET c == req[r].client
        x == req[r].row
        next == IF req[r].claims # {} THEN "insertClaims" ELSE "storeToken"
    IN  /\ req[r].pc = "insertRow"
        /\ req' = [req EXCEPT ![r] = IF Insertable(c, x)
                                     THEN [@ EXCEPT !.pc = next, !.row = None]
                                     ELSE Idle]
        /\ IF Insertable(c, x)
           THEN row' = [row EXCEPT ![c] = x] /\ UNCHANGED outcome
           ELSE UNCHANGED row /\ Became(c, "refused")
        /\ UNCHANGED <<tenant, claims, policy, tokens,
                       failures, replaced>>

InsertClaims(r) ==
    LET c == req[r].client
    IN  /\ req[r].pc = "insertClaims"
        /\ req' = [req EXCEPT ![r] = IF Present(c)
                                     THEN [@ EXCEPT !.pc = "storeToken",
                                                    !.claims = {}]
                                     ELSE Idle]
        /\ claims' = IF Present(c) THEN [claims EXCEPT ![c] = req[r].claims]
                     ELSE claims
        /\ UNCHANGED <<tenant, row, policy, tokens>>
        /\ History

StoreToken(r) ==
    /\ req[r].pc = "storeToken"
    /\ tokens' = tokens \cup {req[r].client}
    /\ Goto(r, IF req[r].kind = "admin" THEN "insertPolicy" ELSE "record")
    /\ UNCHANGED <<tenant, row, claims, policy>> /\ History

\* Bug: insert or replace.
PolicyUpsertable(c) == Present(c)

PolicyInsertable(c) == Present(c) /\ policy[c] = "none"

\* Bug: the registration access token is forgotten.
CompensatedRow == {"row"}

\* What a registration that throws after its insert takes back.
Compensated == {"row", "token"}

Compensate(r) ==
    req' = [req EXCEPT ![r].pc = "undo", ![r].undo = Compensated]

\* A client opened in the meantime has its policy: the insert breaks the key.
InsertPolicy(r) ==
    LET c == req[r].client
    IN  /\ req[r].pc = "insertPolicy"
        /\ IF PolicyInsertable(c)
           THEN policy' = [policy EXCEPT ![c] = "default"] /\ Goto(r, "record")
           ELSE UNCHANGED policy /\ Compensate(r)
        /\ UNCHANGED <<tenant, row, claims, tokens>>
        /\ History

\* The audit event, then the answer.
Record(r) ==
    LET c == req[r].client
        t == req[r].tenant
    IN  /\ req[r].pc = "record"
        /\ IF tenant[t] \in Live
           THEN /\ Became(c, IF req[r].kind = "admin" THEN "managed"
                             ELSE "created")
                /\ Finish(r)
           ELSE UNCHANGED outcome /\ Compensate(r)
        /\ UNCHANGED <<store, failures, replaced>>

Undo(r, part) ==
    LET c == req[r].client
        left == req[r].undo \ {part}
    IN  /\ req[r].pc = "undo" /\ part \in req[r].undo
        /\ IF part = "row"
           THEN row' = [row EXCEPT ![c] = None] /\ Drop({c}) /\ UNCHANGED tokens
           ELSE tokens' = tokens \ {c} /\ UNCHANGED <<row, claims, policy>>
        /\ req' = [req EXCEPT ![r] = IF left = {} THEN Idle
                                     ELSE [@ EXCEPT !.undo = left]]
        /\ IF left = {} THEN Became(c, "refused") ELSE UNCHANGED outcome
        /\ UNCHANGED <<tenant, failures, replaced>>

-----------------------------------------------------------------------------
(* The console's forms: the list is loaded, the client is fetched again.   *)

\* openEditModal starts from the list, the policy dialog from nothing.
Open(r, c, kind) ==
    /\ Present(c)
    /\ Start(r, [Idle EXCEPT !.kind = kind, !.client = c, !.pc = "editGet",
                   !.row = IF kind = "edit" THEN [row[c] EXCEPT !.secret = 0]
                           ELSE None])
    /\ Reads

\* The edit form falls back to no claims when its fetch fails; the policy
\* dialog cannot be saved.
Unfilled(r) ==
    req' = [req EXCEPT ![r] =
              IF @.kind = "edit" THEN [@ EXCEPT !.pc = "form", !.claims = {}]
              ELSE Idle]

\* GET of the client: its row, then its policy and its claims.
EditGet(r) ==
    LET c == req[r].client
    IN  /\ req[r].pc = "editGet"
        /\ IF Present(c)
           THEN req' = [req EXCEPT ![r] =
                          IF @.kind = "edit"
                          THEN [@ EXCEPT !.pc = "getPolicy",
                                         !.row.hook = row[c].hook]
                          ELSE [@ EXCEPT !.pc = "getPolicy"]]
           ELSE Unfilled(r)
        /\ Reads

GetPolicy(r) ==
    LET c == req[r].client
    IN  /\ req[r].pc = "getPolicy"
        /\ req' = [req EXCEPT
                     ![r].claims = IF req[r].kind = "edit" THEN claims[c]
                                   ELSE None,
                     ![r].pc = IF policy[c] = "none" THEN "getCreate"
                               ELSE "form"]
        /\ Reads

\* A client without a policy is given the default one when it is read.
GetCreate(r) ==
    LET c == req[r].client
    IN  /\ req[r].pc = "getCreate"
        /\ IF PolicyInsertable(c)
           THEN policy' = [policy EXCEPT ![c] = "default"] /\ Goto(r, "form")
           ELSE UNCHANGED policy /\ Unfilled(r)
        /\ UNCHANGED <<tenant, row, claims, tokens>>
        /\ History

Close(r) == req[r].pc = "form" /\ Finish(r) /\ Reads

-----------------------------------------------------------------------------
(* Changing a client *)

\* A patch body; a field it leaves out is None.
Bodies ==
    [profile: Profiles, method: Methods, hook: {None}, claims: {None}]
        \cup [profile: {None}, method: {None}, hook: Hooks, claims: {None}]
        \cup [profile: {None}, method: {None}, hook: {None},
              claims: SUBSET Sources]
Merged(x, b) ==
    [x EXCEPT !.profile = IF b.profile = None THEN @ ELSE b.profile,
              !.method = IF b.method = None THEN @ ELSE b.method,
              !.hook = IF b.hook = None THEN @ ELSE b.hook]

\* The row is read and the body laid over it.
Patch(r, c, b) ==
    LET x == Merged(row[c], b)
    IN  /\ Present(c) /\ ValidRow(x)
        /\ NeedsSecret(x) => FreshSecrets # {}
        /\ req' = [req EXCEPT ![r] =
              [Idle EXCEPT !.client = c, !.row = WithSecret(x),
                 !.claims = b.claims,
                 !.pc = IF x.profile = "db" THEN "patchDb" ELSE "patchClaims"]]
        /\ Reads

StartPatch(r, c, b) == req[r] = Idle /\ Patch(r, c, b)

\* What a filled form sends: every field, with one edit of the user's.  The
\* method follows the profile; a web client's form without one is refused.
FormBodies(q) ==
    LET body(p, h, s) ==
            [profile |-> p, hook |-> h, claims |-> s,
             method |-> IF p = "web" THEN "client_secret" ELSE "none"]
    IN  {body(p, q.row.hook, q.claims) : p \in Profiles}
            \cup {body(q.row.profile, h, q.claims) : h \in Hooks}
            \cup {body(q.row.profile, q.row.hook, s) : s \in SUBSET Sources}

Submit(r) ==
    /\ req[r].pc = "form" /\ req[r].kind = "edit"
    /\ \E b \in FormBodies(req[r]) :
         ValidClaims(b, b.claims) /\ Patch(r, req[r].client, b)

PatchDb(r) ==
    LET q == req[r]
    IN  /\ q.pc = "patchDb"
        /\ GotoIf(r, /\ DbSlotFree(q.client, q.row.tenant)
                     /\ q.claims = None \/ q.claims \subseteq {"fixed"},
                  "patchClaims")
        /\ Reads

PatchClaims(r) ==
    LET q == req[r]
        next == IF q.claims = None THEN claims[q.client] ELSE q.claims
    IN  /\ q.pc = "patchClaims"
        /\ GotoIf(r, "hook" \in next => q.row.hook, "patchWrite")
        /\ Reads

\* Bug: insert or replace.
UpdatedOrInserted(c, x) == [row EXCEPT ![c] = x]

\* update(): every column, where the client still is.
Updated(c, x) == IF Present(c) THEN [row EXCEPT ![c] = x] ELSE row

PatchWrite(r) ==
    LET q == req[r]
        indexed == q.row.profile = "db" /\ Present(q.client)
                     => DbSlotFree(q.client, q.row.tenant)
    IN  /\ q.pc = "patchWrite"
        /\ row' = IF indexed THEN Updated(q.client, q.row) ELSE row
        /\ GotoIf(r, indexed /\ q.claims # None, "patchReplace")
        /\ UNCHANGED <<tenant, claims, policy, tokens>>
        /\ History

PatchReplace(r) ==
    LET c == req[r].client
    IN  /\ req[r].pc = "patchReplace"
        /\ claims' = IF Present(c) THEN [claims EXCEPT ![c] = req[r].claims]
                     ELSE claims
        /\ Finish(r)
        /\ UNCHANGED <<tenant, row, policy, tokens>>
        /\ History

\* Bug: only the secret's column is written.
ResetColumn(c, x) ==
    IF Present(c) THEN [row EXCEPT ![c].secret = x.secret] ELSE row

\* The whole row as it was read, with a new secret.
ResetRow(c, x) == Updated(c, x)

StartReset(r, c) ==
    LET x == [row[c] EXCEPT !.secret = 0]
    IN  /\ Present(c) /\ row[c].method # "none" /\ FreshSecrets # {}
        /\ Start(r, [Idle EXCEPT !.pc = "resetWrite", !.client = c,
                       !.row = WithSecret(x), !.old = row[c].secret])
        /\ Reads

ResetWrite(r) ==
    /\ req[r].pc = "resetWrite"
    /\ row' = ResetRow(req[r].client, req[r].row)
    /\ req' = [req EXCEPT ![r].pc = "resetAnswer", ![r].row = None]
    /\ UNCHANGED <<tenant, claims, policy, tokens>>
    /\ History

ResetAnswer(r) ==
    /\ req[r].pc = "resetAnswer"
    /\ replaced' = replaced \cup {req[r].old}
    /\ Finish(r)
    /\ UNCHANGED <<store, failures, outcome>>

\* A policy patch, from the dialog or directly.
StartPolicy(r, c) ==
    /\ Present(c)
    /\ Start(r, [Idle EXCEPT !.pc = "policyRead", !.client = c])
    /\ Reads

SavePolicy(r) ==
    /\ req[r].pc = "form" /\ req[r].kind = "policy" /\ Present(req[r].client)
    /\ req' = [req EXCEPT ![r] = [Idle EXCEPT !.pc = "policyRead",
                                              !.client = req[r].client]]
    /\ Reads

PolicyRead(r) ==
    /\ req[r].pc = "policyRead"
    /\ Goto(r, IF policy[req[r].client] = "none" THEN "policyCreate"
               ELSE "policyUpdate")
    /\ Reads

WritePolicy(r) ==
    LET c == req[r].client
    IN  /\ \/ req[r].pc = "policyCreate" /\ PolicyInsertable(c)
           \/ req[r].pc = "policyUpdate" /\ policy[c] # "none"
        /\ policy' = [policy EXCEPT ![c] = "saved"]
        /\ Finish(r)
        /\ UNCHANGED <<tenant, row, claims, tokens>>
        /\ History

PolicyLost(r) ==
    LET c == req[r].client
    IN  /\ \/ req[r].pc = "policyCreate" /\ ~PolicyInsertable(c)
           \/ req[r].pc = "policyUpdate" /\ policy[c] = "none"
        /\ Finish(r)
        /\ Reads

-----------------------------------------------------------------------------
(* Deleting a client: by an administrator, or by the MCP agent itself.     *)

StartDelete(r, c) ==
    /\ Present(c)
    /\ Start(r, [Idle EXCEPT !.pc = "delete", !.client = c])
    /\ Reads

\* resolveMcpRegistrationClient
StartMcpDelete(r, c) ==
    /\ c \in tokens /\ Present(c) /\ row[c].mcp /\ row[c].method = "none"
    /\ Start(r, [Idle EXCEPT !.pc = "mcpDelete", !.client = c])
    /\ Reads

Delete(r) ==
    LET c == req[r].client
    IN  /\ req[r].pc \in {"delete", "mcpDelete"}
        /\ row' = [row EXCEPT ![c] = None]
        /\ Drop({c})
        /\ outcome' = [outcome EXCEPT ![c] =
                          IF Present(c) THEN "deleted" ELSE @]
        /\ GotoIf(r, req[r].pc = "mcpDelete", "mcpToken")
        /\ UNCHANGED <<tenant, tokens, failures, replaced>>

DeleteToken(r) ==
    /\ req[r].pc = "mcpToken"
    /\ tokens' = tokens \ {req[r].client}
    /\ Finish(r)
    /\ UNCHANGED <<tenant, row, claims, policy>> /\ History

-----------------------------------------------------------------------------
(* Failures *)

\* A statement is rejected: a registration past its claims compensates, an
\* edit form goes on without its claims, any other request ends.
Reject(r) ==
    LET q == req[r]
    IN  /\ q.pc \notin {"idle", "form", "undo"} /\ failures < MaxFailures
        /\ failures' = failures + 1
        /\ CASE q.pc \in {"storeToken", "insertPolicy", "record"} ->
                    Compensate(r) /\ UNCHANGED outcome
             [] q.pc \in {"checkDb", "insertRow"} ->
                    Finish(r) /\ Became(q.client, "refused")
             [] q.pc = "insertClaims" ->
                    Finish(r) /\ Became(q.client, "stranded")
             [] q.pc \in {"editGet", "getPolicy", "getCreate"} ->
                    Unfilled(r) /\ UNCHANGED outcome
             [] OTHER -> Finish(r) /\ UNCHANGED outcome
        /\ UNCHANGED <<store, replaced>>

\* Promise.allSettled: a part that cannot be taken back stays.
UndoFails(r, part) ==
    LET left == req[r].undo \ {part}
    IN  /\ req[r].pc = "undo" /\ part \in req[r].undo
        /\ failures < MaxFailures /\ failures' = failures + 1
        /\ Became(req[r].client, "stranded")
        /\ req' = [req EXCEPT ![r] = IF left = {} THEN Idle
                                     ELSE [@ EXCEPT !.undo = left]]
        /\ UNCHANGED <<store, replaced>>

\* The isolate dies.
Die(r) ==
    LET q == req[r]
    IN  /\ q.pc \notin {"idle", "form"} /\ failures < MaxFailures
        /\ failures' = failures + 1
        /\ IF q.kind \in {"admin", "dynamic", "mcp"}
           THEN Became(q.client, "stranded") ELSE UNCHANGED outcome
        /\ Finish(r)
        /\ UNCHANGED <<store, replaced>>

-----------------------------------------------------------------------------
NewRows(t) ==
    [tenant: {t}, mcp: BOOLEAN, profile: Profiles, method: Methods,
     secret: {0}, hook: Hooks]

OfTenant(r, t) ==
    \/ StartTenant(r, t) \/ StartDeleteTenant(r, t)
    \/ \E c \in Clients, x \in NewRows(t) :
         \/ \E s \in SUBSET Sources : RegisterAdmin(r, c, x, s)
         \/ RegisterDynamic(r, c, x) \/ RegisterMcp(r, c, x)

OfClient(r, c) ==
    \/ Open(r, c, "edit") \/ Open(r, c, "policy")
    \/ \E b \in Bodies : StartPatch(r, c, b)
    \/ StartReset(r, c) \/ StartPolicy(r, c)
    \/ StartDelete(r, c) \/ StartMcpDelete(r, c)

Continue(r) ==
    \/ InsertTenant(r) \/ DeleteTenant(r)
    \/ CheckDb(r) \/ InsertRow(r) \/ InsertClaims(r) \/ StoreToken(r)
    \/ InsertPolicy(r) \/ Record(r)
    \/ \E part \in {"row", "token"} : Undo(r, part) \/ UndoFails(r, part)
    \/ EditGet(r) \/ GetPolicy(r) \/ GetCreate(r) \/ Close(r)
    \/ Submit(r) \/ PatchDb(r) \/ PatchClaims(r)
    \/ PatchWrite(r) \/ PatchReplace(r)
    \/ ResetWrite(r) \/ ResetAnswer(r)
    \/ SavePolicy(r) \/ PolicyRead(r) \/ WritePolicy(r) \/ PolicyLost(r)
    \/ Delete(r) \/ DeleteToken(r)
    \/ Reject(r) \/ Die(r)

Arrivals ==
    \/ \E t \in Tenants, status \in Live : PatchTenant(t, status)
    \/ \E r \in Requests, t \in Tenants : OfTenant(r, t)
    \/ \E r \in Requests, c \in Clients : OfClient(r, c)

\* A request that is refused before it writes.
Refused(r) == req[r] = Idle /\ UNCHANGED vars

Next ==
    \/ jobs < MaxJobs /\ jobs' = jobs + 1 /\ Arrivals
    \/ \E r \in Requests : Continue(r) /\ UNCHANGED jobs
    \/ \E r \in Requests : Refused(r)

Spec == Init /\ [][Next]_vars

-----------------------------------------------------------------------------
(* A client row is never half of two configurations: a public client keeps *)
(* no secret and a confidential one always has one, although patches and   *)
(* resets that overlap each write the row as they read it (runtime.ts      *)
(* update, app.ts PATCH and secret/reset).                                 *)
ClientRowConsistent ==
    \A c \in Clients : Present(c) =>
        /\ row[c].method = "none" <=> row[c].secret = 0
        /\ row[c].profile \in {"spa", "db"} => row[c].method = "none"

(* The tables agree whatever deletions overtake a registration, a patch or *)
(* a form: claims and policies belong to a client that is there, clients   *)
(* to a tenant that is there; one tenant has the slug and a tenant has one *)
(* db client (schema.ts keys and indexes, the checks of app.ts).           *)
TablesAgree ==
    /\ \A c \in Clients :
         /\ claims[c] # {} \/ policy[c] # "none" => Present(c)
         /\ Present(c) => tenant[row[c].tenant] \in Live
         /\ Present(c) /\ row[c].profile = "db" => DbSlotFree(c, row[c].tenant)
    /\ Cardinality({t \in Tenants : tenant[t] \in Live}) <= 1

(* A registration is all or nothing: an answered one has its row, its      *)
(* token and, from an administrator, its policy; a refused one has left    *)
(* nothing, unless its compensation failed, its isolate died or its claims *)
(* were rejected (app.ts registration handlers).                           *)
RegistrationIsWhole ==
    \A c \in Clients :
        /\ outcome[c] \in {"created", "managed"} =>
             Present(c) /\ c \in tokens
        /\ outcome[c] = "managed" => policy[c] # "none"
        /\ outcome[c] = "refused" => /\ ~Present(c) /\ c \notin tokens
                                     /\ claims[c] = {} /\ policy[c] = "none"

(* A client that was deleted, alone or with its tenant, does not return    *)
(* through a patch, a reset or a form that read it before.                 *)
DeletedIsGone == \A c \in Clients : outcome[c] = "deleted" => ~Present(c)

(* A policy an administrator saved is never replaced by the default one    *)
(* that opening the client creates (app.ts GET and PATCH of the policy).   *)
PolicyKept ==
    [][\A c \in Clients : policy[c] = "saved" =>
                              policy'[c] = "saved" \/ row'[c] = None]_vars

(* The console warns before a reset: "current secret will stop working     *)
(* immediately".  No secret whose reset was answered authenticates again.  *)
ReplacedSecretIsDead ==
    \A c \in Clients : Present(c) /\ row[c].secret # 0 =>
                           row[c].secret \notin replaced
=============================================================================
