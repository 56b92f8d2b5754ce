----------------------------- MODULE SigningKeys -----------------------------
(***************************************************************************)
(* The signing keys of one tenant, a D1 row and an object in R2 for each,  *)
(* and the access tokens signed and verified with them: issue, scope       *)
(* tokens, introspection, revocation, template queries and rotation.       *)
(*                                                                         *)
(* index.ts builds an application per request, so every request begins     *)
(* with ensureTenantSigningKeys and shares nothing but D1 and R2 with the  *)
(* others; each statement and each R2 call is a step.  A key is a number:  *)
(* its activated_at, which the bootstrapper takes before the insert.       *)
(*                                                                         *)
(* A caller is an authenticated client at one of its tenant's issuers, the *)
(* platform path or a custom domain.  A token names its own: a handler     *)
(* takes it for a stranger's token, or none, when its issuer is another    *)
(* or, for a revocation, its client.  All that a scope request compares    *)
(* besides the signature is the choice to refuse, which leaves nothing; no *)
(* token expires here, which would only end its verification for good.  A  *)
(* rejected statement and the death of the isolate are the step Fail; a    *)
(* rejected R2 put is PutFails, which rolls back.                          *)
(***************************************************************************)
EXTENDS Naturals, FiniteSets

CONSTANTS
    Tokens,        \* access tokens whose fate is followed
    Requests,
    MaxKeys,       \* bound on keys ever made
    MaxRotations,  \* bound on rotations
    MaxFailures,   \* bound on rejected puts and failed requests together
    Issuers,       \* of the tenant: its platform path and its custom domains
    Platform,
    Callers,       \* authenticated clients, each at one of the issuers
    IssuerOf,
    Claims,        \* client_id and iss of each token: whose it is, and where
    NoToken, NoCaller

ASSUME KeysAssumption ==
    /\ MaxKeys \in Nat \ {0, 1}
    /\ MaxRotations \in Nat /\ MaxFailures \in Nat
    /\ IssuerOf \in [Callers -> Issuers] /\ Platform \in Issuers
    /\ Claims \in [Tokens -> Callers]
    /\ NoToken \notin Tokens /\ NoCaller \notin Callers

VARIABLES
    row,          \* signing_keys: the status of each key's row
    material,     \* keys whose private half is in R2
    signedBy,     \* the key each token was signed with
    revocations,  \* access_token_revocations
    req,          \* requests in flight
    made, rotations, failures,   \* counters of the bounds
    answered,     \* history: tokens whose revocation their own caller was answered
    rotatedOut    \* history: tokens signed before some rotation

bounds == <<made, rotations, failures>>
history == <<answered, rotatedOut>>
vars == <<row, material, signedBy, revocations, req, bounds, history>>

Keys == 1..MaxKeys
NoKey == 0
Kinds == {"issue", "scope", "introspect", "query", "revoke", "rotate"}
Reasons == {"revoked", "rotated"}
\* Why the request loads a key.
Stages == {"entry", "verify", "sign"}
PCs == {"idle", "enter", "list", "get", "insert", "put", "rollback", "jwks",
        "retire", "isRevoked", "revoke", "active"}

Request == [pc: PCs, kind: Kinds, stage: Stages, seen: SUBSET Keys,
            key: Keys \cup {NoKey}, subject: Tokens \cup {NoToken},
            caller: Callers \cup {NoCaller}, barred: SUBSET Reasons]
Idle == [pc |-> "idle", kind |-> "issue", stage |-> "entry", seen |-> {},
         key |-> NoKey, subject |-> NoToken, caller |-> NoCaller, barred |-> {}]

TypeOK ==
    /\ row \in [Keys -> {"none", "active", "retired"}]
    /\ material \subseteq Keys
    /\ signedBy \in [Tokens -> Keys \cup {NoKey}]
    /\ revocations \subseteq Tokens
    /\ req \in [Requests -> Request]
    /\ made \in Keys /\ rotations \in 0..MaxRotations
    /\ failures \in 0..MaxFailures
    /\ answered \subseteq Tokens /\ rotatedOut \subseteq Tokens

-----------------------------------------------------------------------------
\* Bug: some material is kept under no key's name.
InitUntyped ==
    \E first \in {{1}, {1, 2}} :
        /\ row = [k \in Keys |-> IF k \in first THEN "active" ELSE "none"]
        /\ material = first \cup {NoKey}
        /\ made = Cardinality(first)
        /\ signedBy = [t \in Tokens |-> NoKey]
        /\ revocations = {}
        /\ req = [r \in Requests |-> Idle]
        /\ rotations = 0 /\ failures = 0
        /\ answered = {} /\ rotatedOut = {}

\* A tenant in service, with the key an earlier request made, or the two that
\* racing requests made.
Init ==
    \E first \in {{1}, {1, 2}} :
        /\ row = [k \in Keys |-> IF k \in first THEN "active" ELSE "none"]
        /\ material = first
        /\ made = Cardinality(first)
        /\ signedBy = [t \in Tokens |-> NoKey]
        /\ revocations = {}
        /\ req = [r \in Requests |-> Idle]
        /\ rotations = 0 /\ failures = 0
        /\ answered = {} /\ rotatedOut = {}

Issued == {t \in Tokens : signedBy[t] # NoKey}
\* listActiveKeysForTenant, and the newest first in its order.
ActiveKeys == {k \in Keys : row[k] = "active"}
Newest(S) == CHOOSE k \in S : \A j \in S : j <= k
Usable == ActiveKeys \cap material # {}

Become(r, q) == req' = [req EXCEPT ![r] = q]
Load(q, stage) == [q EXCEPT !.pc = "list", !.stage = stage, !.seen = {},
                            !.key = NoKey]
UnchangedButReq ==
    UNCHANGED <<row, material, signedBy, revocations, bounds, history>>

Barred(s) == {w \in Reasons : \/ w = "revoked" /\ s \in answered
                              \/ w = "rotated" /\ s \in rotatedOut}

\* Who introspects or revokes, and at which issuer, is compared later.
Arrive(r, kind, s, w) ==
    /\ req[r] = Idle
    /\ IF kind \in {"issue", "rotate"} THEN s = NoToken ELSE s \in Issued
    /\ IF kind \in {"introspect", "revoke"} THEN w \in Callers ELSE w = NoCaller
    /\ kind = "rotate" => rotations < MaxRotations
    /\ Become(r, [Idle EXCEPT !.pc = "enter", !.kind = kind, !.subject = s,
                              !.caller = w, !.barred = Barred(s)])
    /\ rotations' = IF kind = "rotate" THEN rotations + 1 ELSE rotations
    /\ UNCHANGED <<row, material, signedBy, revocations, made, failures, history>>

\* The handler proper.
Handle(q) ==
    CASE q.kind = "issue" -> Load(q, "sign")
      [] q.kind = "rotate" -> [q EXCEPT !.pc = "retire", !.key = NoKey]
      [] q.kind = "query" -> [q EXCEPT !.pc = "jwks", !.key = NoKey]
      [] OTHER -> Load(q, "verify")

\* Bug: the runtime is built without making a missing key.
EnterUnensured(r) ==
    /\ req[r].pc = "enter"
    /\ Become(r, Handle(req[r]))
    /\ UnchangedButReq

\* createRuntimeRepositories, before any handler: a key in order, none at
\* all, or rows without material, which throws and fails the request.  What
\* the load returns is dropped, so its reads are one step.
Enter(r) ==
    /\ req[r].pc = "enter"
    /\ Become(r, IF Usable THEN Handle(req[r])
                 ELSE IF ActiveKeys = {} THEN Load(req[r], "entry")
                 ELSE Idle)
    /\ UnchangedButReq

\* verifyTenantAccessToken with key k: the signature and the issuer, and what a
\* revocation asks of the payload, the client.
Accepted(q, k) ==
    /\ signedBy[q.subject] = k
    /\ q.kind = "introspect" => IssuerOf[q.caller] = IssuerOf[Claims[q.subject]]
    /\ q.kind = "revoke" => q.caller = Claims[q.subject]

\* What follows when the payload is good.
Verified(q) ==
    CASE q.kind = "introspect" -> [q EXCEPT !.pc = "isRevoked", !.seen = {}, !.caller = NoCaller]
      [] q.kind = "revoke" -> [q EXCEPT !.pc = "revoke", !.seen = {}, !.caller = NoCaller]
      [] q.kind = "scope" -> Load(q, "sign")

\* The answer to a payload of null, or of another client: revokeToken still
\* reports success, which is news of the token to its own caller alone.
Rejected(r) ==
    /\ Become(r, Idle)
    /\ answered' = IF req[r].kind = "revoke" /\ req[r].caller = Claims[req[r].subject]
                   THEN answered \cup {req[r].subject} ELSE answered
    /\ UNCHANGED <<row, material, signedBy, revocations, bounds, rotatedOut>>
-----------------------------------------------------------------------------
(* loadActiveSigningKeyMaterial and ensureActiveSigningKeyMaterial *)

ListKeys(r) ==
    /\ req[r].pc = "list" /\ ActiveKeys # {}
    /\ Become(r, [req[r] EXCEPT !.pc = "get", !.seen = ActiveKeys])
    /\ UnchangedButReq

\* No row: the load of a verification returns null, ensure makes a key.
\* inFlightBootstraps is never shared: a signer serves one request.
ListNoKey(r) ==
    /\ req[r].pc = "list" /\ ActiveKeys = {}
    /\ \/ req[r].stage = "verify" /\ Rejected(r)
       \/ /\ req[r].stage # "verify" /\ made < MaxKeys
          /\ Become(r, [req[r] EXCEPT !.pc = "insert", !.key = made + 1])
          /\ made' = made + 1
          /\ UNCHANGED <<row, material, signedBy, revocations, rotations,
                         failures, history>>

\* createSignedJwt signs with the key it was given, whatever happened since.
Sign(r, k) ==
    /\ \/ /\ req[r].kind \in {"issue", "scope"}
          /\ \/ \E t \in Tokens \ Issued :
                   /\ req[r].kind = "scope" => Claims[t] = Claims[req[r].subject]
                   /\ signedBy' = [signedBy EXCEPT ![t] = k]
             \/ UNCHANGED signedBy      \* a token nobody presents again
          /\ Become(r, Idle)
       \/ /\ req[r].kind = "query"      \* the token sent to SurrealDB
          /\ Become(r, [req[r] EXCEPT !.pc = "active", !.seen = {}, !.key = NoKey])
          /\ UNCHANGED signedBy
       \/ /\ req[r].kind = "rotate"     \* the audit event and the answer
          /\ Become(r, Idle)
          /\ UNCHANGED signedBy
    /\ UNCHANGED <<row, revocations, bounds, history>>

\* The request holds key k: it enters its handler, verifies or signs.
UseKey(r, k) ==
    \/ /\ req[r].stage = "entry"
       /\ Become(r, Handle(req[r]))
       /\ UNCHANGED <<row, signedBy, revocations, bounds, history>>
    \/ /\ req[r].stage = "verify" /\ Accepted(req[r], k)
       /\ Become(r, Verified(req[r]))
       /\ UNCHANGED <<row, signedBy, revocations, bounds, history>>
    \/ req[r].stage = "sign" /\ Sign(r, k)

\* Bug: a newest key without material ends the search of a verification.
GetMaterialOfNewest(r) ==
    /\ req[r].pc = "get"
    /\ LET k == Newest(req[r].seen) IN
       \/ k \in material /\ UseKey(r, k) /\ UNCHANGED material
       \/ /\ req[r].stage = "verify"
          /\ k \in material => ~Accepted(req[r], k) \/ req[r].kind = "scope"
          /\ Rejected(r)
       \/ /\ k \notin material /\ req[r].stage # "verify"
          /\ Become(r, IF req[r].seen = {k} THEN Idle
                       ELSE [req[r] EXCEPT !.seen = @ \ {k}])
          /\ UnchangedButReq

\* The newest listed key that has material; none throws, and the request
\* fails wherever it stands.
GetMaterial(r) ==
    /\ req[r].pc = "get"
    /\ LET k == Newest(req[r].seen) IN
       \/ /\ k \in material
          /\ \/ UseKey(r, k) /\ UNCHANGED material
             \/ /\ req[r].stage = "verify"
                /\ ~Accepted(req[r], k) \/ req[r].kind = "scope"
                /\ Rejected(r)
       \/ /\ k \notin material
          /\ Become(r, IF req[r].seen = {k} THEN Idle
                       ELSE [req[r] EXCEPT !.seen = @ \ {k}])
          /\ UnchangedButReq

\* D1SigningKeyBootstrapper: the row first, already active.
InsertRow(r) ==
    /\ req[r].pc = "insert"
    /\ row' = [row EXCEPT ![req[r].key] = "active"]
    /\ Become(r, [req[r] EXCEPT !.pc = "put"])
    /\ UNCHANGED <<material, signedBy, revocations, bounds, history>>

PutMaterial(r) ==
    /\ req[r].pc = "put"
    /\ material' = material \cup {req[r].key}
    /\ UseKey(r, req[r].key)

\* A rejected put has stored nothing.
PutFails(r) ==
    /\ req[r].pc = "put" /\ failures < MaxFailures
    /\ Become(r, [req[r] EXCEPT !.pc = "rollback"])
    /\ failures' = failures + 1
    /\ UNCHANGED <<row, material, signedBy, revocations, made, rotations, history>>

\* The row is deleted and the error goes on: the request fails.
Rollback(r) ==
    /\ req[r].pc = "rollback"
    /\ row' = [row EXCEPT ![req[r].key] = "none"]
    /\ Become(r, Idle)
    /\ UNCHANGED <<material, signedBy, revocations, bounds, history>>
-----------------------------------------------------------------------------
(* The handlers *)

\* keys/rotate, first half: one UPDATE of every active row of the tenant.
RetireKeys(r) ==
    /\ req[r].pc = "retire"
    /\ row' = [k \in Keys |-> IF row[k] = "active" THEN "retired" ELSE row[k]]
    /\ rotatedOut' = rotatedOut \cup Issued
    /\ Become(r, Load(req[r], "sign"))
    /\ UNCHANGED <<material, signedBy, revocations, bounds, answered>>

\* Bug: retired keys are still published.
CheckJwksRetired(r) ==
    /\ req[r].pc = "jwks"
    /\ \/ /\ row[signedBy[req[r].subject]] # "none"
          /\ IssuerOf[Claims[req[r].subject]] = Platform
          /\ Become(r, Load(req[r], "sign"))
       \/ Become(r, Idle)
    /\ UnchangedButReq

\* db/execTemplate verifies with every published key, revoked tokens too, and
\* takes the tenant by its slug: its issuer is the platform path.
CheckJwks(r) ==
    /\ req[r].pc = "jwks"
    /\ \/ /\ signedBy[req[r].subject] \in ActiveKeys
          /\ IssuerOf[Claims[req[r].subject]] = Platform
          /\ Become(r, Load(req[r], "sign"))
       \/ Become(r, Idle)
    /\ UnchangedButReq

\* revokeToken: the row, then the answer.
Revoke(r) ==
    /\ req[r].pc = "revoke"
    /\ revocations' = revocations \cup {req[r].subject}
    /\ answered' = answered \cup {req[r].subject}
    /\ Become(r, Idle)
    /\ UNCHANGED <<row, material, signedBy, bounds, rotatedOut>>

\* introspectAccessToken answers active unless a revocation is found.
IsRevoked(r) ==
    /\ req[r].pc = "isRevoked"
    /\ Become(r, IF req[r].subject \in revocations THEN Idle
                 ELSE [req[r] EXCEPT !.pc = "active"])
    /\ UnchangedButReq

\* The token was accepted: introspected as active, or its query was run.
Respond(r) ==
    /\ req[r].pc = "active"
    /\ Become(r, Idle)
    /\ UnchangedButReq

Fail(r) ==
    /\ req[r] # Idle /\ failures < MaxFailures
    /\ Become(r, Idle)
    /\ failures' = failures + 1
    /\ UNCHANGED <<row, material, signedBy, revocations, made, rotations, history>>

Step(r) ==
    \/ Enter(r) \/ ListKeys(r) \/ ListNoKey(r) \/ GetMaterial(r)
    \/ InsertRow(r) \/ PutMaterial(r) \/ PutFails(r) \/ Rollback(r)
    \/ RetireKeys(r) \/ CheckJwks(r) \/ Revoke(r) \/ IsRevoked(r) \/ Respond(r)

Arrivals == \E r \in Requests, kind \in Kinds, s \in Tokens \cup {NoToken},
               w \in Callers \cup {NoCaller} : Arrive(r, kind, s, w)

Next == Arrivals \/ \E r \in Requests : Step(r) \/ Fail(r)

\* The runtime goes on with a request until it answers.
Spec == Init /\ [][Next]_vars /\ \A r \in Requests : WF_vars(Step(r))
-----------------------------------------------------------------------------
(* Once the client a token was issued to was told, at its issuer, that the *)
(* token is revoked, no introspection that begins afterwards answers       *)
(* active: also when the revocation wrote no row because the signature did *)
(* not verify, for a token that stopped verifying never verifies again.    *)
(* Another client, or the same one at another issuer, gets the same answer *)
(* for a token that stays active (token-service.ts:1605, 1620, 1677).      *)
RevokedForGood ==
    \A r \in Requests : req[r].pc = "active" /\ req[r].kind = "introspect"
                           => "revoked" \notin req[r].barred

(* A token signed before a rotation is accepted by nothing that begins     *)
(* afterwards, neither introspection nor a template query, whatever keys   *)
(* racing requests have made meanwhile (app.ts:4262, signer.ts:134).       *)
RotationInvalidates ==
    \A r \in Requests : req[r].pc = "active" => "rotated" \notin req[r].barred

\* An active row without material that no request is still working on.
Orphaned == \E k \in ActiveKeys \ material : \A r \in Requests : req[r].key # k

(* As long as requests keep coming and no death leaves a half-made key, a  *)
(* tenant without a usable key gets one again: after a rotation that       *)
(* failed half way and after a put that was rolled back                    *)
(* (app.ts:4262, runtime.ts:152).                                          *)
KeyComesBack == []<><<Arrivals>>_vars /\ []~Orphaned => []<>Usable

(* The rotation design, without the proviso: a failure "leaves tenant      *)
(* temporarily without a key until retry".  A death between the insert and *)
(* the put leaves a row every later request fails on, the retry included   *)
(* (runtime.ts:134, 425, 1976; signer.ts:92).                              *)
KeyBackOnRetry == []<><<Arrivals>>_vars => []<>Usable
=============================================================================
