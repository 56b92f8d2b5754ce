---------------------------- MODULE Authorization ----------------------------
(***************************************************************************)
(* From an authorize request to the tokens of a client: validation against *)
(* the client's registration, the user's decision on a consent page, the   *)
(* exchange of the code, refreshes, and the scoped tokens a client derives *)
(* from a token it holds.  An administrator changes registrations and the  *)
(* clock runs while requests are under way.                                *)
(*                                                                         *)
(* Each read or write of D1 is a step; a request begins with its first     *)
(* read and uses later what it read before an await.  Logging in is        *)
(* LoginFlow: a request without a session stores the validated parameters  *)
(* in a login challenge, whose completion runs the same authorizeRequest   *)
(* on them.  The rotation of refresh tokens and the verifier of a code are *)
(* TokenExchange: here a refresh row is what it binds, and stays usable.   *)
(***************************************************************************)
EXTENDS Naturals, FiniteSets

CONSTANTS
    Clients,
    Users,
    Scopes,         \* what a client may ask for beside openid
    ManagedScopes,  \* ... of the managed resource
    Allowed,        \* allowed_scopes of a client; all of them when undefined
    Managed,        \* the resource of the managed resource policy
    Consents,
    Codes,
    Requests,
    CodeTtl,        \* 5 minutes
    ConsentTtl,     \* 10 minutes
    TokenTtl,
    ReaderTtl,      \* maxTtlSeconds of the content-reader policy
    MaxTime,        \* bound on the clock
    MaxTokens,      \* bound on the tokens issued
    MaxPatches,     \* bound on the changes of registrations
    None

ASSUME AuthorizationAssumption ==
    /\ ManagedScopes \subseteq Scopes
    /\ Allowed \in [Clients -> SUBSET Scopes]
    /\ {CodeTtl, ConsentTtl, TokenTtl, ReaderTtl} \subseteq Nat \ {0}
    /\ {MaxTime, MaxTokens, MaxPatches} \subseteq Nat
    /\ Managed \notin Clients
    /\ None \notin Clients \cup Users \cup Consents \cup Codes \cup {Managed}

VARIABLES
    now,
    registration,  \* oidc_clients
    consent,       \* consent_challenges
    code,          \* authorization_codes
    grants,        \* refresh_tokens, by what they bind
    issued,        \* history: the access tokens of successful answers
    decision,      \* history: what the user decided on each consent page
    req,           \* requests in flight
    patches

store == <<now, registration, consent, code, grants>>
vars == <<store, issued, decision, req, patches>>

Times == 0..MaxTime
Leases == 1..(MaxTime + 1)
MaxExpiry == MaxTime + CodeTtl + ConsentTtl + TokenTtl + ReaderTtl
Resources == {Managed, None}
Kinds == {"login", "workspace", "reader"}

\* auto: first_party_trusted with consent policy "skip", which no PATCH changes;
\* admits: the row exists, with the redirect URI and grant type of a request.
Registration == [audience : Resources, admits : BOOLEAN, auto : BOOLEAN]
Grant == [client : Clients, user : Users, scope : Scopes, resource : Resources]
Row == [grant : Grant \cup {None}, consent : Consents \cup {None},
        expires : 0..MaxExpiry, consumed : BOOLEAN]
Unused == [grant |-> None, consent |-> None, expires |-> 0, consumed |-> FALSE]
Token == [kind : Kinds, grant : Grant, audience : {Managed} \cup Clients,
          expires : 0..MaxExpiry, lease : Leases \cup {None}, held : BOOLEAN]
PCs == {"idle", "validate", "consent", "code", "consume",
        "findCode", "consumeCode", "findRefresh", "mint",
        "verify", "hook", "mintScope"}
Request ==
    [pc : PCs, grant : Grant \cup {None}, consent : Consents \cup {None},
     code : Codes \cup {None}, approve : BOOLEAN, audience : Resources,
     token : Token \cup {None}, kind : Kinds, lease : Leases \cup {None},
     expires : 0..MaxExpiry, seen : SUBSET Resources]
Idle == [pc |-> "idle", grant |-> None, consent |-> None, code |-> None,
         approve |-> FALSE, audience |-> None, token |-> None,
         kind |-> "login", lease |-> None, expires |-> 0, seen |-> {}]

TypeOK ==
    /\ now \in Times
    /\ registration \in [Clients -> Registration]
    /\ consent \in [Consents -> Row]
    /\ code \in [Codes -> Row]
    /\ grants \subseteq Grant
    /\ issued \subseteq Token
    /\ decision \in [Consents -> {"open", "approved", "denied"}]
    /\ req \in [Requests -> Request]
    /\ patches \in 0..MaxPatches

-----------------------------------------------------------------------------
Init ==
    /\ now = 0
    /\ registration \in [Clients -> [audience : Resources, admits : {TRUE},
                                     auto : BOOLEAN]]
    /\ consent = [n \in Consents |-> Unused]
    /\ code = [k \in Codes |-> Unused]
    /\ grants = {} /\ issued = {}
    /\ decision = [n \in Consents |-> "open"]
    /\ req = [r \in Requests |-> Idle]
    /\ patches = 0

Goto(r, pc) == req' = [req EXCEPT ![r].pc = pc]
Finish(r) == req' = [req EXCEPT ![r] = Idle]
\* The next step, or the refusal that ends the request.
GotoIf(r, cond, pc) == IF cond THEN Goto(r, pc) ELSE Finish(r)
Reads == UNCHANGED <<store, issued, decision, patches>>

Start(r, q) ==
    /\ req[r] = Idle
    /\ req' = [req EXCEPT ![r] = q]
    /\ Reads

\* Random tokens: in no row and in no other request.
FreshConsent(n) ==
    consent[n] = Unused /\ \A r \in Requests : req[r].consent # n
FreshCode(k) == code[k] = Unused /\ \A r \in Requests : req[r].code # k

NewRow(g, n, expires) ==
    [grant |-> g, consent |-> n, expires |-> expires, consumed |-> FALSE]
Active(row) == row # Unused /\ ~row.consumed /\ row.expires > now

-----------------------------------------------------------------------------
(* Authorize and consent *)

\* Bug: the ceiling of the client's own registration is not applied.
ResourceAllowedForAnyScope(g, audience) ==
    IF g.resource = None
    THEN audience # Managed
    ELSE audience = g.resource /\ g.scope \in ManagedScopes

\* validateResourceRequest: a managed client names its resource, and a request
\* for the resource stays within the policy and the client's registration.
ResourceAllowed(g, audience) ==
    IF g.resource = None
    THEN audience # Managed
    ELSE /\ audience = g.resource
         /\ g.scope \in ManagedScopes \cap Allowed[g.client]

\* buildValidatedAuthorizeRequest
Validated(g) ==
    /\ registration[g.client].admits
    /\ ResourceAllowed(g, registration[g.client].audience)

StartAuthorize(r, g, k, n) ==
    /\ FreshCode(k) /\ FreshConsent(n) /\ Validated(g)
    /\ Start(r, [Idle EXCEPT
                   !.pc = IF registration[g.client].auto THEN "code"
                          ELSE "consent",
                   !.grant = g, !.code = k, !.consent = n])

\* Bug: a refusal gives the page back for another try.
ValidateReopening(r) ==
    /\ req[r].pc = "validate"
    /\ GotoIf(r, Validated(req[r].grant), "code")
    /\ consent' = IF Validated(req[r].grant) THEN consent
                  ELSE [consent EXCEPT ![req[r].consent].consumed = FALSE]
    /\ UNCHANGED <<now, registration, code, grants, issued, decision, patches>>

\* authorizeRequest once more, for a user who has approved.
Validate(r) ==
    /\ req[r].pc = "validate"
    /\ GotoIf(r, Validated(req[r].grant), "code")
    /\ Reads

CreateConsent(r) ==
    /\ req[r].pc = "consent"
    /\ consent' = [consent EXCEPT ![req[r].consent] =
                      NewRow(req[r].grant, None, now + ConsentTtl)]
    /\ Finish(r)
    /\ UNCHANGED <<now, registration, code, grants, issued, decision, patches>>

CreateCode(r) ==
    /\ req[r].pc = "code"
    /\ code' = [code EXCEPT ![req[r].code] =
                   NewRow(req[r].grant,
                          IF req[r].approve THEN req[r].consent ELSE None,
                          now + CodeTtl)]
    /\ Finish(r)
    /\ UNCHANGED <<now, registration, consent, grants, issued, decision,
                   patches>>

\* resolveConsentChallenge: the page belongs to the user of the session.
FindConsent(n, u) == Active(consent[n]) /\ consent[n].grant.user = u

\* The form of a consent page is posted, perhaps for the second time.
StartDecide(r, n, u, approve, k) ==
    /\ FreshCode(k) /\ FindConsent(n, u)
    /\ Start(r, [Idle EXCEPT !.pc = "consume", !.consent = n, !.code = k,
                             !.approve = approve, !.grant = consent[n].grant])

\* Bug: the row is marked whatever it holds.
ConsumeConsentUnchecked(r) ==
    LET n == req[r].consent IN
    /\ req[r].pc = "consume"
    /\ consent' = [consent EXCEPT ![n].consumed = TRUE]
    /\ decision' = [decision EXCEPT ![n] =
                       IF req[r].approve THEN "approved" ELSE "denied"]
    /\ GotoIf(r, req[r].approve, "validate")
    /\ UNCHANGED <<now, registration, code, grants, issued, patches>>

\* The conditional update, then the decision of this form.
ConsumeConsent(r) ==
    LET n == req[r].consent IN
    /\ req[r].pc = "consume"
    /\ IF Active(consent[n])
       THEN /\ consent' = [consent EXCEPT ![n].consumed = TRUE]
            /\ decision' = [decision EXCEPT ![n] =
                               IF req[r].approve THEN "approved" ELSE "denied"]
            /\ GotoIf(r, req[r].approve, "validate")
       ELSE Finish(r) /\ UNCHANGED <<consent, decision>>
    /\ UNCHANGED <<now, registration, code, grants, issued, patches>>

-----------------------------------------------------------------------------
(* The token endpoint *)

\* authenticateClient: the row read here serves the whole request.
Authenticate(g, k) ==
    LET audience == registration[g.client].audience
    IN  [Idle EXCEPT !.pc = IF k = None THEN "findRefresh" ELSE "findCode",
                     !.grant = g, !.code = k,
                     !.audience = audience, !.seen = {audience}]

StartExchange(r, k) ==
    /\ code[k] # Unused
    /\ Start(r, Authenticate(code[k].grant, k))

StartRefresh(r, g) ==
    /\ g \in grants
    /\ Start(r, Authenticate(g, None))

\* Bug: the resource is checked when it is authorized and not again.
StillRegisteredAssumed(r) == TRUE

\* A grant of a resource the client has since left is refused.
StillRegistered(r) ==
    req[r].grant.resource \in {None, req[r].audience}

FindCode(r) ==
    LET row == code[req[r].code] IN
    /\ req[r].pc = "findCode"
    /\ IF Active(row) /\ StillRegistered(r)
       THEN req' = [req EXCEPT ![r].pc = "consumeCode",
                               ![r].expires = now + TokenTtl]
       ELSE Finish(r)
    /\ Reads

ConsumeCode(r) ==
    LET k == req[r].code IN
    /\ req[r].pc = "consumeCode"
    /\ GotoIf(r, ~code[k].consumed, "mint")
    /\ code' = [code EXCEPT ![k].consumed = TRUE]
    /\ UNCHANGED <<now, registration, consent, grants, issued, decision,
                   patches>>

FindRefresh(r) ==
    /\ req[r].pc = "findRefresh"
    /\ IF StillRegistered(r)
       THEN req' = [req EXCEPT ![r].pc = "mint", ![r].expires = now + TokenTtl]
       ELSE Finish(r)
    /\ Reads

\* Bug: a client without an audience of its own gets none.
RegisteredAudience(r) == req[r].audience

\* accessTokenAudience ?? clientId
DefaultAudience(r) ==
    IF req[r].audience = None THEN req[r].grant.client ELSE req[r].audience

\* issueTokenSet, after the claims and the policy of the client were read.
Mint(r) ==
    LET g == req[r].grant IN
    /\ req[r].pc = "mint" /\ Cardinality(issued) < MaxTokens
    /\ issued' = issued \cup
         {[kind |-> "login", grant |-> g,
           audience |-> IF g.resource # None THEN g.resource
                        ELSE DefaultAudience(r),
           expires |-> req[r].expires, lease |-> None,
           held |-> g.resource = None \/ g.resource \in req[r].seen]}
    /\ grants' = grants \cup {g}
    /\ Finish(r)
    /\ UNCHANGED <<now, registration, consent, code, decision, patches>>

-----------------------------------------------------------------------------
(* The scope endpoint *)

AuthenticateScope(t, kind, lease) ==
    [Idle EXCEPT !.pc = "verify", !.token = t, !.grant = t.grant,
                 !.kind = kind, !.lease = lease,
                 !.audience = registration[t.grant.client].audience]

\* A client presents one of its tokens; lease_end comes with a reader request.
StartScope(r, t, kind, lease) ==
    /\ t \in issued
    /\ Start(r, AuthenticateScope(t, kind, lease))

MinOf(a, b) == IF a <= b THEN a ELSE b

\* Bug: the lease is applied without what is left of the subject token.
ReaderExpiryOfLease(t, lease) == MinOf(lease, now + ReaderTtl)

\* computeContentReaderTtlSeconds, as the second the token dies.
ReaderExpiry(t, lease) == MinOf(MinOf(t.expires, lease), now + ReaderTtl)

\* The subject token verifies, is addressed to this client's audience and is
\* not a reader's; a reader's lifetime is fixed before the claim hook is asked.
VerifySubject(r) ==
    LET t == req[r].token IN
    /\ req[r].pc = "verify"
    /\ IF /\ t.expires > now
          /\ t.audience = DefaultAudience(r)
          /\ t.kind # "reader"
          /\ req[r].kind = "reader" => req[r].lease > now
       THEN req' = [req EXCEPT ![r].pc = "hook",
                               ![r].expires = IF req[r].kind = "reader"
                                              THEN ReaderExpiry(t, req[r].lease)
                                              ELSE 0]
       ELSE Finish(r)
    /\ Reads

\* The claim hook has answered; a workspace token takes what is left of its
\* subject now.
HookAnswers(r) ==
    LET t == req[r].token IN
    /\ req[r].pc = "hook"
    /\ IF req[r].kind = "reader" THEN Goto(r, "mintScope")
       ELSE IF t.expires > now
            THEN req' = [req EXCEPT ![r].pc = "mintScope",
                                    ![r].expires = t.expires]
            ELSE Finish(r)
    /\ Reads

MintScope(r) ==
    /\ req[r].pc = "mintScope" /\ Cardinality(issued) < MaxTokens
    /\ issued' = issued \cup
         {[kind |-> req[r].kind, grant |-> req[r].grant,
           audience |-> DefaultAudience(r), expires |-> req[r].expires,
           lease |-> req[r].lease, held |-> TRUE]}
    /\ Finish(r)
    /\ UNCHANGED <<store, decision, patches>>

-----------------------------------------------------------------------------
(* The administrator, the clock, and requests that end half way *)

\* PATCH of a client; a client that no longer admits the request has lost the
\* redirect URI, the grant type or its row.
Patch(c, row) ==
    /\ patches < MaxPatches /\ patches' = patches + 1
    /\ row # registration[c] /\ row.auto = registration[c].auto
    /\ registration' = [registration EXCEPT ![c] = row]
    /\ req' = [r \in Requests |->
                 IF req[r].seen # {} /\ req[r].grant.client = c
                 THEN [req[r] EXCEPT !.seen = @ \cup {row.audience}]
                 ELSE req[r]]
    /\ UNCHANGED <<now, consent, code, grants, issued, decision>>

\* A rejected statement or signature, a failed hook, the death of the isolate.
Fail(r) ==
    /\ req[r] # Idle
    /\ Finish(r)
    /\ Reads

Tick ==
    /\ now < MaxTime
    /\ now' = now + 1
    /\ UNCHANGED <<registration, consent, code, grants, issued, decision, req,
                   patches>>

Step(r) ==
    \/ Validate(r) \/ CreateConsent(r) \/ CreateCode(r) \/ ConsumeConsent(r)
    \/ FindCode(r) \/ ConsumeCode(r) \/ FindRefresh(r) \/ Mint(r)
    \/ VerifySubject(r) \/ HookAnswers(r) \/ MintScope(r)
    \/ Fail(r)

\* A request that is refused at its first read.
Refused(r) == req[r] = Idle /\ UNCHANGED vars

Next ==
    \/ \E r \in Requests : Step(r) \/ Refused(r)
    \/ \E r \in Requests, g \in Grant, k \in Codes, n \in Consents :
           StartAuthorize(r, g, k, n)
    \/ \E r \in Requests, n \in Consents, u \in Users, k \in Codes :
           \E approve \in BOOLEAN : StartDecide(r, n, u, approve, k)
    \/ \E r \in Requests, k \in Codes : StartExchange(r, k)
    \/ \E r \in Requests, g \in grants : StartRefresh(r, g)
    \/ \E r \in Requests, t \in issued :
           \/ StartScope(r, t, "workspace", None)
           \/ \E lease \in Leases : StartScope(r, t, "reader", lease)
    \/ \E c \in Clients, row \in Registration : Patch(c, row)
    \/ Tick

Spec == Init /\ [][Next]_vars

-----------------------------------------------------------------------------
(* Properties *)

\* A consent page is decided once, however many tabs post it: at most one code
\* comes of it, none when it was denied, and no client that needs a consent
\* gets a code for a user who has not approved this very request
\* (app.ts, handleConsentPost).
DecisionIsFinal ==
    /\ \A k \in Codes, n \in Consents :
          code[k].consent = n =>
              /\ decision[n] = "approved"
              /\ code[k].grant = consent[n].grant
              /\ \A j \in Codes \ {k} : code[j].consent # n
    /\ \A k \in Codes :
          code[k] # Unused /\ code[k].consent = None =>
              registration[code[k].grant.client].auto

\* A token for the managed resource is only minted for a client that was
\* registered for it while the request ran: a code or a refresh token obtained
\* before the administrator moved the client away is worth nothing afterwards.
ResourceHeld == \A t \in issued : t.held

\* Along any chain of codes, refreshes and scope exchanges, a token that comes
\* of a request for the managed resource carries a scope within the policy and
\* within the client's registration, and no other audience.
ScopeCeiling ==
    \A t \in issued :
        t.grant.resource # None =>
            /\ t.grant.scope \in ManagedScopes \cap Allowed[t.grant.client]
            /\ t.audience = t.grant.resource

\* A scoped token adds nothing to the token it was derived from: same user,
\* client and audience, it dies no later (a reader's token no later than its
\* lease either), and it never comes of a content reader's token alone.
ScopedWithinSubject ==
    \A t \in issued :
        t.kind # "login" =>
            /\ \E s \in issued :
                  /\ s.kind = "login"
                  /\ s.grant = t.grant /\ s.audience = t.audience
                  /\ t.expires <= s.expires
            /\ t.kind = "reader" => t.expires <= t.lease

\* A consent page is a one-time artifact whose result is an authorization code.
PageStatus(n) ==
    IF ~consent[n].consumed THEN "open"
    ELSE IF \E r \in Requests : /\ req[r].approve /\ req[r].pc \in {"validate", "code"}
                                /\ req[r].consent = n
    THEN "claimed" ELSE "settled"

CodesOf(n) == {k \in Codes : code[k].consent = n}

Artifact == INSTANCE OneTimeArtifact
    WITH Artifacts <- Consents,
         status <- [n \in Consents |-> PageStatus(n)],
         yielded <- [n \in Consents |-> Cardinality(CodesOf(n))]

\* Whatever tabs, refusals and failures come between, a page is claimed by one
\* approval or voided by one denial, and no claim is given back
\* (app.ts, handleConsentPost).
IsOneTimeArtifact == Artifact!Spec
=============================================================================
