# A verification project for ma_hono

ma_hono is a tenant-aware OpenID Connect provider on Cloudflare Workers: Hono
handlers, D1 (SQLite) for rows, KV for sessions, R2 for key material. This
directory holds TLA+ modules that model it, TLC configurations that check
them on small instances, and TLAPS proofs of the invariants of all six.
Paths below are relative to the repository.

## How the program runs, and how that is modelled

Every request is one run of an `async` handler in `src/app/app.ts`, calling
services under `src/domain` and repositories in `src/adapters/db/drizzle/runtime.ts`.
Requests of the same or of different isolates interleave at every `await`. One
D1 statement, one `db.batch` and one KV operation are atomic; nothing larger is:
there are no transactions over several statements. A request may end at any
`await`, because the isolate dies or because a call throws; nothing undoes what
it had written.

In the modules a request in flight is a record `req[r]` with a program counter
and the local variables the handler keeps over an `await`. A step is what runs
between two statements. Reads and writes of the same handler are different
steps whenever another request can make a difference in between; they are one
step where it cannot, and the comment says why. Random tokens, hashing,
encryption and encoding are abstracted to identity of model values. Codes, refresh
tokens and access tokens are bound to a client and an issuer (one tenant has several:
the platform path and its custom domains); `TokenExchange` and `SigningKeys` model
both as one value, the *caller*, because there a mismatch is not always a refusal:
revocation answers it with success. Elsewhere comparisons on immutable columns refuse
the request, and are part of that choice.

## Inventory

| Component | State | Operations | What makes it hard | What makes it correct | Modelled by |
|---|---|---|---|---|---|
| Login challenge and second factor (`app.ts` 1346-2763, `totp-service.ts`) | `login_challenges`, `totp_credentials`, `mfa_passkey_challenges`, KV sessions | password login, mfa check, TOTP verify, passkey start/finish, enrol start/finish, switch, lockout | one row, seven handlers, decisions on a snapshot, non-atomic counters, unconditional updates | one login per challenge, by the factors it claims | `LoginFlow` |
| First factors (`magic-link-service.ts`, `webauthn-service.ts`, `password-auth-service.ts`) | `email_login_tokens`, assertion sessions, `webauthn_credentials` | request and consume a link, start and finish a passkey login | consumed before the challenge, signature counter race | a link proves its owner once | verdict in `LoginFlow`, magic links in `Accounts` |
| Token exchange and refresh rotation (`token-service.ts` 716-871, 1275-1637) | `authorization_codes`, `refresh_tokens` | redeem, refresh, revoke | issue before consume, lost races leave rows, expiry read once | one usable refresh token per sign-in | `TokenExchange`; what a token may say in `Authorization` |
| Access tokens, revocation, introspection (`token-service.ts` 343-392, 1603-1683) | `access_token_revocations`, signed JWTs | issue, revoke, introspect, query | verified with the newest active key only | what was revoked or rotated out is never accepted again | `SigningKeys` |
| Signing keys (`signer.ts`, `jwks.ts`, `runtime.ts` 107-208, 366-438, 1941-1979) | `signing_keys`, R2 objects | ensure, bootstrap, load, rotate, publish | D1 row before R2 object, concurrent bootstraps, two-step rotation | a tenant gets a usable key again | `SigningKeys` |
| Authorize and consent (`app.ts` 862-1272, `authorize-request.ts`) | `consent_challenges`, `authorization_codes` | authorize, show, decide, redeem | double post, another user's session, a registration that changes meanwhile | a decision counts once and for what was shown | `Authorization` |
| Accounts (`runtime.ts` 1169-1518, `app.ts` 3578-3811, 4028-4184) | `user_invitations`, `users`, `user_password_credentials` | provision, reissue, activate, register | reads before the batch, user and password in two statements | one live invitation, one password | `Accounts` |
| Client registration (`app.ts` 3206-3576, `register-client.ts`) | `oidc_clients`, claims, KV registration tokens | register (admin, dynamic, MCP), MCP delete | three stores and a compensation | all or nothing | `Administration` |
| Tenant and client administration (`app.ts` 3966-4900, `TenantClientsPage.tsx`) | `tenants`, `oidc_clients`, claims, policies, forms left open | create, switch, delete; read, patch, reset, policy, delete | whole rows written back as they were read | tables agree, rows are never half of two | `Administration`, policy patch in `LoginFlow` |
| Scoped tokens, content-reader lifetimes (`token-service.ts` 873-1272, `content-reader-policy.ts`) | none | exchange a token for a narrower one | lifetimes from three sources | never more than the token it came of | `Authorization` |
| Custom claims and the claim hook (`resolve-custom-claims.ts`, `claim-hook-client.ts`) | none | compute claims | an external call | - | the hook's delay and failure, in `Authorization` and as `Fail` |
| Admin login and service principals (`admin-auth`) | KV sessions, `admin_service_principals` | login, create, revoke | each is written once and read once per request | - | not modelled |
| Issuer resolution, discovery, audit log, setup, configuration, the console's other pages | - | - | no decision of the core depends on their history | - | not modelled |

Components meet in rows: an administrator's registration is what `authorize`,
the consent page and the token endpoint compare with; `authorize` inserts a login challenge; the login flow
consumes it and inserts an authorization code (possibly by way of a consent
challenge); the token endpoint consumes the code and inserts a refresh token;
every refresh consumes a refresh token and inserts the next one. Each of those
rows is consumed by a conditional `UPDATE ... WHERE consumed_at IS NULL` and
yields at most one successor. That promise is stated once, in `OneTimeArtifact`.

## Modules

**`OneTimeArtifact`** is the abstract specification: an artifact is *open* until
a claim or a void, *claimed* while its owner works, and *settled* after at most
one result. `YieldsOnce` is what a reader may conclude from it, and `AtMostOne`
proves that it follows. Three components implement it: `LoginFlow` (challenges, which
yield authorization codes), `TokenExchange` (codes and refresh tokens, which yield
refresh tokens) and `Authorization` (consent pages, which yield codes).

**`LoginFlow`** models sign-in. `row[c]` is the `login_challenges` row,
`totp[u]` the credential of a user, `nonce`/`usedNonces` the passkey nonces,
`sessions[c]` and `codes[c]` what a login on the challenge produced, `window`
the 30-second index, `expired` the challenges past `expires_at`. `passed` and
`unguarded` are history variables that no action reads; `unguarded` holds the
requests whose own check, between the first factor and the read of the policy, saw a
moment without a required second factor. Actions correspond to
statements:

| Code | Actions |
|---|---|
| `handlePasswordLogin` (and the other first factors) | `FirstFactor`, then `ReadPolicy`, `ReadCredentials`, `SetMfaState` of `mfaCheckAfterFirstFactor`, or `ConsumeChallenge` |
| `handleMfaTotpVerify` | `TotpVerify`, `CheckTotpCode`, `ConsumeChallenge`, `UpdateLastUsedWindow`, `SatisfyMfa`; on failure `IncrementAttempts`, `ReadAttempts`, `Lockout` |
| `handleMfaPasskeyStart`, `handleMfaPasskeyFinish` | `PasskeyStart`, `CreateNonce`; `PasskeyFinish`, `ConsumeNonce`, `VerifyAssertion`, `ConsumeChallenge`, `SatisfyMfa` |
| `handleMfaTotpEnrollStart`, `...Finish` | `EnrollStart`, `SetEnrollmentSecret`; `EnrollFinish`, `ConsumeChallenge`, `PersistCredential`, `CompleteEnrollment` |
| `handleMfaSwitchToTotp` | `SwitchToTotp`, `SwitchSet` |
| `completeLoginAfterChallengeConsumed` | `CreateSession`, `Authorize` |
| clock, administrator, isolate | `Tick`, `Expire`, `PatchPolicy`, `Crash` |

A wrong code and a code that is refused are the same step (`increment`): which
one the user typed changes nothing. The WebAuthn assertion is a choice between
success and failure. `PasskeyFinish` may present any nonce: the handler never
compares the nonce's challenge with its own, and it looks the credential up by
tenant and credential id, so `SessionsAreProved` claims for a step-up only that
*some* owner of a passkey asserted it. In the deployed worker the passkey and
magic-link repositories are the empty ones of `app.ts`; the handlers are
modelled as written.

**`TokenExchange`** models `exchangeAuthorizationCode` and the refresh-token half
of `revokeToken`. `usedCodes`, `refresh` are the rows, `held` the secrets that
reached a client, `origin`, `lost`, `answered` history. Any caller may present any
code or token some client received. Redemption and refresh refuse all but the caller
it was issued to; `ReadRevoked` answers a stranger as if the token were revoked and
leaves the row alone, so that `answered` holds only tokens whose own caller was
answered. `issueTokenSet` is the
step `Store` (the insert) between the checks and, for a refresh,
`ConsumeParent`; signatures and the claims hook change nothing kept here, and
their failure is `Fail`, which may come before or after the insert. That covers
`Promise.all`, whose insert goes on when a signature fails.

**`SigningKeys`** models the keys of one tenant and the access tokens signed with
them. `index.ts` builds an application per request, so requests share D1 and R2
and nothing in memory. `row[k]` is the status in `signing_keys`, `material` the
keys whose private half is in R2; a key is a number, the `activated_at` the
bootstrapper takes before its insert. `signedBy`, `revocations` are the tokens'
keys and `access_token_revocations`; `answered`, `rotatedOut` history. `Claims[t]` is
the client and the issuer a token names, `IssuerOf[w]` the issuer a caller came to.
`Accepted` is what the code compares: an introspection the issuer, a revocation issuer
and client. A revocation that fails the comparison writes no row and is answered with
success; `answered` notes it only if it was the token's own caller's, where nothing but
the signature can have failed.

| Code | Actions |
|---|---|
| `ensureTenantSigningKeys`, at the start of every request | `Arrive`, `Enter` |
| `loadActiveSigningKeyMaterial`, `ensureActiveSigningKeyMaterial` | `ListKeys`, `ListNoKey`, `GetMaterial` |
| `bootstrapSigningKey` | `InsertRow`, `PutMaterial`, or `PutFails` and `Rollback` |
| `keys/rotate` (`app.ts` 4247-4280) | `RetireKeys`, then the load that makes a key |
| `createSignedJwt`, `verifyTenantAccessToken` | `Sign`, `UseKey`, `Verified`, `Rejected` within the steps above |
| introspection, revocation, `db/execTemplate` | `IsRevoked`, `Revoke`, `CheckJwks`, `Respond` |

The check at the start of a request loads a key and drops the result, so its reads
are one step, `Enter`: the handler begins, a missing key is made, or rows without
material make the request fail. A put that rejects stores nothing. The
initial state has one or two active keys: two come of racing bootstraps. Tokens
do not expire here: expiry would only end their acceptance. `execTemplate` and
`issueScopeToken` do not ask for revocations, and neither do the actions. `execTemplate`
finds its tenant by the slug, so that only tokens of the platform path pass `CheckJwks`.

**`Accounts`** models how the account of an address comes to be, and magic links.
A user stands for an address, since a unique index makes two rows with one
address impossible. `status`, `credential`, `invitation`, `link`, `consumed` are
rows; `stranded`, `superseded`, `proofs`, `sessions` history.

| Code | Actions |
|---|---|
| `provisionUser` | `Provision`: one batch |
| `reissueActivationInvitation` | `StartReissue`, `ReissueRead`, `ReissueBatch` |
| `activateUser` | `StartActivate`, `ReadInvitation`, `ReadUser`, `Activate`, `AnswerActivation` |
| registration (`app.ts` 3578-3811) | `StartRegister`, `RegChallenge`, `RegEmail`, `RegConsume`, `RegCreate`, `RegPassword`, `RegisterSession` |
| `magic-link-service.ts`, the magic-link handlers | `StartLink`, `LinkChallenge`, `LinkCreate`; `StartConsume`, `FindLink`, `CheckChallenge`, `ConsumeLink`, `ConsumeChallenge`, `LinkSession` |

A reissue sets the expiry of every unconsumed invitation of the user to the time
the call began, also of one that had expired before: an activation that this
overtakes before its first read may find its invitation alive again, which is
why `Overtake` clears its `late` flag and `SupersededIsDead` excepts it. Magic
links follow `memory-magic-link-repository.ts`: `index.ts` wires no repository
for them, so that the deployed worker uses the empty one of `app.ts`.

**`Authorization`** models what a client can get: `StartAuthorize`, `Validate`,
`CreateConsent` or `CreateCode` (`authorizeRequest`); `StartDecide`,
`ConsumeConsent` (`handleConsentPost`); `StartExchange`, `FindCode`,
`ConsumeCode`, `StartRefresh`, `FindRefresh`, `DefaultAudience`, `Mint` (the token
endpoint); `StartScope`, `VerifySubject`, `HookAnswers`, `MintScope`
(`issueScopeToken` and content-reader tokens); `Patch` (an administrator changes
the registration) and `Tick`. A request begins with its first read: the reads
before it change nothing. Logging in is `LoginFlow`; a request without a session
stores its parameters in the challenge whose completion runs the same
`authorizeRequest`. Rotation is `TokenExchange`: a refresh row here is what it
binds, and stays usable, which only adds behaviours. `PageStatus` and `CodesOf` read
a page as a one-time artifact: open until it is consumed, claimed while an approved
request still works on it.

**`Administration`** models tenants and clients: the tables `tenant`, `row`,
`claims`, `policy` and the KV `tokens`, with the keys, indexes and cascades of
`schema.ts`; requests and the console's open forms are `req`.

| Code | Actions |
|---|---|
| tenants: `POST`, `PATCH`, `DELETE` | `StartTenant`, `InsertTenant`; `PatchTenant`; `StartDeleteTenant`, `DeleteTenant` |
| registration by an administrator, dynamic, MCP | `RegisterAdmin`, `RegisterDynamic`, `RegisterMcp`; then `CheckDb`, `InsertRow`, `InsertClaims`, `StoreToken`, `InsertPolicy`, `Record`; `Undo`, `UndoFails` of the compensation |
| the console's edit form and policy dialog | `Open`, `EditGet`, `GetPolicy`, `GetCreate`, `Submit`, `SavePolicy`, `Close` |
| `PATCH` of a client | `StartPatch`, `PatchDb`, `PatchClaims`, `PatchWrite`, `PatchReplace` |
| `secret/reset`, policy, deletions | `StartReset`, `ResetWrite`, `ResetAnswer`; `StartPolicy`, `PolicyRead`, `WritePolicy`, `PolicyLost`; `StartDelete`, `Delete`, `StartMcpDelete`, `DeleteToken` |
| a rejected statement, a dead isolate | `Reject`, `Die` |

Requests are past their gate, and those refused before they write are the
stuttering step `Refused`. All tenants share one slug, so the unique index
matters at every creation. The resolution of the issuer in the administrator's
`POST` is one step with the request's start; the audit event appears only as
`Record`, whose failure triggers the compensation. Left out: the 24 hours of a
registration token, the audience check of the MCP deletion, and the MCP rate
limit, which keeps its counters in a `Map` made anew for every request and
limits nothing.

Each component's proofs are in a module of their own: **`LoginFlowProofs`** and, for
the attempt counters and the TOTP credential, **`LoginFlowLimits`**;
**`TokenExchangeProofs`**, **`SigningKeysProofs`**, **`AccountsProofs`**,
**`AuthorizationProofs`** and **`AdministrationProofs`**. The `MC` modules give
constants and symmetry to TLC.

## Runs

| Run | Instance | Shows |
|---|---|---|
| `login_totp` | 2 users, 1 challenge, 2 requests, 1 nonce, 2 secrets, limit 2, 1 crash; about 1.5 million states | the invariants of a challenge under every interleaving of two handlers; refinement of `OneTimeArtifact` |
| `login_serial` | 1 user, 2 challenges, 1 request, windows 2..3, limit 1, 1 crash; about 720 thousand states | replay protection and lockout when requests do not overlap |
| `login_replay` | as above with 2 requests; violation expected | the replay check races itself |
| `login_secret` | 2 users, 1 challenge, 2 requests; violation expected | the enrolment secret outlives `pending_enrollment` |
| `token_lines` | 1 code, 4 tokens, 2 requests, 2 callers, clock 0..3 with lifetimes 1 and 2, 1 failure; about 250 thousand states | one usable refresh token per sign-in, kept through races and failures; refinement of `OneTimeArtifact` |
| `token_lifetime` | 1 code, 2 tokens, 1 request; violation expected | a rotation extends the lifetime |
| `access_tokens` | 1 token, 2 requests, 3 callers, 5 keys, 1 rotation, 1 failure; about 1.2 million states | revoked and rotated-out tokens stay dead; a tenant gets a usable key back |
| `key_orphaned` | as above; violation expected | a death between row and material leaves no key for good |
| `accounts` | 1 address, 3 invitations, 2 links, 2 challenges, 2 requests, lifetime 1, clock 0..1, 1 failure; about 530 thousand states | one live invitation, one password, one proof per link |
| `authorization` | 2 users, 1 client, 2 scopes, 1 consent page, 2 codes, 2 tokens, 2 requests, clock 0..1, 1 change of the registration; about 1.3 million states | a decision counts once; the managed resource and its scopes never leak; refinement of `OneTimeArtifact` |
| `administration` | 2 tenants, 2 clients, 2 requests, profiles web, spa and db, 3 requests past their checks, 2 secrets, 1 failure; about 1.5 million states | the tables agree and no registration is half done |
| `secret_revived` | 1 tenant, 1 client, 2 requests; violation expected | a patch writes back a secret that was reset |

Why the bounds suffice for the cases that matter: the races of the code are
between two requests on one row (a read of one, a write of the other), and a
third request adds no new pair; two users are needed so that one can overwrite
the other on a challenge, one with a passkey and a credential and one with
neither. `AttemptLimit` stands for 5: with 2 and two requests the counter
reaches its limit and overshoots it. Two windows let a code be reused in the
next one. Four tokens allow a chain of three with a lost race. Requests are
otherwise unlimited in number. `MaxCrashes`, `MaxFailures`, `MaxWindow` and
`MaxTime` bound the environment only; the secrets and nonces of an instance
bound how many can be created.

Of the newer runs: three invitations are one that was replaced, its replacement
and a second replacement made by a racing reissue, or by one that overtakes it;
two callers are the one a token was issued to and one that fails a comparison, which
client or issuer making no difference; `access_tokens` has three, the token's client at
its own issuer, the same client at the custom domain, and another client at the platform
path, because introspection compares the issuer only;
two links for one challenge and two challenges make both ways of spending one
twice possible. Five keys are two to begin with, one by the rotation and one by
each of the two requests that find none; one token suffices, since no action
relates two. One change of the registration falls between any two reads of a
request; two codes can come of one page if any two can, and two tokens make a
chain of a token and one derived from it, as long as `issueScopeToken` allows.
`MaxJobs` counts requests that get past their checks: a registration, a form
opened on the client, and the request that races with it. Lifetimes of 1 with a
clock of 0..1 let everything expire between two steps; the reader's lifetime
of 2 exceeds the token's, so each of the three bounds can be the least.

Fairness: `FairSpec` asks weak fairness of `Continue(r)`, the runtime driving a
handler that was started to its end unless it dies. Nothing is assumed about
arrivals, ticks or administrators. `LockoutCompletes` uses it, and excuses
challenges whose request died, because nothing in the code retries.
`SigningKeys` asks the same of `Step(r)`, and `KeyComesBack` says more: it
assumes that requests keep arriving, and that no death leaves a half-made key
(`[]~Orphaned`), since the code has no repair for that. That proviso is what
`key_orphaned` shows to be necessary.

`login_serial` has one request in flight, because `TotpCodeUsedOnce` and
`LastWindowGrows` do not hold with two: that is finding 1. What holds for any number of
requests is stated by the theorems `CodeUsedOnce` and `WindowGrows`.
`TotpSecretsStay` and `LockoutCompletes` are checked there because that instance
has two challenges of one user.

## Findings

1. `TotpCodeUsedOnce` (run `login_replay`): the window is read, checked, and
   written unconditionally after the consume of *this* challenge, so a code is
   accepted on two challenges. The design promises one acceptance per window.
2. `SecretOnlyWhilePending` (run `login_secret`): `setMfaState` leaves
   `totp_enrollment_secret_encrypted` in place. The design says that it exists
   only in `pending_enrollment`.
3. `AbsoluteLifetime` (run `token_lifetime`): each rotation starts 60 days anew.
   The design says 60 days after the initial issuance.
4. `KeyBackOnRetry` (run `key_orphaned`): the key's row is inserted before its
   private half is put to R2. If the isolate dies in between, every later request
   throws on the row without material, the retried rotation included. The
   rotation design says a failure leaves the tenant "temporarily without a key
   until retry".
5. `ReplacedSecretIsDead` (run `secret_revived`): a patch writes back every column
   it read, the secret's hash included, and so undoes a reset answered in
   between. The console says that the current secret stops working immediately.

Seen while modelling and not given a run, since no document says otherwise: a
registration whose claims are rejected leaves its client behind
(`register-client.ts:209` is outside the compensation); a self-registration that
dies before its password strands the address (`ActiveHasPassword` excepts it); a
token obtained without a resource before the client was given the managed
audience is minted for that audience, with a scope the resource policy never saw
(`token-service.ts:816`); the console's edit form saves a client without claims
when reading them failed (`TenantClientsPage.tsx:610`); the MCP rate limit never
applies.

Also seen: the refresh issues its replacement
before it consumes the row it was given, and never sets `parent_token_id`; the
design has the opposite order and both links. `LineSurvives` shows what the
code's order is good for: a refresh that fails costs the client nothing.

## What is proved

In `LoginFlowProofs`, for every number of users, challenges, requests,
nonces and secrets and every attempt limit, from `LoginAssumption` (the
sentinels are not members of the sets, the bounds are naturals, and no two users
begin with the same authenticator secret, since secrets are drawn at random):

* `TypeCorrect`: `Spec => []TypeOK`. `TypeOK` alone is not inductive for the
  prover's purposes because records are updated field by field; `Typed` adds
  that each request and row is a record with known fields.
* `OneLogin`: `Spec => []OneLoginPerChallenge`. The strengthening `Ownership`
  says that at most one request is past its successful consume of a challenge,
  that the challenge is then consumed, and that sessions and codes exist only
  as far as that owner has come. Without it two owners could both write.
* `SessionsProved`, `NoBypass`, `PendingProved`: `[]SessionsAreProved`,
  `MfaNotBypassed`, `[]PendingRowsAreProved`. The strengthening `Evidence`
  says what a request in flight has already established: its user passed its
  method on its challenge, the factor it came through is in `passed` once it is
  past the check. The history only grows (`KnowledgeGrows`), so another request's write
  to the row cannot take that away. `MfaNotBypassed` is an action property, with an
  invariant of its own, `ChecksHold`: a request whose check comes next finds the policy
  on or is in `unguarded`, and one that goes on without a second factor is in it. A
  patch of the policy falls between the two statements of the check, so that what
  excuses a request is the policy at a moment of its own check, never an earlier one.
* `Refinement`: `Spec => IsOneTimeArtifact`, by `Typed` and `Ownership`. The consume of
  a completed sign-in maps to `Claim`, a lockout of an active challenge to `Void`,
  `Authorize` to `Yield` when it stores a code and to `Abandon` when it stores none,
  the death of the owner to `Abandon`, and everything else to a stutter: `Ownership`
  is what makes a second claim of a consumed challenge impossible. `YieldsOnce` follows.

`Typed`, `Ownership`, `Evidence` and `ChecksHold` were checked by TLC on the instance of
`login_totp` before they were proved. Their proofs have one step per action.

In `LoginFlowLimits`, about the counters and the credential:

* `Overshoot`: `[]FailuresBounded`, if the requests in flight are finitely many
  (`IsFiniteSet(Requests)`; the bound is a cardinality). The bound is not inductive: a
  request increments, reads the counter back and locks out in three statements. The
  invariant `Counted` counts the requests that may still fail on a challenge
  (`MayFail`) and those that have failed and not decided yet (`HaveFailed`). While the
  challenge is active, each failure past the limit has one of the latter, or a
  death, to answer for it (`Accounted`). A reader that finds the limit reached goes
  on to the lockout, and one that does not leaves the count below the limit. Once
  the challenge is consumed nobody new is let in, and those inside have one failure
  each left (`Bounded`).
* `LimitIsActedOn`: `[]LockoutUnderWay`, under the same hypothesis: as long as no
  request died, an active challenge at its limit has a request on its way to the
  lockout. This is the safety half of `LockoutCompletes`; the rest is fairness.
* `SecretsStay`: `TotpSecretsStay`, without hypotheses. Only `PersistCredential` writes a
  secret, and it inserts only where there is no row.
* `WindowGrows` and `CodeUsedOnce`: `Spec => LastWindowGrows \/ <>CodesRace` and
  `Spec => []TotpCodeUsedOnce \/ <>CodesRace`, for any number of requests in flight. Finding
  1 says that neither holds outright; these say what exactly it takes. `CodesRace`
  is one request about to store its window while another of the same user holds a
  checked code of that window or an earlier one which it may still store, having consumed
  its challenge or finding it unconsumed. Nothing else defeats the replay check: not a crash at any statement, an
  enrolment that overlaps a verification, a switch, other challenges of the user or
  other users, however many requests run. Their invariants hold up to the first race.
  `WindowsAhead`: a request whose window may still be stored has one later than
  the credential's. `CodesApart`: a secret belongs to one credential or waits in one
  row or request, the window of a session that used a secret is not later than the credential's
  last one, the code a request holds past its store is in no session, and no two
  requests hold the same one.

`Counted` and `LockoutUnderWay` were checked by TLC on the instance of `login_totp`
first, `WindowsAhead` and `CodesApart` on one user, with and without a credential, two challenges,
two requests, two secrets and windows 2..3, up to the first race (1.7 million states).

In `TokenExchangeProofs`, for every number of codes, tokens and requests, every
lifetime, any callers and any number of failures, from `ExchangeAssumption`: `TypeCorrect`,
`Linear`, `Survives`, `Recorded`, `InTime` and `Revoked`, one for each invariant
of `token_lines`, and `BoundToCaller`: a refresh token a client holds belongs to the
caller its code was issued to. All follow from one inductive invariant, `IInv`, which
adds to these

* `Typed`: what a call carries depends on where it is: a redemption has a code and
  no parent, a refresh a parent some client holds and no code.
* `SecretsAreFresh`: the token a call is making is unknown to every client and
  every other call; once stored it is active and descends from what the call
  presented. Nobody can consume a row whose secret is still inside one call.
* `Entitled`: what a call goes on with after the comparison is its caller's, and all rows of
  a line belong to the caller of the line's code.
* `RowsAreRooted`: every stored row descends from a used code, its parent was
  held by a client, and only consumed rows name a replacement.
* `CodeHasOneWinner`: a call that consumed a code and has not stored yet is the
  only one, and its line is still empty. Without it the second winner's token
  would be a second usable one.
* `PresentedInTime`: the expiry compared before the consume still holds for what
  the call is about to store, because no statement changes the expiry of a row.

The proof has one lemma per action (`StoreKeeps`, `ConsumeParentKeeps`, ...) and
in it one step per conjunct; steps that touch no row share `QuietKeepsLines`.

`Refinement` in the same module is `Spec => IsOneTimeArtifact`.
`OneClaimer` shows that the call holding a code or a consumed parent is alone;
with it the consume maps to `Claim`, the answer to `Yield`, a revocation to `Void`,
a failure to `Abandon` and every other step to a stutter. Counting results needs
one more invariant: the set of tokens received is finite. `YieldsOnce` follows.

`IInv` was checked by TLC as an invariant on the instance of `token_lines`, and on
one with two codes and three tokens, before it was proved.

In `AccountsProofs`, for every number of addresses, invitations, links, challenges,
requests and failures and every lifetime, from `AccountsAssumption`: all six
properties of the run `accounts`. The invariant has four parts, each inductive
with those before it:

* `Typed` (`TypeCorrect`): what a request carries depends on where it is.
* `Accounted` (`EveryActiveHasPassword`, `PasswordsAreFinal`): an address without an
  account has no password and no invitation, and nobody is about to reissue one
  for it (`UnusedAddresses`); an account that registered itself has no invitation
  either, so that nothing but its own registration can give it a password
  (`SelfRegistered`); an activation holds an invitation of its own user. Without
  the first two a reissue that read "provisioned" before the activation could
  make an invitation that sets a second password.
* `Invited` (`OneLiveInvitation`, `ReplacedInvitationIsDead`): the time a reissue
  took is not in the future, what it replaced has expired by then, and an
  activation that began with a replaced invitation is still before the read that
  refuses it.
* `Proven` (`ProofsAreOneTime`): a link being mailed is in no other request and has
  not been used, and among the requests past their consume no two have the same
  challenge, whose session is still to be made.

The four were checked by TLC on the instance of `accounts` before they were proved.

In `SigningKeysProofs`, for every number of keys, tokens, callers, issuers, requests,
rotations and failures, from `KeysAssumption`: `TypeCorrect`, `RotatedTokensStayDead` and
`RevokedTokensStayDead`. Beside `Typed` the invariant says:

* `Kept`: private material has a row that went before it and is never withdrawn; a key
  that is being made has one request that makes it, and no material yet.
* `Listed`: keys that a request listed were active together and retire together, so
  that what it listed is all retired as soon as one key of it is.
* `RotatedOut`: a token signed before a rotation has a retired key, and no request
  that began after the rotation has listed that key. The rotation is two steps, and in
  between any request may bootstrap a key; a retired row never becomes active again.
* `Revoked`: a token whose revocation was answered to its own caller has its row or is
  `Dead`: its key is retired, or a newer active key has material. Without the proviso it
  would be false: an answer to a stranger, or at another issuer, promises nothing. `Dead` is stable, which is why answering
  "revoked" without writing a row is sound.

In `AuthorizationProofs`, for every number of users, clients, scopes, pages, codes,
tokens and requests, every lifetime and any number of changes of the registration,
from `AuthorizationAssumption`: `TypeCorrect`, `CeilingHolds`,
`ScopedTokensAddNothing`, `ResourceIsHeld` and `DecisionsAreFinal`. The invariant:

* `Typed`: what a request, a page, a code and a token carry.
* `Bounded`: every page, code, refresh grant, token and request in flight is within the
  ceiling of its policy and registration. A ceiling on tokens alone would not be
  inductive, since a mint reads a code that was written long before.
* `Derived`: a scoped token that is being made keeps to the expiry and the audience of
  its subject; with `Bounded` this gives the chain back to a login's token.
* `Held`: the resource of a grant about to be minted is the audience the client had
  when it was authenticated, which it was seen to hold during the request.
* `Owned` and `Decided`: a code or page that is being made is in no row and in no other
  request; a request that goes on with an approval is the only one that consumed the
  page, and the page has no code yet.

With `Typed`, `Owned` and `Decided`, `Refinement` shows `Spec => IsOneTimeArtifact` for the
consent page: an approval maps to `Claim`, a denial to `Void`, the code of an approved
request to `Yield`, its refusal or death to `Abandon`, every other step to a stutter, the
insert of a page included. `YieldsOnce` follows: a page ends in one code at most.

In `AdministrationProofs`, for every number of tenants, clients, requests and secrets
and any failures, from `AdministrationAssumption` and `NoneIsNoRow`: `TypeCorrect`,
`RowsAreConsistent`, `RegistrationsAreWhole`, `DeletedClientsStayGone`,
`TablesAlwaysAgree` and `SavedPoliciesAreKept`. The actions are first reduced to what
they make of their own request (`MovesStep`) and of the tables of one client
(`WritesStep`); the invariants are preserved by those two. They are:

* `Typed`: a row a request is about to write is consistent in itself, and so is every
  row in the table (`RowOk`), since whole rows are written.
* `Under`: how far a registration has come shows in the tables, unless its client was
  deleted or part of it could not be taken back (`RequestOk`); nobody else knows the id of a client
  before its row is inserted, and no two registrations share one (`Apart`). Without
  `Apart` a deletion could be undone by the `INSERT` of a registration.
* `Keyed`: `TablesAgree` without the cardinality, and `Whole`, which is
  `RegistrationIsWhole` of one client.

`Under` also says that a row about to be written keeps its client's tenant, which is
why a patch cannot leave a client in a tenant that was deleted.

The invariants of these three modules were checked by TLC on the instances of their
runs before they were proved.

In `OneTimeArtifact`, `AtMostOne` is `Spec => []YieldsOnce`: what the three refinements are
good for. Each component's `YieldsOnce` is its `Refinement` followed by that theorem.

Model-checked only: `LockoutCompletes` and `KeyComesBack`, since liveness under fairness
is outside what the prover handles. Every other property of a passing run is a
theorem: `FailuresBounded` for finitely many request slots, `LastWindowGrows` and
`TotpCodeUsedOnce` unless `CodesRace`, the others without a hypothesis. No module uses recursion.

## Plan

What is left, in the order of what it would add:

1. A composition of `LoginFlow` with the registration that `Administration` keeps:
   today both model the client they need.
2. A passkey as a first factor, once the deployed repository keeps its sessions.
3. Admin sessions and service principals.

## Not modelled, and why

Formatting, discovery documents, CORS, HTML pages, the console's other pages,
setup and migrations keep no state a decision depends on. The audit log is
append-only and read by no handler. Cryptography is taken as perfect. An admin
session is written once and read once per request, a service principal is one
row with a flag: the gate is a choice of every administrative action. A passkey
as a first factor is not modelled, because the session methods of
`D1PasskeyRepository` are stubs and no other repository is wired. Issuer
resolution is a stateless lookup. KV's eventual consistency matters for sessions
and registration tokens, which no modelled decision reads after writing them.
The race of two first requests on the TOTP encryption key (`index.ts:80`) happens
once in the life of an installation and is listed as a hazard only.
