---------------------------- MODULE TokenExchange ----------------------------
(***************************************************************************)
(* The token endpoint's two grants and the revocation of refresh tokens:   *)
(* an authorization code is redeemed once, a refresh token is rotated by   *)
(* every successful refresh.                                               *)
(*                                                                         *)
(* A request is one call of exchangeAuthorizationCode or revokeToken; each *)
(* D1 statement is a step.  A refresh stores the replacement row before it *)
(* consumes the row it was given, so requests that race leave replacements *)
(* whose secret nobody ever received.                                      *)
(*                                                                         *)
(* A caller is an authenticated client at one of its tenant's issuers (the *)
(* platform path or a custom domain), which is what a code and a refresh   *)
(* token are bound to; whoever else presents one is refused, or is told    *)
(* that it is revoked.  The checks on redirect URI, resource and PKCE      *)
(* compare immutable fields: together they are the choice to refuse.  The  *)
(* claims hook and the two signatures touch nothing kept here; their       *)
(* failure, a rejected statement and a dead isolate are the step Fail.     *)
(***************************************************************************)
EXTENDS Naturals, FiniteSets

CONSTANTS
    Codes,        \* authorization codes, all issued at time 0
    Tokens,       \* refresh tokens that may be made
    Requests,
    Callers,      \* authenticated clients, each at one issuer of its tenant
    CodeCaller,   \* whom each code was issued to, and at which issuer
    CodeTtl,      \* 10 minutes in the code
    RefreshTtl,   \* 60 days in the code
    MaxTime,      \* bound on the clock
    MaxFailures,  \* bound on requests that fail half way
    NoCode, NoToken, NoCaller

ASSUME ExchangeAssumption ==
    /\ CodeTtl \in Nat /\ RefreshTtl \in Nat
    /\ MaxTime \in Nat /\ MaxFailures \in Nat
    /\ Codes \cap Tokens = {}
    /\ {NoCode, NoToken} \cap (Codes \cup Tokens) = {}
    /\ CodeCaller \in [Codes -> Callers] /\ NoCaller \notin Callers

VARIABLES
    now,
    usedCodes,   \* authorization_codes with consumed_at set
    refresh,     \* refresh_tokens
    held,        \* refresh tokens some client has received
    req,         \* calls in flight
    failures,
    origin,      \* history: the code and the token a row descends from
    lost,        \* history: tokens in an answer that never arrived
    answered     \* history: tokens whose revocation their own caller was answered

vars == <<now, usedCodes, refresh, held, req, failures, origin, lost, answered>>
history == <<origin, lost, answered>>

PCs == {"idle", "readCode", "consumeCode", "readRefresh", "store",
        "consumeParent", "respond", "readRevoked", "consumeRevoked"}
Times == 0..MaxTime

Row == [status: {"none", "active", "consumed"},
        caller: Callers \cup {NoCaller},   \* client_id, tenant_id, issuer
        expires: 0..(MaxTime + RefreshTtl),
        replacedBy: Tokens \cup {NoToken}]
Origin == [code: Codes \cup {NoCode}, parent: Tokens \cup {NoToken}]
Request == [pc: PCs, caller: Callers \cup {NoCaller}, code: Codes \cup {NoCode},
            parent: Tokens \cup {NoToken}, token: Tokens \cup {NoToken}, now: Times]

Idle == [pc |-> "idle", caller |-> NoCaller, code |-> NoCode, parent |-> NoToken,
         token |-> NoToken, now |-> 0]
NoRow == [status |-> "none", caller |-> NoCaller, expires |-> 0, replacedBy |-> NoToken]

TypeOK ==
    /\ now \in Times
    /\ usedCodes \subseteq Codes
    /\ refresh \in [Tokens -> Row]
    /\ held \subseteq Tokens
    /\ req \in [Requests -> Request]
    /\ failures \in 0..MaxFailures
    /\ origin \in [Tokens -> Origin]
    /\ lost \subseteq Tokens /\ answered \subseteq Tokens

-----------------------------------------------------------------------------
Init ==
    /\ now = 0
    /\ usedCodes = {}
    /\ refresh = [t \in Tokens |-> NoRow]
    /\ held = {}
    /\ req = [r \in Requests |-> Idle]
    /\ failures = 0
    /\ origin = [t \in Tokens |-> [code |-> NoCode, parent |-> NoToken]]
    /\ lost = {} /\ answered = {}

Goto(r, pc) == req' = [req EXCEPT ![r].pc = pc]
Finish(r) == req' = [req EXCEPT ![r] = Idle]

\* findActiveByTokenHash: consumed_at IS NULL.
Active(t) == refresh[t].status = "active"

\* A random secret: no row has it, no other call in flight holds it.
Fresh(t) == refresh[t].status = "none" /\ \A q \in Requests : req[q].token # t

\* The token presented is one of the caller's.
Owns(r) == refresh[req[r].parent].caller = req[r].caller

\* A call starts, its client authenticated.
Start(r, call) ==
    /\ req[r] = Idle
    /\ req' = [req EXCEPT ![r] = call]
    /\ UNCHANGED <<now, usedCodes, refresh, held, failures, history>>
-----------------------------------------------------------------------------
(* grant_type=authorization_code *)

\* The time is taken before the first read.
Redeem(r, w, c, t) ==
    /\ Fresh(t)
    /\ Start(r, [pc |-> "readCode", caller |-> w, code |-> c, parent |-> NoToken,
                 token |-> t, now |-> now])

\* The expiry is compared with the time taken at the start.
ReadCode(r) ==
    /\ req[r].pc = "readCode"
    /\ \/ /\ req[r].code \notin usedCodes /\ req[r].now < CodeTtl
          /\ req[r].caller = CodeCaller[req[r].code]
          /\ Goto(r, "consumeCode")
       \/ Finish(r)
    /\ UNCHANGED <<now, usedCodes, refresh, held, failures, history>>

\* Bug: the UPDATE has lost its "consumed_at IS NULL".
ConsumeCodeAgain(r) ==
    /\ req[r].pc = "consumeCode"
    /\ usedCodes' = usedCodes \cup {req[r].code}
    /\ Goto(r, "store")
    /\ UNCHANGED <<now, refresh, held, failures, history>>

\* consumeById looks at consumed_at only.
ConsumeCode(r) ==
    /\ req[r].pc = "consumeCode"
    /\ IF req[r].code \notin usedCodes
       THEN usedCodes' = usedCodes \cup {req[r].code} /\ Goto(r, "store")
       ELSE Finish(r) /\ UNCHANGED usedCodes
    /\ UNCHANGED <<now, refresh, held, failures, history>>

-----------------------------------------------------------------------------
(* grant_type=refresh_token *)

Refresh(r, w, p, t) ==
    /\ p \in held /\ Fresh(t)
    /\ Start(r, [pc |-> "readRefresh", caller |-> w, code |-> NoCode, parent |-> p,
                 token |-> t, now |-> now])

\* Bug: the expiry of the row is not looked at.
ReadRefreshExpired(r) ==
    /\ req[r].pc = "readRefresh"
    /\ IF Active(req[r].parent) /\ Owns(r) THEN Goto(r, "store") ELSE Finish(r)
    /\ UNCHANGED <<now, usedCodes, refresh, held, failures, history>>

\* Bug: the row is consumed before there is a replacement.
ReadRefreshConsuming(r) ==
    /\ req[r].pc = "readRefresh"
    /\ IF Active(req[r].parent) /\ Owns(r) /\ req[r].now < refresh[req[r].parent].expires
       THEN /\ refresh' = [refresh EXCEPT ![req[r].parent].status = "consumed"]
            /\ Goto(r, "store")
       ELSE Finish(r) /\ UNCHANGED refresh
    /\ UNCHANGED <<now, usedCodes, held, failures, history>>

ReadRefresh(r) ==
    /\ req[r].pc = "readRefresh"
    /\ \/ /\ Active(req[r].parent) /\ Owns(r)
          /\ req[r].now < refresh[req[r].parent].expires
          /\ Goto(r, "store")
       \/ Finish(r)
    /\ UNCHANGED <<now, usedCodes, refresh, held, failures, history>>

\* Bugs: the consume is unconditional; it does not name the replacement.
ConsumeParentAgain(r) ==
    /\ req[r].pc = "consumeParent"
    /\ refresh' = [refresh EXCEPT ![req[r].parent].status = "consumed",
                                  ![req[r].parent].replacedBy = req[r].token]
    /\ Goto(r, "respond")
    /\ UNCHANGED <<now, usedCodes, held, failures, history>>

ConsumeParentUnlinked(r) ==
    /\ req[r].pc = "consumeParent"
    /\ IF Active(req[r].parent)
       THEN /\ refresh' = [refresh EXCEPT ![req[r].parent].status = "consumed"]
            /\ Goto(r, "respond")
       ELSE Finish(r) /\ UNCHANGED refresh
    /\ UNCHANGED <<now, usedCodes, held, failures, history>>

\* UPDATE ... WHERE consumed_at IS NULL.  The lookup of the replacement before
\* it finds the row just stored, whose secret has not left this call.
ConsumeParent(r) ==
    /\ req[r].pc = "consumeParent"
    /\ IF Active(req[r].parent)
       THEN /\ refresh' = [refresh EXCEPT ![req[r].parent].status = "consumed",
                                          ![req[r].parent].replacedBy = req[r].token]
            /\ Goto(r, "respond")
       ELSE Finish(r) /\ UNCHANGED refresh
    /\ UNCHANGED <<now, usedCodes, held, failures, history>>

-----------------------------------------------------------------------------
(* issueTokenSet, and the answer *)

OriginOf(r) ==
    [code |-> IF req[r].parent = NoToken THEN req[r].code
              ELSE origin[req[r].parent].code,
     parent |-> req[r].parent]

\* Bug: the lifetime is rounded up.
StoreRounded(r) ==
    /\ req[r].pc = "store"
    /\ refresh' = [refresh EXCEPT ![req[r].token] =
                      [status |-> "active", caller |-> req[r].caller,
                       expires |-> req[r].now + RefreshTtl + 1,
                       replacedBy |-> NoToken]]
    /\ origin' = [origin EXCEPT ![req[r].token] = OriginOf(r)]
    /\ Goto(r, IF req[r].parent = NoToken THEN "respond" ELSE "consumeParent")
    /\ UNCHANGED <<now, usedCodes, held, failures, lost, answered>>

\* issueRefreshToken: every row starts a lifetime of its own.
Store(r) ==
    /\ req[r].pc = "store"
    /\ refresh' = [refresh EXCEPT ![req[r].token] =
                      [status |-> "active", caller |-> req[r].caller,
                       expires |-> req[r].now + RefreshTtl,
                       replacedBy |-> NoToken]]
    /\ origin' = [origin EXCEPT ![req[r].token] = OriginOf(r)]
    /\ Goto(r, IF req[r].parent = NoToken THEN "respond" ELSE "consumeParent")
    /\ UNCHANGED <<now, usedCodes, held, failures, lost, answered>>

Respond(r) ==
    /\ req[r].pc = "respond"
    /\ held' = held \cup {req[r].token}
    /\ Finish(r)
    /\ UNCHANGED <<now, usedCodes, refresh, failures, history>>

-----------------------------------------------------------------------------
(* revokeToken *)

\* No expiry is compared, so the call has no time.
Revoke(r, w, p) ==
    /\ p \in held
    /\ Start(r, [pc |-> "readRevoked", caller |-> w, code |-> NoCode, parent |-> p,
                 token |-> NoToken, now |-> 0])

\* History: the caller is told that its token is revoked.
Answer(r) == answered' = IF Owns(r) THEN answered \cup {req[r].parent} ELSE answered

\* Bug: the row found is not compared with the caller.
ReadRevokedOfAnyone(r) ==
    /\ req[r].pc = "readRevoked"
    /\ IF Active(req[r].parent)
       THEN Goto(r, "consumeRevoked") /\ UNCHANGED answered
       ELSE Finish(r) /\ Answer(r)
    /\ UNCHANGED <<now, usedCodes, refresh, held, failures, origin, lost>>

\* A token without an active row, or of another client or issuer, is no access
\* token either: the answer is that it is revoked, and nothing is written.
ReadRevoked(r) ==
    /\ req[r].pc = "readRevoked"
    /\ IF Active(req[r].parent) /\ Owns(r)
       THEN Goto(r, "consumeRevoked") /\ UNCHANGED answered
       ELSE Finish(r) /\ Answer(r)
    /\ UNCHANGED <<now, usedCodes, refresh, held, failures, origin, lost>>

\* Bug: an expired row is left as it is, though a refresh may have read it.
ConsumeRevokedUnexpired(r) ==
    /\ req[r].pc = "consumeRevoked"
    /\ IF Active(req[r].parent) /\ now < refresh[req[r].parent].expires
       THEN refresh' = [refresh EXCEPT ![req[r].parent].status = "consumed"]
       ELSE UNCHANGED refresh
    /\ Answer(r)
    /\ Finish(r)
    /\ UNCHANGED <<now, usedCodes, held, failures, origin, lost>>

\* consume(id, now, null), whose result is not looked at.
ConsumeRevoked(r) ==
    /\ req[r].pc = "consumeRevoked"
    /\ refresh' = IF Active(req[r].parent)
                  THEN [refresh EXCEPT ![req[r].parent].status = "consumed"]
                  ELSE refresh
    /\ Answer(r)
    /\ Finish(r)
    /\ UNCHANGED <<now, usedCodes, held, failures, origin, lost>>

-----------------------------------------------------------------------------
(* Surroundings *)

Tick ==
    /\ now < MaxTime
    /\ now' = now + 1
    /\ UNCHANGED <<usedCodes, refresh, held, req, failures, history>>

\* Bug: an exchange that fails gives its code back for another try.
FailReopening(r) ==
    /\ req[r] # Idle
    /\ failures < MaxFailures
    /\ failures' = failures + 1
    /\ lost' = IF req[r].pc = "respond" THEN lost \cup {req[r].token} ELSE lost
    /\ usedCodes' = usedCodes \ {req[r].code}
    /\ Finish(r)
    /\ UNCHANGED <<now, refresh, held, origin, answered>>

\* The call ends where it is; nothing it did is undone.
Fail(r) ==
    /\ req[r] # Idle
    /\ failures < MaxFailures
    /\ failures' = failures + 1
    /\ lost' = IF req[r].pc = "respond" THEN lost \cup {req[r].token} ELSE lost
    /\ Finish(r)
    /\ UNCHANGED <<now, usedCodes, refresh, held, origin, answered>>

Next ==
    \/ Tick
    \/ \E r \in Requests :
         \/ \E w \in Callers, t \in Tokens :
              \/ \E c \in Codes : Redeem(r, w, c, t)
              \/ \E p \in Tokens : Refresh(r, w, p, t)
              \/ Revoke(r, w, t)
         \/ ReadCode(r) \/ ConsumeCode(r)
         \/ ReadRefresh(r) \/ Store(r) \/ ConsumeParent(r)
         \/ Respond(r)
         \/ ReadRevoked(r) \/ ConsumeRevoked(r)
         \/ Fail(r)

Spec == Init /\ [][Next]_vars

-----------------------------------------------------------------------------
(* Properties. *)

InAnswer(t) == \E r \in Requests : req[r].pc = "respond" /\ req[r].token = t

\* The usable tokens of a sign-in: active, and received or about to be.
Live(c) == {t \in Tokens : /\ Active(t) /\ origin[t].code = c
                           /\ t \in held \/ InAnswer(t)}

\* However redemptions of a code and refreshes of its tokens race, one sign-in
\* never has two usable refresh tokens: neither consumeById nor the consume of
\* the parent has two winners, and a loser's replacement stays unknown.
LineIsLinear == \A c \in Codes : \A s, t \in Live(c) : s = t

\* A client that once got a refresh token keeps a usable one (expiry apart)
\* until it asks for a revocation itself or an answer is lost on its way.  A
\* refresh that fails before the consume of the parent row, or loses that race,
\* costs nothing: issueTokenSet comes first.  Nor does anything another client,
\* or the same client at another issuer, does with the token.
LineSurvives ==
    \A c \in Codes :
        (\E t \in held : origin[t].code = c) =>
            \/ Live(c) # {}
            \/ \E t \in lost \cup answered : origin[t].code = c

\* consume(id, now, replacement.id): the chain in the rows is the real one.  A
\* refresh token that left the server replaced exactly the row it was made
\* from, and no row names a replacement that was never made from it.
RotationIsRecorded ==
    \A t \in Tokens :
        /\ (t \in held \/ InAnswer(t)) /\ origin[t].parent # NoToken =>
             /\ refresh[origin[t].parent].status = "consumed"
             /\ refresh[origin[t].parent].replacedBy = t
        /\ refresh[t].replacedBy # NoToken => origin[refresh[t].replacedBy].parent = t

\* No row is made by a call that came after the expiry of what it presented,
\* although neither consume statement looks at the expiry again.
GrantedInTime ==
    \A t \in Tokens : refresh[t].status # "none" =>
        IF origin[t].parent = NoToken THEN refresh[t].expires < CodeTtl + RefreshTtl
        ELSE refresh[t].expires < refresh[origin[t].parent].expires + RefreshTtl

\* Once a revocation is answered to the client the token was issued to, at its
\* issuer, the token is consumed, whether the call consumed it, lost that race
\* to a rotation or found it consumed.  Another caller gets the same answer for
\* a token that stays usable.
RevokedIsConsumed == \A t \in answered : refresh[t].status = "consumed"

\* A rotated token expires when the one it replaces would have.
AbsoluteLifetime ==
    \A t \in held : origin[t].parent # NoToken =>
        refresh[t].expires = refresh[origin[t].parent].expires

\* Codes and refresh tokens are one-time artifacts whose result is a token.
ClaimedBy(r, a) == \/ req[r].code = a /\ req[r].pc \in {"store", "respond"}
                   \/ req[r].parent = a /\ req[r].pc = "respond"
Spent(a) == IF a \in Codes THEN a \in usedCodes ELSE refresh[a].status = "consumed"
Yields(a) == {t \in held : IF a \in Codes THEN origin[t] = [code |-> a, parent |-> NoToken]
                           ELSE origin[t].parent = a}

ArtifactStatus == [a \in Codes \cup Tokens |->
    IF ~Spent(a) THEN "open"
    ELSE IF \E r \in Requests : ClaimedBy(r, a) THEN "claimed" ELSE "settled"]
ArtifactYields == [a \in Codes \cup Tokens |-> Cardinality(Yields(a))]

Artifact == INSTANCE OneTimeArtifact
    WITH Artifacts <- Codes \cup Tokens, status <- ArtifactStatus, yielded <- ArtifactYields

\* The endpoint implements the one-time artifact for both.
IsOneTimeArtifact == Artifact!Spec
=============================================================================
