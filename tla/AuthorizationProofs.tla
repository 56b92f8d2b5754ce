-------------------------- MODULE AuthorizationProofs --------------------------
(***************************************************************************)
(* Theorems about Authorization, for any number of clients, users, scopes, *)
(* consent pages, codes and requests, and any lifetimes and bounds.        *)
(***************************************************************************)
EXTENDS Authorization, TLAPS, FiniteSetTheorems

-----------------------------------------------------------------------------
(* What a request carries depends on where it is. *)

Deciding == {"validate", "consent", "code", "consume"}
Exchanging == {"findCode", "consumeCode", "findRefresh", "mint"}
Scoping == {"verify", "hook", "mintScope"}

RowKnown(x) == x = Unused \/ x.grant \in Grant

RequestKnown(q) ==
    /\ q \in Request
    /\ q.pc # "idle" => q.grant \in Grant
    /\ q.pc \in Deciding => q.code \in Codes /\ q.consent \in Consents
    /\ q.pc \in {"findCode", "consumeCode"} => q.code \in Codes /\ code[q.code] # Unused
    /\ q.pc = "validate" => q.approve
    /\ q.pc \in Scoping => /\ q.token \in issued /\ q.grant = q.token.grant
                           /\ q.kind \in {"workspace", "reader"}
                           /\ q.kind = "reader" => q.lease \in Leases

Typed ==
    /\ TypeOK
    /\ \A n \in Consents : RowKnown(consent[n])
    /\ \A k \in Codes : RowKnown(code[k])
    /\ \A r \in Requests : RequestKnown(req[r])

-----------------------------------------------------------------------------
(* A grant of the managed resource was within the ceiling when it was      *)
(* validated, and every row, request and token carries it unchanged.       *)

Within(g) == g.resource # None => g.scope \in ManagedScopes \cap Allowed[g.client]

Bounded ==
    /\ \A n \in Consents : consent[n] # Unused => Within(consent[n].grant)
    /\ \A k \in Codes : code[k] # Unused => Within(code[k].grant)
    /\ \A g \in grants : Within(g)
    /\ \A t \in issued : Within(t.grant)
    /\ \A r \in Requests : req[r].pc # "idle" => Within(req[r].grant)

(* The resource of a grant that is about to be minted is the audience the  *)
(* client had when it was authenticated.                                   *)

HeldBy(q) ==
    /\ q.pc \in Exchanging => q.audience \in q.seen
    /\ q.pc \in {"consumeCode", "mint"} => q.grant.resource \in {None, q.audience}

Held == ResourceHeld /\ \A r \in Requests : HeldBy(req[r])

(* A scoped token being made keeps to its subject, and its subject to a    *)
(* token of a login.                                                       *)

AudienceOf(q) == IF q.audience = None THEN q.grant.client ELSE q.audience

DerivesFrom(q) ==
    /\ q.pc \in {"hook", "mintScope"} =>
         q.token.audience = AudienceOf(q) /\ q.token.kind # "reader"
    /\ q.pc = "mintScope" \/ (q.pc = "hook" /\ q.kind = "reader") =>
         /\ q.expires <= q.token.expires
         /\ q.kind = "reader" => q.expires <= q.lease

Derived ==
    /\ ScopedWithinSubject
    /\ \A t \in issued : t.grant.resource # None => t.audience = t.grant.resource
    /\ \A r \in Requests : DerivesFrom(req[r])

-----------------------------------------------------------------------------
(* A code that is being made is in no row and in no other request; so is a *)
(* consent page.                                                           *)

Owned ==
    \A r \in Requests :
        /\ req[r].pc \in Deciding =>
             /\ code[req[r].code] = Unused
             /\ \A s \in Requests \ {r} : req[s].code # req[r].code
        /\ req[r].pc = "consent" =>
             /\ consent[req[r].consent] = Unused
             /\ \A s \in Requests \ {r} : req[s].consent # req[r].consent

(* A request that goes on with an approval is the only one that consumed   *)
(* the page, and the page has no code yet.                                 *)

Approving(q) == q.approve /\ q.pc \in {"validate", "code"}

ApprovedBy(q) ==
    /\ Approving(q) \/ q.pc = "consume" => q.grant = consent[q.consent].grant
    /\ Approving(q) =>
         /\ consent[q.consent].consumed
         /\ decision[q.consent] = "approved"
         /\ \A k \in Codes : code[k].consent # q.consent
    /\ q.pc = "code" /\ ~q.approve => registration[q.grant.client].auto

Alone(p, q) == Approving(p) /\ Approving(q) => p.consent # q.consent

Decided ==
    /\ DecisionIsFinal
    /\ \A k \in Codes, n \in Consents : code[k].consent = n => consent[n].consumed
    /\ \A r \in Requests : ApprovedBy(req[r])
    /\ \A r, s \in Requests : r # s => Alone(req[r], req[s])

-----------------------------------------------------------------------------
(* The records a request becomes *)

\* The request goes on with what it carries.
Same(p, q) ==
    /\ q.grant = p.grant /\ q.consent = p.consent /\ q.code = p.code
    /\ q.approve = p.approve /\ q.audience = p.audience /\ q.token = p.token
    /\ q.kind = p.kind /\ q.lease = p.lease /\ q.seen = p.seen

Expiries == 0..MaxExpiry
Expiring(p, pc, e) == [p EXCEPT !.pc = pc, !.expires = e]
Authorizing(g, k, n, pc) ==
    [Idle EXCEPT !.pc = pc, !.grant = g, !.code = k, !.consent = n]
Posting(g, k, n, approve) ==
    [Idle EXCEPT !.pc = "consume", !.consent = n, !.code = k,
                 !.approve = approve, !.grant = g]

LEMMA ConstantsTyped ==
    /\ CodeTtl \in Nat \ {0} /\ ConsentTtl \in Nat \ {0}
    /\ TokenTtl \in Nat \ {0} /\ ReaderTtl \in Nat \ {0}
    /\ MaxTime \in Nat /\ MaxTokens \in Nat /\ MaxPatches \in Nat
    /\ MaxExpiry \in Nat
    /\ \A t \in Times : /\ t \in Nat
                        /\ t + CodeTtl \in 0..MaxExpiry /\ t + ConsentTtl \in 0..MaxExpiry
                        /\ t + TokenTtl \in 0..MaxExpiry /\ t + ReaderTtl \in 0..MaxExpiry
    /\ \A l \in Leases : l \in 0..MaxExpiry
    /\ None \notin Codes /\ None \notin Consents
<1>1. /\ CodeTtl \in Nat \ {0} /\ ConsentTtl \in Nat \ {0}
      /\ TokenTtl \in Nat \ {0} /\ ReaderTtl \in Nat \ {0}
      /\ MaxTime \in Nat /\ MaxTokens \in Nat /\ MaxPatches \in Nat
  BY AuthorizationAssumption
<1>2. None \notin Codes /\ None \notin Consents
  BY AuthorizationAssumption
<1> QED BY <1>1, <1>2 DEF MaxExpiry, Times, Leases

LEMMA IdleFields ==
    /\ Idle \in Request /\ Idle.pc = "idle" /\ Idle.grant = None /\ Idle.consent = None
    /\ Idle.code = None /\ ~Idle.approve /\ Idle.seen = {}
BY ConstantsTyped DEF Idle, Request, PCs, Kinds, Resources

LEMMA IdleKnown ==
    /\ RequestKnown(Idle)' /\ HeldBy(Idle) /\ DerivesFrom(Idle)
BY IdleFields DEF RequestKnown, HeldBy, DerivesFrom, Deciding, Exchanging, Scoping

LEMMA GotoFields ==
    ASSUME NEW p \in Request, NEW pc \in PCs,
           NEW q, q = [p EXCEPT !.pc = pc]
    PROVE  q \in Request /\ Same(p, q) /\ q.pc = pc /\ q.expires = p.expires
BY DEF Request, Same

LEMMA ExpiryFields ==
    ASSUME NEW p \in Request, NEW pc \in PCs, NEW e \in Expiries,
           NEW q, q = Expiring(p, pc, e)
    PROVE  q \in Request /\ Same(p, q) /\ q.pc = pc /\ q.expires = e
BY DEF Request, Same, Expiring, Expiries

LEMMA SeenFields ==
    ASSUME NEW p \in Request, NEW a \in Resources,
           NEW q, q = [p EXCEPT !.seen = p.seen \cup {a}]
    PROVE  /\ q \in Request /\ q.pc = p.pc /\ q.expires = p.expires
           /\ q.grant = p.grant /\ q.consent = p.consent /\ q.code = p.code
           /\ q.approve = p.approve /\ q.audience = p.audience /\ q.token = p.token
           /\ q.kind = p.kind /\ q.lease = p.lease /\ q.seen = p.seen \cup {a}
BY DEF Request

LEMMA AuthorizeFields ==
    ASSUME NEW g \in Grant, NEW k \in Codes, NEW n \in Consents, NEW pc \in PCs,
           NEW q, q = Authorizing(g, k, n, pc)
    PROVE  q \in Request /\ q.pc = pc /\ q.grant = g /\ q.code = k /\ q.consent = n
           /\ ~q.approve
BY IdleFields DEF Idle, Request, Authorizing

LEMMA DecideFields ==
    ASSUME NEW g \in Grant, NEW k \in Codes, NEW n \in Consents, NEW approve \in BOOLEAN,
           NEW q, q = Posting(g, k, n, approve)
    PROVE  q \in Request /\ q.pc = "consume" /\ q.grant = g /\ q.code = k
           /\ q.consent = n
BY IdleFields DEF Idle, Request, PCs, Posting

LEMMA AuthenticateFields ==
    ASSUME Typed, NEW g \in Grant, NEW k \in Codes \cup {None},
           NEW q, q = Authenticate(g, k)
    PROVE  /\ q \in Request /\ q.grant = g /\ q.code = k /\ q.consent = None
           /\ q.pc = IF k = None THEN "findRefresh" ELSE "findCode"
           /\ ~q.approve
           /\ q.audience = registration[g.client].audience /\ q.seen = {q.audience}
<1>1. PICK a \in Resources : a = registration[g.client].audience
  BY DEF Typed, TypeOK, Registration, Grant
<1>2. PICK pc \in PCs : pc = IF k = None THEN "findRefresh" ELSE "findCode"
  BY DEF PCs
<1>3. q = [Idle EXCEPT !.pc = pc, !.grant = g, !.code = k,
             !.audience = a, !.seen = {a}]
  BY <1>1, <1>2 DEF Authenticate
<1>4. PICK p : p = [Idle EXCEPT !.pc = pc, !.grant = g, !.code = k,
                                !.audience = a, !.seen = {a}]
  OBVIOUS
<1>5. /\ p \in Request /\ p.grant = g /\ p.code = k /\ p.consent = None
      /\ p.pc = pc /\ ~p.approve /\ p.audience = a /\ p.seen = {a}
  BY <1>4, IdleFields DEF Idle, Request
<1> QED BY <1>1, <1>2, <1>3, <1>4, <1>5

LEMMA ScopeFields ==
    ASSUME Typed, NEW t \in issued, NEW kind \in Kinds, NEW lease \in Leases \cup {None},
           NEW q, q = AuthenticateScope(t, kind, lease)
    PROVE  /\ q \in Request /\ q.pc = "verify" /\ q.token = t /\ q.grant = t.grant
           /\ q.kind = kind /\ q.lease = lease /\ q.code = None /\ q.consent = None
           /\ ~q.approve
           /\ t.grant \in Grant
<1>1. t \in Token /\ t.grant \in Grant
  BY DEF Typed, TypeOK, Token
<1>2. PICK a \in Resources : a = registration[t.grant.client].audience
  BY <1>1 DEF Typed, TypeOK, Registration, Grant
<1>3. q = [Idle EXCEPT !.pc = "verify", !.token = t, !.grant = t.grant,
             !.kind = kind, !.lease = lease, !.audience = a]
  BY <1>2 DEF AuthenticateScope
<1>4. PICK p : p = [Idle EXCEPT !.pc = "verify", !.token = t, !.grant = t.grant,
                                !.kind = kind, !.lease = lease, !.audience = a]
  OBVIOUS
<1>5. /\ p \in Request /\ p.pc = "verify" /\ p.token = t /\ p.grant = t.grant
      /\ p.kind = kind /\ p.lease = lease /\ p.code = None /\ p.consent = None
      /\ ~p.approve
  BY <1>1, <1>4, IdleFields DEF Idle, Request, PCs
<1> QED BY <1>1, <1>3, <1>4, <1>5

LEMMA RowFields ==
    ASSUME NEW g \in Grant, NEW n \in Consents \cup {None}, NEW e \in 1..MaxExpiry,
           NEW y, y = NewRow(g, n, e)
    PROVE  /\ y \in Row /\ y.grant = g /\ y.consent = n /\ ~y.consumed
           /\ y.expires = e /\ y # Unused
<1>1. e \in 0..MaxExpiry /\ e # 0
  BY ConstantsTyped
<1>2. y \in Row /\ y.grant = g /\ y.consent = n /\ ~y.consumed /\ y.expires = e
  BY <1>1 DEF NewRow, Row
<1>3. Unused.expires = 0
  BY DEF Unused
<1> QED BY <1>1, <1>2, <1>3

LEMMA UnusedFields ==
    Unused \in Row /\ ~Unused.consumed /\ Unused.consent = None
BY ConstantsTyped DEF Unused, Row

LEMMA ConsumedFields ==
    ASSUME NEW x \in Row, NEW y, y = [x EXCEPT !.consumed = TRUE]
    PROVE  /\ y \in Row /\ y.grant = x.grant /\ y.consent = x.consent
           /\ y.expires = x.expires /\ y.consumed /\ y # Unused
BY UnusedFields DEF Row

-----------------------------------------------------------------------------
(* What each step makes of its request *)

Acts(r) ==
    \/ Step(r)
    \/ \E g \in Grant, k \in Codes, n \in Consents : StartAuthorize(r, g, k, n)
    \/ \E n \in Consents, u \in Users, k \in Codes : \E approve \in BOOLEAN :
           StartDecide(r, n, u, approve, k)
    \/ \E k \in Codes : StartExchange(r, k)
    \/ \E g \in grants : StartRefresh(r, g)
    \/ \E t \in issued : \/ StartScope(r, t, "workspace", None)
                         \/ \E lease \in Leases : StartScope(r, t, "reader", lease)

Becomes(r, q) == q \in Request /\ req' = [req EXCEPT ![r] = q]

\* A request that has just begun.
Begins(q) ==
    \/ /\ q.pc \in {"code", "consent"} /\ q.grant \in Grant /\ ~q.approve
       /\ q.code \in Codes /\ q.consent \in Consents
       /\ FreshCode(q.code) /\ FreshConsent(q.consent) /\ Validated(q.grant)
       /\ q.pc = "code" => registration[q.grant.client].auto
    \/ /\ q.pc = "consume" /\ q.code \in Codes /\ FreshCode(q.code)
       /\ q.consent \in Consents /\ consent[q.consent] # Unused
       /\ q.grant = consent[q.consent].grant
    \/ /\ q.pc \in {"findCode", "findRefresh"} /\ q.seen = {q.audience} /\ ~q.approve
       /\ q.consent = None
       /\ \/ /\ q.code \in Codes /\ code[q.code] # Unused
             /\ q.grant = code[q.code].grant
          \/ q.pc = "findRefresh" /\ q.code = None /\ q.grant \in grants
    \/ /\ q.pc = "verify" /\ q.token \in issued /\ q.grant = q.token.grant
       /\ q.code = None /\ q.consent = None /\ ~q.approve
       /\ \/ q.kind = "workspace"
          \/ q.kind = "reader" /\ q.lease \in Leases

\* A request that goes on.
GoesOn(p, q) ==
    /\ Same(p, q)
    /\ \/ p.pc = "validate" /\ q.pc = "code"
       \/ p.pc = "consume" /\ q.pc = "validate" /\ p.approve
       \/ /\ p.pc = "findCode" /\ q.pc = "consumeCode"
          /\ p.grant.resource \in {None, p.audience}
       \/ p.pc = "consumeCode" /\ q.pc = "mint"
       \/ /\ p.pc = "findRefresh" /\ q.pc = "mint"
          /\ p.grant.resource \in {None, p.audience}
       \/ /\ p.pc = "verify" /\ q.pc = "hook"
          /\ p.token.audience = AudienceOf(p) /\ p.token.kind # "reader"
          /\ p.kind = "reader" => q.expires = ReaderExpiry(p.token, p.lease)
       \/ /\ p.pc = "hook" /\ q.pc = "mintScope"
          /\ q.expires = IF p.kind = "reader" THEN p.expires ELSE p.token.expires

Moves(r, q) == q = Idle \/ (req[r] = Idle /\ Begins(q)) \/ GoesOn(req[r], q)

LEMMA Known ==
    ASSUME Typed, NEW r \in Requests
    PROVE  req[r] \in Request /\ RequestKnown(req[r])
BY DEF Typed, TypeOK

LEMMA GotoMoves ==
    ASSUME Typed, NEW r \in Requests, NEW pc \in PCs, Goto(r, pc)
    PROVE  \E q : /\ Becomes(r, q) /\ Same(req[r], q) /\ q.pc = pc
                  /\ q.expires = req[r].expires
<1>1. PICK q : q = [req[r] EXCEPT !.pc = pc]
  OBVIOUS
<1>2. q \in Request /\ Same(req[r], q) /\ q.pc = pc /\ q.expires = req[r].expires
  BY <1>1, Known, GotoFields
<1>3. req' = [req EXCEPT ![r] = q]
  BY <1>1 DEF Goto, Typed, TypeOK
<1> QED BY <1>2, <1>3 DEF Becomes

GotoAt(r, pc, e) == req' = [req EXCEPT ![r].pc = pc, ![r].expires = e]

LEMMA ExpiryMoves ==
    ASSUME Typed, NEW r \in Requests, NEW pc \in PCs, NEW e \in Expiries,
           GotoAt(r, pc, e)
    PROVE  \E q : Becomes(r, q) /\ Same(req[r], q) /\ q.pc = pc /\ q.expires = e
<1>1. PICK q : q = Expiring(req[r], pc, e)
  OBVIOUS
<1>2. q \in Request /\ Same(req[r], q) /\ q.pc = pc /\ q.expires = e
  BY <1>1, Known, ExpiryFields
<1>3. req' = [req EXCEPT ![r] = q]
  BY <1>1 DEF GotoAt, Expiring, Typed, TypeOK
<1> QED BY <1>2, <1>3 DEF Becomes

LEMMA FinishMoves ==
    ASSUME NEW r \in Requests, Finish(r)
    PROVE  Becomes(r, Idle) /\ Moves(r, Idle)
BY IdleFields DEF Finish, Becomes, Moves

LEMMA StartMoves ==
    ASSUME NEW r \in Requests, NEW q \in Request, Start(r, q), Begins(q)
    PROVE  Becomes(r, q) /\ Moves(r, q)
BY DEF Start, Becomes, Moves

LEMMA ReaderExpiryBounded ==
    ASSUME Typed, NEW t \in Token, NEW lease \in Leases
    PROVE  /\ ReaderExpiry(t, lease) \in 0..MaxExpiry
           /\ ReaderExpiry(t, lease) <= t.expires /\ ReaderExpiry(t, lease) <= lease
<1>1. t.expires \in 0..MaxExpiry /\ lease \in 0..MaxExpiry /\ now + ReaderTtl \in 0..MaxExpiry
  BY ConstantsTyped DEF Token, Typed, TypeOK
<1> QED BY <1>1, ConstantsTyped DEF ReaderExpiry, MinOf

LEMMA BeginsStep ==
    ASSUME Typed, NEW r \in Requests, Acts(r), ~Step(r)
    PROVE  \E q : Becomes(r, q) /\ Moves(r, q)
<1>1. CASE \E g \in Grant, k \in Codes, n \in Consents : StartAuthorize(r, g, k, n)
  <2>1. PICK g \in Grant, k \in Codes, n \in Consents : StartAuthorize(r, g, k, n)
    BY <1>1
  <2>2. PICK pc \in {"code", "consent"} :
            pc = IF registration[g.client].auto THEN "code" ELSE "consent"
    OBVIOUS
  <2>3. PICK q : q = Authorizing(g, k, n, pc)
    OBVIOUS
  <2>4. q \in Request /\ q.pc = pc /\ q.grant = g /\ q.code = k /\ q.consent = n
        /\ ~q.approve
    BY <2>3, AuthorizeFields DEF PCs
  <2>5. Start(r, q) /\ FreshCode(k) /\ FreshConsent(n) /\ Validated(g)
    BY <2>1, <2>2, <2>3 DEF StartAuthorize, Authorizing
  <2>6. Begins(q)
    BY <2>2, <2>4, <2>5 DEF Begins
  <2> QED BY <2>4, <2>5, <2>6, StartMoves
<1>2. CASE \E n \in Consents, u \in Users, k \in Codes : \E approve \in BOOLEAN :
               StartDecide(r, n, u, approve, k)
  <2>1. PICK n \in Consents, u \in Users, k \in Codes, approve \in BOOLEAN :
            StartDecide(r, n, u, approve, k)
    BY <1>2
  <2>2. PICK g : g = consent[n].grant
    OBVIOUS
  <2>3. FreshCode(k) /\ consent[n] # Unused /\ g \in Grant
    BY <2>1, <2>2 DEF StartDecide, FindConsent, Active, Typed, RowKnown
  <2>4. PICK q : q = Posting(g, k, n, approve)
    OBVIOUS
  <2>5. q \in Request /\ q.pc = "consume" /\ q.grant = g /\ q.code = k /\ q.consent = n
    BY <2>3, <2>4, DecideFields
  <2>6. Start(r, q)
    BY <2>1, <2>2, <2>4 DEF StartDecide, Posting
  <2>7. Begins(q)
    BY <2>2, <2>3, <2>5 DEF Begins
  <2> QED BY <2>5, <2>6, <2>7, StartMoves
<1>3. CASE \E k \in Codes : StartExchange(r, k)
  <2>1. PICK k \in Codes : StartExchange(r, k)
    BY <1>3
  <2>2. code[k] # Unused /\ code[k].grant \in Grant /\ k # None
    BY <2>1, ConstantsTyped DEF StartExchange, Typed, RowKnown
  <2>3. PICK q : q = Authenticate(code[k].grant, k)
    OBVIOUS
  <2>4. q \in Request /\ q.grant = code[k].grant /\ q.code = k /\ q.pc = "findCode"
        /\ ~q.approve /\ q.consent = None /\ q.seen = {q.audience}
    BY <2>2, <2>3, AuthenticateFields
  <2>5. Start(r, q)
    BY <2>1, <2>3 DEF StartExchange
  <2>6. Begins(q)
    BY <2>2, <2>4 DEF Begins
  <2> QED BY <2>4, <2>5, <2>6, StartMoves
<1>4. CASE \E g \in grants : StartRefresh(r, g)
  <2>1. PICK g \in grants : StartRefresh(r, g)
    BY <1>4
  <2>2. g \in Grant
    BY DEF Typed, TypeOK
  <2>3. PICK q : q = Authenticate(g, None)
    OBVIOUS
  <2>4. q \in Request /\ q.grant = g /\ q.code = None /\ q.pc = "findRefresh"
        /\ ~q.approve /\ q.consent = None /\ q.seen = {q.audience}
    BY <2>2, <2>3, AuthenticateFields
  <2>5. Start(r, q)
    BY <2>1, <2>3 DEF StartRefresh
  <2>6. Begins(q)
    BY <2>4 DEF Begins
  <2> QED BY <2>4, <2>5, <2>6, StartMoves
<1>5. ASSUME NEW t \in issued, NEW kind \in {"workspace", "reader"},
             NEW lease \in Leases \cup {None}, kind = "reader" => lease \in Leases,
             StartScope(r, t, kind, lease)
      PROVE  \E q : Becomes(r, q) /\ Moves(r, q)
  <2>1. PICK q : q = AuthenticateScope(t, kind, lease)
    OBVIOUS
  <2>2. kind \in Kinds
    BY DEF Kinds
  <2>3. q \in Request /\ q.pc = "verify" /\ q.token = t /\ q.grant = t.grant
        /\ q.kind = kind /\ q.lease = lease /\ q.code = None /\ q.consent = None
        /\ ~q.approve
    BY <2>1, <2>2, ScopeFields
  <2>4. Start(r, q)
    BY <1>5, <2>1 DEF StartScope
  <2>5. Begins(q)
    BY <1>5, <2>3 DEF Begins
  <2> QED BY <2>3, <2>4, <2>5, StartMoves
<1> QED BY <1>1, <1>2, <1>3, <1>4, <1>5 DEF Acts

LEMMA GoesOnStep ==
    ASSUME Typed, NEW r \in Requests, Step(r)
    PROVE  \E q : Becomes(r, q) /\ Moves(r, q)
<1>F. ASSUME Finish(r) PROVE \E q : Becomes(r, q) /\ Moves(r, q)
  BY <1>F, FinishMoves
<1>N. now \in Times
  BY DEF Typed, TypeOK
<1>1. CASE Validate(r)
  <2>1. CASE Goto(r, "code")
    BY <1>1, <2>1, GotoMoves DEF Validate, Moves, GoesOn, PCs
  <2> QED BY <1>1, <1>F, <2>1 DEF Validate, GotoIf
<1>2. CASE CreateConsent(r) \/ CreateCode(r) \/ Mint(r) \/ MintScope(r) \/ Fail(r)
  BY <1>2, <1>F DEF CreateConsent, CreateCode, Mint, MintScope, Fail
<1>3. CASE ConsumeConsent(r)
  <2>1. CASE req[r].approve /\ Goto(r, "validate")
    BY <1>3, <2>1, GotoMoves DEF ConsumeConsent, Moves, GoesOn, PCs
  <2> QED BY <1>3, <1>F, <2>1 DEF ConsumeConsent, GotoIf
<1>4. CASE FindCode(r)
  <2>1. CASE StillRegistered(r) /\ GotoAt(r, "consumeCode", now + TokenTtl)
    <3>1. now + TokenTtl \in Expiries /\ "consumeCode" \in PCs
      BY <1>N, ConstantsTyped DEF PCs, Expiries
    <3>2. PICK q : Becomes(r, q) /\ Same(req[r], q) /\ q.pc = "consumeCode"
      BY <2>1, <3>1, ExpiryMoves
    <3> QED BY <1>4, <2>1, <3>2 DEF FindCode, Moves, GoesOn, StillRegistered
  <2> QED BY <1>4, <1>F, <2>1 DEF FindCode, GotoAt
<1>5. CASE ConsumeCode(r)
  <2>1. CASE Goto(r, "mint")
    BY <1>5, <2>1, GotoMoves DEF ConsumeCode, Moves, GoesOn, PCs
  <2> QED BY <1>5, <1>F, <2>1 DEF ConsumeCode, GotoIf
<1>6. CASE FindRefresh(r)
  <2>1. CASE StillRegistered(r) /\ GotoAt(r, "mint", now + TokenTtl)
    <3>1. now + TokenTtl \in Expiries /\ "mint" \in PCs
      BY <1>N, ConstantsTyped DEF PCs, Expiries
    <3>2. PICK q : Becomes(r, q) /\ Same(req[r], q) /\ q.pc = "mint"
      BY <2>1, <3>1, ExpiryMoves
    <3> QED BY <1>6, <2>1, <3>2 DEF FindRefresh, Moves, GoesOn, StillRegistered
  <2> QED BY <1>6, <1>F, <2>1 DEF FindRefresh, GotoAt
<1>7. CASE VerifySubject(r)
  <2>1. PICK t \in Token : t = req[r].token
    BY <1>7, Known DEF VerifySubject, RequestKnown, Scoping, Typed, TypeOK
  <2>2. PICK e : e = IF req[r].kind = "reader" THEN ReaderExpiry(t, req[r].lease) ELSE 0
    OBVIOUS
  <2>3. CASE /\ t.audience = DefaultAudience(r) /\ t.kind # "reader"
             /\ GotoAt(r, "hook", e)
    <3>1. e \in Expiries
      <4>1. CASE req[r].kind = "reader"
        <5>1. req[r].lease \in Leases
          BY <1>7, <4>1, Known DEF VerifySubject, RequestKnown, Scoping
        <5> QED BY <2>2, <4>1, <5>1, ReaderExpiryBounded DEF Expiries
      <4>2. CASE req[r].kind # "reader"
        BY <2>2, <4>2, ConstantsTyped DEF Expiries
      <4> QED BY <4>1, <4>2
    <3>2. PICK q : Becomes(r, q) /\ Same(req[r], q) /\ q.pc = "hook" /\ q.expires = e
      BY <2>3, <3>1, ExpiryMoves DEF PCs
    <3>3. GoesOn(req[r], q)
      BY <1>7, <2>1, <2>2, <2>3, <3>2 DEF VerifySubject, GoesOn, DefaultAudience, AudienceOf
    <3> QED BY <3>2, <3>3 DEF Moves
  <2>4. CASE Finish(r)
    BY <1>F, <2>4
  <2> QED BY <1>7, <2>1, <2>2, <2>3, <2>4 DEF VerifySubject, GotoAt
<1>8. CASE HookAnswers(r)
  <2>1. "mintScope" \in PCs
    BY DEF PCs
  <2>2. CASE req[r].kind = "reader" /\ Goto(r, "mintScope")
    <3>1. PICK q : /\ Becomes(r, q) /\ Same(req[r], q) /\ q.pc = "mintScope"
                   /\ q.expires = req[r].expires
      BY <2>1, <2>2, GotoMoves
    <3> QED BY <1>8, <2>2, <3>1 DEF HookAnswers, Moves, GoesOn
  <2>3. CASE req[r].kind # "reader" /\ GotoAt(r, "mintScope", req[r].token.expires)
    <3>1. PICK e \in Expiries : e = req[r].token.expires
      BY <1>8, Known DEF Expiries, HookAnswers, RequestKnown, Scoping, Typed, TypeOK, Token
    <3>2. PICK q : /\ Becomes(r, q) /\ Same(req[r], q) /\ q.pc = "mintScope"
                   /\ q.expires = e
      BY <2>1, <2>3, <3>1, ExpiryMoves
    <3> QED BY <1>8, <2>3, <3>1, <3>2 DEF HookAnswers, Moves, GoesOn
  <2> QED BY <1>8, <1>F, <2>2, <2>3 DEF HookAnswers, GotoAt
<1> QED BY <1>1, <1>2, <1>3, <1>4, <1>5, <1>6, <1>7, <1>8 DEF Step

LEMMA MovesStep ==
    ASSUME Typed, NEW r \in Requests, Acts(r)
    PROVE  \E q : Becomes(r, q) /\ Moves(r, q)
BY BeginsStep, GoesOnStep

-----------------------------------------------------------------------------
(* What each step writes *)

CodeMoves(r) ==
    \/ UNCHANGED code
    \/ /\ req[r].pc = "code"
       /\ \E e \in 1..MaxExpiry :
             code' = [code EXCEPT ![req[r].code] =
                         NewRow(req[r].grant,
                                IF req[r].approve THEN req[r].consent ELSE None, e)]
    \/ /\ req[r].pc = "consumeCode"
       /\ code' = [code EXCEPT ![req[r].code].consumed = TRUE]

ConsentMoves(r) ==
    \/ UNCHANGED <<consent, decision>>
    \/ /\ req[r].pc = "consent" /\ UNCHANGED decision
       /\ \E e \in 1..MaxExpiry :
             consent' = [consent EXCEPT ![req[r].consent] = NewRow(req[r].grant, None, e)]
    \/ /\ req[r].pc = "consume" /\ Active(consent[req[r].consent])
       /\ consent' = [consent EXCEPT ![req[r].consent].consumed = TRUE]
       /\ decision' = [decision EXCEPT ![req[r].consent] =
                          IF req[r].approve THEN "approved" ELSE "denied"]

MintedBy(q) ==
    [kind |-> "login", grant |-> q.grant,
     audience |-> IF q.grant.resource # None THEN q.grant.resource ELSE AudienceOf(q),
     expires |-> q.expires, lease |-> None,
     held |-> q.grant.resource = None \/ q.grant.resource \in q.seen]
ScopedBy(q) ==
    [kind |-> q.kind, grant |-> q.grant, audience |-> AudienceOf(q),
     expires |-> q.expires, lease |-> q.lease, held |-> TRUE]

IssuedMoves(r) ==
    \/ UNCHANGED <<grants, issued>>
    \/ /\ req[r].pc = "mint" /\ issued' = issued \cup {MintedBy(req[r])}
       /\ grants' = grants \cup {req[r].grant}
    \/ /\ req[r].pc = "mintScope" /\ issued' = issued \cup {ScopedBy(req[r])}
       /\ UNCHANGED grants

Writes(r) ==
    /\ CodeMoves(r) /\ ConsentMoves(r) /\ IssuedMoves(r)
    /\ UNCHANGED <<now, registration, patches>>

\* The consume decides the page and the request together.
ConsumesOnce(r, q) ==
    req[r].pc = "consume" /\ q # Idle =>
        /\ Active(consent[req[r].consent])
        /\ consent' = [consent EXCEPT ![req[r].consent].consumed = TRUE]
        /\ decision' = [decision EXCEPT ![req[r].consent] =
                           IF req[r].approve THEN "approved" ELSE "denied"]

LEMMA WritesStep ==
    ASSUME Typed, NEW r \in Requests, Acts(r)
    PROVE  Writes(r)
<1>R. ASSUME Reads PROVE Writes(r)
  BY <1>R DEF Reads, store, Writes, CodeMoves, ConsentMoves, IssuedMoves
<1>E. /\ now + CodeTtl \in 1..MaxExpiry /\ now + ConsentTtl \in 1..MaxExpiry
  BY ConstantsTyped DEF Typed, TypeOK, Times
<1>1. CASE ~Step(r)
  BY <1>1, <1>R DEF Acts, StartAuthorize, StartDecide, StartExchange, StartRefresh,
     StartScope, Start
<1>2. CASE Validate(r) \/ FindCode(r) \/ FindRefresh(r) \/ VerifySubject(r)
           \/ HookAnswers(r) \/ Fail(r)
  BY <1>2, <1>R DEF Validate, FindCode, FindRefresh, VerifySubject, HookAnswers, Fail
<1>3. CASE CreateConsent(r)
  BY <1>3, <1>E DEF CreateConsent, Writes, CodeMoves, ConsentMoves, IssuedMoves
<1>4. CASE CreateCode(r)
  BY <1>4, <1>E DEF CreateCode, Writes, CodeMoves, ConsentMoves, IssuedMoves
<1>5. CASE ConsumeConsent(r)
  BY <1>5 DEF ConsumeConsent, Writes, CodeMoves, ConsentMoves, IssuedMoves
<1>6. CASE ConsumeCode(r)
  BY <1>6 DEF ConsumeCode, Writes, CodeMoves, ConsentMoves, IssuedMoves
<1>7. CASE Mint(r)
  <2>1. /\ req[r].pc = "mint" /\ issued' = issued \cup {MintedBy(req[r])}
        /\ grants' = grants \cup {req[r].grant}
        /\ UNCHANGED <<now, registration, consent, code, decision, patches>>
    BY <1>7 DEF Mint, MintedBy, DefaultAudience, AudienceOf
  <2> QED BY <2>1 DEF Writes, CodeMoves, ConsentMoves, IssuedMoves
<1>8. CASE MintScope(r)
  <2>1. /\ req[r].pc = "mintScope" /\ issued' = issued \cup {ScopedBy(req[r])}
        /\ UNCHANGED <<store, decision, patches>>
    BY <1>8 DEF MintScope, ScopedBy, DefaultAudience, AudienceOf
  <2> QED BY <2>1 DEF Writes, CodeMoves, ConsentMoves, IssuedMoves, store
<1> QED BY <1>1, <1>2, <1>3, <1>4, <1>5, <1>6, <1>7, <1>8 DEF Step

LEMMA ConsumesStep ==
    ASSUME Typed, NEW r \in Requests, Acts(r), NEW q, Becomes(r, q)
    PROVE  ConsumesOnce(r, q)
<1> SUFFICES ASSUME req[r].pc = "consume", q # Idle PROVE ConsumesOnce(r, q)
  BY DEF ConsumesOnce
<1>1. req'[r] = q
  BY DEF Becomes, Typed, TypeOK
<1>2. req[r] # Idle
  BY IdleFields
<1>3. ~Finish(r)
  BY <1>1 DEF Finish, Typed, TypeOK
<1>4. ConsumeConsent(r)
  BY <1>2, <1>3 DEF Acts, StartAuthorize, StartDecide, StartExchange, StartRefresh,
     StartScope, Start, Step, Validate, CreateConsent, CreateCode, FindCode, ConsumeCode,
     FindRefresh, Mint, VerifySubject, HookAnswers, MintScope, Fail
<1> QED BY <1>3, <1>4 DEF ConsumeConsent, ConsumesOnce

-----------------------------------------------------------------------------
(* Every value has its type *)

\* A row after a step of request r: as it was, or bound to a grant that the
\* row or the request already carried.
NextRow(r, x, y) ==
    \/ y = x
    \/ /\ y \in Row /\ y.grant \in Grant /\ y # Unused
       /\ \/ y.grant = x.grant /\ x # Unused
          \/ y.grant = req[r].grant /\ req[r].pc # "idle"

LEMMA RowsMove ==
    ASSUME Typed, NEW r \in Requests, Writes(r)
    PROVE  /\ code' \in [Codes -> Row] /\ consent' \in [Consents -> Row]
           /\ \A k \in Codes : NextRow(r, code[k], code'[k])
           /\ \A n \in Consents : NextRow(r, consent[n], consent'[n])
<1>0. req[r] \in Request /\ RequestKnown(req[r])
  BY Known
<1>1. code' \in [Codes -> Row] /\ \A k \in Codes : NextRow(r, code[k], code'[k])
  <2>1. CASE UNCHANGED code
    BY <2>1 DEF Typed, TypeOK, NextRow
  <2>2. ASSUME NEW e \in 1..MaxExpiry, req[r].pc = "code",
               NEW n \in Consents \cup {None},
               code' = [code EXCEPT ![req[r].code] = NewRow(req[r].grant, n, e)]
        PROVE  code' \in [Codes -> Row] /\ \A k \in Codes : NextRow(r, code[k], code'[k])
    <3>1. req[r].grant \in Grant /\ req[r].code \in Codes
      BY <1>0, <2>2 DEF RequestKnown, Deciding
    <3>2. PICK g \in Grant : g = req[r].grant
      BY <3>1
    <3>3. PICK y : y = NewRow(g, n, e)
      OBVIOUS
    <3>4. y \in Row /\ y.grant = g /\ y # Unused
      BY <3>3, RowFields
    <3>5. code' = [code EXCEPT ![req[r].code] = y]
      BY <2>2, <3>2, <3>3
    <3>6. NextRow(r, code[req[r].code], y)
      BY <2>2, <3>2, <3>4 DEF NextRow
    <3> QED
      <4>1. code \in [Codes -> Row]
        BY DEF Typed, TypeOK
      <4>2. code' \in [Codes -> Row] /\ code'[req[r].code] = y
        BY <3>1, <3>4, <3>5, <3>6, <4>1
      <4>3. ASSUME NEW j \in Codes, j # req[r].code PROVE code'[j] = code[j]
        BY <3>1, <3>4, <3>5, <3>6, <4>1, <4>3
      <4>4. \A j \in Codes : NextRow(r, code[j], code'[j])
        <5> SUFFICES ASSUME NEW j \in Codes PROVE NextRow(r, code[j], code'[j])
          OBVIOUS
        <5>1. CASE j = req[r].code
          BY <5>1, <4>2, <3>1, <3>4, <3>5, <3>6
        <5>2. CASE j # req[r].code
          BY <5>2, <4>3 DEF NextRow
        <5> QED BY <5>1, <5>2
      <4> QED BY <4>2, <4>4
  <2>3. CASE /\ req[r].pc = "consumeCode"
             /\ code' = [code EXCEPT ![req[r].code].consumed = TRUE]
    <3>1. req[r].code \in Codes /\ code[req[r].code] # Unused
      BY <1>0, <2>3 DEF RequestKnown
    <3>2. PICK k \in Codes : k = req[r].code /\ code[k] \in Row /\ code[k].grant \in Grant
      BY <3>1 DEF Typed, TypeOK, RowKnown
    <3>3. PICK y : y = [code[k] EXCEPT !.consumed = TRUE]
      OBVIOUS
    <3>4. y \in Row /\ y.grant \in Grant /\ y # Unused /\ y.grant = code[k].grant
      BY <3>2, <3>3, ConsumedFields
    <3>5. code' = [code EXCEPT ![k] = y]
      BY <2>3, <3>2, <3>3 DEF Typed, TypeOK
    <3>6. NextRow(r, code[k], y)
      BY <3>1, <3>2, <3>4 DEF NextRow
    <3> QED
      <4>1. code \in [Codes -> Row]
        BY DEF Typed, TypeOK
      <4>2. code' \in [Codes -> Row] /\ code'[k] = y
        BY <3>4, <3>5, <3>6, <4>1
      <4>3. ASSUME NEW j \in Codes, j # k PROVE code'[j] = code[j]
        BY <3>4, <3>5, <3>6, <4>1, <4>3
      <4>4. \A j \in Codes : NextRow(r, code[j], code'[j])
        <5> SUFFICES ASSUME NEW j \in Codes PROVE NextRow(r, code[j], code'[j])
          OBVIOUS
        <5>1. CASE j = k
          BY <5>1, <4>2, <3>4, <3>5, <3>6
        <5>2. CASE j # k
          BY <5>2, <4>3 DEF NextRow
        <5> QED BY <5>1, <5>2
      <4> QED BY <4>2, <4>4
  <2>4. CASE req[r].pc = "code" /\ ~UNCHANGED code
    <3>1. PICK e \in 1..MaxExpiry :
            code' = [code EXCEPT ![req[r].code] =
                        NewRow(req[r].grant,
                               IF req[r].approve THEN req[r].consent ELSE None, e)]
      BY <2>4 DEF Writes, CodeMoves
    <3>2. PICK n \in Consents \cup {None} :
            n = IF req[r].approve THEN req[r].consent ELSE None
      BY <1>0, <2>4 DEF RequestKnown, Deciding
    <3> QED BY <2>2, <2>4, <3>1, <3>2
  <2> QED BY <2>1, <2>3, <2>4 DEF Writes, CodeMoves
<1>2. consent' \in [Consents -> Row]
      /\ \A n \in Consents : NextRow(r, consent[n], consent'[n])
  <2>1. CASE UNCHANGED consent
    BY <2>1 DEF Typed, TypeOK, NextRow
  <2>2. CASE /\ req[r].pc = "consent"
             /\ \E e \in 1..MaxExpiry :
                  consent' = [consent EXCEPT ![req[r].consent] = NewRow(req[r].grant, None, e)]
    <3>0. PICK e \in 1..MaxExpiry :
            consent' = [consent EXCEPT ![req[r].consent] = NewRow(req[r].grant, None, e)]
      BY <2>2
    <3>1. req[r].grant \in Grant /\ req[r].consent \in Consents
      BY <1>0, <2>2 DEF RequestKnown, Deciding
    <3>2. PICK n \in Consents \cup {None} : n = None
      OBVIOUS
    <3>3. PICK g \in Grant : g = req[r].grant
      BY <3>1
    <3>4. PICK y : y = NewRow(g, n, e)
      OBVIOUS
    <3>5. y \in Row /\ y.grant = g /\ y # Unused
      BY <3>4, RowFields
    <3>6. consent' = [consent EXCEPT ![req[r].consent] = y]
      BY <3>0, <3>2, <3>3, <3>4
    <3>7. NextRow(r, consent[req[r].consent], y)
      BY <2>2, <3>3, <3>5 DEF NextRow
    <3> QED
      <4>1. consent \in [Consents -> Row]
        BY DEF Typed, TypeOK
      <4>2. consent' \in [Consents -> Row] /\ consent'[req[r].consent] = y
        BY <3>1, <3>5, <3>6, <3>7, <4>1
      <4>3. ASSUME NEW j \in Consents, j # req[r].consent PROVE consent'[j] = consent[j]
        BY <3>1, <3>5, <3>6, <3>7, <4>1, <4>3
      <4>4. \A j \in Consents : NextRow(r, consent[j], consent'[j])
        <5> SUFFICES ASSUME NEW j \in Consents PROVE NextRow(r, consent[j], consent'[j])
          OBVIOUS
        <5>1. CASE j = req[r].consent
          BY <5>1, <4>2, <3>1, <3>5, <3>6, <3>7
        <5>2. CASE j # req[r].consent
          BY <5>2, <4>3 DEF NextRow
        <5> QED BY <5>1, <5>2
      <4> QED BY <4>2, <4>4
  <2>3. CASE /\ req[r].pc = "consume" /\ Active(consent[req[r].consent])
             /\ consent' = [consent EXCEPT ![req[r].consent].consumed = TRUE]
    <3>1. req[r].consent \in Consents /\ consent[req[r].consent] # Unused
      BY <1>0, <2>3 DEF RequestKnown, Deciding, Active
    <3>2. PICK n \in Consents : /\ n = req[r].consent /\ consent[n] \in Row
                                /\ consent[n].grant \in Grant
      BY <3>1 DEF Typed, TypeOK, RowKnown
    <3>3. PICK y : y = [consent[n] EXCEPT !.consumed = TRUE]
      OBVIOUS
    <3>4. y \in Row /\ y.grant \in Grant /\ y # Unused /\ y.grant = consent[n].grant
      BY <3>2, <3>3, ConsumedFields
    <3>5. consent' = [consent EXCEPT ![n] = y]
      BY <2>3, <3>2, <3>3 DEF Typed, TypeOK
    <3>6. NextRow(r, consent[n], y)
      BY <3>1, <3>2, <3>4 DEF NextRow
    <3> QED
      <4>1. consent \in [Consents -> Row]
        BY DEF Typed, TypeOK
      <4>2. consent' \in [Consents -> Row] /\ consent'[n] = y
        BY <3>4, <3>5, <3>6, <4>1
      <4>3. ASSUME NEW j \in Consents, j # n PROVE consent'[j] = consent[j]
        BY <3>4, <3>5, <3>6, <4>1, <4>3
      <4>4. \A j \in Consents : NextRow(r, consent[j], consent'[j])
        <5> SUFFICES ASSUME NEW j \in Consents PROVE NextRow(r, consent[j], consent'[j])
          OBVIOUS
        <5>1. CASE j = n
          BY <5>1, <4>2, <3>4, <3>5, <3>6
        <5>2. CASE j # n
          BY <5>2, <4>3 DEF NextRow
        <5> QED BY <5>1, <5>2
      <4> QED BY <4>2, <4>4
  <2> QED BY <2>1, <2>2, <2>3 DEF Writes, ConsentMoves
<1> QED BY <1>1, <1>2

LEMMA AudienceTyped ==
    ASSUME NEW q \in Request, q.grant \in Grant
    PROVE  AudienceOf(q) \in {Managed} \cup Clients
BY DEF AudienceOf, Request, Grant, Resources

LEMMA TokenFields ==
    ASSUME NEW kind \in Kinds, NEW g \in Grant, NEW a \in {Managed} \cup Clients,
           NEW e \in 0..MaxExpiry, NEW l \in Leases \cup {None}, NEW held \in BOOLEAN,
           NEW t, t = [kind |-> kind, grant |-> g, audience |-> a, expires |-> e,
                       lease |-> l, held |-> held]
    PROVE  t \in Token
BY DEF Token

LEMMA MintedTyped ==
    ASSUME Typed, NEW r \in Requests, Writes(r)
    PROVE  issued' \subseteq Token /\ grants' \subseteq Grant
<1>0. req[r] \in Request /\ RequestKnown(req[r])
  BY Known
<1>1. CASE UNCHANGED <<grants, issued>>
  BY <1>1 DEF Typed, TypeOK
<1>2. CASE /\ req[r].pc = "mint" /\ issued' = issued \cup {MintedBy(req[r])}
           /\ grants' = grants \cup {req[r].grant}
  <2>1. req[r].grant \in Grant
    BY <1>0, <1>2 DEF RequestKnown
  <2>2. PICK a \in {Managed} \cup Clients :
          a = IF req[r].grant.resource # None THEN req[r].grant.resource
              ELSE AudienceOf(req[r])
    BY <1>0, <2>1, AudienceTyped DEF Grant, Resources
  <2>3. PICK h \in BOOLEAN :
          h = (req[r].grant.resource = None \/ req[r].grant.resource \in req[r].seen)
    OBVIOUS
  <2>4. PICK e \in 0..MaxExpiry : e = req[r].expires
    BY <1>0 DEF Request
  <2>5. MintedBy(req[r]) = [kind |-> "login", grant |-> req[r].grant, audience |-> a,
                            expires |-> e, lease |-> None, held |-> h]
    BY <2>2, <2>3, <2>4 DEF MintedBy
  <2>6. MintedBy(req[r]) \in Token
    BY <2>1, <2>5, TokenFields DEF Kinds
  <2> QED BY <1>2, <2>1, <2>6 DEF Typed, TypeOK
<1>3. CASE /\ req[r].pc = "mintScope" /\ issued' = issued \cup {ScopedBy(req[r])}
           /\ UNCHANGED grants
  <2>1. req[r].grant \in Grant
    BY <1>0, <1>3 DEF RequestKnown
  <2>2. PICK a \in {Managed} \cup Clients : a = AudienceOf(req[r])
    BY <1>0, <2>1, AudienceTyped
  <2>3. /\ req[r].kind \in Kinds /\ req[r].expires \in 0..MaxExpiry
        /\ req[r].lease \in Leases \cup {None}
    BY <1>0 DEF Request
  <2>4. ScopedBy(req[r]) \in Token
    BY <2>1, <2>2, <2>3, TokenFields DEF ScopedBy
  <2> QED BY <1>3, <2>4 DEF Typed, TypeOK
<1> QED BY <1>1, <1>2, <1>3 DEF Writes, IssuedMoves

LEMMA Grows ==
    ASSUME NEW r \in Requests, Writes(r)
    PROVE  issued \subseteq issued' /\ grants \subseteq grants'
BY DEF Writes, IssuedMoves

LEMMA RowsStayKnown ==
    ASSUME Typed, NEW r \in Requests, Writes(r)
    PROVE  /\ \A k \in Codes : RowKnown(code[k])'
           /\ \A n \in Consents : RowKnown(consent[n])'
           /\ \A k \in Codes : code[k] # Unused => code'[k] # Unused
BY RowsMove DEF Typed, NextRow, RowKnown

LEMMA StaysKnown ==
    ASSUME Typed, NEW r \in Requests, Writes(r), NEW q, RequestKnown(q)
    PROVE  RequestKnown(q)'
<1>1. issued \subseteq issued' /\ \A k \in Codes : code[k] # Unused => code'[k] # Unused
  BY Grows, RowsStayKnown
<1> QED BY <1>1 DEF RequestKnown

LEMMA MovesKnown ==
    ASSUME Typed, NEW r \in Requests, Writes(r), NEW q \in Request, Moves(r, q)
    PROVE  RequestKnown(q)'
<1>1. CASE q = Idle
  BY <1>1, IdleKnown
<1>2. CASE Begins(q)
  <2>1. RequestKnown(q)
    <3>1. \A k \in Codes : code[k] # Unused => code[k].grant \in Grant
      BY DEF Typed, RowKnown
    <3>2. \A n \in Consents : consent[n] # Unused => consent[n].grant \in Grant
      BY DEF Typed, RowKnown
    <3>3. /\ \A t \in issued : t.grant \in Grant
          /\ grants \subseteq Grant
      BY DEF Typed, TypeOK, Token
    <3> QED BY <1>2, <3>1, <3>2, <3>3 DEF Begins, RequestKnown, Deciding, Scoping
  <2> QED BY <2>1, StaysKnown
<1>3. CASE GoesOn(req[r], q)
  <2>1. RequestKnown(q)
    BY <1>3, Known DEF GoesOn, Same, RequestKnown, Deciding, Scoping
  <2> QED BY <2>1, StaysKnown
<1> QED BY <1>1, <1>2, <1>3 DEF Moves

LEMMA DecisionsTyped ==
    ASSUME Typed, NEW r \in Requests, Writes(r)
    PROVE  decision' \in [Consents -> {"open", "approved", "denied"}]
BY DEF Writes, ConsentMoves, Typed, TypeOK

LEMMA TypedActs ==
    ASSUME Typed, NEW r \in Requests, Acts(r)
    PROVE  Typed'
<1>1. PICK q : Becomes(r, q) /\ Moves(r, q)
  BY MovesStep
<1>2. Writes(r)
  BY WritesStep
<1>3. q \in Request /\ req' = [req EXCEPT ![r] = q]
  BY <1>1 DEF Becomes
<1>4. req' \in [Requests -> Request] /\ req'[r] = q
      /\ \A s \in Requests \ {r} : req'[s] = req[s]
  BY <1>3 DEF Typed, TypeOK
<1>5. RequestKnown(q)'
  BY <1>1, <1>2, <1>3, MovesKnown
<1>6. \A s \in Requests : RequestKnown(req[s])'
  <2>1. SUFFICES ASSUME NEW s \in Requests PROVE RequestKnown(req[s])'
    OBVIOUS
  <2>2. CASE s = r
    BY <1>4, <1>5, <2>2 DEF RequestKnown
  <2>3. CASE s # r
    <3>1. PICK p : p = req[s] /\ RequestKnown(p)
      BY Known
    <3>2. RequestKnown(p)' /\ req'[s] = p
      BY <1>2, <1>4, <2>3, <3>1, StaysKnown
    <3> QED BY <3>2 DEF RequestKnown
  <2> QED BY <2>2, <2>3
<1>7. UNCHANGED <<now, registration, patches>>
  BY <1>2 DEF Writes
<1>8. TypeOK'
  BY <1>2, <1>4, <1>7, RowsMove, MintedTyped, DecisionsTyped DEF Typed, TypeOK
<1> QED BY <1>2, <1>6, <1>8, RowsStayKnown DEF Typed

LEMMA PatchMoves ==
    ASSUME Typed, NEW c \in Clients, NEW row \in Registration, Patch(c, row)
    PROVE  /\ req' \in [Requests -> Request]
           /\ \A r \in Requests :
                /\ req'[r].pc = req[r].pc /\ req'[r].expires = req[r].expires
                /\ req'[r].grant = req[r].grant /\ req'[r].consent = req[r].consent
                /\ req'[r].code = req[r].code /\ req'[r].approve = req[r].approve
                /\ req'[r].audience = req[r].audience /\ req'[r].token = req[r].token
                /\ req'[r].kind = req[r].kind /\ req'[r].lease = req[r].lease
                /\ req[r].seen \subseteq req'[r].seen
           /\ \A d \in Clients : registration'[d].auto = registration[d].auto
           /\ registration' \in [Clients -> Registration]
           /\ UNCHANGED <<now, consent, code, grants, issued, decision>>
           /\ patches' \in 0..MaxPatches
<1>1. row.audience \in Resources
  BY DEF Registration
<1>2. \A r \in Requests : \/ req'[r] = req[r]
                          \/ req'[r] = [req[r] EXCEPT !.seen = req[r].seen \cup {row.audience}]
  BY DEF Patch
<1>3. ASSUME NEW r \in Requests
      PROVE  /\ req'[r] \in Request
             /\ req'[r].pc = req[r].pc /\ req'[r].expires = req[r].expires
             /\ req'[r].grant = req[r].grant /\ req'[r].consent = req[r].consent
             /\ req'[r].code = req[r].code /\ req'[r].approve = req[r].approve
             /\ req'[r].audience = req[r].audience /\ req'[r].token = req[r].token
             /\ req'[r].kind = req[r].kind /\ req'[r].lease = req[r].lease
             /\ req[r].seen \subseteq req'[r].seen
  <2>1. CASE req'[r] = req[r]
    BY <2>1, Known
  <2>2. CASE req'[r] = [req[r] EXCEPT !.seen = req[r].seen \cup {row.audience}]
    <3>1. PICK q : q = [req[r] EXCEPT !.seen = req[r].seen \cup {row.audience}]
      OBVIOUS
    <3> QED BY <1>1, <2>2, <3>1, Known, SeenFields
  <2> QED BY <1>2, <2>1, <2>2
<1>4. req' \in [Requests -> Request]
  BY <1>3 DEF Patch
<1>5. registration' \in [Clients -> Registration]
      /\ \A d \in Clients : registration'[d].auto = registration[d].auto
  BY DEF Patch, Typed, TypeOK
<1>6. patches' \in 0..MaxPatches
  BY ConstantsTyped DEF Patch, Typed, TypeOK
<1> QED BY <1>3, <1>4, <1>5, <1>6 DEF Patch

LEMMA TypedPatch ==
    ASSUME Typed, NEW c \in Clients, NEW row \in Registration, Patch(c, row)
    PROVE  Typed'
<1>1. TypeOK'
  BY PatchMoves DEF Typed, TypeOK
<1>2. UNCHANGED <<consent, code, issued>>
  BY PatchMoves
<1>3. ASSUME NEW r \in Requests PROVE RequestKnown(req[r])'
  <2>1. req'[r] \in Request
    BY PatchMoves
  <2> QED BY <1>2, <2>1, Known, PatchMoves DEF RequestKnown
<1> QED BY <1>1, <1>2, <1>3 DEF Typed, RowKnown

NextActs == (\E r \in Requests : Acts(r)) \/ UNCHANGED vars \/ Tick
            \/ \E c \in Clients, row \in Registration : Patch(c, row)

LEMMA NextIsActs == ASSUME [Next]_vars PROVE NextActs
BY DEF Next, NextActs, Acts, Refused

\* The variables other than the clock.
Rest == <<registration, consent, code, grants, issued, decision, req, patches>>

LEMMA TickMoves ==
    ASSUME Typed, Tick
    PROVE  now' \in Times /\ UNCHANGED Rest
BY ConstantsTyped DEF Tick, Rest, Times, Typed, TypeOK

LEMMA TypedRest ==
    ASSUME Typed, now' \in Times, UNCHANGED Rest
    PROVE  Typed'
BY DEF Rest, Typed, TypeOK, RowKnown, RequestKnown

LEMMA TypedStep == ASSUME Typed, [Next]_vars PROVE Typed'
<1>1. CASE UNCHANGED vars
  <2>1. now' \in Times /\ UNCHANGED Rest
    BY <1>1 DEF vars, store, Rest, Typed, TypeOK
  <2> QED BY <2>1, TypedRest
<1> QED BY <1>1, NextIsActs, TypedActs, TypedPatch, TickMoves, TypedRest DEF NextActs

LEMMA TypedInit == ASSUME Init PROVE Typed
<1>1. registration \in [Clients -> Registration]
  BY DEF Init, Registration
<1>2. 0 \in Times /\ 0 \in 0..MaxPatches
  BY ConstantsTyped DEF Times
<1>3. TypeOK
  BY <1>1, <1>2, IdleFields, UnusedFields DEF Init, TypeOK
<1>4. \A r \in Requests : RequestKnown(req[r])
  BY IdleFields DEF Init, RequestKnown, Deciding, Scoping
<1> QED BY <1>3, <1>4 DEF Init, Typed, RowKnown

\* Every row, token and request has its type, whatever the interleaving of the
\* requests with each other and with the administrator (authorize.ts, app.ts).
THEOREM TypeCorrect == Spec => []TypeOK
<1>1. Init => Typed
  BY TypedInit
<1>2. Typed /\ [Next]_vars => Typed'
  BY TypedStep
<1>3. Typed => TypeOK
  BY DEF Typed
<1> QED BY <1>1, <1>2, <1>3, PTL DEF Spec

-----------------------------------------------------------------------------
(* The ceiling of the managed resource *)

LEMMA BoundedMoves ==
    ASSUME Typed, Bounded, NEW r \in Requests, NEW q, Moves(r, q), q.pc # "idle"
    PROVE  Within(q.grant)
<1>1. CASE q = Idle
  BY <1>1, IdleFields
<1>2. CASE Begins(q)
  <2>1. Validated(q.grant) => Within(q.grant)
    BY DEF Validated, ResourceAllowed, Within
  <2> QED BY <1>2, <2>1 DEF Begins, Bounded
<1>3. CASE GoesOn(req[r], q)
  BY <1>3 DEF GoesOn, Same, Bounded
<1> QED BY <1>1, <1>2, <1>3 DEF Moves

LEMMA BoundedActs ==
    ASSUME Typed, Bounded, NEW r \in Requests, Acts(r)
    PROVE  Bounded'
<1>1. PICK q : Becomes(r, q) /\ Moves(r, q)
  BY MovesStep
<1>2. Writes(r)
  BY WritesStep
<1>3. \A s \in Requests : req'[s].pc # "idle" => Within(req'[s].grant)
  <2>1. req'[r] = q /\ \A s \in Requests \ {r} : req'[s] = req[s]
    BY <1>1 DEF Becomes, Typed, TypeOK
  <2> QED BY <1>1, <2>1, BoundedMoves DEF Bounded
<1>4. /\ \A k \in Codes : code'[k] # Unused => Within(code'[k].grant)
      /\ \A n \in Consents : consent'[n] # Unused => Within(consent'[n].grant)
  BY <1>2, RowsMove DEF NextRow, Bounded
<1>5. /\ \A g \in grants' : Within(g)
      /\ \A t \in issued' : Within(t.grant)
  <2>1. MintedBy(req[r]).grant = req[r].grant /\ ScopedBy(req[r]).grant = req[r].grant
    BY DEF MintedBy, ScopedBy
  <2> QED BY <1>2, <2>1 DEF Writes, IssuedMoves, Bounded
<1> QED BY <1>3, <1>4, <1>5 DEF Bounded, Within

LEMMA BoundedPatch ==
    ASSUME Typed, Bounded, NEW c \in Clients, NEW row \in Registration, Patch(c, row)
    PROVE  Bounded'
BY PatchMoves DEF Bounded, Within

LEMMA BoundedStep == ASSUME Typed, Bounded, [Next]_vars PROVE Bounded'
<1>1. CASE UNCHANGED vars \/ Tick
  BY <1>1 DEF vars, store, Tick, Bounded, Within
<1> QED BY <1>1, NextIsActs, BoundedActs, BoundedPatch DEF NextActs

LEMMA BoundedInit == ASSUME Init PROVE Bounded
BY IdleFields DEF Init, Bounded

-----------------------------------------------------------------------------
(* A scoped token stays within its subject *)

LEMMA DerivesMoves ==
    ASSUME Typed, Derived, NEW r \in Requests, NEW q, Moves(r, q)
    PROVE  DerivesFrom(q)
<1>1. CASE q = Idle
  BY <1>1, IdleKnown
<1>2. CASE Begins(q)
  BY <1>2 DEF Begins, DerivesFrom
<1>3. CASE GoesOn(req[r], q)
  <2>1. DerivesFrom(req[r]) /\ RequestKnown(req[r])
    BY Known DEF Derived
  <2>2. req[r].pc \in {"verify", "hook"} =>
          /\ req[r].token \in Token /\ req[r].token.expires \in Nat
          /\ req[r].kind \in {"workspace", "reader"}
          /\ req[r].kind = "reader" => req[r].lease \in Leases
    BY <2>1, ConstantsTyped DEF RequestKnown, Scoping, Typed, TypeOK, Token
  <2>3. AudienceOf(q) = AudienceOf(req[r])
    BY <1>3 DEF GoesOn, Same, AudienceOf
  <2>4. CASE req[r].pc = "verify" /\ q.pc = "hook"
    <3>1. q.token = req[r].token /\ q.kind = req[r].kind /\ q.lease = req[r].lease
      BY <1>3 DEF GoesOn, Same
    <3>2. q.token.audience = AudienceOf(q) /\ q.token.kind # "reader"
      BY <1>3, <2>3, <2>4, <3>1 DEF GoesOn
    <3>3. q.kind = "reader" => q.expires <= q.token.expires /\ q.expires <= q.lease
      BY <1>3, <2>2, <2>4, <3>1, ReaderExpiryBounded DEF GoesOn
    <3> QED BY <2>4, <3>2, <3>3 DEF DerivesFrom
  <2>5. CASE req[r].pc = "hook" /\ q.pc = "mintScope"
    BY <1>3, <2>1, <2>2, <2>3, <2>5 DEF GoesOn, Same, DerivesFrom
  <2>6. CASE q.pc \notin {"hook", "mintScope"}
    BY <2>6 DEF DerivesFrom
  <2> QED BY <1>3, <2>4, <2>5, <2>6 DEF GoesOn
<1> QED BY <1>1, <1>2, <1>3 DEF Moves

\* What ScopedWithinSubject says of one token.
Within1(t, tokens) ==
    t.kind # "login" =>
        /\ \E s \in tokens : /\ s.kind = "login" /\ s.grant = t.grant
                             /\ s.audience = t.audience /\ t.expires <= s.expires
        /\ t.kind = "reader" => t.expires <= t.lease

LEMMA MintedDerived ==
    ASSUME Typed, Derived, NEW r \in Requests, Writes(r), NEW t \in issued'
    PROVE  Within1(t, issued') /\ (t.grant.resource # None => t.audience = t.grant.resource)
<1>0. issued \subseteq issued'
  BY Grows
<1>1. CASE t \in issued
  BY <1>0, <1>1 DEF Derived, ScopedWithinSubject, Within1
<1>2. CASE t = MintedBy(req[r])
  BY <1>2 DEF MintedBy, Within1
<1>3. CASE req[r].pc = "mintScope" /\ t = ScopedBy(req[r])
  <2>1. /\ t.kind = req[r].kind /\ t.grant = req[r].grant /\ t.audience = AudienceOf(req[r])
        /\ t.expires = req[r].expires /\ t.lease = req[r].lease
    BY <1>3 DEF ScopedBy
  <2>2. PICK u \in issued : u = req[r].token /\ req[r].grant = u.grant
    BY <1>3, Known DEF RequestKnown, Scoping
  <2>3. /\ t.audience = u.audience /\ t.grant = u.grant /\ u.kind # "reader"
        /\ t.expires <= u.expires
        /\ t.kind = "reader" => t.expires <= t.lease
    BY <1>3, <2>1, <2>2 DEF Derived, DerivesFrom
  <2>4. PICK s \in issued : /\ s.kind = "login" /\ s.grant = u.grant
                            /\ s.audience = u.audience /\ u.expires <= s.expires
    <3>1. u.kind \in Kinds /\ u.expires \in Nat
      BY ConstantsTyped DEF Typed, TypeOK, Token
    <3>2. CASE u.kind = "login"
      BY <3>1, <3>2
    <3>3. CASE u.kind = "workspace"
      BY <3>3 DEF Derived, ScopedWithinSubject
    <3> QED BY <2>3, <3>1, <3>2, <3>3 DEF Kinds
  <2>5. t.expires \in Nat /\ u.expires \in Nat /\ s.expires \in Nat
    BY <2>1, Known, ConstantsTyped DEF Typed, TypeOK, Token, Request
  <2>6. t.expires <= s.expires
    BY <2>3, <2>4, <2>5
  <2> QED BY <1>0, <2>2, <2>3, <2>4, <2>6 DEF Within1, Derived
<1> QED BY <1>1, <1>2, <1>3 DEF Writes, IssuedMoves

LEMMA DerivedActs ==
    ASSUME Typed, Derived, NEW r \in Requests, Acts(r)
    PROVE  Derived'
<1>1. PICK q : Becomes(r, q) /\ Moves(r, q)
  BY MovesStep
<1>2. Writes(r)
  BY WritesStep
<1>3. \A s \in Requests : DerivesFrom(req'[s])
  <2>1. req'[r] = q /\ \A s \in Requests \ {r} : req'[s] = req[s]
    BY <1>1 DEF Becomes, Typed, TypeOK
  <2> QED BY <1>1, <2>1, DerivesMoves DEF Derived
<1>4. \A t \in issued' : /\ Within1(t, issued')
                         /\ t.grant.resource # None => t.audience = t.grant.resource
  BY <1>2, MintedDerived
<1>5. ScopedWithinSubject'
  BY <1>4 DEF ScopedWithinSubject, Within1
<1>6. \A s \in Requests : DerivesFrom(req[s])'
  BY <1>3 DEF DerivesFrom, AudienceOf
<1> QED BY <1>4, <1>5, <1>6 DEF Derived

LEMMA DerivedPatch ==
    ASSUME Typed, Derived, NEW c \in Clients, NEW row \in Registration, Patch(c, row)
    PROVE  Derived'
<1>1. \A r \in Requests : DerivesFrom(req[r])'
  BY PatchMoves DEF Derived, DerivesFrom, AudienceOf
<1> QED BY <1>1, PatchMoves DEF Derived, ScopedWithinSubject

LEMMA DerivedStep == ASSUME Typed, Derived, [Next]_vars PROVE Derived'
<1>1. CASE UNCHANGED vars \/ Tick
  BY <1>1 DEF vars, store, Tick, Derived, ScopedWithinSubject, DerivesFrom, AudienceOf
<1> QED BY <1>1, NextIsActs, DerivedActs, DerivedPatch DEF NextActs

LEMMA DerivedInit == ASSUME Init PROVE Derived
BY IdleFields DEF Init, Derived, ScopedWithinSubject, DerivesFrom

\* A token that comes of a request for the managed resource stays within the
\* policy and the registration, along codes, refreshes and scope exchanges
\* (resource-policy.ts, validateResourceRequest; token-service.ts, issueTokenSet).
THEOREM CeilingHolds == Spec => []ScopeCeiling
<1>1. Init => Typed /\ Bounded /\ Derived
  BY TypedInit, BoundedInit, DerivedInit
<1>2. Typed /\ Bounded /\ Derived /\ [Next]_vars => (Typed /\ Bounded /\ Derived)'
  BY TypedStep, BoundedStep, DerivedStep
<1>3. Typed /\ Bounded /\ Derived => ScopeCeiling
  BY DEF Bounded, Derived, Within, ScopeCeiling
<1> QED BY <1>1, <1>2, <1>3, PTL DEF Spec

\* A scoped token adds nothing to a token of a login, however many exchanges lie
\* between the two (token-service.ts, issueScopeToken).
THEOREM ScopedTokensAddNothing == Spec => []ScopedWithinSubject
<1>1. Init => Typed /\ Derived
  BY TypedInit, DerivedInit
<1>2. Typed /\ Derived /\ [Next]_vars => (Typed /\ Derived)'
  BY TypedStep, DerivedStep
<1>3. Derived => ScopedWithinSubject
  BY DEF Derived
<1> QED BY <1>1, <1>2, <1>3, PTL DEF Spec

-----------------------------------------------------------------------------
(* The managed resource goes to a client that held it *)

LEMMA HeldMoves ==
    ASSUME Held, NEW r \in Requests, NEW q, Moves(r, q)
    PROVE  HeldBy(q)
<1>1. CASE q = Idle
  BY <1>1, IdleKnown
<1>2. CASE Begins(q)
  BY <1>2 DEF Begins, HeldBy, Exchanging
<1>3. CASE GoesOn(req[r], q)
  <2>1. HeldBy(req[r])
    BY DEF Held
  <2> QED BY <1>3, <2>1 DEF GoesOn, Same, HeldBy, Exchanging
<1> QED BY <1>1, <1>2, <1>3 DEF Moves

LEMMA MintedHeld ==
    ASSUME Held, NEW r \in Requests, Writes(r), NEW t \in issued'
    PROVE  t.held
<1>1. CASE t \in issued
  BY <1>1 DEF Held, ResourceHeld
<1>2. CASE req[r].pc = "mint" /\ t = MintedBy(req[r])
  <2>1. req[r].grant.resource = None \/ req[r].grant.resource \in req[r].seen
    BY <1>2 DEF Held, HeldBy, Exchanging
  <2> QED BY <1>2, <2>1 DEF MintedBy
<1>3. CASE t = ScopedBy(req[r])
  BY <1>3 DEF ScopedBy
<1> QED BY <1>1, <1>2, <1>3 DEF Writes, IssuedMoves

LEMMA HeldActs ==
    ASSUME Typed, Held, NEW r \in Requests, Acts(r)
    PROVE  Held'
<1>1. PICK q : Becomes(r, q) /\ Moves(r, q)
  BY MovesStep
<1>2. Writes(r)
  BY WritesStep
<1>3. \A s \in Requests : HeldBy(req'[s])
  <2>1. req'[r] = q /\ \A s \in Requests \ {r} : req'[s] = req[s]
    BY <1>1 DEF Becomes, Typed, TypeOK
  <2> QED BY <1>1, <2>1, HeldMoves DEF Held
<1>4. ResourceHeld'
  BY <1>2, MintedHeld DEF ResourceHeld
<1> QED BY <1>3, <1>4 DEF Held, HeldBy

LEMMA HeldPatch ==
    ASSUME Typed, Held, NEW c \in Clients, NEW row \in Registration, Patch(c, row)
    PROVE  Held'
<1>1. \A r \in Requests : HeldBy(req[r])'
  BY PatchMoves DEF Held, HeldBy
<1> QED BY <1>1, PatchMoves DEF Held, ResourceHeld

LEMMA HeldStep == ASSUME Typed, Held, [Next]_vars PROVE Held'
<1>1. CASE UNCHANGED vars \/ Tick
  BY <1>1 DEF vars, store, Tick, Held, ResourceHeld, HeldBy
<1> QED BY <1>1, NextIsActs, HeldActs, HeldPatch DEF NextActs

LEMMA HeldInit == ASSUME Init PROVE Held
BY IdleFields DEF Init, Held, ResourceHeld, HeldBy, Exchanging

\* However the administrator's changes interleave with the requests, a token for
\* the managed resource goes to a client registered for it while the request ran
\* (token-service.ts, exchangeAuthorizationCode).
THEOREM ResourceIsHeld == Spec => []ResourceHeld
<1>1. Init => Typed /\ Held
  BY TypedInit, HeldInit
<1>2. Typed /\ Held /\ [Next]_vars => (Typed /\ Held)'
  BY TypedStep, HeldStep
<1>3. Held => ResourceHeld
  BY DEF Held
<1> QED BY <1>1, <1>2, <1>3, PTL DEF Spec

-----------------------------------------------------------------------------
(* A consent page is decided once *)

\* What a step of r makes of one code, and of one consent page.
CodeStep(r, k) ==
    \/ code'[k] = code[k]
    \/ /\ req[r].pc = "code" /\ k = req[r].code
       /\ code'[k].grant = req[r].grant
       /\ code'[k].consent = IF req[r].approve THEN req[r].consent ELSE None
    \/ /\ req[r].pc = "consumeCode" /\ k = req[r].code /\ code[k] # Unused
       /\ code'[k].grant = code[k].grant /\ code'[k].consent = code[k].consent

ConsentStep(r, n) ==
    \/ consent'[n] = consent[n] /\ decision'[n] = decision[n]
    \/ /\ req[r].pc = "consent" /\ n = req[r].consent
       /\ decision'[n] = decision[n]
    \/ /\ req[r].pc = "consume" /\ n = req[r].consent
       /\ Active(consent[n]) /\ consent'[n].grant = consent[n].grant
       /\ consent'[n].consumed

LEMMA CodeSteps ==
    ASSUME Typed, NEW r \in Requests, Writes(r), NEW k \in Codes
    PROVE  CodeStep(r, k)
<1>0. req[r] \in Request /\ RequestKnown(req[r])
  BY Known
<1>1. CASE UNCHANGED code
  BY <1>1 DEF CodeStep
<1>2. CASE req[r].pc = "code" /\ ~UNCHANGED code
  <2>1. PICK e \in 1..MaxExpiry :
          code' = [code EXCEPT ![req[r].code] =
                      NewRow(req[r].grant,
                             IF req[r].approve THEN req[r].consent ELSE None, e)]
    BY <1>2 DEF Writes, CodeMoves
  <2>2. PICK n \in Consents \cup {None} :
          n = IF req[r].approve THEN req[r].consent ELSE None
    BY <1>0, <1>2 DEF RequestKnown, Deciding
  <2>3. PICK g \in Grant : g = req[r].grant
    BY <1>0, <1>2 DEF RequestKnown
  <2>4. PICK y : y = NewRow(g, n, e)
    OBVIOUS
  <2>5. y.grant = g /\ y.consent = n
    BY <2>4, RowFields
  <2>6. code' = [code EXCEPT ![req[r].code] = y]
    BY <2>1, <2>2, <2>3, <2>4
  <2>7. code'[k] = IF k = req[r].code THEN y ELSE code[k]
    BY <2>6 DEF Typed, TypeOK
  <2> QED BY <1>2, <2>2, <2>3, <2>5, <2>7 DEF CodeStep
<1>3. CASE /\ req[r].pc = "consumeCode"
           /\ code' = [code EXCEPT ![req[r].code].consumed = TRUE]
  <2>1. PICK j \in Codes : j = req[r].code /\ code[j] # Unused
    BY <1>0, <1>3 DEF RequestKnown
  <2>2. PICK y : y = [code[j] EXCEPT !.consumed = TRUE]
    OBVIOUS
  <2>3. y.grant = code[j].grant /\ y.consent = code[j].consent
    BY <2>2, ConsumedFields DEF Typed, TypeOK
  <2>4. code'[k] = IF k = j THEN y ELSE code[k]
    BY <1>3, <2>1, <2>2 DEF Typed, TypeOK
  <2> QED BY <1>3, <2>1, <2>3, <2>4 DEF CodeStep
<1> QED BY <1>1, <1>2, <1>3 DEF Writes, CodeMoves

LEMMA ConsentSteps ==
    ASSUME Typed, NEW r \in Requests, Writes(r), NEW n \in Consents
    PROVE  ConsentStep(r, n)
<1>1. CASE UNCHANGED <<consent, decision>>
  BY <1>1 DEF ConsentStep
<1>2. ASSUME NEW y, req[r].pc = "consent", UNCHANGED decision,
             consent' = [consent EXCEPT ![req[r].consent] = y]
      PROVE  ConsentStep(r, n)
  BY <1>2 DEF ConsentStep, Typed, TypeOK
<1>3. CASE /\ req[r].pc = "consume" /\ Active(consent[req[r].consent])
           /\ consent' = [consent EXCEPT ![req[r].consent].consumed = TRUE]
           /\ decision' = [decision EXCEPT ![req[r].consent] =
                              IF req[r].approve THEN "approved" ELSE "denied"]
  <2>1. CASE n = req[r].consent
    <3>1. PICK y : y = [consent[n] EXCEPT !.consumed = TRUE]
      OBVIOUS
    <3>2. y.grant = consent[n].grant /\ y.consumed
      BY <3>1, ConsumedFields DEF Typed, TypeOK
    <3>3. consent'[n] = y
      BY <1>3, <2>1, <3>1 DEF Typed, TypeOK
    <3> QED BY <1>3, <2>1, <3>2, <3>3 DEF ConsentStep
  <2>2. CASE n # req[r].consent
    BY <1>3, <2>2 DEF ConsentStep, Typed, TypeOK
  <2> QED BY <2>1, <2>2
<1> QED BY <1>1, <1>2, <1>3 DEF Writes, ConsentMoves

\* What a request that has just begun does not share with another request.
LEMMA BeginsFresh ==
    ASSUME Typed, NEW r \in Requests, NEW q, Begins(q), NEW s \in Requests
    PROVE  /\ q.pc \in Deciding => code[q.code] = Unused /\ req[s].code # q.code
           /\ q.pc = "consent" => consent[q.consent] = Unused /\ req[s].consent # q.consent
           /\ req[s].pc \in Deciding /\ code[req[s].code] = Unused => q.code # req[s].code
           /\ req[s].pc = "consent" /\ consent[req[s].consent] = Unused =>
                q.consent # req[s].consent
<1>1. /\ req[s].pc \in Deciding => req[s].code \in Codes /\ req[s].consent \in Consents
      /\ None \notin Codes /\ None \notin Consents
  BY Known, ConstantsTyped DEF RequestKnown
<1> QED BY <1>1 DEF Begins, FreshCode, FreshConsent, Deciding

LEMMA MovesOwned ==
    ASSUME Typed, Owned, NEW r \in Requests, NEW q, Moves(r, q),
           NEW s \in Requests \ {r}
    PROVE  /\ q.pc \in Deciding => code[q.code] = Unused /\ req[s].code # q.code
           /\ q.pc = "consent" => consent[q.consent] = Unused /\ req[s].consent # q.consent
           /\ req[s].pc \in Deciding => q.code # req[s].code
           /\ req[s].pc = "consent" => q.consent # req[s].consent
<1>1. CASE q = Idle
  <2>1. /\ req[s].pc \in Deciding => req[s].code \in Codes /\ req[s].consent \in Consents
        /\ None \notin Codes /\ None \notin Consents
    BY Known, ConstantsTyped DEF RequestKnown
  <2> QED BY <1>1, <2>1, IdleFields DEF Deciding
<1>2. CASE Begins(q)
  BY <1>2, BeginsFresh DEF Owned
<1>3. CASE GoesOn(req[r], q)
  <2>1. q.code = req[r].code /\ q.consent = req[r].consent
        /\ q.pc # "consent" /\ (q.pc \in Deciding => req[r].pc \in Deciding)
    BY <1>3 DEF GoesOn, Same, Deciding
  <2> QED BY <2>1 DEF Owned
<1> QED BY <1>1, <1>2, <1>3 DEF Moves

\* A code or a page a request is about to make stays unused until it does.
LEMMA StaysUnused ==
    ASSUME Typed, Owned, NEW r \in Requests, Writes(r)
    PROVE  /\ \A k \in Codes : code[k] = Unused /\ ~(req[r].pc = "code" /\ k = req[r].code)
                                 => code'[k] = Unused
           /\ \A n \in Consents :
                consent[n] = Unused /\ ~(req[r].pc = "consent" /\ n = req[r].consent)
                                 => consent'[n] = Unused
BY CodeSteps, ConsentSteps DEF CodeStep, ConsentStep, Active

LEMMA MovesAway ==
    ASSUME Typed, NEW r \in Requests, NEW q, Moves(r, q)
    PROVE  /\ q.pc \in Deciding => /\ q.code \in Codes /\ q.consent \in Consents
                                   /\ req[r].pc # "code"
           /\ q.pc = "consent" => req[r].pc # "consent"
BY Known, IdleFields DEF Moves, Begins, GoesOn, Same, RequestKnown, Deciding

LEMMA OwnedActs ==
    ASSUME Typed, Owned, NEW r \in Requests, Acts(r)
    PROVE  Owned'
<1>1. PICK q : Becomes(r, q) /\ Moves(r, q)
  BY MovesStep
<1>2. Writes(r)
  BY WritesStep
<1>3. req'[r] = q /\ \A s \in Requests \ {r} : req'[s] = req[s]
  BY <1>1 DEF Becomes, Typed, TypeOK
<1>4. ASSUME NEW s \in Requests, s # r
      PROVE  /\ q.pc \in Deciding => req'[s].code # q.code
             /\ q.pc = "consent" => req'[s].consent # q.consent
             /\ req'[s].pc \in Deciding => /\ code'[req'[s].code] = Unused
                                           /\ q.code # req'[s].code
             /\ req'[s].pc = "consent" => /\ consent'[req'[s].consent] = Unused
                                          /\ q.consent # req'[s].consent
  <2>1. req'[s] = req[s]
    BY <1>3, <1>4
  <2>2. /\ q.pc \in Deciding => req[s].code # q.code
        /\ q.pc = "consent" => req[s].consent # q.consent
        /\ req[s].pc \in Deciding => q.code # req[s].code
        /\ req[s].pc = "consent" => q.consent # req[s].consent
    BY <1>1, <1>4, MovesOwned
  <2>3. req[s].pc \in Deciding => code'[req[s].code] = Unused
    <3>1. SUFFICES ASSUME req[s].pc \in Deciding PROVE code'[req[s].code] = Unused
      OBVIOUS
    <3>2. code[req[s].code] = Unused /\ req[r].code # req[s].code /\ req[s].code \in Codes
      BY <1>4, <3>1, Known DEF Owned, RequestKnown
    <3> QED BY <1>2, <3>2, StaysUnused
  <2>4. req[s].pc = "consent" => consent'[req[s].consent] = Unused
    <3>1. SUFFICES ASSUME req[s].pc = "consent" PROVE consent'[req[s].consent] = Unused
      OBVIOUS
    <3>2. /\ consent[req[s].consent] = Unused /\ req[r].consent # req[s].consent
          /\ req[s].consent \in Consents
      BY <1>4, <3>1, Known DEF Owned, RequestKnown, Deciding
    <3> QED BY <1>2, <3>2, StaysUnused
  <2> QED BY <2>1, <2>2, <2>3, <2>4
<1>5. /\ q.pc \in Deciding => code'[q.code] = Unused
      /\ q.pc = "consent" => consent'[q.consent] = Unused
  <2>1. /\ q.pc \in Deciding => /\ q.code \in Codes /\ q.consent \in Consents
                                /\ req[r].pc # "code"
        /\ q.pc = "consent" => req[r].pc # "consent"
    BY <1>1, MovesAway
  <2>2. /\ q.pc \in Deciding => code[q.code] = Unused
        /\ q.pc = "consent" => consent[q.consent] = Unused
    <3>1. CASE q = Idle
      BY <3>1, IdleFields DEF Deciding
    <3>2. CASE Begins(q)
      BY <3>2, BeginsFresh
    <3>3. CASE GoesOn(req[r], q)
      BY <3>3 DEF GoesOn, Same, Owned, Deciding
    <3> QED BY <1>1, <3>1, <3>2, <3>3 DEF Moves
  <2> QED BY <1>2, <2>1, <2>2, StaysUnused DEF Deciding
<1>6. ASSUME NEW s \in Requests
      PROVE  /\ req'[s].pc \in Deciding =>
                  /\ code'[req'[s].code] = Unused
                  /\ \A u \in Requests \ {s} : req'[u].code # req'[s].code
             /\ req'[s].pc = "consent" =>
                  /\ consent'[req'[s].consent] = Unused
                  /\ \A u \in Requests \ {s} : req'[u].consent # req'[s].consent
  <2>1. CASE s = r
    BY <1>3, <1>4, <1>5, <2>1
  <2>2. CASE s # r
    <3>1. ASSUME NEW u \in Requests, u # s
          PROVE  /\ req'[s].pc \in Deciding => req'[u].code # req'[s].code
                 /\ req'[s].pc = "consent" => req'[u].consent # req'[s].consent
      <4>1. CASE u = r
        BY <1>3, <1>4, <2>2, <4>1
      <4>2. CASE u # r
        <5>1. req'[s] = req[s] /\ req'[u] = req[u]
          BY <1>3, <2>2, <4>2
        <5> QED BY <3>1, <5>1 DEF Owned
      <4> QED BY <4>1, <4>2
    <3> QED BY <1>4, <2>2, <3>1
  <2> QED BY <2>1, <2>2
<1> QED BY <1>6 DEF Owned

LEMMA OwnedPatch ==
    ASSUME Typed, Owned, NEW c \in Clients, NEW row \in Registration, Patch(c, row)
    PROVE  Owned'
BY PatchMoves DEF Owned

LEMMA OwnedStep == ASSUME Typed, Owned, [Next]_vars PROVE Owned'
<1>1. CASE UNCHANGED vars \/ Tick
  BY <1>1 DEF vars, store, Tick, Owned
<1> QED BY <1>1, NextIsActs, OwnedActs, OwnedPatch DEF NextActs

LEMMA OwnedInit == ASSUME Init PROVE Owned
BY IdleFields DEF Init, Owned, Deciding

\* A page that is consumed stays as it is, decision included, and a page some
\* request is about to consume keeps its grant.
LEMMA PagesStay ==
    ASSUME Typed, Owned, NEW r \in Requests, Writes(r), NEW n \in Consents
    PROVE  /\ consent[n].consumed => consent'[n] = consent[n] /\ decision'[n] = decision[n]
           /\ \A s \in Requests : req[s].pc = "consume" /\ req[s].consent = n =>
                                    consent'[n].grant = consent[n].grant
<1>1. ConsentStep(r, n)
  BY ConsentSteps
<1>2. CASE req[r].pc = "consent" /\ n = req[r].consent
  <2>1. /\ consent[n] = Unused
        /\ \A s \in Requests \ {r} : req[s].consent # n
    BY <1>2 DEF Owned
  <2> QED BY <1>2, <2>1, UnusedFields
<1> QED BY <1>1, <1>2 DEF ConsentStep, Active

LEMMA ApprovingHasPage ==
    ASSUME Typed, NEW r \in Requests,
           Approving(req[r]) \/ req[r].pc \in {"code", "consume"}
    PROVE  /\ req[r].consent \in Consents /\ req[r].code \in Codes
           /\ req[r].grant.client \in Clients
BY Known DEF Approving, RequestKnown, Deciding, Grant

\* A new code comes of an approval, and of no other page.
LEMMA NewCode ==
    ASSUME Typed, Decided, NEW r \in Requests, Writes(r), NEW k \in Codes, NEW n \in Consents,
           code'[k].consent = n
    PROVE  \/ code[k].consent = n /\ code'[k].grant = code[k].grant
           \/ /\ req[r].pc = "code" /\ k = req[r].code /\ code'[k].grant = req[r].grant
              /\ Approving(req[r]) /\ n = req[r].consent
<1>1. CodeStep(r, k) /\ n # None
  BY CodeSteps, ConstantsTyped
<1> QED BY <1>1 DEF CodeStep, Approving

LEMMA NoCodeYet ==
    ASSUME Typed, Decided, NEW r \in Requests, Writes(r), NEW n \in Consents,
           \A k \in Codes : code[k].consent # n,
           ~(Approving(req[r]) /\ req[r].pc = "code" /\ req[r].consent = n)
    PROVE  \A k \in Codes : code'[k].consent # n
BY NewCode

LEMMA ApprovedOthers ==
    ASSUME Typed, Owned, Decided, NEW r \in Requests, Writes(r),
           NEW s \in Requests \ {r}, NEW p, p = req[s]
    PROVE  ApprovedBy(p)'
<1>1. ApprovedBy(p) /\ Alone(req[r], p)
  BY DEF Decided
<1>2. UNCHANGED registration
  BY DEF Writes
<1>3. CASE Approving(p)
  <2>1. p.consent \in Consents
    BY <1>3, ApprovingHasPage
  <2>2. /\ consent'[p.consent] = consent[p.consent]
        /\ decision'[p.consent] = decision[p.consent]
    BY <1>1, <1>3, <2>1, PagesStay DEF ApprovedBy
  <2>3. \A k \in Codes : code'[k].consent # p.consent
    BY <1>1, <1>3, <2>1, NoCodeYet DEF ApprovedBy, Alone
  <2> QED BY <1>1, <1>2, <1>3, <2>2, <2>3 DEF ApprovedBy, Approving
<1>4. CASE p.pc = "consume"
  <2>1. p.consent \in Consents
    BY <1>4, ApprovingHasPage
  <2>2. consent'[p.consent].grant = consent[p.consent].grant
    BY <1>4, <2>1, PagesStay
  <2> QED BY <1>1, <1>4, <2>2 DEF ApprovedBy, Approving
<1>5. CASE ~Approving(p) /\ p.pc # "consume"
  BY <1>1, <1>2, <1>5 DEF ApprovedBy, Approving
<1> QED BY <1>3, <1>4, <1>5

\* A request that goes on from the consume has won the page.
LEMMA ConsumeWins ==
    ASSUME Typed, Owned, Decided, NEW r \in Requests, Writes(r), NEW q,
           ConsumesOnce(r, q), GoesOn(req[r], q), req[r].pc = "consume"
    PROVE  LET n == q.consent
           IN  /\ n \in Consents /\ ~consent[n].consumed /\ consent[n] # Unused
               /\ consent'[n].consumed /\ consent'[n].grant = consent[n].grant
               /\ decision'[n] = "approved"
<1>1. q # Idle /\ req[r].approve /\ q.consent = req[r].consent /\ q.consent \in Consents
  BY IdleFields, ApprovingHasPage DEF GoesOn, Same
<1>2. /\ Active(consent[q.consent])
      /\ consent' = [consent EXCEPT ![q.consent].consumed = TRUE]
      /\ decision' = [decision EXCEPT ![q.consent] = "approved"]
  BY <1>1 DEF ConsumesOnce
<1>3. ~consent[q.consent].consumed /\ consent[q.consent] # Unused
  BY <1>2 DEF Active
<1>4. decision'[q.consent] = "approved"
  BY <1>1, <1>2 DEF Typed, TypeOK
<1>5. PICK y : y = [consent[q.consent] EXCEPT !.consumed = TRUE]
  OBVIOUS
<1>6. y.grant = consent[q.consent].grant /\ y.consumed
  BY <1>1, <1>5, ConsumedFields DEF Typed, TypeOK
<1>7. consent'[q.consent] = y
  BY <1>1, <1>2, <1>5 DEF Typed, TypeOK
<1> QED BY <1>1, <1>3, <1>4, <1>6, <1>7

LEMMA ApprovedMoves ==
    ASSUME Typed, Owned, Decided, NEW r \in Requests, Writes(r), NEW q,
           ConsumesOnce(r, q), Moves(r, q)
    PROVE  ApprovedBy(q)'
<1>0. UNCHANGED registration
  BY DEF Writes
<1>1. CASE q = Idle
  BY <1>1, IdleFields DEF ApprovedBy, Approving
<1>2. CASE req[r] = Idle /\ Begins(q)
  <2>1. UNCHANGED consent
    BY <1>2, IdleFields DEF Writes, ConsentMoves
  <2> QED BY <1>0, <1>2, <2>1 DEF Begins, ApprovedBy, Approving
<1>3. CASE GoesOn(req[r], q)
  <2>0. /\ q.consent = req[r].consent /\ q.grant = req[r].grant
        /\ q.approve = req[r].approve
    BY <1>3 DEF GoesOn, Same
  <2>1. CASE req[r].pc = "validate" /\ q.pc = "code"
    <3>1. Approving(req[r]) /\ ApprovedBy(req[r])
      BY <2>1, Known DEF Approving, RequestKnown, Decided
    <3>2. q.consent \in Consents
      BY <2>0, <3>1, ApprovingHasPage
    <3>3. /\ consent'[q.consent] = consent[q.consent]
          /\ decision'[q.consent] = decision[q.consent]
      BY <2>0, <3>1, <3>2, PagesStay DEF ApprovedBy
    <3>4. \A k \in Codes : code'[k].consent # q.consent
      BY <2>0, <2>1, <3>1, <3>2, NoCodeYet DEF ApprovedBy
    <3>5. Approving(q)
      BY <2>0, <2>1, <3>1 DEF Approving
    <3> QED BY <2>0, <2>1, <3>1, <3>3, <3>4, <3>5 DEF ApprovedBy, Approving
  <2>2. CASE req[r].pc = "consume" /\ q.pc = "validate"
    <3>1. /\ q.consent \in Consents /\ ~consent[q.consent].consumed
          /\ consent'[q.consent].consumed
          /\ consent'[q.consent].grant = consent[q.consent].grant
          /\ decision'[q.consent] = "approved"
      BY <1>3, <2>2, ConsumeWins
    <3>2. q.grant = consent[q.consent].grant
      BY <2>0, <2>2 DEF Decided, ApprovedBy
    <3>3. \A k \in Codes : code'[k].consent # q.consent
      BY <2>2, <3>1, NoCodeYet DEF Decided
    <3> QED BY <2>2, <3>1, <3>2, <3>3 DEF ApprovedBy, Approving
  <2>3. CASE q.pc \notin {"validate", "code", "consume"}
    BY <2>3 DEF ApprovedBy, Approving
  <2> QED BY <1>3, <2>1, <2>2, <2>3 DEF GoesOn
<1> QED BY <1>1, <1>2, <1>3 DEF Moves

LEMMA AloneMoves ==
    ASSUME Typed, Owned, Decided, NEW r \in Requests, Writes(r), NEW q,
           ConsumesOnce(r, q), Moves(r, q), NEW s \in Requests \ {r}
    PROVE  Alone(q, req[s]) /\ Alone(req[s], q)
<1>1. SUFFICES ASSUME Approving(q), Approving(req[s]) PROVE q.consent # req[s].consent
  BY DEF Alone
<1>2. GoesOn(req[r], q)
  BY <1>1, IdleFields DEF Moves, Begins, Approving
<1>3. CASE req[r].pc = "validate"
  BY <1>1, <1>2, <1>3 DEF GoesOn, Same, Decided, Alone, Approving
<1>4. CASE req[r].pc = "consume"
  BY <1>1, <1>2, <1>4, ConsumeWins DEF Decided, ApprovedBy
<1> QED BY <1>1, <1>2, <1>3, <1>4 DEF GoesOn, Approving

LEMMA FinalActs ==
    ASSUME Typed, Owned, Decided, NEW r \in Requests, Writes(r)
    PROVE  /\ DecisionIsFinal'
           /\ \A k \in Codes, n \in Consents : code'[k].consent = n => consent'[n].consumed
<1>1. ASSUME NEW k \in Codes, NEW n \in Consents, code'[k].consent = n
      PROVE  /\ consent'[n].consumed /\ decision'[n] = "approved"
             /\ code'[k].grant = consent'[n].grant
             /\ \A j \in Codes \ {k} : code'[j].consent # n
  <2>1. CASE code[k].consent = n /\ code'[k].grant = code[k].grant
    <3>1. /\ consent[n].consumed /\ decision[n] = "approved"
          /\ code[k].grant = consent[n].grant
          /\ \A j \in Codes \ {k} : code[j].consent # n
      BY <2>1 DEF Decided, DecisionIsFinal
    <3>2. ~(Approving(req[r]) /\ req[r].consent = n)
      BY <2>1 DEF Decided, ApprovedBy
    <3> QED BY <2>1, <3>1, <3>2, PagesStay, NewCode
  <2>2. CASE /\ req[r].pc = "code" /\ k = req[r].code /\ code'[k].grant = req[r].grant
             /\ Approving(req[r]) /\ n = req[r].consent
    <3>1. /\ consent[n].consumed /\ decision[n] = "approved"
          /\ req[r].grant = consent[n].grant
          /\ \A j \in Codes : code[j].consent # n
      BY <2>2 DEF Decided, ApprovedBy
    <3> QED BY <2>2, <3>1, PagesStay, NewCode
  <2> QED BY <1>1, <2>1, <2>2, NewCode
<1>2. ASSUME NEW k \in Codes, code'[k] # Unused, code'[k].consent = None
      PROVE  registration'[code'[k].grant.client].auto
  <2>1. CodeStep(r, k) /\ UNCHANGED registration
    BY CodeSteps DEF Writes
  <2>2. CASE req[r].pc = "code" /\ code'[k].grant = req[r].grant
             /\ code'[k].consent = IF req[r].approve THEN req[r].consent ELSE None
    <3>1. ~req[r].approve
      BY <1>2, <2>2, ApprovingHasPage, ConstantsTyped
    <3> QED BY <2>1, <2>2, <3>1 DEF Decided, ApprovedBy
  <2>3. CASE /\ code[k] # Unused /\ code'[k].grant = code[k].grant
             /\ code'[k].consent = code[k].consent
    BY <1>2, <2>1, <2>3 DEF Decided, DecisionIsFinal
  <2>4. CASE code'[k] = code[k]
    BY <1>2, <2>1, <2>4 DEF Decided, DecisionIsFinal
  <2> QED BY <2>1, <2>2, <2>3, <2>4 DEF CodeStep
<1> QED BY <1>1, <1>2 DEF DecisionIsFinal

LEMMA DecidedActs ==
    ASSUME Typed, Owned, Decided, NEW r \in Requests, Acts(r)
    PROVE  Decided'
<1>1. PICK q : Becomes(r, q) /\ Moves(r, q)
  BY MovesStep
<1>2. Writes(r) /\ ConsumesOnce(r, q)
  BY <1>1, WritesStep, ConsumesStep
<1>3. req'[r] = q /\ \A s \in Requests \ {r} : req'[s] = req[s]
  BY <1>1 DEF Becomes, Typed, TypeOK
<1>4. \A s \in Requests : ApprovedBy(req[s])'
  <2>1. SUFFICES ASSUME NEW s \in Requests PROVE ApprovedBy(req[s])'
    OBVIOUS
  <2>2. CASE s = r
    <3>1. ApprovedBy(q)'
      BY <1>1, <1>2, ApprovedMoves
    <3> QED BY <1>3, <2>2, <3>1 DEF ApprovedBy, Approving
  <2>3. CASE s # r
    <3>1. PICK p : p = req[s]
      OBVIOUS
    <3>2. ApprovedBy(p)' /\ req'[s] = p
      BY <1>2, <1>3, <2>3, <3>1, ApprovedOthers
    <3> QED BY <3>2 DEF ApprovedBy, Approving
  <2> QED BY <2>2, <2>3
<1>5. ASSUME NEW s \in Requests, NEW u \in Requests, s # u
      PROVE  Alone(req'[s], req'[u])
  <2>1. CASE s # r /\ u # r
    BY <1>3, <1>5, <2>1 DEF Decided
  <2>2. CASE s = r \/ u = r
    BY <1>1, <1>2, <1>3, <1>5, <2>2, AloneMoves
  <2> QED BY <2>1, <2>2
<1>6. \A s, u \in Requests : s # u => Alone(req[s], req[u])'
  BY <1>5 DEF Alone, Approving
<1>7. /\ DecisionIsFinal'
      /\ \A k \in Codes, n \in Consents : code'[k].consent = n => consent'[n].consumed
  BY <1>2, FinalActs
<1> QED BY <1>4, <1>6, <1>7 DEF Decided

LEMMA DecidedPatch ==
    ASSUME Typed, Decided, NEW c \in Clients, NEW row \in Registration, Patch(c, row)
    PROVE  Decided'
<1>1. UNCHANGED <<consent, code, decision>>
      /\ \A d \in Clients : registration'[d].auto = registration[d].auto
  BY PatchMoves
<1>2. ASSUME NEW r \in Requests PROVE ApprovedBy(req[r])'
  <2>1. req[r].pc = "code" => req[r].grant.client \in Clients
    BY ApprovingHasPage
  <2>2. /\ req'[r].pc = req[r].pc /\ req'[r].grant = req[r].grant
        /\ req'[r].consent = req[r].consent /\ req'[r].approve = req[r].approve
    BY PatchMoves
  <2> QED BY <1>1, <2>1, <2>2 DEF Decided, ApprovedBy, Approving
<1>3. \A r, s \in Requests : r # s => Alone(req[r], req[s])'
  BY PatchMoves DEF Decided, Alone, Approving
<1>4. DecisionIsFinal'
  <2>1. \A k \in Codes : code[k] # Unused => code[k].grant.client \in Clients
    BY DEF Typed, RowKnown, Grant
  <2> QED BY <1>1, <2>1 DEF Decided, DecisionIsFinal
<1> QED BY <1>1, <1>2, <1>3, <1>4 DEF Decided

LEMMA DecidedStep == ASSUME Typed, Owned, Decided, [Next]_vars PROVE Decided'
<1>1. CASE UNCHANGED vars \/ Tick
  BY <1>1 DEF vars, store, Tick, Decided, DecisionIsFinal, ApprovedBy, Approving, Alone
<1> QED BY <1>1, NextIsActs, DecidedActs, DecidedPatch DEF NextActs

LEMMA DecidedInit == ASSUME Init PROVE Decided
<1>1. None \notin Consents
  BY ConstantsTyped
<1> QED BY <1>1, IdleFields, UnusedFields
        DEF Init, Decided, DecisionIsFinal, ApprovedBy, Approving, Alone

\* However many tabs post a consent page, one decision stands and at most one
\* code comes of it (app.ts, handleConsentPost).
THEOREM DecisionsAreFinal == Spec => []DecisionIsFinal
<1>1. Init => Typed /\ Owned /\ Decided
  BY TypedInit, OwnedInit, DecidedInit
<1>2. Typed /\ Owned /\ Decided /\ [Next]_vars => (Typed /\ Owned /\ Decided)'
  BY TypedStep, OwnedStep, DecidedStep
<1>3. Decided => DecisionIsFinal
  BY DEF Decided
<1> QED BY <1>1, <1>2, <1>3, PTL DEF Spec
-----------------------------------------------------------------------------
(* A consent page is a one-time artifact: every step claims, voids,        *)
(* abandons or yields one page, or leaves all of them as they are.         *)

Statuses == [n \in Consents |-> PageStatus(n)]
Yields == [n \in Consents |-> Cardinality(CodesOf(n))]
Implements == Artifact!Next \/ UNCHANGED <<Statuses, Yields>>

ClaimedBy(r, n) == Approving(req[r]) /\ req[r].consent = n
Claimed(n) == \E r \in Requests : ClaimedBy(r, n)

LEMMA StatusIs ==
    ASSUME NEW n
    PROVE  PageStatus(n) = IF ~consent[n].consumed THEN "open"
                           ELSE IF Claimed(n) THEN "claimed" ELSE "settled"
BY DEF PageStatus, Claimed, ClaimedBy, Approving

LEMMA StatusMoves ==
    ASSUME NEW n \in Consents, NEW from, NEW to, PageStatus(n) = from, PageStatus(n)' = to,
           \A m \in Consents \ {n} : PageStatus(m)' = PageStatus(m)
    PROVE  Artifact!Move(n, from, to)
BY DEF Artifact!Move

\* What decides the status of a page.
LEMMA StatusStays ==
    ASSUME NEW n \in Consents, consent'[n].consumed <=> consent[n].consumed,
           \A r \in Requests : ClaimedBy(r, n)' <=> ClaimedBy(r, n)
    PROVE  PageStatus(n)' = PageStatus(n)
<1>1. Claimed(n)' <=> Claimed(n)
  BY DEF Claimed
<1> QED BY <1>1 DEF PageStatus, Claimed, ClaimedBy, Approving

LEMMA Stutters ==
    ASSUME \A n \in Consents : /\ PageStatus(n)' = PageStatus(n)
                               /\ CodesOf(n)' = CodesOf(n)
    PROVE  Implements
BY DEF Implements, Statuses, Yields

LEMMA ConsumedKept ==
    ASSUME Typed, Owned, NEW r \in Requests, Writes(r), NEW n \in Consents,
           ~(req[r].pc = "consume" /\ req[r].consent = n)
    PROVE  consent'[n].consumed <=> consent[n].consumed
<1>1. CASE UNCHANGED consent
  BY <1>1
<1>2. CASE req[r].pc = "consent" /\ ~UNCHANGED consent
  <2>1. PICK e \in 1..MaxExpiry :
          consent' = [consent EXCEPT ![req[r].consent] = NewRow(req[r].grant, None, e)]
    BY <1>2 DEF Writes, ConsentMoves
  <2>2. PICK g \in Grant : g = req[r].grant
    BY <1>2, Known DEF RequestKnown, Deciding
  <2>3. PICK y : y = NewRow(g, None, e)
    OBVIOUS
  <2>4. ~y.consumed
    <3>1. None \in Consents \cup {None}
      OBVIOUS
    <3> QED BY <2>3, <3>1, RowFields
  <2>5. consent'[n] = IF n = req[r].consent THEN y ELSE consent[n]
    BY <2>1, <2>2, <2>3 DEF Typed, TypeOK
  <2>6. ~consent[req[r].consent].consumed
    BY <1>2, UnusedFields DEF Owned
  <2> QED BY <2>4, <2>5, <2>6
<1>3. CASE /\ req[r].pc = "consume"
           /\ consent' = [consent EXCEPT ![req[r].consent].consumed = TRUE]
  BY <1>3 DEF Typed, TypeOK
<1> QED BY <1>1, <1>2, <1>3 DEF Writes, ConsentMoves

LEMMA CodesKept ==
    ASSUME Typed, Owned, Decided, NEW r \in Requests, Writes(r), NEW n \in Consents,
           ~(Approving(req[r]) /\ req[r].pc = "code" /\ req[r].consent = n)
    PROVE  CodesOf(n)' = CodesOf(n)
<1>1. ASSUME NEW k \in Codes PROVE code'[k].consent = n <=> code[k].consent = n
  <2>1. CodeStep(r, k)
    BY CodeSteps
  <2>2. CASE req[r].pc = "code" /\ k = req[r].code
    <3>1. code[k].consent # n /\ n # None
      BY <2>2, UnusedFields, ConstantsTyped DEF Owned, Deciding
    <3> QED BY <2>2, <3>1, NewCode
  <2> QED BY <2>1, <2>2 DEF CodeStep
<1> QED BY <1>1 DEF CodesOf

\* The decision claims the page or voids it.
LEMMA ConsumeImplements ==
    ASSUME Typed, Owned, Decided, NEW r \in Requests, Writes(r), NEW q,
           Becomes(r, q), Moves(r, q), ConsumesOnce(r, q), req[r].pc = "consume"
    PROVE  Implements
<1> PICK n \in Consents : n = req[r].consent
  BY ApprovingHasPage
<1>1. /\ req'[r] = q /\ \A s \in Requests \ {r} : req'[s] = req[s]
  BY DEF Becomes, Typed, TypeOK
<1>2. \A m \in Consents : CodesOf(m)' = CodesOf(m)
  BY CodesKept
<1>3. ~Approving(req[r])
  BY DEF Approving
<1>4. \A m \in Consents \ {n} : consent'[m].consumed <=> consent[m].consumed
  BY ConsumedKept
<1>5. Yields' = Yields
  BY <1>2 DEF Yields
<1>6. CASE q = Idle
  <2>1. \A s \in Requests, m \in Consents : ClaimedBy(s, m)' <=> ClaimedBy(s, m)
    BY <1>1, <1>3, <1>6, IdleFields DEF ClaimedBy, Approving
  <2>2. \A m \in Consents \ {n} : PageStatus(m)' = PageStatus(m)
    BY <1>4, <2>1, StatusStays
  <2>3. CASE consent'[n].consumed <=> consent[n].consumed
    <3>1. PageStatus(n)' = PageStatus(n)
      BY <2>1, <2>3, StatusStays
    <3> QED BY <1>2, <2>2, <3>1, Stutters
  <2>4. CASE ~(consent'[n].consumed <=> consent[n].consumed)
    <3>1. ~consent[n].consumed /\ consent'[n].consumed
      BY <2>4, ConsentSteps DEF ConsentStep, Active
    <3>2. ~Claimed(n)
      BY <3>1 DEF Claimed, ClaimedBy, Decided, ApprovedBy
    <3>3. ~Claimed(n)'
      BY <2>1, <3>2 DEF Claimed
    <3>4. PageStatus(n) = "open" /\ PageStatus(n)' = "settled"
      BY <3>1, <3>3, StatusIs DEF PageStatus, Claimed, ClaimedBy, Approving
    <3> QED BY <1>5, <2>2, <3>4, StatusMoves DEF Implements, Artifact!Next, Artifact!Void, Yields
  <2> QED BY <2>3, <2>4
<1>7. CASE q # Idle
  <2>1. GoesOn(req[r], q)
    BY <1>7, IdleFields DEF Moves
  <2>2. q.consent = n /\ Approving(q)
    BY <2>1 DEF GoesOn, Same, Approving
  <2>3. ~consent[n].consumed /\ consent'[n].consumed
    BY <2>1, <2>2, ConsumeWins
  <2>4. \A s \in Requests, m \in Consents :
          ClaimedBy(s, m)' <=> ClaimedBy(s, m) \/ (s = r /\ m = n)
    BY <1>1, <1>3, <2>2 DEF ClaimedBy, Approving
  <2>5. \A m \in Consents \ {n} : PageStatus(m)' = PageStatus(m)
    BY <1>4, <2>4, StatusStays
  <2>6. Claimed(n)'
    BY <2>4 DEF Claimed
  <2>7. PageStatus(n) = "open" /\ PageStatus(n)' = "claimed"
    BY <2>3, <2>6 DEF PageStatus, Claimed, ClaimedBy, Approving
  <2> QED BY <1>5, <2>5, <2>7, StatusMoves DEF Implements, Artifact!Next, Artifact!Claim, Yields
<1> QED BY <1>6, <1>7

\* The approved request goes on, yields its code or gives up.
LEMMA ApprovedImplements ==
    ASSUME Typed, Owned, Decided, NEW r \in Requests, Writes(r), NEW q,
           Becomes(r, q), Moves(r, q), Approving(req[r])
    PROVE  Implements
<1> PICK n \in Consents : n = req[r].consent
  BY ApprovingHasPage
<1>1. /\ req'[r] = q /\ \A s \in Requests \ {r} : req'[s] = req[s]
  BY DEF Becomes, Typed, TypeOK
<1>2. \A m \in Consents : consent'[m].consumed <=> consent[m].consumed
  BY ConsumedKept DEF Approving
<1>3. \A m \in Consents \ {n} : CodesOf(m)' = CodesOf(m)
  BY CodesKept
<1>4. consent[n].consumed /\ CodesOf(n) = {}
  BY DEF Decided, ApprovedBy, CodesOf
<1>5. CASE q # Idle
  <2>1. Approving(q) /\ q.consent = n /\ req[r].pc = "validate"
    BY <1>5, IdleFields DEF Moves, GoesOn, Same, Approving
  <2>2. \A s \in Requests, m \in Consents : ClaimedBy(s, m)' <=> ClaimedBy(s, m)
    BY <1>1, <2>1 DEF ClaimedBy, Approving
  <2>3. CodesOf(n)' = CodesOf(n)
    BY <2>1, CodesKept
  <2>4. \A m \in Consents : PageStatus(m)' = PageStatus(m)
    BY <1>2, <2>2, StatusStays
  <2> QED BY <1>3, <2>3, <2>4, Stutters
<1>6. CASE q = Idle
  <2>1. \A s \in Requests, m \in Consents :
          ClaimedBy(s, m)' <=> ClaimedBy(s, m) /\ ~(s = r /\ m = n)
    BY <1>1, <1>6, IdleFields DEF ClaimedBy, Approving
  <2>2. \A s \in Requests \ {r} : ~ClaimedBy(s, n)
    BY DEF Decided, Alone, ClaimedBy
  <2>3. Claimed(n) /\ ~Claimed(n)'
    BY <2>1, <2>2 DEF Claimed, ClaimedBy
  <2>4. PageStatus(n) = "claimed" /\ PageStatus(n)' = "settled"
    BY <1>2, <1>4, <2>3 DEF PageStatus, Claimed, ClaimedBy, Approving
  <2>5. \A m \in Consents \ {n} : PageStatus(m)' = PageStatus(m)
    BY <1>2, <2>1, StatusStays
  <2>6. Artifact!Move(n, "claimed", "settled")
    BY <2>4, <2>5, StatusMoves
  <2>7. CASE CodesOf(n)' = CodesOf(n)
    <3>1. Yields' = Yields
      BY <1>3, <2>7 DEF Yields
    <3> QED BY <2>6, <3>1 DEF Implements, Artifact!Next, Artifact!Abandon, Yields
  <2>8. CASE CodesOf(n)' # CodesOf(n)
    <3>1. \A k \in CodesOf(n)' : k = req[r].code
      BY <1>4, NewCode DEF CodesOf
    <3>2. CodesOf(n)' = {req[r].code}
      BY <1>4, <2>8, <3>1
    <3>3. Cardinality(CodesOf(n)) = 0 /\ Cardinality(CodesOf(n)') = 1
      BY <1>4, <3>2, FS_EmptySet, FS_Singleton
    <3>4. Yields' = [Yields EXCEPT ![n] = @ + 1]
      BY <1>3, <3>3 DEF Yields
    <3> QED BY <2>6, <3>4 DEF Implements, Artifact!Next, Artifact!Yield, Yields
  <2> QED BY <2>7, <2>8
<1> QED BY <1>5, <1>6

LEMMA ActsImplements ==
    ASSUME Typed, Owned, Decided, NEW r \in Requests, Acts(r) PROVE Implements
<1> PICK q : Becomes(r, q) /\ Moves(r, q)
  BY MovesStep
<1>1. Writes(r) /\ ConsumesOnce(r, q)
  BY WritesStep, ConsumesStep
<1>2. CASE ~Approving(req[r]) /\ req[r].pc # "consume"
  <2>1. ~Approving(q)
    BY <1>2, Known, IdleFields DEF Moves, Begins, GoesOn, Same, Approving, RequestKnown
  <2>2. \A s \in Requests, n \in Consents : ClaimedBy(s, n)' <=> ClaimedBy(s, n)
    BY <1>2, <2>1 DEF Becomes, Typed, TypeOK, ClaimedBy, Approving
  <2>3. \A n \in Consents : /\ consent'[n].consumed <=> consent[n].consumed
                            /\ CodesOf(n)' = CodesOf(n)
    BY <1>1, <1>2, ConsumedKept, CodesKept
  <2>4. \A n \in Consents : PageStatus(n)' = PageStatus(n)
    BY <2>2, <2>3, StatusStays
  <2> QED BY <2>3, <2>4, Stutters
<1> QED BY <1>1, <1>2, ConsumeImplements, ApprovedImplements

\* The administrator and the clock decide no page.
LEMMA SurroundingsImplement ==
    ASSUME Typed, \/ UNCHANGED vars \/ Tick
                  \/ \E c \in Clients, row \in Registration : Patch(c, row)
    PROVE  Implements
<1>1. UNCHANGED <<consent, code>>
  BY PatchMoves DEF vars, store, Tick
<1>2. \A s \in Requests : /\ req'[s].pc = req[s].pc /\ req'[s].consent = req[s].consent
                          /\ req'[s].approve = req[s].approve
  BY PatchMoves DEF vars, Tick
<1>3. \A n \in Consents : PageStatus(n)' = PageStatus(n) /\ CodesOf(n)' = CodesOf(n)
  BY <1>1, <1>2 DEF PageStatus, CodesOf
<1> QED BY <1>3, Stutters

LEMMA InitImplements == ASSUME Init PROVE Artifact!Init
<1>1. \A n \in Consents : PageStatus(n) = "open" /\ CodesOf(n) = {}
  BY UnusedFields, ConstantsTyped DEF Init, PageStatus, CodesOf
<1> QED BY <1>1, FS_EmptySet DEF Artifact!Init

\* A consent page is claimed by one approval or voided by one denial, and only
\* the approved request may turn it into a code, once, whatever tabs post it,
\* requests fail and registrations change meanwhile (app.ts, handleConsentPost).
THEOREM Refinement == Spec => IsOneTimeArtifact
<1>1. Init => Typed /\ Owned /\ Decided /\ Artifact!Init
  BY TypedInit, OwnedInit, DecidedInit, InitImplements
<1>2. Typed /\ Owned /\ Decided /\ [Next]_vars => (Typed /\ Owned /\ Decided)'
  BY TypedStep, OwnedStep, DecidedStep
<1>3. Typed /\ Owned /\ Decided /\ [Next]_vars => [Artifact!Next]_<<Statuses, Yields>>
  BY NextIsActs, ActsImplements, SurroundingsImplement DEF NextActs, Implements
<1> QED BY <1>1, <1>2, <1>3, PTL
        DEF Spec, IsOneTimeArtifact, Artifact!Spec, Statuses, Yields

\* A consent page ends in one authorization code at most, and no request works
\* on it any more once it has.
THEOREM YieldsOnce == Spec => []Artifact!YieldsOnce
BY Refinement, Artifact!AtMostOne, PTL DEF IsOneTimeArtifact
===============================================================================
