--------------------------- MODULE SigningKeysProofs ---------------------------
(***************************************************************************)
(* Theorems about SigningKeys, for any number of tokens, requests, keys,   *)
(* rotations and failures.                                                 *)
(***************************************************************************)
EXTENDS SigningKeys, FiniteSetTheorems, WellFoundedInduction, TLAPS

-----------------------------------------------------------------------------
(* What a request carries depends on where it is. *)

Making == {"insert", "put", "rollback"}
Presenting == {"scope", "introspect", "query", "revoke"}

RequestKnown(q) ==
    /\ q \in Request
    /\ q.kind \in Presenting => q.subject \in Tokens /\ signedBy[q.subject] \in Keys
    /\ q.pc \in Making => q.key \in Keys /\ q.stage # "verify"
    /\ q.pc = "get" => q.seen # {}
    /\ q.pc \in {"list", "get"} /\ q.stage = "verify" =>
         q.kind \in {"scope", "introspect", "revoke"}
    /\ q.pc = "isRevoked" => q.kind = "introspect"
    /\ q.pc = "jwks" => q.kind = "query"
    /\ q.pc = "revoke" => q.kind = "revoke"
    /\ q.pc = "retire" => q.kind = "rotate"
    /\ q.pc = "active" => q.kind \in {"introspect", "query"}

Typed == TypeOK /\ \A r \in Requests : RequestKnown(req[r])

-----------------------------------------------------------------------------
(* A key has one maker, its row precedes its material, and no row returns. *)

Verifying(r) == req[r].pc = "get" /\ req[r].stage = "verify"
KeyOf(r) == signedBy[req[r].subject]

KeysMade ==
    /\ \A k \in Keys : k > made => row[k] = "none" /\ k \notin material
    /\ \A k \in material : row[k] # "none"
    /\ \A t \in Tokens : signedBy[t] # NoKey => signedBy[t] \in material

Makers ==
    /\ \A r \in Requests : req[r].pc \in Making =>
         /\ req[r].key <= made /\ req[r].key \notin material
         /\ req[r].pc = "insert" => row[req[r].key] = "none"
         /\ req[r].pc = "put" => row[req[r].key] # "none"
    /\ \A r, q \in Requests : req[r].pc \in Making /\ req[q].pc \in Making /\ r # q =>
                                req[r].key # req[q].key

Kept == KeysMade /\ Makers

\* What a request has listed was active together, and is retired together.
ListedBy(r) ==
    req[r].pc = "get" =>
        /\ \A k \in req[r].seen : k <= made
        /\ \A q \in Requests : req[q].pc = "insert" => req[q].key \notin req[r].seen
        /\ \A j, k \in req[r].seen : row[k] = "retired" => row[j] # "active"
        /\ Verifying(r) => KeyOf(r) \in req[r].seen \/ row[KeyOf(r)] = "retired"
Listed == \A r \in Requests : ListedBy(r)

(* A token signed before a rotation has a retired key, which no request    *)
(* that began after the rotation has listed.                               *)

RotatedBy(r) ==
    "rotated" \in req[r].barred =>
         /\ req[r].subject \in rotatedOut
         /\ Verifying(r) => KeyOf(r) \notin req[r].seen
         /\ req[r].pc \notin {"isRevoked", "active"}
         /\ ~(req[r].kind = "query" /\ req[r].stage = "sign")

RotatedOut ==
    /\ \A t \in rotatedOut : signedBy[t] # NoKey /\ row[signedBy[t]] = "retired"
    /\ \A r \in Requests : RotatedBy(r)

(* A token whose revocation was answered has a row, or is dead: its key is *)
(* retired or not the newest one with material, and stays so.              *)

Dead(t) ==
    \/ row[signedBy[t]] = "retired"
    \/ \E k \in material : k > signedBy[t] /\ row[k] = "active"

RevokedBy(r) ==
    "revoked" \in req[r].barred =>
         /\ req[r].subject \in answered
         /\ Verifying(r) => \/ req[r].subject \in revocations
                            \/ KeyOf(r) \notin req[r].seen
                            \/ \E k \in req[r].seen \cap material : k > KeyOf(r)
         /\ req[r].pc = "isRevoked" => req[r].subject \in revocations
         /\ ~(req[r].pc = "active" /\ req[r].kind = "introspect")

Revoked ==
    /\ \A t \in answered : signedBy[t] # NoKey /\ (t \in revocations \/ Dead(t))
    /\ \A r \in Requests : RevokedBy(r)

-----------------------------------------------------------------------------
(* The order of the keys *)

\* A set of natural numbers with a bound has a greatest element.
LEMMA GreatestExists ==
    ASSUME NEW N \in Nat, NEW S \in SUBSET (1..N), S # {}
    PROVE  \E k \in S : \A j \in S : j <= k
<1> DEFINE T == {n \in Nat : N - n \in S}
           R == OpToRel(<, Nat)
<1>1. IsWellFoundedOn(R, Nat)
  BY NatLessThanWellFounded
<1>2. \A k \in S : N - k \in Nat /\ N - (N - k) = k /\ k \in Nat
  OBVIOUS
<1>3. T \subseteq Nat /\ T # {}
  BY <1>2
<1>4. \A x, y \in Nat : y < x => <<y, x>> \in R
  BY DEF OpToRel
<1> HIDE DEF R
<1>5. PICK x \in T : \A y \in T : ~(<<y, x>> \in R)
  <2> HIDE DEF T
  <2> QED BY <1>1, <1>3, WFMin
<1>6. x \in Nat /\ N - x \in S
  OBVIOUS
<1>7. ASSUME NEW j \in S PROVE j <= N - x
  <2>1. N - j \in T
    BY <1>2
  <2>2. ~(N - j < x)
    BY <1>2, <1>4, <1>5, <1>6, <2>1
  <2> QED BY <1>2, <1>6, <2>2
<1> QED BY <1>6, <1>7

LEMMA NewestIsNewest ==
    ASSUME NEW S \in SUBSET Keys, S # {}
    PROVE  Newest(S) \in S /\ \A j \in S : j <= Newest(S)
<1>1. \E k \in S : \A j \in S : j <= k
  BY GreatestExists, KeysAssumption DEF Keys
<1> QED BY <1>1 DEF Newest

-----------------------------------------------------------------------------
(* The records a request becomes *)

Carries(p, q) ==
    q \in Request /\ q.kind = p.kind /\ q.subject = p.subject /\ q.barred = p.barred

\* A request that has its key, or needs none, goes on or ends.
Beyond == {"idle", "list", "retire", "jwks", "isRevoked", "revoke", "active"}
GoesOn(p, q) ==
    /\ Carries(p, q) /\ q.pc \in Beyond
    /\ q.kind = "query" /\ q.stage = "sign" => p.stage = "sign"
    /\ q.pc = "isRevoked" => p.stage = "verify"
    /\ q.pc = "active" => p.stage = "sign" /\ p.kind = "query"

LEMMA IdleKnown ==
    /\ Idle \in Request /\ RequestKnown(Idle) /\ RequestKnown(Idle)'
    /\ Idle.pc = "idle" /\ Idle.kind = "issue" /\ Idle.stage = "entry"
    /\ Idle.barred = {}
BY DEF Idle, Request, RequestKnown, PCs, Kinds, Stages, Making, Presenting

LEMMA LoadFields ==
    ASSUME NEW q \in Request, NEW stage \in Stages
    PROVE  /\ Carries(q, Load(q, stage))
           /\ Load(q, stage).pc = "list" /\ Load(q, stage).stage = stage
BY DEF Carries, Load, Request, PCs

LEMMA HandleFields ==
    ASSUME NEW q \in Request
    PROVE  /\ Carries(q, Handle(q)) /\ Handle(q).pc \in {"list", "retire", "jwks"}
           /\ Handle(q).pc = "list" => Handle(q).stage = IF q.kind = "issue" THEN "sign"
                                                         ELSE "verify"
           /\ Handle(q).pc = "list" => q.kind \notin {"query", "rotate"}
           /\ Handle(q).pc = "jwks" => q.kind = "query" /\ Handle(q).stage = q.stage
           /\ Handle(q).pc = "retire" => q.kind = "rotate"
<1>1. Carries(q, Load(q, "sign")) /\ Load(q, "sign").pc = "list"
      /\ Load(q, "sign").stage = "sign"
  BY LoadFields DEF Stages
<1>2. Carries(q, Load(q, "verify")) /\ Load(q, "verify").pc = "list"
      /\ Load(q, "verify").stage = "verify"
  BY LoadFields DEF Stages
<1>3. CASE q.kind = "issue"
  BY <1>1, <1>3 DEF Handle
<1>4. CASE q.kind = "rotate"
  <2>1. Handle(q) = [q EXCEPT !.pc = "retire", !.key = NoKey]
    BY <1>4 DEF Handle
  <2> QED BY <1>4, <2>1 DEF Carries, Request, PCs
<1>5. CASE q.kind = "query"
  <2>1. Handle(q) = [q EXCEPT !.pc = "jwks", !.key = NoKey]
    BY <1>5 DEF Handle
  <2> QED BY <1>5, <2>1 DEF Carries, Request, PCs
<1>6. CASE q.kind \notin {"issue", "rotate", "query"}
  <2>1. Handle(q) = Load(q, "verify")
    BY <1>6 DEF Handle
  <2> QED BY <1>2, <1>6, <2>1
<1> QED BY <1>3, <1>4, <1>5, <1>6

LEMMA VerifiedFields ==
    ASSUME NEW q \in Request, q.kind \in {"scope", "introspect", "revoke"}
    PROVE  /\ Carries(q, Verified(q)) /\ Verified(q).pc \in {"list", "isRevoked", "revoke"}
           /\ Verified(q).pc = "list" => Verified(q).stage = "sign"
           /\ Verified(q).pc = "isRevoked" => q.kind = "introspect"
           /\ Verified(q).pc = "revoke" => q.kind = "revoke"
<1>1. Carries(q, Load(q, "sign")) /\ Load(q, "sign").pc = "list"
      /\ Load(q, "sign").stage = "sign"
  BY LoadFields DEF Stages
<1>2. CASE q.kind = "introspect"
  <2>1. Verified(q) = [q EXCEPT !.pc = "isRevoked", !.seen = {}, !.caller = NoCaller]
    BY <1>2 DEF Verified
  <2> QED BY <1>2, <2>1 DEF Carries, Request, PCs
<1>3. CASE q.kind = "revoke"
  <2>1. Verified(q) = [q EXCEPT !.pc = "revoke", !.seen = {}, !.caller = NoCaller]
    BY <1>3 DEF Verified
  <2> QED BY <1>3, <2>1 DEF Carries, Request, PCs
<1>4. CASE q.kind = "scope"
  <2>1. Verified(q) = Load(q, "sign")
    BY <1>4 DEF Verified
  <2> QED BY <1>1, <1>4, <2>1
<1> QED BY <1>2, <1>3, <1>4

\* What the steps share: one request becomes q, and a token keeps its key.
KeepsKeys == \A t \in Tokens : signedBy[t] \in Keys => signedBy'[t] = signedBy[t]

LEMMA Becoming ==
    ASSUME req \in [Requests -> Request], NEW r \in Requests, NEW q, Become(r, q)
    PROVE  req'[r] = q /\ \A s \in Requests \ {r} : req'[s] = req[s]
BY DEF Become

LEMMA KnownStays ==
    ASSUME NEW q, RequestKnown(q), KeepsKeys
    PROVE  RequestKnown(q)'
BY DEF RequestKnown, KeepsKeys

LEMMA KnownMoves ==
    ASSUME NEW p, NEW q, RequestKnown(p), Carries(p, q), KeepsKeys,
           q.pc \in Making => q.key \in Keys /\ q.stage # "verify",
           q.pc = "get" => q.seen # {},
           q.pc \in {"list", "get"} /\ q.stage = "verify" =>
             q.kind \in {"scope", "introspect", "revoke"},
           q.pc = "isRevoked" => q.kind = "introspect",
           q.pc = "jwks" => q.kind = "query",
           q.pc = "revoke" => q.kind = "revoke",
           q.pc = "retire" => q.kind = "rotate",
           q.pc = "active" => q.kind \in {"introspect", "query"}
    PROVE  RequestKnown(q)'
BY DEF RequestKnown, KeepsKeys, Carries

LEMMA KnownTogether ==
    ASSUME Typed, NEW r \in Requests, NEW q, Become(r, q), q \in Request,
           RequestKnown(q)', KeepsKeys
    PROVE  /\ req' \in [Requests -> Request]
           /\ \A s \in Requests : RequestKnown(req[s])'
<1>1. req \in [Requests -> Request]
  BY DEF Typed, TypeOK
<1>2. ASSUME NEW s \in Requests PROVE RequestKnown(req[s])'
  <2>1. CASE s = r
    BY <1>1, <2>1, Becoming
  <2>2. CASE s # r
    <3>1. req'[s] = req[s]
      BY <1>1, <2>2, Becoming
    <3>2. RequestKnown(req[s])
      BY DEF Typed
    <3>3. \A u : RequestKnown(u) => RequestKnown(u)'
      BY KnownStays
    <3> QED BY <3>1, <3>2, <3>3 DEF RequestKnown
  <2> QED BY <2>1, <2>2
<1>3. req' \in [Requests -> Request]
  BY <1>1 DEF Become
<1> QED BY <1>2, <1>3

-----------------------------------------------------------------------------
(* What each step makes of its request *)

Arrives(r) == \E kind \in Kinds, s \in Tokens \cup {NoToken}, w \in Callers \cup {NoCaller} :
                  Arrive(r, kind, s, w)
Becomes(r, q) == Become(r, q) /\ q \in Request /\ RequestKnown(q)'
Leaves(r, q) == Becomes(r, q) /\ (q = Idle \/ GoesOn(req[r], q))

LEMMA Known ==
    ASSUME Typed, NEW r \in Requests
    PROVE  req[r] \in Request /\ RequestKnown(req[r])
BY DEF Typed, TypeOK

LEMMA IdleLeaves ==
    ASSUME NEW r \in Requests, Become(r, Idle)
    PROVE  Leaves(r, Idle)
BY IdleKnown DEF Leaves, Becomes

LEMMA SignKeeps ==
    ASSUME NEW k, NEW t \in Tokens \ Issued, Typed, k \in Keys,
           signedBy' = [signedBy EXCEPT ![t] = k]
    PROVE  KeepsKeys /\ signedBy' \in [Tokens -> Keys \cup {NoKey}]
BY DEF KeepsKeys, Issued, Typed, TypeOK, Keys, NoKey

LEMMA GoesKnown ==
    ASSUME Typed, NEW r \in Requests, NEW q, GoesOn(req[r], q), Become(r, q), KeepsKeys,
           q.pc = "list" /\ q.stage = "verify" =>
             q.kind \in {"scope", "introspect", "revoke"},
           q.pc = "isRevoked" => q.kind = "introspect",
           q.pc = "jwks" => q.kind = "query",
           q.pc = "revoke" => q.kind = "revoke",
           q.pc = "retire" => q.kind = "rotate"
    PROVE  Leaves(r, q)
<1>1. q \in Request /\ q.pc \notin Making /\ q.pc # "get"
      /\ (q.pc = "active" => q.kind = "query")
  BY DEF GoesOn, Carries, Beyond, Making
<1>2. RequestKnown(q)'
  BY <1>1, Known, KnownMoves DEF GoesOn
<1> QED BY <1>1, <1>2 DEF Leaves, Becomes

LEMMA HandleLeaves ==
    ASSUME Typed, NEW r \in Requests, Become(r, Handle(req[r])), KeepsKeys
    PROVE  Leaves(r, Handle(req[r]))
<1>1. PICK q : q = Handle(req[r])
  OBVIOUS
<1>2. /\ Carries(req[r], q) /\ q.pc \in {"list", "retire", "jwks"}
      /\ q.pc = "list" => q.stage = IF req[r].kind = "issue" THEN "sign" ELSE "verify"
      /\ q.pc = "list" => req[r].kind \notin {"query", "rotate"}
      /\ q.pc = "jwks" => req[r].kind = "query" /\ q.stage = req[r].stage
      /\ q.pc = "retire" => req[r].kind = "rotate"
  BY <1>1, Known, HandleFields
<1>3. q.kind = req[r].kind /\ q.kind \in Kinds
  BY <1>2, Known DEF Carries, Request
<1>4. CASE q.pc # "retire"
  <2>1. GoesOn(req[r], q)
    BY <1>2, <1>3, <1>4 DEF GoesOn, Beyond
  <2> QED BY <1>1, <1>2, <1>3, <1>4, <2>1, GoesKnown DEF Kinds
<1>5. CASE q.pc = "retire"
  <2>1. q.kind # "query"
    BY <1>2, <1>3, <1>5
  <2>2. GoesOn(req[r], q)
    BY <1>2, <1>3, <1>5, <2>1 DEF GoesOn, Beyond
  <2> QED BY <1>1, <1>2, <1>3, <1>5, <2>2, GoesKnown
<1> QED BY <1>4, <1>5

LEMMA VerifiedLeaves ==
    ASSUME Typed, NEW r \in Requests, Become(r, Verified(req[r])), KeepsKeys,
           req[r].stage = "verify", req[r].kind \in {"scope", "introspect", "revoke"}
    PROVE  Leaves(r, Verified(req[r]))
<1>1. PICK q : q = Verified(req[r])
  OBVIOUS
<1>2. /\ Carries(req[r], q) /\ q.pc \in {"list", "isRevoked", "revoke"}
      /\ q.pc = "list" => q.stage = "sign"
      /\ q.pc = "isRevoked" => req[r].kind = "introspect"
      /\ q.pc = "revoke" => req[r].kind = "revoke"
  BY <1>1, Known, VerifiedFields
<1>3. q.kind = req[r].kind
  BY <1>2 DEF Carries
<1>4. GoesOn(req[r], q)
  BY <1>2, <1>3 DEF GoesOn, Beyond
<1> QED BY <1>1, <1>2, <1>3, <1>4, GoesKnown

\* The tokens signed by a step: none, or one more, with the key at hand.
SignsWith(k) ==
    \/ UNCHANGED signedBy
    \/ \E t \in Tokens \ Issued : signedBy' = [signedBy EXCEPT ![t] = k]

LEMMA SignsKeeps ==
    ASSUME Typed, NEW k \in Keys, SignsWith(k)
    PROVE  KeepsKeys /\ signedBy' \in [Tokens -> Keys \cup {NoKey}]
<1>1. CASE UNCHANGED signedBy
  BY <1>1 DEF KeepsKeys, Typed, TypeOK
<1>2. CASE \E t \in Tokens \ Issued : signedBy' = [signedBy EXCEPT ![t] = k]
  BY <1>2, SignKeeps
<1> QED BY <1>1, <1>2 DEF SignsWith

LEMMA UseKeyMoves ==
    ASSUME Typed, NEW r \in Requests, NEW k \in Keys, UseKey(r, k),
           req[r].stage = "verify" => req[r].kind \in {"scope", "introspect", "revoke"}
    PROVE  /\ SignsWith(k) /\ KeepsKeys
           /\ UNCHANGED <<row, revocations, bounds, history>>
           /\ \E q : Leaves(r, q) /\ (q.pc = "isRevoked" => KeyOf(r) = k)
<1>1. CASE /\ req[r].stage = "entry" /\ Become(r, Handle(req[r]))
           /\ UNCHANGED <<row, signedBy, revocations, bounds, history>>
  <2>1. SignsWith(k) /\ KeepsKeys
    BY <1>1, SignsKeeps DEF SignsWith
  <2>2. Leaves(r, Handle(req[r])) /\ Handle(req[r]).pc # "isRevoked"
    BY <1>1, <2>1, HandleLeaves, HandleFields, Known
  <2> QED BY <1>1, <2>1, <2>2
<1>2. CASE /\ req[r].stage = "verify" /\ Accepted(req[r], k)
           /\ Become(r, Verified(req[r]))
           /\ UNCHANGED <<row, signedBy, revocations, bounds, history>>
  <2>1. SignsWith(k) /\ KeepsKeys
    BY <1>2, SignsKeeps DEF SignsWith
  <2>2. Leaves(r, Verified(req[r]))
    BY <1>2, <2>1, VerifiedLeaves
  <2> QED BY <1>2, <2>1, <2>2 DEF KeyOf, Accepted
<1>3. CASE req[r].stage = "sign" /\ Sign(r, k)
  <2>1. SignsWith(k) /\ UNCHANGED <<row, revocations, bounds, history>>
    BY <1>3 DEF Sign, SignsWith
  <2>2. KeepsKeys
    BY <2>1, SignsKeeps
  <2>3. CASE Become(r, Idle)
    BY <2>1, <2>2, <2>3, IdleLeaves, IdleKnown
  <2>4. CASE /\ req[r].kind = "query"
             /\ Become(r, [req[r] EXCEPT !.pc = "active", !.seen = {}, !.key = NoKey])
    <3>1. PICK q : q = [req[r] EXCEPT !.pc = "active", !.seen = {}, !.key = NoKey]
      OBVIOUS
    <3>2. Carries(req[r], q) /\ q.pc = "active" /\ q.kind = "query"
      BY <2>4, <3>1, Known DEF Carries, Request, PCs
    <3>3. GoesOn(req[r], q)
      BY <1>3, <3>2 DEF GoesOn, Beyond, Carries
    <3>4. Leaves(r, q)
      BY <2>2, <2>4, <3>1, <3>2, <3>3, GoesKnown
    <3> QED BY <2>1, <2>2, <3>2, <3>4
  <2> QED BY <1>3, <2>3, <2>4 DEF Sign
<1> QED BY <1>1, <1>2, <1>3 DEF UseKey

LEMMA ArriveMoves ==
    ASSUME Typed, NEW r \in Requests, NEW kind \in Kinds,
           NEW s \in Tokens \cup {NoToken},
           NEW w \in Callers \cup {NoCaller}, Arrive(r, kind, s, w)
    PROVE  \E q : /\ Becomes(r, q) /\ q.pc = "enter" /\ q.barred = Barred(s)
                  /\ q.kind = kind /\ q.subject = s /\ q.stage = "entry"
<1>1. PICK q : q = [Idle EXCEPT !.pc = "enter", !.kind = kind, !.subject = s,
                                !.caller = w, !.barred = Barred(s)]
  OBVIOUS
<1>2. /\ q \in Request /\ q.pc = "enter" /\ q.barred = Barred(s)
      /\ q.kind = kind /\ q.subject = s /\ q.stage = "entry"
  BY <1>1, IdleKnown DEF Idle, Request, PCs, Barred, Stages
<1>3. Become(r, q)
  BY <1>1 DEF Arrive
<1>4. kind \in Presenting => s \in Tokens /\ signedBy[s] \in Keys
  BY DEF Arrive, Presenting, Issued, Typed, TypeOK
<1>5. signedBy' = signedBy
  BY DEF Arrive
<1>6. RequestKnown(q)'
  BY <1>2, <1>4, <1>5 DEF RequestKnown, Making
<1> QED BY <1>2, <1>3, <1>6 DEF Becomes

LEMMA EnterMoves ==
    ASSUME Typed, NEW r \in Requests, Enter(r)
    PROVE  \E q : Leaves(r, q) /\ q.pc \notin {"isRevoked", "active"}
<1>1. KeepsKeys
  BY DEF Enter, UnchangedButReq, KeepsKeys
<1>2. CASE Become(r, Handle(req[r]))
  BY <1>1, <1>2, HandleLeaves, HandleFields, Known
<1>3. CASE Become(r, Load(req[r], "entry"))
  <2>1. PICK q : q = Load(req[r], "entry")
    OBVIOUS
  <2>2. Carries(req[r], q) /\ q.pc = "list" /\ q.stage = "entry"
    BY <2>1, LoadFields, Known DEF Stages
  <2>3. GoesOn(req[r], q)
    BY <2>2 DEF GoesOn, Beyond
  <2> QED BY <1>1, <1>3, <2>1, <2>2, <2>3, GoesKnown
<1>4. CASE Become(r, Idle)
  BY <1>4, IdleLeaves, IdleKnown
<1> QED BY <1>2, <1>3, <1>4 DEF Enter

LEMMA ListMoves ==
    ASSUME Typed, NEW r \in Requests, ListKeys(r)
    PROVE  \E q : /\ Becomes(r, q) /\ Carries(req[r], q) /\ q.pc = "get"
                  /\ q.stage = req[r].stage /\ q.seen = ActiveKeys
<1>1. PICK q : q = [req[r] EXCEPT !.pc = "get", !.seen = ActiveKeys]
  OBVIOUS
<1>2. /\ Carries(req[r], q) /\ q.pc = "get" /\ q.stage = req[r].stage
      /\ q.seen = ActiveKeys
  BY <1>1, Known DEF Carries, Request, PCs, ActiveKeys
<1>3. KeepsKeys /\ Become(r, q) /\ q.seen # {} /\ req[r].pc = "list"
  BY <1>1, <1>2 DEF ListKeys, UnchangedButReq, KeepsKeys
<1>4. q.stage = "verify" => q.kind \in {"scope", "introspect", "revoke"}
  BY <1>2, <1>3, Known DEF RequestKnown, Carries
<1>5. RequestKnown(q)'
  BY <1>2, <1>3, <1>4, Known, KnownMoves DEF Making
<1> QED BY <1>2, <1>3, <1>5 DEF Becomes, Carries

LEMMA NoKeyMoves ==
    ASSUME Typed, NEW r \in Requests, ListNoKey(r)
    PROVE  \/ Leaves(r, Idle) /\ Rejected(r) /\ req[r].stage = "verify"
           \/ /\ made < MaxKeys /\ made' = made + 1
              /\ UNCHANGED <<row, material, signedBy, revocations, rotations,
                             failures, history>>
              /\ \E q : /\ Becomes(r, q) /\ Carries(req[r], q) /\ q.pc = "insert"
                        /\ q.stage = req[r].stage /\ q.stage # "verify"
                        /\ q.key = made + 1
<1>1. CASE req[r].stage = "verify" /\ Rejected(r)
  BY <1>1, IdleLeaves DEF Rejected
<1>2. CASE /\ req[r].stage # "verify" /\ made < MaxKeys
           /\ Become(r, [req[r] EXCEPT !.pc = "insert", !.key = made + 1])
           /\ made' = made + 1
           /\ UNCHANGED <<row, material, signedBy, revocations, rotations,
                          failures, history>>
  <2>1. PICK q : q = [req[r] EXCEPT !.pc = "insert", !.key = made + 1]
    OBVIOUS
  <2>2. made + 1 \in Keys
    BY <1>2, KeysAssumption DEF Typed, TypeOK, Keys
  <2>3. /\ Carries(req[r], q) /\ q.pc = "insert" /\ q.stage = req[r].stage
        /\ q.key = made + 1
    BY <2>1, <2>2, Known DEF Carries, Request, PCs
  <2>4. KeepsKeys
    BY <1>2 DEF KeepsKeys
  <2>5. RequestKnown(q)'
    BY <1>2, <2>2, <2>3, <2>4, Known, KnownMoves DEF Making
  <2> QED BY <1>2, <2>1, <2>3, <2>5 DEF Becomes, Carries
<1> QED BY <1>1, <1>2 DEF ListNoKey

\* What a request in "get" does with the newest key it has seen.
Gets(r, k) ==
    \/ /\ k \in material /\ SignsWith(k) /\ KeepsKeys
       /\ UNCHANGED <<row, material, revocations, bounds, history>>
       /\ \E q : Leaves(r, q) /\ (q.pc = "isRevoked" => KeyOf(r) = k)
    \/ /\ k \in material /\ Verifying(r) /\ (KeyOf(r) = k => UNCHANGED answered)
       /\ Leaves(r, Idle) /\ Rejected(r)
    \/ Leaves(r, Idle) /\ UnchangedButReq
    \/ /\ k \notin material /\ UnchangedButReq
       /\ \E q : /\ Becomes(r, q) /\ Carries(req[r], q) /\ q.pc = "get"
                 /\ q.stage = req[r].stage /\ q.seen = req[r].seen \ {k}

LEMMA GetMoves ==
    ASSUME Typed, NEW r \in Requests, GetMaterial(r)
    PROVE  \E k \in req[r].seen : Gets(r, k) /\ \A j \in req[r].seen : j <= k
<1>1. PICK k : k = Newest(req[r].seen)
  OBVIOUS
<1>2. /\ req[r].pc = "get" /\ req[r].seen \in SUBSET Keys /\ req[r].seen # {}
      /\ req[r].stage = "verify" => req[r].kind \in {"scope", "introspect", "revoke"}
  BY Known DEF GetMaterial, RequestKnown, Request
<1>3. k \in req[r].seen /\ \A j \in req[r].seen : j <= k
  BY <1>1, <1>2, NewestIsNewest
<1>4. CASE k \in material /\ UseKey(r, k) /\ UNCHANGED material
  BY <1>2, <1>3, <1>4, UseKeyMoves DEF Gets
<1>5. CASE /\ k \in material /\ req[r].stage = "verify"
           /\ ~Accepted(req[r], k) \/ req[r].kind = "scope"
           /\ Rejected(r)
  <2>1. KeyOf(r) = k => UNCHANGED answered
    BY <1>5 DEF Accepted, Rejected, KeyOf
  <2> QED BY <1>2, <1>3, <1>5, <2>1, IdleLeaves DEF Gets, Rejected, Verifying
<1>6. CASE Become(r, Idle) /\ UnchangedButReq
  BY <1>3, <1>6, IdleLeaves DEF Gets
<1>7. CASE /\ k \notin material /\ UnchangedButReq /\ req[r].seen # {k}
           /\ Become(r, [req[r] EXCEPT !.seen = @ \ {k}])
  <2>1. PICK q : q = [req[r] EXCEPT !.seen = req[r].seen \ {k}]
    OBVIOUS
  <2>2. Become(r, q)
    BY <1>7, <2>1, Known DEF Become, Request
  <2>3. /\ Carries(req[r], q) /\ q.pc = "get" /\ q.stage = req[r].stage
        /\ q.seen = req[r].seen \ {k}
    BY <1>2, <2>1, Known DEF Carries, Request
  <2>4. KeepsKeys
    BY <1>7 DEF UnchangedButReq, KeepsKeys
  <2>5. RequestKnown(q)'
    BY <1>2, <1>3, <1>7, <2>3, <2>4, Known, KnownMoves DEF Making, Carries
  <2> QED BY <1>3, <1>7, <2>2, <2>3, <2>5 DEF Gets, Becomes, Carries
<1> QED BY <1>1, <1>4, <1>5, <1>6, <1>7 DEF GetMaterial

\* A maker goes on with its key.
LEMMA MakerMoves ==
    ASSUME Typed, NEW r \in Requests, NEW pc \in Making, req[r].pc \in Making,
           Become(r, [req[r] EXCEPT !.pc = pc]), KeepsKeys
    PROVE  \E q : /\ Becomes(r, q) /\ Carries(req[r], q) /\ q.pc = pc
                  /\ q.stage = req[r].stage /\ q.key = req[r].key
<1>1. PICK q : q = [req[r] EXCEPT !.pc = pc]
  OBVIOUS
<1>2. /\ Carries(req[r], q) /\ q.pc = pc /\ q.stage = req[r].stage
      /\ q.key = req[r].key
  BY <1>1, Known DEF Carries, Request, PCs, Making
<1>3. RequestKnown(q)'
  <2>1. q.key \in Keys /\ q.stage # "verify"
    BY <1>2, Known DEF RequestKnown
  <2> QED BY <1>2, <2>1, Known, KnownMoves DEF Making
<1> QED BY <1>1, <1>2, <1>3 DEF Becomes, Carries

LEMMA RetireMoves ==
    ASSUME Typed, NEW r \in Requests, RetireKeys(r)
    PROVE  \E q : Leaves(r, q) /\ q.pc = "list"
<1>1. PICK q : q = Load(req[r], "sign")
  OBVIOUS
<1>2. Carries(req[r], q) /\ q.pc = "list" /\ q.stage = "sign"
  BY <1>1, LoadFields, Known DEF Stages
<1>3. KeepsKeys /\ Become(r, q)
  BY <1>1 DEF RetireKeys, KeepsKeys
<1>4. GoesOn(req[r], q)
  BY <1>2, Known DEF GoesOn, Beyond, Carries, RequestKnown, RetireKeys
<1> QED BY <1>2, <1>3, <1>4, GoesKnown

LEMMA JwksMoves ==
    ASSUME Typed, NEW r \in Requests, CheckJwks(r)
    PROVE  \/ Leaves(r, Idle)
           \/ /\ KeyOf(r) \in ActiveKeys /\ req[r].kind = "query"
              /\ \E q : /\ Becomes(r, q) /\ Carries(req[r], q)
                        /\ q.pc = "list" /\ q.stage = "sign"
<1>1. CASE Become(r, Idle)
  BY <1>1, IdleLeaves
<1>2. CASE KeyOf(r) \in ActiveKeys /\ Become(r, Load(req[r], "sign"))
  <2>1. PICK q : q = Load(req[r], "sign")
    OBVIOUS
  <2>2. Carries(req[r], q) /\ q.pc = "list" /\ q.stage = "sign"
    BY <2>1, LoadFields, Known DEF Stages
  <2>3. KeepsKeys /\ req[r].kind = "query"
    BY Known DEF CheckJwks, UnchangedButReq, KeepsKeys, RequestKnown
  <2>4. RequestKnown(q)'
    BY <2>2, <2>3, Known, KnownMoves DEF Making
  <2> QED BY <1>2, <2>1, <2>2, <2>3, <2>4 DEF Becomes, Carries
<1> QED BY <1>1, <1>2 DEF CheckJwks, KeyOf

LEMMA IsRevokedMoves ==
    ASSUME Typed, NEW r \in Requests, IsRevoked(r)
    PROVE  \/ Leaves(r, Idle)
           \/ /\ req[r].subject \notin revocations /\ req[r].kind = "introspect"
              /\ \E q : Becomes(r, q) /\ Carries(req[r], q) /\ q.pc = "active"
<1>1. CASE Become(r, Idle)
  BY <1>1, IdleLeaves
<1>2. CASE /\ req[r].subject \notin revocations
           /\ Become(r, [req[r] EXCEPT !.pc = "active"])
  <2>1. PICK q : q = [req[r] EXCEPT !.pc = "active"]
    OBVIOUS
  <2>2. Carries(req[r], q) /\ q.pc = "active"
    BY <2>1, Known DEF Carries, Request, PCs
  <2>3. KeepsKeys /\ req[r].kind = "introspect"
    BY Known DEF IsRevoked, UnchangedButReq, KeepsKeys, RequestKnown
  <2>4. RequestKnown(q)'
    BY <2>2, <2>3, Known, KnownMoves DEF Making, Carries
  <2> QED BY <1>2, <2>1, <2>2, <2>3, <2>4 DEF Becomes, Carries
<1> QED BY <1>1, <1>2 DEF IsRevoked

-----------------------------------------------------------------------------
(* Typed *)

SharedTyped ==
    /\ row \in [Keys -> {"none", "active", "retired"}]
    /\ material \subseteq Keys
    /\ signedBy \in [Tokens -> Keys \cup {NoKey}]
    /\ revocations \subseteq Tokens
    /\ made \in Keys /\ rotations \in 0..MaxRotations
    /\ failures \in 0..MaxFailures
    /\ answered \subseteq Tokens /\ rotatedOut \subseteq Tokens

LEMMA TypedTogether ==
    ASSUME Typed, NEW r \in Requests, NEW q, Becomes(r, q), KeepsKeys, SharedTyped'
    PROVE  Typed'
<1>1. /\ req' \in [Requests -> Request]
      /\ \A s \in Requests : RequestKnown(req[s])'
  BY KnownTogether DEF Becomes
<1> QED BY <1>1 DEF Typed, TypeOK, SharedTyped

LEMMA TypedQuietly ==
    ASSUME Typed, NEW r \in Requests, NEW q, Becomes(r, q), UnchangedButReq
    PROVE  Typed'
<1>1. KeepsKeys /\ SharedTyped'
  BY DEF Typed, TypeOK, SharedTyped, UnchangedButReq, KeepsKeys, bounds, history
<1> QED BY <1>1, TypedTogether

LEMMA TypedRejected ==
    ASSUME Typed, NEW r \in Requests, Rejected(r), req[r].kind \in Presenting
    PROVE  Typed'
<1>1. KeepsKeys /\ Becomes(r, Idle)
  BY IdleLeaves DEF Rejected, Leaves, KeepsKeys
<1>2. SharedTyped'
  BY Known DEF Rejected, Typed, TypeOK, SharedTyped, bounds, RequestKnown
<1> QED BY <1>1, <1>2, TypedTogether

LEMMA TypedStep ==
    ASSUME Typed, NEW r \in Requests,
           \/ Arrives(r)
           \/ Step(r) \/ Fail(r)
    PROVE  Typed'
<1>T. SharedTyped
  BY DEF Typed, TypeOK, SharedTyped
<1>1. ASSUME NEW kind \in Kinds, NEW s \in Tokens \cup {NoToken},
             NEW w \in Callers \cup {NoCaller}, Arrive(r, kind, s, w)
      PROVE  Typed'
  <2>1. PICK q : Becomes(r, q)
    BY <1>1, ArriveMoves
  <2>2. KeepsKeys
    BY <1>1 DEF Arrive, KeepsKeys
  <2>3. rotations' \in 0..MaxRotations
    <3>1. kind = "rotate" => rotations < MaxRotations
      BY <1>1 DEF Arrive
    <3>2. rotations' = IF kind = "rotate" THEN rotations + 1 ELSE rotations
      BY <1>1 DEF Arrive
    <3> QED BY <1>T, <3>1, <3>2, KeysAssumption DEF SharedTyped
  <2>4. UNCHANGED <<row, material, signedBy, revocations, made, failures, history>>
    BY <1>1 DEF Arrive
  <2>5. SharedTyped'
    BY <1>T, <2>3, <2>4 DEF SharedTyped, history
  <2> QED BY <2>1, <2>2, <2>5, TypedTogether
<1>2. CASE Enter(r)
  BY <1>2, EnterMoves, TypedQuietly DEF Enter, Leaves
<1>3. CASE ListKeys(r)
  BY <1>3, ListMoves, TypedQuietly DEF ListKeys
<1>4. CASE ListNoKey(r)
  <2>1. CASE Rejected(r) /\ req[r].stage = "verify"
    <3>1. req[r].kind \in Presenting
      BY <1>4, <2>1, Known DEF ListNoKey, RequestKnown, Presenting
    <3> QED BY <2>1, <3>1, TypedRejected
  <2>2. CASE /\ made < MaxKeys /\ made' = made + 1
             /\ UNCHANGED <<row, material, signedBy, revocations, rotations,
                            failures, history>>
             /\ \E q : Becomes(r, q)
    <3>1. KeepsKeys /\ SharedTyped'
      BY <1>T, <2>2, KeysAssumption DEF SharedTyped, KeepsKeys, history, Keys
    <3> QED BY <2>2, <3>1, TypedTogether
  <2> QED BY <1>4, <2>1, <2>2, NoKeyMoves
<1>5. CASE GetMaterial(r)
  <2>1. PICK k \in req[r].seen : Gets(r, k)
    BY <1>5, GetMoves
  <2>2. k \in Keys
    BY Known DEF Request
  <2>3. CASE /\ SignsWith(k) /\ KeepsKeys
             /\ UNCHANGED <<row, material, revocations, bounds, history>>
             /\ \E q : Leaves(r, q)
    <3>1. signedBy' \in [Tokens -> Keys \cup {NoKey}]
      BY <2>2, <2>3, SignsKeeps
    <3>2. UNCHANGED <<row, material, revocations, bounds, history>>
      BY <2>3
    <3>3. SharedTyped'
      BY <1>T, <3>1, <3>2 DEF SharedTyped, bounds, history
    <3> QED BY <2>3, <3>3, TypedTogether DEF Leaves
  <2>4. CASE Verifying(r) /\ Rejected(r)
    <3>1. req[r].kind \in Presenting
      BY <2>4, Known DEF RequestKnown, Presenting, Verifying
    <3> QED BY <2>4, <3>1, TypedRejected
  <2>5. CASE UnchangedButReq /\ \E q : Becomes(r, q)
    BY <2>5, TypedQuietly
  <2> QED BY <2>1, <2>3, <2>4, <2>5 DEF Gets, Leaves
<1>6. CASE InsertRow(r)
  <2>1. KeepsKeys /\ req[r].pc \in Making /\ "put" \in Making
        /\ Become(r, [req[r] EXCEPT !.pc = "put"])
    BY <1>6 DEF InsertRow, KeepsKeys, Making
  <2>2. PICK q : Becomes(r, q)
    BY <2>1, MakerMoves
  <2>3. SharedTyped'
    BY <1>T, <1>6, Known DEF InsertRow, SharedTyped, bounds, history, Request
  <2> QED BY <2>1, <2>2, <2>3, TypedTogether
<1>7. CASE PutMaterial(r)
  <2>1. req[r].key \in Keys /\ req[r].stage # "verify"
    BY <1>7, Known DEF PutMaterial, RequestKnown, Making
  <2>2. PICK q : /\ SignsWith(req[r].key) /\ KeepsKeys
                 /\ UNCHANGED <<row, revocations, bounds, history>> /\ Leaves(r, q)
    BY <1>7, <2>1, UseKeyMoves DEF PutMaterial
  <2>3. SharedTyped'
    BY <1>T, <1>7, <2>1, <2>2, SignsKeeps DEF PutMaterial, SharedTyped, bounds, history
  <2> QED BY <2>2, <2>3, TypedTogether DEF Leaves
<1>8. CASE PutFails(r)
  <2>1. KeepsKeys /\ req[r].pc \in Making /\ "rollback" \in Making
        /\ Become(r, [req[r] EXCEPT !.pc = "rollback"])
    BY <1>8 DEF PutFails, KeepsKeys, Making
  <2>2. PICK q : Becomes(r, q)
    BY <2>1, MakerMoves
  <2>3. SharedTyped'
    BY <1>T, <1>8, KeysAssumption DEF PutFails, SharedTyped, history
  <2> QED BY <2>1, <2>2, <2>3, TypedTogether
<1>9. CASE Rollback(r)
  <2>1. KeepsKeys /\ Becomes(r, Idle)
    BY <1>9, IdleLeaves DEF Rollback, KeepsKeys, Leaves
  <2>2. SharedTyped'
    BY <1>T, <1>9 DEF Rollback, SharedTyped, bounds, history
  <2> QED BY <2>1, <2>2, TypedTogether
<1>10. CASE RetireKeys(r)
  <2>1. PICK q : Becomes(r, q)
    BY <1>10, RetireMoves DEF Leaves
  <2>2. KeepsKeys /\ SharedTyped'
    BY <1>T, <1>10 DEF RetireKeys, SharedTyped, bounds, KeepsKeys, Issued
  <2> QED BY <2>1, <2>2, TypedTogether
<1>11. CASE CheckJwks(r)
  BY <1>11, JwksMoves, TypedQuietly DEF CheckJwks, Leaves
<1>12. CASE Revoke(r)
  <2>1. KeepsKeys /\ Becomes(r, Idle)
    BY <1>12, IdleLeaves DEF Revoke, KeepsKeys, Leaves
  <2>2. req[r].subject \in Tokens
    BY <1>12, Known DEF Revoke, RequestKnown, Presenting
  <2>3. SharedTyped'
    BY <1>T, <1>12, <2>2 DEF Revoke, SharedTyped, bounds
  <2> QED BY <2>1, <2>3, TypedTogether
<1>13. CASE IsRevoked(r)
  BY <1>13, IsRevokedMoves, TypedQuietly DEF IsRevoked, Leaves
<1>14. CASE Respond(r)
  BY <1>14, IdleLeaves, TypedQuietly DEF Respond, Leaves
<1>15. CASE Fail(r)
  <2>1. KeepsKeys /\ Becomes(r, Idle)
    BY <1>15, IdleLeaves DEF Fail, KeepsKeys, Leaves
  <2>2. SharedTyped'
    BY <1>T, <1>15, KeysAssumption DEF Fail, SharedTyped, history
  <2> QED BY <2>1, <2>2, TypedTogether
<1> QED BY <1>1, <1>2, <1>3, <1>4, <1>5, <1>6, <1>7, <1>8, <1>9, <1>10, <1>11,
           <1>12, <1>13, <1>14, <1>15 DEF Step, Arrives

LEMMA TypedInit == Init => Typed
<1> SUFFICES ASSUME Init PROVE Typed
  OBVIOUS
<1>1. PICK first \in {{1}, {1, 2}} :
        /\ row = [k \in Keys |-> IF k \in first THEN "active" ELSE "none"]
        /\ material = first /\ made = Cardinality(first)
        /\ signedBy = [t \in Tokens |-> NoKey] /\ revocations = {}
        /\ req = [r \in Requests |-> Idle]
        /\ rotations = 0 /\ failures = 0 /\ answered = {} /\ rotatedOut = {}
  BY DEF Init
<1>2. Cardinality({1}) = 1
  BY FS_Singleton
<1>3. Cardinality({1, 2}) = 2
  <2>1. {1, 2} = {1} \cup {2} /\ 2 \notin {1}
    OBVIOUS
  <2>2. IsFiniteSet({1})
    BY FS_Singleton
  <2> QED BY <1>2, <2>1, <2>2, FS_AddElement
<1>4. first \subseteq Keys /\ made \in Keys
  <2>1. 1 \in Keys /\ 2 \in Keys
    BY KeysAssumption DEF Keys
  <2>2. CASE first = {1}
    BY <1>1, <1>2, <2>1, <2>2
  <2>3. CASE first = {1, 2}
    BY <1>1, <1>3, <2>1, <2>3
  <2> QED BY <1>1, <2>2, <2>3
<1>5. \A r \in Requests : req[r] \in Request /\ RequestKnown(req[r])
  BY <1>1, IdleKnown
<1>6. req \in [Requests -> Request]
  BY <1>1, IdleKnown
<1> QED BY <1>1, <1>4, <1>5, <1>6, KeysAssumption DEF Typed, TypeOK

-----------------------------------------------------------------------------
(* KeysMade and Makers *)

LEMMA MakersTogether ==
    ASSUME Typed, Makers, NEW r \in Requests, NEW q, Becomes(r, q),
           made' \in Nat, made <= made',
           \A s \in Requests \ {r} : req[s].pc \in Making =>
               /\ req[s].key \notin material'
               /\ row[req[s].key] = "none" <=> row'[req[s].key] = "none",
           q.pc \in Making =>
               /\ q.key <= made' /\ q.key \notin material'
               /\ q.pc = "insert" => row'[q.key] = "none"
               /\ q.pc = "put" => row'[q.key] # "none"
               /\ \A s \in Requests \ {r} : req[s].pc \in Making => req[s].key # q.key
    PROVE  Makers'
<1>1. req'[r] = q /\ \A s \in Requests \ {r} : req'[s] = req[s]
  BY Becoming DEF Typed, TypeOK, Becomes
<1>2. \A s \in Requests : req[s].pc \in Making => req[s].key \in Nat
  BY Known DEF RequestKnown, Keys
<1>3. made \in Nat
  BY KeysAssumption DEF Typed, TypeOK, Keys
<1>4. ASSUME NEW s \in Requests, req'[s].pc \in Making
      PROVE  /\ req'[s].key <= made' /\ req'[s].key \notin material'
             /\ req'[s].pc = "insert" => row'[req'[s].key] = "none"
             /\ req'[s].pc = "put" => row'[req'[s].key] # "none"
  <2>1. CASE s = r
    BY <1>1, <1>4, <2>1
  <2>2. CASE s # r
    BY <1>1, <1>2, <1>3, <1>4, <2>2 DEF Makers
  <2> QED BY <2>1, <2>2
<1>5. ASSUME NEW s \in Requests, NEW u \in Requests, s # u,
             req'[s].pc \in Making, req'[u].pc \in Making
      PROVE  req'[s].key # req'[u].key
  <2>1. CASE s = r
    BY <1>1, <1>5, <2>1
  <2>2. CASE u = r
    BY <1>1, <1>5, <2>2
  <2>3. CASE s # r /\ u # r
    BY <1>1, <1>5, <2>3 DEF Makers
  <2> QED BY <2>1, <2>2, <2>3
<1> QED BY <1>4, <1>5 DEF Makers

\* A step that makes no key and touches none.
LEMMA KeptQuietly ==
    ASSUME Typed, Kept, NEW r \in Requests, NEW q, Becomes(r, q),
           UNCHANGED <<row, material, signedBy, made>>,
           q.pc \in Making => /\ req[r].pc \in Making /\ q.pc = "rollback"
                              /\ q.key = req[r].key
    PROVE  Kept'
<1>1. made' \in Nat /\ made <= made'
  BY KeysAssumption DEF Typed, TypeOK, Keys
<1>2. Makers'
  <2>1. \A s \in Requests \ {r} : req[s].pc \in Making =>
               /\ req[s].key \notin material'
               /\ row[req[s].key] = "none" <=> row'[req[s].key] = "none"
    BY DEF Kept, Makers
  <2>2. q.pc \in Making =>
               /\ q.key <= made' /\ q.key \notin material'
               /\ q.pc = "insert" => row'[q.key] = "none"
               /\ q.pc = "put" => row'[q.key] # "none"
               /\ \A s \in Requests \ {r} : req[s].pc \in Making => req[s].key # q.key
    BY DEF Kept, Makers
  <2> QED BY <1>1, <2>1, <2>2, MakersTogether DEF Kept
<1>3. KeysMade'
  BY DEF Kept, KeysMade
<1> QED BY <1>2, <1>3 DEF Kept

\* A step that only signs, with a key that has material.
LEMMA KeptSigning ==
    ASSUME Typed, Kept, NEW r \in Requests, NEW q, Leaves(r, q),
           NEW k \in Keys, SignsWith(k), k \in material',
           UNCHANGED <<row, made>>,
           \/ UNCHANGED material
           \/ req[r].pc = "put" /\ k = req[r].key /\ material' = material \cup {k}
    PROVE  Kept'
<1>1. q.pc \notin Making
  BY IdleKnown DEF Leaves, GoesOn, Beyond, Making
<1>2. made' \in Nat /\ made <= made'
  BY KeysAssumption DEF Typed, TypeOK, Keys
<1>3. \A s \in Requests \ {r} : req[s].pc \in Making =>
               /\ req[s].key \notin material'
               /\ row[req[s].key] = "none" <=> row'[req[s].key] = "none"
  BY DEF Kept, Makers, Making
<1>4. Makers'
  BY <1>1, <1>2, <1>3, MakersTogether DEF Kept, Leaves
<1>5. \A j \in Keys : j > made' => row'[j] = "none" /\ j \notin material'
  <2>1. CASE UNCHANGED material
    BY <2>1 DEF Kept, KeysMade
  <2>2. CASE req[r].pc = "put" /\ k = req[r].key /\ material' = material \cup {k}
    <3>1. k <= made /\ k \in Nat /\ made \in Nat
      BY <2>2, KeysAssumption DEF Kept, Makers, Making, Typed, TypeOK, Keys
    <3> QED BY <2>2, <3>1 DEF Kept, KeysMade, Keys
  <2> QED BY <2>1, <2>2
<1>6. \A j \in material' : row'[j] # "none"
  BY DEF Kept, KeysMade, Makers, Making
<1>7. \A t \in Tokens : signedBy'[t] # NoKey => signedBy'[t] \in material'
  <2>1. \A t \in Tokens : signedBy[t] # NoKey => signedBy[t] \in material'
    BY DEF Kept, KeysMade
  <2>2. CASE UNCHANGED signedBy
    BY <2>1, <2>2
  <2>3. CASE \E t \in Tokens \ Issued : signedBy' = [signedBy EXCEPT ![t] = k]
    BY <2>1, <2>3 DEF Typed, TypeOK
  <2> QED BY <2>2, <2>3 DEF SignsWith
<1> QED BY <1>4, <1>5, <1>6, <1>7 DEF Kept, KeysMade

LEMMA KeptNoKey ==
    ASSUME Typed, Kept, NEW r \in Requests, NEW q, Becomes(r, q),
           UNCHANGED <<row, material, signedBy>>,
           made < MaxKeys, made' = made + 1, q.pc = "insert", q.key = made + 1
    PROVE  Kept'
<1>1. made \in Nat /\ made' \in Nat /\ made <= made' /\ made + 1 \in Keys /\ made < made + 1
  BY KeysAssumption DEF Typed, TypeOK, Keys
<1>2. row[made + 1] = "none" /\ made + 1 \notin material
  BY <1>1 DEF Kept, KeysMade
<1>3. \A s \in Requests : req[s].pc \in Making => req[s].key <= made /\ req[s].key \in Nat
  BY Known DEF Kept, Makers, RequestKnown, Keys
<1>4. \A s \in Requests \ {r} : req[s].pc \in Making =>
               /\ req[s].key \notin material'
               /\ row[req[s].key] = "none" <=> row'[req[s].key] = "none"
  BY DEF Kept, Makers
<1>5. \A s \in Requests \ {r} : req[s].pc \in Making => req[s].key # q.key
  BY <1>1, <1>3
<1>6. q.key <= made' /\ q.key \notin material' /\ row'[q.key] = "none"
  BY <1>1, <1>2
<1>7. Makers'
  BY <1>1, <1>4, <1>5, <1>6, MakersTogether DEF Kept
<1>8. KeysMade'
  BY <1>1 DEF Kept, KeysMade, Keys
<1> QED BY <1>7, <1>8 DEF Kept

LEMMA KeptInsert ==
    ASSUME Typed, Kept, NEW r \in Requests, InsertRow(r)
    PROVE  Kept'
<1>1. KeepsKeys /\ req[r].pc \in Making /\ "put" \in Making
      /\ Become(r, [req[r] EXCEPT !.pc = "put"]) /\ req[r].pc = "insert"
  BY DEF InsertRow, KeepsKeys, Making
<1>2. PICK q : Becomes(r, q) /\ q.pc = "put" /\ q.key = req[r].key
  BY <1>1, MakerMoves
<1>3. q.key \in Keys /\ row' = [row EXCEPT ![q.key] = "active"]
      /\ UNCHANGED <<material, signedBy, made>>
  BY <1>1, <1>2, Known DEF InsertRow, RequestKnown, bounds
<1>4. made' \in Nat /\ made <= made'
  BY <1>3, KeysAssumption DEF Typed, TypeOK, Keys
<1>5. q.key <= made /\ q.key \notin material
      /\ \A s \in Requests \ {r} : req[s].pc \in Making => req[s].key # q.key
  BY <1>1, <1>2 DEF Kept, Makers
<1>6. \A s \in Requests \ {r} : req[s].pc \in Making =>
               /\ req[s].key \notin material'
               /\ row[req[s].key] = "none" <=> row'[req[s].key] = "none"
  BY <1>3, <1>5 DEF Kept, Makers, Typed, TypeOK
<1>7. row'[q.key] = "active" /\ \A j \in Keys \ {q.key} : row'[j] = row[j]
  BY <1>3 DEF Typed, TypeOK
<1>8. Makers'
  BY <1>2, <1>3, <1>4, <1>5, <1>6, <1>7, MakersTogether DEF Kept
<1>9. KeysMade'
  <2>1. q.key \in Nat /\ made \in Nat
    BY <1>3, KeysAssumption DEF Typed, TypeOK, Keys
  <2>2. \A j \in Keys : j > made => j # q.key
    BY <1>5, <2>1 DEF Keys
  <2> QED BY <1>3, <1>7, <2>2 DEF Kept, KeysMade, Typed, TypeOK
<1> QED BY <1>8, <1>9 DEF Kept

LEMMA KeptRollback ==
    ASSUME Typed, Kept, NEW r \in Requests, Rollback(r)
    PROVE  Kept'
<1>1. Becomes(r, Idle) /\ req[r].pc \in Making
  BY IdleLeaves DEF Rollback, Leaves, Making
<1>2. PICK k \in Keys : k = req[r].key
  BY <1>1, Known DEF RequestKnown
<1>3. row' = [row EXCEPT ![k] = "none"] /\ UNCHANGED <<material, signedBy, made>>
  BY <1>2 DEF Rollback, bounds
<1>4. k \notin material
      /\ \A s \in Requests \ {r} : req[s].pc \in Making => req[s].key # k
  BY <1>1, <1>2 DEF Kept, Makers
<1>5. row'[k] = "none" /\ \A j \in Keys \ {k} : row'[j] = row[j]
  BY <1>3 DEF Typed, TypeOK
<1>6. made' \in Nat /\ made <= made'
  BY <1>3, KeysAssumption DEF Typed, TypeOK, Keys
<1>7. \A s \in Requests \ {r} : req[s].pc \in Making =>
               /\ req[s].key \notin material'
               /\ row[req[s].key] = "none" <=> row'[req[s].key] = "none"
  BY <1>3, <1>4, <1>5, Known DEF Kept, Makers, RequestKnown
<1>8. Makers'
  BY <1>1, <1>6, <1>7, MakersTogether, IdleKnown DEF Kept, Making
<1>9. KeysMade'
  BY <1>3, <1>4, <1>5 DEF Kept, KeysMade, Typed, TypeOK
<1> QED BY <1>8, <1>9 DEF Kept

LEMMA KeptRetire ==
    ASSUME Typed, Kept, NEW r \in Requests, RetireKeys(r)
    PROVE  Kept'
<1>1. PICK q : Leaves(r, q) /\ q.pc = "list"
  BY RetireMoves
<1>2. row' = [k \in Keys |-> IF row[k] = "active" THEN "retired" ELSE row[k]]
      /\ UNCHANGED <<material, signedBy, made>>
  BY DEF RetireKeys, bounds
<1>3. \A k \in Keys : row'[k] = "none" <=> row[k] = "none"
  BY <1>2
<1>4. made' \in Nat /\ made <= made'
  BY <1>2, KeysAssumption DEF Typed, TypeOK, Keys
<1>5. \A s \in Requests \ {r} : req[s].pc \in Making =>
               /\ req[s].key \notin material'
               /\ row[req[s].key] = "none" <=> row'[req[s].key] = "none"
  BY <1>2, <1>3, Known DEF Kept, Makers, RequestKnown
<1>6. Makers'
  BY <1>1, <1>4, <1>5, MakersTogether DEF Kept, Making, Leaves
<1>7. KeysMade'
  BY <1>2, <1>3 DEF Kept, KeysMade, Typed, TypeOK
<1> QED BY <1>6, <1>7 DEF Kept

LEMMA KeptStep ==
    ASSUME Typed, Kept, NEW r \in Requests,
           \/ Arrives(r)
           \/ Step(r) \/ Fail(r)
    PROVE  Kept'
<1>B. \A q : q = Idle \/ GoesOn(req[r], q) => q.pc \notin Making
  BY IdleKnown DEF GoesOn, Beyond, Making
<1>I. ASSUME Become(r, Idle), UNCHANGED <<row, material, signedBy, made>>
      PROVE  Kept'
  BY <1>I, <1>B, IdleLeaves, KeptQuietly DEF Leaves
<1>1. ASSUME NEW kind \in Kinds, NEW s \in Tokens \cup {NoToken},
             NEW w \in Callers \cup {NoCaller}, Arrive(r, kind, s, w)
      PROVE  Kept'
  <2>1. PICK q : Becomes(r, q) /\ q.pc = "enter"
    BY <1>1, ArriveMoves
  <2>2. UNCHANGED <<row, material, signedBy, made>> /\ q.pc \notin Making
    BY <1>1, <2>1 DEF Arrive, Making
  <2> QED BY <2>1, <2>2, KeptQuietly
<1>2. CASE Enter(r)
  <2>1. PICK q : Leaves(r, q)
    BY <1>2, EnterMoves
  <2>2. UNCHANGED <<row, material, signedBy, made>> /\ q.pc \notin Making
    BY <1>2, <1>B, <2>1 DEF Enter, UnchangedButReq, bounds, Leaves
  <2> QED BY <2>1, <2>2, KeptQuietly DEF Leaves
<1>3. CASE ListKeys(r)
  <2>1. PICK q : Becomes(r, q) /\ q.pc = "get"
    BY <1>3, ListMoves
  <2>2. UNCHANGED <<row, material, signedBy, made>> /\ q.pc \notin Making
    BY <1>3, <2>1 DEF ListKeys, UnchangedButReq, bounds, Making
  <2> QED BY <2>1, <2>2, KeptQuietly
<1>4. CASE ListNoKey(r)
  <2>1. CASE Rejected(r)
    BY <1>I, <2>1 DEF Rejected, bounds
  <2>2. CASE /\ made < MaxKeys /\ made' = made + 1
             /\ UNCHANGED <<row, material, signedBy>>
             /\ \E q : Becomes(r, q) /\ q.pc = "insert" /\ q.key = made + 1
    BY <2>2, KeptNoKey
  <2> QED BY <1>4, <2>1, <2>2, NoKeyMoves
<1>5. CASE GetMaterial(r)
  <2>1. PICK k \in req[r].seen : Gets(r, k)
    BY <1>5, GetMoves
  <2>2. k \in Keys
    BY Known DEF Request
  <2>3. CASE /\ k \in material /\ SignsWith(k)
             /\ UNCHANGED <<row, material, revocations, bounds, history>>
             /\ \E q : Leaves(r, q)
    BY <2>2, <2>3, KeptSigning DEF bounds
  <2>4. CASE Rejected(r)
    BY <1>I, <2>4 DEF Rejected, bounds
  <2>5. CASE UnchangedButReq /\ Leaves(r, Idle)
    BY <1>I, <2>5 DEF UnchangedButReq, bounds, Leaves, Becomes
  <2>6. CASE UnchangedButReq /\ \E q : Becomes(r, q) /\ q.pc = "get"
    <3>1. PICK q : Becomes(r, q) /\ q.pc = "get"
      BY <2>6
    <3>2. UNCHANGED <<row, material, signedBy, made>> /\ q.pc \notin Making
      BY <2>6, <3>1 DEF UnchangedButReq, bounds, Making
    <3> QED BY <3>1, <3>2, KeptQuietly
  <2> QED BY <2>1, <2>3, <2>4, <2>5, <2>6 DEF Gets
<1>6. CASE InsertRow(r)
  BY <1>6, KeptInsert
<1>7. CASE PutMaterial(r)
  <2>1. req[r].key \in Keys /\ req[r].stage # "verify"
    BY <1>7, Known DEF PutMaterial, RequestKnown, Making
  <2>2. PICK q : /\ SignsWith(req[r].key)
                 /\ UNCHANGED <<row, revocations, bounds, history>> /\ Leaves(r, q)
    BY <1>7, <2>1, UseKeyMoves DEF PutMaterial
  <2> QED BY <1>7, <2>1, <2>2, KeptSigning DEF PutMaterial, bounds
<1>8. CASE PutFails(r)
  <2>1. KeepsKeys /\ req[r].pc \in Making /\ "rollback" \in Making
        /\ Become(r, [req[r] EXCEPT !.pc = "rollback"])
    BY <1>8 DEF PutFails, KeepsKeys, Making
  <2>2. PICK q : Becomes(r, q) /\ q.pc = "rollback" /\ q.key = req[r].key
    BY <2>1, MakerMoves
  <2> QED BY <1>8, <2>1, <2>2, KeptQuietly DEF PutFails
<1>9. CASE Rollback(r)
  BY <1>9, KeptRollback
<1>10. CASE RetireKeys(r)
  BY <1>10, KeptRetire
<1>11. CASE CheckJwks(r)
  <2>1. PICK q : Becomes(r, q) /\ (q = Idle \/ q.pc = "list")
    BY <1>11, JwksMoves DEF Leaves
  <2>2. UNCHANGED <<row, material, signedBy, made>> /\ q.pc \notin Making
    BY <1>11, <1>B, <2>1 DEF CheckJwks, UnchangedButReq, bounds, Making
  <2> QED BY <2>1, <2>2, KeptQuietly
<1>12. CASE Revoke(r)
  BY <1>I, <1>12 DEF Revoke, bounds
<1>13. CASE IsRevoked(r)
  <2>1. PICK q : Becomes(r, q) /\ (q = Idle \/ q.pc = "active")
    BY <1>13, IsRevokedMoves DEF Leaves
  <2>2. UNCHANGED <<row, material, signedBy, made>> /\ q.pc \notin Making
    BY <1>13, <1>B, <2>1 DEF IsRevoked, UnchangedButReq, bounds, Making
  <2> QED BY <2>1, <2>2, KeptQuietly
<1>14. CASE Respond(r)
  BY <1>I, <1>14 DEF Respond, UnchangedButReq, bounds
<1>15. CASE Fail(r)
  BY <1>I, <1>15 DEF Fail
<1> QED BY <1>1, <1>2, <1>3, <1>4, <1>5, <1>6, <1>7, <1>8, <1>9, <1>10, <1>11,
           <1>12, <1>13, <1>14, <1>15 DEF Step, Arrives

-----------------------------------------------------------------------------
(* What a step does to the rows and to the material *)

RowsMove(r) ==
    /\ material \subseteq material' /\ made <= made'
    /\ \A k \in Keys : row'[k] = "active" => \/ row[k] = "active"
                                             \/ req[r].pc = "insert" /\ k = req[r].key
    /\ \A k \in Keys : row'[k] = "retired" => \/ row[k] = "retired"
                                              \/ \A j \in Keys : row'[j] # "active"
    /\ \A k \in material : row[k] = "retired" => row'[k] = "retired"
    /\ \/ \A k \in material : row'[k] = row[k]
       \/ \A k \in material : row'[k] = "retired"

LEMMA RowsStep ==
    ASSUME Typed, Kept, NEW r \in Requests,
           \/ Arrives(r)
           \/ Step(r) \/ Fail(r)
    PROVE  RowsMove(r) /\ KeepsKeys
<1>M. made \in Nat /\ material \subseteq Keys
  BY KeysAssumption DEF Typed, TypeOK, Keys
<1>Q. ASSUME UNCHANGED row, material \subseteq material', made <= made'
      PROVE  RowsMove(r)
  BY <1>Q DEF RowsMove
<1>U. ASSUME UNCHANGED <<row, material, signedBy, made>>
      PROVE  RowsMove(r) /\ KeepsKeys
  BY <1>M, <1>Q, <1>U DEF KeepsKeys
<1>1. ASSUME NEW kind \in Kinds, NEW s \in Tokens \cup {NoToken},
             NEW w \in Callers \cup {NoCaller}, Arrive(r, kind, s, w)
      PROVE  RowsMove(r) /\ KeepsKeys
  BY <1>U, <1>1 DEF Arrive
<1>2. CASE UnchangedButReq
  BY <1>U, <1>2 DEF UnchangedButReq, bounds
<1>3. CASE Rejected(r)
  BY <1>U, <1>3 DEF Rejected, bounds
<1>4. CASE ListNoKey(r)
  <2>1. CASE made' = made + 1 /\ UNCHANGED <<row, material, signedBy>>
    BY <1>M, <1>Q, <2>1 DEF KeepsKeys
  <2> QED BY <1>3, <1>4, <2>1 DEF ListNoKey
<1>5. CASE GetMaterial(r)
  <2>1. PICK k \in req[r].seen : Gets(r, k)
    BY <1>5, GetMoves
  <2>2. CASE KeepsKeys /\ UNCHANGED <<row, material, revocations, bounds, history>>
    BY <1>M, <1>Q, <2>2 DEF bounds
  <2> QED BY <1>2, <1>3, <2>1, <2>2 DEF Gets
<1>6. CASE InsertRow(r)
  <2>1. PICK k \in Keys : k = req[r].key
    BY <1>6, Known DEF InsertRow, RequestKnown, Making
  <2>2. row[k] = "none" /\ k \notin material
    BY <1>6, <2>1 DEF InsertRow, Kept, Makers, Making
  <2>3. row' = [row EXCEPT ![k] = "active"] /\ UNCHANGED <<material, signedBy, made>>
        /\ req[r].pc = "insert"
    BY <1>6, <2>1 DEF InsertRow, bounds
  <2>4. row'[k] = "active" /\ \A j \in Keys \ {k} : row'[j] = row[j]
    BY <2>3 DEF Typed, TypeOK
  <2> QED BY <1>M, <2>1, <2>2, <2>3, <2>4 DEF RowsMove, KeepsKeys
<1>7. CASE PutMaterial(r)
  <2>1. req[r].key \in Keys /\ req[r].stage # "verify"
    BY <1>7, Known DEF PutMaterial, RequestKnown, Making
  <2>2. KeepsKeys /\ UNCHANGED <<row, revocations, bounds, history>>
    BY <1>7, <2>1, UseKeyMoves DEF PutMaterial
  <2> QED BY <1>M, <1>Q, <1>7, <2>2 DEF PutMaterial, bounds
<1>8. CASE PutFails(r)
  BY <1>U, <1>8 DEF PutFails
<1>9. CASE Rollback(r)
  <2>1. PICK k \in Keys : k = req[r].key
    BY <1>9, Known DEF Rollback, RequestKnown, Making
  <2>2. k \notin material
    BY <1>9, <2>1 DEF Rollback, Kept, Makers, Making
  <2>3. row' = [row EXCEPT ![k] = "none"] /\ UNCHANGED <<material, signedBy, made>>
    BY <1>9, <2>1 DEF Rollback, bounds
  <2>4. row'[k] = "none" /\ \A j \in Keys \ {k} : row'[j] = row[j]
    BY <2>3 DEF Typed, TypeOK
  <2> QED BY <1>M, <2>1, <2>2, <2>3, <2>4 DEF RowsMove, KeepsKeys
<1>10. CASE RetireKeys(r)
  <2>1. row' = [k \in Keys |-> IF row[k] = "active" THEN "retired" ELSE row[k]]
        /\ UNCHANGED <<material, signedBy, made>>
    BY <1>10 DEF RetireKeys, bounds
  <2>2. \A k \in Keys : row'[k] # "active"
    BY <2>1
  <2>3. \A k \in material : row'[k] = "retired"
    BY <1>M, <2>1 DEF Kept, KeysMade, Typed, TypeOK
  <2> QED BY <1>M, <2>1, <2>2, <2>3 DEF RowsMove, KeepsKeys
<1>11. CASE Revoke(r)
  BY <1>U, <1>11 DEF Revoke, bounds
<1>12. CASE Fail(r)
  BY <1>U, <1>12 DEF Fail
<1> QED BY <1>1, <1>2, <1>4, <1>5, <1>6, <1>7, <1>8, <1>9, <1>10, <1>11, <1>12
        DEF Step, Arrives, Enter, ListKeys, CheckJwks, IsRevoked, Respond

-----------------------------------------------------------------------------
(* What a step does to its request *)

Follows(p, q) == Carries(p, q) /\ q.stage = p.stage

\* The newest key with material that the request has seen is its token's.
Matches(r) ==
    /\ Verifying(r) /\ KeyOf(r) \in req[r].seen \cap material
    /\ \A j \in req[r].seen : j <= KeyOf(r)

Moves(r, q) ==
    \/ q = Idle
    \/ q.pc = "enter" /\ q.stage = "entry" /\ \E s : q.subject = s /\ q.barred = Barred(s)
    \/ GoesOn(req[r], q) /\ (q.pc = "isRevoked" => Matches(r))
    \/ Follows(req[r], q) /\ q.pc = "insert" /\ q.key = made + 1
    \/ Follows(req[r], q) /\ req[r].pc \in Making /\ q.pc \in {"put", "rollback"}
    \/ Follows(req[r], q) /\ q.pc = "get" /\ q.seen = ActiveKeys /\ UnchangedButReq
    \/ /\ Follows(req[r], q) /\ req[r].pc = "get" /\ q.pc = "get" /\ UnchangedButReq
       /\ \E k \in req[r].seen \ material : q.seen = req[r].seen \ {k}
    \/ /\ Carries(req[r], q) /\ q.pc = "list"
       /\ req[r].kind = "query" /\ KeyOf(r) \in ActiveKeys
    \/ /\ Carries(req[r], q) /\ q.pc = "active" /\ req[r].pc = "isRevoked"
       /\ req[r].subject \notin revocations

LEMMA MovesStep ==
    ASSUME Typed, NEW r \in Requests,
           \/ Arrives(r)
           \/ Step(r) \/ Fail(r)
    PROVE  \E q : Becomes(r, q) /\ Moves(r, q)
<1>I. ASSUME Become(r, Idle)
      PROVE  \E q : Becomes(r, q) /\ Moves(r, q)
  BY <1>I, IdleLeaves DEF Moves, Leaves
<1>G. ASSUME NEW q, Leaves(r, q), q.pc = "isRevoked" => Matches(r)
      PROVE  \E u : Becomes(r, u) /\ Moves(r, u)
  BY <1>G DEF Moves, Leaves
<1>1. ASSUME NEW kind \in Kinds, NEW s \in Tokens \cup {NoToken},
             NEW w \in Callers \cup {NoCaller}, Arrive(r, kind, s, w)
      PROVE  \E q : Becomes(r, q) /\ Moves(r, q)
  BY <1>1, ArriveMoves DEF Moves
<1>2. CASE Enter(r)
  BY <1>2, <1>G, EnterMoves
<1>3. CASE ListKeys(r)
  BY <1>3, ListMoves DEF Moves, ListKeys, Follows
<1>4. CASE ListNoKey(r)
  BY <1>4, <1>I, NoKeyMoves DEF Moves, Follows, Leaves, Becomes
<1>5. CASE GetMaterial(r)
  <2>1. PICK k \in req[r].seen : Gets(r, k) /\ \A j \in req[r].seen : j <= k
    BY <1>5, GetMoves
  <2>2. CASE k \in material /\ \E q : Leaves(r, q) /\ (q.pc = "isRevoked" => KeyOf(r) = k)
    <3>1. PICK q : Leaves(r, q) /\ (q.pc = "isRevoked" => KeyOf(r) = k)
      BY <2>2
    <3>2. ASSUME q.pc = "isRevoked" PROVE Matches(r)
      <4>1. q # Idle
        BY <3>2, IdleKnown
      <4>2. req[r].stage = "verify" /\ req[r].pc = "get"
        BY <1>5, <3>1, <3>2, <4>1 DEF Leaves, GoesOn, GetMaterial
      <4> QED BY <2>1, <2>2, <3>1, <3>2, <4>2 DEF Matches, Verifying
    <3> QED BY <1>G, <3>1, <3>2
  <2>3. CASE Leaves(r, Idle)
    BY <1>I, <2>3 DEF Leaves, Becomes
  <2>4. CASE /\ k \notin material /\ UnchangedButReq
             /\ \E q : /\ Becomes(r, q) /\ Carries(req[r], q) /\ q.pc = "get"
                       /\ q.stage = req[r].stage /\ q.seen = req[r].seen \ {k}
    BY <1>5, <2>1, <2>4 DEF Moves, Follows, GetMaterial
  <2> QED BY <2>1, <2>2, <2>3, <2>4 DEF Gets
<1>6. CASE InsertRow(r)
  <2>1. KeepsKeys /\ req[r].pc \in Making /\ "put" \in Making
        /\ Become(r, [req[r] EXCEPT !.pc = "put"])
    BY <1>6 DEF InsertRow, KeepsKeys, Making
  <2> QED BY <2>1, MakerMoves DEF Moves, Follows
<1>7. CASE PutMaterial(r)
  <2>1. req[r].key \in Keys /\ req[r].stage # "verify"
    BY <1>7, Known DEF PutMaterial, RequestKnown, Making
  <2>2. PICK q : Leaves(r, q)
    BY <1>7, <2>1, UseKeyMoves DEF PutMaterial
  <2>3. q.pc # "isRevoked"
    BY <2>1, <2>2, IdleKnown DEF Leaves, GoesOn
  <2> QED BY <1>G, <2>2, <2>3
<1>8. CASE PutFails(r)
  <2>1. KeepsKeys /\ req[r].pc \in Making /\ "rollback" \in Making
        /\ Become(r, [req[r] EXCEPT !.pc = "rollback"])
    BY <1>8 DEF PutFails, KeepsKeys, Making
  <2> QED BY <2>1, MakerMoves DEF Moves, Follows
<1>9. CASE Rollback(r)
  BY <1>I, <1>9 DEF Rollback
<1>10. CASE RetireKeys(r)
  BY <1>G, <1>10, RetireMoves
<1>11. CASE CheckJwks(r)
  BY <1>I, <1>11, JwksMoves DEF Moves, Leaves, Becomes
<1>12. CASE Revoke(r)
  BY <1>I, <1>12 DEF Revoke
<1>13. CASE IsRevoked(r)
  BY <1>I, <1>13, IsRevokedMoves DEF Moves, Leaves, Becomes, IsRevoked
<1>14. CASE Respond(r)
  BY <1>I, <1>14 DEF Respond
<1>15. CASE Fail(r)
  BY <1>I, <1>15 DEF Fail
<1> QED BY <1>1, <1>2, <1>3, <1>4, <1>5, <1>6, <1>7, <1>8, <1>9, <1>10, <1>11,
           <1>12, <1>13, <1>14, <1>15 DEF Step, Arrives

-----------------------------------------------------------------------------
(* Listed *)

\* A request that a step leaves alone.
LEMMA ListedOther ==
    ASSUME Typed, Kept, Listed, NEW r \in Requests, NEW q, Becomes(r, q), Moves(r, q),
           RowsMove(r), KeepsKeys, made' \in Nat, NEW s \in Requests \ {r}
    PROVE  ListedBy(s)'
<1>1. req'[r] = q /\ \A u \in Requests \ {r} : req'[u] = req[u]
  BY Becoming DEF Typed, TypeOK, Becomes
<1>2. made \in Nat /\ req[s].seen \subseteq Keys
  BY KeysAssumption, Known DEF Typed, TypeOK, Keys, Request
<1> SUFFICES ASSUME req[s].pc = "get" PROVE ListedBy(s)'
  BY <1>1 DEF ListedBy
<1>3. \A k \in req[s].seen : k <= made /\ k <= made' /\ k \in Nat
  BY <1>2 DEF Listed, ListedBy, RowsMove, Keys
<1>4. \A u \in Requests : req'[u].pc = "insert" => req'[u].key \notin req[s].seen
  <2>1. ASSUME q.pc = "insert" PROVE q.key \notin req[s].seen
    <3>1. q.key = made + 1
      BY <2>1, IdleKnown DEF Moves, GoesOn, Beyond
    <3> QED BY <1>2, <1>3, <3>1
  <2> QED BY <1>1, <2>1 DEF Listed, ListedBy
<1>5. ASSUME NEW j \in req[s].seen, NEW k \in req[s].seen, row'[k] = "retired"
      PROVE  row'[j] # "active"
  <2>1. CASE \A i \in Keys : row'[i] # "active"
    BY <1>2, <2>1
  <2>2. CASE row[k] = "retired"
    <3>1. row[j] # "active" /\ ~(req[r].pc = "insert" /\ j = req[r].key)
      BY <2>2 DEF Listed, ListedBy
    <3> QED BY <1>2, <3>1 DEF RowsMove
  <2> QED BY <1>2, <1>5, <2>1, <2>2 DEF RowsMove
<1>6. ASSUME Verifying(s)
      PROVE  /\ signedBy'[req[s].subject] = KeyOf(s)
             /\ KeyOf(s) \in req[s].seen \/ row'[KeyOf(s)] = "retired"
  <2>1. KeyOf(s) \in Keys /\ req[s].subject \in Tokens /\ KeyOf(s) \in material
    BY <1>6, Known DEF Verifying, RequestKnown, Presenting, KeyOf, Kept, KeysMade,
       Keys, NoKey
  <2>2. signedBy'[req[s].subject] = KeyOf(s)
    BY <2>1 DEF KeepsKeys, KeyOf
  <2> QED BY <1>6, <2>1, <2>2 DEF Listed, ListedBy, RowsMove
<1> QED BY <1>1, <1>3, <1>4, <1>5, <1>6 DEF ListedBy, Verifying, KeyOf

\* The request that lists the keys, or leaves one aside.
LEMMA ListedSelf ==
    ASSUME Typed, Kept, Listed, NEW r \in Requests, NEW q, Becomes(r, q), Moves(r, q)
    PROVE  ListedBy(r)'
<1>1. req'[r] = q /\ \A u \in Requests \ {r} : req'[u] = req[u]
  BY Becoming DEF Typed, TypeOK, Becomes
<1> SUFFICES ASSUME q.pc = "get" PROVE ListedBy(r)'
  BY <1>1 DEF ListedBy
<1>2. /\ Follows(req[r], q) /\ UnchangedButReq
      /\ \/ q.seen = ActiveKeys
         \/ /\ req[r].pc = "get"
            /\ \E k \in req[r].seen \ material : q.seen = req[r].seen \ {k}
  BY IdleKnown DEF Moves, GoesOn, Beyond
<1>3. UNCHANGED <<row, material, signedBy, made>>
  BY <1>2 DEF UnchangedButReq, bounds
<1>4. ASSUME q.stage = "verify"
      PROVE  KeyOf(r) \in Keys /\ KeyOf(r) \in material /\ q.subject = req[r].subject
             /\ row[KeyOf(r)] # "none"
  <2>1. q.kind \in {"scope", "introspect", "revoke"} /\ RequestKnown(q)'
    BY <1>4 DEF Becomes, RequestKnown
  <2>2. q.subject \in Tokens /\ signedBy[q.subject] \in Keys
    BY <1>3, <2>1 DEF RequestKnown, Presenting
  <2>3. q.subject = req[r].subject
    BY <1>2 DEF Follows, Carries
  <2> QED BY <2>2, <2>3 DEF KeyOf, Kept, KeysMade, Keys, NoKey
<1>5. CASE q.seen = ActiveKeys
  <2>1. \A k \in ActiveKeys : row[k] = "active" /\ k <= made
    BY KeysAssumption DEF ActiveKeys, Kept, KeysMade, Keys, Typed, TypeOK
  <2>2. \A u \in Requests \ {r} : req[u].pc = "insert" => req[u].key \notin ActiveKeys
    BY <2>1 DEF Kept, Makers, Making
  <2>3. q.stage = "verify" => KeyOf(r) \in ActiveKeys \/ row[KeyOf(r)] = "retired"
    BY <1>4 DEF ActiveKeys, Typed, TypeOK
  <2> QED BY <1>1, <1>3, <1>4, <1>5, <2>1, <2>2, <2>3 DEF ListedBy, Verifying, KeyOf
<1>6. CASE req[r].pc = "get" /\ \E k \in req[r].seen \ material : q.seen = req[r].seen \ {k}
  <2>1. PICK k \in req[r].seen \ material : q.seen = req[r].seen \ {k}
    BY <1>6
  <2>2. /\ \A j \in req[r].seen : j <= made
        /\ \A u \in Requests : req[u].pc = "insert" => req[u].key \notin req[r].seen
        /\ \A i, j \in req[r].seen : row[j] = "retired" => row[i] # "active"
        /\ Verifying(r) => KeyOf(r) \in req[r].seen \/ row[KeyOf(r)] = "retired"
    BY <1>6 DEF Listed, ListedBy
  <2>3. q.stage = "verify" => KeyOf(r) \in q.seen \/ row[KeyOf(r)] = "retired"
    BY <1>2, <1>4, <1>6, <2>1, <2>2 DEF Follows, Verifying
  <2> QED BY <1>1, <1>3, <1>4, <2>1, <2>2, <2>3 DEF ListedBy, Verifying, KeyOf
<1> QED BY <1>2, <1>5, <1>6

LEMMA ListedStep ==
    ASSUME Typed, Typed', Kept, Listed, NEW r \in Requests, NEW q,
           Becomes(r, q), Moves(r, q), RowsMove(r), KeepsKeys
    PROVE  Listed'
<1>1. made' \in Nat
  BY KeysAssumption DEF Typed, TypeOK, Keys
<1>2. \A s \in Requests : ListedBy(s)'
  BY <1>1, ListedOther, ListedSelf
<1> QED BY <1>2 DEF Listed, ListedBy

-----------------------------------------------------------------------------
(* RotatedOut *)

\* A step bars no token but by retiring every key that has signed.
LEMMA RotatesStep ==
    ASSUME Typed, NEW r \in Requests,
           \/ Arrives(r)
           \/ Step(r) \/ Fail(r)
    PROVE  \/ UNCHANGED rotatedOut
           \/ /\ rotatedOut' = rotatedOut \cup Issued /\ UNCHANGED <<signedBy, material>>
              /\ row' = [k \in Keys |-> IF row[k] = "active" THEN "retired" ELSE row[k]]
<1>1. CASE RetireKeys(r)
  BY <1>1 DEF RetireKeys
<1>2. CASE GetMaterial(r)
  <2>1. PICK k \in req[r].seen : Gets(r, k)
    BY <1>2, GetMoves
  <2> QED BY <2>1 DEF Gets, UnchangedButReq, Rejected, history
<1>3. CASE PutMaterial(r)
  <2>1. req[r].key \in Keys /\ req[r].stage # "verify"
    BY <1>3, Known DEF PutMaterial, RequestKnown, Making
  <2> QED BY <1>3, <2>1, UseKeyMoves DEF PutMaterial, history
<1> QED BY <1>1, <1>2, <1>3 DEF Step, Arrives, Arrive, Enter, ListKeys, ListNoKey, InsertRow,
           PutFails, Rollback, CheckJwks, Revoke, IsRevoked, Respond, Fail,
           UnchangedButReq, Rejected, history

LEMMA RotatedSelf ==
    ASSUME Typed, Kept, RotatedOut, NEW r \in Requests, NEW q, Becomes(r, q), Moves(r, q),
           KeepsKeys, rotatedOut \subseteq rotatedOut'
    PROVE  RotatedBy(r)'
<1>1. req'[r] = q
  BY Becoming DEF Typed, TypeOK, Becomes
<1> SUFFICES ASSUME "rotated" \in q.barred PROVE RotatedBy(r)'
  BY <1>1 DEF RotatedBy
<1>2. q # Idle
  BY IdleKnown
<1>3. CASE q.pc = "enter" /\ q.stage = "entry" /\ \E s : q.subject = s /\ q.barred = Barred(s)
  BY <1>1, <1>3 DEF Barred, RotatedBy, Verifying
<1>4. ASSUME Carries(req[r], q)
      PROVE  /\ q.subject = req[r].subject /\ q.kind = req[r].kind
             /\ q.subject \in rotatedOut' /\ RotatedBy(r)
             /\ row[KeyOf(r)] = "retired" /\ signedBy'[q.subject] = KeyOf(r)
  <2>1. q.subject = req[r].subject /\ q.kind = req[r].kind /\ q.barred = req[r].barred
    BY <1>4 DEF Carries
  <2>2. RotatedBy(r) /\ "rotated" \in req[r].barred
    BY <2>1 DEF RotatedOut, RotatedBy
  <2>3. q.subject \in rotatedOut
    BY <2>1, <2>2 DEF RotatedBy
  <2>4. q.subject \in Tokens /\ signedBy[q.subject] \in Keys
        /\ row[signedBy[q.subject]] = "retired"
    BY <2>3 DEF RotatedOut, RotatedBy, Typed, TypeOK
  <2> QED BY <2>1, <2>2, <2>3, <2>4 DEF KeepsKeys, KeyOf
<1>5. CASE GoesOn(req[r], q) /\ (q.pc = "isRevoked" => Matches(r))
  <2>1. q.pc # "isRevoked"
    BY <1>4, <1>5 DEF Matches, RotatedBy, GoesOn, Carries
  <2>2. ~(q.kind = "query" /\ q.stage = "sign") /\ q.pc # "active" /\ q.pc # "get"
    BY <1>4, <1>5 DEF RotatedBy, GoesOn, Carries, Beyond
  <2> QED BY <1>1, <1>4, <1>5, <2>1, <2>2 DEF RotatedBy, GoesOn, Verifying
<1>6. CASE Follows(req[r], q) /\ q.pc \in {"insert", "put", "rollback"}
  BY <1>1, <1>4, <1>6 DEF RotatedBy, Follows, Verifying, Carries
<1>7. CASE Follows(req[r], q) /\ q.pc = "get" /\ q.seen = ActiveKeys
  BY <1>1, <1>4, <1>7 DEF RotatedBy, Follows, Verifying, Carries, KeyOf, ActiveKeys
<1>8. CASE /\ Follows(req[r], q) /\ req[r].pc = "get" /\ q.pc = "get"
           /\ \E k \in req[r].seen \ material : q.seen = req[r].seen \ {k}
  BY <1>1, <1>4, <1>8 DEF RotatedBy, Follows, Verifying, Carries, KeyOf
<1>9. ~(Carries(req[r], q) /\ KeyOf(r) \in ActiveKeys)
  BY <1>4 DEF ActiveKeys
<1>10. ~(Carries(req[r], q) /\ req[r].pc = "isRevoked")
  BY <1>4 DEF RotatedBy, Carries
<1> QED BY <1>2, <1>3, <1>5, <1>6, <1>7, <1>8, <1>9, <1>10 DEF Moves

LEMMA RotatedOther ==
    ASSUME Typed, RotatedOut, NEW r \in Requests, NEW q, Becomes(r, q),
           KeepsKeys, rotatedOut \subseteq rotatedOut', NEW s \in Requests \ {r}
    PROVE  RotatedBy(s)'
<1>1. req'[s] = req[s]
  BY Becoming DEF Typed, TypeOK, Becomes
<1> SUFFICES ASSUME "rotated" \in req[s].barred PROVE RotatedBy(s)'
  BY <1>1 DEF RotatedBy
<1>2. RotatedBy(s) /\ req[s].subject \in rotatedOut
  BY DEF RotatedOut, RotatedBy
<1>3. signedBy'[req[s].subject] = signedBy[req[s].subject]
  BY <1>2 DEF RotatedOut, RotatedBy, KeepsKeys, Typed, TypeOK
<1> QED BY <1>1, <1>2, <1>3 DEF RotatedBy, Verifying, KeyOf

LEMMA RotatedStep ==
    ASSUME Typed, Kept, RotatedOut, NEW r \in Requests, NEW q,
           Becomes(r, q), Moves(r, q), RowsMove(r), KeepsKeys,
           \/ Arrives(r)
           \/ Step(r) \/ Fail(r)
    PROVE  RotatedOut'
<1>1. \/ UNCHANGED rotatedOut
      \/ /\ rotatedOut' = rotatedOut \cup Issued /\ UNCHANGED <<signedBy, material>>
         /\ row' = [k \in Keys |-> IF row[k] = "active" THEN "retired" ELSE row[k]]
  BY RotatesStep
<1>2. \A s \in Requests : RotatedBy(s)'
  BY <1>1, RotatedSelf, RotatedOther
<1>3. \A t \in rotatedOut : signedBy'[t] # NoKey /\ row'[signedBy'[t]] = "retired"
  <2>1. ASSUME NEW t \in rotatedOut
        PROVE  signedBy'[t] # NoKey /\ row'[signedBy'[t]] = "retired"
    <3>1. t \in Tokens /\ signedBy[t] \in Keys /\ signedBy[t] \in material
          /\ row[signedBy[t]] = "retired"
      BY DEF RotatedOut, RotatedBy, Typed, TypeOK, Kept, KeysMade
    <3> QED BY <3>1 DEF KeepsKeys, RowsMove, Keys, NoKey
  <2> QED BY <2>1
<1>4. CASE /\ rotatedOut' = rotatedOut \cup Issued /\ UNCHANGED <<signedBy, material>>
           /\ row' = [k \in Keys |-> IF row[k] = "active" THEN "retired" ELSE row[k]]
  <2>1. \A t \in Issued : signedBy'[t] # NoKey /\ signedBy'[t] \in Keys
                          /\ row[signedBy'[t]] # "none"
    BY <1>4 DEF Issued, Typed, TypeOK, Kept, KeysMade
  <2>2. \A t \in Issued : row'[signedBy'[t]] = "retired"
    BY <1>4, <2>1 DEF Typed, TypeOK
  <2> QED BY <1>2, <1>3, <1>4, <2>1, <2>2 DEF RotatedOut, RotatedBy
<1> QED BY <1>1, <1>2, <1>3, <1>4 DEF RotatedOut, RotatedBy

-----------------------------------------------------------------------------
(* Revoked *)

\* A token that does not verify, and was presented, is dead.
LEMMA RejectedIsDead ==
    ASSUME Typed, Kept, Listed, NEW r \in Requests, Verifying(r),
           NEW k \in req[r].seen, k \in material, KeyOf(r) # k,
           \A j \in req[r].seen : j <= k
    PROVE  Dead(req[r].subject)
<1>1. KeyOf(r) \in Keys /\ KeyOf(r) \in material /\ k \in Keys
  BY Known DEF Verifying, RequestKnown, Presenting, KeyOf, Kept, KeysMade, Keys, NoKey,
     Request
<1>2. row[k] \in {"active", "retired"} /\ row[KeyOf(r)] \in {"active", "retired"}
  BY <1>1 DEF Typed, TypeOK, Kept, KeysMade
<1>3. CASE row[KeyOf(r)] = "retired"
  BY <1>3 DEF Dead, KeyOf
<1>4. CASE row[KeyOf(r)] = "active"
  <2>1. KeyOf(r) \in req[r].seen
    BY <1>4 DEF Listed, ListedBy, Verifying
  <2>2. k > KeyOf(r)
    BY <1>1, <2>1 DEF Keys
  <2>3. row[k] = "active"
    BY <1>2, <1>4, <2>1 DEF Listed, ListedBy, Verifying
  <2> QED BY <2>2, <2>3 DEF Dead, KeyOf
<1> QED BY <1>2, <1>3, <1>4

LEMMA AnswersStep ==
    ASSUME Typed, Kept, Listed, NEW r \in Requests,
           \/ Arrives(r)
           \/ Step(r) \/ Fail(r)
    PROVE  /\ revocations \subseteq revocations'
           /\ answered \subseteq answered'
           /\ \A t \in answered' \ answered :
                 signedBy[t] \in Keys /\ t \in Tokens /\ (t \in revocations' \/ Dead(t))
<1>R. ASSUME Rejected(r), Verifying(r) \/ (req[r].pc = "list" /\ req[r].stage = "verify"),
             Dead(req[r].subject)
      PROVE  /\ revocations \subseteq revocations'
             /\ answered \subseteq answered'
             /\ \A t \in answered' \ answered :
                   signedBy[t] \in Keys /\ t \in Tokens /\ (t \in revocations' \/ Dead(t))
  <2>1. req[r].subject \in Tokens /\ signedBy[req[r].subject] \in Keys
    BY <1>R, Known DEF RequestKnown, Presenting, Verifying
  <2>2. UNCHANGED revocations /\ answered \subseteq answered'
        /\ answered' \subseteq answered \cup {req[r].subject}
    BY <1>R DEF Rejected
  <2> QED BY <1>R, <2>1, <2>2
<1>U. ASSUME UNCHANGED <<revocations, answered>>
      PROVE  /\ revocations \subseteq revocations'
             /\ answered \subseteq answered'
             /\ \A t \in answered' \ answered :
                   signedBy[t] \in Keys /\ t \in Tokens /\ (t \in revocations' \/ Dead(t))
  BY <1>U
<1>1. CASE ListNoKey(r)
  <2>1. CASE req[r].stage = "verify" /\ Rejected(r)
    <3>1. req[r].pc = "list" /\ ActiveKeys = {}
      BY <1>1 DEF ListNoKey
    <3>2. KeyOf(r) \in Keys /\ KeyOf(r) \in material
      BY <2>1, <3>1, Known DEF RequestKnown, Presenting, KeyOf, Kept, KeysMade, Keys, NoKey
    <3>3. row[KeyOf(r)] = "retired"
      BY <3>1, <3>2 DEF ActiveKeys, Kept, KeysMade, Typed, TypeOK
    <3> QED BY <1>R, <2>1, <3>1, <3>3 DEF Dead, KeyOf
  <2> QED BY <1>1, <1>U, <2>1 DEF ListNoKey, history
<1>2. CASE GetMaterial(r)
  <2>1. PICK k \in req[r].seen : Gets(r, k) /\ \A j \in req[r].seen : j <= k
    BY <1>2, GetMoves
  <2>2. CASE k \in material /\ Verifying(r) /\ KeyOf(r) # k /\ Rejected(r)
    BY <1>R, <2>1, <2>2, RejectedIsDead
  <2>3. CASE Rejected(r) /\ UNCHANGED answered
    BY <1>U, <2>3 DEF Rejected
  <2> QED BY <1>U, <2>1, <2>2, <2>3 DEF Gets, UnchangedButReq, history
<1>3. CASE PutMaterial(r)
  <2>1. req[r].key \in Keys /\ req[r].stage # "verify"
    BY <1>3, Known DEF PutMaterial, RequestKnown, Making
  <2> QED BY <1>U, <1>3, <2>1, UseKeyMoves DEF PutMaterial, history
<1>4. CASE Revoke(r)
  <2>1. req[r].subject \in Tokens /\ signedBy[req[r].subject] \in Keys
    BY <1>4, Known DEF Revoke, RequestKnown, Presenting
  <2> QED BY <1>4, <2>1 DEF Revoke
<1> QED BY <1>U, <1>1, <1>2, <1>3, <1>4 DEF Step, Arrives, Arrive, Enter, ListKeys, InsertRow,
           PutFails, Rollback, RetireKeys, CheckJwks, IsRevoked, Respond, Fail,
           UnchangedButReq, history

LEMMA DeadStays ==
    ASSUME Typed, Kept, NEW r \in Requests, RowsMove(r), KeepsKeys, NEW t \in Tokens,
           signedBy[t] \in Keys, Dead(t)
    PROVE  Dead(t)'
<1>1. signedBy[t] \in material /\ signedBy'[t] = signedBy[t]
  BY DEF Kept, KeysMade, Keys, NoKey, KeepsKeys
<1>2. CASE row[signedBy[t]] = "retired"
  BY <1>1, <1>2 DEF Dead, RowsMove
<1>3. CASE \A k \in material : row'[k] = "retired"
  BY <1>1, <1>3 DEF Dead
<1>4. CASE \E k \in material : k > signedBy[t] /\ row[k] = "active" /\ row'[k] = row[k]
  BY <1>1, <1>4 DEF Dead, RowsMove
<1> QED BY <1>2, <1>3, <1>4 DEF Dead, RowsMove

LEMMA RevokedSelf ==
    ASSUME Typed, Kept, Revoked, NEW r \in Requests, NEW q, Becomes(r, q), Moves(r, q),
           KeepsKeys, revocations \subseteq revocations', answered \subseteq answered',
           material \subseteq material'
    PROVE  RevokedBy(r)'
<1>1. req'[r] = q
  BY Becoming DEF Typed, TypeOK, Becomes
<1> SUFFICES ASSUME "revoked" \in q.barred PROVE RevokedBy(r)'
  BY <1>1 DEF RevokedBy
<1>2. q # Idle
  BY IdleKnown
<1>3. CASE q.pc = "enter" /\ q.stage = "entry" /\ \E s : q.subject = s /\ q.barred = Barred(s)
  BY <1>1, <1>3 DEF Barred, RevokedBy, Verifying
<1>4. ASSUME Carries(req[r], q)
      PROVE  /\ q.subject = req[r].subject /\ q.kind = req[r].kind
             /\ q.subject \in answered' /\ RevokedBy(r) /\ "revoked" \in req[r].barred
             /\ (q.subject \in revocations \/ Dead(q.subject))
             /\ KeyOf(r) \in Keys /\ signedBy'[q.subject] = KeyOf(r)
  <2>1. q.subject = req[r].subject /\ q.kind = req[r].kind /\ q.barred = req[r].barred
    BY <1>4 DEF Carries
  <2>2. RevokedBy(r) /\ "revoked" \in req[r].barred
    BY <2>1 DEF Revoked, RevokedBy
  <2>3. q.subject \in answered
    BY <2>1, <2>2 DEF RevokedBy
  <2>4. q.subject \in Tokens /\ signedBy[q.subject] \in Keys
        /\ (q.subject \in revocations \/ Dead(q.subject))
    BY <2>3 DEF Revoked, RevokedBy, Typed, TypeOK
  <2> QED BY <2>1, <2>2, <2>3, <2>4 DEF KeepsKeys, KeyOf
<1>5. CASE GoesOn(req[r], q) /\ (q.pc = "isRevoked" => Matches(r))
  <2>1. ASSUME q.pc = "isRevoked" PROVE q.subject \in revocations'
    <3>1. Matches(r) /\ Carries(req[r], q) /\ req[r].seen \subseteq Keys
      BY <1>5, <2>1, Known DEF GoesOn, Request
    <3>2. ~ \E k \in req[r].seen \cap material : k > KeyOf(r)
      BY <1>4, <3>1 DEF Matches, Keys
    <3> QED BY <1>4, <3>1, <3>2 DEF RevokedBy, Matches
  <2>2. q.pc # "get" /\ ~(q.pc = "active" /\ q.kind = "introspect")
    BY <1>5 DEF GoesOn, Carries, Beyond
  <2> QED BY <1>1, <1>4, <1>5, <2>1, <2>2 DEF RevokedBy, GoesOn, Verifying
<1>6. CASE Follows(req[r], q) /\ q.pc \in {"insert", "put", "rollback"}
  BY <1>1, <1>4, <1>6 DEF RevokedBy, Follows, Verifying
<1>7. CASE Follows(req[r], q) /\ q.pc = "get" /\ q.seen = ActiveKeys
  <2>1. \/ q.subject \in revocations
        \/ KeyOf(r) \notin ActiveKeys
        \/ \E k \in ActiveKeys \cap material : k > KeyOf(r)
    BY <1>4, <1>7 DEF Follows, Dead, KeyOf, ActiveKeys, Typed, TypeOK
  <2> QED BY <1>1, <1>4, <1>7, <2>1 DEF RevokedBy, Follows, Verifying, KeyOf
<1>8. CASE /\ Follows(req[r], q) /\ req[r].pc = "get" /\ q.pc = "get"
           /\ \E k \in req[r].seen \ material : q.seen = req[r].seen \ {k}
  <2>1. ASSUME q.stage = "verify"
        PROVE  \/ q.subject \in revocations
               \/ KeyOf(r) \notin q.seen
               \/ \E k \in q.seen \cap material : k > KeyOf(r)
    BY <1>4, <1>8, <2>1 DEF RevokedBy, Follows, Verifying
  <2> QED BY <1>1, <1>4, <1>8, <2>1 DEF RevokedBy, Follows, Verifying, KeyOf
<1>9. CASE Carries(req[r], q) /\ q.pc = "list"
  BY <1>1, <1>4, <1>9 DEF RevokedBy, Verifying
<1>10. ~(Carries(req[r], q) /\ req[r].pc = "isRevoked" /\ req[r].subject \notin revocations)
  BY <1>4 DEF RevokedBy
<1> QED BY <1>2, <1>3, <1>5, <1>6, <1>7, <1>8, <1>9, <1>10 DEF Moves

LEMMA RevokedOther ==
    ASSUME Typed, Revoked, NEW r \in Requests, NEW q, Becomes(r, q), KeepsKeys,
           revocations \subseteq revocations', answered \subseteq answered',
           material \subseteq material', NEW s \in Requests \ {r}
    PROVE  RevokedBy(s)'
<1>1. req'[s] = req[s]
  BY Becoming DEF Typed, TypeOK, Becomes
<1> SUFFICES ASSUME "revoked" \in req[s].barred PROVE RevokedBy(s)'
  BY <1>1 DEF RevokedBy
<1>2. RevokedBy(s) /\ req[s].subject \in answered
  BY DEF Revoked, RevokedBy
<1>3. signedBy'[req[s].subject] = signedBy[req[s].subject]
  BY <1>2 DEF Revoked, RevokedBy, KeepsKeys, Typed, TypeOK
<1> QED BY <1>1, <1>2, <1>3 DEF RevokedBy, Verifying, KeyOf

LEMMA RevokedStep ==
    ASSUME Typed, Kept, Listed, Revoked, NEW r \in Requests, NEW q,
           Becomes(r, q), Moves(r, q), RowsMove(r), KeepsKeys,
           \/ Arrives(r)
           \/ Step(r) \/ Fail(r)
    PROVE  Revoked'
<1>1. /\ revocations \subseteq revocations'
      /\ answered \subseteq answered'
      /\ \A t \in answered' \ answered :
            signedBy[t] \in Keys /\ t \in Tokens /\ (t \in revocations' \/ Dead(t))
  BY AnswersStep
<1>2. material \subseteq material'
  BY DEF RowsMove
<1>3. \A s \in Requests : RevokedBy(s)'
  BY <1>1, <1>2, RevokedSelf, RevokedOther
<1>4. ASSUME NEW t \in answered'
      PROVE  signedBy'[t] # NoKey /\ (t \in revocations' \/ Dead(t)')
  <2>1. signedBy[t] \in Keys /\ t \in Tokens /\ (t \in revocations' \/ Dead(t))
    BY <1>1 DEF Revoked, RevokedBy, Typed, TypeOK
  <2> QED BY <2>1, DeadStays DEF KeepsKeys, Keys, NoKey
<1> QED BY <1>3, <1>4 DEF Revoked, RevokedBy

-----------------------------------------------------------------------------
(* The theorems *)

LEMMA RestInit == Init => Kept /\ Listed /\ RotatedOut /\ Revoked
<1> SUFFICES ASSUME Init PROVE Kept /\ Listed /\ RotatedOut /\ Revoked
  OBVIOUS
<1>1. PICK first \in {{1}, {1, 2}} :
        /\ row = [k \in Keys |-> IF k \in first THEN "active" ELSE "none"]
        /\ material = first /\ made = Cardinality(first)
        /\ signedBy = [t \in Tokens |-> NoKey]
        /\ req = [r \in Requests |-> Idle]
        /\ answered = {} /\ rotatedOut = {}
  BY DEF Init
<1>2. Cardinality({1}) = 1
  BY FS_Singleton
<1>3. Cardinality({1, 2}) = 2
  <2>1. {1, 2} = {1} \cup {2} /\ 2 \notin {1}
    OBVIOUS
  <2>2. IsFiniteSet({1})
    BY FS_Singleton
  <2> QED BY <1>2, <2>1, <2>2, FS_AddElement
<1>4. first \subseteq Keys
  BY KeysAssumption DEF Keys
<1>5. \A k \in Keys : k > made => k \notin first
  <2>1. CASE first = {1}
    BY <1>1, <1>2, <2>1
  <2>2. CASE first = {1, 2}
    BY <1>1, <1>3, <2>2
  <2> QED BY <1>1, <2>1, <2>2
<1>6. \A r \in Requests : req[r].pc = "idle" /\ req[r].barred = {}
  BY <1>1, IdleKnown
<1>7. KeysMade
  BY <1>1, <1>4, <1>5 DEF KeysMade
<1>8. Makers /\ Listed
  BY <1>6 DEF Makers, Making, Listed, ListedBy
<1>9. RotatedOut /\ Revoked
  BY <1>1, <1>6 DEF RotatedOut, RotatedBy, Revoked, RevokedBy
<1> QED BY <1>7, <1>8, <1>9 DEF Kept

LEMMA TypedNext == Typed /\ [Next]_vars => Typed'
<1> SUFFICES ASSUME Typed, [Next]_vars PROVE Typed'
  OBVIOUS
<1>1. CASE UNCHANGED vars
  BY <1>1 DEF vars, bounds, history, Typed, TypeOK, RequestKnown
<1>2. CASE Next
  BY <1>2, TypedStep DEF Next, Arrivals, Arrives
<1> QED BY <1>1, <1>2

LEMMA RestNext ==
    ASSUME Typed, Typed', Kept, Listed, RotatedOut, Revoked, [Next]_vars
    PROVE  Kept' /\ Listed' /\ RotatedOut' /\ Revoked'
<1>1. CASE UNCHANGED vars
  <2>1. UNCHANGED <<row, material, signedBy, revocations, req, made, answered, rotatedOut>>
    BY <1>1 DEF vars, bounds, history
  <2>2. Kept' /\ Listed'
    BY <2>1 DEF Kept, KeysMade, Makers, Listed, ListedBy, Verifying, KeyOf
  <2>3. RotatedOut' /\ Revoked'
    BY <2>1 DEF RotatedOut, RotatedBy, Revoked, RevokedBy, Dead, Verifying, KeyOf
  <2> QED BY <2>2, <2>3
<1>2. CASE Next
  <2>1. PICK r \in Requests :
           \/ Arrives(r)
           \/ Step(r) \/ Fail(r)
    BY <1>2 DEF Next, Arrivals, Arrives
  <2>2. PICK q : Becomes(r, q) /\ Moves(r, q)
    BY <2>1, MovesStep
  <2>3. RowsMove(r) /\ KeepsKeys
    BY <2>1, RowsStep
  <2> QED BY <2>1, <2>2, <2>3, KeptStep, ListedStep, RotatedStep, RevokedStep
<1> QED BY <1>1, <1>2

(* Whatever requests run at once and wherever they fail, the variables     *)
(* keep their types, and what a request carries fits where it stands       *)
(* (signer.ts:92, token-service.ts:377).                                   *)
THEOREM TypeCorrect == Spec => []TypeOK
<1>1. Typed => TypeOK
  BY DEF Typed
<1> QED BY <1>1, TypedInit, TypedNext, PTL DEF Spec

(* A key has one maker and its row precedes its material, so no row of a   *)
(* key that has signed is ever rolled back, and what a request has listed  *)
(* was active together and is retired together (runtime.ts:134,            *)
(* signer.ts:92, app.ts:4262).                                             *)
THEOREM KeysAreKept == Spec => [](Kept /\ Listed)
BY TypedInit, TypedNext, RestInit, RestNext, PTL DEF Spec

(* A token signed before a rotation is accepted by no introspection and no *)
(* template query that begins after it, whatever keys racing requests have *)
(* made meanwhile (app.ts:4262, signer.ts:134).                            *)
THEOREM RotatedTokensStayDead == Spec => []RotationInvalidates
<1>1. RotatedOut => RotationInvalidates
  BY DEF RotatedOut, RotatedBy, RotationInvalidates
<1> QED BY <1>1, TypedInit, TypedNext, RestInit, RestNext, PTL DEF Spec

(* Once a client was told that its token is revoked, no introspection that *)
(* begins afterwards answers active, also when the revocation wrote no row *)
(* because the token did not verify (token-service.ts:1605, 1677).         *)
THEOREM RevokedTokensStayDead == Spec => []RevokedForGood
<1>1. Revoked => RevokedForGood
  BY DEF Revoked, RevokedBy, RevokedForGood
<1> QED BY <1>1, TypedInit, TypedNext, RestInit, RestNext, PTL DEF Spec
===============================================================================
