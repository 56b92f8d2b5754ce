---------------------------- MODULE LoginFlowLimits ----------------------------
(***************************************************************************)
(* What limits a second factor: the counters of failed attempts, and the   *)
(* secret and the last window of a TOTP credential.                        *)
(***************************************************************************)
EXTENDS LoginFlowProofs, FiniteSetTheorems

-----------------------------------------------------------------------------
(* Failures.  A request counts a failure once, and only a request that     *)
(* arrived while the challenge was active can count one.                   *)

Failures(c, enrolling) ==
    IF enrolling THEN row[c].enrollAttempts ELSE row[c].mfaAttempts

WorksOn(r, c, enrolling) ==
    req[r].challenge = c /\ enrolling = (req[r].via = "enrollment")

\* The requests that may still count a failure of this challenge, and those
\* that have counted one and not decided yet.
MayFail(c, enrolling) ==
    {r \in Requests : /\ req[r].pc \in {"verify", "nonce", "assert", "increment"}
                      /\ WorksOn(r, c, enrolling)}
HaveFailed(c, enrolling) ==
    {r \in Requests : req[r].pc \in {"recount", "lockout"} /\ WorksOn(r, c, enrolling)}

\* While the challenge is active every failure past the limit has its request
\* on the way to the lockout, or its request died.
Accounted(c, enrolling) ==
    Active(c) => Failures(c, enrolling) < AttemptLimit + Cardinality(HaveFailed(c, enrolling)) + crashes

\* Afterwards the requests that were let in use up what is left.
Bounded(c, enrolling) ==
    Failures(c, enrolling) + Cardinality(MayFail(c, enrolling))
        < AttemptLimit + Cardinality(Requests) + crashes

Counted == \A c \in Challenges, enrolling \in BOOLEAN :
              Accounted(c, enrolling) /\ Bounded(c, enrolling)

-----------------------------------------------------------------------------
LEMMA Disjoint ==
    ASSUME IsFiniteSet(Requests), NEW A \in SUBSET Requests, NEW B \in SUBSET Requests,
           A \cap B = {}
    PROVE  /\ IsFiniteSet(A) /\ Cardinality(A) \in Nat
           /\ IsFiniteSet(B) /\ Cardinality(B) \in Nat
           /\ Cardinality(Requests) \in Nat
           /\ Cardinality(A) + Cardinality(B) <= Cardinality(Requests)
<1>1. IsFiniteSet(A) /\ IsFiniteSet(B)
  BY FS_Subset
<1>2. /\ Cardinality(A) \in Nat /\ Cardinality(B) \in Nat
      /\ Cardinality(Requests) \in Nat /\ Cardinality(A \cap B) = 0
  BY <1>1, FS_CardinalityType, FS_EmptySet
<1>3. Cardinality(A \cup B) = Cardinality(A) + Cardinality(B) - Cardinality(A \cap B)
  BY <1>1, FS_Union
<1>4. Cardinality(A \cup B) <= Cardinality(Requests)
  BY FS_Subset
<1> QED BY <1>1, <1>2, <1>3, <1>4

LEMMA Numbers ==
    ASSUME Typed, NEW c \in Challenges, NEW enrolling \in BOOLEAN
    PROVE  Failures(c, enrolling) \in Nat /\ crashes \in Nat /\ AttemptLimit \in Nat \ {0}
BY LoginAssumption DEF Typed, TypeOK, Failures, Row

\* The two sets have no request in common, before and after a step.
LEMMA Apart ==
    ASSUME NEW c, NEW enrolling
    PROVE  /\ MayFail(c, enrolling) \in SUBSET Requests
           /\ HaveFailed(c, enrolling) \in SUBSET Requests
           /\ MayFail(c, enrolling) \cap HaveFailed(c, enrolling) = {}
           /\ MayFail(c, enrolling)' \in SUBSET Requests
           /\ HaveFailed(c, enrolling)' \in SUBSET Requests
           /\ (MayFail(c, enrolling) \cap HaveFailed(c, enrolling))' = {}
BY DEF MayFail, HaveFailed

\* While a challenge is active, the first bound is the stronger one.
LEMMA AccountedIsBounded ==
    ASSUME IsFiniteSet(Requests), Typed', NEW c \in Challenges, NEW enrolling \in BOOLEAN,
           Accounted(c, enrolling)', Active(c)'
    PROVE  Bounded(c, enrolling)'
<1>1. /\ Cardinality(MayFail(c, enrolling)') \in Nat
      /\ Cardinality(HaveFailed(c, enrolling)') \in Nat
      /\ Cardinality(MayFail(c, enrolling)') + Cardinality(HaveFailed(c, enrolling)')
            <= Cardinality(Requests)
      /\ Cardinality(Requests) \in Nat
  BY Apart, Disjoint
<1>2. Failures(c, enrolling)' \in Nat /\ crashes' \in Nat /\ AttemptLimit \in Nat
  BY LoginAssumption DEF Typed, TypeOK, Failures, Row
<1> QED BY <1>1, <1>2 DEF Accounted, Bounded

\* A step that counts nothing.
LEMMA NothingCounted ==
    ASSUME IsFiniteSet(Requests), Typed, Typed', Counted,
           NEW c \in Challenges, NEW enrolling \in BOOLEAN,
           Failures(c, enrolling)' = Failures(c, enrolling), crashes' = crashes,
           Active(c)' => Active(c),
           Active(c)' \/ MayFail(c, enrolling)' \subseteq MayFail(c, enrolling),
           \/ ~Active(c)'
           \/ HaveFailed(c, enrolling) \subseteq HaveFailed(c, enrolling)'
           \/ Failures(c, enrolling) < AttemptLimit
    PROVE  Accounted(c, enrolling)' /\ Bounded(c, enrolling)'
<1> DEFINE before == HaveFailed(c, enrolling)
           after == HaveFailed(c, enrolling)'
<1>1. /\ IsFiniteSet(after) /\ Cardinality(before) \in Nat /\ Cardinality(after) \in Nat
      /\ IsFiniteSet(MayFail(c, enrolling)) /\ Cardinality(MayFail(c, enrolling)) \in Nat
      /\ Cardinality(MayFail(c, enrolling)') \in Nat
      /\ Cardinality(Requests) \in Nat
  BY Apart, Disjoint
<1>2. Failures(c, enrolling) \in Nat /\ crashes \in Nat /\ AttemptLimit \in Nat
  BY Numbers
<1>3. CASE Active(c)'
  <2>1. before \subseteq after => Cardinality(before) <= Cardinality(after)
    BY <1>1, FS_Subset
  <2>2. Accounted(c, enrolling)
    BY DEF Counted
  <2>3. Accounted(c, enrolling)'
    BY <1>1, <1>2, <1>3, <2>1, <2>2 DEF Accounted
  <2> QED BY <1>3, <2>3, AccountedIsBounded
<1>4. CASE ~Active(c)'
  <2>1. Cardinality(MayFail(c, enrolling)') <= Cardinality(MayFail(c, enrolling))
    BY <1>1, <1>4, FS_Subset
  <2>2. Bounded(c, enrolling)
    BY DEF Counted
  <2>3. Bounded(c, enrolling)'
    BY <1>1, <1>2, <2>1, <2>2 DEF Bounded
  <2> QED BY <1>4, <2>3 DEF Accounted
<1> QED BY <1>3, <1>4
Unfailed == {"verify", "nonce", "assert", "increment"}
Deciding == {"recount", "lockout"}

\* Steps that leave the counters alone, taken before anything was counted.
LEMMA QuietCounts ==
    ASSUME IsFiniteSet(Requests), Typed, Typed', Counted, NEW r \in Requests,
           \A q \in Requests \ {r} : req'[q] = req[q],
           req[r].pc \notin Deciding,
           req'[r].pc \in Unfailed =>
             /\ req[r].pc \in Unfailed /\ req'[r].challenge = req[r].challenge
             /\ req'[r].via = req[r].via,
           \A c \in Challenges : /\ row'[c].mfaAttempts = row[c].mfaAttempts
                                 /\ row'[c].enrollAttempts = row[c].enrollAttempts
                                 /\ row[c].consumed => row'[c].consumed,
           UNCHANGED <<expired, crashes>>
    PROVE  Counted'
<1> SUFFICES ASSUME NEW c \in Challenges, NEW enrolling \in BOOLEAN
             PROVE  Accounted(c, enrolling)' /\ Bounded(c, enrolling)'
  BY DEF Counted
<1>1. Failures(c, enrolling)' = Failures(c, enrolling) /\ (Active(c)' => Active(c))
  BY DEF Failures, Active
<1>2. MayFail(c, enrolling)' \subseteq MayFail(c, enrolling)
  BY DEF MayFail, WorksOn, Unfailed
<1>3. HaveFailed(c, enrolling) \subseteq HaveFailed(c, enrolling)'
  BY DEF HaveFailed, WorksOn, Deciding
<1> QED BY <1>1, <1>2, <1>3, NothingCounted

\* A request is let in only by an active challenge.
LEMMA ArrivalCounts ==
    ASSUME IsFiniteSet(Requests), Typed, Typed', Counted, NEW r \in Requests,
           NEW k \in Challenges, Active(k), req[r] = Idle,
           \A q \in Requests \ {r} : req'[q] = req[q],
           req'[r].challenge = k,
           UNCHANGED <<row, expired, crashes>>
    PROVE  Counted'
<1> SUFFICES ASSUME NEW c \in Challenges, NEW enrolling \in BOOLEAN
             PROVE  Accounted(c, enrolling)' /\ Bounded(c, enrolling)'
  BY DEF Counted
<1>1. Failures(c, enrolling)' = Failures(c, enrolling) /\ (Active(c)' <=> Active(c))
  BY DEF Failures, Active
<1>2. Active(c)' \/ MayFail(c, enrolling)' \subseteq MayFail(c, enrolling)
  BY <1>1 DEF MayFail, WorksOn
<1>3. HaveFailed(c, enrolling) \subseteq HaveFailed(c, enrolling)'
  BY IdleKnown DEF HaveFailed, WorksOn
<1> QED BY <1>1, <1>2, <1>3, NothingCounted

LEMMA IncrementCounts ==
    ASSUME IsFiniteSet(Requests), Typed, Typed', Counted, NEW r \in Requests,
           IncrementAttempts(r)
    PROVE  Counted'
<1> SUFFICES ASSUME NEW c \in Challenges, NEW enrolling \in BOOLEAN
             PROVE  Accounted(c, enrolling)' /\ Bounded(c, enrolling)'
  BY DEF Counted
<1>1. /\ req'[r].pc = "recount" /\ req[r].pc = "increment"
      /\ req'[r].challenge = req[r].challenge /\ req'[r].via = req[r].via
      /\ \A q \in Requests \ {r} : req'[q] = req[q]
  BY GotoMoves DEF IncrementAttempts
<1> PICK k \in Challenges : k = req[r].challenge
  BY <1>1 DEF Typed, RequestKnown
<1>2. /\ \A d \in Challenges : row'[d].consumed = row[d].consumed
      /\ UNCHANGED <<expired, crashes>>
  BY DEF IncrementAttempts, Typed, TypeOK, Row, clock
<1>3. Active(c)' <=> Active(c)
  BY <1>2 DEF Active
<1>4. CASE WorksOn(r, c, enrolling)
  <2>1. Failures(c, enrolling)' = Failures(c, enrolling) + 1
    <3>1. c = k /\ row[k] \in Row /\ enrolling = (req[r].via = "enrollment")
      BY <1>4 DEF WorksOn, Typed, TypeOK
    <3>2. CASE enrolling
      <4>1. row' = [row EXCEPT ![k] = [row[k] EXCEPT !.enrollAttempts = @ + 1]]
        BY <3>1, <3>2 DEF IncrementAttempts
      <4>2. row'[k] = [row[k] EXCEPT !.enrollAttempts = @ + 1]
        BY <4>1 DEF Typed, TypeOK
      <4> QED BY <3>1, <3>2, <4>2 DEF Failures, Row
    <3>3. CASE ~enrolling
      <4>1. row' = [row EXCEPT ![k] = [row[k] EXCEPT !.mfaAttempts = @ + 1]]
        BY <3>1, <3>3 DEF IncrementAttempts
      <4>2. row'[k] = [row[k] EXCEPT !.mfaAttempts = @ + 1]
        BY <4>1 DEF Typed, TypeOK
      <4> QED BY <3>1, <3>3, <4>2 DEF Failures, Row
    <3> QED BY <3>2, <3>3
  <2>2. /\ HaveFailed(c, enrolling)' = HaveFailed(c, enrolling) \cup {r}
        /\ r \notin HaveFailed(c, enrolling)
    BY <1>1, <1>4 DEF HaveFailed, WorksOn
  <2>3. /\ MayFail(c, enrolling)' = MayFail(c, enrolling) \ {r}
        /\ r \in MayFail(c, enrolling)
    BY <1>1, <1>4 DEF MayFail, WorksOn
  <2>4. /\ IsFiniteSet(HaveFailed(c, enrolling)) /\ IsFiniteSet(MayFail(c, enrolling))
        /\ Cardinality(HaveFailed(c, enrolling)) \in Nat
        /\ Cardinality(MayFail(c, enrolling)) \in Nat
        /\ Cardinality(Requests) \in Nat
    BY Apart, Disjoint
  <2>5. /\ Cardinality(HaveFailed(c, enrolling)') = Cardinality(HaveFailed(c, enrolling)) + 1
        /\ Cardinality(MayFail(c, enrolling)') = Cardinality(MayFail(c, enrolling)) - 1
    <3>1. /\ Cardinality(HaveFailed(c, enrolling) \cup {r})
               = Cardinality(HaveFailed(c, enrolling)) + 1
          /\ Cardinality(MayFail(c, enrolling) \ {r}) = Cardinality(MayFail(c, enrolling)) - 1
      BY <2>2, <2>3, <2>4, FS_AddElement, FS_RemoveElement
    <3> QED BY <2>2, <2>3, <3>1
  <2>6. Failures(c, enrolling) \in Nat /\ crashes \in Nat /\ AttemptLimit \in Nat
    BY Numbers
  <2>7. Accounted(c, enrolling) /\ Bounded(c, enrolling)
    BY DEF Counted
  <2> QED BY <1>2, <1>3, <2>1, <2>4, <2>5, <2>6, <2>7 DEF Accounted, Bounded
<1>5. CASE ~WorksOn(r, c, enrolling)
  <2>1. Failures(c, enrolling)' = Failures(c, enrolling)
    BY <1>5 DEF IncrementAttempts, WorksOn, Failures, Typed, TypeOK, Row
  <2>2. /\ HaveFailed(c, enrolling) \subseteq HaveFailed(c, enrolling)'
        /\ MayFail(c, enrolling)' \subseteq MayFail(c, enrolling)
    BY <1>1, <1>5 DEF HaveFailed, MayFail, WorksOn
  <2> QED BY <1>2, <1>3, <2>1, <2>2, NothingCounted
<1> QED BY <1>4, <1>5

\* A request gives up its count only below the limit.
LEMMA ReadCounts ==
    ASSUME IsFiniteSet(Requests), Typed, Typed', Counted, NEW r \in Requests,
           ReadAttempts(r)
    PROVE  Counted'
<1> SUFFICES ASSUME NEW c \in Challenges, NEW enrolling \in BOOLEAN
             PROVE  Accounted(c, enrolling)' /\ Bounded(c, enrolling)'
  BY DEF Counted
<1>1. req[r].pc = "recount" /\ UNCHANGED <<row, expired, crashes>>
  BY DEF ReadAttempts, clock
<1>2. Failures(c, enrolling)' = Failures(c, enrolling) /\ (Active(c)' <=> Active(c))
  BY <1>1 DEF Failures, Active
<1>3. CASE Attempts(r) >= AttemptLimit
  <2>1. /\ req'[r].pc = "lockout" /\ req'[r].challenge = req[r].challenge
        /\ req'[r].via = req[r].via
        /\ \A q \in Requests \ {r} : req'[q] = req[q]
    BY <1>3, GotoMoves DEF ReadAttempts
  <2>2. /\ HaveFailed(c, enrolling) \subseteq HaveFailed(c, enrolling)'
        /\ MayFail(c, enrolling)' \subseteq MayFail(c, enrolling)
    BY <1>1, <2>1 DEF HaveFailed, MayFail, WorksOn
  <2> QED BY <1>1, <1>2, <2>2, NothingCounted
<1>4. CASE ~(Attempts(r) >= AttemptLimit)
  <2>1. req'[r].pc = "idle" /\ \A q \in Requests \ {r} : req'[q] = req[q]
    BY <1>4, FinishMoves, IdleKnown DEF ReadAttempts
  <2>2. MayFail(c, enrolling)' \subseteq MayFail(c, enrolling)
    BY <2>1 DEF MayFail, WorksOn
  <2>3. CASE WorksOn(r, c, enrolling)
    <3>1. Failures(c, enrolling) = Attempts(r)
      BY <2>3 DEF WorksOn, Failures, Attempts
    <3>2. Failures(c, enrolling) < AttemptLimit
      BY <1>4, <3>1, Numbers
    <3> QED BY <1>1, <1>2, <2>2, <3>2, NothingCounted
  <2>4. CASE ~WorksOn(r, c, enrolling)
    <3>1. HaveFailed(c, enrolling) \subseteq HaveFailed(c, enrolling)'
      BY <2>1, <2>4 DEF HaveFailed, WorksOn
    <3> QED BY <1>1, <1>2, <2>2, <3>1, NothingCounted
  <2> QED BY <2>3, <2>4
<1> QED BY <1>3, <1>4

\* The lockout ends the account: its challenge is not active any more.
LEMMA LockoutCounts ==
    ASSUME IsFiniteSet(Requests), Typed, Typed', Counted, NEW r \in Requests, Lockout(r)
    PROVE  Counted'
<1> SUFFICES ASSUME NEW c \in Challenges, NEW enrolling \in BOOLEAN
             PROVE  Accounted(c, enrolling)' /\ Bounded(c, enrolling)'
  BY DEF Counted
<1> PICK k \in Challenges : k = req[r].challenge
  BY DEF Lockout, Typed, RequestKnown
<1>1. /\ req'[r].pc = "idle" /\ req[r].pc = "lockout"
      /\ \A q \in Requests \ {r} : req'[q] = req[q]
      /\ UNCHANGED <<expired, crashes>>
  BY FinishMoves, IdleKnown DEF Lockout, clock
<1>2. /\ Failures(c, enrolling)' = Failures(c, enrolling)
      /\ Active(c)' => Active(c) /\ c # k
  <2>1. CASE Active(k)
    <3>1. row' = [row EXCEPT ![k] = [row[k] EXCEPT !.consumed = TRUE]]
      BY <2>1 DEF Lockout
    <3>2. row'[k] = [row[k] EXCEPT !.consumed = TRUE]
          /\ \A d \in Challenges \ {k} : row'[d] = row[d]
      BY <3>1, RowMoves
    <3>3. /\ row'[k].consumed /\ row'[k].mfaAttempts = row[k].mfaAttempts
          /\ row'[k].enrollAttempts = row[k].enrollAttempts
      BY <3>2 DEF Typed, TypeOK, Row
    <3> QED BY <1>1, <3>2, <3>3 DEF Failures, Active
  <2>2. CASE ~Active(k)
    BY <1>1, <2>2 DEF Lockout, Failures, Active
  <2> QED BY <2>1, <2>2
<1>3. MayFail(c, enrolling)' \subseteq MayFail(c, enrolling)
  BY <1>1 DEF MayFail, WorksOn
<1>4. c # k => HaveFailed(c, enrolling) \subseteq HaveFailed(c, enrolling)'
  BY <1>1 DEF HaveFailed, WorksOn
<1> QED BY <1>1, <1>2, <1>3, <1>4, NothingCounted

\* A request that dies takes at most its own failure with it.
LEMMA CrashCounts ==
    ASSUME IsFiniteSet(Requests), Typed, Typed', Counted, NEW r \in Requests, Crash(r)
    PROVE  Counted'
<1> SUFFICES ASSUME NEW c \in Challenges, NEW enrolling \in BOOLEAN
             PROVE  Accounted(c, enrolling)' /\ Bounded(c, enrolling)'
  BY DEF Counted
<1>1. /\ req'[r].pc = "idle" /\ \A q \in Requests \ {r} : req'[q] = req[q]
      /\ UNCHANGED <<row, expired>> /\ crashes' = crashes + 1
  BY FinishMoves, IdleKnown DEF Crash, clock
<1>2. Failures(c, enrolling)' = Failures(c, enrolling) /\ (Active(c)' <=> Active(c))
  BY <1>1 DEF Failures, Active
<1>3. /\ HaveFailed(c, enrolling)' = HaveFailed(c, enrolling) \ {r}
      /\ MayFail(c, enrolling)' = MayFail(c, enrolling) \ {r}
  BY <1>1 DEF HaveFailed, MayFail, WorksOn
<1>4. /\ IsFiniteSet(HaveFailed(c, enrolling)) /\ IsFiniteSet(MayFail(c, enrolling))
      /\ Cardinality(HaveFailed(c, enrolling)) \in Nat
      /\ Cardinality(MayFail(c, enrolling)) \in Nat
      /\ Cardinality(Requests) \in Nat
  BY Apart, Disjoint
<1>5. /\ Cardinality(HaveFailed(c, enrolling)') >= Cardinality(HaveFailed(c, enrolling)) - 1
      /\ Cardinality(MayFail(c, enrolling)') <= Cardinality(MayFail(c, enrolling))
      /\ Cardinality(HaveFailed(c, enrolling)') \in Nat
      /\ Cardinality(MayFail(c, enrolling)') \in Nat
  <2>1. \A S : IsFiniteSet(S) =>
           /\ Cardinality(S) \in Nat
           /\ Cardinality(S \ {r}) \in Nat
           /\ Cardinality(S \ {r}) = IF r \in S THEN Cardinality(S) - 1 ELSE Cardinality(S)
    BY FS_RemoveElement, FS_CardinalityType
  <2> QED BY <1>3, <1>4, <2>1
<1>6. Failures(c, enrolling) \in Nat /\ crashes \in Nat /\ AttemptLimit \in Nat
  BY Numbers
<1>7. Accounted(c, enrolling) /\ Bounded(c, enrolling)
  BY DEF Counted
<1> QED BY <1>1, <1>2, <1>4, <1>5, <1>6, <1>7 DEF Accounted, Bounded
\* No statement but the increment touches a counter, and none takes a consume back.
CountersStay ==
    \A c \in Challenges : /\ row'[c].mfaAttempts = row[c].mfaAttempts
                          /\ row'[c].enrollAttempts = row[c].enrollAttempts
                          /\ row[c].consumed => row'[c].consumed

LEMMA RowWritesKeepCounters ==
    ASSUME Typed, NEW r \in Requests,
           \/ SetMfaState(r) \/ SwitchSet(r) \/ SatisfyMfa(r) \/ SetEnrollmentSecret(r)
           \/ CompleteEnrollment(r) \/ ConsumeChallenge(r)
    PROVE  CountersStay
<1> PICK k \in Challenges : k = req[r].challenge
  BY DEF SetMfaState, SwitchSet, SatisfyMfa, SetEnrollmentSecret, CompleteEnrollment,
         ConsumeChallenge, Typed, RequestKnown
<1>1. row[k] \in Row
  BY DEF Typed, TypeOK
<1>2. ASSUME NEW w, row' = [row EXCEPT ![k] = w], w.mfaAttempts = row[k].mfaAttempts,
             w.enrollAttempts = row[k].enrollAttempts, row[k].consumed => w.consumed
      PROVE  CountersStay
  BY <1>2, RowMoves DEF CountersStay
<1>3. CASE UNCHANGED row
  BY <1>3 DEF CountersStay
<1>4. CASE SetMfaState(r)
  BY <1>1, <1>2, <1>4 DEF SetMfaState, Row
<1>5. CASE SwitchSet(r) /\ Enrolled(req[r].user)
  BY <1>1, <1>2, <1>5 DEF SwitchSet, Row
<1>6. CASE SatisfyMfa(r)
  BY <1>1, <1>2, <1>6 DEF SatisfyMfa, Row
<1>7. CASE SetEnrollmentSecret(r)
  BY <1>1, <1>2, <1>7 DEF SetEnrollmentSecret, Row
<1>8. CASE CompleteEnrollment(r)
  BY <1>1, <1>2, <1>8 DEF CompleteEnrollment, Row
<1>9. CASE ConsumeChallenge(r) /\ Active(k)
  BY <1>1, <1>2, <1>9 DEF ConsumeChallenge, Row
<1> QED BY <1>3, <1>4, <1>5, <1>6, <1>7, <1>8, <1>9 DEF SwitchSet, ConsumeChallenge

LEMMA CountedInit == IsFiniteSet(Requests) /\ Init => Counted
<1> SUFFICES ASSUME IsFiniteSet(Requests), Init,
                    NEW c \in Challenges, NEW enrolling \in BOOLEAN
             PROVE  Accounted(c, enrolling) /\ Bounded(c, enrolling)
  BY DEF Counted
<1>1. MayFail(c, enrolling) = {} /\ HaveFailed(c, enrolling) = {}
  BY IdleKnown DEF Init, MayFail, HaveFailed
<1>2. Failures(c, enrolling) = 0 /\ crashes = 0 /\ AttemptLimit \in Nat \ {0}
  BY LoginAssumption DEF Init, Failures, FreshRow
<1>3. Cardinality(Requests) \in Nat /\ Cardinality({}) = 0
  BY FS_CardinalityType, FS_EmptySet
<1> QED BY <1>1, <1>2, <1>3 DEF Accounted, Bounded

LEMMA CountedNext ==
    ASSUME IsFiniteSet(Requests)
    PROVE  Typed /\ Typed' /\ Counted /\ [Next]_vars => Counted'
<1> SUFFICES ASSUME Typed, Typed', Counted, [Next]_vars PROVE Counted'
  OBVIOUS
<1> USE DEF clock, policy, nonces, outcome
<1>1. ASSUME NEW r \in Requests, Arrive(r) PROVE Counted'
  <2> PICK c \in Challenges :
          \/ \E u \in Users, m \in Methods : FirstFactor(r, c, u, m)
          \/ TotpVerify(r, c) \/ SwitchToTotp(r, c)
          \/ \E n \in Nonces : PasskeyStart(r, c, n) \/ PasskeyFinish(r, c, n)
          \/ EnrollStart(r, c) \/ EnrollFinish(r, c)
    BY <1>1 DEF Arrive
  <2>1. /\ req[r] = Idle /\ Active(c) /\ req'[r].challenge = c
        /\ \A q \in Requests \ {r} : req'[q] = req[q]
        /\ UNCHANGED <<row, expired, crashes>>
    BY ArrivalMoves, EnrollStartMoves, EnrollFinishMoves
  <2> QED BY <2>1, ArrivalCounts
<1>2. ASSUME NEW r \in Requests,
             \/ ReadPolicy(r) \/ CreateNonce(r) \/ ConsumeNonce(r) \/ VerifyAssertion(r)
             \/ UpdateLastUsedWindow(r) \/ PersistCredential(r) \/ CreateSession(r)
             \/ Authorize(r)
      PROVE  Counted'
  <2>1. /\ req[r].pc \notin Deciding /\ UNCHANGED <<row, expired, crashes>>
        /\ Finish(r) \/ \E pc \in PCs :
             Goto(r, pc) /\ (pc \in Unfailed => req[r].pc \in Unfailed)
    BY <1>2 DEF ReadPolicy, CreateNonce, ConsumeNonce, VerifyAssertion, UpdateLastUsedWindow,
                PersistCredential, CreateSession, Authorize, Deciding, Unfailed, PCs,
                Owning, BeforeSession
  <2>2. /\ \A q \in Requests \ {r} : req'[q] = req[q]
        /\ req'[r].pc \in Unfailed =>
             /\ req[r].pc \in Unfailed /\ req'[r].challenge = req[r].challenge
             /\ req'[r].via = req[r].via
    BY <2>1, FinishMoves, GotoMoves, IdleKnown DEF Unfailed
  <2> QED BY <2>1, <2>2, QuietCounts
<1>4. ASSUME NEW r \in Requests, ReadCredentials(r) PROVE Counted'
  BY <1>4, ReadCredentialsMoves, QuietCounts DEF ReadCredentials, Unfailed, Deciding
<1>5. ASSUME NEW r \in Requests, CheckTotpCode(r) PROVE Counted'
  <2>1. req[r].pc = "verify" /\ UNCHANGED <<row, expired, crashes>>
    BY <1>5 DEF CheckTotpCode
  <2>2. /\ \A q \in Requests \ {r} : req'[q] = req[q]
        /\ req'[r].pc \in Unfailed =>
             req'[r].challenge = req[r].challenge /\ req'[r].via = req[r].via
    BY <1>5, CheckTotpMoves, FinishMoves, GotoMoves, IdleKnown DEF Unfailed
  <2> QED BY <2>1, <2>2, QuietCounts DEF Unfailed, Deciding
<1>6. ASSUME NEW r \in Requests,
             \/ SetMfaState(r) \/ SwitchSet(r) \/ SatisfyMfa(r) \/ SetEnrollmentSecret(r)
             \/ CompleteEnrollment(r) \/ ConsumeChallenge(r)
      PROVE  Counted'
  <2>1. CountersStay
    BY <1>6, RowWritesKeepCounters
  <2>2. /\ req[r].pc \notin Deciding /\ UNCHANGED <<expired, crashes>>
        /\ Finish(r) \/ \E pc : Goto(r, pc) /\ pc \notin Unfailed
    BY <1>6 DEF SetMfaState, SwitchSet, SatisfyMfa, SetEnrollmentSecret, CompleteEnrollment,
                ConsumeChallenge, NextAfterConsume, Deciding, Unfailed
  <2>3. /\ \A q \in Requests \ {r} : req'[q] = req[q]
        /\ req'[r].pc \notin Unfailed
    BY <2>2, FinishMoves, GotoMoves, IdleKnown DEF Unfailed
  <2> QED BY <2>1, <2>2, <2>3, QuietCounts DEF CountersStay
<1>7. ASSUME NEW r \in Requests, Continue(r) PROVE Counted'
  BY <1>2, <1>4, <1>5, <1>6, <1>7, IncrementCounts, ReadCounts, LockoutCounts DEF Continue
<1>8. CASE UNCHANGED <<row, req, crashes>> /\ expired \subseteq expired'
  <2> SUFFICES ASSUME NEW c \in Challenges, NEW enrolling \in BOOLEAN
               PROVE  Accounted(c, enrolling)' /\ Bounded(c, enrolling)'
    BY DEF Counted
  <2>1. /\ Failures(c, enrolling)' = Failures(c, enrolling) /\ (Active(c)' => Active(c))
        /\ MayFail(c, enrolling)' = MayFail(c, enrolling)
        /\ HaveFailed(c, enrolling)' = HaveFailed(c, enrolling)
    BY <1>8 DEF Failures, Active, MayFail, HaveFailed, WorksOn
  <2> QED BY <1>8, <2>1, NothingCounted
<1>9. CASE Environment
  BY <1>8, <1>9, CrashCounts DEF Environment, Tick, PatchPolicy, Expire
<1>10. CASE UNCHANGED vars
  BY <1>8, <1>10 DEF vars
<1> QED BY <1>1, <1>7, <1>9, <1>10 DEF Next

\* Concurrent guesses overshoot the limit of attempts by no more than one per
\* request in flight and one per request that died: the counter is read back
\* in a second statement and the challenge consumed in a third.
THEOREM Overshoot ==
    ASSUME IsFiniteSet(Requests)
    PROVE  Spec => []FailuresBounded
<1>1. Init => Typed /\ Counted
  BY TypedInit, CountedInit
<1>2. Typed /\ Counted /\ [Next]_vars => Typed' /\ Counted'
  BY TypedNext, CountedNext
<1>3. Typed /\ Counted => FailuresBounded
  <2> SUFFICES ASSUME Typed, Counted, NEW c \in Challenges, NEW enrolling \in BOOLEAN
               PROVE  Failures(c, enrolling) < AttemptLimit + Cardinality(Requests) + crashes
    BY DEF FailuresBounded, Failures
  <2>1. Cardinality(MayFail(c, enrolling)) \in Nat /\ Cardinality(Requests) \in Nat
    BY Apart, Disjoint
  <2> QED BY <2>1, Numbers DEF Counted, Bounded
<1> QED BY <1>1, <1>2, <1>3, PTL DEF Spec

\* As long as nobody died, a challenge at its limit of failures that is still
\* usable has a request on its way to the lockout: the statement that counts
\* and the one that consumes are two, but no handler gives up in between.
LockoutUnderWay ==
    \A c \in Challenges : \A enrolling \in BOOLEAN :
        Active(c) /\ crashes = 0 /\ Failures(c, enrolling) >= AttemptLimit =>
            \E r \in Requests : /\ req[r].pc \in {"recount", "lockout"}
                                /\ WorksOn(r, c, enrolling)

\* The safety half of LockoutCompletes.
THEOREM LimitIsActedOn ==
    ASSUME IsFiniteSet(Requests)
    PROVE  Spec => []LockoutUnderWay
<1>1. Init => Typed /\ Counted
  BY TypedInit, CountedInit
<1>2. Typed /\ Counted /\ [Next]_vars => Typed' /\ Counted'
  BY TypedNext, CountedNext
<1>3. Typed /\ Counted => LockoutUnderWay
  <2> SUFFICES ASSUME Typed, Counted, NEW c \in Challenges, NEW enrolling \in BOOLEAN,
                      Active(c), crashes = 0, Failures(c, enrolling) >= AttemptLimit
               PROVE  HaveFailed(c, enrolling) # {}
    BY DEF LockoutUnderWay, HaveFailed
  <2>1. Accounted(c, enrolling)
    BY DEF Counted
  <2>2. Cardinality(HaveFailed(c, enrolling)) # 0
    <3>1. Failures(c, enrolling) < AttemptLimit + Cardinality(HaveFailed(c, enrolling)) + crashes
      BY <2>1 DEF Accounted
    <3> QED BY <3>1, Numbers
  <2> QED BY <2>2, FS_EmptySet
<1> QED BY <1>1, <1>2, <1>3, PTL DEF Spec

-----------------------------------------------------------------------------
(* Credentials.  Two statements write them. *)

LEMMA CredentialWriters ==
    ASSUME Typed, [Next]_vars
    PROVE  \/ UNCHANGED totp
           \/ \E r \in Requests : UpdateLastUsedWindow(r) \/ PersistCredential(r)
<1> USE DEF clock, policy, nonces, outcome
<1>1. ASSUME NEW r \in Requests, Arrive(r) PROVE UNCHANGED totp
  BY <1>1 DEF Arrive, FirstFactor, TotpVerify, SwitchToTotp, PasskeyStart, PasskeyFinish,
              EnrollStart, EnrollFinish
<1>2. ASSUME NEW r \in Requests, Continue(r), ~UpdateLastUsedWindow(r), ~PersistCredential(r)
      PROVE  UNCHANGED totp
  BY <1>2 DEF Continue, ReadPolicy, ReadCredentials, SetMfaState, CheckTotpCode, SatisfyMfa,
              SwitchSet, IncrementAttempts, ReadAttempts, Lockout, CreateNonce, ConsumeNonce,
              VerifyAssertion, SetEnrollmentSecret, CompleteEnrollment, ConsumeChallenge,
              CreateSession, Authorize
<1>3. CASE Environment \/ UNCHANGED vars
  BY <1>3 DEF Environment, Tick, PatchPolicy, Expire, Crash, vars
<1> QED BY <1>1, <1>2, <1>3 DEF Next

LEMMA UpdateMoves ==
    ASSUME Typed, NEW r \in Requests, UpdateLastUsedWindow(r)
    PROVE  /\ req[r].user \in Users
           /\ totp'[req[r].user].secret = totp[req[r].user].secret
           /\ totp'[req[r].user].last = req[r].window
           /\ \A u \in Users \ {req[r].user} : totp'[u] = totp[u]
<1>1. req[r].user \in Users /\ totp[req[r].user] \in Credential
  BY DEF UpdateLastUsedWindow, Typed, TypeOK, RequestKnown
<1>2. totp'[req[r].user] = [totp[req[r].user] EXCEPT !.last = req[r].window]
  BY <1>1 DEF UpdateLastUsedWindow, Typed, TypeOK
<1>3. \A u \in Users \ {req[r].user} : totp'[u] = totp[u]
  BY <1>1 DEF UpdateLastUsedWindow, Typed, TypeOK
<1> QED BY <1>1, <1>2, <1>3 DEF Credential

LEMMA PersistMoves ==
    ASSUME Typed, NEW r \in Requests, PersistCredential(r)
    PROVE  /\ req[r].user \in Users
           /\ \A u \in Users \ {req[r].user} : totp'[u] = totp[u]
           /\ Enrolled(req[r].user) => UNCHANGED totp
           /\ ~Enrolled(req[r].user) => /\ totp'[req[r].user].secret = req[r].secret
                                        /\ totp'[req[r].user].last = req[r].window
<1>1. req[r].user \in Users
  BY DEF PersistCredential, Typed, RequestKnown
<1> QED BY <1>1 DEF PersistCredential, Typed, TypeOK

\* Whatever enrolments finish side by side, a user's authenticator stays.
THEOREM SecretsStay == Spec => TotpSecretsStay
<1>1. Typed /\ [Next]_vars => [\A u \in Users : Enrolled(u) => totp'[u].secret = totp[u].secret]_totp
  <2> SUFFICES ASSUME Typed, [Next]_vars, NEW u \in Users, Enrolled(u)
               PROVE  totp'[u].secret = totp[u].secret
    OBVIOUS
  <2>1. ASSUME NEW r \in Requests, UpdateLastUsedWindow(r)
        PROVE  totp'[u].secret = totp[u].secret
    BY <2>1, UpdateMoves
  <2>2. ASSUME NEW r \in Requests, PersistCredential(r)
        PROVE  totp'[u].secret = totp[u].secret
    BY <2>2, PersistMoves
  <2> QED BY <2>1, <2>2, CredentialWriters
<1> QED BY <1>1, TypedInit, TypedNext, PTL DEF Spec, TotpSecretsStay
-----------------------------------------------------------------------------
(* Windows.  A code is compared with the credential in one statement and   *)
(* its window stored in another, so the last used window can move back:    *)
(* when one request is about to store a window and another has passed the  *)
(* same check, on another challenge of the user, with a window no later.   *)

\* A checked code whose window may still be stored: its request can win the
\* consume of its challenge, or has won it.
Unstored(q) ==
    /\ q.via = "totp"
    /\ \/ q.pc = "window"
       \/ q.pc = "consume" /\ ~row[q.challenge].consumed

CodesRace ==
    \E q, r \in Requests :
        /\ q # r /\ req[q].user = req[r].user
        /\ req[q].pc = "window" /\ Unstored(req[r])
        /\ req[r].window <= req[q].window

\* A window that is not stored yet is later than the last one.
Ahead(q) ==
    /\ Enrolled(q.user) /\ q.secret = totp[q.user].secret
    /\ q.window > totp[q.user].last

RequestAhead(q) ==
    /\ Unstored(q) => Ahead(q)
    /\ q.pc = "window" => q.via = "totp"
    /\ q.pc = "consume" /\ q.via = "enrollment" => q.secret # NoSecret
    /\ q.pc = "persist" => q.via = "enrollment" /\ q.secret # NoSecret

WindowsAhead ==
    /\ \A u \in Users : ~Enrolled(u) => totp[u].last = 0
    /\ \A r \in Requests : RequestAhead(req[r])

LEMMA WindowsAheadInit == Init => WindowsAhead
BY IdleKnown DEF Init, WindowsAhead, RequestAhead, Unstored, Enrolled

\* No statement reopens a row, and only the one of enrol start puts a secret in it.
LEMMA RowWritesMove ==
    ASSUME Typed, NEW r \in Requests,
           \/ SetMfaState(r) \/ SwitchSet(r) \/ SatisfyMfa(r) \/ IncrementAttempts(r)
           \/ Lockout(r) \/ ConsumeChallenge(r)
           \/ SetEnrollmentSecret(r) \/ CompleteEnrollment(r)
    PROVE  /\ UNCHANGED <<totp, sessions, usedSecrets>>
           /\ \A c \in Challenges :
                /\ row[c].consumed => row'[c].consumed
                /\ \/ row'[c].secret \in {row[c].secret, NoSecret}
                   \/ /\ SetEnrollmentSecret(r)
                      /\ c = req[r].challenge /\ row'[c].secret = req[r].secret
<1> USE DEF outcome
<1> DEFINE Kept == \A c \in Challenges :
                     /\ row[c].consumed => row'[c].consumed
                     /\ \/ row'[c].secret \in {row[c].secret, NoSecret}
                        \/ /\ SetEnrollmentSecret(r)
                           /\ c = req[r].challenge /\ row'[c].secret = req[r].secret
<1> PICK k \in Challenges : k = req[r].challenge
  BY DEF SetMfaState, SwitchSet, SatisfyMfa, IncrementAttempts, Lockout, ConsumeChallenge,
         SetEnrollmentSecret, CompleteEnrollment, Typed, RequestKnown
<1>1. row[k] \in Row
  BY DEF Typed, TypeOK
<1>2. UNCHANGED <<totp, sessions, usedSecrets>>
  BY DEF SetMfaState, SwitchSet, SatisfyMfa, IncrementAttempts, Lockout, ConsumeChallenge,
         SetEnrollmentSecret, CompleteEnrollment
<1>3. ASSUME NEW w, row' = [row EXCEPT ![k] = w], row[k].consumed => w.consumed,
             \/ w.secret \in {row[k].secret, NoSecret}
             \/ SetEnrollmentSecret(r) /\ w.secret = req[r].secret
      PROVE  Kept
  BY <1>3, RowMoves
<1> SUFFICES Kept
  BY <1>2
<1>4. CASE UNCHANGED row
  BY <1>4
<1> HIDE DEF Kept
<1>5. CASE SetMfaState(r)
  BY <1>1, <1>3, <1>5 DEF SetMfaState, Row
<1>6. CASE SwitchSet(r) /\ Enrolled(req[r].user)
  BY <1>1, <1>3, <1>6 DEF SwitchSet, Row
<1>7. CASE SatisfyMfa(r)
  BY <1>1, <1>3, <1>7 DEF SatisfyMfa, Row
<1>8. CASE IncrementAttempts(r)
  BY <1>1, <1>3, <1>8 DEF IncrementAttempts, Row
<1>9. CASE Lockout(r) /\ Active(k)
  BY <1>1, <1>3, <1>9 DEF Lockout, Row
<1>10. CASE ConsumeChallenge(r) /\ Active(k)
  BY <1>1, <1>3, <1>10 DEF ConsumeChallenge, Row
<1>11. CASE SetEnrollmentSecret(r)
  <2> PICK s : s = req[r].secret
    OBVIOUS
  <2>1. row' = [row EXCEPT ![k] = [row[k] EXCEPT !.secret = s]]
    BY <1>11 DEF SetEnrollmentSecret
  <2> QED BY <1>1, <1>3, <1>11, <2>1 DEF Row
<1>12. CASE CompleteEnrollment(r)
  <2>1. row' = [row EXCEPT ![k] = [row[k] EXCEPT !.mfaState = "satisfied", !.secret = NoSecret]]
    BY <1>12 DEF CompleteEnrollment
  <2> QED BY <1>1, <1>3, <1>12, <2>1 DEF Row
<1> QED BY <1>4, <1>5, <1>6, <1>7, <1>8, <1>9, <1>10, <1>11, <1>12
        DEF SwitchSet, Lockout, ConsumeChallenge

LEMMA ConsumedStays ==
    ASSUME Typed, [Next]_vars
    PROVE  \A c \in Challenges : row[c].consumed => row'[c].consumed
<1> USE DEF clock, policy, nonces, outcome
<1>1. ASSUME NEW r \in Requests, Arrive(r) PROVE UNCHANGED row
  BY <1>1 DEF Arrive, FirstFactor, TotpVerify, SwitchToTotp, PasskeyStart, PasskeyFinish,
              EnrollStart, EnrollFinish
<1>2. ASSUME NEW r \in Requests, Continue(r),
             ~SetMfaState(r), ~SwitchSet(r), ~SatisfyMfa(r), ~IncrementAttempts(r),
             ~Lockout(r), ~ConsumeChallenge(r), ~SetEnrollmentSecret(r), ~CompleteEnrollment(r)
      PROVE  UNCHANGED row
  BY <1>2 DEF Continue, ReadPolicy, ReadCredentials, CheckTotpCode, UpdateLastUsedWindow,
              ReadAttempts, CreateNonce, ConsumeNonce, VerifyAssertion, PersistCredential,
              CreateSession, Authorize
<1>3. CASE Environment \/ UNCHANGED vars
  BY <1>3 DEF Environment, Tick, PatchPolicy, Expire, Crash, vars
<1> QED BY <1>1, <1>2, <1>3, RowWritesMove DEF Next

\* The others stay ahead as long as the credentials stay as they are.
LEMMA AheadFrame ==
    ASSUME Typed, WindowsAhead, [Next]_vars, NEW r \in Requests, UNCHANGED totp,
           \A q \in Requests \ {r} : req'[q] = req[q], RequestAhead(req[r])'
    PROVE  WindowsAhead'
<1>1. ASSUME NEW q \in Requests \ {r}, Unstored(req[q])' PROVE Unstored(req[q])
  BY <1>1, ConsumedStays DEF Unstored, Typed, RequestKnown
<1>2. \A q \in Requests \ {r} : RequestAhead(req[q])'
  BY <1>1 DEF WindowsAhead, RequestAhead, Ahead, Enrolled
<1> QED BY <1>2 DEF WindowsAhead, Enrolled

LEMMA WindowsAheadNext ==
    Typed /\ Ownership /\ Evidence /\ WindowsAhead /\ ~CodesRace /\ [Next]_vars => WindowsAhead'
<1> SUFFICES ASSUME Typed, Ownership, Evidence, WindowsAhead, ~CodesRace, [Next]_vars
             PROVE  WindowsAhead'
  OBVIOUS
<1> USE DEF clock, policy, nonces, outcome
\* A request that is not about to use a window.
<1>1. ASSUME NEW r \in Requests, UNCHANGED totp,
             \A q \in Requests \ {r} : req'[q] = req[q],
             req'[r].pc \notin {"consume", "window", "persist"}
      PROVE  WindowsAhead'
  BY <1>1, AheadFrame DEF RequestAhead, Unstored
<1>2. ASSUME NEW r \in Requests, NEW pc, Goto(r, pc), UNCHANGED totp,
             pc \notin {"consume", "window", "persist"}
      PROVE  WindowsAhead'
  BY <1>1, <1>2, GotoMoves
<1>3. ASSUME NEW r \in Requests, Finish(r), UNCHANGED totp PROVE WindowsAhead'
  BY <1>1, <1>3, FinishMoves, IdleKnown
<1>4. ASSUME NEW r \in Requests, NEW c \in Challenges,
             \/ \E u \in Users, m \in Methods : FirstFactor(r, c, u, m)
             \/ TotpVerify(r, c) \/ SwitchToTotp(r, c)
             \/ \E n \in Nonces : PasskeyStart(r, c, n) \/ PasskeyFinish(r, c, n)
             \/ EnrollStart(r, c)
      PROVE  WindowsAhead'
  BY <1>1, <1>4, ArrivalMoves, EnrollStartMoves
<1>5. ASSUME NEW r \in Requests, NEW c \in Challenges, EnrollFinish(r, c)
      PROVE  WindowsAhead'
  <2>1. RequestAhead(req[r])' /\ UNCHANGED totp
    BY <1>5, EnrollFinishMoves DEF RequestAhead, Unstored
  <2> QED BY <1>5, <2>1, AheadFrame, EnrollFinishMoves
<1>6. ASSUME NEW r \in Requests,
             \/ SetMfaState(r) \/ SatisfyMfa(r) \/ SwitchSet(r) \/ IncrementAttempts(r)
             \/ ReadAttempts(r) \/ Lockout(r) \/ CreateNonce(r) \/ ConsumeNonce(r)
             \/ SetEnrollmentSecret(r) \/ CompleteEnrollment(r) \/ CreateSession(r)
             \/ Authorize(r) \/ Crash(r)
      PROVE  WindowsAhead'
  BY <1>2, <1>3, <1>6
     DEF SetMfaState, SatisfyMfa, SwitchSet, IncrementAttempts, ReadAttempts, Lockout,
         CreateNonce, ConsumeNonce, SetEnrollmentSecret, CompleteEnrollment, CreateSession,
         Authorize, Crash
<1>7. ASSUME NEW r \in Requests, ReadCredentials(r) PROVE WindowsAhead'
  BY <1>1, <1>7, ReadCredentialsMoves DEF ReadCredentials
\* What goes to the consume without a code.
<1>8. ASSUME NEW r \in Requests, Goto(r, "consume"), UNCHANGED totp,
             req[r].via \notin {"totp", "enrollment"}
      PROVE  WindowsAhead'
  <2>1. req'[r].pc = "consume" /\ req'[r].via = req[r].via
    BY <1>8, GotoMoves
  <2>2. RequestAhead(req[r])'
    BY <1>8, <2>1 DEF RequestAhead, Unstored
  <2> QED BY <1>8, <2>2, AheadFrame, GotoMoves
<1>9. ASSUME NEW r \in Requests, ReadPolicy(r) \/ VerifyAssertion(r) PROVE WindowsAhead'
  <2>1. req[r].via \notin {"totp", "enrollment"}
    BY <1>9 DEF ReadPolicy, VerifyAssertion, Evidence, RequestProved
  <2> QED BY <1>2, <1>8, <1>9, <2>1 DEF ReadPolicy, VerifyAssertion
<1>10. ASSUME NEW r \in Requests, CheckTotpCode(r) PROVE WindowsAhead'
  <2>1. req[r].via = "totp" /\ UNCHANGED totp
    BY <1>10 DEF CheckTotpCode, Evidence, RequestProved
  <2>2. CASE Finish(r) \/ Goto(r, "increment")
    BY <1>2, <1>3, <2>1, <2>2
  <2>3. CASE ~(Finish(r) \/ Goto(r, "increment"))
    <3>1. RequestAhead(req[r])'
      BY <1>10, <2>1, <2>3, CheckTotpMoves
         DEF RequestAhead, Unstored, Ahead, Enrolled, AcceptedWindows
    <3> QED BY <1>10, <2>1, <3>1, AheadFrame, CheckTotpMoves
  <2> QED BY <2>2, <2>3
\* The winner of the consume was ahead, for the row was open.
<1>11. ASSUME NEW r \in Requests, ConsumeChallenge(r) PROVE WindowsAhead'
  <2>1. CASE Finish(r)
    BY <1>3, <1>11, <2>1 DEF ConsumeChallenge
  <2>2. CASE Goto(r, NextAfterConsume(req[r].via)) /\ Active(req[r].challenge)
    <3>1. /\ req'[r].pc = NextAfterConsume(req[r].via) /\ req'[r].via = req[r].via
          /\ req'[r].window = req[r].window /\ req'[r].user = req[r].user
          /\ req'[r].secret = req[r].secret
          /\ \A q \in Requests \ {r} : req'[q] = req[q]
      BY <2>2, GotoMoves
    <3>2. req[r].pc = "consume" /\ UNCHANGED totp /\ RequestAhead(req[r])
      BY <1>11 DEF ConsumeChallenge, WindowsAhead
    <3>3. req[r].via = "totp" => Ahead(req[r])
      BY <2>2, <3>2 DEF RequestAhead, Unstored, Active
    <3>4. RequestAhead(req[r])'
      BY <3>1, <3>2, <3>3 DEF RequestAhead, Unstored, Ahead, Enrolled, NextAfterConsume
    <3> QED BY <3>1, <3>2, <3>4, AheadFrame
  <2> QED BY <1>11, <2>1, <2>2 DEF ConsumeChallenge
\* Who is ahead of another's window as it is stored stays ahead: they do not race.
<1>12. ASSUME NEW r \in Requests, UpdateLastUsedWindow(r) PROVE WindowsAhead'
  <2>1. /\ req'[r].pc = "satisfy" /\ \A q \in Requests \ {r} : req'[q] = req[q]
        /\ UNCHANGED row /\ req[r].pc = "window"
    BY <1>12, GotoMoves DEF UpdateLastUsedWindow
  <2>2. ASSUME NEW q \in Requests \ {r}, Unstored(req[q]) PROVE Ahead(req[q])'
    <3>1. Ahead(req[q]) /\ req[q].user \in Users
      BY <2>2 DEF WindowsAhead, RequestAhead, Unstored, Typed, RequestKnown
    <3>2. req[q].user = req[r].user => req[q].window > req[r].window
      <4>1. req[q].user = req[r].user => ~(req[q].window <= req[r].window)
        BY <2>1, <2>2 DEF CodesRace
      <4>2. req[q].window \in Nat /\ req[r].window \in Nat
        BY DEF Typed, TypeOK, Request, Windows
      <4> QED BY <4>1, <4>2
    <3> QED BY <1>12, <2>1, <3>1, <3>2, UpdateMoves DEF Ahead, Enrolled
  <2>3. \A q \in Requests \ {r} : RequestAhead(req[q])'
    BY <2>1, <2>2 DEF RequestAhead, Unstored, WindowsAhead
  <2>4. RequestAhead(req[r])'
    BY <2>1 DEF RequestAhead, Unstored
  <2>5. Enrolled(req[r].user)
    BY <2>1 DEF WindowsAhead, RequestAhead, Unstored, Ahead
  <2>6. \A u \in Users : ~Enrolled(u)' => totp'[u].last = 0
    BY <1>12, <2>5, UpdateMoves DEF Enrolled, WindowsAhead
  <2> QED BY <2>3, <2>4, <2>6 DEF WindowsAhead
<1>13. ASSUME NEW r \in Requests, PersistCredential(r) PROVE WindowsAhead'
  <2>1. /\ req'[r].pc = "enrolled" /\ \A q \in Requests \ {r} : req'[q] = req[q]
        /\ UNCHANGED row
    BY <1>13, GotoMoves DEF PersistCredential
  <2>2. ASSUME NEW q \in Requests \ {r}, Unstored(req[q]) PROVE Ahead(req[q])'
    <3>1. Ahead(req[q]) /\ req[q].user \in Users
      BY <2>2 DEF WindowsAhead, RequestAhead, Unstored, Typed, RequestKnown
    <3>2. totp'[req[q].user] = totp[req[q].user]
      BY <1>13, <3>1, PersistMoves DEF Ahead
    <3> QED BY <2>1, <3>1, <3>2 DEF Ahead, Enrolled
  <2>3. \A q \in Requests \ {r} : RequestAhead(req[q])'
    BY <2>1, <2>2 DEF RequestAhead, Unstored, WindowsAhead
  <2>4. RequestAhead(req[r])'
    BY <2>1 DEF RequestAhead, Unstored
  <2>5. req[r].secret # NoSecret
    BY <1>13 DEF PersistCredential, WindowsAhead, RequestAhead
  <2>6. \A u \in Users : ~Enrolled(u)' => totp'[u].last = 0
    BY <1>13, <2>5, PersistMoves DEF Enrolled, WindowsAhead
  <2> QED BY <2>3, <2>4, <2>6 DEF WindowsAhead
<1>14. CASE UNCHANGED <<totp, req, row>>
  BY <1>14 DEF WindowsAhead, RequestAhead, Unstored, Ahead, Enrolled
<1>15. ASSUME NEW r \in Requests, Arrive(r) PROVE WindowsAhead'
  BY <1>4, <1>5, <1>15 DEF Arrive
<1>16. ASSUME NEW r \in Requests, Continue(r) PROVE WindowsAhead'
  BY <1>6, <1>7, <1>9, <1>10, <1>11, <1>12, <1>13, <1>16 DEF Continue
<1>17. CASE Environment \/ UNCHANGED vars
  BY <1>6, <1>14, <1>17 DEF Environment, Tick, PatchPolicy, Expire, vars
<1> QED BY <1>15, <1>16, <1>17 DEF Next

\* The last used window never moves back unless two codes of one user race:
\* for any number of requests, one about to store its window while another has
\* checked a code of that window or an earlier one is the only way.
THEOREM WindowGrows == Spec => LastWindowGrows \/ <>CodesRace
<1>1. Typed /\ WindowsAhead /\ [Next]_vars => [\A u \in Users : totp'[u].last >= totp[u].last]_totp
  <2> SUFFICES ASSUME Typed, WindowsAhead, [Next]_vars, NEW u \in Users
               PROVE  totp'[u].last >= totp[u].last
    OBVIOUS
  <2>1. totp[u].last \in Nat
    BY DEF Typed, TypeOK, Credential, Windows
  <2>2. ASSUME NEW r \in Requests, UpdateLastUsedWindow(r)
        PROVE  totp'[u].last >= totp[u].last
    <3>1. req[r].window > totp[req[r].user].last
      BY <2>2 DEF UpdateLastUsedWindow, WindowsAhead, RequestAhead, Unstored, Ahead
    <3>2. req[r].window \in Nat
      BY DEF Typed, TypeOK, Request, Windows
    <3> QED BY <2>1, <2>2, <3>1, <3>2, UpdateMoves
  <2>3. ASSUME NEW r \in Requests, PersistCredential(r)
        PROVE  totp'[u].last >= totp[u].last
    <3>1. req[r].window \in Nat
      BY DEF Typed, TypeOK, Request, Windows
    <3> QED BY <2>1, <2>3, <3>1, PersistMoves DEF WindowsAhead
  <2> QED BY <2>1, <2>2, <2>3, CredentialWriters
<1> QED BY <1>1, WindowsAheadInit, WindowsAheadNext, Invariants, PTL DEF Spec, LastWindowGrows
-----------------------------------------------------------------------------
(* One code, one sign-in.  An enrolment secret is drawn for one challenge  *)
(* and becomes the credential of one user at most; a session made with it  *)
(* has a window that its credential has left behind.                       *)

\* The secret waits in the row of c, or with a request that enrols on c.
DrawnFor(secret, c) ==
    /\ secret # NoSecret
    /\ \/ row[c].secret = secret
       \/ \E r \in Requests : /\ req[r].challenge = c /\ req[r].via = "enrollment"
                              /\ req[r].secret = secret

Recorded(secret, w) ==
    w > 0 /\ \E c \in Challenges : \E i \in DOMAIN sessions[c] :
                sessions[c][i].secret = secret /\ sessions[c][i].window = w
Taken(secret) == \A c \in Challenges : DrawnFor(secret, c) => row[c].consumed

SecretsApart ==
    /\ \A u \in Users : Enrolled(u) => totp[u].secret \in usedSecrets /\ Taken(totp[u].secret)
    /\ \A u, v \in Users : Enrolled(u) /\ totp[u].secret = totp[v].secret => u = v
    /\ \A secret : \A c, d \in Challenges :
         DrawnFor(secret, c) => secret \in usedSecrets /\ (DrawnFor(secret, d) => c = d)

SessionsBehind ==
    \A secret, w : Recorded(secret, w) =>
        /\ secret \in usedSecrets
        /\ \A u \in Users : totp[u].secret = secret => w <= totp[u].last
        /\ Taken(secret)

\* A secret that waits for its credential; a code that may become a session.
Waiting(secret) ==
    /\ \A u \in Users : totp[u].secret # secret
    /\ \A w : ~Recorded(secret, w)
    /\ Taken(secret)
Spent(secret, w) ==
    /\ ~Recorded(secret, w)
    /\ \A u \in Users : totp[u].secret = secret => w <= totp[u].last
    /\ Taken(secret)

\* A request that has stored its code and has no session yet.
Stored(q) == q.pc \in {"satisfy", "enrolled", "session"} /\ q.window > 0

CodeIsNew(q) ==
    /\ q.pc \notin {"consume"} \cup Owning => q.window = 0
    /\ q.window > 0 => q.secret \in usedSecrets /\ q.via \in {"totp", "enrollment"}
    /\ q.pc = "consume" /\ q.via = "enrollment" => q.window > 0
    /\ q.pc = "persist" => q.window > 0 /\ Waiting(q.secret)
    /\ q.pc \in {"secret", "persist", "enrolled"} => q.via = "enrollment"
    /\ Stored(q) => Spent(q.secret, q.window)
    /\ Stored(q) /\ q.via = "totp" => Enrolled(q.user) /\ q.secret = totp[q.user].secret

SameCode(q, p) == q.secret = p.secret /\ q.window = p.window

CodesApart ==
    /\ SecretsApart
    /\ SessionsBehind
    /\ \A r \in Requests : CodeIsNew(req[r])
    /\ \A q, r \in Requests : Stored(req[q]) /\ Stored(req[r]) /\ SameCode(req[q], req[r]) => q = r
    /\ TotpCodeUsedOnce

LEMMA NoSecretIsUnused == Typed => NoSecret \notin usedSecrets
BY LoginAssumption DEF Typed, TypeOK

LEMMA CodesApartInit == Init => CodesApart
<1> SUFFICES ASSUME Init PROVE CodesApart
  OBVIOUS
<1>1. \A secret, w : ~Recorded(secret, w)
  BY DEF Init, Recorded
<1>2. \A secret : \A c \in Challenges : ~DrawnFor(secret, c)
  BY DEF Init, FreshRow, Idle, DrawnFor
<1>3. \A u \in Users : Enrolled(u) => totp[u].secret = InitialTotp[u] /\ totp[u].secret # NoSecret
  BY DEF Init, Enrolled
<1>4. SecretsApart
  BY <1>2, <1>3, LoginAssumption DEF Init, SecretsApart, Enrolled, Taken
<1>5. \A r \in Requests : CodeIsNew(req[r]) /\ ~Stored(req[r])
  BY DEF Init, Idle, CodeIsNew, Stored
<1>6. TotpCodeUsedOnce
  BY DEF Init, TotpCodeUsedOnce
<1> QED BY <1>1, <1>4, <1>5, <1>6 DEF CodesApart, SessionsBehind

\* The owner of a challenge is the only request to hold what was drawn for it.
LEMMA OwnersApart ==
    ASSUME Typed, Ownership, CodesApart, NEW q \in Requests, NEW r \in Requests, q # r,
           req[q].pc \in Owning, req[r].pc \in Owning,
           req[q].via = "enrollment", req[r].via = "enrollment", req[r].secret # NoSecret
    PROVE  req[q].secret # req[r].secret
<1>1. /\ req[q].challenge \in Challenges /\ req[r].challenge \in Challenges
      /\ Owns(q, req[q].challenge) /\ Owns(r, req[r].challenge)
  BY DEF Typed, RequestKnown, Owns, Owning, BeforeSession
<1>2. req[q].challenge # req[r].challenge
  BY <1>1 DEF Ownership
<1> QED BY <1>1, <1>2 DEF CodesApart, SecretsApart, DrawnFor

\* What most steps do: no credential, session or secret is made.
Quiet(r) ==
    /\ UNCHANGED <<totp, sessions, usedSecrets>>
    /\ \A c \in Challenges : row[c].consumed => row'[c].consumed
    /\ \A secret : \A c \in Challenges : DrawnFor(secret, c)' => DrawnFor(secret, c)
    /\ \A q \in Requests \ {r} : req'[q] = req[q]

\* A request takes its secret from the row, or has it from before, or has none.
LEMMA NothingDrawn ==
    ASSUME NEW r \in Requests, \A q \in Requests \ {r} : req'[q] = req[q],
           \A c \in Challenges : row'[c].secret = NoSecret \/ DrawnFor(row'[c].secret, c),
           \/ req'[r].via # "enrollment" \/ req'[r].secret = NoSecret
           \/ /\ req'[r].via = req[r].via /\ req'[r].secret = req[r].secret
              /\ req'[r].challenge = req[r].challenge
           \/ DrawnFor(req'[r].secret, req'[r].challenge)
    PROVE  \A secret : \A c \in Challenges : DrawnFor(secret, c)' => DrawnFor(secret, c)
<1> SUFFICES ASSUME NEW secret, NEW c \in Challenges, DrawnFor(secret, c)'
             PROVE  DrawnFor(secret, c)
  OBVIOUS
<1>1. CASE row'[c].secret = secret
  BY <1>1 DEF DrawnFor
<1>2. ASSUME NEW q \in Requests, req'[q].challenge = c, req'[q].via = "enrollment",
             req'[q].secret = secret
      PROVE  DrawnFor(secret, c)
  BY <1>2 DEF DrawnFor
<1> QED BY <1>1, <1>2 DEF DrawnFor

LEMMA RowsAreDrawn ==
    ASSUME NEW c \in Challenges
    PROVE  row[c].secret = NoSecret \/ DrawnFor(row[c].secret, c)
BY DEF DrawnFor

LEMMA QuietKeeps ==
    ASSUME NEW r \in Requests, Quiet(r)
    PROVE  /\ \A secret, w : Recorded(secret, w)' <=> Recorded(secret, w)
           /\ \A secret : Taken(secret) => Taken(secret)'
           /\ \A secret : Waiting(secret) => Waiting(secret)'
           /\ \A secret, w : Spent(secret, w) => Spent(secret, w)'
<1>1. \A secret, w : Recorded(secret, w)' <=> Recorded(secret, w)
  BY DEF Quiet, Recorded
<1>2. \A secret : Taken(secret) => Taken(secret)'
  BY DEF Quiet, Taken
<1>3. \A secret : Waiting(secret) => Waiting(secret)'
  BY <1>1, <1>2 DEF Quiet, Waiting
<1>4. \A secret, w : Spent(secret, w) => Spent(secret, w)'
  BY <1>1, <1>2 DEF Quiet, Spent
<1> QED BY <1>1, <1>2, <1>3, <1>4

LEMMA QuietFrame ==
    ASSUME CodesApart, NEW r \in Requests, Quiet(r), CodeIsNew(req[r])',
           Stored(req[r])' => Stored(req[r]) /\ SameCode(req'[r], req[r])
    PROVE  CodesApart'
<1>1. SecretsApart'
  BY QuietKeeps DEF CodesApart, SecretsApart, Quiet, Enrolled
<1>2. SessionsBehind'
  BY QuietKeeps DEF CodesApart, SessionsBehind, Quiet
<1>3. TotpCodeUsedOnce'
  BY DEF CodesApart, TotpCodeUsedOnce, Quiet
<1>4. ASSUME NEW q \in Requests \ {r} PROVE CodeIsNew(req[q])'
  <2>1. req'[q] = req[q] /\ CodeIsNew(req[q])
    BY DEF CodesApart, Quiet
  <2> QED BY <2>1, QuietKeeps DEF CodeIsNew, Stored, Quiet, Enrolled
<1>5. \A q \in Requests : Stored(req[q])' => Stored(req[q]) /\ SameCode(req'[q], req[q])
  BY DEF Quiet, Stored, SameCode
<1>6. \A q, p \in Requests :
        Stored(req[q])' /\ Stored(req[p])' /\ SameCode(req[q], req[p])' => q = p
  BY <1>5 DEF CodesApart, SameCode
<1> QED BY <1>1, <1>2, <1>3, <1>4, <1>6 DEF CodesApart

\* A step of a request that stays short of the consume, or is over.
LEMMA PlainKeeps ==
    ASSUME CodesApart, NEW r \in Requests, Quiet(r), req'[r].window = 0,
           req'[r].pc \notin {"secret", "persist", "enrolled"},
           req'[r].pc = "consume" => req'[r].via # "enrollment"
    PROVE  CodesApart'
BY QuietFrame DEF CodeIsNew, Stored

LEMMA EndKeeps ==
    ASSUME Typed, CodesApart, NEW r \in Requests, Quiet(r), Finish(r)
    PROVE  CodesApart'
<1>1. req'[r].window = 0 /\ req'[r].pc = "idle"
  BY FinishMoves DEF Idle
<1> QED BY <1>1, PlainKeeps

\* A request that goes on or ends, and leaves the rows alone, is quiet.
LEMMA MovesAreQuiet ==
    ASSUME Typed, NEW r \in Requests, UNCHANGED <<row, totp, sessions, usedSecrets>>,
           Finish(r) \/ \E pc : Goto(r, pc)
    PROVE  Quiet(r)
<1>1. /\ \A q \in Requests \ {r} : req'[q] = req[q]
      /\ \/ req'[r].secret = NoSecret
         \/ /\ req'[r].via = req[r].via /\ req'[r].secret = req[r].secret
            /\ req'[r].challenge = req[r].challenge
  BY FinishMoves, GotoMoves DEF Idle
<1> QED BY <1>1, NothingDrawn, RowsAreDrawn DEF Quiet

LEMMA RowWritesAreQuiet ==
    ASSUME Typed, CodesApart, NEW r \in Requests,
           \/ SetMfaState(r) \/ SwitchSet(r) \/ SatisfyMfa(r) \/ IncrementAttempts(r)
           \/ Lockout(r) \/ ConsumeChallenge(r)
           \/ SetEnrollmentSecret(r) \/ CompleteEnrollment(r)
    PROVE  Quiet(r)
<1>1. Finish(r) \/ \E pc : Goto(r, pc)
  BY DEF SetMfaState, SwitchSet, SatisfyMfa, IncrementAttempts, Lockout, ConsumeChallenge,
         SetEnrollmentSecret, CompleteEnrollment
<1>2. /\ \A q \in Requests \ {r} : req'[q] = req[q]
      /\ \/ req'[r].secret = NoSecret
         \/ /\ req'[r].via = req[r].via /\ req'[r].secret = req[r].secret
            /\ req'[r].challenge = req[r].challenge
  BY <1>1, FinishMoves, GotoMoves DEF Idle
<1>3. \A c \in Challenges : row'[c].secret = NoSecret \/ DrawnFor(row'[c].secret, c)
  <2>1. SetEnrollmentSecret(r) => req[r].via = "enrollment"
    BY DEF SetEnrollmentSecret, CodesApart, CodeIsNew
  <2> QED BY <2>1, RowWritesMove, RowsAreDrawn DEF DrawnFor
<1>4. \A secret : \A c \in Challenges : DrawnFor(secret, c)' => DrawnFor(secret, c)
  BY <1>2, <1>3, NothingDrawn
<1> QED BY <1>2, <1>4, RowWritesMove DEF Quiet

LEMMA ArrivalKeeps ==
    ASSUME Typed, CodesApart, NEW r \in Requests, Arrive(r)
    PROVE  CodesApart'
<1> PICK c \in Challenges :
        \/ \E u \in Users, m \in Methods : FirstFactor(r, c, u, m)
        \/ TotpVerify(r, c) \/ SwitchToTotp(r, c)
        \/ \E n \in Nonces : PasskeyStart(r, c, n) \/ PasskeyFinish(r, c, n)
        \/ EnrollStart(r, c) \/ EnrollFinish(r, c)
  BY DEF Arrive
\* A new secret is in nobody's hands.
<1>1. CASE EnrollStart(r, c)
  <2> PICK s \in Secrets : s = req'[r].secret
    BY <1>1, EnrollStartMoves
  <2>1. /\ s \notin usedSecrets /\ usedSecrets' = usedSecrets \cup {s} /\ s # NoSecret
        /\ req'[r].pc = "secret" /\ req'[r].window = 0 /\ req'[r].via = "enrollment"
        /\ req'[r].challenge = c
        /\ \A q \in Requests \ {r} : req'[q] = req[q]
        /\ UNCHANGED <<row, totp, sessions>>
    BY <1>1, EnrollStartMoves, LoginAssumption
  <2>2. \A secret, w : Recorded(secret, w)' <=> Recorded(secret, w)
    BY <2>1 DEF Recorded
  <2>3. \A secret : \A d \in Challenges :
          DrawnFor(secret, d)' => DrawnFor(secret, d) \/ (secret = s /\ d = c)
    BY <2>1 DEF DrawnFor
  <2>4. \A d \in Challenges : ~DrawnFor(s, d)
    BY <2>1 DEF CodesApart, SecretsApart
  <2>5. \A secret \in usedSecrets : Taken(secret) => Taken(secret)'
    BY <2>1, <2>3 DEF Taken
  <2>6. SecretsApart'
    <3>1. \A u \in Users : Enrolled(u)' => totp'[u].secret \in usedSecrets' /\ Taken(totp[u].secret)'
      BY <2>1, <2>5 DEF CodesApart, SecretsApart, Enrolled
    <3>2. \A secret : \A d, e \in Challenges :
            DrawnFor(secret, d)' => secret \in usedSecrets' /\ (DrawnFor(secret, e)' => d = e)
      BY <2>1, <2>3, <2>4 DEF CodesApart, SecretsApart
    <3> QED BY <2>1, <3>1, <3>2 DEF CodesApart, SecretsApart, Enrolled
  <2>7. SessionsBehind'
    BY <2>1, <2>2, <2>5 DEF CodesApart, SessionsBehind
  <2>8. ASSUME NEW q \in Requests \ {r} PROVE CodeIsNew(req[q])'
    <3>1. req'[q] = req[q] /\ CodeIsNew(req[q])
      BY <2>1 DEF CodesApart
    <3>2. \A secret \in usedSecrets : Waiting(secret) => Waiting(secret)'
      BY <2>1, <2>2, <2>5 DEF Waiting
    <3>3. \A secret \in usedSecrets : \A w : Spent(secret, w) => Spent(secret, w)'
      BY <2>1, <2>2, <2>5 DEF Spent
    <3>4. Stored(req[q])' <=> Stored(req[q])
      BY <3>1 DEF Stored
    <3>5. req[q].pc = "persist" \/ Stored(req[q]) => req[q].secret \in usedSecrets
      BY <3>1 DEF CodeIsNew, Stored
    <3> QED BY <2>1, <3>1, <3>2, <3>3, <3>4, <3>5 DEF CodeIsNew, Enrolled
  <2>9. CodeIsNew(req[r])' /\ ~Stored(req[r])'
    BY <2>1 DEF CodeIsNew, Stored
  <2>10. \A q, p \in Requests :
           Stored(req[q])' /\ Stored(req[p])' /\ SameCode(req[q], req[p])' => q = p
    BY <2>1, <2>9 DEF CodesApart, Stored, SameCode
  <2>11. TotpCodeUsedOnce'
    BY <2>1 DEF CodesApart, TotpCodeUsedOnce
  <2> QED BY <2>6, <2>7, <2>8, <2>9, <2>10, <2>11 DEF CodesApart
<1>2. CASE EnrollFinish(r, c)
  <2>1. /\ req'[r].challenge = c /\ req'[r].via = "enrollment" /\ row[c].secret # NoSecret
        /\ req'[r].secret = row[c].secret
        /\ \/ req'[r].pc = "increment" /\ req'[r].window = 0
           \/ req'[r].pc = "consume" /\ req'[r].window > 0
        /\ \A q \in Requests \ {r} : req'[q] = req[q]
        /\ UNCHANGED <<row, totp, sessions, usedSecrets>>
    BY <1>2, EnrollFinishMoves DEF AcceptedWindows
  <2>2. DrawnFor(row[c].secret, c)
    BY <2>1 DEF DrawnFor
  <2>3. row[c].secret \in usedSecrets
    BY <2>2 DEF CodesApart, SecretsApart
  <2>4. CodeIsNew(req[r])' /\ ~Stored(req[r])'
    BY <2>1, <2>3 DEF CodeIsNew, Stored, Owning, BeforeSession
  <2>5. Quiet(r)
    BY <2>1, <2>2, NothingDrawn, RowsAreDrawn DEF Quiet
  <2> QED BY <2>4, <2>5, QuietFrame
<1>3. CASE ~EnrollStart(r, c) /\ ~EnrollFinish(r, c)
  <2>1. /\ req'[r].window = 0 /\ req'[r].pc \in {"policy", "verify", "switch", "mint", "nonce"}
        /\ req'[r].via # "enrollment"
        /\ \A q \in Requests \ {r} : req'[q] = req[q]
        /\ UNCHANGED <<row, totp, sessions, usedSecrets>>
    BY <1>3, ArrivalMoves
  <2>2. Quiet(r)
    BY <2>1, NothingDrawn, RowsAreDrawn DEF Quiet
  <2> QED BY <2>1, <2>2, PlainKeeps
<1> QED BY <1>1, <1>2, <1>3

\* The steps before the consume carry no window, but for the accepted code.
LEMMA EarlyStepKeeps ==
    ASSUME Typed, Evidence, CodesApart, NEW r \in Requests,
           \/ ReadPolicy(r) \/ ReadCredentials(r) \/ SetMfaState(r) \/ CheckTotpCode(r)
           \/ SwitchSet(r) \/ IncrementAttempts(r) \/ ReadAttempts(r) \/ Lockout(r)
           \/ CreateNonce(r) \/ ConsumeNonce(r) \/ VerifyAssertion(r)
           \/ SetEnrollmentSecret(r)
    PROVE  CodesApart'
<1> USE DEF outcome
<1>1. req[r].window = 0
  <2>1. req[r].pc \notin {"consume"} \cup Owning
    BY DEF ReadPolicy, ReadCredentials, SetMfaState, CheckTotpCode, SwitchSet,
           IncrementAttempts, ReadAttempts, Lockout, CreateNonce, ConsumeNonce,
           VerifyAssertion, SetEnrollmentSecret, Owning, BeforeSession
  <2> QED BY <2>1 DEF CodesApart, CodeIsNew
<1>2. ASSUME Quiet(r), NEW pc, Goto(r, pc), pc \notin {"secret", "persist", "enrolled"},
             pc = "consume" => req[r].via # "enrollment"
      PROVE  CodesApart'
  BY <1>1, <1>2, GotoMoves, PlainKeeps
<1>3. CASE \/ SetMfaState(r) \/ SwitchSet(r) \/ IncrementAttempts(r) \/ Lockout(r)
           \/ SetEnrollmentSecret(r)
  <2>1. Quiet(r)
    BY <1>3, RowWritesAreQuiet
  <2>2. Finish(r) \/ Goto(r, "recount")
    BY <1>3 DEF SetMfaState, SwitchSet, IncrementAttempts, Lockout, SetEnrollmentSecret
  <2> QED BY <1>2, <2>1, <2>2, EndKeeps
<1>4. CASE ReadPolicy(r) \/ VerifyAssertion(r)
  <2>1. req[r].via # "enrollment" /\ UNCHANGED <<row, totp, sessions, usedSecrets>>
    BY <1>4 DEF ReadPolicy, VerifyAssertion, Evidence, RequestProved
  <2>2. \E pc \in {"credentials", "consume", "increment"} : Goto(r, pc)
    BY <1>4 DEF ReadPolicy, VerifyAssertion
  <2>3. Quiet(r)
    BY <2>1, <2>2, MovesAreQuiet
  <2> QED BY <1>2, <2>1, <2>2, <2>3
<1>5. CASE ReadCredentials(r)
  <2>1. UNCHANGED <<row, totp, sessions, usedSecrets>>
    BY <1>5 DEF ReadCredentials
  <2>2. Quiet(r)
    BY <1>5, <2>1, ReadCredentialsMoves, NothingDrawn, RowsAreDrawn DEF Quiet
  <2> QED BY <1>1, <1>5, <2>2, ReadCredentialsMoves, PlainKeeps
<1>6. CASE CheckTotpCode(r) /\ ~Finish(r) /\ ~Goto(r, "increment")
  <2>1. /\ req'[r].pc = "consume" /\ req'[r].via = "totp"
        /\ Enrolled(req[r].user) /\ req'[r].secret = totp[req[r].user].secret
        /\ req[r].user \in Users
        /\ \A q \in Requests \ {r} : req'[q] = req[q]
        /\ UNCHANGED <<row, totp, sessions, usedSecrets>>
    BY <1>6, CheckTotpMoves DEF CheckTotpCode, Evidence, RequestProved, Typed, RequestKnown
  <2>2. req'[r].secret \in usedSecrets'
    BY <2>1 DEF CodesApart, SecretsApart
  <2>3. CodeIsNew(req[r])' /\ ~Stored(req[r])'
    BY <2>1, <2>2 DEF CodeIsNew, Stored, Owning, BeforeSession
  <2>4. Quiet(r)
    BY <2>1, NothingDrawn, RowsAreDrawn DEF Quiet
  <2> QED BY <2>3, <2>4, QuietFrame
<1>7. CASE /\ \/ CheckTotpCode(r) \/ ReadAttempts(r) \/ CreateNonce(r) \/ ConsumeNonce(r)
           /\ Finish(r) \/ \E pc \in {"increment", "lockout", "assert"} : Goto(r, pc)
  <2>1. UNCHANGED <<row, totp, sessions, usedSecrets>>
    BY <1>7 DEF CheckTotpCode, ReadAttempts, CreateNonce, ConsumeNonce
  <2>2. Quiet(r)
    BY <1>7, <2>1, MovesAreQuiet
  <2> QED BY <1>2, <1>7, <2>2, EndKeeps
<1> QED BY <1>3, <1>4, <1>5, <1>6, <1>7 DEF ReadAttempts, CreateNonce, ConsumeNonce

\* The consume finds the row open, so its secret has no credential and no session.
LEMMA ConsumeKeeps ==
    ASSUME Typed, CodesApart, NEW r \in Requests, ConsumeChallenge(r)
    PROVE  CodesApart'
<1> PICK k \in Challenges : k = req[r].challenge
  BY DEF ConsumeChallenge, Typed, RequestKnown
<1>1. Quiet(r)
  BY RowWritesAreQuiet
<1>2. CASE ~Active(k)
  BY <1>1, <1>2, EndKeeps DEF ConsumeChallenge
<1>3. CASE Active(k)
  <2>1. /\ req'[r].pc = NextAfterConsume(req[r].via) /\ req'[r].via = req[r].via
        /\ req'[r].window = req[r].window /\ req'[r].secret = req[r].secret
        /\ req[r].pc = "consume" /\ ~row[k].consumed
    BY <1>3, GotoMoves DEF ConsumeChallenge, Active
  <2>2. row'[k].consumed
    BY <1>3 DEF ConsumeChallenge, Typed, TypeOK, Row
  <2>3. CodeIsNew(req[r])
    BY DEF CodesApart
  <2>4. CASE req[r].via = "enrollment"
    <3> PICK s : s = req[r].secret
      OBVIOUS
    <3>1. s \in usedSecrets /\ s # NoSecret /\ req[r].window > 0
      BY <2>1, <2>3, <2>4, NoSecretIsUnused DEF CodeIsNew
    <3>2. DrawnFor(s, k)
      BY <2>4, <3>1 DEF DrawnFor
    <3>3. ~Taken(s)
      BY <2>1, <3>2 DEF Taken
    <3>4. \A u \in Users : totp[u].secret # s
      BY <3>1, <3>3 DEF CodesApart, SecretsApart, Enrolled
    <3>5. \A w : ~Recorded(s, w)
      BY <3>3 DEF CodesApart, SessionsBehind
    <3>6. Taken(s)'
      BY <1>1, <2>2, <3>2 DEF Taken, Quiet, CodesApart, SecretsApart
    <3>7. Waiting(s)'
      BY <1>1, <3>4, <3>5, <3>6, QuietKeeps DEF Waiting, Quiet
    <3>8. CodeIsNew(req[r])' /\ ~Stored(req[r])'
      BY <1>1, <2>1, <2>3, <2>4, <3>1, <3>7
      DEF CodeIsNew, Stored, NextAfterConsume, Owning, BeforeSession, Quiet
    <3> QED BY <1>1, <3>8, QuietFrame
  <2>5. CASE req[r].via # "enrollment"
    <3>1. req[r].via = "totp" \/ ~(req[r].window > 0)
      BY <2>3, <2>5 DEF CodeIsNew
    <3>2. CodeIsNew(req[r])' /\ ~Stored(req[r])'
      BY <1>1, <2>1, <2>3, <2>5, <3>1
      DEF CodeIsNew, Stored, NextAfterConsume, Owning, BeforeSession, Quiet
    <3> QED BY <1>1, <3>2, QuietFrame
  <2> QED BY <2>4, <2>5
<1> QED BY <1>2, <1>3

LEMMA RecordedTyped ==
    ASSUME Typed, NEW secret, NEW w, Recorded(secret, w)
    PROVE  w \in Nat
<1> PICK c \in Challenges : \E i \in DOMAIN sessions[c] : sessions[c][i].window = w
  BY DEF Recorded
<1> PICK i \in DOMAIN sessions[c] : sessions[c][i].window = w
  OBVIOUS
<1>1. sessions[c] \in Seq(Session)
  BY DEF Typed, TypeOK
<1>2. sessions[c][i] \in Session
  BY <1>1
<1> QED BY <1>2 DEF Session, Windows

\* The window moves past every session of the secret, and past every code of it
\* that was stored before.
LEMMA UpdateKeeps ==
    ASSUME Typed, WindowsAhead, CodesApart, NEW r \in Requests, UpdateLastUsedWindow(r)
    PROVE  CodesApart'
<1> PICK u0 \in Users : u0 = req[r].user
  BY UpdateMoves
<1> PICK s, w0 : s = req[r].secret /\ w0 = req[r].window
  OBVIOUS
<1>1. /\ Enrolled(u0) /\ s = totp[u0].secret /\ w0 > totp[u0].last
      /\ totp[u0].last \in Nat /\ w0 \in Nat /\ req[r].via = "totp"
  BY DEF UpdateLastUsedWindow, WindowsAhead, RequestAhead, Unstored, Ahead, Typed, TypeOK,
         Credential, Request, Windows
<1>2. /\ totp'[u0].secret = s /\ totp'[u0].last = w0
      /\ \A u \in Users \ {u0} : totp'[u] = totp[u]
      /\ UNCHANGED <<row, sessions, usedSecrets>>
  BY <1>1, UpdateMoves DEF UpdateLastUsedWindow, outcome
<1>3. /\ req'[r].pc = "satisfy" /\ req'[r].secret = s /\ req'[r].window = w0
      /\ req'[r].via = "totp" /\ req'[r].user = u0 /\ req'[r].challenge = req[r].challenge
      /\ \A q \in Requests \ {r} : req'[q] = req[q]
  BY <1>1, GotoMoves DEF UpdateLastUsedWindow
<1>4. \A secret, w : Recorded(secret, w)' <=> Recorded(secret, w)
  BY <1>2 DEF Recorded
<1>5. \A secret : \A c \in Challenges : DrawnFor(secret, c)' => DrawnFor(secret, c)
  BY <1>2, <1>3, NothingDrawn, RowsAreDrawn
<1>6. \A secret : Taken(secret) => Taken(secret)'
  BY <1>2, <1>5 DEF Taken
<1>7. SecretsApart'
  BY <1>1, <1>2, <1>5, <1>6 DEF CodesApart, SecretsApart, Enrolled
<1>8. SessionsBehind'
  <2> SUFFICES ASSUME NEW secret, NEW w, Recorded(secret, w)
               PROVE  /\ secret \in usedSecrets
                      /\ \A u \in Users : totp'[u].secret = secret => w <= totp'[u].last
                      /\ Taken(secret)
    BY <1>2, <1>4, <1>6 DEF SessionsBehind
  <2>1. w \in Nat
    BY RecordedTyped
  <2> QED BY <1>1, <1>2, <2>1 DEF CodesApart, SessionsBehind
<1>9. Spent(s, w0)'
  <2>1. ~Recorded(s, w0)
    BY <1>1 DEF CodesApart, SessionsBehind
  <2>2. \A u \in Users : totp'[u].secret = s => w0 <= totp'[u].last
    BY <1>1, <1>2 DEF CodesApart, SecretsApart, Enrolled
  <2>3. Taken(s)
    BY <1>1 DEF CodesApart, SecretsApart
  <2> QED BY <1>4, <1>6, <2>1, <2>2, <2>3 DEF Spent
<1>10. CodeIsNew(req[r])'
  <2>1. s \in usedSecrets' /\ Enrolled(u0)'
    BY <1>1, <1>2 DEF CodesApart, SecretsApart, Enrolled
  <2> QED BY <1>2, <1>3, <1>9, <2>1 DEF CodeIsNew, Stored, Owning, BeforeSession
<1>11. ASSUME NEW q \in Requests \ {r} PROVE CodeIsNew(req[q])'
  <2>1. req'[q] = req[q] /\ CodeIsNew(req[q]) /\ req[q].window \in Nat
    BY <1>3 DEF CodesApart, Typed, TypeOK, Request, Windows
  <2>2. \A u \in Users : totp'[u].secret = totp[u].secret
    BY <1>1, <1>2
  <2>3. \A secret : Waiting(secret) => Waiting(secret)'
    BY <1>4, <1>6, <2>2 DEF Waiting
  <2>4. \A secret : \A w \in Nat : Spent(secret, w) => Spent(secret, w)'
    BY <1>1, <1>2, <1>4, <1>6 DEF Spent
  <2>5. Stored(req[q]) => req[q].user \in Users
    BY DEF Stored, Typed, RequestKnown
  <2> QED BY <1>2, <2>1, <2>2, <2>3, <2>4, <2>5 DEF CodeIsNew, Stored, Enrolled
<1>12. ASSUME NEW q \in Requests \ {r}, Stored(req[q]), SameCode(req[q], req'[r]) PROVE FALSE
  <2>1. Spent(s, w0)
    BY <1>3, <1>12 DEF CodesApart, CodeIsNew, SameCode
  <2> QED BY <1>1, <2>1 DEF Spent
<1>13. \A q, p \in Requests :
         Stored(req[q])' /\ Stored(req[p])' /\ SameCode(req[q], req[p])' => q = p
  BY <1>3, <1>12 DEF CodesApart, Stored, SameCode
<1>14. TotpCodeUsedOnce'
  BY <1>2 DEF CodesApart, TotpCodeUsedOnce
<1> QED BY <1>7, <1>8, <1>10, <1>11, <1>13, <1>14 DEF CodesApart

\* Nobody past the consume holds the secret of another request that enrols.
LEMMA OthersHoldAnother ==
    ASSUME Typed, Ownership, CodesApart, NEW r \in Requests, NEW q \in Requests \ {r},
           req[r].pc \in Owning, req[r].via = "enrollment", req[r].secret # NoSecret,
           \A u \in Users : totp[u].secret # req[r].secret,
           req[q].pc = "persist" \/ Stored(req[q])
    PROVE  req[q].secret # req[r].secret
<1>1. CodeIsNew(req[q]) /\ req[q].pc \in Owning /\ req[q].user \in Users
  BY DEF CodesApart, Stored, Owning, BeforeSession, Typed, RequestKnown
<1>2. CASE req[q].via = "enrollment"
  BY <1>1, <1>2, OwnersApart
<1>3. CASE req[q].via # "enrollment"
  <2>1. Stored(req[q]) /\ req[q].via = "totp"
    BY <1>1, <1>3 DEF CodeIsNew, Stored
  <2> QED BY <1>1, <2>1 DEF CodeIsNew
<1> QED BY <1>2, <1>3

\* The insert gives the secret to one user at most.
LEMMA PersistKeeps ==
    ASSUME Typed, Ownership, CodesApart, NEW r \in Requests, PersistCredential(r)
    PROVE  CodesApart'
<1> PICK u0 \in Users : u0 = req[r].user
  BY PersistMoves
<1> PICK s, w0 : s = req[r].secret /\ w0 = req[r].window
  OBVIOUS
<1>1. /\ req'[r].pc = "enrolled" /\ req'[r].secret = s /\ req'[r].window = w0
      /\ req'[r].via = req[r].via /\ req'[r].challenge = req[r].challenge
      /\ \A q \in Requests \ {r} : req'[q] = req[q]
      /\ UNCHANGED <<row, sessions, usedSecrets>> /\ w0 \in Nat
  BY GotoMoves DEF PersistCredential, outcome, Typed, TypeOK, Request, Windows
<1>2. /\ w0 > 0 /\ s \in usedSecrets /\ Waiting(s) /\ s # NoSecret
      /\ req[r].via = "enrollment" /\ req[r].pc \in Owning
  BY NoSecretIsUnused
     DEF PersistCredential, CodesApart, CodeIsNew, Owning, BeforeSession
<1>3. \A secret, w : Recorded(secret, w)' <=> Recorded(secret, w)
  BY <1>1 DEF Recorded
<1>4. \A secret : \A c \in Challenges : DrawnFor(secret, c)' => DrawnFor(secret, c)
  BY <1>1, NothingDrawn, RowsAreDrawn
<1>5. \A secret : Taken(secret) => Taken(secret)'
  BY <1>1, <1>4 DEF Taken
<1>6. \A u \in Users : \/ totp'[u] = totp[u]
                       \/ /\ u = u0 /\ ~Enrolled(u)
                          /\ totp'[u].secret = s /\ totp'[u].last = w0
  BY PersistMoves
<1>7. SecretsApart'
  BY <1>1, <1>2, <1>4, <1>5, <1>6 DEF CodesApart, SecretsApart, Enrolled, Waiting
<1>8. SessionsBehind'
  BY <1>1, <1>2, <1>3, <1>5, <1>6 DEF CodesApart, SessionsBehind, Waiting
<1>9. Spent(s, w0)'
  <2>1. \A u \in Users : totp'[u].secret = s => w0 <= totp'[u].last
    BY <1>1, <1>2, <1>6 DEF Waiting
  <2> QED BY <1>2, <1>3, <1>5, <2>1 DEF Spent, Waiting
<1>10. CodeIsNew(req[r])'
  BY <1>1, <1>2, <1>9 DEF CodeIsNew, Stored, Owning, BeforeSession
<1>11. ASSUME NEW q \in Requests \ {r}, req[q].pc = "persist" \/ Stored(req[q])
       PROVE  req[q].secret # s
  BY <1>2, <1>11, OthersHoldAnother DEF Waiting
<1>12. ASSUME NEW q \in Requests \ {r} PROVE CodeIsNew(req[q])'
  <2>1. req'[q] = req[q] /\ CodeIsNew(req[q])
    BY <1>1 DEF CodesApart
  <2>2. \A secret : secret # s =>
          /\ Waiting(secret) => Waiting(secret)'
          /\ \A w : Spent(secret, w) => Spent(secret, w)'
    BY <1>3, <1>5, <1>6 DEF Waiting, Spent
  <2>3. \A u \in Users : Enrolled(u) => totp'[u] = totp[u]
    BY <1>6
  <2>4. Stored(req[q]) => req[q].user \in Users
    BY DEF Stored, Typed, RequestKnown
  <2> QED BY <1>1, <1>11, <2>1, <2>2, <2>3, <2>4 DEF CodeIsNew, Stored, Enrolled
<1>13. \A q, p \in Requests :
         Stored(req[q])' /\ Stored(req[p])' /\ SameCode(req[q], req[p])' => q = p
  BY <1>1, <1>11 DEF CodesApart, Stored, SameCode
<1>14. TotpCodeUsedOnce'
  BY <1>1 DEF CodesApart, TotpCodeUsedOnce
<1> QED BY <1>7, <1>8, <1>10, <1>12, <1>13, <1>14 DEF CodesApart

LEMMA SatisfiedKeeps ==
    ASSUME Typed, CodesApart, NEW r \in Requests, SatisfyMfa(r) \/ CompleteEnrollment(r)
    PROVE  CodesApart'
<1>1. Quiet(r)
  BY RowWritesAreQuiet
<1>2. /\ req'[r].pc = "session" /\ req'[r].secret = req[r].secret
      /\ req'[r].window = req[r].window /\ req'[r].user = req[r].user
      /\ req'[r].via = req[r].via /\ req[r].pc \in {"satisfy", "enrolled"}
  BY GotoMoves DEF SatisfyMfa, CompleteEnrollment
<1>3. Stored(req[r])' => Stored(req[r]) /\ SameCode(req'[r], req[r])
  BY <1>2 DEF Stored, SameCode
<1>4. Stored(req[r])' => Spent(req[r].secret, req[r].window)'
  <2>1. \A secret, w : Spent(secret, w) => Spent(secret, w)'
    BY <1>1, QuietKeeps
  <2> QED BY <1>3, <2>1 DEF CodesApart, CodeIsNew, SameCode
<1>5. CodeIsNew(req[r])'
  <2>1. CodeIsNew(req[r])
    BY DEF CodesApart
  <2> QED BY <1>1, <1>2, <1>3, <1>4, <2>1
          DEF CodeIsNew, Quiet, Enrolled, Owning, BeforeSession
<1> QED BY <1>1, <1>3, <1>5, QuietFrame

\* The session is the first of its challenge and the first with its code.
LEMMA SessionKeeps ==
    ASSUME Typed, Ownership, CodesApart, NEW r \in Requests, CreateSession(r)
    PROVE  CodesApart'
<1> DEFINE s == [user |-> req[r].user, via |-> req[r].via,
                 secret |-> req[r].secret, window |-> req[r].window]
<1> PICK k \in Challenges : k = req[r].challenge /\ Owns(r, k)
  BY DEF CreateSession, Typed, RequestKnown, Owns, Owning, BeforeSession
<1> PICK t, w0 : t = req[r].secret /\ w0 = req[r].window
  OBVIOUS
<1>1. s.secret = t /\ s.window = w0
  OBVIOUS
<1>2. sessions[k] = <<>>
  BY DEF CreateSession, Ownership, BeforeSession
<1>3. sessions' = [sessions EXCEPT ![k] = Append(@, s)] /\ UNCHANGED <<row, totp, usedSecrets>>
  BY DEF CreateSession
<1> HIDE DEF s
<1>4. /\ sessions'[k] = <<s>> /\ DOMAIN <<s>> = {1} /\ <<s>>[1] = s
      /\ \A c \in Challenges \ {k} : sessions'[c] = sessions[c]
  BY <1>2, <1>3 DEF Typed, TypeOK
<1>5. /\ w0 > 0 => t \in usedSecrets /\ Spent(t, w0) /\ Stored(req[r])
      /\ CodeIsNew(req[r]) /\ req[r].pc = "session"
  BY DEF CreateSession, CodesApart, CodeIsNew, Stored
<1>6. \A secret, w : Recorded(secret, w)' =>
        Recorded(secret, w) \/ (w0 > 0 /\ secret = t /\ w = w0)
  <2> SUFFICES ASSUME NEW secret, NEW w, w > 0, NEW c \in Challenges,
                      NEW i \in DOMAIN sessions'[c],
                      sessions'[c][i].secret = secret, sessions'[c][i].window = w
               PROVE  Recorded(secret, w) \/ (w0 > 0 /\ secret = t /\ w = w0)
    BY DEF Recorded
  <2>1. CASE c = k
    BY <1>1, <1>4, <2>1
  <2>2. CASE c # k
    BY <1>4, <2>2 DEF Recorded
  <2> QED BY <2>1, <2>2
<1>7. /\ req'[r].pc = "authorize" /\ req'[r].secret = t /\ req'[r].window = w0
      /\ req'[r].via = req[r].via /\ req'[r].challenge = req[r].challenge
      /\ \A q \in Requests \ {r} : req'[q] = req[q]
  BY GotoMoves DEF CreateSession
<1>8. \A secret : \A c \in Challenges : DrawnFor(secret, c)' => DrawnFor(secret, c)
  BY <1>3, <1>7, NothingDrawn, RowsAreDrawn
<1>9. \A secret : Taken(secret) => Taken(secret)'
  BY <1>3, <1>8 DEF Taken
<1>10. SecretsApart'
  BY <1>3, <1>8, <1>9 DEF CodesApart, SecretsApart, Enrolled
<1>11. SessionsBehind'
  <2> SUFFICES ASSUME NEW secret, NEW w, Recorded(secret, w)'
               PROVE  /\ secret \in usedSecrets
                      /\ \A u \in Users : totp[u].secret = secret => w <= totp[u].last
                      /\ Taken(secret)
    BY <1>3, <1>9 DEF SessionsBehind
  <2>1. CASE Recorded(secret, w)
    BY <2>1 DEF CodesApart, SessionsBehind
  <2>2. CASE w0 > 0 /\ secret = t /\ w = w0
    BY <1>5, <2>2 DEF Spent
  <2> QED BY <1>6, <2>1, <2>2
\* No older session has the code of the new one.
<1>12. ASSUME NEW c \in Challenges \ {k}, NEW i \in DOMAIN sessions[c],
              w0 > 0, sessions[c][i].secret = t, sessions[c][i].window = w0
       PROVE  FALSE
  BY <1>5, <1>12 DEF Spent, Recorded
<1>13. TotpCodeUsedOnce'
  <2> SUFFICES ASSUME NEW c \in Challenges, NEW d \in Challenges,
                      NEW i \in DOMAIN sessions'[c], NEW j \in DOMAIN sessions'[d],
                      sessions'[c][i].window > 0,
                      sessions'[c][i].secret = sessions'[d][j].secret,
                      sessions'[c][i].window = sessions'[d][j].window
               PROVE  c = d /\ i = j
    BY DEF TotpCodeUsedOnce
  <2>1. CASE c = k /\ d = k
    BY <1>4, <2>1
  <2>2. CASE c = k /\ d # k
    BY <1>1, <1>4, <1>12, <2>2
  <2>3. CASE c # k /\ d = k
    BY <1>1, <1>4, <1>12, <2>3
  <2>4. CASE c # k /\ d # k
    BY <1>4, <2>4 DEF CodesApart, TotpCodeUsedOnce
  <2> QED BY <2>1, <2>2, <2>3, <2>4
<1>14. CodeIsNew(req[r])' /\ ~Stored(req[r])'
  BY <1>3, <1>5, <1>7 DEF CodeIsNew, Stored, Owning
\* No other request waits with the secret, or has stored the code.
<1>15. ASSUME NEW q \in Requests \ {r}, w0 > 0, req[q].pc = "persist"
       PROVE  req[q].secret # t
  <2>1. /\ CodeIsNew(req[q]) /\ req[q].via = "enrollment" /\ req[q].pc \in Owning
        /\ Waiting(req[q].secret)
    BY <1>15 DEF CodesApart, CodeIsNew, Owning, BeforeSession
  <2>2. CASE req[r].via = "enrollment"
    BY <1>5, <1>15, <2>1, <2>2, OwnersApart, NoSecretIsUnused DEF Owning, BeforeSession
  <2>3. CASE req[r].via # "enrollment"
    <3>1. t = totp[req[r].user].secret /\ req[r].user \in Users
      BY <1>5, <1>15, <2>3 DEF CodeIsNew, Typed, RequestKnown
    <3> QED BY <2>1, <3>1 DEF Waiting
  <2> QED BY <2>2, <2>3
<1>16. ASSUME NEW q \in Requests \ {r}, w0 > 0, Stored(req[q])
       PROVE  ~(req[q].secret = t /\ req[q].window = w0)
  BY <1>5, <1>16 DEF CodesApart, SameCode
<1>17. ASSUME NEW q \in Requests \ {r} PROVE CodeIsNew(req[q])'
  <2>1. req'[q] = req[q] /\ CodeIsNew(req[q])
    BY <1>7 DEF CodesApart
  <2>2. req[q].pc = "persist" => Waiting(req[q].secret)'
    BY <1>3, <1>6, <1>9, <1>15, <2>1 DEF CodeIsNew, Waiting
  <2>3. Stored(req[q]) => Spent(req[q].secret, req[q].window)'
    BY <1>3, <1>6, <1>9, <1>16, <2>1 DEF CodeIsNew, Spent
  <2> QED BY <1>3, <2>1, <2>2, <2>3 DEF CodeIsNew, Stored, Enrolled
<1>18. \A q, p \in Requests :
         Stored(req[q])' /\ Stored(req[p])' /\ SameCode(req[q], req[p])' => q = p
  BY <1>7, <1>14 DEF CodesApart, Stored, SameCode
<1> QED BY <1>10, <1>11, <1>13, <1>14, <1>17, <1>18 DEF CodesApart

LEMMA CodesApartNext ==
    Typed /\ Ownership /\ Evidence /\ WindowsAhead /\ CodesApart /\ [Next]_vars => CodesApart'
<1> SUFFICES ASSUME Typed, Ownership, Evidence, WindowsAhead, CodesApart, [Next]_vars
             PROVE  CodesApart'
  OBVIOUS
<1> USE DEF clock, policy, nonces, outcome
<1>1. ASSUME NEW r \in Requests, Authorize(r) \/ Crash(r) PROVE CodesApart'
  <2>1. Finish(r) /\ UNCHANGED <<row, totp, sessions, usedSecrets>>
    BY <1>1 DEF Authorize, Crash
  <2> QED BY <2>1, MovesAreQuiet, EndKeeps
<1>2. ASSUME NEW r \in Requests, Arrive(r) PROVE CodesApart'
  BY <1>2, ArrivalKeeps
<1>3. ASSUME NEW r \in Requests, Continue(r) PROVE CodesApart'
  BY <1>1, <1>3, EarlyStepKeeps, ConsumeKeeps, UpdateKeeps, PersistKeeps, SatisfiedKeeps,
     SessionKeeps
     DEF Continue
<1>4. CASE UNCHANGED <<row, totp, sessions, usedSecrets, req>>
  <2>1. /\ \A secret, w : Recorded(secret, w)' <=> Recorded(secret, w)
        /\ \A secret : \A c \in Challenges : DrawnFor(secret, c)' <=> DrawnFor(secret, c)
    BY <1>4 DEF Recorded, DrawnFor
  <2>2. \A secret : Taken(secret)' <=> Taken(secret)
    BY <1>4, <2>1 DEF Taken
  <2>3. SecretsApart' /\ SessionsBehind' /\ TotpCodeUsedOnce'
    BY <1>4, <2>1, <2>2
       DEF CodesApart, SecretsApart, SessionsBehind, TotpCodeUsedOnce, Enrolled
  <2>4. \A r \in Requests : CodeIsNew(req[r])'
    BY <1>4, <2>1, <2>2 DEF CodesApart, CodeIsNew, Waiting, Spent, Stored, Enrolled
  <2> QED BY <1>4, <2>3, <2>4 DEF CodesApart, Stored, SameCode
<1>5. CASE Environment \/ UNCHANGED vars
  BY <1>1, <1>4, <1>5 DEF Environment, Tick, PatchPolicy, Expire, vars
<1> QED BY <1>2, <1>3, <1>5 DEF Next

\* A code of one window ends in one session, whatever challenges and however
\* many requests it is tried on, unless two codes of one user race.
THEOREM CodeUsedOnce == Spec => []TotpCodeUsedOnce \/ <>CodesRace
<1>1. CodesApart => TotpCodeUsedOnce
  BY DEF CodesApart
<1> QED BY <1>1, CodesApartInit, CodesApartNext, WindowsAheadInit, WindowsAheadNext, Invariants,
           PTL DEF Spec
==============================================================================
