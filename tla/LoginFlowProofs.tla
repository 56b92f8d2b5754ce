---------------------------- MODULE LoginFlowProofs ----------------------------
(***************************************************************************)
(* Theorems about LoginFlow, for any sets of users, challenges, requests,  *)
(* nonces and secrets and any attempt limit.                               *)
(***************************************************************************)
EXTENDS LoginFlow, TLAPS

-----------------------------------------------------------------------------
(* Types.  TypeOK alone is not inductive: a handler copies user and method *)
(* from a row that might have none.                                        *)

\* A handler in flight knows its challenge, its user and the first factor.
RequestKnown(q) ==
    /\ q \in Request
    /\ q.pc # "idle" => /\ q.challenge \in Challenges /\ q.user \in Users
                        /\ q.method \in Methods
    /\ q.pc \in {"mint", "nonce"} => q.nonce \in Nonces

\* A row that waits for a second factor names its user.
RowKnown(w) ==
    /\ w \in Row
    /\ w.mfaState \in PendingStates => w.user \in Users /\ w.method \in Methods

Typed ==
    /\ TypeOK
    /\ \A q \in Requests : RequestKnown(req[q])
    /\ \A c \in Challenges : RowKnown(row[c])

LEMMA IdleKnown == RequestKnown(Idle) /\ Idle.pc = "idle"
BY LoginAssumption
   DEF Idle, Request, PCs, Owning, BeforeSession, MfaStates, Windows, RequestKnown

\* What a handler keeps of a row in which its user is known.
LEMMA LoadedKnown ==
    ASSUME Typed, NEW c \in Challenges, row[c].mfaState \in PendingStates,
           NEW pc \in PCs \ {"mint", "nonce"}, NEW via \in SecondFactors \cup {"none"}
    PROVE  RequestKnown(Loaded(c, pc, via))
BY IdleKnown
   DEF Typed, TypeOK, Loaded, Row, Request, RequestKnown, RowKnown, Idle

LEMMA BecomeKnown ==
    ASSUME Typed, NEW r \in Requests, NEW new, RequestKnown(new), Become(r, new)
    PROVE  /\ req' \in [Requests -> Request]
           /\ \A q \in Requests : RequestKnown(req'[q])
           /\ req'[r] = new
BY DEF Typed, TypeOK, Become, RequestKnown

LEMMA GotoKnown ==
    ASSUME Typed, NEW r \in Requests, req[r].pc # "idle",
           NEW pc \in PCs \ {"mint", "nonce"}, Goto(r, pc)
    PROVE  /\ req' \in [Requests -> Request]
           /\ \A q \in Requests : RequestKnown(req'[q])
           /\ req'[r] = [req[r] EXCEPT !.pc = pc]
<1>1. RequestKnown([req[r] EXCEPT !.pc = pc])
  BY DEF Typed, TypeOK, Request, RequestKnown
<1> QED BY <1>1, BecomeKnown DEF Goto

LEMMA FinishKnown ==
    ASSUME Typed, NEW r \in Requests, Finish(r)
    PROVE  /\ req' \in [Requests -> Request]
           /\ \A q \in Requests : RequestKnown(req'[q])
           /\ req'[r] = Idle
BY BecomeKnown, IdleKnown DEF Finish

LEMMA RowUpdateKnown ==
    ASSUME Typed, NEW c \in Challenges, NEW w, RowKnown(w), row' = [row EXCEPT ![c] = w]
    PROVE  /\ row' \in [Challenges -> Row]
           /\ \A d \in Challenges : RowKnown(row'[d])
BY DEF Typed, TypeOK, RowKnown

\* The updates the handlers make to a row.
LEMMA RowUpdates ==
    ASSUME NEW w, RowKnown(w)
    PROVE  /\ RowKnown([w EXCEPT !.consumed = TRUE])
           /\ RowKnown([w EXCEPT !.mfaAttempts = @ + 1])
           /\ RowKnown([w EXCEPT !.enrollAttempts = @ + 1])
           /\ \A s \in Secrets \cup {NoSecret} : RowKnown([w EXCEPT !.secret = s])
           /\ RowKnown([w EXCEPT !.mfaState = "satisfied"])
           /\ RowKnown([w EXCEPT !.mfaState = "satisfied", !.secret = NoSecret])
           /\ \A u \in Users, m \in Methods, state \in MfaStates :
                RowKnown([w EXCEPT !.user = u, !.mfaState = state, !.method = m])
<1> USE DEF RowKnown, Row, MfaStates, PendingStates
<1>1. RowKnown([w EXCEPT !.consumed = TRUE])
  OBVIOUS
<1>2. RowKnown([w EXCEPT !.mfaAttempts = @ + 1]) /\ RowKnown([w EXCEPT !.enrollAttempts = @ + 1])
  OBVIOUS
<1>3. \A s \in Secrets \cup {NoSecret} : RowKnown([w EXCEPT !.secret = s])
  OBVIOUS
<1>4. RowKnown([w EXCEPT !.mfaState = "satisfied"])
  OBVIOUS
<1>5. RowKnown([w EXCEPT !.mfaState = "satisfied", !.secret = NoSecret])
  OBVIOUS
<1>6. \A u \in Users, m \in Methods, state \in MfaStates :
        RowKnown([w EXCEPT !.user = u, !.mfaState = state, !.method = m])
  OBVIOUS
<1> QED BY <1>1, <1>2, <1>3, <1>4, <1>5, <1>6

\* A proof of a factor is a fact about one of the challenges and users.
LEMMA ProveType ==
    ASSUME TypeOK, NEW c \in Challenges, NEW u \in Users,
           NEW f \in Methods \cup SecondFactors, Prove(c, u, f)
    PROVE  passed' \subseteq Factor
BY DEF TypeOK, Prove, Factor

LEMMA TypedInit == Init => Typed
<1> SUFFICES ASSUME Init PROVE Typed
  OBVIOUS
<1> USE LoginAssumption
<1>1. row \in [Challenges -> Row] /\ totp \in [Users -> Credential]
  BY DEF Init, FreshRow, Row, Credential, MfaStates, Windows
<1>2. TypeOK
  BY <1>1, IdleKnown DEF Init, TypeOK, RequestKnown, FirstWindow
<1> QED BY <1>1, <1>2, IdleKnown DEF Init, Typed, RowKnown, FreshRow, PendingStates

LEMMA TypedNext == Typed /\ [Next]_vars => Typed'
<1> SUFFICES ASSUME Typed, [Next]_vars PROVE Typed'
  OBVIOUS
<1> USE DEF clock, policy, nonces, outcome
<1>1. ASSUME NEW r \in Requests, NEW c \in Challenges, NEW u \in Users, NEW m \in Methods,
             FirstFactor(r, c, u, m)
      PROVE  Typed'
  <2> DEFINE new == [Idle EXCEPT !.pc = "policy", !.challenge = c, !.user = u, !.method = m]
  <2>1. RequestKnown(new)
    BY IdleKnown DEF RequestKnown, Request, PCs
  <2>2. passed' \subseteq Factor
    BY <1>1, ProveType DEF FirstFactor, Typed
  <2> QED BY <1>1, <2>1, <2>2, BecomeKnown DEF FirstFactor, Typed, TypeOK
<1>2. ASSUME NEW r \in Requests, ReadPolicy(r) PROVE Typed'
  BY <1>2, GotoKnown DEF ReadPolicy, Typed, TypeOK, PCs, Owning
<1>3. ASSUME NEW r \in Requests, ReadCredentials(r) PROVE Typed'
  <2> PICK t \in PendingStates : Become(r, [req[r] EXCEPT !.pc = "pend", !.target = t])
    BY <1>3 DEF ReadCredentials, PendingStates
  <2>1. RequestKnown([req[r] EXCEPT !.pc = "pend", !.target = t])
    BY <1>3, ZenonT(60) DEF ReadCredentials, Typed, RequestKnown, Request, PCs, MfaStates
  <2> QED BY <1>3, <2>1, BecomeKnown DEF ReadCredentials, Typed, TypeOK
<1>4. ASSUME NEW r \in Requests, SetMfaState(r) PROVE Typed'
  <2>1. req[r].challenge \in Challenges /\ RowKnown(row[req[r].challenge])
    BY <1>4 DEF SetMfaState, Typed, RequestKnown
  <2>2. RowKnown([row[req[r].challenge] EXCEPT !.user = req[r].user, !.mfaState = req[r].target,
                    !.method = req[r].method])
    BY <2>1, RowUpdates, <1>4 DEF SetMfaState, Typed, TypeOK, RequestKnown, Request
  <2>3. row' \in [Challenges -> Row] /\ \A c \in Challenges : RowKnown(row'[c])
    BY <1>4, <2>1, <2>2, RowUpdateKnown DEF SetMfaState
  <2> QED BY <1>4, <2>3, FinishKnown DEF SetMfaState, Typed, TypeOK
<1>5. ASSUME NEW r \in Requests, NEW c \in Challenges, TotpVerify(r, c) PROVE Typed'
  BY <1>5, BecomeKnown, LoadedKnown
     DEF TotpVerify, Typed, TypeOK, PCs, SecondFactors, PendingStates
<1>6. ASSUME NEW r \in Requests, CheckTotpCode(r) PROVE Typed'
  <2>1. req[r].user \in Users /\ req[r].challenge \in Challenges
    BY <1>6 DEF CheckTotpCode, Typed, RequestKnown
  <2>2. passed' \subseteq Factor
    BY <1>6, <2>1, ProveType DEF CheckTotpCode, Typed, TypeOK, SecondFactors
  <2>3. CASE \E w \in AcceptedWindows(totp[req[r].user].last) :
               Become(r, [req[r] EXCEPT !.pc = "consume", !.window = w,
                                        !.secret = totp[req[r].user].secret])
    <3> PICK w \in AcceptedWindows(totp[req[r].user].last) :
               Become(r, [req[r] EXCEPT !.pc = "consume", !.window = w,
                                        !.secret = totp[req[r].user].secret])
      BY <2>3
    <3>1. w \in Windows
      BY <2>1, LoginAssumption
         DEF AcceptedWindows, Windows, Typed, TypeOK, FirstWindow, Credential
    <3>2. totp[req[r].user].secret \in Secrets \cup {NoSecret}
      BY <2>1 DEF Typed, TypeOK, Credential
    <3>3. RequestKnown([req[r] EXCEPT !.pc = "consume", !.window = w,
                                      !.secret = totp[req[r].user].secret])
      BY <1>6, <2>1, <3>1, <3>2, ZenonT(60)
         DEF CheckTotpCode, Typed, RequestKnown, Request, PCs
    <3> QED BY <1>6, <2>2, <3>3, BecomeKnown DEF CheckTotpCode, Typed, TypeOK
  <2>4. CASE Goto(r, "increment")
    BY <1>6, <2>2, <2>4, GotoKnown DEF CheckTotpCode, Typed, TypeOK, PCs
  <2>5. CASE Finish(r)
    BY <1>6, <2>2, <2>5, FinishKnown DEF CheckTotpCode, Typed, TypeOK
  <2> QED BY <1>6, <2>3, <2>4, <2>5 DEF CheckTotpCode
<1>7. ASSUME NEW r \in Requests, UpdateLastUsedWindow(r) PROVE Typed'
  <2>1. totp' \in [Users -> Credential]
    <3>1. /\ req[r].user \in Users /\ req[r].window \in Windows
          /\ totp[req[r].user] \in Credential
      BY <1>7 DEF UpdateLastUsedWindow, Typed, TypeOK, RequestKnown, Request
    <3>2. [totp[req[r].user] EXCEPT !.last = req[r].window] \in Credential
      BY <3>1 DEF Credential
    <3> QED BY <1>7, <3>1, <3>2 DEF UpdateLastUsedWindow, Typed, TypeOK
  <2> QED BY <1>7, <2>1, GotoKnown
          DEF UpdateLastUsedWindow, Typed, TypeOK, PCs, Owning, BeforeSession

<1>8. ASSUME NEW r \in Requests, SatisfyMfa(r) PROVE Typed'
  <2>1. req[r].challenge \in Challenges /\ RowKnown(row[req[r].challenge])
    BY <1>8 DEF SatisfyMfa, Typed, RequestKnown
  <2>2. RowKnown([row[req[r].challenge] EXCEPT !.mfaState = "satisfied"])
    BY <2>1, RowUpdates
  <2>3. row' \in [Challenges -> Row] /\ \A c \in Challenges : RowKnown(row'[c])
    BY <1>8, <2>1, <2>2, RowUpdateKnown DEF SatisfyMfa
  <2> QED BY <1>8, <2>3, GotoKnown
          DEF SatisfyMfa, Typed, TypeOK, PCs, Owning, BeforeSession
<1>9. ASSUME NEW r \in Requests, NEW c \in Challenges, SwitchToTotp(r, c) PROVE Typed'
  BY <1>9, BecomeKnown, LoadedKnown DEF SwitchToTotp, Typed, TypeOK, PCs, PendingStates
<1>10. ASSUME NEW r \in Requests, SwitchSet(r) PROVE Typed'
  <2>1. req[r].challenge \in Challenges /\ RowKnown(row[req[r].challenge])
    BY <1>10 DEF SwitchSet, Typed, RequestKnown
  <2>2. RowKnown([row[req[r].challenge] EXCEPT !.user = req[r].user, !.mfaState = "pending_totp",
                    !.method = req[r].method])
    BY <2>1, RowUpdates, <1>10 DEF SwitchSet, Typed, TypeOK, RequestKnown, Request, MfaStates, PendingStates
  <2>3. row' \in [Challenges -> Row] /\ \A c \in Challenges : RowKnown(row'[c])
    BY <1>10, <2>1, <2>2, RowUpdateKnown DEF SwitchSet, Typed, TypeOK
  <2> QED BY <1>10, <2>3, FinishKnown DEF SwitchSet, Typed, TypeOK
<1>11. ASSUME NEW r \in Requests, IncrementAttempts(r) PROVE Typed'
  <2>1. req[r].challenge \in Challenges /\ RowKnown(row[req[r].challenge])
    BY <1>11 DEF IncrementAttempts, Typed, RequestKnown
  <2>2. /\ RowKnown([row[req[r].challenge] EXCEPT !.mfaAttempts = @ + 1])
        /\ RowKnown([row[req[r].challenge] EXCEPT !.enrollAttempts = @ + 1])
    BY <2>1, RowUpdates
  <2>3. row' \in [Challenges -> Row] /\ \A c \in Challenges : RowKnown(row'[c])
    BY <1>11, <2>1, <2>2, RowUpdateKnown DEF IncrementAttempts
  <2> QED BY <1>11, <2>3, GotoKnown DEF IncrementAttempts, Typed, TypeOK, PCs
<1>12. ASSUME NEW r \in Requests, ReadAttempts(r) PROVE Typed'
  BY <1>12, GotoKnown, FinishKnown DEF ReadAttempts, Typed, TypeOK, PCs
<1>13. ASSUME NEW r \in Requests, Lockout(r) PROVE Typed'
  <2>1. req[r].challenge \in Challenges /\ RowKnown(row[req[r].challenge])
    BY <1>13 DEF Lockout, Typed, RequestKnown
  <2>2. RowKnown([row[req[r].challenge] EXCEPT !.consumed = TRUE])
    BY <2>1, RowUpdates
  <2>3. row' \in [Challenges -> Row] /\ \A c \in Challenges : RowKnown(row'[c])
    BY <1>13, <2>1, <2>2, RowUpdateKnown DEF Lockout, Typed, TypeOK
  <2> QED BY <1>13, <2>3, FinishKnown DEF Lockout, Typed, TypeOK
<1>14. ASSUME NEW r \in Requests, NEW c \in Challenges, NEW n \in Nonces,
              PasskeyStart(r, c, n)
       PROVE  Typed'
  <2> DEFINE new == [Loaded(c, "mint", "passkey_step_up") EXCEPT !.nonce = n]
  <2>1. RequestKnown(new)
    BY <1>14, IdleKnown, ZenonT(60)
       DEF PasskeyStart, Loaded, Typed, TypeOK, RowKnown, Row, RequestKnown, Request, Idle,
           PCs, SecondFactors, PendingStates
  <2> QED BY <1>14, <2>1, BecomeKnown DEF PasskeyStart, Typed, TypeOK
<1>15. ASSUME NEW r \in Requests, CreateNonce(r) PROVE Typed'
  <2>1. nonce' \in [Nonces -> Challenges \cup {NoChallenge}]
    BY <1>15 DEF CreateNonce, Typed, TypeOK, RequestKnown
  <2> QED BY <1>15, <2>1, FinishKnown DEF CreateNonce, Typed, TypeOK
<1>16. ASSUME NEW r \in Requests, NEW c \in Challenges, NEW n \in Nonces,
              PasskeyFinish(r, c, n)
       PROVE  Typed'
  <2> DEFINE new == [Loaded(c, "nonce", "passkey_step_up") EXCEPT !.nonce = n]
  <2>1. RequestKnown(new)
    BY <1>16, IdleKnown, ZenonT(60)
       DEF PasskeyFinish, Loaded, Typed, TypeOK, RowKnown, Row, RequestKnown, Request, Idle,
           PCs, SecondFactors, PendingStates
  <2> QED BY <1>16, <2>1, BecomeKnown DEF PasskeyFinish, Typed, TypeOK
<1>17. ASSUME NEW r \in Requests, ConsumeNonce(r) PROVE Typed'
  <2>1. usedNonces' \subseteq Nonces
    BY <1>17 DEF ConsumeNonce, Typed, TypeOK, RequestKnown
  <2> QED BY <1>17, <2>1, GotoKnown, FinishKnown DEF ConsumeNonce, Typed, TypeOK, PCs
<1>18. ASSUME NEW r \in Requests, VerifyAssertion(r) PROVE Typed'
  <2>1. passed' \subseteq Factor
    BY <1>18, ProveType, LoginAssumption
       DEF VerifyAssertion, Typed, TypeOK, RequestKnown, SecondFactors
  <2> QED BY <1>18, <2>1, GotoKnown DEF VerifyAssertion, Typed, TypeOK, PCs
<1>19. ASSUME NEW r \in Requests, NEW c \in Challenges, EnrollStart(r, c) PROVE Typed'
  <2> PICK s \in Secrets \ usedSecrets :
         /\ Become(r, [Loaded(c, "secret", "enrollment") EXCEPT !.secret = s])
         /\ usedSecrets' = usedSecrets \cup {s}
    BY <1>19 DEF EnrollStart
  <2>1. RequestKnown(Loaded(c, "secret", "enrollment"))
    BY <1>19, LoadedKnown DEF EnrollStart, PCs, SecondFactors, PendingStates
  <2>2. RequestKnown([Loaded(c, "secret", "enrollment") EXCEPT !.secret = s])
    BY <2>1 DEF RequestKnown, Request
  <2> QED BY <1>19, <2>2, BecomeKnown DEF EnrollStart, Typed, TypeOK
<1>20. ASSUME NEW r \in Requests, SetEnrollmentSecret(r) PROVE Typed'
  <2>1. req[r].challenge \in Challenges /\ RowKnown(row[req[r].challenge])
    BY <1>20 DEF SetEnrollmentSecret, Typed, RequestKnown
  <2>2. RowKnown([row[req[r].challenge] EXCEPT !.secret = req[r].secret])
    BY <2>1, RowUpdates, <1>20 DEF SetEnrollmentSecret, Typed, TypeOK, RequestKnown, Request
  <2>3. row' \in [Challenges -> Row] /\ \A c \in Challenges : RowKnown(row'[c])
    BY <1>20, <2>1, <2>2, RowUpdateKnown DEF SetEnrollmentSecret
  <2> QED BY <1>20, <2>3, FinishKnown DEF SetEnrollmentSecret, Typed, TypeOK
<1>21. ASSUME NEW r \in Requests, NEW c \in Challenges, EnrollFinish(r, c) PROVE Typed'
  <2> DEFINE loaded == [Loaded(c, "consume", "enrollment") EXCEPT !.secret = row[c].secret]
  <2>1. RequestKnown(Loaded(c, "consume", "enrollment"))
    BY <1>21, LoadedKnown DEF EnrollFinish, PCs, SecondFactors, PendingStates
  <2>2. /\ RequestKnown([loaded EXCEPT !.pc = "increment"])
        /\ \A w \in Windows : RequestKnown([loaded EXCEPT !.window = w])
    <3>1. row[c].secret \in Secrets \cup {NoSecret}
      BY DEF Typed, TypeOK, Row
    <3>2. Loaded(c, "consume", "enrollment").pc = "consume"
      BY DEF Loaded, Idle
    <3> HIDE DEF RequestKnown
    <3> DEFINE load == Loaded(c, "consume", "enrollment")
    <3> HIDE DEF load
    <3>3. RequestKnown(load) /\ load.pc = "consume"
      BY <2>1, <3>2 DEF load
    <3>4. RequestKnown([load EXCEPT !.secret = row[c].secret, !.pc = "increment"])
      BY <3>1, <3>3 DEF RequestKnown, Request, PCs
    <3>5. \A w \in Windows :
            RequestKnown([load EXCEPT !.secret = row[c].secret, !.window = w])
      BY <3>1, <3>3 DEF RequestKnown, Request
    <3> QED BY <3>4, <3>5 DEF load
  <2>3. AcceptedWindows(0) \subseteq Windows
    BY LoginAssumption DEF AcceptedWindows, Windows, Typed, TypeOK, FirstWindow
  <2>4. passed' \subseteq Factor
    BY <1>21, ProveType DEF EnrollFinish, Typed, TypeOK, RowKnown, SecondFactors, PendingStates
  <2>5. \E new : RequestKnown(new) /\ Become(r, new)
    BY <1>21, <2>2, <2>3 DEF EnrollFinish
  <2> QED BY <1>21, <2>4, <2>5, BecomeKnown DEF EnrollFinish, Typed, TypeOK
<1>22. ASSUME NEW r \in Requests, PersistCredential(r) PROVE Typed'
  <2>1. totp' \in [Users -> Credential]
    BY <1>22 DEF PersistCredential, Typed, TypeOK, RequestKnown, Request, Credential
  <2> QED BY <1>22, <2>1, GotoKnown
          DEF PersistCredential, Typed, TypeOK, PCs, Owning, BeforeSession
<1>23. ASSUME NEW r \in Requests, CompleteEnrollment(r) PROVE Typed'
  <2>1. req[r].challenge \in Challenges /\ RowKnown(row[req[r].challenge])
    BY <1>23 DEF CompleteEnrollment, Typed, RequestKnown
  <2>2. RowKnown([row[req[r].challenge] EXCEPT !.mfaState = "satisfied", !.secret = NoSecret])
    BY <2>1, RowUpdates
  <2>3. row' \in [Challenges -> Row] /\ \A c \in Challenges : RowKnown(row'[c])
    BY <1>23, <2>1, <2>2, RowUpdateKnown DEF CompleteEnrollment
  <2> QED BY <1>23, <2>3, GotoKnown
          DEF CompleteEnrollment, Typed, TypeOK, PCs, Owning, BeforeSession
<1>24. ASSUME NEW r \in Requests, ConsumeChallenge(r) PROVE Typed'
  <2>1. req[r].challenge \in Challenges /\ RowKnown(row[req[r].challenge])
    BY <1>24 DEF ConsumeChallenge, Typed, RequestKnown
  <2>2. RowKnown([row[req[r].challenge] EXCEPT !.consumed = TRUE])
    BY <2>1, RowUpdates
  <2>3. row' \in [Challenges -> Row] /\ \A c \in Challenges : RowKnown(row'[c])
    BY <1>24, <2>1, <2>2, RowUpdateKnown DEF ConsumeChallenge, Typed, TypeOK
  <2>4. NextAfterConsume(req[r].via) \in PCs \ {"mint", "nonce"}
    BY DEF NextAfterConsume, PCs, Owning, BeforeSession
  <2> QED BY <1>24, <2>3, <2>4, GotoKnown, FinishKnown DEF ConsumeChallenge, Typed, TypeOK
<1>25. ASSUME NEW r \in Requests, CreateSession(r) PROVE Typed'
  <2> DEFINE s == [user |-> req[r].user, via |-> req[r].via,
                   secret |-> req[r].secret, window |-> req[r].window]
  <2>1. s \in Session /\ req[r].challenge \in Challenges
    BY <1>25 DEF CreateSession, Typed, TypeOK, RequestKnown, Request, Session
  <2> HIDE DEF s
  <2>2. sessions' = [sessions EXCEPT ![req[r].challenge] = Append(@, s)]
    BY <1>25 DEF CreateSession, s
  <2>3. sessions' \in [Challenges -> Seq(Session)]
    BY <2>1, <2>2 DEF Typed, TypeOK
  <2> QED BY <1>25, <2>3, GotoKnown DEF CreateSession, Typed, TypeOK, PCs, Owning
<1>26. ASSUME NEW r \in Requests, Authorize(r) PROVE Typed'
  <2> DEFINE k == [user |-> req[r].user, method |-> req[r].method]
  <2>1. k \in Code /\ req[r].challenge \in Challenges
    BY <1>26 DEF Authorize, Typed, TypeOK, RequestKnown, Request, Code
  <2> HIDE DEF k
  <2>2. \/ codes' = [codes EXCEPT ![req[r].challenge] = Append(@, k)]
        \/ codes' = codes
    BY <1>26 DEF Authorize, k
  <2>3. codes' \in [Challenges -> Seq(Code)]
    <3>1. codes[req[r].challenge] \in Seq(Code)
      BY <2>1 DEF Typed, TypeOK
    <3>2. Append(codes[req[r].challenge], k) \in Seq(Code)
      BY <2>1, <3>1
    <3> QED BY <2>2, <3>2 DEF Typed, TypeOK
  <2> QED BY <1>26, <2>3, FinishKnown DEF Authorize, Typed, TypeOK
<1>27. CASE Environment
  <2>1. CASE Tick
    BY <2>1, LoginAssumption DEF Tick, Typed, TypeOK, FirstWindow
  <2>2. CASE PatchPolicy
    BY <2>2 DEF PatchPolicy, Typed, TypeOK
  <2>3. ASSUME NEW c \in Challenges, Expire(c) PROVE Typed'
    BY <2>3 DEF Expire, Typed, TypeOK
  <2>4. ASSUME NEW r \in Requests, Crash(r) PROVE Typed'
    BY <2>4, FinishKnown, LoginAssumption DEF Crash, Typed, TypeOK
  <2> QED BY <1>27, <2>1, <2>2, <2>3, <2>4 DEF Environment
<1>28. CASE UNCHANGED vars
  BY <1>28 DEF vars, Typed, TypeOK
<1> QED
  BY <1>1, <1>2, <1>3, <1>4, <1>5, <1>6, <1>7, <1>8, <1>9, <1>10, <1>11, <1>12, <1>13,
     <1>14, <1>15, <1>16, <1>17, <1>18, <1>19, <1>20, <1>21, <1>22, <1>23, <1>24, <1>25,
     <1>26, <1>27, <1>28
  DEF Next, Arrive, Continue

\* Every variable keeps its type.
THEOREM TypeCorrect == Spec => []TypeOK
<1>1. Spec => []Typed
  BY TypedInit, TypedNext, PTL DEF Spec
<1>2. Typed => TypeOK
  BY DEF Typed
<1> QED BY <1>1, <1>2, PTL

-----------------------------------------------------------------------------
(* Ownership: the request whose consume() succeeded is the only one past   *)
(* it, and nothing has come of the challenge before it acts.               *)

Owns(r, c) == req[r].pc \in Owning /\ req[r].challenge = c

Ownership ==
    /\ \A r \in Requests, c \in Challenges : Owns(r, c) => row[c].consumed
    /\ \A q, r \in Requests, c \in Challenges : Owns(q, c) /\ Owns(r, c) => q = r
    /\ \A r \in Requests, c \in Challenges :
         Owns(r, c) /\ req[r].pc \in BeforeSession => sessions[c] = <<>>
    /\ \A r \in Requests, c \in Challenges :
         Owns(r, c) /\ req[r].pc = "authorize" =>
            codes[c] = <<>> /\ sessions[c] # <<>> /\ sessions[c][1].user = req[r].user
    /\ \A c \in Challenges :
         /\ ~row[c].consumed => sessions[c] = <<>>
         /\ sessions[c] = <<>> => codes[c] = <<>>
    /\ OneLoginPerChallenge

\* Most steps work before the consume, or go on towards the session.
LEMMA OwnershipFrame ==
    ASSUME Typed, Ownership, NEW r \in Requests, NEW new, Become(r, new),
           \/ new.pc \notin Owning
           \/ /\ req[r].pc \in BeforeSession /\ new.pc \in BeforeSession
              /\ new.challenge = req[r].challenge,
           \A c \in Challenges : row[c].consumed => row'[c].consumed,
           UNCHANGED <<sessions, codes>>
    PROVE  Ownership'
<1>1. \A q \in Requests \ {r} : req'[q] = req[q]
  BY DEF Become, Typed, TypeOK
<1>2. req'[r] = new
  BY DEF Become, Typed, TypeOK
<1>3. \A q \in Requests, c \in Challenges : Owns(q, c)' => Owns(q, c)
  BY <1>1, <1>2 DEF Owns, Owning
<1>4. \A q \in Requests, c \in Challenges :
        /\ Owns(q, c)' /\ req'[q].pc \in BeforeSession => req[q].pc \in BeforeSession
        /\ Owns(q, c)' /\ req'[q].pc = "authorize" => req'[q] = req[q]
  BY <1>1, <1>2 DEF Owns, Owning, BeforeSession
<1>5. OneLoginPerChallenge'
  BY DEF Ownership, OneLoginPerChallenge
<1> QED BY <1>3, <1>4, <1>5 DEF Ownership

LEMMA OwnershipInit == Init => Ownership
BY DEF Init, Ownership, Owns, Idle, Owning, BeforeSession, OneLoginPerChallenge

LEMMA OwnershipNext == Typed /\ Ownership /\ [Next]_vars => Ownership'
<1> SUFFICES ASSUME Typed, Ownership, [Next]_vars PROVE Ownership'
  OBVIOUS
<1> USE DEF clock, policy, nonces, outcome
\* Steps that leave the rows alone and stay short of the consume.
<1>1. ASSUME NEW r \in Requests, NEW new, Become(r, new), new.pc \notin Owning,
             UNCHANGED <<row, sessions, codes>>
      PROVE  Ownership'
  BY <1>1, OwnershipFrame
<1>2. ASSUME NEW r \in Requests, NEW pc, pc \notin Owning, Goto(r, pc), req[r] \in Request,
             UNCHANGED <<row, sessions, codes>>
      PROVE  Ownership'
  BY <1>1, <1>2 DEF Goto, Request
<1>3. ASSUME NEW r \in Requests, Finish(r), UNCHANGED <<row, sessions, codes>>
      PROVE  Ownership'
  BY <1>1, <1>3 DEF Finish, Idle, Owning, BeforeSession
<1>4. ASSUME NEW r \in Requests, NEW c \in Challenges, NEW u \in Users, NEW m \in Methods,
             FirstFactor(r, c, u, m)
      PROVE  Ownership'
  BY <1>1, <1>4 DEF FirstFactor, Idle, Owning, BeforeSession
<1>5. ASSUME NEW r \in Requests,
             \/ ReadPolicy(r) \/ ReadAttempts(r) \/ ConsumeNonce(r) \/ VerifyAssertion(r)
             \/ CreateNonce(r)
      PROVE  Ownership'
  BY <1>2, <1>3, <1>5
     DEF Typed, TypeOK, ReadPolicy, ReadAttempts, ConsumeNonce, VerifyAssertion, CreateNonce,
         Owning, BeforeSession
<1>6. ASSUME NEW r \in Requests, ReadCredentials(r) PROVE Ownership'
  BY <1>1, <1>6 DEF ReadCredentials, Typed, TypeOK, Request, Owning, BeforeSession
<1>7. ASSUME NEW r \in Requests, CheckTotpCode(r) PROVE Ownership'
  <2>1. CASE Finish(r) \/ Goto(r, "increment")
    BY <1>2, <1>3, <1>7, <2>1 DEF CheckTotpCode, Typed, TypeOK, Owning, BeforeSession
  <2>2. CASE \E w \in AcceptedWindows(totp[req[r].user].last) :
               Become(r, [req[r] EXCEPT !.pc = "consume", !.window = w,
                                        !.secret = totp[req[r].user].secret])
    BY <1>1, <1>7, <2>2
       DEF CheckTotpCode, Typed, TypeOK, Request, Owning, BeforeSession
  <2> QED BY <1>7, <2>1, <2>2 DEF CheckTotpCode
<1>8. ASSUME NEW r \in Requests, NEW c \in Challenges,
             TotpVerify(r, c) \/ SwitchToTotp(r, c)
      PROVE  Ownership'
  BY <1>1, <1>8 DEF TotpVerify, SwitchToTotp, Loaded, Idle, Owning, BeforeSession
<1>9. ASSUME NEW r \in Requests, NEW c \in Challenges, NEW n \in Nonces,
             PasskeyStart(r, c, n) \/ PasskeyFinish(r, c, n)
      PROVE  Ownership'
  BY <1>1, <1>9 DEF PasskeyStart, PasskeyFinish, Loaded, Idle, Owning, BeforeSession
<1>10. ASSUME NEW r \in Requests, NEW c \in Challenges,
              EnrollStart(r, c) \/ EnrollFinish(r, c)
       PROVE  Ownership'
  <2>1. CASE EnrollStart(r, c)
    BY <1>1, <2>1 DEF EnrollStart, Loaded, Idle, Owning, BeforeSession
  <2>2. CASE EnrollFinish(r, c)
    <3> DEFINE loaded == [Loaded(c, "consume", "enrollment") EXCEPT !.secret = row[c].secret]
    <3>1. /\ \A w : [loaded EXCEPT !.window = w].pc \notin Owning
          /\ [loaded EXCEPT !.pc = "increment"].pc \notin Owning
      BY DEF Loaded, Idle, Owning, BeforeSession
    <3> HIDE DEF loaded
    <3>2. \/ \E w \in AcceptedWindows(0) : Become(r, [loaded EXCEPT !.window = w])
          \/ Become(r, [loaded EXCEPT !.pc = "increment"])
      BY <2>2 DEF EnrollFinish, loaded
    <3> QED BY <1>1, <2>2, <3>1, <3>2 DEF EnrollFinish
  <2> QED BY <1>10, <2>1, <2>2
\* Steps that write a row.
<1>11. ASSUME NEW r \in Requests,
              SetMfaState(r) \/ SwitchSet(r) \/ SetEnrollmentSecret(r) \/ Lockout(r)
       PROVE  Ownership'
  <2>1. \A c \in Challenges : row[c].consumed => row'[c].consumed
    <3> DEFINE k == req[r].challenge
    <3>1. k \in Challenges /\ row[k] \in Row
      BY <1>11 DEF SetMfaState, SwitchSet, SetEnrollmentSecret, Lockout, Typed, TypeOK,
                   RequestKnown
    <3>2. CASE SetMfaState(r)
      BY <3>1, <3>2 DEF SetMfaState, Typed, TypeOK, Row
    <3>3. CASE SwitchSet(r)
      BY <3>1, <3>3 DEF SwitchSet, Typed, TypeOK, Row
    <3>4. CASE SetEnrollmentSecret(r)
      BY <3>1, <3>4 DEF SetEnrollmentSecret, Typed, TypeOK, Row
    <3>5. CASE Lockout(r)
      BY <3>1, <3>5 DEF Lockout, Typed, TypeOK, Row
    <3> QED BY <1>11, <3>2, <3>3, <3>4, <3>5
  <2> QED BY <1>11, <2>1, OwnershipFrame
          DEF SetMfaState, SwitchSet, SetEnrollmentSecret, Lockout, Finish, Idle,
              Owning, BeforeSession
<1>12. ASSUME NEW r \in Requests, IncrementAttempts(r) PROVE Ownership'
  <2>1. \A c \in Challenges : row[c].consumed => row'[c].consumed
    BY <1>12 DEF IncrementAttempts, Typed, TypeOK, Row
  <2> DEFINE new == [req[r] EXCEPT !.pc = "recount"]
  <2>2. new.pc \notin Owning
    BY DEF Typed, TypeOK, Request, Owning, BeforeSession
  <2>3. Become(r, new) /\ UNCHANGED <<sessions, codes>>
    BY <1>12 DEF IncrementAttempts, Goto
  <2> QED BY <2>1, <2>2, <2>3, OwnershipFrame
\* The owner's steps up to the session.
<1>13. ASSUME NEW r \in Requests,
              \/ UpdateLastUsedWindow(r) \/ SatisfyMfa(r)
              \/ PersistCredential(r) \/ CompleteEnrollment(r)
       PROVE  Ownership'
  <2>1. \A c \in Challenges : row[c].consumed => row'[c].consumed
    <3> DEFINE k == req[r].challenge
    <3>1. k \in Challenges /\ row[k] \in Row
      BY <1>13 DEF UpdateLastUsedWindow, SatisfyMfa, PersistCredential, CompleteEnrollment,
                   Typed, TypeOK, RequestKnown
    <3>2. CASE SatisfyMfa(r)
      BY <3>1, <3>2 DEF SatisfyMfa, Typed, TypeOK, Row
    <3>3. CASE CompleteEnrollment(r)
      BY <3>1, <3>3 DEF CompleteEnrollment, Typed, TypeOK, Row
    <3>4. CASE UNCHANGED row
      BY <3>4
    <3> QED BY <1>13, <3>2, <3>3, <3>4 DEF UpdateLastUsedWindow, PersistCredential
  <2> PICK pc \in BeforeSession : Goto(r, pc)
    BY <1>13 DEF UpdateLastUsedWindow, SatisfyMfa, PersistCredential, CompleteEnrollment,
                 BeforeSession
  <2> DEFINE new == [req[r] EXCEPT !.pc = pc]
  <2>2. new.pc \in BeforeSession /\ new.challenge = req[r].challenge
    BY DEF Typed, TypeOK, Request
  <2>3. req[r].pc \in BeforeSession
    BY <1>13 DEF UpdateLastUsedWindow, SatisfyMfa, PersistCredential, CompleteEnrollment,
                 BeforeSession
  <2>4. Become(r, new) /\ UNCHANGED <<sessions, codes>>
    BY <1>13 DEF UpdateLastUsedWindow, SatisfyMfa, PersistCredential, CompleteEnrollment,
                 Goto
  <2> QED BY <2>1, <2>2, <2>3, <2>4, OwnershipFrame
\* The consume: nobody owned the challenge, and now r does.
<1>14. ASSUME NEW r \in Requests, ConsumeChallenge(r) PROVE Ownership'
  <2> DEFINE k == req[r].challenge
  <2>1. k \in Challenges
    BY <1>14 DEF ConsumeChallenge, Typed, RequestKnown
  <2>2. CASE ~Active(k)
    BY <1>14, <1>3, <2>2 DEF ConsumeChallenge
  <2>3. CASE Active(k)
    <3>1. /\ row' = [row EXCEPT ![k] = [@ EXCEPT !.consumed = TRUE]]
          /\ Goto(r, NextAfterConsume(req[r].via))
          /\ UNCHANGED <<sessions, codes>>
      BY <1>14, <2>3 DEF ConsumeChallenge
    <3>2. \A c \in Challenges : row'[c].consumed <=> (row[c].consumed \/ c = k)
      BY <2>1, <3>1 DEF Typed, TypeOK, Row
    <3>3. /\ req'[r].pc \in BeforeSession /\ req'[r].challenge = k
          /\ \A q \in Requests \ {r} : req'[q] = req[q]
      BY <3>1 DEF Goto, Become, Typed, TypeOK, Request, NextAfterConsume, BeforeSession
    <3>4. ~row[k].consumed /\ sessions[k] = <<>> /\ codes[k] = <<>>
      BY <2>1, <2>3 DEF Active, Ownership
    <3>5. \A q \in Requests, c \in Challenges :
            Owns(q, c)' <=> (q = r /\ c = k) \/ (q # r /\ Owns(q, c))
      BY <3>3 DEF Owns, Owning, BeforeSession
    <3>6. \A q \in Requests : ~Owns(q, k)
      BY <2>1, <3>4 DEF Ownership
    <3>7. OneLoginPerChallenge'
      BY <3>1, <3>2 DEF Ownership, OneLoginPerChallenge
    <3> QED
      BY <2>1, <3>1, <3>2, <3>3, <3>4, <3>5, <3>6, <3>7 DEF Ownership, BeforeSession
  <2> QED BY <2>2, <2>3
<1>15. ASSUME NEW r \in Requests, CreateSession(r) PROVE Ownership'
  <2> DEFINE k == req[r].challenge
             s == [user |-> req[r].user, via |-> req[r].via,
                   secret |-> req[r].secret, window |-> req[r].window]
  <2>1. k \in Challenges /\ Owns(r, k) /\ req[r].pc = "session"
    BY <1>15 DEF CreateSession, Typed, RequestKnown, Owns, Owning, BeforeSession
  <2>2. sessions[k] = <<>> /\ codes[k] = <<>> /\ row[k].consumed
    BY <2>1 DEF Ownership, BeforeSession
  <2>3. sessions' = [sessions EXCEPT ![k] = Append(@, s)] /\ UNCHANGED <<row, codes>>
    BY <1>15 DEF CreateSession
  <2>4. s.user = req[r].user
    OBVIOUS
  <2> HIDE DEF s
  <2>5. /\ sessions' = [sessions EXCEPT ![k] = <<s>>]
        /\ Len(<<s>>) = 1 /\ <<s>>[1] = s /\ <<s>> # <<>>
    BY <2>1, <2>2, <2>3 DEF Typed, TypeOK
  <2>6. /\ req'[r].pc = "authorize" /\ req'[r].challenge = k /\ req'[r].user = req[r].user
        /\ \A q \in Requests \ {r} : req'[q] = req[q]
    BY <1>15 DEF CreateSession, Goto, Become, Typed, TypeOK, Request
  <2>7. \A q \in Requests, c \in Challenges : Owns(q, c)' <=> Owns(q, c)
    BY <2>1, <2>6 DEF Owns, Owning
  <2>8. /\ sessions'[k] = <<s>>
        /\ \A c \in Challenges \ {k} : sessions'[c] = sessions[c]
    BY <2>1, <2>5 DEF Typed, TypeOK
  <2>9. OneLoginPerChallenge'
    BY <2>2, <2>3, <2>5, <2>8 DEF Ownership, OneLoginPerChallenge
  <2>10. \A q \in Requests, c \in Challenges :
           /\ Owns(q, c) /\ c = k => q = r
           /\ c # k => sessions'[c] = sessions[c]
    BY <2>1, <2>8 DEF Ownership
  <2>11. \A q \in Requests, c \in Challenges : Owns(q, c)' =>
           /\ req'[q].pc \in BeforeSession => sessions'[c] = <<>>
           /\ req'[q].pc = "authorize" =>
                codes'[c] = <<>> /\ sessions'[c] # <<>>
                /\ sessions'[c][1].user = req'[q].user
    <3> SUFFICES ASSUME NEW q \in Requests, NEW c \in Challenges, Owns(q, c)'
                 PROVE  /\ req'[q].pc \in BeforeSession => sessions'[c] = <<>>
                        /\ req'[q].pc = "authorize" =>
                             codes'[c] = <<>> /\ sessions'[c] # <<>>
                             /\ sessions'[c][1].user = req'[q].user
      OBVIOUS
    <3>1. CASE q = r
      BY <2>2, <2>3, <2>4, <2>5, <2>6, <2>8, <3>1 DEF Owns, BeforeSession
    <3>2. CASE q # r
      <4>1. Owns(q, c) /\ c # k /\ req'[q] = req[q]
        BY <2>6, <2>7, <2>10, <3>2
      <4> QED BY <2>3, <2>10, <4>1 DEF Ownership
    <3> QED BY <3>1, <3>2
  <2>12. \A c \in Challenges :
           /\ ~row'[c].consumed => sessions'[c] = <<>>
           /\ sessions'[c] = <<>> => codes'[c] = <<>>
    BY <2>2, <2>3, <2>5, <2>8 DEF Ownership
  <2> QED BY <2>3, <2>7, <2>9, <2>11, <2>12 DEF Ownership
<1>16. ASSUME NEW r \in Requests, Authorize(r) PROVE Ownership'
  <2> DEFINE k == req[r].challenge
             d == [user |-> req[r].user, method |-> req[r].method]
  <2>1. k \in Challenges /\ Owns(r, k) /\ req[r].pc = "authorize"
    BY <1>16 DEF Authorize, Typed, RequestKnown, Owns, Owning
  <2>2. /\ codes[k] = <<>> /\ sessions[k] # <<>> /\ row[k].consumed
        /\ sessions[k][1].user = req[r].user
    BY <2>1 DEF Ownership
  <2>3. /\ codes' = [codes EXCEPT ![k] = Append(@, d)] \/ UNCHANGED codes
        /\ UNCHANGED <<row, sessions>>
    BY <1>16 DEF Authorize
  <2>4. d.user = req[r].user
    OBVIOUS
  <2> HIDE DEF d
  <2>5. /\ codes'[k] \in {<<>>, <<d>>}
        /\ \A c \in Challenges \ {k} : codes'[c] = codes[c]
    <3>1. Append(codes[k], d) = <<d>>
      BY <2>2
    <3> QED BY <2>1, <2>2, <2>3, <3>1 DEF Typed, TypeOK
  <2>6. /\ req'[r].pc \notin Owning
        /\ \A q \in Requests \ {r} : req'[q] = req[q]
    BY <1>16 DEF Authorize, Finish, Become, Idle, Typed, TypeOK, Owning, BeforeSession
  <2>7. \A q \in Requests, c \in Challenges : Owns(q, c)' => Owns(q, c) /\ q # r /\ c # k
    BY <2>1, <2>6 DEF Owns, Ownership
  <2>8. Len(<<d>>) = 1 /\ <<d>>[1] = d /\ Len(<<>>) = 0
    OBVIOUS
  <2>9. OneLoginPerChallenge'
    <3>1. \A c \in Challenges \ {k} : codes'[c] = codes[c] /\ sessions'[c] = sessions[c]
      BY <2>3, <2>5
    <3>2. /\ Len(codes'[k]) <= 1 /\ sessions'[k] = sessions[k] /\ row'[k] = row[k]
          /\ codes'[k] # <<>> => codes'[k][1].user = sessions'[k][1].user
      <4>1. CASE codes'[k] = <<>>
        BY <2>2, <2>3, <2>8, <4>1
      <4>2. CASE codes'[k] = <<d>>
        BY <2>2, <2>3, <2>4, <2>8, <4>2
      <4> QED BY <2>5, <4>1, <4>2
    <3> QED BY <2>1, <2>2, <2>3, <3>1, <3>2 DEF Ownership, OneLoginPerChallenge
  <2> QED
    BY <2>1, <2>2, <2>3, <2>5, <2>6, <2>7, <2>9 DEF Ownership
<1>17. CASE Environment
  <2>1. ASSUME NEW r \in Requests, Crash(r) PROVE Ownership'
    BY <1>3, <2>1 DEF Crash
  <2>2. CASE UNCHANGED <<row, sessions, codes, req>>
    BY <2>2 DEF Ownership, Owns, OneLoginPerChallenge
  <2> QED BY <1>17, <2>1, <2>2 DEF Environment, Tick, PatchPolicy, Expire
<1>18. CASE UNCHANGED vars
  BY <1>18 DEF vars, Ownership, Owns, OneLoginPerChallenge
<1> QED
  BY <1>4, <1>5, <1>6, <1>7, <1>8, <1>9, <1>10, <1>11, <1>12, <1>13, <1>14, <1>15, <1>16,
     <1>17, <1>18
  DEF Next, Arrive, Continue

\* A login challenge ends in at most one session and one code.
THEOREM OneLogin == Spec => []OneLoginPerChallenge
<1>1. Spec => [](Typed /\ Ownership)
  BY TypedInit, TypedNext, OwnershipInit, OwnershipNext, PTL DEF Spec
<1>2. Ownership => OneLoginPerChallenge
  BY DEF Ownership
<1> QED BY <1>1, <1>2, PTL

-----------------------------------------------------------------------------
(* Evidence. *)

\* Evidence: what the code has seen of a user before it lets that user go on.
RequestProved(q) ==
    /\ q.pc # "idle" => Proved(q.challenge, q.user, q.method)
    /\ q.pc = "policy" => q.via = "none"
    /\ q.pc = "verify" => q.via = "totp"
    /\ q.pc \in {"nonce", "assert"} => q.via = "passkey_step_up"
    /\ q.pc = "pend" => /\ q.target \in PendingStates
                        /\ q.target = "pending_totp" => Enrolled(q.user)
    /\ q.pc \in {"consume"} \cup Owning =>
         /\ q.via \in {"totp", "enrollment"} => Proved(q.challenge, q.user, q.via)
         /\ q.via = "passkey_step_up" =>
              \E v \in PasskeyUsers : Proved(q.challenge, v, q.via)
    /\ q.pc \in {"window", "satisfy", "persist", "enrolled"} => q.via # "none"
    /\ q.pc # "idle" /\ q.via # "none" => row[q.challenge].mfaState # "none"

Evidence ==
    /\ \A r \in Requests : RequestProved(req[r])
    /\ PendingRowsAreProved
    /\ SessionsAreProved

RowProved(c) ==
    row[c].mfaState # "none" =>
        /\ Proved(c, row[c].user, row[c].method)
        /\ row[c].mfaState = "pending_totp" => Enrolled(row[c].user)
        /\ row[c].mfaState = "satisfied" => row[c].consumed

\* What is known stays known: factors passed, credentials, a second factor once
\* asked for.
Grows ==
    /\ passed \subseteq passed'
    /\ \A u \in Users : Enrolled(u) => Enrolled(u)'
    /\ \A c \in Challenges : row[c].mfaState # "none" => row'[c].mfaState # "none"

LEMMA KnowledgeGrows ==
    ASSUME Typed, Evidence, [Next]_vars
    PROVE  Grows
<1> USE DEF clock, policy, nonces, outcome
<1>1. ASSUME passed \subseteq passed', UNCHANGED totp,
             \A c \in Challenges : row[c].mfaState # "none" => row'[c].mfaState # "none"
      PROVE  Grows
  BY <1>1 DEF Grows, Enrolled
<1>2. ASSUME NEW r \in Requests, NEW c \in Challenges,
             \/ \E u \in Users, m \in Methods : FirstFactor(r, c, u, m)
             \/ EnrollFinish(r, c)
      PROVE  Grows
  BY <1>1, <1>2 DEF FirstFactor, EnrollFinish, Prove
<1>3. ASSUME NEW r \in Requests, NEW c \in Challenges,
             \/ TotpVerify(r, c) \/ SwitchToTotp(r, c) \/ EnrollStart(r, c)
             \/ \E n \in Nonces : PasskeyStart(r, c, n) \/ PasskeyFinish(r, c, n)
      PROVE  Grows
  BY <1>1, <1>3 DEF TotpVerify, SwitchToTotp, EnrollStart, PasskeyStart, PasskeyFinish
<1>4. ASSUME NEW r \in Requests,
             \/ ReadPolicy(r) \/ ReadCredentials(r) \/ ReadAttempts(r)
             \/ CreateNonce(r) \/ ConsumeNonce(r) \/ CreateSession(r) \/ Authorize(r)
      PROVE  Grows
  BY <1>1, <1>4
     DEF ReadPolicy, ReadCredentials, ReadAttempts, CreateNonce, ConsumeNonce, CreateSession,
         Authorize
<1>12. ASSUME NEW r \in Requests, NEW w, row' = [row EXCEPT ![req[r].challenge] = w],
              w.mfaState # "none" \/ w.mfaState = row[req[r].challenge].mfaState,
              UNCHANGED <<passed, totp>>
       PROVE  Grows
  BY <1>1, <1>12 DEF Typed, TypeOK
<1>13. ASSUME NEW r \in Requests, SetMfaState(r) \/ SwitchSet(r) PROVE Grows
  <2>1. CASE SetMfaState(r)
    <3>1. req[r].target # "none"
      BY <2>1 DEF SetMfaState, Evidence, RequestProved, PendingStates
    <3>2. [row[req[r].challenge] EXCEPT !.user = req[r].user, !.mfaState = req[r].target,
                                        !.method = req[r].method].mfaState # "none"
      BY <2>1, <3>1 DEF SetMfaState, Typed, TypeOK, RequestKnown, Row
    <3> QED BY <1>12, <2>1, <3>2 DEF SetMfaState
  <2>2. CASE SwitchSet(r) /\ Enrolled(req[r].user)
    <3>1. [row[req[r].challenge] EXCEPT !.user = req[r].user, !.mfaState = "pending_totp",
                                        !.method = req[r].method].mfaState # "none"
      BY <2>2 DEF SwitchSet, Typed, TypeOK, RequestKnown, Row
    <3> QED BY <1>12, <2>2, <3>1 DEF SwitchSet
  <2>3. CASE SwitchSet(r) /\ ~Enrolled(req[r].user)
    BY <1>1, <2>3 DEF SwitchSet
  <2> QED BY <1>13, <2>1, <2>2, <2>3
<1>14. ASSUME NEW r \in Requests,
              \/ SatisfyMfa(r) \/ IncrementAttempts(r) \/ Lockout(r)
              \/ SetEnrollmentSecret(r) \/ CompleteEnrollment(r) \/ ConsumeChallenge(r)
       PROVE  Grows
  <2> DEFINE k == req[r].challenge
  <2>1. k \in Challenges /\ row[k] \in Row
    BY <1>14 DEF SatisfyMfa, IncrementAttempts, Lockout, SetEnrollmentSecret,
                 CompleteEnrollment, ConsumeChallenge, Typed, TypeOK, RequestKnown
  <2>2. CASE SatisfyMfa(r)
    BY <1>12, <2>1, <2>2 DEF SatisfyMfa, Row
  <2>3. CASE IncrementAttempts(r)
    <3>1. CASE req[r].via = "enrollment"
      BY <1>12, <2>1, <2>3, <3>1 DEF IncrementAttempts, Row
    <3>2. CASE req[r].via # "enrollment"
      BY <1>12, <2>1, <2>3, <3>2 DEF IncrementAttempts, Row
    <3> QED BY <3>1, <3>2
  <2>4. CASE Lockout(r)
    BY <1>1, <1>12, <2>1, <2>4 DEF Lockout, Row
  <2>5. CASE SetEnrollmentSecret(r)
    BY <1>12, <2>1, <2>5 DEF SetEnrollmentSecret, Row
  <2>6. CASE CompleteEnrollment(r)
    BY <1>12, <2>1, <2>6 DEF CompleteEnrollment, Row
  <2>7. CASE ConsumeChallenge(r)
    BY <1>1, <1>12, <2>1, <2>7 DEF ConsumeChallenge, Row
  <2> QED BY <1>14, <2>2, <2>3, <2>4, <2>5, <2>6, <2>7
<1>5. ASSUME NEW r \in Requests, CheckTotpCode(r) \/ VerifyAssertion(r) PROVE Grows
  BY <1>1, <1>5 DEF CheckTotpCode, VerifyAssertion, Prove
<1>6. ASSUME NEW r \in Requests, UpdateLastUsedWindow(r) PROVE Grows
  <2>1. \A u \in Users : totp'[u].secret = totp[u].secret
    BY <1>6 DEF UpdateLastUsedWindow, Typed, TypeOK, Credential
  <2> QED BY <1>6, <2>1 DEF UpdateLastUsedWindow, Grows, Enrolled
<1>7. ASSUME NEW r \in Requests, PersistCredential(r) PROVE Grows
  <2>1. \A u \in Users : Enrolled(u) => totp'[u] = totp[u]
    BY <1>7 DEF PersistCredential, Typed, TypeOK
  <2> QED BY <1>7, <2>1 DEF PersistCredential, Grows, Enrolled
<1>8. CASE Environment
  <2>1. CASE PatchPolicy
    BY <2>1 DEF PatchPolicy, Grows, Enrolled
  <2> QED BY <1>1, <1>8, <2>1 DEF Environment, Tick, Expire, Crash
<1>9. CASE UNCHANGED vars
  BY <1>1, <1>9 DEF vars
<1>10. ASSUME NEW r \in Requests, Arrive(r) PROVE Grows
  BY <1>2, <1>3, <1>10 DEF Arrive
<1>11. ASSUME NEW r \in Requests, Continue(r) PROVE Grows
  BY <1>4, <1>5, <1>6, <1>7, <1>11, <1>13, <1>14 DEF Continue
<1> QED BY <1>8, <1>9, <1>10, <1>11 DEF Next

LEMMA RowsStayProved ==
    ASSUME Typed, PendingRowsAreProved, Grows, NEW k \in Challenges,
           \A c \in Challenges \ {k} : row'[c] = row[c],
           RowProved(k)'
    PROVE  PendingRowsAreProved'
<1>1. \A c \in Challenges : RowProved(c)
  BY DEF PendingRowsAreProved, RowProved
<1>2. \A c \in Challenges \ {k} : RowProved(c)'
  BY <1>1 DEF RowProved, Proved, Grows, Typed, RowKnown, PendingStates
<1> QED BY <1>2 DEF PendingRowsAreProved, RowProved

\* A row that keeps what was proved about it may be consumed or counted on.
LEMMA RowsUntouched ==
    ASSUME Typed, PendingRowsAreProved, Grows,
           \A c \in Challenges :
              /\ row'[c].mfaState = row[c].mfaState /\ row'[c].user = row[c].user
              /\ row'[c].method = row[c].method
              /\ row[c].consumed => row'[c].consumed
    PROVE  PendingRowsAreProved'
BY DEF PendingRowsAreProved, Proved, Grows, Typed, RowKnown, PendingStates

LEMMA OthersStayProved ==
    ASSUME Typed, Evidence, Grows, NEW r \in Requests, NEW new, Become(r, new)
    PROVE  \A q \in Requests \ {r} : RequestProved(req[q])'
<1>1. \A q \in Requests \ {r} : req'[q] = req[q]
  BY DEF Become, Typed, TypeOK
<1> QED BY <1>1, ZenonT(60) DEF Evidence, RequestProved, Proved, Grows, Typed, RequestKnown

LEMMA EvidenceFrame ==
    ASSUME Typed, Typed', Evidence, Grows, NEW r \in Requests, NEW new, Become(r, new),
           RequestProved(req[r])', PendingRowsAreProved', UNCHANGED <<sessions, codes>>
    PROVE  Evidence'
<1>2. \A q \in Requests \ {r} : RequestProved(req[q])'
  BY OthersStayProved
<1>3. SessionsAreProved'
  BY DEF Evidence, SessionsAreProved, Proved, Grows
<1> QED BY <1>2, <1>3 DEF Evidence, Grows

LEMMA EvidenceInit == Init => Evidence
<1> SUFFICES ASSUME Init PROVE Evidence
  OBVIOUS
<1>1. \A r \in Requests : RequestProved(req[r])
  BY DEF Init, RequestProved, Idle, Owning, BeforeSession
<1>2. PendingRowsAreProved
  BY DEF Init, PendingRowsAreProved, FreshRow
<1>3. SessionsAreProved
  BY DEF Init, SessionsAreProved
<1> QED BY <1>1, <1>2, <1>3 DEF Evidence

LEMMA EvidenceNext == Typed /\ Ownership /\ Evidence /\ [Next]_vars => Evidence'
<1> SUFFICES ASSUME Typed, Ownership, Evidence, [Next]_vars PROVE Evidence'
  OBVIOUS
<1> USE DEF clock, policy, nonces, outcome
<1>1. Typed' /\ Grows
  BY TypedNext, KnowledgeGrows
\* Steps that leave the rows, sessions and codes alone.
<1>2. ASSUME NEW r \in Requests, NEW new, Become(r, new), RequestProved(req[r])',
             UNCHANGED <<row, sessions, codes>>
      PROVE  Evidence'
  BY <1>1, <1>2, RowsUntouched, EvidenceFrame DEF Evidence
<1>3. \A r \in Requests : Finish(r) => RequestProved(req[r])' /\ Become(r, Idle)
  BY DEF Finish, Become, RequestProved, Idle, Owning, BeforeSession, Typed, TypeOK
<1>4. ASSUME NEW r \in Requests, Finish(r), UNCHANGED <<row, sessions, codes>>
      PROVE  Evidence'
  BY <1>2, <1>3, <1>4
\* Going on to a step that asks for nothing new.
<1>5. ASSUME NEW r \in Requests, req[r].pc # "idle",
             NEW pc \in {"credentials", "increment", "recount", "lockout"}, Goto(r, pc)
      PROVE  RequestProved(req[r])' /\ \E new : Become(r, new)
  <2>1. /\ req'[r].challenge = req[r].challenge /\ req'[r].user = req[r].user
        /\ req'[r].method = req[r].method /\ req'[r].pc = pc
    BY <1>5 DEF Goto, Become, Typed, TypeOK, Request
  <2>2. Proved(req[r].challenge, req[r].user, req[r].method)'
    BY <1>1, <1>5, <2>1 DEF Evidence, RequestProved, Proved, Grows
  <2>3. req[r].challenge \in Challenges /\ req'[r].via = req[r].via
    BY <1>5 DEF Goto, Become, Typed, TypeOK, Request, RequestKnown
  <2>4. req'[r].via # "none" => row'[req'[r].challenge].mfaState # "none"
    BY <1>1, <1>5, <2>1, <2>3 DEF Evidence, RequestProved, Grows
  <2> QED BY <1>5, <2>1, <2>2, <2>4 DEF RequestProved, Proved, Owning, BeforeSession, Goto
\* Owners, and those about to consume, keep what they have shown.
<1>6. ASSUME NEW r \in Requests, req[r].pc \in {"consume"} \cup Owning,
             NEW pc \in Owning, Goto(r, pc),
             pc \in {"window", "satisfy", "persist", "enrolled"} => req[r].via # "none"
      PROVE  RequestProved(req[r])' /\ \E new : Become(r, new)
  <2>1. /\ req'[r].challenge = req[r].challenge /\ req'[r].user = req[r].user
        /\ req'[r].method = req[r].method /\ req'[r].via = req[r].via /\ req'[r].pc = pc
    BY <1>6 DEF Goto, Become, Typed, TypeOK, Request
  <2>2. RequestProved(req[r]) /\ req[r].pc # "idle"
    BY <1>6 DEF Evidence, Owning, BeforeSession
  <2>3. Proved(req[r].challenge, req[r].user, req[r].method)'
    BY <1>1, <2>1, <2>2 DEF RequestProved, Proved, Grows
  <2>4. /\ req'[r].via \in {"totp", "enrollment"} =>
             Proved(req[r].challenge, req[r].user, req[r].via)'
        /\ req'[r].via = "passkey_step_up" =>
             \E v \in PasskeyUsers : Proved(req[r].challenge, v, req[r].via)'
    BY <1>1, <1>6, <2>1, <2>2 DEF RequestProved, Proved, Grows
  <2>5. req'[r].via # "none" => row'[req'[r].challenge].mfaState # "none"
    BY <1>1, <2>1, <2>2 DEF RequestProved, Grows, Typed, RequestKnown
  <2> QED BY <1>6, <2>1, <2>3, <2>4, <2>5 DEF RequestProved, Proved, Owning, BeforeSession, Goto
\* A handler that loads a pending row takes over what is proved about it.
<1>7. ASSUME NEW c \in Challenges, row[c].mfaState \in PendingStates, UNCHANGED row
      PROVE  Proved(c, row[c].user, row[c].method)'
  BY <1>1, <1>7 DEF Evidence, PendingRowsAreProved, PendingStates, Proved, Grows
<1>8. ASSUME NEW r \in Requests, NEW c \in Challenges, row[c].mfaState \in PendingStates,
             NEW pc, NEW via, NEW new, Become(r, new), UNCHANGED <<row, sessions, codes>>,
             new.pc = pc, new.via = via, new.challenge = c,
             new.user = row[c].user, new.method = row[c].method,
             \/ pc \in {"switch", "mint", "secret", "increment"}
             \/ pc = "verify" /\ via = "totp"
             \/ pc = "nonce" /\ via = "passkey_step_up"
             \/ pc = "consume" /\ via = "enrollment" /\ Proved(c, row[c].user, via)'
      PROVE  Evidence'
  <2>1. req'[r] = new
    BY <1>8 DEF Become, Typed, TypeOK
  <2>2. row'[c].mfaState # "none"
    BY <1>8 DEF PendingStates
  <2>3. Proved(c, row[c].user, row[c].method)'
    BY <1>7, <1>8
  <2>4. RequestProved(req[r])'
    BY <1>8, <2>1, <2>2, <2>3 DEF RequestProved, Proved, Owning, BeforeSession
  <2> QED BY <1>2, <1>8, <2>4
<1>9. ASSUME NEW r \in Requests, NEW c \in Challenges, NEW u \in Users, NEW m \in Methods,
             FirstFactor(r, c, u, m)
      PROVE  Evidence'
  <2>1. /\ req'[r].pc = "policy" /\ req'[r].challenge = c /\ req'[r].user = u
        /\ req'[r].method = m /\ req'[r].via = "none"
    BY <1>9 DEF FirstFactor, Become, Idle, Typed, TypeOK
  <2>2. Proved(c, u, m)'
    BY <1>9 DEF FirstFactor, Prove, Proved
  <2>3. RequestProved(req[r])'
    BY <2>1, <2>2 DEF RequestProved, Proved, Owning, BeforeSession
  <2> QED BY <1>2, <1>9, <2>3 DEF FirstFactor
<1>10. ASSUME NEW r \in Requests, ReadPolicy(r) PROVE Evidence'
  <2>1. CASE mfaRequired
    <3>1. Goto(r, "credentials") /\ req[r].pc # "idle"
      BY <1>10, <2>1 DEF ReadPolicy
    <3> QED BY <1>2, <1>5, <1>10, <3>1 DEF ReadPolicy
  <2>2. CASE ~mfaRequired
    <3>1. /\ req'[r].challenge = req[r].challenge /\ req'[r].user = req[r].user
          /\ req'[r].method = req[r].method /\ req'[r].via = "none"
          /\ req'[r].pc = "consume"
      BY <1>10, <2>2 DEF ReadPolicy, Goto, Become, Typed, TypeOK, Request, Evidence,
                         RequestProved
    <3>2. Proved(req[r].challenge, req[r].user, req[r].method)'
      BY <1>1, <1>10, <2>2, <3>1 DEF ReadPolicy, Evidence, RequestProved, Proved, Grows
    <3>3. RequestProved(req[r])'
      BY <3>1, <3>2 DEF RequestProved, Proved, Owning, BeforeSession
    <3> QED BY <1>2, <1>10, <3>3 DEF ReadPolicy, Goto
  <2> QED BY <2>1, <2>2
<1>11. ASSUME NEW r \in Requests, ReadCredentials(r) PROVE Evidence'
  <2> PICK t \in PendingStates :
         /\ Become(r, [req[r] EXCEPT !.pc = "pend", !.target = t])
         /\ t = "pending_totp" => Enrolled(req[r].user)
    BY <1>11 DEF ReadCredentials, PendingStates
  <2>1. /\ req'[r].challenge = req[r].challenge /\ req'[r].user = req[r].user
        /\ req'[r].method = req[r].method /\ req'[r].target = t /\ req'[r].pc = "pend"
    BY DEF Become, Typed, TypeOK, Request
  <2>2. /\ Proved(req[r].challenge, req[r].user, req[r].method)'
        /\ t = "pending_totp" => Enrolled(req[r].user)'
    BY <1>1, <1>11, <2>1
       DEF ReadCredentials, Evidence, RequestProved, Proved, Grows, Typed, RequestKnown,
           Enrolled
  <2>3. req[r].challenge \in Challenges /\ req'[r].via = req[r].via
    BY <1>11 DEF ReadCredentials, Become, Typed, TypeOK, Request, RequestKnown
  <2>4. req'[r].via # "none" => row'[req'[r].challenge].mfaState # "none"
    BY <1>1, <1>11, <2>1, <2>3 DEF ReadCredentials, Evidence, RequestProved, Grows
  <2>5. RequestProved(req[r])'
    BY <2>1, <2>2, <2>4 DEF RequestProved, Proved, Owning, BeforeSession
  <2> QED BY <1>2, <1>11, <2>5 DEF ReadCredentials
<1>12. ASSUME NEW r \in Requests, CheckTotpCode(r) PROVE Evidence'
  <2>1. CASE Finish(r)
    BY <1>4, <1>12, <2>1 DEF CheckTotpCode
  <2>2. CASE Goto(r, "increment")
    BY <1>2, <1>5, <1>12, <2>2 DEF CheckTotpCode
  <2>3. CASE /\ \E w \in AcceptedWindows(totp[req[r].user].last) :
                  Become(r, [req[r] EXCEPT !.pc = "consume", !.window = w,
                                           !.secret = totp[req[r].user].secret])
             /\ Prove(req[r].challenge, req[r].user, "totp")
    <3>1. /\ req'[r].challenge = req[r].challenge /\ req'[r].user = req[r].user
          /\ req'[r].method = req[r].method /\ req'[r].via = req[r].via
          /\ req'[r].pc = "consume" /\ \E new : Become(r, new)
      <4> PICK w : Become(r, [req[r] EXCEPT !.pc = "consume", !.window = w,
                                            !.secret = totp[req[r].user].secret])
        BY <2>3
      <4> QED BY DEF Become, Typed, TypeOK, Request
    <3>2. /\ Proved(req[r].challenge, req[r].user, req[r].method)'
          /\ Proved(req[r].challenge, req[r].user, "totp")'
          /\ req'[r].via = "totp"
          /\ row'[req'[r].challenge].mfaState # "none"
      BY <1>1, <1>12, <2>3, <3>1
         DEF CheckTotpCode, Evidence, RequestProved, Proved, Prove, Grows, Typed, RequestKnown
    <3>3. RequestProved(req[r])'
      BY <3>1, <3>2 DEF RequestProved, Proved, Owning, BeforeSession
    <3> QED BY <1>2, <1>12, <3>1, <3>3 DEF CheckTotpCode
  <2> QED BY <1>12, <2>1, <2>2, <2>3 DEF CheckTotpCode
<1>13. ASSUME NEW r \in Requests, NEW c \in Challenges, TotpVerify(r, c) PROVE Evidence'
  BY <1>8, <1>13 DEF TotpVerify, Loaded, Idle, PendingStates
<1>14. ASSUME NEW r \in Requests, NEW c \in Challenges, SwitchToTotp(r, c) PROVE Evidence'
  BY <1>8, <1>14 DEF SwitchToTotp, Loaded, Idle, PendingStates
<1>15. ASSUME NEW r \in Requests, NEW c \in Challenges, NEW n \in Nonces,
              PasskeyStart(r, c, n)
       PROVE  Evidence'
  BY <1>8, <1>15 DEF PasskeyStart, Loaded, Idle, PendingStates
<1>16. ASSUME NEW r \in Requests, NEW c \in Challenges, NEW n \in Nonces,
              PasskeyFinish(r, c, n)
       PROVE  Evidence'
  BY <1>8, <1>16 DEF PasskeyFinish, Loaded, Idle, PendingStates
<1>17. ASSUME NEW r \in Requests, NEW c \in Challenges, EnrollStart(r, c) PROVE Evidence'
  BY <1>8, <1>17 DEF EnrollStart, Loaded, Idle, PendingStates
<1>18. ASSUME NEW r \in Requests, NEW c \in Challenges, EnrollFinish(r, c) PROVE Evidence'
  <2> DEFINE loaded == [Loaded(c, "consume", "enrollment") EXCEPT !.secret = row[c].secret]
  <2>1. CASE /\ \E w \in AcceptedWindows(0) : Become(r, [loaded EXCEPT !.window = w])
             /\ Prove(c, row[c].user, "enrollment")
    <3> PICK w \in AcceptedWindows(0) : Become(r, [loaded EXCEPT !.window = w])
      BY <2>1
    <3> DEFINE new == [loaded EXCEPT !.window = w]
    <3>1. /\ new.pc = "consume" /\ new.via = "enrollment" /\ new.challenge = c
          /\ new.user = row[c].user /\ new.method = row[c].method
      BY DEF Loaded, Idle
    <3>2. Proved(c, row[c].user, "enrollment")'
      BY <1>18, <2>1 DEF EnrollFinish, Prove, Proved
    <3> HIDE DEF new
    <3>3. Become(r, new)
      BY DEF new
    <3> QED BY <1>8, <1>18, <3>1, <3>2, <3>3 DEF EnrollFinish, PendingStates
  <2>2. CASE Become(r, [loaded EXCEPT !.pc = "increment"])
    <3> DEFINE new == [loaded EXCEPT !.pc = "increment"]
    <3>1. /\ new.pc = "increment" /\ new.via = "enrollment" /\ new.challenge = c
          /\ new.user = row[c].user /\ new.method = row[c].method
      BY DEF Loaded, Idle
    <3>2. Become(r, new)
      BY <2>2
    <3> HIDE DEF new
    <3> QED BY <1>8, <1>18, <3>1, <3>2 DEF EnrollFinish, PendingStates
  <2> QED BY <1>18, <2>1, <2>2 DEF EnrollFinish
<1>19. ASSUME NEW r \in Requests, ReadAttempts(r) \/ CreateNonce(r) PROVE Evidence'
  <2>1. CASE Finish(r)
    BY <1>4, <1>19, <2>1 DEF ReadAttempts, CreateNonce
  <2>2. CASE Goto(r, "lockout") /\ ReadAttempts(r)
    BY <1>2, <1>5, <2>2 DEF ReadAttempts
  <2> QED BY <1>19, <2>1, <2>2 DEF ReadAttempts, CreateNonce
<1>20. ASSUME NEW r \in Requests, ConsumeNonce(r) PROVE Evidence'
  <2>1. CASE Finish(r)
    BY <1>4, <1>20, <2>1 DEF ConsumeNonce
  <2>2. CASE Goto(r, "assert")
    <3>1. /\ req'[r].challenge = req[r].challenge /\ req'[r].user = req[r].user
          /\ req'[r].method = req[r].method /\ req'[r].via = req[r].via
          /\ req'[r].pc = "assert"
      BY <2>2 DEF Goto, Become, Typed, TypeOK, Request
    <3>2. /\ Proved(req[r].challenge, req[r].user, req[r].method)'
          /\ req'[r].via = "passkey_step_up"
          /\ row'[req'[r].challenge].mfaState # "none"
      BY <1>1, <1>20, <3>1
         DEF ConsumeNonce, Evidence, RequestProved, Proved, Grows, Typed, RequestKnown
    <3>3. RequestProved(req[r])'
      BY <3>1, <3>2 DEF RequestProved, Proved, Owning, BeforeSession
    <3> QED BY <1>2, <1>20, <2>2, <3>3 DEF ConsumeNonce, Goto
  <2> QED BY <1>20, <2>1, <2>2 DEF ConsumeNonce
<1>21. ASSUME NEW r \in Requests, VerifyAssertion(r) PROVE Evidence'
  <2>1. CASE Goto(r, "increment")
    BY <1>2, <1>5, <1>21, <2>1 DEF VerifyAssertion
  <2>2. CASE Goto(r, "consume") /\ \E v \in PasskeyUsers :
                                     Prove(req[r].challenge, v, "passkey_step_up")
    <3>1. /\ req'[r].challenge = req[r].challenge /\ req'[r].user = req[r].user
          /\ req'[r].method = req[r].method /\ req'[r].via = req[r].via
          /\ req'[r].pc = "consume"
      BY <2>2 DEF Goto, Become, Typed, TypeOK, Request
    <3>2. /\ Proved(req[r].challenge, req[r].user, req[r].method)'
          /\ req'[r].via = "passkey_step_up"
          /\ \E v \in PasskeyUsers : Proved(req[r].challenge, v, "passkey_step_up")'
          /\ row'[req'[r].challenge].mfaState # "none"
      BY <1>1, <1>21, <2>2, <3>1
         DEF VerifyAssertion, Evidence, RequestProved, Proved, Prove, Grows, Typed,
             RequestKnown
    <3>3. RequestProved(req[r])'
      BY <3>1, <3>2 DEF RequestProved, Proved, Owning, BeforeSession
    <3> QED BY <1>2, <1>21, <2>2, <3>3 DEF VerifyAssertion, Goto
  <2> QED BY <1>21, <2>1, <2>2 DEF VerifyAssertion
\* Steps that write a row.
<1>22. ASSUME NEW r \in Requests, NEW new, Become(r, new), RequestProved(req[r])',
              UNCHANGED <<sessions, codes>>,
              NEW k \in Challenges, NEW w, row' = [row EXCEPT ![k] = w],
              w.mfaState = row[k].mfaState, w.user = row[k].user,
              w.method = row[k].method, row[k].consumed => w.consumed
       PROVE  Evidence'
  <2>1. \A c \in Challenges :
           /\ row'[c].mfaState = row[c].mfaState /\ row'[c].user = row[c].user
           /\ row'[c].method = row[c].method
           /\ row[c].consumed => row'[c].consumed
    BY <1>22 DEF Typed, TypeOK
  <2>2. PendingRowsAreProved'
    BY <1>1, <2>1, RowsUntouched DEF Evidence
  <2> QED BY <1>1, <1>22, <2>2, EvidenceFrame
<1>23. ASSUME NEW r \in Requests, IncrementAttempts(r) PROVE Evidence'
  <2> DEFINE k == req[r].challenge
  <2>1. k \in Challenges /\ row[k] \in Row /\ Goto(r, "recount") /\ req[r].pc # "idle"
    BY <1>23 DEF IncrementAttempts, Typed, TypeOK, RequestKnown
  <2>2. CASE req[r].via = "enrollment"
    BY <1>5, <1>22, <1>23, <2>1, <2>2 DEF IncrementAttempts, Row
  <2>3. CASE req[r].via # "enrollment"
    BY <1>5, <1>22, <1>23, <2>1, <2>3 DEF IncrementAttempts, Row
  <2> QED BY <2>2, <2>3
<1>24. ASSUME NEW r \in Requests, Lockout(r) \/ SetEnrollmentSecret(r) PROVE Evidence'
  <2> DEFINE k == req[r].challenge
  <2>1. k \in Challenges /\ row[k] \in Row /\ Finish(r)
    BY <1>24 DEF Lockout, SetEnrollmentSecret, Typed, TypeOK, RequestKnown
  <2>2. CASE Lockout(r) /\ Active(k)
    BY <1>3, <1>22, <2>1, <2>2 DEF Lockout, Row
  <2>3. CASE Lockout(r) /\ ~Active(k)
    BY <1>4, <2>1, <2>3 DEF Lockout
  <2>4. CASE SetEnrollmentSecret(r)
    BY <1>3, <1>22, <2>1, <2>4 DEF SetEnrollmentSecret, Row
  <2> QED BY <1>24, <2>2, <2>3, <2>4
<1>25. ASSUME NEW r \in Requests, ConsumeChallenge(r) PROVE Evidence'
  <2> DEFINE k == req[r].challenge
             pc == NextAfterConsume(req[r].via)
  <2>1. k \in Challenges /\ row[k] \in Row
    BY <1>25 DEF ConsumeChallenge, Typed, TypeOK, RequestKnown
  <2>2. CASE ~Active(k)
    BY <1>4, <1>25, <2>2 DEF ConsumeChallenge
  <2>3. CASE Active(k)
    <3>1. /\ Goto(r, pc) /\ UNCHANGED <<sessions, codes>>
          /\ row' = [row EXCEPT ![k] = [row[k] EXCEPT !.consumed = TRUE]]
      BY <1>25, <2>3 DEF ConsumeChallenge
    <3>2. pc \in Owning /\ (pc \in {"window", "satisfy", "persist", "enrolled"} => req[r].via # "none")
      BY DEF NextAfterConsume, Owning, BeforeSession
    <3>3. RequestProved(req[r])' /\ \E new : Become(r, new)
      BY <1>6, <1>25, <3>1, <3>2 DEF ConsumeChallenge
    <3> QED BY <1>22, <2>1, <3>1, <3>3 DEF Row
  <2> QED BY <2>2, <2>3
\* The owner writes to its own bookkeeping.
<1>26. ASSUME NEW r \in Requests, UpdateLastUsedWindow(r) \/ PersistCredential(r)
       PROVE  Evidence'
  <2>1. req[r].pc \in {"window", "persist"} /\ req[r].via # "none"
    BY <1>26 DEF UpdateLastUsedWindow, PersistCredential, Evidence, RequestProved
  <2> PICK pc \in {"satisfy", "enrolled"} : Goto(r, pc)
    BY <1>26 DEF UpdateLastUsedWindow, PersistCredential
  <2>2. RequestProved(req[r])' /\ \E new : Become(r, new)
    BY <1>6, <2>1 DEF Owning, BeforeSession
  <2> QED BY <1>2, <1>26, <2>2 DEF UpdateLastUsedWindow, PersistCredential
<1>27. ASSUME NEW r \in Requests, SatisfyMfa(r) \/ CompleteEnrollment(r) PROVE Evidence'
  <2> PICK k \in Challenges : k = req[r].challenge
    BY <1>27 DEF SatisfyMfa, CompleteEnrollment, Typed, RequestKnown
  <2>1. /\ k \in Challenges /\ row[k] \in Row /\ Goto(r, "session")
        /\ req[r].pc \in BeforeSession /\ Owns(r, k)
        /\ UNCHANGED <<sessions, codes>>
    BY <1>27 DEF SatisfyMfa, CompleteEnrollment, Typed, TypeOK, RequestKnown, BeforeSession,
                 Owning, Owns
  <2>2. row[k].consumed /\ row[k].mfaState # "none"
    <3>1. row[k].consumed
      BY <2>1 DEF Ownership
    <3>2. req[r].via # "none" /\ req[r].pc # "idle"
      BY <1>27 DEF SatisfyMfa, CompleteEnrollment, Evidence, RequestProved
    <3> QED BY <3>1, <3>2 DEF Evidence, RequestProved
  <2>3. /\ row'[k].mfaState = "satisfied" /\ row'[k].user = row[k].user
        /\ row'[k].method = row[k].method /\ row'[k].consumed = row[k].consumed
        /\ \A c \in Challenges \ {k} : row'[c] = row[c]
    <3>1. CASE SatisfyMfa(r)
      BY <2>1, <3>1 DEF SatisfyMfa, Typed, TypeOK, Row
    <3>2. CASE CompleteEnrollment(r)
      BY <2>1, <3>2 DEF CompleteEnrollment, Typed, TypeOK, Row
    <3> QED BY <1>27, <3>1, <3>2
  <2>4. RowProved(k)'
    BY <1>1, <2>1, <2>2, <2>3 DEF RowProved, Evidence, PendingRowsAreProved, Proved, Grows
  <2>5. PendingRowsAreProved'
    BY <1>1, <2>1, <2>3, <2>4, RowsStayProved DEF Evidence
  <2>6. RequestProved(req[r])' /\ \E new : Become(r, new)
    BY <1>6, <2>1 DEF Owning, BeforeSession
  <2> QED BY <1>1, <2>1, <2>5, <2>6, EvidenceFrame
\* What setMfaState puts in the row, the request has shown.
<1>28. ASSUME NEW r \in Requests, Finish(r), UNCHANGED <<sessions, codes>>,
              req[r].pc # "idle", NEW state \in PendingStates,
              state = "pending_totp" => Enrolled(req[r].user),
              row' = [row EXCEPT ![req[r].challenge] =
                         [@ EXCEPT !.user = req[r].user, !.mfaState = state,
                                   !.method = req[r].method]]
       PROVE  Evidence'
  <2> PICK k \in Challenges : k = req[r].challenge
    BY <1>28 DEF Typed, RequestKnown
  <2>1. k \in Challenges /\ row[k] \in Row /\ req[r].user \in Users
    BY <1>28 DEF Typed, TypeOK, RequestKnown
  <2>2. /\ row'[k].mfaState = state /\ row'[k].user = req[r].user
        /\ row'[k].method = req[r].method
        /\ \A c \in Challenges \ {k} : row'[c] = row[c]
    BY <1>28, <2>1 DEF Typed, TypeOK, Row
  <2>3. RowProved(k)'
    BY <1>1, <1>28, <2>1, <2>2
    DEF RowProved, Evidence, RequestProved, Proved, Grows, Enrolled, PendingStates
  <2>4. PendingRowsAreProved'
    BY <1>1, <2>1, <2>2, <2>3, RowsStayProved DEF Evidence
  <2> QED BY <1>1, <1>3, <1>28, <2>4, EvidenceFrame
<1>29. ASSUME NEW r \in Requests, SetMfaState(r) PROVE Evidence'
  <2>1. /\ req[r].target \in PendingStates
        /\ req[r].target = "pending_totp" => Enrolled(req[r].user)
    BY <1>29 DEF SetMfaState, Evidence, RequestProved
  <2> QED BY <1>28, <1>29, <2>1 DEF SetMfaState
<1>30. ASSUME NEW r \in Requests, SwitchSet(r) PROVE Evidence'
  <2>1. CASE Enrolled(req[r].user)
    BY <1>28, <1>30, <2>1 DEF SwitchSet, PendingStates
  <2>2. CASE ~Enrolled(req[r].user)
    BY <1>4, <1>30, <2>2 DEF SwitchSet
  <2> QED BY <2>1, <2>2
\* The owner's session and code are made of what the owner has shown.
<1>31. ASSUME NEW r \in Requests, NEW new, Become(r, new), RequestProved(req[r])',
              UNCHANGED row, SessionsAreProved'
       PROVE  Evidence'
  <2>2. \A q \in Requests \ {r} : RequestProved(req[q])'
    BY <1>1, <1>31, OthersStayProved
  <2>3. PendingRowsAreProved'
    BY <1>1, <1>31, RowsUntouched DEF Evidence
  <2> QED BY <1>1, <1>31, <2>2, <2>3 DEF Evidence, Grows
<1>32. ASSUME NEW r \in Requests, CreateSession(r) PROVE Evidence'
  <2> DEFINE s == [user |-> req[r].user, via |-> req[r].via,
                   secret |-> req[r].secret, window |-> req[r].window]
  <2> PICK k \in Challenges : k = req[r].challenge
    BY <1>32 DEF CreateSession, Typed, RequestKnown
  <2>1. RequestProved(req[r])' /\ \E new : Become(r, new)
    BY <1>6, <1>32 DEF CreateSession, Owning, BeforeSession
  <2>2. /\ \E m \in Methods : Proved(k, req[r].user, m)
        /\ req[r].via \in {"totp", "enrollment"} => Proved(k, req[r].user, req[r].via)
        /\ req[r].via = "passkey_step_up" => \E v \in PasskeyUsers : Proved(k, v, req[r].via)
    BY <1>32 DEF CreateSession, Evidence, RequestProved, Owning, BeforeSession, Typed,
                 RequestKnown
  <2>3. s.user = req[r].user /\ s.via = req[r].via
    OBVIOUS
  <2> HIDE DEF s
  <2>4. UNCHANGED <<row, codes, passed>>
    BY <1>32 DEF CreateSession
  <2>5. /\ sessions[k] = <<>>
        /\ sessions' = [sessions EXCEPT ![k] = Append(@, s)]
    BY <1>32 DEF CreateSession, Ownership, Owns, Owning, BeforeSession, s
  <2>6. sessions' = [sessions EXCEPT ![k] = <<s>>]
    BY <2>5 DEF Typed, TypeOK
  <2>7. \A c \in Challenges : sessions'[c] = IF c = k THEN <<s>> ELSE sessions[c]
    BY <2>6 DEF Typed, TypeOK
  <2>8. \A i \in DOMAIN <<s>> : <<s>>[i] = s
    OBVIOUS
  <2>9. SessionsAreProved'
    <3> SUFFICES ASSUME NEW c \in Challenges
                 PROVE  /\ \A i \in DOMAIN sessions'[c] :
                              LET t == sessions'[c][i] IN
                              /\ \E m \in Methods : Proved(c, t.user, m)
                              /\ t.via \in {"totp", "enrollment"} => Proved(c, t.user, t.via)
                              /\ t.via = "passkey_step_up" =>
                                   \E v \in PasskeyUsers : Proved(c, v, t.via)
                        /\ \A i \in DOMAIN codes[c] :
                             Proved(c, codes[c][i].user, codes[c][i].method)
      BY <2>4 DEF SessionsAreProved, Proved
    <3>1. CASE c = k
      BY <2>2, <2>3, <2>7, <2>8, <3>1 DEF Evidence, SessionsAreProved
    <3>2. CASE c # k
      BY <2>7, <3>2 DEF Evidence, SessionsAreProved
    <3> QED BY <3>1, <3>2
  <2> QED BY <1>31, <2>1, <2>4, <2>9
<1>33. ASSUME NEW r \in Requests, Authorize(r) PROVE Evidence'
  <2> DEFINE d == [user |-> req[r].user, method |-> req[r].method]
  <2> PICK k \in Challenges : k = req[r].challenge
    BY <1>33 DEF Authorize, Typed, RequestKnown
  <2>1. RequestProved(req[r])' /\ Become(r, Idle)
    BY <1>3, <1>33 DEF Authorize
  <2>2. Proved(k, req[r].user, req[r].method)
    BY <1>33 DEF Authorize, Evidence, RequestProved
  <2>3. d.user = req[r].user /\ d.method = req[r].method
    OBVIOUS
  <2> HIDE DEF d
  <2>4. UNCHANGED <<row, sessions, passed>>
    BY <1>33 DEF Authorize
  <2>6. CASE UNCHANGED codes
    BY <1>4, <1>33, <2>4, <2>6 DEF Authorize
  <2>7. CASE codes' = [codes EXCEPT ![k] = Append(@, d)]
    <3>1. codes[k] = <<>>
      BY <1>33 DEF Authorize, Ownership, Owns, Owning
    <3>2. codes' = [codes EXCEPT ![k] = <<d>>]
      BY <2>7, <3>1 DEF Typed, TypeOK
    <3>3. \A c \in Challenges : codes'[c] = IF c = k THEN <<d>> ELSE codes[c]
      BY <3>2 DEF Typed, TypeOK
    <3>4. \A i \in DOMAIN <<d>> : <<d>>[i] = d
      OBVIOUS
    <3>5. SessionsAreProved'
      BY <2>2, <2>3, <2>4, <3>3, <3>4 DEF Evidence, SessionsAreProved, Proved
    <3> QED BY <1>31, <2>1, <2>4, <3>5
  <2> QED BY <1>33, <2>6, <2>7 DEF Authorize, d
<1>34. CASE Environment
  <2>1. ASSUME NEW r \in Requests, Crash(r) PROVE Evidence'
    BY <1>4, <2>1 DEF Crash
  <2>2. CASE UNCHANGED <<row, totp, sessions, codes, req, passed>>
    <3>1. \A r \in Requests : RequestProved(req[r])'
      BY <1>1, <2>2 DEF Evidence, RequestProved, Proved, Enrolled, Grows
    <3> QED BY <1>1, <2>2, <3>1
            DEF Evidence, PendingRowsAreProved, SessionsAreProved, Proved,
                Enrolled, Grows
  <2> QED BY <1>34, <2>1, <2>2 DEF Environment, Tick, PatchPolicy, Expire
<1>35. CASE UNCHANGED vars
  <2>1. \A r \in Requests : RequestProved(req[r])'
    BY <1>35 DEF vars, Evidence, RequestProved, Proved, Enrolled
  <2> QED BY <1>35, <2>1
          DEF vars, Evidence, PendingRowsAreProved, SessionsAreProved, Proved,
              Enrolled
<1>36. ASSUME NEW r \in Requests, Arrive(r) PROVE Evidence'
  BY <1>9, <1>13, <1>14, <1>15, <1>16, <1>17, <1>18, <1>36 DEF Arrive
<1>37. ASSUME NEW r \in Requests, Continue(r) PROVE Evidence'
  BY <1>10, <1>11, <1>12, <1>19, <1>20, <1>21, <1>23, <1>24, <1>25, <1>26, <1>27, <1>29,
     <1>30, <1>32, <1>33, <1>37
  DEF Continue
<1> QED BY <1>34, <1>35, <1>36, <1>37 DEF Next

LEMMA Invariants == Spec => [](Typed /\ Ownership /\ Evidence)
<1>1. Init => Typed /\ Ownership /\ Evidence
  BY TypedInit, OwnershipInit, EvidenceInit
<1>2. Typed /\ Ownership /\ Evidence /\ [Next]_vars => Typed' /\ Ownership' /\ Evidence'
  BY TypedNext, OwnershipNext, EvidenceNext
<1> QED BY <1>1, <1>2, PTL DEF Spec

\* Sessions and codes are for users who passed the factors they claim.
THEOREM SessionsProved == Spec => []SessionsAreProved
<1>1. Evidence => SessionsAreProved
  BY DEF Evidence
<1> QED BY <1>1, Invariants, PTL

\* The second-factor handlers may trust the row they load.
THEOREM PendingProved == Spec => []PendingRowsAreProved
<1>1. Evidence => PendingRowsAreProved
  BY DEF Evidence
<1> QED BY <1>1, Invariants, PTL

-----------------------------------------------------------------------------
(* What the helpers of the actions do to the requests. *)

LEMMA BecomeMoves ==
    ASSUME Typed, NEW r \in Requests, NEW new, Become(r, new)
    PROVE  req'[r] = new /\ \A q \in Requests \ {r} : req'[q] = req[q]
BY DEF Typed, TypeOK, Become

LEMMA GotoMoves ==
    ASSUME Typed, NEW r \in Requests, NEW pc, Goto(r, pc)
    PROVE  /\ req'[r].pc = pc /\ req'[r].challenge = req[r].challenge
           /\ req'[r].user = req[r].user /\ req'[r].via = req[r].via
           /\ req'[r].secret = req[r].secret /\ req'[r].window = req[r].window
           /\ \A q \in Requests \ {r} : req'[q] = req[q]
BY DEF Typed, TypeOK, Request, Goto, Become

LEMMA FinishMoves ==
    ASSUME Typed, NEW r \in Requests, Finish(r)
    PROVE  req'[r] = Idle /\ \A q \in Requests \ {r} : req'[q] = req[q]
BY BecomeMoves DEF Finish

\* What the record update of a row's handler leaves alone.
LEMMA RowMoves ==
    ASSUME Typed, NEW k \in Challenges, NEW w, row' = [row EXCEPT ![k] = w]
    PROVE  row'[k] = w /\ \A c \in Challenges \ {k} : row'[c] = row[c]
BY DEF Typed, TypeOK

\* What a request knows when it is let in.
LEMMA ArrivalMoves ==
    ASSUME Typed, NEW r \in Requests, NEW c \in Challenges,
           \/ \E u \in Users, m \in Methods : FirstFactor(r, c, u, m)
           \/ TotpVerify(r, c) \/ SwitchToTotp(r, c)
           \/ \E n \in Nonces : PasskeyStart(r, c, n) \/ PasskeyFinish(r, c, n)
    PROVE  /\ req[r] = Idle /\ Active(c)
           /\ req'[r].challenge = c /\ req'[r].window = 0
           /\ req'[r].pc \in {"policy", "verify", "switch", "mint", "nonce"}
           /\ req'[r].via # "enrollment"
           /\ \A q \in Requests \ {r} : req'[q] = req[q]
           /\ UNCHANGED <<row, totp, sessions, codes, usedSecrets, expired, crashes>>
<1> DEFINE Known == /\ req'[r].challenge = c /\ req'[r].window = 0
                    /\ req'[r].pc \in {"policy", "verify", "switch", "mint", "nonce"}
                    /\ req'[r].via # "enrollment"
                    /\ \A q \in Requests \ {r} : req'[q] = req[q]
<1>1. ASSUME NEW new, Become(r, new), new.challenge = c, new.window = 0,
             new.pc \in {"policy", "verify", "switch", "mint", "nonce"}, new.via # "enrollment"
      PROVE  Known
  BY <1>1, BecomeMoves
<1> HIDE DEF Known
<1>2. ASSUME NEW u \in Users, NEW m \in Methods, FirstFactor(r, c, u, m) PROVE Known
  BY <1>1, <1>2 DEF FirstFactor, Idle
<1>3. ASSUME TotpVerify(r, c) \/ SwitchToTotp(r, c) PROVE Known
  BY <1>1, <1>3 DEF TotpVerify, SwitchToTotp, Loaded, Idle
<1>4. ASSUME NEW n \in Nonces, PasskeyStart(r, c, n) \/ PasskeyFinish(r, c, n) PROVE Known
  BY <1>1, <1>4 DEF PasskeyStart, PasskeyFinish, Loaded, Idle
<1>5. /\ req[r] = Idle /\ Active(c)
      /\ UNCHANGED <<row, totp, sessions, codes, usedSecrets, expired, crashes>>
  BY DEF FirstFactor, TotpVerify, SwitchToTotp, PasskeyStart, PasskeyFinish, clock, outcome
<1> QED BY <1>2, <1>3, <1>4, <1>5 DEF Known

LEMMA EnrollStartMoves ==
    ASSUME Typed, NEW r \in Requests, NEW c \in Challenges, EnrollStart(r, c)
    PROVE  /\ req[r] = Idle /\ Active(c)
           /\ req'[r].challenge = c /\ req'[r].window = 0 /\ req'[r].pc = "secret"
           /\ req'[r].via = "enrollment" /\ req'[r].secret \in Secrets \ usedSecrets
           /\ usedSecrets' = usedSecrets \cup {req'[r].secret}
           /\ \A q \in Requests \ {r} : req'[q] = req[q]
           /\ UNCHANGED <<row, totp, sessions, codes, expired, crashes>>
<1> PICK s \in Secrets \ usedSecrets :
       /\ Become(r, [Loaded(c, "secret", "enrollment") EXCEPT !.secret = s])
       /\ usedSecrets' = usedSecrets \cup {s}
  BY DEF EnrollStart
<1> DEFINE new == [Loaded(c, "secret", "enrollment") EXCEPT !.secret = s]
<1>1. /\ new.challenge = c /\ new.window = 0 /\ new.pc = "secret" /\ new.secret = s
      /\ new.via = "enrollment"
  BY DEF Loaded, Idle
<1> HIDE DEF new
<1>2. req'[r] = new /\ \A q \in Requests \ {r} : req'[q] = req[q]
  BY BecomeMoves DEF new
<1>3. /\ req[r] = Idle /\ Active(c)
      /\ UNCHANGED <<row, totp, sessions, codes, expired, crashes>>
  BY DEF EnrollStart, clock, outcome
<1> QED BY <1>1, <1>2, <1>3

LEMMA EnrollFinishMoves ==
    ASSUME Typed, NEW r \in Requests, NEW c \in Challenges, EnrollFinish(r, c)
    PROVE  /\ req[r] = Idle /\ Active(c) /\ row[c].secret # NoSecret
           /\ req'[r].challenge = c /\ req'[r].via = "enrollment"
           /\ req'[r].secret = row[c].secret
           /\ \/ req'[r].pc = "increment" /\ req'[r].window = 0
              \/ req'[r].pc = "consume" /\ req'[r].window \in AcceptedWindows(0)
           /\ \A q \in Requests \ {r} : req'[q] = req[q]
           /\ UNCHANGED <<row, totp, sessions, codes, usedSecrets, expired, crashes>>
<1> DEFINE loaded == [Loaded(c, "consume", "enrollment") EXCEPT !.secret = row[c].secret]
<1>1. /\ loaded.pc = "consume" /\ loaded.via = "enrollment" /\ loaded.challenge = c
      /\ loaded.secret = row[c].secret /\ loaded.window = 0
      /\ DOMAIN loaded = DOMAIN Idle
  BY DEF Loaded, Idle
<1> HIDE DEF loaded
<1>2. \/ \E w \in AcceptedWindows(0) : Become(r, [loaded EXCEPT !.window = w])
      \/ Become(r, [loaded EXCEPT !.pc = "increment"])
  BY DEF EnrollFinish, loaded
<1>3. /\ req[r] = Idle /\ Active(c) /\ row[c].secret # NoSecret
      /\ UNCHANGED <<row, totp, sessions, codes, usedSecrets, expired, crashes>>
  BY DEF EnrollFinish, clock, outcome
<1>4. CASE Become(r, [loaded EXCEPT !.pc = "increment"])
  <2> PICK new : new = [loaded EXCEPT !.pc = "increment"]
    OBVIOUS
  <2>1. /\ new.pc = "increment" /\ new.challenge = c /\ new.via = "enrollment"
        /\ new.window = 0 /\ new.secret = row[c].secret
    BY <1>1 DEF Idle
  <2>2. req'[r] = new /\ \A q \in Requests \ {r} : req'[q] = req[q]
    BY <1>4, BecomeMoves
  <2> QED BY <1>3, <2>1, <2>2
<1>5. ASSUME NEW w \in AcceptedWindows(0), Become(r, [loaded EXCEPT !.window = w])
      PROVE  /\ req'[r].pc = "consume" /\ req'[r].challenge = c /\ req'[r].via = "enrollment"
             /\ req'[r].secret = row[c].secret /\ req'[r].window = w
             /\ \A q \in Requests \ {r} : req'[q] = req[q]
  <2> PICK new : new = [loaded EXCEPT !.window = w]
    OBVIOUS
  <2>1. /\ new.pc = "consume" /\ new.challenge = c /\ new.via = "enrollment"
        /\ new.secret = row[c].secret /\ new.window = w
    BY <1>1 DEF Idle
  <2>2. req'[r] = new /\ \A q \in Requests \ {r} : req'[q] = req[q]
    BY <1>5, BecomeMoves
  <2> QED BY <2>1, <2>2
<1> QED BY <1>2, <1>3, <1>4, <1>5

LEMMA ReadCredentialsMoves ==
    ASSUME Typed, NEW r \in Requests, ReadCredentials(r)
    PROVE  /\ req'[r].pc = "pend" /\ req'[r].window = req[r].window
           /\ req'[r].challenge = req[r].challenge /\ req'[r].via = req[r].via
           /\ req'[r].secret = req[r].secret
           /\ \A q \in Requests \ {r} : req'[q] = req[q]
<1> PICK t : Become(r, [req[r] EXCEPT !.pc = "pend", !.target = t])
  BY DEF ReadCredentials
<1> PICK new : new = [req[r] EXCEPT !.pc = "pend", !.target = t]
  OBVIOUS
<1>1. /\ new.pc = "pend" /\ new.window = req[r].window
      /\ new.challenge = req[r].challenge /\ new.via = req[r].via /\ new.secret = req[r].secret
  BY DEF Typed, TypeOK, Request
<1> QED BY <1>1, BecomeMoves

LEMMA CheckTotpMoves ==
    ASSUME Typed, NEW r \in Requests, CheckTotpCode(r)
    PROVE  /\ \/ Finish(r)
              \/ Goto(r, "increment")
              \/ /\ req'[r].pc = "consume" /\ req'[r].via = req[r].via
                 /\ req'[r].user = req[r].user /\ Enrolled(req[r].user)
                 /\ req'[r].secret = totp[req[r].user].secret
                 /\ req'[r].window \in AcceptedWindows(totp[req[r].user].last)
           /\ \A q \in Requests \ {r} : req'[q] = req[q]
<1>1. CASE Finish(r) \/ Goto(r, "increment")
  BY <1>1, FinishMoves, GotoMoves
<1>2. CASE /\ Enrolled(req[r].user)
           /\ \E w \in AcceptedWindows(totp[req[r].user].last) :
               Become(r, [req[r] EXCEPT !.pc = "consume", !.window = w,
                                        !.secret = totp[req[r].user].secret])
  <2> PICK w \in AcceptedWindows(totp[req[r].user].last) :
             Become(r, [req[r] EXCEPT !.pc = "consume", !.window = w,
                                      !.secret = totp[req[r].user].secret])
    BY <1>2
  <2> PICK t : t = totp[req[r].user].secret
    OBVIOUS
  <2> DEFINE new == [req[r] EXCEPT !.pc = "consume", !.window = w, !.secret = t]
  <2>1. /\ new.pc = "consume" /\ new.via = req[r].via /\ new.window = w
        /\ new.user = req[r].user /\ new.secret = t
    BY DEF Typed, TypeOK, Request
  <2> HIDE DEF new
  <2>2. req'[r] = new /\ \A q \in Requests \ {r} : req'[q] = req[q]
    BY BecomeMoves DEF new
  <2> QED BY <1>2, <2>1, <2>2
<1> QED BY <1>1, <1>2 DEF CheckTotpCode

-----------------------------------------------------------------------------
(* Sign-ins by a first factor alone. *)

\* A request whose check comes next may still find the policy on; one that goes
\* on without a second factor was checked while it was off.
ChecksHold ==
    \A r \in Requests :
        /\ req[r].pc = "policy" => mfaRequired \/ r \in unguarded
        /\ req[r].pc \in {"consume", "session"} /\ req[r].via = "none" => r \in unguarded

LEMMA ChecksHoldInit == Init => ChecksHold
BY IdleKnown DEF Init, ChecksHold

LEMMA ChecksHoldNext == Typed /\ Evidence /\ ChecksHold /\ [Next]_vars => ChecksHold'
<1> SUFFICES ASSUME Typed, Evidence, ChecksHold, [Next]_vars PROVE ChecksHold'
  OBVIOUS
<1> USE DEF policy
\* Only the check itself lets a request go on without a second factor.
<1>1. ASSUME NEW r \in Requests, \A q \in Requests \ {r} : req'[q] = req[q],
             UNCHANGED policy, req'[r].pc # "policy",
             req'[r].pc \in {"consume", "session"} /\ req'[r].via = "none" =>
                req[r].pc = "consume" /\ req[r].via = "none"
      PROVE  ChecksHold'
  BY <1>1 DEF ChecksHold
<1>2. ASSUME NEW r \in Requests, NEW pc, pc \notin {"policy", "consume", "session"},
             Goto(r, pc), UNCHANGED policy
      PROVE  ChecksHold'
  BY <1>1, <1>2, GotoMoves
<1>3. ASSUME NEW r \in Requests, Finish(r), UNCHANGED policy PROVE ChecksHold'
  BY <1>1, <1>3, FinishMoves, IdleKnown
<1>4. ASSUME NEW r \in Requests, NEW c \in Challenges, NEW u \in Users, NEW m \in Methods,
             FirstFactor(r, c, u, m)
      PROVE  ChecksHold'
  <2>1. req'[r].pc = "policy" /\ \A q \in Requests \ {r} : req'[q] = req[q]
    BY <1>4 DEF FirstFactor, Become, Idle, Typed, TypeOK
  <2> QED BY <1>4, <2>1 DEF FirstFactor, ChecksHold
<1>5. ASSUME NEW r \in Requests, ReadPolicy(r) PROVE ChecksHold'
  <2>1. CASE mfaRequired
    <3>1. req'[r].pc = "credentials" /\ \A q \in Requests \ {r} : req'[q] = req[q]
      BY <1>5, <2>1, GotoMoves DEF ReadPolicy
    <3> QED BY <1>5, <2>1, <3>1 DEF ReadPolicy, ChecksHold
  <2>2. CASE ~mfaRequired
    <3>1. req'[r].pc = "consume" /\ \A q \in Requests \ {r} : req'[q] = req[q]
      BY <1>5, <2>2, GotoMoves DEF ReadPolicy
    <3> QED BY <1>5, <2>2, <3>1 DEF ReadPolicy, ChecksHold
  <2> QED BY <2>1, <2>2
\* The other arrivals have a second factor, or go where none is needed.
<1>6. ASSUME NEW r \in Requests, NEW new, Become(r, new), UNCHANGED policy,
             new.pc \in {"verify", "switch", "mint", "nonce"}
      PROVE  ChecksHold'
  BY <1>1, <1>6, BecomeMoves
<1>7. ASSUME NEW r \in Requests, NEW c \in Challenges, TotpVerify(r, c) \/ SwitchToTotp(r, c)
      PROVE  ChecksHold'
  BY <1>6, <1>7 DEF TotpVerify, SwitchToTotp, Loaded, Idle
<1>8. ASSUME NEW r \in Requests, NEW c \in Challenges, NEW n \in Nonces,
             PasskeyStart(r, c, n) \/ PasskeyFinish(r, c, n)
      PROVE  ChecksHold'
  BY <1>6, <1>8 DEF PasskeyStart, PasskeyFinish, Loaded, Idle
<1>9. ASSUME NEW r \in Requests, NEW c \in Challenges, EnrollStart(r, c) PROVE ChecksHold'
  BY <1>1, <1>9, EnrollStartMoves DEF EnrollStart
<1>10. ASSUME NEW r \in Requests, NEW c \in Challenges, EnrollFinish(r, c) PROVE ChecksHold'
  BY <1>1, <1>10, EnrollFinishMoves DEF EnrollFinish
\* A code or an assertion that was checked is a second factor.
<1>11. ASSUME NEW r \in Requests, CheckTotpCode(r) PROVE ChecksHold'
  <2>1. req[r].via = "totp" /\ UNCHANGED policy
    BY <1>11 DEF CheckTotpCode, Evidence, RequestProved
  <2>2. CASE Finish(r) \/ Goto(r, "increment")
    BY <1>2, <1>3, <2>1, <2>2
  <2>3. CASE req'[r].pc = "consume" /\ req'[r].via = req[r].via
    BY <1>1, <1>11, <2>1, <2>3, CheckTotpMoves
  <2> QED BY <1>11, <2>2, <2>3, CheckTotpMoves
<1>12. ASSUME NEW r \in Requests, VerifyAssertion(r) PROVE ChecksHold'
  <2>1. req[r].via = "passkey_step_up" /\ UNCHANGED policy
    BY <1>12 DEF VerifyAssertion, Evidence, RequestProved
  <2>2. CASE Goto(r, "increment")
    BY <1>2, <2>1, <2>2
  <2>3. CASE Goto(r, "consume")
    BY <1>1, <2>1, <2>3, GotoMoves
  <2> QED BY <1>12, <2>2, <2>3 DEF VerifyAssertion
<1>13. ASSUME NEW r \in Requests, SatisfyMfa(r) \/ CompleteEnrollment(r) PROVE ChecksHold'
  <2>1. req[r].via # "none" /\ Goto(r, "session") /\ UNCHANGED policy
    BY <1>13 DEF SatisfyMfa, CompleteEnrollment, Evidence, RequestProved
  <2> QED BY <1>1, <2>1, GotoMoves
<1>14. ASSUME NEW r \in Requests, ConsumeChallenge(r) PROVE ChecksHold'
  <2>1. CASE Finish(r)
    BY <1>3, <1>14, <2>1 DEF ConsumeChallenge
  <2>2. CASE Goto(r, NextAfterConsume(req[r].via))
    <3>1. NextAfterConsume(req[r].via) # "policy"
      BY DEF NextAfterConsume
    <3> QED BY <1>1, <1>14, <2>2, <3>1, GotoMoves DEF ConsumeChallenge
  <2> QED BY <1>14, <2>1, <2>2 DEF ConsumeChallenge
<1>15. ASSUME NEW r \in Requests, ReadCredentials(r) PROVE ChecksHold'
  BY <1>1, <1>15, ReadCredentialsMoves DEF ReadCredentials
<1>16. ASSUME NEW r \in Requests,
              \/ SetMfaState(r) \/ UpdateLastUsedWindow(r) \/ SwitchSet(r)
              \/ IncrementAttempts(r) \/ ReadAttempts(r) \/ Lockout(r)
              \/ CreateNonce(r) \/ ConsumeNonce(r) \/ SetEnrollmentSecret(r)
              \/ PersistCredential(r) \/ CreateSession(r) \/ Authorize(r)
       PROVE  ChecksHold'
  BY <1>2, <1>3, <1>16
     DEF SetMfaState, UpdateLastUsedWindow, SwitchSet, IncrementAttempts, ReadAttempts,
         Lockout, CreateNonce, ConsumeNonce, SetEnrollmentSecret, PersistCredential,
         CreateSession, Authorize
<1>17. CASE Environment
  <2>1. CASE PatchPolicy
    BY <2>1 DEF PatchPolicy, ChecksHold
  <2>2. ASSUME NEW r \in Requests, Crash(r) PROVE ChecksHold'
    BY <1>3, <2>2 DEF Crash
  <2>3. CASE UNCHANGED <<req, policy>>
    BY <2>3 DEF ChecksHold
  <2> QED BY <1>17, <2>1, <2>2, <2>3 DEF Environment, Tick, Expire
<1>18. CASE UNCHANGED vars
  BY <1>18 DEF vars, ChecksHold
<1>19. ASSUME NEW r \in Requests, Arrive(r) PROVE ChecksHold'
  BY <1>4, <1>7, <1>8, <1>9, <1>10, <1>19 DEF Arrive
<1>20. ASSUME NEW r \in Requests, Continue(r) PROVE ChecksHold'
  BY <1>5, <1>11, <1>12, <1>13, <1>14, <1>15, <1>16, <1>20 DEF Continue
<1> QED BY <1>17, <1>18, <1>19, <1>20 DEF Next

\* No session is made of a first factor alone except by a request for which the
\* policy was off during its own check.
THEOREM NoBypass == Spec => MfaNotBypassed
<1> DEFINE Excused ==
      \A c \in Challenges : \A i \in DOMAIN sessions'[c] \ DOMAIN sessions[c] :
          sessions'[c][i].via = "none" => \E r \in unguarded : req'[r] # req[r]
<1>1. Typed /\ Ownership /\ ChecksHold /\ [Next]_vars => [Excused]_sessions
  <2> SUFFICES ASSUME Typed, Ownership, ChecksHold, [Next]_vars, sessions' # sessions
               PROVE  Excused
    OBVIOUS
  <2>1. ASSUME NEW r \in Requests, Arrive(r) PROVE UNCHANGED sessions
    BY <2>1, ArrivalMoves, EnrollStartMoves, EnrollFinishMoves DEF Arrive
  <2>2. ASSUME NEW r \in Requests, Continue(r), ~CreateSession(r) PROVE UNCHANGED sessions
    BY <2>2 DEF Continue, outcome, ReadPolicy, ReadCredentials, SetMfaState, CheckTotpCode,
                UpdateLastUsedWindow, SatisfyMfa, SwitchSet, IncrementAttempts, ReadAttempts,
                Lockout, CreateNonce, ConsumeNonce, VerifyAssertion, SetEnrollmentSecret,
                PersistCredential, CompleteEnrollment, ConsumeChallenge, Authorize
  <2>3. ASSUME Environment \/ UNCHANGED vars PROVE UNCHANGED sessions
    BY <2>3 DEF Environment, Tick, PatchPolicy, Expire, Crash, vars, outcome
  <2> PICK r \in Requests : CreateSession(r)
    BY <2>1, <2>2, <2>3 DEF Next
  <2> DEFINE s == [user |-> req[r].user, via |-> req[r].via,
                   secret |-> req[r].secret, window |-> req[r].window]
  <2> PICK k \in Challenges : k = req[r].challenge
    BY DEF CreateSession, Typed, RequestKnown
  <2>4. s.via = req[r].via
    OBVIOUS
  <2> HIDE DEF s
  <2>5. sessions[k] = <<>> /\ sessions' = [sessions EXCEPT ![k] = Append(@, s)]
    BY DEF CreateSession, Ownership, Owns, Owning, BeforeSession, s
  <2>6. \A c \in Challenges : sessions'[c] = IF c = k THEN <<s>> ELSE sessions[c]
    BY <2>5 DEF Typed, TypeOK
  <2>7. \A i \in DOMAIN <<s>> : <<s>>[i] = s
    OBVIOUS
  <2>8. req[r].pc = "session" /\ req'[r].pc = "authorize"
    BY GotoMoves DEF CreateSession
  <2>9. req[r].via = "none" => r \in unguarded
    BY <2>8 DEF ChecksHold
  <2> QED BY <2>4, <2>6, <2>7, <2>8, <2>9
<1> QED BY <1>1, Invariants, ChecksHoldInit, ChecksHoldNext, PTL DEF Spec, MfaNotBypassed

-----------------------------------------------------------------------------
(* A login challenge is a one-time artifact: every step claims, voids,     *)
(* abandons or yields one challenge, or leaves all of them as they are.    *)

Statuses == [c \in Challenges |-> Status(c)]
Yields == [c \in Challenges |-> Len(codes[c])]
Implements == Artifact!Next \/ UNCHANGED <<Statuses, Yields>>

Claimed(c) == \E r \in Requests : Owns(r, c)

LEMMA StatusIs ==
    ASSUME NEW c
    PROVE  Status(c) = IF ~row[c].consumed THEN "open"
                       ELSE IF Claimed(c) THEN "claimed" ELSE "settled"
BY DEF Status, Claimed, Owns

LEMMA StatusMoves ==
    ASSUME NEW k \in Challenges, NEW from, NEW to, Status(k) = from, Status(k)' = to,
           \A c \in Challenges \ {k} : Status(c)' = Status(c)
    PROVE  Artifact!Move(k, from, to)
BY DEF Artifact!Move

LEMMA Stutters ==
    ASSUME UNCHANGED codes,
           \A c \in Challenges : row'[c].consumed <=> row[c].consumed,
           \A r \in Requests, c \in Challenges : Owns(r, c)' <=> Owns(r, c)
    PROVE  Implements
<1>1. \A c \in Challenges : Claimed(c)' <=> Claimed(c)
  BY DEF Claimed
<1>2. \A c \in Challenges : Status(c)' = Status(c)
  BY <1>1 DEF Status, Claimed, Owns
<1>3. Statuses' = Statuses
  BY <1>2 DEF Statuses
<1> QED BY <1>3 DEF Implements, Yields

\* A request that works towards its consume, or from the consume to its session.
LEMMA GoesOn ==
    ASSUME NEW r \in Requests, \A q \in Requests \ {r} : req'[q] = req[q],
           \/ req[r].pc \notin Owning /\ req'[r].pc \notin Owning
           \/ /\ req[r].pc \in Owning /\ req'[r].pc \in Owning
              /\ req'[r].challenge = req[r].challenge,
           UNCHANGED codes, \A c \in Challenges : row'[c].consumed <=> row[c].consumed
    PROVE  Implements
<1>1. \A q \in Requests, c \in Challenges : Owns(q, c)' <=> Owns(q, c)
  BY DEF Owns
<1> QED BY <1>1, Stutters

\* A request that ends settles the challenge it owns, and no other.
LEMMA EndSettles ==
    ASSUME Typed, Ownership, NEW r \in Requests, Finish(r), UNCHANGED row,
           NEW k \in Challenges, Owns(r, k)
    PROVE  Artifact!Move(k, "claimed", "settled")
<1>1. req'[r].pc = "idle" /\ \A q \in Requests \ {r} : req'[q] = req[q]
  BY FinishMoves, IdleKnown
<1>2. row[k].consumed /\ \A q \in Requests \ {r} : ~Owns(q, k)
  BY DEF Ownership
<1>3. \A q \in Requests, c \in Challenges : Owns(q, c)' <=> Owns(q, c) /\ q # r
  BY <1>1 DEF Owns, Owning, BeforeSession
<1>4. \A c \in Challenges \ {k} : ~Owns(r, c)
  BY DEF Owns
<1>5. Status(k) = "claimed" /\ Status(k)' = "settled"
  BY <1>2, <1>3, StatusIs DEF Status, Owns
<1>6. \A c \in Challenges \ {k} : Status(c)' = Status(c)
  <2>1. \A c \in Challenges \ {k} : Claimed(c)' <=> Claimed(c)
    BY <1>3, <1>4 DEF Claimed
  <2> QED BY <2>1 DEF Status, Claimed, Owns
<1> QED BY <1>5, <1>6, StatusMoves

LEMMA ArrivalImplements ==
    ASSUME Typed, NEW r \in Requests, Arrive(r) PROVE Implements
<1> PICK c \in Challenges :
        \/ \E u \in Users, m \in Methods : FirstFactor(r, c, u, m)
        \/ TotpVerify(r, c) \/ SwitchToTotp(r, c)
        \/ \E n \in Nonces : PasskeyStart(r, c, n) \/ PasskeyFinish(r, c, n)
        \/ EnrollStart(r, c) \/ EnrollFinish(r, c)
  BY DEF Arrive
<1>1. /\ req[r] = Idle /\ UNCHANGED <<row, codes>>
      /\ \A q \in Requests \ {r} : req'[q] = req[q]
      /\ req'[r].pc \in {"policy", "verify", "switch", "mint", "nonce", "secret",
                         "increment", "consume"}
  BY ArrivalMoves, EnrollStartMoves, EnrollFinishMoves
<1>2. req[r].pc \notin Owning /\ req'[r].pc \notin Owning
  BY <1>1, IdleKnown DEF Owning, BeforeSession
<1> QED BY <1>1, <1>2, GoesOn

\* The steps before the consume, and the owner's steps before the code.
LEMMA PlainStepImplements ==
    ASSUME Typed, NEW r \in Requests,
           \/ ReadPolicy(r) \/ ReadCredentials(r) \/ CheckTotpCode(r) \/ ReadAttempts(r)
           \/ CreateNonce(r) \/ ConsumeNonce(r) \/ VerifyAssertion(r)
           \/ UpdateLastUsedWindow(r) \/ PersistCredential(r) \/ CreateSession(r)
    PROVE  Implements
<1> USE DEF outcome
<1>1. /\ UNCHANGED <<row, codes>>
      /\ \A q \in Requests \ {r} : req'[q] = req[q]
  BY GotoMoves, FinishMoves, ReadCredentialsMoves, CheckTotpMoves
     DEF ReadPolicy, ReadCredentials, CheckTotpCode, ReadAttempts, CreateNonce, ConsumeNonce,
         VerifyAssertion, UpdateLastUsedWindow, PersistCredential, CreateSession
<1>2. CASE \/ ReadPolicy(r) \/ ReadCredentials(r) \/ CheckTotpCode(r) \/ ReadAttempts(r)
           \/ CreateNonce(r) \/ ConsumeNonce(r) \/ VerifyAssertion(r)
  <2>1. req[r].pc \in {"policy", "credentials", "verify", "recount", "mint", "nonce", "assert"}
    BY <1>2 DEF ReadPolicy, ReadCredentials, CheckTotpCode, ReadAttempts, CreateNonce,
                ConsumeNonce, VerifyAssertion
  <2>2. req'[r].pc \in {"idle", "credentials", "consume", "pend", "increment", "lockout",
                        "assert"}
    <3>1. CASE ReadPolicy(r) \/ CreateNonce(r) \/ ReadAttempts(r)
      BY <3>1, GotoMoves, FinishMoves, IdleKnown DEF ReadPolicy, CreateNonce, ReadAttempts
    <3>2. CASE ReadCredentials(r) \/ CheckTotpCode(r)
      BY <3>2, ReadCredentialsMoves, CheckTotpMoves, GotoMoves, FinishMoves, IdleKnown
    <3>3. CASE ConsumeNonce(r) \/ VerifyAssertion(r)
      BY <3>3, GotoMoves, FinishMoves, IdleKnown DEF ConsumeNonce, VerifyAssertion
    <3> QED BY <1>2, <3>1, <3>2, <3>3
  <2> QED BY <1>1, <2>1, <2>2, GoesOn DEF Owning, BeforeSession
<1>3. CASE UpdateLastUsedWindow(r) \/ PersistCredential(r) \/ CreateSession(r)
  <2>1. /\ req[r].pc \in {"window", "persist", "session"}
        /\ req'[r].pc \in {"satisfy", "enrolled", "authorize"}
        /\ req'[r].challenge = req[r].challenge
    BY <1>3, GotoMoves DEF UpdateLastUsedWindow, PersistCredential, CreateSession
  <2> QED BY <1>1, <2>1, GoesOn DEF Owning, BeforeSession
<1> QED BY <1>2, <1>3

\* The writes to the row that leave consumed_at alone.
LEMMA RowWriteImplements ==
    ASSUME Typed, NEW r \in Requests,
           \/ SetMfaState(r) \/ SwitchSet(r) \/ IncrementAttempts(r) \/ SetEnrollmentSecret(r)
           \/ SatisfyMfa(r) \/ CompleteEnrollment(r)
    PROVE  Implements
<1> USE DEF outcome
<1> PICK k \in Challenges : k = req[r].challenge
  BY DEF SetMfaState, SwitchSet, IncrementAttempts, SetEnrollmentSecret, SatisfyMfa,
         CompleteEnrollment, Typed, RequestKnown
<1>1. row[k] \in Row
  BY DEF Typed, TypeOK
<1>2. \A c \in Challenges : row'[c].consumed <=> row[c].consumed
  <2>1. ASSUME NEW w, row' = [row EXCEPT ![k] = w], w.consumed = row[k].consumed
        PROVE  \A c \in Challenges : row'[c].consumed <=> row[c].consumed
    BY <2>1, RowMoves
  <2>2. CASE SetMfaState(r)
    BY <1>1, <2>1, <2>2 DEF SetMfaState, Row
  <2>3. CASE SwitchSet(r)
    BY <1>1, <2>1, <2>3 DEF SwitchSet, Row
  <2>4. CASE IncrementAttempts(r)
    BY <1>1, <2>1, <2>4 DEF IncrementAttempts, Row
  <2>5. CASE SetEnrollmentSecret(r)
    BY <1>1, <2>1, <2>5 DEF SetEnrollmentSecret, Row
  <2>6. CASE SatisfyMfa(r)
    BY <1>1, <2>1, <2>6 DEF SatisfyMfa, Row
  <2>7. CASE CompleteEnrollment(r)
    BY <1>1, <2>1, <2>7 DEF CompleteEnrollment, Row
  <2> QED BY <2>2, <2>3, <2>4, <2>5, <2>6, <2>7
<1>3. UNCHANGED codes /\ \A q \in Requests \ {r} : req'[q] = req[q]
  BY GotoMoves, FinishMoves
     DEF SetMfaState, SwitchSet, IncrementAttempts, SetEnrollmentSecret, SatisfyMfa,
         CompleteEnrollment
<1>4. CASE SatisfyMfa(r) \/ CompleteEnrollment(r)
  <2>1. /\ req[r].pc \in {"satisfy", "enrolled"} /\ req'[r].pc = "session"
        /\ req'[r].challenge = req[r].challenge
    BY <1>4, GotoMoves DEF SatisfyMfa, CompleteEnrollment
  <2> QED BY <1>2, <1>3, <2>1, GoesOn DEF Owning, BeforeSession
<1>5. CASE SetMfaState(r) \/ SwitchSet(r) \/ IncrementAttempts(r) \/ SetEnrollmentSecret(r)
  <2>1. /\ req[r].pc \in {"pend", "switch", "increment", "secret"}
        /\ req'[r].pc \in {"idle", "recount"}
    BY <1>5, GotoMoves, FinishMoves, IdleKnown
       DEF SetMfaState, SwitchSet, IncrementAttempts, SetEnrollmentSecret
  <2> QED BY <1>2, <1>3, <2>1, GoesOn DEF Owning, BeforeSession
<1> QED BY <1>4, <1>5

\* The consume claims the challenge, or the request is late.
LEMMA ConsumeImplements ==
    ASSUME Typed, Ownership, NEW r \in Requests, ConsumeChallenge(r) PROVE Implements
<1> USE DEF outcome
<1> PICK k \in Challenges : k = req[r].challenge
  BY DEF ConsumeChallenge, Typed, RequestKnown
<1>1. CASE ~Active(k)
  <2>1. /\ req[r].pc = "consume" /\ req'[r].pc = "idle" /\ UNCHANGED <<row, codes>>
        /\ \A q \in Requests \ {r} : req'[q] = req[q]
    BY <1>1, FinishMoves, IdleKnown DEF ConsumeChallenge
  <2> QED BY <2>1, GoesOn DEF Owning, BeforeSession
<1>2. CASE Active(k)
  <2>1. /\ req[r].pc = "consume" /\ req'[r].pc \in Owning /\ req'[r].challenge = k
        /\ \A q \in Requests \ {r} : req'[q] = req[q]
        /\ UNCHANGED codes
    BY <1>2, GotoMoves DEF ConsumeChallenge, NextAfterConsume, Owning, BeforeSession
  <2>2. /\ ~row[k].consumed /\ row'[k].consumed
        /\ \A c \in Challenges \ {k} : row'[c] = row[c]
    BY <1>2 DEF ConsumeChallenge, Active, Typed, TypeOK, Row
  <2>3. \A q \in Requests, c \in Challenges : Owns(q, c)' <=> Owns(q, c) \/ (q = r /\ c = k)
    BY <2>1 DEF Owns, Owning, BeforeSession
  <2>4. Status(k) = "open" /\ Status(k)' = "claimed"
    BY <2>1, <2>2 DEF Status
  <2>5. \A c \in Challenges \ {k} : Status(c)' = Status(c)
    <3>1. \A c \in Challenges \ {k} : Claimed(c)' <=> Claimed(c)
      BY <2>3 DEF Claimed
    <3> QED BY <2>2, <3>1 DEF Status, Claimed, Owns
  <2>6. Yields' = Yields
    BY <2>1 DEF Yields
  <2> QED BY <2>4, <2>5, <2>6, StatusMoves DEF Implements, Artifact!Next, Artifact!Claim, Yields
<1> QED BY <1>1, <1>2

\* The lockout voids the challenge, unless somebody has claimed it.
LEMMA LockoutImplements ==
    ASSUME Typed, Ownership, NEW r \in Requests, Lockout(r) PROVE Implements
<1> USE DEF outcome
<1> PICK k \in Challenges : k = req[r].challenge
  BY DEF Lockout, Typed, RequestKnown
<1>1. /\ req[r].pc = "lockout" /\ req'[r].pc = "idle" /\ UNCHANGED codes
      /\ \A q \in Requests \ {r} : req'[q] = req[q]
  BY FinishMoves, IdleKnown DEF Lockout
<1>2. CASE ~Active(k)
  BY <1>1, <1>2, GoesOn DEF Lockout, Owning, BeforeSession
<1>3. CASE Active(k)
  <2>1. /\ ~row[k].consumed /\ row'[k].consumed
        /\ \A c \in Challenges \ {k} : row'[c] = row[c]
    BY <1>3 DEF Lockout, Active, Typed, TypeOK, Row
  <2>2. \A q \in Requests, c \in Challenges : Owns(q, c)' <=> Owns(q, c)
    BY <1>1 DEF Owns, Owning, BeforeSession
  <2>3. \A q \in Requests : ~Owns(q, k)
    BY <2>1 DEF Ownership
  <2>4. Status(k) = "open" /\ Status(k)' = "settled"
    BY <2>1, <2>2, <2>3 DEF Status, Owns
  <2>5. \A c \in Challenges \ {k} : Status(c)' = Status(c)
    <3>1. \A c \in Challenges \ {k} : Claimed(c)' <=> Claimed(c)
      BY <2>2 DEF Claimed
    <3> QED BY <2>1, <3>1 DEF Status, Claimed, Owns
  <2>6. Yields' = Yields
    BY <1>1 DEF Yields
  <2> QED BY <2>4, <2>5, <2>6, StatusMoves DEF Implements, Artifact!Next, Artifact!Void, Yields
<1> QED BY <1>2, <1>3

\* The code is the yield; a refusal or a page of consent abandons the challenge.
LEMMA AuthorizeImplements ==
    ASSUME Typed, Ownership, NEW r \in Requests, Authorize(r) PROVE Implements
<1> DEFINE code == [user |-> req[r].user, method |-> req[r].method]
<1> PICK k \in Challenges : k = req[r].challenge /\ Owns(r, k)
  BY DEF Authorize, Typed, RequestKnown, Owns, Owning
<1>1. Artifact!Move(k, "claimed", "settled")
  BY EndSettles DEF Authorize
<1>2. CASE UNCHANGED codes
  <2>1. Yields' = Yields
    BY <1>2 DEF Yields
  <2> QED BY <1>1, <2>1 DEF Implements, Artifact!Next, Artifact!Abandon, Yields
<1>3. CASE ~UNCHANGED codes
  <2>1. codes' = [codes EXCEPT ![k] = Append(@, code)]
    BY <1>3 DEF Authorize
  <2> HIDE DEF code
  <2>2. codes[k] \in Seq(Code)
    BY DEF Typed, TypeOK
  <2>3. Len(codes'[k]) = Len(codes[k]) + 1 /\ \A c \in Challenges \ {k} : codes'[c] = codes[c]
    BY <2>1, <2>2 DEF Typed, TypeOK
  <2>4. Yields' = [Yields EXCEPT ![k] = @ + 1]
    BY <2>3 DEF Yields
  <2> QED BY <1>1, <2>4 DEF Implements, Artifact!Next, Artifact!Yield, Yields
<1> QED BY <1>2, <1>3

LEMMA CrashImplements ==
    ASSUME Typed, Ownership, NEW r \in Requests, Crash(r) PROVE Implements
<1>1. /\ Finish(r) /\ UNCHANGED <<row, codes>> /\ req'[r].pc = "idle"
      /\ \A q \in Requests \ {r} : req'[q] = req[q]
  BY FinishMoves, IdleKnown DEF Crash, outcome
<1>2. CASE req[r].pc \notin Owning
  BY <1>1, <1>2, GoesOn DEF Owning, BeforeSession
<1>3. CASE req[r].pc \in Owning
  <2> PICK k \in Challenges : Owns(r, k)
    BY <1>3 DEF Typed, RequestKnown, Owns, Owning, BeforeSession
  <2>1. Artifact!Move(k, "claimed", "settled") /\ Yields' = Yields
    BY <1>1, EndSettles DEF Yields
  <2> QED BY <2>1 DEF Implements, Artifact!Next, Artifact!Abandon, Yields
<1> QED BY <1>2, <1>3

LEMMA InitImplements == Init => Artifact!Init
<1> SUFFICES ASSUME Init PROVE Artifact!Init
  OBVIOUS
<1>1. \A c \in Challenges : ~row[c].consumed /\ Len(codes[c]) = 0
  BY DEF Init, FreshRow
<1> QED BY <1>1 DEF Artifact!Init, Status

LEMMA NextImplements == Typed /\ Ownership /\ [Next]_vars => Implements
<1> SUFFICES ASSUME Typed, Ownership, [Next]_vars PROVE Implements
  OBVIOUS
<1>1. ASSUME NEW r \in Requests, Continue(r) PROVE Implements
  BY <1>1, PlainStepImplements, RowWriteImplements, ConsumeImplements, LockoutImplements,
     AuthorizeImplements
     DEF Continue
<1>2. CASE UNCHANGED <<row, codes, req>>
  BY <1>2, Stutters DEF Owns
<1>3. CASE Environment \/ UNCHANGED vars
  BY <1>2, <1>3, CrashImplements DEF Environment, Tick, PatchPolicy, Expire, vars, outcome
<1> QED BY <1>1, <1>3, ArrivalImplements DEF Next

\* However sign-ins interleave and die, a login challenge is a one-time
\* artifact: one request claims it with its consume, or a lockout voids it, and
\* only the claimer may turn it into an authorization code, once.
THEOREM Refinement == Spec => IsOneTimeArtifact
<1>1. Typed /\ Ownership /\ [Next]_vars => [Artifact!Next]_<<Statuses, Yields>>
  BY NextImplements DEF Implements
<1> QED BY <1>1, TypedInit, TypedNext, OwnershipInit, OwnershipNext, InitImplements, PTL
        DEF Spec, IsOneTimeArtifact, Artifact!Spec, Statuses, Yields

\* A login challenge ends in one authorization code at most, and no request
\* works on it any more once it has.
THEOREM YieldsOnce == Spec => []Artifact!YieldsOnce
BY Refinement, Artifact!AtMostOne, PTL DEF IsOneTimeArtifact
===============================================================================
