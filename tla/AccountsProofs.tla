---------------------------- MODULE AccountsProofs ----------------------------
(***************************************************************************)
(* Theorems about Accounts, for any sets of addresses, invitations, links, *)
(* challenges and requests, any lifetime and any number of failures.       *)
(***************************************************************************)
EXTENDS Accounts, TLAPS

-----------------------------------------------------------------------------
(* Types.  What a request carries depends on where it is. *)

Reissuing == {"reissue", "reissueBatch"}
Activating == {"readInvitation", "readUser", "activate", "recheck", "activated"}
Registering == {"regChallenge", "regEmail", "regConsume", "regCreate",
                "regPassword", "regSession"}
Mailing == {"linkChallenge", "linkCreate"}
Following == {"findLink", "checkChallenge", "consumeLink", "consumeChallenge",
              "linkSession"}

RequestKnown(q) ==
    /\ q \in Request
    /\ q.pc \in Reissuing => q.user \in Users /\ q.inv \in Invitations
    /\ q.pc \in Activating => q.user \in Users /\ q.inv \in Invitations
    /\ q.pc \in Registering => q.user \in Users /\ q.challenge \in Challenges
    /\ q.pc \in Mailing =>
         q.user \in Users /\ q.challenge \in Challenges /\ q.link \in Links
    /\ q.pc \in Following => q.challenge \in Challenges /\ q.link \in Links

Typed ==
    /\ TypeOK
    /\ \A r \in Requests : RequestKnown(req[r])
    /\ \A l \in Links : link[l].user # None => link[l].challenge \in Challenges

-----------------------------------------------------------------------------
(* What the steps do to the requests. *)

LEMMA IdleKnown == Idle.pc = "idle" /\ Idle.inv = None /\ Idle.link = None /\ RequestKnown(Idle)
BY AccountsAssumption
   DEF Idle, Request, PCs, Times, RequestKnown, Reissuing, Activating,
       Registering, Mailing, Following

LEMMA GotoMoves ==
    ASSUME Typed, NEW r \in Requests, NEW pc, Goto(r, pc)
    PROVE  /\ req'[r] = [req[r] EXCEPT !.pc = pc]
           /\ req'[r].pc = pc
           /\ req'[r].user = req[r].user /\ req'[r].inv = req[r].inv
           /\ req'[r].link = req[r].link /\ req'[r].challenge = req[r].challenge
           /\ req'[r].now = req[r].now /\ req'[r].late = req[r].late
           /\ pc \in PCs => req' \in [Requests -> Request]
           /\ \A q \in Requests \ {r} : req'[q] = req[q]
BY DEF Typed, TypeOK, Goto, Request

LEMMA FinishEnds ==
    ASSUME Typed, NEW r \in Requests, Finish(r)
    PROVE  /\ req'[r] = Idle
           /\ req' \in [Requests -> Request]
           /\ \A q \in Requests \ {r} : req'[q] = req[q]
BY IdleKnown DEF Typed, TypeOK, Finish, RequestKnown

LEMMA StartBegins ==
    ASSUME Typed, NEW r \in Requests, NEW q \in Request, Start(r, q)
    PROVE  /\ req[r] = Idle
           /\ req'[r] = q
           /\ req' \in [Requests -> Request]
           /\ \A p \in Requests \ {r} : req'[p] = req[p]
           /\ UNCHANGED <<store, failures, history>>
BY DEF Typed, TypeOK, Start, Reads

\* A reissue changes of the other requests only whether they are late.
LEMMA OvertakeEnds ==
    ASSUME Typed, NEW r \in Requests, Overtake(r)
    PROVE  /\ req'[r] = Idle
           /\ req' \in [Requests -> Request]
           /\ \A q \in Requests \ {r} :
                /\ req'[q].pc = req[q].pc /\ req'[q].user = req[q].user
                /\ req'[q].inv = req[q].inv /\ req'[q].link = req[q].link
                /\ req'[q].challenge = req[q].challenge
                /\ req'[q].now = req[q].now
                /\ req'[q].late => /\ req[q].late
                                   /\ ~(/\ req[q].pc = "readInvitation"
                                        /\ req[q].user = req[r].user)
<1>1. ASSUME NEW q \in Requests PROVE req[q] \in Request
  BY DEF Typed, TypeOK
<1>2. Idle \in Request
  BY IdleKnown DEF RequestKnown
<1>3. req' \in [Requests -> Request]
  BY <1>1, <1>2 DEF Overtake, Request
<1>4. ASSUME NEW q \in Requests \ {r}
      PROVE  req'[q] = [req[q] EXCEPT !.late =
                          @ /\ ~(/\ req[q].pc = "readInvitation"
                                 /\ req[q].user = req[r].user)]
  BY <1>4 DEF Overtake
<1> QED BY <1>1, <1>3, <1>4 DEF Overtake, Request

-----------------------------------------------------------------------------
(* Typed is inductive *)

AllKnown == req \in [Requests -> Request] /\ \A q \in Requests : RequestKnown(req[q])

SameBranch(pc1, pc2) ==
    /\ pc2 \in Reissuing => pc1 \in Reissuing
    /\ pc2 \in Activating => pc1 \in Activating
    /\ pc2 \in Registering => pc1 \in Registering
    /\ pc2 \in Mailing => pc1 \in Mailing
    /\ pc2 \in Following => pc1 \in Following

LEMMA GotoKnown ==
    ASSUME Typed, NEW r \in Requests, NEW pc \in PCs, Goto(r, pc), SameBranch(req[r].pc, pc)
    PROVE  AllKnown'
<1>1. RequestKnown(req[r]) /\ \A q \in Requests : RequestKnown(req[q])
  BY DEF Typed
<1>2. /\ req' \in [Requests -> Request]
      /\ req'[r].pc = pc
      /\ req'[r].user = req[r].user /\ req'[r].inv = req[r].inv
      /\ req'[r].link = req[r].link /\ req'[r].challenge = req[r].challenge
      /\ \A q \in Requests \ {r} : req'[q] = req[q]
  BY GotoMoves
<1>3. RequestKnown(req'[r])
  BY <1>1, <1>2 DEF RequestKnown, SameBranch
<1> QED BY <1>1, <1>2, <1>3 DEF AllKnown

LEMMA FinishKnown ==
    ASSUME Typed, NEW r \in Requests, Finish(r)
    PROVE  AllKnown'
<1>1. \A q \in Requests : RequestKnown(req[q])
  BY DEF Typed
<1> QED BY <1>1, FinishEnds, IdleKnown DEF AllKnown

LEMMA GotoIfKnown ==
    ASSUME Typed, NEW r \in Requests, NEW cond, NEW pc \in PCs, GotoIf(r, cond, pc),
           SameBranch(req[r].pc, pc)
    PROVE  AllKnown'
BY GotoKnown, FinishKnown DEF GotoIf

LEMMA StartKnown ==
    ASSUME Typed, NEW r \in Requests, NEW q, RequestKnown(q), Start(r, q)
    PROVE  AllKnown'
<1>1. q \in Request /\ \A p \in Requests : RequestKnown(req[p])
  BY DEF Typed, RequestKnown
<1> QED BY <1>1, StartBegins DEF AllKnown

LEMMA OvertakeKnown ==
    ASSUME Typed, NEW r \in Requests, Overtake(r)
    PROVE  AllKnown'
<1>1. \A p \in Requests : RequestKnown(req[p])
  BY DEF Typed
<1>2. req'[r] = Idle /\ req' \in [Requests -> Request]
  BY OvertakeEnds
<1>3. ASSUME NEW q \in Requests \ {r} PROVE RequestKnown(req'[q])
  BY <1>1, <1>2, <1>3, OvertakeEnds DEF RequestKnown
<1> QED BY <1>2, <1>3, IdleKnown DEF AllKnown

LEMMA ArrivalsKnown ==
    ASSUME Typed, NEW r \in Requests, Arrivals(r)
    PROVE  AllKnown' /\ UNCHANGED <<store, failures, history>>
<1> USE DEF Start, Reads
<1>0. \A l \in Links : link[l].user # None => link[l].challenge \in Challenges
  BY DEF Typed
<1>t. /\ now \in Times /\ superseded \subseteq Invitations
      /\ \A i \in Invitations : invitation[i].user \in Users \cup {None}
  BY DEF Typed, TypeOK, Invitation
<1>1. CASE \E u \in Users, i \in Invitations : StartReissue(r, u, i)
  <2> PICK u \in Users, i \in Invitations : StartReissue(r, u, i)
    BY <1>1
  <2> DEFINE q == [Idle EXCEPT !.pc = "reissue", !.user = u, !.inv = i, !.now = now]
  <2>1. q \in Request
    BY <1>t DEF Request, Idle, PCs
  <2>2. RequestKnown(q)
    BY <2>1
       DEF RequestKnown, Idle, Reissuing, Activating, Registering, Mailing, Following
  <2> QED BY <2>2, StartKnown DEF StartReissue
<1>2. CASE \E i \in Invitations : StartActivate(r, i)
  <2> PICK i \in Invitations : StartActivate(r, i)
    BY <1>2
  <2> DEFINE q(late) == [Idle EXCEPT !.pc = "readInvitation", !.inv = i, !.now = now,
                                     !.user = invitation[i].user, !.late = late]
  <2>1. invitation[i].user \in Users
    BY <1>t DEF StartActivate
  <2>2. ASSUME NEW late \in BOOLEAN PROVE RequestKnown(q(late))
    <3>1. q(late) \in Request
      BY <1>t, <2>1 DEF Request, Idle, PCs
    <3> QED BY <2>1, <3>1
       DEF RequestKnown, Idle, Reissuing, Activating, Registering, Mailing, Following
  <2>3. Start(r, q(i \in superseded)) /\ (i \in superseded) \in BOOLEAN
    BY DEF StartActivate
  <2> QED BY <2>2, <2>3, StartKnown
<1>3. CASE \E u \in Users, c \in Challenges : StartRegister(r, u, c)
  <2> PICK u \in Users, c \in Challenges : StartRegister(r, u, c)
    BY <1>3
  <2> DEFINE q == [Idle EXCEPT !.pc = "regChallenge", !.user = u, !.challenge = c]
  <2>1. q \in Request
    BY IdleKnown DEF RequestKnown, Request, PCs
  <2>2. RequestKnown(q)
    BY <2>1
       DEF RequestKnown, Idle, Reissuing, Activating, Registering, Mailing, Following
  <2> QED BY <2>2, StartKnown DEF StartRegister
<1>4. CASE \E u \in Users, c \in Challenges, l \in Links : StartLink(r, u, c, l)
  <2> PICK u \in Users, c \in Challenges, l \in Links : StartLink(r, u, c, l)
    BY <1>4
  <2> DEFINE q == [Idle EXCEPT !.pc = "linkChallenge", !.user = u, !.challenge = c,
                               !.link = l, !.now = now]
  <2>1. q \in Request
    BY <1>t DEF Request, Idle, PCs
  <2>2. RequestKnown(q)
    BY <2>1
       DEF RequestKnown, Idle, Reissuing, Activating, Registering, Mailing, Following
  <2> QED BY <2>2, StartKnown DEF StartLink
<1>5. CASE \E l \in Links : StartConsume(r, l)
  <2> PICK l \in Links : StartConsume(r, l)
    BY <1>5
  <2> DEFINE q == [Idle EXCEPT !.pc = "findLink", !.link = l, !.now = now,
                               !.challenge = link[l].challenge]
  <2>1. link[l].challenge \in Challenges
    BY <1>0 DEF StartConsume
  <2>2. q \in Request
    BY <1>t, <2>1 DEF Request, Idle, PCs
  <2>3. RequestKnown(q)
    BY <2>1, <2>2
       DEF RequestKnown, Idle, Reissuing, Activating, Registering, Mailing, Following
  <2> QED BY <2>3, StartKnown DEF StartConsume
<1> QED BY <1>1, <1>2, <1>3, <1>4, <1>5 DEF Arrivals

StoreKnown ==
    /\ now \in Times
    /\ status \in [Users -> {"none", "provisioned", "active"}]
    /\ credential \in [Users -> Invitations \cup {None, Registered}]
    /\ invitation \in [Invitations -> Invitation]
    /\ link \in [Links -> Link]
    /\ consumed \subseteq Challenges
    /\ failures \in 0..MaxFailures
    /\ stranded \subseteq Users /\ superseded \subseteq Invitations
    /\ proofs \in [Links -> Nat] /\ sessions \in [Challenges -> Nat]
    /\ \A l \in Links : link[l].user # None => link[l].challenge \in Challenges

LEMMA TypedParts == Typed <=> StoreKnown /\ AllKnown
<1>1. ASSUME Typed PROVE StoreKnown /\ AllKnown
  BY <1>1 DEF Typed, TypeOK, StoreKnown, AllKnown
<1>2. ASSUME StoreKnown, AllKnown PROVE Typed
  BY <1>2 DEF Typed, TypeOK, StoreKnown, AllKnown
<1> QED BY <1>1, <1>2

LEMMA TypedInit == Init => Typed
<1> SUFFICES ASSUME Init PROVE Typed
  OBVIOUS
<1>1. AllKnown
  BY IdleKnown DEF Init, AllKnown, RequestKnown
<1>2. StoreKnown
  BY AccountsAssumption
     DEF Init, StoreKnown, Invitation, Link, Times, Expiries, Registered
<1> QED BY <1>1, <1>2, TypedParts

LEMMA NewInvitationKnown ==
    ASSUME NEW u \in Users, NEW at \in Times
    PROVE  NewInvitation(u, at) \in Invitation
BY AccountsAssumption DEF NewInvitation, Invitation, Times, Expiries

\* A step that only reads.
LEMMA ReadsTyped ==
    ASSUME Typed, AllKnown', UNCHANGED <<store, failures, history>>
    PROVE  Typed'
<1>1. StoreKnown'
  BY TypedParts DEF StoreKnown, store, history
<1> QED BY <1>1, TypedParts, PTL

LEMMA TypedStep ==
    ASSUME Typed, NEW r \in Requests, Step(r)
    PROVE  Typed'
<1> DEFINE pc == req[r].pc
<1>s. StoreKnown /\ RequestKnown(req[r]) /\ req[r] \in Request
  BY TypedParts DEF Typed, RequestKnown
<1> USE DEF store, history
<1>1. CASE ReissueRead(r)
  <2>1. SameBranch(req[r].pc, "reissueBatch")
    BY <1>1 DEF ReissueRead, SameBranch, Reissuing, Activating, Registering, Mailing, Following
  <2> QED BY <1>1, <2>1, GotoIfKnown, ReadsTyped DEF ReissueRead, Reads, PCs
<1>2. CASE ReissueBatch(r)
  <2>1. req[r].user \in Users /\ req[r].inv \in Invitations /\ req[r].now \in Times
    BY <1>s, <1>2 DEF ReissueBatch, RequestKnown, Reissuing, Request
  <2>2. invitation' \in [Invitations -> Invitation]
    <3>1. \A i \in Invitations : invitation[i] \in Invitation
      BY <1>s DEF StoreKnown
    <3>2. NewInvitation(req[r].user, req[r].now) \in Invitation
      BY <2>1, NewInvitationKnown
    <3>3. \A i \in Invitations : [invitation[i] EXCEPT !.expires = req[r].now] \in Invitation
      BY <3>1, <2>1, AccountsAssumption DEF Invitation, Expiries, Times
    <3> QED BY <1>2, <3>1, <3>2, <3>3 DEF ReissueBatch
  <2>3. AllKnown'
    BY <1>2, OvertakeKnown DEF ReissueBatch
  <2>4. StoreKnown'
    BY <1>s, <1>2, <2>1, <2>2 DEF ReissueBatch, StoreKnown
  <2> QED BY <2>3, <2>4, TypedParts, PTL
<1>3. CASE ReadInvitation(r)
  <2>1. SameBranch(req[r].pc, "readUser")
    BY <1>3 DEF ReadInvitation, SameBranch, Reissuing, Activating, Registering, Mailing, Following
  <2> QED BY <1>3, <2>1, GotoIfKnown, ReadsTyped DEF ReadInvitation, Reads, PCs
<1>4. CASE ReadUser(r)
  <2>1. SameBranch(req[r].pc, "activate")
    BY <1>4 DEF ReadUser, SameBranch, Reissuing, Activating, Registering, Mailing, Following
  <2> QED BY <1>4, <2>1, GotoIfKnown, ReadsTyped DEF ReadUser, Reads, PCs
<1>5. CASE Activate(r)
  <2>1. req[r].user \in Users /\ req[r].inv \in Invitations
    BY <1>s, <1>5 DEF Activate, RequestKnown, Activating
  <2>2. SameBranch(req[r].pc, "activated") /\ SameBranch(req[r].pc, "recheck")
    BY <1>5 DEF Activate, SameBranch, Reissuing, Activating, Registering, Mailing, Following
  <2>3. AllKnown'
    BY <1>5, <2>2, GotoKnown DEF Activate, PCs
  <2>4. [invitation EXCEPT ![req[r].inv].consumed = TRUE] \in [Invitations -> Invitation]
    BY <1>s, <2>1 DEF StoreKnown, Invitation
  <2>5. StoreKnown'
    BY <1>s, <1>5, <2>1, <2>4 DEF Activate, StoreKnown
  <2> QED BY <2>3, <2>5, TypedParts, PTL
<1>6. CASE AnswerActivation(r)
  BY <1>6, FinishKnown, ReadsTyped DEF AnswerActivation, Reads
<1>7. CASE RegChallenge(r)
  <2>1. SameBranch(req[r].pc, "regEmail")
    BY <1>7 DEF RegChallenge, SameBranch, Reissuing, Activating, Registering, Mailing, Following
  <2> QED BY <1>7, <2>1, GotoIfKnown, ReadsTyped DEF RegChallenge, Reads, PCs
<1>8. CASE RegEmail(r)
  <2>1. SameBranch(req[r].pc, "regConsume")
    BY <1>8 DEF RegEmail, SameBranch, Reissuing, Activating, Registering, Mailing, Following
  <2> QED BY <1>8, <2>1, GotoIfKnown, ReadsTyped DEF RegEmail, Reads, PCs
<1>9. CASE RegConsume(r)
  <2>1. SameBranch(req[r].pc, "regCreate") /\ req[r].challenge \in Challenges
    BY <1>s, <1>9 DEF RegConsume, SameBranch, RequestKnown, Reissuing, Activating, Registering, Mailing, Following
  <2>2. AllKnown'
    BY <1>9, <2>1, GotoIfKnown DEF RegConsume, PCs
  <2>3. StoreKnown'
    BY <1>s, <1>9, <2>1 DEF RegConsume, StoreKnown
  <2> QED BY <2>2, <2>3, TypedParts, PTL
<1>10. CASE RegCreate(r)
  <2>1. SameBranch(req[r].pc, "regPassword") /\ req[r].user \in Users
    BY <1>s, <1>10 DEF RegCreate, SameBranch, RequestKnown, Reissuing, Activating, Registering, Mailing, Following
  <2>2. AllKnown'
    BY <1>10, <2>1, GotoIfKnown DEF RegCreate, PCs
  <2>3. StoreKnown'
    BY <1>s, <1>10, <2>1 DEF RegCreate, StoreKnown
  <2> QED BY <2>2, <2>3, TypedParts, PTL
<1>11. CASE RegPassword(r)
  <2>1. SameBranch(req[r].pc, "regSession") /\ req[r].user \in Users
    BY <1>s, <1>11 DEF RegPassword, SameBranch, RequestKnown, Reissuing, Activating, Registering, Mailing, Following
  <2>2. AllKnown'
    BY <1>11, <2>1, GotoKnown DEF RegPassword, PCs
  <2>3. StoreKnown'
    BY <1>s, <1>11, <2>1 DEF RegPassword, StoreKnown
  <2> QED BY <2>2, <2>3, TypedParts, PTL
<1>12. CASE RegisterSession(r) \/ LinkSession(r)
  <2>1. req[r].challenge \in Challenges
    BY <1>s, <1>12 DEF RegisterSession, LinkSession, RequestKnown, Registering, Following
  <2>2. AllKnown'
    BY <1>12, FinishKnown DEF RegisterSession, LinkSession, CreateSession
  <2>3. StoreKnown'
    BY <1>s, <1>12, <2>1 DEF RegisterSession, LinkSession, CreateSession, StoreKnown
  <2> QED BY <2>2, <2>3, TypedParts, PTL
<1>13. CASE LinkChallenge(r)
  <2>1. SameBranch(req[r].pc, "linkCreate")
    BY <1>13 DEF LinkChallenge, SameBranch, Reissuing, Activating, Registering, Mailing, Following
  <2> QED BY <1>13, <2>1, GotoIfKnown, ReadsTyped DEF LinkChallenge, Reads, PCs
<1>14. CASE LinkCreate(r)
  <2> DEFINE k == [user |-> req[r].user, challenge |-> req[r].challenge,
                   expires |-> req[r].now + Ttl, consumed |-> FALSE]
  <2>1. /\ req[r].user \in Users /\ req[r].challenge \in Challenges
        /\ req[r].link \in Links /\ req[r].now \in Times
    BY <1>s, <1>14 DEF LinkCreate, RequestKnown, Mailing, Request
  <2>2. k \in Link
    BY <2>1, AccountsAssumption DEF Link, Times, Expiries
  <2>3. AllKnown'
    BY <1>14, FinishKnown DEF LinkCreate
  <2>4. link' = link \/ link' = [link EXCEPT ![req[r].link] = k]
    BY <1>14 DEF LinkCreate
  <2>5. k.challenge = req[r].challenge
    OBVIOUS
  <2> HIDE DEF k
  <2>6. /\ link' \in [Links -> Link]
        /\ \A l \in Links : link'[l].user # None => link'[l].challenge \in Challenges
    BY <1>s, <2>1, <2>2, <2>4, <2>5 DEF StoreKnown
  <2>7. StoreKnown'
    BY <1>s, <1>14, <2>6 DEF LinkCreate, StoreKnown
  <2> QED BY <2>3, <2>7, TypedParts, PTL
<1>15. CASE FindLink(r)
  <2>1. SameBranch(req[r].pc, "checkChallenge")
    BY <1>15 DEF FindLink, SameBranch, Reissuing, Activating, Registering, Mailing, Following
  <2> QED BY <1>15, <2>1, GotoIfKnown, ReadsTyped DEF FindLink, Reads, PCs
<1>16. CASE CheckChallenge(r)
  <2>1. SameBranch(req[r].pc, "consumeLink")
    BY <1>16 DEF CheckChallenge, SameBranch, Reissuing, Activating, Registering, Mailing, Following
  <2> QED BY <1>16, <2>1, GotoIfKnown, ReadsTyped DEF CheckChallenge, Reads, PCs
<1>17. CASE ConsumeLink(r)
  <2>1. SameBranch(req[r].pc, "consumeChallenge") /\ req[r].link \in Links
    BY <1>s, <1>17 DEF ConsumeLink, SameBranch, RequestKnown, Reissuing, Activating, Registering, Mailing, Following
  <2>2. AllKnown'
    BY <1>17, <2>1, GotoIfKnown DEF ConsumeLink, PCs
  <2>3. link' \in [Links -> Link]
    <3>1. ASSUME NEW k \in Link PROVE [k EXCEPT !.consumed = TRUE] \in Link
      BY DEF Link
    <3>2. [link EXCEPT ![req[r].link].consumed = TRUE] \in [Links -> Link]
      BY <1>s, <2>1, <3>1 DEF StoreKnown
    <3> QED BY <1>17, <3>2 DEF ConsumeLink
  <2>4. \A l \in Links : link'[l].user = link[l].user /\ link'[l].challenge = link[l].challenge
    BY <1>s, <1>17, <2>1 DEF ConsumeLink, StoreKnown, Link
  <2>5. proofs' \in [Links -> Nat]
    BY <1>s, <1>17, <2>1 DEF ConsumeLink, StoreKnown
  <2>6. StoreKnown'
    BY <1>s, <1>17, <2>3, <2>4, <2>5 DEF ConsumeLink, StoreKnown
  <2> QED BY <2>2, <2>6, TypedParts, PTL
<1>18. CASE ConsumeChallenge(r)
  <2>1. SameBranch(req[r].pc, "linkSession") /\ req[r].challenge \in Challenges
    BY <1>s, <1>18 DEF ConsumeChallenge, SameBranch, RequestKnown, Reissuing, Activating, Registering, Mailing, Following
  <2>2. AllKnown'
    BY <1>18, <2>1, GotoIfKnown, FinishKnown DEF ConsumeChallenge, PCs
  <2>3. StoreKnown'
    BY <1>s, <1>18, <2>1 DEF ConsumeChallenge, StoreKnown
  <2> QED BY <2>2, <2>3, TypedParts, PTL
<1> QED BY <1>1, <1>2, <1>3, <1>4, <1>5, <1>6, <1>7, <1>8, <1>9, <1>10, <1>11,
           <1>12, <1>13, <1>14, <1>15, <1>16, <1>17, <1>18 DEF Step

LEMMA TypedNext == Typed /\ [Next]_vars => Typed'
<1> SUFFICES ASSUME Typed, [Next]_vars PROVE Typed'
  OBVIOUS
<1>s. StoreKnown /\ AllKnown
  BY TypedParts
<1> USE DEF store, history
<1>1. ASSUME NEW u \in Users, NEW i \in Invitations, Provision(u, i) PROVE Typed'
  <2>1. NewInvitation(u, now) \in Invitation
    BY <1>s, NewInvitationKnown DEF StoreKnown
  <2>2. StoreKnown'
    BY <1>s, <1>1, <2>1 DEF Provision, StoreKnown
  <2>3. AllKnown'
    BY <1>s, <1>1 DEF Provision, AllKnown
  <2> QED BY <2>2, <2>3, TypedParts, PTL
<1>2. ASSUME NEW r \in Requests, Arrivals(r) PROVE Typed'
  BY <1>2, ArrivalsKnown, ReadsTyped
<1>3. ASSUME NEW r \in Requests, Fail(r) PROVE Typed'
  <2>1. req[r].pc = "regPassword" => req[r].user \in Users
    BY <1>s DEF AllKnown, RequestKnown, Registering
  <2>2. StoreKnown'
    BY <1>s, <1>3, <2>1, AccountsAssumption DEF Fail, StoreKnown
  <2>3. AllKnown'
    BY <1>3, FinishKnown DEF Fail
  <2> QED BY <2>2, <2>3, TypedParts, PTL
<1>4. CASE Tick
  <2>1. StoreKnown'
    BY <1>s, <1>4, AccountsAssumption DEF Tick, StoreKnown, Times
  <2>2. AllKnown'
    BY <1>s, <1>4 DEF Tick, AllKnown
  <2> QED BY <2>1, <2>2, TypedParts, PTL
<1>5. CASE UNCHANGED vars
  <2>1. StoreKnown' /\ AllKnown'
    BY <1>s, <1>5 DEF vars, StoreKnown, AllKnown
  <2> QED BY <2>1, TypedParts, PTL
<1> QED BY <1>1, <1>2, <1>3, <1>4, <1>5, TypedStep DEF Next

(* Every variable keeps its type, and a request carries the user, the      *)
(* invitation, the link or the challenge that its position speaks of.      *)
THEOREM TypeCorrect == Spec => []TypeOK
<1>1. Spec => []Typed
  BY TypedInit, TypedNext, PTL DEF Spec
<1>2. Typed => TypeOK
  BY DEF Typed
<1> QED BY <1>1, <1>2, PTL

-----------------------------------------------------------------------------
(* What an account is made of.  An address without an account has no       *)
(* password and nobody writes to it; an account that registered itself has *)
(* no invitation, so that nothing but its own registration can give it a   *)
(* password.                                                               *)

NoInvitation(u) ==
    /\ \A i \in Invitations : invitation[i].user # u
    /\ \A r \in Requests : req[r].pc = "reissueBatch" => req[r].user # u

Alone(u) == status[u] = "active" /\ credential[u] = None /\ NoInvitation(u)

UnusedAddresses ==
    \A u \in Users : status[u] = "none" => credential[u] = None /\ NoInvitation(u)

SelfRegistered ==
    /\ \A u \in stranded : Alone(u)
    /\ \A r \in Requests : req[r].pc = "regPassword" =>
         /\ Alone(req[r].user) /\ req[r].user \notin stranded
         /\ \A q \in Requests \ {r} :
              req[q].pc = "regPassword" => req[q].user # req[r].user

FreshInvitations ==
    \A r \in Requests : req[r].pc \in Reissuing =>
        /\ invitation[req[r].inv].user = None
        /\ \A q \in Requests \ {r} : req[q].inv # req[r].inv

OwnInvitations ==
    \A r \in Requests :
        req[r].pc \in Activating => invitation[req[r].inv].user = req[r].user

Accounted ==
    /\ UnusedAddresses /\ SelfRegistered /\ FreshInvitations /\ OwnInvitations
    /\ ActiveHasPassword

(* What the invitations are worth. *)

Timely == \A r \in Requests : req[r].pc \in Reissuing => req[r].now <= now

SupersededExpired ==
    \A i \in superseded : /\ invitation[i].user # None
                          /\ invitation[i].consumed \/ invitation[i].expires <= now

LateIsRefused ==
    \A r \in Requests : req[r].late /\ req[r].pc \in Activating =>
        /\ req[r].pc = "readInvitation"
        /\ \/ invitation[req[r].inv].consumed
           \/ invitation[req[r].inv].expires <= req[r].now

Invited == Timely /\ SingleLiveInvitation /\ SupersededExpired /\ LateIsRefused

(* What the links and the challenges have been used for. *)

Closing == {"regCreate", "regPassword", "regSession", "linkSession"}

LinksOnce ==
    \A l \in Links : /\ proofs[l] <= 1
                     /\ ~link[l].consumed => proofs[l] = 0
                     /\ link[l].user = None => ~link[l].consumed

FreshLinks ==
    \A r \in Requests : req[r].pc \in Mailing =>
        /\ link[req[r].link].user = None
        /\ \A q \in Requests \ {r} : req[q].link # req[r].link

MailedLinks ==
    \A r \in Requests : req[r].pc \in Following => link[req[r].link].user # None

ChallengesOnce ==
    /\ \A c \in Challenges : /\ sessions[c] <= 1
                             /\ c \notin consumed => sessions[c] = 0
    /\ \A r \in Requests : req[r].pc \in Closing =>
         /\ req[r].challenge \in consumed /\ sessions[req[r].challenge] = 0
         /\ \A q \in Requests \ {r} :
              req[q].pc \in Closing => req[q].challenge # req[r].challenge

Proven == LinksOnce /\ FreshLinks /\ MailedLinks /\ ChallengesOnce

-----------------------------------------------------------------------------
(* Every step moves one request; what it does to it and to the others. *)

Others(r) ==
    \A q \in Requests \ {r} :
        /\ req'[q].pc = req[q].pc /\ req'[q].user = req[q].user
        /\ req'[q].inv = req[q].inv /\ req'[q].link = req[q].link
        /\ req'[q].challenge = req[q].challenge /\ req'[q].now = req[q].now
        /\ req'[q].late => req[q].late

Moves(r, pc) ==
    /\ Others(r)
    /\ req'[r].pc = pc
    /\ req'[r].user = req[r].user /\ req'[r].inv = req[r].inv
    /\ req'[r].link = req[r].link /\ req'[r].challenge = req[r].challenge
    /\ req'[r].now = req[r].now /\ req'[r].late = req[r].late

Ends(r) == Others(r) /\ req'[r] = Idle

LEMMA GotoIsMove ==
    ASSUME Typed, NEW r \in Requests, NEW pc, Goto(r, pc) PROVE Moves(r, pc)
BY GotoMoves DEF Moves, Others

LEMMA FinishIsEnd ==
    ASSUME Typed, NEW r \in Requests, Finish(r) PROVE Ends(r)
BY FinishEnds DEF Ends, Others

LEMMA GotoIfIsEither ==
    ASSUME Typed, NEW r \in Requests, NEW cond, NEW pc, GotoIf(r, cond, pc)
    PROVE  \/ cond /\ Moves(r, pc)
           \/ ~cond /\ Ends(r)
BY GotoIsMove, FinishIsEnd DEF GotoIf

LEMMA OvertakeIsEnd ==
    ASSUME Typed, NEW r \in Requests, Overtake(r) PROVE Ends(r)
BY OvertakeEnds DEF Ends, Others

LEMMA StartIsStart ==
    ASSUME Typed, NEW r \in Requests, NEW q, Start(r, q)
    PROVE  Others(r) /\ req[r] = Idle /\ req'[r] = q
BY DEF Typed, TypeOK, Start, Others

-----------------------------------------------------------------------------
(* Accounts *)

\* An account stays alone, and no other registration is about to end.
LEMMA StillSelfRegistered ==
    ASSUME Typed, SelfRegistered, stranded' \subseteq stranded,
           \A v \in Users : Alone(v) => Alone(v)',
           \A q \in Requests : req'[q].pc = "regPassword" =>
               req[q].pc = "regPassword" /\ req'[q].user = req[q].user
    PROVE  SelfRegistered'
<1>1. stranded \subseteq Users /\ \A q \in Requests : req[q].pc = "regPassword" => req[q].user \in Users
  BY DEF Typed, TypeOK, RequestKnown, Registering
<1>2. (\A v \in stranded : Alone(v))'
  BY <1>1 DEF SelfRegistered
<1>3. ASSUME NEW q \in Requests, req'[q].pc = "regPassword"
      PROVE  (Alone(req[q].user) /\ req[q].user \notin stranded)'
  <2>1. PICK v \in Users : v = req[q].user /\ v = req'[q].user
    BY <1>1, <1>3
  <2>2. Alone(v) /\ v \notin stranded
    BY <1>3, <2>1 DEF SelfRegistered
  <2>3. Alone(v)' /\ v \notin stranded'
    BY <2>2
  <2> QED BY <2>1, <2>3 DEF Alone, NoInvitation
<1> QED BY <1>2, <1>3 DEF SelfRegistered

\* A step that no account notices: r neither begins to reissue, activate or
\* store a password nor has just done so.
Unnoticed(r) ==
    /\ UNCHANGED <<status, credential, invitation, stranded>>
    /\ Others(r)
    /\ req[r].pc # "regPassword"
    /\ req'[r].pc \notin {"reissueBatch", "regPassword"}
    /\ req'[r].inv \in {None, req[r].inv}
    /\ req'[r].pc \in Reissuing \cup Activating =>
         /\ req'[r].inv = req[r].inv /\ req'[r].user = req[r].user
         /\ SameBranch(req[r].pc, req'[r].pc)

LEMMA UnnoticedAccounted ==
    ASSUME Typed, Typed', Accounted, NEW r \in Requests, Unnoticed(r)
    PROVE  Accounted'
<1>t. \A q \in Requests : RequestKnown(req[q])
  BY DEF Typed
<1>1. \A u \in Users : NoInvitation(u) => NoInvitation(u)'
  BY DEF Unnoticed, Others, NoInvitation
<1>2. UnusedAddresses'
  BY <1>1 DEF Accounted, UnusedAddresses, Unnoticed
<1>3. SelfRegistered'
  <2>1. \A u \in Users : Alone(u) => Alone(u)'
    BY <1>1 DEF Alone, Unnoticed
  <2>2. \A q \in Requests : req'[q].pc = "regPassword" =>
           req[q].pc = "regPassword" /\ req'[q].user = req[q].user
    BY DEF Unnoticed, Others
  <2> QED BY <2>1, <2>2, StillSelfRegistered DEF Accounted, Unnoticed
<1>4. FreshInvitations'
  <2>1. \A q \in Requests : req'[q].pc \in Reissuing =>
           req[q].pc \in Reissuing /\ req'[q].inv = req[q].inv /\ req[q].inv # None
    BY <1>t, AccountsAssumption DEF Unnoticed, Others, SameBranch, RequestKnown
  <2>2. \A q \in Requests : req'[q].inv \in {None, req[q].inv}
    BY DEF Unnoticed, Others
  <2> QED BY <2>1, <2>2 DEF Accounted, FreshInvitations, Unnoticed
<1>5. OwnInvitations'
  BY DEF Accounted, OwnInvitations, Unnoticed, Others, SameBranch
<1>6. ActiveHasPassword'
  BY DEF Accounted, ActiveHasPassword, Unnoticed, Others
<1> QED BY <1>2, <1>3, <1>4, <1>5, <1>6 DEF Accounted

LEMMA ProvisionAccounted ==
    ASSUME Typed, Accounted, NEW u \in Users, NEW i \in Invitations, Provision(u, i)
    PROVE  Accounted'
<1>t. /\ status \in [Users -> {"none", "provisioned", "active"}]
      /\ invitation \in [Invitations -> Invitation] /\ stranded \subseteq Users
      /\ \A q \in Requests : RequestKnown(req[q])
  BY DEF Typed, TypeOK
<1>1. /\ UNCHANGED <<credential, stranded, req>>
      /\ status' = [status EXCEPT ![u] = "provisioned"] /\ status[u] = "none"
      /\ invitation'[i].user = u /\ invitation[i].user = None
      /\ \A j \in Invitations \ {i} : invitation'[j] = invitation[j]
      /\ \A q \in Requests : req[q].inv # i
  BY <1>t DEF Provision, history, NewInvitation, FreshInvitation
<1>2. \A v \in Users \ {u} : NoInvitation(v) => NoInvitation(v)'
  BY <1>1 DEF NoInvitation
<1>3. \A v \in Users : Alone(v) => Alone(v)'
  BY <1>t, <1>1, <1>2 DEF Alone
<1>4. UnusedAddresses'
  BY <1>t, <1>1, <1>2 DEF Accounted, UnusedAddresses
<1>5. SelfRegistered'
  BY <1>1, <1>3, StillSelfRegistered DEF Accounted
<1>6. FreshInvitations'
  BY <1>t, <1>1 DEF Accounted, FreshInvitations, RequestKnown
<1>7. OwnInvitations'
  BY <1>t, <1>1 DEF Accounted, OwnInvitations, RequestKnown
<1>8. ActiveHasPassword'
  BY <1>t, <1>1 DEF Accounted, ActiveHasPassword
<1> QED BY <1>4, <1>5, <1>6, <1>7, <1>8 DEF Accounted

LEMMA StartReissueAccounted ==
    ASSUME Typed, Accounted, NEW r \in Requests, NEW u \in Users,
           NEW i \in Invitations, StartReissue(r, u, i)
    PROVE  Accounted'
<1>t. \A q \in Requests : RequestKnown(req[q])
  BY DEF Typed
<1>1. /\ Others(r) /\ req[r] = Idle
      /\ req'[r].pc = "reissue" /\ req'[r].user = u /\ req'[r].inv = i
      /\ UNCHANGED <<status, credential, invitation, stranded>>
      /\ invitation[i].user = None /\ \A q \in Requests : req[q].inv # i
  <2> DEFINE q == [Idle EXCEPT !.pc = "reissue", !.user = u, !.inv = i, !.now = now]
  <2>1. Start(r, q) /\ FreshInvitation(i)
    BY DEF StartReissue
  <2>2. q.pc = "reissue" /\ q.user = u /\ q.inv = i
    BY DEF Idle
  <2>3. UNCHANGED <<status, credential, invitation, stranded>>
    BY <2>1 DEF Start, Reads, store, history
  <2> HIDE DEF q
  <2> QED BY <2>1, <2>2, <2>3, StartIsStart DEF FreshInvitation
<1>2. \A v : NoInvitation(v) => NoInvitation(v)'
  BY <1>1 DEF NoInvitation, Others
<1>3. \A v : Alone(v) => Alone(v)'
  BY <1>1, <1>2 DEF Alone
<1>4. UnusedAddresses'
  BY <1>1, <1>2 DEF Accounted, UnusedAddresses
<1>5. SelfRegistered'
  <2>1. \A q \in Requests : req'[q].pc = "regPassword" =>
           req[q].pc = "regPassword" /\ req'[q].user = req[q].user
    BY <1>1 DEF Others
  <2> QED BY <1>1, <1>3, <2>1, StillSelfRegistered DEF Accounted
<1>6. FreshInvitations'
  BY <1>t, <1>1 DEF Accounted, FreshInvitations, Others, RequestKnown
<1>7. OwnInvitations'
  BY <1>1 DEF Accounted, OwnInvitations, Others, Activating
<1>8. ActiveHasPassword'
  BY <1>1 DEF Accounted, ActiveHasPassword, Others, Idle
<1> QED BY <1>4, <1>5, <1>6, <1>7, <1>8 DEF Accounted

LEMMA StartActivateAccounted ==
    ASSUME Typed, Accounted, NEW r \in Requests, NEW i \in Invitations,
           StartActivate(r, i)
    PROVE  Accounted'
<1>t. \A q \in Requests : RequestKnown(req[q])
  BY DEF Typed
<1>1. /\ Others(r) /\ req[r] = Idle
      /\ req'[r].pc = "readInvitation" /\ req'[r].inv = i
      /\ req'[r].user = invitation[i].user
      /\ UNCHANGED <<status, credential, invitation, stranded>>
      /\ invitation[i].user # None
  <2> DEFINE q == [Idle EXCEPT !.pc = "readInvitation", !.inv = i, !.now = now,
                               !.user = invitation[i].user,
                               !.late = i \in superseded]
  <2>1. Start(r, q) /\ invitation[i].user # None
    BY DEF StartActivate
  <2>2. q.pc = "readInvitation" /\ q.inv = i /\ q.user = invitation[i].user
    BY DEF Idle
  <2>3. UNCHANGED <<status, credential, invitation, stranded>>
    BY <2>1 DEF Start, Reads, store, history
  <2> HIDE DEF q
  <2> QED BY <2>1, <2>2, <2>3, StartIsStart
<1>2. \A v : NoInvitation(v) => NoInvitation(v)'
  BY <1>1 DEF NoInvitation, Others
<1>3. \A v : Alone(v) => Alone(v)'
  BY <1>1, <1>2 DEF Alone
<1>4. UnusedAddresses'
  BY <1>1, <1>2 DEF Accounted, UnusedAddresses
<1>5. SelfRegistered'
  <2>1. \A q \in Requests : req'[q].pc = "regPassword" =>
           req[q].pc = "regPassword" /\ req'[q].user = req[q].user
    BY <1>1 DEF Others
  <2> QED BY <1>1, <1>3, <2>1, StillSelfRegistered DEF Accounted
<1>6. FreshInvitations'
  BY <1>t, <1>1 DEF Accounted, FreshInvitations, Others, Reissuing
<1>7. OwnInvitations'
  BY <1>1 DEF Accounted, OwnInvitations, Others
<1>8. ActiveHasPassword'
  BY <1>1 DEF Accounted, ActiveHasPassword, Others, Idle
<1> QED BY <1>4, <1>5, <1>6, <1>7, <1>8 DEF Accounted

LEMMA ReissueReadAccounted ==
    ASSUME Typed, Typed', Accounted, NEW r \in Requests, ReissueRead(r)
    PROVE  Accounted'
<1>0. UNCHANGED <<status, credential, invitation, stranded>> /\ req[r].pc = "reissue"
  BY DEF ReissueRead, Reads, store, history
<1>1. CASE Ends(r)
  BY <1>0, <1>1, UnnoticedAccounted, IdleKnown
     DEF Ends, Unnoticed, Reissuing, Activating
<1>2. CASE status[req[r].user] = "provisioned" /\ Moves(r, "reissueBatch")
  <2>t. req[r].user \in Users
    BY <1>0 DEF Typed, RequestKnown, Reissuing
  <2>1. \A v \in Users : (status[v] # "provisioned" /\ NoInvitation(v)) => NoInvitation(v)'
    BY <1>0, <1>2 DEF NoInvitation, Moves, Others
  <2>2. \A v \in Users : Alone(v) => Alone(v)'
    BY <1>0, <2>1 DEF Alone
  <2>3. UnusedAddresses'
    BY <1>0, <2>1 DEF Accounted, UnusedAddresses
  <2>4. SelfRegistered'
    <3>1. \A q \in Requests : req'[q].pc = "regPassword" =>
             req[q].pc = "regPassword" /\ req'[q].user = req[q].user
      BY <1>2 DEF Moves, Others
    <3> QED BY <1>0, <2>2, <3>1, StillSelfRegistered DEF Accounted
  <2>5. FreshInvitations'
    BY <1>0, <1>2 DEF Accounted, FreshInvitations, Moves, Others, Reissuing
  <2>6. OwnInvitations'
    BY <1>0, <1>2 DEF Accounted, OwnInvitations, Moves, Others, Activating
  <2>7. ActiveHasPassword'
    BY <1>0, <1>2 DEF Accounted, ActiveHasPassword, Moves, Others
  <2> QED BY <2>3, <2>4, <2>5, <2>6, <2>7 DEF Accounted
<1>3. Ends(r) \/ (status[req[r].user] = "provisioned" /\ Moves(r, "reissueBatch"))
  BY GotoIfIsEither DEF ReissueRead
<1> QED BY <1>1, <1>2, <1>3

LEMMA ReissueBatchAccounted ==
    ASSUME Typed, Accounted, NEW r \in Requests, ReissueBatch(r)
    PROVE  Accounted'
<1> DEFINE u == req[r].user
           i == req[r].inv
<1>t. /\ invitation \in [Invitations -> Invitation] /\ stranded \subseteq Users
      /\ u \in Users /\ i \in Invitations
      /\ \A q \in Requests : RequestKnown(req[q])
  BY DEF Typed, TypeOK, ReissueBatch, RequestKnown, Reissuing
<1>1. /\ UNCHANGED <<status, credential, stranded>> /\ Ends(r)
      /\ req[r].pc = "reissueBatch"
      /\ invitation'[i].user = u
      /\ \A j \in Invitations \ {i} : invitation'[j].user = invitation[j].user
  <2>1. Ends(r)
    BY OvertakeIsEnd DEF ReissueBatch
  <2>2. invitation'[i].user = u
    BY <1>t DEF ReissueBatch, NewInvitation
  <2>3. \A j \in Invitations \ {i} : invitation'[j].user = invitation[j].user
    BY <1>t DEF ReissueBatch, Invitation
  <2> QED BY <2>1, <2>2, <2>3 DEF ReissueBatch
<1> HIDE DEF u, i
<1>2. ~NoInvitation(u) /\ i = req[r].inv /\ u = req[r].user
  BY <1>1 DEF NoInvitation, u, i
<1>e. req'[r].pc = "idle" /\ req'[r].inv = None
  BY <1>1, IdleKnown DEF Ends
<1>3. \A v \in Users : NoInvitation(v) => NoInvitation(v)'
  BY <1>t, <1>1, <1>2, <1>e DEF NoInvitation, Ends, Others
<1>4. \A v \in Users : Alone(v) => Alone(v)'
  BY <1>1, <1>3 DEF Alone
<1>5. UnusedAddresses'
  BY <1>1, <1>3 DEF Accounted, UnusedAddresses
<1>6. SelfRegistered'
  <2>1. \A q \in Requests : req'[q].pc = "regPassword" =>
           req[q].pc = "regPassword" /\ req'[q].user = req[q].user
    BY <1>1, <1>e DEF Ends, Others
  <2> QED BY <1>1, <1>4, <2>1, StillSelfRegistered DEF Accounted
<1>7. \A q \in Requests \ {r} : req[q].inv # i
  BY <1>1, <1>2 DEF Accounted, FreshInvitations, Reissuing
<1>8. FreshInvitations'
  <2>1. \A q \in Requests : req'[q].pc \in Reissuing =>
           /\ q # r /\ req[q].pc \in Reissuing /\ req'[q].inv = req[q].inv
           /\ req[q].inv \in Invitations \ {i}
    BY <1>t, <1>1, <1>e, <1>7 DEF Ends, Others, RequestKnown, Reissuing
  <2>2. \A q \in Requests : req'[q].inv \in {None, req[q].inv}
    BY <1>1, <1>e DEF Ends, Others
  <2>3. None \notin Invitations
    BY AccountsAssumption
  <2> QED BY <1>1, <2>1, <2>2, <2>3 DEF Accounted, FreshInvitations
<1>9. OwnInvitations'
  BY <1>t, <1>1, <1>e, <1>7 DEF Accounted, OwnInvitations, Ends, Others, RequestKnown, Activating
<1>10. ActiveHasPassword'
  BY <1>1 DEF Accounted, ActiveHasPassword, Ends, Others
<1> QED BY <1>5, <1>6, <1>8, <1>9, <1>10 DEF Accounted

LEMMA ActivateAccounted ==
    ASSUME Typed, Typed', Accounted, NEW r \in Requests, Activate(r)
    PROVE  Accounted'
<1> DEFINE u == req[r].user
           i == req[r].inv
<1>t. /\ invitation \in [Invitations -> Invitation] /\ stranded \subseteq Users
      /\ status \in [Users -> {"none", "provisioned", "active"}]
      /\ credential \in [Users -> Invitations \cup {None, Registered}]
      /\ u \in Users /\ i \in Invitations /\ req[r].pc = "activate"
      /\ \A q \in Requests : RequestKnown(req[q])
  BY DEF Typed, TypeOK, Activate, RequestKnown, Activating
<1>1. CASE credential[u] = None /\ Goto(r, "activated")
  <2>1. /\ UNCHANGED stranded /\ Moves(r, "activated")
        /\ status' = [status EXCEPT ![u] = "active"]
        /\ credential' = [credential EXCEPT ![u] = i]
        /\ \A j \in Invitations : invitation'[j].user = invitation[j].user
    <3>1. \A j \in Invitations : invitation'[j].user = invitation[j].user
      BY <1>t, <1>1 DEF Activate, Invitation
    <3>2. UNCHANGED stranded /\ status' = [status EXCEPT ![u] = "active"]
          /\ credential' = [credential EXCEPT ![u] = i]
      BY <1>1 DEF Activate, history
    <3> QED BY <1>1, <3>1, <3>2, GotoIsMove
  <2>2. invitation[i].user = u
    BY <1>t DEF Accounted, OwnInvitations, Activating
  <2> HIDE DEF u, i
  <2>3. ~NoInvitation(u) /\ i # None /\ status[u] # "none"
    BY <1>t, <2>2, AccountsAssumption DEF NoInvitation, Accounted, UnusedAddresses
  <2>4. \A v \in Users : NoInvitation(v) => NoInvitation(v)'
    BY <2>1 DEF NoInvitation, Moves, Others
  <2>5. \A v \in Users : Alone(v) => Alone(v)'
    BY <1>t, <2>1, <2>3, <2>4 DEF Alone
  <2>6. UnusedAddresses'
    BY <1>t, <2>1, <2>4 DEF Accounted, UnusedAddresses
  <2>7. SelfRegistered'
    <3>1. \A q \in Requests : req'[q].pc = "regPassword" =>
             req[q].pc = "regPassword" /\ req'[q].user = req[q].user
      BY <2>1 DEF Moves, Others
    <3> QED BY <2>1, <2>5, <3>1, StillSelfRegistered DEF Accounted
  <2>8. FreshInvitations'
    <3>1. \A q \in Requests : req'[q].pc \in Reissuing => req[q].pc \in Reissuing
      BY <2>1 DEF Moves, Others, Reissuing
    <3>2. \A q \in Requests : req'[q].inv = req[q].inv
      BY <2>1 DEF Moves, Others
    <3>3. \A q \in Requests : req[q].pc \in Reissuing => req[q].inv \in Invitations
      BY <1>t DEF RequestKnown
    <3> QED BY <2>1, <3>1, <3>2, <3>3 DEF Accounted, FreshInvitations
  <2>9. OwnInvitations'
    <3>1. \A q \in Requests : req'[q].pc \in Activating => req[q].pc \in Activating
      BY <1>t, <2>1 DEF Moves, Others, Activating
    <3>2. \A q \in Requests : req'[q].inv = req[q].inv /\ req'[q].user = req[q].user
      BY <2>1 DEF Moves, Others
    <3>3. \A q \in Requests : req[q].pc \in Activating => req[q].inv \in Invitations
      BY <1>t DEF RequestKnown
    <3> QED BY <2>1, <3>1, <3>2, <3>3 DEF Accounted, OwnInvitations
  <2>10. ActiveHasPassword'
    BY <1>t, <2>1, <2>3 DEF Accounted, ActiveHasPassword, Moves, Others
  <2> QED BY <2>6, <2>7, <2>8, <2>9, <2>10 DEF Accounted
<1>2. CASE Goto(r, "recheck") /\ UNCHANGED <<invitation, status, credential>>
  <2>1. Moves(r, "recheck")
    BY <1>2, GotoIsMove
  <2>2. Unnoticed(r)
    BY <1>t, <1>2, <2>1 DEF Unnoticed, Moves, SameBranch, Activate, history,
       Reissuing, Activating, Registering, Mailing, Following
  <2> QED BY <2>2, UnnoticedAccounted
<1> QED BY <1>1, <1>2 DEF Activate

LEMMA RegCreateAccounted ==
    ASSUME Typed, Typed', Accounted, NEW r \in Requests, RegCreate(r)
    PROVE  Accounted'
<1>t. /\ stranded \subseteq Users
      /\ status \in [Users -> {"none", "provisioned", "active"}]
      /\ req[r].user \in Users /\ req[r].pc = "regCreate"
      /\ \A q \in Requests : RequestKnown(req[q])
  BY DEF Typed, TypeOK, RegCreate, RequestKnown, Registering
<1>u. PICK u \in Users : u = req[r].user
  BY <1>t
<1>0. UNCHANGED <<credential, invitation, stranded>>
  BY DEF RegCreate, history
<1>1. CASE status[u] # "none" /\ Ends(r)
  <2>1. Unnoticed(r)
    BY <1>t, <1>u, <1>0, <1>1, IdleKnown DEF RegCreate, Unnoticed, Ends, Reissuing, Activating
  <2> QED BY <2>1, UnnoticedAccounted
<1>2. CASE status[u] = "none" /\ Moves(r, "regPassword")
  <2>1. status' = [status EXCEPT ![u] = "active"]
    BY <1>u, <1>2 DEF RegCreate
  <2>u. u = req[r].user /\ u = req'[r].user
    BY <1>u, <1>2 DEF Moves
  <2>2. credential[u] = None /\ NoInvitation(u) /\ u \notin stranded
    BY <1>t, <1>2 DEF Accounted, UnusedAddresses, SelfRegistered, Alone
  <2>3. \A v \in Users : NoInvitation(v) => NoInvitation(v)'
    BY <1>0, <1>2 DEF NoInvitation, Moves, Others
  <2>4. \A v \in Users : Alone(v) => v # u /\ Alone(v)'
    BY <1>t, <1>0, <1>2, <2>1, <2>3 DEF Alone
  <2>5. Alone(u)'
    BY <1>t, <1>0, <2>1, <2>2, <2>3 DEF Alone
  <2>6. UnusedAddresses'
    BY <1>t, <1>0, <2>1, <2>3 DEF Accounted, UnusedAddresses
  <2>7. SelfRegistered'
    <3>1. (\A v \in stranded : Alone(v))'
      BY <1>t, <1>0, <2>4 DEF Accounted, SelfRegistered
    <3>2. ASSUME NEW q \in Requests \ {r}, req'[q].pc = "regPassword"
          PROVE  /\ (Alone(req[q].user) /\ req[q].user \notin stranded)'
                 /\ req'[q].user # u /\ req[q].pc = "regPassword"
                 /\ req'[q].user = req[q].user
      <4>1. PICK v \in Users : v = req[q].user /\ v = req'[q].user /\ req[q].pc = "regPassword"
        BY <1>t, <1>2, <3>2 DEF Moves, Others, RequestKnown, Registering
      <4>2. Alone(v) /\ v \notin stranded
        BY <4>1 DEF Accounted, SelfRegistered
      <4>3. Alone(v)' /\ v \notin stranded' /\ v # u
        BY <1>0, <2>4, <4>2
      <4> QED BY <4>1, <4>3 DEF Alone, NoInvitation
    <3>3. (Alone(req[r].user) /\ req[r].user \notin stranded)'
      BY <1>0, <2>2, <2>5, <2>u DEF Alone, NoInvitation
    <3> QED BY <2>u, <3>1, <3>2, <3>3 DEF Accounted, SelfRegistered
  <2>8. FreshInvitations'
    <3>1. \A q \in Requests : req'[q].pc \in Reissuing => req[q].pc \in Reissuing
      BY <1>2 DEF Moves, Others, Reissuing
    <3>2. \A q \in Requests : req'[q].inv = req[q].inv
      BY <1>2 DEF Moves, Others
    <3> QED BY <1>0, <3>1, <3>2 DEF Accounted, FreshInvitations
  <2>9. OwnInvitations'
    BY <1>0, <1>2 DEF Accounted, OwnInvitations, Moves, Others, Activating
  <2>10. ActiveHasPassword'
    BY <1>t, <1>0, <1>2, <2>1, <2>u DEF Accounted, ActiveHasPassword, Moves, Others
  <2> QED BY <2>6, <2>7, <2>8, <2>9, <2>10 DEF Accounted
<1>3. \/ status[u] = "none" /\ Moves(r, "regPassword")
      \/ status[u] # "none" /\ Ends(r)
  BY <1>u, GotoIfIsEither DEF RegCreate
<1> QED BY <1>1, <1>2, <1>3

\* The registration stores its password, or dies before it does.
LEMMA RegPasswordAccounted ==
    ASSUME Typed, Accounted, NEW r \in Requests, req[r].pc = "regPassword",
           UNCHANGED <<status, invitation>>,
           \/ /\ credential' = [credential EXCEPT ![req[r].user] = Registered]
              /\ UNCHANGED stranded /\ Moves(r, "regSession")
           \/ /\ UNCHANGED credential /\ Ends(r)
              /\ stranded' = stranded \cup {req[r].user}
    PROVE  Accounted'
<1>t. /\ stranded \subseteq Users
      /\ credential \in [Users -> Invitations \cup {None, Registered}]
      /\ req[r].user \in Users
      /\ \A q \in Requests : RequestKnown(req[q])
  BY DEF Typed, TypeOK, RequestKnown, Registering
<1>u. PICK u \in Users : u = req[r].user
  BY <1>t
<1>1. Others(r) /\ req'[r].pc \in {"idle", "regSession"} /\ req'[r].inv \in {None, req[r].inv}
  BY IdleKnown DEF Moves, Ends
<1>2. /\ \A v \in Users \ {u} : credential'[v] = credential[v]
      /\ credential'[u] # None \/ (credential' = credential /\ u \in stranded')
      /\ stranded \subseteq stranded' /\ stranded' \subseteq stranded \cup {u}
      /\ u \in stranded' => credential' = credential \/ u \in stranded
  BY <1>t, <1>u, AccountsAssumption DEF Registered
<1>3. Alone(u) /\ u \notin stranded /\ \A q \in Requests \ {r} :
         req[q].pc = "regPassword" => req[q].user # u
  BY <1>u DEF Accounted, SelfRegistered
<1>4. \A v \in Users : NoInvitation(v) => NoInvitation(v)'
  BY <1>1 DEF NoInvitation, Others
<1>5. \A v \in Users \ {u} : Alone(v) => Alone(v)'
  BY <1>2, <1>4 DEF Alone
<1>6. UnusedAddresses'
  BY <1>t, <1>2, <1>3, <1>4 DEF Accounted, UnusedAddresses, Alone
<1>7. SelfRegistered'
  <2>1. ASSUME NEW v \in stranded' PROVE Alone(v)'
    <3>1. CASE v = u
      BY <1>2, <1>3, <1>4, <1>t, <2>1, <3>1 DEF Alone
    <3>2. CASE v # u
      BY <1>t, <1>2, <1>5, <2>1, <3>2 DEF Accounted, SelfRegistered
    <3> QED BY <3>1, <3>2
  <2>2. ASSUME NEW q \in Requests, req'[q].pc = "regPassword"
        PROVE  /\ (Alone(req[q].user) /\ req[q].user \notin stranded)'
               /\ q # r /\ req[q].pc = "regPassword" /\ req'[q].user = req[q].user
    <3>1. PICK v \in Users : v = req[q].user /\ v = req'[q].user /\ req[q].pc = "regPassword"
                             /\ q # r
      BY <1>t, <1>1, <2>2 DEF Others, RequestKnown, Registering
    <3>2. Alone(v) /\ v \notin stranded /\ v # u
      BY <1>3, <3>1 DEF Accounted, SelfRegistered
    <3>3. Alone(v)' /\ v \notin stranded'
      BY <1>2, <1>5, <3>2
    <3> QED BY <3>1, <3>3 DEF Alone, NoInvitation
  <2> QED BY <2>1, <2>2 DEF Accounted, SelfRegistered
<1>8. FreshInvitations'
  <2>1. \A q \in Requests : req'[q].pc \in Reissuing =>
           /\ req[q].pc \in Reissuing /\ req'[q].inv = req[q].inv
           /\ req[q].inv \in Invitations
    BY <1>t, <1>1 DEF Others, RequestKnown, Reissuing
  <2>2. \A q \in Requests : req'[q].inv \in {None, req[q].inv}
    BY <1>1 DEF Others
  <2> QED BY <2>1, <2>2, AccountsAssumption DEF Accounted, FreshInvitations
<1>9. OwnInvitations'
  BY <1>1 DEF Accounted, OwnInvitations, Others, Activating
<1>10. ActiveHasPassword'
  BY <1>1, <1>2, <1>u DEF Accounted, ActiveHasPassword, Others
<1> QED BY <1>6, <1>7, <1>8, <1>9, <1>10 DEF Accounted

LEMMA AccountedInit == Init => Accounted
<1> SUFFICES ASSUME Init PROVE Accounted
  OBVIOUS
<1>1. \A r \in Requests : req[r].pc = "idle"
  BY IdleKnown DEF Init
<1> QED BY <1>1, AccountsAssumption
   DEF Init, Accounted, UnusedAddresses, NoInvitation, SelfRegistered,
       FreshInvitations, OwnInvitations, ActiveHasPassword, Reissuing, Activating

\* The arrivals of a registration and of a magic link.
LEMMA StartUnnoticed ==
    ASSUME Typed, Typed', Accounted, NEW r \in Requests, NEW q, Start(r, q),
           q.inv = None,
           q.pc \notin Reissuing \cup Activating \cup {"regPassword"}
    PROVE  Accounted'
<1>1. UNCHANGED <<status, credential, invitation, stranded>>
  BY DEF Start, Reads, store, history
<1>2. Unnoticed(r)
  BY <1>1, StartIsStart, IdleKnown DEF Unnoticed, Reissuing
<1> QED BY <1>2, UnnoticedAccounted

LEMMA AccountedArrivals ==
    ASSUME Typed, Typed', Accounted, NEW r \in Requests, Arrivals(r)
    PROVE  Accounted'
<1> USE DEF Reissuing, Activating
<1>1. ASSUME NEW u \in Users, NEW c \in Challenges, StartRegister(r, u, c)
      PROVE  Accounted'
  <2> DEFINE q == [Idle EXCEPT !.pc = "regChallenge", !.user = u, !.challenge = c]
  <2>1. q.inv = None /\ q.pc = "regChallenge" /\ Start(r, q)
    BY <1>1 DEF Idle, StartRegister
  <2> HIDE DEF q
  <2> QED BY <2>1, StartUnnoticed
<1>2. ASSUME NEW u \in Users, NEW c \in Challenges, NEW l \in Links, StartLink(r, u, c, l)
      PROVE  Accounted'
  <2> DEFINE q == [Idle EXCEPT !.pc = "linkChallenge", !.user = u,
                               !.challenge = c, !.link = l, !.now = now]
  <2>1. q.inv = None /\ q.pc = "linkChallenge" /\ Start(r, q)
    BY <1>2 DEF Idle, StartLink
  <2> HIDE DEF q
  <2> QED BY <2>1, StartUnnoticed
<1>3. ASSUME NEW l \in Links, StartConsume(r, l) PROVE Accounted'
  <2> DEFINE q == [Idle EXCEPT !.pc = "findLink", !.link = l, !.now = now,
                               !.challenge = link[l].challenge]
  <2>1. q.inv = None /\ q.pc = "findLink" /\ Start(r, q)
    BY <1>3 DEF Idle, StartConsume
  <2> HIDE DEF q
  <2> QED BY <2>1, StartUnnoticed
<1> QED BY <1>1, <1>2, <1>3, StartReissueAccounted, StartActivateAccounted DEF Arrivals

\* The steps of which the accounts notice nothing.
LEMMA AccountedQuiet ==
    ASSUME Typed, Typed', Accounted, NEW r \in Requests,
           UNCHANGED <<status, credential, invitation, stranded>>,
           NEW pc, pc \notin {"reissueBatch", "regPassword"}, req[r].pc # "regPassword",
           pc \in Reissuing \cup Activating => SameBranch(req[r].pc, pc),
           Moves(r, pc) \/ Ends(r)
    PROVE  Accounted'
<1>1. CASE Moves(r, pc)
  BY <1>1, UnnoticedAccounted DEF Moves, Unnoticed
<1>2. CASE Ends(r)
  BY <1>2, UnnoticedAccounted, IdleKnown DEF Ends, Unnoticed, Reissuing, Activating
<1> QED BY <1>1, <1>2

LEMMA AccountedStep ==
    ASSUME Typed, Typed', Accounted, NEW r \in Requests, Step(r)
    PROVE  Accounted'
<1> USE DEF store, history
<1>1. CASE ReadInvitation(r)
  <2>1. Moves(r, "readUser") \/ Ends(r)
    BY <1>1, GotoIfIsEither DEF ReadInvitation
  <2>2. SameBranch(req[r].pc, "readUser")
    BY <1>1 DEF ReadInvitation, SameBranch, Reissuing, Activating, Registering, Mailing, Following
  <2>3. UNCHANGED <<status, credential, invitation, stranded>> /\ req[r].pc # "regPassword"
    BY <1>1 DEF ReadInvitation, Reads
  <2> QED BY <2>1, <2>2, <2>3, AccountedQuiet
<1>2. CASE ReadUser(r)
  <2>1. Moves(r, "activate") \/ Ends(r)
    BY <1>2, GotoIfIsEither DEF ReadUser
  <2>2. SameBranch(req[r].pc, "activate")
    BY <1>2 DEF ReadUser, SameBranch, Reissuing, Activating, Registering, Mailing, Following
  <2>3. UNCHANGED <<status, credential, invitation, stranded>> /\ req[r].pc # "regPassword"
    BY <1>2 DEF ReadUser, Reads
  <2> QED BY <2>1, <2>2, <2>3, AccountedQuiet
<1>3. CASE AnswerActivation(r) \/ RegisterSession(r) \/ LinkCreate(r) \/ LinkSession(r)
  <2>1. Ends(r)
    BY <1>3, FinishIsEnd
       DEF AnswerActivation, RegisterSession, LinkCreate, LinkSession, CreateSession
  <2>2. UNCHANGED <<status, credential, invitation, stranded>> /\ req[r].pc # "regPassword"
    BY <1>3 DEF AnswerActivation, RegisterSession, LinkCreate, LinkSession,
                CreateSession, Reads
  <2> QED BY <2>1, <2>2, AccountedQuiet DEF Reissuing, Activating
<1>4. CASE RegChallenge(r)
  <2>1. Moves(r, "regEmail") \/ Ends(r)
    BY <1>4, GotoIfIsEither DEF RegChallenge
  <2> QED BY <1>4, <2>1, AccountedQuiet DEF RegChallenge, Reads, Reissuing, Activating
<1>5. CASE RegEmail(r)
  <2>1. Moves(r, "regConsume") \/ Ends(r)
    BY <1>5, GotoIfIsEither DEF RegEmail
  <2> QED BY <1>5, <2>1, AccountedQuiet DEF RegEmail, Reads, Reissuing, Activating
<1>6. CASE RegConsume(r)
  <2>1. Moves(r, "regCreate") \/ Ends(r)
    BY <1>6, GotoIfIsEither DEF RegConsume
  <2> QED BY <1>6, <2>1, AccountedQuiet DEF RegConsume, Reissuing, Activating
<1>7. CASE RegPassword(r)
  <2>1. Moves(r, "regSession")
    BY <1>7, GotoIsMove DEF RegPassword
  <2> QED BY <1>7, <2>1, RegPasswordAccounted DEF RegPassword
<1>8. CASE LinkChallenge(r)
  <2>1. Moves(r, "linkCreate") \/ Ends(r)
    BY <1>8, GotoIfIsEither DEF LinkChallenge
  <2> QED BY <1>8, <2>1, AccountedQuiet DEF LinkChallenge, Reads, Reissuing, Activating
<1>9. CASE FindLink(r)
  <2>1. Moves(r, "checkChallenge") \/ Ends(r)
    BY <1>9, GotoIfIsEither DEF FindLink
  <2> QED BY <1>9, <2>1, AccountedQuiet DEF FindLink, Reads, Reissuing, Activating
<1>10. CASE CheckChallenge(r)
  <2>1. Moves(r, "consumeLink") \/ Ends(r)
    BY <1>10, GotoIfIsEither DEF CheckChallenge
  <2> QED BY <1>10, <2>1, AccountedQuiet DEF CheckChallenge, Reads, Reissuing, Activating
<1>11. CASE ConsumeLink(r)
  <2>1. Moves(r, "consumeChallenge") \/ Ends(r)
    BY <1>11, GotoIfIsEither DEF ConsumeLink
  <2> QED BY <1>11, <2>1, AccountedQuiet DEF ConsumeLink, Reissuing, Activating
<1>12. CASE ConsumeChallenge(r)
  <2>1. Moves(r, "linkSession") \/ Ends(r)
    BY <1>12, GotoIfIsEither, FinishIsEnd DEF ConsumeChallenge
  <2> QED BY <1>12, <2>1, AccountedQuiet DEF ConsumeChallenge, Reissuing, Activating
<1> QED BY <1>1, <1>2, <1>3, <1>4, <1>5, <1>6, <1>7, <1>8, <1>9, <1>10, <1>11, <1>12,
           ReissueReadAccounted, ReissueBatchAccounted, ActivateAccounted,
           RegCreateAccounted DEF Step

LEMMA AccountedNext == Typed /\ Accounted /\ [Next]_vars => Accounted'
<1> SUFFICES ASSUME Typed, Accounted, [Next]_vars PROVE Accounted'
  OBVIOUS
<1>t. Typed'
  BY TypedNext
<1> USE DEF store, history
<1>1. ASSUME NEW r \in Requests, Fail(r) PROVE Accounted'
  <2>1. Ends(r)
    BY <1>1, FinishIsEnd DEF Fail
  <2>2. CASE req[r].pc = "regPassword"
    BY <1>1, <2>1, <2>2, RegPasswordAccounted DEF Fail
  <2>3. CASE req[r].pc # "regPassword"
    BY <1>t, <1>1, <2>1, <2>3, AccountedQuiet DEF Fail, Reissuing, Activating
  <2> QED BY <2>2, <2>3
<1>2. CASE Tick \/ UNCHANGED vars
  <2>1. UNCHANGED <<status, credential, invitation, stranded, req>>
    BY <1>2 DEF Tick, vars
  <2> QED BY <2>1 DEF Accounted, UnusedAddresses, NoInvitation, SelfRegistered, Alone,
       FreshInvitations, OwnInvitations, ActiveHasPassword
<1> QED BY <1>t, <1>1, <1>2, ProvisionAccounted, AccountedArrivals, AccountedStep DEF Next

(* An active account has its password, unless the registration that made   *)
(* it is about to store it or died just before.                            *)
THEOREM EveryActiveHasPassword == Spec => []ActiveHasPassword
<1>1. Typed /\ Accounted /\ [Next]_vars => (Typed /\ Accounted)'
  BY TypedNext, AccountedNext
<1>2. Accounted => ActiveHasPassword
  BY DEF Accounted
<1> QED BY TypedInit, AccountedInit, <1>1, <1>2, PTL DEF Spec

LEMMA PasswordStays ==
    ASSUME Typed, Accounted, [Next]_vars, NEW u \in Users, credential[u] # None
    PROVE  UNCHANGED <<credential[u], status[u]>>
<1>t. /\ status \in [Users -> {"none", "provisioned", "active"}]
      /\ credential \in [Users -> Invitations \cup {None, Registered}]
      /\ \A r \in Requests : RequestKnown(req[r])
  BY DEF Typed, TypeOK
<1>n. status[u] # "none"
  BY DEF Accounted, UnusedAddresses
<1> USE DEF store
<1>1. ASSUME NEW v \in Users, NEW i \in Invitations, Provision(v, i)
      PROVE  UNCHANGED <<credential[u], status[u]>>
  BY <1>t, <1>n, <1>1 DEF Provision
<1>2. ASSUME NEW r \in Requests, Arrivals(r) PROVE UNCHANGED <<credential, status>>
  BY <1>2, ArrivalsKnown
<1>3. ASSUME NEW r \in Requests, Step(r) PROVE UNCHANGED <<credential[u], status[u]>>
  <2>1. CASE Activate(r)
    <3>1. req[r].user \in Users
      BY <1>t, <2>1 DEF Activate, RequestKnown, Activating
    <3> QED BY <1>t, <2>1, <3>1 DEF Activate
  <2>2. CASE RegCreate(r)
    BY <1>t, <1>n, <2>2 DEF RegCreate
  <2>3. CASE RegPassword(r)
    <3>1. credential[req[r].user] = None
      BY <2>3 DEF RegPassword, Accounted, SelfRegistered, Alone
    <3> QED BY <1>t, <2>3, <3>1 DEF RegPassword
  <2>4. CASE ~Activate(r) /\ ~RegCreate(r) /\ ~RegPassword(r)
    BY <1>3, <2>4
       DEF Step, Reads, ReissueRead, ReissueBatch, ReadInvitation, ReadUser,
           AnswerActivation, RegChallenge, RegEmail, RegConsume, RegisterSession,
           CreateSession, LinkChallenge, LinkCreate, FindLink, CheckChallenge,
           ConsumeLink, ConsumeChallenge, LinkSession
  <2> QED BY <2>1, <2>2, <2>3, <2>4
<1>4. ASSUME NEW r \in Requests, Fail(r) PROVE UNCHANGED <<credential, status>>
  BY <1>4 DEF Fail
<1>5. CASE Tick \/ UNCHANGED vars
  BY <1>5 DEF Tick, vars
<1> QED BY <1>1, <1>2, <1>3, <1>4, <1>5 DEF Next

(* A password, once stored, is neither replaced nor lost, and its account  *)
(* stays as it is, whoever activates or registers the address meanwhile.   *)
THEOREM PasswordsAreFinal == Spec => PasswordIsFinal
<1>1. Typed /\ Accounted /\ [Next]_vars => (Typed /\ Accounted)'
  BY TypedNext, AccountedNext
<1>2. Typed /\ Accounted /\ [Next]_vars =>
        [\A u \in Users : credential[u] # None
                            => UNCHANGED <<credential[u], status[u]>>]_vars
  BY PasswordStays
<1> QED BY TypedInit, AccountedInit, <1>1, <1>2, PTL DEF Spec, PasswordIsFinal

-----------------------------------------------------------------------------
(* Invitations *)

LEMMA InvitedInit == Init => Invited
<1> SUFFICES ASSUME Init PROVE Invited
  OBVIOUS
<1>1. \A r \in Requests : req[r].pc = "idle"
  BY IdleKnown DEF Init
<1> QED BY <1>1 DEF Init, Invited, Timely, SingleLiveInvitation, Live,
       SupersededExpired, LateIsRefused, Reissuing, Activating

\* The request r neither takes up an invitation nor goes on with a late one.
Uninvited(r) ==
    /\ Others(r)
    /\ req'[r].pc \in Reissuing =>
         \/ req'[r].now <= now
         \/ req[r].pc \in Reissuing /\ req'[r].now = req[r].now
    /\ ~(req'[r].late /\ req'[r].pc \in Activating)

LEMMA UninvitedInvited ==
    ASSUME Typed, Invited, NEW r \in Requests, Uninvited(r),
           UNCHANGED <<now, invitation, superseded>>
    PROVE  Invited'
<1>1. Timely'
  BY DEF Invited, Timely, Uninvited, Others
<1>2. SingleLiveInvitation'
  BY DEF Invited, SingleLiveInvitation, Live
<1>3. SupersededExpired'
  BY DEF Invited, SupersededExpired
<1>4. LateIsRefused'
  BY DEF Invited, LateIsRefused, Uninvited, Others
<1> QED BY <1>1, <1>2, <1>3, <1>4 DEF Invited

LEMMA ProvisionInvited ==
    ASSUME Typed, Accounted, Invited, NEW u \in Users, NEW i \in Invitations,
           Provision(u, i)
    PROVE  Invited'
<1>t. /\ invitation \in [Invitations -> Invitation] /\ superseded \subseteq Invitations
      /\ \A q \in Requests : RequestKnown(req[q])
  BY DEF Typed, TypeOK
<1>1. /\ UNCHANGED <<now, superseded, req>>
      /\ invitation'[i].user = u /\ invitation[i].user = None
      /\ \A j \in Invitations \ {i} : invitation'[j] = invitation[j]
      /\ \A q \in Requests : req[q].inv # i
  BY <1>t DEF Provision, history, NewInvitation, FreshInvitation
<1>2. \A j \in Invitations : invitation[j].user # u
  BY DEF Provision, Accounted, UnusedAddresses, NoInvitation
<1>3. Timely'
  BY <1>1 DEF Invited, Timely
<1>4. SingleLiveInvitation'
  BY <1>1, <1>2 DEF Invited, SingleLiveInvitation, Live
<1>5. SupersededExpired'
  BY <1>t, <1>1 DEF Invited, SupersededExpired
<1>6. LateIsRefused'
  BY <1>t, <1>1 DEF Invited, LateIsRefused, RequestKnown
<1> QED BY <1>3, <1>4, <1>5, <1>6 DEF Invited

LEMMA StartUninvited ==
    ASSUME Typed, Invited, NEW r \in Requests, NEW q \in Request, Start(r, q),
           q.pc \in Reissuing => q.now = now, q.pc \notin Activating
    PROVE  Invited'
<1>1. UNCHANGED <<now, invitation, superseded>>
  BY DEF Start, Reads, store, history
<1>2. now <= now
  BY AccountsAssumption DEF Typed, TypeOK, Times
<1>3. Uninvited(r)
  BY <1>2, StartIsStart DEF Uninvited
<1> QED BY <1>1, <1>3, UninvitedInvited

LEMMA StartActivateInvited ==
    ASSUME Typed, Invited, NEW r \in Requests, NEW i \in Invitations,
           StartActivate(r, i)
    PROVE  Invited'
<1>1. /\ Others(r) /\ req[r] = Idle
      /\ req'[r].pc = "readInvitation" /\ req'[r].inv = i /\ req'[r].now = now
      /\ req'[r].late => i \in superseded
      /\ UNCHANGED <<now, invitation, superseded>>
  <2> DEFINE q == [Idle EXCEPT !.pc = "readInvitation", !.inv = i, !.now = now,
                               !.user = invitation[i].user,
                               !.late = i \in superseded]
  <2>1. Start(r, q)
    BY DEF StartActivate
  <2>2. q.pc = "readInvitation" /\ q.inv = i /\ q.now = now
    BY DEF Idle
  <2>3. q.late = (i \in superseded)
    BY DEF Idle
  <2>4. UNCHANGED <<now, invitation, superseded>>
    BY <2>1 DEF Start, Reads, store, history
  <2> HIDE DEF q
  <2> QED BY <2>1, <2>2, <2>3, <2>4, StartIsStart
<1>2. Timely'
  BY <1>1 DEF Invited, Timely, Others, Reissuing
<1>3. SingleLiveInvitation' /\ SupersededExpired'
  BY <1>1 DEF Invited, SingleLiveInvitation, Live, SupersededExpired
<1>4. LateIsRefused'
  BY <1>1 DEF Invited, LateIsRefused, SupersededExpired, Others
<1> QED BY <1>2, <1>3, <1>4 DEF Invited

LEMMA ReissueBatchInvited ==
    ASSUME Typed, Accounted, Invited, NEW r \in Requests, ReissueBatch(r)
    PROVE  Invited'
<1>t. /\ invitation \in [Invitations -> Invitation] /\ superseded \subseteq Invitations
      /\ now \in Nat /\ req[r].pc = "reissueBatch"
      /\ req[r].user \in Users /\ req[r].inv \in Invitations /\ req[r].now \in Nat
      /\ \A q \in Requests : RequestKnown(req[q])
      /\ None \notin Users
  BY AccountsAssumption DEF Typed, TypeOK, ReissueBatch, RequestKnown, Request, Reissuing, Times
<1>v. PICK u \in Users, i \in Invitations, at \in Nat :
         u = req[r].user /\ i = req[r].inv /\ at = req[r].now
  BY <1>t
<1>f. /\ invitation[i].user = None /\ at <= now
      /\ \A q \in Requests \ {r} : req[q].inv # i
  BY <1>t, <1>v DEF Accounted, FreshInvitations, Invited, Timely, Reissuing
<1>1. /\ UNCHANGED now
      /\ superseded' = superseded \cup {j \in Invitations : invitation[j].user = u}
      /\ invitation'[i].user = u
      /\ \A j \in Invitations \ {i} :
           /\ invitation'[j].user = invitation[j].user
           /\ invitation'[j].consumed = invitation[j].consumed
           /\ invitation[j].user # u => invitation'[j].expires = invitation[j].expires
           /\ invitation[j].user = u /\ ~invitation[j].consumed => invitation'[j].expires = at
  <2>1. UNCHANGED now /\ superseded' = superseded \cup {j \in Invitations : invitation[j].user = u}
    BY <1>v DEF ReissueBatch
  <2>2. invitation'[i].user = u
    BY <1>v DEF ReissueBatch, NewInvitation
  <2> DEFINE Expired(k) == [k EXCEPT !.expires = at]
  <2>3. ASSUME NEW j \in Invitations \ {i}
        PROVE  \/ /\ invitation'[j] = Expired(invitation[j])
                  /\ invitation[j].user = u /\ ~invitation[j].consumed
               \/ /\ invitation'[j] = invitation[j]
                  /\ ~(invitation[j].user = u /\ ~invitation[j].consumed)
    BY <1>v DEF ReissueBatch
  <2>4. \A j \in Invitations : invitation[j] \in Invitation
    BY <1>t
  <2>5. ASSUME NEW k \in Invitation
        PROVE  /\ Expired(k).user = k.user
               /\ Expired(k).consumed = k.consumed
               /\ Expired(k).expires = at
    BY DEF Invitation
  <2> HIDE DEF Expired
  <2> QED BY <2>1, <2>2, <2>3, <2>4, <2>5
<1>o. Ends(r)
  BY OvertakeIsEnd DEF ReissueBatch
<1>e. \A q \in Requests : req'[q].pc # "idle" => q # r /\ q \in Requests \ {r}
  BY <1>o, IdleKnown DEF Ends
<1>2. Timely'
  BY <1>o, <1>e, <1>1 DEF Invited, Timely, Ends, Others, Reissuing
<1>3. SingleLiveInvitation'
  <2>1. \A j \in Invitations \ {i} : Live(j)' => Live(j) /\ invitation[j].user # u
    BY <1>t, <1>f, <1>1 DEF Live
  <2> QED BY <1>1, <2>1 DEF Invited, SingleLiveInvitation, Live
<1>4. SupersededExpired'
  <2>1. \A j \in superseded' : j \in Invitations \ {i} /\ invitation[j].user # None
    BY <1>t, <1>f, <1>1 DEF Invited, SupersededExpired
  <2>2. ASSUME NEW j \in superseded'
        PROVE  invitation'[j].consumed \/ invitation'[j].expires <= now
    <3>1. CASE invitation[j].user = u
      BY <1>f, <1>1, <2>1, <3>1
    <3>2. CASE invitation[j].user # u
      BY <1>1, <2>1, <3>2 DEF Invited, SupersededExpired
    <3> QED BY <3>1, <3>2
  <2> QED BY <1>1, <2>1, <2>2 DEF SupersededExpired
<1>5. LateIsRefused'
  <2> SUFFICES ASSUME NEW q \in Requests, req'[q].late, req'[q].pc \in Activating
               PROVE  /\ req'[q].pc = "readInvitation"
                      /\ \/ invitation'[req'[q].inv].consumed
                         \/ invitation'[req'[q].inv].expires <= req'[q].now
    BY DEF LateIsRefused
  <2>1. /\ q # r /\ req[q].late /\ req[q].pc \in Activating
        /\ req'[q].pc = req[q].pc /\ req'[q].inv = req[q].inv /\ req'[q].now = req[q].now
    BY <1>o, <1>e DEF Ends, Others, Activating
  <2>2. req[q].pc = "readInvitation" => req[q].user # u
    BY <1>v, <2>1, OvertakeEnds DEF ReissueBatch
  <2>3. /\ req[q].inv \in Invitations \ {i}
        /\ invitation[req[q].inv].user = req[q].user
    BY <1>t, <1>f, <2>1 DEF Accounted, OwnInvitations, RequestKnown
  <2> QED BY <1>1, <2>1, <2>2, <2>3 DEF Invited, LateIsRefused
<1> QED BY <1>2, <1>3, <1>4, <1>5 DEF Invited

LEMMA ActivateInvited ==
    ASSUME Typed, Invited, NEW r \in Requests, Activate(r)
    PROVE  Invited'
<1>t. /\ invitation \in [Invitations -> Invitation] /\ superseded \subseteq Invitations
      /\ req[r].inv \in Invitations /\ req[r].pc = "activate"
      /\ \A q \in Requests : RequestKnown(req[q])
  BY DEF Typed, TypeOK, Activate, RequestKnown, Activating
<1>1. /\ UNCHANGED <<now, superseded>>
      /\ Moves(r, "activated") \/ Moves(r, "recheck")
      /\ \A j \in Invitations :
           /\ invitation'[j].user = invitation[j].user
           /\ invitation'[j].expires = invitation[j].expires
           /\ invitation[j].consumed => invitation'[j].consumed
  <2> DEFINE Consumed(k) == [k EXCEPT !.consumed = TRUE]
  <2>1. \/ UNCHANGED invitation
        \/ invitation' = [invitation EXCEPT ![req[r].inv].consumed = TRUE]
    BY DEF Activate
  <2>2. ASSUME NEW k \in Invitation
        PROVE  /\ Consumed(k).user = k.user
               /\ Consumed(k).expires = k.expires
               /\ Consumed(k).consumed
    BY DEF Invitation
  <2>3. \A j \in Invitations : \/ invitation'[j] = invitation[j]
                               \/ invitation'[j] = Consumed(invitation[j])
    BY <1>t, <2>1
  <2>4. UNCHANGED <<now, superseded>> /\ (Moves(r, "activated") \/ Moves(r, "recheck"))
    BY GotoIsMove DEF Activate, history
  <2> HIDE DEF Consumed
  <2> QED BY <1>t, <2>2, <2>3, <2>4
<1>2. Timely'
  BY <1>1 DEF Invited, Timely, Moves, Others, Reissuing
<1>3. SingleLiveInvitation'
  BY <1>1 DEF Invited, SingleLiveInvitation, Live
<1>4. SupersededExpired'
  BY <1>t, <1>1 DEF Invited, SupersededExpired
<1>5. LateIsRefused'
  <2>1. ASSUME NEW q \in Requests, req'[q].late, req'[q].pc \in Activating
        PROVE  /\ req[q].late /\ req[q].pc \in Activating /\ req[q].inv \in Invitations
               /\ req'[q].pc = req[q].pc /\ req'[q].inv = req[q].inv
               /\ req'[q].now = req[q].now
    <3>1. ~req[r].late
      BY <1>t DEF Invited, LateIsRefused, Activating
    <3> QED BY <1>t, <1>1, <2>1, <3>1 DEF Moves, Others, RequestKnown
  <2> QED BY <1>1, <2>1 DEF Invited, LateIsRefused
<1> QED BY <1>2, <1>3, <1>4, <1>5 DEF Invited

\* The steps of a request that change no invitation.
LEMMA QuietInvited ==
    ASSUME Typed, Invited, NEW r \in Requests, NEW pc, NEW cond,
           UNCHANGED <<now, invitation, superseded>>,
           (cond /\ Moves(r, pc)) \/ Ends(r),
           pc \in Reissuing => req[r].pc \in Reissuing,
           cond /\ pc \in Activating => ~req[r].late
    PROVE  Invited'
<1>1. CASE Ends(r)
  BY <1>1, UninvitedInvited, IdleKnown DEF Ends, Uninvited, Reissuing, Activating
<1>2. CASE cond /\ Moves(r, pc)
  BY <1>2, UninvitedInvited DEF Moves, Uninvited
<1> QED BY <1>1, <1>2

LEMMA InvitedArrivals ==
    ASSUME Typed, Invited, NEW r \in Requests, Arrivals(r)
    PROVE  Invited'
<1>t. /\ \A l \in Links : link[l].user # None => link[l].challenge \in Challenges
      /\ now \in Times
  BY DEF Typed, TypeOK
<1>1. ASSUME NEW u \in Users, NEW i \in Invitations, StartReissue(r, u, i)
      PROVE  Invited'
  <2> DEFINE q == [Idle EXCEPT !.pc = "reissue", !.user = u, !.inv = i, !.now = now]
  <2>1. q \in Request /\ q.pc = "reissue" /\ q.now = now
    BY <1>t DEF Idle, Request, PCs
  <2>2. Start(r, q)
    BY <1>1 DEF StartReissue
  <2> HIDE DEF q
  <2> QED BY <2>1, <2>2, StartUninvited DEF Activating
<1>2. ASSUME NEW u \in Users, NEW c \in Challenges, StartRegister(r, u, c)
      PROVE  Invited'
  <2> DEFINE q == [Idle EXCEPT !.pc = "regChallenge", !.user = u, !.challenge = c]
  <2>0. q \in Request
    BY IdleKnown DEF RequestKnown, Request, PCs
  <2>1. q \in Request /\ q.pc = "regChallenge"
    BY <2>0 DEF Idle
  <2>2. Start(r, q)
    BY <1>2 DEF StartRegister
  <2> HIDE DEF q
  <2> QED BY <2>1, <2>2, StartUninvited DEF Activating, Reissuing
<1>3. ASSUME NEW u \in Users, NEW c \in Challenges, NEW l \in Links, StartLink(r, u, c, l)
      PROVE  Invited'
  <2> DEFINE q == [Idle EXCEPT !.pc = "linkChallenge", !.user = u,
                               !.challenge = c, !.link = l, !.now = now]
  <2>1. q \in Request /\ q.pc = "linkChallenge"
    BY <1>t DEF Idle, Request, PCs
  <2>2. Start(r, q)
    BY <1>3 DEF StartLink
  <2> HIDE DEF q
  <2> QED BY <2>1, <2>2, StartUninvited DEF Activating, Reissuing
<1>4. ASSUME NEW l \in Links, StartConsume(r, l) PROVE Invited'
  <2> DEFINE q == [Idle EXCEPT !.pc = "findLink", !.link = l, !.now = now,
                               !.challenge = link[l].challenge]
  <2>0. link[l].challenge \in Challenges
    BY <1>t, <1>4 DEF StartConsume
  <2>1. q \in Request /\ q.pc = "findLink"
    BY <1>t, <2>0 DEF Idle, Request, PCs
  <2>2. Start(r, q)
    BY <1>4 DEF StartConsume
  <2> HIDE DEF q
  <2> QED BY <2>1, <2>2, StartUninvited DEF Activating, Reissuing
<1> QED BY <1>1, <1>2, <1>3, <1>4, StartActivateInvited DEF Arrivals

LEMMA InvitedStep ==
    ASSUME Typed, Accounted, Invited, NEW r \in Requests, Step(r)
    PROVE  Invited'
<1> USE DEF store, history
<1>l. req[r].late /\ req[r].pc \in Activating =>
        /\ req[r].pc = "readInvitation"
        /\ invitation[req[r].inv].consumed \/ invitation[req[r].inv].expires <= req[r].now
  BY DEF Invited, LateIsRefused
<1>1. CASE ReissueRead(r)
  <2>1. Moves(r, "reissueBatch") \/ Ends(r)
    BY <1>1, GotoIfIsEither DEF ReissueRead
  <2>2. UNCHANGED <<now, invitation, superseded>> /\ req[r].pc \in Reissuing
    BY <1>1 DEF ReissueRead, Reads, Reissuing
  <2> QED BY <2>1, <2>2, QuietInvited DEF Activating
<1>2. CASE ReadInvitation(r)
  <2> DEFINE cond == /\ ~invitation[req[r].inv].consumed
                     /\ invitation[req[r].inv].expires > req[r].now
  <2>1. (cond /\ Moves(r, "readUser")) \/ Ends(r)
    BY <1>2, GotoIfIsEither DEF ReadInvitation
  <2>2. UNCHANGED <<now, invitation, superseded>> /\ req[r].pc \in Activating
    BY <1>2 DEF ReadInvitation, Reads, Activating
  <2>3. cond => ~req[r].late
    <3>1. req[r].inv \in Invitations
      BY <2>2 DEF Typed, RequestKnown
    <3>2. invitation[req[r].inv].expires \in Nat /\ req[r].now \in Nat
      BY <3>1, AccountsAssumption
         DEF Typed, TypeOK, Invitation, Expiries, Request, Times
    <3> QED BY <1>l, <2>2, <3>2
  <2> HIDE DEF cond
  <2> QED BY <2>1, <2>2, <2>3, QuietInvited DEF Reissuing
<1>3. CASE ReadUser(r)
  <2>1. Moves(r, "activate") \/ Ends(r)
    BY <1>3, GotoIfIsEither DEF ReadUser
  <2>2. UNCHANGED <<now, invitation, superseded>> /\ ~req[r].late
    BY <1>l, <1>3 DEF ReadUser, Reads, Activating
  <2> QED BY <2>1, <2>2, QuietInvited DEF Reissuing
<1>4. ASSUME UNCHANGED <<now, invitation, superseded>>,
             NEW pc \in PCs \ (Reissuing \cup Activating),
             Moves(r, pc) \/ Ends(r)
      PROVE  Invited'
  BY <1>4, QuietInvited
<1>5. CASE \/ AnswerActivation(r) \/ RegisterSession(r) \/ LinkCreate(r) \/ LinkSession(r)
  <2>1. Ends(r)
    BY <1>5, FinishIsEnd
       DEF AnswerActivation, RegisterSession, LinkCreate, LinkSession, CreateSession
  <2>2. UNCHANGED <<now, invitation, superseded>>
    BY <1>5 DEF AnswerActivation, RegisterSession, LinkCreate, LinkSession,
                CreateSession, Reads
  <2>3. "idle" \in PCs \ (Reissuing \cup Activating)
    BY DEF PCs, Reissuing, Activating
  <2> QED BY <2>1, <2>2, <2>3, <1>4
<1>p. {"regEmail", "regConsume", "regCreate", "regPassword", "regSession", "linkCreate",
       "checkChallenge", "consumeLink", "consumeChallenge", "linkSession"}
         \subseteq PCs \ (Reissuing \cup Activating)
  BY DEF PCs, Reissuing, Activating
<1>6. CASE \/ RegChallenge(r) \/ RegEmail(r) \/ LinkChallenge(r) \/ FindLink(r)
           \/ CheckChallenge(r)
  <2>1. UNCHANGED <<now, invitation, superseded>>
    BY <1>6 DEF RegChallenge, RegEmail, LinkChallenge, FindLink, CheckChallenge, Reads
  <2>2. PICK pc \in {"regEmail", "regConsume", "linkCreate", "checkChallenge", "consumeLink"} :
           Moves(r, pc) \/ Ends(r)
    BY <1>6, GotoIfIsEither
       DEF RegChallenge, RegEmail, LinkChallenge, FindLink, CheckChallenge
  <2> QED BY <1>4, <1>p, <2>1, <2>2
<1>7. CASE \/ RegConsume(r) \/ RegCreate(r) \/ RegPassword(r) \/ ConsumeLink(r)
           \/ ConsumeChallenge(r)
  <2>1. UNCHANGED <<now, invitation, superseded>>
    BY <1>7 DEF RegConsume, RegCreate, RegPassword, ConsumeLink, ConsumeChallenge
  <2>2. PICK pc \in {"regCreate", "regPassword", "regSession", "consumeChallenge",
                     "linkSession"} : Moves(r, pc) \/ Ends(r)
    <3>1. CASE RegConsume(r)
      BY <3>1, GotoIfIsEither DEF RegConsume
    <3>2. CASE RegCreate(r)
      BY <3>2, GotoIfIsEither DEF RegCreate
    <3>3. CASE RegPassword(r)
      BY <3>3, GotoIsMove DEF RegPassword
    <3>4. CASE ConsumeLink(r)
      BY <3>4, GotoIfIsEither DEF ConsumeLink
    <3>5. CASE ConsumeChallenge(r)
      BY <3>5, GotoIfIsEither, FinishIsEnd DEF ConsumeChallenge
    <3> QED BY <1>7, <3>1, <3>2, <3>3, <3>4, <3>5
  <2> QED BY <1>4, <1>p, <2>1, <2>2
<1> QED BY <1>1, <1>2, <1>3, <1>5, <1>6, <1>7, ReissueBatchInvited, ActivateInvited DEF Step

LEMMA InvitedNext == Typed /\ Accounted /\ Invited /\ [Next]_vars => Invited'
<1> SUFFICES ASSUME Typed, Accounted, Invited, [Next]_vars PROVE Invited'
  OBVIOUS
<1> USE DEF store, history
<1>1. ASSUME NEW r \in Requests, Fail(r) PROVE Invited'
  <2>1. Ends(r) /\ UNCHANGED <<now, invitation, superseded>>
    BY <1>1, FinishIsEnd DEF Fail
  <2> QED BY <2>1, UninvitedInvited, IdleKnown DEF Ends, Uninvited, Reissuing, Activating
<1>2. CASE Tick
  <2>1. UNCHANGED <<invitation, superseded, req>> /\ now' = now + 1 /\ now \in Nat
    BY <1>2, AccountsAssumption DEF Tick, Typed, TypeOK, Times
  <2>2. /\ invitation \in [Invitations -> Invitation] /\ superseded \subseteq Invitations
        /\ \A i \in Invitations : invitation[i].expires \in Nat
        /\ \A r \in Requests : req[r].now \in Nat
    BY AccountsAssumption DEF Typed, TypeOK, Invitation, Expiries, Request, Times
  <2>3. Timely'
    BY <2>1, <2>2 DEF Invited, Timely
  <2>4. SingleLiveInvitation'
    <3>1. \A i \in Invitations : Live(i)' => Live(i)
      BY <2>1, <2>2 DEF Live
    <3> QED BY <2>1, <3>1 DEF Invited, SingleLiveInvitation
  <2>5. SupersededExpired'
    BY <2>1, <2>2 DEF Invited, SupersededExpired
  <2>6. LateIsRefused'
    BY <2>1 DEF Invited, LateIsRefused
  <2> QED BY <2>3, <2>4, <2>5, <2>6 DEF Invited
<1>3. CASE UNCHANGED vars
  BY <1>3 DEF vars, Invited, Timely, SingleLiveInvitation, Live, SupersededExpired,
              LateIsRefused
<1> QED BY <1>1, <1>2, <1>3, ProvisionInvited, InvitedArrivals, InvitedStep DEF Next

LEMMA InvitationInvariant == Spec => [](Typed /\ Accounted /\ Invited)
<1>1. Typed /\ Accounted /\ Invited /\ [Next]_vars => (Typed /\ Accounted /\ Invited)'
  BY TypedNext, AccountedNext, InvitedNext
<1> QED BY TypedInit, AccountedInit, InvitedInit, <1>1, PTL DEF Spec

(* However many reissues and activations race, at most one invitation of   *)
(* an address can still be used.                                           *)
THEOREM OneLiveInvitation == Spec => []SingleLiveInvitation
<1>1. Invited => SingleLiveInvitation
  BY DEF Invited
<1> QED BY InvitationInvariant, <1>1, PTL

(* An activation that began with a replaced invitation never succeeds.     *)
THEOREM ReplacedInvitationIsDead == Spec => []SupersededIsDead
<1>1. Invited => SupersededIsDead
  BY DEF Invited, LateIsRefused, SupersededIsDead, Activating
<1> QED BY InvitationInvariant, <1>1, PTL

-----------------------------------------------------------------------------
(* Links and challenges *)

LEMMA ProvenInit == Init => Proven
<1> SUFFICES ASSUME Init PROVE Proven
  OBVIOUS
<1>1. \A r \in Requests : req[r].pc = "idle"
  BY IdleKnown DEF Init
<1> QED BY <1>1 DEF Init, Proven, LinksOnce, FreshLinks, MailedLinks, ChallengesOnce,
       Mailing, Following, Closing

\* The request r takes up no link and is about to close no challenge anew.
Unproven(r) ==
    /\ Others(r)
    /\ req'[r].link \in {None, req[r].link}
    /\ req'[r].pc \in Mailing => req[r].pc \in Mailing /\ req'[r].link = req[r].link
    /\ req'[r].pc \in Following => req[r].pc \in Following /\ req'[r].link = req[r].link
    /\ req'[r].pc \in Closing =>
         req[r].pc \in Closing /\ req'[r].challenge = req[r].challenge

LEMMA UnprovenFresh ==
    ASSUME Typed, FreshLinks, NEW r \in Requests, Unproven(r), UNCHANGED link
    PROVE  FreshLinks'
<1>1. \A q \in Requests : req'[q].pc \in Mailing =>
         /\ req[q].pc \in Mailing /\ req'[q].link = req[q].link
         /\ req[q].link \in Links
  BY DEF Unproven, Others, Typed, RequestKnown
<1>2. \A q \in Requests : req'[q].link \in {None, req[q].link}
  BY DEF Unproven, Others
<1> QED BY <1>1, <1>2, AccountsAssumption DEF FreshLinks

LEMMA UnprovenChallenges ==
    ASSUME Typed, ChallengesOnce, NEW r \in Requests, Unproven(r),
           UNCHANGED <<consumed, sessions>>
    PROVE  ChallengesOnce'
<1>1. \A q \in Requests : req'[q].pc \in Closing =>
         req[q].pc \in Closing /\ req'[q].challenge = req[q].challenge
  BY DEF Unproven, Others
<1> QED BY <1>1 DEF ChallengesOnce

LEMMA UnprovenProven ==
    ASSUME Typed, Proven, NEW r \in Requests, Unproven(r),
           UNCHANGED <<link, consumed, proofs, sessions>>
    PROVE  Proven'
<1>1. LinksOnce'
  BY DEF Proven, LinksOnce
<1>2. FreshLinks' /\ ChallengesOnce'
  BY UnprovenFresh, UnprovenChallenges DEF Proven
<1>3. MailedLinks'
  BY DEF Proven, MailedLinks, Unproven, Others
<1> QED BY <1>1, <1>2, <1>3 DEF Proven

LEMMA StartLinkProven ==
    ASSUME Typed, Proven, NEW r \in Requests, NEW u \in Users, NEW c \in Challenges,
           NEW l \in Links, StartLink(r, u, c, l)
    PROVE  Proven'
<1> DEFINE q == [Idle EXCEPT !.pc = "linkChallenge", !.user = u,
                             !.challenge = c, !.link = l, !.now = now]
<1>1. q.pc = "linkChallenge" /\ q.link = l
  BY DEF Idle
<1>2. Start(r, q) /\ link[l].user = None /\ \A p \in Requests : req[p].link # l
  BY DEF StartLink, FreshLink
<1> HIDE DEF q
<1>3. /\ Others(r) /\ req'[r].pc = "linkChallenge" /\ req'[r].link = l
      /\ UNCHANGED <<link, consumed, proofs, sessions>>
  <2>1. UNCHANGED <<link, consumed, proofs, sessions>>
    BY <1>2 DEF Start, Reads, store, history
  <2> QED BY <1>1, <1>2, <2>1, StartIsStart
<1>4. LinksOnce'
  BY <1>3 DEF Proven, LinksOnce
<1>5. FreshLinks'
  BY <1>2, <1>3 DEF Proven, FreshLinks, Others
<1>6. MailedLinks'
  BY <1>3 DEF Proven, MailedLinks, Others, Following
<1>7. ChallengesOnce'
  BY <1>3 DEF Proven, ChallengesOnce, Others, Closing
<1> QED BY <1>4, <1>5, <1>6, <1>7 DEF Proven

LEMMA StartConsumeProven ==
    ASSUME Typed, Proven, NEW r \in Requests, NEW l \in Links, StartConsume(r, l)
    PROVE  Proven'
<1> DEFINE q == [Idle EXCEPT !.pc = "findLink", !.link = l, !.now = now,
                             !.challenge = link[l].challenge]
<1>1. q.pc = "findLink" /\ q.link = l
  BY DEF Idle
<1>2. Start(r, q) /\ link[l].user # None
  BY DEF StartConsume
<1> HIDE DEF q
<1>3. /\ Others(r) /\ req'[r].pc = "findLink" /\ req'[r].link = l
      /\ UNCHANGED <<link, consumed, proofs, sessions>>
  <2>1. UNCHANGED <<link, consumed, proofs, sessions>>
    BY <1>2 DEF Start, Reads, store, history
  <2> QED BY <1>1, <1>2, <2>1, StartIsStart
<1>4. LinksOnce'
  BY <1>3 DEF Proven, LinksOnce
<1>5. FreshLinks'
  BY <1>2, <1>3 DEF Proven, FreshLinks, Others, Mailing
<1>6. MailedLinks'
  BY <1>2, <1>3 DEF Proven, MailedLinks, Others
<1>7. ChallengesOnce'
  BY <1>3 DEF Proven, ChallengesOnce, Others, Closing
<1> QED BY <1>4, <1>5, <1>6, <1>7 DEF Proven

LEMMA ProvenArrivals ==
    ASSUME Typed, Proven, NEW r \in Requests, Arrivals(r)
    PROVE  Proven'
<1>1. ASSUME NEW q, Start(r, q), q.link = None,
             q.pc \in {"reissue", "readInvitation", "regChallenge"}
      PROVE  Proven'
  <2>1. UNCHANGED <<link, consumed, proofs, sessions>>
    BY <1>1 DEF Start, Reads, store, history
  <2>2. Unproven(r)
    BY <1>1, StartIsStart DEF Unproven, Mailing, Following, Closing
  <2> QED BY <2>1, <2>2, UnprovenProven
<1>2. ASSUME NEW u \in Users, NEW i \in Invitations, StartReissue(r, u, i)
      PROVE  Proven'
  <2> DEFINE q == [Idle EXCEPT !.pc = "reissue", !.user = u, !.inv = i, !.now = now]
  <2>1. q.pc = "reissue" /\ q.link = None
    BY DEF Idle
  <2>2. Start(r, q)
    BY <1>2 DEF StartReissue
  <2> HIDE DEF q
  <2> QED BY <1>1, <2>1, <2>2
<1>3. ASSUME NEW i \in Invitations, StartActivate(r, i) PROVE Proven'
  <2> DEFINE q == [Idle EXCEPT !.pc = "readInvitation", !.inv = i, !.now = now,
                               !.user = invitation[i].user,
                               !.late = i \in superseded]
  <2>1. q.pc = "readInvitation" /\ q.link = None
    BY DEF Idle
  <2>2. Start(r, q)
    BY <1>3 DEF StartActivate
  <2> HIDE DEF q
  <2> QED BY <1>1, <2>1, <2>2
<1>4. ASSUME NEW u \in Users, NEW c \in Challenges, StartRegister(r, u, c)
      PROVE  Proven'
  <2> DEFINE q == [Idle EXCEPT !.pc = "regChallenge", !.user = u, !.challenge = c]
  <2>1. q.pc = "regChallenge" /\ q.link = None
    BY DEF Idle
  <2>2. Start(r, q)
    BY <1>4 DEF StartRegister
  <2> HIDE DEF q
  <2> QED BY <1>1, <2>1, <2>2
<1> QED BY <1>2, <1>3, <1>4, StartLinkProven, StartConsumeProven DEF Arrivals

\* The challenge is consumed by one request.
LEMMA ConsumeProven ==
    ASSUME Typed, Proven, NEW r \in Requests, UNCHANGED <<link, proofs, sessions>>,
           req[r].pc \notin Closing, req[r].challenge \in Challenges,
           NEW pc \in {"regCreate", "linkSession"}, pc \in Following => req[r].pc \in Following,
           \/ /\ req[r].challenge \notin consumed /\ Moves(r, pc)
              /\ consumed' = consumed \cup {req[r].challenge}
           \/ Ends(r) /\ UNCHANGED consumed
    PROVE  Proven'
<1>1. LinksOnce'
  BY DEF Proven, LinksOnce
<1>p. /\ Others(r) /\ req'[r].link \in {None, req[r].link}
      /\ req'[r].pc \notin Mailing
      /\ req'[r].pc \in Following => req[r].pc \in Following /\ req'[r].link = req[r].link
  BY IdleKnown DEF Moves, Ends, Mailing, Following
<1>2. FreshLinks'
  <2>1. \A q \in Requests : req'[q].pc \in Mailing =>
           /\ req[q].pc \in Mailing /\ req'[q].link = req[q].link
           /\ req[q].link \in Links
    BY <1>p DEF Others, Typed, RequestKnown
  <2>2. \A q \in Requests : req'[q].link \in {None, req[q].link}
    BY <1>p DEF Others
  <2> QED BY <2>1, <2>2, AccountsAssumption DEF Proven, FreshLinks
<1>3. MailedLinks'
  BY <1>p DEF Proven, MailedLinks, Others
<1>4. ChallengesOnce'
  <2>1. \A q \in Requests \ {r} : req'[q].pc \in Closing =>
           req[q].pc \in Closing /\ req'[q].challenge = req[q].challenge
    BY <1>p DEF Others
  <2>2. req'[r].pc \in Closing =>
           /\ req'[r].challenge = req[r].challenge /\ req[r].challenge \notin consumed
           /\ req[r].challenge \in consumed'
    BY IdleKnown DEF Moves, Ends, Closing
  <2> QED BY <2>1, <2>2 DEF Proven, ChallengesOnce
<1> QED BY <1>1, <1>2, <1>3, <1>4 DEF Proven

LEMMA SessionProven ==
    ASSUME Typed, Proven, NEW r \in Requests, CreateSession(r),
           req[r].pc \in {"regSession", "linkSession"}
    PROVE  Proven'
<1>t. req[r].challenge \in Challenges /\ sessions \in [Challenges -> Nat]
  BY DEF Typed, TypeOK, RequestKnown, Registering, Following
<1>c. PICK c \in Challenges : c = req[r].challenge
  BY <1>t
<1>1. /\ Ends(r) /\ UNCHANGED <<link, consumed, proofs>>
      /\ sessions' = [sessions EXCEPT ![c] = @ + 1]
  BY <1>c, FinishIsEnd DEF CreateSession, store
<1>u. Unproven(r)
  BY <1>1, IdleKnown DEF Ends, Unproven, Mailing, Following, Closing
<1>2. LinksOnce'
  BY <1>1 DEF Proven, LinksOnce
<1>3. FreshLinks'
  BY <1>1, <1>u, UnprovenFresh DEF Proven
<1>4. MailedLinks'
  BY <1>1, <1>u DEF Proven, MailedLinks, Unproven, Others
<1>5. ChallengesOnce'
  <2>1. /\ c \in consumed /\ sessions[c] = 0
        /\ \A q \in Requests \ {r} : req[q].pc \in Closing => req[q].challenge # c
    BY <1>c DEF Proven, ChallengesOnce, Closing
  <2>2. \A q \in Requests : req'[q].pc \in Closing =>
           /\ q # r /\ req[q].pc \in Closing /\ req'[q].challenge = req[q].challenge
           /\ req[q].challenge \in Challenges
    BY <1>1, IdleKnown
       DEF Ends, Others, Closing, Typed, RequestKnown, Registering, Following
  <2> QED BY <1>t, <1>1, <2>1, <2>2 DEF Proven, ChallengesOnce
<1> QED BY <1>2, <1>3, <1>4, <1>5 DEF Proven

LEMMA LinkCreateProven ==
    ASSUME Typed, Proven, NEW r \in Requests, LinkCreate(r)
    PROVE  Proven'
<1>t. /\ link \in [Links -> Link] /\ req[r].link \in Links /\ req[r].user # None
      /\ \A q \in Requests : RequestKnown(req[q])
  BY AccountsAssumption DEF Typed, TypeOK, LinkCreate, RequestKnown, Mailing
<1>l. PICK l \in Links : l = req[r].link
  BY <1>t
<1>1. /\ Ends(r) /\ UNCHANGED <<consumed, proofs, sessions>>
      /\ \A k \in Links \ {l} : link'[k] = link[k]
      /\ (link'[l].user # None /\ ~link'[l].consumed) \/ link'[l] = link[l]
      /\ link[l].user = None
      /\ \A q \in Requests \ {r} : req[q].link # l
  <2>1. link[l].user = None /\ \A q \in Requests \ {r} : req[q].link # l
    BY <1>l DEF LinkCreate, Proven, FreshLinks, Mailing
  <2>2. Ends(r) /\ UNCHANGED <<consumed, proofs, sessions>>
    BY FinishIsEnd DEF LinkCreate, history
  <2>3. \/ UNCHANGED link
        \/ link' = [link EXCEPT ![l] = [user |-> req[r].user,
                challenge |-> req[r].challenge, expires |-> req[r].now + Ttl,
                consumed |-> FALSE]]
    BY <1>l DEF LinkCreate
  <2> QED BY <1>t, <2>1, <2>2, <2>3
<1>u. Unproven(r)
  BY <1>1, IdleKnown DEF Ends, Unproven, Mailing, Following, Closing
<1>2. LinksOnce'
  BY <1>1 DEF Proven, LinksOnce
<1>3. FreshLinks'
  <2>1. \A q \in Requests : req'[q].pc \in Mailing =>
           /\ q # r /\ req[q].pc \in Mailing /\ req'[q].link = req[q].link
           /\ req[q].link \in Links \ {l}
    BY <1>t, <1>1, IdleKnown DEF Ends, Others, Mailing, RequestKnown
  <2>2. \A q \in Requests : req'[q].link \in {None, req[q].link}
    BY <1>u DEF Unproven, Others
  <2> QED BY <1>1, <2>1, <2>2, AccountsAssumption DEF Proven, FreshLinks
<1>4. MailedLinks'
  <2>1. \A q \in Requests : req'[q].pc \in Following =>
           /\ req[q].pc \in Following /\ req'[q].link = req[q].link
           /\ req[q].link \in Links
    BY <1>t, <1>u DEF Unproven, Others, RequestKnown
  <2> QED BY <1>1, <2>1 DEF Proven, MailedLinks
<1>5. ChallengesOnce'
  BY <1>1, <1>u, UnprovenChallenges DEF Proven
<1> QED BY <1>2, <1>3, <1>4, <1>5 DEF Proven

LEMMA ConsumeLinkProven ==
    ASSUME Typed, Proven, NEW r \in Requests, ConsumeLink(r)
    PROVE  Proven'
<1>t. /\ link \in [Links -> Link] /\ proofs \in [Links -> Nat]
      /\ req[r].link \in Links /\ req[r].pc = "consumeLink"
      /\ \A q \in Requests : RequestKnown(req[q])
  BY DEF Typed, TypeOK, ConsumeLink, RequestKnown, Following
<1>l. PICK l \in Links : l = req[r].link
  BY <1>t
<1>m. link[l].user # None
  BY <1>t, <1>l DEF Proven, MailedLinks, Following
<1>1. /\ UNCHANGED <<consumed, sessions>>
      /\ Ends(r) \/ Moves(r, "consumeChallenge")
      /\ \A k \in Links : link'[k].user = link[k].user
      /\ \A k \in Links \ {l} : link'[k] = link[k] /\ proofs'[k] = proofs[k]
      /\ link'[l].consumed
      /\ proofs'[l] = proofs[l] \/ (~link[l].consumed /\ proofs'[l] = proofs[l] + 1)
  <2> DEFINE Consumed(k) == [k EXCEPT !.consumed = TRUE]
  <2>1. link' = [link EXCEPT ![l] = Consumed(link[l])]
    BY <1>t, <1>l DEF ConsumeLink
  <2>2. \A k \in Link : Consumed(k).user = k.user /\ Consumed(k).consumed
    BY DEF Link
  <2> HIDE DEF Consumed
  <2>3. /\ \A k \in Links : link'[k].user = link[k].user
        /\ \A k \in Links \ {l} : link'[k] = link[k]
        /\ link'[l].consumed
    BY <1>t, <2>1, <2>2
  <2>4. Ends(r) \/ Moves(r, "consumeChallenge")
    BY GotoIfIsEither DEF ConsumeLink
  <2>5. /\ \A k \in Links \ {l} : proofs'[k] = proofs[k]
        /\ proofs'[l] = proofs[l] \/ (~link[l].consumed /\ proofs'[l] = proofs[l] + 1)
    BY <1>t, <1>l DEF ConsumeLink
  <2>6. UNCHANGED <<consumed, sessions>>
    BY DEF ConsumeLink
  <2> QED BY <2>3, <2>4, <2>5, <2>6
<1>u. Unproven(r)
  BY <1>t, <1>1, IdleKnown DEF Ends, Moves, Unproven, Mailing, Following, Closing
<1>2. LinksOnce'
  BY <1>t, <1>m, <1>1 DEF Proven, LinksOnce
<1>3. FreshLinks'
  <2>1. \A q \in Requests : req'[q].pc \in Mailing =>
           /\ req[q].pc \in Mailing /\ req'[q].link = req[q].link
           /\ req[q].link \in Links
    BY <1>t, <1>u DEF Unproven, Others, RequestKnown
  <2>2. \A q \in Requests : req'[q].link \in {None, req[q].link}
    BY <1>u DEF Unproven, Others
  <2> QED BY <1>1, <2>1, <2>2, AccountsAssumption DEF Proven, FreshLinks
<1>4. MailedLinks'
  <2>1. \A q \in Requests : req'[q].pc \in Following =>
           /\ req[q].pc \in Following /\ req'[q].link = req[q].link
           /\ req[q].link \in Links
    BY <1>t, <1>u DEF Unproven, Others, RequestKnown
  <2> QED BY <1>1, <2>1 DEF Proven, MailedLinks
<1>5. ChallengesOnce'
  BY <1>1, <1>u, UnprovenChallenges DEF Proven
<1> QED BY <1>2, <1>3, <1>4, <1>5 DEF Proven

LEMMA QuietProven ==
    ASSUME Typed, Proven, NEW r \in Requests, NEW pc,
           UNCHANGED <<link, consumed, proofs, sessions>>,
           Moves(r, pc) \/ Ends(r),
           SameBranch(req[r].pc, pc), pc \in Closing => req[r].pc \in Closing
    PROVE  Proven'
<1>1. Unproven(r)
  BY IdleKnown DEF Moves, Ends, Unproven, SameBranch, Mailing, Following, Closing
<1> QED BY <1>1, UnprovenProven

LEMMA ProvenStep ==
    ASSUME Typed, Proven, NEW r \in Requests, Step(r)
    PROVE  Proven'
<1> USE DEF store, history
<1>1. ASSUME UNCHANGED <<link, consumed, proofs, sessions>>,
             NEW pc \in PCs, Moves(r, pc) \/ Ends(r),
             SameBranch(req[r].pc, pc), pc \in Closing => req[r].pc \in Closing
      PROVE  Proven'
  BY <1>1, QuietProven
<1> DEFINE Quiet(pc) ==
      /\ UNCHANGED <<link, consumed, proofs, sessions>>
      /\ Moves(r, pc) \/ Ends(r)
      /\ SameBranch(req[r].pc, pc) /\ (pc \in Closing => req[r].pc \in Closing)
<1>2. CASE ReissueRead(r) \/ ReissueBatch(r)
  <2>1. Quiet("reissueBatch")
    BY <1>2, GotoIfIsEither, OvertakeIsEnd
       DEF ReissueRead, ReissueBatch, Reads, SameBranch, Reissuing, Activating,
           Registering, Mailing, Following, Closing
  <2> QED BY <1>1, <2>1 DEF PCs
<1>3. CASE ReadInvitation(r) \/ ReadUser(r) \/ Activate(r) \/ AnswerActivation(r)
  <2>1. /\ UNCHANGED <<link, consumed, proofs, sessions>>
        /\ req[r].pc \in Activating
    BY <1>3 DEF ReadInvitation, ReadUser, Activate, AnswerActivation, Reads, Activating
  <2>2. PICK pc \in {"readUser", "activate", "activated", "recheck"} :
           Moves(r, pc) \/ Ends(r)
    BY <1>3, GotoIfIsEither, GotoIsMove, FinishIsEnd
       DEF ReadInvitation, ReadUser, Activate, AnswerActivation
  <2>3. pc \in PCs /\ pc \notin Closing /\ SameBranch(req[r].pc, pc)
    BY <2>1, <2>2 DEF PCs, Closing, SameBranch, Reissuing, Activating, Registering,
                      Mailing, Following
  <2> QED BY <1>1, <2>1, <2>2, <2>3
<1>4. CASE RegChallenge(r) \/ RegEmail(r) \/ RegCreate(r) \/ RegPassword(r)
  <2>1. UNCHANGED <<link, consumed, proofs, sessions>>
    BY <1>4 DEF RegChallenge, RegEmail, RegCreate, RegPassword, Reads
  <2>2. PICK pc \in {"regEmail", "regConsume", "regPassword", "regSession"} :
           /\ Moves(r, pc) \/ Ends(r)
           /\ SameBranch(req[r].pc, pc) /\ (pc \in Closing => req[r].pc \in Closing)
    <3> USE DEF SameBranch, Reissuing, Activating, Registering, Mailing, Following, Closing
    <3>1. CASE RegChallenge(r)
      BY <3>1, GotoIfIsEither DEF RegChallenge
    <3>2. CASE RegEmail(r)
      BY <3>2, GotoIfIsEither DEF RegEmail
    <3>3. CASE RegCreate(r)
      BY <3>3, GotoIfIsEither DEF RegCreate
    <3>4. CASE RegPassword(r)
      BY <3>4, GotoIsMove DEF RegPassword
    <3> QED BY <1>4, <3>1, <3>2, <3>3, <3>4
  <2> QED BY <1>1, <2>1, <2>2 DEF PCs
<1>5. CASE RegConsume(r)
  <2>1. /\ req[r].challenge \in Challenges /\ req[r].pc \notin Closing
        /\ UNCHANGED <<link, proofs, sessions>>
        /\ consumed' = consumed \cup {req[r].challenge}
    BY <1>5 DEF RegConsume, Typed, RequestKnown, Registering, Closing
  <2>2. \/ req[r].challenge \notin consumed /\ Moves(r, "regCreate")
        \/ req[r].challenge \in consumed /\ Ends(r)
    BY <1>5, GotoIfIsEither DEF RegConsume
  <2> QED BY <2>1, <2>2, ConsumeProven DEF Following
<1>6. CASE ConsumeChallenge(r)
  <2>1. /\ req[r].challenge \in Challenges /\ req[r].pc \notin Closing
        /\ UNCHANGED <<link, proofs, sessions>> /\ req[r].pc \in Following
    BY <1>6 DEF ConsumeChallenge, Typed, RequestKnown, Following, Closing
  <2>2. \/ /\ req[r].challenge \notin consumed /\ Moves(r, "linkSession")
           /\ consumed' = consumed \cup {req[r].challenge}
        \/ Ends(r) /\ UNCHANGED consumed
    BY <1>6, GotoIfIsEither, FinishIsEnd DEF ConsumeChallenge
  <2> QED BY <2>1, <2>2, ConsumeProven
<1>7. CASE RegisterSession(r) \/ LinkSession(r)
  BY <1>7, SessionProven DEF RegisterSession, LinkSession
<1>8. CASE LinkChallenge(r)
  <2>1. Quiet("linkCreate")
    BY <1>8, GotoIfIsEither
       DEF LinkChallenge, Reads, SameBranch, Reissuing, Activating, Registering,
           Mailing, Following, Closing
  <2> QED BY <1>1, <2>1 DEF PCs
<1>9. CASE FindLink(r)
  <2>1. Quiet("checkChallenge")
    BY <1>9, GotoIfIsEither
       DEF FindLink, Reads, SameBranch, Reissuing, Activating, Registering, Mailing,
           Following, Closing
  <2> QED BY <1>1, <2>1 DEF PCs
<1>10. CASE CheckChallenge(r)
  <2>1. Quiet("consumeLink")
    BY <1>10, GotoIfIsEither
       DEF CheckChallenge, Reads, SameBranch, Reissuing, Activating, Registering,
           Mailing, Following, Closing
  <2> QED BY <1>1, <2>1 DEF PCs
<1> QED BY <1>2, <1>3, <1>4, <1>5, <1>6, <1>7, <1>8, <1>9, <1>10, LinkCreateProven,
           ConsumeLinkProven DEF Step

LEMMA ProvenNext == Typed /\ Proven /\ [Next]_vars => Proven'
<1> SUFFICES ASSUME Typed, Proven, [Next]_vars PROVE Proven'
  OBVIOUS
<1> USE DEF store, history
<1>1. ASSUME NEW r \in Requests, Fail(r) PROVE Proven'
  <2>1. Ends(r) /\ UNCHANGED <<link, consumed, proofs, sessions>>
    BY <1>1, FinishIsEnd DEF Fail
  <2>2. Unproven(r)
    BY <2>1, IdleKnown DEF Ends, Unproven, Mailing, Following, Closing
  <2> QED BY <2>1, <2>2, UnprovenProven
<1>2. CASE \/ \E u \in Users, i \in Invitations : Provision(u, i)
           \/ Tick \/ UNCHANGED vars
  <2>1. UNCHANGED <<link, consumed, proofs, sessions, req>>
    BY <1>2 DEF Provision, Tick, vars
  <2> QED BY <2>1 DEF Proven, LinksOnce, FreshLinks, MailedLinks, ChallengesOnce
<1> QED BY <1>1, <1>2, ProvenArrivals, ProvenStep DEF Next

(* A link authenticates its owner once, and a challenge leads to one       *)
(* session, whichever links and registrations compete for it.              *)
THEOREM ProofsAreOneTime == Spec => []OneTimeProofs
<1>1. Typed /\ Proven /\ [Next]_vars => (Typed /\ Proven)'
  BY TypedNext, ProvenNext
<1>2. Proven => OneTimeProofs
  BY DEF Proven, LinksOnce, ChallengesOnce, OneTimeProofs
<1> QED BY TypedInit, ProvenInit, <1>1, <1>2, PTL DEF Spec
===============================================================================
