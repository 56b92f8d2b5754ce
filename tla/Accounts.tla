------------------------------ MODULE Accounts ------------------------------
(***************************************************************************)
(* How the accounts of a tenant come to be and their owners first sign in: *)
(* an administrator provisions a user and reissues the activation          *)
(* invitation, the owner activates the account or registers it alone, and  *)
(* a magic link proves its owner to a login challenge.                     *)
(*                                                                         *)
(* A user stands for an e-mail address of the tenant: two rows with one    *)
(* address break a unique index.  Each statement or batch is a step; a     *)
(* batch is atomic.  A rejected statement and the death of the isolate are *)
(* the step Fail.  Policies, formats and passwords are the choice to       *)
(* refuse; audit events are best effort and left out.                      *)
(***************************************************************************)
EXTENDS Naturals, FiniteSets

CONSTANTS
    Users,        \* e-mail addresses
    Invitations,
    Links,        \* magic links
    Challenges,   \* login challenges, open from the start
    Requests,
    Ttl,          \* 24 hours for an invitation, 15 minutes for a link
    MaxTime,      \* bound on the clock
    MaxFailures,  \* bound on requests that fail half way
    None

ASSUME AccountsAssumption ==
    /\ Ttl \in Nat \ {0} /\ MaxTime \in Nat /\ MaxFailures \in Nat
    /\ None \notin Users \cup Invitations \cup Links \cup Challenges
                    \cup {"registered"}

VARIABLES
    now,
    status,      \* users
    credential,  \* user_password_credentials: what each was made with
    invitation,  \* user_invitations
    link,        \* email_login_tokens
    consumed,    \* login challenges with consumed_at set
    req,         \* requests in flight
    failures,
    stranded,    \* history: users whose registration died before its password
    superseded,  \* history: invitations a reissue has replaced
    proofs,      \* history: how often each link authenticated its user
    sessions     \* history: sessions each challenge has led to

store == <<now, status, credential, invitation, link, consumed>>
history == <<stranded, superseded, proofs, sessions>>
vars == <<store, req, failures, history>>

Times == 0..MaxTime
Expiries == 0..(MaxTime + Ttl)
\* A password may come from a registration instead of an invitation.
Registered == "registered"
PCs == {"idle", "reissue", "reissueBatch", "readInvitation", "readUser",
        "activate", "recheck", "activated",
        "regChallenge", "regEmail", "regConsume", "regCreate", "regPassword",
        "linkChallenge", "linkCreate", "findLink", "checkChallenge",
        "consumeLink", "consumeChallenge", "regSession", "linkSession"}

Invitation == [user: Users \cup {None}, expires: Expiries, consumed: BOOLEAN]
Link == [user: Users \cup {None}, challenge: Challenges \cup {None},
         expires: Expiries, consumed: BOOLEAN]
Request == [pc: PCs, user: Users \cup {None}, inv: Invitations \cup {None},
            link: Links \cup {None}, challenge: Challenges \cup {None},
            now: Times, late: BOOLEAN]
Idle == [pc |-> "idle", user |-> None, inv |-> None, link |-> None,
         challenge |-> None, now |-> 0, late |-> FALSE]

TypeOK ==
    /\ now \in Times
    /\ status \in [Users -> {"none", "provisioned", "active"}]
    /\ credential \in [Users -> Invitations \cup {None, Registered}]
    /\ invitation \in [Invitations -> Invitation]
    /\ link \in [Links -> Link]
    /\ consumed \subseteq Challenges
    /\ req \in [Requests -> Request]
    /\ failures \in 0..MaxFailures
    /\ stranded \subseteq Users /\ superseded \subseteq Invitations
    /\ proofs \in [Links -> Nat] /\ sessions \in [Challenges -> Nat]

-----------------------------------------------------------------------------
Init ==
    /\ now = 0
    /\ status = [u \in Users |-> "none"]
    /\ credential = [u \in Users |-> None]
    /\ invitation = [i \in Invitations |->
                        [user |-> None, expires |-> 0, consumed |-> FALSE]]
    /\ link = [l \in Links |-> [user |-> None, challenge |-> None,
                                expires |-> 0, consumed |-> FALSE]]
    /\ consumed = {}
    /\ req = [r \in Requests |-> Idle]
    /\ failures = 0
    /\ stranded = {} /\ superseded = {}
    /\ proofs = [l \in Links |-> 0] /\ sessions = [c \in Challenges |-> 0]

Goto(r, pc) == req' = [req EXCEPT ![r].pc = pc]
Finish(r) == req' = [req EXCEPT ![r] = Idle]
\* The next step, or the refusal that ends the request.
GotoIf(r, cond, pc) == IF cond THEN Goto(r, pc) ELSE Finish(r)
Reads == UNCHANGED <<store, failures, history>>

Start(r, q) ==
    /\ req[r] = Idle
    /\ req' = [req EXCEPT ![r] = q]
    /\ Reads

\* Random secrets: in no row and in no other request.
FreshInvitation(i) ==
    invitation[i].user = None /\ \A q \in Requests : req[q].inv # i
FreshLink(l) == link[l].user = None /\ \A q \in Requests : req[q].link # l

\* Bug: the lifetime is added twice.
NewInvitationTwice(u, at) ==
    [user |-> u, expires |-> at + Ttl + Ttl, consumed |-> FALSE]

NewInvitation(u, at) == [user |-> u, expires |-> at + Ttl, consumed |-> FALSE]
-----------------------------------------------------------------------------
(* Invitations *)

\* provisionUser: one batch; an address in use breaks it and nothing changes.
Provision(u, i) ==
    /\ status[u] = "none" /\ FreshInvitation(i)
    /\ status' = [status EXCEPT ![u] = "provisioned"]
    /\ invitation' = [invitation EXCEPT ![i] = NewInvitation(u, now)]
    /\ UNCHANGED <<now, credential, link, consumed, req, failures, history>>

StartReissue(r, u, i) ==
    /\ FreshInvitation(i)
    /\ Start(r, [Idle EXCEPT !.pc = "reissue", !.user = u, !.inv = i, !.now = now])

ReissueRead(r) ==
    /\ req[r].pc = "reissue"
    /\ GotoIf(r, status[req[r].user] = "provisioned", "reissueBatch")
    /\ Reads

\* The answer of a reissue.  An expiry that had passed moves forward to this
\* call's time: an activation it overtakes may find its invitation alive again.
Overtake(r) ==
    req' = [q \in Requests |->
              IF q = r THEN Idle
              ELSE [req[q] EXCEPT !.late =
                      @ /\ ~(/\ req[q].pc = "readInvitation"
                             /\ req[q].user = req[r].user)]]

\* Bug: the earlier invitations are left as they are.
ReissueBatchOnlyInserts(r) ==
    LET u == req[r].user IN
    /\ req[r].pc = "reissueBatch"
    /\ invitation' = [invitation EXCEPT ![req[r].inv] =
                         NewInvitation(u, req[r].now)]
    /\ superseded' = superseded \cup {i \in Invitations : invitation[i].user = u}
    /\ Overtake(r)
    /\ UNCHANGED <<now, status, credential, link, consumed, failures, stranded,
                   proofs, sessions>>

\* The user's unconsumed invitations expire at the time the call began.
ReissueBatch(r) ==
    LET u == req[r].user IN
    /\ req[r].pc = "reissueBatch"
    /\ invitation' = [i \in Invitations |->
          IF i = req[r].inv THEN NewInvitation(u, req[r].now)
          ELSE IF invitation[i].user = u /\ ~invitation[i].consumed
               THEN [invitation[i] EXCEPT !.expires = req[r].now]
          ELSE invitation[i]]
    /\ superseded' = superseded \cup {i \in Invitations : invitation[i].user = u}
    /\ Overtake(r)
    /\ UNCHANGED <<now, status, credential, link, consumed, failures, stranded,
                   proofs, sessions>>

StartActivate(r, i) ==
    /\ invitation[i].user # None
    /\ Start(r, [Idle EXCEPT !.pc = "readInvitation", !.inv = i, !.now = now,
                             !.user = invitation[i].user,
                             !.late = i \in superseded])

\* Bug: only consumed_at is looked at.
ReadInvitationAnyAge(r) ==
    /\ req[r].pc = "readInvitation"
    /\ GotoIf(r, ~invitation[req[r].inv].consumed, "readUser")
    /\ Reads

ReadInvitation(r) ==
    LET inv == invitation[req[r].inv] IN
    /\ req[r].pc = "readInvitation"
    /\ GotoIf(r, ~inv.consumed /\ inv.expires > req[r].now, "readUser")
    /\ Reads

ReadUser(r) ==
    LET u == req[r].user IN
    /\ req[r].pc = "readUser"
    /\ GotoIf(r, status[u] = "provisioned" /\ credential[u] = None, "activate")
    /\ Reads

\* Bug: the password is upserted, as a registration does.
ActivateUpserts(r) ==
    LET u == req[r].user IN
    /\ req[r].pc = "activate"
    /\ invitation' = [invitation EXCEPT ![req[r].inv].consumed = TRUE]
    /\ status' = [status EXCEPT ![u] = "active"]
    /\ credential' = [credential EXCEPT ![u] = req[r].inv]
    /\ Goto(r, "activated")
    /\ UNCHANGED <<now, link, consumed, failures, history>>

\* The batch: consumes the invitation, activates the user, inserts the
\* password; a second password breaks a unique index and the whole batch.
Activate(r) ==
    LET u == req[r].user IN
    /\ req[r].pc = "activate"
    /\ \/ /\ credential[u] = None
          /\ invitation' = [invitation EXCEPT ![req[r].inv].consumed = TRUE]
          /\ status' = [status EXCEPT ![u] = "active"]
          /\ credential' = [credential EXCEPT ![u] = req[r].inv]
          /\ Goto(r, "activated")
       \/ /\ credential[u] # None
          /\ Goto(r, "recheck")
          /\ UNCHANGED <<invitation, status, credential>>
    /\ UNCHANGED <<now, link, consumed, failures, history>>

\* The rows are read again for a precise refusal, or success is answered.
AnswerActivation(r) ==
    /\ req[r].pc \in {"recheck", "activated"}
    /\ Finish(r)
    /\ Reads
-----------------------------------------------------------------------------
(* Registration without an administrator, on a login challenge *)

StartRegister(r, u, c) ==
    Start(r, [Idle EXCEPT !.pc = "regChallenge", !.user = u, !.challenge = c])

RegChallenge(r) ==
    /\ req[r].pc = "regChallenge"
    /\ GotoIf(r, req[r].challenge \notin consumed, "regEmail")
    /\ Reads

RegEmail(r) ==
    /\ req[r].pc = "regEmail"
    /\ GotoIf(r, status[req[r].user] = "none", "regConsume")
    /\ Reads

\* Consumed before the user is created "to prevent replay attacks".
RegConsume(r) ==
    /\ req[r].pc = "regConsume"
    /\ GotoIf(r, req[r].challenge \notin consumed, "regCreate")
    /\ consumed' = consumed \cup {req[r].challenge}
    /\ UNCHANGED <<now, status, credential, invitation, link, failures, history>>

\* Bug: the session is made without storing the password.
RegCreateOnly(r) ==
    LET u == req[r].user IN
    /\ req[r].pc = "regCreate"
    /\ GotoIf(r, status[u] = "none", "regSession")
    /\ status' = IF status[u] = "none" THEN [status EXCEPT ![u] = "active"]
                                       ELSE status
    /\ UNCHANGED <<now, credential, invitation, link, consumed, failures, history>>

\* An address taken since the read breaks the batch: the challenge is gone.
RegCreate(r) ==
    LET u == req[r].user IN
    /\ req[r].pc = "regCreate"
    /\ GotoIf(r, status[u] = "none", "regPassword")
    /\ status' = IF status[u] = "none" THEN [status EXCEPT ![u] = "active"]
                                       ELSE status
    /\ UNCHANGED <<now, credential, invitation, link, consumed, failures, history>>

\* upsertPasswordCredential, a statement of its own.
RegPassword(r) ==
    /\ req[r].pc = "regPassword"
    /\ credential' = [credential EXCEPT ![req[r].user] = Registered]
    /\ Goto(r, "regSession")
    /\ UNCHANGED <<now, status, invitation, link, consumed, failures, history>>

\* createBrowserSession; the code or the consent page follows.
CreateSession(r) ==
    /\ sessions' = [sessions EXCEPT ![req[r].challenge] = @ + 1]
    /\ Finish(r)
    /\ UNCHANGED <<store, failures, stranded, superseded, proofs>>

RegisterSession(r) == req[r].pc = "regSession" /\ CreateSession(r)
-----------------------------------------------------------------------------
(* Magic links *)

StartLink(r, u, c, l) ==
    /\ FreshLink(l)
    /\ Start(r, [Idle EXCEPT !.pc = "linkChallenge", !.user = u,
                             !.challenge = c, !.link = l, !.now = now])

LinkChallenge(r) ==
    /\ req[r].pc = "linkChallenge"
    /\ GotoIf(r, req[r].challenge \notin consumed, "linkCreate")
    /\ Reads

\* The user is read just before, and an active user stays active.
LinkCreate(r) ==
    LET q == req[r] IN
    /\ q.pc = "linkCreate"
    /\ link' = IF status[q.user] # "active" THEN link
               ELSE [link EXCEPT ![q.link] =
                        [user |-> q.user, challenge |-> q.challenge,
                         expires |-> q.now + Ttl, consumed |-> FALSE]]
    /\ Finish(r)
    /\ UNCHANGED <<now, status, credential, invitation, consumed, failures, history>>

StartConsume(r, l) ==
    /\ link[l].user # None
    /\ Start(r, [Idle EXCEPT !.pc = "findLink", !.link = l, !.now = now,
                             !.challenge = link[l].challenge])

FindLink(r) ==
    LET k == link[req[r].link] IN
    /\ req[r].pc = "findLink"
    /\ GotoIf(r, ~k.consumed /\ k.expires > req[r].now, "checkChallenge")
    /\ Reads

CheckChallenge(r) ==
    /\ req[r].pc = "checkChallenge"
    /\ GotoIf(r, req[r].challenge \notin consumed, "consumeLink")
    /\ Reads

\* Bug: the result of the conditional UPDATE is ignored.
ConsumeLinkUnchecked(r) ==
    LET l == req[r].link IN
    /\ req[r].pc = "consumeLink"
    /\ link' = [link EXCEPT ![l].consumed = TRUE]
    /\ proofs' = [proofs EXCEPT ![l] = @ + 1]
    /\ Goto(r, "consumeChallenge")
    /\ UNCHANGED <<now, status, credential, invitation, consumed, failures,
                   stranded, superseded, sessions>>

\* The link first; the user, read after it, is as active as when it was made.
ConsumeLink(r) ==
    LET l == req[r].link IN
    /\ req[r].pc = "consumeLink"
    /\ GotoIf(r, ~link[l].consumed, "consumeChallenge")
    /\ link' = [link EXCEPT ![l].consumed = TRUE]
    /\ proofs' = IF link[l].consumed THEN proofs ELSE [proofs EXCEPT ![l] = @ + 1]
    /\ UNCHANGED <<now, status, credential, invitation, consumed, failures,
                   stranded, superseded, sessions>>

\* The second factor takes over (LoginFlow), or the challenge is consumed;
\* when somebody else consumed it, the link is burnt without a login.
ConsumeChallenge(r) ==
    /\ req[r].pc = "consumeChallenge"
    /\ \/ Finish(r) /\ UNCHANGED consumed
       \/ /\ GotoIf(r, req[r].challenge \notin consumed, "linkSession")
          /\ consumed' = consumed \cup {req[r].challenge}
    /\ UNCHANGED <<now, status, credential, invitation, link, failures, history>>

LinkSession(r) == req[r].pc = "linkSession" /\ CreateSession(r)

Fail(r) ==
    /\ req[r] # Idle /\ failures < MaxFailures
    /\ failures' = failures + 1
    /\ stranded' = IF req[r].pc = "regPassword" THEN stranded \cup {req[r].user}
                                                ELSE stranded
    /\ Finish(r)
    /\ UNCHANGED <<store, superseded, proofs, sessions>>

Tick ==
    /\ now < MaxTime
    /\ now' = now + 1
    /\ UNCHANGED <<status, credential, invitation, link, consumed, req, failures,
                   history>>

Arrivals(r) ==
    \/ \E u \in Users, i \in Invitations : StartReissue(r, u, i)
    \/ \E i \in Invitations : StartActivate(r, i)
    \/ \E u \in Users, c \in Challenges : StartRegister(r, u, c)
    \/ \E u \in Users, c \in Challenges, l \in Links : StartLink(r, u, c, l)
    \/ \E l \in Links : StartConsume(r, l)

Step(r) ==
    \/ ReissueRead(r) \/ ReissueBatch(r)
    \/ ReadInvitation(r) \/ ReadUser(r) \/ Activate(r) \/ AnswerActivation(r)
    \/ RegChallenge(r) \/ RegEmail(r) \/ RegConsume(r) \/ RegCreate(r)
    \/ RegPassword(r) \/ RegisterSession(r)
    \/ LinkChallenge(r) \/ LinkCreate(r) \/ FindLink(r) \/ CheckChallenge(r)
    \/ ConsumeLink(r) \/ ConsumeChallenge(r) \/ LinkSession(r)

Next ==
    \/ \E u \in Users, i \in Invitations : Provision(u, i)
    \/ \E r \in Requests : Arrivals(r) \/ Step(r) \/ Fail(r)
    \/ Tick

Spec == Init /\ [][Next]_vars
-----------------------------------------------------------------------------
(* However reissues race each other and activations, at most one link in   *)
(* circulation can still activate an account (runtime.ts:1455).            *)
Live(i) == /\ invitation[i].user # None /\ ~invitation[i].consumed
           /\ invitation[i].expires > now
SingleLiveInvitation ==
    \A i, j \in Invitations :
        Live(i) /\ Live(j) /\ invitation[i].user = invitation[j].user => i = j

(* An activation that begins after its invitation was replaced never       *)
(* succeeds, although the batch does not look at the expiry again.  One    *)
(* that had begun before may, and so may one that a further reissue        *)
(* overtakes before its first read (runtime.ts:1192, 1458).                *)
SupersededIsDead ==
    \A r \in Requests : req[r].pc = "activated" => ~req[r].late

(* Of the activations and registrations of an address one sets the         *)
(* password, and none ever replaces it, not even with the invitation that  *)
(* a reissue made for a user who was activated meanwhile                   *)
(* (runtime.ts:1209, 1450; app.ts:3677).                                   *)
PasswordIsFinal ==
    [][\A u \in Users : credential[u] # None
                            => UNCHANGED <<credential[u], status[u]>>]_vars

(* An active account has its password, unless its registration is about to *)
(* store it or died just then: such an account can be neither activated    *)
(* nor registered again (app.ts:3664, 3677).                               *)
ActiveHasPassword ==
    \A u \in Users : status[u] = "active" /\ credential[u] = None =>
        \/ u \in stranded
        \/ \E r \in Requests : req[r].pc = "regPassword" /\ req[r].user = u

(* A link authenticates once and a challenge leads to one session, however *)
(* many links were made for it and whoever registers on it                 *)
(* (magic-link-service.ts:132; app.ts:1746, 3658).                         *)
OneTimeProofs ==
    /\ \A l \in Links : proofs[l] <= 1
    /\ \A c \in Challenges : sessions[c] <= 1
=============================================================================
