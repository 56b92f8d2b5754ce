------------------------------ MODULE LoginFlow ------------------------------
(***************************************************************************)
(* Sign-in with a login challenge: first factor, second factor (TOTP,      *)
(* passkey step-up or forced TOTP enrolment), consumption of the           *)
(* challenge, browser session and authorization code.                      *)
(*                                                                         *)
(* A request is one invocation of a handler of app.ts.  Its steps are the  *)
(* stretches between two awaits; every D1 or KV statement is one step.     *)
(* What a handler keeps in local variables over an await is kept in        *)
(* req[r], so a decision taken on an old read is taken on an old read      *)
(* here.  A crash of the isolate and an await that throws are the same     *)
(* step: the request ends where it is.                                     *)
(*                                                                         *)
(* First factors are modelled by their verdict (the services only read     *)
(* the state of this module); the rows they consume are not kept here.     *)
(***************************************************************************)
EXTENDS Naturals, Sequences, FiniteSets

CONSTANTS
    Users, Challenges, Requests,
    Nonces,         \* mfa_passkey_challenges rows that may be created
    Secrets,        \* TOTP secrets
    Methods,        \* first factors: "password", "magic_link", "passkey"
    PasskeyUsers,   \* users with a webauthn_credentials row
    InitialTotp,    \* the secret a user may have enrolled already, or NoSecret
    AttemptLimit,   \* 5 in the code
    MaxWindow,      \* bound on the 30-second window index
    MaxCrashes,     \* bound on requests that die half way
    NoUser, NoSecret, NoChallenge, NoNonce, NoMethod

FirstWindow == 2    \* windows start here so that the previous one exists

ASSUME LoginAssumption ==
    /\ AttemptLimit \in Nat \ {0}
    /\ MaxWindow \in Nat /\ MaxWindow >= FirstWindow
    /\ MaxCrashes \in Nat
    /\ PasskeyUsers \subseteq Users
    /\ InitialTotp \in [Users -> Secrets \cup {NoSecret}]
    /\ \A u, v \in Users :   \* secrets are drawn at random
         InitialTotp[u] = InitialTotp[v] /\ InitialTotp[u] # NoSecret => u = v
    /\ NoUser \notin Users /\ NoSecret \notin Secrets /\ NoMethod \notin Methods
    /\ NoChallenge \notin Challenges /\ NoNonce \notin Nonces

VARIABLES
    window,       \* floor(now / 30s)
    expired,      \* challenges whose expires_at has passed
    mfaRequired,  \* client_auth_method_policies.mfa_required of the client
    row,          \* login_challenges
    totp,         \* totp_credentials, unique per user
    nonce,        \* mfa_passkey_challenges: the challenge a nonce was made for
    usedNonces,   \* nonces with consumed_at set
    sessions,     \* browser sessions written to KV, by the challenge they end
    codes,        \* authorization_codes, by the challenge they end
    req,          \* handler invocations in flight
    usedSecrets,  \* secrets generated so far
    crashes,
    passed,       \* history: factors verified, by challenge and user
    unguarded     \* history: requests whose check of the policy had it off

vars == <<window, expired, mfaRequired, row, totp, nonce, usedNonces, sessions,
          codes, req, usedSecrets, crashes, passed, unguarded>>

clock == <<window, expired>>
policy == <<mfaRequired, unguarded>>
nonces == <<nonce, usedNonces>>
outcome == <<sessions, codes>>

SecondFactors == {"totp", "passkey_step_up", "enrollment"}
PendingStates == {"pending_totp", "pending_passkey_step_up", "pending_enrollment"}
MfaStates == {"none", "satisfied"} \cup PendingStates

\* A request past its successful consume: it owns the challenge.
BeforeSession == {"window", "satisfy", "persist", "enrolled", "session"}
Owning == BeforeSession \cup {"authorize"}
PCs == {"idle", "policy", "credentials", "pend", "verify", "nonce", "assert",
        "mint", "increment", "recount", "lockout", "secret", "switch",
        "consume"} \cup Owning

Windows == 0..(MaxWindow + 1)

Row == [consumed: BOOLEAN, user: Users \cup {NoUser}, mfaState: MfaStates,
        method: Methods \cup {NoMethod}, mfaAttempts: Nat,
        enrollAttempts: Nat, secret: Secrets \cup {NoSecret}]
Credential == [secret: Secrets \cup {NoSecret}, last: Windows]
Request == [pc: PCs, challenge: Challenges \cup {NoChallenge},
            user: Users \cup {NoUser}, method: Methods \cup {NoMethod},
            via: SecondFactors \cup {"none"}, target: MfaStates,
            secret: Secrets \cup {NoSecret}, window: Windows,
            nonce: Nonces \cup {NoNonce}]
Session == [user: Users, via: SecondFactors \cup {"none"},
            secret: Secrets \cup {NoSecret}, window: Windows]
Code == [user: Users, method: Methods]
Factor == [challenge: Challenges, user: Users, factor: Methods \cup SecondFactors]

Idle == [pc |-> "idle", challenge |-> NoChallenge, user |-> NoUser,
         method |-> NoMethod, via |-> "none", target |-> "none",
         secret |-> NoSecret, window |-> 0, nonce |-> NoNonce]
\* The row authorizeRequest inserts when there is no session.
FreshRow == [consumed |-> FALSE, user |-> NoUser, mfaState |-> "none",
             method |-> NoMethod, mfaAttempts |-> 0, enrollAttempts |-> 0,
             secret |-> NoSecret]

TypeOK ==
    /\ window \in FirstWindow..MaxWindow
    /\ expired \subseteq Challenges
    /\ mfaRequired \in BOOLEAN /\ unguarded \subseteq Requests
    /\ row \in [Challenges -> Row]
    /\ totp \in [Users -> Credential]
    /\ nonce \in [Nonces -> Challenges \cup {NoChallenge}]
    /\ usedNonces \subseteq Nonces
    /\ sessions \in [Challenges -> Seq(Session)]
    /\ codes \in [Challenges -> Seq(Code)]
    /\ req \in [Requests -> Request]
    /\ usedSecrets \subseteq Secrets
    /\ crashes \in 0..MaxCrashes
    /\ passed \subseteq Factor

-----------------------------------------------------------------------------
\* findByTokenHash reads unconsumed rows; isLoginChallengeActive checks expiry.
Active(c) == ~row[c].consumed /\ c \notin expired

Enrolled(u) == totp[u].secret # NoSecret

\* Bugs: the replay test lets the last window through; there is no test.
AcceptedWindowsAgain(last) == {w \in (window - 1)..(window + 1) : w >= last}
AcceptedWindowsAny(last) == (window - 1)..(window + 1)

\* The windows verifyTotpCode tries; a code is valid in a later one than `last`.
AcceptedWindows(last) == {w \in (window - 1)..(window + 1) : w > last}

Init ==
    /\ window = FirstWindow /\ expired = {}
    /\ mfaRequired \in BOOLEAN /\ unguarded = {}
    /\ row = [c \in Challenges |-> FreshRow]
    /\ \E known \in SUBSET Users :
         totp = [u \in Users |->
                    [secret |-> IF u \in known THEN InitialTotp[u] ELSE NoSecret,
                     last |-> 0]]
    /\ nonce = [n \in Nonces |-> NoChallenge] /\ usedNonces = {}
    /\ sessions = [c \in Challenges |-> <<>>]
    /\ codes = [c \in Challenges |-> <<>>]
    /\ req = [r \in Requests |-> Idle]
    /\ usedSecrets = {InitialTotp[u] : u \in Users} \ {NoSecret}
    /\ crashes = 0
    /\ passed = {}

Become(r, new) == req' = [req EXCEPT ![r] = new]
Goto(r, pc) == Become(r, [req[r] EXCEPT !.pc = pc])
Finish(r) == Become(r, Idle)

\* A handler that starts from the challenge row keeps the row's user and method.
Loaded(c, pc, via) ==
    [Idle EXCEPT !.pc = pc, !.challenge = c, !.user = row[c].user,
                 !.method = row[c].method, !.via = via]

Prove(c, u, factor) ==
    passed' = passed \cup {[challenge |-> c, user |-> u, factor |-> factor]}
-----------------------------------------------------------------------------
(* First factor, and what it decides about the second. *)

\* authenticateWithPassword (or a magic link, or a passkey) accepts user u on
\* challenge c.
FirstFactor(r, c, u, m) ==
    /\ req[r] = Idle
    /\ Active(c)
    /\ Become(r, [Idle EXCEPT !.pc = "policy", !.challenge = c,
                              !.user = u, !.method = m])
    /\ Prove(c, u, m)
    /\ unguarded' = IF mfaRequired THEN unguarded \ {r} ELSE unguarded \cup {r}
    /\ UNCHANGED <<clock, mfaRequired, row, totp, nonces, outcome, usedSecrets, crashes>>

\* Bug: the second factor is asked only of users who have one.
ReadPolicyOptional(r) ==
    /\ req[r].pc = "policy"
    /\ IF mfaRequired /\ (Enrolled(req[r].user) \/ req[r].user \in PasskeyUsers)
       THEN Goto(r, "credentials") /\ unguarded' = unguarded \ {r}
       ELSE Goto(r, "consume") /\ UNCHANGED unguarded
    /\ UNCHANGED <<clock, mfaRequired, row, totp, nonces, outcome, usedSecrets,
                   crashes, passed>>

ReadPolicy(r) ==
    /\ req[r].pc = "policy"
    /\ IF mfaRequired
       THEN Goto(r, "credentials") /\ unguarded' = unguarded \ {r}
       ELSE Goto(r, "consume") /\ UNCHANGED unguarded
    /\ UNCHANGED <<clock, mfaRequired, row, totp, nonces, outcome, usedSecrets,
                   crashes, passed>>

\* A passkey goes before TOTP; a user with neither must enrol.
ReadCredentials(r) ==
    /\ req[r].pc = "credentials"
    /\ LET u == req[r].user
           target == IF u \in PasskeyUsers THEN "pending_passkey_step_up"
                     ELSE IF Enrolled(u) THEN "pending_totp"
                     ELSE "pending_enrollment"
       IN  Become(r, [req[r] EXCEPT !.pc = "pend", !.target = target])
    /\ UNCHANGED <<clock, policy, row, totp, nonces, outcome, usedSecrets,
                   crashes, passed>>

\* An unconditional UPDATE: it neither looks at consumed_at nor at mfa_state,
\* and leaves the counters and the enrolment secret alone.
SetMfaState(r) ==
    /\ req[r].pc = "pend"
    /\ row' = [row EXCEPT ![req[r].challenge] =
                  [@ EXCEPT !.user = req[r].user, !.mfaState = req[r].target,
                            !.method = req[r].method]]
    /\ Finish(r)
    /\ UNCHANGED <<clock, policy, totp, nonces, outcome, usedSecrets, crashes, passed>>

-----------------------------------------------------------------------------
(* TOTP verification. *)

TotpVerify(r, c) ==
    /\ req[r] = Idle
    /\ Active(c)
    /\ row[c].mfaState = "pending_totp"
    /\ Become(r, Loaded(c, "verify", "totp"))
    /\ UNCHANGED <<clock, policy, row, totp, nonces, outcome, usedSecrets,
                   crashes, passed>>

\* The credential is read and the code checked against that copy of
\* last_used_window; a wrong code and a replayed one are counted alike.  The
\* decryption in between touches nothing shared.
CheckTotpCode(r) ==
    /\ req[r].pc = "verify"
    /\ LET u == req[r].user IN
       \/ /\ Enrolled(u)
          /\ \E w \in AcceptedWindows(totp[u].last) :
               Become(r, [req[r] EXCEPT !.pc = "consume", !.window = w,
                                        !.secret = totp[u].secret])
          /\ Prove(req[r].challenge, u, "totp")
       \/ /\ IF Enrolled(u) THEN Goto(r, "increment") ELSE Finish(r)
          /\ UNCHANGED passed
    /\ UNCHANGED <<clock, policy, row, totp, nonces, outcome, usedSecrets, crashes>>

\* Bug: an off-by-one stores a window that has not come yet.
UpdateToNextWindow(r) ==
    /\ req[r].pc = "window"
    /\ totp' = [totp EXCEPT ![req[r].user].last = req[r].window + 1]
    /\ Goto(r, "satisfy")
    /\ UNCHANGED <<clock, policy, row, nonces, outcome, usedSecrets, crashes, passed>>

UpdateLastUsedWindow(r) ==
    /\ req[r].pc = "window"
    /\ totp' = [totp EXCEPT ![req[r].user].last = req[r].window]
    /\ Goto(r, "satisfy")
    /\ UNCHANGED <<clock, policy, row, nonces, outcome, usedSecrets, crashes, passed>>

SatisfyMfa(r) ==
    /\ req[r].pc = "satisfy"
    /\ row' = [row EXCEPT ![req[r].challenge].mfaState = "satisfied"]
    /\ Goto(r, "session")
    /\ UNCHANGED <<clock, policy, totp, nonces, outcome, usedSecrets, crashes, passed>>

SwitchToTotp(r, c) ==
    /\ req[r] = Idle
    /\ Active(c)
    /\ row[c].mfaState = "pending_passkey_step_up"
    /\ Become(r, Loaded(c, "switch", "none"))
    /\ UNCHANGED <<clock, policy, row, totp, nonces, outcome, usedSecrets,
                   crashes, passed>>

\* Bug: the switch does not look for a TOTP credential.
SwitchUnchecked(r) ==
    /\ req[r].pc = "switch"
    /\ row' = [row EXCEPT ![req[r].challenge] =
                  [@ EXCEPT !.user = req[r].user, !.mfaState = "pending_totp",
                            !.method = req[r].method]]
    /\ Finish(r)
    /\ UNCHANGED <<clock, policy, totp, nonces, outcome, usedSecrets, crashes, passed>>

\* The credential is read and the row set; credentials are never deleted, so
\* nothing can come between that matters.
SwitchSet(r) ==
    /\ req[r].pc = "switch"
    /\ row' = IF Enrolled(req[r].user)
              THEN [row EXCEPT ![req[r].challenge] =
                       [@ EXCEPT !.user = req[r].user, !.mfaState = "pending_totp",
                                 !.method = req[r].method]]
              ELSE row
    /\ Finish(r)
    /\ UNCHANGED <<clock, policy, totp, nonces, outcome, usedSecrets, crashes, passed>>

-----------------------------------------------------------------------------
(* Failed second factors: two counters, one limit. *)

Attempts(r) ==
    IF req[r].via = "enrollment" THEN row[req[r].challenge].enrollAttempts
    ELSE row[req[r].challenge].mfaAttempts

\* UPDATE ... SET count = count + 1 is atomic; the SELECT that reads it back
\* is a statement of its own.
IncrementAttempts(r) ==
    /\ req[r].pc = "increment"
    /\ row' = IF req[r].via = "enrollment"
              THEN [row EXCEPT ![req[r].challenge].enrollAttempts = @ + 1]
              ELSE [row EXCEPT ![req[r].challenge].mfaAttempts = @ + 1]
    /\ Goto(r, "recount")
    /\ UNCHANGED <<clock, policy, totp, nonces, outcome, usedSecrets, crashes, passed>>

\* Bug: one failure too many is allowed.
ReadAttemptsLate(r) ==
    /\ req[r].pc = "recount"
    /\ IF Attempts(r) > AttemptLimit THEN Goto(r, "lockout") ELSE Finish(r)
    /\ UNCHANGED <<clock, policy, row, totp, nonces, outcome, usedSecrets,
                   crashes, passed>>

ReadAttempts(r) ==
    /\ req[r].pc = "recount"
    /\ IF Attempts(r) >= AttemptLimit
       THEN Goto(r, "lockout") ELSE Finish(r)
    /\ UNCHANGED <<clock, policy, row, totp, nonces, outcome, usedSecrets,
                   crashes, passed>>

\* Bug: the limit is reported and the challenge left alone.
LockoutForgotten(r) ==
    /\ req[r].pc = "lockout"
    /\ Finish(r)
    /\ UNCHANGED <<clock, policy, row, totp, nonces, outcome, usedSecrets, crashes, passed>>

\* The result of this consume is not looked at.
Lockout(r) ==
    /\ req[r].pc = "lockout"
    /\ row' = IF Active(req[r].challenge)
              THEN [row EXCEPT ![req[r].challenge].consumed = TRUE] ELSE row
    /\ Finish(r)
    /\ UNCHANGED <<clock, policy, totp, nonces, outcome, usedSecrets, crashes, passed>>

-----------------------------------------------------------------------------
(* Passkey step-up. *)

\* The nonce is fresh: nobody else holds it.
PasskeyStart(r, c, n) ==
    /\ req[r] = Idle
    /\ Active(c)
    /\ row[c].mfaState = "pending_passkey_step_up"
    /\ nonce[n] = NoChallenge /\ \A q \in Requests : req[q].nonce # n
    /\ Become(r, [Loaded(c, "mint", "passkey_step_up") EXCEPT !.nonce = n])
    /\ UNCHANGED <<clock, policy, row, totp, nonces, outcome, usedSecrets,
                   crashes, passed>>

CreateNonce(r) ==
    /\ req[r].pc = "mint"
    /\ nonce' = [nonce EXCEPT ![req[r].nonce] = req[r].challenge]
    /\ Finish(r)
    /\ UNCHANGED <<clock, policy, row, totp, usedNonces, outcome, usedSecrets,
                   crashes, passed>>

PasskeyFinish(r, c, n) ==
    /\ req[r] = Idle
    /\ Active(c)
    /\ row[c].mfaState = "pending_passkey_step_up"
    /\ nonce[n] # NoChallenge
    /\ Become(r, [Loaded(c, "nonce", "passkey_step_up") EXCEPT !.nonce = n])
    /\ UNCHANGED <<clock, policy, row, totp, nonces, outcome, usedSecrets,
                   crashes, passed>>

\* consumeByChallengeHash: the nonce carries the expiry of its challenge.
ConsumeNonce(r) ==
    /\ req[r].pc = "nonce"
    /\ LET n == req[r].nonce IN
       IF n \notin usedNonces /\ nonce[n] \notin expired
       THEN usedNonces' = usedNonces \cup {n} /\ Goto(r, "assert")
       ELSE Finish(r) /\ UNCHANGED usedNonces
    /\ UNCHANGED <<clock, policy, row, totp, nonce, outcome, usedSecrets,
                   crashes, passed>>

\* The credential is found by tenant and credential id; an unknown one and a
\* failed assertion are counted alike.
VerifyAssertion(r) ==
    /\ req[r].pc = "assert"
    /\ \/ \E owner \in PasskeyUsers :
            /\ Goto(r, "consume")
            /\ Prove(req[r].challenge, owner, "passkey_step_up")
       \/ Goto(r, "increment") /\ UNCHANGED passed
    /\ UNCHANGED <<clock, policy, row, totp, nonces, outcome, usedSecrets, crashes>>

-----------------------------------------------------------------------------
(* Forced TOTP enrolment. *)

EnrollStart(r, c) ==
    /\ req[r] = Idle
    /\ Active(c)
    /\ row[c].mfaState = "pending_enrollment"
    /\ \E s \in Secrets \ usedSecrets :
         /\ Become(r, [Loaded(c, "secret", "enrollment") EXCEPT !.secret = s])
         /\ usedSecrets' = usedSecrets \cup {s}
    /\ UNCHANGED <<clock, policy, row, totp, nonces, outcome, crashes, passed>>

\* Unconditional, like setMfaState.
SetEnrollmentSecret(r) ==
    /\ req[r].pc = "secret"
    /\ row' = [row EXCEPT ![req[r].challenge].secret = req[r].secret]
    /\ Finish(r)
    /\ UNCHANGED <<clock, policy, totp, nonces, outcome, usedSecrets, crashes, passed>>

EnrollFinish(r, c) ==
    /\ req[r] = Idle
    /\ Active(c)
    /\ row[c].mfaState = "pending_enrollment"
    /\ row[c].secret # NoSecret
    /\ LET loaded == [Loaded(c, "consume", "enrollment") EXCEPT !.secret = row[c].secret]
       IN  \/ /\ \E w \in AcceptedWindows(0) : Become(r, [loaded EXCEPT !.window = w])
              /\ Prove(c, row[c].user, "enrollment")
           \/ Become(r, [loaded EXCEPT !.pc = "increment"]) /\ UNCHANGED passed
    /\ UNCHANGED <<clock, policy, row, totp, nonces, outcome, usedSecrets, crashes>>

\* Bug: an upsert where the code inserts.
PersistOverwriting(r) ==
    /\ req[r].pc = "persist"
    /\ totp' = [totp EXCEPT ![req[r].user] =
                    [secret |-> req[r].secret, last |-> req[r].window]]
    /\ Goto(r, "enrolled")
    /\ UNCHANGED <<clock, policy, row, nonces, outcome, usedSecrets, crashes, passed>>

\* INSERT under unique (tenant, user); a conflict is swallowed.
PersistCredential(r) ==
    /\ req[r].pc = "persist"
    /\ totp' = IF Enrolled(req[r].user) THEN totp
               ELSE [totp EXCEPT ![req[r].user] =
                        [secret |-> req[r].secret, last |-> req[r].window]]
    /\ Goto(r, "enrolled")
    /\ UNCHANGED <<clock, policy, row, nonces, outcome, usedSecrets, crashes, passed>>

CompleteEnrollment(r) ==
    /\ req[r].pc = "enrolled"
    /\ row' = [row EXCEPT ![req[r].challenge] =
                  [@ EXCEPT !.mfaState = "satisfied", !.secret = NoSecret]]
    /\ Goto(r, "session")
    /\ UNCHANGED <<clock, policy, totp, nonces, outcome, usedSecrets, crashes, passed>>

-----------------------------------------------------------------------------
(* Consumption and what the owner of the challenge does next. *)

NextAfterConsume(via) ==
    CASE via = "totp" -> "window"
      [] via = "passkey_step_up" -> "satisfy"
      [] via = "enrollment" -> "persist"
      [] OTHER -> "session"

\* Bug: the UPDATE has lost its "consumed_at IS NULL".
ConsumeAgain(r) ==
    /\ req[r].pc = "consume"
    /\ IF req[r].challenge \notin expired
       THEN /\ row' = [row EXCEPT ![req[r].challenge].consumed = TRUE]
            /\ Goto(r, NextAfterConsume(req[r].via))
       ELSE Finish(r) /\ UNCHANGED row
    /\ UNCHANGED <<clock, policy, totp, nonces, outcome, usedSecrets, crashes, passed>>

\* UPDATE ... WHERE consumed_at IS NULL AND expires_at > now
ConsumeChallenge(r) ==
    /\ req[r].pc = "consume"
    /\ IF Active(req[r].challenge)
       THEN /\ row' = [row EXCEPT ![req[r].challenge].consumed = TRUE]
            /\ Goto(r, NextAfterConsume(req[r].via))
       ELSE Finish(r) /\ UNCHANGED row
    /\ UNCHANGED <<clock, policy, totp, nonces, outcome, usedSecrets, crashes, passed>>

\* Bug: the session is made for the user the row names now.
SessionForRow(r) ==
    /\ req[r].pc = "session"
    /\ LET current == row[req[r].challenge].user
           user == IF current = NoUser THEN req[r].user ELSE current
       IN  sessions' = [sessions EXCEPT ![req[r].challenge] =
                           Append(@, [user |-> user, via |-> req[r].via,
                                      secret |-> req[r].secret,
                                      window |-> req[r].window])]
    /\ Goto(r, "authorize")
    /\ UNCHANGED <<clock, policy, row, totp, nonces, codes, usedSecrets, crashes, passed>>

CreateSession(r) ==
    /\ req[r].pc = "session"
    /\ sessions' = [sessions EXCEPT ![req[r].challenge] =
                       Append(@, [user |-> req[r].user, via |-> req[r].via,
                                  secret |-> req[r].secret, window |-> req[r].window])]
    /\ Goto(r, "authorize")
    /\ UNCHANGED <<clock, policy, row, totp, nonces, codes, usedSecrets, crashes, passed>>

\* Bug: a refusal gives the challenge back for another try.
AuthorizeReopening(r) ==
    /\ req[r].pc = "authorize"
    /\ \/ /\ codes' = [codes EXCEPT ![req[r].challenge] =
                           Append(@, [user |-> req[r].user, method |-> req[r].method])]
          /\ UNCHANGED row
       \/ /\ row' = [row EXCEPT ![req[r].challenge].consumed = FALSE]
          /\ UNCHANGED codes
    /\ Finish(r)
    /\ UNCHANGED <<clock, policy, totp, nonces, sessions, usedSecrets, crashes, passed>>

\* authorizeRequest re-reads the client: it may grant a code, ask for consent
\* or refuse.
Authorize(r) ==
    /\ req[r].pc = "authorize"
    /\ \/ codes' = [codes EXCEPT ![req[r].challenge] =
                       Append(@, [user |-> req[r].user, method |-> req[r].method])]
       \/ UNCHANGED codes
    /\ Finish(r)
    /\ UNCHANGED <<clock, policy, row, totp, nonces, sessions, usedSecrets,
                   crashes, passed>>

-----------------------------------------------------------------------------
(* Surroundings: clock, admin, isolates that die. *)

Tick ==
    /\ window < MaxWindow
    /\ window' = window + 1
    /\ UNCHANGED <<expired, policy, row, totp, nonces, outcome, req, usedSecrets,
                   crashes, passed>>

Expire(c) ==
    /\ c \notin expired
    /\ expired' = expired \cup {c}
    /\ UNCHANGED <<window, policy, row, totp, nonces, outcome, req, usedSecrets,
                   crashes, passed>>

\* An administrator rewrites the client's authentication policy.
PatchPolicy ==
    /\ mfaRequired' = ~mfaRequired
    /\ unguarded' = unguarded \cup {r \in Requests : req[r].pc = "policy"}
    /\ UNCHANGED <<clock, row, totp, nonces, outcome, req, usedSecrets, crashes, passed>>

Crash(r) ==
    /\ req[r] # Idle
    /\ crashes < MaxCrashes
    /\ crashes' = crashes + 1
    /\ Finish(r)
    /\ UNCHANGED <<clock, policy, row, totp, nonces, outcome, usedSecrets, passed>>

\* The steps a request in flight takes by itself.
Continue(r) ==
    \/ ReadPolicy(r) \/ ReadCredentials(r) \/ SetMfaState(r)
    \/ CheckTotpCode(r) \/ UpdateLastUsedWindow(r) \/ SatisfyMfa(r) \/ SwitchSet(r)
    \/ IncrementAttempts(r) \/ ReadAttempts(r) \/ Lockout(r)
    \/ CreateNonce(r) \/ ConsumeNonce(r) \/ VerifyAssertion(r)
    \/ SetEnrollmentSecret(r) \/ PersistCredential(r) \/ CompleteEnrollment(r)
    \/ ConsumeChallenge(r) \/ CreateSession(r) \/ Authorize(r)

Arrive(r) ==
    \E c \in Challenges :
        \/ \E u \in Users, m \in Methods : FirstFactor(r, c, u, m)
        \/ TotpVerify(r, c) \/ SwitchToTotp(r, c)
        \/ \E n \in Nonces : PasskeyStart(r, c, n) \/ PasskeyFinish(r, c, n)
        \/ EnrollStart(r, c) \/ EnrollFinish(r, c)

Environment ==
    \/ Tick \/ PatchPolicy
    \/ \E c \in Challenges : Expire(c)
    \/ \E r \in Requests : Crash(r)

Next == Environment \/ \E r \in Requests : Arrive(r) \/ Continue(r)

Spec == Init /\ [][Next]_vars

\* The runtime drives a handler to its end unless the isolate dies; it
\* promises nothing about which requests arrive.
FairSpec == Spec /\ \A r \in Requests : WF_vars(Continue(r))

-----------------------------------------------------------------------------
(* Properties. *)

\* However the handlers of a challenge interleave, the challenge ends in at
\* most one browser session and one authorization code, the code belongs to the
\* session's user, and both come after the conditional UPDATE of consume().
OneLoginPerChallenge ==
    \A c \in Challenges :
        /\ Len(sessions[c]) <= 1 /\ Len(codes[c]) <= 1
        /\ codes[c] # <<>> =>
             /\ sessions[c] # <<>> /\ row[c].consumed
             /\ codes[c][1].user = sessions[c][1].user

Proved(c, u, factor) == [challenge |-> c, user |-> u, factor |-> factor] \in passed

\* A session exists only for a user who passed a first factor on this very
\* challenge, and the second factor it claims, although another request may
\* have put another user on the row meanwhile (setMfaState is unconditional).
\* A passkey step-up may be any owner's: finish looks the credential up by id.
\* The code carries the method that was really used (amr).
SessionsAreProved ==
    \A c \in Challenges :
        /\ \A i \in DOMAIN sessions[c] :
             LET s == sessions[c][i] IN
             /\ \E m \in Methods : Proved(c, s.user, m)
             /\ s.via \in {"totp", "enrollment"} => Proved(c, s.user, s.via)
             /\ s.via = "passkey_step_up" => \E v \in PasskeyUsers : Proved(c, v, s.via)
        /\ \A i \in DOMAIN codes[c] : Proved(c, codes[c][i].user, codes[c][i].method)

\* mfaCheckAfterFirstFactor: a session is made of a first factor alone only by a
\* request for which the policy was off at some moment between that factor and
\* its own check, however often it was patched before and after, and whatever
\* other requests of the user or on the challenge have found.
MfaNotBypassed ==
    [][\A c \in Challenges : \A i \in DOMAIN sessions'[c] \ DOMAIN sessions[c] :
           sessions'[c][i].via = "none" =>
               \E r \in unguarded : req'[r] # req[r]]_sessions

\* The lockout of the handlers (newCount >= 5) reads its counter back in a
\* second statement and consumes in a third, so concurrent guesses overshoot:
\* by at most one per request in flight and one per request that died.
FailuresBounded ==
    \A c \in Challenges :
        /\ row[c].mfaAttempts < AttemptLimit + Cardinality(Requests) + crashes
        /\ row[c].enrollAttempts < AttemptLimit + Cardinality(Requests) + crashes

\* What the second-factor handlers trust in a row holds in every state: its
\* user passed the recorded first factor, "pending_totp" means that there is a
\* credential, and only a consumed challenge is "satisfied".
PendingRowsAreProved ==
    \A c \in Challenges : row[c].mfaState # "none" =>
        /\ Proved(c, row[c].user, row[c].method)
        /\ row[c].mfaState = "pending_totp" => Enrolled(row[c].user)
        /\ row[c].mfaState = "satisfied" => row[c].consumed

\* totp_credentials.last_used_window: a code of one window signs in once, by
\* whatever challenge.
TotpCodeUsedOnce ==
    \A c, d \in Challenges : \A i \in DOMAIN sessions[c], j \in DOMAIN sessions[d] :
        LET s == sessions[c][i]
            t == sessions[d][j]
        IN  s.window > 0 /\ s.secret = t.secret /\ s.window = t.window => <<c, i>> = <<d, j>>

\* The enrolment secret of a row is there only during "pending_enrollment".
SecretOnlyWhilePending ==
    \A c \in Challenges :
        row[c].secret # NoSecret => row[c].mfaState = "pending_enrollment"

\* totpRepository.create: no sign-in replaces the authenticator of a user who
\* has one, though two enrolments of one user may finish side by side.
TotpSecretsStay ==
    [][\A u \in Users : Enrolled(u) => totp'[u].secret = totp[u].secret]_totp
\* updateLastUsedWindow is unconditional; with one request at a time it still
\* never moves back.
LastWindowGrows ==
    [][\A u \in Users : totp'[u].last >= totp[u].last]_totp

\* A challenge at its limit of failures ends up unusable, unless the request
\* that was to consume it died.
LockoutCompletes ==
    \A c \in Challenges :
        (row[c].mfaAttempts >= AttemptLimit)
            ~> (row[c].consumed \/ c \in expired \/ crashes > 0)

\* A login challenge is a one-time artifact whose result is a code.
Status(c) ==
    IF ~row[c].consumed THEN "open"
    ELSE IF \E r \in Requests : req[r].pc \in Owning /\ req[r].challenge = c
    THEN "claimed" ELSE "settled"

Artifact == INSTANCE OneTimeArtifact
    WITH Artifacts <- Challenges,
         status <- [c \in Challenges |-> Status(c)],
         yielded <- [c \in Challenges |-> Len(codes[c])]

\* The whole flow implements the one-time artifact.
IsOneTimeArtifact == Artifact!Spec
=============================================================================
