------------------------- MODULE TokenExchangeProofs -------------------------
(***************************************************************************)
(* Theorems about TokenExchange, for any sets of codes, tokens and         *)
(* requests, any lifetimes and any number of failures.                     *)
(***************************************************************************)
EXTENDS TokenExchange, TLAPS, FiniteSetTheorems

-----------------------------------------------------------------------------
(* Types.  What a call carries depends on where it is. *)

Exchanging == {"readCode", "consumeCode", "readRefresh", "store", "consumeParent", "respond"}
ForCode(q) == q.code \in Codes /\ q.parent = NoToken
ForToken(q) == q.code = NoCode /\ q.parent \in held

RequestKnown(q) ==
    /\ q \in Request
    /\ q.pc \in Exchanging <=> q.token \in Tokens
    /\ q.pc \in {"readCode", "consumeCode"} => ForCode(q)
    /\ q.pc \in {"readRefresh", "consumeParent", "readRevoked", "consumeRevoked"} => ForToken(q)
    /\ q.pc \in {"store", "respond"} => ForCode(q) \/ ForToken(q)

Typed == TypeOK /\ \A q \in Requests : RequestKnown(req[q])

-----------------------------------------------------------------------------
(* The invariants the theorems need besides. *)

\* The secret of a call in flight is known to nobody else; its row exists from
\* the store on, and descends from what the call presented.
SecretsAreFresh ==
    \A r \in Requests :
        /\ req[r].token # NoToken =>
             /\ req[r].token \notin held
             /\ \A q \in Requests \ {r} : req[q].token # req[r].token
        /\ req[r].pc \in {"readCode", "consumeCode", "readRefresh", "store"} =>
             refresh[req[r].token].status = "none"
        /\ req[r].pc \in {"consumeParent", "respond"} =>
             Active(req[r].token) /\ origin[req[r].token] = OriginOf(r)

\* A row that was never stored is blank; a stored one comes from a used code.
RowsAreRooted ==
    \A t \in Tokens :
        /\ t \in held => refresh[t].status # "none"
        /\ refresh[t].status = "none" => origin[t] = [code |-> NoCode, parent |-> NoToken]
        /\ refresh[t].status # "none" => origin[t].code \in usedCodes
        /\ origin[t].parent # NoToken => origin[t].parent \in held
        /\ refresh[t].status # "consumed" => refresh[t].replacedBy = NoToken

\* The winner of a code is alone, and stores the first token of the code.
CodeHasOneWinner ==
    \A r \in Requests : req[r].pc = "store" /\ req[r].code # NoCode =>
        /\ req[r].code \in usedCodes
        /\ \A q \in Requests \ {r} : req[q].pc = "store" => req[q].code # req[r].code
        /\ \A t \in Tokens : origin[t].code # req[r].code

\* What a call presented had not expired when the call began.
PresentedInTime ==
    \A r \in Requests : req[r].pc \in {"consumeCode", "store"} =>
        IF req[r].parent = NoToken THEN req[r].now < CodeTtl
        ELSE req[r].now < refresh[req[r].parent].expires

\* Who goes on with a code or a token past its read is whom it was issued to,
\* and a whole line of rows belongs to the caller of its code.
Entitled ==
    /\ \A r \in Requests :
         /\ req[r].pc \in {"consumeCode", "store"} /\ req[r].parent = NoToken =>
              req[r].caller = CodeCaller[req[r].code]
         /\ req[r].pc \in {"store", "consumeRevoked"} /\ req[r].parent # NoToken => Owns(r)
    /\ \A t \in Tokens : refresh[t].status # "none" =>
         refresh[t].caller = CodeCaller[origin[t].code]

IInv ==
    /\ Typed /\ Entitled /\ SecretsAreFresh /\ RowsAreRooted /\ CodeHasOneWinner /\ PresentedInTime
    /\ LineIsLinear /\ LineSurvives /\ RotationIsRecorded /\ GrantedInTime /\ RevokedIsConsumed

-----------------------------------------------------------------------------
(* What the steps do to the calls. *)

LEMMA GotoMoves ==
    ASSUME Typed, NEW r \in Requests, NEW pc, Goto(r, pc)
    PROVE  /\ req'[r].pc = pc /\ req'[r].code = req[r].code /\ req'[r].parent = req[r].parent
           /\ req'[r].token = req[r].token /\ req'[r].now = req[r].now
           /\ req'[r].caller = req[r].caller
           /\ pc \in PCs => req' \in [Requests -> Request]
           /\ \A q \in Requests \ {r} : req'[q] = req[q]
BY DEF Typed, TypeOK, Goto, Request

LEMMA FinishEnds ==
    ASSUME Typed, NEW r \in Requests, Finish(r)
    PROVE  /\ req'[r] = Idle
           /\ req' \in [Requests -> Request]
           /\ \A q \in Requests \ {r} : req'[q] = req[q]
<1>1. Idle \in Request
  BY ExchangeAssumption DEF Idle, Request, PCs, Times
<1> QED BY <1>1 DEF Typed, TypeOK, Finish

LEMMA IdleKnown == Idle.pc = "idle" /\ Idle.token = NoToken /\ Idle.code = NoCode /\ RequestKnown(Idle)
BY ExchangeAssumption
   DEF Idle, Request, PCs, Times, RequestKnown, Exchanging

LEMMA StartBegins ==
    ASSUME Typed, NEW r \in Requests, NEW call \in Request, Start(r, call)
    PROVE  /\ req'[r] = call
           /\ req' \in [Requests -> Request]
           /\ \A q \in Requests \ {r} : req'[q] = req[q]
           /\ req[r] = Idle
           /\ UNCHANGED <<now, usedCodes, refresh, held, failures, history>>
BY DEF Typed, TypeOK, Start

\* The three ways in start a call at its read.
LEMMA CallBegins ==
    ASSUME Typed, NEW r \in Requests, NEW w \in Callers, NEW t \in Tokens,
           \/ \E c \in Codes : Redeem(r, w, c, t)
           \/ \E p \in Tokens : Refresh(r, w, p, t)
           \/ Revoke(r, w, t)
    PROVE  \E call \in Request : /\ call.pc \in {"readCode", "readRefresh", "readRevoked"}
                                 /\ Start(r, call)
<1> USE ExchangeAssumption DEF Request, PCs, Times, Typed, TypeOK
<1>1. ASSUME NEW c \in Codes, Redeem(r, w, c, t)
      PROVE  \E call \in Request : call.pc = "readCode" /\ Start(r, call)
  <2> DEFINE call == [pc |-> "readCode", caller |-> w, code |-> c, parent |-> NoToken,
                      token |-> t, now |-> now]
  <2>1. call \in Request /\ call.pc = "readCode"
    OBVIOUS
  <2>2. Start(r, call)
    BY <1>1 DEF Redeem
  <2> HIDE DEF call
  <2> QED BY <2>1, <2>2
<1>2. ASSUME NEW p \in Tokens, Refresh(r, w, p, t)
      PROVE  \E call \in Request : call.pc = "readRefresh" /\ Start(r, call)
  <2> DEFINE call == [pc |-> "readRefresh", caller |-> w, code |-> NoCode, parent |-> p,
                      token |-> t, now |-> now]
  <2>1. call \in Request /\ call.pc = "readRefresh"
    OBVIOUS
  <2>2. Start(r, call)
    BY <1>2 DEF Refresh
  <2> HIDE DEF call
  <2> QED BY <2>1, <2>2
<1>3. ASSUME Revoke(r, w, t)
      PROVE  \E call \in Request : call.pc = "readRevoked" /\ Start(r, call)
  <2> DEFINE call == [pc |-> "readRevoked", caller |-> w, code |-> NoCode, parent |-> t,
                      token |-> NoToken, now |-> 0]
  <2>1. call \in Request /\ call.pc = "readRevoked"
    OBVIOUS
  <2>2. Start(r, call)
    BY <1>3 DEF Revoke
  <2> HIDE DEF call
  <2> QED BY <2>1, <2>2
<1> QED BY <1>1, <1>2, <1>3

LEMMA TypedInit == Init => Typed
<1> SUFFICES ASSUME Init PROVE Typed
  OBVIOUS
<1>1. refresh \in [Tokens -> Row] /\ origin \in [Tokens -> Origin]
  BY ExchangeAssumption DEF Init, NoRow, Row, Origin
<1> QED BY <1>1, IdleKnown, ExchangeAssumption
        DEF Init, Typed, TypeOK, RequestKnown, Times

\* A call that goes on stays known: it keeps what it carries.
LEMMA GotoKnown ==
    ASSUME Typed, NEW r \in Requests, NEW pc \in PCs, Goto(r, pc), held' = held,
           RequestKnown([req[r] EXCEPT !.pc = pc])
    PROVE  req' \in [Requests -> Request] /\ \A q \in Requests : RequestKnown(req[q])'
<1>1. req'[r] = [req[r] EXCEPT !.pc = pc] /\ \A q \in Requests \ {r} : req'[q] = req[q]
  BY DEF Typed, TypeOK, Goto
<1> QED BY <1>1, GotoMoves DEF Typed, RequestKnown, ForCode, ForToken

LEMMA FinishKnown ==
    ASSUME Typed, NEW r \in Requests, Finish(r), held \subseteq held'
    PROVE  req' \in [Requests -> Request] /\ \A q \in Requests : RequestKnown(req[q])'
BY FinishEnds, IdleKnown DEF Typed, RequestKnown, ForCode, ForToken, Idle, Exchanging

LEMMA StartKnown ==
    ASSUME Typed, NEW r \in Requests, NEW call, RequestKnown(call), Start(r, call)
    PROVE  Typed'
<1>1. held' = held /\ call \in Request
  BY DEF Start, RequestKnown
<1>2. RequestKnown(req[r])'
  <2>1. req'[r] = call
    BY StartBegins, <1>1
  <2> QED BY <1>1, <2>1 DEF RequestKnown, ForCode, ForToken
<1>3. \A q \in Requests \ {r} : RequestKnown(req[q])'
  BY StartBegins, <1>1 DEF Typed, RequestKnown, ForCode, ForToken
<1>4. req' \in [Requests -> Request]
  BY StartBegins, <1>1
<1> QED BY <1>2, <1>3, <1>4 DEF Start, Typed, TypeOK, history

\* A row is only ever stored anew, or consumed with or without a replacement.
LEMMA ConsumedType ==
    ASSUME TypeOK, NEW p \in Tokens, NEW t \in Tokens
    PROVE  /\ [refresh EXCEPT ![p].status = "consumed"] \in [Tokens -> Row]
           /\ [refresh EXCEPT ![p].status = "consumed", ![p].replacedBy = t] \in [Tokens -> Row]
BY DEF TypeOK, Row

LEMMA TypedNext == Typed /\ [Next]_vars => Typed'
<1> SUFFICES ASSUME Typed, [Next]_vars PROVE Typed'
  OBVIOUS
<1> USE ExchangeAssumption DEF history
<1>1. ASSUME Tick PROVE Typed'
  BY <1>1 DEF Tick, Typed, TypeOK, Times, RequestKnown, ForCode, ForToken
<1>2. ASSUME NEW r \in Requests, NEW w \in Callers, NEW c \in Codes, NEW t \in Tokens,
             Redeem(r, w, c, t)
      PROVE  Typed'
  <2>1. RequestKnown([pc |-> "readCode", caller |-> w, code |-> c, parent |-> NoToken,
                   token |-> t, now |-> now])
    BY DEF RequestKnown, ForCode, Request, PCs, Exchanging, Typed, TypeOK
  <2> QED BY <1>2, <2>1, StartKnown DEF Redeem, PCs
<1>3. ASSUME NEW r \in Requests, NEW w \in Callers, NEW p \in Tokens, NEW t \in Tokens,
             Refresh(r, w, p, t)
      PROVE  Typed'
  <2>1. RequestKnown([pc |-> "readRefresh", caller |-> w, code |-> NoCode, parent |-> p,
                   token |-> t, now |-> now])
    BY <1>3 DEF Refresh, RequestKnown, ForToken, Request, PCs, Exchanging, Typed, TypeOK
  <2> QED BY <1>3, <2>1, StartKnown DEF Refresh, PCs
<1>4. ASSUME NEW r \in Requests, NEW w \in Callers, NEW p \in Tokens, Revoke(r, w, p)
      PROVE  Typed'
  <2>1. RequestKnown([pc |-> "readRevoked", caller |-> w, code |-> NoCode, parent |-> p,
                   token |-> NoToken, now |-> 0])
    BY <1>4 DEF Revoke, RequestKnown, ForToken, Request, PCs, Exchanging, Typed, TypeOK, Times
  <2> QED BY <1>4, <2>1, StartKnown DEF Revoke, PCs
<1>5. ASSUME NEW r \in Requests, ReadCode(r) PROVE Typed'
  <2>1. RequestKnown([req[r] EXCEPT !.pc = "consumeCode"])
    BY <1>5 DEF ReadCode, Typed, TypeOK, RequestKnown, ForCode, Request, PCs, Exchanging
  <2> QED BY <1>5, <2>1, GotoKnown, FinishKnown DEF ReadCode, Typed, TypeOK, PCs
<1>6. ASSUME NEW r \in Requests, ConsumeCode(r) PROVE Typed'
  <2>1. RequestKnown([req[r] EXCEPT !.pc = "store"]) /\ req[r].code \in Codes
    BY <1>6 DEF ConsumeCode, Typed, TypeOK, RequestKnown, ForCode, Request, PCs, Exchanging
  <2> QED BY <1>6, <2>1, GotoKnown, FinishKnown DEF ConsumeCode, Typed, TypeOK, PCs
<1>7. ASSUME NEW r \in Requests, ReadRefresh(r) PROVE Typed'
  <2>1. RequestKnown([req[r] EXCEPT !.pc = "store"])
    BY <1>7 DEF ReadRefresh, Typed, TypeOK, RequestKnown, ForToken, Request, PCs, Exchanging
  <2> QED BY <1>7, <2>1, GotoKnown, FinishKnown DEF ReadRefresh, Typed, TypeOK, PCs
<1>8. ASSUME NEW r \in Requests, Store(r) PROVE Typed'
  <2> DEFINE next == IF req[r].parent = NoToken THEN "respond" ELSE "consumeParent"
  <2>1. RequestKnown([req[r] EXCEPT !.pc = next])
    BY <1>8 DEF Store, Typed, TypeOK, RequestKnown, ForCode, ForToken, Request, PCs, Exchanging
  <2>2. req' \in [Requests -> Request] /\ \A q \in Requests : RequestKnown(req[q])'
    BY <1>8, <2>1, GotoKnown DEF Store, PCs
  <2>3. refresh' \in [Tokens -> Row]
    <3>1. [status |-> "active", caller |-> req[r].caller, expires |-> req[r].now + RefreshTtl,
           replacedBy |-> NoToken] \in Row
      BY DEF Typed, TypeOK, Request, Row, Times
    <3> QED BY <1>8, <3>1 DEF Store, Typed, TypeOK
  <2>4. origin' \in [Tokens -> Origin]
    <3>1. OriginOf(r) \in Origin
      BY DEF OriginOf, Origin, Typed, TypeOK, Request
    <3> QED BY <1>8, <3>1 DEF Store, Typed, TypeOK
  <2> QED BY <1>8, <2>2, <2>3, <2>4 DEF Store, Typed, TypeOK
<1>9. ASSUME NEW r \in Requests, ConsumeParent(r) PROVE Typed'
  <2>1. RequestKnown([req[r] EXCEPT !.pc = "respond"]) /\ req[r].parent \in Tokens
        /\ req[r].token \in Tokens
    BY <1>9 DEF ConsumeParent, Typed, TypeOK, RequestKnown, ForToken, Request, PCs, Exchanging
  <2>2. refresh' \in [Tokens -> Row]
    <3>1. [refresh EXCEPT ![req[r].parent].status = "consumed",
                          ![req[r].parent].replacedBy = req[r].token] \in [Tokens -> Row]
      BY <2>1, ConsumedType DEF Typed
    <3> QED BY <1>9, <3>1 DEF ConsumeParent, Typed, TypeOK
  <2>3. req' \in [Requests -> Request] /\ \A q \in Requests : RequestKnown(req[q])'
    BY <1>9, <2>1, GotoKnown, FinishKnown DEF ConsumeParent, PCs
  <2> QED BY <1>9, <2>2, <2>3 DEF ConsumeParent, Typed, TypeOK
<1>10. ASSUME NEW r \in Requests, Respond(r) PROVE Typed'
  BY <1>10, FinishKnown DEF Respond, Typed, TypeOK, RequestKnown, Exchanging
<1>11. ASSUME NEW r \in Requests, ReadRevoked(r) PROVE Typed'
  <2>1. RequestKnown([req[r] EXCEPT !.pc = "consumeRevoked"]) /\ req[r].parent \in Tokens
    BY <1>11 DEF ReadRevoked, Typed, TypeOK, RequestKnown, ForToken, Request, PCs, Exchanging
  <2> QED BY <1>11, <2>1, GotoKnown, FinishKnown DEF ReadRevoked, Answer, Typed, TypeOK, PCs
<1>12. ASSUME NEW r \in Requests, ConsumeRevoked(r) PROVE Typed'
  <2>1. req[r].parent \in Tokens
    BY <1>12 DEF ConsumeRevoked, Typed, TypeOK, RequestKnown, ForToken
  <2>2. refresh' \in [Tokens -> Row]
    BY <1>12, <2>1, ConsumedType DEF ConsumeRevoked, Typed, TypeOK
  <2> QED BY <1>12, <2>1, <2>2, FinishKnown DEF ConsumeRevoked, Answer, Typed, TypeOK
<1>13. ASSUME NEW r \in Requests, Fail(r) PROVE Typed'
  BY <1>13, FinishKnown DEF Fail, Typed, TypeOK, RequestKnown, Exchanging
<1>14. ASSUME UNCHANGED vars PROVE Typed'
  BY <1>14 DEF vars, Typed, TypeOK, RequestKnown, ForCode, ForToken
<1> QED BY <1>1, <1>2, <1>3, <1>4, <1>5, <1>6, <1>7, <1>8, <1>9, <1>10, <1>11, <1>12,
           <1>13, <1>14 DEF Next

-----------------------------------------------------------------------------
(* Steps that leave the rows alone. *)

Calls == SecretsAreFresh /\ CodeHasOneWinner /\ PresentedInTime
Lines ==
    /\ RowsAreRooted /\ LineIsLinear /\ LineSurvives
    /\ RotationIsRecorded /\ GrantedInTime /\ RevokedIsConsumed

LEMMA IInvInit == Init => IInv
<1> SUFFICES ASSUME Init PROVE IInv
  OBVIOUS
<1>1. Typed
  BY TypedInit
<1>2. Calls
  <2>1. \A r \in Requests : req[r].pc = "idle" /\ req[r].token = NoToken
    BY IdleKnown DEF Init
  <2> QED BY <2>1 DEF Calls, SecretsAreFresh, CodeHasOneWinner, PresentedInTime
<1>3. Lines
  BY ExchangeAssumption
     DEF Init, Lines, RowsAreRooted, LineIsLinear, LineSurvives, RotationIsRecorded,
         GrantedInTime, RevokedIsConsumed, NoRow, Live, Active
<1>4. Entitled
  BY IdleKnown DEF Init, Entitled, NoRow
<1> QED BY <1>1, <1>2, <1>3, <1>4 DEF IInv, Calls, Lines

\* The answers on their way either stay so or are lost; none is new.
LEMMA QuietKeepsLines ==
    ASSUME Lines, UNCHANGED <<refresh, held, origin>>,
           usedCodes \subseteq usedCodes', lost \subseteq lost', answered \subseteq answered',
           \A t \in Tokens : InAnswer(t)' => InAnswer(t),
           \A t \in Tokens : InAnswer(t) => InAnswer(t)' \/ t \in lost',
           \A t \in answered' \ answered : refresh[t].status = "consumed"
    PROVE  Lines'
<1>1. \A t : Active(t)' = Active(t)
  BY DEF Active
<1>2. \A c \in Codes : Live(c)' \subseteq Live(c)
  BY <1>1 DEF Live
<1>3. RowsAreRooted'
  BY DEF Lines, RowsAreRooted
<1>4. LineIsLinear'
  BY <1>2 DEF Lines, LineIsLinear
<1>5. LineSurvives'
  <2> SUFFICES ASSUME NEW c \in Codes, NEW t \in held, origin[t].code = c, Live(c)' = {},
                      \A u \in lost \cup answered : origin[u].code # c
               PROVE  \E u \in (lost \cup answered)' : origin[u].code = c
    BY DEF LineSurvives
  <2>1. PICK u \in Live(c) : TRUE
    BY DEF Lines, LineSurvives
  <2>2. u \in lost'
    BY <1>1, <2>1 DEF Live
  <2> QED BY <2>1, <2>2 DEF Live
<1>6. RotationIsRecorded'
  BY DEF Lines, RotationIsRecorded
<1>7. GrantedInTime'
  BY DEF Lines, GrantedInTime
<1>8. RevokedIsConsumed'
  BY DEF Lines, RevokedIsConsumed
<1> QED BY <1>3, <1>4, <1>5, <1>6, <1>7, <1>8 DEF Lines

\* A call that comes from or goes to a step without an answer.
LEMMA AnswersStay ==
    ASSUME NEW r \in Requests, req[r].pc # "respond", req'[r].pc # "respond",
           \A q \in Requests \ {r} : req'[q] = req[q]
    PROVE  \A t \in Tokens : InAnswer(t)' <=> InAnswer(t)
BY DEF InAnswer

LEMMA StartKeepsLines ==
    ASSUME Typed, Lines, NEW r \in Requests, NEW call \in Request, call.pc # "respond",
           Start(r, call)
    PROVE  Lines'
<1>1. /\ req[r].pc # "respond" /\ req'[r].pc # "respond"
      /\ \A q \in Requests \ {r} : req'[q] = req[q]
  <2>1. /\ req'[r] = call
        /\ \A q \in Requests \ {r} : req'[q] = req[q]
        /\ req[r] = Idle
    BY StartBegins
  <2> QED BY <2>1, IdleKnown
<1>2. \A u \in Tokens : InAnswer(u)' <=> InAnswer(u)
  BY <1>1, AnswersStay
<1> QED BY <1>2, QuietKeepsLines DEF Start, history

LEMMA GotoKeepsLines ==
    ASSUME Typed, Lines, NEW r \in Requests, req[r].pc # "respond",
           NEW pc \in PCs \ {"respond"}, Goto(r, pc) \/ Finish(r),
           UNCHANGED <<refresh, held, origin>>,
           usedCodes \subseteq usedCodes', lost \subseteq lost', answered \subseteq answered',
           \A t \in answered' \ answered : refresh[t].status = "consumed"
    PROVE  Lines'
<1>1. \A u \in Tokens : InAnswer(u)' <=> InAnswer(u)
  BY GotoMoves, FinishEnds, IdleKnown, AnswersStay
<1> QED BY <1>1, QuietKeepsLines

\* A call that ends leaves the others what they had.
LEMMA FinishKeepsCalls ==
    ASSUME Typed, Calls, NEW r \in Requests, Finish(r),
           UNCHANGED <<usedCodes, refresh, held, origin>>
    PROVE  Calls'
<1>1. SecretsAreFresh'
  BY FinishEnds, IdleKnown DEF Calls, SecretsAreFresh, Active, OriginOf
<1>2. CodeHasOneWinner'
  BY FinishEnds, IdleKnown DEF Calls, CodeHasOneWinner
<1>3. PresentedInTime'
  BY FinishEnds, IdleKnown DEF Calls, PresentedInTime
<1> QED BY <1>1, <1>2, <1>3 DEF Calls

-----------------------------------------------------------------------------
(* The steps, one by one. *)

LEMMA RedeemKeeps ==
    ASSUME Typed, Calls, Lines, NEW r \in Requests, NEW w \in Callers,
           NEW c \in Codes, NEW t \in Tokens, Redeem(r, w, c, t)
    PROVE  Calls' /\ Lines'
<1> DEFINE call == [pc |-> "readCode", caller |-> w, code |-> c,
                    parent |-> NoToken, token |-> t, now |-> now]
<1> USE DEF Redeem
<1>0. call \in Request /\ call.pc # "respond"
  BY ExchangeAssumption DEF Request, PCs, Typed, TypeOK, Times
<1>1. /\ req'[r] = call
      /\ \A q \in Requests \ {r} : req'[q] = req[q]
      /\ UNCHANGED <<now, usedCodes, refresh, held, failures, history>>
  BY <1>0, StartBegins
<1>2. Lines'
  BY <1>0, StartKeepsLines
<1>3. SecretsAreFresh'
  <2>1. t \notin held
    BY DEF Fresh, Lines, RowsAreRooted
  <2> QED BY <1>1, <2>1 DEF Calls, SecretsAreFresh, Active, OriginOf, Fresh, history
<1>4. CodeHasOneWinner'
  BY <1>1 DEF Calls, CodeHasOneWinner, history
<1>5. PresentedInTime'
  BY <1>1 DEF Calls, PresentedInTime, history
<1> QED BY <1>2, <1>3, <1>4, <1>5 DEF Calls

LEMMA RefreshKeeps ==
    ASSUME Typed, Calls, Lines, NEW r \in Requests, NEW w \in Callers,
           NEW p \in Tokens, NEW t \in Tokens, Refresh(r, w, p, t)
    PROVE  Calls' /\ Lines'
<1> DEFINE call == [pc |-> "readRefresh", caller |-> w, code |-> NoCode,
                    parent |-> p, token |-> t, now |-> now]
<1> USE DEF Refresh
<1>0. call \in Request /\ call.pc # "respond"
  BY ExchangeAssumption DEF Request, PCs, Typed, TypeOK, Times
<1>1. /\ req'[r] = call
      /\ \A q \in Requests \ {r} : req'[q] = req[q]
      /\ UNCHANGED <<now, usedCodes, refresh, held, failures, history>>
  BY <1>0, StartBegins
<1>2. Lines'
  BY <1>0, StartKeepsLines
<1>3. SecretsAreFresh'
  <2>1. t \notin held
    BY DEF Fresh, Lines, RowsAreRooted
  <2> QED BY <1>1, <2>1 DEF Calls, SecretsAreFresh, Active, OriginOf, Fresh, history
<1>4. CodeHasOneWinner'
  BY <1>1 DEF Calls, CodeHasOneWinner, history
<1>5. PresentedInTime'
  BY <1>1 DEF Calls, PresentedInTime, history
<1> QED BY <1>2, <1>3, <1>4, <1>5 DEF Calls

LEMMA RevokeKeeps ==
    ASSUME Typed, Calls, Lines, NEW r \in Requests, NEW w \in Callers, NEW p \in Tokens,
           Revoke(r, w, p)
    PROVE  Calls' /\ Lines'
<1> DEFINE call == [pc |-> "readRevoked", caller |-> w, code |-> NoCode,
                    parent |-> p, token |-> NoToken, now |-> 0]
<1> USE DEF Revoke
<1>0. call \in Request /\ call.pc # "respond"
  BY ExchangeAssumption DEF Request, PCs, Typed, TypeOK, Times
<1>1. /\ req'[r] = call
      /\ \A q \in Requests \ {r} : req'[q] = req[q]
      /\ UNCHANGED <<now, usedCodes, refresh, held, failures, history>>
  BY <1>0, StartBegins
<1>2. Lines'
  BY <1>0, StartKeepsLines
<1>3. SecretsAreFresh'
  BY <1>1 DEF Calls, SecretsAreFresh, Active, OriginOf, history
<1>4. CodeHasOneWinner'
  BY <1>1 DEF Calls, CodeHasOneWinner, history
<1>5. PresentedInTime'
  BY <1>1 DEF Calls, PresentedInTime, history
<1> QED BY <1>2, <1>3, <1>4, <1>5 DEF Calls

\* The three reads.
LEMMA ReadCodeKeeps ==
    ASSUME Typed, Calls, Lines, NEW r \in Requests, ReadCode(r)
    PROVE  Calls' /\ Lines'
<1> USE DEF ReadCode, history
<1>1. Lines'
  BY GotoKeepsLines DEF PCs
<1>2. CASE Finish(r)
  BY <1>1, <1>2, FinishKeepsCalls
<1>3. CASE req[r].now < CodeTtl /\ Goto(r, "consumeCode")
  <2>1. SecretsAreFresh'
    BY <1>3, GotoMoves DEF Calls, SecretsAreFresh, Active, OriginOf
  <2>2. CodeHasOneWinner'
    BY <1>3, GotoMoves DEF Calls, CodeHasOneWinner
  <2>3. PresentedInTime'
    BY <1>3, GotoMoves DEF Calls, PresentedInTime, Typed, RequestKnown, ForCode
  <2> QED BY <1>1, <2>1, <2>2, <2>3 DEF Calls
<1> QED BY <1>2, <1>3

LEMMA ReadRefreshKeeps ==
    ASSUME Typed, Calls, Lines, NEW r \in Requests, ReadRefresh(r)
    PROVE  Calls' /\ Lines'
<1> USE DEF ReadRefresh, history
<1>1. Lines'
  BY GotoKeepsLines DEF PCs
<1>2. CASE Finish(r)
  BY <1>1, <1>2, FinishKeepsCalls
<1>3. CASE /\ Active(req[r].parent) /\ req[r].now < refresh[req[r].parent].expires
           /\ Goto(r, "store")
  <2>1. ForToken(req[r]) /\ req[r].parent \in Tokens /\ req[r].parent # NoToken
    BY ExchangeAssumption DEF Typed, TypeOK, RequestKnown, ForToken
  <2>2. SecretsAreFresh'
    BY <1>3, GotoMoves DEF Calls, SecretsAreFresh, Active, OriginOf
  <2>3. CodeHasOneWinner'
    BY <1>3, <2>1, GotoMoves DEF Calls, CodeHasOneWinner, ForToken
  <2>4. PresentedInTime'
    BY <1>3, <2>1, GotoMoves DEF Calls, PresentedInTime
  <2> QED BY <1>1, <2>2, <2>3, <2>4 DEF Calls
<1> QED BY <1>2, <1>3

LEMMA ReadRevokedKeeps ==
    ASSUME Typed, Calls, Lines, NEW r \in Requests, ReadRevoked(r)
    PROVE  Calls' /\ Lines'
<1> USE DEF ReadRevoked, history
<1>1. req[r].parent \in Tokens /\ req[r].parent \in held
  BY DEF Typed, TypeOK, RequestKnown, ForToken
<1>2. \A t \in answered' \ answered : refresh[t].status = "consumed"
  BY <1>1 DEF Answer, Active, Lines, RowsAreRooted, Typed, TypeOK, Row
<1>3. Lines'
  BY <1>2, GotoKeepsLines DEF PCs, Answer
<1>4. CASE Finish(r)
  BY <1>3, <1>4, FinishKeepsCalls
<1>5. CASE Goto(r, "consumeRevoked")
  <2>1. SecretsAreFresh'
    BY <1>5, GotoMoves DEF Calls, SecretsAreFresh, Active, OriginOf
  <2>2. CodeHasOneWinner'
    BY <1>5, GotoMoves DEF Calls, CodeHasOneWinner
  <2>3. PresentedInTime'
    BY <1>5, GotoMoves DEF Calls, PresentedInTime
  <2> QED BY <1>3, <2>1, <2>2, <2>3 DEF Calls
<1> QED BY <1>4, <1>5

\* The consume of a code makes its one winner.
LEMMA ConsumeCodeKeeps ==
    ASSUME Typed, Calls, Lines, NEW r \in Requests, ConsumeCode(r)
    PROVE  Calls' /\ Lines'
<1> USE DEF ConsumeCode, history
<1>1. Lines'
  BY GotoKeepsLines DEF PCs
<1>2. CASE req[r].code \in usedCodes
  BY <1>1, <1>2, FinishKeepsCalls
<1>3. CASE req[r].code \notin usedCodes
  <2>1. ForCode(req[r]) /\ req[r].code # NoCode
    BY ExchangeAssumption DEF Typed, RequestKnown, ForCode
  <2>2. SecretsAreFresh'
    BY <1>3, GotoMoves DEF Calls, SecretsAreFresh, Active, OriginOf
  <2>3. \A t \in Tokens : origin[t].code # req[r].code
    <3>1. \A t \in Tokens : origin[t].code \in usedCodes \/ origin[t].code = NoCode
      BY DEF Lines, RowsAreRooted
    <3> QED BY <1>3, <2>1, <3>1
  <2>4. \A q \in Requests \ {r} : req[q].pc = "store" => req[q].code # req[r].code
    BY <1>3, <2>1 DEF Calls, CodeHasOneWinner
  <2>5. CodeHasOneWinner'
    BY <1>3, <2>3, <2>4, GotoMoves DEF Calls, CodeHasOneWinner
  <2>6. PresentedInTime'
    BY <1>3, GotoMoves DEF Calls, PresentedInTime
  <2> QED BY <1>1, <2>2, <2>5, <2>6 DEF Calls
<1> QED BY <1>2, <1>3

\* A row is added.  After a code it is the first of its line and on its way to
\* the client; after a refresh it stays unknown until its parent is consumed.
LEMMA StoreKeeps ==
    ASSUME Typed, Calls, Lines, NEW r \in Requests, Store(r)
    PROVE  Calls' /\ Lines'
<1> PICK t0 \in Tokens : t0 = req[r].token
  BY DEF Store, Typed, RequestKnown, Exchanging
<1>1. t0 \in Tokens /\ t0 # NoToken /\ t0 \notin held /\ refresh[t0].status = "none"
  BY ExchangeAssumption DEF Store, Calls, SecretsAreFresh
<1>2. /\ refresh'[t0] = [status |-> "active", caller |-> req[r].caller,
                         expires |-> req[r].now + RefreshTtl, replacedBy |-> NoToken]
      /\ origin'[t0] = OriginOf(r)
      /\ \A t \in Tokens \ {t0} : refresh'[t] = refresh[t] /\ origin'[t] = origin[t]
  BY <1>1 DEF Store, Typed, TypeOK
<1>3. UNCHANGED <<now, usedCodes, held, failures, lost, answered>>
  BY DEF Store
<1>4. /\ req'[r].code = req[r].code /\ req'[r].parent = req[r].parent
      /\ req'[r].token = t0 /\ req'[r].now = req[r].now
      /\ req'[r].pc = IF req[r].parent = NoToken THEN "respond" ELSE "consumeParent"
      /\ \A q \in Requests \ {r} : req'[q] = req[q]
  BY GotoMoves DEF Store
<1>5. \A q \in Requests \ {r} : req[q].token # t0
  BY <1>1 DEF Calls, SecretsAreFresh
<1>6. \A q \in Requests : req[q].pc # "idle" /\ req[q].parent # NoToken => req[q].parent \in held
  BY DEF Typed, TypeOK, RequestKnown, ForCode, ForToken, Request, PCs
<1>7. /\ req[r].parent = NoToken => req[r].code \in Codes /\ req[r].code # NoCode
      /\ req[r].parent # NoToken => req[r].parent \in Tokens /\ req[r].parent \in held
      /\ req[r].parent # NoToken => req[r].code = NoCode
      /\ req[r].pc = "store"
  BY ExchangeAssumption DEF Store, Typed, TypeOK, RequestKnown, ForCode, ForToken
<1>8. \A t \in held : t \in Tokens /\ t # t0
  BY <1>1 DEF Typed, TypeOK
<1>9. \A q \in Requests : req[q].pc # "idle" => OriginOf(q)' = OriginOf(q)
  BY <1>2, <1>4, <1>6, <1>8 DEF OriginOf
<1>10. SecretsAreFresh'
  <2>1. Active(t0)' /\ origin'[t0] = OriginOf(r)'
    BY <1>2, <1>7, <1>9 DEF Active
  <2>2. \A q \in Requests \ {r} : req[q].pc \in {"consumeParent", "respond"} =>
          Active(req[q].token)' /\ origin'[req[q].token] = OriginOf(q)'
    <3> SUFFICES ASSUME NEW q \in Requests \ {r}, req[q].pc \in {"consumeParent", "respond"}
                 PROVE  Active(req[q].token)' /\ origin'[req[q].token] = OriginOf(q)'
      BY <1>4
    <3>1. req[q].token \in Tokens \ {t0}
      BY <1>5 DEF Typed, RequestKnown, Exchanging
    <3> QED BY <1>2, <1>4, <1>9, <3>1 DEF Active, Calls, SecretsAreFresh
  <2>3. \A q \in Requests \ {r} :
          req[q].pc \in {"readCode", "consumeCode", "readRefresh", "store"} =>
            req[q].token \in Tokens \ {t0}
    BY <1>5 DEF Typed, RequestKnown, Exchanging
  <2> QED BY <1>1, <1>2, <1>3, <1>4, <1>5, <2>1, <2>2, <2>3 DEF Calls, SecretsAreFresh
<1>11. CodeHasOneWinner'
  <2> SUFFICES ASSUME NEW q \in Requests \ {r}, req[q].pc = "store", req[q].code # NoCode
               PROVE  \A t \in Tokens : origin'[t].code # req[q].code
    BY <1>3, <1>4 DEF Calls, CodeHasOneWinner
  <2>1. \A t \in Tokens : origin[t].code # req[q].code
    BY DEF Calls, CodeHasOneWinner
  <2>2. OriginOf(r).code # req[q].code
    BY <1>7, <2>1 DEF OriginOf, Calls, CodeHasOneWinner
  <2> QED BY <1>2, <2>1, <2>2
<1>12. PresentedInTime'
  <2>1. \A q \in Requests : req[q].pc # "idle" /\ req[q].parent # NoToken =>
          refresh'[req[q].parent] = refresh[req[q].parent]
    BY <1>2, <1>6, <1>8
  <2> QED BY <1>4, <2>1 DEF Calls, PresentedInTime
<1>13. RowsAreRooted'
  <2>1. OriginOf(r).code \in usedCodes
    BY <1>7 DEF OriginOf, Calls, CodeHasOneWinner, Lines, RowsAreRooted
  <2>2. OriginOf(r).parent # NoToken => OriginOf(r).parent \in held
    BY <1>7 DEF OriginOf
  <2> QED BY <1>1, <1>2, <1>3, <2>1, <2>2 DEF Lines, RowsAreRooted
<1>14. /\ \A t \in Tokens \ {t0} : InAnswer(t)' <=> InAnswer(t)
       /\ InAnswer(t0)' => req[r].parent = NoToken
  BY <1>4, <1>5, <1>7 DEF InAnswer
<1>15. \A c \in Codes : Live(c) \subseteq Live(c)' /\ Live(c)' \subseteq Live(c) \cup {t0}
  BY <1>1, <1>2, <1>3, <1>14 DEF Live, Active
<1>16. LineIsLinear'
  <2> SUFFICES ASSUME NEW c \in Codes, t0 \in Live(c)' PROVE Live(c) = {}
    BY <1>15 DEF Lines, LineIsLinear
  <2>1. req[r].parent = NoToken /\ req[r].code = c
    BY <1>1, <1>2, <1>3, <1>14 DEF Live, OriginOf
  <2> QED BY <1>7, <2>1 DEF Live, Calls, CodeHasOneWinner
<1>17. LineSurvives'
  <2> SUFFICES ASSUME NEW c \in Codes, NEW t \in held, origin'[t].code = c, Live(c)' = {}
               PROVE  \E u \in lost \cup answered : origin'[u].code = c
    BY <1>3 DEF LineSurvives
  <2>1. PICK u \in lost \cup answered : origin[u].code = c
    BY <1>2, <1>8, <1>15 DEF Lines, LineSurvives
  <2>2. u \in Tokens /\ origin[t0].code = NoCode /\ c # NoCode
    BY <1>1, ExchangeAssumption DEF Typed, TypeOK, Lines, RowsAreRooted
  <2> QED BY <1>2, <2>1, <2>2
<1>18. RotationIsRecorded'
  <2>1. ASSUME NEW t \in Tokens, (t \in held \/ InAnswer(t)'), origin'[t].parent # NoToken
        PROVE  refresh'[origin'[t].parent].status = "consumed"
               /\ refresh'[origin'[t].parent].replacedBy = t
    <3>1. t # t0
      BY <1>2, <1>8, <1>14, <2>1 DEF OriginOf
    <3>2. origin[t].parent \in held /\ origin'[t] = origin[t]
      BY <1>2, <2>1, <3>1 DEF Lines, RowsAreRooted
    <3> QED BY <1>2, <1>8, <1>14, <2>1, <3>1, <3>2 DEF Lines, RotationIsRecorded
  <2>2. ASSUME NEW t \in Tokens, refresh'[t].replacedBy # NoToken
        PROVE  origin'[refresh'[t].replacedBy].parent = t
    <3>1. t # t0 /\ refresh'[t] = refresh[t]
      BY <1>2, <2>2
    <3>2. origin[refresh[t].replacedBy].parent = t /\ refresh[t].replacedBy \in Tokens
      BY <2>2, <3>1 DEF Lines, RotationIsRecorded, Typed, TypeOK, Row
    <3>3. origin[t0].parent = NoToken /\ t # NoToken
      BY <1>1, ExchangeAssumption DEF Lines, RowsAreRooted
    <3> QED BY <1>2, <3>1, <3>2, <3>3
  <2> QED BY <1>3, <2>1, <2>2 DEF RotationIsRecorded
<1>19. GrantedInTime'
  <2>1. CASE req[r].parent = NoToken
    <3>1. req[r].now < CodeTtl /\ req[r].now \in Nat
      BY <1>7, <2>1, ExchangeAssumption
         DEF Calls, PresentedInTime, Typed, TypeOK, Request, Times
    <3>2. refresh'[t0].expires < CodeTtl + RefreshTtl /\ origin'[t0].parent = NoToken
      BY <1>2, <2>1, <3>1, ExchangeAssumption DEF OriginOf
    <3>3. \A t \in Tokens \ {t0} : origin[t].parent # NoToken => origin[t].parent \in Tokens \ {t0}
      BY <1>8 DEF Lines, RowsAreRooted
    <3> QED BY <1>2, <3>2, <3>3 DEF Lines, GrantedInTime
  <2>2. CASE req[r].parent # NoToken
    <3>1. /\ req[r].now < refresh[req[r].parent].expires /\ req[r].now \in Nat
          /\ refresh[req[r].parent].expires \in Nat
      BY <1>7, <2>2, ExchangeAssumption
         DEF Calls, PresentedInTime, Typed, TypeOK, Request, Times, Row
    <3>2. /\ refresh'[t0].expires < refresh'[req[r].parent].expires + RefreshTtl
          /\ origin'[t0].parent = req[r].parent
      BY <1>2, <1>7, <1>8, <2>2, <3>1, ExchangeAssumption DEF OriginOf
    <3>3. \A t \in Tokens \ {t0} : origin[t].parent # NoToken => origin[t].parent \in Tokens \ {t0}
      BY <1>8 DEF Lines, RowsAreRooted
    <3> QED BY <1>2, <2>2, <3>2, <3>3 DEF Lines, GrantedInTime
  <2> QED BY <2>1, <2>2
<1>20. RevokedIsConsumed'
  BY <1>1, <1>2, <1>3 DEF Lines, RevokedIsConsumed, Typed, TypeOK
<1> QED BY <1>10, <1>11, <1>12, <1>13, <1>16, <1>17, <1>18, <1>19, <1>20 DEF Calls, Lines

\* Only one of the calls that race finds its parent active: in its line the
\* replacement takes the parent's place.
LEMMA ConsumeParentKeeps ==
    ASSUME Typed, Calls, Lines, NEW r \in Requests, ConsumeParent(r)
    PROVE  Calls' /\ Lines'
<1> USE DEF history
<1>a. CASE ~Active(req[r].parent)
  BY <1>a, FinishKeepsCalls, GotoKeepsLines DEF ConsumeParent, PCs
<1> SUFFICES ASSUME Active(req[r].parent) PROVE Calls' /\ Lines'
  BY <1>a
<1> PICK t0 \in Tokens : t0 = req[r].token
  BY DEF ConsumeParent, Typed, RequestKnown, Exchanging
<1> PICK p \in held : p = req[r].parent
  BY DEF ConsumeParent, Typed, RequestKnown, ForToken
<1>1. /\ p \in Tokens /\ p # NoToken /\ p # t0 /\ t0 # NoToken /\ t0 \notin held
      /\ refresh[p].status = "active" /\ refresh[t0].status = "active"
      /\ origin[t0].code = origin[p].code /\ origin[t0].parent = p
      /\ refresh[p].replacedBy = NoToken
      /\ req[r].pc = "consumeParent" /\ req[r].code = NoCode
  <2>1. req[r].pc = "consumeParent" /\ req[r].code = NoCode /\ p \in Tokens /\ p # NoToken
        /\ t0 # NoToken
    BY ExchangeAssumption DEF ConsumeParent, Typed, TypeOK, RequestKnown, ForToken
  <2>2. t0 \notin held /\ Active(t0) /\ origin[t0] = OriginOf(r)
    BY <2>1 DEF Calls, SecretsAreFresh
  <2>3. origin[t0].code = origin[p].code /\ origin[t0].parent = p
    BY <2>1, <2>2 DEF OriginOf
  <2>4. refresh[p].replacedBy = NoToken
    BY <2>1 DEF Lines, RowsAreRooted, Active
  <2> QED BY <2>1, <2>2, <2>3, <2>4 DEF Active
<1>2. /\ refresh'[p].status = "consumed" /\ refresh'[p].replacedBy = t0
      /\ refresh'[p].expires = refresh[p].expires
      /\ \A t \in Tokens \ {p} : refresh'[t] = refresh[t]
  BY <1>1 DEF ConsumeParent, Typed, TypeOK, Row
<1>3. UNCHANGED <<now, usedCodes, held, failures, history>>
  BY DEF ConsumeParent
<1>4. /\ req'[r].code = NoCode /\ req'[r].parent = p
      /\ req'[r].token = t0 /\ req'[r].now = req[r].now /\ req'[r].pc = "respond"
      /\ \A q \in Requests \ {r} : req'[q] = req[q]
  BY <1>1, GotoMoves DEF ConsumeParent
<1>5. \A q \in Requests : req[q].token # p
  BY <1>1 DEF Calls, SecretsAreFresh
<1>6. \A q \in Requests : OriginOf(q)' = OriginOf(q)
  BY <1>1, <1>3, <1>4 DEF OriginOf
<1>7. SecretsAreFresh'
  <2>1. Active(t0)' /\ origin'[t0] = OriginOf(r)'
    BY <1>1, <1>2, <1>3, <1>6 DEF Active, Calls, SecretsAreFresh
  <2>2. \A q \in Requests \ {r} : req[q].pc \in Exchanging =>
          req[q].token \in Tokens /\ refresh'[req[q].token] = refresh[req[q].token]
    BY <1>2, <1>5 DEF Typed, RequestKnown
  <2> QED BY <1>1, <1>3, <1>4, <1>6, <2>1, <2>2 DEF Calls, SecretsAreFresh, Active, Exchanging
<1>8. CodeHasOneWinner'
  BY <1>3, <1>4 DEF Calls, CodeHasOneWinner
<1>9. PresentedInTime'
  <2>1. \A t \in Tokens : refresh'[t].expires = refresh[t].expires
    BY <1>2
  <2>2. \A q \in Requests : req[q].pc \in {"consumeCode", "store"} /\ req[q].parent # NoToken =>
          req[q].parent \in Tokens
    BY DEF Typed, TypeOK, Request
  <2> QED BY <1>4, <2>1, <2>2 DEF Calls, PresentedInTime
<1>10. RowsAreRooted'
  BY <1>1, <1>2, <1>3 DEF Lines, RowsAreRooted
<1>11. \A t \in Tokens : InAnswer(t)' <=> InAnswer(t) \/ t = t0
  BY <1>1, <1>4 DEF InAnswer
<1>12. \A t \in Tokens : Active(t)' <=> Active(t) /\ t # p
  BY <1>2 DEF Active
<1>13. ASSUME NEW c \in Codes
       PROVE  Live(c)' = IF origin[p].code = c THEN (Live(c) \ {p}) \cup {t0} ELSE Live(c)
  BY <1>1, <1>3, <1>11, <1>12 DEF Live, Active
<1>14. \A c \in Codes : p \in Live(c) <=> origin[p].code = c
  BY <1>1 DEF Live, Active
<1>15. LineIsLinear'
  BY <1>13, <1>14 DEF Lines, LineIsLinear
<1>16. LineSurvives'
  BY <1>3, <1>13 DEF Lines, LineSurvives
<1>17. RotationIsRecorded'
  <2>1. ASSUME NEW t \in Tokens, (t \in held \/ InAnswer(t)'), origin[t].parent # NoToken
        PROVE  refresh'[origin[t].parent].status = "consumed"
               /\ refresh'[origin[t].parent].replacedBy = t
    <3>1. CASE t = t0
      BY <1>1, <1>2, <3>1
    <3>2. CASE t # t0
      <4>1. /\ refresh[origin[t].parent].status = "consumed"
            /\ refresh[origin[t].parent].replacedBy = t
            /\ origin[t].parent \in Tokens
        BY <1>11, <2>1, <3>2 DEF Lines, RotationIsRecorded, RowsAreRooted, Typed, TypeOK
      <4> QED BY <1>1, <1>2, <4>1
    <3> QED BY <3>1, <3>2
  <2>2. \A t \in Tokens : refresh'[t].replacedBy # NoToken => origin[refresh'[t].replacedBy].parent = t
    BY <1>1, <1>2 DEF Lines, RotationIsRecorded
  <2> QED BY <1>3, <2>1, <2>2 DEF RotationIsRecorded
<1>18. GrantedInTime'
  <2>1. \A t \in Tokens : /\ refresh'[t].expires = refresh[t].expires
                          /\ refresh'[t].status # "none" => refresh[t].status # "none"
                          /\ origin[t].parent # NoToken => origin[t].parent \in Tokens
    BY <1>1, <1>2 DEF Typed, TypeOK, Origin
  <2> QED BY <1>3, <2>1 DEF Lines, GrantedInTime
<1>19. RevokedIsConsumed'
  BY <1>2, <1>3 DEF Lines, RevokedIsConsumed, Typed, TypeOK
<1> QED BY <1>7, <1>8, <1>9, <1>10, <1>15, <1>16, <1>17, <1>18, <1>19 DEF Calls, Lines

\* The answer arrives: the client holds a token that was live already.
LEMMA RespondKeeps ==
    ASSUME Typed, Calls, Lines, NEW r \in Requests, Respond(r)
    PROVE  Calls' /\ Lines'
<1> USE DEF history
<1> PICK t0 \in Tokens : t0 = req[r].token
  BY DEF Respond, Typed, RequestKnown, Exchanging
<1>1. /\ t0 # NoToken /\ t0 \notin held /\ Active(t0) /\ InAnswer(t0) /\ req[r].pc = "respond"
      /\ \A q \in Requests \ {r} : req[q].token # t0
  BY ExchangeAssumption DEF Respond, Calls, SecretsAreFresh, InAnswer
<1>2. /\ held' = held \cup {t0}
      /\ UNCHANGED <<now, usedCodes, refresh, failures, history>>
  BY DEF Respond
<1>3. /\ req'[r].pc = "idle" /\ req'[r].token = NoToken
      /\ \A q \in Requests \ {r} : req'[q] = req[q]
  BY FinishEnds, IdleKnown DEF Respond
<1>4. \A t : Active(t)' <=> Active(t)
  BY <1>2 DEF Active
<1>5. SecretsAreFresh'
  BY <1>1, <1>2, <1>3, <1>4 DEF Calls, SecretsAreFresh, OriginOf
<1>6. CodeHasOneWinner'
  BY <1>2, <1>3 DEF Calls, CodeHasOneWinner
<1>7. PresentedInTime'
  BY <1>2, <1>3 DEF Calls, PresentedInTime
<1>8. RowsAreRooted'
  BY <1>1, <1>2 DEF Lines, RowsAreRooted, Active
<1>9. \A t \in Tokens : t \in held' \/ InAnswer(t)' <=> t \in held \/ InAnswer(t)
  BY <1>1, <1>2, <1>3 DEF InAnswer
<1>10. \A c \in Codes : Live(c)' = Live(c)
  BY <1>2, <1>4, <1>9 DEF Live
<1>11. LineIsLinear'
  BY <1>10 DEF Lines, LineIsLinear
<1>12. LineSurvives'
  <2>1. \A c \in Codes : origin[t0].code = c => t0 \in Live(c)
    BY <1>1 DEF Live
  <2> QED BY <1>2, <1>10, <2>1 DEF Lines, LineSurvives
<1>13. RotationIsRecorded'
  BY <1>2, <1>9 DEF Lines, RotationIsRecorded
<1>14. GrantedInTime' /\ RevokedIsConsumed'
  BY <1>2 DEF Lines, GrantedInTime, RevokedIsConsumed
<1> QED BY <1>5, <1>6, <1>7, <1>8, <1>11, <1>12, <1>13, <1>14 DEF Calls, Lines

\* A revocation may end a line; it touches no row without a request for it.
LEMMA ConsumeRevokedKeeps ==
    ASSUME Typed, Calls, Lines, Entitled, NEW r \in Requests, ConsumeRevoked(r)
    PROVE  Calls' /\ Lines'
<1> USE DEF history
<1> PICK p \in held : p = req[r].parent
  BY DEF ConsumeRevoked, Typed, RequestKnown, ForToken
<1>1. /\ p \in Tokens /\ refresh[p].status \in {"active", "consumed"}
      /\ \A q \in Requests : req[q].token # p
      /\ req[r].pc = "consumeRevoked"
  BY ExchangeAssumption
     DEF ConsumeRevoked, Typed, TypeOK, Row, Calls, SecretsAreFresh, Lines, RowsAreRooted
<1>2. /\ refresh'[p].status = "consumed" /\ refresh'[p].replacedBy = refresh[p].replacedBy
      /\ refresh'[p].expires = refresh[p].expires
      /\ \A t \in Tokens \ {p} : refresh'[t] = refresh[t]
  BY <1>1 DEF ConsumeRevoked, Typed, TypeOK, Row, Active
<1>3. UNCHANGED <<now, usedCodes, held, failures, origin, lost>> /\ answered' = answered \cup {p}
  BY <1>1, ExchangeAssumption DEF ConsumeRevoked, Answer, Entitled
<1>4. /\ req'[r].pc = "idle" /\ req'[r].token = NoToken
      /\ \A q \in Requests \ {r} : req'[q] = req[q]
  BY FinishEnds, IdleKnown DEF ConsumeRevoked
<1>5. \A t \in Tokens \ {p} : Active(t)' <=> Active(t)
  BY <1>2 DEF Active
<1>6. SecretsAreFresh'
  <2>1. \A q \in Requests : req[q].pc \in Exchanging => req[q].token \in Tokens \ {p}
    BY <1>1 DEF Typed, RequestKnown
  <2> QED BY <1>2, <1>3, <1>4, <1>5, <2>1 DEF Calls, SecretsAreFresh, OriginOf, Exchanging
<1>7. CodeHasOneWinner'
  BY <1>3, <1>4 DEF Calls, CodeHasOneWinner
<1>8. PresentedInTime'
  <2>1. \A t \in Tokens : refresh'[t].expires = refresh[t].expires
    BY <1>2
  <2>2. \A q \in Requests : req[q].pc \in {"consumeCode", "store"} /\ req[q].parent # NoToken =>
          req[q].parent \in Tokens
    BY DEF Typed, TypeOK, Request
  <2> QED BY <1>4, <2>1, <2>2 DEF Calls, PresentedInTime
<1>9. RowsAreRooted'
  BY <1>1, <1>2, <1>3 DEF Lines, RowsAreRooted
<1>10. \A t \in Tokens : InAnswer(t)' <=> InAnswer(t)
  BY <1>1, <1>4 DEF InAnswer
<1>11. \A c \in Codes : Live(c)' = Live(c) \ {p}
  <2>1. ~Active(p)'
    BY <1>2 DEF Active
  <2> QED BY <1>3, <1>5, <1>10, <2>1 DEF Live
<1>12. LineIsLinear'
  BY <1>11 DEF Lines, LineIsLinear
<1>13. LineSurvives'
  <2>1. \A c \in Codes : p \in Live(c) => origin[p].code = c
    BY DEF Live
  <2> QED BY <1>3, <1>11, <2>1 DEF Lines, LineSurvives
<1>14. RotationIsRecorded'
  <2>1. \A t \in Tokens : /\ refresh'[t].replacedBy = refresh[t].replacedBy
                          /\ refresh[t].status = "consumed" => refresh'[t].status = "consumed"
                          /\ origin[t].parent # NoToken => origin[t].parent \in Tokens
    BY <1>2 DEF Typed, TypeOK, Origin
  <2> QED BY <1>3, <1>10, <2>1 DEF Lines, RotationIsRecorded
<1>15. GrantedInTime'
  <2>1. \A t \in Tokens : /\ refresh'[t].expires = refresh[t].expires
                          /\ refresh'[t].status # "none" => refresh[t].status # "none"
                          /\ origin[t].parent # NoToken => origin[t].parent \in Tokens
    BY <1>1, <1>2 DEF Typed, TypeOK, Origin
  <2> QED BY <1>3, <2>1 DEF Lines, GrantedInTime
<1>16. RevokedIsConsumed'
  BY <1>2, <1>3 DEF Lines, RevokedIsConsumed, Typed, TypeOK
<1> QED BY <1>6, <1>7, <1>8, <1>9, <1>12, <1>13, <1>14, <1>15, <1>16 DEF Calls, Lines

\* The call that fails with its answer on the way loses the token.
LEMMA FailKeeps ==
    ASSUME Typed, Calls, Lines, NEW r \in Requests, Fail(r)
    PROVE  Calls' /\ Lines'
<1> USE DEF Fail
<1>1. Calls'
  BY FinishKeepsCalls
<1>2. req'[r].pc = "idle" /\ \A q \in Requests \ {r} : req'[q] = req[q]
  BY FinishEnds, IdleKnown
<1>3. /\ \A t \in Tokens : InAnswer(t)' => InAnswer(t)
      /\ \A t \in Tokens : InAnswer(t) => InAnswer(t)' \/ t \in lost'
  BY <1>2 DEF InAnswer
<1> QED BY <1>1, <1>3, QuietKeepsLines

LEMMA QuietKeeps ==
    ASSUME Calls, Lines, Tick \/ UNCHANGED vars
    PROVE  Calls' /\ Lines'
<1>1. UNCHANGED <<usedCodes, refresh, held, req, failures, history>>
  BY DEF Tick, vars, history
<1>2. Calls'
  BY <1>1 DEF Calls, SecretsAreFresh, CodeHasOneWinner, PresentedInTime, Active, OriginOf, history
<1>3. Lines'
  BY <1>1, QuietKeepsLines DEF InAnswer, history
<1> QED BY <1>2, <1>3

-----------------------------------------------------------------------------
(* Who a call works for. *)

\* What the steps of the calls do to the rows' callers: a stored row keeps its
\* own, and a call that has passed its read goes on for the same caller.
LEMMA CallersStay ==
    ASSUME Entitled,
           \A t \in Tokens : refresh'[t].caller = refresh[t].caller,
           \A t \in Tokens : refresh'[t].status # "none" => refresh[t].status # "none",
           UNCHANGED origin,
           \A q \in Requests :
               \/ req'[q].pc \notin {"consumeCode", "store", "consumeRevoked"}
               \/ /\ req'[q].caller = req[q].caller /\ req'[q].code = req[q].code
                  /\ req'[q].parent = req[q].parent /\ req[q].parent \in Tokens \cup {NoToken}
                  /\ \/ req'[q].pc = req[q].pc
                     \/ /\ req'[q].pc = "store" => req[q].pc \in {"consumeCode", "store"} \/ Owns(q)
                        /\ req'[q].pc \in {"consumeCode", "store"} /\ req[q].parent = NoToken =>
                             req[q].caller = CodeCaller[req[q].code]
                        /\ req'[q].pc \in {"store", "consumeRevoked"} /\ req[q].parent # NoToken =>
                             Owns(q)
    PROVE  Entitled'
BY DEF Entitled, Owns

LEMMA EntitledNext == Typed /\ Calls /\ Lines /\ Entitled /\ [Next]_vars => Entitled'
<1> SUFFICES ASSUME Typed, Calls, Lines, Entitled, [Next]_vars PROVE Entitled'
  OBVIOUS
<1> USE DEF history
<1>1. \A q \in Requests : req[q].parent \in Tokens \cup {NoToken}
  BY DEF Typed, TypeOK, Request
<1>2. ASSUME NEW r \in Requests, NEW call \in Request, Start(r, call),
             call.pc \in {"readCode", "readRefresh", "readRevoked"}
      PROVE  Entitled'
  BY <1>1, <1>2, StartBegins, CallersStay
<1>3. ASSUME NEW r \in Requests, NEW w \in Callers, NEW t \in Tokens,
             \/ \E c \in Codes : Redeem(r, w, c, t)
             \/ \E p \in Tokens : Refresh(r, w, p, t)
             \/ Revoke(r, w, t)
      PROVE  Entitled'
  <2>1. PICK call \in Request : /\ call.pc \in {"readCode", "readRefresh", "readRevoked"}
                                /\ Start(r, call)
    BY <1>3, CallBegins
  <2> QED BY <1>2, <2>1
<1>4. ASSUME NEW r \in Requests, Finish(r), UNCHANGED origin,
             \A t \in Tokens : refresh'[t].caller = refresh[t].caller,
             \A t \in Tokens : refresh'[t].status # "none" => refresh[t].status # "none"
      PROVE  Entitled'
  BY <1>1, <1>4, FinishEnds, IdleKnown, CallersStay
<1>5. ASSUME NEW r \in Requests, ReadCode(r) PROVE Entitled'
  <2>1. CASE Finish(r)
    BY <1>4, <1>5, <2>1 DEF ReadCode
  <2>2. CASE Goto(r, "consumeCode") /\ req[r].caller = CodeCaller[req[r].code]
    BY <1>1, <1>5, <2>2, GotoMoves, CallersStay DEF ReadCode
  <2> QED BY <1>5, <2>1, <2>2 DEF ReadCode
<1>6. ASSUME NEW r \in Requests, ConsumeCode(r) PROVE Entitled'
  <2>1. CASE Finish(r)
    BY <1>4, <1>6, <2>1 DEF ConsumeCode
  <2>2. CASE Goto(r, "store")
    <3>1. req[r].parent = NoToken /\ req[r].caller = CodeCaller[req[r].code]
      BY <1>6 DEF ConsumeCode, Typed, RequestKnown, ForCode, Entitled
    <3> QED BY <1>1, <1>6, <2>2, <3>1, GotoMoves, CallersStay DEF ConsumeCode
  <2> QED BY <1>6, <2>1, <2>2 DEF ConsumeCode
<1>7. ASSUME NEW r \in Requests, ReadRefresh(r) PROVE Entitled'
  <2>1. CASE Finish(r)
    BY <1>4, <1>7, <2>1 DEF ReadRefresh
  <2>2. CASE Goto(r, "store") /\ Owns(r)
    <3>1. req[r].parent # NoToken
      BY <1>7, ExchangeAssumption DEF ReadRefresh, Typed, TypeOK, RequestKnown, ForToken
    <3> QED BY <1>1, <1>7, <2>2, <3>1, GotoMoves, CallersStay DEF ReadRefresh
  <2> QED BY <1>7, <2>1, <2>2 DEF ReadRefresh
<1>8. ASSUME NEW r \in Requests, ReadRevoked(r) PROVE Entitled'
  <2>1. CASE Finish(r)
    BY <1>4, <1>8, <2>1 DEF ReadRevoked
  <2>2. CASE Goto(r, "consumeRevoked") /\ Owns(r)
    BY <1>1, <1>8, <2>2, GotoMoves, CallersStay DEF ReadRevoked
  <2> QED BY <1>8, <2>1, <2>2 DEF ReadRevoked
<1>9. ASSUME NEW r \in Requests, Store(r) PROVE Entitled'
  <2> PICK t0 \in Tokens : t0 = req[r].token
    BY <1>9 DEF Store, Typed, RequestKnown, Exchanging
  <2>1. t0 \notin held
    BY <1>9, ExchangeAssumption DEF Store, Calls, SecretsAreFresh
  <2>2. /\ refresh'[t0].caller = req[r].caller /\ origin'[t0] = OriginOf(r)
        /\ \A t \in Tokens \ {t0} : refresh'[t] = refresh[t] /\ origin'[t] = origin[t]
    BY <1>9 DEF Store, Typed, TypeOK
  <2>3. /\ req'[r].pc \in {"respond", "consumeParent"}
        /\ \A q \in Requests \ {r} : req'[q] = req[q]
    BY <1>9, GotoMoves DEF Store
  <2>4. \A q \in Requests : req[q].pc \in {"store", "consumeRevoked"} /\ req[q].parent # NoToken =>
          req[q].parent \in Tokens \ {t0}
    BY <2>1 DEF Typed, TypeOK, RequestKnown, ForCode, ForToken
  <2>5. \A q \in Requests :
          /\ req'[q].pc \in {"consumeCode", "store"} /\ req'[q].parent = NoToken =>
               req'[q].caller = CodeCaller[req'[q].code]
          /\ req'[q].pc \in {"store", "consumeRevoked"} /\ req'[q].parent # NoToken => Owns(q)'
    BY <2>2, <2>3, <2>4 DEF Entitled, Owns
  <2>6. refresh'[t0].caller = CodeCaller[origin'[t0].code]
    <3>1. CASE req[r].parent = NoToken
      BY <1>9, <2>2, <3>1 DEF Store, Entitled, OriginOf
    <3>2. CASE req[r].parent # NoToken
      <4>1. Owns(r) /\ req[r].parent \in Tokens /\ refresh[req[r].parent].status # "none"
        BY <1>9, <2>4, <3>2
           DEF Store, Entitled, Typed, RequestKnown, ForCode, ForToken, Lines, RowsAreRooted
      <4> QED BY <2>2, <3>2, <4>1 DEF Entitled, Owns, OriginOf
    <3> QED BY <3>1, <3>2
  <2>7. \A t \in Tokens \ {t0} : refresh'[t].status # "none" =>
          refresh'[t].caller = CodeCaller[origin'[t].code]
    BY <2>2 DEF Entitled
  <2> QED BY <2>5, <2>6, <2>7 DEF Entitled
<1>10. ASSUME NEW r \in Requests, ConsumeParent(r) PROVE Entitled'
  <2> PICK p \in Tokens : p = req[r].parent
    BY <1>10 DEF ConsumeParent, Typed, TypeOK, RequestKnown, ForToken
  <2>1. \A t \in Tokens : /\ refresh'[t].caller = refresh[t].caller
                          /\ refresh'[t].status # "none" => refresh[t].status # "none"
    BY <1>10 DEF ConsumeParent, Active, Typed, TypeOK, Row
  <2>2. CASE Finish(r)
    BY <1>4, <1>10, <2>1, <2>2 DEF ConsumeParent
  <2>3. CASE Goto(r, "respond")
    BY <1>1, <1>10, <2>1, <2>3, GotoMoves, CallersStay DEF ConsumeParent
  <2> QED BY <1>10, <2>2, <2>3 DEF ConsumeParent
<1>11. ASSUME NEW r \in Requests, ConsumeRevoked(r) PROVE Entitled'
  <2> PICK p \in Tokens : p = req[r].parent
    BY <1>11 DEF ConsumeRevoked, Typed, TypeOK, RequestKnown, ForToken
  <2>1. \A t \in Tokens : /\ refresh'[t].caller = refresh[t].caller
                          /\ refresh'[t].status # "none" => refresh[t].status # "none"
    BY <1>11 DEF ConsumeRevoked, Active, Typed, TypeOK, Row
  <2> QED BY <1>4, <1>11, <2>1 DEF ConsumeRevoked
<1>12. ASSUME NEW r \in Requests, Respond(r) \/ Fail(r) PROVE Entitled'
  BY <1>4, <1>12 DEF Respond, Fail
<1>13. ASSUME Tick \/ UNCHANGED vars PROVE Entitled'
  BY <1>13 DEF Tick, vars, Entitled, Owns
<1> QED BY <1>3, <1>5, <1>6, <1>7, <1>8, <1>9, <1>10, <1>11, <1>12, <1>13 DEF Next

-----------------------------------------------------------------------------
(* The theorems. *)

LEMMA IInvNext == IInv /\ [Next]_vars => IInv'
<1> SUFFICES ASSUME IInv, [Next]_vars PROVE IInv'
  OBVIOUS
<1>1. Typed /\ Calls /\ Lines /\ Entitled
  BY DEF IInv, Calls, Lines
<1>2. Calls' /\ Lines'
  BY <1>1, RedeemKeeps, RefreshKeeps, RevokeKeeps, ReadCodeKeeps, ConsumeCodeKeeps,
     ReadRefreshKeeps, StoreKeeps, ConsumeParentKeeps, RespondKeeps, ReadRevokedKeeps,
     ConsumeRevokedKeeps, FailKeeps, QuietKeeps
     DEF Next
<1>3. Entitled'
  BY <1>1, EntitledNext
<1> QED BY <1>1, <1>2, <1>3, TypedNext DEF IInv, Calls, Lines

\* All the invariants hold together: every step of every call keeps them.
THEOREM Invariance == Spec => []IInv
BY IInvInit, IInvNext, PTL DEF Spec

\* Every variable keeps its type.
THEOREM TypeCorrect == Spec => []TypeOK
<1>1. IInv => TypeOK
  BY DEF IInv, Typed
<1> QED BY <1>1, Invariance, PTL

\* exchangeAuthorizationCode: however redemptions and refreshes race, one
\* sign-in never has two usable refresh tokens.
THEOREM Linear == Spec => []LineIsLinear
<1>1. IInv => LineIsLinear
  BY DEF IInv
<1> QED BY <1>1, Invariance, PTL

\* A client that got a refresh token keeps a usable one until it revokes it or
\* an answer is lost.
THEOREM Survives == Spec => []LineSurvives
<1>1. IInv => LineSurvives
  BY DEF IInv
<1> QED BY <1>1, Invariance, PTL

\* The rows' replacedByTokenId is the chain of rotations that happened.
THEOREM Recorded == Spec => []RotationIsRecorded
<1>1. IInv => RotationIsRecorded
  BY DEF IInv
<1> QED BY <1>1, Invariance, PTL

\* The expiry that a call compared before it paused still bounds what it grants.
THEOREM InTime == Spec => []GrantedInTime
<1>1. IInv => GrantedInTime
  BY DEF IInv
<1> QED BY <1>1, Invariance, PTL

\* exchangeAuthorizationCode: whoever redeems and refreshes, every refresh token
\* of a sign-in belongs to the client, at the issuer, its code was issued to.
THEOREM BoundToCaller ==
    Spec => [](\A t \in held : refresh[t].caller = CodeCaller[origin[t].code])
<1>1. IInv => \A t \in held : refresh[t].caller = CodeCaller[origin[t].code]
  BY DEF IInv, Typed, TypeOK, RowsAreRooted, Entitled
<1> QED BY <1>1, Invariance, PTL

\* revokeToken: a revocation answered to the token's own client, at its issuer,
\* has left no active row behind.
THEOREM Revoked == Spec => []RevokedIsConsumed
<1>1. IInv => RevokedIsConsumed
  BY DEF IInv
<1> QED BY <1>1, Invariance, PTL

-----------------------------------------------------------------------------
(* The token endpoint implements OneTimeArtifact, for codes and refresh    *)
(* tokens alike: every step claims, voids, abandons or yields one of them, *)
(* or leaves all of them as they are.                                      *)

Both == Codes \cup Tokens
Claimed(a) == \E r \in Requests : ClaimedBy(r, a)
StatusOf(a) == IF ~Spent(a) THEN "open" ELSE IF Claimed(a) THEN "claimed" ELSE "settled"

\* The refinement needs one fact more: the tokens received are finitely many,
\* so that they can be counted.
RInv == IInv /\ IsFiniteSet(held)

\* Whoever claims a code or a token is alone, and it is spent.
LEMMA OneClaimer ==
    ASSUME IInv, NEW a \in Both, NEW r \in Requests, ClaimedBy(r, a)
    PROVE  /\ Spent(a)
           /\ \A q \in Requests \ {r} : ~ClaimedBy(q, a)
<1> USE DEF IInv
<1>1. ASSUME NEW q \in Requests, ClaimedBy(q, a)
      PROVE  \/ /\ a \in Codes /\ req[q].code = a /\ req[q].parent = NoToken
                /\ req[q].pc \in {"store", "respond"}
             \/ /\ a \in Tokens /\ a \notin Codes /\ req[q].parent = a /\ req[q].pc = "respond"
  BY <1>1, ExchangeAssumption
     DEF Both, ClaimedBy, Typed, TypeOK, RequestKnown, ForCode, ForToken
<1>2. ASSUME NEW q \in Requests, ClaimedBy(q, a), req[q].pc = "respond"
      PROVE  /\ req[q].token \in Tokens /\ Active(req[q].token) /\ InAnswer(req[q].token)
             /\ a \in Codes => origin[req[q].token].code = a
             /\ a \notin Codes => origin[req[q].token].parent = a
  <2>1. req[q].token \in Tokens /\ Active(req[q].token) /\ origin[req[q].token] = OriginOf(q)
    BY <1>2 DEF Typed, RequestKnown, Exchanging, SecretsAreFresh
  <2>2. InAnswer(req[q].token)
    BY <1>2 DEF InAnswer
  <2> QED BY <1>1, <1>2, <2>1, <2>2, ExchangeAssumption DEF OriginOf
<1>3. CASE a \in Codes
  <2>1. Spent(a)
    <3>1. CASE req[r].pc = "store"
      BY <1>1, <1>3, <3>1, ExchangeAssumption DEF CodeHasOneWinner, Spent
    <3>2. CASE req[r].pc = "respond"
      BY <1>2, <1>3, <3>2 DEF RowsAreRooted, Active, Spent
    <3> QED BY <3>1, <3>2 DEF ClaimedBy
  <2>2. ASSUME NEW q \in Requests \ {r}, ClaimedBy(q, a) PROVE FALSE
    <3>1. CASE req[r].pc = "store" \/ req[q].pc = "store"
      BY <1>1, <1>2, <1>3, <2>2, <3>1, ExchangeAssumption DEF CodeHasOneWinner
    <3>2. CASE req[r].pc = "respond" /\ req[q].pc = "respond"
      <4>1. req[r].token \in Live(a) /\ req[q].token \in Live(a)
        BY <1>2, <1>3, <2>2, <3>2 DEF Live
      <4>2. req[r].token = req[q].token /\ req[r].token # NoToken
        BY <1>2, <1>3, <3>2, <4>1, ExchangeAssumption DEF LineIsLinear
      <4> QED BY <2>2, <4>2 DEF SecretsAreFresh
    <3> QED BY <1>1, <2>2, <3>1, <3>2
  <2> QED BY <2>1, <2>2
<1>4. CASE a \notin Codes
  <2>1. /\ req[r].pc = "respond" /\ a \in Tokens /\ a # NoToken
        /\ req[r].token # NoToken
    BY <1>1, <1>2, <1>4, ExchangeAssumption
  <2>2. refresh[a].status = "consumed" /\ refresh[a].replacedBy = req[r].token
    BY <1>2, <1>4, <2>1 DEF RotationIsRecorded
  <2>3. ASSUME NEW q \in Requests \ {r}, ClaimedBy(q, a) PROVE FALSE
    <3>1. refresh[a].replacedBy = req[q].token
      BY <1>1, <1>2, <1>4, <2>1, <2>3 DEF RotationIsRecorded
    <3> QED BY <2>1, <2>2, <2>3, <3>1 DEF SecretsAreFresh
  <2> QED BY <1>4, <2>2, <2>3 DEF Spent
<1> QED BY <1>3, <1>4

-----------------------------------------------------------------------------
(* From what a step does to one artifact to what it does to the functions. *)

LEMMA Stays ==
    ASSUME \A a \in Both : StatusOf(a)' = StatusOf(a) /\ Yields(a)' = Yields(a)
    PROVE  UNCHANGED <<ArtifactStatus, ArtifactYields>>
BY DEF ArtifactStatus, ArtifactYields, Both, StatusOf, Claimed

LEMMA Moves ==
    ASSUME NEW a \in Both, NEW from, NEW to, StatusOf(a) = from, StatusOf(a)' = to,
           \A b \in Both \ {a} : StatusOf(b)' = StatusOf(b)
    PROVE  Artifact!Move(a, from, to)
<1>1. ArtifactStatus = [b \in Both |-> StatusOf(b)]
  BY DEF ArtifactStatus, Both, StatusOf, Claimed
<1>2. ArtifactStatus' = [b \in Both |-> StatusOf(b)']
  BY DEF ArtifactStatus, Both, StatusOf, Claimed
<1> QED BY <1>1, <1>2 DEF Artifact!Move

LEMMA SameYields ==
    ASSUME \A a \in Both : Yields(a)' = Yields(a)
    PROVE  ArtifactYields' = ArtifactYields
BY DEF ArtifactYields, Both

Implements == Artifact!Next \/ UNCHANGED <<ArtifactStatus, ArtifactYields>>

\* A step that spends nothing, changes no claim and delivers nothing.
LEMMA Stutters ==
    ASSUME UNCHANGED <<usedCodes, held>>,
           \A t \in Tokens : refresh'[t].status = "consumed" <=> refresh[t].status = "consumed",
           \A t \in held : origin'[t] = origin[t],
           \A r \in Requests, a \in Both : ClaimedBy(r, a)' <=> ClaimedBy(r, a)
    PROVE  Implements
<1>1. \A a \in Both : Yields(a)' = Yields(a)
  BY DEF Yields
<1>2. \A a \in Both : StatusOf(a)' = StatusOf(a)
  <2>1. \A a \in Both : Spent(a)' <=> Spent(a)
    BY DEF Spent, Both
  <2>2. \A a \in Both : Claimed(a)' <=> Claimed(a)
    BY DEF Claimed
  <2> QED BY <2>1, <2>2 DEF StatusOf
<1> QED BY <1>1, <1>2, Stays DEF Implements

\* A call that holds no claim goes on without one.
LEMMA NoClaim ==
    ASSUME NEW r \in Requests, UNCHANGED <<usedCodes, refresh, held, origin>>,
           \A q \in Requests \ {r} : req'[q] = req[q],
           \A a \in Both : ~ClaimedBy(r, a) /\ ~ClaimedBy(r, a)'
    PROVE  Implements
<1>1. \A q \in Requests, a \in Both : ClaimedBy(q, a)' <=> ClaimedBy(q, a)
  BY DEF ClaimedBy
<1> QED BY <1>1, Stutters

LEMMA NotAnArtifact == NoCode \notin Both /\ NoToken \notin Both
BY ExchangeAssumption DEF Both

LEMMA StartImplements ==
    ASSUME IInv, NEW r \in Requests, NEW call \in Request, call.pc \notin {"store", "respond"},
           Start(r, call)
    PROVE  Implements
<1>1. /\ req'[r] = call
      /\ \A q \in Requests \ {r} : req'[q] = req[q]
      /\ req[r] = Idle
      /\ UNCHANGED <<now, usedCodes, refresh, held, failures, history>>
  BY StartBegins DEF IInv
<1>2. req'[r].pc = call.pc /\ req[r].pc = "idle"
  BY <1>1, IdleKnown
<1> QED BY <1>1, <1>2, NoClaim DEF ClaimedBy, history

LEMMA ReadCodeImplements ==
    ASSUME IInv, NEW r \in Requests, ReadCode(r) PROVE Implements
<1>1. /\ req'[r].pc \in {"consumeCode", "idle"} /\ req[r].pc = "readCode"
      /\ \A q \in Requests \ {r} : req'[q] = req[q]
  BY GotoMoves, FinishEnds, IdleKnown DEF ReadCode, IInv
<1> QED BY <1>1, NoClaim DEF ReadCode, ClaimedBy, history

\* A refresh has no claim before it consumes its parent.
LEMMA ReadRefreshImplements ==
    ASSUME IInv, NEW r \in Requests, ReadRefresh(r) PROVE Implements
<1>1. /\ req'[r].pc = "idle" \/ (req'[r].pc = "store" /\ req'[r].code = NoCode)
      /\ req[r].pc = "readRefresh"
      /\ \A q \in Requests \ {r} : req'[q] = req[q]
  BY GotoMoves, FinishEnds, IdleKnown DEF ReadRefresh, IInv, Typed, RequestKnown, ForToken
<1> QED BY <1>1, NoClaim, NotAnArtifact DEF ReadRefresh, ClaimedBy, history

LEMMA ReadRevokedImplements ==
    ASSUME IInv, NEW r \in Requests, ReadRevoked(r) PROVE Implements
<1>1. /\ req'[r].pc \in {"consumeRevoked", "idle"} /\ req[r].pc = "readRevoked"
      /\ \A q \in Requests \ {r} : req'[q] = req[q]
  BY GotoMoves, FinishEnds, IdleKnown DEF ReadRevoked, IInv
<1> QED BY <1>1, NoClaim DEF ReadRevoked, ClaimedBy, history

\* consumeById claims the code.
LEMMA ConsumeCodeImplements ==
    ASSUME IInv, NEW r \in Requests, ConsumeCode(r) PROVE Implements
<1> USE DEF ConsumeCode, history
<1>1. CASE req[r].code \in usedCodes
  <2>1. /\ req'[r].pc = "idle" /\ \A q \in Requests \ {r} : req'[q] = req[q]
    BY <1>1, FinishEnds, IdleKnown DEF IInv
  <2> QED BY <1>1, <2>1, NoClaim DEF ClaimedBy
<1>2. CASE req[r].code \notin usedCodes
  <2> PICK c \in Codes : c = req[r].code
    BY DEF IInv, Typed, RequestKnown, ForCode
  <2>1. /\ req'[r].pc = "store" /\ req'[r].code = c /\ req[r].pc = "consumeCode"
        /\ req'[r].parent = NoToken
        /\ \A q \in Requests \ {r} : req'[q] = req[q]
    BY <1>2, GotoMoves DEF IInv, Typed, RequestKnown, ForCode
  <2>2. usedCodes' = usedCodes \cup {c} /\ UNCHANGED <<refresh, held, origin>>
    BY <1>2
  <2>3. \A q \in Requests, a \in Both : ClaimedBy(q, a)' <=> ClaimedBy(q, a) \/ (q = r /\ a = c)
    BY <2>1, NotAnArtifact DEF ClaimedBy
  <2>4. c \in Both /\ StatusOf(c) = "open" /\ StatusOf(c)' = "claimed"
    BY <1>2, <2>2, <2>3 DEF Both, StatusOf, Spent, Claimed
  <2>5. \A a \in Both \ {c} : StatusOf(a)' = StatusOf(a)
    BY <2>2, <2>3 DEF StatusOf, Spent, Claimed
  <2>6. ArtifactYields' = ArtifactYields
    BY <2>2, SameYields DEF Yields
  <2> QED BY <2>4, <2>5, <2>6, Moves DEF Implements, Artifact!Next, Artifact!Claim, Both
<1> QED BY <1>1, <1>2

\* The store happens between the claim and the answer, or before the claim.
LEMMA StoreImplements ==
    ASSUME IInv, NEW r \in Requests, Store(r) PROVE Implements
<1> PICK t0 \in Tokens : t0 = req[r].token
  BY DEF Store, IInv, Typed, RequestKnown, Exchanging
<1>1. t0 \notin held /\ refresh[t0].status = "none"
  BY ExchangeAssumption DEF Store, IInv, SecretsAreFresh
<1>2. /\ refresh'[t0].status = "active"
      /\ \A t \in Tokens \ {t0} : refresh'[t] = refresh[t] /\ origin'[t] = origin[t]
  BY <1>1 DEF Store, IInv, Typed, TypeOK
<1>3. /\ req'[r].code = req[r].code /\ req'[r].parent = req[r].parent /\ req[r].pc = "store"
      /\ req'[r].pc = IF req[r].parent = NoToken THEN "respond" ELSE "consumeParent"
      /\ \A q \in Requests \ {r} : req'[q] = req[q]
  BY GotoMoves DEF Store, IInv
<1>4. req[r].parent # NoToken => req[r].code = NoCode
  BY <1>3 DEF IInv, Typed, RequestKnown, ForCode, ForToken
<1>5. \A q \in Requests, a \in Both : ClaimedBy(q, a)' <=> ClaimedBy(q, a)
  BY <1>3, <1>4, NotAnArtifact DEF ClaimedBy
<1>6. \A t \in held : origin'[t] = origin[t]
  BY <1>1, <1>2 DEF IInv, Typed, TypeOK
<1> QED BY <1>1, <1>2, <1>5, <1>6, Stutters DEF Store

\* The consume of the parent claims it.
LEMMA ConsumeParentImplements ==
    ASSUME IInv, NEW r \in Requests, ConsumeParent(r) PROVE Implements
<1> USE DEF ConsumeParent, history
<1>1. CASE ~Active(req[r].parent)
  <2>1. /\ req'[r].pc = "idle" /\ \A q \in Requests \ {r} : req'[q] = req[q]
    BY <1>1, FinishEnds, IdleKnown DEF IInv
  <2> QED BY <1>1, <2>1, NoClaim DEF ClaimedBy
<1>2. CASE Active(req[r].parent)
  <2> PICK p \in Tokens : p = req[r].parent
    BY DEF IInv, Typed, TypeOK, RequestKnown, ForToken
  <2>1. /\ req'[r].pc = "respond" /\ req'[r].code = NoCode /\ req'[r].parent = p
        /\ req[r].pc = "consumeParent"
        /\ \A q \in Requests \ {r} : req'[q] = req[q]
    BY <1>2, GotoMoves DEF IInv, Typed, RequestKnown, ForToken
  <2>2. /\ refresh'[p].status = "consumed" /\ refresh[p].status = "active"
        /\ \A t \in Tokens \ {p} : refresh'[t] = refresh[t]
        /\ UNCHANGED <<usedCodes, held, origin>>
    BY <1>2 DEF Active, IInv, Typed, TypeOK, Row
  <2>3. \A q \in Requests, a \in Both : ClaimedBy(q, a)' <=> ClaimedBy(q, a) \/ (q = r /\ a = p)
    BY <2>1, NotAnArtifact DEF ClaimedBy
  <2>4. p \in Both /\ p \notin Codes /\ StatusOf(p) = "open" /\ StatusOf(p)' = "claimed"
    BY <2>2, <2>3, ExchangeAssumption DEF Both, StatusOf, Spent, Claimed
  <2>5. \A a \in Both \ {p} : StatusOf(a)' = StatusOf(a)
    BY <2>2, <2>3 DEF Both, StatusOf, Spent, Claimed
  <2>6. ArtifactYields' = ArtifactYields
    BY <2>2, SameYields DEF Yields
  <2> QED BY <2>4, <2>5, <2>6, Moves DEF Implements, Artifact!Next, Artifact!Claim, Both
<1> QED BY <1>1, <1>2

\* A call that ends with a claim settles what it claimed, and nothing else.
LEMMA EndSettles ==
    ASSUME IInv, NEW r \in Requests, Finish(r), UNCHANGED <<usedCodes, refresh>>,
           NEW a \in Both, ClaimedBy(r, a)
    PROVE  Artifact!Move(a, "claimed", "settled")
<1>1. req'[r].pc = "idle" /\ \A q \in Requests \ {r} : req'[q] = req[q]
  BY FinishEnds, IdleKnown DEF IInv
<1>2. Spent(a) /\ \A q \in Requests \ {r} : ~ClaimedBy(q, a)
  BY OneClaimer
<1>3. \A b \in Both \ {a} : ~ClaimedBy(r, b)
  BY NotAnArtifact, ExchangeAssumption
     DEF ClaimedBy, IInv, Typed, RequestKnown, ForCode, ForToken, Both
<1>4. \A q \in Requests, b \in Both : ClaimedBy(q, b)' <=> ClaimedBy(q, b) /\ q # r
  BY <1>1 DEF ClaimedBy
<1>5. \A b \in Both : Spent(b)' <=> Spent(b)
  BY DEF Spent
<1>6. StatusOf(a) = "claimed" /\ StatusOf(a)' = "settled"
  BY <1>2, <1>4, <1>5 DEF StatusOf, Claimed
<1>7. \A b \in Both \ {a} : StatusOf(b)' = StatusOf(b)
  BY <1>3, <1>4, <1>5 DEF StatusOf, Claimed
<1> QED BY <1>6, <1>7, Moves

\* The answer yields the claimed artifact's one more result.
LEMMA RespondImplements ==
    ASSUME RInv, NEW r \in Requests, Respond(r) PROVE Implements
<1> USE DEF RInv
<1> PICK t0 \in Tokens : t0 = req[r].token
  BY DEF Respond, IInv, Typed, RequestKnown, Exchanging
<1>1. t0 \notin held /\ origin[t0] = OriginOf(r)
  BY ExchangeAssumption DEF Respond, IInv, SecretsAreFresh
<1> PICK a \in Both : /\ ClaimedBy(r, a)
                      /\ IF a \in Codes THEN a = req[r].code /\ req[r].parent = NoToken
                         ELSE a = req[r].parent
  BY ExchangeAssumption
     DEF Respond, IInv, Typed, TypeOK, RequestKnown, ForCode, ForToken, Both, ClaimedBy
<1>2. held' = held \cup {t0} /\ UNCHANGED <<usedCodes, refresh, origin>>
  BY DEF Respond, history
<1>3. Artifact!Move(a, "claimed", "settled")
  BY <1>2, EndSettles DEF Respond
<1>4. Yields(a)' = Yields(a) \cup {t0}
  BY <1>1, <1>2, NotAnArtifact DEF Yields, OriginOf
<1>5. \A b \in Both \ {a} : Yields(b)' = Yields(b)
  BY <1>1, <1>2, NotAnArtifact DEF Yields, OriginOf, Both
<1>6. Cardinality(Yields(a)') = Cardinality(Yields(a)) + 1
  <2>1. IsFiniteSet(Yields(a)) /\ t0 \notin Yields(a)
    BY <1>1, FS_Subset DEF Yields
  <2> QED BY <1>4, <2>1, FS_AddElement
<1>7. ArtifactYields' = [ArtifactYields EXCEPT ![a] = @ + 1]
  BY <1>5, <1>6 DEF ArtifactYields, Both
<1> QED BY <1>3, <1>7 DEF Implements, Artifact!Next, Artifact!Yield, Both

\* A revocation voids the token, unless a rotation was faster.
LEMMA ConsumeRevokedImplements ==
    ASSUME IInv, NEW r \in Requests, ConsumeRevoked(r) PROVE Implements
<1> PICK p \in Tokens : p = req[r].parent /\ p \in held
  BY DEF ConsumeRevoked, IInv, Typed, TypeOK, RequestKnown, ForToken
<1>1. /\ req'[r].pc = "idle" /\ req[r].pc = "consumeRevoked"
      /\ \A q \in Requests \ {r} : req'[q] = req[q]
  BY FinishEnds, IdleKnown DEF ConsumeRevoked, IInv
<1>2. UNCHANGED <<usedCodes, held, origin>>
  BY DEF ConsumeRevoked
<1>3. CASE ~Active(p)
  BY <1>1, <1>2, <1>3, NoClaim DEF ConsumeRevoked, ClaimedBy
<1>4. CASE Active(p)
  <2>1. /\ refresh'[p].status = "consumed" /\ refresh[p].status = "active"
        /\ \A t \in Tokens \ {p} : refresh'[t] = refresh[t]
    BY <1>4 DEF ConsumeRevoked, Active, IInv, Typed, TypeOK, Row
  <2>2. \A q \in Requests, a \in Both : ClaimedBy(q, a)' <=> ClaimedBy(q, a)
    BY <1>1 DEF ClaimedBy
  <2>3. p \in Both /\ p \notin Codes /\ ~Spent(p)
    BY <2>1, ExchangeAssumption DEF Both, Spent
  <2>4. ~Claimed(p)
    BY <2>3, OneClaimer DEF Claimed
  <2>5. StatusOf(p) = "open" /\ StatusOf(p)' = "settled"
    BY <2>1, <2>2, <2>3, <2>4 DEF StatusOf, Spent, Claimed
  <2>6. \A a \in Both \ {p} : StatusOf(a)' = StatusOf(a)
    BY <1>2, <2>1, <2>2 DEF Both, StatusOf, Spent, Claimed
  <2>7. ArtifactYields' = ArtifactYields
    BY <1>2, SameYields DEF Yields
  <2> QED BY <2>3, <2>5, <2>6, <2>7, Moves DEF Implements, Artifact!Next, Artifact!Void, Both
<1> QED BY <1>3, <1>4

\* A call that fails abandons its claim.
LEMMA FailImplements ==
    ASSUME IInv, NEW r \in Requests, Fail(r) PROVE Implements
<1>1. /\ req'[r].pc = "idle" /\ \A q \in Requests \ {r} : req'[q] = req[q]
      /\ UNCHANGED <<usedCodes, refresh, held, origin>>
  BY FinishEnds, IdleKnown DEF Fail, IInv
<1>2. CASE \A a \in Both : ~ClaimedBy(r, a)
  BY <1>1, <1>2, NoClaim DEF ClaimedBy
<1>3. ASSUME NEW a \in Both, ClaimedBy(r, a) PROVE Implements
  <2>1. Artifact!Move(a, "claimed", "settled")
    BY <1>1, <1>3, EndSettles DEF Fail
  <2>2. ArtifactYields' = ArtifactYields
    BY <1>1, SameYields DEF Yields
  <2> QED BY <2>1, <2>2 DEF Implements, Artifact!Next, Artifact!Abandon, Both
<1> QED BY <1>2, <1>3

LEMMA QuietImplements ==
    ASSUME Tick \/ UNCHANGED vars PROVE Implements
<1>1. UNCHANGED <<usedCodes, refresh, held, req, origin>>
  BY DEF Tick, vars, history
<1> QED BY <1>1, Stutters DEF ClaimedBy

-----------------------------------------------------------------------------
LEMMA RInvInit == Init => RInv
BY IInvInit, FS_EmptySet DEF RInv, Init

LEMMA RInvNext == RInv /\ [Next]_vars => RInv'
<1> SUFFICES ASSUME RInv, [Next]_vars PROVE RInv'
  OBVIOUS
<1>1. held' = held \/ \E t \in Tokens : held' = held \cup {t}
  BY DEF Next, vars, history, Tick, Redeem, Refresh, Revoke, Start, ReadCode, ConsumeCode,
         ReadRefresh, Store, ConsumeParent, Respond, ReadRevoked, ConsumeRevoked, Fail,
         RInv, IInv, Typed, RequestKnown, Exchanging
<1>2. IsFiniteSet(held')
  BY <1>1, FS_AddElement DEF RInv
<1> QED BY <1>2, IInvNext DEF RInv

LEMMA InitImplements == Init => Artifact!Init
<1> SUFFICES ASSUME Init PROVE Artifact!Init
  OBVIOUS
<1>1. \A a \in Both : ~Spent(a) /\ Yields(a) = {}
  BY DEF Init, Spent, Yields, Both, NoRow
<1> QED BY <1>1, FS_EmptySet DEF Artifact!Init, ArtifactStatus, ArtifactYields, Both

LEMMA NextImplements == RInv /\ [Next]_vars => [Artifact!Next]_<<ArtifactStatus, ArtifactYields>>
<1> SUFFICES ASSUME RInv, [Next]_vars PROVE Implements
  BY DEF Implements
<1>1. IInv
  BY DEF RInv
<1>2. ASSUME NEW r \in Requests, NEW w \in Callers, NEW t \in Tokens,
             \/ \E c \in Codes : Redeem(r, w, c, t)
             \/ \E p \in Tokens : Refresh(r, w, p, t)
             \/ Revoke(r, w, t)
      PROVE  Implements
  <2>1. PICK call \in Request : call.pc \notin {"store", "respond"} /\ Start(r, call)
    BY <1>1, <1>2, CallBegins DEF IInv
  <2> QED BY <1>1, <2>1, StartImplements
<1> QED BY <1>1, <1>2, ReadCodeImplements, ConsumeCodeImplements, ReadRefreshImplements,
           StoreImplements, ConsumeParentImplements, RespondImplements,
           ReadRevokedImplements, ConsumeRevokedImplements, FailImplements, QuietImplements
        DEF Next

\* exchangeAuthorizationCode and revokeToken implement the one-time artifact: a
\* code and a refresh token each have at most one claimer, who yields once.
THEOREM Refinement == Spec => IsOneTimeArtifact
BY RInvInit, RInvNext, InitImplements, NextImplements, PTL
   DEF Spec, IsOneTimeArtifact, Artifact!Spec

\* A code and a refresh token each end in one token of a client at most, and
\* no call works on them any more once they have.
THEOREM YieldsOnce == Spec => []Artifact!YieldsOnce
BY Refinement, Artifact!AtMostOne, PTL DEF IsOneTimeArtifact
===============================================================================
