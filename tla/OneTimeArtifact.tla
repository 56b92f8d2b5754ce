--------------------------- MODULE OneTimeArtifact ---------------------------
(***************************************************************************)
(* What every one-time row of the provider promises (login challenges,     *)
(* authorization codes, consent challenges, ...): it is open until one     *)
(* conditional UPDATE claims it or voids it, and the claim yields at most  *)
(* one result.  A claim whose owner dies yields nothing and is not retried.*)
(***************************************************************************)
EXTENDS Naturals, TLAPS

CONSTANT Artifacts

VARIABLES
    status,   \* "open", "claimed" by a request that still works on it, "settled"
    yielded   \* how many results the artifact has produced

TypeOK ==
    /\ status \in [Artifacts -> {"open", "claimed", "settled"}]
    /\ yielded \in [Artifacts -> Nat]

Init ==
    /\ status = [a \in Artifacts |-> "open"]
    /\ yielded = [a \in Artifacts |-> 0]

Move(a, from, to) ==
    /\ status[a] = from
    /\ status' = [status EXCEPT ![a] = to]

Claim(a) == Move(a, "open", "claimed") /\ UNCHANGED yielded
Void(a) == Move(a, "open", "settled") /\ UNCHANGED yielded
Abandon(a) == Move(a, "claimed", "settled") /\ UNCHANGED yielded
Yield(a) ==
    /\ Move(a, "claimed", "settled")
    /\ yielded' = [yielded EXCEPT ![a] = @ + 1]

Next == \E a \in Artifacts : Claim(a) \/ Void(a) \/ Abandon(a) \/ Yield(a)

Spec == Init /\ [][Next]_<<status, yielded>>

\* One result at most, and none before a claim.
YieldsOnce ==
    \A a \in Artifacts :
        /\ yielded[a] <= 1
        /\ yielded[a] = 1 => status[a] = "settled"

-----------------------------------------------------------------------------
(* What follows for every component that implements this specification.    *)

Settled ==
    \A a \in Artifacts : /\ yielded[a] \in {0, 1}
                         /\ yielded[a] = 1 => status[a] = "settled"

\* A consume with "consumed_at IS NULL" is all it takes: whoever implements
\* these four steps gives one result at most, and none before its claim is over.
THEOREM AtMostOne == Spec => []YieldsOnce
<1> DEFINE Inv == TypeOK /\ Settled
<1>1. Init => Inv
  BY DEF Init, TypeOK, Settled
<1>2. Inv /\ [Next]_<<status, yielded>> => Inv'
  <2> SUFFICES ASSUME TypeOK, Settled, [Next]_<<status, yielded>>
               PROVE  TypeOK' /\ Settled'
    OBVIOUS
  <2>1. ASSUME NEW a \in Artifacts, Claim(a) \/ Void(a) \/ Abandon(a)
        PROVE  TypeOK' /\ Settled'
    BY <2>1 DEF Claim, Void, Abandon, Move, TypeOK, Settled
  <2>2. ASSUME NEW a \in Artifacts, Yield(a) PROVE TypeOK' /\ Settled'
    BY <2>2 DEF Yield, Move, TypeOK, Settled
  <2>3. CASE UNCHANGED <<status, yielded>>
    BY <2>3 DEF TypeOK, Settled
  <2> QED BY <2>1, <2>2, <2>3 DEF Next
<1>3. Inv => YieldsOnce
  BY DEF Settled, YieldsOnce
<1> QED BY <1>1, <1>2, <1>3, PTL DEF Spec
==============================================================================
