----------------------------- MODULE MCTestEnv -----------------------------
(***************************************************************************)
(* Small worlds for TestEnv.  The state world has two accounts with two    *)
(* namespaces each and one grant that depends on the hook's hash; the emit *)
(* world has one entry with a callback and one without; every world is     *)
(* chosen so that each limit is reached within two or three invocations.   *)
(***************************************************************************)
EXTENDS TestEnv

CONSTANTS hook, other, ns1, ns2, k1, k2, v1, big, h1, e1, e2, t1, t2,
          n1, n2, p1, p2, g1, g2, seedTxn

Empty == [a \in Address |-> Missing]
Seeded(A) == [a \in Address |-> IF a \in A THEN v1 ELSE Missing]

(* The other account is already past its namespace limit.                  *)
MCCrowdedSeed == {Seeded({<<other, ns1, k1>>, <<other, ns2, k1>>})}
MCEmptySeed == {Empty}

MCGrants ==
  [an \in Account \X Namespace |->
     CASE an = <<other, ns1>> -> {[hash |-> h1, account |-> Wildcard]}
       [] an = <<other, ns2>> -> {[hash |-> h1, account |-> other],
                                  [hash |-> Wildcard, account |-> other]}
       [] OTHER -> {}]
MCNoGrants == [an \in Account \X Namespace |-> {}]

MCHasCbak == [e \in Entry |-> e = e1]
MCCanEmit == [e \in Entry |-> IF e = e1 THEN TxType ELSE {}]
MCSeedOtxn == [id |-> seedTxn, burden |-> 1, generation |-> 0]
MCHeavyOtxn == [id |-> seedTxn, burden |-> 4, generation |-> 0]
MCMaxIter == [g \in GuardId |-> IF g = g1 THEN 1 ELSE 2]

StateCalls == {"state_set", "state_foreign_set", "_g"}
EmissionCalls == {"etxn_reserve", "etxn_details", "emit"}
ControlCalls == {"hook_again", "hook_skip", "hook_param_set", "trace", "_g",
                 "etxn_nonce", "ledger_nonce"}
MCEmissions == [e \in Entry |-> EmissionCalls]
MCStateAndEmissions == [e \in Entry |-> EmissionCalls \cup {"state_set"}]
(* One entry writes state, the other steers the chain.                     *)
MCStateOrControl == [e \in Entry |-> IF e = e1 THEN StateCalls ELSE ControlCalls]

=============================================================================
