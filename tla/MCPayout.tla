------------------------------ MODULE MCPayout ------------------------------
(* Instances of Payout for TLC.  p2 repeats the Idempotency-Key of p1.     *)
EXTENDS Payout, TLC

CONSTANTS p1, p2, i1, i2, m1, k1, k2, k3

Kinds == p1 :> "PAYMOB" @@ p2 :> "PAYMOB" @@ i1 :> "IBAN" @@ i2 :> "IBAN"
         @@ m1 :> "MANUAL"
Keys == p1 :> k1 @@ p2 :> k1 @@ i1 :> k2 @@ i2 :> k3 @@ m1 :> k2
OwnKeys == p1 :> k1 @@ p2 :> k2
Amounts == p1 :> 1 @@ p2 :> 1 @@ i1 :> 1 @@ i2 :> 1 @@ m1 :> 1

KindOfW == [w \in Withdrawal |-> Kinds[w]]
KeyOfW == [w \in Withdrawal |-> Keys[w]]
OwnKeyOfW == [w \in Withdrawal |-> OwnKeys[w]]
AmountOfW == [w \in Withdrawal |-> Amounts[w]]
=============================================================================
