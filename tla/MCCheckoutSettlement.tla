------------------------ MODULE MCCheckoutSettlement ------------------------
(***************************************************************************)
(* Instances of CheckoutSettlement for TLC.                                *)
(***************************************************************************)
EXTENDS SettlementInvariant, TLC

CONSTANTS k1, k2, k3, k4, a1, a2

\* Two credentials that carry different authorizations for the same amount.
AuthOfTwo == k1 :> a1 @@ k2 :> a2
AmountOfTwo == k1 :> 1 @@ k2 :> 1

\* One of them only.
AuthOfOne == k1 :> a1
AmountOfOne == k1 :> 1

\* Two encodings of one authorization, and two credentials with another one, of
\* which the last signs the other total.
AuthOfFour == k1 :> a1 @@ k2 :> a1 @@ k3 :> a2 @@ k4 :> a2
AmountOfFour == k1 :> 1 @@ k2 :> 1 @@ k3 :> 1 @@ k4 :> 2

WorkerSymmetry == Permutations(Workers)

\* The two encodings of AuthOfFour are the same to every definition.
WorkerAndEncodingSymmetry == Permutations(Workers) \cup Permutations({k1, k2})
CartAndWorkerSymmetry == Permutations(Workers) \cup Permutations(Carts)
=============================================================================
