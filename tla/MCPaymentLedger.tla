--------------------------- MODULE MCPaymentLedger ---------------------------
(***************************************************************************)
(* An instance of PaymentLedger for TLC.                                   *)
(***************************************************************************)
EXTENDS PaymentLedger, TLC

CONSTANTS s1, s2, s3

\* The first two spell the same authorization.
LowercaseOfThree == s1 :> s2 @@ s2 :> s2 @@ s3 :> s3

CallerAndCartSymmetry == Permutations(Callers) \cup Permutations(Carts)
=============================================================================
