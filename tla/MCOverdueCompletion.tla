------------------------ MODULE MCOverdueCompletion ------------------------
(***************************************************************************)
(* An instance of OverdueCompletion for TLC: two credentials with          *)
(* different authorizations for the same amount.                           *)
(***************************************************************************)
EXTENDS OverdueCompletion, TLC

CONSTANTS k1, k2, a1, a2

AuthOfTwo == k1 :> a1 @@ k2 :> a2
AmountOfTwo == k1 :> 1 @@ k2 :> 1

\* Exchanging the two credentials along with what they carry changes nothing.
CredentialsExchanged == k1 :> k2 @@ k2 :> k1 @@ a1 :> a2 @@ a2 :> a1
WorkerAndCredentialSymmetry == Permutations(Workers) \cup {CredentialsExchanged}
=============================================================================
