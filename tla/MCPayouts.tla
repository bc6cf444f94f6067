------------------------------ MODULE MCPayouts ------------------------------
(* Two authors with one subscription each, and charges of which any two     *)
(* just reach the minimum; or, for one author, charges of which one does.   *)
EXTENDS Payouts, TLC

CONSTANTS a1, a2, s1, s2, t1, t2

MCAuthorOf == s1 :> a1 @@ s2 :> a2

MCAuthorOf1 == s1 :> a1

MCNet == t1 :> 2

MCNet2 == t1 :> 2 @@ t2 :> 3
=============================================================================
