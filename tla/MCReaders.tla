------------------------------ MODULE MCReaders ------------------------------
(* Two readers while two articles are mailed: fan-outs fail or crash, a     *)
(* subscription starts, lapses or ends in between, and Resend reports       *)
(* bounces and complaints about either reader.                              *)
EXTENDS EmailDelivery, TLC

CONSTANTS u1, u2, r1, r2

MCOwner == r1 :> u1 @@ r2 :> u2

Interchangeable == Permutations(Articles) \cup Permutations(Callers)
=============================================================================
