----------------------------- MODULE MCSessions -----------------------------
(* Two users of one browser that has two calls under way; one of them       *)
(* registered before the server was last started.                           *)
EXTENDS Sessions

CONSTANT u1

MCInit == Init /\ accounts = {u1} /\ verified = {u1}

MCSpec == MCInit /\ [][Next]_vars /\ Fairness
=============================================================================
