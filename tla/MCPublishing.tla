---------------------------- MODULE MCPublishing ----------------------------
(* Instances of Publishing for TLC. *)
EXTENDS Publishing, TLC

\* What editors send, and other clients, which may leave fields out.
CONSTANTS x, y
MCPayloads ==
    {[text |-> t, visibility |-> v, status |-> s] :
        <<t, v, s>> \in {<<x, "free", "draft">>, <<x, "free", "published">>,
                         <<y, "paid", "draft">>, <<y, "paid", "published">>,
                         <<y, "free", "scheduled">>}}

MCPatches ==
    {[text |-> t, visibility |-> v, status |-> s] :
        <<t, v, s>> \in {<<x, "free", "published">>, <<y, "paid", "draft">>,
                         <<y, None, None>>, <<None, "paid", None>>,
                         <<None, None, "scheduled">>}}

Symmetry ==
    Permutations(Publications) \cup Permutations(Articles) \cup Permutations(Requests)
=============================================================================
