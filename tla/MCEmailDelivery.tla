--------------------------- MODULE MCEmailDelivery ---------------------------
(* Two readers, of whom one is active at first: one article goes out to     *)
(* both, or two articles to the first.  On its own, a save of the settings  *)
(* while pages load and e-mails leave, over the environment or over what    *)
(* was saved before.                                                        *)
EXTENDS EmailDelivery, Settings, TLC

CONSTANTS u1, u2, r1, r2, k1, k2, f1, f2

MCOwner == r1 :> u1 @@ r2 :> u2

MCInit ==
    /\ Init /\ status[r1] = "active" /\ status[r2] \in Live
    /\ SettingsInit /\ stored \in {[key |-> Unset, from |-> Unset], [key |-> k1, from |-> f2]}

Deliver ==
    /\ asks = [p \in Pages |-> [c \in Calls |-> Resting]] /\ mail = [m \in Senders |-> Resting]
    /\ stored.key = Unset
    /\ Next /\ UNCHANGED settings

Configure ==
    /\ Init /\ status = [r \in Rows |-> "active"]
    /\ SettingsNext /\ UNCHANGED vars

MCSpec ==
    MCInit /\ [][Deliver \/ Configure]_<<vars, settings>>
           /\ WF_<<vars, settings>>(handleSendEmail /\ UNCHANGED settings)
=============================================================================
