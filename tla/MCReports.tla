------------------------------ MODULE MCReports ------------------------------
(* Every price as in MCFees; at some prices charges are recorded, and the   *)
(* money tables and the hours go on from there.  Every small audience.  The *)
(* texts of MCConversions and a list of Listings, each on its own.          *)
EXTENDS MCFees, MCConversions, Reports, Listings

CONSTANT Prices     \* the prices at which charges are recorded

MCTips == {[amount |-> 50, platform_fee |-> 5, created_at |-> 4]}

MCPrice == <<100, 250>>

MCMaxText == [title |-> 4, page |-> 7, field |-> 4]

Counts == [{"sent", "opened", "clicked"} -> 0 .. 2]

Rows == [publication: DOMAIN Price, type: {"free", "paid"}, status: {"active", "grace_period", "cancelled"},
         started: 0 .. now]

NoArticles == rows = [a \in Articles |-> Absent]

MCInit ==
    /\ Init /\ TablesInit /\ ListsInit /\ text = <<>>
    /\ NoArticles \/ processor = "sbp"

Unlisted == NoArticles /\ clock = 0 /\ walk.at = "idle"

Quiet == payments = <<>> /\ subs = {} /\ sent = <<NothingSent, NothingSent>>

Start == Quiet /\ now = 0 /\ text = <<>> /\ Unlisted

Walk == Start /\ Dearer /\ UNCHANGED <<tables, text, lists>>

Alone == amount = 0 /\ processor = "sbp"

Write ==
    /\ Alone /\ Quiet /\ now = 0 /\ Unlisted
    /\ TypeCharacter
    /\ UNCHANGED <<vars, tables, lists>>

Browse ==
    /\ Alone /\ Quiet /\ now = 0 /\ text = <<>>
    /\ ListsNext
    /\ UNCHANGED <<vars, tables, text>>

Record ==
    /\ amount \in Prices
    /\ Charge(processor, amount)
    /\ UNCHANGED <<vars, text, lists>>

Audience ==
    /\ Alone /\ Quiet /\ text = <<>> /\ Unlisted
    /\ \/ now = 0 /\ \E a, b \in Counts : AudienceChanges(<<a, b>>, {})
       \/ \E s, t \in Rows : AudienceChanges(<<NothingSent, NothingSent>>, {s, t})
    /\ UNCHANGED <<vars, text, lists>>

Go ==
    /\ amount \in Prices \/ (Alone /\ text = <<>> /\ Unlisted)
    /\ TablesNext
    /\ UNCHANGED <<vars, text, lists>>

MCNext == Walk \/ Write \/ Browse \/ Record \/ Audience \/ Go

MCSpec == MCInit /\ [][MCNext]_<<vars, tables, text, lists>>

(* The author's price comes back from the processor to the kopeck, though  *)
(* it travels in rubles and a double does not hold most of them exactly.   *)
AmountSurvives ==
    \A error \in IF amount = 0 THEN {0} ELSE Errors :
        /\ amountKopecks(processor, Reported(processor, amount), error) = amount
        /\ processor = "cloudpayments" =>
              amountKopecks(processor, Session(processor, amount, "u", "r").amount, error) = amount
=============================================================================
