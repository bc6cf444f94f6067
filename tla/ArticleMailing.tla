---------------------------- MODULE ArticleMailing ----------------------------
(***************************************************************************)
(* What mailing an article promises to a subscriber it was announced to:   *)
(* the e-mail leaves, or the platform gives it up, and the mailing of an   *)
(* article comes to an end.  An e-mail that left is never taken back; one  *)
(* that was given up may be announced again.  EmailDelivery implements     *)
(* this.                                                                   *)
(***************************************************************************)
CONSTANTS Articles, Users

VARIABLE mail   \* how far the e-mail of an article to a subscriber is

Mails == Articles \X Users

Init == \A m \in Mails : mail[m] = "none"

Announced(m) == mail[m] \in {"none", "given_up"} /\ mail'[m] = "due"

Left(m) == mail[m] = "due" /\ mail'[m] = "sent"

GivenUp(m) == mail[m] = "due" /\ mail'[m] = "given_up"

\* An article is announced to many at once.
Next ==
    \A m \in Mails : \/ mail'[m] = mail[m]
                     \/ Announced(m) \/ Left(m) \/ GivenUp(m)

Due(a) == {u \in Users : mail[<<a, u>>] = "due"}

Spec ==
    /\ Init /\ [][Next]_mail
    /\ \A a \in Articles : Due(a) # {} ~> Due(a) = {}
=============================================================================
