------------------------------- MODULE MCFees -------------------------------
(* Walks through the prices 0 .. MaxAmount, with each processor. *)
EXTENDS Fees

CONSTANT MaxAmount

VARIABLES processor, amount

vars == <<processor, amount>>

Init == processor \in Processors /\ amount = 0

\* The same checkout, one kopeck dearer.
Dearer == amount < MaxAmount /\ amount' = amount + 1 /\ UNCHANGED processor

Spec == Init /\ [][Dearer]_vars

(* The author is owed what the exact rates leave, to within one kopeck:    *)
(* two roundings, of at most half a kopeck each, that never add up to more.*)
PayoutWithinOneKopeck ==
    LET exact == amount * (1000 - PLATFORM_FEE_RATE - PROCESSOR_FEE_RATES[processor])
        error == 1000 * AuthorPayout(processor, amount) - exact
    IN  -1000 <= error /\ error <= 1000

(* The two fees never eat the whole of a charge of a positive amount, so   *)
(* no payment row owes the author a negative or zero sum.                  *)
PayoutPositive == amount > 0 => AuthorPayout(processor, amount) > 0

(* A dearer subscription never pays the author less: the platform fee and  *)
(* the processor fee never round up at the same kopeck.                    *)
DearerPaysNoLess ==
    [][AuthorPayout(processor', amount') >= AuthorPayout(processor, amount)]_vars
=============================================================================
