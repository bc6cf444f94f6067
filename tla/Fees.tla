-------------------------------- MODULE Fees --------------------------------
(***************************************************************************)
(* The fee split of one charge.  Every amount is an integer of kopecks.    *)
(* handlePaymentSuccess takes the platform fee and the processor fee off   *)
(* the gross amount, each rounded with Math.round, and owes the rest to    *)
(* the author.  Rates are in thousandths, so that the arithmetic stays in  *)
(* the integers: for every amount a charge can have, the double arithmetic *)
(* of the code and this rational one round to the same kopeck.             *)
(***************************************************************************)
EXTENDS Integers

Processors == {"cloudpayments", "sbp", "yookassa"}

PLATFORM_FEE_RATE == 100

PROCESSOR_FEE_RATES == [cloudpayments |-> 25, sbp |-> 5, yookassa |-> 30]

-----------------------------------------------------------------------------
(* Slips of the arithmetic, used only to see that the runs notice them. *)

MutPlatformFeeInRubles(amount) ==
    100 * ((2 * amount * PLATFORM_FEE_RATE + 100000) \div 200000)
MutPlatformFeeUp(amount) == (amount * PLATFORM_FEE_RATE + 999) \div 1000

-----------------------------------------------------------------------------
\* Math.round(n / d) for natural n: halves go up.
Round(n, d) == (2 * n + d) \div (2 * d)

PlatformFee(amount) == Round(amount * PLATFORM_FEE_RATE, 1000)

calculateProcessorFee(processor, amount) ==
    Round(amount * PROCESSOR_FEE_RATES[processor], 1000)

AuthorPayout(processor, amount) ==
    amount - PlatformFee(amount) - calculateProcessorFee(processor, amount)
=============================================================================
