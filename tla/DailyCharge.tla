---------------------------- MODULE DailyCharge -----------------------------
(***************************************************************************)
(* The amounts of the daily billing, in kopecks: billing/service.py and    *)
(* billing/calculations.py.  The code divides decimals of 28 digits twice  *)
(* and rounds once; a quotient that is a half kopeck exactly is computed   *)
(* exactly, so rounding the exact quotient gives the same result.          *)
(***************************************************************************)
EXTENDS Integers

\* n / m rounded to a whole number, ROUND_HALF_UP, for n >= 0 and m > 0.
RoundHalfUp(n, m) == (2 * n + m) \div (2 * m)

\* The share of every active user in one day of a month of `days' days.
DailyShare(monthly, days, users) == RoundHalfUp(monthly, days * users)

\* The profiles after the first, each at half the daily share.
AdditionalProfiles(count) == IF count > 1 THEN count - 1 ELSE 0
AdditionalProfilesCharge(daily, count) ==
  RoundHalfUp(daily, 2) * AdditionalProfiles(count)
=============================================================================
