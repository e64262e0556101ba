---------------------------- MODULE LeavingRules ----------------------------
(***************************************************************************)
(* What a tenant pays for the last month: the rules of AgreementsService,  *)
(* once in the preview (calculateTerminationCost) and once in terminate.   *)
(* Money is counted in cents.  Days are those of the current month, from   *)
(* 1; an agreement that started earlier has a start below 1.               *)
(***************************************************************************)
EXTENDS Integers

LeavingOptions == {"PAY_STAY_DATES", "PAY_FULL_MONTH", "DECIDE_IN_AGREEMENT"}
NoRule         == "none"

\* create's two checks: a rule where it is left to the agreement, and a rule
\* that decides.
RuleDecides(option, rule) ==
  /\ option = "DECIDE_IN_AGREEMENT" => rule # NoRule
  /\ rule # "DECIDE_IN_AGREEMENT"

ActiveRule(option, rule) ==
  IF option = "DECIDE_IN_AGREEMENT" THEN rule ELSE option

\* toFixed(2) of n / d: the nearest cent.
Rounded(n, d) == (2 * n + d) \div (2 * d)

\* Any rule but the full month is read as the days stayed.
RentFor(days, rent, month, rule) ==
  IF rule = "PAY_FULL_MONTH" THEN rent ELSE Rounded(rent * days, month)

\* terminate counts from the first of the month, whenever the tenant came.
DaysCharged(exitDay) == exitDay

\* The preview knows the day the agreement starts.
DaysToPayFor(today, start) ==
  IF start > today THEN 0
  ELSE IF start >= 1 THEN today - start + 1
  ELSE today
=============================================================================
