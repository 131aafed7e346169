---------------------------- MODULE MCSafeguards ----------------------------
(***************************************************************************)
(* Amounts of which one alone exceeds the per-transaction limit and two    *)
(* together the daily limit, over a day and the next.                      *)
(***************************************************************************)
EXTENDS Safeguards, TLC

\* As `solobank init` leaves it, scaled down: 2 per transaction, 3 a day.
MCInitialConfig ==
    [DEFAULT_SAFEGUARD_CONFIG EXCEPT !.maxPerTx = 2, !.maxDailySend = 3]

\* The same, already dated today: no command has a day to reset.
MCDatedConfig == [MCInitialConfig EXCEPT !.dailyResetDate = 1]

\* Calls differ in nothing but their names.
CallsAlike == Permutations(Calls)

=============================================================================
