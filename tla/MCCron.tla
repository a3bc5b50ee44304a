------------------------------- MODULE MCCron -------------------------------
(* Instances of Cron for TLC. *)
EXTENDS Cron, TLC

\* The id of an alarm, apart from the numbers of the generated ids
OneName == {101}

\* A date that never comes, and two periods of which one is above the range of the delay
Rare == {0, 2, 3}

CallerSymmetry == Permutations(Callers)
=============================================================================
