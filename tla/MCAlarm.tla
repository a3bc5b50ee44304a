------------------------------ MODULE MCAlarm ------------------------------
(* An instance of Alarm for TLC: for each kind of job of each alarm an id that is held and *)
(* one that is new, and for dates one more, for a job that was left behind.                *)
EXTENDS Alarm

CONSTANTS a1, a2

Pool(p) == LET base == IF p[1] = a1 THEN 0 ELSE 7
               ids == IF p[2] = "fire" THEN 1..3 ELSE IF p[2] = "timeout" THEN 4..5 ELSE 6..7
           IN  {base + i : i \in ids}
MCJobIds == [p \in Alarms \X Kinds |-> Pool(p)]
=============================================================================
