------------------------------ MODULE MCSkillHub ------------------------------
(* SkillHub on two skills, for TLC. *)
EXTENDS SkillHub

\* Bound: a second install is asked for once the hub has started, and only where
\* nothing happens from outside.
SecondInstall == Len(item) < 2 \/ (events = 0 /\ boot = "started")

===============================================================================
