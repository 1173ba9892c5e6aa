----------------------------- MODULE MCChangeGuard -----------------------------
(* Instances of ChangeGuard for TLC.                                       *)
EXTENDS ChangeGuard

CONSTANTS g1, g2, o1, o2, w1, w2

\* A ruleset admits NetFleet unless it holds g1's first command without the
\* second (a delete that cuts the path and the insert that reopens it), or
\* g2's first command (a change that locks NetFleet out for good).
MCAdmitting ==
    {r \in SUBSET Edits :
        /\ <<g1, 1>> \in r => <<g1, 2>> \in r
        /\ <<g2, 1>> \notin r}

\* A guard and an operator in each worker.
MCWorkerOf == [x \in {g1, g2, o1, o2} |-> IF x \in {g1, o1} THEN w1 ELSE w2]

\* What a sheltered guard may meet: all but crashes; crashes and half-applied batches of
\* stacked guards; for guards that are not stacked, all but half-applied batches and all
\* but unreliable cancels; and half-applied batches alone.
MCSheltered == {"stacked", "rivals", "partial", "cancel_fails", "arm_reply", "restore_reply",
                "crash"}
MCEnvs == {MCSheltered \ {"crash"}, {"stacked", "partial", "crash"},
           MCSheltered \ {"partial", "stacked"}, MCSheltered \ {"cancel_fails", "stacked"},
           {"partial"}}

================================================================================
