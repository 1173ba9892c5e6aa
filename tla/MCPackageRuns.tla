----------------------------- MODULE MCPackageRuns -----------------------------
(* Instances of PackageRuns for TLC. *)
EXTENDS PackageRuns

CONSTANTS r1, r2, r3, w1, w2

MCEnvs == {{"timeout", "crash"}, {"overlap", "timeout", "crash"}}

================================================================================
