------------------------------- MODULE MCUpdater -------------------------------
(* Instances of Updater for TLC. *)
EXTENDS Updater

CONSTANTS f1, f2

\* What each of the conditional properties may meet.  Two requests that are accepted
\* together are left out: no property is about them.
MCEnvs == {{"older", "env_fails", "start_fails"},
           {"older", "dump_fails", "start_fails", "compose_up"},
           {"older", "timeout", "api_strands", "dump_fails", "env_fails"},
           {"older", "timeout", "api_strands", "crash", "compose_up"}}

================================================================================
