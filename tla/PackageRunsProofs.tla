--------------------------- MODULE PackageRunsProofs ---------------------------
(***************************************************************************)
(* Theorems about PackageRuns, for any number of runs and worker processes,*)
(* and about SshExec, the command over SSH by which a run reaches the host,*)
(* for every limit, window, timeout and amount of output.                  *)
(***************************************************************************)
EXTENDS PackageRuns, SshExec, TLAPS

\* A task whose row is in the table.
Recorded == {"queued", "watching", "failing"}

\* A run has no row before it is committed; then its row is running until its task
\* reports, or a worker that starts closes it.
RowsFollowTasks ==
    /\ \A r \in Runs : task[r] \in {"new", "checked"} => row[r] = "none"
    /\ \A r \in Runs : task[r] \in Recorded => row[r] \in {"running", "interrupted"}

\* No row calls a run a success while its apt-get runs, and none is missing.
AptHasRow == \A r \in Runs : apt[r] = "running" => row[r] = "running" \/ GivenUp(r)

\* One request is between its check and its commit, and it has seen no running row; so
\* one row is running.
OneRow ==
    /\ \A r, s \in Runs : task[r] = "checked" /\ task[s] = "checked" => r = s
    /\ \A r, s \in Runs : task[r] = "checked" => row[s] # "running"
    /\ \A r, s \in Runs : row[r] = "running" /\ row[s] = "running" => r = s

\* The inductive invariant; its last part where requests do not overlap.
RunsInv ==
    /\ TypeOK
    /\ RowsFollowTasks
    /\ AptHasRow
    /\ Without({"overlap"}) => OneRow

--------------------------------------------------------------------------------

LEMMA RunsInit == Init => RunsInv
<1>1. (CHOOSE w \in Workers : TRUE) \in Workers
  BY WorkersAssumption
<1> QED
  BY <1>1 DEF Init, RunsInv, TypeOK, RowStates, Alive, RowsFollowTasks, Recorded, AptHasRow, OneRow

\* The parts that hold in every environment.
LEMMA RowsStep ==
  ASSUME TypeOK, RowsFollowTasks, AptHasRow, Step
  PROVE  (TypeOK /\ RowsFollowTasks /\ AptHasRow)'
<1> USE DEF TypeOK, RowsFollowTasks, AptHasRow, GivenUp, Recorded, Alive, RowStates, Go
<1>1. ASSUME NEW r \in Runs, Run(r) PROVE (TypeOK /\ RowsFollowTasks /\ AptHasRow)'
  <2>1. CASE Check(r)
    BY <2>1 DEF Check
  <2>2. CASE Refuse(r)
    BY <2>2 DEF Refuse
  <2>3. CASE Commit(r)
    BY <2>3 DEF Commit
  <2>4. CASE Execute(r)
    BY <2>4 DEF Execute
  <2>5. CASE Timeout(r)
    BY <2>5 DEF Timeout
  <2>6. CASE Finish(r)
    BY <2>6 DEF Finish
  <2> QED
    BY <1>1, <2>1, <2>2, <2>3, <2>4, <2>5, <2>6 DEF Run
<1>2. ASSUME NEW r \in Runs, AptEnds(r) PROVE (TypeOK /\ RowsFollowTasks /\ AptHasRow)'
  BY <1>2 DEF AptEnds
<1>3. ASSUME NEW w \in Workers, Crash(w) PROVE (TypeOK /\ RowsFollowTasks /\ AptHasRow)'
  BY <1>3 DEF Crash
<1>4. ASSUME NEW w \in Workers, StartWorker(w) PROVE (TypeOK /\ RowsFollowTasks /\ AptHasRow)'
  BY <1>4 DEF StartWorker, MarkOrphanedRuns
<1> QED
  BY <1>1, <1>2, <1>3, <1>4 DEF Step

\* Where requests do not overlap, a run is committed when no other row is running.
LEMMA OneRowStep ==
  ASSUME TypeOK, RowsFollowTasks, OneRow, Without({"overlap"}), Step
  PROVE  OneRow'
<1> USE DEF TypeOK, RowsFollowTasks, OneRow, Without, Recorded, Alive, RowStates, Go
<1>1. ASSUME NEW r \in Runs, Run(r) PROVE OneRow'
  <2>1. CASE Check(r)
    BY <2>1 DEF Check, ActiveRun
  <2>2. CASE Refuse(r)
    BY <2>2 DEF Refuse
  <2>3. CASE Commit(r)
    BY <2>3 DEF Commit
  <2>4. CASE Execute(r)
    BY <2>4 DEF Execute
  <2>5. CASE Timeout(r)
    BY <2>5 DEF Timeout
  <2>6. CASE Finish(r)
    BY <2>6 DEF Finish
  <2> QED
    BY <1>1, <2>1, <2>2, <2>3, <2>4, <2>5, <2>6 DEF Run
<1>2. ASSUME NEW r \in Runs, AptEnds(r) PROVE OneRow'
  BY <1>2 DEF AptEnds
<1>3. ASSUME NEW w \in Workers, Crash(w) PROVE OneRow'
  BY <1>3 DEF Crash
<1>4. ASSUME NEW w \in Workers, StartWorker(w) PROVE OneRow'
  BY <1>4 DEF StartWorker, MarkOrphanedRuns
<1> QED
  BY <1>1, <1>2, <1>3, <1>4 DEF Step

\* The environment does not change, so each part is kept where it is claimed.
LEMMA RunsStep == RunsInv /\ [Next]_allVars => RunsInv'
<1> SUFFICES ASSUME RunsInv, [Next]_allVars PROVE RunsInv'
  OBVIOUS
<1>1. CASE Step /\ UNCHANGED env
  <2>1. (TypeOK /\ RowsFollowTasks /\ AptHasRow)'
    BY <1>1, RowsStep DEF RunsInv
  <2>2. ASSUME Without({"overlap"})' PROVE OneRow'
    BY <1>1, <2>2, OneRowStep DEF RunsInv, Without
  <2> QED
    BY <2>1, <2>2 DEF RunsInv
<1>2. CASE UNCHANGED allVars
  BY <1>2 DEF allVars, vars, RunsInv, TypeOK, RowsFollowTasks, AptHasRow, GivenUp, Without, OneRow
<1> QED
  BY <1>1, <1>2 DEF Next

LEMMA RunsInvariant == Spec => []RunsInv
BY RunsInit, RunsStep, PTL DEF Spec

--------------------------------------------------------------------------------

\* The type invariant of the rows, the tasks and the host, in every environment.
THEOREM RunsTyped == Spec => []TypeOK
<1>1. RunsInv => TypeOK
  BY DEF RunsInv
<1> QED
  BY <1>1, RunsInvariant, PTL

\* The check of start_run: in any number of worker processes, and whatever crashes,
\* restarts or times out, two package managers meet on the host only when NetFleet had
\* given one of the runs up, as long as requests do not overlap.
THEOREM AptsMeet == Spec => []AptsMeetWhenGivenUp
<1>1. RunsInv => AptsMeetWhenGivenUp
  BY DEF RunsInv, AptsMeetWhenGivenUp, AptHasRow, OneRow
<1> QED
  BY <1>1, RunsInvariant, PTL

--------------------------------------------------------------------------------
(* One command over SSH *)

\* Nothing is lost on the way as long as nothing was cut and the channel is there: what
\* the command printed is in a buffer, in the channel, on the wire or still to be printed.
Conserved ==
    ~cut /\ status # "closed" =>
        \A s \in Streams : buf[s] + sent[s] + wire[s] + todo[s] = prints[s]

\* What was received and what is on the way or still to come was printed.
PrintedInv == \A s \in Streams : buf[s] + sent[s] + wire[s] + todo[s] <= prints[s]

\* What was not received fits the window.
WindowInv == wire["out"] + wire["err"] + sent["out"] + sent["err"] <= Window

\* A command exits when it has printed everything, and a status that is sent last
\* arrives behind the output.
ExitInv ==
    /\ cmd = "exited" => \A s \in Streams : todo[s] = 0
    /\ status = "exit" => cmd = "exited"
    /\ status = "exit" /\ ~eager => \A s \in Streams : wire[s] = 0

\* The loop goes on only without a cut, and is left without one only when the channel
\* has a status and nothing to receive, and then nothing more comes behind it.
LoopInv ==
    /\ cut => pc \in {"check", "status", "returned"}
    /\ pc \in {"status", "returned"} /\ ~cut =>
          status # "none" /\ (status = "exit" /\ ~eager => \A s \in Streams : sent[s] = 0)

ExecInv ==
    /\ ExecTypeOK
    /\ prints \in [Streams -> 0 .. MaxPrint]
    /\ Conserved
    /\ PrintedInv
    /\ WindowInv
    /\ ExitInv
    /\ LoopInv

\* The smaller of two naturals is one of them and bounded by both.
LEMMA LeastBounds ==
    ASSUME NEW a \in Nat, NEW b \in Nat
    PROVE  Least(a, b) \in 0 .. b /\ Least(a, b) <= a /\ (a <= b => Least(a, b) = a)
BY DEF Least

\* Every step of the command, of the connection, of the loop and of the clock keeps ExecInv.
LEMMA ExecInvStep == ExecInv /\ [ExecNext]_execVars => ExecInv'
<1> SUFFICES ASSUME ExecInv, [ExecNext]_execVars PROVE ExecInv'
    OBVIOUS
<1> USE LimitsAssumption DEF ExecInv, ExecTypeOK, Streams, host
<1>1. ASSUME NEW s \in Streams, Prints(s) PROVE ExecInv'
    <2>0. todo[s] - 1 \in 0 .. MaxPrint /\ wire[s] + 1 \in 0 .. Window
        BY <1>1 DEF Prints
    <2>1. ExecTypeOK' /\ (prints \in [Streams -> 0 .. MaxPrint])'
        BY <1>1, <2>0 DEF Prints
    <2>2. Conserved' /\ PrintedInv'
        BY <1>1 DEF Prints, Conserved, PrintedInv
    <2>3. WindowInv'
        <3>1. CASE s = "out"
            BY <1>1, <3>1 DEF Prints, WindowInv
        <3>2. CASE s = "err"
            BY <1>1, <3>2 DEF Prints, WindowInv
        <3> QED BY <3>1, <3>2
    <2>4. ExitInv' /\ LoopInv'
        BY <1>1 DEF Prints, ExitInv, LoopInv
    <2> QED BY <2>1, <2>2, <2>3, <2>4
<1>2. CASE Exits
    BY <1>2 DEF Exits, Conserved, PrintedInv, WindowInv, LoopInv, ExitInv
<1>3. ASSUME NEW s \in Streams, Arrives(s) PROVE ExecInv'
    <2>0. sent[s] + 1 \in 0 .. Window /\ wire[s] - 1 \in 0 .. Window
        BY <1>3 DEF Arrives, WindowInv
    <2>1. ExecTypeOK' /\ (prints \in [Streams -> 0 .. MaxPrint])'
        BY <1>3, <2>0 DEF Arrives
    <2>2. Conserved'
        BY <1>3 DEF Arrives, Conserved
    <2>3. PrintedInv'
        BY <1>3 DEF Arrives, PrintedInv
    <2>4. WindowInv'
        <3>1. CASE s = "out"
            BY <1>3, <3>1 DEF Arrives, WindowInv
        <3>2. CASE s = "err"
            BY <1>3, <3>2 DEF Arrives, WindowInv
        <3> QED BY <3>1, <3>2
    <2>5. ExitInv' /\ LoopInv'
        BY <1>3 DEF Arrives, ExitInv, LoopInv
    <2> QED BY <2>1, <2>2, <2>3, <2>4, <2>5
<1>4. CASE StatusArrives
    BY <1>4 DEF StatusArrives, Conserved, PrintedInv, WindowInv, LoopInv, ExitInv
<1>5. CASE ChannelCloses
    <2>1. \A s \in Streams : wire'[s] = 0
        BY <1>5 DEF ChannelCloses
    <2>2. ExecTypeOK' /\ (prints \in [Streams -> 0 .. MaxPrint])'
        BY <1>5 DEF ChannelCloses
    <2>3. Conserved' /\ PrintedInv' /\ WindowInv'
        BY <1>5, <2>1 DEF ChannelCloses, Conserved, PrintedInv, WindowInv
    <2>4. ExitInv' /\ LoopInv'
        BY <1>5 DEF ChannelCloses, ExitInv, LoopInv
    <2> QED BY <2>2, <2>3, <2>4
<1>6. CASE Poll
    BY <1>6 DEF Poll, Conserved, PrintedInv, WindowInv, LoopInv, ExitInv
<1>7. ASSUME NEW s \in Streams, Recv(s) PROVE ExecInv'
    <2>1. buf[s] + sent[s] <= MaxPrint
        BY DEF PrintedInv
    <2>2. ExecTypeOK' /\ (prints \in [Streams -> 0 .. MaxPrint])'
        BY <1>7, <2>1 DEF Recv
    <2>3. Conserved' /\ PrintedInv' /\ WindowInv'
        BY <1>7 DEF Recv, Conserved, PrintedInv, WindowInv
    <2>4. ExitInv' /\ LoopInv'
        BY <1>7 DEF Recv, ExitInv, LoopInv
    <2> QED BY <2>2, <2>3, <2>4
<1>8. ASSUME NEW s \in Streams, Drained(s) PROVE ExecInv'
    BY <1>8 DEF Drained, Conserved, PrintedInv, WindowInv, LoopInv, ExitInv
<1>9. CASE Trim
    <2>0. \A s \in Streams : buf[s] \in Nat
        OBVIOUS
    <2>1. \A s \in Streams :
            /\ Least(buf[s], MaxOutput) \in 0 .. MaxOutput
            /\ Least(buf[s], MaxOutput) <= buf[s]
            /\ buf[s] <= MaxOutput => Least(buf[s], MaxOutput) = buf[s]
        BY <2>0, LeastBounds
    <2>2. ExecTypeOK' /\ (prints \in [Streams -> 0 .. MaxPrint])'
        <3>1. buf' \in [Streams -> 0 .. MaxPrint]
            BY <1>9, <2>1 DEF Trim
        <3>2. cut' \in BOOLEAN
            BY <1>9 DEF Trim
        <3> QED BY <1>9, <3>1, <3>2 DEF Trim
    <2>3. Conserved'
        <3> SUFFICES ASSUME ~cut', status' # "closed", NEW s \in Streams
                     PROVE  buf'[s] + sent'[s] + wire'[s] + todo'[s] = prints'[s]
            BY DEF Conserved
        <3>1. ~cut
            BY <1>9 DEF Trim, LoopInv
        <3>2. ~(buf[s] > MaxOutput)
            BY <1>9 DEF Trim
        <3>3. buf'[s] = buf[s]
            BY <1>9, <2>1, <3>2 DEF Trim
        <3> QED BY <1>9, <3>1, <3>3 DEF Trim, Conserved
    <2>4. PrintedInv' /\ WindowInv'
        BY <1>9, <2>1 DEF Trim, PrintedInv, WindowInv
    <2>5. LoopInv' /\ ExitInv'
        BY <1>9 DEF Trim, LoopInv, ExitInv
    <2> QED BY <2>2, <2>3, <2>4, <2>5
<1>10. CASE CheckDone
    BY <1>10 DEF CheckDone, Ready, Conserved, PrintedInv, WindowInv, LoopInv, ExitInv
<1>11. CASE TimesOut
    BY <1>11 DEF TimesOut, Conserved, PrintedInv, WindowInv, LoopInv, ExitInv
<1>12. CASE RecvExitStatus
    BY <1>12 DEF RecvExitStatus, Conserved, PrintedInv, WindowInv, LoopInv, ExitInv
<1>13. CASE Tick
    BY <1>13 DEF Tick, Conserved, PrintedInv, WindowInv, LoopInv, ExitInv
<1>14. CASE UNCHANGED execVars
    BY <1>14 DEF execVars, Conserved, PrintedInv, WindowInv, LoopInv, ExitInv
<1> QED BY <1>1, <1>2, <1>3, <1>4, <1>5, <1>6, <1>7, <1>8, <1>9, <1>10, <1>11, <1>12, <1>13, <1>14
        DEF ExecNext, Connection, ExecOne

\* _exec_one starts in a state of the invariant.
LEMMA ExecInvInit == ExecInit => ExecInv
<1> SUFFICES ASSUME ExecInit PROVE ExecInv
    OBVIOUS
<1> USE LimitsAssumption DEF ExecInit
<1>1. ExecTypeOK /\ prints \in [Streams -> 0 .. MaxPrint]
    <2>0. cut \in BOOLEAN
        BY Zenon
    <2>1. clock \in 0 .. CmdTimeout + 1
        BY DEF LimitsAssumption
    <2>2. /\ sent \in [Streams -> 0 .. Window] /\ wire \in [Streams -> 0 .. Window]
          /\ buf \in [Streams -> 0 .. MaxPrint]
        BY DEF LimitsAssumption
    <2> QED BY <2>0, <2>1, <2>2 DEF ExecTypeOK
<1>2. Conserved /\ PrintedInv /\ WindowInv /\ LoopInv /\ ExitInv
    BY DEF Conserved, PrintedInv, WindowInv, LoopInv, ExitInv, Streams
<1> QED BY <1>1, <1>2 DEF ExecInv

\* A result of _exec_one that has the command's own status and is not marked truncated is
\* complete, from an sshd that sends the status last, however output, exit and the looks
\* at the channel interleave, for every limit, window, timeout and amount of output.
THEOREM ResultComplete == ExecSpec => []NothingLost
<1>1. ExecInv => NothingLost
    <2> SUFFICES ASSUME ExecInv, pc = "returned", ~cut, status = "exit", ~eager PROVE buf = prints
        BY DEF NothingLost
    <2>1. \A s \in Streams : buf[s] = prints[s]
        BY DEF ExecInv, ExecTypeOK, Conserved, LoopInv, ExitInv, Streams
    <2> QED BY <2>1 DEF ExecInv, ExecTypeOK
<1> QED BY ExecInvInit, ExecInvStep, <1>1, PTL DEF ExecSpec

================================================================================
