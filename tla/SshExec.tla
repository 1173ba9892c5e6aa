-------------------------------- MODULE SshExec --------------------------------
(***************************************************************************)
(* One command over SSH: _exec_one of drivers/ssh_transport.py, on which   *)
(* every call of the Linux driver rests.  The loop receives stdout and     *)
(* stderr until the command has exited, the deadline has passed or a buffer*)
(* is over its limit; then it asks for the exit status.  Output is counted *)
(* in chunks, one per recv.  A chunk travels from the command over the wire*)
(* to the channel.  The command blocks when Window chunks were not received*)
(* yet; it goes on while the loop drains the channel.                      *)
(*                                                                         *)
(* The exit status travels on its own: sshd sends it when the command has  *)
(* exited, and an sshd that does not wait for the pipes sends it ahead of  *)
(* the last output.  A channel that closes without a status (the connection*)
(* dropped, the command was killed by a signal) reads as exit status -1.   *)
(***************************************************************************)
EXTENDS Naturals

CONSTANTS
    MaxOutput,  \* max_output, in chunks
    Window,     \* the receive window of the channel, in chunks
    MaxPrint,   \* bound on what the command prints on one stream
    CmdTimeout  \* cmd.timeout, in ticks

ASSUME LimitsAssumption ==
    /\ MaxOutput \in Nat /\ MaxPrint \in Nat /\ CmdTimeout \in Nat
    /\ Window \in Nat \ {0}

Streams == {"out", "err"}

VARIABLES
    prints,  \* chunks the command prints on each stream
    todo,    \* those it has not printed yet
    wire,    \* chunks on their way to the channel
    sent,    \* chunks in the channel
    buf,     \* the buffers out and err
    cmd,     \* the command on the host; one that is "hung" never exits
    eager,   \* sshd sends the exit status ahead of the last output
    status,  \* the exit status of the channel: the command's, or -1 of a closed one
    pc,      \* where _exec_one is
    cut,     \* truncated
    clock    \* time since the deadline was set

host == <<prints, todo, wire, cmd, eager, status>>
execVars == <<host, sent, buf, pc, cut, clock>>

ExecInit ==
    /\ prints \in [Streams -> 0 .. MaxPrint]
    /\ todo = prints
    /\ wire = [s \in Streams |-> 0]
    /\ sent = [s \in Streams |-> 0]
    /\ buf = [s \in Streams |-> 0]
    /\ cmd \in {"running", "hung"}
    /\ eager \in BOOLEAN
    /\ status = "none"
    /\ pc = "loop"
    /\ cut = FALSE
    /\ clock = 0

--------------------------------------------------------------------------------
(* The command on the host, and the connection *)

\* _exec_one has closed the channel.
Closed == pc \in {"timeout", "returned"}

\* It prints while the window of the channel, which both streams share, has room.
Prints(s) ==
    /\ todo[s] > 0
    /\ wire["out"] + wire["err"] + sent["out"] + sent["err"] < Window
    /\ status # "closed" /\ ~Closed
    /\ todo' = [todo EXCEPT ![s] = @ - 1]
    /\ wire' = [wire EXCEPT ![s] = @ + 1]
    /\ UNCHANGED <<prints, sent, buf, cmd, eager, status, pc, cut, clock>>

Exits ==
    /\ cmd = "running"
    /\ \A s \in Streams : todo[s] = 0
    /\ cmd' = "exited"
    /\ UNCHANGED <<prints, todo, wire, eager, status, sent, buf, pc, cut, clock>>

Arrives(s) ==
    /\ wire[s] > 0
    /\ wire' = [wire EXCEPT ![s] = @ - 1]
    /\ sent' = [sent EXCEPT ![s] = @ + 1]
    /\ UNCHANGED <<prints, todo, cmd, eager, status, buf, pc, cut, clock>>

\* The messages of a channel stay in order, so the status of an sshd that sends it last
\* arrives last.
StatusArrives ==
    /\ cmd = "exited"
    /\ status = "none"
    /\ eager \/ \A s \in Streams : wire[s] = 0
    /\ status' = "exit"
    /\ UNCHANGED <<prints, todo, wire, cmd, eager, sent, buf, pc, cut, clock>>

\* What is on the wire is lost; what is in the channel can still be received.
ChannelCloses ==
    /\ status = "none" /\ ~Closed
    /\ status' = "closed"
    /\ wire' = [s \in Streams |-> 0]
    /\ UNCHANGED <<prints, todo, cmd, eager, sent, buf, pc, cut, clock>>

--------------------------------------------------------------------------------
(* _exec_one *)

\* The deadline is looked at here and nowhere else; then select waits for output.
Poll ==
    /\ pc = "loop"
    /\ clock <= CmdTimeout
    /\ pc' = "out"
    /\ UNCHANGED <<host, sent, buf, cut, clock>>

\* while chan.recv_ready(): one chunk moves to the buffer, which has no limit here.
Recv(s) ==
    /\ pc = s
    /\ sent[s] > 0
    /\ sent' = [sent EXCEPT ![s] = @ - 1]
    /\ buf' = [buf EXCEPT ![s] = @ + 1]
    /\ UNCHANGED <<host, pc, cut, clock>>

\* Nothing is ready on s: stdout is followed by stderr, and stderr by the limits.
Drained(s) ==
    /\ pc = s
    /\ sent[s] = 0
    /\ pc' = IF s = "out" THEN "err" ELSE "trim"
    /\ UNCHANGED <<host, sent, buf, cut, clock>>

Least(a, b) == IF a < b THEN a ELSE b

\* Both buffers are cut to the limit.
Trim ==
    /\ pc = "trim"
    /\ buf' = [s \in Streams |-> Least(buf[s], MaxOutput)]
    /\ cut' = \E s \in Streams : buf[s] > MaxOutput
    /\ pc' = "check"
    /\ UNCHANGED <<host, sent, clock>>

\* Mutant of Ready: does not ask whether more output has arrived.
ExitSeen == cut \/ status # "none"

\* The two ways out of the loop: truncated, or exit_status_ready(), which a closed
\* channel is too, with nothing in the channel to receive.
Ready == cut \/ (status # "none" /\ \A s \in Streams : sent[s] = 0)

CheckDone ==
    /\ pc = "check"
    /\ pc' = IF Ready THEN "status" ELSE "loop"
    /\ UNCHANGED <<host, sent, buf, cut, clock>>

\* Mutant of TimesOut: only a command that prints nothing times out.
TimesOutWhenSilent ==
    /\ pc = "loop"
    /\ clock > CmdTimeout
    /\ \A s \in Streams : buf[s] = 0
    /\ pc' = "timeout"
    /\ UNCHANGED <<host, sent, buf, cut, clock>>

\* The deadline at the head of the loop: SshTimeout, and the channel is closed.
TimesOut ==
    /\ pc = "loop"
    /\ clock > CmdTimeout
    /\ pc' = "timeout"
    /\ UNCHANGED <<host, sent, buf, cut, clock>>

\* recv_exit_status waits for the status or the end of the channel, without a deadline.
RecvExitStatus ==
    /\ pc = "status"
    /\ status # "none"
    /\ pc' = "returned"
    /\ UNCHANGED <<host, sent, buf, cut, clock>>

Tick ==
    /\ ~Closed
    /\ clock <= CmdTimeout
    /\ clock' = clock + 1
    /\ UNCHANGED <<host, sent, buf, pc, cut>>

ExecOne ==
    \/ Poll \/ Trim \/ CheckDone \/ TimesOut \/ RecvExitStatus
    \/ \E s \in Streams : Recv(s) \/ Drained(s)

Connection == Exits \/ StatusArrives \/ \E s \in Streams : Prints(s) \/ Arrives(s)

ExecNext == Connection \/ ChannelCloses \/ ExecOne \/ Tick

\* The thread runs, time passes, and a command that can print or exit does, and it is
\* heard of.
ExecFairness == WF_execVars(ExecOne) /\ WF_execVars(Tick) /\ WF_execVars(Connection)

ExecSpec == ExecInit /\ [][ExecNext]_execVars /\ ExecFairness

--------------------------------------------------------------------------------
(* Properties *)

\* The type invariant of the command, the channel and the loop.
ExecTypeOK ==
    /\ todo \in [Streams -> 0 .. MaxPrint]
    /\ wire \in [Streams -> 0 .. Window]
    /\ sent \in [Streams -> 0 .. Window]
    /\ buf \in [Streams -> 0 .. MaxPrint]
    /\ cmd \in {"running", "hung", "exited"}
    /\ eager \in BOOLEAN
    /\ status \in {"none", "exit", "closed"}
    /\ pc \in {"loop", "out", "err", "trim", "check", "status", "returned", "timeout"}
    /\ cut \in BOOLEAN
    /\ clock \in 0 .. CmdTimeout + 1

\* A result that carries the command's own exit status and is not marked truncated holds
\* everything the command printed, also when its last output and its exit arrive between
\* two looks at the channel, from an sshd that sends the status last.  (A result with exit
\* status -1 may hold less, and so may one whose status overtook the output.)
NothingLost == pc = "returned" /\ ~cut /\ status = "exit" /\ ~eager => buf = prints

\* The deadline of the loop: the call comes back, with a result or with SshTimeout,
\* whether the command exits, hangs or floods.
CallEnds == <>(pc \in {"returned", "timeout"})

\* It does so for every command that prints no more than the limit: a truncated one is
\* waited for without a deadline.
CallEndsWithinLimit == (\A s \in Streams : prints[s] <= MaxOutput) => CallEnds

================================================================================
