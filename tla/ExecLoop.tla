------------------------------ MODULE ExecLoop ------------------------------
(***************************************************************************)
(* One call of ProcessSandbox::run_unchecked (src/src/proc.cpp) after the  *)
(* fork: the parent captures the output of a child, feeds its stdin,       *)
(* enforces the wall-clock deadline and reaps it, while the child and a    *)
(* descendant that inherits its pipes run, write, close, die or leave the  *)
(* process group whenever they like.                                       *)
(*                                                                         *)
(* A pipe is the sequence of the writers of its unread blocks.  Time is    *)
(* three timers, each of which stops once it has run out, so no bound on   *)
(* the length of a run is needed.  poll is never interrupted: the program  *)
(* installs no signal handler.                                             *)
(***************************************************************************)
EXTENDS Integers, Sequences

CONSTANTS
  Calls,      \* the calls made: [pipes, deadline]
  StdinLen,   \* blocks of stdin_data
  Cap,        \* max_output_bytes, in blocks
  PipeCap,    \* capacity of a pipe, in blocks
  Output,     \* bound: blocks the processes of the command write in all
  Grace,      \* 500 ms between SIGTERM and SIGKILL
  Patience    \* 5000 ms to exit after closing the streams

(* A call has a pipe for stdout, one for stderr unless the two are merged,   *)
(* one for stdin if it has input; and timeout_ms in units of time, or no    *)
(* deadline.                                                                *)
Streams == {"out", "err"}
Fds     == Streams \cup {"in"}
Never   == -1

ASSUME CallsAssumption ==
  Calls \subseteq [pipes : {P \in SUBSET Fds : "out" \in P},
                   deadline : Nat \cup {Never}]
ASSUME SizesAssumption ==
  StdinLen \in Nat /\ Cap \in Nat /\ PipeCap \in Nat \ {0} /\ Output \in Nat
ASSUME TimesAssumption == Grace \in Nat /\ Patience \in Nat

VARIABLES
  (* the call *)
  pc,         \* where the parent is
  todo,       \* descriptors it has still to serve in this round
  open,       \* its ends of the pipes that are open
  got,        \* blocks in result.out / result.err
  truncated,  \* result.out_truncated / result.err_truncated
  stdinLeft,  \* blocks of stdin_data not yet written
  sentTerm,   \* sent_term, which becomes result.timed_out
  left,       \* time until the deadline, or Never
  termAge,    \* time since killed_at
  waited,     \* time since the streams were closed
  (* the processes of the command *)
  state,      \* running, zombie, reaped; none before the fork, gone after
  holds,      \* descriptors each holds
  pending,    \* the signal each has been sent and has not yet met
  grouped,    \* is the descendant still in the child's process group
  status,     \* how the child ended
  pipe,       \* the unread blocks of each pipe
  unsent,     \* blocks of output still to be written
  (* observation *)
  lost,       \* was a block of this stream read and thrown away
  pollFailed  \* did poll fail

timers    == <<left, termAge, waited>>
capture   == <<got, truncated, lost>>
processes == <<state, holds, grouped, status, unsent>>
vars == <<pc, todo, open, capture, stdinLeft, sentTerm, timers, processes,
          pending, pipe, pollFailed>>

Procs == {"child", "descendant"}

Init ==
  /\ pc = "loop" /\ todo = {}
  /\ \E c \in Calls : open = c.pipes /\ left = c.deadline
  /\ got = [s \in Streams |-> 0]
  /\ truncated = [s \in Streams |-> FALSE] /\ lost = truncated
  /\ stdinLeft = StdinLen
  /\ sentTerm = FALSE /\ termAge = 0 /\ waited = 0
  /\ state = [p \in Procs |-> IF p = "child" THEN "running" ELSE "none"]
  /\ holds = [p \in Procs |-> IF p = "child" THEN open ELSE {}]
  /\ pending = [p \in Procs |-> "none"]
  /\ grouped = TRUE /\ status = "none"
  /\ pipe = [f \in Fds |-> <<>>]
  /\ unsent = Output /\ pollFailed = FALSE

-----------------------------------------------------------------------------
(* Signals and pipes.                                                       *)
Running(p) == state[p] = "running"
Holders(f) == {p \in Procs : Running(p) /\ f \in holds[p]}

(* kill_tree: the process group and the child.                              *)
KillTree(signal) ==
  pending' = [p \in Procs |->
                IF Running(p) /\ (p = "child" \/ grouped) /\ pending[p] # "kill"
                THEN signal ELSE pending[p]]

(* What poll reports: data or end of file to read, room or an error to      *)
(* write.                                                                   *)
Ready == {f \in open : \/ Holders(f) = {}
                       \/ f = "in" /\ Len(pipe[f]) < PipeCap
                       \/ f # "in" /\ pipe[f] # <<>>}

(* The descriptors of a round are served in this order.                     *)
IsNext(f) == /\ f \in todo
             /\ f = "err" => "out" \notin todo
             /\ f = "in"  => todo = {"in"}

-----------------------------------------------------------------------------
(* The deadline, before each poll: SIGTERM once, and SIGKILL when more than *)
(* the grace period has passed.  Mutant: no escalation.                     *)
TermDue == left = 0 /\ ~sentTerm
Mutant_KillNeverDue == FALSE
KillDue == sentTerm /\ termAge > Grace

CheckDeadline ==
  /\ pc = "loop" /\ open # {}
  /\ pc' = "poll"
  /\ sentTerm' = (sentTerm \/ TermDue)
  /\ \/ TermDue /\ KillTree("term")
     \/ KillDue /\ KillTree("kill")
     \/ ~TermDue /\ ~KillDue /\ UNCHANGED pending
  /\ UNCHANGED <<todo, open, capture, stdinLeft, timers, processes, pipe,
                 pollFailed>>

LeaveLoop ==
  /\ pc = "loop" /\ open = {}
  /\ pc' = "wait"
  /\ UNCHANGED <<todo, open, capture, stdinLeft, sentTerm, timers, processes,
                 pending, pipe, pollFailed>>

PollReady ==
  /\ pc = "poll" /\ Ready # {}
  /\ todo' = Ready
  /\ pc' = "serve"
  /\ UNCHANGED <<open, capture, stdinLeft, sentTerm, timers, processes,
                 pending, pipe, pollFailed>>

PollTimesOut ==
  /\ pc = "poll" /\ Ready = {}
  /\ pc' = "reap"
  /\ UNCHANGED <<todo, open, capture, stdinLeft, sentTerm, timers, processes,
                 pending, pipe, pollFailed>>

PollFails ==
  /\ pc = "poll"
  /\ pollFailed' = TRUE
  /\ pc' = "wait"
  /\ UNCHANGED <<todo, open, capture, stdinLeft, sentTerm, timers, processes,
                 pending, pipe>>

(* Nothing was ready: look whether the child has exited in the meantime,    *)
(* and if so drain the streams and return.  Mutants: the loop goes on; only *)
(* one of the streams is drained.                                           *)
Mutant_AfterReapGoOn   == "loop"
AfterReap == "drain"
Mutant_ToDrainOutOnly == open \cap {"out"}
ToDrain == open \ {"in"}

Reap(next) ==
  /\ state["child"] = "zombie"
  /\ state' = [state EXCEPT !["child"] = "reaped"]
  /\ pc' = next

ReapOrGoOn ==
  /\ pc = "reap"
  /\ \/ Reap(AfterReap) /\ todo' = ToDrain
     \/ Running("child") /\ pc' = "loop" /\ UNCHANGED <<todo, state>>
  /\ UNCHANGED <<open, capture, stdinLeft, sentTerm, timers, holds, grouped,
                 status, unsent, pending, pipe, pollFailed>>

-----------------------------------------------------------------------------
(* Serving a descriptor that was ready.                                     *)

(* What is kept of n blocks: what there is room for.  Mutants: the room is  *)
(* not subtracted; a read that does not fit is not kept at all.             *)
Room(s) == Cap - got[s]
Mutant_KeptAll(s, n)     == n
Mutant_KeptIfFits(s, n)  == IF n <= Room(s) THEN n ELSE 0
Kept(s, n) == IF n <= Room(s) THEN n ELSE Room(s)

Take(s, n) ==
  /\ n \in 1 .. Len(pipe[s])
  /\ pipe' = [pipe EXCEPT ![s] = SubSeq(@, n + 1, Len(@))]
  /\ got'  = [got EXCEPT ![s] = @ + Kept(s, n)]
  /\ lost' = [lost EXCEPT ![s] = @ \/ Kept(s, n) < n]

(* Mutant: truncation is reported when the cap is reached.                  *)
Mutant_OverflowsAtCap(s, n) == n >= Room(s)
Overflows(s, n) == n > Room(s)

ReadSome(s) ==
  /\ pc = "serve" /\ IsNext(s)
  /\ \E n \in 1 .. PipeCap :
       /\ Take(s, n)
       /\ truncated' = [truncated EXCEPT ![s] = @ \/ Overflows(s, n)]
  /\ UNCHANGED <<pc, todo, open, stdinLeft, sentTerm, timers, processes,
                 pending, pollFailed>>

Served(f) ==
  /\ todo' = todo \ {f}
  /\ pc' = IF todo' = {} THEN "loop" ELSE pc

(* End of file closes the stream, an empty pipe leaves it for the next poll. *)
ReadEnds(s) ==
  /\ pc = "serve" /\ IsNext(s) /\ pipe[s] = <<>>
  /\ open' = IF Holders(s) = {} THEN open \ {s} ELSE open
  /\ Served(s)
  /\ UNCHANGED <<capture, stdinLeft, sentTerm, timers, processes, pending,
                 pipe, pollFailed>>

(* One write to stdin; the pipe is closed when all is written, when there   *)
(* was nothing to write and when nobody reads it.  Mutant: an error of the  *)
(* write is taken for a full pipe.                                          *)
Mutant_AfterWriteErrorOpen == open
AfterWriteError == open \ {"in"}

WriteStdin ==
  /\ pc = "serve" /\ IsNext("in")
  /\ \/ /\ Holders("in") # {} /\ stdinLeft > 0
        /\ \E n \in 1 .. PipeCap :
             /\ n <= stdinLeft /\ n <= PipeCap - Len(pipe["in"])
             /\ pipe' = [pipe EXCEPT !["in"] = @ \o [i \in 1 .. n |-> "parent"]]
             /\ stdinLeft' = stdinLeft - n
        /\ open' = IF stdinLeft' = 0 THEN open \ {"in"} ELSE open
     \/ /\ stdinLeft = 0
        /\ open' = open \ {"in"}
        /\ UNCHANGED <<pipe, stdinLeft>>
     \/ /\ Holders("in") = {} /\ stdinLeft > 0
        /\ open' = AfterWriteError
        /\ UNCHANGED <<pipe, stdinLeft>>
  /\ Served("in")
  /\ UNCHANGED <<capture, sentTerm, timers, processes, pending, pollFailed>>

-----------------------------------------------------------------------------
(* After the child was reaped: everything still in the pipes is read, and   *)
(* what exceeds the cap is only reported when the cap was already reached.  *)
DrainSome(s) ==
  /\ pc = "drain" /\ IsNext(s)
  /\ truncated' = [truncated EXCEPT ![s] = @ \/ Room(s) = 0]
  /\ \E n \in 1 .. PipeCap : Take(s, n)
  /\ UNCHANGED <<pc, todo, open, stdinLeft, sentTerm, timers, processes,
                 pending, pollFailed>>

DrainEnds(s) ==
  /\ pc = "drain" /\ IsNext(s) /\ pipe[s] = <<>>
  /\ open' = open \ {s} /\ todo' = todo \ {s}
  /\ UNCHANGED <<pc, capture, stdinLeft, sentTerm, timers, processes, pending,
                 pipe, pollFailed>>

ReturnDrained ==
  /\ pc = "drain" /\ todo = {}
  /\ open' = {} /\ pc' = "done"
  /\ UNCHANGED <<todo, capture, stdinLeft, sentTerm, timers, processes,
                 pending, pipe, pollFailed>>

(* The bounded wait after the loop: the child is reaped when it exits, and  *)
(* killed when that takes too long, if it has not exited since it was last  *)
(* looked at.  Mutant: killed, and not waited for.                          *)
WaitReaps ==
  /\ pc = "wait" /\ Reap("done")
  /\ open' = {}
  /\ UNCHANGED <<todo, capture, stdinLeft, sentTerm, timers, holds, grouped,
                 status, unsent, pending, pipe, pollFailed>>

Mutant_AfterKillReturn == "done"
AfterKill == "collect"

WaitKills ==
  /\ pc = "wait" /\ waited > Patience
  /\ KillTree("kill")
  /\ pc' = AfterKill
  /\ UNCHANGED <<todo, open, capture, stdinLeft, sentTerm, timers, processes,
                 pipe, pollFailed>>

CollectKilled ==
  /\ pc = "collect" /\ Reap("done")
  /\ open' = {}
  /\ UNCHANGED <<todo, capture, stdinLeft, sentTerm, timers, holds, grouped,
                 status, unsent, pending, pipe, pollFailed>>

Parent ==
  \/ CheckDeadline \/ LeaveLoop
  \/ PollReady \/ PollTimesOut \/ ReapOrGoOn
  \/ \E s \in Streams : ReadSome(s) \/ ReadEnds(s) \/ DrainSome(s) \/ DrainEnds(s)
  \/ WriteStdin
  \/ ReturnDrained \/ WaitReaps \/ WaitKills \/ CollectKilled

-----------------------------------------------------------------------------
(* The processes of the command.  One that has been sent SIGKILL does       *)
(* nothing more; SIGTERM may be handled.                                    *)
Free(p) == Running(p) /\ pending[p] # "kill"
call    == <<pc, todo, open, capture, stdinLeft, sentTerm, timers, pollFailed>>

Fork ==
  /\ Free("child") /\ state["descendant"] = "none"
  /\ state' = [state EXCEPT !["descendant"] = "running"]
  /\ holds' = [holds EXCEPT !["descendant"] = holds["child"]]
  /\ UNCHANGED <<call, pending, grouped, status, pipe, unsent>>

LeaveGroup ==
  /\ Free("descendant") /\ grouped
  /\ grouped' = FALSE
  /\ UNCHANGED <<call, state, holds, pending, status, pipe, unsent>>

Write(p, s) ==
  /\ Free(p) /\ s \in holds[p] /\ s \in open
  /\ unsent > 0
  /\ Len(pipe[s]) < PipeCap
  /\ pipe' = [pipe EXCEPT ![s] = Append(@, p)]
  /\ unsent' = unsent - 1
  /\ UNCHANGED <<call, state, holds, pending, grouped, status>>

ReadStdin(p) ==
  /\ Free(p) /\ "in" \in holds[p] /\ pipe["in"] # <<>>
  /\ pipe' = [pipe EXCEPT !["in"] = Tail(@)]
  /\ UNCHANGED <<call, processes, pending>>

Close(p, f) ==
  /\ Free(p) /\ f \in holds[p]
  /\ holds' = [holds EXCEPT ![p] = @ \ {f}]
  /\ UNCHANGED <<call, state, pending, grouped, status, pipe, unsent>>

Handle(p) ==
  /\ Running(p) /\ pending[p] = "term"
  /\ pending' = [pending EXCEPT ![p] = "none"]
  /\ UNCHANGED <<call, processes, pipe>>

End(p, how) ==
  /\ Running(p)
  /\ state' = [state EXCEPT ![p] = IF p = "child" THEN "zombie" ELSE "gone"]
  /\ holds' = [holds EXCEPT ![p] = {}]
  /\ pending' = [pending EXCEPT ![p] = "none"]
  /\ status' = IF p = "child" THEN how ELSE status
  /\ UNCHANGED <<call, grouped, pipe, unsent>>

Exit(p)        == \E how \in {"ok", "fail", "signal"} : Free(p) /\ End(p, how)
DieOfSignal(p) == pending[p] # "none" /\ End(p, "signal")
DieOfKill(p)   == pending[p] = "kill" /\ End(p, "signal")

Command ==
  \/ Fork \/ LeaveGroup
  \/ \E p \in Procs : \/ \E s \in Streams : Write(p, s)
                      \/ ReadStdin(p)
                      \/ \E f \in Fds : Close(p, f)
                      \/ Handle(p) \/ Exit(p) \/ DieOfSignal(p)

Older(t, limit) == IF t > limit THEN t ELSE t + 1
Tick ==
  /\ pc # "done"
  /\ left' = IF left > 0 THEN left - 1 ELSE left
  /\ termAge' = IF sentTerm THEN Older(termAge, Grace) ELSE termAge
  /\ waited' = IF pc = "wait" THEN Older(waited, Patience) ELSE waited
  /\ UNCHANGED <<pc, todo, open, capture, stdinLeft, sentTerm, processes,
                 pending, pipe, pollFailed>>

Next == Parent \/ PollFails \/ Command \/ Tick
Spec == Init /\ [][Next]_vars

(* The parent is sequential code, time passes and the kernel delivers       *)
(* SIGKILL.  Nothing is assumed of the command, nor that poll fails.        *)
FairSpec == /\ Spec
            /\ WF_vars(Parent) /\ WF_vars(Tick)
            /\ \A p \in Procs : WF_vars(DieOfKill(p))

-----------------------------------------------------------------------------
(* PROPERTIES                                                               *)
Signals == {"none", "term", "kill"}

(* Type invariant; the captured output never exceeds the cap.               *)
TypeOK ==
  /\ pc \in {"loop", "poll", "serve", "reap", "drain", "wait", "collect", "done"}
  /\ todo \subseteq Fds /\ open \subseteq Fds
  /\ got \in [Streams -> 0 .. Cap]
  /\ truncated \in [Streams -> BOOLEAN] /\ lost \in [Streams -> BOOLEAN]
  /\ stdinLeft \in 0 .. StdinLen
  /\ sentTerm \in BOOLEAN /\ pollFailed \in BOOLEAN
  /\ left \in Nat \cup {Never} /\ termAge \in 0 .. Grace + 1
  /\ waited \in 0 .. Patience + 1
  /\ state \in [Procs -> {"none", "running", "zombie", "reaped", "gone"}]
  /\ holds \in [Procs -> SUBSET Fds]
  /\ pending \in [Procs -> Signals]
  /\ grouped \in BOOLEAN /\ status \in {"none", "ok", "fail", "signal"}
  /\ pipe \in [Fds -> Seq(Procs \cup {"parent"})]
  /\ unsent \in 0 .. Output

(* However the call ends, the child has ended and has been reaped, and its  *)
(* status is known: no zombie and no running child is left behind.          *)
ReapedOnReturn ==
  pc = "done" => state["child"] = "reaped" /\ status # "none" /\ open = {}

(* What is captured of a stream is a prefix of what was written: a block is *)
(* thrown away only when the cap is reached, and truncation is reported     *)
(* only if a block was thrown away.                                         *)
CapturedPrefix ==
  \A s \in Streams : /\ lost[s] => got[s] = Cap
                     /\ truncated[s] => lost[s]

(* Nothing the child wrote is left unread, although it may write between    *)
(* the poll that found nothing and the wait that found it dead (398-432).   *)
ChildOutputRead ==
  pc = "done" /\ ~pollFailed =>
    \A s \in Streams : \A i \in 1 .. Len(pipe[s]) : pipe[s][i] # "child"

(* No signal is sent once the child was reaped: its process id, and that of *)
(* its group, may belong to somebody else by then.                          *)
SignalsOnlyUnreaped ==
  [][(\E p \in Procs : pending[p] # pending'[p] /\ pending'[p] # "none")
       => state["child"] # "reaped"]_pending

(* A call with a deadline, on a command whose output is finite, returns,    *)
(* whatever signals the command ignores and whoever holds its pipes; and    *)
(* any call returns once the child has ended, although a descendant may     *)
(* hold the pipes and stdin may be half written.                            *)
Returns == left # Never \/ state["child"] = "zombie" ~> pc = "done"

(* proc.h:9-10: `wall-clock deadline with SIGTERM -> SIGKILL escalation of  *)
(* the process group (so a runaway child cannot outlive the agent)'.        *)
TimedOutLeavesNothing ==
  pc = "done" /\ sentTerm /\ ~pollFailed =>
    ~(Running("descendant") /\ grouped /\ pending["descendant"] = "none")
=============================================================================
