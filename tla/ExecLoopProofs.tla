--------------------------- MODULE ExecLoopProofs ---------------------------
(***************************************************************************)
(* Theorems about one call of run_unchecked, for every set of pipes, cap,  *)
(* pipe capacity, deadline and command.                                    *)
(***************************************************************************)
EXTENDS ExecLoop, TLAPS

(* The parts of the type invariant that different actions disturb.          *)
TypeParent ==
  /\ pc \in {"loop", "poll", "serve", "reap", "drain", "wait", "collect", "done"}
  /\ todo \subseteq Fds /\ open \subseteq Fds
  /\ stdinLeft \in 0 .. StdinLen
  /\ sentTerm \in BOOLEAN /\ pollFailed \in BOOLEAN

TypeTimers ==
  /\ left \in Nat \cup {Never} /\ termAge \in 0 .. Grace + 1
  /\ waited \in 0 .. Patience + 1

TypeCapture ==
  /\ got \in [Streams -> 0 .. Cap]
  /\ truncated \in [Streams -> BOOLEAN] /\ lost \in [Streams -> BOOLEAN]

TypeProcesses ==
  /\ state \in [Procs -> {"none", "running", "zombie", "reaped", "gone"}]
  /\ holds \in [Procs -> SUBSET Fds]
  /\ pending \in [Procs -> Signals]
  /\ grouped \in BOOLEAN /\ status \in {"none", "ok", "fail", "signal"}
  /\ unsent \in 0 .. Output

TypePipes == pipe \in [Fds -> Seq(Procs \cup {"parent"})]

LEMMA TypeParts ==
  TypeOK <=> TypeParent /\ TypeTimers /\ TypeCapture /\ TypeProcesses /\ TypePipes
BY DEF TypeOK, TypeParent, TypeTimers, TypeCapture, TypeProcesses, TypePipes

LEMMA StreamsAreFds == Streams \subseteq Fds /\ "in" \notin Streams
BY DEF Streams, Fds

LEMMA TypeInit == Init => TypeOK
<1> SUFFICES ASSUME Init PROVE TypeOK
  OBVIOUS
<1> USE DEF Init
<1>1. TypeParent
  <2>1. stdinLeft \in 0 .. StdinLen
    BY SizesAssumption
  <2>2. pc = "loop" /\ todo = {} /\ open \subseteq Fds /\ sentTerm = FALSE /\ pollFailed = FALSE
    BY CallsAssumption
  <2> HIDE DEF Init
  <2> QED BY <2>1, <2>2 DEF TypeParent
<1>2. TypeTimers
  BY TimesAssumption, CallsAssumption DEF TypeTimers
<1>3. TypeCapture
  BY SizesAssumption DEF TypeCapture
<1>4. TypeProcesses
  BY SizesAssumption, CallsAssumption DEF TypeProcesses, Procs, Signals
<1>5. TypePipes
  BY DEF TypePipes
<1> QED BY <1>1, <1>2, <1>3, <1>4, <1>5, TypeParts

-----------------------------------------------------------------------------
(* Reading takes blocks off the front of a pipe and keeps what fits.        *)
LEMMA TakeTypes ==
  ASSUME TypeOK, CapturedPrefix, NEW s \in Streams, NEW n \in Nat, Take(s, n)
  PROVE  /\ TypePipes'
         /\ got' \in [Streams -> 0 .. Cap]
         /\ lost' \in [Streams -> BOOLEAN]
         /\ \A t \in Streams : t # s => got'[t] = got[t] /\ lost'[t] = lost[t]
         /\ lost'[s] = (lost[s] \/ n > Room(s))
         /\ lost'[s] => got'[s] = Cap
<1> USE StreamsAreFds, SizesAssumption
<1>1. pipe[s] \in Seq(Procs \cup {"parent"})
  BY DEF TypeOK
<1>2. n \in 1 .. Len(pipe[s])
  BY DEF Take
<1>3. SubSeq(pipe[s], n + 1, Len(pipe[s])) \in Seq(Procs \cup {"parent"})
  BY <1>1, <1>2
<1>4. TypePipes'
  BY <1>3 DEF Take, TypePipes, TypeOK
<1>5. got[s] \in 0 .. Cap /\ lost[s] \in BOOLEAN /\ Room(s) \in 0 .. Cap
  BY DEF TypeOK, Room
<1>6. /\ Kept(s, n) \in 0 .. Room(s)
      /\ (Kept(s, n) < n) <=> n > Room(s)
      /\ n > Room(s) => Kept(s, n) = Room(s)
  BY <1>2, <1>5 DEF Kept
<1>7. got[s] + Kept(s, n) \in 0 .. Cap
  BY <1>5, <1>6 DEF Room
<1>8. got' \in [Streams -> 0 .. Cap] /\ got'[s] = got[s] + Kept(s, n)
      /\ \A t \in Streams : t # s => got'[t] = got[t]
  BY <1>7 DEF Take, TypeOK
<1>9. /\ lost' \in [Streams -> BOOLEAN]
      /\ lost'[s] = (lost[s] \/ Kept(s, n) < n)
      /\ \A t \in Streams : t # s => lost'[t] = lost[t]
  BY DEF Take, TypeOK
<1>10. lost'[s] = (lost[s] \/ n > Room(s))
  BY <1>6, <1>9
<1>11. ASSUME lost[s] PROVE got'[s] = Cap
  BY <1>5, <1>6, <1>8, <1>11 DEF CapturedPrefix, Room
<1>12. ASSUME n > Room(s) PROVE got'[s] = Cap
  BY <1>5, <1>6, <1>8, <1>12 DEF Room
<1> QED BY <1>4, <1>8, <1>9, <1>10, <1>11, <1>12

-----------------------------------------------------------------------------
(* Whether the child has been reaped can be read off the program counter,   *)
(* and its status is known as soon as it has ended.                         *)
ReapInv ==
  /\ state["child"] \in {"running", "zombie", "reaped"}
  /\ state["child"] = "reaped" <=> pc \in {"drain", "done"}
  /\ status = "none" <=> state["child"] = "running"
  /\ pc = "done" => open = {}

ExecInv == TypeOK /\ CapturedPrefix /\ ReapInv

LEMMA ExecInit == Init => ExecInv
<1> SUFFICES ASSUME Init PROVE ExecInv
  OBVIOUS
<1>1. TypeOK
  BY TypeInit
<1>2. CapturedPrefix
  BY DEF Init, CapturedPrefix
<1>3. ReapInv
  BY DEF Init, ReapInv, Procs
<1> QED BY <1>1, <1>2, <1>3 DEF ExecInv

-----------------------------------------------------------------------------
(* One step per action of the parent.                                       *)
LEMMA KillTreeTypes ==
  ASSUME TypeOK, NEW signal \in Signals, KillTree(signal)
  PROVE  pending' \in [Procs -> Signals]
BY DEF KillTree, TypeOK

LEMMA DeadlineStep == ExecInv /\ CheckDeadline => ExecInv'
<1> SUFFICES ASSUME ExecInv, CheckDeadline PROVE ExecInv'
  OBVIOUS
<1> USE DEF ExecInv, capture, timers, processes
<1>1. pending' \in [Procs -> Signals]
  BY KillTreeTypes DEF CheckDeadline, TypeOK, Signals
<1>2. sentTerm' \in BOOLEAN
  BY DEF CheckDeadline, TypeOK, TermDue
<1>3. TypeOK'
  BY <1>1, <1>2 DEF CheckDeadline, TypeOK
<1>4. CapturedPrefix'
  BY DEF CheckDeadline, CapturedPrefix
<1>5. ReapInv'
  BY DEF CheckDeadline, ReapInv
<1> QED BY <1>3, <1>4, <1>5

LEMMA PollSteps ==
  ExecInv /\ (LeaveLoop \/ PollReady \/ PollTimesOut \/ PollFails) => ExecInv'
<1> SUFFICES ASSUME ExecInv, LeaveLoop \/ PollReady \/ PollTimesOut \/ PollFails
             PROVE  ExecInv'
  OBVIOUS
<1> USE DEF ExecInv, capture, timers, processes, LeaveLoop, PollReady,
        PollTimesOut, PollFails
<1>1. Ready \subseteq Fds
  BY DEF Ready, TypeOK
<1>2. TypeParent' /\ TypeTimers' /\ TypeCapture' /\ TypeProcesses' /\ TypePipes'
  <2>1. TypeParent'
    BY <1>1 DEF TypeOK, TypeParent
  <2>2. TypeTimers' /\ TypeCapture'
    BY DEF TypeOK, TypeTimers, TypeCapture
  <2>3. TypeProcesses' /\ TypePipes'
    BY DEF TypeOK, TypeProcesses, TypePipes
  <2> QED BY <2>1, <2>2, <2>3
<1>3. TypeOK'
  BY <1>2 DEF TypeOK, TypeParent, TypeTimers, TypeCapture, TypeProcesses, TypePipes
<1>4. CapturedPrefix'
  BY DEF CapturedPrefix
<1>5. ReapInv'
  BY DEF ReapInv
<1> QED BY <1>3, <1>4, <1>5

(* Reaping leaves what was captured alone and sets the child to reaped.     *)
LEMMA ReapStep ==
  ASSUME ExecInv, NEW next, Reap(next)
  PROVE  /\ state' \in [Procs -> {"none", "running", "zombie", "reaped", "gone"}]
         /\ state'["child"] = "reaped" /\ status # "none" /\ pc' = next
BY DEF ExecInv, TypeOK, ReapInv, Reap, Procs

LEMMA ReapSteps ==
  ExecInv /\ (ReapOrGoOn \/ WaitReaps \/ CollectKilled) => ExecInv'
<1> SUFFICES ASSUME ExecInv, ReapOrGoOn \/ WaitReaps \/ CollectKilled
             PROVE  ExecInv'
  OBVIOUS
<1> USE DEF ExecInv, capture, timers, processes
<1>1. CASE ReapOrGoOn /\ Running("child")
  <2>1. TypeOK'
    BY <1>1 DEF ReapOrGoOn, Reap, Running, TypeOK
  <2>2. CapturedPrefix' /\ ReapInv'
    BY <1>1 DEF ReapOrGoOn, Reap, Running, ReapInv, CapturedPrefix
  <2> QED BY <2>1, <2>2
<1>2. CASE ReapOrGoOn /\ ~Running("child")
  <2>1. Reap("drain") /\ todo' = open \ {"in"}
    BY <1>2 DEF ReapOrGoOn, AfterReap, ToDrain
  <2>2. TypeOK'
    BY <1>2, <2>1, ReapStep DEF ReapOrGoOn, TypeOK
  <2>3. CapturedPrefix' /\ ReapInv'
    BY <1>2, <2>1, ReapStep DEF ReapOrGoOn, ReapInv, CapturedPrefix
  <2> QED BY <2>2, <2>3
<1>3. CASE WaitReaps
  <2>1. TypeOK'
    BY <1>3, ReapStep DEF WaitReaps, TypeOK
  <2>2. CapturedPrefix' /\ ReapInv'
    BY <1>3, ReapStep DEF WaitReaps, ReapInv, CapturedPrefix
  <2> QED BY <2>1, <2>2
<1>4. CASE CollectKilled
  <2>1. TypeOK'
    BY <1>4, ReapStep DEF CollectKilled, TypeOK
  <2>2. CapturedPrefix' /\ ReapInv'
    BY <1>4, ReapStep DEF CollectKilled, ReapInv, CapturedPrefix
  <2> QED BY <2>1, <2>2
<1> QED BY <1>1, <1>2, <1>3, <1>4

LEMMA WaitKillsStep == ExecInv /\ WaitKills => ExecInv'
<1> SUFFICES ASSUME ExecInv, WaitKills PROVE ExecInv'
  OBVIOUS
<1> USE DEF ExecInv, capture, timers, processes
<1>1. pending' \in [Procs -> Signals]
  BY KillTreeTypes DEF WaitKills, Signals
<1>2. TypeOK'
  BY <1>1 DEF WaitKills, AfterKill, TypeOK
<1>3. CapturedPrefix' /\ ReapInv'
  BY DEF WaitKills, AfterKill, ReapInv, CapturedPrefix
<1> QED BY <1>2, <1>3

LEMMA ReadStep ==
  ASSUME ExecInv, NEW s \in Streams, ReadSome(s) \/ DrainSome(s)
  PROVE  ExecInv'
<1> USE DEF ExecInv, timers, processes
<1>1. PICK n \in 1 .. PipeCap :
        /\ Take(s, n)
        /\ \/ truncated' = [truncated EXCEPT ![s] = @ \/ n > Room(s)]
           \/ truncated' = [truncated EXCEPT ![s] = @ \/ Room(s) = 0]
  BY DEF ReadSome, DrainSome, Overflows
<1>2. n \in Nat /\ n > 0
  BY SizesAssumption
<1>3. truncated' \in [Streams -> BOOLEAN]
  BY <1>1 DEF TypeOK
<1>4. TypeOK'
  <2>1. UNCHANGED <<pc, todo, open, stdinLeft, sentTerm, timers, processes, pending,
                    pollFailed>>
    BY DEF ReadSome, DrainSome
  <2> QED BY <1>1, <1>2, <1>3, <2>1, TakeTypes DEF TypeOK, TypePipes
<1>5. CapturedPrefix'
  <2>1. ASSUME NEW t \in Streams, t # s
        PROVE  (lost'[t] => got'[t] = Cap) /\ (truncated'[t] => lost'[t])
    BY <1>1, <1>2, <2>1, TakeTypes DEF CapturedPrefix, TypeOK
  <2>2. Room(s) \in Nat
    BY SizesAssumption DEF TypeOK, Room
  <2>3. lost'[s] = (lost[s] \/ n > Room(s)) /\ (lost'[s] => got'[s] = Cap)
    BY <1>1, <1>2, TakeTypes
  <2>4. truncated'[s] => truncated[s] \/ n > Room(s)
    BY <1>1, <1>2, <2>2 DEF TypeOK
  <2>5. truncated'[s] => lost'[s]
    BY <2>3, <2>4 DEF CapturedPrefix
  <2> QED BY <2>1, <2>3, <2>5 DEF CapturedPrefix
<1>6. ReapInv'
  BY DEF ReadSome, DrainSome, ReapInv
<1> QED BY <1>4, <1>5, <1>6

LEMMA EndSteps ==
  ASSUME ExecInv, NEW s \in Streams, ReadEnds(s) \/ DrainEnds(s) \/ ReturnDrained
  PROVE  ExecInv'
<1> USE DEF ExecInv, capture, timers, processes
<1>1. TypeParent'
  BY DEF ReadEnds, DrainEnds, ReturnDrained, Served, TypeOK, TypeParent
<1>2. TypeTimers' /\ TypeCapture' /\ TypeProcesses' /\ TypePipes'
  <2>1. UNCHANGED <<capture, timers, processes, pending, pipe>>
    BY DEF ReadEnds, DrainEnds, ReturnDrained
  <2> QED BY <2>1 DEF TypeOK, TypeTimers, TypeCapture, TypeProcesses, TypePipes
<1>3. TypeOK'
  BY <1>1, <1>2 DEF TypeOK, TypeParent, TypeTimers, TypeCapture, TypeProcesses, TypePipes
<1>4. CapturedPrefix'
  BY DEF ReadEnds, DrainEnds, ReturnDrained, CapturedPrefix
<1>5. ReapInv'
  BY DEF ReadEnds, DrainEnds, ReturnDrained, Served, ReapInv
<1> QED BY <1>3, <1>4, <1>5

LEMMA StdinStep == ExecInv /\ WriteStdin => ExecInv'
<1> SUFFICES ASSUME ExecInv, WriteStdin PROVE ExecInv'
  OBVIOUS
<1> USE DEF ExecInv, capture, timers, processes
<1>1. "in" \in Fds
  BY DEF WriteStdin, IsNext, TypeOK
<1>2. pipe' \in [Fds -> Seq(Procs \cup {"parent"})] /\ stdinLeft' \in 0 .. StdinLen
  <2>1. CASE UNCHANGED <<pipe, stdinLeft>>
    BY <2>1 DEF TypeOK
  <2>2. ASSUME NEW n \in 1 .. PipeCap, n <= stdinLeft,
               pipe' = [pipe EXCEPT !["in"] = @ \o [i \in 1 .. n |-> "parent"]],
               stdinLeft' = stdinLeft - n
        PROVE  /\ pipe' \in [Fds -> Seq(Procs \cup {"parent"})]
               /\ stdinLeft' \in 0 .. StdinLen
    <3>1. n \in Nat
      BY SizesAssumption
    <3>2. [i \in 1 .. n |-> "parent"] \in Seq(Procs \cup {"parent"})
      BY <3>1
    <3>3. pipe["in"] \in Seq(Procs \cup {"parent"})
      BY <1>1 DEF TypeOK
    <3>4. pipe["in"] \o [i \in 1 .. n |-> "parent"] \in Seq(Procs \cup {"parent"})
      BY <3>2, <3>3
    <3>5. pipe' \in [Fds -> Seq(Procs \cup {"parent"})]
      <4> DEFINE filled == pipe["in"] \o [i \in 1 .. n |-> "parent"]
      <4>1. pipe' = [pipe EXCEPT !["in"] = filled]
        BY <2>2
      <4>2. filled \in Seq(Procs \cup {"parent"})
        BY <3>4
      <4> HIDE DEF filled
      <4> QED BY <4>1, <4>2 DEF TypeOK
    <3>6. stdinLeft' \in 0 .. StdinLen
      BY <2>2, <3>1, SizesAssumption DEF TypeOK
    <3> QED BY <3>5, <3>6
  <2> QED BY <2>1, <2>2 DEF WriteStdin
<1>3. open' \subseteq Fds /\ todo' \subseteq Fds /\ pc' \in {"serve", "loop"}
      /\ pc = "serve"
  BY DEF WriteStdin, Served, AfterWriteError, TypeOK
<1>4. UNCHANGED <<capture, sentTerm, timers, processes, pending, pollFailed>>
  BY DEF WriteStdin
<1>5. TypeOK'
  BY <1>2, <1>3, <1>4 DEF TypeOK
<1>6. CapturedPrefix' /\ ReapInv'
  BY <1>3, <1>4 DEF ReapInv, CapturedPrefix
<1> QED BY <1>5, <1>6

LEMMA ParentStep == ExecInv /\ Parent => ExecInv'
BY DeadlineStep, PollSteps, ReapSteps, WaitKillsStep, ReadStep, EndSteps,
   StdinStep DEF Parent, Streams

-----------------------------------------------------------------------------
(* The processes of the command disturb neither the parent nor what it has  *)
(* captured; the child leaves running only with a status.                   *)
LEMMA CommandStep == ExecInv /\ Command => ExecInv'
<1> SUFFICES ASSUME ExecInv, Command PROVE ExecInv'
  OBVIOUS
<1> USE StreamsAreFds DEF ExecInv, call, capture, timers, processes
<1>1. UNCHANGED call
  BY DEF Command, Fork, LeaveGroup, Write, ReadStdin, Close, Handle, Exit,
         DieOfSignal, End
<1>2. TypeProcesses' /\ TypePipes' /\ ReapInv'
  <2> USE <1>1 DEF TypeOK, TypeProcesses, TypePipes, ReapInv, Procs, Signals
  <2>1. CASE Fork
    BY <2>1 DEF Fork, Free
  <2>2. CASE LeaveGroup
    BY <2>2 DEF LeaveGroup
  <2>3. ASSUME NEW p \in Procs, NEW s \in Streams, Write(p, s)
        PROVE  TypeProcesses' /\ TypePipes' /\ ReapInv'
    <3>1. Append(pipe[s], p) \in Seq(Procs \cup {"parent"})
      OBVIOUS
    <3>2. unsent' \in 0 .. Output
      BY <2>3, SizesAssumption DEF Write
    <3> QED BY <2>3, <3>1, <3>2 DEF Write
  <2>4. ASSUME NEW p \in Procs, ReadStdin(p)
        PROVE  TypeProcesses' /\ TypePipes' /\ ReapInv'
    <3>1. "in" \in Fds
      BY DEF Fds
    <3>2. Tail(pipe["in"]) \in Seq(Procs \cup {"parent"})
      BY <2>4, <3>1 DEF ReadStdin
    <3> QED BY <2>4, <3>2 DEF ReadStdin
  <2>5. ASSUME NEW p \in Procs, NEW f \in Fds, Close(p, f)
        PROVE  TypeProcesses' /\ TypePipes' /\ ReapInv'
    BY <2>5 DEF Close
  <2>6. ASSUME NEW p \in Procs, Handle(p)
        PROVE  TypeProcesses' /\ TypePipes' /\ ReapInv'
    BY <2>6 DEF Handle
  <2>7. ASSUME NEW p \in Procs, NEW how \in {"ok", "fail", "signal"}, End(p, how)
        PROVE  TypeProcesses' /\ TypePipes' /\ ReapInv'
    BY <2>7 DEF End, Running
  <2> QED BY <2>1, <2>2, <2>3, <2>4, <2>5, <2>6, <2>7
          DEF Command, Exit, DieOfSignal
<1>3. TypeOK'
  BY <1>1, <1>2 DEF TypeOK, TypeProcesses, TypePipes
<1>4. CapturedPrefix'
  BY <1>1 DEF CapturedPrefix
<1> QED BY <1>2, <1>3, <1>4

LEMMA TickStep == ExecInv /\ Tick => ExecInv'
<1> SUFFICES ASSUME ExecInv, Tick PROVE ExecInv'
  OBVIOUS
<1> USE DEF ExecInv, Tick, capture, processes
<1>1. /\ left' \in Nat \cup {Never} /\ termAge' \in 0 .. Grace + 1
      /\ waited' \in 0 .. Patience + 1
  BY TimesAssumption DEF Older, TypeOK
<1>2. TypeOK'
  BY <1>1 DEF TypeOK
<1>3. CapturedPrefix' /\ ReapInv'
  BY DEF ReapInv, CapturedPrefix
<1> QED BY <1>2, <1>3

LEMMA ExecNext == ExecInv /\ [Next]_vars => ExecInv'
<1> SUFFICES ASSUME ExecInv, [Next]_vars PROVE ExecInv'
  OBVIOUS
<1>1. CASE UNCHANGED vars
  <2>1. UNCHANGED <<pc, todo, open, got, truncated, lost, stdinLeft, sentTerm>>
    BY <1>1 DEF vars, capture
  <2>2. UNCHANGED <<left, termAge, waited, state, holds, grouped, status, unsent,
                    pending, pipe, pollFailed>>
    BY <1>1 DEF vars, timers, processes
  <2>3. TypeOK'
    BY <2>1, <2>2 DEF ExecInv, TypeOK
  <2>4. CapturedPrefix' /\ ReapInv'
    BY <2>1, <2>2 DEF ExecInv, CapturedPrefix, ReapInv
  <2> QED BY <2>3, <2>4 DEF ExecInv
<1>2. CASE Next
  BY <1>2, ParentStep, PollSteps, CommandStep, TickStep DEF Next
<1> QED BY <1>1, <1>2

-----------------------------------------------------------------------------
(* The invariant holds throughout every call of run_unchecked.              *)
THEOREM ExecInvariant == Spec => []ExecInv
BY ExecInit, ExecNext, PTL DEF Spec

(* The variables keep their types, for every cap, capacity and deadline: in *)
(* particular no more than max_output_bytes is ever kept of a stream.       *)
THEOREM ExecTypes == Spec => []TypeOK
<1>1. ExecInv => TypeOK
  BY DEF ExecInv
<1> QED BY <1>1, ExecInvariant, PTL

(* Whichever way run_unchecked returns, it has reaped the child, knows its  *)
(* status and has closed its ends of the pipes.                             *)
THEOREM AlwaysReaped == Spec => []ReapedOnReturn
<1>1. ExecInv => ReapedOnReturn
  BY DEF ExecInv, ReapInv, ReapedOnReturn
<1> QED BY <1>1, ExecInvariant, PTL

(* What is captured of a stream is a prefix of it, and truncation is only   *)
(* reported of one that lost a block.                                       *)
THEOREM AlwaysPrefix == Spec => []CapturedPrefix
<1>1. ExecInv => CapturedPrefix
  BY DEF ExecInv
<1> QED BY <1>1, ExecInvariant, PTL

(* kill_tree is never called once the child was reaped: the process id it   *)
(* would signal may be another process's.                                   *)
THEOREM NeverSignalsReaped == Spec => SignalsOnlyUnreaped
<1> DEFINE Sends == \E p \in Procs : pending[p] # pending'[p] /\ pending'[p] # "none"
<1>1. ExecInv /\ [Next]_vars => [Sends => state["child"] # "reaped"]_pending
  <2> SUFFICES ASSUME ExecInv, [Next]_vars, Sends
               PROVE  state["child"] # "reaped"
    OBVIOUS
  <2>1. PICK p \in Procs : pending[p] # pending'[p] /\ pending'[p] # "none"
    OBVIOUS
  <2>3. CASE CheckDeadline \/ WaitKills
    BY <2>3 DEF ExecInv, ReapInv, CheckDeadline, WaitKills
  <2>4. ASSUME NEW q \in Procs, Handle(q) \/ \E how \in {"ok", "fail", "signal"} : End(q, how)
        PROVE  FALSE
    BY <2>1, <2>4 DEF Handle, End, ExecInv, TypeOK
  <2>5. CASE UNCHANGED pending
    BY <2>1, <2>5
  <2> QED
    BY <2>3, <2>4, <2>5
    DEF Next, Parent, Command, LeaveLoop, PollReady, PollTimesOut, PollFails,
        ReapOrGoOn, ReadSome, ReadEnds, DrainSome, DrainEnds, WriteStdin,
        ReturnDrained, WaitReaps, CollectKilled, Fork, LeaveGroup, Write,
        ReadStdin, Close, Exit, DieOfSignal, Tick, vars
<1> QED BY <1>1, ExecInvariant, PTL DEF Spec, SignalsOnlyUnreaped

-----------------------------------------------------------------------------
(* Unless poll failed, a stream is only closed once it is empty, and stays  *)
(* empty; what is left to drain is still to be served.                      *)
DrainInv ==
  ~pollFailed =>
    /\ \A s \in Streams \ open : pipe[s] = <<>>
    /\ pc = "drain" => open \ {"in"} \subseteq todo
    /\ pc \in {"wait", "collect"} => open = {}

LEMMA DrainInit == Init => DrainInv
BY StreamsAreFds DEF Init, DrainInv

LEMMA TakeKeepsEmpty ==
  ASSUME TypeOK, NEW s \in Streams, NEW n, Take(s, n),
         NEW t \in Streams, pipe[t] = <<>>
  PROVE  pipe'[t] = <<>>
<1>1. CASE t = s
  BY <1>1 DEF Take
<1>2. CASE t # s
  BY <1>2, StreamsAreFds DEF Take, TypeOK
<1> QED BY <1>1, <1>2

LEMMA DrainNext == ExecInv /\ DrainInv /\ [Next]_vars => DrainInv'
<1> SUFFICES ASSUME ExecInv, DrainInv, [Next]_vars, ~pollFailed'
             PROVE  /\ \A s \in Streams \ open' : pipe'[s] = <<>>
                    /\ pc' = "drain" => open' \ {"in"} \subseteq todo'
                    /\ pc' \in {"wait", "collect"} => open' = {}
  BY DEF DrainInv
<1> DEFINE Goal == /\ \A s \in Streams \ open' : pipe'[s] = <<>>
                   /\ pc' = "drain" => open' \ {"in"} \subseteq todo'
                   /\ pc' \in {"wait", "collect"} => open' = {}
<1>1. TypeOK /\ ReapInv
  BY DEF ExecInv
<1>2. ~pollFailed
  BY DEF Next, Parent, Command, CheckDeadline, LeaveLoop, PollReady,
         PollTimesOut, PollFails, ReapOrGoOn, ReadSome, ReadEnds, DrainSome,
         DrainEnds, WriteStdin, ReturnDrained, WaitReaps, WaitKills,
         CollectKilled, Fork, LeaveGroup, Write, ReadStdin, Close, Handle, Exit,
         DieOfSignal, End, call, Tick, vars
<1> USE <1>2 DEF DrainInv
<1>3. CASE CheckDeadline \/ LeaveLoop \/ PollReady \/ PollTimesOut
  BY <1>3 DEF CheckDeadline, LeaveLoop, PollReady, PollTimesOut
<1>4. CASE ReapOrGoOn
  BY <1>4 DEF ReapOrGoOn, Reap, AfterReap, ToDrain
<1>5. ASSUME NEW s \in Streams, ReadSome(s) \/ DrainSome(s) PROVE Goal
  <2>1. PICK n \in 1 .. PipeCap : Take(s, n)
    BY <1>5 DEF ReadSome, DrainSome
  <2>2. \A t \in Streams \ open : pipe'[t] = <<>>
    BY <1>1, <2>1, TakeKeepsEmpty
  <2> QED BY <1>5, <2>2 DEF ReadSome, DrainSome
<1>6. ASSUME NEW s \in Streams, ReadEnds(s) \/ DrainEnds(s) PROVE Goal
  BY <1>6 DEF ReadEnds, DrainEnds, Served
<1>7. CASE WriteStdin
  <2>1. \A t \in Streams : pipe'[t] = pipe[t] /\ (t \in open => t \in open')
    BY <1>1, <1>7, StreamsAreFds DEF WriteStdin, AfterWriteError, TypeOK
  <2>2. pc' \in {"serve", "loop"}
    BY <1>7 DEF WriteStdin, Served
  <2> QED BY <2>1, <2>2
<1>8. CASE ReturnDrained
  BY <1>8, StreamsAreFds DEF ReturnDrained
<1>9. CASE WaitReaps \/ WaitKills \/ CollectKilled
  BY <1>9 DEF WaitReaps, WaitKills, CollectKilled, Reap, AfterKill
<1>10. CASE PollFails
  BY <1>10 DEF PollFails
<1>11. ASSUME Command PROVE Goal
  <2>1. UNCHANGED <<pc, todo, open>>
    BY <1>11 DEF Command, Fork, LeaveGroup, Write, ReadStdin, Close, Handle,
                 Exit, DieOfSignal, End, call
  <2>2. ASSUME NEW t \in Streams \ open PROVE pipe'[t] = pipe[t]
    <3>1. CASE UNCHANGED pipe
      BY <3>1
    <3>2. ASSUME NEW p \in Procs, NEW s \in Streams, Write(p, s)
          PROVE  pipe'[t] = pipe[t]
      BY <1>1, <2>2, <3>2, StreamsAreFds DEF Write, TypeOK
    <3>3. ASSUME NEW p \in Procs, ReadStdin(p)
          PROVE  pipe'[t] = pipe[t]
      BY <1>1, <2>2, <3>3, StreamsAreFds DEF ReadStdin, TypeOK
    <3> QED BY <1>11, <3>1, <3>2, <3>3
            DEF Command, Fork, LeaveGroup, Close, Handle, Exit, DieOfSignal, End
  <2> QED BY <2>1, <2>2
<1>12. CASE Tick
  BY <1>12 DEF Tick
<1>13. CASE UNCHANGED vars
  BY <1>13 DEF vars
<1> QED BY <1>3, <1>4, <1>5, <1>6, <1>7, <1>8, <1>9, <1>10, <1>11, <1>12, <1>13
        DEF Next, Parent

(* Unless poll failed, nothing the child wrote is left unread when          *)
(* run_unchecked returns, however late the child wrote it.                  *)
THEOREM AlwaysRead == Spec => []ChildOutputRead
<1>1. ExecInv /\ DrainInv => ChildOutputRead
  <2> SUFFICES ASSUME ExecInv, DrainInv, pc = "done", ~pollFailed,
                      NEW s \in Streams
               PROVE  pipe[s] = <<>>
    BY DEF ChildOutputRead
  <2> QED BY DEF ExecInv, ReapInv, DrainInv
<1> QED BY <1>1, ExecInvariant, DrainInit, DrainNext, PTL DEF Spec
=============================================================================
