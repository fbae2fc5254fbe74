---------------------------- MODULE AgentProofs ----------------------------
(***************************************************************************)
(* Theorems about the autonomy loop, for every brain (Replies), budget and *)
(* configuration; and about the loop with the brains it has, which         *)
(* implements it for every set of tasks and of local-model answers, so     *)
(* that what is proved of the loop holds of it.  The planner, which has no *)
(* memory but the transcript, does every stage of its plan once.           *)
(***************************************************************************)
EXTENDS Planner, FiniteSetTheorems, TLAPS

USE BudgetAssumption, RepliesAssumption, ConfigAssumption

-----------------------------------------------------------------------------
(* Lemmas about the operators of the loop.                                  *)

(* The window keeps the first message, returns messages only, and is at     *)
(* most one message longer than max_history_messages.                       *)
LEMMA WindowFacts ==
  ASSUME NEW S, NEW h \in Seq(S)
  PROVE  /\ Window(h) \in Seq(S)
         /\ Len(Window(h)) <= MaxHistory + 1
         /\ h # << >> => Window(h) # << >> /\ Window(h)[1] = h[1]
<1>1. CASE Len(h) > MaxHistory
  <2> DEFINE tail == SubSeq(h, Len(h) - MaxHistory + 1, Len(h))
  <2>1. h[1] \in S /\ <<h[1]>> \in Seq(S) /\ Len(<<h[1]>>) = 1
    BY <1>1
  <2>2. tail \in Seq(S) /\ Len(tail) = MaxHistory
    BY <1>1
  <2>3. Window(h) = <<h[1]>> \o tail
    BY <1>1 DEF Window
  <2>4. /\ <<h[1]>> \o tail \in Seq(S)
        /\ Len(<<h[1]>> \o tail) = 1 + MaxHistory
        /\ (<<h[1]>> \o tail)[1] = h[1]
    <3> HIDE DEF tail
    <3> QED BY <2>1, <2>2
  <2> QED BY <2>3, <2>4
<1>2. CASE ~(Len(h) > MaxHistory)
  BY <1>2 DEF Window
<1> QED BY <1>1, <1>2

(* Appending a step record keeps the list of steps well formed.             *)
LEMMA AppendStep ==
  ASSUME NEW steps \in Seq(StepRecord), NEW t \in Tools, NEW ok \in BOOLEAN,
         NEW v \in BOOLEAN
  PROVE  LET s == [tool |-> t, ok |-> ok, verification |-> v]
         IN  s \in StepRecord /\ Append(steps, s) \in Seq(StepRecord)
<1> DEFINE s == [tool |-> t, ok |-> ok, verification |-> v]
<1>1. s \in StepRecord
  BY DEF StepRecord
<1> HIDE DEF s
<1>2. Append(steps, s) \in Seq(StepRecord)
  BY <1>1
<1> QED BY <1>1, <1>2 DEF s

(* The report stays a report through a verification.                        *)
LEMMA VerificationReport ==
  ASSUME NEW r \in Report, NEW v \in VerifyOutcomes
  PROVE  AfterVerification(r, v) \in Report
<1>1. CASE v = "skipped"
  BY <1>1 DEF AfterVerification
<1>2. CASE v = "error"
  BY <1>2 DEF AfterVerification, Report
<1>3. CASE v \notin {"skipped", "error"}
  <2> DEFINE s == Append(r.steps, [tool |-> "run_command", ok |-> v = "passed",
                                   verification |-> TRUE])
  <2>1. s \in Seq(StepRecord)
    <3>1. r.steps \in Seq(StepRecord) /\ "run_command" \in Tools
      BY DEF Report, Tools
    <3> QED BY <3>1, AppendStep
  <2> DEFINE passed == v = "passed"
             count  == IF v = "failed" THEN r.failures + 1 ELSE r.failures
             calls  == r.toolCalls + 1
             cmds   == r.commands + 1
             r1     == [r EXCEPT !.failures = count, !.toolCalls = calls,
                                 !.commands = cmds]
             r2     == [r1 EXCEPT !.steps = s]
             r3     == [r2 EXCEPT !.verifyOutput = TRUE, !.verified = passed]
  <2>2. AfterVerification(r, v) = r3
    BY <1>3 DEF AfterVerification, Report
  <2>3. passed \in BOOLEAN /\ count \in Nat /\ calls \in Nat /\ cmds \in Nat
    BY DEF Report
  <2> HIDE DEF s, passed, count, calls, cmds
  <2>4. r1 \in Report
    BY <2>3 DEF Report
  <2> HIDE DEF r1
  <2>5. r2 \in Report
    BY <2>1, <2>4 DEF Report
  <2> HIDE DEF r2
  <2>6. r3 \in Report
    BY <2>3, <2>5 DEF Report
  <2> QED BY <2>2, <2>6
<1> QED BY <1>1, <1>2, <1>3

(* The calls of a reply are calls of known tools.                           *)
LEMMA ReplyCalls ==
  ASSUME NEW r \in Replies
  PROVE  /\ r.calls \in Seq(Call)
         /\ r.text \in BOOLEAN
         /\ \A i \in DOMAIN r.calls : r.calls[i] \in Call /\ r.calls[i].tool \in Tools
<1>1. r.calls \in Seq(Call) /\ r.text \in BOOLEAN
  BY DEF Reply
<1>2. \A i \in DOMAIN r.calls : r.calls[i] \in Call
  BY <1>1
<1>3. \A c \in Call : c.tool \in Tools
  BY DEF Call
<1> QED BY <1>1, <1>2, <1>3

-----------------------------------------------------------------------------
(* Type correctness.                                                        *)
LEMMA EmptyReportType == EmptyReport \in Report
BY DEF EmptyReport, Report, Summaries

LEMMA InitTypeOK == Init => TypeOK
<1> SUFFICES ASSUME Init PROVE TypeOK
  OBVIOUS
<1>1. ControlOK
  BY DEF Init, ControlOK, PC
<1>2. GuardOK /\ FilesOK
  BY DEF Init, GuardOK, FilesOK
<1>3. FlagsOK
  BY DEF Init, FlagsOK
<1>4. history \in Seq(Message) /\ report \in Report
  BY EmptyReportType DEF Init
<1> QED BY <1>1, <1>2, <1>3, <1>4 DEF TypeOK

(* The control of the loop: where it stands, step, reply and call index.    *)
LEMMA ControlStep == TypeOK /\ [Next]_vars => ControlOK'
<1> SUFFICES ASSUME TypeOK, [Next]_vars PROVE ControlOK'
  OBVIOUS
<1>0. ControlOK
  BY DEF TypeOK
<1> USE <1>0 DEF ControlOK, PC, control
<1>1. CASE StartTask
  BY <1>1 DEF StartTask
<1>2. CASE StepLimit \/ BrainFails \/ Conclude \/ StopRepeating
  BY <1>2 DEF StepLimit, BrainFails, Conclude, StopRepeating
<1>3. ASSUME NEW r \in Replies, BrainReplies(r) PROVE ControlOK'
  BY <1>3, ReplyCalls DEF BrainReplies
<1>4. ASSUME NEW o \in Outcome, ExecuteCall(o) PROVE ControlOK'
  <2>1. reply \in Replies /\ reply.calls \in Seq(Call)
    BY <1>4, ReplyCalls DEF ExecuteCall
  <2> QED BY <1>4, <2>1 DEF ExecuteCall
<1>5. CASE CloseStep
  BY <1>5 DEF CloseStep, NextStep
<1>6. ASSUME NEW v \in VerifyOutcomes, CloseStepVerifying(v) \/ FinishVerifying(v)
      PROVE  ControlOK'
  BY <1>6 DEF CloseStepVerifying, FinishVerifying, NextStep
<1>7. CASE UNCHANGED vars
  BY <1>7 DEF vars
<1> QED BY <1>1, <1>2, <1>3, <1>4, <1>5, <1>6, <1>7 DEF Next, Loop, Body

(* The repetition counter: it reaches three only when the loop stops.       *)
LEMMA GuardStep == TypeOK /\ [Next]_vars => GuardOK'
<1> SUFFICES ASSUME TypeOK, [Next]_vars PROVE GuardOK'
  OBVIOUS
<1>0. GuardOK /\ ControlOK
  BY DEF TypeOK
<1>1. ASSUME pc = "close", CountRepeats
      PROVE  /\ \E c \in Call : lastTool' = <<c>>
             /\ repeats' = Repeats /\ repeats' \in 0 .. 3
  <2>1. reply \in Replies /\ reply.calls[1] \in Call
    BY <1>0, <1>1, ReplyCalls DEF ControlOK
  <2>2. repeats \in 0 .. 2
    BY <1>0, <1>1 DEF GuardOK
  <2> QED BY <1>1, <2>1, <2>2 DEF CountRepeats, Repeats
<1>2. CASE StartTask
  BY <1>2 DEF StartTask, GuardOK
<1>3. CASE guard' = guard /\ pc \notin {"epilogue", "done"}
  BY <1>0, <1>3 DEF guard, GuardOK, ControlOK, PC
<1>4. CASE StepLimit \/ BrainFails \/ Conclude
  BY <1>0, <1>4 DEF StepLimit, BrainFails, Conclude, guard, GuardOK
<1>5. CASE StopRepeating
  BY <1>1, <1>5 DEF StopRepeating, GuardOK
<1>6. CASE CloseStep
  BY <1>1, <1>6 DEF CloseStep, GuardOK
<1>7. ASSUME NEW v \in VerifyOutcomes, CloseStepVerifying(v) \/ FinishVerifying(v)
      PROVE  GuardOK'
  BY <1>1, <1>7 DEF CloseStepVerifying, FinishVerifying, GuardOK
<1>8. ASSUME NEW r \in Replies, BrainReplies(r) PROVE GuardOK'
  BY <1>3, <1>8 DEF BrainReplies
<1>9. ASSUME NEW o \in Outcome, ExecuteCall(o) PROVE GuardOK'
  BY <1>3, <1>9 DEF ExecuteCall
<1>10. CASE UNCHANGED vars
  BY <1>0, <1>10 DEF vars, guard, GuardOK
<1> QED BY <1>2, <1>4, <1>5, <1>6, <1>7, <1>8, <1>9, <1>10 DEF Next, Loop, Body

(* The flags and the files.                                                 *)
LEMMA FlagsStep == TypeOK /\ [Next]_vars => FlagsOK'
<1> SUFFICES ASSUME TypeOK, [Next]_vars PROVE FlagsOK'
  OBVIOUS
<1> USE DEF FlagsOK, flags
<1>0. FlagsOK
  BY DEF TypeOK
<1>1. CASE StartTask
  BY <1>1 DEF StartTask
<1>2. CASE StepLimit \/ BrainFails \/ StopRepeating \/ CloseStep \/ Conclude
  BY <1>0, <1>2 DEF StepLimit, BrainFails, StopRepeating, CloseStep, Conclude
<1>3. ASSUME NEW r \in Replies, BrainReplies(r) PROVE FlagsOK'
  BY <1>0, <1>3 DEF BrainReplies
<1>4. ASSUME NEW o \in Outcome, ExecuteCall(o) PROVE FlagsOK'
  BY <1>0, <1>4, Zenon DEF ExecuteCall
<1>5. ASSUME NEW v \in VerifyOutcomes, CloseStepVerifying(v) \/ FinishVerifying(v)
      PROVE  FlagsOK'
  BY <1>0, <1>5 DEF CloseStepVerifying, FinishVerifying, Verify
<1>6. CASE UNCHANGED vars
  BY <1>0, <1>6 DEF vars
<1> QED BY <1>1, <1>2, <1>3, <1>4, <1>5, <1>6 DEF Next, Loop, Body

LEMMA FilesStep == TypeOK /\ [Next]_vars => FilesOK'
<1> SUFFICES ASSUME TypeOK, [Next]_vars PROVE FilesOK'
  OBVIOUS
<1> USE DEF FilesOK, ghosts
<1>0. FilesOK
  BY DEF TypeOK
<1>1. CASE StartTask
  BY <1>0, <1>1 DEF StartTask
<1>2. CASE StepLimit \/ BrainFails \/ StopRepeating \/ CloseStep \/ Conclude
  BY <1>0, <1>2 DEF StepLimit, BrainFails, StopRepeating, CloseStep, Conclude
<1>3. ASSUME NEW r \in Replies, BrainReplies(r) PROVE FilesOK'
  BY <1>0, <1>3 DEF BrainReplies
<1>4. ASSUME NEW o \in Outcome, ExecuteCall(o) PROVE FilesOK'
  BY <1>0, <1>4 DEF ExecuteCall, Outcome, Pushed
<1>5. ASSUME NEW v \in VerifyOutcomes, CloseStepVerifying(v) \/ FinishVerifying(v)
      PROVE  FilesOK'
  BY <1>0, <1>5 DEF CloseStepVerifying, FinishVerifying, Verify
<1>6. CASE UNCHANGED vars
  BY <1>0, <1>6 DEF vars
<1> QED BY <1>1, <1>2, <1>3, <1>4, <1>5, <1>6 DEF Next, Loop, Body

(* The transcript: messages only.                                           *)
LEMMA HistoryStep == TypeOK /\ [Next]_vars => history' \in Seq(Message)
<1> SUFFICES ASSUME TypeOK, [Next]_vars PROVE history' \in Seq(Message)
  OBVIOUS
<1>0. history \in Seq(Message) /\ ControlOK
  BY DEF TypeOK
<1>a. /\ TaskMsg \in Message /\ AssistantMsg \in Message
      /\ \A t \in Tools \cup {"verify"}, ok \in BOOLEAN : ToolMsg(t, ok) \in Message
  BY DEF Message, TaskMsg, AssistantMsg, ToolMsg
<1>b. Window(history) \in Seq(Message)
  BY <1>0, WindowFacts
<1>1. CASE StartTask
  BY <1>a, <1>1 DEF StartTask
<1>2. CASE StepLimit \/ BrainFails \/ StopRepeating \/ Conclude
  BY <1>0, <1>2 DEF StepLimit, BrainFails, StopRepeating, Conclude
<1>3. ASSUME NEW r \in Replies, BrainReplies(r) PROVE history' \in Seq(Message)
  BY <1>0, <1>a, <1>3 DEF BrainReplies
<1>4. ASSUME NEW o \in Outcome, ExecuteCall(o) PROVE history' \in Seq(Message)
  <2>1. reply.calls[next].tool \in Tools
    BY <1>0, <1>4, ReplyCalls DEF ControlOK, ExecuteCall
  <2>2. ToolMsg(reply.calls[next].tool, o.res = "ok") \in Message
    BY <1>a, <2>1
  <2> QED BY <1>0, <1>4, <2>2 DEF ExecuteCall
<1>5. CASE CloseStep
  BY <1>b, <1>5 DEF CloseStep
<1>6. ASSUME NEW v \in VerifyOutcomes, CloseStepVerifying(v)
      PROVE  history' \in Seq(Message)
  <2>1. report'.verified \in BOOLEAN
    <3>1. report' \in Report
      BY <1>6, VerificationReport DEF TypeOK, CloseStepVerifying, Verify
    <3> QED BY <3>1 DEF Report
  <2>2. ToolMsg("verify", report'.verified) \in Message
    BY <1>a, <2>1
  <2> QED BY <1>b, <1>6, <2>2 DEF CloseStepVerifying
<1>7. ASSUME NEW v \in VerifyOutcomes, FinishVerifying(v)
      PROVE  history' \in Seq(Message)
  BY <1>b, <1>7 DEF FinishVerifying
<1>8. CASE UNCHANGED vars
  BY <1>0, <1>8 DEF vars
<1> QED BY <1>1, <1>2, <1>3, <1>4, <1>5, <1>6, <1>7, <1>8 DEF Next, Loop, Body

(* The report after a call.                                                 *)
LEMMA CallReport ==
  ASSUME TypeOK, NEW o \in Outcome, ExecuteCall(o)
  PROVE  LET call == reply.calls[next]
             s == [tool |-> call.tool, ok |-> o.res = "ok", verification |-> FALSE]
         IN  /\ call.tool \in Tools
             /\ s \in StepRecord
             /\ report' \in Report
             /\ report'.steps = Append(report.steps, s)
             /\ report'.verified = report.verified
             /\ report'.summary = report.summary
             /\ report'.finished = (report.finished \/ call.tool = "finish")
<1> DEFINE call == reply.calls[next]
           s == [tool |-> call.tool, ok |-> o.res = "ok", verification |-> FALSE]
           steps == Append(report.steps, s)
           calls == report.toolCalls + 1
           fails == IF o.res = "error" THEN report.failures + 1 ELSE report.failures
           cmds  == IF call.tool = "run_command" THEN report.commands + 1
                                                 ELSE report.commands
           fin   == report.finished \/ call.tool = "finish"
           r1    == [report EXCEPT !.toolCalls = calls, !.steps = steps,
                                   !.failures = fails, !.commands = cmds,
                                   !.finished = fin]
<1>1. call.tool \in Tools
  BY ReplyCalls DEF TypeOK, ControlOK, ExecuteCall
<1>2. report \in Report /\ report.steps \in Seq(StepRecord)
  BY DEF TypeOK, Report
<1>3. s \in StepRecord /\ steps \in Seq(StepRecord)
  BY <1>1, <1>2, AppendStep
<1>4. calls \in Nat /\ fails \in Nat /\ cmds \in Nat /\ fin \in BOOLEAN
  BY <1>2 DEF Report
<1>5. report' = r1
  BY DEF ExecuteCall
<1> HIDE DEF s, steps, calls, fails, cmds, fin
<1>6. r1 \in Report
  BY <1>2, <1>3, <1>4 DEF Report
<1>7. /\ r1.steps = steps /\ r1.verified = report.verified
      /\ r1.summary = report.summary /\ r1.finished = fin
  BY <1>2 DEF Report
<1> QED BY <1>1, <1>3, <1>5, <1>6, <1>7 DEF s, steps, fin

LEMMA ReportStep == TypeOK /\ [Next]_vars => report' \in Report
<1> SUFFICES ASSUME TypeOK, [Next]_vars PROVE report' \in Report
  OBVIOUS
<1>0. report \in Report /\ FilesOK
  BY DEF TypeOK
<1>1. CASE StartTask
  BY <1>1, EmptyReportType DEF StartTask
<1>2. CASE StepLimit \/ CloseStep \/ UNCHANGED vars
  BY <1>0, <1>2 DEF StepLimit, CloseStep, vars
<1>3. CASE BrainFails \/ StopRepeating
  BY <1>0, <1>3 DEF BrainFails, StopRepeating, Report, Summaries
<1>4. ASSUME NEW r \in Replies, BrainReplies(r) PROVE report' \in Report
  BY <1>0, <1>4 DEF BrainReplies, Report
<1>5. ASSUME NEW o \in Outcome, ExecuteCall(o) PROVE report' \in Report
  BY <1>5, CallReport
<1>6. ASSUME NEW v \in VerifyOutcomes, CloseStepVerifying(v) \/ FinishVerifying(v)
      PROVE  report' \in Report
  BY <1>0, <1>6, VerificationReport DEF CloseStepVerifying, FinishVerifying, Verify
<1>7. CASE Conclude
  <2> DEFINE ok      == Succeeded(report)
             summary == IF report.summary # "none" THEN report.summary
                        ELSE IF ~report.finished THEN "step limit"
                        ELSE IF Succeeded(report) THEN "completed" ELSE "failed steps"
             note    == changedPaths # {} /\ ~report.verifyOutput
  <2>1. report' = [report EXCEPT !.ok = ok, !.summary = summary,
                                 !.changed = changedPaths, !.noCommandNote = note]
    BY <1>7 DEF Conclude
  <2>2. ok \in BOOLEAN /\ note \in BOOLEAN
    BY <1>0 DEF Succeeded, Report
  <2>3. summary \in Summaries
    BY <1>0 DEF Report, Summaries
  <2> HIDE DEF ok, summary, note
  <2> QED BY <1>0, <2>1, <2>2, <2>3 DEF Report, FilesOK
<1> QED BY <1>1, <1>2, <1>3, <1>4, <1>5, <1>6, <1>7 DEF Next, Loop, Body

(* Type correctness, in particular: no brain makes the loop exceed          *)
(* max_steps, index past the reply, or count past three repetitions.        *)
THEOREM TypeCorrect == Spec => []TypeOK
<1>1. TypeOK /\ [Next]_vars => TypeOK'
  BY ControlStep, GuardStep, FlagsStep, FilesStep, HistoryStep, ReportStep DEF TypeOK
<1> QED BY <1>1, InitTypeOK, PTL DEF Spec

-----------------------------------------------------------------------------
(* The record of the task.  VerifiedAtMostOnce alone is not inductive: that *)
(* no second verification follows the first rests on the flag, and that an  *)
(* edit precedes it on what the flag `edited' remembers.                    *)
EditRecorded == \E j \in DOMAIN report.steps : /\ report.steps[j].ok
                                               /\ report.steps[j].tool \in EditTools
PassRecorded == \E i \in VerificationSteps : report.steps[i].ok
RecordInv ==
  /\ VerifiedAtMostOnce
  /\ VerificationSteps # {} => verifiedOnce
  /\ edited => EditRecorded
  /\ report.verified => PassRecorded

(* Steps that leave the report's record and the flags alone.                *)
LEMMA RecordUnchanged ==
  ASSUME RecordInv, report'.steps = report.steps, report'.verified = report.verified,
         edited' = edited, verifiedOnce' = verifiedOnce
  PROVE  RecordInv'
BY DEF RecordInv, VerifiedAtMostOnce, VerificationSteps, EditRecorded, PassRecorded

(* A call appends a step without the verification mark.                     *)
LEMMA RecordCall ==
  ASSUME TypeOK, RecordInv, NEW o \in Outcome, ExecuteCall(o)
  PROVE  RecordInv'
<1> DEFINE call == reply.calls[next]
           s == [tool |-> call.tool, ok |-> o.res = "ok", verification |-> FALSE]
           n == Len(report.steps)
<1>1. /\ s \in StepRecord /\ report'.steps = Append(report.steps, s)
      /\ report'.verified = report.verified /\ call.tool \in Tools
  BY CallReport
<1>2. report.steps \in Seq(StepRecord) /\ n \in Nat
  BY DEF TypeOK, Report
<1>3. /\ s.verification = FALSE /\ s.tool = call.tool
      /\ s.ok = (o.res = "ok")
  OBVIOUS
<1>a. edited' = (edited \/ (o.res = "ok" /\ call.tool \in EditTools))
      /\ verifiedOnce' = verifiedOnce
  BY DEF ExecuteCall
<1> HIDE DEF s
<1>4. /\ DOMAIN report'.steps = 1 .. n + 1 /\ DOMAIN report.steps = 1 .. n
      /\ \A i \in 1 .. n : report'.steps[i] = report.steps[i]
      /\ report'.steps[n + 1] = s
  BY <1>1, <1>2
<1>5. VerificationSteps' = VerificationSteps
  BY <1>2, <1>3, <1>4 DEF VerificationSteps
<1>6. VerifiedAtMostOnce'
  <2> SUFFICES ASSUME NEW i \in VerificationSteps
               PROVE  /\ \A j \in VerificationSteps : j = i
                      /\ \E j \in 1 .. i - 1 : /\ report'.steps[j].ok
                                               /\ report'.steps[j].tool \in EditTools
    BY <1>5 DEF VerifiedAtMostOnce
  <2>1. PICK j \in 1 .. i - 1 : report.steps[j].ok /\ report.steps[j].tool \in EditTools
    BY DEF RecordInv, VerifiedAtMostOnce
  <2>2. i \in 1 .. n /\ j \in 1 .. n
    BY <1>2, <1>4 DEF VerificationSteps
  <2>3. report'.steps[j] = report.steps[j]
    BY <1>4, <2>2
  <2> QED BY <2>1, <2>3 DEF RecordInv, VerifiedAtMostOnce
<1>7. edited' => EditRecorded'
  <2>1. CASE edited
    BY <1>2, <1>4, <2>1 DEF RecordInv, EditRecorded
  <2>2. CASE o.res = "ok" /\ call.tool \in EditTools
    <3>1. s.ok /\ s.tool \in EditTools
      BY <1>3, <2>2
    <3>2. n + 1 \in DOMAIN report'.steps
      BY <1>2, <1>4
    <3> QED BY <1>4, <3>1, <3>2 DEF EditRecorded
  <2> QED BY <1>a, <2>1, <2>2
<1>8. report'.verified => PassRecorded'
  BY <1>1, <1>2, <1>4, <1>5 DEF RecordInv, PassRecorded, VerificationSteps
<1> QED BY <1>a, <1>5, <1>6, <1>7, <1>8 DEF RecordInv

(* A verification appends the only step with the mark, after an edit.       *)
LEMMA RecordVerify ==
  ASSUME TypeOK, RecordInv, NEW v \in VerifyOutcomes, Verify(v),
         edited, ~verifiedOnce
  PROVE  RecordInv'
<1> DEFINE s == [tool |-> "run_command", ok |-> v = "passed", verification |-> TRUE]
           n == Len(report.steps)
<1>1. report.steps \in Seq(StepRecord) /\ n \in Nat
  BY DEF TypeOK, Report
<1>2. VerificationSteps = {} /\ EditRecorded
  BY DEF RecordInv
<1>3. verifiedOnce' /\ edited' = edited /\ report' = AfterVerification(report, v)
  BY DEF Verify
<1>4. CASE v \in {"skipped", "error"}
  <2>1. report'.steps = report.steps /\ report'.verified = report.verified
    BY <1>3, <1>4 DEF AfterVerification, TypeOK, Report
  <2> QED BY <1>2, <1>3, <2>1
          DEF RecordInv, VerifiedAtMostOnce, VerificationSteps, EditRecorded, PassRecorded
<1>5. CASE v \notin {"skipped", "error"}
  <2>1. /\ report'.steps = Append(report.steps, s)
        /\ report'.verified = (v = "passed")
    BY <1>3, <1>5 DEF AfterVerification, TypeOK, Report
  <2>2. /\ s.verification = TRUE /\ s.ok = (v = "passed")
        /\ s \in StepRecord
    BY DEF StepRecord, Tools
  <2> HIDE DEF s
  <2>3. /\ DOMAIN report'.steps = 1 .. n + 1 /\ DOMAIN report.steps = 1 .. n
        /\ \A i \in 1 .. n : report'.steps[i] = report.steps[i]
        /\ report'.steps[n + 1] = s
    BY <1>1, <2>1, <2>2
  <2>4. VerificationSteps' = {n + 1}
    BY <1>1, <1>2, <2>2, <2>3 DEF VerificationSteps
  <2>5. VerifiedAtMostOnce' /\ EditRecorded'
    <3>1. PICK j \in 1 .. n : report.steps[j].ok /\ report.steps[j].tool \in EditTools
      BY <1>2, <2>3 DEF EditRecorded
    <3>2. /\ j \in 1 .. (n + 1) - 1 /\ j \in DOMAIN report'.steps
          /\ report'.steps[j].ok /\ report'.steps[j].tool \in EditTools
      BY <1>1, <2>3, <3>1
    <3> QED BY <2>4, <3>2 DEF VerifiedAtMostOnce, EditRecorded
  <2>6. report'.verified => PassRecorded'
    BY <2>1, <2>2, <2>3, <2>4 DEF PassRecorded
  <2> QED BY <1>3, <2>5, <2>6 DEF RecordInv
<1> QED BY <1>4, <1>5

LEMMA RecordStep == TypeOK /\ RecordInv /\ [Next]_vars => RecordInv'
<1> SUFFICES ASSUME TypeOK, RecordInv, [Next]_vars PROVE RecordInv'
  OBVIOUS
<1>0. report \in Report
  BY DEF TypeOK
<1>1. CASE StartTask
  BY <1>1 DEF StartTask, EmptyReport, RecordInv, VerifiedAtMostOnce, VerificationSteps
<1>2. CASE StepLimit \/ CloseStep \/ UNCHANGED vars
  BY <1>2, RecordUnchanged DEF StepLimit, CloseStep, vars, flags
<1>3. CASE BrainFails \/ StopRepeating \/ Conclude
  BY <1>0, <1>3, RecordUnchanged DEF BrainFails, StopRepeating, Conclude, flags, Report
<1>4. ASSUME NEW r \in Replies, BrainReplies(r) PROVE RecordInv'
  BY <1>0, <1>4, RecordUnchanged DEF BrainReplies, Report
<1>5. ASSUME NEW o \in Outcome, ExecuteCall(o) PROVE RecordInv'
  BY <1>5, RecordCall
<1>6. ASSUME NEW v \in VerifyOutcomes, CloseStepVerifying(v) \/ FinishVerifying(v)
      PROVE  RecordInv'
  BY <1>6, RecordVerify
     DEF CloseStepVerifying, FinishVerifying, AutoVerifyDue, FinalVerifyDue
<1> QED BY <1>1, <1>2, <1>3, <1>4, <1>5, <1>6 DEF Next, Loop, Body

LEMMA RecordAlways == Spec => []RecordInv
<1>1. Init => RecordInv
  BY DEF Init, EmptyReport, RecordInv, VerifiedAtMostOnce, VerificationSteps
<1> QED BY <1>1, RecordStep, TypeCorrect, PTL DEF Spec

(* A task is verified at most once and only after one of its edits, for     *)
(* every brain.                                                             *)
THEOREM VerifiedAtMostOnceAlways == Spec => []VerifiedAtMostOnce
BY RecordAlways, PTL DEF RecordInv

-----------------------------------------------------------------------------
(* The verdict.  What the flags say at each point of the loop.              *)
VerdictInv ==
  /\ pc \in {"brain", "call", "close"} => report.summary = "none"
  /\ pc = "brain" => ~report.finished /\ ~sawFinish
  /\ pc \in {"call", "close"} => (report.finished <=> sawFinish)
  /\ pc = "epilogue" =>
       /\ report.summary \in {"none", "brain error", "repeated"}
       /\ report.summary = "brain error" => ~report.finished
  /\ (pc \in {"epilogue", "done"} /\ AutoVerify /\ sawFinish /\ edited
        /\ report.summary # "repeated") => verifiedOnce
  /\ (pc = "done" /\ report.ok) =>
       /\ report.summary \in {"completed", "repeated"}
       /\ report.failures = 0 \/ report.verified

LEMMA VerdictStep == TypeOK /\ VerdictInv /\ [Next]_vars => VerdictInv'
<1> SUFFICES ASSUME TypeOK, VerdictInv, [Next]_vars PROVE VerdictInv'
  OBVIOUS
<1>0. report \in Report /\ FlagsOK /\ ControlOK
  BY DEF TypeOK
<1> USE DEF VerdictInv, flags
<1>1. CASE StartTask
  BY <1>1 DEF StartTask, EmptyReport
<1>2. CASE StepLimit
  BY <1>2 DEF StepLimit
<1>3. CASE BrainFails
  BY <1>0, <1>3 DEF BrainFails, Report
<1>4. ASSUME NEW r \in Replies, BrainReplies(r) PROVE VerdictInv'
  BY <1>0, <1>4 DEF BrainReplies, Report
<1>5. ASSUME NEW o \in Outcome, ExecuteCall(o) PROVE VerdictInv'
  <2>1. pc' \in {"call", "close"} /\ report'.summary = report.summary /\ pc = "call"
    BY <1>5, CallReport DEF ExecuteCall
  <2>2. report'.finished <=> sawFinish'
    BY <1>5, <2>1, CallReport DEF ExecuteCall
  <2> QED BY <2>1, <2>2
<1>6. CASE StopRepeating
  BY <1>0, <1>6 DEF StopRepeating, Report
<1>7. CASE CloseStep
  <2>1. sawFinish' = sawFinish /\ edited' = edited /\ verifiedOnce' = verifiedOnce
    BY <1>7 DEF CloseStep
  <2>2. ~(AutoVerify /\ sawFinish /\ edited) \/ verifiedOnce
    BY <1>7 DEF CloseStep, AutoVerifyDue, FinalVerifyDue
  <2>3. UNCHANGED report /\ pc = "close"
        /\ pc' = IF sawFinish THEN "epilogue" ELSE "brain"
    BY <1>7 DEF CloseStep, NextStep
  <2> QED BY <1>0, <2>1, <2>2, <2>3 DEF FlagsOK
<1>8. ASSUME NEW v \in VerifyOutcomes, CloseStepVerifying(v) \/ FinishVerifying(v)
      PROVE  VerdictInv'
  <2>1. report'.summary = report.summary /\ report'.finished = report.finished
        /\ verifiedOnce' /\ sawFinish' = sawFinish
    BY <1>0, <1>8
       DEF CloseStepVerifying, FinishVerifying, Verify, AfterVerification, Report
  <2>2. pc = "close" /\ pc' = IF sawFinish THEN "epilogue" ELSE "brain"
    BY <1>8 DEF CloseStepVerifying, FinishVerifying, NextStep
  <2> QED BY <1>0, <2>1, <2>2 DEF FlagsOK
<1>9. CASE Conclude
  BY <1>0, <1>9 DEF Conclude, Succeeded, Report
<1>10. CASE UNCHANGED vars
  BY <1>10 DEF vars
<1> QED BY <1>1, <1>2, <1>3, <1>4, <1>5, <1>6, <1>7, <1>8, <1>9, <1>10 DEF Next, Loop, Body

LEMMA VerdictAlways == Spec => []VerdictInv
<1>1. Init => VerdictInv
  BY DEF Init, VerdictInv, EmptyReport
<1> QED BY <1>1, VerdictStep, TypeCorrect, PTL DEF Spec

(* A finishing task that edited is verified, unless cut by the guard.       *)
THEOREM FinishVerifiesAlways == Spec => []FinishVerifies
<1>1. VerdictInv => FinishVerifies
  BY DEF VerdictInv, FinishVerifies
<1> QED BY <1>1, VerdictAlways, PTL

(* A successful verdict after a failed call rests on a verification step    *)
(* that passed.                                                             *)
THEOREM VerdictJustifiedAlways == Spec => []VerdictJustified
<1>1. TypeOK /\ RecordInv /\ VerdictInv => VerdictJustified
  BY DEF TypeOK, Report, RecordInv, PassRecorded, VerdictInv, VerdictJustified
<1> QED BY <1>1, TypeCorrect, RecordAlways, VerdictAlways, PTL

-----------------------------------------------------------------------------
(* The transcript.                                                          *)
HistoryInv ==
  /\ pc # "idle" => history # << >> /\ history[1] = TaskMsg
  /\ \A i \in 2 .. Len(history) : history[i] # TaskMsg
  /\ pc = "brain" => Len(history) <= MaxHistory + 2

(* The window of a transcript is one, and what is appended is not a task.   *)
LEMMA WindowKeepsTask ==
  ASSUME NEW h \in Seq(Message), \A i \in 2 .. Len(h) : h[i] # TaskMsg
  PROVE  \A i \in 2 .. Len(Window(h)) : Window(h)[i] # TaskMsg
<1>1. CASE Len(h) > MaxHistory
  <2> DEFINE k    == Len(h) - MaxHistory
             tail == SubSeq(h, k + 1, Len(h))
  <2>1. /\ Len(tail) = MaxHistory /\ tail \in Seq(Message)
        /\ \A i \in 1 .. MaxHistory : tail[i] = h[k + i]
    BY <1>1
  <2>2. Window(h) = <<h[1]>> \o tail /\ h[1] \in Message
    BY <1>1 DEF Window
  <2>3. k \in Nat \ {0} /\ k + MaxHistory = Len(h)
    BY <1>1
  <2> HIDE DEF tail, k
  <2>4. \A i \in 2 .. MaxHistory + 1 : (<<h[1]>> \o tail)[i] = h[k + i - 1]
    BY <2>1, <2>2, <2>3
  <2>5. Len(<<h[1]>> \o tail) = MaxHistory + 1
    BY <2>1, <2>2
  <2> QED BY <2>2, <2>3, <2>4, <2>5
<1>2. CASE ~(Len(h) > MaxHistory)
  BY <1>2 DEF Window
<1> QED BY <1>1, <1>2

LEMMA AppendNotTask ==
  ASSUME NEW h \in Seq(Message), NEW m \in Message, m # TaskMsg,
         \A i \in 2 .. Len(h) : h[i] # TaskMsg
  PROVE  /\ \A i \in 2 .. Len(Append(h, m)) : Append(h, m)[i] # TaskMsg
         /\ Append(h, m) # << >>
         /\ h # << >> => Append(h, m)[1] = h[1]
         /\ Len(Append(h, m)) = Len(h) + 1
<1>1. /\ Len(Append(h, m)) = Len(h) + 1 /\ Len(h) \in Nat
      /\ \A i \in 1 .. Len(h) : Append(h, m)[i] = h[i]
      /\ Append(h, m)[Len(h) + 1] = m
  OBVIOUS
<1>2. h # << >> => Len(h) >= 1
  OBVIOUS
<1>3. Append(h, m) # << >>
  BY <1>1
<1> QED BY <1>1, <1>2, <1>3

LEMMA TranscriptStep == TypeOK /\ HistoryInv /\ [Next]_vars => HistoryInv'
<1> SUFFICES ASSUME TypeOK, HistoryInv, [Next]_vars PROVE HistoryInv'
  OBVIOUS
<1> USE DEF HistoryInv
<1>0. history \in Seq(Message) /\ ControlOK
  BY DEF TypeOK
<1>a. /\ AssistantMsg \in Message /\ AssistantMsg # TaskMsg
      /\ \A t \in Tools \cup {"verify"}, ok \in BOOLEAN :
            ToolMsg(t, ok) \in Message /\ ToolMsg(t, ok) # TaskMsg
  BY DEF Message, TaskMsg, AssistantMsg, ToolMsg
<1>b. ASSUME pc = "close"
      PROVE  /\ Window(history) \in Seq(Message) /\ Window(history) # << >>
             /\ Window(history)[1] = TaskMsg /\ Len(Window(history)) <= MaxHistory + 1
             /\ \A i \in 2 .. Len(Window(history)) : Window(history)[i] # TaskMsg
  BY <1>0, <1>b, WindowFacts, WindowKeepsTask
<1>1. CASE StartTask
  BY <1>1 DEF StartTask
<1>2. CASE StepLimit \/ BrainFails \/ StopRepeating \/ Conclude
  BY <1>0, <1>2 DEF StepLimit, BrainFails, StopRepeating, Conclude
<1>3. ASSUME NEW r \in Replies, BrainReplies(r) PROVE HistoryInv'
  <2>1. pc = "brain" /\ pc' \in {"call", "epilogue"}
        /\ history' \in {history, Append(history, AssistantMsg)}
    BY <1>3 DEF BrainReplies
  <2> QED BY <1>0, <1>a, <2>1, AppendNotTask
<1>4. ASSUME NEW o \in Outcome, ExecuteCall(o) PROVE HistoryInv'
  <2> DEFINE m == ToolMsg(reply.calls[next].tool, o.res = "ok")
  <2>1. m \in Message /\ m # TaskMsg
    BY <1>4, <1>a, CallReport
  <2>2. history' = Append(history, m) /\ pc = "call" /\ pc' \in {"call", "close"}
    BY <1>4 DEF ExecuteCall
  <2> HIDE DEF m
  <2> QED BY <1>0, <2>1, <2>2, AppendNotTask
<1>5. ASSUME pc = "close", history' = Window(history) PROVE HistoryInv'
  BY <1>b, <1>5
<1>6. ASSUME NEW v \in VerifyOutcomes, CloseStepVerifying(v) PROVE HistoryInv'
  <2> DEFINE m == ToolMsg("verify", report'.verified)
  <2>1. report' \in Report
    BY <1>6, VerificationReport DEF CloseStepVerifying, Verify, TypeOK
  <2>2. m \in Message /\ m # TaskMsg
    BY <1>a, <2>1 DEF Report
  <2>3. history' = Append(Window(history), m) /\ pc = "close"
    BY <1>6 DEF CloseStepVerifying
  <2> HIDE DEF m
  <2> QED BY <1>b, <2>2, <2>3, AppendNotTask
<1>7. CASE UNCHANGED vars
  BY <1>7 DEF vars
<1>8. CASE CloseStep
  BY <1>5, <1>8 DEF CloseStep
<1>9. ASSUME NEW v \in VerifyOutcomes, FinishVerifying(v) PROVE HistoryInv'
  BY <1>5, <1>9 DEF FinishVerifying
<1> QED BY <1>1, <1>2, <1>3, <1>4, <1>6, <1>7, <1>8, <1>9 DEF Next, Loop, Body

(* Whatever the brain says and however long a task is, the transcript       *)
(* begins with the task and stays within the window.                        *)
THEOREM TranscriptWindowAlways == Spec => []TranscriptWindow
<1>1. Init => HistoryInv
  BY DEF Init, HistoryInv
<1>2. HistoryInv => TranscriptWindow
  BY DEF HistoryInv, TranscriptWindow
<1> QED BY <1>1, <1>2, TranscriptStep, TypeCorrect, PTL DEF Spec

-----------------------------------------------------------------------------
(* Repetition: with replies that all begin alike, the counter follows the   *)
(* step number, so the loop stops in its fourth step.                       *)
RepetitionInv ==
  SameFirstCall =>
    /\ step <= 3
    /\ pc \in {"brain", "call", "close"} =>
         IF step = 0 THEN lastTool = << >> /\ repeats = 0
         ELSE /\ repeats = step - 1
              /\ \A r \in Replies : lastTool = <<r.calls[1]>>

LEMMA RepetitionStep == TypeOK /\ RepetitionInv /\ [Next]_vars => RepetitionInv'
<1> SUFFICES ASSUME TypeOK, RepetitionInv, [Next]_vars, SameFirstCall
             PROVE  /\ step' <= 3
                    /\ pc' \in {"brain", "call", "close"} =>
                         IF step' = 0 THEN lastTool' = << >> /\ repeats' = 0
                         ELSE /\ repeats' = step' - 1
                              /\ \A r \in Replies : lastTool' = <<r.calls[1]>>
  BY DEF RepetitionInv, SameFirstCall
<1>0. ControlOK
  BY DEF TypeOK
<1> USE DEF RepetitionInv, control, guard
<1>1. CASE StartTask
  BY <1>1 DEF StartTask
<1>2. CASE StepLimit \/ BrainFails \/ StopRepeating \/ Conclude
  BY <1>2 DEF StepLimit, BrainFails, StopRepeating, Conclude
<1>3. ASSUME NEW r \in Replies, BrainReplies(r)
      PROVE  step' = step /\ UNCHANGED guard /\ pc = "brain"
  BY <1>3 DEF BrainReplies
<1>4. ASSUME NEW o \in Outcome, ExecuteCall(o)
      PROVE  step' = step /\ UNCHANGED guard /\ pc = "call"
  BY <1>4 DEF ExecuteCall
<1>5. ASSUME pc = "close", Repeats < 3, CountRepeats, NextStep
      PROVE  /\ step' <= 3
             /\ pc' = "brain" =>
                  /\ step' = step + 1 /\ repeats' = step' - 1
                  /\ \A r \in Replies : lastTool' = <<r.calls[1]>>
             /\ pc' \in {"brain", "epilogue"}
  <2>1. reply \in Replies /\ step \in Nat
    BY <1>0, <1>5 DEF ControlOK
  <2>2. \A r \in Replies : r.calls[1] = reply.calls[1]
    BY <2>1 DEF SameFirstCall
  <2>3. Repeats = IF step = 0 THEN 0 ELSE step
    <3>1. CASE step = 0
      BY <1>5, <3>1 DEF Repeats
    <3>2. CASE step # 0
      <4>1. lastTool = <<reply.calls[1]>> /\ repeats = step - 1
        BY <1>5, <2>1, <3>2
      <4> QED BY <2>1, <3>2, <4>1 DEF Repeats
    <3> QED BY <3>1, <3>2
  <2> QED BY <1>5, <2>1, <2>2, <2>3 DEF CountRepeats, NextStep
<1>6. CASE CloseStep
  BY <1>0, <1>5, <1>6 DEF CloseStep, ControlOK
<1>7. ASSUME NEW v \in VerifyOutcomes, CloseStepVerifying(v) \/ FinishVerifying(v)
      PROVE  /\ pc = "close" /\ Repeats < 3 /\ CountRepeats /\ NextStep
  BY <1>7 DEF CloseStepVerifying, FinishVerifying
<1>8. CASE UNCHANGED vars
  BY <1>8 DEF vars
<1> QED BY <1>0, <1>1, <1>2, <1>3, <1>4, <1>5, <1>6, <1>7, <1>8
        DEF Next, Loop, Body, ControlOK

(* A planner that always begins with the same call is stopped within four   *)
(* steps, whatever max_steps is.                                            *)
THEOREM RepetitionBoundedAlways == Spec => []RepetitionBounded
<1>1. Init => RepetitionInv
  BY DEF Init, RepetitionInv
<1>2. RepetitionInv => RepetitionBounded
  BY DEF RepetitionInv, RepetitionBounded
<1> QED BY <1>1, <1>2, RepetitionStep, TypeCorrect, PTL DEF Spec

-----------------------------------------------------------------------------
(* The repetition guard and the record of changed files.                    *)

(* A step counts as a repetition of an earlier one, so the counter is below *)
(* the number of completed steps.                                           *)
EarlyInv ==
  /\ pc \in {"brain", "call", "close"} =>
       IF step = 0 THEN lastTool = << >> ELSE repeats <= step - 1
  /\ NoEarlyStop

LEMMA EarlyStep == TypeOK /\ VerdictInv /\ EarlyInv /\ [Next]_vars => EarlyInv'
<1> SUFFICES ASSUME TypeOK, VerdictInv, EarlyInv, [Next]_vars PROVE EarlyInv'
  OBVIOUS
<1>0. ControlOK /\ GuardOK /\ report \in Report
  BY DEF TypeOK
<1> USE DEF EarlyInv, NoEarlyStop, control, guard
<1>a. ASSUME pc = "close"
      PROVE  /\ Repeats <= step /\ Repeats \in Nat /\ step \in Nat
             /\ report.summary = "none"
  <2>1. step \in Nat /\ repeats \in Nat
    BY <1>0 DEF ControlOK, GuardOK
  <2>2. CASE step = 0
    BY <1>a, <2>1, <2>2 DEF Repeats, VerdictInv
  <2>3. CASE step # 0
    BY <1>a, <2>1, <2>3 DEF Repeats, VerdictInv
  <2> QED BY <2>2, <2>3
<1>1. CASE StartTask
  BY <1>1 DEF StartTask, EmptyReport
<1>2. CASE StepLimit
  BY <1>2 DEF StepLimit
<1>3. CASE BrainFails
  BY <1>0, <1>3 DEF BrainFails, Report
<1>4. ASSUME NEW r \in Replies, BrainReplies(r) PROVE EarlyInv'
  BY <1>0, <1>4 DEF BrainReplies, Report
<1>5. ASSUME NEW o \in Outcome, ExecuteCall(o) PROVE EarlyInv'
  <2>1. pc' \in {"call", "close"} /\ report'.summary = report.summary /\ pc = "call"
        /\ step' = step /\ UNCHANGED guard
    BY <1>5, CallReport DEF ExecuteCall
  <2> QED BY <2>1
<1>6. CASE StopRepeating
  BY <1>0, <1>a, <1>6 DEF StopRepeating, Report
<1>b. ASSUME pc = "close", CountRepeats, NextStep, report'.summary = report.summary
      PROVE  EarlyInv'
  <2>1. /\ repeats' = Repeats /\ pc' \in {"brain", "epilogue"}
        /\ pc' = "brain" => step' = step + 1
    BY <1>b DEF CountRepeats, NextStep
  <2> QED BY <1>a, <1>b, <2>1
<1>7. CASE CloseStep
  BY <1>b, <1>7 DEF CloseStep
<1>8. ASSUME NEW v \in VerifyOutcomes, CloseStepVerifying(v) \/ FinishVerifying(v)
      PROVE  EarlyInv'
  <2>1. report'.summary = report.summary
    BY <1>0, <1>8
       DEF CloseStepVerifying, FinishVerifying, Verify, AfterVerification, Report
  <2> QED BY <1>b, <1>8, <2>1 DEF CloseStepVerifying, FinishVerifying
<1>9. CASE Conclude
  BY <1>0, <1>9 DEF Conclude, Succeeded, Report
<1>10. CASE UNCHANGED vars
  BY <1>10 DEF vars
<1> QED BY <1>1, <1>2, <1>3, <1>4, <1>5, <1>6, <1>7, <1>8, <1>9, <1>10 DEF Next, Loop, Body

(* The guard against repetition never stops a task before its fourth step,  *)
(* whatever the brain replies.                                              *)
THEOREM NoEarlyStopAlways == Spec => []NoEarlyStop
<1>1. Init => EarlyInv
  BY DEF Init, EarlyInv, NoEarlyStop, EmptyReport
<1>2. EarlyInv => NoEarlyStop
  BY DEF EarlyInv
<1> QED BY <1>1, <1>2, EarlyStep, TypeCorrect, VerdictAlways, PTL DEF Spec

(* The list of the object holds what this task has changed, and the report  *)
(* of a finished task holds the list.                                       *)
ChangedInv ==
  /\ mine \subseteq changedPaths
  /\ pc = "done" => report.changed = changedPaths

LEMMA ChangedStep == TypeOK /\ ChangedInv /\ [Next]_vars => ChangedInv'
<1> SUFFICES ASSUME TypeOK, ChangedInv, [Next]_vars PROVE ChangedInv'
  OBVIOUS
<1>0. report \in Report
  BY DEF TypeOK
<1> USE DEF ChangedInv, ghosts
<1>1. CASE StartTask
  BY <1>1 DEF StartTask
<1>2. CASE StepLimit \/ BrainFails \/ StopRepeating
  BY <1>2 DEF StepLimit, BrainFails, StopRepeating
<1>3. ASSUME NEW r \in Replies, BrainReplies(r) PROVE ChangedInv'
  BY <1>3 DEF BrainReplies
<1>4. ASSUME NEW o \in Outcome, ExecuteCall(o) PROVE ChangedInv'
  BY <1>4 DEF ExecuteCall, Pushed
<1>5. CASE CloseStep
  BY <1>5 DEF CloseStep, NextStep
<1>6. ASSUME NEW v \in VerifyOutcomes, CloseStepVerifying(v) \/ FinishVerifying(v)
      PROVE  ChangedInv'
  BY <1>6 DEF CloseStepVerifying, FinishVerifying, Verify, NextStep
<1>7. CASE Conclude
  <2>1. report'.changed = changedPaths
    BY <1>0, <1>7 DEF Conclude, Report
  <2> QED BY <1>7, <2>1 DEF Conclude
<1>8. CASE UNCHANGED vars
  BY <1>8 DEF vars
<1> QED BY <1>1, <1>2, <1>3, <1>4, <1>5, <1>6, <1>7, <1>8 DEF Next, Loop, Body

(* Every file a task's tools changed is in the report of that task, those   *)
(* of a patch that failed half-way included.                                *)
THEOREM ChangesAlwaysReported == Spec => []ChangesReported
<1>1. Init => ChangedInv
  BY DEF Init, ChangedInv
<1>2. ChangedInv => ChangesReported
  BY DEF ChangedInv, ChangesReported
<1> QED BY <1>1, <1>2, ChangedStep, TypeCorrect, PTL DEF Spec

-----------------------------------------------------------------------------
(* What the transcript tells.                                               *)

(* What stands behind a position of a growing list of marked positions.     *)
LEMMA BehindGrows ==
  ASSUME NEW n \in Nat, NEW S \in SUBSET (1 .. n), NEW i \in 1 .. n
  PROVE  /\ Behind(i, S) \in Nat
         /\ Behind(i, S \cup {n + 1}) = Behind(i, S) + 1
<1> DEFINE B == {k \in S : k > i}
<1>0. \A k \in S : k \in Int /\ k <= n /\ ~(k > n + 1) /\ k # n + 1
  OBVIOUS
<1>1. IsFiniteSet(B) /\ n + 1 \notin B
  <2>1. IsFiniteSet(1 .. n)
    BY FS_Interval
  <2>2. B \subseteq S /\ n + 1 \notin B
    BY <1>0
  <2> QED BY <2>1, <2>2, FS_Subset
<1>2. {k \in S \cup {n + 1} : k > i} = B \cup {n + 1}
  OBVIOUS
<1>4. Cardinality(B) \in Nat
  BY <1>1, FS_CardinalityType
<1>5. Cardinality(B \cup {n + 1}) = Cardinality(B) + 1
  BY <1>1, FS_AddElement
<1> QED BY <1>2, <1>4, <1>5 DEF Behind

LEMMA BehindEnd ==
  ASSUME NEW n \in Nat, NEW S \in SUBSET (1 .. n)
  PROVE  Behind(n + 1, S \cup {n + 1}) = 0
<1>1. {k \in S \cup {n + 1} : k > n + 1} = {}
  <2>1. \A k \in S : ~(k > n + 1)
    OBVIOUS
  <2>2. ~(n + 1 > n + 1)
    OBVIOUS
  <2> QED BY <2>1, <2>2
<1> QED BY <1>1, FS_EmptySet DEF Behind

(* Behind does not depend on where a list begins.                           *)
LEMMA BehindShifts ==
  ASSUME NEW n \in Nat, NEW S \in SUBSET (1 .. n), NEW T \in SUBSET Nat,
         NEW d \in Nat, NEW i \in Nat,
         \A k \in Nat : k > i => (k \in T <=> k + d \in S)
  PROVE  Behind(i, T) = Behind(i + d, S)
<1> DEFINE A == {k \in T : k > i}
           B == {k \in S : k > i + d}
           f == [k \in B |-> k - d]
<1>1. f \in Bijection(B, A)
  <2>1. f \in [B -> A]
    <3>1. ASSUME NEW b \in B PROVE b - d \in A
      <4>1. b \in 1 .. n /\ b > i + d /\ b \in S
        OBVIOUS
      <4>2. b - d \in Nat /\ b - d > i /\ (b - d) + d = b
        BY <4>1
      <4> QED BY <4>1, <4>2
    <3> QED BY <3>1
  <2>2. \A a, b \in B : f[a] = f[b] => a = b
    OBVIOUS
  <2>3. \A a \in A : \E b \in B : f[b] = a
    <3> TAKE a \in A
    <3>1. a + d \in B /\ f[a + d] = a
      OBVIOUS
    <3> QED BY <3>1
  <2> HIDE DEF f, A, B
  <2>4. f \in Injection(B, A) /\ f \in Surjection(B, A)
    BY <2>1, <2>2, <2>3 DEF Injection, Surjection, IsInjective
  <2> QED BY <2>4 DEF Bijection
<1>2. ExistsBijection(B, A)
  BY <1>1 DEF ExistsBijection
<1>3. IsFiniteSet(B)
  <2>1. IsFiniteSet(1 .. n)
    BY FS_Interval
  <2> QED BY <2>1, FS_Subset
<1>5. Cardinality(A) = Cardinality(B)
  BY <1>2, <1>3, FS_Bijection
<1> QED BY <1>5 DEF Behind

(* A message that is no result, and a step that is a verification, change   *)
(* nothing of what is told.                                                 *)
LEMMA TellsMessage ==
  ASSUME NEW h \in Seq(Message), NEW m \in Message,
         m.role # "tool" \/ m.tool = "verify",
         NEW steps, Tells(h, steps)
  PROVE  Tells(Append(h, m), steps)
<1>1. /\ DOMAIN Append(h, m) = 1 .. Len(h) + 1 /\ DOMAIN h = 1 .. Len(h)
      /\ Len(h) \in Nat
      /\ \A i \in 1 .. Len(h) : Append(h, m)[i] = h[i]
      /\ Append(h, m)[Len(h) + 1] = m
  OBVIOUS
<1>2. Results(Append(h, m)) = Results(h)
  BY <1>1 DEF Results
<1>3. \A i \in Results(h) : Append(h, m)[i] = h[i]
  BY <1>1 DEF Results
<1> QED BY <1>2, <1>3 DEF Tells

LEMMA TellsVerification ==
  ASSUME NEW h, NEW steps \in Seq(StepRecord), NEW s \in StepRecord, s.verification,
         Tells(h, steps)
  PROVE  Tells(h, Append(steps, s))
<1>1. /\ DOMAIN Append(steps, s) = 1 .. Len(steps) + 1
      /\ DOMAIN steps = 1 .. Len(steps) /\ Len(steps) \in Nat
      /\ \A i \in 1 .. Len(steps) : Append(steps, s)[i] = steps[i]
      /\ Append(steps, s)[Len(steps) + 1] = s
  OBVIOUS
<1>2. Made(Append(steps, s)) = Made(steps)
  BY <1>1 DEF Made
<1>3. \A j \in Made(steps) : Append(steps, s)[j] = steps[j]
  BY <1>1 DEF Made
<1>4. SUFFICES ASSUME NEW i \in Results(h)
               PROVE  \E j \in Made(Append(steps, s)) :
                        /\ Behind(j, Made(Append(steps, s))) = Behind(i, Results(h))
                        /\ Append(steps, s)[j].tool = h[i].tool /\ Append(steps, s)[j].ok = h[i].ok
  BY DEF Tells
<1>5. PICK j \in Made(steps) :
        /\ Behind(j, Made(steps)) = Behind(i, Results(h))
        /\ steps[j].tool = h[i].tool /\ steps[j].ok = h[i].ok
  BY DEF Tells
<1> QED BY <1>2, <1>3, <1>5, Zenon

(* A call is recorded and told.                                             *)
LEMMA TellsCall ==
  ASSUME NEW h \in Seq(Message), NEW m \in Message,
         m.role = "tool", m.tool # "verify",
         NEW steps \in Seq(StepRecord), NEW s \in StepRecord, ~s.verification,
         s.tool = m.tool, s.ok = m.ok,
         Tells(h, steps)
  PROVE  Tells(Append(h, m), Append(steps, s))
<1> DEFINE hh == Append(h, m)
           ss == Append(steps, s)
           n  == Len(h)
           q  == Len(steps)
<1>1. /\ DOMAIN hh = 1 .. n + 1 /\ DOMAIN h = 1 .. n /\ n \in Nat
      /\ \A i \in 1 .. n : hh[i] = h[i]
      /\ hh[n + 1] = m
  OBVIOUS
<1>2. /\ DOMAIN ss = 1 .. q + 1 /\ DOMAIN steps = 1 .. q /\ q \in Nat
      /\ \A i \in 1 .. q : ss[i] = steps[i]
      /\ ss[q + 1] = s
  OBVIOUS
<1> HIDE DEF hh, ss, n, q
<1>3. /\ Results(hh) = Results(h) \cup {n + 1} /\ Results(h) \in SUBSET (1 .. n)
      /\ Made(ss) = Made(steps) \cup {q + 1} /\ Made(steps) \in SUBSET (1 .. q)
  BY <1>1, <1>2 DEF Results, Made
<1>4. SUFFICES ASSUME NEW i \in Results(hh)
               PROVE  \E j \in Made(ss) :
                        /\ Behind(j, Made(ss)) = Behind(i, Results(hh))
                        /\ ss[j].tool = hh[i].tool /\ ss[j].ok = hh[i].ok
  BY DEF Tells, hh, ss
<1>5. CASE i = n + 1
  <2>1. q + 1 \in Made(ss)
    BY <1>3
  <2>2. Behind(n + 1, Results(hh)) = 0 /\ Behind(q + 1, Made(ss)) = 0
    BY <1>1, <1>2, <1>3, BehindEnd
  <2> QED BY <1>1, <1>2, <1>5, <2>1, <2>2
<1>6. CASE i # n + 1
  <2>1. i \in Results(h) /\ i \in 1 .. n
    BY <1>3, <1>6
  <2>2. PICK j \in Made(steps) :
          /\ Behind(j, Made(steps)) = Behind(i, Results(h))
          /\ steps[j].tool = h[i].tool /\ steps[j].ok = h[i].ok
    BY <2>1 DEF Tells
  <2>3. j \in 1 .. q /\ j \in Made(ss)
    BY <1>3
  <2>4. /\ Behind(i, Results(hh)) = Behind(i, Results(h)) + 1
        /\ Behind(j, Made(ss)) = Behind(j, Made(steps)) + 1
    BY <1>1, <1>2, <1>3, <2>1, <2>3, BehindGrows
  <2> QED BY <1>1, <1>2, <2>1, <2>2, <2>3, <2>4
<1> QED BY <1>5, <1>6

(* The window drops the oldest results: what is left tells the same.        *)
LEMMA TellsWindow ==
  ASSUME NEW h \in Seq(Message), h # << >>, h[1] = TaskMsg,
         NEW steps, Tells(h, steps)
  PROVE  Tells(Window(h), steps)
<1>1. CASE Len(h) > MaxHistory
  <2> DEFINE k    == Len(h) - MaxHistory
             tail == SubSeq(h, k + 1, Len(h))
             w    == <<h[1]>> \o tail
  <2>1. /\ Len(tail) = MaxHistory /\ tail \in Seq(Message)
        /\ \A i \in 1 .. MaxHistory : tail[i] = h[k + i]
    BY <1>1
  <2>2. Window(h) = w /\ h[1] \in Message
    BY <1>1 DEF Window
  <2>3. k \in Nat \ {0} /\ k + MaxHistory = Len(h) /\ Len(h) \in Nat
    BY <1>1
  <2> HIDE DEF tail, k
  <2>4. /\ \A i \in 2 .. MaxHistory + 1 : w[i] = h[k + i - 1]
        /\ w[1] = TaskMsg
        /\ DOMAIN w = 1 .. MaxHistory + 1
    BY <2>1, <2>2, <2>3
  <2> HIDE DEF w
  <2>5. \A i \in Nat : i > 1 => (i \in Results(w) <=> i + (k - 1) \in Results(h))
    <3> TAKE i \in Nat
    <3>1. HAVE i > 1
    <3>2. i + (k - 1) = k + i - 1
      BY <2>3
    <3>3. i <= MaxHistory + 1 <=> k + i - 1 <= Len(h)
      BY <2>3
    <3>4. i \in DOMAIN w <=> k + i - 1 \in DOMAIN h
      BY <2>3, <2>4, <3>1, <3>3
    <3>5. i \in DOMAIN w => w[i] = h[k + i - 1]
      BY <2>4, <3>1
    <3> QED BY <3>2, <3>4, <3>5 DEF Results
  <2>6. \A i \in Results(w) : i \in Nat /\ i > 1
    BY <2>4 DEF Results, TaskMsg
  <2>7. Results(h) \in SUBSET (1 .. Len(h)) /\ Results(w) \in SUBSET Nat
    BY <2>4 DEF Results
  <2>8. ASSUME NEW i \in Results(w)
        PROVE  /\ i + (k - 1) \in Results(h)
               /\ Behind(i, Results(w)) = Behind(i + (k - 1), Results(h))
               /\ w[i] = h[i + (k - 1)]
    <3>1. i \in Nat /\ i > 1 /\ k - 1 \in Nat
      BY <2>3, <2>6
    <3>2. \A j \in Nat : j > i => (j \in Results(w) <=> j + (k - 1) \in Results(h))
      BY <2>5, <3>1
    <3>3. Behind(i, Results(w)) = Behind(i + (k - 1), Results(h))
      <4> DEFINE n == Len(h)  d == k - 1  S == Results(h)  T == Results(w)
      <4>1. n \in Nat /\ d \in Nat /\ i \in Nat
        BY <2>3, <3>1
      <4>2. S \in SUBSET (1 .. n) /\ T \in SUBSET Nat
        BY <2>7
      <4>3. \A j \in Nat : j > i => (j \in T <=> j + d \in S)
        BY <3>2
      <4> HIDE DEF n, d, S, T
      <4>4. Behind(i, T) = Behind(i + d, S)
        BY <4>1, <4>2, <4>3, BehindShifts, ZenonT(40)
      <4> QED BY <4>4 DEF d, S, T
    <3>4. i \in 2 .. MaxHistory + 1 /\ i + (k - 1) = k + i - 1
      <4>1. \A x \in Results(w) : x \in DOMAIN w
        BY DEF Results
      <4>2. i \in 1 .. MaxHistory + 1
        BY <2>4, <4>1
      <4> QED BY <2>3, <3>1, <4>2
    <3> QED BY <2>4, <2>5, <3>1, <3>3, <3>4
  <2>9. Tells(w, steps)
    BY <2>8 DEF Tells
  <2> QED BY <2>2, <2>9
<1>2. CASE ~(Len(h) > MaxHistory)
  BY <1>2 DEF Window
<1> QED BY <1>1, <1>2

LEMMA TellsStep ==
  TypeOK /\ HistoryInv /\ TranscriptTellsTheTruth /\ [Next]_vars
    => TranscriptTellsTheTruth'
<1> SUFFICES ASSUME TypeOK, HistoryInv, TranscriptTellsTheTruth, [Next]_vars
             PROVE  Tells(history', report'.steps)
  BY DEF TranscriptTellsTheTruth
<1>0. /\ history \in Seq(Message) /\ report \in Report /\ ControlOK
      /\ report.steps \in Seq(StepRecord) /\ Tells(history, report.steps)
  BY DEF TypeOK, TranscriptTellsTheTruth, Report
<1>a. ASSUME pc = "close"
      PROVE  Tells(Window(history), report.steps) /\ Window(history) \in Seq(Message)
  BY <1>0, <1>a, TellsWindow, WindowFacts DEF HistoryInv
<1>1. CASE StartTask
  <2>1. Results(<<TaskMsg>>) = {}
    BY DEF Results, TaskMsg
  <2> QED BY <1>1, <2>1 DEF StartTask, Tells
<1>2. CASE StepLimit \/ BrainFails \/ StopRepeating \/ Conclude
  <2>1. history' = history /\ report'.steps = report.steps
    BY <1>0, <1>2 DEF StepLimit, BrainFails, StopRepeating, Conclude, Report
  <2> QED BY <1>0, <2>1
<1>3. ASSUME NEW r \in Replies, BrainReplies(r) PROVE Tells(history', report'.steps)
  <2>1. /\ history' \in {history, Append(history, AssistantMsg)}
        /\ report'.steps = report.steps
    BY <1>0, <1>3 DEF BrainReplies, Report
  <2>2. AssistantMsg \in Message /\ AssistantMsg.role # "tool"
    BY DEF Message, AssistantMsg
  <2> QED BY <1>0, <2>1, <2>2, TellsMessage
<1>4. ASSUME NEW o \in Outcome, ExecuteCall(o) PROVE Tells(history', report'.steps)
  <2> DEFINE tool == reply.calls[next].tool
             m == ToolMsg(tool, o.res = "ok")
             s == [tool |-> tool, ok |-> o.res = "ok", verification |-> FALSE]
  <2>1. tool \in Tools /\ s \in StepRecord /\ report'.steps = Append(report.steps, s)
    BY <1>4, CallReport
  <2>2. history' = Append(history, m)
    BY <1>4 DEF ExecuteCall
  <2>3. /\ m \in Message /\ m.role = "tool" /\ m.tool # "verify"
        /\ s.tool = m.tool /\ s.ok = m.ok /\ ~s.verification
    BY <2>1 DEF Message, ToolMsg, Tools, EditTools, ReadTools, WebTools
  <2> HIDE DEF m, s, tool
  <2> QED BY <1>0, <2>1, <2>2, <2>3, TellsCall
<1>5. CASE CloseStep
  BY <1>a, <1>5 DEF CloseStep
<1>6. ASSUME NEW v \in VerifyOutcomes, Verify(v), pc = "close"
      PROVE  Tells(Window(history), report'.steps) /\ report' \in Report
  <2>1. report' = AfterVerification(report, v) /\ report' \in Report
    BY <1>0, <1>6, VerificationReport DEF Verify
  <2>2. CASE v \in {"skipped", "error"}
    <3>1. report'.steps = report.steps
      BY <1>0, <2>1, <2>2 DEF AfterVerification, Report
    <3> QED BY <1>6, <1>a, <2>1, <3>1
  <2>3. CASE v \notin {"skipped", "error"}
    <3> DEFINE s == [tool |-> "run_command", ok |-> v = "passed", verification |-> TRUE]
    <3>1. report'.steps = Append(report.steps, s)
      BY <1>0, <2>1, <2>3 DEF AfterVerification, Report
    <3>2. s \in StepRecord /\ s.verification
      BY DEF StepRecord, Tools
    <3> HIDE DEF s
    <3> QED BY <1>0, <1>6, <1>a, <2>1, <3>1, <3>2, TellsVerification
  <2> QED BY <2>2, <2>3
<1>7. ASSUME NEW v \in VerifyOutcomes, CloseStepVerifying(v)
      PROVE  Tells(history', report'.steps)
  <2> DEFINE m == ToolMsg("verify", report'.verified)
  <2>1. Tells(Window(history), report'.steps) /\ report' \in Report /\ pc = "close"
    BY <1>6, <1>7 DEF CloseStepVerifying
  <2>2. m \in Message /\ m.tool = "verify"
    BY <2>1 DEF Message, ToolMsg, Report
  <2>3. history' = Append(Window(history), m)
    BY <1>7 DEF CloseStepVerifying
  <2> HIDE DEF m
  <2> QED BY <1>a, <2>1, <2>2, <2>3, TellsMessage
<1>8. ASSUME NEW v \in VerifyOutcomes, FinishVerifying(v)
      PROVE  Tells(history', report'.steps)
  BY <1>6, <1>8 DEF FinishVerifying
<1>9. CASE UNCHANGED vars
  BY <1>0, <1>9 DEF vars
<1> QED BY <1>1, <1>2, <1>3, <1>4, <1>5, <1>7, <1>8, <1>9 DEF Next, Loop, Body

(* What the brain is shown are the last results, in order and as they were, *)
(* however long the task and whatever the window has dropped.               *)
THEOREM TranscriptAlwaysTrue == Spec => []TranscriptTellsTheTruth
<1>1. Init => TranscriptTellsTheTruth
  BY DEF Init, TranscriptTellsTheTruth, Tells, Results
<1>2. Spec => []HistoryInv
  <2>1. Init => HistoryInv
    BY DEF Init, HistoryInv
  <2> QED BY <2>1, TranscriptStep, TypeCorrect, PTL DEF Spec
<1> QED BY <1>1, <1>2, TellsStep, TypeCorrect, PTL DEF Spec

-----------------------------------------------------------------------------
(* THE LOOP WITH ITS PLANNER OR A LOCAL MODEL                               *)

(* A job is what the planner made of one of the tasks.                      *)
JobInv == brain = "heuristic" /\ pc # "idle" => \E j \in Jobs : job = Task(j)

(* The least of a set of positions of a list of at most four.               *)
LEMMA LeastPosition ==
  ASSUME NEW S \in SUBSET (1 .. 4), S # {}
  PROVE  (CHOOSE i \in S : \A k \in S : i <= k) \in S
<1>1. \E i \in S : \A k \in S : i <= k
  <2>1. CASE 1 \in S
    BY <2>1
  <2>2. CASE 1 \notin S /\ 2 \in S
    BY <2>2
  <2>3. CASE 1 \notin S /\ 2 \notin S /\ 3 \in S
    BY <2>3
  <2>4. CASE 1 \notin S /\ 2 \notin S /\ 3 \notin S
    <3>1. PICK i \in S : TRUE
      OBVIOUS
    <3>2. \A k \in S : k = 4
      BY <2>4
    <3> QED BY <3>1, <3>2
  <2> QED BY <2>1, <2>2, <2>3, <2>4
<1> QED BY <1>1

(* The lists a plan is put together from, and their lengths.                *)
LEMMA Lists ==
  ASSUME NEW S, NEW w \in Seq(S), NEW t \in S, NEW u \in S
  PROVE  /\ <<t>> \in Seq(S) /\ Len(<<t>>) = 1
         /\ <<t, u>> \in Seq(S) /\ Len(<<t, u>>) = 2
         /\ <<t>> \o w \in Seq(S) /\ Len(<<t>> \o w) = 1 + Len(w)
         /\ w \o <<t>> \in Seq(S) /\ Len(w \o <<t>>) = Len(w) + 1
<1>1. <<t>> \in Seq(S) /\ Len(<<t>>) = 1
  OBVIOUS
<1>2. <<t, u>> \in Seq(S) /\ Len(<<t, u>>) = 2
  OBVIOUS
<1> DEFINE s == <<t>>
<1> HIDE DEF s
<1>3. s \o w \in Seq(S) /\ Len(s \o w) = 1 + Len(w)
  BY <1>1 DEF s
<1>4. w \o s \in Seq(S) /\ Len(w \o s) = Len(w) + 1
  BY <1>1 DEF s
<1> QED BY <1>1, <1>2, <1>3, <1>4 DEF s

(* A plan has at most four stages.                                          *)
Names == {"project_map", "fs_write", "fs_grep", "run_command", "web_search",
          "fetch_page", "finish"}
AtMostTwo(w) == \/ w = << >>
                \/ \E t \in Names : w = <<t>>
                \/ \E t, u \in Names : w = <<t, u>>
LEMMA StageCount ==
  ASSUME NEW j
  PROVE  DOMAIN Stages(j) \subseteq 1 .. 4
<1> DEFINE w == Work(j)
<1>1. AtMostTwo(w)
  <2>1. AtMostTwo(BuildWork(j)) /\ AtMostTwo(WebWork(j))
    BY DEF BuildWork, WebWork, AtMostTwo, Names
  <2>2. AtMostTwo(RepairWork(j))
    BY DEF RepairWork, AtMostTwo, Names
  <2>3. AtMostTwo(WritingWork(j))
    BY DEF WritingWork, AtMostTwo, Names
  <2>4. AtMostTwo(<<"run_command">>) /\ AtMostTwo(<<"fs_grep">>) /\ AtMostTwo(<< >>)
    BY DEF AtMostTwo, Names
  <2> QED BY <2>1, <2>2, <2>3, <2>4 DEF Work
<1> HIDE DEF w
<1>2. /\ w \in Seq(Names)
      /\ Len(w) <= 2
  <2>1. CASE w = << >>
    BY <2>1
  <2>2. ASSUME NEW t \in Names, w = <<t>> PROVE w \in Seq(Names) /\ Len(w) <= 2
    BY <2>2, Lists
  <2>3. ASSUME NEW t \in Names, NEW u \in Names, w = <<t, u>>
        PROVE  w \in Seq(Names) /\ Len(w) <= 2
    BY <2>3, Lists
  <2> QED BY <1>1, <2>1, <2>2, <2>3 DEF AtMostTwo
<1> DEFINE v == <<"project_map">> \o w
<1>3. "project_map" \in Names /\ "finish" \in Names
  BY DEF Names
<1>4. v \in Seq(Names) /\ Len(v) <= 3
  BY <1>2, <1>3, Lists
<1>5. v \o <<"finish">> \in Seq(Names) /\ Len(v \o <<"finish">>) <= 4
  <2> HIDE DEF v
  <2> QED BY <1>3, <1>4, Lists
<1>6. Stages(j) = v \o <<"finish">>
  BY DEF Stages, w
<1> QED BY <1>5, <1>6

(* Whatever the transcript says, the planner's reply is one of its stages.  *)
LEMMA PlanReplies ==
  ASSUME NEW j \in Jobs, NEW h
  PROVE  Plan(Task(j), h) \in Replies
<1> DEFINE stages == Stages(Task(j))
           left   == {i \in DOMAIN stages : ~AnyTool(h, stages[i])}
           first  == CHOOSE i \in left : \A k \in left : i <= k
<1>1. CASE left = {}
  BY <1>1, PlannedAssumption DEF Plan
<1>2. CASE left # {}
  <2>1. left \in SUBSET (1 .. 4)
    BY StageCount
  <2>2. first \in left
    <3> HIDE DEF left
    <3> QED BY <1>2, <2>1, LeastPosition
  <2>3. Stage(Task(j), stages[first]) \in Replies
    BY <2>2, PlannedAssumption
  <2>4. Plan(Task(j), h) = Stage(Task(j), stages[first])
    BY <1>2 DEF Plan
  <2> QED BY <2>3, <2>4
<1> QED BY <1>1, <1>2

-----------------------------------------------------------------------------
LEMMA InitJobInv == PInit => JobInv
BY DEF PInit, JobInv

(* Nothing but a new task leaves the idle loop.                             *)
LEMMA WorkingNotIdle == Working => pc # "idle"
BY DEF Working, HeuristicStep, LocalStep, LocalFails, Body, BrainReplies, BrainFails,
       StepLimit, ExecuteCall, StopRepeating, CloseStep, CloseStepVerifying,
       FinishVerifying, Conclude

LEMMA WorkingKeepsJob == Working => brain' = brain /\ job' = job
BY DEF Working, HeuristicStep, LocalStep, LocalFails

LEMMA JobStep == JobInv /\ [PNext]_pvars => JobInv'
<1> SUFFICES ASSUME JobInv, [PNext]_pvars PROVE JobInv'
  OBVIOUS
<1>1. CASE \E kind \in Kinds, reachable \in BOOLEAN : MakeBrain(kind, reachable)
  BY <1>1 DEF MakeBrain, JobInv, vars
<1>2. ASSUME NEW j \in Jobs, GiveTask(j) PROVE JobInv'
  BY <1>2 DEF GiveTask, JobInv
<1>3. CASE Working
  BY <1>3, WorkingNotIdle, WorkingKeepsJob DEF JobInv
<1>4. CASE UNCHANGED pvars
  BY <1>4 DEF JobInv, pvars, vars
<1> QED BY <1>1, <1>2, <1>3, <1>4 DEF PNext

(* Every step of the agent with its brains is a step of the loop, or leaves *)
(* the loop alone.                                                          *)
LEMMA StepImplements == JobInv /\ [PNext]_pvars => [Next]_vars
<1> SUFFICES ASSUME JobInv, [PNext]_pvars PROVE [Next]_vars
  OBVIOUS
<1>1. CASE \E kind \in Kinds, reachable \in BOOLEAN : MakeBrain(kind, reachable)
  BY <1>1 DEF MakeBrain
<1>2. CASE \E j \in Jobs : GiveTask(j)
  BY <1>2 DEF GiveTask, Next
<1>3. CASE HeuristicStep
  <2>1. BrainReplies(Plan(job, history)) /\ pc = "brain" /\ brain = "heuristic"
    BY <1>3 DEF HeuristicStep, BrainReplies
  <2>2. Plan(job, history) \in Replies
    BY <2>1, PlanReplies DEF JobInv
  <2> QED BY <2>1, <2>2 DEF Next, Loop
<1>4. ASSUME NEW o \in Outputs, LocalStep(o) PROVE [Next]_vars
  <2>1. ParseModelReply(o) \in Replies /\ BrainReplies(ParseModelReply(o))
    BY <1>4, PlannedAssumption DEF LocalStep
  <2> QED BY <2>1 DEF Next, Loop
<1>5. CASE LocalFails
  BY <1>5 DEF LocalFails, Next, Loop
<1>6. CASE Body
  BY <1>6 DEF Next, Loop
<1>7. CASE UNCHANGED pvars
  BY <1>7 DEF pvars
<1> QED BY <1>1, <1>2, <1>3, <1>4, <1>5, <1>6, <1>7 DEF PNext, Working

(* The agent with its planner and its local model implements the loop with  *)
(* any brain (HeuristicBrain::step, LocalModelBrain::step, Agent::run).     *)
THEOREM PlannerImplementsLoop == PSpec => Spec
<1>1. PInit => Init
  BY DEF PInit
<1> QED BY <1>1, InitJobInv, JobStep, StepImplements, PTL DEF PSpec, Spec

(* Hence, for every task: what finishes with the finish tool after an edit  *)
(* had its verification, and a success is backed by the record.             *)
THEOREM PlannedVerdicts == PSpec => [](FinishVerifies /\ VerdictJustified)
BY PlannerImplementsLoop, FinishVerifiesAlways, VerdictJustifiedAlways, PTL

(* Hence, for every task and every answer of a model, the transcript keeps  *)
(* its task and its bound.                                                  *)
THEOREM PlannedTranscript == PSpec => [](TypeOK /\ TranscriptWindow)
BY PlannerImplementsLoop, TypeCorrect, TranscriptWindowAlways, PTL

(* Hence what the planner or a model is shown tells what was done, what was *)
(* changed is reported, and no task is stopped early for repeating itself.  *)
THEOREM PlannedRecord ==
  PSpec => [](TranscriptTellsTheTruth /\ ChangesReported /\ NoEarlyStop)
BY PlannerImplementsLoop, TranscriptAlwaysTrue, ChangesAlwaysReported,
   NoEarlyStopAlways, PTL

-----------------------------------------------------------------------------
(* A plan under way: k stages are done, as the report has it and as the     *)
(* transcript shows it.                                                     *)
Order   == Stages(job)
Project == job.intent = "CreateProject"
Done(k) ==
  /\ InStages(job, report.steps, k)
  /\ pc \in {"brain", "call", "close"} =>
       \A i \in DOMAIN Order : AnyTool(history, Order[i]) <=> i <= k

(* How long the transcript can be by then.                                  *)
Room(k) == IF k = 0 THEN 1 ELSE IF k = 1 THEN 3
           ELSE IF Project THEN Len(Files) + k + 2 ELSE k + 2

(* The step before began with one of the first m stages; one of them may    *)
(* have edited.                                                             *)
Began(m) == lastTool # << >> => \E i \in 1 .. m : lastTool[1].tool = Order[i]
Wrote(m) == \E i \in 1 .. m : Order[i] = "fs_write"

AtBrain(k) ==
  /\ k < Len(Order) /\ step <= k /\ Began(k)
  /\ edited => Wrote(k)
  /\ verifiedOnce => k = Len(Order) - 1
  /\ ~verifiedOnce => Len(history) <= Room(k)

(* The p-th stage is being done.                                            *)
Stepping(p) ==
  /\ reply = Stage(job, Order[p]) /\ step <= p - 1 /\ Began(p - 1)
  /\ edited /\ ~sawEdit => Wrote(p - 1)
  /\ sawEdit => Order[p] = "fs_write"
AtCall(k, p) ==
  /\ Stepping(p) /\ ~sawFinish /\ (verifiedOnce => p = Len(Order))
  /\ \/ /\ next = 1 /\ k = p - 1 /\ ~sawEdit
        /\ ~verifiedOnce => Len(history) <= Room(k) + (IF reply.text THEN 1 ELSE 0)
     \/ /\ next > 1 /\ k = 2 /\ p = 2 /\ Project
        /\ next <= Len(Files) + 1 /\ Len(history) <= 3 + next
AtClose(k, p) ==
  /\ Stepping(p) /\ (k = p \/ (k = 3 /\ p = 2 /\ Project))
  /\ sawFinish <=> k = Len(Order)
  /\ k = Len(Order) => report.finished
  /\ k < Len(Order) => ~verifiedOnce /\ Len(history) <= Room(k)

PlanAt(k) ==
  /\ pc # "done" => report.summary = "none"
  /\ Done(k)
  /\ \/ pc = "brain" /\ AtBrain(k)
     \/ pc = "call"  /\ \E p \in DOMAIN Order : AtCall(k, p)
     \/ pc = "close" /\ \E p \in DOMAIN Order : AtClose(k, p)
     \/ /\ pc \in {"epilogue", "done"} /\ k = Len(Order) /\ report.finished
        /\ pc = "done" => report.summary \in {"completed", "failed steps"}

PlanInv == Fits /\ brain = "heuristic" /\ pc # "idle" =>
             \E k \in 0 .. Len(Order) : PlanAt(k)

-----------------------------------------------------------------------------
(* Two lists put together.                                                  *)
LEMMA Concat ==
  ASSUME NEW S, NEW a \in Seq(S), NEW b \in Seq(S)
  PROVE  /\ a \o b \in Seq(S) /\ Len(a \o b) = Len(a) + Len(b)
         /\ \A i \in 1 .. Len(a) : (a \o b)[i] = a[i]
         /\ \A i \in 1 .. Len(b) : (a \o b)[Len(a) + i] = b[i]
<1>1. a \o b \in Seq(S) /\ Len(a \o b) = Len(a) + Len(b)
  OBVIOUS
<1>2. \A i \in 1 .. Len(a) : (a \o b)[i] = a[i]
  OBVIOUS
<1>3. ASSUME NEW i \in 1 .. Len(b) PROVE (a \o b)[Len(a) + i] = b[i]
  <2>1. Len(a) + i \in 1 .. Len(a) + Len(b) /\ ~(Len(a) + i <= Len(a)) /\ (Len(a) + i) - Len(a) = i
    OBVIOUS
  <2> QED BY <2>1
<1> QED BY <1>1, <1>2, <1>3

(* A list between two others of one element.                                *)
LEMMA Middle ==
  ASSUME NEW S, NEW w \in Seq(S), NEW t \in S, NEW u \in S
  PROVE  LET l == (<<t>> \o w) \o <<u>> IN
         /\ l \in Seq(S) /\ Len(l) = Len(w) + 2
         /\ l[1] = t /\ l[Len(w) + 2] = u
         /\ \A i \in 1 .. Len(w) : l[i + 1] = w[i]
<1> DEFINE a == <<t>>
           b == <<u>>
<1>1. a \in Seq(S) /\ Len(a) = 1 /\ a[1] = t /\ b \in Seq(S) /\ Len(b) = 1 /\ b[1] = u
  OBVIOUS
<1> HIDE DEF a, b
<1> DEFINE v == a \o w
           l == v \o b
<1>2. /\ v \in Seq(S) /\ Len(v) = 1 + Len(w)
      /\ \A i \in 1 .. Len(a) : v[i] = a[i]
      /\ \A i \in 1 .. Len(w) : v[Len(a) + i] = w[i]
  <2>1. a \o w \in Seq(S) /\ Len(a \o w) = Len(a) + Len(w)
    BY <1>1, Concat
  <2>2. \A i \in 1 .. Len(a) : (a \o w)[i] = a[i]
    BY <1>1, Concat
  <2>3. ASSUME NEW i \in 1 .. Len(w) PROVE (a \o w)[Len(a) + i] = w[i]
    <3>1. a \in Seq(S) /\ w \in Seq(S)
      BY <1>1
    <3> QED BY <3>1, Concat
  <2> QED BY <1>1, <2>1, <2>2, <2>3
<1>3. v[1] = t /\ \A i \in 1 .. Len(w) : v[i + 1] = w[i]
  <2>1. \A i \in 1 .. Len(w) : Len(a) + i = i + 1
    BY <1>1
  <2> HIDE DEF v
  <2> QED BY <1>1, <1>2, <2>1
<1> HIDE DEF v
<1>4. /\ l \in Seq(S) /\ Len(l) = Len(v) + Len(b)
      /\ \A i \in 1 .. Len(v) : l[i] = v[i]
      /\ \A i \in 1 .. Len(b) : l[Len(v) + i] = b[i]
  <2>1. v \o b \in Seq(S) /\ Len(v \o b) = Len(v) + Len(b)
    BY <1>1, <1>2, Concat
  <2>2. \A i \in 1 .. Len(v) : (v \o b)[i] = v[i]
    BY <1>1, <1>2, Concat
  <2>3. ASSUME NEW i \in 1 .. Len(b) PROVE (v \o b)[Len(v) + i] = b[i]
    <3>1. v \in Seq(S) /\ b \in Seq(S)
      BY <1>1, <1>2
    <3> QED BY <3>1, Concat
  <2> QED BY <2>1, <2>2, <2>3
<1> HIDE DEF l
<1>5. Len(l) = Len(w) + 2 /\ l[1] = t /\ l[Len(w) + 2] = u
  <2>1. Len(v) + 1 = Len(w) + 2
    BY <1>2
  <2>2. l[Len(v) + 1] = u
    BY <1>1, <1>4
  <2> QED BY <1>1, <1>2, <1>3, <1>4, <2>1, <2>2
<1>6. ASSUME NEW i \in 1 .. Len(w) PROVE l[i + 1] = w[i]
  <2>1. i + 1 \in 1 .. Len(v)
    BY <1>2
  <2> QED BY <1>3, <1>4, <2>1
<1> QED BY <1>4, <1>5, <1>6 DEF v, a, b, l

(* The tools between the map of the project and the end.                    *)
Wares(w) ==
  \/ w = << >>
  \/ \E t \in {"run_command", "web_search", "fetch_page", "fs_grep", "fs_write"} : w = <<t>>
  \/ w = <<"fs_grep", "run_command">>
  \/ w = <<"fs_write", "run_command">>
LEMMA WorkWares ==
  ASSUME NEW j
  PROVE  /\ Wares(Work(j))
         /\ j.intent = "CreateProject" => Work(j) = <<"fs_write", "run_command">>
<1>1. Wares(BuildWork(j)) /\ Wares(WebWork(j))
  BY DEF BuildWork, WebWork, Wares
<1>2. Wares(RepairWork(j))
  BY DEF RepairWork, Wares
<1>3. Wares(WritingWork(j))
  BY DEF WritingWork, Wares
<1>4. Wares(<<"run_command">>) /\ Wares(<<"fs_grep">>) /\ Wares(<< >>)
  BY DEF Wares
<1> QED BY <1>1, <1>2, <1>3, <1>4 DEF Work, BuildWork

(* The stages of a plan differ; it begins with the map of the project and   *)
(* ends by finish, and at most one stage stands between the writing of a    *)
(* file and finish.                                                         *)
LEMMA PlanShape ==
  ASSUME NEW j
  PROVE  LET s == Stages(j) IN
         /\ s \in Seq(Names) /\ Len(s) \in 2 .. 4
         /\ s[1] = "project_map" /\ s[Len(s)] = "finish"
         /\ \A i, k \in 1 .. Len(s) : s[i] = s[k] => i = k
         /\ \A i \in 1 .. Len(s) : s[i] = "fs_write" => i \in 2 .. Len(s) - 1 /\ i >= Len(s) - 2
         /\ j.intent = "CreateProject" =>
              Len(s) = 4 /\ s[2] = "fs_write" /\ s[3] = "run_command"
<1> DEFINE w == Work(j)
           s == Stages(j)
<1>1. Wares(w) /\ (j.intent = "CreateProject" => w = <<"fs_write", "run_command">>)
  BY WorkWares
<1> HIDE DEF w
<1> DEFINE Ware ==
       /\ w \in Seq(Names) /\ Len(w) \in 0 .. 2
       /\ \A i \in 1 .. Len(w) : w[i] # "project_map" /\ w[i] # "finish"
       /\ \A i, k \in 1 .. Len(w) : w[i] = w[k] => i = k
       /\ \A i \in 1 .. Len(w) : w[i] = "fs_write" => i >= Len(w) - 1 /\ i = 1
       /\ j.intent = "CreateProject" =>
            Len(w) = 2 /\ w[1] = "fs_write" /\ w[2] = "run_command"
<1>2. Ware
  <2>1. CASE w = << >>
    BY <1>1, <2>1
  <2>2. ASSUME NEW t \in {"run_command", "web_search", "fetch_page", "fs_grep", "fs_write"},
               w = <<t>>
        PROVE  Ware
    BY <1>1, <2>2 DEF Names
  <2>3. CASE w = <<"fs_grep", "run_command">>
    BY <1>1, <2>3 DEF Names
  <2>4. CASE w = <<"fs_write", "run_command">>
    BY <1>1, <2>4 DEF Names
  <2> QED BY <1>1, <2>1, <2>2, <2>3, <2>4 DEF Wares
<1>3. "project_map" \in Names /\ "finish" \in Names
  BY DEF Names
<1>4. s = (<<"project_map">> \o w) \o <<"finish">>
  BY DEF Stages, w
<1> HIDE DEF s
<1>5. /\ s \in Seq(Names) /\ Len(s) = Len(w) + 2
      /\ s[1] = "project_map" /\ s[Len(w) + 2] = "finish"
      /\ \A i \in 1 .. Len(w) : s[i + 1] = w[i]
  BY <1>2, <1>3, <1>4, Middle
<1>6. \A i \in 1 .. Len(s) : i = 1 \/ i = Len(s) \/ (i - 1 \in 1 .. Len(w) /\ s[i] = w[i - 1])
  <2> SUFFICES ASSUME NEW i \in 1 .. Len(s), i # 1, i # Len(s)
               PROVE  i - 1 \in 1 .. Len(w) /\ s[i] = w[i - 1]
    OBVIOUS
  <2>1. i - 1 \in 1 .. Len(w) /\ (i - 1) + 1 = i
    BY <1>2, <1>5
  <2> QED BY <1>5, <2>1
<1>7. ASSUME NEW i \in 1 .. Len(s), NEW k \in 1 .. Len(s), s[i] = s[k] PROVE i = k
  <2>1. \A m \in 1 .. Len(s) : /\ s[m] = "project_map" => m = 1
                               /\ s[m] = "finish" => m = Len(s)
    BY <1>2, <1>5, <1>6
  <2>2. CASE i \in {1, Len(s)} \/ k \in {1, Len(s)}
    BY <1>2, <1>5, <1>7, <2>1, <2>2
  <2>3. CASE i \notin {1, Len(s)} /\ k \notin {1, Len(s)}
    <3>1. /\ i - 1 \in 1 .. Len(w) /\ s[i] = w[i - 1]
          /\ k - 1 \in 1 .. Len(w) /\ s[k] = w[k - 1]
      BY <1>6, <2>3
    <3>2. i - 1 = k - 1
      BY <1>2, <1>7, <3>1
    <3> QED BY <3>2
  <2> QED BY <2>2, <2>3
<1>8. \A i \in 1 .. Len(s) : s[i] = "fs_write" => i \in 2 .. Len(s) - 1 /\ i >= Len(s) - 2
  BY <1>2, <1>5, <1>6
<1>9. j.intent = "CreateProject" => Len(s) = 4 /\ s[2] = "fs_write" /\ s[3] = "run_command"
  <2>1. ASSUME Len(w) = 2 PROVE s[1 + 1] = w[1] /\ s[2 + 1] = w[2]
    BY <1>5, <2>1
  <2> QED BY <1>2, <1>5, <2>1
<1> QED BY <1>2, <1>5, <1>7, <1>8, <1>9 DEF s
(* Lists of the same elements are the same.                                 *)
LEMMA SameList ==
  ASSUME NEW S, NEW a \in Seq(S), NEW b \in Seq(S), Len(a) = Len(b),
         \A i \in 1 .. Len(a) : a[i] = b[i]
  PROVE  a = b
OBVIOUS

(* The first call of a stage is of its tool, and, but for the skeleton of a *)
(* project, the only one.                                                   *)
LEMMA StageCalls ==
  ASSUME NEW j, NEW t
  PROVE  LET c == Stage(j, t).calls IN
         /\ Len(c) \in Nat \ {0} /\ DOMAIN c = 1 .. Len(c) /\ c # << >>
         /\ c[1].tool = t
         /\ ~Scaffolds(j, t) => Len(c) = 1
         /\ Scaffolds(j, t) =>
              /\ Len(c) \in {Len(Files), Len(Files) + 1}
              /\ \A i \in 1 .. Len(Files) : c[i].tool = "fs_write"
              /\ Len(c) = Len(Files) + 1 => c[Len(c)].tool = "run_command"
         /\ Stage(j, t).text <=> Speaks(j, t)
<1> DEFINE c == Stage(j, t).calls
<1>1. Stage(j, t).text = Speaks(j, t) /\ c = IF Scaffolds(j, t) THEN Skeleton(j) ELSE <<Use(t)>>
  BY DEF Stage
<1>2. Speaks(j, t) \in BOOLEAN
  BY DEF Speaks, Scaffolds
<1>3. CASE ~Scaffolds(j, t)
  <2>1. c = <<Use(t)>>
    BY <1>1, <1>3
  <2>2. Use(t).tool = t
    BY DEF Use
  <2> HIDE DEF c
  <2>3. \A u : Len(<<u>>) = 1 /\ DOMAIN <<u>> = 1 .. 1 /\ <<u>>[1] = u /\ <<u>> # << >>
    OBVIOUS
  <2>4. Len(c) = 1 /\ DOMAIN c = 1 .. 1 /\ c[1] = Use(t) /\ c # << >>
    BY <2>1, <2>3, Zenon
  <2> QED BY <1>1, <1>2, <1>3, <2>2, <2>4 DEF c
<1>4. CASE Scaffolds(j, t)
  <2> DEFINE a == [i \in DOMAIN Files |-> [tool |-> "fs_write", arg |-> Files[i]]]
             b == IF j.language \in {"cpp", "python"} THEN <<Use("run_command")>> ELSE << >>
             S == [tool : {"fs_write"}, arg : Paths] \cup {Use("run_command")}
  <2>1. c = a \o b
    BY <1>1, <1>4 DEF Skeleton
  <2>2. Files \in Seq(Paths) /\ Len(Files) \in Nat \ {0} /\ DOMAIN Files = 1 .. Len(Files)
    BY FilesAssumption
  <2>3. a \in Seq(S) /\ Len(a) = Len(Files) /\ \A i \in 1 .. Len(Files) : a[i].tool = "fs_write"
    <3>1. a = [i \in 1 .. Len(Files) |-> [tool |-> "fs_write", arg |-> Files[i]]]
      BY <2>2
    <3>2. \A i \in 1 .. Len(Files) : [tool |-> "fs_write", arg |-> Files[i]] \in S
      BY <2>2
    <3>3. a \in [1 .. Len(Files) -> S]
      BY <3>1, <3>2
    <3>4. Len(a) = Len(Files) /\ a \in Seq(S)
      <4> HIDE DEF a, S
      <4> QED BY <2>2, <3>3
    <3> QED BY <3>1, <3>4
  <2>4. /\ b \in Seq(S) /\ Len(b) \in {0, 1}
        /\ Len(b) = 1 => b[1].tool = "run_command"
    <3>1. Use("run_command").tool = "run_command" /\ Use("run_command") \in S
      BY DEF Use
    <3>2. CASE b = << >>
      BY <3>2
    <3>3. CASE b = <<Use("run_command")>>
      <4> HIDE DEF b, S
      <4> QED BY <3>1, <3>3
    <3> QED BY <3>2, <3>3
  <2> HIDE DEF a, b, S, c
  <2>5. /\ Len(a \o b) = Len(a) + Len(b) /\ a \o b \in Seq(S)
        /\ \A i \in 1 .. Len(a) : (a \o b)[i] = a[i]
        /\ \A i \in 1 .. Len(b) : (a \o b)[Len(a) + i] = b[i]
    <3>1. a \in Seq(S) /\ b \in Seq(S)
      BY <2>3, <2>4
    <3> QED BY <3>1, Concat
  <2>6. c \in Seq(S) /\ Len(c) = Len(Files) + Len(b)
    BY <2>1, <2>3, <2>5
  <2>7. \A i \in 1 .. Len(Files) : c[i].tool = "fs_write"
    BY <2>1, <2>3, <2>5
  <2>8. Len(c) = Len(Files) + 1 => c[Len(c)].tool = "run_command"
    <3> SUFFICES ASSUME Len(c) = Len(Files) + 1 PROVE c[Len(c)].tool = "run_command"
      OBVIOUS
    <3>1. Len(b) = 1
      BY <2>2, <2>4, <2>6
    <3>2. (a \o b)[Len(a) + 1] = b[1]
      BY <2>5, <3>1
    <3> QED BY <2>1, <2>3, <2>4, <3>1, <3>2
  <2>9. t = "fs_write" /\ 1 \in 1 .. Len(Files)
    <3>1. t = "fs_write"
      BY <1>4 DEF Scaffolds
    <3>2. 1 \in 1 .. Len(Files)
      BY <2>2
    <3> QED BY <3>1, <3>2
  <2>10. /\ Len(c) \in Nat \ {0} /\ DOMAIN c = 1 .. Len(c) /\ c # << >>
         /\ Len(c) \in {Len(Files), Len(Files) + 1}
    <3> DEFINE f == Len(Files)
    <3>0. f \in Nat \ {0} /\ Len(c) = f + Len(b) /\ (Len(b) = 0 \/ Len(b) = 1)
      BY <2>2, <2>4, <2>6
    <3> HIDE DEF f
    <3>1. Len(c) \in Nat \ {0} /\ Len(c) \in {f, f + 1}
      <4>1. CASE Len(b) = 0
        BY <3>0, <4>1
      <4>2. CASE Len(b) = 1
        BY <3>0, <4>2
      <4> QED BY <3>0, <4>1, <4>2
    <3>2. DOMAIN c = 1 .. Len(c) /\ c # << >>
      BY <2>6, <3>1
    <3> QED BY <3>1, <3>2 DEF f
  <2> QED BY <1>1, <1>2, <1>4, <2>7, <2>8, <2>9, <2>10 DEF c
<1> QED BY <1>3, <1>4

(* What a message adds to what the transcript shows.                        *)
LEMMA AnyToolAppend ==
  ASSUME NEW h \in Seq(Message), NEW m \in Message, NEW t
  PROVE  AnyTool(Append(h, m), t) <=> AnyTool(h, t) \/ (m.role = "tool" /\ m.tool = t)
<1> DEFINE g == Append(h, m)
<1>1. /\ Len(g) = Len(h) + 1 /\ DOMAIN g = 1 .. Len(h) + 1 /\ DOMAIN h = 1 .. Len(h)
      /\ g[Len(h) + 1] = m /\ \A i \in 1 .. Len(h) : g[i] = h[i]
  OBVIOUS
<1> HIDE DEF g
<1>2. \A i \in 1 .. Len(h) + 1 : i = Len(h) + 1 \/ i \in 1 .. Len(h)
  OBVIOUS
<1>3. Len(h) + 1 \in 1 .. Len(h) + 1 /\ \A i \in 1 .. Len(h) : i \in 1 .. Len(h) + 1
  OBVIOUS
<1>4. AnyTool(g, t) <=> AnyTool(h, t) \/ (m.role = "tool" /\ m.tool = t)
  BY <1>1, <1>2, <1>3 DEF AnyTool
<1> QED BY <1>4 DEF g

(* A transcript that fits is shown whole.                                   *)
LEMMA WindowWhole ==
  ASSUME NEW h \in Seq(Message), h # << >>, Len(h) <= MaxHistory + 1, MaxHistory >= 1
  PROVE  Window(h) = h
<1>0. MaxHistory \in Nat /\ Len(h) \in Nat
  BY BudgetAssumption
<1>1. CASE Len(h) <= MaxHistory
  BY <1>0, <1>1 DEF Window
<1>2. CASE Len(h) = MaxHistory + 1
  <2> DEFINE tail == SubSeq(h, Len(h) - MaxHistory + 1, Len(h))
             first == <<h[1]>>
  <2>1. h[1] \in Message /\ first \in Seq(Message) /\ Len(first) = 1 /\ first[1] = h[1]
    BY <1>2
  <2>2. Len(h) - MaxHistory + 1 = 2
    BY <1>0, <1>2
  <2>3. /\ tail \in Seq(Message) /\ Len(tail) = Len(h) - 1
        /\ \A i \in 1 .. Len(h) - 1 : tail[i] = h[i + 1]
    BY <1>2, <2>2
  <2>4. Window(h) = first \o tail
    BY <1>0, <1>2 DEF Window
  <2> HIDE DEF first, tail
  <2>5. /\ first \o tail \in Seq(Message) /\ Len(first \o tail) = Len(first) + Len(tail)
        /\ \A i \in 1 .. Len(first) : (first \o tail)[i] = first[i]
        /\ \A i \in 1 .. Len(tail) : (first \o tail)[Len(first) + i] = tail[i]
    <3>1. first \in Seq(Message) /\ tail \in Seq(Message)
      BY <2>1, <2>3
    <3> QED BY <3>1, Concat
  <2> DEFINE w == first \o tail
  <2>6. w \in Seq(Message) /\ Len(w) = Len(h) /\ w[1] = h[1]
    BY <2>1, <2>3, <2>5
  <2>7. \A i \in 1 .. Len(h) - 1 : w[1 + i] = h[i + 1]
    BY <2>1, <2>3, <2>5
  <2> HIDE DEF w
  <2>8. ASSUME NEW i \in 1 .. Len(h) PROVE w[i] = h[i]
    <3>1. CASE i = 1
      BY <2>6, <3>1
    <3>2. CASE i # 1
      <4>1. i - 1 \in 1 .. Len(h) - 1 /\ 1 + (i - 1) = i /\ (i - 1) + 1 = i
        BY <3>2
      <4> QED BY <2>7, <4>1
    <3> QED BY <3>1, <3>2
  <2>9. w = h
    BY <2>6, <2>8, SameList
  <2> QED BY <2>4, <2>9 DEF w
<1> QED BY <1>0, <1>1, <1>2

-----------------------------------------------------------------------------
(* The record of the stages, as it grows.                                   *)
LEMMA StepsAppend ==
  ASSUME NEW steps \in Seq(StepRecord), NEW s \in StepRecord
  PROVE  LET more == Append(steps, s)
             here == Len(steps) + 1 IN
         /\ Made(more) = IF s.verification THEN Made(steps) ELSE Made(steps) \cup {here}
         /\ Made(steps) \subseteq 1 .. Len(steps)
         /\ \A i \in Made(steps) : more[i].tool = steps[i].tool /\ i < here
         /\ more[here] = s
<1> DEFINE more == Append(steps, s)
           here == Len(steps) + 1
<1>1. /\ DOMAIN more = 1 .. here /\ DOMAIN steps = 1 .. Len(steps)
      /\ more[here] = s /\ \A i \in 1 .. Len(steps) : more[i] = steps[i]
  OBVIOUS
<1>2. /\ here \in 1 .. here /\ Len(steps) \in Nat
      /\ \A i \in 1 .. here : i = here \/ i \in 1 .. Len(steps)
      /\ \A i \in 1 .. Len(steps) : i \in 1 .. here /\ i < here
  OBVIOUS
<1> HIDE DEF more, here
<1>3. Made(more) = IF s.verification THEN Made(steps) ELSE Made(steps) \cup {here}
  BY <1>1, <1>2 DEF Made
<1>4. Made(steps) \subseteq 1 .. Len(steps)
  BY <1>1 DEF Made
<1> QED BY <1>1, <1>2, <1>3, <1>4 DEF more, here

(* A verification is no stage.                                              *)
LEMMA InStagesVerified ==
  ASSUME NEW steps \in Seq(StepRecord), NEW s \in StepRecord, s.verification,
         NEW j, NEW n \in Nat, InStages(j, steps, n)
  PROVE  InStages(j, Append(steps, s), n)
<1> DEFINE more == Append(steps, s)
<1>1. Made(more) = Made(steps) /\ \A i \in Made(steps) : more[i].tool = steps[i].tool
  BY StepsAppend
<1> HIDE DEF more
<1>2. InStages(j, more, n)
  BY <1>1 DEF InStages
<1> QED BY <1>2 DEF more

(* The next stage, or another call of the skeleton of a project.            *)
LEMMA InStagesCall ==
  ASSUME NEW steps \in Seq(StepRecord), NEW s \in StepRecord, ~s.verification,
         NEW j, NEW m \in Nat, NEW n \in 1 .. Len(Stages(j)), InStages(j, steps, m),
         s.tool = Stages(j)[n], n = m + 1 \/ (n = m /\ Scaffolds(j, s.tool))
  PROVE  InStages(j, Append(steps, s), n)
<1> DEFINE more == Append(steps, s)
           here == Len(steps) + 1
           stages == Stages(j)
<1>0. /\ n \in Nat /\ n # 0 /\ s.tool = stages[n]
      /\ \A i, k \in 1 .. n : stages[i] = stages[k] => i = k
  <2>1. /\ Len(stages) \in 2 .. 4 /\ s.tool = stages[n]
        /\ \A i, k \in 1 .. Len(stages) : stages[i] = stages[k] => i = k
    BY PlanShape
  <2> HIDE DEF stages
  <2>2. n \in Nat /\ n # 0 /\ n <= Len(stages)
    BY <2>1 DEF stages
  <2>3. \A i \in 1 .. n : i \in 1 .. Len(stages)
    BY <2>1, <2>2
  <2> QED BY <2>1, <2>2, <2>3
<1>1. /\ Made(more) = Made(steps) \cup {here} /\ more[here] = s
      /\ \A i \in Made(steps) : more[i].tool = steps[i].tool /\ i < here /\ i \in Nat
  BY StepsAppend
<1>2. here \in Nat
  OBVIOUS
<1> HIDE DEF more, here, stages
<1>3. /\ n \in 1 .. n /\ \A k \in 1 .. m : k \in 1 .. n
      /\ \A k \in 1 .. n : k <= n /\ (k = n \/ k \in 1 .. m)
  BY <1>0
<1>4. \A i \in Made(steps) : \E k \in 1 .. m : steps[i].tool = stages[k]
  BY DEF InStages, stages
<1>5. {more[i].tool : i \in Made(more)} = {stages[k] : k \in 1 .. n}
  <2>1. ASSUME NEW i \in Made(more) PROVE \E k \in 1 .. n : more[i].tool = stages[k]
    BY <1>0, <1>1, <1>3, <1>4
  <2>2. ASSUME NEW k \in 1 .. n PROVE \E i \in Made(more) : more[i].tool = stages[k]
    <3>1. CASE k = n
      BY <1>0, <1>1, <3>1
    <3>2. CASE k \in 1 .. m
      <4>1. stages[k] \in {steps[i].tool : i \in Made(steps)}
        BY <3>2 DEF InStages, stages
      <4> QED BY <1>0, <1>1, <4>1
    <3> QED BY <1>0, <1>3, <3>1, <3>2
  <2>3. {more[i].tool : i \in Made(more)} \subseteq {stages[k] : k \in 1 .. n}
    BY <2>1
  <2>4. {stages[k] : k \in 1 .. n} \subseteq {more[i].tool : i \in Made(more)}
    BY <2>2
  <2> QED BY <2>3, <2>4
<1>6. ASSUME NEW i \in Made(more), NEW q \in Made(more), NEW k \in 1 .. n, NEW l \in 1 .. n,
             i < q, more[i].tool = stages[k], more[q].tool = stages[l]
      PROVE  k <= l
  <2>1. CASE q = here
    <3>1. l = n
      BY <1>0, <1>1, <1>3, <1>6, <2>1
    <3> QED BY <1>0, <1>3, <3>1
  <2>2. CASE i = here
    <3>1. q \in Made(steps)
      BY <1>0, <1>1, <1>2, <1>6, <2>2
    <3>2. here < q /\ q < here /\ q \in Nat
      BY <1>0, <1>1, <1>6, <2>2, <3>1
    <3>3. \A a, b \in Nat : ~(a < b /\ b < a)
      OBVIOUS
    <3> QED BY <1>2, <3>2, <3>3
  <2>3. CASE i \in Made(steps) /\ q \in Made(steps)
    <3>1. steps[i].tool = stages[k] /\ steps[q].tool = stages[l]
      BY <1>0, <1>1, <1>6, <2>3
    <3>2. k \in 1 .. m /\ l \in 1 .. m
      BY <1>0, <1>3, <1>4, <2>3, <3>1
    <3> QED BY <1>6, <2>3, <3>1, <3>2 DEF InStages, stages
  <2> QED BY <1>0, <1>1, <2>1, <2>2, <2>3
<1>7. ASSUME NEW i \in Made(more), NEW q \in Made(more), i # q, more[i].tool = more[q].tool
      PROVE  Scaffolds(j, more[i].tool)
  <2>1. CASE i \in Made(steps) /\ q \in Made(steps)
    BY <1>0, <1>1, <1>7, <2>1 DEF InStages, stages
  <2>2. ASSUME NEW o \in Made(steps), more[o].tool = stages[n]
        PROVE  Scaffolds(j, stages[n])
    <3>1. PICK k \in 1 .. m : steps[o].tool = stages[k]
      BY <1>4
    <3>2. k = n
      BY <1>0, <1>1, <1>3, <2>2, <3>1
    <3>3. n # m + 1
      BY <1>0, <3>1, <3>2
    <3> QED BY <1>0, <3>3
  <2>3. \/ i = here /\ q \in Made(steps) /\ more[i].tool = stages[n]
        \/ q = here /\ i \in Made(steps) /\ more[i].tool = stages[n]
        \/ i \in Made(steps) /\ q \in Made(steps)
    BY <1>0, <1>1, <1>7
  <2> QED BY <1>7, <2>1, <2>2, <2>3
<1>8. InStages(j, more, n)
  BY <1>5, <1>6, <1>7 DEF InStages, stages
<1> QED BY <1>8 DEF more, stages

-----------------------------------------------------------------------------
(* One step of a plan.                                                      *)
(* The stages of the task being run (Order).                                *)
LEMMA OrderShape ==
  /\ Len(Order) \in 2 .. 4 /\ DOMAIN Order = 1 .. Len(Order)
  /\ Order[1] = "project_map" /\ Order[Len(Order)] = "finish"
  /\ \A i \in DOMAIN Order : Order[i] \in Names
  /\ \A i, k \in DOMAIN Order : Order[i] = Order[k] => i = k
  /\ \A i \in DOMAIN Order : Order[i] = "fs_write" =>
       i \in 2 .. Len(Order) - 1 /\ i >= Len(Order) - 2
  /\ Project => Len(Order) = 4 /\ Order[2] = "fs_write" /\ Order[3] = "run_command"
<1>1. Order \in Seq(Names) /\ Len(Order) \in 2 .. 4
  BY PlanShape DEF Order
<1>2. DOMAIN Order = 1 .. Len(Order) /\ \A i \in DOMAIN Order : Order[i] \in Names
  BY <1>1
<1>3. /\ Order[1] = "project_map" /\ Order[Len(Order)] = "finish"
      /\ Project => Len(Order) = 4 /\ Order[2] = "fs_write" /\ Order[3] = "run_command"
      /\ \A i, k \in 1 .. Len(Order) : Order[i] = Order[k] => i = k
      /\ \A i \in 1 .. Len(Order) : Order[i] = "fs_write" =>
           i \in 2 .. Len(Order) - 1 /\ i >= Len(Order) - 2
  BY PlanShape DEF Order, Project
<1> QED BY <1>1, <1>2, <1>3

(* A new task has all of its stages before it.                              *)
LEMMA TaskPlanned ==
  ASSUME NEW j \in Jobs, GiveTask(j), brain' = "heuristic"
  PROVE  PlanAt(0)'
<1>1. /\ pc' = "brain" /\ step' = 0 /\ history' = <<TaskMsg>> /\ lastTool' = << >>
      /\ edited' = FALSE /\ verifiedOnce' = FALSE /\ report' = EmptyReport
  BY DEF GiveTask, StartTask
<1>2. Len(Order)' \in 2 .. 4
  <2>1. (Len(Order) \in 2 .. 4)'
    BY OrderShape, PTL
  <2> QED BY <2>1
<1>3. InStages(job', report'.steps, 0)
  <2>1. report'.steps = << >>
    BY <1>1 DEF EmptyReport
  <2>2. Made(<< >>) = {} /\ 1 .. 0 = {}
    BY DEF Made
  <2> QED BY <2>1, <2>2 DEF InStages
<1>4. \A t : ~AnyTool(history', t)
  <2>1. DOMAIN history' = 1 .. 1 /\ history'[1] = TaskMsg /\ Len(history') = 1
    BY <1>1
  <2>2. TaskMsg.role = "user"
    BY DEF TaskMsg
  <2> QED BY <2>1, <2>2 DEF AnyTool
<1>5. \A i \in DOMAIN Order' : AnyTool(history', Order'[i]) <=> i <= 0
  <2>1. (DOMAIN Order = 1 .. Len(Order))'
    BY OrderShape, PTL
  <2> QED BY <1>2, <1>4, <2>1
<1>6. Done(0)'
  BY <1>3, <1>5 DEF Done
<1>7. AtBrain(0)'
  <2>1. Len(history') = 1
    BY <1>1
  <2> QED BY <1>1, <1>2, <2>1 DEF AtBrain, Began, Room
<1>8. report'.summary = "none"
  BY <1>1 DEF EmptyReport
<1> QED BY <1>1, <1>6, <1>7, <1>8 DEF PlanAt

(* The planner's reply is the first stage that is not yet done.             *)
LEMMA NextPlanned ==
  ASSUME NEW k \in 0 .. Len(Order), Done(k), pc = "brain", k < Len(Order)
  PROVE  k + 1 \in DOMAIN Order /\ Plan(job, history) = Stage(job, Order[k + 1])
<1> DEFINE left == {i \in DOMAIN Order : ~AnyTool(history, Order[i])}
           first == CHOOSE i \in left : \A m \in left : i <= m
<1>1. DOMAIN Order = 1 .. Len(Order) /\ Len(Order) \in Nat
  BY OrderShape
<1>2. k \in Nat /\ k + 1 \in DOMAIN Order
  BY <1>1
<1>3. \A i \in DOMAIN Order : i \in left <=> k + 1 <= i
  <2>1. \A i \in DOMAIN Order : AnyTool(history, Order[i]) <=> i <= k
    BY DEF Done
  <2> QED BY <1>1, <1>2, <2>1
<1>4. k + 1 \in left /\ \A m \in left : k + 1 <= m /\ m \in Nat
  BY <1>1, <1>2, <1>3
<1> HIDE DEF left
<1>5. first = k + 1
  <2>1. first \in left /\ \A m \in left : first <= m
    BY <1>4
  <2>2. first <= k + 1 /\ k + 1 <= first /\ first \in Nat
    BY <1>4, <2>1
  <2> HIDE DEF first
  <2> QED BY <1>2, <2>2
<1>6. Plan(job, history) = IF left = {} THEN NoReply ELSE Stage(job, Order[first])
  BY DEF Plan, Order, left
<1> QED BY <1>2, <1>4, <1>5, <1>6

(* The brain begins it.                                                     *)
LEMMA BrainPlanned ==
  ASSUME TypeOK, NEW k \in 0 .. Len(Order), PlanAt(k), HeuristicStep
  PROVE  PlanAt(k)'
<1> DEFINE r == Plan(job, history)
           p == k + 1
<1>1. /\ pc = "brain" /\ AtBrain(k) /\ Done(k) /\ report.summary = "none"
      /\ job' = job /\ Order' = Order /\ history \in Seq(Message)
  BY DEF PlanAt, HeuristicStep, BrainReplies, Order, TypeOK
<1>2. p \in DOMAIN Order /\ r = Stage(job, Order[p])
  BY <1>1, NextPlanned DEF AtBrain
<1>3. r.calls # << >>
  BY <1>2, StageCalls
<1> HIDE DEF r
<1>4. /\ pc' = "call" /\ reply' = r /\ next' = 1 /\ sawEdit' = FALSE /\ sawFinish' = FALSE
      /\ report' = report /\ history' = IF r.text THEN Append(history, AssistantMsg) ELSE history
      /\ UNCHANGED <<step, lastTool, edited, verifiedOnce>>
  BY <1>3 DEF HeuristicStep, BrainReplies, r, guard
<1>5. AssistantMsg \in Message /\ AssistantMsg.role = "assistant"
  BY DEF AssistantMsg, Message
<1>6. \A t : AnyTool(history', t) <=> AnyTool(history, t)
  BY <1>1, <1>4, <1>5, AnyToolAppend
<1>7. Len(history') <= Len(history) + (IF r.text THEN 1 ELSE 0) /\ Len(history) \in Nat
  BY <1>1, <1>4, <1>5
<1>8. Done(k)'
  BY <1>1, <1>4, <1>6 DEF Done
<1>9. k \in Nat /\ p - 1 = k /\ (verifiedOnce => p = Len(Order))
  <2>1. Len(Order) \in Nat /\ k \in Nat
    BY OrderShape
  <2>2. k = Len(Order) - 1 => p = Len(Order)
    BY <2>1
  <2>3. verifiedOnce => k = Len(Order) - 1
    BY <1>1 DEF AtBrain
  <2> QED BY <2>1, <2>2, <2>3
<1>10. Stepping(p)'
  <2>1. step <= k /\ Began(k) /\ (edited => Wrote(k))
    BY <1>1 DEF AtBrain
  <2>2. Began(k)' /\ (edited' => Wrote(k)')
    BY <1>1, <1>4, <2>1 DEF Began, Wrote
  <2> HIDE DEF p
  <2> QED BY <1>1, <1>2, <1>4, <1>9, <2>1, <2>2 DEF Stepping
<1>11. AtCall(k, p)'
  <2>1. Room(k)' = Room(k)
    BY <1>1 DEF Room, Project
  <2>2. ~verifiedOnce' => Len(history') <= Room(k)' + (IF reply'.text THEN 1 ELSE 0)
    <3>1. Room(k) \in Nat
      BY <1>9, FilesAssumption DEF Room
    <3> QED BY <1>1, <1>4, <1>7, <2>1, <3>1 DEF AtBrain
  <2> HIDE DEF p
  <2> QED BY <1>1, <1>4, <1>9, <1>10, <2>2 DEF AtCall
<1> QED BY <1>1, <1>2, <1>4, <1>8, <1>11 DEF PlanAt

(* A call makes room for its result: what the transcript holds when a stage *)
(* is begun, the text that announces it and the result fit what it may hold *)
(* when the stage is done.                                                  *)
LEMMA RoomForStage ==
  ASSUME NEW p \in DOMAIN Order, p < Len(Order)
  PROVE  /\ Room(p) \in Nat /\ Room(p - 1) \in Nat
         /\ Room(p - 1) + (IF Speaks(job, Order[p]) THEN 1 ELSE 0) + 1 <= Room(p)
         /\ p = 2 => Room(p - 1) + (IF Speaks(job, Order[p]) THEN 1 ELSE 0) + 1 <= 5
<1>1. /\ Len(Files) \in Nat /\ Len(Files) >= 1
  BY FilesAssumption
<1>2. p \in 1 .. 3 /\ Len(Order) \in 2 .. 4
  BY OrderShape
<1>3. Order[p] # "finish"
  BY <1>2, OrderShape
<1>4. p = 1 <=> Order[p] = "project_map"
  BY <1>2, OrderShape
<1>5. Scaffolds(job, Order[p]) <=> Project /\ p = 2
  <2>1. Project => 2 \in DOMAIN Order /\ Order[2] = "fs_write"
    BY OrderShape
  <2>2. Project /\ Order[p] = "fs_write" => p = 2
    BY <2>1, OrderShape
  <2> QED BY <2>1, <2>2 DEF Scaffolds, Project
<1>6. Speaks(job, Order[p]) <=> p = 1 \/ (Project /\ p = 2)
  BY <1>3, <1>4, <1>5 DEF Speaks
<1>7. CASE p = 1
  BY <1>1, <1>6, <1>7 DEF Room
<1>8. CASE p = 2 /\ Project
  BY <1>1, <1>6, <1>8 DEF Room
<1>9. CASE p = 2 /\ ~Project
  BY <1>1, <1>6, <1>9 DEF Room
<1>10. CASE p = 3
  BY <1>1, <1>6, <1>10 DEF Room
<1> QED BY <1>2, <1>7, <1>8, <1>9, <1>10

(* What a call does, of which only the tool matters to the plan.            *)
CallSeen(t, o) ==
  /\ t \in Tools /\ report'.summary = report.summary
  /\ report'.steps = Append(report.steps, [tool |-> t, ok |-> o.res = "ok",
                                           verification |-> FALSE])
  /\ report'.finished = (report.finished \/ t = "finish")
  /\ history' = Append(history, ToolMsg(t, o.res = "ok"))
  /\ edited' = (edited \/ (o.res = "ok" /\ t \in EditTools))
  /\ sawEdit' = (sawEdit \/ (o.res = "ok" /\ t \in EditTools))
  /\ sawFinish' = (sawFinish \/ t = "finish")
  /\ IF next < Len(reply.calls)
     THEN next' = next + 1 /\ pc' = "call"
     ELSE next' = next /\ pc' = "close"
  /\ UNCHANGED <<step, reply, lastTool, verifiedOnce>>
LEMMA CallMeans ==
  ASSUME TypeOK, NEW o \in Outcome, ExecuteCall(o)
  PROVE  CallSeen(reply.calls[next].tool, o)
<1> DEFINE call == reply.calls[next]
<1>1. reply \in Replies /\ next \in DOMAIN reply.calls
  BY DEF ExecuteCall, TypeOK, ControlOK
<1>2. reply.calls \in Seq(Call)
  BY <1>1, RepliesAssumption DEF Reply
<1>3. call \in Call
  BY <1>1, <1>2
<1>4. call.tool \in Tools
  BY <1>3 DEF Call
<1>5. report \in Report
  BY DEF TypeOK
<1>6. /\ report'.summary = report.summary
      /\ report'.steps = Append(report.steps, [tool |-> call.tool, ok |-> o.res = "ok",
                                               verification |-> FALSE])
      /\ report'.finished = (report.finished \/ call.tool = "finish")
  BY <1>5 DEF ExecuteCall, Report
<1>7. /\ history' = Append(history, ToolMsg(call.tool, o.res = "ok"))
      /\ edited' = (edited \/ (o.res = "ok" /\ call.tool \in EditTools))
      /\ sawEdit' = (sawEdit \/ (o.res = "ok" /\ call.tool \in EditTools))
      /\ sawFinish' = (sawFinish \/ call.tool = "finish")
      /\ IF next < Len(reply.calls)
         THEN next' = next + 1 /\ pc' = "call"
         ELSE next' = next /\ pc' = "close"
      /\ UNCHANGED <<step, reply, lastTool, verifiedOnce>>
  BY DEF ExecuteCall, guard
<1> QED BY <1>4, <1>6, <1>7 DEF CallSeen

(* The call of a stage is seen in the report and in the transcript.         *)
LEMMA CallDone ==
  ASSUME TypeOK, job' = job, pc = "call", NEW t, NEW o, CallSeen(t, o),
         NEW m \in Nat, NEW n \in DOMAIN Order, Done(m), t = Order[n],
         n = m + 1 \/ (n = m /\ Scaffolds(job, t))
  PROVE  Done(n)' /\ Len(history') = Len(history) + 1
<1>1. Order' = Order /\ n \in 1 .. Len(Stages(job)) /\ t = Stages(job)[n]
  BY OrderShape DEF Order
<1> DEFINE s == [tool |-> t, ok |-> o.res = "ok", verification |-> FALSE]
           g == ToolMsg(t, o.res = "ok")
<1>2. s \in StepRecord /\ s.tool = t /\ ~s.verification
  BY DEF CallSeen, StepRecord
<1>3. g \in Message /\ g.role = "tool" /\ g.tool = t
  BY DEF CallSeen, ToolMsg, Message
<1>4. report'.steps = Append(report.steps, s) /\ history' = Append(history, g)
  BY DEF CallSeen
<1>5. report.steps \in Seq(StepRecord) /\ history \in Seq(Message)
  BY DEF TypeOK, Report
<1> HIDE DEF s, g
<1>6. InStages(job, report'.steps, n)
  <2>1. InStages(job, report.steps, m)
    BY DEF Done
  <2> QED BY <1>1, <1>2, <1>4, <1>5, <2>1, InStagesCall
<1>7. \A i \in DOMAIN Order : AnyTool(history', Order[i]) <=> i <= n
  <2>1. \A i \in DOMAIN Order : AnyTool(history, Order[i]) <=> i <= m
    BY DEF Done
  <2>2. \A i \in DOMAIN Order : AnyTool(history', Order[i]) <=> i <= m \/ Order[i] = t
    BY <1>3, <1>4, <1>5, <2>1, AnyToolAppend
  <2>3. \A i \in DOMAIN Order : Order[i] = t <=> i = n
    BY OrderShape
  <2>4. n \in Nat /\ \A i \in DOMAIN Order : i \in Nat
    BY OrderShape
  <2>5. \A i \in DOMAIN Order : i <= m \/ i = n <=> i <= n
    BY <2>4
  <2> QED BY <2>2, <2>3, <2>5
<1>8. Len(history') = Len(history) + 1
  BY <1>3, <1>4, <1>5
<1>9. Done(n)'
  BY <1>1, <1>6, <1>7 DEF Done
<1> QED BY <1>8, <1>9

(* It leaves alone what the end of the step will look at.                   *)
LEMMA CallStepping ==
  ASSUME TypeOK, TypeOK', job' = job, NEW t, NEW o, CallSeen(t, o), NEW p, Stepping(p),
         t \in EditTools => Order[p] = "fs_write"
  PROVE  Stepping(p)'
<1>1. Order' = Order
  BY DEF Order
<1>2. reply' = reply /\ step' = step /\ lastTool' = lastTool
  BY DEF CallSeen
<1>3. Began(p - 1)' /\ (Wrote(p - 1)' <=> Wrote(p - 1))
  BY <1>1, <1>2 DEF Stepping, Began, Wrote
<1>4. sawEdit' => sawEdit \/ t \in EditTools
  BY DEF CallSeen
<1>5. edited' /\ ~sawEdit' => edited /\ ~sawEdit
  BY DEF CallSeen
<1>6. sawEdit' => Order'[p] = "fs_write"
  BY <1>1, <1>4 DEF Stepping
<1>7. edited' /\ ~sawEdit' => Wrote(p - 1)'
  BY <1>3, <1>5 DEF Stepping
<1> QED BY <1>1, <1>2, <1>3, <1>6, <1>7 DEF Stepping

(* Hence a call does a stage, or goes on with the skeleton of a project.    *)
LEMMA CallPlanned ==
  ASSUME TypeOK, TypeOK', NEW k \in 0 .. Len(Order), PlanAt(k), job' = job,
         NEW o \in Outcome, ExecuteCall(o)
  PROVE  \E m \in 0 .. Len(Order) : PlanAt(m)'
<1> DEFINE t == reply.calls[next].tool
           c == reply.calls
           F == Len(Files)
<1>1. pc = "call" /\ report.summary = "none" /\ Done(k)
  BY DEF PlanAt, ExecuteCall
<1>2. PICK p \in DOMAIN Order : AtCall(k, p)
  BY <1>1 DEF PlanAt
<1>3. CallSeen(t, o)
  BY CallMeans
<1>4. /\ Stepping(p) /\ ~sawFinish /\ (verifiedOnce => p = Len(Order))
      /\ c = Stage(job, Order[p]).calls /\ reply.text = Stage(job, Order[p]).text
  BY <1>2 DEF AtCall, Stepping
<1>5. /\ Len(c) \in Nat \ {0} /\ DOMAIN c = 1 .. Len(c)
      /\ c[1].tool = Order[p]
      /\ ~Scaffolds(job, Order[p]) => Len(c) = 1
      /\ Scaffolds(job, Order[p]) =>
           /\ Len(c) \in {F, F + 1}
           /\ \A i \in 1 .. F : c[i].tool = "fs_write"
           /\ Len(c) = F + 1 => c[Len(c)].tool = "run_command"
      /\ reply.text <=> Speaks(job, Order[p])
  BY <1>4, StageCalls
<1>6. F \in Nat /\ F >= 1
  BY FilesAssumption
<1>7. Order' = Order /\ \A m : Room(m)' = Room(m)
  BY DEF Order, Room, Project
<1>8. /\ p \in Nat /\ p >= 1 /\ p <= Len(Order) /\ Len(Order) \in Nat /\ k \in Nat
      /\ Len(Order) <= 4
  BY OrderShape
<1>9. next \in DOMAIN c /\ next \in Nat /\ Len(history) \in Nat
  BY <1>1 DEF TypeOK, ControlOK
<1>10. verifiedOnce \in BOOLEAN /\ sawFinish \in BOOLEAN /\ sawEdit \in BOOLEAN
  BY DEF TypeOK, FlagsOK
<1> HIDE DEF c, t, F
<1>11. /\ verifiedOnce' = verifiedOnce /\ reply' = reply /\ report'.summary = "none"
       /\ report'.finished = (report.finished \/ t = "finish")
       /\ sawFinish' = (t = "finish")
       /\ IF next < Len(c) THEN next' = next + 1 /\ pc' = "call"
                           ELSE next' = next /\ pc' = "close"
  BY <1>1, <1>3, <1>4, <1>10 DEF CallSeen, c
(* The first call of a stage.                                               *)
<1>12. CASE /\ next = 1 /\ k = p - 1 /\ ~sawEdit
            /\ ~verifiedOnce => Len(history) <= Room(k) + (IF reply.text THEN 1 ELSE 0)
  <2>1. t = Order[p]
    BY <1>5, <1>12 DEF t, c
  <2>2. Done(p)' /\ Len(history') = Len(history) + 1
    BY <1>1, <1>3, <1>8, <1>12, <2>1, CallDone
  <2>3. Stepping(p)'
    <3>1. Order[p] \in Names /\ (Order[p] \in Names /\ Order[p] \in EditTools => Order[p] = "fs_write")
      BY OrderShape DEF Names, EditTools
    <3> QED BY <1>3, <1>4, <2>1, <3>1, CallStepping
  <2>4. t = "finish" <=> p = Len(Order)
    BY <1>8, <2>1, OrderShape
  <2>5. p < Len(Order) => ~verifiedOnce /\ Len(history') <= Room(p) /\ Room(p) \in Nat
                          /\ (p = 2 => Len(history') <= 5)
    <3> SUFFICES ASSUME p < Len(Order)
                 PROVE  /\ ~verifiedOnce /\ Len(history') <= Room(p) /\ Room(p) \in Nat
                        /\ (p = 2 => Len(history') <= 5)
      OBVIOUS
    <3>1. ~verifiedOnce
      BY <1>4, <1>8
    <3> DEFINE w == IF Speaks(job, Order[p]) THEN 1 ELSE 0
    <3>2. /\ Room(p) \in Nat /\ Room(k) \in Nat
          /\ Room(k) + w + 1 <= Room(p) /\ (p = 2 => Room(k) + w + 1 <= 5)
      BY <1>12, RoomForStage
    <3>3. Len(history) <= Room(k) + w /\ w \in Nat
      BY <1>5, <1>12, <3>1
    <3> HIDE DEF w
    <3> QED BY <1>9, <2>2, <3>1, <3>2, <3>3
  <2>6. CASE pc' = "close"
    <3>1. AtClose(p, p)'
      BY <1>7, <1>11, <2>3, <2>4, <2>5, <2>6 DEF AtClose
    <3>2. p \in 0 .. Len(Order)
      BY <1>8
    <3> QED BY <1>7, <1>11, <2>2, <2>6, <3>1, <3>2 DEF PlanAt
  <2>7. CASE pc' = "call"
    <3>1. next < Len(c) /\ next' = 2
      BY <1>11, <1>12, <2>7
    <3>2. Scaffolds(job, Order[p])
      BY <1>5, <1>12, <3>1
    <3>3. Project /\ Order[p] = "fs_write"
      BY <3>2 DEF Scaffolds, Project
    <3>4. p = 2 /\ Len(Order) = 4
      <4>1. Len(Order) = 4 /\ Order[2] = "fs_write" /\ 2 \in DOMAIN Order
        BY <3>3, OrderShape
      <4> QED BY <3>3, <4>1, OrderShape
    <3>5. next' <= F + 1 /\ Len(history') <= 3 + next' /\ ~verifiedOnce
      <4>1. next' = 2 /\ 2 <= F + 1 /\ ~verifiedOnce /\ Len(history') <= 5
        BY <1>6, <2>5, <3>1, <3>4
      <4> QED BY <4>1
    <3>6. Project' /\ ~sawFinish'
      <4>1. t # "finish"
        BY <2>4, <3>4
      <4>2. Project'
        BY <3>3 DEF Project
      <4> QED BY <1>11, <4>1, <4>2
    <3>7. AtCall(2, 2)'
      BY <1>11, <2>3, <3>1, <3>4, <3>5, <3>6 DEF AtCall, F
    <3>8. 2 \in 0 .. Len(Order) /\ 2 \in DOMAIN Order'
      BY <1>7, <3>4
    <3> QED BY <1>7, <1>11, <2>2, <2>7, <3>4, <3>7, <3>8 DEF PlanAt
  <2> QED BY <1>11, <2>6, <2>7
(* A later call of the skeleton of a project.                               *)
<1>13. CASE /\ next > 1 /\ k = 2 /\ p = 2 /\ Project
            /\ next <= F + 1 /\ Len(history) <= 3 + next
  <2>1. /\ Len(Order) = 4 /\ Order[2] = "fs_write" /\ Order[3] = "run_command"
        /\ 2 \in DOMAIN Order /\ 3 \in DOMAIN Order /\ Scaffolds(job, Order[2])
    BY <1>13, OrderShape DEF Scaffolds, Project
  <2>2. ~verifiedOnce /\ Project' /\ Room(2) = F + 4 /\ Room(3) = F + 5
    BY <1>4, <1>6, <1>13, <2>1 DEF Room, Project, F
  <2>3. Stepping(2)'
    BY <1>3, <1>4, <1>13, <2>1, CallStepping
  <2>4. CASE next <= F
    <3>1. t = "fs_write" /\ ~sawFinish'
      <4>1. next \in 1 .. F
        BY <1>6, <1>9, <1>13, <2>4
      <4>2. c[next].tool = "fs_write"
        BY <1>5, <1>13, <2>1, <4>1
      <4> QED BY <1>11, <4>2 DEF t, c
    <3>2. Done(2)' /\ Len(history') = Len(history) + 1
      BY <1>1, <1>3, <1>13, <2>1, <3>1, CallDone
    <3>3. CASE pc' = "close"
      <4>1. next = F
        <5>1. (Len(c) = F \/ Len(c) = F + 1) /\ ~(next < Len(c))
          BY <1>5, <1>11, <1>13, <2>1, <3>3
        <5>2. CASE Len(c) = F
          BY <1>6, <1>9, <2>4, <5>1, <5>2
        <5>3. CASE Len(c) = F + 1
          BY <1>6, <1>9, <2>4, <5>1, <5>3
        <5> QED BY <5>1, <5>2, <5>3
      <4>2. Len(history') <= Room(2)'
        BY <1>6, <1>7, <1>9, <1>13, <2>2, <3>2, <4>1
      <4>3. AtClose(2, 2)'
        BY <1>7, <1>11, <2>1, <2>2, <2>3, <3>1, <4>2 DEF AtClose
      <4>4. 2 \in 0 .. Len(Order)
        BY <2>1
      <4> QED BY <1>7, <1>11, <2>1, <3>2, <3>3, <4>3, <4>4 DEF PlanAt
    <3>4. CASE pc' = "call"
      <4>1. next' = next + 1 /\ next < Len(c)
        BY <1>11, <3>4
      <4>2. next' > 1 /\ next' <= F + 1 /\ Len(history') <= 3 + next'
        BY <1>6, <1>9, <1>13, <2>4, <3>2, <4>1
      <4>3. AtCall(2, 2)'
        BY <1>11, <2>2, <2>3, <3>1, <4>2 DEF AtCall, F
      <4>4. 2 \in 0 .. Len(Order)
        BY <2>1
      <4> QED BY <1>7, <1>11, <2>1, <3>2, <3>4, <4>3, <4>4 DEF PlanAt
    <3> QED BY <1>11, <3>3, <3>4
  <2>5. CASE next = F + 1
    <3>1. Len(c) = F + 1
      <4>1. (Len(c) = F \/ Len(c) = F + 1) /\ F + 1 \in 1 .. Len(c)
        BY <1>5, <1>9, <1>13, <2>1, <2>5
      <4>2. Len(c) # F
        BY <1>6, <4>1
      <4> QED BY <4>1, <4>2
    <3>2. c[next].tool = "run_command"
      BY <1>5, <1>13, <2>1, <2>5, <3>1
    <3>3. t = "run_command" /\ ~sawFinish'
      BY <1>11, <3>2 DEF t, c
    <3>4. Done(3)' /\ Len(history') = Len(history) + 1
      BY <1>1, <1>3, <1>13, <2>1, <3>3, CallDone
    <3>5. pc' = "close"
      BY <1>6, <1>9, <1>11, <2>5, <3>1
    <3>6. Len(history') <= Room(3)'
      BY <1>6, <1>7, <1>9, <1>13, <2>2, <2>5, <3>4
    <3>7. AtClose(3, 2)'
      BY <1>7, <1>11, <2>1, <2>2, <2>3, <3>3, <3>6 DEF AtClose
    <3>8. 3 \in 0 .. Len(Order)
      BY <2>1
    <3> QED BY <1>7, <1>11, <2>1, <3>4, <3>5, <3>7, <3>8 DEF PlanAt
  <2>6. next <= F \/ next = F + 1
    BY <1>6, <1>9, <1>13
  <2> QED BY <2>4, <2>5, <2>6
<1> QED BY <1>2, <1>12, <1>13 DEF AtCall, F

(* When a step is closed its first call is of a later stage than that of    *)
(* the step before: nothing is repeated.                                    *)
LEMMA NoRepeat ==
  ASSUME TypeOK, pc = "close", NEW p \in DOMAIN Order, Stepping(p)
  PROVE  Repeats = 0 /\ reply.calls[1].tool = Order[p]
<1>1. reply.calls[1].tool = Order[p]
  BY StageCalls DEF Stepping
<1>2. lastTool # <<reply.calls[1]>>
  <2> SUFFICES ASSUME lastTool = <<reply.calls[1]>> PROVE FALSE
    OBVIOUS
  <2>1. lastTool # << >> /\ lastTool[1].tool = Order[p]
    BY <1>1
  <2>2. PICK i \in 1 .. p - 1 : Order[p] = Order[i]
    BY <2>1 DEF Stepping, Began
  <2>3. i \in DOMAIN Order /\ i # p
    BY OrderShape
  <2> QED BY <2>2, <2>3, OrderShape
<1> QED BY <1>1, <1>2 DEF Repeats

LEMMA StopPlanned ==
  ASSUME TypeOK, NEW k \in 0 .. Len(Order), PlanAt(k)
  PROVE  ~StopRepeating
<1> SUFFICES ASSUME StopRepeating PROVE FALSE
  OBVIOUS
<1>1. pc = "close" /\ Repeats >= 3
  BY DEF StopRepeating
<1>2. PICK p \in DOMAIN Order : Stepping(p)
  BY <1>1 DEF PlanAt, AtClose
<1>3. Repeats = 0
  BY <1>1, <1>2, NoRepeat
<1> QED BY <1>1, <1>3

(* What a verification leaves alone.                                        *)
LEMMA VerificationPlanned ==
  ASSUME TypeOK, NEW v \in VerifyOutcomes, report' = AfterVerification(report, v),
         NEW k \in Nat, InStages(job, report.steps, k)
  PROVE  /\ report'.summary = report.summary /\ report'.finished = report.finished
         /\ InStages(job, report'.steps, k)
<1>1. report \in Report /\ report.steps \in Seq(StepRecord)
  BY DEF TypeOK, Report
<1>2. CASE v = "skipped"
  BY <1>2 DEF AfterVerification
<1>3. CASE v = "error"
  <2>1. report' = [report EXCEPT !.failures = @ + 1]
    BY <1>3 DEF AfterVerification
  <2> QED BY <1>1, <2>1 DEF Report
<1>4. CASE v \notin {"skipped", "error"}
  <2> DEFINE s == [tool |-> "run_command", ok |-> v = "passed", verification |-> TRUE]
  <2>1. /\ report'.summary = report.summary /\ report'.finished = report.finished
        /\ report'.steps = Append(report.steps, s)
    BY <1>1, <1>4 DEF AfterVerification, Report
  <2>2. s \in StepRecord /\ s.verification
    BY DEF StepRecord, Tools
  <2> HIDE DEF s
  <2> QED BY <1>1, <2>1, <2>2, InStagesVerified
<1> QED BY <1>2, <1>3, <1>4

(* The end of a step: with its verification, if it is due, the plan goes on *)
(* as the transcript shows it, or is done.                                  *)
LEMMA ClosePlanned ==
  ASSUME TypeOK, TypeOK', TranscriptWindow, Fits, NEW k \in 0 .. Len(Order), PlanAt(k), job' = job,
         \/ CloseStep
         \/ \E v \in VerifyOutcomes : CloseStepVerifying(v)
         \/ \E v \in VerifyOutcomes : FinishVerifying(v)
  PROVE  PlanAt(k)'
<1>1. pc = "close" /\ report.summary = "none" /\ Done(k)
  BY DEF PlanAt, CloseStep, CloseStepVerifying, FinishVerifying
<1>2. PICK p \in DOMAIN Order : AtClose(k, p)
  BY <1>1 DEF PlanAt
<1>3. /\ Stepping(p) /\ (k = p \/ (k = 3 /\ p = 2 /\ Project))
      /\ sawFinish <=> k = Len(Order)
      /\ k = Len(Order) => report.finished
      /\ k < Len(Order) => ~verifiedOnce /\ Len(history) <= Room(k)
  BY <1>2 DEF AtClose
<1>4. /\ p \in Nat /\ k \in Nat /\ p <= k /\ p >= 1 /\ k <= Len(Order)
      /\ Len(Order) \in Nat /\ Len(Order) <= 4
  <2>1. Len(Order) \in 2 .. 4 /\ p \in 1 .. Len(Order)
    BY OrderShape
  <2>2. k \in 0 .. Len(Order) /\ (k = p \/ (k = 3 /\ p = 2))
    BY <1>3
  <2>3. \A n \in 2 .. 4 : \A a \in 1 .. n, b \in 0 .. n :
          b = a \/ (b = 3 /\ a = 2) =>
            /\ a \in Nat /\ b \in Nat /\ a <= b /\ a >= 1 /\ b <= n
            /\ n \in Nat /\ n <= 4
    OBVIOUS
  <2> QED BY <2>1, <2>2, <2>3
<1>5. Order' = Order /\ \A m : Room(m)' = Room(m)
  BY DEF Order, Room, Project
<1>6. /\ lastTool' = <<reply.calls[1]>> /\ edited' = edited /\ NextStep
      /\ sawFinish \in BOOLEAN /\ edited \in BOOLEAN /\ sawEdit \in BOOLEAN
      /\ verifiedOnce \in BOOLEAN
  BY DEF CloseStep, CloseStepVerifying, FinishVerifying, CountRepeats, Verify, flags,
         TypeOK, FlagsOK
<1>7. Began(k)'
  <2>1. lastTool'[1].tool = Order[p]
    BY <1>1, <1>3, <1>6, NoRepeat
  <2>2. p \in 1 .. k
    BY <1>4
  <2> QED BY <1>5, <2>1, <2>2 DEF Began
<1>8. edited => Wrote(k)
  <2>1. CASE sawEdit
    <3>1. Order[p] = "fs_write" /\ p \in 1 .. k
      BY <1>3, <1>4, <2>1 DEF Stepping
    <3> QED BY <3>1 DEF Wrote
  <2>2. CASE edited /\ ~sawEdit
    <3>1. PICK i \in 1 .. p - 1 : Order[i] = "fs_write"
      BY <1>3, <2>2 DEF Stepping, Wrote
    <3>2. i \in 1 .. k
      BY <1>4
    <3> QED BY <3>1, <3>2 DEF Wrote
  <2> QED BY <2>1, <2>2
<1>9. /\ report'.summary = "none" /\ report'.finished = report.finished
      /\ InStages(job, report'.steps, k)
  <2>1. InStages(job, report.steps, k)
    BY <1>1 DEF Done
  <2>2. CASE CloseStep
    BY <1>1, <2>1, <2>2 DEF CloseStep
  <2>3. CASE \E v \in VerifyOutcomes : CloseStepVerifying(v) \/ FinishVerifying(v)
    <3>1. PICK v \in VerifyOutcomes : report' = AfterVerification(report, v)
      BY <2>3 DEF CloseStepVerifying, FinishVerifying, Verify
    <3> QED BY <1>1, <1>4, <2>1, <3>1, VerificationPlanned
  <2> QED BY <2>2, <2>3
(* The task is over.                                                        *)
<1>10. CASE sawFinish
  <2>1. pc' = "epilogue" /\ k = Len(Order) /\ report'.finished
    BY <1>3, <1>6, <1>9, <1>10 DEF NextStep
  <2>2. Done(k)'
    BY <1>5, <1>9, <2>1 DEF Done
  <2> QED BY <1>5, <1>9, <2>1, <2>2 DEF PlanAt
(* Or it goes on, with all of the transcript.                               *)
<1>11. CASE ~sawFinish
  <2>1. k < Len(Order) /\ ~verifiedOnce /\ Len(history) <= Room(k)
    BY <1>3, <1>4, <1>11
  <2>2. pc' = "brain" /\ step' = step + 1 /\ step' <= k
    <3>1. step \in Nat /\ step <= p - 1
      BY <1>3 DEF TypeOK, ControlOK, Stepping
    <3>2. pc' = "brain" /\ step' = step + 1
      BY <1>6, <1>11 DEF NextStep
    <3> QED BY <1>4, <3>1, <3>2
  <2>3. Window(history) = history /\ history \in Seq(Message)
    <3>1. history \in Seq(Message) /\ history # << >>
      BY <1>1 DEF TypeOK, TranscriptWindow
    <3>2. Len(Files) \in Nat /\ Len(Files) >= 1 /\ MaxHistory \in Nat
          /\ MaxHistory >= Len(Files) + 4 /\ Len(history) \in Nat
      BY <3>1, FilesAssumption, BudgetAssumption DEF Fits
    <3>3. k \in 1 .. 3
      BY <1>4, <2>1
    <3>4. Room(k) <= Len(Files) + 5 /\ Room(k) \in Nat
      BY <3>2, <3>3 DEF Room
    <3>5. Len(history) <= MaxHistory + 1 /\ MaxHistory >= 1
      BY <2>1, <3>2, <3>4
    <3> QED BY <3>1, <3>5, WindowWhole
  <2>4. CASE CloseStep
    <3>1. history' = history /\ verifiedOnce' = verifiedOnce
      BY <2>3, <2>4 DEF CloseStep, flags
    <3>2. Done(k)'
      BY <1>1, <1>5, <1>9, <3>1 DEF Done
    <3>3. Wrote(k)' <=> Wrote(k)
      BY <1>5 DEF Wrote
    <3>4. AtBrain(k)'
      BY <1>5, <1>6, <1>7, <1>8, <2>1, <2>2, <3>1, <3>3 DEF AtBrain
    <3> QED BY <1>5, <1>9, <2>2, <3>2, <3>4 DEF PlanAt
  <2>5. ASSUME NEW v \in VerifyOutcomes, CloseStepVerifying(v) PROVE PlanAt(k)'
    <3> DEFINE m == ToolMsg("verify", report'.verified)
    <3>1. history' = Append(history, m) /\ verifiedOnce' = TRUE /\ edited /\ ~sawEdit
      BY <2>3, <2>5 DEF CloseStepVerifying, Verify, AutoVerifyDue
    <3>2. m \in Message /\ m.tool = "verify"
      BY DEF ToolMsg, Message, TypeOK, Report
    <3> HIDE DEF m
    <3>3. \A i \in DOMAIN Order : AnyTool(history', Order[i]) <=> AnyTool(history, Order[i])
      <4>1. \A i \in DOMAIN Order : Order[i] # "verify"
        BY OrderShape DEF Names
      <4> QED BY <2>3, <3>1, <3>2, <4>1, AnyToolAppend
    <3>4. Done(k)'
      BY <1>1, <1>5, <1>9, <3>3 DEF Done
    <3>5. k = Len(Order) - 1
      <4>1. PICK i \in 1 .. p - 1 : Order[i] = "fs_write"
        BY <1>3, <3>1 DEF Stepping, Wrote
      <4>2. i \in DOMAIN Order
        BY OrderShape
      <4>3. i >= Len(Order) - 2 /\ i \in Nat /\ i <= p - 1
        BY <1>4, <4>1, <4>2, OrderShape
      <4> QED BY <1>4, <2>1, <4>3
    <3>6. Wrote(k)' <=> Wrote(k)
      BY <1>5 DEF Wrote
    <3>7. AtBrain(k)'
      BY <1>5, <1>6, <1>7, <1>8, <2>1, <2>2, <3>1, <3>5, <3>6 DEF AtBrain
    <3> QED BY <1>5, <1>9, <2>2, <3>4, <3>7 DEF PlanAt
  <2>6. ASSUME NEW v \in VerifyOutcomes, FinishVerifying(v) PROVE PlanAt(k)'
    BY <1>11, <2>6 DEF FinishVerifying, FinalVerifyDue
  <2> QED BY <2>4, <2>5, <2>6
<1> QED BY <1>6, <1>10, <1>11

(* The verdict of a plan that is done.                                      *)
LEMMA ConcludePlanned ==
  ASSUME TypeOK, NEW k \in 0 .. Len(Order), PlanAt(k), job' = job, Conclude
  PROVE  PlanAt(k)'
<1>1. /\ pc = "epilogue" /\ k = Len(Order) /\ report.finished /\ report.summary = "none"
      /\ Done(k) /\ Order' = Order
  BY DEF PlanAt, Conclude, Order
<1>2. report \in Report
  BY DEF TypeOK
<1>3. pc' = "done" /\ report'.finished = report.finished /\ report'.steps = report.steps
  BY <1>2 DEF Conclude, Report
<1>4. report'.summary \in {"completed", "failed steps"}
  <2>1. report'.summary = IF report.summary # "none" THEN report.summary
                          ELSE IF ~report.finished THEN "step limit"
                          ELSE IF Succeeded(report) THEN "completed" ELSE "failed steps"
    <3> HIDE DEF Succeeded
    <3> QED BY <1>2 DEF Conclude, Report
  <2> QED BY <1>1, <2>1
<1>5. Done(k)'
  BY <1>1, <1>3 DEF Done
<1> QED BY <1>1, <1>3, <1>4, <1>5 DEF PlanAt

LEMMA PlanBegins == 0 \in 0 .. Len(Order)
BY OrderShape

LEMMA PlanStep ==
  TypeOK /\ TypeOK' /\ TranscriptWindow /\ PlanInv /\ [PNext]_pvars => PlanInv'
<1> SUFFICES ASSUME TypeOK, TypeOK', TranscriptWindow, PlanInv, [PNext]_pvars,
                    Fits, brain' = "heuristic", pc' # "idle"
             PROVE  (\E k \in 0 .. Len(Order) : PlanAt(k))'
  BY DEF PlanInv, Fits
<1>1. CASE \E kind \in Kinds, reachable \in BOOLEAN : MakeBrain(kind, reachable)
  BY <1>1 DEF MakeBrain, vars
<1>2. ASSUME NEW j \in Jobs, GiveTask(j) PROVE (\E k \in 0 .. Len(Order) : PlanAt(k))'
  <2>1. PlanAt(0)'
    BY <1>2, TaskPlanned
  <2>2. (0 \in 0 .. Len(Order))'
    BY PlanBegins, PTL
  <2> QED BY <2>1, <2>2
<1>3. CASE Working \/ UNCHANGED pvars
  <2>1. brain' = brain /\ job' = job
    BY <1>3, WorkingKeepsJob DEF pvars
  <2>2. pc # "idle"
    BY <1>3, WorkingNotIdle DEF pvars, vars
  <2>3. PICK k \in 0 .. Len(Order) : PlanAt(k)
    BY <2>1, <2>2 DEF PlanInv
  <2>4. Order' = Order
    BY <2>1 DEF Order
  <2>5. SUFFICES \E m \in 0 .. Len(Order) : PlanAt(m)'
    BY <2>4
  <2>6. CASE HeuristicStep
    BY <2>3, <2>6, BrainPlanned
  <2>7. CASE \E o \in Outputs : LocalStep(o)
    BY <2>1, <2>7 DEF LocalStep
  <2>8. CASE LocalFails
    BY <2>1, <2>8 DEF LocalFails
  <2>9. CASE StepLimit
    <3>1. pc = "brain" /\ step >= MaxSteps
      BY <2>9 DEF StepLimit
    <3>2. step <= k /\ k < Len(Order)
      BY <2>3, <3>1 DEF PlanAt, AtBrain
    <3>3. step \in Nat /\ Len(Order) \in 2 .. 4 /\ MaxSteps \in Nat /\ MaxSteps >= 4
      <4>1. MaxSteps \in Nat /\ MaxSteps >= 4
        BY DEF Fits
      <4>2. step \in 0 .. MaxSteps
        BY DEF TypeOK, ControlOK
      <4>3. step \in Nat
        BY <4>1, <4>2
      <4> QED BY <4>1, <4>3, OrderShape
    <3>4. k \in Nat
      BY OrderShape
    <3>5. \A n \in 2 .. 4 : \A a, b, m \in Nat : ~(a <= b /\ b < n /\ a >= m /\ m >= 4)
      OBVIOUS
    <3>6. FALSE
      BY <3>1, <3>2, <3>3, <3>4, <3>5
    <3> QED BY <3>6
  <2>10. CASE \E o \in Outcome : ExecuteCall(o)
    BY <2>1, <2>3, <2>10, CallPlanned
  <2>11. CASE StopRepeating
    BY <2>3, <2>11, StopPlanned
  <2>12. CASE \/ CloseStep
              \/ \E v \in VerifyOutcomes : CloseStepVerifying(v)
              \/ \E v \in VerifyOutcomes : FinishVerifying(v)
    BY <2>1, <2>3, <2>12, ClosePlanned
  <2>13. CASE Conclude
    BY <2>1, <2>3, <2>13, ConcludePlanned
  <2>14. CASE UNCHANGED pvars
    <3>1. /\ pc' = pc /\ step' = step /\ reply' = reply /\ next' = next /\ job' = job
          /\ history' = history /\ lastTool' = lastTool /\ report' = report
          /\ edited' = edited /\ verifiedOnce' = verifiedOnce
          /\ sawEdit' = sawEdit /\ sawFinish' = sawFinish
      BY <2>14 DEF pvars, vars, control, guard, flags
    <3>2. Project' <=> Project
      BY <3>1 DEF Project
    <3>3. \A m : Room(m)' = Room(m)
      BY <3>2 DEF Room
    <3>4. /\ \A m : Began(m)' <=> Began(m)
          /\ \A m : Wrote(m)' <=> Wrote(m)
      BY <2>4, <3>1 DEF Began, Wrote
    <3>5. Done(k)' <=> Done(k)
      BY <2>4, <3>1 DEF Done
    <3>6. AtBrain(k)' <=> AtBrain(k)
      BY <2>4, <3>1, <3>3, <3>4 DEF AtBrain
    <3>7. \A p : Stepping(p)' <=> Stepping(p)
      BY <2>4, <3>1, <3>4 DEF Stepping
    <3>8. \A p : AtCall(k, p)' <=> AtCall(k, p)
      BY <2>4, <3>1, <3>2, <3>3, <3>7 DEF AtCall
    <3>9. \A p : AtClose(k, p)' <=> AtClose(k, p)
      BY <2>4, <3>1, <3>2, <3>3, <3>7 DEF AtClose
    <3>10. PlanAt(k)'
      BY <2>3, <2>4, <3>1, <3>5, <3>6, <3>8, <3>9 DEF PlanAt
    <3> QED BY <3>10
  <2> QED BY <1>3, <2>6, <2>7, <2>8, <2>9, <2>10, <2>11, <2>12, <2>13, <2>14
          DEF Working, Body
<1> QED BY <1>1, <1>2, <1>3 DEF PNext

(* A task given to the built-in planner ends by finish, with each stage of  *)
(* its plan done once and in order, whatever the tools answer and whatever  *)
(* was verified in between (HeuristicBrain::step and Agent::run), provided  *)
(* there are steps for its stages and room for its transcript.              *)
THEOREM PlanAlwaysFinishes == PSpec => []PlanFinishes
<1>1. PInit => PlanInv
  BY DEF PInit, Init, PlanInv
<1>2. PlanInv => PlanFinishes
  <2> SUFFICES ASSUME PlanInv, Fits, brain = "heuristic", pc = "done"
               PROVE  /\ report.finished /\ report.summary \in {"completed", "failed steps"}
                      /\ InStages(job, report.steps, Len(Stages(job)))
    BY DEF PlanFinishes
  <2>1. PICK k \in 0 .. Len(Order) : PlanAt(k)
    BY DEF PlanInv
  <2> QED BY <2>1 DEF PlanAt, Done, Order
<1> QED BY <1>1, <1>2, PlanStep, PlannerImplementsLoop, TypeCorrect, TranscriptWindowAlways, PTL
        DEF PSpec

=============================================================================
