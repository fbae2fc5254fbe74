------------------------------ MODULE AgentLoop ------------------------------
(***************************************************************************)
(* The autonomy loop of the agent (src/src/agent.cpp, Agent::run): one     *)
(* task at a time, the brain is asked for a reply, every call of the reply *)
(* is dispatched, its outcome is appended to the report and to the         *)
(* transcript, and at the end of a step the loop protects itself against   *)
(* repetition, trims the transcript and verifies the edits.                *)
(*                                                                         *)
(* The brain and the tools are the environment: a reply is any member of   *)
(* Replies, a tool call ends in any outcome its handler can return.  The   *)
(* object survives a task (the `chat' command runs many on one Agent), so  *)
(* changedPaths outlives the report of a task.                             *)
(***************************************************************************)
EXTENDS Naturals, Sequences, FiniteSets

CONSTANTS
  MaxSteps,          \* cfg_.max_steps
  MaxHistory,        \* cfg_.max_history_messages
  Paths,             \* the files tools may change
  Replies,           \* the replies a brain may give
  AutoVerify,        \* cfg_.auto_verify
  DryRun,            \* cfg_.dry_run
  VerifyConfigured,  \* cfg_.verify_command is not empty
  MaxTasks           \* bound: tasks one Agent object is given

EditTools == {"fs_write", "fs_edit", "fs_patch"}
ReadTools == {"fs_read", "fs_list", "fs_glob", "fs_grep", "project_map"}
WebTools  == {"web_search", "fetch_page"}
Tools     == EditTools \cup ReadTools \cup WebTools
               \cup {"run_command", "memory_report", "finish", "unknown"}
Call      == [tool : Tools, arg : Paths]
Reply     == [text : BOOLEAN, calls : Seq(Call)]

ASSUME BudgetAssumption == MaxSteps \in Nat /\ MaxHistory \in Nat
ASSUME RepliesAssumption == Replies \subseteq Reply
ASSUME ConfigAssumption ==
  /\ AutoVerify \in BOOLEAN
  /\ DryRun \in BOOLEAN
  /\ VerifyConfigured \in BOOLEAN
  /\ MaxTasks \in Nat

VARIABLES
  pc,            \* where the loop stands
  task,          \* how many tasks this Agent has been given
  step,          \* the loop variable of Agent::run
  reply,         \* the reply being executed
  next,          \* index of its next call
  history,       \* the transcript handed to the brain
  lastTool,      \* fingerprint of the previous step: << >> or <<call>>
  repeats,       \* how often it has been seen again
  edited,        \* an edit succeeded in this task
  verifiedOnce,  \* a verification was attempted in this task
  sawEdit,       \* an edit succeeded in this step
  sawFinish,     \* the finish tool was called in this step
  report,        \* the RunReport
  changedPaths,  \* Agent::changed_paths_
  mine,          \* history variable: files changed by this task
  unverified     \* history variable: those changed since a command verified them

control == <<task, step, reply, next>>
flags   == <<edited, verifiedOnce, sawEdit, sawFinish>>
guard   == <<lastTool, repeats>>
ghosts  == <<mine, unverified>>
vars    == <<pc, control, history, guard, flags, report, changedPaths, ghosts>>

NoReply == [text |-> FALSE, calls |-> << >>]

(* Messages of the transcript: who speaks, which tool, and the ok flag.     *)
TaskMsg         == [role |-> "user", tool |-> "none", ok |-> TRUE]
AssistantMsg    == [role |-> "assistant", tool |-> "none", ok |-> TRUE]
ToolMsg(t, ok)  == [role |-> "tool", tool |-> t, ok |-> ok]
Message         == [role : {"user", "assistant", "tool"},
                    tool : Tools \cup {"none", "verify"}, ok : BOOLEAN]

(* A recorded AgentStep: the tool, its ok flag, the verification mark.      *)
StepRecord == [tool : Tools, ok : BOOLEAN, verification : BOOLEAN]

EmptyReport ==
  [ok |-> FALSE, finished |-> FALSE, verified |-> FALSE, failures |-> 0,
   toolCalls |-> 0, commands |-> 0, steps |-> << >>, summary |-> "none",
   verifyOutput |-> FALSE, changed |-> {}, noCommandNote |-> FALSE]

Init ==
  /\ pc = "idle"
  /\ task = 0 /\ step = 0 /\ reply = NoReply /\ next = 1
  /\ history = << >> /\ lastTool = << >> /\ repeats = 0
  /\ edited = FALSE /\ verifiedOnce = FALSE
  /\ sawEdit = FALSE /\ sawFinish = FALSE
  /\ report = EmptyReport /\ changedPaths = {}
  /\ mine = {} /\ unverified = {}

-----------------------------------------------------------------------------
(* Tools.  "error" is an Error returned by the handler, "notok" a result    *)
(* whose ok flag is false; `changed' are the files it pushed on             *)
(* changed_paths_.  A dry run touches nothing; fs_edit can also be asked    *)
(* for a dry run by its own argument.  A patch changes the files it could   *)
(* before the failures it reports.                                          *)
Outcome == [res : {"ok", "notok", "error"}, changed : SUBSET Paths]
Plain(res) == [res |-> res, changed |-> {}]
Touching(res, sets) == [res : {res}, changed : IF DryRun THEN {{}} ELSE sets]

WriteOutcomes(p) == {Plain("error")} \cup Touching("ok", {{p}})
EditOutcomes(p)  == {Plain("error"), Plain("ok")} \cup Touching("ok", {{p}})
PatchOutcomes ==
  {Plain("error")} \cup Touching("ok", SUBSET Paths) \cup Touching("notok", SUBSET Paths)
CommandOutcomes ==
  {Plain("error"), Plain("ok")} \cup (IF DryRun THEN {} ELSE {Plain("notok")})
ReadOutcomes == {Plain("error"), Plain("ok")}
WebOutcomes  == {Plain("error"), Plain("ok"), Plain("notok")}

Outcomes(call) ==
  CASE call.tool = "fs_write"    -> WriteOutcomes(call.arg)
    [] call.tool = "fs_edit"     -> EditOutcomes(call.arg)
    [] call.tool = "fs_patch"    -> PatchOutcomes
    [] call.tool = "run_command" -> CommandOutcomes
    [] call.tool \in ReadTools   -> ReadOutcomes
    [] call.tool \in WebTools    -> WebOutcomes
    [] call.tool = "unknown"     -> {Plain("error")}
    [] OTHER                     -> {Plain("ok")}

(* What a verification can end in: no command to run, the sandbox or the    *)
(* operator refuses it, it passes or fails.  A dry run reports exit code 0. *)
VerifyOutcomes ==
  {"error", "passed"} \cup (IF DryRun THEN {} ELSE {"failed"})
                      \cup (IF VerifyConfigured THEN {} ELSE {"skipped"})

AfterVerification(r, v) ==
  CASE v = "skipped" -> r
    [] v = "error" -> [r EXCEPT !.failures = @ + 1]
    [] OTHER ->
         [r EXCEPT !.failures = IF v = "failed" THEN @ + 1 ELSE @,
                   !.toolCalls = @ + 1, !.commands = @ + 1,
                   !.steps = Append(@, [tool |-> "run_command",
                                        ok |-> v = "passed",
                                        verification |-> TRUE]),
                   !.verifyOutput = TRUE, !.verified = v = "passed"]

(* Mutants: the window drops the head, or keeps the oldest messages.        *)
Mutant_WindowFromBegin(h) ==
  IF Len(h) > MaxHistory THEN SubSeq(h, Len(h) - MaxHistory + 1, Len(h)) ELSE h
Mutant_WindowKeepsOldest(h) ==
  IF Len(h) > MaxHistory THEN SubSeq(h, 1, MaxHistory + 1) ELSE h

(* The history window: erase(begin + 1, begin + size - max).                *)
Window(h) ==
  IF Len(h) > MaxHistory
  THEN <<h[1]>> \o SubSeq(h, Len(h) - MaxHistory + 1, Len(h))
  ELSE h

-----------------------------------------------------------------------------
(* Agent::run is called with a non-empty task: locals and report are fresh. *)
StartTask ==
  /\ pc \in {"idle", "done"}
  /\ task < MaxTasks
  /\ task' = task + 1
  /\ pc' = "brain"
  /\ step' = 0 /\ reply' = NoReply /\ next' = 1
  /\ history' = <<TaskMsg>>
  /\ lastTool' = << >> /\ repeats' = 0
  /\ edited' = FALSE /\ verifiedOnce' = FALSE
  /\ sawEdit' = FALSE /\ sawFinish' = FALSE
  /\ report' = EmptyReport
  /\ mine' = {} /\ unverified' = {}
  /\ UNCHANGED changedPaths

(* The for loop has used its steps.                                         *)
StepLimit ==
  /\ pc = "brain" /\ step >= MaxSteps
  /\ pc' = "epilogue"
  /\ UNCHANGED <<control, history, guard, flags, report, changedPaths, ghosts>>

BrainFails ==
  /\ pc = "brain" /\ step < MaxSteps
  /\ report' = [report EXCEPT !.summary = "brain error", !.ok = FALSE]
  /\ pc' = "epilogue"
  /\ UNCHANGED <<control, history, guard, flags, changedPaths, ghosts>>

(* A reply without calls ends the task at once; one with calls is executed. *)
BrainReplies(r) ==
  /\ pc = "brain" /\ step < MaxSteps
  /\ history' = IF r.text THEN Append(history, AssistantMsg) ELSE history
  /\ reply' = r /\ next' = 1
  /\ sawEdit' = FALSE /\ sawFinish' = FALSE
  /\ IF r.calls = << >>
     THEN /\ report' = [report EXCEPT !.finished = TRUE, !.ok = TRUE]
          /\ pc' = "epilogue"
     ELSE /\ pc' = "call"
          /\ UNCHANGED report
  /\ UNCHANGED <<task, step, guard, edited, verifiedOnce, changedPaths, ghosts>>

(* What a handler pushes on changed_paths_ before it answers, also when the *)
(* answer is not ok.  Mutant: only a successful tool pushes.                *)
Mutant_PushedWhenOk(o) == IF o.res = "ok" THEN o.changed ELSE {}
Pushed(o) == o.changed

(* One iteration of the loop over reply->calls.                             *)
ExecuteCall(o) ==
  LET call   == reply.calls[next]
      ok     == o.res = "ok"
      isEdit == ok /\ call.tool \in EditTools
  IN
  /\ pc = "call"
  /\ o \in Outcomes(call)
  /\ report' = [report EXCEPT
       !.toolCalls = @ + 1,
       !.steps     = Append(@, [tool |-> call.tool, ok |-> ok,
                                verification |-> FALSE]),
       !.failures  = IF o.res = "error" THEN @ + 1 ELSE @,
       !.commands  = IF call.tool = "run_command" THEN @ + 1 ELSE @,
       !.finished  = @ \/ call.tool = "finish"]
  /\ history' = Append(history, ToolMsg(call.tool, ok))
  /\ edited' = (edited \/ isEdit) /\ sawEdit' = (sawEdit \/ isEdit)
  /\ sawFinish' = (sawFinish \/ call.tool = "finish")
  /\ changedPaths' = changedPaths \cup Pushed(o)
  /\ mine' = mine \cup o.changed
  /\ unverified' = unverified \cup o.changed
  /\ IF next < Len(reply.calls)
     THEN next' = next + 1 /\ pc' = "call"
     ELSE next' = next /\ pc' = "close"
  /\ UNCHANGED <<task, step, reply, guard, verifiedOnce>>

-----------------------------------------------------------------------------
(* The end of a step.  Only the first call of the reply is compared.        *)
(* Mutants: a repeated step counts its calls; counting begins at one.       *)
Mutant_RepeatsCountsCalls ==
  IF lastTool = <<reply.calls[1]>> THEN repeats + Len(reply.calls) ELSE 0
Mutant_RepeatsFromOne == IF lastTool = <<reply.calls[1]>> THEN repeats + 1 ELSE 1
Repeats == IF lastTool = <<reply.calls[1]>> THEN repeats + 1 ELSE 0

CountRepeats == lastTool' = <<reply.calls[1]>> /\ repeats' = Repeats

(* Mutants: verified_once is not consulted; a finishing step that edited is *)
(* skipped.                                                                 *)
Mutant_AutoVerifyAgain == AutoVerify /\ edited /\ ~sawEdit
Mutant_FinalVerifyNotAfterEdit ==
  AutoVerify /\ edited /\ ~verifiedOnce /\ ~sawEdit /\ sawFinish
AutoVerifyDue == AutoVerify /\ edited /\ ~verifiedOnce /\ ~sawEdit
FinalVerifyDue == AutoVerify /\ edited /\ ~verifiedOnce /\ sawEdit /\ sawFinish

NextStep ==
  IF sawFinish THEN pc' = "epilogue" /\ step' = step
               ELSE pc' = "brain" /\ step' = step + 1

StopRepeating ==
  /\ pc = "close" /\ Repeats >= 3
  /\ CountRepeats
  /\ report' = [report EXCEPT !.summary = "repeated"]
  /\ pc' = "epilogue"
  /\ UNCHANGED <<control, history, flags, changedPaths, ghosts>>

CloseStep ==
  /\ pc = "close" /\ Repeats < 3
  /\ ~AutoVerifyDue /\ ~FinalVerifyDue
  /\ CountRepeats
  /\ history' = Window(history)
  /\ NextStep
  /\ UNCHANGED <<task, reply, next, flags, report, changedPaths, ghosts>>

(* A verification command that really ran covers all edits made so far.     *)
Verify(v) ==
  /\ report' = AfterVerification(report, v)
  /\ verifiedOnce' = TRUE
  /\ unverified' = IF v \in {"passed", "failed"} /\ ~DryRun THEN {} ELSE unverified
  /\ UNCHANGED <<edited, sawEdit, sawFinish, mine, changedPaths>>

(* The first step without an edit after one: verify and tell the brain.     *)
CloseStepVerifying(v) ==
  /\ pc = "close" /\ Repeats < 3 /\ AutoVerifyDue
  /\ CountRepeats
  /\ Verify(v)
  /\ history' = Append(Window(history), ToolMsg("verify", report'.verified))
  /\ NextStep
  /\ UNCHANGED <<task, reply, next>>

(* A finishing step that itself edited: verify, the brain is not told.      *)
FinishVerifying(v) ==
  /\ pc = "close" /\ Repeats < 3 /\ FinalVerifyDue
  /\ CountRepeats
  /\ Verify(v)
  /\ history' = Window(history)
  /\ NextStep
  /\ UNCHANGED <<task, reply, next>>

(* After the loop: the verdict, the summary and the changed paths.          *)
(* Mutant: a run that did not finish may succeed.                           *)
Mutant_SucceededUnfinished(r) == r.failures = 0 \/ r.verified
Succeeded(r) == r.finished /\ (r.failures = 0 \/ r.verified)

Conclude ==
  /\ pc = "epilogue"
  /\ report' = [report EXCEPT
       !.ok = Succeeded(report),
       !.summary = IF @ # "none" THEN @
                   ELSE IF ~report.finished THEN "step limit"
                   ELSE IF Succeeded(report) THEN "completed" ELSE "failed steps",
       !.changed = changedPaths,
       !.noCommandNote = changedPaths # {} /\ ~report.verifyOutput]
  /\ pc' = "done"
  /\ UNCHANGED <<control, history, guard, flags, changedPaths, ghosts>>

(* The loop but for its brain.                                              *)
Body ==
  \/ StepLimit
  \/ \E o \in Outcome : ExecuteCall(o)
  \/ StopRepeating
  \/ CloseStep
  \/ \E v \in VerifyOutcomes : CloseStepVerifying(v)
  \/ \E v \in VerifyOutcomes : FinishVerifying(v)
  \/ Conclude

Loop ==
  \/ BrainFails
  \/ \E r \in Replies : BrainReplies(r)
  \/ Body

Next == StartTask \/ Loop

Spec == Init /\ [][Next]_vars

-----------------------------------------------------------------------------
(* PROPERTIES                                                               *)

PC == {"idle", "brain", "call", "close", "epilogue", "done"}
Summaries == {"none", "brain error", "repeated", "step limit", "completed",
              "failed steps"}
Report == [ok : BOOLEAN, finished : BOOLEAN, verified : BOOLEAN,
           failures : Nat, toolCalls : Nat, commands : Nat,
           steps : Seq(StepRecord), summary : Summaries,
           verifyOutput : BOOLEAN, changed : SUBSET Paths,
           noCommandNote : BOOLEAN]

(* Type invariant: the loop never passes its budget, the call index stays   *)
(* inside the reply, a reply being executed has calls, the repetition       *)
(* counter never passes three (Agent::run 670-764).                         *)
ControlOK ==
  /\ pc \in PC
  /\ task \in Nat /\ step \in 0 .. MaxSteps
  /\ reply \in Replies \cup {NoReply}
  /\ next \in Nat \ {0}
  /\ pc \in {"call", "close"} =>
       reply \in Replies /\ next \in DOMAIN reply.calls /\ step < MaxSteps
GuardOK ==
  /\ lastTool = << >> \/ \E c \in Call : lastTool = <<c>>
  /\ repeats \in 0 .. 3
  /\ repeats = 3 => pc \in {"epilogue", "done"}
FlagsOK ==
  /\ edited \in BOOLEAN /\ verifiedOnce \in BOOLEAN
  /\ sawEdit \in BOOLEAN /\ sawFinish \in BOOLEAN
FilesOK ==
  /\ changedPaths \in SUBSET Paths
  /\ mine \in SUBSET Paths /\ unverified \in SUBSET Paths

TypeOK ==
  /\ ControlOK /\ GuardOK /\ FlagsOK /\ FilesOK
  /\ history \in Seq(Message)
  /\ report \in Report

(* A task is verified at most once, and never before one of its edits       *)
(* succeeded: whatever the brain does, an edit step stands in the report    *)
(* before the one verification step (run_verification and its two callers,  *)
(* 771-795).                                                                *)
VerificationSteps == {i \in DOMAIN report.steps : report.steps[i].verification}
VerifiedAtMostOnce ==
  \A i \in VerificationSteps :
    /\ \A j \in VerificationSteps : j = i
    /\ \E j \in 1 .. i - 1 : /\ report.steps[j].ok
                             /\ report.steps[j].tool \in EditTools

(* What the brain is shown is true and complete up to the window: the tool  *)
(* results in the transcript are the last recorded steps, in order and with *)
(* the same outcomes, failures included (714-749 and the window, 766-769).  *)
(* A result stands for the step that has as many steps after it as the      *)
(* result has results.                                                      *)
Results(h)  == {i \in DOMAIN h : h[i].role = "tool" /\ h[i].tool # "verify"}
Made(steps) == {j \in DOMAIN steps : ~steps[j].verification}
Behind(n, S) == Cardinality({k \in S : k > n})
Tells(h, steps) ==
  \A i \in Results(h) : \E j \in Made(steps) :
    /\ Behind(j, Made(steps)) = Behind(i, Results(h))
    /\ steps[j].tool = h[i].tool /\ steps[j].ok = h[i].ok
TranscriptTellsTheTruth == Tells(history, report.steps)

(* The window never drops the task, which stays the first message and the   *)
(* only one of the user, and the brain never sees more than the window's    *)
(* MaxHistory + 1 messages plus the note of a verification (766-785).       *)
TranscriptWindow ==
  /\ pc # "idle" => history # << >> /\ history[1] = TaskMsg
  /\ \A i \in 2 .. Len(history) : history[i] # TaskMsg
  /\ pc = "brain" => Len(history) <= MaxHistory + 2

(* A task that edited and ends by the finish tool was verified, or at least *)
(* its verification was attempted, unless the repetition guard cut the loop *)
(* in that very step (757-764 runs before 787-795).                         *)
FinishVerifies ==
  (pc = "done" /\ AutoVerify /\ sawFinish /\ edited
     /\ report.summary # "repeated") => verifiedOnce

(* The verdict against the record: a task is reported as done only if it    *)
(* finished, and if any call of it errored, a verification command passed   *)
(* in the same task (798-803).                                              *)
VerdictJustified ==
  (pc = "done" /\ report.ok) =>
     /\ report.summary \in {"completed", "repeated"}
     /\ report.failures > 0 =>
          \E i \in VerificationSteps : report.steps[i].ok

(* Every file the task's tools changed, partly applied patches included, is *)
(* in the report of that task (tool_fs_write, tool_fs_edit, tool_fs_patch   *)
(* push it before they answer; 810-814 copies the list).                    *)
ChangesReported == pc = "done" => mine \subseteq report.changed

(* The repetition guard bounds a planner whose replies all begin with the   *)
(* same call: it never starts a fifth step, whatever max_steps is           *)
(* (757-764).                                                               *)
SameFirstCall == \A r1, r2 \in Replies :
                   /\ r1.calls # << >>
                   /\ r2.calls # << >>
                   /\ r1.calls[1] = r2.calls[1]
RepetitionBounded == SameFirstCall => step <= 3

(* ... and it never cuts a task short before its fourth step.               *)
NoEarlyStop == report.summary = "repeated" => step >= 3

-----------------------------------------------------------------------------
(* What a document says and the loop does not do.                           *)

(* README.md:105-108: the verification command runs `after every edit and   *)
(* again before finishing'.  Here: a task that finished and is reported as  *)
(* verified has no edit younger than its verification.                      *)
VerifiedIsCurrent ==
  (pc = "done" /\ report.finished /\ report.verified) => unverified = {}
=============================================================================
