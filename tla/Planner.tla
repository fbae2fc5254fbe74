------------------------------ MODULE Planner ------------------------------
(***************************************************************************)
(* The agent with its brains (src/src/model.cpp): the loop of AgentLoop,   *)
(* asked by the built-in planner, which reads what has happened out of the *)
(* transcript it is shown, or by a local model, whose answers are parsed.  *)
(*                                                                         *)
(* A task is given by what the planner looks for in its text: the words of *)
(* its vocabulary, how many paths it names, whether one is an address, the *)
(* language it detects, if any, and whether it finds one named; and by the *)
(* language of the workspace the task is given in.                         *)
(***************************************************************************)
EXTENDS AgentLoop

CONSTANTS
  Kinds,    \* cfg_.brain, in lower case
  Jobs,     \* the tasks: [words, paths, url, detected, named, around]
  Files,    \* the files of a project skeleton
  Language, \* cfg_.language, or "" if it is not set
  PreferPython, \* cfg_.prefer_python
  Outputs   \* what a local model may answer

VARIABLES
  brain,    \* brain_: none before initialise
  job       \* what the planner makes of the task being run

pvars == <<vars, brain, job>>

-----------------------------------------------------------------------------
(* HeuristicBrain::classify: the first rule of which every group of words   *)
(* is met.                                                                  *)
Rule(intent, groups) == [intent |-> intent, groups |-> groups]
Rules ==
  << Rule("Explain", <<{"explain", "describe", "what does", "summarise", "summarize"}>>),
     Rule("CreateProject",
          <<{"create", "scaffold", "generate", "new", "init", "bootstrap"},
            {"project", "app", "repository", "repo", "module", "package"}>>),
     Rule("Search", <<{"search", "google", "look up", "find out about", "research"}>>),
     Rule("Scrape", <<{"scrape", "fetch", "download page", "read the page"}>>),
     Rule("Rename", <<{"rename", "move file"}>>),
     Rule("Fix", <<{"fix", "bug", "repair", "broken", "fails", "failing", "error"}>>),
     Rule("Run", <<{"run", "execute", "build", "compile", "test", "make"}>>),
     Rule("Refactor", <<{"refactor", "restructure", "clean up"}>>),
     Rule("AddTests", <<{"test", "tests", "spec"}>>),
     Rule("Format", <<{"format", "lint"}>>),
     Rule("Document", <<{"document", "comment", "readme", "docs"}>>),
     Rule("GitStatus", <<{"git", "commit", "diff", "status"}>>),
     Rule("CreateFile", <<{"create", "add file", "new file", "write"}>>),
     Rule("Implement", <<{"implement", "add", "extend"}>>) >>

Met(rule, words) == \A g \in DOMAIN rule.groups : rule.groups[g] \cap words # {}
Classify(words) ==
  LET met == {i \in DOMAIN Rules : Met(Rules[i], words)} IN
  IF met = {} THEN "Unknown"
  ELSE Rules[CHOOSE i \in met : \A k \in met : i <= k].intent

(* What the planner makes of a task's text.  The language of the workspace  *)
(* goes before the configured one where the task names none, and the        *)
(* configured before the one detected.  To name a language is judged by     *)
(* other words than those it is detected by.                                *)
Detected(j) ==
  CASE Language # ""    -> Language
    [] j.detected # ""  -> j.detected
    [] PreferPython     -> "python"
    [] OTHER            -> "cpp"
LanguageOf(j) == IF ~j.named /\ j.around # "" THEN j.around ELSE Detected(j)
Task(j) == [intent |-> Classify(j.words), paths |-> j.paths, url |-> j.url,
            language |-> LanguageOf(j)]

(* HeuristicBrain::step: the tools an intent takes, in order, each once.    *)
BuildWork(j) == IF j.intent = "CreateProject" THEN <<"fs_write", "run_command">>
                ELSE <<"run_command">>
WebWork(j) ==
  CASE j.intent = "Search" -> <<"web_search">>
    [] j.url               -> <<"fetch_page">>
    [] OTHER               -> << >>
RepairWork(j) ==
  CASE j.intent = "Fix" /\ j.paths > 0 -> <<"fs_grep", "run_command">>
    [] j.intent = "Fix"                -> <<"run_command">>
    [] j.paths >= 2                    -> <<"fs_grep">>
    [] OTHER                           -> << >>
WritingWork(j) ==
  CASE j.intent = "AddTests" -> <<"fs_write", "run_command">>
    [] j.intent = "Format"   -> <<"run_command">>
    [] OTHER                 -> <<"fs_write">>
Work(j) ==
  CASE j.intent \in {"CreateProject", "Run"}         -> BuildWork(j)
    [] j.intent \in {"Search", "Scrape"}             -> WebWork(j)
    [] j.intent \in {"Fix", "Rename", "Refactor"}    -> RepairWork(j)
    [] j.intent \in {"AddTests", "Format", "Document"} -> WritingWork(j)
    [] j.intent = "GitStatus"                        -> <<"run_command">>
    [] j.intent = "Explain"                          -> << >>
    [] OTHER                                         -> <<"fs_grep">>
Stages(j) == <<"project_map">> \o Work(j) \o <<"finish">>

(* any_tool: has the transcript a result of this tool, whatever it was?     *)
(* Mutant: only of a call that went well.                                   *)
Mutant_AnyToolOk(h, t) ==
  \E i \in DOMAIN h : h[i].role = "tool" /\ h[i].tool = t /\ h[i].ok
AnyTool(h, t) == \E i \in DOMAIN h : h[i].role = "tool" /\ h[i].tool = t

(* The calls of a stage.  The skeleton of a project is written and, in two  *)
(* languages, built in one reply.                                           *)
Use(t) == [tool |-> t, arg |-> CHOOSE p \in Paths : TRUE]
Skeleton(j) ==
  [i \in DOMAIN Files |-> [tool |-> "fs_write", arg |-> Files[i]]]
    \o (IF j.language \in {"cpp", "python"} THEN <<Use("run_command")>> ELSE << >>)
Scaffolds(j, t) == j.intent = "CreateProject" /\ t = "fs_write"
Speaks(j, t) ==
  \/ t = "project_map" \/ Scaffolds(j, t)
  \/ t = "finish" /\ \/ j.intent = "Explain"
                     \/ j.intent = "Scrape" /\ ~j.url
Stage(j, t) == [text  |-> Speaks(j, t),
                calls |-> IF Scaffolds(j, t) THEN Skeleton(j) ELSE <<Use(t)>>]

Plan(j, h) ==
  LET stages == Stages(j)
      left   == {i \in DOMAIN stages : ~AnyTool(h, stages[i])} IN
  IF left = {} THEN NoReply
  ELSE Stage(j, stages[CHOOSE i \in left : \A k \in left : i <= k])

-----------------------------------------------------------------------------
(* LocalModelBrain::parse_model_reply: what is not an object is an answer;  *)
(* an object that says it is done is one, whatever it calls; and calls      *)
(* without a name are dropped.                                              *)
Output == [form  : {"blank", "prose", "object"}, done : BOOLEAN, text : BOOLEAN,
           calls : Seq([tool : Tools \cup {""}, arg : Paths])]
Parses(o) == o.form # "blank"
ParseModelReply(o) ==
  [text  |-> o.form = "prose" \/ o.text,
   calls |-> IF o.form = "prose" \/ o.done THEN << >>
             ELSE SelectSeq(o.calls, LAMBDA c : c.tool # "")]

ASSUME JobsAssumption ==
  \A j \in Jobs : /\ j.words \subseteq STRING /\ j.paths \in Nat /\ j.url \in BOOLEAN
                  /\ j.detected \in STRING /\ j.named \in BOOLEAN
                  /\ j.around \in STRING
ASSUME OutputsAssumption == Outputs \subseteq Output
ASSUME FilesAssumption == Files \in Seq(Paths) /\ Files # << >>
(* Replies holds what the brains of this module can reply.                  *)
ASSUME PlannedAssumption ==
  /\ NoReply \in Replies
  /\ \A j \in Jobs : \A i \in DOMAIN Stages(Task(j)) :
       Stage(Task(j), Stages(Task(j))[i]) \in Replies
  /\ \A o \in Outputs : Parses(o) => ParseModelReply(o) \in Replies

-----------------------------------------------------------------------------
NoJob == [intent |-> "Unknown", paths |-> 0, url |-> FALSE, language |-> ""]

PInit == Init /\ brain = "none" /\ job = NoJob

(* make_brain: a local model that does not answer is replaced by the        *)
(* planner only where that was asked for.  Without a brain the agent does   *)
(* not run a task.                                                          *)
MakeBrain(kind, reachable) ==
  /\ pc = "idle" /\ brain = "none"
  /\ brain' = CASE kind \in {"local", "auto"} /\ reachable -> "local"
                [] kind = "local"                          -> "none"
                [] OTHER                                   -> "heuristic"
  /\ UNCHANGED <<vars, job>>

(* Only the planner makes something of the task's text; what a local model  *)
(* makes of it is in its answers.                                           *)
GiveTask(j) ==
  /\ brain # "none"
  /\ StartTask
  /\ job' = IF brain = "heuristic" THEN Task(j) ELSE NoJob
  /\ UNCHANGED brain

HeuristicStep ==
  /\ brain = "heuristic"
  /\ BrainReplies(Plan(job, history))
  /\ UNCHANGED <<brain, job>>

LocalStep(o) ==
  /\ brain = "local" /\ Parses(o)
  /\ BrainReplies(ParseModelReply(o))
  /\ UNCHANGED <<brain, job>>

(* The request failed, or its answer is blank or no JSON.                   *)
LocalFails ==
  /\ brain = "local"
  /\ BrainFails
  /\ UNCHANGED <<brain, job>>

Working ==
  \/ HeuristicStep
  \/ \E o \in Outputs : LocalStep(o)
  \/ LocalFails
  \/ Body /\ UNCHANGED <<brain, job>>

PNext ==
  \/ \E kind \in Kinds, reachable \in BOOLEAN : MakeBrain(kind, reachable)
  \/ \E j \in Jobs : GiveTask(j)
  \/ Working

PSpec == PInit /\ [][PNext]_pvars

-----------------------------------------------------------------------------
(* PROPERTIES                                                               *)

(* A task given to the built-in planner ends by finish, with each of its    *)
(* stages done exactly once, in order, and whatever the tools answered:     *)
(* never by repetition or for want of steps, provided there are steps for   *)
(* its stages and the window shows it all of them.  Only the skeleton of a  *)
(* project is a stage of several calls.                                     *)
Fits == MaxSteps >= 4 /\ MaxHistory >= Len(Files) + 4
InStages(j, steps, n) ==
  LET stages == Stages(j) IN
  /\ {steps[i].tool : i \in Made(steps)} = {stages[k] : k \in 1 .. n}
  /\ \A i, m \in Made(steps) : \A k, l \in 1 .. n :
       i < m /\ steps[i].tool = stages[k] /\ steps[m].tool = stages[l] => k <= l
  /\ \A i, m \in Made(steps) :
       i # m /\ steps[i].tool = steps[m].tool => Scaffolds(j, steps[i].tool)
PlanFinishes ==
  Fits /\ brain = "heuristic" /\ pc = "done" =>
    /\ report.finished /\ report.summary \in {"completed", "failed steps"}
    /\ InStages(job, report.steps, Len(Stages(job)))
=============================================================================
