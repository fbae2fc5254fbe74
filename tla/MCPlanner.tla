----------------------------- MODULE MCPlanner -----------------------------
(***************************************************************************)
(* An instance of Planner: tasks of every intent, and answers of a local   *)
(* model with every tool of interest, alone and with finish.               *)
(***************************************************************************)
EXTENDS Planner

Text(words, paths, language) ==
  [words |-> words, paths |-> paths, url |-> FALSE, detected |-> language,
   named |-> language # "", around |-> ""]
MCJobs ==
  { Text({"explain"}, 0, ""),
    [Text({"new", "project"}, 0, "typescript") EXCEPT !.named = FALSE, !.around = "python"],
    Text({"new", "project"}, 0, "rust"),
    Text({"search"}, 0, ""),
    Text({"fetch"}, 0, ""), [Text({"fetch"}, 1, "") EXCEPT !.url = TRUE],
    Text({"rename"}, 2, ""), Text({"refactor"}, 1, ""),
    Text({"fix", "failing", "build"}, 0, ""), Text({"fix"}, 1, ""),
    Text({"run", "test"}, 0, ""), Text({"add", "tests"}, 0, "python"),
    Text({"docs"}, 0, ""), Text({"implement"}, 0, "") }

MCFiles == <<CHOOSE p \in Paths : TRUE>>

Object(calls) == [form |-> "object", done |-> FALSE, text |-> FALSE, calls |-> calls]
MCOutputs ==
  { Object(<<Use("fs_write")>>), Object(<<Use("fs_patch")>>),
    [Object(<<Use("run_command")>>) EXCEPT !.text = TRUE],
    Object(<<Use("finish")>>), Object(<<Use("fs_write"), Use("finish")>>),
    [Object(<<Use("")>>) EXCEPT !.text = TRUE],
    [Object(<<Use("fs_write")>>) EXCEPT !.done = TRUE],
    [Object(<< >>) EXCEPT !.form = "prose"], [Object(<< >>) EXCEPT !.form = "blank"] }

Says(text, calls) == [text |-> text, calls |-> calls]
MCReplies ==
  {NoReply, Says(TRUE, << >>),
   Says(TRUE, <<Use("fs_write")>>),
   Says(TRUE, <<Use("fs_write"), Use("run_command")>>),
   Says(FALSE, <<Use("fs_write"), Use("finish")>>)}
    \cup {Says(TRUE, <<Use(t)>>) : t \in {"project_map", "run_command", "finish"}}
    \cup {Says(FALSE, <<Use(t)>>) :
            t \in {"fs_write", "fs_patch", "fs_grep", "run_command", "web_search",
                   "fetch_page", "finish"}}
=============================================================================
