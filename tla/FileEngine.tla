----------------------------- MODULE FileEngine -----------------------------
(***************************************************************************)
(* The file operations of src/src/fs_engine.cpp, one system call at a time *)
(* where the order of system calls matters: reading, backing up, writing a *)
(* temporary file, renaming it over its target, unlinking.  Any of them    *)
(* may fail, other programs change files in between, the process may die   *)
(* and the power may fail.                                                 *)
(*                                                                         *)
(* A place <<p, 0>> is the file p and <<p, t>> its backup made at time t.  *)
(* A call is a sequence of requests: one of fs_write, fs_append, fs_edit,  *)
(* fs_delete, fs_copy, fs_move, fs_backup, fs_restore, or the items of a   *)
(* patch.  Directories are left out, and so are requests whose path the    *)
(* workspace refuses: both end before anything is changed.                 *)
(***************************************************************************)
EXTENDS TextEdits

CONSTANTS
  Paths, Lines,
  Absent,     \* in place of the text of a file that does not exist
  Garbage,    \* the line that stands for data that was never stored
  Initial,    \* what the files may be at first
  Foreign,    \* what another program may make of a file
  Calls,      \* what may be asked: [dry |-> BOOLEAN, items |-> requests]
  Backups,    \* create_backups
  EditLimit,  \* lines an edit reads of a file (four times max_read_bytes)
  MaxCalls, MaxTime, MaxMeddled  \* bounds

ASSUME GarbageAssumption == Garbage \in Lines
ASSUME AbsentAssumption  == Absent \notin Seq(Lines)
ASSUME BoundsAssumption  == /\ EditLimit \in Nat /\ MaxCalls \in Nat
                            /\ MaxTime \in Nat \ {0} /\ MaxMeddled \in Nat
ASSUME BackupsAssumption == Backups \in BOOLEAN

(* Nobody writes what stands for data that was never stored; a call of      *)
(* several requests is a patch; and only a patch or an edit has a dry run.  *)
Clean == Lines \ {Garbage}
InPatch == {"add", "update", "delete", "unified"}
Request ==
  [op : InPatch \cup {"write", "append", "replace", "copy", "move", "backup", "restore"},
   path : Paths, from : Paths, old : Seq(Clean), new : Seq(Clean)]
ASSUME TextsAssumption   == /\ Initial \subseteq [Paths -> Seq(Clean) \cup {Absent}]
                            /\ Foreign \subseteq Seq(Clean) \cup {Absent}
ASSUME CallsAssumption   ==
  \A c \in Calls :
    /\ c.dry \in BOOLEAN /\ c.items \in Seq(Request) \ {<<>>}
    /\ Len(c.items) > 1 => \A i \in DOMAIN c.items : c.items[i].op \in InPatch
    /\ c.dry => \A i \in DOMAIN c.items : c.items[i].op \in InPatch \cup {"replace"}

VARIABLES
  disk,        \* the text at each place
  unsynced,    \* places whose text the disk may still lose
  now,         \* wall_millis, when it was last looked at
  calls,       \* calls made
  pc,          \* where the engine is
  todo, dry,   \* the requests left of the call, and whether it is a dry run
  text,        \* what the request makes of its file
  job,         \* the place atomic_write is about to replace, and by what
  tmp,         \* its temporary file: none, partial, written or synced
  changed,     \* files_changed, or the file of a request that succeeded
  failed,      \* failures, or the file of a request that ended in an Error
  (* observation *)
  request,     \* the last request looked at
  original,    \* the text its file had then
  start,       \* the files when the call began
  meddled,     \* changes made by other programs
  disturbed,   \* was there one during this call
  unkept,      \* did the backup of the request fail
  died,        \* was the call cut short
  syncFailed   \* did fsync ever fail

engine   == <<pc, todo, dry, text, job, tmp, changed, failed>>
observed == <<request, original, start, meddled, disturbed, unkept, died, syncFailed>>
vars     == <<disk, unsynced, now, calls, engine, observed>>

Times   == 0 .. MaxTime
Places  == Paths \X Times
File(p) == disk[<<p, 0>>]
Files   == [p \in Paths |-> File(p)]
Torn    == <<Garbage>>
Exists(p) == File(p) # Absent
NoJob   == <<>>
Item    == Head(todo)

Init ==
  /\ \E f \in Initial :
       disk = [d \in Places |-> IF d[2] = 0 THEN f[d[1]] ELSE Absent]
  /\ unsynced = {} /\ now = 1 /\ calls = 0
  /\ pc = "idle" /\ todo = <<>> /\ dry = FALSE /\ text = Absent
  /\ job = NoJob /\ tmp = "none" /\ changed = {} /\ failed = {}
  /\ request = [op |-> "none"] /\ original = Absent /\ start = Files
  /\ meddled = 0 /\ disturbed = FALSE /\ unkept = FALSE /\ died = FALSE
  /\ syncFailed = FALSE

-----------------------------------------------------------------------------
Begin ==
  /\ pc = "idle" /\ calls < MaxCalls
  /\ calls' = calls + 1
  /\ \E c \in Calls : todo' = c.items /\ dry' = c.dry
  /\ pc' = "item"
  /\ changed' = {} /\ failed' = {}
  /\ request' = [op |-> "none"] /\ start' = Files /\ original' = Absent
  /\ text' = Absent
  /\ disturbed' = FALSE /\ unkept' = FALSE /\ died' = FALSE
  /\ UNCHANGED <<disk, unsynced, now, job, tmp, meddled, syncFailed>>

(* The end of a request.  A patch goes on after an item that failed.        *)
(* Mutants: the loop runs once too often; the result of a write is ignored. *)
Mutant_AlwaysMore == "item"
AfterItem == IF Tail(todo) = <<>> THEN "idle" ELSE "item"
Mutant_AlwaysSucceeds(ok) == TRUE
Succeeds(ok) == ok

Finish(ok) ==
  /\ changed' = changed \cup {p \in {Item.path} : Succeeds(ok)}
  /\ failed' = failed \cup {p \in {Item.path} : ~Succeeds(ok)}
  /\ todo' = Tail(todo)
  /\ pc' = AfterItem

(* What is read of the file: at most EditLimit lines, and nothing of one    *)
(* that does not exist.  A unified diff takes a file it cannot read for     *)
(* empty; anything else fails.                                              *)
ReadForEdit == IF Exists(Item.path) THEN Cut(File(Item.path), EditLimit) ELSE <<>>

(* The texts the request may put in its file; none if it is refused.        *)
Rewrites == {"write", "append", "add", "replace", "update", "unified"}

Results(r) ==
  CASE r.op = "write"   -> {r.new}
    [] r.op = "append"  -> {ReadForEdit \o r.new}
    [] r.op = "add"     -> IF Exists(r.path) THEN {} ELSE {r.new}
    [] r.op = "replace" -> IF Exists(r.path) THEN ReplaceExact(ReadForEdit, r.old, r.new) ELSE {}
    [] r.op = "update"  -> IF Exists(r.path) THEN ApplyBlock(ReadForEdit, r.old, r.new) ELSE {}
    [] r.op = "unified" -> UNION {ApplyHunk(t, r.old, r.new) : t \in {ReadForEdit, <<>>}}
    [] r.op = "copy"    -> {File(r.from)} \ {Absent}
    [] r.op = "restore" -> {disk[<<r.path, t>>] : t \in Times \ {0}} \ {Absent}
    [] OTHER            -> {}

(* What a request begins with: the file is read and the result worked out.  *)
Look ==
  /\ pc = "item"
  /\ request' = Item /\ original' = File(Item.path) /\ unkept' = FALSE
  /\ UNCHANGED <<now, calls, dry, tmp, start, meddled, disturbed, died, syncFailed>>

GoOn(where, next) ==
  /\ pc' = where /\ job' = next
  /\ UNCHANGED <<todo, changed, failed>>

Prepare ==
  /\ Look
  /\ text' \in Results(Item)
  /\ \/ dry /\ Finish(TRUE) /\ UNCHANGED job
     \/ ~dry /\ Item.op \in Rewrites /\ GoOn("save", NoJob)
     \/ ~dry /\ Item.op \notin Rewrites /\ GoOn("open", <<<<Item.path, 0>>, text'>>)
  /\ UNCHANGED <<disk, unsynced>>

PrepareOther ==
  /\ Look
  /\ Item.op \in {"delete", "backup"} /\ Exists(Item.path)
  /\ \/ dry /\ Finish(TRUE) /\ UNCHANGED job
     \/ ~dry /\ GoOn("save", NoJob)
  /\ UNCHANGED <<disk, unsynced, text>>

(* Refused, not readable, or beyond the memory budget.                      *)
Refuse ==
  /\ Look
  /\ Finish(FALSE)
  /\ UNCHANGED <<disk, unsynced, text, job>>

(* fs_move: one rename, or a copy and a deletion when that fails.           *)
MoveByRename ==
  /\ Look
  /\ Item.op = "move" /\ Exists(Item.from)
  /\ disk' = [disk EXCEPT ![<<Item.from, 0>>] = Absent,
                          ![<<Item.path, 0>>] = File(Item.from)]
  /\ unsynced' = (unsynced \ {<<Item.from, 0>>, <<Item.path, 0>>})
                   \cup {d \in {<<Item.path, 0>>} : <<Item.from, 0>> \in unsynced}
  /\ Finish(TRUE)
  /\ UNCHANGED <<text, job>>

MoveByCopy ==
  /\ Look
  /\ Item.op = "move" /\ Exists(Item.from) /\ Item.from # Item.path
  /\ text' = File(Item.from)
  /\ GoOn("open", <<<<Item.path, 0>>, text'>>)
  /\ UNCHANGED <<disk, unsynced>>

-----------------------------------------------------------------------------
(* fs_backup: a copy under a name made of the time.  When it fails, the     *)
(* request goes on without one.                                             *)
Doomed == IF Item.op = "move" THEN Item.from ELSE Item.path
Saving == pc = "save" \/ (job # NoJob /\ job[1][2] # 0)
unchangedInSave == <<disk, unsynced, calls, dry, text, tmp, request, original,
                     start, meddled, disturbed, died, syncFailed>>

(* What follows atomic_write, or a backup that was not made.  Mutant: a     *)
(* move deletes the original whether or not the copy was made.              *)
Mutant_CopiedAnyway(ok) == Item.op = "move"
Copied(ok) == Item.op = "move" /\ ok
Resume(ok) ==
  \/ /\ Saving /\ Item.op \in Rewrites
     /\ GoOn("open", <<<<Item.path, 0>>, text>>)
  \/ /\ Saving /\ Item.op \in {"delete", "move"}
     /\ GoOn("unlink", NoJob)
  \/ /\ ~Saving /\ Copied(ok)
     /\ GoOn("save", NoJob)
  \/ /\ IF Saving THEN Item.op = "backup" ELSE ~Copied(ok)
     /\ Finish(ok) /\ job' = NoJob

(* The time is only looked at here, and may be the same as last time.       *)
BackupPlace(p) == <<p, now'>>

(* What a backup holds of a file: all of it.  Mutant: what an edit reads.   *)
Mutant_KeptCut(p) == Cut(File(p), EditLimit)
Kept(p) == File(p)

Save ==
  /\ pc = "save"
  /\ Exists(Doomed) /\ (Backups \/ Item.op = "backup")
  /\ now' \in now .. MaxTime
  /\ GoOn("open", <<BackupPlace(Doomed), Kept(Doomed)>>)
  /\ UNCHANGED unkept
  /\ UNCHANGED unchangedInSave

SaveNothing ==
  /\ pc = "save"
  /\ Resume(FALSE)
  /\ unkept' = TRUE
  /\ UNCHANGED <<unchangedInSave, now>>

-----------------------------------------------------------------------------
(* atomic_write: a temporary file beside the target is written, synced and  *)
(* renamed over it.  An error removes it again.  Mutant: it is left behind. *)
Mutant_AfterErrorLeft == tmp
AfterError == "none"

WriteFails ==
  /\ pc \in {"open", "fill", "rename"}
  /\ tmp' = AfterError
  /\ Resume(FALSE) /\ unkept' = (unkept \/ Saving)
  /\ UNCHANGED <<disk, unsynced, now, calls, dry, text, request, original, start,
                 meddled, disturbed, died, syncFailed>>

unchangedInWrite == <<unsynced, now, calls, todo, dry, text, job, changed, failed,
                      request, original, start, meddled, disturbed, unkept, died>>

(* Mutant: the target itself is opened, and truncated.                      *)
Mutant_OpenedInPlace == [disk EXCEPT ![job[1]] = <<>>]
Opened == disk

OpenTemp ==
  /\ pc = "open"
  /\ tmp' = "partial" /\ pc' = "fill"
  /\ disk' = Opened
  /\ UNCHANGED <<unchangedInWrite, syncFailed>>

(* Mutant: the file is renamed without being synced.                        *)
Mutant_AfterFillUnsynced == "rename"
AfterFill == "sync"
FillTemp ==
  /\ pc = "fill"
  /\ tmp' = "written" /\ pc' = AfterFill
  /\ UNCHANGED <<disk, unchangedInWrite, syncFailed>>

(* A failing fsync is ignored.                                              *)
SyncTemp ==
  /\ pc = "sync"
  /\ \/ tmp' = "synced" /\ UNCHANGED syncFailed
     \/ syncFailed' = TRUE /\ UNCHANGED tmp
  /\ pc' = "rename"
  /\ UNCHANGED <<disk, unchangedInWrite>>

RenameTemp ==
  /\ pc = "rename"
  /\ disk' = [disk EXCEPT ![job[1]] = job[2]]
  /\ unsynced' = IF tmp = "synced" THEN unsynced \ {job[1]} ELSE unsynced \cup {job[1]}
  /\ tmp' = "none"
  /\ Resume(TRUE)
  /\ UNCHANGED <<now, calls, dry, text, request, original, start, meddled, disturbed,
                 unkept, died, syncFailed>>

Unlink ==
  /\ pc = "unlink"
  /\ \/ /\ Exists(Doomed)
        /\ disk' = [disk EXCEPT ![<<Doomed, 0>>] = Absent]
        /\ unsynced' = unsynced \ {<<Doomed, 0>>}
        /\ Finish(TRUE)
     \/ Finish(FALSE) /\ UNCHANGED <<disk, unsynced>>
  /\ UNCHANGED <<now, calls, dry, text, job, tmp, observed>>

Engine ==
  \/ Begin
  \/ Prepare \/ PrepareOther \/ Refuse \/ MoveByRename \/ MoveByCopy
  \/ Save \/ SaveNothing
  \/ OpenTemp \/ FillTemp \/ SyncTemp \/ RenameTemp \/ WriteFails
  \/ Unlink

-----------------------------------------------------------------------------
(* The process dies, alone or with the power; a temporary file is left      *)
(* behind, which no listing shows.  What was not synced may then be lost.   *)
Die(where) ==
  /\ pc \notin {where, "off"}
  /\ pc' = where
  /\ todo' = <<>> /\ job' = NoJob /\ tmp' = "none" /\ died' = TRUE
  /\ UNCHANGED <<disk, unsynced, now, calls, dry, text, changed, failed, request,
                 original, start, meddled, disturbed, unkept, syncFailed>>

Boot ==
  /\ pc = "off"
  /\ pc' = "idle"
  /\ \E lost \in SUBSET unsynced :
       disk' = [d \in Places |-> IF d \in lost THEN Torn ELSE disk[d]]
  /\ unsynced' = {}
  /\ UNCHANGED <<now, calls, todo, dry, text, job, tmp, changed, failed, observed>>

Outside ==
  /\ meddled < MaxMeddled /\ pc # "off"
  /\ \E p \in Paths : \E t \in Foreign :
       /\ disk' = [disk EXCEPT ![<<p, 0>>] = t]
       /\ unsynced' = unsynced \ {<<p, 0>>}
  /\ meddled' = meddled + 1 /\ disturbed' = TRUE
  /\ UNCHANGED <<now, calls, engine, request, original, start, unkept, died, syncFailed>>

Next == Engine \/ Die("idle") \/ Die("off") \/ Boot \/ Outside
Spec == Init /\ [][Next]_vars

-----------------------------------------------------------------------------
(* PROPERTIES                                                               *)
AllTexts == Seq(Lines) \cup {Absent}

(* Type invariant.                                                          *)
TypeOK ==
  /\ disk \in [Places -> AllTexts] /\ unsynced \subseteq Places
  /\ now \in 1 .. MaxTime /\ calls \in 0 .. MaxCalls /\ meddled \in 0 .. MaxMeddled
  /\ pc \in {"idle", "item", "save", "open", "fill", "sync", "rename", "unlink", "off"}
  /\ todo = <<>> <=> pc \in {"idle", "off"}
  /\ job = NoJob \/ job \in Places \X Seq(Lines)
  /\ pc \in {"open", "fill", "sync", "rename"} <=> job # NoJob
  /\ tmp \in {"none", "partial", "written", "synced"}
  /\ changed \subseteq Paths /\ failed \subseteq Paths
  /\ text \in AllTexts /\ original \in AllTexts /\ start \in [Paths -> AllTexts]

(* No file and no backup is ever left half-written, wherever the process    *)
(* or the power dies, as long as fsync works.                               *)
NoTornFile == (\E d \in Places : disk[d] = Torn) => syncFailed

(* Whatever a write, an edit, a patch or a deletion has replaced is in a    *)
(* backup, unless making the backup failed, also when the process died in   *)
(* between.                                                                 *)
LastVersionKept ==
  /\ request.op \in Rewrites \cup {"delete"} /\ original # Absent
  /\ File(request.path) # original
  /\ ~disturbed /\ ~unkept /\ ~syncFailed
  => \E t \in Times \ {0} : disk[<<request.path, t>>] = original

(* A move never loses the file: at every moment it is in one of its places. *)
MoveKeepsFile ==
  request.op = "move" /\ ~disturbed /\ ~syncFailed =>
    start[request.from] \in {File(request.from), File(request.path)}

(* The report of a call agrees with the disk: a file that is not among the  *)
(* changed ones is as it was, a dry run changes nothing, and a file that    *)
(* was changed and has not failed holds what was asked for.                 *)
ReportAgrees ==
  pc = "idle" /\ ~disturbed /\ ~died =>
    /\ \A p \in Paths : File(p) # start[p] =>
         ~dry /\ (p \in changed \/ request.op = "move")
    /\ ~dry /\ request.op \in Rewrites /\ request.path \in changed \ failed =>
         File(request.path) = text
    /\ ~dry /\ request.op = "delete" /\ request.path \in changed \ failed =>
         ~Exists(request.path)

(* A call that returns, with or without an error, leaves no temporary file. *)
NoStrayTemp == tmp # "none" => pc \in {"fill", "sync", "rename"}

(* The engine is a store of files that change in single steps.              *)
Intent == IF job # NoJob /\ job[1][2] = 0 THEN <<job[1][1], job[2]>>
          ELSE IF pc = "unlink" THEN <<Doomed, Absent>> ELSE <<>>
Store == INSTANCE FileStore WITH content <- Files, intent <- Intent
StoreSpec == Store!Spec
=============================================================================
