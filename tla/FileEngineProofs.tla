--------------------------- MODULE FileEngineProofs ---------------------------
(***************************************************************************)
(* The file engine, for every set of files, lines and calls: types, that   *)
(* nothing half-written is left where the process or the power may fail,   *)
(* that what is replaced is in a backup, and that the steps of the engine  *)
(* implement a store whose files change at once.                           *)
(***************************************************************************)
EXTENDS FileEngine, TLAPS

Writing == {"open", "fill", "sync", "rename"}
Working == Writing \cup {"save", "unlink"}
Saved   == Rewrites \cup {"delete", "backup", "move"}

-----------------------------------------------------------------------------
(* Texts.                                                                   *)
LEMMA CleanIsText == Clean \subseteq Lines /\ Seq(Clean) \subseteq Seq(Lines)
<1>1. Clean \subseteq Lines
  BY DEF Clean
<1>2. ASSUME NEW s \in Seq(Clean) PROVE s \in Seq(Lines)
  <2>1. Len(s) \in Nat /\ s = [i \in 1 .. Len(s) |-> s[i]]
    OBVIOUS
  <2>2. \A i \in 1 .. Len(s) : s[i] \in Lines
    BY <1>1
  <2> QED BY <2>1, <2>2
<1> QED BY <1>1, <1>2

LEMMA NotEmptyIs ==
  ASSUME NEW S, NEW s \in Seq(S), s # <<>> PROVE Len(s) \in Nat /\ Len(s) >= 1
<1>1. Len(s) = 0 => s = <<>>
  OBVIOUS
<1> QED BY <1>1

LEMMA CutTyped ==
  ASSUME NEW S, NEW s \in Seq(S) PROVE Cut(s, EditLimit) \in Seq(S)
BY BoundsAssumption DEF Cut

LEMMA SpliceTyped ==
  ASSUME NEW S, NEW s \in Seq(S), NEW old, Len(old) \in Nat, NEW new \in Seq(S),
         NEW i \in Positions(s, old)
  PROVE  Splice(s, i, old, new) \in Seq(S)
<1>1. i \in Nat /\ i <= Len(s) /\ i + Len(old) + 1 \in Nat \ {0}
  BY DEF Positions
<1>2. SubSeq(s, 1, i) \in Seq(S)
  BY <1>1
<1>3. SubSeq(s, i + Len(old) + 1, Len(s)) \in Seq(S)
  BY <1>1
<1> HIDE <1>1
<1> QED BY <1>2, <1>3 DEF Splice

(* What a request makes of texts over a set of lines is one of them.        *)
LEMMA ResultsTyped ==
  ASSUME NEW S, NEW r, r = Item,
         r.path \in Paths, r.from \in Paths, r.old \in Seq(S), r.new \in Seq(S),
         \A d \in Places : disk[d] \in Seq(S) \cup {Absent}
  PROVE  Results(r) \subseteq Seq(S)
<1>1. \A p \in Paths : File(p) \in Seq(S) \cup {Absent}
  BY BoundsAssumption DEF File, Places, Times
<1>2. <<>> \in Seq(S)
  OBVIOUS
<1>3. ReadForEdit \in Seq(S)
  BY <1>1, <1>2, CutTyped DEF ReadForEdit, Exists
<1>4. Len(r.old) \in Nat
  OBVIOUS
<1>5. \A s \in Seq(S) : ReplaceExact(s, r.old, r.new) \subseteq Seq(S)
  BY <1>4, SpliceTyped DEF ReplaceExact
<1>6. \A s \in Seq(S) : ApplyBlock(s, r.old, r.new) \subseteq Seq(S)
  <2> SUFFICES ASSUME NEW s \in Seq(S), NEW x \in ApplyBlock(s, r.old, r.new)
               PROVE  x \in Seq(S)
    OBVIOUS
  <2>1. CASE r.old = <<>>
    <3>1. s \o r.new \in Seq(S)
      OBVIOUS
    <3> QED BY <2>1, <3>1 DEF ApplyBlock
  <2>2. CASE r.old # <<>>
    BY <1>4, <2>2, SpliceTyped DEF ApplyBlock
  <2> QED BY <2>1, <2>2
<1>7. \A s \in Seq(S) : ApplyHunk(s, r.old, r.new) \subseteq Seq(S)
  BY <1>4, SpliceTyped DEF ApplyHunk
<1>8. ReadForEdit \o r.new \in Seq(S)
  BY <1>3
<1>9. ASSUME NEW t \in Times PROVE disk[<<r.path, t>>] \in Seq(S) \cup {Absent}
  BY DEF Places
<1> HIDE DEF File, ReadForEdit, Exists
<1>10. CASE r.op = "write"
  BY <1>10 DEF Results
<1>11. CASE r.op = "append"
  BY <1>8, <1>11 DEF Results
<1>12. CASE r.op = "add"
  BY <1>12 DEF Results
<1>13. CASE r.op = "replace"
  BY <1>3, <1>5, <1>13 DEF Results
<1>14. CASE r.op = "update"
  BY <1>3, <1>6, <1>14 DEF Results
<1>15. CASE r.op = "unified"
  <2>1. Results(r) = UNION {ApplyHunk(t, r.old, r.new) : t \in {ReadForEdit, <<>>}}
    BY <1>15 DEF Results
  <2> QED BY <1>2, <1>3, <1>7, <2>1
<1>16. CASE r.op = "copy"
  BY <1>1, <1>16 DEF Results
<1>17. CASE r.op = "restore"
  BY <1>9, <1>17 DEF Results
<1>18. CASE r.op \notin {"write", "append", "add", "replace", "update", "unified",
                         "copy", "restore"}
  BY <1>18 DEF Results
<1> QED
  BY <1>10, <1>11, <1>12, <1>13, <1>14, <1>15, <1>16, <1>17, <1>18

-----------------------------------------------------------------------------
(* Types, and where a request is in its steps.                              *)
JobShape ==
  /\ job[1][2] = 0 => job[1][1] = Item.path /\ Item.op \notin {"delete", "backup"}
  /\ job[1][2] # 0 => job[1][1] = Doomed /\ Item.op \in Saved
Shape ==
  /\ todo \in Seq(Request) /\ dry \in BOOLEAN
  /\ pc \in Working => request = Item
  /\ pc = "save" => Item.op \in Saved
  /\ pc = "unlink" => Item.op \in {"delete", "move"}
  /\ pc \in Working /\ pc # "unlink" /\ Item.op \in Rewrites => text \in Seq(Lines)
  /\ pc \in Writing => JobShape
TypeInv == TypeOK /\ Shape

Env ==
  /\ disk \in [Places -> AllTexts] /\ unsynced \subseteq Places
  /\ now \in 1 .. MaxTime /\ calls \in 0 .. MaxCalls /\ meddled \in 0 .. MaxMeddled
  /\ tmp \in {"none", "partial", "written", "synced"}
  /\ text \in AllTexts /\ original \in AllTexts /\ start \in [Paths -> AllTexts]
Ctl ==
  /\ pc \in {"idle", "item", "save", "open", "fill", "sync", "rename", "unlink", "off"}
  /\ todo = <<>> <=> pc \in {"idle", "off"}
  /\ job = NoJob \/ job \in Places \X Seq(Lines)
  /\ pc \in Writing <=> job # NoJob
  /\ changed \subseteq Paths /\ failed \subseteq Paths

LEMMA TypeParts == TypeInv <=> Env /\ Ctl /\ Shape
BY DEF TypeInv, TypeOK, Env, Ctl, Writing

LEMMA ItemTyped ==
  ASSUME TypeInv, todo # <<>>
  PROVE  /\ Item \in Request /\ Tail(todo) \in Seq(Request)
         /\ Item.path \in Paths /\ Item.from \in Paths /\ Doomed \in Paths
         /\ <<Item.path, 0>> \in Places /\ <<Item.from, 0>> \in Places
         /\ <<Doomed, 0>> \in Places
         /\ File(Item.path) \in AllTexts /\ File(Item.from) \in AllTexts
         /\ File(Doomed) \in AllTexts
<1>1. Item \in Request /\ Tail(todo) \in Seq(Request)
  BY DEF TypeInv, Shape, Item
<1>2. Item.path \in Paths /\ Item.from \in Paths
  BY <1>1 DEF Request
<1>3. Doomed \in Paths
  BY <1>2 DEF Doomed
<1>4. \A p \in Paths : <<p, 0>> \in Places
  BY BoundsAssumption DEF Places, Times
<1>5. \A p \in Paths : File(p) \in AllTexts
  BY <1>4 DEF File, TypeInv, TypeOK
<1> QED BY <1>1, <1>2, <1>3, <1>4, <1>5

(* The end of a request.                                                    *)
LEMMA FinishTyped ==
  ASSUME TypeInv, todo # <<>>, NEW ok, Finish(ok)
  PROVE  /\ todo' \in Seq(Request) /\ pc' \in {"idle", "item"}
         /\ todo' = <<>> <=> pc' = "idle"
         /\ changed' \subseteq Paths /\ failed' \subseteq Paths
BY ItemTyped DEF Finish, AfterItem, TypeInv, TypeOK

LEMMA FinishCtl ==
  ASSUME TypeInv, todo # <<>>, NEW ok, Finish(ok), job' = NoJob, dry' = dry
  PROVE  Ctl' /\ Shape'
<1>1. /\ todo' \in Seq(Request) /\ pc' \in {"idle", "item"}
      /\ todo' = <<>> <=> pc' = "idle"
      /\ changed' \subseteq Paths /\ failed' \subseteq Paths
  BY FinishTyped
<1>2. dry' \in BOOLEAN
  BY DEF TypeInv, Shape
<1> QED BY <1>1, <1>2 DEF Ctl, Shape, Writing, Working

(* A step that goes on with the same request.                               *)
LEMMA GoOnCtl ==
  ASSUME TypeInv, todo # <<>>, NEW where, NEW next, GoOn(where, next),
         where \in Working, dry' = dry, request' = Item,
         where \in Writing =>
           /\ next \in Places \X Seq(Lines)
           /\ next[1][2] = 0 => next[1][1] = Item.path /\ Item.op \notin {"delete", "backup"}
           /\ next[1][2] # 0 => next[1][1] = Doomed /\ Item.op \in Saved,
         where \notin Writing => next = NoJob,
         where = "save" => Item.op \in Saved,
         where = "unlink" => Item.op \in {"delete", "move"},
         where # "unlink" /\ Item.op \in Rewrites => text' \in Seq(Lines)
  PROVE  Ctl' /\ Shape'
<1>1. /\ pc' = where /\ job' = next /\ todo' = todo
      /\ changed' = changed /\ failed' = failed
  BY DEF GoOn
<1>2. Item' = Item /\ Doomed' = Doomed
  BY <1>1 DEF Item, Doomed
<1>3. next \in Places \X Seq(Lines) => next # NoJob
  BY DEF NoJob
<1>4. Ctl'
  <2>1. changed' \subseteq Paths /\ failed' \subseteq Paths
    BY <1>1 DEF TypeInv, TypeOK
  <2>2. where \in Writing <=> next # NoJob
    BY <1>3
  <2> QED BY <1>1, <2>1, <2>2, <1>3 DEF Ctl, Working, Writing
<1>5. pc' \in Writing => JobShape'
  BY <1>1, <1>2 DEF JobShape
<1>6. Shape'
  <2>1. todo' \in Seq(Request) /\ dry' \in BOOLEAN
    BY <1>1 DEF TypeInv, Shape
  <2> QED BY <1>1, <1>2, <1>5, <2>1 DEF Shape
<1> QED BY <1>4, <1>6

LEMMA ResumeCtl ==
  ASSUME TypeInv, pc \in Writing \cup {"save"}, NEW ok, Resume(ok),
         UNCHANGED <<dry, request, text>>
  PROVE  Ctl' /\ Shape'
<1>1. todo # <<>> /\ request' = Item
  BY DEF TypeInv, TypeOK, Shape, Writing, Working
<1>2. CASE Saving /\ Item.op \in Rewrites /\ GoOn("open", <<<<Item.path, 0>>, text>>)
  <2>1. text \in Seq(Lines)
    BY <1>2 DEF TypeInv, Shape, Writing, Working
  <2>2. <<<<Item.path, 0>>, text>> \in Places \X Seq(Lines)
    BY <1>1, <2>1, ItemTyped
  <2> QED BY <1>1, <1>2, <2>1, <2>2, GoOnCtl DEF Rewrites, Writing, Working
<1>3. CASE Saving /\ Item.op \in {"delete", "move"} /\ GoOn("unlink", NoJob)
  BY <1>1, <1>3, GoOnCtl DEF Writing, Working
<1>4. CASE ~Saving /\ Copied(ok) /\ GoOn("save", NoJob)
  BY <1>1, <1>4, GoOnCtl DEF Writing, Working, Copied, Saved, Rewrites
<1>5. CASE Finish(ok) /\ job' = NoJob
  BY <1>1, <1>5, FinishCtl
<1> QED BY <1>2, <1>3, <1>4, <1>5 DEF Resume

LEMMA TypeInit == Init => TypeInv
<1> SUFFICES ASSUME Init PROVE TypeInv
  OBVIOUS
<1>1. PICK f \in Initial : disk = [d \in Places |-> IF d[2] = 0 THEN f[d[1]] ELSE Absent]
  BY DEF Init
<1>2. f \in [Paths -> AllTexts]
  BY TextsAssumption, CleanIsText DEF AllTexts
<1>3. disk \in [Places -> AllTexts]
  BY <1>1, <1>2 DEF Places, AllTexts
<1>4. start \in [Paths -> AllTexts]
  <2>1. \A p \in Paths : <<p, 0>> \in Places
    BY BoundsAssumption DEF Places, Times
  <2>2. start = [p \in Paths |-> disk[<<p, 0>>]]
    BY DEF Init, Files, File
  <2> QED BY <1>3, <2>1, <2>2
<1>5. Env
  BY <1>3, <1>4, BoundsAssumption DEF Init, Env, AllTexts
<1>6. Ctl /\ Shape
  <2>1. todo = <<>> /\ <<>> \in Seq(Request)
    BY DEF Init
  <2>2. pc = "idle" /\ job = NoJob /\ changed = {} /\ failed = {} /\ dry = FALSE
    BY DEF Init
  <2> QED BY <2>1, <2>2 DEF Ctl, Shape, Writing, Working
<1> QED BY <1>5, <1>6, TypeParts

LEMMA FilesTyped == TypeInv => Files \in [Paths -> AllTexts]
<1> SUFFICES ASSUME TypeInv PROVE Files \in [Paths -> AllTexts]
  OBVIOUS
<1>1. \A p \in Paths : <<p, 0>> \in Places
  BY BoundsAssumption DEF Places, Times
<1>2. disk \in [Places -> AllTexts]
  BY DEF TypeInv, TypeOK
<1> QED BY <1>1, <1>2 DEF Files, File

LEMMA EngineTypes == ASSUME TypeInv, Engine PROVE TypeInv'
<1>0. Env /\ Ctl /\ Shape
  BY TypeParts
<1> SUFFICES Env' /\ Ctl' /\ Shape'
  BY DEF TypeInv, TypeOK, Env, Ctl, Writing
<1>1. CASE Begin
  <2>1. PICK c \in Calls : todo' = c.items /\ dry' = c.dry
    BY <1>1 DEF Begin
  <2>2. todo' \in Seq(Request) /\ todo' # <<>> /\ dry' \in BOOLEAN
    BY <2>1, CallsAssumption
  <2>3. start' \in [Paths -> AllTexts] /\ Absent \in AllTexts
    BY <1>1, FilesTyped DEF Begin, AllTexts
  <2>4. calls' \in 0 .. MaxCalls
    BY <1>0, <1>1, BoundsAssumption DEF Begin, Env
  <2>5. Env'
    BY <1>0, <1>1, <2>3, <2>4 DEF Begin, Env
  <2>6. job = NoJob /\ job' = job /\ pc' = "item" /\ changed' = {} /\ failed' = {}
    BY <1>0, <1>1 DEF Begin, Ctl, Writing
  <2> QED BY <2>2, <2>5, <2>6 DEF Ctl, Shape, Writing, Working
<1>2. ASSUME Look PROVE todo # <<>> /\ job = NoJob /\ Item \in Request
                        /\ (text' \in AllTexts => (UNCHANGED <<disk, unsynced>> => Env'))
  <2>1. todo # <<>> /\ job = NoJob
    BY <1>0, <1>2 DEF Look, Ctl, Writing
  <2>2. original' \in AllTexts
    BY <1>2, <2>1, ItemTyped DEF Look
  <2> QED BY <1>0, <1>2, <2>1, <2>2, ItemTyped DEF Look, Env
<1>3. CASE Prepare
  <2>1. Look /\ text' \in Results(Item) /\ UNCHANGED <<disk, unsynced>>
    BY <1>3 DEF Prepare
  <2>2. todo # <<>> /\ job = NoJob /\ Item \in Request
    BY <1>2, <2>1
  <2>3. text' \in Seq(Lines)
    <3>1. /\ Item.path \in Paths /\ Item.from \in Paths
          /\ Item.old \in Seq(Lines) /\ Item.new \in Seq(Lines)
      BY <2>2, CleanIsText DEF Request
    <3>2. \A d \in Places : disk[d] \in Seq(Lines) \cup {Absent}
      BY <1>0 DEF Env, AllTexts
    <3> HIDE DEF Item
    <3>3. Results(Item) \subseteq Seq(Lines)
      BY <3>1, <3>2, ResultsTyped
    <3> QED BY <2>1, <3>3
  <2>4. Env'
    BY <1>2, <2>1, <2>3 DEF AllTexts
  <2>5. dry' = dry /\ request' = Item
    BY <2>1 DEF Look
  <2>6. CASE Finish(TRUE) /\ UNCHANGED job
    BY <2>2, <2>4, <2>5, <2>6, FinishCtl
  <2>7. CASE Item.op \in Rewrites /\ GoOn("save", NoJob)
    BY <2>2, <2>3, <2>4, <2>5, <2>7, GoOnCtl DEF Writing, Working, Saved
  <2>8. CASE Item.op \notin Rewrites /\ GoOn("open", <<<<Item.path, 0>>, text'>>)
    <3>1. <<<<Item.path, 0>>, text'>> \in Places \X Seq(Lines)
      BY <2>2, <2>3, ItemTyped
    <3>2. Item.op \notin {"delete", "backup"}
      <4>1. Results(Item) # {}
        BY <2>1
      <4> QED BY <4>1 DEF Results
    <3> QED BY <2>2, <2>4, <2>5, <2>8, <3>1, <3>2, GoOnCtl DEF Writing, Working
  <2> QED BY <1>3, <2>6, <2>7, <2>8 DEF Prepare
<1>4. CASE PrepareOther
  <2>1. Look /\ UNCHANGED <<disk, unsynced, text>> /\ Item.op \in {"delete", "backup"}
    BY <1>4 DEF PrepareOther
  <2>2. todo # <<>> /\ job = NoJob /\ Env'
    BY <1>0, <1>2, <2>1 DEF Env
  <2>3. dry' = dry /\ request' = Item
    BY <2>1 DEF Look
  <2>4. CASE Finish(TRUE) /\ UNCHANGED job
    BY <2>2, <2>3, <2>4, FinishCtl
  <2>5. CASE GoOn("save", NoJob)
    BY <2>1, <2>2, <2>3, <2>5, GoOnCtl DEF Writing, Working, Saved, Rewrites
  <2> QED BY <1>4, <2>4, <2>5 DEF PrepareOther
<1>5. CASE Refuse
  <2>1. todo # <<>> /\ job = NoJob /\ Env' /\ dry' = dry
    BY <1>0, <1>2, <1>5 DEF Refuse, Env, Look
  <2> QED BY <1>5, <2>1, FinishCtl DEF Refuse
<1>6. CASE MoveByRename
  <2>1. /\ Look /\ Finish(TRUE) /\ UNCHANGED <<text, job>>
        /\ disk' = [disk EXCEPT ![<<Item.from, 0>>] = Absent,
                                ![<<Item.path, 0>>] = File(Item.from)]
    BY <1>6 DEF MoveByRename
  <2>2. todo # <<>> /\ job = NoJob /\ dry' = dry
    BY <1>2, <2>1 DEF Look
  <2>3. /\ File(Item.from) \in AllTexts /\ File(Item.path) \in AllTexts
        /\ <<Item.path, 0>> \in Places
    BY <2>2, ItemTyped
  <2>4. disk' \in [Places -> AllTexts]
    BY <1>0, <2>1, <2>3 DEF Env, AllTexts
  <2>5. unsynced' \subseteq Places
    BY <1>0, <1>6, <2>3 DEF MoveByRename, Env
  <2>6. Env'
    BY <1>0, <2>1, <2>3, <2>4, <2>5 DEF Env, Look
  <2> QED BY <2>1, <2>2, <2>6, FinishCtl
<1>7. CASE MoveByCopy
  <2>1. /\ Look /\ Item.op = "move" /\ Exists(Item.from) /\ text' = File(Item.from)
        /\ GoOn("open", <<<<Item.path, 0>>, text'>>) /\ UNCHANGED <<disk, unsynced>>
    BY <1>7 DEF MoveByCopy
  <2>2. todo # <<>> /\ job = NoJob /\ dry' = dry /\ request' = Item
    BY <1>2, <2>1 DEF Look
  <2>3. text' \in Seq(Lines) /\ <<Item.path, 0>> \in Places
    BY <2>1, <2>2, ItemTyped DEF AllTexts, Exists
  <2>4. Env'
    BY <1>2, <2>1, <2>3 DEF AllTexts
  <2>5. <<<<Item.path, 0>>, text'>> \in Places \X Seq(Lines)
    BY <2>3
  <2> QED BY <2>1, <2>2, <2>4, <2>5, GoOnCtl DEF Writing, Working, Rewrites
<1>8. CASE Save
  <2>1. /\ pc = "save" /\ Exists(Doomed) /\ now' \in now .. MaxTime
        /\ GoOn("open", <<<<Doomed, now'>>, File(Doomed)>>)
        /\ UNCHANGED unchangedInSave
    BY <1>8 DEF Save, BackupPlace, Kept
  <2>2. todo # <<>> /\ request' = Item /\ dry' = dry /\ text' = text
    BY <1>0, <2>1 DEF Ctl, Shape, Working, unchangedInSave
  <2>3. now' \in 1 .. MaxTime
    BY <1>0, <2>1 DEF Env
  <2>4. now' # 0 /\ <<Doomed, now'>> \in Places
    BY <2>2, <2>3, ItemTyped, BoundsAssumption DEF Places, Times
  <2>5. File(Doomed) \in Seq(Lines)
    BY <2>1, <2>2, ItemTyped DEF Exists, AllTexts
  <2>6. <<<<Doomed, now'>>, File(Doomed)>> \in Places \X Seq(Lines)
    BY <2>4, <2>5
  <2>7. Item.op \in Saved /\ (Item.op \in Rewrites => text \in Seq(Lines))
    BY <1>0, <2>1 DEF Shape, Working
  <2>8. Env'
    BY <1>0, <2>1, <2>3 DEF Env, unchangedInSave
  <2>9. Ctl' /\ Shape'
    BY <2>1, <2>2, <2>4, <2>6, <2>7, GoOnCtl DEF Writing, Working
  <2> QED BY <2>8, <2>9
<1>9. CASE SaveNothing
  <2>1. pc = "save" /\ Resume(FALSE) /\ UNCHANGED <<unchangedInSave, now>>
    BY <1>9 DEF SaveNothing
  <2>2. Env'
    BY <1>0, <2>1 DEF Env, unchangedInSave
  <2> QED BY <2>1, <2>2, ResumeCtl DEF unchangedInSave
<1>10. CASE WriteFails
  <2>1. pc \in Writing /\ Resume(FALSE) /\ UNCHANGED <<dry, request, text>>
    BY <1>10 DEF WriteFails, Writing
  <2>2. Env'
    BY <1>0, <1>10 DEF WriteFails, Env, AfterError
  <2> QED BY <2>1, <2>2, ResumeCtl
<1>11. CASE OpenTemp \/ FillTemp \/ SyncTemp
  <2>1. /\ pc \in Writing /\ pc' \in Writing
        /\ UNCHANGED <<disk, unchangedInWrite>>
        /\ tmp' \in {"none", "partial", "written", "synced"}
    BY <1>0, <1>11
    DEF OpenTemp, FillTemp, SyncTemp, AfterFill, Opened, Writing, Env
  <2>2. Env'
    BY <1>0, <2>1 DEF Env, unchangedInWrite
  <2>3. Ctl'
    BY <1>0, <2>1 DEF Ctl, unchangedInWrite, Writing
  <2>4. JobShape' /\ Item' = Item
    BY <1>0, <2>1 DEF JobShape, Shape, Item, Doomed, unchangedInWrite
  <2>5. Shape'
    BY <1>0, <2>1, <2>4 DEF Shape, unchangedInWrite, Writing, Working
  <2> QED BY <2>2, <2>3, <2>5
<1>12. CASE RenameTemp
  <2>1. /\ pc = "rename" /\ Resume(TRUE) /\ UNCHANGED <<dry, request, text>>
        /\ disk' = [disk EXCEPT ![job[1]] = job[2]]
    BY <1>12 DEF RenameTemp
  <2>2. job \in Places \X Seq(Lines)
    BY <1>0, <2>1 DEF Ctl, Writing
  <2>3. job[1] \in Places /\ job[2] \in AllTexts
    BY <2>2 DEF AllTexts
  <2>4. disk' \in [Places -> AllTexts]
    BY <1>0, <2>1, <2>3 DEF Env
  <2>5. unsynced' \subseteq Places
    BY <1>0, <1>12, <2>3 DEF RenameTemp, Env
  <2>6. Env'
    BY <1>0, <1>12, <2>4, <2>5 DEF RenameTemp, Env
  <2> QED BY <2>1, <2>6, ResumeCtl DEF Writing
<1>13. CASE Unlink
  <2>1. pc = "unlink" /\ job = NoJob /\ todo # <<>> /\ dry' = dry /\ job' = job
    BY <1>0, <1>13 DEF Unlink, Ctl, Writing
  <2>2. CASE UNCHANGED <<disk, unsynced>> /\ Finish(FALSE)
    <3>1. Env'
      BY <1>0, <1>13, <2>2 DEF Unlink, Env, observed
    <3> QED BY <2>1, <2>2, <3>1, FinishCtl
  <2>3. CASE /\ disk' = [disk EXCEPT ![<<Doomed, 0>>] = Absent]
             /\ unsynced' = unsynced \ {<<Doomed, 0>>} /\ Finish(TRUE)
    <3>1. disk' \in [Places -> AllTexts] /\ unsynced' \subseteq Places
      BY <1>0, <2>3 DEF Env, AllTexts
    <3>2. Env'
      BY <1>0, <1>13, <3>1 DEF Unlink, Env, observed
    <3> QED BY <2>1, <2>3, <3>2, FinishCtl
  <2> QED BY <1>13, <2>2, <2>3 DEF Unlink
<1> QED
  BY <1>1, <1>3, <1>4, <1>5, <1>6, <1>7, <1>8, <1>9, <1>10, <1>11, <1>12, <1>13
  DEF Engine

LEMMA TypeNext == TypeInv /\ [Next]_vars => TypeInv'
<1> SUFFICES ASSUME TypeInv, [Next]_vars PROVE TypeInv'
  OBVIOUS
<1>0. Env /\ Ctl /\ Shape
  BY TypeParts
<1>1. CASE Engine
  BY <1>1, EngineTypes
<1>2. ASSUME NEW where \in {"idle", "off"}, Die(where) PROVE TypeInv'
  <2>1. Env'
    BY <1>0, <1>2 DEF Die, Env
  <2>2. Ctl' /\ Shape'
    BY <1>0, <1>2 DEF Die, Ctl, Shape, Writing, Working, NoJob
  <2> QED BY <2>1, <2>2 DEF TypeInv, TypeOK, Env, Ctl, Writing
<1>3. CASE Boot
  <2>1. PICK lost \in SUBSET unsynced :
          disk' = [d \in Places |-> IF d \in lost THEN Torn ELSE disk[d]]
    BY <1>3 DEF Boot
  <2>2. Torn \in AllTexts
    BY GarbageAssumption DEF Torn, AllTexts
  <2>3. disk' \in [Places -> AllTexts]
    BY <1>0, <2>1, <2>2 DEF Env
  <2>4. Env'
    BY <1>0, <1>3, <2>3 DEF Boot, Env, observed
  <2>5. Ctl' /\ Shape'
    BY <1>0, <1>3 DEF Boot, Ctl, Shape, Writing, Working
  <2> QED BY <2>4, <2>5 DEF TypeInv, TypeOK, Env, Ctl, Writing
<1>4. CASE Outside
  <2>1. PICK p \in Paths, t \in Foreign :
          /\ disk' = [disk EXCEPT ![<<p, 0>>] = t]
          /\ unsynced' = unsynced \ {<<p, 0>>}
    BY <1>4 DEF Outside
  <2>2. t \in AllTexts
    BY TextsAssumption, CleanIsText DEF AllTexts
  <2>3. disk' \in [Places -> AllTexts] /\ unsynced' \subseteq Places
    BY <1>0, <2>1, <2>2 DEF Env
  <2>4. meddled' \in 0 .. MaxMeddled
    BY <1>0, <1>4, BoundsAssumption DEF Env, Outside
  <2>5. Env'
    BY <1>0, <1>4, <2>3, <2>4 DEF Outside, Env, engine
  <2>6. Ctl' /\ Shape'
    BY <1>0, <1>4
    DEF Outside, engine, Ctl, Shape, JobShape, Item, Doomed, Writing, Working
  <2> QED BY <2>5, <2>6 DEF TypeInv, TypeOK, Env, Ctl, Writing
<1>5. CASE UNCHANGED vars
  BY <1>0, <1>5
  DEF vars, engine, observed, TypeInv, TypeOK, Shape, JobShape, Item, Doomed
<1> QED BY <1>1, <1>2, <1>3, <1>4, <1>5 DEF Next

(* Whatever fails and whoever meddles: types, and in each step of a request *)
(* what it is about.                                                        *)
LEMMA TypesHold == Spec => []TypeInv
BY TypeInit, TypeNext, PTL DEF Spec

THEOREM FileEngineTypes == Spec => []TypeOK
BY TypesHold, PTL DEF TypeInv

-----------------------------------------------------------------------------
(* A call that returns, by success or by any error of atomic_write, leaves  *)
(* no temporary file.                                                       *)
LEMMA StrayNext == TypeInv /\ NoStrayTemp /\ [Next]_vars => NoStrayTemp'
<1> SUFFICES ASSUME TypeInv, NoStrayTemp, Next PROVE NoStrayTemp'
  BY DEF NoStrayTemp, vars, engine
<1> USE DEF NoStrayTemp
<1>1. CASE Engine
  BY <1>1 DEF Engine, Begin, Prepare, PrepareOther, Refuse, MoveByRename,
    MoveByCopy, Look, Save, SaveNothing, unchangedInSave, OpenTemp, FillTemp,
    AfterFill, SyncTemp, RenameTemp, WriteFails, AfterError, Unlink
<1>2. CASE Die("idle") \/ Die("off")
  BY <1>2 DEF Die
<1>3. CASE Boot \/ Outside
  BY <1>3 DEF Boot, Outside, engine
<1> QED BY <1>1, <1>2, <1>3 DEF Next

THEOREM NoStrayTempAlways == Spec => []NoStrayTemp
<1>1. Init => NoStrayTemp
  BY DEF Init, NoStrayTemp
<1> QED BY <1>1, StrayNext, TypesHold, PTL DEF Spec

-----------------------------------------------------------------------------
(* As long as fsync works, every text is stored before it has its name:     *)
(* there is nothing a power failure could take.                             *)
CleanTexts == Seq(Clean) \cup {Absent}
CleanInv ==
  ~syncFailed =>
    /\ disk \in [Places -> CleanTexts] /\ unsynced = {}
    /\ text \in CleanTexts
    /\ pc \in Writing => job[2] \in Seq(Clean)
    /\ pc = "rename" => tmp = "synced"

LEMMA TornIsNotClean == Torn \notin CleanTexts
<1>1. Torn \in Seq(Lines) /\ Torn[1] = Garbage /\ Len(Torn) = 1
  BY GarbageAssumption DEF Torn
<1>2. Torn # Absent
  BY <1>1, AbsentAssumption
<1>3. Torn \notin Seq(Clean)
  <2>1. SUFFICES ASSUME Torn \in Seq(Clean) PROVE FALSE
    OBVIOUS
  <2>2. Torn[1] \in Clean
    BY <1>1, <2>1
  <2> QED BY <1>1, <2>2 DEF Clean
<1> QED BY <1>2, <1>3 DEF CleanTexts

LEMMA CleanInit == Init => CleanInv
<1> SUFFICES ASSUME Init PROVE CleanInv
  OBVIOUS
<1>1. PICK f \in Initial : disk = [d \in Places |-> IF d[2] = 0 THEN f[d[1]] ELSE Absent]
  BY DEF Init
<1>2. f \in [Paths -> CleanTexts]
  BY TextsAssumption DEF CleanTexts
<1>3. disk \in [Places -> CleanTexts]
  BY <1>1, <1>2 DEF Places, CleanTexts
<1> QED BY <1>3 DEF Init, CleanInv, CleanTexts, Writing

(* A failure of fsync is never forgotten.                                   *)
LEMMA SyncFailedStays == ASSUME Next, ~syncFailed' PROVE ~syncFailed
<1>1. CASE Engine
  BY <1>1 DEF Engine, Begin, Prepare, PrepareOther, Refuse, MoveByRename,
    MoveByCopy, Look, Save, SaveNothing, unchangedInSave, OpenTemp, FillTemp,
    SyncTemp, RenameTemp, WriteFails, Unlink, observed
<1>2. CASE Die("idle") \/ Die("off") \/ Boot \/ Outside
  BY <1>2 DEF Die, Boot, Outside, observed
<1> QED BY <1>1, <1>2 DEF Next

(* The two ways a job comes about after a backup.                           *)
LEMMA ResumeJob ==
  ASSUME NEW ok, Resume(ok)
  PROVE  \/ /\ Saving /\ Item.op \in Rewrites
            /\ pc' = "open" /\ job' = <<<<Item.path, 0>>, text>> /\ todo' = todo
         \/ /\ Saving /\ Item.op \in {"delete", "move"}
            /\ pc' = "unlink" /\ job' = NoJob /\ todo' = todo
         \/ /\ ~Saving /\ Item.op = "move" /\ ok
            /\ pc' = "save" /\ job' = NoJob /\ todo' = todo
         \/ /\ Saving => Item.op = "backup"
            /\ pc' \in {"idle", "item"} /\ job' = NoJob
BY DEF Resume, GoOn, Finish, AfterItem, Copied

LEMMA CleanResume ==
  ASSUME TypeInv, CleanInv, ~syncFailed, pc \in Writing \cup {"save"},
         NEW ok, Resume(ok), text' = text
  PROVE  text' \in CleanTexts /\ (pc' \in Writing => job'[2] \in Seq(Clean)) /\ pc' # "rename"
<1>1. text \in CleanTexts
  BY DEF CleanInv
<1>2. CASE Saving /\ Item.op \in Rewrites
           /\ pc' = "open" /\ job' = <<<<Item.path, 0>>, text>>
  <2>1. text \in Seq(Lines)
    BY <1>2 DEF TypeInv, Shape, Writing, Working
  <2>2. text \in Seq(Clean)
    BY <1>1, <2>1, AbsentAssumption DEF CleanTexts
  <2>3. job'[2] = text
    BY <1>2
  <2> QED BY <1>1, <1>2, <2>2, <2>3
<1>3. CASE pc' \in {"unlink", "save", "idle", "item"}
  BY <1>1, <1>3 DEF Writing
<1> QED BY <1>2, <1>3, ResumeJob

LEMMA CleanEngine == ASSUME TypeInv, CleanInv, Engine, ~syncFailed, ~syncFailed'
                     PROVE CleanInv'
<1> USE DEF Writing
<1>0. /\ disk \in [Places -> CleanTexts] /\ unsynced = {} /\ text \in CleanTexts
      /\ pc \in Writing => job[2] \in Seq(Clean)
      /\ pc = "rename" => tmp = "synced"
  BY DEF CleanInv
<1> SUFFICES /\ disk' \in [Places -> CleanTexts] /\ unsynced' = {}
             /\ text' \in CleanTexts
             /\ pc' \in Writing => job'[2] \in Seq(Clean)
             /\ pc' = "rename" => tmp' = "synced"
  BY DEF CleanInv
<1>1. CASE Begin
  BY <1>0, <1>1 DEF Begin, CleanTexts
<1>2. ASSUME Look PROVE /\ todo # <<>> /\ Item \in Request
                        /\ Item.path \in Paths /\ Item.from \in Paths
                        /\ File(Item.from) \in CleanTexts
  <2>1. todo # <<>>
    BY <1>2 DEF Look, TypeInv, TypeOK
  <2> QED BY <1>0, <2>1, ItemTyped DEF File
<1>3. CASE Prepare
  <2>1. Look /\ text' \in Results(Item) /\ UNCHANGED <<disk, unsynced>>
    BY <1>3 DEF Prepare
  <2>2. text' \in Seq(Clean)
    <3>1. Item.old \in Seq(Clean) /\ Item.new \in Seq(Clean)
      BY <1>2, <2>1 DEF Request
    <3>2. \A d \in Places : disk[d] \in Seq(Clean) \cup {Absent}
      BY <1>0 DEF CleanTexts
    <3>3. Item.path \in Paths /\ Item.from \in Paths
      BY <1>2, <2>1
    <3> HIDE DEF Item
    <3>4. Results(Item) \subseteq Seq(Clean)
      BY <3>1, <3>2, <3>3, ResultsTyped
    <3> QED BY <2>1, <3>4
  <2>3. \/ pc' \in {"idle", "item", "save"}
        \/ pc' = "open" /\ job' = <<<<Item.path, 0>>, text'>>
    BY <1>3 DEF Prepare, Finish, AfterItem, GoOn
  <2>4. pc' = "open" => job'[2] = text'
    BY <2>3
  <2> QED BY <1>0, <2>1, <2>2, <2>3, <2>4 DEF CleanTexts
<1>4. CASE PrepareOther \/ Refuse
  <2>1. UNCHANGED <<disk, unsynced, text>> /\ pc' \in {"idle", "item", "save"}
    BY <1>4 DEF PrepareOther, Refuse, Finish, AfterItem, GoOn
  <2> QED BY <1>0, <2>1
<1>5. CASE MoveByRename
  <2>1. /\ Look /\ UNCHANGED text /\ pc' \in {"idle", "item"}
        /\ disk' = [disk EXCEPT ![<<Item.from, 0>>] = Absent,
                                ![<<Item.path, 0>>] = File(Item.from)]
    BY <1>5 DEF MoveByRename, Finish, AfterItem
  <2>2. disk' \in [Places -> CleanTexts]
    BY <1>0, <1>2, <2>1 DEF CleanTexts
  <2>3. unsynced' = {}
    BY <1>0, <1>5 DEF MoveByRename
  <2> QED BY <1>0, <2>1, <2>2, <2>3
<1>6. CASE MoveByCopy
  <2>1. /\ Look /\ Exists(Item.from) /\ text' = File(Item.from)
        /\ UNCHANGED <<disk, unsynced>>
        /\ pc' = "open" /\ job' = <<<<Item.path, 0>>, text'>>
    BY <1>6 DEF MoveByCopy, GoOn
  <2>2. text' \in Seq(Clean)
    BY <1>2, <2>1 DEF Exists, CleanTexts
  <2>3. job'[2] = text'
    BY <2>1
  <2> QED BY <1>0, <2>1, <2>2, <2>3 DEF CleanTexts
<1>7. CASE Save
  <2>1. /\ pc = "save" /\ Exists(Doomed) /\ UNCHANGED <<disk, unsynced, text>>
        /\ pc' = "open" /\ job' = <<<<Doomed, now'>>, File(Doomed)>>
    BY <1>7 DEF Save, GoOn, BackupPlace, Kept, unchangedInSave
  <2>2. <<Doomed, 0>> \in Places
    BY <2>1, ItemTyped DEF TypeInv, TypeOK
  <2>3. File(Doomed) \in Seq(Clean)
    BY <1>0, <2>1, <2>2 DEF File, Exists, CleanTexts
  <2>4. job'[2] = File(Doomed)
    BY <2>1
  <2> QED BY <1>0, <2>1, <2>3, <2>4
<1>8. CASE SaveNothing
  <2>1. pc = "save" /\ Resume(FALSE) /\ UNCHANGED <<disk, unsynced, text>>
    BY <1>8 DEF SaveNothing, unchangedInSave
  <2> QED BY <1>0, <2>1, CleanResume
<1>9. CASE WriteFails
  <2>1. pc \in Writing /\ Resume(FALSE) /\ UNCHANGED <<disk, unsynced, text>>
    BY <1>9 DEF WriteFails
  <2> QED BY <1>0, <2>1, CleanResume
<1>10. CASE OpenTemp \/ FillTemp
  BY <1>0, <1>10 DEF OpenTemp, FillTemp, Opened, AfterFill, unchangedInWrite
<1>11. CASE SyncTemp
  BY <1>0, <1>11 DEF SyncTemp, unchangedInWrite
<1>12. CASE RenameTemp
  <2>1. /\ pc = "rename" /\ Resume(TRUE) /\ text' = text
        /\ disk' = [disk EXCEPT ![job[1]] = job[2]]
        /\ unsynced' = unsynced \ {job[1]}
    BY <1>0, <1>12 DEF RenameTemp
  <2>2. disk' \in [Places -> CleanTexts]
    BY <1>0, <2>1 DEF CleanTexts
  <2>3. unsynced' = {}
    BY <1>0, <2>1
  <2> QED BY <2>1, <2>2, <2>3, CleanResume
<1>13. CASE Unlink
  <2>1. /\ text' = text /\ pc' \in {"idle", "item"}
        /\ \/ UNCHANGED <<disk, unsynced>>
           \/ /\ disk' = [disk EXCEPT ![<<Doomed, 0>>] = Absent]
              /\ unsynced' = unsynced \ {<<Doomed, 0>>}
    BY <1>13 DEF Unlink, Finish, AfterItem
  <2>2. disk' \in [Places -> CleanTexts] /\ unsynced' = {}
    BY <1>0, <2>1 DEF CleanTexts
  <2> QED BY <1>0, <2>1, <2>2
<1> QED
  BY <1>1, <1>3, <1>4, <1>5, <1>6, <1>7, <1>8, <1>9, <1>10, <1>11, <1>12, <1>13
  DEF Engine

LEMMA CleanNext == TypeInv /\ CleanInv /\ [Next]_vars => CleanInv'
<1> SUFFICES ASSUME TypeInv, CleanInv, [Next]_vars, ~syncFailed' PROVE CleanInv'
  BY DEF CleanInv
<1>1. CASE UNCHANGED vars
  BY <1>1 DEF vars, engine, observed, CleanInv
<1>2. ~syncFailed
  BY <1>1, SyncFailedStays DEF vars, observed
<1>0. /\ disk \in [Places -> CleanTexts] /\ unsynced = {} /\ text \in CleanTexts
      /\ pc \in Writing => job[2] \in Seq(Clean)
      /\ pc = "rename" => tmp = "synced"
  BY <1>2 DEF CleanInv
<1>3. CASE Engine
  BY <1>2, <1>3, CleanEngine
<1>4. CASE Die("idle") \/ Die("off")
  BY <1>0, <1>4 DEF Die, CleanInv, Writing
<1>5. CASE Boot
  <2>1. disk' = [d \in Places |-> disk[d]]
    BY <1>0, <1>5 DEF Boot
  <2>2. disk' \in [Places -> CleanTexts]
    BY <1>0, <2>1
  <2> QED BY <1>0, <1>5, <2>2 DEF Boot, CleanInv, Writing
<1>6. CASE Outside
  <2>1. PICK p \in Paths, t \in Foreign :
          /\ disk' = [disk EXCEPT ![<<p, 0>>] = t]
          /\ unsynced' = unsynced \ {<<p, 0>>}
    BY <1>6 DEF Outside
  <2>2. t \in CleanTexts
    BY TextsAssumption DEF CleanTexts
  <2>3. disk' \in [Places -> CleanTexts] /\ unsynced' = {}
    BY <1>0, <2>1, <2>2
  <2> QED BY <1>0, <1>6, <2>3 DEF Outside, engine, CleanInv, Writing
<1> QED BY <1>1, <1>3, <1>4, <1>5, <1>6 DEF Next

LEMMA CleanHolds == Spec => []CleanInv
BY CleanInit, CleanNext, TypesHold, PTL DEF Spec

(* Wherever the process or the power dies, no file and no backup is left    *)
(* half-written, because atomic_write (fs_engine.cpp) syncs the temporary   *)
(* file before it is renamed.                                               *)
THEOREM NoTornFileAlways == Spec => []NoTornFile
<1>1. CleanInv => NoTornFile
  BY TornIsNotClean DEF CleanInv, NoTornFile
<1> QED BY <1>1, CleanHolds, PTL

-----------------------------------------------------------------------------
(* What is replaced or removed is in a backup before it is touched: while   *)
(* the backup is made the file is as it was, and what follows only happens  *)
(* when the backup is there, or is known to have failed.                    *)
Concerned ==
  /\ request.op \in Rewrites \cup {"delete"} /\ original # Absent
  /\ ~disturbed /\ ~unkept /\ ~syncFailed
Untouched == File(request.path) = original
InBackup  == \E t \in Times \ {0} : disk[<<request.path, t>>] = original
Backing   == pc \in Writing /\ job[1][2] # 0
Replacing == pc \in Writing /\ job[1][2] = 0

KeptInv ==
  Concerned =>
    /\ request.path \in Paths
    /\ Untouched \/ InBackup
    /\ pc = "save" => Untouched
    /\ Backing => Untouched /\ job[2] = original
    /\ Replacing \/ pc = "unlink" => InBackup

(* A file and its backups are in different places.                          *)
LEMMA BackupApart ==
  ASSUME NEW p \in Paths, NEW t \in Times \ {0}
  PROVE  <<p, t>> \in Places /\ <<p, 0>> \in Places /\ \A q : <<p, t>> # <<q, 0>>
BY BoundsAssumption DEF Places, Times

LEMMA KeptLook ==
  ASSUME TypeInv, Look, disk' = disk,
         pc' \in {"idle", "item", "save"} \/ Item.op \notin Rewrites \cup {"delete"}
  PROVE  KeptInv'
<1>1. request' = Item /\ original' = File(Item.path) /\ todo # <<>>
  BY DEF Look, TypeInv, TypeOK
<1>2. SUFFICES ASSUME Concerned' PROVE KeptInv'
  BY DEF KeptInv
<1>3. request'.path \in Paths
  BY <1>1, ItemTyped
<1>4. Untouched'
  BY <1>1 DEF Untouched, File
<1>5. pc' \in {"idle", "item", "save"}
  BY <1>1, <1>2 DEF Concerned
<1> QED BY <1>3, <1>4, <1>5 DEF KeptInv, Backing, Replacing, Writing

LEMMA KeptResume ==
  ASSUME TypeInv, pc \in Writing \cup {"save"}, NEW ok, Resume(ok),
         request' = request, request.op \in Rewrites \cup {"delete"},
         request'.path \in Paths, InBackup' \/ (~Saving /\ Untouched' /\ ~ok)
  PROVE  KeptInv'
<1>1. request = Item
  BY DEF TypeInv, Shape, Working, Writing
<1>2. ~(Saving => Item.op = "backup") \/ ~Saving
  BY <1>1 DEF Rewrites
<1>3. CASE ~Saving
  <2>1. pc' \in {"idle", "item"}
    BY <1>1, <1>3, ResumeJob DEF Rewrites
  <2> QED BY <2>1 DEF KeptInv, Backing, Replacing, Writing
<1>4. CASE Saving
  <2>1. InBackup'
    BY <1>4
  <2>2. \/ pc' = "open" /\ job'[1][2] = 0
        \/ pc' = "unlink"
    BY <1>1, <1>4, ResumeJob DEF Rewrites
  <2> QED BY <2>1, <2>2 DEF KeptInv, Backing, Replacing, Writing
<1> QED BY <1>3, <1>4

LEMMA KeptEngine == ASSUME TypeInv, CleanInv, KeptInv, Engine PROVE KeptInv'
<1>1. CASE Begin
  BY <1>1 DEF Begin, KeptInv, Concerned, Rewrites
<1>2. CASE Prepare
  <2>1. Look /\ disk' = disk
    BY <1>2 DEF Prepare
  <2>2. pc' \in {"idle", "item", "save"} \/ Item.op \notin Rewrites
    BY <1>2 DEF Prepare, Finish, AfterItem, GoOn
  <2>3. Item.op # "delete"
    <3>1. Results(Item) # {}
      BY <1>2 DEF Prepare
    <3> QED BY <3>1 DEF Results
  <2> QED BY <2>1, <2>2, <2>3, KeptLook
<1>3. CASE PrepareOther \/ Refuse
  <2>1. Look /\ disk' = disk /\ pc' \in {"idle", "item", "save"}
    BY <1>3 DEF PrepareOther, Refuse, Finish, AfterItem, GoOn
  <2> QED BY <2>1, KeptLook
<1>4. CASE MoveByRename \/ MoveByCopy
  BY <1>4 DEF MoveByRename, MoveByCopy, Look, KeptInv, Concerned, Rewrites
<1>5. SUFFICES ASSUME Concerned',
                      Save \/ SaveNothing \/ OpenTemp \/ FillTemp \/ SyncTemp
                        \/ RenameTemp \/ WriteFails \/ Unlink
               PROVE  KeptInv'
  BY <1>1, <1>2, <1>3, <1>4 DEF Engine, KeptInv
<1>6. /\ UNCHANGED <<request, original, disturbed>>
      /\ pc \in Working /\ todo # <<>> /\ request = Item
  BY <1>5 DEF Save, SaveNothing, unchangedInSave, OpenTemp, FillTemp, SyncTemp,
    unchangedInWrite, RenameTemp, WriteFails, Unlink, observed, TypeInv, TypeOK,
    Shape, Working, Writing
<1>7. ~unkept /\ ~syncFailed
  <2>1. ~syncFailed
    BY <1>5, SyncFailedStays DEF Concerned, Next, Engine
  <2>2. CASE SaveNothing
    BY <1>5, <2>2 DEF SaveNothing, Concerned
  <2>3. CASE WriteFails
    BY <1>5, <2>3 DEF WriteFails, Concerned
  <2>4. CASE \/ Save \/ OpenTemp \/ FillTemp \/ SyncTemp \/ RenameTemp \/ Unlink
    <3>1. unkept' = unkept
      BY <2>4 DEF Save, OpenTemp, FillTemp, SyncTemp, RenameTemp, Unlink,
        unchangedInWrite, observed
    <3> QED BY <1>5, <2>1, <3>1 DEF Concerned
  <2> QED BY <1>5, <2>1, <2>2, <2>3, <2>4
<1>8. Concerned
  BY <1>5, <1>6, <1>7 DEF Concerned
<1>9. /\ request.path \in Paths /\ Doomed = request.path
      /\ request.op \in Rewrites \cup {"delete"} /\ request.op # "move"
  BY <1>6, <1>8, ItemTyped DEF Concerned, Doomed, Rewrites
<1>10. /\ Untouched \/ InBackup
       /\ pc = "save" => Untouched
       /\ Backing => Untouched /\ job[2] = original
       /\ Replacing \/ pc = "unlink" => InBackup
  BY <1>8 DEF KeptInv
<1>11. CASE Save
  <2>1. /\ pc = "save" /\ disk' = disk /\ now' \in now .. MaxTime
        /\ pc' = "open" /\ job' = <<<<Doomed, now'>>, File(Doomed)>>
    BY <1>11 DEF Save, GoOn, BackupPlace, Kept, unchangedInSave
  <2>2. now' # 0
    BY <2>1, BoundsAssumption DEF TypeInv, TypeOK
  <2>3. Untouched'
    BY <1>6, <1>10, <2>1 DEF Untouched, File
  <2>4. job'[1][2] = now' /\ job'[2] = original'
    BY <1>6, <1>9, <1>10, <2>1 DEF Untouched
  <2> QED BY <1>6, <1>9, <2>1, <2>2, <2>3, <2>4
      DEF KeptInv, Backing, Replacing, Writing
<1>12. CASE SaveNothing
  BY <1>5, <1>12 DEF SaveNothing, Concerned
<1>13. CASE OpenTemp \/ FillTemp \/ SyncTemp
  <2>1. disk' = disk /\ job' = job /\ pc \in Writing /\ pc' \in Writing
    BY <1>13 DEF OpenTemp, FillTemp, SyncTemp, Opened, AfterFill,
      unchangedInWrite, Writing
  <2>2. /\ Untouched' = Untouched /\ InBackup' = InBackup
    BY <1>6, <2>1 DEF Untouched, InBackup, File
  <2> QED BY <1>6, <1>9, <1>10, <2>1, <2>2 DEF KeptInv, Backing, Replacing, Writing
<1>14. CASE RenameTemp
  <2>1. /\ pc = "rename" /\ Resume(TRUE)
        /\ disk' = [disk EXCEPT ![job[1]] = job[2]]
        /\ job \in Places \X Seq(Lines) /\ disk \in [Places -> AllTexts]
    BY <1>14 DEF RenameTemp, TypeInv, TypeOK
  <2>2. JobShape
    BY <2>1 DEF TypeInv, Shape, Writing
  <2>3. InBackup'
    <3>1. CASE job[1][2] # 0
      <4>1. PICK p \in Paths, t \in Times : job[1] = <<p, t>>
        BY <2>1 DEF Places
      <4>2. p = request.path /\ t # 0
        BY <1>9, <2>2, <3>1, <4>1 DEF JobShape
      <4>3. job[2] = original
        BY <1>10, <2>1, <3>1 DEF Backing, Writing
      <4>4. disk'[<<request.path, t>>] = original
        BY <2>1, <4>1, <4>2, <4>3
      <4> QED BY <1>6, <4>2, <4>4 DEF InBackup
    <3>2. CASE job[1][2] = 0
      <4>1. PICK p \in Paths : job[1] = <<p, 0>>
        BY <2>1, <3>2 DEF Places
      <4>2. PICK t \in Times \ {0} : disk[<<request.path, t>>] = original
        BY <1>10, <2>1, <3>2 DEF Replacing, Writing, InBackup
      <4>3. <<request.path, t>> \in Places /\ <<request.path, t>> # <<p, 0>>
        BY <1>9, <4>2, BackupApart
      <4>4. disk'[<<request.path, t>>] = disk[<<request.path, t>>]
        BY <2>1, <4>1, <4>3
      <4> QED BY <1>6, <4>2, <4>4 DEF InBackup
    <3> QED BY <3>1, <3>2
  <2> QED BY <1>6, <1>9, <2>1, <2>3, KeptResume DEF Writing
<1>15. CASE WriteFails
  <2>1. /\ pc \in Writing /\ Resume(FALSE) /\ disk' = disk
        /\ unkept' = (unkept \/ Saving)
    BY <1>15 DEF WriteFails, Writing
  <2>2. ~Saving
    BY <1>5, <2>1 DEF Concerned
  <2>3. Replacing
    BY <2>1, <2>2 DEF Saving, Replacing, TypeInv, TypeOK, Writing
  <2>4. InBackup'
    BY <1>6, <1>10, <2>1, <2>3 DEF InBackup
  <2> QED BY <1>6, <1>9, <2>1, <2>4, KeptResume
<1>16. CASE Unlink
  <2>1. /\ pc = "unlink" /\ pc' \in {"idle", "item"}
        /\ \/ disk' = disk
           \/ disk' = [disk EXCEPT ![<<Doomed, 0>>] = Absent]
    BY <1>16 DEF Unlink, Finish, AfterItem
  <2>2. PICK t \in Times \ {0} : disk[<<request.path, t>>] = original
    BY <1>10, <2>1 DEF InBackup
  <2>3. <<request.path, t>> \in Places /\ <<request.path, t>> # <<Doomed, 0>>
    BY <1>9, <2>2, BackupApart
  <2>4. disk'[<<request.path, t>>] = original
    BY <2>1, <2>2, <2>3 DEF TypeInv, TypeOK
  <2>5. InBackup'
    BY <1>6, <2>2, <2>4 DEF InBackup
  <2> QED BY <1>6, <1>9, <2>1, <2>5 DEF KeptInv, Backing, Replacing, Writing
<1> QED BY <1>5, <1>11, <1>12, <1>13, <1>14, <1>15, <1>16

LEMMA KeptNext == TypeInv /\ CleanInv /\ KeptInv /\ [Next]_vars => KeptInv'
<1> SUFFICES ASSUME TypeInv, CleanInv, KeptInv, [Next]_vars PROVE KeptInv'
  OBVIOUS
<1>1. CASE Engine
  BY <1>1, KeptEngine
<1>2. CASE Die("idle") \/ Die("off")
  <2>1. /\ UNCHANGED <<disk, request, original, disturbed, unkept, syncFailed>>
        /\ pc' \in {"idle", "off"}
    BY <1>2 DEF Die
  <2>2. Concerned' = Concerned /\ Untouched' = Untouched /\ InBackup' = InBackup
    BY <2>1 DEF Concerned, Untouched, InBackup, File
  <2> QED BY <2>1, <2>2 DEF KeptInv, Backing, Replacing, Writing
<1>3. CASE Boot
  <2>1. UNCHANGED <<request, original, disturbed, unkept, syncFailed>> /\ pc' = "idle"
    BY <1>3 DEF Boot, observed
  <2>2. ~syncFailed => disk' = disk
    <3>1. ~syncFailed => unsynced = {} /\ disk = [d \in Places |-> disk[d]]
      BY DEF CleanInv
    <3> QED BY <1>3, <3>1 DEF Boot
  <2>3. Concerned' = Concerned
    BY <2>1 DEF Concerned
  <2>4. Concerned => Untouched' = Untouched /\ InBackup' = InBackup
    BY <2>1, <2>2 DEF Concerned, Untouched, InBackup, File
  <2> QED BY <2>1, <2>3, <2>4 DEF KeptInv, Backing, Replacing, Writing
<1>4. CASE Outside
  BY <1>4 DEF Outside, KeptInv, Concerned
<1>5. CASE UNCHANGED vars
  BY <1>5 DEF vars, engine, observed, KeptInv, Concerned, Untouched, InBackup,
    Backing, Replacing, File
<1> QED BY <1>1, <1>2, <1>3, <1>4, <1>5 DEF Next

(* Whatever a write, an edit, a patch or a deletion has replaced is in a    *)
(* backup, wherever a step fails and whenever the process or the power      *)
(* dies, unless the backup itself was reported to the engine as failed.     *)
THEOREM LastVersionAlwaysKept == Spec => []LastVersionKept
<1>1. Init => KeptInv
  BY DEF Init, KeptInv, Concerned
<1>2. KeptInv => LastVersionKept
  BY DEF KeptInv, LastVersionKept, Concerned, Untouched, InBackup
<1> QED BY <1>1, <1>2, KeptNext, TypesHold, CleanHolds, PTL DEF Spec

-----------------------------------------------------------------------------
(* A move is the only request of its call, so that the files are as they    *)
(* were when the call began; while it copies, the file is where it was, and *)
(* while it deletes, where it is to be.                                     *)
TodoInv ==
  /\ \A i \in DOMAIN todo : todo[i].op \notin InPatch =>
       Len(todo) = 1 /\ (pc = "item" => request.op = "none")
  /\ pc = "item" /\ request.op = "none" /\ ~disturbed => start = Files

Moving == request.op = "move" /\ ~disturbed /\ ~syncFailed
Moved  == start[request.from]
MoveInv ==
  Moving =>
    /\ request.from \in Paths /\ request.path \in Paths
    /\ File(request.from) = Moved \/ File(request.path) = Moved
    /\ Replacing => File(request.from) = Moved /\ job[2] = Moved
    /\ Backing \/ pc \in {"save", "unlink"} => File(request.path) = Moved
    /\ pc \in Working => request.from # request.path

LEMMA TodoFinish ==
  ASSUME TypeInv, TodoInv, todo # <<>>, NEW ok, Finish(ok), request' = Item
  PROVE  TodoInv'
<1>1. /\ todo' = Tail(todo) /\ Item \in Request /\ todo \in Seq(Request)
      /\ pc' = "item" => Tail(todo) # <<>>
  BY ItemTyped DEF Finish, AfterItem, TypeInv, Shape
<1>2. request'.op # "none"
  BY <1>1 DEF Request, InPatch
<1>3. ASSUME NEW i \in DOMAIN todo' PROVE todo'[i].op \in InPatch
  <2>1. i + 1 \in DOMAIN todo /\ todo'[i] = todo[i + 1] /\ Len(todo) # 1
    BY <1>1
  <2> QED BY <2>1 DEF TodoInv
<1> QED BY <1>2, <1>3 DEF TodoInv

LEMMA TodoNext == TypeInv /\ TodoInv /\ [Next]_vars => TodoInv'
<1> SUFFICES ASSUME TypeInv, TodoInv, [Next]_vars PROVE TodoInv'
  OBVIOUS
<1>1. CASE Begin
  <2>1. PICK c \in Calls : todo' = c.items
    BY <1>1 DEF Begin
  <2>2. request'.op = "none" /\ start' = Files' /\ todo' \in Seq(Request) \ {<<>>}
    BY <1>1, <2>1, CallsAssumption DEF Begin, Files, File
  <2>3. Len(todo') # 1 => Len(todo') > 1
    <3>1. todo' \in Seq(Request) /\ todo' # <<>>
      BY <2>2
    <3>2. Len(todo') \in Nat /\ Len(todo') >= 1
      BY <3>1, NotEmptyIs
    <3>3. \A n \in Nat : n >= 1 /\ n # 1 => n > 1
      OBVIOUS
    <3> QED BY <3>2, <3>3
  <2>4. \A i \in DOMAIN todo' : todo'[i].op \notin InPatch => Len(todo') = 1
    BY <2>1, <2>3, CallsAssumption
  <2> QED BY <2>2, <2>4 DEF TodoInv
<1>2. ASSUME todo' = todo, pc' # "item" PROVE TodoInv'
  BY <1>2 DEF TodoInv
<1>3. ASSUME NEW ok, Finish(ok), pc \in Working, request' = request PROVE TodoInv'
  <2>1. todo # <<>> /\ request' = Item
    BY <1>3 DEF TypeInv, TypeOK, Shape, Working, Writing
  <2> QED BY <1>3, <2>1, TodoFinish
<1>4. ASSUME NEW ok, Resume(ok), pc \in Writing \cup {"save"}, request' = request
      PROVE  TodoInv'
  <2>1. CASE \E where \in {"open", "unlink", "save"} : \E next : GoOn(where, next)
    BY <1>2, <2>1 DEF GoOn
  <2>2. CASE Finish(ok)
    BY <1>3, <1>4, <2>2 DEF Working
  <2> QED BY <1>4, <2>1, <2>2 DEF Resume
<1>5. CASE Prepare \/ PrepareOther \/ Refuse \/ MoveByRename \/ MoveByCopy
  <2>1. Look /\ todo # <<>> /\ request' = Item
    BY <1>5 DEF Prepare, PrepareOther, Refuse, MoveByRename, MoveByCopy, Look,
      TypeInv, TypeOK
  <2>2. CASE \E ok \in BOOLEAN : Finish(ok)
    BY <2>1, <2>2, TodoFinish
  <2>3. CASE \E where \in {"open", "save"} : \E next : GoOn(where, next)
    BY <1>2, <2>3 DEF GoOn
  <2> QED BY <1>5, <2>2, <2>3
      DEF Prepare, PrepareOther, Refuse, MoveByRename, MoveByCopy
<1>6. CASE Save
  BY <1>2, <1>6 DEF Save, GoOn
<1>7. CASE SaveNothing
  BY <1>4, <1>7 DEF SaveNothing, unchangedInSave
<1>8. CASE WriteFails \/ RenameTemp
  BY <1>4, <1>8 DEF WriteFails, RenameTemp, Writing
<1>9. CASE OpenTemp \/ FillTemp \/ SyncTemp
  BY <1>2, <1>9 DEF OpenTemp, FillTemp, SyncTemp, AfterFill, unchangedInWrite
<1>10. CASE Unlink
  BY <1>3, <1>10 DEF Unlink, observed, Working
<1>11. CASE Die("idle") \/ Die("off")
  BY <1>11 DEF Die, TodoInv
<1>12. CASE Boot
  BY <1>2, <1>12 DEF Boot
<1>13. CASE Outside
  BY <1>13 DEF Outside, engine, TodoInv
<1>14. CASE UNCHANGED vars
  BY <1>14 DEF vars, engine, observed, TodoInv, Files, File
<1> QED
  BY <1>1, <1>5, <1>6, <1>7, <1>8, <1>9, <1>10, <1>11, <1>12, <1>13, <1>14
  DEF Next, Engine

LEMMA MoveLook ==
  ASSUME TypeInv, TodoInv, Look, Item.op = "move"
  PROVE  /\ request' = Item /\ Item.path \in Paths /\ Item.from \in Paths
         /\ UNCHANGED <<start, disturbed, syncFailed>>
         /\ ~disturbed => start[Item.from] = File(Item.from)
<1>1. /\ request' = Item /\ todo # <<>> /\ todo \in Seq(Request) /\ pc = "item"
      /\ UNCHANGED <<start, disturbed, syncFailed>>
  BY DEF Look, TypeInv, TypeOK, Shape
<1>2. Item.path \in Paths /\ Item.from \in Paths
  BY <1>1, ItemTyped
<1>3. 1 \in DOMAIN todo /\ todo[1] = Item
  BY <1>1 DEF Item
<1>4. request.op = "none"
  BY <1>1, <1>3 DEF TodoInv, InPatch
<1>5. ~disturbed => start = Files
  BY <1>1, <1>4 DEF TodoInv
<1> QED BY <1>1, <1>2, <1>5 DEF Files

LEMMA MoveEngine ==
  ASSUME TypeInv, CleanInv, TodoInv, MoveInv, Engine PROVE MoveInv'
<1>1. SUFFICES ASSUME Moving' PROVE MoveInv'
  BY DEF MoveInv
<1>2. CASE Begin
  BY <1>1, <1>2 DEF Begin, Moving
<1>3. CASE Prepare \/ PrepareOther
  <2>1. request' = Item /\ Item.op # "move"
    <3>1. Results(Item) # {} => Item.op # "move"
      BY DEF Results
    <3> QED BY <1>3, <3>1 DEF Prepare, PrepareOther, Look
  <2> QED BY <1>1, <2>1 DEF Moving
<1>4. ASSUME Look
      PROVE  /\ request' = Item /\ Item.path \in Paths /\ Item.from \in Paths
             /\ start' = start /\ start[Item.from] = File(Item.from)
  <2>1. Item.op = "move" /\ ~disturbed
    BY <1>1, <1>4 DEF Look, Moving
  <2> QED BY <1>4, <2>1, MoveLook
<1>5. CASE Refuse
  <2>1. Look /\ disk' = disk /\ pc' \in {"idle", "item"}
    BY <1>5 DEF Refuse, Finish, AfterItem
  <2> QED BY <1>4, <2>1 DEF MoveInv, Moved, File, Replacing, Backing, Writing, Working
<1>6. CASE MoveByRename
  <2>1. /\ Look /\ pc' \in {"idle", "item"} /\ disk \in [Places -> AllTexts]
        /\ disk' = [disk EXCEPT ![<<Item.from, 0>>] = Absent,
                                ![<<Item.path, 0>>] = File(Item.from)]
    BY <1>6 DEF MoveByRename, Finish, AfterItem, TypeInv, TypeOK
  <2>2. <<Item.path, 0>> \in Places
    BY <1>4, <2>1, BoundsAssumption DEF Places, Times
  <2>3. disk'[<<Item.path, 0>>] = File(Item.from)
    BY <2>1, <2>2
  <2> QED BY <1>4, <2>1, <2>3
      DEF MoveInv, Moved, File, Replacing, Backing, Writing, Working
<1>7. CASE MoveByCopy
  <2>1. /\ Look /\ disk' = disk /\ Item.from # Item.path /\ pc' = "open"
        /\ job' = <<<<Item.path, 0>>, File(Item.from)>>
    BY <1>7 DEF MoveByCopy, GoOn
  <2>2. job'[2] = File(Item.from) /\ job'[1][2] = 0
    BY <2>1
  <2> QED BY <1>4, <2>1, <2>2
      DEF MoveInv, Moved, File, Replacing, Backing, Writing, Working
<1>8. SUFFICES ASSUME Save \/ SaveNothing \/ OpenTemp \/ FillTemp \/ SyncTemp
                        \/ RenameTemp \/ WriteFails \/ Unlink
               PROVE  MoveInv'
  BY <1>2, <1>3, <1>5, <1>6, <1>7 DEF Engine
<1>9. /\ UNCHANGED <<request, start, disturbed>>
      /\ pc \in Working /\ todo # <<>> /\ request = Item
  BY <1>8 DEF Save, SaveNothing, unchangedInSave, OpenTemp, FillTemp, SyncTemp,
    unchangedInWrite, RenameTemp, WriteFails, Unlink, observed, TypeInv, TypeOK,
    Shape, Working, Writing
<1>10. Moving /\ Moved' = Moved
  <2>1. ~syncFailed
    BY <1>1, SyncFailedStays DEF Moving, Next
  <2> QED BY <1>1, <1>9, <2>1 DEF Moving, Moved
<1>11. /\ request.from \in Paths /\ request.path \in Paths
       /\ request.op = "move" /\ Doomed = request.from
       /\ File(request.from) = Moved \/ File(request.path) = Moved
       /\ Replacing => File(request.from) = Moved /\ job[2] = Moved
       /\ Backing \/ pc \in {"save", "unlink"} => File(request.path) = Moved
       /\ request.from # request.path
  BY <1>9, <1>10 DEF MoveInv, Moving, Doomed
<1>12. CASE Save
  <2>1. /\ pc = "save" /\ disk' = disk /\ now' \in now .. MaxTime
        /\ pc' = "open" /\ job' = <<<<Doomed, now'>>, File(Doomed)>>
    BY <1>12 DEF Save, GoOn, BackupPlace, Kept, unchangedInSave
  <2>2. now' # 0 /\ job'[1][2] = now'
    BY <2>1, BoundsAssumption DEF TypeInv, TypeOK
  <2> QED BY <1>9, <1>10, <1>11, <2>1, <2>2
      DEF MoveInv, File, Replacing, Backing, Writing
<1>13. ASSUME NEW ok, Resume(ok), pc \in Writing \cup {"save"},
              ok \/ Saving => File(request.path)' = Moved,
              File(request.from)' = Moved \/ File(request.path)' = Moved
       PROVE  MoveInv'
  <2>1. \/ Saving /\ pc' = "unlink"
        \/ ok /\ pc' = "save"
        \/ pc' \in {"idle", "item"}
    BY <1>9, <1>11, <1>13, ResumeJob DEF Rewrites
  <2> QED BY <1>9, <1>10, <1>11, <1>13, <2>1
      DEF MoveInv, Replacing, Backing, Writing, File
<1>14. CASE SaveNothing
  <2>1. pc = "save" /\ Resume(FALSE) /\ disk' = disk
    BY <1>14 DEF SaveNothing, unchangedInSave
  <2> QED BY <1>9, <1>11, <1>13, <2>1 DEF File
<1>15. CASE OpenTemp \/ FillTemp \/ SyncTemp
  <2>1. disk' = disk /\ job' = job /\ pc \in Writing /\ pc' \in Writing
    BY <1>15 DEF OpenTemp, FillTemp, SyncTemp, Opened, AfterFill,
      unchangedInWrite, Writing
  <2> QED BY <1>9, <1>10, <1>11, <2>1
      DEF MoveInv, File, Replacing, Backing, Writing, Working
<1>16. ASSUME pc \in Writing
       PROVE  (Saving <=> Backing) /\ (Backing \/ Replacing)
  BY <1>16 DEF Saving, Backing, Replacing, TypeInv, TypeOK, Writing
<1>17. CASE RenameTemp
  <2>1. /\ pc = "rename" /\ Resume(TRUE)
        /\ disk' = [disk EXCEPT ![job[1]] = job[2]]
        /\ job \in Places \X Seq(Lines) /\ disk \in [Places -> AllTexts]
    BY <1>17 DEF RenameTemp, TypeInv, TypeOK
  <2>2. JobShape
    BY <2>1 DEF TypeInv, Shape, Writing
  <2>3. disk'[<<request.path, 0>>] = Moved
    <3>1. CASE Backing
      <4>1. PICK p \in Paths, t \in Times : job[1] = <<p, t>>
        BY <2>1 DEF Places
      <4>2. t # 0 /\ job[1] # <<request.path, 0>>
        BY <3>1, <4>1 DEF Backing
      <4>3. <<request.path, 0>> \in Places
        BY <1>11, BoundsAssumption DEF Places, Times
      <4> QED BY <1>11, <2>1, <3>1, <4>2, <4>3 DEF File
    <3>2. CASE Replacing
      <4>1. PICK p \in Paths : job[1] = <<p, 0>>
        BY <2>1, <3>2 DEF Places, Replacing
      <4>2. p = request.path
        BY <1>9, <2>2, <4>1 DEF JobShape
      <4> QED BY <1>11, <2>1, <3>2, <4>1, <4>2
    <3> QED BY <1>16, <2>1, <3>1, <3>2 DEF Writing
  <2> QED BY <1>9, <1>13, <2>1, <2>3 DEF File, Writing
<1>18. CASE WriteFails
  <2>1. pc \in Writing /\ Resume(FALSE) /\ disk' = disk
    BY <1>18 DEF WriteFails, Writing
  <2>2. File(request.from)' = File(request.from) /\ File(request.path)' = File(request.path)
    BY <1>9, <2>1 DEF File
  <2> QED BY <1>11, <1>13, <1>16, <2>1, <2>2
<1>19. CASE Unlink
  <2>1. /\ pc = "unlink" /\ pc' \in {"idle", "item"}
        /\ \/ disk' = disk
           \/ disk' = [disk EXCEPT ![<<Doomed, 0>>] = Absent]
        /\ disk \in [Places -> AllTexts]
    BY <1>19 DEF Unlink, Finish, AfterItem, TypeInv, TypeOK
  <2>2. <<request.path, 0>> \in Places /\ <<request.path, 0>> # <<Doomed, 0>>
    BY <1>11, BoundsAssumption DEF Places, Times
  <2>3. disk'[<<request.path, 0>>] = disk[<<request.path, 0>>]
    BY <2>1, <2>2
  <2>4. File(request.path)' = Moved
    BY <1>9, <1>11, <2>1, <2>3 DEF File
  <2> QED BY <1>9, <1>10, <1>11, <2>1, <2>4
      DEF MoveInv, Replacing, Backing, Writing, Working
<1> QED BY <1>8, <1>12, <1>14, <1>15, <1>17, <1>18, <1>19

LEMMA MoveNext ==
  TypeInv /\ CleanInv /\ TodoInv /\ MoveInv /\ [Next]_vars => MoveInv'
<1> SUFFICES ASSUME TypeInv, CleanInv, TodoInv, MoveInv, [Next]_vars PROVE MoveInv'
  OBVIOUS
<1>1. CASE Engine
  BY <1>1, MoveEngine
<1>2. CASE Die("idle") \/ Die("off") \/ Boot
  <2>1. UNCHANGED <<request, start, disturbed, syncFailed>> /\ pc' \in {"idle", "off"}
    BY <1>2 DEF Die, Boot, observed
  <2>2. ~syncFailed => disk' = disk
    <3>1. ~syncFailed => unsynced = {} /\ disk = [d \in Places |-> disk[d]]
      BY DEF CleanInv
    <3> QED BY <1>2, <3>1 DEF Boot, Die
  <2>3. Moving' = Moving /\ Moved' = Moved
    BY <2>1 DEF Moving, Moved
  <2>4. Moving => File(request.from)' = File(request.from)
                  /\ File(request.path)' = File(request.path)
    BY <2>1, <2>2 DEF Moving, File
  <2> QED BY <2>1, <2>3, <2>4 DEF MoveInv, Replacing, Backing, Writing, Working
<1>3. CASE Outside
  BY <1>3 DEF Outside, MoveInv, Moving
<1>4. CASE UNCHANGED vars
  BY <1>4 DEF vars, engine, observed, MoveInv, Moving, Moved, Replacing, Backing, File
<1> QED BY <1>1, <1>2, <1>3, <1>4 DEF Next

(* fs_move, by rename or by a copy and a deletion, loses no file: at every  *)
(* moment, whatever fails, it is at its old or at its new place.            *)
THEOREM MoveAlwaysKeepsFile == Spec => []MoveKeepsFile
<1>1. Init => TodoInv /\ MoveInv
  BY DEF Init, TodoInv, MoveInv, Moving
<1>2. MoveInv => MoveKeepsFile
  BY DEF MoveInv, MoveKeepsFile, Moving, Moved
<1> QED BY <1>1, <1>2, TodoNext, MoveNext, TypesHold, CleanHolds, PTL DEF Spec

-----------------------------------------------------------------------------
(* What is said of a request is what was done.                              *)
DryInv ==
  dry => /\ pc \notin Working
         /\ \A i \in DOMAIN todo : todo[i].op \in InPatch \cup {"replace"}

DoneAsAsked ==
  pc \in {"idle", "item"} /\ ~dry /\ request.path \in changed \ failed =>
    /\ request.op \in Rewrites => File(request.path) = text
    /\ request.op = "delete" => ~Exists(request.path)
ReportInv ==
  ~disturbed /\ ~died =>
    /\ pc # "off"
    /\ \A p \in Paths :
         File(p) # start[p] => ~dry /\ (p \in changed \/ request.op = "move")
    /\ pc = "item" => request.op # "move"
    /\ request.op \in Rewrites \cup {"delete"} => DoneAsAsked
    /\ Replacing /\ request.op \in Rewrites => job[2] = text

LEMMA DryFinish ==
  ASSUME TypeInv, DryInv, todo # <<>>, NEW ok, Finish(ok), dry' = dry
  PROVE  DryInv'
<1>1. /\ todo' = Tail(todo) /\ todo \in Seq(Request) /\ pc' \notin Working
  BY DEF Finish, AfterItem, TypeInv, Shape, Working, Writing
<1>2. ASSUME NEW i \in DOMAIN todo' PROVE i + 1 \in DOMAIN todo /\ todo'[i] = todo[i + 1]
  BY <1>1
<1> QED BY <1>1, <1>2 DEF DryInv

LEMMA DryNext == TypeInv /\ DryInv /\ [Next]_vars => DryInv'
<1> SUFFICES ASSUME TypeInv, DryInv, [Next]_vars PROVE DryInv'
  OBVIOUS
<1>1. CASE Begin
  BY <1>1, CallsAssumption DEF Begin, DryInv, Working, Writing
<1>2. ASSUME dry' = dry, todo' = todo \/ todo' = <<>>,
             ~dry \/ pc' \notin Working
      PROVE  DryInv'
  BY <1>2 DEF DryInv
<1>3. ASSUME Look PROVE todo # <<>> /\ dry' = dry
  BY <1>3 DEF Look, TypeInv, TypeOK
<1>4. CASE Prepare \/ PrepareOther \/ Refuse
  <2>1. Look
    BY <1>4 DEF Prepare, PrepareOther, Refuse
  <2>2. CASE \E ok \in BOOLEAN : Finish(ok)
    BY <1>3, <2>1, <2>2, DryFinish
  <2>3. CASE ~dry /\ \E where, next : GoOn(where, next)
    BY <1>2, <1>3, <2>1, <2>3 DEF GoOn
  <2> QED BY <1>4, <2>2, <2>3 DEF Prepare, PrepareOther, Refuse
<1>5. CASE MoveByRename
  BY <1>3, <1>5, DryFinish DEF MoveByRename
<1>6. CASE MoveByCopy
  <2>1. todo # <<>> /\ todo \in Seq(Request) /\ Item.op = "move" /\ dry' = dry
    BY <1>3, <1>6 DEF MoveByCopy, TypeInv, Shape
  <2>2. 1 \in DOMAIN todo /\ todo[1] = Item
    BY <2>1 DEF Item
  <2>3. ~dry
    BY <2>1, <2>2 DEF DryInv, InPatch
  <2> QED BY <1>2, <1>6, <2>1, <2>3 DEF MoveByCopy, GoOn
<1>7. ASSUME pc \in Working, dry' = dry, NEW ok, Resume(ok) PROVE DryInv'
  <2>1. ~dry /\ todo # <<>>
    BY <1>7 DEF DryInv, TypeInv, TypeOK, Working, Writing
  <2> QED BY <1>7, <2>1 DEF DryInv
<1>8. CASE Save \/ SaveNothing \/ WriteFails \/ OpenTemp \/ FillTemp \/ SyncTemp
           \/ RenameTemp \/ Unlink
  <2>1. pc \in Working /\ dry' = dry
    BY <1>8 DEF Save, SaveNothing, unchangedInSave, OpenTemp, FillTemp, SyncTemp,
      unchangedInWrite, RenameTemp, WriteFails, Unlink, observed, Working, Writing
  <2> QED BY <2>1 DEF DryInv
<1>9. CASE Die("idle") \/ Die("off") \/ Boot
  <2>1. dry' = dry /\ pc' \in {"idle", "off"} /\ (todo' = <<>> \/ todo' = todo)
    BY <1>9 DEF Die, Boot
  <2> QED BY <1>2, <2>1 DEF Working, Writing
<1>10. CASE Outside \/ UNCHANGED vars
  BY <1>10 DEF Outside, vars, engine, DryInv
<1> QED BY <1>1, <1>4, <1>5, <1>6, <1>8, <1>9, <1>10 DEF Next, Engine

(* The end of a request, whatever it has done to its own file.              *)
LEMMA ReportFinish ==
  ASSUME TypeInv, TodoInv, ReportInv, NEW ok \in BOOLEAN, Finish(ok), todo # <<>>,
         request' = Item, ~disturbed, ~died, UNCHANGED <<start, dry>>,
         \A p \in Paths : \/ File(p)' = File(p) /\ (pc = "item" \/ request = Item)
                          \/ ~dry /\ (Item.op = "move" \/ (ok /\ p = Item.path)),
         ok /\ ~dry => /\ Item.op \in Rewrites => disk'[<<Item.path, 0>>] = text'
                       /\ Item.op = "delete" => disk'[<<Item.path, 0>>] = Absent
  PROVE  ReportInv'
<1>1. /\ changed' = changed \cup {p \in {Item.path} : ok}
      /\ failed' = failed \cup {p \in {Item.path} : ~ok}
      /\ pc' \in {"idle", "item"} /\ (pc' = "item" => Tail(todo) # <<>>)
  BY DEF Finish, AfterItem, Succeeds
<1>2. /\ \A p \in Paths :
           File(p) # start[p] => ~dry /\ (p \in changed \/ request.op = "move")
      /\ pc = "item" => request.op # "move"
  BY DEF ReportInv
<1>3. ASSUME NEW p \in Paths, File(p)' # start'[p]
      PROVE  ~dry' /\ (p \in changed' \/ request'.op = "move")
  BY <1>1, <1>2, <1>3
<1>4. pc' = "item" => request'.op # "move"
  <2>1. todo \in Seq(Request)
    BY DEF TypeInv, Shape
  <2>2. 1 \in DOMAIN todo /\ todo[1] = Item
    BY <2>1 DEF Item
  <2>3. Len(todo) = 1 => Tail(todo) = <<>>
    <3>1. Len(todo) = 1 => Tail(todo) \in Seq(Request) /\ Len(Tail(todo)) = 0
      BY <2>1
    <3> QED BY <3>1, NotEmptyIs
  <2> QED BY <1>1, <2>2, <2>3 DEF TodoInv, InPatch
<1>5. DoneAsAsked'
  <2>1. ok \/ request'.path \notin changed' \ failed'
    BY <1>1
  <2> QED BY <2>1 DEF DoneAsAsked, File, Exists
<1> QED BY <1>1, <1>3, <1>4, <1>5 DEF ReportInv, Replacing, Writing

LEMMA ReportEngine ==
  ASSUME TypeInv, TodoInv, DryInv, ReportInv, Engine PROVE ReportInv'
<1>1. SUFFICES ASSUME ~disturbed', ~died' PROVE ReportInv'
  BY DEF ReportInv
<1>2. CASE Begin
  BY <1>1, <1>2 DEF Begin, ReportInv, DoneAsAsked, Files, File, Replacing, Writing,
    Rewrites
<1>3. SUFFICES ASSUME ~Begin PROVE ReportInv'
  BY <1>2
<1>4. UNCHANGED <<disturbed, died, start, dry>>
  <2>1. CASE Prepare \/ PrepareOther \/ Refuse \/ MoveByRename \/ MoveByCopy
    <3>1. Look
      BY <2>1 DEF Prepare, PrepareOther, Refuse, MoveByRename, MoveByCopy
    <3> QED BY <3>1 DEF Look
  <2>2. CASE Save \/ SaveNothing
    BY <2>2 DEF Save, SaveNothing, unchangedInSave
  <2>3. CASE OpenTemp \/ FillTemp \/ SyncTemp
    BY <2>3 DEF OpenTemp, FillTemp, SyncTemp, unchangedInWrite
  <2>4. CASE RenameTemp \/ WriteFails
    BY <2>4 DEF RenameTemp, WriteFails
  <2>5. CASE Unlink
    BY <2>5 DEF Unlink, observed
  <2> QED BY <1>3, <2>1, <2>2, <2>3, <2>4, <2>5 DEF Engine
<1>24. ~disturbed /\ ~died
  BY <1>1, <1>4
<1>5. /\ \A p \in Paths :
           File(p) # start[p] => ~dry /\ (p \in changed \/ request.op = "move")
      /\ pc = "item" => request.op # "move"
      /\ Replacing /\ request.op \in Rewrites => job[2] = text
  BY <1>24 DEF ReportInv
<1>6. ASSUME disk' = disk PROVE \A p \in Paths : File(p)' = File(p)
  BY <1>6 DEF File
<1>7. ASSUME Look
      PROVE  /\ pc = "item" /\ todo # <<>> /\ request' = Item
             /\ 1 \in DOMAIN todo /\ todo[1] = Item
  <2>1. todo # <<>> /\ todo \in Seq(Request)
    BY <1>7 DEF Look, TypeInv, TypeOK, Shape
  <2> QED BY <1>7, <2>1 DEF Look, Item
(* A request that goes on has not yet done anything to its file, unless it  *)
(* is a move.                                                               *)
<1>8. ASSUME NEW where \in Working, NEW next, GoOn(where, next), ~dry,
             pc = "item" \/ request = Item, request' = Item,
             \A p \in Paths : File(p)' = File(p) \/ Item.op = "move",
             where \in Writing /\ next[1][2] = 0 /\ Item.op \in Rewrites =>
               next[2] = text'
      PROVE  ReportInv'
  <2>1. pc' = where /\ job' = next /\ changed' = changed
    BY <1>8 DEF GoOn
  <2>2. pc' \notin {"off", "idle", "item"}
    BY <1>8, <2>1 DEF Working, Writing
  <2>3. \A p \in Paths : File(p)' # start'[p] => p \in changed' \/ request'.op = "move"
    BY <1>4, <1>24, <1>5, <1>8, <2>1
  <2>4. Replacing' /\ request'.op \in Rewrites => job'[2] = text'
    BY <1>8, <2>1 DEF Replacing
  <2> QED BY <1>4, <1>24, <1>8, <2>2, <2>3, <2>4 DEF ReportInv, DoneAsAsked
<1>9. CASE Prepare
  <2>1. Look /\ disk' = disk
    BY <1>9 DEF Prepare
  <2>2. CASE dry /\ Finish(TRUE)
    BY <1>4, <1>24, <1>6, <1>7, <2>1, <2>2, ReportFinish
  <2>3. CASE ~dry /\ Item.op \in Rewrites /\ GoOn("save", NoJob)
    BY <1>6, <1>7, <1>8, <2>1, <2>3 DEF Working, Writing
  <2>4. CASE ~dry /\ Item.op \notin Rewrites /\ GoOn("open", <<<<Item.path, 0>>, text'>>)
    BY <1>6, <1>7, <1>8, <2>1, <2>4 DEF Working, Writing
  <2> QED BY <1>9, <2>2, <2>3, <2>4 DEF Prepare
<1>10. CASE PrepareOther
  <2>1. Look /\ disk' = disk
    BY <1>10 DEF PrepareOther
  <2>2. CASE dry /\ Finish(TRUE)
    BY <1>4, <1>24, <1>6, <1>7, <2>1, <2>2, ReportFinish
  <2>3. CASE ~dry /\ GoOn("save", NoJob)
    BY <1>6, <1>7, <1>8, <2>1, <2>3 DEF Working, Writing
  <2> QED BY <1>10, <2>2, <2>3 DEF PrepareOther
<1>11. CASE Refuse
  <2>1. Look /\ disk' = disk /\ Finish(FALSE)
    BY <1>11 DEF Refuse
  <2> QED BY <1>4, <1>24, <1>6, <1>7, <2>1, ReportFinish
<1>12. ASSUME Look, Item.op = "move" PROVE ~dry
  BY <1>7, <1>12 DEF DryInv, InPatch
<1>13. CASE MoveByRename
  <2>1. Look /\ Item.op = "move" /\ Finish(TRUE)
    BY <1>13 DEF MoveByRename
  <2>2. ~dry
    BY <1>12, <2>1
  <2> QED BY <1>4, <1>24, <1>7, <2>1, <2>2, ReportFinish DEF Rewrites
<1>14. CASE MoveByCopy
  <2>1. /\ Look /\ Item.op = "move" /\ disk' = disk
        /\ GoOn("open", <<<<Item.path, 0>>, text'>>)
    BY <1>14 DEF MoveByCopy
  <2>2. ~dry
    BY <1>12, <2>1
  <2> QED BY <1>6, <1>7, <1>8, <2>1, <2>2 DEF Working, Writing
<1>15. SUFFICES ASSUME Save \/ SaveNothing \/ OpenTemp \/ FillTemp \/ SyncTemp
                         \/ RenameTemp \/ WriteFails \/ Unlink
                PROVE  ReportInv'
  BY <1>3, <1>9, <1>10, <1>11, <1>13, <1>14 DEF Engine
<1>16. /\ UNCHANGED <<request, text>> /\ pc \in Working /\ ~dry /\ todo # <<>>
       /\ request = Item
  BY <1>15 DEF Save, SaveNothing, unchangedInSave, OpenTemp, FillTemp, SyncTemp,
    unchangedInWrite, RenameTemp, WriteFails, Unlink, observed, TypeInv, TypeOK,
    Shape, DryInv, Working, Writing
<1>17. CASE Save
  <2>1. /\ disk' = disk /\ now' \in now .. MaxTime
        /\ GoOn("open", <<BackupPlace(Doomed), Kept(Doomed)>>)
    BY <1>17 DEF Save, unchangedInSave
  <2>2. now' # 0 /\ BackupPlace(Doomed)[2] = now'
    BY <2>1, BoundsAssumption DEF TypeInv, TypeOK, BackupPlace
  <2> QED BY <1>6, <1>8, <1>16, <2>1, <2>2 DEF Working, Writing
<1>18. ASSUME NEW ok \in BOOLEAN, Resume(ok),
              \A p \in Paths : \/ File(p)' = File(p) \/ Item.op = "move"
                               \/ ok /\ ~Saving /\ p = Item.path,
              ok /\ ~Saving /\ Item.op \in Rewrites => disk'[<<Item.path, 0>>] = text,
              pc # "unlink"
       PROVE  ReportInv'
  <2>1. CASE \/ Saving /\ Item.op \in Rewrites /\ GoOn("open", <<<<Item.path, 0>>, text>>)
             \/ Saving /\ Item.op \in {"delete", "move"} /\ GoOn("unlink", NoJob)
             \/ ~Saving /\ Copied(ok) /\ GoOn("save", NoJob)
    BY <1>8, <1>16, <1>18, <2>1 DEF Copied, Working, Writing
  <2>2. CASE Finish(ok) /\ IF Saving THEN Item.op = "backup" ELSE ~Copied(ok)
    <3>1. Item.op # "delete"
      <4>1. CASE Saving
        BY <2>2, <4>1
      <4>2. CASE ~Saving
        BY <1>16, <1>18, <4>2 DEF Saving, TypeInv, TypeOK, Shape, JobShape, Working, Writing
      <4> QED BY <4>1, <4>2
    <3>2. ok /\ Item.op \in Rewrites => disk'[<<Item.path, 0>>] = text'
      BY <1>16, <1>18, <2>2 DEF Rewrites
    <3>3. \A p \in Paths : \/ File(p)' = File(p) \/ Item.op = "move"
                           \/ ok /\ p = Item.path
      <4>1. ASSUME NEW p \in Paths
            PROVE  \/ File(p)' = File(p) \/ Item.op = "move"
                   \/ ok /\ p = Item.path
        BY <1>18
      <4> QED BY <4>1
    <3> QED BY <1>4, <1>24, <1>16, <2>2, <3>1, <3>2, <3>3, ReportFinish
  <2> QED BY <1>18, <2>1, <2>2 DEF Resume
<1>19. CASE SaveNothing
  <2>1. disk' = disk /\ pc = "save" /\ Resume(FALSE)
    BY <1>19 DEF SaveNothing, unchangedInSave
  <2> QED BY <1>6, <1>18, <2>1
<1>20. CASE WriteFails
  <2>1. disk' = disk /\ pc # "unlink" /\ Resume(FALSE)
    BY <1>20 DEF WriteFails
  <2> QED BY <1>6, <1>18, <2>1
<1>21. CASE OpenTemp \/ FillTemp \/ SyncTemp
  <2>1. disk' = disk /\ job' = job /\ pc \in Writing /\ pc' \in Writing /\ changed' = changed
    BY <1>21 DEF OpenTemp, FillTemp, SyncTemp, Opened, AfterFill,
      unchangedInWrite, Writing
  <2> QED BY <1>4, <1>24, <1>5, <1>6, <1>16, <2>1
      DEF ReportInv, DoneAsAsked, Replacing, Writing
<1>22. CASE RenameTemp
  <2>1. /\ pc = "rename" /\ Resume(TRUE)
        /\ disk' = [disk EXCEPT ![job[1]] = job[2]]
        /\ job \in Places \X Seq(Lines) /\ disk \in [Places -> AllTexts]
    BY <1>22 DEF RenameTemp, TypeInv, TypeOK
  <2>2. JobShape /\ job # NoJob
    BY <2>1 DEF TypeInv, TypeOK, Shape, Writing
  <2>3. PICK p \in Paths, t \in Times : job[1] = <<p, t>>
    BY <2>1 DEF Places
  <2>4. Saving <=> t # 0
    BY <2>1, <2>2, <2>3 DEF Saving
  <2>5. \A q \in Paths : <<q, 0>> \in Places
    BY BoundsAssumption DEF Places, Times
  <2>6. \A q \in Paths :
          disk'[<<q, 0>>] = IF job[1] = <<q, 0>> THEN job[2] ELSE disk[<<q, 0>>]
    BY <2>1, <2>5
  <2>7. CASE t # 0
    <3>1. \A q \in Paths : disk'[<<q, 0>>] = disk[<<q, 0>>]
      <4>1. \A q : <<p, t>> # <<q, 0>>
        BY <2>7
      <4> QED BY <2>3, <2>6, <4>1
    <3>2. \A q \in Paths : File(q)' = File(q)
      BY <3>1 DEF File
    <3> QED BY <1>18, <2>1, <2>4, <2>7, <3>2
  <2>8. CASE t = 0
    <3>1. p = Item.path
      BY <2>2, <2>3, <2>8 DEF JobShape
    <3>2. \A q \in Paths : File(q)' = File(q) \/ q = Item.path
      <4>1. \A q \in Paths : disk'[<<q, 0>>] = disk[<<q, 0>>] \/ q = Item.path
        <5>1. \A q : <<p, t>> = <<q, 0>> => q = Item.path
          BY <3>1
        <5> QED BY <2>3, <2>6, <5>1
      <4> QED BY <4>1 DEF File
    <3>3. Item.op \in Rewrites => job[2] = text
      BY <1>5, <1>16, <2>1, <2>3, <2>8 DEF Replacing, Writing
    <3>4. disk'[<<p, 0>>] = job[2]
      BY <2>3, <2>6, <2>8
    <3> QED BY <1>18, <2>1, <2>4, <2>8, <3>1, <3>2, <3>3, <3>4 DEF File
  <2> QED BY <2>7, <2>8
<1>23. CASE Unlink
  <2>1. /\ pc = "unlink" /\ Item.op \in {"delete", "move"} /\ disk \in [Places -> AllTexts]
    BY <1>23 DEF Unlink, TypeInv, TypeOK, Shape
  <2>2. CASE Finish(FALSE) /\ disk' = disk
    BY <1>4, <1>24, <1>6, <1>16, <2>2, ReportFinish
  <2>3. CASE Finish(TRUE) /\ disk' = [disk EXCEPT ![<<Doomed, 0>>] = Absent]
    <3>1. <<Doomed, 0>> \in Places /\ \A q \in Paths : <<q, 0>> \in Places
      BY <1>16, ItemTyped, BoundsAssumption DEF Places, Times
    <3>2. disk'[<<Doomed, 0>>] = Absent
      BY <2>1, <2>3, <3>1
    <3>3. Item.op = "delete" => Doomed = Item.path
      BY DEF Doomed
    <3>4. \A q \in Paths : disk'[<<q, 0>>] = disk[<<q, 0>>] \/ q = Doomed
      BY <2>1, <2>3, <3>1
    <3>5. \A q \in Paths :
            \/ File(q)' = File(q) \/ Item.op = "move" \/ q = Item.path
      BY <2>1, <3>3, <3>4 DEF File
    <3> QED BY <1>4, <1>24, <1>16, <2>1, <2>3, <3>2, <3>3, <3>5, ReportFinish DEF Rewrites
  <2> QED BY <1>23, <2>2, <2>3 DEF Unlink
<1> QED BY <1>15, <1>17, <1>19, <1>20, <1>21, <1>22, <1>23

LEMMA ReportNext ==
  TypeInv /\ TodoInv /\ DryInv /\ ReportInv /\ [Next]_vars => ReportInv'
<1> SUFFICES ASSUME TypeInv, TodoInv, DryInv, ReportInv, [Next]_vars PROVE ReportInv'
  OBVIOUS
<1>1. CASE Engine
  BY <1>1, ReportEngine
<1>2. CASE Die("idle") \/ Die("off") \/ Outside
  BY <1>2 DEF Die, Outside, ReportInv
<1>3. CASE Boot
  BY <1>3 DEF Boot, observed, ReportInv
<1>4. CASE UNCHANGED vars
  BY <1>4 DEF vars, engine, observed, ReportInv, DoneAsAsked, Replacing, Writing, File, Exists
<1> QED BY <1>1, <1>2, <1>3, <1>4 DEF Next

(* The report of a call agrees with the disk: fs_* tools and apply_patch    *)
(* name every file they changed, a dry run changes none, and what is said   *)
(* to have been done is what the file holds.                                *)
THEOREM ReportAlwaysAgrees == Spec => []ReportAgrees
<1>1. Init => DryInv /\ ReportInv
  BY DEF Init, DryInv, ReportInv, DoneAsAsked, Files, File, Replacing, Writing, Working,
    Rewrites
<1>2. ReportInv => ReportAgrees
  BY DEF ReportInv, ReportAgrees, DoneAsAsked
<1>3. Init => TodoInv
  BY DEF Init, TodoInv
<1> QED BY <1>1, <1>2, <1>3, TodoNext, DryNext, ReportNext, TypesHold, PTL DEF Spec

-----------------------------------------------------------------------------
(* The engine implements the store: what a request intends is fixed when    *)
(* its job or its deletion begins, and has its effect in the one step that  *)
(* renames or unlinks.                                                      *)
LEMMA FilesSame ==
  ASSUME \A p \in Paths : disk'[<<p, 0>>] = disk[<<p, 0>>] PROVE Files' = Files
BY DEF Files, File

LEMMA FilesChange ==
  ASSUME TypeInv, NEW p \in Paths, NEW x, disk' = [disk EXCEPT ![<<p, 0>>] = x]
  PROVE  Files' = [Files EXCEPT ![p] = x]
<1>1. \A q \in Paths : <<q, 0>> \in Places
  BY BoundsAssumption DEF Places, Times
<1>2. disk \in [Places -> AllTexts]
  BY DEF TypeInv, TypeOK
<1>3. \A q \in Paths : disk'[<<q, 0>>] = IF q = p THEN x ELSE disk[<<q, 0>>]
  BY <1>1, <1>2
<1> QED BY <1>3 DEF Files, File

LEMMA NoIntent == job = NoJob /\ pc # "unlink" => Intent = <<>>
BY DEF Intent

LEMMA JobIntent ==
  TypeInv /\ pc \in Writing =>
    Intent = IF job[1][2] = 0 THEN <<job[1][1], job[2]>> ELSE <<>>
BY DEF Intent, TypeInv, TypeOK, Writing

LEMMA UnlinkIntent == TypeInv /\ pc = "unlink" => Intent = <<Doomed, Absent>>
BY DEF Intent, TypeInv, TypeOK

(* The step after a backup, or after one that failed, is what intends.      *)
LEMMA ResumeIntends ==
  ASSUME TypeInv, TypeInv', Saving, Intent = <<>>, pc \in Writing \cup {"save"},
         NEW ok, Resume(ok), UNCHANGED <<Files, meddled>>
  PROVE  [Store!Next]_<<Files, Intent, meddled>>
<1>1. CASE pc' = "open" /\ job' = <<<<Item.path, 0>>, text>>
  <2>1. job' \in Places \X Seq(Lines)
    BY <1>1 DEF TypeInv, TypeOK
  <2>2. Intent' = <<job'[1][1], job'[2]>> /\ job'[1][1] \in Paths
    BY <1>1, <2>1 DEF Intent, NoJob, Places
  <2>3. Intent' \in Paths \X Store!Texts
    BY <2>1, <2>2 DEF Store!Texts
  <2> QED BY <2>3 DEF Store!Next, Store!Intend, Store!Nothing
<1>2. CASE pc' = "unlink" /\ job' = NoJob /\ todo' = todo
  <2>1. Intent' = <<Doomed', Absent>> /\ Doomed' \in Paths
    BY <1>2, ItemTyped DEF Intent, TypeInv, TypeOK, Doomed, Item
  <2>2. Intent' \in Paths \X Store!Texts
    BY <2>1 DEF Store!Texts
  <2> QED BY <2>2 DEF Store!Next, Store!Intend, Store!Nothing
<1>3. CASE pc' \in {"idle", "item"} /\ job' = NoJob
  BY <1>3 DEF Intent
<1> QED BY <1>1, <1>2, <1>3, ResumeJob

LEMMA StoreEngine ==
  ASSUME TypeInv, TypeInv', Engine PROVE [Store!Next]_<<Files, Intent, meddled>>
<1>0. meddled' = meddled
  BY DEF Engine, Begin, Prepare, PrepareOther, Refuse, MoveByRename, MoveByCopy,
    Look, Save, SaveNothing, unchangedInSave, OpenTemp, FillTemp, SyncTemp,
    unchangedInWrite, RenameTemp, WriteFails, Unlink, observed
<1>1. CASE Begin
  <2>1. pc = "idle" /\ pc' = "item" /\ job' = job /\ disk' = disk
    BY <1>1 DEF Begin
  <2>2. job = NoJob
    BY <2>1 DEF TypeInv, TypeOK
  <2> QED BY <1>0, <2>1, <2>2, NoIntent DEF Intent, Files, File
<1>2. ASSUME Look PROVE todo # <<>> /\ job = NoJob /\ Intent = <<>>
  BY <1>2, NoIntent DEF Look, TypeInv, TypeOK
<1>3. ASSUME Look, disk' = disk, job' = NoJob, pc' \in {"idle", "item", "save"}
      PROVE  UNCHANGED <<Files, Intent, meddled>>
  BY <1>0, <1>2, <1>3 DEF Intent, Files, File
<1>4. ASSUME Look, disk' = disk, pc' = "open", NEW x \in Seq(Lines),
             job' = <<<<Item.path, 0>>, x>>
      PROVE  Store!Next
  <2>1. Files' = Files
    BY <1>4 DEF Files, File
  <2>2. job' \in Places \X Seq(Lines)
    BY <1>4 DEF TypeInv, TypeOK
  <2>3. Intent' = <<Item.path, x>> /\ Item.path \in Paths
    BY <1>2, <1>4, ItemTyped DEF Intent, NoJob
  <2>4. Intent' \in Paths \X Store!Texts
    BY <2>3 DEF Store!Texts
  <2> QED BY <1>0, <1>2, <1>4, <2>1, <2>4 DEF Store!Next, Store!Intend, Store!Nothing
<1>5. CASE Prepare
  <2>1. Look /\ disk' = disk /\ job = NoJob
    BY <1>2, <1>5 DEF Prepare
  <2>2. \/ job' = NoJob /\ pc' \in {"idle", "item", "save"}
        \/ pc' = "open" /\ job' = <<<<Item.path, 0>>, text'>>
    BY <1>5, <2>1 DEF Prepare, Finish, AfterItem, GoOn
  <2>3. pc' = "open" /\ job' = <<<<Item.path, 0>>, text'>> => text' \in Seq(Lines)
    <3>1. pc' = "open" => job' \in Places \X Seq(Lines)
      BY DEF TypeInv, TypeOK
    <3> QED BY <3>1
  <2> QED BY <1>3, <1>4, <2>1, <2>2, <2>3
<1>6. CASE PrepareOther \/ Refuse
  <2>1. Look /\ disk' = disk /\ job = NoJob
    BY <1>2, <1>6 DEF PrepareOther, Refuse
  <2>2. job' = NoJob /\ pc' \in {"idle", "item", "save"}
    BY <1>6, <2>1 DEF PrepareOther, Refuse, Finish, AfterItem, GoOn
  <2> QED BY <1>3, <2>1, <2>2
<1>7. CASE MoveByRename
  <2>1. /\ Look /\ job' = job /\ pc' \in {"idle", "item"}
        /\ disk' = [disk EXCEPT ![<<Item.from, 0>>] = Absent,
                                ![<<Item.path, 0>>] = File(Item.from)]
    BY <1>7 DEF MoveByRename, Finish, AfterItem
  <2>2. Intent = <<>> /\ Intent' = <<>> /\ Item.from \in Paths /\ Item.path \in Paths
    BY <1>2, <2>1, ItemTyped DEF Intent
  <2>3. \A q \in Paths : <<q, 0>> \in Places
    BY BoundsAssumption DEF Places, Times
  <2>4. \A q \in Paths :
          disk'[<<q, 0>>] = IF q = Item.path THEN File(Item.from)
                            ELSE IF q = Item.from THEN Absent ELSE disk[<<q, 0>>]
    BY <2>1, <2>2, <2>3 DEF TypeInv, TypeOK
  <2>5. Files' = [Files EXCEPT ![Item.from] = Absent, ![Item.path] = Files[Item.from]]
    BY <2>2, <2>4 DEF Files, File
  <2>6. Store!Rename(Item.from, Item.path)
    BY <1>0, <2>2, <2>5 DEF Store!Rename, Store!Nothing
  <2> QED BY <2>2, <2>6 DEF Store!Next
<1>8. CASE MoveByCopy
  <2>1. /\ Look /\ disk' = disk /\ pc' = "open"
        /\ job' = <<<<Item.path, 0>>, File(Item.from)>> /\ Exists(Item.from)
    BY <1>8 DEF MoveByCopy, GoOn
  <2>2. File(Item.from) \in Seq(Lines)
    BY <1>2, <2>1, ItemTyped DEF AllTexts, Exists
  <2> QED BY <1>4, <2>1, <2>2
<1>9. CASE Save
  <2>1. /\ pc = "save" /\ disk' = disk /\ now' \in now .. MaxTime
        /\ pc' = "open" /\ job' = <<<<Doomed, now'>>, File(Doomed)>>
    BY <1>9 DEF Save, GoOn, BackupPlace, Kept, unchangedInSave
  <2>2. now' # 0 /\ job'[1][2] = now'
    BY <2>1, BoundsAssumption DEF TypeInv, TypeOK
  <2>3. Intent = <<>>
    BY <2>1, NoIntent DEF TypeInv, TypeOK
  <2>4. Intent' = <<>>
    BY <2>1, <2>2 DEF Intent
  <2> QED BY <1>0, <2>1, <2>3, <2>4 DEF Files, File
<1>10. CASE SaveNothing
  <2>1. pc = "save" /\ Resume(FALSE) /\ disk' = disk
    BY <1>10 DEF SaveNothing, unchangedInSave
  <2>2. Saving /\ Intent = <<>> /\ Files' = Files
    BY <2>1, NoIntent DEF Saving, TypeInv, TypeOK, Files, File
  <2> QED BY <1>0, <2>1, <2>2, ResumeIntends
<1>11. ASSUME pc \in Writing
       PROVE  /\ job \in Places \X Seq(Lines) /\ JobShape
              /\ (Saving <=> job[1][2] # 0)
              /\ Intent = IF job[1][2] = 0 THEN <<job[1][1], job[2]>> ELSE <<>>
  BY <1>11, JobIntent DEF Saving, TypeInv, TypeOK, Shape, Writing
<1>12. CASE WriteFails
  <2>1. pc \in Writing /\ Resume(FALSE) /\ disk' = disk /\ Files' = Files
    BY <1>12 DEF WriteFails, Writing, Files, File
  <2>2. CASE Saving
    BY <1>0, <1>11, <2>1, <2>2, ResumeIntends
  <2>3. CASE ~Saving
    <3>1. pc' \in {"idle", "item"} /\ job' = NoJob
      BY <2>1, <2>3, ResumeJob
    <3>2. Intent # <<>> /\ Intent' = <<>>
      BY <1>11, <2>1, <2>3, <3>1 DEF Intent
    <3> QED BY <1>0, <2>1, <3>2 DEF Store!Next, Store!Drop, Store!Nothing
  <2> QED BY <2>2, <2>3
<1>13. CASE OpenTemp \/ FillTemp \/ SyncTemp
  <2>1. disk' = disk /\ job' = job /\ pc \in Writing /\ pc' \in Writing
    BY <1>13 DEF OpenTemp, FillTemp, SyncTemp, Opened, AfterFill,
      unchangedInWrite, Writing
  <2>2. Intent' = Intent
    BY <2>1 DEF Intent, Writing
  <2> QED BY <1>0, <2>1, <2>2 DEF Files, File
<1>14. CASE RenameTemp
  <2>1. pc \in Writing /\ Resume(TRUE) /\ disk' = [disk EXCEPT ![job[1]] = job[2]]
    BY <1>14 DEF RenameTemp, Writing
  <2>2. PICK p \in Paths, t \in Times : job[1] = <<p, t>>
    BY <1>11, <2>1 DEF Places
  <2>3. CASE Saving
    <3>1. t # 0
      BY <1>11, <2>1, <2>2, <2>3
    <3>2. \A q \in Paths : <<q, 0>> # job[1] /\ <<q, 0>> \in Places
      BY <2>2, <3>1, BoundsAssumption DEF Places, Times
    <3>3. \A q \in Paths : disk'[<<q, 0>>] = disk[<<q, 0>>]
      BY <2>1, <3>2 DEF TypeInv, TypeOK
    <3>4. Files' = Files
      BY <3>3, FilesSame
    <3>5. Intent = <<>>
      BY <1>11, <2>1, <2>3
    <3> QED BY <1>0, <2>1, <2>3, <3>4, <3>5, ResumeIntends
  <2>4. CASE ~Saving
    <3>1. t = 0 /\ Intent = <<p, job[2]>>
      BY <1>11, <2>1, <2>2, <2>4
    <3>2. Files' = [Files EXCEPT ![p] = job[2]]
      BY <2>1, <2>2, <3>1, FilesChange
    <3>3. job' = NoJob /\ pc' \in {"save", "idle", "item"}
      BY <2>1, <2>4, ResumeJob
    <3>4. Intent' = <<>> /\ Intent # <<>> /\ Intent[1] = p /\ Intent[2] = job[2]
      BY <3>1, <3>3 DEF Intent
    <3> QED BY <1>0, <3>2, <3>4 DEF Store!Next, Store!Effect, Store!Nothing
  <2> QED BY <2>3, <2>4
<1>15. CASE Unlink
  <2>1. /\ pc = "unlink" /\ pc' \in {"idle", "item"} /\ job' = job
        /\ \/ disk' = disk
           \/ disk' = [disk EXCEPT ![<<Doomed, 0>>] = Absent]
    BY <1>15 DEF Unlink, Finish, AfterItem
  <2>2. job = NoJob /\ Intent = <<Doomed, Absent>> /\ Doomed \in Paths
    BY <2>1, UnlinkIntent, ItemTyped DEF TypeInv, TypeOK
  <2>3. Intent' = <<>> /\ Intent # <<>> /\ Intent[1] = Doomed /\ Intent[2] = Absent
    BY <2>1, <2>2 DEF Intent
  <2>4. CASE disk' = disk
    <3>1. Files' = Files
      BY <2>4 DEF Files, File
    <3> QED BY <1>0, <2>3, <3>1 DEF Store!Next, Store!Drop, Store!Nothing
  <2>5. CASE disk' = [disk EXCEPT ![<<Doomed, 0>>] = Absent]
    <3>1. Files' = [Files EXCEPT ![Doomed] = Absent]
      BY <2>2, <2>5, FilesChange
    <3> QED BY <1>0, <2>3, <3>1 DEF Store!Next, Store!Effect, Store!Nothing
  <2> QED BY <2>1, <2>4, <2>5
<1> QED
  BY <1>1, <1>5, <1>6, <1>7, <1>8, <1>9, <1>10, <1>12, <1>13, <1>14, <1>15
  DEF Engine

LEMMA StoreNext ==
  TypeInv /\ TypeInv' /\ [Next]_vars => [Store!Next]_<<Files, Intent, meddled>>
<1> SUFFICES ASSUME TypeInv, TypeInv', [Next]_vars
             PROVE  [Store!Next]_<<Files, Intent, meddled>>
  OBVIOUS
<1>1. CASE Engine
  BY <1>1, StoreEngine
<1>2. CASE Die("idle") \/ Die("off")
  <2>1. Files' = Files /\ meddled' = meddled /\ job' = NoJob /\ pc' # "unlink"
    BY <1>2 DEF Die, Files, File
  <2>2. Intent' = <<>>
    BY <2>1 DEF Intent
  <2> QED BY <2>1, <2>2 DEF Store!Next, Store!Drop, Store!Nothing
<1>3. CASE Boot
  <2>1. PICK lost \in SUBSET unsynced :
          disk' = [d \in Places |-> IF d \in lost THEN Torn ELSE disk[d]]
    BY <1>3 DEF Boot
  <2>2. pc = "off" /\ pc' = "idle" /\ job' = job /\ meddled' = meddled
    BY <1>3 DEF Boot, observed
  <2>3. Intent = <<>> /\ Intent' = <<>>
    BY <2>2 DEF Intent, TypeInv, TypeOK
  <2> DEFINE paths == {p \in Paths : <<p, 0>> \in lost}
  <2>4. \A p \in Paths : <<p, 0>> \in Places
    BY BoundsAssumption DEF Places, Times
  <2>5. \A p \in Paths : disk'[<<p, 0>>] = IF p \in paths THEN Torn ELSE disk[<<p, 0>>]
    BY <2>1, <2>4
  <2>6. Files' = [p \in Paths |-> IF p \in paths THEN Torn ELSE Files[p]]
    BY <2>5 DEF Files, File
  <2>7. paths \in SUBSET Paths
    OBVIOUS
  <2>8. Store!Damage
    BY <2>2, <2>3, <2>6, <2>7 DEF Store!Damage, Store!Nothing
  <2> QED BY <2>8 DEF Store!Next
<1>4. CASE Outside
  <2>1. PICK p \in Paths, t \in Foreign : disk' = [disk EXCEPT ![<<p, 0>>] = t]
    BY <1>4 DEF Outside
  <2>2. Files' = [Files EXCEPT ![p] = t]
    BY <2>1, FilesChange
  <2>3. Files'[p] = t
    BY <2>2 DEF Files
  <2>4. meddled' = meddled + 1
    BY <1>4 DEF Outside
  <2>5. Intent' = Intent
    BY <1>4 DEF Outside, engine, Intent, Doomed, Item
  <2>6. Store!Outside(p)
    BY <2>2, <2>3, <2>4, <2>5 DEF Store!Outside
  <2> QED BY <2>6 DEF Store!Next
<1>5. CASE UNCHANGED vars
  BY <1>5 DEF vars, engine, observed, Files, File, Intent, Doomed, Item
<1> QED BY <1>1, <1>2, <1>3, <1>4, <1>5 DEF Next

(* A file is replaced, removed or renamed in a single step by what its      *)
(* caller meant, or not at all: what atomic_write, fs_move and fs_delete    *)
(* take many system calls for.                                              *)
THEOREM EngineImplementsStore == Spec => StoreSpec
<1>1. Init => Store!Init
  <2> SUFFICES ASSUME Init PROVE Store!Init
    OBVIOUS
  <2>1. Files \in [Paths -> AllTexts]
    BY TypeInit, FilesTyped
  <2>2. Intent = <<>> /\ meddled = 0
    BY NoIntent DEF Init
  <2> QED BY <2>1, <2>2 DEF Store!Init, Store!Texts, Store!Nothing, AllTexts
<1> QED BY <1>1, StoreNext, TypesHold, PTL DEF Spec, StoreSpec, Store!Spec
=============================================================================
