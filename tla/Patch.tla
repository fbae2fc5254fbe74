------------------------------- MODULE Patch -------------------------------
(***************************************************************************)
(* Diffs and patches (src/src/fs_engine.cpp): the unified diff of two      *)
(* texts, as fs_write and fs_edit report it, and what fs_apply_patch makes *)
(* of it, as a unified diff or as a block, on a file that may have moved   *)
(* on since.                                                               *)
(*                                                                         *)
(* A text is the sequence of what stands between its newlines: "" is       *)
(* <<Blank>>, "x" is <<x>> and "x\n" is <<x, Blank>>.  Lines that look like *)
(* the header of a diff name other files than this one.                    *)
(***************************************************************************)
EXTENDS Integers, Sequences, FiniteSets

CONSTANTS
  Lines, Blank,  \* the lines texts are made of, and the empty one
  Trim,          \* [Lines -> Lines]: a line without its outer white space
  Chop,          \* ... without the carriage return it ends in
  Bare,          \* ... without any carriage return
  Dashes,        \* the lines that begin with "-- "
  Pluses,        \* the lines that begin with "++ "
  Marks,         \* the lines that contain "*** Begin Patch" or the like
  Edits,         \* pairs of texts: before and after
  Drifts,        \* lines another program may put on top of the file
  MaxDropped,    \* how many of its first lines it may remove
  MaxLines,      \* kMaxDiffLines (20000)
  Context,       \* lines of context in a diff
  Reach          \* how far from its place a hunk is looked for (199)

Text == Seq(Lines) \ {<< >>}

ASSUME LinesAssumption ==
  /\ Blank \in Lines /\ {Trim, Chop, Bare} \subseteq [Lines -> Lines]
  /\ Trim[Blank] = Blank /\ Chop[Blank] = Blank /\ Bare[Blank] = Blank
  /\ \A l \in Lines : Chop[Bare[l]] = Bare[l]
  /\ Dashes \subseteq Lines /\ Pluses \subseteq Lines /\ Marks \subseteq Lines
ASSUME EditsAssumption ==
  \A e \in Edits : e.before \in Text /\ e.after \in Text /\ e.before # e.after
ASSUME DriftAssumption ==
  /\ Drifts \subseteq Seq(Lines) /\ MaxDropped \in Nat
  /\ MaxLines \in Nat /\ Context \in Nat \ {0} /\ Reach \in Nat

VARIABLES
  pc,         \* diff, wait, hunks, done or failed
  edit,       \* the change the patch is for
  format,     \* unified or block
  patch,      \* the hunks that were parsed for this file
  section,    \* is the patch understood, is its first section about this
              \* file, and are there others
  file,       \* the text on disk
  lines,      \* the lines being patched
  turn,       \* how many hunks have been applied
  (* observation *)
  above,      \* what was put on top of the file
  dropped,    \* how many of its first lines are gone
  unique      \* had each hunk one place in the lines it was applied to

parsed == <<patch, section>>
vars == <<pc, edit, format, parsed, file, lines, turn, above, dropped, unique>>

-----------------------------------------------------------------------------
(* The items of a sequence that stand at some of its places, in order; and  *)
(* the first and the last of some places.                                   *)
Only(s, places) ==
  LET upto[k \in 0 .. Len(s)] ==
        IF k = 0 THEN << >>
        ELSE IF k \in places THEN Append(upto[k - 1], s[k]) ELSE upto[k - 1]
  IN  upto[Len(s)]
Lowest(S)  == CHOOSE x \in S : \A y \in S : x <= y
Highest(S) == CHOOSE x \in S : \A y \in S : y <= x

(* Texts and lines.                                                         *)
EndsLine(t)    == t[Len(t)] = Blank
EndsNewline(t) == Len(t) > 1 /\ EndsLine(t)
WithoutLast(t) == SubSeq(t, 1, Len(t) - 1)

(* split_lines takes a carriage return off the end of each line; to_lines   *)
(* takes out all of them, and stops at a bound.                             *)
Through(f, t) == [i \in DOMAIN t |-> f[t[i]]]
Unix(t)       == Through(Chop, t)
SplitLines(t) == Unix(IF EndsNewline(t) THEN WithoutLast(t) ELSE t)
Capped(ls)    == SubSeq(ls, 1, IF Len(ls) > MaxLines THEN MaxLines ELSE Len(ls))
Unended(t)    == IF EndsLine(t) THEN WithoutLast(t) ELSE t
ToLines(t)    == Capped(Unended(Through(Bare, t)))
Join(ls)      == IF ls = << >> THEN <<Blank>> ELSE ls
NewlineAdded(t) == IF t = <<Blank>> THEN t ELSE Append(t, Blank)

(* diff_lines: the longest common subsequence, or, beyond its bounds, all   *)
(* of one text removed and all of the other added.                          *)
Op(kind, at, text) == [kind |-> kind, at |-> at, text |-> text]
Replaced(a, b) == [i \in DOMAIN a |-> Op("-", i, a[i])] \o [j \in DOMAIN b |-> Op("+", 0, b[j])]

Larger(x, y) == IF x >= y THEN x ELSE y
Common(a, b) ==
  LET table[p \in (1 .. Len(a) + 1) \X (1 .. Len(b) + 1)] ==
        IF p[1] > Len(a) \/ p[2] > Len(b) THEN 0
        ELSE IF a[p[1]] = b[p[2]] THEN table[<<p[1] + 1, p[2] + 1>>] + 1
        ELSE Larger(table[<<p[1] + 1, p[2]>>], table[<<p[1], p[2] + 1>>])
  IN  table
Removes(table, i, j) == table[<<i + 1, j>>] >= table[<<i, j + 1>>]

Walk(a, b, table, w) ==
  IF w.i <= Len(a) /\ w.j <= Len(b) /\ a[w.i] = b[w.j]
  THEN [i |-> w.i + 1, j |-> w.j + 1, ops |-> Append(w.ops, Op(" ", w.i, a[w.i]))]
  ELSE IF w.i <= Len(a) /\ (w.j > Len(b) \/ Removes(table, w.i, w.j))
  THEN [i |-> w.i + 1, j |-> w.j, ops |-> Append(w.ops, Op("-", w.i, a[w.i]))]
  ELSE IF w.j <= Len(b)
  THEN [i |-> w.i, j |-> w.j + 1, ops |-> Append(w.ops, Op("+", 0, b[w.j]))]
  ELSE w
DiffLines(a, b) ==
  LET table == Common(a, b)
      walk[k \in 0 .. Len(a) + Len(b)] ==
        IF k = 0 THEN [i |-> 1, j |-> 1, ops |-> << >>] ELSE Walk(a, b, table, walk[k - 1])
  IN  walk[Len(a) + Len(b)].ops

(* unified_diff: changes with at most twice the context between them make   *)
(* one hunk, whose place is its first line of the text before; the last     *)
(* hunk takes everything that follows.                                      *)
Changes(ops) == {k \in DOMAIN ops : ops[k].kind # " "}
Opens(ops)   == {k \in Changes(ops) :
                   \A c \in Changes(ops) : c < k => k - c - 1 > 2 * Context}
First(opens, h) == IF opens[h] > Context THEN opens[h] - Context ELSE 1
Final(ops, opens, h) ==
  IF h = Len(opens) THEN Len(ops)
  ELSE Highest({c \in Changes(ops) : c < opens[h + 1]}) + Context
Taken(ops) == {k \in DOMAIN ops : ops[k].kind # "+"}
Hunk(body) == [at  |-> IF Taken(body) = {} THEN 1 ELSE body[Lowest(Taken(body))].at,
               ops |-> body]
UnifiedDiff(ops) ==
  LET opens == Only([k \in DOMAIN ops |-> k], Opens(ops))
  IN  [h \in DOMAIN opens |-> Hunk(SubSeq(ops, First(opens, h), Final(ops, opens, h)))]

(* parse_unified_diff knows a header by its first characters, wherever it   *)
(* stands: what follows a removed line that begins with "-- " is a section  *)
(* for another file, and an added one that begins with "++ " makes its      *)
(* whole section one for another file.  fs_apply_patch does not take for a  *)
(* unified diff what contains a word of a block patch, and then finds no    *)
(* file in it.                                                              *)
HeaderLike(o) == o.kind = "-" /\ o.text \in Dashes
Retargets(o)  == o.kind = "+" /\ o.text \in Pluses
Heads(ops)    == {k \in DOMAIN ops : HeaderLike(ops[k])}
Upto(ops)     == IF Heads(ops) = {} THEN ops ELSE SubSeq(ops, 1, Lowest(Heads(ops)) - 1)
Cut(hunks)    == {h \in DOMAIN hunks : Heads(hunks[h].ops) # {}}
ParseUnified(hunks) ==
  [h \in 1 .. (IF Cut(hunks) = {} THEN Len(hunks) ELSE Lowest(Cut(hunks))) |->
     [at |-> hunks[h].at, ops |-> Upto(hunks[h].ops)]]

Shown(hunks) ==
  UNION {{hunks[h].ops[k] : k \in DOMAIN hunks[h].ops} : h \in DOMAIN hunks}
SectionOf(hunks) ==
  [known  |-> \A o \in Shown(hunks) : o.text \notin Marks,
   ours   |-> \A o \in Shown(ParseUnified(hunks)) : ~Retargets(o),
   others |-> Cut(hunks) # {}]
OneSection == [known |-> TRUE, ours |-> TRUE, others |-> FALSE]

(* parse_block_patch skips the headers of hunks: they become one block.     *)
ParseBlock(hunks) ==
  LET lines_of[h \in 0 .. Len(hunks)] ==
        IF h = 0 THEN << >> ELSE lines_of[h - 1] \o hunks[h].ops
  IN  <<[at |-> 1, ops |-> lines_of[Len(hunks)]]>>

Side(ops, kind) == Only([k \in DOMAIN ops |-> ops[k].text],
                        {k \in DOMAIN ops : ops[k].kind \in {" ", kind}})
Old(hunk) == Side(hunk.ops, "-")
New(hunk) == Side(hunk.ops, "+")

-----------------------------------------------------------------------------
(* Where old lines are found, trimmed, in others (from 0).                  *)
Found(ls, old) ==
  {i \in 0 .. Len(ls) - Len(old) : \A k \in DOMAIN old : Trim[ls[i + k]] = Trim[old[k]]}

Splice(ls, i, old, new) == SubSeq(ls, 1, i) \o new \o SubSeq(ls, i + Len(old) + 1, Len(ls))

(* apply_hunks looks at the place of the hunk, then ever further from it,   *)
(* upwards first.                                                           *)
Rank(i, place) == IF i >= place THEN 2 * (i - place) ELSE 2 * (place - i) - 1
Nearest(places, hunk) ==
  LET place == hunk.at - 1
  IN  {i \in places : /\ i - place <= Reach /\ place - i <= Reach
                      /\ \A k \in places : Rank(i, place) <= Rank(k, place)}

(* Mutant: the hunks are applied from the top.                              *)
Mutant_HunkFromTop(k) == patch[k]
HunkAt(k) == patch[Len(patch) + 1 - k]

(* What a patch that fails leaves.  Mutant: what it has done so far.        *)
Mutant_UnpatchedPartly == Join(lines)
Unpatched == file

Stored(ls) ==
  LET t == Join(ls)
  IN  IF EndsNewline(file) /\ ~EndsNewline(t) THEN NewlineAdded(t) ELSE t

-----------------------------------------------------------------------------
Init ==
  /\ pc = "diff"
  /\ edit \in Edits
  /\ format \in {"unified", "block"}
  /\ file = edit.before
  /\ patch = << >> /\ section = OneSection
  /\ lines = << >> /\ turn = 0
  /\ above = << >> /\ dropped = 0 /\ unique = TRUE

(* The diff is made, shown and given back as a patch.                       *)
Generate ==
  /\ pc = "diff"
  /\ LET a == ToLines(edit.before)
         b == ToLines(edit.after) IN
     \E ops \in {DiffLines(a, b), Replaced(a, b)} :
       IF format = "unified"
       THEN /\ patch' = ParseUnified(UnifiedDiff(ops))
            /\ section' = SectionOf(UnifiedDiff(ops))
       ELSE patch' = ParseBlock(UnifiedDiff(ops)) /\ section' = OneSection
  /\ pc' = "wait"
  /\ UNCHANGED <<edit, format, file, lines, turn, above, dropped, unique>>

(* Meanwhile another program changes the head of the file.                  *)
Drift ==
  /\ pc = "wait" /\ above = << >> /\ dropped = 0
  /\ \/ /\ above' \in Drifts /\ dropped' = 0
        /\ file' = above' \o file
     \/ /\ dropped' \in 1 .. MaxDropped /\ above' = << >>
        /\ dropped' < Len(file)
        /\ file' = SubSeq(file, dropped' + 1, Len(file))
  /\ UNCHANGED <<pc, edit, format, parsed, lines, turn, unique>>

Open ==
  /\ pc = "wait" /\ section.known /\ section.ours
  /\ lines' = SplitLines(file)
  /\ pc' = "hunks"
  /\ UNCHANGED <<edit, format, parsed, file, turn, above, dropped, unique>>

(* The patch is refused, or tried on other files only.                      *)
Elsewhere ==
  /\ pc = "wait" /\ ~(section.known /\ section.ours)
  /\ pc' \in {"failed"} \cup IF section.known THEN {"done"} ELSE {}
  /\ UNCHANGED <<edit, format, parsed, file, lines, turn, above, dropped, unique>>

Turn == turn + 1
ApplyHunk ==
  /\ pc = "hunks" /\ format = "unified" /\ turn < Len(patch)
  /\ \E h \in {HunkAt(Turn)} : \E places \in {Found(lines, Old(h))} :
       /\ \E i \in Nearest(places, h) : lines' = Splice(lines, i, Old(h), New(h))
       /\ unique' = (unique /\ Cardinality(places) = 1)
  /\ turn' = Turn
  /\ UNCHANGED <<pc, edit, format, parsed, file, above, dropped>>

HunkFails ==
  /\ pc = "hunks" /\ format = "unified" /\ turn < Len(patch)
  /\ Nearest(Found(lines, Old(HunkAt(Turn))), HunkAt(Turn)) = {}
  /\ file' = Unpatched
  /\ pc' = "failed"
  /\ UNCHANGED <<edit, format, parsed, lines, turn, above, dropped, unique>>

(* The file is written; a section for another file may fail afterwards.     *)
Store ==
  /\ pc = "hunks" /\ format = "unified" /\ turn = Len(patch)
  /\ file' = Stored(lines)
  /\ pc' \in {"done"} \cup IF section.others THEN {"failed"} ELSE {}
  /\ UNCHANGED <<edit, format, parsed, lines, turn, above, dropped, unique>>

(* apply_block_lines: the first place, the end when nothing is old, and     *)
(* nothing at all when nothing is new either.                               *)
ApplyBlock ==
  /\ pc = "hunks" /\ format = "block"
  /\ \E h \in {patch[1]} : \E places \in {Found(lines, Old(h))} :
       IF Old(h) # << >> /\ places = {}
       THEN pc' = "failed" /\ UNCHANGED <<lines, file, unique>>
       ELSE /\ lines' = IF Old(h) = << >> THEN lines \o New(h)
                        ELSE Splice(lines, Lowest(places), Old(h), New(h))
            /\ file' = IF h.ops = << >> THEN file ELSE NewlineAdded(Join(lines'))
            /\ unique' = (Old(h) # << >> /\ Cardinality(places) = 1)
            /\ pc' = "done"
  /\ turn' = Turn
  /\ UNCHANGED <<edit, format, parsed, above, dropped>>

Next == \/ Generate \/ Drift \/ Open \/ Elsewhere
        \/ ApplyHunk \/ HunkFails \/ Store \/ ApplyBlock
Spec == Init /\ [][Next]_vars

-----------------------------------------------------------------------------
(* PROPERTIES                                                               *)

(* What is left out of the promise: texts with carriage returns inside of   *)
(* lines, texts that are cut at the bound, and, in a unified diff, lines    *)
(* that look like a header or contain a word of a block patch.              *)
Straight(t)   == \A k \in DOMAIN t : Bare[t[k]] = Chop[t[k]]
Short(t)      == Len(Unended(Through(Bare, t))) <= MaxLines
Speaks(t, ls) == \E k \in DOMAIN t : Bare[t[k]] \in ls
Misread == format = "unified" /\ \/ Speaks(edit.before, Dashes \cup Marks)
                                 \/ Speaks(edit.after, Pluses \cup Marks)

(* A patch made of a diff does what the diff shows.  On the file it was     *)
(* made for a unified diff always does; on one whose head has changed, or   *)
(* as a block, it does if every hunk had one place only when its turn came. *)
(* (test_fs_engine.cpp:223-230.)  Lines that ended in a carriage return     *)
(* then do no longer.  Not so for the end of the text when the texts end    *)
(* differently or in a blank line.                                          *)
AfterDrift(t) == above \o SubSeq(t, dropped + 1, Len(t))
EndsPlainly == /\ EndsLine(Unix(edit.before)) <=> EndsLine(Unix(edit.after))
               /\ format = "block" => EndsLine(edit.before)
               /\ \E ls \in {Unix(AfterDrift(Unended(Unix(edit.after))))} :
                    ls # << >> => ~EndsLine(ls)
Places(ops) == {ops[k].at : k \in Taken(ops)}
OneHunk(ops) == \A i, j \in Places(ops) : i .. j \subseteq Places(ops)
Below(hunk) == \A k \in DOMAIN hunk.ops : hunk.ops[k].at \notin 1 .. dropped
Applies     == \A h \in DOMAIN patch : Below(patch[h]) /\ OneHunk(patch[h].ops)
Promised    == ~Misread /\ Straight(edit.before) /\ Straight(edit.after)
DoesWhatItShows ==
  pc = "done" /\ Promised /\ Short(edit.before) /\ Short(edit.after) /\ EndsPlainly
     /\ \/ unique /\ Applies
        \/ format = "unified" /\ above = << >> /\ dropped = 0
  => file = Unix(AfterDrift(edit.after))

(* A patch that fails and has no section for another file leaves this file  *)
(* as it found it, whichever of its hunks fails; and a unified diff never   *)
(* fails on the file it was made for, however long the texts are, unless    *)
(* its lines are misread or do not match without their carriage returns.    *)
AllOrNothing ==
  pc = "failed" =>
    /\ ~section.others => file = AfterDrift(edit.before)
    /\ (format = "unified" /\ ~Misread /\ Straight(edit.before)) =>
         above # << >> \/ dropped > 0
=============================================================================
