----------------------------- MODULE TextEdits -----------------------------
(***************************************************************************)
(* What an edit or an item of a patch makes of a text (fs_edit and         *)
(* fs_apply_patch of src/src/fs_engine.cpp).  A text is a sequence of      *)
(* lines; that lines are compared trimmed, and the line number a hunk of a *)
(* unified diff is searched from, are left out: such a hunk may take any   *)
(* place where its old lines are found.                                    *)
(***************************************************************************)
EXTENDS Naturals, Sequences, FiniteSets

(* Where the lines old occur in a text, and the text with new in their      *)
(* place.                                                                   *)
Positions(text, old) ==
  {i \in 0 .. Len(text) : /\ i + Len(old) <= Len(text)
                          /\ SubSeq(text, i + 1, i + Len(old)) = old}

Splice(text, i, old, new) ==
  SubSeq(text, 1, i) \o new \o SubSeq(text, i + Len(old) + 1, Len(text))

Cut(text, limit) == IF Len(text) > limit THEN SubSeq(text, 1, limit) ELSE text

(* The texts a request makes of one that was read; none when it is refused. *)
(* An exact replacement must find its text once.                            *)
ReplaceExact(text, old, new) ==
  {Splice(text, i, old, new) : i \in
     {i \in Positions(text, old) : Cardinality(Positions(text, old)) = 1}}

(* A block of a patch takes its first match, and is appended when it names  *)
(* no old lines.                                                            *)
ApplyBlock(text, old, new) ==
  IF old = <<>> THEN {text \o new}
  ELSE {Splice(text, i, old, new) : i \in
          {i \in Positions(text, old) : \A j \in Positions(text, old) : i <= j}}

ApplyHunk(text, old, new) == {Splice(text, i, old, new) : i \in Positions(text, old)}
=============================================================================
