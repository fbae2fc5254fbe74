----------------------------- MODULE FileStore -----------------------------
(***************************************************************************)
(* What the file engine promises: a file is replaced, removed or renamed   *)
(* in a single step, by the text its caller meant, or not at all, whatever *)
(* fails on the way and whenever the process dies.  Backups, temporary     *)
(* files and the steps of a write are not visible here.                    *)
(***************************************************************************)
EXTENDS Naturals, Sequences

CONSTANTS Paths,   \* the files of the workspace
          Lines,   \* the lines texts are made of
          Absent,  \* in place of the text of a file that does not exist
          Torn     \* what is left of a text a disk has failed to store

VARIABLES content,  \* the text of each file
          intent,   \* the effect still to come, if any
          meddled   \* how often another program has changed a file

Nothing == <<>>
Texts   == Seq(Lines) \cup {Absent}

Init == content \in [Paths -> Texts] /\ intent = Nothing /\ meddled = 0

Intend ==
  /\ intent = Nothing
  /\ intent' \in Paths \X Texts
  /\ UNCHANGED <<content, meddled>>

Effect ==
  /\ intent # Nothing /\ intent' = Nothing
  /\ content' = [content EXCEPT ![intent[1]] = intent[2]]
  /\ UNCHANGED meddled

(* A request that fails, or dies with the process.                          *)
Drop ==
  /\ intent # Nothing /\ intent' = Nothing
  /\ UNCHANGED <<content, meddled>>

Rename(p, q) ==
  /\ intent = Nothing
  /\ content' = [content EXCEPT ![p] = Absent, ![q] = content[p]]
  /\ UNCHANGED <<intent, meddled>>

(* Other programs change files at any time; a disk may lose what it has not *)
(* stored when the power fails.                                             *)
Outside(p) ==
  /\ content' = [content EXCEPT ![p] = content'[p]]
  /\ meddled' = meddled + 1
  /\ UNCHANGED intent

Damage ==
  /\ intent = Nothing
  /\ \E lost \in SUBSET Paths :
       content' = [p \in Paths |-> IF p \in lost THEN Torn ELSE content[p]]
  /\ UNCHANGED <<intent, meddled>>

Next == \/ Intend \/ Effect \/ Drop \/ Damage
        \/ \E p \in Paths : Outside(p) \/ \E q \in Paths : Rename(p, q)

Spec == Init /\ [][Next]_<<content, intent, meddled>>
=============================================================================
