---------------------------- MODULE MCAgentLoop ----------------------------
(***************************************************************************)
(* Instances of AgentLoop for TLC: the replies a brain may give.           *)
(***************************************************************************)
EXTENDS AgentLoop

On(t)     == [tool |-> t, arg |-> CHOOSE p \in Paths : TRUE]
Say(cs)   == [text |-> FALSE, calls |-> cs]
Tell(cs)  == [text |-> TRUE, calls |-> cs]

(* Every tool of interest, alone and with finish in the same reply, and a   *)
(* reply without calls, with text.                                          *)
AllReplies ==
  {Say(<<On("fs_write")>>), Say(<<On("fs_patch")>>),
   Tell(<<On("run_command")>>), Say(<<On("finish")>>),
   Say(<<On("fs_write"), On("finish")>>), Tell(<< >>)}
=============================================================================
