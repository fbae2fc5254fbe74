----------------------------- MODULE MCExecLoop -----------------------------
(***************************************************************************)
(* Instances of ExecLoop for TLC: a call with two streams and a deadline,  *)
(* and calls that are given input, with stderr merged, with and without a  *)
(* deadline.                                                               *)
(***************************************************************************)
EXTENDS ExecLoop

MCOneCall == {[pipes |-> {"out"}, deadline |-> 1]}
MCCalls ==
  {[pipes |-> {"out", "err"}, deadline |-> 1],
   [pipes |-> {"out", "in"},  deadline |-> 1],
   [pipes |-> {"out", "in"},  deadline |-> Never]}
=============================================================================
