----------------------------- MODULE ByteStream -----------------------------
(***************************************************************************)
(* What a Stream (src/include/lca/net.h) promises the reader of a TLS      *)
(* connection: the blocks the peer sends arrive in order, none twice and   *)
(* none left out, and the end of the stream is only reported when the peer *)
(* has said that it is done and all it sent was delivered, or when an end  *)
(* was forged on the way; anything else is reported as a failure.          *)
(***************************************************************************)
EXTENDS Sequences, SequencesExt

VARIABLES
  sent,      \* what the peer has sent
  finished,  \* has the peer said that there is no more
  forged,    \* has an end been said on the way that is not the peer's
  got,       \* what read_some has returned
  state      \* open, ended: read_some has returned 0, or failed

vars == <<sent, finished, forged, got, state>>

Init == /\ sent = <<>> /\ finished = FALSE /\ forged = FALSE
        /\ got = <<>> /\ state = "open"

Send == /\ ~finished
        /\ IsPrefix(sent, sent')
        /\ UNCHANGED <<finished, forged, got, state>>

Finish == finished' = TRUE /\ UNCHANGED <<sent, forged, got, state>>

Forge == forged' = TRUE /\ UNCHANGED <<sent, finished, got, state>>

Deliver == /\ state = "open"
           /\ IsPrefix(got, got') /\ IsPrefix(got', sent)
           /\ UNCHANGED <<sent, finished, forged, state>>

End == /\ state = "open"
       /\ (finished /\ got = sent) \/ forged
       /\ state' = "ended"
       /\ UNCHANGED <<sent, finished, forged, got>>

Fail == /\ state = "open" /\ state' = "failed"
        /\ UNCHANGED <<sent, finished, forged, got>>

Next == Send \/ Finish \/ Forge \/ Deliver \/ End \/ Fail
Spec == Init /\ [][Next]_vars
=============================================================================
