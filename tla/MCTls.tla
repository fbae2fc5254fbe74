-------------------------------- MODULE MCTls --------------------------------
(***************************************************************************)
(* An instance of Tls: servers that differ in one thing each.              *)
(***************************************************************************)
EXTENDS Tls

Plain0 == [chain |-> "good", asks |-> FALSE, splits |-> FALSE, post |-> <<>>]
MCServers ==
  { Plain0,
    [Plain0 EXCEPT !.chain = "bad"],
    [Plain0 EXCEPT !.asks = TRUE],
    [Plain0 EXCEPT !.splits = TRUE],
    [Plain0 EXCEPT !.post = <<"NewSessionTicket">>],
    [Plain0 EXCEPT !.post = <<"NewSessionTicket", "KeyUpdate">>] }
=============================================================================
