----------------------------- MODULE MCReconnect -----------------------------
(* Instances of Reconnect for TLC. *)
EXTENDS Reconnect

CONSTANTS tail, tcp, c1, c2, c3, b1

MCOnePublisher  == {tail}
MCTwoPublishers == {tail, tcp}
MCNoHandler    == {}

MCTwoConnections   == {c1, c2}
MCThreeConnections == {c1, c2, c3}

MCOneBrowser == {b1}

\* The connection publishes at most one message, and none after a restart.
MCOneByTcp ==
    LET others == {n \in DOMAIN author : author[n] = tcp}
    IN  Cardinality(others) <= (IF restarts = 0 THEN 1 ELSE 0)

=============================================================================
