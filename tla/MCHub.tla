------------------------------- MODULE MCHub --------------------------------
(* Instances of Hub for TLC: which goroutines, subscribers and sizes. *)
EXTENDS Hub

CONSTANTS tail, tcp, note, s1, s2

\* An ingest goroutine, whose panic is fatal, and the handler of a note.
MCTwoPublishers == {tcp, note}
MCHandler       == {note}

\* One ingest goroutine alone.
MCOneIngest == {tail}
MCNoHandler == {}

MCSubs    == {s1, s2}
MCOneSub  == {s1}

=============================================================================
