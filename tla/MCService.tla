------------------------------ MODULE MCService ------------------------------
(* Instances of Service for TLC. *)
EXTENDS Service

CONSTANTS log, c1

MCFile == {log}
MCConn == {c1}

\* The file or the store fails once, and of a file only in the first process; files are
\* flooded while that shuts down, and have no long events, which a tail reads like any
\* other.
MCFewFaults ==
    /\ Cardinality({s \in Streams : state[s] = "failed"} \cup UNION {failed[s] \X {s} : s \in Streams}) <= 1
    /\ life > 1 => \A f \in Files : state[f] # "failed" /\ failed[f] = {}
    /\ flooded # {} => done /\ life = 1
    /\ \A f \in Files : "long event" \notin Range(kind[f])

=============================================================================
