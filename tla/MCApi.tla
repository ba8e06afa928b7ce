-------------------------------- MODULE MCApi --------------------------------
(* Instances of Api for TLC. *)
EXTENDS Api

CONSTANTS h1, h2, runA, st1, st2

MCHandlers == {h1, h2}
MCOneRun   == {runA}
MCStations == {st1, st2}

MCTimes == {1, 2}

\* Two requests that only read have nothing in common: one of them is enough.
MCOneReader == Cardinality({h \in Handlers : Reads(h)}) <= 1

SymHandlers == Permutations({h1, h2})

=============================================================================
