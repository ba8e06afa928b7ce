-------------------------------- MODULE Lists --------------------------------
(***************************************************************************)
(* The lists of internal/store/store.go: runs and incidents sorted by      *)
(* SQLite as text, in the format RFC3339Nano, which leaves out the         *)
(* trailing zeros of the fraction and the fraction itself if it is zero.   *)
(*                                                                         *)
(* Time is counted in hundredths of a second.  A text is the second, which *)
(* has a fixed width, and the codes of the characters behind it.           *)
(***************************************************************************)
EXTENDS Integers, Sequences, SequencesExt

Second == 100

\* Codes in the order of ASCII: the point, the digits, the Z.
Point    == 0
Digit(d) == d + 1
Zulu     == 11

Fraction(t) ==
    CASE t % Second = 0                 -> <<>>
      [] t % Second # 0 /\ t % 10 = 0   -> <<Point, Digit((t % Second) \div 10)>>
      [] OTHER                          -> <<Point, Digit((t % Second) \div 10), Digit(t % 10)>>

\* Time.Format(tsLayout)
Text(t) == <<t \div Second>> \o Fraction(t) \o <<Zulu>>

\* SQLite compares texts byte by byte.  No text is the beginning of another, since
\* Z ends it.
TextBefore(x, y) ==
    \E i \in DOMAIN x \cap DOMAIN y : SubSeq(x, 1, i - 1) = SubSeq(y, 1, i - 1) /\ x[i] < y[i]

Insert(table, id, row) == [n \in DOMAIN table \cup {id} |-> IF n = id THEN row ELSE table[n]]

\* Mutation: the first_seen of the run is overwritten, not its last_seen.
RecordRunFirst(runs, e) ==
    IF e.id \in DOMAIN runs THEN [runs EXCEPT ![e.id].first = Text(e.at)]
    ELSE Insert(runs, e.id, [first |-> Text(e.at), last |-> Text(e.at)])

\* The upsert of RecordEvent, whose last_seen is the time of the latest event to
\* arrive.
RecordRun(runs, e) ==
    IF e.id \in DOMAIN runs THEN [runs EXCEPT ![e.id].last = Text(e.at)]
    ELSE Insert(runs, e.id, [first |-> Text(e.at), last |-> Text(e.at)])

RunsTable(events) ==
    LET table[n \in 0..Len(events)] == IF n = 0 THEN <<>> ELSE RecordRun(table[n - 1], events[n])
    IN  table[Len(events)]

\* handleRuns: the limit of the query if it is a positive number.
EffectiveLimit(query) == IF query > 0 THEN query ELSE 100

\* SaveIncident of [id, at], at the start it has now: the first start stays.
RecordStart(incidents, e) ==
    IF e.id \in DOMAIN incidents THEN incidents ELSE Insert(incidents, e.id, [started |-> Text(e.at)])

IncidentsTable(snapshots) ==
    LET table[n \in 0..Len(snapshots)] ==
            IF n = 0 THEN <<>> ELSE RecordStart(table[n - 1], snapshots[n])
    IN  table[Len(snapshots)]

\* ORDER BY text DESC LIMIT ?: what SQLite may return of the rows with these texts; the
\* order of equal texts is open.
Descending(text, limit) ==
    {SubSeq(list, 1, IF limit < Len(list) THEN limit ELSE Len(list)) :
        list \in {l \in SetToSeqs(DOMAIN text) :
                      \A i, j \in DOMAIN l : i < j => ~TextBefore(text[l[i]], text[l[j]])}}

ListRuns(runs, limit) == Descending([r \in DOMAIN runs |-> runs[r].last], limit)

ListIncidents(incidents, limit) ==
    Descending([n \in DOMAIN incidents |-> incidents[n].started], limit)

=============================================================================
