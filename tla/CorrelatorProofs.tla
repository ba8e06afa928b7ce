--------------------------- MODULE CorrelatorProofs ---------------------------
(***************************************************************************)
(* Proofs about Correlator and Incidents: how failures are grouped in      *)
(* whatever order they come, what becomes of the arrays that snapshots     *)
(* share, and what the table holds of it, across restarts.                 *)
(***************************************************************************)
EXTENDS Incidents, SequenceTheorems, FiniteSetTheorems, FunctionTheorems, TLAPS

-----------------------------------------------------------------------------
(* The inductive invariant *)

Roots == Range(Subsystem) \cup Actuators \cup {Unknown}

IncidentRecord == [id : Nat, run : Runs, started : 0..MaxTime, ended : 0..MaxTime,
                   root : Roots, arr : Nat, len : Nat \ {0}]

SnapshotRecord == [inc : IncidentRecord, members : Seq(Failures)]

Types ==
    /\ seq \in Nat
    /\ incident \in Seq(IncidentRecord) /\ Len(incident) = seq
    /\ open \in [Runs -> 0..seq]
    /\ heap \in Seq(Seq(Failures))
    /\ capacity \in Seq(Nat) /\ Len(capacity) = Len(heap)
    /\ returned \in Seq(SnapshotRecord)
    /\ observed \in Seq(Failures) /\ Len(returned) = Len(observed)
    /\ \A n \in 1..seq : incident[n].arr \in 1..Len(heap)

\* The members of incident n, which has an array to itself.
Of(n) == heap[incident[n].arr]

\* Every incident has an array of its own, of which it uses all; the numbers are
\* the ids, and a run has an open incident as soon as it has one.
Separate ==
    /\ \A n \in 1..seq : incident[n].id = n /\ incident[n].len = Len(Of(n))
    /\ \A m, n \in 1..seq : incident[m].arr = incident[n].arr => m = n
    /\ \A n \in 1..seq : open[incident[n].run] # 0
    /\ \A r \in Runs : open[r] # 0 => incident[open[r]].run = r

\* The members in the order of sortMembers, not only neighbour by neighbour.
Ordered(ms) == \A i, j \in 1..Len(ms) : i < j => ~Before(ms[j], ms[i])

\* No gap between neighbours is longer than the window.
Dense(ms) == \A i \in 1..(Len(ms) - 1) : ms[i + 1].at - ms[i].at <= Window

\* Incident n is one cascade, with the bounds and the root cause of its members.
Cascade(n) ==
    /\ Ordered(Of(n)) /\ Dense(Of(n))
    /\ incident[n].started = Of(n)[1].at
    /\ incident[n].ended = Of(n)[Len(Of(n))].at
    /\ incident[n].root = MemberSubsystem(Of(n)[1])

Cascades == \A n \in 1..seq : Cascade(n)

\* Members are observed failures of the incident's run.
MembersObserved ==
    \A n \in 1..seq : \A i \in 1..Len(Of(n)) :
        /\ Of(n)[i].run = incident[n].run
        /\ \E j \in 1..Len(observed) : observed[j] = Of(n)[i]

\* All failures of run r lie within one window of each other.
Together(r) ==
    \A i, j \in 1..Len(observed) :
        observed[i].run = r /\ observed[j].run = r => Distance(observed[i].at, observed[j].at) <= Window

OneIfTogether ==
    \A r \in Runs : Together(r) =>
        \A m, n \in 1..seq : incident[m].run = r /\ incident[n].run = r => m = n

InOrder == \A i, j \in 1..Len(observed) : i < j => ~Before(observed[j], observed[i])

\* A snapshot lies within its array, and is what it was if nothing came late.
SnapshotsFit ==
    \A k \in 1..Len(returned) :
        LET inc == returned[k].inc
        IN  /\ inc.arr \in 1..Len(heap) /\ inc.len \in 1..Len(heap[inc.arr])
            /\ InOrder => SubSeq(heap[inc.arr], 1, inc.len) = returned[k].members

\* A failure of the run of incident n came late.
Late(n) == LateFailure(incident[n].run)

\* A snapshot that was returned for incident n: it has its run and number, its start but
\* for failures that came late, and is the incident itself or was shorter.
IsSnapshotOf(inc, n) ==
    /\ inc.id = n /\ inc.run = incident[n].run
    /\ inc.started = incident[n].started \/ Late(n)
    /\ inc = incident[n] \/ inc.len < incident[n].len
    /\ \E k \in 1..Len(returned) : returned[k].inc = inc

\* The row of incident n is up to date, or shows an older snapshot.
Shown(n) ==
    LET id == Id(incident[n])
    IN  /\ id \in DOMAIN table
        /\ \/ /\ table[id].members = Of(n)
              /\ table[id].ended = incident[n].ended
              /\ table[id].root = incident[n].root
           \/ Len(table[id].members) < incident[n].len

\* The latest snapshot of incident n is among those p has to save.
WaitsFor(p, n) == \E i \in 1..Len(toSave[p]) : toSave[p][i] = incident[n]

\* The latest snapshot of incident n was written, or its write failed, or it waits.
Settled(n) ==
    \/ Version(incident[n]) \in written \cup failed
    \/ \E p \in Sources : WaitsFor(p, n)

\* What p read is what the latest snapshot of an incident still says.
ReadStands(p) ==
    read[p] # <<>> => /\ toSave[p] # <<>>
                      /\ \A n \in 1..seq : toSave[p][1] = incident[n] => read[p] = Of(n)

StartKept(n) ==
    LET id == Id(incident[n])
    IN  id \in DOMAIN table /\ table[id].insertedBy = life =>
            table[id].started = incident[n].started \/ Late(n)

\* The columns of a row.
Columns == {"started", "ended", "root", "members", "insertedBy"}

TableTypes ==
    /\ toSave \in [Sources -> Seq(IncidentRecord)]
    /\ DOMAIN read = Sources
    /\ life \in Nat \ {0}
    /\ \A id \in DOMAIN table : DOMAIN table[id] = Columns /\ table[id].insertedBy \in 1..life

\* A version that was written is one an incident has or had.
VersionsKnown == \A v \in written : \E n \in 1..seq : \E l \in 1..incident[n].len : v = <<n, l>>

\* What waits are snapshots of incidents, the latest of each is settled, and once it is
\* written the row shows it or an older one; rows this process inserted are its incidents'.
Saved ==
    /\ \A p \in Sources : \A i \in 1..Len(toSave[p]) : \E n \in 1..seq : IsSnapshotOf(toSave[p][i], n)
    /\ \A n \in 1..seq : Settled(n) /\ StartKept(n)
    /\ \A n \in 1..seq : Version(incident[n]) \in written => Shown(n)
    /\ \A p \in Sources : ReadStands(p)
    /\ VersionsKnown
    /\ \A id \in DOMAIN table : table[id].insertedBy = life => \E n \in 1..seq : id = Id(incident[n])

-----------------------------------------------------------------------------
(* Sequences of members *)

\* One place of a sequence changed.
LEMMA ChangedAt ==
    ASSUME NEW S, NEW q \in Seq(S), NEW i \in 1..Len(q), NEW e \in S, NEW p, p = [q EXCEPT ![i] = e]
    PROVE  /\ p \in Seq(S) /\ Len(p) = Len(q)
           /\ p[i] = e
           /\ \A j \in 1..Len(q) : j # i => p[j] = q[j]
<1>1. p \in Seq(S) /\ Len(p) = Len(q) /\ \A j \in 1..Len(q) : p[j] = IF j = i THEN e ELSE q[j]
  BY ExceptSeq
<1> QED BY <1>1

\* One element more.
LEMMA OneMore ==
    ASSUME NEW S, NEW q \in Seq(S), NEW e \in S, NEW p, p = Append(q, e)
    PROVE  /\ p \in Seq(S) /\ Len(p) = Len(q) + 1
           /\ p[Len(q) + 1] = e
           /\ \A j \in 1..Len(q) : p[j] = q[j]
BY AppendProperties

\* A subsystem, an actuator or "unknown".
LEMMA RootType == \A f \in Failures : MemberSubsystem(f) \in Roots
BY CorrelatorAssumption DEF Failures, MemberSubsystem, FirstNamed, Roots, Range

\* A set of numbers from 1 with no hole is an interval.
LEMMA Prefix ==
    ASSUME NEW n \in Nat, NEW S \in SUBSET (1..n),
           \A i, j \in 1..n : i < j /\ j \in S => i \in S
    PROVE  /\ Cardinality(S) \in 0..n
           /\ \A i \in 1..n : i \in S <=> i <= Cardinality(S)
<1>1. IsFiniteSet(1..n) /\ Cardinality(1..n) = n
  BY FS_Interval
<1>2. IsFiniteSet(S) /\ Cardinality(S) \in Nat /\ Cardinality(S) <= n
  BY <1>1, FS_Subset, FS_CardinalityType
<1>3. ASSUME NEW i \in S PROVE i <= Cardinality(S)
  <2>1. i \in 1..n /\ 1..i \in SUBSET S
    BY <1>3
  <2>2. Cardinality(1..i) = i
    BY <2>1, FS_Interval
  <2>3. Cardinality(1..i) <= Cardinality(S)
    BY <1>2, <2>1, FS_Subset
  <2> QED BY <2>2, <2>3
<1>4. ASSUME NEW i \in 1..n, i \notin S PROVE ~(i <= Cardinality(S))
  <2>1. S \in SUBSET (1..(i - 1))
    BY <1>4
  <2>2. IsFiniteSet(1..(i - 1)) /\ Cardinality(1..(i - 1)) = i - 1
    BY <1>4, FS_Interval
  <2>3. Cardinality(S) <= i - 1
    BY <2>1, <2>2, FS_Subset
  <2> QED BY <1>2, <1>4, <2>3
<1> QED BY <1>2, <1>3, <1>4

\* The order of members is total and transitive.
LEMMA BeforeOrders ==
    \A a, b, c \in Failures :
        /\ Before(a, b) => ~Before(b, a)
        /\ ~Before(b, a) /\ ~Before(c, b) => ~Before(c, a)
        /\ ~Before(b, a) => a.at <= b.at
        /\ a.at < b.at => Before(a, b)
<1>1. RuleIds \subseteq Int /\ 0..MaxTime \subseteq Int
  BY CorrelatorAssumption
<1>2. \A a \in Failures : a.at \in Int /\ a.rule \in Int
  BY <1>1 DEF Failures
<1> SUFFICES ASSUME NEW a \in Failures, NEW b \in Failures, NEW c \in Failures
             PROVE  /\ Before(a, b) => ~Before(b, a)
                    /\ ~Before(b, a) /\ ~Before(c, b) => ~Before(c, a)
                    /\ ~Before(b, a) => a.at <= b.at
                    /\ a.at < b.at => Before(a, b)
  OBVIOUS
<1> QED BY <1>2 DEF Before

\* ms is old with f behind its first p elements: those that are not after f.
Inserted(old, ms, f, p) ==
    /\ p \in 0..Len(old) /\ Len(ms) = Len(old) + 1
    /\ \A i \in 1..p : ms[i] = old[i] /\ ~Before(f, old[i])
    /\ ms[p + 1] = f
    /\ \A i \in (p + 1)..Len(old) : ms[i + 1] = old[i] /\ Before(f, old[i])

\* Where a failure goes: behind those that are not after it, before the others.
LEMMA SortedProperties ==
    ASSUME NEW ms \in Seq(Failures), NEW f \in Failures, Ordered(ms)
    PROVE  Sorted(ms, f) \in Seq(Failures) /\ \E p : Inserted(ms, Sorted(ms, f), f, p)
<1> DEFINE n == Len(ms)
           S == {i \in DOMAIN ms : ~Before(f, ms[i])}
           k == Cardinality(S)
<1>0. n \in Nat /\ DOMAIN ms = 1..n /\ \A i \in 1..n : ms[i] \in Failures
  BY LenProperties, ElementOfSeq
<1>1. \A i, j \in 1..n : i < j /\ j \in S => i \in S
  <2>1. ASSUME NEW i \in 1..n, NEW j \in 1..n, i < j, j \in S PROVE i \in S
    <3>1. ~Before(ms[j], ms[i]) /\ ~Before(f, ms[j])
      BY <2>1 DEF Ordered
    <3>2. ~Before(f, ms[i])
      BY <1>0, <3>1, BeforeOrders
    <3> QED BY <1>0, <3>2
  <2> QED BY <2>1
<1>2. k \in 0..n /\ \A i \in 1..n : i \in S <=> i <= k
  <2>1. S \in SUBSET (1..n)
    BY <1>0
  <2> HIDE DEF S
  <2> QED BY <1>0, <1>1, <2>1, Prefix
<1>3. /\ \A i \in 1..k : i \in 1..n /\ ~Before(f, ms[i])
      /\ \A i \in (k + 1)..n : i \in 1..n /\ Before(f, ms[i])
  <2>1. \A i \in 1..n : ~Before(f, ms[i]) <=> i <= k
    BY <1>0, <1>2
  <2> HIDE DEF k, S, n
  <2> QED BY <1>0, <1>2, <2>1
<1>4. Sorted(ms, f) = SubSeq(ms, 1, (k + 1) - 1) \o <<f>> \o SubSeq(ms, k + 1, n)
  BY DEF Sorted, InsertAt
<1> HIDE DEF k
<1> DEFINE front == SubSeq(ms, 1, k)
           back  == SubSeq(ms, k + 1, n)
<1>5. front \in Seq(Failures) /\ Len(front) = k /\ \A i \in 1..k : front[i] = ms[i]
  <2>1. 1 \in Int /\ k \in Int /\ \A i \in 1..k : ms[i] \in Failures
    BY <1>0, <1>2
  <2>2. /\ front \in Seq(Failures) /\ Len(front) = IF 1 <= k THEN k - 1 + 1 ELSE 0
        /\ \A i \in 1..(k - 1 + 1) : front[i] = ms[1 + i - 1]
    BY <2>1, SubSeqProperties
  <2> HIDE DEF front
  <2>3. Len(front) = k /\ k - 1 + 1 = k
    BY <1>2, <2>2
  <2>4. ASSUME NEW i \in 1..k PROVE front[i] = ms[i]
    <3>1. 1 + i - 1 = i
      BY <1>2
    <3> QED BY <2>2, <2>3, <3>1
  <2> QED BY <2>2, <2>3, <2>4
<1>6. back \in Seq(Failures) /\ Len(back) = n - k /\ \A i \in 1..(n - k) : back[i] = ms[i + k]
  <2>1. k + 1 \in Int /\ n \in Int /\ \A i \in (k + 1)..n : ms[i] \in Failures
    BY <1>0, <1>2
  <2>2. /\ back \in Seq(Failures)
        /\ Len(back) = IF k + 1 <= n THEN n - (k + 1) + 1 ELSE 0
        /\ \A i \in 1..(n - (k + 1) + 1) : back[i] = ms[(k + 1) + i - 1]
    BY <2>1, SubSeqProperties
  <2> HIDE DEF back, n
  <2>3. Len(back) = n - k /\ n - (k + 1) + 1 = n - k
    BY <1>0, <1>2, <2>2
  <2>4. ASSUME NEW i \in 1..(n - k) PROVE back[i] = ms[i + k]
    <3>1. (k + 1) + i - 1 = i + k
      BY <1>0, <1>2
    <3> QED BY <2>2, <2>3, <3>1
  <2> QED BY <2>2, <2>3, <2>4
<1> HIDE DEF front, back, n
<1>7. /\ <<f>> \in Seq(Failures) /\ Len(<<f>>) = 1 /\ <<f>>[1] = f
  OBVIOUS
<1>8. /\ front \o <<f>> \in Seq(Failures) /\ Len(front \o <<f>>) = k + 1
      /\ \A i \in 1..k : (front \o <<f>>)[i] = ms[i]
      /\ (front \o <<f>>)[k + 1] = f
  BY <1>2, <1>5, <1>7, ConcatProperties
<1> DEFINE left == front \o <<f>>
<1> HIDE DEF left
<1>9. /\ left \o back \in Seq(Failures) /\ Len(left \o back) = n + 1
      /\ \A i \in 1..(n + 1) : (left \o back)[i] = IF i <= k + 1 THEN left[i] ELSE back[i - (k + 1)]
  <2>1. left \in Seq(Failures) /\ Len(left) = k + 1
    BY <1>8 DEF left
  <2>2. /\ left \o back \in Seq(Failures) /\ Len(left \o back) = Len(left) + Len(back)
        /\ \A i \in 1..(Len(left) + Len(back)) :
               (left \o back)[i] = IF i <= Len(left) THEN left[i] ELSE back[i - Len(left)]
    BY <1>6, <2>1, ConcatProperties
  <2>3. (k + 1) + (n - k) = n + 1
    BY <1>0, <1>2
  <2> QED BY <1>6, <2>1, <2>2, <2>3
<1>10. Sorted(ms, f) = left \o back
  <2>1. (k + 1) - 1 = k
    BY <1>2
  <2> QED BY <1>4, <2>1 DEF left, front, back, k
<1>11. ASSUME NEW i \in (k + 1)..n
       PROVE  (left \o back)[i + 1] = ms[i]
  <2>1. i + 1 \in 1..(n + 1) /\ ~(i + 1 <= k + 1) /\ i - k \in 1..(n - k)
        /\ (i + 1) - (k + 1) = i - k /\ (i - k) + k = i
    BY <1>0, <1>2
  <2> QED BY <1>6, <1>9, <2>1
<1>12. ASSUME NEW i \in 1..(k + 1)
       PROVE  (left \o back)[i] = left[i]
  BY <1>0, <1>2, <1>9
<1>13. /\ \A i \in 1..k : (left \o back)[i] = ms[i]
       /\ (left \o back)[k + 1] = f
  BY <1>2, <1>8, <1>12 DEF left
<1>14. Inserted(ms, left \o back, f, k)
  BY <1>0, <1>2, <1>3, <1>9, <1>11, <1>13 DEF n, Inserted
<1> QED BY <1>9, <1>10, <1>14

-----------------------------------------------------------------------------
(* What Observe does *)

\* An incident's members are all its array holds.
LEMMA MembersAreAll ==
    ASSUME Types, Separate, NEW n \in 1..seq
    PROVE  /\ incident[n] \in IncidentRecord /\ incident[n].arr \in 1..Len(heap)
           /\ Of(n) \in Seq(Failures) /\ Len(Of(n)) \in Nat \ {0}
           /\ \A i \in 1..Len(Of(n)) : Of(n)[i] \in Failures
           /\ Members(incident[n]) = Of(n)
<1>1. incident[n] \in IncidentRecord /\ incident[n].arr \in 1..Len(heap)
  BY ElementOfSeq DEF Types
<1>2. PICK ms : ms = Of(n)
  OBVIOUS
<1>3. ms \in Seq(Failures)
  BY <1>1, <1>2, ElementOfSeq DEF Of, Types
<1>4. incident[n].len = Len(ms) /\ Len(ms) \in Nat \ {0}
  BY <1>1, <1>2, <1>3 DEF Separate, IncidentRecord
<1>5. \A i \in 1..Len(ms) : ms[i] \in Failures
  BY <1>3, ElementOfSeq
<1>6. SubSeq(ms, 1, Len(ms)) = ms
  BY <1>3, SubSeqFull
<1> QED BY <1>1, <1>2, <1>3, <1>4, <1>5, <1>6 DEF Members, Of

\* Incident k has the members ms now, f among them, and nothing else changed: no
\* other incident and no other array.
Grown(f, k, ms) ==
    /\ seq' \in {seq, seq + 1} /\ k \in 1..seq' /\ (k \in 1..seq \/ k = seq + 1)
    /\ 1..seq' = 1..seq \cup {k}
    /\ open' = [open EXCEPT ![f.run] = k]
    /\ incident' \in Seq(IncidentRecord) /\ Len(incident') = seq'
    /\ \A m \in 1..seq : m # k => incident'[m] = incident[m]
    /\ incident'[k].id = k /\ incident'[k].run = f.run
    /\ incident'[k].arr \in 1..Len(heap')
    /\ \A m \in 1..seq : m # k => incident'[k].arr # incident[m].arr
    /\ incident'[k].len = Len(ms) /\ Len(ms) \in Nat \ {0}
    /\ incident'[k].started = ms[1].at
    /\ incident'[k].root = MemberSubsystem(ms[1])
    /\ heap' \in Seq(Seq(Failures)) /\ Len(heap') \in Nat /\ 1..Len(heap) \subseteq 1..Len(heap')
    /\ capacity' \in Seq(Nat) /\ Len(capacity') = Len(heap')
    /\ heap'[incident'[k].arr] = ms
    /\ \A a \in 1..Len(heap) : a # incident'[k].arr => heap'[a] = heap[a]
    /\ incident'[k].arr \in 1..Len(heap) => k \in 1..seq /\ incident[k].arr = incident'[k].arr
    /\ returned' = Append(returned, Snapshot(incident'[k], ms))
    /\ observed' = Append(observed, f)

LEMMA StartGrows ==
    ASSUME Types, Separate, NEW f \in Failures, Observe(f), Start(f)
    PROVE  /\ Grown(f, seq + 1, <<f>>)
           /\ incident'[seq + 1].ended = f.at
<1> DEFINE inc == [id |-> seq + 1, run |-> f.run, started |-> f.at, ended |-> f.at,
                   root |-> MemberSubsystem(f), arr |-> Len(heap) + 1, len |-> 1]
<1>0. /\ seq \in Nat /\ incident \in Seq(IncidentRecord) /\ Len(incident) = seq
      /\ heap \in Seq(Seq(Failures)) /\ Len(heap) \in Nat
      /\ capacity \in Seq(Nat) /\ Len(capacity) = Len(heap)
  BY LenProperties DEF Types
<1>1. /\ incident' = Append(incident, inc)
      /\ returned' = Append(returned, Snapshot(inc, <<f>>))
      /\ seq' = seq + 1
      /\ open' = [open EXCEPT ![f.run] = seq + 1]
      /\ heap' = Append(heap, <<f>>)
      /\ capacity' = Append(capacity, 1)
      /\ observed' = Append(observed, f)
  BY DEF Start, Observe
<1>2. PICK e : e = inc
  OBVIOUS
<1>3. e \in IncidentRecord
  BY <1>0, <1>2, RootType DEF IncidentRecord, Failures
<1>4. /\ e.id = seq + 1 /\ e.run = f.run /\ e.started = f.at /\ e.ended = f.at
      /\ e.root = MemberSubsystem(f) /\ e.arr = Len(heap) + 1 /\ e.len = 1
  BY <1>2
<1> HIDE DEF inc
<1>5. /\ incident' \in Seq(IncidentRecord) /\ Len(incident') = seq + 1
      /\ \A m \in 1..seq : incident'[m] = incident[m]
      /\ incident'[seq + 1] = e
  <2>1. incident' = Append(incident, e)
    BY <1>1, <1>2
  <2> QED BY <1>0, <1>3, <2>1, OneMore
<1>6. <<f>> \in Seq(Failures) /\ Len(<<f>>) = 1 /\ <<f>>[1] = f
  OBVIOUS
<1>7. PICK ms : ms = <<f>>
  OBVIOUS
<1>8. /\ heap' \in Seq(Seq(Failures)) /\ Len(heap') = Len(heap) + 1
      /\ \A a \in 1..Len(heap) : heap'[a] = heap[a]
      /\ heap'[Len(heap) + 1] = ms
  BY <1>0, <1>1, <1>6, <1>7, AppendProperties
<1>9. capacity' \in Seq(Nat) /\ Len(capacity') = Len(heap')
  BY <1>0, <1>1, <1>8, AppendProperties
<1>10. \A m \in 1..seq : incident[m].arr # Len(heap) + 1
  BY <1>0 DEF Types
<1>11. 1..(seq + 1) = 1..seq \cup {seq + 1} /\ seq + 1 \in 1..(seq + 1)
  BY <1>0
<1>12. returned' = Append(returned, Snapshot(incident'[seq + 1], ms))
  BY <1>1, <1>2, <1>5, <1>7
<1>13. Grown(f, seq + 1, ms)
  BY ONLY <1>0, <1>1, <1>4, <1>5, <1>6, <1>7, <1>8, <1>9, <1>10, <1>11, <1>12, SMTT(30) DEF Grown
<1> QED BY <1>4, <1>5, <1>7, <1>13

LEMMA ExtendGrows ==
    ASSUME Types, Separate, NEW f \in Failures, Observe(f), Extend(f),
           NEW k, k = open[f.run], NEW ms, ms = Sorted(Of(k), f),
           ms \in Seq(Failures), Len(ms) = Len(Of(k)) + 1
    PROVE  /\ Grown(f, k, ms)
           /\ k \in 1..seq
           /\ incident'[k].ended = IF f.at > incident[k].ended THEN f.at ELSE incident[k].ended
<1>0. /\ seq \in Nat /\ incident \in Seq(IncidentRecord) /\ Len(incident) = seq
      /\ heap \in Seq(Seq(Failures)) /\ Len(heap) \in Nat
      /\ capacity \in Seq(Nat) /\ Len(capacity) = Len(heap)
      /\ \A n \in 1..seq : incident[n].arr \in 1..Len(heap)
  BY LenProperties DEF Types
<1>1. k \in 1..seq /\ f.run \in Runs
  BY <1>0 DEF Extend, Joins, Types, Failures
<1>2. PICK cur : cur = incident[k]
  OBVIOUS
<1>3. /\ cur \in IncidentRecord /\ cur.arr \in 1..Len(heap) /\ cur.id = k /\ cur.run = f.run
      /\ Of(k) \in Seq(Failures) /\ Len(Of(k)) \in Nat \ {0} /\ Members(cur) = Of(k)
      /\ cur.len = Len(Of(k))
  BY <1>1, <1>2, MembersAreAll DEF Separate, Extend, Joins
<1>4. PICK fits \in BOOLEAN : fits <=> cur.len < capacity[cur.arr]
  OBVIOUS
<1>a. PICK arr : arr = IF fits THEN cur.arr ELSE Len(heap) + 1
  OBVIOUS
<1>b. PICK ended : ended = IF f.at > cur.ended THEN f.at ELSE cur.ended
  OBVIOUS
<1>c. PICK first : first = ms[1]
  OBVIOUS
<1>5. PICK next : next = [cur EXCEPT !.arr = arr, !.len = @ + 1, !.started = first.at,
                                     !.ended = ended, !.root = MemberSubsystem(first)]
  OBVIOUS
<1>6. first \in Failures
  BY <1>3, <1>c, ElementOfSeq
<1>d. /\ arr \in Nat /\ ended \in 0..MaxTime /\ first.at \in 0..MaxTime
      /\ MemberSubsystem(first) \in Roots /\ cur.len + 1 = Len(ms) /\ Len(ms) \in Nat \ {0}
  <2>1. arr \in Nat
    BY <1>0, <1>3, <1>a
  <2>2. ended \in 0..MaxTime
    BY <1>3, <1>b DEF IncidentRecord, Failures
  <2>3. first.at \in 0..MaxTime /\ MemberSubsystem(first) \in Roots
    BY <1>6, RootType DEF Failures
  <2> QED BY <1>3, <2>1, <2>2, <2>3
<1>7. /\ next \in IncidentRecord /\ next.id = k /\ next.run = f.run
      /\ next.arr = arr
      /\ next.len = Len(ms) /\ next.started = first.at
      /\ next.ended = ended
      /\ next.root = MemberSubsystem(first)
  <2>1. PICK root : root = MemberSubsystem(first)
    OBVIOUS
  <2>2. PICK len : len = Len(ms)
    OBVIOUS
  <2>3. PICK at : at = first.at
    OBVIOUS
  <2>4. next = [cur EXCEPT !.arr = arr, !.len = len, !.started = at, !.ended = ended, !.root = root]
    BY <1>5, <1>d, <2>1, <2>2, <2>3
  <2>5. at \in 0..MaxTime /\ len \in Nat \ {0} /\ root \in Roots /\ arr \in Nat /\ ended \in 0..MaxTime
    BY <1>d, <2>1, <2>2, <2>3
  <2>6. /\ next \in IncidentRecord /\ next.id = cur.id /\ next.run = cur.run
        /\ next.arr = arr /\ next.len = len /\ next.started = at /\ next.ended = ended /\ next.root = root
    BY <1>3, <2>4, <2>5 DEF IncidentRecord
  <2> QED BY <1>3, <2>1, <2>2, <2>3, <2>6
<1>8. /\ incident' = [incident EXCEPT ![k] = next]
      /\ IF fits THEN heap' = [heap EXCEPT ![cur.arr] = ms] /\ capacity' = capacity
                 ELSE heap' = Append(heap, ms) /\ capacity' = Append(capacity, 2 * cur.len)
      /\ returned' = Append(returned, Snapshot(next, ms))
      /\ seq' = seq /\ open' = open
      /\ observed' = Append(observed, f)
  BY <1>2, <1>3, <1>4, <1>5, <1>a, <1>b, <1>c DEF Extend, Observe
<1>9. /\ incident' \in Seq(IncidentRecord) /\ Len(incident') = seq
      /\ incident'[k] = next
      /\ \A m \in 1..seq : m # k => incident'[m] = incident[m]
  BY <1>0, <1>1, <1>7, <1>8, ChangedAt
<1>10. /\ heap' \in Seq(Seq(Failures)) /\ Len(heap') \in {Len(heap), Len(heap) + 1}
       /\ arr \in 1..Len(heap') /\ heap'[arr] = ms
       /\ \A a \in 1..Len(heap) : a # arr => heap'[a] = heap[a]
       /\ arr \in 1..Len(heap) => arr = cur.arr
       /\ capacity' \in Seq(Nat) /\ Len(capacity') = Len(heap')
  <2>1. CASE fits
    <3>1. heap' = [heap EXCEPT ![cur.arr] = ms] /\ capacity' = capacity /\ arr = cur.arr
      BY <1>8, <1>a, <2>1
    <3>2. /\ heap' \in Seq(Seq(Failures)) /\ Len(heap') = Len(heap) /\ heap'[cur.arr] = ms
          /\ \A a \in 1..Len(heap) : a # cur.arr => heap'[a] = heap[a]
      BY <1>0, <1>3, <3>1, ChangedAt
    <3> QED BY <1>0, <1>3, <3>1, <3>2
  <2>2. CASE ~fits
    <3>1. heap' = Append(heap, ms) /\ capacity' = Append(capacity, 2 * cur.len) /\ arr = Len(heap) + 1
      BY <1>8, <1>a, <2>2
    <3>2. /\ heap' \in Seq(Seq(Failures)) /\ Len(heap') = Len(heap) + 1
          /\ \A a \in 1..Len(heap) : heap'[a] = heap[a]
          /\ heap'[Len(heap) + 1] = ms
      BY <1>0, <3>1, OneMore
    <3>3. PICK c : c = 2 * cur.len
      OBVIOUS
    <3>4. c \in Nat /\ capacity' = Append(capacity, c)
      BY <1>3, <3>1, <3>3
    <3>5. capacity' \in Seq(Nat) /\ Len(capacity') = Len(capacity) + 1
      BY <1>0, <3>4, OneMore
    <3> QED BY <1>0, <3>1, <3>2, <3>5
  <2> QED BY <2>1, <2>2
<1>11. \A m \in 1..seq : m # k => next.arr # incident[m].arr
  <2>1. \A m \in 1..seq : m # k => cur.arr # incident[m].arr
    BY <1>1, <1>2 DEF Separate
  <2> QED BY <1>0, <1>7, <1>10, <2>1
<1>12. 1..seq = 1..seq \cup {k} /\ 1..Len(heap) \subseteq 1..Len(heap') /\ Len(heap') \in Nat
  <2>1. 1..seq = 1..seq \cup {k}
    BY <1>1
  <2>2. Len(heap) \in Nat /\ Len(heap') \in {Len(heap), Len(heap) + 1}
    BY <1>0, <1>10
  <2>3. Len(heap') \in Nat /\ Len(heap) <= Len(heap')
    BY <2>2
  <2> QED BY <2>1, <2>2, <2>3
<1>13. open' = [open EXCEPT ![f.run] = k]
  BY <1>1, <1>8 DEF Types
<1>14. Grown(f, k, ms)
  BY <1>0, <1>1, <1>2, <1>7, <1>8, <1>9, <1>10, <1>11, <1>12, <1>13, <1>c, <1>d DEF Grown
<1> QED BY <1>1, <1>2, <1>7, <1>9, <1>14, <1>b

\* Where the elements of ms come from.
LEMMA InsertedFrom ==
    ASSUME NEW old, Len(old) \in Nat, NEW ms, NEW f, NEW p, Inserted(old, ms, f, p),
           NEW i \in 1..Len(ms)
    PROVE  \/ i <= p /\ i \in 1..Len(old) /\ ms[i] = old[i] /\ ~Before(f, old[i])
           \/ i = p + 1 /\ ms[i] = f
           \/ i > p + 1 /\ i - 1 \in 1..Len(old) /\ ms[i] = old[i - 1] /\ Before(f, old[i - 1])
<1>1. CASE i <= p
  BY <1>1 DEF Inserted
<1>2. CASE i = p + 1
  BY <1>2 DEF Inserted
<1>3. CASE i > p + 1
  <2>1. i - 1 \in (p + 1)..Len(old) /\ (i - 1) + 1 = i
    BY <1>3 DEF Inserted
  <2>2. ms[(i - 1) + 1] = old[i - 1] /\ Before(f, old[i - 1])
    BY <2>1 DEF Inserted
  <2> QED BY <1>3, <2>1, <2>2 DEF Inserted
<1> QED BY <1>1, <1>2, <1>3 DEF Inserted

LEMMA InsertedOrdered ==
    ASSUME NEW old \in Seq(Failures), NEW ms \in Seq(Failures), NEW f \in Failures, NEW p,
           Inserted(old, ms, f, p), Ordered(old)
    PROVE  Ordered(ms)
<1>0. /\ Len(old) \in Nat /\ Len(ms) \in Nat
      /\ \A i \in 1..Len(old) : old[i] \in Failures
      /\ \A i \in 1..Len(ms) : ms[i] \in Failures
  BY LenProperties, ElementOfSeq
<1> SUFFICES ASSUME NEW i \in 1..Len(ms), NEW j \in 1..Len(ms), i < j
             PROVE  ~Before(ms[j], ms[i])
  BY DEF Ordered
<1>1. \/ i <= p /\ i \in 1..Len(old) /\ ms[i] = old[i] /\ ~Before(f, old[i])
      \/ i = p + 1 /\ ms[i] = f
      \/ i > p + 1 /\ i - 1 \in 1..Len(old) /\ ms[i] = old[i - 1] /\ Before(f, old[i - 1])
  BY <1>0, InsertedFrom
<1>2. \/ j <= p /\ j \in 1..Len(old) /\ ms[j] = old[j] /\ ~Before(f, old[j])
      \/ j = p + 1 /\ ms[j] = f
      \/ j > p + 1 /\ j - 1 \in 1..Len(old) /\ ms[j] = old[j - 1] /\ Before(f, old[j - 1])
  BY <1>0, InsertedFrom
<1>3. p \in Nat
  BY <1>0 DEF Inserted
<1>4. \A a, b \in 1..Len(old) : a < b => ~Before(old[b], old[a])
  BY DEF Ordered
<1>5. CASE j <= p
  BY <1>0, <1>1, <1>2, <1>3, <1>4, <1>5
<1>6. CASE j = p + 1
  BY <1>0, <1>1, <1>2, <1>3, <1>6
<1>7. CASE j > p + 1 /\ i <= p
  BY <1>0, <1>1, <1>2, <1>3, <1>4, <1>7
<1>8. CASE j > p + 1 /\ i = p + 1
  <2>1. ms[i] = f /\ j - 1 \in 1..Len(old) /\ ms[j] = old[j - 1] /\ Before(f, old[j - 1])
    BY <1>0, <1>1, <1>2, <1>3, <1>8
  <2> QED BY <1>0, <2>1, BeforeOrders
<1>9. CASE j > p + 1 /\ i > p + 1
  <2>1. /\ i - 1 \in 1..Len(old) /\ ms[i] = old[i - 1]
        /\ j - 1 \in 1..Len(old) /\ ms[j] = old[j - 1]
    BY <1>0, <1>1, <1>2, <1>3, <1>9
  <2>2. i - 1 < j - 1
    BY <1>0
  <2> QED BY <1>4, <2>1, <2>2
<1> QED BY <1>0, <1>3, <1>5, <1>6, <1>7, <1>8, <1>9

\* The times in an ordered sequence.
LEMMA OrderedTimes ==
    ASSUME NEW q \in Seq(Failures), Ordered(q)
    PROVE  /\ Len(q) \in Nat
           /\ \A i \in 1..Len(q) : q[i] \in Failures /\ q[i].at \in Nat
           /\ \A i, j \in 1..Len(q) : i <= j => q[i].at <= q[j].at
<1>0. \A g \in Failures : g.at \in Nat
  BY CorrelatorAssumption DEF Failures
<1>1. Len(q) \in Nat /\ \A i \in 1..Len(q) : q[i] \in Failures /\ q[i].at \in Nat
  BY <1>0, LenProperties, ElementOfSeq
<1>2. ASSUME NEW i \in 1..Len(q), NEW j \in 1..Len(q), i <= j PROVE q[i].at <= q[j].at
  <2>1. CASE i = j
    BY <1>1, <2>1
  <2>2. CASE i < j
    <3>1. ~Before(q[j], q[i])
      BY <2>2 DEF Ordered
    <3> QED BY <1>1, <3>1, BeforeOrders
  <2> QED BY <1>2, <2>1, <2>2
<1> QED BY <1>1, <1>2

\* A failure within the window of the last member leaves no gap, wherever it goes.
LEMMA InsertedDense ==
    ASSUME NEW old \in Seq(Failures), NEW ms \in Seq(Failures), NEW f \in Failures, NEW p,
           Inserted(old, ms, f, p), Ordered(old), Dense(old), Len(old) > 0,
           Distance(f.at, old[Len(old)].at) <= Window
    PROVE  /\ Dense(ms)
           /\ ms[Len(ms)].at = IF f.at > old[Len(old)].at THEN f.at ELSE old[Len(old)].at
<1>0. /\ Len(old) \in Nat /\ Len(ms) = Len(old) + 1 /\ p \in 0..Len(old)
      /\ \A i \in 1..Len(old) : old[i] \in Failures /\ old[i].at \in Nat
      /\ \A i, j \in 1..Len(old) : i <= j => old[i].at <= old[j].at
      /\ f.at \in Nat
  <2>1. f.at \in Nat
    BY CorrelatorAssumption DEF Failures
  <2>2. Len(ms) = Len(old) + 1 /\ p \in 0..Len(old)
    BY DEF Inserted
  <2> QED BY <2>1, <2>2, OrderedTimes
<1>1. /\ \A i \in 1..p : old[i].at <= f.at
      /\ \A i \in (p + 1)..Len(old) : f.at <= old[i].at
  <2>1. ASSUME NEW i \in 1..p PROVE old[i].at <= f.at
    <3>1. old[i] \in Failures /\ ~Before(f, old[i])
      BY <1>0 DEF Inserted
    <3> QED BY <3>1, BeforeOrders
  <2>2. ASSUME NEW i \in (p + 1)..Len(old) PROVE f.at <= old[i].at
    <3>1. old[i] \in Failures /\ Before(f, old[i])
      BY <1>0 DEF Inserted
    <3> QED BY <3>1, BeforeOrders
  <2> QED BY <2>1, <2>2
<1>2. /\ f.at - old[Len(old)].at <= Window /\ old[Len(old)].at - f.at <= Window
  <2>1. old[Len(old)].at \in Nat /\ Window \in Nat
    BY <1>0, CorrelatorAssumption
  <2> QED BY <1>0, <2>1 DEF Distance
<1>3. ASSUME NEW i \in 1..(Len(ms) - 1) PROVE ms[i + 1].at - ms[i].at <= Window
  <2>0. i \in 1..Len(ms) /\ i + 1 \in 1..Len(ms) /\ i \in 1..Len(old) /\ i \in Nat /\ p \in Nat
    BY <1>0
  <2>1. CASE i + 1 <= p
    <3>1. ms[i] = old[i] /\ ms[i + 1] = old[i + 1] /\ i \in 1..(Len(old) - 1)
      BY <1>0, <2>0, <2>1 DEF Inserted
    <3> QED BY <3>1 DEF Dense
  <2>2. CASE i = p
    <3>1. ms[i] = old[i] /\ ms[i + 1] = f /\ old[i].at <= f.at /\ old[i].at \in Nat
      BY <1>0, <1>1, <2>0, <2>2 DEF Inserted
    <3>2. CASE p = Len(old)
      BY <1>2, <2>2, <3>1, <3>2
    <3>3. CASE p < Len(old)
      <4>1. f.at <= old[i + 1].at /\ i \in 1..(Len(old) - 1)
        BY <1>0, <1>1, <2>0, <2>2, <3>3
      <4>2. old[i + 1].at - old[i].at <= Window /\ old[i + 1].at \in Nat
        BY <1>0, <4>1 DEF Dense
      <4> QED BY <1>0, <3>1, <4>1, <4>2, CorrelatorAssumption
    <3> QED BY <1>0, <3>2, <3>3
  <2>3. CASE i = p + 1
    <3>1. ms[i] = f /\ ms[i + 1] = old[i] /\ f.at <= old[i].at /\ old[i].at \in Nat
      BY <1>0, <1>1, <2>0, <2>3 DEF Inserted
    <3>2. CASE p = 0
      <4>1. old[i].at <= old[Len(old)].at /\ old[Len(old)].at \in Nat
        BY <1>0, <2>0
      <4> QED BY <1>0, <1>2, <3>1, <4>1, CorrelatorAssumption
    <3>3. CASE p > 0
      <4>1. p \in 1..(Len(old) - 1) /\ p \in 1..p
        BY <1>0, <2>0, <2>3, <3>3
      <4>2. old[p].at <= f.at /\ old[p + 1].at - old[p].at <= Window /\ old[p].at \in Nat
        BY <1>0, <1>1, <4>1 DEF Dense
      <4> QED BY <1>0, <2>3, <3>1, <4>2, CorrelatorAssumption
    <3> QED BY <2>0, <3>2, <3>3
  <2>4. CASE i > p + 1
    <3>1. /\ i - 1 \in (p + 1)..Len(old) /\ i \in (p + 1)..Len(old)
          /\ (i - 1) + 1 = i /\ i - 1 \in 1..(Len(old) - 1)
      BY <1>0, <2>0, <2>4
    <3>2. ms[i] = old[i - 1] /\ ms[i + 1] = old[i]
      BY <3>1 DEF Inserted
    <3>3. old[(i - 1) + 1].at - old[i - 1].at <= Window
      BY <3>1 DEF Dense
    <3> QED BY <3>1, <3>2, <3>3
  <2> QED BY <2>0, <2>1, <2>2, <2>3, <2>4
<1>4. ms[Len(ms)].at = IF f.at > old[Len(old)].at THEN f.at ELSE old[Len(old)].at
  <2>0. Len(old) \in 1..Len(old) /\ old[Len(old)].at \in Nat
    BY <1>0
  <2>1. CASE p = Len(old)
    <3>1. ms[Len(ms)] = f /\ old[Len(old)].at <= f.at
      BY <1>0, <1>1, <2>0, <2>1 DEF Inserted
    <3> QED BY <1>0, <2>0, <3>1
  <2>2. CASE p < Len(old)
    <3>1. Len(old) \in (p + 1)..Len(old)
      BY <1>0, <2>2
    <3>2. ms[Len(ms)] = old[Len(old)] /\ f.at <= old[Len(old)].at
      BY <1>0, <1>1, <3>1 DEF Inserted
    <3> QED BY <1>0, <2>0, <3>2
  <2> QED BY <1>0, <2>1, <2>2
<1> QED BY <1>3, <1>4 DEF Dense

\* What Observe(f) does to incident k, whose members were old: none if it is new.
Observes(f, k, old, ms, p) ==
    /\ Grown(f, k, ms)
    /\ old \in Seq(Failures) /\ ms \in Seq(Failures) /\ Inserted(old, ms, f, p)
    /\ Ordered(ms) /\ Dense(ms) /\ incident'[k].ended = ms[Len(ms)].at
    /\ k \in 1..seq => old = Of(k) /\ incident[k].run = f.run
    /\ k \notin 1..seq => old = <<>> /\ ~Joins(f)

LEMMA ObserveGrows ==
    ASSUME Types, Separate, Cascades, NEW f \in Failures, Observe(f)
    PROVE  \E k, old, ms, p : Observes(f, k, old, ms, p)
<1>1. CASE Start(f)
  <2>1. Grown(f, seq + 1, <<f>>) /\ incident'[seq + 1].ended = f.at
    BY <1>1, StartGrows
  <2>2. PICK ms : ms = <<f>>
    OBVIOUS
  <2>3. ms \in Seq(Failures) /\ Len(ms) = 1 /\ ms[1] = f
    BY <2>2
  <2>4. PICK old : old = <<>>
    OBVIOUS
  <2>5. old \in Seq(Failures) /\ Len(old) = 0
    BY <2>4
  <2>6. Ordered(ms) /\ Dense(ms)
    <3>1. \A i, j \in 1..1 : ~(i < j)
      OBVIOUS
    <3>2. 1..(1 - 1) = {}
      OBVIOUS
    <3> QED BY <2>3, <3>1, <3>2 DEF Ordered, Dense
  <2>7. Inserted(old, ms, f, 0)
    BY <2>3, <2>5 DEF Inserted
  <2>8. seq + 1 \notin 1..seq
    BY DEF Types
  <2>9. ~Joins(f)
    BY <1>1 DEF Start
  <2>10. Observes(f, seq + 1, old, ms, 0)
    BY <2>1, <2>2, <2>3, <2>4, <2>5, <2>6, <2>7, <2>8, <2>9 DEF Observes
  <2> QED BY <2>10
<1>2. CASE Extend(f)
  <2>1. PICK k : k = open[f.run]
    OBVIOUS
  <2>2. k \in 1..seq /\ f.run \in Runs /\ Joins(f)
    BY <1>2, <2>1 DEF Extend, Joins, Types, Failures
  <2>3. PICK old : old = Of(k)
    OBVIOUS
  <2>4. old \in Seq(Failures) /\ Len(old) \in Nat \ {0}
    BY <2>2, <2>3, MembersAreAll
  <2>5. Ordered(old) /\ Dense(old) /\ incident[k].ended = old[Len(old)].at
    BY <2>2, <2>3 DEF Cascades, Cascade
  <2>6. PICK ms : ms = Sorted(old, f)
    OBVIOUS
  <2>7. ms \in Seq(Failures) /\ \E p : Inserted(old, ms, f, p)
    BY <2>4, <2>5, <2>6, SortedProperties
  <2>8. PICK p : Inserted(old, ms, f, p)
    BY <2>7
  <2>9. /\ Grown(f, k, ms)
        /\ incident'[k].ended = IF f.at > incident[k].ended THEN f.at ELSE incident[k].ended
    BY <1>2, <2>1, <2>3, <2>6, <2>7, <2>8, ExtendGrows DEF Inserted
  <2>10. Distance(f.at, old[Len(old)].at) <= Window
    BY <2>1, <2>2, <2>5 DEF Joins
  <2>11. Len(old) > 0
    BY <2>4
  <2>12. /\ Ordered(ms) /\ Dense(ms)
         /\ ms[Len(ms)].at = IF f.at > old[Len(old)].at THEN f.at ELSE old[Len(old)].at
    BY <2>4, <2>5, <2>7, <2>8, <2>10, <2>11, InsertedOrdered, InsertedDense
  <2>13. incident[k].run = f.run
    BY <2>1, <2>2 DEF Separate, Joins
  <2>14. Observes(f, k, old, ms, p)
    BY <2>2, <2>3, <2>4, <2>5, <2>7, <2>8, <2>9, <2>12, <2>13 DEF Observes
  <2> QED BY <2>14
<1> QED BY <1>1, <1>2 DEF Observe

\* The arrays of the incidents afterwards.
LEMMA GrownOf ==
    ASSUME Types, Separate, NEW f \in Failures, NEW k, NEW ms, Grown(f, k, ms)
    PROVE  /\ Of(k)' = ms
           /\ \A n \in 1..seq : n # k => Of(n)' = Of(n)
<1>1. Of(k)' = ms
  BY DEF Grown, Of
<1>2. ASSUME NEW n \in 1..seq, n # k PROVE Of(n)' = Of(n)
  <2>1. incident'[n] = incident[n] /\ incident[n].arr \in 1..Len(heap)
    BY <1>2 DEF Grown, Types
  <2>2. heap'[incident[n].arr] = heap[incident[n].arr]
    BY <1>2, <2>1 DEF Grown
  <2> QED BY <2>1, <2>2 DEF Of
<1> QED BY <1>1, <1>2

LEMMA GrownTypes ==
    ASSUME Types, Separate, NEW f \in Failures, NEW k, NEW ms \in Seq(Failures), Grown(f, k, ms)
    PROVE  Types'
<1>1. seq' \in Nat /\ incident' \in Seq(IncidentRecord) /\ Len(incident') = seq' /\ k \in 1..seq'
  BY DEF Types, Grown
<1>2. open' \in [Runs -> 0..seq']
  <2>1. open \in [Runs -> 0..seq] /\ f.run \in Runs /\ 0..seq \subseteq 0..seq' /\ k \in 0..seq'
    <3>1. open \in [Runs -> 0..seq] /\ f.run \in Runs
      BY DEF Types, Failures
    <3>2. seq \in Nat /\ seq' \in {seq, seq + 1}
      BY DEF Types, Grown
    <3> QED BY <1>1, <3>1, <3>2
  <2>2. open' = [open EXCEPT ![f.run] = k]
    BY DEF Grown
  <2> QED BY <2>1, <2>2
<1>3. heap' \in Seq(Seq(Failures)) /\ capacity' \in Seq(Nat) /\ Len(capacity') = Len(heap')
  BY DEF Grown
<1>4. /\ returned' \in Seq(SnapshotRecord) /\ Len(returned') = Len(returned) + 1
  <2>1. PICK e : e = Snapshot(incident'[k], ms)
    OBVIOUS
  <2>2. incident'[k] \in IncidentRecord
    BY <1>1, ElementOfSeq
  <2>3. e \in SnapshotRecord
    BY <2>1, <2>2 DEF Snapshot, SnapshotRecord
  <2>4. returned' = Append(returned, e) /\ returned \in Seq(SnapshotRecord)
    BY <2>1 DEF Grown, Types
  <2> QED BY <2>3, <2>4, OneMore
<1>5. /\ observed' \in Seq(Failures) /\ Len(observed') = Len(observed) + 1
  <2>1. observed' = Append(observed, f) /\ observed \in Seq(Failures)
    BY DEF Grown, Types
  <2> QED BY <2>1, OneMore
<1>6. \A n \in 1..seq' : incident'[n].arr \in 1..Len(heap')
  <2>1. ASSUME NEW n \in 1..seq' PROVE incident'[n].arr \in 1..Len(heap')
    <3>1. CASE n = k
      BY <3>1 DEF Grown
    <3>2. CASE n # k
      <4>1. n \in 1..seq
        BY <3>2 DEF Grown
      <4>2. incident'[n] = incident[n] /\ incident[n].arr \in 1..Len(heap)
        BY <3>2, <4>1 DEF Grown, Types
      <4> QED BY <4>2 DEF Grown
    <3> QED BY <3>1, <3>2
  <2> QED BY <2>1
<1>7. Len(returned) = Len(observed)
  BY DEF Types
<1> QED BY <1>1, <1>2, <1>3, <1>4, <1>5, <1>6, <1>7 DEF Types

LEMMA GrownSeparate ==
    ASSUME Types, Separate, NEW f \in Failures, NEW k, NEW old, NEW ms, NEW p,
           Observes(f, k, old, ms, p)
    PROVE  Separate'
<1>0. Grown(f, k, ms) /\ f.run \in Runs /\ (k \in 1..seq => incident[k].run = f.run)
  BY DEF Observes, Failures
<1>1. /\ Of(k)' = ms
      /\ \A n \in 1..seq : n # k => Of(n)' = Of(n)
  BY <1>0, GrownOf
<1>2. /\ \A n \in 1..seq' : n = k \/ (n \in 1..seq /\ n # k)
      /\ \A n \in 1..seq : n # k => incident'[n] = incident[n]
      /\ incident'[k].run = f.run /\ incident'[k].id = k
  BY <1>0 DEF Grown
<1>3. ASSUME NEW n \in 1..seq' PROVE incident'[n].id = n /\ incident'[n].len = Len(Of(n)')
  <2>1. CASE n = k
    BY <1>0, <1>1, <2>1 DEF Grown
  <2>2. CASE n \in 1..seq /\ n # k
    BY <1>1, <1>2, <2>2 DEF Separate
  <2> QED BY <1>2, <2>1, <2>2
<1>4. ASSUME NEW m \in 1..seq', NEW n \in 1..seq', incident'[m].arr = incident'[n].arr
      PROVE  m = n
  <2>1. \A i \in 1..seq : i # k => incident'[k].arr # incident'[i].arr
    BY <1>0, <1>2 DEF Grown
  <2>2. CASE m = k \/ n = k
    BY <1>2, <1>4, <2>1, <2>2
  <2>3. CASE m # k /\ n # k
    BY <1>2, <1>4, <2>3 DEF Separate
  <2> QED BY <2>2, <2>3
<1>5. /\ open'[f.run] = k /\ k # 0
      /\ \A r \in Runs : r # f.run => open'[r] = open[r]
      /\ open \in [Runs -> 0..seq] /\ seq \in Nat
  <2>1. open \in [Runs -> 0..seq] /\ seq \in Nat
    BY DEF Types
  <2>2. open' = [open EXCEPT ![f.run] = k] /\ k \in 1..seq'
    BY <1>0 DEF Grown
  <2> QED BY <1>0, <2>1, <2>2
<1>6. ASSUME NEW n \in 1..seq' PROVE open'[incident'[n].run] # 0
  <2>1. CASE incident'[n].run = f.run
    BY <1>5, <2>1
  <2>2. CASE incident'[n].run # f.run
    <3>1. n \in 1..seq /\ incident'[n] = incident[n] /\ incident[n].run \in Runs
      <4>1. n \in 1..seq /\ incident'[n] = incident[n]
        BY <1>2, <2>2
      <4> QED BY <4>1, MembersAreAll DEF IncidentRecord
    <3> QED BY <1>5, <2>2, <3>1 DEF Separate
  <2> QED BY <2>1, <2>2
<1>7. ASSUME NEW r \in Runs, open'[r] # 0 PROVE incident'[open'[r]].run = r
  <2>1. CASE r = f.run
    BY <1>2, <1>5, <2>1
  <2>2. CASE r # f.run
    <3>1. open'[r] = open[r] /\ open[r] \in 1..seq /\ incident[open[r]].run = r
      BY <1>5, <1>7, <2>2 DEF Separate
    <3>2. open[r] # k
      BY <1>0, <2>2, <3>1
    <3> QED BY <1>2, <3>1, <3>2
  <2> QED BY <2>1, <2>2
<1> QED BY <1>3, <1>4, <1>6, <1>7 DEF Separate

LEMMA GrownCascades ==
    ASSUME Types, Separate, Cascades, NEW f \in Failures, NEW k, NEW old, NEW ms, NEW p,
           Observes(f, k, old, ms, p)
    PROVE  Cascades'
<1>0. Grown(f, k, ms)
  BY DEF Observes
<1>1. /\ Of(k)' = ms
      /\ \A n \in 1..seq : n # k => Of(n)' = Of(n)
  BY <1>0, GrownOf
<1> SUFFICES ASSUME NEW n \in 1..seq' PROVE Cascade(n)'
  BY DEF Cascades
<1>2. CASE n = k
  <2>1. /\ Ordered(ms) /\ Dense(ms) /\ incident'[k].ended = ms[Len(ms)].at
        /\ incident'[k].started = ms[1].at
        /\ incident'[k].root = MemberSubsystem(ms[1])
    BY <1>0 DEF Observes, Grown
  <2> QED BY <1>1, <1>2, <2>1 DEF Cascade
<1>3. CASE n # k
  <2>1. n \in 1..seq /\ incident'[n] = incident[n] /\ Of(n)' = Of(n)
    BY <1>0, <1>1, <1>3 DEF Grown
  <2>2. Cascade(n)
    BY <2>1 DEF Cascades
  <2> QED BY <2>1, <2>2 DEF Cascade
<1> QED BY <1>2, <1>3

\* What was observed before stays where it was.
LEMMA GrownObserved ==
    ASSUME Types, NEW f \in Failures, NEW k, NEW ms, Grown(f, k, ms)
    PROVE  /\ Len(observed) \in Nat /\ Len(observed') = Len(observed) + 1
           /\ observed'[Len(observed) + 1] = f
           /\ \A i \in 1..Len(observed) : observed'[i] = observed[i] /\ observed[i] \in Failures
<1>1. observed \in Seq(Failures) /\ observed' = Append(observed, f)
  BY DEF Types, Grown
<1>2. Len(observed) \in Nat /\ \A i \in 1..Len(observed) : observed[i] \in Failures
  BY <1>1, LenProperties, ElementOfSeq
<1> QED BY <1>1, <1>2, OneMore

LEMMA GrownMembersObserved ==
    ASSUME Types, Separate, MembersObserved, NEW f \in Failures,
           NEW k, NEW old, NEW ms, NEW p, Observes(f, k, old, ms, p)
    PROVE  MembersObserved'
<1>0. Grown(f, k, ms)
  BY DEF Observes
<1>1. /\ Of(k)' = ms
      /\ \A n \in 1..seq : n # k => Of(n)' = Of(n)
  BY <1>0, GrownOf
<1>2. /\ Len(observed) \in Nat /\ Len(observed') = Len(observed) + 1
      /\ observed'[Len(observed) + 1] = f
      /\ \A i \in 1..Len(observed) : observed'[i] = observed[i]
  BY <1>0, GrownObserved
<1>3. ASSUME NEW n \in 1..seq, NEW i \in 1..Len(Of(n))
      PROVE  Of(n)[i].run = incident[n].run /\ \E j \in 1..Len(observed') : observed'[j] = Of(n)[i]
  <2>1. PICK j \in 1..Len(observed) : observed[j] = Of(n)[i]
    BY DEF MembersObserved
  <2>2. j \in 1..Len(observed') /\ observed'[j] = Of(n)[i]
    BY <1>2, <2>1
  <2> QED BY <2>2 DEF MembersObserved
<1> SUFFICES ASSUME NEW n \in 1..seq', NEW i \in 1..Len(Of(n)')
             PROVE  /\ Of(n)'[i].run = incident'[n].run
                    /\ \E j \in 1..Len(observed') : observed'[j] = Of(n)'[i]
  BY DEF MembersObserved
<1>4. CASE n # k
  <2>1. n \in 1..seq /\ incident'[n] = incident[n] /\ Of(n)' = Of(n)
    BY <1>0, <1>1, <1>4 DEF Grown
  <2> QED BY <1>3, <2>1
<1>5. CASE n = k
  <2>1. Inserted(old, ms, f, p) /\ Len(old) \in Nat /\ incident'[k].run = f.run /\ i \in 1..Len(ms)
    BY <1>0, <1>1, <1>5, LenProperties DEF Observes, Grown
  <2>2. ms[i] = f \/ \E j \in 1..Len(old) : ms[i] = old[j]
    BY <2>1, InsertedFrom
  <2>3. CASE ms[i] = f
    <3>1. Len(observed) + 1 \in 1..Len(observed')
      BY <1>2
    <3> QED BY <1>1, <1>2, <1>5, <2>1, <2>3, <3>1
  <2>4. ASSUME NEW j \in 1..Len(old), ms[i] = old[j]
        PROVE  /\ Of(n)'[i].run = incident'[n].run
               /\ \E l \in 1..Len(observed') : observed'[l] = Of(n)'[i]
    <3>1. k \in 1..seq
      <4>1. CASE k \notin 1..seq
        <5>1. old = <<>>
          BY <4>1 DEF Observes
        <5> QED BY <2>4, <5>1
      <4> QED BY <4>1
    <3>2. old = Of(k) /\ incident[k].run = f.run
      BY <3>1 DEF Observes
    <3>3. old[j].run = incident[k].run /\ \E l \in 1..Len(observed') : observed'[l] = old[j]
      BY <1>3, <2>4, <3>1, <3>2
    <3> QED BY <1>1, <1>5, <2>1, <2>4, <3>2, <3>3
  <2> QED BY <2>2, <2>3, <2>4
<1> QED BY <1>4, <1>5

LEMMA GrownOneIfTogether ==
    ASSUME Types, Separate, Cascades, MembersObserved, OneIfTogether, NEW f \in Failures,
           NEW k, NEW old, NEW ms, NEW p, Observes(f, k, old, ms, p)
    PROVE  OneIfTogether'
<1>0. Grown(f, k, ms)
  BY DEF Observes
<1>1. /\ Len(observed) \in Nat /\ Len(observed') = Len(observed) + 1
      /\ observed'[Len(observed) + 1] = f
      /\ \A i \in 1..Len(observed) : observed'[i] = observed[i]
  BY <1>0, GrownObserved
<1> SUFFICES ASSUME NEW r \in Runs, Together(r)',
                    NEW m \in 1..seq', NEW n \in 1..seq',
                    incident'[m].run = r, incident'[n].run = r
             PROVE  m = n
  BY DEF OneIfTogether
<1>2. Together(r)
  <2>1. 1..Len(observed) \subseteq 1..Len(observed')
    BY <1>1
  <2> QED BY <1>1, <2>1 DEF Together
<1>3. /\ \A i \in 1..seq' : i = k \/ (i \in 1..seq /\ i # k)
      /\ \A i \in 1..seq : i # k => incident'[i] = incident[i]
      /\ incident'[k].run = f.run
  BY <1>0 DEF Grown
<1>4. CASE k \in 1..seq
  <2>1. incident[k].run = f.run
    BY <1>4 DEF Observes
  <2>2. m \in 1..seq /\ n \in 1..seq /\ incident[m].run = r /\ incident[n].run = r
    BY <1>3, <1>4, <2>1
  <2> QED BY <1>2, <2>2 DEF OneIfTogether
<1>5. CASE k \notin 1..seq
  <2>1. ASSUME NEW i \in 1..seq, incident[i].run = f.run, r = f.run PROVE FALSE
    <3>1. PICK o : o = open[f.run]
      OBVIOUS
    <3>2. o \in 1..seq /\ incident[o].run = f.run
      <4>1. o # 0 /\ f.run \in Runs
        BY <2>1, <3>1 DEF Separate, Failures
      <4> QED BY <3>1, <4>1 DEF Separate, Types
    <3>3. ~(Distance(f.at, incident[o].ended) <= Window)
      <4>1. ~Joins(f) /\ o # 0
        BY <1>5, <3>2 DEF Observes
      <4> QED BY <3>1, <4>1 DEF Joins
    <3>4. PICK q : q = Of(o)
      OBVIOUS
    <3>5. Len(q) \in 1..Len(q)
      BY <3>2, <3>4, MembersAreAll
    <3>6. incident[o].ended = q[Len(q)].at
      BY <3>2, <3>4 DEF Cascades, Cascade
    <3>7. q[Len(q)].run = f.run /\ \E j \in 1..Len(observed) : observed[j] = q[Len(q)]
      BY <3>2, <3>4, <3>5 DEF MembersObserved
    <3>8. PICK j \in 1..Len(observed) : observed[j] = q[Len(q)]
      BY <3>7
    <3>9. PICK l : l = Len(observed) + 1
      OBVIOUS
    <3>10. l \in 1..Len(observed') /\ j \in 1..Len(observed') /\ observed'[l] = f /\ observed'[j] = q[Len(q)]
      BY <1>1, <3>8, <3>9
    <3>11. Distance(observed'[l].at, observed'[j].at) <= Window
      BY <2>1, <3>7, <3>10 DEF Together
    <3> QED BY <3>3, <3>6, <3>10, <3>11
  <2>2. CASE m = k \/ n = k
    BY <1>3, <2>1, <2>2
  <2>3. CASE m # k /\ n # k
    <3>1. m \in 1..seq /\ n \in 1..seq /\ incident[m].run = r /\ incident[n].run = r
      BY <1>3, <2>3
    <3> QED BY <1>2, <3>1 DEF OneIfTogether
  <2> QED BY <2>2, <2>3
<1> QED BY <1>4, <1>5

\* A longer sequence with the same beginning.
LEMMA SameBeginning ==
    ASSUME NEW S, NEW q \in Seq(S), NEW s \in Seq(S), NEW l \in 0..Len(q), l \in 0..Len(s),
           \A i \in 1..l : q[i] = s[i]
    PROVE  SubSeq(q, 1, l) = SubSeq(s, 1, l)
<1>0. Len(q) \in Nat /\ Len(s) \in Nat /\ l \in Int /\ 1 \in Int /\ l \in Nat
  BY LenProperties
<1>1. \A i \in 1..l : q[i] \in S /\ s[i] \in S
  BY <1>0, ElementOfSeq
<1>2. /\ SubSeq(q, 1, l) \in Seq(S) /\ Len(SubSeq(q, 1, l)) = l
      /\ \A i \in 1..l : SubSeq(q, 1, l)[i] = q[i]
  <2>1. /\ SubSeq(q, 1, l) \in Seq(S) /\ Len(SubSeq(q, 1, l)) = IF 1 <= l THEN l - 1 + 1 ELSE 0
        /\ \A i \in 1..(l - 1 + 1) : SubSeq(q, 1, l)[i] = q[1 + i - 1]
    BY <1>0, <1>1, SubSeqProperties
  <2>2. l - 1 + 1 = l /\ (IF 1 <= l THEN l - 1 + 1 ELSE 0) = l /\ \A i \in 1..l : 1 + i - 1 = i
    BY <1>0
  <2> QED BY <2>1, <2>2
<1>3. /\ SubSeq(s, 1, l) \in Seq(S) /\ Len(SubSeq(s, 1, l)) = l
      /\ \A i \in 1..l : SubSeq(s, 1, l)[i] = s[i]
  <2>1. /\ SubSeq(s, 1, l) \in Seq(S) /\ Len(SubSeq(s, 1, l)) = IF 1 <= l THEN l - 1 + 1 ELSE 0
        /\ \A i \in 1..(l - 1 + 1) : SubSeq(s, 1, l)[i] = s[1 + i - 1]
    BY <1>0, <1>1, SubSeqProperties
  <2>2. l - 1 + 1 = l /\ (IF 1 <= l THEN l - 1 + 1 ELSE 0) = l /\ \A i \in 1..l : 1 + i - 1 = i
    BY <1>0
  <2> QED BY <2>1, <2>2
<1>4. PICK a : a = SubSeq(q, 1, l)
  OBVIOUS
<1>5. PICK b : b = SubSeq(s, 1, l)
  OBVIOUS
<1>6. a \in Seq(S) /\ b \in Seq(S) /\ Len(a) = Len(b) /\ \A i \in 1..Len(a) : a[i] = b[i]
  BY <1>2, <1>3, <1>4, <1>5
<1>7. a = b
  BY <1>6, SeqEqual
<1> QED BY <1>4, <1>5, <1>7

LEMMA GrownSnapshotsFit ==
    ASSUME Types, Separate, MembersObserved, SnapshotsFit, NEW f \in Failures,
           NEW k, NEW old, NEW ms, NEW p, Observes(f, k, old, ms, p)
    PROVE  SnapshotsFit'
<1>0. Grown(f, k, ms) /\ ms \in Seq(Failures) /\ Len(ms) \in Nat \ {0}
  BY DEF Observes, Grown
<1>1. /\ Len(observed) \in Nat /\ Len(observed') = Len(observed) + 1
      /\ observed'[Len(observed) + 1] = f
      /\ \A i \in 1..Len(observed) : observed'[i] = observed[i] /\ observed[i] \in Failures
  BY <1>0, GrownObserved
<1>2. PICK snap : snap = Snapshot(incident'[k], ms)
  OBVIOUS
<1>3. snap.inc = incident'[k] /\ snap.members = ms
  BY <1>2 DEF Snapshot
<1>4. /\ Len(returned) \in Nat /\ Len(returned') = Len(returned) + 1
      /\ returned'[Len(returned) + 1] = snap
      /\ \A i \in 1..Len(returned) : returned'[i] = returned[i]
  <2>1. PICK T : returned \in Seq(T) /\ snap \in T
    <3>1. incident'[k] \in IncidentRecord
      BY <1>0, ElementOfSeq DEF Grown
    <3>2. snap \in SnapshotRecord
      BY <1>0, <1>2, <3>1 DEF Snapshot, SnapshotRecord
    <3> QED BY <3>2 DEF Types
  <2>2. returned' = Append(returned, snap)
    BY <1>0, <1>2 DEF Grown
  <2> QED BY <2>1, <2>2, OneMore, LenProperties
<1>5. InOrder' => InOrder /\ \A i \in 1..Len(observed) : ~Before(f, observed[i])
  <2>1. SUFFICES ASSUME InOrder' PROVE InOrder /\ \A i \in 1..Len(observed) : ~Before(f, observed[i])
    OBVIOUS
  <2>2. \A i, j \in 1..Len(observed') : i < j => ~Before(observed'[j], observed'[i])
    BY <2>1 DEF InOrder
  <2>3. PICK l : l = Len(observed) + 1
    OBVIOUS
  <2>4. /\ l \in 1..Len(observed') /\ \A i \in 1..Len(observed) : i \in 1..Len(observed') /\ i < l
        /\ observed'[l] = f
    BY <1>1, <2>3
  <2>5. \A i \in 1..Len(observed) : ~Before(f, observed[i])
    BY <1>1, <2>2, <2>4
  <2>6. InOrder
    BY <1>1, <2>2, <2>4 DEF InOrder
  <2> QED BY <2>5, <2>6
<1> SUFFICES ASSUME NEW i \in 1..Len(returned')
             PROVE  LET inc == returned'[i].inc
                    IN  /\ inc.arr \in 1..Len(heap') /\ inc.len \in 1..Len(heap'[inc.arr])
                        /\ InOrder' => SubSeq(heap'[inc.arr], 1, inc.len) = returned'[i].members
  BY DEF SnapshotsFit
<1>6. CASE i = Len(returned) + 1
  <2>1. returned'[i].inc = incident'[k] /\ returned'[i].members = ms
    BY <1>3, <1>4, <1>6
  <2>2. /\ incident'[k].arr \in 1..Len(heap') /\ heap'[incident'[k].arr] = ms
        /\ incident'[k].len = Len(ms)
    BY <1>0 DEF Grown
  <2>3. SubSeq(ms, 1, Len(ms)) = ms /\ Len(ms) \in 1..Len(ms)
    BY <1>0, SubSeqFull
  <2> QED BY <2>1, <2>2, <2>3
<1>7. CASE i # Len(returned) + 1
  <2>1. i \in 1..Len(returned) /\ returned'[i] = returned[i]
    BY <1>4, <1>7
  <2>2. PICK inc : inc = returned[i].inc
    OBVIOUS
  <2>3. PICK mem : mem = returned[i].members
    OBVIOUS
  <2>4. /\ inc.arr \in 1..Len(heap) /\ inc.len \in 1..Len(heap[inc.arr])
        /\ InOrder => SubSeq(heap[inc.arr], 1, inc.len) = mem
    BY <2>1, <2>2, <2>3 DEF SnapshotsFit
  <2>5. inc.arr \in 1..Len(heap')
    BY <1>0, <2>4 DEF Grown
  <2>6. /\ inc.len \in 1..Len(heap'[inc.arr])
        /\ InOrder' => SubSeq(heap'[inc.arr], 1, inc.len) = mem
    <3>1. CASE inc.arr # incident'[k].arr
      <4>1. heap'[inc.arr] = heap[inc.arr]
        BY <1>0, <2>4, <3>1 DEF Grown
      <4> QED BY <1>5, <2>4, <4>1
    <3>2. CASE inc.arr = incident'[k].arr
      <4>1. k \in 1..seq /\ incident[k].arr = inc.arr /\ heap'[inc.arr] = ms
        BY <1>0, <2>4, <3>2 DEF Grown
      <4>2. old = heap[inc.arr] /\ old = Of(k)
        BY <4>1 DEF Observes, Of
      <4>3. old \in Seq(Failures) /\ Len(old) \in Nat /\ Inserted(old, ms, f, p)
        BY LenProperties DEF Observes
      <4>4. Len(ms) = Len(old) + 1
        BY <4>3 DEF Inserted
      <4>5. inc.len \in 1..Len(old) /\ inc.len \in 1..Len(ms)
        BY <2>4, <4>2, <4>3, <4>4
      <4>6. ASSUME InOrder' PROVE SubSeq(ms, 1, inc.len) = mem
        <5>1. \A j \in 1..Len(old) : ~Before(f, old[j])
          <6>1. \A j \in 1..Len(old) : \E l \in 1..Len(observed) : observed[l] = old[j]
            BY <4>1, <4>2 DEF MembersObserved
          <6> QED BY <1>5, <4>6, <6>1
        <5>2. p = Len(old)
          <6>1. p \in 0..Len(old) /\ \A j \in (p + 1)..Len(old) : Before(f, old[j])
            BY <4>3 DEF Inserted
          <6>2. ASSUME p # Len(old) PROVE FALSE
            <7>1. Len(old) \in (p + 1)..Len(old) /\ Len(old) \in 1..Len(old)
              BY <4>3, <6>1, <6>2
            <7> QED BY <5>1, <6>1, <7>1
          <6> QED BY <6>2
        <5>3. \A j \in 1..Len(old) : ms[j] = old[j]
          BY <4>3, <5>2 DEF Inserted
        <5>4. PICK len : len = inc.len
          OBVIOUS
        <5>5. /\ len \in 0..Len(ms) /\ len \in 0..Len(old)
              /\ \A j \in 1..len : ms[j] = old[j]
          BY <4>3, <4>4, <4>5, <5>3, <5>4
        <5>6. SubSeq(ms, 1, len) = SubSeq(old, 1, len)
          BY <1>0, <4>3, <5>5, SameBeginning
        <5> QED BY <1>5, <2>4, <4>2, <4>6, <5>4, <5>6
      <4> QED BY <4>1, <4>5, <4>6
    <3> QED BY <3>1, <3>2
  <2> QED BY <2>1, <2>2, <2>3, <2>5, <2>6
<1> QED BY <1>6, <1>7

-----------------------------------------------------------------------------
(* How often a failure is listed *)

\* The places of a failure, told by the arrays.
Places(g) == {x \in (1..seq) \X Nat : x[2] \in 1..Len(Of(x[1])) /\ Of(x[1])[x[2]] = g}

Times(g) == {i \in 1..Len(observed) : observed[i] = g}

\* Every failure is listed as often as it was observed.
Counted ==
    \A g \in Failures : IsFiniteSet(Places(g)) /\ Cardinality(Places(g)) = Cardinality(Times(g))

LEMMA PlacesAre == Types /\ Separate => \A g : PlacesOf(g) = Places(g)
<1> SUFFICES ASSUME Types, Separate, NEW g PROVE PlacesOf(g) = Places(g)
  OBVIOUS
<1>1. ASSUME NEW n \in 1..seq
      PROVE  /\ Members(incident[n]) = Of(n) /\ DOMAIN Members(incident[n]) = 1..Len(Of(n))
             /\ 1..Len(Of(n)) \subseteq Nat
  <2>1. Members(incident[n]) = Of(n) /\ Of(n) \in Seq(Failures)
    BY MembersAreAll
  <2> QED BY <2>1, LenProperties
<1>2. ASSUME NEW x PROVE x \in PlacesOf(g) <=> x \in Places(g)
  <2>1. ASSUME x \in PlacesOf(g) PROVE x \in Places(g)
    <3>1. PICK n \in 1..seq : x \in {<<n, i>> : i \in {i \in DOMAIN Members(incident[n]) : Members(incident[n])[i] = g}}
      BY <2>1 DEF PlacesOf
    <3>2. PICK i \in 1..Len(Of(n)) : x = <<n, i>> /\ Of(n)[i] = g
      BY <1>1, <3>1
    <3>3. x \in (1..seq) \X Nat /\ x[1] = n /\ x[2] = i
      BY <1>1, <3>2
    <3> QED BY <3>2, <3>3 DEF Places
  <2>2. ASSUME x \in Places(g) PROVE x \in PlacesOf(g)
    <3>1. PICK n \in 1..seq, i \in Nat : x = <<n, i>>
      BY <2>2 DEF Places
    <3>2. i \in 1..Len(Of(n)) /\ Of(n)[i] = g
      BY <2>2, <3>1 DEF Places
    <3>3. i \in DOMAIN Members(incident[n]) /\ Members(incident[n])[i] = g
      BY <1>1, <3>2
    <3> QED BY <3>1, <3>3 DEF PlacesOf
  <2> QED BY <2>1, <2>2
<1> QED BY <1>2

\* As many here as there.
LEMMA AsMany ==
    ASSUME NEW S, NEW T, IsFiniteSet(S), NEW b \in [S -> T],
           \A x, y \in S : b[x] = b[y] => x = y,
           \A y \in T : \E x \in S : b[x] = y
    PROVE  IsFiniteSet(T) /\ Cardinality(T) = Cardinality(S)
<1>1. b \in Bijection(S, T)
  BY Fun_IsBij
<1>2. ExistsBijection(S, T)
  BY <1>1 DEF ExistsBijection
<1> QED BY <1>2, FS_Bijection

\* Making room behind place p of sequence k, and filling it or not.
LEMMA MakingRoom ==
    ASSUME NEW S \in SUBSET (Nat \X Nat), IsFiniteSet(S), NEW T \in SUBSET (Nat \X Nat),
           NEW k \in Nat, NEW p \in Nat,
           \A n, i \in Nat : n # k => (<<n, i>> \in T <=> <<n, i>> \in S),
           \A i \in Nat : i <= p => (<<k, i>> \in T <=> <<k, i>> \in S),
           \A i \in Nat : i > p => (<<k, i + 1>> \in T <=> <<k, i>> \in S)
    PROVE  /\ IsFiniteSet(T)
           /\ Cardinality(T) = Cardinality(S) + (IF <<k, p + 1>> \in T THEN 1 ELSE 0)
<1> DEFINE hole == <<k, p + 1>>
           U == T \ {hole}
           to(x) == IF x[1] = k /\ x[2] > p THEN <<k, x[2] + 1>> ELSE x
           b == [x \in S |-> to(x)]
<1>1. \A x \in S : x = <<x[1], x[2]>> /\ x[1] \in Nat /\ x[2] \in Nat
  OBVIOUS
<1>2. \A x \in T : x = <<x[1], x[2]>> /\ x[1] \in Nat /\ x[2] \in Nat
  OBVIOUS
<1>3. ASSUME NEW x \in S PROVE b[x] \in U
  <2>1. PICK n \in Nat, i \in Nat : x = <<n, i>>
    BY <1>1
  <2>2. CASE n # k
    BY <2>1, <2>2
  <2>3. CASE n = k /\ i <= p
    BY <2>1, <2>3
  <2>4. CASE n = k /\ i > p
    <3>1. b[x] = <<k, i + 1>> /\ <<k, i + 1>> \in T
      BY <2>1, <2>4
    <3> QED BY <2>4, <3>1
  <2> QED BY <2>2, <2>3, <2>4
<1>4. ASSUME NEW x \in S, NEW y \in S, b[x] = b[y] PROVE x = y
  <2>1. PICK n \in Nat, i \in Nat : x = <<n, i>>
    BY <1>1
  <2>2. PICK m \in Nat, j \in Nat : y = <<m, j>>
    BY <1>1
  <2>3. b[x] = IF n = k /\ i > p THEN <<k, i + 1>> ELSE <<n, i>>
    BY <2>1
  <2>4. b[y] = IF m = k /\ j > p THEN <<k, j + 1>> ELSE <<m, j>>
    BY <2>2
  <2> QED BY <1>4, <2>1, <2>2, <2>3, <2>4
<1>5. ASSUME NEW y \in U PROVE \E x \in S : b[x] = y
  <2>1. PICK m \in Nat, j \in Nat : y = <<m, j>>
    BY <1>2
  <2>2. CASE m # k
    <3>1. y \in S /\ b[y] = y
      BY <2>1, <2>2
    <3> QED BY <3>1
  <2>3. CASE m = k /\ j <= p
    <3>1. y \in S /\ b[y] = y
      BY <2>1, <2>3
    <3> QED BY <3>1
  <2>4. CASE m = k /\ j > p
    <3>1. j - 1 \in Nat /\ j - 1 > p /\ (j - 1) + 1 = j
      BY <2>1, <2>4
    <3>2. <<k, j - 1>> \in S
      BY <2>1, <2>4, <3>1
    <3>3. b[<<k, j - 1>>] = y
      BY <2>1, <2>4, <3>1, <3>2
    <3> QED BY <3>2, <3>3
  <2> QED BY <2>2, <2>3, <2>4
<1>6. b \in [S -> U]
  BY <1>3
<1> HIDE DEF b, U
<1>7. IsFiniteSet(U) /\ Cardinality(U) = Cardinality(S)
  BY <1>4, <1>5, <1>6, AsMany
<1>8. Cardinality(S) \in Nat
  BY FS_CardinalityType
<1>9. CASE hole \in T
  <2>1. T = U \cup {hole} /\ hole \notin U
    BY <1>9 DEF U
  <2>2. IsFiniteSet(U \cup {hole}) /\ Cardinality(U \cup {hole}) = Cardinality(U) + 1
    BY <1>7, <2>1, FS_AddElement
  <2> QED BY <1>7, <1>9, <2>1, <2>2
<1>10. CASE hole \notin T
  <2>1. T = U
    BY <1>10 DEF U
  <2> QED BY <1>7, <1>8, <1>10, <2>1
<1> QED BY <1>9, <1>10

LEMMA GrownCounted ==
    ASSUME Types, Separate, Counted, NEW f \in Failures,
           NEW k, NEW old, NEW ms, NEW p, Observes(f, k, old, ms, p)
    PROVE  Counted'
<1>0. /\ Grown(f, k, ms) /\ Inserted(old, ms, f, p) /\ Len(old) \in Nat /\ Len(ms) = Len(old) + 1
      /\ p \in 0..Len(old) /\ p \in Nat
  BY LenProperties DEF Observes, Inserted
<1>1. /\ Of(k)' = ms
      /\ \A n \in 1..seq : n # k => Of(n)' = Of(n)
  BY <1>0, GrownOf
<1>2. /\ Len(observed) \in Nat /\ Len(observed') = Len(observed) + 1
      /\ observed'[Len(observed) + 1] = f
      /\ \A i \in 1..Len(observed) : observed'[i] = observed[i]
  BY <1>0, GrownObserved
<1>3. k \in 1..seq' /\ k \in Nat /\ 1..seq' = 1..seq \cup {k} /\ 1..seq \subseteq Nat /\ 1..seq' \subseteq Nat
  <2>1. k \in 1..seq' /\ 1..seq' = 1..seq \cup {k}
    BY <1>0 DEF Grown
  <2>2. seq \in Nat /\ seq' \in Nat
    BY <1>0 DEF Grown, Types
  <2> QED BY <2>1, <2>2
<1>4. ASSUME NEW i \in Nat, NEW g
      PROVE  /\ <<k, i>> \in Places(g) <=> i \in 1..Len(old) /\ old[i] = g
             /\ <<k, i>> \in Places(g)' <=> i \in 1..Len(ms) /\ ms[i] = g
  <2>1. CASE k \in 1..seq
    <3>1. old = Of(k)
      BY <2>1 DEF Observes
    <3> QED BY <1>1, <1>3, <2>1, <3>1 DEF Places
  <2>2. CASE k \notin 1..seq
    <3>1. old = <<>>
      BY <2>2 DEF Observes
    <3>2. ~(i \in 1..Len(old)) /\ <<k, i>> \notin Places(g)
      BY <2>2, <3>1 DEF Places
    <3> QED BY <1>1, <1>3, <3>2 DEF Places
  <2> QED BY <2>1, <2>2
<1> SUFFICES ASSUME NEW g \in Failures
             PROVE  /\ IsFiniteSet(Places(g)') 
                    /\ Cardinality(Places(g)') = Cardinality(Times(g)')
  BY DEF Counted
<1>5. PICK S : S = Places(g)
  OBVIOUS
<1>6. PICK T : T = Places(g)'
  OBVIOUS
<1>7. S \in SUBSET (Nat \X Nat) /\ T \in SUBSET (Nat \X Nat)
  BY <1>3, <1>5, <1>6 DEF Places
<1>8. \A n, i \in Nat : n # k => (<<n, i>> \in T <=> <<n, i>> \in S)
  <2>1. ASSUME NEW n \in Nat, NEW i \in Nat, n # k PROVE <<n, i>> \in T <=> <<n, i>> \in S
    <3>1. n \in 1..seq' <=> n \in 1..seq
      BY <1>3, <2>1
    <3>2. n \in 1..seq => Of(n)' = Of(n)
      BY <1>1, <2>1
    <3> QED BY <1>5, <1>6, <3>1, <3>2 DEF Places
  <2> QED BY <2>1
<1>9. \A i \in Nat : i <= p => (<<k, i>> \in T <=> <<k, i>> \in S)
  <2>1. ASSUME NEW i \in Nat, i <= p PROVE <<k, i>> \in T <=> <<k, i>> \in S
    <3>1. i \in 1..Len(ms) <=> i \in 1..Len(old)
      BY <1>0, <2>1
    <3>2. i \in 1..Len(old) => ms[i] = old[i]
      BY <1>0, <2>1 DEF Inserted
    <3> QED BY <1>4, <1>5, <1>6, <3>1, <3>2
  <2> QED BY <2>1
<1>10. \A i \in Nat : i > p => (<<k, i + 1>> \in T <=> <<k, i>> \in S)
  <2>1. ASSUME NEW i \in Nat, i > p PROVE <<k, i + 1>> \in T <=> <<k, i>> \in S
    <3>1. i + 1 \in Nat /\ (i + 1 \in 1..Len(ms) <=> i \in 1..Len(old))
      BY <1>0, <2>1
    <3>2. i \in 1..Len(old) => ms[i + 1] = old[i]
      BY <1>0, <2>1 DEF Inserted
    <3> QED BY <1>4, <1>5, <1>6, <3>1, <3>2
  <2> QED BY <2>1
<1>11. <<k, p + 1>> \in T <=> f = g
  <2>1. p + 1 \in Nat /\ p + 1 \in 1..Len(ms) /\ ms[p + 1] = f
    BY <1>0 DEF Inserted
  <2> QED BY <1>4, <1>6, <2>1
<1>12. IsFiniteSet(S)
  BY <1>5 DEF Counted
<1>13. IsFiniteSet(T) /\ Cardinality(T) = Cardinality(S) + (IF f = g THEN 1 ELSE 0)
  BY <1>0, <1>3, <1>7, <1>8, <1>9, <1>10, <1>11, <1>12, MakingRoom
<1>14. PICK B : B = Times(g)
  OBVIOUS
<1>15. PICK l : l = Len(observed) + 1
  OBVIOUS
<1>16. Times(g)' = IF f = g THEN B \cup {l} ELSE B
  <2>1. 1..Len(observed') = 1..Len(observed) \cup {l}
    BY <1>2, <1>15
  <2> QED BY <1>2, <1>14, <1>15, <2>1 DEF Times
<1>17. IsFiniteSet(B) /\ l \notin B
  <2>1. IsFiniteSet(1..Len(observed)) /\ B \in SUBSET (1..Len(observed))
    BY <1>2, <1>14, FS_Interval DEF Times
  <2>2. l \notin 1..Len(observed)
    BY <1>2, <1>15
  <2> QED BY <2>1, <2>2, FS_Subset
<1>18. Cardinality(B \cup {l}) = Cardinality(B) + 1 /\ Cardinality(B) \in Nat
  BY <1>17, FS_AddElement, FS_CardinalityType
<1>19. Cardinality(S) = Cardinality(B)
  BY <1>5, <1>14 DEF Counted
<1>20. CASE f = g
  BY <1>6, <1>13, <1>16, <1>18, <1>19, <1>20
<1>21. CASE f # g
  BY <1>6, <1>13, <1>16, <1>18, <1>19, <1>21
<1> QED BY <1>20, <1>21

-----------------------------------------------------------------------------
(* One life of the correlator *)

OneLife ==
    /\ Types /\ Separate /\ Cascades /\ MembersObserved /\ OneIfTogether /\ SnapshotsFit /\ Counted

LEMMA InitOneLife == Init => OneLife
<1> SUFFICES ASSUME Init PROVE OneLife
  OBVIOUS
<1>1. Types
  BY EmptySeq DEF Init, Types
<1>2. 1..seq = {} /\ 1..Len(observed) = {} /\ 1..Len(returned) = {} /\ \A r \in Runs : open[r] = 0
  BY DEF Init
<1>3. Separate /\ Cascades /\ MembersObserved /\ OneIfTogether /\ SnapshotsFit
  BY <1>2 DEF Separate, Cascades, MembersObserved, OneIfTogether, SnapshotsFit
<1>4. \A g : Places(g) = {} /\ Times(g) = {}
  BY <1>2 DEF Places, Times
<1>5. Counted
  BY <1>4, FS_EmptySet DEF Counted
<1> QED BY <1>1, <1>3, <1>5 DEF OneLife

LEMMA ObserveOneLife ==
    ASSUME OneLife, NEW f \in Failures, Observe(f)
    PROVE  OneLife'
<1>1. PICK k, old, ms, p : Observes(f, k, old, ms, p)
  BY ObserveGrows DEF OneLife
<1>2. Grown(f, k, ms) /\ ms \in Seq(Failures)
  BY <1>1 DEF Observes
<1>3. Types'
  BY <1>2, GrownTypes DEF OneLife
<1>4. Separate' /\ Cascades' /\ MembersObserved' /\ OneIfTogether' /\ SnapshotsFit' /\ Counted'
  BY <1>1, GrownSeparate, GrownCascades, GrownMembersObserved, GrownOneIfTogether,
     GrownSnapshotsFit, GrownCounted DEF OneLife
<1> QED BY <1>3, <1>4 DEF OneLife

LEMMA SameOneLife ==
    ASSUME OneLife, UNCHANGED vars
    PROVE  OneLife'
<1>1. /\ seq' = seq /\ incident' = incident /\ open' = open /\ heap' = heap /\ capacity' = capacity
      /\ returned' = returned /\ observed' = observed
  BY DEF vars
<1>2. Types' /\ Separate' /\ Cascades' /\ MembersObserved'
  <2>1. Types'
    BY <1>1 DEF OneLife, Types
  <2>2. \A n : Of(n)' = Of(n)
    BY <1>1 DEF Of
  <2>3. Separate'
    BY <1>1, <2>2 DEF OneLife, Separate
  <2>4. Cascades'
    BY <1>1, <2>2 DEF OneLife, Cascades, Cascade
  <2>5. MembersObserved'
    BY <1>1, <2>2 DEF OneLife, MembersObserved
  <2> QED BY <2>1, <2>3, <2>4, <2>5
<1>3. OneIfTogether'
  BY <1>1 DEF OneLife, OneIfTogether, Together
<1>4. SnapshotsFit'
  BY <1>1 DEF OneLife, SnapshotsFit, InOrder
<1>5. Counted'
  <2>1. \A g : Places(g)' = Places(g) /\ Times(g)' = Times(g)
    BY <1>1 DEF Places, Times, Of
  <2> QED BY <2>1 DEF OneLife, Counted
<1> QED BY <1>2, <1>3, <1>4, <1>5 DEF OneLife

\* Its properties follow.
LEMMA OneLifeCorrelatorInv == OneLife => CorrelatorInv
<1> SUFFICES ASSUME OneLife PROVE CorrelatorInv
  OBVIOUS
<1>0. Types /\ Separate /\ Cascades
  BY DEF OneLife
<1>1. ASSUME NEW n \in 1..seq
      PROVE  /\ incident[n] \in Incident
             /\ Members(incident[n]) = Of(n) /\ incident[n].len = Len(Of(n)) /\ Len(Of(n)) \in Nat \ {0}
  <2>1. /\ incident[n] \in IncidentRecord /\ incident[n].arr \in 1..Len(heap)
        /\ Members(incident[n]) = Of(n) /\ Len(Of(n)) \in Nat \ {0}
    BY <1>0, MembersAreAll
  <2>2. incident[n].id \in 1..seq /\ incident[n].len = Len(Of(n))
    BY <1>0 DEF Separate
  <2> QED BY <2>1, <2>2 DEF IncidentRecord, Incident, Roots
<1>2. TypeOK
  <2>1. incident \in Seq(Incident)
    <3>1. incident \in Seq(IncidentRecord) /\ Len(incident) = seq
      BY <1>0 DEF Types
    <3>2. DOMAIN incident = 1..seq /\ seq \in Nat /\ incident = [n \in 1..seq |-> incident[n]]
      BY <3>1, LenProperties
    <3>3. \A n \in 1..seq : incident[n] \in Incident
      BY <1>1
    <3> QED BY <3>2, <3>3, IsASeq
  <2> QED BY <1>0, <2>1 DEF Types, TypeOK
<1>3. OneCascade
  <2> SUFFICES ASSUME NEW n \in 1..seq
               PROVE  LET inc == incident[n]
                          ms  == Members(inc)
                      IN  /\ \A i \in 1..(inc.len - 1) :
                                 ~Before(ms[i + 1], ms[i]) /\ ms[i + 1].at - ms[i].at <= Window
                          /\ inc.started = ms[1].at
                          /\ inc.ended = ms[inc.len].at
                          /\ inc.root = MemberSubsystem(ms[1])
    BY DEF OneCascade
  <2>1. PICK ms : ms = Of(n)
    OBVIOUS
  <2>2. /\ Members(incident[n]) = ms /\ incident[n].len = Len(ms) /\ Len(ms) \in Nat
        /\ Ordered(ms) /\ Dense(ms)
        /\ incident[n].started = ms[1].at
        /\ incident[n].ended = ms[Len(ms)].at
        /\ incident[n].root = MemberSubsystem(ms[1])
    BY <1>0, <1>1, <2>1 DEF Cascades, Cascade
  <2>3. \A i \in 1..(Len(ms) - 1) : ~Before(ms[i + 1], ms[i]) /\ ms[i + 1].at - ms[i].at <= Window
    <3>1. ASSUME NEW i \in 1..(Len(ms) - 1) PROVE ~Before(ms[i + 1], ms[i])
      <4>1. i \in 1..Len(ms) /\ i + 1 \in 1..Len(ms) /\ i < i + 1
        BY <2>2
      <4> QED BY <2>2, <4>1 DEF Ordered
    <3> QED BY <2>2, <3>1 DEF Dense
  <2> QED BY <2>2, <2>3
<1> QED BY <1>2, <1>3 DEF CorrelatorInv

LEMMA OneLifePartition == OneLife => Partition
<1> SUFFICES ASSUME OneLife PROVE Partition
  OBVIOUS
<1>0. Types /\ Separate /\ MembersObserved /\ Counted
  BY DEF OneLife
<1>1. observed \in Seq(Failures) /\ DOMAIN observed = 1..Len(observed)
  BY <1>0, LenProperties DEF Types
<1>2. ASSUME NEW n \in 1..seq, NEW i \in DOMAIN Members(incident[n])
      PROVE  /\ Members(incident[n])[i].run = incident[n].run
             /\ Members(incident[n])[i] \in ToSet(observed)
  <2>1. Members(incident[n]) = Of(n) /\ i \in 1..Len(Of(n))
    <3>1. Members(incident[n]) = Of(n) /\ Of(n) \in Seq(Failures)
      BY <1>0, MembersAreAll
    <3> QED BY <3>1, LenProperties
  <2> QED BY <1>0, <1>1, <2>1 DEF MembersObserved, ToSet
<1>3. ASSUME NEW f \in ToSet(observed)
      PROVE  Cardinality(PlacesOf(f)) = Cardinality({i \in DOMAIN observed : observed[i] = f})
  <2>1. f \in Failures
    BY <1>1, ElementOfSeq DEF ToSet
  <2>2. PlacesOf(f) = Places(f) /\ Times(f) = {i \in DOMAIN observed : observed[i] = f}
    BY <1>0, <1>1, PlacesAre DEF Times
  <2> QED BY <1>0, <2>1, <2>2 DEF Counted
<1> QED BY <1>2, <1>3 DEF Partition

LEMMA OneLifeCascadeIsOne == OneLife => CascadeIsOneIncident
<1> SUFFICES ASSUME OneLife, NEW r \in Runs,
                    \A f, g \in ObservedOf(r) : Distance(f.at, g.at) <= Window
             PROVE  Cardinality({n \in 1..seq : incident[n].run = r}) <= 1
  BY DEF CascadeIsOneIncident
<1>1. Together(r)
  <2>1. DOMAIN observed = 1..Len(observed)
    BY LenProperties DEF OneLife, Types
  <2>2. ASSUME NEW i \in 1..Len(observed), observed[i].run = r PROVE observed[i] \in ObservedOf(r)
    BY <2>1, <2>2 DEF ObservedOf
  <2> QED BY <2>2 DEF Together
<1>0. PICK S : S = {n \in 1..seq : incident[n].run = r}
  OBVIOUS
<1>2. \A m, n \in S : m = n
  BY <1>1, <1>0 DEF OneLife, OneIfTogether
<1>3. S = {} => Cardinality(S) <= 1
  BY FS_EmptySet
<1>4. ASSUME S # {} PROVE Cardinality(S) <= 1
  <2>1. PICK n : S = {n}
    BY <1>2, <1>4
  <2>2. Cardinality(S) = 1
    BY <2>1, FS_Singleton
  <2> QED BY <2>2
<1> QED BY <1>0, <1>3, <1>4

LEMMA OneLifeInOrder == OneLife => InOrderIsStable
<1> SUFFICES ASSUME OneLife, NEW n \in DOMAIN returned,
                    \A i, j \in DOMAIN observed : i < j => ~Before(observed[j], observed[i])
             PROVE  Stable(returned[n])
  BY DEF InOrderIsStable
<1>1. DOMAIN observed = 1..Len(observed) /\ DOMAIN returned = 1..Len(returned)
  BY LenProperties DEF OneLife, Types
<1>2. InOrder
  BY <1>1 DEF InOrder
<1> QED BY <1>1, <1>2 DEF OneLife, SnapshotsFit, Stable, Members

\* A restarted correlator is a new one; reading and saving leave it alone.
LEMMA IncidentsOneLife ==
    ASSUME OneLife, [IncidentsNext]_incidentsVars
    PROVE  OneLife'
<1>1. ASSUME NEW p \in Sources, NEW f \in Failures, ObserveOne(p, f) PROVE OneLife'
  BY <1>1, ObserveOneLife DEF ObserveOne
<1>2. ASSUME UNCHANGED vars PROVE OneLife'
  BY <1>2, SameOneLife
<1>3. ASSUME NEW p \in Sources, Unlock(p) \/ ReadMembers(p) \/ SaveIncident(p) \/ SaveFails(p)
      PROVE  OneLife'
  <2>1. UNCHANGED vars
    BY <1>3 DEF Unlock, ReadMembers, SaveIncident, SaveFails, NextSnapshot
  <2> QED BY <1>2, <2>1
<1>4. ASSUME Restart PROVE OneLife'
  <2>1. Init'
    BY <1>4 DEF Restart, Init
  <2> QED BY <2>1, InitOneLife, PTL
<1> QED BY <1>1, <1>2, <1>3, <1>4 DEF IncidentsNext, SourceStep, incidentsVars

\* The correlator's invariant, over all restarts.
LEMMA AlwaysOneLife == IncidentsSpec => []OneLife
<1>1. IncidentsInit => OneLife
  BY InitOneLife DEF IncidentsInit
<1>2. OneLife /\ [IncidentsNext]_incidentsVars => OneLife'
  BY IncidentsOneLife
<1> QED BY <1>1, <1>2, PTL DEF IncidentsSpec

\* Every incident is one cascade in order, its bounds and its root cause those of its
\* first and last member, whatever the order in which the failures came.
THEOREM IncidentsAreCascades == IncidentsSpec => []CorrelatorInv
BY AlwaysOneLife, OneLifeCorrelatorInv, PTL

\* Every observed failure is a member exactly as often as it was observed, in
\* incidents of its run, and nothing else is a member.
THEOREM NothingLostOrMadeUp == IncidentsSpec => []Partition
BY AlwaysOneLife, OneLifePartition, PTL

\* Failures within one window of each other are never split over two incidents.
THEOREM OneIncidentPerCascade == IncidentsSpec => []CascadeIsOneIncident
BY AlwaysOneLife, OneLifeCascadeIsOne, PTL

\* No snapshot is disturbed as long as failures come in order.
THEOREM SnapshotsStableInOrder == IncidentsSpec => []InOrderIsStable
BY AlwaysOneLife, OneLifeInOrder, PTL

-----------------------------------------------------------------------------
(* The table of incidents *)

\* A failure that came late came late.
LEMMA GrownLate ==
    ASSUME Types, NEW f \in Failures, NEW k, NEW ms, Grown(f, k, ms),
           NEW n \in 1..seq, incident'[n].run = incident[n].run, Late(n)
    PROVE  Late(n)'
<1>1. /\ Len(observed) \in Nat /\ Len(observed') = Len(observed) + 1
      /\ \A i \in 1..Len(observed) : observed'[i] = observed[i]
  BY GrownObserved
<1>2. DOMAIN observed = 1..Len(observed) /\ DOMAIN observed' = 1..Len(observed')
  <2>1. observed \in Seq(Failures) /\ observed' = Append(observed, f)
    BY DEF Types, Grown
  <2>2. observed' \in Seq(Failures)
    BY <2>1, OneMore
  <2> QED BY <2>1, <2>2, LenProperties
<1>3. PICK i, j \in DOMAIN observed :
          /\ i < j /\ observed[j].at < observed[i].at
          /\ observed[i].run = incident[n].run /\ observed[j].run = incident[n].run
  BY DEF Late, LateFailure
<1>4. i \in DOMAIN observed' /\ j \in DOMAIN observed' /\ observed'[i] = observed[i] /\ observed'[j] = observed[j]
  BY <1>1, <1>2
<1> QED BY <1>3, <1>4 DEF Late, LateFailure

\* The start of an incident changes only by a failure that comes late.
LEMMA StartChangesLate ==
    ASSUME Types, Separate, Cascades, MembersObserved, NEW f \in Failures,
           NEW k \in 1..seq, NEW old, NEW ms, NEW p, Observes(f, k, old, ms, p)
    PROVE  incident'[k].started = incident[k].started \/ Late(k)'
<1>0. /\ Grown(f, k, ms) /\ Inserted(old, ms, f, p)
      /\ old = Of(k) /\ incident[k].run = f.run /\ incident'[k].run = f.run
  BY DEF Observes, Grown
<1>1. old \in Seq(Failures) /\ Len(old) \in Nat \ {0} /\ old[1] \in Failures /\ 1 \in 1..Len(old)
  <2>1. old \in Seq(Failures) /\ Len(old) \in Nat \ {0} /\ \A i \in 1..Len(old) : old[i] \in Failures
    BY <1>0, MembersAreAll
  <2>2. 1 \in 1..Len(old)
    BY <2>1
  <2> QED BY <2>1, <2>2
<1>2. incident[k].started = old[1].at /\ incident'[k].started = ms[1].at
  BY <1>0 DEF Cascades, Cascade, Grown
<1>3. CASE p > 0
  <2>1. ms[1] = old[1]
    BY <1>0, <1>1, <1>3 DEF Inserted
  <2> QED BY <1>2, <2>1
<1>4. CASE p = 0
  <2>1. ms[1] = f /\ Before(f, old[1])
    BY <1>0, <1>1, <1>4 DEF Inserted
  <2>2. f.at = old[1].at \/ f.at < old[1].at
    BY <2>1 DEF Before
  <2>3. ASSUME f.at < old[1].at PROVE Late(k)'
    <3>1. /\ Len(observed) \in Nat /\ Len(observed') = Len(observed) + 1
          /\ observed'[Len(observed) + 1] = f
          /\ \A i \in 1..Len(observed) : observed'[i] = observed[i]
      BY <1>0, GrownObserved
    <3>2. PICK i \in 1..Len(observed) : observed[i] = old[1]
      BY <1>0, <1>1 DEF MembersObserved
    <3>3. old[1].run = f.run
      BY <1>0, <1>1 DEF MembersObserved
    <3>4. PICK l : l = Len(observed) + 1
      OBVIOUS
    <3>5. /\ i \in 1..Len(observed') /\ l \in 1..Len(observed') /\ i < l
          /\ observed'[i] = old[1] /\ observed'[l] = f
      BY <3>1, <3>2, <3>4
    <3>6. DOMAIN observed' = 1..Len(observed')
      <4>1. observed \in Seq(Failures) /\ observed' = Append(observed, f)
        BY <1>0 DEF Types, Grown
      <4>2. observed' \in Seq(Failures)
        BY <4>1, OneMore
      <4> QED BY <4>2, LenProperties
    <3> QED BY <1>0, <2>3, <3>3, <3>5, <3>6 DEF Late, LateFailure
  <2> QED BY <1>2, <2>1, <2>2, <2>3
<1> QED BY <1>0, <1>3, <1>4 DEF Inserted

\* A snapshot is as long as it says, also when it was torn.
LEMMA FoundLength ==
    ASSUME OneLife, NEW p \in Sources, NEW h \in IncidentRecord, h = Head(toSave[p]),
           NEW k \in 1..Len(returned), returned[k].inc = h, NEW ms \in Found(p)
    PROVE  Len(ms) = h.len
<1>1. h.arr \in 1..Len(heap) /\ h.len \in 1..Len(heap[h.arr]) /\ h.len \in Nat
  BY DEF OneLife, SnapshotsFit, IncidentRecord
<1>2. PICK a : a = heap[h.arr]
  OBVIOUS
<1>3. a \in Seq(Failures)
  BY <1>1, <1>2, ElementOfSeq DEF OneLife, Types
<1>4. Len(Members(h)) = h.len
  <2>1. \A i \in 1..h.len : a[i] \in Failures
    BY <1>1, <1>2, <1>3, ElementOfSeq
  <2>2. Len(SubSeq(a, 1, h.len)) = h.len
    BY <1>1, <1>2, <1>3, <2>1, SubSeqProperties
  <2> QED BY <1>2, <2>2 DEF Members
<1>5. CASE ms = Members(h)
  BY <1>4, <1>5
<1>6. CASE ms # Members(h)
  <2>1. PICK X : ms \in [1..h.len -> X]
    BY <1>6 DEF Found
  <2>2. ms \in Seq(X)
    BY <1>1, <2>1
  <2> QED BY <1>1, <2>1, <2>2, LenProperties
<1> QED BY <1>5, <1>6

\* Observe gives p the incident it extended or started.
LEMMA ObserveWaits ==
    ASSUME OneLife, TableTypes, NEW p \in Sources, NEW f \in Failures, ObserveOne(p, f),
           NEW k, NEW ms \in Seq(Failures), Grown(f, k, ms), NEW snap, snap = incident'[k]
    PROVE  /\ toSave' \in [Sources -> Seq(IncidentRecord)]
           /\ \A q \in Sources : \A i \in 1..Len(toSave[q]) :
                  i \in 1..Len(toSave'[q]) /\ toSave'[q][i] = toSave[q][i]
           /\ \A q \in Sources : \A i \in 1..Len(toSave'[q]) :
                  i \in 1..Len(toSave[q]) \/ toSave'[q][i] = snap
           /\ \E i \in 1..Len(toSave'[p]) : toSave'[p][i] = snap
           /\ snap \in IncidentRecord
           /\ Len(returned) \in Nat /\ Len(returned') = Len(returned) + 1
           /\ returned'[Len(returned) + 1].inc = snap
           /\ \A i \in 1..Len(returned) : returned'[i] = returned[i]
<1>1. snap \in IncidentRecord
  BY ElementOfSeq DEF Grown
<1>2. PICK e : e = Snapshot(snap, ms)
  OBVIOUS
<1>3. e \in SnapshotRecord /\ e.inc = snap
  BY <1>1, <1>2 DEF Snapshot, SnapshotRecord
<1>4. /\ Len(returned) \in Nat /\ Len(returned') = Len(returned) + 1
      /\ returned'[Len(returned) + 1] = e
      /\ \A i \in 1..Len(returned) : returned'[i] = returned[i]
  <2>1. returned \in Seq(SnapshotRecord) /\ returned' = Append(returned, e)
    BY <1>2 DEF OneLife, Types, Grown
  <2> QED BY <1>3, <2>1, OneMore, LenProperties
<1>5. Last(returned').inc = snap
  BY <1>3, <1>4 DEF Last
<1>6. PICK w : w = toSave[p]
  OBVIOUS
<1>7. PICK w2 : w2 = Append(w, snap)
  OBVIOUS
<1>8. w \in Seq(IncidentRecord)
  BY <1>6 DEF TableTypes
<1>9. /\ w2 \in Seq(IncidentRecord) /\ Len(w) \in Nat /\ Len(w2) = Len(w) + 1
      /\ w2[Len(w) + 1] = snap /\ \A i \in 1..Len(w) : w2[i] = w[i]
  BY <1>1, <1>7, <1>8, OneMore, LenProperties
<1>10. toSave' = [toSave EXCEPT ![p] = w2]
  BY <1>5, <1>6, <1>7 DEF ObserveOne
<1>11. toSave'[p] = w2 /\ (\A q \in Sources : q # p => toSave'[q] = toSave[q])
       /\ toSave' \in [Sources -> Seq(IncidentRecord)]
  BY <1>9, <1>10 DEF TableTypes
<1>12. /\ \A i \in 1..Len(w) : i \in 1..Len(w2)
       /\ \A i \in 1..Len(w2) : i \in 1..Len(w) \/ i = Len(w) + 1
       /\ Len(w) + 1 \in 1..Len(w2)
  BY <1>9
<1>13. \A q \in Sources : \A i \in 1..Len(toSave[q]) :
           i \in 1..Len(toSave'[q]) /\ toSave'[q][i] = toSave[q][i]
  BY <1>6, <1>9, <1>11, <1>12
<1>14. \A q \in Sources : \A i \in 1..Len(toSave'[q]) :
           i \in 1..Len(toSave[q]) \/ toSave'[q][i] = snap
  BY <1>6, <1>9, <1>11, <1>12
<1> QED BY <1>1, <1>3, <1>4, <1>9, <1>11, <1>12, <1>13, <1>14

LEMMA ObserveSaved ==
    ASSUME OneLife, TableTypes, Saved, NEW p \in Sources, NEW f \in Failures, ObserveOne(p, f)
    PROVE  TableTypes' /\ Saved'
<1>0. Types /\ Separate /\ Cascades /\ MembersObserved
  BY DEF OneLife
<1>1. PICK k, old, ms, at : Observes(f, k, old, ms, at)
  BY ObserveGrows DEF OneLife, ObserveOne
<1>2. Grown(f, k, ms) /\ ms \in Seq(Failures)
  BY <1>1 DEF Observes
<1>3. PICK snap : snap = incident'[k]
  OBVIOUS
<1>4. /\ \A n \in 1..seq' : n = k \/ (n \in 1..seq /\ n # k)
      /\ \A n \in 1..seq : n # k => incident'[n] = incident[n]
      /\ snap.run = f.run /\ snap.id = k
      /\ 1..seq \subseteq 1..seq' /\ k \in 1..seq'
      /\ k \in 1..seq => incident[k].run = f.run
  BY <1>1, <1>2, <1>3 DEF Grown, Observes
<1>5. \A n \in 1..seq : incident'[n].run = incident[n].run /\ incident'[n].id = n /\ incident[n].id = n
  BY <1>0, <1>3, <1>4 DEF Separate
<1>6. /\ toSave' \in [Sources -> Seq(IncidentRecord)]
      /\ \A q \in Sources : \A i \in 1..Len(toSave[q]) :
             i \in 1..Len(toSave'[q]) /\ toSave'[q][i] = toSave[q][i]
      /\ \A q \in Sources : \A i \in 1..Len(toSave'[q]) :
             i \in 1..Len(toSave[q]) \/ toSave'[q][i] = snap
      /\ \E i \in 1..Len(toSave'[p]) : toSave'[p][i] = snap
      /\ snap \in IncidentRecord
      /\ Len(returned) \in Nat /\ Len(returned') = Len(returned) + 1
      /\ returned'[Len(returned) + 1].inc = snap
      /\ \A i \in 1..Len(returned) : returned'[i] = returned[i]
  BY <1>2, <1>3, ObserveWaits
<1>7. table' = table /\ life' = life /\ read' = read /\ written' = written /\ failed' = failed
  BY DEF ObserveOne, lifeVars
<1>8. TableTypes'
  BY <1>6, <1>7 DEF TableTypes
<1>9. \A n \in 1..seq : Late(n) => Late(n)'
  BY <1>0, <1>2, <1>5, GrownLate
<1>10. ASSUME NEW n \in 1..seq
       PROVE  /\ Id(incident[n])' = Id(incident[n])
              /\ \A t : t = incident[n].started \/ Late(n) => t = incident'[n].started \/ Late(n)'
  <2>1. CASE n # k
    BY <1>4, <1>9, <2>1 DEF Id
  <2>2. CASE n = k
    <3>1. incident'[k].started = incident[k].started \/ Late(k)'
      BY <1>0, <1>1, <2>2, StartChangesLate
    <3> QED BY <1>5, <1>9, <2>2, <3>1 DEF Id
  <2> QED BY <2>1, <2>2
\* The incident that grew is longer than it was.
<1>11. k \in 1..seq => incident[k].len < snap.len
  <2>1. ASSUME k \in 1..seq PROVE incident[k].len < snap.len
    <3>1. old = Of(k) /\ Inserted(old, ms, f, at) /\ snap.len = Len(ms) /\ incident[k].len = Len(old)
      BY <1>0, <1>1, <1>2, <1>3, <2>1 DEF Observes, Grown, Separate
    <3>2. Len(old) \in Nat
      BY <1>1, LenProperties DEF Observes
    <3> QED BY <3>1, <3>2 DEF Inserted
  <2> QED BY <2>1
<1>12. \A n \in 1..seq : incident[n].len \in Nat
  BY <1>0, MembersAreAll DEF IncidentRecord
<1>13. ASSUME NEW n \in 1..seq, NEW inc \in IncidentRecord, IsSnapshotOf(inc, n)
       PROVE  IsSnapshotOf(inc, n)'
  <2>1. PICK i \in 1..Len(returned) : returned[i].inc = inc
    BY <1>13 DEF IsSnapshotOf
  <2>2. i \in 1..Len(returned') /\ returned'[i].inc = inc
    BY <1>6, <2>1
  <2>3. inc = incident'[n] \/ inc.len < incident'[n].len
    <3>1. CASE n # k
      BY <1>4, <1>13, <3>1 DEF IsSnapshotOf
    <3>2. CASE n = k
      <4>1. inc.len \in Nat /\ snap.len \in Nat
        BY <1>6, <1>13 DEF IncidentRecord
      <4> QED BY <1>3, <1>11, <1>12, <1>13, <3>2, <4>1 DEF IsSnapshotOf
    <3> QED BY <3>1, <3>2
  <2>4. inc.id = n /\ inc.run = incident'[n].run
    BY <1>5, <1>13 DEF IsSnapshotOf
  <2>5. inc.started = incident'[n].started \/ Late(n)'
    BY <1>10, <1>13 DEF IsSnapshotOf
  <2> QED BY <2>2, <2>3, <2>4, <2>5 DEF IsSnapshotOf
<1>14. IsSnapshotOf(snap, k)'
  <2>1. Len(returned) + 1 \in 1..Len(returned')
    BY <1>6
  <2> QED BY <1>3, <1>4, <1>6, <2>1 DEF IsSnapshotOf
<1>15. ASSUME NEW q \in Sources, NEW i \in 1..Len(toSave'[q])
       PROVE  \E n \in 1..seq' : IsSnapshotOf(toSave[q][i], n)'
  <2>1. CASE toSave'[q][i] = snap
    BY <1>4, <1>14, <2>1
  <2>2. CASE i \in 1..Len(toSave[q])
    <3>1. PICK n \in 1..seq : IsSnapshotOf(toSave[q][i], n)
      BY <2>2 DEF Saved
    <3>2. PICK inc : inc = toSave[q][i]
      OBVIOUS
    <3>3. inc \in IncidentRecord
      BY <2>2, <3>2, ElementOfSeq DEF TableTypes
    <3>4. IsSnapshotOf(inc, n)'
      BY <1>13, <3>1, <3>2, <3>3
    <3>5. toSave'[q][i] = inc
      BY <1>6, <2>2, <3>2
    <3> QED BY <1>4, <3>4, <3>5
  <2> QED BY <1>6, <2>1, <2>2
<1>16. ASSUME NEW n \in 1..seq' PROVE Settled(n)'
  <2>1. CASE n = k
    BY <1>3, <1>6, <2>1 DEF Settled, WaitsFor
  <2>2. CASE n # k
    <3>1. n \in 1..seq /\ incident'[n] = incident[n] /\ Settled(n)
      BY <1>4, <2>2 DEF Saved
    <3>2. ASSUME NEW q \in Sources, WaitsFor(q, n) PROVE WaitsFor(q, n)'
      BY <1>6, <3>1, <3>2 DEF WaitsFor
    <3>3. Version(incident[n])' = Version(incident[n])
      BY <3>1 DEF Version
    <3> QED BY <1>7, <3>1, <3>2, <3>3 DEF Settled
  <2> QED BY <2>1, <2>2
<1>17. \A v \in written : \E n \in 1..seq : \E l \in 1..incident[n].len : v = <<n, l>>
  BY DEF Saved, VersionsKnown
<1>18. VersionsKnown'
  <2>1. ASSUME NEW v \in written
        PROVE  \E n \in 1..seq' : \E l \in 1..incident'[n].len : v = <<n, l>>
    <3>0. PICK n \in 1..seq : \E l \in 1..incident[n].len : v = <<n, l>>
      BY <1>17
    <3>1. PICK l \in 1..incident[n].len : v = <<n, l>>
      BY <3>0
    <3>2. l \in 1..incident'[n].len
      <4>1. CASE n # k
        BY <1>4, <4>1
      <4>2. CASE n = k
        <5>1. snap.len \in Nat
          BY <1>6 DEF IncidentRecord
        <5> QED BY <1>3, <1>11, <1>12, <4>2, <5>1
      <4> QED BY <4>1, <4>2
    <3> QED BY <1>4, <3>1, <3>2
  <2> QED BY <1>7, <2>1 DEF VersionsKnown
<1>19. ASSUME NEW n \in 1..seq', Version(incident'[n]) \in written' PROVE Shown(n)'
  <2>1. CASE n = k
    <3>0. PICK m \in 1..seq : \E l \in 1..incident[m].len : Version(snap) = <<m, l>>
      BY <1>3, <1>7, <1>17, <1>19, <2>1
    <3>1. PICK l \in 1..incident[m].len : Version(snap) = <<m, l>>
      BY <3>0
    <3>2. m = k /\ l = snap.len
      BY <1>4, <3>1 DEF Version
    <3>3. k \in 1..seq /\ l <= incident[k].len /\ incident[k].len \in Nat /\ l \in Nat
      BY <1>12, <3>1, <3>2
    <3> QED BY <1>11, <3>2, <3>3
  <2>2. CASE n # k
    <3>1. n \in 1..seq /\ incident'[n] = incident[n] /\ Of(n)' = Of(n)
      BY <1>0, <1>2, <1>4, <2>2, GrownOf
    <3>2. Shown(n)
      BY <1>7, <1>19, <3>1 DEF Saved
    <3>3. Id(incident[n])' = Id(incident[n])
      BY <3>1 DEF Id
    <3> QED BY <1>7, <3>1, <3>2, <3>3 DEF Shown
  <2> QED BY <2>1, <2>2
<1>20. ASSUME NEW q \in Sources PROVE ReadStands(q)'
  <2>1. CASE read[q] = <<>>
    BY <1>7, <2>1 DEF ReadStands
  <2>2. CASE read[q] # <<>>
    <3>1. toSave[q] # <<>> /\ \A n \in 1..seq : toSave[q][1] = incident[n] => read[q] = Of(n)
      BY <2>2 DEF Saved, ReadStands
    <3>2. PICK w : w = toSave[q]
      OBVIOUS
    <3>3. w \in Seq(IncidentRecord) /\ 1 \in 1..Len(w)
      <4>1. w \in Seq(IncidentRecord)
        BY <3>2 DEF TableTypes
      <4>2. Len(w) \in Nat \ {0}
        BY <3>1, <3>2, <4>1, EmptySeq
      <4> QED BY <4>1, <4>2
    <3>4. 1 \in 1..Len(toSave'[q]) /\ toSave'[q][1] = w[1]
      BY <1>6, <3>2, <3>3
    <3>5. toSave'[q] # <<>>
      BY <3>4
    <3>6. ASSUME NEW n \in 1..seq', w[1] = incident'[n] PROVE read[q] = Of(n)'
      <4>1. PICK m \in 1..seq : IsSnapshotOf(w[1], m)
        BY <3>2, <3>3 DEF Saved
      <4>2. m = n
        BY <1>3, <1>4, <1>5, <3>6, <4>1 DEF IsSnapshotOf
      <4>3. w[1] = incident[n] \/ w[1].len < incident[n].len
        BY <4>1, <4>2 DEF IsSnapshotOf
      <4>4. n # k
        <5>1. ASSUME n = k PROVE FALSE
          <6>1. w[1].len = snap.len /\ snap.len \in Nat
            BY <1>3, <1>6, <3>6, <5>1 DEF IncidentRecord
          <6> QED BY <1>11, <1>12, <4>2, <4>3, <5>1, <6>1
        <5> QED BY <5>1
      <4>5. incident'[n] = incident[n] /\ Of(n)' = Of(n)
        BY <1>0, <1>2, <1>4, <4>2, <4>4, GrownOf
      <4> QED BY <3>1, <3>2, <3>6, <4>2, <4>5
    <3> QED BY <1>7, <3>4, <3>5, <3>6 DEF ReadStands
  <2> QED BY <2>1, <2>2
<1>21. ASSUME NEW id \in DOMAIN table', table'[id].insertedBy = life'
       PROVE  \E n \in 1..seq' : id = Id(incident[n])'
  <2>1. PICK n \in 1..seq : id = Id(incident[n])
    BY <1>7, <1>21 DEF Saved
  <2> QED BY <1>4, <1>10, <2>1
<1>22. ASSUME NEW n \in 1..seq' PROVE StartKept(n)'
  <2>1. CASE n \in 1..seq
    <3>1. StartKept(n)
      BY <2>1 DEF Saved
    <3>2. Id(incident[n])' = Id(incident[n])
      BY <1>10, <2>1
    <3> QED BY <1>7, <1>10, <2>1, <3>1, <3>2 DEF StartKept
  <2>2. CASE n \notin 1..seq
    <3>1. n = k
      BY <1>4, <2>2
    <3>2. PICK id : id = Id(incident[n])'
      OBVIOUS
    <3>3. id[2] = k
      BY <1>3, <1>4, <3>1, <3>2 DEF Id
    <3>4. ASSUME id \in DOMAIN table', table'[id].insertedBy = life' PROVE FALSE
      <4>1. PICK m \in 1..seq : id = Id(incident[m])
        BY <1>7, <3>4 DEF Saved
      <4>2. id[2] = m
        BY <1>0, <4>1 DEF Id, Separate
      <4> QED BY <2>2, <3>1, <3>3, <4>2
    <3> QED BY <3>2, <3>4 DEF StartKept
  <2> QED BY <2>1, <2>2
<1>23. \A n \in 1..seq' : Settled(n)' /\ StartKept(n)'
  BY <1>16, <1>22
<1> QED BY <1>8, <1>15, <1>18, <1>19, <1>20, <1>21, <1>23 DEF Saved

\* What Upsert leaves in the table.
LEMMA UpsertWrites ==
    ASSUME NEW inc \in IncidentRecord, NEW ms, NEW id, id = Id(inc),
           id \in DOMAIN table => DOMAIN table[id] = Columns,
           NEW up, up = Upsert(inc, ms)
    PROVE  /\ DOMAIN up = DOMAIN table \cup {id}
           /\ \A i \in DOMAIN table : i # id => up[i] = table[i]
           /\ up[id].members = ms /\ up[id].ended = inc.ended /\ up[id].root = inc.root
           /\ DOMAIN up[id] = Columns
           /\ IF id \in DOMAIN table
              THEN up[id].started = table[id].started /\ up[id].insertedBy = table[id].insertedBy
              ELSE up[id].started = inc.started /\ up[id].insertedBy = life
<1>1. PICK new : new = [started |-> inc.started, ended |-> inc.ended, root |-> inc.root,
                        members |-> ms, insertedBy |-> life]
  OBVIOUS
<1>2. PICK old : old = table[id]
  OBVIOUS
<1>3. PICK over : over = [old EXCEPT !.ended = inc.ended, !.root = inc.root, !.members = ms]
  OBVIOUS
<1>4. PICK row : row = IF id \in DOMAIN table THEN over ELSE new
  OBVIOUS
<1>5. up = [i \in DOMAIN table \cup {id} |-> IF i = id THEN row ELSE table[i]]
  BY <1>1, <1>2, <1>3, <1>4 DEF Upsert, Put, Row
<1>6. DOMAIN up = DOMAIN table \cup {id} /\ up[id] = row /\ \A i \in DOMAIN table : i # id => up[i] = table[i]
  BY <1>5
<1>7. /\ DOMAIN new = Columns /\ new.members = ms /\ new.ended = inc.ended /\ new.root = inc.root
      /\ new.started = inc.started /\ new.insertedBy = life
  BY <1>1 DEF Columns
<1>8. id \in DOMAIN table =>
          /\ DOMAIN over = Columns
          /\ over.members = ms /\ over.ended = inc.ended /\ over.root = inc.root
          /\ over.started = old.started /\ over.insertedBy = old.insertedBy
  <2>1. ASSUME DOMAIN old = Columns
        PROVE  /\ DOMAIN over = Columns
               /\ over.members = ms /\ over.ended = inc.ended /\ over.root = inc.root
               /\ over.started = old.started /\ over.insertedBy = old.insertedBy
    BY <1>3, <2>1 DEF Columns
  <2> QED BY <1>2, <2>1
<1> QED BY <1>2, <1>4, <1>6, <1>7, <1>8

\* The correlator stands still while p goes on to its next snapshot.
LEMMA NextDrops ==
    ASSUME OneLife, TableTypes, Saved, NEW p \in Sources, Saving(p), NextSnapshot(p),
           NEW h, h = Head(toSave[p])
    PROVE  /\ h \in IncidentRecord /\ h = toSave[p][1] /\ toSave[p] # <<>>
           /\ \E n \in 1..seq : IsSnapshotOf(h, n)
           /\ toSave' \in [Sources -> Seq(IncidentRecord)] /\ DOMAIN read' = Sources
           /\ \A q \in Sources : \A i \in 1..Len(toSave[q]) :
                  toSave[q][i] = h \/ \E j \in 1..Len(toSave'[q]) : toSave'[q][j] = toSave[q][i]
           /\ \A q \in Sources : \A i \in 1..Len(toSave'[q]) :
                  \E n \in 1..seq : IsSnapshotOf(toSave[q][i], n)'
           /\ \A q \in Sources : ReadStands(q)'
           /\ seq' = seq /\ life' = life
           /\ \A n : /\ incident'[n] = incident[n] /\ Of(n)' = Of(n) /\ (Late(n)' <=> Late(n))
                     /\ Id(incident[n])' = Id(incident[n])
                     /\ Version(incident[n])' = Version(incident[n])
<1>1. /\ UNCHANGED <<vars, life>>
      /\ toSave' = [toSave EXCEPT ![p] = Tail(@)] /\ read' = [read EXCEPT ![p] = <<>>]
  BY DEF NextSnapshot, lifeVars
<1>2. \A n : /\ incident'[n] = incident[n] /\ Of(n)' = Of(n) /\ (Late(n)' <=> Late(n))
             /\ Id(incident[n])' = Id(incident[n])
             /\ Version(incident[n])' = Version(incident[n])
  BY <1>1 DEF vars, Of, Late, LateFailure, Id, Version
<1>3. PICK w : w = toSave[p]
  OBVIOUS
<1>4. w \in Seq(IncidentRecord) /\ w # <<>>
  BY <1>3 DEF TableTypes, Saving
<1>5. PICK t : t = Tail(w)
  OBVIOUS
<1>6. /\ h \in IncidentRecord /\ h = w[1] /\ Len(w) \in Nat \ {0} /\ 1 \in 1..Len(w)
      /\ t \in Seq(IncidentRecord) /\ Len(t) = Len(w) - 1
      /\ \A i \in 1..Len(t) : t[i] = w[i + 1]
  <2>1. Len(w) \in Nat \ {0}
    BY <1>4, EmptySeq
  <2>2. h \in IncidentRecord /\ h = w[1]
    BY <1>3, <1>4, HeadTailProperties
  <2>3. t \in Seq(IncidentRecord) /\ Len(t) = Len(w) - 1 /\ \A i \in 1..Len(t) : t[i] = w[i + 1]
    BY <1>4, <1>5, HeadTailProperties
  <2> QED BY <2>1, <2>2, <2>3
<1>7. /\ toSave'[p] = t /\ (\A q \in Sources : q # p => toSave'[q] = toSave[q])
      /\ toSave' \in [Sources -> Seq(IncidentRecord)]
  <2>1. toSave' = [toSave EXCEPT ![p] = t]
    BY <1>1, <1>3, <1>5
  <2> QED BY <1>6, <2>1 DEF TableTypes
<1>8. read'[p] = <<>> /\ (\A q \in Sources : q # p => read'[q] = read[q]) /\ DOMAIN read' = Sources
  BY <1>1 DEF TableTypes
<1>9. \E n \in 1..seq : IsSnapshotOf(h, n)
  BY <1>3, <1>6 DEF Saved
<1>10. ASSUME NEW q \in Sources, NEW i \in 1..Len(toSave[q])
       PROVE  toSave[q][i] = h \/ \E j \in 1..Len(toSave'[q]) : toSave'[q][j] = toSave[q][i]
  <2>1. CASE q # p
    BY <1>7, <2>1
  <2>2. CASE q = p /\ i = 1
    BY <1>3, <1>6, <2>2
  <2>3. CASE q = p /\ i # 1
    <3>1. i - 1 \in 1..Len(t) /\ (i - 1) + 1 = i
      BY <1>3, <1>6, <2>3
    <3>2. t[i - 1] = w[i]
      BY <1>6, <3>1
    <3> QED BY <1>3, <1>7, <2>3, <3>1, <3>2
  <2> QED BY <2>1, <2>2, <2>3
<1>11. ASSUME NEW q \in Sources, NEW i \in 1..Len(toSave'[q])
       PROVE  \E n \in 1..seq : IsSnapshotOf(toSave[q][i], n)'
  <2>1. PICK j \in 1..Len(toSave[q]) : toSave'[q][i] = toSave[q][j]
    <3>1. CASE q # p
      BY <1>7, <3>1
    <3>2. CASE q = p
      <4>1. i + 1 \in 1..Len(w) /\ t[i] = w[i + 1]
        BY <1>6, <1>7, <3>2
      <4> QED BY <1>3, <1>7, <3>2, <4>1
    <3> QED BY <3>1, <3>2
  <2>2. PICK n \in 1..seq : IsSnapshotOf(toSave[q][j], n)
    BY DEF Saved
  <2>3. returned' = returned
    BY <1>1 DEF vars
  <2>4. IsSnapshotOf(toSave[q][i], n)'
    BY <1>2, <2>1, <2>2, <2>3 DEF IsSnapshotOf
  <2> QED BY <2>4
<1>12. seq' = seq /\ life' = life
  BY <1>1 DEF vars
<1>13. ASSUME NEW q \in Sources PROVE ReadStands(q)'
  <2>1. CASE q = p
    BY <1>8, <2>1 DEF ReadStands
  <2>2. CASE q # p
    <3>1. ReadStands(q)
      BY DEF Saved
    <3> QED BY <1>2, <1>7, <1>8, <1>12, <2>2, <3>1 DEF ReadStands
  <2> QED BY <2>1, <2>2
<1> QED BY <1>2, <1>3, <1>4, <1>6, <1>7, <1>8, <1>9, <1>10, <1>11, <1>12, <1>13

LEMMA SaveSaved ==
    ASSUME OneLife, TableTypes, Saved, NEW p \in Sources, SaveIncident(p)
    PROVE  TableTypes' /\ Saved'
<1>0. Types /\ Separate
  BY DEF OneLife
<1>1. PICK h : h = Head(toSave[p])
  OBVIOUS
<1>3. Saving(p) /\ read[p] # <<>> /\ NextSnapshot(p) /\ written' = written \cup {Version(h)} /\ failed' = failed
  BY <1>1 DEF SaveIncident
<1>19. /\ h \in IncidentRecord /\ h = toSave[p][1] /\ toSave[p] # <<>>
       /\ \E n \in 1..seq : IsSnapshotOf(h, n)
  BY <1>1, <1>3, NextDrops
<1>4. /\ toSave' \in [Sources -> Seq(IncidentRecord)] /\ DOMAIN read' = Sources
      /\ \A q \in Sources : \A i \in 1..Len(toSave[q]) :
             toSave[q][i] = h \/ \E j \in 1..Len(toSave'[q]) : toSave'[q][j] = toSave[q][i]
      /\ \A q \in Sources : \A i \in 1..Len(toSave'[q]) :
             \E n \in 1..seq : IsSnapshotOf(toSave[q][i], n)'
      /\ \A q \in Sources : ReadStands(q)'
      /\ seq' = seq /\ life' = life
      /\ \A n : /\ incident'[n] = incident[n] /\ Of(n)' = Of(n) /\ (Late(n)' <=> Late(n))
                /\ Id(incident[n])' = Id(incident[n])
                /\ Version(incident[n])' = Version(incident[n])
  BY <1>1, <1>3, NextDrops
<1>2. PICK mem \in Found(p) : table' = Upsert(h, mem)
  BY <1>1 DEF SaveIncident
<1>5. PICK up : up = Upsert(h, mem)
  OBVIOUS
<1>6. PICK m \in 1..seq : IsSnapshotOf(h, m)
  BY <1>19
<1>7. PICK id : id = Id(h)
  OBVIOUS
<1>8. id = Id(incident[m]) /\ h.id = m
  BY <1>0, <1>6, <1>7 DEF IsSnapshotOf, Id, Separate
<1>9. \A n \in 1..seq : Id(incident[n]) = id <=> n = m
  BY <1>0, <1>8 DEF Id, Separate
<1>10. Len(mem) = h.len
  <2>1. PICK k \in 1..Len(returned) : returned[k].inc = h
    BY <1>6 DEF IsSnapshotOf
  <2> QED BY <1>1, <1>2, <1>19, <2>1, FoundLength
<1>11. /\ DOMAIN table' = DOMAIN table \cup {id}
       /\ \A i \in DOMAIN table : i # id => table'[i] = table[i]
       /\ table'[id].members = mem /\ table'[id].ended = h.ended /\ table'[id].root = h.root
       /\ DOMAIN table'[id] = Columns
       /\ IF id \in DOMAIN table
          THEN table'[id].started = table[id].started /\ table'[id].insertedBy = table[id].insertedBy
          ELSE table'[id].started = h.started /\ table'[id].insertedBy = life
  <2>1. id \in DOMAIN table => DOMAIN table[id] = Columns
    BY DEF TableTypes
  <2>4. h \in IncidentRecord
    BY <1>19
  <2>2. /\ DOMAIN up = DOMAIN table \cup {id}
        /\ \A i \in DOMAIN table : i # id => up[i] = table[i]
        /\ up[id].members = mem /\ up[id].ended = h.ended /\ up[id].root = h.root
        /\ DOMAIN up[id] = Columns
        /\ IF id \in DOMAIN table
           THEN up[id].started = table[id].started /\ up[id].insertedBy = table[id].insertedBy
           ELSE up[id].started = h.started /\ up[id].insertedBy = life
    BY ONLY <1>5, <1>7, <2>1, <2>4, UpsertWrites
  <2>3. table' = up
    BY <1>2, <1>5
  <2> QED BY <2>2, <2>3
<1>12. TableTypes'
  <2>1. life' \in Nat \ {0} /\ life \in 1..life
    BY <1>4 DEF TableTypes
  <2>2. ASSUME NEW i \in DOMAIN table' PROVE DOMAIN table'[i] = Columns /\ table'[i].insertedBy \in 1..life
    BY <1>11, <2>1 DEF TableTypes
  <2> QED BY <1>4, <2>1, <2>2 DEF TableTypes
<1>13. ASSUME NEW n \in 1..seq PROVE Settled(n)'
  <2>1. CASE Version(incident[n]) \in written \cup failed
    BY <1>3, <1>4, <2>1 DEF Settled
  <2>2. ASSUME NEW q \in Sources, WaitsFor(q, n) PROVE Settled(n)'
    <3>1. PICK i \in 1..Len(toSave[q]) : toSave[q][i] = incident[n]
      BY <2>2 DEF WaitsFor
    <3>2. CASE toSave[q][i] = h
      <4>1. Version(incident[n])' \in written'
        BY <1>3, <1>4, <3>1, <3>2
      <4> QED BY <4>1 DEF Settled
    <3>3. CASE \E j \in 1..Len(toSave'[q]) : toSave'[q][j] = toSave[q][i]
      <4>1. WaitsFor(q, n)'
        BY <1>4, <3>1, <3>3 DEF WaitsFor
      <4> QED BY <4>1 DEF Settled
    <3> QED BY <1>4, <3>2, <3>3
  <2> QED BY <2>1, <2>2 DEF Saved, Settled
\* The row written shows the incident, or fewer members than it has now.
<1>14. Shown(m)'
  <2>1. CASE h = incident[m]
    <3>1. read[p] = Of(m)
      BY <1>3, <1>19, <2>1 DEF Saved, ReadStands
    <3>2. Members(h) = Of(m)
      BY <1>0, <2>1, MembersAreAll
    <3>3. mem = Of(m)
      BY <1>1, <1>2, <3>1, <3>2 DEF Found
    <3> QED BY <1>4, <1>8, <1>11, <2>1, <3>3 DEF Shown
  <2>2. CASE h.len < incident[m].len
    BY <1>4, <1>8, <1>10, <1>11, <2>2 DEF Shown
  <2> QED BY <1>6, <2>1, <2>2 DEF IsSnapshotOf
<1>15. ASSUME NEW n \in 1..seq, Version(incident'[n]) \in written' PROVE Shown(n)'
  <2>1. CASE n = m
    BY <1>14, <2>1
  <2>2. CASE n # m
    <3>1. Id(incident[n]) # id
      BY <1>9, <2>2
    <3>2. Version(incident[n]) # Version(h)
      BY <1>0, <1>8, <2>2 DEF Version, Separate
    <3>3. Version(incident[n]) \in written
      BY <1>3, <1>4, <1>15, <3>2
    <3>4. Shown(n)
      BY <3>3 DEF Saved
    <3> QED BY <1>4, <1>11, <3>1, <3>4 DEF Shown
  <2> QED BY <2>1, <2>2
<1>16. VersionsKnown'
  <2>1. \E l \in 1..incident[m].len : Version(h) = <<m, l>>
    <3>1. h.len \in Nat \ {0} /\ incident[m].len \in Nat
      BY <1>0, <1>19, MembersAreAll DEF IncidentRecord
    <3>2. h.len = incident[m].len \/ h.len < incident[m].len
      BY <1>6 DEF IsSnapshotOf
    <3>3. h.len \in 1..incident[m].len
      BY <3>1, <3>2
    <3> QED BY <1>8, <3>3 DEF Version
  <2>2. \A v \in written' : \E n \in 1..seq : \E l \in 1..incident[n].len : v = <<n, l>>
    BY <1>3, <2>1 DEF Saved, VersionsKnown
  <2> QED BY <1>4, <2>2 DEF VersionsKnown
<1>17. ASSUME NEW n \in 1..seq PROVE StartKept(n)'
  <2>0. StartKept(n)
    BY DEF Saved
  <2>1. CASE n = m
    <3>1. h.started = incident[n].started \/ Late(n)
      BY <1>6, <2>1 DEF IsSnapshotOf
    <3>2. Id(incident[n])' = id /\ Id(incident[n]) = id
      BY <1>4, <1>8, <2>1
    <3> QED BY <1>4, <1>11, <2>0, <3>1, <3>2 DEF StartKept
  <2>2. CASE n # m
    <3>1. Id(incident[n])' = Id(incident[n]) /\ Id(incident[n]) # id
      BY <1>4, <1>9, <2>2
    <3> QED BY <1>4, <1>11, <2>0, <3>1 DEF StartKept
  <2> QED BY <2>1, <2>2
<1>18. ASSUME NEW i \in DOMAIN table', table'[i].insertedBy = life'
       PROVE  \E n \in 1..seq : i = Id(incident[n])'
  <2>1. CASE i = id
    BY <1>4, <1>8, <2>1
  <2>2. CASE i # id
    <3>1. i \in DOMAIN table /\ table[i].insertedBy = life
      BY <1>4, <1>11, <1>18, <2>2
    <3> QED BY <1>4, <3>1 DEF Saved
  <2> QED BY <2>1, <2>2
<1> QED BY <1>4, <1>12, <1>13, <1>15, <1>16, <1>17, <1>18 DEF Saved

\* Nothing is written, and the snapshot is gone.
LEMMA SaveFailsSaved ==
    ASSUME OneLife, TableTypes, Saved, NEW p \in Sources, SaveFails(p)
    PROVE  TableTypes' /\ Saved'
<1>1. PICK h : h = Head(toSave[p])
  OBVIOUS
<1>2. Saving(p) /\ NextSnapshot(p) /\ failed' = failed \cup {Version(h)} /\ UNCHANGED <<table, written>>
  BY <1>1 DEF SaveFails
<1>3. /\ toSave' \in [Sources -> Seq(IncidentRecord)] /\ DOMAIN read' = Sources
      /\ \A q \in Sources : \A i \in 1..Len(toSave[q]) :
             toSave[q][i] = h \/ \E j \in 1..Len(toSave'[q]) : toSave'[q][j] = toSave[q][i]
      /\ \A q \in Sources : \A i \in 1..Len(toSave'[q]) :
             \E n \in 1..seq : IsSnapshotOf(toSave[q][i], n)'
      /\ \A q \in Sources : ReadStands(q)'
      /\ seq' = seq /\ life' = life
      /\ \A n : /\ incident'[n] = incident[n] /\ Of(n)' = Of(n) /\ (Late(n)' <=> Late(n))
                /\ Id(incident[n])' = Id(incident[n])
                /\ Version(incident[n])' = Version(incident[n])
  BY <1>1, <1>2, NextDrops
<1>4. TableTypes'
  BY <1>2, <1>3 DEF TableTypes
<1>5. ASSUME NEW n \in 1..seq PROVE Settled(n)'
  <2>1. CASE Version(incident[n]) \in written \cup failed
    BY <1>2, <1>3, <2>1 DEF Settled
  <2>2. ASSUME NEW q \in Sources, WaitsFor(q, n) PROVE Settled(n)'
    <3>1. PICK i \in 1..Len(toSave[q]) : toSave[q][i] = incident[n]
      BY <2>2 DEF WaitsFor
    <3>2. CASE toSave[q][i] = h
      <4>1. Version(incident[n])' \in failed'
        BY <1>2, <1>3, <3>1, <3>2
      <4> QED BY <4>1 DEF Settled
    <3>3. CASE \E j \in 1..Len(toSave'[q]) : toSave'[q][j] = toSave[q][i]
      <4>1. WaitsFor(q, n)'
        BY <1>3, <3>1, <3>3 DEF WaitsFor
      <4> QED BY <4>1 DEF Settled
    <3> QED BY <1>3, <3>2, <3>3
  <2> QED BY <2>1, <2>2 DEF Saved, Settled
<1>6. ASSUME NEW n \in 1..seq
      PROVE  /\ StartKept(n)'
             /\ Version(incident'[n]) \in written' => Shown(n)'
  <2>1. StartKept(n) /\ (Version(incident[n]) \in written => Shown(n))
    BY DEF Saved
  <2>2. StartKept(n)'
    BY <1>2, <1>3, <2>1 DEF StartKept
  <2>3. Shown(n) => Shown(n)'
    BY <1>2, <1>3 DEF Shown
  <2> QED BY <1>2, <1>3, <2>1, <2>2, <2>3
<1>7. VersionsKnown'
  BY <1>2, <1>3 DEF Saved, VersionsKnown
<1>8. ASSUME NEW i \in DOMAIN table', table'[i].insertedBy = life'
      PROVE  \E n \in 1..seq : i = Id(incident[n])'
  BY <1>2, <1>3, <1>8 DEF Saved
<1> QED BY <1>3, <1>4, <1>5, <1>6, <1>7, <1>8 DEF Saved

\* A step that leaves the correlator, the snapshots and the table alone.
LEMMA SameSaved ==
    ASSUME OneLife, TableTypes, Saved, UNCHANGED <<vars, toSave, table, lifeVars, written, failed>>,
           DOMAIN read' = Sources, \A p \in Sources : ReadStands(p)'
    PROVE  TableTypes' /\ Saved'
<1>1. /\ seq' = seq /\ incident' = incident /\ heap' = heap /\ observed' = observed
      /\ returned' = returned /\ toSave' = toSave /\ table' = table /\ life' = life
      /\ written' = written /\ failed' = failed
  BY DEF vars, lifeVars
<1>2. TableTypes'
  BY <1>1 DEF TableTypes
<1>3. \A n : /\ Settled(n)' <=> Settled(n)
             /\ Shown(n)' <=> Shown(n)
             /\ StartKept(n)' <=> StartKept(n)
             /\ Id(incident[n])' = Id(incident[n])
             /\ Version(incident[n])' = Version(incident[n])
  BY <1>1 DEF Settled, WaitsFor, Shown, StartKept, Late, LateFailure, Of, Id, Version
<1>4. \A n, p, i : IsSnapshotOf(toSave[p][i], n)' <=> IsSnapshotOf(toSave[p][i], n)
  BY <1>1 DEF IsSnapshotOf, Late, LateFailure
<1>5. VersionsKnown'
  BY <1>1 DEF Saved, VersionsKnown
<1>6. \A n \in 1..seq' : Settled(n)' /\ StartKept(n)'
  BY <1>1, <1>3 DEF Saved
<1>7. \A n \in 1..seq' : Version(incident[n])' \in written' => Shown(n)'
  BY <1>1, <1>3 DEF Saved
<1>8. \A p \in Sources : \A i \in 1..Len(toSave'[p]) : \E n \in 1..seq' : IsSnapshotOf(toSave[p][i], n)'
  BY <1>1, <1>4 DEF Saved
<1>9. \A id \in DOMAIN table' : table'[id].insertedBy = life' => \E n \in 1..seq' : id = Id(incident[n])'
  BY <1>1, <1>3 DEF Saved
<1> QED BY <1>2, <1>5, <1>6, <1>7, <1>8, <1>9 DEF Saved

\* What p reads are the members of the first snapshot it has to save.
LEMMA ReadSaved ==
    ASSUME OneLife, TableTypes, Saved, NEW p \in Sources, ReadMembers(p)
    PROVE  TableTypes' /\ Saved'
<1>1. /\ UNCHANGED <<vars, toSave, table, lifeVars, written, failed>>
      /\ toSave[p] # <<>> /\ read' = [read EXCEPT ![p] = Members(Head(toSave[p]))]
  BY DEF ReadMembers, Saving
<1>2. DOMAIN read' = Sources
  BY <1>1 DEF TableTypes
<1>3. \A n : Of(n)' = Of(n) /\ incident'[n] = incident[n]
  BY <1>1 DEF vars, Of
<1>4. seq' = seq /\ toSave' = toSave
  BY <1>1 DEF vars
<1>5. ASSUME NEW q \in Sources PROVE ReadStands(q)'
  <2>1. CASE q # p
    <3>1. read'[q] = read[q] /\ ReadStands(q)
      BY <1>1, <2>1 DEF TableTypes, Saved
    <3> QED BY <1>3, <1>4, <3>1 DEF ReadStands
  <2>2. CASE q = p
    <3>1. read'[p] = Members(Head(toSave[p])) /\ Head(toSave[p]) = toSave[p][1]
      BY <1>1 DEF TableTypes
    <3>2. \A n \in 1..seq : Members(incident[n]) = Of(n)
      BY MembersAreAll DEF OneLife
    <3> QED BY <1>1, <1>3, <1>4, <2>2, <3>1, <3>2 DEF ReadStands
  <2> QED BY <2>1, <2>2
<1> QED BY <1>1, <1>2, <1>5, SameSaved

LEMMA IncidentsSaved ==
    ASSUME OneLife, TableTypes, Saved, [IncidentsNext]_incidentsVars
    PROVE  TableTypes' /\ Saved'
<1>1. ASSUME NEW p \in Sources, SourceStep(p) PROVE TableTypes' /\ Saved'
  <2>1. ASSUME NEW f \in Failures, ObserveOne(p, f) PROVE TableTypes' /\ Saved'
    BY <2>1, ObserveSaved
  <2>2. CASE Unlock(p)
    <3>1. UNCHANGED <<vars, toSave, table, lifeVars, written, failed>> /\ read' = read
      BY <2>2 DEF Unlock
    <3>2. \A n : Of(n)' = Of(n)
      BY <3>1 DEF vars, Of
    <3>3. \A q \in Sources : ReadStands(q)'
      BY <3>1, <3>2 DEF vars, Saved, ReadStands
    <3> QED BY <3>1, <3>3, SameSaved DEF TableTypes
  <2>3. CASE ReadMembers(p)
    BY <2>3, ReadSaved
  <2>4. CASE SaveIncident(p)
    BY <2>4, SaveSaved
  <2>5. CASE SaveFails(p)
    BY <2>5, SaveFailsSaved
  <2> QED BY <1>1, <2>1, <2>2, <2>3, <2>4, <2>5 DEF SourceStep
<1>2. ASSUME Restart PROVE TableTypes' /\ Saved'
  <2>1. /\ toSave' = [q \in Sources |-> <<>>] /\ read' = [q \in Sources |-> <<>>] /\ written' = {}
        /\ seq' = 0 /\ life' = life + 1 /\ table' = table
        /\ life \in Nat \ {0} /\ life' \in Nat \ {0}
    BY <1>2 DEF Restart, TableTypes
  <2>2. /\ toSave' \in [Sources -> Seq(IncidentRecord)] /\ 1..seq' = {} /\ DOMAIN read' = Sources
        /\ \A q \in Sources : 1..Len(toSave'[q]) = {} /\ read'[q] = <<>>
    BY <2>1
  <2>3. \A id \in DOMAIN table : table[id].insertedBy \in 1..life' /\ table[id].insertedBy # life'
    BY <2>1 DEF TableTypes
  <2>4. TableTypes'
    BY <2>1, <2>2, <2>3 DEF TableTypes
  <2>5. Saved'
    BY <2>1, <2>2, <2>3 DEF Saved, ReadStands, VersionsKnown
  <2> QED BY <2>4, <2>5
<1>3. ASSUME UNCHANGED incidentsVars PROVE TableTypes' /\ Saved'
  <2>1. UNCHANGED <<vars, toSave, table, lifeVars, written, failed>> /\ read' = read
    BY <1>3 DEF incidentsVars, saverVars
  <2>2. \A n : Of(n)' = Of(n)
    BY <2>1 DEF vars, Of
  <2>3. \A q \in Sources : ReadStands(q)'
    BY <2>1, <2>2 DEF vars, Saved, ReadStands
  <2> QED BY <2>1, <2>3, SameSaved DEF TableTypes
<1> QED BY <1>1, <1>2, <1>3 DEF IncidentsNext

\* Once everything is saved, the rows are explained.
LEMMA SavedRows == OneLife /\ TableTypes /\ Saved => RowsAreExplained
<1> SUFFICES ASSUME OneLife, TableTypes, Saved, \A p \in Sources : toSave[p] = <<>>,
                    NEW n \in 1..seq, Version(incident[n]) \notin failed
             PROVE  LET inc       == incident[n]
                        row       == table[Id(inc)]
                        upToDate  == row.members = Members(inc) /\ row.ended = inc.ended /\ row.root = inc.root
                        overtaken == Len(row.members) < inc.len
                    IN  /\ Version(inc) \in written
                        /\ upToDate \/ overtaken
                        /\ row.started # inc.started => row.insertedBy < life \/ LateFailure(inc.run)
  BY DEF RowsAreExplained
<1>1. Version(incident[n]) \in written
  <2>1. \A p \in Sources : ~WaitsFor(p, n)
    BY DEF WaitsFor
  <2> QED BY <2>1 DEF Saved, Settled
<1>2. Members(incident[n]) = Of(n)
  BY MembersAreAll DEF OneLife
<1>3. PICK row : row = table[Id(incident[n])]
  OBVIOUS
<1>4. Id(incident[n]) \in DOMAIN table /\ Shown(n)
  BY <1>1 DEF Saved, Shown
<1>5. \/ row.members = Of(n) /\ row.ended = incident[n].ended /\ row.root = incident[n].root
      \/ Len(row.members) < incident[n].len
  BY <1>3, <1>4 DEF Shown
<1>6. row.insertedBy \in 1..life /\ life \in Nat
  BY <1>3, <1>4 DEF TableTypes
<1>7. row.insertedBy = life => row.started = incident[n].started \/ Late(n)
  BY <1>3, <1>4 DEF Saved, StartKept
<1>8. row.started # incident[n].started => row.insertedBy < life \/ Late(n)
  BY <1>6, <1>7
<1> QED BY <1>1, <1>2, <1>3, <1>5, <1>8 DEF Late

\* Once nothing waits to be saved, the row of every incident of this process shows it,
\* unless the write of its last snapshot failed or another goroutine wrote an older
\* one after it, and whatever members a goroutine saw while others were sorted.
THEOREM TableExplained == IncidentsSpec => []RowsAreExplained
<1>1. IncidentsInit => TableTypes /\ Saved
  <2> SUFFICES ASSUME IncidentsInit PROVE TableTypes /\ Saved
    OBVIOUS
  <2>1. /\ toSave = [q \in Sources |-> <<>>] /\ read = [q \in Sources |-> <<>>]
        /\ seq = 0 /\ life = 1 /\ table = <<>> /\ written = {}
    BY DEF IncidentsInit, Init
  <2>2. /\ DOMAIN table = {} /\ toSave \in [Sources -> Seq(IncidentRecord)] /\ 1..seq = {}
        /\ \A q \in Sources : 1..Len(toSave[q]) = {} /\ read[q] = <<>>
        /\ DOMAIN read = Sources
    BY <2>1
  <2> QED BY <2>1, <2>2 DEF TableTypes, Saved, ReadStands, VersionsKnown
<1>2. OneLife /\ TableTypes /\ Saved /\ [IncidentsNext]_incidentsVars => TableTypes' /\ Saved'
  BY IncidentsSaved
<1> QED BY <1>1, <1>2, AlwaysOneLife, SavedRows, PTL DEF IncidentsSpec

=============================================================================
