---------------------------- MODULE ServiceProofs ----------------------------
(***************************************************************************)
(* Proofs about Service, for any streams, any lines, any way they are cut  *)
(* by writes and reads, and any errors, crashes and restarts: the order in *)
(* which run() closes hub and store keeps the events of the files out of a *)
(* closed store, and what a closed store refuses from the dashboards; the  *)
(* readers hand on whole events, once and in order, and return for a       *)
(* stated reason; the table repeats an event only when a file is read      *)
(* again by another process.                                               *)
(***************************************************************************)
EXTENDS Service, SequenceTheorems, FiniteSetTheorems, TLAPS

\* A sequence over some set; what it is a sequence of does not matter here.
IsSequence(q) == \E S : q \in Seq(S)

\* Which functions the variables of a process are.
Shape ==
    /\ state = [s \in Streams |-> state[s]]
    /\ out = [s \in Streams |-> out[s]]
    /\ hand = [s \in Streams |-> hand[s]]
    /\ pushed = [s \in Streams |-> pushed[s]]
    /\ failed = [s \in Streams |-> failed[s]]
    /\ rows = [s \in Streams |-> rows[s]]
    /\ \A s \in Streams : IsSequence(rows[s])

\* run() has waited for the tails when it closes the store, and has closed the hub.
ClosedInOrder ==
    /\ phase = "closed" => WaitGroupDone
    /\ phase \in {"waiting", "closed"} => ~hubOpen

\* What is about to be pushed to an open hub has been stored, or the store failed.
StoredInHand ==
    \A s \in Streams : Up /\ hubOpen /\ hand[s] = "push"
                           => Last(out[s]) \in StoredIn(s, life) \cup failed[s]

ClosingInv == Shape /\ ClosedInOrder /\ StoredInHand /\ ClosingOrder

-----------------------------------------------------------------------------

\* Appending to a sequence keeps what it held and adds the element.
LEMMA AppendIsSequence ==
    ASSUME NEW q, IsSequence(q), NEW x
    PROVE  /\ IsSequence(Append(q, x))
           /\ Len(q) \in Nat
           /\ DOMAIN q = 1..Len(q)
           /\ DOMAIN Append(q, x) = 1..(Len(q) + 1)
           /\ \A i \in 1..Len(q) : Append(q, x)[i] = q[i]
           /\ Append(q, x)[Len(q) + 1] = x
<1>1. PICK S : q \in Seq(S) BY DEF IsSequence
<1>2. q \in Seq(S \cup {x}) /\ x \in S \cup {x} BY <1>1
<1>3. Append(q, x) \in Seq(S \cup {x}) BY <1>2
<1>4. IsSequence(Append(q, x)) BY <1>3 DEF IsSequence
<1>5. QED BY <1>2, <1>4

\* A first process has stored, pushed and refused nothing.
LEMMA InitClosing == ServiceInit => ClosingInv
<1> SUFFICES ASSUME ServiceInit PROVE ClosingInv OBVIOUS
<1>1. IsSequence(<<>>)
  <2>1. <<>> \in Seq({}) OBVIOUS
  <2>2. QED BY <2>1 DEF IsSequence
<1>2. QED
  BY <1>1 DEF ServiceInit, Init, ClosingInv, Shape, ClosedInOrder, StoredInHand,
      ClosingOrder, StoreOutlivesTail, PushedIsStored, Up, Streams

-----------------------------------------------------------------------------

\* A step of a reader concerns its own stream; a tail that has returned takes none.
LEMMA ReadConcerns ==
    ASSUME Shape, NEW s \in Streams, Read(s)
    PROVE  /\ state' = [t \in Streams |-> state'[t]]
           /\ out' = [t \in Streams |-> out'[t]]
           /\ \A t \in Streams \ {s} : state'[t] = state[t] /\ out'[t] = out[t]
           /\ s \in Files => state[s] \notin Returned
<1>1. CASE s \in Files
  <2>1. ReadLine(s) \/ ReachEOF(s) \/ ReadFails(s) \/ Tick(s) \/ StopTail(s)
    BY <1>1 DEF Read, TailStep
  <2>2. CASE ReadLine(s) BY <2>2 DEF ReadLine, Emit, Shape, Returned
  <2>3. CASE ReachEOF(s) BY <2>3 DEF ReachEOF, EndDrain, Emit, Shape, Returned
  <2>4. CASE Tick(s) BY <2>4 DEF Tick, Shape, Returned
  <2>5. CASE StopTail(s) BY <2>5 DEF StopTail, Shape, Returned
  <2>6. CASE ReadFails(s)
    <3>1. PICK n \in 0..Len(Token(s)) : EndDrain(s, SubSeq(Token(s), 1, n), "failed")
      BY <2>6 DEF ReadFails
    <3>2. PICK t : t = SubSeq(Token(s), 1, n)
      OBVIOUS
    <3>3. state[s] = "reading" /\ EndDrain(s, t, "failed")
      BY <2>6, <3>1, <3>2 DEF ReadFails
    <3>4. QED BY <3>3 DEF EndDrain, Emit, Shape, Returned
  <2>7. QED BY <2>1, <2>2, <2>3, <2>4, <2>5, <2>6
<1>2. CASE s \notin Files
  <2>1. Accept(s) \/ Scan(s) \/ ScanEnds(s)
    BY <1>2 DEF Read, Handler
  <2>2. CASE Accept(s) BY <1>2, <2>2 DEF Accept, Shape
  <2>3. CASE Scan(s) BY <1>2, <2>3 DEF Scan, Return, Emit, Shape
  <2>4. CASE ScanEnds(s) BY <1>2, <2>4 DEF ScanEnds, Return, Shape
  <2>5. QED BY <2>1, <2>2, <2>3, <2>4
<1>3. QED BY <1>1, <1>2

\* A reader that takes a line has still to store it.
LEMMA ReadClosing == ASSUME ClosingInv, NEW s \in Streams, Read(s) PROVE ClosingInv'
<1> USE DEF ClosingInv
<1> DEFINE h == IF out' = out THEN "none" ELSE "record"
<1>1. /\ state' = [t \in Streams |-> state'[t]]
      /\ out' = [t \in Streams |-> out'[t]]
      /\ \A t \in Streams \ {s} : state'[t] = state[t] /\ out'[t] = out[t]
      /\ s \in Files => state[s] \notin Returned
  BY ReadConcerns
<1>2. /\ hand' = [hand EXCEPT ![s] = h]
      /\ UNCHANGED <<phase, hubOpen, rows, pushed, failed, refused, life>>
  BY DEF Read
<1>3. /\ hand' = [t \in Streams |-> hand'[t]]
      /\ hand'[s] = h
      /\ \A t \in Streams \ {s} : hand'[t] = hand[t]
  BY <1>2 DEF Shape
<1>4. Shape' BY <1>1, <1>2, <1>3 DEF Shape
<1>6. ClosedInOrder' BY <1>1, <1>2, <1>3 DEF ClosedInOrder, WaitGroupDone, Streams
<1>7. StoredInHand'
  BY <1>1, <1>2, <1>3 DEF StoredInHand, StoredIn, Up
<1>8. ClosingOrder'
  BY <1>2 DEF ClosingOrder, StoreOutlivesTail, PushedIsStored, StoredIn
<1>9. QED BY <1>4, <1>6, <1>7, <1>8

\* A stored row is added to those of the present life, and takes none away.
LEMMA RowIsStored ==
    ASSUME Shape, NEW s \in Streams, rows' = [rows EXCEPT ![s] = WithRow(s)], life' = life
    PROVE  /\ rows' = [t \in Streams |-> rows'[t]]
           /\ \A t \in Streams : IsSequence(rows'[t])
           /\ \A t \in Streams : StoredIn(t, life) \subseteq StoredIn(t, life)'
           /\ Last(out[s]) \in StoredIn(s, life)'
<1> DEFINE row == [line |-> Last(out[s]), life |-> life]
           n   == Len(rows[s])
<1>1. /\ IsSequence(Append(rows[s], row))
      /\ n \in Nat
      /\ DOMAIN rows[s] = 1..n
      /\ DOMAIN Append(rows[s], row) = 1..(n + 1)
      /\ \A i \in 1..n : Append(rows[s], row)[i] = rows[s][i]
      /\ Append(rows[s], row)[n + 1] = row
  <2> HIDE DEF row
  <2>1. IsSequence(rows[s]) BY DEF Shape
  <2>2. QED BY <2>1, AppendIsSequence
<1>2. /\ rows' = [t \in Streams |-> rows'[t]]
      /\ rows'[s] = Append(rows[s], row)
      /\ \A t \in Streams \ {s} : rows'[t] = rows[t]
  BY DEF Shape, WithRow
<1>3. row.line = Last(out[s]) /\ row.life = life OBVIOUS
<1> HIDE DEF row, n
<1>4. \A t \in Streams : IsSequence(rows'[t]) BY <1>1, <1>2 DEF Shape
<1>5. \A i \in 1..n : i \in 1..(n + 1) BY <1>1
<1>6. StoredIn(s, life) \subseteq StoredIn(s, life)'
  BY <1>1, <1>2, <1>5 DEF StoredIn
<1>7. Last(out[s]) \in StoredIn(s, life)'
  <2>1. n + 1 \in 1..(n + 1) BY <1>1
  <2>2. QED BY <1>1, <1>2, <1>3, <2>1 DEF StoredIn
<1>8. \A t \in Streams \ {s} : StoredIn(t, life)' = StoredIn(t, life)
  BY <1>2 DEF StoredIn
<1>9. QED BY <1>2, <1>4, <1>6, <1>7, <1>8

\* Only a handler can meet the closed store: run() has waited for the tails.
LEMMA RecordClosing == ASSUME ClosingInv, NEW s \in Streams, Record(s) PROVE ClosingInv'
<1> USE DEF ClosingInv
<1>1. /\ hand[s] = "record"
      /\ hand' = [t \in Streams |-> hand'[t]]
      /\ \A t \in Streams \ {s} : hand'[t] = hand[t]
      /\ UNCHANGED <<state, out, phase, hubOpen, pushed, life>>
  BY DEF Record, Shape, vars
<1>3. ClosedInOrder' BY <1>1 DEF ClosedInOrder, WaitGroupDone, Streams
<1>4. CASE phase = "closed"
  <2>1. refused' = refused \cup {s} /\ rows' = rows /\ failed' = failed BY <1>4 DEF Record
  <2>2. s \notin Files BY <1>1, <1>4 DEF ClosedInOrder, WaitGroupDone
  <2>3. Shape' BY <1>1, <2>1 DEF Shape
  <2>4. StoredInHand' BY <1>1, <1>4 DEF StoredInHand, ClosedInOrder
  <2>5. ClosingOrder'
    BY <1>1, <2>1, <2>2 DEF ClosingOrder, StoreOutlivesTail, PushedIsStored, StoredIn
  <2>6. QED BY <1>3, <2>3, <2>4, <2>5
<1>5. CASE failed' = [failed EXCEPT ![s] = @ \cup {Last(out[s])}] /\ rows' = rows /\ refused' = refused
  <2>1. /\ failed' = [t \in Streams |-> failed'[t]]
        /\ \A t \in Streams : failed[t] \subseteq failed'[t]
        /\ Last(out[s]) \in failed'[s]
    BY <1>5 DEF Shape
  <2>2. Shape' BY <1>1, <1>5, <2>1 DEF Shape
  <2>3. \A t \in Streams : StoredIn(t, life)' = StoredIn(t, life) BY <1>1, <1>5 DEF StoredIn
  <2>4. StoredInHand' BY <1>1, <2>1, <2>3 DEF StoredInHand, Up
  <2>5. ClosingOrder'
    BY <1>1, <1>5, <2>1, <2>3 DEF ClosingOrder, StoreOutlivesTail, PushedIsStored
  <2>6. QED BY <1>3, <2>2, <2>4, <2>5
<1>6. CASE rows' = [rows EXCEPT ![s] = WithRow(s)] /\ failed' = failed /\ refused' = refused
  <2>1. rows' = [rows EXCEPT ![s] = WithRow(s)] /\ refused' = refused BY <1>6
  <2>2. /\ rows' = [t \in Streams |-> rows'[t]]
        /\ \A t \in Streams : IsSequence(rows'[t])
        /\ \A t \in Streams : StoredIn(t, life) \subseteq StoredIn(t, life)'
        /\ Last(out[s]) \in StoredIn(s, life)'
    BY <1>1, <2>1, RowIsStored
  <2>3. Shape' BY <1>1, <1>6, <2>2 DEF Shape
  <2>4. StoredInHand'
    <3> SUFFICES ASSUME NEW t \in Streams, Up', hubOpen', hand'[t] = "push"
                 PROVE  Last(out'[t]) \in StoredIn(t, life)' \cup failed[t]
      BY <1>6 DEF StoredInHand
    <3>1. CASE t = s BY <1>1, <2>2, <3>1
    <3>2. CASE t # s
      <4>1. Last(out[t]) \in StoredIn(t, life) \cup failed[t] BY <1>1, <3>2 DEF StoredInHand, Up
      <4>2. QED BY <1>1, <2>2, <4>1
    <3>3. QED BY <3>1, <3>2
  <2>5. ClosingOrder'
    BY <1>1, <1>6, <2>1, <2>2 DEF ClosingOrder, StoreOutlivesTail, PushedIsStored
  <2>6. QED BY <1>3, <2>3, <2>4, <2>5
<1>7. QED BY <1>4, <1>5, <1>6 DEF Record

\* A line is shown after the store has taken it or failed to.
LEMMA PushClosing == ASSUME ClosingInv, NEW s \in Streams, Push(s) PROVE ClosingInv'
<1> USE DEF ClosingInv
<1>1. /\ Up /\ hand[s] = "push"
      /\ hand' = [t \in Streams |-> hand'[t]]
      /\ hand'[s] = "none"
      /\ \A t \in Streams \ {s} : hand'[t] = hand[t]
      /\ pushed' = IF hubOpen THEN [pushed EXCEPT ![s] = @ \cup {Last(out[s])}] ELSE pushed
      /\ UNCHANGED <<state, out, phase, hubOpen, rows, failed, refused, life>>
  BY DEF Push, Shape, vars
<1>2. pushed' = [t \in Streams |-> pushed'[t]] BY <1>1 DEF Shape
<1>3. Shape' BY <1>1, <1>2 DEF Shape
<1>5. ClosedInOrder' BY <1>1 DEF ClosedInOrder, WaitGroupDone, Streams
<1>6. StoredInHand' BY <1>1 DEF StoredInHand, StoredIn, Up
<1>7. ClosingOrder'
  <2>1. \A t \in Streams : StoredIn(t, life)' = StoredIn(t, life) BY <1>1 DEF StoredIn
  <2>2. hubOpen => Last(out[s]) \in StoredIn(s, life) \cup failed[s] BY <1>1 DEF StoredInHand
  <2>3. \A t \in Streams : pushed'[t] \subseteq StoredIn(t, life) \cup failed[t]
    <3> HIDE DEF Up
    <3>1. CASE hubOpen
      <4>1. pushed'[s] = pushed[s] \cup {Last(out[s])} BY <1>1, <3>1 DEF Shape
      <4>2. \A t \in Streams \ {s} : pushed'[t] = pushed[t] BY <1>1, <3>1 DEF Shape
      <4>3. QED BY <2>2, <3>1, <4>1, <4>2 DEF ClosingOrder, PushedIsStored
    <3>2. CASE ~hubOpen BY <1>1, <3>2 DEF ClosingOrder, PushedIsStored
    <3>3. QED BY <3>1, <3>2
  <2>4. QED BY <1>1, <2>1, <2>3 DEF ClosingOrder, StoreOutlivesTail, PushedIsStored
<1>8. QED BY <1>3, <1>5, <1>6, <1>7

-----------------------------------------------------------------------------

\* Steps of the stations and of the context concern none of these variables.
LEMMA OutsideClosing ==
    ASSUME ClosingInv, UNCHANGED <<state, out, phase, hubOpen, hand, rows, pushed, failed, refused, life>>
    PROVE  ClosingInv'
<1>1. Shape' BY DEF ClosingInv, Shape
<1>3. ClosedInOrder' BY DEF ClosingInv, ClosedInOrder, WaitGroupDone
<1>4. \A s \in Streams : StoredIn(s, life)' = StoredIn(s, life) BY DEF StoredIn
<1>5. StoredInHand' BY <1>4 DEF ClosingInv, StoredInHand, Up
<1>6. ClosingOrder' BY <1>4 DEF ClosingInv, ClosingOrder, StoreOutlivesTail, PushedIsStored
<1>7. QED BY <1>1, <1>3, <1>5, <1>6 DEF ClosingInv

\* run() closes the hub, waits for the tails and closes the store; a process ends.
LEMMA MainClosing == ASSUME ClosingInv, Main \/ Crash PROVE ClosingInv'
<1> USE DEF ClosingInv
<1>1. UNCHANGED <<state, out, hand, rows, pushed, failed, refused, life>>
  BY DEF Main, CloseHub, CloseStore, Exit, Crash, vars
<1>2. Shape' BY <1>1 DEF Shape
<1>4. ClosingOrder'
  BY <1>1 DEF ClosingOrder, StoreOutlivesTail, PushedIsStored, StoredIn
<1>5. ClosedInOrder'
  BY <1>1 DEF ClosedInOrder, Main, CloseHub, CloseStore, WaitGroupDone, Exit, Crash
<1>6. StoredInHand'
  BY <1>1 DEF StoredInHand, StoredIn, Up, Main, CloseHub, CloseStore, Exit, Crash
<1>7. QED BY <1>2, <1>4, <1>5, <1>6

\* A new process has pushed nothing yet; the rows and the refusals stay.
LEMMA StartClosing == ASSUME ClosingInv, Start PROVE ClosingInv'
<1> USE DEF ClosingInv
<1>1. /\ phase' = "serving"
      /\ hand' = [s \in Streams |-> "none"]
      /\ pushed' = [s \in Streams |-> {}]
      /\ state' = [s \in Streams |-> state'[s]]
      /\ out' = [s \in Streams |-> out'[s]]
      /\ failed' = [s \in Streams |-> failed'[s]]
      /\ UNCHANGED <<rows, refused>>
  BY DEF Start
<1>2. Shape' BY <1>1 DEF Shape
<1>4. ClosedInOrder' BY <1>1 DEF ClosedInOrder
<1>5. StoredInHand' BY <1>1 DEF StoredInHand
<1>6. ClosingOrder' BY <1>1 DEF ClosingOrder, StoreOutlivesTail, PushedIsStored
<1>7. QED BY <1>2, <1>4, <1>5, <1>6

\* Every step of the process, of its goroutines and of its surroundings.
LEMMA NextClosing == ASSUME ClosingInv, [ServiceNext]_serviceVars PROVE ClosingInv'
<1>1. CASE \E s \in Streams : Station(s) /\ UNCHANGED processVars
  <2>1. UNCHANGED <<state, out, processVars>>
    BY <1>1 DEF Station, StartLine, ContinueLine, EndConnection, Flood
  <2>2. QED BY <2>1, OutsideClosing DEF processVars
<1>2. CASE \E s \in Streams : Goroutine(s)
  BY <1>2, ReadClosing, RecordClosing, PushClosing DEF Goroutine
<1>3. CASE Signal
  BY <1>3, OutsideClosing DEF Signal, Cancel, processVars
<1>4. CASE Main \/ Crash BY <1>4, MainClosing
<1>5. CASE Start BY <1>5, StartClosing
<1>6. CASE UNCHANGED serviceVars
  BY <1>6, OutsideClosing DEF serviceVars, vars, processVars
<1>7. QED BY <1>1, <1>2, <1>3, <1>4, <1>5, <1>6 DEF ServiceNext

\* run() closes hub and store in an order (main.go:99-137) that keeps every event of a
\* file out of a closed store and shows no event that a closed store refused: what is
\* shown is stored, or the store failed while it was open.  Whatever the streams, and
\* wherever files cannot be read and the process crashes, stops and starts again.
THEOREM ClosingCorrect == ServiceSpec => []ClosingOrder
<1>1. ClosingInv => ClosingOrder BY DEF ClosingInv
<1>2. QED BY InitClosing, NextClosing, <1>1, PTL DEF ServiceSpec

-----------------------------------------------------------------------------
(* The lines of a stream *)

\* How many pieces of a line are missing behind this one.
Left(part) == CASE part = "head" -> 2 [] part = "rest" -> 1 [] OTHER -> 0

\* The pieces of a stream are those of its lines, three to a line and in order; only
\* the last line may be incomplete.
Layout(s) ==
    /\ \A i \in 1..Len(written[s]) :
           /\ written[s][i].line \in 1..Len(kind[s])
           /\ i = 3 * written[s][i].line - Left(written[s][i].part)
    /\ Len(written[s]) = 3 * Len(kind[s]) - Left(LastPart(s))
    /\ Len(kind[s]) <= MaxLines

\* What was emitted has been passed: head and rest of the line.
Passed(s) == \A n \in Range(out[s]) : n \in 1..Len(kind[s]) /\ 3 * n - 1 <= pos[s]

\* An event whose head was passed was emitted or is among the lines that were cut,
\* or its connection has ended before the line has.
Explained(s) ==
    \A n \in 1..Len(kind[s]) : IsEvent(s, n) /\ 3 * n - 2 <= pos[s] =>
        \/ n \in Range(out[s]) \cup cut[s]
        \/ s \in ended /\ Len(written[s]) < 3 * n

\* The rows of this process, and of a connection all rows, are of lines it emitted, but
\* not of the one it is about to record; no row is from a later life than the next.
RowsFromOut(s) ==
    /\ \A i \in DOMAIN rows[s] : s \in Conns \/ rows[s][i].life = life =>
           /\ rows[s][i].line \in Range(out[s])
           /\ hand[s] = "record" => rows[s][i].line # Last(out[s])
    /\ \A i, j \in DOMAIN rows[s] : i < j => rows[s][i].life <= rows[s][j].life

IngestInv ==
    /\ TypeOK /\ pos \in [Streams -> Nat] /\ InOrderOnce
    /\ \A s \in Streams : Layout(s) /\ Passed(s) /\ Explained(s)

LinesInv ==
    /\ ServiceTypeOK /\ IngestInv /\ DuplicatesAreRestarts
    /\ \A s \in Streams : RowsFromOut(s)

Pieces == [line : 1..MaxLines, part : {"head", "rest", "end"}]

\* What a reader finds: the pieces up to the next newline, all of one line.
LEMMA TokenProperties ==
    ASSUME TypeOK, NEW s \in Streams, Layout(s)
    PROVE  \E n \in Nat \ {0}, a \in 0..2 :
               /\ pos[s] = 3 * (n - 1) + a
               /\ HasNewline(s) <=> 3 * n <= Len(written[s])
               /\ Len(Token(s)) = IF HasNewline(s) THEN 2 - a ELSE Len(written[s]) - pos[s]
               /\ Len(Token(s)) \in 0..(2 - a) /\ DOMAIN Token(s) = 1..Len(Token(s))
               /\ \A i \in 1..Len(Token(s)) :
                      /\ Token(s)[i].line = n
                      /\ Token(s)[i].part = IF i + a = 1 THEN "head" ELSE "rest"
<1>1. PICK w : w = written[s]
  OBVIOUS
<1>2. PICK p : p = pos[s]
  OBVIOUS
<1>3. /\ w \in Seq(Pieces) /\ Len(w) \in Nat /\ p \in 0..Len(w)
      /\ \A i \in 1..Len(w) : w[i] \in Pieces /\ i = 3 * w[i].line - Left(w[i].part)
  <2>1. w \in Seq(Pieces) /\ p \in 0..Len(w)
    BY <1>1, <1>2 DEF TypeOK, Pieces
  <2> QED BY <1>1, <2>1, LenProperties, ElementOfSeq DEF Layout
<1>4. ASSUME NEW i \in 1..Len(w)
      PROVE  /\ w[i].line \in Nat /\ w[i].part \in {"head", "rest", "end"}
             /\ w[i].part = "head" => i = 3 * w[i].line - 2
             /\ w[i].part = "rest" => i = 3 * w[i].line - 1
             /\ w[i].part = "end" => i = 3 * w[i].line
  BY <1>3 DEF Pieces, Left
<1>5. PICK n \in Nat \ {0}, a \in 0..2 : p = 3 * (n - 1) + a
  <2>1. p \in Nat /\ p = 3 * (p \div 3) + (p % 3) /\ p % 3 \in 0..2 /\ p \div 3 \in Nat
    BY <1>3
  <2>2. p = 3 * (((p \div 3) + 1) - 1) + (p % 3) /\ (p \div 3) + 1 \in Nat \ {0}
    BY <2>1
  <2> QED BY <2>1, <2>2
<1>6. ASSUME NEW i \in (p + 1)..Len(w), i <= 3 * n
      PROVE  /\ w[i].line = n
             /\ w[i].part = IF i = 3 * n - 2 THEN "head" ELSE IF i = 3 * n - 1 THEN "rest" ELSE "end"
  <2>1. i \in 1..Len(w)
    BY <1>3
  <2>2. /\ w[i].line \in Nat /\ w[i].part \in {"head", "rest", "end"}
        /\ w[i].part = "head" => i = 3 * w[i].line - 2
        /\ w[i].part = "rest" => i = 3 * w[i].line - 1
        /\ w[i].part = "end" => i = 3 * w[i].line
    BY <1>4, <2>1
  <2>3. PICK l \in Nat : l = w[i].line
    BY <2>2
  <2>4. PICK x \in {"head", "rest", "end"} : x = w[i].part
    BY <2>2
  <2>5. i \in Nat /\ 3 * (n - 1) + a < i /\ i <= 3 * n
    BY <1>3, <1>5, <1>6
  <2>6. (x = "head" => i = 3 * l - 2) /\ (x = "rest" => i = 3 * l - 1) /\ (x = "end" => i = 3 * l)
    BY <2>2, <2>3, <2>4
  <2>7. l = n /\ x = IF i = 3 * n - 2 THEN "head" ELSE IF i = 3 * n - 1 THEN "rest" ELSE "end"
    BY <2>5, <2>6
  <2> QED BY <2>3, <2>4, <2>7
<1>7. PICK q : q = Rest(s)
  OBVIOUS
<1>8. q \in Seq(Pieces) /\ Len(q) = Len(w) - p /\ \A i \in 1..(Len(w) - p) : q[i] = w[p + i]
  <2>1. q = SubSeq(w, p + 1, Len(w))
    BY <1>1, <1>2, <1>7 DEF Rest
  <2>2. p + 1 \in Int /\ Len(w) \in Int /\ \A i \in (p + 1)..Len(w) : w[i] \in Pieces
    BY <1>3
  <2>3. /\ q \in Seq(Pieces) /\ Len(q) = IF p + 1 <= Len(w) THEN Len(w) - (p + 1) + 1 ELSE 0
        /\ \A i \in 1..(Len(w) - (p + 1) + 1) : q[i] = w[(p + 1) + i - 1]
    BY <2>1, <2>2, SubSeqProperties
  <2>4. Len(w) - (p + 1) + 1 = Len(w) - p /\ Len(q) = Len(w) - p
    BY <1>3, <2>3
  <2>5. ASSUME NEW i \in 1..(Len(w) - p) PROVE q[i] = w[p + i]
    <3>1. (p + 1) + i - 1 = p + i
      BY <1>3
    <3> QED BY <2>3, <2>4, <3>1
  <2> QED BY <2>3, <2>4, <2>5
<1>9. DOMAIN q = 1..(Len(w) - p)
  BY <1>8, LenProperties
<1>10. ASSUME NEW i \in 1..(Len(w) - p), i <= 3 - a
       PROVE  /\ q[i].line = n
              /\ q[i].part = IF i + a = 1 THEN "head" ELSE IF i + a = 2 THEN "rest" ELSE "end"
  <2>1. /\ p + i \in (p + 1)..Len(w) /\ p + i <= 3 * n
        /\ (p + i = 3 * n - 2 <=> i + a = 1) /\ (p + i = 3 * n - 1 <=> i + a = 2)
    BY <1>3, <1>5, <1>10
  <2>2. q[i] = w[p + i]
    BY <1>8
  <2> QED BY <1>6, <2>1, <2>2
<1>11. PICK ends : ends = {i \in DOMAIN q : q[i].part = "end"}
  OBVIOUS
<1>12. ends \subseteq 1..(Len(w) - p) /\ \A i \in 1..(Len(w) - p) : i \in ends <=> q[i].part = "end"
  BY <1>9, <1>11
<1>13. \A i \in ends : 3 - a <= i
  <2>1. ASSUME NEW i \in ends, i < 3 - a PROVE FALSE
    <3>1. i \in 1..(Len(w) - p) /\ i <= 3 - a /\ i + a < 3 /\ q[i].part = "end"
      BY <1>3, <1>12, <2>1
    <3>2. q[i].part \in {"head", "rest"}
      BY <1>10, <3>1
    <3> QED BY <3>1, <3>2
  <2> QED BY <1>3, <1>12, <2>1
<1>14. HasNewline(s) <=> ends # {}
  BY <1>7, <1>11 DEF HasNewline
<1>15. Token(s) = IF ends = {} THEN q
                  ELSE SubSeq(q, 1, (CHOOSE i \in ends : \A j \in ends : i <= j) - 1)
  BY <1>7, <1>11 DEF Token
<1>16. CASE 3 * n <= Len(w)
  <2>1. 3 - a \in 1..(Len(w) - p) /\ (3 - a) + a = 3
    BY <1>3, <1>5, <1>16
  <2>2. 3 - a \in ends
    BY <1>10, <1>12, <2>1
  <2>3. (CHOOSE i \in ends : \A j \in ends : i <= j) = 3 - a
    <3>1. \A i \in ends : (\A j \in ends : i <= j) => i = 3 - a
      BY <1>3, <1>12, <1>13, <2>2
    <3> QED BY <1>13, <2>2, <3>1
  <2>4. Token(s) = SubSeq(q, 1, 2 - a)
    <3>1. (3 - a) - 1 = 2 - a
      OBVIOUS
    <3> QED BY <1>15, <2>2, <2>3, <3>1
  <2>5. /\ Len(Token(s)) = 2 - a /\ DOMAIN Token(s) = 1..(2 - a)
        /\ \A i \in 1..(2 - a) : Token(s)[i] = q[i]
    <3>1. 1 \in Int /\ 2 - a \in Int /\ \A i \in 1..(2 - a) : q[i] \in Pieces
      <4>1. \A i \in 1..(2 - a) : i \in 1..Len(q)
        BY <1>8, <2>1
      <4> QED BY <1>8, <4>1, ElementOfSeq
    <3>2. PICK t : t = SubSeq(q, 1, 2 - a)
      OBVIOUS
    <3>3. /\ t \in Seq(Pieces) /\ Len(t) = IF 1 <= 2 - a THEN 2 - a - 1 + 1 ELSE 0
          /\ \A i \in 1..(2 - a - 1 + 1) : t[i] = q[1 + i - 1]
      BY <3>1, <3>2, SubSeqProperties
    <3>4. Len(t) = 2 - a /\ 2 - a - 1 + 1 = 2 - a /\ \A i \in 1..(2 - a) : 1 + i - 1 = i
      BY <3>3
    <3> QED BY <2>4, <3>2, <3>3, <3>4, LenProperties
  <2>6. \A i \in 1..(2 - a) : Token(s)[i].line = n /\ Token(s)[i].part = IF i + a = 1 THEN "head" ELSE "rest"
    <3>1. ASSUME NEW i \in 1..(2 - a)
          PROVE  Token(s)[i].line = n /\ Token(s)[i].part = IF i + a = 1 THEN "head" ELSE "rest"
      <4>1. i \in 1..(Len(w) - p) /\ i <= 3 - a /\ (i + a = 1 \/ i + a = 2)
        BY <1>3, <2>1
      <4> QED BY <1>10, <2>5, <4>1
    <3> QED BY <3>1
  <2>7. HasNewline(s) /\ 2 - a \in 0..(2 - a)
    BY <1>14, <2>2
  <2> QED BY <1>1, <1>2, <1>5, <1>16, <2>5, <2>6, <2>7
<1>17. CASE ~(3 * n <= Len(w))
  <2>1. Len(w) - p \in 0..(2 - a)
    BY <1>3, <1>5, <1>17
  <2>2. ends = {}
    <3>1. ASSUME NEW i \in ends PROVE FALSE
      BY <1>12, <1>13, <2>1
    <3> QED BY <3>1
  <2>3. Token(s) = q /\ ~HasNewline(s)
    BY <1>14, <1>15, <2>2
  <2>4. \A i \in 1..(Len(w) - p) : q[i].line = n /\ q[i].part = IF i + a = 1 THEN "head" ELSE "rest"
    <3>1. ASSUME NEW i \in 1..(Len(w) - p)
          PROVE  q[i].line = n /\ q[i].part = IF i + a = 1 THEN "head" ELSE "rest"
      <4>1. i <= 3 - a /\ (i + a = 1 \/ i + a = 2)
        BY <2>1
      <4> QED BY <1>10, <4>1
    <3> QED BY <3>1
  <2>5. /\ Token(s) = q /\ Len(q) = Len(w) - p /\ Len(w) - p \in 0..(2 - a)
        /\ \A i \in 1..(Len(w) - p) :
               Token(s)[i].line = n /\ Token(s)[i].part = IF i + a = 1 THEN "head" ELSE "rest"
    BY <1>1, <1>2, <1>5, <1>8, <1>9, <2>1, <2>3, <2>4
  <2>6. /\ pos[s] = 3 * (n - 1) + a
        /\ HasNewline(s) <=> 3 * n <= Len(written[s])
        /\ Len(Token(s)) = Len(written[s]) - pos[s]
    BY <1>1, <1>2, <1>5, <1>17, <2>3, <2>5
  <2>7. DOMAIN Token(s) = 1..Len(Token(s)) /\ Len(Token(s)) \in 0..(2 - a)
    BY <1>9, <2>5
  <2>8. \A i \in 1..Len(Token(s)) :
            Token(s)[i].line = n /\ Token(s)[i].part = IF i + a = 1 THEN "head" ELSE "rest"
    BY <2>5
  <2>9. n \in Nat \ {0} /\ a \in 0..2
    OBVIOUS
  <2> QED BY ONLY <2>3, <2>6, <2>7, <2>8, <2>9
<1> QED BY <1>16, <1>17

\* A reader takes the token it finds.  It emits the event, or leaves what is none, or
\* cuts its lines: a handler does that when the context is cancelled, a drain when what
\* it has so far is no event; a handler meets the half of a line only in an ended stream.
Takes(s) ==
    /\ pos' = [pos EXCEPT ![s] = @ + Len(Token(s)) + (IF HasNewline(s) THEN 1 ELSE 0)]
    /\ \/ Accepted(s, Token(s)) /\ out' = [out EXCEPT ![s] = Append(@, Token(s)[1].line)] /\ cut' = cut
       \/ ~Accepted(s, Token(s)) /\ out' = out /\ cut' = cut /\ (HasNewline(s) \/ s \in ended)
       \/ out' = out /\ cut' = [cut EXCEPT ![s] = @ \cup LinesOf(Token(s))]
    /\ UNCHANGED <<kind, written, ended, flooded>>

\* A read that fails takes what there is before the error.
BreaksOff(s) ==
    \E k \in 0..Len(Token(s)) :
        /\ pos' = [pos EXCEPT ![s] = @ + k]
        /\ \/ /\ Accepted(s, SubSeq(Token(s), 1, k))
              /\ out' = [out EXCEPT ![s] = Append(@, SubSeq(Token(s), 1, k)[1].line)]
              /\ cut' = cut
           \/ out' = out /\ cut' = [cut EXCEPT ![s] = @ \cup LinesOf(SubSeq(Token(s), 1, k))]
        /\ UNCHANGED <<kind, written, ended, flooded>>

\* Every step of a reader takes a token, or what it gets of it, or leaves the stream alone.
LEMMA ReadsTake ==
    ASSUME TypeOK, pos \in [Streams -> Nat], NEW s \in Streams, Layout(s),
           IF s \in Files THEN TailStep(s) ELSE Handler(s)
    PROVE  /\ Takes(s) \/ BreaksOff(s) \/ UNCHANGED <<kind, written, ended, flooded, pos, out, cut>>
           /\ state' \in [Streams -> {"dialing", "reading", "waiting"} \cup Returned]
           /\ done' = done
<1>0. state \in [Streams -> {"dialing", "reading", "waiting"} \cup Returned] /\ TypeOK
  BY DEF TypeOK
<1>1. pos[s] \in Nat /\ Len(Token(s)) \in Nat
  <2>1. Len(Token(s)) \in Nat
    BY <1>0, TokenProperties
  <2> QED BY <2>1
<1>2. CASE s \in Files
  <2>1. CASE ReadLine(s)
    <3>1. /\ HasNewline(s) /\ pos' = [pos EXCEPT ![s] = @ + (Len(Token(s)) + 1)]
          /\ out' = IF Accepted(s, Token(s)) THEN [out EXCEPT ![s] = Append(@, Token(s)[1].line)] ELSE out
          /\ UNCHANGED <<kind, written, ended, flooded, state, done, cut>>
      BY <2>1 DEF ReadLine, Emit, Consume
    <3>2. pos[s] + (Len(Token(s)) + 1) = pos[s] + Len(Token(s)) + (IF HasNewline(s) THEN 1 ELSE 0)
      BY <1>1, <3>1
    <3>3. pos' = [pos EXCEPT ![s] = @ + Len(Token(s)) + (IF HasNewline(s) THEN 1 ELSE 0)]
      BY <3>1, <3>2
    <3> QED BY <1>0, <3>1, <3>3 DEF Takes
  <2>2. CASE ReachEOF(s)
    <3>1. /\ ~HasNewline(s) /\ pos' = [pos EXCEPT ![s] = @ + Len(Token(s))]
          /\ out' = IF Accepted(s, Token(s)) THEN [out EXCEPT ![s] = Append(@, Token(s)[1].line)] ELSE out
          /\ cut' = IF Accepted(s, Token(s)) THEN cut ELSE [cut EXCEPT ![s] = @ \cup LinesOf(Token(s))]
          /\ state' = [state EXCEPT ![s] = "waiting"]
          /\ UNCHANGED <<kind, written, ended, flooded, done>>
      BY <2>2 DEF ReachEOF, EndDrain, Emit, Consume
    <3>2. pos[s] + Len(Token(s)) = pos[s] + Len(Token(s)) + (IF HasNewline(s) THEN 1 ELSE 0)
      BY <1>1, <3>1
    <3>3. pos' = [pos EXCEPT ![s] = @ + Len(Token(s)) + (IF HasNewline(s) THEN 1 ELSE 0)]
      BY <3>1, <3>2
    <3> QED BY <1>0, <3>1, <3>3 DEF Takes
  <2>3. CASE Tick(s) \/ StopTail(s)
    BY <1>0, <2>3 DEF Tick, StopTail, Returned
  <2>4. CASE ReadFails(s)
    <3>1. PICK k \in 0..Len(Token(s)) : EndDrain(s, SubSeq(Token(s), 1, k), "failed")
      BY <2>4 DEF ReadFails
    <3>2. PICK u : u = SubSeq(Token(s), 1, k)
      OBVIOUS
    <3>3. Len(u) = k
      <4>1. PICK v : v = Token(s)
        OBVIOUS
      <4>2. PICK S : S = {v[i] : i \in 1..k}
        OBVIOUS
      <4>3. 1 \in Int /\ k \in Int /\ k >= 0 /\ \A i \in 1..k : v[i] \in S
        BY <1>1, <4>2
      <4>4. Len(u) = IF 1 <= k THEN k - 1 + 1 ELSE 0
        BY <3>2, <4>1, <4>3, SubSeqProperties
      <4> QED BY <4>3, <4>4
    <3>4. /\ pos' = [pos EXCEPT ![s] = @ + k]
          /\ out' = IF Accepted(s, u) THEN [out EXCEPT ![s] = Append(@, u[1].line)] ELSE out
          /\ cut' = IF Accepted(s, u) THEN cut ELSE [cut EXCEPT ![s] = @ \cup LinesOf(u)]
          /\ state' = [state EXCEPT ![s] = "failed"]
          /\ UNCHANGED <<kind, written, ended, flooded, done>>
      BY <3>1, <3>2, <3>3 DEF EndDrain, Emit, Consume
    <3>5. BreaksOff(s)
      BY <3>2, <3>4 DEF BreaksOff
    <3> QED BY <1>0, <3>4, <3>5 DEF Returned
  <2> QED BY <1>2, <2>1, <2>2, <2>3, <2>4 DEF TailStep
<1>3. CASE s \notin Files
  <2>1. CASE Scan(s)
    <3>1. /\ HasNewline(s) \/ s \in ended
          /\ pos' = [pos EXCEPT ![s] = @ + (Len(Token(s)) + (IF HasNewline(s) THEN 1 ELSE 0))]
          /\ UNCHANGED <<kind, written, ended, flooded, done>>
      BY <2>1 DEF Scan, Consume
    <3>2. /\ pos[s] + (Len(Token(s)) + (IF HasNewline(s) THEN 1 ELSE 0))
                = pos[s] + Len(Token(s)) + (IF HasNewline(s) THEN 1 ELSE 0)
      BY <1>1
    <3>3. pos' = [pos EXCEPT ![s] = @ + Len(Token(s)) + (IF HasNewline(s) THEN 1 ELSE 0)]
      BY <3>1, <3>2
    <3>4. CASE done
      <4>1. /\ cut' = [cut EXCEPT ![s] = @ \cup LinesOf(Token(s))] /\ out' = out
            /\ state' = [state EXCEPT ![s] = "cancelled"]
        BY <2>1, <3>4 DEF Scan, Return
      <4> QED BY <1>0, <3>1, <3>3, <4>1 DEF Takes, Returned
    <3>5. CASE ~done
      <4>1. /\ out' = IF Accepted(s, Token(s)) THEN [out EXCEPT ![s] = Append(@, Token(s)[1].line)] ELSE out
            /\ state' = state /\ cut' = cut
        BY <2>1, <3>5 DEF Scan, Emit
      <4> QED BY <1>0, <3>1, <3>3, <4>1 DEF Takes
    <3> QED BY <3>4, <3>5
  <2>2. CASE Accept(s) \/ ScanEnds(s)
    BY <1>0, <2>2 DEF Accept, ScanEnds, Return, Returned
  <2> QED BY <1>3, <2>1, <2>2 DEF Handler
<1> QED BY <1>2, <1>3

\* l pieces of line n, from its (a+1)th on.
PiecesOf(t, n, a, l) ==
    /\ DOMAIN t = 1..l
    /\ \A i \in 1..l : t[i].line = n /\ t[i].part = IF i + a = 1 THEN "head" ELSE "rest"

\* They are an event if they are its head and its rest.
LEMMA PiecesTold ==
    ASSUME NEW s \in Streams, NEW n \in Nat \ {0}, NEW a \in 0..2, NEW l \in 0..(2 - a), NEW t,
           PiecesOf(t, n, a, l)
    PROVE  /\ Parts(t) = {"head", "rest"} <=> a = 0 /\ l = 2
           /\ Accepted(s, t) <=> a = 0 /\ l = 2 /\ IsEvent(s, n)
           /\ l > 0 => t[1].line = n
           /\ LinesOf(t) = IF l = 0 THEN {} ELSE {n}
<1>4. /\ l \in 0..(2 - a) /\ DOMAIN t = 1..l
      /\ \A i \in 1..l : t[i].line = n /\ t[i].part = IF i + a = 1 THEN "head" ELSE "rest"
  BY DEF PiecesOf
<1>5. Parts(t) = {"head", "rest"} <=> a = 0 /\ l = 2
  <2>1. ASSUME a = 0 /\ l = 2 PROVE Parts(t) = {"head", "rest"}
    <3>1. 1 \in DOMAIN t /\ 2 \in DOMAIN t /\ t[1].part = "head" /\ t[2].part = "rest"
      BY <1>4, <2>1
    <3>2. \A i \in DOMAIN t : t[i].part \in {"head", "rest"}
      BY <1>4
    <3> QED BY <3>1, <3>2 DEF Parts
  <2>2. ASSUME Parts(t) = {"head", "rest"} PROVE a = 0 /\ l = 2
    <3>1. PICK i \in DOMAIN t : t[i].part = "head"
      BY <2>2 DEF Parts
    <3>2. PICK j \in DOMAIN t : t[j].part = "rest"
      BY <2>2 DEF Parts
    <3>3. i \in 1..l /\ j \in 1..l /\ i + a = 1 /\ j + a # 1
      BY <1>4, <3>1, <3>2
    <3> QED BY <1>4, <3>3
  <2> QED BY <2>1, <2>2
<1>6. Accepted(s, t) <=> a = 0 /\ l = 2 /\ IsEvent(s, n)
  <2>1. l = 2 => t[1].line = n
    BY <1>4
  <2> QED BY <1>5, <2>1 DEF Accepted, IsEvent
<1>7. l > 0 => t[1].line = n
  BY <1>4
<1>8. LinesOf(t) = IF l = 0 THEN {} ELSE {n}
  <2>1. l = 0 => DOMAIN t = {}
    BY <1>4
  <2>2. l # 0 => 1 \in DOMAIN t
    BY <1>4
  <2>3. \A i \in DOMAIN t : t[i].line = n
    BY <1>4
  <2> QED BY <2>1, <2>2, <2>3 DEF LinesOf
<1> QED BY <1>5, <1>6, <1>7, <1>8

\* A token with the head and the rest of an event, and what any other token holds.
LEMMA TokenTold ==
    ASSUME TypeOK, NEW s \in Streams, Layout(s)
    PROVE  \E n \in Nat \ {0}, a \in 0..2 :
               /\ pos[s] = 3 * (n - 1) + a
               /\ HasNewline(s) <=> 3 * n <= Len(written[s])
               /\ Len(Token(s)) = IF HasNewline(s) THEN 2 - a ELSE Len(written[s]) - pos[s]
               /\ Len(Token(s)) \in 0..(2 - a)
               /\ Accepted(s, Token(s)) <=> a = 0 /\ Len(Token(s)) = 2 /\ IsEvent(s, n)
               /\ Accepted(s, Token(s)) => Token(s)[1].line = n
               /\ LinesOf(Token(s)) = IF Len(Token(s)) = 0 THEN {} ELSE {n}
               /\ Len(written[s]) \in Nat /\ pos[s] <= Len(written[s]) /\ Len(kind[s]) \in Nat
               /\ Len(Token(s)) > 0 => n \in 1..Len(kind[s])
               /\ Parts(Token(s)) = {"head", "rest"} <=> a = 0 /\ Len(Token(s)) = 2
               /\ Len(Token(s)) > 0 => Token(s)[1].line = n
               /\ \A k \in 0..Len(Token(s)) :
                      /\ Accepted(s, SubSeq(Token(s), 1, k)) <=> a = 0 /\ k = 2 /\ IsEvent(s, n)
                      /\ k > 0 => SubSeq(Token(s), 1, k)[1].line = n
                      /\ LinesOf(SubSeq(Token(s), 1, k)) = IF k = 0 THEN {} ELSE {n}
<1>1. PICK n \in Nat \ {0}, a \in 0..2 :
           /\ pos[s] = 3 * (n - 1) + a
           /\ HasNewline(s) <=> 3 * n <= Len(written[s])
           /\ Len(Token(s)) = IF HasNewline(s) THEN 2 - a ELSE Len(written[s]) - pos[s]
           /\ Len(Token(s)) \in 0..(2 - a) /\ DOMAIN Token(s) = 1..Len(Token(s))
           /\ \A i \in 1..Len(Token(s)) :
                  /\ Token(s)[i].line = n
                  /\ Token(s)[i].part = IF i + a = 1 THEN "head" ELSE "rest"
  BY TokenProperties
<1>2. PICK t : t = Token(s)
  OBVIOUS
<1>3. PICK l : l = Len(t)
  OBVIOUS
<1>4. /\ l \in 0..(2 - a) /\ DOMAIN t = 1..l
      /\ \A i \in 1..l : t[i].line = n /\ t[i].part = IF i + a = 1 THEN "head" ELSE "rest"
  BY <1>1, <1>2, <1>3
<1>5. /\ Parts(t) = {"head", "rest"} <=> a = 0 /\ l = 2
      /\ Accepted(s, t) <=> a = 0 /\ l = 2 /\ IsEvent(s, n)
      /\ l > 0 => t[1].line = n
      /\ LinesOf(t) = IF l = 0 THEN {} ELSE {n}
  <2>1. PiecesOf(t, n, a, l) /\ l \in 0..(2 - a) BY <1>4 DEF PiecesOf
  <2> QED BY <2>1, PiecesTold
<1>6. Accepted(s, t) <=> a = 0 /\ l = 2 /\ IsEvent(s, n)
  BY <1>5
<1>7. l > 0 => t[1].line = n
  BY <1>5
<1>8. LinesOf(t) = IF l = 0 THEN {} ELSE {n}
  BY <1>5
<1>9. Len(written[s]) \in Nat /\ pos[s] \in 0..Len(written[s]) /\ Len(kind[s]) \in Nat
  <2>1. written[s] \in Seq(Pieces) /\ kind[s] \in Seq(LineKinds) /\ pos[s] \in 0..Len(written[s])
    BY DEF TypeOK, Pieces
  <2> QED BY <2>1, LenProperties
<1>10. l > 0 => n \in 1..Len(kind[s])
  <2>1. PICK m : m = Len(kind[s])
    OBVIOUS
  <2>2. PICK k : k = Len(written[s])
    OBVIOUS
  <2>3. m \in Nat /\ k \in Nat /\ k <= 3 * m
    <3>1. k = 3 * m - Left(LastPart(s)) /\ Left(LastPart(s)) \in 0..2
      BY <2>1, <2>2 DEF Layout, Left
    <3> QED BY <1>9, <2>1, <2>2, <3>1
  <2>4. ASSUME l > 0 PROVE 3 * (n - 1) + 1 <= k
    <3>1. CASE 3 * n <= k
      BY <2>3, <3>1
    <3>2. CASE ~(3 * n <= k)
      <4>1. l = k - (3 * (n - 1) + a)
        BY <1>1, <1>2, <1>3, <2>2, <3>2
      <4> QED BY <1>4, <2>3, <2>4, <4>1
    <3> QED BY <3>1, <3>2
  <2> QED BY <2>1, <2>3, <2>4
<1>11. Len(Token(s)) = l /\ l \in 0..(2 - a)
  BY <1>2, <1>3, <1>4
<1>12. (Accepted(s, Token(s)) <=> a = 0 /\ Len(Token(s)) = 2 /\ IsEvent(s, n)) /\ LinesOf(Token(s)) = IF Len(Token(s)) = 0 THEN {} ELSE {n}
  BY <1>2, <1>6, <1>8, <1>11
<1>13. Accepted(s, Token(s)) => Token(s)[1].line = n
  <2>1. Accepted(s, t) => l > 0
    BY <1>6
  <2> QED BY <1>2, <1>7, <2>1
<1>14. pos[s] <= Len(written[s]) /\ (Len(Token(s)) > 0 => n \in 1..Len(kind[s]))
  BY <1>9, <1>10, <1>11
<1>15. ASSUME NEW k \in 0..l, NEW u, u = SubSeq(t, 1, k)
       PROVE  /\ Accepted(s, u) <=> a = 0 /\ k = 2 /\ IsEvent(s, n)
              /\ k > 0 => u[1].line = n
              /\ LinesOf(u) = IF k = 0 THEN {} ELSE {n}
  <2>1. PICK S : S = {t[i] : i \in 1..l}
    OBVIOUS
  <2>2. 1 \in Int /\ k \in Int /\ \A i \in 1..k : t[i] \in S
    BY <1>4, <2>1
  <2>3. /\ u \in Seq(S) /\ Len(u) = IF 1 <= k THEN k - 1 + 1 ELSE 0
        /\ \A i \in 1..(k - 1 + 1) : u[i] = t[1 + i - 1]
    BY <1>15, <2>2, SubSeqProperties
  <2>4. k - 1 + 1 = k /\ Len(u) = k /\ k \in 0..(2 - a) /\ \A i \in 1..k : 1 + i - 1 = i /\ i \in 1..l
    BY <1>4, <1>15, <2>3
  <2>5. DOMAIN u = 1..k
    BY <2>3, <2>4, LenProperties
  <2>6. \A i \in 1..k : u[i].line = n /\ u[i].part = IF i + a = 1 THEN "head" ELSE "rest"
    BY <1>4, <2>3, <2>4
  <2>7. PiecesOf(u, n, a, k) BY <2>5, <2>6 DEF PiecesOf
  <2> QED BY <2>4, <2>7, PiecesTold
<1>16. /\ Parts(Token(s)) = {"head", "rest"} <=> a = 0 /\ Len(Token(s)) = 2
       /\ Len(Token(s)) > 0 => Token(s)[1].line = n
  BY <1>2, <1>3, <1>5
<1>17. \A k \in 0..Len(Token(s)) :
           /\ Accepted(s, SubSeq(Token(s), 1, k)) <=> a = 0 /\ k = 2 /\ IsEvent(s, n)
           /\ k > 0 => SubSeq(Token(s), 1, k)[1].line = n
           /\ LinesOf(SubSeq(Token(s), 1, k)) = IF k = 0 THEN {} ELSE {n}
  BY <1>2, <1>3, <1>15
<1> HIDE DEF Accepted, LinesOf, Parts
<1> QED BY <1>1, <1>9, <1>12, <1>13, <1>14, <1>16, <1>17

\* The pieces up to q are taken, all of line n, whose first is the (a+1)th: an event
\* that is passed is emitted, or is the line that is cut.
Taken(s, n, a, q, L) ==
    /\ pos[s] = 3 * (n - 1) + a /\ pos[s] <= q /\ q <= Len(written[s]) /\ q <= 3 * n
    /\ a = 0 /\ q > pos[s] => n \in L
    /\ pos' = [pos EXCEPT ![s] = q]
    /\ \/ /\ a = 0 /\ 3 * n - 1 <= q /\ n \in 1..Len(kind[s]) /\ IsEvent(s, n)
          /\ out' = [out EXCEPT ![s] = Append(@, n)] /\ cut' = cut
       \/ /\ a = 0 /\ IsEvent(s, n) /\ q > pos[s] => s \in ended /\ Len(written[s]) < 3 * n
          /\ out' = out /\ cut' = cut
       \/ out' = out /\ cut' = [cut EXCEPT ![s] = @ \cup L]
    /\ UNCHANGED <<kind, written, ended, flooded>>

\* So the stream stays accounted for.
LEMMA PiecesIngest ==
    ASSUME IngestInv, NEW s \in Streams, NEW n \in Nat \ {0}, NEW a \in 0..2, NEW q \in Nat,
           NEW L \in SUBSET (1..MaxLines), Taken(s, n, a, q, L),
           state' \in [Streams -> {"dialing", "reading", "waiting"} \cup Returned], done' = done
    PROVE  IngestInv'
<1>1. /\ TypeOK /\ pos \in [Streams -> Nat] /\ InOrderOnce
      /\ \A r \in Streams : Layout(r) /\ Passed(r) /\ Explained(r)
  BY DEF IngestInv
<1>3. PICK w, p, m : w = Len(written[s]) /\ p = pos[s] /\ m = Len(kind[s])
  OBVIOUS
<1>5. /\ w \in Nat /\ m \in Nat /\ p = 3 * (n - 1) + a /\ p \in Nat
      /\ p <= q /\ q <= w /\ q <= 3 * n
  <2>1. written[s] \in Seq(Pieces) /\ kind[s] \in Seq(LineKinds)
    BY <1>1 DEF TypeOK, Pieces
  <2>2. w \in Nat /\ m \in Nat
    BY <1>3, <2>1, LenProperties
  <2>3. pos[s] = 3 * (n - 1) + a /\ pos[s] <= q /\ q <= Len(written[s]) /\ q <= 3 * n
    BY DEF Taken
  <2> QED BY <1>1, <1>3, <2>2, <2>3
<1>6. pos' = [pos EXCEPT ![s] = q] /\ UNCHANGED <<kind, written, ended, flooded>>
  BY DEF Taken
<1>7. /\ \/ /\ a = 0 /\ 3 * n - 1 <= q /\ n \in 1..m /\ IsEvent(s, n)
            /\ out' = [out EXCEPT ![s] = Append(@, n)] /\ cut' = cut
         \/ /\ a = 0 /\ IsEvent(s, n) /\ q > p => s \in ended /\ w < 3 * n
            /\ out' = out /\ cut' = cut
         \/ out' = out /\ cut' = [cut EXCEPT ![s] = @ \cup L]
      /\ a = 0 /\ q > p => n \in L
  BY <1>3 DEF Taken
<1>8. m <= MaxLines /\ MaxLines \in Nat
  BY <1>1, <1>3, StreamsAssumption DEF Layout
<1>10. out[s] \in Seq(1..MaxLines) /\ Len(out[s]) \in Nat /\ DOMAIN out[s] = 1..Len(out[s])
       /\ out \in [Streams -> Seq(1..MaxLines)] /\ cut \in [Streams -> SUBSET (1..MaxLines)]
  <2>1. out \in [Streams -> Seq(1..MaxLines)] /\ cut \in [Streams -> SUBSET (1..MaxLines)]
    BY <1>1 DEF TypeOK
  <2>2. out[s] \in Seq(1..MaxLines)
    BY <2>1
  <2> QED BY <2>1, <2>2, LenProperties
<1>11. \A k \in Range(out[s]) : k \in 1..m /\ 3 * k - 1 <= p
  BY <1>1, <1>3 DEF Passed
<1>12. \A r \in Streams : Layout(r)'
  BY <1>1, <1>6 DEF Layout, LastPart
<1>13. /\ \A r \in Streams \ {s} : out'[r] = out[r] /\ cut'[r] = cut[r] /\ pos'[r] = pos[r]
       /\ pos'[s] = q
       /\ \A r \in Streams : cut[r] \subseteq cut'[r]
       /\ pos' \in [Streams -> Nat]
  <2>1. \A r \in Streams \ {s} : out'[r] = out[r] /\ cut'[r] = cut[r]
    BY <1>7, <1>10
  <2>2. \A r \in Streams : cut[r] \subseteq cut'[r]
    BY <1>7, <1>10
  <2>3. q \in Nat
    BY <1>5
  <2> QED BY <1>1, <1>6, <2>1, <2>2, <2>3
<1>14. cut' \in [Streams -> SUBSET (1..MaxLines)]
  BY <1>7, <1>10
<1>15. ASSUME a = 0, 3 * n - 1 <= q, n \in 1..m, IsEvent(s, n), out' = [out EXCEPT ![s] = Append(@, n)]
       PROVE  /\ out' \in [Streams -> Seq(1..MaxLines)] /\ InOrderOnce' /\ \A r \in Streams : Passed(r)'
              /\ \A r \in Streams : Range(out[r]) \subseteq Range(out'[r])
              /\ n \in Range(out'[s])
  <2>1. n \in 1..MaxLines /\ n \in 1..m /\ 3 * n - 1 <= q
    BY <1>5, <1>8, <1>15
  <2>2. PICK o : o = out[s]
    OBVIOUS
  <2>3. o \in Seq(1..MaxLines) /\ Len(o) \in Nat /\ DOMAIN o = 1..Len(o)
    BY <1>10, <2>2
  <2>4. /\ Append(o, n) \in Seq(1..MaxLines) /\ DOMAIN Append(o, n) = 1..(Len(o) + 1)
        /\ \A i \in 1..Len(o) : Append(o, n)[i] = o[i]
        /\ Append(o, n)[Len(o) + 1] = n
    BY <2>1, <2>3, AppendProperties
  <2>5. out' = [out EXCEPT ![s] = Append(o, n)] /\ out'[s] = Append(o, n)
    BY <1>10, <1>15, <2>2
  <2>6. out' \in [Streams -> Seq(1..MaxLines)]
    BY <1>10, <2>4, <2>5
  <2>7. Range(Append(o, n)) = Range(o) \cup {n}
    <3>1. 1..(Len(o) + 1) = 1..Len(o) \cup {Len(o) + 1}
      BY <2>3
    <3> QED BY <2>3, <2>4, <3>1 DEF Range
  <2>8. \A i \in 1..Len(o) : o[i] \in Range(o)
    BY <2>3 DEF Range
  <2>9. \A i \in 1..Len(o) : o[i] \in Nat /\ o[i] < n
    <3>1. ASSUME NEW i \in 1..Len(o) PROVE o[i] \in Nat /\ o[i] < n
      <4>1. o[i] \in 1..m /\ 3 * o[i] - 1 <= p
        BY <1>11, <2>2, <2>8
      <4> QED BY <1>5, <1>15, <4>1
    <3> QED BY <3>1
  <2>10. InOrderOnce'
    <3>1. ASSUME NEW i \in DOMAIN Append(o, n), NEW j \in DOMAIN Append(o, n), i < j
          PROVE  Append(o, n)[i] < Append(o, n)[j]
      <4>1. i \in 1..Len(o) /\ (j \in 1..Len(o) \/ j = Len(o) + 1)
        BY <2>3, <2>4, <3>1
      <4>2. \A x, y \in DOMAIN o : x < y => o[x] < o[y]
        BY <1>1, <2>2 DEF InOrderOnce
      <4>3. CASE j \in 1..Len(o)
        <5>1. i \in DOMAIN o /\ j \in DOMAIN o
          BY <2>3, <4>1, <4>3
        <5>2. o[i] < o[j]
          BY ONLY <3>1, <4>2, <5>1
        <5> QED BY <2>4, <4>1, <4>3, <5>2
      <4>4. CASE j = Len(o) + 1
        BY <2>4, <2>9, <4>1, <4>4
      <4> QED BY <4>1, <4>3, <4>4
    <3>2. \A k \in Range(out'[s]) : IsEvent(s, k)'
      BY <1>1, <1>6, <1>15, <2>2, <2>5, <2>7 DEF InOrderOnce, IsEvent
    <3>3. \A r \in Streams \ {s} : out'[r] = out[r]
      BY <1>13
    <3>4. \A r \in Streams \ {s} :
              /\ \A i, j \in DOMAIN out'[r] : i < j => out'[r][i] < out'[r][j]
              /\ \A k \in Range(out'[r]) : IsEvent(r, k)'
      BY <1>1, <1>6, <3>3 DEF InOrderOnce, IsEvent
    <3>5. /\ \A i, j \in DOMAIN out'[s] : i < j => out'[s][i] < out'[s][j]
          /\ \A k \in Range(out'[s]) : IsEvent(s, k)'
      BY <2>5, <3>1, <3>2
    <3> QED BY ONLY <3>4, <3>5 DEF InOrderOnce
  <2>11. \A r \in Streams : Passed(r)'
    <3>1. Passed(s)'
      <4>1. ASSUME NEW k \in Range(out'[s]) PROVE k \in 1..m /\ 3 * k - 1 <= q
        <5>1. k \in Range(o) \/ k = n
          BY <2>5, <2>7
        <5>2. k \in Range(o) => k \in 1..m /\ 3 * k - 1 <= p
          BY <1>11, <2>2
        <5> QED BY <1>5, <2>1, <5>1, <5>2
      <4> QED BY <1>3, <1>6, <1>13, <4>1 DEF Passed
    <3> QED BY <1>1, <1>6, <1>13, <3>1 DEF Passed
  <2>12. \A r \in Streams : Range(out[r]) \subseteq Range(out'[r])
    BY <1>13, <2>2, <2>5, <2>7
  <2>13. n \in Range(out'[s])
    BY <2>5, <2>7
  <2> QED BY <2>6, <2>10, <2>11, <2>12, <2>13
<1>16. ASSUME out' = out
       PROVE  /\ out' \in [Streams -> Seq(1..MaxLines)] /\ InOrderOnce' /\ \A r \in Streams : Passed(r)'
              /\ \A r \in Streams : Range(out[r]) \subseteq Range(out'[r])
  <2>1. InOrderOnce'
    BY <1>1, <1>6, <1>16 DEF InOrderOnce, IsEvent
  <2>2. ASSUME NEW r \in Streams PROVE Passed(r)'
    <3>1. CASE r = s
      <4>1. \A k \in Range(out[s]) : k \in 1..m /\ 3 * k - 1 <= q
        BY <1>5, <1>11
      <4> QED BY <1>3, <1>6, <1>13, <1>16, <3>1, <4>1 DEF Passed
    <3>2. CASE r # s
      BY <1>1, <1>6, <1>13, <1>16, <3>2 DEF Passed
    <3> QED BY <3>1, <3>2
  <2> QED BY <1>10, <1>16, <2>1, <2>2
<1>17. /\ out' \in [Streams -> Seq(1..MaxLines)] /\ InOrderOnce' /\ \A r \in Streams : Passed(r)'
       /\ \A r \in Streams : Range(out[r]) \subseteq Range(out'[r])
  BY <1>7, <1>15, <1>16
<1>18. ASSUME NEW k \in 1..m, IsEvent(s, k), 3 * k - 2 <= q
       PROVE  k \in Range(out'[s]) \cup cut'[s] \/ (s \in ended /\ w < 3 * k)
  <2>1. CASE 3 * k - 2 <= p
    <3>1. k \in Range(out[s]) \cup cut[s] \/ (s \in ended /\ w < 3 * k)
      BY <1>1, <1>3, <1>18, <2>1 DEF Explained
    <3> QED BY <1>13, <1>17, <3>1
  <2>2. CASE ~(3 * k - 2 <= p)
    <3>1. k = n /\ a = 0 /\ q > p
      BY <1>5, <1>18, <2>2
    <3>2. CASE /\ a = 0 /\ 3 * n - 1 <= q /\ n \in 1..m /\ IsEvent(s, n)
               /\ out' = [out EXCEPT ![s] = Append(@, n)]
      BY <1>15, <3>1, <3>2
    <3>3. CASE a = 0 /\ IsEvent(s, n) /\ q > p => s \in ended /\ w < 3 * n
      BY <1>18, <3>1, <3>3
    <3>4. CASE cut' = [cut EXCEPT ![s] = @ \cup L]
      <4>1. n \in cut'[s]
        BY <1>7, <1>10, <3>1, <3>4
      <4> QED BY <3>1, <4>1
    <3> QED BY <1>7, <3>2, <3>3, <3>4
  <2> QED BY <2>1, <2>2
<1>19. ASSUME NEW r \in Streams PROVE Explained(r)'
  <2>1. CASE r = s
    BY <1>3, <1>6, <1>13, <1>18, <2>1 DEF Explained, IsEvent
  <2>2. CASE r # s
    BY <1>1, <1>6, <1>13, <2>2 DEF Explained, IsEvent
  <2> QED BY <2>1, <2>2
<1>20. TypeOK'
  <2>1. \A r \in Streams : pos'[r] \in 0..Len(written'[r])
    <3>1. q \in 0..w
      BY <1>5
    <3> QED BY <1>1, <1>3, <1>6, <1>13, <3>1 DEF TypeOK
  <2> QED BY <1>1, <1>6, <1>14, <1>17, <2>1 DEF TypeOK
<1> QED BY <1>12, <1>13, <1>17, <1>19, <1>20 DEF IngestInv

\* A taken token keeps the stream accounted for.
LEMMA TakesIngest ==
    ASSUME IngestInv, NEW s \in Streams, Takes(s),
           state' \in [Streams -> {"dialing", "reading", "waiting"} \cup Returned], done' = done
    PROVE  IngestInv'
<1>1. /\ TypeOK /\ pos \in [Streams -> Nat] /\ InOrderOnce
      /\ \A r \in Streams : Layout(r) /\ Passed(r) /\ Explained(r)
  BY DEF IngestInv
<1>2. PICK n \in Nat \ {0}, a \in 0..2 :
           /\ pos[s] = 3 * (n - 1) + a
           /\ HasNewline(s) <=> 3 * n <= Len(written[s])
           /\ Len(Token(s)) = IF HasNewline(s) THEN 2 - a ELSE Len(written[s]) - pos[s]
           /\ Len(Token(s)) \in 0..(2 - a)
           /\ Accepted(s, Token(s)) <=> a = 0 /\ Len(Token(s)) = 2 /\ IsEvent(s, n)
           /\ Accepted(s, Token(s)) => Token(s)[1].line = n
           /\ LinesOf(Token(s)) = IF Len(Token(s)) = 0 THEN {} ELSE {n}
           /\ Len(written[s]) \in Nat /\ pos[s] <= Len(written[s]) /\ Len(kind[s]) \in Nat
           /\ Len(Token(s)) > 0 => n \in 1..Len(kind[s])
  BY <1>1, TokenTold
<1>3. PICK w, p, m, l : w = Len(written[s]) /\ p = pos[s] /\ m = Len(kind[s]) /\ l = Len(Token(s))
  OBVIOUS
<1>4. PICK q : q = p + l + (IF 3 * n <= w THEN 1 ELSE 0)
  OBVIOUS
<1>5. /\ w \in Nat /\ m \in Nat /\ p = 3 * (n - 1) + a /\ l \in 0..(2 - a) /\ p \in Nat /\ p <= w
      /\ q = (IF 3 * n <= w THEN 3 * n ELSE w) /\ q \in p..w
      /\ l = (IF 3 * n <= w THEN 2 - a ELSE w - p)
      /\ l > 0 => n \in 1..m
  <2>1. /\ w \in Nat /\ m \in Nat /\ p = 3 * (n - 1) + a /\ l \in 0..(2 - a) /\ p <= w
        /\ l = (IF 3 * n <= w THEN 2 - a ELSE w - p) /\ (l > 0 => n \in 1..m)
    BY <1>2, <1>3
  <2>2. q = (IF 3 * n <= w THEN 3 * n ELSE w) /\ q \in p..w /\ p \in Nat
    BY <1>4, <2>1
  <2> QED BY <2>1, <2>2
<1>6. pos' = [pos EXCEPT ![s] = q] /\ UNCHANGED <<kind, written, ended, flooded>>
  <2>1. pos' = [pos EXCEPT ![s] = @ + l + (IF 3 * n <= w THEN 1 ELSE 0)]
    BY <1>2, <1>3 DEF Takes
  <2> QED BY <1>3, <1>4, <2>1 DEF Takes
<1>7. \/ /\ a = 0 /\ l = 2 /\ IsEvent(s, n)
         /\ out' = [out EXCEPT ![s] = Append(@, n)] /\ cut' = cut
      \/ /\ ~(a = 0 /\ l = 2 /\ IsEvent(s, n)) /\ out' = out /\ cut' = cut
         /\ 3 * n <= w \/ s \in ended
      \/ out' = out /\ cut' = [cut EXCEPT ![s] = @ \cup (IF l = 0 THEN {} ELSE {n})]
  <2>1. /\ Accepted(s, Token(s)) <=> a = 0 /\ l = 2 /\ IsEvent(s, n)
        /\ LinesOf(Token(s)) = IF l = 0 THEN {} ELSE {n}
        /\ Accepted(s, Token(s)) => Token(s)[1].line = n
        /\ HasNewline(s) <=> 3 * n <= w
    BY <1>2, <1>3
  <2> HIDE DEF Accepted, LinesOf, HasNewline, IsEvent, Token
  <2> QED BY <2>1 DEF Takes
<1>8. m <= MaxLines /\ MaxLines \in Nat
  BY <1>1, <1>3, StreamsAssumption DEF Layout
<1>9. PICK L : L = IF l = 0 THEN {} ELSE {n}
  OBVIOUS
<1>10. /\ L \in SUBSET (1..MaxLines) /\ q \in Nat /\ p <= q /\ q <= w /\ q <= 3 * n
       /\ a = 0 /\ q > p => l > 0 /\ n \in L
       /\ a = 0 /\ l = 2 => 3 * n - 1 <= q /\ n \in 1..m
       /\ a = 0 /\ 3 * n <= w => l = 2
  BY <1>5, <1>8, <1>9
<1>11. \/ /\ a = 0 /\ 3 * n - 1 <= q /\ n \in 1..m /\ IsEvent(s, n)
          /\ out' = [out EXCEPT ![s] = Append(@, n)] /\ cut' = cut
       \/ /\ a = 0 /\ IsEvent(s, n) /\ q > p => s \in ended /\ w < 3 * n
          /\ out' = out /\ cut' = cut
       \/ out' = out /\ cut' = [cut EXCEPT ![s] = @ \cup L]
  <2>1. CASE /\ a = 0 /\ l = 2 /\ IsEvent(s, n)
             /\ out' = [out EXCEPT ![s] = Append(@, n)] /\ cut' = cut
    BY <1>10, <2>1
  <2>2. CASE /\ ~(a = 0 /\ l = 2 /\ IsEvent(s, n)) /\ out' = out /\ cut' = cut
             /\ 3 * n <= w \/ s \in ended
    <3>1. a = 0 /\ IsEvent(s, n) => ~(3 * n <= w)
      BY <1>10, <2>2
    <3>2. a = 0 /\ IsEvent(s, n) => s \in ended /\ w < 3 * n
      BY <1>5, <2>2, <3>1
    <3> QED BY <2>2, <3>2
  <2>3. CASE out' = out /\ cut' = [cut EXCEPT ![s] = @ \cup (IF l = 0 THEN {} ELSE {n})]
    BY <1>9, <2>3
  <2> HIDE DEF IsEvent
  <2> QED BY <1>7, <2>1, <2>2, <2>3
<1>12. Taken(s, n, a, q, L)
  BY <1>3, <1>5, <1>6, <1>10, <1>11 DEF Taken
<1> QED BY <1>10, <1>12, PiecesIngest

\* So do the pieces before a read error.
LEMMA BreaksIngest ==
    ASSUME IngestInv, NEW s \in Streams, BreaksOff(s),
           state' \in [Streams -> {"dialing", "reading", "waiting"} \cup Returned], done' = done
    PROVE  IngestInv'
<1>1. /\ TypeOK /\ pos \in [Streams -> Nat] /\ Layout(s)
  BY DEF IngestInv
<1>2. PICK n \in Nat \ {0}, a \in 0..2 :
           /\ pos[s] = 3 * (n - 1) + a
           /\ Len(Token(s)) = IF HasNewline(s) THEN 2 - a ELSE Len(written[s]) - pos[s]
           /\ HasNewline(s) <=> 3 * n <= Len(written[s])
           /\ Len(Token(s)) \in 0..(2 - a)
           /\ Len(written[s]) \in Nat /\ pos[s] <= Len(written[s]) /\ Len(kind[s]) \in Nat
           /\ Len(Token(s)) > 0 => n \in 1..Len(kind[s])
           /\ \A k \in 0..Len(Token(s)) :
                  /\ Accepted(s, SubSeq(Token(s), 1, k)) <=> a = 0 /\ k = 2 /\ IsEvent(s, n)
                  /\ k > 0 => SubSeq(Token(s), 1, k)[1].line = n
                  /\ LinesOf(SubSeq(Token(s), 1, k)) = IF k = 0 THEN {} ELSE {n}
  BY <1>1, TokenTold
<1>3. PICK w, p, m, l : w = Len(written[s]) /\ p = pos[s] /\ m = Len(kind[s]) /\ l = Len(Token(s))
  OBVIOUS
<1>4. PICK k \in 0..Len(Token(s)) :
        /\ pos' = [pos EXCEPT ![s] = @ + k]
        /\ \/ /\ Accepted(s, SubSeq(Token(s), 1, k))
              /\ out' = [out EXCEPT ![s] = Append(@, SubSeq(Token(s), 1, k)[1].line)]
              /\ cut' = cut
           \/ out' = out /\ cut' = [cut EXCEPT ![s] = @ \cup LinesOf(SubSeq(Token(s), 1, k))]
        /\ UNCHANGED <<kind, written, ended, flooded>>
  BY DEF BreaksOff
<1>5. /\ w \in Nat /\ m \in Nat /\ p = 3 * (n - 1) + a /\ p \in Nat /\ p <= w
      /\ l \in 0..(2 - a) /\ l = (IF 3 * n <= w THEN 2 - a ELSE w - p) /\ (l > 0 => n \in 1..m)
      /\ k \in 0..l
  <2>1. k \in 0..l BY <1>3
  <2>2. pos[s] \in Nat BY <1>1
  <2> QED BY ONLY <1>2, <1>3, <2>1, <2>2
<1>6. PICK q, L : q = p + k /\ L = (IF k = 0 THEN {} ELSE {n})
  OBVIOUS
<1>7. m <= MaxLines /\ MaxLines \in Nat
  BY <1>1, <1>3, StreamsAssumption DEF Layout
<1>8. /\ L \in SUBSET (1..MaxLines) /\ q \in Nat /\ p <= q /\ q <= w /\ q <= 3 * n
      /\ a = 0 /\ q > p => n \in L
      /\ a = 0 /\ k = 2 => 3 * n - 1 <= q /\ n \in 1..m
  BY <1>5, <1>6, <1>7
<1>9. pos' = [pos EXCEPT ![s] = q]
  BY <1>3, <1>4, <1>6
<1>10. \/ /\ a = 0 /\ 3 * n - 1 <= q /\ n \in 1..m /\ IsEvent(s, n)
          /\ out' = [out EXCEPT ![s] = Append(@, n)] /\ cut' = cut
       \/ out' = out /\ cut' = [cut EXCEPT ![s] = @ \cup L]
  <2>1. PICK u : u = SubSeq(Token(s), 1, k)
    OBVIOUS
  <2>2. /\ Accepted(s, u) <=> a = 0 /\ k = 2 /\ IsEvent(s, n)
        /\ k > 0 => u[1].line = n
        /\ LinesOf(u) = L
    BY <1>2, <1>6, <2>1
  <2>3. CASE Accepted(s, u) /\ out' = [out EXCEPT ![s] = Append(@, u[1].line)] /\ cut' = cut
    <3>1. a = 0 /\ k = 2 /\ IsEvent(s, n)
      BY ONLY <2>2, <2>3
    <3>2. u[1].line = n
      BY <2>2, <3>1
    <3> QED BY <1>8, <2>3, <3>1, <3>2
  <2>4. CASE out' = out /\ cut' = [cut EXCEPT ![s] = @ \cup LinesOf(u)]
    BY <2>2, <2>4
  <2> QED BY <1>4, <2>1, <2>3, <2>4
<1>11. Taken(s, n, a, q, L)
  <2>1. UNCHANGED <<kind, written, ended, flooded>> BY <1>4
  <2> QED BY <1>3, <1>5, <1>8, <1>9, <1>10, <2>1 DEF Taken
<1> QED BY <1>8, <1>11, PiecesIngest

\* A stream has room for another line only while all of them have.
LEMMA RoomForLine ==
    ASSUME TypeOK, NEW s \in Streams,
           Cardinality(UNION {{r} \X DOMAIN kind[r] : r \in Streams}) < MaxLines
    PROVE  Len(kind[s]) \in Nat /\ Len(kind[s]) + 1 <= MaxLines
<1>1. \A r \in Streams : Len(kind[r]) \in Nat /\ DOMAIN kind[r] = 1..Len(kind[r])
  <2>1. \A r \in Streams : kind[r] \in Seq(LineKinds)
    BY DEF TypeOK
  <2> QED BY <2>1, LenProperties
<1>2. PICK m : m = Len(kind[s])
  OBVIOUS
<1>3. PICK U : U = UNION {{r} \X DOMAIN kind[r] : r \in Streams}
  OBVIOUS
<1>4. IsFiniteSet(U)
  <2>1. PICK W : W = {{r} \X DOMAIN kind[r] : r \in Streams}
    OBVIOUS
  <2>2. IsFiniteSet(Streams)
    BY StreamsAssumption DEF Streams
  <2>3. IsFiniteSet(W)
    <3>1. PICK f : f = [r \in Streams |-> {r} \X DOMAIN kind[r]]
      OBVIOUS
    <3>2. f \in Surjection(Streams, W)
      BY <2>1, <3>1 DEF Surjection
    <3> QED BY <2>2, <3>2, FS_Surjection
  <2>4. \A r \in Streams : IsFiniteSet({r} \X DOMAIN kind[r])
    <3>1. ASSUME NEW r \in Streams PROVE IsFiniteSet({r} \X DOMAIN kind[r])
      <4>1. IsFiniteSet({r})
        BY FS_Singleton
      <4>2. IsFiniteSet(1..Len(kind[r]))
        <5>1. 1 \in Int /\ Len(kind[r]) \in Int
          BY <1>1
        <5> QED BY <5>1, FS_Interval
      <4> QED BY <1>1, <4>1, <4>2, FS_Product
    <3> QED BY <3>1
  <2>5. IsFiniteSet(UNION W)
    BY <2>1, <2>3, <2>4, FS_UNION
  <2> QED BY <1>3, <2>1, <2>5
<1>5. {s} \X (1..m) \subseteq U
  BY <1>1, <1>2, <1>3
<1>6. Cardinality({s} \X (1..m)) = m
  <2>1. m \in Nat /\ IsFiniteSet(1..m) /\ Cardinality(1..m) = m
    <3>1. m \in Nat
      BY <1>1, <1>2
    <3>2. 1 \in Int /\ m \in Int
      BY <3>1
    <3>3. Cardinality(1..m) = IF 1 > m THEN 0 ELSE m - 1 + 1
      BY <3>2, FS_Interval
    <3> QED BY <3>1, <3>2, <3>3, FS_Interval
  <2>2. IsFiniteSet({s}) /\ Cardinality({s}) = 1
    BY FS_Singleton
  <2>3. Cardinality({s} \X (1..m)) = 1 * m
    BY <2>1, <2>2, FS_Product
  <2> QED BY <2>1, <2>3
<1>7. Cardinality({s} \X (1..m)) <= Cardinality(U)
  BY <1>4, <1>5, FS_Subset
<1>8. Cardinality(U) \in Nat /\ Cardinality(U) < MaxLines
  BY <1>3, <1>4, FS_CardinalityType
<1> QED BY <1>1, <1>2, <1>6, <1>7, <1>8, StreamsAssumption

\* Another piece at the end of a stream, of its last line or of a new one.
LEMMA PieceIngest ==
    ASSUME IngestInv, NEW s \in Streams, s \notin ended, NEW x \in Pieces,
           written' = [written EXCEPT ![s] = Append(@, x)],
           kind' \in [Streams -> Seq(LineKinds)],
           \A r \in Streams \ {s} : kind'[r] = kind[r],
           Len(kind[s]) <= Len(kind'[s]), Len(kind'[s]) <= MaxLines,
           \A n \in 1..Len(kind[s]) : kind'[s][n] = kind[s][n],
           x.line = Len(kind'[s]),
           Len(written[s]) + 1 = 3 * Len(kind'[s]) - Left(x.part),
           Len(kind'[s]) = Len(kind[s]) \/ 3 * Len(kind[s]) = Len(written[s]),
           UNCHANGED <<ended, flooded, pos, state, done, out, cut>>
    PROVE  IngestInv'
<1>1. /\ TypeOK /\ pos \in [Streams -> Nat] /\ InOrderOnce
      /\ \A r \in Streams : Layout(r) /\ Passed(r) /\ Explained(r)
  BY DEF IngestInv
<1>2. PICK w, m, k, p : w = written[s] /\ m = Len(kind[s]) /\ k = Len(kind'[s]) /\ p = pos[s]
  OBVIOUS
<1>3. /\ w \in Seq(Pieces) /\ Len(w) \in Nat /\ m \in Nat /\ k \in Nat /\ m <= k /\ k <= MaxLines
      /\ p \in 0..Len(w) /\ written \in [Streams -> Seq(Pieces)]
      /\ \A i \in 1..Len(w) : w[i].line \in 1..m /\ i = 3 * w[i].line - Left(w[i].part)
      /\ Len(w) + 1 = 3 * k - Left(x.part) /\ x.line = k /\ (k = m \/ 3 * m = Len(w))
  <2>1. written \in [Streams -> Seq(Pieces)] /\ kind \in [Streams -> Seq(LineKinds)] /\ pos[s] \in 0..Len(written[s])
    BY <1>1 DEF TypeOK, Pieces
  <2>2. w \in Seq(Pieces) /\ kind[s] \in Seq(LineKinds) /\ kind'[s] \in Seq(LineKinds)
    BY <1>2, <2>1
  <2>3. Len(w) \in Nat /\ m \in Nat /\ k \in Nat
    BY <1>2, <2>2, LenProperties
  <2>4. \A i \in 1..Len(w) : w[i].line \in 1..m /\ i = 3 * w[i].line - Left(w[i].part)
    BY <1>1, <1>2 DEF Layout
  <2> QED BY <1>2, <2>1, <2>2, <2>3, <2>4
<1>4. PICK v : v = Append(w, x)
  OBVIOUS
<1>5. /\ v \in Seq(Pieces) /\ Len(v) = Len(w) + 1 /\ v[Len(w) + 1] = x
      /\ \A i \in 1..Len(w) : v[i] = w[i]
  BY <1>3, <1>4, AppendProperties
<1>6. /\ written' = [written EXCEPT ![s] = v] /\ written'[s] = v
      /\ \A r \in Streams \ {s} : written'[r] = written[r] /\ kind'[r] = kind[r]
  BY <1>2, <1>3, <1>4
<1>7. TypeOK'
  <2>1. written' \in [Streams -> Seq(Pieces)]
    BY <1>3, <1>5, <1>6
  <2>2. ASSUME NEW r \in Streams PROVE pos'[r] \in 0..Len(written'[r])
    <3>1. CASE r = s
      <4>1. p \in 0..Len(v)
        BY <1>3, <1>5
      <4> QED BY <1>2, <1>6, <3>1, <4>1
    <3>2. CASE r # s
      BY <1>1, <1>6, <3>2 DEF TypeOK
    <3> QED BY <3>1, <3>2
  <2> QED BY <1>1, <2>1, <2>2 DEF TypeOK, Pieces
<1>8. \A r \in Streams : \A n \in 1..Len(kind[r]) : n \in 1..Len(kind'[r]) /\ kind'[r][n] = kind[r][n]
  <2>1. \A n \in 1..m : n \in 1..k
    BY <1>3
  <2> QED BY <1>2, <1>6, <2>1
<1>9. InOrderOnce'
  <2>1. \A r \in Streams : \A n \in Range(out[r]) : n \in 1..Len(kind[r])
    BY <1>1 DEF Passed
  <2> QED BY <1>1, <1>8, <2>1 DEF InOrderOnce, IsEvent
<1>10. \A r \in Streams : Passed(r)'
  BY <1>1, <1>8 DEF Passed
<1>11. ASSUME NEW r \in Streams PROVE Layout(r)'
  <2>1. CASE r = s
    <3>1. ASSUME NEW i \in 1..Len(v) PROVE v[i].line \in 1..k /\ i = 3 * v[i].line - Left(v[i].part)
      <4>1. CASE i \in 1..Len(w)
        <5>1. v[i] = w[i] /\ w[i].line \in 1..m /\ i = 3 * w[i].line - Left(w[i].part)
          BY <1>3, <1>5, <4>1
        <5> QED BY <1>3, <5>1
      <4>2. CASE i = Len(w) + 1
        <5>1. v[i] = x /\ x.line \in 1..k
          <6>1. Left(x.part) \in 0..2
            BY DEF Left
          <6>2. k \in 1..k
            BY <1>3, <6>1
          <6> QED BY <1>3, <1>5, <4>2, <6>2
        <5> QED BY <1>3, <4>2, <5>1
      <4> QED BY <1>3, <1>5, <4>1, <4>2
    <3>2. v # <<>> /\ Last(v) = x
      BY <1>3, <1>5 DEF Last
    <3>3. LastPart(s)' = x.part
      BY <1>6, <3>2 DEF LastPart
    <3>4. Len(v) = 3 * k - Left(x.part) /\ k <= MaxLines
      BY <1>3, <1>5
    <3> QED BY <1>2, <1>6, <2>1, <3>1, <3>3, <3>4 DEF Layout
  <2>2. CASE r # s
    <3>1. written'[r] = written[r] /\ kind'[r] = kind[r] /\ Layout(r)
      BY <1>1, <1>6, <2>2
    <3> QED BY ONLY <3>1 DEF Layout, LastPart
  <2> QED BY <2>1, <2>2
<1>12. ASSUME NEW r \in Streams PROVE Explained(r)'
  <2>1. CASE r = s
    <3>1. ASSUME NEW n \in 1..k, IsEvent(s, n)', 3 * n - 2 <= p PROVE n \in Range(out[s]) \cup cut[s]
      <4>1. n \in 1..m
        BY <1>3, <3>1
      <4>2. IsEvent(s, n)
        BY <1>2, <1>8, <3>1, <4>1 DEF IsEvent
      <4> QED BY <1>1, <1>2, <3>1, <4>1, <4>2 DEF Explained
    <3> QED BY <1>2, <2>1, <3>1 DEF Explained
  <2>2. CASE r # s
    BY <1>1, <1>6, <2>2 DEF Explained, IsEvent
  <2> QED BY <2>1, <2>2
<1> QED BY <1>1, <1>7, <1>9, <1>10, <1>11, <1>12 DEF IngestInv

\* What a station writes, or its end, leaves the reads explained.
LEMMA StationIngest == ASSUME IngestInv, NEW s \in Streams, Station(s) PROVE IngestInv'
<1>1. /\ TypeOK /\ pos \in [Streams -> Nat] /\ InOrderOnce
      /\ \A r \in Streams : Layout(r) /\ Passed(r) /\ Explained(r)
  BY DEF IngestInv
<1>2. /\ kind \in [Streams -> Seq(LineKinds)] /\ written[s] \in Seq(Pieces) /\ kind[s] \in Seq(LineKinds)
      /\ MaxLines \in Nat
  BY <1>1, StreamsAssumption DEF TypeOK, Pieces
<1>3. PICK w, m : w = Len(written[s]) /\ m = Len(kind[s])
  OBVIOUS
<1>4. w \in Nat /\ m \in Nat /\ m <= MaxLines /\ w = 3 * m - Left(LastPart(s))
  <2>1. w \in Nat /\ m \in Nat
    BY <1>2, <1>3, LenProperties
  <2> QED BY <1>1, <1>3, <2>1 DEF Layout
<1>5. LastPart(s) \in {"head", "rest", "end"}
  <2>1. CASE written[s] = <<>>
    BY <2>1 DEF LastPart
  <2>2. CASE written[s] # <<>>
    <3>1. Last(written[s]) \in Pieces
      <4>1. PICK q : q = written[s]
        OBVIOUS
      <4>2. q \in Seq(Pieces) /\ q # <<>>
        BY <1>2, <2>2, <4>1
      <4>3. Len(q) \in 1..Len(q)
        BY <4>2
      <4> QED BY <4>1, <4>2, <4>3, ElementOfSeq DEF Last
    <3> QED BY <2>2, <3>1 DEF LastPart, Pieces
  <2> QED BY <2>1, <2>2
<1>6. ASSUME NEW k \in LineKinds, StartLine(s, k) PROVE IngestInv'
  <2>1. /\ s \notin ended /\ LastPart(s) = "end"
        /\ Cardinality(UNION {{r} \X DOMAIN kind[r] : r \in Streams}) < MaxLines
        /\ kind' = [kind EXCEPT ![s] = Append(@, k)]
        /\ written' = [written EXCEPT ![s] = Append(@, [line |-> m + 1, part |-> "head"])]
        /\ UNCHANGED <<ended, flooded, pos, state, done, out, cut>>
    BY <1>3, <1>6 DEF StartLine
  <2>2. m + 1 <= MaxLines
    BY <1>1, <1>3, <2>1, RoomForLine
  <2>3. PICK x : x = [line |-> m + 1, part |-> "head"]
    OBVIOUS
  <2>4. x \in Pieces /\ x.line = m + 1 /\ x.part = "head" /\ Left(x.part) = 2
    <3>1. m + 1 \in 1..MaxLines
      BY <1>2, <1>4, <2>2
    <3> QED BY <2>3, <3>1 DEF Pieces, Left
  <2>5. PICK q : q = kind[s]
    OBVIOUS
  <2>6. /\ Append(q, k) \in Seq(LineKinds) /\ Len(Append(q, k)) = m + 1
        /\ \A n \in 1..m : Append(q, k)[n] = q[n]
    BY <1>2, <1>3, <2>5, AppendProperties
  <2>7. /\ kind' \in [Streams -> Seq(LineKinds)] /\ kind'[s] = Append(q, k)
        /\ \A r \in Streams \ {s} : kind'[r] = kind[r]
    BY <1>2, <2>1, <2>5, <2>6
  <2>8. w = 3 * m /\ w + 1 = 3 * (m + 1) - 2 /\ m <= m + 1
    BY <1>4, <2>1 DEF Left
  <2>9. /\ written' = [written EXCEPT ![s] = Append(@, x)]
        /\ Len(kind[s]) <= Len(kind'[s]) /\ Len(kind'[s]) <= MaxLines
        /\ \A n \in 1..Len(kind[s]) : kind'[s][n] = kind[s][n]
        /\ x.line = Len(kind'[s])
        /\ Len(written[s]) + 1 = 3 * Len(kind'[s]) - Left(x.part)
        /\ 3 * Len(kind[s]) = Len(written[s])
    BY <1>3, <2>1, <2>2, <2>3, <2>4, <2>5, <2>6, <2>7, <2>8
  <2> QED BY <2>1, <2>4, <2>7, <2>9, PieceIngest
<1>7. CASE ContinueLine(s)
  <2>1. PICK part : part = IF LastPart(s) = "head" THEN "rest" ELSE "end"
    OBVIOUS
  <2>2. PICK x : x = [line |-> m, part |-> part]
    OBVIOUS
  <2>3. /\ s \notin ended /\ LastPart(s) # "end"
        /\ written' = [written EXCEPT ![s] = Append(@, x)]
        /\ UNCHANGED <<kind, ended, flooded, pos, state, done, out, cut>>
    BY <1>3, <1>7, <2>1, <2>2 DEF ContinueLine
  <2>4. x.line = m /\ x.part = part /\ part \in {"rest", "end"}
    BY <2>1, <2>2
  <2>5. Left(LastPart(s)) = Left(part) + 1 /\ Left(part) \in 0..1
    BY <1>5, <2>1, <2>3 DEF Left
  <2>6. m \in 1..MaxLines /\ w + 1 = 3 * m - Left(part)
    BY <1>2, <1>4, <2>5
  <2>7. x \in Pieces
    BY <2>2, <2>4, <2>6 DEF Pieces
  <2>8. /\ kind' \in [Streams -> Seq(LineKinds)]
        /\ \A r \in Streams \ {s} : kind'[r] = kind[r]
        /\ Len(kind[s]) <= Len(kind'[s]) /\ Len(kind'[s]) <= MaxLines
        /\ \A n \in 1..Len(kind[s]) : kind'[s][n] = kind[s][n]
        /\ x.line = Len(kind'[s]) /\ Len(kind'[s]) = Len(kind[s])
        /\ Len(written[s]) + 1 = 3 * Len(kind'[s]) - Left(x.part)
    BY <1>2, <1>3, <1>4, <2>3, <2>4, <2>6
  <2> QED BY <2>3, <2>7, <2>8, PieceIngest
<1>8. CASE EndConnection(s)
  <2>1. /\ s \in Conns /\ ended' = ended \cup {s}
        /\ UNCHANGED <<kind, written, flooded, pos, state, done, out, cut>>
    BY <1>8 DEF EndConnection
  <2>2. TypeOK'
    BY <1>1, <2>1 DEF TypeOK
  <2>3. InOrderOnce'
    BY <1>1, <2>1 DEF InOrderOnce, IsEvent
  <2>4. ASSUME NEW r \in Streams PROVE Layout(r)' /\ Passed(r)' /\ Explained(r)'
    <3>1. Layout(r)'
      BY <1>1, <2>1 DEF Layout, LastPart
    <3>2. Passed(r)'
      BY <1>1, <2>1 DEF Passed
    <3>3. Explained(r)'
      BY <1>1, <2>1 DEF Explained, IsEvent
    <3> QED BY <3>1, <3>2, <3>3
  <2> QED BY <1>1, <2>1, <2>2, <2>3, <2>4 DEF IngestInv
<1>9. CASE Flood(s)
  <2>1. /\ flooded' \subseteq Files
        /\ UNCHANGED <<kind, written, ended, pos, state, done, out, cut>>
    BY <1>1, <1>9 DEF Flood, TypeOK
  <2>2. TypeOK'
    BY <1>1, <2>1 DEF TypeOK
  <2>3. InOrderOnce'
    BY <1>1, <2>1 DEF InOrderOnce, IsEvent
  <2>4. ASSUME NEW r \in Streams PROVE Layout(r)' /\ Passed(r)' /\ Explained(r)'
    <3>1. Layout(r)'
      BY <1>1, <2>1 DEF Layout, LastPart
    <3>2. Passed(r)'
      BY <1>1, <2>1 DEF Passed
    <3>3. Explained(r)'
      BY <1>1, <2>1 DEF Explained, IsEvent
    <3> QED BY <3>1, <3>2, <3>3
  <2> QED BY <1>1, <2>1, <2>2, <2>3, <2>4 DEF IngestInv
<1> QED BY <1>6, <1>7, <1>8, <1>9 DEF Station

\* A new process reads the files from the start and has emitted nothing of them.
LEMMA StartIngest == ASSUME IngestInv, Start PROVE IngestInv'
<1>1. /\ TypeOK /\ pos \in [Streams -> Nat] /\ InOrderOnce
      /\ \A r \in Streams : Layout(r) /\ Passed(r) /\ Explained(r)
  BY DEF IngestInv
<1>2. /\ pos' = [s \in Streams |-> IF s \in Files THEN 0 ELSE pos[s]]
      /\ state' = [s \in Streams |-> IF s \in Files THEN "reading"
                                     ELSE IF state[s] = "dialing" THEN "dialing" ELSE "lost"]
      /\ done' = FALSE
      /\ out' = [s \in Streams |-> IF s \in Files THEN <<>> ELSE out[s]]
      /\ cut' = [s \in Streams |-> IF s \in Files THEN {} ELSE cut[s]]
      /\ UNCHANGED <<kind, written, ended, flooded>>
  BY DEF Start, StartPosition
<1>3. pos' \in [Streams -> Nat]
  BY <1>1, <1>2
<1>4. \A s \in Streams : IF s \in Files THEN pos'[s] = 0 /\ out'[s] = <<>> /\ cut'[s] = {}
                         ELSE pos'[s] = pos[s] /\ out'[s] = out[s] /\ cut'[s] = cut[s]
  BY <1>2
<1>5. TypeOK'
  <2>1. ASSUME NEW s \in Streams PROVE pos'[s] \in 0..Len(written'[s])
    <3>1. written[s] \in Seq([line : 1..MaxLines, part : {"head", "rest", "end"}]) /\ pos[s] \in 0..Len(written[s])
      BY <1>1 DEF TypeOK
    <3>2. Len(written[s]) \in Nat
      BY <3>1, LenProperties
    <3>3. 0 \in 0..Len(written[s])
      BY <3>2
    <3> QED BY <1>2, <1>4, <3>1, <3>3
  <2>2. out' \in [Streams -> Seq(1..MaxLines)] /\ cut' \in [Streams -> SUBSET (1..MaxLines)]
    <3>1. <<>> \in Seq(1..MaxLines) /\ {} \in SUBSET (1..MaxLines)
      OBVIOUS
    <3> QED BY <1>1, <1>2, <3>1 DEF TypeOK
  <2>3. state' \in [Streams -> {"dialing", "reading", "waiting"} \cup Returned]
    BY <1>1, <1>2 DEF TypeOK, Returned
  <2> QED BY <1>1, <1>2, <2>1, <2>2, <2>3 DEF TypeOK
<1>6. DOMAIN <<>> = {} /\ Range(<<>>) = {}
  BY DEF Range
<1>7. InOrderOnce'
  BY <1>1, <1>2, <1>4, <1>6 DEF InOrderOnce, IsEvent
<1>8. ASSUME NEW s \in Streams PROVE Layout(s)' /\ Passed(s)' /\ Explained(s)'
  <2>1. Layout(s)'
    BY <1>1, <1>2 DEF Layout, LastPart
  <2>2. Passed(s)'
    BY <1>1, <1>2, <1>4, <1>6 DEF Passed
  <2>3. Explained(s)'
    <3>1. CASE s \in Files
      <4>1. \A n \in 1..Len(kind[s]) : ~(3 * n - 2 <= 0)
        OBVIOUS
      <4> QED BY <1>2, <1>4, <3>1, <4>1 DEF Explained
    <3>2. CASE s \notin Files
      BY <1>1, <1>2, <1>4, <3>2 DEF Explained, IsEvent
    <3> QED BY <3>1, <3>2
  <2> QED BY <2>1, <2>2, <2>3
<1> QED BY <1>3, <1>5, <1>7, <1>8 DEF IngestInv

\* Steps that touch no stream.
LEMMA ApartIngest ==
    ASSUME IngestInv, UNCHANGED <<kind, written, ended, flooded, pos, out, cut>>, done' \in BOOLEAN,
           state' \in [Streams -> {"dialing", "reading", "waiting"} \cup Returned]
    PROVE  IngestInv'
<1>1. TypeOK'
  BY DEF IngestInv, TypeOK
<1>2. InOrderOnce'
  BY DEF IngestInv, InOrderOnce, IsEvent
<1>3. ASSUME NEW s \in Streams PROVE Layout(s)' /\ Passed(s)' /\ Explained(s)'
  <2>1. Layout(s) /\ Passed(s) /\ Explained(s)
    BY DEF IngestInv
  <2>2. Layout(s)'
    BY <2>1 DEF Layout, LastPart
  <2>3. Passed(s)'
    BY <2>1 DEF Passed
  <2>4. Explained(s)'
    BY <2>1 DEF Explained, IsEvent
  <2> QED BY <2>2, <2>3, <2>4
<1> QED BY <1>1, <1>2, <1>3 DEF IngestInv

\* A first process has emitted nothing of streams in which nothing is written.
LEMMA InitIngest == Init => IngestInv
<1> SUFFICES ASSUME Init PROVE IngestInv
  OBVIOUS
<1>1. /\ kind = [s \in Streams |-> <<>>] /\ written = [s \in Streams |-> <<>>] /\ ended = {} /\ flooded = {}
      /\ pos = [s \in Streams |-> 0] /\ done = FALSE
      /\ state = [s \in Streams |-> IF s \in Files THEN "reading" ELSE "dialing"]
      /\ out = [s \in Streams |-> <<>>] /\ cut = [s \in Streams |-> {}]
  BY DEF Init
<1>2. Len(<<>>) = 0 /\ DOMAIN <<>> = {} /\ Range(<<>>) = {} /\ MaxLines \in Nat
  BY StreamsAssumption DEF Range
<1>3. TypeOK
  <2>1. \A s \in Streams : pos[s] \in 0..Len(written[s])
    BY <1>1, <1>2
  <2>2. kind \in [Streams -> Seq(LineKinds)] /\ out \in [Streams -> Seq(1..MaxLines)]
    BY <1>1
  <2>3. written \in [Streams -> Seq([line : 1..MaxLines, part : {"head", "rest", "end"}])]
    BY <1>1
  <2> QED BY <1>1, <2>1, <2>2, <2>3 DEF TypeOK
<1>4. pos \in [Streams -> Nat]
  BY <1>1
<1>5. InOrderOnce
  BY <1>1, <1>2 DEF InOrderOnce
<1>6. ASSUME NEW s \in Streams PROVE Layout(s) /\ Passed(s) /\ Explained(s)
  <2>1. written[s] = <<>> /\ kind[s] = <<>> /\ out[s] = <<>>
    BY <1>1
  <2>2. Layout(s)
    <3>1. LastPart(s) = "end" /\ Left("end") = 0
      BY <2>1 DEF LastPart, Left
    <3>2. 1..0 = {} /\ 0 = 3 * 0 - 0 /\ 0 <= MaxLines
      BY <1>2
    <3> QED BY <1>2, <2>1, <3>1, <3>2 DEF Layout
  <2>3. Passed(s)
    BY <1>2, <2>1 DEF Passed
  <2>4. Explained(s)
    <3>1. 1..Len(kind[s]) = {}
      BY <1>2, <2>1
    <3> QED BY <3>1 DEF Explained
  <2> QED BY <2>2, <2>3, <2>4
<1> QED BY <1>3, <1>4, <1>5, <1>6 DEF IngestInv

-----------------------------------------------------------------------------
(* The rows of the events table *)

\* Steps of the main goroutine and of the surroundings concern no row and no reader.
LEMMA ApartLines ==
    ASSUME LinesInv, IngestInv', UNCHANGED <<out, hand, rows, pushed, failed, refused, life>>,
           phase' \in {"serving", "waiting", "closed", "down"}, hubOpen' \in BOOLEAN
    PROVE  LinesInv'
<1>1. ServiceTypeOK'
  BY DEF LinesInv, ServiceTypeOK, IngestInv
<1>2. DuplicatesAreRestarts'
  BY DEF LinesInv, DuplicatesAreRestarts
<1>3. \A s \in Streams : RowsFromOut(s)'
  BY DEF LinesInv, RowsFromOut
<1> QED BY <1>1, <1>2, <1>3 DEF LinesInv

\* A reader emits a line that no row of this process holds: it comes after all it emitted.
LEMMA ReadLines == ASSUME LinesInv, NEW s \in Streams, Read(s) PROVE LinesInv'
<1>1. /\ ServiceTypeOK /\ IngestInv /\ DuplicatesAreRestarts /\ TypeOK /\ pos \in [Streams -> Nat]
      /\ \A r \in Streams : RowsFromOut(r) /\ Layout(r)
  BY DEF LinesInv, IngestInv
<1>2. /\ IF s \in Files THEN TailStep(s) ELSE Handler(s)
      /\ hand' = [hand EXCEPT ![s] = IF out' = out THEN "none" ELSE "record"]
      /\ UNCHANGED <<phase, hubOpen, rows, pushed, failed, refused, life>>
  BY DEF Read
<1>3. /\ Takes(s) \/ BreaksOff(s) \/ UNCHANGED <<kind, written, ended, flooded, pos, out, cut>>
      /\ state' \in [Streams -> {"dialing", "reading", "waiting"} \cup Returned]
      /\ done' = done
  BY <1>1, <1>2, ReadsTake
<1>4. IngestInv'
  <2>1. CASE Takes(s)
    BY <1>1, <1>3, <2>1, TakesIngest
  <2>2. CASE UNCHANGED <<kind, written, ended, flooded, pos, out, cut>>
    BY <1>1, <1>3, <2>2, ApartIngest DEF TypeOK
  <2>3. CASE BreaksOff(s)
    BY <1>1, <1>3, <2>3, BreaksIngest
  <2> QED BY <1>3, <2>1, <2>2, <2>3
<1>5. out' = out \/ \E e : out' = [out EXCEPT ![s] = Append(@, e)]
  BY <1>3 DEF Takes, BreaksOff
<1>6. hand \in [Streams -> {"none", "record", "push"}] /\ out \in [Streams -> Seq(1..MaxLines)]
  BY <1>1 DEF ServiceTypeOK, TypeOK
<1>7. CASE out' = out
  <2>1. hand' = [hand EXCEPT ![s] = "none"]
    BY <1>2, <1>7
  <2>2. /\ hand' \in [Streams -> {"none", "record", "push"}]
        /\ \A r \in Streams : hand'[r] = hand[r] \/ hand'[r] = "none"
    BY <1>6, <2>1
  <2>3. ServiceTypeOK'
    BY <1>1, <1>2, <1>4, <1>7, <2>2 DEF ServiceTypeOK, IngestInv
  <2>4. DuplicatesAreRestarts'
    BY <1>1, <1>2 DEF DuplicatesAreRestarts
  <2>5. \A r \in Streams : RowsFromOut(r)'
    BY <1>1, <1>2, <1>7, <2>2 DEF RowsFromOut
  <2> QED BY <1>4, <2>3, <2>4, <2>5 DEF LinesInv
<1>8. CASE out' # out
  <2>1. PICK e : out' = [out EXCEPT ![s] = Append(@, e)]
    BY <1>5, <1>8
  <2>2. PICK o : o = out[s]
    OBVIOUS
  <2>3. /\ Len(o) \in Nat /\ DOMAIN o = 1..Len(o)
        /\ DOMAIN Append(o, e) = 1..(Len(o) + 1)
        /\ \A i \in 1..Len(o) : Append(o, e)[i] = o[i]
        /\ Append(o, e)[Len(o) + 1] = e
    <3>1. o \in Seq(1..MaxLines)
      BY <1>6, <2>2
    <3>2. IsSequence(o)
      BY <3>1 DEF IsSequence
    <3> QED BY <3>2, AppendIsSequence
  <2>4. /\ out'[s] = Append(o, e)
        /\ \A r \in Streams \ {s} : out'[r] = out[r]
    BY <1>6, <2>1, <2>2
  <2>5. Last(out'[s]) = e /\ out'[s] # <<>>
    <3>1. Append(o, e) \in Seq(1..MaxLines)
      BY <1>4, <2>4 DEF IngestInv, TypeOK
    <3>2. Len(Append(o, e)) = Len(o) + 1
      <4>1. Len(Append(o, e)) \in Nat /\ DOMAIN Append(o, e) = 1..Len(Append(o, e))
        BY <3>1, LenProperties
      <4> QED BY <2>3, <4>1
    <3> QED BY <2>3, <2>4, <3>1, <3>2 DEF Last
  <2>6. \A k \in Range(o) : k # e /\ k \in Range(out'[s])
    <3>1. ASSUME NEW i \in 1..Len(o) PROVE o[i] # e /\ o[i] \in Range(Append(o, e))
      <4>1. i \in 1..(Len(o) + 1) /\ Len(o) + 1 \in 1..(Len(o) + 1) /\ i < Len(o) + 1
        BY <2>3
      <4>2. Append(o, e)[i] < Append(o, e)[Len(o) + 1]
        BY <1>4, <2>3, <2>4, <4>1 DEF IngestInv, InOrderOnce
      <4>3. e \in 1..MaxLines
        <5>1. Append(o, e) \in Seq(1..MaxLines)
          BY <1>4, <2>4 DEF IngestInv, TypeOK
        <5>2. Append(o, e)[Len(o) + 1] \in 1..MaxLines
          <6>1. PICK q : q = Append(o, e)
            OBVIOUS
          <6>2. q \in Seq(1..MaxLines) /\ Len(o) + 1 \in DOMAIN q
            BY <2>3, <4>1, <5>1, <6>1
          <6>3. Len(o) + 1 \in 1..Len(q)
            BY <6>2, LenProperties
          <6> QED BY <6>1, <6>2, <6>3, ElementOfSeq
        <5> QED BY <2>3, <5>2
      <4>4. o[i] # e
        BY <2>3, <4>2, <4>3
      <4>5. o[i] \in Range(Append(o, e))
        BY <2>3, <4>1 DEF Range
      <4> QED BY <4>4, <4>5
    <3> QED BY <2>3, <2>4, <3>1 DEF Range
  <2>7. /\ hand' \in [Streams -> {"none", "record", "push"}]
        /\ \A r \in Streams \ {s} : hand'[r] = hand[r]
    BY <1>2, <1>6, <1>8
  <2>8. ServiceTypeOK'
    <3>1. \A r \in Streams : hand'[r] # "none" => out'[r] # <<>>
      BY <1>1, <2>4, <2>5, <2>7 DEF ServiceTypeOK
    <3> QED BY <1>1, <1>2, <1>4, <2>7, <3>1 DEF ServiceTypeOK, IngestInv
  <2>9. DuplicatesAreRestarts'
    BY <1>1, <1>2 DEF DuplicatesAreRestarts
  <2>10. ASSUME NEW r \in Streams PROVE RowsFromOut(r)'
    <3>1. CASE r = s
      BY <1>1, <1>2, <2>2, <2>5, <2>6, <3>1 DEF RowsFromOut
    <3>2. CASE r # s
      BY <1>1, <1>2, <2>4, <2>7, <3>2 DEF RowsFromOut
    <3> QED BY <3>1, <3>2
  <2> QED BY <1>4, <2>8, <2>9, <2>10 DEF LinesInv
<1> QED BY <1>7, <1>8

\* The line that is recorded is not among the rows of this process; of a file, an
\* earlier process may have recorded it.
LEMMA RecordLines == ASSUME LinesInv, NEW s \in Streams, Record(s) PROVE LinesInv'
<1>1. /\ ServiceTypeOK /\ IngestInv /\ DuplicatesAreRestarts /\ TypeOK
      /\ \A r \in Streams : RowsFromOut(r)
  BY DEF LinesInv, IngestInv
<1>2. /\ hand[s] = "record" /\ hand' = [hand EXCEPT ![s] = "push"]
      /\ UNCHANGED <<kind, written, ended, flooded, pos, state, done, out, cut>>
      /\ UNCHANGED <<phase, hubOpen, pushed, life>>
      /\ \/ refused' = refused \cup {s} /\ rows' = rows /\ failed' = failed
         \/ failed' = [failed EXCEPT ![s] = @ \cup {Last(out[s])}] /\ rows' = rows /\ refused' = refused
         \/ rows' = [rows EXCEPT ![s] = WithRow(s)] /\ refused' = refused /\ failed' = failed
  BY DEF Record, vars
<1>3. IngestInv'
  BY <1>1, <1>2, ApartIngest DEF TypeOK
<1>4. /\ hand' \in [Streams -> {"none", "record", "push"}]
      /\ \A r \in Streams \ {s} : hand'[r] = hand[r]
      /\ hand'[s] = "push"
  BY <1>1, <1>2 DEF ServiceTypeOK
<1>7. Last(out[s]) \in 1..MaxLines /\ Last(out[s]) \in Range(out[s])
  <2>1. PICK o : o = out[s]
    OBVIOUS
  <2>2. o \in Seq(1..MaxLines) /\ o # <<>>
    BY <1>1, <1>2, <2>1 DEF ServiceTypeOK, TypeOK
  <2>3. Len(o) \in 1..Len(o) /\ Len(o) \in DOMAIN o
    BY <2>2
  <2> QED BY <2>1, <2>2, <2>3, ElementOfSeq DEF Last, Range
<1>5. CASE rows' = rows
  <2>4. refused' \subseteq Streams /\ failed' \in [Streams -> SUBSET (1..MaxLines)]
    <3>1. refused \subseteq Streams /\ failed \in [Streams -> SUBSET (1..MaxLines)]
      BY <1>1 DEF ServiceTypeOK
    <3> QED BY <1>2, <1>7, <3>1
  <2>1. ServiceTypeOK'
    <3>1. \A r \in Streams : hand'[r] # "none" => out'[r] # <<>>
      BY <1>1, <1>2, <1>4 DEF ServiceTypeOK
    <3> QED BY <1>1, <1>2, <1>3, <1>4, <1>5, <2>4, <3>1 DEF ServiceTypeOK, IngestInv
  <2>2. DuplicatesAreRestarts'
    BY <1>1, <1>5 DEF DuplicatesAreRestarts
  <2>3. ASSUME NEW r \in Streams PROVE RowsFromOut(r)'
    BY <1>1, <1>2, <1>4, <1>5 DEF RowsFromOut
  <2> QED BY <1>3, <2>1, <2>2, <2>3 DEF LinesInv
<1>6. CASE rows' = [rows EXCEPT ![s] = WithRow(s)] /\ refused' = refused /\ failed' = failed
  <2> DEFINE Row == [line : 1..MaxLines, life : 1..life]
  <2>1. PICK q, x : q = rows[s] /\ x = [line |-> Last(out[s]), life |-> life]
    OBVIOUS
  <2>2. life \in 1..MaxLives /\ life \in 1..life /\ x.line = Last(out[s]) /\ x.life = life
    <3>1. life \in 1..MaxLives /\ MaxLives \in Nat
      BY <1>1, LivesAssumption DEF ServiceTypeOK
    <3>2. life \in 1..life
      BY <3>1
    <3> QED BY <2>1, <3>1, <3>2
  <2>3. Last(out[s]) \in 1..MaxLines /\ Last(out[s]) \in Range(out[s])
    BY <1>7
  <2>4. x \in Row
    BY <2>1, <2>2, <2>3
  <2>5. q \in Seq(Row) /\ rows \in [Streams -> Seq(Row)]
    BY <1>1, <2>1 DEF ServiceTypeOK
  <2>6. Len(q) \in Nat /\ DOMAIN q = 1..Len(q) /\ \A i \in 1..Len(q) : q[i] \in Row
    <3> HIDE DEF Row
    <3> QED BY <2>5, LenProperties, ElementOfSeq
  <2>7. /\ Append(q, x) \in Seq(Row) /\ DOMAIN Append(q, x) = 1..(Len(q) + 1)
        /\ \A i \in 1..Len(q) : Append(q, x)[i] = q[i]
        /\ Append(q, x)[Len(q) + 1] = x
    <3> HIDE DEF Row
    <3>1. Append(q, x) \in Seq(Row) /\ Len(Append(q, x)) = Len(q) + 1
      BY <2>4, <2>5, AppendProperties
    <3> QED BY <2>4, <2>5, <3>1, AppendProperties, LenProperties
  <2>8. rows' = [rows EXCEPT ![s] = Append(q, x)] /\ rows'[s] = Append(q, x)
        /\ \A r \in Streams \ {s} : rows'[r] = rows[r]
    <3> HIDE DEF Row
    <3>1. rows' = [rows EXCEPT ![s] = Append(q, x)]
      BY <1>6, <2>1 DEF WithRow
    <3> QED BY <2>5, <3>1
  <2>9. rows' \in [Streams -> Seq(Row)]
    <3> HIDE DEF Row
    <3> QED BY <2>5, <2>7, <2>8
  <2>10. ServiceTypeOK'
    <3>1. \A r \in Streams : hand'[r] # "none" => out'[r] # <<>>
      BY <1>1, <1>2, <1>4 DEF ServiceTypeOK
    <3> QED BY <1>1, <1>2, <1>3, <1>4, <1>6, <2>9, <3>1 DEF ServiceTypeOK, IngestInv
  <2>11. ASSUME NEW i \in 1..Len(q), s \in Conns \/ q[i].life = life
         PROVE  q[i].line \in Range(out[s]) /\ q[i].line # Last(out[s])
    BY <1>1, <1>2, <2>1, <2>6, <2>11 DEF RowsFromOut
  <2>12. \A i \in 1..Len(q) : q[i].life \in 1..life
    BY <2>6
  <2>13. ASSUME NEW i \in 1..(Len(q) + 1), NEW j \in 1..(Len(q) + 1), i < j
         PROVE  i \in 1..Len(q) /\ (j \in 1..Len(q) \/ j = Len(q) + 1)
    BY <2>6, <2>13
  <2>14. DuplicatesAreRestarts'
    <3>1. ASSUME NEW i \in 1..(Len(q) + 1), NEW j \in 1..(Len(q) + 1), i < j,
                 Append(q, x)[i].line = Append(q, x)[j].line
          PROVE  s \in Files /\ Append(q, x)[i].life < Append(q, x)[j].life
      <4>1. i \in 1..Len(q) /\ Append(q, x)[i] = q[i]
        BY <2>7, <2>13, <3>1
      <4>2. CASE j \in 1..Len(q)
        <5>1. \A y, z \in DOMAIN q : y < z /\ q[y].line = q[z].line => s \in Files /\ q[y].life < q[z].life
          BY <1>1, <2>1 DEF DuplicatesAreRestarts
        <5>2. Append(q, x)[j] = q[j] /\ i \in DOMAIN q /\ j \in DOMAIN q
          BY <2>6, <2>7, <4>1, <4>2
        <5> QED BY ONLY <3>1, <4>1, <5>1, <5>2
      <4>3. CASE j = Len(q) + 1
        <5>1. q[i].line = Last(out[s])
          BY <2>2, <2>7, <3>1, <4>1, <4>3
        <5>2. s \notin Conns /\ q[i].life # life
          BY <2>11, <4>1, <5>1
        <5>3. q[i].life < life
          BY <2>2, <2>12, <4>1, <5>2
        <5> QED BY <2>2, <2>7, <4>1, <4>3, <5>2, <5>3 DEF Streams
      <4> QED BY <2>13, <3>1, <4>2, <4>3
    <3>2. \A r \in Streams \ {s} : rows'[r] = rows[r]
      BY <2>8
    <3>3. \A r \in Streams \ {s} :
              \A i, j \in DOMAIN rows'[r] :
                  i < j /\ rows'[r][i].line = rows'[r][j].line =>
                      r \in Files /\ rows'[r][i].life < rows'[r][j].life
      BY <1>1, <3>2 DEF DuplicatesAreRestarts
    <3>4. \A i, j \in DOMAIN rows'[s] :
              i < j /\ rows'[s][i].line = rows'[s][j].line =>
                  s \in Files /\ rows'[s][i].life < rows'[s][j].life
      <4>1. rows'[s] = Append(q, x)
        BY <2>8
      <4> QED BY ONLY <2>7, <3>1, <4>1
    <3> QED BY ONLY <3>3, <3>4 DEF DuplicatesAreRestarts
  <2>15. ASSUME NEW r \in Streams PROVE RowsFromOut(r)'
    <3>1. CASE r = s
      <4>1. ASSUME NEW i \in 1..(Len(q) + 1), s \in Conns \/ Append(q, x)[i].life = life
            PROVE  Append(q, x)[i].line \in Range(out[s])
        <5>1. CASE i \in 1..Len(q)
          BY <2>7, <2>11, <4>1, <5>1
        <5>2. CASE i = Len(q) + 1
          BY <2>2, <2>3, <2>7, <5>2
        <5> QED BY <2>6, <5>1, <5>2
      <4>2. ASSUME NEW i \in 1..(Len(q) + 1), NEW j \in 1..(Len(q) + 1), i < j
            PROVE  Append(q, x)[i].life <= Append(q, x)[j].life
        <5>1. i \in 1..Len(q) /\ Append(q, x)[i] = q[i]
          BY <2>7, <2>13, <4>2
        <5>2. CASE j \in 1..Len(q)
          <6>1. \A y, z \in DOMAIN q : y < z => q[y].life <= q[z].life
            BY <1>1, <2>1 DEF RowsFromOut
          <6>2. Append(q, x)[j] = q[j] /\ i \in DOMAIN q /\ j \in DOMAIN q
            BY <2>6, <2>7, <5>1, <5>2
          <6> QED BY ONLY <4>2, <5>1, <6>1, <6>2
        <5>3. CASE j = Len(q) + 1
          <6>1. q[i].life <= life
            BY <2>2, <2>12, <5>1
          <6> QED BY <2>2, <2>7, <5>1, <5>3, <6>1
        <5> QED BY <2>13, <4>2, <5>2, <5>3
      <4>3. rows'[s] = Append(q, x) /\ DOMAIN Append(q, x) = 1..(Len(q) + 1)
        BY <2>7, <2>8
      <4>4. out'[s] = out[s] /\ life' = life /\ hand'[s] # "record"
        BY <1>2, <1>4
      <4> QED BY ONLY <3>1, <4>1, <4>2, <4>3, <4>4 DEF RowsFromOut
    <3>2. CASE r # s
      BY <1>1, <1>2, <1>4, <2>8, <3>2 DEF RowsFromOut
    <3> QED BY <3>1, <3>2
  <2> QED BY <1>3, <2>10, <2>14, <2>15 DEF LinesInv
<1> QED BY <1>2, <1>5, <1>6

\* What the hub takes is no row.
LEMMA PushLines == ASSUME LinesInv, NEW s \in Streams, Push(s) PROVE LinesInv'
<1>1. /\ ServiceTypeOK /\ IngestInv /\ DuplicatesAreRestarts /\ TypeOK
      /\ \A r \in Streams : RowsFromOut(r)
  BY DEF LinesInv, IngestInv
<1>2. /\ hand[s] = "push" /\ hand' = [hand EXCEPT ![s] = "none"]
      /\ UNCHANGED <<kind, written, ended, flooded, pos, state, done, out, cut>>
      /\ UNCHANGED <<phase, hubOpen, rows, failed, refused, life>>
      /\ pushed' = IF hubOpen THEN [pushed EXCEPT ![s] = @ \cup {Last(out[s])}] ELSE pushed
  BY DEF Push, vars
<1>3. IngestInv'
  BY <1>1, <1>2, ApartIngest DEF TypeOK
<1>4. /\ hand' \in [Streams -> {"none", "record", "push"}]
      /\ \A r \in Streams : hand'[r] = hand[r] \/ hand'[r] = "none"
  BY <1>1, <1>2 DEF ServiceTypeOK
<1>5. Last(out[s]) \in 1..MaxLines
  <2>1. PICK o : o = out[s]
    OBVIOUS
  <2>2. o \in Seq(1..MaxLines) /\ o # <<>>
    BY <1>1, <1>2, <2>1 DEF ServiceTypeOK, TypeOK
  <2>3. Len(o) \in 1..Len(o)
    BY <2>2
  <2> QED BY <2>1, <2>2, <2>3, ElementOfSeq DEF Last
<1>6. pushed' \in [Streams -> SUBSET (1..MaxLines)]
  BY <1>1, <1>2, <1>5 DEF ServiceTypeOK
<1>7. ServiceTypeOK'
  <2>1. \A r \in Streams : hand'[r] # "none" => out'[r] # <<>>
    BY <1>1, <1>2, <1>4 DEF ServiceTypeOK
  <2> QED BY <1>1, <1>2, <1>3, <1>4, <1>6, <2>1 DEF ServiceTypeOK, IngestInv
<1>8. DuplicatesAreRestarts'
  BY <1>1, <1>2 DEF DuplicatesAreRestarts
<1>9. \A r \in Streams : RowsFromOut(r)'
  BY <1>1, <1>2, <1>4 DEF RowsFromOut
<1> QED BY <1>3, <1>7, <1>8, <1>9 DEF LinesInv

\* All rows of the files are from earlier lives than the process that starts.
LEMMA StartLines == ASSUME LinesInv, Start PROVE LinesInv'
<1>1. /\ ServiceTypeOK /\ IngestInv /\ DuplicatesAreRestarts
      /\ \A r \in Streams : RowsFromOut(r)
  BY DEF LinesInv
<1>2. /\ life < MaxLives /\ life' = life + 1 /\ phase' = "serving" /\ hubOpen' = TRUE
      /\ hand' = [s \in Streams |-> "none"] /\ pushed' = [s \in Streams |-> {}]
      /\ out' = [s \in Streams |-> IF s \in Files THEN <<>> ELSE out[s]]
      /\ failed' = [s \in Streams |-> IF s \in Files THEN {} ELSE failed[s]]
      /\ UNCHANGED <<rows, refused>>
  BY DEF Start
<1>3. IngestInv'
  BY <1>1, StartIngest
<1>4. life \in Nat /\ life' = life + 1 /\ life' \in 1..MaxLives
  <2>1. life \in 1..MaxLives /\ MaxLives \in Nat
    BY <1>1, LivesAssumption DEF ServiceTypeOK
  <2> QED BY <1>2, <2>1
<1>5. PICK A, B : A = [line : 1..MaxLines, life : 1..life] /\ B = [line : 1..MaxLines, life : 1..life']
  OBVIOUS
<1>6. rows \in [Streams -> Seq(A)] /\ A \subseteq B
  <2>1. 1..life \subseteq 1..life'
    BY <1>4
  <2> QED BY <1>1, <1>5, <2>1 DEF ServiceTypeOK
<1>7. rows' \in [Streams -> Seq(B)]
  <2>1. \A s \in Streams : rows[s] \in Seq(B)
    BY <1>6, SeqMonotonic
  <2> QED BY <1>2, <1>6, <2>1
<1>8. ServiceTypeOK'
  <2>1. /\ \A s \in Streams : hand'[s] = "none"
        /\ hand' \in [Streams -> {"none", "record", "push"}]
        /\ pushed' \in [Streams -> SUBSET (1..MaxLines)]
    BY <1>2
  <2>2. failed' \in [Streams -> SUBSET (1..MaxLines)]
    BY <1>1, <1>2 DEF ServiceTypeOK
  <2> QED BY <1>1, <1>2, <1>3, <1>4, <1>5, <1>7, <2>1, <2>2 DEF ServiceTypeOK, IngestInv
<1>9. DuplicatesAreRestarts'
  BY <1>1, <1>2 DEF DuplicatesAreRestarts
<1>10. ASSUME NEW s \in Streams PROVE RowsFromOut(s)'
  <2>1. hand'[s] = "none" /\ rows'[s] = rows[s] /\ (s \in Conns => out'[s] = out[s])
    BY <1>2, StreamsAssumption
  <2>2. \A i \in DOMAIN rows[s] : rows[s][i].life # life'
    <3>1. PICK q : q = rows[s]
      OBVIOUS
    <3>2. q \in Seq(A) /\ DOMAIN q = 1..Len(q)
      BY <1>6, <3>1, LenProperties
    <3>3. \A i \in 1..Len(q) : q[i] \in A
      BY <3>2, ElementOfSeq
    <3>4. \A y \in A : y.life \in 1..life
      BY <1>5
    <3>5. \A i \in 1..Len(q) : q[i].life # life'
      BY <1>4, <3>3, <3>4
    <3> QED BY <3>1, <3>2, <3>5
  <2> QED BY <1>1, <2>1, <2>2 DEF RowsFromOut
<1> QED BY <1>3, <1>8, <1>9, <1>10 DEF LinesInv

\* The first process finds an empty table.
LEMMA InitLines == ServiceInit => LinesInv
<1> SUFFICES ASSUME ServiceInit PROVE LinesInv
  OBVIOUS
<1>1. /\ phase = "serving" /\ hubOpen = TRUE /\ hand = [s \in Streams |-> "none"]
      /\ rows = [s \in Streams |-> <<>>] /\ pushed = [s \in Streams |-> {}]
      /\ failed = [s \in Streams |-> {}] /\ refused = {} /\ life = 1
  BY DEF ServiceInit
<1>2. IngestInv
  BY InitIngest DEF ServiceInit
<1>3. life \in 1..MaxLives
  BY <1>1, LivesAssumption
<1>4. rows \in [Streams -> Seq([line : 1..MaxLines, life : 1..life])]
  <2>1. <<>> \in Seq([line : 1..MaxLines, life : 1..life])
    OBVIOUS
  <2> QED BY <1>1, <2>1
<1>5. ServiceTypeOK
  BY <1>1, <1>2, <1>3, <1>4 DEF ServiceTypeOK, IngestInv
<1>6. \A s \in Streams : DOMAIN rows[s] = {}
  BY <1>1
<1> QED BY <1>2, <1>5, <1>6 DEF LinesInv, DuplicatesAreRestarts, RowsFromOut

\* Every step keeps streams, reads and rows accounted for.
LEMMA NextLines == ASSUME LinesInv, [ServiceNext]_serviceVars PROVE LinesInv'
<1>1. ServiceTypeOK /\ IngestInv /\ TypeOK
  BY DEF LinesInv, IngestInv
<1>2. /\ phase \in {"serving", "waiting", "closed", "down"} /\ hubOpen \in BOOLEAN
      /\ done \in BOOLEAN /\ state \in [Streams -> {"dialing", "reading", "waiting"} \cup Returned]
  BY <1>1 DEF ServiceTypeOK, TypeOK
<1>3. CASE \E s \in Streams : Station(s) /\ UNCHANGED processVars
  <2>1. UNCHANGED <<out, processVars>>
    BY <1>3 DEF Station, StartLine, ContinueLine, EndConnection, Flood
  <2>2. IngestInv'
    BY <1>1, <1>3, StationIngest
  <2> QED BY <1>2, <2>1, <2>2, ApartLines DEF processVars
<1>4. CASE \E s \in Streams : Goroutine(s)
  BY <1>4, ReadLines, RecordLines, PushLines DEF Goroutine
<1>5. CASE Signal
  <2>1. UNCHANGED <<kind, written, ended, flooded, pos, state, out, cut, processVars>> /\ done' = TRUE
    BY <1>5 DEF Signal, Cancel
  <2>2. IngestInv'
    BY <1>1, <1>2, <2>1, ApartIngest
  <2> QED BY <1>2, <2>1, <2>2, ApartLines DEF processVars
<1>6. CASE Main \/ Crash
  <2>1. /\ UNCHANGED <<kind, written, ended, flooded, pos, state, done, out, cut>>
        /\ UNCHANGED <<hand, rows, pushed, failed, refused, life>>
    BY <1>6 DEF Main, CloseHub, CloseStore, Exit, Crash, vars
  <2>2. phase' \in {"serving", "waiting", "closed", "down"} /\ hubOpen' \in BOOLEAN
    BY <1>2, <1>6 DEF Main, CloseHub, CloseStore, Exit, Crash
  <2>3. IngestInv'
    BY <1>1, <1>2, <2>1, ApartIngest
  <2> QED BY <2>1, <2>2, <2>3, ApartLines
<1>7. CASE Start
  BY <1>7, StartLines
<1>8. CASE UNCHANGED serviceVars
  <2>1. UNCHANGED vars /\ UNCHANGED processVars
    BY <1>8 DEF serviceVars
  <2>2. /\ UNCHANGED <<kind, written, ended, flooded, pos, state, done, out, cut>>
        /\ UNCHANGED <<phase, hubOpen, hand, rows, pushed, failed, refused, life>>
    BY <2>1 DEF vars, processVars
  <2>3. IngestInv'
    BY <1>1, <1>2, <2>2, ApartIngest
  <2> QED BY <1>2, <2>2, <2>3, ApartLines
<1> QED BY <1>3, <1>4, <1>5, <1>6, <1>7, <1>8 DEF ServiceNext

-----------------------------------------------------------------------------
(* How readers end *)

\* A handler that met an overlong line has read nothing of it; one whose stream is
\* exhausted has read it all.
Ends(s) ==
    /\ state[s] = "overlong" => \E m \in 1..Len(kind[s]) : kind[s][m] = "long event" /\ pos[s] = 3 * (m - 1)
    /\ state[s] = "finished" => s \in ended /\ pos[s] = Len(written[s])

EndsInv == \A s \in Streams : Ends(s)

LossInv == LinesInv /\ EndsInv

\* A reader returns at the end of its stream or before the line that is too long.
LEMMA ReadEnds == ASSUME LossInv, NEW s \in Streams, Read(s) PROVE EndsInv'
<1>1. TypeOK /\ pos \in [Streams -> Nat] /\ Layout(s) /\ EndsInv
  BY DEF LossInv, LinesInv, IngestInv
<1>2. state \in [Streams -> {"dialing", "reading", "waiting"} \cup Returned]
  BY <1>1 DEF TypeOK
<1>3. IF s \in Files THEN TailStep(s) ELSE Handler(s)
  BY DEF Read
<1>4. UNCHANGED <<kind, written, ended>> /\ \A r \in Streams \ {s} : pos'[r] = pos[r]
  <2>1. Takes(s) \/ BreaksOff(s) \/ UNCHANGED <<kind, written, ended, flooded, pos, out, cut>>
    BY <1>1, <1>3, ReadsTake
  <2>2. CASE Takes(s)
    BY <1>1, <2>2 DEF Takes
  <2>3. CASE BreaksOff(s)
    BY <1>1, <2>3 DEF BreaksOff
  <2> QED BY <2>1, <2>2, <2>3
<1>5. /\ \A r \in Streams \ {s} : state'[r] = state[r]
      /\ state'[s] \in {"overlong", "finished"} => ScanEnds(s)
  <2>1. CASE s \in Files
    BY <1>2, <1>3, <2>1 DEF TailStep, ReadLine, ReachEOF, ReadFails, EndDrain, Tick, StopTail
  <2>2. CASE s \notin Files
    BY <1>2, <1>3, <2>2 DEF Handler, Accept, Scan, Return, ScanEnds
  <2> QED BY <2>1, <2>2
<1>6. Ends(s)'
  <2>1. CASE ScanEnds(s)
    <3>1. pos' = pos /\ state[s] = "reading" BY <2>1 DEF ScanEnds
    <3>2. CASE TooLong(s) /\ Return(s, "overlong")
      <4>1. PICK n \in Nat \ {0}, a \in 0..2 :
              /\ pos[s] = 3 * (n - 1) + a
              /\ Len(Token(s)) > 0 => n \in 1..Len(kind[s])
              /\ Parts(Token(s)) = {"head", "rest"} <=> a = 0 /\ Len(Token(s)) = 2
              /\ Len(Token(s)) > 0 => Token(s)[1].line = n
        BY <1>1, TokenTold
      <4>2. Parts(Token(s)) = {"head", "rest"} /\ kind[s][Token(s)[1].line] = "long event"
        BY <3>2 DEF TooLong
      <4>6. a = 0 /\ Len(Token(s)) = 2
        BY ONLY <4>1, <4>2, Zenon
      <4>3. a = 0 /\ n \in 1..Len(kind[s]) /\ Token(s)[1].line = n
        <5>1. Len(Token(s)) > 0 BY <4>6
        <5> QED BY ONLY <4>1, <4>6, <5>1, Zenon
      <4>4. pos[s] = 3 * (n - 1) BY <4>1, <4>3
      <4>5. state'[s] = "overlong" BY <1>2, <3>2 DEF Return
      <4> QED BY <1>4, <3>1, <4>2, <4>3, <4>4, <4>5 DEF Ends
    <3>3. CASE s \in ended /\ Rest(s) = <<>> /\ Return(s, "finished")
      <4>1. PICK w, p, q : w = written[s] /\ p = pos[s] /\ q = Rest(s) OBVIOUS
      <4>2. w \in Seq(Pieces) /\ Len(w) \in Nat /\ p \in 0..Len(w)
        <5>1. w \in Seq(Pieces) /\ p \in 0..Len(w) BY <1>1, <4>1 DEF TypeOK, Pieces
        <5> QED BY <5>1, LenProperties
      <4>3. p + 1 \in Int /\ Len(w) \in Int /\ \A i \in (p + 1)..Len(w) : w[i] \in Pieces
        BY <4>2, ElementOfSeq
      <4>4. q = SubSeq(w, p + 1, Len(w)) BY <4>1 DEF Rest
      <4>5. Len(q) = IF p + 1 <= Len(w) THEN Len(w) - (p + 1) + 1 ELSE 0
        BY <4>3, <4>4, SubSeqProperties
      <4>6. Len(q) = 0 BY <3>3, <4>1
      <4>7. p = Len(w) BY <4>2, <4>5, <4>6
      <4>8. state'[s] = "finished" BY <1>2, <3>3 DEF Return
      <4> QED BY <1>4, <3>1, <3>3, <4>1, <4>7, <4>8 DEF Ends
    <3> QED BY <2>1, <3>2, <3>3 DEF ScanEnds
  <2>2. CASE ~ScanEnds(s)
    BY <1>5, <2>2 DEF Ends
  <2> QED BY <2>1, <2>2
<1>7. ASSUME NEW r \in Streams \ {s} PROVE Ends(r)'
  <2>1. Ends(r) BY <1>1 DEF EndsInv
  <2> QED BY <1>4, <1>5, <2>1 DEF Ends
<1> QED BY <1>6, <1>7 DEF EndsInv

\* What a station writes behind an overlong line changes nothing; an ended stream grows
\* no more.
LEMMA StationEnds == ASSUME LossInv, NEW s \in Streams, Station(s) PROVE EndsInv'
<1>1. TypeOK /\ EndsInv
  BY DEF LossInv, LinesInv, IngestInv
<1>2. kind \in [Streams -> Seq(LineKinds)] /\ written \in [Streams -> Seq(Pieces)]
  BY <1>1 DEF TypeOK, Pieces
<1>3. UNCHANGED <<pos, state>> /\ ended \subseteq ended'
  BY DEF Station, StartLine, ContinueLine, EndConnection, Flood
<1>4. \A r \in Streams : r \in ended => written'[r] = written[r]
  <2>1. CASE UNCHANGED written
    BY <2>1
  <2>2. CASE s \notin ended /\ \E x : written' = [written EXCEPT ![s] = x]
    BY <1>2, <2>2
  <2> QED BY <2>1, <2>2 DEF Station, StartLine, ContinueLine, EndConnection, Flood
<1>5. ASSUME NEW r \in Streams, NEW m \in 1..Len(kind[r])
      PROVE  m \in 1..Len(kind'[r]) /\ kind'[r][m] = kind[r][m]
  <2>1. CASE UNCHANGED kind
    BY <2>1
  <2>2. ASSUME NEW k \in LineKinds, kind' = [kind EXCEPT ![s] = Append(@, k)]
        PROVE  m \in 1..Len(kind'[r]) /\ kind'[r][m] = kind[r][m]
    <3>1. PICK q : q = kind[r] OBVIOUS
    <3>2. q \in Seq(LineKinds) /\ Len(q) \in Nat BY <1>2, <3>1, LenProperties
    <3>3. /\ Len(Append(q, k)) = Len(q) + 1
          /\ \A i \in 1..Len(q) : Append(q, k)[i] = q[i]
      BY <3>2, AppendProperties
    <3>4. kind'[r] = q \/ kind'[r] = Append(q, k) BY <1>2, <2>2, <3>1
    <3> QED BY <3>1, <3>2, <3>3, <3>4
  <2> QED BY <2>1, <2>2 DEF Station, StartLine, ContinueLine, EndConnection, Flood
<1>6. ASSUME NEW r \in Streams PROVE Ends(r)'
  <2>1. Ends(r) BY <1>1 DEF EndsInv
  <2>2. state'[r] = "overlong" => \E m \in 1..Len(kind'[r]) : kind'[r][m] = "long event" /\ pos'[r] = 3 * (m - 1)
    <3> SUFFICES ASSUME state'[r] = "overlong"
                 PROVE  \E m \in 1..Len(kind'[r]) : kind'[r][m] = "long event" /\ pos'[r] = 3 * (m - 1)
      OBVIOUS
    <3>1. PICK m \in 1..Len(kind[r]) : kind[r][m] = "long event" /\ pos[r] = 3 * (m - 1)
      BY <1>3, <2>1 DEF Ends
    <3>2. m \in 1..Len(kind'[r]) /\ kind'[r][m] = "long event" /\ pos'[r] = 3 * (m - 1)
      BY <1>3, <1>5, <3>1
    <3> QED BY <3>2
  <2>3. state'[r] = "finished" => r \in ended' /\ pos'[r] = Len(written'[r])
    BY <1>3, <1>4, <2>1 DEF Ends
  <2> QED BY <2>2, <2>3 DEF Ends
<1> QED BY <1>6 DEF EndsInv

\* No other step ends a reader so; those of a process that is gone are lost.
LEMMA NextLoss == ASSUME LossInv, [ServiceNext]_serviceVars PROVE LossInv'
<1>1. LinesInv'
  BY NextLines DEF LossInv
<1> SUFFICES EndsInv'
  BY <1>1 DEF LossInv
<1>2. ASSUME UNCHANGED <<kind, written, ended, pos, state>> PROVE EndsInv'
  BY <1>2 DEF LossInv, EndsInv, Ends
<1>3. CASE \E s \in Streams : Station(s)
  BY <1>3, StationEnds
<1>4. CASE \E s \in Streams : Read(s)
  BY <1>4, ReadEnds
<1>5. CASE \/ \E s \in Streams : Record(s) \/ Push(s)
           \/ Signal \/ Main \/ Crash \/ UNCHANGED serviceVars
  <2>1. UNCHANGED <<kind, written, ended, pos, state>>
    BY <1>5 DEF Record, Push, Signal, Cancel, Main, CloseHub, CloseStore, Exit, Crash, vars, serviceVars
  <2> QED BY <1>2, <2>1
<1>6. CASE Start
  <2>1. \A s \in Streams : state'[s] \in {"reading", "dialing", "lost"}
    BY <1>6 DEF Start
  <2> QED BY <2>1 DEF EndsInv, Ends
<1> QED BY <1>3, <1>4, <1>5, <1>6 DEF ServiceNext, Goroutine

\* No reader has returned yet.
LEMMA InitLoss == ServiceInit => LossInv
<1>1. ServiceInit => EndsInv
  BY DEF ServiceInit, Init, EndsInv, Ends
<1> QED BY <1>1, InitLines DEF LossInv

\* The end of a line is behind its head: what explains the head explains the line.
\* A reader that is not there has returned, and a handler only before a line that is
\* too long, unless it was told to.
LEMMA ExplainedLoss == LossInv => LossIsExplained
<1> SUFFICES ASSUME LossInv, NEW s \in Streams, NEW n \in Complete(s, Len(written[s])), IsEvent(s, n)
             PROVE  IF n \in Consumed(s) THEN n \in Range(out[s]) \cup cut[s]
                    ELSE state[s] \in Returned => NeverRead(s, n)
  BY DEF LossIsExplained
<1>1. TypeOK /\ Layout(s) /\ Explained(s) /\ pos[s] \in Nat /\ Ends(s)
  BY DEF LossInv, EndsInv, LinesInv, IngestInv
<1>2. PICK w, p : w = written[s] /\ p = pos[s]
  OBVIOUS
<1>3. PICK i \in 1..Len(w) : w[i].part = "end" /\ n = w[i].line
  BY <1>2 DEF Complete
<1>4. w \in Seq(Pieces) /\ Len(w) \in Nat /\ p \in 0..Len(w) /\ Len(kind[s]) \in Nat
  <2>1. w \in Seq(Pieces) /\ p \in 0..Len(w) /\ kind[s] \in Seq(LineKinds)
    BY <1>1, <1>2 DEF TypeOK, Pieces
  <2> QED BY <2>1, LenProperties
<1>5. \A j \in 1..Len(w) : w[j].part = "end" /\ n = w[j].line => n \in 1..Len(kind[s]) /\ j = 3 * n
  <2>1. ASSUME NEW j \in 1..Len(w), w[j].part = "end", n = w[j].line PROVE n \in 1..Len(kind[s]) /\ j = 3 * n
    <3>1. w[j].line \in 1..Len(kind[s]) /\ j = 3 * w[j].line - Left(w[j].part)
      BY <1>1, <1>2 DEF Layout
    <3>2. Left("end") = 0 BY DEF Left
    <3> QED BY <1>4, <2>1, <3>1, <3>2
  <2> QED BY <2>1
<1>6. n \in 1..Len(kind[s]) /\ i = 3 * n
  BY <1>3, <1>5
<1>7. n \in Consumed(s) <=> 3 * n <= p
  <2>1. ASSUME n \in Consumed(s) PROVE 3 * n <= p
    <3>1. PICK j \in 1..p : w[j].part = "end" /\ n = w[j].line
      BY <1>2, <2>1 DEF Consumed, Complete
    <3>2. j \in 1..Len(w) /\ j <= p BY <1>4
    <3> QED BY <1>5, <3>1, <3>2
  <2>2. ASSUME 3 * n <= p PROVE n \in Consumed(s)
    <3>1. i \in 1..p BY <1>4, <1>6, <2>2
    <3> QED BY <1>2, <1>3, <3>1 DEF Consumed, Complete
  <2> QED BY <2>1, <2>2
<1>8. CASE n \in Consumed(s)
  <2>1. 3 * n - 2 <= p /\ ~(Len(w) < 3 * n)
    BY <1>4, <1>6, <1>7, <1>8
  <2> QED BY <1>1, <1>2, <1>6, <1>8, <2>1 DEF Explained
<1>9. CASE n \notin Consumed(s)
  <2> SUFFICES ASSUME state[s] \in Returned PROVE NeverRead(s, n)
    BY <1>9
  <2>1. CASE state[s] \in {"cancelled", "failed", "lost"}
    BY <2>1 DEF NeverRead
  <2>2. CASE state[s] = "overlong"
    <3>1. PICK m \in 1..Len(kind[s]) : kind[s][m] = "long event" /\ p = 3 * (m - 1)
      BY <1>1, <1>2, <2>2 DEF Ends
    <3>3. m \in Nat \ {0} BY <1>4
    <3>4. n \in Nat BY <1>4, <1>6
    <3>5. ~(3 * n <= p) BY <1>7, <1>9, Zenon
    <3>6. p = 3 * (m - 1) BY <3>1
    <3>7. m <= n BY ONLY <3>3, <3>4, <3>5, <3>6
    <3>2. m \in 1..n
      BY ONLY <3>3, <3>4, <3>7
    <3> QED BY <2>2, <3>1, <3>2 DEF NeverRead
  <2>3. CASE state[s] = "finished"
    <3>1. p = Len(w) BY <1>1, <1>2, <2>3 DEF Ends
    <3> QED BY <1>4, <1>6, <1>7, <1>9, <3>1
  <2> QED BY <2>1, <2>2, <2>3 DEF Returned
<1> QED BY <1>8, <1>9

\* An event is stored more than once only of a file and in different lives of the
\* process (RecordEvent, store.go:137): of a connection at most once, whatever is cut
\* and whenever the process dies.
THEOREM RowsCorrect == ServiceSpec => []RowsInv
<1>1. LinesInv => RowsInv
  BY DEF LinesInv, RowsInv
<1> QED BY InitLines, NextLines, <1>1, PTL DEF ServiceSpec

\* Tail and handlers (filetail.go, tcp.go) hand on whole events only, each once and in
\* the order of the stream, wherever a read falls in a line.
THEOREM EmittedInOrder == ServiceSpec => []InOrderOnce
<1>1. LinesInv => InOrderOnce
  BY DEF LinesInv, IngestInv
<1> QED BY InitLines, NextLines, <1>1, PTL DEF ServiceSpec

\* A completed event that is missing was cut by a drain or by the shutdown, or its
\* reader has returned before it for one of the reasons NeverRead names: a line that
\* ParseLine refuses is none (filetail.go:56-75, tcp.go:63-81).
THEOREM LossExplained == ServiceSpec => []LossIsExplained
<1> QED BY InitLoss, NextLoss, ExplainedLoss, PTL DEF ServiceSpec

=============================================================================
