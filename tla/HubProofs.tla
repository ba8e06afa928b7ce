----------------------------- MODULE HubProofs ------------------------------
(***************************************************************************)
(* Proofs about Hub, for any number of publishers and subscribers and any  *)
(* backlog and channel size: which state it is ever in, what it delivers   *)
(* (at most once, in the order of every publisher, without a silent gap),  *)
(* and that it implements FanOut.                                          *)
(***************************************************************************)
EXTENDS Hub, SequenceTheorems, FiniteSetTheorems, TLAPS

-----------------------------------------------------------------------------
(* The helpers *)

\* New's clamp: whatever backlog_size says, at least one message is retained.
LEMMA CapacityIsPositive == Capacity \in Nat \ {0}
BY SizesAssumption DEF Capacity

\* Retain keeps a suffix of the longer log that fits the capacity.
LEMMA RetainProperties ==
    ASSUME NEW S, NEW log \in Seq(S), NEW n \in S, Len(log) <= Capacity
    PROVE  /\ Retain(log, n) \in Seq(S)
           /\ Len(Retain(log, n)) = IF Len(log) < Capacity THEN Len(log) + 1 ELSE Capacity
           /\ \A i \in 1..Len(Retain(log, n)) :
                  Retain(log, n)[i] = Append(log, n)[i + Len(log) + 1 - Len(Retain(log, n))]
<1> DEFINE longer == Append(log, n)
           from   == IF Len(longer) > Capacity THEN Len(longer) - Capacity + 1 ELSE 1
<1>1. /\ longer \in Seq(S)
      /\ Len(longer) = Len(log) + 1
      /\ Len(log) \in Nat
  BY AppendProperties, LenProperties
<1> HIDE DEF longer
<1>2. /\ from \in 1..Len(longer)
      /\ Len(longer) - from + 1 = IF Len(log) < Capacity THEN Len(log) + 1 ELSE Capacity
  <2>1. CASE Len(log) < Capacity
    <3>1. ~(Len(longer) > Capacity)
      BY <1>1, <2>1, CapacityIsPositive
    <3>2. from = 1
      BY <3>1
    <3> HIDE DEF from
    <3>3. QED BY <1>1, <2>1, <3>2, CapacityIsPositive
  <2>2. CASE Len(log) = Capacity
    BY <1>1, <2>2, CapacityIsPositive
  <2> HIDE DEF from
  <2>3. Len(log) < Capacity \/ Len(log) = Capacity
    BY <1>1, CapacityIsPositive
  <2>4. QED BY <2>1, <2>2, <2>3
<1>3. \A i \in from..Len(longer) : longer[i] \in S
  BY <1>1, <1>2, ElementOfSeq
<1> HIDE DEF from
<1>4. /\ SubSeq(longer, from, Len(longer)) \in Seq(S)
      /\ Len(SubSeq(longer, from, Len(longer))) = Len(longer) - from + 1
      /\ \A i \in 1..(Len(longer) - from + 1) :
             SubSeq(longer, from, Len(longer))[i] = longer[from + i - 1]
  <2>1. from \in Int /\ Len(longer) \in Int /\ from <= Len(longer)
    BY <1>1, <1>2
  <2>2. QED BY <2>1, <1>3, SubSeqProperties
<1>5. Retain(log, n) = SubSeq(longer, from, Len(longer))
  BY DEF Retain, longer, from
<1>6. \A i \in 1..Len(Retain(log, n)) :
          longer[from + i - 1] = longer[i + Len(log) + 1 - Len(Retain(log, n))]
  <2> SUFFICES ASSUME NEW i \in 1..Len(Retain(log, n))
               PROVE  from + i - 1 = i + Len(log) + 1 - Len(Retain(log, n))
    OBVIOUS
  <2>1. Len(Retain(log, n)) = Len(log) + 1 - from + 1
    BY <1>1, <1>4, <1>5
  <2>2. from \in Int /\ i \in Int
    BY <1>1, <1>2, <1>4, <1>5
  <2>3. QED BY <2>1, <2>2, <1>1
<1>7. QED BY <1>1, <1>2, <1>4, <1>5, <1>6 DEF longer

\* The backfill loop sends what the backlog retains after the skipped messages, in
\* the order of the backlog, as much of it as the channel holds.
LEMMA BackfillProperties ==
    ASSUME NEW S, backlog \in Seq(S), NEW lastSeq
    PROVE  /\ Backfill(lastSeq) \in Seq(S)
           /\ Skipped(lastSeq) \in 0..Len(backlog)
           /\ Len(Backfill(lastSeq)) =
                  IF Len(backlog) - Skipped(lastSeq) > ChanCap
                  THEN ChanCap ELSE Len(backlog) - Skipped(lastSeq)
           /\ \A i \in 1..Len(Backfill(lastSeq)) :
                  Backfill(lastSeq)[i] = backlog[Skipped(lastSeq) + i]
<1> DEFINE k     == Skipped(lastSeq)
           above == Above(lastSeq)
           last  == IF Len(above) > ChanCap THEN ChanCap ELSE Len(above)
<1>1. Len(backlog) \in Nat
  BY LenProperties
<1> HIDE DEF above, last
<1>2. k \in 0..Len(backlog)
  <2>1. IsFiniteSet(1..Len(backlog)) /\ Cardinality(1..Len(backlog)) = Len(backlog)
    BY <1>1, FS_Interval
  <2>2. {i \in 1..Len(backlog) : backlog[i] <= lastSeq} \in SUBSET (1..Len(backlog))
    OBVIOUS
  <2>3. k \in Nat /\ k <= Len(backlog)
    BY <2>1, <2>2, FS_Subset, FS_CardinalityType DEF Skipped
  <2>4. QED BY <2>3
<1>3. \A i \in (k + 1)..Len(backlog) : backlog[i] \in S
  BY <1>1, <1>2, ElementOfSeq
<1> HIDE DEF k
<1>4. /\ above \in Seq(S)
      /\ Len(above) = Len(backlog) - k
      /\ \A i \in 1..(Len(backlog) - k) : above[i] = backlog[k + i]
  <2>1. above = SubSeq(backlog, k + 1, Len(backlog))
    BY DEF above, Above, k
  <2>2. k + 1 \in Int /\ Len(backlog) \in Int
    BY <1>1, <1>2
  <2>3. /\ SubSeq(backlog, k + 1, Len(backlog)) \in Seq(S)
        /\ Len(SubSeq(backlog, k + 1, Len(backlog)))
             = IF k + 1 <= Len(backlog) THEN Len(backlog) - (k + 1) + 1 ELSE 0
        /\ \A i \in 1..(Len(backlog) - (k + 1) + 1) :
               SubSeq(backlog, k + 1, Len(backlog))[i] = backlog[(k + 1) + i - 1]
    BY <2>2, <1>3, SubSeqProperties
  <2>4. Len(above) = Len(backlog) - k
    BY <2>1, <2>3, <1>1, <1>2
  <2>5. ASSUME NEW i \in 1..(Len(backlog) - k)
        PROVE  above[i] = backlog[k + i]
    <3>1. i \in 1..(Len(backlog) - (k + 1) + 1) /\ (k + 1) + i - 1 = k + i
      BY <1>1, <1>2
    <3>2. QED BY <3>1, <2>1, <2>3
  <2>6. QED BY <2>1, <2>3, <2>4, <2>5
<1>5. /\ last \in Int
      /\ last <= Len(above)
      /\ last >= 0
      /\ last <= ChanCap
  BY <1>1, <1>2, <1>4, SizesAssumption DEF last
<1>6. \A i \in 1..last : above[i] \in S
  BY <1>4, <1>5, ElementOfSeq, <1>1, <1>2
<1>7. /\ SubSeq(above, 1, last) \in Seq(S)
      /\ Len(SubSeq(above, 1, last)) = last
      /\ \A i \in 1..last : SubSeq(above, 1, last)[i] = above[i]
  <2>1. /\ SubSeq(above, 1, last) \in Seq(S)
        /\ Len(SubSeq(above, 1, last)) = IF 1 <= last THEN last - 1 + 1 ELSE 0
        /\ \A i \in 1..(last - 1 + 1) : SubSeq(above, 1, last)[i] = above[1 + i - 1]
    BY <1>5, <1>6, SubSeqProperties
  <2>2. QED BY <2>1, <1>5
<1>8. Backfill(lastSeq) = SubSeq(above, 1, last)
  BY DEF Backfill, above, last
<1>9. last = IF Len(backlog) - k > ChanCap THEN ChanCap ELSE Len(backlog) - k
  BY <1>4 DEF last
<1>10. \A i \in 1..last : SubSeq(above, 1, last)[i] = backlog[k + i]
  BY <1>1, <1>2, <1>4, <1>5, <1>7
<1>11. QED BY <1>2, <1>7, <1>8, <1>9, <1>10 DEF k

-----------------------------------------------------------------------------
(* Types and the backlog *)

LEMMA InitCoreInv == Init => CoreInv
<1> SUFFICES ASSUME Init PROVE CoreInv
  OBVIOUS
<1>1. \A S : <<>> \in Seq(S) /\ Len(<<>>) = 0
  BY EmptySeq
<1>2. TypeOK
  <2>1. seq \in Nat /\ 1..seq = {}
    BY DEF Init
  <2>2. /\ backlog \in Seq(1..seq)
        /\ chan \in [Subs -> Seq(1..seq)]
        /\ got \in [Subs -> Seq(1..seq)]
    BY <1>1 DEF Init
  <2>3. author \in [1..seq -> Publishers]
    BY <1>1, <2>1, LenProperties DEF Init
  <2>4. /\ sending \in [Publishers -> 0..seq]
        /\ liveFrom \in [Subs -> 0..seq]
    BY DEF Init
  <2>5. /\ targets \in [Publishers -> SUBSET Subs]
        /\ dropping \in [Publishers -> Subs \cup {NoSub}]
        /\ closing \in Subs \cup {NoSub}
        /\ crash = "none"
        /\ closed \in BOOLEAN
        /\ subs \subseteq Subs /\ chClosed \subseteq Subs /\ reading \subseteq Subs
        /\ toClose \subseteq Subs /\ joined \subseteq Subs /\ aborted \subseteq 1..seq
    BY DEF Init
  <2>6. QED BY <2>1, <2>2, <2>3, <2>4, <2>5 DEF TypeOK
<1>3. BacklogIsNewestSuffix
  BY <1>1, CapacityIsPositive DEF Init, BacklogIsNewestSuffix
<1>4. HoldsItsMessage
  BY DEF Init, HoldsItsMessage, Busy
<1>5. QED BY <1>2, <1>3, <1>4 DEF CoreInv

\* A function into sequences stays one when the sequence numbers in use grow.
LEMMA SeqFunctionsGrow ==
    ASSUME NEW D, NEW m \in Nat, NEW f \in [D -> Seq(1..m)]
    PROVE  f \in [D -> Seq(1..(m + 1))]
<1>1. 1..m \subseteq 1..(m + 1)
  OBVIOUS
<1>2. \A d \in D : f[d] \in Seq(1..(m + 1))
  <2> TAKE d \in D
  <2>1. f[d] \in Seq(1..m)
    OBVIOUS
  <2>2. QED BY <1>1, <2>1, SeqMonotonic
<1>3. QED BY <1>2

LEMMA BroadcastCoreInv ==
    ASSUME CoreInv, NEW p \in Publishers, Broadcast(p)
    PROVE  CoreInv'
<1> DEFINE n == seq + 1
<1>1. /\ seq \in Nat
      /\ n \in Nat
      /\ n \in 1..n
      /\ 1..seq \subseteq 1..n
      /\ seq' = n
  <2>1. seq \in Nat /\ seq' = seq + 1
    BY DEF CoreInv, TypeOK, Broadcast
  <2>2. QED BY <2>1
<1>2. /\ backlog \in Seq(1..n)
      /\ Len(backlog) \in Nat
      /\ Len(backlog) <= Capacity
      /\ Len(backlog) = IF seq < Capacity THEN seq ELSE Capacity
  <2>1. backlog \in Seq(1..seq)
    BY DEF CoreInv, TypeOK
  <2>2. backlog \in Seq(1..n) /\ Len(backlog) \in Nat
    BY <1>1, <2>1, SeqMonotonic, LenProperties
  <2>3. Len(backlog) = IF seq < Capacity THEN seq ELSE Capacity
    BY DEF CoreInv, BacklogIsNewestSuffix
  <2>4. QED BY <1>1, <2>2, <2>3, CapacityIsPositive
<1>3. /\ backlog' \in Seq(1..n)
      /\ Len(backlog') = IF Len(backlog) < Capacity THEN Len(backlog) + 1 ELSE Capacity
      /\ \A i \in 1..Len(backlog') :
             backlog'[i] = Append(backlog, n)[i + Len(backlog) + 1 - Len(backlog')]
  <2>1. backlog' = Retain(backlog, n)
    BY DEF Broadcast
  <2>2. QED BY <1>1, <1>2, <2>1, RetainProperties
<1>4. BacklogIsNewestSuffix'
  <2>1. Len(backlog') = IF n < Capacity THEN n ELSE Capacity
    <3>1. CASE seq < Capacity
      BY <1>1, <1>2, <1>3, <3>1, CapacityIsPositive
    <3>2. CASE seq >= Capacity
      BY <1>1, <1>2, <1>3, <3>2, CapacityIsPositive
    <3>3. QED BY <1>1, <3>1, <3>2, CapacityIsPositive
  <2>2. ASSUME NEW i \in 1..Len(backlog')
        PROVE  backlog'[i] = n - Len(backlog') + i
    <3> DEFINE j == i + Len(backlog) + 1 - Len(backlog')
    <3>1. /\ j \in 1..(Len(backlog) + 1)
          /\ i \in Nat
          /\ Len(backlog') \in Nat
      BY <1>2, <1>3, CapacityIsPositive
    <3>2. /\ Append(backlog, n)[Len(backlog) + 1] = n
          /\ \A k \in 1..Len(backlog) : Append(backlog, n)[k] = backlog[k]
      BY <1>1, <1>2, AppendProperties
    <3>3. backlog'[i] = Append(backlog, n)[j]
      BY <1>3
    <3>4. CASE j = Len(backlog) + 1
      <4>1. i = Len(backlog')
        BY <3>1, <3>4, <1>2
      <4>2. QED BY <3>1, <3>2, <3>3, <3>4, <4>1, <1>1
    <3>5. CASE j \in 1..Len(backlog)
      <4>1. backlog[j] = seq - Len(backlog) + j
        BY <3>5 DEF CoreInv, BacklogIsNewestSuffix
      <4>2. seq - Len(backlog) + j = n - Len(backlog') + i
        BY <1>1, <1>2, <3>1
      <4>3. QED BY <3>2, <3>3, <3>5, <4>1, <4>2
    <3>6. j = Len(backlog) + 1 \/ j \in 1..Len(backlog)
      BY <3>1, <1>2
    <3>7. QED BY <3>4, <3>5, <3>6
  <2>3. QED BY <1>1, <2>1, <2>2 DEF BacklogIsNewestSuffix
<1>5. TypeOK'
  <2>1. chan' \in [Subs -> Seq(1..n)] /\ got' \in [Subs -> Seq(1..n)]
    <3>1. chan \in [Subs -> Seq(1..seq)] /\ got \in [Subs -> Seq(1..seq)]
      BY DEF CoreInv, TypeOK
    <3>2. chan' = chan /\ got' = got
      BY DEF Broadcast, chanVars
    <3>3. QED BY <1>1, <3>1, <3>2, SeqFunctionsGrow
  <2>2. author' \in [1..n -> Publishers]
    <3>1. author \in [1..seq -> Publishers] /\ author' = Append(author, p)
      BY DEF CoreInv, TypeOK, Broadcast
    <3>2. author \in Seq(Publishers) /\ Len(author) = seq
      BY <1>1, <3>1
    <3>3. /\ Append(author, p) \in Seq(Publishers)
          /\ Len(Append(author, p)) = n
      BY <3>2, AppendProperties
    <3>4. QED BY <3>1, <3>3, LenProperties
  <2>3. /\ sending' \in [Publishers -> 0..n]
        /\ targets' \in [Publishers -> SUBSET Subs]
        /\ dropping' \in [Publishers -> Subs \cup {NoSub}]
    <3>1. /\ sending \in [Publishers -> 0..seq]
          /\ targets \in [Publishers -> SUBSET Subs]
          /\ dropping \in [Publishers -> Subs \cup {NoSub}]
          /\ subs \subseteq Subs
      BY DEF CoreInv, TypeOK
    <3>2. /\ sending' = [sending EXCEPT ![p] = n]
          /\ targets' = [targets EXCEPT ![p] = subs]
          /\ dropping' = dropping
      BY DEF Broadcast
    <3>3. 0..seq \subseteq 0..n /\ n \in 0..n
      BY <1>1
    <3>4. QED BY <3>1, <3>2, <3>3
  <2>4. /\ subs' \subseteq Subs
        /\ closed' \in BOOLEAN
        /\ chClosed' \subseteq Subs
        /\ reading' \subseteq Subs
        /\ toClose' \subseteq Subs
        /\ closing' \in Subs \cup {NoSub}
        /\ crash' \in {"none", "send on closed channel", "close of closed channel"}
        /\ joined' \subseteq Subs
    BY DEF CoreInv, TypeOK, Broadcast, chanVars, stopVars
  <2>5. liveFrom' \in [Subs -> 0..n] /\ aborted' \subseteq 1..n
    <3>1. liveFrom \in [Subs -> 0..seq] /\ aborted \subseteq 1..seq
      BY DEF CoreInv, TypeOK
    <3>2. liveFrom' = liveFrom /\ aborted' = aborted
      BY DEF Broadcast
    <3>3. 0..seq \subseteq 0..n
      BY <1>1
    <3>4. QED BY <1>1, <3>1, <3>2, <3>3
  <2>6. QED BY <1>1, <1>3, <2>1, <2>2, <2>3, <2>4, <2>5 DEF TypeOK
<1>6. HoldsItsMessage'
  <2> SUFFICES ASSUME NEW q \in Publishers, Busy(q)'
               PROVE  sending'[q] # 0 /\ author'[sending'[q]] = q
    BY DEF HoldsItsMessage
  <2>1. /\ author \in Seq(Publishers)
        /\ Len(author) = seq
        /\ author' = Append(author, p)
        /\ sending \in [Publishers -> 0..seq]
        /\ sending' = [sending EXCEPT ![p] = n]
    <3>1. author \in [1..seq -> Publishers] /\ sending \in [Publishers -> 0..seq]
      BY DEF CoreInv, TypeOK
    <3>2. author \in Seq(Publishers) /\ Len(author) = seq
      BY <1>1, <3>1
    <3>3. QED BY <3>1, <3>2 DEF Broadcast
  <2>2. /\ author'[n] = p
        /\ \A i \in 1..seq : author'[i] = author[i]
    BY <1>1, <2>1, AppendProperties
  <2>3. CASE q = p
    BY <1>1, <2>1, <2>2, <2>3
  <2>4. CASE q # p
    <3>1. targets'[q] = targets[q] /\ dropping'[q] = dropping[q]
      BY <2>4 DEF Broadcast, CoreInv, TypeOK
    <3>2. sending[q] # 0 /\ author[sending[q]] = q
      BY <3>1 DEF CoreInv, HoldsItsMessage, Busy
    <3>3. sending'[q] = sending[q] /\ sending[q] \in 1..seq
      BY <1>1, <2>1, <2>4, <3>2
    <3>4. QED BY <2>2, <3>2, <3>3
  <2>5. QED BY <2>3, <2>4
<1>7. QED BY <1>4, <1>5, <1>6 DEF CoreInv

-----------------------------------------------------------------------------
(* The other actions leave seq, the backlog and the authors as they are *)

LEMMA DeliverCoreInv ==
    ASSUME CoreInv, NEW p \in Publishers, NEW s \in Subs, Deliver(p, s)
    PROVE  CoreInv'
<1>1. TypeOK'
  <2>1. sending[p] \in 1..seq
    <3>1. sending[p] # 0 /\ sending[p] \in 0..seq /\ seq \in Nat
      BY DEF CoreInv, HoldsItsMessage, Busy, Deliver, Visit, TypeOK
    <3>2. QED BY <3>1
  <2>2. chan' \in [Subs -> Seq(1..seq)]
    <3>1. chan \in [Subs -> Seq(1..seq)] /\ chan[s] \in Seq(1..seq)
      BY DEF CoreInv, TypeOK
    <3>2. Append(chan[s], sending[p]) \in Seq(1..seq)
      BY <2>1, <3>1, AppendProperties
    <3>3. chan' = [chan EXCEPT ![s] = Append(chan[s], sending[p])]
      BY DEF Deliver
    <3>4. QED BY <3>1, <3>2, <3>3
  <2>3. targets' \in [Publishers -> SUBSET Subs]
    BY DEF CoreInv, TypeOK, Deliver
  <2>4. UNCHANGED <<hubVars, chClosed, reading, sending, dropping, stopVars, crash, histVars>>
    BY DEF Deliver
  <2>5. QED BY <2>2, <2>3, <2>4 DEF CoreInv, TypeOK, hubVars, stopVars, histVars
<1>2. BacklogIsNewestSuffix'
  BY DEF CoreInv, BacklogIsNewestSuffix, Deliver, hubVars
<1>3. HoldsItsMessage'
  BY DEF CoreInv, TypeOK, HoldsItsMessage, Busy, Deliver, Visit, histVars
<1>4. QED BY <1>1, <1>2, <1>3 DEF CoreInv

LEMMA FindFullCoreInv ==
    ASSUME CoreInv, NEW p \in Publishers, NEW s \in Subs, FindFull(p, s)
    PROVE  CoreInv'
<1>1. TypeOK'
  BY DEF CoreInv, TypeOK, FindFull, hubVars, chanVars, stopVars, histVars
<1>2. BacklogIsNewestSuffix'
  BY DEF CoreInv, BacklogIsNewestSuffix, FindFull, hubVars
<1>3. HoldsItsMessage'
  BY DEF CoreInv, TypeOK, HoldsItsMessage, Busy, FindFull, Visit, histVars
<1>4. QED BY <1>1, <1>2, <1>3 DEF CoreInv

LEMMA SendOnClosedCoreInv ==
    ASSUME CoreInv, NEW p \in Publishers, NEW s \in Subs, SendOnClosed(p, s)
    PROVE  CoreInv'
<1>1. TypeOK'
  <2>1. sending[p] \in 1..seq
    <3>1. sending[p] # 0 /\ sending[p] \in 0..seq /\ seq \in Nat
      BY DEF CoreInv, HoldsItsMessage, Busy, SendOnClosed, Visit, TypeOK
    <3>2. QED BY <3>1
  <2>2. CASE p \in Handlers
    BY <2>1, <2>2 DEF CoreInv, TypeOK, SendOnClosed, hubVars, chanVars, stopVars
  <2>3. CASE p \notin Handlers
    BY <2>3 DEF CoreInv, TypeOK, SendOnClosed, hubVars, chanVars, stopVars
  <2>4. QED BY <2>2, <2>3
<1>2. BacklogIsNewestSuffix'
  BY DEF CoreInv, BacklogIsNewestSuffix, SendOnClosed, hubVars
<1>3. HoldsItsMessage'
  BY DEF CoreInv, TypeOK, HoldsItsMessage, Busy, SendOnClosed, Visit
<1>4. QED BY <1>1, <1>2, <1>3 DEF CoreInv

LEMMA SubscribeCoreInv ==
    ASSUME CoreInv, NEW s \in Subs, NEW lastSeq, Subscribe(s, lastSeq)
    PROVE  CoreInv'
<1>1. TypeOK'
  <2>1. Backfill(lastSeq) \in Seq(1..seq)
    BY BackfillProperties DEF CoreInv, TypeOK
  <2>2. chan' \in [Subs -> Seq(1..seq)]
    <3>1. chan' = chan \/ chan' = [chan EXCEPT ![s] = Backfill(lastSeq)]
      BY DEF Subscribe
    <3>2. chan \in [Subs -> Seq(1..seq)]
      BY DEF CoreInv, TypeOK
    <3>3. QED BY <2>1, <3>1, <3>2
  <2>3. liveFrom' \in [Subs -> 0..seq]
    <3>1. /\ liveFrom \in [Subs -> 0..seq]
          /\ seq \in 0..seq
          /\ liveFrom' = [liveFrom EXCEPT ![s] = seq]
      <4>1. seq \in Nat /\ liveFrom \in [Subs -> 0..seq]
        BY DEF CoreInv, TypeOK
      <4>2. QED BY <4>1 DEF Subscribe
    <3>2. QED BY <3>1
  <2>4. subs' \subseteq Subs /\ chClosed' \subseteq Subs
    BY DEF CoreInv, TypeOK, Subscribe
  <2>5. /\ joined' = joined \cup {s} /\ reading' = reading \cup {s}
        /\ UNCHANGED <<seq, backlog, closed, pubVars, stopVars, crash, author, got, aborted>>
    BY DEF Subscribe
  <2>6. QED BY <2>2, <2>3, <2>4, <2>5 DEF CoreInv, TypeOK, pubVars, stopVars
<1>2. BacklogIsNewestSuffix'
  BY DEF CoreInv, BacklogIsNewestSuffix, Subscribe
<1>3. HoldsItsMessage'
  BY DEF CoreInv, HoldsItsMessage, Busy, Subscribe, pubVars
<1>4. QED BY <1>1, <1>2, <1>3 DEF CoreInv

LEMMA DropSlowCoreInv ==
    ASSUME CoreInv, NEW p \in Publishers, DropSlow(p)
    PROVE  CoreInv'
<1>1. TypeOK'
  BY DEF CoreInv, TypeOK, DropSlow, Unsubscribe, stopVars, histVars
<1>2. BacklogIsNewestSuffix'
  BY DEF CoreInv, BacklogIsNewestSuffix, DropSlow, Unsubscribe
<1>3. HoldsItsMessage'
  BY DEF CoreInv, TypeOK, HoldsItsMessage, Busy, DropSlow, histVars
<1>4. QED BY <1>1, <1>2, <1>3 DEF CoreInv

LEMMA ReceiveCoreInv ==
    ASSUME CoreInv, NEW s \in Subs, Receive(s)
    PROVE  CoreInv'
<1>1. TypeOK'
  <2>1. chan[s] \in Seq(1..seq) /\ got[s] \in Seq(1..seq) /\ chan[s] # <<>>
    BY DEF CoreInv, TypeOK, Receive
  <2>2. Append(got[s], Head(chan[s])) \in Seq(1..seq) /\ Tail(chan[s]) \in Seq(1..seq)
    BY <2>1, HeadTailProperties, AppendProperties
  <2>3. chan' \in [Subs -> Seq(1..seq)] /\ got' \in [Subs -> Seq(1..seq)]
    <3>1. /\ chan' = [chan EXCEPT ![s] = Tail(chan[s])]
          /\ got' = [got EXCEPT ![s] = Append(got[s], Head(chan[s]))]
      BY DEF Receive
    <3>2. chan \in [Subs -> Seq(1..seq)] /\ got \in [Subs -> Seq(1..seq)]
      BY DEF CoreInv, TypeOK
    <3>3. QED BY <2>2, <3>1, <3>2
  <2>4. UNCHANGED <<hubVars, chClosed, reading, pubVars, stopVars, crash,
                    author, joined, liveFrom, aborted>>
    BY DEF Receive
  <2>5. QED BY <2>3, <2>4 DEF CoreInv, TypeOK, hubVars, pubVars, stopVars
<1>2. BacklogIsNewestSuffix'
  BY DEF CoreInv, BacklogIsNewestSuffix, Receive, hubVars
<1>3. HoldsItsMessage'
  BY DEF CoreInv, HoldsItsMessage, Busy, Receive, pubVars
<1>4. QED BY <1>1, <1>2, <1>3 DEF CoreInv

LEMMA LeaveCoreInv ==
    ASSUME CoreInv, NEW s \in Subs, Leave(s)
    PROVE  CoreInv'
<1>1. TypeOK'
  BY DEF CoreInv, TypeOK, Leave, Unsubscribe, pubVars, stopVars, histVars
<1>2. BacklogIsNewestSuffix'
  BY DEF CoreInv, BacklogIsNewestSuffix, Leave, Unsubscribe
<1>3. HoldsItsMessage'
  BY DEF CoreInv, HoldsItsMessage, Busy, Leave, pubVars, histVars
<1>4. QED BY <1>1, <1>2, <1>3 DEF CoreInv

LEMMA ShutdownCoreInv ==
    ASSUME CoreInv, Shutdown \/ ShutdownStep
    PROVE  CoreInv'
<1>1. CASE Shutdown
  <2>1. TypeOK'
    BY <1>1 DEF CoreInv, TypeOK, Shutdown, chanVars, pubVars, histVars
  <2>2. BacklogIsNewestSuffix' /\ HoldsItsMessage'
    BY <1>1 DEF CoreInv, BacklogIsNewestSuffix, HoldsItsMessage, Busy, Shutdown,
                pubVars, histVars
  <2>3. QED BY <2>1, <2>2 DEF CoreInv
<1>2. ASSUME NEW s \in Subs, ShutdownTest(s) PROVE CoreInv'
  <2>1. TypeOK'
    BY <1>2 DEF CoreInv, TypeOK, ShutdownTest, hubVars, chanVars, pubVars, histVars
  <2>2. BacklogIsNewestSuffix' /\ HoldsItsMessage'
    BY <1>2 DEF CoreInv, BacklogIsNewestSuffix, HoldsItsMessage, Busy, ShutdownTest,
                hubVars, pubVars, histVars
  <2>3. QED BY <2>1, <2>2 DEF CoreInv
<1>3. CASE ShutdownClose
  <2>1. TypeOK'
    BY <1>3 DEF CoreInv, TypeOK, ShutdownClose, hubVars, pubVars, histVars
  <2>2. BacklogIsNewestSuffix' /\ HoldsItsMessage'
    BY <1>3 DEF CoreInv, BacklogIsNewestSuffix, HoldsItsMessage, Busy, ShutdownClose,
                hubVars, pubVars, histVars
  <2>3. QED BY <2>1, <2>2 DEF CoreInv
<1>4. QED BY <1>1, <1>2, <1>3 DEF ShutdownStep

\* CoreInv is inductive.
LEMMA NextCoreInv == CoreInv /\ [Next]_vars => CoreInv'
<1> SUFFICES ASSUME CoreInv, [Next]_vars PROVE CoreInv'
  OBVIOUS
<1>1. ASSUME NEW p \in Publishers, Broadcast(p) PROVE CoreInv'
  BY <1>1, BroadcastCoreInv
<1>2. ASSUME NEW p \in Publishers, PublisherStep(p) PROVE CoreInv'
  BY <1>2, DeliverCoreInv, FindFullCoreInv, SendOnClosedCoreInv, DropSlowCoreInv
  DEF PublisherStep
<1>3. ASSUME NEW s \in Subs, NEW lastSeq, Subscribe(s, lastSeq) PROVE CoreInv'
  BY <1>3, SubscribeCoreInv
<1>4. ASSUME NEW s \in Subs, Receive(s) \/ Leave(s) PROVE CoreInv'
  BY <1>4, ReceiveCoreInv, LeaveCoreInv
<1>5. CASE Shutdown \/ ShutdownStep
  BY <1>5, ShutdownCoreInv
<1>6. CASE UNCHANGED vars
  <2>1. TypeOK'
    BY <1>6 DEF CoreInv, TypeOK, vars, hubVars, chanVars, pubVars, stopVars, histVars
  <2>2. BacklogIsNewestSuffix' /\ HoldsItsMessage'
    BY <1>6 DEF CoreInv, BacklogIsNewestSuffix, HoldsItsMessage, Busy, vars, hubVars,
                pubVars, histVars
  <2>3. QED BY <2>1, <2>2 DEF CoreInv
<1>7. QED BY <1>1, <1>2, <1>3, <1>4, <1>5, <1>6 DEF Next

\* Every number in use has been assigned, the backlog is the newest messages without
\* a hole, min(seq, Capacity) of them, and a publisher in its loop still holds its own
\* message: for every configured backlog_size.
THEOREM CoreCorrect == Spec => []CoreInv
<1>1. QED BY InitCoreInv, NextCoreInv, PTL DEF Spec

\* Every variable keeps its type.
COROLLARY TypeCorrect == Spec => []TypeOK
<1>1. CoreInv => TypeOK
  BY DEF CoreInv
<1>2. QED BY <1>1, CoreCorrect, PTL

-----------------------------------------------------------------------------
(* Closing a channel *)

LEMMA InitOwnership == Init => OwnershipInv
BY NoSubAssumption DEF Init, OwnershipInv, NoDoubleClose, CloseOwnership

LEMMA NextOwnership == TypeOK /\ OwnershipInv /\ [Next]_vars => OwnershipInv'
<1> SUFFICES ASSUME TypeOK, OwnershipInv, [Next]_vars PROVE OwnershipInv'
  OBVIOUS
<1> USE DEF OwnershipInv, NoDoubleClose, CloseOwnership
<1>1. ASSUME NEW p \in Publishers, Broadcast(p) PROVE OwnershipInv'
  BY <1>1 DEF Broadcast, chanVars, stopVars
<1>2. ASSUME NEW p \in Publishers, NEW s \in Subs, Deliver(p, s) \/ FindFull(p, s)
      PROVE  OwnershipInv'
  <2>1. UNCHANGED <<subs, closed, chClosed, toClose, closing, crash, joined>>
    BY <1>2 DEF Deliver, FindFull, hubVars, chanVars, stopVars, histVars
  <2>2. QED BY <2>1
<1>3. ASSUME NEW p \in Publishers, NEW s \in Subs, SendOnClosed(p, s) PROVE OwnershipInv'
  BY <1>3 DEF SendOnClosed, hubVars, chanVars, stopVars
<1>4. ASSUME NEW p \in Publishers, DropSlow(p) PROVE OwnershipInv'
  <2>1. UNCHANGED <<closed, toClose, closing, crash, joined>>
    BY <1>4 DEF DropSlow, Unsubscribe, stopVars, histVars
  <2>2. PICK s : /\ subs' = subs \ {s}
                 /\ chClosed' = IF s \in subs THEN chClosed \cup {s} ELSE chClosed
    BY <1>4 DEF DropSlow, Unsubscribe
  <2>3. CASE s \in subs
    <3>1. ~closed /\ toClose = {} /\ closing = NoSub /\ s # NoSub
      BY <2>3, NoSubAssumption DEF TypeOK
    <3>2. subs' = subs \ {s} /\ chClosed' = chClosed \cup {s}
      BY <2>2, <2>3
    <3>3. QED BY <2>1, <2>3, <3>1, <3>2
  <2>4. CASE s \notin subs
    <3>1. subs' = subs /\ chClosed' = chClosed
      BY <2>2, <2>4
    <3>2. QED BY <2>1, <3>1
  <2>5. QED BY <2>3, <2>4
\* A newcomer is nobody's yet: joined holds every subscriber a party may close.
<1>5. ASSUME NEW s \in Subs, NEW lastSeq, Subscribe(s, lastSeq) PROVE OwnershipInv'
  BY <1>5, NoSubAssumption DEF Subscribe, stopVars
<1>6. ASSUME NEW s \in Subs, Receive(s) PROVE OwnershipInv'
  BY <1>6 DEF Receive, hubVars, stopVars
<1>7. ASSUME NEW s \in Subs, Leave(s) PROVE OwnershipInv'
  <2>1. UNCHANGED <<closed, toClose, closing, crash, joined>>
    BY <1>7 DEF Leave, Unsubscribe, stopVars, histVars
  <2>2. /\ subs' = subs \ {s}
        /\ chClosed' = IF s \in subs THEN chClosed \cup {s} ELSE chClosed
    BY <1>7 DEF Leave, Unsubscribe
  <2>3. CASE s \in subs
    BY <2>1, <2>2, <2>3, NoSubAssumption
  <2>4. CASE s \notin subs
    <3>1. subs' = subs /\ chClosed' = chClosed
      BY <2>2, <2>4
    <3>2. QED BY <2>1, <3>1
  <2>5. QED BY <2>3, <2>4
\* Shutdown hands all registered subscribers to its goroutine at once.
<1>8. CASE Shutdown
  BY <1>8, NoSubAssumption DEF Shutdown, chanVars, histVars, TypeOK
<1>9. ASSUME NEW s \in Subs, ShutdownTest(s) PROVE OwnershipInv'
  <2>1. UNCHANGED <<subs, closed, chClosed, crash, joined>>
    BY <1>9 DEF ShutdownTest, hubVars, chanVars, histVars
  <2>2. closing = NoSub /\ s \in toClose /\ s \notin chClosed /\ s # NoSub
    BY <1>9, NoSubAssumption DEF ShutdownTest
  <2>3. toClose' = toClose \ {s} /\ closing' = s
    BY <1>9, <2>2 DEF ShutdownTest
  <2>4. QED BY <2>1, <2>2, <2>3
<1>10. CASE ShutdownClose
  <2>1. UNCHANGED <<subs, closed, toClose, joined>>
    BY <1>10 DEF ShutdownClose, hubVars, histVars
  <2>2. closing # NoSub /\ closing \notin chClosed
    BY <1>10 DEF ShutdownClose
  <2>3. crash' = crash /\ chClosed' = chClosed \cup {closing} /\ closing' = NoSub
    BY <1>10, <2>2 DEF ShutdownClose
  <2>4. NoSub \notin toClose /\ NoSub \notin chClosed
    BY NoSubAssumption DEF TypeOK
  <2>5. closed /\ subs = {} /\ NoDoubleClose
    BY <2>2
  <2>6. /\ joined = subs \cup chClosed \cup toClose \cup {closing}
        /\ closing \notin toClose /\ toClose \cap chClosed = {}
    BY <2>2
  <2>7. joined' = subs' \cup chClosed' \cup toClose' \cup ({closing'} \ {NoSub})
    BY <2>1, <2>3, <2>6
  <2>8. subs' \cap chClosed' = {} /\ toClose' \cap chClosed' = {}
    BY <2>1, <2>3, <2>5, <2>6
  <2>9. closing' \notin chClosed' \cup toClose'
    BY <2>1, <2>2, <2>3, <2>4
  <2>10. QED BY <2>1, <2>3, <2>5, <2>7, <2>8, <2>9
<1>11. CASE UNCHANGED vars
  BY <1>11 DEF vars, hubVars, chanVars, stopVars, histVars
<1>12. QED
  BY <1>1, <1>2, <1>3, <1>4, <1>5, <1>6, <1>7, <1>8, <1>9, <1>10, <1>11
  DEF Next, PublisherStep, ShutdownStep

\* Registered, handed to Shutdown and closed exclude each other, and every
\* subscriber is one of them: at most one party may close a channel, and no channel
\* is closed twice, although Shutdown's goroutine tests the flag without a lock.
THEOREM OwnershipCorrect == Spec => []OwnershipInv
<1>1. QED BY InitOwnership, NextOwnership, TypeCorrect, PTL DEF Spec

-----------------------------------------------------------------------------
(* What the hub delivers *)

\* A subscriber that has not subscribed yet has no part in anything.
StrangersHaveNothing ==
    /\ \A s \in Subs \ joined : chan[s] = <<>> /\ got[s] = <<>>
    /\ \A p \in Publishers : targets[p] \subseteq joined /\ dropping[p] \in joined \cup {NoSub}

\* A publisher has published nothing after the message it holds, or held last.
SendsItsLast == \A p \in Publishers : \A n \in 1..seq : author[n] = p => n <= sending[p]

DeliveryInv == StrangersHaveNothing /\ SendsItsLast /\ AtMostOnce /\ PublisherOrder /\ NoSilentGap

\* What the proofs below use of the ones above.
HubInv == CoreInv /\ OwnershipInv

-----------------------------------------------------------------------------
(* Sequences without repetitions *)

Distinct(q) == \A i, j \in DOMAIN q : q[i] = q[j] => i = j

\* Appending a new element repeats nothing, and adds it to the range.
LEMMA AppendNew ==
    ASSUME NEW S, NEW q \in Seq(S), NEW x \in S
    PROVE  /\ Range(Append(q, x)) = Range(q) \cup {x}
           /\ Distinct(q) /\ x \notin Range(q) => Distinct(Append(q, x))
<1> DEFINE r == Append(q, x)
           n == Len(q)
<1>1. /\ n \in Nat
      /\ DOMAIN q = 1..n
      /\ r \in Seq(S) /\ Len(r) = n + 1
      /\ \A i \in 1..n : r[i] = q[i]
      /\ r[n + 1] = x
  BY AppendProperties, LenProperties
<1>2. DOMAIN r = 1..(n + 1)
  BY <1>1, LenProperties
<1> HIDE DEF r, n
<1>3. \A i \in 1..(n + 1) : i \in 1..n \/ i = n + 1
  BY <1>1
<1>4. 1..n \subseteq 1..(n + 1) /\ n + 1 \in 1..(n + 1) /\ n + 1 \notin 1..n
  BY <1>1
<1>5. Range(r) = Range(q) \cup {x}
  BY <1>1, <1>2, <1>3, <1>4 DEF Range
<1>6. ASSUME Distinct(q), x \notin Range(q) PROVE Distinct(r)
  <2>1. \A i \in 1..n : q[i] # x
    BY <1>1, <1>6 DEF Range
  <2> SUFFICES ASSUME NEW i \in 1..(n + 1), NEW j \in 1..(n + 1), r[i] = r[j]
               PROVE  i = j
    BY <1>2 DEF Distinct
  <2>2. CASE i \in 1..n /\ j \in 1..n
    BY <1>1, <1>6, <2>2 DEF Distinct
  <2>3. CASE i \in 1..n /\ j = n + 1
    BY <1>1, <2>1, <2>3
  <2>4. CASE i = n + 1 /\ j \in 1..n
    BY <1>1, <2>1, <2>4
  <2>5. QED BY <1>3, <2>2, <2>3, <2>4
<1>7. QED BY <1>5, <1>6 DEF r

\* Moving the head of one sequence to the end of the one before it changes
\* nothing of the two together.
LEMMA MoveHead ==
    ASSUME NEW S, NEW q \in Seq(S), NEW r \in Seq(S), r # <<>>
    PROVE  Append(q, Head(r)) \o Tail(r) = q \o r
<1> DEFINE h == Head(r)
           t == Tail(r)
<1>1. /\ h \in S
      /\ t \in Seq(S)
      /\ Len(t) = Len(r) - 1
      /\ \A i \in 1..Len(t) : t[i] = r[i + 1]
      /\ Len(r) \in Nat \ {0}
      /\ Len(q) \in Nat
  BY HeadTailProperties, EmptySeq, LenProperties
<1>2. h = r[1]
  OBVIOUS
<1> HIDE DEF h, t
<1>3. /\ Append(q, h) \in Seq(S)
      /\ Len(Append(q, h)) = Len(q) + 1
      /\ \A i \in 1..Len(q) : Append(q, h)[i] = q[i]
      /\ Append(q, h)[Len(q) + 1] = h
  BY <1>1, AppendProperties
<1> DEFINE a == Append(q, h)
           n == Len(q)
           m == Len(r)
<1>4. /\ a \o t \in Seq(S)
      /\ Len(a \o t) = n + m
      /\ \A i \in 1..(n + m) : (a \o t)[i] = IF i <= n + 1 THEN a[i] ELSE t[i - (n + 1)]
  <2>1. /\ a \o t \in Seq(S)
        /\ Len(a \o t) = Len(a) + Len(t)
        /\ \A i \in 1..(Len(a) + Len(t)) : (a \o t)[i] = IF i <= Len(a) THEN a[i] ELSE t[i - Len(a)]
    BY <1>1, <1>3, ConcatProperties
  <2>2. Len(a) = n + 1 /\ Len(a) + Len(t) = n + m
    BY <1>1, <1>3
  <2>3. QED BY <2>1, <2>2
<1>5. /\ q \o r \in Seq(S)
      /\ Len(q \o r) = n + m
      /\ \A i \in 1..(n + m) : (q \o r)[i] = IF i <= n THEN q[i] ELSE r[i - n]
  BY ConcatProperties
<1>6. ASSUME NEW i \in 1..(n + m) PROVE (a \o t)[i] = (q \o r)[i]
  <2>1. CASE i <= n
    BY <1>1, <1>3, <1>4, <1>5, <2>1
  <2>2. CASE i = n + 1
    BY <1>1, <1>2, <1>3, <1>4, <1>5, <2>2
  <2>3. CASE i > n + 1
    <3>1. i - (n + 1) \in 1..Len(t) /\ (i - (n + 1)) + 1 = i - n
      BY <1>1, <2>3
    <3>2. t[i - (n + 1)] = r[i - n]
      BY <1>1, <3>1
    <3>3. QED BY <1>1, <1>4, <1>5, <2>3, <3>2
  <2>4. QED BY <1>1, <2>1, <2>2, <2>3
<1>7. a \o t = q \o r
  <2> HIDE DEF a
  <2>1. QED BY <1>1, <1>4, <1>5, <1>6, SeqEqual
<1>8. QED BY <1>7 DEF a, h, t

\* Appending to the second of two sequences appends to both together.
LEMMA AppendToSecond ==
    ASSUME NEW S, NEW q \in Seq(S), NEW r \in Seq(S), NEW x \in S
    PROVE  q \o Append(r, x) = Append(q \o r, x)
<1>1. <<x>> \in Seq(S)
  OBVIOUS
<1>2. q \o r \in Seq(S)
  BY ConcatProperties
<1>3. Append(r, x) = r \o <<x>> /\ Append(q \o r, x) = (q \o r) \o <<x>>
  BY <1>2, AppendIsConcat
<1>4. (q \o r) \o <<x>> = q \o (r \o <<x>>)
  BY <1>1, ConcatAssociative
<1>5. QED BY <1>3, <1>4

-----------------------------------------------------------------------------
(* What an action does to what a subscriber was and will be sent *)

\* A message is owed to s if a publisher in its loop, or about to drop s, holds it.
LEMMA OwedMeans ==
    ASSUME NEW s, NEW n
    PROVE  n \in Owed(s) <=> \E p \in Publishers : /\ s \in targets[p] \/ dropping[p] = s
                                                   /\ n = sending[p]
BY DEF Owed

\* What is owed and what was sent are numbers in use.
LEMMA DeliveryTypes ==
    ASSUME CoreInv
    PROVE  \A s \in Subs : /\ chan[s] \in Seq(1..seq) /\ got[s] \in Seq(1..seq)
                           /\ Stream(s) \in Seq(1..seq)
                           /\ Range(Stream(s)) \subseteq 1..seq
                           /\ Owed(s) \subseteq 1..seq
<1> SUFFICES ASSUME NEW s \in Subs
             PROVE  /\ chan[s] \in Seq(1..seq) /\ got[s] \in Seq(1..seq)
                    /\ Stream(s) \in Seq(1..seq)
                    /\ Range(Stream(s)) \subseteq 1..seq
                    /\ Owed(s) \subseteq 1..seq
  OBVIOUS
<1>1. chan[s] \in Seq(1..seq) /\ got[s] \in Seq(1..seq)
  BY DEF CoreInv, TypeOK
<1>2. Stream(s) \in Seq(1..seq)
  BY <1>1, ConcatProperties DEF Stream
<1>3. Range(Stream(s)) \subseteq 1..seq
  BY <1>2, RangeOfSeq
<1>4. ASSUME NEW p \in Publishers, s \in targets[p] \/ dropping[p] = s
      PROVE  sending[p] \in 1..seq
  <2>1. Busy(p)
    BY <1>4, NoSubAssumption DEF Busy
  <2>2. sending[p] \in 0..seq /\ sending[p] # 0
    BY <2>1 DEF CoreInv, TypeOK, HoldsItsMessage
  <2>3. seq \in Nat
    BY DEF CoreInv, TypeOK
  <2>4. QED BY <2>2, <2>3
<1>5. QED BY <1>1, <1>2, <1>3, <1>4, OwedMeans

\* No two publishers hold the same message.
LEMMA HoldersDiffer ==
    ASSUME CoreInv, NEW p \in Publishers, NEW q \in Publishers,
           Busy(p), Busy(q), sending[p] = sending[q]
    PROVE  p = q
BY DEF CoreInv, HoldsItsMessage

\* A message goes from what is owed to s to what s was sent.
LEMMA DeliverEffect ==
    ASSUME CoreInv, NEW p \in Publishers, NEW s \in Subs, Deliver(p, s)
    PROVE  /\ sending[p] \in Owed(s)
           /\ Stream(s)' = Append(Stream(s), sending[p])
           /\ Owed(s)' = Owed(s) \ {sending[p]}
           /\ \A t \in Subs \ {s} : Stream(t)' = Stream(t) /\ Owed(t)' = Owed(t)
<1>1. /\ s \in targets[p]
      /\ dropping[p] = NoSub
      /\ chan' = [chan EXCEPT ![s] = Append(chan[s], sending[p])]
      /\ targets' = [targets EXCEPT ![p] = targets[p] \ {s}]
      /\ UNCHANGED <<sending, dropping, got>>
  BY DEF Deliver, Visit, histVars
<1>2. /\ chan \in [Subs -> Seq(1..seq)] /\ got[s] \in Seq(1..seq)
      /\ targets \in [Publishers -> SUBSET Subs]
  BY DEF CoreInv, TypeOK
<1>3. sending[p] \in Owed(s) /\ sending[p] \in 1..seq
  BY <1>1, OwedMeans, DeliveryTypes
<1>4. Stream(s)' = Append(Stream(s), sending[p])
  <2>1. Stream(s)' = got[s] \o Append(chan[s], sending[p])
    BY <1>1, <1>2 DEF Stream
  <2>2. chan[s] \in Seq(1..seq)
    BY <1>2
  <2>3. got[s] \o Append(chan[s], sending[p]) = Append(got[s] \o chan[s], sending[p])
    <3> DEFINE q == got[s]
               r == chan[s]
               n == sending[p]
    <3>1. q \in Seq(1..seq) /\ r \in Seq(1..seq) /\ n \in 1..seq
      BY <1>2, <1>3, <2>2
    <3> HIDE DEF q, r, n
    <3>2. q \o Append(r, n) = Append(q \o r, n)
      BY <3>1, AppendToSecond
    <3>3. QED BY <3>2 DEF q, r, n
  <2>4. QED BY <2>1, <2>3 DEF Stream
<1>5. \A t \in Subs \ {s} : Stream(t)' = Stream(t)
  BY <1>1, <1>2 DEF Stream
<1>6. \A t \in Subs \ {s} : Owed(t)' = Owed(t)
  BY <1>1, <1>2 DEF Owed
<1>7. ASSUME NEW n PROVE n \in Owed(s)' <=> n \in Owed(s) \ {sending[p]}
  <2>1. n \in Owed(s)' <=> \E q \in Publishers : /\ s \in targets'[q] \/ dropping[q] = s
                                                 /\ n = sending[q]
    BY <1>1 DEF Owed
  <2>2. \A q \in Publishers \ {p} : targets'[q] = targets[q]
    BY <1>1, <1>2
  <2>3. s \notin targets'[p] /\ dropping[p] # s
    BY <1>1, <1>2, NoSubAssumption
  <2>4. \A q \in Publishers \ {p} :
            s \in targets[q] \/ dropping[q] = s => sending[q] # sending[p]
    BY <1>1, HoldersDiffer, NoSubAssumption DEF Busy
  <2>5. QED BY <2>1, <2>2, <2>3, <2>4, OwedMeans
<1>8. QED BY <1>3, <1>4, <1>5, <1>6, <1>7

\* The publisher that found s full still holds the message for it.
LEMMA FindFullEffect ==
    ASSUME CoreInv, NEW p \in Publishers, NEW s \in Subs, FindFull(p, s)
    PROVE  \A t \in Subs : Stream(t)' = Stream(t) /\ Owed(t)' = Owed(t)
<1>1. /\ s \in targets[p]
      /\ dropping[p] = NoSub
      /\ targets' = [targets EXCEPT ![p] = targets[p] \ {s}]
      /\ dropping' = [dropping EXCEPT ![p] = s]
      /\ UNCHANGED <<sending, chan, got>>
  BY DEF FindFull, Visit, chanVars, histVars
<1>2. /\ targets \in [Publishers -> SUBSET Subs]
      /\ dropping \in [Publishers -> Subs \cup {NoSub}]
  BY DEF CoreInv, TypeOK
<1> TAKE t \in Subs
<1>3. \A q \in Publishers : t \in targets'[q] \/ dropping'[q] = t <=> t \in targets[q] \/ dropping[q] = t
  BY <1>1, <1>2, NoSubAssumption
<1>4. QED BY <1>1, <1>3 DEF Stream, Owed

\* A recovered panic writes the message off for everybody it was still owed to.
LEMMA SendOnClosedEffect ==
    ASSUME CoreInv, NEW p \in Publishers, NEW s \in Subs, SendOnClosed(p, s)
    PROVE  /\ sending[p] \in Owed(s)
           /\ sending[p] \in 1..seq
           /\ \A t \in Subs : Stream(t)' = Stream(t)
           /\ IF p \in Handlers
              THEN \A t \in Subs : Owed(t)' = Owed(t) \ {sending[p]}
              ELSE \A t \in Subs : Owed(t)' = Owed(t)
<1>1. /\ s \in targets[p]
      /\ dropping[p] = NoSub
      /\ p \in Handlers => targets' = [targets EXCEPT ![p] = {}]
      /\ p \notin Handlers => targets' = targets
      /\ UNCHANGED <<sending, dropping, chan, got>>
  BY DEF SendOnClosed, Visit, chanVars
<1>2. targets \in [Publishers -> SUBSET Subs]
  BY DEF CoreInv, TypeOK
<1>3. sending[p] \in Owed(s) /\ sending[p] \in 1..seq
  BY <1>1, OwedMeans, DeliveryTypes
<1>4. \A t \in Subs : Stream(t)' = Stream(t)
  BY <1>1 DEF Stream
<1>5. ASSUME p \in Handlers, NEW t \in Subs, NEW n
      PROVE  n \in Owed(t)' <=> n \in Owed(t) \ {sending[p]}
  <2>1. n \in Owed(t)' <=> \E q \in Publishers : /\ t \in targets'[q] \/ dropping[q] = t
                                                 /\ n = sending[q]
    BY <1>1 DEF Owed
  <2>2. \A q \in Publishers \ {p} : targets'[q] = targets[q]
    BY <1>1, <1>2, <1>5
  <2>3. t \notin targets'[p] /\ dropping[p] # t
    BY <1>1, <1>2, <1>5, NoSubAssumption
  <2>4. \A q \in Publishers \ {p} :
            t \in targets[q] \/ dropping[q] = t => sending[q] # sending[p]
    BY <1>1, HoldersDiffer, NoSubAssumption DEF Busy
  <2>5. QED BY <2>1, <2>2, <2>3, <2>4, OwedMeans
<1>6. ASSUME p \notin Handlers PROVE \A t \in Subs : Owed(t)' = Owed(t)
  BY <1>1, <1>6 DEF Owed
<1>7. QED BY <1>3, <1>4, <1>5, <1>6

\* Unsubscribing takes from s what was still owed to it by p, and nothing from others.
LEMMA DropSlowEffect ==
    ASSUME CoreInv, NEW p \in Publishers, DropSlow(p)
    PROVE  /\ dropping[p] \in Subs
           /\ \A t \in Subs : Stream(t)' = Stream(t) /\ Owed(t)' \subseteq Owed(t)
           /\ \A t \in Subs \ {dropping[p]} : Owed(t)' = Owed(t)
<1>1. /\ dropping[p] # NoSub
      /\ dropping' = [dropping EXCEPT ![p] = NoSub]
      /\ UNCHANGED <<sending, targets, chan, got>>
  BY DEF DropSlow, Unsubscribe, histVars
<1>2. dropping \in [Publishers -> Subs \cup {NoSub}]
  BY DEF CoreInv, TypeOK
<1>3. \A t \in Subs : Stream(t)' = Stream(t)
  BY <1>1 DEF Stream
<1>4. \A q \in Publishers : \A t \in Subs : dropping'[q] = t => dropping[q] = t
  BY <1>1, <1>2, NoSubAssumption
<1>5. \A t \in Subs : Owed(t)' \subseteq Owed(t)
  BY <1>1, <1>4 DEF Owed
<1>6. \A q \in Publishers : \A t \in Subs \ {dropping[p]} : dropping'[q] = t <=> dropping[q] = t
  BY <1>1, <1>2, NoSubAssumption
<1>7. \A t \in Subs \ {dropping[p]} : Owed(t)' = Owed(t)
  BY <1>1, <1>6 DEF Owed
<1>8. QED BY <1>1, <1>2, <1>3, <1>5, <1>7

\* Taking a message out of the channel leaves what the channel has carried.
LEMMA ReceiveEffect ==
    ASSUME CoreInv, NEW s \in Subs, Receive(s)
    PROVE  \A t \in Subs : Stream(t)' = Stream(t) /\ Owed(t)' = Owed(t)
<1>1. /\ chan[s] # <<>>
      /\ got' = [got EXCEPT ![s] = Append(got[s], Head(chan[s]))]
      /\ chan' = [chan EXCEPT ![s] = Tail(chan[s])]
      /\ UNCHANGED <<sending, targets, dropping>>
  BY DEF Receive, pubVars
<1>2. /\ chan \in [Subs -> Seq(1..seq)]
      /\ got \in [Subs -> Seq(1..seq)]
  BY DEF CoreInv, TypeOK
<1>3. \A t \in Subs : Owed(t)' = Owed(t)
  BY <1>1 DEF Owed
<1>4. \A t \in Subs \ {s} : Stream(t)' = Stream(t)
  BY <1>1, <1>2 DEF Stream
<1>5. Stream(s)' = Stream(s)
  <2> DEFINE q == got[s]
             r == chan[s]
  <2>1. q \in Seq(1..seq) /\ r \in Seq(1..seq) /\ r # <<>>
    BY <1>1, <1>2
  <2>2. Stream(s)' = Append(q, Head(r)) \o Tail(r)
    BY <1>1, <1>2 DEF Stream
  <2> HIDE DEF q, r
  <2>3. Append(q, Head(r)) \o Tail(r) = q \o r
    BY <2>1, MoveHead
  <2>4. QED BY <2>2, <2>3 DEF Stream, q, r
<1>6. QED BY <1>3, <1>4, <1>5

\* A newcomer has been sent the backfill, in the order of the sequence numbers, and
\* is owed nothing.
LEMMA SubscribeEffect ==
    ASSUME CoreInv, StrangersHaveNothing, NEW s \in Subs, NEW lastSeq,
           Subscribe(s, lastSeq), ~closed
    PROVE  /\ Stream(s)' \in Seq(1..seq)
           /\ \A i, j \in DOMAIN Stream(s)' : i < j => Stream(s)'[i] < Stream(s)'[j]
           /\ Owed(s)' = {}
           /\ \A t \in Subs \ {s} : Stream(t)' = Stream(t) /\ Owed(t)' = Owed(t)
<1>1. /\ s \notin joined
      /\ chan' = [chan EXCEPT ![s] = Backfill(lastSeq)]
      /\ UNCHANGED <<sending, targets, dropping, got>>
  BY DEF Subscribe, pubVars
<1>2. /\ chan \in [Subs -> Seq(1..seq)]
      /\ backlog \in Seq(1..seq)
      /\ seq \in Nat
  BY DEF CoreInv, TypeOK
<1>3. \A t \in Subs \ {s} : Stream(t)' = Stream(t) /\ Owed(t)' = Owed(t)
  BY <1>1, <1>2 DEF Stream, Owed
<1>4. Owed(s)' = {}
  <2>1. \A p \in Publishers : s \notin targets[p] /\ dropping[p] # s
    BY <1>1, NoSubAssumption DEF StrangersHaveNothing
  <2>2. Owed(s) = {}
    BY <2>1 DEF Owed
  <2>3. QED BY <1>1, <2>2 DEF Owed
<1> DEFINE b == Backfill(lastSeq)
<1>5. /\ b \in Seq(1..seq)
      /\ \E k \in 0..Len(backlog) :
             /\ k + Len(b) <= Len(backlog)
             /\ \A i \in 1..Len(b) : b[i] = backlog[k + i]
  <2>1. /\ b \in Seq(1..seq)
        /\ Skipped(lastSeq) \in 0..Len(backlog)
        /\ Len(b) = IF Len(backlog) - Skipped(lastSeq) > ChanCap
                    THEN ChanCap ELSE Len(backlog) - Skipped(lastSeq)
        /\ \A i \in 1..Len(b) : b[i] = backlog[Skipped(lastSeq) + i]
    BY <1>2, BackfillProperties
  <2>2. Len(backlog) \in Nat
    BY <1>2, LenProperties
  <2> HIDE DEF b
  <2>3. Skipped(lastSeq) + Len(b) <= Len(backlog)
    BY <2>1, <2>2, SizesAssumption
  <2>4. QED BY <2>1, <2>3
<1>6. Stream(s)' = b
  <2>1. got[s] = <<>>
    BY <1>1 DEF StrangersHaveNothing
  <2>2. Stream(s)' = <<>> \o b
    BY <1>1, <1>2, <2>1 DEF Stream
  <2> HIDE DEF b
  <2>3. <<>> \o b = b
    BY <1>5, ConcatEmptySeq
  <2>4. QED BY <2>2, <2>3
<1> HIDE DEF b
<1>7. \A i, j \in DOMAIN b : i < j => b[i] < b[j]
  <2>1. PICK k \in 0..Len(backlog) : /\ k + Len(b) <= Len(backlog)
                                     /\ \A i \in 1..Len(b) : b[i] = backlog[k + i]
    BY <1>5
  <2>2. Len(backlog) \in Nat /\ Len(b) \in Nat /\ DOMAIN b = 1..Len(b)
    BY <1>2, <1>5, LenProperties
  <2>3. \A i \in 1..Len(b) : k + i \in 1..Len(backlog)
    BY <2>1, <2>2
  <2>4. \A i \in 1..Len(b) : b[i] = seq - Len(backlog) + (k + i)
    BY <2>1, <2>3 DEF CoreInv, BacklogIsNewestSuffix
  <2>5. \A i, j \in 1..Len(b) :
            i < j => seq - Len(backlog) + (k + i) < seq - Len(backlog) + (k + j)
    BY <1>2, <2>2
  <2>6. QED BY <2>2, <2>4, <2>5
<1>8. QED BY <1>3, <1>4, <1>5, <1>6, <1>7

\* A new message is owed to whoever is registered, and has been sent to nobody.
LEMMA BroadcastEffect ==
    ASSUME CoreInv, OwnershipInv, NEW p \in Publishers, Broadcast(p)
    PROVE  /\ \A t \in Subs : Stream(t)' = Stream(t)
           /\ \A t \in Subs : Owed(t)' = IF t \in subs THEN Owed(t) \cup {seq + 1} ELSE Owed(t)
<1>1. /\ targets[p] = {}
      /\ dropping[p] = NoSub
      /\ sending' = [sending EXCEPT ![p] = seq + 1]
      /\ targets' = [targets EXCEPT ![p] = subs]
      /\ UNCHANGED <<dropping, chan, got>>
  BY DEF Broadcast, Busy, chanVars
<1>2. /\ targets \in [Publishers -> SUBSET Subs]
      /\ sending \in [Publishers -> 0..seq]
  BY DEF CoreInv, TypeOK
<1>3. \A t \in Subs : Stream(t)' = Stream(t)
  BY <1>1 DEF Stream
<1>4. ASSUME NEW t \in Subs, NEW n
      PROVE  n \in Owed(t)' <=> n \in Owed(t) \/ (t \in subs /\ n = seq + 1)
  <2>1. n \in Owed(t)' <=> \E q \in Publishers : /\ t \in targets'[q] \/ dropping[q] = t
                                                 /\ n = sending'[q]
    BY <1>1 DEF Owed
  <2>2. \A q \in Publishers \ {p} : targets'[q] = targets[q] /\ sending'[q] = sending[q]
    BY <1>1, <1>2
  <2>3. targets'[p] = subs /\ sending'[p] = seq + 1
    BY <1>1, <1>2
  <2>4. t \notin targets[p] /\ dropping[p] # t
    BY <1>1, NoSubAssumption
  <2>5. QED BY <2>1, <2>2, <2>3, <2>4, OwedMeans
<1>5. QED BY <1>3, <1>4

-----------------------------------------------------------------------------
(* The invariant *)

LEMMA InitDelivery == Init => DeliveryInv
<1> SUFFICES ASSUME Init PROVE DeliveryInv
  OBVIOUS
<1>1. StrangersHaveNothing /\ SendsItsLast
  BY DEF Init, StrangersHaveNothing, SendsItsLast
<1>2. ASSUME NEW s \in Subs PROVE DOMAIN Stream(s) = {} /\ Owed(s) = {}
  <2>1. Stream(s) = <<>> \o <<>>
    BY DEF Init, Stream
  <2>2. <<>> \o <<>> = <<>>
    BY EmptySeq, ConcatEmptySeq
  <2>3. Owed(s) = {}
    BY NoSubAssumption DEF Init, Owed
  <2>4. QED BY <2>1, <2>2, <2>3
<1>3. AtMostOnce /\ PublisherOrder /\ NoSilentGap
  BY <1>2 DEF AtMostOnce, PublisherOrder, NoSilentGap, Init
<1>4. QED BY <1>1, <1>3 DEF DeliveryInv

\* A step that hands nobody anything keeps the three promises, if what it takes from
\* the owed it takes from subscribers it releases, or writes it off.
LEMMA QuietStep ==
    ASSUME AtMostOnce, PublisherOrder, NoSilentGap,
           UNCHANGED <<seq, author>>, aborted \subseteq aborted',
           subs' \subseteq subs, subs \subseteq Subs,
           \A t \in subs' : liveFrom'[t] = liveFrom[t],
           \A t \in Subs : Stream(t)' = Stream(t) /\ Owed(t)' \subseteq Owed(t),
           \A t \in subs' : Owed(t) \subseteq Owed(t)' \cup aborted'
    PROVE  AtMostOnce' /\ PublisherOrder' /\ NoSilentGap'
<1>1. AtMostOnce'
  <2> SUFFICES ASSUME NEW s \in Subs
               PROVE  /\ \A i, j \in DOMAIN Stream(s)' : Stream(s)'[i] = Stream(s)'[j] => i = j
                      /\ Owed(s)' \cap Range(Stream(s)') = {}
    BY DEF AtMostOnce
  <2>1. Stream(s)' = Stream(s) /\ Owed(s)' \subseteq Owed(s)
    OBVIOUS
  <2>2. QED BY <2>1 DEF AtMostOnce
<1>2. PublisherOrder'
  BY DEF PublisherOrder
<1>3. NoSilentGap'
  <2> SUFFICES ASSUME NEW s \in subs', NEW n \in (liveFrom'[s] + 1)..seq'
               PROVE  n \in Range(Stream(s)') \cup Owed(s)' \cup aborted'
    BY DEF NoSilentGap
  <2>1. /\ s \in subs /\ s \in Subs
        /\ n \in (liveFrom[s] + 1)..seq
        /\ Stream(s)' = Stream(s)
        /\ Owed(s) \subseteq Owed(s)' \cup aborted'
    OBVIOUS
  <2>2. n \in Range(Stream(s)) \cup Owed(s) \cup aborted
    BY <2>1 DEF NoSilentGap
  <2>3. QED BY <2>1, <2>2
<1>4. QED BY <1>1, <1>2, <1>3

LEMMA BroadcastDelivery ==
    ASSUME HubInv, DeliveryInv, NEW p \in Publishers, Broadcast(p)
    PROVE  DeliveryInv'
<1> DEFINE n == seq + 1
<1>1. /\ seq \in Nat
      /\ seq' = n
      /\ author \in [1..seq -> Publishers]
      /\ author' = Append(author, p)
      /\ targets' = [targets EXCEPT ![p] = subs]
      /\ sending' = [sending EXCEPT ![p] = n]
      /\ UNCHANGED <<subs, chan, dropping, got, joined, liveFrom, aborted>>
      /\ subs \subseteq Subs /\ subs \subseteq joined
      /\ targets \in [Publishers -> SUBSET Subs]
      /\ sending \in [Publishers -> 0..seq]
      /\ liveFrom \in [Subs -> 0..seq]
  BY DEF Broadcast, HubInv, CoreInv, TypeOK, OwnershipInv, CloseOwnership, chanVars
<1>2. /\ \A t \in Subs : Stream(t)' = Stream(t)
      /\ \A t \in Subs : Owed(t)' = IF t \in subs THEN Owed(t) \cup {n} ELSE Owed(t)
  BY BroadcastEffect DEF HubInv
<1>3. \A t \in Subs : Range(Stream(t)) \subseteq 1..seq /\ Stream(t) \in Seq(1..seq)
  BY DeliveryTypes DEF HubInv
<1>4. /\ author'[n] = p
      /\ \A i \in 1..seq : author'[i] = author[i]
  <2>1. author \in Seq(Publishers) /\ Len(author) = seq
    BY <1>1
  <2>2. QED BY <1>1, <2>1, AppendProperties
<1>5. StrangersHaveNothing'
  BY <1>1 DEF DeliveryInv, StrangersHaveNothing
<1>6. SendsItsLast'
  <2> SUFFICES ASSUME NEW q \in Publishers, NEW m \in 1..n, author'[m] = q
               PROVE  m <= sending'[q]
    BY <1>1 DEF SendsItsLast
  <2>1. CASE m = n
    BY <1>1, <1>4, <2>1
  <2>2. CASE m # n
    <3>1. m \in 1..seq /\ author[m] = q
      BY <1>1, <1>4, <2>2
    <3>2. m <= sending[q]
      BY <3>1 DEF DeliveryInv, SendsItsLast
    <3>3. sending'[q] = sending[q] \/ sending'[q] = n
      BY <1>1
    <3>4. QED BY <1>1, <3>1, <3>2, <3>3
  <2>3. QED BY <2>1, <2>2
<1>7. AtMostOnce'
  <2> SUFFICES ASSUME NEW s \in Subs
               PROVE  /\ \A i, j \in DOMAIN Stream(s)' : Stream(s)'[i] = Stream(s)'[j] => i = j
                      /\ Owed(s)' \cap Range(Stream(s)') = {}
    BY DEF AtMostOnce
  <2>1. n \notin Range(Stream(s))
    BY <1>1, <1>3
  <2>2. Stream(s)' = Stream(s) /\ Owed(s)' \subseteq Owed(s) \cup {n}
    BY <1>2
  <2>3. QED BY <2>1, <2>2 DEF DeliveryInv, AtMostOnce
<1>8. PublisherOrder'
  <2> SUFFICES ASSUME NEW s \in Subs, NEW i \in DOMAIN Stream(s), NEW j \in DOMAIN Stream(s),
                      i < j, author'[Stream(s)[i]] = author'[Stream(s)[j]]
               PROVE  Stream(s)[i] < Stream(s)[j]
    BY <1>2 DEF PublisherOrder
  <2>1. Stream(s)[i] \in 1..seq /\ Stream(s)[j] \in 1..seq
    BY <1>3, ElementOfSeq, LenProperties
  <2>2. QED BY <1>4, <2>1 DEF DeliveryInv, PublisherOrder
<1>9. NoSilentGap'
  <2> SUFFICES ASSUME NEW s \in subs, NEW m \in (liveFrom[s] + 1)..n
               PROVE  m \in Range(Stream(s)') \cup Owed(s)' \cup aborted
    BY <1>1 DEF NoSilentGap
  <2>1. s \in Subs /\ Stream(s)' = Stream(s) /\ Owed(s)' = Owed(s) \cup {n}
    BY <1>1, <1>2
  <2>2. liveFrom[s] \in Nat
    BY <1>1, <2>1
  <2>3. m = n \/ m \in (liveFrom[s] + 1)..seq
    BY <1>1, <2>2
  <2>4. QED BY <2>1, <2>3 DEF DeliveryInv, NoSilentGap
<1>10. QED BY <1>5, <1>6, <1>7, <1>8, <1>9 DEF DeliveryInv

LEMMA DeliverDelivery ==
    ASSUME HubInv, DeliveryInv, NEW p \in Publishers, NEW s \in Subs, Deliver(p, s)
    PROVE  DeliveryInv'
<1> DEFINE n == sending[p]
<1>1. /\ s \in targets[p]
      /\ chan' = [chan EXCEPT ![s] = Append(chan[s], n)]
      /\ targets' = [targets EXCEPT ![p] = targets[p] \ {s}]
      /\ UNCHANGED <<seq, subs, sending, dropping, author, got, joined, liveFrom, aborted>>
  BY DEF Deliver, Visit, hubVars, histVars
<1>2. /\ seq \in Nat
      /\ chan \in [Subs -> Seq(1..seq)]
      /\ targets \in [Publishers -> SUBSET Subs]
      /\ subs \subseteq Subs
  BY DEF HubInv, CoreInv, TypeOK
<1>3. /\ n \in Owed(s)
      /\ Stream(s)' = Append(Stream(s), n)
      /\ Owed(s)' = Owed(s) \ {n}
      /\ \A t \in Subs \ {s} : Stream(t)' = Stream(t) /\ Owed(t)' = Owed(t)
  BY DeliverEffect DEF HubInv
<1>4. n \in 1..seq /\ Stream(s) \in Seq(1..seq)
  BY <1>3, DeliveryTypes DEF HubInv
<1>5. n \notin Range(Stream(s)) /\ Distinct(Stream(s))
  BY <1>3 DEF DeliveryInv, AtMostOnce, Distinct
<1>6. Range(Append(Stream(s), n)) = Range(Stream(s)) \cup {n} /\ Distinct(Append(Stream(s), n))
  <2> DEFINE q == Stream(s)
             S == 1..seq
  <2>1. q \in Seq(S) /\ n \in S /\ n \notin Range(q) /\ Distinct(q)
    BY <1>4, <1>5
  <2> HIDE DEF n, q, S
  <2>2. Range(Append(q, n)) = Range(q) \cup {n} /\ Distinct(Append(q, n))
    BY <2>1, AppendNew
  <2>3. QED BY <2>2 DEF q
<1>7. StrangersHaveNothing'
  <2>1. s \in joined
    BY <1>1 DEF DeliveryInv, StrangersHaveNothing
  <2>2. QED BY <1>1, <1>2, <2>1 DEF DeliveryInv, StrangersHaveNothing
<1>8. SendsItsLast'
  BY <1>1 DEF DeliveryInv, SendsItsLast
<1>9. AtMostOnce'
  <2> SUFFICES ASSUME NEW t \in Subs
               PROVE  Distinct(Stream(t)') /\ Owed(t)' \cap Range(Stream(t)') = {}
    BY DEF AtMostOnce, Distinct
  <2>1. CASE t = s
    BY <1>3, <1>6, <2>1 DEF DeliveryInv, AtMostOnce
  <2>2. CASE t # s
    BY <1>3, <2>2 DEF DeliveryInv, AtMostOnce, Distinct
  <2>3. QED BY <2>1, <2>2
<1>10. PublisherOrder'
  <2> SUFFICES ASSUME NEW t \in Subs, NEW i \in DOMAIN Stream(t)', NEW j \in DOMAIN Stream(t)',
                      i < j, author[Stream(t)'[i]] = author[Stream(t)'[j]]
               PROVE  Stream(t)'[i] < Stream(t)'[j]
    BY <1>1 DEF PublisherOrder
  <2>1. CASE t # s
    BY <1>3, <2>1 DEF DeliveryInv, PublisherOrder
  <2>2. CASE t = s
    <3> DEFINE q == Stream(s)
               l == Len(q)
    <3>1. /\ l \in Nat
          /\ DOMAIN q = 1..l
          /\ DOMAIN Append(q, n) = 1..(l + 1)
          /\ \A k \in 1..l : Append(q, n)[k] = q[k]
          /\ Append(q, n)[l + 1] = n
      BY <1>4, AppendProperties, LenProperties
    <3>2. i \in 1..(l + 1) /\ j \in 1..(l + 1) /\ i \in 1..l
      BY <1>3, <2>2, <3>1
    <3>3. Stream(t)'[i] = q[i]
      BY <1>3, <2>2, <3>1, <3>2
    <3>4. CASE j \in 1..l
      <4>1. Stream(t)'[j] = q[j]
        BY <1>3, <2>2, <3>1, <3>4
      <4>2. QED BY <3>1, <3>2, <3>3, <3>4, <4>1 DEF DeliveryInv, PublisherOrder
    <3>5. CASE j = l + 1
      <4>1. Stream(t)'[j] = n
        BY <1>3, <2>2, <3>1, <3>5
      <4>2. author[n] = p
        BY <1>1, NoSubAssumption DEF HubInv, CoreInv, HoldsItsMessage, Busy
      <4>3. q[i] \in 1..seq
        BY <1>4, <3>1, <3>2, ElementOfSeq
      <4>4. q[i] <= n
        BY <3>3, <4>1, <4>2, <4>3 DEF DeliveryInv, SendsItsLast
      <4>5. q[i] # n
        BY <1>5, <3>1, <3>2 DEF Range
      <4>6. QED BY <1>2, <1>4, <3>3, <4>1, <4>3, <4>4, <4>5
    <3>6. QED BY <3>1, <3>2, <3>4, <3>5
  <2>3. QED BY <2>1, <2>2
<1>11. NoSilentGap'
  <2> SUFFICES ASSUME NEW t \in subs, NEW m \in (liveFrom[t] + 1)..seq
               PROVE  m \in Range(Stream(t)') \cup Owed(t)' \cup aborted
    BY <1>1 DEF NoSilentGap
  <2>1. m \in Range(Stream(t)) \cup Owed(t) \cup aborted
    BY DEF DeliveryInv, NoSilentGap
  <2>2. CASE t = s
    BY <1>3, <1>6, <2>1, <2>2
  <2>3. CASE t # s
    BY <1>2, <1>3, <2>1, <2>3
  <2>4. QED BY <2>2, <2>3
<1>12. QED BY <1>7, <1>8, <1>9, <1>10, <1>11 DEF DeliveryInv

LEMMA SubscribeDelivery ==
    ASSUME HubInv, DeliveryInv, NEW s \in Subs, NEW lastSeq, Subscribe(s, lastSeq)
    PROVE  DeliveryInv'
<1>1. /\ s \notin joined
      /\ joined' = joined \cup {s}
      /\ liveFrom' = [liveFrom EXCEPT ![s] = seq]
      /\ UNCHANGED <<seq, sending, targets, dropping, author, got, aborted>>
  BY DEF Subscribe, pubVars
<1>2. /\ seq \in Nat
      /\ chan \in [Subs -> Seq(1..seq)]
      /\ subs \subseteq Subs
      /\ liveFrom \in [Subs -> 0..seq]
  BY DEF HubInv, CoreInv, TypeOK
<1>3. StrangersHaveNothing'
  <2>1. \A t \in Subs \ {s} : chan'[t] = chan[t]
    BY <1>2 DEF Subscribe
  <2>2. QED BY <1>1, <2>1 DEF DeliveryInv, StrangersHaveNothing
<1>4. SendsItsLast'
  BY <1>1 DEF DeliveryInv, SendsItsLast
<1>5. CASE closed
  <2>1. UNCHANGED <<subs, chan>> /\ subs = {}
    BY <1>5 DEF Subscribe, HubInv, OwnershipInv, CloseOwnership
  <2>2. \A t \in Subs : Stream(t)' = Stream(t) /\ Owed(t)' = Owed(t)
    BY <1>1, <2>1 DEF Stream, Owed
  <2>3. AtMostOnce' /\ PublisherOrder' /\ NoSilentGap'
    BY <1>1, <1>2, <2>1, <2>2, QuietStep DEF DeliveryInv
  <2>4. QED BY <1>3, <1>4, <2>3 DEF DeliveryInv
<1>6. CASE ~closed
  <2>1. /\ Stream(s)' \in Seq(1..seq)
        /\ \A i, j \in DOMAIN Stream(s)' : i < j => Stream(s)'[i] < Stream(s)'[j]
        /\ Owed(s)' = {}
        /\ \A t \in Subs \ {s} : Stream(t)' = Stream(t) /\ Owed(t)' = Owed(t)
    BY <1>6, SubscribeEffect DEF HubInv, DeliveryInv
  <2>2. subs' = subs \cup {s}
    BY <1>6 DEF Subscribe
  <2>3. AtMostOnce'
    <3> SUFFICES ASSUME NEW t \in Subs
                 PROVE  Distinct(Stream(t)') /\ Owed(t)' \cap Range(Stream(t)') = {}
      BY DEF AtMostOnce, Distinct
    <3>1. CASE t = s
      <4>1. \A i \in DOMAIN Stream(s)' : i \in Nat /\ Stream(s)'[i] \in Nat
        <5>1. DOMAIN Stream(s)' = 1..Len(Stream(s)') /\ Len(Stream(s)') \in Nat
          BY <2>1, LenProperties
        <5>2. \A i \in 1..Len(Stream(s)') : Stream(s)'[i] \in 1..seq
          BY <2>1, ElementOfSeq
        <5>3. QED BY <1>2, <5>1, <5>2
      <4>2. \A i, j \in DOMAIN Stream(s)' : i # j => i < j \/ j < i
        BY <4>1
      <4>3. Distinct(Stream(s)')
        BY <2>1, <4>1, <4>2 DEF Distinct
      <4>4. QED BY <2>1, <3>1, <4>3
    <3>2. CASE t # s
      BY <2>1, <3>2 DEF DeliveryInv, AtMostOnce, Distinct
    <3>3. QED BY <3>1, <3>2
  <2>4. PublisherOrder'
    <3> SUFFICES ASSUME NEW t \in Subs, NEW i \in DOMAIN Stream(t)', NEW j \in DOMAIN Stream(t)',
                        i < j, author[Stream(t)'[i]] = author[Stream(t)'[j]]
                 PROVE  Stream(t)'[i] < Stream(t)'[j]
      BY <1>1 DEF PublisherOrder
    <3>1. CASE t = s
      BY <2>1, <3>1
    <3>2. CASE t # s
      BY <2>1, <3>2 DEF DeliveryInv, PublisherOrder
    <3>3. QED BY <3>1, <3>2
  \* Nothing was published since s joined.
  <2>5. NoSilentGap'
    <3> SUFFICES ASSUME NEW t \in subs', NEW m \in (liveFrom'[t] + 1)..seq
                 PROVE  m \in Range(Stream(t)') \cup Owed(t)' \cup aborted
      BY <1>1 DEF NoSilentGap
    <3>1. CASE t = s
      <4>1. liveFrom'[s] = seq
        BY <1>1, <1>2
      <4>2. QED BY <1>2, <3>1, <4>1
    <3>2. CASE t # s
      <4>1. t \in subs /\ t \in Subs /\ liveFrom'[t] = liveFrom[t]
        BY <1>1, <1>2, <2>2, <3>2
      <4>2. QED BY <2>1, <3>2, <4>1 DEF DeliveryInv, NoSilentGap
    <3>3. QED BY <3>1, <3>2
  <2>6. QED BY <1>3, <1>4, <2>3, <2>4, <2>5 DEF DeliveryInv
<1>7. QED BY <1>5, <1>6

\* The invariant is inductive relative to those of HubProofs.
LEMMA NextDelivery == HubInv /\ DeliveryInv /\ [Next]_vars => DeliveryInv'
<1> SUFFICES ASSUME HubInv, DeliveryInv, [Next]_vars PROVE DeliveryInv'
  OBVIOUS
<1> USE DEF DeliveryInv
<1>0. subs \subseteq Subs /\ dropping \in [Publishers -> Subs \cup {NoSub}]
      /\ targets \in [Publishers -> SUBSET Subs]
  BY DEF HubInv, CoreInv, TypeOK
<1>1. ASSUME NEW p \in Publishers, Broadcast(p) PROVE DeliveryInv'
  BY <1>1, BroadcastDelivery
<1>2. ASSUME NEW p \in Publishers, NEW s \in Subs, Deliver(p, s) PROVE DeliveryInv'
  BY <1>2, DeliverDelivery
<1>3. ASSUME NEW p \in Publishers, NEW s \in Subs, FindFull(p, s) PROVE DeliveryInv'
  <2>1. UNCHANGED <<seq, author, aborted, subs, liveFrom, chan, got, joined, sending>>
    BY <1>3 DEF FindFull, hubVars, chanVars, histVars
  <2>2. \A t \in Subs : Stream(t)' = Stream(t) /\ Owed(t)' = Owed(t)
    BY <1>3, FindFullEffect DEF HubInv
  <2>3. AtMostOnce' /\ PublisherOrder' /\ NoSilentGap'
    BY <1>0, <2>1, <2>2, QuietStep
  <2>4. /\ s \in targets[p]
        /\ targets' = [targets EXCEPT ![p] = targets[p] \ {s}]
        /\ dropping' = [dropping EXCEPT ![p] = s]
    BY <1>3 DEF FindFull, Visit
  <2>5. StrangersHaveNothing'
    BY <1>0, <2>1, <2>4 DEF StrangersHaveNothing
  <2>6. SendsItsLast'
    BY <2>1 DEF SendsItsLast
  <2>7. QED BY <2>3, <2>5, <2>6
<1>4. ASSUME NEW p \in Publishers, NEW s \in Subs, SendOnClosed(p, s) PROVE DeliveryInv'
  <2>1. /\ UNCHANGED <<seq, author, subs, liveFrom, chan, got, joined, sending, dropping>>
        /\ targets' = targets \/ targets' = [targets EXCEPT ![p] = {}]
        /\ aborted' = IF p \in Handlers THEN aborted \cup {sending[p]} ELSE aborted
    BY <1>4 DEF SendOnClosed, hubVars, chanVars
  <2>2. \A t \in Subs : /\ Stream(t)' = Stream(t)
                        /\ Owed(t)' \subseteq Owed(t)
                        /\ Owed(t) \subseteq Owed(t)' \cup aborted'
    <3>1. CASE p \in Handlers
      BY <1>4, <2>1, <3>1, SendOnClosedEffect DEF HubInv
    <3>2. CASE p \notin Handlers
      BY <1>4, <2>1, <3>2, SendOnClosedEffect DEF HubInv
    <3>3. QED BY <3>1, <3>2
  <2>3. AtMostOnce' /\ PublisherOrder' /\ NoSilentGap'
    BY <1>0, <2>1, <2>2, QuietStep
  <2>4. StrangersHaveNothing'
    BY <1>0, <2>1 DEF StrangersHaveNothing
  <2>5. SendsItsLast'
    BY <2>1 DEF SendsItsLast
  <2>6. QED BY <2>3, <2>4, <2>5
\* Whom a publisher drops is no longer registered, so nothing is promised to it.
<1>5. ASSUME NEW p \in Publishers, DropSlow(p) PROVE DeliveryInv'
  <2>1. /\ UNCHANGED <<seq, author, aborted, liveFrom, chan, got, joined, sending, targets>>
        /\ dropping' = [dropping EXCEPT ![p] = NoSub]
        /\ subs' = subs \ {dropping[p]}
    BY <1>5 DEF DropSlow, Unsubscribe, histVars
  <2>2. /\ \A t \in Subs : Stream(t)' = Stream(t) /\ Owed(t)' \subseteq Owed(t)
        /\ \A t \in Subs \ {dropping[p]} : Owed(t)' = Owed(t)
    BY <1>5, DropSlowEffect DEF HubInv
  <2>3. AtMostOnce' /\ PublisherOrder' /\ NoSilentGap'
    BY <1>0, <2>1, <2>2, QuietStep
  <2>4. StrangersHaveNothing'
    BY <1>0, <2>1 DEF StrangersHaveNothing
  <2>5. SendsItsLast'
    BY <2>1 DEF SendsItsLast
  <2>6. QED BY <2>3, <2>4, <2>5
<1>6. ASSUME NEW s \in Subs, NEW lastSeq, Subscribe(s, lastSeq) PROVE DeliveryInv'
  BY <1>6, SubscribeDelivery
<1>7. ASSUME NEW s \in Subs, Receive(s) PROVE DeliveryInv'
  <2>1. /\ UNCHANGED <<seq, author, aborted, subs, liveFrom, joined, sending, targets, dropping>>
        /\ chan[s] # <<>>
        /\ got' = [got EXCEPT ![s] = Append(got[s], Head(chan[s]))]
        /\ chan' = [chan EXCEPT ![s] = Tail(chan[s])]
    BY <1>7 DEF Receive, hubVars, pubVars
  <2>2. \A t \in Subs : Stream(t)' = Stream(t) /\ Owed(t)' = Owed(t)
    BY <1>7, ReceiveEffect DEF HubInv
  <2>3. AtMostOnce' /\ PublisherOrder' /\ NoSilentGap'
    BY <1>0, <2>1, <2>2, QuietStep
  <2>4. StrangersHaveNothing'
    <3>1. s \in joined
      BY <2>1 DEF StrangersHaveNothing
    <3>2. \A t \in Subs \ {s} : chan'[t] = chan[t] /\ got'[t] = got[t]
      BY <2>1 DEF HubInv, CoreInv, TypeOK
    <3>3. QED BY <2>1, <3>1, <3>2 DEF StrangersHaveNothing
  <2>5. SendsItsLast'
    BY <2>1 DEF SendsItsLast
  <2>6. QED BY <2>3, <2>4, <2>5
<1>8. ASSUME UNCHANGED <<seq, author, aborted, liveFrom, chan, got, joined,
                         sending, targets, dropping>>,
             subs' \subseteq subs
      PROVE  DeliveryInv'
  <2>1. \A t \in Subs : Stream(t)' = Stream(t) /\ Owed(t)' = Owed(t)
    BY <1>8 DEF Stream, Owed
  <2>2. AtMostOnce' /\ PublisherOrder' /\ NoSilentGap'
    BY <1>0, <1>8, <2>1, QuietStep
  <2>3. StrangersHaveNothing' /\ SendsItsLast'
    BY <1>8 DEF StrangersHaveNothing, SendsItsLast
  <2>4. QED BY <2>2, <2>3
<1>9. ASSUME NEW s \in Subs, Leave(s) PROVE DeliveryInv'
  BY <1>8, <1>9 DEF Leave, Unsubscribe, pubVars, histVars
<1>10. CASE Shutdown
  BY <1>8, <1>10 DEF Shutdown, chanVars, pubVars, histVars
<1>11. CASE ShutdownStep
  BY <1>8, <1>11 DEF ShutdownStep, ShutdownTest, ShutdownClose, hubVars, chanVars, pubVars, histVars
<1>12. CASE UNCHANGED vars
  BY <1>8, <1>12 DEF vars, hubVars, chanVars, pubVars, histVars
<1>13. QED
  BY <1>1, <1>2, <1>3, <1>4, <1>5, <1>6, <1>7, <1>9, <1>10, <1>11, <1>12
  DEF Next, PublisherStep

\* What HubProofs shows of every state.
LEMMA HubCorrect == Spec => []HubInv
BY CoreCorrect, OwnershipCorrect, PTL DEF HubInv

LEMMA DeliveryCorrect == Spec => []DeliveryInv
<1>1. QED BY InitDelivery, NextDelivery, HubCorrect, PTL DEF Spec

\* No subscriber is ever sent a message twice, and none that a publisher still holds
\* for it has been sent already, whatever the interleaving of backfill and broadcast.
THEOREM SentAtMostOnce == Spec => []AtMostOnce
<1>1. DeliveryInv => AtMostOnce
  BY DEF DeliveryInv
<1>2. QED BY <1>1, DeliveryCorrect, PTL

\* The messages of one publisher reach every subscriber in the order of its calls.
THEOREM SentInPublisherOrder == Spec => []PublisherOrder
<1>1. DeliveryInv => PublisherOrder
  BY DEF DeliveryInv
<1>2. QED BY <1>1, DeliveryCorrect, PTL

\* A subscriber that stays registered misses nothing: what it was not sent is still
\* held for it, or was lost in a recovered panic.
THEOREM MissesNothing == Spec => []NoSilentGap
<1>1. DeliveryInv => NoSilentGap
  BY DEF DeliveryInv
<1>2. QED BY <1>1, DeliveryCorrect, PTL

-----------------------------------------------------------------------------
(* The refinement of FanOut *)

\* An empty hub has promised nothing yet.
LEMMA InitRefines == Init => Promise!Init
<1> SUFFICES ASSUME Init PROVE Promise!Init
  OBVIOUS
<1>1. ASSUME NEW s \in Subs PROVE Stream(s) = <<>> /\ Owed(s) = {}
  <2>1. Stream(s) = <<>> \o <<>>
    BY DEF Init, Stream
  <2>2. <<>> \o <<>> = <<>>
    BY EmptySeq, ConcatEmptySeq
  <2>3. Owed(s) = {}
    BY NoSubAssumption DEF Init, Owed
  <2>4. QED BY <2>1, <2>2, <2>3
<1>2. QED BY <1>1 DEF Promise!Init, Init

\* A step that hands nobody anything and takes what was owed only from subscribers
\* it releases is a release (of nobody, if it changes nothing).
LEMMA ReleaseRefines ==
    ASSUME CoreInv, UNCHANGED <<seq, joined>>, subs' \subseteq subs,
           chClosed \subseteq chClosed', OwnershipInv',
           \A t \in Subs : Stream(t)' = Stream(t) /\ Owed(t)' \subseteq Owed(t),
           \A t \in Subs : t \in subs' => Owed(t)' = Owed(t)
    PROVE  Promise!Release
<1>1. \A t \in Subs : Owed(t)' \in SUBSET (1..seq)
  BY DeliveryTypes
<1>2. [t \in Subs |-> Owed(t)]' \in [Subs -> SUBSET (1..seq)]
  BY <1>1
<1>3. [t \in Subs |-> Stream(t)]' = [t \in Subs |-> Stream(t)]
  OBVIOUS
<1>4. chClosed' \subseteq joined \ subs'
  BY DEF OwnershipInv, CloseOwnership
<1>5. QED BY <1>2, <1>3, <1>4 DEF Promise!Release

\* The step of the fan-out that every step of the hub is.
LEMMA NextRefines ==
    HubInv /\ DeliveryInv /\ [Next]_vars => [Promise!Next]_(Promise!vars)
<1> SUFFICES ASSUME HubInv, DeliveryInv, [Next]_vars
             PROVE  Promise!Next \/ UNCHANGED Promise!vars
  OBVIOUS
<1>0. /\ subs \subseteq Subs /\ seq \in Nat
      /\ CoreInv /\ OwnershipInv /\ subs \cap chClosed = {}
  BY DEF HubInv, CoreInv, TypeOK, OwnershipInv, CloseOwnership
<1>own. OwnershipInv'
  BY NextOwnership DEF HubInv, CoreInv
<1>1. ASSUME NEW p \in Publishers, Broadcast(p) PROVE Promise!Publish
  <2>1. UNCHANGED <<subs, joined, chClosed>> /\ seq' = seq + 1
    BY <1>1 DEF Broadcast, chanVars
  <2>2. /\ \A t \in Subs : Stream(t)' = Stream(t)
        /\ \A t \in Subs : Owed(t)' = IF t \in subs THEN Owed(t) \cup {seq + 1} ELSE Owed(t)
    BY <1>0, <1>1, BroadcastEffect
  <2>3. [t \in Subs |-> Stream(t)]' = [t \in Subs |-> Stream(t)]
    BY <2>2
  <2>4. [t \in Subs |-> Owed(t)]' =
            [t \in Subs |-> IF t \in subs THEN Owed(t) \cup {seq + 1} ELSE Owed(t)]
    BY <2>2
  <2>5. QED BY <2>1, <2>3, <2>4 DEF Promise!Publish
<1>2. ASSUME NEW p \in Publishers, NEW s \in Subs, Deliver(p, s)
      PROVE  sending[p] \in Owed(s) /\ Promise!Hand(s, sending[p])
  <2>1. UNCHANGED <<subs, joined, seq, chClosed>> /\ s \notin chClosed
    BY <1>2 DEF Deliver, hubVars, histVars
  <2>2. /\ sending[p] \in Owed(s)
        /\ Stream(s)' = Append(Stream(s), sending[p])
        /\ Owed(s)' = Owed(s) \ {sending[p]}
        /\ \A t \in Subs \ {s} : Stream(t)' = Stream(t) /\ Owed(t)' = Owed(t)
    BY <1>0, <1>2, DeliverEffect
  <2>3. sending[p] \notin Range(Stream(s))
    BY <2>2 DEF DeliveryInv, AtMostOnce
  <2>4. [t \in Subs |-> Stream(t)]' =
            [[t \in Subs |-> Stream(t)] EXCEPT ![s] = Append(@, sending[p])]
    BY <2>2
  <2>5. [t \in Subs |-> Owed(t)]' =
            [[t \in Subs |-> Owed(t)] EXCEPT ![s] = @ \ {sending[p]}]
    BY <2>2
  <2>6. QED BY <2>1, <2>2, <2>3, <2>4, <2>5 DEF Promise!Hand, Range, Promise!Range
<1>3. ASSUME NEW p \in Publishers, NEW s \in Subs, FindFull(p, s) PROVE Promise!Release
  <2>1. UNCHANGED <<subs, joined, seq, chClosed>>
    BY <1>3 DEF FindFull, hubVars, chanVars, histVars
  <2>2. QED BY <1>0, <1>own, <1>3, <2>1, FindFullEffect, ReleaseRefines
\* The subscriber whose closed channel caused the panic is not registered.
<1>4. ASSUME NEW p \in Publishers, NEW s \in Subs, SendOnClosed(p, s)
      PROVE  Promise!Release \/ (sending[p] \in 1..seq /\ Promise!WriteOff(sending[p]))
  <2>1. UNCHANGED <<subs, joined, seq, chClosed>> /\ s \in chClosed
    BY <1>4 DEF SendOnClosed, hubVars, chanVars
  <2>2. /\ sending[p] \in Owed(s)
        /\ sending[p] \in 1..seq
        /\ \A t \in Subs : Stream(t)' = Stream(t)
        /\ IF p \in Handlers
           THEN \A t \in Subs : Owed(t)' = Owed(t) \ {sending[p]}
           ELSE \A t \in Subs : Owed(t)' = Owed(t)
    BY <1>0, <1>4, SendOnClosedEffect
  <2>3. CASE p \notin Handlers
    BY <1>0, <1>own, <2>1, <2>2, <2>3, ReleaseRefines
  <2>4. CASE p \in Handlers
    <3>1. [t \in Subs |-> Stream(t)]' = [t \in Subs |-> Stream(t)]
      BY <2>2
    <3>2. [t \in Subs |-> Owed(t)]' = [t \in Subs |-> [r \in Subs |-> Owed(r)][t] \ {sending[p]}]
      BY <2>2, <2>4
    <3>3. \E r \in chClosed : sending[p] \in [t \in Subs |-> Owed(t)][r]
      BY <2>1, <2>2
    <3>4. QED BY <2>1, <2>2, <3>1, <3>2, <3>3 DEF Promise!WriteOff
  <2>5. QED BY <2>3, <2>4
<1>5. ASSUME NEW p \in Publishers, DropSlow(p) PROVE Promise!Release
  <2>1. /\ UNCHANGED <<joined, seq>> /\ subs' = subs \ {dropping[p]}
        /\ chClosed \subseteq chClosed'
    BY <1>5 DEF DropSlow, Unsubscribe, histVars
  <2>2. /\ \A t \in Subs : Stream(t)' = Stream(t) /\ Owed(t)' \subseteq Owed(t)
        /\ \A t \in Subs \ {dropping[p]} : Owed(t)' = Owed(t)
    BY <1>0, <1>5, DropSlowEffect
  <2>3. QED BY <1>0, <1>own, <2>1, <2>2, ReleaseRefines
<1>6. ASSUME NEW s \in Subs, NEW lastSeq, Subscribe(s, lastSeq)
      PROVE  Promise!Join(s) \/ Promise!Refuse(s)
  <2>1. /\ s \notin joined
        /\ joined' = joined \cup {s}
        /\ UNCHANGED <<seq, sending, targets, dropping, got>>
    BY <1>6 DEF Subscribe, pubVars
  <2>2. CASE closed
    <3>1. UNCHANGED <<subs, chan>> /\ chClosed' = chClosed \cup {s}
      BY <1>6, <2>2 DEF Subscribe
    <3>2. UNCHANGED <<[t \in Subs |-> Stream(t)], [t \in Subs |-> Owed(t)]>>
      BY <2>1, <3>1 DEF Stream, Owed
    <3>3. QED BY <2>1, <3>1, <3>2 DEF Promise!Refuse
  <2>3. CASE ~closed
    <3>1. /\ Stream(s)' \in Seq(1..seq)
          /\ \A i, j \in DOMAIN Stream(s)' : i < j => Stream(s)'[i] < Stream(s)'[j]
          /\ Owed(s)' = {}
          /\ \A t \in Subs \ {s} : Stream(t)' = Stream(t) /\ Owed(t)' = Owed(t)
      BY <1>0, <1>6, <2>3, SubscribeEffect DEF DeliveryInv
    <3>2. Owed(s) = {}
      BY <2>1, NoSubAssumption DEF DeliveryInv, StrangersHaveNothing, Owed
    <3>3. subs' = subs \cup {s} /\ UNCHANGED chClosed
      BY <1>6, <2>3 DEF Subscribe
    <3>4. [t \in Subs |-> Owed(t)]' = [t \in Subs |-> Owed(t)]
      BY <3>1, <3>2
    <3>5. [t \in Subs |-> Stream(t)]' \in [Subs -> Seq(1..seq)]
      <4>1. \A t \in Subs : Stream(t)' \in Seq(1..seq)
        BY <1>0, <3>1, DeliveryTypes
      <4>2. QED BY <4>1
    <3>6. \A t \in Subs \ {s} : [r \in Subs |-> Stream(r)]'[t] = [r \in Subs |-> Stream(r)][t]
      BY <3>1
    <3>7. [r \in Subs |-> Stream(r)]'[s] = Stream(s)'
      OBVIOUS
    <3>8. QED BY <2>1, <3>1, <3>3, <3>4, <3>5, <3>6, <3>7 DEF Promise!Join
  <2>4. QED BY <2>2, <2>3
<1>7. ASSUME NEW s \in Subs, Receive(s) PROVE Promise!Release
  <2>1. UNCHANGED <<subs, joined, seq, chClosed>>
    BY <1>7 DEF Receive, hubVars
  <2>2. QED BY <1>0, <1>own, <1>7, <2>1, ReceiveEffect, ReleaseRefines
<1>8. ASSUME UNCHANGED <<seq, joined, chan, got, sending, targets, dropping>>,
             subs' \subseteq subs, chClosed \subseteq chClosed'
      PROVE  Promise!Release
  <2>1. \A t \in Subs : Stream(t)' = Stream(t) /\ Owed(t)' = Owed(t)
    BY <1>8 DEF Stream, Owed
  <2>2. QED BY <1>0, <1>own, <1>8, <2>1, ReleaseRefines
<1>9. ASSUME NEW s \in Subs, Leave(s) PROVE Promise!Release
  BY <1>8, <1>9 DEF Leave, Unsubscribe, pubVars, histVars
<1>10. CASE Shutdown
  <2>1. Promise!Release
    BY <1>8, <1>10 DEF Shutdown, chanVars, pubVars, histVars
  <2>2. QED BY <2>1 DEF Promise!Next
<1>11. CASE ShutdownStep
  <2>1. Promise!Release
    BY <1>8, <1>11 DEF ShutdownStep, ShutdownTest, ShutdownClose,
                       hubVars, chanVars, pubVars, histVars
  <2>2. QED BY <2>1 DEF Promise!Next
<1>12. CASE UNCHANGED vars
  <2>1. Promise!Release
    BY <1>8, <1>12 DEF vars, hubVars, chanVars, pubVars, histVars
  <2>2. QED BY <2>1 DEF Promise!Next
<1>13. ASSUME NEW p \in Publishers, PublisherStep(p) PROVE Promise!Next
  BY <1>2, <1>3, <1>4, <1>5, <1>13 DEF PublisherStep, Promise!Next
<1>14. QED
  BY <1>1, <1>13, <1>6, <1>7, <1>9, <1>10, <1>11, <1>12 DEF Next, Promise!Next

\* The hub implements the fan-out it promises, for any number of publishers,
\* subscribers and messages: every locked section and channel operation of its
\* goroutines is one step of FanOut, or changes nothing a subscriber could tell.
THEOREM HubImplementsFanOut == Spec => ImplementsFanOut
<1>1. QED BY InitRefines, NextRefines, HubCorrect, DeliveryCorrect, PTL
      DEF Spec, ImplementsFanOut, Promise!Spec

=============================================================================
