----------------------------- MODULE RulesProofs -----------------------------
(***************************************************************************)
(* Proofs about the rule engine, for any rules that Load accepts and any   *)
(* sequence of events: what each detector reports, that a shorter window   *)
(* makes nothing up, and what the pipeline relies on of a failure.         *)
(*                                                                         *)
(* A detector is a recursive function of the position, so each proof is by *)
(* induction on it: LoopState gives the recursion equation of the loop,    *)
(* Induct the principle, and the rest is what one event does to the state. *)
(***************************************************************************)
EXTENDS Detection, SequenceTheorems, FunctionTheorems, FiniteSetTheorems, WellFoundedInduction, TLAPS

\* A sequence of whatever it holds.
Sequence(s) == s \in Seq(Range(s))

-----------------------------------------------------------------------------
(* Sequences *)

\* Appending to a sequence keeps its elements and adds one.
LEMMA AppendOne ==
    ASSUME NEW s, Sequence(s), NEW x
    PROVE  /\ Sequence(Append(s, x)) /\ Append(s, x) # <<>>
           /\ Len(s) \in Nat /\ DOMAIN s = 1..Len(s)
           /\ Len(Append(s, x)) = Len(s) + 1
           /\ DOMAIN Append(s, x) = 1..(Len(s) + 1)
           /\ \A i \in 1..Len(s) : Append(s, x)[i] = s[i]
           /\ Append(s, x)[Len(s) + 1] = x
           /\ Range(Append(s, x)) = Range(s) \cup {x}
           /\ s # <<>> => Head(Append(s, x)) = Head(s)
<1> DEFINE S == Range(s) \cup {x}
           t == Append(s, x)
<1>1. s \in Seq(S) /\ x \in S
  BY DEF Sequence
<1> HIDE DEF S
<1>2. t \in Seq(S) /\ Len(s) \in Nat /\ Len(t) = Len(s) + 1 /\ DOMAIN s = 1..Len(s)
      /\ DOMAIN t = 1..(Len(s) + 1) /\ t # <<>>
  BY <1>1
<1>3. (\A i \in 1..Len(s) : t[i] = s[i]) /\ t[Len(s) + 1] = x
  BY <1>1
<1>4. Range(t) = S
  <2>1. Range(s) \subseteq Range(t)
    BY <1>2, <1>3 DEF Range
  <2>2. x \in Range(t)
    BY <1>2, <1>3 DEF Range
  <2>3. Range(t) \subseteq S
    BY <1>2, <1>1 DEF Range
  <2> QED BY <2>1, <2>2, <2>3 DEF S
<1>5. Sequence(t)
  BY <1>2, <1>4 DEF Sequence
<1>6. s # <<>> => Head(t) = Head(s)
  <2> SUFFICES ASSUME s # <<>> PROVE Head(t) = Head(s)
    OBVIOUS
  <2>1. Len(s) >= 1 /\ 1 \in 1..Len(s)
    BY <1>1, <1>2
  <2>2. Head(s) = s[1] /\ Head(t) = t[1]
    BY <1>1, <1>2, <2>1
  <2> QED BY <2>1, <2>2, <1>3
<1> QED BY <1>2, <1>3, <1>4, <1>5, <1>6 DEF S

\* The tail of a sequence has its other elements.
LEMMA HeadAndTail ==
    ASSUME NEW s, Sequence(s), s # <<>>
    PROVE  /\ Sequence(Tail(s))
           /\ Len(s) \in Nat \ {0} /\ DOMAIN s = 1..Len(s)
           /\ Head(s) = s[1]
           /\ Len(Tail(s)) = Len(s) - 1
           /\ DOMAIN Tail(s) = 1..(Len(s) - 1)
           /\ \A i \in 1..(Len(s) - 1) : Tail(s)[i] = s[i + 1]
           /\ Range(s) = Range(Tail(s)) \cup {Head(s)}
<1> DEFINE S == Range(s)
           t == Tail(s)
<1>1. s \in Seq(S)
  BY DEF Sequence
<1> HIDE DEF S
<1>2. t \in Seq(S) /\ Len(s) \in Nat \ {0} /\ Len(t) = Len(s) - 1 /\ DOMAIN s = 1..Len(s)
      /\ DOMAIN t = 1..(Len(s) - 1) /\ Head(s) = s[1]
  BY <1>1
<1>3. \A i \in 1..(Len(s) - 1) : t[i] = s[i + 1]
  BY <1>1, <1>2
<1>4. Range(s) = Range(t) \cup {Head(s)}
  <2>1. ASSUME NEW i \in 1..Len(s) PROVE s[i] \in Range(t) \cup {Head(s)}
    <3>1. CASE i = 1
      BY <3>1, <1>2
    <3>2. CASE i # 1
      <4>1. i - 1 \in 1..(Len(s) - 1) /\ (i - 1) + 1 = i
        BY <3>2, <1>2, <2>1
      <4> QED BY <4>1, <1>2, <1>3 DEF Range
    <3> QED BY <3>1, <3>2
  <2>2. Range(s) \subseteq Range(t) \cup {Head(s)}
    BY <2>1, <1>2 DEF Range
  <2>3. Range(t) \subseteq Range(s)
    <3>1. \A i \in 1..(Len(s) - 1) : i + 1 \in 1..Len(s)
      BY <1>2
    <3> QED BY <3>1, <1>2, <1>3 DEF Range
  <2>4. Head(s) \in Range(s)
    BY <1>2 DEF Range
  <2> QED BY <2>2, <2>3, <2>4
<1>5. Sequence(t)
  <2> DEFINE T == Range(t)
  <2>1. \A i \in 1..Len(t) : t[i] \in T
    BY <1>2 DEF Range
  <2>2. t \in Seq(T)
    <3> HIDE DEF T, t
    <3> QED BY <2>1, <1>2
  <2> QED BY <2>2 DEF Sequence
<1> QED BY <1>2, <1>3, <1>4, <1>5

\* The empty sequence.
LEMMA EmptySequence ==
    Sequence(<<>>) /\ Len(<<>>) = 0 /\ Range(<<>>) = {} /\ DOMAIN <<>> = {}
<1>1. Len(<<>>) = 0 /\ DOMAIN <<>> = {}
  OBVIOUS
<1>2. Range(<<>>) = {}
  BY <1>1 DEF Range
<1> QED BY <1>1, <1>2 DEF Sequence

\* The elements of a sequence of a set.
LEMMA SequenceOf ==
    ASSUME NEW S, NEW s \in Seq(S)
    PROVE  Sequence(s) /\ Range(s) \subseteq S /\ Len(s) \in Nat /\ DOMAIN s = 1..Len(s)
<1>1. Len(s) \in Nat /\ DOMAIN s = 1..Len(s) /\ \A i \in 1..Len(s) : s[i] \in S
  OBVIOUS
<1>2. \A i \in 1..Len(s) : s[i] \in Range(s)
  BY <1>1 DEF Range
<1> QED BY <1>1, <1>2 DEF Sequence, Range

\* The elements of one sequence after another.
LEMMA Concatenation ==
    ASSUME NEW s, NEW t, Sequence(s), Sequence(t)
    PROVE  /\ Sequence(s \o t)
           /\ Len(s \o t) = Len(s) + Len(t)
           /\ Range(s \o t) = Range(s) \cup Range(t)
<1> DEFINE S == Range(s) \cup Range(t)
<1>1. s \in Seq(S) /\ t \in Seq(S)
  BY DEF Sequence
<1> HIDE DEF S
<1>2. /\ Len(s) \in Nat /\ Len(t) \in Nat /\ DOMAIN s = 1..Len(s) /\ DOMAIN t = 1..Len(t)
      /\ s \o t \in Seq(S) /\ Len(s \o t) = Len(s) + Len(t)
      /\ DOMAIN (s \o t) = 1..(Len(s) + Len(t))
  BY <1>1
<1>3. /\ \A i \in 1..Len(s) : (s \o t)[i] = s[i]
      /\ \A i \in 1..Len(t) : (s \o t)[Len(s) + i] = t[i]
  BY <1>1
<1>4. Range(s) \subseteq Range(s \o t)
  BY <1>2, <1>3 DEF Range
<1>5. Range(t) \subseteq Range(s \o t)
  <2>1. \A i \in 1..Len(t) : Len(s) + i \in 1..(Len(s) + Len(t))
    BY <1>2
  <2> QED BY <2>1, <1>2, <1>3 DEF Range
<1>6. Range(s \o t) \subseteq S
  BY <1>2 DEF Range
<1>7. Range(s \o t) = S
  BY <1>4, <1>5, <1>6 DEF S
<1> QED BY <1>2, <1>7 DEF Sequence, S

-----------------------------------------------------------------------------
(* Induction *)

\* Some number is the least of a set of them.
LEMMA Least ==
  ASSUME NEW T, T \subseteq Nat, T # {}
  PROVE \E x \in T : \A y \in T : x <= y
<1>1. PICK R : R = OpToRel(<, Nat)
  OBVIOUS
<1>2. IsWellFoundedOn(R, Nat)
  BY <1>1, NatLessThanWellFounded
<1>3. \E x \in T : \A y \in T : <<y, x>> \notin R
  BY <1>2, WFMin
<1>4. R = {ss \in Nat \X Nat : ss[1] < ss[2]}
  BY <1>1 DEF OpToRel
<1>5. PICK x \in T : \A y \in T : <<y, x>> \notin R
  BY <1>3
<1>6. ASSUME NEW y \in T PROVE x <= y
  <2>1. y \in Nat /\ x \in Nat
    OBVIOUS
  <2>2. ~(y < x)
    <3>1. SUFFICES ASSUME y < x PROVE <<y, x>> \in R
      BY <1>5
    <3>2. <<y, x>> \in Nat \X Nat /\ <<y, x>>[1] < <<y, x>>[2]
      BY ONLY <2>1, <3>1
    <3> QED BY ONLY <1>4, <3>2
  <2> QED BY ONLY <2>1, <2>2
<1>7. QED BY <1>6

\* The induction on numbers, for a set of them.
LEMMA Induct ==
  ASSUME NEW S, 0 \in S, \A n \in Nat : n \in S => n + 1 \in S
  PROVE Nat \subseteq S
<1> SUFFICES ASSUME NEW n \in Nat, n \notin S PROVE FALSE OBVIOUS
<1> DEFINE T == {m \in Nat : m \notin S}
<1>1. T \subseteq Nat /\ T # {} OBVIOUS
<1>2. PICK x \in T : \A y \in T : x <= y
   BY <1>1, Least
<1>3. x # 0 /\ x - 1 \in Nat /\ x - 1 \notin T
   BY <1>2
<1> QED BY <1>3

\* Among the first n positions some are the last of their kind.
LEMMA Greatest ==
    ASSUME NEW n \in Nat, NEW T, T \subseteq 1..n, T # {}
    PROVE  Latest(T) \in T /\ \A j \in T : j <= Latest(T)
<1> DEFINE D == {n - i : i \in T}
<1>1. D \subseteq Nat /\ D # {}
  <2>1. \A i \in T : n - i \in Nat
    OBVIOUS
  <2> QED BY <2>1
<1>2. PICK d \in D : \A c \in D : d <= c
  <2> HIDE DEF D
  <2> QED BY <1>1, Least
<1>3. PICK i \in T : d = n - i
  BY <1>2
<1>4. ASSUME NEW j \in T PROVE j <= i
  <2>1. n - j \in D
    OBVIOUS
  <2>2. n - i <= n - j
    BY <1>2, <1>3, <2>1
  <2>3. i \in 1..n /\ j \in 1..n
    OBVIOUS
  <2> QED BY ONLY <2>2, <2>3, n \in Nat
<1>5. \E x \in T : \A j \in T : j <= x
  BY <1>4
<1> QED BY ONLY <1>5 DEF Latest

\* The greatest is the only one.
LEMMA LatestIs ==
    ASSUME NEW n \in Nat, NEW T, T \subseteq 1..n, NEW i \in T, \A j \in T : j <= i
    PROVE  Latest(T) = i
<1>1. Latest(T) \in T /\ \A j \in T : j <= Latest(T)
  BY Greatest
<1>2. i <= Latest(T) /\ Latest(T) <= i /\ i \in 1..n /\ Latest(T) \in 1..n
  BY <1>1
<1> QED BY ONLY <1>2, n \in Nat

-----------------------------------------------------------------------------
(* The loops *)

\* The timeout detector goes from one event to the next.
LEMMA TimeoutLoopState ==
    ASSUME NEW r, NEW S, NEW w \in Seq(S)
    PROVE  \E s : /\ s[0] = [open |-> <<>>, out |-> <<>>]
                  /\ \A n \in 1..Len(w) : s[n] = TimeoutStep(r, s[n - 1], w[n])
                  /\ TimeoutLoop(r, w) = s[Len(w)]
<1> DEFINE base == [open |-> <<>>, out |-> <<>>]
           Rec(f, n) == f = [m \in 0..n |-> IF m = 0 THEN base ELSE TimeoutStep(r, f[m - 1], w[m])]
           Good == {n \in Nat : \E f : Rec(f, n)}
<1>1. 0 \in Good
  <2>1. Rec([m \in 0..0 |-> base], 0)
    OBVIOUS
  <2> QED BY <2>1
<1>2. ASSUME NEW n \in Nat, n \in Good PROVE n + 1 \in Good
  <2>1. PICK f : Rec(f, n)
    BY <1>2
  <2> DEFINE g == [m \in 0..(n + 1) |-> IF m = n + 1 THEN TimeoutStep(r, f[n], w[m]) ELSE f[m]]
  <2>2. ASSUME NEW m \in 0..(n + 1) PROVE g[m] = IF m = 0 THEN base ELSE TimeoutStep(r, g[m - 1], w[m])
    <3>1. CASE m = 0
      <4>1. f[0] = base
        BY <2>1
      <4> QED BY <4>1, <3>1
    <3>2. CASE m = n + 1
      <4>1. g[m - 1] = f[n] /\ g[m] = TimeoutStep(r, f[n], w[m])
        <5> HIDE DEF Rec
        <5> QED BY <3>2
      <4> QED BY ONLY <4>1, <3>2, n \in Nat
    <3>3. CASE m # 0 /\ m # n + 1
      <4>1. m \in 0..n /\ m - 1 \in 0..n
        BY <3>3
      <4>2. f[m] = TimeoutStep(r, f[m - 1], w[m])
        BY <2>1, <4>1, <3>3
      <4>3. g[m - 1] = f[m - 1] /\ g[m] = f[m]
        BY <4>1, <3>3
      <4> QED BY ONLY <4>2, <4>3, <3>3
    <3> QED BY <3>1, <3>2, <3>3
  <2>3. Rec(g, n + 1)
    <3> HIDE DEF base
    <3>1. g = [m \in 0..(n + 1) |-> g[m]]
      OBVIOUS
    <3> HIDE DEF g
    <3> QED BY <2>2, <3>1
  <2>4. \E h : Rec(h, n + 1)
    <3> HIDE DEF Rec, g
    <3> QED BY <2>3
  <2> QED BY <2>4
<1>3. Len(w) \in Good
  <2> HIDE DEF Good
  <2>1. Len(w) \in Nat
    OBVIOUS
  <2> QED BY <1>1, <1>2, <2>1, Induct
<1> DEFINE loop == CHOOSE f : Rec(f, Len(w))
<1>4. Rec(loop, Len(w))
  <2>1. \E f : Rec(f, Len(w))
    BY <1>3
  <2> HIDE DEF Rec
  <2> QED BY <2>1
<1>5. TimeoutLoop(r, w) = loop[Len(w)]
  BY DEF TimeoutLoop
<1>6. PICK s : s = loop
  OBVIOUS
<1> HIDE DEF loop
<1>7. s = [m \in 0..Len(w) |-> IF m = 0 THEN base ELSE TimeoutStep(r, s[m - 1], w[m])]
  BY <1>4, <1>6
<1>8. Len(w) \in Nat
  OBVIOUS
<1> HIDE DEF base, Rec, Good
<1>9. s[0] = base /\ \A n \in 1..Len(w) : s[n] = TimeoutStep(r, s[n - 1], w[n])
  BY ONLY <1>7, <1>8
<1> QED BY <1>5, <1>6, <1>9 DEF base

\* The consecutive detector goes from one event to the next.
LEMMA ConsecutiveLoopState ==
    ASSUME NEW r, NEW S, NEW w \in Seq(S)
    PROVE  \E s : /\ s[0] = [open |-> <<>>, out |-> <<>>]
                  /\ \A n \in 1..Len(w) : s[n] = ConsecutiveStep(r, s[n - 1], w[n])
                  /\ ConsecutiveResult(r, w) = s[Len(w)].out
<1> DEFINE base == [open |-> <<>>, out |-> <<>>]
           Rec(f, n) == f = [m \in 0..n |-> IF m = 0 THEN base ELSE ConsecutiveStep(r, f[m - 1], w[m])]
           Good == {n \in Nat : \E f : Rec(f, n)}
<1>1. 0 \in Good
  <2>1. Rec([m \in 0..0 |-> base], 0)
    OBVIOUS
  <2> QED BY <2>1
<1>2. ASSUME NEW n \in Nat, n \in Good PROVE n + 1 \in Good
  <2>1. PICK f : Rec(f, n)
    BY <1>2
  <2> DEFINE g == [m \in 0..(n + 1) |-> IF m = n + 1 THEN ConsecutiveStep(r, f[n], w[m]) ELSE f[m]]
  <2>2. ASSUME NEW m \in 0..(n + 1) PROVE g[m] = IF m = 0 THEN base ELSE ConsecutiveStep(r, g[m - 1], w[m])
    <3>1. CASE m = 0
      <4>1. f[0] = base
        BY <2>1
      <4> QED BY <4>1, <3>1
    <3>2. CASE m = n + 1
      <4>1. g[m - 1] = f[n] /\ g[m] = ConsecutiveStep(r, f[n], w[m])
        <5> HIDE DEF Rec
        <5> QED BY <3>2
      <4> QED BY ONLY <4>1, <3>2, n \in Nat
    <3>3. CASE m # 0 /\ m # n + 1
      <4>1. m \in 0..n /\ m - 1 \in 0..n
        BY <3>3
      <4>2. f[m] = ConsecutiveStep(r, f[m - 1], w[m])
        BY <2>1, <4>1, <3>3
      <4>3. g[m - 1] = f[m - 1] /\ g[m] = f[m]
        BY <4>1, <3>3
      <4> QED BY ONLY <4>2, <4>3, <3>3
    <3> QED BY <3>1, <3>2, <3>3
  <2>3. Rec(g, n + 1)
    <3> HIDE DEF base
    <3>1. g = [m \in 0..(n + 1) |-> g[m]]
      OBVIOUS
    <3> HIDE DEF g
    <3> QED BY <2>2, <3>1
  <2>4. \E h : Rec(h, n + 1)
    <3> HIDE DEF Rec, g
    <3> QED BY <2>3
  <2> QED BY <2>4
<1>3. Len(w) \in Good
  <2> HIDE DEF Good
  <2>1. Len(w) \in Nat
    OBVIOUS
  <2> QED BY <1>1, <1>2, <2>1, Induct
<1> DEFINE loop == CHOOSE f : Rec(f, Len(w))
<1>4. Rec(loop, Len(w))
  <2>1. \E f : Rec(f, Len(w))
    BY <1>3
  <2> HIDE DEF Rec
  <2> QED BY <2>1
<1>5. ConsecutiveResult(r, w) = loop[Len(w)].out
  BY DEF ConsecutiveResult
<1>6. PICK s : s = loop
  OBVIOUS
<1> HIDE DEF loop
<1>7. s = [m \in 0..Len(w) |-> IF m = 0 THEN base ELSE ConsecutiveStep(r, s[m - 1], w[m])]
  BY <1>4, <1>6
<1>8. Len(w) \in Nat
  OBVIOUS
<1> HIDE DEF base, Rec, Good
<1>9. s[0] = base /\ \A n \in 1..Len(w) : s[n] = ConsecutiveStep(r, s[n - 1], w[n])
  BY ONLY <1>7, <1>8
<1> QED BY <1>5, <1>6, <1>9 DEF base

\* What event n adds to the failures of the threshold detector.
ThresholdMove(r, w, out, n) ==
    IF Crosses(r, w[n]) THEN Append(out, Crossing(r, w, n)) ELSE out

\* The threshold detector goes from one event to the next.
LEMMA ThresholdLoopState ==
    ASSUME NEW r, NEW S, NEW w \in Seq(S)
    PROVE  \E s : /\ s[0] = <<>>
                  /\ \A n \in 1..Len(w) : s[n] = ThresholdMove(r, w, s[n - 1], n)
                  /\ ThresholdResult(r, w) = s[Len(w)]
<1> DEFINE base == <<>>
           Rec(f, n) == f = [m \in 0..n |-> IF m = 0 THEN base ELSE ThresholdMove(r, w, f[m - 1], m)]
           Good == {n \in Nat : \E f : Rec(f, n)}
<1>1. 0 \in Good
  <2>1. Rec([m \in 0..0 |-> base], 0)
    OBVIOUS
  <2> QED BY <2>1
<1>2. ASSUME NEW n \in Nat, n \in Good PROVE n + 1 \in Good
  <2>1. PICK f : Rec(f, n)
    BY <1>2
  <2> DEFINE g == [m \in 0..(n + 1) |-> IF m = n + 1 THEN ThresholdMove(r, w, f[n], m) ELSE f[m]]
  <2>2. ASSUME NEW m \in 0..(n + 1) PROVE g[m] = IF m = 0 THEN base ELSE ThresholdMove(r, w, g[m - 1], m)
    <3>1. CASE m = 0
      <4>1. f[0] = base
        BY <2>1
      <4> QED BY <4>1, <3>1
    <3>2. CASE m = n + 1
      <4>1. g[m - 1] = f[n] /\ g[m] = ThresholdMove(r, w, f[n], m)
        <5> HIDE DEF Rec
        <5> QED BY <3>2
      <4> QED BY ONLY <4>1, <3>2, n \in Nat
    <3>3. CASE m # 0 /\ m # n + 1
      <4>1. m \in 0..n /\ m - 1 \in 0..n
        BY <3>3
      <4>2. f[m] = ThresholdMove(r, w, f[m - 1], m)
        BY <2>1, <4>1, <3>3
      <4>3. g[m - 1] = f[m - 1] /\ g[m] = f[m]
        BY <4>1, <3>3
      <4> QED BY ONLY <4>2, <4>3, <3>3
    <3> QED BY <3>1, <3>2, <3>3
  <2>3. Rec(g, n + 1)
    <3> HIDE DEF base
    <3>1. g = [m \in 0..(n + 1) |-> g[m]]
      OBVIOUS
    <3> HIDE DEF g
    <3> QED BY <2>2, <3>1
  <2>4. \E h : Rec(h, n + 1)
    <3> HIDE DEF Rec, g
    <3> QED BY <2>3
  <2> QED BY <2>4
<1>3. Len(w) \in Good
  <2> HIDE DEF Good
  <2>1. Len(w) \in Nat
    OBVIOUS
  <2> QED BY <1>1, <1>2, <2>1, Induct
<1> DEFINE loop == CHOOSE f : Rec(f, Len(w))
<1>4. Rec(loop, Len(w))
  <2>1. \E f : Rec(f, Len(w))
    BY <1>3
  <2> HIDE DEF Rec
  <2> QED BY <2>1
<1>5. ThresholdResult(r, w) = loop[Len(w)]
  BY DEF ThresholdResult, ThresholdMove
<1>6. PICK s : s = loop
  OBVIOUS
<1> HIDE DEF loop
<1>7. s = [m \in 0..Len(w) |-> IF m = 0 THEN base ELSE ThresholdMove(r, w, s[m - 1], m)]
  BY <1>4, <1>6
<1>8. Len(w) \in Nat
  OBVIOUS
<1> HIDE DEF base, Rec, Good
<1>9. s[0] = base /\ \A n \in 1..Len(w) : s[n] = ThresholdMove(r, w, s[n - 1], n)
  BY ONLY <1>7, <1>8
<1> QED BY <1>5, <1>6, <1>9 DEF base

\* What a rule adds to what the rules before it found.
Found(w, before, r) == {out \o more : out \in before, more \in RuleResults(r, w)}

\* Evaluate goes from one rule to the next.
LEMMA EvaluateLoopState ==
    ASSUME NEW w, NEW S, NEW rules \in Seq(S)
    PROVE  \E s : /\ s[0] = {<<>>}
                  /\ \A n \in 1..Len(rules) : s[n] = Found(w, s[n - 1], rules[n])
                  /\ Evaluate(rules, w) = s[Len(rules)]
<1> DEFINE base == {<<>>}
           Rec(f, n) == f = [m \in 0..n |-> IF m = 0 THEN base ELSE Found(w, f[m - 1], rules[m])]
           Good == {n \in Nat : \E f : Rec(f, n)}
<1>1. 0 \in Good
  <2>1. Rec([m \in 0..0 |-> base], 0)
    OBVIOUS
  <2> QED BY <2>1
<1>2. ASSUME NEW n \in Nat, n \in Good PROVE n + 1 \in Good
  <2>1. PICK f : Rec(f, n)
    BY <1>2
  <2> DEFINE g == [m \in 0..(n + 1) |-> IF m = n + 1 THEN Found(w, f[n], rules[m]) ELSE f[m]]
  <2>2. ASSUME NEW m \in 0..(n + 1) PROVE g[m] = IF m = 0 THEN base ELSE Found(w, g[m - 1], rules[m])
    <3>1. CASE m = 0
      <4>1. f[0] = base
        BY <2>1
      <4> QED BY <4>1, <3>1
    <3>2. CASE m = n + 1
      <4>1. g[m - 1] = f[n] /\ g[m] = Found(w, f[n], rules[m])
        <5> HIDE DEF Rec
        <5> QED BY <3>2
      <4> QED BY ONLY <4>1, <3>2, n \in Nat
    <3>3. CASE m # 0 /\ m # n + 1
      <4>1. m \in 0..n /\ m - 1 \in 0..n
        BY <3>3
      <4>2. f[m] = Found(w, f[m - 1], rules[m])
        BY <2>1, <4>1, <3>3
      <4>3. g[m - 1] = f[m - 1] /\ g[m] = f[m]
        BY <4>1, <3>3
      <4> QED BY ONLY <4>2, <4>3, <3>3
    <3> QED BY <3>1, <3>2, <3>3
  <2>3. Rec(g, n + 1)
    <3> HIDE DEF base
    <3>1. g = [m \in 0..(n + 1) |-> g[m]]
      OBVIOUS
    <3> HIDE DEF g
    <3> QED BY <2>2, <3>1
  <2>4. \E h : Rec(h, n + 1)
    <3> HIDE DEF Rec, g
    <3> QED BY <2>3
  <2> QED BY <2>4
<1>3. Len(rules) \in Good
  <2> HIDE DEF Good
  <2>1. Len(rules) \in Nat
    OBVIOUS
  <2> QED BY <1>1, <1>2, <2>1, Induct
<1> DEFINE loop == CHOOSE f : Rec(f, Len(rules))
<1>4. Rec(loop, Len(rules))
  <2>1. \E f : Rec(f, Len(rules))
    BY <1>3
  <2> HIDE DEF Rec
  <2> QED BY <2>1
<1>5. Evaluate(rules, w) = loop[Len(rules)]
  BY DEF Evaluate, Found
<1>6. PICK s : s = loop
  OBVIOUS
<1> HIDE DEF loop
<1>7. s = [m \in 0..Len(rules) |-> IF m = 0 THEN base ELSE Found(w, s[m - 1], rules[m])]
  BY <1>4, <1>6
<1>8. Len(rules) \in Nat
  OBVIOUS
<1> HIDE DEF base, Rec, Good
<1>9. s[0] = base /\ \A n \in 1..Len(rules) : s[n] = Found(w, s[n - 1], rules[n])
  BY ONLY <1>7, <1>8
<1> QED BY <1>5, <1>6, <1>9 DEF base

-----------------------------------------------------------------------------
(* timeout *)

\* The relevant events among the first n.
Upto(r, k, n) == {i \in Relevant(r, k) : i <= n}

\* After n events the last word about k is a trigger.
Waits(r, k, n) == Upto(r, k, n) # {} /\ Triggers(r, events[Latest(Upto(r, k, n))])

LateUpto(r, n) == {i \in 1..n : LateAt(r, i)}

\* The open triggers after n events are those without an answer.
OpenAre(r, n, st) ==
    /\ \A k : k \in DOMAIN st.open <=> Waits(r, k, n)
    /\ \A k \in DOMAIN st.open :
           st.open[k] = [station |-> events[Latest(Upto(r, k, n))].station,
                         at      |-> events[Latest(Upto(r, k, n))].at]

\* The failures so far are the late answers.
OutAre(r, n, st) ==
    /\ Sequence(st.out)
    /\ Len(st.out) = Cardinality(LateUpto(r, n))
    /\ \A f \in Range(st.out) : f.detail # <<"missing">>
    /\ {DateOf(f) : f \in Range(st.out)} = {DateOf(events[i]) : i \in LateUpto(r, n)}

\* Only a relevant event changes what is relevant, and it becomes the latest.
LEMMA UptoNext ==
    ASSUME NEW S, events \in Seq(S), NEW n \in Nat, n + 1 <= Len(events), NEW r, NEW k
    PROVE  /\ Upto(r, k, n) \subseteq 1..n
           /\ Key(events[n + 1]) = k /\ (Triggers(r, events[n + 1]) \/ Resolves(r, events[n + 1]))
                => Upto(r, k, n + 1) = Upto(r, k, n) \cup {n + 1} /\ Latest(Upto(r, k, n + 1)) = n + 1
           /\ ~(Key(events[n + 1]) = k /\ (Triggers(r, events[n + 1]) \/ Resolves(r, events[n + 1])))
                => Upto(r, k, n + 1) = Upto(r, k, n)
           /\ Key(events[n + 1]) = k => Earlier(r, n + 1) = Upto(r, k, n)
<1> DEFINE R == Relevant(r, k)
<1>1. n + 1 \in R <=> (Key(events[n + 1]) = k /\ (Triggers(r, events[n + 1]) \/ Resolves(r, events[n + 1])))
  BY DEF Relevant
<1>0. \A i \in R : i \in Nat \ {0}
  BY DEF Relevant
<1> HIDE DEF R
<1>2. {i \in R : i <= n} \subseteq 1..n
  BY ONLY <1>0, n \in Nat
<1>3. n + 1 \in R => {i \in R : i <= n + 1} = {i \in R : i <= n} \cup {n + 1}
  BY ONLY <1>0, n \in Nat
<1>4. n + 1 \notin R => {i \in R : i <= n + 1} = {i \in R : i <= n}
  BY ONLY <1>0, n \in Nat
<1>5. n + 1 \in R => Latest({i \in R : i <= n} \cup {n + 1}) = n + 1
  <2> DEFINE T == {i \in R : i <= n} \cup {n + 1}
  <2>1. T \subseteq 1..(n + 1) /\ n + 1 \in T /\ \A j \in T : j <= n + 1
    BY ONLY <1>2, n \in Nat
  <2> HIDE DEF T
  <2>2. Latest(T) = n + 1
    <3>1. n + 1 \in Nat
      OBVIOUS
    <3> QED BY <2>1, <3>1, LatestIs
  <2> QED BY <2>2 DEF T
<1>6. {j \in R : j < n + 1} = {i \in R : i <= n}
  BY ONLY <1>0, n \in Nat
<1>7. Key(events[n + 1]) = k => Earlier(r, n + 1) = {j \in R : j < n + 1}
  BY DEF Earlier, R
<1> QED BY <1>1, <1>2, <1>3, <1>4, <1>5, <1>6, <1>7 DEF Upto, R

\* A trigger opens its key.
LEMMA TimeoutTriggered ==
    ASSUME NEW r, NEW st, NEW e, Triggers(r, e)
    PROVE  TimeoutStep(r, st, e)
             = [open |-> With(st.open, Key(e), [station |-> e.station, at |-> e.at]), out |-> st.out]
<1>1. ~Resolves(r, e)
  BY DEF Resolves, Triggers
<1> QED BY <1>1, Zenon DEF TimeoutStep

\* What the answer to an open trigger is worth.
Answered(r, st, e) ==
    IF e.at - st.open[Key(e)].at > r.within
    THEN Append(st.out, Failure(r, e.station, Key(e), <<"late", Rounded(e.at - st.open[Key(e)].at)>>, e.at))
    ELSE st.out

\* A resolve closes its key.
LEMMA TimeoutResolved ==
    ASSUME NEW r, NEW st, NEW e, Resolves(r, e), Key(e) \in DOMAIN st.open
    PROVE  TimeoutStep(r, st, e) = [open |-> Drop(st.open, Key(e)), out |-> Answered(r, st, e)]
<1>1. ~Triggers(r, e)
  BY DEF Resolves, Triggers
<1> QED BY <1>1, Zenon DEF TimeoutStep, Answered

\* Any other event passes.
LEMMA TimeoutPassed ==
    ASSUME NEW r, NEW st, NEW e, ~Triggers(r, e), ~(Resolves(r, e) /\ Key(e) \in DOMAIN st.open)
    PROVE  TimeoutStep(r, st, e) = st
BY Zenon DEF TimeoutStep

\* What one event does to the open triggers.
LEMMA OpenStep ==
    ASSUME NEW S, events \in Seq(S), NEW n \in Nat, n + 1 <= Len(events), NEW r, NEW st,
           OpenAre(r, n, st)
    PROVE  OpenAre(r, n + 1, TimeoutStep(r, st, events[n + 1]))
<1>0. PICK e : e = events[n + 1]
  OBVIOUS
<1> DEFINE new == TimeoutStep(r, st, e)
<1>6. TimeoutStep(r, st, events[n + 1]) = new
  BY <1>0
<1> SUFFICES OpenAre(r, n + 1, new)
  BY <1>6
<1>1. ASSUME NEW k, k # Key(e) \/ ~(Triggers(r, e) \/ Resolves(r, e))
      PROVE  Upto(r, k, n + 1) = Upto(r, k, n) /\ (Waits(r, k, n + 1) <=> Waits(r, k, n))
  BY <1>0, <1>1, UptoNext DEF Waits
<1>2. ASSUME Triggers(r, e) \/ Resolves(r, e)
      PROVE  Latest(Upto(r, Key(e), n + 1)) = n + 1 /\ (Waits(r, Key(e), n + 1) <=> Triggers(r, e))
  <2>1. /\ Upto(r, Key(e), n + 1) = Upto(r, Key(e), n) \cup {n + 1}
        /\ Latest(Upto(r, Key(e), n + 1)) = n + 1
    BY <1>0, <1>2, UptoNext
  <2> QED BY <1>0, <2>1 DEF Waits
<1>3. CASE Triggers(r, e)
  <2>1. new.open = With(st.open, Key(e), [station |-> e.station, at |-> e.at])
    BY <1>3, TimeoutTriggered
  <2>2. DOMAIN new.open = DOMAIN st.open \cup {Key(e)}
    BY <2>1 DEF With
  <2>3. new.open[Key(e)] = [station |-> e.station, at |-> e.at]
        /\ \A k \in DOMAIN st.open : k # Key(e) => new.open[k] = st.open[k]
    BY <2>1 DEF With
  <2> HIDE DEF new
  <2>4. ASSUME NEW k PROVE k \in DOMAIN new.open <=> Waits(r, k, n + 1)
    BY <2>2, <1>1, <1>2, <1>3 DEF OpenAre
  <2>5. ASSUME NEW k \in DOMAIN new.open
        PROVE  new.open[k] = [station |-> events[Latest(Upto(r, k, n + 1))].station,
                              at      |-> events[Latest(Upto(r, k, n + 1))].at]
    <3>1. CASE k = Key(e)
      BY <3>1, <2>3, <1>0, <1>2, <1>3
    <3>2. CASE k # Key(e)
      BY <3>2, <2>2, <2>3, <1>1 DEF OpenAre
    <3> QED BY <3>1, <3>2
  <2> QED BY <2>4, <2>5 DEF OpenAre
<1>4. CASE ~Triggers(r, e) /\ Resolves(r, e)
  <2>1. CASE Key(e) \in DOMAIN st.open
    <3>1. new.open = Drop(st.open, Key(e))
      BY <1>4, <2>1, TimeoutResolved
    <3>2. DOMAIN new.open = DOMAIN st.open \ {Key(e)} /\ \A k \in DOMAIN new.open : new.open[k] = st.open[k]
      BY <3>1 DEF Drop
    <3> HIDE DEF new
    <3> QED BY <3>2, <1>1, <1>2, <1>4 DEF OpenAre
  <2>2. CASE Key(e) \notin DOMAIN st.open
    <3>1. new = st
      BY <1>4, <2>2, TimeoutPassed
    <3> HIDE DEF new
    <3> QED BY <3>1, <2>2, <1>1, <1>2, <1>4 DEF OpenAre
  <2> QED BY <2>1, <2>2
<1>5. CASE ~Triggers(r, e) /\ ~Resolves(r, e)
  <2>1. new = st
    BY <1>5, TimeoutPassed
  <2> HIDE DEF new
  <2> QED BY <2>1, <1>1, <1>5 DEF OpenAre
<1> QED BY <1>3, <1>4, <1>5, <1>6

\* The finite set of the late answers grows with the answer that is late.
LEMMA LateNext ==
    ASSUME NEW n \in Nat, NEW r
    PROVE  /\ IsFiniteSet(LateUpto(r, n))
           /\ LateAt(r, n + 1) => /\ LateUpto(r, n + 1) = LateUpto(r, n) \cup {n + 1}
                                  /\ Cardinality(LateUpto(r, n + 1)) = Cardinality(LateUpto(r, n)) + 1
           /\ ~LateAt(r, n + 1) => LateUpto(r, n + 1) = LateUpto(r, n)
<1> DEFINE L == LateUpto(r, n)
<1>1. L \subseteq 1..n /\ n + 1 \notin L
  BY DEF LateUpto
<1>2. IsFiniteSet(L)
  <2>1. 1 \in Int /\ n \in Int
    OBVIOUS
  <2>2. IsFiniteSet(1..n)
    BY <2>1, FS_Interval
  <2> QED BY <1>1, <2>2, FS_Subset
<1>3. PICK A : A = L
  OBVIOUS
<1>4. n + 1 \notin A => Cardinality(A \cup {n + 1}) = Cardinality(A) + 1
  BY <1>2, <1>3, FS_AddElement
<1>5. LateAt(r, n + 1) => LateUpto(r, n + 1) = LateUpto(r, n) \cup {n + 1}
  BY DEF LateUpto
<1>6. ~LateAt(r, n + 1) => LateUpto(r, n + 1) = LateUpto(r, n)
  BY DEF LateUpto
<1> QED BY <1>1, <1>2, <1>3, <1>4, <1>5, <1>6

\* A late answer is one more failure, dated to itself.
LEMMA OutStep ==
    ASSUME NEW S, events \in Seq(S), NEW n \in Nat, n + 1 <= Len(events), NEW r, NEW st,
           OpenAre(r, n, st), OutAre(r, n, st)
    PROVE  OutAre(r, n + 1, TimeoutStep(r, st, events[n + 1]))
<1>0. PICK e : e = events[n + 1]
  OBVIOUS
<1> DEFINE new == TimeoutStep(r, st, e)
           took == e.at - st.open[Key(e)].at
           f == Failure(r, e.station, Key(e), <<"late", Rounded(took)>>, e.at)
<1>1. TimeoutStep(r, st, events[n + 1]) = new
  BY <1>0
<1> SUFFICES OutAre(r, n + 1, new)
  BY <1>1
<1>2. LateAt(r, n + 1) <=> Resolves(r, e) /\ Key(e) \in DOMAIN st.open /\ took > r.within
  <2>1. Earlier(r, n + 1) = Upto(r, Key(e), n)
    BY <1>0, UptoNext
  <2>2. Key(e) \in DOMAIN st.open <=> Waits(r, Key(e), n)
    BY DEF OpenAre
  <2>3. Key(e) \in DOMAIN st.open => st.open[Key(e)].at = events[Latest(Upto(r, Key(e), n))].at
    <3> DEFINE m == Latest(Upto(r, Key(e), n))
    <3> SUFFICES ASSUME Key(e) \in DOMAIN st.open PROVE st.open[Key(e)].at = events[m].at
      OBVIOUS
    <3>1. st.open[Key(e)] = [station |-> events[m].station, at |-> events[m].at]
      BY DEF OpenAre
    <3> HIDE DEF m
    <3> QED BY <3>1
  <2> QED BY <1>0, <2>1, <2>2, <2>3 DEF LateAt, Waits
<1>3. CASE LateAt(r, n + 1)
  <2>1. new.out = Append(st.out, f)
    <3>1. new = [open |-> Drop(st.open, Key(e)), out |-> Answered(r, st, e)]
      BY <1>2, <1>3, TimeoutResolved
    <3>2. Answered(r, st, e) = Append(st.out, f)
      BY <1>2, <1>3 DEF Answered
    <3> HIDE DEF f, new
    <3> QED BY <3>1, <3>2
  <2>2. f.detail # <<"missing">> /\ DateOf(f) = DateOf(e)
    <3>1. f.detail = <<"late", Rounded(took)>> /\ f.run = e.run /\ f.actuator = e.actuator /\ f.at = e.at
      BY DEF Failure, Key
    <3> HIDE DEF f, took
    <3>2. <<"late", Rounded(took)>> # <<"missing">>
      OBVIOUS
    <3> QED BY <3>1, <3>2 DEF DateOf, Key
  <2>3. Sequence(new.out) /\ Len(new.out) = Len(st.out) + 1 /\ Range(new.out) = Range(st.out) \cup {f}
    <3> HIDE DEF f, new
    <3> QED BY <2>1, AppendOne DEF OutAre
  <2>4. /\ LateUpto(r, n + 1) = LateUpto(r, n) \cup {n + 1}
        /\ Cardinality(LateUpto(r, n + 1)) = Cardinality(LateUpto(r, n)) + 1
    BY <1>3, LateNext
  <2> HIDE DEF f, new
  <2>5. {DateOf(g) : g \in Range(new.out)} = {DateOf(g) : g \in Range(st.out)} \cup {DateOf(e)}
    BY <2>2, <2>3
  <2>6. {DateOf(events[i]) : i \in LateUpto(r, n + 1)}
          = {DateOf(events[i]) : i \in LateUpto(r, n)} \cup {DateOf(e)}
    BY <1>0, <2>4
  <2> QED BY <2>2, <2>3, <2>4, <2>5, <2>6 DEF OutAre
<1>4. CASE ~LateAt(r, n + 1)
  <2>1. new.out = st.out
    <3>1. CASE Triggers(r, e)
      <4>1. new = [open |-> With(st.open, Key(e), [station |-> e.station, at |-> e.at]), out |-> st.out]
        BY <3>1, TimeoutTriggered
      <4> HIDE DEF new
      <4> QED BY <4>1
    <3>2. CASE Resolves(r, e) /\ Key(e) \in DOMAIN st.open
      <4>1. new = [open |-> Drop(st.open, Key(e)), out |-> Answered(r, st, e)]
        BY <3>2, TimeoutResolved
      <4>2. Answered(r, st, e) = st.out
        BY <1>2, <1>4, <3>2 DEF Answered
      <4> HIDE DEF new
      <4> QED BY <4>1, <4>2
    <3>3. CASE ~Triggers(r, e) /\ ~(Resolves(r, e) /\ Key(e) \in DOMAIN st.open)
      BY <3>3, TimeoutPassed
    <3> QED BY <3>1, <3>2, <3>3
  <2>2. LateUpto(r, n + 1) = LateUpto(r, n)
    BY <1>4, LateNext
  <2> HIDE DEF new
  <2> QED BY <2>1, <2>2 DEF OutAre
<1> QED BY <1>3, <1>4

\* The detector before the first event.
LEMMA TimeoutStart ==
    ASSUME NEW S, events \in Seq(S), NEW r
    PROVE  OpenAre(r, 0, [open |-> <<>>, out |-> <<>>]) /\ OutAre(r, 0, [open |-> <<>>, out |-> <<>>])
<1> DEFINE st == [open |-> <<>>, out |-> <<>>]
<1>1. st.open = <<>> /\ st.out = <<>> /\ DOMAIN st.open = {}
  OBVIOUS
<1> HIDE DEF st
<1>2. \A k : Upto(r, k, 0) = {}
  BY DEF Upto, Relevant
<1>3. LateUpto(r, 0) = {} /\ Cardinality(LateUpto(r, 0)) = 0
  <2>1. LateUpto(r, 0) = {}
    BY DEF LateUpto
  <2> QED BY <2>1, FS_EmptySet
<1>4. OpenAre(r, 0, st)
  BY <1>1, <1>2 DEF OpenAre, Waits
<1>5. OutAre(r, 0, st)
  BY <1>1, <1>3, EmptySequence DEF OutAre
<1> QED BY <1>4, <1>5 DEF st

\* So it is behind each event.
LEMMA TimeoutBehind ==
    ASSUME NEW S, events \in Seq(S), NEW r
    PROVE  OpenAre(r, Len(events), TimeoutLoop(r, events)) /\ OutAre(r, Len(events), TimeoutLoop(r, events))
<1>0. PICK w : w = events
  OBVIOUS
<1>1. PICK s : /\ s[0] = [open |-> <<>>, out |-> <<>>]
               /\ \A n \in 1..Len(w) : s[n] = TimeoutStep(r, s[n - 1], w[n])
               /\ TimeoutLoop(r, w) = s[Len(w)]
  BY <1>0, TimeoutLoopState
<1> DEFINE Holds(n) == OpenAre(r, n, s[n]) /\ OutAre(r, n, s[n])
<1>2. PICK G : G = {n \in Nat : n <= Len(w) => Holds(n)}
  OBVIOUS
<1>3. 0 \in G
  BY <1>1, <1>2, TimeoutStart
<1>4. ASSUME NEW n \in Nat, n \in G PROVE n + 1 \in G
  <2> SUFFICES ASSUME n + 1 <= Len(w) PROVE Holds(n + 1)
    BY <1>2
  <2>1. Len(w) \in Nat
    BY <1>0
  <2>2. n + 1 \in 1..Len(w) /\ n <= Len(w) /\ (n + 1) - 1 = n
    BY <2>1
  <2>3. s[n + 1] = TimeoutStep(r, s[n], w[n + 1])
    BY <1>1, <2>2
  <2>4. OpenAre(r, n, s[n]) /\ OutAre(r, n, s[n])
    BY <1>2, <1>4, <2>2
  <2>5. OpenAre(r, n + 1, TimeoutStep(r, s[n], events[n + 1]))
    BY <1>0, <2>4, OpenStep
  <2>6. OutAre(r, n + 1, TimeoutStep(r, s[n], events[n + 1]))
    BY <1>0, <2>4, OutStep
  <2> QED BY <1>0, <2>3, <2>5, <2>6
<1>5. Len(w) \in G
  <2>1. Len(w) \in Nat
    BY <1>0
  <2> QED BY <1>3, <1>4, <2>1, Induct
<1>6. Holds(Len(w))
  <2>1. Len(w) \in Nat
    BY <1>0
  <2> QED BY <1>2, <1>5, <2>1
<1> QED BY <1>0, <1>1, <1>6

\* A listing of a finite set, in any order, is as long as the set is large.
LEMMA Listing ==
    ASSUME NEW T, IsFiniteSet(T), NEW q \in SetToSeqs(T)
    PROVE  Sequence(q) /\ Len(q) = Cardinality(T) /\ Range(q) = T
<1> DEFINE D == 1..Cardinality(T)
<1>1. Cardinality(T) \in Nat
  BY FS_CardinalityType
<1>2. q \in [D -> T] /\ \A i, j \in D : i # j => q[i] # q[j]
  BY DEF SetToSeqs
<1>3. IsFiniteSet(D) /\ Cardinality(D) = Cardinality(T)
  <2>1. 1 \in Int /\ Cardinality(T) \in Int
    BY <1>1
  <2> QED BY <1>1, <2>1, FS_Interval
<1>4. q \in Injection(D, T)
  BY <1>2, Fun_IsInj
<1>5. q \in Surjection(D, T)
  <2> HIDE DEF D
  <2> QED BY <1>3, <1>4, FS_Injection
<1>6. Range(q) = T
  <2> HIDE DEF D
  <2> QED BY <1>5, Fun_SurjectionProperties
<1>7. q \in Seq(T) /\ Len(q) = Cardinality(T)
  BY <1>1, <1>2
<1> QED BY <1>6, <1>7 DEF Sequence

\* The events have finitely many keys.
LEMMA FiniteKeys ==
    ASSUME NEW S, events \in Seq(S)
    PROVE  IsFiniteSet(Keys)
<1>0. PICK w : w = events
  OBVIOUS
<1> DEFINE f == [i \in 1..Len(w) |-> Key(w[i])]
           T == {Key(w[i]) : i \in 1..Len(w)}
<1>1. f \in Surjection(1..Len(w), T)
  <2>1. f \in [1..Len(w) -> T] /\ \A t \in T : \E i \in 1..Len(w) : f[i] = t
    OBVIOUS
  <2> HIDE DEF f, T
  <2> QED BY <2>1, Fun_IsSurj
<1>2. Len(w) \in Nat
  BY <1>0
<1>3. IsFiniteSet(T)
  <2> HIDE DEF f, T
  <2>1. 1 \in Int /\ Len(w) \in Int
    BY <1>2
  <2>2. IsFiniteSet(1..Len(w))
    BY <2>1, FS_Interval
  <2> QED BY <1>1, <2>2, FS_Surjection
<1>4. Keys = T
  BY <1>0 DEF Keys
<1> QED BY <1>3, <1>4

\* The keys of the triggers that are open in the end.
LEMMA OpenAtEnd ==
    ASSUME NEW S, events \in Seq(S), NEW r, NEW st, OpenAre(r, Len(events), st)
    PROVE  /\ DOMAIN st.open = {k \in Keys : Unanswered(r, k)}
           /\ \A k \in DOMAIN st.open : st.open[k].at = events[Latest(Relevant(r, k))].at
<1>1. ASSUME NEW k PROVE Upto(r, k, Len(events)) = Relevant(r, k)
  BY DEF Upto, Relevant
<1>2. ASSUME NEW k PROVE Waits(r, k, Len(events)) <=> k \in Keys /\ Unanswered(r, k)
  <2>1. Relevant(r, k) # {} => k \in Keys
    BY DEF Relevant, Keys
  <2> QED BY <1>1, <2>1 DEF Waits, Unanswered
<1>3. ASSUME NEW k \in DOMAIN st.open PROVE st.open[k].at = events[Latest(Relevant(r, k))].at
  <2> DEFINE m == Latest(Relevant(r, k))
  <2>1. st.open[k] = [station |-> events[m].station, at |-> events[m].at]
    BY <1>1 DEF OpenAre
  <2> HIDE DEF m
  <2>2. st.open[k].at = events[m].at
    BY <2>1
  <2> QED BY <2>2 DEF m
<1> QED BY <1>2, <1>3 DEF OpenAre

\* Each open trigger is one missing failure.
LEMMA MissingAre ==
    ASSUME NEW r, NEW open, IsFiniteSet(DOMAIN open),
           \A k \in DOMAIN open : \E x, y : k = <<x, y>>
    PROVE  /\ IsFiniteSet(Missing(r, open))
           /\ Cardinality(Missing(r, open)) = Cardinality(DOMAIN open)
           /\ \A f \in Missing(r, open) : f.detail = <<"missing">>
           /\ {DateOf(f) : f \in Missing(r, open)} = {<<k, open[k].at>> : k \in DOMAIN open}
<1> DEFINE D == DOMAIN open
           M(k) == Failure(r, open[k].station, k, <<"missing">>, open[k].at)
           g == [k \in D |-> M(k)]
           T == Missing(r, open)
<1>1. ASSUME NEW k \in D
      PROVE  M(k).detail = <<"missing">> /\ <<M(k).run, M(k).actuator>> = k /\ M(k).at = open[k].at
  <2>1. PICK x, y : k = <<x, y>>
    OBVIOUS
  <2>2. M(k).detail = <<"missing">> /\ M(k).run = k[1] /\ M(k).actuator = k[2] /\ M(k).at = open[k].at
    BY DEF Failure
  <2>3. <<k[1], k[2]>> = k
    BY <2>1
  <2> HIDE DEF M
  <2> QED BY <2>2, <2>3
<1>2. T = {M(k) : k \in D}
  BY DEF Missing
<1> HIDE DEF M, T
<1>3. g \in [D -> T] /\ (\A a, b \in D : g[a] = g[b] => a = b) /\ (\A t \in T : \E k \in D : g[k] = t)
  <2>1. g \in [D -> T] /\ \A t \in T : \E k \in D : g[k] = t
    BY <1>2
  <2>2. \A a, b \in D : g[a] = g[b] => a = b
    <3>1. \A k \in D : <<g[k].run, g[k].actuator>> = k
      BY <1>1
    <3> HIDE DEF g
    <3> QED BY <3>1
  <2> QED BY <2>1, <2>2
<1>4. ExistsBijection(D, T)
  <2> HIDE DEF g
  <2>1. g \in Injection(D, T) /\ g \in Surjection(D, T)
    BY <1>3, Fun_IsInj, Fun_IsSurj
  <2>2. g \in Bijection(D, T)
    BY <2>1 DEF Bijection
  <2> QED BY <2>2 DEF ExistsBijection
<1>5. IsFiniteSet(T) /\ Cardinality(T) = Cardinality(D)
  <2> HIDE DEF D
  <2>1. IsFiniteSet(D)
    BY DEF D
  <2> QED BY <1>4, <2>1, FS_Bijection
<1>6. {DateOf(f) : f \in T} = {<<k, open[k].at>> : k \in D}
  <2>1. {DateOf(f) : f \in T} = {DateOf(M(k)) : k \in D}
    BY <1>2
  <2>2. ASSUME NEW k \in D PROVE DateOf(M(k)) = <<k, open[k].at>>
    BY <1>1 DEF DateOf, Key
  <2> QED BY <2>1, <2>2
<1> QED BY <1>1, <1>2, <1>5, <1>6 DEF T

\* For any events, the timeout detector reports exactly the answers that came too late,
\* and a missing answer for each actuator whose last word is a trigger (rules.go:173).
THEOREM TimeoutsArePairs ==
    ASSUME NEW S, events \in Seq(S)
    PROVE  TimeoutIsPairing
<1> SUFFICES ASSUME NEW r \in RulesOf("timeout"), NEW out \in TimeoutResults(r, events)
             PROVE  LET late    == {i \in DOMAIN events : LateAt(r, i)}
                        missing == {k \in Keys : Unanswered(r, k)}
                        Missed(f) == f.detail = <<"missing">>
                    IN  /\ Len(out) = Cardinality(late) + Cardinality(missing)
                        /\ {DateOf(f) : f \in {g \in ToSet(out) : ~Missed(g)}}
                             = {DateOf(events[i]) : i \in late}
                        /\ {DateOf(f) : f \in {g \in ToSet(out) : Missed(g)}}
                             = {<<k, events[Latest(Relevant(r, k))].at>> : k \in missing}
  BY DEF TimeoutIsPairing
<1> DEFINE late == {i \in DOMAIN events : LateAt(r, i)}
           missing == {k \in Keys : Unanswered(r, k)}
           Missed(f) == f.detail = <<"missing">>
<1>1. PICK end : end = TimeoutLoop(r, events)
  OBVIOUS
<1>2. OpenAre(r, Len(events), end) /\ OutAre(r, Len(events), end)
  BY <1>1, TimeoutBehind
<1>3. PICK rest \in SetToSeqs(Missing(r, end.open)) : out = end.out \o rest
  BY <1>1 DEF TimeoutResults
<1>4. late = LateUpto(r, Len(events))
  BY DEF LateUpto
<1>5. DOMAIN end.open = missing /\ \A k \in missing : end.open[k].at = events[Latest(Relevant(r, k))].at
  BY <1>2, OpenAtEnd
<1>6. IsFiniteSet(DOMAIN end.open)
  <2>1. PICK K : K = Keys
    OBVIOUS
  <2>2. IsFiniteSet(K) /\ DOMAIN end.open \subseteq K
    BY <1>5, <2>1, FiniteKeys
  <2> QED BY <2>2, FS_Subset
<1>7. \A k \in DOMAIN end.open : \E x, y : k = <<x, y>>
  <2>1. \A k \in Keys : \E x, y : k = <<x, y>>
    BY DEF Keys, Key
  <2> QED BY <1>5, <2>1
<1>8. PICK lost : lost = Missing(r, end.open)
  OBVIOUS
<1>9. /\ IsFiniteSet(lost)
      /\ Cardinality(lost) = Cardinality(DOMAIN end.open)
      /\ \A f \in lost : f.detail = <<"missing">>
      /\ {DateOf(f) : f \in lost} = {<<k, end.open[k].at>> : k \in DOMAIN end.open}
  BY ONLY <1>6, <1>7, <1>8, MissingAre
<1>10. Sequence(rest) /\ Len(rest) = Cardinality(lost) /\ Range(rest) = lost
  BY <1>3, <1>8, <1>9, Listing
<1>11. Len(out) = Len(end.out) + Len(rest) /\ Range(out) = Range(end.out) \cup Range(rest)
  BY <1>2, <1>3, <1>10, Concatenation DEF OutAre
<1>12. ToSet(out) = Range(end.out) \cup lost
  <2>1. ToSet(out) = Range(out)
    BY DEF ToSet, Range
  <2> QED BY <2>1, <1>10, <1>11
<1>13. {g \in ToSet(out) : ~Missed(g)} = Range(end.out) /\ {g \in ToSet(out) : Missed(g)} = lost
  BY <1>2, <1>9, <1>12 DEF OutAre
<1>14. Len(out) = Cardinality(late) + Cardinality(missing)
  BY <1>2, <1>4, <1>5, <1>9, <1>10, <1>11 DEF OutAre
<1>15. {DateOf(f) : f \in Range(end.out)} = {DateOf(events[i]) : i \in late}
  BY <1>2, <1>4 DEF OutAre
<1>16. {DateOf(f) : f \in lost} = {<<k, events[Latest(Relevant(r, k))].at>> : k \in missing}
  <2> HIDE DEF missing
  <2>1. {<<k, end.open[k].at>> : k \in missing} = {<<k, events[Latest(Relevant(r, k))].at>> : k \in missing}
    BY <1>5
  <2> QED BY <1>5, <1>9, <2>1
<1> HIDE DEF late, missing
<1> QED BY <1>13, <1>14, <1>15, <1>16 DEF late, missing

-----------------------------------------------------------------------------
(* consecutive *)

\* Multiples are at least one factor apart.
LEMMA Multiples ==
    ASSUME NEW q \in Nat, NEW a \in Nat, NEW b \in Nat, a < b
    PROVE  q * a + q <= q * b
<1>1. PICK d \in Nat : b = a + 1 + d
  <2>1. b - a - 1 \in Nat /\ b = a + 1 + (b - a - 1)
    OBVIOUS
  <2> QED BY <2>1
<1>2. q * b = q * a + q + q * d
  BY <1>1
<1>3. q * d \in Nat /\ q * a \in Nat
  OBVIOUS
<1> QED BY ONLY <1>2, <1>3, q \in Nat

\* Quotient and remainder are the only ones.
LEMMA OneRemainder ==
    ASSUME NEW q \in Nat, NEW a \in Nat, NEW b \in Nat, NEW v \in 0..(q - 1), NEW u \in 0..(q - 1),
           q * a + v = q * b + u
    PROVE  u = v
<1>1. ~(a < b)
  <2> SUFFICES ASSUME a < b PROVE FALSE
    OBVIOUS
  <2>1. q * a + q <= q * b
    BY Multiples
  <2>2. q * a \in Nat /\ q * b \in Nat
    OBVIOUS
  <2> QED BY ONLY <2>1, <2>2, q \in Nat, u \in 0..(q - 1), v \in 0..(q - 1), q * a + v = q * b + u
<1>2. ~(b < a)
  <2> SUFFICES ASSUME b < a PROVE FALSE
    OBVIOUS
  <2>1. q * b + q <= q * a
    BY Multiples
  <2>2. q * a \in Nat /\ q * b \in Nat
    OBVIOUS
  <2> QED BY ONLY <2>1, <2>2, q \in Nat, u \in 0..(q - 1), v \in 0..(q - 1), q * a + v = q * b + u
<1>3. a = b
  BY <1>1, <1>2
<1>4. q * a = q * b /\ q * a \in Nat
  BY <1>3
<1> QED BY <1>4

\* Counting on, the remainder counts on until it starts over.
LEMMA NextRemainder ==
    ASSUME NEW c \in Nat, NEW q \in Nat, q >= 2
    PROVE  /\ c % q \in 0..(q - 1)
           /\ (c % q) + 1 = q => (c + 1) % q = 0
           /\ (c % q) + 1 # q => (c + 1) % q = (c % q) + 1
           /\ 1 % q = 1
<1>1. ASSUME NEW d \in Nat PROVE d % q \in 0..(q - 1) /\ d \div q \in Nat /\ d = q * (d \div q) + (d % q)
  OBVIOUS
<1>2. PICK a \in Nat, v \in 0..(q - 1) : a = c \div q /\ v = c % q /\ c = q * a + v
  BY <1>1
<1>3. PICK b \in Nat, u \in 0..(q - 1) : b = (c + 1) \div q /\ u = (c + 1) % q /\ c + 1 = q * b + u
  <2>1. c + 1 \in Nat
    OBVIOUS
  <2> QED BY <1>1, <2>1
<1>4. CASE v + 1 = q
  <2>1. q * (a + 1) = q * a + q /\ q * a \in Nat /\ q * b \in Nat
    OBVIOUS
  <2>2. q * (a + 1) + 0 = q * b + u /\ a + 1 \in Nat /\ 0 \in 0..(q - 1)
    BY <1>2, <1>3, <1>4, <2>1
  <2>3. u = 0
    BY ONLY <2>2, OneRemainder, q \in Nat, b \in Nat, u \in 0..(q - 1)
  <2> QED BY <1>1, <1>2, <1>3, <1>4, <2>3
<1>5. CASE v + 1 # q
  <2>1. q * a \in Nat /\ q * b \in Nat
    OBVIOUS
  <2>2. q * a + (v + 1) = q * b + u /\ v + 1 \in 0..(q - 1)
    BY <1>2, <1>3, <1>5, <2>1
  <2>3. u = v + 1
    BY ONLY <2>2, OneRemainder, q \in Nat, a \in Nat, b \in Nat, u \in 0..(q - 1)
  <2> QED BY <1>1, <1>2, <1>3, <1>5, <2>3
<1> QED BY <1>4, <1>5

\* The triggers at which the detector fires, among the first n events.
HitsUpto(r, n) == {i \in 1..n : Triggers(r, events[i]) /\ Cardinality(UnbrokenRow(r, i)) % r.count = 0}

\* The row of triggers that k is in after n events.
RowOf(r, k, n) == UnbrokenRow(r, Latest(Upto(r, k, n)))

\* The count of a key is what remains of its row since it last fired.
CountsAre(r, n, st) ==
    /\ \A k : k \in DOMAIN st.open <=> Waits(r, k, n) /\ Cardinality(RowOf(r, k, n)) % r.count # 0
    /\ \A k \in DOMAIN st.open : st.open[k] = Cardinality(RowOf(r, k, n)) % r.count

HitsAre(r, n, st) ==
    /\ Sequence(st.out)
    /\ Len(st.out) = Cardinality(HitsUpto(r, n))
    /\ {DateOf(f) : f \in Range(st.out)} = {DateOf(events[i]) : i \in HitsUpto(r, n)}

\* A trigger that follows a trigger makes its row longer, any other begins one.
LEMMA RowNext ==
    ASSUME NEW S, events \in Seq(S), NEW n \in Nat, n + 1 <= Len(events), NEW r, NEW k,
           Key(events[n + 1]) = k, Triggers(r, events[n + 1])
    PROVE  /\ ~Waits(r, k, n) => Cardinality(UnbrokenRow(r, n + 1)) = 1
           /\ Waits(r, k, n) => /\ Cardinality(RowOf(r, k, n)) \in Nat
                                /\ Cardinality(UnbrokenRow(r, n + 1)) = Cardinality(RowOf(r, k, n)) + 1
<1> DEFINE E == Upto(r, k, n)
           T(m) == Triggers(r, events[m])
<1>1. Earlier(r, n + 1) = E /\ E \subseteq 1..n
  BY UptoNext
<1>2. UnbrokenRow(r, n + 1) = {j \in E \cup {n + 1} : \A m \in E \cup {n + 1} : m >= j => T(m)}
  BY <1>1 DEF UnbrokenRow
<1>3. T(n + 1)
  OBVIOUS
<1>4. E # {} => Latest(E) \in E /\ \A j \in E : j <= Latest(E)
  BY <1>1, Greatest
<1>5. Waits(r, k, n) <=> E # {} /\ T(Latest(E))
  BY DEF Waits
<1>6. E # {} => Earlier(r, Latest(E)) \cup {Latest(E)} = E
  <2> SUFFICES ASSUME E # {} PROVE Earlier(r, Latest(E)) \cup {Latest(E)} = E
    OBVIOUS
  <2>1. PICK l \in E : l = Latest(E) /\ \A j \in E : j <= l
    BY <1>4
  <2>2. Key(events[l]) = k
    BY <2>1 DEF Upto, Relevant
  <2>3. E = {i \in Relevant(r, k) : i <= n} /\ Relevant(r, k) \subseteq Nat /\ Earlier(r, l) = {j \in Relevant(r, k) : j < l}
    BY <2>2 DEF Upto, Earlier, Relevant
  <2> HIDE DEF E
  <2>4. {j \in Relevant(r, k) : j < l} \cup {l} = E
    <3>1. PICK R : R = Relevant(r, k)
      OBVIOUS
    <3>2. R \subseteq Nat /\ E = {i \in R : i <= n} /\ l \in E /\ \A j \in E : j <= l
      BY <2>1, <2>3, <3>1
    <3>3. ASSUME NEW j \in R PROVE j <= n <=> j < l \/ j = l
      <4>1. j \in Nat /\ l \in Nat /\ l <= n /\ (j <= n => j <= l)
        BY <3>2
      <4> QED BY ONLY <4>1, n \in Nat
    <3>4. {j \in R : j < l} \cup {l} = E
      BY ONLY <3>2, <3>3
    <3> QED BY <3>1, <3>4
  <2> QED BY <2>1, <2>3, <2>4
<1>7. E # {} => RowOf(r, k, n) = {j \in E : \A m \in E : m >= j => T(m)}
  BY <1>6 DEF RowOf, UnbrokenRow
<1> HIDE DEF E, T
<1>8. CASE ~Waits(r, k, n)
  <2>1. UnbrokenRow(r, n + 1) = {n + 1}
    <3>1. \A j \in E : j \notin UnbrokenRow(r, n + 1)
      <4> SUFFICES ASSUME NEW j \in E, \A m \in E \cup {n + 1} : m >= j => T(m) PROVE FALSE
        BY <1>2
      <4>1. Latest(E) \in E /\ Latest(E) >= j /\ ~T(Latest(E))
        BY <1>1, <1>4, <1>5, <1>8
      <4> QED BY <4>1
    <3>2. \A m \in E : ~(m >= n + 1)
      BY <1>1
    <3>3. n + 1 \in UnbrokenRow(r, n + 1)
      BY <1>2, <1>3, <3>2
    <3> QED BY <1>2, <3>1, <3>3
  <2> QED BY <1>8, <2>1, FS_Singleton
<1>9. CASE Waits(r, k, n)
  <2>1. PICK A : A = RowOf(r, k, n)
    OBVIOUS
  <2>2. A = {j \in E : \A m \in E : m >= j => T(m)}
    BY <1>5, <1>7, <1>9, <2>1
  <2>3. UnbrokenRow(r, n + 1) = A \cup {n + 1} /\ n + 1 \notin A
    <3>1. \A m \in E : ~(m >= n + 1) /\ m # n + 1
      BY <1>1
    <3> QED BY <1>2, <1>3, <2>2, <3>1
  <2>4. IsFiniteSet(A)
    <3>1. 1 \in Int /\ n \in Int
      OBVIOUS
    <3>2. IsFiniteSet(1..n)
      BY <3>1, FS_Interval
    <3> QED BY <1>1, <2>2, <3>2, FS_Subset
  <2>5. Cardinality(A) \in Nat /\ Cardinality(A \cup {n + 1}) = Cardinality(A) + 1
    BY <2>3, <2>4, FS_AddElement, FS_CardinalityType
  <2> QED BY <1>9, <2>1, <2>3, <2>5
<1> QED BY <1>8, <1>9

\* The streak of a trigger and the length of its row agree up to the count.
LEMMA StreakCounts ==
    ASSUME NEW S, events \in Seq(S), NEW n \in Nat, n + 1 <= Len(events), NEW r,
           r.count \in Nat, r.count >= 2, NEW st, CountsAre(r, n, st), Triggers(r, events[n + 1])
    PROVE  /\ Streak(st, Key(events[n + 1])) \in Nat
           /\ Streak(st, Key(events[n + 1])) >= r.count <=> Cardinality(UnbrokenRow(r, n + 1)) % r.count = 0
           /\ Cardinality(UnbrokenRow(r, n + 1)) % r.count # 0
                => Streak(st, Key(events[n + 1])) = Cardinality(UnbrokenRow(r, n + 1)) % r.count
<1>0. PICK k, q, R : k = Key(events[n + 1]) /\ q = r.count /\ R = Cardinality(UnbrokenRow(r, n + 1))
  OBVIOUS
<1>1. q \in Nat /\ q >= 2
  BY <1>0
<1>2. PICK v : v = Streak(st, k)
  OBVIOUS
<1>3. CASE ~Waits(r, k, n)
  <2>1. k \notin DOMAIN st.open
    BY <1>3 DEF CountsAre
  <2>2. v = 1
    BY <1>2, <2>1 DEF Streak
  <2>3. R = 1
    BY <1>0, <1>3, RowNext
  <2>4. 1 % q = 1
    BY <1>1, NextRemainder
  <2> QED BY <1>0, <1>1, <1>2, <2>2, <2>3, <2>4
<1>4. CASE Waits(r, k, n)
  <2>1. PICK c : c = Cardinality(RowOf(r, k, n))
    OBVIOUS
  <2>2. c \in Nat /\ R = c + 1
    BY <1>0, <1>4, <2>1, RowNext
  <2>3. /\ c % q \in 0..(q - 1)
        /\ (c % q) + 1 = q => (c + 1) % q = 0
        /\ (c % q) + 1 # q => (c + 1) % q = (c % q) + 1
    BY <1>1, <2>2, NextRemainder
  <2>4. v = 1 + (c % q)
    <3>1. CASE c % q = 0
      <4>1. k \notin DOMAIN st.open
        BY <1>0, <1>4, <2>1, <3>1 DEF CountsAre
      <4> QED BY <1>2, <3>1, <4>1 DEF Streak
    <3>2. CASE c % q # 0
      <4>1. k \in DOMAIN st.open /\ st.open[k] = c % q
        BY <1>0, <1>4, <2>1, <3>2 DEF CountsAre
      <4> QED BY <1>2, <4>1 DEF Streak
    <3> QED BY <3>1, <3>2
  <2>5. PICK d : d = c % q
    OBVIOUS
  <2>6. /\ d \in 0..(q - 1) /\ v = 1 + d
        /\ d + 1 = q => R % q = 0
        /\ d + 1 # q => R % q = d + 1
    BY <2>2, <2>3, <2>4, <2>5
  <2>7. v \in Nat /\ (v >= q <=> R % q = 0) /\ (R % q # 0 => v = R % q)
    BY ONLY <2>6, <1>1
  <2> QED BY <1>0, <1>2, <2>7
<1> QED BY <1>3, <1>4

\* A streak that reaches the count fires and starts over.
LEMMA ConsecutiveFired ==
    ASSUME NEW r, NEW st, NEW e, Triggers(r, e), Streak(st, Key(e)) >= r.count,
           ~(Streak(st, Key(e)) < r.count)
    PROVE  ConsecutiveStep(r, st, e) = [open |-> Drop(st.open, Key(e)), out |-> Append(st.out, Fired(r, st, e))]
<1>1. ~Resolves(r, e)
  BY DEF Resolves, Triggers
<1> QED BY <1>1, Zenon DEF ConsecutiveStep

\* One that does not goes on.
LEMMA ConsecutiveCounted ==
    ASSUME NEW r, NEW st, NEW e, Triggers(r, e), Streak(st, Key(e)) < r.count,
           ~(Streak(st, Key(e)) >= r.count)
    PROVE  ConsecutiveStep(r, st, e)
             = [open |-> With(st.open, Key(e), Streak(st, Key(e))), out |-> st.out]
<1>1. ~Resolves(r, e)
  BY DEF Resolves, Triggers
<1> QED BY <1>1, Zenon DEF ConsecutiveStep

\* A resolve ends it.
LEMMA ConsecutiveResolved ==
    ASSUME NEW r, NEW st, NEW e, Resolves(r, e)
    PROVE  ConsecutiveStep(r, st, e) = [open |-> Drop(st.open, Key(e)), out |-> st.out]
<1>1. ~Triggers(r, e)
  BY DEF Resolves, Triggers
<1> QED BY <1>1, Zenon DEF ConsecutiveStep

\* Any other event passes.
LEMMA ConsecutivePassed ==
    ASSUME NEW r, NEW st, NEW e, ~Triggers(r, e), ~Resolves(r, e)
    PROVE  ConsecutiveStep(r, st, e) = st
BY Zenon DEF ConsecutiveStep

\* A hit is one more in the finite set of them.
LEMMA HitsNext ==
    ASSUME NEW n \in Nat, NEW r
    PROVE  LET hit == Triggers(r, events[n + 1]) /\ Cardinality(UnbrokenRow(r, n + 1)) % r.count = 0
           IN  /\ hit => /\ HitsUpto(r, n + 1) = HitsUpto(r, n) \cup {n + 1}
                         /\ Cardinality(HitsUpto(r, n + 1)) = Cardinality(HitsUpto(r, n)) + 1
               /\ ~hit => HitsUpto(r, n + 1) = HitsUpto(r, n)
<1> DEFINE hit(i) == Triggers(r, events[i]) /\ Cardinality(UnbrokenRow(r, i)) % r.count = 0
<1>1. PICK H : H = HitsUpto(r, n)
  OBVIOUS
<1>2. H \subseteq 1..n /\ n + 1 \notin H
  BY <1>1 DEF HitsUpto
<1>3. IsFiniteSet(H)
  <2>1. 1 \in Int /\ n \in Int
    OBVIOUS
  <2>2. IsFiniteSet(1..n)
    BY <2>1, FS_Interval
  <2> QED BY <1>2, <2>2, FS_Subset
<1>4. Cardinality(H \cup {n + 1}) = Cardinality(H) + 1
  BY <1>2, <1>3, FS_AddElement
<1>5. HitsUpto(r, n) = {i \in 1..n : hit(i)} /\ HitsUpto(r, n + 1) = {i \in 1..(n + 1) : hit(i)}
  BY DEF HitsUpto
<1> HIDE DEF hit
<1>6. hit(n + 1) => HitsUpto(r, n + 1) = H \cup {n + 1}
  BY <1>1, <1>5
<1>7. ~hit(n + 1) => HitsUpto(r, n + 1) = H
  BY <1>1, <1>5
<1> QED BY <1>1, <1>4, <1>6, <1>7 DEF hit

\* What one event does to the counts.
LEMMA CountsStep ==
    ASSUME NEW S, events \in Seq(S), NEW n \in Nat, n + 1 <= Len(events), NEW r,
           r.count \in Nat, r.count >= 2, NEW st, CountsAre(r, n, st)
    PROVE  CountsAre(r, n + 1, ConsecutiveStep(r, st, events[n + 1]))
<1>0. PICK e : e = events[n + 1]
  OBVIOUS
<1> DEFINE new == ConsecutiveStep(r, st, e)
           C(k, m) == Cardinality(RowOf(r, k, m)) % r.count
<1>6. ConsecutiveStep(r, st, events[n + 1]) = new
  BY <1>0
<1> SUFFICES CountsAre(r, n + 1, new)
  BY <1>6
<1>1. ASSUME NEW k, k # Key(e) \/ ~(Triggers(r, e) \/ Resolves(r, e))
      PROVE  (Waits(r, k, n + 1) <=> Waits(r, k, n)) /\ C(k, n + 1) = C(k, n)
  <2>1. Upto(r, k, n + 1) = Upto(r, k, n)
    BY <1>0, <1>1, UptoNext
  <2> QED BY <2>1 DEF Waits, RowOf
<1>2. ASSUME Triggers(r, e) \/ Resolves(r, e)
      PROVE  /\ Waits(r, Key(e), n + 1) <=> Triggers(r, e)
             /\ C(Key(e), n + 1) = Cardinality(UnbrokenRow(r, n + 1)) % r.count
  <2>1. /\ Upto(r, Key(e), n + 1) = Upto(r, Key(e), n) \cup {n + 1}
        /\ Latest(Upto(r, Key(e), n + 1)) = n + 1
    BY <1>0, <1>2, UptoNext
  <2> QED BY <1>0, <2>1 DEF Waits, RowOf
<1>3. /\ \A k : k \in DOMAIN st.open <=> Waits(r, k, n) /\ C(k, n) # 0
      /\ \A k \in DOMAIN st.open : st.open[k] = C(k, n)
  BY DEF CountsAre
<1>4. ASSUME \A k : k \in DOMAIN new.open <=> Waits(r, k, n + 1) /\ C(k, n + 1) # 0,
             \A k \in DOMAIN new.open : new.open[k] = C(k, n + 1)
      PROVE  CountsAre(r, n + 1, new)
  BY <1>4 DEF CountsAre
<1>5. Resolves(r, e) => ~Triggers(r, e)
  BY DEF Resolves, Triggers
<1>7. CASE Resolves(r, e)
  <2>1. new = [open |-> Drop(st.open, Key(e)), out |-> st.out]
    BY <1>7, ConsecutiveResolved
  <2> HIDE DEF new, C
  <2>2. new.open = Drop(st.open, Key(e))
    BY <2>1
  <2>3. DOMAIN new.open = DOMAIN st.open \ {Key(e)} /\ \A k \in DOMAIN new.open : new.open[k] = st.open[k]
    BY <2>2 DEF Drop
  <2> QED BY <2>3, <1>1, <1>2, <1>3, <1>4, <1>5, <1>7
<1>8. CASE Triggers(r, e)
  <2> DEFINE v == Streak(st, Key(e))
  <2>0. /\ v \in Nat
        /\ v >= r.count <=> Cardinality(UnbrokenRow(r, n + 1)) % r.count = 0
        /\ Cardinality(UnbrokenRow(r, n + 1)) % r.count # 0 => v = Cardinality(UnbrokenRow(r, n + 1)) % r.count
    BY <1>0, <1>8, StreakCounts
  <2>1. CASE v >= r.count
    <3>0. ~(v < r.count)
      <4> HIDE DEF v
      <4> QED BY <2>0, <2>1
    <3>1. new = [open |-> Drop(st.open, Key(e)), out |-> Append(st.out, Fired(r, st, e))]
      BY <1>8, <2>1, <3>0, ConsecutiveFired
    <3> HIDE DEF new, C, v
    <3>2. new.open = Drop(st.open, Key(e))
      BY <3>1
    <3>3. DOMAIN new.open = DOMAIN st.open \ {Key(e)} /\ \A k \in DOMAIN new.open : new.open[k] = st.open[k]
      BY <3>2 DEF Drop
    <3>4. C(Key(e), n + 1) = 0
      BY <1>2, <1>8, <2>0, <2>1
    <3> QED BY <3>3, <3>4, <1>1, <1>3, <1>4
  <2>2. CASE ~(v >= r.count)
    <3>0. v < r.count
      <4> HIDE DEF v
      <4> QED BY <2>0, <2>2
    <3>1. new = [open |-> With(st.open, Key(e), v), out |-> st.out]
      BY <1>8, <2>2, <3>0, ConsecutiveCounted
    <3> HIDE DEF new, C, v
    <3>2. new.open = With(st.open, Key(e), v)
      BY <3>1
    <3>3. /\ DOMAIN new.open = DOMAIN st.open \cup {Key(e)} /\ new.open[Key(e)] = v
          /\ \A k \in DOMAIN st.open : k # Key(e) => new.open[k] = st.open[k]
      BY <3>2 DEF With
    <3>4. C(Key(e), n + 1) = v /\ v # 0 /\ Waits(r, Key(e), n + 1)
      BY <1>2, <1>8, <2>0, <2>2
    <3>5. ASSUME NEW k PROVE k \in DOMAIN new.open <=> Waits(r, k, n + 1) /\ C(k, n + 1) # 0
      BY <3>3, <3>4, <1>1, <1>3
    <3>6. ASSUME NEW k \in DOMAIN new.open PROVE new.open[k] = C(k, n + 1)
      BY <3>3, <3>4, <1>1, <1>3
    <3> QED BY <3>5, <3>6, <1>4
  <2> QED BY <2>1, <2>2
<1>9. CASE ~Triggers(r, e) /\ ~Resolves(r, e)
  <2>1. new = st
    BY <1>9, ConsecutivePassed
  <2> HIDE DEF new, C
  <2> QED BY <2>1, <1>1, <1>3, <1>4, <1>9
<1> QED BY <1>7, <1>8, <1>9

\* A trigger that completes a row is one more failure, dated to itself.
LEMMA HitsStep ==
    ASSUME NEW S, events \in Seq(S), NEW n \in Nat, n + 1 <= Len(events), NEW r,
           r.count \in Nat, r.count >= 2, NEW st, CountsAre(r, n, st), HitsAre(r, n, st)
    PROVE  HitsAre(r, n + 1, ConsecutiveStep(r, st, events[n + 1]))
<1>0. PICK e : e = events[n + 1]
  OBVIOUS
<1> DEFINE new == ConsecutiveStep(r, st, e)
           v == Streak(st, Key(e))
           f == Fired(r, st, e)
           hit == Triggers(r, e) /\ Cardinality(UnbrokenRow(r, n + 1)) % r.count = 0
<1>1. ConsecutiveStep(r, st, events[n + 1]) = new
  BY <1>0
<1> SUFFICES HitsAre(r, n + 1, new)
  BY <1>1
<1>2. Triggers(r, e) => v \in Nat /\ (v >= r.count <=> Cardinality(UnbrokenRow(r, n + 1)) % r.count = 0)
  BY <1>0, StreakCounts
<1>3. CASE hit
  <2>0. v >= r.count /\ ~(v < r.count)
    <3>1. v >= r.count /\ v \in Nat
      BY <1>2, <1>3
    <3> HIDE DEF v
    <3> QED BY <3>1
  <2>1. new = [open |-> Drop(st.open, Key(e)), out |-> Append(st.out, f)]
    BY <1>3, <2>0, ConsecutiveFired
  <2>2. DateOf(f) = DateOf(e)
    BY DEF Fired, Failure, DateOf, Key
  <2> HIDE DEF f, new, v
  <2>3. new.out = Append(st.out, f)
    BY <2>1
  <2>4. Sequence(new.out) /\ Len(new.out) = Len(st.out) + 1 /\ Range(new.out) = Range(st.out) \cup {f}
    BY <2>3, AppendOne DEF HitsAre
  <2>5. /\ HitsUpto(r, n + 1) = HitsUpto(r, n) \cup {n + 1}
        /\ Cardinality(HitsUpto(r, n + 1)) = Cardinality(HitsUpto(r, n)) + 1
    BY <1>0, <1>3, HitsNext
  <2>6. {DateOf(g) : g \in Range(new.out)} = {DateOf(g) : g \in Range(st.out)} \cup {DateOf(e)}
    BY <2>2, <2>4
  <2>7. {DateOf(events[i]) : i \in HitsUpto(r, n + 1)}
          = {DateOf(events[i]) : i \in HitsUpto(r, n)} \cup {DateOf(e)}
    BY <1>0, <2>5
  <2> QED BY <2>4, <2>5, <2>6, <2>7 DEF HitsAre
<1>4. CASE ~hit
  <2>1. new.out = st.out
    <3>1. CASE Triggers(r, e)
      <4>0. ~(v >= r.count) /\ v < r.count
        <5>1. ~(v >= r.count) /\ v \in Nat
          BY <1>2, <1>4, <3>1
        <5> HIDE DEF v
        <5> QED BY <5>1
      <4>1. new = [open |-> With(st.open, Key(e), v), out |-> st.out]
        BY <3>1, <4>0, ConsecutiveCounted
      <4> HIDE DEF new, v
      <4> QED BY <4>1
    <3>2. CASE Resolves(r, e)
      <4>1. new = [open |-> Drop(st.open, Key(e)), out |-> st.out]
        BY <3>2, ConsecutiveResolved
      <4> HIDE DEF new
      <4> QED BY <4>1
    <3>3. CASE ~Triggers(r, e) /\ ~Resolves(r, e)
      BY <3>3, ConsecutivePassed
    <3> QED BY <3>1, <3>2, <3>3
  <2>2. HitsUpto(r, n + 1) = HitsUpto(r, n)
    BY <1>0, <1>4, HitsNext
  <2> HIDE DEF new
  <2> QED BY <2>1, <2>2 DEF HitsAre
<1> QED BY <1>3, <1>4

\* The detector before the first event.
LEMMA ConsecutiveStart ==
    ASSUME NEW S, events \in Seq(S), NEW r
    PROVE  CountsAre(r, 0, [open |-> <<>>, out |-> <<>>]) /\ HitsAre(r, 0, [open |-> <<>>, out |-> <<>>])
<1> DEFINE st == [open |-> <<>>, out |-> <<>>]
<1>1. st.open = <<>> /\ st.out = <<>> /\ DOMAIN st.open = {}
  OBVIOUS
<1> HIDE DEF st
<1>2. \A k : Upto(r, k, 0) = {}
  BY DEF Upto, Relevant
<1>3. HitsUpto(r, 0) = {} /\ Cardinality(HitsUpto(r, 0)) = 0
  <2>1. HitsUpto(r, 0) = {}
    BY DEF HitsUpto
  <2> QED BY <2>1, FS_EmptySet
<1>4. CountsAre(r, 0, st)
  BY <1>1, <1>2 DEF CountsAre, Waits
<1>5. HitsAre(r, 0, st)
  BY <1>1, <1>3, EmptySequence DEF HitsAre
<1> QED BY <1>4, <1>5 DEF st

\* So it is behind the last event.
LEMMA ConsecutiveBehind ==
    ASSUME NEW S, events \in Seq(S), NEW r, r.count \in Nat, r.count >= 2
    PROVE  \E st : HitsAre(r, Len(events), st) /\ ConsecutiveResult(r, events) = st.out
<1>0. PICK w : w = events
  OBVIOUS
<1>1. PICK s : /\ s[0] = [open |-> <<>>, out |-> <<>>]
               /\ \A n \in 1..Len(w) : s[n] = ConsecutiveStep(r, s[n - 1], w[n])
               /\ ConsecutiveResult(r, w) = s[Len(w)].out
  BY <1>0, ConsecutiveLoopState
<1> DEFINE Holds(n) == CountsAre(r, n, s[n]) /\ HitsAre(r, n, s[n])
<1>2. PICK G : G = {n \in Nat : n <= Len(w) => Holds(n)}
  OBVIOUS
<1>3. 0 \in G
  BY <1>0, <1>1, <1>2, ConsecutiveStart
<1>4. ASSUME NEW n \in Nat, n \in G PROVE n + 1 \in G
  <2> SUFFICES ASSUME n + 1 <= Len(w) PROVE Holds(n + 1)
    BY <1>2
  <2>1. Len(w) \in Nat
    BY <1>0
  <2>2. n + 1 \in 1..Len(w) /\ n <= Len(w) /\ (n + 1) - 1 = n
    BY <2>1
  <2>3. s[n + 1] = ConsecutiveStep(r, s[n], w[n + 1])
    BY <1>1, <2>2
  <2>4. CountsAre(r, n, s[n]) /\ HitsAre(r, n, s[n])
    BY <1>2, <1>4, <2>2
  <2>5. CountsAre(r, n + 1, ConsecutiveStep(r, s[n], events[n + 1]))
    BY <1>0, <2>4, CountsStep
  <2>6. HitsAre(r, n + 1, ConsecutiveStep(r, s[n], events[n + 1]))
    BY <1>0, <2>4, HitsStep
  <2> QED BY <1>0, <2>3, <2>5, <2>6
<1>5. Len(w) \in Nat
  BY <1>0
<1>6. Len(w) \in G
  BY <1>3, <1>4, <1>5, Induct
<1>7. HitsAre(r, Len(w), s[Len(w)])
  BY <1>2, <1>5, <1>6
<1> QED BY <1>0, <1>1, <1>7

\* For any events and rules that Load accepts, the consecutive detector fires at every
\* count-th trigger of an unbroken row and at no other event (rules.go:226).
THEOREM ConsecutivesAreCounts ==
    ASSUME NEW S, events \in Seq(S)
    PROVE  ConsecutiveIsCounting
<1> SUFFICES ASSUME NEW r \in RulesOf("consecutive")
             PROVE  LET out  == ConsecutiveResult(r, events)
                        hits == {i \in DOMAIN events :
                                     Triggers(r, events[i]) /\ Cardinality(UnbrokenRow(r, i)) % r.count = 0}
                    IN  /\ Len(out) = Cardinality(hits)
                        /\ {DateOf(f) : f \in ToSet(out)} = {DateOf(events[i]) : i \in hits}
  BY DEF ConsecutiveIsCounting
<1>1. r.count \in Nat /\ r.count >= 2
  <2>1. PICK i \in DOMAIN RuleSet : r = RuleSet[i] /\ r.kind = "consecutive"
    BY DEF RulesOf, Range
  <2>2. Valid(r)
    BY <2>1, RuleSetAssumption DEF Loadable
  <2> QED BY <2>1, <2>2 DEF Valid
<1>2. PICK st : HitsAre(r, Len(events), st) /\ ConsecutiveResult(r, events) = st.out
  BY <1>1, ConsecutiveBehind
<1>3. {i \in DOMAIN events : Triggers(r, events[i]) /\ Cardinality(UnbrokenRow(r, i)) % r.count = 0}
        = HitsUpto(r, Len(events))
  BY DEF HitsUpto
<1>4. ToSet(st.out) = Range(st.out)
  BY DEF ToSet, Range
<1> QED BY <1>2, <1>3, <1>4 DEF HitsAre

-----------------------------------------------------------------------------
(* What dates a failure *)

\* A failure names the run, the actuator and the time of an event of the window.
Dated(w, f) == \E e \in Range(w) : Key(e) = <<f.run, f.actuator>> /\ e.at = f.at

\* A failure made for an event is dated to it.
LEMMA FailureDated ==
    ASSUME NEW w, NEW e \in Range(w), NEW r, NEW detail
    PROVE  Dated(w, Failure(r, e.station, Key(e), detail, e.at))
<1> DEFINE f == Failure(r, e.station, Key(e), detail, e.at)
<1>1. f.run = e.run /\ f.actuator = e.actuator /\ f.at = e.at
  BY DEF Failure, Key
<1> HIDE DEF f
<1>2. Key(e) = <<f.run, f.actuator>> /\ e.at = f.at
  BY <1>1 DEF Key
<1>3. Dated(w, f)
  BY <1>2 DEF Dated
<1> QED BY <1>3 DEF f

\* The timeout detector keeps finitely many open triggers, each of an event.
OpenDated(w, st) ==
    /\ IsFiniteSet(DOMAIN st.open)
    /\ \A k \in DOMAIN st.open : \E e \in Range(w) : Key(e) = k /\ e.at = st.open[k].at

OutDated(w, st) == Sequence(st.out) /\ \A f \in Range(st.out) : Dated(w, f)

\* Opening and closing a key keeps them so.
LEMMA OpenDatedStep ==
    ASSUME NEW w, NEW e \in Range(w), NEW r, NEW st, OpenDated(w, st)
    PROVE  OpenDated(w, TimeoutStep(r, st, e))
<1> DEFINE new == TimeoutStep(r, st, e)
<1>1. CASE Triggers(r, e)
  <2> DEFINE v == [station |-> e.station, at |-> e.at]
  <2>1. new = [open |-> With(st.open, Key(e), v), out |-> st.out]
    BY <1>1, TimeoutTriggered
  <2>2. v.at = e.at
    OBVIOUS
  <2> HIDE DEF new, v
  <2>3. new.open = With(st.open, Key(e), v)
    BY <2>1
  <2>4. /\ DOMAIN new.open = DOMAIN st.open \cup {Key(e)} /\ new.open[Key(e)] = v
        /\ \A k \in DOMAIN st.open : k # Key(e) => new.open[k] = st.open[k]
    BY <2>3 DEF With
  <2>5. IsFiniteSet(DOMAIN new.open)
    <3>1. PICK D, k : D = DOMAIN st.open /\ k = Key(e)
      OBVIOUS
    <3>2. IsFiniteSet(D \cup {k})
      BY <3>1, FS_AddElement DEF OpenDated
    <3> QED BY <2>4, <3>1, <3>2
  <2>6. ASSUME NEW k \in DOMAIN new.open
        PROVE  \E x \in Range(w) : Key(x) = k /\ x.at = new.open[k].at
    BY <2>2, <2>4 DEF OpenDated
  <2> QED BY <2>5, <2>6 DEF OpenDated, new
<1>2. CASE Resolves(r, e) /\ Key(e) \in DOMAIN st.open
  <2>1. new = [open |-> Drop(st.open, Key(e)), out |-> Answered(r, st, e)]
    BY <1>2, TimeoutResolved
  <2> HIDE DEF new
  <2>2. new.open = Drop(st.open, Key(e))
    BY <2>1
  <2>3. DOMAIN new.open \subseteq DOMAIN st.open /\ \A k \in DOMAIN new.open : new.open[k] = st.open[k]
    BY <2>2 DEF Drop
  <2>4. IsFiniteSet(DOMAIN new.open)
    <3>1. PICK D, N : D = DOMAIN st.open /\ N = DOMAIN new.open
      OBVIOUS
    <3>2. IsFiniteSet(N)
      BY <2>3, <3>1, FS_Subset DEF OpenDated
    <3> QED BY <3>1, <3>2
  <2> QED BY <2>3, <2>4 DEF OpenDated, new
<1>3. CASE ~Triggers(r, e) /\ ~(Resolves(r, e) /\ Key(e) \in DOMAIN st.open)
  <2>1. new = st
    BY <1>3, TimeoutPassed
  <2> HIDE DEF new
  <2> QED BY <2>1 DEF new
<1> QED BY <1>1, <1>2, <1>3

\* The timeout detector adds nothing to its failures, or one that is dated to the event.
LEMMA TimeoutAdds ==
    ASSUME NEW r, NEW st, NEW e
    PROVE  \/ TimeoutStep(r, st, e).out = st.out
           \/ \E took : TimeoutStep(r, st, e).out
                          = Append(st.out, Failure(r, e.station, Key(e), <<"late", Rounded(took)>>, e.at))
<1> DEFINE new == TimeoutStep(r, st, e)
<1>1. CASE Triggers(r, e)
  <2> DEFINE o == With(st.open, Key(e), [station |-> e.station, at |-> e.at])
  <2>1. new = [open |-> o, out |-> st.out]
    BY <1>1, TimeoutTriggered
  <2> HIDE DEF new, o
  <2>2. new.out = st.out
    BY <2>1
  <2> QED BY <2>2 DEF new
<1>2. CASE Resolves(r, e) /\ Key(e) \in DOMAIN st.open
  <2> DEFINE took == e.at - st.open[Key(e)].at
  <2>1. new = [open |-> Drop(st.open, Key(e)), out |-> Answered(r, st, e)]
    BY <1>2, TimeoutResolved
  <2> HIDE DEF new
  <2>2. new.out = Answered(r, st, e)
    BY <2>1
  <2>3. \/ new.out = st.out
        \/ new.out = Append(st.out, Failure(r, e.station, Key(e), <<"late", Rounded(took)>>, e.at))
    BY <2>2 DEF Answered
  <2> HIDE DEF took
  <2> QED BY <2>3 DEF new
<1>3. CASE ~Triggers(r, e) /\ ~(Resolves(r, e) /\ Key(e) \in DOMAIN st.open)
  <2>1. new = st
    BY <1>3, TimeoutPassed
  <2> QED BY <2>1
<1> QED BY <1>1, <1>2, <1>3

\* The failures stay dated.
LEMMA OutDatedStep ==
    ASSUME NEW w, NEW e \in Range(w), NEW r, NEW st, OutDated(w, st)
    PROVE  OutDated(w, TimeoutStep(r, st, e))
<1>1. PICK new : new = TimeoutStep(r, st, e)
  OBVIOUS
<1>2. CASE new.out = st.out
  BY <1>1, <1>2 DEF OutDated
<1>3. CASE \E took : new.out = Append(st.out, Failure(r, e.station, Key(e), <<"late", Rounded(took)>>, e.at))
  <2>1. PICK took : new.out = Append(st.out, Failure(r, e.station, Key(e), <<"late", Rounded(took)>>, e.at))
    BY <1>3
  <2>2. PICK f : f = Failure(r, e.station, Key(e), <<"late", Rounded(took)>>, e.at)
    OBVIOUS
  <2>3. Dated(w, f)
    BY <2>2, FailureDated
  <2>4. Sequence(new.out) /\ Range(new.out) = Range(st.out) \cup {f}
    BY <2>1, <2>2, AppendOne DEF OutDated
  <2> QED BY <1>1, <2>3, <2>4 DEF OutDated
<1> QED BY <1>1, <1>2, <1>3, TimeoutAdds

\* Behind the last event the timeout detector is so.
LEMMA TimeoutDated ==
    ASSUME NEW S, NEW w \in Seq(S), NEW r
    PROVE  OpenDated(w, TimeoutLoop(r, w)) /\ OutDated(w, TimeoutLoop(r, w))
<1>1. PICK s : /\ s[0] = [open |-> <<>>, out |-> <<>>]
               /\ \A n \in 1..Len(w) : s[n] = TimeoutStep(r, s[n - 1], w[n])
               /\ TimeoutLoop(r, w) = s[Len(w)]
  BY TimeoutLoopState
<1> DEFINE Holds(n) == OpenDated(w, s[n]) /\ OutDated(w, s[n])
           G == {n \in Nat : n <= Len(w) => Holds(n)}
<1>2. Len(w) \in Nat
  OBVIOUS
<1>3. 0 \in G
  <2>1. s[0].open = <<>> /\ s[0].out = <<>> /\ DOMAIN s[0].open = {}
    BY <1>1
  <2>2. OpenDated(w, s[0])
    BY <2>1, FS_EmptySet DEF OpenDated
  <2>3. OutDated(w, s[0])
    BY <2>1, EmptySequence DEF OutDated
  <2> QED BY <2>2, <2>3
<1>4. ASSUME NEW n \in Nat, n \in G PROVE n + 1 \in G
  <2> SUFFICES ASSUME n + 1 <= Len(w) PROVE Holds(n + 1)
    OBVIOUS
  <2>1. n + 1 \in 1..Len(w) /\ n <= Len(w) /\ (n + 1) - 1 = n
    BY <1>2
  <2>2. s[n + 1] = TimeoutStep(r, s[n], w[n + 1]) /\ w[n + 1] \in Range(w)
    BY <1>1, <2>1 DEF Range
  <2>3. OpenDated(w, s[n]) /\ OutDated(w, s[n])
    BY <1>4, <2>1
  <2> QED BY <2>2, <2>3, OpenDatedStep, OutDatedStep
<1>5. Len(w) \in G
  <2> HIDE DEF G
  <2> QED BY <1>2, <1>3, <1>4, Induct
<1> QED BY <1>1, <1>2, <1>5

\* What the timeout detector returns: the late answers and the missing ones.
LEMMA TimeoutReturns ==
    ASSUME NEW S, NEW w \in Seq(S), NEW r, NEW out \in TimeoutResults(r, w)
    PROVE  /\ Sequence(out)
           /\ Range(out) = Range(TimeoutLoop(r, w).out) \cup Missing(r, TimeoutLoop(r, w).open)
           /\ \A f \in Range(out) : Dated(w, f)
<1>1. PICK end : end = TimeoutLoop(r, w)
  OBVIOUS
<1>2. OpenDated(w, end) /\ OutDated(w, end)
  BY <1>1, TimeoutDated
<1>3. PICK rest \in SetToSeqs(Missing(r, end.open)) : out = end.out \o rest
  BY <1>1 DEF TimeoutResults
<1>4. PICK o : o = end.open
  OBVIOUS
<1>5. IsFiniteSet(DOMAIN o) /\ \A k \in DOMAIN o : \E x, y : k = <<x, y>>
  BY <1>2, <1>4 DEF OpenDated, Key
<1>6. IsFiniteSet(Missing(r, o))
  BY <1>5, MissingAre
<1>7. Sequence(rest) /\ Range(rest) = Missing(r, o)
  BY <1>3, <1>4, <1>6, Listing
<1>8. Sequence(end.out \o rest) /\ Range(end.out \o rest) = Range(end.out) \cup Range(rest)
  BY <1>2, <1>7, Concatenation DEF OutDated
<1>9. ASSUME NEW f \in Missing(r, o) PROVE Dated(w, f)
  <2>1. PICK k \in DOMAIN o : f = Failure(r, o[k].station, k, <<"missing">>, o[k].at)
    BY DEF Missing
  <2>2. PICK e \in Range(w) : Key(e) = k /\ e.at = o[k].at
    BY <1>2, <1>4 DEF OpenDated
  <2>3. f.run = k[1] /\ f.actuator = k[2] /\ f.at = o[k].at
    BY <2>1 DEF Failure
  <2>4. <<k[1], k[2]>> = k
    BY <2>2 DEF Key
  <2> QED BY <2>2, <2>3, <2>4 DEF Dated
<1> QED BY <1>1, <1>2, <1>3, <1>4, <1>7, <1>8, <1>9 DEF OutDated

\* The threshold detector returns the events that cross.
LEMMA ThresholdReturns ==
    ASSUME NEW S, NEW w \in Seq(S), NEW r
    PROVE  /\ Sequence(ThresholdResult(r, w))
           /\ Range(ThresholdResult(r, w)) = {Crossing(r, w, i) : i \in {j \in DOMAIN w : Crosses(r, w[j])}}
<1>1. PICK s : /\ s[0] = <<>>
               /\ \A n \in 1..Len(w) : s[n] = ThresholdMove(r, w, s[n - 1], n)
               /\ ThresholdResult(r, w) = s[Len(w)]
  BY ThresholdLoopState
<1> DEFINE X(n) == {Crossing(r, w, i) : i \in {j \in 1..n : Crosses(r, w[j])}}
           Holds(n) == Sequence(s[n]) /\ Range(s[n]) = X(n)
           G == {n \in Nat : n <= Len(w) => Holds(n)}
<1>2. Len(w) \in Nat
  OBVIOUS
<1>3. 0 \in G
  <2>1. X(0) = {}
    OBVIOUS
  <2> HIDE DEF X
  <2> QED BY <1>1, <2>1, EmptySequence
<1>4. ASSUME NEW n \in Nat, n \in G PROVE n + 1 \in G
  <2> SUFFICES ASSUME n + 1 <= Len(w) PROVE Holds(n + 1)
    OBVIOUS
  <2>1. n + 1 \in 1..Len(w) /\ n <= Len(w) /\ (n + 1) - 1 = n
    BY <1>2
  <2>2. s[n + 1] = ThresholdMove(r, w, s[n], n + 1)
    BY <1>1, <2>1
  <2>3. Sequence(s[n]) /\ Range(s[n]) = X(n)
    BY <1>4, <2>1
  <2>4. {j \in 1..(n + 1) : Crosses(r, w[j])}
          = {j \in 1..n : Crosses(r, w[j])} \cup (IF Crosses(r, w[n + 1]) THEN {n + 1} ELSE {})
    OBVIOUS
  <2>5. CASE Crosses(r, w[n + 1])
    <3>1. s[n + 1] = Append(s[n], Crossing(r, w, n + 1))
      BY <2>2, <2>5 DEF ThresholdMove
    <3>2. Sequence(s[n + 1]) /\ Range(s[n + 1]) = Range(s[n]) \cup {Crossing(r, w, n + 1)}
      BY <2>3, <3>1, AppendOne
    <3>3. X(n + 1) = X(n) \cup {Crossing(r, w, n + 1)}
      BY <2>4, <2>5
    <3> HIDE DEF X
    <3> QED BY <2>3, <3>2, <3>3
  <2>6. CASE ~Crosses(r, w[n + 1])
    <3>1. s[n + 1] = s[n]
      BY <2>2, <2>6 DEF ThresholdMove
    <3>2. X(n + 1) = X(n)
      BY <2>4, <2>6
    <3> HIDE DEF X
    <3> QED BY <2>3, <3>1, <3>2
  <2> QED BY <2>5, <2>6
<1>5. Len(w) \in G
  <2> HIDE DEF G
  <2> QED BY <1>2, <1>3, <1>4, Induct
<1>6. DOMAIN w = 1..Len(w)
  OBVIOUS
<1> QED BY <1>1, <1>2, <1>5, <1>6

\* The consecutive detector counts below the count, and its failures name it.
Counting(w, r, st) ==
    /\ Sequence(st.out)
    /\ \A k \in DOMAIN st.open : st.open[k] \in Nat /\ st.open[k] < r.count
    /\ \A f \in Range(st.out) : Dated(w, f) /\ f.rule = r.id /\ f.detail = <<"streak", r.count>>

\* A streak is at most the count.
LEMMA StreakBound ==
    ASSUME NEW w, NEW r, r.count \in Nat, r.count >= 2, NEW st, Counting(w, r, st), NEW k
    PROVE  Streak(st, k) \in Nat /\ Streak(st, k) <= r.count
<1>1. CASE k \in DOMAIN st.open
  <2>1. st.open[k] \in Nat /\ st.open[k] < r.count /\ Streak(st, k) = 1 + st.open[k]
    BY <1>1 DEF Counting, Streak
  <2> QED BY <2>1
<1>2. CASE k \notin DOMAIN st.open
  <2>1. Streak(st, k) = 1
    BY <1>2 DEF Streak
  <2> QED BY <2>1
<1> QED BY <1>1, <1>2

\* What the consecutive detector does with a trigger and with a resolve, and to which keys.
Moved(r, st, e, new) ==
    /\ Triggers(r, e) /\ Streak(st, Key(e)) = r.count
         => /\ new.out = Append(st.out, Fired(r, st, e))
            /\ DOMAIN new.open = DOMAIN st.open \ {Key(e)}
    /\ Triggers(r, e) /\ Streak(st, Key(e)) # r.count
         => /\ new.out = st.out
            /\ DOMAIN new.open = DOMAIN st.open \cup {Key(e)}
            /\ new.open[Key(e)] = Streak(st, Key(e))
    /\ Resolves(r, e) => new.out = st.out /\ DOMAIN new.open = DOMAIN st.open \ {Key(e)}
    /\ ~Triggers(r, e) /\ ~Resolves(r, e) => new.out = st.out /\ DOMAIN new.open = DOMAIN st.open
    /\ \A k \in DOMAIN new.open : k # Key(e) \/ ~Triggers(r, e) => new.open[k] = st.open[k]

\* The step is such a move.
LEMMA ConsecutiveMoves ==
    ASSUME NEW w, NEW r, r.count \in Nat, r.count >= 2, NEW st, Counting(w, r, st), NEW e
    PROVE  Moved(r, st, e, ConsecutiveStep(r, st, e))
<1>0. PICK new : new = ConsecutiveStep(r, st, e)
  OBVIOUS
<1> SUFFICES Moved(r, st, e, new)
  BY <1>0
<1> DEFINE v == Streak(st, Key(e))
<1>1. v \in Nat /\ v <= r.count
  BY StreakBound
<1>2. Resolves(r, e) => ~Triggers(r, e)
  BY DEF Resolves, Triggers
<1>3. CASE Triggers(r, e) /\ v = r.count
  <2>1. v >= r.count /\ ~(v < r.count)
    <3> HIDE DEF v
    <3> QED BY <1>1, <1>3
  <2>2. new = [open |-> Drop(st.open, Key(e)), out |-> Append(st.out, Fired(r, st, e))]
    BY <1>3, <2>1, <1>0, ConsecutiveFired
  <2> HIDE DEF v
  <2>3. new.open = Drop(st.open, Key(e)) /\ new.out = Append(st.out, Fired(r, st, e))
    BY <2>2
  <2>4. DOMAIN new.open = DOMAIN st.open \ {Key(e)} /\ \A k \in DOMAIN new.open : new.open[k] = st.open[k]
    BY <2>3 DEF Drop
  <2> QED BY <1>2, <1>3, <2>3, <2>4 DEF v, Moved
<1>4. CASE Triggers(r, e) /\ v # r.count
  <2>1. v < r.count /\ ~(v >= r.count)
    <3> HIDE DEF v
    <3> QED BY <1>1, <1>4
  <2>2. new = [open |-> With(st.open, Key(e), v), out |-> st.out]
    BY <1>4, <2>1, <1>0, ConsecutiveCounted
  <2> HIDE DEF v
  <2>3. new.open = With(st.open, Key(e), v) /\ new.out = st.out
    BY <2>2
  <2>4. /\ DOMAIN new.open = DOMAIN st.open \cup {Key(e)} /\ new.open[Key(e)] = v
        /\ \A k \in DOMAIN new.open : k # Key(e) => new.open[k] = st.open[k]
    BY <2>3 DEF With
  <2> QED BY <1>2, <1>4, <2>3, <2>4 DEF v, Moved
<1>5. CASE Resolves(r, e)
  <2>1. new = [open |-> Drop(st.open, Key(e)), out |-> st.out]
    BY <1>5, <1>0, ConsecutiveResolved
  <2>2. new.open = Drop(st.open, Key(e)) /\ new.out = st.out
    BY <2>1
  <2>3. DOMAIN new.open = DOMAIN st.open \ {Key(e)} /\ \A k \in DOMAIN new.open : new.open[k] = st.open[k]
    BY <2>2 DEF Drop
  <2> QED BY <1>2, <1>5, <2>2, <2>3 DEF Moved
<1>6. CASE ~Triggers(r, e) /\ ~Resolves(r, e)
  <2>1. new = st
    BY <1>6, <1>0, ConsecutivePassed
  <2> QED BY <1>6, <2>1 DEF Moved
<1> QED BY <1>3, <1>4, <1>5, <1>6

\* It goes on so.
LEMMA CountingStep ==
    ASSUME NEW w, NEW e \in Range(w), NEW r, r.count \in Nat, r.count >= 2, NEW st, Counting(w, r, st)
    PROVE  Counting(w, r, ConsecutiveStep(r, st, e))
<1>1. PICK new : new = ConsecutiveStep(r, st, e)
  OBVIOUS
<1>2. PICK v : v = Streak(st, Key(e))
  OBVIOUS
<1>3. v \in Nat /\ v <= r.count
  BY <1>2, StreakBound
<1>7. Moved(r, st, e, new)
  BY <1>1, ConsecutiveMoves
<1>4. CASE Triggers(r, e) /\ v = r.count
  <2>1. /\ new.out = Append(st.out, Fired(r, st, e))
        /\ DOMAIN new.open = DOMAIN st.open \ {Key(e)}
        /\ \A k \in DOMAIN new.open : k # Key(e) => new.open[k] = st.open[k]
    BY <1>2, <1>4, <1>7 DEF Moved
  <2>2. PICK f : f = Fired(r, st, e)
    OBVIOUS
  <2>3. f.rule = r.id /\ f.detail = <<"streak", r.count>>
    BY <1>2, <1>4, <2>2 DEF Fired, Failure
  <2>4. Dated(w, f)
    BY <2>2, FailureDated DEF Fired
  <2>5. Sequence(new.out) /\ Range(new.out) = Range(st.out) \cup {f}
    BY <2>1, <2>2, AppendOne DEF Counting
  <2> QED BY <1>1, <2>1, <2>3, <2>4, <2>5 DEF Counting
<1>5. CASE Triggers(r, e) /\ v # r.count
  <2>1. /\ new.out = st.out
        /\ DOMAIN new.open = DOMAIN st.open \cup {Key(e)}
        /\ new.open[Key(e)] = v
        /\ \A k \in DOMAIN new.open : k # Key(e) => new.open[k] = st.open[k]
    BY <1>2, <1>5, <1>7 DEF Moved
  <2>2. v < r.count
    BY <1>3, <1>5
  <2> QED BY <1>1, <1>3, <2>1, <2>2 DEF Counting
<1>6. CASE ~Triggers(r, e)
  <2>1. /\ new.out = st.out
        /\ DOMAIN new.open \subseteq DOMAIN st.open
        /\ \A k \in DOMAIN new.open : new.open[k] = st.open[k]
    BY <1>6, <1>7 DEF Moved
  <2> QED BY <1>1, <2>1 DEF Counting
<1> QED BY <1>4, <1>5, <1>6

\* Every state of the consecutive loop counts so.
LEMMA CountingAlways ==
    ASSUME NEW S, NEW w \in Seq(S), NEW r, r.count \in Nat, r.count >= 2, NEW s,
           s[0] = [open |-> <<>>, out |-> <<>>],
           \A n \in 1..Len(w) : s[n] = ConsecutiveStep(r, s[n - 1], w[n])
    PROVE  \A n \in 0..Len(w) : Counting(w, r, s[n])
<1> DEFINE G == {n \in Nat : n <= Len(w) => Counting(w, r, s[n])}
<1>1. Len(w) \in Nat
  OBVIOUS
<1>2. 0 \in G
  <2>1. s[0].open = <<>> /\ s[0].out = <<>> /\ DOMAIN s[0].open = {}
    OBVIOUS
  <2> QED BY <2>1, EmptySequence DEF Counting
<1>3. ASSUME NEW n \in Nat, n \in G PROVE n + 1 \in G
  <2> SUFFICES ASSUME n + 1 <= Len(w) PROVE Counting(w, r, s[n + 1])
    OBVIOUS
  <2>1. n + 1 \in 1..Len(w) /\ n <= Len(w) /\ (n + 1) - 1 = n
    BY <1>1
  <2>2. s[n + 1] = ConsecutiveStep(r, s[n], w[n + 1]) /\ w[n + 1] \in Range(w)
    BY <2>1 DEF Range
  <2>3. Counting(w, r, s[n])
    BY <1>3, <2>1
  <2> QED BY <2>2, <2>3, CountingStep
<1>4. Nat \subseteq G
  <2> HIDE DEF G
  <2> QED BY <1>2, <1>3, Induct
<1>5. ASSUME NEW n \in 0..Len(w) PROVE Counting(w, r, s[n])
  <2>1. n \in Nat /\ n <= Len(w)
    BY <1>1
  <2> QED BY <1>4, <2>1
<1> QED BY <1>5

\* What each detector finds is a sequence of dated failures.
LEMMA RuleDates ==
    ASSUME NEW S, NEW w \in Seq(S), NEW r, Valid(r), NEW out \in RuleResults(r, w)
    PROVE  Sequence(out) /\ \A f \in Range(out) : Dated(w, f)
<1>1. CASE r.kind = "timeout"
  <2>1. out \in TimeoutResults(r, w)
    BY <1>1 DEF RuleResults
  <2> QED BY <2>1, TimeoutReturns
<1>2. CASE r.kind = "threshold"
  <2>1. out = ThresholdResult(r, w)
    BY <1>2 DEF RuleResults
  <2>2. Sequence(out) /\ Range(out) = {Crossing(r, w, i) : i \in {j \in DOMAIN w : Crosses(r, w[j])}}
    BY <2>1, ThresholdReturns
  <2>3. ASSUME NEW i \in DOMAIN w PROVE Dated(w, Crossing(r, w, i))
    <3>1. w[i] \in Range(w)
      BY DEF Range
    <3> QED BY <3>1, FailureDated DEF Crossing
  <2> QED BY <2>2, <2>3
<1>3. CASE r.kind = "consecutive"
  <2>1. out = ConsecutiveResult(r, w)
    BY <1>3 DEF RuleResults
  <2>2. r.count \in Nat /\ r.count >= 2
    BY <1>3 DEF Valid
  <2>3. PICK s : /\ s[0] = [open |-> <<>>, out |-> <<>>]
                 /\ \A n \in 1..Len(w) : s[n] = ConsecutiveStep(r, s[n - 1], w[n])
                 /\ ConsecutiveResult(r, w) = s[Len(w)].out
    BY ConsecutiveLoopState
  <2>4. Len(w) \in 0..Len(w)
    OBVIOUS
  <2>5. Counting(w, r, s[Len(w)])
    BY <2>2, <2>3, <2>4, CountingAlways
  <2> QED BY <2>1, <2>3, <2>5 DEF Counting
<1> QED BY <1>1, <1>2, <1>3 DEF Valid

\* Evaluate, on whatever window: it returns a sequence of failures, each of which names the
\* run, the actuator and the time of an event of the window.
THEOREM FailuresAreDated ==
    ASSUME NEW S, NEW w \in Seq(S), NEW failures \in Evaluate(RuleSet, w)
    PROVE  /\ failures \in Seq(Range(failures))
           /\ \A f \in Range(failures) : \E e \in Range(w) : Key(e) = <<f.run, f.actuator>> /\ e.at = f.at
<1>1. RuleSet \in Seq(Range(RuleSet)) /\ \A i \in DOMAIN RuleSet : Valid(RuleSet[i])
  BY RuleSetAssumption DEF Loadable
<1>2. PICK s : /\ s[0] = {<<>>}
               /\ \A n \in 1..Len(RuleSet) : s[n] = Found(w, s[n - 1], RuleSet[n])
               /\ Evaluate(RuleSet, w) = s[Len(RuleSet)]
  BY <1>1, EvaluateLoopState
<1> DEFINE Fine(out) == Sequence(out) /\ \A f \in Range(out) : Dated(w, f)
           G == {n \in Nat : n <= Len(RuleSet) => \A out \in s[n] : Fine(out)}
<1>3. Len(RuleSet) \in Nat /\ DOMAIN RuleSet = 1..Len(RuleSet)
  BY <1>1
<1>4. 0 \in G
  <2>1. \A out \in s[0] : Fine(out)
    BY <1>2, EmptySequence
  <2> QED BY <2>1
<1>5. ASSUME NEW n \in Nat, n \in G PROVE n + 1 \in G
  <2> SUFFICES ASSUME n + 1 <= Len(RuleSet), NEW out \in s[n + 1] PROVE Fine(out)
    OBVIOUS
  <2>1. n + 1 \in 1..Len(RuleSet) /\ n <= Len(RuleSet) /\ (n + 1) - 1 = n
    BY <1>3
  <2>2. PICK before \in s[n], more \in RuleResults(RuleSet[n + 1], w) : out = before \o more
    <3>1. s[n + 1] = Found(w, s[n], RuleSet[n + 1])
      BY <1>2, <2>1
    <3> QED BY <3>1 DEF Found
  <2>3. Fine(before)
    BY <1>5, <2>1
  <2>4. Fine(more)
    BY <1>1, <1>3, <2>1, RuleDates
  <2>5. Sequence(out) /\ Range(out) = Range(before) \cup Range(more)
    BY <2>2, <2>3, <2>4, Concatenation
  <2> QED BY <2>3, <2>4, <2>5
<1>6. Len(RuleSet) \in G
  <2> HIDE DEF G
  <2> QED BY <1>3, <1>4, <1>5, Induct
<1>7. Fine(failures)
  BY <1>2, <1>3, <1>6
<1> QED BY <1>7 DEF Sequence, Dated

-----------------------------------------------------------------------------
(* Eviction: the loop over all the events beside the one that forgot the oldest *)

\* What names a failure, without its station and time.
Name(f) == <<f.rule, f.run, f.actuator, f.detail>>
Names(out) == {Name(f) : f \in Range(out)}

\* The longer window has every open trigger and every late answer of the shorter one.
Covers(long, short) ==
    /\ DOMAIN short.open \subseteq DOMAIN long.open
    /\ \A k \in DOMAIN short.open : short.open[k] = long.open[k]
    /\ Sequence(long.out) /\ Sequence(short.out)
    /\ Range(short.out) \subseteq Range(long.out)

\* It keeps them through an event.
LEMMA CoversStep ==
    ASSUME NEW r, NEW e, NEW long, NEW short, Covers(long, short)
    PROVE  Covers(TimeoutStep(r, long, e), TimeoutStep(r, short, e))
<1>0. PICK l, h, k : l = TimeoutStep(r, long, e) /\ h = TimeoutStep(r, short, e) /\ k = Key(e)
  OBVIOUS
<1>1. /\ DOMAIN short.open \subseteq DOMAIN long.open
      /\ \A x \in DOMAIN short.open : short.open[x] = long.open[x]
      /\ Sequence(long.out) /\ Sequence(short.out)
      /\ Range(short.out) \subseteq Range(long.out)
  BY DEF Covers
<1>2. ASSUME NEW st PROVE Answered(r, st, e) = st.out \/ \E f : Answered(r, st, e) = Append(st.out, f)
  BY Zenon DEF Answered
<1>3. ASSUME NEW st, Sequence(st.out)
      PROVE  Sequence(Answered(r, st, e)) /\ Range(st.out) \subseteq Range(Answered(r, st, e))
  <2>1. CASE Answered(r, st, e) = st.out
    BY <1>3, <2>1
  <2>2. CASE \E f : Answered(r, st, e) = Append(st.out, f)
    BY <1>3, <2>2, AppendOne
  <2> QED BY <1>2, <2>1, <2>2
<1>4. CASE Triggers(r, e)
  <2> DEFINE v == [station |-> e.station, at |-> e.at]
  <2>1. l = [open |-> With(long.open, k, v), out |-> long.out]
    BY <1>0, <1>4, TimeoutTriggered
  <2>2. h = [open |-> With(short.open, k, v), out |-> short.out]
    BY <1>0, <1>4, TimeoutTriggered
  <2> HIDE DEF v
  <2>3. l.open = With(long.open, k, v) /\ l.out = long.out /\ h.open = With(short.open, k, v) /\ h.out = short.out
    BY <2>1, <2>2
  <2>4. /\ DOMAIN l.open = DOMAIN long.open \cup {k} /\ l.open[k] = v
        /\ \A x \in DOMAIN long.open : x # k => l.open[x] = long.open[x]
        /\ DOMAIN h.open = DOMAIN short.open \cup {k} /\ h.open[k] = v
        /\ \A x \in DOMAIN short.open : x # k => h.open[x] = short.open[x]
    BY <2>3 DEF With
  <2> QED BY <1>0, <1>1, <2>3, <2>4 DEF Covers
<1>5. CASE Resolves(r, e) /\ k \in DOMAIN short.open
  <2>1. l = [open |-> Drop(long.open, k), out |-> Answered(r, long, e)]
    BY <1>0, <1>1, <1>5, TimeoutResolved
  <2>2. h = [open |-> Drop(short.open, k), out |-> Answered(r, short, e)]
    BY <1>0, <1>5, TimeoutResolved
  <2>3. /\ l.open = Drop(long.open, k) /\ l.out = Answered(r, long, e)
        /\ h.open = Drop(short.open, k) /\ h.out = Answered(r, short, e)
    BY <2>1, <2>2
  <2>4. /\ DOMAIN l.open = DOMAIN long.open \ {k} /\ \A x \in DOMAIN l.open : l.open[x] = long.open[x]
        /\ DOMAIN h.open = DOMAIN short.open \ {k} /\ \A x \in DOMAIN h.open : h.open[x] = short.open[x]
    BY <2>3 DEF Drop
  <2>5. Sequence(l.out) /\ Sequence(h.out)
    BY <1>1, <1>3, <2>3
  <2>6. Range(h.out) \subseteq Range(l.out)
    <3> DEFINE took == e.at - long.open[k].at
               f == Failure(r, e.station, k, <<"late", Rounded(took)>>, e.at)
    <3>1. short.open[k] = long.open[k]
      BY <1>1, <1>5
    <3>2. Answered(r, long, e) = IF took > r.within THEN Append(long.out, f) ELSE long.out
      BY <1>0, Zenon DEF Answered
    <3>3. Answered(r, short, e) = IF took > r.within THEN Append(short.out, f) ELSE short.out
      BY <1>0, <3>1, Zenon DEF Answered
    <3> HIDE DEF took, f
    <3>4. CASE took > r.within
      <4>1. Range(Append(long.out, f)) = Range(long.out) \cup {f}
        BY <1>1, AppendOne
      <4>2. Range(Append(short.out, f)) = Range(short.out) \cup {f}
        BY <1>1, AppendOne
      <4> QED BY <1>1, <2>3, <3>2, <3>3, <3>4, <4>1, <4>2
    <3>5. CASE ~(took > r.within)
      BY <1>1, <2>3, <3>2, <3>3, <3>5
    <3> QED BY <3>4, <3>5
  <2> QED BY <1>0, <1>1, <2>4, <2>5, <2>6 DEF Covers
<1>6. CASE Resolves(r, e) /\ k \notin DOMAIN short.open /\ k \in DOMAIN long.open
  <2>0. ~Triggers(r, e)
    BY <1>6 DEF Resolves, Triggers
  <2>1. l = [open |-> Drop(long.open, k), out |-> Answered(r, long, e)]
    BY <1>0, <1>6, TimeoutResolved
  <2>2. h = short
    BY <1>0, <1>6, <2>0, TimeoutPassed
  <2>3. l.open = Drop(long.open, k) /\ l.out = Answered(r, long, e)
    BY <2>1
  <2>4. DOMAIN l.open = DOMAIN long.open \ {k} /\ \A x \in DOMAIN l.open : l.open[x] = long.open[x]
    BY <2>3 DEF Drop
  <2>5. Sequence(l.out) /\ Range(long.out) \subseteq Range(l.out)
    BY <1>1, <1>3, <2>3
  <2> QED BY <1>0, <1>1, <1>6, <2>2, <2>4, <2>5 DEF Covers
<1>7. CASE ~Triggers(r, e) /\ ~(Resolves(r, e) /\ k \in DOMAIN long.open)
  <2>1. l = long
    BY <1>0, <1>7, TimeoutPassed
  <2>2. h = short
    BY <1>0, <1>1, <1>7, TimeoutPassed
  <2> QED BY <1>0, <2>1, <2>2
<1>8. Resolves(r, e) => ~Triggers(r, e)
  BY DEF Resolves, Triggers
<1> QED BY <1>1, <1>4, <1>5, <1>6, <1>7, <1>8

\* So it does in the end.
LEMMA TimeoutCovers ==
    ASSUME NEW S, NEW w \in Seq(S), w # <<>>, NEW r
    PROVE  Covers(TimeoutLoop(r, w), TimeoutLoop(r, Tail(w)))
<1>1. PICK t : t = Tail(w)
  OBVIOUS
<1>2. /\ t \in Seq(S) /\ Len(w) \in Nat \ {0} /\ Len(t) = Len(w) - 1
      /\ \A i \in 1..Len(t) : t[i] = w[i + 1]
  BY <1>1
<1>3. PICK l : /\ l[0] = [open |-> <<>>, out |-> <<>>]
               /\ \A n \in 1..Len(w) : l[n] = TimeoutStep(r, l[n - 1], w[n])
               /\ TimeoutLoop(r, w) = l[Len(w)]
  BY TimeoutLoopState
<1>4. PICK h : /\ h[0] = [open |-> <<>>, out |-> <<>>]
               /\ \A n \in 1..Len(t) : h[n] = TimeoutStep(r, h[n - 1], t[n])
               /\ TimeoutLoop(r, t) = h[Len(t)]
  BY <1>2, TimeoutLoopState
<1> DEFINE G == {n \in Nat : n <= Len(t) => Covers(l[n + 1], h[n])}
<1>5. 0 \in G
  <2>1. 1 \in 1..Len(w) /\ 1 - 1 = 0 /\ w[1] \in S
    BY <1>2
  <2>2. l[0].out = <<>> /\ l[1] = TimeoutStep(r, l[0], w[1])
    BY <1>3, <2>1
  <2>3. Sequence(l[1].out)
    <3>1. Sequence(l[0].out)
      BY <2>2, EmptySequence
    <3>2. PICK st, e : st = l[0] /\ e = w[1]
      OBVIOUS
    <3>3. TimeoutStep(r, st, e).out = st.out \/ \E f : TimeoutStep(r, st, e).out = Append(st.out, f)
      BY TimeoutAdds
    <3>4. l[1].out = st.out \/ \E f : l[1].out = Append(st.out, f)
      BY <2>2, <3>2, <3>3
    <3>5. Sequence(st.out)
      BY <3>1, <3>2
    <3>6. \A f : Sequence(Append(st.out, f))
      BY <3>5, AppendOne
    <3> QED BY <3>4, <3>5, <3>6
  <2>4. h[0].open = <<>> /\ h[0].out = <<>> /\ DOMAIN h[0].open = {}
    BY <1>4
  <2>5. Covers(l[0 + 1], h[0])
    BY <2>3, <2>4, EmptySequence DEF Covers
  <2> QED BY <2>5
<1>6. ASSUME NEW n \in Nat, n \in G PROVE n + 1 \in G
  <2> SUFFICES ASSUME n + 1 <= Len(t) PROVE Covers(l[(n + 1) + 1], h[n + 1])
    OBVIOUS
  <2>1. /\ n + 1 \in 1..Len(t) /\ n <= Len(t) /\ (n + 1) - 1 = n
        /\ (n + 1) + 1 \in 1..Len(w) /\ ((n + 1) + 1) - 1 = n + 1
    BY <1>2
  <2>2. l[(n + 1) + 1] = TimeoutStep(r, l[n + 1], t[n + 1])
    BY <1>2, <1>3, <2>1
  <2>3. h[n + 1] = TimeoutStep(r, h[n], t[n + 1])
    BY <1>4, <2>1
  <2>4. Covers(l[n + 1], h[n])
    BY <1>6, <2>1
  <2> QED BY <2>2, <2>3, <2>4, CoversStep
<1>7. Len(t) \in G
  <2>1. Len(t) \in Nat
    BY <1>2
  <2> HIDE DEF G
  <2> QED BY <1>5, <1>6, <2>1, Induct
<1>8. Covers(l[Len(t) + 1], h[Len(t)]) /\ Len(t) + 1 = Len(w)
  BY <1>2, <1>7
<1> QED BY <1>1, <1>3, <1>4, <1>8

\* The failures of the shorter window are failures of the longer one, by name.
LEMMA TimeoutInventsNothing ==
    ASSUME NEW S, NEW w \in Seq(S), w # <<>>, NEW r,
           NEW short \in TimeoutResults(r, Tail(w)), NEW long \in TimeoutResults(r, w)
    PROVE  Names(short) \subseteq Names(long)
<1>1. PICK t, l, h : t = Tail(w) /\ l = TimeoutLoop(r, w) /\ h = TimeoutLoop(r, t)
  OBVIOUS
<1>2. t \in Seq(S)
  BY <1>1
<1>3. Covers(l, h)
  BY <1>1, TimeoutCovers
<1>4. Range(short) = Range(h.out) \cup Missing(r, h.open)
  BY <1>1, <1>2, TimeoutReturns
<1>5. Range(long) = Range(l.out) \cup Missing(r, l.open)
  BY <1>1, TimeoutReturns
<1>6. Missing(r, h.open) \subseteq Missing(r, l.open)
  BY <1>3 DEF Covers, Missing
<1> QED BY <1>3, <1>4, <1>5, <1>6 DEF Covers, Names

\* The threshold detector looks at one event at a time.
LEMMA ThresholdInventsNothing ==
    ASSUME NEW S, NEW w \in Seq(S), w # <<>>, NEW r
    PROVE  Names(ThresholdResult(r, Tail(w))) \subseteq Names(ThresholdResult(r, w))
<1>1. PICK t : t = Tail(w)
  OBVIOUS
<1>2. /\ t \in Seq(S) /\ DOMAIN t = 1..(Len(w) - 1) /\ DOMAIN w = 1..Len(w) /\ Len(w) \in Nat \ {0}
      /\ \A i \in DOMAIN t : t[i] = w[i + 1] /\ i + 1 \in DOMAIN w
  BY <1>1
<1>3. Range(ThresholdResult(r, t)) = {Crossing(r, t, i) : i \in {j \in DOMAIN t : Crosses(r, t[j])}}
  BY <1>2, ThresholdReturns
<1>4. Range(ThresholdResult(r, w)) = {Crossing(r, w, i) : i \in {j \in DOMAIN w : Crosses(r, w[j])}}
  BY ThresholdReturns
<1>5. ASSUME NEW i \in DOMAIN t, Crosses(r, t[i])
      PROVE  Crossing(r, t, i) \in Range(ThresholdResult(r, w))
  <2>1. Crossing(r, t, i) = Crossing(r, w, i + 1) /\ Crosses(r, w[i + 1])
    BY <1>2, <1>5 DEF Crossing
  <2> QED BY <1>2, <1>4, <2>1
<1>6. Range(ThresholdResult(r, t)) \subseteq Range(ThresholdResult(r, w))
  BY <1>3, <1>5
<1> QED BY <1>1, <1>6 DEF Names

\* The name of the failure that a full streak of k is.
FullStreak(r, k) == <<r.id, k[1], k[2], <<"streak", r.count>>>>

\* A streak of the longer window is as long, or has fired before.
Leads(r, long, short) ==
    /\ \A k \in DOMAIN short.open :
           \/ FullStreak(r, k) \in Names(long.out)
           \/ k \in DOMAIN long.open /\ short.open[k] <= long.open[k]
    /\ Names(short.out) \subseteq Names(long.out)

\* The name of the failure that a trigger at the count makes.
LEMMA FiredName ==
    ASSUME NEW r, NEW st, NEW e, Streak(st, Key(e)) = r.count
    PROVE  Name(Fired(r, st, e)) = FullStreak(r, Key(e))
BY DEF Name, Fired, Failure, FullStreak

\* It stays ahead through an event.
LEMMA LeadsStep ==
    ASSUME NEW w, NEW r, r.count \in Nat, r.count >= 2, NEW e, NEW long, NEW short,
           Counting(w, r, long), Counting(w, r, short), Leads(r, long, short)
    PROVE  Leads(r, ConsecutiveStep(r, long, e), ConsecutiveStep(r, short, e))
<1>0. PICK l, h, k : l = ConsecutiveStep(r, long, e) /\ h = ConsecutiveStep(r, short, e) /\ k = Key(e)
  OBVIOUS
<1>1. Moved(r, long, e, l) /\ Moved(r, short, e, h)
  BY <1>0, ConsecutiveMoves
<1>2. PICK sl, sh : sl = Streak(long, k) /\ sh = Streak(short, k)
  OBVIOUS
<1>3. sl \in Nat /\ sl <= r.count /\ sh \in Nat /\ sh <= r.count
  BY <1>2, StreakBound
<1>4. Sequence(long.out) /\ Sequence(short.out)
  BY DEF Counting
<1>5. FullStreak(r, k) \in Names(long.out) \/ sh <= sl
  <2>1. CASE k \in DOMAIN short.open /\ k \in DOMAIN long.open /\ short.open[k] <= long.open[k]
    <3>1. sh = 1 + short.open[k] /\ sl = 1 + long.open[k]
      BY <1>2, <2>1 DEF Streak
    <3>2. short.open[k] \in Nat /\ long.open[k] \in Nat
      BY <2>1 DEF Counting
    <3> QED BY <2>1, <3>1, <3>2
  <2>2. CASE k \notin DOMAIN short.open
    <3>1. sh = 1
      BY <1>2, <2>2 DEF Streak
    <3>2. sl >= 1
      <4>1. CASE k \in DOMAIN long.open
        <5>1. sl = 1 + long.open[k] /\ long.open[k] \in Nat
          BY <1>2, <4>1 DEF Streak, Counting
        <5> QED BY <5>1
      <4>2. CASE k \notin DOMAIN long.open
        BY <1>2, <4>2 DEF Streak
      <4> QED BY <4>1, <4>2
    <3> QED BY <1>3, <3>1, <3>2
  <2> QED BY <2>1, <2>2 DEF Leads
<1>6. CASE Triggers(r, e)
  <2>1. sl = r.count => Names(l.out) = Names(long.out) \cup {FullStreak(r, k)}
    <3> SUFFICES ASSUME sl = r.count PROVE Names(l.out) = Names(long.out) \cup {FullStreak(r, k)}
      OBVIOUS
    <3>1. PICK f : f = Fired(r, long, e)
      OBVIOUS
    <3>2. Name(f) = FullStreak(r, k)
      BY <1>0, <1>2, <3>1, FiredName
    <3>3. l.out = Append(long.out, f)
      BY <1>0, <1>1, <1>2, <1>6, <3>1 DEF Moved
    <3>4. Range(l.out) = Range(long.out) \cup {f}
      BY <1>4, <3>3, AppendOne
    <3> QED BY <3>2, <3>4 DEF Names
  <2>2. sh = r.count => Names(h.out) = Names(short.out) \cup {FullStreak(r, k)}
    <3> SUFFICES ASSUME sh = r.count PROVE Names(h.out) = Names(short.out) \cup {FullStreak(r, k)}
      OBVIOUS
    <3>1. PICK f : f = Fired(r, short, e)
      OBVIOUS
    <3>2. Name(f) = FullStreak(r, k)
      BY <1>0, <1>2, <3>1, FiredName
    <3>3. h.out = Append(short.out, f)
      BY <1>0, <1>1, <1>2, <1>6, <3>1 DEF Moved
    <3>4. Range(h.out) = Range(short.out) \cup {f}
      BY <1>4, <3>3, AppendOne
    <3> QED BY <3>2, <3>4 DEF Names
  <2>3. sl # r.count => l.out = long.out /\ k \in DOMAIN l.open /\ l.open[k] = sl
    BY <1>0, <1>1, <1>2, <1>6 DEF Moved
  <2>4. sh # r.count => h.out = short.out /\ h.open[k] = sh
    BY <1>0, <1>1, <1>2, <1>6 DEF Moved
  <2>5. sh = r.count => k \notin DOMAIN h.open
    BY <1>0, <1>1, <1>2, <1>6 DEF Moved
  <2>6. Names(long.out) \subseteq Names(l.out)
    BY <2>1, <2>3
  <2>7. FullStreak(r, k) \in Names(l.out) \/ (sl # r.count /\ sh <= sl)
    BY <1>5, <2>1, <2>6
  <2>8. Names(h.out) \subseteq Names(l.out)
    <3>1. sh = r.count => FullStreak(r, k) \in Names(l.out)
      BY <1>3, <2>7
    <3>2. Names(short.out) \subseteq Names(l.out)
      BY <2>6 DEF Leads
    <3> QED BY <2>2, <2>4, <3>1, <3>2
  <2>9. ASSUME NEW x \in DOMAIN h.open
        PROVE  FullStreak(r, x) \in Names(l.out) \/ (x \in DOMAIN l.open /\ h.open[x] <= l.open[x])
    <3>1. CASE x = k
      <4>1. sh # r.count /\ h.open[k] = sh
        BY <2>4, <2>5, <2>9, <3>1
      <4> QED BY <2>3, <2>7, <3>1, <4>1
    <3>2. CASE x # k
      <4>1. x \in DOMAIN short.open /\ h.open[x] = short.open[x]
        BY <1>0, <1>1, <1>6, <2>9, <3>2 DEF Moved
      <4>2. x \in DOMAIN long.open => x \in DOMAIN l.open /\ l.open[x] = long.open[x]
        BY <1>0, <1>1, <1>6, <3>2 DEF Moved
      <4> QED BY <2>6, <4>1, <4>2 DEF Leads
    <3> QED BY <3>1, <3>2
  <2> QED BY <1>0, <2>8, <2>9 DEF Leads
<1>7. CASE ~Triggers(r, e)
  <2>1. l.out = long.out /\ h.out = short.out
    BY <1>1, <1>7 DEF Moved
  <2>2. ASSUME NEW x \in DOMAIN h.open
        PROVE  /\ x \in DOMAIN short.open /\ h.open[x] = short.open[x]
               /\ x \in DOMAIN long.open => x \in DOMAIN l.open /\ l.open[x] = long.open[x]
    <3>1. CASE Resolves(r, e)
      BY <1>0, <1>1, <1>7, <2>2, <3>1 DEF Moved
    <3>2. CASE ~Resolves(r, e)
      BY <1>0, <1>1, <1>7, <2>2, <3>2 DEF Moved
    <3> QED BY <3>1, <3>2
  <2> QED BY <1>0, <2>1, <2>2 DEF Leads
<1> QED BY <1>6, <1>7

\* So it is in the end.
LEMMA ConsecutiveInventsNothing ==
    ASSUME NEW S, NEW w \in Seq(S), w # <<>>, NEW r, r.count \in Nat, r.count >= 2
    PROVE  Names(ConsecutiveResult(r, Tail(w))) \subseteq Names(ConsecutiveResult(r, w))
<1>1. PICK t : t = Tail(w)
  OBVIOUS
<1>2. /\ t \in Seq(S) /\ Len(w) \in Nat \ {0} /\ Len(t) = Len(w) - 1
      /\ \A i \in 1..Len(t) : t[i] = w[i + 1]
  BY <1>1
<1>3. PICK l : /\ l[0] = [open |-> <<>>, out |-> <<>>]
               /\ \A n \in 1..Len(w) : l[n] = ConsecutiveStep(r, l[n - 1], w[n])
               /\ ConsecutiveResult(r, w) = l[Len(w)].out
  BY ConsecutiveLoopState
<1>4. PICK h : /\ h[0] = [open |-> <<>>, out |-> <<>>]
               /\ \A n \in 1..Len(t) : h[n] = ConsecutiveStep(r, h[n - 1], t[n])
               /\ ConsecutiveResult(r, t) = h[Len(t)].out
  BY <1>2, ConsecutiveLoopState
<1>5. \A n \in 0..Len(w) : Counting(w, r, l[n])
  BY <1>3, CountingAlways
<1>6. \A n \in 0..Len(t) : Counting(w, r, h[n])
  <2>1. \A n \in 0..Len(t) : Counting(t, r, h[n])
    BY <1>2, <1>4, CountingAlways
  <2>2. Range(t) \subseteq Range(w)
    <3>1. \A i \in 1..Len(t) : i + 1 \in DOMAIN w /\ t[i] = w[i + 1]
      BY <1>2
    <3>2. DOMAIN t = 1..Len(t)
      BY <1>2
    <3> QED BY <3>1, <3>2 DEF Range
  <2>3. ASSUME NEW f, Dated(t, f) PROVE Dated(w, f)
    BY <2>2, <2>3 DEF Dated
  <2> QED BY <2>1, <2>3 DEF Counting
<1> DEFINE G == {n \in Nat : n <= Len(t) => Leads(r, l[n + 1], h[n])}
<1>7. 0 \in G
  <2>1. h[0].open = <<>> /\ h[0].out = <<>> /\ DOMAIN h[0].open = {}
    BY <1>4
  <2>2. Names(h[0].out) = {}
    BY <2>1, EmptySequence DEF Names
  <2>3. Leads(r, l[0 + 1], h[0])
    BY <2>1, <2>2 DEF Leads
  <2> QED BY <2>3
<1>8. ASSUME NEW n \in Nat, n \in G PROVE n + 1 \in G
  <2> SUFFICES ASSUME n + 1 <= Len(t) PROVE Leads(r, l[(n + 1) + 1], h[n + 1])
    OBVIOUS
  <2>1. /\ n + 1 \in 1..Len(t) /\ n \in 0..Len(t) /\ n <= Len(t) /\ (n + 1) - 1 = n
        /\ (n + 1) + 1 \in 1..Len(w) /\ n + 1 \in 0..Len(w) /\ ((n + 1) + 1) - 1 = n + 1
    BY <1>2
  <2>2. l[(n + 1) + 1] = ConsecutiveStep(r, l[n + 1], t[n + 1])
    BY <1>2, <1>3, <2>1
  <2>3. h[n + 1] = ConsecutiveStep(r, h[n], t[n + 1])
    BY <1>4, <2>1
  <2>4. Leads(r, l[n + 1], h[n])
    BY <1>8, <2>1
  <2>5. Counting(w, r, l[n + 1]) /\ Counting(w, r, h[n])
    BY <1>5, <1>6, <2>1
  <2> QED BY <2>2, <2>3, <2>4, <2>5, LeadsStep
<1>9. Len(t) \in G
  <2>1. Len(t) \in Nat
    BY <1>2
  <2> HIDE DEF G
  <2> QED BY <1>7, <1>8, <2>1, Induct
<1>10. Leads(r, l[Len(t) + 1], h[Len(t)]) /\ Len(t) + 1 = Len(w)
  BY <1>2, <1>9
<1> QED BY <1>1, <1>3, <1>4, <1>10 DEF Leads

\* No detector makes anything up.
LEMMA RuleInventsNothing ==
    ASSUME NEW S, NEW w \in Seq(S), w # <<>>, NEW r, Valid(r),
           NEW short \in RuleResults(r, Tail(w)), NEW long \in RuleResults(r, w)
    PROVE  Names(short) \subseteq Names(long)
<1>1. CASE r.kind = "timeout"
  <2>1. short \in TimeoutResults(r, Tail(w)) /\ long \in TimeoutResults(r, w)
    BY <1>1 DEF RuleResults
  <2> QED BY <2>1, TimeoutInventsNothing
<1>2. CASE r.kind = "threshold"
  <2>1. short = ThresholdResult(r, Tail(w)) /\ long = ThresholdResult(r, w)
    BY <1>2 DEF RuleResults
  <2> QED BY <2>1, ThresholdInventsNothing
<1>3. CASE r.kind = "consecutive"
  <2>1. short = ConsecutiveResult(r, Tail(w)) /\ long = ConsecutiveResult(r, w)
    BY <1>3 DEF RuleResults
  <2>2. r.count \in Nat /\ r.count >= 2
    BY <1>3 DEF Valid
  <2> QED BY <2>1, <2>2, ConsecutiveInventsNothing
<1> QED BY <1>1, <1>2, <1>3 DEF Valid

\* For any events and rules that Load accepts, a window that forgot its oldest event shows no
\* failure that the longer window does not show (pipeline.go:56).
THEOREM EvictionIsQuiet ==
    ASSUME NEW S, events \in Seq(S)
    PROVE  EvictionInventsNothing
<1>0. PICK w : w = events
  OBVIOUS
<1> SUFFICES ASSUME w # <<>>, NEW short \in Evaluate(RuleSet, Tail(w)), NEW long \in Evaluate(RuleSet, w)
             PROVE  FailureKeys(short) \subseteq FailureKeys(long)
  BY <1>0 DEF EvictionInventsNothing
<1>1. RuleSet \in Seq(Range(RuleSet)) /\ \A i \in DOMAIN RuleSet : Valid(RuleSet[i])
  BY RuleSetAssumption DEF Loadable
<1>2. PICK l : /\ l[0] = {<<>>}
               /\ \A n \in 1..Len(RuleSet) : l[n] = Found(w, l[n - 1], RuleSet[n])
               /\ Evaluate(RuleSet, w) = l[Len(RuleSet)]
  BY <1>1, EvaluateLoopState
<1>3. PICK t : t = Tail(w) /\ t \in Seq(S)
  <2>1. Tail(w) \in Seq(S)
    BY <1>0
  <2> QED BY <2>1
<1>4. PICK h : /\ h[0] = {<<>>}
               /\ \A n \in 1..Len(RuleSet) : h[n] = Found(t, h[n - 1], RuleSet[n])
               /\ Evaluate(RuleSet, t) = h[Len(RuleSet)]
  BY <1>1, EvaluateLoopState
<1> DEFINE Fine(a, b) == Sequence(a) /\ Sequence(b) /\ Names(a) \subseteq Names(b)
           G == {n \in Nat : n <= Len(RuleSet) => \A a \in h[n], b \in l[n] : Fine(a, b)}
<1>5. Len(RuleSet) \in Nat /\ DOMAIN RuleSet = 1..Len(RuleSet)
  BY <1>1
<1>6. 0 \in G
  <2>1. \A a \in h[0], b \in l[0] : Fine(a, b)
    BY <1>2, <1>4, EmptySequence
  <2> QED BY <2>1
<1>7. ASSUME NEW n \in Nat, n \in G PROVE n + 1 \in G
  <2> SUFFICES ASSUME n + 1 <= Len(RuleSet), NEW a \in h[n + 1], NEW b \in l[n + 1] PROVE Fine(a, b)
    OBVIOUS
  <2>1. n + 1 \in 1..Len(RuleSet) /\ n <= Len(RuleSet) /\ (n + 1) - 1 = n
    BY <1>5
  <2>2. PICK r : r = RuleSet[n + 1] /\ Valid(r)
    BY <1>1, <1>5, <2>1
  <2>3. PICK a0 \in h[n], a1 \in RuleResults(r, t) : a = a0 \o a1
    <3>1. h[n + 1] = Found(t, h[n], r)
      BY <1>4, <2>1, <2>2
    <3>2. a \in Found(t, h[n], r)
      BY <3>1
    <3> QED BY ONLY <3>2, SMTT(30) DEF Found
  <2>4. PICK b0 \in l[n], b1 \in RuleResults(r, w) : b = b0 \o b1
    <3>1. l[n + 1] = Found(w, l[n], r)
      BY <1>2, <2>1, <2>2
    <3>2. b \in Found(w, l[n], r)
      BY <3>1
    <3> QED BY ONLY <3>2, SMTT(30) DEF Found
  <2>5. Fine(a0, b0)
    BY <1>7, <2>1
  <2>6. Sequence(a1) /\ Sequence(b1)
    BY <1>0, <1>3, <2>2, RuleDates
  <2>7. Names(a1) \subseteq Names(b1)
    BY <1>0, <1>3, <2>2, RuleInventsNothing
  <2>8. Sequence(a) /\ Range(a) = Range(a0) \cup Range(a1)
    BY <2>3, <2>5, <2>6, Concatenation
  <2>9. Sequence(b) /\ Range(b) = Range(b0) \cup Range(b1)
    BY <2>4, <2>5, <2>6, Concatenation
  <2>10. Names(a) = Names(a0) \cup Names(a1) /\ Names(b) = Names(b0) \cup Names(b1)
    BY <2>8, <2>9 DEF Names
  <2> QED BY <2>5, <2>7, <2>8, <2>9, <2>10
<1>8. Len(RuleSet) \in G
  <2> HIDE DEF G
  <2> QED BY <1>5, <1>6, <1>7, Induct
<1>9. Names(short) \subseteq Names(long)
  BY <1>2, <1>3, <1>4, <1>5, <1>8
<1>10. FailureKeys(short) = Names(short) /\ FailureKeys(long) = Names(long)
  BY DEF FailureKeys, Names, Name, ToSet, Range
<1> QED BY <1>9, <1>10

=============================================================================
