------------------------------- MODULE FanOut -------------------------------
(***************************************************************************)
(* What the hub promises its subscribers, without locks, channels or       *)
(* goroutines.  A message published is due to every member of that moment. *)
(* What is due to a subscriber is handed to it at most once.  A released   *)
(* subscriber is due nothing published later, but it may still be handed   *)
(* what was due to it when it was released, until its stream is sealed:    *)
(* nothing is ever added to a sealed stream.  A message may be written     *)
(* off, for its remaining recipients, only when it is due to a subscriber  *)
(* whose stream is sealed.                                                 *)
(***************************************************************************)
EXTENDS Integers, Sequences, Functions

CONSTANT Subs

VARIABLES
    published,  \* the number of messages published
    member,     \* the subscribers the hub serves
    joined,     \* the subscribers that ever joined
    sealed,     \* the subscribers whose stream has ended
    stream,     \* stream[s]: the messages handed to s
    due         \* due[s]: the messages published but not handed to s yet

vars == <<published, member, joined, sealed, stream, due>>

Init ==
    /\ published = 0
    /\ member = {}
    /\ joined = {}
    /\ sealed = {}
    /\ stream = [s \in Subs |-> <<>>]
    /\ due = [s \in Subs |-> {}]

Publish ==
    /\ published' = published + 1
    /\ due' = [s \in Subs |-> IF s \in member THEN due[s] \cup {published + 1} ELSE due[s]]
    /\ UNCHANGED <<member, joined, sealed, stream>>

\* A newcomer gets some of the past, in order, and is due everything to come.
Join(s) ==
    /\ s \notin joined
    /\ joined' = joined \cup {s}
    /\ member' = member \cup {s}
    /\ stream' \in [Subs -> Seq(1..published)]
    /\ \A r \in Subs \ {s} : stream'[r] = stream[r]
    /\ \A i, j \in DOMAIN stream'[s] : i < j => stream'[s][i] < stream'[s][j]
    /\ UNCHANGED <<published, sealed, due>>

\* A closed hub hands a newcomer a stream that is sealed already.
Refuse(s) ==
    /\ s \notin joined
    /\ joined' = joined \cup {s}
    /\ sealed' = sealed \cup {s}
    /\ UNCHANGED <<published, member, stream, due>>

Hand(s, n) ==
    /\ n \in due[s]
    /\ s \notin sealed
    /\ n \notin Range(stream[s])
    /\ stream' = [stream EXCEPT ![s] = Append(@, n)]
    /\ due' = [due EXCEPT ![s] = @ \ {n}]
    /\ UNCHANGED <<published, member, joined, sealed>>

\* Release some members, seal some released streams, and forget some of what
\* is due to those released: a member keeps all that is due to it.
Release ==
    /\ member' \subseteq member
    /\ sealed \subseteq sealed' /\ sealed' \subseteq joined \ member'
    /\ due' \in [Subs -> SUBSET (1..published)]
    /\ \A s \in Subs : /\ due'[s] \subseteq due[s]
                       /\ s \in member' => due'[s] = due[s]
    /\ UNCHANGED <<published, joined, stream>>

WriteOff(n) ==
    /\ \E s \in sealed : n \in due[s]
    /\ due' = [s \in Subs |-> due[s] \ {n}]
    /\ UNCHANGED <<published, member, joined, sealed, stream>>

Next ==
    \/ Publish
    \/ \E s \in Subs : Join(s) \/ Refuse(s)
    \/ \E s \in Subs : \E n \in due[s] : Hand(s, n)
    \/ Release
    \/ \E n \in 1..published : WriteOff(n)

Spec == Init /\ [][Next]_vars

=============================================================================
