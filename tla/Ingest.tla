-------------------------------- MODULE Ingest --------------------------------
(***************************************************************************)
(* The two ingest paths of internal/ingest: the file tail that polls a     *)
(* growing file, and a TCP handler per station connection.  Both cut a     *)
(* stream of bytes into lines while the station is still writing it.       *)
(*                                                                         *)
(* A line is written in three pieces: "head" and "rest", neither of which  *)
(* is a JSON object without the other, and "end", the newline.  A reader   *)
(* may look at the stream between any two of them.  While a file is        *)
(* flooded, more lines are written to it than are counted here, and faster *)
(* than the tail reads them.                                               *)
(***************************************************************************)
EXTENDS Integers, Sequences, FiniteSets, SequencesExt

CONSTANTS
    Files,     \* tailed files
    Conns,     \* TCP connections of stations
    MaxLines   \* bound of the model: lines written to the streams together

ASSUME StreamsAssumption ==
    /\ Files \cap Conns = {} /\ IsFiniteSet(Files \cup Conns)
    /\ MaxLines \in Nat

Streams == Files \cup Conns

\* What a station may write: a valid event, one longer than the scanner's buffer,
\* text that ParseLine refuses or skips.
LineKinds == {"event", "long event", "no event"}

\* Why the goroutine that reads a stream has returned: the context was cancelled; the
\* file could not be opened or read; a line did not fit the scanner; the stream is
\* exhausted; the process it ran in has ended.
Returned == {"cancelled", "failed", "overlong", "finished", "lost"}

VARIABLES
    kind,     \* kind[s][n]: what line n of stream s is
    written,  \* written[s]: the pieces of stream s so far
    ended,    \* connections the station closed, or that broke
    flooded,  \* files that are being written faster than a tail reads them
    pos,      \* pos[s]: how many pieces the reader consumed
    state,    \* state[s]: of the goroutine that reads s
    done,     \* the context is cancelled
    out,      \* out[s]: the lines handed to the sink, in order
    cut       \* history: cut[s], lines met half-written, or dropped by a cancelled handler

vars == <<kind, written, ended, flooded, pos, state, done, out, cut>>

Init ==
    /\ kind = [s \in Streams |-> <<>>]
    /\ written = [s \in Streams |-> <<>>]
    /\ ended = {}
    /\ flooded = {}
    /\ pos = [s \in Streams |-> 0]
    /\ state = [s \in Streams |-> IF s \in Files THEN "reading" ELSE "dialing"]
    /\ done = FALSE
    /\ out = [s \in Streams |-> <<>>]
    /\ cut = [s \in Streams |-> {}]

-----------------------------------------------------------------------------
(* The station *)

LastPart(s) == IF written[s] = <<>> THEN "end" ELSE Last(written[s]).part

StartLine(s, k) ==
    /\ s \notin ended \cup flooded
    /\ LastPart(s) = "end"
    /\ Cardinality(UNION {{t} \X DOMAIN kind[t] : t \in Streams}) < MaxLines
    /\ kind' = [kind EXCEPT ![s] = Append(@, k)]
    /\ written' = [written EXCEPT ![s] = Append(@, [line |-> Len(kind[s]) + 1, part |-> "head"])]
    /\ UNCHANGED <<ended, flooded, pos, state, done, out, cut>>

ContinueLine(s) ==
    /\ s \notin ended
    /\ LastPart(s) # "end"
    /\ written' = [written EXCEPT ![s] =
           Append(@, [line |-> Len(kind[s]),
                      part |-> IF LastPart(s) = "head" THEN "rest" ELSE "end"])]
    /\ UNCHANGED <<kind, ended, flooded, pos, state, done, out, cut>>

\* A station closes its connection, or loses it, wherever it is in a line.
EndConnection(c) ==
    /\ c \in Conns \ ended
    /\ ended' = ended \cup {c}
    /\ UNCHANGED <<kind, written, flooded, pos, state, done, out, cut>>

\* A file begins or ceases to grow faster than the tail reads it.
Flood(f) ==
    /\ f \in Files
    /\ LastPart(f) = "end"
    /\ flooded' = IF f \in flooded THEN flooded \ {f} ELSE flooded \cup {f}
    /\ UNCHANGED <<kind, written, ended, pos, state, done, out, cut>>

-----------------------------------------------------------------------------
(* Lines and ParseLine *)

Rest(s) == SubSeq(written[s], pos[s] + 1, Len(written[s]))

HasNewline(s) == \E i \in DOMAIN Rest(s) : Rest(s)[i].part = "end"

\* The pieces up to the first newline, without it; all there is if there is none.
Token(s) ==
    LET ends == {i \in DOMAIN Rest(s) : Rest(s)[i].part = "end"}
    IN  IF ends = {} THEN Rest(s)
        ELSE SubSeq(Rest(s), 1, (CHOOSE i \in ends : \A j \in ends : i <= j) - 1)

Parts(token) == {token[i].part : i \in DOMAIN token}

LinesOf(token) == {token[i].line : i \in DOMAIN token}

\* ParseLine accepts a whole event; a piece of one is malformed JSON.
Accepted(s, token) ==
    /\ Parts(token) = {"head", "rest"}
    /\ kind[s][token[1].line] \in {"event", "long event"}

Emit(s, token) ==
    out' = IF Accepted(s, token) THEN [out EXCEPT ![s] = Append(@, token[1].line)] ELSE out

Consume(s, n) == pos' = [pos EXCEPT ![s] = @ + n]

-----------------------------------------------------------------------------
(* FileTail.Run and drain *)

\* ReadBytes finds a newline.
ReadLine(f) ==
    /\ state[f] = "reading"
    /\ HasNewline(f)
    /\ Emit(f, Token(f))
    /\ Consume(f, Len(Token(f)) + 1)
    /\ UNCHANGED <<kind, written, ended, flooded, state, done, cut>>

\* Mutation: the tail steps back to re-read a line without a newline.
ReachEOFRewinds(f) ==
    /\ state[f] = "reading"
    /\ ~HasNewline(f) /\ f \notin flooded
    /\ Emit(f, Token(f))
    /\ state' = [state EXCEPT ![f] = "waiting"]
    /\ UNCHANGED <<kind, written, ended, flooded, pos, done, cut>>

\* ReadBytes returns an error: what it has so far is parsed as a line, and the drain
\* is over.
EndDrain(f, token, next) ==
    /\ Emit(f, token)
    /\ Consume(f, Len(token))
    /\ cut' = IF Accepted(f, token) THEN cut ELSE [cut EXCEPT ![f] = @ \cup LinesOf(token)]
    /\ state' = [state EXCEPT ![f] = next]
    /\ UNCHANGED <<kind, written, ended, flooded, done>>

\* The error is the end of the file, which a flooded file does not let the drain reach;
\* it does not look at the context on the way.
ReachEOF(f) ==
    /\ state[f] = "reading"
    /\ ~HasNewline(f) /\ f \notin flooded
    /\ EndDrain(f, Token(f), "waiting")

\* Another error, of os.Open or of a read somewhere in a line: the tail returns for good.
ReadFails(f) ==
    /\ state[f] = "reading"
    /\ \E n \in 0..Len(Token(f)) : EndDrain(f, SubSeq(Token(f), 1, n), "failed")

\* select: the ticker or, if it is cancelled, the context.
Tick(f) ==
    /\ state[f] = "waiting"
    /\ state' = [state EXCEPT ![f] = "reading"]
    /\ UNCHANGED <<kind, written, ended, flooded, pos, done, out, cut>>

StopTail(f) ==
    /\ state[f] = "waiting"
    /\ done
    /\ state' = [state EXCEPT ![f] = "cancelled"]
    /\ UNCHANGED <<kind, written, ended, flooded, pos, done, out, cut>>

-----------------------------------------------------------------------------
(* TCPListener.Run and handle *)

\* Accept, and a goroutine for the connection; a cancelled listener is closed.
Accept(c) ==
    /\ state[c] = "dialing"
    /\ ~done
    /\ state' = [state EXCEPT ![c] = "reading"]
    /\ UNCHANGED <<kind, written, ended, flooded, pos, done, out, cut>>

\* The token does not fit the scanner's buffer of a mebibyte.
TooLong(c) ==
    /\ Parts(Token(c)) = {"head", "rest"}
    /\ kind[c][Token(c)[1].line] = "long event"

Return(c, why) == state' = [state EXCEPT ![c] = why]

\* Mutation: the handler returns at a line that ParseLine refuses.
ScanReturns(c) ==
    /\ state[c] = "reading"
    /\ HasNewline(c) \/ (c \in ended /\ Token(c) # <<>>)
    /\ ~TooLong(c)
    /\ Consume(c, Len(Token(c)) + (IF HasNewline(c) THEN 1 ELSE 0))
    /\ IF Accepted(c, Token(c)) THEN UNCHANGED state ELSE Return(c, "finished")
    /\ Emit(c, Token(c))
    /\ UNCHANGED <<kind, written, ended, flooded, done, cut>>

\* Scan returns a token: up to a newline, or what is left when the stream ended.
\* A cancelled context is noticed only now, and the token dropped.
Scan(c) ==
    /\ state[c] = "reading"
    /\ HasNewline(c) \/ (c \in ended /\ Token(c) # <<>>)
    /\ ~TooLong(c)
    /\ Consume(c, Len(Token(c)) + (IF HasNewline(c) THEN 1 ELSE 0))
    /\ IF done
       THEN Return(c, "cancelled") /\ cut' = [cut EXCEPT ![c] = @ \cup LinesOf(Token(c))] /\ UNCHANGED out
       ELSE Emit(c, Token(c)) /\ UNCHANGED <<state, cut>>
    /\ UNCHANGED <<kind, written, ended, flooded, done>>

\* Scan returns false: the stream is exhausted, or bufio.ErrTooLong.
ScanEnds(c) ==
    /\ state[c] = "reading"
    /\ \/ TooLong(c) /\ Return(c, "overlong")
       \/ c \in ended /\ Rest(c) = <<>> /\ Return(c, "finished")
    /\ UNCHANGED <<kind, written, ended, flooded, pos, done, out, cut>>

\* The shutdown signal cancels the context.
Cancel ==
    /\ ~done
    /\ done' = TRUE
    /\ UNCHANGED <<kind, written, ended, flooded, pos, state, out, cut>>

-----------------------------------------------------------------------------

Station(s) ==
    \/ \E k \in LineKinds : StartLine(s, k)
    \/ ContinueLine(s)
    \/ EndConnection(s)
    \/ Flood(s)
TailStep(f) == ReadLine(f) \/ ReachEOF(f) \/ ReadFails(f) \/ Tick(f) \/ StopTail(f)
Handler(c)  == Accept(c) \/ Scan(c) \/ ScanEnds(c)

Next ==
    \/ \E s \in Streams : Station(s)
    \/ \E f \in Files : TailStep(f)
    \/ \E c \in Conns : Handler(c)
    \/ Cancel

Spec == Init /\ [][Next]_vars

-----------------------------------------------------------------------------
(* Properties *)

\* The variables have their types.
TypeOK ==
    /\ kind \in [Streams -> Seq(LineKinds)]
    /\ written \in [Streams -> Seq([line : 1..MaxLines, part : {"head", "rest", "end"}])]
    /\ ended \subseteq Conns /\ flooded \subseteq Files
    /\ \A s \in Streams : pos[s] \in 0..Len(written[s])
    /\ state \in [Streams -> {"dialing", "reading", "waiting"} \cup Returned]
    /\ done \in BOOLEAN
    /\ out \in [Streams -> Seq(1..MaxLines)]
    /\ cut \in [Streams -> SUBSET (1..MaxLines)]

IsEvent(s, n) == kind[s][n] \in {"event", "long event"}

\* The lines whose newline is among the first n pieces of a stream.
Complete(s, n) == {written[s][i].line : i \in {j \in 1..n : written[s][j].part = "end"}}
Consumed(s)    == Complete(s, pos[s])

\* Wherever the reads fall, events reach the sink in the order they were written,
\* none twice and none made up of the pieces of a line that is not an event.
InOrderOnce ==
    \A s \in Streams :
        /\ \A i, j \in DOMAIN out[s] : i < j => out[s][i] < out[s][j]
        /\ \A n \in Range(out[s]) : IsEvent(s, n)

\* Why line n will never be read.  Of the lines of a connection only one that does not
\* fit the scanner is a reason, for itself and for all behind it.
NeverRead(s, n) ==
    \/ state[s] \in {"cancelled", "failed", "lost"}
    \/ state[s] = "overlong" /\ \E m \in 1..n : kind[s][m] = "long event"

\* Every event a station has completed was emitted, met half-written by a drain or
\* dropped by a cancelled handler; or its reader has still to come to it; or has
\* returned before it, and not because of a line it refused: "One bad line never stops
\* the stream" (docs/log-format.md:30-31) is true of all but overlong lines.
LossIsExplained ==
    \A s \in Streams : \A n \in Complete(s, Len(written[s])) :
        IsEvent(s, n) =>
            IF n \in Consumed(s) THEN n \in Range(out[s]) \cup cut[s]
            ELSE state[s] \in Returned => NeverRead(s, n)

\* "emitting a LogEvent for each newline-delimited JSON line" (filetail.go:13-14).
\* False: the half a drain finds is parsed and dropped, and so is the other half.
EveryLineEmitted ==
    \A f \in Files : \A n \in Consumed(f) : IsEvent(f, n) => n \in Range(out[f])

=============================================================================
