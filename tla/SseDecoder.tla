----------------------------- MODULE SseDecoder -----------------------------
(***************************************************************************)
(* SSEDecoder of scripts/http_client.py: an incremental decoder of the     *)
(* server's event stream.  The stream arrives in chunks cut anywhere, also *)
(* inside CRLF, inside a multibyte character and inside a line.  The loop  *)
(* of feed() is one step per line; nothing else runs in between.           *)
(*                                                                         *)
(* A byte is one of: a line terminator CR or LF; the prefix "data:", which *)
(* is looked for only in whole lines and so stands as one byte; "u1" and   *)
(* "u2", the two halves of a multibyte character; "x" for any other.       *)
(* Blanks after the prefix are not part of a payload and are left out.     *)
(***************************************************************************)
EXTENDS Naturals, Sequences, FiniteSets, SequencesExt

CONSTANT MaxLen  \* length of the streams that are enumerated

ASSUME LenAssumption == MaxLen \in Nat

Octets == {"CR", "LF", "data:", "x", "u1", "u2"}

\* The server writes UTF-8; the connection may be cut inside a character.
Utf8(s) ==
  \A i \in DOMAIN s :
    /\ s[i] = "u1" /\ i < Len(s) => s[i + 1] = "u2"
    /\ s[i] = "u2" => i > 1 /\ s[i - 1] = "u1"
Streams == {s \in BoundedSeq(Octets, MaxLen) : Utf8(s)}

VARIABLES
  input,   \* everything the server will send
  fed,     \* how many bytes of it were fed
  dpc,     \* "read" before a chunk, "scan" in the loop of feed, "closed", "failed"
  buf,     \* _buf: bytes not yet taken as a line
  lines,   \* _lines: lines of the event that is not complete yet
  events   \* payloads returned so far, each the sequence of its data lines

decoder == <<input, fed, dpc, buf, lines, events>>

DecoderInit ==
  /\ input \in Streams
  /\ fed = 0 /\ dpc = "read"
  /\ buf = << >> /\ lines = << >> /\ events = << >>

(***************************************************************************)
(* _find_newline: where the line ends and where the next one starts.  A CR *)
(* that is the last byte buffered is held.                                 *)
(***************************************************************************)
Find(byte, s) == {i \in DOMAIN s : s[i] = byte /\ \A j \in 1..(i - 1) : s[j] # byte}
LfAt(s) == {[end |-> i, next |-> i + 1] : i \in Find("LF", s)}
\* Mutant: a CR at the end of the buffer is taken as a bare CR.
CrAtUnheld(s) == {[end |-> i, next |-> IF i < Len(s) /\ s[i + 1] = "LF" THEN i + 2 ELSE i + 1] :
                   i \in Find("CR", s)}
CrAt(s) == {[end |-> i, next |-> IF s[i + 1] = "LF" THEN i + 2 ELSE i + 1] :
             i \in {j \in Find("CR", s) : j < Len(s)}}
Candidates(s) == LfAt(s) \cup CrAt(s)
FindNewline(s) == {c \in Candidates(s) : \A d \in Candidates(s) : c.end <= d.end}

\* The values of f, by the numbers in S from the lowest on.
Before(S, e) == {i \in S : i < e}
Rank(S, e) == Cardinality(Before(S, e)) + 1
InOrder(S, f) == [k \in 1..Cardinality(S) |-> f[CHOOSE e \in S : Rank(S, e) = k]]

IsData(line) == line # << >> /\ Head(line) = "data:"
\* The data lines of an event, without the prefix; "\n".join keeps them apart.
Payload(ls) == LET data == {i \in DOMAIN ls : IsData(ls[i])}
               IN InOrder(data, [i \in data |-> Tail(ls[i])])
Emit(ls) == IF Payload(ls) = << >> THEN events ELSE Append(events, Payload(ls))

Feed(n) ==
  /\ dpc = "read" /\ fed + n <= Len(input)
  /\ buf' = buf \o SubSeq(input, fed + 1, fed + n)
  /\ fed' = fed + n
  /\ dpc' = "scan"
  /\ UNCHANGED <<input, lines, events>>

DecodeLine ==
  /\ dpc = "scan"
  /\ \E nl \in FindNewline(buf) :
       LET line == SubSeq(buf, 1, nl.end - 1) IN
       /\ buf' = SubSeq(buf, nl.next, Len(buf))
       /\ lines' = IF line = << >> THEN << >> ELSE Append(lines, line)
       /\ events' = IF line = << >> THEN Emit(lines) ELSE events
  /\ UNCHANGED <<input, fed, dpc>>

FeedReturns ==
  /\ dpc = "scan" /\ FindNewline(buf) = {}
  /\ dpc' = "read"
  /\ UNCHANGED <<input, fed, buf, lines, events>>

(***************************************************************************)
(* close() at EOF: what is buffered is a last line, and what is pending is *)
(* a last event.  Half a character makes the strict decoder raise.         *)
(***************************************************************************)
\* Mutant: the held CR stays in the line.
LastLineRaw(s) == s
LastLine(s) == IF Last(s) = "CR" THEN Front(s) ELSE s

HalfChar(s) == s # << >> /\ Last(s) = "u1"

Close ==
  /\ dpc = "read" /\ fed = Len(input)
  /\ \/ HalfChar(buf) /\ dpc' = "failed" /\ UNCHANGED events
     \/ /\ ~HalfChar(buf)
        /\ dpc' = "closed"
        /\ events' = Emit(IF buf = << >> THEN lines ELSE Append(lines, LastLine(buf)))
  /\ buf' = << >> /\ lines' = << >>
  /\ UNCHANGED <<input, fed>>

DecoderOver == dpc \in {"closed", "failed"} /\ UNCHANGED decoder

DecoderNext ==
  \/ \E n \in 1..MaxLen : Feed(n)
  \/ DecodeLine
  \/ FeedReturns
  \/ Close
  \/ DecoderOver

DecoderSpec == DecoderInit /\ [][DecoderNext]_decoder

(***************************************************************************)
(* Reference: lines and events of a whole stream, by their positions.  A   *)
(* line ends at an LF or at a CR that no LF follows, and the CR before an  *)
(* LF is not part of its text; an event ends at an empty line.             *)
(***************************************************************************)
LineEnds(s) == {i \in DOMAIN s : s[i] = "LF" \/ (s[i] = "CR" /\ (i = Len(s) \/ s[i + 1] # "LF"))}
After(S, e) == IF Before(S, e) = {} THEN 1 ELSE Max(Before(S, e)) + 1
LineText(s, e) ==
  SubSeq(s, After(LineEnds(s), e), IF e > 1 /\ s[e - 1] = "CR" /\ s[e] = "LF" THEN e - 2 ELSE e - 1)
Blanks(s) == {e \in LineEnds(s) : LineText(s, e) = << >>}
DataEnds(s, b) == {e \in LineEnds(s) : After(Blanks(s), b) <= e /\ e < b /\ IsData(LineText(s, e))}
EventEnds(s) == {b \in Blanks(s) : DataEnds(s, b) # {}}
DataOf(s, b) == InOrder(DataEnds(s, b), [e \in DataEnds(s, b) |-> Tail(LineText(s, e))])
EventsOf(s) == InOrder(EventEnds(s), [b \in EventEnds(s) |-> DataOf(s, b)])

\* Docstring at http_client.py:97-101: however the stream is cut into chunks,
\* the events are those of the stream; EOF ends the last line and the last
\* event, and half a character at EOF is an error and not an event.
ChunkingIrrelevant ==
  /\ dpc = "closed" => events = EventsOf(input \o <<"LF", "LF">>)
  /\ dpc = "failed" => HalfChar(input)

\* No event is late and none is taken back (http_client.py:157-163): after
\* each chunk exactly the events whose end was seen are out, where a CR that
\* is the last byte seen does not count because an LF may follow.
EventsPrompt ==
  dpc = "read" =>
    LET seen == {b \in EventEnds(input) : b < fed \/ (b = fed /\ input[b] = "LF")}
    IN events = SubSeq(EventsOf(input), 1, Cardinality(seen))
=============================================================================
