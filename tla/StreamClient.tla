---------------------------- MODULE StreamClient ----------------------------
(***************************************************************************)
(* One streaming request of scripts/http_client.py: _stream_request reads  *)
(* the response in blocks, lets the decoder cut them into events (module   *)
(* SseDecoder), and _consume_event folds every data line of an event into  *)
(* the StreamResult.  row_validity decides whether the result may count as *)
(* a measurement.                                                          *)
(*                                                                         *)
(* A data line is one of the kinds below, numbered as it is sent; its text *)
(* is not modelled.  The client is faster than the server: time passes,    *)
(* and lines arrive, only while it waits for a block.                      *)
(***************************************************************************)
EXTENDS Naturals, Sequences

CONSTANTS
  Kinds,      \* the kinds of lines the server sends
  ReadSize,   \* lines that fill one block: 8192 bytes in the code
  MaxSent,    \* bound: lines of one response
  MaxClock,   \* bound: time the server takes
  Never       \* no time

\* done: [DONE].  role: an object without a fragment.  content, reasoning: a
\* nonempty fragment.  stop, length: a finish reason.  usage, badusage: a usage
\* object that validates or not.  raises: an object whose choices cannot be
\* indexed.  junk: not JSON.  scalar: JSON that is not an object.  empty: nothing
\* after "data:".  bytes: not UTF-8.  Raw events are captured, which is the
\* default.
Fragments == {"content", "reasoning"}
Reasons == {"stop", "length"}
AllKinds == {"done", "role", "usage", "badusage", "raises", "junk", "scalar", "empty", "bytes"}
            \cup Fragments \cup Reasons

ASSUME KindAssumption == Kinds \subseteq AllKinds
ASSUME BoundAssumption == /\ ReadSize \in Nat \ {0}
                          /\ MaxSent \in Nat
                          /\ MaxClock \in Nat
ASSUME NeverAssumption == Never \notin Nat

VARIABLES
  pc,       \* "open", "read", "take", "line", "last", "finish" or "done"
  net,      \* lines sent and not yet read
  eof,      \* "open" or "closed": the server's side of the connection
  chunk,    \* rest of the block just read
  held,     \* lines of an event that is not complete, in the decoder
  cur,      \* rest of the event in _consume_event
  single,   \* "yes" if that event is one line: no newline in payload_str
  res,      \* the StreamResult; a raw event is the number of its line
  clock,    \* perf_counter() - t0
  sent,     \* history: every line [kind, last, no] sent; .last if a blank line follows
  first,    \* history: when the first fragment was sent that is to be consumed
  broken    \* history: "yes" if a read or the decoder raised

wire == <<net, eof, clock, sent, first>>
vars == <<pc, net, eof, chunk, held, cur, single, res, clock, sent, first, broken>>

StreamResult == [error |-> "none", http_status |-> "none", saw_done |-> "no", usage |-> "none",
                 finish_reason |-> "none", content |-> "empty", ttft |-> Never, raw_events |-> << >>]

Init ==
  /\ pc = "open" /\ net = << >> /\ eof = "open" /\ chunk = << >> /\ held = << >> /\ cur = << >>
  /\ single = "no" /\ res = StreamResult
  /\ clock = 0 /\ sent = << >> /\ first = Never /\ broken = "no"

(***************************************************************************)
(* What was sent, as the contract of the client looks at it.               *)
(***************************************************************************)
\* Line j is the last of an event that is not before [DONE].
EndsDone(j) == sent[j].last = "yes" /\ \E k \in 1..j : sent[k].kind = "done"
\* Nothing behind line j is looked at: it ends the event with [DONE], or raises.
Stops(j) == EndsDone(j) \/ sent[j].kind = "raises"
Counted == {i \in 1..Len(sent) : \A j \in 1..(i - 1) : ~Stops(j)}

\* Line i is the only one of its event.
Alone(i) == /\ i = 1 \/ sent[i - 1].last = "yes"
            /\ sent[i].last = "yes" \/ i = Len(sent)

(***************************************************************************)
(* The server (external): sends lines, ends events, closes the response,   *)
(* takes its time.                                                         *)
(***************************************************************************)
Send(kind, last) ==
  /\ pc = "read" /\ eof = "open"
  /\ Len(net) < ReadSize /\ Len(sent) < MaxSent
  /\ LET line == [kind |-> kind, last |-> last, no |-> Len(sent) + 1]
     IN  net' = Append(net, line) /\ sent' = Append(sent, line)
  /\ first' = IF first = Never /\ kind \in Fragments /\ \A j \in 1..Len(sent) : ~Stops(j)
              THEN clock ELSE first
  /\ UNCHANGED <<pc, eof, chunk, held, cur, single, res, clock, broken>>

CloseResponse ==
  /\ pc = "read" /\ eof = "open"
  /\ eof' = "closed"
  /\ UNCHANGED <<pc, net, chunk, held, cur, single, res, clock, sent, first, broken>>

(***************************************************************************)
(* HTTPResponse.read(n) returns when n bytes are there or the response has *)
(* ended.                                                                  *)
(***************************************************************************)
Ready == Len(net) >= ReadSize \/ eof = "closed"

Wait ==
  /\ pc = "read" /\ ~Ready /\ clock < MaxClock
  /\ clock' = clock + 1
  /\ UNCHANGED <<pc, net, eof, chunk, held, cur, single, res, sent, first, broken>>

(***************************************************************************)
(* _open: a status, an error status or a transport error.                  *)
(***************************************************************************)
Open ==
  /\ pc = "open"
  /\ \/ pc' = "read" /\ res' = [res EXCEPT !.http_status = "ok"]
     \/ pc' = "done" /\ res' = [res EXCEPT !.http_status = "error", !.error = "http_status"]
     \/ \E error \in {"timeout", "transport"} :
          pc' = "done" /\ res' = [res EXCEPT !.error = error]
  /\ UNCHANGED <<chunk, held, cur, single, wire, broken>>

\* _fail, which closes the response.
Fail(error) == pc' = "done" /\ res' = [res EXCEPT !.error = error]

\* A reset, a timeout of the socket or a response cut short raises.
ReadFails ==
  /\ pc = "read"
  /\ Fail("stream_format") /\ broken' = "yes"
  /\ UNCHANGED <<chunk, held, cur, single, wire>>

\* feed() raises before it returns any event of a block it cannot decode.
Decodable(block) == \A i \in DOMAIN block : block[i].kind # "bytes"

Read ==
  /\ pc = "read" /\ Ready /\ net # << >>
  /\ net' = << >> /\ chunk' = net
  /\ \/ Decodable(net) /\ pc' = "take" /\ UNCHANGED <<res, broken>>
     \/ ~Decodable(net) /\ Fail("stream_format") /\ broken' = "yes"
  /\ UNCHANGED <<held, cur, single, eof, clock, sent, first>>

\* The next event of the block, or the next block.
TakeLine ==
  /\ pc = "take"
  /\ \/ chunk = << >> /\ pc' = "read" /\ UNCHANGED <<chunk, held, cur, single>>
     \/ /\ chunk # << >>
        /\ chunk' = Tail(chunk)
        /\ \/ /\ Head(chunk).last = "no"
              /\ held' = Append(held, Head(chunk)) /\ UNCHANGED <<pc, cur, single>>
           \/ /\ Head(chunk).last = "yes"
              /\ cur' = Append(held, Head(chunk))
              /\ single' = IF held = << >> THEN "yes" ELSE "no"
              /\ held' = << >>
              /\ pc' = "line"
  /\ UNCHANGED <<res, wire, broken>>

\* EOF: what the decoder holds is a last event.
CloseDecoder ==
  /\ pc = "read" /\ net = << >> /\ eof = "closed"
  /\ cur' = held /\ held' = << >>
  /\ single' = IF Len(held) = 1 THEN "yes" ELSE "no"
  /\ pc' = "last"
  /\ UNCHANGED <<res, chunk, wire, broken>>

(***************************************************************************)
(* _consume_event for one line.  An empty line is skipped in an event of   *)
(* several lines, and alone is a payload that does not parse.              *)
(***************************************************************************)
IsObject(kind) == kind \notin {"done", "junk", "scalar", "empty", "bytes"}
Unparseable(kind, alone) == kind = "junk" \/ (kind = "empty" /\ alone = "yes")

\* Mutant: a payload is not kept after the first finish reason.
RawEventsOpen(r, line, alone) ==
  IF (IsObject(line.kind) \/ Unparseable(line.kind, alone)) /\ r.finish_reason = "none"
  THEN Append(r.raw_events, line.no) ELSE r.raw_events
RawEvents(r, line, alone) ==
  IF IsObject(line.kind) \/ Unparseable(line.kind, alone)
  THEN Append(r.raw_events, line.no) ELSE r.raw_events
\* Mutant: a later line that does not parse replaces the error before it.
EventErrorLast(r, kind, alone) == CASE Unparseable(kind, alone) -> "stream_format"
                                    [] kind = "badusage" -> "invalid_usage"
                                    [] OTHER -> r.error
EventError(r, kind, alone) == CASE Unparseable(kind, alone) /\ r.error = "none" -> "stream_format"
                                [] kind = "badusage" -> "invalid_usage"
                                [] OTHER -> r.error
\* Mutant: any object starts the token clock.
TtftAny(r, kind) == IF r.ttft = Never /\ IsObject(kind) THEN clock ELSE r.ttft
Ttft(r, kind) == IF r.ttft = Never /\ kind \in Fragments THEN clock ELSE r.ttft
\* Mutant: the first finish reason is kept.
FinishFirst(r, kind) == IF kind \in Reasons /\ r.finish_reason = "none" THEN kind ELSE r.finish_reason
Finish(r, kind) == IF kind \in Reasons THEN kind ELSE r.finish_reason

Consume(r, line, alone) ==
  [r EXCEPT !.saw_done = IF line.kind = "done" THEN "yes" ELSE @,
            !.raw_events = RawEvents(r, line, alone),
            !.error = EventError(r, line.kind, alone),
            !.usage = IF line.kind = "usage" THEN "valid" ELSE @,
            !.finish_reason = Finish(r, line.kind),
            !.content = IF line.kind = "content" THEN "some" ELSE @,
            !.ttft = Ttft(r, line.kind)]

\* choices[0] raises after the event was kept; the request ends there.
ConsumeEvent ==
  /\ pc \in {"line", "last"} /\ cur # << >>
  /\ LET got == Consume(res, Head(cur), single)
     IN  IF Head(cur).kind = "raises"
         THEN res' = [got EXCEPT !.error = "stream_format"] /\ pc' = "done"
         ELSE res' = got /\ UNCHANGED pc
  /\ cur' = Tail(cur)
  /\ UNCHANGED <<chunk, held, single, wire, broken>>

\* The loop over the block ends once [DONE] was in an event.
EventConsumed ==
  /\ pc \in {"line", "last"} /\ cur = << >>
  /\ pc' = IF pc = "last" \/ res.saw_done = "yes" THEN "finish" ELSE "take"
  /\ UNCHANGED <<res, chunk, held, cur, single, wire, broken>>

Return ==
  /\ pc = "finish"
  /\ \/ res.saw_done = "no" /\ Fail("missing_done")
     \/ res.saw_done = "yes" /\ res.error = "invalid_usage" /\ Fail("invalid_usage")
     \/ /\ res.saw_done = "yes" /\ res.error # "invalid_usage" /\ res.usage = "none"
        /\ Fail("missing_usage")
     \/ /\ res.saw_done = "yes" /\ res.error # "invalid_usage" /\ res.usage # "none"
        /\ pc' = "done" /\ UNCHANGED res
  /\ UNCHANGED <<chunk, held, cur, single, wire, broken>>

\* row_validity, with the default finish reason.
row_validity(r) == r.error = "none" /\ r.finish_reason = "stop"
                   /\ r.usage # "none" /\ r.content # "empty"

Server == (\E kind \in Kinds, last \in {"yes", "no"} : Send(kind, last)) \/ CloseResponse \/ Wait
Client == Open \/ Read \/ ReadFails \/ TakeLine \/ CloseDecoder \/ ConsumeEvent
          \/ EventConsumed \/ Return
Returned == pc = "done" /\ UNCHANGED vars

Next == Server \/ Client \/ Returned

Spec == Init /\ [][Next]_vars

(***************************************************************************)
(* Properties.                                                             *)
(***************************************************************************)
\* The request came back, and neither the connection nor the encoding broke.
Complete == pc = "done" /\ res.http_status = "ok" /\ broken = "no"

Has(K) == \E i \in Counted : sent[i].kind \in K
Malformed(i) == sent[i].kind = "junk" \/ (sent[i].kind = "empty" /\ Alone(i))

\* What the stream deserves, whatever the order of its lines.
Verdict == IF Has({"raises"}) THEN "stream_format"
           ELSE IF ~Has({"done"}) THEN "missing_done"
           ELSE IF Has({"badusage"}) THEN "invalid_usage"
           ELSE IF ~Has({"usage"}) THEN "missing_usage"
           ELSE IF \E i \in Counted : Malformed(i) THEN "stream_format" ELSE "none"

\* The error class depends only on the lines the server sent up to the end of the
\* event that holds [DONE], or up to one that raises, and for an empty data line
\* on whether it is alone in its event (http_client.py:549-579, 584-618): not on
\* the order of the lines, on the blocks they fall into, or on what follows.
ErrorIsExact == Complete => res.error = Verdict

\* A row that counts as a measurement (http_client.py:337-364) comes from a
\* stream with [DONE], content, valid usage and no malformed line whose last
\* finish reason is "stop", and has a time to first token.
ValidRowIsEarned ==
  pc = "done" /\ row_validity(res) =>
    /\ Complete /\ res.ttft # Never
    /\ Has({"done"}) /\ Has({"usage"}) /\ Has({"content"})
    /\ ~Has({"badusage", "raises", "bytes"}) /\ \A i \in Counted : ~Malformed(i)
    /\ \E i \in Counted : /\ sent[i].kind = "stop"
                          /\ \A k \in Counted : k > i => sent[k].kind \notin Reasons

\* http_client.py:11-13: the token clock is started by a fragment, never by
\* another event, and not before the server sent one.
TokenClock ==
  /\ Complete => (res.ttft = Never <=> first = Never)
  /\ res.ttft # Never => first # Never /\ first <= res.ttft

\* http_client.py:17-19, 593-609: every object and every unparseable payload of a
\* stream, failed or not, is kept as evidence, once and in the order it was sent,
\* whatever the events and blocks it came in.  JSON that is not an object is the
\* exception: see NothingDiscarded.
KeptLine(i) == IsObject(sent[i].kind) \/ Malformed(i)
PayloadsKept ==
  Complete => LET raw == res.raw_events IN
    /\ \A m \in 1..Len(raw) : \A n \in 1..Len(raw) : m < n => raw[m] < raw[n]
    /\ \A m \in 1..Len(raw) : raw[m] \in Counted /\ KeptLine(raw[m])
    /\ \A i \in Counted : KeptLine(i) => \E m \in 1..Len(raw) : raw[m] = i

\* "Failures are preserved: every failed or partial stream keeps its parsed raw
\* events [...] Nothing is silently discarded" (http_client.py:17-19): every
\* payload that was parsed or failed to parse is among the raw events.
NothingDiscarded ==
  Complete /\ res.error # "none" =>
    \A i \in Counted : sent[i].kind \notin {"done", "empty"} =>
      \E m \in 1..Len(res.raw_events) : res.raw_events[m] = i

\* http_client.py:11-13: the time to first token is that of the first nonempty
\* fragment.
TtftIsFirstFragment == res.ttft # Never => res.ttft = first
=============================================================================
