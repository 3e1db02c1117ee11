------------------------- MODULE StreamClientProofs -------------------------
(***************************************************************************)
(* Proofs about StreamClient, for any kinds of lines, any length of        *)
(* responses, events and blocks and any clock.  The inductive invariant    *)
(* follows every line: the lines sent are, in their order, the Taken ones  *)
(* that were consumed, the rest of the event, what the decoder holds, the  *)
(* rest of the block and what is on the wire (OrderInv), and the result    *)
(* says of the Taken lines exactly what they were (ResultInv, RawInv,      *)
(* ErrorInv, ClockInv).  FlowInv says which line the client stops at.      *)
(***************************************************************************)
EXTENDS StreamClient, Integers, TLAPS

Lines == [kind : AllKinds, last : {"yes", "no"}, no : Nat]

Errors == {"none", "http_status", "timeout", "transport", "stream_format", "invalid_usage",
           "missing_done", "missing_usage"}
Results == [error : Errors, http_status : {"none", "ok", "error"}, saw_done : {"yes", "no"},
            usage : {"none", "valid"}, finish_reason : {"none"} \cup Reasons,
            content : {"empty", "some"}, ttft : Nat \cup {Never}, raw_events : Seq(Nat)]

TypeInv ==
  /\ pc \in {"open", "read", "take", "line", "last", "finish", "done"}
  /\ net \in Seq(Lines) /\ chunk \in Seq(Lines) /\ held \in Seq(Lines) /\ cur \in Seq(Lines)
  /\ sent \in Seq(Lines) /\ eof \in {"open", "closed"} /\ single \in {"yes", "no"}
  /\ res \in Results /\ clock \in Nat
  /\ first \in Nat \cup {Never} /\ broken \in {"yes", "no"}

\* How many lines were consumed.
Taken == Len(sent) - Len(net) - Len(chunk) - Len(held) - Len(cur)

\* No line is lost, repeated or overtaken.
OrderInv ==
  /\ Taken \in Nat
  /\ \A i \in 1..Len(sent) : sent[i].no = i
  /\ \A i \in 1..Len(cur) : cur[i] = sent[Taken + i]
  /\ \A i \in 1..Len(held) : held[i] = sent[Taken + Len(cur) + i]
  /\ \A i \in 1..Len(chunk) : chunk[i] = sent[Taken + Len(cur) + Len(held) + i]
  /\ \A i \in 1..Len(net) : net[i] = sent[Taken + Len(cur) + Len(held) + Len(chunk) + i]

\* What is read is text, unless the decoder raised.
CleanInv == broken = "no" => \A i \in 1..(Len(sent) - Len(net)) : sent[i].kind # "bytes"

\* Which buffers are in use, where the events end, and which line is the last
\* one that counts, at each point of the program.
OpenFlow ==
  pc = "open" => /\ net = << >> /\ chunk = << >> /\ held = << >> /\ cur = << >> /\ sent = << >>
                 /\ res = StreamResult /\ first = Never /\ broken = "no"
ReadFlow ==
  /\ pc \in {"read", "take"} =>
       /\ cur = << >> /\ res.saw_done = "no"
       /\ \A i \in 1..Len(held) : held[i].last = "no"
       /\ Taken = 0 \/ sent[Taken].last = "yes"
  /\ pc = "read" => chunk = << >>
  /\ pc = "take" => net = << >>
LineFlow ==
  pc = "line" =>
    /\ net = << >> /\ held = << >> /\ Taken + Len(cur) # 0
    /\ sent[Taken + Len(cur)].last = "yes"
    /\ \A i \in 1..(Len(cur) - 1) : cur[i].last = "no"
    /\ \A j \in 1..((Taken + Len(cur)) - 1) : ~EndsDone(j)
LastFlow ==
  pc = "last" =>
    /\ net = << >> /\ chunk = << >> /\ held = << >>
    /\ \A i \in 1..Len(cur) : cur[i].last = "no"
    /\ \A j \in 1..Len(sent) : ~EndsDone(j)
AloneFlow == pc \in {"line", "last"} /\ cur # << >> => (single = "yes" <=> Alone(Taken + 1))
RaiseFlow == pc \notin {"open", "done"} => \A i \in 1..Taken : sent[i].kind # "raises"
FinishFlow ==
  pc = "finish" =>
    /\ \A j \in 1..(Taken - 1) : ~EndsDone(j)
    /\ Taken = Len(sent) \/ (Taken # 0 /\ EndsDone(Taken))
CountFlow == Complete => Counted = 1..Taken
FlowInv == /\ OpenFlow /\ ReadFlow /\ LineFlow /\ LastFlow /\ AloneFlow
           /\ RaiseFlow /\ FinishFlow /\ CountFlow

\* Some line consumed is of one of the kinds K.
Took(K) == \E i \in 1..Taken : sent[i].kind \in K

\* The result says what was consumed.
ResultInv ==
  /\ res.saw_done = "yes" <=> Took({"done"})
  /\ res.usage = "valid" <=> Took({"usage"})
  /\ res.content = "some" <=> Took({"content"})
  /\ IF res.finish_reason = "none" THEN ~Took(Reasons)
     ELSE \E i \in 1..Taken : /\ sent[i].kind = res.finish_reason
                              /\ \A k \in 1..Taken : k > i => sent[k].kind \notin Reasons

\* The raw events are the lines to keep among those consumed.
RawInv ==
  /\ \A m \in 1..Len(res.raw_events) : \A n \in 1..Len(res.raw_events) :
       m < n => res.raw_events[m] < res.raw_events[n]
  /\ \A m \in 1..Len(res.raw_events) :
       res.raw_events[m] \in 1..Taken /\ KeptLine(res.raw_events[m])
  /\ \A i \in 1..Taken : KeptLine(i) => \E m \in 1..Len(res.raw_events) : res.raw_events[m] = i

Running == {"read", "take", "line", "last", "finish"}
ErrorInv ==
  pc \in Running =>
    /\ res.http_status = "ok" /\ broken = "no"
    /\ res.error = IF Took({"badusage"}) THEN "invalid_usage"
                   ELSE IF \E i \in 1..Taken : Malformed(i) THEN "stream_format" ELSE "none"

\* The clock of the first fragment, and of the first one consumed.
ClockInv ==
  /\ first = Never <=> ~Has(Fragments)
  /\ first # Never => first <= clock
  /\ res.ttft = Never <=> ~Took(Fragments)
  /\ res.ttft # Never => first # Never /\ first <= res.ttft

DoneInv ==
  /\ Complete => res.error = Verdict
  /\ pc = "done" /\ res.error = "none" => Complete

StreamInv == /\ TypeInv /\ OrderInv /\ CleanInv /\ FlowInv
             /\ ResultInv /\ RawInv /\ ErrorInv /\ ClockInv /\ DoneInv

(***************************************************************************)
(* Types, order and text.                                                  *)
(***************************************************************************)
\* A result stays one when an error is set.
LEMMA ErrorSet ==
  ASSUME NEW r \in Results, NEW e \in Errors
  PROVE  [r EXCEPT !.error = e] \in Results
BY DEF Results

\* A result stays one when a line is consumed.
LEMMA ConsumeType ==
  ASSUME NEW r \in Results, NEW line \in Lines, NEW alone, clock \in Nat
  PROVE  Consume(r, line, alone) \in Results
<1>1. RawEvents(r, line, alone) \in Seq(Nat)
  BY DEF RawEvents, Results, Lines
<1>2. EventError(r, line.kind, alone) \in Errors
  BY DEF EventError, Results, Errors
<1>3. Finish(r, line.kind) \in {"none"} \cup Reasons
  BY DEF Finish, Results
<1>4. Ttft(r, line.kind) \in Nat \cup {Never}
  BY DEF Ttft, Results
<1> DEFINE s == IF line.kind = "done" THEN "yes" ELSE r.saw_done
           u == IF line.kind = "usage" THEN "valid" ELSE r.usage
           c == IF line.kind = "content" THEN "some" ELSE r.content
           w == RawEvents(r, line, alone)
           e == EventError(r, line.kind, alone)
           f == Finish(r, line.kind)
           t == Ttft(r, line.kind)
<1>5. s \in {"yes", "no"} /\ u \in {"none", "valid"} /\ c \in {"empty", "some"}
  BY DEF Results
<1>6. Consume(r, line, alone) = [r EXCEPT !.saw_done = s, !.raw_events = w, !.error = e, !.usage = u,
                                          !.finish_reason = f, !.content = c, !.ttft = t]
  BY Zenon DEF Consume
<1>7. w \in Seq(Nat) /\ e \in Errors /\ f \in {"none"} \cup Reasons /\ t \in Nat \cup {Never}
  BY <1>1, <1>2, <1>3, <1>4
<1> HIDE DEF s, u, c, w, e, f, t
<1>8. [r EXCEPT !.saw_done = s, !.raw_events = w, !.error = e, !.usage = u,
                !.finish_reason = f, !.content = c, !.ttft = t] \in Results
  BY <1>5, <1>7 DEF Results
<1> QED BY <1>6, <1>8

\* Every step keeps the types.
LEMMA TypeStep == TypeInv /\ [Next]_vars => TypeInv'
<1> SUFFICES ASSUME TypeInv, [Next]_vars PROVE TypeInv'
  OBVIOUS
<1>1. ASSUME NEW kind \in Kinds, NEW last \in {"yes", "no"}, Send(kind, last) PROVE TypeInv'
  <2>1. [kind |-> kind, last |-> last, no |-> Len(sent) + 1] \in Lines
    BY KindAssumption DEF Lines, TypeInv
  <2> QED BY <2>1, <1>1 DEF Send, TypeInv
<1>2. CASE CloseResponse \/ Wait
  BY <1>2 DEF CloseResponse, Wait, TypeInv
<1>3. CASE Open \/ ReadFails \/ Return
  <2>1. res' \in Results
    <3>1. CASE Open
      <4>1. [res EXCEPT !.http_status = "ok"] \in Results
        BY DEF TypeInv, Results
      <4>2. [res EXCEPT !.http_status = "error", !.error = "http_status"] \in Results
        BY DEF TypeInv, Results, Errors
      <4>3. \A error \in {"timeout", "transport"} : [res EXCEPT !.error = error] \in Results
        BY ErrorSet DEF TypeInv, Errors
      <4> QED BY <3>1, <4>1, <4>2, <4>3 DEF Open
    <3>2. CASE ReadFails \/ Return
      <4>1. \A error \in Errors : [res EXCEPT !.error = error] \in Results
        BY ErrorSet DEF TypeInv
      <4>2. {"stream_format", "missing_done", "invalid_usage", "missing_usage"} \subseteq Errors
        BY DEF Errors
      <4> QED BY <3>2, <4>1, <4>2 DEF ReadFails, Return, Fail, TypeInv
    <3> QED BY <1>3, <3>1, <3>2
  <2> QED BY <2>1, <1>3 DEF Open, ReadFails, Return, Fail, TypeInv, wire
<1>4. CASE Read
  <2>1. res' \in Results
    BY <1>4, ErrorSet DEF Read, Fail, TypeInv, Errors
  <2> QED BY <2>1, <1>4 DEF Read, Fail, TypeInv
<1>5. CASE TakeLine
  <2>1. chunk # << >> => /\ Head(chunk) \in Lines /\ Tail(chunk) \in Seq(Lines)
                         /\ Append(held, Head(chunk)) \in Seq(Lines)
    BY DEF TypeInv
  <2>2. /\ chunk' \in Seq(Lines) /\ held' \in Seq(Lines) /\ cur' \in Seq(Lines)
    <3>1. CASE chunk = << >>
      BY <3>1, <1>5 DEF TakeLine, TypeInv
    <3>2. CASE chunk # << >>
      <4> DEFINE e == Append(held, Head(chunk))
      <4>1. e \in Seq(Lines) /\ Tail(chunk) \in Seq(Lines) /\ << >> \in Seq(Lines)
        BY <2>1, <3>2
      <4>2. chunk' = Tail(chunk) /\ ((held' = e /\ cur' = cur) \/ (cur' = e /\ held' = << >>))
        BY <3>2, <1>5 DEF TakeLine
      <4> HIDE DEF e
      <4> QED BY <4>1, <4>2 DEF TypeInv
    <3> QED BY <3>1, <3>2
  <2>3. single' \in {"yes", "no"} /\ pc' \in {"take", "read", "line"}
    BY <1>5 DEF TakeLine, TypeInv
  <2> QED BY <2>2, <2>3, <1>5 DEF TakeLine, TypeInv, wire
<1>6. CASE CloseDecoder \/ EventConsumed
  BY <1>6 DEF CloseDecoder, EventConsumed, TypeInv, wire
<1>7. CASE ConsumeEvent
  <2>1. Head(cur) \in Lines /\ Tail(cur) \in Seq(Lines) /\ cur # << >>
    BY <1>7 DEF ConsumeEvent, TypeInv
  <2>2. Consume(res, Head(cur), single) \in Results
    BY <2>1, ConsumeType DEF TypeInv
  <2>3. res' \in Results
    BY <2>2, <1>7, ErrorSet DEF ConsumeEvent, Errors
  <2> QED BY <2>1, <2>3, <1>7 DEF ConsumeEvent, TypeInv, wire
<1>8. CASE Returned \/ UNCHANGED vars
  BY <1>8 DEF Returned, vars, TypeInv
<1> QED BY <1>1, <1>2, <1>3, <1>4, <1>5, <1>6, <1>7, <1>8 DEF Next, Server, Client

\* The steps that move lines, and the others.
Still == UNCHANGED <<net, chunk, held, cur, sent>>
LEMMA StepCases ==
  ASSUME [Next]_vars
  PROVE  \/ \E kind \in Kinds, last \in {"yes", "no"} : Send(kind, last)
         \/ ConsumeEvent
         \/ TakeLine /\ chunk # << >>
         \/ Read
         \/ CloseDecoder
         \/ /\ \/ CloseResponse \/ Wait \/ Open \/ ReadFails \/ (TakeLine /\ chunk = << >>)
               \/ EventConsumed \/ Return \/ Returned \/ UNCHANGED vars
            /\ Still /\ ~ConsumeEvent
<1>1. CloseResponse \/ Wait => Still /\ ~ConsumeEvent
  BY DEF CloseResponse, Wait, Still, ConsumeEvent
<1>2. Open \/ ReadFails \/ Return => Still /\ ~ConsumeEvent
  BY DEF Open, ReadFails, Return, Fail, Still, wire, ConsumeEvent
<1>3. TakeLine /\ chunk = << >> => Still /\ ~ConsumeEvent
  BY DEF TakeLine, Still, wire, ConsumeEvent
<1>4. EventConsumed => Still /\ ~ConsumeEvent
  BY DEF EventConsumed, Still, wire, ConsumeEvent
<1>5. Returned => Still /\ ~ConsumeEvent
  BY DEF Returned, Still, vars, ConsumeEvent
<1>6. UNCHANGED vars => Still
  BY DEF Still, vars
<1>7. \/ \E kind \in Kinds, last \in {"yes", "no"} : Send(kind, last)
      \/ ConsumeEvent \/ TakeLine \/ Read \/ CloseDecoder
      \/ CloseResponse \/ Wait \/ Open \/ ReadFails \/ EventConsumed \/ Return
      \/ Returned \/ UNCHANGED vars
  BY DEF Next, Server, Client
<1> QED BY <1>1, <1>2, <1>3, <1>4, <1>5, <1>6, <1>7

\* A line that is sent is the last one, and changes none before it (Send).
LEMMA SendSent ==
  ASSUME TypeInv, NEW kind \in Kinds, NEW last \in {"yes", "no"}, Send(kind, last)
  PROVE  /\ Len(sent') = Len(sent) + 1 /\ Len(net') = Len(net) + 1
         /\ Len(sent) \in Nat /\ Len(net) \in Nat
         /\ \A i \in 1..Len(sent) : sent'[i] = sent[i]
         /\ \A i \in 1..Len(net) : net'[i] = net[i]
         /\ sent'[Len(sent) + 1] = [kind |-> kind, last |-> last, no |-> Len(sent) + 1]
         /\ net'[Len(net) + 1] = sent'[Len(sent) + 1]
         /\ UNCHANGED <<pc, eof, chunk, held, cur, single, res, clock, broken>>
         /\ Taken' = Taken
<1>1. [kind |-> kind, last |-> last, no |-> Len(sent) + 1] \in Lines
  BY KindAssumption DEF Lines, TypeInv
<1>2. /\ sent' = Append(sent, [kind |-> kind, last |-> last, no |-> Len(sent) + 1])
      /\ net' = Append(net, [kind |-> kind, last |-> last, no |-> Len(sent) + 1])
      /\ UNCHANGED <<pc, eof, chunk, held, cur, single, res, clock, broken>>
      /\ sent \in Seq(Lines) /\ net \in Seq(Lines)
  BY DEF Send, TypeInv
<1>3. /\ Len(sent') = Len(sent) + 1 /\ Len(net') = Len(net) + 1
      /\ Len(sent) \in Nat /\ Len(net) \in Nat
  BY <1>1, <1>2
<1>4. Taken' = Taken
  BY <1>2, <1>3 DEF Taken, TypeInv
<1> QED BY <1>1, <1>2, <1>3, <1>4

\* Lengths are numbers.
LEMMA Lengths ==
  ASSUME TypeInv
  PROVE  /\ Len(sent) \in Nat /\ Len(net) \in Nat /\ Len(chunk) \in Nat /\ Len(held) \in Nat
         /\ Len(cur) \in Nat /\ Taken \in Int
         /\ Len(sent) = Taken + Len(cur) + Len(held) + Len(chunk) + Len(net)
         /\ (net = << >> => Len(net) = 0) /\ (chunk = << >> => Len(chunk) = 0)
         /\ (held = << >> => Len(held) = 0) /\ (cur = << >> => Len(cur) = 0)
BY DEF TypeInv, Taken

\* The next line of the event is consumed: it is line Taken + 1.
LEMMA ConsumeMoves ==
  ASSUME TypeInv, OrderInv, ConsumeEvent
  PROVE  /\ Len(cur) \in Nat \ {0} /\ Len(cur') = Len(cur) - 1
         /\ UNCHANGED <<net, chunk, held, sent>> /\ Taken' = Taken + 1
         /\ \A i \in 1..Len(cur') : cur'[i] = cur[i + 1]
         /\ Head(cur) = cur[1] /\ cur[1] = sent[Taken + 1] /\ Taken + 1 \in 1..Len(sent)
         /\ Head(cur) \in Lines
<1>1. /\ cur # << >> /\ cur' = Tail(cur) /\ cur \in Seq(Lines)
      /\ UNCHANGED <<net, chunk, held, sent>>
  BY DEF ConsumeEvent, TypeInv, wire
<1>2. /\ Len(cur) \in Nat \ {0} /\ Len(cur') = Len(cur) - 1 /\ Head(cur) = cur[1]
      /\ \A i \in 1..Len(cur') : cur'[i] = cur[i + 1]
      /\ Head(cur) \in Lines
  BY <1>1
<1>3. Taken' = Taken + 1
  BY <1>1, <1>2, Lengths DEF Taken
<1>4. 1 \in 1..Len(cur) /\ Taken \in Nat
  BY <1>2 DEF OrderInv
<1>5. cur[1] = sent[Taken + 1]
  BY <1>4 DEF OrderInv
<1> QED BY <1>1, <1>2, <1>3, <1>4, <1>5, Lengths

\* The next line of the block goes to the event in the decoder, or ends it.
LEMMA TakeMoves ==
  ASSUME TypeInv, FlowInv, OrderInv, TakeLine, chunk # << >>
  PROVE  /\ UNCHANGED <<net, sent, res, broken, first, clock>> /\ Taken' = Taken
         /\ Len(cur) = 0 /\ Len(net) = 0 /\ pc = "take"
         /\ Len(chunk) \in Nat \ {0} /\ Len(chunk') = Len(chunk) - 1
         /\ \A i \in 1..Len(chunk') : chunk'[i] = chunk[i + 1]
         /\ Taken + Len(held) + 1 \in 1..Len(sent)
         /\ LET l == sent[Taken + Len(held) + 1]
            IN  \/ /\ l.last = "no" /\ Len(held') = Len(held) + 1 /\ Len(cur') = 0
                   /\ \A i \in 1..Len(held') : held'[i] = sent[Taken + i]
                   /\ pc' = "take" /\ single' = single
                \/ /\ l.last = "yes" /\ held' = << >> /\ Len(held') = 0 /\ Len(cur') = Len(held) + 1
                   /\ \A i \in 1..Len(cur') : cur'[i] = sent[Taken + i]
                   /\ pc' = "line" /\ single' = IF Len(held) = 0 THEN "yes" ELSE "no"
<1>1. /\ cur = << >> /\ net = << >> /\ chunk' = Tail(chunk) /\ pc = "take"
      /\ UNCHANGED <<net, sent, res, broken, first, clock>>
  BY DEF TakeLine, FlowInv, ReadFlow, wire
<1>2. /\ Len(cur) = 0 /\ Len(net) = 0 /\ held \in Seq(Lines) /\ chunk \in Seq(Lines)
      /\ Len(held) \in Nat /\ Taken \in Nat
      /\ Len(sent) = Taken + Len(held) + Len(chunk)
  BY <1>1, Lengths DEF TypeInv, OrderInv
<1>3. /\ Len(chunk) \in Nat \ {0} /\ Len(chunk') = Len(chunk) - 1 /\ Head(chunk) = chunk[1]
      /\ Head(chunk) \in Lines
      /\ \A i \in 1..Len(chunk') : chunk'[i] = chunk[i + 1]
  BY <1>1, <1>2
<1>4. Taken + Len(held) + 1 \in 1..Len(sent) /\ Taken + Len(cur) + Len(held) + 1 = Taken + Len(held) + 1
  BY <1>2, <1>3
<1>5. chunk[1] = sent[Taken + Len(held) + 1]
  <2>1. 1 \in 1..Len(chunk)
    BY <1>3
  <2> QED BY <2>1, <1>4 DEF OrderInv
<1>6. \A i \in 1..Len(held) : held[i] = sent[Taken + i]
  <2>1. \A i \in 1..Len(held) : Taken + Len(cur) + i = Taken + i
    BY <1>2
  <2> QED BY <2>1 DEF OrderInv
<1> DEFINE e == Append(held, Head(chunk))
<1>7. Len(e) = Len(held) + 1 /\ \A i \in 1..Len(e) : e[i] = sent[Taken + i]
  <2>1. /\ Len(e) = Len(held) + 1 /\ e[Len(held) + 1] = chunk[1]
        /\ \A i \in 1..Len(held) : e[i] = held[i]
    BY <1>2, <1>3
  <2>2. \A i \in 1..(Len(held) + 1) : i \in 1..Len(held) \/ i = Len(held) + 1
    BY <1>2
  <2>3. Taken + (Len(held) + 1) = Taken + Len(held) + 1
    BY <1>2
  <2> HIDE DEF e
  <2> QED BY <2>1, <2>2, <2>3, <1>5, <1>6
<1>8. held = << >> <=> Len(held) = 0
  BY <1>2
<1>9. \/ /\ Head(chunk).last = "no" /\ held' = e /\ cur' = cur /\ pc' = "take" /\ single' = single
      \/ /\ Head(chunk).last = "yes" /\ held' = << >> /\ cur' = e /\ pc' = "line"
         /\ single' = IF Len(held) = 0 THEN "yes" ELSE "no"
  BY <1>1, <1>8 DEF TakeLine
<1> HIDE DEF e
<1>10. Len(held') + Len(cur') = Len(held) + 1 /\ Len(held') \in Nat /\ Len(cur') \in Nat
  BY <1>7, <1>9, <1>2
<1>11. Taken' = Taken
  <2>1. Len(sent') = Len(sent) /\ Len(net') = Len(net)
    BY <1>1
  <2>2. Taken' = (Taken + Len(held) + Len(chunk)) - 0 - (Len(chunk) - 1) - Len(held') - Len(cur')
    BY <2>1, <1>2, <1>3 DEF Taken
  <2> DEFINE c == Len(chunk)  h == Len(held)  x == Len(held')  y == Len(cur')
  <2>3. /\ Taken \in Nat /\ c \in Nat \ {0} /\ h \in Nat /\ x \in Nat /\ y \in Nat
        /\ x + y = h + 1 /\ Taken' = (Taken + h + c) - 0 - (c - 1) - x - y
    BY <2>2, <1>2, <1>3, <1>10
  <2> HIDE DEF c, h, x, y
  <2> QED BY <2>3
<1>12. Len(<< >>) = 0
  OBVIOUS
<1> QED BY <1>1, <1>2, <1>3, <1>4, <1>5, <1>7, <1>9, <1>11, <1>12

\* The block is read, and is what was on the wire.
LEMMA ReadMoves ==
  ASSUME TypeInv, FlowInv, Read
  PROVE  /\ UNCHANGED <<sent, held, cur, single, first, clock>> /\ Taken' = Taken
         /\ Len(net') = 0 /\ net' = << >> /\ chunk' = net /\ Len(chunk) = 0 /\ Len(cur) = 0
<1>1. /\ UNCHANGED <<sent, held, cur, single, first, clock>>
      /\ net' = << >> /\ chunk' = net /\ chunk = << >> /\ cur = << >>
  BY DEF Read, FlowInv, ReadFlow
<1>2. Len(net') = 0 /\ Len(chunk) = 0 /\ Len(cur) = 0
  BY <1>1
<1> QED BY <1>1, <1>2, Lengths DEF Taken

\* The decoder is closed, and what it holds is the event.
LEMMA CloseMoves ==
  ASSUME TypeInv, FlowInv, CloseDecoder
  PROVE  /\ UNCHANGED <<sent, net, chunk, res, first, clock, broken>> /\ Taken' = Taken
         /\ net = << >> /\ chunk = << >> /\ Len(net) = 0 /\ Len(chunk) = 0 /\ Len(cur) = 0
         /\ cur' = held /\ held' = << >> /\ Len(held') = 0
<1>1. /\ UNCHANGED <<sent, net, chunk, res, first, clock, broken>>
      /\ cur' = held /\ held' = << >> /\ net = << >> /\ chunk = << >> /\ cur = << >>
  BY DEF CloseDecoder, FlowInv, ReadFlow, wire
<1>2. Len(net) = 0 /\ Len(chunk) = 0 /\ Len(cur) = 0 /\ Len(held') = 0
  BY <1>1
<1> QED BY <1>1, <1>2, Lengths DEF Taken

\* No step loses, repeats or moves a line.
LEMMA OrderStep == TypeInv /\ FlowInv /\ OrderInv /\ [Next]_vars => OrderInv'
<1> SUFFICES ASSUME TypeInv, FlowInv, OrderInv, [Next]_vars PROVE OrderInv'
  OBVIOUS
<1>0. /\ Len(sent) \in Nat /\ Len(net) \in Nat /\ Len(chunk) \in Nat /\ Len(held) \in Nat
      /\ Len(cur) \in Nat /\ Taken \in Nat
      /\ Len(sent) = Taken + Len(cur) + Len(held) + Len(chunk) + Len(net)
  BY Lengths DEF OrderInv
<1>1. ASSUME NEW kind \in Kinds, NEW last \in {"yes", "no"}, Send(kind, last) PROVE OrderInv'
  <2>1. /\ Len(sent') = Len(sent) + 1 /\ Len(net') = Len(net) + 1
        /\ \A i \in 1..Len(sent) : sent'[i] = sent[i]
        /\ \A i \in 1..Len(net) : net'[i] = net[i]
        /\ sent'[Len(sent) + 1] = [kind |-> kind, last |-> last, no |-> Len(sent) + 1]
        /\ net'[Len(net) + 1] = sent'[Len(sent) + 1]
        /\ UNCHANGED <<chunk, held, cur>> /\ Taken' = Taken
    BY <1>1, SendSent
  <2>2. \A i \in 1..Len(sent') : i \in 1..Len(sent) \/ i = Len(sent) + 1
    BY <2>1, <1>0
  <2>3. \A i \in 1..Len(sent') : sent'[i].no = i
    BY <2>1, <2>2 DEF OrderInv
  <2>4. \A i \in 1..Len(net') : net'[i] = sent'[Taken + Len(cur) + Len(held) + Len(chunk) + i]
    <3> SUFFICES ASSUME NEW i \in 1..Len(net')
                 PROVE  net'[i] = sent'[Taken + Len(cur) + Len(held) + Len(chunk) + i]
      OBVIOUS
    <3>1. CASE i = Len(net) + 1
      BY <3>1, <2>1, <1>0
    <3>2. CASE i \in 1..Len(net)
      <4>1. Taken + Len(cur) + Len(held) + Len(chunk) + i \in 1..Len(sent)
        BY <3>2, <1>0
      <4> QED BY <4>1, <3>2, <2>1 DEF OrderInv
    <3> QED BY <3>1, <3>2, <2>1, <1>0
  <2>5. /\ \A i \in 1..Len(cur) : Taken + i \in 1..Len(sent)
        /\ \A i \in 1..Len(held) : Taken + Len(cur) + i \in 1..Len(sent)
        /\ \A i \in 1..Len(chunk) : Taken + Len(cur) + Len(held) + i \in 1..Len(sent)
    BY <1>0
  <2> QED BY <2>1, <2>3, <2>4, <2>5, <1>0 DEF OrderInv
<1>2. CASE ConsumeEvent
  <2>1. /\ Len(cur') = Len(cur) - 1 /\ Len(cur) # 0 /\ UNCHANGED <<net, chunk, held, sent>>
        /\ Taken' = Taken + 1 /\ \A i \in 1..Len(cur') : cur'[i] = cur[i + 1]
    BY <1>2, ConsumeMoves
  <2>2. \A i \in 1..Len(cur') : i + 1 \in 1..Len(cur) /\ Taken + (i + 1) = Taken' + i
    BY <2>1, <1>0
  <2>3. \A i \in 1..Len(cur') : cur'[i] = sent'[Taken' + i]
    BY <2>1, <2>2 DEF OrderInv
  <2>4. Taken' \in Nat /\ Taken' + Len(cur') = Taken + Len(cur)
    BY <2>1, <1>0
  <2>5. /\ \A i \in 1..Len(sent') : sent'[i].no = i
        /\ \A i \in 1..Len(held') : held'[i] = sent'[Taken' + Len(cur') + i]
    BY <2>1, <2>4 DEF OrderInv
  <2>6. /\ \A i \in 1..Len(chunk') : chunk'[i] = sent'[Taken' + Len(cur') + Len(held') + i]
    BY <2>1, <2>4 DEF OrderInv
  <2>7. \A i \in 1..Len(net') : net'[i] = sent'[Taken' + Len(cur') + Len(held') + Len(chunk') + i]
    BY <2>1, <2>4 DEF OrderInv
  <2> QED BY <2>3, <2>4, <2>5, <2>6, <2>7 DEF OrderInv
<1>3. CASE TakeLine /\ chunk # << >>
  <2>1. /\ UNCHANGED <<net, sent>> /\ Taken' = Taken /\ Len(cur) = 0 /\ Len(net) = 0
        /\ Len(chunk) # 0 /\ Len(chunk') = Len(chunk) - 1
        /\ \A i \in 1..Len(chunk') : chunk'[i] = chunk[i + 1]
    BY <1>3, TakeMoves
  <2>2. \/ /\ Len(held') = Len(held) + 1 /\ Len(cur') = 0
           /\ \A i \in 1..Len(held') : held'[i] = sent[Taken + i]
        \/ /\ Len(held') = 0 /\ Len(cur') = Len(held) + 1
           /\ \A i \in 1..Len(cur') : cur'[i] = sent[Taken + i]
    BY <1>3, TakeMoves
  <2>3. \A i \in 1..Len(chunk') : chunk'[i] = sent'[Taken' + Len(cur') + Len(held') + i]
    <3> SUFFICES ASSUME NEW i \in 1..Len(chunk')
                 PROVE  chunk'[i] = sent[Taken + Len(cur') + Len(held') + i]
      BY <2>1
    <3>1. Taken + Len(cur) + Len(held) + (i + 1) = Taken + Len(cur') + Len(held') + i
      <4>1. /\ Len(cur') + Len(held') = Len(cur) + Len(held) + 1
            /\ Len(cur') \in Nat /\ Len(held') \in Nat
        BY <2>1, <2>2, <1>0
      <4>2. i \in Int
        BY <2>1, <1>0
      <4> QED BY <4>1, <4>2, <1>0
    <3>2. i + 1 \in 1..Len(chunk)
      BY <2>1, <1>0
    <3> QED BY <3>1, <3>2, <2>1 DEF OrderInv
  <2>4. /\ \A i \in 1..Len(cur') : cur'[i] = sent'[Taken' + i]
        /\ \A i \in 1..Len(held') : held'[i] = sent'[Taken' + Len(cur') + i]
    <3>1. CASE Len(cur') = 0 /\ \A i \in 1..Len(held') : held'[i] = sent[Taken + i]
      <4>1. 1..Len(cur') = {} /\ \A i \in 1..Len(held') : Taken + Len(cur') + i = Taken + i
        BY <3>1, <2>2, <1>0
      <4> QED BY <4>1, <3>1, <2>1
    <3>2. CASE Len(held') = 0 /\ \A i \in 1..Len(cur') : cur'[i] = sent[Taken + i]
      <4>1. 1..Len(held') = {}
        BY <3>2
      <4> QED BY <4>1, <3>2, <2>1
    <3> QED BY <3>1, <3>2, <2>2
  <2>5. 1..Len(net') = {}
    BY <2>1
  <2> QED BY <2>1, <2>3, <2>4, <2>5 DEF OrderInv
<1>4. CASE Read
  <2>1. /\ UNCHANGED <<sent, held, cur>> /\ Taken' = Taken /\ Len(net') = 0 /\ chunk' = net
        /\ Len(chunk) = 0
    BY <1>4, ReadMoves
  <2>2. \A i \in 1..Len(net) : Taken + Len(cur) + Len(held) + Len(chunk) + i
                               = Taken + Len(cur) + Len(held) + i
    BY <2>1, <1>0
  <2>3. 1..Len(net') = {}
    BY <2>1
  <2> QED BY <2>1, <2>2, <2>3 DEF OrderInv
<1>5. CASE CloseDecoder
  <2>1. /\ UNCHANGED <<sent, net, chunk>> /\ Taken' = Taken /\ Len(net) = 0 /\ Len(chunk) = 0
        /\ Len(cur) = 0 /\ cur' = held /\ Len(held') = 0
    BY <1>5, CloseMoves
  <2>2. 1..Len(net') = {} /\ 1..Len(chunk') = {} /\ 1..Len(held') = {}
    BY <2>1
  <2>3. \A i \in 1..Len(held) : Taken + Len(cur) + i = Taken + i
    BY <2>1, <1>0
  <2> QED BY <2>1, <2>2, <2>3 DEF OrderInv
<1>6. CASE Still
  BY <1>6 DEF Still, OrderInv, Taken
<1> QED BY <1>1, <1>2, <1>3, <1>4, <1>5, <1>6, StepCases

\* The steps that send nothing change nothing that is said of what was sent.
LEMMA SentSame ==
  ASSUME sent' = sent
  PROVE  /\ \A j : (EndsDone(j)' <=> EndsDone(j)) /\ (Stops(j)' <=> Stops(j))
         /\ \A j : (Alone(j)' <=> Alone(j)) /\ (Malformed(j)' <=> Malformed(j))
                   /\ (KeptLine(j)' <=> KeptLine(j))
         /\ Counted' = Counted
         /\ \A K : Has(K)' <=> Has(K)
BY DEF EndsDone, Stops, Alone, Malformed, KeptLine, Counted, Has

\* A line that is sent changes nothing that is said of the lines before it: only
\* the last one may turn out not to be alone.
LEMMA SendSame ==
  ASSUME TypeInv, NEW kind \in Kinds, NEW last \in {"yes", "no"}, Send(kind, last)
  PROVE  /\ \A j \in 1..Len(sent) : (EndsDone(j)' <=> EndsDone(j)) /\ (Stops(j)' <=> Stops(j))
         /\ \A j \in 1..Len(sent) : j < Len(sent) \/ sent[j].last = "yes" =>
              /\ Alone(j)' <=> Alone(j)
              /\ Malformed(j)' <=> Malformed(j)
              /\ KeptLine(j)' <=> KeptLine(j)
         /\ \A j \in 1..(Len(sent) + 1) :
              j \in Counted' <=> \/ j \in Counted
                                 \/ j = Len(sent) + 1 /\ \A k \in 1..Len(sent) : ~Stops(k)
         /\ Counted' \subseteq 1..(Len(sent) + 1) /\ Counted \subseteq 1..Len(sent)
<1>1. /\ Len(sent') = Len(sent) + 1 /\ Len(sent) \in Nat
      /\ \A i \in 1..Len(sent) : sent'[i] = sent[i]
  BY SendSent
<1>2. \A j \in 1..Len(sent) : \A k \in 1..j : k \in 1..Len(sent)
  BY <1>1
<1>3. \A j \in 1..Len(sent) : (EndsDone(j)' <=> EndsDone(j)) /\ (Stops(j)' <=> Stops(j))
  BY <1>1, <1>2 DEF EndsDone, Stops
<1>4. ASSUME NEW j \in 1..Len(sent), j < Len(sent) \/ sent[j].last = "yes"
      PROVE  Alone(j)' <=> Alone(j)
  <2>1. j = 1 \/ j - 1 \in 1..Len(sent)
    BY <1>1
  <2>2. j # Len(sent') /\ (j = Len(sent) => sent[j].last = "yes")
    BY <1>1, <1>4
  <2> QED BY <2>1, <2>2, <1>1 DEF Alone
<1>5. ASSUME NEW j \in 1..Len(sent), j < Len(sent) \/ sent[j].last = "yes"
      PROVE  (Malformed(j)' <=> Malformed(j)) /\ (KeptLine(j)' <=> KeptLine(j))
  <2>1. Malformed(j)' <=> Malformed(j)
    BY <1>1, <1>4, <1>5 DEF Malformed
  <2> QED BY <2>1, <1>1 DEF KeptLine
<1>6. ASSUME NEW j \in 1..(Len(sent) + 1)
      PROVE  j \in Counted' <=> \/ j \in Counted
                                \/ j = Len(sent) + 1 /\ \A k \in 1..Len(sent) : ~Stops(k)
  <2>1. j \in Counted' <=> \A k \in 1..(j - 1) : ~Stops(k)'
    BY <1>1 DEF Counted
  <2>2. \A k \in 1..(j - 1) : k \in 1..Len(sent)
    BY <1>1
  <2>3. j \in Counted' <=> \A k \in 1..(j - 1) : ~Stops(k)
    BY <2>1, <2>2, <1>3
  <2>4. CASE j \in 1..Len(sent)
    BY <2>3, <2>4, <1>1 DEF Counted
  <2>5. CASE j = Len(sent) + 1
    <3>1. j \notin 1..Len(sent) /\ 1..(j - 1) = 1..Len(sent)
      BY <2>5, <1>1
    <3> QED BY <3>1, <2>3, <2>5 DEF Counted
  <2> QED BY <2>4, <2>5, <1>1
<1>7. Counted' \subseteq 1..(Len(sent) + 1) /\ Counted \subseteq 1..Len(sent)
  BY <1>1 DEF Counted
<1> QED BY <1>3, <1>4, <1>5, <1>6, <1>7

\* What is left to the decoder is text, unless it raised (Read).
LEMMA CleanStep ==
  TypeInv /\ FlowInv /\ OrderInv /\ CleanInv /\ [Next]_vars => CleanInv'
<1> SUFFICES ASSUME TypeInv, FlowInv, OrderInv, CleanInv, [Next]_vars PROVE CleanInv'
  OBVIOUS
<1>1. ASSUME NEW kind \in Kinds, NEW last \in {"yes", "no"}, Send(kind, last) PROVE CleanInv'
  <2>1. /\ Len(sent') = Len(sent) + 1 /\ Len(net') = Len(net) + 1 /\ broken' = broken
        /\ \A i \in 1..Len(sent) : sent'[i] = sent[i]
    BY <1>1, SendSent
  <2>2. \A i \in 1..(Len(sent') - Len(net')) : i \in 1..(Len(sent) - Len(net)) /\ i \in 1..Len(sent)
    BY <2>1, Lengths
  <2> QED BY <2>1, <2>2 DEF CleanInv
<1>2. CASE ConsumeEvent
  BY <1>2 DEF ConsumeEvent, CleanInv, wire
<1>3. CASE TakeLine /\ chunk # << >>
  BY <1>3 DEF TakeLine, CleanInv, wire
<1>4. CASE Read
  <2>1. CASE ~Decodable(net)
    BY <2>1, <1>4 DEF Read, CleanInv
  <2>2. CASE Decodable(net)
    <3>1. /\ UNCHANGED sent /\ Len(net') = 0 /\ Len(chunk) = 0 /\ Len(cur) = 0 /\ broken' = broken
      BY <1>4, <2>2, ReadMoves DEF Read
    <3> SUFFICES ASSUME broken = "no", NEW i \in 1..Len(sent) PROVE sent[i].kind # "bytes"
      BY <3>1, Lengths DEF CleanInv
    <3>2. CASE i \in 1..(Len(sent) - Len(net))
      BY <3>2 DEF CleanInv
    <3>3. CASE i > Len(sent) - Len(net)
      <4> DEFINE m == i - (Len(sent) - Len(net))
      <4>1. m \in 1..Len(net) /\ Taken + Len(cur) + Len(held) + Len(chunk) + m = i
        BY <3>3, Lengths
      <4>2. DOMAIN net = 1..Len(net)
        BY DEF TypeInv
      <4> HIDE DEF m
      <4>3. net[m] = sent[i]
        BY <4>1 DEF OrderInv
      <4> QED BY <4>1, <4>2, <4>3, <2>2 DEF Decodable
    <3> QED BY <3>2, <3>3, Lengths
  <2> QED BY <2>1, <2>2
<1>5. CASE CloseDecoder
  BY <1>5 DEF CloseDecoder, CleanInv, wire
<1>6. CASE /\ \/ CloseResponse \/ Wait \/ Open \/ ReadFails \/ (TakeLine /\ chunk = << >>)
              \/ EventConsumed \/ Return \/ Returned \/ UNCHANGED vars
           /\ Still
  BY <1>6 DEF CloseResponse, Wait, Open, ReadFails, TakeLine, EventConsumed, Return, Returned, vars,
              Still, CleanInv
<1> QED BY <1>1, <1>2, <1>3, <1>4, <1>5, <1>6, StepCases

(***************************************************************************)
(* The points of the program.                                              *)
(***************************************************************************)
\* The lines that count end at line n if it is the first at which the client
\* stops, or the last one.
LEMMA Cut ==
  ASSUME TypeInv, NEW n \in 0..Len(sent), \A j \in 1..(n - 1) : ~Stops(j),
         n = Len(sent) \/ (n # 0 /\ Stops(n))
  PROVE  Counted = 1..n
<1>0. Len(sent) \in Nat /\ n \in Nat /\ n <= Len(sent)
  BY Lengths
<1>1. ASSUME NEW i \in 1..n PROVE i \in Counted
  <2>1. i \in 1..Len(sent) /\ \A j \in 1..(i - 1) : j \in 1..(n - 1)
    BY <1>0
  <2> QED BY <2>1 DEF Counted
<1>2. ASSUME NEW i \in Counted PROVE i \in 1..n
  <2>1. i \in 1..Len(sent) /\ \A j \in 1..(i - 1) : ~Stops(j)
    BY DEF Counted
  <2>2. ASSUME i > n PROVE FALSE
    <3>1. n # 0 /\ Stops(n)
      BY <2>1, <2>2, <1>0
    <3>2. n \in 1..(i - 1)
      BY <3>1, <2>1, <2>2, <1>0
    <3> QED BY <3>1, <3>2, <2>1
  <2> QED BY <2>1, <2>2, <1>0
<1> QED BY <1>1, <1>2

\* Before the event in the decoder there is no [DONE]: none was consumed.
LEMMA NoDoneYet ==
  ASSUME TypeInv, FlowInv, OrderInv, ResultInv, pc \in {"read", "take"}
  PROVE  \A j \in 1..(Taken + Len(held)) : ~EndsDone(j)
<1>1. /\ Taken \in Nat /\ Len(held) \in Nat /\ ~Took({"done"}) /\ Len(cur) = 0
      /\ \A i \in 1..Len(held) : held[i].last = "no"
  BY Lengths DEF FlowInv, ReadFlow, OrderInv, ResultInv
<1> SUFFICES ASSUME NEW j \in 1..(Taken + Len(held)) PROVE ~EndsDone(j)
  OBVIOUS
<1>2. CASE j \in 1..Taken
  <2>1. \A k \in 1..j : k \in 1..Taken
    BY <1>1, <1>2
  <2> QED BY <2>1, <1>1 DEF EndsDone, Took
<1>3. CASE j > Taken
  <2> DEFINE m == j - Taken
  <2>1. m \in 1..Len(held) /\ Taken + Len(cur) + m = j
    BY <1>1, <1>3
  <2> HIDE DEF m
  <2>2. sent[j].last = "no"
    BY <2>1, <1>1 DEF OrderInv
  <2> QED BY <2>2 DEF EndsDone
<1> QED BY <1>1, <1>2, <1>3

\* The server sends a line.
LEMMA FlowSend ==
  ASSUME TypeInv, FlowInv, OrderInv,
         NEW kind \in Kinds, NEW last \in {"yes", "no"}, Send(kind, last)
  PROVE  FlowInv'
<1>1. pc = "read" /\ pc' = "read"
  BY DEF Send
<1>2. /\ UNCHANGED <<chunk, held, cur, res>> /\ Taken' = Taken
      /\ \A i \in 1..Len(sent) : sent'[i] = sent[i]
  BY SendSent
<1>3. \A i \in 1..Taken : i \in 1..Len(sent)
  BY Lengths DEF OrderInv
<1>4. Taken = 0 \/ Taken \in 1..Taken
  BY DEF OrderInv
<1>5. ReadFlow'
  BY <1>1, <1>2, <1>3, <1>4 DEF FlowInv, ReadFlow
<1>6. RaiseFlow'
  BY <1>1, <1>2, <1>3 DEF FlowInv, RaiseFlow
<1> QED BY <1>1, <1>5, <1>6 DEF FlowInv, OpenFlow, LineFlow, LastFlow, AloneFlow, FinishFlow,
                                CountFlow, Complete

\* A line of the block is taken.
LEMMA FlowTake ==
  ASSUME TypeInv, FlowInv, OrderInv, ResultInv, TakeLine
  PROVE  FlowInv'
<1>1. CASE chunk = << >>
  <2>1. /\ pc = "take" /\ pc' = "read" /\ UNCHANGED <<net, chunk, held, cur, res, sent>>
        /\ Taken' = Taken
    BY <1>1 DEF TakeLine, wire, Taken
  <2>2. ReadFlow' /\ RaiseFlow'
    BY <2>1, <1>1 DEF FlowInv, ReadFlow, RaiseFlow
  <2> QED BY <2>1, <2>2 DEF FlowInv, OpenFlow, LineFlow, LastFlow, AloneFlow, FinishFlow,
                            CountFlow, Complete
<1>2. CASE chunk # << >>
  <2> DEFINE l == sent[Taken + Len(held) + 1]
  <2>1. /\ UNCHANGED <<net, sent, res>> /\ Taken' = Taken /\ Len(cur) = 0 /\ pc = "take"
        /\ Taken + Len(held) + 1 \in 1..Len(sent) /\ net = << >>
    BY <1>2, TakeMoves DEF FlowInv, ReadFlow
  <2>2. /\ Taken \in Nat /\ Len(held) \in Nat
        /\ Taken = 0 \/ sent[Taken].last = "yes"
        /\ \A i \in 1..Len(held) : held[i].last = "no"
        /\ \A i \in 1..Len(held) : held[i] = sent[Taken + i]
    <3>1. \A i \in 1..Len(held) : Taken + Len(cur) + i = Taken + i
      BY <2>1, Lengths
    <3> QED BY <3>1, <2>1, Lengths DEF FlowInv, ReadFlow, OrderInv
  <2>3. RaiseFlow'
    BY <2>1 DEF FlowInv, RaiseFlow
  <2>4. CASE /\ l.last = "no" /\ Len(held') = Len(held) + 1 /\ Len(cur') = 0
             /\ \A i \in 1..Len(held') : held'[i] = sent[Taken + i]
             /\ pc' = "take" /\ single' = single
    <3>1. cur' = << >>
      BY <1>2, <2>4 DEF TakeLine, FlowInv, ReadFlow
    <3>2. ASSUME NEW i \in 1..Len(held') PROVE held'[i].last = "no"
      <4>1. i \in 1..Len(held) \/ Taken + i = Taken + Len(held) + 1
        BY <2>2, <2>4
      <4> QED BY <4>1, <2>2, <2>4
    <3>3. ReadFlow'
      BY <3>1, <3>2, <2>1, <2>2, <2>4 DEF FlowInv, ReadFlow
    <3> QED BY <3>3, <2>3, <2>4 DEF FlowInv, OpenFlow, LineFlow, LastFlow, AloneFlow, FinishFlow,
                                    CountFlow, Complete
  <2>5. CASE /\ l.last = "yes" /\ held' = << >> /\ Len(held') = 0 /\ Len(cur') = Len(held) + 1
             /\ \A i \in 1..Len(cur') : cur'[i] = sent[Taken + i]
             /\ pc' = "line" /\ single' = IF Len(held) = 0 THEN "yes" ELSE "no"
    <3>1. Taken + Len(cur') = Taken + Len(held) + 1 /\ (Taken + Len(cur')) - 1 = Taken + Len(held)
          /\ Taken + Len(cur') # 0
      BY <2>2, <2>5
    <3>2. \A i \in 1..(Len(cur') - 1) : cur'[i].last = "no"
      <4>1. \A i \in 1..(Len(cur') - 1) : i \in 1..Len(held) /\ i \in 1..Len(cur')
        BY <2>2, <2>5
      <4> QED BY <4>1, <2>2, <2>5
    <3>3. \A j \in 1..(Taken + Len(held)) : ~EndsDone(j)'
      BY <2>1, NoDoneYet, SentSame
    <3>4. LineFlow'
      BY <3>1, <3>2, <3>3, <2>1, <2>5 DEF LineFlow
    <3>5. single' = "yes" <=> Alone(Taken + 1)
      <4>1. Taken + 1 = 1 \/ sent[(Taken + 1) - 1].last = "yes"
        BY <2>2
      <4>2. CASE Len(held) = 0
        <5>1. sent[Taken + 1].last = "yes"
          BY <4>2, <2>2, <2>5
        <5>2. Alone(Taken + 1)
          BY <5>1, <4>1 DEF Alone
        <5> QED BY <5>2, <4>2, <2>5
      <4>3. CASE Len(held) # 0
        <5>1. 1 \in 1..Len(held) /\ Taken + 1 # Len(sent)
          BY <4>3, <2>1, <2>2, Lengths
        <5>2. sent[Taken + 1].last = "no"
          BY <5>1, <2>2
        <5> QED BY <5>1, <5>2, <4>3, <2>5 DEF Alone
      <4> QED BY <4>2, <4>3
    <3>6. AloneFlow'
      BY <3>5, <2>1, SentSame DEF AloneFlow
    <3> QED BY <3>4, <3>6, <2>3, <2>5 DEF FlowInv, OpenFlow, ReadFlow, LastFlow, FinishFlow,
                                          CountFlow, Complete
  <2>6. \/ /\ l.last = "no" /\ Len(held') = Len(held) + 1 /\ Len(cur') = 0
           /\ \A i \in 1..Len(held') : held'[i] = sent[Taken + i]
           /\ pc' = "take" /\ single' = single
        \/ /\ l.last = "yes" /\ held' = << >> /\ Len(held') = 0 /\ Len(cur') = Len(held) + 1
           /\ \A i \in 1..Len(cur') : cur'[i] = sent[Taken + i]
           /\ pc' = "line" /\ single' = IF Len(held) = 0 THEN "yes" ELSE "no"
    BY <1>2, TakeMoves
  <2> QED BY <2>4, <2>5, <2>6
<1> QED BY <1>1, <1>2

\* The response is at its end, and the decoder gives its last event.
LEMMA FlowClose ==
  ASSUME TypeInv, FlowInv, OrderInv, ResultInv, CloseDecoder
  PROVE  FlowInv'
<1>1. /\ UNCHANGED <<sent, net, chunk>> /\ Taken' = Taken
      /\ net = << >> /\ chunk = << >> /\ Len(net) = 0 /\ Len(chunk) = 0 /\ Len(cur) = 0
      /\ cur' = held /\ held' = << >> /\ pc = "read" /\ pc' = "last"
      /\ single' = IF Len(held) = 1 THEN "yes" ELSE "no"
  BY CloseMoves DEF CloseDecoder
<1>2. /\ Taken \in Nat /\ Len(held) \in Nat /\ Len(sent) = Taken + Len(held)
      /\ Taken = 0 \/ sent[Taken].last = "yes"
      /\ held \in Seq(Lines)
      /\ \A i \in 1..Len(held) : held[i].last = "no"
  BY <1>1, Lengths DEF FlowInv, ReadFlow, OrderInv, TypeInv
<1>3. LastFlow'
  BY <1>1, <1>2, NoDoneYet, SentSame DEF LastFlow
<1>4. RaiseFlow'
  BY <1>1 DEF FlowInv, RaiseFlow
<1>5. ASSUME held # << >> PROVE single' = "yes" <=> Alone(Taken + 1)
  <2>1. Len(held) # 0 /\ (Taken + 1 = 1 \/ sent[(Taken + 1) - 1].last = "yes")
    BY <1>2, <1>5
  <2>2. CASE Len(held) = 1
    BY <2>1, <2>2, <1>1, <1>2 DEF Alone
  <2>3. CASE Len(held) # 1
    <3>0. Len(held) \in Nat /\ Len(held) > 1 /\ Len(sent) = Taken + Len(held) /\ Taken \in Nat
      <4>1. \A n \in Nat : n # 0 /\ n # 1 => n > 1
        OBVIOUS
      <4>2. Len(held) \in Nat /\ Len(sent) = Taken + Len(held) /\ Taken \in Nat
        BY <1>2
      <4>3. Len(held) # 0
        BY <2>1
      <4> QED BY <4>1, <4>2, <4>3, <2>3
    <3>1. 1 \in 1..Len(held) /\ Taken + 1 # Taken + Len(held) /\ Taken + 0 + 1 = Taken + 1
      BY <3>0
    <3>2. sent[Taken + 1].last = "no"
      BY <3>1, <1>1, <1>2 DEF OrderInv
    <3> QED BY <3>0, <3>1, <3>2, <2>3, <1>1 DEF Alone
  <2> QED BY <2>2, <2>3
<1>6. AloneFlow'
  BY <1>1, <1>5, SentSame DEF AloneFlow
<1> QED BY <1>1, <1>3, <1>4, <1>6 DEF FlowInv, OpenFlow, ReadFlow, LineFlow, FinishFlow,
                                      CountFlow, Complete

\* A line of the event is consumed.
LEMMA FlowConsume ==
  ASSUME TypeInv, FlowInv, OrderInv, ConsumeEvent
  PROVE  FlowInv'
<1>1. /\ Len(cur) \in Nat \ {0} /\ Len(cur') = Len(cur) - 1
      /\ UNCHANGED <<net, chunk, held, sent, single>> /\ Taken' = Taken + 1
      /\ \A i \in 1..Len(cur') : cur'[i] = cur[i + 1]
      /\ Head(cur) = sent[Taken + 1] /\ cur[1] = sent[Taken + 1] /\ Taken + 1 \in 1..Len(sent)
  BY ConsumeMoves DEF ConsumeEvent
<1>2. /\ Taken \in Nat /\ Len(sent) \in Nat /\ Len(cur') \in Nat
      /\ Taken + Len(cur) <= Len(sent)
  BY <1>1, Lengths DEF OrderInv
<1>3. /\ pc \in {"line", "last"} /\ pc' \in {pc, "done"}
      /\ pc' = "done" <=> sent[Taken + 1].kind = "raises"
  BY <1>1 DEF ConsumeEvent
<1>4. \A i \in 1..Taken : sent[i].kind # "raises"
  BY <1>3 DEF FlowInv, RaiseFlow
<1>5. \A i \in 1..Taken' : i \in 1..Taken \/ i = Taken + 1
  BY <1>1, <1>2
<1>6. RaiseFlow'
  BY <1>1, <1>3, <1>4, <1>5 DEF RaiseFlow
<1>7. \A j \in 1..Taken : ~EndsDone(j)
  <2>1. CASE pc = "line"
    <3>1. \A j \in 1..Taken : j \in 1..((Taken + Len(cur)) - 1)
      BY <1>1, <1>2
    <3> QED BY <2>1, <3>1 DEF FlowInv, LineFlow
  <2>2. CASE pc = "last"
    <3>1. \A j \in 1..Taken : j \in 1..Len(sent)
      BY <1>1, <1>2
    <3> QED BY <2>2, <3>1 DEF FlowInv, LastFlow
  <2> QED BY <2>1, <2>2, <1>3
<1>8. CountFlow'
  <2> SUFFICES ASSUME pc' = "done" PROVE Counted = 1..(Taken + 1)
    BY <1>1, SentSame DEF CountFlow, Complete
  <2>1. Stops(Taken + 1) /\ \A j \in 1..((Taken + 1) - 1) : ~Stops(j)
    <3>1. 1..((Taken + 1) - 1) = 1..Taken
      BY <1>2
    <3> QED BY <3>1, <1>3, <1>4, <1>7 DEF Stops
  <2>2. Taken + 1 \in 0..Len(sent) /\ Taken + 1 # 0
    BY <1>1, <1>2
  <2> QED BY <2>1, <2>2, Cut
<1>9. LineFlow'
  <2> SUFFICES ASSUME pc = "line", pc' = "line" PROVE LineFlow'
    BY <1>3 DEF LineFlow
  <2>1. Taken' + Len(cur') = Taken + Len(cur)
    BY <1>1, <1>2
  <2>2. \A i \in 1..(Len(cur') - 1) : i \in 1..Len(cur') /\ i + 1 \in 1..(Len(cur) - 1)
    BY <1>1, <1>2
  <2>3. \A i \in 1..(Len(cur') - 1) : cur'[i].last = "no"
    BY <2>2, <1>1 DEF FlowInv, LineFlow
  <2>4. \A j \in 1..((Taken + Len(cur)) - 1) : ~EndsDone(j)'
    BY <1>1, SentSame DEF FlowInv, LineFlow
  <2>5. /\ Taken + Len(cur) # 0 /\ sent[Taken + Len(cur)].last = "yes"
        /\ net = << >> /\ held = << >>
    BY DEF FlowInv, LineFlow
  <2>6. net' = << >> /\ held' = << >> /\ sent' = sent
    BY <1>1, <2>5
  <2> QED BY <2>1, <2>3, <2>4, <2>5, <2>6 DEF LineFlow
<1>10. LastFlow'
  <2> SUFFICES ASSUME pc = "last", pc' = "last" PROVE LastFlow'
    BY <1>3 DEF LastFlow
  <2>1. \A i \in 1..Len(cur') : i + 1 \in 1..Len(cur)
    BY <1>1, <1>2
  <2>2. \A i \in 1..Len(cur') : cur'[i].last = "no"
    BY <2>1, <1>1 DEF FlowInv, LastFlow
  <2>3. \A j \in 1..Len(sent) : ~EndsDone(j)'
    BY <1>1, SentSame DEF FlowInv, LastFlow
  <2> QED BY <2>2, <2>3, <1>1 DEF FlowInv, LastFlow
<1>11. AloneFlow'
  <2> SUFFICES ASSUME cur' # << >> PROVE single = "no" /\ ~Alone(Taken + 1 + 1)
    BY <1>1, SentSame DEF AloneFlow
  <2>1. cur' \in Seq(Lines)
    BY DEF ConsumeEvent, TypeInv
  <2>2. Len(cur') # 0
    BY <2>1
  <2>3. 1 \in 1..Len(cur) /\ 1 \in 1..(Len(cur) - 1) /\ Taken + 1 # Len(sent)
    BY <2>2, <1>1, <1>2
  <2>4. sent[Taken + 1].last = "no"
    BY <2>3, <1>1, <1>3 DEF FlowInv, LineFlow, LastFlow
  <2>5. cur # << >> /\ single \in {"yes", "no"}
    BY DEF ConsumeEvent, TypeInv
  <2>6. ~Alone(Taken + 1)
    BY <2>3, <2>4 DEF Alone
  <2>7. Taken + 1 + 1 # 1 /\ (Taken + 1 + 1) - 1 = Taken + 1
    BY <1>2
  <2>8. ~Alone(Taken + 1 + 1)
    BY <2>4, <2>7 DEF Alone
  <2> QED BY <2>5, <2>6, <2>8, <1>3 DEF FlowInv, AloneFlow
<1> QED BY <1>3, <1>6, <1>8, <1>9, <1>10, <1>11 DEF FlowInv, OpenFlow, ReadFlow, FinishFlow

\* The event is consumed.
LEMMA FlowConsumed ==
  ASSUME TypeInv, FlowInv, OrderInv, ResultInv, EventConsumed
  PROVE  FlowInv'
<1>1. /\ UNCHANGED <<net, chunk, held, cur, sent, res>> /\ Taken' = Taken /\ Len(cur) = 0
      /\ Taken \in Nat /\ cur = << >> /\ pc \in {"line", "last"}
      /\ pc' = IF pc = "last" \/ res.saw_done = "yes" THEN "finish" ELSE "take"
  BY Lengths DEF EventConsumed, wire, Taken, OrderInv
<1>2. RaiseFlow'
  BY <1>1 DEF FlowInv, RaiseFlow
<1>3. CASE pc = "last"
  <2>1. Taken = Len(sent) /\ \A j \in 1..(Taken - 1) : j \in 1..Len(sent)
    BY <1>1, <1>3, Lengths DEF FlowInv, LastFlow
  <2>2. FinishFlow'
    BY <2>1, <1>1, <1>3, SentSame DEF FlowInv, LastFlow, FinishFlow
  <2> QED BY <2>2, <1>1, <1>2, <1>3 DEF FlowInv, OpenFlow, ReadFlow, LineFlow, LastFlow, AloneFlow,
                                        CountFlow, Complete
<1>4. CASE pc = "line" /\ res.saw_done = "yes"
  <2>1. Taken + Len(cur) = Taken
    BY <1>1
  <2>2. Taken # 0 /\ sent[Taken].last = "yes" /\ Took({"done"})
        /\ \A j \in 1..(Taken - 1) : ~EndsDone(j)
    BY <2>1, <1>4 DEF FlowInv, LineFlow, ResultInv
  <2>3. EndsDone(Taken)
    BY <2>2 DEF EndsDone, Took
  <2>4. FinishFlow'
    BY <2>2, <2>3, <1>1, <1>4, SentSame DEF FinishFlow
  <2> QED BY <2>4, <1>1, <1>2, <1>4 DEF FlowInv, OpenFlow, ReadFlow, LineFlow, LastFlow, AloneFlow,
                                        CountFlow, Complete
<1>5. CASE pc = "line" /\ res.saw_done # "yes"
  <2>1. Taken + Len(cur) = Taken
    BY <1>1
  <2>2. sent[Taken].last = "yes" /\ held = << >> /\ net = << >>
    BY <2>1, <1>5 DEF FlowInv, LineFlow
  <2>3. 1..Len(held) = {} /\ res.saw_done = "no"
    BY <2>2, <1>5, Lengths DEF TypeInv, Results
  <2>4. ReadFlow'
    BY <2>2, <2>3, <1>1, <1>5 DEF ReadFlow
  <2> QED BY <2>4, <1>1, <1>2, <1>5 DEF FlowInv, OpenFlow, LineFlow, LastFlow, AloneFlow, FinishFlow,
                                        CountFlow, Complete
<1> QED BY <1>1, <1>3, <1>4, <1>5

\* The request returns.
LEMMA FlowReturn ==
  ASSUME TypeInv, FlowInv, OrderInv, Return
  PROVE  FlowInv' /\ Counted = 1..Taken
<1>1. pc = "finish" /\ pc' = "done" /\ sent' = sent /\ Taken' = Taken
  BY DEF Return, Fail, wire, Taken
<1>2. /\ Taken \in 0..Len(sent)
  BY Lengths DEF OrderInv
<1>3. \A j \in 1..(Taken - 1) : j \in 1..Taken
  BY <1>2, Lengths
<1>4. /\ \A j \in 1..(Taken - 1) : ~Stops(j)
      /\ Taken = Len(sent) \/ (Taken # 0 /\ Stops(Taken))
  BY <1>1, <1>3 DEF FlowInv, FinishFlow, RaiseFlow, Stops
<1>5. Counted = 1..Taken
  BY <1>2, <1>4, Cut
<1>6. CountFlow'
  BY <1>1, <1>5, SentSame DEF CountFlow
<1> QED BY <1>1, <1>5, <1>6 DEF FlowInv, OpenFlow, ReadFlow, LineFlow, LastFlow, AloneFlow, RaiseFlow,
                                FinishFlow

\* Every step goes from one point of the program to another.
LEMMA FlowStep ==
  TypeInv /\ FlowInv /\ OrderInv /\ ResultInv /\ [Next]_vars => FlowInv'
<1> SUFFICES ASSUME TypeInv, FlowInv, OrderInv, ResultInv, [Next]_vars PROVE FlowInv'
  OBVIOUS
<1>1. ASSUME NEW kind \in Kinds, NEW last \in {"yes", "no"}, Send(kind, last) PROVE FlowInv'
  BY <1>1, FlowSend
<1>2. CASE CloseResponse \/ Wait
  <2>1. UNCHANGED <<pc, net, chunk, held, cur, single, res, sent, first, broken>> /\ Taken' = Taken
        /\ pc = "read"
    BY <1>2 DEF CloseResponse, Wait, Taken
  <2>2. ReadFlow' /\ RaiseFlow'
    BY <2>1 DEF FlowInv, ReadFlow, RaiseFlow
  <2> QED BY <2>1, <2>2 DEF FlowInv, OpenFlow, LineFlow, LastFlow, AloneFlow, FinishFlow,
                            CountFlow, Complete
<1>3. CASE Open
  <2>1. /\ pc = "open" /\ UNCHANGED <<net, chunk, held, cur, sent>> /\ Taken' = Taken
        /\ net = << >> /\ chunk = << >> /\ held = << >> /\ cur = << >> /\ sent = << >>
    BY <1>3 DEF FlowInv, OpenFlow, Open, wire, Taken
  <2>2. Taken = 0 /\ 1..Len(held) = {}
    BY <2>1, Lengths DEF TypeInv
  <2>3. CASE pc' = "read" /\ res' = [res EXCEPT !.http_status = "ok"]
    <3>1. res'.saw_done = "no"
      BY <2>1, <2>3 DEF FlowInv, OpenFlow, StreamResult
    <3>2. ReadFlow' /\ RaiseFlow'
      BY <3>1, <2>1, <2>2, <2>3 DEF ReadFlow, RaiseFlow
    <3> QED BY <3>2, <2>3 DEF FlowInv, OpenFlow, LineFlow, LastFlow, AloneFlow, FinishFlow,
                              CountFlow, Complete
  <2>4. CASE pc' = "done"
    <3>1. res'.http_status # "ok"
      <4>1. res.http_status = "none" /\ res \in Results
        BY <2>1 DEF FlowInv, OpenFlow, StreamResult, TypeInv
      <4>2. res'.http_status = "error" \/ res'.http_status = res.http_status
        BY <1>3, <2>4, <4>1 DEF Open, Results
      <4> QED BY <4>1, <4>2
    <3> QED BY <3>1, <2>4 DEF FlowInv, OpenFlow, ReadFlow, LineFlow, LastFlow, AloneFlow, RaiseFlow,
                              FinishFlow, CountFlow, Complete
  <2> QED BY <1>3, <2>3, <2>4 DEF Open
<1>4. CASE ReadFails \/ (Read /\ ~Decodable(net))
  <2>1. pc' = "done" /\ broken' = "yes"
    BY <1>4 DEF ReadFails, Read, Fail
  <2> QED BY <2>1 DEF FlowInv, OpenFlow, ReadFlow, LineFlow, LastFlow, AloneFlow, RaiseFlow,
                      FinishFlow, CountFlow, Complete
<1>5. CASE Read /\ Decodable(net)
  <2>1. /\ UNCHANGED <<sent, held, cur, res>> /\ Taken' = Taken /\ net' = << >>
        /\ pc = "read" /\ pc' = "take"
    BY <1>5, ReadMoves DEF Read
  <2>2. ReadFlow' /\ RaiseFlow'
    BY <2>1 DEF FlowInv, ReadFlow, RaiseFlow
  <2> QED BY <2>1, <2>2 DEF FlowInv, OpenFlow, LineFlow, LastFlow, AloneFlow, FinishFlow,
                            CountFlow, Complete
<1>6. CASE TakeLine
  BY <1>6, FlowTake
<1>7. CASE CloseDecoder
  BY <1>7, FlowClose
<1>8. CASE ConsumeEvent
  BY <1>8, FlowConsume
<1>9. CASE EventConsumed
  BY <1>9, FlowConsumed
<1>10. CASE Return
  BY <1>10, FlowReturn
<1>11. CASE UNCHANGED vars
  BY <1>11, SentSame DEF vars, FlowInv, OpenFlow, ReadFlow, LineFlow, LastFlow, AloneFlow, RaiseFlow,
                   FinishFlow, CountFlow, Complete, Taken
<1>12. CASE Returned
  BY <1>12, <1>11 DEF Returned
<1> QED BY <1>1, <1>2, <1>3, <1>4, <1>5, <1>6, <1>7, <1>8, <1>9, <1>10, <1>11, <1>12
        DEF Next, Server, Client

(***************************************************************************)
(* The result.                                                             *)
(***************************************************************************)
\* The other steps than ConsumeEvent leave alone what was consumed.
LEMMA QuietStep ==
  ASSUME TypeInv, FlowInv, OrderInv, [Next]_vars, ~ConsumeEvent
  PROVE  /\ Taken' = Taken /\ Taken \in Nat
         /\ \A i \in 1..Taken : /\ sent'[i] = sent[i]
                                /\ Malformed(i)' <=> Malformed(i)
                                /\ KeptLine(i)' <=> KeptLine(i)
         /\ \A K : Took(K)' <=> Took(K)
<1>0. Taken \in Nat
  BY DEF OrderInv
<1>1. /\ Taken' = Taken
      /\ \A i \in 1..Taken : /\ sent'[i] = sent[i]
                             /\ Malformed(i)' <=> Malformed(i)
                             /\ KeptLine(i)' <=> KeptLine(i)
  <2>1. ASSUME NEW kind \in Kinds, NEW last \in {"yes", "no"}, Send(kind, last) PROVE <1>1!:
    <3>1. /\ Taken' = Taken /\ pc = "read" /\ \A i \in 1..Len(sent) : sent'[i] = sent[i]
      BY <2>1, SendSent DEF Send
    <3>2. \A i \in 1..Taken : i \in 1..Len(sent) /\ (i < Len(sent) \/ sent[i].last = "yes")
      <4> SUFFICES ASSUME NEW i \in 1..Taken
                   PROVE  i \in 1..Len(sent) /\ (i < Len(sent) \/ sent[i].last = "yes")
        OBVIOUS
      <4>1. Taken # 0 /\ Taken <= Len(sent) /\ Len(sent) \in Nat
        BY <1>0, Lengths
      <4>2. sent[Taken].last = "yes"
        BY <4>1, <3>1 DEF FlowInv, ReadFlow
      <4>3. i = Taken \/ i < Len(sent)
        BY <4>1, <1>0
      <4>4. i \in 1..Len(sent)
        BY <4>1, <1>0
      <4> QED BY <4>2, <4>3, <4>4
    <3> QED BY <2>1, <3>1, <3>2, SendSame
  <2>2. CASE TakeLine /\ chunk # << >>
    BY <2>2, TakeMoves, SentSame
  <2>3. CASE Read
    BY <2>3, ReadMoves, SentSame
  <2>4. CASE CloseDecoder
    BY <2>4, CloseMoves, SentSame
  <2>5. CASE Still
    <3>1. Taken' = Taken /\ sent' = sent
      BY <2>5 DEF Still, Taken
    <3> QED BY <3>1, SentSame
  <2> QED BY <2>1, <2>2, <2>3, <2>4, <2>5, StepCases
<1>2. \A K : Took(K)' <=> Took(K)
  BY <1>1 DEF Took
<1> QED BY <1>0, <1>1, <1>2

\* They change no field of the result but error and http_status.
SameEvents == /\ res'.saw_done = res.saw_done /\ res'.usage = res.usage
              /\ res'.finish_reason = res.finish_reason /\ res'.content = res.content
              /\ res'.ttft = res.ttft /\ res'.raw_events = res.raw_events
LEMMA QuietResult ==
  ASSUME TypeInv, [Next]_vars, ~ConsumeEvent
  PROVE  SameEvents
<1> DEFINE Events(r) == <<r.saw_done, r.usage, r.finish_reason, r.content, r.ttft, r.raw_events>>
<1>0. SameEvents <=> Events(res') = Events(res)
  BY DEF SameEvents
<1>1. \A e : Events([res EXCEPT !.error = e]) = Events(res)
  BY DEF TypeInv, Results
<1>2. CASE Open
  <2>1. Events([res EXCEPT !.http_status = "error", !.error = "http_status"]) = Events(res)
    BY DEF TypeInv, Results
  <2>2. Events([res EXCEPT !.http_status = "ok"]) = Events(res)
    BY DEF TypeInv, Results
  <2> HIDE DEF Events
  <2>3. \/ res' = [res EXCEPT !.http_status = "ok"]
        \/ res' = [res EXCEPT !.http_status = "error", !.error = "http_status"]
        \/ \E error \in {"timeout", "transport"} : res' = [res EXCEPT !.error = error]
    BY <1>2 DEF Open
  <2>4. Events(res') = Events(res)
    <3>1. ASSUME NEW error, res' = [res EXCEPT !.error = error] PROVE Events(res') = Events(res)
      BY <3>1, <1>1
    <3> QED BY <2>1, <2>2, <2>3, <3>1
  <2> QED BY <1>0, <2>4
<1> HIDE DEF Events
<1>3. CASE Read
  BY <1>0, <1>1, <1>3 DEF Read, Fail
<1>4. CASE ReadFails
  BY <1>0, <1>1, <1>4 DEF ReadFails, Fail
<1>5. CASE Return
  BY <1>0, <1>1, <1>5 DEF Return, Fail
<1>6. ASSUME res' = res PROVE SameEvents
  BY <1>6 DEF SameEvents
<1>7. CASE CloseResponse \/ Wait \/ TakeLine \/ CloseDecoder \/ EventConsumed \/ Returned \/ UNCHANGED vars
  BY <1>6, <1>7 DEF CloseResponse, Wait, TakeLine, CloseDecoder, EventConsumed, Returned, vars
<1>8. ASSUME NEW kind \in Kinds, NEW last \in {"yes", "no"}, Send(kind, last) PROVE SameEvents
  BY <1>6, <1>8 DEF Send
<1> QED BY <1>2, <1>3, <1>4, <1>5, <1>7, <1>8 DEF Next, Server, Client

\* ConsumeEvent adds line Taken + 1 to what was consumed, and says in the result
\* what it is.
LEMMA ConsumeResult ==
  ASSUME TypeInv, FlowInv, OrderInv, ConsumeEvent, NEW line, line = sent[Taken + 1]
  PROVE  /\ line \in Lines /\ line.no = Taken + 1 /\ Taken \in Nat /\ Taken' = Taken + 1
         /\ sent' = sent /\ Taken + 1 \in 1..Len(sent)
         /\ \A K : Took(K)' <=> Took(K) \/ line.kind \in K
         /\ \A i : i \in 1..Taken' <=> i \in 1..Taken \/ i = Taken + 1
         /\ Malformed(Taken + 1) <=> Unparseable(line.kind, single)
         /\ res'.saw_done = IF line.kind = "done" THEN "yes" ELSE res.saw_done
         /\ res'.usage = IF line.kind = "usage" THEN "valid" ELSE res.usage
         /\ res'.content = IF line.kind = "content" THEN "some" ELSE res.content
         /\ res'.finish_reason = Finish(res, line.kind)
         /\ res'.ttft = Ttft(res, line.kind)
         /\ res'.raw_events = RawEvents(res, line, single)
         /\ res'.http_status = res.http_status
         /\ res'.error = IF line.kind = "raises" THEN "stream_format"
                         ELSE EventError(res, line.kind, single)
         /\ pc' = IF line.kind = "raises" THEN "done" ELSE pc
         /\ pc \in {"line", "last"} /\ UNCHANGED <<broken, first, clock>>
         /\ \A j \in 1..Taken : ~Stops(j)
<1>1. /\ line \in Lines /\ line = Head(cur) /\ Taken' = Taken + 1 /\ sent' = sent
      /\ Taken + 1 \in 1..Len(sent) /\ Len(cur) \in Nat \ {0}
  BY ConsumeMoves
<1>2. Taken \in Nat /\ line.no = Taken + 1
  BY <1>1 DEF OrderInv
<1>3. \A i : i \in 1..Taken' <=> i \in 1..Taken \/ i = Taken + 1
  BY <1>1, <1>2
<1>4. \A K : Took(K)' <=> Took(K) \/ line.kind \in K
  <2>1. \A K : Took(K)' <=> \E i \in 1..Taken' : sent[i].kind \in K
    BY <1>1 DEF Took
  <2> QED BY <2>1, <1>3 DEF Took
<1>5. pc \in {"line", "last"} /\ cur # << >>
  BY DEF ConsumeEvent
<1>6. Malformed(Taken + 1) <=> Unparseable(line.kind, single)
  BY <1>5 DEF FlowInv, AloneFlow, Malformed, Unparseable
<1> DEFINE got == Consume(res, line, single)
<1>7. /\ got \in Results
      /\ got.saw_done = IF line.kind = "done" THEN "yes" ELSE res.saw_done
      /\ got.usage = IF line.kind = "usage" THEN "valid" ELSE res.usage
      /\ got.content = IF line.kind = "content" THEN "some" ELSE res.content
      /\ got.finish_reason = Finish(res, line.kind)
      /\ got.ttft = Ttft(res, line.kind)
      /\ got.raw_events = RawEvents(res, line, single)
      /\ got.http_status = res.http_status
      /\ got.error = EventError(res, line.kind, single)
  <2>1. got \in Results
    BY <1>1, ConsumeType DEF TypeInv
  <2> QED BY <2>1 DEF TypeInv, Results, Consume
<1>8. /\ res' = IF line.kind = "raises" THEN [got EXCEPT !.error = "stream_format"] ELSE got
      /\ pc' = IF line.kind = "raises" THEN "done" ELSE pc
      /\ UNCHANGED <<broken, first, clock>>
  BY <1>1 DEF ConsumeEvent, wire
<1> HIDE DEF got
<1>9. /\ res'.saw_done = got.saw_done /\ res'.usage = got.usage /\ res'.content = got.content
      /\ res'.finish_reason = got.finish_reason /\ res'.ttft = got.ttft
      /\ res'.raw_events = got.raw_events /\ res'.http_status = got.http_status
      /\ res'.error = IF line.kind = "raises" THEN "stream_format" ELSE got.error
  <2>1. CASE line.kind = "raises"
    <3>1. res' = [got EXCEPT !.error = "stream_format"]
      BY <2>1, <1>8
    <3> QED BY <3>1, <2>1, <1>7 DEF Results
  <2>2. CASE line.kind # "raises"
    BY <2>2, <1>8
  <2> QED BY <2>1, <2>2
<1>10. \A j \in 1..Taken : ~Stops(j)
  <2>1. CASE pc = "line"
    <3>1. \A j \in 1..Taken : j \in 1..((Taken + Len(cur)) - 1)
      BY <1>1, <1>2
    <3> QED BY <2>1, <3>1 DEF FlowInv, LineFlow, RaiseFlow, Stops
  <2>2. CASE pc = "last"
    <3>1. \A j \in 1..Taken : j \in 1..Len(sent)
      BY <1>1, <1>2
    <3> QED BY <2>2, <3>1 DEF FlowInv, LastFlow, RaiseFlow, Stops
  <2> QED BY <2>1, <2>2, <1>5
<1> QED BY <1>1, <1>2, <1>3, <1>4, <1>5, <1>6, <1>7, <1>8, <1>9, <1>10

\* The result says what was consumed (_consume_event).
LEMMA ResultStep ==
  TypeInv /\ FlowInv /\ OrderInv /\ ResultInv /\ [Next]_vars => ResultInv'
<1> SUFFICES ASSUME TypeInv, FlowInv, OrderInv, ResultInv, [Next]_vars PROVE ResultInv'
  OBVIOUS
<1>1. CASE ~ConsumeEvent
  <2>1. SameEvents /\ Taken' = Taken /\ \A i \in 1..Taken : sent'[i] = sent[i]
    BY <1>1, QuietResult, QuietStep
  <2>2. \A K : Took(K)' <=> Took(K)
    BY <1>1, QuietStep
  <2>3. IF res'.finish_reason = "none" THEN ~Took(Reasons)'
        ELSE \E i \in 1..Taken' : /\ sent'[i].kind = res'.finish_reason
                                  /\ \A k \in 1..Taken' : k > i => sent'[k].kind \notin Reasons
    BY <2>1, <2>2 DEF ResultInv, SameEvents
  <2> QED BY <2>1, <2>2, <2>3 DEF ResultInv, SameEvents
<1>2. CASE ConsumeEvent
  <2> DEFINE line == sent[Taken + 1]
  <2>1. /\ Taken \in Nat /\ Taken' = Taken + 1 /\ sent' = sent
        /\ \A K : Took(K)' <=> Took(K) \/ line.kind \in K
        /\ \A i : i \in 1..Taken' <=> i \in 1..Taken \/ i = Taken + 1
        /\ res'.saw_done = IF line.kind = "done" THEN "yes" ELSE res.saw_done
        /\ res'.usage = IF line.kind = "usage" THEN "valid" ELSE res.usage
        /\ res'.content = IF line.kind = "content" THEN "some" ELSE res.content
        /\ res'.finish_reason = Finish(res, line.kind)
    BY <1>2, ConsumeResult
  <2> HIDE DEF line
  <2>2. /\ res'.saw_done = "yes" <=> Took({"done"})'
        /\ res'.usage = "valid" <=> Took({"usage"})'
        /\ res'.content = "some" <=> Took({"content"})'
    BY <2>1 DEF ResultInv
  <2>3. CASE line.kind \in Reasons
    <3>1. res'.finish_reason = line.kind /\ res'.finish_reason # "none"
      BY <2>1, <2>3 DEF Finish, Reasons
    <3>2. Taken + 1 \in 1..Taken' /\ \A k \in 1..Taken' : ~(k > Taken + 1)
      BY <2>1
    <3>3. sent'[Taken + 1].kind = res'.finish_reason
      BY <2>1, <3>1 DEF line
    <3> QED BY <2>2, <3>1, <3>2, <3>3 DEF ResultInv
  <2>4. CASE line.kind \notin Reasons
    <3>1. res'.finish_reason = res.finish_reason
      BY <2>1, <2>4 DEF Finish
    <3>2. CASE res.finish_reason = "none"
      <4>1. ~Took(Reasons)'
        BY <3>2, <2>1, <2>4 DEF ResultInv
      <4> QED BY <4>1, <3>1, <3>2, <2>2 DEF ResultInv
    <3>3. CASE res.finish_reason # "none"
      <4>1. PICK i \in 1..Taken : /\ sent[i].kind = res.finish_reason
                                  /\ \A k \in 1..Taken : k > i => sent[k].kind \notin Reasons
        BY <3>3 DEF ResultInv
      <4>2. i \in 1..Taken' /\ \A k \in 1..Taken' : k > i => sent'[k].kind \notin Reasons
        BY <4>1, <2>1, <2>4 DEF line
      <4> QED BY <4>1, <4>2, <3>1, <3>3, <2>1, <2>2 DEF ResultInv
    <3> QED BY <3>2, <3>3
  <2> QED BY <2>3, <2>4
<1> QED BY <1>1, <1>2

\* What is to be kept is kept once, in its order (_consume_event).
LEMMA RawStep ==
  TypeInv /\ FlowInv /\ OrderInv /\ RawInv /\ [Next]_vars => RawInv'
<1> SUFFICES ASSUME TypeInv, FlowInv, OrderInv, RawInv, [Next]_vars PROVE RawInv'
  OBVIOUS
<1>1. CASE ~ConsumeEvent
  <2>1. res'.raw_events = res.raw_events /\ Taken' = Taken
        /\ \A i \in 1..Taken : KeptLine(i)' <=> KeptLine(i)
    BY <1>1, QuietResult, QuietStep DEF SameEvents
  <2> QED BY <2>1 DEF RawInv
<1>2. CASE ConsumeEvent
  <2> DEFINE line == sent[Taken + 1]
             raw == res.raw_events
  <2>1. /\ Taken \in Nat /\ Taken' = Taken + 1 /\ sent' = sent /\ line.no = Taken + 1
        /\ \A i : i \in 1..Taken' <=> i \in 1..Taken \/ i = Taken + 1
        /\ Malformed(Taken + 1) <=> Unparseable(line.kind, single)
        /\ res'.raw_events = RawEvents(res, line, single)
    BY <1>2, ConsumeResult
  <2>2. \A i : KeptLine(i)' <=> KeptLine(i)
    BY <2>1, SentSame
  <2>3. KeptLine(Taken + 1) <=> IsObject(line.kind) \/ Unparseable(line.kind, single)
    BY <2>1 DEF KeptLine
  <2>4. raw \in Seq(Nat) /\ Len(raw) \in Nat
    BY DEF TypeInv, Results
  <2> HIDE DEF line
  <2>5. CASE ~KeptLine(Taken + 1)
    <3>1. res'.raw_events = raw
      BY <2>1, <2>3, <2>5 DEF RawEvents
    <3> QED BY <3>1, <2>1, <2>2, <2>5 DEF RawInv
  <2>6. CASE KeptLine(Taken + 1)
    <3> DEFINE more == Append(raw, Taken + 1)
    <3>1. res'.raw_events = more
      BY <2>1, <2>3, <2>6 DEF RawEvents
    <3>2. /\ Len(more) = Len(raw) + 1 /\ more[Len(raw) + 1] = Taken + 1
          /\ \A m \in 1..Len(raw) : more[m] = raw[m]
      BY <2>1, <2>4
    <3>3. \A m \in 1..Len(more) : m \in 1..Len(raw) \/ m = Len(raw) + 1
      BY <3>2, <2>4
    <3> HIDE DEF more
    <3>4. ASSUME NEW m \in 1..Len(more), NEW n \in 1..Len(more), m < n PROVE more[m] < more[n]
      <4>1. m \in 1..Len(raw)
        BY <3>2, <3>4, <2>4
      <4>2. raw[m] \in 1..Taken
        BY <4>1 DEF RawInv
      <4>3. CASE n \in 1..Len(raw)
        BY <4>1, <4>3, <3>2, <3>4 DEF RawInv
      <4>4. CASE n = Len(raw) + 1
        BY <4>1, <4>2, <4>4, <3>2, <2>1
      <4> QED BY <4>3, <4>4, <3>3
    <3>5. ASSUME NEW m \in 1..Len(more) PROVE more[m] \in 1..Taken' /\ KeptLine(more[m])
      <4>1. CASE m \in 1..Len(raw)
        BY <4>1, <3>2, <2>1 DEF RawInv
      <4>2. CASE m = Len(raw) + 1
        BY <4>2, <3>2, <2>1, <2>6
      <4> QED BY <4>1, <4>2, <3>3
    <3>6. ASSUME NEW i \in 1..Taken', KeptLine(i)' PROVE \E m \in 1..Len(more) : more[m] = i
      <4>1. CASE i \in 1..Taken
        <5>1. PICK m \in 1..Len(raw) : raw[m] = i
          BY <4>1, <3>6, <2>2 DEF RawInv
        <5>2. m \in 1..Len(more)
          BY <3>2, <2>4
        <5> QED BY <5>1, <5>2, <3>2
      <4>2. CASE i = Taken + 1
        <5>1. Len(raw) + 1 \in 1..Len(more)
          BY <3>2, <2>4
        <5> QED BY <5>1, <4>2, <3>2
      <4> QED BY <4>1, <4>2, <2>1
    <3> QED BY <3>1, <3>4, <3>5, <3>6, <2>2 DEF RawInv
  <2> QED BY <2>5, <2>6
<1> QED BY <1>1, <1>2

\* The error so far is that of the lines consumed (_consume_event).
LEMMA ErrorStep ==
  TypeInv /\ FlowInv /\ OrderInv /\ ErrorInv /\ [Next]_vars => ErrorInv'
<1> SUFFICES ASSUME TypeInv, FlowInv, OrderInv, ErrorInv, [Next]_vars, pc' \in Running PROVE ErrorInv'
  BY DEF ErrorInv
<1>1. CASE ConsumeEvent
  <2> DEFINE line == sent[Taken + 1]
  <2>1. /\ \A i : i \in 1..Taken' <=> i \in 1..Taken \/ i = Taken + 1
        /\ \A K : Took(K)' <=> Took(K) \/ line.kind \in K
        /\ Malformed(Taken + 1) <=> Unparseable(line.kind, single)
        /\ res'.http_status = res.http_status /\ broken' = broken /\ sent' = sent
        /\ res'.error = IF line.kind = "raises" THEN "stream_format"
                        ELSE EventError(res, line.kind, single)
        /\ pc' = IF line.kind = "raises" THEN "done" ELSE pc
        /\ pc \in {"line", "last"}
    BY <1>1, ConsumeResult
  <2> HIDE DEF line
  <2>2. line.kind # "raises" /\ pc \in Running
    BY <2>1 DEF Running
  <2>3. /\ res.http_status = "ok" /\ broken = "no"
        /\ res.error = IF Took({"badusage"}) THEN "invalid_usage"
                       ELSE IF \E i \in 1..Taken : Malformed(i) THEN "stream_format" ELSE "none"
    BY <2>2 DEF ErrorInv
  <2>4. Took({"badusage"})' <=> Took({"badusage"}) \/ line.kind = "badusage"
    BY <2>1
  <2>5. (\E i \in 1..Taken' : Malformed(i)') <=>
          (\E i \in 1..Taken : Malformed(i)) \/ Unparseable(line.kind, single)
    BY <2>1, SentSame
  <2>6. Unparseable(line.kind, single) => line.kind # "badusage"
    BY DEF Unparseable
  <2>7. res'.error = EventError(res, line.kind, single)
    BY <2>1, <2>2
  <2>8. res'.error = IF Took({"badusage"})' THEN "invalid_usage"
                     ELSE IF \E i \in 1..Taken' : Malformed(i)' THEN "stream_format" ELSE "none"
    BY <2>3, <2>4, <2>5, <2>6, <2>7 DEF EventError
  <2> QED BY <2>1, <2>3, <2>8 DEF ErrorInv
<1>2. CASE Open
  <2>1. /\ pc = "open" /\ res' = [res EXCEPT !.http_status = "ok"] /\ broken' = broken
    BY <1>2 DEF Open, Running
  <2>2. /\ res = StreamResult /\ sent = << >> /\ broken = "no" /\ ~ConsumeEvent
        /\ net = << >> /\ chunk = << >> /\ held = << >> /\ cur = << >>
    BY <2>1 DEF FlowInv, OpenFlow, ConsumeEvent
  <2>3. res'.http_status = "ok" /\ res'.error = "none"
    BY <2>1, <2>2 DEF StreamResult
  <2>4. Taken = 0 /\ Taken' = Taken
    BY <2>2, Lengths, QuietStep DEF TypeInv
  <2>5. 1..Taken' = {}
    BY <2>4
  <2>6. ~Took({"badusage"})' /\ ~\E i \in 1..Taken' : Malformed(i)'
    BY <2>5 DEF Took
  <2> QED BY <2>1, <2>2, <2>3, <2>6 DEF ErrorInv
<1>3. CASE ~ConsumeEvent /\ ~Open
  <2>1. pc \in Running /\ res'.error = res.error /\ res'.http_status = res.http_status /\ broken' = broken
    <3>1. CASE CloseResponse \/ Wait \/ UNCHANGED vars \/ Returned
      BY <3>1 DEF CloseResponse, Wait, vars, Returned
    <3>2. CASE TakeLine \/ CloseDecoder \/ EventConsumed
      BY <3>2 DEF TakeLine, CloseDecoder, EventConsumed, Running
    <3>3. CASE Read \/ ReadFails \/ Return
      BY <3>3 DEF Read, ReadFails, Return, Fail, Running
    <3>4. ASSUME NEW kind \in Kinds, NEW last \in {"yes", "no"}, Send(kind, last) PROVE <2>1!:
      BY <3>4 DEF Send
    <3> QED BY <1>3, <3>1, <3>2, <3>3, <3>4 DEF Next, Server, Client
  <2>2. /\ Taken' = Taken /\ \A i \in 1..Taken : Malformed(i)' <=> Malformed(i)
        /\ \A K : Took(K)' <=> Took(K)
    BY <1>3, QuietStep
  <2>3. Took({"badusage"})' <=> Took({"badusage"})
    BY <2>2
  <2>4. (\E i \in 1..Taken' : Malformed(i)') <=> (\E i \in 1..Taken : Malformed(i))
    BY <2>2
  <2> QED BY <2>1, <2>3, <2>4 DEF ErrorInv
<1> QED BY <1>1, <1>2, <1>3

\* The clock of the first fragment is the server's, that of the first token the
\* client's (Send, Wait, _consume_event).
LEMMA ClockStep ==
  TypeInv /\ FlowInv /\ OrderInv /\ ClockInv /\ [Next]_vars => ClockInv'
<1> SUFFICES ASSUME TypeInv, FlowInv, OrderInv, ClockInv, [Next]_vars PROVE ClockInv'
  OBVIOUS
<1>0. clock \in Nat /\ clock # Never /\ (first # Never => first \in Nat)
      /\ (res.ttft # Never => res.ttft \in Nat)
  BY NeverAssumption DEF TypeInv, Results
<1>1. CASE ConsumeEvent
  <2> DEFINE line == sent[Taken + 1]
  <2>1. /\ sent' = sent /\ Taken + 1 \in 1..Len(sent) /\ Taken \in Nat
        /\ \A K : Took(K)' <=> Took(K) \/ line.kind \in K
        /\ res'.ttft = Ttft(res, line.kind) /\ UNCHANGED <<first, clock>>
        /\ \A j \in 1..Taken : ~Stops(j)
    BY <1>1, ConsumeResult
  <2>2. 1..((Taken + 1) - 1) = 1..Taken
    BY <2>1
  <2>3. Taken + 1 \in Counted
    BY <2>1, <2>2 DEF Counted
  <2>4. line.kind \in Fragments => first # Never /\ first <= clock
    BY <2>3 DEF Has, ClockInv
  <2>5. Has(Fragments)' <=> Has(Fragments)
    BY <2>1, SentSame
  <2>6. Took(Fragments)' <=> Took(Fragments) \/ line.kind \in Fragments
    BY <2>1
  <2> HIDE DEF line
  <2>7. CASE res.ttft = Never /\ line.kind \in Fragments
    <3>1. res'.ttft = clock
      BY <2>1, <2>7 DEF Ttft
    <3> QED BY <3>1, <2>1, <2>4, <2>5, <2>6, <2>7, <1>0 DEF ClockInv
  <2>8. CASE ~(res.ttft = Never /\ line.kind \in Fragments)
    <3>1. res'.ttft = res.ttft
      BY <2>1, <2>8 DEF Ttft
    <3> QED BY <3>1, <2>1, <2>5, <2>6, <2>8 DEF ClockInv
  <2> QED BY <2>7, <2>8
<1>2. ASSUME NEW kind \in Kinds, NEW last \in {"yes", "no"}, Send(kind, last), ~ConsumeEvent
      PROVE  ClockInv'
  <2>1. /\ res' = res /\ clock' = clock
        /\ first' = IF first = Never /\ kind \in Fragments /\ \A j \in 1..Len(sent) : ~Stops(j)
                    THEN clock ELSE first
    BY <1>2 DEF Send
  <2>2. Took(Fragments)' <=> Took(Fragments)
    BY <1>2, QuietStep
  <2>3. Has(Fragments)' <=> \/ Has(Fragments)
                            \/ kind \in Fragments /\ \A j \in 1..Len(sent) : ~Stops(j)
    <3>1. /\ \A j \in 1..(Len(sent) + 1) :
               j \in Counted' <=> \/ j \in Counted
                                  \/ j = Len(sent) + 1 /\ \A k \in 1..Len(sent) : ~Stops(k)
          /\ Counted' \subseteq 1..(Len(sent) + 1) /\ Counted \subseteq 1..Len(sent)
      BY <1>2, SendSame
    <3>2. /\ \A i \in 1..Len(sent) : sent'[i] = sent[i]
          /\ sent'[Len(sent) + 1] = [kind |-> kind, last |-> last, no |-> Len(sent) + 1]
      BY <1>2, SendSent
    <3>3. sent'[Len(sent) + 1].kind = kind
      BY <3>2
    <3>4. /\ \A i \in 1..Len(sent) : i \in 1..(Len(sent) + 1) /\ i # Len(sent) + 1
          /\ \A i \in 1..(Len(sent) + 1) : i \in 1..Len(sent) \/ i = Len(sent) + 1
          /\ Len(sent) + 1 \in 1..(Len(sent) + 1)
      <4>1. Len(sent) \in Nat
        BY Lengths
      <4>2. \A i \in 1..Len(sent) : i \in 1..(Len(sent) + 1) /\ i # Len(sent) + 1
        BY <4>1
      <4>3. \A i \in 1..(Len(sent) + 1) : i \in 1..Len(sent) \/ i = Len(sent) + 1
        BY <4>1
      <4> QED BY <4>1, <4>2, <4>3
    <3>5. ASSUME Has(Fragments)
          PROVE  Has(Fragments)'
      <4>1. PICK i \in Counted : sent[i].kind \in Fragments
        BY <3>5 DEF Has
      <4>2. i \in Counted' /\ sent'[i].kind \in Fragments
        BY <4>1, <3>1, <3>2, <3>4
      <4> QED BY <4>2 DEF Has
    <3>6. ASSUME kind \in Fragments, \A j \in 1..Len(sent) : ~Stops(j)
          PROVE  Has(Fragments)'
      <4>1. Len(sent) + 1 \in Counted' /\ sent'[Len(sent) + 1].kind \in Fragments
        BY <3>1, <3>3, <3>4, <3>6
      <4> QED BY <4>1 DEF Has
    <3>7. ASSUME Has(Fragments)'
          PROVE  Has(Fragments) \/ (kind \in Fragments /\ \A j \in 1..Len(sent) : ~Stops(j))
      <4>1. PICK i \in Counted' : sent'[i].kind \in Fragments
        BY <3>7 DEF Has
      <4>2. CASE i \in Counted
        BY <4>1, <4>2, <3>1, <3>2 DEF Has
      <4>3. CASE i = Len(sent) + 1 /\ \A k \in 1..Len(sent) : ~Stops(k)
        BY <4>1, <4>3, <3>3
      <4> QED BY <4>2, <4>3, <3>1
    <3> QED BY <3>5, <3>6, <3>7
  <2>4. CASE first = Never /\ kind \in Fragments /\ \A j \in 1..Len(sent) : ~Stops(j)
    <3>1. first' = clock
      BY <2>1, <2>4
    <3> QED BY <3>1, <2>1, <2>2, <2>3, <2>4, <1>0 DEF ClockInv
  <2>5. CASE ~(first = Never /\ kind \in Fragments /\ \A j \in 1..Len(sent) : ~Stops(j))
    <3>1. first' = first
      BY <2>1, <2>5
    <3>2. first = Never <=> ~Has(Fragments)'
      BY <2>3, <2>5 DEF ClockInv
    <3> QED BY <3>1, <3>2, <2>1, <2>2 DEF ClockInv
  <2> QED BY <2>4, <2>5
<1>3. ASSUME ~ConsumeEvent, sent' = sent, first' = first, clock' \in {clock, clock + 1}
      PROVE  ClockInv'
  <2>1. res'.ttft = res.ttft
    BY <1>3, QuietResult DEF SameEvents
  <2>2. (Took(Fragments)' <=> Took(Fragments)) /\ (Has(Fragments)' <=> Has(Fragments))
    BY <1>3, QuietStep, SentSame
  <2>3. first # Never => first <= clock'
    BY <1>0, <1>3 DEF ClockInv
  <2> QED BY <1>3, <2>1, <2>2, <2>3 DEF ClockInv
<1>4. \/ ConsumeEvent
      \/ \E kind \in Kinds, last \in {"yes", "no"} : Send(kind, last)
      \/ sent' = sent /\ first' = first /\ clock' \in {clock, clock + 1}
  <2>1. CASE Open \/ ReadFails \/ TakeLine \/ CloseDecoder \/ EventConsumed \/ Return
    BY <2>1 DEF Open, ReadFails, TakeLine, CloseDecoder, EventConsumed, Return, wire
  <2>2. CASE CloseResponse \/ Wait \/ Read \/ Returned \/ UNCHANGED vars
    BY <2>2 DEF CloseResponse, Wait, Read, Returned, vars
  <2> QED BY <2>1, <2>2 DEF Next, Server, Client
<1> QED BY <1>1, <1>2, <1>3, <1>4

\* The error of a request that came back whole is the verdict on what was sent
\* (_consume_event's exception, _stream_request's end).
LEMMA DoneStep ==
  TypeInv /\ FlowInv /\ OrderInv /\ ResultInv /\ ErrorInv /\ DoneInv /\ [Next]_vars => DoneInv'
<1> SUFFICES ASSUME TypeInv, FlowInv, OrderInv, ResultInv, ErrorInv, DoneInv, [Next]_vars, pc' = "done"
             PROVE  DoneInv'
  BY DEF DoneInv, Complete
<1>1. CASE ConsumeEvent
  <2> DEFINE line == sent[Taken + 1]
  <2>1. /\ sent' = sent /\ Taken + 1 \in 1..Len(sent) /\ Taken \in Nat
        /\ pc' = IF line.kind = "raises" THEN "done" ELSE pc
        /\ pc \in {"line", "last"}
        /\ res'.error = IF line.kind = "raises" THEN "stream_format"
                        ELSE EventError(res, line.kind, single)
        /\ \A j \in 1..Taken : ~Stops(j)
    BY <1>1, ConsumeResult
  <2>2. line.kind = "raises" /\ res'.error = "stream_format"
    BY <2>1
  <2>3. 1..((Taken + 1) - 1) = 1..Taken
    BY <2>1
  <2>4. Taken + 1 \in Counted
    BY <2>1, <2>3 DEF Counted
  <2>5. Has({"raises"})
    BY <2>2, <2>4 DEF Has
  <2>6. Has({"raises"})'
    BY <2>1, <2>5, SentSame
  <2> QED BY <2>2, <2>6 DEF DoneInv, Verdict
<1>2. CASE Return
  <2>1. Counted = 1..Taken /\ pc = "finish"
    BY <1>2, FlowReturn DEF Return
  <2>2. \A K : Has(K) <=> Took(K)
    BY <2>1 DEF Has, Took
  <2>3. sent' = sent /\ broken' = broken
    BY <1>2 DEF Return, wire
  <2>4. /\ res.http_status = "ok" /\ broken = "no"
        /\ res.error = IF Took({"badusage"}) THEN "invalid_usage"
                       ELSE IF \E i \in 1..Taken : Malformed(i) THEN "stream_format" ELSE "none"
    BY <2>1 DEF ErrorInv, Running
  <2>5. ~Took({"raises"})
    BY <2>1 DEF FlowInv, RaiseFlow, Took
  <2>6. /\ res.saw_done \in {"yes", "no"} /\ (res.saw_done = "yes" <=> Took({"done"}))
        /\ res.usage \in {"none", "valid"} /\ (res.usage = "valid" <=> Took({"usage"}))
    BY DEF TypeInv, Results, ResultInv
  <2>7. res'.http_status = "ok"
    BY <1>2, <2>4 DEF Return, Fail, TypeInv, Results
  <2>8. res'.error = IF res.saw_done = "no" THEN "missing_done"
                     ELSE IF res.error = "invalid_usage" THEN "invalid_usage"
                     ELSE IF res.usage = "none" THEN "missing_usage" ELSE res.error
    BY <1>2, <2>6 DEF Return, Fail, TypeInv, Results
  <2>9. Verdict = IF ~Took({"done"}) THEN "missing_done"
                  ELSE IF Took({"badusage"}) THEN "invalid_usage"
                  ELSE IF ~Took({"usage"}) THEN "missing_usage"
                  ELSE IF \E i \in 1..Taken : Malformed(i) THEN "stream_format" ELSE "none"
    BY <2>1, <2>2, <2>5 DEF Verdict
  <2>10. res'.error = Verdict
    BY <2>4, <2>6, <2>8, <2>9
  <2>11. Verdict' = Verdict
    BY <2>3, SentSame DEF Verdict
  <2> QED BY <2>3, <2>4, <2>7, <2>10, <2>11 DEF DoneInv, Complete
<1>3. CASE ReadFails \/ Read
  <2>1. broken' = "yes" /\ res'.error = "stream_format"
    BY <1>3 DEF ReadFails, Read, Fail, TypeInv, Results
  <2> QED BY <2>1 DEF DoneInv, Complete
<1>4. CASE Open
  <2>1. res.http_status = "none" /\ res \in Results
    BY <1>4 DEF Open, FlowInv, OpenFlow, StreamResult, TypeInv
  <2>2. \/ res' = [res EXCEPT !.http_status = "error", !.error = "http_status"]
        \/ \E error \in {"timeout", "transport"} : res' = [res EXCEPT !.error = error]
    BY <1>4 DEF Open
  <2>3. res'.http_status # "ok" /\ res'.error # "none"
    BY <2>1, <2>2 DEF Results
  <2> QED BY <2>3 DEF DoneInv, Complete
<1>5. CASE pc = "done" /\ UNCHANGED <<res, broken, sent>>
  <2>1. Verdict' = Verdict
    BY <1>5, SentSame DEF Verdict
  <2> QED BY <1>5, <2>1 DEF DoneInv, Complete
<1>6. CASE Returned \/ UNCHANGED vars
  BY <1>5, <1>6 DEF Returned, vars
<1>7. ASSUME NEW kind \in Kinds, NEW last \in {"yes", "no"}, Send(kind, last) PROVE FALSE
  BY <1>7 DEF Send
<1>8. CASE CloseResponse \/ Wait \/ TakeLine \/ CloseDecoder \/ EventConsumed
  BY <1>8 DEF CloseResponse, Wait, TakeLine, CloseDecoder, EventConsumed
<1> QED BY <1>1, <1>2, <1>3, <1>4, <1>6, <1>7, <1>8 DEF Next, Server, Client

\* A request starts with nothing sent and nothing consumed.
LEMMA StreamInit == Init => StreamInv
<1> SUFFICES ASSUME Init PROVE StreamInv
  OBVIOUS
<1>1. TypeInv
  <2>1. << >> \in Seq(Nat) /\ << >> \in Seq(Lines)
    OBVIOUS
  <2>2. StreamResult \in Results
    BY <2>1 DEF StreamResult, Results, Errors
  <2> QED BY <2>1, <2>2 DEF Init, TypeInv
<1>2. Taken = 0 /\ Len(sent) = 0 /\ Len(net) = 0 /\ Len(chunk) = 0 /\ Len(held) = 0 /\ Len(cur) = 0
  <2>1. /\ sent = << >> /\ net = << >> /\ chunk = << >> /\ held = << >> /\ cur = << >>
        /\ Len(<< >>) = 0
    BY DEF Init
  <2>2. /\ Len(sent) = 0 /\ Len(net) = 0 /\ Len(chunk) = 0 /\ Len(held) = 0 /\ Len(cur) = 0
    BY <2>1
  <2>3. Taken = 0
    BY <2>2 DEF Taken
  <2> QED BY <2>2, <2>3
<1>3. 1..0 = {} /\ Len(res.raw_events) = 0
  BY DEF Init, StreamResult
<1>4. OrderInv /\ CleanInv
  BY <1>2, <1>3 DEF OrderInv, CleanInv
<1>5. FlowInv
  BY DEF Init, FlowInv, OpenFlow, ReadFlow, LineFlow, LastFlow, AloneFlow, RaiseFlow, FinishFlow,
         CountFlow, Complete
<1>6. \A K : ~Took(K)
  BY <1>2, <1>3 DEF Took
<1>7. ResultInv
  BY <1>6 DEF Init, StreamResult, ResultInv
<1>8. RawInv
  BY <1>2, <1>3 DEF RawInv
<1>9. ErrorInv /\ DoneInv
  BY DEF Init, ErrorInv, DoneInv, Running, Complete
<1>10. ~Has(Fragments)
  BY <1>2, <1>3 DEF Has, Counted
<1>11. ClockInv
  BY <1>6, <1>10 DEF Init, StreamResult, ClockInv
<1> QED BY <1>1, <1>4, <1>5, <1>7, <1>8, <1>9, <1>11 DEF StreamInv

(***************************************************************************)
(* Theorems.                                                               *)
(***************************************************************************)
\* http_client.py:549-618: every line the server sent is, once and in its order,
\* among those consumed, in the event, in the decoder, in the block or on the
\* wire, whatever the events and blocks they come in, and the result says of the
\* lines consumed what they were.
THEOREM LinesAccounted == Spec => []StreamInv
<1>1. StreamInv /\ [Next]_vars => StreamInv'
  BY TypeStep, OrderStep, CleanStep, FlowStep, ResultStep, RawStep, ErrorStep, ClockStep, DoneStep
     DEF StreamInv
<1> QED BY <1>1, StreamInit, PTL DEF Spec

\* http_client.py:549-579, 584-618: the error class of a stream that came back
\* whole is the verdict on what was sent up to the event with [DONE], or up to the
\* line that raises, whatever the order of its lines, their events and blocks, an
\* empty line that is alone in its event being one that does not parse.
THEOREM ErrorExact == Spec => []ErrorIsExact
<1>1. StreamInv => ErrorIsExact
  BY DEF StreamInv, DoneInv, ErrorIsExact
<1> QED BY <1>1, LinesAccounted, PTL

\* http_client.py:337-364: a row that counts as a measurement comes from a
\* stream with [DONE], content, valid usage, no malformed line and "stop" as
\* its last finish reason, and has a time to first token.
THEOREM RowEarned == Spec => []ValidRowIsEarned
<1>1. StreamInv => ValidRowIsEarned
  <2> SUFFICES ASSUME StreamInv, pc = "done", row_validity(res)
      PROVE  /\ Complete /\ res.ttft # Never
             /\ Has({"done"}) /\ Has({"usage"}) /\ Has({"content"})
             /\ ~Has({"badusage", "raises", "bytes"}) /\ \A i \in Counted : ~Malformed(i)
             /\ \E i \in Counted : /\ sent[i].kind = "stop"
                                   /\ \A k \in Counted : k > i => sent[k].kind \notin Reasons
    BY DEF ValidRowIsEarned
  <2>1. /\ res.error = "none" /\ res.finish_reason = "stop" /\ res.usage # "none"
        /\ res.content # "empty" /\ res \in Results
    BY DEF row_validity, StreamInv, TypeInv
  <2>2. Complete /\ res.error = Verdict
    BY <2>1 DEF StreamInv, DoneInv
  <2>3. Counted = 1..Taken /\ \A K : Has(K) <=> Took(K)
    BY <2>2 DEF StreamInv, FlowInv, CountFlow, Has, Took
  <2>4. /\ Has({"done"}) /\ Has({"usage"}) /\ ~Has({"badusage"}) /\ ~Has({"raises"})
        /\ \A i \in Counted : ~Malformed(i)
    BY <2>1, <2>2 DEF Verdict
  <2>5. Took({"content"}) /\ Has({"content"})
    BY <2>1, <2>3 DEF StreamInv, ResultInv, Results
  <2>6. Took(Fragments)
    BY <2>5 DEF Took, Fragments
  <2>7. res.ttft # Never
    BY <2>6 DEF StreamInv, ClockInv
  <2>8. \A i \in 1..Taken : sent[i].kind # "bytes"
    <3>1. \A i \in 1..Taken : i \in 1..(Len(sent) - Len(net))
      BY Lengths DEF StreamInv, OrderInv
    <3> QED BY <3>1, <2>2 DEF StreamInv, CleanInv, Complete
  <2>9. ~Has({"badusage", "raises", "bytes"})
    BY <2>3, <2>4, <2>8 DEF Has
  <2>10. \E i \in Counted : /\ sent[i].kind = "stop"
                            /\ \A k \in Counted : k > i => sent[k].kind \notin Reasons
    BY <2>1, <2>3 DEF StreamInv, ResultInv
  <2> QED BY <2>2, <2>4, <2>5, <2>7, <2>9, <2>10
<1> QED BY <1>1, LinesAccounted, PTL

\* http_client.py:11-13: the token clock is started by a fragment, never by
\* another event and not before the server sent one; a request that came back
\* whole has one exactly if a fragment was sent.
THEOREM ClockOfTokens == Spec => []TokenClock
<1>1. StreamInv => TokenClock
  <2> SUFFICES ASSUME StreamInv PROVE TokenClock
    OBVIOUS
  <2>1. res.ttft # Never => first # Never /\ first <= res.ttft
    BY DEF StreamInv, ClockInv
  <2>2. ASSUME Complete PROVE res.ttft = Never <=> first = Never
    <3>1. Has(Fragments) <=> Took(Fragments)
      BY <2>2 DEF StreamInv, FlowInv, CountFlow, Has, Took
    <3> QED BY <3>1 DEF StreamInv, ClockInv
  <2> QED BY <2>1, <2>2 DEF TokenClock
<1> QED BY <1>1, LinesAccounted, PTL

\* http_client.py:17-19, 593-609: the raw events of a request that came back whole
\* are the objects and the payloads that do not parse, each once and in the order
\* the server sent them.
THEOREM PayloadsAreKept == Spec => []PayloadsKept
<1>1. StreamInv => PayloadsKept
  <2> SUFFICES ASSUME StreamInv, Complete PROVE PayloadsKept
    BY DEF PayloadsKept
  <2>1. Counted = 1..Taken
    BY DEF StreamInv, FlowInv, CountFlow
  <2> QED BY <2>1 DEF StreamInv, RawInv, PayloadsKept
<1> QED BY <1>1, LinesAccounted, PTL
=============================================================================
