------------------------- MODULE SubscriptionProofs -------------------------
(***************************************************************************)
(* Proofs about Subscription, for any consumers, queue depths, page sizes  *)
(* and bounds.                                                             *)
(*                                                                         *)
(* The argument: what a consumer has is always one run of events from its  *)
(* origin (OneRun), because every batch on its way continues what the      *)
(* consumer has or what an earlier batch brings (BatchesFit), and every    *)
(* cursor it may be told is one it has reached (Told).  A batch leaves the *)
(* queue only behind its stream's answer (the Announced disjuncts).        *)
(***************************************************************************)
EXTENDS Subscription, TLAPS

Phases == {"off", "start", "read", "empty", "wait", "send", "close"}
StreamState == [pc : Phases, opens : Nat, cursor : Nat, last : Nat, delivered : Nat]
ClientState == [acked : Nat, closed : Nat, resume : Nat, origin : Nat, got : SUBSET Nat]
Answers == [kind : {"subscribed"}, s : Streams, n : Nat]
Closings == [kind : {"closed"}, s : Streams, n : Nat, cursor : Nat]
Frames(kind) == [kind : {kind}, s : Streams, n : Nat, from : Nat, cursor : Nat]

TypeOK ==
    /\ log \in Nat /\ notes \in Nat /\ faults \in Nat
    /\ stream \in [Streams -> StreamState] /\ woken \in [Streams -> BOOLEAN]
    /\ client \in [Streams -> ClientState]
    /\ responses \in Seq(Answers \cup Closings) /\ batches \in Seq(Frames("batch"))
    /\ writer \in {Nothing} \cup Answers \cup Closings \cup Frames("batch") \cup Frames("mark")

\* What the consumer has is a run of events from its origin.
OneRun ==
    \A s \in Streams :
        \E t \in Nat : t >= client[s].origin /\ client[s].got = (client[s].origin + 1) .. t

\* The consumer stands at its origin or has the event.
Has(s, e) == e = client[s].origin \/ e \in client[s].got

\* Every cursor a consumer was or may be told is one it has reached.
Told ==
    \A s \in Streams :
        /\ client[s].closed <= stream[s].opens
        /\ stream[s].opens = 0 => stream[s].pc = "off" /\ client[s].got = {} /\ client[s].resume = 0
        /\ stream[s].opens > 0 => Has(s, stream[s].delivered)
        /\ client[s].closed > 0 => Has(s, client[s].resume)
        /\ client[s].closed = 0 => client[s].resume = 0
        /\ stream[s].pc # "off" => client[s].closed < stream[s].opens
        /\ stream[s].pc = "send" => stream[s].last > stream[s].cursor

\* The answer that announces the stream is on its way.
Announced(s) ==
    \/ \E k \in DOMAIN responses : responses[k].kind = "subscribed" /\ responses[k].s = s
    \/ writer.kind = "subscribed" /\ writer.s = s

\* The consumer has the event, or a frame ahead of position i brings it there.
OnWire(s, e) == writer.kind = "batch" /\ writer.s = s /\ writer.cursor >= e
Queued(s, e, i) == \E j \in DOMAIN batches : j < i /\ batches[j].s = s /\ batches[j].cursor >= e
Covered(s, e, i) == Has(s, e) \/ OnWire(s, e) \/ Queued(s, e, i)

Fits(b) ==
    /\ b.n >= 1 /\ b.n <= stream[b.s].opens
    /\ client[b.s].origin < b.from /\ b.from <= b.cursor

BatchesFit ==
    \A i \in DOMAIN batches :
        /\ Fits(batches[i]) /\ Covered(batches[i].s, batches[i].from - 1, i)
        /\ client[batches[i].s].acked >= batches[i].n \/ Announced(batches[i].s)

StreamsFit ==
    \A s \in Streams :
        stream[s].pc # "off" =>
            /\ stream[s].cursor >= client[s].origin
            /\ Covered(s, stream[s].cursor, Len(batches) + 1)
            /\ client[s].acked >= stream[s].opens \/ Announced(s)

\* An answer or a closing on its way is of the stream's current subscription,
\* which the consumer does not know to be closed.
Current(f) ==
    /\ f.n = stream[f.s].opens /\ client[f.s].closed < stream[f.s].opens
    /\ f.kind = "closed" => stream[f.s].pc = "off" /\ Has(f.s, f.cursor)

\* Nothing about a stream follows its closing.
After(f, g) == f.kind = "closed" => g.s # f.s

ResponsesFit ==
    \A i \in DOMAIN responses :
        Current(responses[i]) /\ \A j \in DOMAIN responses : i < j => After(responses[i], responses[j])

WriterFits ==
    /\ writer.kind \in {"subscribed", "closed"} =>
        Current(writer) /\ \A j \in DOMAIN responses : After(writer, responses[j])
    /\ writer.kind = "batch" =>
        /\ Fits(writer) /\ Has(writer.s, writer.from - 1)
        /\ client[writer.s].acked >= writer.n
    /\ writer.kind = "mark" => Has(writer.s, writer.cursor) /\ stream[writer.s].opens > 0

\* A stream that found nothing is woken, about to be, or has read everything.
Awake ==
    faults = 0 =>
        \A s \in Streams :
            stream[s].pc \in {"empty", "wait"} /\ ~woken[s] => stream[s].cursor = log \/ notes > 0

IInv ==
    /\ TypeOK /\ OneRun /\ Told /\ BatchesFit /\ StreamsFit /\ ResponsesFit /\ WriterFits /\ Awake

-----------------------------------------------------------------------------
LEMMA InitIInv == Init => IInv
<1> SUFFICES ASSUME Init PROVE IInv
  BY Zenon
<1> DEFINE S == [pc |-> "off", opens |-> 0, cursor |-> 0, last |-> 0, delivered |-> 0]
           C == [acked |-> 0, closed |-> 0, resume |-> 0, origin |-> 0, got |-> {}]
<1>1. S \in StreamState /\ S.pc = "off" /\ S.opens = 0
  BY Zenon DEF StreamState, Phases
<1>2. C \in ClientState /\ C.closed = 0 /\ C.resume = 0 /\ C.origin = 0 /\ C.got = {}
  BY Zenon DEF ClientState
<1>3. Nothing.kind = "none"
  BY Zenon DEF Nothing
<1>4. \A s \in Streams : stream[s] = S /\ client[s] = C
  BY Zenon DEF Init
<1> HIDE DEF S, C
<1>5. TypeOK
  <2>1. stream \in [Streams -> StreamState] /\ client \in [Streams -> ClientState]
    BY <1>1, <1>2, Zenon DEF Init, S, C
  <2>2. woken \in [Streams -> BOOLEAN] /\ log \in Nat /\ notes \in Nat /\ faults \in Nat
    BY Zenon DEF Init
  <2>3. responses \in Seq(Answers \cup Closings) /\ batches \in Seq(Frames("batch"))
    BY DEF Init
  <2> QED
    BY <2>1, <2>2, <2>3, Zenon DEF Init, TypeOK
<1>6. OneRun
  <2> SUFFICES ASSUME NEW s \in Streams
               PROVE  \E t \in Nat : t >= client[s].origin /\ client[s].got = (client[s].origin + 1) .. t
    BY Zenon DEF OneRun
  <2>1. client[s].origin = 0 /\ client[s].got = {}
    BY <1>2, <1>4, Zenon
  <2>2. 0 \in Nat /\ 0 >= 0 /\ {} = (0 + 1) .. 0
    OBVIOUS
  <2> QED
    BY <2>1, <2>2, Zenon
<1>7. Told /\ StreamsFit
  BY <1>1, <1>2, <1>4 DEF Told, StreamsFit
<1>8. BatchesFit /\ ResponsesFit
  BY DEF Init, BatchesFit, ResponsesFit
<1>9. WriterFits
  BY <1>3, Zenon DEF Init, WriterFits
<1>10. Awake
  BY <1>1, <1>4, Zenon DEF Awake
<1> QED
  BY <1>5, <1>6, <1>7, <1>8, <1>9, <1>10, Zenon DEF IInv

-----------------------------------------------------------------------------
(***************************************************************************)
(* Steps that touch neither queue nor consumer.                            *)
(***************************************************************************)
LEMMA WriterKinds ==
    ASSUME TypeOK
    PROVE  /\ writer.kind \in {"none", "subscribed", "closed", "batch", "mark"}
           /\ writer.kind # "none" => writer.s \in Streams
           /\ writer.kind = "subscribed" => writer \in Answers
           /\ writer.kind = "closed" => writer \in Closings
           /\ writer.kind = "batch" => writer \in Frames("batch")
           /\ writer.kind = "mark" => writer \in Frames("mark")
           /\ writer.kind = "none" => writer = Nothing
<1>1. CASE writer = Nothing
  BY <1>1, Zenon DEF Nothing
<1>2. CASE writer \in Answers
  BY <1>2, Zenon DEF Answers
<1>3. CASE writer \in Closings
  BY <1>3, Zenon DEF Closings
<1>4. CASE writer \in Frames("batch")
  BY <1>4, Zenon DEF Frames
<1>5. CASE writer \in Frames("mark")
  BY <1>5, Zenon DEF Frames
<1> QED
  BY <1>1, <1>2, <1>3, <1>4, <1>5, Zenon DEF TypeOK

LEMMA QueueKinds ==
    ASSUME TypeOK
    PROVE  /\ \A i \in DOMAIN batches :
                /\ batches[i] \in Frames("batch") /\ batches[i].kind = "batch" /\ batches[i].s \in Streams
                /\ batches[i].n \in Nat /\ batches[i].from \in Nat /\ batches[i].cursor \in Nat
           /\ \A i \in DOMAIN responses :
                /\ responses[i] \in Answers \cup Closings
                /\ responses[i].s \in Streams /\ responses[i].n \in Nat
                /\ responses[i].kind \in {"subscribed", "closed"}
<1>1. \A i \in DOMAIN batches : batches[i] \in Frames("batch")
  BY DEF TypeOK
<1>2. \A f \in Frames("batch") :
         f.kind = "batch" /\ f.s \in Streams /\ f.n \in Nat /\ f.from \in Nat /\ f.cursor \in Nat
  BY Zenon DEF Frames
<1>3. \A i \in DOMAIN responses : responses[i] \in Answers \cup Closings
  BY DEF TypeOK
<1>4. \A f \in Answers \cup Closings : f.s \in Streams /\ f.n \in Nat /\ f.kind \in {"subscribed", "closed"}
  BY Zenon DEF Answers, Closings
<1> QED
  BY <1>1, <1>2, <1>3, <1>4, Zenon

\* What the invariant asks of a stream besides its place.
SameStreams ==
    \A s \in Streams :
        /\ stream'[s].opens = stream[s].opens /\ stream'[s].cursor = stream[s].cursor
        /\ stream'[s].delivered = stream[s].delivered
        /\ stream'[s].pc = "off" <=> stream[s].pc = "off"
        /\ stream'[s].pc = "send" => stream'[s].last > stream'[s].cursor

LEMMA StreamsStay ==
    ASSUME IInv, UNCHANGED stream
    PROVE  SameStreams
BY Zenon DEF IInv, Told, SameStreams

LEMMA QuietStep ==
    ASSUME IInv, SameStreams, TypeOK', Awake', UNCHANGED <<responses, batches, writer, client>>
    PROVE  IInv'
<1>1. \A s, e : Has(s, e)' <=> Has(s, e)
  BY Zenon DEF Has
<1>2. \A s, e, i : Covered(s, e, i)' <=> Covered(s, e, i)
  BY Zenon DEF Covered, OnWire, Queued, Has
<1>3. \A s : Announced(s)' <=> Announced(s)
  BY Zenon DEF Announced
<1>4. \A i \in DOMAIN batches : batches[i].s \in Streams
  BY QueueKinds, Zenon DEF IInv
<1>5. \A i \in DOMAIN responses : responses[i].s \in Streams
  BY QueueKinds, Zenon DEF IInv
<1>6. writer.kind # "none" => writer.s \in Streams
  BY WriterKinds, Zenon DEF IInv
<1>7. OneRun'
  BY Zenon DEF IInv, OneRun
<1>8. Told'
  BY <1>1, Zenon DEF IInv, Told, SameStreams
<1>9. BatchesFit'
  BY <1>2, <1>3, <1>4, Zenon DEF IInv, BatchesFit, Fits, SameStreams
<1>10. StreamsFit'
  BY <1>2, <1>3, Zenon DEF IInv, StreamsFit, SameStreams
<1>11. \A f : f.s \in Streams => (Current(f)' <=> Current(f))
  BY <1>1, Zenon DEF Current, SameStreams
<1>12. ResponsesFit'
  BY <1>5, <1>11, Zenon DEF IInv, ResponsesFit, After
<1>13. WriterFits'
  BY <1>1, <1>6, <1>11, Zenon DEF IInv, WriterFits, Fits, After, SameStreams
<1> QED
  BY <1>7, <1>8, <1>9, <1>10, <1>12, <1>13, Zenon DEF IInv

LEMMA LogSteps ==
    ASSUME IInv, Append1 \/ watch_events \/ LoseNotification \/ StopReading \/ ReadAgain
    PROVE  IInv'
<1>1. UNCHANGED <<stream, responses, batches, writer, client>>
  BY Zenon DEF Append1, watch_events, LoseNotification, StopReading, ReadAgain
<1>2. TypeOK'
  <2>1. log' \in Nat /\ notes' \in Nat /\ faults' \in Nat
    BY DEF IInv, TypeOK, Append1, watch_events, LoseNotification, StopReading, ReadAgain
  <2>2. woken' \in [Streams -> BOOLEAN]
    BY Zenon DEF IInv, TypeOK, Append1, watch_events, LoseNotification, StopReading, ReadAgain
  <2> QED
    BY <1>1, <2>1, <2>2, Zenon DEF IInv, TypeOK
<1>3. Awake'
  <2>1. CASE Append1
    BY <2>1 DEF IInv, TypeOK, Awake, Append1
  <2>2. CASE watch_events
    BY <2>2, Zenon DEF Awake, watch_events
  <2>3. CASE LoseNotification
    BY <2>3 DEF IInv, TypeOK, Awake, LoseNotification
  <2>4. CASE StopReading \/ ReadAgain
    BY <2>4, Zenon DEF IInv, Awake, StopReading, ReadAgain
  <2> QED
    BY <2>1, <2>2, <2>3, <2>4, Zenon
<1> QED
  BY <1>1, <1>2, <1>3, StreamsStay, QuietStep, Zenon

\* A stream goes on to another step of its loop.
LEMMA TurnStep ==
    ASSUME IInv, NEW s \in Streams, NEW row \in StreamState, stream' = [stream EXCEPT ![s] = row],
           row.opens = stream[s].opens, row.cursor = stream[s].cursor, row.delivered = stream[s].delivered,
           row.pc # "off", stream[s].pc # "off", row.pc = "send" => row.last > row.cursor,
           UNCHANGED <<log, notes, responses, batches, writer, client>>,
           faults' \in Nat, faults' = 0 => faults = 0,
           woken' = woken \/ (woken' = [woken EXCEPT ![s] = FALSE] /\ row.pc = "read"),
           row.pc \notin {"empty", "wait"} \/ stream[s].pc \in {"empty", "wait"} \/ row.cursor = log
    PROVE  IInv'
<1>1. TypeOK'
  <2>1. woken' \in [Streams -> BOOLEAN]
    BY Zenon DEF IInv, TypeOK
  <2> QED
    BY <2>1, Zenon DEF IInv, TypeOK
<1>2. SameStreams
  BY Zenon DEF IInv, TypeOK, Told, SameStreams
<1>3. Awake'
  <2> SUFFICES ASSUME faults = 0, NEW t \in Streams, stream'[t].pc \in {"empty", "wait"}, ~woken'[t]
               PROVE  stream'[t].cursor = log \/ notes > 0
    BY Zenon DEF Awake
  <2>1. ~woken[t]
    BY Zenon DEF IInv, TypeOK
  <2>2. CASE t = s
    BY <2>1, <2>2, Zenon DEF IInv, TypeOK, Awake
  <2>3. CASE t # s
    BY <2>1, <2>3, Zenon DEF IInv, TypeOK, Awake
  <2> QED
    BY <2>2, <2>3, Zenon
<1> QED
  BY <1>1, <1>2, <1>3, QuietStep, Zenon

LEMMA RunSteps ==
    ASSUME IInv, NEW s \in Streams,
           start(s) \/ Read(s) \/ ReadFails(s) \/ Wait(s) \/ Changed(s) \/ Poll(s) \/ SlowConsumer(s)
    PROVE  IInv'
<1>1. stream[s] \in StreamState /\ stream[s].cursor \in Nat /\ faults \in Nat
  BY Zenon DEF IInv, TypeOK, StreamState
<1> DEFINE At(p) == [stream[s] EXCEPT !.pc = p]
<1>2. \A p \in Phases : /\ At(p) \in StreamState /\ At(p).pc = p /\ At(p).opens = stream[s].opens
                        /\ At(p).cursor = stream[s].cursor /\ At(p).delivered = stream[s].delivered
  BY <1>1, Zenon DEF StreamState
<1>3. Phases = {"off", "start", "read", "empty", "wait", "send", "close"}
  BY Zenon DEF Phases
<1>4. \A p : [stream EXCEPT ![s].pc = p] = [stream EXCEPT ![s] = At(p)]
  BY Zenon
<1> HIDE DEF At
<1>5. CASE start(s) \/ Changed(s)
  <2>1. /\ stream' = [stream EXCEPT ![s] = At("read")] /\ stream[s].pc \in {"start", "wait"}
        /\ woken' = [woken EXCEPT ![s] = FALSE]
        /\ UNCHANGED <<log, notes, responses, batches, writer, client, faults>>
    BY <1>4, <1>5, Zenon DEF start, Changed
  <2> QED
    BY <1>1, <1>2, <1>3, <2>1, TurnStep, Zenon
<1>6. CASE Wait(s) \/ Poll(s) \/ SlowConsumer(s)
  <2>1. PICK p \in {"wait", "read", "close"} :
           /\ stream' = [stream EXCEPT ![s] = At(p)] /\ stream[s].pc \in {"empty", "wait", "send"}
           /\ p = "wait" => stream[s].pc = "empty"
           /\ UNCHANGED <<log, notes, woken, responses, batches, writer, client, faults>>
    BY <1>4, <1>6, Zenon DEF Wait, Poll, SlowConsumer
  <2> QED
    BY <1>1, <1>2, <1>3, <2>1, TurnStep, Zenon
<1>7. CASE ReadFails(s)
  <2>1. /\ stream' = [stream EXCEPT ![s] = At("close")] /\ stream[s].pc = "read" /\ faults' = faults + 1
        /\ UNCHANGED <<log, notes, woken, responses, batches, writer, client>>
    BY <1>4, <1>7, Zenon DEF ReadFails
  <2>2. faults' \in Nat /\ faults' # 0
    BY <1>1, <2>1
  <2> QED
    BY <1>1, <1>2, <1>3, <2>1, <2>2, TurnStep, Zenon
<1>8. CASE Read(s) /\ stream[s].cursor = log
  <2>1. /\ stream' = [stream EXCEPT ![s] = At("empty")] /\ stream[s].pc = "read"
        /\ UNCHANGED <<log, notes, woken, responses, batches, writer, client, faults>>
    BY <1>4, <1>8, Zenon DEF Read
  <2> QED
    BY <1>1, <1>2, <1>3, <1>8, <2>1, TurnStep, Zenon
<1>9. CASE Read(s) /\ stream[s].cursor # log
  <2>1. PICK n \in 1..SUBSCRIPTION_BATCH_ROWS :
           stream' = [stream EXCEPT ![s].pc = "send", ![s].last = stream[s].cursor + n]
    BY <1>9, Zenon DEF Read
  <2>2. stream[s].cursor + n \in Nat /\ stream[s].cursor + n > stream[s].cursor
    BY <1>1, SubscriptionAssumption
  <2> DEFINE row == [stream[s] EXCEPT !.pc = "send", !.last = stream[s].cursor + n]
  <2>3. /\ row \in StreamState /\ row.pc = "send" /\ row.opens = stream[s].opens
        /\ row.cursor = stream[s].cursor /\ row.delivered = stream[s].delivered
        /\ row.last = stream[s].cursor + n
    BY <1>1, <1>3, <2>2, Zenon DEF StreamState
  <2>4. stream' = [stream EXCEPT ![s] = row]
    BY <2>1, Zenon
  <2>5. /\ stream[s].pc = "read"
        /\ UNCHANGED <<log, notes, woken, responses, batches, writer, client, faults>>
    BY <1>9, Zenon DEF Read
  <2> HIDE DEF row
  <2> QED
    BY <1>1, <2>2, <2>3, <2>4, <2>5, TurnStep, Zenon
<1> QED
  BY <1>5, <1>6, <1>7, <1>8, <1>9, Zenon

-----------------------------------------------------------------------------
(***************************************************************************)
(* A batch is queued.                                                      *)
(***************************************************************************)
LEMMA SendStep ==
    ASSUME IInv, NEW s \in Streams, Send(s)
    PROVE  IInv'
<1>1. TypeOK /\ stream[s] \in StreamState
  BY Zenon DEF IInv, TypeOK
<1>2. /\ stream[s].cursor \in Nat /\ stream[s].last \in Nat /\ stream[s].opens \in Nat
      /\ stream[s].pc = "send" /\ stream[s].last > stream[s].cursor
  BY <1>1, Zenon DEF StreamState, Send, IInv, Told
<1> PICK N \in Nat : N = Len(batches)
  BY <1>1 DEF TypeOK
<1> PICK c \in Nat, last \in Nat, n \in Nat : c = stream[s].cursor /\ last = stream[s].last /\ n = stream[s].opens
  BY <1>2, Zenon
<1> PICK b : b = Batch(s)
  BY Zenon
<1> DEFINE row == [stream[s] EXCEPT !.pc = "read", !.cursor = stream[s].last]
<1>3. c + 1 \in Nat /\ c + 1 - 1 = c /\ last > c
  BY <1>2
<1>4. b \in Frames("batch") /\ b.s = s /\ b.n = n /\ b.from = c + 1 /\ b.cursor = last
  BY <1>2, <1>3, Zenon DEF Batch, Frames
<1>5. /\ row \in StreamState /\ row.pc = "read" /\ row.opens = n
      /\ row.cursor = last /\ row.delivered = stream[s].delivered
  BY <1>1, <1>2, Zenon DEF StreamState, Phases
<1>6. /\ stream' = [stream EXCEPT ![s] = row] /\ batches' = Append(batches, b)
      /\ UNCHANGED <<log, notes, woken, responses, writer, client, faults>>
  BY Zenon DEF Send
<1> HIDE DEF row
<1>7. /\ DOMAIN batches = 1..N /\ DOMAIN batches' = 1..(N + 1) /\ Len(batches') = N + 1
      /\ \A i \in 1..N : batches'[i] = batches[i]
      /\ batches'[N + 1] = b
  BY <1>1, <1>4, <1>6 DEF TypeOK
<1>8. TypeOK'
  BY <1>1, <1>4, <1>5, <1>6 DEF TypeOK
<1>9. /\ \A t, e : Has(t, e)' <=> Has(t, e)
      /\ \A t, e : OnWire(t, e)' <=> OnWire(t, e)
      /\ \A t : Announced(t)' <=> Announced(t)
  BY <1>6, Zenon DEF Has, OnWire, Announced
<1>10. \A t, e : \A i \in 1..(N + 2) : Covered(t, e, i) => Covered(t, e, i)'
  BY <1>7, <1>9 DEF Covered, Queued
<1>11. /\ \A t \in Streams : t # s => stream'[t] = stream[t]
       /\ stream'[s].opens = n /\ stream'[s].cursor = last /\ stream'[s].pc = "read"
       /\ \A t \in Streams : stream'[t].opens = stream[t].opens /\ stream'[t].delivered = stream[t].delivered
  BY <1>1, <1>5, <1>6, Zenon DEF TypeOK
<1>12. OneRun'
  BY <1>6, Zenon DEF IInv, OneRun
<1>13. Told'
  BY <1>6, <1>9, <1>11, <1>2 DEF IInv, Told
<1>14. /\ c >= client[s].origin /\ client[s].origin \in Nat /\ n >= 1
       /\ Covered(s, c, N + 1) /\ (client[s].acked >= n \/ Announced(s))
  BY <1>1, <1>2 DEF IInv, StreamsFit, Told, TypeOK, ClientState
<1>22. client[s].origin < c + 1 /\ c + 1 <= last
  <2>1. \A o \in Nat : c >= o => o < c + 1
    OBVIOUS
  <2> QED
    BY <1>3, <1>14, <2>1, SMTT(30)
<1>15. BatchesFit'
  <2> SUFFICES ASSUME NEW i \in 1..(N + 1), NEW f, f = batches'[i]
               PROVE  /\ Fits(f)' /\ Covered(f.s, f.from - 1, i)'
                      /\ client[f.s].acked >= f.n \/ Announced(f.s)
    BY <1>6, <1>7, <1>9, Zenon DEF BatchesFit
  <2>1. CASE i \in 1..N
    <3>1. f = batches[i] /\ f.s \in Streams /\ i \in DOMAIN batches
      BY <1>1, <1>7, <2>1, QueueKinds, Zenon
    <3>2. Fits(f) /\ Covered(f.s, f.from - 1, i) /\ (client[f.s].acked >= f.n \/ Announced(f.s))
      BY <3>1, Zenon DEF IInv, BatchesFit
    <3>3. Fits(f)'
      BY <1>6, <1>11, <3>1, <3>2, Zenon DEF Fits
    <3>4. Covered(f.s, f.from - 1, i)'
      BY <1>10, <2>1, <3>2
    <3> QED
      BY <3>2, <3>3, <3>4, Zenon
  <2>2. CASE i = N + 1
    <3>1. f = b
      BY <1>7, <2>2, Zenon
    <3>2. Covered(f.s, f.from - 1, i)'
      BY <1>3, <1>4, <1>10, <1>14, <2>2, <3>1, SMTT(30)
    <3>3. Fits(f)'
      BY <1>4, <1>6, <1>11, <1>14, <1>22, <3>1 DEF Fits
    <3> QED
      BY <1>4, <1>14, <3>1, <3>2, <3>3, Zenon
  <2> QED
    BY <1>7, <2>1, <2>2
<1>16. StreamsFit'
  <2> SUFFICES ASSUME NEW t \in Streams, stream'[t].pc # "off", NEW e, e = stream'[t].cursor
               PROVE  /\ e >= client[t].origin
                      /\ Covered(t, e, N + 2)'
                      /\ client[t].acked >= stream'[t].opens \/ Announced(t)
    BY <1>6, <1>7, <1>9 DEF StreamsFit
  <2>1. CASE t = s
    <3>1. e = last
      BY <1>11, <2>1, Zenon
    <3>2. Queued(s, last, N + 2)'
      BY <1>4, <1>7 DEF Queued
    <3> QED
      BY <1>3, <1>11, <1>14, <2>1, <3>1, <3>2 DEF Covered
  <2>2. CASE t # s
    <3>1. stream[t].pc # "off" /\ e = stream[t].cursor /\ stream'[t].opens = stream[t].opens
      BY <1>11, <2>2, Zenon
    <3>2. /\ e >= client[t].origin /\ Covered(t, e, N + 1)
          /\ client[t].acked >= stream'[t].opens \/ Announced(t)
      BY <3>1, Zenon DEF IInv, StreamsFit
    <3>3. Covered(t, e, N + 2)
      BY <3>2 DEF Covered, Queued
    <3> QED
      BY <1>10, <3>2, <3>3
  <2> QED
    BY <2>1, <2>2, Zenon
<1>17. \A f : f.s \in Streams /\ Current(f) => Current(f)'
  BY <1>2, <1>6, <1>9, <1>11, Zenon DEF Current
<1>18. ResponsesFit'
  BY <1>1, <1>6, <1>17, QueueKinds, Zenon DEF IInv, ResponsesFit, After
<1>19. WriterFits'
  BY <1>1, <1>6, <1>9, <1>11, <1>17, WriterKinds, Zenon DEF IInv, WriterFits, Fits, After
<1>20. Awake'
  BY <1>6, <1>11, Zenon DEF IInv, Awake
<1> QED
  BY <1>8, <1>12, <1>13, <1>15, <1>16, <1>18, <1>19, <1>20, Zenon DEF IInv

-----------------------------------------------------------------------------
(***************************************************************************)
(* Answers and closings are queued.                                        *)
(***************************************************************************)
LEMMA CloseStep ==
    ASSUME IInv, NEW s \in Streams, Close(s)
    PROVE  IInv'
<1>1. TypeOK /\ stream[s] \in StreamState
  BY Zenon DEF IInv, TypeOK
<1>2. stream[s].delivered \in Nat /\ stream[s].opens \in Nat /\ stream[s].pc = "close"
  BY <1>1, Zenon DEF StreamState, Close
<1> PICK N \in Nat : N = Len(responses)
  BY <1>1 DEF TypeOK
<1> PICK d \in Nat, n \in Nat : d = stream[s].delivered /\ n = stream[s].opens
  BY <1>2, Zenon
<1> PICK f : f = [kind |-> "closed", s |-> s, n |-> n, cursor |-> d]
  BY Zenon
<1> DEFINE row == [stream[s] EXCEPT !.pc = "off"]
<1>3. f \in Closings /\ f.kind = "closed" /\ f.s = s /\ f.n = n /\ f.cursor = d
  BY Zenon DEF Closings
<1>4. /\ row \in StreamState /\ row.pc = "off" /\ row.opens = n
      /\ row.cursor = stream[s].cursor /\ row.delivered = d
  BY <1>1, <1>2, Zenon DEF StreamState, Phases
<1>5. /\ stream' = [stream EXCEPT ![s] = row] /\ responses' = Append(responses, f)
      /\ UNCHANGED <<log, notes, woken, batches, writer, client, faults>>
  BY Zenon DEF Close, Closed
<1> HIDE DEF row
<1>6. /\ DOMAIN responses = 1..N /\ DOMAIN responses' = 1..(N + 1)
      /\ \A i \in 1..N : responses'[i] = responses[i]
      /\ responses'[N + 1] = f
  BY <1>1, <1>3, <1>5 DEF TypeOK
<1>7. TypeOK'
  BY <1>1, <1>3, <1>4, <1>5 DEF TypeOK
<1>8. /\ \A t, e : Has(t, e)' <=> Has(t, e)
      /\ \A t, e, i : Covered(t, e, i)' <=> Covered(t, e, i)
  BY <1>5, Zenon DEF Has, Covered, OnWire, Queued
<1>9. \A t : Announced(t)' <=> Announced(t)
  BY <1>3, <1>5, <1>6 DEF Announced
<1>10. /\ \A t \in Streams : t # s => stream'[t] = stream[t]
       /\ stream'[s].pc = "off"
       /\ \A t \in Streams : /\ stream'[t].opens = stream[t].opens /\ stream'[t].delivered = stream[t].delivered
                             /\ stream'[t].cursor = stream[t].cursor
  BY <1>1, <1>4, <1>5, Zenon DEF TypeOK
<1>11. OneRun'
  BY <1>5, Zenon DEF IInv, OneRun
<1>12. Told'
  BY <1>2, <1>5, <1>8, <1>10, SMTT(30) DEF IInv, Told
<1>13. BatchesFit'
  BY <1>1, <1>5, <1>8, <1>9, <1>10, QueueKinds DEF IInv, BatchesFit, Fits
<1>14. StreamsFit'
  BY <1>5, <1>8, <1>9, <1>10, Zenon DEF IInv, StreamsFit
<1>15. client[s].closed < n /\ n > 0 /\ Has(s, d)
  BY <1>1, <1>2 DEF IInv, Told, TypeOK, ClientState
<1>16. \A g : g.s \in Streams /\ Current(g) => Current(g)'
  BY <1>2, <1>5, <1>8, <1>10, Zenon DEF Current
<1>17. Current(f)'
  BY <1>3, <1>5, <1>8, <1>10, <1>15, Zenon DEF Current
<1>18. \A i \in DOMAIN responses : responses[i].kind = "closed" => responses[i].s # s
  BY <1>2, Zenon DEF IInv, ResponsesFit, Current
<1>19. ResponsesFit'
  <2>1. ASSUME NEW i \in 1..(N + 1), NEW g, g = responses'[i] PROVE Current(g)'
    <3>1. CASE i \in 1..N
      <4>1. g = responses[i] /\ g.s \in Streams /\ Current(g)
        BY <1>1, <1>6, <2>1, <3>1, QueueKinds, Zenon DEF IInv, ResponsesFit
      <4> QED
        BY <1>16, <4>1, Zenon
    <3>2. CASE i = N + 1
      BY <1>6, <1>17, <2>1, <3>2, Zenon
    <3> QED
      BY <3>1, <3>2
  <2>2. \A i, j \in 1..(N + 1) : i < j => After(responses'[i], responses'[j])
    <3> SUFFICES ASSUME NEW i \in 1..(N + 1), NEW j \in 1..(N + 1), i < j
                 PROVE  After(responses'[i], responses'[j])
      BY Zenon
    <3>1. i \in 1..N
      OBVIOUS
    <3>2. CASE j \in 1..N
      BY <1>6, <3>1, <3>2, Zenon DEF IInv, ResponsesFit
    <3>3. CASE j = N + 1
      BY <1>3, <1>6, <1>18, <3>1, <3>3, Zenon DEF After
    <3> QED
      BY <3>2, <3>3
  <2> QED
    BY <1>6, <2>1, <2>2, Zenon DEF ResponsesFit, After
<1>20. WriterFits'
  <2>1. ASSUME writer.kind \in {"subscribed", "closed"}
        PROVE  Current(writer)' /\ \A j \in DOMAIN responses' : After(writer, responses'[j])
    <3>1. Current(writer) /\ writer.s \in Streams /\ \A j \in DOMAIN responses : After(writer, responses[j])
      BY <1>1, <2>1, WriterKinds, Zenon DEF IInv, WriterFits
    <3>2. writer.kind = "closed" => writer.s # s
      BY <1>2, <3>1, Zenon DEF Current
    <3>3. Current(writer)'
      BY <1>5, <1>16, <3>1, Zenon
    <3>4. \A j \in 1..(N + 1) : After(writer, responses'[j])
      BY <1>3, <1>6, <3>1, <3>2 DEF After
    <3> QED
      BY <1>6, <3>3, <3>4, Zenon
  <2>2. writer.kind \in {"batch", "mark"} => writer.s \in Streams
    BY <1>1, WriterKinds, Zenon
  <2> QED
    BY <1>5, <1>8, <1>10, <2>1, <2>2, Zenon DEF IInv, WriterFits, Fits, After
<1>21. Awake'
  BY <1>5, <1>10, Zenon DEF IInv, Awake
<1> QED
  BY <1>7, <1>11, <1>12, <1>13, <1>14, <1>19, <1>20, <1>21, Zenon DEF IInv

\* What a consumer has reached lies at or behind its origin.
LEMMA HasBound ==
    ASSUME IInv, NEW s \in Streams, NEW e, Has(s, e)
    PROVE  e \in Nat /\ e >= client[s].origin
<1>1. client[s].origin \in Nat
  BY Zenon DEF IInv, TypeOK, ClientState
<1>2. PICK t \in Nat : client[s].got = (client[s].origin + 1) .. t
  BY Zenon DEF IInv, OneRun
<1> QED
  BY <1>1, <1>2 DEF Has

LEMMA AdmitStep ==
    ASSUME IInv, NEW s \in Streams, admit(s)
    PROVE  IInv'
<1>1. TypeOK /\ stream[s] \in StreamState /\ client[s] \in ClientState
  BY Zenon DEF IInv, TypeOK
<1> PICK n \in Nat : n = stream[s].opens
  BY <1>1, Zenon DEF StreamState
<1>2. /\ stream[s].pc = "off" /\ client[s].closed = n
      /\ UNCHANGED <<log, notes, woken, batches, writer, faults>>
  BY Zenon DEF admit
<1>3. PICK c \in StartCursors(s) :
         /\ stream' = [stream EXCEPT ![s] = Opened(s, c)]
         /\ client' = [client EXCEPT ![s].origin = IF stream[s].opens = 0 THEN c ELSE @]
         /\ responses' = Append(responses, [kind |-> "subscribed", s |-> s, n |-> stream[s].opens + 1])
  BY Zenon DEF admit
<1>4. c \in Nat
  BY <1>1 DEF StartCursors, TypeOK, ClientState
<1> PICK f : f = [kind |-> "subscribed", s |-> s, n |-> n + 1]
  BY Zenon
<1> PICK N \in Nat : N = Len(responses)
  BY <1>1 DEF TypeOK
<1>5. f \in Answers /\ f.kind = "subscribed" /\ f.s = s /\ f.n = n + 1
  BY DEF Answers
<1>6. /\ DOMAIN responses = 1..N /\ DOMAIN responses' = 1..(N + 1)
      /\ \A i \in 1..N : responses'[i] = responses[i]
      /\ responses'[N + 1] = f
  BY <1>1, <1>3, <1>5 DEF TypeOK
<1> DEFINE o == IF n = 0 THEN c ELSE client[s].origin
           C == [client[s] EXCEPT !.origin = o]
           S == Opened(s, c)
<1>7. /\ S \in StreamState /\ S.pc = "start" /\ S.opens = n + 1 /\ S.cursor = c /\ S.delivered = c
  BY <1>4 DEF Opened, StreamState, Phases
<1>8. o \in Nat
  BY <1>1, <1>4, Zenon DEF ClientState
<1>9. /\ C \in ClientState /\ C.origin = o /\ C.closed = client[s].closed /\ C.acked = client[s].acked
      /\ C.resume = client[s].resume /\ C.got = client[s].got
  BY <1>1, <1>8, Zenon DEF ClientState
<1>10. stream' = [stream EXCEPT ![s] = S] /\ client' = [client EXCEPT ![s] = C]
  BY <1>3, Zenon
<1> HIDE DEF S, C
<1>11. TypeOK'
  <2>1. responses' = Append(responses, f) /\ f \in Answers \cup Closings
    BY <1>3, <1>5, Zenon
  <2>2. responses' \in Seq(Answers \cup Closings)
    BY <1>1, <2>1 DEF TypeOK
  <2>3. stream' \in [Streams -> StreamState] /\ client' \in [Streams -> ClientState]
    BY <1>1, <1>7, <1>9, <1>10, Zenon DEF TypeOK
  <2> QED
    BY <1>1, <1>2, <2>2, <2>3, Zenon DEF TypeOK
<1>12. /\ \A t \in Streams : t # s => stream'[t] = stream[t] /\ client'[t] = client[t]
       /\ stream'[s] = S /\ client'[s] = C
  BY <1>1, <1>10, Zenon DEF TypeOK
<1>13. \A t \in Streams : /\ client'[t].closed = client[t].closed /\ client'[t].acked = client[t].acked
                          /\ client'[t].resume = client[t].resume /\ client'[t].got = client[t].got
                          /\ stream[t].opens > 0 => client'[t].origin = client[t].origin
  BY <1>9, <1>12
<1> HIDE DEF o
\* Frames on their way are of streams that were opened before.
<1>14. /\ \A i \in DOMAIN batches : batches[i].s \in Streams /\ stream[batches[i].s].opens > 0
       /\ \A i \in DOMAIN responses : responses[i].s \in Streams /\ responses[i].s # s
       /\ writer.kind \in {"subscribed", "closed"} => writer.s \in Streams /\ writer.s # s
       /\ writer.kind \in {"batch", "mark"} => writer.s \in Streams /\ stream[writer.s].opens > 0
  <2>1. \A t \in Streams : stream[t].opens \in Nat /\ client[t].closed \in Nat
    BY <1>1, Zenon DEF TypeOK, StreamState, ClientState
  <2>2. \A i \in DOMAIN batches : batches[i].s \in Streams /\ stream[batches[i].s].opens > 0
    BY <1>1, <2>1, QueueKinds, SMTT(30) DEF IInv, BatchesFit, Fits
  <2>3. \A i \in DOMAIN responses : responses[i].s \in Streams /\ responses[i].s # s
    BY <1>1, <1>2, <2>1, QueueKinds DEF IInv, ResponsesFit, Current
  <2>4. writer.kind \in {"subscribed", "closed"} => writer.s \in Streams /\ writer.s # s
    BY <1>1, <1>2, <2>1, WriterKinds DEF IInv, WriterFits, Current
  <2>5. writer.kind = "batch" => writer.s \in Streams /\ writer.n \in Nat /\ stream[writer.s].opens > 0
    <3>1. writer.kind = "batch" => writer.s \in Streams /\ writer.n \in Nat
      BY <1>1, WriterKinds, Zenon DEF Frames
    <3> QED
      BY <2>1, <3>1 DEF IInv, WriterFits, Fits
  <2>6. writer.kind = "mark" => writer.s \in Streams /\ stream[writer.s].opens > 0
    BY <1>1, WriterKinds, Zenon DEF IInv, WriterFits
  <2> QED
    BY <2>2, <2>3, <2>4, <2>5, <2>6, Zenon
<1>15. \A t \in Streams : \A e : stream[t].opens > 0 => (Has(t, e)' <=> Has(t, e))
  BY <1>13, Zenon DEF Has
<1>16. \A t \in Streams : \A e, i : stream[t].opens > 0 => (Covered(t, e, i)' <=> Covered(t, e, i))
  BY <1>2, <1>15, Zenon DEF Covered, OnWire, Queued
<1>17. \A t \in Streams : t # s => (Has(t, c)' <=> Has(t, c)) /\ \A e, i : Covered(t, e, i) => Covered(t, e, i)'
  BY <1>2, <1>12, Zenon DEF Has, Covered, OnWire, Queued
<1>18. Has(s, c)' /\ c >= o
  <2>1. CASE n = 0
    BY <1>4, <1>9, <1>12, <2>1 DEF Has, o
  <2>2. CASE n # 0
    <3>1. c = client[s].resume
      BY <2>2, Zenon DEF StartCursors
    <3>2. Has(s, c)
      BY <1>2, <2>2, <3>1 DEF IInv, Told
    <3>3. c >= client[s].origin
      BY <3>2, HasBound, Zenon
    <3> QED
      BY <1>15, <2>2, <3>2, <3>3 DEF o
  <2> QED
    BY <2>1, <2>2, Zenon
<1>19. Announced(s)' /\ \A t : Announced(t) => Announced(t)'
  BY <1>2, <1>5, <1>6 DEF Announced
<1>20. OneRun'
  <2> SUFFICES ASSUME NEW t \in Streams
               PROVE  \E k \in Nat : k >= client'[t].origin /\ client'[t].got = (client'[t].origin + 1) .. k
    BY Zenon DEF OneRun
  <2>1. CASE t # s \/ n # 0
    BY <1>12, <1>13, <2>1 DEF IInv, OneRun
  <2>2. CASE t = s /\ n = 0
    <3>1. client'[t].origin = c /\ client'[t].got = {}
      BY <1>9, <1>12, <2>2, Zenon DEF IInv, Told, o
    <3>2. c >= c /\ {} = (c + 1) .. c
      BY <1>4
    <3> QED
      BY <1>4, <3>1, <3>2, Zenon
  <2> QED
    BY <2>1, <2>2, Zenon
<1>21. Told'
  <2> SUFFICES ASSUME NEW t \in Streams
               PROVE  /\ client'[t].closed <= stream'[t].opens
                      /\ stream'[t].opens = 0 => stream'[t].pc = "off" /\ client'[t].got = {} /\ client'[t].resume = 0
                      /\ stream'[t].opens > 0 => Has(t, stream[t].delivered)'
                      /\ client'[t].closed > 0 => Has(t, client[t].resume)'
                      /\ client'[t].closed = 0 => client'[t].resume = 0
                      /\ stream'[t].pc # "off" => client'[t].closed < stream'[t].opens
                      /\ stream'[t].pc = "send" => stream'[t].last > stream'[t].cursor
    BY Zenon DEF Told
  <2>1. CASE t # s
    BY <1>12, <2>1, Zenon DEF IInv, Told, Has
  <2>2. CASE t = s
    <3>1. n + 1 # 0 /\ n <= n + 1 /\ n < n + 1 /\ n + 1 > 0
      OBVIOUS
    <3>2. Has(s, stream[s].delivered)'
      BY <1>7, <1>12, <1>18, Zenon DEF Has
    <3>3. client'[s].closed > 0 => Has(s, client[s].resume)'
      BY <1>2, <1>13, <1>15, Zenon DEF IInv, Told, Has
    <3> QED
      BY <1>2, <1>7, <1>9, <1>12, <2>2, <3>1, <3>2, <3>3, Zenon DEF IInv, Told
  <2> QED
    BY <2>1, <2>2, Zenon
<1>22. BatchesFit'
  <2> SUFFICES ASSUME NEW i \in DOMAIN batches, NEW b, b = batches[i]
               PROVE  /\ Fits(b)' /\ Covered(b.s, b.from - 1, i)'
                      /\ client'[b.s].acked >= b.n \/ Announced(b.s)'
    BY <1>2, Zenon DEF BatchesFit
  <2>1. b.s \in Streams /\ stream[b.s].opens > 0 /\ b.n \in Nat
    BY <1>1, <1>14, QueueKinds, Zenon
  <2>2. Fits(b) /\ Covered(b.s, b.from - 1, i) /\ (client[b.s].acked >= b.n \/ Announced(b.s))
    BY Zenon DEF IInv, BatchesFit
  <2>3. b.n <= stream'[b.s].opens
    <3>1. b.n <= stream[b.s].opens
      BY <2>2, Zenon DEF Fits
    <3>2. b.n <= n => b.n <= n + 1
      BY <2>1
    <3> QED
      BY <1>7, <1>12, <2>1, <3>1, <3>2, Zenon
  <2>4. Fits(b)'
    BY <1>13, <2>1, <2>2, <2>3, Zenon DEF Fits
  <2> QED
    BY <1>13, <1>16, <1>19, <2>1, <2>2, <2>4, Zenon
<1>23. StreamsFit'
  <2> SUFFICES ASSUME NEW t \in Streams, stream'[t].pc # "off", NEW e, e = stream'[t].cursor
               PROVE  /\ e >= client'[t].origin
                      /\ Covered(t, e, Len(batches) + 1)'
                      /\ client'[t].acked >= stream'[t].opens \/ Announced(t)'
    BY Zenon DEF StreamsFit
  <2>1. CASE t = s
    BY <1>7, <1>9, <1>12, <1>18, <1>19, <2>1, Zenon DEF Covered
  <2>2. CASE t # s
    <3>1. stream'[t] = stream[t] /\ client'[t] = client[t]
      BY <1>12, <2>2, Zenon
    <3>2. e >= client[t].origin /\ Covered(t, e, Len(batches) + 1) /\ (client[t].acked >= stream[t].opens \/ Announced(t))
      BY <3>1, Zenon DEF IInv, StreamsFit
    <3>3. Covered(t, e, Len(batches) + 1)'
      BY <1>2, <3>1, <3>2, Zenon DEF Covered, OnWire, Queued, Has
    <3> QED
      BY <1>19, <3>1, <3>2, <3>3, Zenon
  <2> QED
    BY <2>1, <2>2, Zenon
<1>24. \A g : g.s \in Streams /\ g.s # s /\ Current(g) => Current(g)'
  BY <1>12, Zenon DEF Current, Has
<1>25. Current(f)'
  <2>1. n < n + 1
    OBVIOUS
  <2> QED
    BY <1>2, <1>5, <1>7, <1>9, <1>12, <2>1, Zenon DEF Current
<1>26. ResponsesFit'
  <2>1. ASSUME NEW i \in 1..(N + 1), NEW g, g = responses'[i] PROVE Current(g)'
    <3>1. CASE i \in 1..N
      <4>1. g = responses[i] /\ g.s \in Streams /\ g.s # s /\ Current(g)
        BY <1>6, <1>14, <2>1, <3>1, Zenon DEF IInv, ResponsesFit
      <4> QED
        BY <1>24, <4>1, Zenon
    <3>2. CASE i = N + 1
      BY <1>6, <1>25, <2>1, <3>2, Zenon
    <3> QED
      BY <3>1, <3>2
  <2>2. \A i, j \in 1..(N + 1) : i < j => After(responses'[i], responses'[j])
    <3> SUFFICES ASSUME NEW i \in 1..(N + 1), NEW j \in 1..(N + 1), i < j
                 PROVE  After(responses'[i], responses'[j])
      BY Zenon
    <3>1. i \in 1..N
      OBVIOUS
    <3>2. CASE j \in 1..N
      BY <1>6, <3>1, <3>2, Zenon DEF IInv, ResponsesFit
    <3>3. CASE j = N + 1
      BY <1>5, <1>6, <1>14, <3>1, <3>3, Zenon DEF After
    <3> QED
      BY <3>2, <3>3
  <2> QED
    BY <1>6, <2>1, <2>2, Zenon DEF ResponsesFit, After
<1>27. WriterFits'
  <2>1. ASSUME writer.kind \in {"subscribed", "closed"}
        PROVE  Current(writer)' /\ \A j \in DOMAIN responses' : After(writer, responses'[j])
    <3>1. Current(writer) /\ writer.s \in Streams /\ writer.s # s /\ \A j \in DOMAIN responses : After(writer, responses[j])
      BY <1>14, <2>1, Zenon DEF IInv, WriterFits
    <3>2. Current(writer)'
      BY <1>2, <1>24, <3>1, Zenon
    <3>3. \A j \in 1..(N + 1) : After(writer, responses'[j])
      <4>1. \A j \in 1..N : After(writer, responses'[j])
        BY <1>6, <3>1, Zenon
      <4>2. After(writer, responses'[N + 1])
        BY <1>5, <1>6, <3>1, Zenon DEF After
      <4> QED
        BY <4>1, <4>2
    <3> QED
      BY <1>6, <3>2, <3>3, Zenon
  <2>2. ASSUME writer.kind = "batch"
        PROVE  Fits(writer)' /\ Has(writer.s, writer.from - 1)' /\ client'[writer.s].acked >= writer.n
    <3>1. /\ Fits(writer) /\ Has(writer.s, writer.from - 1) /\ client[writer.s].acked >= writer.n
          /\ writer.s \in Streams /\ stream[writer.s].opens > 0
      BY <1>14, <2>2, Zenon DEF IInv, WriterFits
    <3>2. writer.n \in Nat
      BY <1>1, <2>2, WriterKinds, Zenon DEF Frames
    <3>3. writer.n <= stream'[writer.s].opens
      <4>1. writer.n <= stream[writer.s].opens
        BY <3>1, Zenon DEF Fits
      <4>2. writer.n <= n => writer.n <= n + 1
        BY <3>2
      <4> QED
        BY <1>7, <1>12, <3>1, <4>1, <4>2, Zenon
    <3>4. Fits(writer)'
      BY <1>2, <1>13, <3>1, <3>3, Zenon DEF Fits
    <3> QED
      BY <1>2, <1>13, <1>15, <3>1, <3>4, Zenon
  <2>3. ASSUME writer.kind = "mark"
        PROVE  Has(writer.s, writer.cursor)' /\ stream'[writer.s].opens > 0
    <3>1. Has(writer.s, writer.cursor) /\ writer.s \in Streams /\ stream[writer.s].opens > 0
      BY <1>14, <2>3, Zenon DEF IInv, WriterFits
    <3>2. stream'[writer.s].opens > 0
      BY <1>7, <1>12, <3>1
    <3> QED
      BY <1>2, <1>15, <3>1, <3>2, Zenon
  <2> QED
    BY <1>2, <2>1, <2>2, <2>3, Zenon DEF WriterFits, After
<1>28. Awake'
  BY <1>2, <1>7, <1>12, Zenon DEF IInv, Awake
<1> QED
  BY <1>11, <1>20, <1>21, <1>22, <1>23, <1>26, <1>27, <1>28, Zenon DEF IInv

-----------------------------------------------------------------------------
(***************************************************************************)
(* The writer takes a frame: a batch only when no answer is waiting.       *)
(***************************************************************************)
LEMMA Shift ==
    ASSUME NEW A, NEW q \in Seq(A), q # <<>>, NEW N \in Nat, N = Len(q)
    PROVE  /\ N >= 1 /\ Head(q) = q[1] /\ q[1] \in A /\ Tail(q) \in Seq(A)
           /\ DOMAIN q = 1..N /\ DOMAIN Tail(q) = 1..(N - 1) /\ Len(Tail(q)) = N - 1
           /\ \A i \in 1..(N - 1) : Tail(q)[i] = q[i + 1]
OBVIOUS

LEMMA TakeAnswer ==
    ASSUME IInv, writer = Nothing, responses # <<>>, writer' = Head(responses),
           responses' = Tail(responses),
           UNCHANGED <<log, notes, stream, woken, batches, client, faults>>
    PROVE  IInv'
<1>1. TypeOK
  BY Zenon DEF IInv
<1>2. writer.kind = "none"
  BY Zenon DEF Nothing
<1> PICK N \in Nat : N = Len(responses)
  BY <1>1 DEF TypeOK
<1> PICK f : f = responses[1]
  BY Zenon
<1>3. responses \in Seq(Answers \cup Closings)
  BY <1>1, Zenon DEF TypeOK
<1>4. /\ N >= 1 /\ writer' = f /\ f \in Answers \cup Closings /\ responses' \in Seq(Answers \cup Closings)
      /\ DOMAIN responses = 1..N /\ DOMAIN responses' = 1..(N - 1)
      /\ \A i \in 1..(N - 1) : responses'[i] = responses[i + 1]
  BY <1>3, Shift, Zenon
<1>5. f.kind \in {"subscribed", "closed"}
  BY <1>4, Zenon DEF Answers, Closings
<1>6. TypeOK'
  BY <1>1, <1>4, Zenon DEF TypeOK
<1>7. \A t, e : Has(t, e)' <=> Has(t, e)
  BY Zenon DEF Has
<1>8. \A t, e, i : Covered(t, e, i) => Covered(t, e, i)'
  BY <1>2, <1>7, Zenon DEF Covered, OnWire, Queued
<1>9. \A t : Announced(t) => Announced(t)'
  <2> SUFFICES ASSUME NEW t, Announced(t) PROVE Announced(t)'
    BY Zenon
  <2>1. PICK k \in 1..N : responses[k].kind = "subscribed" /\ responses[k].s = t
    BY <1>2, <1>4, Zenon DEF Announced
  <2>2. CASE k = 1
    BY <1>4, <2>1, <2>2, Zenon DEF Announced
  <2>3. CASE k # 1
    <3>1. k - 1 \in 1..(N - 1) /\ (k - 1) + 1 = k
      BY <2>3
    <3>2. responses'[k - 1] = responses[k]
      BY <1>4, <3>1, Zenon
    <3> QED
      BY <1>4, <2>1, <3>1, <3>2, Zenon DEF Announced
  <2> QED
    BY <2>2, <2>3, Zenon
<1>10. \A g : Current(g) => Current(g)'
  BY Zenon DEF Current, Has
<1>11. OneRun' /\ Told' /\ Awake'
  BY <1>7, Zenon DEF IInv, OneRun, Told, Awake, Has
<1>12. BatchesFit'
  BY <1>8, <1>9, Zenon DEF IInv, BatchesFit, Fits
<1>13. StreamsFit'
  <2> SUFFICES ASSUME NEW t \in Streams, stream[t].pc # "off", NEW e, e = stream[t].cursor,
                      NEW k, k = Len(batches) + 1
               PROVE  /\ e >= client[t].origin /\ Covered(t, e, k)'
                      /\ client[t].acked >= stream[t].opens \/ Announced(t)'
    BY Zenon DEF StreamsFit
  <2> QED
    BY <1>8, <1>9, Zenon DEF IInv, StreamsFit
<1>14. \A i \in 1..(N - 1) : i + 1 \in 1..N /\ 1 < i + 1
  OBVIOUS
<1>15. ResponsesFit'
  <2>1. ASSUME NEW i \in 1..(N - 1), NEW g, g = responses'[i] PROVE Current(g)'
    <3>1. Current(g)
      BY <1>4, <1>14, <2>1, Zenon DEF IInv, ResponsesFit
    <3> QED
      BY <1>10, <3>1, Zenon
  <2>2. \A i, j \in 1..(N - 1) : i < j => After(responses'[i], responses'[j])
    <3> SUFFICES ASSUME NEW i \in 1..(N - 1), NEW j \in 1..(N - 1), i < j
                 PROVE  After(responses'[i], responses'[j])
      BY Zenon
    <3>1. i + 1 < j + 1
      OBVIOUS
    <3>2. After(responses[i + 1], responses[j + 1])
      BY <1>4, <1>14, <3>1, Zenon DEF IInv, ResponsesFit
    <3> QED
      BY <1>4, <3>2, Zenon
  <2> QED
    BY <1>4, <2>1, <2>2, Zenon DEF ResponsesFit, After
<1>16. WriterFits'
  <2>1. 1 \in 1..N
    BY <1>4
  <2>2. Current(f)'
    BY <1>4, <1>10, <2>1, Zenon DEF IInv, ResponsesFit
  <2>3. \A j \in 1..(N - 1) : After(f, responses'[j])
    <3> SUFFICES ASSUME NEW j \in 1..(N - 1) PROVE After(f, responses'[j])
      BY Zenon
    <3>1. After(responses[1], responses[j + 1])
      BY <1>4, <1>14, <2>1, Zenon DEF IInv, ResponsesFit
    <3> QED
      BY <1>4, <3>1, Zenon
  <2>4. Current(writer)'
    BY <1>4, <2>2, Zenon DEF Current, Has
  <2> QED
    BY <1>4, <1>5, <2>3, <2>4, Zenon DEF WriterFits, After
<1> QED
  BY <1>6, <1>11, <1>12, <1>13, <1>15, <1>16, Zenon DEF IInv

LEMMA TakeBatch ==
    ASSUME IInv, writer = Nothing, responses = <<>>, batches # <<>>, writer' = Head(batches),
           batches' = Tail(batches),
           UNCHANGED <<log, notes, stream, woken, responses, client, faults>>
    PROVE  IInv'
<1>1. TypeOK
  BY Zenon DEF IInv
<1>2. writer.kind = "none"
  BY Zenon DEF Nothing
<1> PICK N \in Nat : N = Len(batches)
  BY <1>1 DEF TypeOK
<1> PICK b : b = batches[1]
  BY Zenon
<1>3. batches \in Seq(Frames("batch"))
  BY <1>1, Zenon DEF TypeOK
<1>4. /\ N >= 1 /\ writer' = b /\ b \in Frames("batch") /\ batches' \in Seq(Frames("batch"))
      /\ DOMAIN batches = 1..N /\ DOMAIN batches' = 1..(N - 1) /\ Len(batches') = N - 1
      /\ \A i \in 1..(N - 1) : batches'[i] = batches[i + 1]
  BY <1>3, Shift, Zenon
<1>5. b.kind = "batch"
  BY <1>4, Zenon DEF Frames
<1>6. TypeOK'
  BY <1>1, <1>4, Zenon DEF TypeOK
<1>7. \A t, e : Has(t, e)' <=> Has(t, e)
  BY Zenon DEF Has
<1>8. \A t : ~Announced(t)
  BY <1>2 DEF Announced
<1>9. \A t, e : \A i \in 1..N : Covered(t, e, i + 1) => Covered(t, e, i)'
  <2> SUFFICES ASSUME NEW t, NEW e, NEW i \in 1..N, Covered(t, e, i + 1)
               PROVE  Covered(t, e, i)'
    BY Zenon
  <2>1. CASE Has(t, e)
    BY <1>7, <2>1, Zenon DEF Covered
  <2>2. ASSUME NEW j \in 1..N, j < i + 1, batches[j].s = t, batches[j].cursor >= e
        PROVE  Covered(t, e, i)'
    <3>1. CASE j = 1
      BY <1>4, <1>5, <2>2, <3>1, Zenon DEF Covered, OnWire
    <3>2. CASE j # 1
      <4>1. j - 1 \in 1..(N - 1) /\ (j - 1) + 1 = j /\ j - 1 < i
        BY <2>2, <3>2
      <4>2. batches'[j - 1] = batches[j]
        BY <1>4, <4>1, Zenon
      <4>3. Queued(t, e, i)'
        BY <1>4, <2>2, <4>1, <4>2, Zenon DEF Queued
      <4> QED
        BY <4>3, Zenon DEF Covered
    <3> QED
      BY <3>1, <3>2, Zenon
  <2> QED
    BY <1>2, <1>4, <2>1, <2>2, Zenon DEF Covered, OnWire, Queued
<1>10. OneRun' /\ Told' /\ Awake'
  BY <1>7, Zenon DEF IInv, OneRun, Told, Awake, Has
<1>11. BatchesFit'
  <2> SUFFICES ASSUME NEW i \in 1..(N - 1), NEW g, g = batches'[i]
               PROVE  /\ Fits(g)' /\ Covered(g.s, g.from - 1, i)' /\ client[g.s].acked >= g.n
    BY <1>4, Zenon DEF BatchesFit
  <2>1. i + 1 \in 1..N /\ i \in 1..N
    OBVIOUS
  <2>2. g = batches[i + 1]
    BY <1>4, Zenon
  <2>3. Fits(g) /\ Covered(g.s, g.from - 1, i + 1) /\ client[g.s].acked >= g.n
    BY <1>4, <1>8, <2>1, <2>2, Zenon DEF IInv, BatchesFit
  <2>4. Fits(g)'
    BY <2>3, Zenon DEF Fits
  <2> QED
    BY <1>9, <2>1, <2>3, <2>4, Zenon
<1>12. StreamsFit'
  <2> SUFFICES ASSUME NEW t \in Streams, stream[t].pc # "off", NEW e, e = stream[t].cursor
               PROVE  /\ e >= client[t].origin /\ Covered(t, e, N)'
                      /\ client[t].acked >= stream[t].opens
    <3>1. Len(batches') + 1 = N
      BY <1>4
    <3> QED
      BY <3>1, Zenon DEF StreamsFit
  <2>1. e >= client[t].origin /\ Covered(t, e, N + 1) /\ client[t].acked >= stream[t].opens
    BY <1>8, Zenon DEF IInv, StreamsFit
  <2>2. N \in 1..N
    BY <1>4
  <2> QED
    BY <1>9, <2>1, <2>2, Zenon
<1>13. ResponsesFit'
  BY DEF ResponsesFit
<1>14. WriterFits'
  <2>1. 1 \in 1..N
    BY <1>4
  <2>2. Fits(b) /\ Covered(b.s, b.from - 1, 1) /\ client[b.s].acked >= b.n
    BY <1>4, <1>8, <2>1, Zenon DEF IInv, BatchesFit
  <2>3. Has(b.s, b.from - 1)
    BY <1>2, <1>4, <2>2 DEF Covered, OnWire, Queued
  <2>4. Fits(b)' /\ Has(b.s, b.from - 1)'
    BY <1>7, <2>2, <2>3, Zenon DEF Fits
  <2>5. Fits(writer)' /\ Has(writer.s, writer.from - 1)'
    BY <1>4, <2>4, Zenon DEF Fits, Has
  <2> QED
    BY <1>4, <1>5, <2>2, <2>5, Zenon DEF WriterFits
<1> QED
  BY <1>6, <1>10, <1>11, <1>12, <1>13, <1>14, Zenon DEF IInv

LEMMA TakeStep == IInv /\ Take => IInv'
BY TakeAnswer, TakeBatch, Zenon DEF Take

-----------------------------------------------------------------------------
(***************************************************************************)
(* The frame is out.                                                       *)
(***************************************************************************)
LEMMA WriteAnswer ==
    ASSUME IInv, Write, writer.kind = "subscribed"
    PROVE  IInv'
<1>1. TypeOK
  BY Zenon DEF IInv
<1> PICK f : f = writer
  BY Zenon
<1> PICK s : s = f.s
  BY Zenon
<1>2. /\ f.kind = "subscribed" /\ f.n \in Nat /\ s \in Streams /\ f.n = stream[s].opens
      /\ \A t \in Streams : stream[t].opens \in Nat
  BY <1>1, WriterKinds, Zenon DEF IInv, WriterFits, Current, TypeOK, StreamState
<1>3. UNCHANGED <<log, notes, stream, woken, responses, batches, faults>> /\ writer' = Nothing
  BY <1>2, Zenon DEF Write
<1> DEFINE C == [client[s] EXCEPT !.acked = f.n]
<1>4. client' = [client EXCEPT ![s] = C]
  BY <1>2, Zenon DEF Write, Receive
<1>5. /\ C \in ClientState /\ C.acked = f.n /\ C.closed = client[s].closed
      /\ C.resume = client[s].resume /\ C.origin = client[s].origin /\ C.got = client[s].got
  BY <1>1, <1>2, ZenonT(30) DEF TypeOK, ClientState
<1> HIDE DEF C
<1>6. TypeOK'
  BY <1>1, <1>2, <1>3, <1>4, <1>5, Zenon DEF TypeOK
<1>7. /\ \A t \in Streams : /\ client'[t].closed = client[t].closed /\ client'[t].resume = client[t].resume
                            /\ client'[t].origin = client[t].origin /\ client'[t].got = client[t].got
      /\ \A t \in Streams : t # s => client'[t].acked = client[t].acked
      /\ client'[s].acked = stream[s].opens
  BY <1>1, <1>2, <1>4, <1>5, Zenon DEF TypeOK
<1>8. \A t \in Streams : \A e : Has(t, e)' <=> Has(t, e)
  BY <1>7, Zenon DEF Has
<1>9. \A t \in Streams : \A e, i : Covered(t, e, i) => Covered(t, e, i)'
  BY <1>2, <1>3, <1>8, Zenon DEF Covered, OnWire, Queued
<1>10. \A t : t # s /\ Announced(t) => Announced(t)'
  BY <1>3, Zenon DEF Announced
<1>11. Nothing.kind = "none"
  BY Zenon DEF Nothing
<1>12. OneRun' /\ Awake'
  BY <1>3, <1>7, Zenon DEF IInv, OneRun, Awake
<1>13. Told'
  BY <1>3, <1>7 DEF IInv, Told, Has
<1>14. BatchesFit'
  <2> SUFFICES ASSUME NEW i \in DOMAIN batches, NEW g, g = batches[i]
               PROVE  /\ Fits(g)' /\ Covered(g.s, g.from - 1, i)'
                      /\ client'[g.s].acked >= g.n \/ Announced(g.s)'
    BY <1>3, Zenon DEF BatchesFit
  <2>1. /\ g.s \in Streams /\ g.n \in Nat /\ Fits(g) /\ Covered(g.s, g.from - 1, i)
        /\ client[g.s].acked >= g.n \/ Announced(g.s)
    BY <1>1, QueueKinds, Zenon DEF IInv, BatchesFit
  <2>2. Fits(g)'
    BY <1>3, <1>7, <2>1, Zenon DEF Fits
  <2>3. g.n <= stream[g.s].opens
    BY <2>1, Zenon DEF Fits
  <2>4. stream[g.s].opens >= g.n
    BY <1>2, <2>1, <2>3, Zenon
  <2> QED
    BY <1>7, <1>9, <1>10, <2>1, <2>2, <2>4, Zenon
<1>15. StreamsFit'
  <2> SUFFICES ASSUME NEW t \in Streams, stream[t].pc # "off", NEW e, e = stream[t].cursor,
                      NEW k, k = Len(batches) + 1
               PROVE  /\ e >= client'[t].origin /\ Covered(t, e, k)'
                      /\ client'[t].acked >= stream[t].opens \/ Announced(t)'
    BY <1>3, Zenon DEF StreamsFit
  <2>1. e >= client[t].origin /\ Covered(t, e, k) /\ (client[t].acked >= stream[t].opens \/ Announced(t))
    BY Zenon DEF IInv, StreamsFit
  <2>2. stream[t].opens >= stream[t].opens
    BY <1>2
  <2> QED
    BY <1>7, <1>9, <1>10, <2>1, <2>2, Zenon
<1>16. ResponsesFit'
  <2>1. \A i \in DOMAIN responses : responses[i].s \in Streams
    BY <1>1, QueueKinds, Zenon
  <2>2. \A g : g.s \in Streams /\ Current(g) => Current(g)'
    BY <1>3, <1>7, Zenon DEF Current, Has
  <2> QED
    BY <1>3, <2>1, <2>2, Zenon DEF IInv, ResponsesFit, After
<1>17. WriterFits'
  BY <1>3, <1>11, Zenon DEF WriterFits
<1> QED
  BY <1>6, <1>12, <1>13, <1>14, <1>15, <1>16, <1>17, Zenon DEF IInv

LEMMA WriteClosed ==
    ASSUME IInv, Write, writer.kind = "closed"
    PROVE  IInv'
<1>1. TypeOK
  BY Zenon DEF IInv
<1> PICK f : f = writer
  BY Zenon
<1> PICK s : s = f.s
  BY Zenon
<1>2. f.kind = "closed" /\ f.n \in Nat /\ s \in Streams /\ f.cursor \in Nat
  BY <1>1, WriterKinds, Zenon DEF Closings
<1>3. /\ f.n = stream[s].opens /\ client[s].closed < stream[s].opens
      /\ stream[s].pc = "off" /\ Has(s, f.cursor)
      /\ \A j \in DOMAIN responses : responses[j].s # s
  BY <1>2, Zenon DEF IInv, WriterFits, Current, After
<1>4. UNCHANGED <<log, notes, stream, woken, responses, batches, faults>> /\ writer' = Nothing
  BY <1>2, Zenon DEF Write
<1> DEFINE C == [client[s] EXCEPT !.closed = f.n, !.resume = f.cursor]
<1>5. client' = [client EXCEPT ![s] = C]
  BY <1>2, Zenon DEF Write, Receive
<1>6. /\ C \in ClientState /\ C.acked = client[s].acked /\ C.closed = f.n
      /\ C.resume = f.cursor /\ C.origin = client[s].origin /\ C.got = client[s].got
  BY <1>1, <1>2, Zenon DEF TypeOK, ClientState
<1> HIDE DEF C
<1>7. TypeOK'
  BY <1>1, <1>2, <1>4, <1>5, <1>6, Zenon DEF TypeOK
<1>8. /\ \A t \in Streams : /\ client'[t].acked = client[t].acked
                            /\ client'[t].origin = client[t].origin /\ client'[t].got = client[t].got
      /\ \A t \in Streams : t # s => client'[t] = client[t]
      /\ client'[s].closed = stream[s].opens /\ client'[s].resume = f.cursor
  BY <1>1, <1>2, <1>3, <1>5, <1>6, Zenon DEF TypeOK
<1>9. \A t \in Streams : \A e : Has(t, e)' <=> Has(t, e)
  BY <1>8, Zenon DEF Has
<1>10. \A t \in Streams : \A e, i : Covered(t, e, i) => Covered(t, e, i)'
  BY <1>2, <1>4, <1>9, Zenon DEF Covered, OnWire, Queued
<1>11. \A t : Announced(t) => Announced(t)'
  BY <1>2, <1>4, Zenon DEF Announced
<1>12. Nothing.kind = "none"
  BY Zenon DEF Nothing
<1>13. OneRun' /\ Awake'
  BY <1>4, <1>8, Zenon DEF IInv, OneRun, Awake
<1>14. Told'
  <2> SUFFICES ASSUME NEW t \in Streams
               PROVE  /\ client'[t].closed <= stream[t].opens
                      /\ stream[t].opens = 0 => stream[t].pc = "off" /\ client'[t].got = {} /\ client'[t].resume = 0
                      /\ stream[t].opens > 0 => Has(t, stream[t].delivered)'
                      /\ client'[t].closed > 0 => Has(t, client[t].resume)'
                      /\ client'[t].closed = 0 => client'[t].resume = 0
                      /\ stream[t].pc # "off" => client'[t].closed < stream[t].opens
                      /\ stream[t].pc = "send" => stream[t].last > stream[t].cursor
    BY <1>4, Zenon DEF Told
  <2>1. CASE t # s
    BY <1>4, <1>8, <2>1, Zenon DEF IInv, Told, Has
  <2>2. CASE t = s
    <3>1. stream[s].opens \in Nat /\ client[s].closed \in Nat
      BY <1>1, <1>2, Zenon DEF TypeOK, StreamState, ClientState
    <3>2. stream[s].opens > 0 /\ stream[s].opens # 0 /\ stream[s].opens <= stream[s].opens
      BY <1>3, <3>1
    <3>3. Has(s, client[s].resume)'
      BY <1>2, <1>3, <1>8, Zenon DEF Has
    <3>4. Has(s, stream[s].delivered)'
      BY <1>2, <1>4, <1>9, <3>2, Zenon DEF IInv, Told, Has
    <3> QED
      BY <1>3, <1>8, <2>2, <3>2, <3>3, <3>4, Zenon
  <2> QED
    BY <2>1, <2>2, Zenon
<1>15. BatchesFit'
  <2> SUFFICES ASSUME NEW i \in DOMAIN batches, NEW g, g = batches[i]
               PROVE  /\ Fits(g)' /\ Covered(g.s, g.from - 1, i)'
                      /\ client'[g.s].acked >= g.n \/ Announced(g.s)'
    BY <1>4, Zenon DEF BatchesFit
  <2>1. /\ g.s \in Streams /\ Fits(g) /\ Covered(g.s, g.from - 1, i)
        /\ client[g.s].acked >= g.n \/ Announced(g.s)
    BY <1>1, QueueKinds, Zenon DEF IInv, BatchesFit
  <2>2. Fits(g)'
    BY <1>4, <1>8, <2>1, Zenon DEF Fits
  <2> QED
    BY <1>8, <1>10, <1>11, <2>1, <2>2, Zenon
<1>16. StreamsFit'
  <2> SUFFICES ASSUME NEW t \in Streams, stream[t].pc # "off", NEW e, e = stream[t].cursor,
                      NEW k, k = Len(batches) + 1
               PROVE  /\ e >= client'[t].origin /\ Covered(t, e, k)'
                      /\ client'[t].acked >= stream[t].opens \/ Announced(t)'
    BY <1>4, Zenon DEF StreamsFit
  <2>1. e >= client[t].origin /\ Covered(t, e, k) /\ (client[t].acked >= stream[t].opens \/ Announced(t))
    BY Zenon DEF IInv, StreamsFit
  <2> QED
    BY <1>8, <1>10, <1>11, <2>1, Zenon
<1>17. ResponsesFit'
  <2>1. \A i \in DOMAIN responses : responses[i].s \in Streams /\ responses[i].s # s
    BY <1>1, <1>3, QueueKinds, Zenon
  <2>2. \A g : g.s \in Streams /\ g.s # s /\ Current(g) => Current(g)'
    BY <1>4, <1>8, Zenon DEF Current, Has
  <2> QED
    BY <1>4, <2>1, <2>2, Zenon DEF IInv, ResponsesFit, After
<1>18. WriterFits'
  BY <1>4, <1>12, Zenon DEF WriterFits
<1> QED
  BY <1>7, <1>13, <1>14, <1>15, <1>16, <1>17, <1>18, Zenon DEF IInv

LEMMA WriteBatch ==
    ASSUME IInv, Write, writer.kind = "batch"
    PROVE  IInv'
<1>1. TypeOK
  BY Zenon DEF IInv
<1> PICK b : b = writer
  BY Zenon
<1> PICK s : s = b.s
  BY Zenon
<1>2. b \in Frames("batch")
  BY <1>1, WriterKinds, Zenon
<1>3. b.kind = "batch" /\ b.n \in Nat /\ s \in Streams /\ b.from \in Nat /\ b.cursor \in Nat
  BY <1>2, Zenon DEF Frames
<1>4. Fits(b) /\ Has(s, b.from - 1)
  BY <1>3, Zenon DEF IInv, WriterFits
<1>5. UNCHANGED <<log, notes, stream, woken, responses, batches, faults>>
  BY Zenon DEF Write
<1> PICK m : m = [b EXCEPT !.kind = "mark"]
  BY Zenon
<1>6. m \in Frames("mark") /\ m.kind = "mark" /\ m.s = s /\ m.cursor = b.cursor
  BY <1>2, Zenon DEF Frames
<1>7. writer' = m
  BY Zenon DEF Write
<1> DEFINE G == client[s].got \cup (b.from .. b.cursor)
           C == [client[s] EXCEPT !.got = G]
<1>8. client' = [client EXCEPT ![s] = C]
  BY <1>3, Zenon DEF Write, Receive
<1>9. G \in SUBSET Nat
  BY <1>1, <1>3, SMTT(30) DEF TypeOK, ClientState
<1> HIDE DEF G
<1>10. /\ C \in ClientState /\ C.acked = client[s].acked /\ C.closed = client[s].closed
       /\ C.resume = client[s].resume /\ C.origin = client[s].origin /\ C.got = G
  BY <1>1, <1>3, <1>9, Zenon DEF TypeOK, ClientState
<1> HIDE DEF C
<1>11. TypeOK'
  BY <1>1, <1>3, <1>5, <1>6, <1>7, <1>8, <1>10, Zenon DEF TypeOK
<1>12. /\ \A t \in Streams : /\ client'[t].acked = client[t].acked /\ client'[t].closed = client[t].closed
                             /\ client'[t].resume = client[t].resume /\ client'[t].origin = client[t].origin
       /\ \A t \in Streams : t # s => client'[t] = client[t]
       /\ client'[s].got = G
  BY <1>1, <1>3, <1>8, <1>10, Zenon DEF TypeOK
\* What the batch brings continues what the consumer has.
<1> PICK o \in Nat : o = client[s].origin
  BY <1>1, <1>3, Zenon DEF TypeOK, ClientState
<1>13. PICK k \in Nat : k >= o /\ client[s].got = (o + 1) .. k
  BY <1>3, Zenon DEF IInv, OneRun
<1>14. o < b.from /\ b.from <= b.cursor /\ b.from <= k + 1
  BY <1>3, <1>4, <1>13 DEF Fits, Has
<1> PICK h \in Nat : h = (IF k >= b.cursor THEN k ELSE b.cursor)
  BY <1>3, Zenon
<1>15. h >= o /\ h >= b.cursor /\ h >= k
  BY <1>3, <1>13, <1>14
<1>16. G = (o + 1) .. h
  BY <1>3, <1>13, <1>14 DEF G
<1>17. \A t \in Streams : \A e : Has(t, e) => Has(t, e)'
  BY <1>12, Zenon DEF Has, G
<1>18. \A e \in Nat : o <= e /\ e <= b.cursor => Has(s, e)'
  <2> SUFFICES ASSUME NEW e \in Nat, o <= e, e <= b.cursor
               PROVE  e = o \/ e \in G
    BY <1>3, <1>12, Zenon DEF Has
  <2>1. e <= h
    BY <1>3, <1>15
  <2> QED
    BY <1>16, <2>1
<1>19. \A t \in Streams : \A i : \A e \in Nat : e >= client[t].origin /\ Covered(t, e, i) => Covered(t, e, i)'
  <2> SUFFICES ASSUME NEW t \in Streams, NEW i, NEW e \in Nat, e >= client[t].origin, Covered(t, e, i)
               PROVE  Covered(t, e, i)'
    BY Zenon
  <2>1. CASE Has(t, e)
    BY <1>17, <2>1, Zenon DEF Covered
  <2>2. CASE Queued(t, e, i)
    BY <1>5, <2>2, Zenon DEF Covered, Queued
  <2>3. CASE OnWire(t, e)
    <3>1. t = s /\ b.cursor >= e
      BY <2>3, Zenon DEF OnWire
    <3>2. o <= e /\ e <= b.cursor
      BY <1>3, <3>1, Zenon
    <3> QED
      BY <1>18, <3>1, <3>2, Zenon DEF Covered
  <2> QED
    BY <2>1, <2>2, <2>3, Zenon DEF Covered
<1>20. \A t : Announced(t) => Announced(t)'
  BY <1>3, <1>5, Zenon DEF Announced
<1>21. OneRun'
  <2> SUFFICES ASSUME NEW t \in Streams
               PROVE  \E j \in Nat : j >= client'[t].origin /\ client'[t].got = (client'[t].origin + 1) .. j
    BY Zenon DEF OneRun
  <2>1. CASE t = s
    BY <1>12, <1>15, <1>16, <2>1, Zenon
  <2>2. CASE t # s
    BY <1>12, <2>2, Zenon DEF IInv, OneRun
  <2> QED
    BY <2>1, <2>2, Zenon
<1>22. Told'
  <2> SUFFICES ASSUME NEW t \in Streams
               PROVE  /\ client'[t].closed <= stream[t].opens
                      /\ stream[t].opens = 0 => stream[t].pc = "off" /\ client'[t].got = {} /\ client'[t].resume = 0
                      /\ stream[t].opens > 0 => Has(t, stream[t].delivered)'
                      /\ client'[t].closed > 0 => Has(t, client[t].resume)'
                      /\ client'[t].closed = 0 => client'[t].resume = 0
                      /\ stream[t].pc # "off" => client'[t].closed < stream[t].opens
                      /\ stream[t].pc = "send" => stream[t].last > stream[t].cursor
    BY <1>5, Zenon DEF Told
  <2>1. stream[s].opens # 0
    <3>1. stream[s].opens \in Nat
      BY <1>1, <1>3, Zenon DEF TypeOK, StreamState
    <3> QED
      BY <1>3, <1>4, <3>1 DEF Fits
  <2>2. stream[t].opens > 0 => Has(t, stream[t].delivered)'
    <3>1. stream[t].opens > 0 => Has(t, stream[t].delivered)
      BY Zenon DEF IInv, Told
    <3> QED
      BY <1>5, <1>17, <3>1, Zenon DEF Has
  <2>3. client'[t].closed > 0 => Has(t, client[t].resume)'
    <3>1. client[t].closed > 0 => Has(t, client[t].resume)
      BY Zenon DEF IInv, Told
    <3> QED
      BY <1>12, <1>17, <3>1, Zenon DEF Has
  <2> QED
    BY <1>12, <2>1, <2>2, <2>3, Zenon DEF IInv, Told
<1>23. BatchesFit'
  <2> SUFFICES ASSUME NEW i \in DOMAIN batches, NEW g, g = batches[i]
               PROVE  /\ Fits(g)' /\ Covered(g.s, g.from - 1, i)'
                      /\ client'[g.s].acked >= g.n \/ Announced(g.s)'
    BY <1>5, Zenon DEF BatchesFit
  <2>1. /\ g.s \in Streams /\ Fits(g) /\ Covered(g.s, g.from - 1, i) /\ g.from \in Nat
        /\ client[g.s].acked >= g.n \/ Announced(g.s)
    BY <1>1, QueueKinds, Zenon DEF IInv, BatchesFit
  <2>2. Fits(g)'
    BY <1>5, <1>12, <2>1, Zenon DEF Fits
  <2>3. client[g.s].origin \in Nat /\ client[g.s].origin < g.from
    BY <1>1, <2>1, Zenon DEF Fits, TypeOK, ClientState
  <2>4. g.from - 1 \in Nat /\ g.from - 1 >= client[g.s].origin
    BY <2>1, <2>3
  <2> QED
    BY <1>12, <1>19, <1>20, <2>1, <2>2, <2>4, Zenon
<1>24. StreamsFit'
  <2> SUFFICES ASSUME NEW t \in Streams, stream[t].pc # "off", NEW e, e = stream[t].cursor,
                      NEW j, j = Len(batches) + 1
               PROVE  /\ e >= client'[t].origin /\ Covered(t, e, j)'
                      /\ client'[t].acked >= stream[t].opens \/ Announced(t)'
    BY <1>5, Zenon DEF StreamsFit
  <2>1. e >= client[t].origin /\ Covered(t, e, j) /\ (client[t].acked >= stream[t].opens \/ Announced(t))
    BY Zenon DEF IInv, StreamsFit
  <2>2. e \in Nat
    BY <1>1, Zenon DEF TypeOK, StreamState
  <2> QED
    BY <1>12, <1>19, <1>20, <2>1, <2>2, Zenon
<1>25. ResponsesFit'
  <2>1. \A i \in DOMAIN responses : responses[i].s \in Streams
    BY <1>1, QueueKinds, Zenon
  <2>2. \A g : g.s \in Streams /\ Current(g) => Current(g)'
    BY <1>5, <1>12, <1>17, Zenon DEF Current
  <2> QED
    BY <1>5, <2>1, <2>2, Zenon DEF IInv, ResponsesFit, After
<1>26. WriterFits'
  <2>1. Has(s, b.cursor)'
    BY <1>3, <1>14, <1>18
  <2>2. stream[s].opens > 0
    <3>1. stream[s].opens \in Nat
      BY <1>1, <1>3, Zenon DEF TypeOK, StreamState
    <3> QED
      BY <1>3, <1>4, <3>1 DEF Fits
  <2>3. Has(writer.s, writer.cursor)' /\ stream'[writer'.s].opens > 0
    BY <1>5, <1>6, <1>7, <2>1, <2>2, Zenon DEF Has
  <2> QED
    BY <1>6, <1>7, <2>3, Zenon DEF WriterFits
<1>27. Awake'
  BY <1>5, Zenon DEF IInv, Awake
<1> QED
  BY <1>11, <1>21, <1>22, <1>23, <1>24, <1>25, <1>26, <1>27, Zenon DEF IInv

\* The cell of the stream takes a cursor the consumer has.
LEMMA MarkStep == IInv /\ Mark => IInv'
<1> SUFFICES ASSUME IInv, Mark PROVE IInv'
  BY Zenon
<1>1. TypeOK
  BY Zenon DEF IInv
<1> PICK m : m = writer
  BY Zenon
<1> PICK s : s = m.s
  BY Zenon
<1>2. m.kind = "mark" /\ s \in Streams /\ m.cursor \in Nat
  BY <1>1, WriterKinds, Zenon DEF Mark, Frames
<1>3. Has(s, m.cursor) /\ stream[s].opens > 0
  BY <1>2, Zenon DEF IInv, WriterFits
<1>4. UNCHANGED <<log, notes, woken, responses, batches, client, faults>> /\ writer' = Nothing
  BY Zenon DEF Mark
<1> DEFINE d == IF m.n = stream[s].opens THEN m.cursor ELSE stream[s].delivered
           S == [stream[s] EXCEPT !.delivered = d]
<1>5. stream' = [stream EXCEPT ![s] = S]
  BY <1>2, Zenon DEF Mark
<1>6. d \in Nat /\ Has(s, d)
  <2>1. stream[s].delivered \in Nat /\ Has(s, stream[s].delivered)
    BY <1>1, <1>2, <1>3, Zenon DEF IInv, Told, TypeOK, StreamState
  <2> QED
    BY <1>2, <1>3, <2>1, Zenon
<1> HIDE DEF d
<1>7. /\ S \in StreamState /\ S.delivered = d /\ S.pc = stream[s].pc /\ S.opens = stream[s].opens
      /\ S.cursor = stream[s].cursor /\ S.last = stream[s].last
  BY <1>1, <1>2, <1>6, Zenon DEF TypeOK, StreamState
<1> HIDE DEF S
<1>8. TypeOK'
  BY <1>1, <1>2, <1>4, <1>5, <1>7, Zenon DEF TypeOK
<1>9. /\ \A t \in Streams : /\ stream'[t].pc = stream[t].pc /\ stream'[t].opens = stream[t].opens
                            /\ stream'[t].cursor = stream[t].cursor /\ stream'[t].last = stream[t].last
      /\ \A t \in Streams : t # s => stream'[t].delivered = stream[t].delivered
      /\ stream'[s].delivered = d
  BY <1>1, <1>2, <1>5, <1>7, Zenon DEF TypeOK
<1>10. \A t, e : Has(t, e)' <=> Has(t, e)
  BY <1>4, Zenon DEF Has
<1>11. \A t, e, i : Covered(t, e, i) => Covered(t, e, i)'
  BY <1>2, <1>4, <1>10, Zenon DEF Covered, OnWire, Queued
<1>12. \A t : Announced(t) => Announced(t)'
  BY <1>2, <1>4, Zenon DEF Announced
<1>13. Nothing.kind = "none"
  BY Zenon DEF Nothing
<1>14. OneRun'
  BY <1>4, Zenon DEF IInv, OneRun
<1>15. Told'
  <2>1. \A t \in Streams : stream[t].opens > 0 => Has(t, stream[t].delivered)'
    <3> SUFFICES ASSUME NEW t \in Streams, stream[t].opens > 0 PROVE Has(t, stream[t].delivered)'
      BY Zenon
    <3>1. CASE t = s
      BY <1>4, <1>6, <1>9, <3>1, Zenon DEF Has
    <3>2. CASE t # s
      BY <1>4, <1>9, <3>2, Zenon DEF IInv, Told, Has
    <3> QED
      BY <3>1, <3>2, Zenon
  <2> QED
    BY <1>4, <1>9, <2>1 DEF IInv, Told, Has
<1>16. BatchesFit'
  <2>1. \A i \in DOMAIN batches : batches[i].s \in Streams
    BY <1>1, QueueKinds, Zenon
  <2>2. \A g : g.s \in Streams /\ Fits(g) => Fits(g)'
    BY <1>4, <1>9, Zenon DEF Fits
  <2> QED
    BY <1>4, <1>11, <1>12, <2>1, <2>2, Zenon DEF IInv, BatchesFit
<1>17. StreamsFit'
  <2> SUFFICES ASSUME NEW t \in Streams, stream[t].pc # "off", NEW e, e = stream[t].cursor,
                      NEW j, j = Len(batches) + 1
               PROVE  /\ e >= client[t].origin /\ Covered(t, e, j)'
                      /\ client[t].acked >= stream[t].opens \/ Announced(t)'
    BY <1>4, <1>9, Zenon DEF StreamsFit
  <2> QED
    BY <1>11, <1>12, Zenon DEF IInv, StreamsFit
<1>18. ResponsesFit'
  <2>1. \A i \in DOMAIN responses : responses[i].s \in Streams
    BY <1>1, QueueKinds, Zenon
  <2>2. \A g : g.s \in Streams /\ Current(g) => Current(g)'
    BY <1>4, <1>9, <1>10, Zenon DEF Current
  <2> QED
    BY <1>4, <2>1, <2>2, Zenon DEF IInv, ResponsesFit, After
<1>19. WriterFits'
  BY <1>4, <1>13, Zenon DEF WriterFits
<1>20. Awake'
  BY <1>4, <1>9, Zenon DEF IInv, Awake
<1> QED
  BY <1>8, <1>14, <1>15, <1>16, <1>17, <1>18, <1>19, <1>20, Zenon DEF IInv

-----------------------------------------------------------------------------
(***************************************************************************)
(* The connection ends.                                                    *)
(***************************************************************************)
\* The last event a consumer has, or its origin, is one it has reached.
LEMMA LastReached ==
    ASSUME IInv, NEW s \in Streams
    PROVE  Max({client[s].origin} \cup client[s].got) \in {client[s].origin} \cup client[s].got
<1> PICK o \in Nat : o = client[s].origin
  BY Zenon DEF IInv, TypeOK, ClientState
<1> DEFINE S == {o} \cup client[s].got
<1>1. PICK t \in Nat : t >= o /\ client[s].got = (o + 1) .. t
  BY Zenon DEF IInv, OneRun
<1>2. t \in S /\ \A y \in S : t >= y
  BY <1>1
<1>3. \E x \in S : \A y \in S : x >= y
  BY <1>2, Zenon
<1> HIDE DEF S
<1>4. Max(S) \in S
  BY <1>3, Zenon DEF Max
<1> QED
  BY <1>4, Zenon DEF S

LEMMA HangupStep == IInv /\ Hangup => IInv'
<1> SUFFICES ASSUME IInv, Hangup PROVE IInv'
  BY Zenon
<1>1. TypeOK
  BY Zenon DEF IInv
<1>2. /\ UNCHANGED <<log, notes, woken>> /\ faults' = faults + 1
      /\ responses' = <<>> /\ batches' = <<>> /\ writer' = Nothing
  BY Zenon DEF Hangup
<1>3. Nothing.kind = "none"
  BY Zenon DEF Nothing
<1> DEFINE S(s) == [stream[s] EXCEPT !.pc = "off"]
           r(s) == IF client[s].closed = stream[s].opens THEN client[s].resume
                   ELSE Max({client[s].origin} \cup client[s].got)
           C(s) == [client[s] EXCEPT !.closed = stream[s].opens, !.resume = r(s)]
<1>4. stream' = [s \in Streams |-> S(s)] /\ client' = [s \in Streams |-> C(s)]
  BY Zenon DEF Hangup
<1>5. ASSUME NEW s \in Streams
      PROVE  /\ r(s) \in Nat
             /\ stream[s].opens > 0 => Has(s, r(s))
             /\ stream[s].opens = 0 => r(s) = 0
  <2>1. /\ client[s].resume \in Nat /\ client[s].origin \in Nat /\ client[s].got \subseteq Nat
        /\ stream[s].opens \in Nat /\ client[s].closed \in Nat
    BY <1>1, Zenon DEF TypeOK, ClientState, StreamState
  <2>2. CASE client[s].closed = stream[s].opens
    BY <2>1, <2>2, Zenon DEF IInv, Told
  <2>3. CASE client[s].closed # stream[s].opens
    <3>1. r(s) \in {client[s].origin} \cup client[s].got
      BY <2>3, LastReached, Zenon
    <3> HIDE DEF r
    <3>2. stream[s].opens # 0
      BY <2>1, <2>3 DEF IInv, Told
    <3> QED
      BY <2>1, <3>1, <3>2, Zenon DEF Has
  <2> QED
    BY <2>2, <2>3, Zenon
<1> HIDE DEF r
<1>6. ASSUME NEW s \in Streams
      PROVE  /\ C(s) \in ClientState /\ C(s).closed = stream[s].opens /\ C(s).resume = r(s)
             /\ C(s).origin = client[s].origin /\ C(s).got = client[s].got
  BY <1>1, <1>5, Zenon DEF TypeOK, ClientState, StreamState
<1>7. ASSUME NEW s \in Streams
      PROVE  /\ S(s) \in StreamState /\ S(s).pc = "off" /\ S(s).opens = stream[s].opens
             /\ S(s).delivered = stream[s].delivered
  BY <1>1, Zenon DEF TypeOK, StreamState, Phases
<1> HIDE DEF S, C
<1>8. TypeOK'
  <2>1. stream' \in [Streams -> StreamState] /\ client' \in [Streams -> ClientState]
    BY <1>4, <1>6, <1>7, Zenon
  <2>2. faults' \in Nat
    BY <1>1, <1>2 DEF TypeOK
  <2> QED
    BY <1>1, <1>2, <2>1, <2>2 DEF TypeOK
<1>9. \A s \in Streams : /\ stream'[s].pc = "off" /\ stream'[s].opens = stream[s].opens
                         /\ stream'[s].delivered = stream[s].delivered
                         /\ client'[s].closed = stream[s].opens /\ client'[s].resume = r(s)
                         /\ client'[s].origin = client[s].origin /\ client'[s].got = client[s].got
  BY <1>4, <1>6, <1>7, Zenon
<1>10. OneRun'
  BY <1>9, Zenon DEF IInv, OneRun
<1>11. Told'
  <2> SUFFICES ASSUME NEW t \in Streams
               PROVE  /\ client'[t].closed <= stream'[t].opens
                      /\ stream'[t].opens = 0 => stream'[t].pc = "off" /\ client'[t].got = {} /\ client'[t].resume = 0
                      /\ stream'[t].opens > 0 => Has(t, stream[t].delivered)'
                      /\ client'[t].closed > 0 => Has(t, client[t].resume)'
                      /\ client'[t].closed = 0 => client'[t].resume = 0
                      /\ stream'[t].pc # "off" => client'[t].closed < stream'[t].opens
                      /\ stream'[t].pc = "send" => stream'[t].last > stream'[t].cursor
    BY Zenon DEF Told
  <2>1. stream[t].opens \in Nat /\ stream[t].opens <= stream[t].opens
    BY <1>1 DEF TypeOK, StreamState
  <2>2. stream[t].opens > 0 => Has(t, stream[t].delivered)'
    BY <1>9, Zenon DEF IInv, Told, Has
  <2>3. stream[t].opens > 0 => Has(t, client[t].resume)'
    BY <1>5, <1>9, Zenon DEF Has
  <2> QED
    BY <1>5, <1>9, <2>1, <2>2, <2>3, Zenon DEF IInv, Told
<1>12. BatchesFit' /\ ResponsesFit'
  BY <1>2 DEF BatchesFit, ResponsesFit
<1>13. StreamsFit'
  BY <1>9, Zenon DEF StreamsFit
<1>14. WriterFits'
  BY <1>2, <1>3, Zenon DEF WriterFits
<1>15. Awake'
  BY <1>9, Zenon DEF Awake
<1> QED
  BY <1>8, <1>10, <1>11, <1>12, <1>13, <1>14, <1>15, Zenon DEF IInv

-----------------------------------------------------------------------------
LEMMA StepIInv == IInv /\ [Next /\ UNCHANGED limits]_<<vars, limits>> => IInv'
<1> SUFFICES ASSUME IInv, [Next /\ UNCHANGED limits]_<<vars, limits>> PROVE IInv'
  BY Zenon
<1>1. CASE UNCHANGED vars
  <2>1. UNCHANGED <<log, notes, stream, woken, responses, batches, writer, client, faults>>
    BY <1>1, Zenon DEF vars
  <2>2. TypeOK' /\ OneRun'
    BY <2>1 DEF IInv, TypeOK, OneRun
  <2>3. \A s : \A n : Has(s, n)' = Has(s, n)
    BY <2>1 DEF Has
  <2>4. Told'
    BY <2>1, <2>3 DEF IInv, Told
  <2>5. StreamsFit'
    BY <2>1, <2>3 DEF IInv, StreamsFit, Announced, Covered, OnWire, Queued
  <2>6. Awake'
    BY <2>1 DEF IInv, Awake
  <2>7. BatchesFit'
    BY <2>1 DEF IInv, BatchesFit, Fits, Covered, Announced, Queued, Has, OnWire
  <2>8. ResponsesFit' /\ WriterFits'
    BY <2>1 DEF IInv, ResponsesFit, WriterFits, Current, After, Fits, Has
  <2> QED
    BY <2>2, <2>4, <2>5, <2>6, <2>7, <2>8, Zenon DEF IInv
<1>2. ASSUME NEW s \in Streams, admit(s) PROVE IInv'
  BY <1>2, AdmitStep, Zenon
<1>3. ASSUME NEW s \in Streams, run(s) \/ ReadFails(s) \/ SlowConsumer(s) PROVE IInv'
  BY <1>3, RunSteps, SendStep, CloseStep, Zenon DEF run
<1>4. CASE Write
  BY <1>4, WriteAnswer, WriteClosed, WriteBatch, Zenon DEF Write
<1> QED
  BY <1>1, <1>2, <1>3, <1>4, LogSteps, TakeStep, MarkStep, HangupStep, Zenon DEF Next

\* However streams are closed on it, consumers stall and connections end, a
\* consumer that resumes from the cursor it was told has every event from where
\* it began to the last it has; no batch overtakes the answer that announces its
\* subscription; and no stream sleeps over an event it was told of
\* (subscribe.rs run and wait, serve.rs write_frames).
THEOREM ConsumersNeverMiss == Spec => []ConsumersMissNothing
<1>1. Init => IInv
  BY InitIInv, Zenon
<1>2. IInv /\ [Next /\ UNCHANGED limits]_<<vars, limits>> => IInv'
  BY StepIInv, Zenon
<1>3. IInv => ConsumersMissNothing
  <2> SUFFICES ASSUME IInv PROVE ConsumersMissNothing
    BY Zenon
  <2>1. NoGap
    <3> SUFFICES ASSUME NEW s \in Streams
                 PROVE  /\ client[s].resume \in client[s].got \cup {0, client[s].origin}
                        /\ \A e \in client[s].got : (client[s].origin + 1) .. e \subseteq client[s].got
      BY Zenon DEF NoGap
    <3>1. client[s].closed \in Nat /\ client[s].origin \in Nat
      BY Zenon DEF IInv, TypeOK, ClientState
    <3>2. client[s].resume \in client[s].got \cup {0, client[s].origin}
      BY <3>1 DEF IInv, Told, Has
    <3>3. PICK t \in Nat : client[s].got = (client[s].origin + 1) .. t
      BY Zenon DEF IInv, OneRun
    <3>4. \A e \in client[s].got : (client[s].origin + 1) .. e \subseteq client[s].got
      BY <3>1, <3>3
    <3> QED
      BY <3>2, <3>4, Zenon
  <2>2. AnswerFirst
    BY Zenon DEF IInv, WriterFits, AnswerFirst
  <2>3. NeverWaitsBlind
    BY DEF IInv, Awake, NeverWaitsBlind
  <2> QED
    BY <2>1, <2>2, <2>3, Zenon DEF ConsumersMissNothing
<1> QED
  BY <1>1, <1>2, <1>3, PTL DEF Spec
=============================================================================
