----------------------------- MODULE Subscription -----------------------------
(***************************************************************************)
(* Event subscriptions (gwk-kernel wire/subscribe.rs) and the connection   *)
(* that carries them (wire/serve.rs: Subscriptions, read_requests,         *)
(* write_frames).                                                          *)
(*                                                                         *)
(* Every stream of a connection reads the log forward from its own cursor  *)
(* and queues batches on one bounded queue; one writer drains it, after    *)
(* the responses.  A notification may be lost, the client may stop         *)
(* reading, a read may fail, the connection may end, and a client that was *)
(* told its stream closed subscribes again from the cursor it was told.    *)
(***************************************************************************)
EXTENDS Naturals, Sequences, FiniteSetsExt

CONSTANTS
    Streams,                 \* consumers, each with at most one open stream
    MaxSubscriptions,        \* MAX_SUBSCRIPTIONS_PER_CONNECTION
    SUBSCRIPTION_BATCH_ROWS,
    BATCH_QUEUE_DEPTH, RESPONSE_QUEUE_DEPTH,
    Limits                   \* bounds: the consumers that subscribe, the events, the
                             \* subscriptions of one consumer, and the lost
                             \* notifications, failed reads and hangups

ASSUME SubscriptionAssumption ==
    /\ IsFiniteSet(Streams)
    /\ {MaxSubscriptions, SUBSCRIPTION_BATCH_ROWS, BATCH_QUEUE_DEPTH, RESPONSE_QUEUE_DEPTH}
         \subseteq Nat \ {0}
    /\ Limits \subseteq [streams : SUBSET Streams, log : Nat, opens : Nat, faults : Nat]

VARIABLES
    log,        \* the last committed sequence
    notes,      \* notifications on their way to the listener
    stream,     \* subscribe::run of each consumer
    woken,      \* the watch holds a value the stream has not observed
    responses, batches,   \* the connection's queues
    writer,     \* the frame being written
    client,     \* what each consumer has received
    reading,    \* the client reads its socket
    faults,
    limits      \* the bounds of this behaviour; never changes

vars == <<log, notes, stream, woken, responses, batches, writer, client, reading, faults>>

MaxLog == limits.log
MaxOpens == limits.opens
MaxFaults == limits.faults

Nothing == [kind |-> "none"]

Init ==
    /\ limits \in Limits
    /\ log = 0 /\ notes = 0
    /\ stream = [s \in Streams |-> [pc |-> "off", opens |-> 0, cursor |-> 0, last |-> 0,
                                    delivered |-> 0]]
    /\ woken = [s \in Streams |-> FALSE]
    /\ responses = <<>> /\ batches = <<>>
    /\ writer = Nothing
    /\ client = [s \in Streams |-> [acked |-> 0, closed |-> 0, resume |-> 0, origin |-> 0,
                                    got |-> {}]]
    /\ reading = TRUE
    /\ faults = 0

live == {s \in Streams : stream[s].pc # "off"}
-----------------------------------------------------------------------------
(***************************************************************************)
(* The log and its notifications.                                          *)
(***************************************************************************)
Append1 ==
    /\ log < MaxLog
    /\ log' = log + 1 /\ notes' = notes + 1
    /\ UNCHANGED <<stream, woken, responses, batches, writer, client, reading, faults>>

\* watch_events: every stream's receiver sees a value it has not observed.
watch_events ==
    /\ notes > 0 /\ notes' = notes - 1
    /\ woken' = [s \in Streams |-> TRUE]
    /\ UNCHANGED <<log, stream, responses, batches, writer, client, reading, faults>>

LoseNotification ==
    /\ notes > 0 /\ notes' = notes - 1
    /\ faults < MaxFaults /\ faults' = faults + 1
    /\ UNCHANGED <<log, stream, woken, responses, batches, writer, client, reading>>
-----------------------------------------------------------------------------
(***************************************************************************)
(* Admission: the answer is queued, then the stream starts.                *)
(***************************************************************************)
\* A new consumer starts anywhere; one whose stream closed resumes from the
\* cursor it was told.
StartCursors(s) ==
    IF stream[s].opens = 0 THEN 0..log ELSE {client[s].resume}

Opened(s, cursor) ==
    [pc |-> "start", opens |-> stream[s].opens + 1, cursor |-> cursor, last |-> 0,
     delivered |-> cursor]

admit(s) ==
    /\ s \in limits.streams
    /\ stream[s].pc = "off" /\ stream[s].opens < MaxOpens
    /\ client[s].closed = stream[s].opens
    /\ Cardinality(live) < MaxSubscriptions
    /\ \A t \in Streams : stream[t].pc # "start"
    /\ Len(responses) < RESPONSE_QUEUE_DEPTH
    /\ \E cursor \in StartCursors(s) :
        /\ stream' = [stream EXCEPT ![s] = Opened(s, cursor)]
        /\ client' = [client EXCEPT ![s].origin =
                        IF stream[s].opens = 0 THEN cursor ELSE @]
        /\ responses' = Append(responses, [kind |-> "subscribed", s |-> s,
                                           n |-> stream[s].opens + 1])
    /\ UNCHANGED <<log, notes, woken, batches, writer, reading, faults>>

start(s) ==
    /\ stream[s].pc = "start"
    /\ stream' = [stream EXCEPT ![s].pc = "read"]
    /\ woken' = [woken EXCEPT ![s] = FALSE]
    /\ UNCHANGED <<log, notes, responses, batches, writer, client, reading, faults>>
-----------------------------------------------------------------------------
(***************************************************************************)
(* subscribe::run.                                                         *)
(***************************************************************************)
\* A page of the log, cut to what a frame carries: at least one event of it.
Read(s) ==
    /\ stream[s].pc = "read"
    /\ IF stream[s].cursor = log
         THEN stream' = [stream EXCEPT ![s].pc = "empty"]
         ELSE \E n \in 1..SUBSCRIPTION_BATCH_ROWS :
                /\ stream[s].cursor + n <= log
                /\ stream' = [stream EXCEPT ![s].pc = "send", ![s].last = stream[s].cursor + n]
    /\ UNCHANGED <<log, notes, woken, responses, batches, writer, client, reading, faults>>

ReadFails(s) ==
    /\ stream[s].pc = "read" /\ faults < MaxFaults /\ faults' = faults + 1
    /\ stream' = [stream EXCEPT ![s].pc = "close"]
    /\ UNCHANGED <<log, notes, woken, responses, batches, writer, client, reading>>

Wait(s) ==
    /\ stream[s].pc = "empty"
    /\ stream' = [stream EXCEPT ![s].pc = "wait"]
    /\ UNCHANGED <<log, notes, woken, responses, batches, writer, client, reading, faults>>

Changed(s) ==
    /\ stream[s].pc = "wait" /\ woken[s]
    /\ stream' = [stream EXCEPT ![s].pc = "read"]
    /\ woken' = [woken EXCEPT ![s] = FALSE]
    /\ UNCHANGED <<log, notes, responses, batches, writer, client, reading, faults>>

\* Mutant: no poll.
NoPoll(s) == FALSE /\ UNCHANGED vars

\* SUBSCRIPTION_POLL_SECS: look again whether or not anything was heard.
Poll(s) ==
    /\ stream[s].pc = "wait"
    /\ stream' = [stream EXCEPT ![s].pc = "read"]
    /\ UNCHANGED <<log, notes, woken, responses, batches, writer, client, reading, faults>>

Batch(s) ==
    [kind |-> "batch", s |-> s, n |-> stream[s].opens, from |-> stream[s].cursor + 1,
     cursor |-> stream[s].last]

\* Queued, and only then does the read cursor move.
Send(s) ==
    /\ stream[s].pc = "send" /\ Len(batches) < BATCH_QUEUE_DEPTH
    /\ batches' = Append(batches, Batch(s))
    /\ stream' = [stream EXCEPT ![s].pc = "read", ![s].cursor = stream[s].last]
    /\ UNCHANGED <<log, notes, woken, responses, writer, client, reading, faults>>

\* SLOW_CONSUMER_TIMEOUT_SECS with the queue full.
SlowConsumer(s) ==
    /\ stream[s].pc = "send" /\ Len(batches) = BATCH_QUEUE_DEPTH
    /\ stream' = [stream EXCEPT ![s].pc = "close"]
    /\ UNCHANGED <<log, notes, woken, responses, batches, writer, client, reading, faults>>

Closed(s, cursor) ==
    responses' = Append(responses, [kind |-> "closed", s |-> s, n |-> stream[s].opens,
                                    cursor |-> cursor])

\* Mutant: the stream reports how far it read.
CloseAtReadCursor(s) ==
    /\ stream[s].pc = "close" /\ Len(responses) < RESPONSE_QUEUE_DEPTH
    /\ Closed(s, stream[s].cursor)
    /\ stream' = [stream EXCEPT ![s].pc = "off"]
    /\ UNCHANGED <<log, notes, woken, batches, writer, client, reading, faults>>

\* The last word carries the cursor the writer has marked as delivered.
Close(s) ==
    /\ stream[s].pc = "close" /\ Len(responses) < RESPONSE_QUEUE_DEPTH
    /\ Closed(s, stream[s].delivered)
    /\ stream' = [stream EXCEPT ![s].pc = "off"]
    /\ UNCHANGED <<log, notes, woken, batches, writer, client, reading, faults>>
-----------------------------------------------------------------------------
(***************************************************************************)
(* write_frames and the client.                                            *)
(***************************************************************************)
\* Responses first, always.
Take ==
    /\ writer = Nothing
    /\ \/ /\ responses # <<>> /\ writer' = Head(responses) /\ responses' = Tail(responses)
          /\ UNCHANGED batches
       \/ /\ responses = <<>>
          /\ batches # <<>> /\ writer' = Head(batches) /\ batches' = Tail(batches)
          /\ UNCHANGED responses
    /\ UNCHANGED <<log, notes, stream, woken, client, reading, faults>>

Receive(c, f) ==
    CASE f.kind = "subscribed" -> [c EXCEPT !.acked = f.n]
      [] f.kind = "closed" -> [c EXCEPT !.closed = f.n, !.resume = f.cursor]
      [] f.kind = "batch" -> [c EXCEPT !.got = @ \cup (f.from .. f.cursor)]

\* The frame is out.
Write ==
    /\ writer.kind \in {"subscribed", "closed", "batch"} /\ reading
    /\ client' = [client EXCEPT ![writer.s] = Receive(@, writer)]
    /\ writer' = IF writer.kind = "batch" THEN [writer EXCEPT !.kind = "mark"] ELSE Nothing
    /\ UNCHANGED <<log, notes, stream, woken, responses, batches, reading, faults>>

\* ... and only then is its cursor stored in the cell of the stream it is for.
Mark ==
    /\ writer.kind = "mark"
    /\ stream' = [stream EXCEPT ![writer.s].delivered =
                    IF writer.n = stream[writer.s].opens THEN writer.cursor ELSE @]
    /\ writer' = Nothing
    /\ UNCHANGED <<log, notes, woken, responses, batches, client, reading, faults>>

StopReading == reading /\ reading' = FALSE
               /\ UNCHANGED <<log, notes, stream, woken, responses, batches, writer, client, faults>>
ReadAgain == ~reading /\ reading' = TRUE
             /\ UNCHANGED <<log, notes, stream, woken, responses, batches, writer, client, faults>>

\* The connection ends: its streams are aborted with it, its queues go, and
\* each consumer comes back with the cursor it was told or, told nothing, with
\* the last event it has.
Hangup ==
    /\ \E s \in Streams : stream[s].opens > 0
    /\ faults < MaxFaults /\ faults' = faults + 1
    /\ stream' = [s \in Streams |-> [stream[s] EXCEPT !.pc = "off"]]
    /\ client' = [s \in Streams |->
                    [client[s] EXCEPT !.closed = stream[s].opens,
                                      !.resume = IF client[s].closed = stream[s].opens THEN @
                                        ELSE Max({client[s].origin} \cup client[s].got)]]
    /\ responses' = <<>> /\ batches' = <<>> /\ writer' = Nothing
    /\ UNCHANGED <<log, notes, woken, reading>>
-----------------------------------------------------------------------------
run(s) == start(s) \/ Read(s) \/ Wait(s) \/ Changed(s) \/ Poll(s) \/ Send(s) \/ Close(s)

Next ==
    \/ Append1 \/ watch_events \/ LoseNotification
    \/ \E s \in Streams : admit(s) \/ run(s) \/ ReadFails(s) \/ SlowConsumer(s)
    \/ Take \/ Write \/ Mark \/ StopReading \/ ReadAgain \/ Hangup

Spec == Init /\ [][Next /\ UNCHANGED limits]_<<vars, limits>>

\* The daemon's tasks run, its timer fires, the client keeps coming back to
\* its socket and to a stream it was told is closed.
FairSpec ==
    /\ Spec
    /\ \A s \in Streams : WF_vars(run(s)) /\ WF_vars(admit(s) /\ stream[s].opens > 0)
    /\ WF_vars(Take) /\ SF_vars(Write) /\ WF_vars(Mark) /\ WF_vars(ReadAgain)
-----------------------------------------------------------------------------
(***************************************************************************)
(* Properties.                                                             *)
(***************************************************************************)
\* However often its stream was closed on it, a consumer that resumes from the
\* cursor it was told has every event from where it began to the last it has:
\* a stream never reports a cursor the consumer has not seen, because queued is
\* not delivered.
NoGap ==
    \A s \in Streams :
        /\ client[s].resume \in client[s].got \cup {0, client[s].origin}
        /\ \A e \in client[s].got : (client[s].origin + 1) .. e \subseteq client[s].got

\* A batch never overtakes the answer that announces its subscription.
AnswerFirst ==
    writer.kind = "batch" => client[writer.s].acked >= writer.n

\* With no notification lost or on its way, a stream that waits unwoken has
\* read the whole log: an append between its read and its wait is not missed.
NeverWaitsBlind ==
    faults = 0 /\ notes = 0 =>
        \A s \in Streams :
            stream[s].pc = "wait" /\ ~woken[s] => stream[s].cursor = log

\* What a consumer of subscriptions is owed: no gap, no batch before its answer,
\* and no sleep over an event it was told of (subscribe.rs run, wait).
ConsumersMissNothing == NoGap /\ AnswerFirst /\ NeverWaitsBlind

\* The consumer has every event from where it began, unless its stream was
\* closed too often to follow.
CaughtUp(s) ==
    \/ stream[s].opens \in {0, MaxOpens}
    \/ (client[s].origin + 1) .. log \subseteq client[s].got

\* A consumer that subscribed catches up with the log, and does so again after
\* every append, whatever notification was lost.
EventsArrive == \A s \in Streams : []<>CaughtUp(s)
=============================================================================
