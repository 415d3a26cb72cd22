----------------------------- MODULE Connection -----------------------------
(***************************************************************************)
(* One connection to the kernel's socket, end to end: the client (a        *)
(* session's publisher, the start manager, a reader of the PTY host, or gw *)
(* asking, following events or attached to a raw terminal), the two        *)
(* directions of the socket, and the kernel's reader and writer, which run *)
(* side by side and share three queues.  A raw payload travels as a second *)
(* frame behind its JSON header in both directions; deliveries and         *)
(* settlements arrive between a request and its answer.                    *)
(*                                                                         *)
(* Either side's deadline may expire, the peer may vanish, and an older    *)
(* kernel may offer fewer capabilities.  Frames are whole: what a timed    *)
(* out write left half written is never read, because the side that gave   *)
(* up closes.                                                              *)
(***************************************************************************)
EXTENDS FiniteSets, Naturals, Sequences
-----------------------------------------------------------------------------
(***************************************************************************)
(* The wire contract of the kernel's socket: the capabilities a kernel     *)
(* offers, the requests a client may send, what the kernel promises for    *)
(* each, the codes with which each may be refused, and which projections   *)
(* protocol major 1 serves.  A payload is dropped wherever nothing branches*)
(* on it; a request keeps, as "about", the one thing its handler looks at  *)
(* before it calls the component that answers.                             *)
(***************************************************************************)

OFFERED_CAPABILITIES == {"pty_raw", "pty_input", "pty_control", "pty_start"}

ProtocolVersion == {1, 2}

FrameKind == {"Json", "PtyRaw"}

ContextKinds == {"context_release", "context_observation", "context_finalization"}

ProjectionKind ==
    ContextKinds \cup
    {"task", "attempt", "engine_session", "message", "command", "gate", "authority_grant", "receipt", "evidence",
     "attention_item", "worktree", "lease", "dispatch_node", "orchestrator_checkpoint", "ingested_record",
     "cost_entry", "workspace_node", "workflow_run", "pty_session", "pty_session_template"}

\* Context material waits for protocol major 2.
served_in_v1(kind) == kind \notin ContextKinds

KernelErrorCode ==
    {"handshake", "unsupported_version", "capability", "validation", "duplicate_key", "frame_size", "sealed",
     "already_active", "not_found", "indeterminate", "stale_version", "illegal_edge", "authority",
     "idempotency_conflict", "fenced", "overloaded", "slow_consumer", "storage", "schema", "privilege",
     "blob_integrity", "blob_tombstoned"}

-----------------------------------------------------------------------------
(***************************************************************************)
(* The result each request is promised.                                    *)
(***************************************************************************)
KernelResult ==
    [Health |-> "Health", Status |-> "Status", Watermark |-> "Watermark", VerifySealed |-> "SealedVerification",
     SubmitCommand |-> "CommandApplied", SendPtyInput |-> "CommandApplied", ResizePtySession |-> "CommandApplied",
     StopPtySession |-> "CommandApplied", StartPtySession |-> "CommandApplied",
     GetProjection |-> "Projection", ListProjection |-> "ProjectionPage", ReadEvents |-> "Events",
     SubscribeEvents |-> "Subscribed",
     BlobBegin |-> "BlobBegun", BlobChunk |-> "BlobChunkAccepted", BlobCommit |-> "BlobCommitted",
     BlobAbort |-> "BlobAborted", BlobRead |-> "BlobBytes", BlobStat |-> "BlobStat",
     PtyAttach |-> "PtyAttached", PtyRawAttach |-> "PtyRawAttached", PtySnapshot |-> "PtySnapshot",
     PtyPublishSnapshot |-> "PtyPublished", PtyPublishDeltas |-> "PtyPublished",
     PtyPublishRawResize |-> "PtyPublished", PtyRetire |-> "PtyRetired"]

KernelRequest == DOMAIN KernelResult

Reads == {"Health", "Status", "Watermark", "VerifySealed", "GetProjection", "ListProjection", "ReadEvents"}

Deliveries == {"SendPtyInput", "ResizePtySession", "StopPtySession", "StartPtySession"}

Blobs == {"BlobBegin", "BlobChunk", "BlobCommit", "BlobAbort", "BlobRead", "BlobStat"}

Attaches == {"SubscribeEvents", "PtyAttach", "PtyRawAttach"}

Publishes == {"PtyPublishSnapshot", "PtyPublishDeltas", "PtyPublishRawResize", "PtyRetire"}

\* What a handler reads of a request before it acts on it.
About(request) ==
    CASE request \in {"GetProjection", "ListProjection"} -> ProjectionKind
      [] request = "SubmitCommand" -> {"command", "ttl_sweep", "pty_command"}
      [] request = "BlobChunk" -> {"chunk", "oversized", "not_base64"}
      [] OTHER -> {"any"}

Result(type) == [type |-> type, code |-> "none"]

Error(code) == [type |-> "Error", code |-> code]

\* A request that only a connection holding the capability may make.
Needs(request) ==
    CASE request = "SendPtyInput" -> {"pty_input"}
      [] request \in {"ResizePtySession", "StopPtySession"} -> {"pty_control"}
      [] request \in {"PtyRawAttach", "PtyPublishRawResize"} -> {"pty_raw"}
      [] OTHER -> {}

-----------------------------------------------------------------------------
(***************************************************************************)
(* How the components that answer may refuse.                              *)
(***************************************************************************)

SubmitRefusals ==
    {"validation", "authority", "idempotency_conflict", "illegal_edge", "overloaded", "schema", "stale_version",
     "already_active", "not_found", "sealed", "fenced", "storage"}

DeliveryRefusals == SubmitRefusals \cup {"capability", "indeterminate", "slow_consumer"}

blob_refusal == {"not_found", "blob_tombstoned", "blob_integrity", "validation", "storage"}

PublishRefusals == {"authority", "not_found", "overloaded", "stale_version", "validation", "frame_size", "storage"}

\* A kind that is not served is refused by name; a projection that is not there is not_found.
unserved_projection(kind) == IF served_in_v1(kind) THEN {} ELSE {"unsupported_version"}

GetRefusals(kind) == IF served_in_v1(kind) THEN {"not_found", "storage"} ELSE unserved_projection(kind)

\* Reserved keys, and the commands with a request of their own, never reach the submission path.
SubmitChecked(about) == IF about = "command" THEN SubmitRefusals ELSE {"validation"}

blob_chunk(about) == IF about = "chunk" THEN blob_refusal ELSE {"validation"}

AttachRefusals(request) ==
    {"overloaded"} \cup (IF request = "SubscribeEvents" THEN {} ELSE {"not_found"})

\* A read fails only when the database does.
ReadRefusals == {"storage"}

Refusals(request, about) ==
    CASE request = "GetProjection" -> GetRefusals(about)
      [] request = "ListProjection" -> IF served_in_v1(about) THEN ReadRefusals ELSE unserved_projection(about)
      [] request \in Reads \ {"GetProjection", "ListProjection"} -> ReadRefusals
      [] request = "SubmitCommand" -> SubmitChecked(about)
      [] request \in Deliveries -> DeliveryRefusals
      [] request = "BlobChunk" -> blob_chunk(about)
      [] request \in Blobs \ {"BlobChunk"} -> blob_refusal
      [] request \in Attaches -> AttachRefusals(request)
      [] request = "PtySnapshot" -> {"not_found", "overloaded", "storage"}
      [] request \in Publishes -> PublishRefusals

\* Requests that are refused before the component that would answer them is asked.
Barred(request, about) ==
    \/ request \in {"GetProjection", "ListProjection"} /\ ~served_in_v1(about)
    \/ request = "SubmitCommand" /\ about # "command"
    \/ request = "BlobChunk" /\ about # "chunk"

\* Every result the kernel may give to a request on a connection that was granted these capabilities.
try_answer(request, about, granted) ==
    IF ~(Needs(request) \subseteq granted) THEN {Error("capability")}
    ELSE {Error(code) : code \in Refusals(request, about)}
         \cup (IF Barred(request, about) THEN {} ELSE {Result(KernelResult[request])})

-----------------------------------------------------------------------------
(***************************************************************************)
(* What travels.                                                           *)
(***************************************************************************)

ClientControl == {"Hello", "Request", "PtyDeliveryAck", "PtyRawPublishSnapshot", "PtyRawPublishOutput"}

RawHeaders == {"PtyRawPublishSnapshot", "PtyRawPublishOutput"}

ServerControl ==
    {"HelloAck", "HelloRefusal", "Response", "PtyInput", "PtyResize", "PtyStop", "PtyStart", "PtyDeliverySettled",
     "EventBatch", "StreamClosed", "PtyDeltaBatch", "PtyRawSnapshot", "PtyRawChunk", "PtyRawResized",
     "PtyStreamClosed", "PtyRawStreamClosed"}

\* The controls that carry a delivery a host must acknowledge.
delivery_id == {"PtyInput", "PtyResize", "PtyStop", "PtyStart"}

\* What a subscription or an attachment may send between responses.
Streamed == {"EventBatch", "StreamClosed", "PtyDeltaBatch", "PtyStreamClosed"}

-----------------------------------------------------------------------------
CONSTANTS
    Roles,           \* who the client is
    Offers,          \* the sets of capabilities the kernel may offer
    Kept,            \* the deliveries a host may already have applied when it connects
    Due,             \* the deliveries the kernel has for the session
    Sizes,           \* payload sizes
    Codes,           \* the refusals a component may answer with
    Abouts,          \* what a request may be about
    SOCKET,          \* frames one direction of the socket buffers
    INCOMING,        \* INCOMING_QUEUE_DEPTH
    PAYLOAD_MAX,     \* FRAME_PAYLOAD_MAX_BYTES
    MAX_CALLS,       \* bound: calls one client makes
    MAX_STREAMED     \* bound: items one attachment carries

ConnectionAssumption ==
    /\ Codes \subseteq KernelErrorCode
    /\ \A offer \in Offers : offer \subseteq OFFERED_CAPABILITIES

VARIABLES
    role, offered,   \* chosen once
    client,          \* [at, call, about, id, granted, why]; after an attach, id holds the announced size
    out,             \* frames the client is writing
    up,              \* the socket, client to kernel
    down,            \* the socket, kernel to client
    incoming,        \* what the host's reader task has decoded and not yet handed over
    kernel,          \* the kernel's reader: [at, header, reply, granted, end]
    responses, inputs, batches,   \* the writer's three queues
    writing,         \* the frames of the outgoing item being written
    delivery,        \* the delivery awaiting its acknowledgement, 0 for none
    due,             \* deliveries not yet handed to this connection
    applied,         \* the host's applied and unsettled deliveries
    stream,          \* [open, owned, sent]: this connection's attachment, and whether it publishes the session
    used,            \* calls made
    taken            \* [fits, mixed]: whether each answer fitted its call, whether payloads were mixed up

vars == <<role, offered, client, out, up, down, incoming, kernel, responses, inputs, batches, writing, delivery,
          due, applied, stream, used, taken>>

Host == {"Reader", "Publisher", "StartManager"}

\* gw asks for the raw stream and for input.
gw_capabilities == {"pty_raw", "pty_input"}

\* The capabilities each client asks for.
capabilities(who) ==
    CASE who = "Publisher" -> {"pty_raw", "pty_input", "pty_control"}
      [] who = "StartManager" -> {"pty_start"}
      [] who \in {"ask", "follow", "raw"} -> gw_capabilities
      [] OTHER -> {}

\* A frame is read and written whole, in order.
read_frame(pipe) == Head(pipe)

write_frame(pipe, frame) == Append(pipe, frame)

\* Which call each client makes; a publisher's raw calls exist only once the capability was granted.
Calls(who, granted) ==
    CASE who = "Publisher" ->
           {"PtyPublishSnapshot", "PtyPublishDeltas", "PtyRetire"}
           \cup (IF "pty_raw" \in granted THEN RawHeaders \cup {"PtyPublishRawResize"} ELSE {})
      [] who = "Reader" -> {"GetProjection", "SubmitCommand", "Health"}
      [] who = "ask" -> {"BlobChunk", "ListProjection", "SendPtyInput", "ResizePtySession"}
      [] who = "follow" -> {"SubscribeEvents"}
      [] who = "raw" -> IF "pty_raw" \in granted THEN {"PtyRawAttach"} ELSE {}
      [] OTHER -> {}

NoHeader == [t |-> "none", id |-> 0, size |-> 0]

Control(t, id, result) == [kind |-> "Json", t |-> t, id |-> id, result |-> result, size |-> 0]

Ok == Result("none")

Payload(id, size) == [kind |-> "PtyRaw", t |-> "payload", id |-> id, result |-> Ok, size |-> size]

Header(t, id, size) == [Control(t, id, Ok) EXCEPT !.size = size]

Init ==
    /\ role \in Roles
    /\ offered \in Offers
    /\ applied \in (IF role \in {"Publisher", "StartManager"} THEN SUBSET Kept ELSE {{}})
    /\ client = [at |-> "new", call |-> "none", about |-> "any", id |-> 0, granted |-> {}, why |-> "none"]
    /\ out = <<>> /\ up = <<>> /\ down = <<>> /\ incoming = <<>>
    /\ kernel = [at |-> "hello", header |-> NoHeader, reply |-> Control("none", 0, Ok), granted |-> {}, end |-> "none"]
    /\ responses = <<>> /\ inputs = <<>> /\ batches = <<>> /\ writing = <<>>
    /\ delivery = 0 /\ due = (IF role \in {"Publisher", "StartManager"} THEN Due ELSE {})
    /\ stream = [open |-> FALSE, owned |-> FALSE, sent |-> 0]
    /\ used = 0
    /\ taken = [fits |-> TRUE, mixed |-> FALSE]

KernelSide == <<kernel, responses, inputs, batches, writing, delivery, due, stream>>
Rigid == <<role, offered>>

Gone(why) == [at |-> "gone", call |-> "none", about |-> "any", id |-> 0, granted |-> {}, why |-> why]

-----------------------------------------------------------------------------
(***************************************************************************)
(* The client.                                                             *)
(***************************************************************************)

\* connect_inner, Client::connect: the hello is the first frame.
connect ==
    /\ client.at = "new"
    /\ client' = [client EXCEPT !.at = "hello"]
    /\ out' = <<[Control("Hello", 0, Ok) EXCEPT !.size = IF role = "V2" THEN 2 ELSE 1]>>
    /\ UNCHANGED <<up, down, incoming, applied, used, taken, KernelSide, Rigid>>

\* write_frame: one frame into the socket when it has room.
Flush ==
    /\ out # <<>> /\ Len(up) < SOCKET /\ client.at # "gone" /\ kernel.at # "over"
    /\ up' = write_frame(up, Head(out)) /\ out' = Tail(out)
    /\ UNCHANGED <<client, down, incoming, applied, used, taken, KernelSide, Rigid>>

\* The operation deadline on a write or on an answer; gw has none.
Timeout ==
    /\ role \in Host /\ client.at \in {"hello", "reconciling", "waiting"}
    /\ client' = Gone("timeout")
    /\ out' = <<>>
    /\ UNCHANGED <<up, down, incoming, applied, used, taken, KernelSide, Rigid>>

\* ask, and gw's request: a fresh id for every request.
ask(call, about) ==
    /\ client.at = "idle" /\ used < MAX_CALLS
    /\ call \in Calls(role, client.granted) \ RawHeaders
    /\ client' = [client EXCEPT !.at = "waiting", !.call = call, !.about = about, !.id = @ + 1]
    /\ out' = <<[Control("Request", client.id + 1, Ok) EXCEPT !.result.type = call, !.result.code = about]>>
    /\ used' = used + 1
    /\ UNCHANGED <<up, down, incoming, applied, taken, KernelSide, Rigid>>

\* publish_raw: the header and its payload in one call; a payload past the bound is refused before anything is sent.
publish_raw(call, size) ==
    /\ client.at = "idle" /\ used < MAX_CALLS
    /\ call \in Calls(role, client.granted) \cap RawHeaders
    /\ used' = used + 1
    /\ IF size > PAYLOAD_MAX
       THEN client' = Gone("frame_size") /\ UNCHANGED out
       ELSE /\ client' = [client EXCEPT !.at = "waiting", !.call = call, !.id = @ + 1]
            /\ out' = <<Header(call, client.id + 1, size), Payload(client.id + 1, size)>>
    /\ UNCHANGED <<up, down, incoming, applied, taken, KernelSide, Rigid>>

\* reconcile_applied_deliveries has sent its last acknowledgement.
Reconciled ==
    /\ client.at = "reconciling" /\ out = <<>>
    /\ client' = [client EXCEPT !.at = "idle"]
    /\ UNCHANGED <<out, up, down, incoming, applied, used, taken, KernelSide, Rigid>>

\* The client leaves: the session ended, the verb is done, the operator detached.
Leave ==
    /\ client.at = "idle" /\ out = <<>>
    /\ client' = Gone("done")
    /\ UNCHANGED <<out, up, down, incoming, applied, used, taken, KernelSide, Rigid>>

-----------------------------------------------------------------------------
(***************************************************************************)
(* What the client reads.  A host has a reader task that decodes into a    *)
(* bounded queue; gw reads the socket itself.                              *)
(***************************************************************************)

read_controls ==
    /\ role \in Host /\ client.at # "gone"
    /\ down # <<>> /\ Len(incoming) < INCOMING
    /\ incoming' = Append(incoming, read_frame(down)) /\ down' = Tail(down)
    /\ UNCHANGED <<client, out, up, applied, used, taken, KernelSide, Rigid>>

Inbox == IF role \in Host THEN incoming ELSE down

\* Drop the frame that was read.
Consumed == IF role \in Host THEN incoming' = Tail(incoming) /\ UNCHANGED down
            ELSE down' = Tail(down) /\ UNCHANGED incoming

Listening == out = <<>> /\ Inbox # <<>>

\* The peer is gone: a write fails at once, a read once nothing is left to read.
Hangup ==
    /\ client.at \notin {"new", "gone"} /\ kernel.at = "over"
    /\ out # <<>> \/ (down = <<>> /\ incoming = <<>>)
    /\ client' = Gone("closed")
    /\ out' = <<>>
    /\ UNCHANGED <<up, down, incoming, applied, used, taken, KernelSide, Rigid>>

\* What the first frame back says.
HelloVerdict(frame) ==
    CASE frame.t = "HelloAck" -> "open" [] frame.t = "HelloRefusal" -> "refused" [] OTHER -> "unexpected"

\* The acknowledgement of the hello: what was granted, then the deliveries applied before.
HelloAnswer ==
    /\ client.at = "hello" /\ Listening
    /\ IF HelloVerdict(read_frame(Inbox)) = "open"
       THEN /\ client' = [client EXCEPT !.at = IF applied = {} THEN "idle" ELSE "reconciling",
                                        !.granted = kernel.granted]
            /\ out' = [i \in 1 .. Cardinality(applied) |->
                          Control("PtyDeliveryAck", CHOOSE d \in applied :
                              Cardinality({e \in applied : e < d}) = i - 1, Result("Applied"))]
       ELSE client' = Gone(HelloVerdict(read_frame(Inbox))) /\ UNCHANGED out
    /\ Consumed
    /\ UNCHANGED <<up, applied, used, taken, KernelSide, Rigid>>

\* wait_for_control, consume_interleaved_control: a settlement leaves the dedup window; an idle host has no place for
\* anything else that is not a delivery.
settle_delivery ==
    /\ client.at \in {"idle", "waiting"} /\ role \in Host /\ Listening
    /\ Head(Inbox).t \notin delivery_id
    /\ client.at = "waiting" => Head(Inbox).t = "PtyDeliverySettled"
    /\ IF Head(Inbox).t = "PtyDeliverySettled"
       THEN applied' = applied \ {Head(Inbox).id} /\ UNCHANGED client
       ELSE client' = Gone("unexpected") /\ UNCHANGED applied
    /\ Consumed
    /\ UNCHANGED <<out, up, used, taken, KernelSide, Rigid>>

\* apply_session_control: applied once, refused, or left without an answer.
apply_session_control(outcome) ==
    /\ client.at \in {"idle", "waiting"} /\ role \in Host /\ Listening
    /\ LET frame == read_frame(Inbox)
           again == frame.id \in applied IN
       /\ frame.t \in delivery_id
       /\ again => outcome = "applied"
       /\ IF outcome = "indeterminate"
          THEN client' = Gone("indeterminate") /\ UNCHANGED <<out, applied>>
          ELSE /\ out' = <<Control("PtyDeliveryAck", frame.id, Result(outcome))>>
               /\ applied' = IF outcome = "applied" THEN applied \cup {frame.id} ELSE applied
               /\ UNCHANGED client
    /\ Consumed
    /\ UNCHANGED <<up, used, taken, KernelSide, Rigid>>

\* What gw skips on the way to its answer: batches of a subscription opened earlier.
gw_skips == {"EventBatch", "StreamClosed"}

\* Frames a client that awaits an answer skips.
Skipped == IF role \in Host /\ client.call \in RawHeaders
           THEN Streamed \cup {"PtyRawSnapshot", "PtyRawChunk", "PtyRawResized", "PtyRawStreamClosed"}
           ELSE IF role \in Host THEN Streamed ELSE gw_skips

\* Calls whose caller takes nothing but the answer for the next frame.
Strict == {"SubscribeEvents", "PtyRawAttach"}

\* A publish is acknowledged, refused, or answered with something else; so is a resize or a retire.
PublishOutcome(result) ==
    CASE result.type = "PtyPublished" -> "ok" [] result.type = "Error" -> "refused" [] OTHER -> "unexpected"

RetireOutcome(result) ==
    CASE result.type \in {"PtyPublished", "PtyRetired"} -> "ok" [] result.type = "Error" -> "refused" [] OTHER -> "unexpected"

\* How a wrapper reads the result of its call: a missing projection is an answer, any other error is not.
Outcome(call, result) ==
    CASE call \in {"PtyPublishSnapshot", "PtyPublishDeltas"} \cup RawHeaders -> PublishOutcome(result)
      [] call \in {"PtyPublishRawResize", "PtyRetire"} -> RetireOutcome(result)
      [] call = "GetProjection" ->
           IF result.type = "Projection" \/ result = Error("not_found") THEN "ok" ELSE "unexpected"
      [] call = "Health" -> IF result.type = "Health" THEN "ok" ELSE "unexpected"
      [] OTHER -> IF result.type = "Error" /\ call # "SubmitCommand" THEN "refused" ELSE "ok"

\* The answer to the call in hand; anything else that is not skipped ends the client.
TakeAnswer ==
    /\ client.at = "waiting" /\ Listening
    /\ LET frame == read_frame(Inbox)
           mine == frame.t = "Response" /\ frame.id = client.id IN
       /\ role \in Host => frame.t \notin delivery_id \cup {"PtyDeliverySettled"}
       /\ IF mine
          THEN LET told == Outcome(client.call, frame.result) IN
               /\ taken' = [taken EXCEPT !.fits = @ /\ (told = "unexpected" => frame.result.type = "Error")
                                         /\ frame.result \in
                                              (IF client.call \in RawHeaders
                                               THEN {Result("PtyPublished")} \cup {Error(c) : c \in PublishRefusals}
                                               ELSE try_answer(client.call, client.about, client.granted))]
               /\ client' = IF told = "ok"
                            THEN [client EXCEPT !.at = IF client.call \in Strict THEN "streaming" ELSE "idle"]
                            ELSE Gone(IF told = "unexpected" THEN "refused" ELSE told)
          ELSE /\ client' = IF client.call \notin Strict /\ frame.t \in Skipped THEN client ELSE Gone("unexpected")
               /\ UNCHANGED taken
    /\ Consumed
    /\ UNCHANGED <<out, up, applied, used, KernelSide, Rigid>>

\* receive, receive_pty_raw: the attached client reads its stream; a header is followed by its payload.
Receive ==
    /\ client.at = "streaming" /\ Listening
    /\ LET frame == read_frame(Inbox) IN
       CASE frame.kind = "PtyRaw" -> client' = Gone("unexpected")
         [] role = "follow" /\ frame.t = "StreamClosed" -> client' = Gone("done")
         [] role = "raw" /\ frame.t \in {"PtyRawSnapshot", "PtyRawChunk"} ->
              client' = [client EXCEPT !.at = "payload", !.id = frame.size]
         [] role = "raw" /\ frame.t = "PtyRawResized" -> UNCHANGED client
         [] role = "raw" /\ frame.t = "PtyRawStreamClosed" -> client' = Gone("done")
         [] role = "follow" -> UNCHANGED client
         [] OTHER -> client' = Gone("unexpected")
    /\ Consumed
    /\ UNCHANGED <<out, up, applied, used, taken, KernelSide, Rigid>>

receive_raw_payload ==
    /\ client.at = "payload" /\ Listening
    /\ LET frame == read_frame(Inbox) IN
       client' = IF frame.kind = "PtyRaw" /\ frame.size = client.id
                 THEN [client EXCEPT !.at = "streaming"] ELSE Gone("unexpected")
    /\ Consumed
    /\ UNCHANGED <<out, up, applied, used, taken, KernelSide, Rigid>>

-----------------------------------------------------------------------------
(***************************************************************************)
(* The kernel's reader.                                                    *)
(***************************************************************************)

ClientSide == <<client, out, incoming, applied, used>>

NoReply == Control("none", 0, Ok)

Over(end) == [kernel EXCEPT !.at = "over", !.end = end, !.header = NoHeader, !.reply = NoReply]

\* Whatever ends the connection drops its queues and abandons the delivery in hand.
Ends(end) ==
    /\ kernel' = Over(end)
    /\ responses' = <<>> /\ inputs' = <<>> /\ batches' = <<>> /\ writing' = <<>>
    /\ delivery' = 0
    /\ stream' = [stream EXCEPT !.open = FALSE, !.owned = FALSE]
    /\ UNCHANGED due

\* read_hello: the first frame must be a hello of protocol major 1.
read_hello(frame) ==
    CASE frame.kind # "Json" \/ frame.t # "Hello" -> "handshake"
      [] frame.size # 1 -> "unsupported_version"
      [] OTHER -> "none"

\* negotiate: the intersection of what was asked and what is offered, or a refusal and the end.
negotiate ==
    /\ kernel.at = "hello" /\ up # <<>>
    /\ up' = Tail(up)
    /\ IF read_hello(read_frame(up)) = "none"
       THEN /\ kernel' = [kernel EXCEPT !.at = "reading", !.granted = offered \cap capabilities(role)]
            /\ down' = write_frame(down, Control("HelloAck", 0, Ok))
            /\ UNCHANGED <<responses, inputs, batches, writing, delivery, due, stream>>
       ELSE Ends(read_hello(read_frame(up))) /\ down' = write_frame(down, Control("HelloRefusal", 0, Ok))
    /\ UNCHANGED <<ClientSide, taken, Rigid>>

\* The hello deadline; the refusal is told as well.
HelloDeadline ==
    /\ kernel.at = "hello" /\ Ends("deadline")
    /\ down' = write_frame(down, Control("HelloRefusal", 0, Ok))
    /\ UNCHANGED <<up, taken, ClientSide, Rigid>>

Answering(reply) == [kernel EXCEPT !.at = "answering", !.reply = reply, !.header = NoHeader]

\* PendingRawPublish::accept: the frame behind a header is its payload, and of the announced size.
accept(header, frame) ==
    CASE frame.kind # "PtyRaw" -> "handshake"
      [] frame.size # header.size -> "frame_size"
      [] OTHER -> "none"

\* PendingRawPublish::publish: the hub's verdict under the header's request id.
publish(result) ==
    /\ kernel.at = "reading" /\ kernel.header # NoHeader /\ up # <<>>
    /\ up' = Tail(up)
    /\ IF accept(kernel.header, read_frame(up)) = "none"
       THEN /\ result \in {Result("PtyPublished")} \cup {Error(c) : c \in PublishRefusals}
            /\ kernel' = Answering(Control("Response", kernel.header.id, result))
            /\ taken' = [taken EXCEPT !.mixed = @ \/ Head(up).id # kernel.header.id]
            /\ UNCHANGED <<responses, inputs, batches, writing, delivery, due, stream>>
       ELSE Ends(accept(kernel.header, read_frame(up))) /\ UNCHANGED taken
    /\ UNCHANGED <<down, ClientSide, Rigid>>

\* read_requests: a raw header waits for its payload when the capability was granted, and is refused otherwise; a
\* payload without its header, or a second hello, ends the connection.
read_requests ==
    /\ kernel.at = "reading" /\ kernel.header = NoHeader /\ up # <<>>
    /\ Head(up).t \in RawHeaders \cup {"payload", "Hello"}
    /\ LET frame == read_frame(up) IN
       IF frame.t \in {"payload", "Hello"} THEN Ends("handshake")
       ELSE IF frame.size > PAYLOAD_MAX /\ "pty_raw" \in kernel.granted THEN Ends("frame_size")
       ELSE /\ kernel' = IF "pty_raw" \in kernel.granted
                         THEN [kernel EXCEPT !.header = [t |-> frame.t, id |-> frame.id, size |-> frame.size]]
                         ELSE Answering(Control("Response", frame.id, Error("capability")))
            /\ UNCHANGED <<responses, inputs, batches, writing, delivery, due, stream>>
    /\ up' = Tail(up)
    /\ UNCHANGED <<down, taken, ClientSide, Rigid>>

\* answer: the request's result; a publish of a snapshot binds the session to this connection.  A delivery is refused
\* at once or handed to the session's host.
answer(result) ==
    /\ kernel.at = "reading" /\ kernel.header = NoHeader /\ up # <<>> /\ Head(up).t = "Request"
    /\ LET frame == read_frame(up)
           call == frame.result.type IN
       /\ result \in try_answer(call, frame.result.code, kernel.granted)
       /\ call \in Deliveries => result.type = "Error"
       /\ kernel' = Answering(Control("Response", frame.id, result))
       /\ stream' = [stream EXCEPT !.owned = (@ \/ (call = "PtyPublishSnapshot" /\ result.type # "Error"))
                                              /\ ~(call = "PtyRetire" /\ result.type # "Error")]
    /\ up' = Tail(up)
    /\ UNCHANGED <<down, taken, responses, inputs, batches, writing, delivery, due, ClientSide, Rigid>>

\* A delivery waits for its host on another connection, and nothing more is read here meanwhile.
deliver ==
    /\ kernel.at = "reading" /\ kernel.header = NoHeader /\ up # <<>> /\ Head(up).t = "Request"
    /\ LET frame == read_frame(up) IN
       /\ frame.result.type \in Deliveries /\ Needs(frame.result.type) \subseteq kernel.granted
       /\ kernel' = [kernel EXCEPT !.at = "delivering", !.reply = frame]
    /\ up' = Tail(up)
    /\ UNCHANGED <<down, taken, responses, inputs, batches, writing, delivery, due, stream, ClientSide, Rigid>>

\* The host's acknowledgement, or the deadline on it, which leaves the delivery indeterminate.
Delivered(result) ==
    /\ kernel.at = "delivering"
    /\ LET frame == kernel.reply IN
       /\ result \in try_answer(frame.result.type, frame.result.code, kernel.granted)
       /\ kernel' = Answering(Control("Response", frame.id, result))
    /\ UNCHANGED <<up, down, taken, responses, inputs, batches, writing, delivery, due, stream, ClientSide, Rigid>>

\* An acknowledgement settles the delivery in hand, or reconciles one this daemon no longer holds; a store that
\* cannot record it ends the connection.
DeliveryAck ==
    /\ kernel.at = "reading" /\ kernel.header = NoHeader /\ up # <<>> /\ Head(up).t = "PtyDeliveryAck"
    /\ \/ /\ kernel' = Answering(Control("PtyDeliverySettled", Head(up).id, Ok))
          /\ delivery' = IF Head(up).id = delivery THEN 0 ELSE delivery
          /\ UNCHANGED <<responses, inputs, batches, writing, due, stream>>
       \/ Ends("storage")
    /\ up' = Tail(up)
    /\ UNCHANGED <<down, taken, ClientSide, Rigid>>

\* responses.send, then start: the answer is queued before the stream it admitted may speak.
Respond ==
    /\ kernel.at = "answering" /\ responses = <<>>
    /\ responses' = <<<<kernel.reply>>>>
    /\ kernel' = [kernel EXCEPT !.at = "reading", !.reply = NoReply]
    /\ stream' = [stream EXCEPT !.open = @ \/ kernel.reply.result.type \in {"Subscribed", "PtyRawAttached"}]
    /\ UNCHANGED <<up, down, taken, inputs, batches, writing, delivery, due, ClientSide, Rigid>>

\* The client's end of the socket closed; with a payload outstanding that is an error of its own.
ClientGone ==
    /\ kernel.at \notin {"over", "delivering"} /\ client.at = "gone" /\ up = <<>>
    /\ Ends(IF kernel.header = NoHeader THEN "closed" ELSE "frame_size")
    /\ UNCHANGED <<up, down, taken, ClientSide, Rigid>>

\* The payload deadline, the acknowledgement deadline, a bounded write that blocks, the daemon stopping.
Deadline ==
    /\ kernel.at \in {"reading", "answering", "delivering"}
    /\ \/ kernel.at = "reading" /\ kernel.header # NoHeader
       \/ delivery # 0
       \/ writing # <<>> /\ Head(writing).t \notin {"Response", "PtyDeliverySettled"} /\ Len(down) = SOCKET
    /\ Ends("deadline")
    /\ UNCHANGED <<up, down, taken, ClientSide, Rigid>>

Stopped ==
    /\ kernel.at # "over" /\ Ends("stopped")
    /\ UNCHANGED <<up, down, taken, ClientSide, Rigid>>

-----------------------------------------------------------------------------
(***************************************************************************)
(* The kernel's writer and what feeds it.                                  *)
(***************************************************************************)

\* The control a delivery travels as, by what this connection may be sent.
Routes(granted) ==
    (IF "pty_input" \in granted THEN {"PtyInput"} ELSE {})
    \cup (IF "pty_control" \in granted THEN {"PtyResize", "PtyStop"} ELSE {})

\* A delivery is handed to the connection that publishes the session, or that manages starts.
Deliver(t, d) ==
    /\ kernel.at \in {"reading", "answering", "delivering"} /\ delivery = 0 /\ inputs = <<>> /\ d \in due
    /\ \/ stream.owned /\ t \in Routes(kernel.granted)
       \/ "pty_start" \in kernel.granted /\ t = "PtyStart"
    /\ inputs' = <<<<Control(t, d, Ok)>>>>
    /\ delivery' = d /\ due' = due \ {d}
    /\ UNCHANGED <<up, down, taken, kernel, responses, batches, writing, stream, ClientSide, Rigid>>

\* What an attachment sends: a raw item is one outgoing entry of two frames.
Items(size) ==
    IF role = "follow" THEN {<<Control("EventBatch", 0, Ok)>>}
    ELSE IF stream.sent = 0 THEN {<<Header("PtyRawSnapshot", 0, size), Payload(0, size)>>}
    ELSE {<<Header("PtyRawChunk", 0, size), Payload(0, size)>>, <<Control("PtyRawResized", 0, Ok)>>}

Stream(size) ==
    /\ stream.open /\ stream.sent < MAX_STREAMED /\ batches = <<>>
    /\ \E item \in Items(size) : batches' = <<item>>
    /\ stream' = [stream EXCEPT !.sent = @ + 1]
    /\ UNCHANGED <<up, down, taken, kernel, responses, inputs, writing, delivery, due, ClientSide, Rigid>>

\* A stream that ends says so through the response queue.
StreamCloses ==
    /\ stream.open /\ responses = <<>>
    /\ responses' = <<<<Control(IF role = "follow" THEN "StreamClosed" ELSE "PtyRawStreamClosed", 0, Ok)>>>>
    /\ stream' = [stream EXCEPT !.open = FALSE]
    /\ UNCHANGED <<up, down, taken, kernel, inputs, batches, writing, delivery, due, ClientSide, Rigid>>

\* Would look for an answer between the two frames of one item.
WriteBetween ==
    \/ /\ responses # <<>>
       /\ writing' = Head(responses) \o writing /\ responses' = <<>>
       /\ UNCHANGED <<inputs, batches, up, down, taken, kernel, delivery, due, stream, ClientSide, Rigid>>
    \/ /\ writing = <<>> /\ responses = <<>> /\ batches # <<>>
       /\ writing' = Head(batches) /\ batches' = <<>>
       /\ UNCHANGED <<responses, inputs, up, down, taken, kernel, delivery, due, stream, ClientSide, Rigid>>

\* write_frames: answers before deliveries before batches, one item at a time.
write_frames ==
    /\ writing = <<>>
    /\ \/ /\ responses # <<>>
          /\ writing' = Head(responses) /\ responses' = <<>> /\ UNCHANGED <<inputs, batches>>
       \/ /\ responses = <<>> /\ inputs # <<>>
          /\ writing' = Head(inputs) /\ inputs' = <<>> /\ UNCHANGED <<responses, batches>>
       \/ /\ responses = <<>> /\ inputs = <<>> /\ batches # <<>>
          /\ writing' = Head(batches) /\ batches' = <<>> /\ UNCHANGED <<responses, inputs>>
    /\ UNCHANGED <<up, down, taken, kernel, delivery, due, stream, ClientSide, Rigid>>

\* write_outgoing: the frames of one item, in order.
write_outgoing ==
    /\ writing # <<>> /\ Len(down) < SOCKET
    /\ down' = write_frame(down, Head(writing)) /\ writing' = Tail(writing)
    /\ UNCHANGED <<up, taken, kernel, responses, inputs, batches, delivery, due, stream, ClientSide, Rigid>>

-----------------------------------------------------------------------------

ClientSteps ==
    \/ connect \/ Flush \/ Reconciled \/ read_controls \/ Hangup \/ HelloAnswer \/ settle_delivery
    \/ \E outcome \in {"applied", "refused", "indeterminate"} : apply_session_control(outcome)
    \/ TakeAnswer \/ Receive \/ receive_raw_payload

Results == {Result(t) : t \in {KernelResult[q] : q \in KernelRequest}} \cup {Error(c) : c \in Codes}

KernelSteps ==
    \/ negotiate \/ read_requests \/ deliver \/ DeliveryAck \/ Respond \/ ClientGone
    \/ \E result \in Results : publish(result) \/ answer(result) \/ Delivered(result)
    \/ write_frames \/ write_outgoing

Choices ==
    \/ \E call \in KernelRequest : \E about \in About(call) \cap Abouts : ask(call, about)
    \/ \E call \in RawHeaders, size \in Sizes : publish_raw(call, size)
    \/ Leave \/ Timeout \/ HelloDeadline \/ Deadline \/ Stopped
    \/ \E t \in delivery_id, d \in Due : Deliver(t, d)
    \/ \E size \in Sizes : Stream(size)
    \/ StreamCloses

Next == ClientSteps \/ KernelSteps \/ Choices

\* Both processes keep running while they have something to do.  No deadline is relied upon but the one behind
\* Delivered, which bounds the wait for a host.
Progress == ClientSteps \/ KernelSteps

Spec == Init /\ [][Next]_vars /\ WF_vars(Progress)

-----------------------------------------------------------------------------
(***************************************************************************)
(* Properties.                                                             *)
(***************************************************************************)

(***************************************************************************)
(* The two ends stay in step.  Whatever deliveries, settlements, answers   *)
(* and stream items cross on the socket, a client never reads a frame it   *)
(* has no place for, and the kernel never refuses a frame of a client that *)
(* is still there: each payload is read as the payload of its header.      *)
(***************************************************************************)
PipeInStep ==
    /\ client.why # "unexpected"
    /\ kernel.end \in {"handshake", "frame_size"} => client.at = "gone"

(***************************************************************************)
(* What a caller takes as the answer to its call is one the kernel may     *)
(* give to that very request under the capabilities granted; a wrapper is  *)
(* surprised only by a refusal; and the bytes the hub publishes under a    *)
(* raw header are the ones its publisher sent with it.                     *)
(***************************************************************************)
AnswersPair == taken.fits /\ ~taken.mixed

InCall == client.at \in {"hello", "reconciling", "waiting"}

(***************************************************************************)
(* A call that was begun comes back, with an answer or because the         *)
(* connection is over, without any deadline on this connection having to   *)
(* expire.  In particular the two directions never wait on each other for  *)
(* good.  A delivery waits for its host, or for the acknowledgement        *)
(* deadline of the host's connection.                                      *)
(***************************************************************************)
CallsReturn == []<>~InCall
=============================================================================
