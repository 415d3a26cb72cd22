------------------------------- MODULE PtyHub -------------------------------
(***************************************************************************)
(* A terminal's screen, from the child process to the pane that shows it:  *)
(* the host's session task and its publisher (gwk-pty-host session.rs and  *)
(* publish.rs), the kernel's mirror of the session with its attach streams *)
(* and lifetime receipts (gwk-kernel wire/pty.rs, serve.rs, receipts.rs),  *)
(* and the pane that attaches (gridwork tui.rs, gwk-tui drilldown.rs and   *)
(* workspace/runtime.rs).  A client of the raw fallback stream             *)
(* (gridwork client.rs) may stand in the pane's place.                     *)
(*                                                                         *)
(* One session and one consumer are modelled.  A screen holds, per cell,   *)
(* one more than the revision that wrote it, 0 for a blank, so that two    *)
(* screens are equal only when nothing was missed.  Revisions start at 0;  *)
(* None is the revision of a session that printed nothing yet.             *)
(***************************************************************************)
EXTENDS Integers, Sequences, FiniteSets, SequencesExt

CONSTANTS
    Cells, Sizes,            \* the cells of a screen and its possible sizes
    RETAINED_BATCHES,        \* batches the hub keeps for replay
    BROADCAST_CAPACITY,      \* batches an attach may be behind the hub
    DELTA_CHANNEL_CAPACITY,  \* batches a publisher may be behind its session
    RAW_RETAINED_EVENTS,     \* raw events the hub keeps
    BATCH_QUEUE_DEPTH,       \* frames queued for the connection's writer
    SocketFrames,            \* frames the socket buffers
    Environments             \* what happens in a behaviour, one chosen for each

ASSUME HubAssumption ==
    /\ {RETAINED_BATCHES, BROADCAST_CAPACITY, DELTA_CHANNEL_CAPACITY,
        RAW_RETAINED_EVENTS, BATCH_QUEUE_DEPTH, SocketFrames} \subseteq Nat \ {0}
    /\ \A e \in Environments :
        /\ e.consumer \in {"pane", "raw"} /\ e.paints \subseteq Cells
        /\ {e.chunks, e.connections, e.breaks} \subseteq Nat
        /\ {e.resizes, e.ends, e.reseeds, e.dropped, e.crash, e.refuses} \subseteq BOOLEAN

VARIABLES
    host,     \* the session task: last revision, screen, is it running
    hist,     \* history: the screen at each revision
    pub,      \* the publisher task
    kopen,    \* host connections whose kernel end still runs
    hub,      \* the hub's session
    minted,   \* the generation counter
    row,      \* gwk.pty_session, by generation
    att,      \* the consumer's attach and the task that serves it
    out, resp, written,  \* the writer of its connection
    wire,     \* the socket to the consumer
    mirror,   \* DrilldownState
    tui,      \* the workspace's view of the pane; a raw client's position
    breaks,   \* transport failures and refused snapshots so far
    env       \* the environment of the behaviour, never changed

vars == <<host, hist, pub, kopen, hub, minted, row, att, out, resp, written, wire,
          mirror, tui, breaks>>
kernel == <<hub, minted, row, kopen>>
stream == <<att, out, resp, written, wire>>
consumer == <<mirror, tui>>

None == -1
Generations == 1 .. Cardinality(UNION {1 .. e.connections : e \in Environments})

Blank(size) == [size |-> size, cells |-> [c \in Cells |-> 0]]
NoScreen == [size |-> 0, cells |-> <<>>]
NoSession == [gen |-> 0]
Quiet == [items |-> <<>>, lag |-> FALSE]          \* a fresh broadcast receiver
NoAttach == [pc |-> "none"]
NotWriting == None - 1
Unset == None - 1

\* tokio broadcast: a receiver that falls behind loses the oldest and is told.
Push(rx, capacity, item) ==
    LET all == Append(rx.items, item) IN
    [items |-> IF Len(all) > capacity THEN Tail(all) ELSE all,
     lag |-> rx.lag \/ Len(all) > capacity]

NewMirror == [attach |-> FALSE, gen |-> 0, cells |-> NoScreen, frame |-> None, last |-> None]

Init ==
    /\ env \in Environments
    /\ host = [seq |-> None, screen |-> Blank(CHOOSE s \in Sizes : TRUE), alive |-> TRUE]
    /\ hist = <<>>
    /\ pub = [pc |-> "off", conn |-> 0]
    /\ kopen = {}
    /\ hub = NoSession
    /\ minted = 0
    /\ row = [g \in Generations |-> "absent"]
    /\ att = NoAttach
    /\ out = <<>> /\ resp = <<>> /\ written = NotWriting /\ wire = <<>>
    /\ mirror = NewMirror
    /\ tui = [pc |-> "unbound", bound |-> 0, want |-> FALSE, resume |-> None, got |-> Unset]
    /\ breaks = 0
-----------------------------------------------------------------------------
(***************************************************************************)
(* The session task.                                                       *)
(***************************************************************************)
Raw == env.consumer = "raw"
NonBlank(screen) == {c \in Cells : screen.cells[c] # 0}

\* WireScreen::apply and the consumers' counterpart: a resize blanks the grid,
\* then the updates land.
Applied(screen, b) ==
    [size |-> b.size,
     cells |-> [c \in Cells |-> IF c \in DOMAIN b.updates THEN b.updates[c]
                                ELSE IF b.resized THEN 0 ELSE screen.cells[c]]]

\* Record an event, tell the raw receivers, and publish the deltas if any.
Recorded(screen, batch) ==
    /\ host.alive /\ host.seq + 1 < env.chunks
    /\ host' = [host EXCEPT !.seq = @ + 1, !.screen = screen]
    /\ hist' = Append(hist, screen)
    /\ pub' = IF pub.pc \in {"off", "over"} THEN pub
                ELSE [pub EXCEPT !.live = IF batch = <<>> THEN @
                                          ELSE Push(@, DELTA_CHANNEL_CAPACITY, Head(batch)),
                                 !.raw = IF Raw THEN Push(@, DELTA_CHANNEL_CAPACITY, host.seq + 1)
                                         ELSE @]
    /\ UNCHANGED <<kernel, stream, consumer, breaks>>

Batch(resized, size, updates) ==
    [seq |-> host.seq + 1, resized |-> resized, size |-> size, updates |-> updates]

\* A chunk that paints a cell, or one that leaves the screen as it was.
Output(c) ==
    LET b == Batch(FALSE, host.screen.size, c :> host.seq + 2) IN
    c \in env.paints /\ Recorded(Applied(host.screen, b), <<b>>)
Silent == Recorded(host.screen, <<>>)

Resize(size) ==
    LET b == Batch(TRUE, size, [c \in NonBlank(host.screen) |-> host.screen.cells[c]]) IN
    /\ env.resizes /\ size # host.screen.size
    /\ Recorded(Applied(host.screen, b), <<b>>)

\* The child failed and is spawned again: a blank grid of the same size.
Respawn ==
    LET size == host.screen.size IN
    env.ends /\ Recorded(Blank(size), <<Batch(TRUE, size, <<>>)>>)

\* The child exited, or the session was stopped: the channels close.
Exit ==
    /\ host.alive /\ env.ends
    /\ host' = [host EXCEPT !.alive = FALSE]
    /\ UNCHANGED <<hist, pub, kernel, stream, consumer, breaks>>
-----------------------------------------------------------------------------
(***************************************************************************)
(* The hub.                                                                *)
(***************************************************************************)
\* Session::retain.
Retain(s, b) ==
    LET all == Append(s.retained, b) IN
    [s EXCEPT !.retained = IF Len(all) > RETAINED_BATCHES THEN Tail(all) ELSE all,
              !.evicted = IF Len(all) > RETAINED_BATCHES THEN Head(all).seq ELSE @]

\* The attach task's receiver, if it listens to this session.
Heard(b) == IF att.pc = "running" /\ att.gen = hub.gen
              THEN [att EXCEPT !.rx = Push(@, BROADCAST_CAPACITY, b)] ELSE att

\* publish_snapshot, no such session: a new lifetime.
Opened(conn, seed) ==
    [gen |-> minted + 1, owner |-> conn, seq |-> seed.seq, screen |-> seed.screen,
     retained |-> <<>>, evicted |-> seed.seq, rawSnap |-> Unset, rawSeq |-> None,
     rawRetained |-> <<>>]

\* publish_snapshot on a session the connection owns.
ReseedRefused(seed) ==
    \/ seed.seq < hub.seq
    \/ seed.seq = hub.seq /\ seed.screen.size # hub.screen.size

Reseeded(seed) ==
    LET b == [seq |-> seed.seq, resized |-> TRUE, size |-> seed.screen.size, updates |-> <<>>]
        s == [hub EXCEPT !.screen = seed.screen, !.seq = seed.seq] IN
    IF seed.seq > hub.seq
      THEN hub' = Retain(s, b) /\ att' = (IF Raw THEN att ELSE Heard(b))
      ELSE hub' = s /\ att' = att

\* publish_deltas: the batch was checked against the grid; an outdated one is
\* refused.
publish_deltas(b) ==
    /\ hub' = Retain([hub EXCEPT !.screen = Applied(@, b), !.seq = b.seq], b)
    /\ att' = IF Raw THEN att ELSE Heard(b)

\* publish_raw.
RawRefused(seq) ==
    \/ hub.rawSnap = Unset
    \/ seq # hub.rawSeq + 1
    \/ Len(hub.rawRetained) >= RAW_RETAINED_EVENTS
publish_raw(seq) ==
    /\ hub' = [hub EXCEPT !.rawSeq = seq, !.rawRetained = Append(@, seq)]
    /\ att' = Heard(seq)

Owns(conn) == hub.gen # 0 /\ hub.owner = conn

\* retire and the sessions half of disconnect: the broadcast senders drop.
Removed(conn) == IF Owns(conn) THEN NoSession ELSE hub
-----------------------------------------------------------------------------
(***************************************************************************)
(* The publisher: publish_session.  A request and its answer are one step. *)
(* A refusal or a broken connection drops the client and tries again.      *)
(***************************************************************************)
PubOff == pub' = [pc |-> "off", conn |-> 0]
PubOver == pub' = [pc |-> "over", conn |-> 0]
Connected == pub.conn \in kopen

\* connect_for_session and attach(None): the screen now, and all that follows.
PubConnect ==
    /\ pub.pc = "off" /\ minted < env.connections
    /\ \E c \in 1 .. env.connections :
        /\ c \notin kopen /\ ~Owns(c)
        /\ \A d \in 1 .. c - 1 : d \in kopen \/ Owns(d)
        /\ IF host.alive
             THEN /\ pub' = [pc |-> "seed", conn |-> c,
                             seed |-> [seq |-> host.seq, screen |-> host.screen],
                             live |-> Quiet, raw |-> Quiet]
                  /\ kopen' = kopen \cup {c}
             ELSE PubOver /\ UNCHANGED kopen
    /\ UNCHANGED <<host, hist, hub, minted, row, stream, consumer, breaks>>

PubSeed ==
    /\ pub.pc = "seed" /\ Connected
    /\ IF hub.gen = 0
         THEN /\ hub' = Opened(pub.conn, pub.seed)
              /\ minted' = minted + 1
              /\ row' = [row EXCEPT ![minted + 1] = "opening"]
              /\ pub' = [pub EXCEPT !.pc = "opening"]
              /\ UNCHANGED att
         ELSE IF ~Owns(pub.conn) \/ ReseedRefused(pub.seed)
           THEN PubOff /\ UNCHANGED <<hub, minted, row, att>>
           ELSE Reseeded(pub.seed) /\ pub' = [pub EXCEPT !.pc = "forward"] /\ UNCHANGED <<minted, row>>
    /\ UNCHANGED <<host, hist, kopen, out, resp, written, wire, consumer, breaks>>

\* receipts::opened, awaited before the publish is answered.
OpenReceipt(g) ==
    /\ row[g] = "opening"
    /\ row' = [row EXCEPT ![g] = "running"]
    /\ pub' = IF pub.pc = "opening" /\ hub.gen = g
                THEN [pub EXCEPT !.pc = IF Raw THEN "rawseed" ELSE "forward"] ELSE pub
    /\ UNCHANGED <<host, hist, kopen, hub, minted, stream, consumer, breaks>>

\* publish_raw_snapshot.
PubRawSeed ==
    /\ pub.pc = "rawseed" /\ Connected
    /\ IF Owns(pub.conn) /\ hub.rawSnap = Unset /\ hub.seq = pub.seed.seq
         THEN /\ hub' = [hub EXCEPT !.rawSnap = pub.seed.seq, !.rawSeq = pub.seed.seq,
                                    !.rawRetained = <<>>]
              /\ pub' = [pub EXCEPT !.pc = "forward"]
         ELSE PubOff /\ UNCHANGED hub
    /\ UNCHANGED <<host, hist, kopen, minted, row, stream, consumer, breaks>>

PubDelta ==
    /\ pub.pc = "forward" /\ Connected /\ ~pub.live.lag /\ pub.live.items # <<>>
    /\ LET b == Head(pub.live.items) IN
        IF Owns(pub.conn) /\ b.seq > hub.seq
          THEN /\ publish_deltas(b)
               /\ pub' = [pub EXCEPT !.live.items = Tail(@)]
          ELSE PubOff /\ UNCHANGED <<hub, att>>
    /\ UNCHANGED <<host, hist, kopen, minted, row, out, resp, written, wire, consumer, breaks>>

PubRaw ==
    /\ pub.pc = "forward" /\ Connected /\ ~pub.raw.lag /\ pub.raw.items # <<>>
    /\ LET seq == Head(pub.raw.items) IN
        IF Owns(pub.conn) /\ ~RawRefused(seq)
          THEN /\ publish_raw(seq)
               /\ pub' = [pub EXCEPT !.raw.items = Tail(@)]
          ELSE PubOff /\ UNCHANGED <<hub, att>>
    /\ UNCHANGED <<host, hist, kopen, minted, row, out, resp, written, wire, consumer, breaks>>

\* Lagged, or the connection is gone.
PubRetry ==
    /\ \/ pub.pc = "forward" /\ (pub.live.lag \/ pub.raw.lag)
       \/ pub.pc \in {"seed", "opening", "rawseed", "forward"} /\ ~Connected
    /\ PubOff
    /\ UNCHANGED <<host, hist, kernel, stream, consumer, breaks>>

\* The hub also takes a reseed on the connection that owns the session; this
\* repository's host reconnects instead, and a host of another build need not.
PubReseed ==
    /\ env.reseeds /\ ~Raw /\ pub.pc = "forward" /\ Connected /\ host.alive
    /\ pub.live.lag \/ pub.live.items # <<>>
    /\ pub' = [pub EXCEPT !.pc = "seed", !.live = Quiet,
                          !.seed = [seq |-> host.seq, screen |-> host.screen]]
    /\ UNCHANGED <<host, hist, kernel, stream, consumer, breaks>>

\* The session's channels closed, or the host is told to stop: retire it.
Drained(rx) == ~host.alive /\ rx = Quiet
SessionOver == Drained(pub.live) \/ (Raw /\ Drained(pub.raw))
PubRetire ==
    /\ pub.pc = "forward" /\ (SessionOver \/ env.ends)
    /\ IF Connected /\ Owns(pub.conn)
         THEN /\ hub' = NoSession
              /\ row' = [row EXCEPT ![hub.gen] = "closing"]
         ELSE UNCHANGED <<hub, row>>
    /\ PubOver
    /\ UNCHANGED <<host, hist, kopen, minted, stream, consumer, breaks>>

\* serve_connection ends: the host hung up, or the transport broke.  An open
\* receipt still being written is dropped where it waits, committed or not; for
\* a row that is not there the close gives up.
Hangup(c) ==
    /\ c \in kopen
    /\ \/ pub.conn # c /\ UNCHANGED breaks
       \/ pub.conn = c /\ breaks < env.breaks /\ breaks' = breaks + 1
    /\ kopen' = kopen \ {c}
    /\ hub' = Removed(c)
    /\ IF Owns(c)
         THEN \/ row' = [row EXCEPT ![hub.gen] = "closing"]
              \/ row[hub.gen] = "opening" /\ row' = [row EXCEPT ![hub.gen] = "absent"]
         ELSE UNCHANGED row
    /\ UNCHANGED <<host, hist, pub, minted, stream, consumer>>

\* receipts::closed: it reads the version again a few times, then gives up.
CloseReceipt(g) ==
    /\ row[g] = "closing"
    /\ \/ row' = [row EXCEPT ![g] = "closed"]
       \/ env.dropped /\ row' = [row EXCEPT ![g] = "running"]
    /\ UNCHANGED <<host, hist, pub, kopen, hub, minted, stream, consumer, breaks>>
-----------------------------------------------------------------------------
(***************************************************************************)
(* The attach and the connection it is served on.                          *)
(***************************************************************************)
Cut == /\ att' = NoAttach
       /\ out' = <<>> /\ resp' = <<>> /\ written' = NotWriting

\* The kernel's end goes; the consumer reads what the socket holds, then the end.
Eof == Cut /\ wire' = Append(wire, [t |-> "eof"])

StreamBreak ==
    /\ att.pc # "none" /\ breaks < env.breaks /\ breaks' = breaks + 1
    /\ Eof
    /\ UNCHANGED <<host, hist, pub, kernel, consumer>>

\* The daemon restarts: the hub is empty, the receipts on their way are lost.
Crash ==
    /\ env.crash /\ breaks < env.breaks /\ breaks' = breaks + 1
    /\ hub' = NoSession /\ kopen' = {}
    /\ row' = [g \in Generations |-> CASE row[g] = "opening" -> "absent"
                                        [] row[g] = "closing" -> "running"
                                        [] OTHER -> row[g]]
    /\ IF att.pc = "none" THEN UNCHANGED stream ELSE Eof
    /\ UNCHANGED <<host, hist, pub, minted, consumer>>

\* Mutant: a cursor older than what was evicted is replayed from.
ServesEvicted(cursor) == cursor # None /\ cursor <= hub.seq

\* attach: the cursor can be resumed from.
Serviceable(cursor) == cursor # None /\ cursor <= hub.seq /\ cursor >= hub.evicted

\* attach_raw: so can a raw one.
RawServiceable(cursor) == cursor # None /\ cursor >= hub.rawSnap /\ cursor <= hub.rawSeq

Snap(seq) == [t |-> "raw", gen |-> hub.gen, seq |-> seq, snap |-> TRUE]

\* admit_pty and admit_raw: subscribe and collect the replay under one lock.
HubAttach ==
    /\ att.pc = "asked"
    /\ IF hub.gen = 0 \/ (Raw /\ hub.rawSnap = Unset)
         THEN /\ resp' = Append(resp, [t |-> "error",
                                       code |-> IF hub.gen = 0 THEN "NotFound" ELSE "Overloaded"])
              /\ att' = [pc |-> "refused"]
         ELSE LET same == att.gen = hub.gen
                  ok == same /\ IF Raw THEN RawServiceable(att.cursor) ELSE Serviceable(att.cursor)
                  head == IF Raw THEN hub.rawSeq ELSE hub.seq
                  cursor == IF ok THEN att.cursor ELSE head
                  replay == IF Raw THEN SelectSeq(hub.rawRetained, LAMBDA s : ~ok \/ s > att.cursor)
                            ELSE IF ok THEN SelectSeq(hub.retained, LAMBDA b : b.seq > att.cursor)
                            ELSE <<>> IN
              /\ att' = [pc |-> "running", gen |-> hub.gen, rx |-> Quiet,
                         snap |-> IF Raw /\ ~ok THEN <<Snap(hub.rawSnap)>> ELSE <<>>,
                         replay |-> replay,
                         delivered |-> IF Raw /\ ~ok THEN None ELSE cursor]
              /\ resp' = Append(resp, [t |-> "attached", gen |-> hub.gen, cursor |-> cursor])
    /\ UNCHANGED <<host, hist, pub, kernel, out, written, wire, consumer, breaks>>

Frame(item) == IF Raw THEN [t |-> "raw", gen |-> att.gen, seq |-> item, snap |-> FALSE]
                      ELSE [t |-> "batch", gen |-> att.gen, seq |-> item.seq, batch |-> item]

Replaying == att.snap # <<>> \/ att.replay # <<>>

\* run_attach and run_raw_attach: the replay, then what arrives.
AttachSend ==
    /\ att.pc = "running" /\ Len(out) < BATCH_QUEUE_DEPTH
    /\ \/ /\ att.snap # <<>>
          /\ out' = out \o att.snap /\ att' = [att EXCEPT !.snap = <<>>]
       \/ /\ att.snap = <<>> /\ att.replay # <<>>
          /\ out' = Append(out, Frame(Head(att.replay)))
          /\ att' = [att EXCEPT !.replay = Tail(@)]
       \/ /\ ~Replaying /\ ~att.rx.lag /\ att.rx.items # <<>>
          /\ out' = Append(out, Frame(Head(att.rx.items)))
          /\ att' = [att EXCEPT !.rx.items = Tail(@)]
    /\ UNCHANGED <<host, hist, pub, kernel, resp, written, wire, consumer, breaks>>

\* Mutant: the close reports what was queued.
CloseFromQueue(code) ==
    /\ resp' = Append(resp, [t |-> "closed", gen |-> att.gen, code |-> code,
                             last |-> IF out = <<>> THEN att.delivered ELSE Last(out).seq])
    /\ att' = [att EXCEPT !.pc = "ended"]

\* The close travels ahead of the batches still queued, and names the last one
\* known to have left.
CloseStream(code) ==
    /\ resp' = Append(resp, [t |-> "closed", gen |-> att.gen, code |-> code,
                             last |-> att.delivered])
    /\ att' = [att EXCEPT !.pc = "ended"]

\* Mutant: a stream that fell behind is closed as if its session were gone.
LagIsGone ==
    /\ att.pc = "running" /\ ~Replaying
    /\ att.rx.lag \/ (att.rx = Quiet /\ hub.gen # att.gen)
    /\ CloseStream("NotFound")
    /\ UNCHANGED <<host, hist, pub, kernel, out, written, wire, consumer, breaks>>

\* It lagged, the queue stayed full until the timeout, or the session is gone.
AttachEnd ==
    /\ att.pc = "running"
    /\ \/ ~Replaying /\ att.rx.lag /\ CloseStream("SlowConsumer") /\ UNCHANGED breaks
       \/ /\ Replaying \/ att.rx.items # <<>>
          /\ Len(out) = BATCH_QUEUE_DEPTH /\ breaks < env.breaks /\ breaks' = breaks + 1
          /\ CloseStream("SlowConsumer")
       \/ /\ ~Replaying /\ att.rx = Quiet /\ hub.gen # att.gen
          /\ CloseStream("NotFound") /\ UNCHANGED breaks
    /\ UNCHANGED <<host, hist, pub, kernel, out, written, wire, consumer>>

\* write_frames: responses first; a raw frame of a stream that ended is dropped.
Write ==
    /\ written = NotWriting /\ Len(wire) < SocketFrames
    /\ \/ /\ resp # <<>>
          /\ wire' = Append(wire, Head(resp)) /\ resp' = Tail(resp)
          /\ UNCHANGED <<out, written>>
       \/ /\ resp = <<>> /\ out # <<>>
          /\ out' = Tail(out)
          /\ IF Raw /\ att.pc = "ended"
               THEN UNCHANGED <<wire, written>>
               ELSE wire' = Append(wire, Head(out)) /\ written' = Head(out).seq
          /\ UNCHANGED resp
    /\ UNCHANGED <<host, hist, pub, kernel, att, consumer, breaks>>

\* ... and the delivered mark is stored after the frame left.
Store ==
    /\ written # NotWriting
    /\ att' = IF written = None THEN att ELSE [att EXCEPT !.delivered = written]
    /\ written' = NotWriting
    /\ UNCHANGED <<host, hist, pub, kernel, out, resp, wire, consumer, breaks>>

\* A raw frame the socket does not take in time ends the connection.
RawWriteTimeout ==
    /\ Raw /\ written = NotWriting /\ resp = <<>> /\ out # <<>> /\ Len(wire) = SocketFrames
    /\ breaks < env.breaks /\ breaks' = breaks + 1
    /\ Eof
    /\ UNCHANGED <<host, hist, pub, kernel, consumer>>
-----------------------------------------------------------------------------
(***************************************************************************)
(* The pane: DrilldownState.                                               *)
(***************************************************************************)
switch_generation(m, gen) ==
    IF m.gen = gen THEN m
    ELSE [m EXCEPT !.gen = gen, !.cells = NoScreen, !.frame = None, !.last = None]

\* The answer to an attach: a mirror behind the cursor it was granted is let go.
IngestAttached(m, gen, cursor) ==
    LET s == switch_generation(m, gen)
        stale == gen = m.gen /\ cursor > m.frame IN
    [s EXCEPT !.attach = TRUE,
              !.cells = IF stale THEN NoScreen ELSE @,
              !.frame = IF stale THEN None ELSE @,
              !.last = IF cursor > @ THEN cursor ELSE @]

NoFrame == hub.gen = 0 \/ hub.seq = None          \* PtySnapshot answers NotFound

apply_snapshot(m) ==
    IF m.gen \notin {0, hub.gen} \/ hub.seq < m.last THEN m
    ELSE [m EXCEPT !.gen = hub.gen, !.cells = hub.screen, !.frame = hub.seq, !.last = hub.seq]

apply_batch(m, f) ==
    IF ~m.attach \/ m.gen # f.gen \/ f.seq <= m.last THEN m
    ELSE LET cells == IF f.batch.resized \/ m.cells = NoScreen THEN NoScreen
                      ELSE Applied(m.cells, f.batch) IN
         [m EXCEPT !.cells = cells, !.last = f.seq,
                   !.frame = IF cells = NoScreen THEN None ELSE f.seq]
-----------------------------------------------------------------------------
(***************************************************************************)
(* The workspace that keeps the pane attached.  Each await that reads the  *)
(* kernel is a step; the snapshot comes over a connection of its own.      *)
(***************************************************************************)
Running(g) == row[g] \in {"running", "closing"}
Closed == tui' = [tui EXCEPT !.pc = "closed", !.want = FALSE]

\* clear_requests and the pump dropped: the stream goes.
Down(m, pc) ==
    /\ mirror' = [m EXCEPT !.attach = FALSE]
    /\ tui' = [tui EXCEPT !.pc = pc, !.want = FALSE]
    /\ Cut /\ wire' = <<>>

\* bind_workspace_session: a running lifetime whose screen can be read.
Bind(g) ==
    /\ ~Raw /\ tui.pc = "unbound"
    /\ Running(g) /\ ~NoFrame /\ hub.gen = g
    /\ tui' = [tui EXCEPT !.pc = "down", !.bound = g]
    /\ UNCHANGED <<host, hist, pub, kernel, stream, mirror, breaks>>

\* restart_workspace_streams: look the lifetime up ...
RestartTerms ==
    /\ ~Raw /\ tui.pc = "down"
    /\ tui' = [tui EXCEPT !.pc = IF Running(tui.bound) THEN "snap" ELSE "closed"]
    /\ UNCHANGED <<host, hist, pub, kernel, stream, mirror, breaks>>

\* PtyHub::snapshot refuses a screen past PUBLISH_BYTE_BUDGET, which depends on
\* what is painted.
Refused == env.refuses /\ ~NoFrame /\ breaks < env.breaks /\ breaks' = breaks + 1

Attach(m) ==
    /\ tui' = [tui EXCEPT !.pc = "await"]
    /\ mirror' = [m EXCEPT !.attach = TRUE]
    /\ att' = [pc |-> "asked", gen |-> tui.bound, cursor |-> m.frame]

\* ... take a snapshot if there is no mirror, and attach from its revision, or
\* from the start when the snapshot is refused.
RestartAttach ==
    LET m == IF mirror.cells = NoScreen /\ ~NoFrame THEN apply_snapshot(mirror) ELSE mirror IN
    /\ tui.pc = "snap"
    /\ \/ mirror.cells = NoScreen /\ Refused /\ Attach(mirror)
       \/ /\ UNCHANGED breaks
          /\ IF mirror.cells = NoScreen /\ NoFrame
             THEN Closed /\ UNCHANGED <<mirror, att>>
             ELSE IF m.cells # NoScreen /\ m.gen # tui.bound
             THEN /\ tui' = [tui EXCEPT !.pc = "parked"] /\ mirror' = m /\ UNCHANGED att
             ELSE Attach(m)
    /\ UNCHANGED <<host, hist, pub, kernel, out, resp, written, wire>>

\* WorkspaceRuntime::ingest refuses an attach to another lifetime.
Accepts(f) == mirror.gen \in {0, f.gen}

Ingest(f, pc) ==
    LET m == CASE f.t = "attached" -> IngestAttached(mirror, f.gen, f.cursor)
               [] f.t = "batch" -> apply_batch(mirror, f)
               [] OTHER -> mirror IN
    /\ mirror' = m
    /\ tui' = [tui EXCEPT !.want = @ \/ m.cells = NoScreen,
                          !.pc = IF pc = "await" /\ m.cells # NoScreen THEN "live" ELSE pc]
    /\ wire' = Tail(wire)
    /\ UNCHANGED <<att, out, resp, written>>

Receive ==
    /\ ~Raw /\ wire # <<>>
    /\ tui.pc = "live" \/ (tui.pc = "await" /\ ~tui.want)
    /\ LET f == Head(wire) IN
        \/ f.t = "attached" /\ Accepts(f) /\ Ingest(f, "await")
        \/ f.t = "attached" /\ ~Accepts(f) /\ Down(mirror, "down")
        \/ f.t = "batch" /\ Ingest(f, tui.pc)
        \/ f.t \in {"closed", "error"} /\ Down(mirror, IF f.code = "NotFound" THEN "closed" ELSE "down")
        \/ f.t = "eof" /\ Down(mirror, "down")
    /\ UNCHANGED <<host, hist, pub, kernel, breaks>>

\* refresh_session_snapshot for a pane that lost its mirror.  While attaching,
\* a failure starts over; on a live stream it waits for the next frame.
Refresh ==
    LET m == IF NoFrame THEN mirror ELSE apply_snapshot(mirror) IN
    /\ tui.want
    /\ \/ Refused /\ tui.pc = "await" /\ Down(mirror, "down")
       \/ /\ Refused /\ tui.pc = "live"
          /\ tui' = [tui EXCEPT !.want = FALSE] /\ UNCHANGED <<mirror, stream>>
       \/ /\ UNCHANGED breaks
          /\ IF tui.pc = "await" /\ m.cells = NoScreen THEN Down(m, "down")
             ELSE IF NoFrame THEN Down(m, "closed")
             ELSE /\ mirror' = m
                  /\ tui' = [tui EXCEPT !.want = FALSE, !.pc = "live"]
                  /\ UNCHANGED stream
    /\ UNCHANGED <<host, hist, pub, kernel>>

\* Mutant: the event is heeded only by a pane that streams.
CloseEventLive ==
    /\ tui.pc = "live" /\ ~Raw /\ row[tui.bound] = "closed"
    /\ Down(mirror, "closed")
    /\ UNCHANGED <<host, hist, pub, kernel, breaks>>

\* pty_session_closed arrives on the event stream: the pane is closed.
CloseEvent ==
    /\ tui.pc \notin {"unbound", "closed"} /\ ~Raw /\ row[tui.bound] = "closed"
    /\ Down(mirror, "closed")
    /\ UNCHANGED <<host, hist, pub, kernel, breaks>>
-----------------------------------------------------------------------------
(***************************************************************************)
(* A client of the raw stream that resumes where a close says.             *)
(***************************************************************************)
RawAttach ==
    /\ Raw /\ tui.pc \in {"unbound", "down"} /\ hub.gen # 0
    /\ att' = [pc |-> "asked", gen |-> tui.bound, cursor |-> tui.resume]
    /\ tui' = [tui EXCEPT !.pc = "live"]
    /\ UNCHANGED <<host, hist, pub, kernel, out, resp, written, wire, mirror, breaks>>

RawReceive ==
    /\ Raw /\ tui.pc = "live" /\ wire # <<>>
    /\ LET f == Head(wire) IN
        \/ /\ f.t \in {"attached", "raw"}
           /\ tui' = [tui EXCEPT !.bound = f.gen,
                                 !.got = CASE f.t = "attached" -> IF f.gen = tui.bound THEN @ ELSE Unset
                                           [] f.t = "raw" -> f.seq]
           /\ wire' = Tail(wire) /\ UNCHANGED <<att, out, resp, written, mirror>>
        \/ /\ f.t \in {"closed", "error", "eof"}
           /\ tui' = [tui EXCEPT !.pc = "down",
                                 !.resume = IF f.t = "closed" THEN f.last ELSE tui.got]
           /\ Cut /\ wire' = <<>> /\ UNCHANGED mirror
    /\ UNCHANGED <<host, hist, pub, kernel, breaks>>
-----------------------------------------------------------------------------
Host == \/ \E c \in Cells : Output(c)
        \/ Silent
        \/ \E s \in Sizes : Resize(s)
        \/ Respawn
        \/ Exit
Publisher == PubConnect \/ PubSeed \/ PubRawSeed \/ PubDelta \/ PubRaw \/ PubRetry
Kernel == \/ \E c \in Generations : Hangup(c)
          \/ \E g \in Generations : OpenReceipt(g) \/ CloseReceipt(g)
          \/ Crash
Serving == HubAttach \/ AttachSend \/ AttachEnd \/ Write \/ Store \/ RawWriteTimeout \/ StreamBreak
Workspace == RestartTerms \/ RestartAttach \/ Receive \/ Refresh
RawClient == RawAttach \/ RawReceive

Next == \/ Host \/ Publisher \/ PubReseed \/ PubRetire
        \/ Kernel \/ Serving
        \/ (\E g \in Generations : Bind(g)) \/ Workspace \/ CloseEvent
        \/ RawClient

\* Every task that has something to do gets to do it; the child, the operator
\* and the transport owe nothing, and no timeout need fire.
Fairness ==
    /\ WF_vars(Publisher) /\ WF_vars(PubRetire /\ SessionOver)
    /\ \A g \in Generations : /\ WF_vars(g # pub.conn /\ Hangup(g))
                              /\ WF_vars(OpenReceipt(g)) /\ WF_vars(CloseReceipt(g))
    /\ WF_vars(HubAttach) /\ WF_vars(AttachSend) /\ WF_vars(AttachEnd /\ UNCHANGED breaks)
    /\ WF_vars(Write) /\ WF_vars(Store)
    /\ WF_vars(Workspace) /\ WF_vars(CloseEvent) /\ WF_vars(RawClient)

Spec == Init /\ [][Next /\ UNCHANGED env]_<<vars, env>> /\ Fairness
-----------------------------------------------------------------------------
\* What a pane shows at a revision is the screen the session had at that
\* revision, across lag, eviction, resizes, reseeds, reconnects and new
\* lifetimes: no batch was missed, repeated or applied to the wrong screen.
MirrorTrue ==
    mirror.cells # NoScreen => /\ mirror.frame \in 0 .. host.seq
                               /\ mirror.cells = hist[mirror.frame + 1]

\* A pane is closed only for a lifetime the hub does not hold any more.
RetiredIsOver ==
    [][tui.pc # "closed" /\ tui'.pc = "closed" => hub.gen # tui.bound]_vars

\* A raw client never skips output, wherever its stream was closed and
\* resumed: an event it receives follows what it has, or repeats it.
RawNeverSkips ==
    [][Raw /\ wire # <<>> /\ tui'.pc = "live" /\ wire' = Tail(wire) /\ Head(wire).t = "raw"
        => Head(wire).snap \/ (tui.got # Unset /\ Head(wire).seq <= tui.got + 1)]_vars

\* A bound pane is closed because its lifetime is over, or streams what the
\* hub holds; the daemon may have died or a close receipt been lost, and a pane
\* whose snapshot was refused on a live stream is blank until the next frame.
AtRest ==
    \/ env.crash \/ env.dropped \/ Raw
    \/ tui.pc \in {"unbound", "closed"}
    \/ /\ tui.pc = "live" /\ hub.gen = tui.bound
       /\ mirror.cells = hub.screen \/ (env.refuses /\ mirror.cells = NoScreen)

\* Unless the daemon dies or a close receipt is lost, the workspace comes to
\* rest: no pane stays down or behind, or blank but for a refused snapshot.
PaneSettles == <>[]AtRest
=============================================================================
