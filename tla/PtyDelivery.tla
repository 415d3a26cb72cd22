----------------------------- MODULE PtyDelivery -----------------------------
(***************************************************************************)
(* Delivering committed PTY commands to the host that runs the session:    *)
(* the durable delivery rows and the request that delivers one (gwk-kernel *)
(* wire/serve.rs), the hub's in-memory routes and pending deliveries       *)
(* (wire/pty.rs), and the host that applies, deduplicates and acknowledges *)
(* (gwk-pty-host registry.rs, kernel_client.rs, publish.rs).               *)
(*                                                                         *)
(* Every database statement and every section under the hub's locks is a   *)
(* step of its own.  A client may hang up wherever its request waits, a    *)
(* connection may break at either end at any time, a timeout may fire      *)
(* whenever it is armed, the daemon may restart.                           *)
(*                                                                         *)
(* One PTY session is modelled.  Each publication of it opens a new        *)
(* lifetime, and a host publishes once per connection, so the connection   *)
(* that owns the session also names its generation.  Connection numbers    *)
(* nothing refers to any more are used again.                              *)
(***************************************************************************)
EXTENDS Naturals, Sequences, FiniteSets, Functions

CONSTANTS
    Deliveries,          \* the delivery rows, numbers in event_seq order
    Requests,            \* client requests that may run at the same time
    Connections,         \* names for host connections
    DELIVERED_COMMANDS,  \* the host's deduplication window
    Environments         \* what clients do and what may fail, one per behaviour

ASSUME DeliveryAssumption ==
    /\ Deliveries \subseteq Nat \ {0}
    /\ Connections \subseteq Nat \ {0}
    /\ DELIVERED_COMMANDS \in Nat \ {0}
    /\ \A e \in Environments :
        /\ e.submitted \subseteq Deliveries /\ e.input \subseteq Deliveries
        /\ {e.lease, e.storage, e.leave} \subseteq BOOLEAN
        /\ {e.connections, e.claims, e.faults} \subseteq Nat

None == 0
Free == 0     \* claim_token IS NULL

VARIABLES
    row,       \* gwk_internal.pty_delivery
    req,       \* the requests being answered
    pending,   \* ControlRegistry.pending
    session,   \* the owner of the hub's session
    kconn,     \* the kernel's end of each connection
    reader,    \* what the kernel's reader of each connection is doing
    abandoned, \* DisconnectOutcome.abandoned, still to be written
    down, up,  \* frames to the host and acknowledgements to the kernel
    settled,   \* pty_delivery_settled frames on their way
    host,      \* the host: its connection, its dedup window, its session
    minted, faults,
    env,       \* the environment of the behaviour, never changed
    seen       \* history: what was dispatched, passed over, reported applied

vars == <<row, req, pending, session, kconn, reader, abandoned, down, up, settled,
          host, minted, faults, seen>>
kernel == <<row, req, pending, session, kconn, reader, abandoned, minted>>

Input == env.input                 \* deliveries that carry input; the others resize or stop
LeaseOutlivesAttempt == env.lease  \* no claim expires under the attempt that holds it
StorageMayFail == env.storage      \* a statement of the hangup sweep may fail
ClientsMayLeave == env.leave       \* a client may hang up on its request
MaxClaims == env.claims            \* bound on claim tokens
MaxFaults == env.faults            \* bound on daemon restarts and broken connections

Idle == [pc |-> "idle", d |-> None, token |-> Free, owner |-> None]
Reading == [pc |-> "read", d |-> None, token |-> Free, result |-> "none"]

Init ==
    /\ env \in Environments
    /\ row = [d \in Deliveries |-> [state |-> "absent", claim |-> Free,
                                    live |-> FALSE, fresh |-> FALSE, gen |-> None]]
    /\ req = [r \in Requests |-> Idle]
    /\ pending = {}
    /\ session = None
    /\ kconn = [c \in Connections |-> "closed"]
    /\ reader = [c \in Connections |-> Reading]
    /\ abandoned = [c \in Connections |-> {}]
    /\ down = [c \in Connections |-> <<>>]
    /\ up = [c \in Connections |-> <<>>]
    /\ settled = [c \in Connections |-> {}]
    /\ host = [conn |-> None, pc |-> "offline", delivered |-> {}, queue |-> <<>>,
               effects |-> <<>>, confirmed |-> {}]
    /\ minted = 0
    /\ faults = 0
    /\ seen = [dispatched |-> {}, passed |-> {}, told |-> {}]

Pending(d) == row[d].state = "pending"
Open(c) == kconn[c] \in {"open", "forced"}     \* the connection's loops run
PendingOf(d) == {p \in pending : p.d = d}

Settle(d, state) == [row[d] EXCEPT !.state = state, !.claim = Free, !.live = FALSE]
-----------------------------------------------------------------------------
(***************************************************************************)
(* deliver_submission: the request of a client.                            *)
(***************************************************************************)
\* submit_pty_*: the event and its row commit together; the client names the
\* lifetime it sees, or one it saw before.
Submit(r, d) ==
    /\ req[r].pc = "idle" /\ row[d].state = "absent" /\ d \in env.submitted
    /\ \A e \in Deliveries : e < d => row[e].state # "absent"
    /\ session # None
    /\ row' = [row EXCEPT ![d] = [@ EXCEPT !.state = "pending", !.fresh = TRUE, !.gen = session]]
    /\ req' = [req EXCEPT ![r] = [@ EXCEPT !.pc = "check", !.d = d]]
    /\ UNCHANGED <<pending, session, kconn, reader, abandoned, down, up, settled,
                   host, minted, faults, seen>>

\* The same command again: the submission replays and delivery starts over.
Retry(r, d) ==
    /\ req[r].pc = "idle" /\ row[d].state # "absent"
    /\ req' = [req EXCEPT ![r] = [@ EXCEPT !.pc = "check", !.d = d]]
    /\ UNCHANGED <<row, pending, session, kconn, reader, abandoned, down, up, settled,
                   host, minted, faults, seen>>

delivery_pending(r) ==
    /\ req[r].pc = "check"
    /\ req' = [req EXCEPT ![r] = IF PendingOf(@.d) # {} THEN Idle    \* overloaded
                                                      ELSE [@ EXCEPT !.pc = "claim"]]
    /\ UNCHANGED <<row, pending, session, kconn, reader, abandoned, down, up, settled,
                   host, minted, faults, seen>>

earlier(d) == {e \in Deliveries : e < d /\ Pending(e) /\ row[e].gen = row[d].gen}

\* Mutant: only a claim orders.
EarlierClaimed(d) == \E e \in earlier(d) : row[e].live

earlier_pending(d) == \E e \in earlier(d) : row[e].live \/ row[e].fresh

\* One transaction, the row locked: answer from a settled row, leave a live
\* claim alone, quarantine an expired one, wait for an earlier command.
ClaimRefused(r) ==
    LET d == req[r].d IN
    /\ req[r].pc = "claim"
    /\ ~Pending(d) \/ row[d].live \/ (row[d].claim = Free /\ earlier_pending(d))
    /\ req' = [req EXCEPT ![r] = Idle]
    /\ seen' = [seen EXCEPT !.told = IF row[d].state = "delivered" THEN @ \cup {d} ELSE @]
    /\ UNCHANGED <<row, pending, session, kconn, reader, abandoned, down, up, settled,
                   host, minted, faults>>

QuarantineExpired(r) ==
    LET d == req[r].d IN
    /\ req[r].pc = "claim"
    /\ Pending(d) /\ row[d].claim # Free /\ ~row[d].live
    /\ row' = [row EXCEPT ![d] = Settle(d, "indeterminate")]
    /\ req' = [req EXCEPT ![r] = Idle]
    /\ UNCHANGED <<pending, session, kconn, reader, abandoned, down, up, settled,
                   host, minted, faults, seen>>

Claim(r) ==
    LET d == req[r].d IN
    /\ req[r].pc = "claim"
    /\ Pending(d) /\ row[d].claim = Free /\ ~earlier_pending(d)
    /\ minted < MaxClaims /\ minted' = minted + 1
    /\ row' = [row EXCEPT ![d] = [@ EXCEPT !.claim = minted', !.live = TRUE]]
    /\ req' = [req EXCEPT ![r] = [@ EXCEPT !.pc = "route", !.token = minted']]
    /\ seen' = [seen EXCEPT !.passed = @ \cup {e \in earlier(d) : ~row[e].live /\ ~row[e].fresh}]
    /\ UNCHANGED <<pending, session, kconn, reader, abandoned, down, up, settled, host, faults>>
-----------------------------------------------------------------------------
(***************************************************************************)
(* deliver_input and deliver_control.                                      *)
(***************************************************************************)
Live(d) == session # None /\ session = row[d].gen

\* The session, its owner's route and a permit of the route's queue.
Route(r) ==
    /\ req[r].pc = "route"
    /\ Live(req[r].d) /\ Open(session)
    /\ req' = [req EXCEPT ![r] = [@ EXCEPT !.pc = "dispatch", !.owner = session]]
    /\ UNCHANGED <<row, pending, session, kconn, reader, abandoned, down, up, settled,
                   host, minted, faults, seen>>

\* No such lifetime, no route, no capability, or no permit in time.
NoRoute(r) ==
    /\ req[r].pc = "route"
    /\ req' = [req EXCEPT ![r] = [@ EXCEPT !.pc = "release"]]
    /\ UNCHANGED <<row, pending, session, kconn, reader, abandoned, down, up, settled,
                   host, minted, faults, seen>>

\* Both locks: read the lifetime again, record the pending delivery, use the
\* permit.  A permit of a connection whose loops ended sends into nothing.
Dispatch(r) ==
    LET d == req[r].d   c == req[r].owner IN
    /\ req[r].pc = "dispatch"
    /\ Live(d) /\ session = c /\ PendingOf(d) = {}
    /\ pending' = pending \cup {[d |-> d, owner |-> c, token |-> req[r].token, req |-> r]}
    /\ down' = [down EXCEPT ![c] = IF Open(c) THEN Append(@, d) ELSE @]
    /\ req' = [req EXCEPT ![r].pc = "wait"]
    /\ seen' = [seen EXCEPT !.dispatched = @ \cup {d}]
    /\ UNCHANGED <<row, session, kconn, reader, abandoned, up, settled, host, minted, faults>>

DispatchRefused(r) ==
    LET d == req[r].d IN
    /\ req[r].pc = "dispatch"
    /\ ~Live(d) \/ session # req[r].owner \/ PendingOf(d) # {}
    /\ req' = [req EXCEPT ![r].pc = "release"]
    /\ UNCHANGED <<row, pending, session, kconn, reader, abandoned, down, up, settled,
                   host, minted, faults, seen>>

\* The acknowledgement was applied; a refusal goes on to the release.
Acknowledged(r) ==
    /\ req[r].pc \in {"applied", "refused"}
    /\ pending' = pending \ PendingOf(req[r].d)
    /\ req' = [req EXCEPT ![r] = IF @.pc = "applied" THEN Idle ELSE [@ EXCEPT !.pc = "release"]]
    /\ seen' = [seen EXCEPT !.told = IF req[r].pc = "applied" THEN @ \cup {req[r].d} ELSE @]
    /\ UNCHANGED <<row, session, kconn, reader, abandoned, down, up, settled, host, minted, faults>>

\* No acknowledgement in time: the connection is told to end; the pending
\* delivery stays for its hangup to collect.
AckTimeout(r) ==
    LET c == req[r].owner IN
    /\ req[r].pc = "wait"
    /\ kconn' = [kconn EXCEPT ![c] = IF @ = "open" THEN "forced" ELSE @]
    /\ req' = [req EXCEPT ![r].pc = "abandon"]
    /\ UNCHANGED <<row, pending, session, reader, abandoned, down, up, settled,
                   host, minted, faults, seen>>

\* The refusal came before dispatch, or from the host: let go of the claim.
Release(r) ==
    LET d == req[r].d IN
    /\ req[r].pc = "release"
    /\ row' = [row EXCEPT ![d] = IF Pending(d) /\ @.claim = req[r].token
                                   THEN [@ EXCEPT !.claim = Free, !.live = FALSE] ELSE @]
    /\ req' = [req EXCEPT ![r] = Idle]
    /\ UNCHANGED <<pending, session, kconn, reader, abandoned, down, up, settled,
                   host, minted, faults, seen>>

abandon_pty_delivery(d, token) ==
    [row EXCEPT ![d] = IF Pending(d) /\ @.claim = token THEN Settle(d, "indeterminate") ELSE @]

Abandon(r) ==
    /\ req[r].pc = "abandon"
    /\ row' = abandon_pty_delivery(req[r].d, req[r].token)
    /\ req' = [req EXCEPT ![r] = Idle]
    /\ UNCHANGED <<pending, session, kconn, reader, abandoned, down, up, settled,
                   host, minted, faults, seen>>

\* The client hangs up: its request is dropped where it waits.
ClientLeaves(r) ==
    /\ ClientsMayLeave /\ req[r].pc # "idle"
    /\ req' = [req EXCEPT ![r] = Idle]
    /\ UNCHANGED <<row, pending, session, kconn, reader, abandoned, down, up, settled,
                   host, minted, faults, seen>>
-----------------------------------------------------------------------------
(***************************************************************************)
(* The kernel's end of a host connection.                                  *)
(***************************************************************************)
Answer(c, d) == settled' = [settled EXCEPT ![c] = @ \cup {d}]
Close(c) == kconn' = [kconn EXCEPT ![c] = "closing"]

\* read_requests: an acknowledgement is matched with the pending delivery of
\* this connection; one that nothing waits for is evidence to reconcile.
delivery_ack_claim(c) ==
    /\ Open(c) /\ reader[c].pc = "read" /\ up[c] # <<>>
    /\ LET a == Head(up[c])   p == PendingOf(a.d) IN
        \/ /\ p = {}
           /\ reader' = [reader EXCEPT ![c] = [pc |-> "reconcile", d |-> a.d, token |-> Free,
                                               result |-> a.result]]
           /\ UNCHANGED kconn
        \/ /\ \E e \in p : e.owner # c
           /\ Close(c) /\ UNCHANGED reader
        \/ \E e \in p :
            /\ e.owner = c
            /\ reader' = [reader EXCEPT ![c] = [pc |-> "settle", d |-> a.d, token |-> e.token,
                                                result |-> a.result]]
            /\ UNCHANGED kconn
    /\ up' = [up EXCEPT ![c] = Tail(@)]
    /\ UNCHANGED <<row, req, pending, session, abandoned, down, settled, host, minted, faults, seen>>

\* Mutant: the settlement does not look at the row's state.
SettleAnyState(c) ==
    LET a == reader[c] IN
    /\ Open(c) /\ a.pc = "settle"
    /\ row' = [row EXCEPT ![a.d] =
                  Settle(a.d, IF a.result = "applied" THEN "delivered" ELSE "failed")]
    /\ reader' = [reader EXCEPT ![c].pc = "take"]
    /\ UNCHANGED <<kconn, req, pending, session, abandoned, down, up, settled, host, minted,
                   faults, seen>>

SettleRefusalRetryable(c) ==
    LET a == reader[c] IN
    /\ Open(c) /\ a.pc = "settle"
    /\ row' = [row EXCEPT ![a.d] =
                  Settle(a.d, IF a.result = "applied" THEN "delivered" ELSE "pending")]
    /\ reader' = [reader EXCEPT ![c].pc = "take"]
    /\ UNCHANGED <<kconn, req, pending, session, abandoned, down, up, settled, host, minted,
                   faults, seen>>

settle_pty_delivery(c) ==
    LET a == reader[c] IN
    /\ Open(c) /\ a.pc = "settle"
    /\ IF Pending(a.d) /\ row[a.d].claim = a.token
         THEN /\ row' = [row EXCEPT ![a.d] =
                            Settle(a.d, IF a.result = "applied" THEN "delivered" ELSE "failed")]
              /\ reader' = [reader EXCEPT ![c].pc = "take"]
              /\ UNCHANGED kconn
         ELSE Close(c) /\ UNCHANGED <<row, reader>>
    /\ UNCHANGED <<req, pending, session, abandoned, down, up, settled, host, minted, faults, seen>>

take_delivery_ack(c) ==
    LET a == reader[c]
        mine == {e \in PendingOf(a.d) : e.owner = c /\ e.token = a.token} IN
    /\ Open(c) /\ a.pc = "take"
    /\ IF mine = {}
         THEN Close(c) /\ UNCHANGED <<pending, req, settled, reader>>
         ELSE /\ pending' = pending \ mine
              /\ req' = [r \in Requests |->
                            IF req[r].pc = "wait" /\ \E e \in mine : e.req = r /\ e.token = req[r].token
                              THEN [req[r] EXCEPT !.pc = a.result] ELSE req[r]]
              /\ Answer(c, a.d)
              /\ reader' = [reader EXCEPT ![c] = Reading]
              /\ UNCHANGED kconn
    /\ UNCHANGED <<row, session, abandoned, down, up, host, minted, faults, seen>>

reconcile_pty_delivery(c) ==
    LET a == reader[c] IN
    /\ Open(c) /\ a.pc = "reconcile"
    /\ IF a.result = "applied" /\ row[a.d].state \in {"delivered", "indeterminate"}
         THEN /\ row' = [row EXCEPT ![a.d] = Settle(a.d, "delivered")]
              /\ Answer(c, a.d)
              /\ reader' = [reader EXCEPT ![c] = Reading]
              /\ UNCHANGED kconn
         ELSE Close(c) /\ UNCHANGED <<row, settled, reader>>
    /\ UNCHANGED <<req, pending, session, abandoned, down, up, host, minted, faults, seen>>

\* The loops end: the peer hung up, the transport broke, or the delivery
\* deadline forced it.
EndOfStream(c) == Open(c) /\ (host.conn # c \/ kconn[c] = "forced") /\ Close(c)
Broken(c) == kconn[c] = "open" /\ host.conn = c /\ faults < MaxFaults /\ Close(c)
Hangup(c) ==
    /\ \/ EndOfStream(c) /\ UNCHANGED faults
       \/ Broken(c) /\ faults' = faults + 1
    /\ UNCHANGED <<row, req, pending, session, reader, abandoned, down, up, settled,
                   host, minted, seen>>

\* disconnect, the section under the controls lock: whoever waits for one of
\* its deliveries sees its sender dropped.
DropRoutes(c) ==
    LET mine == {e \in pending : e.owner = c} IN
    /\ kconn[c] = "closing"
    /\ kconn' = [kconn EXCEPT ![c] = "unrouted"]
    /\ pending' = pending \ mine
    /\ abandoned' = [abandoned EXCEPT ![c] = {<<e.d, e.token>> : e \in mine}]
    /\ req' = [r \in Requests |->
                  IF req[r].pc = "wait" /\ \E e \in mine : e.req = r /\ e.token = req[r].token
                    THEN [req[r] EXCEPT !.pc = "abandon"] ELSE req[r]]
    /\ reader' = [reader EXCEPT ![c] = Reading]
    /\ UNCHANGED <<row, session, down, up, settled, host, minted, faults, seen>>

\* ... and the section under the sessions lock.
DropSessions(c) ==
    /\ kconn[c] = "unrouted"
    /\ kconn' = [kconn EXCEPT ![c] = "sweeping"]
    /\ session' = IF session = c THEN None ELSE session
    /\ UNCHANGED <<row, req, pending, reader, abandoned, down, up, settled,
                   host, minted, faults, seen>>

\* Mutant: only the request writes the outcome, not the connection's end.
NothingAbandoned(c) ==
    /\ kconn[c] = "sweeping"
    /\ kconn' = [kconn EXCEPT ![c] = "closed"]
    /\ abandoned' = [abandoned EXCEPT ![c] = {}]
    /\ UNCHANGED <<row, req, pending, session, reader, down, up, settled, host, minted, faults, seen>>

\* abandon_pty_deliveries: one statement each; a failed one is only logged.
abandon_pty_deliveries(c) ==
    /\ kconn[c] = "sweeping"
    /\ \/ /\ abandoned[c] = {}
          /\ kconn' = [kconn EXCEPT ![c] = "closed"]
          /\ UNCHANGED <<row, abandoned>>
       \/ \E p \in abandoned[c] :
            /\ \/ row' = abandon_pty_delivery(p[1], p[2])
               \/ StorageMayFail /\ row' = row
            /\ abandoned' = [abandoned EXCEPT ![c] = @ \ {p}]
            /\ UNCHANGED kconn
    /\ UNCHANGED <<req, pending, session, reader, down, up, settled, host, minted, faults, seen>>

-----------------------------------------------------------------------------
(***************************************************************************)
(* The host.                                                               *)
(***************************************************************************)
\* A number that no connection, lifetime or pending delivery still refers to.
Unused(c) ==
    /\ kconn[c] = "closed" /\ session # c /\ host.conn # c
    /\ \A e \in pending : e.owner # c
    /\ \A d \in Deliveries : row[d].gen = c => ~Pending(d) /\ \A r \in Requests : req[r].d # d

\* DeliveredCommands.ids: the window, oldest application first.
ids ==
    {q \in UNION {[1..n -> host.delivered] : n \in 0..DELIVERED_COMMANDS} :
        /\ Range(q) = host.delivered
        /\ \A i, j \in DOMAIN q : i < j =>
             \E k, l \in DOMAIN host.effects : k < l /\ host.effects[k] = q[i] /\ host.effects[l] = q[j]}

\* publish_once: connect, then reassert every application not yet settled.
Connect(c) ==
    /\ host.pc = "offline" /\ c <= env.connections /\ Unused(c) /\ \A k \in Connections : Unused(k) => c <= k
    /\ kconn' = [kconn EXCEPT ![c] = "open"]
    /\ host' = [host EXCEPT !.conn = c, !.pc = "reconciling"]
    /\ \E q \in ids :
         up' = [up EXCEPT ![c] = [i \in DOMAIN q |-> [d |-> q[i], result |-> "applied"]]]
    /\ down' = [down EXCEPT ![c] = <<>>]
    /\ settled' = [settled EXCEPT ![c] = {}]
    /\ UNCHANGED <<row, req, pending, session, reader, abandoned, minted, faults, seen>>

\* pty_delivery_settled arrives: the host may forget the delivery.
settle_delivery ==
    /\ host.conn # None
    /\ \E d \in settled[host.conn] :
        /\ host' = [host EXCEPT !.delivered = @ \ {d}]
        /\ settled' = [settled EXCEPT ![host.conn] = @ \ {d}]
    /\ UNCHANGED <<kernel, down, up, faults, seen>>

Offline == [host EXCEPT !.conn = None, !.pc = "offline"]

\* Attaching crosses the session's thread, so it waits behind what is queued
\* there; without an answer in time the publisher takes the session for ended.
AttachTimeout ==
    /\ host.pc = "reconciling" /\ host.delivered = {} /\ host.queue # <<>>
    /\ host' = [host EXCEPT !.conn = None, !.pc = "silent"]
    /\ UNCHANGED <<kernel, down, up, settled, faults, seen>>

\* The seed claims the session; while an earlier connection still owns it the
\* kernel refuses and the host starts over.
publish_snapshot ==
    /\ host.pc = "reconciling" /\ host.delivered = {} /\ host.queue = <<>>
    /\ Open(host.conn)
    /\ IF session = None
         THEN session' = host.conn /\ host' = [host EXCEPT !.pc = "live"]
         ELSE host' = Offline /\ UNCHANGED session
    /\ UNCHANGED <<row, req, pending, kconn, reader, abandoned, down, up, settled,
                   minted, faults, seen>>

Acknowledge(d, result) ==
    up' = [up EXCEPT ![host.conn] = Append(@, [d |-> d, result |-> result])]
Received(d) ==
    /\ host.pc = "live" /\ down[host.conn] # <<>> /\ d = Head(down[host.conn])
    /\ down' = [down EXCEPT ![host.conn] = Tail(@)]
Took(d) == [host EXCEPT !.effects = Append(@, d)]

\* Mutants: a window that forgets what it holds; an early acknowledgement.
ApplyEvicting(d) ==
    /\ Received(d) /\ host.queue = <<>>
    /\ host' = [Took(d) EXCEPT !.delivered =
                  {d} \cup (IF Cardinality(@) < DELIVERED_COMMANDS THEN @ ELSE {}),
                  !.confirmed = @ \cup {d}]
    /\ Acknowledge(d, "applied")
    /\ UNCHANGED <<kernel, settled, faults, seen>>
AcknowledgeEarly(d) ==
    /\ Received(d)
    /\ host' = [host EXCEPT !.queue = Append(@, d)]
    /\ Acknowledge(d, "applied")
    /\ UNCHANGED <<kernel, settled, faults, seen>>

\* apply_once around the session's thread, which takes commands in order.
\* The operation runs only for a delivery it has not seen, with room to
\* remember it, and is remembered once it succeeded.
apply_once(d) ==
    /\ Received(d)
    /\ d \notin host.delivered =>
         Cardinality(host.delivered) < DELIVERED_COMMANDS /\ host.queue = <<>>
    /\ host' = IF d \in host.delivered THEN host
                 ELSE [Took(d) EXCEPT !.delivered = @ \cup {d}, !.confirmed = @ \cup {d}]
    /\ Acknowledge(d, "applied")
    /\ UNCHANGED <<kernel, settled, faults, seen>>

\* The window is full, the command was never queued, or the session said no.
Refuse(d) ==
    /\ Received(d) /\ d \notin host.delivered
    /\ Acknowledge(d, "refused")
    /\ UNCHANGED <<kernel, settled, host, faults, seen>>

\* The command is queued and no answer came in time.  For input, and for a
\* stop whose session did not close, the host reports nothing and reconnects.
ApplicationIndeterminate(d) ==
    /\ Received(d) /\ d \notin host.delivered
    /\ host' = [Offline EXCEPT !.queue = Append(@, d)]
    /\ UNCHANGED <<kernel, up, settled, faults, seen>>

\* For a resize or a stop it reports a refusal (control_timeout).
ControlTimeout(d) ==
    /\ d \notin Input
    /\ Received(d) /\ d \notin host.delivered
    /\ host' = [host EXCEPT !.queue = Append(@, d)]
    /\ Acknowledge(d, "refused")
    /\ UNCHANGED <<kernel, settled, faults, seen>>

\* The session's thread reaches a command nobody waits for any more.
TakeQueued ==
    /\ host.queue # <<>>
    /\ host' = [Took(Head(host.queue)) EXCEPT !.queue = Tail(@)]
    /\ UNCHANGED <<kernel, down, up, settled, faults, seen>>

\* The host notices that its connection is gone, or loses it.
Reconnect ==
    /\ host.conn # None
    /\ \/ kconn[host.conn] \in {"open", "forced"} /\ faults < MaxFaults /\ faults' = faults + 1
       \/ kconn[host.conn] \notin {"open", "forced"} /\ UNCHANGED faults
    /\ host' = Offline
    /\ UNCHANGED <<kernel, down, up, settled, seen>>

\* The child exits: commands still queued are dropped, the window with them.
SessionOver ==
    /\ host.pc # "over" /\ faults < MaxFaults /\ faults' = faults + 1
    /\ host' = [host EXCEPT !.conn = None, !.pc = "over", !.delivered = {}, !.queue = <<>>]
    /\ UNCHANGED <<kernel, down, up, settled, seen>>
-----------------------------------------------------------------------------
(***************************************************************************)
(* Time and restarts.                                                      *)
(***************************************************************************)
\* claimed_until passes.  Its length exceeds the two timeouts of an attempt.
ClaimExpires(d) ==
    /\ row[d].live
    /\ LeaseOutlivesAttempt =>
         \A r \in Requests : req[r].token = row[d].claim => req[r].pc \in {"release", "abandon"}
    /\ row' = [row EXCEPT ![d].live = FALSE]
    /\ UNCHANGED <<req, pending, session, kconn, reader, abandoned, down, up, settled,
                   host, minted, faults, seen>>

\* The event is older than a lease; the claim that follows its commit in the
\* same request is long since made.
AppendAges(d) ==
    /\ row[d].fresh
    /\ LeaseOutlivesAttempt =>
         \A r \in Requests : req[r].d = d => req[r].pc \notin {"check", "claim"}
    /\ row' = [row EXCEPT ![d].fresh = FALSE]
    /\ UNCHANGED <<req, pending, session, kconn, reader, abandoned, down, up, settled,
                   host, minted, faults, seen>>

\* The daemon stops and a new one quarantines what it finds.
Restart ==
    /\ faults < MaxFaults /\ faults' = faults + 1
    /\ row' = [d \in Deliveries |-> IF Pending(d) THEN Settle(d, "indeterminate") ELSE row[d]]
    /\ req' = [r \in Requests |-> Idle]
    /\ pending' = {} /\ session' = None
    /\ kconn' = [c \in Connections |-> "closed"]
    /\ reader' = [c \in Connections |-> Reading]
    /\ abandoned' = [c \in Connections |-> {}]
    /\ UNCHANGED <<down, up, settled, host, minted, seen>>

-----------------------------------------------------------------------------
Attempt(r) ==
    \/ delivery_pending(r) \/ ClaimRefused(r) \/ QuarantineExpired(r) \/ Claim(r)
    \/ Route(r) \/ NoRoute(r) \/ Dispatch(r) \/ DispatchRefused(r)
    \/ Acknowledged(r) \/ AckTimeout(r) \/ Release(r) \/ Abandon(r)

Serve(c) ==
    \/ delivery_ack_claim(c) \/ settle_pty_delivery(c) \/ take_delivery_ack(c)
    \/ reconcile_pty_delivery(c) \/ DropRoutes(c) \/ DropSessions(c) \/ abandon_pty_deliveries(c)

HostTakes(d) == apply_once(d) \/ Refuse(d) \/ ApplicationIndeterminate(d) \/ ControlTimeout(d)

Next ==
    \/ \E r \in Requests : Attempt(r) \/ ClientLeaves(r)
    \/ \E r \in Requests, d \in Deliveries : Submit(r, d) \/ Retry(r, d)
    \/ \E c \in Connections : Serve(c) \/ Hangup(c) \/ Connect(c)
    \/ \E d \in Deliveries : HostTakes(d) \/ ClaimExpires(d) \/ AppendAges(d)
    \/ settle_delivery \/ AttachTimeout \/ publish_snapshot \/ TakeQueued \/ Reconnect \/ SessionOver
    \/ Restart

Spec == Init /\ [][Next /\ UNCHANGED env]_<<vars, env>>

\* The daemon's tasks and the host's run; a hangup is noticed at both ends.
\* Clients owe nothing: they need not submit, retry or stay.
FairSpec ==
    /\ Spec
    /\ \A r \in Requests : WF_vars(Attempt(r))
    /\ \A c \in Connections :
        WF_vars(Serve(c)) /\ WF_vars(Hangup(c) /\ UNCHANGED faults)
    /\ \A d \in Deliveries : WF_vars(HostTakes(d))
    /\ WF_vars(\E c \in Connections : Connect(c))
    /\ WF_vars(settle_delivery) /\ WF_vars(publish_snapshot) /\ WF_vars(TakeQueued)
    /\ WF_vars(Reconnect /\ UNCHANGED faults)
-----------------------------------------------------------------------------
(***************************************************************************)
(* Properties.                                                             *)
(***************************************************************************)
\* Across retries, expired claims, hangups, restarts and reconnects the
\* session takes a command at most once ("never recycles that claim into an
\* unsafe duplicate side effect").
AppliedAtMostOnce ==
    \A i, j \in 1..Len(host.effects) : i # j => host.effects[i] # host.effects[j]

\* The row and the answers tell the truth.  It is delivered only after the
\* session took the command, whichever of the acknowledgement and the
\* reconciliation wrote it; input it calls failed was not and will not be
\* written to the session; a client is told "applied" only when the row says so;
\* and a claim is let go for another attempt only if nothing was dispatched
\* under it.
AnswersAreTrue ==
    /\ \A d \in Deliveries :
        /\ row[d].state = "delivered" => d \in Range(host.effects)
        /\ d \in Input /\ row[d].state = "failed" => d \notin Range(host.effects \o host.queue)
        /\ Pending(d) /\ row[d].claim = Free => d \notin seen.dispatched
    /\ \A d \in seen.told : row[d].state = "delivered"

\* A settled row changes only when evidence of application arrives for an
\* indeterminate one, however settlements, sweeps and late attempts race.
SettledIsFinal ==
    [][\A d \in Deliveries :
        row[d].state \in {"delivered", "failed", "indeterminate"} /\ row'[d].state # row[d].state
          => row[d].state = "indeterminate" /\ row'[d].state = "delivered"]_vars

\* What the session confirmed is in the host's window or durable in the row:
\* no lost frame, full window or restart loses the evidence.
EvidenceKept ==
    host.pc # "over" =>
        \A d \in host.confirmed : d \in host.delivered \/ row[d].state = "delivered"

\* Commands of one lifetime take effect in log order, unless the earlier one
\* had been passed over as abandoned.
AppliedInOrder ==
    \A i, j \in 1..Len(host.effects) :
        LET e == host.effects[i]   d == host.effects[j] IN
        i < j /\ d < e /\ row[d].gen = row[e].gen => d \in seen.passed

\* Evidence the host holds reaches the row: it reconnects and reasserts until
\* the kernel has settled it.
EvidenceIsRecorded(d) ==
    ~StorageMayFail /\ d \in host.delivered => row[d].state = "delivered" \/ host.pc = "over"

EvidenceReachesRow == \A d \in Deliveries : []<>EvidenceIsRecorded(d)

\* A pending delivery of a connection that is gone and that no attempt waits for.
Stranded(d) ==
    \E e \in PendingOf(d) : /\ kconn[e.owner] = "closed"
                            /\ \A r \in Requests : ~ (req[r].d = d /\ req[r].pc \in {"wait", "abandon"})

\* A dispatched command's row settles: acknowledged, refused or indeterminate,
\* also when its client has hung up (abandon_pty_deliveries, the timeout of
\* deliver_submission).  Two cases are left out.  A delivery dispatched between
\* the two sections of a hangup is stranded there; when its client is gone too,
\* its row stays pending until the daemon restarts.  And when the client is gone
\* and the statement that abandons the delivery fails, the row stays pending
\* until someone retries.
DispatchIsSettled(d) ==
    d \in seen.dispatched /\ ~ (ClientsMayLeave /\ StorageMayFail)
        => ~Pending(d) \/ (ClientsMayLeave /\ Stranded(d))

DispatchSettles == \A d \in Deliveries : []<>DispatchIsSettled(d)

\* A settled row's replays are answered from the row: no pending delivery of
\* a connection that is gone, and that no attempt waits for, is in their way.
SettledReplaysAnswered ==
    \A e \in pending :
        ~Pending(e.d) => \/ kconn[e.owner] # "closed"
                         \/ \E r \in Requests : req[r].d = e.d /\ req[r].pc \in {"wait", "abandon"}
=============================================================================
