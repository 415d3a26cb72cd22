----------------------------- MODULE HostStarts -----------------------------
(***************************************************************************)
(* Starting declared PTY sessions: the kernel's delivery of a committed    *)
(* start to the newest start manager (gwk-kernel wire/pty.rs, serve.rs),   *)
(* and the host that looks the template up, spawns the child in a thread   *)
(* of its own, publishes it, acknowledges, and one day shuts down          *)
(* (gwk-pty-host control.rs, registry.rs, publish.rs, main.rs).            *)
(*                                                                         *)
(* The delivery row's own interleavings are PtyDelivery's; here a row      *)
(* moves in one step.  The host's tasks (start manager, session threads,   *)
(* publishers, reaper, main) interleave at every await and share the       *)
(* registry's lock.  A child is named after the start it belongs to.       *)
(***************************************************************************)
EXTENDS Naturals, Sequences, FiniteSets, SequencesExt

CONSTANTS
    Starts,              \* committed start commands, positive numbers
    Declared,            \* sessions the environment may declare, other numbers
    Environments,        \* session ids, declarations, starts and faults, one per behaviour
    CONNECTIONS,         \* bound: connections open at one time
    APPLIED_STARTS,      \* the deduplication window
    SESSION_MAX          \* PTY_SESSION_MAX_COUNT

Kids == Starts \cup Declared
Ids == {e.id[k] : e \in Environments, k \in Kids}
Conns == 1..CONNECTIONS
None == 0
ENGINES == {"claude", "codex", "opencode"}

VARIABLES
    row,       \* the delivery row of each start and the connection it waits on
    managers,  \* ControlRegistry.start_managers
    kconn,     \* the kernel's end of each connection
    down, acks,\* frames to the host and back
    host,      \* the start manager's task
    applied,   \* AppliedStarts
    kid,       \* each session's thread
    entry,     \* SessionRegistry.sessions
    lock,      \* who holds the registry
    pub,       \* each publisher task, named after the session it was started for
    serves,    \* the session each publisher's attacher is of
    main,      \* the process
    faults,
    env,       \* the environment of the behaviour, never changed
    seen       \* history: threads started, seeds the kernel took, deadlines that expired,
               \* starts that main left to themselves

vars == <<row, managers, kconn, down, acks, host, applied, kid, entry, lock, pub, serves, main, faults, seen>>
kernel == <<row, managers, kconn>>
wires == <<down, acks>>

IdOf == env.id              \* the session id each start and declaration names
MAX_FAULTS == env.faults    \* bound: broken connections, expired deadlines, failures

Top == [pc |-> "top", conn |-> None, d |-> None, result |-> "none"]

Init ==
    /\ env \in Environments
    /\ row = [d \in Starts |-> [state |-> "absent", conn |-> None]]
    /\ managers = <<>>
    /\ kconn = [c \in Conns |-> "closed"]
    /\ down = [c \in Conns |-> <<>>] /\ acks = [c \in Conns |-> <<>>]
    /\ host = Top
    /\ applied = {}
    /\ kid = [k \in Kids |-> "none"]
    /\ entry = [i \in Ids |-> None]
    /\ lock = "free"
    /\ pub = [k \in Kids |-> "none"] /\ serves = [k \in Kids |-> k]
    /\ main = "starting"
    /\ faults = 0
    /\ seen = [spawned |-> [k \in Kids |-> 0], seeded |-> {}, late |-> FALSE,
               unstopped |-> {}]

Fault == faults < MAX_FAULTS /\ faults' = faults + 1
Late == seen' = [seen EXCEPT !.late = TRUE]
Stopped == main \in {"stopping", "draining"}          \* *stop.borrow()
Spawned == main \notin {"starting", "declaring"}     \* the start manager and the reaper run

\* commands.is_closed() is FALSE: an entry, a publisher or a cleanup holds a sender.
Held(k) ==
    \/ entry[IdOf[k]] = k
    \/ \E j \in Kids : serves[j] = k /\ pub[j] \in {"top", "trying", "retry", "seeded"}
    \/ host.d = k /\ host.pc \in {"spawning", "attached", "publishing", "cleanup"}
-----------------------------------------------------------------------------
(***************************************************************************)
(* The kernel.                                                             *)
(***************************************************************************)
\* send_pty_start, deliver_start: the newest manager's queue takes the control.
deliver_start(d) ==
    /\ d \in env.starts /\ row[d].state \in {"absent", "pending"} /\ managers # <<>>
    /\ LET c == Last(managers) IN
        /\ kconn[c] = "open"
        /\ row' = [row EXCEPT ![d] = [state |-> "sent", conn |-> c]]
        /\ down' = [down EXCEPT ![c] = Append(@, [start |-> TRUE, d |-> d])]
    /\ UNCHANGED <<managers, kconn, acks, host, applied, kid, entry, lock, pub, serves, main, faults, seen>>

\* No manager: the claim is released and the client may submit again.
NoManager(d) ==
    /\ d \in env.starts /\ row[d].state = "absent" /\ managers = <<>>
    /\ row' = [row EXCEPT ![d].state = "pending"]
    /\ UNCHANGED <<managers, kconn, wires, host, applied, kid, entry, lock, pub, serves, main, faults, seen>>

\* Mutant: a start whose manager went away is delivered again.
AbandonedAgain(c) ==
    [d \in Starts |-> IF row[d] = [state |-> "sent", conn |-> c]
                        THEN [state |-> "pending", conn |-> None] ELSE row[d]]

\* What the connection still owed is indeterminate.
AbandonedBy(c) ==
    [d \in Starts |-> IF row[d] = [state |-> "sent", conn |-> c]
                        THEN [state |-> "indeterminate", conn |-> None] ELSE row[d]]

\* disconnect, abandon_pty_deliveries.
Disconnected(c) ==
    /\ kconn' = [kconn EXCEPT ![c] = "closed"]
    /\ down' = [down EXCEPT ![c] = <<>>] /\ acks' = [acks EXCEPT ![c] = <<>>]
    /\ managers' = SelectSeq(managers, LAMBDA m : m # c)
    /\ row' = AbandonedBy(c)

\* The peer hung up or the transport broke.
Hangup(c) ==
    /\ kconn[c] = "open"
    /\ \/ host.conn # c /\ UNCHANGED faults
       \/ host.conn = c /\ Fault
    /\ Disconnected(c)
    /\ UNCHANGED <<host, applied, kid, entry, lock, pub, serves, main, seen>>

\* No acknowledgement within the deadline: the connection is invalidated.
AckTimeout(c) ==
    /\ kconn[c] = "open" /\ \E d \in Starts : row[d].state = "sent" /\ row[d].conn = c
    /\ Fault /\ Disconnected(c)
    /\ UNCHANGED <<host, applied, kid, entry, lock, pub, serves, main, seen>>

\* read_requests: settle what waits on this connection, reconcile evidence,
\* and end a connection whose evidence no row accepts.
TakeAck(c) ==
    /\ kconn[c] = "open" /\ acks[c] # <<>>
    /\ LET a == Head(acks[c])
           mine == row[a.d] = [state |-> "sent", conn |-> c]
           evidence == a.result = "applied" /\ row[a.d].state \in {"indeterminate", "delivered"} IN
        IF mine \/ evidence
          THEN /\ row' = [row EXCEPT ![a.d] =
                    [state |-> IF a.result = "applied" THEN "delivered" ELSE "failed", conn |-> None]]
               /\ down' = [down EXCEPT ![c] = Append(@, [start |-> FALSE, d |-> a.d])]
               /\ acks' = [acks EXCEPT ![c] = Tail(@)]
               /\ UNCHANGED <<managers, kconn>>
          ELSE Disconnected(c)
    /\ UNCHANGED <<host, applied, kid, entry, lock, pub, serves, main, faults, seen>>
-----------------------------------------------------------------------------
(***************************************************************************)
(* serve_starts.                                                           *)
(***************************************************************************)
\* A closed connection's number is used again.
Unused(c) == kconn[c] = "closed" /\ \A b \in Conns : b < c => kconn[b] # "closed"

\* connect_start_manager, then every application not yet settled is reasserted.
Connect(c) ==
    /\ Spawned /\ ~Stopped /\ host.pc = "top" /\ Unused(c)
    /\ kconn' = [kconn EXCEPT ![c] = "open"]
    /\ managers' = Append(managers, c)
    /\ acks' = [acks EXCEPT ![c] =
                   SetToSeq({[d |-> d, result |-> "applied"] : d \in applied})]
    /\ host' = [Top EXCEPT !.pc = "wait", !.conn = c]
    /\ UNCHANGED <<row, down, applied, kid, entry, lock, pub, serves, main, faults, seen>>

\* The loop's own look at the stop flag, and the one in its selects.
ManagerStops ==
    /\ host.pc \in {"top", "wait"} /\ Stopped
    /\ host' = [Top EXCEPT !.pc = "gone"]
    /\ UNCHANGED <<kernel, wires, applied, kid, entry, lock, pub, serves, main, faults, seen>>

ConnectionLost ==
    /\ host.pc = "wait" /\ kconn[host.conn] = "closed"
    /\ host' = Top
    /\ UNCHANGED <<kernel, wires, applied, kid, entry, lock, pub, serves, main, faults, seen>>

\* One control: a settlement, a start applied before, a full window, or a new
\* start, whose template is looked up over a connection of its own.
TakeControl ==
    /\ host.pc = "wait" /\ kconn[host.conn] = "open" /\ down[host.conn] # <<>>
    /\ LET m == Head(down[host.conn]) IN
        \/ /\ ~m.start
           /\ applied' = applied \ {m.d} /\ UNCHANGED host
        \/ /\ m.start /\ m.d \in applied
           /\ host' = [host EXCEPT !.pc = "ack", !.d = m.d, !.result = "applied"]
           /\ UNCHANGED applied
        \/ /\ m.start /\ m.d \notin applied /\ Cardinality(applied) >= APPLIED_STARTS
           /\ host' = [host EXCEPT !.pc = "ack", !.d = m.d, !.result = "refused"]
           /\ UNCHANGED applied
        \/ /\ m.start /\ m.d \notin applied /\ Cardinality(applied) < APPLIED_STARTS
           /\ host' = [host EXCEPT !.pc = "lookup", !.d = m.d]
           /\ UNCHANGED applied
    /\ down' = [down EXCEPT ![host.conn] = Tail(@)]
    /\ UNCHANGED <<kernel, acks, kid, entry, lock, pub, serves, main, faults, seen>>

\* pty_template: active, or retired, absent or unreadable.
Lookup ==
    /\ host.pc = "lookup"
    /\ \/ host' = [host EXCEPT !.pc = "spawn"] /\ UNCHANGED faults
       \/ host' = [host EXCEPT !.pc = "ack", !.result = "refused"] /\ Fault
    /\ UNCHANGED <<kernel, wires, applied, kid, entry, lock, pub, serves, main, seen>>

\* acknowledge_delivery; a connection that is gone is noticed here.
Acknowledge ==
    /\ host.pc = "ack"
    /\ IF kconn[host.conn] = "open"
         THEN /\ acks' = [acks EXCEPT ![host.conn] =
                             Append(@, [d |-> host.d, result |-> host.result])]
              /\ host' = [Top EXCEPT !.pc = "wait", !.conn = host.conn]
         ELSE host' = Top /\ UNCHANGED acks
    /\ UNCHANGED <<kernel, down, applied, kid, entry, lock, pub, serves, main, faults, seen>>
-----------------------------------------------------------------------------
(***************************************************************************)
(* SessionRegistry.                                                        *)
(***************************************************************************)
\* reap: entries whose threads have ended.
reap(e) == [i \in Ids |-> IF e[i] # None /\ kid[e[i]] = "ended" THEN None ELSE e[i]]
ids(e) == {i \in Ids : e[i] # None}

\* spawn, up to the wait for the thread: the lock is held until it answers.
Spawn ==
    /\ host.pc = "spawn" /\ lock = "free"
    /\ entry' = reap(entry)
    /\ IF entry'[IdOf[host.d]] # None \/ Cardinality(ids(entry')) >= SESSION_MAX
         THEN /\ host' = [host EXCEPT !.pc = "ack", !.result = "refused"]
              /\ UNCHANGED <<kid, lock, seen>>
         ELSE /\ host' = [host EXCEPT !.pc = "spawning"]
              /\ kid' = [kid EXCEPT ![host.d] = "spawning"]
              /\ lock' = "start"
              /\ seen' = [seen EXCEPT !.spawned[host.d] = @ + 1]
    /\ UNCHANGED <<kernel, wires, applied, pub, serves, main, faults>>

\* The thread's first spawn, spawn_fn's environment references included: the
\* caller still listening inserts the entry, or reports the failure.
ThreadReady(k) ==
    /\ kid[k] = "spawning"
    /\ kid' = [kid EXCEPT ![k] = "running"]
    /\ IF host.pc = "spawning" /\ host.d = k
         THEN /\ entry' = [entry EXCEPT ![IdOf[k]] = k]
              /\ host' = [host EXCEPT !.pc = "attach"]
              /\ lock' = "free"
         ELSE UNCHANGED <<entry, host, lock>>
    /\ UNCHANGED <<kernel, wires, applied, pub, serves, main, faults, seen>>

ThreadFails(k) ==
    /\ kid[k] = "spawning" /\ Fault
    /\ kid' = [kid EXCEPT ![k] = "ended"]
    /\ IF host.pc = "spawning" /\ host.d = k
         THEN host' = [host EXCEPT !.pc = "ack", !.result = "refused"] /\ lock' = "free"
         ELSE UNCHANGED <<host, lock>>
    /\ UNCHANGED <<kernel, wires, applied, entry, pub, serves, main, seen>>

\* The thread does not answer in time: refused, its sender dropped.
SpawnTimeout ==
    /\ host.pc = "spawning" /\ Fault /\ Late
    /\ host' = [host EXCEPT !.pc = "ack", !.result = "refused"]
    /\ lock' = "free"
    /\ UNCHANGED <<kernel, wires, applied, kid, entry, pub, serves, main>>

\* The thread's loop: its child exits, it takes a stop that waited in its
\* queue, or nothing can command it any more.
ChildEnds(k) ==
    /\ kid[k] \in {"running", "stopping"}
    /\ \/ kid[k] = "running" /\ Fault
       \/ (kid[k] = "stopping" \/ ~Held(k)) /\ UNCHANGED faults
    /\ kid' = [kid EXCEPT ![k] = "ended"]
    /\ UNCHANGED <<kernel, wires, host, applied, entry, lock, pub, serves, main, seen>>

\* serve_reaper.
Reap ==
    /\ lock = "free" /\ Spawned /\ ~Stopped /\ reap(entry) # entry
    /\ entry' = reap(entry)
    /\ UNCHANGED <<kernel, wires, host, applied, kid, lock, pub, serves, main, faults, seen>>
-----------------------------------------------------------------------------
(***************************************************************************)
(* start_declared and the publisher.                                       *)
(***************************************************************************)
\* The start cannot be confirmed: stop what was started, drop the connection.
Indeterminate == host' = [host EXCEPT !.pc = "cleanup"]

\* attacher: the entry may be gone, main stopped it.
Attach ==
    /\ host.pc = "attach" /\ lock = "free"
    /\ host' = IF entry[IdOf[host.d]] = None THEN Top ELSE [host EXCEPT !.pc = "attached"]
    /\ UNCHANGED <<kernel, wires, applied, kid, entry, lock, pub, serves, main, faults, seen>>

StartPublisher ==
    /\ host.pc = "attached"
    /\ pub' = [pub EXCEPT ![host.d] = "top"]
    /\ host' = [host EXCEPT !.pc = "publishing"]
    /\ UNCHANGED <<kernel, wires, applied, kid, entry, lock, serves, main, faults, seen>>

\* Mutant: the publisher does not look at the flag before its first try.
PublisherBlind(k) ==
    /\ pub[k] \in {"top", "retry"}
    /\ pub' = [pub EXCEPT ![k] = "trying"]
    /\ UNCHANGED <<kernel, wires, host, applied, kid, entry, lock, serves, main, faults, seen>>

\* publish_session_inner's loop: a stopped host publishes nothing.
PublisherTop(k) ==
    /\ pub[k] \in {"top", "retry"}
    /\ pub' = [pub EXCEPT ![k] = IF Stopped THEN "refused" ELSE "trying"]
    /\ UNCHANGED <<kernel, wires, host, applied, kid, entry, lock, serves, main, faults, seen>>

\* Another publisher's connection owns the session at the kernel.
Rival(k) == \E j \in Kids \ {k} : serves[j] = serves[k] /\ pub[j] = "seeded"

\* publish_once: the session is over, the kernel took the seed, refused it
\* for good, could not be reached, or has another owner for now.
PublisherTries(k) ==
    /\ pub[k] = "trying"
    /\ \/ kid[serves[k]] = "ended" /\ pub' = [pub EXCEPT ![k] = "over"] /\ UNCHANGED <<faults, seen>>
       \/ Rival(k) /\ pub' = [pub EXCEPT ![k] = "retry"] /\ UNCHANGED <<faults, seen>>
       \/ /\ kid[serves[k]] # "ended" /\ ~Rival(k)
          /\ pub' = [pub EXCEPT ![k] = "seeded"]
          /\ seen' = [seen EXCEPT !.seeded = @ \cup {k}] /\ UNCHANGED faults
       \/ pub' = [pub EXCEPT ![k] = "refused"] /\ Fault /\ UNCHANGED seen
       \/ pub' = [pub EXCEPT ![k] = "retry"] /\ Fault /\ UNCHANGED seen
    /\ UNCHANGED <<kernel, wires, host, applied, kid, entry, lock, serves, main>>

\* publish_once's loop: the session closed, the host stopped, or the kernel
\* went away.
PublisherEnds(k) ==
    /\ pub[k] = "seeded"
    /\ \/ (kid[serves[k]] = "ended" \/ Stopped) /\ pub' = [pub EXCEPT ![k] = "over"] /\ UNCHANGED faults
       \/ pub' = [pub EXCEPT ![k] = "retry"] /\ Fault
    /\ UNCHANGED <<kernel, wires, host, applied, kid, entry, lock, serves, main, seen>>

\* ready was sent or dropped, or the deadline passed.
Readiness ==
    LET k == host.d IN
    /\ host.pc = "publishing"
    /\ \/ /\ k \in seen.seeded
          /\ applied' = applied \cup {k}
          /\ host' = [host EXCEPT !.pc = "ack", !.result = "applied"]
          /\ UNCHANGED <<pub, faults, seen>>
       \/ /\ k \notin seen.seeded /\ pub[k] \in {"refused", "over"}
          /\ Indeterminate /\ UNCHANGED <<applied, pub, faults, seen>>
       \/ /\ k \notin seen.seeded /\ pub[k] \in {"top", "trying", "retry"}
          /\ Fault \/ (Rival(k) /\ UNCHANGED faults)
          /\ pub' = [pub EXCEPT ![k] = "aborted"]
          /\ Indeterminate /\ UNCHANGED <<applied, seen>>
    /\ UNCHANGED <<kernel, wires, kid, entry, lock, serves, main>>

\* cleanup.stop: the thread kills and waits for its child; then the break.
Cleanup ==
    /\ host.pc = "cleanup"
    /\ \/ kid' = [kid EXCEPT ![host.d] = "ended"] /\ UNCHANGED <<faults, seen>>
       \/ kid[host.d] = "running" /\ Fault /\ Late /\ kid' = [kid EXCEPT ![host.d] = "stopping"]
    /\ host' = Top
    /\ UNCHANGED <<kernel, wires, applied, entry, lock, pub, serves, main>>
-----------------------------------------------------------------------------
(***************************************************************************)
(* main.                                                                   *)
(***************************************************************************)
\* parse_sessions: every entry well formed and publishable, no name twice.
parse_sessions(declared) ==
    /\ \A n \in DOMAIN declared : declared[n].ok
    /\ \A n, o \in DOMAIN declared : n # o => IdOf[declared[n].kid] # IdOf[declared[o].kid]

Undeclared == {n \in DOMAIN env.declared : kid[env.declared[n].kid] = "none"}

\* The declarations are read, and refused, before anything starts.
Declare ==
    /\ main = "starting"
    /\ main' = IF parse_sessions(env.declared) THEN "declaring" ELSE "exited"
    /\ UNCHANGED <<kernel, wires, host, applied, kid, entry, lock, pub, serves, faults, seen>>

\* start_session, one declaration after the other, before any task runs: one
\* that no adapter claims or that does not spawn, or not in time, stops the
\* others.  The registry reaps what has ended before each spawn.
start_session ==
    /\ main = "declaring" /\ Undeclared # {}
    /\ LET d == env.declared[Min(Undeclared)]
           takes == d.engine \in ENGINES /\ Cardinality(ids(reap(entry))) < SESSION_MAX IN
        \/ /\ takes
           /\ kid' = [kid EXCEPT ![d.kid] = "running"]
           /\ entry' = [reap(entry) EXCEPT ![IdOf[d.kid]] = d.kid]
           /\ seen' = [seen EXCEPT !.spawned[d.kid] = 1]
           /\ UNCHANGED <<main, faults>>
        \/ /\ \/ ~takes /\ UNCHANGED <<faults, seen>>
              \/ takes /\ Fault /\ (Late \/ UNCHANGED seen)
           /\ kid' = [k \in Kids |-> IF kid[k] = "none" THEN "none" ELSE "ended"]
           /\ entry' = [i \in Ids |-> None]
           /\ main' = "exited"
    /\ UNCHANGED <<kernel, wires, host, applied, lock, pub, serves>>

Unpublished == {n \in DOMAIN env.declared : pub[env.declared[n].kid] = "none"}

\* The start manager and the reaper are spawned.
SpawnTasks ==
    /\ main = "declaring" /\ Undeclared = {}
    /\ main' = "attaching"
    /\ UNCHANGED <<kernel, wires, host, applied, kid, entry, lock, pub, serves, faults, seen>>

\* A publisher for each declared session, one after the other, beside them:
\* the session may have been reaped, or started again, in the meantime.
TakeAttacher ==
    /\ main = "attaching" /\ Unpublished # {} /\ lock = "free"
    /\ LET k == env.declared[Min(Unpublished)].kid
           found == entry[IdOf[k]] IN
        \/ /\ found # None
           /\ pub' = [pub EXCEPT ![k] = "top"]
           /\ serves' = [serves EXCEPT ![k] = found]
           /\ UNCHANGED main
        \/ /\ found = None
           /\ main' = "failing"
           /\ UNCHANGED <<pub, serves>>
    /\ UNCHANGED <<kernel, wires, host, applied, kid, entry, lock, faults, seen>>

\* A started session vanished: the sessions are stopped, and main returns with
\* neither flag nor drain.  The tasks run until the process is gone.
FailSessions ==
    /\ main = "failing" /\ lock = "free"
    /\ kid' = [k \in Kids |-> IF entry[IdOf[k]] = k THEN "ended" ELSE kid[k]]
    /\ entry' = [i \in Ids |-> None]
    /\ seen' = [seen EXCEPT !.unstopped = {k \in Kids : kid[k] = "none"}]
    /\ main' = "leaving"
    /\ UNCHANGED <<kernel, wires, host, applied, lock, pub, serves, faults>>

Leave ==
    /\ main = "leaving"
    /\ main' = "exited"
    /\ UNCHANGED <<kernel, wires, host, applied, kid, entry, lock, pub, serves, faults, seen>>

\* Readiness is signalled.
Serve ==
    /\ main = "attaching" /\ Unpublished = {}
    /\ main' = "serving"
    /\ UNCHANGED <<kernel, wires, host, applied, kid, entry, lock, pub, serves, faults, seen>>

\* wait_for_stop returned: the flag first, the sessions after it.
Stop ==
    /\ main = "serving"
    /\ main' = "stopping"
    /\ UNCHANGED <<kernel, wires, host, applied, kid, entry, lock, pub, serves, faults, seen>>

\* stop_sessions: one hold of the lock, every entry removed and its thread
\* joined; a child that will not reap, or the deadline, leaves some running.
StopSessions ==
    /\ main = "stopping" /\ lock = "free"
    /\ kid' = [k \in Kids |-> IF entry[IdOf[k]] = k THEN "ended" ELSE kid[k]]
    /\ entry' = [i \in Ids |-> None]
    /\ main' = "draining"
    /\ UNCHANGED <<kernel, wires, host, applied, lock, pub, serves, faults, seen>>

StopSessionsTimeout ==
    /\ main = "stopping" /\ Fault /\ Late
    /\ main' = "draining"
    /\ UNCHANGED <<kernel, wires, host, applied, kid, entry, lock, pub, serves>>

\* The start manager, then the publishers, each within PUBLISHER_DRAIN.
Working(k) == pub[k] \in {"top", "trying", "retry", "seeded"}

Drained ==
    /\ main = "draining" /\ host.pc = "gone" /\ \A k \in Kids : ~Working(k)
    /\ main' = "exited"
    /\ UNCHANGED <<kernel, wires, host, applied, kid, entry, lock, pub, serves, faults, seen>>

DrainTimeout ==
    /\ main = "draining" /\ Fault /\ Late
    /\ main' = "exited"
    /\ UNCHANGED <<kernel, wires, host, applied, kid, entry, lock, pub, serves>>
-----------------------------------------------------------------------------
StartTask ==
    \/ \E c \in Conns : Connect(c)
    \/ ManagerStops \/ ConnectionLost \/ TakeControl \/ Lookup \/ Spawn \/ Acknowledge
    \/ SpawnTimeout \/ Attach \/ StartPublisher \/ Readiness \/ Cleanup

KernelStep ==
    \/ \E d \in Starts : deliver_start(d) \/ NoManager(d)
    \/ \E c \in Conns : Hangup(c) \/ AckTimeout(c) \/ TakeAck(c)

Tasks ==
    \E k \in Kids : ThreadReady(k) \/ ThreadFails(k) \/ ChildEnds(k) \/ PublisherTop(k)
                    \/ PublisherTries(k) \/ PublisherEnds(k)

Main ==
    \/ Declare \/ start_session \/ SpawnTasks \/ TakeAttacher \/ FailSessions \/ Leave \/ Serve
    \/ Stop \/ StopSessions \/ StopSessionsTimeout \/ Drained \/ DrainTimeout

Next == main # "exited" /\ (StartTask \/ KernelStep \/ Tasks \/ Reap \/ Main) /\ UNCHANGED env

\* A session's thread and its publisher, with nothing failing.
TaskRuns(k) ==
    ThreadReady(k) \/ (ChildEnds(k) /\ UNCHANGED faults) \/ PublisherTop(k) \/ PublisherTries(k) \/ PublisherEnds(k)

\* Tasks that can step do; nobody has to submit a start or stop the host.
Fairness ==
    /\ WF_vars(main # "exited" /\ StartTask)
    /\ WF_vars(main # "exited" /\ \E c \in Conns : TakeAck(c))
    /\ WF_vars(main # "exited" /\ \E c \in Conns : Hangup(c) /\ host.conn # c)
    /\ \A k \in Kids : WF_vars(main # "exited" /\ TaskRuns(k))
    /\ WF_vars(StopSessions) /\ WF_vars(Drained)

Spec == Init /\ [][Next]_<<vars, env>> /\ Fairness
-----------------------------------------------------------------------------
TypeOK ==
    /\ row \in [Starts -> [state : {"absent", "pending", "sent", "delivered", "failed", "indeterminate"},
                           conn : Conns \cup {None}]]
    /\ applied \subseteq Starts
    /\ kid \in [Kids -> {"none", "spawning", "running", "stopping", "ended"}]
    /\ lock \in {"free", "start"}

\* A start's row tells the truth about its child: whatever connections break
\* and deadlines pass, a start runs at most one child, a delivered one was
\* published to the kernel, and a refused one is not in the host's registry
\* (deliver_start, serve_starts, start_declared).
StartsTruthful ==
    \A d \in Starts :
        /\ seen.spawned[d] <= 1
        /\ row[d].state = "delivered" => d \in seen.seeded
        /\ row[d].state = "failed" => entry[IdOf[d]] # d

\* Shutdown leaves no child behind: if no deadline passed, every session the
\* host ever started, also one being started while it stopped, has ended when
\* the process exits (main.rs's order, publish_session_inner's look at the flag).
\* One exit gives less: when a declared session has vanished before its attacher
\* was taken (main.rs:127-134), main returns without the flag and the drain, and
\* a start that first reaches the registry after stop_sessions may survive it.
StopLeavesNoChild ==
    main = "exited" /\ ~seen.late
        => \A k \in Kids \ seen.unstopped : kid[k] \in {"none", "ended"}

\* A started session that keeps running is on record: its start is settled
\* as delivered, over later connections if need be, or the child is stopped.
RunIsRecorded(d) ==
    kid[d] = "running" => row[d].state = "delivered" \/ main = "exited"

RunningStartsRecorded == \A d \in Starts : []<>RunIsRecorded(d)
=============================================================================
