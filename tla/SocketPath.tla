----------------------------- MODULE SocketPath -----------------------------
(***************************************************************************)
(* The daemon's socket file from start to stop: a daemon takes the writer  *)
(* lock, checks the store, clears a socket left behind, binds, records     *)
(* which file it made, serves, drains and removes that file.  Every look   *)
(* at the path and every change of it is a step of its own, so two daemons *)
(* over one path interleave between them.                                  *)
(*                                                                         *)
(* Daemons crash, are told to stop, lose the lock's database session and   *)
(* are started again by a service manager.                                 *)
(***************************************************************************)
EXTENDS Naturals, FiniteSets

CONSTANTS
    Daemons,      \* processes started over one database and one socket path
    MAX_FILES,    \* bound: socket files made
    MAX_LOSSES,   \* bound: lock sessions lost
    MAX_FAILS     \* bound: crashes, failed starts and failed accepts

\* What the constants are: no daemon is called what stands for none.
SocketAssumption ==
    "nobody" \notin Daemons /\ MAX_FILES \in Nat /\ MAX_LOSSES \in Nat /\ MAX_FAILS \in Nat

VARIABLES
    parent,       \* the runtime directory, chosen once: "private" or "open"
    path,         \* the file at the path: NOTHING, FOREIGN, STALE or the number of a socket
    lock,         \* the daemon holding the writer lock, NOBODY for none
    daemon,       \* [at, seen, file]: its step, the file it last looked at, the file it holds for its own
    listening,    \* the socket files some process listens on
    made, losses, fails,
    strayed       \* a daemon lost its lock while it was still starting

vars == <<parent, path, lock, daemon, listening, made, losses, fails, strayed>>

NOTHING == 0
STALE == 1      \* a socket of ours that outlived its process
FOREIGN == 2    \* a file that is not our socket
NOBODY == "nobody"

Down == [at |-> "down", seen |-> NOTHING, file |-> NOTHING]

Starting == {"locked", "parent", "stat", "probe", "restat", "unlink", "bind", "listen", "record", "run"}

Init ==
    /\ parent \in {"private", "open"}
    /\ path \in {NOTHING, STALE, FOREIGN}
    /\ lock = NOBODY
    /\ daemon = [d \in Daemons |-> Down]
    /\ listening = {} /\ made = 2
    /\ losses = 0 /\ fails = 0 /\ strayed = FALSE

Budget == <<parent, made, losses, fails, strayed>>

\* The process moves on to its next step.
Goes(d, at) == daemon' = [daemon EXCEPT ![d].at = at]

\* The process ends: its descriptor closes and the lock's session with it; the file stays where it is.
Exits(d) ==
    /\ daemon' = [daemon EXCEPT ![d] = Down]
    /\ listening' = listening \ {daemon[d].file}
    /\ lock' = IF lock = d THEN NOBODY ELSE lock

At(d, step) == daemon[d].at = step

-----------------------------------------------------------------------------
(***************************************************************************)
(* The start.                                                              *)
(***************************************************************************)

\* Would start without asking for the lock.
AcquireUnasked(d) ==
    /\ At(d, "down")
    /\ Goes(d, "locked") /\ lock' = d
    /\ UNCHANGED <<path, listening, Budget>>

\* daemon: the lock before everything else; a start that finds it held ends at once.
acquire(d) ==
    /\ At(d, "down") /\ lock = NOBODY
    /\ lock' = d
    /\ Goes(d, "locked")
    /\ UNCHANGED <<path, listening, Budget>>

\* The pool, the credential, the stores and recovery, each of which may refuse the start.
open(d) ==
    /\ At(d, "locked")
    /\ Goes(d, "parent")
    /\ UNCHANGED <<path, lock, listening, Budget>>

\* check_parent: a directory of its own that nobody else can reach.
check_parent(d) ==
    /\ At(d, "parent")
    /\ IF parent = "private" THEN Goes(d, "stat") /\ UNCHANGED <<lock, listening>> ELSE Exits(d)
    /\ UNCHANGED <<path, Budget>>

\* clear_stale, first look: nothing there, a socket of ours, or something to leave alone.
stat(d) ==
    /\ At(d, "stat")
    /\ CASE path = FOREIGN -> Exits(d)
         [] path = NOTHING -> Goes(d, "bind") /\ UNCHANGED <<lock, listening>>
         [] OTHER -> /\ daemon' = [daemon EXCEPT ![d].at = "probe", ![d].seen = path]
                     /\ UNCHANGED <<lock, listening>>
    /\ UNCHANGED <<path, Budget>>

\* The probe: only a refused connection lets the start go on.
probe(d) ==
    /\ At(d, "probe")
    /\ IF path # NOTHING /\ path \notin listening
       THEN Goes(d, "restat") /\ UNCHANGED <<lock, listening>> ELSE Exits(d)
    /\ UNCHANGED <<path, Budget>>

\* The second look requires the file of the first.
restat(d) ==
    /\ At(d, "restat")
    /\ IF path = daemon[d].seen THEN Goes(d, "unlink") /\ UNCHANGED <<lock, listening>> ELSE Exits(d)
    /\ UNCHANGED <<path, Budget>>

\* remove_file goes by name.
unlink(d) ==
    /\ At(d, "unlink")
    /\ path' = NOTHING
    /\ IF path # NOTHING THEN Goes(d, "bind") /\ UNCHANGED <<lock, listening>> ELSE Exits(d)
    /\ UNCHANGED Budget

\* UnixListener::bind makes the file and then listens on it; a path in use is refused.
bind(d) ==
    /\ At(d, "bind")
    /\ IF path = NOTHING
       THEN /\ made < MAX_FILES
            /\ made' = made + 1 /\ path' = made + 1
            /\ daemon' = [daemon EXCEPT ![d].at = "listen", ![d].file = made + 1]
            /\ UNCHANGED <<lock, listening>>
       ELSE Exits(d) /\ UNCHANGED <<path, made>>
    /\ UNCHANGED <<parent, losses, fails, strayed>>

listen(d) ==
    /\ At(d, "listen")
    /\ listening' = listening \cup {daemon[d].file}
    /\ Goes(d, "record")
    /\ UNCHANGED <<path, lock, Budget>>

\* Mode and identity are read back from the path, whatever is there by now.
record(d) ==
    /\ At(d, "record")
    /\ IF path = NOTHING THEN Exits(d)
       ELSE daemon' = [daemon EXCEPT ![d].at = "run", ![d].seen = path] /\ UNCHANGED <<lock, listening>>
    /\ UNCHANGED <<path, Budget>>

-----------------------------------------------------------------------------
(***************************************************************************)
(* Serving and stopping.                                                   *)
(***************************************************************************)

\* run: the deliveries of an earlier daemon are quarantined, then connections are accepted.
run(d) ==
    /\ At(d, "run")
    /\ Goes(d, "serving")
    /\ UNCHANGED <<path, lock, listening, Budget>>

\* The lock is gone: acceptance stops and the connections are drained.
cancelled(d) ==
    /\ At(d, "serving") /\ lock # d
    /\ Goes(d, "draining")
    /\ UNCHANGED <<path, lock, listening, Budget>>

\* SIGTERM or ctrl-c.
terminated(d) ==
    /\ At(d, "serving") /\ fails < MAX_FAILS
    /\ fails' = fails + 1
    /\ Goes(d, "draining")
    /\ UNCHANGED <<path, lock, listening, parent, made, losses, strayed>>

\* The drain ends by itself or at its timeout; the parting checkpoint does not stand in the way.
drain(d) ==
    /\ At(d, "draining")
    /\ Goes(d, "removing")
    /\ UNCHANGED <<path, lock, listening, Budget>>

\* remove looks at the path, and unlinks by name when it saw its own file; the process ends.
remove(d) ==
    /\ At(d, "removing")
    /\ IF path = daemon[d].seen /\ path # NOTHING
       THEN Goes(d, "removed") /\ UNCHANGED <<lock, listening>> ELSE Exits(d)
    /\ UNCHANGED <<path, Budget>>

remove_file(d) ==
    /\ At(d, "removed")
    /\ path' = NOTHING
    /\ Exits(d)
    /\ UNCHANGED Budget

\* A crash, a start refused by the store, a failed quarantine, a failed accept: the file is left where it is.
Fails(d) ==
    /\ daemon[d].at \in Starting \cup {"serving", "draining", "removing"} /\ fails < MAX_FAILS
    /\ fails' = fails + 1
    /\ Exits(d)
    /\ UNCHANGED <<path, parent, made, losses, strayed>>

\* The lock's database session drops; a daemon that is still starting does not watch for it.
LoseLock ==
    /\ lock # NOBODY /\ losses < MAX_LOSSES
    /\ losses' = losses + 1
    /\ lock' = NOBODY
    /\ strayed' = (strayed \/ daemon[lock].at \in Starting)
    /\ UNCHANGED <<path, daemon, listening, parent, made, fails>>

Step(d) ==
    \/ acquire(d) \/ open(d) \/ check_parent(d) \/ stat(d) \/ probe(d) \/ restat(d) \/ unlink(d) \/ bind(d)
    \/ listen(d) \/ record(d) \/ run(d) \/ cancelled(d) \/ drain(d) \/ remove(d) \/ remove_file(d)

Next ==
    \/ \E d \in Daemons : Step(d) \/ terminated(d) \/ Fails(d)
    \/ LoseLock

\* Every process keeps running, and the service manager starts one again that ended.
Spec == Init /\ [][Next]_vars /\ \A d \in Daemons : WF_vars(Step(d))

-----------------------------------------------------------------------------
(***************************************************************************)
(* Properties.                                                             *)
(***************************************************************************)

(***************************************************************************)
(* A daemon that serves under the writer lock is the one clients reach: no *)
(* start, stop or stale descriptor of another daemon takes the path from   *)
(* it.  The exception is a daemon that lost its lock while starting: the   *)
(* unlink behind the second look goes by name.                             *)
(***************************************************************************)
ServingReachable ==
    \A d \in Daemons : At(d, "serving") /\ lock = d /\ ~strayed => path = daemon[d].file /\ path \in listening

\* A daemon serves from the path, or could not: the path or its directory was
\* never the daemon's, or a start went on without its lock.
Served ==
    \/ parent # "private" \/ path = FOREIGN \/ strayed
    \/ \E d \in Daemons : At(d, "serving") /\ path \in listening

(***************************************************************************)
(* Nothing a crash or a stop leaves behind at the path keeps the service   *)
(* down: once failures stop, a daemon is served from again.                *)
(***************************************************************************)
ServiceReturns == []<>Served
=============================================================================
