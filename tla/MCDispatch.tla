----------------------------- MODULE MCDispatch -----------------------------
(***************************************************************************)
(* Small instances of what carries a committed PTY command to its end: the *)
(* delivery of input and control commands under fair scheduling, and the   *)
(* start of sessions in the host.  A behaviour runs the machine "which"    *)
(* names and leaves the other where it began.                              *)
(***************************************************************************)
EXTENDS PtyDelivery, TLC

VARIABLES
    which,
    (* HostStarts *)
    startRow, managers, link, wire, acks, manager, applied, kid, entry, lock, pub, serves, main,
    mishaps, setting, watched

\* One request: a sound database and clients that leave, and the reverse.
Progress ==
    {[submitted |-> {1}, input |-> {1}, connections |-> 2, claims |-> 1, faults |-> 1,
      lease |-> sound, storage |-> sound, leave |-> ~sound] : sound \in BOOLEAN}

-----------------------------------------------------------------------------
Setting(id, declared, starts, n) ==
    [id |-> id, declared |-> declared, starts |-> starts, faults |-> n]
Of(k, engine, ok) == [kid |-> k, engine |-> engine, ok |-> ok]
Apart == 1 :> "a" @@ 2 :> "b" @@ 8 :> "c" @@ 9 :> "d"
Shared == 1 :> "a" @@ 2 :> "a" @@ 8 :> "c" @@ 9 :> "c"
Taken == 1 :> "a" @@ 2 :> "b" @@ 8 :> "a" @@ 9 :> "c"

\* One start and two faults; two starts of one session or of two over a full
\* window and registry; a start of the declared session's id; declarations
\* that are malformed, doubled, or name no engine.
Settings ==
    {Setting(Apart, <<>>, {1}, 2),
     Setting(Shared, <<>>, {1, 2}, 1),
     Setting(Apart, <<Of(8, "claude", TRUE)>>, {1, 2}, 1),
     Setting(Taken, <<Of(8, "codex", TRUE)>>, {1}, 1),
     Setting(Apart, <<Of(8, "codex", TRUE), Of(9, "claude", TRUE)>>, {}, 1),
     Setting(Apart, <<Of(8, "codex", TRUE), Of(9, "nano", TRUE)>>, {}, 0),
     Setting(Apart, <<Of(8, "codex", FALSE)>>, {}, 0),
     Setting(Shared, <<Of(8, "codex", TRUE), Of(9, "claude", TRUE)>>, {}, 0)}

Host == INSTANCE HostStarts WITH
    row <- startRow, kconn <- link, down <- wire, host <- manager, faults <- mishaps,
    env <- setting, seen <- watched,
    Starts <- {1, 2}, Declared <- {8, 9}, Environments <- Settings, CONNECTIONS <- 2,
    APPLIED_STARTS <- 1, SESSION_MAX <- 2

startVars == <<startRow, managers, link, wire, acks, manager, applied, kid, entry, lock, pub, serves,
               main, mishaps, watched>>

-----------------------------------------------------------------------------
MCInit ==
    /\ which \in {"delivery", "starts"}
    /\ Init /\ (which = "starts" => env.leave)
    /\ Host!Init /\ (which = "delivery" => setting = Setting(Apart, <<>>, {1}, 2))

MCNext ==
    \/ which = "delivery" /\ Next /\ UNCHANGED <<which, env, setting, startVars>>
    \/ which = "starts" /\ Host!Next /\ UNCHANGED <<which, env, vars>>

\* The fairness each machine states, while that machine runs.
MCFairness ==
    /\ \A r \in Requests : WF_vars(which = "delivery" /\ Attempt(r))
    /\ \A c \in Connections :
        /\ WF_vars(which = "delivery" /\ Serve(c))
        /\ WF_vars(which = "delivery" /\ Hangup(c) /\ UNCHANGED faults)
    /\ \A d \in Deliveries : WF_vars(which = "delivery" /\ HostTakes(d))
    /\ WF_vars(which = "delivery" /\ \E c \in Connections : Connect(c))
    /\ WF_vars(which = "delivery" /\ settle_delivery)
    /\ WF_vars(which = "delivery" /\ publish_snapshot)
    /\ WF_vars(which = "delivery" /\ TakeQueued)
    /\ WF_vars(which = "delivery" /\ Reconnect /\ UNCHANGED faults)
    /\ WF_startVars(which = "starts" /\ main # "exited" /\ Host!StartTask)
    /\ WF_startVars(which = "starts" /\ main # "exited" /\ \E c \in Host!Conns : Host!TakeAck(c))
    /\ WF_startVars(which = "starts" /\ main # "exited"
                      /\ \E c \in Host!Conns : Host!Hangup(c) /\ manager.conn # c)
    /\ \A k \in {1, 2, 8, 9} : WF_startVars(which = "starts" /\ main # "exited" /\ Host!TaskRuns(k))
    /\ WF_startVars(which = "starts" /\ Host!StopSessions)
    /\ WF_startVars(which = "starts" /\ Host!Drained)

MCSpec ==
    /\ MCInit
    /\ [][MCNext]_<<which, env, setting, vars, startVars>>
    /\ MCFairness

-----------------------------------------------------------------------------
\* HostStarts: a start's row tells the truth about its child, and shutdown
\* leaves no child behind.
StartsAccounted == Host!StartsTruthful /\ Host!StopLeavesNoChild

\* A committed command is carried to its end.  Evidence of application that the
\* host holds reaches the delivery's row, unless storage fails for good; a
\* dispatched command's row settles although its client may hang up, except where
\* the delivery was dispatched into a connection between the two sections of its
\* hangup and nobody waits for it: that row is pending until the daemon restarts
\* (docs/protocol.md:80 makes no such exception).  And a started session that
\* keeps running is on record as delivered.
CommandsConclude ==
    []<>CASE which = "delivery" ->
               \A d \in Deliveries : EvidenceIsRecorded(d) /\ DispatchIsSettled(d)
          [] which = "starts" -> \A d \in {1, 2} : Host!RunIsRecorded(d)
=============================================================================
