----------------------------- MODULE Originate ------------------------------
(***************************************************************************)
(* The host turning transcript records into kernel commands (gwk-pty-host  *)
(* ingest.rs, dispatch_node.rs, envelope.rs, origination.rs).  A record    *)
(* carries a body and, when it marks a change of the dispatch tree, a hint.*)
(* Its one or two commands are submitted in order, each under a key that is*)
(* a function of its content, so that a record processed again after a     *)
(* crash or a lost answer lands once.  Other actors move nodes too.        *)
(*                                                                         *)
(* The kernel's side is what Submit checks in full: a key answers with its *)
(* receipt, a transition compares the version it expects.                  *)
(***************************************************************************)
EXTENDS Integers, Sequences, FiniteSets, SequencesExt

CONSTANTS
    Records,      \* sequence of transcript records the host works through
    Nodes,        \* dispatch nodes
    MAX_RESTARTS, \* bound: times the host starts over
    MAX_MOVES     \* bound: transitions by others

VARIABLES
    at,      \* the record being originated
    step,    \* the command of it, 0 before the first
    reread,  \* the version a stale transition was read again at, or None
    log,     \* the kernel's log of what landed
    keys,    \* receipts: key to the command it was given for
    node,    \* version and state of each node, version 0 when absent
    ended,   \* how each record ended, so far
    restarts, moves

vars == <<at, step, reread, log, keys, node, ended, restarts, moves>>

None == -1

(***************************************************************************)
(* Building the commands.                                                  *)
(***************************************************************************)
\* A body is an object with something in it, small enough to be inline.
Ingestible(body) == body.kind = "object" /\ body.fields > 0 /\ ~body.large
\* The fields of a hint must not be blank.
HintOk(hint) == \/ hint.t = "none"
                \/ hint.t = "started" /\ hint.node # "" /\ hint.kind # ""
                \/ hint.t = "transitioned" /\ hint.node # "" /\ hint.to # ""

ingest_record(r) == [c |-> "ingest", body |-> r.body]
register(h) == [c |-> "register", node |-> h.node]
transition(n, to, version) == [c |-> "transition", node |-> n, to |-> to, version |-> version]

IngestFirst(r) ==
    LET h == r.hint IN
    CASE h.t = "none" -> <<ingest_record(r)>>
      [] h.t = "started" -> <<ingest_record(r), register(h)>>
      [] h.t = "transitioned" -> <<ingest_record(r), transition(h.node, h.to, h.version)>>

\* The node first when it starts, the transcript first when it moves.
originate(r) ==
    LET h == r.hint IN
    CASE h.t = "none" -> <<ingest_record(r)>>
      [] h.t = "started" -> <<register(h), ingest_record(r)>>
      [] h.t = "transitioned" -> <<ingest_record(r), transition(h.node, h.to, h.version)>>

ingest_key(c) == <<"ingest", c.body.id>>
register_key(c) == <<"register", c.node>>
transition_key(c) == <<"transition", c.node, c.version>>
KeyOf(c) == CASE c.c = "ingest" -> ingest_key(c)
              [] c.c = "register" -> register_key(c)
              [] c.c = "transition" -> transition_key(c)

(***************************************************************************)
(* The kernel's answer to one submission: a replay of the receipt, a       *)
(* conflict when the key was given for something else, a stale version, or *)
(* the command applied.                                                    *)
(***************************************************************************)
Answer(c) ==
    CASE KeyOf(c) \in DOMAIN keys -> IF keys[KeyOf(c)] = c THEN "replay" ELSE "refused"
      [] c.c = "register" /\ node[c.node].version # 0 -> "refused"
      [] c.c = "transition" /\ node[c.node].version = 0 -> "refused"
      [] c.c = "transition" /\ node[c.node].version # c.version -> "stale"
      [] OTHER -> "applied"

Effect(c) ==
    CASE c.c = "ingest" -> node
      [] c.c = "register" -> [node EXCEPT ![c.node] = [version |-> 1, state |-> "registered"]]
      [] c.c = "transition" ->
            [node EXCEPT ![c.node] = [version |-> @.version + 1, state |-> c.to]]

Land(c) ==
    IF Answer(c) # "applied" THEN UNCHANGED <<log, keys, node>>
    ELSE /\ log' = Append(log, [record |-> at, command |-> c])
         /\ keys' = [k \in DOMAIN keys \union {KeyOf(c)} |-> IF k = KeyOf(c) THEN c ELSE keys[k]]
         /\ node' = Effect(c)

(***************************************************************************)
(* The host.                                                               *)
(***************************************************************************)
Init ==
    /\ at = 1 /\ step = 0 /\ reread = None /\ log = <<>> /\ keys = <<>>
    /\ node = [n \in Nodes |-> [version |-> 0, state |-> "none"]]
    /\ ended = [i \in DOMAIN Records |-> "pending"]
    /\ restarts = 0 /\ moves = 0

Working == at <= Len(Records)
Commands == originate(Records[at])
Current == IF reread = None THEN Commands[step]
           ELSE [Commands[step] EXCEPT !.version = reread]

EndRecord(how) == /\ ended' = [ended EXCEPT ![at] = how]
                  /\ at' = at + 1 /\ step' = 0 /\ reread' = None

\* A record that cannot be built submits nothing.
Build ==
    /\ Working /\ step = 0
    /\ IF Ingestible(Records[at].body) /\ HintOk(Records[at].hint)
       THEN step' = 1 /\ UNCHANGED <<at, reread, ended>>
       ELSE EndRecord("malformed")
    /\ UNCHANGED <<log, keys, node, restarts, moves>>

\* A replay and a first landing are the same to the host.
classify(answer) == CASE answer \in {"applied", "replay"} -> "Applied"
                      [] answer = "stale" -> "StaleVersion"
                      [] answer = "refused" -> "Refused"

\* Submit the current command and act on the answer.
Submit ==
    /\ Working /\ step > 0 /\ Land(Current)
    /\ CASE classify(Answer(Current)) = "Applied" ->
            IF step = Len(Commands) THEN EndRecord("done")
            ELSE step' = step + 1 /\ reread' = None /\ UNCHANGED <<at, ended>>
         [] classify(Answer(Current)) = "StaleVersion" /\ reread = None ->
            \* the second half of retry_stale_transition is the next Submit
            reread' = node[Current.node].version /\ UNCHANGED <<at, step, ended>>
         [] OTHER -> EndRecord("refused")
    /\ UNCHANGED <<restarts, moves>>

\* The command lands and the host dies before it hears the answer, or dies
\* before it sends; it starts over with the record it had not finished, or from
\* an earlier one it does not know it finished.
Restart ==
    /\ restarts < MAX_RESTARTS /\ restarts' = restarts + 1
    /\ IF Working /\ step > 0 THEN Land(Current) \/ UNCHANGED <<log, keys, node>>
       ELSE UNCHANGED <<log, keys, node>>
    /\ \E i \in 1 .. at : i <= Len(Records) /\ at' = i
                          /\ ended' = [k \in DOMAIN ended |-> IF k < i THEN ended[k] ELSE "pending"]
    /\ step' = 0 /\ reread' = None /\ UNCHANGED moves

\* Someone else moves a node, under a key of their own.
OthersMove ==
    /\ moves < MAX_MOVES /\ moves' = moves + 1
    /\ \E n \in Nodes :
        /\ node[n].version # 0
        /\ node' = [node EXCEPT ![n] = [version |-> @.version + 1, state |-> "moved"]]
    /\ UNCHANGED <<at, step, reread, log, keys, ended, restarts>>

Next == Build \/ Submit \/ Restart \/ OthersMove
Spec == Init /\ [][Next]_vars

(***************************************************************************)
(* Properties.                                                             *)
(***************************************************************************)
Landed(i, kind) == {k \in DOMAIN log : log[k].record = i /\ log[k].command.c = kind}

\* However often the host starts over, the log never attributes content to a
\* node that is not registered, never shows a node moved by a record before the
\* transcript that explains it, and never holds a body or a registration twice.
OrderPinned ==
    \A i \in DOMAIN Records :
        LET h == Records[i].hint IN
        /\ \A k \in Landed(i, "ingest") :
            h.t = "started" => \E j \in 1 .. k : log[j].command = register(h)
        /\ \A k \in Landed(i, "transition") :
            \E j \in 1 .. k : log[j].command = ingest_record(Records[i])
        /\ \A j, k \in DOMAIN log :
            log[j].command.c # "transition" /\ log[j].command = log[k].command => j = k

====
