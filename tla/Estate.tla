------------------------------- MODULE Estate -------------------------------
(***************************************************************************)
(* The hall's picture of the estate (EventIndex::build): the rows of one   *)
(* coherent read, each with the sequence and the project of the event that *)
(* made it, arranged as districts (projects) of stations (task kinds) with *)
(* an agent for every attempt.  Writers change the rows; the picture is a  *)
(* function of them.                                                       *)
(***************************************************************************)
EXTENDS Naturals, FiniteSets

CONSTANTS
    Tasks,        \* task ids
    Attempts,     \* attempt ids
    Items,        \* attention item ids
    Projects,     \* projects; an item may be raised under another one than its subject's
    TaskKinds,    \* kinds a task may have; "" for none
    AttemptStates,
    MAX_SEQ       \* bound: writes

VARIABLES tasks, attempts, items, seq

estateVars == <<tasks, attempts, items, seq>>

NoRow == [seq |-> 0]

Present(table) == {id \in DOMAIN table : table[id].seq # 0}

Max0(S) == IF S = {} THEN 0 ELSE CHOOSE n \in S : \A h \in S : h <= n

-----------------------------------------------------------------------------
(***************************************************************************)
(* The picture.                                                            *)
(***************************************************************************)

\* station_identity: tasks of one kind share a station, a task without a kind has its own.
station_identity(t) == IF tasks[t].kind = "" THEN t ELSE tasks[t].kind

\* agent_state: a call for attention wins over the attempt's own state.
agent_state(state, needs_attention) ==
    IF needs_attention THEN "needs_attention"
    ELSE IF state \in {"queued", "leased"} THEN "queued" ELSE state

\* attention_project: the project of the task the item is about, or of its attempt's task, or the one it was raised under.
attention_project(i) ==
    LET about == items[i].subject IN
    CASE about \in Present(tasks) -> tasks[about].project
      [] about \in Present(attempts) -> tasks[attempts[about].task].project
      [] OTHER -> items[i].project

\* Attempts an unresolved item names.
targeted_attempts == {items[i].subject : i \in {j \in Present(items) : items[j].open}} \cap Attempts

StateOf(a) == agent_state(attempts[a].state, a \in targeted_attempts \/ tasks[attempts[a].task].input)

\* A finished attempt last touched before the cutoff leaves its station and is only counted.
Aged(a) == StateOf(a) \in {"done", "failed", "canceled"} /\ attempts[a].old

TasksOf(project) == {t \in Present(tasks) : tasks[t].project = project}
AttemptsOf(T) == {a \in Present(attempts) : attempts[a].task \in T}

\* DistrictBuild: the stations of a project's tasks, and when anything in it last changed.
DistrictBuild(project) ==
    LET mine == TasksOf(project)
        at(key) == {t \in mine : station_identity(t) = key}
        about == {i \in Present(items) : attention_project(i) = project}
        newest(T) == Max0({tasks[t].seq : t \in T} \cup {attempts[a].seq : a \in AttemptsOf(T)})
    IN  [stations |-> {[key |-> key, agents |-> {[id |-> a, state |-> StateOf(a)] : a \in {b \in AttemptsOf(at(key)) : ~Aged(b)}},
                        changed |-> newest(at(key))] : key \in {station_identity(t) : t \in mine}},
         aged_done |-> Cardinality({a \in AttemptsOf(mine) : Aged(a)}),
         changed |-> Max0({newest(mine)} \cup {items[i].seq : i \in about})]

\* Would open a district only for a project that has tasks.
DistrictsOfTasks == {tasks[t].project : t \in Present(tasks)}

\* A project has a district when it has a task, or an item is about it.
Districts == {tasks[t].project : t \in Present(tasks)} \cup {attention_project(i) : i \in Present(items)}

build == [p \in Districts |-> DistrictBuild(p)]

-----------------------------------------------------------------------------
(***************************************************************************)
(* The rows change.                                                        *)
(***************************************************************************)

EstateInit ==
    /\ tasks = [t \in Tasks |-> NoRow] /\ attempts = [a \in Attempts |-> NoRow] /\ items = [i \in Items |-> NoRow]
    /\ seq = 0

TaskChanges(t) ==
    \E p \in Projects, k \in TaskKinds, input \in BOOLEAN :
        /\ tasks[t].seq # 0 => tasks[t].kind = k /\ tasks[t].project = p
        /\ tasks' = [tasks EXCEPT ![t] = [seq |-> seq + 1, project |-> p, kind |-> k, input |-> input]]
        /\ UNCHANGED <<attempts, items>>

AttemptChanges(a) ==
    \E t \in Present(tasks), state \in AttemptStates, old \in BOOLEAN :
        /\ attempts[a].seq # 0 => attempts[a].task = t
        /\ attempts' = [attempts EXCEPT ![a] = [seq |-> seq + 1, task |-> t, state |-> state, old |-> old]]
        /\ UNCHANGED <<tasks, items>>

\* An item is raised once, about a task, an attempt or neither, and resolved once.
ItemChanges(i) ==
    \E p \in Projects, about \in Tasks \cup Attempts \cup {"none"} :
        /\ items[i].seq # 0 => items[i].open /\ items[i].subject = about /\ items[i].project = p
        /\ items' = [items EXCEPT ![i] = [seq |-> seq + 1, project |-> p, subject |-> about, open |-> items[i].seq = 0]]
        /\ UNCHANGED <<tasks, attempts>>

EstateNext ==
    /\ seq < MAX_SEQ /\ seq' = seq + 1
    /\ \/ \E t \in Tasks : TaskChanges(t)
       \/ \E a \in Attempts : AttemptChanges(a)
       \/ \E i \in Items : ItemChanges(i)

EstateSpec == EstateInit /\ [][EstateNext]_estateVars

-----------------------------------------------------------------------------

(***************************************************************************)
(* The hall leaves nothing out and counts nothing twice: every attempt is  *)
(* an agent of exactly one station, in its task's district, or is counted  *)
(* as aged there; an attempt the operator is asked about is always on      *)
(* stage; an open item has a district to stand in; and the newest change   *)
(* of the estate is the newest change of some district.                    *)
(***************************************************************************)
HallAccounts ==
    /\ \A a \in Present(attempts) :
          LET home == build[tasks[attempts[a].task].project]
              seats == {s \in home.stations : \E agent \in s.agents : agent.id = a}
          IN  /\ Cardinality(seats) = (IF Aged(a) THEN 0 ELSE 1)
              /\ a \in targeted_attempts => \E s \in seats : \E agent \in s.agents : agent.id = a /\ agent.state = "needs_attention"
    /\ \A p \in Districts :
          build[p].aged_done + Cardinality(UNION {s.agents : s \in build[p].stations}) = Cardinality(AttemptsOf(TasksOf(p)))
    /\ \A i \in Present(items) : items[i].open => attention_project(i) \in DOMAIN build
    /\ seq = Max0({build[p].changed : p \in DOMAIN build})
=============================================================================
