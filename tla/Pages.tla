------------------------------- MODULE Pages -------------------------------
(***************************************************************************)
(* Reading projections while the kernel keeps writing.  A client never     *)
(* gets a snapshot: it asks for one page of one projection at a time, and  *)
(* the daemon answers each page with two separate statements, first the    *)
(* watermark and then the rows.  Five readers put pages together again:    *)
(*   "summary"   load_board_state, behind the one-shot summaries;          *)
(*   "board"     refresh_board_projections, behind the console's boards;   *)
(*   "flat"      read_projection_records, behind the queue and the        *)
(*               terminals;                                                *)
(*   "coherent"  read_projection_records_coherent, behind the workspace;   *)
(*   "estate"    refresh_estate, which also joins the rows to the events   *)
(*               that made them (EventIndex).                              *)
(* A row is its version and, for attention, whether it is unresolved.      *)
(***************************************************************************)
EXTENDS Integers, SequencesExt

CONSTANTS
    Ids,         \* the keys of every projection, ordered as numbers
    Readers,     \* the reads a client makes: [how, kinds]
    Writes,      \* the commands others submit: sequences of [kind, id, type]
    PAGE_LIMIT,  \* rows one page may carry
    MAX_PAGES,   \* MAX_PAGES_PER_PROJECTION
    ATTEMPTS,    \* SNAPSHOT_ATTEMPTS and SUMMARY_SNAPSHOT_ATTEMPTS
    EVENT_PAGE,  \* events one ReadEvents may carry
    MAX_EVENTS   \* bound: the length of the log

VARIABLES
    log,     \* committed events, in sequence order
    rows,    \* the projection tables: kind -> id -> row
    index,   \* the highest sequence the client's EventIndex holds
    job      \* the read in progress, or the last one made

vars == <<log, rows, index, job>>

Kinds == {"task", "attempt", "attention_item"}
Absent == [version |-> 0, open |-> FALSE]

-----------------------------------------------------------------------------
(* The kernel's tables.                                                    *)

\* The row a write of this type leaves.
Changed(row, type) ==
    [version |-> row.version + 1,
     open |-> CASE type = "attention_raised" -> TRUE
                [] type = "attention_resolved" -> FALSE
                [] OTHER -> row.open]

\* An attention item is raised once and changed only while unresolved.
Allowed(table, w) ==
    CASE w.kind # "attention_item"      -> TRUE
      [] w.type = "attention_raised"    -> table[w.kind][w.id] = Absent
      [] OTHER                          -> table[w.kind][w.id].open

Put(table, w) ==
    [table EXCEPT ![w.kind][w.id] = Changed(@, w.type)]

\* One command: its events and its rows commit together.
Write ==
    \E batch \in Writes :
        /\ Len(log) + Len(batch) <= MAX_EVENTS
        /\ \A w \in ToSet(batch) : Allowed(rows, w)
        /\ rows' = FoldLeft(Put, rows, batch)
        /\ log' = log \o [n \in 1..Len(batch) |->
                             batch[n] @@ [version |-> rows'[batch[n].kind][batch[n].id].version]]
        /\ UNCHANGED <<index, job>>

\* page_attention: a refused command raises its item beside the log.
AuthorityPage ==
    /\ \E i \in Ids :
          /\ rows["attention_item"][i] = Absent
          /\ rows' = Put(rows, [kind |-> "attention_item", id |-> i, type |-> "attention_raised"])
    /\ UNCHANGED <<log, index, job>>

\* The tables as the first w events left them.
TablesAt(w) ==
    FoldLeft(Put, [k \in Kinds |-> [i \in Ids |-> Absent]], SubSeq(log, 1, w))

-----------------------------------------------------------------------------
(* One read.                                                               *)

NoRows == [k \in Kinds |-> [i \in Ids |-> Absent]]

\* Where an attempt of a read starts: nothing paged, the first kind first.
Fresh(reader, left) ==
    [reader |-> reader, left |-> left, pc |-> "stamp", at |-> 1, cursor |-> 0,
     pages |-> 0, stamp |-> 0, got |-> NoRows, marks |-> <<>>, drained |-> TRUE,
     target |-> -1, answer |-> "none"]

Answered(j) == j.pc = "done"

Begin ==
    /\ Answered(job)
    /\ \E r \in Readers : job' = Fresh(r, ATTEMPTS)
    /\ UNCHANGED <<log, rows, index>>

Kind == job.reader.kinds[job.at]

\* ListProjection, first statement: the watermark the page will carry.
readiness ==
    /\ job.pc = "stamp"
    /\ job' = [job EXCEPT !.stamp = Len(log), !.pc = "rows"]
    /\ UNCHANGED <<log, rows, index>>

\* The rows after the cursor, in key order, as many as the limit allows.
Fetched ==
    LET after == {i \in Ids : i > job.cursor /\ rows[Kind][i] # Absent}
    IN  {i \in after : Cardinality({h \in after : h <= i}) <= PAGE_LIMIT}

\* fit_page: the page keeps a non-empty prefix of what was fetched.
fit_page(fetched) ==
    {{i \in fetched : i <= last} : last \in fetched} \cup
        (IF fetched = {} THEN {{}} ELSE {})

\* page_step: what a reader does after a page.
page_step(more, taken) ==
    CASE ~more              -> "drained"
      [] taken >= MAX_PAGES -> "short"
      [] OTHER              -> "continue"

\* The estate and the coherent walk page to the end; the others stop short.
Budgeted == job.reader.how \in {"summary", "board", "flat"}

Highest(S) == CHOOSE i \in S : \A h \in S : h <= i

OneMark(marks) == \A n \in DOMAIN marks : marks[n] = marks[1]

Again(j) == Fresh(j.reader, j.left - 1)
Refuse(j, why) == [j EXCEPT !.pc = "done", !.answer = why]
Accept(j, mark) == [j EXCEPT !.pc = "done", !.answer = "ok", !.stamp = mark]

\* load_board_state: equal watermarks are accepted, else all is read again.
load_board_state(j) ==
    CASE OneMark(j.marks) -> Accept(j, j.marks[1])
      [] ~OneMark(j.marks) /\ j.left > 1 -> Again(j)
      [] OTHER -> Refuse(j, "stale")

\* Would show the newest watermark of the attempt it keeps.
BoardNewest(j) ==
    IF ~OneMark(j.marks) /\ j.left > 1 THEN Again(j) ELSE Accept(j, Highest(ToSet(j.marks)))

\* refresh_board_projections: the last attempt is kept, torn or not, under
\* the oldest watermark any of its pages carried.
refresh_board_projections(j) ==
    LET stamped == {j.marks[n] : n \in DOMAIN j.marks} \ {0}
        oldest == IF stamped = {} THEN 0 ELSE CHOOSE m \in stamped : \A n \in stamped : m <= n
    IN  IF ~OneMark(j.marks) /\ j.left > 1 THEN Again(j) ELSE Accept(j, oldest)

\* read_projection_records, refresh_queue: whatever was read, under the last watermark any page carried.
read_projection_records(j) ==
    LET stamped == {n \in DOMAIN j.marks : j.marks[n] # 0}
    IN  Accept(j, IF stamped = {} THEN 0 ELSE j.marks[Highest(stamped)])

\* What a reader does with its rows once every kind is read.
Finish(j) ==
    CASE j.reader.how = "summary"  -> load_board_state(j)
      [] j.reader.how = "board"    -> refresh_board_projections(j)
      [] j.reader.how = "flat"     -> read_projection_records(j)
      [] j.reader.how = "coherent" -> Accept(j, Last(j.marks))
      [] j.reader.how = "estate"   -> [j EXCEPT !.pc = "events", !.target = -1]

\* read_projection_records_once: a page of another moment ends the walk.
Drifted(j) ==
    /\ j.reader.how = "coherent"
    /\ \E n \in DOMAIN j.marks : j.marks[n] # 0 /\ Last(j.marks) # j.marks[n]

\* The page is folded into the read, and the read moves on.
Take(page, more) ==
    LET j == [job EXCEPT !.pages = @ + 1,
                         !.marks = Append(@, job.stamp),
                         !.got[Kind] = [i \in Ids |-> IF i \in page THEN rows[Kind][i] ELSE @[i]]]
        step == IF Budgeted THEN page_step(more, j.pages) ELSE
                IF more THEN "continue" ELSE "drained"
    IN  CASE page # {} /\ job.stamp = 0 /\ job.reader.how \notin {"coherent", "flat"} -> Refuse(job, "schema")
          [] Drifted(j) /\ job.left > 1 -> Again(job)
          [] Drifted(j) /\ job.left <= 1 -> Refuse(job, "stale")
          [] step = "continue" /\ ~Drifted(j) -> [j EXCEPT !.cursor = Highest(page), !.pc = "stamp"]
          [] step # "continue" /\ ~Drifted(j) /\ job.at < Len(job.reader.kinds) ->
                 [j EXCEPT !.drained = @ /\ step = "drained", !.at = @ + 1,
                           !.cursor = 0, !.pages = 0, !.pc = "stamp"]
          [] OTHER -> Finish([j EXCEPT !.drained = @ /\ step = "drained"])

\* ListProjection, second statement: the rows, read a moment later.
projection_page ==
    /\ job.pc = "rows"
    /\ \E page \in fit_page(Fetched) :
          LET cut == page # Fetched
              more == page # {} /\ (cut \/ Cardinality(page) = PAGE_LIMIT)
          IN  job' = Take(page, more)
    /\ UNCHANGED <<log, rows, index>>

-----------------------------------------------------------------------------
(* The estate's join with the log.                                         *)

\* Would read one page of events however many there are.
LoadOnePage ==
    /\ job.pc = "events"
    /\ \E n \in 0..EVENT_PAGE :
          /\ index + n <= Len(log) /\ (n = 0 => index = Len(log))
          /\ index' = index + n
          /\ job' = [job EXCEPT !.target = Len(log), !.pc = "build"]
    /\ UNCHANGED <<log, rows>>

\* load_events_to_head, one page: up to the head the first page reported.
load_events_to_head ==
    /\ job.pc = "events"
    /\ \E n \in 0..EVENT_PAGE :
          LET target == IF job.target = -1 THEN Len(log) ELSE job.target
              delivered == index + n
          IN  /\ delivered <= Len(log)
              /\ n = 0 => index = Len(log)
              /\ index' = delivered
              /\ job' = [job EXCEPT !.target = target,
                                    !.pc = IF n = 0 \/ delivered >= target THEN "build" ELSE "events"]
    /\ UNCHANGED <<log, rows>>

\* The sequence of the event that made a version of a row, or 0.
exact(kind, i, version) ==
    LET made == {n \in 1..index : log[n].kind = kind /\ log[n].id = i /\ log[n].version = version}
    IN  IF made = {} THEN 0 ELSE Highest(made)

\* attention_pin_at: the latest raise or resolve at or below the watermark.
attention_pin_at(i, mark) ==
    LET pins == {n \in 1..index : /\ log[n].kind = "attention_item" /\ log[n].id = i
                                  /\ n <= mark /\ log[n].type # "attention_acknowledged"}
    IN  IF pins = {} THEN 0 ELSE Highest(pins)

\* Would accept a row that is newer than the watermark.
RowUnpinned(got, kind, i, mark) ==
    LET row == got[kind][i]
    IN  CASE row = Absent -> "fine"
          [] row # Absent /\ kind # "attention_item" /\ exact(kind, i, row.version) = 0 -> "missing"
          [] row # Absent /\ kind = "attention_item" /\ attention_pin_at(i, mark) = 0 -> "missing"
          [] OTHER -> "fine"

\* Why the row of one kind and id stops the join, or "fine".
RowVerdict(got, kind, i, mark) ==
    LET row == got[kind][i]
        made == exact(kind, i, row.version)
        pin == attention_pin_at(i, mark)
    IN  CASE row = Absent                                    -> "fine"
          [] row # Absent /\ kind # "attention_item" /\ made = 0 -> "missing"
          [] kind # "attention_item" /\ made > mark          -> "ahead"
          [] kind = "attempt" /\ row # Absent /\ made \in 1..mark /\ got["task"][i] = Absent -> "orphan"
          [] kind = "attention_item" /\ row # Absent /\ pin = 0 -> "missing"
          [] kind = "attention_item" /\ pin > 0
                /\ (log[pin].type = "attention_raised") # row.open -> "drift"
          [] OTHER                                           -> "fine"

\* EventIndex::build: watermarks first, then row by row in the order read;
\* the first row that does not fit decides.
build(got, marks, kinds) ==
    LET mark == marks[1]
        bad == {p \in (DOMAIN kinds) \X Ids : RowVerdict(got, kinds[p[1]], p[2], mark) # "fine"}
        first == CHOOSE p \in bad : \A q \in bad : p[1] < q[1] \/ (p[1] = q[1] /\ p[2] <= q[2])
    IN  CASE ~OneMark(marks) -> "drift"
          [] OneMark(marks) /\ bad = {} -> "ok"
          [] OneMark(marks) /\ bad # {} -> RowVerdict(got, kinds[first[1]], first[2], mark)

is_retryable(verdict) == verdict \in {"drift", "ahead"}

refresh_estate ==
    /\ job.pc = "build"
    /\ LET verdict == build(job.got, job.marks, job.reader.kinds)
       IN  job' = CASE verdict = "ok" -> Accept(job, job.marks[1])
                    [] is_retryable(verdict) /\ job.left > 1 -> Again(job)
                    [] OTHER -> Refuse(job, verdict)
    /\ UNCHANGED <<log, rows, index>>

-----------------------------------------------------------------------------

Init ==
    /\ log = <<>>
    /\ rows = NoRows
    /\ index = 0
    /\ \E r \in Readers : job = [Fresh(r, 0) EXCEPT !.pc = "done", !.answer = "never"]

Next ==
    \/ Write \/ AuthorityPage
    \/ Begin \/ readiness \/ projection_page \/ load_events_to_head \/ refresh_estate

Spec == Init /\ [][Next]_vars

-----------------------------------------------------------------------------

\* A finished read that served rows.  A read begun on an empty log is left
\* out: its first pages carry no watermark and no reader counts them.
Served == Answered(job) /\ job.answer = "ok" /\ job.marks[1] # 0

\* The stamp a reader shows beside its rows never overstates them: whatever
\* had been committed up to that sequence is in the rows, at that version or
\* a later one, unless the reader says it stopped short.  The flat read is
\* left out: it shows the newest of its watermarks.
StampIsAFloor ==
    Served /\ job.drained /\ job.reader.how # "flat" =>
        \A k \in ToSet(job.reader.kinds), i \in Ids :
            TablesAt(job.stamp)[k][i].version <= job.got[k][i].version

\* A hall frame is one moment: every task and attempt in it is exactly as it
\* was at the frame's watermark, and so is whether each item is unresolved.
EstateIsOneMoment ==
    Served /\ job.reader.how = "estate" =>
        \A i \in Ids :
            LET then == TablesAt(job.stamp)
            IN  /\ \A k \in ToSet(job.reader.kinds) \ {"attention_item"} : job.got[k][i] = then[k][i]
                /\ job.got["attention_item"][i].open = then["attention_item"][i].open

\* The hall gives up, which ends the console (tui.rs:858), only over a write
\* its pages could not hold together: never because an attempt is there without
\* its task; over a row without its event when that row is an item raised beside
\* the log or after the watermark; and over drift, once SNAPSHOT_ATTEMPTS are
\* spent, when something was committed after the last attempt's first page.
RefusalsAreReal ==
    Answered(job) /\ job.reader.how = "estate" =>
        /\ job.answer # "orphan"
        /\ job.answer = "missing" =>
              \E i \in Ids : /\ job.got["attention_item"][i] # Absent
                             /\ ~\E n \in 1..job.marks[1] :
                                   log[n].kind = "attention_item" /\ log[n].id = i /\ log[n].type = "attention_raised"
        /\ is_retryable(job.answer) => job.left = 1 /\ index > job.marks[1]
=============================================================================
