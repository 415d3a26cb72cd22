----------------------------- MODULE BoardFeed -----------------------------
(***************************************************************************)
(* A board being fed (gridwork/src/tui.rs, lib.rs): records arrive a page  *)
(* at a time in whatever order the kernel serves them, a repeated page     *)
(* repeats its records, a read may stop short, the event tail drops its    *)
(* oldest rows, and a refresh starts over.  Whatever arrived, the frame    *)
(* the operator sees is Board's function of it.                            *)
(***************************************************************************)
EXTENDS Board

CONSTANTS
    Feeds,            \* what may arrive on a view: [view, start, records]
    EVENT_TAIL_ROWS,  \* events the tail keeps
    MAX_RECORDS,      \* bound: records on one page
    Heights           \* the terminal heights a frame is checked at

VARIABLES
    feed,      \* which feed this behaviour reads
    board,     \* the BoardState
    delivered  \* events handed to the tail since it opened

feedVars == <<feed, board, delivered>>

\* The page of the state each record kind is kept on.
PageName ==
  [task |-> "tasks", attempt |-> "attempts", node |-> "nodes", message |-> "messages",
   run |-> "runs", attention |-> "attention", session |-> "sessions", worktree |-> "worktrees",
   lease |-> "leases", cost |-> "costs", receipt |-> "receipts", ingested |-> "ingested"]

Size == Cardinality(UNION {{kind} \X DOMAIN board[PageName[kind]] : kind \in DOMAIN PageName})

\* One record of a page joins the state; nothing is merged or reordered.
push_board_record ==
    /\ Size < MAX_RECORDS
    /\ \E r \in feed.records :
          board' = [board EXCEPT ![PageName[r[1]]] = Append(@, r[2])]
    /\ UNCHANGED <<feed, delivered>>

\* drain_projection ends at the page budget: the figures become floors.
StopShort ==
    /\ feed.view # "events" /\ board.complete
    /\ board' = [board EXCEPT !.complete = FALSE]
    /\ UNCHANGED <<feed, delivered>>

\* refresh_board_projections: every kind of the view is read anew.
Reread ==
    /\ Size > 0
    /\ board' = Board(feed.view, feed.start, TRUE)
    /\ UNCHANGED <<feed, delivered>>

\* A delivered batch extends the tail, moves its cursor, and drops the
\* oldest events past the tail's size.
append_event_batch(b, events, cursor) ==
    LET all == b.events \o events
        remove == Monus(Len(all), EVENT_TAIL_ROWS)
    IN  [b EXCEPT !.events = SubSeq(all, remove + 1, Len(all)),
                  !.tail.cursor = cursor,
                  !.tail.dropped = @ + remove,
                  !.watermark = cursor]

Batch ==
    /\ feed.view = "events"
    /\ \E n \in 1 .. (MAX_RECORDS - delivered), misses \in BOOLEAN :
          LET event(i) == [id |-> feed.start + delivered + i, seq |-> feed.start + delivered + i,
                           matches |-> ~(misses /\ i = n)]
          IN  /\ board' = append_event_batch(board, [i \in 1 .. n |-> event(i)],
                                             feed.start + delivered + n)
              /\ delivered' = delivered + n
    /\ UNCHANGED feed

FeedInit ==
    /\ feed \in Feeds
    /\ board = Board(feed.view, feed.start, TRUE)
    /\ delivered = 0

FeedNext == push_board_record \/ StopShort \/ Reread \/ Batch

FeedSpec == FeedInit /\ [][FeedNext]_feedVars

-----------------------------------------------------------------------------

Targets(kind) == SelectSeq(target_order(board), LAMBDA t : t[1] = kind)
Stated(note) ==
    LET said == SelectSeq(rows(board), LAMBDA r : r.pinned /\ r.note = note)
    IN  IF said = <<>> THEN 0 ELSE said[1].count
Distinct(kind) == Ids(board[PageName[kind]])

\* The kinds a view lists in full; the summaries show a selection only.
Listed ==
  CASE feed.view = "dag" -> {"task", "attempt", "node"}
    [] feed.view = "flow" -> {"message"}
    [] feed.view = "runs" -> {"run"}
    [] feed.view = "fleet" -> {"session", "worktree", "lease"}
    [] feed.view = "cost" -> {"cost"}
    [] feed.view = "audit" -> {"receipt"}
    [] OTHER -> {}
Lost(kind) ==
  CASE kind = "node" -> Stated("unplaced") [] kind = "message" -> Stated("unthreaded")
    [] OTHER -> 0

\* Every record of a page is on the board exactly once, however the page
\* repeats it and wherever its parent is, or a pinned row counts it: spawns
\* and messages caught in a parent cycle are the only ones left out.  The
\* summaries, which cut their sections at SUMMARY_ROWS, and the event tail,
\* which shows only what is past its cursor, are not about every record.
RecordsAccounted ==
    \A kind \in Listed :
        /\ IsInjective(Targets(kind))
        /\ Len(Targets(kind)) + Lost(kind) = Cardinality(Distinct(kind))

\* Whatever the page, the height and the detail, the selected row is painted
\* whenever any row is, every other row is either painted or counted by the
\* overflow marker, and body, detail and status line fill the terminal.
FrameShowsSelection ==
    LET shows(f, selected, height) ==
            /\ f.visible > 0 /\ selected # NoTarget => selected \in f.hits
            /\ f.before + (f.end - f.start) + f.more = f.ordinary
            /\ f.end - f.start < f.ordinary /\ f.space > 0 => f.marker
            /\ f.pinned + f.space + f.detail = height - 1
            /\ (f.end - f.start) + (IF f.marker THEN 1 ELSE 0) <= f.space
    IN  \A height \in Heights, wrap \in 1 .. 2,
           selected \in ToSet(target_order(board)) \cup {NoTarget} :
              shows(render(board, selected, height, wrap), selected, height)

\* The cost panel's columns are its headline: the buckets by engine and model
\* add up to it, whatever repeats and whatever is unpriced.
LedgerBalances ==
    LET total(buckets, field) ==
            FoldLeft(LAMBDA sum, k : sum + buckets[k][field], 0, SetToSeq(DOMAIN buckets))
        balances(roll) ==
            /\ total(roll.by_engine, "micros") = roll.headline.micros
            /\ total(roll.by_engine, "entries") = roll.headline.entries
            /\ roll.headline.priced + roll.headline.unpriced = roll.headline.entries
    IN  balances(cost_rollup(board))
=============================================================================
