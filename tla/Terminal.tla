------------------------------ MODULE Terminal ------------------------------
(***************************************************************************)
(* What one chunk of a child's output becomes: the terminal library's grid,*)
(* recording and renderer (gwk-pty), the wire mirror the host keeps of the *)
(* screen (gwk-pty-host wire.rs), the interned frames and deltas it sends  *)
(* (gwk-domain frame.rs), and the strict decode and the mirror of the      *)
(* kernel (gwk-kernel wire/pty.rs).  PtyHub has the protocol between these *)
(* parts over abstract screens; here the screens are cells, with wide and  *)
(* multi-codepoint glyphs and styles, and the protocol is one session whose*)
(* every batch is published.  Rows and columns count from 1.               *)
(***************************************************************************)
EXTENDS Integers, Sequences, FiniteSets, SequencesExt

CONSTANTS
    Paints,            \* output: a cluster (a sequence of code points) at a place
    WideClusters,      \* clusters that take two columns
    PLAIN,             \* the style of a blank cell
    Sizes,             \* <<cols, rows>> a resize may ask for
    CAP,               \* entries the recording retains
    MAX_GLYPH,         \* code points a cell update may carry (MAX_GLYPH_BYTES)
    MAX_AXIS, MAX_CELLS,  \* PTY_GRID_MAX_AXIS, PTY_GRID_MAX_CELLS
    MAX_EVENTS,        \* bound: events of a behaviour
    MAX_FAULTS         \* bound: failed ioctls, child resizes and respawns

\* What the constants are.
TerminalAssumption ==
    /\ CAP \in Nat \ {0}
    /\ \A e \in Paints : e.text # <<>> /\ e.x > 0 /\ e.y > 0 /\ e.hidden \in BOOLEAN

VARIABLES
    grid,    \* libghostty's terminal: size, cells, dirty rows, cursor
    win,     \* the size the PTY device holds
    rec,     \* the Recording
    screen,  \* the host's WireScreen
    mirror,  \* the kernel's cells and size
    refused, \* the kernel refused a publish
    past,    \* history: the grid after each recorded event, by sequence number
    lost,    \* history: the grid has changed outside the recording
    apart,   \* history: what drove the grid and the device to different sizes
    faults   \* faults so far

vars == <<grid, win, rec, screen, mirror, refused, past, lost, apart, faults>>

None == <<>>
Cols(size) == size[1]
Rows(size) == size[2]
MapSeq(s, F(_)) == [i \in 1 .. Len(s) |-> F(s[i])]
FlatMap(s, F(_)) == FoldLeft(LAMBDA acc, x : acc \o F(x), <<>>, s)
Filled(n, v) == [i \in 1 .. n |-> v]

(***************************************************************************)
(* The engine's grid.  A cell is narrow, wide, the tail of a wide glyph, or*)
(* the spacer a wide glyph leaves at the end of a row when it wraps.       *)
(***************************************************************************)
Empty == [text |-> <<>>, wide |-> "narrow", style |-> PLAIN]
NewGrid(size) == [size |-> size, cursor |-> None, full |-> TRUE, dirty |-> {},
                  cells |-> Filled(Rows(size), Filled(Cols(size), Empty))]

\* Overwriting one half of a wide glyph blanks the other.
Settle(row) == [x \in DOMAIN row |->
    IF \/ row[x].wide = "tail" /\ (x = 1 \/ row[x - 1].wide # "wide")
       \/ row[x].wide = "wide" /\ (x = Len(row) \/ row[x + 1].wide # "tail")
       \/ row[x].wide = "head" /\ x # Len(row)
    THEN Empty ELSE row[x]]

Put(row, x, c, style) ==
    Settle(IF c \in WideClusters
           THEN [row EXCEPT ![x] = [text |-> c, wide |-> "wide", style |-> style],
                            ![x + 1] = [text |-> <<>>, wide |-> "tail", style |-> style]]
           ELSE [row EXCEPT ![x] = [text |-> c, wide |-> "narrow", style |-> style]])

\* Grid::write: one cluster painted at a position; a wide one that does not fit
\* leaves a spacer and goes to the start of the next row.
Written(g, e) ==
    LET wraps == e.text \in WideClusters /\ e.x = Cols(g.size)
        y == IF wraps THEN e.y + 1 ELSE e.y
        x == IF wraps THEN 1 ELSE e.x
        spaced == IF wraps
                  THEN [g.cells EXCEPT ![e.y] = Settle([@ EXCEPT ![e.x] =
                            [text |-> <<>>, wide |-> "head", style |-> e.style]])]
                  ELSE g.cells IN
    [g EXCEPT !.cells = [spaced EXCEPT ![y] = Put(@, x, e.text, e.style)],
              !.dirty = @ \union {y, e.y},
              !.cursor = IF e.hidden THEN None ELSE <<x, y>>]

Paintable(g, e) ==
    /\ e.y <= Rows(g.size) /\ e.x <= Cols(g.size)
    /\ e.text \in WideClusters =>
        Cols(g.size) > 1 /\ (e.x < Cols(g.size) \/ e.y < Rows(g.size))

\* Grid::resize: refused for a zero, otherwise cropped or padded, all dirty.
Resizable(size) == Cols(size) # 0 /\ Rows(size) # 0
Resized(g, size) ==
    [size |-> size, full |-> TRUE, dirty |-> {},
     cursor |-> IF g.cursor # None /\ g.cursor[1] <= Cols(size) /\ g.cursor[2] <= Rows(size)
                THEN g.cursor ELSE None,
     cells |-> [y \in 1 .. Rows(size) |-> Settle([x \in 1 .. Cols(size) |->
        IF y <= Rows(g.size) /\ x <= Cols(g.size) THEN g.cells[y][x] ELSE Empty])]]

Shown(g) == [size |-> g.size, cursor |-> g.cursor, cells |-> g.cells]

(***************************************************************************)
(* The recording: numbered events, the newest CAP of them.                 *)
(***************************************************************************)
NewRecording == [entries |-> <<>>, next |-> 0]
Evict(entries, cap) == IF Len(entries) > cap
                       THEN SubSeq(entries, Len(entries) - cap + 1, Len(entries)) ELSE entries
record(r, event) == [entries |-> Evict(Append(r.entries, [seq |-> r.next, event |-> event]), CAP),
                     next |-> r.next + 1]
latest_seq(r, seq) == IF r.entries = <<>> THEN seq ELSE Last(r.entries).seq

\* Everything after seq, or None when the next entry was already evicted.
since(r, seq) == IF r.entries # <<>> /\ seq + 1 < Head(r.entries).seq THEN None
                 ELSE <<SelectSeq(r.entries, LAMBDA e : e.seq > seq)>>

Step(g, event) == IF event.t = "output" THEN Written(g, event.paint)
                  ELSE Resized(g, event.size)
replay(entries, g) == FoldLeft(LAMBDA acc, e : Step(acc, e.event), g, entries)

\* Attach::capture and restore: a fresh grid fed the snapshot of the live one.
restore(live) == [NewGrid(live.size) EXCEPT !.cells = live.cells, !.cursor = live.cursor]

catch_up(r, live, client, seq) ==
    LET gap == since(r, seq) IN
    IF gap # None THEN [grid |-> replay(gap[1], client), at |-> latest_seq(r, seq)]
    ELSE [grid |-> restore(live), at |-> latest_seq(r, seq)]

\* One field of the encoding is one token; a byte of output is a token too.
EncodedEvent(e) ==
    IF e.t = "output"
    THEN <<0, 1, e.paint>>           \* tag, length, payload
    ELSE <<1, Cols(e.size), Rows(e.size)>>
encode(r) == <<"GWKREC">> \o FlatMap(r.entries, LAMBDA e : <<e.seq>> \o EncodedEvent(e.event))

\* Decoding proceeds entry by entry and refuses a cut entry and a sequence that
\* does not climb.
DecodedEntry(b, at) == [seq |-> b[at], event |->
    IF b[at + 1] = 0 THEN [t |-> "output", paint |-> b[at + 3]]
    ELSE [t |-> "resize", size |-> <<b[at + 2], b[at + 3]>>]]
decode(b) ==
    IF b = <<>> \/ Head(b) # "GWKREC" THEN [error |-> "magic"]
    ELSE IF (Len(b) - 1) % 4 # 0 THEN [error |-> "truncated"]
    ELSE LET all == [i \in 1 .. (Len(b) - 1) \div 4 |-> DecodedEntry(b, 4 * i - 2)] IN
         IF \E i \in 2 .. Len(all) : all[i].seq <= all[i - 1].seq
         THEN [error |-> "out_of_order"]
         ELSE LET kept == Evict(all, CAP) IN
              [entries |-> kept, next |-> IF kept = <<>> THEN 0 ELSE Last(kept).seq + 1]

(***************************************************************************)
(* Renderer::frame: the dirty rows, each as text with the styles and the   *)
(* starting columns of its clusters.  Spacer cells contribute nothing; an  *)
(* empty cell is a space.                                                  *)
(***************************************************************************)
RowOf(y, cells) ==
    LET heads == SelectSeq([x \in DOMAIN cells |-> x],
                           LAMBDA x : cells[x].wide \notin {"tail", "head"}) IN
    [y |-> y, cols |-> heads,
     styles |-> MapSeq(heads, LAMBDA x : cells[x].style),
     text |-> FlatMap(heads, LAMBDA x : IF cells[x].text = <<>> THEN <<" ">> ELSE cells[x].text)]

frame(g) ==
    LET ys == SelectSeq([y \in DOMAIN g.cells |-> y], LAMBDA y : g.full \/ y \in g.dirty) IN
    [size |-> g.size, cursor |-> g.cursor,
     changed |-> MapSeq(ys, LAMBDA y : RowOf(y, g.cells[y]))]
Clean(g) == [g EXCEPT !.full = FALSE, !.dirty = {}]

(***************************************************************************)
(* The wire form.  A glyph is a sequence of code points, <<>> a spacer.    *)
(***************************************************************************)
blank == [glyph |-> <<" ">>, style |-> PLAIN]
BlankCells(size) == Filled(Rows(size), Filled(Cols(size), blank))
NewScreen(size) == [size |-> size, cells |-> BlankCells(size), cursor |-> None]

\* The style table of a message: each style once, in order of first use.
Intern(styles) == FoldLeft(LAMBDA acc, s : IF Contains(acc, s) THEN acc ELSE Append(acc, s),
                           <<>>, styles)
IndexIn(table, s) == CHOOSE i \in DOMAIN table : table[i] = s

\* The maximal runs of one style, as <<first, last>>.
Runs(row) ==
    LET starts == SelectSeq([x \in DOMAIN row |-> x],
                            LAMBDA x : x = 1 \/ row[x].style # row[x - 1].style) IN
    [i \in DOMAIN starts |->
        <<starts[i], IF i = Len(starts) THEN Len(row) ELSE starts[i + 1] - 1>>]

RunOf(row, r, table) ==
    LET glyphs == [i \in 1 .. r[2] - r[1] + 1 |-> row[r[1] + i - 1].glyph]
        style == IndexIn(table, row[r[1]].style) IN
    IF \A i \in DOMAIN glyphs : glyphs[i] = glyphs[1]
    THEN [t |-> "fill", style |-> style, glyph |-> glyphs[1], count |-> Len(glyphs)]
    ELSE [t |-> "cells", style |-> style, glyphs |-> glyphs]

from_cells(cells, cursor) ==
    LET table == Intern(FlatMap(cells, LAMBDA row :
                            MapSeq(Runs(row), LAMBDA r : row[r[1]].style))) IN
    [styles |-> table, cursor |-> cursor,
     rows |-> MapSeq(cells, LAMBDA row : MapSeq(Runs(row), LAMBDA r : RunOf(row, r, table)))]

Width(run) == IF run.t = "fill" THEN run.count ELSE Len(run.glyphs)
RowWidth(row) == FoldLeft(LAMBDA n, run : n + Width(run), 0, row)
Rectangular(rows) == \A i, j \in DOMAIN rows : RowWidth(rows[i]) = RowWidth(rows[j])
CursorInside(cursor, size) ==
    cursor = None \/ (cursor[1] <= Cols(size) /\ cursor[2] <= Rows(size))
FrameSize(f) == <<IF f.rows = <<>> THEN 0 ELSE RowWidth(f.rows[1]), Len(f.rows)>>

Expand(run, styles) ==
    LET cell(g) == [glyph |-> g, style |-> styles[run.style]] IN
    IF run.t = "fill" THEN Filled(run.count, cell(run.glyph))
    ELSE MapSeq(run.glyphs, cell)

\* PtyFrame::cells: None for a frame that no grid matches.
Expanded(f) ==
    IF /\ \A y \in DOMAIN f.rows : \A i \in DOMAIN f.rows[y] :
             f.rows[y][i].style \in DOMAIN f.styles
       /\ Rectangular(f.rows) /\ CursorInside(f.cursor, FrameSize(f))
    THEN <<MapSeq(f.rows, LAMBDA row : FlatMap(row, LAMBDA run : Expand(run, f.styles)))>>
    ELSE None

(***************************************************************************)
(* WireScreen::apply.                                                      *)
(***************************************************************************)
\* A row's text split over its clusters: one code point each, the last takes
\* the rest.
split_clusters(text, n) ==
    [i \in 1 .. n |-> IF i = n THEN SubSeq(text, n, Len(text))
                      ELSE IF i <= Len(text) THEN <<text[i]>> ELSE <<>>]

\* The cells one row writes: each glyph at its column, empty glyphs up to the
\* next cluster.
NoSpacers(row, width) ==
    LET glyphs == split_clusters(row.text, Len(row.cols)) IN
    [i \in DOMAIN row.cols |->
        [row |-> row.y, col |-> row.cols[i], glyph |-> glyphs[i], style |-> row.styles[i]]]

apply_row(row, width) ==
    LET glyphs == split_clusters(row.text, Len(row.cols))
        end(i) == IF i = Len(row.cols) \/ row.cols[i + 1] > width THEN width
                  ELSE row.cols[i + 1] - 1 IN
    FlatMap(SelectSeq([i \in DOMAIN row.cols |-> i], LAMBDA i : row.cols[i] <= width),
            LAMBDA i : [k \in 1 .. end(i) - row.cols[i] + 1 |->
                [row |-> row.y, col |-> row.cols[i] + k - 1, style |-> row.styles[i],
                 glyph |-> IF k = 1 THEN glyphs[i] ELSE <<>>]])

\* set_cell: a write of what the mirror already holds is no update.
Changes(s, f) ==
    SelectSeq(FlatMap(SelectSeq(f.changed, LAMBDA r : r.y <= Rows(s.size)),
                      LAMBDA r : apply_row(r, Cols(s.size))),
              LAMBDA w : s.cells[w.row][w.col] # [glyph |-> w.glyph, style |-> w.style])

SetCells(cells, updates, styles) ==
    FoldLeft(LAMBDA acc, u : [acc EXCEPT ![u.row][u.col] =
                                  [glyph |-> u.glyph, style |-> styles[u.style]]],
             cells, updates)

CellsChanged(changes) ==
    LET table == Intern(MapSeq(changes, LAMBDA w : w.style)) IN
    [t |-> "cells", styles |-> table,
     updates |-> MapSeq(changes, LAMBDA w : [w EXCEPT !.style = IndexIn(table, w.style)])]

\* The new screen and the deltas that bring a mirror of the old one to it.
apply(s, f) ==
    LET resized == f.size # s.size
        base == IF resized THEN NewScreen(f.size) ELSE s
        changes == Changes(base, f)
        d == CellsChanged(changes) IN
    [screen |-> [base EXCEPT !.cursor = f.cursor,
                             !.cells = SetCells(@, d.updates, d.styles)],
     deltas |-> (IF resized THEN <<[t |-> "resized", size |-> f.size]>> ELSE <<>>)
                \o (IF changes # <<>> \/ ~resized THEN <<d>> ELSE <<>>)]

\* has_content: a batch whose only delta changes nothing is not published.
has_content(deltas) == \E i \in DOMAIN deltas :
    deltas[i].t = "resized" \/ deltas[i].updates # <<>>

(***************************************************************************)
(* The kernel.                                                             *)
(***************************************************************************)
bounded_grid(size) == /\ Cols(size) \in 1 .. MAX_AXIS /\ Rows(size) \in 1 .. MAX_AXIS
                      /\ Cols(size) * Rows(size) <= MAX_CELLS
duplicate_free(styles) == \A i, j \in DOMAIN styles : styles[i] = styles[j] => i = j

strict_frame(f) ==
    /\ duplicate_free(f.styles)
    /\ \A y \in DOMAIN f.rows : \A i \in DOMAIN f.rows[y] :
        Width(f.rows[y][i]) # 0 /\ f.rows[y][i].style \in DOMAIN f.styles
    /\ Rectangular(f.rows) /\ bounded_grid(FrameSize(f))
    /\ CursorInside(f.cursor, FrameSize(f))

\* The checks of publish_deltas: each delta against the size before it.
Valid(d, size) ==
    IF d.t = "resized" THEN bounded_grid(d.size)
    ELSE /\ duplicate_free(d.styles)
         /\ \A i \in DOMAIN d.updates :
             LET u == d.updates[i] IN
             /\ u.style \in DOMAIN d.styles
             /\ u.row <= Rows(size) /\ u.col <= Cols(size)
             /\ Len(u.glyph) <= MAX_GLYPH
SizeBefore(deltas, i, size) ==
    LET before == SelectSeq(SubSeq(deltas, 1, i - 1), LAMBDA d : d.t = "resized") IN
    IF before = <<>> THEN size ELSE Last(before).size
Acceptable(deltas, size) ==
    \A i \in DOMAIN deltas : Valid(deltas[i], SizeBefore(deltas, i, size))

ApplyDelta(m, d) == IF d.t = "resized" THEN NewScreen(d.size)
                    ELSE [m EXCEPT !.cells = SetCells(@, d.updates, d.styles)]
publish_deltas(deltas) ==
    IF Acceptable(deltas, mirror.size)
    THEN mirror' = FoldLeft(ApplyDelta, mirror, deltas) /\ UNCHANGED refused
    ELSE refused' = TRUE /\ UNCHANGED mirror

(***************************************************************************)
(* The session.                                                            *)
(***************************************************************************)
Init ==
    \E size \in {s \in Sizes : Resizable(s)} :
        /\ grid = NewGrid(size) /\ win = size
        /\ rec = NewRecording
        /\ screen = NewScreen(size)
        /\ mirror = [screen EXCEPT !.cells = Expanded(from_cells(screen.cells, None))[1]]
        /\ refused = FALSE /\ past = <<>> /\ lost = FALSE /\ apart = FALSE /\ faults = 0

\* A publisher whose publish was refused as invalid has given up.
Publish(deltas) == IF refused THEN UNCHANGED <<mirror, refused>> ELSE publish_deltas(deltas)

\* What every recorded change does: number it, take the frame, publish.
Recorded(event, g, always) ==
    LET out == apply(screen, frame(g)) IN
    /\ rec.next < MAX_EVENTS
    /\ rec' = record(rec, event) /\ grid' = Clean(g) /\ past' = Append(past, Shown(g))
    /\ screen' = out.screen
    /\ IF always \/ has_content(out.deltas) THEN Publish(out.deltas)
       ELSE UNCHANGED <<mirror, refused>>

Output(e) ==
    /\ Paintable(grid, e)
    /\ Recorded([t |-> "output", paint |-> e], Written(grid, e), FALSE)
    /\ UNCHANGED <<win, lost, apart, faults>>

\* Session::resize: the grid first, then the device unless it is there already.
ResizeAccepted(size) ==
    /\ Resizable(size)
    /\ Recorded([t |-> "resize", size |-> size], Resized(grid, size), TRUE)
    /\ win' = size /\ apart' = FALSE
    /\ UNCHANGED <<lost, faults>>

Fault == faults < MAX_FAULTS /\ faults' = faults + 1
Untouched == UNCHANGED <<rec, screen, mirror, refused, past>>

\* The device refuses: the grid goes back to what the device holds, unless the
\* read or the reflow fails as well.
ResizeFailed(size) ==
    /\ Resizable(size) /\ win # size /\ Fault /\ Untouched
    /\ lost' = TRUE /\ UNCHANGED win
    /\ LET g == Resized(grid, size) IN
       \/ /\ Resizable(win) /\ grid' = Resized(g, win) /\ apart' = FALSE
       \/ /\ grid' = g /\ apart' = TRUE

\* tcsetwinsize by the child, which no one is told of.
ChildResize(size) == /\ Fault /\ Untouched /\ win' = size /\ apart' = TRUE
                     /\ UNCHANGED <<grid, lost>>

\* Session::pull_size: the grid adopts the device's size.
pull_size ==
    /\ win # grid.size /\ Resizable(win) /\ Untouched
    /\ grid' = Resized(grid, win) /\ lost' = TRUE /\ apart' = FALSE
    /\ UNCHANGED <<win, faults>>

\* A failed child is restarted on a fresh terminal of the mirror's size.
Respawn ==
    LET size == screen.size IN
    /\ Fault /\ rec.next < MAX_EVENTS
    /\ grid' = NewGrid(size) /\ win' = size /\ apart' = FALSE /\ lost' = TRUE
    /\ rec' = record(rec, [t |-> "resize", size |-> size])
    /\ past' = Append(past, Shown(NewGrid(size)))
    /\ screen' = NewScreen(size)
    /\ Publish(<<[t |-> "resized", size |-> size]>>)

Next ==
    \/ \E e \in Paints : Output(e)
    \/ \E s \in Sizes : ResizeAccepted(s) \/ ResizeFailed(s) \/ ChildResize(s)
    \/ pull_size \/ Respawn

Spec == Init /\ [][Next]_vars

(***************************************************************************)
(* Properties.                                                             *)
(***************************************************************************)
Spacer(c) == c.wide \in {"tail", "head"}
Printed(c) == IF Spacer(c) THEN <<>> ELSE IF c.text = <<>> THEN <<" ">> ELSE c.text
Simple(row) == \A x \in DOMAIN row : Len(row[x].text) < 2

ShowsRow(cells, row) ==
    /\ FlatMap(cells, LAMBDA c : c.glyph) = FlatMap(row, Printed)
    /\ Simple(row) => \A x \in DOMAIN row :
        /\ cells[x].glyph = Printed(row[x])
        /\ ~Spacer(row[x]) => cells[x].style = row[x].style

\* Once a frame is taken, the wire mirror shows the grid cell by cell: a wide
\* glyph's second column and the spacer of a wrapped one are empty glyphs, and
\* a row with multi-codepoint clusters still spells the same text.  The snapshot
\* of the mirror passes the kernel's strict decode and expands to the mirror,
\* and the kernel's mirror, fed only with the deltas, is the same screen.
ScreensAgree ==
    LET f == from_cells(screen.cells, screen.cursor) IN
    /\ ~grid.full /\ grid.dirty = {} =>
        screen.size = grid.size /\ \A y \in DOMAIN grid.cells : ShowsRow(screen.cells[y], grid.cells[y])
    /\ strict_frame(f) /\ Expanded(f) = <<screen.cells>>
    /\ ~refused => mirror.size = screen.size /\ mirror.cells = screen.cells

\* A client that was current at any earlier event, whether its gap is still
\* retained or not, is brought to the live screen by catch_up, and so it is from
\* a recording decoded from the bytes of this one; a cut copy of the bytes never
\* decodes into anything but a prefix of the stream.
RecordingResumes ==
    LET b == encode(rec) IN
    /\ ~lost => \A s \in DOMAIN past, r \in {rec, decode(b)} :
        LET out == catch_up(r, grid, restore(past[s]), s - 1) IN
        Shown(out.grid) = Shown(grid) /\ out.at = rec.next - 1
    /\ \A n \in 0 .. Len(b) :
        LET d == decode(SubSeq(b, 1, n)) IN
        "entries" \in DOMAIN d => IsPrefix(d.entries, rec.entries)

\* The grid reflows for the size the device holds, except after the child moved
\* the device by itself or a rollback failed on top of a failed resize.
HalvesAgree == grid.size = win \/ apart

\* A glyph is one grapheme cluster, so the kernel's bound on a glyph never
\* touches a real screen: no publish of the host is refused.
BoundNeverTouched == ~refused
====
