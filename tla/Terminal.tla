------------------------------ MODULE Terminal ------------------------------
(***************************************************************************)
(* The framebuffer terminal (terminal.c): a ring of text rows, a           *)
(* backbuffer drawn incrementally, the dirty rows that a flush copies to   *)
(* video memory, nested batches with a postponed scroll, presentation      *)
(* deferred to a worker, the cursor and its blinking, an overlay and the   *)
(* alternate screen.  Every operation runs under terminal_lock, so the     *)
(* terminal is one record and an operation is a function on it.  A glyph   *)
(* stands for a character with its colours, Blank for none; a drawn cell is *)
(* a glyph with or without the inverse colours of the cursor.              *)
(***************************************************************************)
EXTENDS Integers, FiniteSets, Sequences, SequencesExt

CONSTANTS
    TermRows,      \* visible_rows
    TermCols,      \* visible_cols
    RingRows,      \* TERMINAL_BUFFER_ROWS
    Glyph,         \* what can be written to a cell, a blank excluded
    MaxDepth,      \* bound on nested batches
    MaxTermOps     \* bound on the operations of a behaviour

TerminalAssumption == TermRows >= 2 /\ RingRows >= TermRows /\ TermCols >= 1 /\ " " \notin Glyph

VARIABLES term, termOps

terminalVars == <<term, termOps>>

ScreenRows == 0..TermRows - 1
TextCols == 0..TermCols - 1
Blank == " "
BlankRow == [c \in TextCols |-> Blank]
Plain(g) == [glyph |-> g, inverse |-> FALSE]
BlankPixels == [c \in TextCols |-> Plain(Blank)]
BlankRing == [p \in 0..RingRows - 1 |-> BlankRow]

phys_to_screen_row(t, p) == (p - t.top + RingRows) % RingRows
screen_to_phys_row(t, s) == (t.top + s) % RingRows
terminal_cell_at(t, p, c) == IF c < TermCols THEN t.cells[t.screen][p][c] ELSE Blank

-----------------------------------------------------------------------------
\* Drawing: every helper marks the rows it touches.

\* The rows between the lowest and the highest marked row.
Hull(rows) == {s \in ScreenRows : (\E r \in rows : r <= s) /\ (\E r \in rows : r >= s)}
MarkDirty(t, rows) == [t EXCEPT !.dirty = Hull(@ \cup rows)]

\* Rows of the backbuffer change: video memory is behind until they are flushed.
Drawn(t, rows, fb) == [t EXCEPT !.fb = fb, !.behind = @ \cup rows]

\* A cursor behind the last column is drawn in the margin, which is not modelled.
DrawCell(t, s, c, pixel) ==
    IF s >= TermRows THEN t
    ELSE IF c >= TermCols THEN MarkDirty(t, {s})
    ELSE MarkDirty(Drawn(t, {s}, [t.fb EXCEPT ![s][c] = pixel]), {s})

terminal_render_cell(t, p, c) ==
    DrawCell(t, phys_to_screen_row(t, p), c, Plain(terminal_cell_at(t, p, c)))

\* terminal_render_screen_row() for several rows.
RenderRows(t, rows) ==
    MarkDirty(Drawn(t, rows, [s \in ScreenRows |->
        IF s \in rows
        THEN [c \in TextCols |-> Plain(terminal_cell_at(t, screen_to_phys_row(t, s), c))]
        ELSE t.fb[s]]), rows)

terminal_flush_dirty(t) ==
    [t EXCEPT !.behind = @ \ t.dirty, !.dirty = {}]

OverlayRows(t) == IF t.overlay = 0 THEN {} ELSE {s \in ScreenRows : s = t.overlay}
OverlayPixels == [c \in TextCols |-> [glyph |-> "overlay", inverse |-> FALSE]]
terminal_overlay_render(t) ==
    MarkDirty(Drawn(t, OverlayRows(t), [s \in ScreenRows |->
        IF s \in OverlayRows(t) THEN OverlayPixels ELSE t.fb[s]]), OverlayRows(t))

terminal_cursor_show(t) ==
    LET s == phys_to_screen_row(t, t.row) IN
    IF ~t.enabled \/ t.visible \/ s >= TermRows THEN t
    ELSE [DrawCell(t, s, t.col, [glyph |-> terminal_cell_at(t, t.row, t.col), inverse |-> TRUE])
          EXCEPT !.visible = TRUE]

terminal_cursor_hide(t) ==
    IF ~t.visible THEN t
    ELSE [terminal_render_cell(t, t.row, t.col) EXCEPT !.visible = FALSE]

\* terminal_redraw_locked(), the canonical renderer.
terminal_redraw(t) ==
    terminal_flush_dirty(terminal_overlay_render(terminal_cursor_show(
        RenderRows(terminal_cursor_hide(t), ScreenRows))))

FlushOutsideBatch(t) == IF t.batch THEN t ELSE terminal_flush_dirty(t)
ShowOutsideBatch(t) == IF t.batch THEN t ELSE terminal_flush_dirty(terminal_cursor_show(t))

terminal_overlay_clear(t, flush) ==
    IF t.overlay = 0 THEN t
    ELSE LET shown == terminal_cursor_show(
                 RenderRows([terminal_cursor_hide(t) EXCEPT !.overlay = 0], OverlayRows(t)))
         IN  IF flush THEN FlushOutsideBatch(shown) ELSE shown

-----------------------------------------------------------------------------
\* Output.

\* The backbuffer moves up by n rows; the rows that come in are filled.
CopyRowsUp(fb, n) == [s \in ScreenRows |-> IF s + n < TermRows THEN fb[s + n] ELSE BlankPixels]

\* A mutant: after a scroll only the new row is marked dirty.
ScrollMarksLast(t) ==
    LET top == (t.top + 1) % RingRows
        row == (top + TermRows - 1) % RingRows
        scrolled == [t EXCEPT !.top = top, !.row = row, !.cells[t.screen][row] = BlankRow]
    IN  IF t.batch THEN [scrolled EXCEPT !.pending = IF @ < TermRows THEN @ + 1 ELSE @]
        ELSE MarkDirty(Drawn(scrolled, ScreenRows, CopyRowsUp(t.fb, 1)), {TermRows - 1})
\* pending_scroll_rows only matters up to visible_rows and stops there.
terminal_scroll(t) ==
    LET top == (t.top + 1) % RingRows
        row == (top + TermRows - 1) % RingRows
        scrolled == [t EXCEPT !.top = top, !.row = row, !.cells[t.screen][row] = BlankRow]
    IN  IF t.batch THEN [scrolled EXCEPT !.pending = IF @ < TermRows THEN @ + 1 ELSE @]
        ELSE MarkDirty(Drawn(scrolled, ScreenRows, CopyRowsUp(t.fb, 1)), ScreenRows)

\* A mutant: the row below the cursor is taken without looking at the screen.
NewlineUnbounded(t) == [t EXCEPT !.col = 0, !.row = (@ + 1) % RingRows]
terminal_newline(t) ==
    IF phys_to_screen_row(t, t.row) >= TermRows - 1
    THEN terminal_scroll([t EXCEPT !.col = 0])
    ELSE [t EXCEPT !.col = 0, !.row = (@ + 1) % RingRows]

terminal_clear(t) ==
    LET hidden == terminal_cursor_hide(terminal_overlay_clear(t, FALSE)) IN
    ShowOutsideBatch([hidden EXCEPT
        !.top = 0, !.row = 0, !.col = 0, !.pending = 0, !.cells[t.screen] = BlankRing,
        !.fb = [s \in ScreenRows |-> BlankPixels], !.behind = ScreenRows,
        !.visible = FALSE, !.dirty = ScreenRows])

WriteGlyph(t, g) ==
    LET at == IF t.col >= TermCols THEN terminal_newline(t) ELSE t
        set == [at EXCEPT !.cells[t.screen][at.row][at.col] = g]
        drawn == IF set.batch /\ set.pending > 0 THEN set
                 ELSE terminal_render_cell(set, set.row, set.col)
    IN  [drawn EXCEPT !.col = @ + 1]

\* A character, or the end of an escape sequence that clears the screen.
terminal_put_codepoint(t, x) ==
    LET hidden == IF t.batch THEN t ELSE terminal_cursor_hide(t) IN
    ShowOutsideBatch(
        CASE x = "nl" -> terminal_newline(hidden)
          [] x = "cr" -> [hidden EXCEPT !.col = 0]
          [] x = "bs" -> [hidden EXCEPT !.col = IF @ > 0 THEN @ - 1 ELSE 0]
          [] x = "clear" -> terminal_clear(hidden)
          [] OTHER -> WriteGlyph(hidden, x))

-----------------------------------------------------------------------------
\* Batches and presentation.

terminal_begin_batch(t) ==
    [IF t.depth = 0 THEN terminal_cursor_hide(t) ELSE t EXCEPT !.depth = @ + 1, !.batch = TRUE]

terminal_present(t) ==
    LET p == [t EXCEPT !.presenting = FALSE, !.pending = 0] IN
    IF t.depth # 0 THEN t
    ELSE IF t.pending = 0
         THEN terminal_flush_dirty(terminal_overlay_render(terminal_cursor_show(p)))
    ELSE IF t.pending < TermRows
         THEN LET moved == RenderRows(Drawn(p, ScreenRows, CopyRowsUp(t.fb, t.pending)),
                                      TermRows - t.pending .. TermRows - 1)
              IN  terminal_flush_dirty(terminal_overlay_render(terminal_cursor_show(
                      MarkDirty(moved, ScreenRows))))
    ELSE terminal_redraw(p)

terminal_end_batch(t, defer) ==
    LET depth == IF t.depth > 0 THEN t.depth - 1 ELSE 0
        ended == [t EXCEPT !.depth = depth, !.batch = (depth # 0) /\ @,
                           !.presenting = @ \/ defer]
    IN  IF depth # 0 \/ (defer /\ t.worker) THEN ended ELSE terminal_present(ended)

terminal_force_end_batch(t) ==
    IF ~t.batch /\ ~t.presenting THEN t
    ELSE terminal_present([t EXCEPT !.depth = 0, !.batch = FALSE])

\* terminal_write_bytes(), terminal_write() and the coloured writes: a text in a
\* batch of its own.
WriteText(t, text, defer) ==
    terminal_end_batch(
        FoldLeft(terminal_put_codepoint, terminal_begin_batch(terminal_overlay_clear(t, TRUE)), text),
        defer)

-----------------------------------------------------------------------------
TerminalInit ==
  /\ termOps = 0
  /\ \E worker \in BOOLEAN : term = terminal_clear(
        [top |-> 0, row |-> 0, col |-> 0, screen |-> "normal",
         cells |-> [normal |-> BlankRing, alternate |-> BlankRing],
         fb |-> [s \in ScreenRows |-> BlankPixels], behind |-> ScreenRows,
         dirty |-> {}, visible |-> FALSE, enabled |-> TRUE, overlay |-> 0,
         depth |-> 0, batch |-> FALSE, pending |-> 0, presenting |-> FALSE, worker |-> worker,
         saved |-> <<>>])

Codepoint == Glyph \cup {"nl", "cr", "bs", "clear"}

terminal_putc == \E x \in Codepoint :
    term' = terminal_put_codepoint(terminal_overlay_clear(term, TRUE), x)

terminal_write == \E x \in Codepoint, defer \in BOOLEAN : term' = WriteText(term, <<x>>, defer)

terminal_begin_batch_for_process == /\ term.depth < MaxDepth
                                    /\ term' = terminal_begin_batch(terminal_overlay_clear(term, TRUE))
terminal_end_batch_for_process == term' = terminal_end_batch(term, FALSE)
terminal_force_end == term' = terminal_force_end_batch(term)

terminal_presentation_start == ~term.worker /\ term' = [term EXCEPT !.worker = TRUE]
terminal_presentation_worker == /\ term.worker /\ term.presenting /\ term.depth = 0
                                /\ term' = terminal_present(term)

terminal_cursor_blink_poll ==
    /\ term.enabled /\ ~term.batch
    /\ term' = terminal_flush_dirty(IF term.visible THEN terminal_cursor_hide(term)
                                                    ELSE terminal_cursor_show(term))

\* terminal_cursor_enable() and _disable() leave the flush to whoever comes next.
terminal_cursor_enable == term' = terminal_cursor_show([term EXCEPT !.enabled = TRUE])
terminal_cursor_disable == term' = [terminal_cursor_hide(term) EXCEPT !.enabled = FALSE]

terminal_set_cursor_visible(on) ==
    LET t == terminal_overlay_clear(term, TRUE) IN
    term' = FlushOutsideBatch(IF on THEN terminal_cursor_show([t EXCEPT !.enabled = TRUE])
                                    ELSE [terminal_cursor_hide(t) EXCEPT !.enabled = FALSE])

terminal_move_cursor(s, c) ==
    LET t == terminal_cursor_hide(terminal_overlay_clear(term, TRUE)) IN
    term' = FlushOutsideBatch(terminal_cursor_show([t EXCEPT !.row = screen_to_phys_row(t, s), !.col = c]))

\* terminal_clear_current_line(), _to_end() and terminal_clear_cells(): columns
\* of one row.
terminal_clear_cells(s, first, last) ==
    LET t == terminal_cursor_hide(terminal_overlay_clear(term, TRUE))
        p == screen_to_phys_row(t, s)
        cleared == [t EXCEPT !.cells[t.screen][p] = [c \in TextCols |-> IF c \in first..last THEN Blank ELSE @[c]]]
    IN  /\ first <= last
        /\ term' = FlushOutsideBatch(terminal_cursor_show(RenderRows(cleared, {s})))

terminal_overlay_set_for_process ==
    LET first == phys_to_screen_row(term, term.row) + 1
        t == terminal_cursor_hide(terminal_overlay_clear(term, FALSE)) IN
    /\ first < TermRows
    /\ term' = FlushOutsideBatch(terminal_cursor_show(terminal_overlay_render([t EXCEPT !.overlay = first])))
terminal_overlay_clear_for_process == term' = terminal_overlay_clear(term, TRUE)

terminal_save_normal_state(t) ==
    <<[top |-> t.top, row |-> t.row, col |-> t.col, visible |-> t.visible, enabled |-> t.enabled]>>

terminal_alternate_enter ==
    LET t == terminal_force_end_batch(term) IN
    /\ term.screen = "normal"
    /\ term' = terminal_clear([terminal_cursor_hide(t) EXCEPT
                  !.screen = "alternate", !.saved = terminal_save_normal_state(t),
                  !.top = 0, !.row = 0, !.col = 0, !.visible = FALSE, !.enabled = TRUE,
                  !.pending = 0, !.dirty = {}])

\* The alternate ring is cleared here in the model instead of at the next entry:
\* nothing reads it in between.
\* A mutant: the column of the cursor is not restored.
RestoreForgetsColumn(t) ==
    LET s == t.saved[1]
        drawn == terminal_redraw([t EXCEPT
                    !.screen = "normal", !.saved = <<>>, !.top = s.top, !.row = s.row, !.col = 0,
                    !.enabled = s.enabled, !.visible = FALSE, !.pending = 0, !.depth = 0,
                    !.batch = FALSE, !.dirty = {}, !.cells.alternate = BlankRing])
    IN  IF s.enabled /\ ~s.visible THEN terminal_flush_dirty(terminal_cursor_hide(drawn)) ELSE drawn
terminal_restore_normal_state(t) ==
    LET s == t.saved[1]
        drawn == terminal_redraw([t EXCEPT
                    !.screen = "normal", !.saved = <<>>, !.top = s.top, !.row = s.row, !.col = s.col,
                    !.enabled = s.enabled, !.visible = FALSE, !.pending = 0, !.depth = 0,
                    !.batch = FALSE, !.dirty = {}, !.cells.alternate = BlankRing])
    IN  IF s.enabled /\ ~s.visible THEN terminal_flush_dirty(terminal_cursor_hide(drawn)) ELSE drawn

terminal_alternate_leave ==
    /\ term.screen = "alternate"
    /\ term' = terminal_restore_normal_state(terminal_cursor_hide(
                   terminal_overlay_clear(terminal_force_end_batch(term), FALSE)))

-----------------------------------------------------------------------------
TerminalStep ==
    \/ terminal_putc \/ terminal_write
    \/ terminal_begin_batch_for_process \/ terminal_end_batch_for_process \/ terminal_force_end
    \/ terminal_presentation_start \/ terminal_presentation_worker
    \/ terminal_cursor_blink_poll \/ terminal_cursor_enable \/ terminal_cursor_disable
    \/ \E on \in BOOLEAN : terminal_set_cursor_visible(on)
    \/ \E s \in ScreenRows, c \in TextCols : terminal_move_cursor(s, c)
    \/ \E s \in ScreenRows, first, last \in TextCols : terminal_clear_cells(s, first, last)
    \/ terminal_overlay_set_for_process \/ terminal_overlay_clear_for_process
    \/ terminal_alternate_enter \/ terminal_alternate_leave

TerminalNext == termOps < MaxTermOps /\ termOps' = termOps + 1 /\ TerminalStep

-----------------------------------------------------------------------------
\* The cursor is always on a visible row of the ring, whatever scrolls, clears,
\* restores and batches came before: terminal_newline() and the overlay count on it.
CursorOnScreen == phys_to_screen_row(term, term.row) < TermRows

\* A row that was drawn and not yet copied to video memory is marked dirty, so the
\* next flush shows it: no drawing is lost by the incremental renderer.
NothingLost == term.behind \subseteq term.dirty
=============================================================================
