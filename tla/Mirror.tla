------------------------------- MODULE Mirror -------------------------------
(***************************************************************************)
(* Selecting text on a phone (site/touch-select.mjs): the transparent DOM  *)
(* mirror of the terminal's rows, frozen and anchored to buffer rows while *)
(* the platform holds a selection over it, and the refits that wait for    *)
(* the release.  The text of a line is known by the output that last       *)
(* changed it.  The scrollback is never full here, so lines keep their     *)
(* numbers.                                                                *)
(***************************************************************************)
EXTENDS Integers, FiniteSets, FiniteSetsExt

CONSTANTS Heights,        \* the rows the terminal can be fitted to
          MaxLines,       \* bound: lines in the buffer
          MaxOutputs,     \* bound: outputs that change a line
          RATCHET_LINES

ASSUME MirrorAssumption ==
  /\ Heights \subseteq 1..MaxLines /\ Heights # {} /\ MaxLines \in Nat
  /\ MaxOutputs \in Nat /\ RATCHET_LINES \in Nat \ {0}

VARIABLES termRows,   \* term.rows
          boxRows,    \* the rows that fit the terminal's box
          lines,      \* lines in the buffer: scrollback and screen
          viewportY,  \* the buffer line on top of the viewport
          text,       \* per buffer line: the output that is on it
          mirror,     \* rows: per mirrored buffer line, the text of its div
          sheetTop,   \* sheet.style.top, in cells
          raf,        \* a frame is pending
          frozen,
          focus,      \* external: the selection's moving end, a buffer line; or None
          changed,    \* external: a selectionchange is queued
          lastFocus,  \* lastFocusDiv
          deferred,   \* guardRefit has swallowed a refit
          refresh     \* refreshTimer: the handles are to be re-asserted

mvars == <<termRows, boxRows, lines, viewportY, text, mirror, sheetTop, raf, frozen,
           focus, changed, lastFocus, deferred, refresh>>
buffer == <<lines, text>>
platform == <<focus, changed>>

None == -1
Lines == 0..MaxLines - 1
baseY == lines - termRows
Top == Min(DOMAIN mirror)
Visible == viewportY..viewportY + termRows - 1

\* sync, on the buffer and the viewport there are.
Mirrored(y, rows, t) == [line \in y..y + rows - 1 |-> t[line]]

MInit ==
  /\ termRows \in Heights /\ boxRows = termRows
  /\ lines = termRows /\ viewportY = 0
  /\ text = [line \in Lines |-> 0]
  /\ mirror = Mirrored(0, termRows, text) /\ sheetTop = 0
  /\ raf = FALSE /\ frozen = FALSE
  /\ focus = None /\ changed = FALSE /\ lastFocus = None /\ deferred = FALSE
  /\ refresh = FALSE

\* reAnchor: the frozen mirror grows at the edge the viewport y uncovers, and only there.
Revealed(y) ==
  [line \in Min({Top, y})..Max(DOMAIN mirror \cup {y + termRows - 1}) |->
     IF line \in DOMAIN mirror THEN mirror[line] ELSE text'[line]]

\* The viewport moves (scrollLines, a pan, output at the bottom): onScroll re-anchors a
\* frozen mirror, and the sheet is offset by what the viewport has walked away.
ScrolledTo(y) ==
  /\ viewportY' = y
  /\ raf' = TRUE
  /\ IF frozen /\ y # viewportY
     THEN mirror' = Revealed(y) /\ sheetTop' = Min(DOMAIN mirror') - y /\ refresh' = TRUE
     ELSE UNCHANGED <<mirror, sheetTop, refresh>>

Pan ==
  /\ \E y \in 0..baseY : y # viewportY /\ UNCHANGED buffer /\ ScrolledTo(y)
  /\ UNCHANGED <<termRows, boxRows, frozen, lastFocus, deferred, platform>>

\* Output rewrites a line of the screen, or adds one; a viewport at the bottom follows.
Output ==
  \E o \in 1..MaxOutputs :
    /\ \A line \in Lines : text[line] < o
    /\ o = 1 \/ \E line \in Lines : text[line] = o - 1
    /\ \/ /\ \E line \in baseY..lines - 1 : text' = [text EXCEPT ![line] = o]
          /\ raf' = TRUE
          /\ UNCHANGED <<lines, viewportY, mirror, sheetTop, refresh>>
       \/ /\ lines < MaxLines
          /\ lines' = lines + 1
          /\ text' = [text EXCEPT ![lines] = o]
          /\ ScrolledTo(IF viewportY = baseY THEN viewportY + 1 ELSE viewportY)
    /\ UNCHANGED <<termRows, boxRows, frozen, lastFocus, deferred, platform>>

\* Mutant of SyncFrame: whatever is held.
SyncFrameAnyway ==
  /\ raf
  /\ raf' = FALSE
  /\ mirror' = Mirrored(viewportY, termRows, text) /\ sheetTop' = 0
  /\ UNCHANGED <<termRows, boxRows, viewportY, frozen, lastFocus, deferred, refresh, buffer, platform>>

\* schedule's frame: sync, which leaves a frozen mirror alone.
SyncFrame ==
  /\ raf
  /\ raf' = FALSE
  /\ IF frozen THEN UNCHANGED <<mirror, sheetTop>>
     ELSE mirror' = Mirrored(viewportY, termRows, text) /\ sheetTop' = 0
  /\ UNCHANGED <<termRows, boxRows, viewportY, frozen, lastFocus, deferred, refresh, buffer, platform>>
-----------------------------------------------------------------------------
\* fit.fit(): the terminal takes the box's rows, from the scrollback first; onResize
\* rebuilds as many divs, whose text the next frame brings.
Fitted ==
  /\ termRows' = boxRows'
  /\ lines' = Max({lines, boxRows'})
  /\ viewportY' = Min({viewportY, lines' - boxRows'})
  /\ mirror' = [line \in Top..Top + boxRows' - 1 |-> IF line \in DOMAIN mirror THEN mirror[line] ELSE None]
  /\ raf' = TRUE
  /\ UNCHANGED <<text, sheetTop>>

Kept == UNCHANGED <<termRows, viewportY, mirror, sheetTop, buffer>>

\* initViewportFit: the soft keyboard comes or goes, the page is resized, and the box with it.
ViewportFit == boxRows' \in Heights \ {boxRows}

\* The box has changed: a refit, unless a selection is held.
BoxChanges ==
  /\ ViewportFit
  /\ IF frozen
     THEN deferred' = TRUE /\ Kept /\ UNCHANGED raf
     ELSE Fitted /\ UNCHANGED deferred
  /\ UNCHANGED <<frozen, lastFocus, refresh, platform>>

\* Mutant of FlushRefits: what was swallowed stays swallowed.
FlushRefitsNot == UNCHANGED deferred /\ Kept /\ UNCHANGED boxRows

\* flushRefits: once, however many were swallowed.
FlushRefits ==
  /\ deferred' = FALSE
  /\ UNCHANGED boxRows
  /\ IF deferred THEN Fitted ELSE Kept

\* External: a long press, a drag of a handle, a tap elsewhere; the event follows.
Select ==
  /\ \E line \in DOMAIN mirror \cap Visible : focus = None /\ focus' = line
  /\ changed' = TRUE
  /\ UNCHANGED <<termRows, boxRows, viewportY, mirror, sheetTop, raf, frozen, lastFocus, deferred, refresh,
                 buffer>>

DragHandle ==
  /\ frozen /\ focus # None
  /\ \E line \in DOMAIN mirror \ {focus} : focus' = line
  /\ changed' = TRUE
  /\ UNCHANGED <<termRows, boxRows, viewportY, mirror, sheetTop, raf, frozen, lastFocus, deferred, refresh,
                 buffer>>

Release ==
  /\ focus # None
  /\ focus' = None
  /\ changed' = TRUE
  /\ UNCHANGED <<termRows, boxRows, viewportY, mirror, sheetTop, raf, frozen, lastFocus, deferred, refresh,
                 buffer>>

\* ratchet: a handle that has changed rows and is on the edge, or past it, takes the view
\* along: a crawl on the edge, the whole overshoot past it, a screenful at most.
Step ==
  LET view == focus - viewportY
      last == termRows - 1
  IN IF lastFocus \in {None, focus} THEN 0
     ELSE IF view < 0 THEN Max({view, -termRows})
     ELSE IF view = 0 THEN -RATCHET_LINES
     ELSE IF view = last THEN RATCHET_LINES
     ELSE IF view > last THEN Min({view - last, termRows})
     ELSE 0

Clamped(y) == Max({0, Min({baseY, y})})

\* Mutant of CatchUp: the frames the freeze has skipped are not made up for.
CatchUpNot == UNCHANGED raf

\* schedule, on release.
CatchUp == raf' = TRUE

\* selectionchange: held, released, or still held.
Held ==
  /\ changed /\ focus # None
  /\ changed' = FALSE
  /\ frozen' = TRUE
  /\ lastFocus' = focus
  /\ \/ UNCHANGED <<viewportY, mirror, sheetTop, raf, refresh>>
     \/ /\ frozen /\ UNCHANGED text /\ Step # 0
        /\ ScrolledTo(Clamped(viewportY + Step))
  /\ UNCHANGED <<termRows, boxRows, focus, deferred, buffer>>

Released ==
  /\ changed /\ focus = None
  /\ changed' = FALSE
  /\ frozen' = FALSE
  /\ IF frozen
     THEN lastFocus' = None /\ CatchUp /\ FlushRefits
     ELSE UNCHANGED <<termRows, boxRows, viewportY, mirror, sheetTop, raf, lastFocus, deferred, buffer>>
  /\ UNCHANGED <<focus, refresh>>

\* refreshHandles, the reveals having gone quiet: the same selection is set once more, so
\* that its change is an event.
RefreshHandles ==
  /\ refresh
  /\ refresh' = FALSE
  /\ changed' = (changed \/ (frozen /\ focus # None))
  /\ UNCHANGED <<termRows, boxRows, viewportY, mirror, sheetTop, raf, frozen, focus, lastFocus,
                 deferred, buffer>>

MNext ==
  \/ Pan \/ Output \/ SyncFrame \/ BoxChanges
  \/ Select \/ DragHandle \/ Release \/ Held \/ Released \/ RefreshHandles

MSpec == MInit /\ [][MNext]_mvars
-----------------------------------------------------------------------------
\* "the frozen mirror may only GROW, at its edges, and never be rewritten"
\* (touch-select.mjs): a Range's end lives in a row's text, whatever output, frames,
\* scrolling and refits do meanwhile.
HeldIntact ==
  [][frozen /\ frozen' => \A line \in DOMAIN mirror :
       line \in DOMAIN mirror' /\ mirror'[line] = mirror[line]]_mvars

\* "replays them on release" (guardRefit): no refit is lost, so with nothing held the
\* terminal has the size of its box.
RefitsReplayed == ~frozen => ~deferred /\ termRows = boxRows

\* "catch up on everything the freeze skipped" (selectionchange): with nothing held, every
\* visible line is mirrored over its own glyphs as it reads now, or a frame is on its way.
MirrorTrue ==
  ~frozen /\ ~raf => mirror = Mirrored(viewportY, termRows, text) /\ sheetTop = 0
-----------------------------------------------------------------------------
\* The inductive invariant of the proofs.
MTypeOK ==
  /\ termRows \in Heights /\ boxRows \in Heights
  /\ lines \in Int /\ viewportY \in Int /\ focus \in Int

\* The mirror is a run of adjacent buffer lines, and at least one.
Adjacent == \E a, b \in Int : a <= b /\ DOMAIN mirror = a..b

\* A refit waits only for a release, and whatever does not wait has been done.
RefitsWait == (deferred => frozen) /\ (~deferred => termRows = boxRows)

MInd == MTypeOK /\ Adjacent /\ RefitsWait
=============================================================================
