------------------------------ MODULE Gestures ------------------------------
(***************************************************************************)
(* Fingers on a phone (site/mobile.mjs): the sticky modifiers of the key   *)
(* strip and the input they apply to, the press of a key, and the drag     *)
(* that scrolls the terminal or is forwarded to the application.  Travel   *)
(* is counted in cells.                                                    *)
(***************************************************************************)
EXTENDS Integers, FiniteSetsExt

CONSTANTS MaxBase,    \* bound: lines of scrollback, where it starts to trim
          Reach       \* bound: cells a finger travels

ASSUME GesturesAssumption ==
  MaxBase \in Nat /\ Reach \in Nat

VARIABLES mods,      \* Ctrl and Alt, for the next key
          press,      \* the key whose press is in flight (held), or NoKeyHeld
          strip,      \* external: the finger on the strip: "up", "still", "moved"
          drag,       \* the finger on the terminal
          viewport, base,   \* the scrollback, in lines
          app,        \* external: it "tracks" the mouse, has the alternate "screen", or neither
          wentTo       \* history: where the drag's lines have gone

hvars == <<mods, press, strip, drag, viewport, base, app, wentTo>>
keys == <<mods, press, strip>>
view == <<viewport, base, app>>

NoKeyHeld == "none"
Modifiers == {"ctrl", "alt"}
Keys == Modifiers \cup {"tab"}
NoDrag == [on |-> FALSE, at |-> 0, thumb |-> FALSE, pc |-> "tap", forward |-> FALSE,
           applied |-> 0, emitted |-> 0]

HInit ==
  /\ mods = {} /\ press = NoKeyHeld /\ strip = "up"
  /\ drag = NoDrag /\ viewport = 0 /\ base = 0 /\ app = "none" /\ wentTo = {}
-----------------------------------------------------------------------------
(* Input. *)

\* transformInput: any chunk but a report consumes the arming.
Transformed(kind) == IF kind = "report" THEN mods ELSE {}

Chunk(kind) == mods' = Transformed(kind)

\* The soft keyboard, or a paste.
SoftKey == Chunk("key") /\ UNCHANGED <<press, strip, drag, wentTo, view>>

\* The terminal answers the application: a mouse or focus report, a position, its name.
TerminalSends ==
  /\ \E kind \in {"report", "answer"} : Chunk(kind)
  /\ UNCHANGED <<press, strip, drag, wentTo, view>>

KeyDown(k) ==
  /\ strip = "up"
  /\ press' = k /\ strip' = "still"
  /\ UNCHANGED <<mods, drag, wentTo, view>>

\* Mutant of Travelled: the press survives the drag.
TravelledNot == press

\* Past SLOP the press is dropped.
Travelled == NoKeyHeld

\* The finger wanders, or the browser takes the gesture.
KeyMoves ==
  /\ strip = "still"
  /\ strip' = "moved"
  /\ press' = Travelled
  /\ UNCHANGED <<mods, drag, wentTo, view>>

\* The press is on the up: a modifier toggles, a key goes the way of typed input.
KeyUp ==
  /\ strip # "up"
  /\ strip' = "up" /\ press' = NoKeyHeld
  /\ IF press \in Modifiers
     THEN mods' = (mods \ {press}) \cup ({press} \ mods)
     ELSE IF press # NoKeyHeld THEN Chunk("key") ELSE UNCHANGED mods
  /\ UNCHANGED <<drag, wentTo, view>>
-----------------------------------------------------------------------------
(* The drag. *)

FingerDown ==
  /\ ~drag.on
  /\ \E thumb \in BOOLEAN :
       /\ thumb => base > 0 /\ app # "screen"
       /\ drag' = [NoDrag EXCEPT !.on = TRUE, !.thumb = thumb]
  /\ wentTo' = {}
  /\ UNCHANGED <<keys, view>>

\* A sideways drag is the browser's, for good.
Declines ==
  /\ drag.on /\ drag.pc = "tap"
  /\ drag' = [drag EXCEPT !.pc = "declined"]
  /\ UNCHANGED <<keys, wentTo, view>>

\* The sink of a drag, decided when it becomes one.
Forwards == IF drag.pc = "tap" THEN ~drag.thumb /\ app # "none" ELSE drag.forward

\* A content drag moves the text with the finger, a thumb drag the view.
Wanted(at) == IF drag.thumb THEN at ELSE -at

\* What the buffer can still do, from where the gesture has taken it.
Target(at) ==
  Max({drag.applied - viewport, Min({drag.applied + base - viewport, Wanted(at)})})

\* forwardBy, one wheel event to a cell, of which xterm makes a report, an arrow key, or
\* a scroll of its own when nobody asked for the wheel any more; or scrollBy.
FingerMoves ==
  /\ drag.on /\ drag.pc # "declined"
  /\ \E at \in {drag.at - 1, drag.at + 1} :
       LET moved == [drag EXCEPT !.at = at, !.pc = "scrolling", !.forward = Forwards]
       IN /\ at \in -Reach..Reach
          /\ \/ /\ Forwards /\ wentTo' = wentTo \cup {"wheel"}
                /\ drag' = [moved EXCEPT !.emitted = at]
                /\ IF app = "none"
                   THEN /\ viewport' = Max({0, Min({base, viewport - (at - drag.at)})})
                        /\ UNCHANGED mods
                   ELSE /\ Chunk(IF app = "screen" THEN "arrow" ELSE "report")
                        /\ UNCHANGED viewport
             \/ /\ ~Forwards /\ (base = 0 \/ app = "screen")
                /\ drag' = moved
                /\ UNCHANGED <<viewport, wentTo, mods>>
             \/ /\ ~Forwards /\ base > 0 /\ app # "screen"
                /\ drag' = [moved EXCEPT !.applied = Target(at)]
                /\ viewport' = viewport + Target(at) - drag.applied
                /\ wentTo' = IF Target(at) # drag.applied THEN wentTo \cup {"scroll"} ELSE wentTo
                /\ UNCHANGED mods
  /\ UNCHANGED <<press, strip, base, app>>

FingerUp ==
  /\ drag.on
  /\ drag' = NoDrag
  /\ UNCHANGED <<keys, wentTo, view>>

\* External: output adds a line, and the view at the bottom follows; a full scrollback
\* loses one at the top.
Outputs ==
  /\ app # "screen"
  /\ base' = IF base < MaxBase THEN base + 1 ELSE base
  /\ viewport' = IF viewport = base THEN base'
                 ELSE IF base < MaxBase THEN viewport ELSE Max({viewport - 1, 0})
  /\ UNCHANGED <<keys, drag, wentTo, app>>

\* External: the application takes the mouse, or the alternate screen alone, or gives it back.
AppChanges ==
  /\ app' \in {"none", "tracks", "screen"}
  /\ app' # app
  /\ UNCHANGED <<keys, drag, wentTo, viewport, base>>

HNext ==
  \/ SoftKey \/ TerminalSends \/ KeyMoves \/ KeyUp
  \/ FingerDown \/ Declines \/ FingerMoves \/ FingerUp \/ Outputs \/ AppChanges
  \/ \E k \in Keys : KeyDown(k)

HSpec == HInit /\ [][HNext]_hvars
-----------------------------------------------------------------------------
\* "a flick to scroll the strip emitted whatever key it started on" (initKeysBar): a drag
\* across the strip neither types nor arms; and one on the terminal has one sink, the
\* page's own scrolling or the wheel, "decided once" (initTouchScroll), whatever the
\* application does to its screen meanwhile.
DragIsOneThing ==
  [][/\ strip = "moved" /\ strip' = "up" => mods' = mods
     /\ wentTo' # {"wheel", "scroll"}]_hvars
=============================================================================
