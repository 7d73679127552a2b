------------------------------ MODULE EscWatch ------------------------------
(***************************************************************************)
(* The detector of a browser extension that eats Esc (site/esc-watch.mjs): *)
(* Esc never arrives, all the page sees is a blur of the terminal, and     *)
(* other things blur it too.  Time is in steps of a few seconds; the 300   *)
(* ms of an explained blur are "nothing has happened since".               *)
(***************************************************************************)
EXTENDS Integers, Sequences

CONSTANTS INPUT_WINDOW,    \* typing this recent was interrupted by a blur
          RETRY_WINDOW,    \* a blur this recent was retried by another
          MaxTime          \* bound: how long the page is open

ASSUME EscWatchAssumption ==
  /\ INPUT_WINDOW \in Nat \ {0} /\ RETRY_WINDOW \in Nat \ {0} /\ MaxTime \in Nat

VARIABLES time,
          explained,        \* a click or a Tab has happened just now
          lastInputAt, lastShapeBlurAt,
          armed, detecting,
          banner,           \* the hint is shown
          blurs,            \* history: the unattributed blurs the detector saw
          escaped,          \* history: an Escape came through in the terminal
          dismissed         \* history: the user has closed the hint

evars == <<time, explained, lastInputAt, lastShapeBlurAt, armed, detecting, banner,
           blurs, escaped, dismissed>>

LongAgo == -(INPUT_WINDOW + RETRY_WINDOW)

EInit ==
  /\ time = 0 /\ explained = FALSE
  /\ lastInputAt = LongAgo /\ lastShapeBlurAt = LongAgo
  /\ armed = FALSE /\ detecting = TRUE /\ banner = FALSE
  /\ blurs = <<>> /\ escaped = FALSE /\ dismissed = FALSE

TimePasses ==
  /\ time < MaxTime
  /\ time' = time + 1
  /\ explained' = FALSE
  /\ UNCHANGED <<lastInputAt, lastShapeBlurAt, armed, detecting, banner, blurs, escaped, dismissed>>

\* term.onData: a key of the user, or an answer of the terminal's own.
TermData ==
  /\ lastInputAt' = time
  /\ UNCHANGED <<time, explained, lastShapeBlurAt, armed, detecting, banner, blurs, escaped, dismissed>>

\* pointerdown, mousedown, Tab: the next blur is theirs.
Explain ==
  /\ explained' = TRUE
  /\ UNCHANGED <<time, lastInputAt, lastShapeBlurAt, armed, detecting, banner, blurs, escaped, dismissed>>

\* Mutant of EscapeSeen: only a banner that is up is dealt with.
EscapeSeenLate ==
  /\ escaped' = TRUE
  /\ detecting' = (detecting /\ ~banner)
  /\ banner' = FALSE
  /\ UNCHANGED <<time, explained, lastInputAt, lastShapeBlurAt, armed, blurs, dismissed>>

\* An Escape keydown with the focus in the terminal: nobody eats it.
EscapeSeen ==
  /\ escaped' = TRUE
  /\ detecting' = FALSE
  /\ banner' = FALSE
  /\ UNCHANGED <<time, explained, lastInputAt, lastShapeBlurAt, armed, blurs, dismissed>>

Recent(then, window) == time - then < window
TypingCorrelated == Recent(lastInputAt, INPUT_WINDOW)

\* Stage two: a first one interrupted typing, and this one does too or follows a blur.
Fires == armed /\ (TypingCorrelated \/ Recent(lastShapeBlurAt, RETRY_WINDOW))

\* The terminal loses the focus to nothing, the window keeping it; a click elsewhere,
\* a dialog or another window change nothing.
ShapeBlur ==
  /\ detecting /\ ~explained
  /\ detecting' = ~Fires
  /\ banner' = (banner \/ Fires)
  /\ armed' = (armed \/ TypingCorrelated)
  /\ lastShapeBlurAt' = time
  /\ blurs' = Append(blurs, [at |-> time, typed |-> TypingCorrelated])
  /\ Len(blurs) < 3                                     \* bound
  /\ UNCHANGED <<time, explained, lastInputAt, escaped, dismissed>>

\* The hint's own buttons.
DismissHint ==
  /\ banner
  /\ banner' = FALSE /\ dismissed' = TRUE
  /\ UNCHANGED <<time, explained, lastInputAt, lastShapeBlurAt, armed, detecting, blurs, escaped>>

ENext == TimePasses \/ TermData \/ Explain \/ EscapeSeen \/ ShapeBlur \/ DismissHint

ESpec == EInit /\ [][ENext]_evars
-----------------------------------------------------------------------------
\* "it should never land wrong" (esc-watch.mjs): the hint is shown for a pattern -- a
\* blur that interrupted typing and a later one that did too or followed a blur soon --
\* to a user whose Esc has never come through, and only once.
HintIsEarned ==
  banner =>
    /\ ~escaped /\ ~dismissed
    /\ \E i, j \in 1..Len(blurs) :
         /\ i < j /\ blurs[i].typed
         /\ blurs[j].typed \/ blurs[j].at - blurs[j - 1].at < RETRY_WINDOW
-----------------------------------------------------------------------------
\* The inductive invariant of the proofs.
ETypeOK ==
  /\ time \in Nat /\ lastInputAt \in Int /\ lastShapeBlurAt \in Int
  /\ blurs \in Seq([at : Nat, typed : BOOLEAN])

\* Stage one was some blur that interrupted typing; the last blur's time is remembered.
ArmedByTyping == armed => \E i \in 1..Len(blurs) : blurs[i].typed
RemembersLast == Len(blurs) > 0 => lastShapeBlurAt = blurs[Len(blurs)].at

\* The detector is at work until it fires, or an Escape tells it that it need not.
AtWork == detecting => ~banner /\ ~escaped /\ ~dismissed

EInd == ETypeOK /\ ArmedByTyping /\ RemembersLast /\ AtWork /\ HintIsEarned
=============================================================================
