------------------------------ MODULE Terminal ------------------------------
(***************************************************************************)
(* The one terminal of the page and what is kept of it (site/app.mjs paint *)
(* to saveScrollback, the pump's saves; lifecycle.mjs; buffer-store.mjs).  *)
(* Content is known by the host and user it came from: a chunk of output,  *)
(* a screen and a dump are sequences and sets of these.                    *)
(***************************************************************************)
EXTENDS Integers, Sequences, FiniteSets

CONSTANTS Targets,    \* what a persistence key names: a host and a user on it
          CAP,        \* buffer-store.mjs: how many dumps are kept
          MaxOut,     \* bound: chunks of output in one page load
          MaxLoads    \* bound: page loads

ASSUME TerminalAssumption ==
  /\ CAP \in Nat \ {0} /\ MaxOut \in Nat /\ MaxLoads \in Nat
  /\ Targets \cap {"nokey", "unkeyed", "mixed"} = {}

VARIABLES enabled,    \* "keep scrollback on this device"
          pump,       \* the current session's pump: [host, key]; or NoPump
          late,       \* a superseded pump that still awaits its drain; or NoPump
          chunks,     \* output that is drained and not yet painted
          frame,      \* requestAnimationFrame is pending
          timer,      \* its 250 ms bound is pending
          hidden,     \* the page is in the background: no frames
          screen,     \* what the terminal's buffer shows content of
          owner,      \* terminalOwner: NoKey, a key, "unkeyed", or Mixed
          painted, restored, dirty,
          store,      \* IndexedDB: per key, the content of its dump
          recent,     \* its keys, the most recently touched first
          stale,      \* what a prune has read and not yet deleted
          puts,       \* saves that are not in the store yet
          outs, loads

tvars == <<enabled, pump, late, chunks, frame, timer, hidden, screen, owner, painted,
           restored, dirty, store, recent, stale, puts, outs, loads>>
saved == <<store, recent, stale>>
paints == <<chunks, frame, timer, screen>>

NoKey == "nokey"
Mixed == "mixed"
NoPump == [host |-> NoKey, key |-> NoKey]
Tags(s) == {s[i] : i \in 1..Len(s)}

TInit ==
  /\ enabled = TRUE /\ pump = NoPump /\ late = NoPump
  /\ chunks = <<>> /\ frame = FALSE /\ timer = FALSE /\ hidden = FALSE /\ screen = {}
  /\ owner = NoKey /\ painted = FALSE /\ restored = FALSE /\ dirty = FALSE
  /\ store = [t \in Targets |-> {}] /\ recent = <<>> /\ stale = {} /\ puts = {}
  /\ outs = 0 /\ loads = 1

\* Mutant of Claimed: the last session that printed owns the terminal.
ClaimedByLast(was, key) == IF key = NoKey THEN "unkeyed" ELSE key

\* claimTerminal: the first key owns the terminal, a second one makes it nobody's.
Claimed(was, key) ==
  LET k == IF key = NoKey THEN "unkeyed" ELSE key
  IN IF was = NoKey THEN k ELSE IF was = k THEN was ELSE Mixed

\* saveScrollback: serialized now, stored later; only what its owner alone has put there,
\* and nothing of the alternate screen or past the size cap.
Saves(key, shown) ==
  \/ UNCHANGED puts
  \/ /\ key # NoKey /\ owner = key
     /\ puts' = puts \cup {[key |-> key, dump |-> shown]}

\* flush: everything queued is written, in order, and nothing stays scheduled.
Flushed ==
  /\ screen' = screen \cup Tags(chunks)
  /\ chunks' = <<>> /\ frame' = FALSE /\ timer' = FALSE

\* A connect that got through: the dump of its key is restored on a pristine page, and
\* the pump starts; a pump it supersedes may be in the middle of a drain.
Connect(t) ==
  /\ late = NoPump
  /\ LET key == IF enabled THEN t ELSE NoKey
         dump == IF key = NoKey THEN {} ELSE store[key]
         restores == ~painted /\ ~restored /\ dump # {}
     IN /\ pump' = [host |-> t, key |-> key]
        /\ restored' = (restored \/ restores)
        /\ screen' = IF restores THEN screen \cup dump ELSE screen
        /\ owner' = IF restores THEN Claimed(owner, key) ELSE owner
  /\ late' \in {NoPump, pump}
  /\ UNCHANGED <<enabled, chunks, frame, timer, hidden, painted, dirty, puts, outs, loads>>
  /\ UNCHANGED saved

\* paint: one frame, and a timer that bounds it.
Scheduled == frame' = TRUE /\ timer' = IF frame THEN timer ELSE TRUE

\* drainOutput resolves with bytes: they claim the terminal and are queued.
Drained(p) ==
  /\ p # NoPump /\ outs < MaxOut
  /\ outs' = outs + 1
  /\ owner' = Claimed(owner, p.key)
  /\ painted' = TRUE /\ dirty' = TRUE
  /\ chunks' = Append(chunks, p.host)
  /\ Scheduled
  /\ UNCHANGED <<enabled, pump, hidden, screen, restored, puts, loads>>
  /\ UNCHANGED saved

Drain == Drained(pump) /\ UNCHANGED late
\* The superseded pump paints what its last drain brings, then finds itself superseded.
LateDrain == \/ Drained(late) /\ late' = NoPump
             \/ late # NoPump /\ late' = NoPump
                /\ UNCHANGED <<enabled, pump, chunks, frame, timer, hidden, screen, owner,
                               painted, restored, dirty, puts, outs, loads, saved>>

Frame ==
  /\ frame /\ ~hidden
  /\ Flushed
  /\ UNCHANGED <<enabled, pump, late, hidden, owner, painted, restored, dirty, puts, outs, loads, saved>>

Timer ==
  /\ timer
  /\ Flushed
  /\ UNCHANGED <<enabled, pump, late, hidden, owner, painted, restored, dirty, puts, outs, loads, saved>>

\* The pump's save, every ten seconds or so while there is something new.
PeriodicSave ==
  /\ pump.key # NoKey /\ dirty
  /\ dirty' = FALSE
  /\ Saves(pump.key, screen)
  /\ UNCHANGED <<enabled, pump, late, hidden, owner, painted, restored, outs, loads, paints, saved>>

\* visibilitychange: the last frame is painted, and what is on screen is saved.
Hide ==
  /\ ~hidden
  /\ hidden' = TRUE
  /\ IF chunks # <<>> THEN Flushed ELSE UNCHANGED paints
  /\ Saves(pump.key, screen \cup Tags(chunks))
  /\ UNCHANGED <<enabled, pump, late, owner, painted, restored, dirty, outs, loads, saved>>

Show ==
  /\ hidden
  /\ hidden' = FALSE
  /\ UNCHANGED <<enabled, pump, late, owner, painted, restored, dirty, puts, outs, loads, paints, saved>>

\* sessionEnded: painted to the last byte, and saved a last time.
End ==
  /\ pump # NoPump
  /\ Flushed
  /\ Saves(pump.key, screen \cup Tags(chunks))
  /\ pump' = NoPump
  /\ UNCHANGED <<enabled, late, hidden, owner, painted, restored, dirty, outs, loads, saved>>

\* A page load: nothing of the old page is left but the store, and what it had queued.
Reload ==
  /\ loads < MaxLoads
  /\ loads' = loads + 1
  /\ pump' = NoPump /\ late' = NoPump /\ chunks' = <<>> /\ frame' = FALSE /\ timer' = FALSE
  /\ hidden' = FALSE /\ screen' = {} /\ owner' = NoKey
  /\ painted' = FALSE /\ restored' = FALSE /\ dirty' = FALSE /\ outs' = 0 /\ stale' = {} /\ puts' = {}
  /\ UNCHANGED <<enabled, store, recent>>
-----------------------------------------------------------------------------
\* put, its first transaction; then prune reads what is there, in a second one.
Put(p) ==
  /\ p \in puts
  /\ puts' = puts \ {p}
  /\ store' = [store EXCEPT ![p.key] = p.dump]
  /\ recent' = <<p.key>> \o SelectSeq(recent, LAMBDA k : k # p.key)
  /\ stale' = stale \cup {recent'[i] : i \in CAP + 1..Len(recent')}
  /\ UNCHANGED <<enabled, pump, late, hidden, owner, painted, restored, dirty, outs, loads, paints>>

\* prune deletes, in a third one, whatever has happened to these keys since.
Prune ==
  /\ stale # {}
  /\ store' = [k \in Targets |-> IF k \in stale THEN {} ELSE store[k]]
  /\ recent' = SelectSeq(recent, LAMBDA k : k \notin stale)
  /\ stale' = {}
  /\ UNCHANGED <<enabled, pump, late, hidden, owner, painted, restored, dirty, puts, outs, loads, paints>>

\* The preference is turned off: what is stored is deleted.
OptOut ==
  /\ enabled
  /\ enabled' = FALSE
  /\ store' = [k \in Targets |-> {}] /\ recent' = <<>>
  /\ UNCHANGED <<pump, late, hidden, owner, painted, restored, dirty, stale, puts, outs, loads, paints>>

OptIn ==
  /\ ~enabled
  /\ enabled' = TRUE
  /\ UNCHANGED <<pump, late, hidden, owner, painted, restored, dirty, puts, outs, loads, paints, saved>>

TNext ==
  \/ Drain \/ LateDrain \/ Frame \/ Timer \/ PeriodicSave \/ Hide \/ Show \/ End
  \/ Reload \/ Prune \/ OptOut \/ OptIn
  \/ \E t \in Targets : Connect(t)
  \/ \E p \in puts : Put(p)

TSpec == TInit /\ [][TNext]_tvars
-----------------------------------------------------------------------------
\* "the cross-key mix-up the ownership gate exists to stop" (app.mjs): a dump holds what
\* its own target printed, through supersession, restore, reload and a late drain.
NoCrossKey == \A k \in Targets : store[k] \subseteq {k}
-----------------------------------------------------------------------------
\* The inductive invariant of the proofs.
Pump == [host : Targets \cup {NoKey}, key : Targets \cup {NoKey}]

TTypeOK ==
  /\ pump \in Pump /\ late \in Pump
  /\ chunks \in Seq(Targets) /\ screen \subseteq Targets
  /\ owner \in Targets \cup {NoKey, "unkeyed", Mixed}
  /\ store \in [Targets -> SUBSET Targets]
  /\ puts \subseteq [key : Targets, dump : SUBSET Targets]

\* A session that is to be kept prints for its own key; one that is, prints something.
PumpsHonest == \A p \in {pump, late} :
  p.key \in {NoKey, p.host} /\ (p # NoPump => p.host \in Targets)

\* What a single key owns came from its target; what nobody owns is empty.
OwnedByOne ==
  /\ owner \in Targets => screen \cup Tags(chunks) \subseteq {owner}
  /\ owner = NoKey => screen \cup Tags(chunks) = {}

PutsOfOne == \A p \in puts : p.dump \subseteq {p.key}

TInd == TTypeOK /\ PumpsHonest /\ OwnedByOne /\ PutsOfOne /\ NoCrossKey
=============================================================================
