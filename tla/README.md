# Verification of wosh

wosh is an SSH terminal in a browser page: the page's client component dials a
listener over iroh (QUIC through a relay or WebRTC), and the listener pipes the
bytes to sshd.  Two things are hard in it.  The tunnel: a terminal session must
survive the death of its transport, with both sides numbering the bytes they sent,
keeping what is not acknowledged and retransmitting what the other missed, while a
dozen tasks notice the death, the return and the end in any order.  And the page: one
thread, but every await in it is a place where a tap, an ending, another tab, a timer
or the platform comes in between.  This directory models both, checks them with TLC
and proves the parts that have to hold for every size with TLAPS.

## The system and its parts

| part | source | state | operations | what makes it correct |
| --- | --- | --- | --- | --- |
| replay buffer | `tunnel/src/lib.rs` | `sent_total`, `acked`, `buf`, `overflowed` | `sent`, `ack`, `tail_from` | the tail is exactly the bytes the peer misses, or refused |
| tunnel frames | `tunnel/src/lib.rs` | decoder buffer | encode, `next_frame` | frames survive any fragmentation |
| listener sessions | `listener-core/src/session.rs` | `SessionState`, `Registry` | start, resume, `attach`, `park`, end, pumps [A] to [D], grace timer | streams unharmed over any number of attachments; a parked session ends |
| client session | `wosh-client/src/lib.rs` | `Inner`, tasks, resume loop | connect, reader, writer, prober, resume, suspend, wake, detach | streams unharmed; one resume at a time; nobody orphaned |
| transport | polymorph-iroh (external) | connections | dial, read, write, finish, close | may die under either end |
| page session | `site/app.mjs`, `site/boot.mjs`, `site/qr.mjs` | `currentSession`, `dialing`, the one sheet, the screen, `failure`, the instance | connect and its gates, supersede, endings, reconnect, scan, settings | the ask on screen is the one awaited; no session outlives the page's interest; the screen is true |
| door to the component | `site/app.mjs` | the chain | `serializeSession`, `enterPatiently` | one call inside at a time, in the order made, and nothing jams |
| terminal, scrollback | `site/app.mjs`, `buffer-store.mjs`, `lifecycle.mjs` | pending output, the screen's owner, dumps | paint, save, restore, prune, opt-out | no target's output is saved as another's |
| transfers, Files sheet | `site/transfer-ui.mjs`, `transfer-worker.mjs`, `transfer-io.ts` | records, entries, staging files; the directory, its listing | download, retry, resume, poll, hand over; browse, upload | a handed-over file is whole; the sheet lists where it is |
| transfer engine | `wosh-client/src/transfer.rs` | SFTP channel, budget, transfers | attempts, anchors, supervise | no byte lost or written twice |
| touch selection | `site/touch-select.mjs` | the mirror's rows, frozen, deferred refits | sync, re-anchor, ratchet, guardRefit | a held selection's text stays; nothing skipped is lost |
| gestures, key strip | `site/mobile.mjs` | armed modifiers, the press, the drag | keys, touch scroll | a gesture is one thing from start to end |
| Esc watch | `site/esc-watch.mjs` | two blurs, last input | keydown, blur, dismiss | no hint without its pattern |
| keys in the browser | `site/identity-store.ts`, `passkey-store.ts`, `wosh-client/src/passkey.rs` | two IndexedDB stores | mint, enroll, adopt, recover, assert, forget | tabs share one identity; a record names its own credential |
| connection cards | `site/boot.mjs` | the stored list | record, update, remove, detect | late answers bring nothing back |
| listener process | `listener-core/src/lib.rs`, `tcp.rs`, `identity.rs`, `listener-host` | paired set, endpoint | accept loop, rebind, v1 pipe, enrollment | an enrolled device stays enrolled |
| SFTP codec | `sftp/src/lib.rs` | framer, ids, correlator | encode, decode, match | every reply reaches its request |
| SSH core | `ssh-core/core/*.go` | gates, channels, pipes | feed, drain, pump, prompts, signatures | gates answered once; flow control holds |
| host key observer | `hostkey/src/*.rs` | sniffer | feed, observe | same verdict however the bytes are cut |
| connection strings, pairing, passkey formats | `connstring`, `wosh-client/src/pairing.rs`, `webauthn-ssh` | keys | encode, decode, prove | round trips; proofs bind what they say |

The parts interact as follows.  The page calls the client component through its door;
the client drives the SSH core and puts its bytes, framed, on a connection; a handler
task of the listener serves each connection and becomes the reader of the session's
current attachment; the session's own tasks move bytes to and from sshd.  On every side
everything is one cooperative executor: shared state changes only between awaits, and
every await is a place where all the others may run.  Tabs of one browser share
IndexedDB and localStorage and nothing else.

`PROJECT.json` lists the hard behaviours as hazards, line by line, each with the
properties that would catch it.

## Modules

| module | models | how |
| --- | --- | --- |
| `Replay` | `Replay` of `tunnel/src/lib.rs` | pure operators `NewReplay`, `Sent`, `Ack`, `HasTail` / `TailFrom` (the two outcomes of `tail_from`) |
| `ReplayBuffer` | a `Replay` under any sequence of calls | `RSend`, `RAcked`; history variable `stream` |
| `Wire` | the iroh connections (external) and the frames | operators on `net`; action `Lose` |
| `ListenerSession` | `session.rs` | `st` is `SessionState`, `reg` the registry entry, `h` the connection handlers, `task` and `job` the pumps, `timers` the grace timers |
| `ClientSession` | `wosh-client/src/lib.rs` | `inner` is `Inner`, `reader` / `writer` / `gen` the tasks of each connection, `loops` the resume loops |
| `Tunnel` | the two sides and the wire, composed | `Next` lists every action; all end-to-end properties |
| `PageSession` | the page around the terminal | one record `page` for the sheet, the chrome and the attempt (a coroutine with a `pc`); `sess` the component's sessions |
| `Door`, `Gate` | the abstract line of calls; `serializeSession` with `enterPatiently` | `Gate` instantiates `Door` with a refinement mapping |
| `Terminal` | painting and the scrollback's store | output is known by its target, a dump by the targets it holds |
| `Transfers` | a download from tap to hand-over, page, engine and worker together | a file is its length and whether its chunks are the remote's in order |
| `Files` | the Files sheet: browsing and uploads | a path is the sequence of its names |
| `Mirror` | the selection mirror over the terminal's buffer | a line's text is the output that last changed it |
| `Keys` | the identity and the passkey record, several tabs | a transaction is a step; a public key has the number of its credential |
| `EscWatch` | the Esc hint, with its clocks | `performance.now` in coarse units |
| `Gestures` | the key strip and the touch drag | a press and a drag with their latched sinks |
| `Cards` | the stored connections and all that write them | a card is its name, command, detection and autoResume |
| `MCTunnel`, `MCPageSession`, `MCParts` | instances for TLC | |
| `Replay_proofs`, `ReplayBuffer_proofs` | lemmas on `Replay`'s operators; its theorems | |
| `Tunnel_proofs` | the tunnel's control: types, resume loop, attachment, grace timer | reaches both sides and the wire |
| `TunnelStream_proofs` | the tunnel's streams: counts, both directions, the clean end | on top of `Tunnel_proofs` |
| `PageSession_proofs`, `Gate_proofs` | theorems of `PageSession` and `Gate` | |
| `Transfers_proofs` | theorems of `Files` and `Transfers` | |
| `Browser_proofs` | theorems of `EscWatch`, `Keys`, `Terminal`, `Mirror`, `Gestures` and `Cards` | parts that share no state |

An action is what one task does from one await to the next.  What it computed before an
await and uses after it is part of its state: a handler in `replying` carries the `tail`
it will attach with, `assert` the record it loaded, a list-dir call the directory it was
made for.  In the tunnel a unit stands for a chunk carried by one DATA frame; `Bye` is
the last one of a shell that exits.

### Abstractions and assumptions

Tunnel.  A frame arrives whole and alone (the decoder is not modelled).  Time is left
out: a grace timer, a prober's verdict or the end of a backoff may come at any moment;
the resume budget counts attempts.  A writer is woken whenever it has something to do.
The session had reached `ready` when it is declared dead, so `close_kind` is `lost`.
One client, one session, already enrolled; wosh/2 or wosh/3.  `Wire` lets a connection
die under either end.  The end that lost it gets errors; the other may read what was in
flight or see the end at once, in either order.

Page.  The quick calls an ending makes do not outlast a whole login, and what is asked
of a session is answered before a later session is up, or never.  `PageSession` names
in `Known` three ways to a stranded screen that were met while modelling and that its
runs leave out: a refused gate seen after the session's own end (`refused`), the
re-pairing sheet over a live session (`pairing`), an ending between login and the first
paint (`midstart`).  The command sheet after an exit 127 is modelled where no dial is in
flight.  `Terminal`'s dump is fetched where `doConnect` starts and painted once, when
the session is up.

`Transfers` names in `KnownLosses` the ways to lose a download that the passing run
leaves out: a retry of a staging file that another transfer of this page still uses
(`again`), a read that cannot be issued (`unflushed`, shown by a run of its own), a
progress call that throws (`skipped`).  IndexedDB does its writes in order, and
`loadResumable` looks at a record and at its file in one step.  The transfers button's
stickiness is left out: the dropdown opens where there is something to show.

`Files` keeps in line the list-dir calls alone (uploads are in the same line of the
door, which `Gate` models) and has directories that do not change.  In `Mirror` the
scrollback is never full, so lines keep their numbers, and a resize of the terminal
happens by a refit only.  In `Keys` verification is a match of numbers.

## Runs

All bounds are constants named in the `.cfg` files.

| run | bounds | shows |
| --- | --- | --- |
| `resume_down` | 3 connections, 2 losses, 2 units down, cap 2 | `DownIntegrity`, `DownConserved`, `AttachedHasReader` over repeated resumes |
| `both_ways` | 2 connections, 1 loss, 1 unit down, 2 up, cap 1, an ACK per unit | `TypeOK`, `UpIntegrity`, `AckSound`, with overflow and acknowledgements |
| `page` | 2 connections, 1 loss, suspend, wake, detach, prober | `OneLoop`, `NoOrphan`, `ResumingHasLoop` |
| `endings` | 2 connections, 1 loss, one unit each way, sshd hangs up, with and without grace | `ParkedHasTimer`, `CleanEnd` |
| `liveness` | 2 connections, 1 loss, suspend and wake, sshd hangs up, fair | `ResumeEnds`, `ParkEnds`, `DeadNoticed` |
| `page_session` | 2 sessions of a page load, fair | `AskOwned`, `NoOrphanSession`, `ScreenTrue`, `FreshReconnect`, `EndingKeepsAsk`, `DialEnds` |
| `page_parts` | per part, below | the properties of the ten smaller parts |

Three connections and two losses are what it takes to resume a session that was
already resumed, with a timer and a reader of the first attachment still about; two
units tell loss, duplication and reordering apart and make a tail of more than one
unit; a cap of one makes the second unit overflow.  Two sessions of a page are what it
takes to supersede, to reconnect and to have one ending arrive during the other's
login.  Deadlock is not checked: a session that has ended stops, and so do the parts at
their bounds.

`MCParts` puts the parts that share no state side by side: a behaviour picks one and
steps it alone, so the state space is the sum of theirs and not the product, and each
property is about one part.  The bounds there:

| part | bounds | properties |
| --- | --- | --- |
| `Gate` | 3 calls, 1 refusal | `NoJam`, `KeepsTheLine` (the refinement of `Door`) |
| `Terminal` | 2 targets, 2 loads, 2 outputs, 1 dump kept | `NoCrossKey` |
| `Transfers` | 2 records, 2 chunks, 2 openings or reloads | `HandedWhole`, `Polled`, `NeverOverstates` |
| `Mirror` | 2 heights, 4 lines, 2 outputs | `HeldIntact`, `RefitsReplayed`, `MirrorTrue` |
| `Keys` | 2 tabs, 3 key pairs, 2 credentials | `OneIdentity`, `RecordMatches` |
| `EscWatch` | windows 1 and 2, 4 ticks | `HintIsEarned` |
| `Gestures` | a scrollback of 2, a reach of 3 rows | `DragIsOneThing` |
| `Cards` | 2 machines, a list of 1, 1 tab | `CardsAreTheUsers` |
| `Files` | 2 visits, 2 sessions, depth 2, 2 calls in flight, 1 upload and its retries | `ListedIsHere`, `UploadsAppear` |
| `ReplayBuffer` | stream of 6 over two bytes, cap 3 | `IndInv`, `TailExact` |

Two of each are what a race needs: two tabs that mint at once, a record and the one that
retries it, a call in flight and the one behind it, two heights for a refit, a list one
shorter than what is connected to.

Five runs end in a violation, each of something the repository says of itself:

* `stale_snapshot` (`UpExact`): `resume_session` takes its counts before awaiting the
  write of its reply and attaches after it.  A DATA frame applied meanwhile by the old
  attachment is retransmitted.  The history variable `raced` marks the behaviours in
  which an attach used a stale count; the integrity properties are stated for the
  others, so they say that this window is the only way to harm a stream.  The window
  exists only when the host's write suspends.  The same window lets a client attach to
  a session that died meanwhile (see the hazards).
* `stale_hello` (`GapIsFinal`): a HELLO the client gave up on, read late, is refused
  for a gap, and the refusal ends the session a later attempt has resumed.
* `leak` (`RegisteredIsBounded`): a failed write of the first reply leaves the session
  registered, without tasks and without a timer.
* `transfers_unflushed` (`HandedWhole`): `download_attempt` leaves without the flush its
  other exits make when a read cannot be issued; the next attempt anchors at what is
  committed while the append-only sink holds more, and the file handed over has a chunk
  twice.
* `dead_keyboard` (`KeyboardLive`): `window.__wosh.failure` is set by every failed
  attempt and cleared by none, and the keyboard of the next session that succeeds drops
  every keystroke.

Recorded here only, being harmless or promised nowhere: `tunnel/src/lib.rs` says of
`Resume.received` that the listener trims its buffer to it, which `resume_session` does
not; `link_lost` after `declare_dead` marks a dead session as reconnecting; a row of the
Files sheet tapped twice before the answer asks for the directory inside itself; the
retry of a failed upload sends the file to the directory shown by then; a passkey
forgotten in one tab comes back with the record another tab's ceremony saves.

### Fairness

`Tunnel`'s `FairSpec` assumes weak fairness of each task (handler, pump, reader, writer,
resume loop), of the grace timers, and of sshd closing once our half is closed.  The
executors are cooperative and poll what was woken; a timer fires; a connection that one
end gave up fails at the other, at the latest by QUIC's idle timeout.  Nothing is
assumed of the path, of the page, or of sshd otherwise, so the properties hold also
when the path never works again.

`PageSession`'s `PFairness` assumes that the attempt's coroutine goes on when what it
awaits is there, that somebody answers or dismisses the ask on screen, and that a
component session past `connecting` is decided.  A session that stays in `connecting`
is the code's own business: `settle` has a deadline, and the mutant of `DialEnds` takes
it away.

## Proofs

Every invariant and action property that a passing run checks is also a theorem, for
every value of the constants; liveness is TLC's alone.

| theorem | module | holds for every | by |
| --- | --- | --- | --- |
| `TypesHold`, `OneLoopEver`, `AlwaysLookedAfter`, `ResumingIsWork`, `AttachedIsRead`, `ParkedIsTimed` | `Tunnel_proofs` | number of connections, losses and units, cap, cadence, budget, set of graces | `Control` |
| `AcksAreSound` | `TunnelStream_proofs` | the same | `Acks` |
| `DownIsExact`, `DownIsConserved`, `EndIsClean` | `TunnelStream_proofs` | the same | `Way`, `Down` |
| `UpIsExact` | `TunnelStream_proofs` | the same | `Way`, `Up` |
| `ReplayInvariant`, `ReplayTailExact`, `ReplayServesHonestPeers`, `ReplayBounded`, `ReplayMonotone` | `ReplayBuffer_proofs` | cap, alphabet, payloads, bound | `IndInv` |
| `GateInvariant`, `GateKeepsOrder`, `GateNeverJams`, `GateImplementsDoor` | `Gate_proofs` | number of calls and refusals | `GInd` |
| `NeverOrphaned`, `AsksAreOwned`, `AsksOutliveEndings` | `PageSession_proofs` | number of sessions, settings of the page, `Known` | `PInd` |
| `ReconnectsAreFresh` | `PageSession_proofs` | the same | `Settles` |
| `ScreenIsTrue` | `PageSession_proofs` | number of sessions, settings, with `Known = {}` | `Settles`, `Shows` |
| `HandsOverTheFile` | `Transfers_proofs` | number of records, chunks, openings; neither `again` nor `unflushed` in `KnownLosses` | `Staging`, `InOrder` |
| `ReportsWhatStays` | `Transfers_proofs` | the same, `again` not in `KnownLosses` | `Staging` |
| `NoTransferIsForgotten` | `Transfers_proofs` | the same, `skipped` not in `KnownLosses` | `Passes` |
| `TheSheetListsItself`, `UploadsAreListed` | `Transfers_proofs` | tree of directories, file names, calls in flight, visits, uploads | `Listing` |
| `TabsShareOneIdentity`, `StoredRecordMatches` | `Browser_proofs` | set of tabs, keys, credentials | `KInd` |
| `DumpsNeverMix` | `Browser_proofs` | set of targets, cap, number of loads | `TInd` |
| `HintNeedsItsPattern` | `Browser_proofs` | pair of windows, time | `EInd` |
| `HeldRowsStay`, `NoRefitIsLost`, `MirrorCatchesUp` | `Browser_proofs` | set of heights, buffer, outputs | `MInd` |
| `OneGestureOneThing` | `Browser_proofs` | scrollback, reach | `OneSink` |
| `OnlyTheUserSetsCards` | `Browser_proofs` | set of machines and tabs, cap | `CardInd` |

### The tunnel's control

`Control` has three parts.

* `Types`: both sides and the wire are well formed.  `TypeOK` is among it, and with it
  the two unsigned subtractions of the ACK cadence.
* `CControl`, the client: the three properties of the run (`OneLoop`, `ResumingHasLoop`,
  `NoOrphan`), which need each other, and what makes them inductive: a loop at work is of
  the current generation of a session that is resuming (`LoopsAtWork`); the tasks of the
  current generation are those of the current connection (`Tasks`); nothing has happened
  until connect is answered (`Beginning`).  A report of a death counts only for the
  current generation, so `Tasks` is what bars a reader left over from an old connection
  from starting a second loop.
* `LControl`, the listener: `AttachedHasReader` and `ParkedHasTimer` with `Ends` (a
  session is dead exactly when the registry has buried it), `Unborn` and `FirstOnly`
  (only the first connection's handler makes a session), `Generations` (no reader is of a
  generation to come) and `Hellos` (no later connection ever carries a HELLO that starts
  a session).  Both properties hold whether or not an attach used a stale count.

The steps that end a session, park it, or leave handlers and attachment alone have a
lemma each (`SessionStep` and its neighbours), so that an action only has to say which
one it is.

### The tunnel's streams

`AckSound` needs a bound on every number under way: `Acks` says that the client's count
is the length of what it fed, that what sshd has and what waits for it add up to the
listener's count, and that no frame on a wire, no frame in a queue and no trimmed buffer
names more than its receiver's side has taken in.  It holds also of behaviours in which
an attach used a stale count: that window repeats units, it never loses one.

The streams themselves depend on where the connections are, so `Way` comes first: which
connections are open at the client and which handshake is on one of its own (`Path`),
that the attachment's stream is that of its connection and has one current reader at
most (`Attachment`), and that the write `[B]` has in flight is one of this attachment or
of one that is over (`Borrowing`).  To keep what follows short, every step is reduced
once to a shape: a listener's step only starts, answers, attaches, takes a frame, writes
one, records output, delivers input or is silent about the streams (`ListenerMoves`), and
a client's dials, installs, consumes, acknowledges, sends or is silent (`ClientMoves`).

* `Down`: the replay buffer is the end of what was handed to the session; what an open
  connection brings continues what the core was fed (`Arrives`); an attachment and its
  queue bring all of the rest (`AllOfIt`); a reply being written has just the tail the
  client misses, up to the count it was taken at (`Owed`).  The last two fail in exactly
  the window that `raced` marks.  `EndIsClean` follows: the FIN leaves with an empty
  queue, when the connection brings everything.
* `Up`: what was typed is in the client's stream or its outbox (`Sending`); what the
  listener counted is with sshd or on its way (`Reached`); a connection the listener
  heeds brings what is next after its count, all of it once the client has installed
  it, and until then a reply that names that very count (`Brings`).

`Units`, the payloads on a connection, is a recursive function.  What it returns for a
longer sequence is proved without an induction theorem: two functions that satisfy its
equations (`Carries`) agree, for there is no least place where they differ.

### The page's session

Neither `AskOwned` nor `NoOrphanSession` is inductive: an attempt that was cancelled
would end a session nobody has, and a sheet taken over would leave its attempt waiting.
`PInd` adds that the session an attempt has dialed is the page's, unless the page has
let go of it (`AttemptOwnsCurrent`).  Every handler composes a few operators on the page
(`Settled`, `Shown`, `HomeRendered`, `IdleHome`, `DoConnect`, `Drained`, `Failed`), so
there is one lemma for each: it keeps the page `Whole` (the question on the sheet is
awaited, and no other) and neither starts nor renames an attempt that has dialed
(`Follows`).  The steps then only name the operators they are made of, and an ending
that keeps the question keeps it because `IdleHome` does.

`ReconnectsAreFresh` needs to know who can still poison the instance when the reconnect
starts: `Settles` says that no login is decided while an ending is dealt with
(`ReadyIsQuiet`), that a poisoned instance ends only the session that poisoned it
(`PoisonIsKnown`), and that none is left to do so under an automatic attempt
(`AutoIsFresh`).

`ScreenIsTrue` goes both ways.  `Shows` says that a session that feeds the screen is up,
with no ending waiting, and live once it is ready (`FedIsLive`); that a terminal is shown
for a session or until something in flight takes it away (`LiveIsFed`); that what was
dialed since is not what feeds the screen (`PumpedIsPast`); that an attempt about to
start its terminal has the page's session and no ending in its way (`StartIsClear`); and
that nothing which goes home by itself is up over a live terminal (`Asleep`).  The last
two are what the three strandings of `Known` break, hence the hypothesis.

### Transfers and the Files sheet

`Listing`: the last call in the line asks for the directory the sheet is in, and shows
every upload that got there before it (`LastIsHere`); whatever is in line before it only
delays it.  The tree is any set of sequences of names (`FilesAssumption`).

`Staging`: the entry on the page, the engine's transfer and the timers agree on how far
a download is (`InStep`); one download at most uses a staging file (`OneUser`); an open
handle stands at the end of its file (`AtEnd`); and what was reported is durable, or in
the file when no handle is open (`Reports`).  A retry of a record that is still in use
breaks `OneUser`, which is why `again` is excluded.  `InOrder` adds that only a running
transfer has written what is not flushed and that it goes on where its handle stands, so
that every file is a beginning of the remote one; a read that cannot be issued breaks
it.  The attempt showed an error of the model: `LookAt` could look at a record still
being stored, which `loadResumable` cannot find; the action has that guard now.

`Passes`: `Polled` depends on the order in which downloads start.  The door lets calls
in in the page's order (`GateKeepsOrder`), so what starts does so in the order of the
records (`InTurn`): a pass has no download behind it that is yet to start, and the
running ones behind it it has counted (`Counted`), so it does not stop while one runs.

### The smaller parts

Replay.  `TailExact` is not inductive: it says nothing of the bytes a later tail will
need.  `IndInv` is `ReplayOf(replay, stream)`: the buffer is the last `Len(buf)` bytes of
everything sent, within the cap, and as long as nothing overflowed it is as long as the
unacknowledged part.  `Replay_proofs` has the lemmas: what `LastN` returns, `LastN` of
`LastN` and of a concatenation; `Sent` appends to the stream and keeps `ReplayOf`, `Ack`
keeps it whatever the count, and under it the tail is the rest of the stream.  The
tunnel's streams rest on the same lemmas.

Gate.  `GInd` says that every gated call is in exactly one place (behind, at the door,
inside, settled) and that the places follow the order of the calls.  With it every step
of `Gate` maps to a step of `Door` or to a stutter: joining the chain takes a number,
entering admits the first of the line, the deadline turns it away; retries of a refused
entry are invisible.  That is `GateImplementsDoor`.

Keys.  The stored identity alone is not enough: `KInd` adds that a candidate is a key
pair and that what a ceremony is about to save matches as well as what is saved.

Terminal.  A dump under a key is pure because the screen is: `TInd` says that what is on
the screen, what is painted but pending, and what a save has in its hands all belong to
the screen's owner or to nobody.

Esc watch.  `EInd` ties the two remembered blurs and the typing to the times at which
they were seen.

Mirror.  `MInd` says that the mirrored rows are adjacent buffer lines, at least one, and
that a refit waits only under a held selection; `RevealedGrows` is the lemma that
re-anchoring keeps every row.  `MirrorTrue` is inductive on its own.

Gestures.  `OneSink`: a drag that has not scrolled has sent nothing, and one that does
has sent to the sink it was given; a finger that moved along the strip holds no key.

Cards.  `CardInd`: the list has one card at most for a machine.  `recordConnection` and
`removeConnection` filter the machine out of the list; as there is one of it at most, the
model removes the entry where it stands (`Without`), which is what the lemmas can speak
of.  Every write makes the new cards of old ones (`Descends`), but for the one a connect
puts in front.

### What is assumed, and what is only model-checked

The assumptions are those the modules state of their constants (caps that are natural
numbers, a cadence of at least one byte, heights between 1 and the buffer, windows that
are natural numbers, a set of graces that is not empty); TLC evaluates them in the runs.
Where a theorem excludes a member of `Known` or `KnownLosses`, that member is a flaw
described above, and the run excludes it too.

Only model-checked: liveness (`DialEnds`, `ResumeEnds`, `ParkEnds`, `DeadNoticed`), which
is out of the prover's reach with `ENABLED`, and the five violations.

## Not modelled

* The listener process: accept loop, endpoint rebind, enrollment and its store, the v1
  pipe and the ALPN ladder; `Signal`'s single waker slot and the liveness frames.
* The transfer engine's in-flight window against `REPLAY_CAP`, its permits, its identity
  checks, the chunks of an upload; the SFTP framer, ids and correlator.
* The SSH core: `golang.org/x/crypto` with gates that `PageSession` sees as statuses.
* The host key sniffer over fragmented input and the frame decoder: parsing without
  interleaving.
* Connection strings, pairing, passkey signatures, DER: formats and cryptography.
* On the page: copying and locating a selection (`touch-select.mjs` after 625), the
  long-press fallback and font sizes (`mobile.mjs`), links, preset commands, rules and
  separators, the pairing store (one put, one get), the service worker (an atomic cache
  keyed by version), the install-this-key sheet, and the wording of everything.
* Test hosts, spikes, build scripts, generated bindings.

What would come next: the byte pipe as an abstract specification of one direction of the
tunnel, with the refinement proved from `Down` and `Up`; and the engine's window against
the replay buffer.
