---------------------------- MODULE ClientSession ----------------------------
(***************************************************************************)
(* The client half of the tunnel (wosh-client/src/lib.rs) on wosh/2 and    *)
(* wosh/3: one session's shared state, a reader and a writer task per      *)
(* connection, the resume loop, and the page's suspend, wake and detach.   *)
(* The component is single-threaded: an action is what a task does from    *)
(* one await to the next.  The SSH core is left to other modules: it turns *)
(* input into units for the outbox and takes in whatever it is fed.  The   *)
(* prober's clock is too: its verdict may come at any moment.              *)
(***************************************************************************)
EXTENDS Wire, Replay, FiniteSets

CONSTANTS RESUME_WINDOW,     \* resume attempts the budget pays for
          MaxUp,             \* bound: units the core ever sends
          Absences,          \* whether the page may suspend and wake
          Detaches,          \* whether the page may detach
          Probes             \* whether the dialect has the liveness prober (wosh/3)

ASSUME WindowAssumption == RESUME_WINDOW \in Nat
ASSUME MaxUpAssumption == MaxUp \in Nat
ASSUME SwitchAssumption == {Absences, Detaches, Probes} \subseteq BOOLEAN

VARIABLES inner,     \* Inner
          connect,   \* Session::connect is "pending", "up" or "failed"
          reader,    \* each connection's reader task
          writer,    \* each connection's writer task
          gen,       \* the generation the tasks of a connection were spawned with
          loops,     \* the resume loops running: more slots than there may be
          fed,       \* history: what the core was fed
          typed      \* history: how many units the core has produced

cvars == <<inner, connect, reader, writer, gen, loops, fed, typed>>

Slots == 1..2
NoLoop == [pc |-> "none", gen |-> 0, conn |-> 0, spent |-> 0]

\* The core's exit unit (the shell's exit status, then the channel's close).
ExitUnit == 0
CoreClosed == \/ inner.detached \/ inner.link_down
              \/ \E i \in 1..Len(fed) : fed[i] = ExitUnit

CInit ==
  /\ inner = [conn |-> 1, generation |-> 0, outbox |-> <<>>, link_down |-> FALSE,
              detached |-> FALSE, replay |-> NewReplay, received |-> 0,
              acked_to_peer |-> 0, ack_due |-> FALSE, resuming |-> FALSE,
              suspended |-> FALSE, stalled |-> FALSE, close_kind |-> "none"]
  /\ connect = "pending"
  /\ reader = [c \in Conns |-> "none"]
  /\ writer = [c \in Conns |-> "none"]
  /\ gen = [c \in Conns |-> 0]
  /\ loops = [s \in Slots |-> NoLoop]
  /\ fed = <<>> /\ typed = 0

\* connect has dialed the first connection and sent its Hello.
NetInit ==
  /\ losses = 0
  /\ net = Dialed([c \in Conns |-> NewConn], 1, Frame("hello", 0))
-----------------------------------------------------------------------------
(* Session::connect, from its Hello on.                                    *)

\* The listener's first answer: a new session, whose tasks are spawned, or no
\* session at all.
ConnectReply ==
  /\ connect = "pending" /\ CReadable(1)
  /\ IF Head(net[1].down).t = "new"
     THEN /\ connect' = "up"
          /\ reader' = [reader EXCEPT ![1] = "reading"]
          /\ writer' = [writer EXCEPT ![1] = "waiting"]
          /\ net' = [net EXCEPT ![1].down = Tail(@)]
     ELSE /\ connect' = "failed"
          /\ net' = CClose(net, 1)
          /\ UNCHANGED <<reader, writer>>
  /\ UNCHANGED <<inner, gen, loops, fed, typed>>

\* The connection ended before the reply: connect returns the error.
ConnectLost ==
  /\ connect = "pending" /\ CEnd(1)
  /\ connect' = "failed"
  /\ net' = CClose(net, 1)
  /\ UNCHANGED <<inner, reader, writer, gen, loops, fed, typed>>
-----------------------------------------------------------------------------
(* The resume machine: link_lost, declare_dead, resume_loop.               *)

Stale(i, g) == i.generation # g

\* abandoned: the loop must stop touching the session.
Abandons(i, g) == i.detached \/ i.link_down \/ Stale(i, g)

\* declare_dead: the session is over, once (one that had been ready: close_kind).
DeclareDead(i) ==
  IF i.link_down THEN i
  ELSE [i EXCEPT !.resuming = FALSE, !.link_down = TRUE, !.close_kind = "lost"]

\* Mutant of StandDown: the session is not marked stalled.
StandDownForgets(i) == [i EXCEPT !.resuming = FALSE]

\* Mutant of StandDown: the session still claims to be resuming.
StandDownKeepsResuming(i) == [i EXCEPT !.stalled = TRUE]

\* stand_down: the page is away; leave the session to wake.
StandDown(i) == [i EXCEPT !.resuming = FALSE, !.stalled = TRUE]

\* The top of resume_loop, before it dials: the state it leaves and whether it
\* goes on.  Every pass has charged the budget, whatever route led here.
LoopTop(i, l) ==
  CASE Abandons(i, l.gen)      -> [inner |-> i, pc |-> "none"]
    [] ~Abandons(i, l.gen) /\ i.suspended
                               -> [inner |-> StandDown(i), pc |-> "none"]
    [] ~Abandons(i, l.gen) /\ ~i.suspended
         /\ (l.spent > RESUME_WINDOW \/ i.replay.overflowed)
                               -> [inner |-> DeclareDead(i), pc |-> "none"]
    [] OTHER                   -> [inner |-> i, pc |-> "dialing"]

SetLoop(s, pc, l) ==
  loops' = [loops EXCEPT ![s] = IF pc = "none" THEN NoLoop ELSE [l EXCEPT !.pc = pc]]

FreeSlot == CHOOSE s \in Slots : loops[s].pc = "none"

\* resume_loop starts: close what is left of the old connection and try.
StartLoop(i, g, n) ==
  LET l == [NoLoop EXCEPT !.gen = g]
      t == LoopTop(i, l)
  IN  /\ inner' = t.inner
      /\ net' = CClose(n, i.conn)
      /\ SetLoop(FreeSlot, t.pc, l)

\* wake: the loop is a task of its own, which starts later.
SpawnLoop(g) == SetLoop(FreeSlot, "spawned", [NoLoop EXCEPT !.gen = g])

\* Mutant of LinkLost: it does not ask whether a loop is already running.
LinkLostAgain(g, n) ==
  IF Stale(inner, g) \/ inner.detached \/ \A s \in Slots : loops[s].pc # "none"
  THEN UNCHANGED <<inner, loops>> /\ net' = n
  ELSE IF inner.suspended
  THEN /\ inner' = [inner EXCEPT !.stalled = TRUE]
       /\ net' = n
       /\ UNCHANGED loops
  ELSE StartLoop([inner EXCEPT !.resuming = TRUE], g, n)

\* link_lost: a task of generation g saw its connection die.  Superseded, torn
\* down or already resuming: nothing.  Page away: stalled.  Else resume.
LinkLost(g, n) ==
  IF Stale(inner, g) \/ inner.detached \/ inner.resuming
  THEN UNCHANGED <<inner, loops>> /\ net' = n
  ELSE IF inner.suspended
  THEN /\ inner' = [inner EXCEPT !.stalled = TRUE]
       /\ net' = n
       /\ UNCHANGED loops
  ELSE StartLoop([inner EXCEPT !.resuming = TRUE], g, n)

\* Mutant of Retry: a failed attempt is not charged.
RetryFree(s, n) ==
  /\ inner' = inner
  /\ net' = n
  /\ loops' = [loops EXCEPT ![s].pc = "backoff", ![s].conn = 0]

\* An attempt failed: close its connection, if any, and back off; the next pass
\* is charged for it.
Retry(s, n) ==
  /\ inner' = inner
  /\ net' = n
  /\ loops' = [loops EXCEPT ![s].pc = "backoff", ![s].conn = 0, ![s].spent = @ + 1]

\* The page detached or someone else resolved the session while we awaited.
Abandon(s, n) ==
  /\ inner' = inner
  /\ net' = n
  /\ loops' = [loops EXCEPT ![s] = NoLoop]

LoopUnchanged == UNCHANGED <<connect, reader, writer, gen, fed, typed>>

\* wake's own task runs resume_loop: its first pass.
LoopSpawned(s) ==
  /\ loops[s].pc = "spawned"
  /\ LET t == LoopTop(inner, loops[s])
     IN  inner' = t.inner /\ SetLoop(s, t.pc, loops[s])
  /\ net' = CClose(net, inner.conn)
  /\ LoopUnchanged

\* The backoff is over: round again.
BackedOff(s) ==
  /\ loops[s].pc = "backoff"
  /\ LET t == LoopTop(inner, loops[s])
     IN  inner' = t.inner /\ SetLoop(s, t.pc, loops[s])
  /\ UNCHANGED net
  /\ LoopUnchanged

\* The dial failed; the endpoint is rebound and the attempt is over.
DialFailed(s) ==
  /\ loops[s].pc = "dialing"
  /\ IF Abandons(inner, loops[s].gen) THEN Abandon(s, net) ELSE Retry(s, net)
  /\ LoopUnchanged

\* The dial succeeded: say what we have received so far.
DialOk(s) ==
  /\ loops[s].pc = "dialing" /\ Undialed # {}
  /\ LET c == NextConn
         n == Dialed(net, c, Frame("resume", inner.received))
     IN  IF Abandons(inner, loops[s].gen)
         THEN Abandon(s, CClose([n EXCEPT ![c].up = <<>>], c))
         ELSE /\ net' = n
              /\ loops' = [loops EXCEPT ![s].pc = "handshake", ![s].conn = c]
              /\ UNCHANGED inner
  /\ LoopUnchanged

\* The connection died before the reply.
HandshakeFailed(s) ==
  /\ loops[s].pc = "handshake" /\ CEnd(loops[s].conn)
  /\ LET n == CClose(net, loops[s].conn)
     IN  IF Abandons(inner, loops[s].gen) THEN Abandon(s, n) ELSE Retry(s, n)
  /\ LoopUnchanged

\* install_connection: adopt the connection and retire the old one's tasks.  The
\* writer begins with the tail, which is not recorded again.
Install(s, c, i, tail) ==
  /\ inner' = [i EXCEPT !.conn = c, !.resuming = FALSE, !.ack_due = FALSE,
                        !.generation = @ + 1]
  /\ net' = CWrite([net EXCEPT ![c].down = Tail(@)], c,
                   [k \in 1..Len(tail) |-> Frame("data", tail[k])])
  /\ reader' = [reader EXCEPT ![c] = "reading"]
  /\ writer' = [writer EXCEPT ![c] = IF tail = <<>> THEN "waiting" ELSE "writing"]
  /\ gen' = [gen EXCEPT ![c] = i.generation + 1]
  /\ loops' = [loops EXCEPT ![s] = NoLoop]

\* The reply.  Resumed: take the tail, then trim to the peer's count; a gap, a
\* refusal or a fresh session is the end of this one.
HandshakeReply(s) ==
  /\ loops[s].pc = "handshake" /\ CReadable(loops[s].conn)
  /\ LET c == loops[s].conn
         f == Head(net[c].down)
     IN  \/ /\ Abandons(inner, loops[s].gen)
            /\ Abandon(s, CClose(net, c))
            /\ UNCHANGED <<reader, writer, gen>>
         \/ /\ ~Abandons(inner, loops[s].gen)
            /\ f.t = "resumed" /\ HasTail(inner.replay, f.n)
            /\ Install(s, c, [inner EXCEPT !.replay = Ack(@, f.n)],
                       TailFrom(inner.replay, f.n))
         \/ /\ ~Abandons(inner, loops[s].gen)
            /\ ~(f.t = "resumed" /\ HasTail(inner.replay, f.n))
            /\ inner' = DeclareDead(inner)
            /\ net' = CClose(net, c)
            /\ loops' = [loops EXCEPT ![s] = NoLoop]
            /\ UNCHANGED <<reader, writer, gen>>
  /\ UNCHANGED <<connect, fed, typed>>
-----------------------------------------------------------------------------
(* reader_task, writer_task and keepalive_task.                            *)

\* Mutant of Consume: every frame is counted as payload.
ConsumeCountsAll(i, f) ==
  LET r == i.received + 1
  IN  [i EXCEPT !.received = r,
                !.replay = IF f.t = "ack" THEN Ack(@, f.n) ELSE @,
                !.ack_due = @ \/ r - i.acked_to_peer >= ACK_EVERY_BYTES]

\* consume_frames: DATA is fed to the core and counted, an ACK trims the replay
\* buffer; an ACK of our own falls due by cadence.
Consume(i, f) ==
  LET r == IF f.t = "data" THEN i.received + 1 ELSE i.received
  IN  [i EXCEPT !.received = r,
                !.replay = IF f.t = "ack" THEN Ack(@, f.n) ELSE @,
                !.ack_due = @ \/ r - i.acked_to_peer >= ACK_EVERY_BYTES]

Reader(c) ==
  /\ reader[c] = "reading" /\ CReadable(c)
  /\ LET f == Head(net[c].down)
     IN  IF Stale(inner, gen[c])
         THEN /\ reader' = [reader EXCEPT ![c] = "done"]
              /\ UNCHANGED <<inner, fed, net>>
         ELSE /\ inner' = Consume(inner, f)
              /\ fed' = IF f.t = "data" THEN Append(fed, f.n) ELSE fed
              /\ net' = [net EXCEPT ![c].down = Tail(@)]
              /\ UNCHANGED reader
  /\ UNCHANGED <<connect, writer, gen, loops, typed>>

ReaderEnd(c) ==
  /\ reader[c] = "reading" /\ CEnd(c)
  /\ reader' = [reader EXCEPT ![c] = "done"]
  /\ LinkLost(gen[c], net)
  /\ UNCHANGED <<connect, writer, gen, fed, typed>>

\* One turn of the writer's inner loop: an ACK that is due goes first; then a
\* piece of the outbox, recorded before it is written; with neither, it waits,
\* unless the page has detached.
WriterTurn(c) ==
  \/ /\ inner.ack_due
     /\ inner' = [inner EXCEPT !.ack_due = FALSE, !.acked_to_peer = inner.received]
     /\ net' = CWrite(net, c, <<Frame("ack", inner.received)>>)
     /\ writer' = [writer EXCEPT ![c] = "writing"]
  \/ /\ ~inner.ack_due /\ inner.outbox # <<>>
     /\ inner' = [inner EXCEPT !.outbox = Tail(@),
                               !.replay = Sent(@, <<Head(inner.outbox)>>)]
     /\ net' = CWrite(net, c, <<Frame("data", Head(inner.outbox))>>)
     /\ writer' = [writer EXCEPT ![c] = "writing"]
  \/ /\ ~inner.ack_due /\ inner.outbox = <<>>
     /\ writer' = [writer EXCEPT ![c] = IF inner.detached THEN "done" ELSE "waiting"]
     /\ UNCHANGED <<inner, net>>

Retire(c) == writer' = [writer EXCEPT ![c] = "done"] /\ UNCHANGED <<inner, net>>

\* writer_signal woke the writer: there is something to write, or the page is
\* gone, or the generation is.
WriterWoken(c) ==
  /\ writer[c] = "waiting"
  /\ inner.ack_due \/ inner.outbox # <<>> \/ inner.detached \/ Stale(inner, gen[c])
  /\ IF Stale(inner, gen[c]) THEN Retire(c) ELSE WriterTurn(c)
  /\ UNCHANGED <<connect, reader, gen, loops, fed, typed>>

\* A write returned.
WriterOk(c) ==
  /\ writer[c] = "writing" /\ net[c].cOpen
  /\ IF Stale(inner, gen[c]) THEN Retire(c) ELSE WriterTurn(c)
  /\ UNCHANGED <<connect, reader, gen, loops, fed, typed>>

\* A write failed.
WriterErr(c) ==
  /\ writer[c] = "writing" /\ WriteFails(c)
  /\ writer' = [writer EXCEPT ![c] = "done"]
  /\ LinkLost(gen[c], net)
  /\ UNCHANGED <<connect, reader, gen, fed, typed>>

\* keepalive_task: the peer was silent past the verdict time.
KeepaliveDead ==
  /\ Probes /\ connect = "up"
  /\ ~inner.detached /\ ~inner.link_down /\ ~inner.suspended /\ ~inner.resuming
  /\ LinkLost(inner.generation, net)
  /\ LoopUnchanged
-----------------------------------------------------------------------------
(* The page's calls.                                                       *)

\* write-input and drive, as far as the tunnel sees them: the core had a unit to
\* send, and take_core_output queued it and woke the writer.
WriteInput ==
  /\ connect = "up" /\ ~CoreClosed /\ typed < MaxUp
  /\ typed' = typed + 1
  /\ inner' = [inner EXCEPT !.outbox = Append(@, typed + 1)]
  /\ UNCHANGED <<connect, reader, writer, gen, loops, fed, net>>

\* suspend: no more redialing; a connection that stands is left as it is.
Suspend ==
  /\ Absences /\ connect = "up" /\ ~inner.suspended
  /\ ~inner.detached /\ ~inner.link_down
  /\ inner' = [inner EXCEPT !.suspended = TRUE]
  /\ UNCHANGED net
  /\ UNCHANGED <<connect, reader, writer, gen, loops, fed, typed>>

\* wake: resume at once what stalled while the page was away.  (The probe of a
\* connection that still stands is the prober's business.)
Wake ==
  /\ Absences /\ inner.suspended
  /\ LET i == [inner EXCEPT !.suspended = FALSE]
     IN  IF i.detached \/ i.link_down \/ ~i.stalled \/ i.resuming
         THEN inner' = i /\ UNCHANGED <<loops, net>>
         ELSE /\ inner' = [i EXCEPT !.stalled = FALSE, !.resuming = TRUE]
              /\ SpawnLoop(i.generation)
              /\ UNCHANGED net
  /\ UNCHANGED <<connect, reader, writer, gen, fed, typed>>

\* detach: the core closes and emits its farewell, if it still can; then the
\* connection goes.
Detach ==
  /\ Detaches /\ connect = "up" /\ ~inner.detached
  /\ LET farewell == IF CoreClosed THEN <<>> ELSE <<typed + 1>>
     IN  /\ inner' = [inner EXCEPT !.detached = TRUE, !.outbox = @ \o farewell]
         /\ typed' = typed + Len(farewell)
  /\ net' = CClose(net, inner.conn)
  /\ UNCHANGED <<connect, reader, writer, gen, loops, fed>>
=============================================================================
