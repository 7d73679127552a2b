------------------------------- MODULE Tunnel -------------------------------
(***************************************************************************)
(* The tunnel end to end: the browser client, the listener and the         *)
(* connections between them.  The two streams of the SSH session must      *)
(* arrive unharmed however often the transport dies, whichever task of     *)
(* either side notices first, and whatever the page does meanwhile.        *)
(***************************************************************************)
EXTENDS ListenerSession, ClientSession

vars == <<lvars, cvars, net, losses>>

Init == LInit /\ CInit /\ NetInit

ClientIdle == UNCHANGED <<cvars, losses>>     \* a step of the listener's
ListenerIdle == UNCHANGED <<lvars, losses>>   \* a step of the client's

Next ==
  \* the listener: handlers, [D]
  \/ \E c \in Conns : StartSession(c) /\ ClientIdle
  \/ \E c \in Conns : ConnectTarget(c) /\ ClientIdle
  \/ \E c \in Conns : ResumeSession(c) /\ ClientIdle
  \/ \E c \in Conns : HelloLost(c) /\ ClientIdle
  \/ \E c \in Conns : Replied(c) /\ ClientIdle
  \/ \E c \in Conns : ReplyFailed(c) /\ ClientIdle
  \/ \E c \in Conns : Lingered(c) /\ ClientIdle
  \/ \E c \in Conns : ClientReader(c) /\ ClientIdle
  \/ \E c \in Conns : ClientReaderEnd(c) /\ ClientIdle
  \* [A], [B], [C], the grace timers and sshd
  \/ TcpReaderGo /\ ClientIdle
  \/ TcpReader /\ ClientIdle
  \/ HostKeyRefused /\ ClientIdle
  \/ TcpReaderEnd /\ ClientIdle
  \/ ClientWriter /\ ClientIdle
  \/ ClientWriterOk /\ ClientIdle
  \/ ClientWriterErr /\ ClientIdle
  \/ ClientWriterFinish /\ ClientIdle
  \/ ClientWriterExit /\ ClientIdle
  \/ TcpWriter /\ ClientIdle
  \/ TcpWriterEnd /\ ClientIdle
  \/ \E e \in timers : GraceExpired(e) /\ ClientIdle
  \/ SshdGone /\ ClientIdle
  \* the client: connect, tasks, resume loop
  \/ ConnectReply /\ ListenerIdle
  \/ ConnectLost /\ ListenerIdle
  \/ \E c \in Conns : Reader(c) /\ ListenerIdle
  \/ \E c \in Conns : ReaderEnd(c) /\ ListenerIdle
  \/ \E c \in Conns : WriterWoken(c) /\ ListenerIdle
  \/ \E c \in Conns : WriterOk(c) /\ ListenerIdle
  \/ \E c \in Conns : WriterErr(c) /\ ListenerIdle
  \/ KeepaliveDead /\ ListenerIdle
  \/ \E s \in Slots : LoopSpawned(s) /\ ListenerIdle
  \/ \E s \in Slots : BackedOff(s) /\ ListenerIdle
  \/ \E s \in Slots : DialFailed(s) /\ ListenerIdle
  \/ \E s \in Slots : DialOk(s) /\ ListenerIdle
  \/ \E s \in Slots : HandshakeFailed(s) /\ ListenerIdle
  \/ \E s \in Slots : HandshakeReply(s) /\ ListenerIdle
  \* the page's calls
  \/ WriteInput /\ ListenerIdle
  \/ Suspend /\ ListenerIdle
  \/ Wake /\ ListenerIdle
  \/ Detach /\ ListenerIdle
  \* the path
  \/ \E c \in Conns : Lose(c) /\ UNCHANGED <<lvars, cvars>>

Spec == Init /\ [][Next]_vars
-----------------------------------------------------------------------------
(* Fairness.  Every task of either side is polled again once what it awaits *)
(* is ready: the executors are cooperative and starve nobody, a timer       *)
(* fires, and a connection one end gave up fails at the other, if only by   *)
(* QUIC's idle timeout.  Nothing is assumed of the path, of sshd while our  *)
(* half of its leg is open, or of the page.                                 *)

HandlerStep(c) ==
  /\ \/ StartSession(c) \/ ConnectTarget(c) \/ ResumeSession(c) \/ HelloLost(c)
     \/ Replied(c) \/ ReplyFailed(c) \/ Lingered(c) \/ ClientReader(c)
     \/ ClientReaderEnd(c)
  /\ ClientIdle

TcpReaderStep == (TcpReaderGo \/ TcpReaderEnd) /\ ClientIdle

ClientWriterStep ==
  /\ \/ ClientWriter \/ ClientWriterOk \/ ClientWriterErr \/ ClientWriterFinish
     \/ ClientWriterExit
  /\ ClientIdle

TcpWriterStep == (TcpWriter \/ TcpWriterEnd) /\ ClientIdle

TimerStep == (\E e \in timers : GraceExpired(e)) /\ ClientIdle

LoopStep(s) ==
  /\ \/ LoopSpawned(s) \/ BackedOff(s) \/ DialFailed(s) \/ DialOk(s)
     \/ HandshakeFailed(s) \/ HandshakeReply(s)
  /\ ListenerIdle

Fairness ==
  /\ \A c \in Conns : /\ WF_vars(HandlerStep(c))
                      /\ WF_vars((Reader(c) \/ ReaderEnd(c)) /\ ListenerIdle)
                      /\ WF_vars((WriterWoken(c) \/ WriterOk(c) \/ WriterErr(c))
                                 /\ ListenerIdle)
  /\ \A s \in Slots : WF_vars(LoopStep(s))
  /\ WF_vars((ConnectReply \/ ConnectLost) /\ ListenerIdle)
  /\ WF_vars(TcpReaderStep) /\ WF_vars(ClientWriterStep) /\ WF_vars(TcpWriterStep)
  /\ WF_vars(TimerStep)
  /\ WF_vars(task.C = "done" /\ SshdGone /\ ClientIdle)

FairSpec == Spec /\ Fairness
-----------------------------------------------------------------------------
(* Vocabulary of the properties.                                           *)

Upto(n) == [i \in 1..n |-> i]
Prefix(s, t) == Len(s) <= Len(t) /\ s = SubSeq(t, 1, Len(s))

\* The units some frames carry.
Units(fs) ==
  LET carried[i \in 0..Len(fs)] ==
        IF i = 0 THEN <<>>
        ELSE IF fs[i].t = "data" THEN Append(carried[i - 1], fs[i].n)
                                 ELSE carried[i - 1]
  IN  carried[Len(fs)]

\* The page has a session that has not ended.
Alive == connect = "up" /\ ~inner.detached /\ ~inner.link_down

\* The connection stands at both ends.
Stands(c) == net[c].cOpen /\ net[c].lOpen

\* The reader of the current attachment.
CurrentReader(c) == h[c].pc = "reading" /\ h[c].gen = st.generation
-----------------------------------------------------------------------------
(* Safety.                                                                 *)

\* Both sides' state is well formed; in particular the two subtractions that set
\* the ACK cadence (received - acked_out, received - acked_to_peer) never go below
\* zero, where the u64 of session.rs would wrap or panic.
TypeOK ==
  /\ net \in NetType
  /\ reg \in {"none", "live", "gone"}
  /\ st.send \in Conns \cup {NoConn} /\ st.conn \in Conns \cup {NoConn}
  /\ st.received - st.acked_out \in Nat
  /\ \A c \in Conns : h[c].pc \in {"hello", "connecting", "replying", "refusing",
                                   "gap", "reading", "done"}
  /\ connect \in {"pending", "up", "failed"}
  /\ inner.conn \in Conns
  /\ inner.received - inner.acked_to_peer \in Nat
  /\ reader \in [Conns -> {"none", "reading", "done"}]
  /\ writer \in [Conns -> {"none", "waiting", "writing", "done"}]
  /\ \A s \in Slots : loops[s].pc \in {"none", "spawned", "dialing", "handshake", "backoff"}

\* Keystrokes reach sshd in order, none lost, none twice, over any number of
\* resumes -- unless an attach used a count that had gone stale (finding UpExact).
UpIntegrity == ~raced => Prefix(sshdIn, Upto(typed))

\* Shell output reaches the SSH core the same way.
DownIntegrity == ~raced => Prefix(fed, handed)

\* While an attachment stands, nothing sshd ever sent is missing or there twice: what
\* the core was fed, what is in flight and what [B] has queued are together all of
\* it.  It rests on attach dropping exactly what the tail repeats.
DownConserved ==
  ~raced /\ st.attached /\ st.conn # NoConn /\ Stands(st.conn)
    => fed \o Units(net[st.conn].down) \o Units(st.outq) = handed

\* "a still-attached client sees the tail of the SSH stream and then a clean end":
\* when [B] FINs a connection that stands, all of the stream is on its way.
CleanEnd ==
  [][\A c \in Conns :
       ~raced /\ st.conn = c /\ Stands(c) /\ ~net[c].fin /\ net'[c].fin
         => fed \o Units(net[c].down) = handed]_vars

\* Neither side trims from its replay buffer a byte the other has not taken in: an
\* ACK never runs ahead of what the SSH core was fed, or of what [D] queued for sshd.
\* Not even an attach whose counts had gone stale makes it.
AckSound ==
  /\ st.replay.acked <= Len(fed)
  /\ ~st.dead => inner.replay.acked <= Len(sshdIn) + Len(st.inq)

\* A live attached session has exactly one reader [D], on the connection a supersede
\* or a park would close; without it nobody would notice the attachment's death.
AttachedHasReader ==
  st.attached /\ ~st.dead
    => st.conn # NoConn /\ \A c \in Conns : CurrentReader(c) <=> c = st.conn

\* A session that is parked has its own grace timer running: no order of parks,
\* resumes and late timers leaves one behind that nothing will ever expire.  With
\* --resume-grace 0 no session is ever parked.
ParkedHasTimer ==
  reg = "live" /\ ~st.attached /\ task.A # "none"
    => st.grace /\ st.park_epoch \in timers

\* The reader, the writer, the prober and wake all start resume loops; at most one
\* runs at a time, or two connections would be installed over each other.
OneLoop == \A s, t \in Slots : loops[s].pc # "none" /\ loops[t].pc # "none" => s = t

\* A live session is never orphaned: when nobody reads its connection any more, a
\* resume is under way or the page is away and wake will start one.
NoOrphan == Alive /\ reader[inner.conn] # "reading" => inner.resuming \/ inner.stalled

\* link-state says `reconnecting` only while some loop is at work, so that flag can
\* never keep every later link_lost from starting one.
ResumingHasLoop == Alive /\ inner.resuming => \E s \in Slots : loops[s].pc # "none"
-----------------------------------------------------------------------------
(* Liveness, under FairSpec.                                               *)

\* A resume never goes on for ever: every failed attempt is charged, so the loop
\* ends in a connection, a verdict, or a page that went away.
ResumeEnds == Alive /\ inner.resuming ~> ~(Alive /\ inner.resuming)

\* A parked session is resumed or expires.
ParkEnds ==
  reg = "live" /\ ~st.attached /\ task.A # "none" ~> st.attached \/ reg = "gone"

\* A client whose session is over at the listener learns of it: by the FIN, or by
\* the refusal of its next resume.
DeadNoticed == st.dead /\ Alive ~> ~Alive \/ inner.stalled \/ raced
-----------------------------------------------------------------------------
(* What the documentation says and the code does not keep.                 *)

\* "both sides retransmit exactly the bytes the other missed": sshd gets what was
\* typed, whatever the timing.  resume_session takes its counts before it awaits the
\* write of its reply and attaches after it.
UpExact == Prefix(sshdIn, Upto(typed))

\* "the session can never be resumed, so it ends here": when a gap ends a session,
\* it is one its client could not have resumed.
GapIsFinal ==
  [][\A c \in Conns : h[c].pc = "gap" /\ h'[c].pc = "done"
                        => ~HasTail(st.replay, inner.received)]_vars

\* A parked session is "bounded by the listener's grace timer": one that is
\* registered and not attached is about to be, or has its timer.
RegisteredIsBounded ==
  reg = "live" /\ ~st.attached
    => \/ st.park_epoch \in timers
       \/ \E c \in Conns : h[c].pc = "replying" /\ h[c].fresh
=============================================================================
