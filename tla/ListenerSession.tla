--------------------------- MODULE ListenerSession ---------------------------
(***************************************************************************)
(* The listener half of the tunnel (listener-core/src/session.rs): one     *)
(* resumable session, the tasks [A] [B] [C] that own its sshd leg, and one *)
(* handler per client connection, which ends as that attachment's reader   *)
(* [D].  The executor is single-threaded and cooperative, so an action is  *)
(* what a task does from one await to the next.  A stream is a sequence of *)
(* units; a unit stands for one chunk, carried by one DATA frame.          *)
(* Enrollment, PING/PONG and the clock are left to other modules: a grace  *)
(* timer may fire at any moment after its park.                            *)
(***************************************************************************)
EXTENDS Wire, Replay

CONSTANTS Graces,           \* --resume-grace, as far as it matters: is it positive?
          Hangups,          \* whether sshd may hang up or present a wrong key
          MaxDown           \* bound: units sshd ever sends

ASSUME GraceAssumption == Graces \in (SUBSET BOOLEAN) \ {{}} /\ Hangups \in BOOLEAN
ASSUME MaxDownAssumption == MaxDown \in Nat

VARIABLES st,      \* SessionState
          reg,     \* Registry: the session is not yet in it, live, or buried
          h,       \* the handler of each connection
          task,    \* where [A], [B] and [C] are
          job,     \* the write [B] has in flight: its generation and connection
          timers,  \* the park epochs whose grace timer is running
          sshd,    \* external: the sshd end of the TCP leg is "up" or "gone"
          handed,  \* history: what sshd sent and [A] took in
          sshdIn,  \* history: what sshd received
          raced    \* history: some attach used a snapshot that had gone stale

lvars == <<st, reg, h, task, job, timers, sshd, handed, sshdIn, raced>>

NoConn == 0
NoJob == [gen |-> 0, conn |-> NoConn]
Bye == 0     \* the last unit of a session whose shell exits

\* SessionState, and the grace its tasks are given, which never changes.
NewSession ==
  [replay |-> NewReplay, received |-> 0, acked_out |-> 0, outq |-> <<>>, inq |-> <<>>,
   send |-> NoConn, conn |-> NoConn, attached |-> FALSE, generation |-> 0,
   park_epoch |-> 0, dead |-> FALSE, grace |-> TRUE]

\* A handler: what it awaits, the generation it attached under, and what it
\* computed before writing its reply and uses after it.
NewHandler == [pc |-> "hello", gen |-> 0, tail |-> <<>>, received |-> 0, sent |-> 0,
               fresh |-> FALSE]

LInit ==
  /\ st = NewSession
  /\ reg = "none"
  /\ h = [c \in Conns |-> NewHandler]
  /\ task = [A |-> "none", B |-> "none", C |-> "none"]
  /\ job = NoJob
  /\ timers = {}
  /\ sshd = "up"
  /\ handed = <<>> /\ sshdIn = <<>>
  /\ raced = FALSE
-----------------------------------------------------------------------------
DataFrames(units) == [i \in 1..Len(units) |-> Frame("data", units[i])]

\* Mutant of Attach: what the old attachment left unwritten is kept.
AttachKeepsQueue(s, c, tail) ==
  [s EXCEPT !.outq = @ \o DataFrames(tail), !.send = c, !.conn = c, !.attached = TRUE,
            !.generation = @ + 1, !.acked_out = s.received]

\* Mutant of Attach: the wrong counter restarts the ACK cadence.
AttachCountsSent(s, c, tail) ==
  [s EXCEPT !.outq = DataFrames(tail), !.send = c, !.conn = c, !.attached = TRUE,
            !.generation = @ + 1, !.acked_out = s.replay.sent_total]

\* Mutant of Attach: the queue is cleared and the tail forgotten.
AttachForgetsTail(s, c, tail) ==
  [s EXCEPT !.outq = <<>>, !.send = c, !.conn = c, !.attached = TRUE,
            !.generation = @ + 1, !.acked_out = s.received]

\* attach: the new attachment wins.  What the old one left unwritten is dropped,
\* because the tail holds it again.
Attach(s, c, tail) ==
  [s EXCEPT !.outq = DataFrames(tail), !.send = c, !.conn = c, !.attached = TRUE,
            !.generation = @ + 1, !.acked_out = s.received]

CloseConn(n, c) == IF c = NoConn THEN n ELSE LClose(n, c)

\* Mutant of Parked: the session still counts as attached.
ParkedStaysAttached(s) ==
  [s EXCEPT !.conn = NoConn, !.send = NoConn,
            !.generation = @ + 1, !.park_epoch = @ + 1]

\* park's change of the state; the write half is released at once.
Parked(s) ==
  [s EXCEPT !.conn = NoConn, !.send = NoConn, !.attached = FALSE,
            !.generation = @ + 1, !.park_epoch = @ + 1]

\* end_session: unregister, and let every task find out.
EndSession ==
  /\ st' = [st EXCEPT !.dead = TRUE]
  /\ reg' = "gone"
  /\ UNCHANGED timers

\* Mutant of Park: the timer is started for the epoch before the park.
ParkTimesOldEpoch(n) ==
  \/ /\ st.dead
     /\ net' = n
     /\ UNCHANGED <<st, reg, timers>>
  \/ /\ ~st.dead
     /\ net' = CloseConn(n, st.conn)
     /\ st' = Parked(st)
     /\ timers' = timers \cup {st.park_epoch}
     /\ UNCHANGED reg

\* park: nothing for a dead session; the end of one that may not park; else the
\* attachment is let go and a grace timer starts for this very park.
Park(n) ==
  \/ /\ st.dead
     /\ net' = n
     /\ UNCHANGED <<st, reg, timers>>
  \/ /\ ~st.dead /\ ~st.grace
     /\ net' = n
     /\ EndSession
  \/ /\ ~st.dead /\ st.grace
     /\ net' = CloseConn(n, st.conn)
     /\ st' = Parked(st)
     /\ timers' = timers \cup {st.park_epoch + 1}
     /\ UNCHANGED reg
-----------------------------------------------------------------------------
(* serve_v2: the handler of one connection, up to its reply.               *)

Handler(c, pc) == h' = [h EXCEPT ![c] = [NewHandler EXCEPT !.pc = pc]]

\* A handler returns: the last handle on its connection is dropped.
Return(c) == /\ Handler(c, "done")
             /\ net' = LClose(net, c)

Refuse(c, pc) ==
  /\ Handler(c, pc)
  /\ net' = LFinish(LWrite([net EXCEPT ![c].up = Tail(@)], c, <<Frame("refused", 0)>>), c)

\* read_hello without a resume: start_session begins to dial sshd.
StartSession(c) ==
  /\ h[c].pc = "hello" /\ LReadable(c) /\ Head(net[c].up).t = "hello"
  /\ net' = [net EXCEPT ![c].up = Tail(@)]
  /\ Handler(c, "connecting")
  /\ UNCHANGED <<st, reg, task, job, timers, sshd, handed, sshdIn, raced>>

\* connect_target resolved.  Reached: the session is registered and the reply is
\* on its way; not reached: a refusal.
ConnectTarget(c) ==
  /\ h[c].pc = "connecting"
  /\ \/ /\ reg' = "live"
        /\ \E g \in Graces : st' = [NewSession EXCEPT !.grace = g]
        /\ h' = [h EXCEPT ![c] = [NewHandler EXCEPT !.pc = "replying", !.fresh = TRUE]]
        /\ net' = LWrite(net, c, <<Frame("new", 0)>>)
     \/ /\ h' = [h EXCEPT ![c].pc = "refusing"]
        /\ net' = LFinish(LWrite(net, c, <<Frame("refused", 0)>>), c)
        /\ UNCHANGED <<st, reg>>
  /\ UNCHANGED <<task, job, timers, sshd, handed, sshdIn, raced>>

\* resume_session, up to the await of its reply.  A session that is gone is
\* refused, and so is a count the replay buffer no longer reaches back to;
\* else the tail and our own count are taken now and used after the write.
ResumeSession(c) ==
  /\ h[c].pc = "hello" /\ LReadable(c) /\ Head(net[c].up).t = "resume"
  /\ LET claim == Head(net[c].up).n IN
     \/ /\ reg # "live" \/ st.dead
        /\ Refuse(c, "refusing")
     \/ /\ reg = "live" /\ ~st.dead /\ ~HasTail(st.replay, claim)
        /\ Refuse(c, "gap")
     \/ /\ reg = "live" /\ ~st.dead /\ HasTail(st.replay, claim)
        /\ h' = [h EXCEPT ![c] = [NewHandler EXCEPT !.pc = "replying",
                                                    !.tail = TailFrom(st.replay, claim),
                                                    !.received = st.received,
                                                    !.sent = st.replay.sent_total]]
        /\ net' = LWrite([net EXCEPT ![c].up = Tail(@)], c,
                         <<Frame("resumed", st.received)>>)
  /\ UNCHANGED <<st, reg, task, job, timers, sshd, handed, sshdIn, raced>>

\* read_hello: the connection ended before its HELLO.
HelloLost(c) ==
  /\ net[c].dialed /\ h[c].pc = "hello" /\ LEnd(c)
  /\ Return(c)
  /\ UNCHANGED <<st, reg, task, job, timers, sshd, handed, sshdIn, raced>>

\* The reply is written: attach, spawn the session's tasks if it is new, and
\* become the attachment's reader.
Replied(c) ==
  /\ h[c].pc = "replying" /\ net[c].lOpen
  /\ st' = Attach(st, c, h[c].tail)
  /\ net' = CloseConn(net, st.conn)
  /\ h' = [h EXCEPT ![c] = [NewHandler EXCEPT !.pc = "reading", !.gen = st.generation + 1]]
  /\ task' = IF h[c].fresh THEN [A |-> "wait", B |-> "idle", C |-> "idle"] ELSE task
  /\ raced' = (raced \/ st.dead \/ st.received # h[c].received
                     \/ st.replay.sent_total # h[c].sent)
  /\ UNCHANGED <<reg, job, timers, sshd, handed, sshdIn>>

\* The write of the reply failed: the handler returns and touches nothing.
ReplyFailed(c) ==
  /\ h[c].pc = "replying" /\ WriteFails(c)
  /\ Return(c)
  /\ UNCHANGED <<st, reg, task, job, timers, sshd, handed, sshdIn, raced>>

\* refuse has lingered: the connection goes, and after a gap the session too.
Lingered(c) ==
  /\ \/ /\ h[c].pc = "refusing"
        /\ UNCHANGED <<st, reg, timers>>
     \/ /\ h[c].pc = "gap"
        /\ EndSession
  /\ Return(c)
  /\ UNCHANGED <<task, job, sshd, handed, sshdIn, raced>>
-----------------------------------------------------------------------------
(* [D] pump_client_reader.                                                 *)

\* Mutant of Apply: DATA is queued for sshd and not counted.
ApplyUncounted(s, f) ==
  IF f.t = "data" THEN [s EXCEPT !.inq = Append(@, f.n)]
                  ELSE [s EXCEPT !.replay = Ack(@, f.n)]

\* Frame::apply: DATA is counted and queued for sshd, with an ACK when one is
\* due; an ACK trims the replay buffer.
Apply(s, f) ==
  IF f.t = "data"
  THEN LET n   == s.received + 1
           due == n - s.acked_out >= ACK_EVERY_BYTES
       IN  [s EXCEPT !.received = n, !.inq = Append(@, f.n),
                     !.acked_out = IF due THEN n ELSE @,
                     !.outq = IF due THEN Append(@, Frame("ack", n)) ELSE @]
  ELSE [s EXCEPT !.replay = Ack(@, f.n)]

Superseded(c) == st.generation # h[c].gen

\* A frame arrives; a superseded reader retires before it touches anything.
ClientReader(c) ==
  /\ h[c].pc = "reading" /\ LReadable(c)
  /\ IF Superseded(c)
     THEN Return(c) /\ UNCHANGED st
     ELSE /\ st' = Apply(st, Head(net[c].up))
          /\ net' = [net EXCEPT ![c].up = Tail(@)]
          /\ UNCHANGED h
  /\ UNCHANGED <<reg, task, job, timers, sshd, handed, sshdIn, raced>>

\* The attachment ended: retire quietly, or park the session.
ClientReaderEnd(c) ==
  /\ h[c].pc = "reading" /\ LEnd(c)
  /\ Handler(c, "done")
  /\ IF Superseded(c)
     THEN net' = LClose(net, c) /\ UNCHANGED <<st, reg, timers>>
     ELSE Park(LClose(net, c))
  /\ UNCHANGED <<task, job, sshd, handed, sshdIn, raced>>
-----------------------------------------------------------------------------
(* [A] pump_tcp_to_client.                                                 *)

\* wait_attached_or_dead: where [A] goes when it is polled there.
AtWait == IF st.dead THEN "done" ELSE IF st.attached THEN "read" ELSE "wait"

\* [A] was paused, and the session is attached again or over.
TcpReaderGo ==
  /\ task.A = "wait" /\ AtWait # "wait"
  /\ task' = [task EXCEPT !.A = AtWait]
  /\ UNCHANGED <<st, reg, h, job, timers, sshd, handed, sshdIn, raced, net>>

\* The read in flight returns a chunk -- maybe long after the park.  It is
\* recorded in the replay buffer, then queued.  A shell that exits says so in
\* its last chunk and hangs up.
TcpReader ==
  /\ task.A = "read" /\ sshd = "up" /\ Len(handed) < MaxDown
  /\ \E last \in {FALSE, Hangups} :
       LET u == IF last THEN Bye ELSE Len(handed) + 1 IN
       /\ st' = [st EXCEPT !.replay = Sent(@, <<u>>), !.outq = Append(@, Frame("data", u))]
       /\ handed' = Append(handed, u)
       /\ sshd' = IF last THEN "gone" ELSE "up"
  /\ task' = [task EXCEPT !.A = AtWait]
  /\ UNCHANGED <<reg, h, job, timers, sshdIn, raced, net>>

\* The sniffer refuses the server's host key, which only its first chunks carry:
\* the session ends and the chunk goes nowhere.
HostKeyRefused ==
  /\ Hangups /\ task.A = "read" /\ sshd = "up" /\ handed = <<>>
  /\ EndSession
  /\ task' = [task EXCEPT !.A = "done"]
  /\ UNCHANGED <<h, job, sshd, handed, sshdIn, raced, net>>

\* sshd hung up: the session cannot be resumed into anything.
TcpReaderEnd ==
  /\ task.A = "read" /\ sshd = "gone"
  /\ EndSession
  /\ task' = [task EXCEPT !.A = "done"]
  /\ UNCHANGED <<h, job, sshd, handed, sshdIn, raced, net>>
-----------------------------------------------------------------------------
(* [B] pump_client_writer.                                                 *)

\* next_write_job is Send: the stream is borrowed for as long as the write takes.
ClientWriter ==
  /\ task.B = "idle" /\ st.attached /\ st.send # NoConn /\ st.outq # <<>>
  /\ net' = LWrite(net, st.send, <<Head(st.outq)>>)
  /\ job' = [gen |-> st.generation, conn |-> st.send]
  /\ st' = [st EXCEPT !.outq = Tail(@), !.send = NoConn]
  /\ task' = [task EXCEPT !.B = "writing"]
  /\ UNCHANGED <<reg, h, timers, sshd, handed, sshdIn, raced>>

\* The session was superseded or parked while the write was in flight.
Abandoned(j) == st.generation # j.gen \/ ~st.attached

\* The write returned: put the stream back, unless it is no longer wanted.
ClientWriterOk ==
  /\ task.B = "writing" /\ net[job.conn].lOpen
  /\ st' = IF Abandoned(job) THEN st ELSE [st EXCEPT !.send = job.conn]
  /\ task' = [task EXCEPT !.B = "idle"]
  /\ job' = NoJob
  /\ UNCHANGED <<reg, h, timers, sshd, handed, sshdIn, raced, net>>

\* The write failed: same verdict as the reader's.
ClientWriterErr ==
  /\ task.B = "writing" /\ WriteFails(job.conn)
  /\ IF Abandoned(job)
     THEN UNCHANGED <<st, reg, timers, net>>
     ELSE Park(net)
  /\ task' = [task EXCEPT !.B = "idle"]
  /\ job' = NoJob
  /\ UNCHANGED <<h, sshd, handed, sshdIn, raced>>

\* Mutant of ClientWriterFinish: it does not wait for the queue to drain.
FinishUndrained ==
  /\ task.B = "idle" /\ st.attached /\ st.send # NoConn /\ st.dead
  /\ net' = LFinish(net, st.send)
  /\ st' = [st EXCEPT !.attached = FALSE, !.conn = NoConn, !.send = NoConn]
  /\ task' = [task EXCEPT !.B = "done"]
  /\ UNCHANGED <<reg, h, job, timers, sshd, handed, sshdIn, raced>>

\* Mutant of ClientWriterFinish: the stream is let go without a FIN.
FinishSilently ==
  /\ task.B = "idle" /\ st.attached /\ st.send # NoConn /\ st.outq = <<>> /\ st.dead
  /\ st' = [st EXCEPT !.attached = FALSE, !.conn = NoConn, !.send = NoConn]
  /\ task' = [task EXCEPT !.B = "done"]
  /\ UNCHANGED <<reg, h, job, timers, sshd, handed, sshdIn, raced, net>>

\* next_write_job is Finish: drained and dead, FIN the client's stream.
ClientWriterFinish ==
  /\ task.B = "idle" /\ st.attached /\ st.send # NoConn /\ st.outq = <<>> /\ st.dead
  /\ net' = LFinish(net, st.send)
  /\ st' = [st EXCEPT !.attached = FALSE, !.conn = NoConn, !.send = NoConn]
  /\ task' = [task EXCEPT !.B = "done"]
  /\ UNCHANGED <<reg, h, job, timers, sshd, handed, sshdIn, raced>>

\* next_write_job is Exit: dead, and no attachment wants the bytes.
ClientWriterExit ==
  /\ task.B = "idle" /\ ~st.attached /\ st.dead
  /\ task' = [task EXCEPT !.B = "done"]
  /\ UNCHANGED <<st, reg, h, job, timers, sshd, handed, sshdIn, raced, net>>
-----------------------------------------------------------------------------
(* [C] pump_client_to_tcp, the grace timer and sshd.                       *)

\* A chunk for sshd is written, or sshd is not there to take it.
TcpWriter ==
  /\ task.C = "idle" /\ st.inq # <<>>
  /\ \/ /\ sshd = "up"
        /\ sshdIn' = Append(sshdIn, Head(st.inq))
        /\ st' = [st EXCEPT !.inq = Tail(@)]
        /\ UNCHANGED <<reg, task>>
     \/ /\ sshd = "gone"
        /\ st' = [st EXCEPT !.inq = Tail(@), !.dead = TRUE]
        /\ reg' = "gone"
        /\ task' = [task EXCEPT !.C = "done"]
        /\ UNCHANGED sshdIn
  /\ UNCHANGED <<h, job, timers, sshd, handed, raced, net>>

\* Dead and drained: the TCP leg's write half is dropped.
TcpWriterEnd ==
  /\ task.C = "idle" /\ st.inq = <<>> /\ st.dead
  /\ task' = [task EXCEPT !.C = "done"]
  /\ UNCHANGED <<st, reg, h, job, timers, sshd, handed, sshdIn, raced, net>>

\* A grace timer fires; it ends the session only if the park it was started for
\* is still the current one.
GraceExpired(e) ==
  /\ e \in timers
  /\ timers' = timers \ {e}
  /\ IF ~st.dead /\ ~st.attached /\ st.park_epoch = e
     THEN st' = [st EXCEPT !.dead = TRUE] /\ reg' = "gone"
     ELSE UNCHANGED <<st, reg>>
  /\ UNCHANGED <<h, task, job, sshd, handed, sshdIn, raced, net>>

\* External: sshd hangs up, of its own accord or because our half is closed.
SshdGone ==
  /\ sshd = "up"
  /\ (Hangups /\ task.A # "none") \/ task.C = "done"
  /\ sshd' = "gone"
  /\ UNCHANGED <<st, reg, h, task, job, timers, handed, sshdIn, raced, net>>
=============================================================================
