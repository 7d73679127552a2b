---------------------------- MODULE Tunnel_proofs ----------------------------
(***************************************************************************)
(* The control of the tunnel for every number of connections, losses and   *)
(* units, every cap and every budget: types, the ACK cadence, the resume   *)
(* loop, the attachment and its reader, and the grace timers.              *)
(***************************************************************************)
EXTENDS Tunnel, Replay_proofs, WellFoundedInduction

(* The operators on the connections, field by field. *)

LTake(n, c) == [n EXCEPT ![c].up = Tail(@)]
CTake(n, c) == [n EXCEPT ![c].down = Tail(@)]

LEMMA NetFields ==
  ASSUME NEW n \in NetType, NEW c \in Conns
  PROVE  /\ n[c].dialed \in BOOLEAN /\ n[c].cOpen \in BOOLEAN
         /\ n[c].lOpen \in BOOLEAN /\ n[c].fin \in BOOLEAN
         /\ n[c].up \in Seq(Frames) /\ n[c].down \in Seq(Frames)
BY DEF NetType, ConnType

LEMMA HeadFrames ==
  ASSUME NEW q \in Seq(Frames), q # <<>>
  PROVE  /\ Head(q) \in Frames /\ Head(q).n \in Nat /\ Head(q).t \in FrameTypes
         /\ Tail(q) \in Seq(Frames)
<1>1. Head(q) \in Frames /\ Tail(q) \in Seq(Frames)
  BY HeadTailProperties
<1> QED BY <1>1 DEF Frames

\* What every operator but Dialed leaves alone.
SameDialed(n, m) == \A d \in Conns : m[d].dialed = n[d].dialed
SameUp(n, m) == \A d \in Conns : m[d].up = n[d].up
SameDown(n, m) == \A d \in Conns : m[d].down = n[d].down
SameCOpen(n, m) == \A d \in Conns : m[d].cOpen = n[d].cOpen
SameLOpen(n, m) == \A d \in Conns : m[d].lOpen = n[d].lOpen
SameFin(n, m) == \A d \in Conns : m[d].fin = n[d].fin

LEMMA LTakeIs ==
  ASSUME NEW n \in NetType, NEW c \in Conns, n[c].up # <<>>
  PROVE  /\ LTake(n, c) \in NetType
         /\ SameDialed(n, LTake(n, c)) /\ SameDown(n, LTake(n, c))
         /\ SameCOpen(n, LTake(n, c)) /\ SameLOpen(n, LTake(n, c)) /\ SameFin(n, LTake(n, c))
         /\ \A d \in Conns : LTake(n, c)[d].up = IF d = c THEN Tail(n[d].up) ELSE n[d].up
<1>1. Tail(n[c].up) \in Seq(Frames)
  BY NetFields, HeadTailProperties
<1> QED BY <1>1 DEF LTake, NetType, ConnType, SameDialed, SameDown, SameCOpen, SameLOpen, SameFin

LEMMA CTakeIs ==
  ASSUME NEW n \in NetType, NEW c \in Conns, n[c].down # <<>>
  PROVE  /\ CTake(n, c) \in NetType
         /\ SameDialed(n, CTake(n, c)) /\ SameUp(n, CTake(n, c))
         /\ SameCOpen(n, CTake(n, c)) /\ SameLOpen(n, CTake(n, c)) /\ SameFin(n, CTake(n, c))
         /\ \A d \in Conns : CTake(n, c)[d].down = IF d = c THEN Tail(n[d].down) ELSE n[d].down
<1>1. Tail(n[c].down) \in Seq(Frames)
  BY NetFields, HeadTailProperties
<1> QED BY <1>1 DEF CTake, NetType, ConnType, SameDialed, SameUp, SameCOpen, SameLOpen, SameFin

LEMMA LWriteIs ==
  ASSUME NEW n \in NetType, NEW c \in Conns, NEW fs \in Seq(Frames)
  PROVE  /\ LWrite(n, c, fs) \in NetType
         /\ SameDialed(n, LWrite(n, c, fs)) /\ SameUp(n, LWrite(n, c, fs))
         /\ SameCOpen(n, LWrite(n, c, fs)) /\ SameLOpen(n, LWrite(n, c, fs))
         /\ SameFin(n, LWrite(n, c, fs))
         /\ \A d \in Conns : LWrite(n, c, fs)[d].down
              = IF d = c /\ n[d].cOpen /\ n[d].lOpen THEN n[d].down \o fs ELSE n[d].down
<1>1. n[c].down \o fs \in Seq(Frames)
  BY NetFields, ConcatProperties
<1> QED BY <1>1 DEF LWrite, NetType, ConnType, SameDialed, SameUp, SameCOpen, SameLOpen, SameFin

LEMMA CWriteIs ==
  ASSUME NEW n \in NetType, NEW c \in Conns, NEW fs \in Seq(Frames)
  PROVE  /\ CWrite(n, c, fs) \in NetType
         /\ SameDialed(n, CWrite(n, c, fs)) /\ SameDown(n, CWrite(n, c, fs))
         /\ SameCOpen(n, CWrite(n, c, fs)) /\ SameLOpen(n, CWrite(n, c, fs))
         /\ SameFin(n, CWrite(n, c, fs))
         /\ \A d \in Conns : CWrite(n, c, fs)[d].up
              = IF d = c /\ n[d].cOpen /\ n[d].lOpen THEN n[d].up \o fs ELSE n[d].up
<1>1. n[c].up \o fs \in Seq(Frames)
  BY NetFields, ConcatProperties
<1> QED BY <1>1 DEF CWrite, NetType, ConnType, SameDialed, SameDown, SameCOpen, SameLOpen, SameFin

LEMMA LFinishIs ==
  ASSUME NEW n \in NetType, NEW c \in Conns
  PROVE  /\ LFinish(n, c) \in NetType
         /\ SameDialed(n, LFinish(n, c)) /\ SameUp(n, LFinish(n, c))
         /\ SameDown(n, LFinish(n, c))
         /\ SameCOpen(n, LFinish(n, c)) /\ SameLOpen(n, LFinish(n, c))
         /\ \A d \in Conns : LFinish(n, c)[d].fin <=> d = c \/ n[d].fin
BY DEF LFinish, NetType, ConnType, SameDialed, SameUp, SameDown, SameCOpen, SameLOpen

LEMMA LCloseIs ==
  ASSUME NEW n \in NetType, NEW c \in Conns
  PROVE  /\ LClose(n, c) \in NetType
         /\ SameDialed(n, LClose(n, c)) /\ SameDown(n, LClose(n, c))
         /\ SameCOpen(n, LClose(n, c)) /\ SameFin(n, LClose(n, c))
         /\ \A d \in Conns : /\ LClose(n, c)[d].lOpen <=> d # c /\ n[d].lOpen
                             /\ LClose(n, c)[d].up = IF d = c THEN <<>> ELSE n[d].up
<1> DEFINE m == [n EXCEPT ![c].lOpen = FALSE]
<1>1. m \in NetType /\ \A d \in Conns : m[d] = IF d = c THEN [n[c] EXCEPT !.lOpen = FALSE] ELSE n[d]
  BY DEF NetType, ConnType
<1>2. LClose(n, c) = [m EXCEPT ![c].up = <<>>]
  BY DEF LClose
<1> HIDE DEF m
<1>3. <<>> \in Seq(Frames)
  BY EmptySeq
<1>4. LClose(n, c) \in NetType
  BY <1>1, <1>2, <1>3 DEF NetType, ConnType
<1>5. ASSUME NEW d \in Conns
      PROVE  LClose(n, c)[d] = IF d = c THEN [m[c] EXCEPT !.up = <<>>] ELSE m[d]
  BY <1>1, <1>2 DEF NetType, ConnType
<1>6. n[c] \in ConnType
  BY DEF NetType, ConnType
<1>7. /\ m[c].dialed = n[c].dialed /\ m[c].down = n[c].down /\ m[c].cOpen = n[c].cOpen
      /\ m[c].fin = n[c].fin /\ m[c].lOpen = FALSE
  BY <1>1, <1>6 DEF ConnType
<1>8. \A d \in Conns : d # c => LClose(n, c)[d] = n[d]
  BY <1>1, <1>5
<1>9. /\ LClose(n, c)[c].dialed = n[c].dialed /\ LClose(n, c)[c].down = n[c].down
      /\ LClose(n, c)[c].cOpen = n[c].cOpen /\ LClose(n, c)[c].fin = n[c].fin
      /\ LClose(n, c)[c].lOpen = FALSE /\ LClose(n, c)[c].up = <<>>
  <2> DEFINE e == m[c]
  <2>1. e \in ConnType
    BY <1>1 DEF NetType, ConnType
  <2>2. LClose(n, c)[c] = [e EXCEPT !.up = <<>>]
    BY <1>5
  <2>3. /\ e.dialed = n[c].dialed /\ e.down = n[c].down /\ e.cOpen = n[c].cOpen
        /\ e.fin = n[c].fin /\ e.lOpen = FALSE
    BY <1>7
  <2> HIDE DEF e
  <2> QED BY <2>1, <2>2, <2>3 DEF ConnType
<1> QED BY <1>4, <1>8, <1>9 DEF SameDialed, SameDown, SameCOpen, SameFin

LEMMA CCloseIs ==
  ASSUME NEW n \in NetType, NEW c \in Conns
  PROVE  /\ CClose(n, c) \in NetType
         /\ SameDialed(n, CClose(n, c)) /\ SameUp(n, CClose(n, c))
         /\ SameLOpen(n, CClose(n, c)) /\ SameFin(n, CClose(n, c))
         /\ \A d \in Conns : /\ CClose(n, c)[d].cOpen <=> d # c /\ n[d].cOpen
                             /\ CClose(n, c)[d].down = IF d = c THEN <<>> ELSE n[d].down
<1> DEFINE m == [n EXCEPT ![c].cOpen = FALSE]
<1>1. m \in NetType /\ \A d \in Conns : m[d] = IF d = c THEN [n[c] EXCEPT !.cOpen = FALSE] ELSE n[d]
  BY DEF NetType, ConnType
<1>2. CClose(n, c) = [m EXCEPT ![c].down = <<>>]
  BY DEF CClose
<1> HIDE DEF m
<1>3. <<>> \in Seq(Frames)
  BY EmptySeq
<1>4. CClose(n, c) \in NetType
  BY <1>1, <1>2, <1>3 DEF NetType, ConnType
<1>5. ASSUME NEW d \in Conns
      PROVE  CClose(n, c)[d] = IF d = c THEN [m[c] EXCEPT !.down = <<>>] ELSE m[d]
  BY <1>1, <1>2 DEF NetType, ConnType
<1>6. n[c] \in ConnType
  BY DEF NetType, ConnType
<1>7. /\ m[c].dialed = n[c].dialed /\ m[c].up = n[c].up /\ m[c].lOpen = n[c].lOpen
      /\ m[c].fin = n[c].fin /\ m[c].cOpen = FALSE
  BY <1>1, <1>6 DEF ConnType
<1>8. \A d \in Conns : d # c => CClose(n, c)[d] = n[d]
  BY <1>1, <1>5
<1>9. /\ CClose(n, c)[c].dialed = n[c].dialed /\ CClose(n, c)[c].up = n[c].up
      /\ CClose(n, c)[c].lOpen = n[c].lOpen /\ CClose(n, c)[c].fin = n[c].fin
      /\ CClose(n, c)[c].cOpen = FALSE /\ CClose(n, c)[c].down = <<>>
  <2> DEFINE e == m[c]
  <2>1. e \in ConnType
    BY <1>1 DEF NetType, ConnType
  <2>2. CClose(n, c)[c] = [e EXCEPT !.down = <<>>]
    BY <1>5
  <2>3. /\ e.dialed = n[c].dialed /\ e.up = n[c].up /\ e.lOpen = n[c].lOpen
        /\ e.fin = n[c].fin /\ e.cOpen = FALSE
    BY <1>7
  <2> HIDE DEF e
  <2> QED BY <2>1, <2>2, <2>3 DEF ConnType
<1> QED BY <1>4, <1>8, <1>9 DEF SameDialed, SameUp, SameLOpen, SameFin

LEMMA CloseConnIs ==
  ASSUME NEW n \in NetType, NEW c \in Conns \cup {NoConn}
  PROVE  /\ CloseConn(n, c) \in NetType
         /\ SameDialed(n, CloseConn(n, c)) /\ SameDown(n, CloseConn(n, c))
         /\ SameCOpen(n, CloseConn(n, c)) /\ SameFin(n, CloseConn(n, c))
         /\ \A d \in Conns : /\ CloseConn(n, c)[d].lOpen <=> d # c /\ n[d].lOpen
                             /\ CloseConn(n, c)[d].up = IF d = c THEN <<>> ELSE n[d].up
<1>1. CASE c = NoConn
  <2>1. NoConn \notin Conns /\ CloseConn(n, c) = n
    BY <1>1, WireBoundsAssumption DEF Conns, NoConn, CloseConn
  <2> QED BY <1>1, <2>1 DEF SameDialed, SameDown, SameCOpen, SameFin
<1>2. CASE c # NoConn
  <2>1. c \in Conns /\ CloseConn(n, c) = LClose(n, c)
    BY <1>2 DEF CloseConn
  <2> QED BY <2>1, LCloseIs
<1> QED BY <1>1, <1>2

LEMMA DialedIs ==
  ASSUME NEW n \in NetType, NEW c \in Conns, NEW f \in Frames
  PROVE  /\ Dialed(n, c, f) \in NetType
         /\ \A d \in Conns : d # c => Dialed(n, c, f)[d] = n[d]
         /\ Dialed(n, c, f)[c].dialed /\ Dialed(n, c, f)[c].cOpen
         /\ Dialed(n, c, f)[c].lOpen /\ ~Dialed(n, c, f)[c].fin
         /\ Dialed(n, c, f)[c].up = <<f>> /\ Dialed(n, c, f)[c].down = <<>>
<1> DEFINE u == <<f>>
           r == [NewConn EXCEPT !.dialed = TRUE, !.up = u, !.cOpen = TRUE, !.lOpen = TRUE]
<1>1. u \in Seq(Frames) /\ <<>> \in Seq(Frames)
  OBVIOUS
<1> HIDE DEF u
<1>2. NewConn \in ConnType /\ NewConn.down = <<>> /\ NewConn.fin = FALSE
  BY <1>1 DEF NewConn, ConnType
<1>3. r \in ConnType
  BY <1>1, <1>2 DEF ConnType
<1>4. Dialed(n, c, f) = [n EXCEPT ![c] = r]
  BY DEF Dialed, u
<1>5. /\ r.dialed /\ r.cOpen /\ r.lOpen /\ ~r.fin /\ r.up = u /\ r.down = <<>>
  BY <1>2 DEF ConnType
<1> HIDE DEF r
<1> QED BY <1>3, <1>4, <1>5 DEF NetType, u
-----------------------------------------------------------------------------
(* Types. *)

AnyConn == Conns \cup {NoConn}
SessionType ==
  [replay : ReplayType(Nat), received : Nat, acked_out : Nat, outq : Seq(Frames),
   inq : Seq(Nat), send : AnyConn, conn : AnyConn, attached : BOOLEAN, generation : Nat,
   park_epoch : Nat, dead : BOOLEAN, grace : BOOLEAN]
HandlerType ==
  [pc : {"hello", "connecting", "replying", "refusing", "gap", "reading", "done"},
   gen : Nat, tail : Seq(Nat), received : Nat, sent : Nat, fresh : BOOLEAN]
TaskType == [A : {"none", "wait", "read", "done"}, B : {"none", "idle", "writing", "done"},
             C : {"none", "idle", "done"}]
InnerType ==
  [conn : Conns, generation : Nat, outbox : Seq(Nat), link_down : BOOLEAN,
   detached : BOOLEAN, replay : ReplayType(Nat), received : Nat, acked_to_peer : Nat,
   ack_due : BOOLEAN, resuming : BOOLEAN, suspended : BOOLEAN, stalled : BOOLEAN,
   close_kind : {"none", "lost"}]
LoopType == [pc : {"none", "spawned", "dialing", "handshake", "backoff"}, gen : Nat,
             conn : AnyConn, spent : Nat]

LTypes ==
  /\ st \in SessionType /\ st.acked_out <= st.received
  /\ reg \in {"none", "live", "gone"}
  /\ h \in [Conns -> HandlerType]
  /\ task \in TaskType
  /\ job \in [gen : Nat, conn : AnyConn]
  /\ timers \in SUBSET Nat
  /\ sshd \in {"up", "gone"}
  /\ handed \in Seq(Nat) /\ sshdIn \in Seq(Nat)
  /\ raced \in BOOLEAN

CTypes ==
  /\ inner \in InnerType /\ inner.acked_to_peer <= inner.received
  /\ connect \in {"pending", "up", "failed"}
  /\ reader \in [Conns -> {"none", "reading", "done"}]
  /\ writer \in [Conns -> {"none", "waiting", "writing", "done"}]
  /\ gen \in [Conns -> Nat]
  /\ loops \in [Slots -> LoopType]
  /\ \A s \in Slots : loops[s].pc = "handshake" => loops[s].conn \in Conns
  /\ fed \in Seq(Nat) /\ typed \in Nat

Types == LTypes /\ CTypes /\ net \in NetType /\ losses \in Nat

\* Frame makes frames, and a sequence of units makes a sequence of DATA frames.
LEMMA FrameIs ==
  ASSUME NEW t \in FrameTypes, NEW n \in Nat
  PROVE  Frame(t, n) \in Frames /\ Frame(t, n).t = t /\ Frame(t, n).n = n
BY DEF Frame, Frames

LEMMA DataFramesType ==
  ASSUME NEW units \in Seq(Nat)
  PROVE  /\ DataFrames(units) \in Seq(Frames)
         /\ Len(DataFrames(units)) = Len(units)
         /\ \A i \in 1..Len(units) : DataFrames(units)[i] = Frame("data", units[i])
<1>1. Len(units) \in Nat
  BY LenProperties
<1>2. \A i \in 1..Len(units) : Frame("data", units[i]) \in Frames
  <2> TAKE i \in 1..Len(units)
  <2>1. units[i] \in Nat
    BY ElementOfSeq
  <2> QED BY <2>1, FrameIs DEF FrameTypes
<1> QED BY <1>1, <1>2 DEF DataFrames

\* The operators on the listener's session.
LEMMA AttachIs ==
  ASSUME NEW s \in SessionType, NEW c \in Conns, NEW tail \in Seq(Nat)
  PROVE  /\ Attach(s, c, tail) \in SessionType
         /\ Attach(s, c, tail).outq = DataFrames(tail)
         /\ Attach(s, c, tail).send = c /\ Attach(s, c, tail).conn = c
         /\ Attach(s, c, tail).attached
         /\ Attach(s, c, tail).generation = s.generation + 1
         /\ Attach(s, c, tail).acked_out = s.received
         /\ Attach(s, c, tail).received = s.received
         /\ Attach(s, c, tail).replay = s.replay /\ Attach(s, c, tail).inq = s.inq
         /\ Attach(s, c, tail).park_epoch = s.park_epoch
         /\ Attach(s, c, tail).dead = s.dead /\ Attach(s, c, tail).grace = s.grace
<1> DEFINE q == DataFrames(tail)
           g == s.generation + 1
           a == s.received
<1>1. q \in Seq(Frames) /\ c \in AnyConn /\ g \in Nat /\ a \in Nat
  BY DataFramesType DEF AnyConn, SessionType
<1>2. Attach(s, c, tail) = [s EXCEPT !.outq = q, !.send = c, !.conn = c, !.attached = TRUE,
                                     !.generation = g, !.acked_out = a]
  BY DEF Attach, SessionType
<1> HIDE DEF q, g, a
<1>3. Attach(s, c, tail) \in SessionType
  BY <1>1, <1>2 DEF SessionType
<1>4. /\ Attach(s, c, tail).outq = q
      /\ Attach(s, c, tail).send = c /\ Attach(s, c, tail).conn = c
      /\ Attach(s, c, tail).attached
      /\ Attach(s, c, tail).generation = g
      /\ Attach(s, c, tail).acked_out = a
      /\ Attach(s, c, tail).received = s.received
      /\ Attach(s, c, tail).replay = s.replay /\ Attach(s, c, tail).inq = s.inq
      /\ Attach(s, c, tail).park_epoch = s.park_epoch
      /\ Attach(s, c, tail).dead = s.dead /\ Attach(s, c, tail).grace = s.grace
  BY <1>2 DEF SessionType
<1> QED BY <1>3, <1>4 DEF q, g, a

LEMMA ParkedIs ==
  ASSUME NEW s \in SessionType
  PROVE  /\ Parked(s) \in SessionType
         /\ Parked(s).send = NoConn /\ Parked(s).conn = NoConn /\ ~Parked(s).attached
         /\ Parked(s).generation = s.generation + 1
         /\ Parked(s).park_epoch = s.park_epoch + 1
         /\ Parked(s).outq = s.outq /\ Parked(s).inq = s.inq
         /\ Parked(s).acked_out = s.acked_out /\ Parked(s).received = s.received
         /\ Parked(s).replay = s.replay
         /\ Parked(s).dead = s.dead /\ Parked(s).grace = s.grace
<1> DEFINE g == s.generation + 1
           e == s.park_epoch + 1
<1>1. g \in Nat /\ e \in Nat /\ NoConn \in AnyConn
  BY DEF AnyConn, SessionType
<1>2. Parked(s) = [s EXCEPT !.conn = NoConn, !.send = NoConn, !.attached = FALSE,
                            !.generation = g, !.park_epoch = e]
  BY DEF Parked, SessionType
<1> HIDE DEF g, e
<1>3. Parked(s) \in SessionType
  BY <1>1, <1>2 DEF SessionType
<1>4. /\ Parked(s).send = NoConn /\ Parked(s).conn = NoConn /\ ~Parked(s).attached
      /\ Parked(s).generation = g /\ Parked(s).park_epoch = e
      /\ Parked(s).outq = s.outq /\ Parked(s).inq = s.inq
      /\ Parked(s).acked_out = s.acked_out /\ Parked(s).received = s.received
      /\ Parked(s).replay = s.replay
      /\ Parked(s).dead = s.dead /\ Parked(s).grace = s.grace
  BY <1>2 DEF SessionType
<1> QED BY <1>3, <1>4 DEF g, e

\* The changes of the session that the actions write in line.
Ended(s) == [s EXCEPT !.dead = TRUE]
Recorded(s, u) == [s EXCEPT !.replay = Sent(@, <<u>>), !.outq = Append(@, Frame("data", u))]
Borrowed(s) == [s EXCEPT !.outq = Tail(@), !.send = NoConn]
PutBack(s, c) == [s EXCEPT !.send = c]
LetGo(s) == [s EXCEPT !.attached = FALSE, !.conn = NoConn, !.send = NoConn]
Taken(s) == [s EXCEPT !.inq = Tail(@)]

LEMMA EndedIs ==
  ASSUME NEW s \in SessionType
  PROVE  /\ Ended(s) \in SessionType
         /\ Ended(s).replay = s.replay /\ Ended(s).received = s.received
         /\ Ended(s).acked_out = s.acked_out /\ Ended(s).outq = s.outq
         /\ Ended(s).inq = s.inq /\ Ended(s).send = s.send /\ Ended(s).conn = s.conn
         /\ Ended(s).attached = s.attached /\ Ended(s).generation = s.generation
         /\ Ended(s).park_epoch = s.park_epoch /\ Ended(s).dead
         /\ Ended(s).grace = s.grace
<1>2. Ended(s) = [s EXCEPT !.dead = TRUE]
  BY DEF Ended, SessionType
<1>3. Ended(s) \in SessionType
  BY <1>2 DEF SessionType
<1>4. /\ Ended(s).replay = s.replay /\ Ended(s).received = s.received
      /\ Ended(s).acked_out = s.acked_out /\ Ended(s).outq = s.outq
      /\ Ended(s).inq = s.inq /\ Ended(s).send = s.send /\ Ended(s).conn = s.conn
      /\ Ended(s).attached = s.attached /\ Ended(s).generation = s.generation
      /\ Ended(s).park_epoch = s.park_epoch /\ Ended(s).dead
      /\ Ended(s).grace = s.grace
  BY <1>2 DEF SessionType
<1> QED BY <1>3, <1>4

LEMMA RecordedIs ==
  ASSUME NEW s \in SessionType, NEW u \in Nat
  PROVE  /\ Recorded(s, u) \in SessionType
         /\ Recorded(s, u).replay = Sent(s.replay, <<u>>)
         /\ Recorded(s, u).received = s.received /\ Recorded(s, u).acked_out = s.acked_out
         /\ Recorded(s, u).outq = Append(s.outq, Frame("data", u))
         /\ Recorded(s, u).inq = s.inq /\ Recorded(s, u).send = s.send
         /\ Recorded(s, u).conn = s.conn /\ Recorded(s, u).attached = s.attached
         /\ Recorded(s, u).generation = s.generation
         /\ Recorded(s, u).park_epoch = s.park_epoch /\ Recorded(s, u).dead = s.dead
         /\ Recorded(s, u).grace = s.grace
<1> DEFINE r == Sent(s.replay, <<u>>)
           q == Append(s.outq, Frame("data", u))
<1>1. r \in ReplayType(Nat) /\ q \in Seq(Frames)
  <2>1. <<u>> \in Seq(Nat) /\ s.replay \in ReplayType(Nat) /\ s.outq \in Seq(Frames)
    BY DEF SessionType
  <2>2. Frame("data", u) \in Frames
    BY FrameIs DEF FrameTypes
  <2> QED BY <2>1, <2>2, SentType, AppendProperties
<1>2. Recorded(s, u) = [s EXCEPT !.replay = r, !.outq = q]
  BY DEF Recorded, SessionType
<1> HIDE DEF r, q
<1>3. Recorded(s, u) \in SessionType
  BY <1>1, <1>2 DEF SessionType
<1>4. /\ Recorded(s, u).replay = r /\ Recorded(s, u).received = s.received
      /\ Recorded(s, u).acked_out = s.acked_out /\ Recorded(s, u).outq = q
      /\ Recorded(s, u).inq = s.inq /\ Recorded(s, u).send = s.send
      /\ Recorded(s, u).conn = s.conn /\ Recorded(s, u).attached = s.attached
      /\ Recorded(s, u).generation = s.generation
      /\ Recorded(s, u).park_epoch = s.park_epoch /\ Recorded(s, u).dead = s.dead
      /\ Recorded(s, u).grace = s.grace
  BY <1>2 DEF SessionType
<1> QED BY <1>3, <1>4 DEF r, q

LEMMA BorrowedIs ==
  ASSUME NEW s \in SessionType, s.outq # <<>>
  PROVE  /\ Borrowed(s) \in SessionType
         /\ Borrowed(s).replay = s.replay /\ Borrowed(s).received = s.received
         /\ Borrowed(s).acked_out = s.acked_out /\ Borrowed(s).outq = Tail(s.outq)
         /\ Borrowed(s).inq = s.inq /\ Borrowed(s).send = NoConn
         /\ Borrowed(s).conn = s.conn /\ Borrowed(s).attached = s.attached
         /\ Borrowed(s).generation = s.generation /\ Borrowed(s).park_epoch = s.park_epoch
         /\ Borrowed(s).dead = s.dead /\ Borrowed(s).grace = s.grace
<1> DEFINE q == Tail(s.outq)
<1>1. q \in Seq(Frames) /\ NoConn \in AnyConn
  BY HeadTailProperties DEF SessionType, AnyConn
<1>2. Borrowed(s) = [s EXCEPT !.outq = q, !.send = NoConn]
  BY DEF Borrowed, SessionType
<1> HIDE DEF q
<1>3. Borrowed(s) \in SessionType
  BY <1>1, <1>2 DEF SessionType
<1>4. /\ Borrowed(s).replay = s.replay /\ Borrowed(s).received = s.received
      /\ Borrowed(s).acked_out = s.acked_out /\ Borrowed(s).outq = q
      /\ Borrowed(s).inq = s.inq /\ Borrowed(s).send = NoConn
      /\ Borrowed(s).conn = s.conn /\ Borrowed(s).attached = s.attached
      /\ Borrowed(s).generation = s.generation /\ Borrowed(s).park_epoch = s.park_epoch
      /\ Borrowed(s).dead = s.dead /\ Borrowed(s).grace = s.grace
  BY <1>2 DEF SessionType
<1> QED BY <1>3, <1>4 DEF q

LEMMA PutBackIs ==
  ASSUME NEW s \in SessionType, NEW c \in AnyConn
  PROVE  /\ PutBack(s, c) \in SessionType
         /\ PutBack(s, c).replay = s.replay /\ PutBack(s, c).received = s.received
         /\ PutBack(s, c).acked_out = s.acked_out /\ PutBack(s, c).outq = s.outq
         /\ PutBack(s, c).inq = s.inq /\ PutBack(s, c).send = c
         /\ PutBack(s, c).conn = s.conn /\ PutBack(s, c).attached = s.attached
         /\ PutBack(s, c).generation = s.generation
         /\ PutBack(s, c).park_epoch = s.park_epoch /\ PutBack(s, c).dead = s.dead
         /\ PutBack(s, c).grace = s.grace
<1>2. PutBack(s, c) = [s EXCEPT !.send = c]
  BY DEF PutBack, SessionType
<1>3. PutBack(s, c) \in SessionType
  BY <1>2 DEF SessionType
<1>4. /\ PutBack(s, c).replay = s.replay /\ PutBack(s, c).received = s.received
      /\ PutBack(s, c).acked_out = s.acked_out /\ PutBack(s, c).outq = s.outq
      /\ PutBack(s, c).inq = s.inq /\ PutBack(s, c).send = c
      /\ PutBack(s, c).conn = s.conn /\ PutBack(s, c).attached = s.attached
      /\ PutBack(s, c).generation = s.generation
      /\ PutBack(s, c).park_epoch = s.park_epoch /\ PutBack(s, c).dead = s.dead
      /\ PutBack(s, c).grace = s.grace
  BY <1>2 DEF SessionType
<1> QED BY <1>3, <1>4

LEMMA LetGoIs ==
  ASSUME NEW s \in SessionType
  PROVE  /\ LetGo(s) \in SessionType
         /\ LetGo(s).replay = s.replay /\ LetGo(s).received = s.received
         /\ LetGo(s).acked_out = s.acked_out /\ LetGo(s).outq = s.outq
         /\ LetGo(s).inq = s.inq /\ LetGo(s).send = NoConn /\ LetGo(s).conn = NoConn
         /\ ~LetGo(s).attached /\ LetGo(s).generation = s.generation
         /\ LetGo(s).park_epoch = s.park_epoch /\ LetGo(s).dead = s.dead
         /\ LetGo(s).grace = s.grace
<1>1. NoConn \in AnyConn
  BY DEF AnyConn
<1>2. LetGo(s) = [s EXCEPT !.attached = FALSE, !.conn = NoConn, !.send = NoConn]
  BY DEF LetGo, SessionType
<1>3. LetGo(s) \in SessionType
  BY <1>1, <1>2 DEF SessionType
<1>4. /\ LetGo(s).replay = s.replay /\ LetGo(s).received = s.received
      /\ LetGo(s).acked_out = s.acked_out /\ LetGo(s).outq = s.outq
      /\ LetGo(s).inq = s.inq /\ LetGo(s).send = NoConn /\ LetGo(s).conn = NoConn
      /\ ~LetGo(s).attached /\ LetGo(s).generation = s.generation
      /\ LetGo(s).park_epoch = s.park_epoch /\ LetGo(s).dead = s.dead
      /\ LetGo(s).grace = s.grace
  BY <1>2 DEF SessionType
<1> QED BY <1>3, <1>4

LEMMA TakenIs ==
  ASSUME NEW s \in SessionType, s.inq # <<>>
  PROVE  /\ Taken(s) \in SessionType
         /\ Taken(s).replay = s.replay /\ Taken(s).received = s.received
         /\ Taken(s).acked_out = s.acked_out /\ Taken(s).outq = s.outq
         /\ Taken(s).inq = Tail(s.inq) /\ Taken(s).send = s.send /\ Taken(s).conn = s.conn
         /\ Taken(s).attached = s.attached /\ Taken(s).generation = s.generation
         /\ Taken(s).park_epoch = s.park_epoch /\ Taken(s).dead = s.dead
         /\ Taken(s).grace = s.grace
<1> DEFINE q == Tail(s.inq)
<1>1. q \in Seq(Nat)
  BY HeadTailProperties DEF SessionType
<1>2. Taken(s) = [s EXCEPT !.inq = q]
  BY DEF Taken, SessionType
<1> HIDE DEF q
<1>3. Taken(s) \in SessionType
  BY <1>1, <1>2 DEF SessionType
<1>4. /\ Taken(s).replay = s.replay /\ Taken(s).received = s.received
      /\ Taken(s).acked_out = s.acked_out /\ Taken(s).outq = s.outq /\ Taken(s).inq = q
      /\ Taken(s).send = s.send /\ Taken(s).conn = s.conn
      /\ Taken(s).attached = s.attached /\ Taken(s).generation = s.generation
      /\ Taken(s).park_epoch = s.park_epoch /\ Taken(s).dead = s.dead
      /\ Taken(s).grace = s.grace
  BY <1>2 DEF SessionType
<1> QED BY <1>3, <1>4 DEF q

\* Frame::apply, by the frame's type.
LEMMA ApplyData ==
  ASSUME NEW s, NEW f, f.t = "data"
  PROVE  Apply(s, f) =
           [s EXCEPT !.received = s.received + 1, !.inq = Append(@, f.n),
                     !.acked_out = IF (s.received + 1) - s.acked_out >= ACK_EVERY_BYTES
                                   THEN s.received + 1 ELSE @,
                     !.outq = IF (s.received + 1) - s.acked_out >= ACK_EVERY_BYTES
                              THEN Append(@, Frame("ack", s.received + 1)) ELSE @]
BY DEF Apply

LEMMA ApplyDataIs ==
  ASSUME NEW s \in SessionType, NEW f \in Frames, f.t = "data"
  PROVE  /\ Apply(s, f) \in SessionType
         /\ Apply(s, f).replay = s.replay /\ Apply(s, f).received = s.received + 1
         /\ Apply(s, f).acked_out = IF (s.received + 1) - s.acked_out >= ACK_EVERY_BYTES
               THEN s.received + 1 ELSE s.acked_out
         /\ Apply(s, f).outq = IF (s.received + 1) - s.acked_out >= ACK_EVERY_BYTES
               THEN Append(s.outq, Frame("ack", s.received + 1)) ELSE s.outq
         /\ Apply(s, f).inq = Append(s.inq, f.n) /\ Apply(s, f).send = s.send
         /\ Apply(s, f).conn = s.conn /\ Apply(s, f).attached = s.attached
         /\ Apply(s, f).generation = s.generation /\ Apply(s, f).park_epoch = s.park_epoch
         /\ Apply(s, f).dead = s.dead /\ Apply(s, f).grace = s.grace
<1> DEFINE due == (s.received + 1) - s.acked_out >= ACK_EVERY_BYTES
           n == s.received + 1
           q == Append(s.inq, f.n)
           a == IF due THEN s.received + 1 ELSE s.acked_out
           o == IF due THEN Append(s.outq, Frame("ack", s.received + 1)) ELSE s.outq
<1>1. n \in Nat /\ q \in Seq(Nat) /\ a \in Nat /\ o \in Seq(Frames)
  <2>1. /\ s.received \in Nat /\ s.acked_out \in Nat /\ f.n \in Nat
        /\ s.inq \in Seq(Nat) /\ s.outq \in Seq(Frames)
    BY DEF SessionType, Frames
  <2>2. s.received + 1 \in Nat
    BY <2>1
  <2>3. Frame("ack", s.received + 1) \in Frames
    BY <2>2, FrameIs DEF FrameTypes
  <2> HIDE DEF due
  <2> QED BY <2>1, <2>2, <2>3, AppendProperties
<1>2. Apply(s, f) = [s EXCEPT !.received = n, !.inq = q, !.acked_out = a, !.outq = o]
  BY ApplyData
<1> HIDE DEF n, q, a, o
<1>3. Apply(s, f) \in SessionType
  BY <1>1, <1>2 DEF SessionType
<1>4. /\ Apply(s, f).replay = s.replay /\ Apply(s, f).received = n
      /\ Apply(s, f).acked_out = a /\ Apply(s, f).outq = o /\ Apply(s, f).inq = q
      /\ Apply(s, f).send = s.send /\ Apply(s, f).conn = s.conn
      /\ Apply(s, f).attached = s.attached /\ Apply(s, f).generation = s.generation
      /\ Apply(s, f).park_epoch = s.park_epoch /\ Apply(s, f).dead = s.dead
      /\ Apply(s, f).grace = s.grace
  BY <1>2 DEF SessionType
<1> QED BY <1>3, <1>4 DEF n, q, a, o

LEMMA ApplyAckIs ==
  ASSUME NEW s \in SessionType, NEW f \in Frames, f.t # "data"
  PROVE  /\ Apply(s, f) \in SessionType
         /\ Apply(s, f).replay = Ack(s.replay, f.n) /\ Apply(s, f).received = s.received
         /\ Apply(s, f).acked_out = s.acked_out /\ Apply(s, f).outq = s.outq
         /\ Apply(s, f).inq = s.inq /\ Apply(s, f).send = s.send
         /\ Apply(s, f).conn = s.conn /\ Apply(s, f).attached = s.attached
         /\ Apply(s, f).generation = s.generation /\ Apply(s, f).park_epoch = s.park_epoch
         /\ Apply(s, f).dead = s.dead /\ Apply(s, f).grace = s.grace
<1> DEFINE r == Ack(s.replay, f.n)
<1>1. r \in ReplayType(Nat)
  BY AckType DEF SessionType, Frames
<1>2. Apply(s, f) = [s EXCEPT !.replay = r]
  BY DEF Apply, SessionType
<1> HIDE DEF r
<1>3. Apply(s, f) \in SessionType
  BY <1>1, <1>2 DEF SessionType
<1>4. /\ Apply(s, f).replay = r /\ Apply(s, f).received = s.received
      /\ Apply(s, f).acked_out = s.acked_out /\ Apply(s, f).outq = s.outq
      /\ Apply(s, f).inq = s.inq /\ Apply(s, f).send = s.send
      /\ Apply(s, f).conn = s.conn /\ Apply(s, f).attached = s.attached
      /\ Apply(s, f).generation = s.generation /\ Apply(s, f).park_epoch = s.park_epoch
      /\ Apply(s, f).dead = s.dead /\ Apply(s, f).grace = s.grace
  BY <1>2 DEF SessionType
<1> QED BY <1>3, <1>4 DEF r

LEMMA NewSessionIs ==
  ASSUME NEW g \in BOOLEAN
  PROVE  /\ NewSession \in SessionType
         /\ [NewSession EXCEPT !.grace = g] \in SessionType
         /\ [NewSession EXCEPT !.grace = g].grace = g
         /\ \A s \in {NewSession, [NewSession EXCEPT !.grace = g]} :
              /\ s.replay = NewReplay /\ s.received = 0 /\ s.acked_out = 0
              /\ s.outq = <<>> /\ s.inq = <<>> /\ s.send = NoConn /\ s.conn = NoConn
              /\ ~s.attached /\ s.generation = 0 /\ s.park_epoch = 0 /\ ~s.dead
<1>1. NewReplay \in ReplayType(Nat)
  BY EmptySeq DEF NewReplay, ReplayType
<1>2. NewSession \in SessionType
  <2> DEFINE r == NewReplay
             q == <<>>
  <2>1. r \in ReplayType(Nat) /\ q \in Seq(Nat) /\ q \in Seq(Frames) /\ NoConn \in AnyConn
    BY <1>1 DEF AnyConn
  <2>2. NewSession =
          [replay |-> r, received |-> 0, acked_out |-> 0, outq |-> q, inq |-> q,
           send |-> NoConn, conn |-> NoConn, attached |-> FALSE, generation |-> 0,
           park_epoch |-> 0, dead |-> FALSE, grace |-> TRUE]
    BY DEF NewSession
  <2> HIDE DEF r, q
  <2> QED BY <2>1, <2>2 DEF SessionType
<1>3. /\ NewSession.replay = NewReplay /\ NewSession.received = 0 /\ NewSession.acked_out = 0
      /\ NewSession.outq = <<>> /\ NewSession.inq = <<>> /\ NewSession.send = NoConn
      /\ NewSession.conn = NoConn /\ ~NewSession.attached /\ NewSession.generation = 0
      /\ NewSession.park_epoch = 0 /\ ~NewSession.dead
  BY DEF NewSession
<1> DEFINE n == NewSession
<1> HIDE DEF n
<1>4. /\ [n EXCEPT !.grace = g] \in SessionType
      /\ [n EXCEPT !.grace = g].grace = g
      /\ [n EXCEPT !.grace = g].replay = n.replay
      /\ [n EXCEPT !.grace = g].received = n.received
      /\ [n EXCEPT !.grace = g].acked_out = n.acked_out
      /\ [n EXCEPT !.grace = g].outq = n.outq /\ [n EXCEPT !.grace = g].inq = n.inq
      /\ [n EXCEPT !.grace = g].send = n.send /\ [n EXCEPT !.grace = g].conn = n.conn
      /\ [n EXCEPT !.grace = g].attached = n.attached
      /\ [n EXCEPT !.grace = g].generation = n.generation
      /\ [n EXCEPT !.grace = g].park_epoch = n.park_epoch
      /\ [n EXCEPT !.grace = g].dead = n.dead
  BY <1>2 DEF SessionType, n
<1> QED BY <1>2, <1>3, <1>4 DEF n

\* A handler that moves on keeps nothing of what it knew.
LEMMA HandlerIs ==
  ASSUME NEW pc \in {"hello", "connecting", "replying", "refusing", "gap", "reading", "done"}
  PROVE  /\ [NewHandler EXCEPT !.pc = pc] \in HandlerType
         /\ [NewHandler EXCEPT !.pc = pc].pc = pc
         /\ NewHandler \in HandlerType /\ NewHandler.pc = "hello"
<1> DEFINE q == <<>>
<1>1. q \in Seq(Nat)
  OBVIOUS
<1>2. NewHandler = [pc |-> "hello", gen |-> 0, tail |-> q, received |-> 0, sent |-> 0,
                    fresh |-> FALSE]
  BY DEF NewHandler
<1> HIDE DEF q
<1>3. NewHandler \in HandlerType /\ NewHandler.pc = "hello"
  BY <1>1, <1>2 DEF HandlerType
<1> QED BY <1>3 DEF HandlerType
-----------------------------------------------------------------------------
(* The operators on the client's Inner, and the changes its actions write in line. *)

Adopted(i, c) == [i EXCEPT !.conn = c, !.resuming = FALSE, !.ack_due = FALSE,
                           !.generation = @ + 1]
Trimmed(i, n) == [i EXCEPT !.replay = Ack(@, n)]
AckSent(i) == [i EXCEPT !.ack_due = FALSE, !.acked_to_peer = i.received]
UnitSent(i) == [i EXCEPT !.outbox = Tail(@), !.replay = Sent(@, <<Head(i.outbox)>>)]
Queued(i, u) == [i EXCEPT !.outbox = Append(@, u)]
Left(i, units) == [i EXCEPT !.detached = TRUE, !.outbox = @ \o units]
Resumes(i) == [i EXCEPT !.resuming = TRUE]
Stalls(i) == [i EXCEPT !.stalled = TRUE]
Away(i) == [i EXCEPT !.suspended = TRUE]
Back(i) == [i EXCEPT !.suspended = FALSE]
BackToResume(i) == [i EXCEPT !.stalled = FALSE, !.resuming = TRUE]

LEMMA AdoptedIs ==
  ASSUME NEW i \in InnerType, NEW c \in Conns
  PROVE  /\ Adopted(i, c) \in InnerType
         /\ Adopted(i, c).conn = c /\ Adopted(i, c).generation = i.generation + 1
         /\ Adopted(i, c).outbox = i.outbox /\ Adopted(i, c).link_down = i.link_down
         /\ Adopted(i, c).detached = i.detached /\ Adopted(i, c).replay = i.replay
         /\ Adopted(i, c).received = i.received
         /\ Adopted(i, c).acked_to_peer = i.acked_to_peer /\ ~Adopted(i, c).ack_due
         /\ ~Adopted(i, c).resuming /\ Adopted(i, c).suspended = i.suspended
         /\ Adopted(i, c).stalled = i.stalled /\ Adopted(i, c).close_kind = i.close_kind
<1> DEFINE g == i.generation + 1
<1>1. g \in Nat
  BY DEF InnerType
<1>2. Adopted(i, c) = [i EXCEPT !.conn = c, !.resuming = FALSE, !.ack_due = FALSE, !.generation = g]
  BY DEF Adopted, InnerType
<1> HIDE DEF g
<1>3. Adopted(i, c) \in InnerType
  BY <1>1, <1>2 DEF InnerType
<1>4. /\ Adopted(i, c).conn = c /\ Adopted(i, c).generation = g
      /\ Adopted(i, c).outbox = i.outbox /\ Adopted(i, c).link_down = i.link_down
      /\ Adopted(i, c).detached = i.detached /\ Adopted(i, c).replay = i.replay
      /\ Adopted(i, c).received = i.received
      /\ Adopted(i, c).acked_to_peer = i.acked_to_peer /\ ~Adopted(i, c).ack_due
      /\ ~Adopted(i, c).resuming /\ Adopted(i, c).suspended = i.suspended
      /\ Adopted(i, c).stalled = i.stalled /\ Adopted(i, c).close_kind = i.close_kind
  BY <1>2 DEF InnerType
<1> QED BY <1>3, <1>4 DEF g

LEMMA TrimmedIs ==
  ASSUME NEW i \in InnerType, NEW n \in Nat
  PROVE  /\ Trimmed(i, n) \in InnerType
         /\ Trimmed(i, n).conn = i.conn /\ Trimmed(i, n).generation = i.generation
         /\ Trimmed(i, n).outbox = i.outbox /\ Trimmed(i, n).link_down = i.link_down
         /\ Trimmed(i, n).detached = i.detached /\ Trimmed(i, n).replay = Ack(i.replay, n)
         /\ Trimmed(i, n).received = i.received
         /\ Trimmed(i, n).acked_to_peer = i.acked_to_peer
         /\ Trimmed(i, n).ack_due = i.ack_due /\ Trimmed(i, n).resuming = i.resuming
         /\ Trimmed(i, n).suspended = i.suspended /\ Trimmed(i, n).stalled = i.stalled
         /\ Trimmed(i, n).close_kind = i.close_kind
<1> DEFINE r == Ack(i.replay, n)
<1>1. r \in ReplayType(Nat)
  BY AckType DEF InnerType
<1>2. Trimmed(i, n) = [i EXCEPT !.replay = r]
  BY DEF Trimmed, InnerType
<1> HIDE DEF r
<1>3. Trimmed(i, n) \in InnerType
  BY <1>1, <1>2 DEF InnerType
<1>4. /\ Trimmed(i, n).conn = i.conn /\ Trimmed(i, n).generation = i.generation
      /\ Trimmed(i, n).outbox = i.outbox /\ Trimmed(i, n).link_down = i.link_down
      /\ Trimmed(i, n).detached = i.detached /\ Trimmed(i, n).replay = r
      /\ Trimmed(i, n).received = i.received
      /\ Trimmed(i, n).acked_to_peer = i.acked_to_peer
      /\ Trimmed(i, n).ack_due = i.ack_due /\ Trimmed(i, n).resuming = i.resuming
      /\ Trimmed(i, n).suspended = i.suspended /\ Trimmed(i, n).stalled = i.stalled
      /\ Trimmed(i, n).close_kind = i.close_kind
  BY <1>2 DEF InnerType
<1> QED BY <1>3, <1>4 DEF r

LEMMA AckSentIs ==
  ASSUME NEW i \in InnerType
  PROVE  /\ AckSent(i) \in InnerType
         /\ AckSent(i).conn = i.conn /\ AckSent(i).generation = i.generation
         /\ AckSent(i).outbox = i.outbox /\ AckSent(i).link_down = i.link_down
         /\ AckSent(i).detached = i.detached /\ AckSent(i).replay = i.replay
         /\ AckSent(i).received = i.received /\ AckSent(i).acked_to_peer = i.received
         /\ ~AckSent(i).ack_due /\ AckSent(i).resuming = i.resuming
         /\ AckSent(i).suspended = i.suspended /\ AckSent(i).stalled = i.stalled
         /\ AckSent(i).close_kind = i.close_kind
<1> DEFINE a == i.received
<1>1. a \in Nat
  BY DEF InnerType
<1>2. AckSent(i) = [i EXCEPT !.ack_due = FALSE, !.acked_to_peer = a]
  BY DEF AckSent, InnerType
<1> HIDE DEF a
<1>3. AckSent(i) \in InnerType
  BY <1>1, <1>2 DEF InnerType
<1>4. /\ AckSent(i).conn = i.conn /\ AckSent(i).generation = i.generation
      /\ AckSent(i).outbox = i.outbox /\ AckSent(i).link_down = i.link_down
      /\ AckSent(i).detached = i.detached /\ AckSent(i).replay = i.replay
      /\ AckSent(i).received = i.received /\ AckSent(i).acked_to_peer = a
      /\ ~AckSent(i).ack_due /\ AckSent(i).resuming = i.resuming
      /\ AckSent(i).suspended = i.suspended /\ AckSent(i).stalled = i.stalled
      /\ AckSent(i).close_kind = i.close_kind
  BY <1>2 DEF InnerType
<1> QED BY <1>3, <1>4 DEF a

LEMMA UnitSentIs ==
  ASSUME NEW i \in InnerType, i.outbox # <<>>
  PROVE  /\ UnitSent(i) \in InnerType
         /\ UnitSent(i).conn = i.conn /\ UnitSent(i).generation = i.generation
         /\ UnitSent(i).outbox = Tail(i.outbox) /\ UnitSent(i).link_down = i.link_down
         /\ UnitSent(i).detached = i.detached
         /\ UnitSent(i).replay = Sent(i.replay, <<Head(i.outbox)>>)
         /\ UnitSent(i).received = i.received
         /\ UnitSent(i).acked_to_peer = i.acked_to_peer /\ UnitSent(i).ack_due = i.ack_due
         /\ UnitSent(i).resuming = i.resuming /\ UnitSent(i).suspended = i.suspended
         /\ UnitSent(i).stalled = i.stalled /\ UnitSent(i).close_kind = i.close_kind
<1> DEFINE q == Tail(i.outbox)
           r == Sent(i.replay, <<Head(i.outbox)>>)
<1>1. q \in Seq(Nat) /\ r \in ReplayType(Nat)
  <2>1. Head(i.outbox) \in Nat /\ Tail(i.outbox) \in Seq(Nat) /\ i.replay \in ReplayType(Nat)
    BY HeadTailProperties DEF InnerType
  <2>2. <<Head(i.outbox)>> \in Seq(Nat)
    BY <2>1
  <2> QED BY <2>1, <2>2, SentType
<1>2. UnitSent(i) = [i EXCEPT !.outbox = q, !.replay = r]
  BY DEF UnitSent, InnerType
<1> HIDE DEF q, r
<1>3. UnitSent(i) \in InnerType
  BY <1>1, <1>2 DEF InnerType
<1>4. /\ UnitSent(i).conn = i.conn /\ UnitSent(i).generation = i.generation
      /\ UnitSent(i).outbox = q /\ UnitSent(i).link_down = i.link_down
      /\ UnitSent(i).detached = i.detached /\ UnitSent(i).replay = r
      /\ UnitSent(i).received = i.received
      /\ UnitSent(i).acked_to_peer = i.acked_to_peer /\ UnitSent(i).ack_due = i.ack_due
      /\ UnitSent(i).resuming = i.resuming /\ UnitSent(i).suspended = i.suspended
      /\ UnitSent(i).stalled = i.stalled /\ UnitSent(i).close_kind = i.close_kind
  BY <1>2 DEF InnerType
<1> QED BY <1>3, <1>4 DEF q, r

LEMMA QueuedIs ==
  ASSUME NEW i \in InnerType, NEW u \in Nat
  PROVE  /\ Queued(i, u) \in InnerType
         /\ Queued(i, u).conn = i.conn /\ Queued(i, u).generation = i.generation
         /\ Queued(i, u).outbox = Append(i.outbox, u)
         /\ Queued(i, u).link_down = i.link_down /\ Queued(i, u).detached = i.detached
         /\ Queued(i, u).replay = i.replay /\ Queued(i, u).received = i.received
         /\ Queued(i, u).acked_to_peer = i.acked_to_peer
         /\ Queued(i, u).ack_due = i.ack_due /\ Queued(i, u).resuming = i.resuming
         /\ Queued(i, u).suspended = i.suspended /\ Queued(i, u).stalled = i.stalled
         /\ Queued(i, u).close_kind = i.close_kind
<1> DEFINE q == Append(i.outbox, u)
<1>1. q \in Seq(Nat)
  BY AppendProperties DEF InnerType
<1>2. Queued(i, u) = [i EXCEPT !.outbox = q]
  BY DEF Queued, InnerType
<1> HIDE DEF q
<1>3. Queued(i, u) \in InnerType
  BY <1>1, <1>2 DEF InnerType
<1>4. /\ Queued(i, u).conn = i.conn /\ Queued(i, u).generation = i.generation
      /\ Queued(i, u).outbox = q /\ Queued(i, u).link_down = i.link_down
      /\ Queued(i, u).detached = i.detached /\ Queued(i, u).replay = i.replay
      /\ Queued(i, u).received = i.received
      /\ Queued(i, u).acked_to_peer = i.acked_to_peer
      /\ Queued(i, u).ack_due = i.ack_due /\ Queued(i, u).resuming = i.resuming
      /\ Queued(i, u).suspended = i.suspended /\ Queued(i, u).stalled = i.stalled
      /\ Queued(i, u).close_kind = i.close_kind
  BY <1>2 DEF InnerType
<1> QED BY <1>3, <1>4 DEF q

LEMMA LeftIs ==
  ASSUME NEW i \in InnerType, NEW units \in Seq(Nat)
  PROVE  /\ Left(i, units) \in InnerType
         /\ Left(i, units).conn = i.conn /\ Left(i, units).generation = i.generation
         /\ Left(i, units).outbox = i.outbox \o units
         /\ Left(i, units).link_down = i.link_down /\ Left(i, units).detached
         /\ Left(i, units).replay = i.replay /\ Left(i, units).received = i.received
         /\ Left(i, units).acked_to_peer = i.acked_to_peer
         /\ Left(i, units).ack_due = i.ack_due /\ Left(i, units).resuming = i.resuming
         /\ Left(i, units).suspended = i.suspended /\ Left(i, units).stalled = i.stalled
         /\ Left(i, units).close_kind = i.close_kind
<1> DEFINE q == i.outbox \o units
<1>1. q \in Seq(Nat)
  BY ConcatProperties DEF InnerType
<1>2. Left(i, units) = [i EXCEPT !.detached = TRUE, !.outbox = q]
  BY DEF Left, InnerType
<1> HIDE DEF q
<1>3. Left(i, units) \in InnerType
  BY <1>1, <1>2 DEF InnerType
<1>4. /\ Left(i, units).conn = i.conn /\ Left(i, units).generation = i.generation
      /\ Left(i, units).outbox = q /\ Left(i, units).link_down = i.link_down
      /\ Left(i, units).detached /\ Left(i, units).replay = i.replay
      /\ Left(i, units).received = i.received
      /\ Left(i, units).acked_to_peer = i.acked_to_peer
      /\ Left(i, units).ack_due = i.ack_due /\ Left(i, units).resuming = i.resuming
      /\ Left(i, units).suspended = i.suspended /\ Left(i, units).stalled = i.stalled
      /\ Left(i, units).close_kind = i.close_kind
  BY <1>2 DEF InnerType
<1> QED BY <1>3, <1>4 DEF q

LEMMA ResumesIs ==
  ASSUME NEW i \in InnerType
  PROVE  /\ Resumes(i) \in InnerType
         /\ Resumes(i).conn = i.conn /\ Resumes(i).generation = i.generation
         /\ Resumes(i).outbox = i.outbox /\ Resumes(i).link_down = i.link_down
         /\ Resumes(i).detached = i.detached /\ Resumes(i).replay = i.replay
         /\ Resumes(i).received = i.received /\ Resumes(i).acked_to_peer = i.acked_to_peer
         /\ Resumes(i).ack_due = i.ack_due /\ Resumes(i).resuming
         /\ Resumes(i).suspended = i.suspended /\ Resumes(i).stalled = i.stalled
         /\ Resumes(i).close_kind = i.close_kind
<1>2. Resumes(i) = [i EXCEPT !.resuming = TRUE]
  BY DEF Resumes, InnerType
<1>3. Resumes(i) \in InnerType
  BY <1>2 DEF InnerType
<1>4. /\ Resumes(i).conn = i.conn /\ Resumes(i).generation = i.generation
      /\ Resumes(i).outbox = i.outbox /\ Resumes(i).link_down = i.link_down
      /\ Resumes(i).detached = i.detached /\ Resumes(i).replay = i.replay
      /\ Resumes(i).received = i.received /\ Resumes(i).acked_to_peer = i.acked_to_peer
      /\ Resumes(i).ack_due = i.ack_due /\ Resumes(i).resuming
      /\ Resumes(i).suspended = i.suspended /\ Resumes(i).stalled = i.stalled
      /\ Resumes(i).close_kind = i.close_kind
  BY <1>2 DEF InnerType
<1> QED BY <1>3, <1>4

LEMMA StallsIs ==
  ASSUME NEW i \in InnerType
  PROVE  /\ Stalls(i) \in InnerType
         /\ Stalls(i).conn = i.conn /\ Stalls(i).generation = i.generation
         /\ Stalls(i).outbox = i.outbox /\ Stalls(i).link_down = i.link_down
         /\ Stalls(i).detached = i.detached /\ Stalls(i).replay = i.replay
         /\ Stalls(i).received = i.received /\ Stalls(i).acked_to_peer = i.acked_to_peer
         /\ Stalls(i).ack_due = i.ack_due /\ Stalls(i).resuming = i.resuming
         /\ Stalls(i).suspended = i.suspended /\ Stalls(i).stalled
         /\ Stalls(i).close_kind = i.close_kind
<1>2. Stalls(i) = [i EXCEPT !.stalled = TRUE]
  BY DEF Stalls, InnerType
<1>3. Stalls(i) \in InnerType
  BY <1>2 DEF InnerType
<1>4. /\ Stalls(i).conn = i.conn /\ Stalls(i).generation = i.generation
      /\ Stalls(i).outbox = i.outbox /\ Stalls(i).link_down = i.link_down
      /\ Stalls(i).detached = i.detached /\ Stalls(i).replay = i.replay
      /\ Stalls(i).received = i.received /\ Stalls(i).acked_to_peer = i.acked_to_peer
      /\ Stalls(i).ack_due = i.ack_due /\ Stalls(i).resuming = i.resuming
      /\ Stalls(i).suspended = i.suspended /\ Stalls(i).stalled
      /\ Stalls(i).close_kind = i.close_kind
  BY <1>2 DEF InnerType
<1> QED BY <1>3, <1>4

LEMMA AwayIs ==
  ASSUME NEW i \in InnerType
  PROVE  /\ Away(i) \in InnerType
         /\ Away(i).conn = i.conn /\ Away(i).generation = i.generation
         /\ Away(i).outbox = i.outbox /\ Away(i).link_down = i.link_down
         /\ Away(i).detached = i.detached /\ Away(i).replay = i.replay
         /\ Away(i).received = i.received /\ Away(i).acked_to_peer = i.acked_to_peer
         /\ Away(i).ack_due = i.ack_due /\ Away(i).resuming = i.resuming
         /\ Away(i).suspended /\ Away(i).stalled = i.stalled
         /\ Away(i).close_kind = i.close_kind
<1>2. Away(i) = [i EXCEPT !.suspended = TRUE]
  BY DEF Away, InnerType
<1>3. Away(i) \in InnerType
  BY <1>2 DEF InnerType
<1>4. /\ Away(i).conn = i.conn /\ Away(i).generation = i.generation
      /\ Away(i).outbox = i.outbox /\ Away(i).link_down = i.link_down
      /\ Away(i).detached = i.detached /\ Away(i).replay = i.replay
      /\ Away(i).received = i.received /\ Away(i).acked_to_peer = i.acked_to_peer
      /\ Away(i).ack_due = i.ack_due /\ Away(i).resuming = i.resuming
      /\ Away(i).suspended /\ Away(i).stalled = i.stalled
      /\ Away(i).close_kind = i.close_kind
  BY <1>2 DEF InnerType
<1> QED BY <1>3, <1>4

LEMMA BackIs ==
  ASSUME NEW i \in InnerType
  PROVE  /\ Back(i) \in InnerType
         /\ Back(i).conn = i.conn /\ Back(i).generation = i.generation
         /\ Back(i).outbox = i.outbox /\ Back(i).link_down = i.link_down
         /\ Back(i).detached = i.detached /\ Back(i).replay = i.replay
         /\ Back(i).received = i.received /\ Back(i).acked_to_peer = i.acked_to_peer
         /\ Back(i).ack_due = i.ack_due /\ Back(i).resuming = i.resuming
         /\ ~Back(i).suspended /\ Back(i).stalled = i.stalled
         /\ Back(i).close_kind = i.close_kind
<1>2. Back(i) = [i EXCEPT !.suspended = FALSE]
  BY DEF Back, InnerType
<1>3. Back(i) \in InnerType
  BY <1>2 DEF InnerType
<1>4. /\ Back(i).conn = i.conn /\ Back(i).generation = i.generation
      /\ Back(i).outbox = i.outbox /\ Back(i).link_down = i.link_down
      /\ Back(i).detached = i.detached /\ Back(i).replay = i.replay
      /\ Back(i).received = i.received /\ Back(i).acked_to_peer = i.acked_to_peer
      /\ Back(i).ack_due = i.ack_due /\ Back(i).resuming = i.resuming
      /\ ~Back(i).suspended /\ Back(i).stalled = i.stalled
      /\ Back(i).close_kind = i.close_kind
  BY <1>2 DEF InnerType
<1> QED BY <1>3, <1>4

LEMMA BackToResumeIs ==
  ASSUME NEW i \in InnerType
  PROVE  /\ BackToResume(i) \in InnerType
         /\ BackToResume(i).conn = i.conn /\ BackToResume(i).generation = i.generation
         /\ BackToResume(i).outbox = i.outbox /\ BackToResume(i).link_down = i.link_down
         /\ BackToResume(i).detached = i.detached /\ BackToResume(i).replay = i.replay
         /\ BackToResume(i).received = i.received
         /\ BackToResume(i).acked_to_peer = i.acked_to_peer
         /\ BackToResume(i).ack_due = i.ack_due /\ BackToResume(i).resuming
         /\ BackToResume(i).suspended = i.suspended /\ ~BackToResume(i).stalled
         /\ BackToResume(i).close_kind = i.close_kind
<1>2. BackToResume(i) = [i EXCEPT !.stalled = FALSE, !.resuming = TRUE]
  BY DEF BackToResume, InnerType
<1>3. BackToResume(i) \in InnerType
  BY <1>2 DEF InnerType
<1>4. /\ BackToResume(i).conn = i.conn /\ BackToResume(i).generation = i.generation
      /\ BackToResume(i).outbox = i.outbox /\ BackToResume(i).link_down = i.link_down
      /\ BackToResume(i).detached = i.detached /\ BackToResume(i).replay = i.replay
      /\ BackToResume(i).received = i.received
      /\ BackToResume(i).acked_to_peer = i.acked_to_peer
      /\ BackToResume(i).ack_due = i.ack_due /\ BackToResume(i).resuming
      /\ BackToResume(i).suspended = i.suspended /\ ~BackToResume(i).stalled
      /\ BackToResume(i).close_kind = i.close_kind
  BY <1>2 DEF InnerType
<1> QED BY <1>3, <1>4

LEMMA StandDownIs ==
  ASSUME NEW i \in InnerType
  PROVE  /\ StandDown(i) \in InnerType
         /\ StandDown(i).conn = i.conn /\ StandDown(i).generation = i.generation
         /\ StandDown(i).outbox = i.outbox /\ StandDown(i).link_down = i.link_down
         /\ StandDown(i).detached = i.detached /\ StandDown(i).replay = i.replay
         /\ StandDown(i).received = i.received
         /\ StandDown(i).acked_to_peer = i.acked_to_peer
         /\ StandDown(i).ack_due = i.ack_due /\ ~StandDown(i).resuming
         /\ StandDown(i).suspended = i.suspended /\ StandDown(i).stalled
         /\ StandDown(i).close_kind = i.close_kind
<1>2. StandDown(i) = [i EXCEPT !.resuming = FALSE, !.stalled = TRUE]
  BY DEF StandDown, InnerType
<1>3. StandDown(i) \in InnerType
  BY <1>2 DEF InnerType
<1>4. /\ StandDown(i).conn = i.conn /\ StandDown(i).generation = i.generation
      /\ StandDown(i).outbox = i.outbox /\ StandDown(i).link_down = i.link_down
      /\ StandDown(i).detached = i.detached /\ StandDown(i).replay = i.replay
      /\ StandDown(i).received = i.received
      /\ StandDown(i).acked_to_peer = i.acked_to_peer
      /\ StandDown(i).ack_due = i.ack_due /\ ~StandDown(i).resuming
      /\ StandDown(i).suspended = i.suspended /\ StandDown(i).stalled
      /\ StandDown(i).close_kind = i.close_kind
  BY <1>2 DEF InnerType
<1> QED BY <1>3, <1>4

LEMMA ConsumeUnfolds ==
  ASSUME NEW i, NEW f
  PROVE  \E d \in BOOLEAN :
           Consume(i, f) =
             [i EXCEPT !.received = IF f.t = "data" THEN i.received + 1 ELSE i.received,
                       !.replay = IF f.t = "ack" THEN Ack(i.replay, f.n) ELSE i.replay,
                       !.ack_due = d]
<1> DEFINE r == IF f.t = "data" THEN i.received + 1 ELSE i.received
           d == i.ack_due \/ r - i.acked_to_peer >= ACK_EVERY_BYTES
<1>1. Consume(i, f) =
        [i EXCEPT !.received = r, !.replay = IF f.t = "ack" THEN Ack(i.replay, f.n) ELSE i.replay,
                  !.ack_due = d]
  BY DEF Consume
<1>2. d \in BOOLEAN
  OBVIOUS
<1> HIDE DEF d
<1> QED BY <1>1, <1>2

LEMMA ConsumeIs ==
  ASSUME NEW i \in InnerType, NEW f \in Frames
  PROVE  /\ Consume(i, f) \in InnerType
         /\ Consume(i, f).conn = i.conn /\ Consume(i, f).generation = i.generation
         /\ Consume(i, f).outbox = i.outbox /\ Consume(i, f).link_down = i.link_down
         /\ Consume(i, f).detached = i.detached
         /\ Consume(i, f).replay = IF f.t = "ack" THEN Ack(i.replay, f.n) ELSE i.replay
         /\ Consume(i, f).received = IF f.t = "data" THEN i.received + 1 ELSE i.received
         /\ Consume(i, f).acked_to_peer = i.acked_to_peer /\ Consume(i, f).resuming = i.resuming
         /\ Consume(i, f).suspended = i.suspended /\ Consume(i, f).stalled = i.stalled
         /\ Consume(i, f).close_kind = i.close_kind
<1> DEFINE n == IF f.t = "data" THEN i.received + 1 ELSE i.received
           r == IF f.t = "ack" THEN Ack(i.replay, f.n) ELSE i.replay
<1>1. n \in Nat /\ r \in ReplayType(Nat)
  <2>1. i.replay \in ReplayType(Nat) /\ f.n \in Nat /\ i.received \in Nat
    BY DEF InnerType, Frames
  <2>2. Ack(i.replay, f.n) \in ReplayType(Nat)
    BY <2>1, AckType
  <2> QED BY <2>1, <2>2
<1>2. PICK d \in BOOLEAN :
        Consume(i, f) = [i EXCEPT !.received = n, !.replay = r, !.ack_due = d]
  BY ConsumeUnfolds
<1> HIDE DEF n, r
<1>3. Consume(i, f) \in InnerType
  BY <1>1, <1>2 DEF InnerType
<1>4. /\ Consume(i, f).conn = i.conn /\ Consume(i, f).generation = i.generation
      /\ Consume(i, f).outbox = i.outbox /\ Consume(i, f).link_down = i.link_down
      /\ Consume(i, f).detached = i.detached /\ Consume(i, f).replay = r
      /\ Consume(i, f).received = n /\ Consume(i, f).acked_to_peer = i.acked_to_peer
      /\ Consume(i, f).resuming = i.resuming
      /\ Consume(i, f).suspended = i.suspended /\ Consume(i, f).stalled = i.stalled
      /\ Consume(i, f).close_kind = i.close_kind
  BY <1>2 DEF InnerType
<1> QED BY <1>3, <1>4 DEF n, r

LEMMA DeclareDeadIs ==
  ASSUME NEW i \in InnerType
  PROVE  /\ DeclareDead(i) \in InnerType
         /\ DeclareDead(i).link_down /\ (DeclareDead(i).resuming => i.link_down /\ i.resuming)
         /\ DeclareDead(i).conn = i.conn /\ DeclareDead(i).generation = i.generation
         /\ DeclareDead(i).outbox = i.outbox /\ DeclareDead(i).detached = i.detached
         /\ DeclareDead(i).replay = i.replay /\ DeclareDead(i).received = i.received
         /\ DeclareDead(i).acked_to_peer = i.acked_to_peer
         /\ DeclareDead(i).ack_due = i.ack_due /\ DeclareDead(i).suspended = i.suspended
         /\ DeclareDead(i).stalled = i.stalled
<1>1. CASE i.link_down
  BY <1>1 DEF DeclareDead
<1>2. CASE ~i.link_down
  <2>1. DeclareDead(i) = [i EXCEPT !.resuming = FALSE, !.link_down = TRUE, !.close_kind = "lost"]
    BY <1>2 DEF DeclareDead
  <2> QED BY <2>1 DEF InnerType
<1> QED BY <1>1, <1>2

\* The top of the resume loop: it gives way, stands down, gives up, or dials.
LEMMA LoopTopIs ==
  ASSUME NEW i \in InnerType, NEW l \in LoopType
  PROVE  \/ Abandons(i, l.gen) /\ LoopTop(i, l) = [inner |-> i, pc |-> "none"]
         \/ /\ ~Abandons(i, l.gen) /\ i.suspended
            /\ LoopTop(i, l) = [inner |-> StandDown(i), pc |-> "none"]
         \/ /\ ~Abandons(i, l.gen) /\ ~i.suspended
            /\ LoopTop(i, l) = [inner |-> DeclareDead(i), pc |-> "none"]
         \/ /\ ~Abandons(i, l.gen) /\ ~i.suspended
            /\ LoopTop(i, l) = [inner |-> i, pc |-> "dialing"]
<1>1. CASE Abandons(i, l.gen)
  BY <1>1 DEF LoopTop
<1>2. CASE ~Abandons(i, l.gen) /\ i.suspended
  BY <1>2 DEF LoopTop
<1>3. CASE /\ ~Abandons(i, l.gen) /\ ~i.suspended
           /\ l.spent > RESUME_WINDOW \/ i.replay.overflowed
  BY <1>3 DEF LoopTop
<1>4. CASE /\ ~Abandons(i, l.gen) /\ ~i.suspended
           /\ ~(l.spent > RESUME_WINDOW \/ i.replay.overflowed)
  BY <1>4 DEF LoopTop
<1> QED BY <1>1, <1>2, <1>3, <1>4

\* What a step of the loop at slot s leaves of it.
LEMMA SetLoopIs ==
  ASSUME Types, NEW s \in Slots, NEW l \in LoopType,
         NEW pc \in {"none", "spawned", "dialing", "backoff"}, SetLoop(s, pc, l)
  PROVE  /\ loops' \in [Slots -> LoopType]
         /\ \A t \in Slots : t # s => loops'[t] = loops[t]
         /\ loops'[s].pc = pc
         /\ pc # "none" => loops'[s].gen = l.gen
         /\ loops'[s].conn = l.conn \/ loops'[s].conn = NoConn
<1>1. loops \in [Slots -> LoopType]
  BY DEF Types, CTypes
<1>2. NoLoop \in LoopType /\ NoLoop.pc = "none" /\ NoLoop.conn = NoConn
  BY DEF NoLoop, LoopType, AnyConn, NoConn
<1>3. CASE pc = "none"
  <2>1. loops' = [loops EXCEPT ![s] = NoLoop]
    BY <1>3 DEF SetLoop
  <2> QED BY <1>1, <1>2, <1>3, <2>1
<1>4. CASE pc # "none"
  <2> DEFINE m == [l EXCEPT !.pc = pc]
  <2>1. m \in LoopType /\ m.pc = pc /\ m.gen = l.gen /\ m.conn = l.conn
    BY DEF LoopType
  <2>2. loops' = [loops EXCEPT ![s] = m]
    BY <1>4 DEF SetLoop
  <2> HIDE DEF m
  <2> QED BY <1>1, <2>1, <2>2
<1> QED BY <1>3, <1>4

LEMMA NewLoopIs ==
  ASSUME NEW g \in Nat
  PROVE  /\ [NoLoop EXCEPT !.gen = g] \in LoopType
         /\ [NoLoop EXCEPT !.gen = g].gen = g /\ [NoLoop EXCEPT !.gen = g].conn = NoConn
BY DEF NoLoop, LoopType, AnyConn, NoConn
-----------------------------------------------------------------------------
(* The control of the client: its resume loop and its tasks. *)

\* A loop at work is of the current generation of a session that is resuming.
LoopsAtWork ==
  \A s \in Slots : loops[s].pc # "none"
    => inner.resuming /\ loops[s].gen = inner.generation /\ connect = "up"

\* Until connect has its answer there are no tasks, and nothing has happened.
Beginning ==
  connect # "up" =>
    /\ inner.conn = 1 /\ inner.generation = 0
    /\ ~inner.resuming /\ ~inner.detached /\ ~inner.suspended /\ ~inner.link_down
    /\ \A c \in Conns : reader[c] = "none" /\ writer[c] = "none" /\ gen[c] = 0

\* The tasks of the current generation are those of the current connection.
Installed(c) == reader[c] # "none"
Tasks ==
  /\ \A c \in Conns : /\ gen[c] <= inner.generation
                      /\ ~Installed(c) => writer[c] = "none"
                      /\ Installed(c) /\ gen[c] = inner.generation => c = inner.conn
  /\ connect = "up" => Installed(inner.conn) /\ gen[inner.conn] = inner.generation

CControl == OneLoop /\ LoopsAtWork /\ ResumingHasLoop /\ NoOrphan /\ Beginning /\ Tasks

SameData(i, j) == /\ j.outbox = i.outbox /\ j.replay = i.replay
                  /\ j.received = i.received /\ j.acked_to_peer = i.acked_to_peer
SameLink(i, j) == /\ j.conn = i.conn /\ j.generation = i.generation
                  /\ j.detached = i.detached /\ j.suspended = i.suspended

\* The loop that runs: it dials, and it is the only one; or the session is over.
Dialing == \E s \in Slots : /\ loops[s].pc = "dialing" /\ loops[s].gen = inner.generation
                            /\ \A t \in Slots : t # s => loops[t].pc = "none"
NoLoops == \A s \in Slots : loops[s].pc = "none"

LEMMA FreeSlotIs == NoLoops => FreeSlot \in Slots
BY DEF NoLoops, FreeSlot, Slots

LEMMA StartLoopIs ==
  ASSUME Types, NoLoops, NEW n \in NetType, ~inner.suspended, ~inner.detached,
         StartLoop(Resumes(inner), inner.generation, n)
  PROVE  /\ inner' \in InnerType /\ loops' \in [Slots -> LoopType]
         /\ net' = CClose(n, inner.conn)
         /\ SameData(inner, inner') /\ SameLink(inner, inner')
         /\ inner'.stalled = inner.stalled
         /\ \/ inner'.link_down /\ NoLoops'
            \/ inner'.resuming /\ inner'.link_down = inner.link_down /\ Dialing'
<1> DEFINE i == Resumes(inner)
           l == [NoLoop EXCEPT !.gen = inner.generation]
           t == LoopTop(i, l)
           s == FreeSlot
<1>1. inner \in InnerType
  BY DEF Types, CTypes
<1>2. /\ i \in InnerType /\ SameData(inner, i) /\ SameLink(inner, i) /\ i.resuming
      /\ i.link_down = inner.link_down /\ i.stalled = inner.stalled
  BY <1>1, ResumesIs DEF SameData, SameLink
<1>3. l \in LoopType /\ l.gen = inner.generation
  BY <1>1, NewLoopIs DEF InnerType
<1>4. s \in Slots
  BY FreeSlotIs
<1>5. inner' = t.inner /\ net' = CClose(n, i.conn) /\ SetLoop(s, t.pc, l)
  BY DEF StartLoop
<1>6. net' = CClose(n, inner.conn)
  BY <1>2, <1>5 DEF SameLink
<1>7. \/ Abandons(i, l.gen) /\ t = [inner |-> i, pc |-> "none"]
      \/ t = [inner |-> DeclareDead(i), pc |-> "none"]
      \/ t = [inner |-> i, pc |-> "dialing"]
  <2> HIDE DEF i, l
  <2> QED BY <1>2, <1>3, LoopTopIs DEF SameLink
<1> HIDE DEF i, l, t, s
<1>8. CASE Abandons(i, l.gen) /\ t = [inner |-> i, pc |-> "none"]
  <2>1. i.link_down
    BY <1>2, <1>3, <1>8 DEF Abandons, Stale, SameLink
  <2>2. inner' = i /\ SetLoop(s, "none", l)
    BY <1>5, <1>8
  <2>3. loops' \in [Slots -> LoopType] /\ NoLoops'
    BY <1>3, <1>4, <2>2, SetLoopIs DEF NoLoops
  <2> QED BY <1>2, <1>6, <2>1, <2>2, <2>3
<1>9. CASE t = [inner |-> DeclareDead(i), pc |-> "none"]
  <2>1. inner' = DeclareDead(i) /\ SetLoop(s, "none", l)
    BY <1>5, <1>9
  <2>2. loops' \in [Slots -> LoopType] /\ NoLoops'
    BY <1>3, <1>4, <2>1, SetLoopIs DEF NoLoops
  <2>3. /\ inner' \in InnerType /\ inner'.link_down /\ inner'.stalled = inner.stalled
        /\ SameData(inner, inner') /\ SameLink(inner, inner')
    BY <1>2, <2>1, DeclareDeadIs DEF SameData, SameLink
  <2> QED BY <1>6, <2>2, <2>3
<1>10. CASE t = [inner |-> i, pc |-> "dialing"]
  <2>1. inner' = i /\ SetLoop(s, "dialing", l)
    BY <1>5, <1>10
  <2>2. /\ loops' \in [Slots -> LoopType]
        /\ \A r \in Slots : r # s => loops'[r] = loops[r]
        /\ loops'[s].pc = "dialing" /\ loops'[s].gen = l.gen
    BY <1>3, <1>4, <2>1, SetLoopIs
  <2>3. inner'.generation = l.gen
    BY <1>2, <1>3, <2>1 DEF SameLink
  <2>4. Dialing'
    BY <1>4, <2>2, <2>3 DEF Dialing, NoLoops
  <2> QED BY <1>2, <1>6, <2>1, <2>2, <2>4
<1> QED BY <1>7, <1>8, <1>9, <1>10

LEMMA LinkLostIs ==
  ASSUME Types, LoopsAtWork, NEW n \in NetType, NEW g \in Nat, LinkLost(g, n)
  PROVE  /\ inner' \in InnerType /\ loops' \in [Slots -> LoopType]
         /\ SameData(inner, inner') /\ SameLink(inner, inner')
         /\ \/ /\ g # inner.generation \/ inner.detached \/ inner.resuming
               /\ inner' = inner /\ loops' = loops /\ net' = n
            \/ /\ inner'.stalled /\ inner'.link_down = inner.link_down
               /\ inner'.resuming = inner.resuming
               /\ loops' = loops /\ net' = n
            \/ /\ NoLoops /\ net' = CClose(n, inner.conn)
               /\ inner'.stalled = inner.stalled
               /\ \/ inner'.link_down /\ NoLoops'
                  \/ inner'.resuming /\ inner'.link_down = inner.link_down /\ Dialing'
<1>1. inner \in InnerType /\ loops \in [Slots -> LoopType]
  BY DEF Types, CTypes
<1>2. CASE Stale(inner, g) \/ inner.detached \/ inner.resuming
  <2>1. inner' = inner /\ loops' = loops /\ net' = n
    BY <1>2 DEF LinkLost
  <2> QED BY <1>1, <1>2, <2>1 DEF Stale, SameData, SameLink
<1>3. CASE ~(Stale(inner, g) \/ inner.detached \/ inner.resuming) /\ inner.suspended
  <2>1. inner' = Stalls(inner) /\ loops' = loops /\ net' = n
    BY <1>3 DEF LinkLost, Stalls
  <2> QED BY <1>1, <2>1, StallsIs DEF SameData, SameLink
<1>4. CASE ~(Stale(inner, g) \/ inner.detached \/ inner.resuming) /\ ~inner.suspended
  <2>1. g = inner.generation
    BY <1>4 DEF Stale
  <2>2. StartLoop(Resumes(inner), inner.generation, n)
    BY <1>4, <2>1 DEF LinkLost, Resumes
  <2>3. NoLoops
    BY <1>4 DEF LoopsAtWork, NoLoops
  <2> QED BY <1>4, <2>2, <2>3, StartLoopIs
<1> QED BY <1>2, <1>3, <1>4

\* A lost link leaves the session alive only with a loop at work or with wake to come.
LEMMA LinkLostControl ==
  ASSUME Types, CControl, NEW n \in NetType, NEW g \in Nat, LinkLost(g, n),
         connect = "up", connect' = connect
  PROVE  /\ OneLoop' /\ LoopsAtWork' /\ ResumingHasLoop'
         /\ Alive' /\ g = inner.generation => inner'.resuming \/ inner'.stalled
         /\ inner' = inner \/ (Alive' => inner'.resuming \/ inner'.stalled)
<1>0. OneLoop /\ LoopsAtWork /\ ResumingHasLoop
  BY DEF CControl
<1>1. SameLink(inner, inner')
  BY <1>0, LinkLostIs
<1>2. CASE inner' = inner /\ loops' = loops
           /\ (g # inner.generation \/ inner.detached \/ inner.resuming)
  <2>1. OneLoop' /\ LoopsAtWork' /\ ResumingHasLoop'
    BY <1>0, <1>2 DEF OneLoop, LoopsAtWork, ResumingHasLoop, Alive
  <2> QED BY <1>2, <2>1 DEF Alive
<1>3. CASE inner'.stalled /\ loops' = loops /\ inner'.link_down = inner.link_down
           /\ inner'.resuming = inner.resuming
  <2>1. OneLoop' /\ LoopsAtWork' /\ ResumingHasLoop'
    BY <1>0, <1>1, <1>3 DEF OneLoop, LoopsAtWork, ResumingHasLoop, Alive, SameLink
  <2> QED BY <1>3, <2>1
<1>4. CASE inner'.link_down /\ NoLoops'
  BY <1>4 DEF OneLoop, LoopsAtWork, ResumingHasLoop, Alive, NoLoops
<1>5. CASE inner'.resuming /\ Dialing'
  <2>1. PICK s \in Slots : /\ loops'[s].pc = "dialing" /\ loops'[s].gen = inner'.generation
                           /\ \A t \in Slots : t # s => loops'[t].pc = "none"
    BY <1>5 DEF Dialing
  <2>2. OneLoop' /\ LoopsAtWork' /\ ResumingHasLoop'
    BY <1>5, <2>1 DEF OneLoop, LoopsAtWork, ResumingHasLoop
  <2> QED BY <1>5, <2>2
<1> QED BY <1>0, <1>2, <1>3, <1>4, <1>5, LinkLostIs

SameControl(i, j) == /\ j.conn = i.conn /\ j.generation = i.generation
                     /\ j.detached = i.detached /\ j.link_down = i.link_down
                     /\ j.resuming = i.resuming /\ j.stalled = i.stalled

\* Traffic changes nothing of the control; only a superseded reader ever stops.
LEMMA QuietControl ==
  ASSUME Types, CControl, connect = "up", UNCHANGED <<connect, loops, gen>>,
         SameControl(inner, inner'),
         reader' = reader
           \/ \E c \in Conns : /\ reader[c] = "reading" /\ gen[c] # inner.generation
                               /\ reader' = [reader EXCEPT ![c] = "done"],
         \A c \in Conns : writer[c] = "none" => writer'[c] = "none"
  PROVE  CControl'
<1>1. reader \in [Conns -> {"none", "reading", "done"}] /\ inner.conn \in Conns
  BY DEF Types, CTypes, InnerType
<1>2. OneLoop' /\ LoopsAtWork' /\ ResumingHasLoop'
  BY DEF CControl, OneLoop, LoopsAtWork, ResumingHasLoop, Alive, SameControl
<1>3. Beginning'
  BY DEF Beginning
<1>4. \A c \in Conns : Installed(c)' <=> Installed(c)
  BY <1>1 DEF Installed
<1>5. Tasks'
  BY <1>1, <1>4 DEF CControl, Tasks, SameControl, Installed
<1>6. gen[inner.conn] = inner.generation
  BY DEF CControl, Tasks
<1>7. reader'[inner.conn] = reader[inner.conn]
  BY <1>1, <1>6
<1>8. NoOrphan'
  BY <1>7 DEF CControl, NoOrphan, Alive, SameControl
<1> QED BY <1>2, <1>3, <1>5, <1>8 DEF CControl

\* The tasks of the client, as they are while a loop works.
TasksIdle == UNCHANGED <<connect, reader, writer, gen, fed, typed>>

LEMMA LoopTask ==
  ASSUME Types, CControl, NEW s \in Slots, loops[s].pc # "none"
  PROVE  /\ inner.resuming /\ loops[s].gen = inner.generation /\ connect = "up"
         /\ \A t \in Slots : t # s => loops[t].pc = "none"
         /\ inner \in InnerType /\ loops \in [Slots -> LoopType] /\ loops[s] \in LoopType
         /\ Abandons(inner, loops[s].gen) => inner.detached \/ inner.link_down
BY DEF CControl, LoopsAtWork, OneLoop, Types, CTypes, Abandons, Stale

\* A loop that ends leaves the session over or to wake; one that goes on is alone.
LEMMA LoopControl ==
  ASSUME Types, CControl, NEW s \in Slots, loops[s].pc # "none",
         TasksIdle, inner'.conn = inner.conn, inner'.generation = inner.generation,
         \A t \in Slots : t # s => loops'[t] = loops[t],
         \/ inner'.detached \/ inner'.link_down \/ (inner'.stalled /\ ~inner'.resuming)
         \/ inner' = inner /\ loops'[s].pc # "none",
         loops'[s].pc # "none" => inner' = inner /\ loops'[s].gen = loops[s].gen
  PROVE  CControl'
<1>1. /\ inner.resuming /\ loops[s].gen = inner.generation /\ connect = "up"
      /\ \A t \in Slots : t # s => loops'[t].pc = "none"
  BY LoopTask
<1>2. OneLoop' /\ LoopsAtWork'
  BY <1>1 DEF OneLoop, LoopsAtWork, TasksIdle
<1>3. ResumingHasLoop' /\ NoOrphan'
  BY <1>1 DEF ResumingHasLoop, NoOrphan, Alive
<1>4. Beginning' /\ Tasks'
  BY <1>1 DEF CControl, Beginning, Tasks, Installed, TasksIdle
<1> QED BY <1>2, <1>3, <1>4 DEF CControl

\* One pass of the loop: LoopSpawned and BackedOff.
LEMMA LoopPass ==
  ASSUME Types, CControl, NEW s \in Slots, loops[s].pc # "none", TasksIdle,
         inner' = LoopTop(inner, loops[s]).inner,
         SetLoop(s, LoopTop(inner, loops[s]).pc, loops[s])
  PROVE  /\ CTypes' /\ CControl' /\ SameData(inner, inner') /\ SameLink(inner, inner')
         /\ \A t \in Slots : loops'[t].pc \notin {"handshake", "spawned"}
<1> DEFINE t == LoopTop(inner, loops[s])
<1>1. /\ inner \in InnerType /\ loops[s] \in LoopType /\ CTypes
      /\ \A r \in Slots : r # s => loops[r].pc = "none"
      /\ Abandons(inner, loops[s].gen) => inner.detached \/ inner.link_down
  BY LoopTask DEF Types
<1>2. \/ t = [inner |-> inner, pc |-> "none"] /\ (inner.detached \/ inner.link_down)
      \/ t = [inner |-> StandDown(inner), pc |-> "none"]
      \/ t = [inner |-> DeclareDead(inner), pc |-> "none"]
      \/ t = [inner |-> inner, pc |-> "dialing"]
  BY <1>1, LoopTopIs
<1> HIDE DEF t
<1>3. inner' = t.inner /\ SetLoop(s, t.pc, loops[s])
  BY DEF t
<1>4. /\ t.pc \in {"none", "dialing"}
      /\ \/ t.inner = inner /\ (t.pc = "none" => inner.detached \/ inner.link_down)
         \/ t.inner = StandDown(inner) /\ t.pc = "none"
         \/ t.inner = DeclareDead(inner) /\ t.pc = "none"
  BY <1>2
<1>5. /\ loops' \in [Slots -> LoopType]
      /\ \A r \in Slots : r # s => loops'[r] = loops[r]
      /\ loops'[s].pc = t.pc /\ (t.pc # "none" => loops'[s].gen = loops[s].gen)
  BY <1>1, <1>3, <1>4, SetLoopIs
<1>6. /\ inner' \in InnerType /\ SameData(inner, inner') /\ SameLink(inner, inner')
      /\ \/ inner'.detached \/ inner'.link_down \/ (inner'.stalled /\ ~inner'.resuming)
         \/ inner' = inner /\ t.pc # "none"
      /\ t.pc # "none" => inner' = inner
  BY <1>1, <1>3, <1>4, StandDownIs, DeclareDeadIs DEF SameData, SameLink
<1>7. \A r \in Slots : loops'[r].pc \notin {"handshake", "spawned"}
  BY <1>1, <1>4, <1>5
<1>8. CTypes'
  BY <1>1, <1>5, <1>6, <1>7 DEF CTypes, TasksIdle, SameData
<1>9. CControl'
  BY <1>5, <1>6, LoopControl DEF SameLink
<1> QED BY <1>6, <1>7, <1>8, <1>9

\* One attempt of the loop that came to nothing: Abandon and Retry.
LEMMA LoopFails ==
  ASSUME Types, CControl, NEW s \in Slots, loops[s].pc # "none", TasksIdle, NEW n,
         \/ Abandons(inner, loops[s].gen) /\ Abandon(s, n)
         \/ Retry(s, n)
  PROVE  /\ CTypes' /\ CControl' /\ inner' = inner /\ net' = n
         /\ \A t \in Slots : loops'[t].pc \notin {"handshake", "spawned", "dialing"}
<1>1. /\ inner \in InnerType /\ loops[s] \in LoopType /\ CTypes
      /\ \A r \in Slots : r # s => loops[r].pc = "none"
      /\ Abandons(inner, loops[s].gen) => inner.detached \/ inner.link_down
  BY LoopTask DEF Types
<1>2. loops \in [Slots -> LoopType]
  BY <1>1 DEF CTypes
<1>3. CASE Abandons(inner, loops[s].gen) /\ Abandon(s, n)
  <2>1. /\ inner' = inner /\ net' = n /\ loops' = [loops EXCEPT ![s] = NoLoop]
        /\ NoLoop \in LoopType /\ NoLoop.pc = "none"
    BY <1>3 DEF Abandon, NoLoop, LoopType, AnyConn, NoConn
  <2>2. /\ loops' \in [Slots -> LoopType] /\ loops'[s].pc = "none"
        /\ \A t \in Slots : t # s => loops'[t] = loops[t]
    BY <1>2, <2>1
  <2>3. \A t \in Slots : loops'[t].pc \notin {"handshake", "spawned", "dialing"}
    BY <1>1, <2>2
  <2>4. CControl'
    BY <1>1, <1>3, <2>1, <2>2, LoopControl
  <2> QED BY <1>1, <2>1, <2>2, <2>3, <2>4 DEF CTypes, TasksIdle
<1>4. CASE Retry(s, n)
  <2> DEFINE k == loops[s].spent + 1
             m == [loops[s] EXCEPT !.pc = "backoff", !.conn = 0, !.spent = k]
  <2>1. k \in Nat /\ 0 \in AnyConn
    BY <1>1 DEF LoopType, AnyConn, NoConn
  <2>2. inner' = inner /\ net' = n
    BY <1>4 DEF Retry
  <2>3. loops' = [loops EXCEPT ![s] = m]
    BY <1>2, <1>4 DEF Retry
  <2> HIDE DEF k
  <2>4. m \in LoopType /\ m.pc = "backoff" /\ m.gen = loops[s].gen
    BY <1>1, <2>1 DEF LoopType
  <2> HIDE DEF m
  <2>5. /\ loops' \in [Slots -> LoopType] /\ loops'[s] = m
        /\ \A t \in Slots : t # s => loops'[t] = loops[t]
    BY <1>2, <2>3, <2>4
  <2>6. \A t \in Slots : loops'[t].pc \notin {"handshake", "spawned", "dialing"}
    BY <1>1, <2>4, <2>5
  <2>7. CControl'
    BY <1>1, <2>2, <2>4, <2>5, LoopControl
  <2> QED BY <1>1, <2>2, <2>5, <2>6, <2>7 DEF CTypes, TasksIdle
<1> QED BY <1>3, <1>4

\* The connections are dialed in order.
LEMMA LeastNatural ==
  ASSUME NEW T \in SUBSET Nat, T # {}
  PROVE  \E m \in T : \A k \in T : m <= k
<1> DEFINE R == OpToRel(<, Nat)
<1>1. IsWellFoundedOn(R, Nat)
  BY NatLessThanWellFounded
<1>2. PICK m \in T : \A k \in T : ~ <<k, m>> \in R
  <2> HIDE DEF R
  <2> QED BY <1>1, WFMin
<1>3. ASSUME NEW k \in T PROVE m <= k
  <2>1. k \in Nat /\ m \in Nat
    OBVIOUS
  <2>2. k < m => <<k, m>> \in R
    BY <2>1 DEF OpToRel
  <2>3. <<k, m>> \notin R
    BY <1>2
  <2> HIDE DEF R
  <2> QED BY <2>1, <2>2, <2>3
<1> QED BY <1>3

LEMMA NextConnIs == Undialed # {} => NextConn \in Conns /\ ~net[NextConn].dialed
<1> SUFFICES ASSUME Undialed # {} PROVE NextConn \in Undialed
  BY DEF Undialed
<1>1. Undialed \in SUBSET Nat
  BY WireBoundsAssumption DEF Undialed, Conns
<1>2. \E c \in Undialed : \A d \in Undialed : c <= d
  BY <1>1, LeastNatural
<1> QED BY <1>2 DEF NextConn

\* install_connection: the loop has done its work, and the tasks are new.
LEMMA InstallKeeps ==
  ASSUME Types, CControl, NEW s \in Slots, loops[s].pc = "handshake",
         NEW n \in Nat, NEW tail \in Seq(Nat), net[loops[s].conn].down # <<>>,
         ~Abandons(inner, loops[s].gen), Install(s, loops[s].conn, Trimmed(inner, n), tail),
         UNCHANGED <<connect, fed, typed>>
  PROVE  /\ CTypes' /\ CControl' /\ net' \in NetType
         /\ inner' = Adopted(Trimmed(inner, n), loops[s].conn)
         /\ net' = CWrite(CTake(net, loops[s].conn), loops[s].conn, DataFrames(tail))
<1> DEFINE c == loops[s].conn
           i == Trimmed(inner, n)
<1>1. /\ inner \in InnerType /\ c \in Conns /\ CTypes /\ net \in NetType
      /\ inner.resuming /\ connect = "up" /\ loops \in [Slots -> LoopType]
      /\ \A t \in Slots : t # s => loops[t].pc = "none"
      /\ ~inner.detached /\ ~inner.link_down
  BY LoopTask DEF Types, CTypes, Abandons
<1>2. i \in InnerType /\ i.generation = inner.generation /\ SameLink(inner, i)
      /\ i.received = inner.received /\ i.acked_to_peer = inner.acked_to_peer
  BY <1>1, TrimmedIs DEF SameLink
<1>3. net' = CWrite(CTake(net, c), c, DataFrames(tail))
  BY DEF Install, CTake, DataFrames
<1>4. /\ inner' = Adopted(i, c)
      /\ reader' = [reader EXCEPT ![c] = "reading"]
      /\ writer' = [writer EXCEPT ![c] = IF tail = <<>> THEN "waiting" ELSE "writing"]
      /\ gen' = [gen EXCEPT ![c] = i.generation + 1]
      /\ loops' = [loops EXCEPT ![s] = NoLoop]
  BY DEF Install, Adopted
<1> HIDE DEF i
<1>5. /\ inner' \in InnerType /\ inner'.conn = c /\ ~inner'.resuming
      /\ inner'.generation = inner.generation + 1
      /\ inner'.received = inner.received /\ inner'.acked_to_peer = inner.acked_to_peer
  BY <1>1, <1>2, <1>4, AdoptedIs
<1>6. /\ NoLoop \in LoopType /\ NoLoop.pc = "none"
      /\ inner.generation \in Nat
  BY <1>1 DEF NoLoop, LoopType, AnyConn, NoConn, InnerType
<1>7. loops' \in [Slots -> LoopType] /\ \A t \in Slots : loops'[t].pc = "none"
  BY <1>1, <1>4, <1>6
<1> HIDE DEF c
<1>8. net' \in NetType
  <2>1. CTake(net, c) \in NetType
    BY <1>1, CTakeIs DEF c
  <2>2. DataFrames(tail) \in Seq(Frames)
    BY DataFramesType
  <2> QED BY <1>1, <1>3, <2>1, <2>2, CWriteIs
<1>9. CTypes'
  BY <1>1, <1>2, <1>4, <1>5, <1>6, <1>7 DEF CTypes
<1>10. /\ reader'[c] = "reading" /\ gen'[c] = inner'.generation
       /\ \A d \in Conns : d # c => gen'[d] = gen[d] /\ reader'[d] = reader[d]
       /\ \A d \in Conns : writer'[d] = "none" => reader[d] # "none" \/ writer[d] = "none"
       /\ \A d \in Conns : d # c => writer'[d] = writer[d]
  BY <1>1, <1>2, <1>4, <1>5 DEF CTypes
<1>11. OneLoop' /\ LoopsAtWork' /\ ResumingHasLoop'
  BY <1>5, <1>7 DEF OneLoop, LoopsAtWork, ResumingHasLoop
<1>12. NoOrphan' /\ Beginning'
  BY <1>1, <1>5, <1>10 DEF NoOrphan, Beginning
<1>13. Tasks'
  <2>1. \A d \in Conns : gen[d] \in Nat /\ gen[d] <= inner.generation
    BY <1>1 DEF CControl, Tasks, CTypes
  <2>2. \A d \in Conns : gen'[d] <= inner'.generation
    BY <1>5, <1>6, <1>10, <2>1
  <2>3. \A d \in Conns : d # c => gen'[d] # inner'.generation
    BY <1>5, <1>6, <1>10, <2>1
  <2>4. \A d \in Conns : reader'[d] = "none" => writer'[d] = "none"
    BY <1>10 DEF CControl, Tasks, Installed
  <2> QED BY <1>1, <1>5, <1>10, <2>2, <2>3, <2>4 DEF Tasks, Installed
<1> QED BY <1>3, <1>4, <1>8, <1>9, <1>11, <1>12, <1>13 DEF CControl, c, i

\* A step of the client, and a step of the listener.
ClientStep ==
  \/ ConnectReply \/ ConnectLost
  \/ \E c \in Conns : \/ Reader(c) \/ ReaderEnd(c)
                      \/ WriterWoken(c) \/ WriterOk(c) \/ WriterErr(c)
  \/ KeepaliveDead
  \/ \E s \in Slots : \/ LoopSpawned(s) \/ BackedOff(s) \/ DialFailed(s) \/ DialOk(s)
                      \/ HandshakeFailed(s) \/ HandshakeReply(s)
  \/ WriteInput \/ Suspend \/ Wake \/ Detach
ListenerStep ==
  \/ \E c \in Conns : \/ StartSession(c) \/ ConnectTarget(c) \/ ResumeSession(c)
                      \/ HelloLost(c) \/ Replied(c) \/ ReplyFailed(c) \/ Lingered(c)
                      \/ ClientReader(c) \/ ClientReaderEnd(c)
  \/ TcpReaderGo \/ TcpReader \/ HostKeyRefused \/ TcpReaderEnd
  \/ ClientWriter \/ ClientWriterOk \/ ClientWriterErr \/ ClientWriterFinish
  \/ ClientWriterExit \/ TcpWriter \/ TcpWriterEnd
  \/ \E e \in timers : GraceExpired(e)
  \/ SshdGone

LEMMA NextSplits ==
  Next => \/ ListenerStep /\ ClientIdle
          \/ ClientStep /\ ListenerIdle
          \/ \E c \in Conns : Lose(c) /\ UNCHANGED <<lvars, cvars>>
BY DEF Next, ListenerStep, ClientStep

\* A reader or a writer that runs is one of an installed connection.
LEMMA TaskRuns ==
  ASSUME Types, CControl, NEW c \in Conns,
         reader[c] = "reading" \/ writer[c] \in {"waiting", "writing"}
  PROVE  /\ connect = "up" /\ Installed(c) /\ gen[c] \in Nat /\ inner \in InnerType
         /\ gen[c] = inner.generation => c = inner.conn
BY DEF Types, CTypes, CControl, Beginning, Tasks, Installed

\* One turn of the writer.
LEMMA WriterTurnIs ==
  ASSUME Types, NEW c \in Conns, WriterTurn(c)
  PROVE  \/ /\ inner.ack_due /\ inner' = AckSent(inner)
            /\ net' = CWrite(net, c, <<Frame("ack", inner.received)>>)
            /\ writer' = [writer EXCEPT ![c] = "writing"]
         \/ /\ inner.outbox # <<>> /\ inner' = UnitSent(inner)
            /\ net' = CWrite(net, c, <<Frame("data", Head(inner.outbox))>>)
            /\ writer' = [writer EXCEPT ![c] = "writing"]
         \/ /\ inner' = inner /\ net' = net
            /\ \E w \in {"done", "waiting"} : writer' = [writer EXCEPT ![c] = w]
BY DEF WriterTurn, AckSent, UnitSent

LEMMA WriterKeeps ==
  ASSUME Types, CControl, NEW c \in Conns, writer[c] \in {"waiting", "writing"},
         Retire(c) \/ WriterTurn(c), UNCHANGED <<connect, reader, gen, loops, fed, typed>>
  PROVE  CTypes' /\ CControl' /\ net' \in NetType
<1>1. inner \in InnerType /\ CTypes /\ net \in NetType /\ connect = "up"
  BY TaskRuns DEF Types
<1>2. /\ inner.received \in Nat /\ inner.acked_to_peer \in Nat
      /\ writer \in [Conns -> {"none", "waiting", "writing", "done"}]
  BY <1>1 DEF CTypes, InnerType
<1> SUFFICES ASSUME \E w \in {"done", "waiting", "writing"} :
                       writer' = [writer EXCEPT ![c] = w]
             PROVE  /\ inner' \in InnerType /\ inner'.acked_to_peer <= inner'.received
                    /\ SameControl(inner, inner') /\ net' \in NetType
  <2>1. \E w \in {"done", "waiting", "writing"} : writer' = [writer EXCEPT ![c] = w]
    BY WriterTurnIs DEF Retire
  <2>2. /\ writer' \in [Conns -> {"none", "waiting", "writing", "done"}]
        /\ \A d \in Conns : writer[d] = "none" => writer'[d] = "none"
    BY <1>2, <2>1
  <2>3. ASSUME inner' \in InnerType, inner'.acked_to_peer <= inner'.received,
               SameControl(inner, inner')
        PROVE  CTypes' /\ CControl'
    BY <1>1, <2>2, <2>3, QuietControl DEF CTypes
  <2> QED BY <2>1, <2>3
<1>3. CASE inner' = inner /\ net' = net
  BY <1>1, <1>3 DEF SameControl, CTypes
<1>4. CASE inner' = AckSent(inner) /\ net' = CWrite(net, c, <<Frame("ack", inner.received)>>)
  <2>1. <<Frame("ack", inner.received)>> \in Seq(Frames)
    <3>1. Frame("ack", inner.received) \in Frames
      BY <1>2, FrameIs DEF FrameTypes
    <3> QED BY <3>1
  <2>2. /\ inner' \in InnerType /\ SameControl(inner, inner')
        /\ inner'.acked_to_peer = inner.received /\ inner'.received = inner.received
    BY <1>1, <1>4, AckSentIs DEF SameControl
  <2>3. net' \in NetType
    BY <1>1, <1>4, <2>1, CWriteIs
  <2> QED BY <1>2, <2>2, <2>3
<1>5. CASE inner.outbox # <<>> /\ inner' = UnitSent(inner)
           /\ net' = CWrite(net, c, <<Frame("data", Head(inner.outbox))>>)
  <2>1. <<Frame("data", Head(inner.outbox))>> \in Seq(Frames)
    <3>1. Head(inner.outbox) \in Nat
      BY <1>1, <1>5, HeadTailProperties DEF InnerType
    <3>2. Frame("data", Head(inner.outbox)) \in Frames
      BY <3>1, FrameIs DEF FrameTypes
    <3> QED BY <3>2
  <2>2. /\ inner' \in InnerType /\ SameControl(inner, inner')
        /\ inner'.acked_to_peer = inner.acked_to_peer /\ inner'.received = inner.received
    BY <1>1, <1>5, UnitSentIs DEF SameControl
  <2> QED BY <1>1, <1>5, <2>1, <2>2, CWriteIs DEF CTypes
<1> QED BY <1>3, <1>4, <1>5, WriterTurnIs DEF Retire

\* consume_frames, or a superseded reader that retires.
LEMMA ReaderIs ==
  ASSUME Types, CControl, NEW c \in Conns, Reader(c)
  PROVE  /\ net[c].down # <<>> /\ Head(net[c].down) \in Frames /\ net[c].cOpen
         /\ \/ /\ gen[c] # inner.generation /\ reader' = [reader EXCEPT ![c] = "done"]
               /\ UNCHANGED <<inner, fed, net>>
            \/ /\ c = inner.conn /\ inner' = Consume(inner, Head(net[c].down))
               /\ fed' = IF Head(net[c].down).t = "data"
                         THEN Append(fed, Head(net[c].down).n) ELSE fed
               /\ net' = CTake(net, c) /\ reader' = reader
<1>1. reader[c] = "reading" /\ net[c].down # <<>> /\ net[c].cOpen
  BY DEF Reader, CReadable
<1>2. Head(net[c].down) \in Frames
  BY <1>1, NetFields, HeadTailProperties DEF Types
<1>3. gen[c] = inner.generation => c = inner.conn
  BY <1>1, TaskRuns
<1> QED BY <1>1, <1>2, <1>3 DEF Reader, Stale, CTake

LEMMA ReaderKeeps ==
  ASSUME Types, CControl, NEW c \in Conns, Reader(c)
  PROVE  CTypes' /\ CControl' /\ net' \in NetType
<1> DEFINE f == Head(net[c].down)
<1>1. /\ inner \in InnerType /\ CTypes /\ net \in NetType /\ connect = "up"
      /\ reader[c] = "reading" /\ f \in Frames /\ net[c].down # <<>>
      /\ UNCHANGED <<connect, writer, gen, loops, typed>>
      /\ fed \in Seq(Nat) /\ reader \in [Conns -> {"none", "reading", "done"}]
  BY TaskRuns, ReaderIs DEF Types, Reader, CTypes
<1>2. CASE /\ gen[c] # inner.generation /\ reader' = [reader EXCEPT ![c] = "done"]
           /\ UNCHANGED <<inner, fed, net>>
  <2>1. reader' \in [Conns -> {"none", "reading", "done"}]
    BY <1>1, <1>2
  <2>2. CTypes'
    BY <1>1, <1>2, <2>1 DEF CTypes
  <2>3. CControl'
    BY <1>1, <1>2, QuietControl DEF SameControl
  <2> QED BY <1>1, <1>2, <2>2, <2>3
<1>3. CASE /\ inner' = Consume(inner, f) /\ net' = CTake(net, c) /\ reader' = reader
           /\ fed' = IF f.t = "data" THEN Append(fed, f.n) ELSE fed
  <2> HIDE DEF f
  <2>1. /\ inner' \in InnerType /\ SameControl(inner, inner')
        /\ inner'.received = IF f.t = "data" THEN inner.received + 1 ELSE inner.received
        /\ inner'.acked_to_peer = inner.acked_to_peer
    BY <1>1, <1>3, ConsumeIs DEF SameControl
  <2>2. inner.received \in Nat /\ inner.acked_to_peer \in Nat
    BY <1>1 DEF InnerType
  <2>3. inner'.acked_to_peer <= inner'.received
    BY <1>1, <2>1, <2>2 DEF CTypes
  <2>4. fed' \in Seq(Nat)
    <3>1. f.n \in Nat
      BY <1>1 DEF Frames
    <3> QED BY <1>1, <1>3, <3>1, AppendProperties
  <2>5. CTypes'
    BY <1>1, <1>3, <2>1, <2>3, <2>4 DEF CTypes
  <2>6. CControl'
    BY <1>1, <1>3, <2>1, QuietControl
  <2>7. net' \in NetType
    BY <1>1, <1>3, CTakeIs
  <2> QED BY <2>5, <2>6, <2>7
<1> QED BY <1>2, <1>3, ReaderIs

\* link_lost, from whichever task saw the connection die.
LEMMA LinkLostKeeps ==
  ASSUME Types, CControl, connect = "up", NEW g \in Nat, LinkLost(g, net),
         UNCHANGED <<connect, gen, fed, typed>>,
         \/ UNCHANGED reader
         \/ \E c \in Conns : /\ reader[c] = "reading" /\ gen[c] = g
                             /\ reader' = [reader EXCEPT ![c] = "done"],
         \/ UNCHANGED writer
         \/ \E c \in Conns : /\ writer[c] = "writing"
                             /\ writer' = [writer EXCEPT ![c] = "done"]
  PROVE  CTypes' /\ CControl' /\ net' \in NetType
<1>1. /\ inner \in InnerType /\ CTypes /\ net \in NetType /\ LoopsAtWork
      /\ reader \in [Conns -> {"none", "reading", "done"}]
      /\ writer \in [Conns -> {"none", "waiting", "writing", "done"}]
  BY DEF Types, CTypes, CControl
<1>2. /\ reader' \in [Conns -> {"none", "reading", "done"}]
      /\ writer' \in [Conns -> {"none", "waiting", "writing", "done"}]
      /\ \A c \in Conns : reader'[c] = "none" <=> reader[c] = "none"
      /\ \A c \in Conns : writer[c] = "none" => writer'[c] = "none"
  BY <1>1
<1>3. /\ inner' \in InnerType /\ loops' \in [Slots -> LoopType]
      /\ SameData(inner, inner') /\ SameLink(inner, inner') /\ inner.conn \in Conns
      /\ net' = net \/ net' = CClose(net, inner.conn)
  BY <1>1, LinkLostIs DEF InnerType
<1>4. \A s \in Slots : loops'[s].pc = "handshake" => loops'[s].conn \in Conns
  <2>1. loops' = loops \/ (\A s \in Slots : loops'[s].pc \in {"none", "dialing"})
    <3>1. Dialing' => \A s \in Slots : loops'[s].pc \in {"none", "dialing"}
      BY DEF Dialing
    <3> QED BY <1>1, <3>1, LinkLostIs DEF NoLoops
  <2> QED BY <1>1, <2>1 DEF CTypes
<1>5. CTypes'
  BY <1>1, <1>2, <1>3, <1>4 DEF CTypes, SameData
<1>6. net' \in NetType
  BY <1>1, <1>3, CCloseIs
<1>7. /\ OneLoop' /\ LoopsAtWork' /\ ResumingHasLoop'
      /\ Alive' /\ g = inner.generation => inner'.resuming \/ inner'.stalled
      /\ inner' = inner \/ (Alive' => inner'.resuming \/ inner'.stalled)
  BY <1>1, LinkLostControl
<1>8. Tasks' /\ Beginning'
  BY <1>2, <1>3 DEF CControl, Tasks, Installed, Beginning, SameLink
<1>9. NoOrphan'
  <2>1. gen[inner.conn] = inner.generation
    BY DEF CControl, Tasks
  <2>2. CASE inner' = inner
    <3>1. Alive' => Alive
      BY <2>2 DEF Alive
    <3>2. reader'[inner.conn] = reader[inner.conn] \/ g = inner.generation
      <4>1. CASE UNCHANGED reader
        BY <4>1
      <4>2. ASSUME NEW d \in Conns, gen[d] = g, reader' = [reader EXCEPT ![d] = "done"]
            PROVE  reader'[inner.conn] = reader[inner.conn] \/ g = inner.generation
        BY <1>1, <1>3, <2>1, <4>2
      <4> QED BY <4>1, <4>2
    <3> QED BY <1>7, <2>2, <3>1, <3>2 DEF CControl, NoOrphan
  <2> QED BY <1>7, <2>2 DEF NoOrphan
<1> QED BY <1>5, <1>6, <1>7, <1>8, <1>9 DEF CControl

\* Session::connect: the answer to the Hello, or its loss.
LEMMA ConnectKeeps ==
  ASSUME Types, CControl, ConnectReply \/ ConnectLost
  PROVE  CTypes' /\ CControl' /\ net' \in NetType
<1>1. /\ inner \in InnerType /\ CTypes /\ net \in NetType /\ connect = "pending" /\ 1 \in Conns
      /\ reader \in [Conns -> {"none", "reading", "done"}]
      /\ writer \in [Conns -> {"none", "waiting", "writing", "done"}]
      /\ UNCHANGED <<inner, gen, loops, fed, typed>>
  BY WireBoundsAssumption DEF Types, CTypes, ConnectReply, ConnectLost, Conns
<1>2. /\ inner.conn = 1 /\ inner.generation = 0 /\ NoLoops
      /\ ~inner.resuming /\ ~inner.detached /\ ~inner.suspended /\ ~inner.link_down
      /\ \A c \in Conns : reader[c] = "none" /\ writer[c] = "none" /\ gen[c] = 0
  BY <1>1 DEF CControl, Beginning, LoopsAtWork, NoLoops
<1>3. OneLoop' /\ LoopsAtWork' /\ ResumingHasLoop'
  BY <1>1, <1>2 DEF OneLoop, LoopsAtWork, ResumingHasLoop, NoLoops
<1>4. CASE /\ connect' = "up" /\ reader' = [reader EXCEPT ![1] = "reading"]
           /\ writer' = [writer EXCEPT ![1] = "waiting"]
           /\ net' = CTake(net, 1) /\ net[1].down # <<>>
  <2>1. net' \in NetType
    BY <1>1, <1>4, CTakeIs
  <2>2. CTypes'
    BY <1>1, <1>4 DEF CTypes
  <2>3. NoOrphan' /\ Beginning' /\ Tasks'
    BY <1>1, <1>2, <1>4 DEF NoOrphan, Beginning, Tasks, Installed
  <2> QED BY <1>3, <2>1, <2>2, <2>3 DEF CControl
<1>5. CASE connect' = "failed" /\ net' = CClose(net, 1) /\ UNCHANGED <<reader, writer>>
  <2>1. net' \in NetType
    BY <1>1, <1>5, CCloseIs
  <2>2. CTypes'
    BY <1>1, <1>5 DEF CTypes
  <2>3. NoOrphan' /\ Beginning' /\ Tasks'
    BY <1>1, <1>2, <1>5 DEF NoOrphan, Beginning, Tasks, Installed, Alive
  <2> QED BY <1>3, <2>1, <2>2, <2>3 DEF CControl
<1> QED BY <1>1, <1>4, <1>5 DEF ConnectReply, ConnectLost, CTake, CReadable

\* The dial: the connection it opens is a new one.
LEMMA DialOkKeeps ==
  ASSUME Types, CControl, NEW s \in Slots, DialOk(s)
  PROVE  CTypes' /\ CControl' /\ net' \in NetType
<1> DEFINE c == NextConn
           f == Frame("resume", inner.received)
           n == Dialed(net, c, f)
<1>1. /\ inner \in InnerType /\ CTypes /\ net \in NetType /\ loops[s].pc = "dialing"
      /\ TasksIdle /\ loops \in [Slots -> LoopType] /\ loops[s] \in LoopType
  BY LoopTask DEF DialOk, Types, LoopUnchanged, TasksIdle
<1>2. c \in Conns
  BY NextConnIs DEF DialOk
<1>3. f \in Frames
  BY <1>1, FrameIs DEF InnerType, FrameTypes
<1> HIDE DEF c, f
<1>4. n \in NetType
  BY <1>1, <1>2, <1>3, DialedIs
<1> HIDE DEF n
<1>5. CASE Abandons(inner, loops[s].gen) /\ Abandon(s, CClose([n EXCEPT ![c].up = <<>>], c))
  <2>1. [n EXCEPT ![c].up = <<>>] \in NetType
    BY <1>4, EmptySeq DEF NetType, ConnType
  <2>2. CClose([n EXCEPT ![c].up = <<>>], c) \in NetType
    BY <1>2, <2>1, CCloseIs
  <2> QED BY <1>1, <1>5, <2>2, LoopFails
<1>6. CASE /\ net' = n /\ inner' = inner
           /\ loops' = [loops EXCEPT ![s].pc = "handshake", ![s].conn = c]
  <2> DEFINE m == [loops[s] EXCEPT !.pc = "handshake", !.conn = c]
  <2>1. loops' = [loops EXCEPT ![s] = m]
    BY <1>1, <1>6
  <2>2. m \in LoopType /\ m.pc = "handshake" /\ m.conn = c /\ m.gen = loops[s].gen
    BY <1>1, <1>2 DEF LoopType, AnyConn
  <2> HIDE DEF m
  <2>3. /\ loops' \in [Slots -> LoopType] /\ loops'[s] = m
        /\ \A t \in Slots : t # s => loops'[t] = loops[t]
    BY <1>1, <2>1, <2>2
  <2>4. \A t \in Slots : loops'[t].pc = "handshake" => loops'[t].conn \in Conns
    BY <1>1, <1>2, <2>2, <2>3 DEF CTypes
  <2>5. CTypes'
    BY <1>1, <1>6, <2>3, <2>4 DEF CTypes, TasksIdle
  <2>6. CControl'
    BY <1>1, <1>6, <2>2, <2>3, LoopControl
  <2> QED BY <1>4, <1>6, <2>5, <2>6
<1> QED BY <1>5, <1>6 DEF DialOk, n, c, f

LEMMA HandshakeKeeps ==
  ASSUME Types, CControl, NEW s \in Slots, HandshakeReply(s)
  PROVE  CTypes' /\ CControl' /\ net' \in NetType
<1> DEFINE c == loops[s].conn
           f == Head(net[c].down)
<1>1. /\ inner \in InnerType /\ CTypes /\ net \in NetType /\ loops[s].pc = "handshake"
      /\ c \in Conns /\ net[c].down # <<>> /\ loops \in [Slots -> LoopType]
      /\ UNCHANGED <<connect, fed, typed>>
  BY DEF HandshakeReply, CReadable, Types, CTypes
<1>2. f \in Frames /\ f.n \in Nat
  <2> HIDE DEF c
  <2> QED BY <1>1, NetFields, HeadFrames
<1>3. CASE /\ Abandons(inner, loops[s].gen) /\ Abandon(s, CClose(net, c))
           /\ UNCHANGED <<reader, writer, gen>>
  <2>1. TasksIdle
    BY <1>1, <1>3 DEF TasksIdle
  <2> QED BY <1>1, <1>3, <2>1, CCloseIs, LoopFails
<1>4. CASE /\ ~Abandons(inner, loops[s].gen) /\ HasTail(inner.replay, f.n)
           /\ Install(s, c, Trimmed(inner, f.n), TailFrom(inner.replay, f.n))
  <2>1. TailFrom(inner.replay, f.n) \in Seq(Nat)
    BY <1>1, <1>2, <1>4, TailFromType DEF InnerType
  <2> HIDE DEF f
  <2> QED BY <1>1, <1>2, <1>4, <2>1, InstallKeeps
<1>5. CASE /\ inner' = DeclareDead(inner) /\ net' = CClose(net, c)
           /\ loops' = [loops EXCEPT ![s] = NoLoop]
           /\ UNCHANGED <<reader, writer, gen>>
  <2>1. NoLoop \in LoopType /\ NoLoop.pc = "none"
    BY DEF NoLoop, LoopType, AnyConn, NoConn
  <2>2. /\ loops' \in [Slots -> LoopType] /\ loops'[s].pc = "none"
        /\ \A t \in Slots : t # s => loops'[t] = loops[t]
    BY <1>1, <1>5, <2>1
  <2>3. /\ inner' \in InnerType /\ inner'.link_down /\ SameData(inner, inner')
        /\ inner'.conn = inner.conn /\ inner'.generation = inner.generation
    BY <1>1, <1>5, DeclareDeadIs DEF SameData
  <2>4. CTypes'
    BY <1>1, <1>5, <2>2, <2>3 DEF CTypes, SameData
  <2>5. CControl'
    BY <1>1, <1>5, <2>2, <2>3, LoopControl DEF TasksIdle
  <2> QED BY <1>1, <1>5, <2>4, <2>5, CCloseIs
<1> QED BY <1>3, <1>4, <1>5 DEF HandshakeReply, Trimmed

\* The page's calls.
LEMMA PageKeeps ==
  ASSUME Types, CControl, WriteInput \/ Suspend \/ Wake \/ Detach
  PROVE  CTypes' /\ CControl' /\ net' \in NetType
<1>1. /\ inner \in InnerType /\ CTypes /\ net \in NetType /\ inner.conn \in Conns
      /\ inner.received \in Nat /\ inner.acked_to_peer \in Nat /\ typed \in Nat
      /\ UNCHANGED <<connect, reader, writer, gen, fed>>
  BY DEF Types, CTypes, InnerType, WriteInput, Suspend, Wake, Detach
<1>2. connect = "up"
  BY DEF WriteInput, Suspend, Wake, Detach, CControl, Beginning
<1>3. CASE WriteInput
  <2>1. inner' = Queued(inner, typed + 1) /\ typed' = typed + 1 /\ UNCHANGED <<loops, net>>
    BY <1>3 DEF WriteInput, Queued
  <2> DEFINE u == typed + 1
  <2>a. u \in Nat
    BY <1>1
  <2> HIDE DEF u
  <2>b. inner' = Queued(inner, u) /\ typed' \in Nat
    BY <2>1, <2>a DEF u
  <2>2. /\ inner' \in InnerType /\ SameControl(inner, inner')
        /\ inner'.received = inner.received /\ inner'.acked_to_peer = inner.acked_to_peer
    BY <1>1, <2>a, <2>b, QueuedIs DEF SameControl
  <2>c. typed' \in Nat
    BY <2>b
  <2>3. CTypes'
    BY <1>1, <2>1, <2>2, <2>c DEF CTypes
  <2>4. CControl'
    BY <1>1, <1>2, <2>1, <2>2, QuietControl
  <2> QED BY <1>1, <2>1, <2>3, <2>4
<1>4. CASE Suspend
  <2>1. inner' = Away(inner) /\ UNCHANGED <<loops, net, typed>>
    BY <1>4 DEF Suspend, Away
  <2>2. /\ inner' \in InnerType /\ SameControl(inner, inner')
        /\ inner'.received = inner.received /\ inner'.acked_to_peer = inner.acked_to_peer
    BY <1>1, <2>1, AwayIs DEF SameControl
  <2>3. CTypes'
    BY <1>1, <2>1, <2>2 DEF CTypes
  <2>4. CControl'
    BY <1>1, <1>2, <2>1, <2>2, QuietControl
  <2> QED BY <1>1, <2>1, <2>3, <2>4
<1>5. CASE Wake
  <2> DEFINE i == Back(inner)
  <2>1. /\ i \in InnerType /\ SameControl(inner, i)
        /\ i.received = inner.received /\ i.acked_to_peer = inner.acked_to_peer
    BY <1>1, BackIs DEF SameControl
  <2>2. \/ inner' = i /\ loops' = loops
        \/ /\ ~i.detached /\ ~i.link_down /\ ~i.resuming
           /\ inner' = BackToResume(i) /\ SpawnLoop(i.generation)
    BY <1>5 DEF Wake, Back, BackToResume
  <2>3. net' = net /\ typed' = typed
    BY <1>5 DEF Wake
  <2> HIDE DEF i
  <2>4. CASE inner' = i /\ loops' = loops
    <3>1. CTypes'
      BY <1>1, <2>1, <2>3, <2>4 DEF CTypes
    <3>2. CControl'
      BY <1>1, <1>2, <2>1, <2>4, QuietControl
    <3> QED BY <1>1, <2>3, <3>1, <3>2
  <2>5. CASE ~i.resuming /\ inner' = BackToResume(i) /\ SpawnLoop(i.generation)
    <3> DEFINE l == [NoLoop EXCEPT !.gen = inner.generation]
    <3>1. l \in LoopType /\ l.gen = inner.generation /\ l.conn = NoConn
      BY <1>1, NewLoopIs DEF InnerType
    <3>2. NoLoops /\ FreeSlot \in Slots
      BY <2>1, <2>5, FreeSlotIs DEF CControl, LoopsAtWork, NoLoops, SameControl
    <3>3. SetLoop(FreeSlot, "spawned", l)
      BY <2>1, <2>5 DEF SpawnLoop, SameControl
    <3> HIDE DEF l
    <3>4. /\ loops' \in [Slots -> LoopType]
          /\ \A t \in Slots : t # FreeSlot => loops'[t].pc = "none"
          /\ loops'[FreeSlot].pc = "spawned" /\ loops'[FreeSlot].gen = inner.generation
      BY <3>1, <3>2, <3>3, SetLoopIs DEF NoLoops
    <3>5. /\ inner' \in InnerType /\ inner'.conn = inner.conn /\ inner'.resuming
          /\ inner'.generation = inner.generation
          /\ inner'.received = inner.received /\ inner'.acked_to_peer = inner.acked_to_peer
      BY <2>1, <2>5, BackToResumeIs DEF SameControl
    <3>6. \A t \in Slots : loops'[t].pc # "handshake"
      BY <3>2, <3>4
    <3>7. CTypes'
      BY <1>1, <2>3, <3>4, <3>5, <3>6 DEF CTypes
    <3>8. OneLoop' /\ LoopsAtWork' /\ ResumingHasLoop' /\ NoOrphan'
      BY <1>1, <1>2, <3>2, <3>4, <3>5
         DEF OneLoop, LoopsAtWork, ResumingHasLoop, NoOrphan
    <3>9. Beginning' /\ Tasks'
      BY <1>1, <1>2, <3>5 DEF CControl, Beginning, Tasks, Installed
    <3> QED BY <1>1, <2>3, <3>7, <3>8, <3>9 DEF CControl
  <2> QED BY <2>2, <2>4, <2>5
<1>6. CASE Detach
  <2>1. PICK units \in {<<>>, <<typed + 1>>} :
          inner' = Left(inner, units) /\ typed' = typed + Len(units)
    BY <1>6 DEF Detach, Left
  <2> DEFINE u == typed + 1
  <2>a. u \in Nat
    BY <1>1
  <2>b. units = <<>> \/ units = <<u>>
    BY <2>1
  <2> HIDE DEF u
  <2>c. units \in Seq(Nat)
    <3>1. <<>> \in Seq(Nat) /\ <<u>> \in Seq(Nat)
      BY <2>a
    <3> QED BY <2>b, <3>1
  <2>d. net' = CClose(net, inner.conn) /\ UNCHANGED loops
    BY <1>6 DEF Detach
  <2>2. units \in Seq(Nat) /\ net' = CClose(net, inner.conn) /\ UNCHANGED loops
    BY <2>c, <2>d
  <2>3. typed' \in Nat
    BY <1>1, <2>1, <2>2, LenProperties
  <2>4. /\ inner' \in InnerType /\ inner'.detached /\ inner'.conn = inner.conn
        /\ inner'.generation = inner.generation /\ inner'.resuming = inner.resuming
        /\ inner'.received = inner.received /\ inner'.acked_to_peer = inner.acked_to_peer
    BY <1>1, <2>1, <2>2, LeftIs
  <2>5. CTypes'
    BY <1>1, <2>2, <2>3, <2>4 DEF CTypes
  <2>6. OneLoop' /\ LoopsAtWork' /\ ResumingHasLoop' /\ NoOrphan'
    BY <1>1, <2>2, <2>4 DEF CControl, OneLoop, LoopsAtWork, ResumingHasLoop, NoOrphan, Alive
  <2>7. Beginning' /\ Tasks'
    BY <1>1, <1>2, <2>4 DEF CControl, Beginning, Tasks, Installed
  <2>8. net' \in NetType
    BY <1>1, <2>2, CCloseIs
  <2> QED BY <2>5, <2>6, <2>7, <2>8 DEF CControl
<1> QED BY <1>3, <1>4, <1>5, <1>6

LEMMA ClientKeeps ==
  ASSUME Types, CControl, ClientStep
  PROVE  CTypes' /\ CControl' /\ net' \in NetType
<1>1. /\ inner \in InnerType /\ net \in NetType /\ inner.generation \in Nat
      /\ inner.conn \in Conns /\ \A c \in Conns : gen[c] \in Nat
      /\ \A s \in Slots : loops[s].pc = "handshake" => loops[s].conn \in Conns
  BY DEF Types, CTypes, InnerType
<1>2. ASSUME NEW c \in Conns, Reader(c) PROVE CTypes' /\ CControl' /\ net' \in NetType
  BY <1>2, ReaderKeeps
<1>3. ASSUME NEW c \in Conns, ReaderEnd(c) PROVE CTypes' /\ CControl' /\ net' \in NetType
  <2>1. connect = "up"
    BY <1>3, TaskRuns DEF ReaderEnd
  <2> QED BY <1>1, <1>3, <2>1, LinkLostKeeps DEF ReaderEnd
<1>4. ASSUME NEW c \in Conns, WriterWoken(c) \/ WriterOk(c)
      PROVE  CTypes' /\ CControl' /\ net' \in NetType
  BY <1>4, WriterKeeps DEF WriterWoken, WriterOk
<1>5. ASSUME NEW c \in Conns, WriterErr(c) PROVE CTypes' /\ CControl' /\ net' \in NetType
  <2>1. connect = "up"
    BY <1>5, TaskRuns DEF WriterErr
  <2> QED BY <1>1, <1>5, <2>1, LinkLostKeeps DEF WriterErr
<1>6. CASE KeepaliveDead
  BY <1>1, <1>6, LinkLostKeeps DEF KeepaliveDead, LoopUnchanged
<1>7. ASSUME NEW s \in Slots, LoopSpawned(s) \/ BackedOff(s)
      PROVE  CTypes' /\ CControl' /\ net' \in NetType
  <2>1. /\ loops[s].pc # "none" /\ TasksIdle
        /\ inner' = LoopTop(inner, loops[s]).inner
        /\ SetLoop(s, LoopTop(inner, loops[s]).pc, loops[s])
        /\ net' = CClose(net, inner.conn) \/ net' = net
    BY <1>7 DEF LoopSpawned, BackedOff, LoopUnchanged, TasksIdle
  <2> QED BY <1>1, <2>1, LoopPass, CCloseIs
<1>8. ASSUME NEW s \in Slots, DialFailed(s) \/ HandshakeFailed(s)
      PROVE  CTypes' /\ CControl' /\ net' \in NetType
  <2>1. \E n \in {net, CClose(net, loops[s].conn)} :
          /\ n = net \/ loops[s].pc = "handshake"
          /\ (Abandons(inner, loops[s].gen) /\ Abandon(s, n)) \/ Retry(s, n)
    BY <1>8 DEF DialFailed, HandshakeFailed
  <2>2. loops[s].pc # "none" /\ TasksIdle
    BY <1>8 DEF DialFailed, HandshakeFailed, LoopUnchanged, TasksIdle
  <2> QED BY <1>1, <2>1, <2>2, LoopFails, CCloseIs
<1>9. ASSUME NEW s \in Slots, DialOk(s) PROVE CTypes' /\ CControl' /\ net' \in NetType
  BY <1>9, DialOkKeeps
<1>10. ASSUME NEW s \in Slots, HandshakeReply(s)
       PROVE  CTypes' /\ CControl' /\ net' \in NetType
  BY <1>10, HandshakeKeeps
<1> QED BY <1>2, <1>3, <1>4, <1>5, <1>6, <1>7, <1>8, <1>9, <1>10, ConnectKeeps, PageKeeps
        DEF ClientStep
-----------------------------------------------------------------------------
(* The listener: types. *)

Greeting == [NewHandler EXCEPT !.pc = "replying", !.fresh = TRUE]
Answering(t, r, n) == [NewHandler EXCEPT !.pc = "replying", !.tail = t,
                                         !.received = r, !.sent = n]
Reading(g) == [NewHandler EXCEPT !.pc = "reading", !.gen = g]
Resting(pc) == [NewHandler EXCEPT !.pc = pc]

LEMMA HandlersAre ==
  ASSUME NEW t \in Seq(Nat), NEW r \in Nat, NEW n \in Nat
  PROVE  /\ Greeting \in HandlerType /\ Greeting.pc = "replying" /\ Greeting.fresh
         /\ Greeting.tail = <<>> /\ Greeting.received = 0 /\ Greeting.sent = 0
         /\ Answering(t, r, n) \in HandlerType /\ Answering(t, r, n).pc = "replying"
         /\ ~Answering(t, r, n).fresh /\ Answering(t, r, n).tail = t
         /\ Answering(t, r, n).received = r /\ Answering(t, r, n).sent = n
         /\ Reading(n) \in HandlerType /\ Reading(n).pc = "reading" /\ Reading(n).gen = n
<1> DEFINE q == <<>>
           x == NewHandler
<1>1. q \in Seq(Nat)
  OBVIOUS
<1>2. x = [pc |-> "hello", gen |-> 0, tail |-> q, received |-> 0, sent |-> 0,
           fresh |-> FALSE]
  BY DEF NewHandler
<1> HIDE DEF q
<1>3. /\ x \in HandlerType /\ x.fresh = FALSE /\ x.received = 0 /\ x.sent = 0
      /\ x.tail = q
  BY <1>1, <1>2 DEF HandlerType
<1>4. /\ Greeting = [x EXCEPT !.pc = "replying", !.fresh = TRUE]
      /\ Answering(t, r, n) = [x EXCEPT !.pc = "replying", !.tail = t,
                                        !.received = r, !.sent = n]
      /\ Reading(n) = [x EXCEPT !.pc = "reading", !.gen = n]
  BY DEF Greeting, Answering, Reading
<1> HIDE DEF x
<1>5. /\ Greeting \in HandlerType /\ Greeting.pc = "replying" /\ Greeting.fresh
      /\ Greeting.tail = q /\ Greeting.received = 0 /\ Greeting.sent = 0
  BY <1>3, <1>4 DEF HandlerType
<1>6. /\ Answering(t, r, n) \in HandlerType /\ Answering(t, r, n).pc = "replying"
      /\ ~Answering(t, r, n).fresh /\ Answering(t, r, n).tail = t
      /\ Answering(t, r, n).received = r /\ Answering(t, r, n).sent = n
  BY <1>3, <1>4 DEF HandlerType
<1>7. Reading(n) \in HandlerType /\ Reading(n).pc = "reading" /\ Reading(n).gen = n
  BY <1>3, <1>4 DEF HandlerType
<1> QED BY <1>5, <1>6, <1>7 DEF q

\* One handler moves.
Moves(c, x) == h' = [h EXCEPT ![c] = x]

LEMMA MovesIs ==
  ASSUME h \in [Conns -> HandlerType], NEW c \in Conns, NEW x \in HandlerType, Moves(c, x)
  PROVE  /\ h' \in [Conns -> HandlerType] /\ h'[c] = x
         /\ \A d \in Conns : d # c => h'[d] = h[d]
BY DEF Moves

LEMMA OneFrame ==
  ASSUME NEW t \in FrameTypes, NEW n \in Nat
  PROVE  <<Frame(t, n)>> \in Seq(Frames)
BY FrameIs

Refusal(n, c) == LFinish(LWrite(LTake(n, c), c, <<Frame("refused", 0)>>), c)

\* What a handler's step does, up to its reply: it moves, and takes or writes frames.
LEMMA HandlerTypes ==
  ASSUME Types, NEW c \in Conns,
         \/ StartSession(c) \/ ConnectTarget(c) \/ ResumeSession(c) \/ HelloLost(c)
         \/ Replied(c) \/ ReplyFailed(c) \/ Lingered(c)
  PROVE  LTypes' /\ net' \in NetType
<1>1. /\ LTypes /\ net \in NetType /\ st \in SessionType /\ h \in [Conns -> HandlerType]
      /\ h[c] \in HandlerType /\ h[c].tail \in Seq(Nat) /\ 0 \in Nat
      /\ st.replay \in ReplayType(Nat) /\ st.conn \in AnyConn
      /\ st.received \in Nat /\ st.replay.sent_total \in Nat /\ st.generation \in Nat
  BY DEF Types, LTypes, SessionType, HandlerType, ReplayType
<1>2. ASSUME NEW p \in {"hello", "connecting", "replying", "refusing", "gap", "reading", "done"},
             Handler(c, p)
      PROVE  h' \in [Conns -> HandlerType]
  <2>1. Resting(p) \in HandlerType /\ Moves(c, Resting(p))
    BY <1>2, HandlerIs DEF Handler, Moves, Resting
  <2> QED BY <1>1, <2>1, MovesIs
<1>3. /\ <<Frame("refused", 0)>> \in Seq(Frames) /\ <<Frame("new", 0)>> \in Seq(Frames)
      /\ <<Frame("resumed", st.received)>> \in Seq(Frames)
  BY <1>1, OneFrame DEF FrameTypes
<1>4. ASSUME LReadable(c)
      PROVE  LTake(net, c) \in NetType /\ Refusal(net, c) \in NetType
  BY <1>1, <1>3, <1>4, LTakeIs, LWriteIs, LFinishIs DEF LReadable, Refusal
<1>5. CASE StartSession(c)
  <2>1. /\ Handler(c, "connecting") /\ net' = LTake(net, c) /\ LReadable(c)
        /\ UNCHANGED <<st, reg, task, job, timers, sshd, handed, sshdIn, raced>>
    BY <1>5 DEF StartSession, LTake
  <2> QED BY <1>1, <1>2, <1>4, <2>1 DEF LTypes
<1>6. CASE ConnectTarget(c)
  <2>1. UNCHANGED <<task, job, timers, sshd, handed, sshdIn, raced>>
    BY <1>6 DEF ConnectTarget
  <2>2. CASE /\ reg' = "live" /\ \E g \in Graces : st' = [NewSession EXCEPT !.grace = g]
             /\ Moves(c, Greeting) /\ net' = LWrite(net, c, <<Frame("new", 0)>>)
    <3>1. PICK g \in BOOLEAN : st' = [NewSession EXCEPT !.grace = g]
      BY <2>2, GraceAssumption
    <3>2. st' \in SessionType /\ st'.acked_out <= st'.received
      BY <3>1, NewSessionIs
    <3>3. h' \in [Conns -> HandlerType] /\ net' \in NetType
      BY <1>1, <1>3, <2>2, HandlersAre, MovesIs, LWriteIs
    <3> QED BY <1>1, <2>1, <2>2, <3>2, <3>3 DEF LTypes
  <2>3. CASE /\ h' = [h EXCEPT ![c].pc = "refusing"] /\ UNCHANGED <<st, reg>>
             /\ net' = LFinish(LWrite(net, c, <<Frame("refused", 0)>>), c)
    <3>1. h' \in [Conns -> HandlerType]
      BY <1>1, <2>3 DEF HandlerType
    <3>2. net' \in NetType
      BY <1>1, <1>3, <2>3, LWriteIs, LFinishIs
    <3> QED BY <1>1, <2>1, <2>3, <3>1, <3>2 DEF LTypes
  <2> QED BY <1>6, <2>2, <2>3 DEF ConnectTarget, Moves, Greeting
<1>7. CASE ResumeSession(c)
  <2>1. UNCHANGED <<st, reg, task, job, timers, sshd, handed, sshdIn, raced>> /\ LReadable(c)
    BY <1>7 DEF ResumeSession
  <2> DEFINE claim == Head(net[c].up).n
             t == TailFrom(st.replay, claim)
  <2>2. claim \in Nat
    BY <1>1, <2>1, NetFields, HeadFrames DEF LReadable
  <2>3. \/ Refuse(c, "refusing") \/ Refuse(c, "gap")
        \/ /\ HasTail(st.replay, claim)
           /\ Moves(c, Answering(t, st.received, st.replay.sent_total))
           /\ net' = LWrite(LTake(net, c), c, <<Frame("resumed", st.received)>>)
    BY <1>7 DEF ResumeSession, Moves, Answering, LTake
  <2> HIDE DEF claim, t
  <2>4. ASSUME NEW p \in {"refusing", "gap"}, Refuse(c, p)
        PROVE  h' \in [Conns -> HandlerType] /\ net' \in NetType
    BY <1>2, <1>4, <2>1, <2>4 DEF Refuse, Refusal, LTake
  <2>5. ASSUME /\ HasTail(st.replay, claim)
               /\ Moves(c, Answering(t, st.received, st.replay.sent_total))
               /\ net' = LWrite(LTake(net, c), c, <<Frame("resumed", st.received)>>)
        PROVE  h' \in [Conns -> HandlerType] /\ net' \in NetType
    <3>1. t \in Seq(Nat)
      BY <1>1, <2>2, <2>5, TailFromType DEF t
    <3> DEFINE x == Answering(t, st.received, st.replay.sent_total)
               fs == <<Frame("resumed", st.received)>>
               n == LTake(net, c)
    <3>2. x \in HandlerType
      BY <1>1, <3>1, HandlersAre
    <3>3. fs \in Seq(Frames) /\ n \in NetType
      BY <1>3, <1>4, <2>1
    <3>4. Moves(c, x) /\ net' = LWrite(n, c, fs)
      BY <2>5
    <3> HIDE DEF x, fs, n
    <3>5. h' \in [Conns -> HandlerType]
      BY <1>1, <3>2, <3>4, MovesIs
    <3>6. net' \in NetType
      BY <3>3, <3>4, LWriteIs
    <3> QED BY <3>5, <3>6
  <2>6. h' \in [Conns -> HandlerType] /\ net' \in NetType
    BY <2>3, <2>4, <2>5
  <2> QED BY <1>1, <2>1, <2>6 DEF LTypes
<1>8. CASE HelloLost(c) \/ ReplyFailed(c)
  <2>1. /\ Handler(c, "done") /\ net' = LClose(net, c)
        /\ UNCHANGED <<st, reg, task, job, timers, sshd, handed, sshdIn, raced>>
    BY <1>8 DEF HelloLost, ReplyFailed, Return
  <2> QED BY <1>1, <1>2, <2>1, LCloseIs DEF LTypes
<1>9. CASE Replied(c)
  <2> DEFINE g == st.generation + 1
             a == Attach(st, c, h[c].tail)
  <2>1. /\ st' = a /\ net' = CloseConn(net, st.conn) /\ Moves(c, Reading(g))
        /\ task' = (IF h[c].fresh THEN [A |-> "wait", B |-> "idle", C |-> "idle"] ELSE task)
        /\ UNCHANGED <<reg, job, timers, sshd, handed, sshdIn>>
    BY <1>9 DEF Replied, Moves, Reading
  <2>2. raced' \in BOOLEAN
    BY <1>9 DEF Replied
  <2>3. g \in Nat
    BY <1>1
  <2>4. a \in SessionType /\ a.acked_out = a.received /\ a.received \in Nat
    BY <1>1, AttachIs
  <2> HIDE DEF g, a
  <2>5. h' \in [Conns -> HandlerType] /\ net' \in NetType
    BY <1>1, <2>1, <2>3, HandlersAre, MovesIs, CloseConnIs DEF AnyConn
  <2>6. task' \in TaskType
    BY <1>1, <2>1 DEF LTypes, TaskType
  <2> QED BY <1>1, <2>1, <2>2, <2>4, <2>5, <2>6 DEF LTypes
<1>10. CASE Lingered(c)
  <2>1. /\ Handler(c, "done") /\ net' = LClose(net, c)
        /\ UNCHANGED <<task, job, timers, sshd, handed, sshdIn, raced>>
        /\ UNCHANGED <<st, reg>> \/ (st' = Ended(st) /\ reg' = "gone")
    BY <1>10 DEF Lingered, Return, EndSession, Ended
  <2>2. st' \in SessionType /\ st'.acked_out <= st'.received
    BY <1>1, <2>1, EndedIs DEF LTypes
  <2> QED BY <1>1, <1>2, <2>1, <2>2, LCloseIs DEF LTypes
<1> QED BY <1>5, <1>6, <1>7, <1>8, <1>9, <1>10

\* park, by its three cases.
LEMMA ParkCases ==
  ASSUME NEW n, Park(n)
  PROVE  \/ /\ st.dead /\ net' = n /\ UNCHANGED <<st, reg, timers>>
         \/ /\ ~st.dead /\ ~st.grace /\ net' = n /\ st' = Ended(st) /\ reg' = "gone"
            /\ UNCHANGED timers
         \/ /\ ~st.dead /\ st.grace /\ net' = CloseConn(n, st.conn) /\ st' = Parked(st)
            /\ timers' = timers \cup {st.park_epoch + 1} /\ UNCHANGED reg
BY DEF Park, EndSession, Ended

LEMMA ParkTypes ==
  ASSUME Types, NEW n \in NetType, Park(n)
  PROVE  /\ st' \in SessionType /\ st'.acked_out <= st'.received
         /\ reg' \in {"none", "live", "gone"} /\ timers' \in SUBSET Nat /\ net' \in NetType
<1>1. /\ st \in SessionType /\ st.conn \in Conns \cup {NoConn} /\ st.park_epoch \in Nat
      /\ st.acked_out <= st.received
      /\ timers \in SUBSET Nat /\ reg \in {"none", "live", "gone"}
  BY DEF Types, LTypes, SessionType, AnyConn
<1>2. CASE st.dead /\ net' = n /\ UNCHANGED <<st, reg, timers>>
  BY <1>1, <1>2
<1>3. CASE /\ ~st.dead /\ ~st.grace /\ net' = n /\ st' = Ended(st) /\ reg' = "gone"
           /\ UNCHANGED timers
  BY <1>1, <1>3, EndedIs
<1>4. CASE /\ ~st.dead /\ st.grace /\ net' = CloseConn(n, st.conn) /\ st' = Parked(st)
           /\ timers' = timers \cup {st.park_epoch + 1} /\ UNCHANGED reg
  <2>1. st' \in SessionType /\ st'.acked_out <= st'.received
    BY <1>1, <1>4, ParkedIs
  <2>2. timers' \in SUBSET Nat
    <3> DEFINE e == st.park_epoch + 1
    <3>1. e \in Nat /\ timers' = timers \cup {e}
      BY <1>1, <1>4
    <3> HIDE DEF e
    <3> QED BY <1>1, <3>1
  <2>3. net' \in NetType
    BY <1>1, <1>4, CloseConnIs
  <2> QED BY <1>1, <1>4, <2>1, <2>2, <2>3
<1> QED BY <1>2, <1>3, <1>4, ParkCases

LEMMA ReaderTypes ==
  ASSUME Types, NEW c \in Conns, ClientReader(c) \/ ClientReaderEnd(c)
  PROVE  LTypes' /\ net' \in NetType
<1>1. /\ LTypes /\ net \in NetType /\ st \in SessionType /\ h \in [Conns -> HandlerType]
      /\ st.acked_out <= st.received /\ st.received \in Nat /\ st.acked_out \in Nat
      /\ LClose(net, c) \in NetType
  BY LCloseIs DEF Types, LTypes, SessionType
<1>2. ASSUME Handler(c, "done") PROVE h' \in [Conns -> HandlerType]
  <2>1. Resting("done") \in HandlerType /\ Moves(c, Resting("done"))
    BY <1>2, HandlerIs DEF Handler, Moves, Resting
  <2> QED BY <1>1, <2>1, MovesIs
<1>3. CASE ClientReader(c)
  <2> DEFINE f == Head(net[c].up)
  <2>1. /\ LReadable(c) /\ UNCHANGED <<reg, task, job, timers, sshd, handed, sshdIn, raced>>
        /\ \/ Handler(c, "done") /\ net' = LClose(net, c) /\ UNCHANGED st
           \/ st' = Apply(st, f) /\ net' = LTake(net, c) /\ UNCHANGED h
    BY <1>3 DEF ClientReader, Return, LTake
  <2>2. f \in Frames /\ LTake(net, c) \in NetType
    BY <1>1, <2>1, NetFields, HeadFrames, LTakeIs DEF LReadable
  <2> HIDE DEF f
  <2>3. CASE Handler(c, "done") /\ net' = LClose(net, c) /\ UNCHANGED st
    BY <1>1, <1>2, <2>1, <2>3 DEF LTypes
  <2>4. CASE st' = Apply(st, f) /\ net' = LTake(net, c) /\ UNCHANGED h
    <3>1. CASE f.t = "data"
      <4>1. /\ st' \in SessionType /\ st'.received = st.received + 1
            /\ st'.acked_out = IF (st.received + 1) - st.acked_out >= ACK_EVERY_BYTES
                               THEN st.received + 1 ELSE st.acked_out
        BY <1>1, <2>2, <2>4, <3>1, ApplyDataIs
      <4>2. st'.acked_out <= st'.received
        BY <1>1, <4>1
      <4> QED BY <1>1, <2>1, <2>2, <2>4, <4>1, <4>2 DEF LTypes
    <3>2. CASE f.t # "data"
      <4>1. /\ st' \in SessionType /\ st'.received = st.received
            /\ st'.acked_out = st.acked_out
        BY <1>1, <2>2, <2>4, <3>2, ApplyAckIs
      <4> QED BY <1>1, <2>1, <2>2, <2>4, <4>1 DEF LTypes
    <3> QED BY <3>1, <3>2
  <2> QED BY <2>1, <2>3, <2>4
<1>4. CASE ClientReaderEnd(c)
  <2>1. /\ Handler(c, "done") /\ UNCHANGED <<task, job, sshd, handed, sshdIn, raced>>
        /\ \/ net' = LClose(net, c) /\ UNCHANGED <<st, reg, timers>>
           \/ Park(LClose(net, c))
    BY <1>4 DEF ClientReaderEnd
  <2>2. CASE Park(LClose(net, c))
    BY <1>1, <1>2, <2>1, <2>2, ParkTypes DEF LTypes
  <2> QED BY <1>1, <1>2, <2>1, <2>2 DEF LTypes
<1> QED BY <1>3, <1>4

LEMMA TaskTypes ==
  ASSUME Types,
         \/ TcpReaderGo \/ TcpReader \/ HostKeyRefused \/ TcpReaderEnd
         \/ ClientWriter \/ ClientWriterOk \/ ClientWriterErr \/ ClientWriterFinish
         \/ ClientWriterExit \/ TcpWriter \/ TcpWriterEnd
         \/ (\E e \in timers : GraceExpired(e)) \/ SshdGone
  PROVE  LTypes' /\ net' \in NetType
<1>1. /\ LTypes /\ net \in NetType /\ st \in SessionType /\ task \in TaskType
      /\ st.acked_out <= st.received /\ st.outq \in Seq(Frames) /\ st.inq \in Seq(Nat)
      /\ handed \in Seq(Nat) /\ sshdIn \in Seq(Nat) /\ timers \in SUBSET Nat
      /\ job \in [gen : Nat, conn : AnyConn] /\ st.generation \in Nat
      /\ st.send \in AnyConn /\ st.conn \in AnyConn /\ Len(handed) \in Nat
  BY LenProperties DEF Types, LTypes, SessionType
<1>2. /\ Ended(st) \in SessionType /\ Ended(st).acked_out <= Ended(st).received
      /\ LetGo(st) \in SessionType /\ LetGo(st).acked_out <= LetGo(st).received
  BY <1>1, EndedIs, LetGoIs
<1>3. ASSUME NEW t \in {"none", "wait", "read", "done"}
      PROVE  [task EXCEPT !.A = t] \in TaskType
  BY <1>1 DEF TaskType
<1>4. ASSUME NEW t \in {"none", "idle", "writing", "done"}
      PROVE  [task EXCEPT !.B = t] \in TaskType
  BY <1>1 DEF TaskType
<1>5. [task EXCEPT !.C = "done"] \in TaskType /\ NoJob \in [gen : Nat, conn : AnyConn]
  BY <1>1 DEF TaskType, NoJob, AnyConn
<1>6. AtWait \in {"none", "wait", "read", "done"}
  BY DEF AtWait
<1>7. CASE TcpReaderGo \/ ClientWriterExit \/ TcpWriterEnd \/ SshdGone
  <2>1. task' \in TaskType /\ sshd' \in {"up", "gone"}
    BY <1>1, <1>3, <1>4, <1>5, <1>6, <1>7
       DEF TcpReaderGo, ClientWriterExit, TcpWriterEnd, SshdGone, LTypes
  <2>2. UNCHANGED <<st, reg, h, job, timers, handed, sshdIn, raced, net>>
    BY <1>7 DEF TcpReaderGo, ClientWriterExit, TcpWriterEnd, SshdGone
  <2> QED BY <1>1, <2>1, <2>2 DEF LTypes
<1>8. CASE TcpReader
  <2>1. PICK u \in Nat : /\ st' = Recorded(st, u) /\ handed' = Append(handed, u)
                         /\ sshd' \in {"up", "gone"}
    <3>1. PICK last \in {FALSE, Hangups} :
            LET u == IF last THEN Bye ELSE Len(handed) + 1 IN
              /\ st' = Recorded(st, u) /\ handed' = Append(handed, u)
              /\ sshd' = IF last THEN "gone" ELSE "up"
      BY <1>8 DEF TcpReader, Recorded
    <3> DEFINE u == IF last THEN Bye ELSE Len(handed) + 1
    <3>2. u \in Nat
      BY <1>1 DEF Bye
    <3> QED BY <3>1, <3>2
  <2>2. st' \in SessionType /\ st'.acked_out <= st'.received
    BY <1>1, <2>1, RecordedIs
  <2>3. handed' \in Seq(Nat)
    BY <1>1, <2>1, AppendProperties
  <2>4. /\ task' \in TaskType /\ UNCHANGED <<reg, h, job, timers, sshdIn, raced, net>>
    BY <1>3, <1>6, <1>8 DEF TcpReader
  <2> QED BY <1>1, <2>1, <2>2, <2>3, <2>4 DEF LTypes
<1>9. CASE HostKeyRefused \/ TcpReaderEnd
  <2>1. /\ st' = Ended(st) /\ reg' = "gone" /\ UNCHANGED timers
        /\ UNCHANGED <<h, job, sshd, handed, sshdIn, raced, net>>
    BY <1>9 DEF HostKeyRefused, TcpReaderEnd, EndSession, Ended
  <2>2. task' \in TaskType
    BY <1>3, <1>9 DEF HostKeyRefused, TcpReaderEnd
  <2> QED BY <1>1, <1>2, <2>1, <2>2 DEF LTypes
<1>10. CASE ClientWriter
  <2> DEFINE f == Head(st.outq)
  <2>1. /\ st' = Borrowed(st) /\ st.outq # <<>> /\ st.send \in Conns
        /\ net' = LWrite(net, st.send, <<f>>)
        /\ job' = [gen |-> st.generation, conn |-> st.send]
        /\ UNCHANGED <<reg, h, timers, sshd, handed, sshdIn, raced>>
    BY <1>1, <1>10 DEF ClientWriter, Borrowed, AnyConn
  <2>2. f \in Frames
    BY <1>1, <2>1, HeadFrames
  <2> HIDE DEF f
  <2>3. net' \in NetType
    <3> DEFINE c == st.send
               fs == <<f>>
    <3>1. c \in Conns /\ fs \in Seq(Frames) /\ net' = LWrite(net, c, fs)
      BY <2>1, <2>2
    <3> HIDE DEF c, fs
    <3> QED BY <1>1, <3>1, LWriteIs
  <2>4. st' \in SessionType /\ st'.acked_out <= st'.received
    BY <1>1, <2>1, BorrowedIs
  <2>5. task' \in TaskType /\ job' \in [gen : Nat, conn : AnyConn]
    BY <1>1, <1>4, <1>10, <2>1 DEF ClientWriter
  <2> QED BY <1>1, <2>1, <2>3, <2>4, <2>5 DEF LTypes
<1>11. CASE ClientWriterOk
  <2>1. /\ st' = (IF Abandoned(job) THEN st ELSE PutBack(st, job.conn)) /\ job' = NoJob
        /\ UNCHANGED <<reg, h, timers, sshd, handed, sshdIn, raced, net>>
    BY <1>11 DEF ClientWriterOk, PutBack
  <2>2. st' \in SessionType /\ st'.acked_out <= st'.received
    BY <1>1, <2>1, PutBackIs
  <2>3. task' \in TaskType
    BY <1>4, <1>11 DEF ClientWriterOk
  <2> QED BY <1>1, <1>5, <2>1, <2>2, <2>3 DEF LTypes
<1>12. CASE ClientWriterErr
  <2>1. /\ UNCHANGED <<h, sshd, handed, sshdIn, raced>> /\ job' = NoJob
        /\ UNCHANGED <<st, reg, timers, net>> \/ Park(net)
    BY <1>12 DEF ClientWriterErr
  <2>2. task' \in TaskType
    BY <1>4, <1>12 DEF ClientWriterErr
  <2>3. CASE Park(net)
    BY <1>1, <1>5, <2>1, <2>2, <2>3, ParkTypes DEF LTypes
  <2> QED BY <1>1, <1>5, <2>1, <2>2, <2>3 DEF LTypes
<1>13. CASE ClientWriterFinish
  <2>1. /\ st' = LetGo(st) /\ st.send \in Conns /\ net' = LFinish(net, st.send)
        /\ UNCHANGED <<reg, h, job, timers, sshd, handed, sshdIn, raced>>
    BY <1>1, <1>13 DEF ClientWriterFinish, LetGo, AnyConn
  <2>2. task' \in TaskType
    BY <1>4, <1>13 DEF ClientWriterFinish
  <2> QED BY <1>1, <1>2, <2>1, <2>2, LFinishIs DEF LTypes
<1>14. CASE TcpWriter
  <2>1. /\ st.inq # <<>> /\ UNCHANGED <<h, job, timers, sshd, handed, raced, net>>
        /\ \/ /\ sshdIn' = Append(sshdIn, Head(st.inq)) /\ st' = Taken(st)
              /\ UNCHANGED <<reg, task>>
           \/ /\ st' = Ended(Taken(st)) /\ reg' = "gone" /\ UNCHANGED sshdIn
              /\ task' = [task EXCEPT !.C = "done"]
    <3>1. CASE sshd = "gone"
      <4> DEFINE q == Tail(st.inq)
      <4>1. /\ st' = [st EXCEPT !.inq = q, !.dead = TRUE] /\ reg' = "gone"
            /\ UNCHANGED sshdIn /\ task' = [task EXCEPT !.C = "done"] /\ st.inq # <<>>
            /\ UNCHANGED <<h, job, timers, sshd, handed, raced, net>>
        BY <1>14, <3>1 DEF TcpWriter
      <4>2. Taken(st) = [st EXCEPT !.inq = q]
        BY <1>1 DEF Taken, SessionType
      <4> HIDE DEF q
      <4>3. st' = Ended(Taken(st))
        BY <1>1, <4>1, <4>2 DEF Ended, SessionType
      <4> QED BY <4>1, <4>3
    <3> QED BY <1>14, <3>1 DEF TcpWriter, Taken
  <2>2. Head(st.inq) \in Nat
    BY <1>1, <2>1, HeadTailProperties
  <2>3. sshdIn' \in Seq(Nat)
    <3> DEFINE u == Head(st.inq)
    <3>1. u \in Nat /\ (sshdIn' = Append(sshdIn, u) \/ sshdIn' = sshdIn)
      BY <2>1, <2>2
    <3> HIDE DEF u
    <3>2. Append(sshdIn, u) \in Seq(Nat)
      BY <1>1, <3>1, AppendProperties
    <3> QED BY <1>1, <3>1, <3>2
  <2>4. st' \in SessionType /\ st'.acked_out <= st'.received
    BY <1>1, <2>1, TakenIs, EndedIs
  <2> QED BY <1>1, <1>5, <2>1, <2>3, <2>4 DEF LTypes
<1>15. CASE \E e \in timers : GraceExpired(e)
  <2>1. PICK e \in timers :
          /\ timers' = timers \ {e}
          /\ UNCHANGED <<st, reg>> \/ (st' = Ended(st) /\ reg' = "gone")
          /\ UNCHANGED <<h, task, job, sshd, handed, sshdIn, raced, net>>
    BY <1>15 DEF GraceExpired, Ended
  <2> QED BY <1>1, <1>2, <2>1 DEF LTypes
<1> QED BY <1>7, <1>8, <1>9, <1>10, <1>11, <1>12, <1>13, <1>14, <1>15
-----------------------------------------------------------------------------
(* What a step does to the connections.  A step of the listener takes frames off,  *)
(* or gives up, the direction it reads, and adds at most one frame to the other;   *)
(* a step of the client does the same the other way round, and may dial.           *)

LFrames == {Frame("new", 0), Frame("refused", 0), Frame("resumed", st.received)}
             \cup {f \in Frames : st.outq # <<>> /\ f = Head(st.outq)}
CFrames == {f \in Frames : f.t = "data" \/ (f.t \in {"ack", "resume"} /\ f.n = inner.received)}

ListenerNet(n, m) ==
  \A d \in Conns :
    /\ \/ m[d].up = n[d].up \/ m[d].up = <<>>
       \/ n[d].up # <<>> /\ m[d].up = Tail(n[d].up)
    /\ \/ m[d].down = n[d].down
       \/ n[d].cOpen /\ n[d].lOpen /\ \E f \in LFrames : m[d].down = Append(n[d].down, f)
    /\ (m[d].dialed <=> n[d].dialed) /\ (m[d].cOpen <=> n[d].cOpen)
    /\ (m[d].lOpen => n[d].lOpen) /\ (n[d].fin => m[d].fin)

LEMMA LFramesAre ==
  Types => /\ LFrames \subseteq Frames
           /\ Frame("new", 0) \in LFrames /\ Frame("refused", 0) \in LFrames
           /\ Frame("resumed", st.received) \in LFrames
           /\ st.outq # <<>> => Head(st.outq) \in LFrames
<1> SUFFICES ASSUME Types PROVE LFrames \subseteq Frames /\ (st.outq # <<>> => Head(st.outq) \in LFrames)
  BY DEF LFrames
<1>1. st.outq \in Seq(Frames) /\ st.received \in Nat
  BY DEF Types, LTypes, SessionType
<1>2. /\ Frame("new", 0) \in Frames /\ Frame("refused", 0) \in Frames
      /\ Frame("resumed", st.received) \in Frames
  BY <1>1, FrameIs DEF FrameTypes
<1>3. st.outq # <<>> => Head(st.outq) \in Frames
  BY <1>1, HeadFrames
<1> QED BY <1>2, <1>3 DEF LFrames

LEMMA WrittenIs ==
  ASSUME Types, NEW n \in NetType, NEW c \in Conns, NEW f \in LFrames
  PROVE  /\ LWrite(n, c, <<f>>) \in NetType
         /\ SameDialed(n, LWrite(n, c, <<f>>)) /\ SameUp(n, LWrite(n, c, <<f>>))
         /\ SameCOpen(n, LWrite(n, c, <<f>>)) /\ SameLOpen(n, LWrite(n, c, <<f>>))
         /\ SameFin(n, LWrite(n, c, <<f>>))
         /\ \A d \in Conns : LWrite(n, c, <<f>>)[d].down
              = IF d = c /\ n[d].cOpen /\ n[d].lOpen THEN Append(n[d].down, f) ELSE n[d].down
<1>1. f \in Frames /\ <<f>> \in Seq(Frames)
  BY LFramesAre
<1>2. \A d \in Conns : n[d].down \in Seq(Frames)
  BY NetFields
<1>3. \A d \in Conns : n[d].down \o <<f>> = Append(n[d].down, f)
  BY <1>1, <1>2, AppendIsConcat
<1> QED BY <1>1, <1>3, LWriteIs

LEMMA ListenerNetOps ==
  ASSUME Types, NEW c \in Conns, NEW e \in AnyConn, NEW f \in LFrames
  PROVE  /\ ListenerNet(net, net)
         /\ LReadable(c) => ListenerNet(net, LTake(net, c))
         /\ ListenerNet(net, LWrite(net, c, <<f>>))
         /\ LReadable(c) => ListenerNet(net, LWrite(LTake(net, c), c, <<f>>))
         /\ LReadable(c) => ListenerNet(net, LFinish(LWrite(LTake(net, c), c, <<f>>), c))
         /\ ListenerNet(net, LFinish(LWrite(net, c, <<f>>), c))
         /\ ListenerNet(net, LFinish(net, c))
         /\ ListenerNet(net, LClose(net, c))
         /\ ListenerNet(net, CloseConn(net, e))
         /\ ListenerNet(net, CloseConn(LClose(net, c), e))
<1>1. net \in NetType /\ e \in Conns \cup {NoConn}
  BY DEF Types, AnyConn
<1>2. ListenerNet(net, net)
  BY DEF ListenerNet
<1>3. LReadable(c) => ListenerNet(net, LTake(net, c))
  BY <1>1, LTakeIs
     DEF ListenerNet, LReadable, SameDialed, SameDown, SameCOpen, SameLOpen, SameFin
<1>4. ASSUME NEW n \in NetType, ListenerNet(net, n), SameDown(net, n)
      PROVE  ListenerNet(net, LWrite(n, c, <<f>>))
  <2> DEFINE b == LWrite(n, c, <<f>>)
  <2>0. /\ b \in NetType /\ SameDialed(n, b) /\ SameUp(n, b)
        /\ SameCOpen(n, b) /\ SameLOpen(n, b) /\ SameFin(n, b)
        /\ \A d \in Conns : b[d].down
             = IF d = c /\ n[d].cOpen /\ n[d].lOpen THEN Append(n[d].down, f) ELSE n[d].down
    BY <1>4, WrittenIs
  <2> HIDE DEF b
  <2>1. ASSUME NEW d \in Conns
        PROVE  \/ b[d].down = n[d].down
               \/ n[d].cOpen /\ n[d].lOpen /\ b[d].down = Append(n[d].down, f)
    BY <2>0
  <2>2. ASSUME NEW d \in Conns
        PROVE  /\ \/ b[d].down = net[d].down
                  \/ /\ net[d].cOpen /\ net[d].lOpen
                     /\ \E g \in LFrames : b[d].down = Append(net[d].down, g)
               /\ b[d].up = n[d].up /\ b[d].dialed = n[d].dialed /\ b[d].cOpen = n[d].cOpen
               /\ b[d].lOpen = n[d].lOpen /\ b[d].fin = n[d].fin
    BY <1>4, <2>0, <2>1 DEF ListenerNet, SameDown, SameDialed, SameUp, SameCOpen, SameLOpen, SameFin
  <2>3. ListenerNet(net, b)
    BY <1>4, <2>2 DEF ListenerNet
  <2> QED BY <2>3 DEF b
<1>5. LReadable(c) => ListenerNet(net, LWrite(LTake(net, c), c, <<f>>))
                      /\ ListenerNet(net, LFinish(LWrite(LTake(net, c), c, <<f>>), c))
  <2> DEFINE a == LTake(net, c)
             b == LWrite(a, c, <<f>>)
             e2 == LFinish(b, c)
  <2> SUFFICES ASSUME LReadable(c) PROVE ListenerNet(net, b) /\ ListenerNet(net, e2)
    OBVIOUS
  <2>1. /\ a \in NetType /\ SameDialed(net, a) /\ SameDown(net, a)
        /\ SameCOpen(net, a) /\ SameLOpen(net, a) /\ SameFin(net, a)
        /\ \A d \in Conns : a[d].up = (IF d = c THEN Tail(net[d].up) ELSE net[d].up)
        /\ net[c].up # <<>>
    BY <1>1, LTakeIs DEF LReadable
  <2> HIDE DEF a
  <2>2. b \in NetType
    BY <2>1, WrittenIs
  <2>4. ListenerNet(net, b)
    <3>1. ListenerNet(net, a)
      BY <2>1 DEF ListenerNet, SameDialed, SameDown, SameCOpen, SameLOpen, SameFin
    <3> QED BY <1>4, <2>1, <3>1
  <2> HIDE DEF b
  <2>3. /\ SameDialed(b, e2) /\ SameUp(b, e2) /\ SameDown(b, e2)
        /\ SameCOpen(b, e2) /\ SameLOpen(b, e2)
        /\ \A d \in Conns : e2[d].fin <=> d = c \/ b[d].fin
    BY <2>2, LFinishIs
  <2> HIDE DEF e2
  <2>5. ListenerNet(net, e2)
    BY <2>3, <2>4 DEF ListenerNet, SameDialed, SameUp, SameDown, SameCOpen, SameLOpen
  <2> QED BY <2>4, <2>5
<1>6. ListenerNet(net, LFinish(LWrite(net, c, <<f>>), c))
  <2> DEFINE b == LWrite(net, c, <<f>>)
             e2 == LFinish(b, c)
  <2>1. b \in NetType
    BY <1>1, WrittenIs
  <2>2. ListenerNet(net, b)
    BY <1>1, <1>2, <1>4 DEF SameDown
  <2> HIDE DEF b
  <2>3. /\ SameDialed(b, e2) /\ SameUp(b, e2) /\ SameDown(b, e2)
        /\ SameCOpen(b, e2) /\ SameLOpen(b, e2)
        /\ \A d \in Conns : e2[d].fin <=> d = c \/ b[d].fin
    BY <2>1, LFinishIs
  <2> HIDE DEF e2
  <2>4. ListenerNet(net, e2)
    BY <2>2, <2>3 DEF ListenerNet, SameDialed, SameUp, SameDown, SameCOpen, SameLOpen
  <2> QED BY <2>4 DEF e2, b
<1>7. ListenerNet(net, LFinish(net, c))
  BY <1>1, LFinishIs DEF ListenerNet, SameDialed, SameUp, SameDown, SameCOpen, SameLOpen
<1>8. ListenerNet(net, LClose(net, c))
  BY <1>1, LCloseIs DEF ListenerNet, SameDialed, SameDown, SameCOpen, SameFin
<1>9. ListenerNet(net, CloseConn(net, e))
  BY <1>1, CloseConnIs DEF ListenerNet, SameDialed, SameDown, SameCOpen, SameFin
<1>10. ListenerNet(net, CloseConn(LClose(net, c), e))
  <2> DEFINE a == LClose(net, c)
             b == CloseConn(a, e)
  <2>1. a \in NetType /\ ListenerNet(net, a)
    BY <1>1, <1>8, LCloseIs
  <2> HIDE DEF a
  <2>2. /\ SameDialed(a, b) /\ SameDown(a, b) /\ SameCOpen(a, b) /\ SameFin(a, b)
        /\ \A d \in Conns : /\ b[d].lOpen <=> d # e /\ a[d].lOpen
                            /\ b[d].up = IF d = e THEN <<>> ELSE a[d].up
    BY <1>1, <2>1, CloseConnIs
  <2> HIDE DEF b
  <2>3. ListenerNet(net, b)
    BY <2>1, <2>2 DEF ListenerNet, SameDialed, SameDown, SameCOpen, SameFin
  <2> QED BY <2>3 DEF a, b
<1>11. ListenerNet(net, LWrite(net, c, <<f>>))
  BY <1>1, <1>2, <1>4 DEF SameDown
<1> QED BY <1>2, <1>3, <1>5, <1>6, <1>7, <1>8, <1>9, <1>10, <1>11

LEMMA ListenerNets ==
  ASSUME Types, ListenerStep
  PROVE  ListenerNet(net, net')
<1>1. /\ st.conn \in AnyConn /\ st.send \in AnyConn /\ NoConn \in AnyConn /\ 1 \in Conns
  BY WireBoundsAssumption DEF Types, LTypes, SessionType, AnyConn, Conns
<1>2. /\ Frame("new", 0) \in LFrames /\ Frame("refused", 0) \in LFrames
      /\ Frame("resumed", st.received) \in LFrames
      /\ st.outq # <<>> => Head(st.outq) \in LFrames
  BY LFramesAre
<1>3. ASSUME NEW n, Park(n) PROVE net' = n \/ net' = CloseConn(n, st.conn)
  BY <1>3 DEF Park
<1>4. ASSUME NEW c \in Conns,
             \/ StartSession(c) \/ ConnectTarget(c) \/ ResumeSession(c) \/ HelloLost(c)
             \/ Replied(c) \/ ReplyFailed(c) \/ Lingered(c)
      PROVE  ListenerNet(net, net')
  <2>1. \/ LReadable(c) /\ net' = LTake(net, c)
        \/ net' = LWrite(net, c, <<Frame("new", 0)>>)
        \/ net' = LFinish(LWrite(net, c, <<Frame("refused", 0)>>), c)
        \/ LReadable(c) /\ net' = Refusal(net, c)
        \/ LReadable(c) /\ net' = LWrite(LTake(net, c), c, <<Frame("resumed", st.received)>>)
        \/ net' = LClose(net, c)
        \/ net' = CloseConn(net, st.conn)
    BY <1>4 DEF StartSession, ConnectTarget, ResumeSession, HelloLost, Replied, ReplyFailed,
                Lingered, Return, Refuse, Refusal, LTake
  <2> QED BY <1>1, <1>2, <2>1, ListenerNetOps DEF Refusal
<1>5. ASSUME NEW c \in Conns, ClientReader(c) \/ ClientReaderEnd(c)
      PROVE  ListenerNet(net, net')
  <2>1. \/ LReadable(c) /\ net' = LTake(net, c)
        \/ net' = LClose(net, c)
        \/ net' = CloseConn(LClose(net, c), st.conn)
    BY <1>3, <1>5 DEF ClientReader, ClientReaderEnd, Return, LTake
  <2> QED BY <1>1, <1>2, <2>1, ListenerNetOps
<1>6. ASSUME \/ TcpReaderGo \/ TcpReader \/ HostKeyRefused \/ TcpReaderEnd
             \/ ClientWriter \/ ClientWriterOk \/ ClientWriterErr \/ ClientWriterFinish
             \/ ClientWriterExit \/ TcpWriter \/ TcpWriterEnd
             \/ (\E e \in timers : GraceExpired(e)) \/ SshdGone
      PROVE  ListenerNet(net, net')
  <2>1. \/ net' = net
        \/ /\ st.outq # <<>> /\ st.send \in Conns
           /\ net' = LWrite(net, st.send, <<Head(st.outq)>>)
        \/ net' = CloseConn(net, st.conn)
        \/ st.send \in Conns /\ net' = LFinish(net, st.send)
    BY <1>1, <1>3, <1>6
       DEF TcpReaderGo, TcpReader, HostKeyRefused, TcpReaderEnd, ClientWriter, ClientWriterOk,
           ClientWriterErr, ClientWriterFinish, ClientWriterExit, TcpWriter, TcpWriterEnd,
           GraceExpired, SshdGone, AnyConn
  <2> QED BY <1>1, <1>2, <2>1, ListenerNetOps
<1> QED BY <1>4, <1>5, <1>6 DEF ListenerStep

Kept(n, m, d) ==
  /\ \/ m[d].up = n[d].up
     \/ n[d].cOpen /\ n[d].lOpen /\ \E fs \in Seq(CFrames) : m[d].up = n[d].up \o fs
  /\ \/ m[d].down = n[d].down \/ m[d].down = <<>>
     \/ n[d].down # <<>> /\ m[d].down = Tail(n[d].down)
  /\ (m[d].dialed <=> n[d].dialed) /\ (m[d].lOpen <=> n[d].lOpen)
  /\ (m[d].cOpen => n[d].cOpen) /\ (m[d].fin <=> n[d].fin)
DialedNow(n, m, d) ==
  /\ ~n[d].dialed /\ m[d].dialed /\ m[d].down = <<>> /\ ~m[d].fin /\ m[d].lOpen
  /\ m[d].up = <<>> \/ m[d].up = <<Frame("resume", inner.received)>>
ClientNet(n, m) == \A d \in Conns : Kept(n, m, d) \/ DialedNow(n, m, d)

LEMMA ClientNetOps ==
  ASSUME Types, NEW c \in Conns, NEW fs \in Seq(CFrames)
  PROVE  /\ ClientNet(net, net) /\ ClientNet(net, CClose(net, c))
         /\ CReadable(c) => ClientNet(net, CTake(net, c))
         /\ ClientNet(net, CWrite(net, c, fs))
         /\ CReadable(c) => ClientNet(net, CWrite(CTake(net, c), c, fs))
<1>1. net \in NetType /\ fs \in Seq(Frames)
  BY SeqMonotonic DEF Types, CFrames
<1>2. ClientNet(net, net)
  BY DEF ClientNet, Kept
<1>3. ClientNet(net, CClose(net, c))
  BY <1>1, CCloseIs DEF ClientNet, Kept, SameDialed, SameUp, SameLOpen, SameFin
<1>4. CReadable(c) => ClientNet(net, CTake(net, c))
  BY <1>1, CTakeIs
     DEF ClientNet, Kept, CReadable, SameDialed, SameUp, SameCOpen, SameLOpen, SameFin
<1>5. ASSUME NEW n \in NetType, SameUp(net, n), SameDialed(net, n), SameCOpen(net, n),
             SameLOpen(net, n), SameFin(net, n),
             \A d \in Conns : (n[d].down = net[d].down
                             \/ (net[d].down # <<>> /\ n[d].down = Tail(net[d].down)))
      PROVE  ClientNet(net, CWrite(n, c, fs))
  <2> DEFINE b == CWrite(n, c, fs)
  <2>0. /\ b \in NetType /\ SameDialed(n, b) /\ SameDown(n, b)
        /\ SameCOpen(n, b) /\ SameLOpen(n, b) /\ SameFin(n, b)
        /\ \A d \in Conns : b[d].up
             = IF d = c /\ n[d].cOpen /\ n[d].lOpen THEN n[d].up \o fs ELSE n[d].up
    BY <1>1, <1>5, CWriteIs
  <2> HIDE DEF b
  <2>1. ASSUME NEW d \in Conns
        PROVE  \/ b[d].up = n[d].up
               \/ n[d].cOpen /\ n[d].lOpen /\ b[d].up = n[d].up \o fs
    BY <2>0
  <2>2. ASSUME NEW d \in Conns
        PROVE  /\ \/ b[d].up = net[d].up
                  \/ /\ net[d].cOpen /\ net[d].lOpen
                     /\ \E gs \in Seq(CFrames) : b[d].up = net[d].up \o gs
               /\ b[d].down = n[d].down /\ b[d].dialed = net[d].dialed
               /\ b[d].cOpen = net[d].cOpen
               /\ b[d].lOpen = net[d].lOpen /\ b[d].fin = net[d].fin
    <3>1. /\ n[d].up = net[d].up /\ n[d].cOpen = net[d].cOpen /\ n[d].lOpen = net[d].lOpen
          /\ b[d].down = n[d].down /\ b[d].dialed = net[d].dialed
          /\ b[d].cOpen = net[d].cOpen
          /\ b[d].lOpen = net[d].lOpen /\ b[d].fin = net[d].fin
      BY <1>5, <2>0 DEF SameUp, SameDown, SameDialed, SameCOpen, SameLOpen, SameFin
    <3> QED BY <2>1, <3>1
  <2>3. ClientNet(net, b)
    BY <1>5, <2>2 DEF ClientNet, Kept
  <2> QED BY <2>3 DEF b
<1>6. CReadable(c) => ClientNet(net, CWrite(CTake(net, c), c, fs))
  <2> DEFINE n == CTake(net, c)
  <2> SUFFICES ASSUME CReadable(c) PROVE ClientNet(net, CWrite(n, c, fs))
    OBVIOUS
  <2>1. /\ n \in NetType /\ SameDialed(net, n) /\ SameUp(net, n)
        /\ SameCOpen(net, n) /\ SameLOpen(net, n) /\ SameFin(net, n)
        /\ \A d \in Conns : n[d].down = (IF d = c THEN Tail(net[d].down) ELSE net[d].down)
        /\ net[c].down # <<>>
    BY <1>1, CTakeIs DEF CReadable
  <2> HIDE DEF n
  <2>2. \A d \in Conns : (n[d].down = net[d].down
                        \/ (net[d].down # <<>> /\ n[d].down = Tail(net[d].down)))
    BY <2>1
  <2> QED BY <1>5, <2>1, <2>2
<1>7. ClientNet(net, CWrite(net, c, fs))
  BY <1>1, <1>5 DEF SameUp, SameDialed, SameCOpen, SameLOpen, SameFin
<1> QED BY <1>2, <1>3, <1>4, <1>6, <1>7

LEMMA LinkLostNet ==
  ASSUME Types, NEW g, NEW n, LinkLost(g, n)
  PROVE  net' = n \/ net' = CClose(n, inner.conn)
<1>1. inner \in InnerType
  BY DEF Types, CTypes
<1>2. CASE StartLoop(Resumes(inner), g, n)
  <2>1. net' = CClose(n, Resumes(inner).conn)
    BY <1>2 DEF StartLoop
  <2> QED BY <1>1, <2>1, ResumesIs
<1> QED BY <1>2 DEF LinkLost, Resumes

\* A dial that is abandoned at once leaves nothing behind.
LEMMA AbandonedDialIs ==
  ASSUME NEW n \in NetType, NEW c \in Conns
  PROVE  /\ CClose([n EXCEPT ![c].up = <<>>], c) \in NetType
         /\ \A d \in Conns : d # c => CClose([n EXCEPT ![c].up = <<>>], c)[d] = n[d]
         /\ CClose([n EXCEPT ![c].up = <<>>], c)[c].up = <<>>
         /\ CClose([n EXCEPT ![c].up = <<>>], c)[c].down = <<>>
         /\ ~CClose([n EXCEPT ![c].up = <<>>], c)[c].cOpen
         /\ CClose([n EXCEPT ![c].up = <<>>], c)[c].dialed = n[c].dialed
         /\ CClose([n EXCEPT ![c].up = <<>>], c)[c].lOpen = n[c].lOpen
         /\ CClose([n EXCEPT ![c].up = <<>>], c)[c].fin = n[c].fin
<1> DEFINE m == [n EXCEPT ![c].up = <<>>]
           r == CClose(m, c)
<1>1. m \in NetType
  BY EmptySeq DEF NetType, ConnType
<1>2. /\ m[c].up = <<>> /\ m[c].dialed = n[c].dialed /\ m[c].lOpen = n[c].lOpen
      /\ m[c].fin = n[c].fin
      /\ \A d \in Conns : d # c => m[d] = n[d]
  BY DEF NetType, ConnType
<1>3. \A d \in Conns : d # c => r[d] = m[d]
  <2>1. m \in [Conns -> ConnType]
    BY <1>1 DEF NetType
  <2> HIDE DEF m
  <2> QED BY <2>1 DEF CClose
<1> HIDE DEF m
<1>4. /\ r \in NetType /\ SameDialed(m, r) /\ SameUp(m, r) /\ SameLOpen(m, r) /\ SameFin(m, r)
      /\ ~r[c].cOpen /\ r[c].down = <<>>
  BY <1>1, CCloseIs
<1> HIDE DEF r
<1>5. /\ r[c].up = <<>> /\ r[c].down = <<>> /\ ~r[c].cOpen
      /\ r[c].dialed = n[c].dialed /\ r[c].lOpen = n[c].lOpen /\ r[c].fin = n[c].fin
      /\ r \in NetType /\ \A d \in Conns : d # c => r[d] = n[d]
  BY <1>2, <1>3, <1>4 DEF SameDialed, SameUp, SameLOpen, SameFin
<1> QED BY <1>5 DEF r, m

LEMMA CFramesAre ==
  Types => /\ Frame("ack", inner.received) \in CFrames
           /\ Frame("resume", inner.received) \in CFrames
           /\ \A n \in Nat : Frame("data", n) \in CFrames
<1> SUFFICES ASSUME Types PROVE /\ Frame("ack", inner.received) \in CFrames
                                /\ Frame("resume", inner.received) \in CFrames
                                /\ \A n \in Nat : Frame("data", n) \in CFrames
  OBVIOUS
<1>1. inner.received \in Nat
  BY DEF Types, CTypes, InnerType
<1> QED BY <1>1, FrameIs DEF CFrames, FrameTypes

\* The frames of a tail.
LEMMA TailFrames ==
  ASSUME NEW tail \in Seq(Nat)
  PROVE  [k \in 1..Len(tail) |-> Frame("data", tail[k])] = DataFrames(tail)
BY DEF DataFrames

LEMMA DataFramesSent ==
  ASSUME Types, NEW tail \in Seq(Nat)
  PROVE  DataFrames(tail) \in Seq(CFrames)
<1>1. Len(tail) \in Nat
  BY LenProperties
<1>2. \A i \in 1..Len(tail) : Frame("data", tail[i]) \in CFrames
  <2> TAKE i \in 1..Len(tail)
  <2>1. tail[i] \in Nat
    BY ElementOfSeq
  <2> QED BY <2>1, CFramesAre
<1> QED BY <1>1, <1>2 DEF DataFrames

LEMMA DialNet ==
  ASSUME Types, NEW s \in Slots, DialOk(s)
  PROVE  ClientNet(net, net')
<1> DEFINE c == NextConn
           f == Frame("resume", inner.received)
           n == Dialed(net, c, f)
           a == CClose([n EXCEPT ![c].up = <<>>], c)
<1>1. c \in Conns /\ ~net[c].dialed /\ net \in NetType
  BY NextConnIs DEF DialOk, Types
<1>2. f \in Frames
  BY CFramesAre DEF CFrames
<1>3. net' = n \/ net' = a
  BY DEF DialOk, Abandon
<1> HIDE DEF c, f
<1>4. /\ n \in NetType /\ \A d \in Conns : d # c => n[d] = net[d]
      /\ n[c].dialed /\ n[c].lOpen /\ ~n[c].fin /\ n[c].up = <<f>> /\ n[c].down = <<>>
  BY <1>1, <1>2, DialedIs
<1> HIDE DEF n
<1>5. /\ \A d \in Conns : d # c => a[d] = n[d]
      /\ a[c].up = <<>> /\ a[c].down = <<>> /\ a[c].dialed = n[c].dialed
      /\ a[c].lOpen = n[c].lOpen /\ a[c].fin = n[c].fin
  BY <1>1, <1>4, AbandonedDialIs
<1> HIDE DEF a
<1>6. \A d \in Conns : d # c => net'[d] = net[d]
  BY <1>3, <1>4, <1>5
<1>7. DialedNow(net, net', c)
  BY <1>1, <1>3, <1>4, <1>5 DEF DialedNow, f
<1> QED BY <1>6, <1>7 DEF ClientNet, Kept

LEMMA ClientNets ==
  ASSUME Types, CControl, ClientStep
  PROVE  ClientNet(net, net')
<1>1. /\ inner \in InnerType /\ inner.conn \in Conns /\ 1 \in Conns /\ net \in NetType
      /\ inner.outbox \in Seq(Nat)
      /\ \A s \in Slots : loops[s].pc = "handshake" => loops[s].conn \in Conns
  BY WireBoundsAssumption DEF Types, CTypes, InnerType, Conns
<1>2. <<>> \in Seq(CFrames) /\ <<Frame("ack", inner.received)>> \in Seq(CFrames)
      /\ \A n \in Nat : <<Frame("data", n)>> \in Seq(CFrames)
  BY CFramesAre
<1>3. ASSUME NEW c \in Conns,
             \/ net' = net \/ net' = CClose(net, c)
             \/ CReadable(c) /\ net' = CTake(net, c)
      PROVE  ClientNet(net, net')
  BY <1>2, <1>3, ClientNetOps
<1>4. CASE ConnectReply \/ ConnectLost
  <2>1. ConnectLost => net' = CClose(net, 1)
    BY DEF ConnectLost
  <2>2. ASSUME ConnectReply
        PROVE  CReadable(1) /\ (net' = CClose(net, 1) \/ net' = CTake(net, 1))
    <3>1. CReadable(1)
      BY <2>2 DEF ConnectReply
    <3>2. net' = CClose(net, 1) \/ net' = [net EXCEPT ![1].down = Tail(@)]
      BY <2>2 DEF ConnectReply
    <3> QED BY <3>1, <3>2 DEF CTake
  <2> QED BY <1>1, <1>3, <1>4, <2>1, <2>2
<1>5. ASSUME NEW c \in Conns, Reader(c) \/ ReaderEnd(c) \/ WriterErr(c)
      PROVE  ClientNet(net, net')
  <2>1. \/ net' = net \/ net' = CClose(net, inner.conn)
        \/ CReadable(c) /\ net' = CTake(net, c)
    BY <1>5, LinkLostNet DEF Reader, ReaderEnd, WriterErr, CTake
  <2> QED BY <1>1, <1>3, <2>1
<1>6. ASSUME NEW c \in Conns, WriterWoken(c) \/ WriterOk(c)
      PROVE  ClientNet(net, net')
  <2>1. net' = net \/ WriterTurn(c)
    BY <1>6 DEF WriterWoken, WriterOk, Retire
  <2>2. \/ net' = net
        \/ net' = CWrite(net, c, <<Frame("ack", inner.received)>>)
        \/ /\ inner.outbox # <<>>
           /\ net' = CWrite(net, c, <<Frame("data", Head(inner.outbox))>>)
    BY <2>1, WriterTurnIs
  <2>3. inner.outbox # <<>> => Head(inner.outbox) \in Nat
    BY <1>1, HeadTailProperties
  <2> QED BY <1>2, <1>3, <2>2, <2>3, ClientNetOps
<1>7. CASE KeepaliveDead
  BY <1>1, <1>3, <1>7, LinkLostNet DEF KeepaliveDead
<1>8. ASSUME NEW s \in Slots, \/ LoopSpawned(s) \/ BackedOff(s) \/ DialFailed(s)
                              \/ HandshakeFailed(s)
      PROVE  ClientNet(net, net')
  <2>1. \/ net' = net \/ net' = CClose(net, inner.conn)
        \/ loops[s].pc = "handshake" /\ net' = CClose(net, loops[s].conn)
    BY <1>8 DEF LoopSpawned, BackedOff, DialFailed, HandshakeFailed, Abandon, Retry
  <2> QED BY <1>1, <1>3, <2>1
<1>9. ASSUME NEW s \in Slots, HandshakeReply(s)
      PROVE  ClientNet(net, net')
  <2> DEFINE c == loops[s].conn
             n == Head(net[c].down).n
             tail == TailFrom(inner.replay, n)
  <2>1. c \in Conns /\ CReadable(c)
    BY <1>1, <1>9 DEF HandshakeReply
  <2>2. \/ net' = CClose(net, c)
        \/ /\ HasTail(inner.replay, n)
           /\ net' = CWrite(CTake(net, c), c, [k \in 1..Len(tail) |-> Frame("data", tail[k])])
    BY <1>9 DEF HandshakeReply, Abandon, Install, CTake
  <2>3. n \in Nat
    BY <1>1, <2>1, NetFields, HeadFrames DEF CReadable
  <2> HIDE DEF n
  <2>4. HasTail(inner.replay, n) => tail \in Seq(Nat)
    BY <1>1, <2>3, TailFromType DEF InnerType
  <2> HIDE DEF tail
  <2>5. CASE net' = CClose(net, c)
    BY <1>3, <2>1, <2>5
  <2>6. CASE /\ HasTail(inner.replay, n)
             /\ net' = CWrite(CTake(net, c), c, [k \in 1..Len(tail) |-> Frame("data", tail[k])])
    <3>1. net' = CWrite(CTake(net, c), c, DataFrames(tail))
      BY <2>4, <2>6, TailFrames
    <3>2. DataFrames(tail) \in Seq(CFrames)
      BY <2>4, <2>6, DataFramesSent
    <3> HIDE DEF c
    <3> QED BY <2>1, <3>1, <3>2, ClientNetOps
  <2> QED BY <2>2, <2>5, <2>6
<1>10. CASE WriteInput \/ Suspend \/ Wake \/ Detach
  BY <1>1, <1>3, <1>10 DEF WriteInput, Suspend, Wake, Detach
<1> QED BY <1>4, <1>5, <1>6, <1>7, <1>8, <1>9, <1>10, DialNet DEF ClientStep

LEMMA LoseNet ==
  ASSUME Types, NEW c \in Conns, Lose(c)
  PROVE  /\ net' \in NetType /\ losses' \in Nat
         /\ ClientNet(net, net') \/ ListenerNet(net, net')
<1>1. net \in NetType /\ losses \in Nat /\ losses' = losses + 1
  BY DEF Types, Lose
<1>2. net' = CClose(net, c) \/ net' = LClose(net, c)
  BY DEF Lose
<1>3. Frame("new", 0) \in LFrames /\ NoConn \in AnyConn /\ <<>> \in Seq(CFrames)
  BY DEF LFrames, AnyConn
<1>4. net' \in NetType
  BY <1>1, <1>2, CCloseIs, LCloseIs
<1>5. ClientNet(net, net') \/ ListenerNet(net, net')
  BY <1>2, <1>3, ClientNetOps, ListenerNetOps
<1> QED BY <1>1, <1>4, <1>5
-----------------------------------------------------------------------------
(* The listener: the session's life, its attachment and its grace timer. *)

\* The directions of the connections carry only some frames.
UpIn(n, U) == \A d \in Conns : n[d].up \in Seq(U[d])
DownIn(n, D) == \A d \in Conns : n[d].down \in Seq(D[d])

LEMMA UpStays ==
  ASSUME NEW n \in NetType, NEW m \in NetType, NEW U \in [Conns -> SUBSET Frames],
         UpIn(n, U),
         \/ ListenerNet(n, m)
         \/ ClientNet(n, m) /\ (\A d \in Conns : CFrames \subseteq U[d])
            /\ Frame("resume", inner.received) \in CFrames
  PROVE  UpIn(m, U)
<1> SUFFICES ASSUME NEW d \in Conns PROVE m[d].up \in Seq(U[d])
  BY DEF UpIn
<1>1. n[d].up \in Seq(U[d])
  BY DEF UpIn
<1>2. <<>> \in Seq(U[d]) /\ (n[d].up # <<>> => Tail(n[d].up) \in Seq(U[d]))
  BY <1>1, HeadTailProperties
<1>3. CASE ListenerNet(n, m)
  BY <1>1, <1>2, <1>3 DEF ListenerNet
<1>4. CASE /\ ClientNet(n, m) /\ CFrames \subseteq U[d]
           /\ Frame("resume", inner.received) \in CFrames
  <2>1. ASSUME NEW fs \in Seq(CFrames) PROVE n[d].up \o fs \in Seq(U[d])
    <3>1. fs \in Seq(U[d])
      BY <1>4, <2>1, SeqMonotonic
    <3> QED BY <1>1, <3>1, ConcatProperties
  <2>2. <<Frame("resume", inner.received)>> \in Seq(U[d])
    BY <1>4
  <2> QED BY <1>1, <1>2, <1>4, <2>1, <2>2 DEF ClientNet, Kept, DialedNow
<1> QED BY <1>3, <1>4

LEMMA DownStays ==
  ASSUME NEW n \in NetType, NEW m \in NetType, NEW D \in [Conns -> SUBSET Frames],
         DownIn(n, D),
         \/ ClientNet(n, m)
         \/ ListenerNet(n, m) /\ (\A d \in Conns : LFrames \subseteq D[d])
  PROVE  DownIn(m, D)
<1> SUFFICES ASSUME NEW d \in Conns PROVE m[d].down \in Seq(D[d])
  BY DEF DownIn
<1>1. n[d].down \in Seq(D[d])
  BY DEF DownIn
<1>2. <<>> \in Seq(D[d]) /\ (n[d].down # <<>> => Tail(n[d].down) \in Seq(D[d]))
  BY <1>1, HeadTailProperties
<1>3. CASE ClientNet(n, m)
  BY <1>1, <1>2, <1>3 DEF ClientNet, Kept, DialedNow
<1>4. CASE ListenerNet(n, m) /\ LFrames \subseteq D[d]
  <2>1. ASSUME NEW f \in LFrames PROVE Append(n[d].down, f) \in Seq(D[d])
    BY <1>1, <1>4, <2>1, AppendProperties
  <2> QED BY <1>1, <1>4, <2>1 DEF ListenerNet
<1> QED BY <1>3, <1>4

\* Only the first connection ever says Hello.
Hellos == UpIn(net, [d \in Conns |-> {f \in Frames : f.t = "hello" => d = 1}])

LEMMA HellosStay ==
  ASSUME Types, net' \in NetType, Hellos, ListenerNet(net, net') \/ ClientNet(net, net')
  PROVE  Hellos'
<1> DEFINE U == [d \in Conns |-> {f \in Frames : f.t = "hello" => d = 1}]
<1>1. U \in [Conns -> SUBSET Frames] /\ \A d \in Conns : CFrames \subseteq U[d]
  BY DEF CFrames
<1>2. UpIn(net, U)
  BY DEF Hellos
<1>3. Frame("resume", inner.received) \in CFrames
  BY CFramesAre
<1>4. Hellos' <=> UpIn(net', U)
  BY DEF Hellos
<1> HIDE DEF U
<1>5. UpIn(net', U)
  BY <1>1, <1>2, <1>3, UpStays DEF Types
<1> QED BY <1>4, <1>5

LEMMA FirstHello ==
  ASSUME Types, Hellos, NEW c \in Conns, LReadable(c), Head(net[c].up).t = "hello"
  PROVE  c = 1
<1> DEFINE S == {f \in Frames : f.t = "hello" => c = 1}
<1>1. net[c].up \in Seq(S) /\ net[c].up # <<>>
  BY DEF Hellos, UpIn, LReadable
<1> HIDE DEF S
<1>2. Head(net[c].up) \in S
  BY <1>1, HeadTailProperties
<1> QED BY <1>2 DEF S

\* A session is over when the registry has buried it, and only then.
Ends == (st.dead <=> reg = "gone") /\ (task.C = "done" => st.dead)

\* Until connect_target has answered there is no session: nothing has happened.
Unborn ==
  reg = "none" =>
    /\ st = NewSession /\ timers = {} /\ task.A = "none"
    /\ \A c \in Conns : h[c].pc \notin {"replying", "gap", "reading"}

\* The first connection's handler makes the session; until it has replied, the
\* session's tasks are not spawned.
FirstOnly ==
  /\ \A c \in Conns : /\ h[c].pc = "connecting" => c = 1
                      /\ h[c].pc = "replying" => (h[c].fresh <=> c = 1)
  /\ h[1].pc \in {"hello", "connecting"} => reg = "none"
  /\ h[1].pc \in {"hello", "connecting", "replying"} => task.A = "none"
  /\ task.A = "none" => /\ task.B = "none" /\ task.C = "none"
                        /\ handed = <<>> /\ sshdIn = <<>>

\* No reader is of a generation to come.
Generations == \A c \in Conns : h[c].pc = "reading" => h[c].gen <= st.generation

LQuiet == Ends /\ Unborn /\ FirstOnly /\ Generations /\ AttachedHasReader /\ ParkedHasTimer
LControl == LQuiet /\ Hellos

\* A step that leaves the handlers and the attachment alone, or ends the session.
LEMMA SessionStep ==
  ASSUME Types, LQuiet, reg # "none", h' = h,
         st'.generation = st.generation, timers' = timers,
         (reg' = reg /\ (st'.dead <=> st.dead)) \/ (reg' = "gone" /\ st'.dead),
         st'.dead \/ /\ st'.attached = st.attached /\ st'.conn = st.conn
                     /\ st'.park_epoch = st.park_epoch /\ st'.grace = st.grace,
         task'.C = "done" => task.C = "done" \/ st'.dead,
         task'.A = "none" <=> task.A = "none",
         task.A = "none" => task' = task /\ handed' = handed /\ sshdIn' = sshdIn
  PROVE  LQuiet'
<1>1. Ends' /\ Unborn' /\ Generations'
  BY DEF LQuiet, Ends, Unborn, Generations
<1>2. 1 \in Conns
  BY WireBoundsAssumption DEF Conns
<1>3. FirstOnly'
  BY <1>2 DEF LQuiet, FirstOnly, Ends
<1>4. AttachedHasReader'
  BY DEF LQuiet, AttachedHasReader, CurrentReader, Ends
<1>5. ParkedHasTimer'
  BY DEF LQuiet, ParkedHasTimer, Ends
<1> QED BY <1>1, <1>3, <1>4, <1>5 DEF LQuiet

\* A handler that is not the attachment's reader moves on, and the session does not
\* notice.
LEMMA HandlerMoves ==
  ASSUME Types, LQuiet, NEW c \in Conns, NEW x \in HandlerType, Moves(c, x),
         ~CurrentReader(c), x.pc \notin {"hello", "connecting", "reading"},
         (x.pc = "replying" => reg # "none" /\ ~x.fresh /\ c # 1),
         (x.pc = "gap" => reg # "none"),
         UNCHANGED <<st, reg, timers, task, handed, sshdIn>>
  PROVE  LQuiet'
<1>1. /\ h' \in [Conns -> HandlerType] /\ h'[c] = x
      /\ \A d \in Conns : d # c => h'[d] = h[d]
  BY MovesIs DEF Types, LTypes
<1>2. Ends' /\ Generations' /\ ParkedHasTimer'
  BY <1>1 DEF LQuiet, Ends, Generations, ParkedHasTimer
<1>3. Unborn'
  BY <1>1 DEF LQuiet, Unborn
<1>4. 1 \in Conns
  BY WireBoundsAssumption DEF Conns
<1>5. FirstOnly'
  <2>1. \A d \in Conns : /\ h'[d].pc = "connecting" => d = 1
                         /\ h'[d].pc = "replying" => (h'[d].fresh <=> d = 1)
    BY <1>1 DEF LQuiet, FirstOnly
  <2>2. /\ h'[1].pc \in {"hello", "connecting"} => h[1].pc \in {"hello", "connecting"}
        /\ h'[1].pc \in {"hello", "connecting", "replying"}
             => h[1].pc \in {"hello", "connecting", "replying"}
    BY <1>1, <1>4
  <2> QED BY <2>1, <2>2 DEF LQuiet, FirstOnly
<1>6. \A d \in Conns : (h'[d].pc = "reading" /\ h'[d].gen = st.generation) <=> CurrentReader(d)
  BY <1>1 DEF CurrentReader
<1>7. AttachedHasReader'
  BY <1>6 DEF LQuiet, AttachedHasReader, CurrentReader
<1> QED BY <1>2, <1>3, <1>5, <1>7 DEF LQuiet

LEMMA StartKeeps ==
  ASSUME Types, LControl, NEW c \in Conns, StartSession(c)
  PROVE  LQuiet'
<1>1. /\ h[c].pc = "hello" /\ c = 1 /\ Moves(c, Resting("connecting"))
      /\ UNCHANGED <<st, reg, task, timers, handed, sshdIn>>
  BY FirstHello DEF StartSession, LControl, Handler, Moves, Resting
<1>2. /\ h' \in [Conns -> HandlerType] /\ h'[c].pc = "connecting"
      /\ \A d \in Conns : d # c => h'[d] = h[d]
  BY <1>1, HandlerIs, MovesIs DEF Types, LTypes, Resting
<1>3. Ends' /\ Generations' /\ ParkedHasTimer' /\ Unborn'
  BY <1>1, <1>2 DEF LControl, LQuiet, Ends, Generations, ParkedHasTimer, Unborn
<1>4. FirstOnly'
  BY <1>1, <1>2 DEF LControl, LQuiet, FirstOnly
<1>5. AttachedHasReader'
  <2>1. \A d \in Conns : (h'[d].pc = "reading" /\ h'[d].gen = st.generation) <=> CurrentReader(d)
    BY <1>1, <1>2 DEF CurrentReader
  <2> QED BY <1>1, <2>1 DEF LControl, LQuiet, AttachedHasReader, CurrentReader
<1> QED BY <1>3, <1>4, <1>5 DEF LQuiet

LEMMA TargetKeeps ==
  ASSUME Types, LControl, NEW c \in Conns, ConnectTarget(c)
  PROVE  LQuiet'
<1>1. /\ h[c].pc = "connecting" /\ c = 1 /\ reg = "none" /\ task.A = "none"
      /\ h \in [Conns -> HandlerType]
      /\ UNCHANGED <<task, timers, handed, sshdIn>>
  BY DEF ConnectTarget, LControl, LQuiet, FirstOnly, Types, LTypes
<1>2. CASE /\ reg' = "live" /\ \E g \in Graces : st' = [NewSession EXCEPT !.grace = g]
           /\ Moves(c, Greeting)
  <2>1. PICK g \in BOOLEAN : st' = [NewSession EXCEPT !.grace = g]
    BY <1>2, GraceAssumption
  <2>2. ~st'.dead /\ ~st'.attached /\ st'.generation = 0
    BY <2>1, NewSessionIs
  <2>3. /\ h'[c].pc = "replying" /\ h'[c].fresh
        /\ \A d \in Conns : d # c => h'[d] = h[d]
    <3>1. /\ Greeting \in HandlerType /\ Greeting.pc = "replying" /\ Greeting.fresh
      BY HandlersAre, EmptySeq
    <3> QED BY <1>1, <1>2, <3>1, MovesIs
  <2>4. \A d \in Conns : h[d].pc \notin {"replying", "gap", "reading"}
    BY <1>1 DEF LControl, LQuiet, Unborn
  <2>5. Ends' /\ Unborn' /\ Generations' /\ AttachedHasReader' /\ ParkedHasTimer'
    BY <1>1, <1>2, <2>2, <2>3, <2>4
       DEF LControl, LQuiet, Ends, Unborn, Generations, AttachedHasReader, ParkedHasTimer, FirstOnly
  <2>6. FirstOnly'
    BY <1>1, <2>3 DEF LControl, LQuiet, FirstOnly
  <2> QED BY <2>5, <2>6 DEF LQuiet
<1>3. CASE h' = [h EXCEPT ![c].pc = "refusing"] /\ UNCHANGED <<st, reg>>
  <2> DEFINE x == [h[c] EXCEPT !.pc = "refusing"]
  <2>1. x \in HandlerType /\ x.pc = "refusing" /\ Moves(c, x)
    BY <1>1, <1>3 DEF HandlerType, Moves
  <2>2. ~CurrentReader(c)
    BY <1>1 DEF CurrentReader
  <2> HIDE DEF x
  <2> QED BY <1>1, <1>3, <2>1, <2>2, HandlerMoves DEF LControl
<1> QED BY <1>2, <1>3 DEF ConnectTarget, Moves, Greeting

LEMMA AnswerKeeps ==
  ASSUME Types, LControl, NEW c \in Conns,
         ResumeSession(c) \/ HelloLost(c) \/ ReplyFailed(c)
  PROVE  LQuiet'
<1>1. /\ UNCHANGED <<st, reg, timers, task, handed, sshdIn>> /\ ~CurrentReader(c)
  BY DEF ResumeSession, HelloLost, ReplyFailed, CurrentReader
<1>2. ASSUME NEW p \in {"refusing", "gap", "done"}, Handler(c, p), p = "gap" => reg # "none"
      PROVE  LQuiet'
  <2> DEFINE x == Resting(p)
  <2>1. x \in HandlerType /\ x.pc = p /\ Moves(c, x)
    BY <1>2, HandlerIs DEF Handler, Moves, Resting
  <2> HIDE DEF x
  <2> QED BY <1>1, <1>2, <2>1, HandlerMoves DEF LControl
<1>3. CASE ResumeSession(c)
  <2> DEFINE t == TailFrom(st.replay, Head(net[c].up).n)
             x == Answering(t, st.received, st.replay.sent_total)
  <2>1. \/ Refuse(c, "refusing") \/ (reg = "live" /\ Refuse(c, "gap"))
        \/ /\ reg = "live" /\ HasTail(st.replay, Head(net[c].up).n)
           /\ Moves(c, x)
    BY <1>3 DEF ResumeSession, Moves, Answering
  <2>2. CASE reg = "live" /\ HasTail(st.replay, Head(net[c].up).n) /\ Moves(c, x)
    <3>1. /\ Head(net[c].up).n \in Nat /\ st.replay \in ReplayType(Nat)
          /\ st.received \in Nat /\ st.replay.sent_total \in Nat
      BY <1>3, NetFields, HeadFrames
         DEF ResumeSession, LReadable, Types, LTypes, SessionType, ReplayType
    <3>2. t \in Seq(Nat)
      BY <2>2, <3>1, TailFromType
    <3> HIDE DEF t
    <3>3. x \in HandlerType /\ x.pc = "replying" /\ ~x.fresh
      BY <3>1, <3>2, HandlersAre
    <3>4. c # 1
      BY <1>3, <2>2 DEF ResumeSession, LControl, LQuiet, FirstOnly
    <3> HIDE DEF x
    <3> QED BY <1>1, <2>2, <3>3, <3>4, HandlerMoves DEF LControl
  <2> QED BY <1>2, <2>1, <2>2 DEF Refuse
<1>4. CASE HelloLost(c) \/ ReplyFailed(c)
  BY <1>2, <1>4 DEF HelloLost, ReplyFailed, Return
<1> QED BY <1>3, <1>4

LEMMA RepliedKeeps ==
  ASSUME Types, LControl, NEW c \in Conns, Replied(c)
  PROVE  LQuiet'
<1> DEFINE g == st.generation + 1
<1>1. /\ st \in SessionType /\ h \in [Conns -> HandlerType] /\ h[c].tail \in Seq(Nat)
      /\ st.generation \in Nat /\ task \in TaskType
  BY DEF Types, LTypes, SessionType, HandlerType
<1>2. /\ h[c].pc = "replying" /\ st' = Attach(st, c, h[c].tail) /\ Moves(c, Reading(g))
      /\ task' = (IF h[c].fresh THEN [A |-> "wait", B |-> "idle", C |-> "idle"] ELSE task)
      /\ UNCHANGED <<reg, timers, handed, sshdIn>>
  BY DEF Replied, Moves, Reading
<1>3. /\ st'.attached /\ st'.conn = c /\ st'.generation = g
      /\ st'.dead = st.dead
  BY <1>1, <1>2, AttachIs
<1>4. g \in Nat
  BY <1>1
<1>5. /\ h'[c].pc = "reading" /\ h'[c].gen = g /\ \A d \in Conns : d # c => h'[d] = h[d]
  <2>1. Reading(g) \in HandlerType /\ Reading(g).pc = "reading" /\ Reading(g).gen = g
    BY <1>4, HandlersAre, EmptySeq
  <2> HIDE DEF g
  <2> QED BY <1>1, <1>2, <2>1, MovesIs
<1>6. reg # "none"
  BY <1>2 DEF LControl, LQuiet, Unborn
<1>7. Ends' /\ Unborn'
  BY <1>2, <1>3, <1>6 DEF LControl, LQuiet, Ends, Unborn
<1>8. \A d \in Conns : d # c /\ h[d].pc = "reading" => h[d].gen <= st.generation /\ h[d].gen \in Nat
  BY <1>1 DEF LControl, LQuiet, Generations, HandlerType
<1>9. Generations'
  BY <1>1, <1>3, <1>5, <1>8 DEF Generations
<1>10. AttachedHasReader'
  <2>1. \A d \in Conns : (h'[d].pc = "reading" /\ h'[d].gen = g) <=> d = c
    BY <1>1, <1>5, <1>8
  <2>2. c # NoConn
    BY WireBoundsAssumption DEF Conns, NoConn
  <2> HIDE DEF g
  <2> QED BY <1>3, <2>1, <2>2 DEF AttachedHasReader, CurrentReader
<1>11. ParkedHasTimer'
  BY <1>3 DEF ParkedHasTimer
<1>12. FirstOnly'
  <2>1. 1 \in Conns
    BY WireBoundsAssumption DEF Conns
  <2>2. h[c].fresh <=> c = 1
    BY <1>2 DEF LControl, LQuiet, FirstOnly
  <2>3. CASE h[c].fresh
    <3>1. task'.A = "wait"
      BY <1>2, <2>3
    <3> QED BY <1>2, <1>5, <2>1, <2>2, <2>3, <3>1 DEF LControl, LQuiet, FirstOnly
  <2>4. CASE ~h[c].fresh
    BY <1>2, <1>5, <2>1, <2>2, <2>4 DEF LControl, LQuiet, FirstOnly
  <2> QED BY <2>3, <2>4
<1> QED BY <1>7, <1>9, <1>10, <1>11, <1>12 DEF LQuiet

LEMMA LingeredKeeps ==
  ASSUME Types, LControl, NEW c \in Conns, Lingered(c)
  PROVE  LQuiet'
<1> DEFINE x == Resting("done")
<1>1. /\ x \in HandlerType /\ x.pc = "done" /\ Moves(c, x) /\ ~CurrentReader(c)
      /\ UNCHANGED <<task, handed, sshdIn>>
  BY HandlerIs DEF Lingered, Return, Handler, Moves, Resting, CurrentReader
<1> HIDE DEF x
<1>2. CASE UNCHANGED <<st, reg, timers>>
  BY <1>1, <1>2, HandlerMoves DEF LControl
<1>3. CASE h[c].pc = "gap" /\ EndSession
  <2>1. st' = Ended(st) /\ reg' = "gone" /\ timers' = timers /\ reg # "none"
    BY <1>3 DEF EndSession, Ended, LControl, LQuiet, Unborn
  <2>2. /\ st'.dead /\ st'.generation = st.generation
    BY <2>1, EndedIs DEF Types, LTypes
  <2>3. h' \in [Conns -> HandlerType] /\ h'[c] = x /\ \A d \in Conns : d # c => h'[d] = h[d]
    BY <1>1, MovesIs DEF Types, LTypes
  <2>4. Ends' /\ Unborn' /\ AttachedHasReader' /\ ParkedHasTimer'
    BY <2>1, <2>2 DEF Ends, Unborn, AttachedHasReader, ParkedHasTimer
  <2>5. Generations'
    BY <1>1, <2>2, <2>3 DEF LControl, LQuiet, Generations
  <2>6. FirstOnly'
    <3>1. 1 \in Conns
      BY WireBoundsAssumption DEF Conns
    <3>2. \A d \in Conns : /\ h'[d].pc = "connecting" => d = 1
                           /\ h'[d].pc = "replying" => (h'[d].fresh <=> d = 1)
      BY <1>1, <2>3 DEF LControl, LQuiet, FirstOnly
    <3>3. /\ h'[1].pc \notin {"hello", "connecting"}
      BY <1>1, <2>1, <2>3, <3>1 DEF LControl, LQuiet, FirstOnly
    <3>4. h'[1].pc = "replying" => h[1].pc = "replying"
      BY <1>1, <2>3, <3>1
    <3> QED BY <1>1, <3>2, <3>3, <3>4 DEF LControl, LQuiet, FirstOnly
  <2> QED BY <2>4, <2>5, <2>6 DEF LQuiet
<1> QED BY <1>2, <1>3 DEF Lingered

\* park, once the handlers and the tasks are accounted for: the reader that parks is
\* gone, and no other is of the generation that begins.
LEMMA ParkKeeps ==
  ASSUME Types, LQuiet, NEW n, Park(n), reg # "none", NEW c \in Conns,
         \A d \in Conns : d # c => h'[d] = h[d],
         \/ h'[c] = h[c]
         \/ h'[c].pc = "done" /\ st.generation = h[c].gen /\ h[c].pc = "reading",
         task'.A = "none" <=> task.A = "none", task'.C = task.C,
         task.A = "none" => task' = task, UNCHANGED <<handed, sshdIn>>
  PROVE  LQuiet'
<1>1. /\ st \in SessionType /\ st.generation \in Nat /\ h \in [Conns -> HandlerType]
      /\ 1 \in Conns
  BY WireBoundsAssumption DEF Types, LTypes, SessionType, Conns
<1>2. FirstOnly' /\ reg' # "none"
  <2>1. reg' # "none"
    BY ParkCases
  <2>2. \A d \in Conns : /\ h'[d].pc = "connecting" => d = 1
                         /\ h'[d].pc = "replying" => (h'[d].fresh <=> d = 1)
    BY DEF LQuiet, FirstOnly
  <2>3. /\ h'[1].pc \notin {"hello", "connecting"}
        /\ h'[1].pc = "replying" => h[1].pc = "replying"
    BY <1>1 DEF LQuiet, FirstOnly
  <2> QED BY <2>1, <2>2, <2>3 DEF LQuiet, FirstOnly
<1>3. Unborn'
  BY <1>2 DEF Unborn
<1>4. CASE st.dead /\ UNCHANGED <<st, reg, timers>>
  <2>1. Ends' /\ Generations'
    BY <1>4 DEF LQuiet, Ends, Generations
  <2>2. AttachedHasReader' /\ ParkedHasTimer'
    BY <1>4 DEF LQuiet, Ends, AttachedHasReader, ParkedHasTimer
  <2> QED BY <1>2, <1>3, <2>1, <2>2 DEF LQuiet
<1>5. CASE st' = Ended(st) /\ reg' = "gone" /\ UNCHANGED timers
  <2>1. st'.dead /\ st'.generation = st.generation
    BY <1>1, <1>5, EndedIs
  <2>2. Ends' /\ Generations'
    BY <1>5, <2>1 DEF LQuiet, Ends, Generations
  <2>3. AttachedHasReader' /\ ParkedHasTimer'
    BY <1>5, <2>1 DEF AttachedHasReader, ParkedHasTimer
  <2> QED BY <1>2, <1>3, <2>2, <2>3 DEF LQuiet
<1>6. CASE /\ ~st.dead /\ st.grace /\ st' = Parked(st) /\ UNCHANGED reg
           /\ timers' = timers \cup {st.park_epoch + 1}
  <2>1. /\ st'.dead = st.dead /\ st'.generation = st.generation + 1 /\ ~st'.attached
        /\ st'.grace = st.grace /\ st'.park_epoch = st.park_epoch + 1
    BY <1>1, <1>6, ParkedIs
  <2>2. Ends'
    BY <1>6, <2>1 DEF LQuiet, Ends
  <2>3. Generations'
    <3>1. \A d \in Conns : h'[d].pc = "reading" => h'[d] = h[d]
      OBVIOUS
    <3> QED BY <1>1, <2>1, <3>1 DEF LQuiet, Generations, HandlerType
  <2>4. AttachedHasReader' /\ ParkedHasTimer'
    BY <1>6, <2>1 DEF AttachedHasReader, ParkedHasTimer
  <2> QED BY <1>2, <1>3, <2>2, <2>3, <2>4 DEF LQuiet
<1> QED BY <1>4, <1>5, <1>6, ParkCases

LEMMA ReaderKeepsQuiet ==
  ASSUME Types, LControl, NEW c \in Conns, ClientReader(c) \/ ClientReaderEnd(c)
  PROVE  LQuiet'
<1> DEFINE x == Resting("done")
<1>1. /\ h[c].pc = "reading" /\ reg # "none" /\ x \in HandlerType /\ x.pc = "done"
      /\ st \in SessionType /\ net \in NetType
      /\ Handler(c, "done") => Moves(c, x)
      /\ UNCHANGED <<task, handed, sshdIn>>
  BY HandlerIs DEF ClientReader, ClientReaderEnd, LControl, LQuiet, Unborn, Handler, Moves,
                   Resting, Types, LTypes
<1> HIDE DEF x
<1>2. ASSUME Superseded(c), Handler(c, "done"), UNCHANGED <<st, reg, timers>>
      PROVE  LQuiet'
  <2>1. ~CurrentReader(c)
    BY <1>2 DEF Superseded, CurrentReader
  <2> QED BY <1>1, <1>2, <2>1, HandlerMoves DEF LControl
<1>3. CASE ClientReader(c)
  <2> DEFINE f == Head(net[c].up)
  <2>1. /\ LReadable(c) /\ UNCHANGED <<reg, timers>>
        /\ \/ Superseded(c) /\ Handler(c, "done") /\ UNCHANGED st
           \/ st' = Apply(st, f) /\ UNCHANGED h
    BY <1>3 DEF ClientReader, Return
  <2>2. f \in Frames
    BY <1>1, <2>1, NetFields, HeadFrames DEF LReadable
  <2> HIDE DEF f
  <2>3. CASE st' = Apply(st, f) /\ UNCHANGED h
    <3>1. /\ st'.generation = st.generation /\ st'.dead = st.dead
          /\ st'.attached = st.attached /\ st'.conn = st.conn
          /\ st'.park_epoch = st.park_epoch /\ st'.grace = st.grace
      BY <1>1, <2>2, <2>3, ApplyDataIs, ApplyAckIs
    <3> QED BY <1>1, <2>1, <2>3, <3>1, SessionStep DEF LControl
  <2> QED BY <1>2, <2>1, <2>3
<1>4. CASE ClientReaderEnd(c)
  <2>1. /\ Handler(c, "done")
        /\ \/ Superseded(c) /\ UNCHANGED <<st, reg, timers>>
           \/ ~Superseded(c) /\ Park(LClose(net, c))
    BY <1>4 DEF ClientReaderEnd
  <2>2. CASE ~Superseded(c) /\ Park(LClose(net, c))
    <3>1. h'[c] = x /\ \A d \in Conns : d # c => h'[d] = h[d]
      BY <1>1, <2>1, MovesIs DEF Types, LTypes
    <3>2. st.generation = h[c].gen
      BY <2>2 DEF Superseded
    <3> QED BY <1>1, <2>2, <3>1, <3>2, ParkKeeps DEF LControl
  <2> QED BY <1>2, <2>1, <2>2
<1> QED BY <1>3, <1>4

LEMMA TaskKeepsQuiet ==
  ASSUME Types, LControl,
         \/ TcpReaderGo \/ TcpReader \/ HostKeyRefused \/ TcpReaderEnd
         \/ ClientWriter \/ ClientWriterOk \/ ClientWriterErr \/ ClientWriterFinish
         \/ ClientWriterExit \/ TcpWriter \/ TcpWriterEnd
         \/ (\E e \in timers : GraceExpired(e)) \/ SshdGone
  PROVE  LQuiet'
<1>1. /\ st \in SessionType /\ task \in TaskType /\ LQuiet
      /\ job \in [gen : Nat, conn : AnyConn]
      /\ task.A # "none" => reg # "none"
      /\ task.A = "none" => task.B = "none" /\ task.C = "none"
      /\ st.outq \in Seq(Frames) /\ st.inq \in Seq(Nat)
  BY DEF Types, LTypes, SessionType, LControl, LQuiet, Unborn, FirstOnly
<1>2. /\ Ended(st).generation = st.generation /\ Ended(st).dead
  BY <1>1, EndedIs
<1>3. \A t : [task EXCEPT !.A = t].A = t /\ [task EXCEPT !.A = t].C = task.C
  BY <1>1 DEF TaskType
<1>4. \A t : [task EXCEPT !.B = t].A = task.A /\ [task EXCEPT !.B = t].C = task.C
  BY <1>1 DEF TaskType
<1>5. [task EXCEPT !.C = "done"].A = task.A
  BY <1>1 DEF TaskType
<1>6. AtWait # "none"
  BY DEF AtWait
<1>7. CASE TcpReaderGo
  <2>1. /\ task.A # "none" /\ task'.A # "none" /\ task'.C = task.C
        /\ UNCHANGED <<st, reg, h, timers>>
    BY <1>3, <1>6, <1>7 DEF TcpReaderGo
  <2> QED BY <1>1, <2>1, SessionStep
<1>8. CASE ClientWriterExit
  <2>1. /\ task.A # "none" /\ task'.A = task.A /\ task'.C = task.C
        /\ UNCHANGED <<st, reg, h, timers>>
    BY <1>1, <1>4, <1>8 DEF ClientWriterExit
  <2> QED BY <1>1, <2>1, SessionStep
<1>9. CASE TcpWriterEnd
  <2>1. /\ task.A # "none" /\ task'.A = task.A /\ st.dead
        /\ UNCHANGED <<st, reg, h, timers>>
    BY <1>1, <1>5, <1>9 DEF TcpWriterEnd
  <2> QED BY <1>1, <2>1, SessionStep
<1>10. CASE SshdGone
  <2>1. /\ task.A # "none" /\ task' = task /\ UNCHANGED <<st, reg, h, timers>>
    BY <1>1, <1>10 DEF SshdGone
  <2> QED BY <1>1, <2>1, SessionStep
<1>11. CASE TcpReader
  <2>1. /\ task.A # "none" /\ task'.A # "none" /\ task'.C = task.C
        /\ UNCHANGED <<reg, h, timers>>
    BY <1>3, <1>6, <1>11 DEF TcpReader
  <2>2. \E u \in Nat : st' = Recorded(st, u)
    <3>1. PICK last \in {FALSE, Hangups} :
            st' = Recorded(st, IF last THEN Bye ELSE Len(handed) + 1)
      BY <1>11 DEF TcpReader, Recorded
    <3>2. (IF last THEN Bye ELSE Len(handed) + 1) \in Nat
      BY LenProperties DEF Bye, Types, LTypes
    <3> QED BY <3>1, <3>2
  <2>3. /\ st'.generation = st.generation /\ st'.dead = st.dead
        /\ st'.attached = st.attached /\ st'.conn = st.conn
        /\ st'.park_epoch = st.park_epoch /\ st'.grace = st.grace
    <3>1. PICK u \in Nat : st' = Recorded(st, u)
      BY <2>2
    <3>2. /\ Recorded(st, u).generation = st.generation /\ Recorded(st, u).dead = st.dead
          /\ Recorded(st, u).attached = st.attached /\ Recorded(st, u).conn = st.conn
          /\ Recorded(st, u).park_epoch = st.park_epoch /\ Recorded(st, u).grace = st.grace
      BY <1>1, RecordedIs
    <3> QED BY <3>1, <3>2
  <2> QED BY <1>1, <2>1, <2>3, SessionStep
<1>12. CASE HostKeyRefused \/ TcpReaderEnd
  <2>1. /\ st' = Ended(st) /\ reg' = "gone" /\ UNCHANGED <<timers, h>>
        /\ task.A # "none" /\ task'.A = "done" /\ task'.C = task.C
    BY <1>3, <1>12 DEF HostKeyRefused, TcpReaderEnd, EndSession, Ended
  <2> QED BY <1>1, <1>2, <2>1, SessionStep
<1>13. CASE ClientWriter
  <2>1. /\ st' = Borrowed(st) /\ st.outq # <<>> /\ task.A # "none"
        /\ task'.A = task.A /\ task'.C = task.C /\ UNCHANGED <<reg, h, timers>>
    BY <1>1, <1>4, <1>13 DEF ClientWriter, Borrowed
  <2>2. /\ st'.generation = st.generation /\ st'.dead = st.dead
        /\ st'.attached = st.attached /\ st'.conn = st.conn
        /\ st'.park_epoch = st.park_epoch /\ st'.grace = st.grace
    BY <1>1, <2>1, BorrowedIs
  <2> QED BY <1>1, <2>1, <2>2, SessionStep
<1>14. CASE ClientWriterOk
  <2>1. /\ st' = (IF Abandoned(job) THEN st ELSE PutBack(st, job.conn)) /\ task.A # "none"
        /\ task'.A = task.A /\ task'.C = task.C /\ UNCHANGED <<reg, h, timers>>
    BY <1>1, <1>4, <1>14 DEF ClientWriterOk, PutBack
  <2>2. /\ st'.generation = st.generation /\ st'.dead = st.dead
        /\ st'.attached = st.attached /\ st'.conn = st.conn
        /\ st'.park_epoch = st.park_epoch /\ st'.grace = st.grace
    BY <1>1, <2>1, PutBackIs
  <2> QED BY <1>1, <2>1, <2>2, SessionStep
<1>15. CASE ClientWriterErr
  <2>1. /\ task.A # "none" /\ task'.A = task.A /\ task'.C = task.C
        /\ UNCHANGED <<h, handed, sshdIn>>
        /\ UNCHANGED <<st, reg, timers>> \/ Park(net)
    BY <1>1, <1>4, <1>15 DEF ClientWriterErr
  <2>2. 1 \in Conns
    BY WireBoundsAssumption DEF Conns
  <2>3. CASE Park(net)
    <3>1. /\ \A d \in Conns : d # 1 => h'[d] = h[d]
          /\ h'[1] = h[1] /\ reg # "none"
      BY <1>1, <2>1
    <3>2. /\ task'.A = "none" <=> task.A = "none"
          /\ task'.C = task.C /\ (task.A = "none" => task' = task)
          /\ UNCHANGED <<handed, sshdIn>>
      BY <2>1
    <3>3. LQuiet
      BY <1>1
    <3> QED BY <2>2, <2>3, <3>1, <3>2, <3>3, ParkKeeps
  <2> QED BY <1>1, <2>1, <2>3, SessionStep
<1>16. CASE ClientWriterFinish
  <2>1. /\ st' = LetGo(st) /\ st.dead /\ task.A # "none"
        /\ task'.A = task.A /\ task'.C = task.C /\ UNCHANGED <<reg, h, timers>>
    BY <1>1, <1>4, <1>16 DEF ClientWriterFinish, LetGo
  <2>2. st'.generation = st.generation /\ st'.dead = st.dead
    BY <1>1, <2>1, LetGoIs
  <2> QED BY <1>1, <2>1, <2>2, SessionStep
<1>17. CASE TcpWriter
  <2>1. /\ st.inq # <<>> /\ task.A # "none" /\ UNCHANGED <<h, timers>>
        /\ \/ st' = Taken(st) /\ UNCHANGED <<reg, task>>
           \/ /\ st'.dead /\ st'.generation = st.generation /\ reg' = "gone"
              /\ task'.A = task.A
    BY <1>1, <1>5, <1>17 DEF TcpWriter, Taken, SessionType
  <2>2. CASE st' = Taken(st) /\ UNCHANGED <<reg, task>>
    <3>1. /\ st'.generation = st.generation /\ st'.dead = st.dead
          /\ st'.attached = st.attached /\ st'.conn = st.conn
          /\ st'.park_epoch = st.park_epoch /\ st'.grace = st.grace
      BY <1>1, <2>1, <2>2, TakenIs
    <3> QED BY <1>1, <2>1, <2>2, <3>1, SessionStep
  <2> QED BY <1>1, <2>1, <2>2, SessionStep
<1>18. ASSUME NEW e \in timers, GraceExpired(e)
       PROVE  LQuiet'
  <2>1. /\ timers' = timers \ {e} /\ UNCHANGED <<h, task, handed, sshdIn>>
        /\ \/ st' = Ended(st) /\ reg' = "gone"
           \/ (st.dead \/ st.attached \/ st.park_epoch # e) /\ UNCHANGED <<st, reg>>
    BY <1>18 DEF GraceExpired, Ended
  <2>2. reg # "none"
    BY <1>1 DEF LQuiet, Unborn
  <2>3. st'.generation = st.generation
    BY <1>2, <2>1
  <2>4. Ends' /\ Unborn' /\ Generations' /\ AttachedHasReader'
    BY <1>1, <1>2, <2>1, <2>2
       DEF LQuiet, Ends, Unborn, Generations, AttachedHasReader, CurrentReader
  <2>5. FirstOnly'
    <3>1. 1 \in Conns
      BY WireBoundsAssumption DEF Conns
    <3> QED BY <1>1, <2>1, <2>2, <3>1 DEF LQuiet, FirstOnly
  <2>6. ParkedHasTimer'
    BY <1>1, <1>2, <2>1 DEF LQuiet, Ends, ParkedHasTimer
  <2> QED BY <2>4, <2>5, <2>6 DEF LQuiet
<1> QED BY <1>7, <1>8, <1>9, <1>10, <1>11, <1>12, <1>13, <1>14, <1>15, <1>16, <1>17, <1>18
-----------------------------------------------------------------------------
(* The whole: what the two ends and the path keep, together. *)

LEMMA ListenerKeeps ==
  ASSUME Types, LControl, ListenerStep
  PROVE  LTypes' /\ LQuiet' /\ net' \in NetType
<1>1. ASSUME NEW c \in Conns,
             \/ StartSession(c) \/ ConnectTarget(c) \/ ResumeSession(c) \/ HelloLost(c)
             \/ Replied(c) \/ ReplyFailed(c) \/ Lingered(c)
      PROVE  LTypes' /\ LQuiet' /\ net' \in NetType
  BY <1>1, HandlerTypes, StartKeeps, TargetKeeps, AnswerKeeps, RepliedKeeps, LingeredKeeps
<1>2. ASSUME NEW c \in Conns, ClientReader(c) \/ ClientReaderEnd(c)
      PROVE  LTypes' /\ LQuiet' /\ net' \in NetType
  BY <1>2, ReaderTypes, ReaderKeepsQuiet
<1>3. ASSUME \/ TcpReaderGo \/ TcpReader \/ HostKeyRefused \/ TcpReaderEnd
             \/ ClientWriter \/ ClientWriterOk \/ ClientWriterErr \/ ClientWriterFinish
             \/ ClientWriterExit \/ TcpWriter \/ TcpWriterEnd
             \/ (\E e \in timers : GraceExpired(e)) \/ SshdGone
      PROVE  LTypes' /\ LQuiet' /\ net' \in NetType
  BY <1>3, TaskTypes, TaskKeepsQuiet
<1> QED BY <1>1, <1>2, <1>3 DEF ListenerStep

Control == Types /\ CControl /\ LControl

LEMMA StartsWell == Init => Control
<1> SUFFICES ASSUME Init PROVE Control
  OBVIOUS
<1> USE DEF Init, LInit, CInit, NetInit
<1>1. 1 \in Conns
  BY WireBoundsAssumption DEF Conns
<1>2. /\ \A g \in BOOLEAN : NewSession \in SessionType
      /\ NewSession.received = 0 /\ NewSession.acked_out = 0 /\ ~NewSession.attached
      /\ ~NewSession.dead /\ NewSession.generation = 0
  BY NewSessionIs
<1>3. NewHandler \in HandlerType /\ NewHandler.pc = "hello"
  BY HandlerIs
<1>4. LTypes
  <2>0. h = [c \in Conns |-> NewHandler] /\ st = NewSession
    OBVIOUS
  <2>1. h \in [Conns -> HandlerType] /\ st \in SessionType /\ st.acked_out <= st.received
    <3> HIDE DEF Init, LInit, CInit, NetInit
    <3>1. h \in [Conns -> HandlerType]
      BY <1>3, <2>0
    <3>2. st \in SessionType
      BY <1>2, <2>0
    <3>3. st.acked_out <= st.received
      BY <1>2, <2>0
    <3> QED BY <3>1, <3>2, <3>3
  <2>2. task \in TaskType /\ job \in [gen : Nat, conn : AnyConn]
    BY DEF TaskType, NoJob, AnyConn
  <2>3. handed \in Seq(Nat) /\ sshdIn \in Seq(Nat)
    BY EmptySeq
  <2> QED BY <2>1, <2>2, <2>3 DEF LTypes
<1>5. CTypes
  <2> DEFINE r == NewReplay
             q == <<>>
  <2>1. r \in ReplayType(Nat) /\ q \in Seq(Nat)
    BY NewSessionIs, EmptySeq DEF NewReplay, ReplayType
  <2>2. inner = [conn |-> 1, generation |-> 0, outbox |-> q, link_down |-> FALSE,
                 detached |-> FALSE, replay |-> r, received |-> 0,
                 acked_to_peer |-> 0, ack_due |-> FALSE, resuming |-> FALSE,
                 suspended |-> FALSE, stalled |-> FALSE, close_kind |-> "none"]
    OBVIOUS
  <2> HIDE DEF r, q
  <2>3. inner \in InnerType /\ inner.acked_to_peer <= inner.received
    BY <1>1, <2>1, <2>2 DEF InnerType
  <2>4. NoLoop \in LoopType /\ NoLoop.pc = "none"
    BY DEF NoLoop, LoopType, AnyConn, NoConn
  <2>5. /\ loops \in [Slots -> LoopType]
        /\ \A s \in Slots : loops[s].pc = "handshake" => loops[s].conn \in Conns
    BY <2>4
  <2>6. fed \in Seq(Nat) /\ typed \in Nat
    BY EmptySeq
  <2>7. /\ reader \in [Conns -> {"none", "reading", "done"}]
        /\ writer \in [Conns -> {"none", "waiting", "writing", "done"}]
        /\ gen \in [Conns -> Nat] /\ connect \in {"pending", "up", "failed"}
    OBVIOUS
  <2> QED BY <2>3, <2>5, <2>6, <2>7 DEF CTypes
<1>6. /\ net \in NetType /\ \A d \in Conns : d # 1 => net[d].up = <<>>
      /\ net[1].up = <<Frame("hello", 0)>>
  <2> DEFINE n == [c \in Conns |-> NewConn]
  <2>1. <<>> \in Seq(Frames)
    BY EmptySeq
  <2>2. NewConn \in ConnType /\ NewConn.up = <<>>
    BY <2>1 DEF NewConn, ConnType
  <2>3. n \in NetType /\ \A d \in Conns : n[d].up = <<>>
    BY <2>2 DEF NetType
  <2>4. Frame("hello", 0) \in Frames
    BY FrameIs DEF FrameTypes
  <2>5. net = Dialed(n, 1, Frame("hello", 0))
    OBVIOUS
  <2> HIDE DEF n, Init, LInit, CInit, NetInit
  <2> QED BY <1>1, <2>3, <2>4, <2>5, DialedIs
<1>7. Types
  BY <1>4, <1>5, <1>6 DEF Types
<1>8. CControl
  <2>1. \A s \in Slots : loops[s].pc = "none"
    BY DEF NoLoop
  <2>2. OneLoop /\ LoopsAtWork /\ ResumingHasLoop /\ NoOrphan
    BY <2>1 DEF OneLoop, LoopsAtWork, ResumingHasLoop, NoOrphan, Alive
  <2>3. Beginning /\ Tasks
    BY DEF Beginning, Tasks, Installed
  <2> QED BY <2>2, <2>3 DEF CControl
<1>9. LQuiet
  <2>1. \A c \in Conns : h[c].pc = "hello"
    BY <1>3
  <2>2. Ends /\ Unborn /\ Generations /\ AttachedHasReader /\ ParkedHasTimer
    BY <1>2, <2>1 DEF Ends, Unborn, Generations, AttachedHasReader, ParkedHasTimer
  <2>3. FirstOnly
    BY <2>1 DEF FirstOnly
  <2> QED BY <2>2, <2>3 DEF LQuiet
<1>10. Hellos
  <2>1. Frame("hello", 0) \in Frames
    BY FrameIs DEF FrameTypes
  <2> DEFINE U == [d \in Conns |-> {f \in Frames : f.t = "hello" => d = 1}]
  <2>2. \A d \in Conns : net[d].up \in Seq(U[d])
    <3> TAKE d \in Conns
    <3> HIDE DEF Init, LInit, CInit, NetInit
    <3>1. CASE d = 1
      <4>1. Frame("hello", 0) \in U[d]
        BY <2>1, <3>1
      <4>2. <<Frame("hello", 0)>> \in Seq(U[d])
        BY <4>1
      <4>3. net[d].up = <<Frame("hello", 0)>>
        BY <1>6, <3>1
      <4> HIDE DEF U
      <4> QED BY <4>2, <4>3
    <3>2. CASE d # 1
      BY <1>6, <3>2, EmptySeq
    <3> QED BY <3>1, <3>2
  <2> QED BY <2>2 DEF Hellos, UpIn
<1> QED BY <1>7, <1>8, <1>9, <1>10 DEF Control, LControl

LEMMA ControlKeeps == Control /\ [Next]_vars => Control'
<1> SUFFICES ASSUME Control, [Next]_vars PROVE Control'
  OBVIOUS
<1>1. Types /\ CControl /\ LQuiet /\ Hellos /\ LControl
  BY DEF Control, LControl
<1>2. CASE ListenerStep /\ ClientIdle
  <2>1. LTypes' /\ LQuiet' /\ net' \in NetType
    BY <1>1, <1>2, ListenerKeeps
  <2>2. Hellos'
    BY <1>1, <1>2, <2>1, ListenerNets, HellosStay
  <2>3. CTypes' /\ losses' \in Nat
    BY <1>1, <1>2 DEF Types, CTypes, ClientIdle, cvars
  <2>4. CControl'
    BY <1>1, <1>2 DEF CControl, OneLoop, LoopsAtWork, ResumingHasLoop, NoOrphan, Beginning,
                      Tasks, Installed, Alive, ClientIdle, cvars
  <2> QED BY <2>1, <2>2, <2>3, <2>4 DEF Control, Types, LControl
<1>3. CASE UNCHANGED lvars /\ CTypes' /\ CControl' /\ net' \in NetType /\ losses' \in Nat
           /\ (ClientNet(net, net') \/ ListenerNet(net, net'))
  <2>1. LTypes'
    BY <1>1, <1>3 DEF Types, LTypes, lvars
  <2>2. LQuiet'
    BY <1>1, <1>3 DEF LQuiet, Ends, Unborn, FirstOnly, Generations, AttachedHasReader,
                      CurrentReader, ParkedHasTimer, lvars
  <2>3. Hellos'
    BY <1>1, <1>3, HellosStay
  <2> QED BY <1>3, <2>1, <2>2, <2>3 DEF Control, Types, LControl
<1>4. CASE ClientStep /\ ListenerIdle
  <2>1. CTypes' /\ CControl' /\ net' \in NetType
    BY <1>1, <1>4, ClientKeeps
  <2>2. ClientNet(net, net')
    BY <1>1, <1>4, ClientNets
  <2>3. losses' \in Nat /\ UNCHANGED lvars
    BY <1>1, <1>4 DEF ListenerIdle, Types
  <2> QED BY <1>3, <2>1, <2>2, <2>3
<1>5. ASSUME UNCHANGED cvars
      PROVE  CTypes' /\ CControl'
  <2>1. CTypes'
    BY <1>1, <1>5 DEF Types, CTypes, cvars
  <2>2. CControl'
    BY <1>1, <1>5 DEF CControl, OneLoop, LoopsAtWork, ResumingHasLoop, NoOrphan, Beginning,
                      Tasks, Installed, Alive, cvars
  <2> QED BY <2>1, <2>2
<1>6. CASE \E c \in Conns : Lose(c) /\ UNCHANGED <<lvars, cvars>>
  BY <1>1, <1>3, <1>5, <1>6, LoseNet
<1>7. CASE UNCHANGED vars
  <2>1. net' = net /\ losses' = losses /\ UNCHANGED lvars /\ UNCHANGED cvars
    BY <1>7 DEF vars
  <2>2. ClientNet(net, net') /\ net' \in NetType /\ losses' \in Nat
    BY <1>1, <2>1 DEF ClientNet, Kept, Types
  <2> QED BY <1>3, <1>5, <2>1, <2>2
<1> QED BY <1>2, <1>4, <1>6, <1>7, NextSplits

LEMMA ControlHolds == Spec => []Control
BY StartsWell, ControlKeeps, PTL DEF Spec

\* Both sides' state is well formed, and neither received - acked_out (session.rs) nor
\* received - acked_to_peer (lib.rs) is ever below zero.
THEOREM TypesHold == Spec => []TypeOK
<1>1. Control => TypeOK
  <2> SUFFICES ASSUME Control PROVE TypeOK
    OBVIOUS
  <2>1. /\ LTypes /\ CTypes /\ net \in NetType
        /\ st \in SessionType /\ inner \in InnerType /\ h \in [Conns -> HandlerType]
        /\ loops \in [Slots -> LoopType]
    BY DEF Control, Types, LTypes, CTypes
  <2>2. /\ st.send \in Conns \cup {NoConn} /\ st.conn \in Conns \cup {NoConn}
        /\ st.received \in Nat /\ st.acked_out \in Nat /\ st.acked_out <= st.received
        /\ inner.conn \in Conns /\ inner.received \in Nat /\ inner.acked_to_peer \in Nat
        /\ inner.acked_to_peer <= inner.received
    BY <2>1 DEF SessionType, InnerType, LTypes, CTypes, AnyConn
  <2>3. st.received - st.acked_out \in Nat /\ inner.received - inner.acked_to_peer \in Nat
    BY <2>2
  <2>4. /\ \A c \in Conns : h[c].pc \in {"hello", "connecting", "replying", "refusing",
                                         "gap", "reading", "done"}
        /\ \A s \in Slots : loops[s].pc \in {"none", "spawned", "dialing", "handshake",
                                             "backoff"}
    BY <2>1 DEF HandlerType, LoopType
  <2> QED BY <2>1, <2>2, <2>3, <2>4 DEF TypeOK, LTypes, CTypes
<1> QED BY <1>1, ControlHolds, PTL

\* The reader, the writer, the prober and wake all start resume loops (link_lost, wake);
\* at most one ever runs at a time.
THEOREM OneLoopEver == Spec => []OneLoop
<1>1. Control => OneLoop
  BY DEF Control, CControl
<1> QED BY <1>1, ControlHolds, PTL

\* When nobody reads a live session's connection any more, a resume is under way or wake
\* will start one (reader_task, link_lost, stand_down).
THEOREM AlwaysLookedAfter == Spec => []NoOrphan
<1>1. Control => NoOrphan
  BY DEF Control, CControl
<1> QED BY <1>1, ControlHolds, PTL

\* link-state says `reconnecting` only while resume_loop runs.
THEOREM ResumingIsWork == Spec => []ResumingHasLoop
<1>1. Control => ResumingHasLoop
  BY DEF Control, CControl
<1> QED BY <1>1, ControlHolds, PTL

\* A live attached session has exactly one current reader [D], and it is the one of the
\* connection that a supersede or a park would close (attach, park, pump_client_reader).
THEOREM AttachedIsRead == Spec => []AttachedHasReader
<1>1. Control => AttachedHasReader
  BY DEF Control, LControl, LQuiet
<1> QED BY <1>1, ControlHolds, PTL

\* A session that is parked has its own grace timer running, and a grace to park for.
THEOREM ParkedIsTimed == Spec => []ParkedHasTimer
<1>1. Control => ParkedHasTimer
  BY DEF Control, LControl, LQuiet
<1> QED BY <1>1, ControlHolds, PTL
=============================================================================
