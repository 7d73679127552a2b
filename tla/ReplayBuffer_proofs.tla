------------------------- MODULE ReplayBuffer_proofs -------------------------
(***************************************************************************)
(* The properties of ReplayBuffer for every alphabet, payload set, cap and *)
(* stream length.  The inductive invariant says what the buffer is -- an   *)
(* end of the stream -- and the rest follows from it.                      *)
(***************************************************************************)
EXTENDS ReplayBuffer, Replay_proofs

LEMMA InitIndInv == RInit => IndInv
<1> SUFFICES ASSUME RInit PROVE IndInv
  OBVIOUS
<1>1. stream = <<>> /\ replay = NewReplay /\ <<>> \in Seq(Byte) /\ Len(<<>>) = 0
  BY EmptySeq DEF RInit
<1>2. ReplayTypeOK
  BY <1>1 DEF ReplayTypeOK, NewReplay
<1>3. <<>> = LastN(<<>>, 0)
  <2>1. SubSeq(<<>>, 1, 0) = <<>>
    BY SubSeqEmpty
  <2>2. QED
    BY <1>1, <2>1 DEF LastN
<1>4. ReplayOf(replay, stream)
  BY <1>1, <1>3, ReplayCapAssumption DEF ReplayOf, NewReplay
<1> QED BY <1>2, <1>4 DEF IndInv

LEMMA NextIndInv == IndInv /\ [RNext]_rvars => IndInv'
<1> SUFFICES ASSUME IndInv, [RNext]_rvars PROVE IndInv'
  OBVIOUS
<1>0. replay \in ReplayType(Byte) /\ stream \in Seq(Byte) /\ ReplayOf(replay, stream)
  BY DEF IndInv, ReplayTypeOK, ReplayType
<1>1. ASSUME NEW p \in Payloads, Send(p) PROVE IndInv'
  <2>1. p \in Seq(Byte)
    BY PayloadsAssumption
  <2>2. replay' = Sent(replay, p) /\ stream' = stream \o p
    BY <1>1 DEF Send
  <2>3. stream \o p \in Seq(Byte)
    BY <1>0, <2>1, ConcatProperties
  <2>4. replay' \in ReplayType(Byte) /\ ReplayOf(replay', stream')
    BY <1>0, <2>1, <2>2, SentKeepsReplayOf
  <2> QED BY <2>2, <2>3, <2>4 DEF IndInv, ReplayTypeOK, ReplayType, ReplayOf
<1>2. ASSUME NEW n \in 0..(MaxSent + 1), Acked(n) PROVE IndInv'
  <2>1. n \in Nat
    BY MaxSentAssumption
  <2>2. replay' = Ack(replay, n) /\ stream' = stream
    BY <1>2 DEF Acked
  <2>3. replay' \in ReplayType(Byte) /\ ReplayOf(replay', stream')
    BY <1>0, <2>1, <2>2, AckKeepsReplayOf
  <2> QED BY <1>0, <2>2, <2>3 DEF IndInv, ReplayTypeOK, ReplayType, ReplayOf
<1>3. CASE UNCHANGED rvars
  BY <1>3 DEF rvars, IndInv, ReplayTypeOK, ReplayOf
<1> QED BY <1>1, <1>2, <1>3 DEF RNext

\* Whatever the order of sends and acknowledgements, the Replay is the end of
\* the stream that its length and counters claim it to be.
THEOREM ReplayInvariant == RSpec => []IndInv
<1>1. RInit => IndInv
  BY InitIndInv
<1>2. IndInv /\ [RNext]_rvars => IndInv'
  BY NextIndInv
<1> QED BY <1>1, <1>2, PTL DEF RSpec

\* A resume that tail_from does not refuse retransmits exactly the bytes the
\* peer misses -- no byte lost, none repeated -- for every claimed count.
THEOREM ReplayTailExact == RSpec => []TailExact
<1>1. IndInv => TailExact
  <2> SUFFICES ASSUME IndInv, NEW n \in 0..(MaxSent + 1), HasTail(replay, n)
               PROVE  /\ n <= Len(stream)
                      /\ TailFrom(replay, n) = SubSeq(stream, n + 1, Len(stream))
    BY DEF TailExact
  <2>1. n \in Nat
    BY MaxSentAssumption
  <2>2. replay \in ReplayType(Byte) /\ stream \in Seq(Byte) /\ ReplayOf(replay, stream)
    BY DEF IndInv, ReplayTypeOK, ReplayType
  <2> QED BY <2>1, <2>2, TailFromExact
<1> QED BY <1>1, ReplayInvariant, PTL

\* Without an overflow no count an honest peer can hold is refused.
THEOREM ReplayServesHonestPeers == RSpec => []HonestPeerServed
<1>1. IndInv => HonestPeerServed
  <2> SUFFICES ASSUME IndInv, ~replay.overflowed,
                      NEW n \in replay.acked..replay.sent_total
               PROVE  HasTail(replay, n)
    BY DEF HonestPeerServed
  <2>1. /\ replay.sent_total \in Nat /\ replay.acked \in Nat
        /\ Len(replay.buf) = replay.sent_total - replay.acked
    BY DEF IndInv, ReplayTypeOK, ReplayOf
  <2> QED BY <2>1 DEF HasTail
<1> QED BY <1>1, ReplayInvariant, PTL

\* The cap holds, and bytes are missing only if acknowledged or recorded lost.
THEOREM ReplayBounded == RSpec => []Bounded
<1>1. IndInv => Bounded
  <2> SUFFICES ASSUME IndInv PROVE Bounded
    OBVIOUS
  <2>1. /\ replay.sent_total \in Nat /\ replay.acked \in Nat
        /\ Len(replay.buf) <= REPLAY_CAP
        /\ ~replay.overflowed => Len(replay.buf) = replay.sent_total - replay.acked
    BY DEF IndInv, ReplayTypeOK, ReplayOf
  <2> QED BY <2>1 DEF Bounded
<1> QED BY <1>1, ReplayInvariant, PTL

\* The counters only grow and an overflow is never forgotten.
THEOREM ReplayMonotone == RSpec => Monotone
<1> DEFINE Step == /\ replay'.sent_total >= replay.sent_total
                   /\ replay'.acked >= replay.acked
                   /\ replay'.acked <= replay'.sent_total
                   /\ replay.overflowed => replay'.overflowed
<1>1. IndInv /\ [RNext]_rvars => [Step]_rvars
  <2> SUFFICES ASSUME IndInv, RNext PROVE Step
    BY DEF rvars
  <2>0. /\ replay.sent_total \in Nat /\ replay.acked \in Nat
        /\ replay.acked <= replay.sent_total
    BY DEF IndInv, ReplayTypeOK, ReplayOf
  <2>1. ASSUME NEW p \in Payloads, Send(p) PROVE Step
    <3>1. Len(p) \in Nat
      BY PayloadsAssumption, LenProperties
    <3>2. /\ replay'.sent_total = replay.sent_total + Len(p)
          /\ replay'.acked = replay.acked
          /\ replay.overflowed => replay'.overflowed
      BY <2>1 DEF Send, Sent
    <3> QED BY <2>0, <3>1, <3>2
  <2>2. ASSUME NEW n \in 0..(MaxSent + 1), Acked(n) PROVE Step
    <3>1. n \in Nat
      BY MaxSentAssumption
    <3> QED BY <2>0, <2>2, <3>1 DEF Acked, Ack
  <2> QED BY <2>1, <2>2 DEF RNext
<1> QED BY <1>1, ReplayInvariant, PTL DEF RSpec, Monotone
=============================================================================
