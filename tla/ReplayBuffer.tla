---------------------------- MODULE ReplayBuffer ----------------------------
(***************************************************************************)
(* A Replay driven by any interleaving of the calls its two owners make:   *)
(* `sent` for every payload put on the wire, `ack` for whatever count an   *)
(* ACK frame or a resume handshake carries -- stale, repeated and          *)
(* nonsensical counts included.  The history variable `stream` is what     *)
(* the properties compare the buffer with: every byte ever sent.           *)
(***************************************************************************)
EXTENDS Replay

CONSTANTS Byte,      \* the bytes of the stream
          Payloads,  \* the payloads one call of `sent` may carry
          MaxSent    \* bound: how long the stream may grow

ASSUME PayloadsAssumption == Payloads \subseteq Seq(Byte)
ASSUME MaxSentAssumption == MaxSent \in Nat

VARIABLES replay,    \* the Replay
          stream     \* history: every byte handed to `sent`

rvars == <<replay, stream>>

RInit ==
  /\ replay = NewReplay
  /\ stream = <<>>

\* A payload goes out.
Send(p) ==
  /\ Len(stream) + Len(p) <= MaxSent
  /\ replay' = Sent(replay, p)
  /\ stream' = stream \o p

\* A cumulative count arrives from the peer; nothing vouches for it.
Acked(n) ==
  /\ replay' = Ack(replay, n)
  /\ UNCHANGED stream

RNext == \/ \E p \in Payloads : Send(p)
        \/ \E n \in 0..(MaxSent + 1) : Acked(n)

RSpec == RInit /\ [][RNext]_rvars
-----------------------------------------------------------------------------
\* The types of the record's fields.
ReplayTypeOK ==
  /\ replay \in [sent_total : Nat, acked : Nat, buf : Seq(Byte), overflowed : BOOLEAN]
  /\ stream \in Seq(Byte)

\* tail_from either refuses or returns exactly the bytes after the peer's
\* count, for every count a peer may claim: also after an overflow, after
\* acks past the buffer, and for counts that were never acknowledged.
TailExact ==
  \A n \in 0..(MaxSent + 1) :
    HasTail(replay, n) =>
      /\ n <= Len(stream)
      /\ TailFrom(replay, n) = SubSeq(stream, n + 1, Len(stream))

\* As long as nothing overflowed, no honest peer is ever refused: every
\* count from the last acknowledged one up to everything sent has its tail.
HonestPeerServed ==
  ~replay.overflowed =>
    \A n \in replay.acked..replay.sent_total : HasTail(replay, n)

\* The buffer never outgrows REPLAY_CAP, and a byte is missing from it only
\* because it was acknowledged or because `overflowed` says so.
Bounded ==
  /\ Len(replay.buf) <= REPLAY_CAP
  /\ Len(replay.buf) < replay.sent_total - replay.acked => replay.overflowed

\* Counters only grow and an overflow is never forgotten: resumability once
\* lost is not silently regained by later acknowledgements.
Monotone ==
  [][/\ replay'.sent_total >= replay.sent_total
     /\ replay'.acked >= replay.acked
     /\ replay'.acked <= replay'.sent_total
     /\ replay.overflowed => replay'.overflowed]_rvars

-----------------------------------------------------------------------------
\* The inductive invariant of the proofs: the buffer is the end of the stream,
\* whatever the order of the calls, and its length tells what was trimmed.
IndInv == ReplayTypeOK /\ ReplayOf(replay, stream)
=============================================================================
