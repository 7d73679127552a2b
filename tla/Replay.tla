------------------------------- MODULE Replay -------------------------------
(***************************************************************************)
(* One direction's replay bookkeeping of the wosh tunnel                   *)
(* (tunnel/src/lib.rs, struct Replay): the bytes handed to the peer and    *)
(* not yet acknowledged, and the two counters the ACK frames and the       *)
(* resume handshake speak in.  Both the browser client and the listener    *)
(* keep one.  The operators are pure: a Replay is a record, and a method   *)
(* that mutates self returns the new record.                               *)
(***************************************************************************)
EXTENDS Integers, Sequences

CONSTANT REPLAY_CAP   \* how many unacknowledged bytes a Replay keeps

ASSUME ReplayCapAssumption == REPLAY_CAP \in Nat

Smaller(a, b) == IF a <= b THEN a ELSE b

\* The last n elements of s.
LastN(s, n) == SubSeq(s, Len(s) - n + 1, Len(s))

\* Replay::new
NewReplay == [sent_total |-> 0, acked |-> 0, buf |-> <<>>, overflowed |-> FALSE]

\* Mutants of Sent and Ack: an overflow drops the newest bytes; an acknowledgement
\* trims the wrong end.
SentDropsNewest(r, payload) ==
  LET whole == r.buf \o payload
  IN  [sent_total |-> r.sent_total + Len(payload), acked |-> r.acked,
       buf |-> SubSeq(whole, 1, Smaller(Len(whole), REPLAY_CAP)),
       overflowed |-> r.overflowed \/ Len(whole) > REPLAY_CAP]
AckTrimsNewest(r, received) ==
  IF received <= r.acked \/ received > r.sent_total
  THEN r
  ELSE LET drop == Smaller(received - r.acked, Len(r.buf))
       IN  [r EXCEPT !.acked = received, !.buf = SubSeq(r.buf, 1, Len(r.buf) - drop)]

\* Replay::sent: count and keep the payload; past the cap the oldest bytes
\* are dropped and the loss is remembered for good.
Sent(r, payload) ==
  LET whole == r.buf \o payload
  IN  [sent_total |-> r.sent_total + Len(payload),
       acked      |-> r.acked,
       buf        |-> LastN(whole, Smaller(Len(whole), REPLAY_CAP)),
       overflowed |-> r.overflowed \/ Len(whole) > REPLAY_CAP]

\* Replay::ack: acknowledgements are cumulative; a stale or a nonsensical
\* one is ignored, and the drain never asks for more than is there.
Ack(r, received) ==
  IF received <= r.acked \/ received > r.sent_total
  THEN r
  ELSE LET drop == Smaller(received - r.acked, Len(r.buf))
       IN  [sent_total |-> r.sent_total,
            acked      |-> received,
            buf        |-> LastN(r.buf, Len(r.buf) - drop),
            overflowed |-> r.overflowed]

\* Replay::tail_from is Some(_): the peer's count lies within what is buffered.
HasTail(r, received) ==
  /\ received <= r.sent_total
  /\ r.sent_total - received <= Len(r.buf)

\* Replay::tail_from, the bytes to retransmit when HasTail(r, received).
TailFrom(r, received) == LastN(r.buf, r.sent_total - received)
-----------------------------------------------------------------------------
\* What a Replay is, in terms of the stream its owner has sent so far: always
\* the end of that stream, and all of its unacknowledged part until an overflow.
ReplayOf(r, stream) ==
  /\ r.sent_total = Len(stream)
  /\ r.acked <= r.sent_total
  /\ Len(r.buf) <= Len(stream)
  /\ Len(r.buf) <= REPLAY_CAP
  /\ r.buf = LastN(stream, Len(r.buf))
  /\ ~r.overflowed => Len(r.buf) = r.sent_total - r.acked
=============================================================================
