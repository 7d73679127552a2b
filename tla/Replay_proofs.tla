---------------------------- MODULE Replay_proofs ----------------------------
(***************************************************************************)
(* What the methods of Replay preserve, stated over the stream their owner *)
(* has sent: lemmas for every module that keeps a Replay.                  *)
(***************************************************************************)
EXTENDS Replay, SequenceTheorems, TLAPS

ReplayType(S) == [sent_total : Nat, acked : Nat, buf : Seq(S), overflowed : BOOLEAN]

\* The end of a sequence: its type, its length and its elements.
LEMMA LastNProperties ==
  ASSUME NEW S, NEW s \in Seq(S), NEW n \in Nat, n <= Len(s)
  PROVE  /\ LastN(s, n) \in Seq(S)
         /\ Len(LastN(s, n)) = n
         /\ \A i \in 1..n : LastN(s, n)[i] = s[Len(s) - n + i]
<1>1. Len(s) \in Nat
  BY LenProperties
<1>2. \A i \in (Len(s) - n + 1)..Len(s) : s[i] \in S
  BY <1>1, ElementOfSeq
<1>3. /\ SubSeq(s, Len(s) - n + 1, Len(s)) \in Seq(S)
      /\ Len(SubSeq(s, Len(s) - n + 1, Len(s)))
           = IF Len(s) - n + 1 <= Len(s) THEN Len(s) - (Len(s) - n + 1) + 1 ELSE 0
      /\ \A i \in 1..(Len(s) - (Len(s) - n + 1) + 1) :
           SubSeq(s, Len(s) - n + 1, Len(s))[i] = s[Len(s) - n + 1 + i - 1]
  <2>1. Len(s) - n + 1 \in Int /\ Len(s) \in Int
    BY <1>1
  <2>2. QED
    BY <1>2, <2>1, SubSeqProperties
<1>4. QED
  BY <1>1, <1>3 DEF LastN

\* The end of an end is an end.
LEMMA LastNOfLastN ==
  ASSUME NEW S, NEW s \in Seq(S), NEW n \in Nat, NEW m \in Nat,
         m <= n, n <= Len(s)
  PROVE  LastN(LastN(s, n), m) = LastN(s, m)
<1>1. Len(s) \in Nat
  BY LenProperties
<1>2. /\ LastN(s, n) \in Seq(S)
      /\ Len(LastN(s, n)) = n
      /\ \A i \in 1..n : LastN(s, n)[i] = s[Len(s) - n + i]
  BY LastNProperties
<1>3. /\ LastN(LastN(s, n), m) \in Seq(S)
      /\ Len(LastN(LastN(s, n), m)) = m
      /\ \A i \in 1..m : LastN(LastN(s, n), m)[i] = LastN(s, n)[n - m + i]
  <2> DEFINE u == LastN(s, n)
  <2>1. u \in Seq(S) /\ Len(u) = n /\ m <= Len(u)
    BY <1>2
  <2> HIDE DEF u
  <2>2. /\ LastN(u, m) \in Seq(S)
        /\ Len(LastN(u, m)) = m
        /\ \A i \in 1..m : LastN(u, m)[i] = u[Len(u) - m + i]
    BY <2>1, LastNProperties
  <2>3. QED
    BY <2>1, <2>2 DEF u
<1>4. m <= Len(s)
  BY <1>1
<1>5. /\ LastN(s, m) \in Seq(S)
      /\ Len(LastN(s, m)) = m
      /\ \A i \in 1..m : LastN(s, m)[i] = s[Len(s) - m + i]
  BY <1>4, LastNProperties
<1>6. ASSUME NEW i \in 1..m
      PROVE  LastN(LastN(s, n), m)[i] = LastN(s, m)[i]
  <2>1. n - m + i \in 1..n
    OBVIOUS
  <2>2. LastN(s, n)[n - m + i] = s[Len(s) - n + (n - m + i)]
    BY <1>2, <2>1
  <2>3. Len(s) - n + (n - m + i) = Len(s) - m + i
    BY <1>1
  <2>4. QED
    BY <1>3, <1>5, <2>2, <2>3
<1>7. QED
  BY <1>3, <1>5, <1>6, SeqEqual

\* Appending to an end gives an end of the longer sequence.
LEMMA LastNConcat ==
  ASSUME NEW S, NEW s \in Seq(S), NEW t \in Seq(S), NEW n \in Nat, n <= Len(s)
  PROVE  LastN(s, n) \o t = LastN(s \o t, n + Len(t))
<1>1. Len(s) \in Nat /\ Len(t) \in Nat
  BY LenProperties
<1>2. /\ LastN(s, n) \in Seq(S)
      /\ Len(LastN(s, n)) = n
      /\ \A i \in 1..n : LastN(s, n)[i] = s[Len(s) - n + i]
  BY LastNProperties
<1>3. /\ LastN(s, n) \o t \in Seq(S)
      /\ Len(LastN(s, n) \o t) = n + Len(t)
      /\ \A i \in 1..(n + Len(t)) :
           (LastN(s, n) \o t)[i] = IF i <= n THEN LastN(s, n)[i] ELSE t[i - n]
  <2> DEFINE u == LastN(s, n)
  <2>1. u \in Seq(S) /\ Len(u) = n
    BY <1>2
  <2> HIDE DEF u
  <2>2. /\ u \o t \in Seq(S)
        /\ Len(u \o t) = Len(u) + Len(t)
        /\ \A i \in 1..(Len(u) + Len(t)) :
             (u \o t)[i] = IF i <= Len(u) THEN u[i] ELSE t[i - Len(u)]
    BY <2>1, ConcatProperties
  <2>3. QED
    BY <2>1, <2>2 DEF u
<1>4. /\ s \o t \in Seq(S)
      /\ Len(s \o t) = Len(s) + Len(t)
      /\ \A i \in 1..(Len(s) + Len(t)) :
           (s \o t)[i] = IF i <= Len(s) THEN s[i] ELSE t[i - Len(s)]
  BY ConcatProperties
<1>5. n + Len(t) \in Nat /\ n + Len(t) <= Len(s \o t)
  BY <1>1, <1>4
<1>6. /\ LastN(s \o t, n + Len(t)) \in Seq(S)
      /\ Len(LastN(s \o t, n + Len(t))) = n + Len(t)
      /\ \A i \in 1..(n + Len(t)) : LastN(s \o t, n + Len(t))[i]
                                      = (s \o t)[Len(s \o t) - (n + Len(t)) + i]
  <2> DEFINE u == s \o t
  <2> DEFINE k == n + Len(t)
  <2>1. u \in Seq(S) /\ k \in Nat /\ k <= Len(u)
    BY <1>4, <1>5
  <2> HIDE DEF u, k
  <2>2. /\ LastN(u, k) \in Seq(S)
        /\ Len(LastN(u, k)) = k
        /\ \A i \in 1..k : LastN(u, k)[i] = u[Len(u) - k + i]
    BY <2>1, LastNProperties
  <2>3. QED
    BY <2>2 DEF u, k
<1>7. ASSUME NEW i \in 1..(n + Len(t))
      PROVE  (LastN(s, n) \o t)[i] = LastN(s \o t, n + Len(t))[i]
  <2>1. LastN(s \o t, n + Len(t))[i] = (s \o t)[Len(s) - n + i]
    <3>1. Len(s \o t) - (n + Len(t)) + i = Len(s) - n + i
      BY <1>1, <1>4
    <3>2. QED
      BY <1>6, <3>1
  <2>2. Len(s) - n + i \in 1..(Len(s) + Len(t))
    BY <1>1
  <2>3. CASE i <= n
    <3>1. Len(s) - n + i <= Len(s)
      BY <1>1, <2>3
    <3>2. i \in 1..n
      BY <2>3, <1>1
    <3>3. QED
      BY <1>2, <1>3, <1>4, <2>1, <2>2, <2>3, <3>1, <3>2
  <2>4. CASE ~(i <= n)
    <3>1. ~(Len(s) - n + i <= Len(s)) /\ Len(s) - n + i - Len(s) = i - n
      BY <1>1, <2>4
    <3>2. QED
      BY <1>3, <1>4, <2>1, <2>2, <2>4, <3>1
  <2>5. QED
    BY <2>3, <2>4
<1>8. QED
  BY <1>3, <1>6, <1>7, SeqEqual

\* `sent` keeps the buffer an end of the stream, the payload included, however
\* much of it the cap throws away.
LEMMA SentKeepsReplayOf ==
  ASSUME NEW S, NEW r \in ReplayType(S), NEW stream \in Seq(S), NEW p \in Seq(S),
         ReplayOf(r, stream)
  PROVE  Sent(r, p) \in ReplayType(S) /\ ReplayOf(Sent(r, p), stream \o p)
<1> DEFINE whole == r.buf \o p
           all   == stream \o p
           k     == Smaller(Len(whole), REPLAY_CAP)
<1>1. /\ r.buf \in Seq(S) /\ r.sent_total \in Nat /\ r.acked \in Nat
      /\ r.overflowed \in BOOLEAN
      /\ Len(r.buf) \in Nat /\ Len(p) \in Nat /\ Len(stream) \in Nat
      /\ REPLAY_CAP \in Nat
  BY LenProperties, ReplayCapAssumption DEF ReplayType
<1>2. whole \in Seq(S) /\ Len(whole) = Len(r.buf) + Len(p)
  BY <1>1, ConcatProperties
<1>3. all \in Seq(S) /\ Len(all) = Len(stream) + Len(p)
  BY ConcatProperties
<1>4. whole = LastN(all, Len(whole))
  <2>1. r.buf = LastN(stream, Len(r.buf)) /\ Len(r.buf) <= Len(stream)
    BY DEF ReplayOf
  <2>2. LastN(stream, Len(r.buf)) \o p = LastN(all, Len(r.buf) + Len(p))
    BY <1>1, <2>1, LastNConcat
  <2>3. QED
    BY <1>2, <2>1, <2>2
<1>5. k \in Nat /\ k <= Len(whole) /\ k <= REPLAY_CAP /\ Len(whole) <= Len(all)
  BY <1>1, <1>2, <1>3 DEF Smaller, ReplayOf
<1>6. LastN(whole, k) \in Seq(S) /\ Len(LastN(whole, k)) = k
  <2> HIDE DEF whole, k
  <2> QED BY <1>2, <1>5, LastNProperties
<1>7. LastN(whole, k) = LastN(all, k)
  <2>1. LastN(LastN(all, Len(whole)), k) = LastN(all, k)
    <3>1. Len(whole) \in Nat
      BY <1>1, <1>2
    <3> HIDE DEF whole, k, all
    <3> QED BY <1>3, <1>5, <3>1, LastNOfLastN
  <2>2. QED
    BY <1>4, <2>1
<1>8. Len(whole) <= REPLAY_CAP => k = Len(whole)
  BY <1>1, <1>2 DEF Smaller
<1>9. /\ Sent(r, p).sent_total = r.sent_total + Len(p)
      /\ Sent(r, p).acked = r.acked
      /\ Sent(r, p).buf = LastN(whole, k)
      /\ Sent(r, p).overflowed = (r.overflowed \/ Len(whole) > REPLAY_CAP)
  BY DEF Sent
<1>10. Sent(r, p) \in ReplayType(S)
  <2>1. r.sent_total + Len(p) \in Nat
    BY <1>1
  <2>2. (r.overflowed \/ Len(whole) > REPLAY_CAP) \in BOOLEAN
    OBVIOUS
  <2> HIDE DEF whole, k
  <2> QED BY <1>1, <1>6, <2>1, <2>2 DEF Sent, ReplayType, whole, k
<1>11. ReplayOf(Sent(r, p), all)
  <2>1. /\ Sent(r, p).sent_total = Len(all)
        /\ Sent(r, p).acked <= Sent(r, p).sent_total
    BY <1>1, <1>3, <1>9 DEF ReplayOf
  <2>2. /\ Len(Sent(r, p).buf) <= Len(all)
        /\ Len(Sent(r, p).buf) <= REPLAY_CAP
        /\ Sent(r, p).buf = LastN(all, Len(Sent(r, p).buf))
    <3> HIDE DEF whole, k, all
    <3> QED BY <1>1, <1>3, <1>5, <1>6, <1>7, <1>9, LenProperties
  <2>3. ASSUME ~Sent(r, p).overflowed
        PROVE  Len(Sent(r, p).buf) = Sent(r, p).sent_total - Sent(r, p).acked
    <3>1. ~r.overflowed /\ ~(Len(whole) > REPLAY_CAP)
      BY <1>9, <2>3
    <3>2. k = Len(whole)
      BY <1>1, <1>2, <1>8, <3>1
    <3>3. Len(r.buf) = r.sent_total - r.acked
      BY <3>1 DEF ReplayOf
    <3> HIDE DEF whole, k
    <3> QED BY <1>1, <1>2, <1>6, <1>9, <3>2, <3>3
  <2> HIDE DEF all
  <2> QED BY <2>1, <2>2, <2>3 DEF ReplayOf
<1> QED BY <1>10, <1>11

\* Both methods return a Replay whatever the stream: the drops never exceed the
\* buffer, so neither `drain` nor a slice can be out of range.
LEMMA SentType ==
  ASSUME NEW S, NEW r \in ReplayType(S), NEW p \in Seq(S)
  PROVE  Sent(r, p) \in ReplayType(S)
<1> DEFINE whole == r.buf \o p
           k     == Smaller(Len(whole), REPLAY_CAP)
<1>1. /\ r.buf \in Seq(S) /\ r.sent_total \in Nat /\ r.acked \in Nat
      /\ r.overflowed \in BOOLEAN /\ REPLAY_CAP \in Nat /\ Len(p) \in Nat
  BY LenProperties, ReplayCapAssumption DEF ReplayType
<1>2. whole \in Seq(S) /\ Len(whole) \in Nat
  BY <1>1, ConcatProperties, LenProperties
<1>3. k \in Nat /\ k <= Len(whole)
  BY <1>1, <1>2 DEF Smaller
<1>4. Sent(r, p) = [sent_total |-> r.sent_total + Len(p), acked |-> r.acked,
                    buf |-> LastN(whole, k),
                    overflowed |-> r.overflowed \/ Len(whole) > REPLAY_CAP]
  BY DEF Sent
<1> HIDE DEF whole, k
<1>5. LastN(whole, k) \in Seq(S)
  BY <1>2, <1>3, LastNProperties
<1> QED BY <1>1, <1>4, <1>5 DEF ReplayType

LEMMA AckType ==
  ASSUME NEW S, NEW r \in ReplayType(S), NEW n \in Nat
  PROVE  /\ Ack(r, n) \in ReplayType(S)
         /\ Ack(r, n).sent_total = r.sent_total
         /\ Ack(r, n).acked = IF n <= r.acked \/ n > r.sent_total THEN r.acked ELSE n
<1>1. r.buf \in Seq(S) /\ r.sent_total \in Nat /\ r.acked \in Nat /\ r.overflowed \in BOOLEAN
      /\ Len(r.buf) \in Nat
  BY LenProperties DEF ReplayType
<1>2. CASE n <= r.acked \/ n > r.sent_total
  BY <1>2 DEF Ack
<1>3. CASE ~(n <= r.acked \/ n > r.sent_total)
  <2> DEFINE k == Len(r.buf) - Smaller(n - r.acked, Len(r.buf))
  <2>1. k \in Nat /\ k <= Len(r.buf)
    BY <1>1, <1>3 DEF Smaller
  <2>2. Ack(r, n) = [sent_total |-> r.sent_total, acked |-> n,
                     buf |-> LastN(r.buf, k), overflowed |-> r.overflowed]
    BY <1>3 DEF Ack
  <2> HIDE DEF k
  <2>3. LastN(r.buf, k) \in Seq(S)
    BY <1>1, <2>1, LastNProperties
  <2> QED BY <1>1, <1>3, <2>2, <2>3 DEF ReplayType
<1> QED BY <1>2, <1>3

LEMMA TailFromType ==
  ASSUME NEW S, NEW r \in ReplayType(S), NEW n \in Nat, HasTail(r, n)
  PROVE  TailFrom(r, n) \in Seq(S)
<1> DEFINE k == r.sent_total - n
<1>1. r.buf \in Seq(S) /\ r.sent_total \in Nat /\ Len(r.buf) \in Nat
  BY LenProperties DEF ReplayType
<1>2. k \in Nat /\ k <= Len(r.buf)
  BY <1>1 DEF HasTail
<1>3. TailFrom(r, n) = LastN(r.buf, k)
  BY DEF TailFrom
<1> HIDE DEF k
<1> QED BY <1>1, <1>2, <1>3, LastNProperties

\* `ack` keeps the buffer an end of the stream, whatever count it is given.
LEMMA AckKeepsReplayOf ==
  ASSUME NEW S, NEW r \in ReplayType(S), NEW stream \in Seq(S), NEW n \in Nat,
         ReplayOf(r, stream)
  PROVE  Ack(r, n) \in ReplayType(S) /\ ReplayOf(Ack(r, n), stream)
<1>1. /\ r.buf \in Seq(S) /\ r.sent_total \in Nat /\ r.acked \in Nat
      /\ r.overflowed \in BOOLEAN
      /\ Len(r.buf) \in Nat /\ Len(stream) \in Nat /\ REPLAY_CAP \in Nat
  BY LenProperties, ReplayCapAssumption DEF ReplayType
<1>2. CASE n <= r.acked \/ n > r.sent_total
  BY <1>2 DEF Ack
<1>3. CASE ~(n <= r.acked \/ n > r.sent_total)
  <2> DEFINE k == Len(r.buf) - Smaller(n - r.acked, Len(r.buf))
  <2>1. k \in Nat /\ k <= Len(r.buf)
    BY <1>1, <1>3 DEF Smaller
  <2>2. LastN(r.buf, k) \in Seq(S) /\ Len(LastN(r.buf, k)) = k
    <3> HIDE DEF k
    <3> QED BY <1>1, <2>1, LastNProperties
  <2>3. LastN(r.buf, k) = LastN(stream, k)
    <3>1. r.buf = LastN(stream, Len(r.buf)) /\ Len(r.buf) <= Len(stream)
      BY DEF ReplayOf
    <3>2. LastN(LastN(stream, Len(r.buf)), k) = LastN(stream, k)
      <4> HIDE DEF k
      <4> QED BY <1>1, <2>1, <3>1, LastNOfLastN
    <3> QED BY <3>1, <3>2
  <2>4. Ack(r, n) = [sent_total |-> r.sent_total, acked |-> n,
                     buf |-> LastN(r.buf, k), overflowed |-> r.overflowed]
    BY <1>3 DEF Ack
  <2>5. r.acked < n /\ n <= r.sent_total
    BY <1>1, <1>3
  <2>6. ~r.overflowed => k = r.sent_total - n
    BY <1>1, <2>5 DEF ReplayOf, Smaller
  <2>7. /\ r.sent_total = Len(stream) /\ Len(r.buf) <= Len(stream)
        /\ Len(r.buf) <= REPLAY_CAP
    BY DEF ReplayOf
  <2>8. k <= Len(stream) /\ k <= REPLAY_CAP
    BY <1>1, <2>1, <2>7
  <2> HIDE DEF k
  <2>9. Ack(r, n) \in ReplayType(S)
    BY <1>1, <2>2, <2>4 DEF ReplayType
  <2>10. ReplayOf(Ack(r, n), stream)
    BY <1>1, <2>2, <2>3, <2>4, <2>5, <2>6, <2>7, <2>8 DEF ReplayOf
  <2> QED BY <2>9, <2>10
<1> QED BY <1>2, <1>3

\* `tail_from` returns exactly the bytes of the stream after the peer's count.
LEMMA TailFromExact ==
  ASSUME NEW S, NEW r \in ReplayType(S), NEW stream \in Seq(S), NEW n \in Nat,
         ReplayOf(r, stream), HasTail(r, n)
  PROVE  /\ n <= Len(stream)
         /\ TailFrom(r, n) = SubSeq(stream, n + 1, Len(stream))
<1>1. /\ r.buf \in Seq(S) /\ r.sent_total \in Nat
      /\ Len(r.buf) \in Nat /\ Len(stream) \in Nat
  BY LenProperties DEF ReplayType
<1>2. /\ r.sent_total = Len(stream) /\ n <= Len(stream)
      /\ Len(stream) - n <= Len(r.buf) /\ Len(r.buf) <= Len(stream)
      /\ r.buf = LastN(stream, Len(r.buf))
  BY DEF ReplayOf, HasTail
<1> DEFINE m == Len(stream) - n
<1>3. m \in Nat /\ m <= Len(r.buf)
  BY <1>1, <1>2
<1>4. LastN(LastN(stream, Len(r.buf)), m) = LastN(stream, m)
  <2> HIDE DEF m
  <2> QED BY <1>1, <1>2, <1>3, LastNOfLastN
<1>5. TailFrom(r, n) = LastN(stream, m)
  BY <1>2, <1>4 DEF TailFrom
<1>6. Len(stream) - m + 1 = n + 1
  BY <1>1
<1> QED BY <1>2, <1>5, <1>6 DEF LastN
=============================================================================
