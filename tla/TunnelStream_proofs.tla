------------------------- MODULE TunnelStream_proofs -------------------------
(***************************************************************************)
(* The streams of the tunnel for every number of connections, losses and   *)
(* units: counts and acknowledgements, the shell's output and the typing.  *)
(***************************************************************************)
EXTENDS Tunnel_proofs

(* The units that frames carry.  Units folds over them by a recursive function;    *)
(* the provers have no induction over it, so it is made from least elements.       *)

\* g carries the units of the first n frames of q, and of every shorter beginning.
Carries(q, n, g) ==
  g = [i \in 0..n |-> IF i = 0 THEN <<>>
                      ELSE IF q[i].t = "data" THEN Append(g[i - 1], q[i].n) ELSE g[i - 1]]

LEMMA CarriesIs ==
  ASSUME NEW q, NEW n \in Nat, NEW g, Carries(q, n, g)
  PROVE  /\ DOMAIN g = 0..n /\ g[0] = <<>>
         /\ \A i \in 1..n : g[i] = IF q[i].t = "data" THEN Append(g[i - 1], q[i].n)
                                                      ELSE g[i - 1]
<1>1. g = [i \in 0..n |-> IF i = 0 THEN <<>>
                          ELSE IF q[i].t = "data" THEN Append(g[i - 1], q[i].n)
                                                  ELSE g[i - 1]]
  BY DEF Carries
<1>2. 0 \in 0..n /\ \A i \in 1..n : i \in 0..n /\ i # 0
  OBVIOUS
<1>3. g[0] = <<>>
  BY <1>1, <1>2
<1>4. ASSUME NEW i \in 1..n
      PROVE  g[i] = IF q[i].t = "data" THEN Append(g[i - 1], q[i].n) ELSE g[i - 1]
  BY <1>1, <1>2
<1>5. DOMAIN g = 0..n
  BY <1>1
<1> QED BY <1>3, <1>4, <1>5

\* Two sequences that begin alike carry the same units so far.
LEMMA CarriesSame ==
  ASSUME NEW q \in Seq(Frames), NEW r \in Seq(Frames), NEW n \in Nat,
         n <= Len(q), n <= Len(r), \A i \in 1..n : q[i] = r[i],
         NEW a \in Nat, NEW b \in Nat, n <= a, n <= b,
         NEW g, Carries(q, a, g), NEW k, Carries(r, b, k)
  PROVE  \A i \in 0..n : g[i] = k[i] /\ g[i] \in Seq(Nat)
<1> DEFINE T == {i \in 0..n : ~(g[i] = k[i] /\ g[i] \in Seq(Nat))}
<1> SUFFICES ASSUME T # {} PROVE FALSE
  OBVIOUS
<1>1. PICK m \in T : \A i \in T : m <= i
  <2>1. T \in SUBSET Nat
    OBVIOUS
  <2> HIDE DEF T
  <2> QED BY <2>1, LeastNatural
<1>2. m \in 0..n /\ ~(g[m] = k[m] /\ g[m] \in Seq(Nat))
  OBVIOUS
<1>3. m # 0
  <2>1. g[0] = <<>> /\ k[0] = <<>> /\ <<>> \in Seq(Nat)
    BY CarriesIs, EmptySeq
  <2> HIDE DEF T
  <2> QED BY <1>2, <2>1
<1>4. m - 1 \in 0..n /\ m - 1 \notin T /\ m \in 1..n /\ m \in 1..a /\ m \in 1..b
  BY <1>1, <1>2, <1>3
<1>5. g[m - 1] = k[m - 1] /\ g[m - 1] \in Seq(Nat)
  BY <1>4
<1> HIDE DEF T
<1>6. /\ g[m] = (IF q[m].t = "data" THEN Append(g[m - 1], q[m].n) ELSE g[m - 1])
      /\ k[m] = (IF r[m].t = "data" THEN Append(k[m - 1], r[m].n) ELSE k[m - 1])
  BY <1>4, CarriesIs
<1>7. q[m] = r[m] /\ q[m].n \in Nat
  <2>1. m \in 1..Len(q) /\ q[m] \in Frames
    BY <1>4, LenProperties, ElementOfSeq
  <2> QED BY <1>4, <2>1 DEF Frames
<1>8. Append(g[m - 1], q[m].n) \in Seq(Nat)
  BY <1>5, <1>7, AppendProperties
<1> QED BY <1>2, <1>5, <1>6, <1>7, <1>8

LEMMA CarriesExist ==
  ASSUME NEW q \in Seq(Frames), NEW n \in Nat, n <= Len(q)
  PROVE  \E g : Carries(q, n, g)
<1> DEFINE T == {i \in Nat : i <= Len(q) /\ ~\E g : Carries(q, i, g)}
<1>1. CASE T = {}
  BY <1>1
<1>2. CASE T # {}
  <2>1. PICK m \in T : \A i \in T : m <= i
    <3>1. T \in SUBSET Nat
      OBVIOUS
    <3> HIDE DEF T
    <3> QED BY <1>2, <3>1, LeastNatural
  <2>2. m \in Nat /\ m <= Len(q) /\ ~\E g : Carries(q, m, g)
    OBVIOUS
  <2>3. CASE m = 0
    <3> DEFINE g == [i \in 0..0 |-> <<>>]
    <3>1. Carries(q, 0, g)
      BY DEF Carries
    <3> QED BY <2>2, <2>3, <3>1
  <2>4. CASE m # 0
    <3> DEFINE l == m - 1
    <3>1. l \in Nat /\ l <= Len(q) /\ l \notin T /\ m = l + 1
      BY <2>1, <2>2, <2>4, LenProperties
    <3>2. PICK g : Carries(q, l, g)
      BY <3>1
    <3> HIDE DEF l, T
    <3> DEFINE e(i) == IF i = 0 THEN <<>>
                       ELSE IF q[i].t = "data" THEN Append(g[i - 1], q[i].n) ELSE g[i - 1]
               k == [i \in 0..m |-> e(i)]
    <3>3. \A i \in 0..l : i \in 0..m /\ k[i] = g[i]
      <4>1. \A i \in 0..l : i \in 0..m /\ k[i] = e(i)
        BY <3>1
      <4>2. g = [i \in 0..l |-> e(i)]
        BY <3>2 DEF Carries
      <4>3. \A i \in 0..l : g[i] = e(i)
        BY <4>2
      <4> QED BY <4>1, <4>3
    <3>4. \A i \in 0..m : e(i) = IF i = 0 THEN <<>>
                                 ELSE IF q[i].t = "data" THEN Append(k[i - 1], q[i].n)
                                                         ELSE k[i - 1]
      <4>1. \A i \in 0..m : i # 0 => i - 1 \in 0..l
        BY <3>1
      <4> HIDE DEF k
      <4> QED BY <3>3, <4>1
    <3>5. Carries(q, m, k)
      BY <3>4 DEF Carries
    <3> QED BY <2>2, <3>5
  <2> QED BY <2>3, <2>4
<1> QED BY <1>1, <1>2

LEMMA UnitsIs ==
  ASSUME NEW q \in Seq(Frames)
  PROVE  \E g : Carries(q, Len(q), g) /\ Units(q) = g[Len(q)]
<1> DEFINE k == CHOOSE k : Carries(q, Len(q), k)
<1>1. Len(q) \in Nat
  BY LenProperties
<1>2. \E g : Carries(q, Len(q), g)
  BY <1>1, CarriesExist
<1>3. Carries(q, Len(q), k)
  BY <1>2
<1>4. Units(q) = k[Len(q)]
  BY DEF Units, Carries
<1> QED BY <1>3, <1>4

LEMMA UnitsType ==
  ASSUME NEW q \in Seq(Frames)
  PROVE  Units(q) \in Seq(Nat)
<1>1. PICK g : Carries(q, Len(q), g) /\ Units(q) = g[Len(q)]
  BY UnitsIs
<1>2. Len(q) \in Nat /\ Len(q) \in 0..Len(q)
  BY LenProperties
<1> QED BY <1>1, <1>2, CarriesSame

LEMMA UnitsOfNone == Units(<<>>) = <<>>
<1>1. <<>> \in Seq(Frames) /\ Len(<<>>) = 0
  BY EmptySeq
<1>2. PICK g : Carries(<<>>, 0, g) /\ Units(<<>>) = g[0]
  BY <1>1, UnitsIs
<1> QED BY <1>2, CarriesIs

LEMMA UnitsOfAppend ==
  ASSUME NEW q \in Seq(Frames), NEW f \in Frames
  PROVE  Units(Append(q, f)) = IF f.t = "data" THEN Append(Units(q), f.n) ELSE Units(q)
<1> DEFINE r == Append(q, f)
           n == Len(q)
<1>1. /\ r \in Seq(Frames) /\ n \in Nat /\ Len(r) = n + 1 /\ r[n + 1] = f
      /\ \A i \in 1..n : q[i] = r[i]
  BY LenProperties, AppendProperties
<1>2. PICK g : Carries(q, n, g) /\ Units(q) = g[n]
  BY UnitsIs
<1>3. PICK k : Carries(r, n + 1, k) /\ Units(r) = k[n + 1]
  BY <1>1, UnitsIs
<1>9. /\ n <= Len(q) /\ n <= Len(r) /\ n + 1 \in Nat /\ n <= n /\ n <= n + 1 /\ q \in Seq(Frames)
  BY <1>1
<1> HIDE DEF r, n
<1>4. \A i \in 0..n : g[i] = k[i] /\ g[i] \in Seq(Nat)
  BY <1>1, <1>2, <1>3, <1>9, CarriesSame
<1>5. g[n] = k[n]
  BY <1>1, <1>4
<1>6. k[n + 1] = IF r[n + 1].t = "data" THEN Append(k[(n + 1) - 1], r[n + 1].n)
                                        ELSE k[(n + 1) - 1]
  BY <1>1, <1>3, CarriesIs
<1>7. (n + 1) - 1 = n
  BY <1>1
<1>8. Units(r) = IF f.t = "data" THEN Append(Units(q), f.n) ELSE Units(q)
  BY <1>1, <1>2, <1>3, <1>5, <1>6, <1>7
<1> QED BY <1>8 DEF r

LEMMA Associates ==
  ASSUME NEW a \in Seq(Nat), NEW b \in Seq(Nat), NEW c \in Seq(Nat)
  PROVE  (a \o b) \o c = a \o (b \o c)
BY ConcatAssociative

\* The units of what is sent after something else come after it.
LEMMA UnitsOfConcat ==
  ASSUME NEW q \in Seq(Frames), NEW r \in Seq(Frames)
  PROVE  Units(q \o r) = Units(q) \o Units(r)
<1> DEFINE T == {n \in Nat : \E x \in Seq(Frames) : Len(x) = n
                                 /\ Units(q \o x) # Units(q) \o Units(x)}
<1>1. CASE T = {}
  <2>1. Len(r) \in Nat /\ Len(r) \notin T
    BY <1>1, LenProperties
  <2> QED BY <2>1
<1>2. CASE T # {}
  <2>1. PICK m \in T : \A i \in T : m <= i
    <3>1. T \in SUBSET Nat
      OBVIOUS
    <3> HIDE DEF T
    <3> QED BY <1>2, <3>1, LeastNatural
  <2>2. PICK x \in Seq(Frames) : Len(x) = m /\ Units(q \o x) # Units(q) \o Units(x)
    OBVIOUS
  <2>3. x # <<>>
    <3>1. CASE x = <<>>
      <4>1. q \o x = q /\ Units(q) \o <<>> = Units(q)
        BY <3>1, ConcatEmptySeq, UnitsType
      <4> HIDE DEF T
      <4> QED BY <2>2, <3>1, <4>1, UnitsOfNone
    <3> QED BY <3>1
  <2>4. PICK y \in Seq(Frames), f \in Frames : x = Append(y, f)
    BY <2>3, SequenceEmptyOrAppend
  <2>5. Len(y) \in Nat /\ m = Len(y) + 1
    BY <2>2, <2>4, LenProperties, AppendProperties
  <2>6. Len(y) \notin T
    <3> HIDE DEF T
    <3> QED BY <2>1, <2>5
  <2>7. Units(q \o y) = Units(q) \o Units(y)
    BY <2>5, <2>6
  <2> HIDE DEF T
  <2>8. q \o x = Append(q \o y, f) /\ q \o y \in Seq(Frames)
    <3>1. /\ <<f>> \in Seq(Frames) /\ x = y \o <<f>> /\ q \o y \in Seq(Frames)
      BY <2>4, AppendIsConcat, ConcatProperties
    <3>2. q \o (y \o <<f>>) = (q \o y) \o <<f>>
      BY <3>1, ConcatAssociative
    <3>3. (q \o y) \o <<f>> = Append(q \o y, f)
      BY <3>1, AppendIsConcat
    <3> QED BY <3>1, <3>2, <3>3
  <2>9. f.n \in Nat /\ Units(q) \in Seq(Nat) /\ Units(y) \in Seq(Nat)
    BY UnitsType DEF Frames
  <2>10. CASE f.t # "data"
    BY <2>2, <2>4, <2>7, <2>8, <2>10, UnitsOfAppend
  <2>11. CASE f.t = "data"
    <3>1. /\ Units(x) = Append(Units(y), f.n)
          /\ Units(q \o x) = Append(Units(q) \o Units(y), f.n)
      BY <2>4, <2>7, <2>8, <2>11, UnitsOfAppend
    <3>2. <<f.n>> \in Seq(Nat) /\ Units(q) \o Units(y) \in Seq(Nat)
      BY <2>9, ConcatProperties
    <3>3. /\ Append(Units(y), f.n) = Units(y) \o <<f.n>>
          /\ Append(Units(q) \o Units(y), f.n) = (Units(q) \o Units(y)) \o <<f.n>>
      BY <2>9, <3>2, AppendIsConcat
    <3>4. (Units(q) \o Units(y)) \o <<f.n>> = Units(q) \o (Units(y) \o <<f.n>>)
      BY <2>9, <3>2, Associates
    <3> QED BY <2>2, <3>1, <3>3, <3>4
  <2> QED BY <2>10, <2>11
<1> QED BY <1>1, <1>2

\* A tail is what its frames carry.
LEMMA UnitsOfData ==
  ASSUME NEW t \in Seq(Nat)
  PROVE  Units(DataFrames(t)) = t
<1> DEFINE T == {n \in Nat : \E x \in Seq(Nat) : Len(x) = n /\ Units(DataFrames(x)) # x}
<1>1. CASE T = {}
  <2>1. Len(t) \in Nat /\ Len(t) \notin T
    BY <1>1, LenProperties
  <2> QED BY <2>1
<1>2. CASE T # {}
  <2>1. PICK m \in T : \A i \in T : m <= i
    <3>1. T \in SUBSET Nat
      OBVIOUS
    <3> HIDE DEF T
    <3> QED BY <1>2, <3>1, LeastNatural
  <2>2. PICK x \in Seq(Nat) : Len(x) = m /\ Units(DataFrames(x)) # x
    OBVIOUS
  <2>3. x # <<>>
    <3>1. CASE x = <<>>
      <4>1. DataFrames(x) \in Seq(Frames) /\ Len(DataFrames(x)) = 0
        BY <3>1, DataFramesType, EmptySeq
      <4>2. DataFrames(x) = <<>>
        BY <4>1, EmptySeq
      <4> HIDE DEF T
      <4> QED BY <2>2, <3>1, <4>2, UnitsOfNone
    <3> QED BY <3>1
  <2>4. PICK y \in Seq(Nat), u \in Nat : x = Append(y, u)
    BY <2>3, SequenceEmptyOrAppend
  <2>5. Len(y) \in Nat /\ m = Len(y) + 1
    BY <2>2, <2>4, LenProperties, AppendProperties
  <2>6. Len(y) \notin T
    <3> HIDE DEF T
    <3> QED BY <2>1, <2>5
  <2>7. Units(DataFrames(y)) = y
    BY <2>5, <2>6
  <2> HIDE DEF T
  <2>8. DataFrames(x) = Append(DataFrames(y), Frame("data", u))
    <3> DEFINE a == DataFrames(x)
               e == Append(DataFrames(y), Frame("data", u))
    <3>1. /\ a \in Seq(Frames) /\ Len(a) = Len(y) + 1
          /\ \A i \in 1..(Len(y) + 1) : a[i] = Frame("data", x[i])
      BY <2>2, <2>5, DataFramesType
    <3>2. /\ DataFrames(y) \in Seq(Frames) /\ Len(DataFrames(y)) = Len(y)
          /\ \A i \in 1..Len(y) : DataFrames(y)[i] = Frame("data", y[i])
          /\ Frame("data", u) \in Frames
      BY DataFramesType, FrameIs DEF FrameTypes
    <3>3. /\ e \in Seq(Frames) /\ Len(e) = Len(y) + 1
          /\ \A i \in 1..Len(y) : e[i] = Frame("data", y[i])
          /\ e[Len(y) + 1] = Frame("data", u)
      BY <3>2, AppendProperties
    <3>4. /\ \A i \in 1..Len(y) : x[i] = y[i]
          /\ x[Len(y) + 1] = u
      BY <2>4, AppendProperties
    <3> HIDE DEF a, e
    <3>5. \A i \in 1..(Len(y) + 1) : a[i] = e[i]
      <4>1. \A i \in 1..Len(y) : i \in 1..(Len(y) + 1) /\ a[i] = e[i]
        BY <2>5, <3>1, <3>3, <3>4
      <4>2. Len(y) + 1 \in 1..(Len(y) + 1)
        BY <2>5
      <4>4. a[Len(y) + 1] = Frame("data", x[Len(y) + 1])
        BY <3>1, <4>2
      <4>5. a[Len(y) + 1] = e[Len(y) + 1]
        BY <3>3, <3>4, <4>4
      <4>3. \A i \in 1..(Len(y) + 1) : i \in 1..Len(y) \/ i = Len(y) + 1
        BY <2>5
      <4> QED BY <4>1, <4>5, <4>3
    <3>6. a = e
      BY <3>1, <3>3, <3>5, SeqEqual
    <3> QED BY <3>6 DEF a, e
  <2>9. DataFrames(y) \in Seq(Frames) /\ Frame("data", u) \in Frames
        /\ Frame("data", u).t = "data" /\ Frame("data", u).n = u
    BY DataFramesType, FrameIs DEF FrameTypes
  <2>10. Units(DataFrames(x)) = Append(y, u)
    BY <2>7, <2>8, <2>9, UnitsOfAppend
  <2> QED BY <2>2, <2>4, <2>10
<1> QED BY <1>1, <1>2

\* What reading the first frame takes off.
LEMMA UnitsOfHead ==
  ASSUME NEW q \in Seq(Frames), q # <<>>
  PROVE  Units(q) = IF Head(q).t = "data" THEN <<Head(q).n>> \o Units(Tail(q))
                                          ELSE Units(Tail(q))
<1> DEFINE f == Head(q)
           r == Tail(q)
<1>1. f \in Frames /\ f.n \in Nat /\ r \in Seq(Frames) /\ <<f>> \in Seq(Frames)
  BY HeadFrames
<1>2. q = <<f>> \o r
  <2>1. /\ Len(r) = Len(q) - 1 /\ \A i \in 1..Len(r) : r[i] = q[i + 1]
        /\ Len(q) \in Nat /\ Len(r) \in Nat /\ f = q[1]
    BY <1>1, HeadTailProperties, LenProperties
  <2>2. /\ <<f>> \o r \in Seq(Frames) /\ Len(<<f>> \o r) = 1 + Len(r)
        /\ \A i \in 1..(1 + Len(r)) : (<<f>> \o r)[i] = IF i <= 1 THEN <<f>>[i] ELSE r[i - 1]
    BY <1>1, ConcatProperties
  <2> DEFINE w == <<f>> \o r
  <2>3. /\ w \in Seq(Frames) /\ Len(w) = Len(q)
        /\ \A i \in 1..Len(q) : w[i] = IF i <= 1 THEN f ELSE r[i - 1]
    BY <2>1, <2>2
  <2> HIDE DEF f, r, w
  <2>4. \A i \in 1..Len(q) : q[i] = w[i]
    BY <2>1, <2>3
  <2>5. q = w
    BY <2>3, <2>4, SeqEqual
  <2> QED BY <2>5 DEF w
<1> HIDE DEF f, r
<1>3. Units(q) = Units(<<f>>) \o Units(r)
  BY <1>1, <1>2, UnitsOfConcat
<1>4. Units(<<f>>) = IF f.t = "data" THEN <<f.n>> ELSE <<>>
  <2>1. <<>> \in Seq(Frames) /\ Append(<<>>, f) = <<f>> /\ Append(<<>>, f.n) = <<f.n>>
    BY EmptySeq
  <2>2. Units(Append(<<>>, f)) = IF f.t = "data" THEN Append(Units(<<>>), f.n) ELSE Units(<<>>)
    BY <1>1, <2>1, UnitsOfAppend
  <2> QED BY <2>1, <2>2, UnitsOfNone
<1>5. <<>> \o Units(r) = Units(r)
  BY <1>1, UnitsType, ConcatEmptySeq
<1>6. Units(q) = IF f.t = "data" THEN <<f.n>> \o Units(r) ELSE Units(r)
  BY <1>3, <1>4, <1>5
<1> QED BY <1>6 DEF f, r

\* One sequence is a prefix of another when something makes it the other.
LEMMA PrefixIs ==
  ASSUME NEW S, NEW s \in Seq(S), NEW t \in Seq(S)
  PROVE  Prefix(s, t) <=> \E r \in Seq(S) : t = s \o r
<1> DEFINE n == Len(s)
           m == Len(t)
<1>1. n \in Nat /\ m \in Nat
  BY LenProperties
<1>2. ASSUME Prefix(s, t) PROVE \E r \in Seq(S) : t = s \o r
  <2> DEFINE r == SubSeq(t, n + 1, m)
  <2>1. n <= m /\ s = SubSeq(t, 1, n)
    BY <1>2 DEF Prefix
  <2>2. r \in Seq(S)
    <3>1. \A i \in (n + 1)..m : t[i] \in S
      BY <1>1, ElementOfSeq
    <3> QED BY <1>1, <3>1, SubSeqProperties
  <2>3. SubSeq(t, 1, n) \o r = SubSeq(t, 1, m)
    <3>1. 1 \in 1..(Len(t) + 1) /\ n \in (1 - 1)..Len(t) /\ m \in n..Len(t)
      BY <1>1, <2>1
    <3> HIDE DEF n, m
    <3> QED BY <3>1, ConcatAdjacentSubSeq
  <2>4. SubSeq(t, 1, m) = t
    BY SubSeqFull
  <2> HIDE DEF r, n, m
  <2> QED BY <2>1, <2>2, <2>3, <2>4
<1>3. ASSUME NEW r \in Seq(S), t = s \o r PROVE Prefix(s, t)
  <2>1. m = n + Len(r) /\ Len(r) \in Nat /\ \A i \in 1..n : t[i] = s[i]
    BY <1>1, <1>3, ConcatProperties, LenProperties
  <2>2. \A i \in 1..n : t[i] \in S
    BY <2>1, ElementOfSeq
  <2>3. /\ SubSeq(t, 1, n) \in Seq(S)
        /\ Len(SubSeq(t, 1, n)) = IF 1 <= n THEN (n - 1) + 1 ELSE 0
        /\ \A i \in 1..((n - 1) + 1) : SubSeq(t, 1, n)[i] = t[(1 + i) - 1]
    BY <1>1, <2>2, SubSeqProperties
  <2> HIDE DEF n, m
  <2>4. Len(SubSeq(t, 1, n)) = n /\ \A i \in 1..n : SubSeq(t, 1, n)[i] = s[i]
    BY <1>1, <2>1, <2>3
  <2>5. SubSeq(t, 1, n) = s
    BY <2>3, <2>4, SeqEqual DEF n
  <2> QED BY <1>1, <2>1, <2>5 DEF Prefix, n, m
<1> QED BY <1>2, <1>3

-----------------------------------------------------------------------------
(* Counts and acknowledgements: what either side acknowledges, it has taken in.     *)

\* Frames whose number, unless it is a unit, is at most n.
Bounded(n) == {f \in Frames : f.t # "data" => f.n <= n}

Acks ==
  /\ inner.received = Len(fed)
  /\ task.C # "done" => Len(sshdIn) + Len(st.inq) = st.received
  /\ st.replay.acked <= Len(fed)
  /\ UpIn(net, [d \in Conns |-> Bounded(Len(fed))])
  /\ inner.replay.acked <= st.received
  /\ DownIn(net, [d \in Conns |-> Bounded(st.received)])
  /\ st.outq \in Seq(Bounded(st.received))

LEMMA BoundedGrows ==
  ASSUME NEW a \in Nat, NEW b \in Nat, a <= b
  PROVE  /\ Bounded(a) \subseteq Bounded(b) /\ Bounded(a) \subseteq Frames
         /\ \A q \in Seq(Bounded(a)) : q \in Seq(Bounded(b))
<1>1. Bounded(a) \subseteq Bounded(b) /\ Bounded(a) \subseteq Frames
  BY DEF Bounded, Frames
<1>2. ASSUME NEW q \in Seq(Bounded(a)) PROVE q \in Seq(Bounded(b))
  BY <1>1, SeqMonotonic
<1> QED BY <1>1, <1>2

LEMMA AckCounts ==
  ASSUME NEW r \in ReplayType(Nat), NEW n \in Nat, NEW m \in Nat, r.acked <= m, n <= m
  PROVE  Ack(r, n).acked <= m
BY AckType

LEMMA SentCounts ==
  ASSUME NEW r, NEW p
  PROVE  Sent(r, p).acked = r.acked
BY DEF Sent

\* What the counts are taken from.
SameCounts(s, t) == /\ t.replay = s.replay /\ t.received = s.received
                    /\ t.inq = s.inq /\ t.outq = s.outq

LEMMA SameCountsAre ==
  ASSUME NEW s \in SessionType
  PROVE  /\ SameCounts(s, s) /\ SameCounts(s, Ended(s)) /\ SameCounts(s, Parked(s))
         /\ SameCounts(s, LetGo(s))
         /\ \A c \in AnyConn : SameCounts(s, PutBack(s, c))
<1>1. ASSUME NEW c \in AnyConn PROVE SameCounts(s, PutBack(s, c))
  BY <1>1, PutBackIs DEF SameCounts
<1> QED BY <1>1, EndedIs, ParkedIs, LetGoIs DEF SameCounts

LEMMA ParkCounts ==
  ASSUME Types, NEW n, Park(n)
  PROVE  SameCounts(st, st')
<1>1. st \in SessionType
  BY DEF Types, LTypes
<1> QED BY <1>1, ParkCases, SameCountsAre

\* The listener's side of the counts.
LCounts(s) ==
  /\ st.received <= s.received
  /\ s.replay.acked <= Len(fed)
  /\ s.outq \in Seq(Bounded(s.received))

LEMMA ListenerCounts ==
  ASSUME Types, LControl, Acks, ListenerStep, st' \in SessionType
  PROVE  LCounts(st') /\ (task'.C # "done" => Len(sshdIn') + Len(st'.inq) = st'.received)
<1>1. /\ st \in SessionType /\ h \in [Conns -> HandlerType] /\ net \in NetType
      /\ st.received \in Nat /\ st.replay \in ReplayType(Nat) /\ Len(fed) \in Nat
      /\ st.outq \in Seq(Bounded(st.received)) /\ st.inq \in Seq(Nat)
      /\ st.conn \in AnyConn /\ job.conn \in AnyConn /\ sshdIn \in Seq(Nat)
  BY LenProperties DEF Types, LTypes, CTypes, SessionType, Acks
<1>2. ASSUME SameCounts(st, st'), task'.C = task.C \/ task'.C = "done", sshdIn' = sshdIn
      PROVE  LCounts(st') /\ (task'.C # "done" => Len(sshdIn') + Len(st'.inq) = st'.received)
  BY <1>1, <1>2 DEF SameCounts, LCounts, Acks
<1>3. ASSUME NEW c \in Conns,
             StartSession(c) \/ ResumeSession(c) \/ HelloLost(c) \/ ReplyFailed(c)
      PROVE  LCounts(st') /\ (task'.C # "done" => Len(sshdIn') + Len(st'.inq) = st'.received)
  BY <1>2, <1>3 DEF StartSession, ResumeSession, HelloLost, ReplyFailed, SameCounts
<1>4. ASSUME NEW c \in Conns, ConnectTarget(c)
      PROVE  LCounts(st') /\ (task'.C # "done" => Len(sshdIn') + Len(st'.inq) = st'.received)
  <2>1. c = 1 /\ reg = "none" /\ st = NewSession /\ sshdIn = <<>> /\ UNCHANGED <<task, sshdIn>>
    BY <1>4 DEF ConnectTarget, LControl, LQuiet, FirstOnly, Unborn
  <2>2. st' = st \/ \E g \in BOOLEAN : st' = [NewSession EXCEPT !.grace = g]
    BY <1>4, GraceAssumption DEF ConnectTarget
  <2>3. SameCounts(st, st')
    BY <2>1, <2>2, NewSessionIs DEF SameCounts
  <2> QED BY <1>2, <2>1, <2>3
<1>5. ASSUME NEW c \in Conns, Replied(c)
      PROVE  LCounts(st') /\ (task'.C # "done" => Len(sshdIn') + Len(st'.inq) = st'.received)
  <2> DEFINE t == h[c].tail
  <2>1. t \in Seq(Nat) /\ h[c] \in HandlerType
    BY <1>1 DEF HandlerType
  <2>2. st' = Attach(st, c, t) /\ UNCHANGED sshdIn
        /\ task' = IF h[c].fresh THEN [A |-> "wait", B |-> "idle", C |-> "idle"] ELSE task
    BY <1>5 DEF Replied
  <2>3. DataFrames(t) \in Seq(Bounded(st.received))
    <3>1. Len(t) \in Nat /\ \A i \in 1..Len(t) : t[i] \in Nat
      BY <2>1, LenProperties, ElementOfSeq
    <3> HIDE DEF t
    <3>2. \A i \in 1..Len(t) : Frame("data", t[i]) \in Bounded(st.received)
      BY <3>1, FrameIs DEF Bounded, FrameTypes
    <3> QED BY <3>1, <3>2 DEF DataFrames
  <2> HIDE DEF t
  <2>4. /\ st'.received = st.received /\ st'.replay = st.replay /\ st'.inq = st.inq
        /\ st'.outq = DataFrames(t)
    BY <1>1, <2>1, <2>2, AttachIs
  <2>5. task'.C # "done" => task.C # "done"
    <3>1. h[c].pc = "replying" /\ (h[c].fresh => c = 1)
      BY <1>5 DEF Replied, LControl, LQuiet, FirstOnly
    <3>2. h[c].fresh => task.C = "none"
      BY <3>1 DEF LControl, LQuiet, FirstOnly
    <3> QED BY <2>2, <3>2
  <2> QED BY <1>1, <2>2, <2>3, <2>4, <2>5 DEF LCounts, Acks
<1>6. ASSUME NEW c \in Conns, Lingered(c)
      PROVE  LCounts(st') /\ (task'.C # "done" => Len(sshdIn') + Len(st'.inq) = st'.received)
  <2>1. (st' = st \/ st' = Ended(st)) /\ UNCHANGED <<task, sshdIn>>
    BY <1>6 DEF Lingered, EndSession, Ended
  <2> QED BY <1>1, <1>2, <2>1, SameCountsAre
<1>7. ASSUME NEW c \in Conns, ClientReader(c)
      PROVE  LCounts(st') /\ (task'.C # "done" => Len(sshdIn') + Len(st'.inq) = st'.received)
  <2> DEFINE f == Head(net[c].up)
  <2>1. /\ st' = st \/ st' = Apply(st, f)
        /\ UNCHANGED <<task, sshdIn>> /\ net[c].up # <<>>
    BY <1>7 DEF ClientReader, LReadable
  <2>2. f \in Bounded(Len(fed)) /\ f \in Frames /\ f.n \in Nat
    <3>1. net[c].up \in Seq(Bounded(Len(fed)))
      BY DEF Acks, UpIn
    <3>2. f \in Bounded(Len(fed))
      BY <2>1, <3>1, HeadTailProperties
    <3> QED BY <3>2 DEF Bounded, Frames
  <2> HIDE DEF f
  <2>3. CASE st' = st
    BY <1>1, <1>2, <2>1, <2>3, SameCountsAre
  <2>4. CASE st' = Apply(st, f) /\ f.t # "data"
    <3>1. /\ st'.replay = Ack(st.replay, f.n) /\ st'.received = st.received
          /\ st'.outq = st.outq /\ st'.inq = st.inq
      BY <1>1, <2>2, <2>4, ApplyAckIs
    <3>2. f.n <= Len(fed)
      BY <2>2, <2>4 DEF Bounded
    <3>3. Ack(st.replay, f.n).acked <= Len(fed)
      BY <1>1, <2>2, <3>2, AckCounts DEF Acks
    <3> QED BY <1>1, <2>1, <3>1, <3>3 DEF LCounts, Acks
  <2>5. CASE st' = Apply(st, f) /\ f.t = "data"
    <3> DEFINE n == st.received + 1
               a == Frame("ack", n)
    <3>1. /\ st'.replay = st.replay /\ st'.received = n
          /\ st'.outq = st.outq \/ st'.outq = Append(st.outq, a)
          /\ st'.inq = Append(st.inq, f.n)
      BY <1>1, <2>2, <2>5, ApplyDataIs
    <3>2. /\ n \in Nat /\ st.received <= n /\ a \in Bounded(n)
      <4>1. n \in Nat
        BY <1>1
      <4> HIDE DEF n
      <4>2. a \in Bounded(n)
        BY <4>1, FrameIs DEF Bounded, FrameTypes
      <4> QED BY <1>1, <4>1, <4>2 DEF n
    <3> HIDE DEF a
    <3>3. st.outq \in Seq(Bounded(n)) /\ Append(st.outq, a) \in Seq(Bounded(n))
      <4>1. st.outq \in Seq(Bounded(n))
        BY <1>1, <3>2, BoundedGrows
      <4> QED BY <3>2, <4>1, AppendProperties
    <3>4. Len(st'.inq) = Len(st.inq) + 1 /\ Len(st.inq) \in Nat /\ Len(sshdIn) \in Nat
      BY <1>1, <2>2, <3>1, AppendProperties, LenProperties
    <3>5. LCounts(st')
      BY <3>1, <3>2, <3>3 DEF LCounts, Acks
    <3> QED BY <1>1, <2>1, <3>1, <3>4, <3>5 DEF Acks
  <2> QED BY <2>1, <2>3, <2>4, <2>5
<1>8. ASSUME NEW c \in Conns, ClientReaderEnd(c)
      PROVE  LCounts(st') /\ (task'.C # "done" => Len(sshdIn') + Len(st'.inq) = st'.received)
  <2>1. SameCounts(st, st')
    BY <1>1, <1>8, ParkCounts, SameCountsAre DEF ClientReaderEnd
  <2> QED BY <1>2, <1>8, <2>1 DEF ClientReaderEnd
<1>9. ASSUME \/ TcpReaderGo \/ HostKeyRefused \/ TcpReaderEnd
             \/ ClientWriterOk \/ ClientWriterErr \/ ClientWriterFinish
             \/ ClientWriterExit \/ TcpWriterEnd
             \/ (\E e \in timers : GraceExpired(e)) \/ SshdGone
      PROVE  LCounts(st') /\ (task'.C # "done" => Len(sshdIn') + Len(st'.inq) = st'.received)
  <2>1. task'.C = task.C \/ task'.C = "done"
    <3>1. task \in TaskType
      BY DEF Types, LTypes
    <3> QED BY <1>9, <3>1
            DEF TcpReaderGo, HostKeyRefused, TcpReaderEnd, ClientWriterOk, ClientWriterErr,
                ClientWriterFinish, ClientWriterExit, TcpWriterEnd, GraceExpired, SshdGone, TaskType
  <2>2. sshdIn' = sshdIn
    BY <1>9 DEF TcpReaderGo, HostKeyRefused, TcpReaderEnd, ClientWriterOk, ClientWriterErr,
                ClientWriterFinish, ClientWriterExit, TcpWriterEnd, GraceExpired, SshdGone
  <2>3. \/ st' = st \/ st' = Ended(st) \/ st' = PutBack(st, job.conn) \/ st' = LetGo(st)
        \/ Park(net)
    BY <1>9 DEF TcpReaderGo, HostKeyRefused, TcpReaderEnd, ClientWriterOk, ClientWriterErr,
                ClientWriterFinish, ClientWriterExit, TcpWriterEnd, GraceExpired, SshdGone,
                EndSession, Ended, PutBack, LetGo
  <2>4. SameCounts(st, st')
    BY <1>1, <2>3, ParkCounts, SameCountsAre
  <2> QED BY <1>2, <2>1, <2>2, <2>4
<1>10. ASSUME TcpReader
       PROVE  LCounts(st') /\ (task'.C # "done" => Len(sshdIn') + Len(st'.inq) = st'.received)
  <2>1. PICK u \in Nat : st' = Recorded(st, u)
    <3>1. PICK last \in {FALSE, Hangups} :
            LET u == IF last THEN Bye ELSE Len(handed) + 1 IN st' = Recorded(st, u)
      BY <1>10 DEF TcpReader, Recorded
    <3> DEFINE u == IF last THEN Bye ELSE Len(handed) + 1
    <3>2. u \in Nat
      BY LenProperties DEF Bye, Types, LTypes
    <3> QED BY <3>1, <3>2
  <2>2. UNCHANGED sshdIn /\ task'.C = task.C
    BY <1>10 DEF TcpReader, Types, LTypes, TaskType
  <2> DEFINE f == Frame("data", u)
  <2>3. /\ st'.replay = Sent(st.replay, <<u>>) /\ st'.received = st.received
        /\ st'.outq = Append(st.outq, f) /\ st'.inq = st.inq
    BY <1>1, <2>1, RecordedIs
  <2>4. f \in Bounded(st.received)
    BY <1>1, FrameIs DEF Bounded, FrameTypes
  <2> HIDE DEF f
  <2>5. st'.outq \in Seq(Bounded(st.received)) /\ st'.replay.acked = st.replay.acked
    BY <1>1, <2>3, <2>4, AppendProperties, SentCounts
  <2> QED BY <1>1, <2>2, <2>3, <2>5 DEF LCounts, Acks
<1>11. ASSUME ClientWriter
       PROVE  LCounts(st') /\ (task'.C # "done" => Len(sshdIn') + Len(st'.inq) = st'.received)
  <2>1. st' = Borrowed(st) /\ st.outq # <<>> /\ UNCHANGED sshdIn /\ task'.C = task.C
    BY <1>11 DEF ClientWriter, Borrowed, Types, LTypes, TaskType
  <2>2. /\ st'.replay = st.replay /\ st'.received = st.received
        /\ st'.outq = Tail(st.outq) /\ st'.inq = st.inq
    BY <1>1, <2>1, BorrowedIs
  <2>3. Tail(st.outq) \in Seq(Bounded(st.received))
    BY <1>1, <2>1, HeadTailProperties
  <2> QED BY <1>1, <2>1, <2>2, <2>3 DEF LCounts, Acks
<1>12. ASSUME TcpWriter
       PROVE  LCounts(st') /\ (task'.C # "done" => Len(sshdIn') + Len(st'.inq) = st'.received)
  <2>1. CASE sshd = "up"
    <3> DEFINE u == Head(st.inq)
    <3>1. /\ st.inq # <<>> /\ sshdIn' = Append(sshdIn, u) /\ st' = Taken(st)
          /\ UNCHANGED task
      BY <1>12, <2>1 DEF TcpWriter, Taken
    <3>2. u \in Nat /\ Len(Tail(st.inq)) = Len(st.inq) - 1
      BY <1>1, <3>1, HeadTailProperties
    <3> HIDE DEF u
    <3>3. /\ st'.replay = st.replay /\ st'.received = st.received
          /\ st'.outq = st.outq /\ st'.inq = Tail(st.inq)
      BY <1>1, <3>1, TakenIs
    <3>4. /\ Len(sshdIn') = Len(sshdIn) + 1 /\ Len(sshdIn) \in Nat /\ Len(st.inq) \in Nat
      BY <1>1, <3>1, <3>2, AppendProperties, LenProperties
    <3>5. Len(st'.inq) = Len(st.inq) - 1
      BY <3>2, <3>3
    <3>6. Len(sshdIn') + Len(st'.inq) = Len(sshdIn) + Len(st.inq)
      <4> DEFINE a == Len(sshdIn)
                 b == Len(st.inq)
                 x == Len(sshdIn')
                 y == Len(st'.inq)
      <4>1. a \in Nat /\ b \in Nat /\ x = a + 1 /\ y = b - 1
        BY <3>4, <3>5
      <4> HIDE DEF a, b, x, y
      <4>2. x + y = a + b
        BY <4>1
      <4> QED BY <4>2 DEF a, b, x, y
    <3>7. LCounts(st')
      BY <1>1, <3>3 DEF LCounts, Acks
    <3>8. task'.C # "done" => Len(sshdIn) + Len(st.inq) = st'.received
      BY <3>1, <3>3 DEF Acks
    <3> QED BY <3>6, <3>7, <3>8
  <2>2. CASE sshd = "gone"
    <3> DEFINE q == Tail(st.inq)
    <3>1. st' = [st EXCEPT !.inq = q, !.dead = TRUE] /\ task' = [task EXCEPT !.C = "done"]
          /\ st.inq # <<>>
      BY <1>12, <2>2 DEF TcpWriter
    <3>2. q \in Seq(Nat)
      BY <1>1, <3>1, HeadTailProperties
    <3> HIDE DEF q
    <3>3. /\ st'.replay = st.replay /\ st'.received = st.received /\ st'.outq = st.outq
      BY <1>1, <3>1, <3>2 DEF SessionType
    <3>4. task'.C = "done"
      BY <3>1 DEF Types, LTypes, TaskType
    <3> QED BY <1>1, <3>3, <3>4 DEF LCounts, Acks
  <2> QED BY <1>12, <2>1, <2>2 DEF TcpWriter
<1> QED BY <1>3, <1>4, <1>5, <1>6, <1>7, <1>8, <1>9, <1>10, <1>11, <1>12 DEF ListenerStep

\* Frames bounded by one count are bounded by a later one.
LEMMA BoundedStays ==
  ASSUME NEW a \in Nat, NEW b \in Nat, a <= b, NEW n
  PROVE  /\ UpIn(n, [d \in Conns |-> Bounded(a)]) => UpIn(n, [d \in Conns |-> Bounded(b)])
         /\ DownIn(n, [d \in Conns |-> Bounded(a)]) => DownIn(n, [d \in Conns |-> Bounded(b)])
BY BoundedGrows DEF UpIn, DownIn

LEMMA BoundedEverywhere ==
  ASSUME NEW a
  PROVE  [d \in Conns |-> Bounded(a)] \in [Conns -> SUBSET Frames]
BY DEF Bounded

LEMMA ListenerAcks ==
  ASSUME Types, LControl, Acks, ListenerStep, ClientIdle, Types'
  PROVE  Acks'
<1> DEFINE D == [d \in Conns |-> Bounded(st.received)]
           U == [d \in Conns |-> Bounded(Len(fed))]
<1>1. /\ st \in SessionType /\ st' \in SessionType /\ net \in NetType /\ net' \in NetType
      /\ st.received \in Nat /\ st'.received \in Nat /\ Len(fed) \in Nat
      /\ fed' = fed /\ inner' = inner
  BY LenProperties DEF Types, LTypes, CTypes, SessionType, ClientIdle, cvars
<1>2. LCounts(st') /\ (task'.C # "done" => Len(sshdIn') + Len(st'.inq) = st'.received)
  BY <1>1, ListenerCounts
<1>3. ListenerNet(net, net')
  BY ListenerNets
<1>4. UpIn(net', U)
  <2>1. UpIn(net, U) /\ U \in [Conns -> SUBSET Frames]
    BY BoundedEverywhere DEF Acks
  <2> HIDE DEF U
  <2> QED BY <1>1, <1>3, <2>1, UpStays
<1>5. DownIn(net', D)
  <2>1. DownIn(net, D) /\ D \in [Conns -> SUBSET Frames]
    BY BoundedEverywhere DEF Acks
  <2>2. LFrames \subseteq Bounded(st.received)
    <3>1. st.outq # <<>> => Head(st.outq) \in Bounded(st.received)
      BY HeadTailProperties DEF Acks
    <3>2. /\ Frame("new", 0) \in Bounded(st.received)
          /\ Frame("refused", 0) \in Bounded(st.received)
          /\ Frame("resumed", st.received) \in Bounded(st.received)
      BY <1>1, FrameIs DEF Bounded, FrameTypes
    <3> QED BY <3>1, <3>2 DEF LFrames
  <2>3. \A d \in Conns : LFrames \subseteq D[d]
    BY <2>2
  <2> HIDE DEF D
  <2> QED BY <1>1, <1>3, <2>1, <2>3, DownStays
<1>6. DownIn(net', [d \in Conns |-> Bounded(st'.received)])
  BY <1>1, <1>2, <1>5, BoundedStays DEF LCounts
<1>7. inner.replay.acked <= st'.received
  <2>1. inner.replay.acked <= st.received /\ st.received <= st'.received
        /\ inner.replay.acked \in Nat
    BY <1>2 DEF Acks, LCounts, Types, CTypes, InnerType, ReplayType
  <2> QED BY <1>1, <2>1
<1>8. inner'.received = Len(fed')
  BY <1>1 DEF Acks
<1>9. UpIn(net', [d \in Conns |-> Bounded(Len(fed'))])
  BY <1>1, <1>4
<1> HIDE DEF U, D
<1> QED BY <1>1, <1>2, <1>6, <1>7, <1>8, <1>9 DEF Acks, LCounts

\* What a step of the client does to its counts, and to what it was fed.
CCounts ==
  \/ fed' = fed /\ inner'.received = inner.received
     /\ inner'.replay.acked = inner.replay.acked
  \/ \E c \in Conns : /\ net[c].down # <<>>
                      /\ LET f == Head(net[c].down)
                         IN  \/ /\ inner' = Consume(inner, f)
                                /\ fed' = IF f.t = "data" THEN Append(fed, f.n) ELSE fed
                             \/ /\ f.t = "resumed" /\ fed' = fed
                                /\ inner' = Adopted(Trimmed(inner, f.n), c)

LEMMA ClientCounts ==
  ASSUME Types, CControl, ClientStep
  PROVE  CCounts
<1>1. inner \in InnerType /\ loops \in [Slots -> LoopType] /\ net \in NetType
  BY DEF Types, CTypes
<1>2. ASSUME fed' = fed, SameData(inner, inner') PROVE CCounts
  BY <1>2 DEF SameData, CCounts
<1>3. CASE ConnectReply \/ ConnectLost
  BY <1>3 DEF ConnectReply, ConnectLost, CCounts
<1>4. ASSUME NEW c \in Conns, Reader(c) PROVE CCounts
  BY <1>4, ReaderIs DEF CCounts
<1>5. ASSUME NEW g \in Nat, LinkLost(g, net), fed' = fed, connect = "up" PROVE CCounts
  BY <1>1, <1>2, <1>5, LinkLostIs DEF CControl, Types
<1>6. ASSUME NEW c \in Conns, ReaderEnd(c) \/ WriterErr(c) PROVE CCounts
  <2>1. connect = "up" /\ gen[c] \in Nat
    BY <1>6, TaskRuns DEF ReaderEnd, WriterErr
  <2>2. LinkLost(gen[c], net) /\ fed' = fed
    BY <1>6 DEF ReaderEnd, WriterErr
  <2> QED BY <1>5, <2>1, <2>2
<1>7. CASE KeepaliveDead
  <2>1. inner.generation \in Nat
    BY <1>1 DEF InnerType
  <2> QED BY <1>5, <1>7, <2>1 DEF KeepaliveDead, LoopUnchanged
<1>8. ASSUME NEW c \in Conns, WriterWoken(c) \/ WriterOk(c) PROVE CCounts
  <2>1. fed' = fed /\ (inner' = inner \/ WriterTurn(c))
    BY <1>8 DEF WriterWoken, WriterOk, Retire
  <2>2. \/ inner' = inner \/ inner' = AckSent(inner)
        \/ inner.outbox # <<>> /\ inner' = UnitSent(inner)
    BY <2>1, WriterTurnIs
  <2>3. inner'.received = inner.received /\ inner'.replay.acked = inner.replay.acked
    <3>1. CASE inner' = inner
      BY <3>1
    <3>2. CASE inner' = AckSent(inner)
      BY <1>1, <3>2, AckSentIs
    <3>3. CASE inner.outbox # <<>> /\ inner' = UnitSent(inner)
      <4>1. inner'.replay = Sent(inner.replay, <<Head(inner.outbox)>>)
            /\ inner'.received = inner.received
        BY <1>1, <3>3, UnitSentIs
      <4> QED BY <4>1, SentCounts
    <3> QED BY <2>2, <3>1, <3>2, <3>3
  <2> QED BY <2>1, <2>3 DEF CCounts
<1>9. ASSUME NEW s \in Slots, LoopSpawned(s) \/ BackedOff(s) PROVE CCounts
  <2>1. TasksIdle /\ loops[s].pc # "none" /\ inner' = LoopTop(inner, loops[s]).inner
        /\ SetLoop(s, LoopTop(inner, loops[s]).pc, loops[s])
    BY <1>9 DEF LoopSpawned, BackedOff, LoopUnchanged, TasksIdle
  <2> QED BY <1>2, <2>1, LoopPass DEF TasksIdle
<1>10. ASSUME NEW s \in Slots, DialFailed(s) \/ HandshakeFailed(s) \/ DialOk(s) PROVE CCounts
  BY <1>10 DEF DialFailed, HandshakeFailed, DialOk, Abandon, Retry, LoopUnchanged, CCounts
<1>11. ASSUME NEW s \in Slots, HandshakeReply(s) PROVE CCounts
  <2> DEFINE c == loops[s].conn
             f == Head(net[c].down)
  <2>1. /\ loops[s].pc = "handshake" /\ net[c].down # <<>> /\ c \in Conns /\ fed' = fed
    BY <1>11 DEF HandshakeReply, CReadable, Types, CTypes
  <2>2. \/ inner' = inner \/ inner' = DeclareDead(inner)
        \/ f.t = "resumed" /\ inner' = Adopted(Trimmed(inner, f.n), c)
    BY <1>11 DEF HandshakeReply, Abandon, Install, Adopted, Trimmed
  <2>3. CASE inner' = inner \/ inner' = DeclareDead(inner)
    BY <1>1, <2>1, <2>3, DeclareDeadIs DEF CCounts
  <2> HIDE DEF c
  <2>4. CASE f.t = "resumed" /\ inner' = Adopted(Trimmed(inner, f.n), c)
    BY <2>1, <2>4 DEF CCounts
  <2> HIDE DEF f
  <2> QED BY <2>2, <2>3, <2>4
<1>12. CASE WriteInput \/ Suspend \/ Wake
  <2>1. fed' = fed
    BY <1>12 DEF WriteInput, Suspend, Wake
  <2>2. inner'.received = inner.received /\ inner'.replay = inner.replay
    BY <1>1, <1>12 DEF WriteInput, Suspend, Wake, InnerType
  <2> QED BY <2>1, <2>2 DEF CCounts
<1>13. CASE Detach
  <2>1. fed' = fed /\ inner'.received = inner.received /\ inner'.replay = inner.replay
    BY <1>1, <1>13 DEF Detach, InnerType
  <2> QED BY <2>1 DEF CCounts
<1> QED BY <1>3, <1>4, <1>6, <1>7, <1>8, <1>9, <1>10, <1>11, <1>12, <1>13 DEF ClientStep

LEMMA ClientAcks ==
  ASSUME Types, CControl, Acks, ClientStep, ListenerIdle, Types'
  PROVE  Acks'
<1> DEFINE D == [d \in Conns |-> Bounded(st.received)]
           U == [d \in Conns |-> Bounded(Len(fed))]
           N == Len(fed')
<1>1. /\ net \in NetType /\ net' \in NetType /\ inner \in InnerType /\ inner' \in InnerType
      /\ st.received \in Nat /\ Len(fed) \in Nat /\ N \in Nat
      /\ inner.received = Len(fed) /\ fed \in Seq(Nat)
      /\ inner.replay.acked \in Nat /\ inner.replay \in ReplayType(Nat)
      /\ st' = st /\ task' = task /\ sshdIn' = sshdIn
  BY LenProperties DEF Types, LTypes, CTypes, SessionType, InnerType, ReplayType, ListenerIdle,
                       lvars, Acks
<1>2. ClientNet(net, net')
  BY ClientNets
<1>3. DownIn(net', D)
  <2>1. DownIn(net, D) /\ D \in [Conns -> SUBSET Frames]
    BY BoundedEverywhere DEF Acks
  <2> HIDE DEF D
  <2> QED BY <1>1, <1>2, <2>1, DownStays
<1>4. UpIn(net', U)
  <2>1. UpIn(net, U) /\ U \in [Conns -> SUBSET Frames]
    BY BoundedEverywhere DEF Acks
  <2>2. CFrames \subseteq Bounded(Len(fed))
    BY <1>1 DEF CFrames, Bounded
  <2>3. (\A d \in Conns : CFrames \subseteq U[d]) /\ Frame("resume", inner.received) \in CFrames
    BY <2>2, CFramesAre
  <2> HIDE DEF U
  <2> QED BY <1>1, <1>2, <2>1, <2>3, UpStays
<1>5. CASE fed' = fed /\ inner'.received = inner.received
           /\ inner'.replay.acked = inner.replay.acked
  BY <1>1, <1>3, <1>4, <1>5 DEF Acks
<1>6. ASSUME NEW c \in Conns, net[c].down # <<>>,
             \/ /\ inner' = Consume(inner, Head(net[c].down))
                /\ fed' = IF Head(net[c].down).t = "data"
                          THEN Append(fed, Head(net[c].down).n) ELSE fed
             \/ /\ Head(net[c].down).t = "resumed" /\ fed' = fed
                /\ inner' = Adopted(Trimmed(inner, Head(net[c].down).n), c)
      PROVE  Acks'
  <2> DEFINE f == Head(net[c].down)
  <2>1. f \in Bounded(st.received) /\ f \in Frames /\ f.n \in Nat
    <3>1. net[c].down \in Seq(Bounded(st.received))
      BY DEF Acks, DownIn
    <3>2. f \in Bounded(st.received)
      BY <1>6, <3>1, HeadTailProperties
    <3> QED BY <3>2 DEF Bounded, Frames
  <2>2. \/ /\ inner' = Consume(inner, f)
           /\ fed' = IF f.t = "data" THEN Append(fed, f.n) ELSE fed
        \/ f.t = "resumed" /\ fed' = fed /\ inner' = Adopted(Trimmed(inner, f.n), c)
    BY <1>6
  <2> HIDE DEF f, N, U, D
  <2>3. f.t # "data" => Ack(inner.replay, f.n).acked <= st.received
    <3>1. f.t # "data" => f.n <= st.received
      BY <2>1 DEF Bounded
    <3>2. inner.replay.acked <= st.received
      BY DEF Acks
    <3> QED BY <1>1, <2>1, <3>1, <3>2, AckCounts
  <2>4. /\ inner'.received = Len(fed') /\ Len(fed) <= Len(fed')
        /\ inner'.replay.acked <= st.received
    <3>1. CASE inner' = Consume(inner, f)
               /\ fed' = IF f.t = "data" THEN Append(fed, f.n) ELSE fed
      <4>1. /\ inner'.replay = IF f.t = "ack" THEN Ack(inner.replay, f.n) ELSE inner.replay
            /\ inner'.received = IF f.t = "data" THEN inner.received + 1 ELSE inner.received
        BY <1>1, <2>1, <3>1, ConsumeIs
      <4>2. inner'.replay.acked <= st.received
        BY <2>3, <4>1 DEF Acks
      <4>3. Len(fed') = IF f.t = "data" THEN Len(fed) + 1 ELSE Len(fed)
        BY <1>1, <2>1, <3>1, AppendProperties
      <4> QED BY <1>1, <4>1, <4>2, <4>3
    <3>2. CASE f.t = "resumed" /\ fed' = fed /\ inner' = Adopted(Trimmed(inner, f.n), c)
      <4> DEFINE t == Trimmed(inner, f.n)
      <4>0. t \in InnerType /\ t.replay = Ack(inner.replay, f.n)
            /\ t.received = inner.received
        BY <1>1, <2>1, TrimmedIs
      <4>1. inner'.replay = Ack(inner.replay, f.n) /\ inner'.received = inner.received
        <5>1. inner' = Adopted(t, c)
          BY <3>2
        <5> HIDE DEF t
        <5> QED BY <1>6, <4>0, <5>1, AdoptedIs
      <4> QED BY <1>1, <2>3, <3>2, <4>1
    <3> QED BY <2>2, <3>1, <3>2
  <2>5. UpIn(net', [d \in Conns |-> Bounded(Len(fed'))])
    BY <1>1, <1>4, <2>4, BoundedStays DEF U, N
  <2>6. DownIn(net', [d \in Conns |-> Bounded(st'.received)])
    BY <1>1, <1>3 DEF D
  <2>7. st'.replay.acked <= Len(fed')
    <3>1. st.replay.acked \in Nat /\ st.replay.acked <= Len(fed)
      BY DEF Types, LTypes, SessionType, ReplayType, Acks
    <3> QED BY <1>1, <2>4, <3>1 DEF N
  <2> QED BY <1>1, <2>4, <2>5, <2>6, <2>7 DEF Acks
<1> HIDE DEF N, U, D
<1> QED BY <1>5, <1>6, ClientCounts DEF CCounts

LEMMA FirstAcks == Init => Acks
<1> SUFFICES ASSUME Init PROVE Acks
  OBVIOUS
<1> USE DEF Init, LInit, CInit, NetInit
<1>1. Control
  BY StartsWell
<1>2. /\ net = Dialed([c \in Conns |-> NewConn], 1, Frame("hello", 0)) /\ fed = <<>>
      /\ inner.received = 0 /\ inner.replay.acked = 0 /\ st.replay.acked = 0
      /\ sshdIn = <<>> /\ st.inq = <<>> /\ st.outq = <<>> /\ st.received = 0
      /\ Len(fed) = 0
  BY DEF NewSession, NewReplay
<1>3. [c \in Conns |-> NewConn] \in NetType /\ 1 \in Conns /\ Frame("hello", 0) \in Bounded(0)
  <2>1. 1 \in Conns /\ Frame("hello", 0) \in Bounded(0)
    BY WireBoundsAssumption, FrameIs DEF Conns, Bounded, FrameTypes
  <2>2. <<>> \in Seq(Frames)
    OBVIOUS
  <2> QED BY <2>1, <2>2 DEF NetType, ConnType, NewConn
<1>4. \A d \in Conns : net[d].up \in Seq(Bounded(0)) /\ net[d].down \in Seq(Bounded(0))
  <2> DEFINE n == [c \in Conns |-> NewConn]
             f == Frame("hello", 0)
  <2>1. f \in Frames /\ f \in Bounded(0)
    BY <1>3 DEF Bounded
  <2>2. \A d \in Conns : n[d].up = <<>> /\ n[d].down = <<>>
    BY DEF NewConn
  <2>3. <<>> \in Seq(Bounded(0)) /\ <<f>> \in Seq(Bounded(0))
    BY <2>1
  <2> HIDE DEF n, f, Init, LInit, CInit, NetInit
  <2>4. net = Dialed(n, 1, f) /\ n \in NetType
    BY <1>2, <1>3 DEF n, f
  <2>5. /\ \A d \in Conns : d # 1 => net[d] = n[d]
        /\ net[1].up = <<f>> /\ net[1].down = <<>>
    BY <1>3, <2>1, <2>4, DialedIs
  <2> QED BY <2>2, <2>3, <2>5
<1>5. st.outq \in Seq(Bounded(0))
  BY <1>2
<1>6. task.C # "done" => Len(sshdIn) + Len(st.inq) = st.received
  BY <1>2
<1> QED BY <1>2, <1>4, <1>5, <1>6 DEF Acks, UpIn, DownIn

LEMMA AcksStay == Control /\ Acks /\ [Next]_vars => Acks'
<1> SUFFICES ASSUME Control, Acks, [Next]_vars PROVE Acks'
  OBVIOUS
<1>1. Types /\ CControl /\ LControl /\ Types'
  BY ControlKeeps DEF Control
<1>2. CASE ListenerStep /\ ClientIdle
  BY <1>1, <1>2, ListenerAcks
<1>3. CASE ClientStep /\ ListenerIdle
  BY <1>1, <1>3, ClientAcks
<1>4. ASSUME NEW c \in Conns, Lose(c), UNCHANGED <<lvars, cvars>> PROVE Acks'
  <2>1. /\ net \in NetType /\ net' \in NetType
        /\ ClientNet(net, net') \/ ListenerNet(net, net')
    BY <1>1, <1>4, LoseNet DEF Types
  <2>2. /\ \A d \in Conns : net'[d].up = net[d].up \/ net'[d].up = <<>>
        /\ \A d \in Conns : net'[d].down = net[d].down \/ net'[d].down = <<>>
    <3>1. net \in NetType
      BY <1>1 DEF Types
    <3>2. CASE net' = CClose(net, c)
      BY <3>1, <3>2, CCloseIs DEF SameUp
    <3>3. CASE net' = LClose(net, c)
      BY <3>1, <3>3, LCloseIs DEF SameDown
    <3> QED BY <1>4, <3>2, <3>3 DEF Lose
  <2>3. \A a : <<>> \in Seq(Bounded(a))
    OBVIOUS
  <2> QED BY <1>4, <2>2, <2>3 DEF Acks, UpIn, DownIn, lvars, cvars
<1>5. CASE UNCHANGED vars
  BY <1>5 DEF vars, lvars, cvars, Acks, UpIn, DownIn
<1> QED BY <1>2, <1>3, <1>4, <1>5, NextSplits

LEMMA AcksHold == Spec => []Acks
<1>1. Init => Acks
  BY FirstAcks
<1> QED BY <1>1, AcksStay, ControlHolds, PTL DEF Spec

\* An ACK never runs ahead of what it acknowledges (Frame::apply, consume_frames,
\* tail_from): neither side trims from its replay buffer a byte the other has not taken
\* in, whatever snapshots attach used.
THEOREM AcksAreSound == Spec => []AckSound
<1>1. Control /\ Acks => AckSound
  <2> SUFFICES ASSUME Control, Acks PROVE AckSound
    OBVIOUS
  <2>1. ~st.dead => task.C # "done"
    BY DEF Control, LControl, LQuiet, Ends
  <2> QED BY <2>1 DEF Acks, AckSound
<1> QED BY <1>1, AcksHold, ControlHolds, PTL

-----------------------------------------------------------------------------
(* The path: which connections stand, which are installed, which wait for a reply.  *)

\* At the client only the session's connection and the one a resume shakes hands on
\* are open, and while a resume dials, the session's is not.
OpenAtClient ==
  \A c \in Conns : net[c].cOpen =>
    c = inner.conn \/ \E s \in Slots : loops[s].pc = "handshake" /\ loops[s].conn = c
OldClosed ==
  \A s \in Slots : loops[s].pc \in {"dialing", "handshake", "backoff"}
    => ~net[inner.conn].cOpen

\* A resume shakes hands on a connection of its own.
Shaking ==
  \A s \in Slots : loops[s].pc = "handshake" =>
    /\ net[loops[s].conn].dialed /\ ~Installed(loops[s].conn)
    /\ loops[s].conn # inner.conn /\ loops[s].conn # 1

\* Nothing happens on a connection before it is dialed.
Undialled ==
  /\ net[1].dialed /\ \A c \in Conns : Installed(c) => net[c].dialed
  /\ \A c \in Conns : ~net[c].dialed =>
       /\ h[c].pc = "hello" /\ ~net[c].cOpen /\ ~net[c].lOpen
       /\ net[c].up = <<>> /\ net[c].down = <<>>

\* The listener has said nothing on a connection whose HELLO it has yet to answer.
HelloQuiet ==
  \A c \in Conns : h[c].pc \in {"hello", "connecting"} => net[c].down = <<>> /\ ~Installed(c)

\* The first connection is installed when connect has succeeded, and until then the
\* session has carried nothing.
FirstDial ==
  /\ connect = "up" => Installed(1)
  /\ connect # "up" => /\ fed = <<>> /\ typed = 0
                       /\ inner.replay = NewReplay /\ inner.outbox = <<>>

Path == OpenAtClient /\ OldClosed /\ Shaking /\ Undialled /\ HelloQuiet /\ FirstDial

-----------------------------------------------------------------------------
(* What a step of the listener does to the streams, the attachment and the handlers. *)

\* The counts, the queues and the streams stay; only [C]'s end may lose its queue.
SameStreams ==
  /\ st'.replay = st.replay /\ st'.received = st.received /\ st'.outq = st.outq
  /\ handed' = handed /\ sshdIn' = sshdIn
  /\ task'.C = "done" \/ (task'.C = task.C /\ st'.inq = st.inq)

SameAttachment ==
  /\ st'.conn = st.conn /\ (st'.attached <=> st.attached)
  /\ st'.send = st.send \/ st'.send = st.conn
  /\ st'.generation = st.generation
NoAttachment ==
  /\ st'.conn = NoConn /\ ~st'.attached /\ st'.send = NoConn
  /\ st'.generation \in {st.generation, st.generation + 1}
SameJob == task'.B = "writing" => task.B = "writing" /\ job' = job

\* A connection the step does not concern, beyond closing it.
Rests(d) == /\ h'[d] = h[d] /\ net'[d].down = net[d].down
            /\ net'[d].lOpen => net'[d].up = net[d].up

\* A handler that turns away from its connection, or has heard its Hello.
Leaves(d) ==
  /\ net[d].dialed /\ h[d].pc # "done"
  /\ h'[d].pc \in {"connecting", "refusing", "gap", "done"}
  /\ h'[d].pc = "connecting" => h[d].pc = "hello" /\ net'[d].down = net[d].down
  /\ h[d].pc = "reading" => h'[d].pc = "done"
  /\ Units(net'[d].down) = Units(net[d].down)

Hush == /\ SameStreams /\ (SameAttachment \/ NoAttachment)
        /\ SameJob /\ (raced' <=> raced)
        /\ \A d \in Conns : Rests(d) \/ Leaves(d)

\* The other steps: the new session's handler, a resume's, the attach, and the four
\* that move a unit.
Begins ==
  /\ SameStreams /\ SameAttachment /\ SameJob /\ (raced' <=> raced)
  /\ h[1].pc = "connecting" /\ h'[1] = Greeting /\ net'[1].up = net[1].up
  /\ Units(net'[1].down) = Units(net[1].down)
  /\ \A d \in Conns : d # 1 => Rests(d)
Answers(c) ==
  /\ SameStreams /\ SameAttachment /\ SameJob /\ (raced' <=> raced)
  /\ h[c].pc = "hello" /\ LReadable(c) /\ HasTail(st.replay, Head(net[c].up).n)
  /\ h'[c] = Answering(TailFrom(st.replay, Head(net[c].up).n), st.received,
                       st.replay.sent_total)
  /\ net'[c].up = Tail(net[c].up)
  /\ net'[c].down = IF net[c].cOpen THEN Append(net[c].down, Frame("resumed", st.received))
                                    ELSE net[c].down
  /\ \A d \in Conns : d # c => Rests(d)
Attaches(c) ==
  /\ h[c].pc = "replying" /\ h'[c] = Reading(st.generation + 1)
  /\ st' = Attach(st, c, h[c].tail) /\ SameJob
  /\ raced' <=> raced \/ st.dead \/ st.received # h[c].received
                      \/ st.replay.sent_total # h[c].sent
  /\ UNCHANGED <<handed, sshdIn>> /\ (task'.C = "done" <=> task.C = "done")
  /\ \A d \in Conns : /\ d # c => h'[d] = h[d]
                      /\ net'[d].down = net[d].down
                      /\ net'[d].lOpen => net'[d].up = net[d].up
Takes(c) ==
  /\ CurrentReader(c) /\ LReadable(c)
  /\ st' = Apply(st, Head(net[c].up)) /\ net' = LTake(net, c)
  /\ UNCHANGED <<h, task, job, handed, sshdIn, raced>>
Records ==
  /\ \E u \in Nat : st' = Recorded(st, u) /\ handed' = Append(handed, u)
  /\ task'.C = task.C /\ SameJob /\ UNCHANGED <<h, sshdIn, raced, net>>
Writes ==
  /\ st.attached /\ st.send \in Conns /\ st.outq # <<>>
  /\ net' = LWrite(net, st.send, <<Head(st.outq)>>) /\ st' = Borrowed(st)
  /\ job' = [gen |-> st.generation, conn |-> st.send]
  /\ task'.C = task.C /\ UNCHANGED <<h, handed, sshdIn, raced>>
Delivers ==
  /\ task.C = "idle" /\ st.inq # <<>> /\ st' = Taken(st)
  /\ sshdIn' = Append(sshdIn, Head(st.inq))
  /\ UNCHANGED <<h, task, job, handed, raced, net>>

LEMMA RefusedUnits ==
  ASSUME NEW q \in Seq(Frames), NEW f \in Frames, f.t # "data"
  PROVE  Units(Append(q, f)) = Units(q)
BY UnitsOfAppend

\* What the refusals and the closings do to the connections.
LEMMA RefusalsAre ==
  ASSUME Types, NEW c \in Conns,
         \/ LReadable(c) /\ net' = Refusal(net, c)
         \/ net' = LFinish(LWrite(net, c, <<Frame("refused", 0)>>), c)
  PROVE  /\ \A d \in Conns : d # c => /\ net'[d].down = net[d].down
                                      /\ net'[d].up = net[d].up
         /\ Units(net'[c].down) = Units(net[c].down)
<1> DEFINE n == LTake(net, c)
           f == Frame("refused", 0)
           a == LWrite(n, c, <<f>>)
           b == LWrite(net, c, <<f>>)
<1>1. /\ f \in LFrames /\ f \in Frames /\ f.t # "data" /\ net \in NetType
      /\ net[c].down \in Seq(Frames)
  BY LFramesAre, FrameIs, NetFields DEF FrameTypes, Types
<1> HIDE DEF f
<1>2. Units(Append(net[c].down, f)) = Units(net[c].down)
  BY <1>1, RefusedUnits
<1>3. CASE LReadable(c) /\ net' = LFinish(a, c)
  <2>1. /\ n \in NetType /\ SameDown(net, n)
        /\ \A d \in Conns : d # c => n[d].up = net[d].up
    BY <1>1, <1>3, LTakeIs DEF LReadable
  <2> HIDE DEF n
  <2>2. /\ a \in NetType /\ SameUp(n, a)
        /\ \A d \in Conns : a[d].down
             = IF d = c /\ n[d].cOpen /\ n[d].lOpen THEN Append(n[d].down, f) ELSE n[d].down
    BY <1>1, <2>1, WrittenIs
  <2> HIDE DEF a
  <2>3. SameUp(a, net') /\ SameDown(a, net')
    BY <1>3, <2>2, LFinishIs
  <2>4. net'[c].down = net[c].down \/ net'[c].down = Append(net[c].down, f)
    BY <2>1, <2>2, <2>3 DEF SameDown
  <2>5. \A d \in Conns : d # c => net'[d].down = net[d].down /\ net'[d].up = net[d].up
    BY <2>1, <2>2, <2>3 DEF SameDown, SameUp
  <2> QED BY <1>2, <2>4, <2>5
<1>4. CASE net' = LFinish(b, c)
  <2>2. /\ b \in NetType /\ SameUp(net, b)
        /\ \A d \in Conns : b[d].down
             = IF d = c /\ net[d].cOpen /\ net[d].lOpen THEN Append(net[d].down, f)
                                                        ELSE net[d].down
    BY <1>1, WrittenIs
  <2> HIDE DEF b
  <2>3. SameUp(b, net') /\ SameDown(b, net')
    BY <1>4, <2>2, LFinishIs
  <2>4. net'[c].down = net[c].down \/ net'[c].down = Append(net[c].down, f)
    BY <2>2, <2>3 DEF SameDown
  <2>5. \A d \in Conns : d # c => net'[d].down = net[d].down /\ net'[d].up = net[d].up
    BY <2>2, <2>3 DEF SameDown, SameUp
  <2> QED BY <1>2, <2>4, <2>5
<1> QED BY <1>3, <1>4 DEF a, b, n, f, Refusal

LEMMA ClosingsAre ==
  ASSUME Types, NEW c \in Conns, NEW e \in AnyConn
  PROVE  /\ \A d \in Conns : /\ LClose(net, c)[d].down = net[d].down
                             /\ d # c => LClose(net, c)[d].up = net[d].up
         /\ \A d \in Conns : /\ CloseConn(net, e)[d].down = net[d].down
                             /\ CloseConn(net, e)[d].lOpen => CloseConn(net, e)[d].up = net[d].up
         /\ \A d \in Conns : /\ CloseConn(LClose(net, c), e)[d].down = net[d].down
                             /\ d # c /\ CloseConn(LClose(net, c), e)[d].lOpen
                                  => CloseConn(LClose(net, c), e)[d].up = net[d].up
<1>1. net \in NetType /\ e \in Conns \cup {NoConn}
  BY DEF Types, AnyConn
<1> DEFINE a == LClose(net, c)
           b == CloseConn(a, e)
<1>2. /\ a \in NetType /\ \A d \in Conns : a[d].down = net[d].down
      /\ \A d \in Conns : d # c => a[d].up = net[d].up
  BY <1>1, LCloseIs DEF SameDown
<1>3. \A d \in Conns : /\ CloseConn(net, e)[d].down = net[d].down
                       /\ CloseConn(net, e)[d].lOpen => CloseConn(net, e)[d].up = net[d].up
  BY <1>1, CloseConnIs DEF SameDown
<1> HIDE DEF a
<1>4. \A d \in Conns : /\ b[d].down = a[d].down
                       /\ b[d].lOpen => b[d].up = a[d].up
  BY <1>1, <1>2, CloseConnIs DEF SameDown
<1> HIDE DEF b
<1>5. /\ \A d \in Conns : b[d].down = net[d].down
      /\ \A d \in Conns : d # c /\ b[d].lOpen => b[d].up = net[d].up
  BY <1>2, <1>4
<1> QED BY <1>2, <1>3, <1>5 DEF a, b

\* The attachment: its stream's write half, when [B] has not borrowed it, is that of the
\* connection it closes; that connection's handler has replied; and one reader at most
\* is of the current generation.
Attachment ==
  /\ st.attached <=> st.conn # NoConn
  /\ st.send \in {NoConn, st.conn}
  /\ \A c \in Conns : c = st.conn => h[c].pc \in {"reading", "done"}
  /\ \A c, d \in Conns : CurrentReader(c) /\ CurrentReader(d) => c = d

\* [B]'s write in flight is one of the attachment, or of one that is over.
Borrowing ==
  task.B = "writing" =>
    /\ job.conn \in Conns /\ job.gen <= st.generation
    /\ job.gen = st.generation /\ st.attached => job.conn = st.conn

\* A handler that moves on leaves the others to rest.
LEMMA OneLeaves ==
  ASSUME Types, NEW c \in Conns, NEW x, Moves(c, x),
         \A d \in Conns : d # c => /\ net'[d].down = net[d].down
                                   /\ net'[d].lOpen => net'[d].up = net[d].up
  PROVE  h'[c] = x /\ \A d \in Conns : d # c => Rests(d)
<1>1. h \in [Conns -> HandlerType]
  BY DEF Types, LTypes
<1> QED BY <1>1 DEF Moves, Rests

LEMMA HandlerHush ==
  ASSUME Types, LControl, Undialled, NEW c \in Conns,
         \/ StartSession(c) \/ ConnectTarget(c) \/ ResumeSession(c) \/ HelloLost(c)
         \/ ReplyFailed(c) \/ Lingered(c)
  PROVE  Hush \/ Begins \/ Answers(c)
<1>1. /\ net \in NetType /\ st \in SessionType /\ h \in [Conns -> HandlerType]
      /\ net[c].down \in Seq(Frames)
      /\ st.received \in Nat
  BY NetFields DEF Types, LTypes, SessionType
<1>2. SameStreams /\ SameAttachment /\ SameJob /\ (raced' <=> raced)
  <2>1. CASE StartSession(c) \/ ResumeSession(c) \/ HelloLost(c) \/ ReplyFailed(c)
    BY <2>1 DEF StartSession, ResumeSession, HelloLost, ReplyFailed, SameStreams,
                SameAttachment, SameJob
  <2>2. CASE Lingered(c)
    <3>1. (st' = st \/ st' = Ended(st)) /\ UNCHANGED <<task, job, handed, sshdIn, raced>>
      BY <2>2 DEF Lingered, EndSession, Ended
    <3> QED BY <1>1, <3>1, EndedIs DEF SameStreams, SameAttachment, SameJob
  <2>3. CASE ConnectTarget(c)
    <3>1. UNCHANGED <<task, job, handed, sshdIn, raced>>
      BY <2>3 DEF ConnectTarget
    <3>2. st' = st \/ (reg = "none" /\ \E g \in BOOLEAN : st' = [NewSession EXCEPT !.grace = g])
      <4>1. c = 1 /\ reg = "none"
        BY <2>3 DEF ConnectTarget, LControl, LQuiet, FirstOnly
      <4> QED BY <2>3, <4>1, GraceAssumption DEF ConnectTarget
    <3>3. CASE reg = "none" /\ \E g \in BOOLEAN : st' = [NewSession EXCEPT !.grace = g]
      <4>1. st = NewSession
        BY <3>3 DEF LControl, LQuiet, Unborn
      <4> QED BY <3>1, <3>3, <4>1, NewSessionIs DEF SameStreams, SameAttachment, SameJob
    <3> QED BY <3>1, <3>2, <3>3 DEF SameStreams, SameAttachment, SameJob
  <2> QED BY <2>1, <2>2, <2>3
<1>3. net[c].dialed /\ h[c].pc # "done"
  BY DEF StartSession, ConnectTarget, ResumeSession, HelloLost, ReplyFailed, Lingered,
         LReadable, Undialled
<1>4. ASSUME NEW p \in {"connecting", "refusing", "gap", "done"}, Handler(c, p),
             h[c].pc # "reading",
             p = "connecting" => h[c].pc = "hello" /\ net'[c].down = net[c].down,
             Units(net'[c].down) = Units(net[c].down),
             \A d \in Conns : d # c => /\ net'[d].down = net[d].down
                                       /\ net'[d].lOpen => net'[d].up = net[d].up
      PROVE  Hush
  <2>1. Resting(p).pc = p /\ Moves(c, Resting(p))
    BY <1>4, HandlerIs DEF Handler, Moves, Resting
  <2>2. h'[c].pc = p /\ \A d \in Conns : d # c => Rests(d)
    BY <1>4, <2>1, OneLeaves
  <2>3. Leaves(c)
    BY <1>3, <1>4, <2>2 DEF Leaves
  <2> QED BY <1>2, <2>2, <2>3 DEF Hush
<1>5. CASE StartSession(c)
  <2>1. /\ Handler(c, "connecting") /\ net' = LTake(net, c) /\ LReadable(c) /\ h[c].pc = "hello"
    BY <1>5 DEF StartSession, LTake
  <2>2. SameDown(net, net') /\ \A d \in Conns : d # c => net'[d].up = net[d].up
    BY <1>1, <2>1, LTakeIs DEF LReadable
  <2> QED BY <1>4, <2>1, <2>2 DEF SameDown
<1>6. CASE HelloLost(c) \/ ReplyFailed(c) \/ Lingered(c)
  <2>1. Handler(c, "done") /\ net' = LClose(net, c) /\ h[c].pc # "reading"
    BY <1>6 DEF HelloLost, ReplyFailed, Lingered, Return
  <2>2. NoConn \in AnyConn
    BY DEF AnyConn
  <2>3. /\ \A d \in Conns : net'[d].down = net[d].down
        /\ \A d \in Conns : d # c => net'[d].up = net[d].up
    BY <2>1, <2>2, ClosingsAre
  <2> QED BY <1>4, <2>1, <2>3
<1>7. ASSUME LReadable(c), h[c].pc = "hello", NEW p \in {"refusing", "gap"}, Refuse(c, p)
      PROVE  Hush
  <2>1. net' = Refusal(net, c) /\ Handler(c, p)
    BY <1>7 DEF Refuse, Refusal, LTake
  <2> QED BY <1>4, <1>7, <2>1, RefusalsAre
<1>8. CASE ResumeSession(c)
  <2> DEFINE claim == Head(net[c].up).n
             t == TailFrom(st.replay, claim)
             x == Answering(t, st.received, st.replay.sent_total)
             f == Frame("resumed", st.received)
             n == LTake(net, c)
  <2>1. LReadable(c) /\ h[c].pc = "hello"
    BY <1>8 DEF ResumeSession
  <2>2. \/ Refuse(c, "refusing") \/ Refuse(c, "gap")
        \/ HasTail(st.replay, claim) /\ Moves(c, x) /\ net' = LWrite(n, c, <<f>>)
    BY <1>8 DEF ResumeSession, Moves, Answering, LTake
  <2>3. CASE HasTail(st.replay, claim) /\ Moves(c, x) /\ net' = LWrite(n, c, <<f>>)
    <3>1. /\ n \in NetType /\ SameDown(net, n) /\ SameCOpen(net, n) /\ SameLOpen(net, n)
          /\ \A d \in Conns : n[d].up = IF d = c THEN Tail(net[d].up) ELSE net[d].up
          /\ net[c].lOpen
      BY <1>1, <2>1, LTakeIs DEF LReadable
    <3> HIDE DEF n, x
    <3>2. f \in LFrames
      BY LFramesAre
    <3> HIDE DEF f
    <3>3. /\ SameUp(n, net')
          /\ \A d \in Conns : net'[d].down
               = IF d = c /\ n[d].cOpen /\ n[d].lOpen THEN Append(n[d].down, f)
                                                      ELSE n[d].down
      BY <2>3, <3>1, <3>2, WrittenIs
    <3>4. \A d \in Conns : d # c => net'[d].down = net[d].down /\ net'[d].up = net[d].up
      BY <3>1, <3>3 DEF SameUp, SameDown
    <3>5. /\ net'[c].up = Tail(net[c].up)
          /\ net'[c].down = IF net[c].cOpen THEN Append(net[c].down, f) ELSE net[c].down
      <4>1. n[c].cOpen = net[c].cOpen /\ n[c].lOpen /\ n[c].down = net[c].down
            /\ n[c].up = Tail(net[c].up)
        BY <3>1 DEF SameUp, SameDown, SameCOpen, SameLOpen
      <4> QED BY <3>3, <4>1 DEF SameUp
    <3>6. h'[c] = x /\ \A d \in Conns : d # c => Rests(d)
      BY <2>3, <3>4, OneLeaves
    <3>7. Answers(c)
      BY <1>2, <2>1, <2>3, <3>5, <3>6 DEF Answers, x, f
    <3> QED BY <3>7
  <2> HIDE DEF claim, t, x, f, n
  <2> QED BY <1>7, <2>1, <2>2, <2>3
<1>9. CASE ConnectTarget(c)
  <2>1. h[c].pc = "connecting" /\ c = 1
    BY <1>9 DEF ConnectTarget, LControl, LQuiet, FirstOnly
  <2>2. CASE Moves(c, Greeting) /\ net' = LWrite(net, c, <<Frame("new", 0)>>)
    <3> DEFINE f == Frame("new", 0)
    <3>1. f \in LFrames /\ f \in Frames /\ f.t # "data"
      BY LFramesAre, FrameIs DEF FrameTypes
    <3>2. net' = LWrite(net, c, <<f>>)
      BY <2>2
    <3> HIDE DEF f
    <3>3. /\ SameUp(net, net')
          /\ \A d \in Conns : net'[d].down
               = IF d = c /\ net[d].cOpen /\ net[d].lOpen THEN Append(net[d].down, f)
                                                          ELSE net[d].down
      BY <1>1, <3>1, <3>2, WrittenIs
    <3>4. Units(net'[c].down) = Units(net[c].down)
      BY <1>1, <3>1, <3>3, RefusedUnits
    <3>5. h'[c] = Greeting /\ \A d \in Conns : d # c => Rests(d)
      BY <2>2, <3>3, OneLeaves DEF SameUp
    <3> QED BY <1>2, <2>1, <3>3, <3>4, <3>5 DEF Begins, SameUp
  <2>3. CASE h' = [h EXCEPT ![c].pc = "refusing"]
             /\ net' = LFinish(LWrite(net, c, <<Frame("refused", 0)>>), c)
    <3> DEFINE x == [h[c] EXCEPT !.pc = "refusing"]
    <3>1. x.pc = "refusing" /\ Moves(c, x)
      BY <1>1, <2>3 DEF HandlerType, Moves
    <3> HIDE DEF x
    <3>2. /\ \A d \in Conns : d # c => /\ net'[d].down = net[d].down
                                       /\ net'[d].up = net[d].up
          /\ Units(net'[c].down) = Units(net[c].down)
      BY <2>3, RefusalsAre
    <3>3. h'[c] = x /\ \A d \in Conns : d # c => Rests(d)
      BY <3>1, <3>2, OneLeaves
    <3>4. Leaves(c)
      BY <1>3, <2>1, <3>1, <3>2, <3>3 DEF Leaves
    <3> QED BY <1>2, <3>3, <3>4 DEF Hush
  <2> QED BY <1>9, <2>2, <2>3 DEF ConnectTarget, Moves, Greeting
<1> QED BY <1>5, <1>6, <1>8, <1>9

\* park leaves the streams alone, and lets the attachment go or leaves it.
LEMMA ParkHush ==
  ASSUME Types, NEW n, Park(n), UNCHANGED <<handed, sshdIn>>, task'.C = task.C
  PROVE  /\ SameStreams /\ (SameAttachment \/ NoAttachment)
         /\ net' = n \/ net' = CloseConn(n, st.conn)
<1>1. st \in SessionType
  BY DEF Types, LTypes
<1>2. CASE UNCHANGED st /\ net' = n
  BY <1>2 DEF SameStreams, SameAttachment
<1>3. CASE st' = Ended(st) /\ net' = n
  BY <1>1, <1>3, EndedIs DEF SameStreams, SameAttachment
<1>4. CASE st' = Parked(st) /\ net' = CloseConn(n, st.conn)
  BY <1>1, <1>4, ParkedIs DEF SameStreams, NoAttachment
<1> QED BY <1>2, <1>3, <1>4, ParkCases

LEMMA ReaderHush ==
  ASSUME Types, LControl, Undialled, NEW c \in Conns, ClientReader(c) \/ ClientReaderEnd(c)
  PROVE  Hush \/ Takes(c)
<1>1. /\ st \in SessionType /\ h \in [Conns -> HandlerType] /\ net \in NetType
      /\ st.conn \in AnyConn /\ NoConn \in AnyConn
  BY DEF Types, LTypes, SessionType, AnyConn
<1>2. h[c].pc = "reading" /\ net[c].dialed
  BY DEF ClientReader, ClientReaderEnd, Undialled
<1>3. CASE ClientReader(c) /\ ~Superseded(c)
  <2>1. CurrentReader(c) /\ LReadable(c)
    BY <1>3 DEF ClientReader, CurrentReader, Superseded
  <2>2. /\ st' = Apply(st, Head(net[c].up)) /\ net' = LTake(net, c)
        /\ UNCHANGED <<h, task, job, handed, sshdIn, raced>>
    BY <1>3 DEF ClientReader, LTake
  <2> QED BY <2>1, <2>2 DEF Takes
<1>4. ASSUME Handler(c, "done"), UNCHANGED <<task, job, handed, sshdIn, raced>>,
             SameStreams, SameAttachment \/ NoAttachment,
             \/ net' = LClose(net, c) \/ net' = CloseConn(LClose(net, c), st.conn)
      PROVE  Hush
  <2>1. Resting("done").pc = "done" /\ Moves(c, Resting("done"))
    BY <1>4, HandlerIs DEF Handler, Moves, Resting
  <2>2. /\ \A d \in Conns : net'[d].down = net[d].down
        /\ \A d \in Conns : d # c /\ net'[d].lOpen => net'[d].up = net[d].up
    BY <1>1, <1>4, ClosingsAre
  <2>3. h'[c].pc = "done" /\ \A d \in Conns : d # c => Rests(d)
    BY <2>1, <2>2, OneLeaves
  <2>4. Leaves(c)
    BY <1>2, <2>2, <2>3 DEF Leaves
  <2> QED BY <1>4, <2>3, <2>4 DEF Hush, SameJob
<1>5. CASE ClientReader(c) /\ Superseded(c)
  <2>1. /\ Handler(c, "done") /\ net' = LClose(net, c)
        /\ UNCHANGED <<st, task, job, handed, sshdIn, raced>>
    BY <1>5 DEF ClientReader, Return
  <2>2. SameStreams /\ SameAttachment
    BY <2>1 DEF SameStreams, SameAttachment
  <2> QED BY <1>4, <2>1, <2>2
<1>6. CASE ClientReaderEnd(c)
  <2>1. /\ Handler(c, "done") /\ UNCHANGED <<task, job, handed, sshdIn, raced>>
        /\ \/ net' = LClose(net, c) /\ UNCHANGED st
           \/ Park(LClose(net, c))
    BY <1>6 DEF ClientReaderEnd
  <2>2. CASE net' = LClose(net, c) /\ UNCHANGED st
    <3>1. SameStreams /\ SameAttachment
      BY <2>1, <2>2 DEF SameStreams, SameAttachment
    <3> QED BY <1>4, <2>1, <2>2, <3>1
  <2>3. CASE Park(LClose(net, c))
    BY <1>4, <2>1, <2>3, ParkHush
  <2> QED BY <2>1, <2>2, <2>3
<1> QED BY <1>3, <1>5, <1>6

LEMMA RepliedAttaches ==
  ASSUME Types, LControl, NEW c \in Conns, Replied(c)
  PROVE  Attaches(c)
<1>1. /\ st \in SessionType /\ h \in [Conns -> HandlerType] /\ net \in NetType
      /\ st.conn \in AnyConn /\ NoConn \in AnyConn
  BY DEF Types, LTypes, SessionType, AnyConn
<1>2. /\ h[c].pc = "replying" /\ st' = Attach(st, c, h[c].tail)
      /\ Moves(c, Reading(st.generation + 1)) /\ net' = CloseConn(net, st.conn)
      /\ raced' = (raced \/ st.dead \/ st.received # h[c].received
                         \/ st.replay.sent_total # h[c].sent)
      /\ task' = IF h[c].fresh THEN [A |-> "wait", B |-> "idle", C |-> "idle"] ELSE task
      /\ UNCHANGED <<job, handed, sshdIn>>
  BY DEF Replied, Moves, Reading
<1>3. /\ h'[c] = Reading(st.generation + 1)
      /\ \A d \in Conns : d # c => h'[d] = h[d]
  BY <1>1, <1>2 DEF Moves
<1>4. \A d \in Conns : /\ net'[d].down = net[d].down
                       /\ net'[d].lOpen => net'[d].up = net[d].up
  BY <1>1, <1>2, ClosingsAre
<1>5. SameJob
  BY <1>2 DEF SameJob
<1>6. task'.C = "done" <=> task.C = "done"
  <2>1. h[c].fresh => task.C = "none"
    BY <1>2 DEF LControl, LQuiet, FirstOnly
  <2> QED BY <1>2, <2>1
<1> QED BY <1>2, <1>3, <1>4, <1>5, <1>6 DEF Attaches

LEMMA TaskHush ==
  ASSUME Types, Attachment, Borrowing,
         \/ TcpReaderGo \/ TcpReader \/ HostKeyRefused \/ TcpReaderEnd
         \/ ClientWriter \/ ClientWriterOk \/ ClientWriterErr \/ ClientWriterFinish
         \/ ClientWriterExit \/ TcpWriter \/ TcpWriterEnd
         \/ (\E e \in timers : GraceExpired(e)) \/ SshdGone
  PROVE  Hush \/ Records \/ Writes \/ Delivers
<1>1. /\ st \in SessionType /\ net \in NetType /\ task \in TaskType
      /\ st.conn \in AnyConn /\ st.send \in AnyConn /\ job.conn \in AnyConn
  BY DEF Types, LTypes, SessionType
<1>2. ASSUME h' = h, net' = net, UNCHANGED <<handed, sshdIn, raced>>, SameJob,
             st' = st \/ st' = Ended(st), task'.C = "done" \/ task'.C = task.C
      PROVE  Hush
  <2>1. SameStreams /\ SameAttachment
    BY <1>1, <1>2, EndedIs DEF SameStreams, SameAttachment
  <2>2. \A d \in Conns : Rests(d)
    BY <1>2 DEF Rests
  <2> QED BY <1>2, <2>1, <2>2 DEF Hush
<1>3. CASE TcpReaderGo
  BY <1>1, <1>2, <1>3 DEF TcpReaderGo, SameJob, TaskType
<1>4. CASE HostKeyRefused \/ TcpReaderEnd
  <2>1. /\ h' = h /\ net' = net /\ UNCHANGED <<handed, sshdIn, raced, job>>
        /\ st' = Ended(st) /\ task' = [task EXCEPT !.A = "done"]
    BY <1>4 DEF HostKeyRefused, TcpReaderEnd, EndSession, Ended
  <2> QED BY <1>1, <1>2, <2>1 DEF SameJob, TaskType
<1>5. CASE ClientWriterExit \/ TcpWriterEnd \/ SshdGone
  <2>1. task' = task \/ task' = [task EXCEPT !.B = "done"] \/ task' = [task EXCEPT !.C = "done"]
    BY <1>5 DEF ClientWriterExit, TcpWriterEnd, SshdGone
  <2>2. SameJob /\ (task'.C = "done" \/ task'.C = task.C)
    BY <1>1, <1>5, <2>1 DEF ClientWriterExit, TcpWriterEnd, SshdGone, SameJob, TaskType
  <2> QED BY <1>2, <1>5, <2>2 DEF ClientWriterExit, TcpWriterEnd, SshdGone
<1>6. CASE \E e \in timers : GraceExpired(e)
  <2>1. /\ h' = h /\ net' = net /\ UNCHANGED <<handed, sshdIn, raced, job, task>>
        /\ st' = st \/ st' = Ended(st)
    BY <1>6 DEF GraceExpired, Ended
  <2> QED BY <1>2, <2>1 DEF SameJob
<1>7. CASE TcpReader
  <2>1. PICK last \in {FALSE, Hangups} :
          LET u == IF last THEN Bye ELSE Len(handed) + 1
          IN  /\ st' = [st EXCEPT !.replay = Sent(@, <<u>>),
                                  !.outq = Append(@, Frame("data", u))]
              /\ handed' = Append(handed, u)
              /\ sshd' = IF last THEN "gone" ELSE "up"
    BY <1>7 DEF TcpReader
  <2> DEFINE u == IF last THEN Bye ELSE Len(handed) + 1
  <2>2. u \in Nat
    BY LenProperties DEF Bye, Types, LTypes
  <2>3. st' = Recorded(st, u) /\ handed' = Append(handed, u)
    BY <2>1 DEF Recorded
  <2> HIDE DEF u
  <2>4. task' = [task EXCEPT !.A = AtWait] /\ UNCHANGED <<job, h, sshdIn, raced, net>>
    BY <1>7 DEF TcpReader
  <2> QED BY <1>1, <2>2, <2>3, <2>4 DEF Records, SameJob, TaskType
<1>8. CASE ClientWriter
  <2>1. st.send \in Conns
    BY <1>1, <1>8 DEF ClientWriter, AnyConn
  <2> QED BY <1>1, <1>8, <2>1 DEF ClientWriter, Writes, Borrowed, TaskType
<1>9. CASE ClientWriterOk
  <2>1. /\ task.B = "writing" /\ st' = IF Abandoned(job) THEN st ELSE PutBack(st, job.conn)
        /\ task' = [task EXCEPT !.B = "idle"] /\ h' = h /\ net' = net
        /\ UNCHANGED <<handed, sshdIn, raced>>
    BY <1>9 DEF ClientWriterOk, PutBack
  <2>2. task'.B = "idle" /\ task'.C = task.C
    BY <1>1, <2>1 DEF TaskType
  <2>3. SameJob
    BY <2>2 DEF SameJob
  <2>4. CASE Abandoned(job)
    BY <1>2, <2>1, <2>2, <2>3, <2>4
  <2>5. CASE ~Abandoned(job)
    <3>1. job.conn = st.conn /\ st' = PutBack(st, job.conn)
      BY <2>1, <2>5 DEF Borrowing, Abandoned
    <3>2. SameStreams /\ SameAttachment
      BY <1>1, <2>1, <2>2, <3>1, PutBackIs DEF SameStreams, SameAttachment
    <3>3. \A d \in Conns : Rests(d)
      BY <2>1 DEF Rests
    <3> QED BY <2>1, <2>3, <3>2, <3>3 DEF Hush
  <2> QED BY <2>4, <2>5
<1>10. CASE ClientWriterErr
  <2>1. /\ UNCHANGED <<st, net>> \/ Park(net)
        /\ task' = [task EXCEPT !.B = "idle"] /\ h' = h
        /\ UNCHANGED <<handed, sshdIn, raced>>
    BY <1>10 DEF ClientWriterErr
  <2>2. task'.B = "idle" /\ task'.C = task.C
    BY <1>1, <2>1 DEF TaskType
  <2>3. SameJob
    BY <2>2 DEF SameJob
  <2>4. CASE UNCHANGED <<st, net>>
    BY <1>2, <2>1, <2>2, <2>3, <2>4
  <2>5. CASE Park(net)
    <3>1. /\ SameStreams /\ (SameAttachment \/ NoAttachment)
          /\ net' = net \/ net' = CloseConn(net, st.conn)
      BY <2>1, <2>2, <2>5, ParkHush
    <3>2. 1 \in Conns
      BY WireBoundsAssumption DEF Conns
    <3>3. \A d \in Conns : /\ net'[d].down = net[d].down
                           /\ net'[d].lOpen => net'[d].up = net[d].up
      BY <1>1, <3>1, <3>2, ClosingsAre
    <3>4. \A d \in Conns : Rests(d)
      BY <2>1, <3>3 DEF Rests
    <3> QED BY <2>1, <2>3, <3>1, <3>4 DEF Hush
  <2> QED BY <2>1, <2>4, <2>5
<1>11. CASE ClientWriterFinish
  <2>1. /\ st.send \in Conns /\ net' = LFinish(net, st.send) /\ st' = LetGo(st)
        /\ task' = [task EXCEPT !.B = "done"] /\ h' = h
        /\ UNCHANGED <<handed, sshdIn, raced>>
    BY <1>1, <1>11 DEF ClientWriterFinish, AnyConn, LetGo
  <2>2. task'.B = "done" /\ task'.C = task.C
    BY <1>1, <2>1 DEF TaskType
  <2>3. SameJob
    BY <2>2 DEF SameJob
  <2>4. SameStreams /\ NoAttachment
    BY <1>1, <2>1, <2>2, LetGoIs DEF SameStreams, NoAttachment
  <2>5. SameUp(net, net') /\ SameDown(net, net')
    BY <1>1, <2>1, LFinishIs
  <2>6. \A d \in Conns : Rests(d)
    BY <2>1, <2>5 DEF Rests, SameUp, SameDown
  <2> QED BY <2>1, <2>3, <2>4, <2>6 DEF Hush
<1>12. CASE TcpWriter
  <2>1. CASE sshd = "up"
    BY <1>12, <2>1 DEF TcpWriter, Delivers, Taken
  <2>2. CASE sshd = "gone"
    <3>1. /\ st.inq # <<>> /\ st' = Ended(Taken(st)) /\ task' = [task EXCEPT !.C = "done"]
          /\ UNCHANGED <<h, job, handed, sshdIn, raced, net>>
      <4>1. [st EXCEPT !.inq = Tail(@), !.dead = TRUE]
              = [[st EXCEPT !.inq = Tail(@)] EXCEPT !.dead = TRUE]
        BY <1>1 DEF SessionType
      <4> QED BY <1>12, <2>2, <4>1 DEF TcpWriter, Ended, Taken
    <3>2. Taken(st) \in SessionType
      BY <1>1, <3>1, TakenIs
    <3>3. task'.C = "done" /\ task'.B = task.B
      BY <1>1, <3>1 DEF TaskType
    <3>4. SameStreams /\ SameAttachment
      BY <1>1, <3>1, <3>2, <3>3, TakenIs, EndedIs DEF SameStreams, SameAttachment
    <3>5. \A d \in Conns : Rests(d)
      BY <3>1 DEF Rests
    <3> QED BY <3>1, <3>3, <3>4, <3>5 DEF Hush, SameJob
  <2> QED BY <1>12, <2>1, <2>2 DEF TcpWriter
<1> QED BY <1>3, <1>4, <1>5, <1>6, <1>7, <1>8, <1>9, <1>10, <1>11, <1>12

\* Every step of the listener is one of these.
LEMMA ListenerCases ==
  ASSUME Types, LControl, Undialled, Attachment, Borrowing, ListenerStep
  PROVE  \/ Hush \/ Begins \/ Records \/ Writes \/ Delivers
         \/ \E c \in Conns : Answers(c) \/ Attaches(c) \/ Takes(c)
<1>1. ASSUME NEW c \in Conns,
             \/ StartSession(c) \/ ConnectTarget(c) \/ ResumeSession(c) \/ HelloLost(c)
             \/ ReplyFailed(c) \/ Lingered(c)
      PROVE  Hush \/ Begins \/ Answers(c)
  BY <1>1, HandlerHush
<1>2. ASSUME NEW c \in Conns, ClientReader(c) \/ ClientReaderEnd(c)
      PROVE  Hush \/ Takes(c)
  BY <1>2, ReaderHush
<1>3. ASSUME NEW c \in Conns, Replied(c) PROVE Attaches(c)
  BY <1>3, RepliedAttaches
<1> QED BY <1>1, <1>2, <1>3, TaskHush DEF ListenerStep

-----------------------------------------------------------------------------
(* What a step of the client does to the streams, the connections and the loops.   *)

\* A connection the step at most closes, or dials and gives up at once.
Idles(d) ==
  /\ net'[d].cOpen => net[d].cOpen /\ net'[d].down = net[d].down
  /\ \/ net'[d].up = net[d].up /\ (net'[d].lOpen <=> net[d].lOpen)
     \/ ~net[d].dialed /\ net'[d].up = <<>> /\ ~net'[d].cOpen

\* A loop that leaves its handshake closes its connection, and one that begins closes
\* the session's.
LoopsClose ==
  \A s \in Slots :
    /\ loops'[s].pc = "handshake" => loops[s].pc = "handshake" /\ loops'[s].conn = loops[s].conn
    /\ loops[s].pc = "handshake"
         => loops'[s].pc = "handshake" \/ ~net'[loops[s].conn].cOpen
    /\ loops'[s].pc \in {"dialing", "backoff"}
         => \/ loops[s].pc \in {"dialing", "handshake", "backoff"}
            \/ ~net'[inner.conn].cOpen

\* Nothing moves, but the page may type.
SameTyping == inner'.outbox = inner.outbox /\ typed' = typed
TypesMore == /\ connect = "up" /\ inner'.outbox = Append(inner.outbox, typed + 1)
             /\ typed' = typed + 1
SameTasks == /\ connect' = "up" <=> connect = "up"
             /\ \A d \in Conns : reader'[d] = "none" <=> reader[d] = "none"
CHush ==
  /\ inner'.conn = inner.conn /\ inner'.replay = inner.replay
  /\ inner'.received = inner.received /\ fed' = fed
  /\ SameTyping \/ TypesMore
  /\ SameTasks /\ LoopsClose /\ \A d \in Conns : Idles(d)

\* The first connection is installed, a resume's is dialed, and installed.
Starts ==
  /\ connect = "pending" /\ CReadable(1) /\ Head(net[1].down).t = "new"
  /\ connect' = "up" /\ reader' = [reader EXCEPT ![1] = "reading"]
  /\ net' = CTake(net, 1) /\ UNCHANGED <<inner, loops, fed, typed>>
Dials(s, c) ==
  /\ loops[s].pc = "dialing" /\ c \in Conns /\ ~net[c].dialed
  /\ net' = Dialed(net, c, Frame("resume", inner.received))
  /\ loops' = [loops EXCEPT ![s].pc = "handshake", ![s].conn = c]
  /\ UNCHANGED <<inner, connect, reader, fed, typed>>
Installs(s, c) ==
  /\ loops[s].pc = "handshake" /\ c = loops[s].conn /\ CReadable(c)
  /\ LET n == Head(net[c].down).n
     IN  /\ Head(net[c].down).t = "resumed" /\ HasTail(inner.replay, n)
         /\ inner' = Adopted(Trimmed(inner, n), c)
         /\ net' = CWrite(CTake(net, c), c, DataFrames(TailFrom(inner.replay, n)))
  /\ reader' = [reader EXCEPT ![c] = "reading"]
  /\ loops' = [loops EXCEPT ![s] = NoLoop] /\ UNCHANGED <<connect, fed, typed>>

\* The three that move a unit or an ACK.
Working == connect = "up" /\ UNCHANGED <<connect, loops, typed>>
Consumes ==
  /\ Working /\ CReadable(inner.conn) /\ UNCHANGED reader
  /\ inner' = Consume(inner, Head(net[inner.conn].down))
  /\ fed' = IF Head(net[inner.conn].down).t = "data"
            THEN Append(fed, Head(net[inner.conn].down).n) ELSE fed
  /\ net' = CTake(net, inner.conn)
Acknowledges ==
  /\ Working /\ inner' = AckSent(inner) /\ UNCHANGED <<reader, fed>>
  /\ net' = CWrite(net, inner.conn, <<Frame("ack", inner.received)>>)
Sends ==
  /\ Working /\ inner.outbox # <<>> /\ inner' = UnitSent(inner) /\ UNCHANGED <<reader, fed>>
  /\ net' = CWrite(net, inner.conn, <<Frame("data", Head(inner.outbox))>>)

LEMMA ClosesIdle ==
  ASSUME net \in NetType, NEW c \in Conns, net' = net \/ net' = CClose(net, c)
  PROVE  /\ \A d \in Conns : Idles(d)
         /\ net' = CClose(net, c) => ~net'[c].cOpen
<1>1. CASE net' = net
  <2>1. \A d \in Conns : Idles(d)
    BY <1>1 DEF Idles
  <2>2. net' = CClose(net, c) => ~net'[c].cOpen
    BY CCloseIs
  <2> QED BY <2>1, <2>2
<1>2. CASE net' = CClose(net, c)
  <2>1. /\ SameUp(net, net') /\ SameLOpen(net, net')
        /\ \A d \in Conns : /\ net'[d].cOpen <=> d # c /\ net[d].cOpen
                            /\ net'[d].down = IF d = c THEN <<>> ELSE net[d].down
    BY <1>2, CCloseIs
  <2> QED BY <2>1 DEF Idles, SameUp, SameLOpen
<1> QED BY <1>1, <1>2

LEMMA LinkLostHush ==
  ASSUME Types, CControl, NEW g \in Nat, LinkLost(g, net), UNCHANGED <<fed, typed>>,
         SameTasks
  PROVE  CHush
<1>1. inner \in InnerType /\ inner.conn \in Conns /\ net \in NetType
  BY DEF Types, CTypes, InnerType
<1>2. /\ SameData(inner, inner') /\ SameLink(inner, inner')
      /\ \/ loops' = loops /\ net' = net
         \/ NoLoops /\ net' = CClose(net, inner.conn) /\ (NoLoops' \/ Dialing')
  BY <1>1, LinkLostIs DEF CControl
<1>3. /\ \A d \in Conns : Idles(d)
      /\ net' = CClose(net, inner.conn) => ~net'[inner.conn].cOpen
  BY <1>1, <1>2, ClosesIdle
<1>4. LoopsClose
  <2>1. CASE loops' = loops
    BY <2>1 DEF LoopsClose
  <2>2. CASE NoLoops /\ ~net'[inner.conn].cOpen /\ (NoLoops' \/ Dialing')
    <3>1. \A s \in Slots : loops'[s].pc \in {"none", "dialing"}
      BY <2>2 DEF NoLoops, Dialing
    <3> QED BY <2>2, <3>1 DEF LoopsClose, NoLoops
  <2> QED BY <1>2, <1>3, <2>1, <2>2
<1>5. SameTyping
  BY <1>2 DEF SameTyping, SameData
<1> QED BY <1>2, <1>3, <1>4, <1>5 DEF CHush, SameData, SameLink

LEMMA LoopHush ==
  ASSUME Types, CControl, NEW s \in Slots,
         \/ LoopSpawned(s) \/ BackedOff(s) \/ DialFailed(s) \/ HandshakeFailed(s)
  PROVE  CHush
<1>1. /\ inner \in InnerType /\ inner.conn \in Conns /\ net \in NetType
      /\ \A t \in Slots : loops[t].pc = "handshake" => loops[t].conn \in Conns
  BY DEF Types, CTypes, InnerType
<1>2. /\ loops[s].pc # "none" /\ TasksIdle /\ SameTasks
      /\ \A t \in Slots : t # s => loops[t].pc = "none"
  <2>1. loops[s].pc # "none" /\ TasksIdle
    BY DEF LoopSpawned, BackedOff, DialFailed, HandshakeFailed, TasksIdle, LoopUnchanged
  <2> QED BY <2>1, LoopTask DEF TasksIdle, SameTasks
<1>3. CASE LoopSpawned(s) \/ BackedOff(s)
  <2>1. /\ inner' = LoopTop(inner, loops[s]).inner
        /\ SetLoop(s, LoopTop(inner, loops[s]).pc, loops[s])
        /\ \/ loops[s].pc = "spawned" /\ net' = CClose(net, inner.conn)
           \/ loops[s].pc = "backoff" /\ net' = net
    BY <1>3 DEF LoopSpawned, BackedOff
  <2>2. /\ SameData(inner, inner') /\ SameLink(inner, inner')
        /\ \A t \in Slots : loops'[t].pc \notin {"handshake", "spawned"}
    BY <1>2, <2>1, LoopPass
  <2>3. /\ \A d \in Conns : Idles(d)
        /\ net' = CClose(net, inner.conn) => ~net'[inner.conn].cOpen
    BY <1>1, <2>1, ClosesIdle
  <2>4. \A t \in Slots : t # s => loops'[t] = loops[t]
    BY <2>1 DEF SetLoop, Types, CTypes
  <2>5. LoopsClose
    BY <1>2, <2>1, <2>2, <2>3, <2>4 DEF LoopsClose
  <2>6. SameTyping
    BY <1>2, <2>2 DEF SameTyping, SameData, TasksIdle
  <2> QED BY <1>2, <2>2, <2>3, <2>5, <2>6 DEF CHush, SameData, SameLink, TasksIdle
<1>4. CASE DialFailed(s) \/ HandshakeFailed(s)
  <2>1. PICK n : /\ \/ Abandons(inner, loops[s].gen) /\ Abandon(s, n)
                    \/ Retry(s, n)
                 /\ \/ loops[s].pc = "dialing" /\ n = net
                    \/ loops[s].pc = "handshake" /\ n = CClose(net, loops[s].conn)
    BY <1>4 DEF DialFailed, HandshakeFailed
  <2>2. /\ inner' = inner /\ net' = n
        /\ \A t \in Slots : loops'[t].pc \notin {"handshake", "spawned", "dialing"}
    BY <1>2, <2>1, LoopFails
  <2>3. /\ \A d \in Conns : Idles(d)
        /\ loops[s].pc = "handshake" => ~net'[loops[s].conn].cOpen
    <3>1. CASE loops[s].pc = "dialing" /\ n = net
      BY <1>1, <2>2, <3>1, ClosesIdle
    <3>2. CASE loops[s].pc = "handshake" /\ n = CClose(net, loops[s].conn)
      BY <1>1, <2>2, <3>2, ClosesIdle
    <3> QED BY <2>1, <3>1, <3>2
  <2>4. \A t \in Slots : t # s => loops'[t] = loops[t]
    BY <2>1 DEF Abandon, Retry, Types, CTypes
  <2>5. LoopsClose
    BY <1>2, <2>1, <2>2, <2>3, <2>4 DEF LoopsClose
  <2>6. SameTyping
    BY <1>2, <2>2 DEF SameTyping, TasksIdle
  <2> QED BY <1>2, <2>2, <2>3, <2>5, <2>6 DEF CHush, TasksIdle
<1> QED BY <1>3, <1>4

LEMMA DialCases ==
  ASSUME Types, CControl, NEW s \in Slots, DialOk(s)
  PROVE  CHush \/ \E c \in Conns : Dials(s, c)
<1> DEFINE c == NextConn
           f == Frame("resume", inner.received)
           n == Dialed(net, c, f)
<1>1. /\ inner \in InnerType /\ net \in NetType /\ c \in Conns /\ ~net[c].dialed
      /\ f \in Frames /\ loops[s].pc = "dialing" /\ loops \in [Slots -> LoopType]
  BY NextConnIs, FrameIs DEF Types, CTypes, InnerType, DialOk, FrameTypes
<1>2. TasksIdle /\ \A t \in Slots : t # s => loops[t].pc = "none"
  <2>1. loops[s].pc # "none" /\ TasksIdle
    BY <1>1 DEF DialOk, TasksIdle, LoopUnchanged
  <2> QED BY <2>1, LoopTask
<1>3. \/ Abandon(s, CClose([n EXCEPT ![c].up = <<>>], c))
      \/ /\ net' = n /\ UNCHANGED inner
         /\ loops' = [loops EXCEPT ![s].pc = "handshake", ![s].conn = c]
  BY DEF DialOk
<1>4. /\ n \in NetType /\ n[c].dialed /\ n[c].lOpen /\ \A d \in Conns : d # c => n[d] = net[d]
  <2> HIDE DEF c, f
  <2> QED BY <1>1, DialedIs
<1> HIDE DEF n
<1>5. CASE Abandon(s, CClose([n EXCEPT ![c].up = <<>>], c))
  <2>1. /\ inner' = inner /\ loops' = [loops EXCEPT ![s] = NoLoop]
        /\ net' = CClose([n EXCEPT ![c].up = <<>>], c)
    BY <1>5 DEF Abandon
  <2> HIDE DEF c
  <2>2. /\ \A d \in Conns : d # c => net'[d] = n[d]
        /\ net'[c].up = <<>> /\ ~net'[c].cOpen
    BY <1>1, <1>4, <2>1, AbandonedDialIs
  <2>3. \A d \in Conns : Idles(d)
    BY <1>1, <1>4, <2>2 DEF Idles
  <2>4. LoopsClose
    <3>1. loops'[s].pc = "none" /\ \A t \in Slots : t # s => loops'[t] = loops[t]
      BY <1>1, <2>1 DEF NoLoop
    <3> QED BY <1>1, <3>1 DEF LoopsClose
  <2>5. SameTyping /\ SameTasks
    BY <1>2, <2>1 DEF SameTyping, SameTasks, TasksIdle
  <2> QED BY <1>2, <2>1, <2>3, <2>4, <2>5 DEF CHush, TasksIdle
<1>6. CASE /\ net' = n /\ UNCHANGED inner
           /\ loops' = [loops EXCEPT ![s].pc = "handshake", ![s].conn = c]
  <2>1. Dials(s, c)
    BY <1>1, <1>2, <1>6 DEF Dials, TasksIdle, n
  <2> QED BY <1>1, <2>1
<1> QED BY <1>3, <1>5, <1>6

LEMMA HandshakeCases ==
  ASSUME Types, CControl, NEW s \in Slots, HandshakeReply(s)
  PROVE  CHush \/ \E c \in Conns : Installs(s, c)
<1> DEFINE c == loops[s].conn
           f == Head(net[c].down)
<1>1. /\ inner \in InnerType /\ net \in NetType /\ loops[s].pc = "handshake"
      /\ c \in Conns /\ CReadable(c) /\ loops \in [Slots -> LoopType]
      /\ UNCHANGED <<connect, fed, typed>>
  BY DEF HandshakeReply, Types, CTypes
<1>2. \A t \in Slots : t # s => loops[t].pc = "none"
  BY <1>1, LoopTask
<1>3. f.n \in Nat
  <2> HIDE DEF c
  <2> QED BY <1>1, NetFields, HeadFrames DEF CReadable
<1>4. CASE /\ inner' = inner \/ inner' = DeclareDead(inner)
           /\ net' = CClose(net, c) /\ loops' = [loops EXCEPT ![s] = NoLoop]
           /\ UNCHANGED reader
  <2>1. /\ inner'.conn = inner.conn /\ inner'.replay = inner.replay
        /\ inner'.received = inner.received /\ inner'.outbox = inner.outbox
    BY <1>1, <1>4, DeclareDeadIs
  <2>2. (\A d \in Conns : Idles(d)) /\ ~net'[c].cOpen
    <3> HIDE DEF c
    <3> QED BY <1>1, <1>4, ClosesIdle
  <2>3. LoopsClose
    <3>1. loops'[s].pc = "none" /\ \A t \in Slots : t # s => loops'[t] = loops[t]
      BY <1>1, <1>4 DEF NoLoop
    <3> QED BY <1>1, <2>2, <3>1 DEF LoopsClose
  <2>4. SameTyping /\ SameTasks
    BY <1>1, <1>4, <2>1 DEF SameTyping, SameTasks
  <2> QED BY <1>1, <2>1, <2>2, <2>3, <2>4 DEF CHush
<1>5. CASE /\ f.t = "resumed" /\ HasTail(inner.replay, f.n)
           /\ Install(s, c, Trimmed(inner, f.n), TailFrom(inner.replay, f.n))
  <2> DEFINE tail == TailFrom(inner.replay, f.n)
  <2>1. tail \in Seq(Nat)
    BY <1>1, <1>3, <1>5, TailFromType DEF InnerType
  <2>2. [k \in 1..Len(tail) |-> Frame("data", tail[k])] = DataFrames(tail)
    <3> HIDE DEF tail
    <3> QED BY <2>1, TailFrames
  <2>3. /\ net' = CWrite([net EXCEPT ![c].down = Tail(@)], c,
                         [k \in 1..Len(tail) |-> Frame("data", tail[k])])
        /\ inner' = Adopted(Trimmed(inner, f.n), c)
        /\ reader' = [reader EXCEPT ![c] = "reading"]
        /\ loops' = [loops EXCEPT ![s] = NoLoop]
    BY <1>5 DEF Install, Adopted
  <2>4. net' = CWrite(CTake(net, c), c, DataFrames(tail))
    <3> HIDE DEF tail, f
    <3> QED BY <2>2, <2>3 DEF CTake
  <2>5. Installs(s, c)
    BY <1>1, <1>5, <2>3, <2>4 DEF Installs
  <2> QED BY <1>1, <2>5
<1> QED BY <1>1, <1>4, <1>5 DEF HandshakeReply, Abandon, Trimmed

LEMMA PageHush ==
  ASSUME Types, CControl, WriteInput \/ Suspend \/ Wake \/ Detach
  PROVE  CHush
<1>1. /\ inner \in InnerType /\ net \in NetType /\ inner.conn \in Conns /\ typed \in Nat
      /\ UNCHANGED <<connect, reader, fed>>
  BY DEF Types, CTypes, InnerType, WriteInput, Suspend, Wake, Detach
<1>2. connect = "up" /\ SameTasks
  BY <1>1 DEF WriteInput, Suspend, Wake, Detach, CControl, Beginning, SameTasks
<1>3. net' = net \/ net' = CClose(net, inner.conn)
  BY DEF WriteInput, Suspend, Wake, Detach
<1>4. \A d \in Conns : Idles(d)
  BY <1>1, <1>3, ClosesIdle
<1>5. LoopsClose
  <2>1. CASE loops' = loops
    BY <2>1 DEF LoopsClose
  <2>2. ASSUME Wake, loops' # loops PROVE LoopsClose
    <3>1. ~inner.resuming /\ SpawnLoop(inner.generation)
      BY <1>1, <2>2 DEF Wake, InnerType
    <3>2. NoLoops /\ FreeSlot \in Slots
      BY <3>1, FreeSlotIs DEF CControl, LoopsAtWork, NoLoops
    <3> DEFINE l == [NoLoop EXCEPT !.gen = inner.generation]
    <3>3. l \in LoopType
      BY <1>1, NewLoopIs DEF InnerType
    <3>4. SetLoop(FreeSlot, "spawned", l)
      BY <3>1 DEF SpawnLoop
    <3> HIDE DEF l
    <3>5. /\ \A t \in Slots : t # FreeSlot => loops'[t].pc = "none"
          /\ loops'[FreeSlot].pc = "spawned"
      BY <3>2, <3>3, <3>4, SetLoopIs DEF NoLoops
    <3> QED BY <3>2, <3>5 DEF LoopsClose, NoLoops
  <2>3. loops' = loops \/ Wake
    BY DEF WriteInput, Suspend, Wake, Detach
  <2> QED BY <2>1, <2>2, <2>3
<1>6. /\ inner'.conn = inner.conn /\ inner'.replay = inner.replay
      /\ inner'.received = inner.received
  BY <1>1 DEF WriteInput, Suspend, Wake, Detach, InnerType
<1>7. SameTyping \/ TypesMore
  <2>1. CASE WriteInput
    <3>1. inner'.outbox = Append(inner.outbox, typed + 1) /\ typed' = typed + 1
      BY <1>1, <2>1 DEF WriteInput, InnerType
    <3> QED BY <1>2, <3>1 DEF TypesMore
  <2>2. CASE Suspend \/ Wake
    BY <1>1, <2>2 DEF SameTyping, Suspend, Wake, InnerType
  <2>3. CASE Detach
    <3>1. PICK u \in {<<>>, <<typed + 1>>} :
            /\ inner' = [inner EXCEPT !.detached = TRUE, !.outbox = @ \o u]
            /\ typed' = typed + Len(u)
      BY <2>3 DEF Detach
    <3>2. inner'.outbox = inner.outbox \o u /\ inner.outbox \in Seq(Nat)
      BY <1>1, <3>1 DEF InnerType
    <3>3. CASE u = <<>>
      BY <1>1, <3>1, <3>2, <3>3, EmptySeq, ConcatEmptySeq DEF SameTyping
    <3>4. CASE u = <<typed + 1>>
      <4>1. Len(u) = 1 /\ inner.outbox \o u = Append(inner.outbox, typed + 1)
        BY <1>1, <3>2, <3>4, AppendIsConcat
      <4> QED BY <1>2, <3>1, <3>2, <4>1 DEF TypesMore
    <3> QED BY <3>3, <3>4
  <2> QED BY <2>1, <2>2, <2>3
<1> QED BY <1>1, <1>2, <1>4, <1>5, <1>6, <1>7 DEF CHush

\* Every step of the client is one of these.
LEMMA ClientCases ==
  ASSUME Types, CControl, ClientStep
  PROVE  \/ CHush \/ Starts \/ Consumes \/ Acknowledges \/ Sends
         \/ \E s \in Slots, c \in Conns : Dials(s, c) \/ Installs(s, c)
<1>1. /\ inner \in InnerType /\ inner.conn \in Conns /\ net \in NetType /\ 1 \in Conns
      /\ reader \in [Conns -> {"none", "reading", "done"}]
  BY WireBoundsAssumption DEF Types, CTypes, InnerType, Conns
<1>2. ASSUME UNCHANGED <<inner, loops, fed, typed>>, SameTasks,
             NEW c \in Conns, net' = net \/ net' = CClose(net, c)
      PROVE  CHush
  <2>1. \A d \in Conns : Idles(d)
    BY <1>1, <1>2, ClosesIdle
  <2> QED BY <1>2, <2>1 DEF CHush, SameTyping, LoopsClose
<1>3. CASE ConnectReply \/ ConnectLost
  <2>1. \/ Starts
        \/ /\ connect = "pending" /\ connect' = "failed" /\ net' = CClose(net, 1)
           /\ UNCHANGED <<inner, reader, loops, fed, typed>>
    BY <1>3 DEF ConnectReply, ConnectLost, Starts, CTake
  <2> QED BY <1>1, <1>2, <2>1 DEF SameTasks
<1>4. ASSUME NEW c \in Conns, Reader(c) PROVE CHush \/ Consumes
  <2>1. connect = "up" /\ UNCHANGED <<connect, loops, typed>> /\ CReadable(c)
    BY <1>4, TaskRuns DEF Reader
  <2>2. CASE reader[c] = "reading" /\ reader' = [reader EXCEPT ![c] = "done"]
             /\ UNCHANGED <<inner, fed, net>>
    <3>1. SameTasks
      BY <1>1, <2>1, <2>2 DEF SameTasks
    <3> QED BY <1>2, <2>1, <2>2, <3>1
  <2>3. CASE /\ c = inner.conn /\ inner' = Consume(inner, Head(net[c].down))
             /\ fed' = IF Head(net[c].down).t = "data"
                       THEN Append(fed, Head(net[c].down).n) ELSE fed
             /\ net' = CTake(net, c) /\ reader' = reader
    BY <2>1, <2>3 DEF Consumes, Working
  <2>4. reader[c] = "reading"
    BY <1>4 DEF Reader
  <2> QED BY <1>4, <2>2, <2>3, <2>4, ReaderIs
<1>5. ASSUME NEW c \in Conns, ReaderEnd(c) \/ WriterErr(c) PROVE CHush
  <2>1. connect = "up" /\ gen[c] \in Nat
    BY <1>5, TaskRuns DEF ReaderEnd, WriterErr
  <2>2. LinkLost(gen[c], net) /\ UNCHANGED <<fed, typed>>
    BY <1>5 DEF ReaderEnd, WriterErr
  <2>3. SameTasks
    BY <1>1, <1>5 DEF ReaderEnd, WriterErr, SameTasks
  <2> QED BY <2>1, <2>2, <2>3, LinkLostHush
<1>6. CASE KeepaliveDead
  <2>1. inner.generation \in Nat
    BY <1>1 DEF InnerType
  <2>2. LinkLost(inner.generation, net) /\ UNCHANGED <<fed, typed>> /\ SameTasks
    BY <1>6 DEF KeepaliveDead, LoopUnchanged, SameTasks
  <2> QED BY <2>1, <2>2, LinkLostHush
<1>7. ASSUME NEW c \in Conns, WriterWoken(c) \/ WriterOk(c)
      PROVE  CHush \/ Acknowledges \/ Sends
  <2>1. /\ UNCHANGED <<connect, reader, gen, loops, fed, typed>>
        /\ writer[c] \in {"waiting", "writing"}
        /\ \/ UNCHANGED <<inner, net>>
           \/ gen[c] = inner.generation /\ WriterTurn(c)
    BY <1>7 DEF WriterWoken, WriterOk, Retire, Stale
  <2>2. connect = "up" /\ (gen[c] = inner.generation => c = inner.conn) /\ SameTasks
    BY <2>1, TaskRuns DEF SameTasks
  <2>3. CASE UNCHANGED <<inner, net>>
    BY <1>2, <2>1, <2>2, <2>3
  <2>4. CASE c = inner.conn /\ WriterTurn(c)
    <3>1. \/ /\ inner' = AckSent(inner)
             /\ net' = CWrite(net, c, <<Frame("ack", inner.received)>>)
          \/ /\ inner.outbox # <<>> /\ inner' = UnitSent(inner)
             /\ net' = CWrite(net, c, <<Frame("data", Head(inner.outbox))>>)
          \/ UNCHANGED <<inner, net>>
      BY <2>4, WriterTurnIs
    <3> QED BY <2>1, <2>2, <2>3, <2>4, <3>1 DEF Acknowledges, Sends, Working
  <2> QED BY <2>1, <2>2, <2>3, <2>4
<1>8. CASE WriteInput \/ Suspend \/ Wake \/ Detach
  BY <1>8, PageHush
<1> QED BY <1>3, <1>4, <1>5, <1>6, <1>7, <1>8, LoopHush, DialCases, HandshakeCases
        DEF ClientStep

-----------------------------------------------------------------------------
(* The path and the attachment are kept.                                            *)

ListenerMoves ==
  /\ UNCHANGED cvars /\ ListenerNet(net, net')
  /\ \/ Hush \/ Begins \/ Records \/ Writes \/ Delivers
     \/ \E c \in Conns : Answers(c) \/ Attaches(c) \/ Takes(c)
ClientMoves ==
  /\ UNCHANGED lvars /\ ClientNet(net, net')
  /\ \/ CHush \/ Starts \/ Consumes \/ Acknowledges \/ Sends
     \/ \E s \in Slots, c \in Conns : Dials(s, c) \/ Installs(s, c)

Way == Path /\ Attachment /\ Borrowing

\* A lost connection is a closing like any other.
LEMMA LossMoves ==
  ASSUME Types, NEW c \in Conns, Lose(c), UNCHANGED <<lvars, cvars>>
  PROVE  ListenerMoves \/ ClientMoves
<1>1. net \in NetType /\ NoConn \in AnyConn
  BY DEF Types, AnyConn
<1>2. CASE net' = CClose(net, c)
  <2>1. \A d \in Conns : Idles(d)
    BY <1>1, <1>2, ClosesIdle
  <2>2. CHush
    BY <2>1 DEF CHush, SameTyping, SameTasks, LoopsClose, cvars
  <2>3. ClientNet(net, net')
    BY <1>2, ClientNetOps, EmptySeq
  <2> QED BY <2>2, <2>3 DEF ClientMoves
<1>3. CASE net' = LClose(net, c)
  <2>1. SameDown(net, net') /\ \A d \in Conns : net'[d].lOpen => d # c /\ net'[d].up = net[d].up
    BY <1>1, <1>3, LCloseIs
  <2>2. \A d \in Conns : Rests(d)
    BY <2>1 DEF Rests, SameDown, lvars
  <2>3. Hush
    BY <2>2 DEF Hush, SameStreams, SameAttachment, SameJob, lvars
  <2>4. ListenerNet(net, net')
    BY <1>1, <1>3, ListenerNetOps, LFramesAre
  <2> QED BY <2>3, <2>4 DEF ListenerMoves
<1> QED BY <1>2, <1>3 DEF Lose

LEMMA NextMoves ==
  ASSUME Control, Way, [Next]_vars
  PROVE  ListenerMoves \/ ClientMoves
<1>1. CASE ListenerStep /\ ClientIdle
  BY <1>1, ListenerNets, ListenerCases DEF Control, Way, Path, ListenerMoves, ClientIdle
<1>2. CASE ClientStep /\ ListenerIdle
  BY <1>2, ClientNets, ClientCases DEF Control, ClientMoves, ListenerIdle
<1>3. ASSUME NEW c \in Conns, Lose(c), UNCHANGED <<lvars, cvars>>
      PROVE  ListenerMoves \/ ClientMoves
  BY <1>3, LossMoves DEF Control
<1>4. CASE UNCHANGED vars
  <2>1. ListenerNet(net, net')
    BY <1>4 DEF ListenerNet, vars
  <2>2. Hush
    BY <1>4 DEF Hush, SameStreams, SameAttachment, SameJob, Rests, vars, lvars
  <2> QED BY <1>4, <2>1, <2>2 DEF ListenerMoves, vars
<1> QED BY <1>1, <1>2, <1>3, <1>4, NextSplits

\* What the listener's steps keep of the handlers, whichever they are.
LEMMA HandlersAfter ==
  ASSUME Types, Undialled, Attachment, ListenerMoves, NEW d \in Conns
  PROVE  /\ ~net[d].dialed => h'[d] = h[d]
         /\ h'[d].pc \in {"hello", "connecting"}
              => h[d].pc \in {"hello", "connecting"} /\ net'[d].down = net[d].down
<1>1. \A c \in Conns : h[c].pc # "hello" \/ LReadable(c) => net[c].dialed
  BY DEF Undialled, LReadable
<1>2. CASE Hush
  <2>1. CASE Rests(d)
    BY <2>1 DEF Rests
  <2>2. CASE Leaves(d)
    BY <2>2 DEF Leaves
  <2> QED BY <1>2, <2>1, <2>2 DEF Hush
<1>3. CASE Begins
  <2>1. d = 1 \/ Rests(d)
    BY <1>3 DEF Begins
  <2>2. h[1].pc = "connecting" /\ h'[1].pc = "replying" /\ net[1].dialed
    <3>1. h[1].pc = "connecting" /\ h'[1] = Greeting /\ Greeting.pc = "replying"
      BY <1>3, HandlersAre, EmptySeq DEF Begins
    <3> QED BY <3>1 DEF Undialled
  <2> QED BY <2>1, <2>2 DEF Rests
<1>4. ASSUME NEW c \in Conns, Answers(c)
      PROVE  /\ ~net[d].dialed => h'[d] = h[d]
             /\ h'[d].pc \in {"hello", "connecting"}
                  => h[d].pc \in {"hello", "connecting"} /\ net'[d].down = net[d].down
  <2> DEFINE x == Answering(TailFrom(st.replay, Head(net[c].up).n), st.received,
                            st.replay.sent_total)
  <2>1. h'[c] = x /\ net[c].dialed /\ (d # c => Rests(d))
    BY <1>1, <1>4 DEF Answers
  <2>2. x.pc = "replying"
    BY DEF Answering, NewHandler
  <2> HIDE DEF x
  <2>3. CASE d = c
    BY <2>1, <2>2, <2>3
  <2>4. CASE d # c
    BY <2>1, <2>4 DEF Rests
  <2> QED BY <2>3, <2>4
<1>5. ASSUME NEW c \in Conns, Attaches(c)
      PROVE  /\ ~net[d].dialed => h'[d] = h[d]
             /\ h'[d].pc \in {"hello", "connecting"}
                  => h[d].pc \in {"hello", "connecting"} /\ net'[d].down = net[d].down
  <2>1. h'[c].pc = "reading"
    <3>1. h'[c] = Reading(st.generation + 1)
      BY <1>5 DEF Attaches
    <3> QED BY <3>1 DEF Reading, NewHandler
  <2>2. h[c].pc = "replying"
    BY <1>5 DEF Attaches
  <2> QED BY <1>1, <1>5, <2>1, <2>2 DEF Attaches
<1>6. ASSUME NEW c \in Conns, Takes(c)
      PROVE  h'[d] = h[d] /\ net'[d].down = net[d].down
  <2>1. net' = LTake(net, c) /\ h' = h /\ net[c].up # <<>> /\ net \in NetType
    BY <1>6 DEF Takes, LReadable, Types
  <2> QED BY <2>1, LTakeIs DEF SameDown
<1>7. CASE Records \/ Delivers
  BY <1>7 DEF Records, Delivers
<1>8. CASE Writes
  <2>1. /\ h' = h /\ st.send = st.conn /\ st.send \in Conns /\ st.outq # <<>>
        /\ net' = LWrite(net, st.send, <<Head(st.outq)>>) /\ net \in NetType
    BY <1>8 DEF Writes, Attachment, Types, NoConn, Conns
  <2>2. h[st.send].pc \in {"reading", "done"}
    BY <2>1 DEF Attachment
  <2>3. d # st.send => net'[d].down = net[d].down
    <3>1. Head(st.outq) \in LFrames
      BY <2>1, LFramesAre
    <3> QED BY <2>1, <3>1, WrittenIs
  <2> QED BY <2>1, <2>2, <2>3
<1> QED BY <1>2, <1>3, <1>4, <1>5, <1>6, <1>7, <1>8 DEF ListenerMoves

LEMMA ListenerPath ==
  ASSUME Types, Path, Attachment, ListenerMoves
  PROVE  Path'
<1>1. /\ \A d \in Conns : (net'[d].dialed <=> net[d].dialed) /\ (net'[d].cOpen <=> net[d].cOpen)
      /\ UNCHANGED <<inner, connect, reader, loops, fed, typed>>
  BY DEF ListenerMoves, ListenerNet, cvars
<1>2. \A s \in Slots : loops[s].pc = "handshake" => loops[s].conn \in Conns
  BY DEF Types, CTypes
<1>3. inner.conn \in Conns /\ 1 \in Conns
  BY WireBoundsAssumption DEF Types, CTypes, InnerType, Conns
<1>4. OpenAtClient' /\ OldClosed' /\ Shaking'
  BY <1>1, <1>2, <1>3 DEF Path, OpenAtClient, OldClosed, Shaking, Installed
<1>5. HelloQuiet'
  BY <1>1, HandlersAfter DEF Path, HelloQuiet, Installed
<1>6. Undialled'
  <2>1. net'[1].dialed /\ \A c \in Conns : Installed(c)' => net'[c].dialed
    BY <1>1, <1>3 DEF Path, Undialled, Installed
  <2>2. ASSUME NEW d \in Conns, ~net'[d].dialed
        PROVE  /\ h'[d].pc = "hello" /\ ~net'[d].cOpen /\ ~net'[d].lOpen
               /\ net'[d].up = <<>> /\ net'[d].down = <<>>
    <3>1. /\ ~net[d].dialed /\ h[d].pc = "hello" /\ ~net[d].cOpen /\ ~net[d].lOpen
          /\ net[d].up = <<>> /\ net[d].down = <<>>
      BY <1>1, <2>2 DEF Path, Undialled
    <3>2. h'[d] = h[d]
      BY <3>1, HandlersAfter DEF Path
    <3>3. /\ ~net'[d].cOpen /\ ~net'[d].lOpen /\ net'[d].up = <<>> /\ net'[d].down = <<>>
      BY <3>1 DEF ListenerMoves, ListenerNet
    <3> QED BY <3>1, <3>2, <3>3
  <2> QED BY <2>1, <2>2 DEF Undialled
<1>7. FirstDial'
  BY <1>1 DEF Path, FirstDial, Installed
<1> QED BY <1>4, <1>5, <1>6, <1>7 DEF Path

\* No reader comes to be current but the one that attaches.
LEMMA ListenerAttachment ==
  ASSUME Types, LControl, Undialled, Attachment, Borrowing, ListenerMoves
  PROVE  Attachment' /\ Borrowing'
<1>1. /\ st \in SessionType /\ h \in [Conns -> HandlerType] /\ task \in TaskType
      /\ st.generation \in Nat /\ job.gen \in Nat /\ st.conn \in AnyConn
      /\ NoConn \notin Conns
      /\ \A c \in Conns : h[c].pc = "reading" => h[c].gen <= st.generation /\ h[c].gen \in Nat
      /\ \A c \in Conns : h[c].tail \in Seq(Nat)
  <2>1. NoConn \notin Conns
    BY DEF Conns, NoConn
  <2>2. /\ st \in SessionType /\ h \in [Conns -> HandlerType] /\ task \in TaskType
        /\ st.generation \in Nat /\ job.gen \in Nat /\ st.conn \in AnyConn
    BY DEF Types, LTypes, SessionType
  <2>3. \A c \in Conns : h[c].gen \in Nat /\ h[c].tail \in Seq(Nat)
    BY <2>2 DEF HandlerType
  <2> QED BY <2>1, <2>2, <2>3 DEF LControl, LQuiet, Generations
<1>2. ASSUME \A d \in Conns : h'[d].pc = "reading" => h'[d] = h[d],
             \A d \in Conns : h[d].pc \in {"reading", "done"} => h'[d].pc \in {"reading", "done"},
             SameAttachment \/ NoAttachment
      PROVE  Attachment'
  <2>1. CASE SameAttachment
    <3>1. \A d \in Conns : CurrentReader(d)' => CurrentReader(d)
      BY <1>2, <2>1 DEF CurrentReader, SameAttachment
    <3> QED BY <1>2, <2>1, <3>1 DEF Attachment, SameAttachment
  <2>2. CASE NoAttachment
    <3>1. \A d \in Conns : CurrentReader(d)' => CurrentReader(d)
      BY <1>1, <1>2, <2>2 DEF CurrentReader, NoAttachment
    <3> QED BY <1>1, <1>2, <2>2, <3>1 DEF Attachment, NoAttachment
  <2> QED BY <1>2, <2>1, <2>2
<1>3. ASSUME SameJob, SameAttachment \/ NoAttachment PROVE Borrowing'
  BY <1>1, <1>3 DEF Borrowing, SameJob, SameAttachment, NoAttachment
<1>4. ASSUME h' = h, st'.conn = st.conn, st'.attached = st.attached, st'.send = st.send,
             st'.generation = st.generation
      PROVE  Attachment' /\ (SameJob => Borrowing')
  BY <1>4 DEF Attachment, CurrentReader, Borrowing, SameJob
<1>5. CASE Hush
  <2>1. \A d \in Conns : Rests(d) \/ Leaves(d)
    BY <1>5 DEF Hush
  <2>2. \A d \in Conns : /\ h'[d].pc = "reading" => h'[d] = h[d]
                         /\ h[d].pc \in {"reading", "done"} => h'[d].pc \in {"reading", "done"}
    BY <2>1 DEF Rests, Leaves
  <2> QED BY <1>2, <1>3, <1>5, <2>2 DEF Hush
<1>6. CASE Begins
  <2>1. h'[1].pc = "replying" /\ h[1].pc = "connecting"
    BY <1>6 DEF Begins, Greeting, NewHandler
  <2>2. \A d \in Conns : /\ h'[d].pc = "reading" => h'[d] = h[d]
                         /\ h[d].pc \in {"reading", "done"} => h'[d].pc \in {"reading", "done"}
    BY <1>6, <2>1 DEF Begins, Rests
  <2> QED BY <1>2, <1>3, <1>6, <2>2 DEF Begins
<1>7. ASSUME NEW c \in Conns, Answers(c) PROVE Attachment' /\ Borrowing'
  <2>1. h'[c].pc = "replying" /\ h[c].pc = "hello"
    BY <1>7 DEF Answers, Answering, NewHandler
  <2>2. \A d \in Conns : /\ h'[d].pc = "reading" => h'[d] = h[d]
                         /\ h[d].pc \in {"reading", "done"} => h'[d].pc \in {"reading", "done"}
    BY <1>7, <2>1 DEF Answers, Rests
  <2> QED BY <1>2, <1>3, <1>7, <2>2 DEF Answers
<1>8. ASSUME NEW c \in Conns, Attaches(c) PROVE Attachment' /\ Borrowing'
  <2>1. /\ h'[c] = Reading(st.generation + 1) /\ st' = Attach(st, c, h[c].tail)
        /\ \A d \in Conns : d # c => h'[d] = h[d]
        /\ SameJob
    BY <1>8 DEF Attaches
  <2>2. /\ st'.conn = c /\ st'.send = c /\ st'.attached /\ st'.generation = st.generation + 1
    BY <1>1, <2>1, AttachIs
  <2>3. h'[c].pc = "reading"
    BY <2>1 DEF Reading, NewHandler
  <2>4. \A d \in Conns : CurrentReader(d)' => d = c
    BY <1>1, <2>1, <2>2 DEF CurrentReader
  <2>5. Attachment'
    BY <1>1, <2>2, <2>3, <2>4 DEF Attachment
  <2>6. Borrowing'
    BY <1>1, <2>1, <2>2 DEF Borrowing, SameJob
  <2> QED BY <2>5, <2>6
<1>9. ASSUME NEW c \in Conns, Takes(c) PROVE Attachment' /\ Borrowing'
  <2>1. /\ h' = h /\ st' = Apply(st, Head(net[c].up)) /\ UNCHANGED <<task, job>>
        /\ net[c].up # <<>>
    BY <1>9 DEF Takes, LReadable
  <2>2. Head(net[c].up) \in Frames
    BY <2>1, NetFields, HeadFrames DEF Types
  <2>3. /\ st'.conn = st.conn /\ st'.attached = st.attached /\ st'.send = st.send
        /\ st'.generation = st.generation
    BY <1>1, <2>1, <2>2, ApplyDataIs, ApplyAckIs
  <2> QED BY <1>4, <2>1, <2>3 DEF SameJob
<1>10. CASE Records
  <2>1. PICK u \in Nat : st' = Recorded(st, u)
    BY <1>10 DEF Records
  <2>2. /\ st'.conn = st.conn /\ st'.attached = st.attached /\ st'.send = st.send
        /\ st'.generation = st.generation
    BY <1>1, <2>1, RecordedIs
  <2> QED BY <1>4, <1>10, <2>2 DEF Records
<1>11. CASE Delivers
  <2>1. /\ st'.conn = st.conn /\ st'.attached = st.attached /\ st'.send = st.send
        /\ st'.generation = st.generation
    BY <1>1, <1>11, TakenIs DEF Delivers
  <2> QED BY <1>4, <1>11, <2>1 DEF Delivers, SameJob
<1>12. CASE Writes
  <2>1. /\ st' = Borrowed(st) /\ h' = h /\ job' = [gen |-> st.generation, conn |-> st.send]
        /\ st.outq # <<>> /\ st.send \in Conns /\ st.attached
    BY <1>12 DEF Writes
  <2>2. /\ st'.conn = st.conn /\ st'.attached = st.attached /\ st'.send = NoConn
        /\ st'.generation = st.generation
    BY <1>1, <2>1, BorrowedIs
  <2>3. Attachment'
    BY <2>1, <2>2 DEF Attachment, CurrentReader
  <2>4. st.send = st.conn
    BY <1>1, <2>1 DEF Attachment
  <2> QED BY <1>1, <2>1, <2>2, <2>3, <2>4 DEF Borrowing
<1> QED BY <1>5, <1>6, <1>7, <1>8, <1>9, <1>10, <1>11, <1>12 DEF ListenerMoves

LEMMA ClientPath ==
  ASSUME Types, CControl, Path, ClientMoves
  PROVE  Path'
<1>1. /\ inner \in InnerType /\ inner.conn \in Conns /\ 1 \in Conns /\ net \in NetType
      /\ reader \in [Conns -> {"none", "reading", "done"}]
      /\ loops \in [Slots -> LoopType] /\ inner.outbox \in Seq(Nat) /\ typed \in Nat
      /\ \A s \in Slots : loops[s].pc = "handshake" => loops[s].conn \in Conns
  BY WireBoundsAssumption DEF Types, CTypes, InnerType, Conns
<1>2. /\ h' = h
      /\ \A d \in Conns : /\ net[d].dialed => net'[d].dialed
                          /\ net[d].down = <<>> => net'[d].down = <<>>
  BY DEF ClientMoves, lvars, ClientNet, Kept, DialedNow
<1>3. ASSUME \A d \in Conns : reader'[d] # "none"
                => \/ reader[d] # "none"
                   \/ net[d].down # <<>> /\ net[d].dialed
      PROVE  HelloQuiet' /\ Undialled'
  <2>1. HelloQuiet'
    BY <1>2, <1>3 DEF Path, HelloQuiet, Installed
  <2>2. ASSUME NEW d \in Conns, ~net'[d].dialed
        PROVE  /\ h'[d].pc = "hello" /\ ~net'[d].cOpen /\ ~net'[d].lOpen
               /\ net'[d].up = <<>> /\ net'[d].down = <<>>
    <3>1. /\ ~net[d].dialed /\ h[d].pc = "hello" /\ ~net[d].cOpen /\ ~net[d].lOpen
          /\ net[d].up = <<>> /\ net[d].down = <<>>
      BY <1>2, <2>2 DEF Path, Undialled
    <3>2. /\ ~net'[d].cOpen /\ ~net'[d].lOpen /\ net'[d].up = <<>>
      BY <2>2, <3>1 DEF ClientMoves, ClientNet, Kept, DialedNow
    <3> QED BY <1>2, <3>1, <3>2
  <2>3. net'[1].dialed /\ \A c \in Conns : Installed(c)' => net'[c].dialed
    BY <1>1, <1>2, <1>3 DEF Path, Undialled, Installed
  <2> QED BY <2>1, <2>2, <2>3 DEF Undialled
<1>4. CASE CHush
  <2>1. \A d \in Conns : net'[d].cOpen => net[d].cOpen
    BY <1>4 DEF CHush, Idles
  <2>2. /\ inner'.conn = inner.conn /\ SameTasks /\ LoopsClose
    BY <1>4 DEF CHush
  <2>3. OpenAtClient'
    BY <1>1, <2>1, <2>2 DEF Path, OpenAtClient, LoopsClose
  <2>4. OldClosed'
    BY <1>1, <2>1, <2>2 DEF Path, OldClosed, LoopsClose
  <2>5. Shaking'
    BY <1>1, <1>2, <2>2 DEF Path, Shaking, LoopsClose, SameTasks, Installed
  <2>6. FirstDial'
    BY <1>1, <1>4, <2>2 DEF Path, FirstDial, CHush, SameTasks, Installed, SameTyping, TypesMore
  <2>7. HelloQuiet' /\ Undialled'
    BY <1>3, <2>2 DEF SameTasks
  <2> QED BY <2>3, <2>4, <2>5, <2>6, <2>7 DEF Path
<1>5. ASSUME inner'.conn = inner.conn, UNCHANGED loops,
             \A d \in Conns : net'[d].cOpen <=> net[d].cOpen
      PROVE  OpenAtClient' /\ OldClosed'
  BY <1>1, <1>5 DEF Path, OpenAtClient, OldClosed
<1>6. CASE Starts
  <2>1. /\ UNCHANGED <<inner, loops, fed, typed>> /\ connect # "up" /\ connect' = "up"
        /\ net' = CTake(net, 1) /\ net[1].down # <<>> /\ net[1].dialed
        /\ reader' = [reader EXCEPT ![1] = "reading"]
    BY <1>6 DEF Starts, CReadable, Path, Undialled
  <2>2. \A d \in Conns : net'[d].cOpen <=> net[d].cOpen
    BY <1>1, <2>1, CTakeIs DEF SameCOpen
  <2>3. \A d \in Conns : reader'[d] # "none" => reader[d] # "none" \/ d = 1
    BY <1>1, <2>1
  <2>4. Shaking'
    BY <1>1, <1>2, <2>1, <2>3 DEF Path, Shaking, Installed
  <2>5. FirstDial'
    BY <1>1, <2>1 DEF FirstDial, Installed
  <2> QED BY <1>3, <1>5, <2>1, <2>2, <2>3, <2>4, <2>5 DEF Path
<1>7. CASE Consumes \/ Acknowledges \/ Sends
  <2>1. connect = "up" /\ UNCHANGED <<connect, loops, typed, reader>>
    BY <1>7 DEF Consumes, Acknowledges, Sends, Working
  <2>2. inner'.conn = inner.conn /\ \A d \in Conns : net'[d].cOpen <=> net[d].cOpen
    <3>1. CASE Consumes
      <4>1. net[inner.conn].down # <<>> /\ Head(net[inner.conn].down) \in Frames
        BY <1>1, <3>1, NetFields, HeadFrames DEF Consumes, CReadable
      <4> QED BY <1>1, <3>1, <4>1, CTakeIs, ConsumeIs DEF Consumes, SameCOpen
    <3>2. CASE Acknowledges
      <4>1. <<Frame("ack", inner.received)>> \in Seq(Frames)
        BY <1>1, OneFrame DEF InnerType, FrameTypes
      <4> HIDE DEF SameCOpen
      <4>2. SameCOpen(net, net') /\ inner'.conn = inner.conn
        BY <1>1, <3>2, <4>1, CWriteIs, AckSentIs DEF Acknowledges
      <4> QED BY <4>2 DEF SameCOpen
    <3>3. CASE Sends
      <4>1. Head(inner.outbox) \in Nat
        BY <1>1, <3>3, HeadTailProperties DEF Sends
      <4>2. <<Frame("data", Head(inner.outbox))>> \in Seq(Frames)
        BY <4>1, OneFrame DEF FrameTypes
      <4>3. SameCOpen(net, net') /\ inner'.conn = inner.conn
        BY <1>1, <3>3, <4>2, CWriteIs, UnitSentIs DEF Sends
      <4> QED BY <4>3 DEF SameCOpen
    <3> QED BY <1>7, <3>1, <3>2, <3>3
  <2>3. Shaking'
    BY <1>1, <1>2, <2>1, <2>2 DEF Path, Shaking, Installed
  <2>4. FirstDial'
    BY <2>1 DEF Path, FirstDial, Installed
  <2> QED BY <1>3, <1>5, <2>1, <2>2, <2>3, <2>4 DEF Path
<1>8. ASSUME NEW s \in Slots, NEW c \in Conns, Dials(s, c) PROVE Path'
  <2>1. /\ loops[s].pc = "dialing" /\ ~net[c].dialed
        /\ net' = Dialed(net, c, Frame("resume", inner.received))
        /\ loops' = [loops EXCEPT ![s].pc = "handshake", ![s].conn = c]
        /\ UNCHANGED <<inner, connect, reader, fed, typed>>
    BY <1>8 DEF Dials
  <2>2. \A t \in Slots : t # s => loops[t].pc = "none"
    BY <2>1, LoopTask
  <2>3. Frame("resume", inner.received) \in Frames
    BY <1>1, FrameIs DEF InnerType, FrameTypes
  <2>4. net'[c].dialed /\ \A d \in Conns : d # c => net'[d] = net[d]
    BY <1>1, <2>1, <2>3, DialedIs
  <2>5. /\ \A t \in Slots : t # s => loops'[t] = loops[t]
        /\ loops'[s].pc = "handshake" /\ loops'[s].conn = c
    BY <1>1, <2>1 DEF LoopType
  <2>6. ~Installed(c) /\ c # 1 /\ ~net[inner.conn].cOpen /\ c # inner.conn
    <3>1. connect = "up" /\ Installed(inner.conn)
      BY <2>1, LoopTask DEF CControl, Tasks
    <3> QED BY <2>1, <3>1 DEF Path, Undialled, OldClosed
  <2>7. \A d \in Conns : net[d].cOpen => FALSE
    BY <2>1, <2>2, <2>6 DEF Path, OpenAtClient
  <2>8. OpenAtClient' /\ OldClosed' /\ Shaking'
    <3>1. OpenAtClient'
      BY <2>4, <2>5, <2>7 DEF OpenAtClient
    <3>2. OldClosed'
      BY <1>1, <2>1, <2>4, <2>6 DEF OldClosed
    <3>3. Shaking'
      BY <2>1, <2>2, <2>4, <2>5, <2>6 DEF Shaking, Installed
    <3> QED BY <3>1, <3>2, <3>3
  <2>9. FirstDial'
    BY <2>1 DEF Path, FirstDial, Installed
  <2> QED BY <1>3, <2>1, <2>8, <2>9 DEF Path
<1>9. ASSUME NEW s \in Slots, NEW c \in Conns, Installs(s, c) PROVE Path'
  <2> DEFINE n == Head(net[c].down).n
             tail == TailFrom(inner.replay, n)
  <2>1. /\ loops[s].pc = "handshake" /\ c = loops[s].conn /\ net[c].down # <<>>
        /\ HasTail(inner.replay, n) /\ inner' = Adopted(Trimmed(inner, n), c)
        /\ net' = CWrite(CTake(net, c), c, DataFrames(tail))
        /\ reader' = [reader EXCEPT ![c] = "reading"]
        /\ loops' = [loops EXCEPT ![s] = NoLoop] /\ UNCHANGED <<connect, fed, typed>>
    BY <1>9 DEF Installs, CReadable
  <2>2. n \in Nat
    BY <1>1, <2>1, NetFields, HeadFrames
  <2>3. tail \in Seq(Nat)
    BY <1>1, <2>1, <2>2, TailFromType DEF InnerType
  <2> HIDE DEF n, tail
  <2>4. inner'.conn = c
    <3>1. Trimmed(inner, n) \in InnerType
      BY <1>1, <2>2, TrimmedIs
    <3> QED BY <2>1, <3>1, AdoptedIs
  <2>5. \A d \in Conns : net'[d].cOpen <=> net[d].cOpen
    <3> DEFINE m == CTake(net, c)
    <3>1. m \in NetType /\ SameCOpen(net, m)
      BY <1>1, <2>1, CTakeIs
    <3>2. DataFrames(tail) \in Seq(Frames)
      BY <2>3, DataFramesType
    <3> HIDE DEF m
    <3>3. SameCOpen(m, CWrite(m, c, DataFrames(tail)))
      BY <3>1, <3>2, CWriteIs
    <3> QED BY <2>1, <3>1, <3>3 DEF SameCOpen, m
  <2>6. \A t \in Slots : loops'[t].pc = "none"
    <3>1. \A t \in Slots : t # s => loops[t].pc = "none"
      BY <2>1, LoopTask
    <3> QED BY <1>1, <2>1, <3>1 DEF NoLoop
  <2>7. ~net[inner.conn].cOpen /\ net[c].dialed
    BY <2>1 DEF Path, OldClosed, Shaking
  <2>8. OpenAtClient'
    <3>1. ASSUME NEW d \in Conns, net[d].cOpen PROVE d = c
      <4>1. PICK t \in Slots : loops[t].pc = "handshake" /\ loops[t].conn = d
        BY <2>7, <3>1 DEF Path, OpenAtClient
      <4>2. t = s
        BY <2>1, <4>1, LoopTask
      <4> QED BY <2>1, <4>1, <4>2
    <3> QED BY <2>4, <2>5, <3>1 DEF OpenAtClient
  <2>9. OldClosed' /\ Shaking'
    BY <2>6 DEF OldClosed, Shaking
  <2>10. FirstDial'
    <3>1. connect = "up"
      BY <2>1, LoopTask
    <3> QED BY <1>1, <2>1, <3>1 DEF Path, FirstDial, Installed
  <2>11. HelloQuiet' /\ Undialled'
    BY <1>1, <1>3, <2>1, <2>7
  <2> QED BY <2>8, <2>9, <2>10, <2>11 DEF Path
<1> QED BY <1>4, <1>6, <1>7, <1>8, <1>9 DEF ClientMoves

LEMMA FirstWay == Init => Way
<1> SUFFICES ASSUME Init PROVE Way
  OBVIOUS
<1> USE DEF Init, LInit, CInit, NetInit
<1> DEFINE n == [c \in Conns |-> NewConn]
           f == Frame("hello", 0)
<1>1. /\ 1 \in Conns /\ f \in Frames /\ n \in NetType /\ net = Dialed(n, 1, f)
  <2>1. 1 \in Conns /\ f \in Frames
    BY WireBoundsAssumption, FrameIs DEF Conns, FrameTypes
  <2>2. <<>> \in Seq(Frames)
    OBVIOUS
  <2> QED BY <2>1, <2>2 DEF NetType, ConnType, NewConn
<1>2. \A d \in Conns : /\ ~n[d].cOpen /\ ~n[d].lOpen /\ n[d].up = <<>> /\ n[d].down = <<>>
  BY DEF NewConn
<1>3. /\ \A s \in Slots : loops[s].pc = "none"
      /\ \A c \in Conns : h[c].pc = "hello" /\ reader[c] = "none"
      /\ inner.conn = 1 /\ connect = "pending" /\ fed = <<>> /\ typed = 0
      /\ inner.replay = NewReplay /\ inner.outbox = <<>>
      /\ st.conn = NoConn /\ st.send = NoConn /\ ~st.attached /\ task.B = "none"
  BY DEF NoLoop, NewHandler, NewSession
<1> HIDE DEF n, f, Init, LInit, CInit, NetInit
<1>4. /\ \A d \in Conns : d # 1 => net[d] = n[d]
      /\ net[1].dialed /\ net[1].down = <<>>
  BY <1>1, DialedIs
<1>5. Path
  BY <1>1, <1>2, <1>3, <1>4 DEF Path, OpenAtClient, OldClosed, Shaking, Undialled,
                                HelloQuiet, FirstDial, Installed
<1>6. Attachment /\ Borrowing
  BY <1>3 DEF Attachment, Borrowing, CurrentReader, Conns, NoConn
<1> QED BY <1>5, <1>6 DEF Way

LEMMA WayStays == Control /\ Way /\ [Next]_vars => Way'
<1> SUFFICES ASSUME Control, Way, [Next]_vars PROVE Way'
  OBVIOUS
<1>1. /\ Types /\ CControl /\ LControl /\ Path /\ Undialled /\ Attachment /\ Borrowing
      /\ ListenerMoves \/ ClientMoves
  BY NextMoves DEF Control, Way, Path
<1>2. CASE ListenerMoves
  BY <1>1, <1>2, ListenerPath, ListenerAttachment DEF Way
<1>3. CASE ClientMoves
  <2>1. Attachment' /\ Borrowing'
    BY <1>1, <1>3 DEF ClientMoves, lvars, Attachment, Borrowing, CurrentReader
  <2> QED BY <1>1, <1>3, <2>1, ClientPath DEF Way
<1> QED BY <1>1, <1>2, <1>3

LEMMA WayHolds == Spec => []Way
<1>1. Init => Way
  BY FirstWay
<1> QED BY <1>1, WayStays, ControlHolds, PTL DEF Spec
-----------------------------------------------------------------------------
(* The shell's output: what the core was fed, what is on its way, what is owed.     *)

Flow(c) == fed \o Units(net[c].down)

\* One sequence begins with another.
Within(s, t) == \E r \in Seq(Nat) : t = s \o r

\* A resume in flight says what the core was fed.
HelloSays(c) ==
  h[c].pc = "hello" /\ Stands(c) /\ net[c].up # <<>> => Head(net[c].up).n = Len(fed)

\* What an open connection brings is of the stream; the attachment and its queue bring
\* all of it; and a reply's tail is what is missing of it up to the reply's snapshot.
Arrives(c) == net[c].cOpen => Within(Flow(c), handed)
AllOfIt(c) == st.attached /\ st.conn = c /\ Stands(c) => Flow(c) \o Units(st.outq) = handed
Owed(c) == h[c].pc = "replying" /\ Stands(c) =>
             /\ Units(net[c].down) = <<>> /\ h[c].sent <= Len(handed)
             /\ fed \o h[c].tail = SubSeq(handed, 1, h[c].sent)
DownAt(c) == HelloSays(c) /\ (~raced => Arrives(c) /\ AllOfIt(c) /\ Owed(c))

Down == /\ ReplayOf(st.replay, handed)
        /\ ~raced => Within(fed, handed)
        /\ \A c \in Conns : DownAt(c)

\* A connection that stays as it is, or closes, and stays attached or not.
Calm(d) ==
  /\ h'[d].pc \in {"hello", "replying"} => h'[d] = h[d]
  /\ Stands(d)' => Stands(d)
  /\ net'[d].cOpen => net[d].cOpen /\ Units(net'[d].down) = Units(net[d].down)
  /\ h'[d].pc = "hello" /\ Stands(d)' => net'[d].up \in {net[d].up, <<>>}
  /\ st'.attached /\ st'.conn = d
       => st.attached /\ st.conn = d /\ Units(st'.outq) = Units(st.outq)

LEMMA CalmKeeps ==
  ASSUME fed' = fed, handed' = handed, raced => raced', NEW d \in Conns, Calm(d), DownAt(d)
  PROVE  DownAt(d)'
<1>1. HelloSays(d)'
  BY DEF DownAt, HelloSays, Calm
<1>2. net'[d].cOpen => Flow(d)' = Flow(d) /\ Units(net'[d].down) = Units(net[d].down)
  BY DEF Calm, Flow
<1>3. Stands(d)' => net'[d].cOpen
  BY DEF Stands
<1>4. Arrives(d)' \/ raced'
  BY <1>2 DEF DownAt, Arrives, Calm
<1>5. AllOfIt(d)' \/ raced'
  BY <1>2, <1>3 DEF DownAt, AllOfIt, Calm
<1>6. Owed(d)' \/ raced'
  BY <1>2, <1>3 DEF DownAt, Owed, Calm
<1> QED BY <1>1, <1>4, <1>5, <1>6 DEF DownAt

LEMMA WithinMore ==
  ASSUME NEW s \in Seq(Nat), NEW t \in Seq(Nat), NEW u \in Nat, Within(s, t)
  PROVE  Within(s, Append(t, u))
<1>1. PICK r \in Seq(Nat) : t = s \o r
  BY DEF Within
<1>2. /\ Append(t, u) = t \o <<u>> /\ Append(r, u) = r \o <<u>>
      /\ <<u>> \in Seq(Nat) /\ Append(r, u) \in Seq(Nat)
  <2>1. Append(t, u) = t \o <<u>>
    BY AppendIsConcat
  <2>2. Append(r, u) = r \o <<u>>
    BY AppendIsConcat
  <2>3. <<u>> \in Seq(Nat) /\ Append(r, u) \in Seq(Nat)
    OBVIOUS
  <2> QED BY <2>1, <2>2, <2>3
<1>3. (s \o r) \o <<u>> = s \o (r \o <<u>>)
  BY <1>2, Associates
<1>4. Append(t, u) = s \o Append(r, u)
  BY <1>1, <1>2, <1>3
<1> QED BY <1>2, <1>4 DEF Within

LEMMA WithinLess ==
  ASSUME NEW s \in Seq(Nat), NEW r \in Seq(Nat), NEW t \in Seq(Nat), Within(s \o r, t)
  PROVE  Within(s, t)
<1>1. PICK q \in Seq(Nat) : t = (s \o r) \o q
  BY DEF Within
<1>2. (s \o r) \o q = s \o (r \o q)
  BY Associates
<1>3. t = s \o (r \o q) /\ r \o q \in Seq(Nat)
  BY <1>1, <1>2, ConcatProperties
<1> QED BY <1>3 DEF Within

LEMMA WithinRest ==
  ASSUME NEW s \in Seq(Nat), NEW t \in Seq(Nat), Within(s, t)
  PROVE  s \o SubSeq(t, Len(s) + 1, Len(t)) = t
<1> DEFINE n == Len(s)
           m == Len(t)
<1>1. n <= m /\ s = SubSeq(t, 1, n)
  BY PrefixIs DEF Within, Prefix
<1>2. n \in Nat /\ m \in Nat
  OBVIOUS
<1> HIDE DEF n
<1>3. SubSeq(t, 1, n) \o SubSeq(t, n + 1, m) = SubSeq(t, 1, m)
  <2>1. 1 \in 1..(m + 1) /\ n \in (1 - 1)..m /\ m \in n..m
    BY <1>1, <1>2
  <2> QED BY <2>1, ConcatAdjacentSubSeq
<1>4. SubSeq(t, 1, m) = t
  BY SubSeqFull
<1> QED BY <1>1, <1>3, <1>4 DEF n

\* The beginning of a stream stays as the stream grows.
LEMMA BeginningStays ==
  ASSUME NEW t \in Seq(Nat), NEW u \in Nat, NEW n \in Nat, n <= Len(t)
  PROVE  SubSeq(Append(t, u), 1, n) = SubSeq(t, 1, n)
<1> DEFINE a == SubSeq(Append(t, u), 1, n)
           b == SubSeq(t, 1, n)
<1>1. \A i \in 1..n : t[i] \in Nat /\ Append(t, u)[i] = t[i]
  OBVIOUS
<1>2. /\ a \in Seq(Nat) /\ Len(a) = (IF 1 <= n THEN (n - 1) + 1 ELSE 0)
      /\ \A i \in 1..((n - 1) + 1) : a[i] = Append(t, u)[(1 + i) - 1]
  BY <1>1, SubSeqProperties
<1>3. /\ b \in Seq(Nat) /\ Len(b) = (IF 1 <= n THEN (n - 1) + 1 ELSE 0)
      /\ \A i \in 1..((n - 1) + 1) : b[i] = t[(1 + i) - 1]
  BY <1>1, SubSeqProperties
<1> HIDE DEF a, b
<1>4. Len(a) = n /\ Len(b) = n /\ \A i \in 1..n : a[i] = b[i]
  BY <1>1, <1>2, <1>3
<1>5. a = b
  BY <1>2, <1>3, <1>4, SeqEqual
<1> QED BY <1>5 DEF a, b

\* A step of the client that moves no unit calms every connection.
LEMMA ClientCalm ==
  ASSUME UNCHANGED lvars, NEW d \in Conns,
         net'[d].cOpen => net[d].cOpen /\ Units(net'[d].down) = Units(net[d].down),
         Stands(d)' => Stands(d),
         h[d].pc = "hello" /\ Stands(d)' => net'[d].up \in {net[d].up, <<>>}
  PROVE  Calm(d)
BY DEF Calm, lvars

LEMMA ClientDown ==
  ASSUME Types, CControl, Acks, Path, Attachment, Down, ClientMoves
  PROVE  Down'
<1>1. /\ net \in NetType /\ inner \in InnerType /\ inner.conn \in Conns /\ 1 \in Conns
      /\ fed \in Seq(Nat) /\ handed \in Seq(Nat) /\ inner.outbox \in Seq(Nat)
      /\ \A d \in Conns : net[d].down \in Seq(Frames) /\ net[d].up \in Seq(Frames)
      /\ \A s \in Slots : loops[s].pc = "handshake" => loops[s].conn \in Conns
  BY NetFields, WireBoundsAssumption DEF Types, CTypes, LTypes, InnerType, Conns
<1>2. UNCHANGED lvars /\ UNCHANGED <<st, h, handed, raced>>
  BY DEF ClientMoves, lvars
<1>3. ASSUME fed' = fed, \A d \in Conns : Calm(d) PROVE Down'
  BY <1>2, <1>3, CalmKeeps DEF Down
<1>4. ASSUME fed' = fed, NEW e \in Conns, h[e].pc # "hello",
             \A d \in Conns : /\ net'[d].cOpen => net[d].cOpen
                              /\ Units(net'[d].down) = Units(net[d].down)
                              /\ net'[d].lOpen => net[d].lOpen
                              /\ d # e => net'[d].up = net[d].up
      PROVE  Down'
  <2>1. ASSUME NEW d \in Conns PROVE Calm(d)
    BY <1>2, <1>4, ClientCalm DEF Stands
  <2> QED BY <1>3, <1>4, <2>1
<1>5. connect = "up" => h[inner.conn].pc # "hello"
  BY <1>1 DEF CControl, Tasks, Path, HelloQuiet
<1>6. CASE CHush
  <2>1. ASSUME NEW d \in Conns PROVE Calm(d)
    <3>1. Idles(d)
      BY <1>6 DEF CHush
    <3> QED BY <1>2, <3>1, ClientCalm DEF Idles, Stands
  <2> QED BY <1>3, <1>6, <2>1 DEF CHush
<1>7. CASE Starts
  <2>1. /\ net[1].down # <<>> /\ Head(net[1].down).t # "data" /\ fed' = fed
        /\ net' = CTake(net, 1)
    BY <1>7 DEF Starts, CReadable
  <2>2. Units(Tail(net[1].down)) = Units(net[1].down)
    BY <1>1, <2>1, UnitsOfHead
  <2>3. \A d \in Conns : /\ net'[d].cOpen => net[d].cOpen
                         /\ Units(net'[d].down) = Units(net[d].down)
                         /\ net'[d].lOpen => net[d].lOpen
                         /\ net'[d].up = net[d].up
    <3>1. /\ SameUp(net, net') /\ SameCOpen(net, net') /\ SameLOpen(net, net')
          /\ \A d \in Conns : net'[d].down = IF d = 1 THEN Tail(net[d].down) ELSE net[d].down
      BY <1>1, <2>1, CTakeIs
    <3> QED BY <2>2, <3>1 DEF SameUp, SameCOpen, SameLOpen
  <2>4. ASSUME NEW d \in Conns PROVE Calm(d)
    BY <1>2, <2>3, ClientCalm DEF Stands
  <2> QED BY <1>3, <2>1, <2>4
<1>8. CASE Acknowledges \/ Sends
  <2>1. PICK fs \in Seq(Frames) : net' = CWrite(net, inner.conn, fs)
    <3>1. CASE Acknowledges
      <4>1. <<Frame("ack", inner.received)>> \in Seq(Frames)
        BY <1>1, OneFrame DEF InnerType, FrameTypes
      <4> QED BY <3>1, <4>1 DEF Acknowledges
    <3>2. CASE Sends
      <4>1. Head(inner.outbox) \in Nat
        BY <1>1, <3>2, HeadTailProperties DEF Sends
      <4>2. <<Frame("data", Head(inner.outbox))>> \in Seq(Frames)
        BY <4>1, OneFrame DEF FrameTypes
      <4> QED BY <3>2, <4>2 DEF Sends
    <3> QED BY <1>8, <3>1, <3>2
  <2>2. fed' = fed /\ connect = "up"
    BY <1>8 DEF Acknowledges, Sends, Working
  <2>3. \A d \in Conns : /\ net'[d].cOpen => net[d].cOpen
                         /\ Units(net'[d].down) = Units(net[d].down)
                         /\ net'[d].lOpen => net[d].lOpen
                         /\ d # inner.conn => net'[d].up = net[d].up
    <3>1. /\ SameDown(net, net') /\ SameCOpen(net, net') /\ SameLOpen(net, net')
          /\ \A d \in Conns : d # inner.conn => net'[d].up = net[d].up
      BY <1>1, <2>1, CWriteIs
    <3> QED BY <3>1 DEF SameDown, SameCOpen, SameLOpen
  <2> QED BY <1>1, <1>4, <1>5, <2>2, <2>3
<1>9. ASSUME NEW s \in Slots, NEW c \in Conns, Dials(s, c) PROVE Down'
  <2> DEFINE f == Frame("resume", inner.received)
  <2>1. fed' = fed /\ ~net[c].dialed /\ net' = Dialed(net, c, f)
    BY <1>9 DEF Dials
  <2>2. f \in Frames /\ f.n = Len(fed)
    BY <1>1, FrameIs DEF Acks, InnerType, FrameTypes
  <2> HIDE DEF f
  <2>3. /\ \A d \in Conns : d # c => net'[d] = net[d]
        /\ net'[c].up = <<f>> /\ net'[c].down = <<>>
    BY <1>1, <2>1, <2>2, DialedIs
  <2>4. ASSUME NEW d \in Conns, d # c PROVE DownAt(d)'
    <3>1. Calm(d)
      BY <1>2, <2>3, <2>4, ClientCalm DEF Stands
    <3> QED BY <1>2, <2>1, <2>4, <3>1, CalmKeeps DEF Down
  <2>5. DownAt(c)'
    <3>1. h'[c].pc = "hello" /\ st'.conn # c
      BY <1>2, <2>1 DEF Path, Undialled, Attachment
    <3>2. HelloSays(c)'
      BY <2>1, <2>2, <2>3 DEF HelloSays
    <3>3. Flow(c)' = fed
      BY <1>1, <2>1, <2>3, UnitsOfNone, ConcatEmptySeq DEF Flow
    <3> QED BY <1>2, <3>1, <3>2, <3>3 DEF DownAt, Arrives, AllOfIt, Owed, Down
  <2> QED BY <1>2, <2>1, <2>4, <2>5 DEF Down
<1>10. ASSUME NEW s \in Slots, NEW c \in Conns, Installs(s, c) PROVE Down'
  <2> DEFINE n == Head(net[c].down).n
             tail == TailFrom(inner.replay, n)
             m == CTake(net, c)
  <2>1. /\ fed' = fed /\ net[c].down # <<>> /\ Head(net[c].down).t # "data"
        /\ HasTail(inner.replay, n) /\ net' = CWrite(m, c, DataFrames(tail))
    BY <1>10 DEF Installs, CReadable
  <2>2. n \in Nat /\ inner.replay \in ReplayType(Nat)
    BY <1>1, <2>1, HeadFrames DEF InnerType
  <2>3. DataFrames(tail) \in Seq(Frames)
    BY <2>1, <2>2, TailFromType, DataFramesType
  <2>4. /\ m \in NetType /\ SameUp(net, m) /\ SameCOpen(net, m) /\ SameLOpen(net, m)
        /\ \A d \in Conns : m[d].down = IF d = c THEN Tail(net[d].down) ELSE net[d].down
    BY <1>1, <2>1, CTakeIs
  <2> HIDE DEF m, tail, n
  <2>5. /\ SameDown(m, net') /\ SameCOpen(m, net') /\ SameLOpen(m, net')
        /\ \A d \in Conns : d # c => net'[d].up = m[d].up
    BY <2>1, <2>3, <2>4, CWriteIs
  <2>6. Units(Tail(net[c].down)) = Units(net[c].down)
    BY <1>1, <2>1, UnitsOfHead
  <2>7. \A d \in Conns : /\ net'[d].cOpen => net[d].cOpen
                         /\ Units(net'[d].down) = Units(net[d].down)
                         /\ net'[d].lOpen => net[d].lOpen
                         /\ d # c => net'[d].up = net[d].up
    BY <2>4, <2>5, <2>6 DEF SameUp, SameDown, SameCOpen, SameLOpen
  <2>8. h[c].pc # "hello"
    BY <2>1 DEF Path, HelloQuiet
  <2> QED BY <1>4, <2>1, <2>7, <2>8
<1>11. CASE Consumes
  <2> SUFFICES ASSUME NEW e \in Conns, e = inner.conn PROVE Down'
    BY <1>1
  <2> DEFINE f == Head(net[e].down)
  <2>1. /\ connect = "up" /\ net[e].cOpen /\ net[e].down # <<>> /\ e \in Conns
        /\ fed' = (IF f.t = "data" THEN Append(fed, f.n) ELSE fed) /\ net' = CTake(net, e)
    BY <1>1, <1>11 DEF Consumes, Working, CReadable
  <2>2. /\ f \in Frames /\ f.n \in Nat /\ Tail(net[e].down) \in Seq(Frames)
        /\ Units(net[e].down) = IF f.t = "data" THEN <<f.n>> \o Units(Tail(net[e].down))
                                                ELSE Units(Tail(net[e].down))
    BY <1>1, <2>1, UnitsOfHead, HeadFrames
  <2>3. /\ \A d \in Conns : net'[d].down = IF d = e THEN Tail(net[d].down) ELSE net[d].down
        /\ SameUp(net, net') /\ SameCOpen(net, net') /\ SameLOpen(net, net')
    BY <1>1, <2>1, CTakeIs
  <2> HIDE DEF f
  <2>4. ASSUME f.t # "data" PROVE Down'
    <3>1. ASSUME NEW d \in Conns PROVE Calm(d)
      BY <1>2, <2>2, <2>3, <2>4, ClientCalm DEF Stands, SameUp, SameCOpen, SameLOpen
    <3> QED BY <1>3, <2>1, <2>4, <3>1
  <2>5. ASSUME f.t = "data" PROVE Down'
    <3>1. \A d \in Conns : net[d].cOpen => d = e
      <4>1. \A s \in Slots : loops[s].pc # "handshake"
        BY <2>1 DEF Path, OldClosed
      <4> QED BY <4>1 DEF Path, OpenAtClient
    <3>2. h[e].pc # "hello"
      BY <1>5, <2>1
    <3>3. Flow(e)' = Flow(e) /\ Units(net[e].down) # <<>>
      <4> DEFINE a == Units(Tail(net[e].down))
                 b == <<f.n>>
      <4>1. a \in Seq(Nat) /\ b \in Seq(Nat) /\ Append(fed, f.n) = fed \o b
        <5>1. a \in Seq(Nat)
          BY <2>2, UnitsType
        <5>2. Append(fed, f.n) = fed \o b
          BY <1>1, <2>2, AppendIsConcat
        <5> QED BY <2>2, <5>1, <5>2
      <4>2. (fed \o b) \o a = fed \o (b \o a) /\ b \o a # <<>>
        <5>1. (fed \o b) \o a = fed \o (b \o a)
          BY <1>1, <4>1, Associates
        <5>2. Len(b) = 1 /\ Len(a) \in Nat /\ Len(b \o a) = Len(b) + Len(a)
          BY <4>1, ConcatProperties
        <5>3. Len(b \o a) # 0
          BY <5>2
        <5> QED BY <5>1, <5>3
      <4> HIDE DEF a, b
      <4>3. Units(net[e].down) = b \o a /\ Units(net'[e].down) = a /\ fed' = fed \o b
        BY <2>1, <2>2, <2>3, <2>5, <4>1 DEF a, b
      <4> QED BY <4>2, <4>3 DEF Flow
    <3>4. ASSUME NEW d \in Conns PROVE DownAt(d)'
      <4>1. /\ net'[d].cOpen => d = e /\ net[d].cOpen
            /\ Stands(d)' => Stands(d)
        BY <2>3, <3>1, <3>4 DEF SameCOpen, SameLOpen, Stands
      <4>2. HelloSays(d)'
        BY <1>2, <3>2, <4>1 DEF HelloSays, Stands
      <4>3. ~raced => ~(h[d].pc = "replying" /\ Stands(d)')
        BY <3>3, <4>1 DEF Down, DownAt, Owed, Stands
      <4>4. ~raced => Arrives(d)' /\ AllOfIt(d)'
        BY <1>2, <3>3, <4>1 DEF Down, DownAt, Arrives, AllOfIt, Stands
      <4> QED BY <1>2, <4>2, <4>3, <4>4 DEF DownAt, Owed
    <3>5. ~raced => Within(fed', handed)
      <4>1. ~raced => Within(Flow(e)', handed)
        BY <2>1, <3>3 DEF Down, DownAt, Arrives
      <4>2. fed' \in Seq(Nat) /\ Units(net'[e].down) \in Seq(Nat)
        <5>1. fed' \in Seq(Nat)
          BY <1>1, <2>1, <2>2
        <5> QED BY <2>1, <2>2, <2>3, <5>1, UnitsType
      <4> QED BY <1>1, <4>1, <4>2, WithinLess DEF Flow
    <3> QED BY <1>2, <3>4, <3>5 DEF Down
  <2> QED BY <2>4, <2>5
<1> QED BY <1>6, <1>7, <1>8, <1>9, <1>10, <1>11 DEF ClientMoves

\* What a step of the listener leaves alone of the streams calms a connection that
\* rests, or is left.
LEMMA RestCalms ==
  ASSUME ListenerNet(net, net'), NEW d \in Conns, Rests(d) \/ Leaves(d),
         st'.attached /\ st'.conn = d
           => st.attached /\ st.conn = d /\ Units(st'.outq) = Units(st.outq)
  PROVE  Calm(d)
<1>1. Stands(d)' => Stands(d)
  BY DEF ListenerNet, Stands
<1>2. net'[d].cOpen => net[d].cOpen
  BY DEF ListenerNet
<1>3. CASE Rests(d)
  BY <1>1, <1>2, <1>3 DEF Calm, Rests, Stands
<1>4. CASE Leaves(d)
  BY <1>1, <1>2, <1>4 DEF Calm, Leaves
<1> QED BY <1>3, <1>4

\* The same, where the handlers stay.
LEMMA StillCalms ==
  ASSUME ListenerNet(net, net'), h' = h, NEW d \in Conns,
         net'[d].down = net[d].down, net'[d].up = net[d].up \/ h[d].pc # "hello",
         st'.attached /\ st'.conn = d
           => st.attached /\ st.conn = d /\ Units(st'.outq) = Units(st.outq)
  PROVE  Calm(d)
BY DEF ListenerNet, Calm, Stands

LEMMA RecordsDown ==
  ASSUME Types, Types', Down, UNCHANGED fed, Records PROVE Down'
<1>1. PICK u \in Nat : st' = Recorded(st, u) /\ handed' = Append(handed, u)
  BY DEF Records
<1>2. /\ UNCHANGED <<h, net, raced>> /\ handed \in Seq(Nat) /\ fed \in Seq(Nat)
      /\ st \in SessionType /\ st.outq \in Seq(Frames) /\ st.replay \in ReplayType(Nat)
      /\ Len(handed) \in Nat
      /\ \A d \in Conns : net[d].down \in Seq(Frames)
  <2>1. net \in NetType /\ st \in SessionType /\ handed \in Seq(Nat) /\ fed \in Seq(Nat)
    BY DEF Types, LTypes, CTypes
  <2>2. \A d \in Conns : net[d].down \in Seq(Frames)
    BY <2>1, NetFields
  <2>3. st.outq \in Seq(Frames) /\ st.replay \in ReplayType(Nat)
    BY <2>1 DEF SessionType
  <2> QED BY <2>1, <2>2, <2>3 DEF Records
<1>3. /\ st'.replay = Sent(st.replay, <<u>>) /\ st'.outq = Append(st.outq, Frame("data", u))
      /\ st'.conn = st.conn /\ st'.attached = st.attached
  BY <1>1, <1>2, RecordedIs
<1>4. <<u>> \in Seq(Nat) /\ handed' = handed \o <<u>>
  <2>1. handed' = handed \o <<u>>
    BY <1>1, <1>2, AppendIsConcat
  <2> QED BY <2>1
<1>5. Units(st'.outq) = Units(st.outq) \o <<u>> /\ Units(st.outq) \in Seq(Nat)
  <2> DEFINE f == Frame("data", u)
  <2>1. f \in Frames /\ f.t = "data" /\ f.n = u
    BY FrameIs DEF FrameTypes
  <2> HIDE DEF f
  <2>2. Units(Append(st.outq, f)) = Append(Units(st.outq), u)
    BY <1>2, <2>1, UnitsOfAppend
  <2>3. Units(st.outq) \in Seq(Nat)
    BY <1>2, UnitsType
  <2>4. Append(Units(st.outq), u) = Units(st.outq) \o <<u>>
    BY <2>3, AppendIsConcat
  <2> QED BY <1>3, <2>2, <2>3, <2>4 DEF f
<1>6. ReplayOf(st'.replay, handed')
  BY <1>2, <1>3, <1>4, SentKeepsReplayOf DEF Down
<1>7. Within(fed, handed) => Within(fed, handed')
  BY <1>1, <1>2, WithinMore
<1>8. ASSUME NEW d \in Conns PROVE DownAt(d)'
  <2>1. Flow(d)' = Flow(d) /\ Flow(d) \in Seq(Nat)
    <3>1. Units(net[d].down) \in Seq(Nat)
      BY <1>2, UnitsType
    <3>2. Flow(d) \in Seq(Nat)
      BY <1>2, <3>1, ConcatProperties DEF Flow
    <3> QED BY <1>2, <3>2 DEF Flow
  <2>2. HelloSays(d)' /\ (Stands(d)' <=> Stands(d))
    BY <1>2 DEF Down, DownAt, HelloSays, Stands
  <2>3. ~raced => Arrives(d)'
    BY <1>1, <1>2, <2>1, WithinMore DEF Down, DownAt, Arrives
  <2>4. ~raced => AllOfIt(d)'
    <3>1. (Flow(d) \o Units(st.outq)) \o <<u>> = Flow(d) \o (Units(st.outq) \o <<u>>)
      BY <1>4, <1>5, <2>1, Associates
    <3> QED BY <1>3, <1>4, <1>5, <2>1, <2>2, <3>1 DEF Down, DownAt, AllOfIt
  <2>5. ~raced => Owed(d)'
    <3>1. ASSUME ~raced, h[d].pc = "replying", Stands(d)
          PROVE  /\ Units(net[d].down) = <<>> /\ h[d].sent <= Len(handed')
                 /\ fed \o h[d].tail = SubSeq(handed', 1, h[d].sent)
      <4>1. /\ Units(net[d].down) = <<>> /\ h[d].sent <= Len(handed) /\ h[d].sent \in Nat
            /\ fed \o h[d].tail = SubSeq(handed, 1, h[d].sent)
        <5>1. h[d].sent \in Nat
          BY DEF Types, LTypes, HandlerType
        <5> QED BY <3>1, <5>1 DEF Down, DownAt, Owed
      <4>2. SubSeq(handed', 1, h[d].sent) = SubSeq(handed, 1, h[d].sent)
        BY <1>1, <1>2, <4>1, BeginningStays
      <4>3. Len(handed') = Len(handed) + 1
        BY <1>1, <1>2
      <4> QED BY <1>2, <4>1, <4>2, <4>3
    <3> QED BY <1>2, <2>2, <3>1 DEF Owed
  <2> QED BY <1>2, <2>2, <2>3, <2>4, <2>5 DEF DownAt
<1> QED BY <1>2, <1>6, <1>7, <1>8 DEF Down

LEMMA WritesDown ==
  ASSUME Types, Attachment, Down, UNCHANGED fed, ListenerNet(net, net'), Writes PROVE Down'
<1> SUFFICES ASSUME NEW c \in Conns, c = st.conn, c = st.send PROVE Down'
  BY DEF Attachment, Writes, NoConn, Conns
<1>1. /\ st.attached /\ st.outq # <<>> /\ net' = LWrite(net, c, <<Head(st.outq)>>)
      /\ st' = Borrowed(st) /\ UNCHANGED <<h, handed, raced>>
  BY DEF Writes
<1>2. /\ net \in NetType /\ st \in SessionType /\ fed \in Seq(Nat) /\ handed \in Seq(Nat)
      /\ st.outq \in Seq(Frames) /\ net[c].down \in Seq(Frames)
  BY NetFields DEF Types, LTypes, CTypes, SessionType
<1>3. /\ st'.replay = st.replay /\ st'.outq = Tail(st.outq)
      /\ st'.conn = st.conn /\ st'.attached = st.attached
  BY <1>1, <1>2, BorrowedIs
<1> DEFINE f == Head(st.outq)
<1>4. /\ net' \in NetType
      /\ SameUp(net, net') /\ SameCOpen(net, net') /\ SameLOpen(net, net')
      /\ \A d \in Conns : net'[d].down
           = IF d = c /\ net[d].cOpen /\ net[d].lOpen THEN Append(net[d].down, f)
                                                      ELSE net[d].down
  <2>1. f \in LFrames
    BY <1>1, LFramesAre
  <2> HIDE DEF f
  <2>2. net' = LWrite(net, c, <<f>>)
    BY <1>1 DEF f
  <2> QED BY <1>2, <2>1, <2>2, WrittenIs
<1>5. f \in Frames /\ f.n \in Nat /\ Tail(st.outq) \in Seq(Frames)
  BY <1>1, <1>2, HeadFrames
<1> DEFINE a == Units(net[c].down)
           b == Units(Tail(st.outq))
<1>6. /\ Units(Append(net[c].down, f)) = IF f.t = "data" THEN Append(a, f.n) ELSE a
      /\ Units(st.outq) = IF f.t = "data" THEN <<f.n>> \o b ELSE b
      /\ a \in Seq(Nat) /\ b \in Seq(Nat)
  BY <1>1, <1>2, <1>5, UnitsOfAppend, UnitsOfHead, UnitsType
<1> HIDE DEF f
<1>7. ASSUME Stands(c), ~raced PROVE Flow(c)' \o b = handed
  <2>1. (fed \o a) \o Units(st.outq) = handed
    BY <1>1, <1>7 DEF Down, DownAt, AllOfIt, Flow
  <2>2. Flow(c)' = fed \o Units(Append(net[c].down, f))
    BY <1>4, <1>7 DEF Flow, Stands
  <2>3. CASE f.t = "data"
    <3> DEFINE u == <<f.n>>
    <3>1. Append(a, f.n) = a \o u /\ u \in Seq(Nat)
      <4>1. Append(a, f.n) = a \o u
        BY <1>5, <1>6, AppendIsConcat
      <4> QED BY <1>5, <4>1
    <3> HIDE DEF u, a, b
    <3>2. fed \o (a \o u) = (fed \o a) \o u
      BY <1>2, <1>6, <3>1, Associates
    <3>3. ((fed \o a) \o u) \o b = (fed \o a) \o (u \o b)
      <4>1. fed \o a \in Seq(Nat)
        BY <1>2, <1>6, ConcatProperties
      <4> QED BY <1>6, <3>1, <4>1, Associates
    <3> QED BY <1>6, <2>1, <2>2, <2>3, <3>1, <3>2, <3>3 DEF u
  <2>4. CASE f.t # "data"
    BY <1>6, <2>1, <2>2, <2>4
  <2> QED BY <2>3, <2>4
<1>8. ASSUME NEW d \in Conns, d # c PROVE DownAt(d)'
  <2>1. Calm(d)
    BY <1>1, <1>3, <1>4, <1>8, StillCalms DEF SameUp
  <2> QED BY <1>1, <2>1, CalmKeeps DEF Down
<1>9. DownAt(c)'
  <2>1. h'[c].pc \notin {"hello", "replying"}
    BY <1>1 DEF Attachment
  <2>2. HelloSays(c)' /\ Owed(c)' /\ (Stands(c)' => Stands(c)) /\ (net'[c].cOpen => net[c].cOpen)
    BY <1>4, <2>1 DEF HelloSays, Owed, Stands, SameCOpen, SameLOpen
  <2>3. Flow(c)' \in Seq(Nat)
    <3>1. net'[c].down \in Seq(Frames)
      BY <1>4, NetFields
    <3>2. Units(net'[c].down) \in Seq(Nat)
      BY <3>1, UnitsType
    <3> QED BY <1>2, <3>2, ConcatProperties DEF Flow
  <2>4. ~raced => AllOfIt(c)'
    BY <1>1, <1>3, <1>7, <2>2 DEF AllOfIt
  <2>5. ~raced => Arrives(c)'
    <3>1. CASE Stands(c)
      BY <1>1, <1>6, <1>7, <3>1 DEF Arrives, Within
    <3>2. CASE ~Stands(c)
      <4>1. Flow(c)' = Flow(c)
        BY <1>4, <3>2 DEF Flow, Stands
      <4> QED BY <1>1, <2>2, <4>1 DEF Down, DownAt, Arrives
    <3> QED BY <3>1, <3>2
  <2> QED BY <1>1, <2>2, <2>4, <2>5 DEF DownAt
<1> QED BY <1>1, <1>3, <1>8, <1>9 DEF Down

LEMMA AnswersDown ==
  ASSUME Types, Path, Attachment, Down, UNCHANGED fed, ListenerNet(net, net'),
         NEW c \in Conns, Answers(c)
  PROVE  Down'
<1> DEFINE n == Head(net[c].up).n
           t == TailFrom(st.replay, n)
           m == st.replay.sent_total
<1>1. /\ st'.replay = st.replay /\ st'.outq = st.outq /\ st'.conn = st.conn
      /\ (st'.attached <=> st.attached) /\ handed' = handed /\ (raced' <=> raced)
      /\ h[c].pc = "hello" /\ net[c].up # <<>> /\ HasTail(st.replay, n)
      /\ h'[c] = Answering(t, st.received, m)
      /\ \A d \in Conns : d # c => Rests(d)
  BY DEF Answers, SameStreams, SameAttachment, LReadable
<1>2. /\ net \in NetType /\ st \in SessionType /\ fed \in Seq(Nat) /\ handed \in Seq(Nat)
      /\ st.replay \in ReplayType(Nat) /\ m \in Nat /\ st.received \in Nat
      /\ n \in Nat
  <2>1. net \in NetType /\ st \in SessionType /\ fed \in Seq(Nat) /\ handed \in Seq(Nat)
    BY DEF Types, LTypes, CTypes
  <2>2. st.replay \in ReplayType(Nat) /\ m \in Nat /\ st.received \in Nat
    BY <2>1 DEF SessionType, ReplayType
  <2>3. n \in Nat
    BY <1>1, <2>1, NetFields, HeadFrames
  <2> QED BY <2>1, <2>2, <2>3
<1>3. t \in Seq(Nat) /\ n <= Len(handed) /\ t = SubSeq(handed, n + 1, Len(handed))
      /\ m = Len(handed)
  <2>1. ReplayOf(st.replay, handed)
    BY DEF Down
  <2>2. t \in Seq(Nat)
    BY <1>1, <1>2, TailFromType
  <2>3. n <= Len(handed) /\ t = SubSeq(handed, n + 1, Len(handed))
    BY <1>1, <1>2, <2>1, TailFromExact
  <2> QED BY <2>1, <2>2, <2>3 DEF ReplayOf
<1> HIDE DEF t, m, n
<1>4. h'[c].pc = "replying" /\ h'[c].tail = t /\ h'[c].sent = Len(handed)
  <2> DEFINE r == st.received
             x == Answering(t, r, m)
  <2>1. h'[c] = x /\ r \in Nat
    BY <1>1, <1>2
  <2>2. t \in Seq(Nat) /\ m \in Nat
    BY <1>2, <1>3
  <2> HIDE DEF r
  <2>3. x.pc = "replying" /\ x.tail = t /\ x.sent = m
    BY <2>1, <2>2, HandlersAre
  <2> HIDE DEF x
  <2> QED BY <1>3, <2>1, <2>3
<1>5. ASSUME NEW d \in Conns, d # c PROVE DownAt(d)'
  <2>1. Calm(d)
    BY <1>1, <1>5, RestCalms
  <2> QED BY <1>1, <2>1, CalmKeeps, <1>5 DEF Down
<1>6. DownAt(c)'
  <2>1. /\ net[c].down = <<>> /\ st'.conn # c
    BY <1>1 DEF Path, HelloQuiet, Attachment
  <2>2. Units(net'[c].down) = <<>> /\ Units(net[c].down) = <<>>
    <3> DEFINE f == Frame("resumed", st.received)
    <3>1. f \in Frames /\ f.t # "data"
      BY <1>2, FrameIs DEF FrameTypes
    <3>2. net'[c].down = Append(<<>>, f) \/ net'[c].down = <<>>
      BY <2>1 DEF Answers
    <3> HIDE DEF f
    <3>3. <<>> \in Seq(Frames)
      OBVIOUS
    <3>4. Units(Append(<<>>, f)) = Units(<<>>)
      BY <3>1, <3>3, UnitsOfAppend
    <3> QED BY <2>1, <3>2, <3>4, UnitsOfNone
  <2>3. (Stands(c)' => Stands(c)) /\ (net'[c].cOpen => net[c].cOpen)
    BY DEF ListenerNet, Stands
  <2>4. Stands(c) => n = Len(fed)
    BY <1>1 DEF Down, DownAt, HelloSays, n
  <2>5. ~raced => Arrives(c)'
    BY <1>1, <2>2, <2>3 DEF Down, DownAt, Arrives, Flow
  <2>6. ~raced => Owed(c)'
    <3>1. ASSUME ~raced, Stands(c)
          PROVE  fed \o t = SubSeq(handed, 1, Len(handed))
      <4>1. fed \o SubSeq(handed, Len(fed) + 1, Len(handed)) = handed
        BY <1>2, <3>1, WithinRest DEF Down
      <4>2. SubSeq(handed, 1, Len(handed)) = handed
        BY <1>2, SubSeqFull
      <4> QED BY <1>3, <2>4, <3>1, <4>1, <4>2
    <3>2. Len(handed) <= Len(handed)
      BY <1>2
    <3> QED BY <1>1, <1>4, <2>2, <2>3, <3>1, <3>2 DEF Owed
  <2> QED BY <1>1, <1>4, <2>1, <2>5, <2>6 DEF DownAt, HelloSays, AllOfIt
<1> QED BY <1>1, <1>5, <1>6 DEF Down

LEMMA AttachesDown ==
  ASSUME Types, Down, UNCHANGED fed, ListenerNet(net, net'), NEW c \in Conns, Attaches(c)
  PROVE  Down'
<1> DEFINE t == h[c].tail
<1>1. /\ h[c].pc = "replying" /\ h'[c] = Reading(st.generation + 1)
      /\ st' = Attach(st, c, t) /\ handed' = handed
      /\ raced' <=> raced \/ st.dead \/ st.received # h[c].received
                          \/ st.replay.sent_total # h[c].sent
      /\ \A d \in Conns : /\ d # c => h'[d] = h[d]
                          /\ net'[d].down = net[d].down
                          /\ net'[d].lOpen => net'[d].up = net[d].up
  BY DEF Attaches
<1>2. /\ st \in SessionType /\ fed \in Seq(Nat) /\ handed \in Seq(Nat) /\ t \in Seq(Nat)
      /\ st.replay.sent_total = Len(handed)
  BY DEF Types, LTypes, CTypes, HandlerType, Down, ReplayOf
<1>3. /\ st'.replay = st.replay /\ st'.outq = DataFrames(t) /\ st'.conn = c
      /\ Units(st'.outq) = t /\ h'[c].pc = "reading"
  <2>1. h'[c].pc = "reading"
    BY <1>1 DEF Reading, NewHandler
  <2> HIDE DEF t
  <2>2. st'.replay = st.replay /\ st'.outq = DataFrames(t) /\ st'.conn = c
    BY <1>1, <1>2, AttachIs
  <2>3. Units(DataFrames(t)) = t
    BY <1>2, UnitsOfData
  <2> QED BY <2>1, <2>2, <2>3
<1>4. ASSUME NEW d \in Conns, d # c PROVE DownAt(d)'
  <2>1. Rests(d) /\ st'.conn # d
    BY <1>1, <1>3, <1>4 DEF Rests
  <2>2. Calm(d)
    BY <2>1, RestCalms
  <2> QED BY <1>1, <1>4, <2>2, CalmKeeps DEF Down
<1>5. DownAt(c)'
  <2>1. (Stands(c)' => Stands(c)) /\ (net'[c].cOpen => net[c].cOpen) /\ Flow(c)' = Flow(c)
    BY <1>1 DEF ListenerNet, Stands, Flow
  <2>2. ~raced' => Arrives(c)'
    BY <1>1, <2>1 DEF Down, DownAt, Arrives
  <2>3. ASSUME ~raced', Stands(c) PROVE Flow(c) \o t = handed
    <3>1. Units(net[c].down) = <<>> /\ fed \o t = SubSeq(handed, 1, Len(handed))
      BY <1>1, <1>2, <2>3 DEF Down, DownAt, Owed
    <3>2. SubSeq(handed, 1, Len(handed)) = handed /\ fed \o <<>> = fed
      <4>1. SubSeq(handed, 1, Len(handed)) = handed
        BY <1>2, SubSeqFull
      <4>2. fed \o <<>> = fed
        BY <1>2, ConcatEmptySeq
      <4> QED BY <4>1, <4>2
    <3> QED BY <3>1, <3>2 DEF Flow
  <2>4. ~raced' => AllOfIt(c)'
    BY <1>1, <1>3, <2>1, <2>3 DEF AllOfIt
  <2> QED BY <1>3, <2>2, <2>4 DEF DownAt, HelloSays, Owed
<1> QED BY <1>1, <1>3, <1>4, <1>5 DEF Down

LEMMA ListenerDown ==
  ASSUME Types, Types', LControl, Path, Attachment, Down, ListenerMoves
  PROVE  Down'
<1>1. UNCHANGED fed /\ ListenerNet(net, net')
  BY DEF ListenerMoves, cvars
<1>2. /\ st \in SessionType /\ st.replay \in ReplayType(Nat) /\ st.outq \in Seq(Frames)
      /\ handed \in Seq(Nat) /\ fed \in Seq(Nat) /\ st.received \in Nat /\ net \in NetType
  BY DEF Types, LTypes, CTypes, SessionType
<1>3. ASSUME st'.replay = st.replay, handed' = handed, raced => raced',
             \A d \in Conns : Calm(d)
      PROVE  Down'
  BY <1>1, <1>3, CalmKeeps DEF Down
<1>4. CASE Hush
  <2>1. ASSUME NEW d \in Conns PROVE Calm(d)
    <3>1. Rests(d) \/ Leaves(d)
      BY <1>4 DEF Hush
    <3>2. st'.attached /\ st'.conn = d
            => st.attached /\ st.conn = d /\ Units(st'.outq) = Units(st.outq)
      BY <1>4 DEF Hush, SameStreams, SameAttachment, NoAttachment
    <3> QED BY <1>1, <3>1, <3>2, RestCalms
  <2> QED BY <1>3, <1>4, <2>1 DEF Hush, SameStreams
<1>5. CASE Begins
  <2>1. /\ st'.replay = st.replay /\ st'.outq = st.outq /\ st'.conn = st.conn
        /\ (st'.attached <=> st.attached) /\ handed' = handed /\ (raced' <=> raced)
        /\ h[1].pc = "connecting" /\ h'[1] = Greeting
        /\ Units(net'[1].down) = Units(net[1].down)
        /\ \A d \in Conns : d # 1 => Rests(d)
    BY <1>5 DEF Begins, SameStreams, SameAttachment
  <2>2. 1 \in Conns
    BY WireBoundsAssumption DEF Conns
  <2>3. ASSUME NEW d \in Conns, d # 1 PROVE DownAt(d)'
    <3>1. Calm(d)
      BY <1>1, <2>1, <2>3, RestCalms
    <3> QED BY <1>1, <2>1, <2>3, <3>1, CalmKeeps DEF Down
  <2>4. DownAt(1)'
    <3>1. /\ net[1].down = <<>> /\ fed = <<>> /\ st.conn # 1
      BY <2>1, <2>2 DEF Path, HelloQuiet, FirstDial, Attachment
    <3>2. h'[1].pc = "replying" /\ h'[1].tail = <<>> /\ h'[1].sent = 0
      <4>1. <<>> \in Seq(Nat) /\ 0 \in Nat
        OBVIOUS
      <4> QED BY <2>1, <4>1, HandlersAre
    <3>3. Flow(1)' = Flow(1) /\ (net'[1].cOpen => net[1].cOpen)
      BY <1>1, <2>1, <2>2 DEF Flow, ListenerNet
    <3>4. ~raced => Arrives(1)'
      BY <2>1, <2>2, <3>3 DEF Down, DownAt, Arrives
    <3>5. Owed(1)'
      <4>1. fed \o <<>> = SubSeq(handed, 1, 0) /\ 0 <= Len(handed)
        <5>1. SubSeq(handed, 1, 0) = <<>>
          BY SubSeqEmpty
        <5>2. fed \o <<>> = <<>>
          BY <1>2, <3>1, ConcatEmptySeq
        <5> QED BY <1>2, <5>1, <5>2
      <4> QED BY <1>1, <2>1, <3>1, <3>2, <4>1, UnitsOfNone DEF Owed
    <3> QED BY <2>1, <3>1, <3>2, <3>4, <3>5 DEF DownAt, HelloSays, AllOfIt
  <2> QED BY <1>1, <2>1, <2>3, <2>4 DEF Down
<1>6. ASSUME NEW c \in Conns, Takes(c) PROVE Down'
  <2> DEFINE f == Head(net[c].up)
  <2>1. /\ h[c].pc = "reading" /\ net[c].up # <<>> /\ st' = Apply(st, f)
        /\ net' = LTake(net, c) /\ UNCHANGED <<h, handed, raced>>
    BY <1>6 DEF Takes, CurrentReader, LReadable
  <2>2. f \in Frames /\ f.n \in Nat
    BY <1>2, <2>1, NetFields, HeadFrames
  <2> HIDE DEF f
  <2>3. /\ st'.conn = st.conn /\ st'.attached = st.attached
        /\ st'.replay = st.replay \/ st'.replay = Ack(st.replay, f.n)
        /\ st'.outq = st.outq \/ st'.outq = Append(st.outq, Frame("ack", st.received + 1))
    BY <1>2, <2>1, <2>2, ApplyDataIs, ApplyAckIs
  <2>4. Units(st'.outq) = Units(st.outq)
    <3> DEFINE g == Frame("ack", st.received + 1)
    <3>1. g \in Frames /\ g.t # "data"
      BY <1>2, FrameIs DEF FrameTypes
    <3> HIDE DEF g
    <3>2. Units(Append(st.outq, g)) = Units(st.outq)
      BY <1>2, <3>1, UnitsOfAppend
    <3> QED BY <2>3, <3>2 DEF g
  <2>5. ReplayOf(st'.replay, handed')
    BY <1>2, <2>1, <2>2, <2>3, AckKeepsReplayOf DEF Down
  <2>6. ASSUME NEW d \in Conns PROVE DownAt(d)'
    <3>1. net'[d].down = net[d].down /\ (d # c => net'[d].up = net[d].up)
      BY <1>2, <2>1, LTakeIs DEF SameDown
    <3>2. Calm(d)
      BY <1>1, <2>1, <2>3, <2>4, <3>1, StillCalms
    <3> QED BY <1>1, <2>1, <2>6, <3>2, CalmKeeps DEF Down
  <2> QED BY <1>1, <2>1, <2>5, <2>6 DEF Down
<1>7. CASE Delivers
  <2>1. st' = Taken(st) /\ st.inq # <<>> /\ UNCHANGED <<h, handed, raced, net>>
    BY <1>7 DEF Delivers
  <2>2. /\ st'.conn = st.conn /\ st'.attached = st.attached /\ st'.replay = st.replay
        /\ st'.outq = st.outq
    BY <1>2, <2>1, TakenIs
  <2>3. ASSUME NEW d \in Conns PROVE Calm(d)
    BY <1>1, <2>1, <2>2, StillCalms
  <2> QED BY <1>3, <2>1, <2>2, <2>3
<1> QED BY <1>1, <1>4, <1>5, <1>6, <1>7, AnswersDown, AttachesDown, RecordsDown, WritesDown
        DEF ListenerMoves

LEMMA FirstDown == Init => Down
<1> SUFFICES ASSUME Init PROVE Down
  OBVIOUS
<1>1. Way /\ Control
  BY FirstWay, StartsWell
<1>2. /\ h = [c \in Conns |-> NewHandler] /\ fed = <<>> /\ handed = <<>>
      /\ st.replay = NewReplay /\ ~st.attached
      /\ net = Dialed([c \in Conns |-> NewConn], 1, Frame("hello", 0))
  BY DEF Init, LInit, CInit, NetInit, NewSession
<1>3. \A c \in Conns : h[c].pc = "hello" /\ net[c].down = <<>>
  BY <1>1, <1>2 DEF Way, Path, HelloQuiet, NewHandler
<1>4. ReplayOf(st.replay, handed)
  BY <1>2, ReplayCapAssumption DEF NewReplay, ReplayOf, LastN
<1>5. Within(fed, handed)
  <2>1. <<>> \in Seq(Nat) /\ <<>> \o <<>> = <<>>
    OBVIOUS
  <2> QED BY <1>2, <2>1 DEF Within
<1>6. ASSUME NEW c \in Conns PROVE HelloSays(c)
  <2> DEFINE n == [e \in Conns |-> NewConn]
             f == Frame("hello", 0)
  <2>1. n \in NetType /\ 1 \in Conns /\ f \in Frames /\ f.n = 0 /\ \A e \in Conns : ~n[e].cOpen
    <3>1. 1 \in Conns /\ f \in Frames /\ f.n = 0
      BY WireBoundsAssumption, FrameIs DEF Conns, FrameTypes
    <3>2. <<>> \in Seq(Frames)
      OBVIOUS
    <3> QED BY <3>1, <3>2 DEF NetType, ConnType, NewConn
  <2> HIDE DEF n, f
  <2>2. (c # 1 => net[c] = n[c]) /\ net[1].up = <<f>>
    BY <1>2, <2>1, DialedIs DEF n, f
  <2>3. Head(<<f>>) = f /\ Len(fed) = 0
    BY <1>2
  <2> QED BY <2>1, <2>2, <2>3 DEF HelloSays, Stands
<1>7. ASSUME NEW c \in Conns PROVE Flow(c) = fed
  <2>1. <<>> \o <<>> = <<>>
    OBVIOUS
  <2> QED BY <1>2, <1>3, <2>1, UnitsOfNone DEF Flow
<1> QED BY <1>2, <1>3, <1>4, <1>5, <1>6, <1>7 DEF Down, DownAt, Arrives, AllOfIt, Owed

LEMMA DownKept == Control /\ Acks /\ Way /\ Down /\ [Next]_vars => Down'
<1> SUFFICES ASSUME Control, Acks, Way, Down, [Next]_vars PROVE Down'
  OBVIOUS
<1>1. /\ Types /\ CControl /\ LControl /\ Path /\ Attachment /\ Types'
      /\ ListenerMoves \/ ClientMoves
  BY NextMoves, ControlKeeps DEF Control, Way
<1> QED BY <1>1, ListenerDown, ClientDown

LEMMA DownHolds == Spec => []Down
<1>1. Init => Down
  BY FirstDown
<1> QED BY <1>1, DownKept, ControlHolds, AcksHold, WayHolds, PTL DEF Spec

\* What sshd sends reaches the SSH core in order, none of it lost or repeated, over any
\* number of resumes (tail_from, attach, install_connection) -- unless an attach used
\* a count that had gone stale.
THEOREM DownIsExact == Spec => []DownIntegrity
<1>1. Control /\ Down => DownIntegrity
  <2> SUFFICES ASSUME Control, Down, ~raced PROVE Prefix(fed, handed)
    BY DEF DownIntegrity
  <2>1. fed \in Seq(Nat) /\ handed \in Seq(Nat) /\ Within(fed, handed)
    BY DEF Control, Types, LTypes, CTypes, Down
  <2> QED BY <2>1, PrefixIs DEF Within
<1> QED BY <1>1, ControlHolds, DownHolds, PTL

\* While an attachment stands, what the core was fed, what is in flight and what [B] has
\* queued are together all that sshd ever sent (attach, next_write_job).
THEOREM DownIsConserved == Spec => []DownConserved
<1>1. Control /\ Down => DownConserved
  <2> SUFFICES ASSUME Control, Down, ~raced, st.attached, st.conn # NoConn, Stands(st.conn)
               PROVE  (fed \o Units(net[st.conn].down)) \o Units(st.outq) = handed
    BY DEF DownConserved
  <2>1. st.conn \in Conns
    BY DEF Control, Types, LTypes, SessionType, AnyConn
  <2> QED BY <2>1 DEF Down, DownAt, AllOfIt, Flow
<1> QED BY <1>1, ControlHolds, DownHolds, PTL

-----------------------------------------------------------------------------
(* The end: who finishes a connection, and what was on it.                          *)

LEMMA FinishesAre ==
  ASSUME Types, NEW c \in Conns, NEW e \in AnyConn, NEW f \in LFrames
  PROVE  /\ LReadable(c) => SameFin(net, LTake(net, c))
         /\ SameFin(net, LWrite(net, c, <<f>>))
         /\ LReadable(c) => SameFin(net, LWrite(LTake(net, c), c, <<f>>))
         /\ SameFin(net, LClose(net, c)) /\ SameFin(net, CloseConn(net, e))
         /\ SameFin(net, CloseConn(LClose(net, c), e))
         /\ \A d \in Conns : d # c =>
              /\ LFinish(net, c)[d].fin = net[d].fin
              /\ LFinish(LWrite(net, c, <<f>>), c)[d].fin = net[d].fin
              /\ LReadable(c) =>
                   LFinish(LWrite(LTake(net, c), c, <<f>>), c)[d].fin = net[d].fin
<1>1. net \in NetType /\ e \in Conns \cup {NoConn}
  BY DEF Types, AnyConn
<1>2. /\ SameFin(net, LWrite(net, c, <<f>>)) /\ LWrite(net, c, <<f>>) \in NetType
      /\ SameFin(net, LClose(net, c)) /\ LClose(net, c) \in NetType
      /\ SameFin(net, CloseConn(net, e))
  BY <1>1, WrittenIs, LCloseIs, CloseConnIs
<1>3. SameFin(net, CloseConn(LClose(net, c), e))
  <2> DEFINE a == LClose(net, c)
  <2> HIDE DEF a
  <2>1. a \in NetType /\ SameFin(net, a)
    BY <1>2 DEF a
  <2>2. SameFin(a, CloseConn(a, e))
    BY <1>1, <2>1, CloseConnIs
  <2> QED BY <2>1, <2>2 DEF SameFin, a
<1>4. LReadable(c) => /\ LTake(net, c) \in NetType /\ SameFin(net, LTake(net, c))
                      /\ LWrite(LTake(net, c), c, <<f>>) \in NetType
                      /\ SameFin(net, LWrite(LTake(net, c), c, <<f>>))
  <2> SUFFICES ASSUME LReadable(c)
               PROVE  /\ LTake(net, c) \in NetType /\ SameFin(net, LTake(net, c))
                      /\ LWrite(LTake(net, c), c, <<f>>) \in NetType
                      /\ SameFin(net, LWrite(LTake(net, c), c, <<f>>))
    OBVIOUS
  <2> DEFINE a == LTake(net, c)
  <2>1. a \in NetType /\ SameFin(net, a)
    BY <1>1, LTakeIs DEF LReadable
  <2> HIDE DEF a
  <2>2. LWrite(a, c, <<f>>) \in NetType /\ SameFin(a, LWrite(a, c, <<f>>))
    BY <2>1, WrittenIs
  <2> QED BY <2>1, <2>2 DEF SameFin, a
<1>5. ASSUME NEW n \in NetType, SameFin(net, n), NEW d \in Conns, d # c
      PROVE  LFinish(n, c)[d].fin = net[d].fin
  <2>1. n[d].fin \in BOOLEAN /\ net[d].fin \in BOOLEAN /\ LFinish(n, c)[d] = n[d]
    BY <1>1, <1>5, NetFields DEF LFinish, NetType
  <2> QED BY <1>5, <2>1 DEF SameFin
<1>6. SameFin(net, net)
  BY DEF SameFin
<1> QED BY <1>1, <1>2, <1>3, <1>4, <1>5, <1>6

LEMMA FinishesBy ==
  ASSUME Types, ListenerStep, NEW d \in Conns, ~net[d].fin, net'[d].fin
  PROVE  h[d].pc \in {"hello", "connecting"} \/ (ClientWriterFinish /\ d = st.send)
<1>1. /\ st.conn \in AnyConn /\ st.send \in AnyConn /\ NoConn \in AnyConn /\ 1 \in Conns
  BY WireBoundsAssumption DEF Types, LTypes, SessionType, AnyConn, Conns
<1>2. /\ Frame("new", 0) \in LFrames /\ Frame("refused", 0) \in LFrames
      /\ Frame("resumed", st.received) \in LFrames
      /\ st.outq # <<>> => Head(st.outq) \in LFrames
  BY LFramesAre
<1>3. ASSUME NEW n, Park(n) PROVE net' = n \/ net' = CloseConn(n, st.conn)
  BY <1>3 DEF Park
<1>4. ASSUME NEW c \in Conns,
             \/ StartSession(c) \/ ConnectTarget(c) \/ ResumeSession(c) \/ HelloLost(c)
             \/ Replied(c) \/ ReplyFailed(c) \/ Lingered(c)
      PROVE  d = c /\ h[c].pc \in {"hello", "connecting"}
  <2>1. \/ LReadable(c) /\ net' = LTake(net, c)
        \/ net' = LWrite(net, c, <<Frame("new", 0)>>)
        \/ /\ h[c].pc = "connecting"
           /\ net' = LFinish(LWrite(net, c, <<Frame("refused", 0)>>), c)
        \/ LReadable(c) /\ net' = Refusal(net, c) /\ h[c].pc = "hello"
        \/ LReadable(c) /\ net' = LWrite(LTake(net, c), c, <<Frame("resumed", st.received)>>)
        \/ net' = LClose(net, c)
        \/ net' = CloseConn(net, st.conn)
    BY <1>4 DEF StartSession, ConnectTarget, ResumeSession, HelloLost, Replied, ReplyFailed,
                Lingered, Return, Refuse, Refusal, LTake
  <2>2. ~SameFin(net, net')
    BY DEF SameFin
  <2> QED BY <1>1, <1>2, <2>1, <2>2, FinishesAre DEF Refusal
<1>5. ASSUME NEW c \in Conns, ClientReader(c) \/ ClientReaderEnd(c)
      PROVE  FALSE
  <2>1. \/ LReadable(c) /\ net' = LTake(net, c)
        \/ net' = LClose(net, c)
        \/ net' = CloseConn(LClose(net, c), st.conn)
    BY <1>3, <1>5 DEF ClientReader, ClientReaderEnd, Return, LTake
  <2>2. ~SameFin(net, net')
    BY DEF SameFin
  <2> QED BY <1>1, <1>2, <2>1, <2>2, FinishesAre
<1>6. ASSUME \/ TcpReaderGo \/ TcpReader \/ HostKeyRefused \/ TcpReaderEnd
             \/ ClientWriter \/ ClientWriterOk \/ ClientWriterErr \/ ClientWriterExit
             \/ TcpWriter \/ TcpWriterEnd
             \/ (\E e \in timers : GraceExpired(e)) \/ SshdGone
      PROVE  FALSE
  <2>1. \/ net' = net
        \/ /\ st.outq # <<>> /\ st.send \in Conns
           /\ net' = LWrite(net, st.send, <<Head(st.outq)>>)
        \/ net' = CloseConn(net, st.conn)
    BY <1>1, <1>3, <1>6
       DEF TcpReaderGo, TcpReader, HostKeyRefused, TcpReaderEnd, ClientWriter, ClientWriterOk,
           ClientWriterErr, ClientWriterExit, TcpWriter, TcpWriterEnd,
           GraceExpired, SshdGone, AnyConn
  <2>2. ~SameFin(net, net')
    BY DEF SameFin
  <2> QED BY <1>1, <1>2, <2>1, <2>2, FinishesAre
<1>7. ASSUME ClientWriterFinish PROVE d = st.send
  <2>1. st.send \in Conns /\ net' = LFinish(net, st.send)
    BY <1>1, <1>7 DEF ClientWriterFinish, AnyConn
  <2> QED BY <1>2, <1>1, <2>1, FinishesAre
<1> QED BY <1>4, <1>5, <1>6, <1>7 DEF ListenerStep

\* "a still-attached client sees the tail of the SSH stream and then a clean end":
\* [B] finishes a connection that stands (pump_client_writer, Finish) only when all of
\* the stream is on its way.
THEOREM EndIsClean == Spec => CleanEnd
<1> DEFINE Clean(c) == ~raced /\ st.conn = c /\ Stands(c) /\ ~net[c].fin /\ net'[c].fin
                         => fed \o Units(net[c].down) = handed
<1>1. Control /\ Way /\ Down /\ [Next]_vars => [\A c \in Conns : Clean(c)]_vars
  <2> SUFFICES ASSUME Control, Way, Down, Next, NEW c \in Conns,
                      ~raced, st.conn = c, Stands(c), ~net[c].fin, net'[c].fin
               PROVE  fed \o Units(net[c].down) = handed
    OBVIOUS
  <2>1. /\ Types /\ Attachment /\ net \in NetType /\ net' \in NetType
        /\ h[c].pc \in {"reading", "done"}
    BY ControlKeeps DEF Control, Way, Types, Attachment
  <2>2. CASE ListenerStep
    <3>1. st.attached /\ st.outq = <<>>
      BY <2>1, <2>2, FinishesBy DEF ClientWriterFinish
    <3>2. Flow(c) \o <<>> = handed
      BY <3>1, UnitsOfNone DEF Down, DownAt, AllOfIt
    <3>3. Flow(c) \in Seq(Nat)
      <4>1. net[c].down \in Seq(Frames) /\ fed \in Seq(Nat)
        BY <2>1, NetFields DEF Types, CTypes
      <4> QED BY <4>1, UnitsType, ConcatProperties DEF Flow
    <3> QED BY <3>2, <3>3, ConcatEmptySeq DEF Flow
  <2>3. CASE ClientStep
    <3>1. ClientNet(net, net')
      BY <2>3, ClientNets DEF Control
    <3> QED BY <3>1 DEF ClientNet, Kept, DialedNow
  <2>4. ASSUME NEW e \in Conns, Lose(e) PROVE FALSE
    <3>1. net' = CClose(net, e) \/ net' = LClose(net, e)
      BY <2>4 DEF Lose
    <3>2. SameFin(net, CClose(net, e)) /\ SameFin(net, LClose(net, e))
      BY <2>1, CCloseIs, LCloseIs
    <3> QED BY <3>1, <3>2 DEF SameFin
  <2> QED BY <2>2, <2>3, <2>4, NextSplits
<1> QED BY <1>1, ControlHolds, WayHolds, DownHolds, PTL DEF Spec, CleanEnd

-----------------------------------------------------------------------------
(* The typing: what was typed, what was sent, what is on its way to sshd.           *)

\* The units after the a-th up to the b-th.
Span(a, b) == [i \in 1..(b - a) |-> a + i]

LEMMA SpanIs ==
  ASSUME NEW a \in Nat, NEW b \in Nat, a <= b
  PROVE  /\ Span(a, b) \in Seq(Nat) /\ Len(Span(a, b)) = b - a
         /\ \A i \in 1..(b - a) : Span(a, b)[i] = a + i
         /\ Span(a, a) = <<>> /\ Upto(b) = Span(0, b)
<1>1. b - a \in Nat /\ \A i \in 1..(b - a) : a + i \in Nat
  OBVIOUS
<1>2. Span(a, b) \in Seq(Nat) /\ Len(Span(a, b)) = b - a
  BY <1>1 DEF Span
<1>3. \A i \in 1..(b - a) : Span(a, b)[i] = a + i
  BY DEF Span
<1>4. Span(a, a) = <<>>
  <2>1. a - a = 0
    OBVIOUS
  <2>2. Span(a, a) \in Seq(Nat) /\ Len(Span(a, a)) = 0
    BY <2>1 DEF Span
  <2> QED BY <2>2
<1>5. Upto(b) = Span(0, b)
  <2>1. b - 0 = b /\ \A i \in 1..b : 0 + i = i
    OBVIOUS
  <2> QED BY <2>1 DEF Upto, Span
<1> QED BY <1>2, <1>3, <1>4, <1>5

LEMMA SpanMore ==
  ASSUME NEW a \in Nat, NEW b \in Nat, a <= b
  PROVE  /\ Append(Span(a, b), b + 1) = Span(a, b + 1)
         /\ Span(a, b) \o <<b + 1>> = Span(a, b + 1)
<1> DEFINE s == Span(a, b)
           t == Span(a, b + 1)
           u == Append(s, b + 1)
<1>1. /\ s \in Seq(Nat) /\ Len(s) = b - a /\ \A i \in 1..(b - a) : s[i] = a + i
      /\ t \in Seq(Nat) /\ Len(t) = (b + 1) - a /\ \A i \in 1..((b + 1) - a) : t[i] = a + i
  <2>1. /\ s \in Seq(Nat) /\ Len(s) = b - a /\ \A i \in 1..(b - a) : s[i] = a + i
    BY SpanIs
  <2> DEFINE n == b + 1
  <2>2. n \in Nat /\ a <= n
    OBVIOUS
  <2> HIDE DEF n
  <2>3. Span(a, n) \in Seq(Nat) /\ Len(Span(a, n)) = n - a /\ \A i \in 1..(n - a) : Span(a, n)[i] = a + i
    BY <2>2, SpanIs
  <2> QED BY <2>1, <2>3 DEF n
<1> HIDE DEF s, t
<1>2. /\ u \in Seq(Nat) /\ Len(u) = Len(s) + 1 /\ u[Len(s) + 1] = b + 1
      /\ \A i \in 1..Len(s) : u[i] = s[i]
  BY <1>1
<1> HIDE DEF u
<1>3. \A i \in 1..Len(u) : u[i] = t[i]
  <2> TAKE i \in 1..Len(u)
  <2>1. i \in 1..((b + 1) - a) /\ t[i] = a + i
    BY <1>1, <1>2
  <2>2. CASE i = (b - a) + 1
    <3>1. u[i] = b + 1 /\ a + i = b + 1
      BY <1>1, <1>2, <2>2
    <3> QED BY <2>1, <3>1
  <2>3. CASE i # (b - a) + 1
    <3>1. i \in 1..(b - a)
      BY <2>1, <2>3
    <3>2. i \in 1..Len(s)
      BY <1>1, <3>1
    <3>3. u[i] = s[i]
      BY <1>2, <3>2
    <3>4. s[i] = a + i
      BY <1>1, <3>1
    <3> QED BY <2>1, <3>3, <3>4
  <2> QED BY <2>2, <2>3
<1>4. u = t
  BY <1>1, <1>2, <1>3, SeqEqual
<1>5. u = s \o <<b + 1>>
  <2>1. b + 1 \in Nat
    OBVIOUS
  <2> QED BY <1>1, <2>1, AppendIsConcat DEF u
<1> QED BY <1>4, <1>5 DEF u, s, t

LEMMA SpanLess ==
  ASSUME NEW a \in Nat, NEW b \in Nat, a < b
  PROVE  Head(Span(a, b)) = a + 1 /\ Tail(Span(a, b)) = Span(a + 1, b) /\ Span(a, b) # <<>>
<1> DEFINE s == Span(a, b)
           t == Span(a + 1, b)
<1>1. /\ s \in Seq(Nat) /\ Len(s) = b - a /\ \A i \in 1..(b - a) : s[i] = a + i
      /\ t \in Seq(Nat) /\ Len(t) = b - (a + 1)
      /\ \A i \in 1..(b - (a + 1)) : t[i] = (a + 1) + i
  <2>1. /\ s \in Seq(Nat) /\ Len(s) = b - a /\ \A i \in 1..(b - a) : s[i] = a + i
    BY SpanIs
  <2> DEFINE n == a + 1
  <2>2. n \in Nat /\ n <= b
    OBVIOUS
  <2> HIDE DEF n
  <2>3. Span(n, b) \in Seq(Nat) /\ Len(Span(n, b)) = b - n /\ \A i \in 1..(b - n) : Span(n, b)[i] = n + i
    BY <2>2, SpanIs
  <2> QED BY <2>1, <2>3 DEF n
<1> HIDE DEF s, t
<1>2. /\ s # <<>> /\ Head(s) = s[1] /\ Tail(s) \in Seq(Nat) /\ Len(Tail(s)) = Len(s) - 1
      /\ \A i \in 1..Len(Tail(s)) : Tail(s)[i] = s[i + 1]
  <2>1. s # <<>>
    BY <1>1
  <2>2. Head(s) = s[1]
    BY <1>1, <2>1
  <2>3. /\ Tail(s) \in Seq(Nat) /\ Len(Tail(s)) = Len(s) - 1
        /\ \A i \in 1..Len(Tail(s)) : Tail(s)[i] = s[i + 1]
    BY <1>1, <2>1, HeadTailProperties
  <2> QED BY <2>1, <2>2, <2>3
<1>3. Tail(s) = t
  <2> DEFINE q == Tail(s)
  <2>1. /\ q \in Seq(Nat) /\ Len(q) = b - (a + 1)
        /\ \A i \in 1..(b - (a + 1)) : q[i] = s[i + 1]
    BY <1>1, <1>2
  <2> HIDE DEF q
  <2>2. \A i \in 1..(b - (a + 1)) : q[i] = t[i]
    <3> TAKE i \in 1..(b - (a + 1))
    <3>1. i + 1 \in 1..(b - a) /\ a + (i + 1) = (a + 1) + i
      OBVIOUS
    <3> QED BY <1>1, <2>1, <3>1
  <2>3. q = t
    BY <1>1, <2>1, <2>2, SeqEqual
  <2> QED BY <2>3 DEF q
<1> QED BY <1>1, <1>2, <1>3 DEF s, t

\* A span that begins with a unit.
LEMMA SpanBegins ==
  ASSUME NEW a \in Nat, NEW b \in Nat, a <= b, NEW u \in Nat, NEW s \in Seq(Nat),
         <<u>> \o s = Span(a, b)
  PROVE  a < b /\ u = a + 1 /\ s = Span(a + 1, b)
<1> DEFINE t == <<u>> \o s
<1>1. /\ <<u>> \in Seq(Nat) /\ Len(t) = 1 + Len(s) /\ t # <<>> /\ Head(t) = u /\ Tail(t) = s
  OBVIOUS
<1>2. a < b
  <2>1. Len(t) = b - a
    BY SpanIs
  <2> QED BY <1>1, <2>1
<1> QED BY <1>1, <1>2, SpanLess

\* The end of all that was sent.
LEMMA SpanTail ==
  ASSUME NEW a \in Nat, NEW b \in Nat, a <= b
  PROVE  SubSeq(Span(0, b), a + 1, b) = Span(a, b)
<1> DEFINE s == Span(0, b)
           t == SubSeq(s, a + 1, b)
           r == Span(a, b)
<1>1. /\ s \in Seq(Nat) /\ Len(s) = b - 0 /\ \A i \in 1..(b - 0) : s[i] = 0 + i
      /\ r \in Seq(Nat) /\ Len(r) = b - a /\ \A i \in 1..(b - a) : r[i] = a + i
  <2>1. 0 \in Nat /\ 0 <= b
    OBVIOUS
  <2>2. /\ s \in Seq(Nat) /\ Len(s) = b - 0 /\ \A i \in 1..(b - 0) : s[i] = 0 + i
    BY <2>1, SpanIs
  <2>3. /\ r \in Seq(Nat) /\ Len(r) = b - a /\ \A i \in 1..(b - a) : r[i] = a + i
    BY SpanIs
  <2> QED BY <2>2, <2>3
<1> HIDE DEF s, r
<1>2. /\ t \in Seq(Nat) /\ Len(t) = (IF a + 1 <= b THEN (b - (a + 1)) + 1 ELSE 0)
      /\ \A i \in 1..((b - (a + 1)) + 1) : t[i] = s[((a + 1) + i) - 1]
  <2>1. \A i \in (a + 1)..b : s[i] \in Nat
    BY <1>1
  <2> QED BY <2>1, SubSeqProperties
<1> HIDE DEF t
<1>3. Len(t) = Len(r)
  BY <1>1, <1>2
<1>4. \A i \in 1..Len(t) : t[i] = r[i]
  <2> TAKE i \in 1..Len(t)
  <2>1. i \in 1..((b - (a + 1)) + 1) /\ ((a + 1) + i) - 1 = a + i /\ a + i \in 1..(b - 0)
    BY <1>1, <1>2, <1>3
  <2> QED BY <1>1, <1>2, <2>1
<1>5. t = r
  BY <1>1, <1>2, <1>3, <1>4, SeqEqual
<1> QED BY <1>5 DEF t, s, r

Total == inner.replay.sent_total

\* The listener takes in what c brings, or will from the count it took in until its reply.
Heeds(c) == h[c].pc = "replying" \/ CurrentReader(c)
Took(c) == IF h[c].pc = "replying" THEN h[c].received ELSE st.received
Announced(c) == /\ net[c].down # <<>> /\ Head(net[c].down).t = "resumed"
                /\ Head(net[c].down).n = Took(c)

\* What such a connection brings is next: all that was sent, once the client has
\* installed it; until then the reply says where the tail will begin.
Brings(c) ==
  Heeds(c) /\ net[c].lOpen =>
    \E k \in Nat : /\ Took(c) <= k /\ k <= Total /\ Units(net[c].up) = Span(Took(c), k)
                   /\ net[c].cOpen /\ Installed(c) => k = Total
                   /\ net[c].cOpen /\ ~Installed(c) /\ c # 1 => Announced(c)
Unsaid(c) == ~Installed(c) => Units(net[c].up) = <<>>

\* What was typed is sent or in the outbox; what the listener counted is with sshd or
\* on its way there.
Sending == /\ ReplayOf(inner.replay, Span(0, Total))
           /\ Total <= typed /\ inner.outbox = Span(Total, typed)
Reached == /\ st.received <= Total
           /\ task.C # "done" => st.inq = Span(Len(sshdIn), st.received)
           /\ Len(sshdIn) <= typed /\ sshdIn = Span(0, Len(sshdIn))

Up == /\ Sending /\ \A c \in Conns : Unsaid(c)
      /\ ~raced => Reached /\ \A c \in Conns : Brings(c)

KeepsHead(d) == net[d].down # <<>> => /\ net'[d].down # <<>>
                                      /\ Head(net'[d].down) = Head(net[d].down)

\* A connection that brings what it brought.
LEMMA BringsStays ==
  ASSUME NEW d \in Conns, Brings(d), Total' = Total, Installed(d)' <=> Installed(d),
         Heeds(d)' /\ net'[d].lOpen
           => /\ Heeds(d) /\ net[d].lOpen /\ Took(d)' = Took(d)
              /\ Units(net'[d].up) = Units(net[d].up),
         net'[d].cOpen => net[d].cOpen /\ (Installed(d) \/ d = 1 \/ KeepsHead(d))
  PROVE  Brings(d)'
<1> SUFFICES ASSUME Heeds(d)', net'[d].lOpen
             PROVE  \E k \in Nat : /\ Took(d) <= k /\ k <= Total
                                   /\ Units(net'[d].up) = Span(Took(d), k)
                                   /\ net'[d].cOpen /\ Installed(d) => k = Total
                                   /\ net'[d].cOpen /\ ~Installed(d) /\ d # 1 => Announced(d)'
  BY DEF Brings
<1>1. PICK k \in Nat : /\ Took(d) <= k /\ k <= Total /\ Units(net[d].up) = Span(Took(d), k)
                       /\ net[d].cOpen /\ Installed(d) => k = Total
                       /\ net[d].cOpen /\ ~Installed(d) /\ d # 1 => Announced(d)
  BY DEF Brings
<1>2. net'[d].cOpen /\ ~Installed(d) /\ d # 1 => Announced(d)'
  BY <1>1 DEF Announced, KeepsHead
<1> QED BY <1>1, <1>2

\* The listener's steps: they announce nothing twice, and say nothing for the client.
LEMMA ListenerKeepsHead ==
  ASSUME Types, ListenerNet(net, net'), NEW d \in Conns
  PROVE  KeepsHead(d)
<1> SUFFICES ASSUME net[d].down # <<>>, NEW f \in LFrames, net'[d].down = Append(net[d].down, f)
             PROVE  net'[d].down # <<>> /\ Head(net'[d].down) = Head(net[d].down)
  BY DEF KeepsHead, ListenerNet
<1>1. net[d].down \in Seq(Frames) /\ f \in Frames
  BY NetFields, LFramesAre DEF Types
<1> QED BY <1>1

LEMMA UnsaidStays ==
  ASSUME Types, ListenerNet(net, net'), UNCHANGED reader, NEW d \in Conns, Unsaid(d)
  PROVE  Unsaid(d)'
<1> SUFFICES ASSUME ~Installed(d) PROVE Units(net'[d].up) = <<>>
  BY DEF Unsaid, Installed
<1>1. net[d].up \in Seq(Frames) /\ Units(net[d].up) = <<>>
  BY NetFields DEF Types, Unsaid
<1>2. CASE net'[d].up = net[d].up
  BY <1>1, <1>2
<1>3. CASE net'[d].up = <<>>
  BY <1>3, UnitsOfNone
<1>4. CASE net[d].up # <<>> /\ net'[d].up = Tail(net[d].up)
  <2> DEFINE r == Tail(net[d].up)
             n == Head(net[d].up).n
  <2>1. r \in Seq(Frames) /\ n \in Nat
    BY <1>1, <1>4, HeadFrames
  <2>2. Units(net[d].up) = <<n>> \o Units(r) \/ Units(net[d].up) = Units(r)
    BY <1>1, <1>4, UnitsOfHead
  <2>3. Units(r) \in Seq(Nat)
    BY <2>1, UnitsType
  <2> HIDE DEF r, n
  <2>4. <<n>> \o Units(r) # <<>>
    BY <2>1, <2>3
  <2> QED BY <1>1, <1>4, <2>2, <2>4 DEF r
<1> QED BY <1>2, <1>3, <1>4 DEF ListenerNet

\* A connection that the step does not read from, answer or attach.
LEMMA BringsStill ==
  ASSUME Types, LControl, ListenerNet(net, net'), UNCHANGED <<inner, reader>>,
         NEW d \in Conns, Brings(d), CurrentReader(d) => st'.received = st.received,
         st'.generation \in {st.generation, st.generation + 1},
         \/ h'[d] = h[d] /\ (net'[d].lOpen => net'[d].up = net[d].up)
         \/ Leaves(d)
  PROVE  Brings(d)'
<1>1. Total' = Total /\ (Installed(d)' <=> Installed(d))
  BY DEF Total, Installed
<1>2. net'[d].cOpen => net[d].cOpen /\ KeepsHead(d)
  BY ListenerKeepsHead DEF ListenerNet
<1>3. ASSUME Heeds(d)', net'[d].lOpen
      PROVE  /\ Heeds(d) /\ net[d].lOpen /\ Took(d)' = Took(d)
             /\ Units(net'[d].up) = Units(net[d].up)
  <2>1. ~Leaves(d)
    BY <1>3 DEF Leaves, Heeds, CurrentReader
  <2>2. h'[d] = h[d] /\ net'[d].up = net[d].up /\ net[d].lOpen
    BY <1>3, <2>1 DEF ListenerNet
  <2>3. CASE h[d].pc = "replying"
    BY <2>2, <2>3 DEF Heeds, Took
  <2>4. CASE h[d].pc # "replying"
    <3>1. h[d].pc = "reading" /\ h[d].gen = st'.generation
      BY <1>3, <2>2, <2>4 DEF Heeds, CurrentReader
    <3>2. h[d].gen <= st.generation /\ st.generation \in Nat
      BY <3>1 DEF LControl, LQuiet, Generations, Types, LTypes, SessionType
    <3>3. CurrentReader(d)
      BY <3>1, <3>2 DEF CurrentReader
    <3> QED BY <2>2, <2>4, <3>3 DEF Heeds, Took
  <2> QED BY <2>3, <2>4
<1> QED BY <1>1, <1>2, <1>3, BringsStays

\* A connection whose HELLO is answered has brought nothing yet.
LEMMA BringsFirst ==
  ASSUME UNCHANGED <<inner, reader>>, NEW c \in Conns, ~Installed(c), Unsaid(c)',
         h'[c].pc = "replying", h'[c].received \in Nat, h'[c].received <= Total,
         net'[c].cOpen /\ c # 1 => Announced(c)'
  PROVE  Brings(c)'
<1> DEFINE n == h'[c].received
<1>1. n \in Nat /\ n <= n /\ n <= Total' /\ Took(c)' = n
  BY DEF Took, Total
<1> HIDE DEF n
<1>2. Span(n, n) = <<>>
  BY <1>1, SpanIs
<1>3. ~Installed(c)' /\ Units(net'[c].up) = <<>>
  BY DEF Installed, Unsaid
<1> QED BY <1>1, <1>2, <1>3 DEF Brings

LEMMA BeginsUp ==
  ASSUME Types, Path, Up, UNCHANGED <<inner, reader>>, Unsaid(1)', Begins
  PROVE  Brings(1)'
<1>1. 1 \in Conns /\ 0 \in Nat /\ 0 <= Total
  BY WireBoundsAssumption DEF Conns, Types, CTypes, InnerType, ReplayType, Total
<1>2. ~Installed(1)
  BY <1>1 DEF Begins, Path, HelloQuiet
<1>3. h'[1].pc = "replying" /\ h'[1].received = 0
  <2>1. <<>> \in Seq(Nat)
    OBVIOUS
  <2> QED BY <1>1, <2>1, HandlersAre DEF Begins
<1> QED BY <1>1, <1>2, <1>3, BringsFirst

LEMMA AnswersUp ==
  ASSUME Types, Path, UNCHANGED <<inner, reader>>, ListenerNet(net, net'), Reached,
         NEW c \in Conns, Answers(c), Unsaid(c)'
  PROVE  Brings(c)'
<1> DEFINE n == st.received
           t == TailFrom(st.replay, Head(net[c].up).n)
           m == st.replay.sent_total
           f == Frame("resumed", n)
<1>1. /\ st.replay \in ReplayType(Nat) /\ n \in Nat /\ m \in Nat /\ n <= Total
      /\ net[c].up \in Seq(Frames) /\ net[c].up # <<>>
  BY NetFields DEF Types, LTypes, SessionType, ReplayType, Reached, Answers, LReadable
<1>2. t \in Seq(Nat)
  <2>1. Head(net[c].up).n \in Nat
    BY <1>1, HeadFrames
  <2> QED BY <1>1, <2>1, TailFromType DEF Answers
<1>3. h[c].pc = "hello" /\ h'[c] = Answering(t, n, m)
  BY DEF Answers
<1>4. net'[c].down = IF net[c].cOpen THEN Append(net[c].down, f) ELSE net[c].down
  BY DEF Answers
<1>5. f \in Frames /\ f.t = "resumed" /\ f.n = n
  BY <1>1, FrameIs DEF FrameTypes
<1> HIDE DEF t, m, f, n
<1>6. h'[c].pc = "replying" /\ h'[c].received = n
  BY <1>1, <1>2, <1>3, HandlersAre
<1>7. ~Installed(c) /\ net[c].down = <<>>
  BY <1>3 DEF Path, HelloQuiet
<1>8. net'[c].cOpen => Announced(c)'
  <2>1. net'[c].cOpen => net'[c].down = <<f>>
    <3>1. Append(<<>>, f) = <<f>>
      OBVIOUS
    <3> QED BY <1>4, <1>7, <3>1 DEF ListenerNet
  <2>2. <<f>> # <<>> /\ Head(<<f>>) = f
    OBVIOUS
  <2>3. Took(c)' = n
    BY <1>6 DEF Took
  <2> QED BY <1>5, <2>1, <2>2, <2>3 DEF Announced
<1> QED BY <1>1, <1>6, <1>7, <1>8, BringsFirst

\* attach: the reader goes on from the reply's count, which ~raced says is ours still.
LEMMA AttachesUp ==
  ASSUME Types, LControl, UNCHANGED <<inner, reader, typed>>, ListenerNet(net, net'), ~raced',
         Reached, \A d \in Conns : Brings(d), NEW c \in Conns, Attaches(c)
  PROVE  Reached' /\ \A d \in Conns : Brings(d)'
<1>1. /\ st \in SessionType /\ h[c].tail \in Seq(Nat) /\ st.generation \in Nat
  BY DEF Types, LTypes, HandlerType, SessionType
<1>2. /\ h[c].pc = "replying" /\ h'[c] = Reading(st.generation + 1)
      /\ st' = Attach(st, c, h[c].tail) /\ st.received = h[c].received
      /\ \A d \in Conns : /\ d # c => h'[d] = h[d]
                          /\ net'[d].lOpen => net'[d].up = net[d].up
  BY DEF Attaches
<1>3. /\ st'.received = st.received /\ st'.inq = st.inq
      /\ st'.generation = st.generation + 1
  BY <1>1, <1>2, AttachIs
<1>4. Reached'
  BY <1>3 DEF Reached, Attaches, Total
<1>5. ASSUME NEW d \in Conns, d # c PROVE Brings(d)'
  BY <1>2, <1>3, <1>5, BringsStill
<1>6. Brings(c)'
  <2>1. h'[c].pc = "reading"
    <3> DEFINE g == st.generation + 1
    <3>1. g \in Nat /\ <<>> \in Seq(Nat)
      BY <1>1
    <3> HIDE DEF g
    <3>2. Reading(g).pc = "reading"
      BY <3>1, HandlersAre
    <3> QED BY <1>2, <3>2 DEF g
  <2>2. Took(c)' = Took(c) /\ Heeds(c)
    BY <1>2, <1>3, <2>1 DEF Took, Heeds
  <2>3. net'[c].lOpen => net[c].lOpen /\ net'[c].up = net[c].up
    BY <1>2 DEF ListenerNet
  <2>4. Total' = Total /\ (Installed(c)' <=> Installed(c))
    BY DEF Total, Installed
  <2>5. net'[c].cOpen => net[c].cOpen /\ KeepsHead(c)
    BY ListenerKeepsHead DEF ListenerNet
  <2> QED BY <2>2, <2>3, <2>4, <2>5, BringsStays
<1> QED BY <1>4, <1>5, <1>6

\* Frame::apply: what the reader takes is the next unit.
LEMMA TakesUp ==
  ASSUME Types, LControl, Acks, Attachment, UNCHANGED <<inner, reader, typed>>,
         ListenerNet(net, net'), Reached, \A d \in Conns : Brings(d) /\ Unsaid(d),
         NEW c \in Conns, Takes(c)
  PROVE  Reached' /\ \A d \in Conns : Brings(d)'
<1> DEFINE f == Head(net[c].up)
<1>1. /\ CurrentReader(c) /\ net[c].lOpen /\ net[c].up # <<>> /\ st' = Apply(st, f)
      /\ net' = LTake(net, c) /\ UNCHANGED <<h, task, sshdIn>>
  BY DEF Takes, LReadable
<1>2. /\ st \in SessionType /\ net \in NetType /\ net[c].up \in Seq(Frames)
      /\ st.received \in Nat /\ sshdIn \in Seq(Nat) /\ st.generation \in Nat
      /\ Total \in Nat
  BY NetFields DEF Types, LTypes, CTypes, SessionType, InnerType, ReplayType, Total
<1>3. /\ f \in Frames /\ f.n \in Nat /\ Tail(net[c].up) \in Seq(Frames)
      /\ Units(net[c].up) = IF f.t = "data" THEN <<f.n>> \o Units(Tail(net[c].up))
                                            ELSE Units(Tail(net[c].up))
      /\ Units(Tail(net[c].up)) \in Seq(Nat)
  BY <1>1, <1>2, HeadFrames, UnitsOfHead, UnitsType
<1> HIDE DEF f
<1>4. net'[c].up = Tail(net[c].up) /\ \A d \in Conns : d # c => net'[d].up = net[d].up
  BY <1>1, <1>2, LTakeIs
<1>5. PICK k \in Nat : /\ st.received <= k /\ k <= Total
                       /\ Units(net[c].up) = Span(st.received, k)
                       /\ net[c].cOpen /\ Installed(c) => k = Total
                       /\ net[c].cOpen /\ ~Installed(c) /\ c # 1 => Announced(c)
  BY <1>1 DEF Brings, Heeds, Took, CurrentReader
<1>6. st'.generation = st.generation
  BY <1>1, <1>2, <1>3, ApplyDataIs, ApplyAckIs
<1>7. ASSUME NEW d \in Conns, d # c PROVE Brings(d)'
  <2>1. ~CurrentReader(d)
    BY <1>1, <1>7 DEF Attachment
  <2> QED BY <1>1, <1>2, <1>4, <1>6, <1>7, <2>1, BringsStill
<1>8. ASSUME f.t # "data" PROVE Reached' /\ Brings(c)'
  <2>1. st'.received = st.received /\ st'.inq = st.inq
    BY <1>1, <1>2, <1>3, <1>8, ApplyAckIs
  <2>2. Reached'
    BY <1>1, <2>1 DEF Reached, Total
  <2>3. Took(c)' = Took(c) /\ (Heeds(c)' => Heeds(c))
    BY <1>1, <1>6, <2>1 DEF Took, Heeds, CurrentReader
  <2>4. Total' = Total /\ (Installed(c)' <=> Installed(c))
    BY DEF Total, Installed
  <2>5. net'[c].cOpen => net[c].cOpen /\ KeepsHead(c)
    BY ListenerKeepsHead DEF ListenerNet
  <2>6. Units(net'[c].up) = Units(net[c].up)
    BY <1>3, <1>4, <1>8
  <2>7. Brings(c)'
    BY <1>1, <2>3, <2>4, <2>5, <2>6, BringsStays
  <2> QED BY <2>2, <2>7
<1>9. ASSUME f.t = "data" PROVE Reached' /\ Brings(c)'
  <2> DEFINE n == st.received
             m == n + 1
  <2>1. /\ st'.received = m /\ st'.inq = Append(st.inq, f.n)
    BY <1>1, <1>2, <1>3, <1>9, ApplyDataIs
  <2>2. n < k /\ f.n = m /\ Units(net'[c].up) = Span(m, k)
    <3> DEFINE r == Units(Tail(net[c].up))
               u == f.n
    <3>1. r \in Seq(Nat) /\ u \in Nat /\ <<u>> \o r = Span(n, k) /\ Units(net'[c].up) = r
      BY <1>3, <1>4, <1>5, <1>9
    <3>2. n \in Nat /\ n <= k
      BY <1>2, <1>5
    <3> HIDE DEF r, u, n
    <3>3. n < k /\ u = n + 1 /\ r = Span(n + 1, k)
      BY <1>5, <3>1, <3>2, SpanBegins
    <3> QED BY <3>1, <3>3 DEF u
  <2>3. m \in Nat /\ m <= k /\ m <= Total
    BY <1>2, <1>5, <2>2
  <2>4. Reached'
    <3>1. ASSUME task.C # "done" PROVE st'.inq = Span(Len(sshdIn), m)
      <4>1. Len(sshdIn) \in Nat /\ Len(st.inq) \in Nat /\ Len(sshdIn) + Len(st.inq) = n
        BY <1>2, <3>1 DEF Acks, SessionType
      <4>2. Len(sshdIn) <= n /\ n \in Nat
        BY <4>1
      <4>3. st.inq = Span(Len(sshdIn), n)
        BY <3>1 DEF Reached
      <4>4. Append(Span(Len(sshdIn), n), n + 1) = Span(Len(sshdIn), n + 1)
        BY <4>1, <4>2, SpanMore
      <4> QED BY <2>1, <2>2, <4>3, <4>4
    <3> QED BY <1>1, <2>1, <2>3, <3>1 DEF Reached, Total
  <2>5. Took(c)' = m /\ (net'[c].cOpen => net[c].cOpen)
    BY <1>1, <2>1 DEF Took, CurrentReader, ListenerNet
  <2>6. net[c].cOpen /\ ~Installed(c) /\ c # 1 => Announced(c)'
    <3>1. ASSUME net[c].cOpen, ~Installed(c), c # 1 PROVE FALSE
      <4>1. Units(net[c].up) = <<>>
        BY <3>1 DEF Unsaid
      <4>2. <<f.n>> \o Units(Tail(net[c].up)) # <<>>
        BY <1>3
      <4> QED BY <1>3, <1>9, <4>1, <4>2
    <3> QED BY <3>1
  <2> HIDE DEF m, n
  <2>7. Total' = Total /\ (Installed(c)' <=> Installed(c))
    BY DEF Total, Installed
  <2>8. Brings(c)'
    BY <1>5, <2>2, <2>3, <2>5, <2>6, <2>7 DEF Brings
  <2> QED BY <2>4, <2>8
<1> QED BY <1>7, <1>8, <1>9

\* [C]: what sshd is given is the next unit.
LEMMA DeliversUp ==
  ASSUME Types, LControl, Acks, UNCHANGED <<inner, reader, typed>>, ListenerNet(net, net'),
         Total <= typed, Reached, \A d \in Conns : Brings(d), Delivers
  PROVE  Reached' /\ \A d \in Conns : Brings(d)'
<1> DEFINE a == Len(sshdIn)
           b == st.received
<1>1. /\ task.C = "idle" /\ st.inq # <<>> /\ st' = Taken(st)
      /\ sshdIn' = Append(sshdIn, Head(st.inq)) /\ UNCHANGED <<h, task, net>>
  BY DEF Delivers
<1>2. /\ st \in SessionType /\ st.inq \in Seq(Nat) /\ sshdIn \in Seq(Nat)
      /\ a \in Nat /\ b \in Nat /\ Total \in Nat /\ typed \in Nat
  <2>1. st \in SessionType /\ sshdIn \in Seq(Nat) /\ typed \in Nat
    BY DEF Types, LTypes, CTypes
  <2>2. st.inq \in Seq(Nat) /\ b \in Nat
    BY <2>1 DEF SessionType
  <2>3. Total \in Nat
    BY DEF Types, CTypes, InnerType, ReplayType, Total
  <2> QED BY <2>1, <2>2, <2>3
<1>3. /\ st'.received = b /\ st'.inq = Tail(st.inq) /\ st'.generation = st.generation
  BY <1>1, <1>2, TakenIs
<1>4. a + Len(st.inq) = b /\ Len(st.inq) \in Nat \ {0}
  BY <1>1, <1>2 DEF Acks
<1>5. a < b /\ st.inq = Span(a, b) /\ sshdIn = Span(0, a) /\ b <= Total
  BY <1>1, <1>2, <1>4 DEF Reached
<1> HIDE DEF b
<1>6. Head(st.inq) = a + 1 /\ Tail(st.inq) = Span(a + 1, b)
  BY <1>2, <1>5, SpanLess
<1>7. sshdIn' = Span(0, a + 1) /\ Len(sshdIn') = a + 1
  <2>1. 0 \in Nat /\ 0 <= a
    BY <1>2
  <2>2. Append(Span(0, a), a + 1) = Span(0, a + 1)
    BY <1>2, <2>1, SpanMore
  <2>3. Len(Append(sshdIn, a + 1)) = Len(sshdIn) + 1
    BY <1>2
  <2> QED BY <1>1, <1>5, <1>6, <2>2, <2>3
<1>8. Reached'
  <2>1. Total' = Total /\ a + 1 <= typed /\ b <= Total
    BY <1>2, <1>5 DEF Total
  <2> QED BY <1>3, <1>6, <1>7, <2>1 DEF Reached
<1>9. ASSUME NEW d \in Conns PROVE Brings(d)'
  BY <1>1, <1>2, <1>3, BringsStill DEF b
<1> QED BY <1>8, <1>9

LEMMA ListenerUp ==
  ASSUME Types, LControl, Acks, Path, Attachment, Up, ListenerMoves
  PROVE  Up'
<1>1. UNCHANGED <<inner, reader, typed>> /\ ListenerNet(net, net')
  BY DEF ListenerMoves, cvars
<1>2. st \in SessionType /\ net \in NetType /\ 1 \in Conns
  BY WireBoundsAssumption DEF Types, LTypes, Conns
<1>3. Sending'
  BY <1>1 DEF Up, Sending, Total
<1>4. \A d \in Conns : Unsaid(d)'
  BY <1>1, UnsaidStays DEF Up
<1> SUFFICES ASSUME ~raced' PROVE Reached' /\ \A d \in Conns : Brings(d)'
  BY <1>3, <1>4 DEF Up
<1>5. ~raced
  BY DEF ListenerMoves, Hush, Begins, Records, Writes, Delivers, Answers, Attaches, Takes
<1>6. Reached /\ (\A d \in Conns : Brings(d) /\ Unsaid(d)) /\ Total <= typed
  BY <1>5 DEF Up, Sending
<1>7. ASSUME SameStreams PROVE Reached'
  BY <1>1, <1>6, <1>7 DEF SameStreams, Reached, Total
<1>8. CASE Hush
  <2>1. ASSUME NEW d \in Conns PROVE Brings(d)'
    <3>1. /\ st'.received = st.received
          /\ st'.generation \in {st.generation, st.generation + 1}
      BY <1>8 DEF Hush, SameStreams, SameAttachment, NoAttachment
    <3>2. Rests(d) \/ Leaves(d)
      BY <1>8 DEF Hush
    <3> QED BY <1>1, <1>6, <3>1, <3>2, BringsStill DEF Rests
  <2> QED BY <1>7, <1>8, <2>1 DEF Hush
<1>9. ASSUME NEW c \in Conns, SameStreams, SameAttachment, Brings(c)',
             \A d \in Conns : d # c => Rests(d)
      PROVE  Reached' /\ \A d \in Conns : Brings(d)'
  <2>1. ASSUME NEW d \in Conns, d # c PROVE Brings(d)'
    <3>1. st'.received = st.received /\ st'.generation = st.generation
      BY <1>9 DEF SameStreams, SameAttachment
    <3> QED BY <1>1, <1>6, <1>9, <2>1, <3>1, BringsStill DEF Rests
  <2> QED BY <1>7, <1>9, <2>1
<1>10. CASE Begins
  <2>1. Brings(1)'
    BY <1>1, <1>2, <1>4, <1>10, BeginsUp
  <2> QED BY <1>2, <1>9, <1>10, <2>1 DEF Begins
<1>11. ASSUME NEW c \in Conns, Answers(c) PROVE Reached' /\ \A d \in Conns : Brings(d)'
  <2>1. Brings(c)'
    BY <1>1, <1>4, <1>6, <1>11, AnswersUp
  <2> QED BY <1>9, <1>11, <2>1 DEF Answers
<1>12. ASSUME st'.received = st.received, st'.inq = st.inq, st'.generation = st.generation,
              task'.C = task.C, sshdIn' = sshdIn, h' = h, \A d \in Conns : net'[d].up = net[d].up
       PROVE  Reached' /\ \A d \in Conns : Brings(d)'
  <2>1. Reached'
    BY <1>1, <1>6, <1>12 DEF Reached, Total
  <2> QED BY <1>1, <1>6, <1>12, <2>1, BringsStill
<1>13. CASE Records
  <2>1. PICK u \in Nat : st' = Recorded(st, u)
    BY <1>13 DEF Records
  <2>2. st'.received = st.received /\ st'.inq = st.inq /\ st'.generation = st.generation
    BY <1>2, <2>1, RecordedIs
  <2> QED BY <1>12, <1>13, <2>2 DEF Records
<1>14. CASE Writes
  <2>1. /\ st' = Borrowed(st) /\ st.outq # <<>> /\ st.send \in Conns
        /\ net' = LWrite(net, st.send, <<Head(st.outq)>>)
    BY <1>14 DEF Writes
  <2>2. st'.received = st.received /\ st'.inq = st.inq /\ st'.generation = st.generation
    BY <1>2, <2>1, BorrowedIs
  <2>3. \A d \in Conns : net'[d].up = net[d].up
    <3> DEFINE f == Head(st.outq)
               e == st.send
    <3>1. f \in LFrames /\ e \in Conns /\ net' = LWrite(net, e, <<f>>)
      BY <2>1, LFramesAre
    <3> HIDE DEF f, e
    <3>2. SameUp(net, LWrite(net, e, <<f>>))
      BY <1>2, <3>1, WrittenIs
    <3> QED BY <3>1, <3>2 DEF SameUp
  <2> QED BY <1>12, <1>14, <2>2, <2>3 DEF Writes
<1>15. ASSUME NEW c \in Conns, Takes(c) PROVE Reached' /\ \A d \in Conns : Brings(d)'
  BY <1>1, <1>6, <1>15, TakesUp
<1>16. ASSUME NEW c \in Conns, Attaches(c) PROVE Reached' /\ \A d \in Conns : Brings(d)'
  BY <1>1, <1>6, <1>16, AttachesUp
<1>17. CASE Delivers
  BY <1>1, <1>6, <1>17, DeliversUp
<1> QED BY <1>8, <1>10, <1>11, <1>13, <1>14, <1>15, <1>16, <1>17 DEF ListenerMoves

\* The client's steps leave the listener where it was.
LEMMA BringsUnheard ==
  ASSUME UNCHANGED lvars, NEW d \in Conns, Brings(d), Total' = Total,
         Installed(d)' <=> Installed(d),
         Heeds(d) /\ net'[d].lOpen
           => net[d].lOpen /\ Units(net'[d].up) = Units(net[d].up),
         net'[d].cOpen => net[d].cOpen /\ (Installed(d) \/ d = 1 \/ KeepsHead(d))
  PROVE  Brings(d)'
<1>1. (Heeds(d)' <=> Heeds(d)) /\ Took(d)' = Took(d)
  BY DEF lvars, Heeds, Took, CurrentReader
<1> QED BY <1>1, BringsStays

LEMMA ReachedStays ==
  ASSUME Types, Types', UNCHANGED lvars, Reached, Total <= Total', typed <= typed'
  PROVE  Reached'
<1>1. /\ Total \in Nat /\ Total' \in Nat /\ st.received \in Nat
      /\ typed \in Nat /\ typed' \in Nat /\ Len(sshdIn) \in Nat
  <2>1. Total \in Nat /\ Total' \in Nat /\ typed \in Nat /\ typed' \in Nat
    BY DEF Types, CTypes, InnerType, ReplayType, Total
  <2>2. st.received \in Nat /\ sshdIn \in Seq(Nat)
    BY DEF Types, LTypes, SessionType
  <2> QED BY <2>1, <2>2
<1>2. UNCHANGED <<st, task, sshdIn>>
  BY DEF lvars
<1> QED BY <1>1, <1>2 DEF Reached

\* connect's first connection has carried nothing when its tasks are spawned.
LEMMA StartsUp ==
  ASSUME Types, Types', Path, Up, UNCHANGED lvars, Starts
  PROVE  Up'
<1>1. /\ net \in NetType /\ 1 \in Conns /\ UNCHANGED <<inner, typed, raced>>
      /\ reader \in [Conns -> {"none", "reading", "done"}]
      /\ net[1].down # <<>> /\ net' = CTake(net, 1) /\ connect # "up"
      /\ reader' = [reader EXCEPT ![1] = "reading"]
  BY WireBoundsAssumption DEF Types, CTypes, Conns, Starts, CReadable, lvars
<1>2. /\ SameUp(net, net') /\ SameCOpen(net, net') /\ SameLOpen(net, net')
      /\ \A d \in Conns : d # 1 => net'[d].down = net[d].down
  BY <1>1, CTakeIs
<1>3. Total' = Total /\ Total = 0 /\ typed' = typed
  BY <1>1 DEF Total, Path, FirstDial, NewReplay
<1>4. \A d \in Conns : (d # 1 => (Installed(d)' <=> Installed(d))) /\ Installed(1)'
  BY <1>1 DEF Installed
<1>5. Sending' /\ \A d \in Conns : Unsaid(d)'
  BY <1>1, <1>2, <1>3, <1>4 DEF Up, Sending, Unsaid, Total, SameUp
<1>6. ASSUME ~raced PROVE Reached'
  <2>1. typed \in Nat
    BY DEF Types, CTypes
  <2> QED BY <1>3, <1>6, <2>1, ReachedStays DEF Up
<1>7. ASSUME ~raced, NEW d \in Conns, d # 1 PROVE Brings(d)'
  BY <1>2, <1>3, <1>4, <1>7, BringsUnheard DEF Up, SameUp, SameCOpen, SameLOpen, KeepsHead
<1>8. ASSUME ~raced PROVE Brings(1)'
  <2> SUFFICES ASSUME Heeds(1)', net'[1].lOpen
               PROVE  \E k \in Nat : /\ Took(1)' <= k /\ k <= Total'
                                     /\ Units(net'[1].up) = Span(Took(1)', k) /\ k = Total'
    BY <1>4 DEF Brings
  <2>1. Heeds(1) /\ Took(1)' = Took(1)
    BY DEF lvars, Heeds, Took, CurrentReader
  <2>2. PICK k \in Nat : Took(1) <= k /\ k <= Total /\ Units(net[1].up) = Span(Took(1), k)
    BY <1>1, <1>2, <1>8, <2>1 DEF Up, Brings, SameLOpen
  <2>3. k = Total
    BY <1>3, <2>2
  <2> QED BY <1>1, <1>2, <1>3, <2>1, <2>2, <2>3 DEF SameUp
<1> QED BY <1>1, <1>5, <1>6, <1>7, <1>8 DEF Up

LEMMA DialsUp ==
  ASSUME Types, Types', Path, Up, UNCHANGED lvars, NEW s \in Slots, NEW c \in Conns, Dials(s, c)
  PROVE  Up'
<1> DEFINE f == Frame("resume", inner.received)
<1>1. /\ net \in NetType /\ f \in Frames /\ f.t # "data" /\ typed \in Nat /\ Total \in Nat
      /\ UNCHANGED <<inner, typed, raced, reader, h>> /\ ~net[c].dialed
      /\ net' = Dialed(net, c, f)
  <2>1. inner.received \in Nat /\ net \in NetType /\ typed \in Nat /\ Total \in Nat
    BY DEF Types, CTypes, InnerType, Total, ReplayType
  <2>2. f \in Frames /\ f.t = "resume"
    BY <2>1, FrameIs DEF FrameTypes
  <2> QED BY <2>1, <2>2 DEF Dials, lvars
<1> HIDE DEF f
<1>2. (\A d \in Conns : d # c => net'[d] = net[d]) /\ net'[c].up = <<f>>
  BY <1>1, DialedIs
<1>3. Total' = Total /\ \A d \in Conns : Installed(d)' <=> Installed(d)
  BY <1>1 DEF Total, Installed
<1>4. Units(<<f>>) = <<>>
  <2>1. <<>> \in Seq(Frames) /\ Append(<<>>, f) = <<f>>
    OBVIOUS
  <2>2. Units(Append(<<>>, f)) = Units(<<>>)
    BY <1>1, <2>1, UnitsOfAppend
  <2> QED BY <2>1, <2>2, UnitsOfNone
<1>5. Sending' /\ \A d \in Conns : Unsaid(d)'
  BY <1>1, <1>2, <1>3, <1>4 DEF Up, Sending, Unsaid, Total
<1>6. ASSUME ~raced PROVE Reached'
  BY <1>1, <1>3, <1>6, ReachedStays DEF Up
<1>7. ASSUME ~raced, NEW d \in Conns, d # c PROVE Brings(d)'
  BY <1>2, <1>3, <1>7, BringsUnheard DEF Up, KeepsHead
<1>8. Brings(c)'
  <2>1. h'[c].pc = "hello"
    BY <1>1 DEF Path, Undialled
  <2> QED BY <2>1 DEF Brings, Heeds, CurrentReader
<1> QED BY <1>1, <1>5, <1>6, <1>7, <1>8 DEF Up

\* install_connection: the writer begins with all that the reply's count leaves out.
LEMMA InstallsUp ==
  ASSUME Types, Types', Path, Up, UNCHANGED lvars, NEW s \in Slots, NEW c \in Conns,
         Installs(s, c)
  PROVE  Up'
<1> DEFINE n == Head(net[c].down).n
           tail == TailFrom(inner.replay, n)
           m == CTake(net, c)
           i == Trimmed(inner, n)
           T == Total
           all == Span(0, T)
<1>1. /\ loops[s].pc = "handshake" /\ loops[s].conn = c
      /\ net[c].down # <<>> /\ net[c].cOpen /\ Head(net[c].down).t = "resumed"
      /\ HasTail(inner.replay, n) /\ net' = CWrite(m, c, DataFrames(tail))
      /\ inner' = Adopted(i, c) /\ UNCHANGED <<typed, raced>>
      /\ reader' = [reader EXCEPT ![c] = "reading"]
  BY DEF Installs, CReadable, lvars
<1>2. /\ net \in NetType /\ inner \in InnerType /\ inner.replay \in ReplayType(Nat)
      /\ T \in Nat /\ typed \in Nat /\ reader \in [Conns -> {"none", "reading", "done"}]
      /\ \A d \in Conns : net[d].down \in Seq(Frames) /\ net[d].up \in Seq(Frames)
  <2>1. /\ net \in NetType /\ inner \in InnerType /\ typed \in Nat
        /\ reader \in [Conns -> {"none", "reading", "done"}]
    BY DEF Types, CTypes
  <2>2. inner.replay \in ReplayType(Nat)
    BY <2>1 DEF InnerType
  <2>3. T \in Nat
    BY <2>2 DEF Total, ReplayType
  <2> QED BY <2>1, <2>2, <2>3, NetFields
<1>3. n \in Nat
  BY <1>1, <1>2, HeadFrames
<1>4. tail \in Seq(Nat) /\ DataFrames(tail) \in Seq(Frames) /\ Units(DataFrames(tail)) = tail
  <2>1. tail \in Seq(Nat)
    BY <1>1, <1>2, <1>3, TailFromType
  <2> HIDE DEF tail
  <2> QED BY <2>1, DataFramesType, UnitsOfData
<1>5. /\ m \in NetType /\ SameUp(net, m) /\ SameCOpen(net, m) /\ SameLOpen(net, m)
      /\ \A d \in Conns : d # c => m[d].down = net[d].down
  BY <1>1, <1>2, CTakeIs
<1>6. /\ all \in Seq(Nat) /\ Len(all) = T /\ ReplayOf(inner.replay, all)
  <2>1. 0 \in Nat /\ 0 <= T /\ T - 0 = T
    BY <1>2
  <2> HIDE DEF T
  <2>2. all \in Seq(Nat) /\ Len(all) = T - 0
    BY <1>2, <2>1, SpanIs
  <2> QED BY <2>1, <2>2 DEF Up, Sending, T
<1>7. n <= T /\ tail = Span(n, T)
  <2> HIDE DEF all, T
  <2>1. n <= Len(all) /\ tail = SubSeq(all, n + 1, Len(all))
    <3> HIDE DEF n
    <3> QED BY <1>1, <1>2, <1>3, <1>6, TailFromExact
  <2>2. SubSeq(Span(0, T), n + 1, T) = Span(n, T)
    <3> HIDE DEF n, tail
    <3> QED BY <1>2, <1>3, <1>6, <2>1, SpanTail
  <2> QED BY <1>6, <2>1, <2>2 DEF all
<1>8. /\ i \in InnerType /\ i.replay = Ack(inner.replay, n) /\ i.outbox = inner.outbox
  <2> HIDE DEF n
  <2> QED BY <1>2, <1>3, TrimmedIs
<1>9. inner'.replay = Ack(inner.replay, n) /\ inner'.outbox = inner.outbox
  <2> HIDE DEF i, n
  <2> QED BY <1>1, <1>8, AdoptedIs
<1>10. Total' = T /\ ReplayOf(inner'.replay, all)
  <2> HIDE DEF n, all
  <2>1. Ack(inner.replay, n).sent_total = inner.replay.sent_total
    BY <1>2, <1>3, AckType
  <2>2. ReplayOf(Ack(inner.replay, n), all)
    BY <1>2, <1>3, <1>6, AckKeepsReplayOf
  <2> QED BY <1>9, <2>1, <2>2 DEF Total
<1> HIDE DEF tail, m, i, n
<1>11. /\ SameDown(m, net') /\ SameCOpen(m, net') /\ SameLOpen(m, net')
       /\ \A d \in Conns : net'[d].up = IF d = c /\ m[d].cOpen /\ m[d].lOpen
                                       THEN m[d].up \o DataFrames(tail) ELSE m[d].up
  BY <1>1, <1>4, <1>5, CWriteIs
<1>12. \A d \in Conns : /\ (net'[d].cOpen <=> net[d].cOpen) /\ (net'[d].lOpen <=> net[d].lOpen)
                        /\ d # c => net'[d].up = net[d].up /\ net'[d].down = net[d].down
  BY <1>5, <1>11 DEF SameUp, SameDown, SameCOpen, SameLOpen
<1>13. net[c].lOpen => net'[c].up = net[c].up \o DataFrames(tail)
  BY <1>1, <1>5, <1>11 DEF SameUp, SameCOpen, SameLOpen
<1>14. Installed(c)' /\ \A d \in Conns : d # c => (Installed(d)' <=> Installed(d))
  BY <1>1, <1>2 DEF Installed
<1>15. Sending' /\ \A d \in Conns : Unsaid(d)'
  <2>1. Sending'
    BY <1>1, <1>9, <1>10 DEF Up, Sending
  <2> QED BY <1>12, <1>14, <2>1 DEF Up, Unsaid
<1>16. ASSUME ~raced PROVE Reached'
  BY <1>1, <1>2, <1>10, <1>16, ReachedStays DEF Up
<1>17. ASSUME ~raced, NEW d \in Conns, d # c PROVE Brings(d)'
  BY <1>10, <1>12, <1>14, <1>17, BringsUnheard DEF Up, KeepsHead
<1>18. ASSUME ~raced PROVE Brings(c)'
  <2> SUFFICES ASSUME Heeds(c)', net'[c].lOpen
               PROVE  \E k \in Nat : /\ Took(c)' <= k /\ k <= Total'
                                     /\ Units(net'[c].up) = Span(Took(c)', k) /\ k = Total'
    BY <1>14 DEF Brings
  <2>1. Heeds(c) /\ Took(c)' = Took(c) /\ net[c].lOpen
    BY <1>12 DEF lvars, Heeds, Took, CurrentReader
  <2>2. ~Installed(c) /\ c # 1
    BY <1>1 DEF Path, Shaking
  <2>3. Took(c) = n
    BY <1>1, <1>18, <2>1, <2>2 DEF Up, Brings, Announced, n
  <2>4. Units(net'[c].up) = tail
    <3>1. Units(net[c].up \o DataFrames(tail)) = Units(net[c].up) \o Units(DataFrames(tail))
      BY <1>2, <1>4, UnitsOfConcat
    <3>2. Units(net[c].up) = <<>> /\ <<>> \o tail = tail
      <4>1. <<>> \o tail = tail
        BY <1>4
      <4> QED BY <2>2, <4>1 DEF Up, Unsaid
    <3> QED BY <1>4, <1>13, <2>1, <3>1, <3>2
  <2>5. T <= T
    BY <1>2
  <2> QED BY <1>2, <1>7, <1>10, <2>1, <2>3, <2>4, <2>5
<1> QED BY <1>1, <1>15, <1>16, <1>17, <1>18 DEF Up

\* The writer: what is taken from the outbox is recorded, and is the next unit.
LEMMA SendsUp ==
  ASSUME Types, Types', CControl, Path, Up, UNCHANGED lvars, Sends
  PROVE  Up'
<1> SUFFICES ASSUME NEW c \in Conns, c = inner.conn PROVE Up'
  BY DEF Types, CTypes, InnerType
<1> DEFINE a == Total
           u == Head(inner.outbox)
           f == Frame("data", u)
<1>1. /\ connect = "up" /\ inner.outbox # <<>> /\ inner' = UnitSent(inner)
      /\ UNCHANGED <<reader, fed, connect, loops, typed, raced>>
      /\ net' = CWrite(net, c, <<f>>)
  BY DEF Sends, Working, lvars
<1>2. /\ inner \in InnerType /\ inner.replay \in ReplayType(Nat) /\ net \in NetType
      /\ inner.outbox \in Seq(Nat) /\ a \in Nat /\ typed \in Nat
      /\ \A d \in Conns : net[d].up \in Seq(Frames)
  <2>1. inner \in InnerType /\ net \in NetType /\ typed \in Nat
    BY DEF Types, CTypes
  <2>2. inner.replay \in ReplayType(Nat) /\ inner.outbox \in Seq(Nat)
    BY <2>1 DEF InnerType
  <2>3. a \in Nat
    BY <2>2 DEF Total, ReplayType
  <2> QED BY <2>1, <2>2, <2>3, NetFields
<1>3. /\ inner'.outbox = Tail(inner.outbox) /\ inner'.replay = Sent(inner.replay, <<u>>)
  BY <1>1, <1>2, UnitSentIs
<1>4. a <= typed /\ inner.outbox = Span(a, typed) /\ ReplayOf(inner.replay, Span(0, a))
  BY DEF Up, Sending
<1>5. u \in Nat
  BY <1>1, <1>2, HeadTailProperties
<1>6. f \in Frames /\ f.t = "data" /\ f.n = u /\ <<f>> \in Seq(Frames)
  <2>1. f \in Frames /\ f.t = "data" /\ f.n = u
    BY <1>5, FrameIs DEF FrameTypes
  <2> QED BY <2>1
<1> HIDE DEF a, f
<1>7. a < typed
  <2>1. a = typed => Span(a, typed) = <<>>
    BY <1>2, SpanIs
  <2> QED BY <1>1, <1>2, <1>4, <2>1
<1>8. u = a + 1 /\ Tail(inner.outbox) = Span(a + 1, typed)
  BY <1>2, <1>4, <1>7, SpanLess
<1> HIDE DEF u
<1>9. ReplayOf(inner'.replay, Span(0, a + 1)) /\ Total' = a + 1
  <2> DEFINE s == Span(0, a)
             b == a + 1
  <2>1. s \in Seq(Nat) /\ s \o <<b>> = Span(0, b) /\ b \in Nat /\ 0 <= b
    <3>1. 0 \in Nat /\ 0 <= a
      BY <1>2
    <3>2. s \in Seq(Nat)
      BY <1>2, <3>1, SpanIs
    <3>3. s \o <<a + 1>> = Span(0, a + 1)
      BY <1>2, <3>1, SpanMore
    <3>4. b \in Nat /\ 0 <= b
      BY <1>2
    <3> QED BY <3>2, <3>3, <3>4
  <2>2. <<u>> \in Seq(Nat) /\ u = b
    BY <1>5, <1>8
  <2> HIDE DEF s, b
  <2>3. ReplayOf(Sent(inner.replay, <<u>>), s \o <<u>>)
    BY <1>2, <1>4, <2>1, <2>2, SentKeepsReplayOf DEF s
  <2>4. ReplayOf(inner'.replay, Span(0, b))
    BY <1>3, <2>1, <2>2, <2>3
  <2>5. Len(Span(0, b)) = b
    <3>1. 0 \in Nat /\ b - 0 = b
      BY <2>1
    <3>2. Len(Span(0, b)) = b - 0
      BY <2>1, <3>1, SpanIs
    <3> QED BY <3>1, <3>2
  <2> QED BY <2>4, <2>5 DEF ReplayOf, Total, b
<1>10. /\ SameDown(net, net') /\ SameCOpen(net, net') /\ SameLOpen(net, net')
       /\ \A d \in Conns : net'[d].up = IF d = c /\ net[d].cOpen /\ net[d].lOpen
                                       THEN net[d].up \o <<f>> ELSE net[d].up
  <2> DEFINE fs == <<f>>
  <2>1. fs \in Seq(Frames) /\ net' = CWrite(net, c, fs)
    BY <1>1, <1>6
  <2> HIDE DEF fs
  <2>2. /\ SameDown(net, net') /\ SameCOpen(net, net') /\ SameLOpen(net, net')
        /\ \A d \in Conns : net'[d].up = IF d = c /\ net[d].cOpen /\ net[d].lOpen
                                        THEN net[d].up \o fs ELSE net[d].up
    BY <1>2, <2>1, CWriteIs
  <2> QED BY <2>2 DEF fs
<1>11. Installed(c) /\ \A d \in Conns : Installed(d)' <=> Installed(d)
  BY <1>1 DEF CControl, Tasks, Installed
<1>12. Sending' /\ \A d \in Conns : Unsaid(d)'
  <2>1. Sending'
    <3>1. a + 1 <= typed
      BY <1>2, <1>7
    <3> QED BY <1>1, <1>3, <1>8, <1>9, <3>1 DEF Sending
  <2> QED BY <1>10, <1>11, <2>1 DEF Up, Unsaid
<1>13. ASSUME ~raced PROVE Reached'
  <2>1. a <= a + 1 /\ typed <= typed
    BY <1>2
  <2> QED BY <1>1, <1>9, <1>13, <2>1, ReachedStays DEF Up, a
<1>14. ASSUME ~raced, NEW d \in Conns PROVE Brings(d)'
  <2> SUFFICES ASSUME Heeds(d)', net'[d].lOpen
               PROVE  \E k \in Nat :
                         /\ Took(d)' <= k /\ k <= a + 1 /\ Units(net'[d].up) = Span(Took(d)', k)
                         /\ net'[d].cOpen /\ Installed(d)' => k = a + 1
                         /\ net'[d].cOpen /\ ~Installed(d)' /\ d # 1 => Announced(d)'
    BY <1>9 DEF Brings
  <2>1. Heeds(d) /\ Took(d)' = Took(d) /\ net[d].lOpen
    BY <1>10 DEF lvars, Heeds, Took, CurrentReader, SameLOpen
  <2>2. PICK k \in Nat : /\ Took(d) <= k /\ k <= a /\ Units(net[d].up) = Span(Took(d), k)
                         /\ net[d].cOpen /\ Installed(d) => k = a
                         /\ net[d].cOpen /\ ~Installed(d) /\ d # 1 => Announced(d)
    BY <1>14, <2>1 DEF Up, Brings, a
  <2>3. /\ net'[d].cOpen <=> net[d].cOpen
        /\ net'[d].cOpen /\ ~Installed(d)' /\ d # 1 => Announced(d)'
    BY <1>10, <1>11, <2>1, <2>2 DEF Announced, SameDown, SameCOpen
  <2>4. CASE d = c /\ net[c].cOpen
    <3>1. k = a /\ Took(d) \in Nat
      BY <1>11, <2>2, <2>4 DEF Types, LTypes, HandlerType, SessionType, Took
    <3>2. Units(net'[c].up) = Span(Took(d), a) \o <<a + 1>>
      <4>1. net'[c].up = Append(net[c].up, f)
        <5>1. net[c].up \o <<f>> = Append(net[c].up, f)
          BY <1>2, <1>6, AppendIsConcat
        <5> QED BY <1>10, <2>1, <2>4, <5>1
      <4>2. Units(Append(net[c].up, f)) = Append(Units(net[c].up), u)
        BY <1>2, <1>6, UnitsOfAppend
      <4>3. Units(net[c].up) \in Seq(Nat)
        BY <1>2, UnitsType
      <4>4. Append(Units(net[c].up), u) = Units(net[c].up) \o <<u>>
        BY <1>5, <4>3, AppendIsConcat
      <4> QED BY <1>8, <2>2, <2>4, <3>1, <4>1, <4>2, <4>4
    <3>3. Span(Took(d), a) \o <<a + 1>> = Span(Took(d), a + 1)
      BY <1>2, <2>2, <3>1, SpanMore
    <3>4. a + 1 \in Nat /\ Took(d) <= a + 1 /\ a + 1 <= a + 1
      BY <1>2, <2>2, <3>1
    <3> QED BY <2>1, <2>3, <2>4, <3>2, <3>3, <3>4
  <2>5. CASE ~(d = c /\ net[c].cOpen)
    <3>1. net[d].cOpen => ~Installed(d)
      BY <2>5 DEF Path, OpenAtClient, Shaking
    <3>2. net'[d].up = net[d].up /\ k <= a + 1
      BY <1>2, <1>10, <2>2, <2>5
    <3> QED BY <1>11, <2>1, <2>2, <2>3, <3>1, <3>2
  <2> QED BY <2>4, <2>5
<1> QED BY <1>1, <1>12, <1>13, <1>14 DEF Up

LEMMA ClientUp ==
  ASSUME Types, Types', CControl, Path, Up, ClientMoves
  PROVE  Up'
<1>1. /\ net \in NetType /\ inner \in InnerType /\ inner.conn \in Conns /\ Total \in Nat
      /\ typed \in Nat /\ inner.replay \in ReplayType(Nat)
      /\ \A d \in Conns : net[d].down \in Seq(Frames) /\ net[d].up \in Seq(Frames)
  <2>1. net \in NetType /\ inner \in InnerType /\ typed \in Nat
    BY DEF Types, CTypes
  <2>2. inner.conn \in Conns /\ inner.replay \in ReplayType(Nat)
    BY <2>1 DEF InnerType
  <2>3. Total \in Nat
    BY <2>2 DEF Total, ReplayType
  <2> QED BY <2>1, <2>2, <2>3, NetFields
<1>2. UNCHANGED lvars /\ UNCHANGED <<h, raced>>
  BY DEF ClientMoves, lvars
<1>3. ASSUME Total' = Total, typed <= typed', ~raced PROVE Reached'
  BY <1>1, <1>2, <1>3, ReachedStays DEF Up
<1>4. CASE CHush
  <2>1. /\ inner'.replay = inner.replay /\ (SameTyping \/ TypesMore)
        /\ \A d \in Conns : Idles(d) /\ (Installed(d)' <=> Installed(d))
    BY <1>4 DEF CHush, SameTasks, Installed
  <2>2. Total' = Total
    BY <2>1 DEF Total
  <2>3. Sending' /\ typed <= typed'
    <3>1. CASE SameTyping
      BY <1>1, <2>1, <2>2, <3>1 DEF Up, Sending, SameTyping
    <3>2. CASE TypesMore
      <4>1. Total <= typed /\ inner.outbox = Span(Total, typed)
        BY DEF Up, Sending
      <4>2. Append(Span(Total, typed), typed + 1) = Span(Total, typed + 1)
        BY <1>1, <4>1, SpanMore
      <4>3. Total <= typed + 1 /\ typed <= typed + 1
        BY <1>1, <4>1
      <4> QED BY <2>1, <2>2, <3>2, <4>1, <4>2, <4>3 DEF Up, Sending, TypesMore
    <3> QED BY <2>1, <3>1, <3>2
  <2>4. ASSUME NEW d \in Conns PROVE Unsaid(d)'
    BY <2>1, UnitsOfNone DEF Idles, Unsaid, Up
  <2>5. ASSUME ~raced, NEW d \in Conns PROVE Brings(d)'
    <3>1. CASE net[d].dialed
      BY <1>2, <2>1, <2>2, <2>5, <3>1, BringsUnheard DEF Idles, KeepsHead, Up
    <3>2. CASE ~net[d].dialed
      BY <1>2, <3>2 DEF Path, Undialled, Brings, Heeds, CurrentReader
    <3> QED BY <3>1, <3>2
  <2> QED BY <1>2, <1>3, <2>2, <2>3, <2>4, <2>5 DEF Up
<1>5. ASSUME Total' = Total, inner'.outbox = inner.outbox, typed' = typed,
             ReplayOf(inner'.replay, Span(0, Total)), UNCHANGED reader,
             Installed(inner.conn),
             \A d \in Conns : /\ Units(net'[d].up) = Units(net[d].up)
                              /\ net'[d].lOpen => net[d].lOpen
                              /\ net'[d].cOpen => net[d].cOpen
                              /\ d # inner.conn => net'[d].down = net[d].down
      PROVE  Up'
  <2>1. Sending' /\ \A d \in Conns : Unsaid(d)'
    BY <1>5 DEF Up, Sending, Unsaid, Installed
  <2>2. ASSUME ~raced, NEW d \in Conns PROVE Brings(d)'
    <3>1. (Installed(d)' <=> Installed(d)) /\ (d # inner.conn => KeepsHead(d))
      BY <1>5 DEF Installed, KeepsHead
    <3> QED BY <1>2, <1>5, <2>2, <3>1, BringsUnheard DEF Up
  <2>3. ASSUME ~raced PROVE Reached'
    BY <1>1, <1>3, <1>5, <2>3
  <2> QED BY <1>2, <2>1, <2>2, <2>3 DEF Up
<1>6. connect = "up" => Installed(inner.conn)
  BY DEF CControl, Tasks
<1>7. CASE Consumes
  <2> SUFFICES ASSUME NEW e \in Conns, e = inner.conn PROVE Up'
    BY <1>1
  <2> DEFINE f == Head(net[e].down)
  <2>1. /\ connect = "up" /\ net[e].down # <<>> /\ UNCHANGED <<reader, typed>>
        /\ inner' = Consume(inner, f) /\ net' = CTake(net, e)
    BY <1>7 DEF Consumes, Working, CReadable
  <2>2. f \in Frames /\ f.n \in Nat
    BY <1>1, <2>1, HeadFrames
  <2> HIDE DEF f
  <2>3. /\ inner'.outbox = inner.outbox
        /\ inner'.replay = IF f.t = "ack" THEN Ack(inner.replay, f.n) ELSE inner.replay
    BY <1>1, <2>1, <2>2, ConsumeIs
  <2>4. Total' = Total /\ ReplayOf(inner'.replay, Span(0, Total))
    <3>1. ReplayOf(inner.replay, Span(0, Total)) /\ Span(0, Total) \in Seq(Nat)
      <4>1. 0 \in Nat /\ 0 <= Total
        BY <1>1
      <4> QED BY <1>1, <4>1, SpanIs DEF Up, Sending
    <3>2. Ack(inner.replay, f.n).sent_total = inner.replay.sent_total
      BY <1>1, <2>2, AckType
    <3>3. ReplayOf(Ack(inner.replay, f.n), Span(0, Total))
      BY <1>1, <2>2, <3>1, AckKeepsReplayOf
    <3> QED BY <2>3, <3>1, <3>2, <3>3 DEF Total
  <2>5. /\ SameUp(net, net') /\ SameCOpen(net, net') /\ SameLOpen(net, net')
        /\ \A d \in Conns : d # e => net'[d].down = net[d].down
    BY <1>1, <2>1, CTakeIs
  <2> QED BY <1>5, <1>6, <2>1, <2>3, <2>4, <2>5 DEF SameUp, SameCOpen, SameLOpen
<1>8. CASE Acknowledges
  <2> SUFFICES ASSUME NEW e \in Conns, e = inner.conn PROVE Up'
    BY <1>1
  <2> DEFINE f == Frame("ack", inner.received)
             fs == <<f>>
  <2>1. /\ connect = "up" /\ UNCHANGED <<reader, typed>>
        /\ inner' = AckSent(inner) /\ net' = CWrite(net, e, fs)
    BY <1>8 DEF Acknowledges, Working
  <2>2. inner'.outbox = inner.outbox /\ inner'.replay = inner.replay
    BY <1>1, <2>1, AckSentIs
  <2>3. f \in Frames /\ f.t # "data" /\ fs \in Seq(Frames)
    <3>1. inner.received \in Nat
      BY <1>1 DEF InnerType
    <3>2. f \in Frames /\ f.t = "ack"
      BY <3>1, FrameIs DEF FrameTypes
    <3> QED BY <3>2
  <2> HIDE DEF f
  <2>4. \A d \in Conns : Units(net[d].up \o fs) = Units(net[d].up)
    <3> TAKE d \in Conns
    <3>1. net[d].up \o fs = Append(net[d].up, f)
      BY <1>1, <2>3, AppendIsConcat
    <3>2. Units(Append(net[d].up, f)) = Units(net[d].up)
      BY <1>1, <2>3, UnitsOfAppend
    <3> QED BY <3>1, <3>2
  <2> HIDE DEF fs
  <2>5. /\ SameDown(net, net') /\ SameCOpen(net, net') /\ SameLOpen(net, net')
        /\ \A d \in Conns : net'[d].up \in {net[d].up, net[d].up \o fs}
    <3>1. /\ SameDown(net, net') /\ SameCOpen(net, net') /\ SameLOpen(net, net')
          /\ \A d \in Conns : net'[d].up = IF d = e /\ net[d].cOpen /\ net[d].lOpen
                                          THEN net[d].up \o fs ELSE net[d].up
      BY <1>1, <2>1, <2>3, CWriteIs
    <3> QED BY <3>1
  <2>6. Total' = Total /\ ReplayOf(inner'.replay, Span(0, Total))
    BY <2>2 DEF Up, Sending, Total
  <2> QED BY <1>5, <1>6, <2>1, <2>2, <2>4, <2>5, <2>6 DEF SameDown, SameCOpen, SameLOpen
<1> QED BY <1>2, <1>4, <1>7, <1>8, StartsUp, DialsUp, InstallsUp, SendsUp DEF ClientMoves

LEMMA FirstUp == Init => Up
<1> SUFFICES ASSUME Init PROVE Up
  OBVIOUS
<1>1. Way /\ Control
  BY FirstWay, StartsWell
<1>2. /\ h = [c \in Conns |-> NewHandler] /\ reader = [c \in Conns |-> "none"]
      /\ inner.replay = NewReplay /\ inner.outbox = <<>> /\ typed = 0
      /\ st.received = 0 /\ st.inq = <<>> /\ sshdIn = <<>>
      /\ net = Dialed([c \in Conns |-> NewConn], 1, Frame("hello", 0))
  BY DEF Init, LInit, CInit, NetInit, NewSession
<1>3. Span(0, 0) = <<>> /\ Total = 0
  <2>1. 0 \in Nat /\ 0 <= 0
    OBVIOUS
  <2> QED BY <1>2, <2>1, SpanIs DEF Total, NewReplay
<1>4. Sending
  BY <1>2, <1>3, ReplayCapAssumption DEF Sending, NewReplay, ReplayOf, LastN
<1>5. Reached
  <2>1. Len(sshdIn) = 0
    BY <1>2
  <2> QED BY <1>2, <1>3, <2>1 DEF Reached
<1>6. \A c \in Conns : Brings(c)
  BY <1>2 DEF Brings, Heeds, CurrentReader, NewHandler
<1>7. ASSUME NEW c \in Conns PROVE Units(net[c].up) = <<>>
  <2> DEFINE n == [e \in Conns |-> NewConn]
             f == Frame("hello", 0)
  <2>1. /\ n \in NetType /\ 1 \in Conns /\ f \in Frames /\ f.t # "data"
        /\ \A e \in Conns : n[e].up = <<>>
    <3>1. 1 \in Conns /\ f \in Frames /\ f.t # "data"
      BY WireBoundsAssumption, FrameIs DEF Conns, FrameTypes
    <3>2. <<>> \in Seq(Frames)
      OBVIOUS
    <3>3. n \in NetType
      BY <3>2 DEF NetType, ConnType, NewConn
    <3> QED BY <3>1, <3>3 DEF NewConn
  <2>2. net = Dialed(n, 1, f)
    BY <1>2
  <2> HIDE DEF n, f
  <2>3. (c # 1 => net[c] = n[c]) /\ net[1].up = <<f>>
    BY <2>1, <2>2, DialedIs
  <2>4. Units(<<f>>) = <<>>
    <3>1. <<>> \in Seq(Frames) /\ Append(<<>>, f) = <<f>>
      OBVIOUS
    <3>2. Units(Append(<<>>, f)) = Units(<<>>)
      BY <2>1, <3>1, UnitsOfAppend
    <3> QED BY <3>1, <3>2, UnitsOfNone
  <2> QED BY <2>1, <2>3, <2>4, UnitsOfNone
<1> QED BY <1>4, <1>5, <1>6, <1>7 DEF Up, Unsaid

LEMMA UpKept == Control /\ Acks /\ Way /\ Up /\ [Next]_vars => Up'
<1> SUFFICES ASSUME Control, Acks, Way, Up, [Next]_vars PROVE Up'
  OBVIOUS
<1>1. /\ Types /\ CControl /\ LControl /\ Path /\ Attachment /\ Types'
      /\ ListenerMoves \/ ClientMoves
  BY NextMoves, ControlKeeps DEF Control, Way
<1> QED BY <1>1, ListenerUp, ClientUp

LEMMA UpHolds == Spec => []Up
<1>1. Init => Up
  BY FirstUp
<1> QED BY <1>1, UpKept, ControlHolds, AcksHold, WayHolds, PTL DEF Spec

\* What the page types reaches sshd in order, none of it lost or repeated, over any
\* number of resumes (Frame::apply, tail_from, install_connection) -- unless an attach
\* used a count that had gone stale.
THEOREM UpIsExact == Spec => []UpIntegrity
<1>1. Types /\ Up => UpIntegrity
  <2> SUFFICES ASSUME Types, Up, ~raced PROVE Prefix(sshdIn, Upto(typed))
    BY DEF UpIntegrity
  <2> DEFINE n == Len(sshdIn)
  <2>1. sshdIn \in Seq(Nat) /\ n \in Nat /\ typed \in Nat /\ 0 \in Nat
    BY DEF Types, LTypes, CTypes
  <2>2. n <= typed /\ sshdIn = Span(0, n)
    BY DEF Up, Reached
  <2> HIDE DEF n
  <2>3. 0 <= typed /\ 0 <= n
    BY <2>1
  <2>4. /\ Upto(typed) = Span(0, typed) /\ Span(0, typed) \in Seq(Nat)
        /\ Len(Span(0, typed)) = typed - 0
        /\ \A i \in 1..(typed - 0) : Span(0, typed)[i] = 0 + i
    BY <2>1, <2>3, SpanIs
  <2>5. \A i \in 1..(n - 0) : Span(0, n)[i] = 0 + i
    BY <2>1, <2>3, SpanIs
  <2> DEFINE t == Span(0, typed)
  <2> HIDE DEF t
  <2>6. t \in Seq(Nat) /\ Len(t) = typed /\ \A i \in 1..n : t[i] = sshdIn[i]
    <3>1. typed - 0 = typed
      BY <2>1
    <3>2. \A i \in 1..n : i \in 1..(n - 0) /\ i \in 1..(typed - 0)
      BY <2>1, <2>2
    <3> QED BY <2>2, <2>4, <2>5, <3>1, <3>2 DEF t
  <2>7. SubSeq(t, 1, n) = sshdIn
    <3> DEFINE u == SubSeq(t, 1, n)
    <3>1. u \in Seq(Nat) /\ Len(u) = n /\ \A i \in 1..n : u[i] = t[i]
      <4>1. \A i \in 1..n : t[i] \in Nat
        BY <2>1, <2>2, <2>6
      <4> QED BY <2>1, <2>6, <4>1, SubSeqProperties
    <3> HIDE DEF u
    <3>2. u = sshdIn
      BY <2>1, <2>6, <3>1, SeqEqual DEF n
    <3> QED BY <3>2 DEF u
  <2> QED BY <2>2, <2>4, <2>6, <2>7 DEF Prefix, n, t
<1>2. Control => Types
  BY DEF Control
<1> QED BY <1>1, <1>2, UpHolds, ControlHolds, PTL
=============================================================================
