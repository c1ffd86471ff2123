--------------------------- MODULE HttpConnProofs ---------------------------
(***************************************************************************)
(* What handle_client makes of the byte stream of a connection, for any    *)
(* script of requests, any package limit and any cuts: the handlers get    *)
(* the requests in order, each with its own body, and the code leaves its  *)
(* buffer only for the causes that HttpConn names.                         *)
(***************************************************************************)
EXTENDS HttpConn, SequenceTheorems, WellFoundedInduction, TLAPS

\* A set of naturals has a least element.
LEMMA LeastNatural ==
    ASSUME NEW T, T \subseteq Nat, T # {}
    PROVE  \E x \in T : \A y \in T : x <= y
  <1> DEFINE R == {ss \in Nat \X Nat : ss[1] < ss[2]}
  <1>1. IsWellFoundedOn(R, Nat)
    <2>1. OpToRel(<, Nat) = R
      BY Zenon DEF OpToRel
    <2> QED
      BY <2>1, NatLessThanWellFounded, Zenon
  <1>2. PICK x \in T : \A y \in T : ~(<<y, x>> \in R)
    BY <1>1, WFMin
  <1>3. ASSUME NEW y \in T PROVE x <= y
    <2>1. x \in Nat /\ y \in Nat
      OBVIOUS
    <2>2. <<y, x>> \in Nat \X Nat /\ <<y, x>>[1] = y /\ <<y, x>>[2] = x
      BY <2>1
    <2>3. ~(y < x)
      BY <1>2, <2>2, Zenon
    <2> QED
      BY <2>1, <2>3
  <1> QED
    BY <1>3

-----------------------------------------------------------------------------
(* Sequences of tokens *)

Tokens == [t : {"H", "D", "C", "nl"}, r : Int, n : Nat]
Stream == Seq(Tokens)

LEMMA SubFacts ==
    ASSUME NEW sq \in Stream, NEW lo \in 1..Len(sq) + 1, NEW hi \in (lo - 1)..Len(sq)
    PROVE  /\ SubSeq(sq, lo, hi) \in Stream /\ Len(SubSeq(sq, lo, hi)) = hi - lo + 1
           /\ \A j \in 1..hi - lo + 1 : SubSeq(sq, lo, hi)[j] = sq[lo + j - 1]
  <1>1. /\ lo \in Int /\ hi \in Int /\ Len(sq) \in Nat
        /\ \A j \in lo..hi : sq[j] \in Tokens
    BY DEF Stream
  <1>2. /\ SubSeq(sq, lo, hi) \in Seq(Tokens)
        /\ Len(SubSeq(sq, lo, hi)) = IF lo <= hi THEN hi - lo + 1 ELSE 0
        /\ \A j \in 1..hi - lo + 1 : SubSeq(sq, lo, hi)[j] = sq[lo + j - 1]
    BY <1>1, SubSeqProperties
  <1> QED
    BY <1>1, <1>2 DEF Stream

LEMMA ConcatFacts ==
    ASSUME NEW sq \in Stream, NEW tq \in Stream
    PROVE  /\ sq \o tq \in Stream /\ Len(sq \o tq) = Len(sq) + Len(tq)
           /\ Len(sq) \in Nat /\ Len(tq) \in Nat
           /\ \A j \in 1..Len(sq) : (sq \o tq)[j] = sq[j]
           /\ \A j \in 1..Len(tq) : (sq \o tq)[Len(sq) + j] = tq[j]
  <1>1. Len(sq) \in Nat /\ Len(tq) \in Nat
    BY DEF Stream
  <1>2. /\ sq \o tq \in Stream /\ Len(sq \o tq) = Len(sq) + Len(tq)
        /\ \A k \in 1..Len(sq) + Len(tq) :
             (sq \o tq)[k] = IF k <= Len(sq) THEN sq[k] ELSE tq[k - Len(sq)]
    BY ConcatProperties DEF Stream
  <1>3. ASSUME NEW j \in 1..Len(tq) PROVE (sq \o tq)[Len(sq) + j] = tq[j]
    <2>1. Len(sq) + j \in 1..Len(sq) + Len(tq) /\ ~(Len(sq) + j <= Len(sq)) /\ Len(sq) + j - Len(sq) = j
      BY <1>1
    <2> QED
      BY <1>2, <2>1
  <1> QED
    BY <1>1, <1>2, <1>3

LEMMA StreamAssociative ==
    ASSUME NEW sq \in Stream, NEW tq \in Stream, NEW uq \in Stream
    PROVE  (sq \o tq) \o uq = sq \o (tq \o uq)
  BY ConcatAssociative DEF Stream

\* Equal streams are equal token by token.
LEMMA SameStream ==
    ASSUME NEW sq \in Stream, NEW tq \in Stream, Len(sq) = Len(tq),
           \A j \in 1..Len(sq) : sq[j] = tq[j]
    PROVE  sq = tq
  BY SeqEqual DEF Stream

\* The same stream cut in two ways.
Same(piece, others, front, back) == piece \o others = front \o back

\* front is taken from piece, and back begins with what is left of it.
TakenOff(piece, others, front, back) ==
    /\ SubSeq(piece, 1, Len(front)) = front
    /\ SubSeq(piece, Len(front) + 1, Len(piece)) \in Stream
    /\ SubSeq(piece, Len(front) + 1, Len(piece)) \o others = back

\* Two ways to cut the same stream: the front of the longer piece is the
\* shorter one, and what is left continues with the same tokens.
LEMMA CutFront ==
    ASSUME NEW piece \in Stream, NEW others \in Stream, NEW front \in Stream, NEW back \in Stream,
           Same(piece, others, front, back), Len(front) <= Len(piece)
    PROVE  TakenOff(piece, others, front, back)
  <1> DEFINE u == SubSeq(piece, 1, Len(front))
             z == SubSeq(piece, Len(front) + 1, Len(piece))
  <1>1. Len(front) \in Nat /\ Len(piece) \in Nat /\ \A j \in 1..Len(piece) : piece[j] \in Tokens
    BY DEF Stream
  <1>2. u \in Stream /\ Len(u) = Len(front) /\ z \in Stream
    BY <1>1 DEF Stream
  <1>3. piece = u \o z
    <2>1. /\ 1 \in 1..Len(piece) + 1 /\ Len(front) \in (1 - 1)..Len(piece)
          /\ Len(piece) \in Len(front)..Len(piece)
      BY <1>1
    <2>2. u \o z = SubSeq(piece, 1, Len(piece))
      BY <2>1, ConcatAdjacentSubSeq DEF Stream
    <2> QED
      BY <2>2, SubSeqFull DEF Stream
  <1> HIDE DEF u, z
  <1>4. u \o (z \o others) = front \o back
    <2>1. (u \o z) \o others = u \o (z \o others)
      <3>1. u \in Stream /\ z \in Stream /\ others \in Stream
        BY <1>2
      <3> QED
        BY <3>1, StreamAssociative, SMTT(30)
    <2> QED
      BY <2>1, <1>3, Zenon DEF Same
  <1>5. z \o others \in Stream
    BY <1>2, ConcatProperties DEF Stream
  <1>6. ASSUME NEW j \in 1..Len(u) PROVE u[j] = front[j]
    <2>1. (u \o (z \o others))[j] = u[j]
      BY <1>1, <1>2, <1>5 DEF Stream
    <2>2. (front \o back)[j] = front[j]
      BY <1>1, <1>2 DEF Stream
    <2> QED
      BY <2>1, <2>2, <1>4
  <1>7. u = front
    BY <1>2, <1>6, SeqEqual DEF Stream
  <1>8. z \o others = back
    BY <1>4, <1>5, <1>7, ConcatSimplifications DEF Stream
  <1> QED
    BY <1>2, <1>7, <1>8 DEF u, z, TakenOff

\* A vector whose live part is no longer than its memory.
Vector(b) ==
    /\ b = [mem |-> b.mem, size |-> b.size]
    /\ b.mem \in Stream /\ b.size \in 0..Len(b.mem)

LEMMA LiveFacts ==
    ASSUME NEW b, Vector(b)
    PROVE  /\ Live(b) \in Stream /\ Len(Live(b)) = b.size /\ b.size \in Nat
           /\ \A j \in 1..b.size : Live(b)[j] = b.mem[j]
  BY DEF Live, Vector, Stream

LEMMA VecFacts ==
    ASSUME NEW s \in Stream
    PROVE  Vector(Vec(s)) /\ Live(Vec(s)) = s /\ Vec(s).mem = s /\ Vec(s).size = Len(s)
  <1>1. SubSeq(s, 1, Len(s)) = s
    BY SubSeqFull DEF Stream
  <1> QED
    BY <1>1 DEF Vec, Live, Vector, Stream

\* An erase at the front leaves the rest of the live part.
LEMMA EraseFacts ==
    ASSUME NEW b, Vector(b), NEW n \in 0..b.size
    PROVE  /\ Vector(Erase(b, n)) /\ Erase(b, n).size = b.size - n
           /\ Len(Erase(b, n).mem) = Len(b.mem)
           /\ Live(Erase(b, n)) = SubSeq(b.mem, n + 1, b.size)
           /\ \A j \in 1..b.size - n : Erase(b, n).mem[j] = b.mem[n + j]
           /\ \A j \in b.size - n + 1..Len(b.mem) : Erase(b, n).mem[j] = b.mem[j]
  <1> DEFINE m == b.mem
             k == b.size
             u == SubSeq(m, n + 1, k)
             z == SubSeq(m, k - n + 1, Len(m))
  <1>1. m \in Stream /\ Len(m) \in Nat /\ k \in Nat /\ n \in Nat /\ k <= Len(m) /\ n <= k
    BY DEF Vector, Stream
  <1>2. Erase(b, n) = [mem |-> u \o z, size |-> k - n]
    BY DEF Erase
  <1>3. Live(b) = SubSeq(m, 1, k)
    BY DEF Live
  <1> HIDE DEF m, k
  <1>4. u \in Stream /\ Len(u) = k - n /\ \A j \in 1..k - n : u[j] = m[n + j]
    <2>1. n + 1 \in 1..Len(m) + 1 /\ k \in (n + 1 - 1)..Len(m) /\ k - (n + 1) + 1 = k - n
      BY <1>1
    <2>2. /\ u \in Stream /\ Len(u) = k - (n + 1) + 1
          /\ \A j \in 1..k - (n + 1) + 1 : u[j] = m[n + 1 + j - 1]
      BY <1>1, <2>1, SubFacts
    <2> HIDE DEF u
    <2>3. \A j \in 1..k - n : u[j] = m[n + j]
      BY <1>1, <2>1, <2>2
    <2> QED
      BY <2>1, <2>2, <2>3
  <1>5. z \in Stream /\ Len(z) = Len(m) - (k - n) /\ \A j \in 1..Len(z) : z[j] = m[k - n + j]
    <2>1. /\ k - n + 1 \in 1..Len(m) + 1 /\ Len(m) \in (k - n + 1 - 1)..Len(m)
          /\ Len(m) - (k - n + 1) + 1 = Len(m) - (k - n)
      BY <1>1
    <2>2. /\ z \in Stream /\ Len(z) = Len(m) - (k - n + 1) + 1
          /\ \A j \in 1..Len(m) - (k - n + 1) + 1 : z[j] = m[k - n + 1 + j - 1]
      BY <1>1, <2>1, SubFacts
    <2> HIDE DEF z
    <2>3. \A j \in 1..Len(z) : z[j] = m[k - n + j]
      BY <1>1, <2>1, <2>2
    <2> QED
      BY <2>1, <2>2, <2>3
  <1> HIDE DEF u, z
  <1>6. /\ u \o z \in Stream /\ Len(u \o z) = Len(m)
        /\ \A j \in 1..Len(u) : (u \o z)[j] = u[j]
        /\ \A j \in 1..Len(z) : (u \o z)[Len(u) + j] = z[j]
    <2>1. /\ u \o z \in Stream /\ Len(u \o z) = Len(u) + Len(z)
          /\ \A j \in 1..Len(u) : (u \o z)[j] = u[j]
          /\ \A j \in 1..Len(z) : (u \o z)[Len(u) + j] = z[j]
      BY <1>4, <1>5, ConcatFacts
    <2>2. Len(u) + Len(z) = Len(m)
      BY <1>1, <1>4, <1>5
    <2> QED
      BY <2>1, <2>2
  <1>7. \A j \in 1..k - n : (u \o z)[j] = m[n + j]
    BY <1>1, <1>4, <1>6
  <1>8. \A j \in k - n + 1..Len(m) : (u \o z)[j] = m[j]
    <2> TAKE j \in k - n + 1..Len(m)
    <2> DEFINE i == j - (k - n)
    <2>1. i \in 1..Len(z) /\ Len(u) + i = j /\ k - n + i = j
      BY <1>1, <1>4, <1>5
    <2> HIDE DEF i
    <2>2. (u \o z)[Len(u) + i] = z[i] /\ z[i] = m[k - n + i]
      BY <2>1, <1>5, <1>6
    <2> QED
      BY <2>1, <2>2
  <1>9. SubSeq(u \o z, 1, k - n) = u
    <2>1. 1 \in 1..Len(u \o z) + 1 /\ k - n \in (1 - 1)..Len(u \o z) /\ k - n - 1 + 1 = k - n
      BY <1>1, <1>6
    <2> DEFINE w == SubSeq(u \o z, 1, k - n)
    <2>2. /\ w \in Stream /\ Len(w) = k - n - 1 + 1
          /\ \A j \in 1..k - n - 1 + 1 : w[j] = (u \o z)[1 + j - 1]
      BY <1>6, <2>1, SubFacts
    <2> HIDE DEF w
    <2>3. \A j \in 1..Len(w) : w[j] = u[j]
      BY <1>1, <1>4, <1>6, <2>1, <2>2
    <2>4. w = u
      BY <1>4, <2>1, <2>2, <2>3, SameStream
    <2> QED
      BY <2>4 DEF w
  <1> DEFINE c == u \o z
  <1>10. Erase(b, n) = [mem |-> c, size |-> k - n]
    BY <1>2
  <1> HIDE DEF c
  <1>11. Erase(b, n).mem = c /\ Erase(b, n).size = k - n
    BY <1>10
  <1>12. Vector(Erase(b, n))
    <2>1. c \in Stream /\ k - n \in 0..Len(c)
      BY <1>1, <1>6 DEF c
    <2> QED
      BY <2>1, <1>10, <1>11 DEF Vector
  <1>13. Live(Erase(b, n)) = u
    BY <1>9, <1>11 DEF Live, c
  <1> QED
    BY <1>6, <1>7, <1>8, <1>11, <1>12, <1>13 DEF c, u, m, k

\* A part of the first k tokens of a stream.
LEMMA SubOfFront ==
    ASSUME NEW sq \in Stream, NEW top \in 0..Len(sq), NEW mid \in 0..top
    PROVE  /\ SubSeq(SubSeq(sq, 1, top), 1, mid) = SubSeq(sq, 1, mid)
           /\ SubSeq(SubSeq(sq, 1, top), mid + 1, top) = SubSeq(sq, mid + 1, top)
  <1> DEFINE low == SubSeq(sq, 1, top)
  <1>1. Len(sq) \in Nat /\ top \in Nat /\ mid \in Nat /\ mid <= top /\ top <= Len(sq)
    BY DEF Stream
  <1>2. low \in Stream /\ Len(low) = top /\ \A j \in 1..top : low[j] = sq[j]
    <2>1. 1 \in 1..Len(sq) + 1 /\ top \in (1 - 1)..Len(sq)
      BY <1>1
    <2>2. /\ low \in Stream /\ Len(low) = top - 1 + 1
          /\ \A j \in 1..top - 1 + 1 : low[j] = sq[1 + j - 1]
      BY <1>1, <2>1, SubFacts
    <2> HIDE DEF low
    <2> QED
      BY <1>1, <2>2
  <1> HIDE DEF low
  <1>3. ASSUME NEW f \in 1..top + 1, NEW t \in (f - 1)..top
        PROVE  SubSeq(low, f, t) = SubSeq(sq, f, t)
    <2>1. f \in 1..Len(low) + 1 /\ t \in (f - 1)..Len(low) /\ f \in 1..Len(sq) + 1 /\ t \in (f - 1)..Len(sq)
      BY <1>1, <1>2
    <2>2. /\ SubSeq(low, f, t) \in Stream /\ Len(SubSeq(low, f, t)) = t - f + 1
          /\ \A j \in 1..t - f + 1 : SubSeq(low, f, t)[j] = low[f + j - 1]
      BY <1>2, <2>1, SubFacts
    <2>3. /\ SubSeq(sq, f, t) \in Stream /\ Len(SubSeq(sq, f, t)) = t - f + 1
          /\ \A j \in 1..t - f + 1 : SubSeq(sq, f, t)[j] = sq[f + j - 1]
      BY <2>1, SubFacts
    <2>4. \A j \in 1..t - f + 1 : low[f + j - 1] = sq[f + j - 1]
      BY <1>1, <1>2
    <2> QED
      BY <2>2, <2>3, <2>4, SameStream
  <1>4. 1 \in 1..top + 1 /\ mid \in (1 - 1)..top /\ mid + 1 \in 1..top + 1 /\ top \in (mid + 1 - 1)..top
    BY <1>1
  <1>5. SubSeq(low, 1, mid) = SubSeq(sq, 1, mid) /\ SubSeq(low, mid + 1, top) = SubSeq(sq, mid + 1, top)
    <2>1. SubSeq(low, 1, mid) = SubSeq(sq, 1, mid)
      BY <1>3, <1>4
    <2>2. SubSeq(low, mid + 1, top) = SubSeq(sq, mid + 1, top)
      <3> DEFINE f == mid + 1
      <3>1. f \in 1..top + 1 /\ top \in (f - 1)..top
        BY <1>4
      <3> HIDE DEF f
      <3>2. SubSeq(low, f, top) = SubSeq(sq, f, top)
        BY <1>3, <3>1
      <3> QED
        BY <3>2 DEF f
    <2> QED
      BY <2>1, <2>2
  <1> QED
    BY <1>5 DEF low

\* The buffer b holds the beginning of the stream s, and rest is to follow.
Holds(b, rest, s) ==
    /\ Vector(b) /\ rest \in Stream /\ s \in Stream
    /\ Live(b) \o rest = s

Cut(s, x, y) == s = x \o y

Begins(b, x) == SubSeq(b.mem, 1, Len(x)) = x

\* What is read at the front of a buffer that holds the beginning of a stream,
\* and the buffer and the stream once it has been erased.
LEMMA TakeFront ==
    ASSUME NEW b, NEW rest, NEW s, NEW x \in Stream, NEW y \in Stream,
           Holds(b, rest, s), Cut(s, x, y), Len(x) <= b.size
    PROVE  Begins(b, x) /\ Holds(Erase(b, Len(x)), rest, y)
  <1> DEFINE l == Live(b)
             m == b.mem
             k == b.size
             n == Len(x)
  <1>1. /\ l \in Stream /\ Len(l) = k /\ k \in Nat /\ l \o rest = x \o y
        /\ n \in 0..k /\ m \in Stream /\ Len(m) \in Nat /\ k <= Len(m)
    <2>1. Vector(b)
      BY DEF Holds
    <2>2. l \in Stream /\ Len(l) = b.size /\ b.size \in Nat
      BY <2>1, LiveFacts
    <2>3. l \o rest = x \o y
      BY DEF Holds, Cut
    <2> HIDE DEF l
    <2> QED
      BY <2>1, <2>2, <2>3 DEF Stream, Vector
  <1>2. l = SubSeq(m, 1, k)
    BY DEF Live
  <1>3. /\ Vector(Erase(b, n)) /\ Live(Erase(b, n)) = SubSeq(m, n + 1, k)
    <2>1. Vector(b) /\ n \in 0..b.size
      BY <1>1 DEF Holds
    <2> HIDE DEF n
    <2> QED
      BY <2>1, EraseFacts
  <1>6. rest \in Stream
    BY DEF Holds
  <1> HIDE DEF m, k, l
  <1>4. SubSeq(l, 1, n) = x /\ SubSeq(l, n + 1, k) \o rest = y
    <2>1. Len(x) <= Len(l)
      BY <1>1
    <2>2. Same(l, rest, x, y)
      BY <1>1 DEF Same
    <2>3. TakenOff(l, rest, x, y)
      BY <1>1, <1>6, <2>1, <2>2, CutFront
    <2> QED
      BY <1>1, <2>3 DEF TakenOff
  <1>5. SubSeq(l, 1, n) = SubSeq(m, 1, n) /\ SubSeq(l, n + 1, k) = SubSeq(m, n + 1, k)
    BY <1>1, <1>2, SubOfFront
  <1> QED
    BY <1>3, <1>4, <1>5, <1>6 DEF m, k, Begins, Holds

\* The tokens of a buffer are those of the stream it holds the beginning of.
LEMMA ReadFront ==
    ASSUME NEW b, NEW rest, NEW s, Holds(b, rest, s)
    PROVE  /\ \A j \in 1..b.size : b.mem[j] = s[j]
           /\ Len(s) = b.size + Len(rest) /\ Len(rest) \in Nat /\ b.size \in Nat
           /\ \A j \in 1..Len(rest) : rest[j] = s[b.size + j]
  <1>5. Vector(b) /\ rest \in Stream /\ s \in Stream /\ Live(b) \o rest = s
    BY DEF Holds
  <1>1. /\ Live(b) \in Stream /\ Len(Live(b)) = b.size /\ b.size \in Nat
        /\ \A j \in 1..b.size : Live(b)[j] = b.mem[j]
    BY <1>5, LiveFacts
  <1>2. /\ Len(s) = b.size + Len(rest) /\ Len(rest) \in Nat
        /\ \A j \in 1..b.size : s[j] = Live(b)[j]
        /\ \A j \in 1..Len(rest) : s[b.size + j] = rest[j]
    <2> DEFINE l == Live(b)
    <2>1. l \in Stream /\ l \o rest = s /\ Len(l) = b.size
      BY <1>1, <1>5
    <2> HIDE DEF l
    <2>2. /\ Len(l \o rest) = Len(l) + Len(rest) /\ Len(rest) \in Nat
          /\ \A j \in 1..Len(l) : (l \o rest)[j] = l[j]
          /\ \A j \in 1..Len(rest) : (l \o rest)[Len(l) + j] = rest[j]
      BY <2>1, <1>5, ConcatFacts
    <2> QED
      BY <2>1, <2>2 DEF l
  <1>3. \A j \in 1..b.size : b.mem[j] = s[j]
    BY <1>1, <1>2
  <1>4. \A j \in 1..Len(rest) : rest[j] = s[b.size + j]
    BY <1>2
  <1> QED
    BY <1>1, <1>2, <1>3, <1>4
-----------------------------------------------------------------------------
(* The stream of a script *)

Script(s) == s \in Seq(AllKinds)

LEMMA HeaderStream ==
    ASSUME NEW r \in Int
    PROVE  /\ Header(r) \in Stream /\ Len(Header(r)) = 3
           /\ Header(r)[1] = H(r) /\ Header(r)[2] = NL /\ Header(r)[3] = NL
  BY DEF Header, H, NL, Tok, Tokens, Stream

LEMMA BodyStream ==
    ASSUME NEW r \in Nat, NEW kind \in AllKinds
    PROVE  Body(r, kind) \in Stream
  <1>1. /\ <<>> \in Stream /\ Data(r) \in Stream /\ <<D(r)>> \in Stream
        /\ ChunkedData(r) \in Stream /\ <<D(r), NL>> \in Stream
        /\ <<D(r), NL, NL, D(r)>> \in Stream
    BY DEF Data, ChunkedData, C, D, NL, Tok, Tokens, Stream
  <1>2. Header(-r) \o <<D(r)>> \in Stream
    <2>1. -r \in Int
      OBVIOUS
    <2>2. Header(-r) \in Stream
      BY <2>1, HeaderStream
    <2> QED
      BY <1>1, <2>2, ConcatFacts
  <1> QED
    BY <1>1, <1>2 DEF Body, AllKinds

\* Request q of s in front of what follows it.
Item(s, q, t) == Header(q) \o Body(q, s[q]) \o t

LEMMA ItemStream ==
    ASSUME NEW s, Script(s), NEW q \in 1..Len(s), NEW t \in Stream
    PROVE  /\ Item(s, q, t) \in Stream
           /\ Body(q, s[q]) \in Stream /\ Body(q, s[q]) \o t \in Stream
           /\ Cut(Item(s, q, t), Header(q), Body(q, s[q]) \o t)
  <1>1. q \in Nat /\ s[q] \in AllKinds
    BY DEF Script
  <1> DEFINE h == Header(q)
             b == Body(q, s[q])
  <1>2. h \in Stream /\ b \in Stream
    BY <1>1, HeaderStream, BodyStream
  <1> HIDE DEF h, b
  <1>3. h \o b \in Stream /\ b \o t \in Stream
    BY <1>2, ConcatFacts
  <1>4. (h \o b) \o t \in Stream /\ (h \o b) \o t = h \o (b \o t)
    <2>1. (h \o b) \o t \in Stream
      BY <1>3, ConcatFacts
    <2>2. (h \o b) \o t = h \o (b \o t)
      BY <1>2, StreamAssociative
    <2> QED
      BY <2>1, <2>2
  <1> QED
    BY <1>2, <1>3, <1>4 DEF Item, Cut, h, b

Encodes(s, f, n) ==
    /\ f \in [n..Len(s) + 1 -> Stream] /\ f[Len(s) + 1] = <<>>
    /\ \A q \in n..Len(s) : f[q] = Item(s, q, f[q + 1])

\* There is a function that gives the requests of s from each on.
LEMMA EncodesExists ==
    ASSUME NEW s, Script(s)
    PROVE  \E f : Encodes(s, f, 1)
  <1> DEFINE L == Len(s)
             T == {m \in 0..L : ~(\E f : Encodes(s, f, L + 1 - m))}
  <1>1. L \in Nat
    BY DEF Script
  <1>2. SUFFICES ASSUME T # {} PROVE FALSE
    <2>1. L \in 0..L /\ L + 1 - L = 1
      BY <1>1
    <2> QED
      BY <2>1
  <1>3. PICK m \in T : \A y \in T : m <= y
    <2>1. T \subseteq Nat
      BY <1>1
    <2> HIDE DEF T
    <2> QED
      BY <1>2, <2>1, LeastNatural, Zenon
  <1>4. m \in 0..L /\ m \in Nat /\ ~(\E f : Encodes(s, f, L + 1 - m))
    BY <1>1
  <1>5. m # 0
    <2> DEFINE g == [q \in L + 1..L + 1 |-> <<>>]
    <2>1. g \in [L + 1..L + 1 -> Stream] /\ g[L + 1] = <<>> /\ (L + 1)..L = {} /\ L + 1 - 0 = L + 1
      BY <1>1 DEF Stream
    <2> HIDE DEF g
    <2>2. Encodes(s, g, L + 1 - 0)
      BY <1>1, <2>1 DEF Encodes
    <2> QED
      BY <1>4, <2>2
  <1>6. m - 1 \in 0..L /\ ~(m <= m - 1)
    BY <1>1, <1>4, <1>5
  <1> DEFINE n == L + 1 - m
  <1>7. n \in 1..L /\ L + 1 - (m - 1) = n + 1 /\ n \in n..L + 1 /\ n # L + 1
    BY <1>1, <1>4, <1>5
  <1>8. \E f : Encodes(s, f, n + 1)
    BY <1>3, <1>6, <1>7
  <1> HIDE DEF n, T
  <1>9. PICK g : Encodes(s, g, n + 1)
    BY <1>8
  <1>10. /\ g \in [n + 1..L + 1 -> Stream] /\ g[L + 1] = <<>> /\ g[n + 1] \in Stream
         /\ \A q \in n + 1..L : g[q] = Item(s, q, g[q + 1])
    BY <1>1, <1>7, <1>9 DEF Encodes
  <1> DEFINE e == Item(s, n, g[n + 1])
             f == [q \in n..L + 1 |-> IF q = n THEN e ELSE g[q]]
  <1>11. e \in Stream
    BY <1>7, <1>10, ItemStream
  <1>12. e = Item(s, n, g[n + 1])
    OBVIOUS
  <1> HIDE DEF e
  <1>13. f \in [n..L + 1 -> Stream]
    BY <1>1, <1>7, <1>10, <1>11
  <1>14. f[n] = e /\ \A q \in n + 1..L + 1 : f[q] = g[q]
    BY <1>1, <1>7
  <1> HIDE DEF f
  <1>15. f[L + 1] = <<>> /\ f[n] = Item(s, n, f[n + 1])
    BY <1>1, <1>7, <1>10, <1>12, <1>14
  <1>16. ASSUME NEW q \in n + 1..L PROVE f[q] = Item(s, q, f[q + 1])
    <2>1. q \in n + 1..L + 1 /\ q + 1 \in n + 1..L + 1
      BY <1>1, <1>7
    <2> QED
      BY <1>10, <1>14, <2>1
  <1>17. \A q \in n..L : f[q] = Item(s, q, f[q + 1])
    <2> TAKE q \in n..L
    <2>1. q = n \/ q \in n + 1..L
      BY <1>1, <1>7
    <2> QED
      BY <1>15, <1>16, <2>1
  <1>18. Encodes(s, f, n)
    BY <1>13, <1>15, <1>17 DEF Encodes
  <1> QED
    BY <1>4, <1>18 DEF n

EncodeOf(s, f) ==
    f = [q \in 1..Len(s) + 1 |-> IF q = Len(s) + 1 THEN <<>>
                                 ELSE Header(q) \o Body(q, s[q]) \o f[q + 1]]

\* The stream is the requests one by one.
LEMMA EncodeFacts ==
    ASSUME NEW s, Script(s)
    PROVE  /\ \A r \in 1..Len(s) + 1 : Encode(s, r) \in Stream
           /\ Encode(s, Len(s) + 1) = <<>>
           /\ \A r \in 1..Len(s) : Encode(s, r) = Item(s, r, Encode(s, r + 1))
  <1> DEFINE L == Len(s)
  <1>1. L \in Nat
    BY DEF Script
  <1>2. PICK g : Encodes(s, g, 1)
    BY EncodesExists
  <1>3. EncodeOf(s, g)
    <2> DEFINE h == [q \in 1..L + 1 |-> IF q = L + 1 THEN <<>> ELSE Item(s, q, g[q + 1])]
    <2>1. g \in [1..L + 1 -> Stream] /\ g[L + 1] = <<>> /\ \A q \in 1..L : g[q] = Item(s, q, g[q + 1])
      BY <1>2 DEF Encodes
    <2>2. ASSUME NEW q \in 1..L + 1 PROVE g[q] = h[q]
      <3>1. q = L + 1 \/ (q \in 1..L /\ q # L + 1)
        BY <1>1
      <3> QED
        BY <2>1, <3>1
    <2>3. g = h
      BY <2>1, <2>2
    <2> QED
      BY <2>3 DEF EncodeOf, Item
  <1> DEFINE f == CHOOSE f : EncodeOf(s, f)
  <1>4. EncodeOf(s, f)
    BY <1>3
  <1>5. \A r : Encode(s, r) = f[r]
    BY DEF Encode, EncodeOf
  <1> HIDE DEF f
  <1>6. f[L + 1] = <<>> /\ \A q \in 1..L : f[q] = Item(s, q, f[q + 1])
    <2> DEFINE h == [q \in 1..L + 1 |-> IF q = L + 1 THEN <<>> ELSE Item(s, q, f[q + 1])]
    <2>1. f = h
      BY <1>4 DEF EncodeOf, Item
    <2>2. h[L + 1] = <<>> /\ \A q \in 1..L : h[q] = Item(s, q, f[q + 1])
      <3>1. L + 1 \in 1..L + 1 /\ \A q \in 1..L : q \in 1..L + 1 /\ q # L + 1
        BY <1>1
      <3> QED
        BY <3>1
    <2> HIDE DEF h
    <2>3. \A m : f[m] = h[m]
      BY <2>1
    <2> QED
      BY <2>2, <2>3, Zenon
  <1>7. ASSUME NEW r \in 1..L + 1 PROVE f[r] \in Stream
    <2> DEFINE T == {m \in 0..L : f[L + 1 - m] \notin Stream}
    <2>1. SUFFICES ASSUME T # {} PROVE FALSE
      <3>1. L + 1 - r \in 0..L /\ L + 1 - (L + 1 - r) = r
        BY <1>1
      <3>2. L + 1 - r \notin T
        OBVIOUS
      <3> QED
        BY <3>1, <3>2
    <2>2. PICK m \in T : \A y \in T : m <= y
      <3>1. T \subseteq Nat
        BY <1>1
      <3> HIDE DEF T
      <3> QED
        BY <2>1, <3>1, LeastNatural, Zenon
    <2>3. m \in 0..L /\ m \in Nat /\ f[L + 1 - m] \notin Stream
      BY <1>1
    <2>4. m # 0
      <3>1. <<>> \in Stream /\ L + 1 - 0 = L + 1
        BY <1>1 DEF Stream
      <3> QED
        BY <3>1, <2>3, <1>6
    <2>5. m - 1 \in 0..L /\ ~(m <= m - 1) /\ L + 1 - m \in 1..L /\ L + 1 - (m - 1) = L + 1 - m + 1
      BY <1>1, <2>3, <2>4
    <2>6. f[L + 1 - m + 1] \in Stream
      BY <2>2, <2>5
    <2>7. f[L + 1 - m] = Item(s, L + 1 - m, f[L + 1 - m + 1])
      BY <1>6, <2>5
    <2> DEFINE q == L + 1 - m
    <2>8. q \in 1..Len(s)
      BY <2>5
    <2> HIDE DEF q
    <2>9. Item(s, q, f[q + 1]) \in Stream
      BY <2>6, <2>8, ItemStream DEF q
    <2> QED
      BY <2>3, <2>7, <2>9 DEF q
  <1> QED
    BY <1>5, <1>6, <1>7
-----------------------------------------------------------------------------
(* The searches *)

LEMMA MinFacts ==
    ASSUME NEW S, S \subseteq Nat, S # {}
    PROVE  Min(S) \in S /\ \A y \in S : Min(S) <= y
  <1>1. \E x \in S : \A y \in S : x <= y
    BY LeastNatural
  <1> QED
    BY <1>1, Zenon DEF Min

\* k is the first position of s where P holds, 0 if there is none.
FirstAt(s, P(_), k) ==
    /\ k \in 0..Len(s)
    /\ k # 0 => P(s[k])
    /\ \A j \in 1..Len(s) : P(s[j]) => k # 0 /\ k <= j

IsLine(x) == x = NL
IsHead(x) == x.t = "H"

LEMMA FindLineFacts ==
    ASSUME NEW s \in Stream
    PROVE  FirstAt(s, IsLine, FindLine(s))
  <1> DEFINE I == {i \in 1..Len(s) : s[i] = NL}
  <1>1. FindLine(s) = IF I # {} THEN Min(I) ELSE 0
    BY DEF FindLine, SelectInSeq
  <1>2. Len(s) \in Nat /\ I \subseteq Nat
    BY DEF Stream
  <1>3. CASE I = {}
    <2>1. FindLine(s) = 0
      BY <1>1, <1>3
    <2>2. \A j \in 1..Len(s) : s[j] # NL
      BY <1>3
    <2> QED
      BY <1>2, <2>1, <2>2 DEF FirstAt, IsLine
  <1>4. CASE I # {}
    <2> DEFINE k == Min(I)
    <2>1. k \in I /\ \A y \in I : k <= y
      <3> HIDE DEF I
      <3> QED
        BY <1>2, <1>4, MinFacts
    <2>2. FindLine(s) = k
      BY <1>1, <1>4
    <2> HIDE DEF k
    <2>3. k \in 1..Len(s) /\ s[k] = NL /\ \A j \in 1..Len(s) : s[j] = NL => k <= j
      BY <2>1
    <2> QED
      BY <1>2, <2>2, <2>3 DEF FirstAt, IsLine
  <1> QED
    BY <1>3, <1>4

\* The first token of a header.
FindHead(s) == SelectInSeq(s, LAMBDA x : x.t = "H")

LEMMA FindHeadFacts ==
    ASSUME NEW s \in Stream
    PROVE  FirstAt(s, IsHead, FindHead(s))
  <1> DEFINE I == {i \in 1..Len(s) : s[i].t = "H"}
  <1>1. FindHead(s) = IF I # {} THEN Min(I) ELSE 0
    BY DEF FindHead, SelectInSeq
  <1>2. Len(s) \in Nat /\ I \subseteq Nat
    BY DEF Stream
  <1>3. CASE I = {}
    <2>1. FindHead(s) = 0
      BY <1>1, <1>3
    <2>2. \A j \in 1..Len(s) : s[j].t # "H"
      BY <1>3
    <2> QED
      BY <1>2, <2>1, <2>2 DEF FirstAt, IsHead
  <1>4. CASE I # {}
    <2> DEFINE k == Min(I)
    <2>1. k \in I /\ \A y \in I : k <= y
      <3> HIDE DEF I
      <3> QED
        BY <1>2, <1>4, MinFacts
    <2>2. FindHead(s) = k
      BY <1>1, <1>4
    <2> HIDE DEF k
    <2>3. k \in 1..Len(s) /\ s[k].t = "H" /\ \A j \in 1..Len(s) : s[j].t = "H" => k <= j
      BY <2>1
    <2> QED
      BY <1>2, <2>2, <2>3 DEF FirstAt, IsHead
  <1> QED
    BY <1>3, <1>4

LEMMA FindBlankFacts ==
    ASSUME NEW s \in Stream, NEW from \in Nat
    PROVE  /\ FindBlank(s, from) \in 0..Len(s)
           /\ FindBlank(s, from) # 0 =>
                /\ from + 2 <= FindBlank(s, from)
                /\ s[FindBlank(s, from) - 1] = NL /\ s[FindBlank(s, from)] = NL
  <1> DEFINE hits == {j \in from + 2..Len(s) : s[j - 1] = NL /\ s[j] = NL}
  <1>1. FindBlank(s, from) = IF hits = {} THEN 0 ELSE Min(hits)
    BY DEF FindBlank
  <1>2. Len(s) \in Nat /\ hits \subseteq Nat
    BY DEF Stream
  <1>3. CASE hits = {}
    BY <1>1, <1>2, <1>3
  <1>4. CASE hits # {}
    <2> DEFINE k == Min(hits)
    <2>1. k \in hits
      <3> HIDE DEF hits
      <3> QED
        BY <1>2, <1>4, MinFacts
    <2>2. FindBlank(s, from) = k
      BY <1>1, <1>4
    <2> HIDE DEF k
    <2>3. k \in from + 2..Len(s) /\ s[k - 1] = NL /\ s[k] = NL
      BY <2>1
    <2> QED
      BY <1>2, <2>2, <2>3
  <1> QED
    BY <1>3, <1>4

-----------------------------------------------------------------------------
(* The loop over the chunks *)

NextChunk(p) == IF p.out = "more" THEN ReadChunk(p.b, p.data) ELSE p

Loop(b, data, f, n) ==
    f = [k \in 0..n |-> IF k = 0 THEN Outcome("more", b, data) ELSE NextChunk(f[k - 1])]

LEMMA LoopExists ==
    ASSUME NEW b, NEW data, NEW n \in Nat
    PROVE  \E f : Loop(b, data, f, n)
  <1> DEFINE T == {m \in Nat : ~(\E f : Loop(b, data, f, m))}
  <1>1. SUFFICES ASSUME T # {} PROVE FALSE
    OBVIOUS
  <1>2. PICK m \in T : \A y \in T : m <= y
    <2>1. T \subseteq Nat
      OBVIOUS
    <2> HIDE DEF T
    <2> QED
      BY <1>1, <2>1, LeastNatural, Zenon
  <1>3. m \in Nat /\ ~(\E f : Loop(b, data, f, m))
    OBVIOUS
  <1> DEFINE o == Outcome("more", b, data)
  <1>4. m # 0
    <2> DEFINE g == [k \in 0..0 |-> o]
    <2>1. g = [k \in 0..0 |-> IF k = 0 THEN o ELSE NextChunk(g[k - 1])]
      <3> HIDE DEF o
      <3> QED
        OBVIOUS
    <2>2. Loop(b, data, g, 0)
      BY <2>1 DEF Loop
    <2> QED
      BY <1>3, <2>2
  <1>5. m - 1 \in Nat /\ ~(m <= m - 1)
    BY <1>3, <1>4
  <1>6. \E f : Loop(b, data, f, m - 1)
    BY <1>2, <1>5
  <1> HIDE DEF T
  <1>7. PICK g : Loop(b, data, g, m - 1)
    BY <1>6
  <1> DEFINE f == [k \in 0..m |-> IF k = m THEN NextChunk(g[m - 1]) ELSE g[k]]
             h == [k \in 0..m |-> IF k = 0 THEN o ELSE NextChunk(f[k - 1])]
             e == [k \in 0..(m - 1) |-> IF k = 0 THEN o ELSE NextChunk(g[k - 1])]
  <1>8. g = e
    BY <1>7 DEF Loop
  <1> HIDE DEF o
  <1>9. \A k \in 0..(m - 1) : g[k] = IF k = 0 THEN o ELSE NextChunk(g[k - 1])
    <2>1. \A k \in 0..(m - 1) : e[k] = IF k = 0 THEN o ELSE NextChunk(g[k - 1])
      OBVIOUS
    <2> HIDE DEF e
    <2> QED
      BY <1>8, <2>1
  <1>10. ASSUME NEW k \in 0..m PROVE f[k] = h[k]
    <2>1. CASE k = m
      <3>1. f[k] = NextChunk(g[m - 1])
        BY <2>1
      <3>2. f[m - 1] = g[m - 1]
        BY <1>3, <1>4
      <3>3. h[k] = NextChunk(f[m - 1])
        BY <2>1, <1>4
      <3> QED
        BY <3>1, <3>2, <3>3
    <2>2. CASE k # m /\ k # 0
      <3>1. k \in 0..(m - 1) /\ k - 1 \in 0..m /\ k - 1 # m
        BY <1>3, <2>2
      <3>2. f[k] = g[k] /\ f[k - 1] = g[k - 1]
        BY <2>2, <3>1
      <3>3. h[k] = NextChunk(f[k - 1])
        BY <2>2
      <3> QED
        BY <1>9, <2>2, <3>1, <3>2, <3>3
    <2>3. CASE k = 0 /\ k # m
      <3>1. f[k] = g[0] /\ h[k] = o /\ 0 \in 0..(m - 1)
        BY <1>3, <1>4, <2>3
      <3> QED
        BY <1>9, <3>1
    <2> QED
      BY <2>1, <2>2, <2>3
  <1>11. f = h
    BY <1>10
  <1>12. Loop(b, data, f, m)
    BY <1>11 DEF Loop, o
  <1> HIDE DEF f
  <1> QED
    BY <1>3, <1>12

\* The loop ends with the first outcome that is not "more".
LEMMA LoopEnds ==
    ASSUME NEW b, NEW data, b.size \in Nat,
           NEW p, NEW k \in 1..b.size + 1, p.out # "more",
           \/ k = 1 /\ p = ReadChunk(b, data)
           \/ /\ k = 2 /\ ReadChunk(b, data).out = "more"
              /\ p = ReadChunk(ReadChunk(b, data).b, ReadChunk(b, data).data)
    PROVE  ReadChunks(b, data) = p
  <1> DEFINE n == b.size + 1
             f == CHOOSE f : Loop(b, data, f, n)
             o == Outcome("more", b, data)
  <1>1. n \in Nat /\ k \in 1..n
    OBVIOUS
  <1>2. ReadChunks(b, data) = f[n]
    BY DEF ReadChunks, Loop, NextChunk
  <1>3. Loop(b, data, f, n)
    <2>1. \E g : Loop(b, data, g, n)
      <3> HIDE DEF n
      <3> QED
        BY <1>1, LoopExists
    <2> QED
      BY <2>1
  <1> HIDE DEF f, n
  <1>4. f[0] = o /\ \A m \in 1..n : f[m] = NextChunk(f[m - 1])
    <2> DEFINE e == [m \in 0..n |-> IF m = 0 THEN o ELSE NextChunk(f[m - 1])]
    <2>1. f = e
      BY <1>3 DEF Loop
    <2>2. e[0] = o /\ \A m \in 1..n : e[m] = NextChunk(f[m - 1])
      <3> HIDE DEF o
      <3> QED
        BY <1>1
    <2> HIDE DEF e
    <2> QED
      BY <2>1, <2>2
  <1>5. o.out = "more" /\ o.b = b /\ o.data = data
    BY DEF Outcome
  <1> HIDE DEF o
  <1>6. f[1] = ReadChunk(b, data)
    <2>1. 1 \in 1..n /\ 1 - 1 = 0
      BY <1>1
    <2>2. f[1] = NextChunk(f[0])
      BY <1>4, <2>1
    <2> QED
      BY <1>4, <1>5, <2>2 DEF NextChunk
  <1>7. f[k] = p
    <2>1. CASE k = 1
      BY <1>6, <2>1
    <2>2. CASE k = 2
      <3>1. 2 \in 1..n /\ 2 - 1 = 1
        BY <1>1, <2>2
      <3>2. f[2] = NextChunk(f[1])
        BY <1>4, <3>1
      <3> QED
        BY <1>6, <2>2, <3>2 DEF NextChunk
    <2> QED
      BY <2>1, <2>2
  <1>8. ASSUME NEW q \in k..n PROVE f[q] = p
    <2> DEFINE T == {m \in k..n : f[m] # p}
    <2>1. SUFFICES ASSUME T # {} PROVE FALSE
      OBVIOUS
    <2>2. PICK m \in T : \A y \in T : m <= y
      <3>1. T \subseteq Nat
        BY <1>1
      <3> HIDE DEF T
      <3> QED
        BY <2>1, <3>1, LeastNatural, Zenon
    <2>3. m \in k..n /\ f[m] # p /\ m # k
      BY <1>7
    <2>4. m - 1 \in k..n /\ ~(m <= m - 1) /\ m \in 1..n
      BY <1>1, <2>3
    <2>5. f[m - 1] = p
      BY <2>2, <2>4
    <2>6. f[m] = NextChunk(p)
      BY <1>4, <2>4, <2>5
    <2> QED
      BY <2>3, <2>6 DEF NextChunk
  <1>9. n \in k..n
    BY <1>1
  <1> QED
    BY <1>2, <1>8, <1>9
-----------------------------------------------------------------------------
(* One chunk *)

Chunk(r, count) ==
    IF count = 0 THEN <<C(r, 0), NL, NL>> ELSE <<C(r, 2), NL, D(r), D(r), NL>>

LEMMA ChunkStream ==
    ASSUME NEW r \in Nat, NEW count \in {0, 2}
    PROVE  /\ Chunk(r, count) \in Stream /\ Len(Chunk(r, count)) = count + 3
           /\ Chunk(r, count)[1] = C(r, count) /\ Chunk(r, count)[2] = NL
           /\ Chunk(r, count)[count + 3] = NL
           /\ count = 2 => Chunk(r, count)[3] = D(r) /\ Chunk(r, count)[4] = D(r)
  <1>1. CASE count = 0
    BY <1>1 DEF Chunk, C, D, NL, Tok, Tokens, Stream
  <1>2. CASE count = 2
    BY <1>2 DEF Chunk, C, D, NL, Tok, Tokens, Stream
  <1> QED
    BY <1>1, <1>2

\* The bytes of a chunk of request r.
Bytes(r, count) == IF count = 0 THEN <<>> ELSE Data(r)

\* What ReadChunk gives when b holds the beginning of a chunk and then y.
OneChunk(p, b, data, rest, r, count, y) ==
    \/ p = Outcome("wait", b, data) /\ b.size < count + 3
    \/ p = Outcome("overrun", b, data) /\ b.size < count + 3
    \/ /\ p = Outcome(IF count = 0 THEN "handled" ELSE "more", Erase(b, count + 3),
                      data \o Bytes(r, count))
       /\ count + 3 <= b.size /\ Holds(Erase(b, count + 3), rest, y)

LEMMA ReadChunkFacts ==
    ASSUME NEW b, NEW data, NEW rest, NEW s, NEW r \in Nat, NEW count \in {0, 2},
           NEW y \in Stream, Holds(b, rest, s), Cut(s, Chunk(r, count), y)
    PROVE  OneChunk(ReadChunk(b, data), b, data, rest, r, count, y)
  <1> DEFINE x == Chunk(r, count)
             l == Live(b)
             m == b.mem
             n == b.size
             pos == FindLine(l)
  <1>1. /\ x \in Stream /\ Len(x) = count + 3 /\ x[1] = C(r, count) /\ x[2] = NL
        /\ x[count + 3] = NL /\ (count = 2 => x[3] = D(r) /\ x[4] = D(r))
    BY ChunkStream
  <1>2. Vector(b)
    BY DEF Holds
  <1>3. l \in Stream /\ Len(l) = n /\ n \in Nat /\ \A j \in 1..n : l[j] = m[j]
    BY <1>2, LiveFacts
  <1>4. \A j \in 1..count + 3 : s[j] = x[j]
    <2> HIDE DEF x
    <2>1. \A j \in 1..Len(x) : (x \o y)[j] = x[j]
      BY <1>1, ConcatFacts
    <2> QED
      BY <1>1, <2>1 DEF Cut, x
  <1>5. \A j \in 1..n : m[j] = s[j]
    BY ReadFront
  <1>6. FirstAt(l, IsLine, pos)
    BY <1>3, FindLineFacts
  <1>7. /\ C(r, count).t = "C" /\ C(r, count).n = count /\ C(r, count) # NL
    BY DEF C, NL, Tok
  <1>8. ReadChunk(b, data) =
          IF pos = 0 THEN Outcome("wait", b, data)
          ELSE IF m[1].t # "C" THEN Outcome("overrun", b, data)
          ELSE IF ~ChunkComplete(n, pos + m[1].n + 1) THEN Outcome("wait", b, data)
          ELSE IF pos + m[1].n + 1 > n THEN Outcome("overrun", b, data)
          ELSE IF m[pos + m[1].n + 1] # NL THEN Outcome("refused", b, data)
          ELSE Outcome(IF m[1].n = 0 THEN "handled" ELSE "more", Erase(b, pos + m[1].n + 1),
                       data \o SubSeq(m, pos + 1, pos + m[1].n))
    BY DEF ReadChunk
  <1>9. CASE pos = 0
    <2>1. n < count + 3
      <3>1. SUFFICES ASSUME ~(n < count + 3) PROVE FALSE
        BY <1>3
      <3> HIDE DEF x, l, m, n, pos
      <3>2. 2 \in 1..n /\ 2 \in 1..count + 3
        BY <1>3, <3>1
      <3>3. l[2] = NL
        BY <1>1, <1>3, <1>4, <1>5, <3>2
      <3> QED
        BY <1>3, <1>6, <1>9, <3>2, <3>3 DEF FirstAt, IsLine
    <2>2. ReadChunk(b, data) = Outcome("wait", b, data)
      BY <1>8, <1>9
    <2> QED
      BY <2>1, <2>2 DEF OneChunk
  <1>10. CASE pos # 0
    <2> HIDE DEF x, l, m, n, pos
    <2>1. pos \in 1..n /\ l[pos] = NL /\ \A j \in 1..n : l[j] = NL => pos <= j
      BY <1>3, <1>6, <1>10 DEF FirstAt, IsLine
    <2>2. m[1] = C(r, count)
      BY <1>1, <1>3, <1>4, <1>5, <2>1
    <2>3. pos # 1
      BY <1>3, <1>7, <2>1, <2>2
    <2>4. m[2] = NL /\ 2 \in 1..n
      BY <1>1, <1>3, <1>4, <1>5, <2>1, <2>3
    <2>5. pos = 2
      BY <1>3, <2>1, <2>3, <2>4
    <2>6. m[1].t = "C" /\ m[1].n = count /\ pos + m[1].n + 1 = count + 3 /\ pos + 1 = 3
      BY <1>7, <2>2, <2>5
    <2>7. ChunkComplete(n, count + 3)
      BY <1>3 DEF ChunkComplete, SizeT
    <2>8. CASE count + 3 > n
      <3>1. ReadChunk(b, data) = Outcome("overrun", b, data)
        BY <1>8, <1>10, <2>6, <2>7, <2>8
      <3>2. n < count + 3
        BY <1>3, <2>8
      <3> QED
        BY <3>1, <3>2 DEF OneChunk, n
    <2>9. CASE ~(count + 3 > n)
      <3>1. count + 3 \in 1..n /\ count + 3 <= n /\ m[count + 3] = NL
        BY <1>1, <1>3, <1>4, <1>5, <2>9
      <3>2. SubSeq(m, 3, 2 + count) = Bytes(r, count)
        <4>1. CASE count = 0
          <5>1. SubSeq(m, 3, 2) = <<>>
            BY SubSeqEmpty
          <5> QED
            BY <4>1, <5>1 DEF Bytes
        <4>2. CASE count = 2
          <5>1. m \in Stream /\ n <= Len(m) /\ Len(m) \in Nat
            BY <1>2, <1>3 DEF Vector, m, n, Stream
          <5>2. m[3] = D(r) /\ m[4] = D(r) /\ n >= 5
            BY <1>1, <1>3, <1>4, <1>5, <3>1, <4>2
          <5> DEFINE v == SubSeq(m, 3, 4)
          <5>3. /\ v \in Stream /\ Len(v) = 4 - 3 + 1
                /\ \A j \in 1..4 - 3 + 1 : v[j] = m[3 + j - 1]
            <6>1. 3 \in 1..Len(m) + 1 /\ 4 \in (3 - 1)..Len(m)
              BY <1>3, <5>1, <5>2
            <6> QED
              BY <5>1, <6>1, SubFacts
          <5>4. Data(r) \in Stream /\ Len(Data(r)) = 2 /\ Data(r)[1] = D(r) /\ Data(r)[2] = D(r)
            BY DEF Data, D, Tok, Tokens, Stream
          <5> HIDE DEF v
          <5>5. \A j \in 1..2 : v[j] = Data(r)[j]
            <6>1. v[1] = m[3] /\ v[2] = m[4]
              BY <5>3
            <6> QED
              BY <5>2, <5>4, <6>1
          <5>6. v = Data(r)
            BY <5>3, <5>4, <5>5, SameStream
          <5> QED
            BY <4>2, <5>6 DEF Bytes, v
        <4> QED
          BY <4>1, <4>2
      <3>3. ReadChunk(b, data) =
              Outcome(IF count = 0 THEN "handled" ELSE "more", Erase(b, count + 3),
                      data \o SubSeq(m, 3, 2 + count))
        BY <1>8, <1>10, <2>5, <2>6, <2>7, <2>9, <3>1
      <3>4. Holds(Erase(b, Len(x)), rest, y)
        <4>1. Cut(s, x, y)
          BY DEF x
        <4>2. Len(x) <= b.size
          BY <1>1, <3>1 DEF n
        <4> QED
          BY <1>1, <4>1, <4>2, TakeFront
      <3>5. Holds(Erase(b, count + 3), rest, y)
        BY <1>1, <3>4
      <3> QED
        BY <3>1, <3>2, <3>3, <3>5 DEF OneChunk, n
    <2> QED
      BY <2>8, <2>9
  <1> QED
    BY <1>9, <1>10
-----------------------------------------------------------------------------
(* A pending request *)

\* What is still to come of the body of request r when data is what the chunk
\* loop has of it.
Rest(r, data) ==
    IF script[r] = "chunked" /\ data # <<>> THEN Chunk(r, 0) ELSE Body(r, script[r])

\* The stream from there on.
Ahead(r, data) == Rest(r, data) \o Encode(script, r + 1)

\* Only the chunk loop takes a body in two parts.
DataSoFar(r, data) == data # <<>> => script[r] = "chunked" /\ data = Data(r)

\* The kinds of request that may be pending when handle_client returns.
Late == {"length", "short", "fails", "blank", "text", "chunked", "coded", "garbled"}

\* What an attempt p at request r, with the buffer b, comes to.
Tried(p, b, rest, r) ==
    /\ p.out \in {"wait", "handled", "dropped", "refused", "overrun"}
    /\ p.out = "wait" =>
         /\ Holds(p.b, rest, Ahead(r, p.data)) /\ DataSoFar(r, p.data) /\ script[r] \in Late
         /\ script[r] # "chunked" => p.b = b
    /\ p.out \in {"handled", "dropped"} =>
         Holds(p.b, rest, Encode(script, r + 1)) /\ p.data = BodyOf(r)
    /\ p.out = "dropped" => script[r] = "fails"
    /\ p.out = "refused" => script[r] = "getbody"
    /\ p.out = "overrun" => script[r] \in {"chunked", "garbled"}
    /\ p.out = "handled" /\ script[r] = "length" => b.size >= 2 /\ p.b = Erase(b, 2)
    /\ p.out = "handled" /\ script[r] = "short" => b.size >= 1 /\ p.b = Erase(b, 1)
    /\ p.out = "handled" => script[r] \in {"get", "post", "length", "short", "blank", "text", "chunked"}

LEMMA OutcomeFields ==
    ASSUME NEW out, NEW b, NEW data
    PROVE  /\ Outcome(out, b, data).out = out /\ Outcome(out, b, data).b = b
           /\ Outcome(out, b, data).data = data
  BY DEF Outcome

LEMMA AheadStream ==
    ASSUME NEW r \in DOMAIN script, Script(script)
    PROVE  /\ r \in Nat /\ r \in 1..Len(script) /\ script[r] \in AllKinds
           /\ Encode(script, r + 1) \in Stream
           /\ Body(r, script[r]) \in Stream
           /\ script[r] # "chunked" =>
                \A data : Cut(Ahead(r, data), Body(r, script[r]), Encode(script, r + 1))
  <1>1. r \in 1..Len(script) /\ script[r] \in AllKinds /\ Len(script) \in Nat /\ r \in Nat
    BY DEF Script
  <1>2. r + 1 \in 1..Len(script) + 1
    BY <1>1
  <1>3. Encode(script, r + 1) \in Stream /\ Body(r, script[r]) \in Stream
    BY <1>1, <1>2, EncodeFacts, BodyStream
  <1>4. script[r] # "chunked" =>
          \A data : Cut(Ahead(r, data), Body(r, script[r]), Encode(script, r + 1))
    BY DEF Ahead, Rest, Cut
  <1> QED
    BY <1>1, <1>3, <1>4

\* A body with a length.
LEMMA TriedLength ==
    ASSUME NEW r \in DOMAIN script, Script(script), NEW b, NEW rest, NEW n \in 1..4,
           script[r] \in {"length", "short", "fails", "blank", "text"},
           n = Len(Body(r, script[r])), BodyOf(r) = Body(r, script[r]),
           Holds(b, rest, Ahead(r, <<>>))
    PROVE  \/ ReadLength(b, <<>>, n) = Outcome("wait", b, <<>>)
           \/ /\ ReadLength(b, <<>>, n) = Outcome("handled", Erase(b, n), BodyOf(r))
              /\ n <= b.size /\ Holds(Erase(b, n), rest, Encode(script, r + 1))
  <1> DEFINE x == Body(r, script[r])
             y == Encode(script, r + 1)
             s == Ahead(r, <<>>)
  <1>1. x \in Stream /\ y \in Stream /\ Cut(s, x, y)
    BY AheadStream
  <1>2. b.size \in Nat
    BY ReadFront
  <1>3. CASE b.size < n
    BY <1>3 DEF ReadLength
  <1>4. CASE ~(b.size < n)
    <2>1. ReadLength(b, <<>>, n) = Outcome("handled", Erase(b, n), <<>> \o SubSeq(b.mem, 1, n))
      BY <1>4 DEF ReadLength
    <2> HIDE DEF x, y, s
    <2>2. Len(x) <= b.size /\ n <= b.size /\ n = Len(x)
      BY <1>2, <1>4 DEF x
    <2>3. Holds(b, rest, s)
      BY DEF s
    <2>4. Begins(b, x) /\ Holds(Erase(b, Len(x)), rest, y)
      BY <1>1, <2>2, <2>3, TakeFront
    <2>5. SubSeq(b.mem, 1, n) = x /\ Holds(Erase(b, n), rest, y)
      BY <2>2, <2>4 DEF Begins
    <2>6. <<>> \o x = x
      BY <1>1, ConcatEmptySeq DEF Stream
    <2>7. ReadLength(b, <<>>, n) = Outcome("handled", Erase(b, n), BodyOf(r))
      BY <2>1, <2>5, <2>6 DEF x
    <2> QED
      BY <2>2, <2>5, <2>7 DEF y
  <1> QED
    BY <1>3, <1>4

\* What the loop over the chunks of a well-formed body gives, of which need
\* tokens are still to be read.
Chunked(p, b, rest, r, need) ==
    \/ /\ p.out = "wait" /\ Holds(p.b, rest, Ahead(r, p.data)) /\ DataSoFar(r, p.data)
       /\ b.size < need
    \/ p.out = "overrun" /\ b.size < need
    \/ p.out = "handled" /\ Holds(p.b, rest, Encode(script, r + 1)) /\ p.data = Data(r)

LEMMA DataFacts ==
    ASSUME NEW r \in Nat
    PROVE  /\ Data(r) \in Stream /\ Data(r) # <<>>
           /\ <<>> \o Data(r) = Data(r) /\ Data(r) \o <<>> = Data(r)
  <1>1. Data(r) \in Stream /\ Len(Data(r)) = 2
    BY DEF Data, D, Tok, Tokens, Stream
  <1> HIDE DEF Data
  <1>2. <<>> \o Data(r) = Data(r) /\ Data(r) \o <<>> = Data(r)
    BY <1>1, ConcatEmptySeq DEF Stream
  <1> QED
    BY <1>1, <1>2

LEMMA LastChunk ==
    ASSUME NEW r \in DOMAIN script, Script(script), NEW b, NEW rest,
           script[r] = "chunked", Holds(b, rest, Ahead(r, Data(r)))
    PROVE  /\ Chunked(ReadChunk(b, Data(r)), b, rest, r, 3)
           /\ ReadChunk(b, Data(r)).out # "more"
  <1> DEFINE y == Encode(script, r + 1)
             s == Ahead(r, Data(r))
             p == ReadChunk(b, Data(r))
  <1>1. r \in Nat /\ y \in Stream
    BY AheadStream
  <1>2. Data(r) # <<>> /\ Data(r) \o <<>> = Data(r)
    BY <1>1, DataFacts
  <1>3. Cut(s, Chunk(r, 0), y)
    BY <1>2 DEF Cut, Ahead, Rest
  <1>4. Holds(b, rest, s)
    OBVIOUS
  <1> HIDE DEF y, s
  <1>5. OneChunk(p, b, Data(r), rest, r, 0, y)
    BY <1>1, <1>3, <1>4, ReadChunkFacts
  <1> HIDE DEF p
  <1>6. CASE p = Outcome("wait", b, Data(r)) /\ b.size < 3
    BY <1>4, <1>6, OutcomeFields DEF Chunked, DataSoFar, s, p
  <1>7. CASE p = Outcome("overrun", b, Data(r)) /\ b.size < 3
    BY <1>7, OutcomeFields DEF Chunked, p
  <1>8. CASE /\ p = Outcome("handled", Erase(b, 3), Data(r) \o Bytes(r, 0))
             /\ Holds(Erase(b, 3), rest, y)
    <2>1. Data(r) \o Bytes(r, 0) = Data(r)
      BY <1>2 DEF Bytes
    <2>2. p = Outcome("handled", Erase(b, 3), Data(r))
      BY <1>8, <2>1
    <2>3. p.out = "handled" /\ p.b = Erase(b, 3) /\ p.data = Data(r)
      BY <2>2, OutcomeFields
    <2> QED
      BY <1>8, <2>3 DEF Chunked, p, y
  <1>9. 0 + 3 = 3
    OBVIOUS
  <1> QED
    BY <1>5, <1>6, <1>7, <1>8, <1>9 DEF OneChunk

LEMMA TriedChunks ==
    ASSUME NEW r \in DOMAIN script, Script(script), NEW b, NEW rest, NEW data,
           script[r] = "chunked", DataSoFar(r, data), Holds(b, rest, Ahead(r, data))
    PROVE  Chunked(ReadChunks(b, data), b, rest, r, IF data = <<>> THEN 8 ELSE 3)
  <1>1. b.size \in Nat
    BY ReadFront
  <1>2. CASE data # <<>>
    <2>1. data = Data(r)
      BY <1>2 DEF DataSoFar
    <2>2. Chunked(ReadChunk(b, data), b, rest, r, 3) /\ ReadChunk(b, data).out # "more"
      BY <2>1, LastChunk
    <2>3. 1 \in 1..b.size + 1
      BY <1>1
    <2>4. ReadChunks(b, data) = ReadChunk(b, data)
      BY <1>1, <2>2, <2>3, LoopEnds
    <2> QED
      BY <1>2, <2>2, <2>4
  <1>3. CASE data = <<>>
    <2> DEFINE y == Chunk(r, 0) \o Encode(script, r + 1)
               s == Ahead(r, <<>>)
               p == ReadChunk(b, <<>>)
    <2>1. r \in Nat /\ Encode(script, r + 1) \in Stream
      BY AheadStream
    <2>2. Chunk(r, 0) \in Stream /\ Chunk(r, 2) \in Stream
      BY <2>1, ChunkStream
    <2>3. y \in Stream
      BY <2>1, <2>2, ConcatFacts
    <2>4. Data(r) # <<>> /\ <<>> \o Data(r) = Data(r)
      BY <2>1, DataFacts
    <2>5. y = Ahead(r, Data(r))
      BY <1>3, <2>4 DEF Ahead, Rest
    <2>6. Cut(s, Chunk(r, 2), y)
      <3>1. ChunkedData(r) = Chunk(r, 2) \o Chunk(r, 0)
        <4> DEFINE u == ChunkedData(r)
                   v == Chunk(r, 2)
                   w == Chunk(r, 0)
        <4>1. /\ u \in Stream /\ Len(u) = 8 /\ u[1] = C(r, 2) /\ u[2] = NL /\ u[3] = D(r)
              /\ u[4] = D(r) /\ u[5] = NL /\ u[6] = C(r, 0) /\ u[7] = NL /\ u[8] = NL
          BY <2>1 DEF ChunkedData, C, D, NL, Tok, Tokens, Stream
        <4>2. /\ Len(v) = 5 /\ v[1] = C(r, 2) /\ v[2] = NL /\ v[3] = D(r) /\ v[4] = D(r)
              /\ v[5] = NL
          BY DEF Chunk
        <4>3. Len(w) = 3 /\ w[1] = C(r, 0) /\ w[2] = NL /\ w[3] = NL
          BY DEF Chunk
        <4>4. /\ v \o w \in Stream /\ Len(v \o w) = Len(v) + Len(w)
              /\ \A j \in 1..Len(v) : (v \o w)[j] = v[j]
              /\ \A j \in 1..Len(w) : (v \o w)[Len(v) + j] = w[j]
          BY <2>2, ConcatFacts
        <4> DEFINE c == v \o w
        <4>5. c \in Stream /\ c = v \o w
          BY <4>4
        <4> HIDE DEF c, u, v, w
        <4>6. Len(c) = 8
          BY <4>2, <4>3, <4>4, <4>5
        <4>7. c[1] = v[1] /\ c[2] = v[2] /\ c[3] = v[3] /\ c[4] = v[4] /\ c[5] = v[5]
          BY <4>2, <4>4, <4>5
        <4>8. c[6] = w[1] /\ c[7] = w[2] /\ c[8] = w[3]
          <5>1. \A j \in 1..3 : c[5 + j] = w[j]
            BY <4>2, <4>3, <4>4, <4>5
          <5>2. c[5 + 1] = w[1] /\ c[5 + 2] = w[2] /\ c[5 + 3] = w[3]
            BY <5>1
          <5> QED
            BY <5>2
        <4>9. \A j \in 1..8 : u[j] = c[j]
          BY <4>1, <4>2, <4>3, <4>7, <4>8
        <4>10. u = c
          <5>1. u \in Stream /\ c \in Stream /\ Len(u) = Len(c)
            BY <4>1, <4>5, <4>6
          <5>2. \A j \in 1..Len(u) : u[j] = c[j]
            BY <4>1, <4>9
          <5> HIDE DEF Stream
          <5> QED
            BY <5>1, <5>2, SameStream
        <4> QED
          BY <4>5, <4>10 DEF u, v, w
      <3>2. s = ChunkedData(r) \o Encode(script, r + 1)
        BY DEF Ahead, Rest, Body
      <3>3. (Chunk(r, 2) \o Chunk(r, 0)) \o Encode(script, r + 1) = Chunk(r, 2) \o y
        BY <2>1, <2>2, StreamAssociative
      <3> QED
        BY <3>1, <3>2, <3>3 DEF Cut
    <2>7. Holds(b, rest, s)
      BY <1>3
    <2> HIDE DEF y, s
    <2>8. OneChunk(p, b, <<>>, rest, r, 2, y)
      BY <2>1, <2>3, <2>6, <2>7, ReadChunkFacts
    <2> HIDE DEF p
    <2>9. CASE (p = Outcome("wait", b, <<>>) \/ p = Outcome("overrun", b, <<>>)) /\ b.size < 5
      <3>1. p.out \in {"wait", "overrun"} /\ p.out # "more" /\ p.b = b /\ p.data = <<>>
        BY <2>9, OutcomeFields
      <3>2. 1 \in 1..b.size + 1 /\ p = ReadChunk(b, data)
        BY <1>1, <1>3 DEF p
      <3>3. ReadChunks(b, data) = p
        BY <1>1, <3>1, <3>2, LoopEnds
      <3>4. b.size < 8
        BY <1>1, <2>9
      <3>5. Chunked(p, b, rest, r, 8)
        BY <2>7, <3>1, <3>4 DEF Chunked, DataSoFar, s
      <3> QED
        BY <1>3, <3>3, <3>5
    <2>10. CASE /\ p = Outcome("more", Erase(b, 5), <<>> \o Bytes(r, 2))
                /\ 5 <= b.size /\ Holds(Erase(b, 5), rest, y)
      <3>1. <<>> \o Bytes(r, 2) = Data(r)
        BY <2>4 DEF Bytes
      <3>2. p.out = "more" /\ p.b = Erase(b, 5) /\ p.data = Data(r)
        BY <2>10, <3>1, OutcomeFields
      <3> DEFINE q == ReadChunk(p.b, Data(r))
      <3>3. Holds(p.b, rest, Ahead(r, Data(r)))
        BY <2>5, <2>10, <3>2
      <3>4. Chunked(q, p.b, rest, r, 3) /\ q.out # "more"
        BY <3>3, LastChunk
      <3>5. 2 \in 1..b.size + 1 /\ p = ReadChunk(b, data)
        BY <1>1, <1>3, <2>10 DEF p
      <3>6. q = ReadChunk(ReadChunk(b, data).b, ReadChunk(b, data).data)
        BY <3>2, <3>5
      <3> HIDE DEF q
      <3>7. ReadChunks(b, data) = q
        <4>1. ReadChunk(b, data).out = "more"
          BY <3>2, <3>5
        <4> QED
          BY <1>1, <3>4, <3>5, <3>6, <4>1, LoopEnds
      <3>8. p.b.size < 3 => b.size < 8
        <4>1. Vector(b) /\ 5 \in 0..b.size
          BY <1>1, <2>10 DEF Holds
        <4>2. Erase(b, 5).size = b.size - 5
          BY <4>1, EraseFacts
        <4> QED
          BY <1>1, <3>2, <4>2
      <3>9. Chunked(q, b, rest, r, 8)
        BY <3>4, <3>8 DEF Chunked
      <3> QED
        BY <1>3, <3>7, <3>9
    <2>11. 2 + 3 = 5
      OBVIOUS
    <2> QED
      BY <2>8, <2>9, <2>10, <2>11 DEF OneChunk
  <1> QED
    BY <1>2, <1>3
\* A chunk size that is no number.
LEMMA TriedGarbled ==
    ASSUME NEW r \in DOMAIN script, Script(script), NEW b, NEW rest,
           script[r] = "garbled", Holds(b, rest, Ahead(r, <<>>))
    PROVE  \/ ReadChunks(b, <<>>) = Outcome("wait", b, <<>>)
           \/ ReadChunks(b, <<>>) = Outcome("overrun", b, <<>>)
  <1> DEFINE l == Live(b)
             pos == FindLine(l)
             s == Ahead(r, <<>>)
             x == <<D(r), NL>>
             y == Encode(script, r + 1)
             p == ReadChunk(b, <<>>)
  <1>1. r \in Nat /\ y \in Stream /\ Cut(s, Body(r, script[r]), y)
    BY AheadStream
  <1>2. Vector(b)
    BY DEF Holds
  <1>3. /\ l \in Stream /\ Len(l) = b.size /\ b.size \in Nat
        /\ \A j \in 1..b.size : l[j] = b.mem[j]
    BY <1>2, LiveFacts
  <1>4. FirstAt(l, IsLine, pos)
    BY <1>3, FindLineFacts
  <1>5. x \in Stream /\ Len(x) = 2 /\ x[1] = D(r)
    BY <1>1 DEF D, NL, Tok, Tokens, Stream
  <1>6. s = x \o y
    BY <1>1 DEF Body, Cut
  <1>7. Holds(b, rest, s)
    OBVIOUS
  <1> HIDE DEF x, y, s
  <1>8. s[1] = D(r)
    <2>1. \A j \in 1..Len(x) : (x \o y)[j] = x[j]
      BY <1>1, <1>5, ConcatFacts
    <2> QED
      BY <1>5, <1>6, <2>1
  <1>9. b.size >= 1 => b.mem[1].t = "D"
    <2>1. \A j \in 1..b.size : b.mem[j] = s[j]
      BY <1>7, ReadFront
    <2>2. D(r).t = "D"
      BY DEF D, Tok
    <2> QED
      BY <1>3, <1>8, <2>1, <2>2
  <1>10. p = Outcome("wait", b, <<>>) \/ p = Outcome("overrun", b, <<>>)
    <2>1. CASE pos = 0
      BY <2>1 DEF ReadChunk
    <2>2. CASE pos # 0
      <3>1. b.size >= 1
        BY <1>3, <1>4, <2>2 DEF FirstAt
      <3>2. b.mem[1].t # "C"
        BY <1>9, <3>1
      <3> QED
        BY <2>2, <3>2 DEF ReadChunk
    <2> QED
      BY <2>1, <2>2
  <1> HIDE DEF p
  <1>11. p.out # "more"
    BY <1>10, OutcomeFields
  <1>12. 1 \in 1..b.size + 1 /\ p = ReadChunk(b, <<>>)
    BY <1>3 DEF p
  <1>13. ReadChunks(b, <<>>) = p
    BY <1>3, <1>11, <1>12, LoopEnds
  <1> QED
    BY <1>10, <1>13

\* A body with the text of a request.
LEMMA TextShape ==
    ASSUME NEW r \in Nat
    PROVE  LET x == Header(-r) \o <<D(r)>>
           IN  /\ x \in Stream /\ Len(x) = 4 /\ <<D(r)>> \in Stream /\ Header(-r) \in Stream
               /\ Len(Header(-r)) = 3
               /\ x[1] = H(-r) /\ x[2] = NL /\ x[3] = NL /\ x[4] = D(r)
  <1>1. -r \in Int
    OBVIOUS
  <1>2. /\ Header(-r) \in Stream /\ Len(Header(-r)) = 3
        /\ Header(-r)[1] = H(-r) /\ Header(-r)[2] = NL /\ Header(-r)[3] = NL
    BY <1>1, HeaderStream
  <1>3. <<D(r)>> \in Stream /\ Len(<<D(r)>>) = 1 /\ <<D(r)>>[1] = D(r)
    BY DEF D, Tok, Tokens, Stream
  <1> DEFINE h == Header(-r)
             d == <<D(r)>>
  <1> HIDE DEF h, d
  <1>4. /\ h \o d \in Stream /\ Len(h \o d) = 3 + 1
        /\ \A j \in 1..3 : (h \o d)[j] = h[j]
        /\ \A j \in 1..1 : (h \o d)[3 + j] = d[j]
    <2>1. h \in Stream /\ d \in Stream /\ Len(h) = 3 /\ Len(d) = 1
      BY <1>2, <1>3 DEF h, d
    <2>2. /\ h \o d \in Stream /\ Len(h \o d) = Len(h) + Len(d)
          /\ \A j \in 1..Len(h) : (h \o d)[j] = h[j]
          /\ \A j \in 1..Len(d) : (h \o d)[Len(h) + j] = d[j]
      BY <2>1, ConcatFacts
    <2> QED
      BY <2>1, <2>2
  <1> DEFINE x == h \o d
  <1> HIDE DEF x
  <1>5. x \in Stream /\ Len(x) = 4
    BY <1>4 DEF x
  <1>6. x[1] = h[1] /\ x[2] = h[2] /\ x[3] = h[3] /\ x[4] = d[1]
    <2>1. 1 \in 1..3 /\ 2 \in 1..3 /\ 3 \in 1..3 /\ 1 \in 1..1 /\ 3 + 1 = 4
      OBVIOUS
    <2>2. \A j \in 1..3 : x[j] = h[j]
      BY <1>4 DEF x
    <2>3. x[3 + 1] = d[1]
      BY <1>4, <2>1 DEF x
    <2> QED
      BY <2>1, <2>2, <2>3
  <1>7. h[1] = H(-r) /\ h[2] = NL /\ h[3] = NL /\ d[1] = D(r)
    BY <1>2, <1>3 DEF h, d
  <1>8. x[1] = H(-r) /\ x[2] = NL /\ x[3] = NL /\ x[4] = D(r)
    BY <1>6, <1>7, Zenon
  <1> QED
    BY <1>2, <1>3, <1>5, <1>8 DEF x, h, d

\* However much of the body has arrived, handle_pending_request waits in front
\* of what is left of it, or takes exactly the body; unless it leaves the
\* buffer, which only a chunk that is incomplete or none makes it do.
LEMMA PendingTried ==
    ASSUME NEW r \in DOMAIN script, Script(script), NEW b, NEW rest, NEW data,
           DataSoFar(r, data), Holds(b, rest, Ahead(r, data))
    PROVE  Tried(HandlePending(b, r, data), b, rest, r)
  <1> DEFINE p == HandlePending(b, r, data)
             y == Encode(script, r + 1)
  <1>1. r \in Nat /\ script[r] \in AllKinds /\ y \in Stream
    BY AheadStream
  <1> KindOf(r) = script[r]
    <2>1. ~(r < 0)
      BY <1>1
    <2> QED
      BY <2>1 DEF KindOf
  <1>2. script[r] # "chunked" => data = <<>>
    BY DEF DataSoFar
  <1>3. CASE script[r] \in {"get", "post"}
    <2>1. p = Outcome("handled", b, <<>>)
      BY <1>2, <1>3 DEF HandlePending
    <2>2. p.out = "handled" /\ p.b = b /\ p.data = <<>>
      BY <2>1, OutcomeFields
    <2>3. Ahead(r, data) = y
      <3>1. Ahead(r, data) = <<>> \o y
        BY <1>3 DEF Ahead, Rest, Body
      <3> HIDE DEF y
      <3>2. <<>> \o y = y
        BY <1>1, ConcatEmptySeq DEF Stream
      <3> QED
        BY <3>1, <3>2
    <2>4. BodyOf(r) = <<>>
      BY <1>3 DEF BodyOf
    <2> HIDE DEF p
    <2> QED
      BY <1>3, <2>2, <2>3, <2>4 DEF Tried, p
  <1>4. CASE script[r] = "getbody"
    <2>1. p = Outcome("refused", b, data)
      BY <1>4 DEF HandlePending
    <2>2. p.out = "refused"
      BY <2>1, OutcomeFields
    <2> HIDE DEF p
    <2> QED
      BY <1>4, <2>2 DEF Tried, p
  <1>5. CASE script[r] = "coded"
    <2>1. p = Outcome("wait", b, data)
      BY <1>5 DEF HandlePending
    <2>2. p.out = "wait" /\ p.b = b /\ p.data = data
      BY <2>1, OutcomeFields
    <2> HIDE DEF p
    <2> QED
      BY <1>5, <2>2 DEF Tried, Late, p
  <1>6. CASE script[r] \in {"length", "short", "fails", "blank", "text"}
    <2> DEFINE n == IF script[r] = "short" THEN 1
                    ELSE IF script[r] \in {"blank", "text"} THEN 4 ELSE 2
               q == ReadLength(b, <<>>, n)
    <2>1. n \in 1..4 /\ n = Len(Body(r, script[r])) /\ BodyOf(r) = Body(r, script[r])
      <3>1. CASE script[r] = "short"
        BY <3>1 DEF Body, BodyOf
      <3>2. CASE script[r] \in {"length", "fails"}
        BY <3>2 DEF Body, BodyOf, Data
      <3>3. CASE script[r] = "blank"
        BY <3>3 DEF Body, BodyOf
      <3>4. CASE script[r] = "text"
        <4>1. Body(r, script[r]) = Header(-r) \o <<D(r)>> /\ BodyOf(r) = Body(r, script[r])
          BY <3>4 DEF Body, BodyOf
        <4>2. Len(Header(-r) \o <<D(r)>>) = 4
          BY <1>1, TextShape
        <4>3. n = 4
          BY <3>4
        <4> HIDE DEF n
        <4> QED
          BY <4>1, <4>2, <4>3
      <3> QED
        BY <1>6, <3>1, <3>2, <3>3, <3>4
    <2>2. p = IF script[r] = "fails"
              THEN [q EXCEPT !.out = IF @ = "handled" THEN "dropped" ELSE @] ELSE q
      <3>1. CASE script[r] = "length"
        BY <1>2, <3>1 DEF HandlePending
      <3>2. CASE script[r] = "short"
        BY <1>2, <3>2 DEF HandlePending
      <3>3. CASE script[r] = "fails"
        BY <1>2, <3>3 DEF HandlePending
      <3>4. CASE script[r] \in {"blank", "text"}
        BY <1>2, <3>4 DEF HandlePending
      <3> QED
        BY <1>6, <3>1, <3>2, <3>3, <3>4
    <2> HIDE DEF p
    <2>3. Holds(b, rest, Ahead(r, <<>>))
      BY <1>2, <1>6
    <2>4. \/ q = Outcome("wait", b, <<>>)
          \/ /\ q = Outcome("handled", Erase(b, n), BodyOf(r))
             /\ n <= b.size /\ Holds(Erase(b, n), rest, y)
      <3> HIDE DEF n
      <3> QED
        BY <1>6, <2>1, <2>3, TriedLength
    <2> HIDE DEF q
    <2>5. CASE q = Outcome("wait", b, <<>>)
      <3>1. q.out = "wait" /\ q.b = b /\ q.data = <<>>
        BY <2>5, OutcomeFields
      <3>2. p = q
        <4>1. [q EXCEPT !.out = IF @ = "handled" THEN "dropped" ELSE @] = q
          BY <2>5 DEF Outcome
        <4> QED
          BY <2>2, <4>1
      <3> QED
        BY <1>6, <2>3, <3>1, <3>2 DEF Tried, Late, DataSoFar, p
    <2>6. CASE /\ q = Outcome("handled", Erase(b, n), BodyOf(r))
               /\ n <= b.size /\ Holds(Erase(b, n), rest, y)
      <3> DEFINE out == IF script[r] = "fails" THEN "dropped" ELSE "handled"
      <3>1. p = Outcome(out, Erase(b, n), BodyOf(r))
        BY <2>2, <2>6 DEF Outcome
      <3>2. p.out = out /\ p.b = Erase(b, n) /\ p.data = BodyOf(r)
        BY <3>1, OutcomeFields
      <3>3. script[r] = "length" => n = 2
        OBVIOUS
      <3>4. script[r] = "short" => n = 1
        OBVIOUS
      <3>5. b.size \in Nat
        BY ReadFront
      <3> HIDE DEF n
      <3>6. Tried(p, b, rest, r)
        <4>1. Holds(p.b, rest, y)
          BY <2>6, <3>2
        <4>2. script[r] = "length" => b.size >= 2 /\ p.b = Erase(b, 2)
          BY <2>6, <3>2, <3>3, <3>5
        <4>3. script[r] = "short" => b.size >= 1 /\ p.b = Erase(b, 1)
          BY <2>6, <3>2, <3>4, <3>5
        <4> QED
          BY <1>6, <3>2, <4>1, <4>2, <4>3 DEF Tried
      <3> QED
        BY <3>6 DEF p
    <2> QED
      BY <2>4, <2>5, <2>6
  <1>7. CASE script[r] = "chunked"
    <2>1. p = ReadChunks(b, data)
      BY <1>7 DEF HandlePending
    <2>2. Chunked(p, b, rest, r, IF data = <<>> THEN 8 ELSE 3)
      BY <1>7, <2>1, TriedChunks
    <2>3. BodyOf(r) = Data(r)
      BY <1>7 DEF BodyOf
    <2> HIDE DEF p
    <2> QED
      BY <1>7, <2>2, <2>3 DEF Tried, Chunked, Late, p
  <1>8. CASE script[r] = "garbled"
    <2>1. p = ReadChunks(b, <<>>) /\ Holds(b, rest, Ahead(r, <<>>))
      BY <1>2, <1>8 DEF HandlePending
    <2> HIDE DEF p
    <2>2. p = Outcome("wait", b, <<>>) \/ p = Outcome("overrun", b, <<>>)
      BY <1>8, <2>1, TriedGarbled
    <2>3. p.out \in {"wait", "overrun"} /\ p.b = b /\ p.data = <<>>
      BY <2>2, OutcomeFields
    <2> QED
      BY <1>8, <2>1, <2>3 DEF Tried, Late, DataSoFar, p
  <1> QED
    BY <1>1, <1>3, <1>4, <1>5, <1>6, <1>7, <1>8 DEF AllKinds
-----------------------------------------------------------------------------
(* The next header *)

NoHead(x) == \A j \in 1..Len(x) : x[j].t # "H"

LEMMA RestFacts ==
    ASSUME NEW r \in DOMAIN script, Script(script), NEW data
    PROVE  Rest(r, data) \in Stream /\ (script[r] # "text" => NoHead(Rest(r, data)))
  <1>1. r \in Nat /\ script[r] \in AllKinds
    BY AheadStream
  <1>2. /\ <<>> \in Stream /\ Data(r) \in Stream /\ <<D(r)>> \in Stream
        /\ ChunkedData(r) \in Stream /\ <<D(r), NL>> \in Stream /\ Chunk(r, 0) \in Stream
        /\ <<D(r), NL, NL, D(r)>> \in Stream
    BY <1>1 DEF Data, ChunkedData, Chunk, C, D, NL, Tok, Tokens, Stream
  <1>3. D(r).t # "H" /\ NL.t # "H" /\ \A n : C(r, n).t # "H"
    BY DEF D, NL, C, Tok
  <1>4. NoHead(<<>>) /\ NoHead(Data(r)) /\ NoHead(<<D(r)>>) /\ NoHead(<<D(r), NL>>)
    BY <1>3 DEF NoHead, Data
  <1>8. NoHead(<<D(r), NL, NL, D(r)>>)
    BY <1>3 DEF NoHead
  <1>5. NoHead(Chunk(r, 0))
    BY <1>3 DEF NoHead, Chunk
  <1>6. NoHead(ChunkedData(r))
    <2> DEFINE u == ChunkedData(r)
    <2>1. /\ Len(u) = 8 /\ u[1] = C(r, 2) /\ u[2] = NL /\ u[3] = D(r) /\ u[4] = D(r)
          /\ u[5] = NL /\ u[6] = C(r, 0) /\ u[7] = NL /\ u[8] = NL
      BY DEF ChunkedData
    <2> HIDE DEF u
    <2>2. \A j \in 1..8 : u[j].t # "H"
      BY <2>1, <1>3
    <2> QED
      BY <2>1, <2>2 DEF NoHead, u
  <1>7. \/ Rest(r, data) = Chunk(r, 0) \/ Rest(r, data) = <<>> \/ Rest(r, data) = Data(r)
        \/ Rest(r, data) = <<D(r)>> \/ Rest(r, data) = ChunkedData(r)
        \/ Rest(r, data) = <<D(r), NL>> \/ Rest(r, data) = <<D(r), NL, NL, D(r)>>
        \/ script[r] = "text" /\ Rest(r, data) = Header(-r) \o <<D(r)>>
    BY <1>1 DEF Rest, Body, AllKinds
  <1>9. Header(-r) \o <<D(r)>> \in Stream
    BY <1>1, TextShape
  <1> QED
    BY <1>2, <1>4, <1>5, <1>6, <1>7, <1>8, <1>9

\* The next request at the front of its stream.
LEMMA NextRequest ==
    ASSUME NEW r \in 0..Len(script), Script(script), Len(Encode(script, r + 1)) > 0
    PROVE  /\ r + 1 \in DOMAIN script /\ r + 1 \in Nat
           /\ Header(r + 1) \in Stream /\ Ahead(r + 1, <<>>) \in Stream
           /\ Cut(Encode(script, r + 1), Header(r + 1), Ahead(r + 1, <<>>))
           /\ Len(Encode(script, r + 1)) >= 3 /\ Encode(script, r + 1)[1] = H(r + 1)
           /\ Encode(script, r + 1)[2] = NL /\ Encode(script, r + 1)[3] = NL
  <1> DEFINE q == r + 1
             e == Encode(script, q)
             h == Header(q)
             a == Ahead(q, <<>>)
  <1>1. Len(script) \in Nat /\ r \in Nat
    BY DEF Script
  <1>2. q \in 1..Len(script)
    <2>1. Encode(script, Len(script) + 1) = <<>>
      BY EncodeFacts
    <2>2. r # Len(script)
      BY <2>1, <1>1
    <2> QED
      BY <1>1, <2>2
  <1>3. q \in Nat /\ q \in DOMAIN script /\ q + 1 \in 1..Len(script) + 1
    BY <1>1, <1>2 DEF Script
  <1> HIDE DEF q
  <1>4. e = Item(script, q, Encode(script, q + 1)) /\ Encode(script, q + 1) \in Stream
    BY <1>2, <1>3, EncodeFacts
  <1>5. a = Body(q, script[q]) \o Encode(script, q + 1)
    BY DEF Ahead, Rest
  <1>6. a \in Stream /\ Cut(e, h, a)
    BY <1>2, <1>4, <1>5, ItemStream
  <1>7. h \in Stream /\ Len(h) = 3 /\ h[1] = H(q) /\ h[2] = NL /\ h[3] = NL
    BY <1>3, HeaderStream
  <1> HIDE DEF e, h, a
  <1>8. Len(e) >= 3 /\ e[1] = H(q) /\ e[2] = NL /\ e[3] = NL
    <2>1. /\ Len(h \o a) = Len(h) + Len(a) /\ Len(a) \in Nat
          /\ \A j \in 1..Len(h) : (h \o a)[j] = h[j]
      BY <1>6, <1>7, ConcatFacts
    <2>2. e = h \o a
      BY <1>6 DEF Cut
    <2> QED
      BY <1>7, <2>1, <2>2
  <1> QED
    BY <1>3, <1>6, <1>7, <1>8 DEF q, e, h, a

\* The text that begins at token i of the first pos of m is one header.
OneHeader(m, pos, i) ==
    /\ i = FindHead(SubSeq(m, 1, pos)) /\ i # 0
    /\ Parses(SubSeq(SubSeq(m, 1, pos), i, pos))

LEMMA OneHeaderFacts ==
    ASSUME NEW m \in Stream, NEW pos \in 1..Len(m), NEW i, OneHeader(m, pos, i),
           Script(script)
    PROVE  /\ i \in 1..pos /\ pos = i + 2 /\ pos \in Nat
           /\ \A j \in 1..pos : m[j].t = "H" => i <= j
           /\ SubSeq(m, 1, pos)[i] = m[i]
           /\ \E q \in Int : m[i] = H(q)
           /\ m[i + 1] = NL /\ m[i + 2] = NL
  <1> DEFINE c == SubSeq(m, 1, pos)
             v == SubSeq(c, i, pos)
  <1>1. pos \in Nat /\ Len(m) \in Nat /\ pos <= Len(m) /\ pos >= 1
    BY DEF Stream
  <1>2. c \in Stream /\ Len(c) = pos /\ \A j \in 1..pos : c[j] = m[j]
    <2>1. 1 \in 1..Len(m) + 1 /\ pos \in (1 - 1)..Len(m)
      BY <1>1
    <2>2. /\ c \in Stream /\ Len(c) = pos - 1 + 1
          /\ \A j \in 1..pos - 1 + 1 : c[j] = m[1 + j - 1]
      BY <2>1, SubFacts
    <2> HIDE DEF c
    <2> QED
      BY <1>1, <2>2
  <1>3. i = FindHead(c) /\ i # 0 /\ Parses(v)
    BY DEF OneHeader
  <1> HIDE DEF c
  <1>4. FirstAt(c, IsHead, i)
    BY <1>2, <1>3, FindHeadFacts
  <1>5. i \in 1..pos /\ i \in Nat /\ \A j \in 1..pos : m[j].t = "H" => i <= j
    BY <1>1, <1>2, <1>3, <1>4 DEF FirstAt, IsHead
  <1>6. v \in Stream /\ Len(v) = pos - i + 1 /\ \A j \in 1..pos - i + 1 : v[j] = c[i + j - 1]
    <2>1. i \in 1..Len(c) + 1 /\ pos \in (i - 1)..Len(c)
      BY <1>1, <1>2, <1>5
    <2> QED
      BY <1>2, <2>1, SubFacts
  <1> HIDE DEF v
  <1>7. PICK q \in Int : v = Header(q)
    <2>1. PICK k \in DOMAIN script : v = Header(k) \/ v = Header(-k)
      BY <1>3 DEF Parses
    <2>2. k \in Int /\ -k \in Int
      BY DEF Script
    <2> QED
      BY <2>1, <2>2
  <1>8. q \in Int
    OBVIOUS
  <1>9. Len(v) = 3 /\ v[1] = H(q) /\ v[2] = NL /\ v[3] = NL
    BY <1>7, <1>8, HeaderStream
  <1>10. pos = i + 2
    <2>1. pos - i + 1 = 3
      BY <1>6, <1>9
    <2> QED
      BY <2>1, <1>1, <1>5
  <1>11. c[i] = v[1] /\ c[i + 1] = v[2] /\ c[i + 2] = v[3]
    <2>1. \A j \in 1..3 : v[j] = c[i + j - 1]
      BY <1>6, <1>9
    <2>2. i + 1 - 1 = i /\ i + 2 - 1 = i + 1 /\ i + 3 - 1 = i + 2
      BY <1>5
    <2>3. v[1] = c[i + 1 - 1] /\ v[2] = c[i + 2 - 1] /\ v[3] = c[i + 3 - 1]
      BY <2>1
    <2> QED
      BY <2>2, <2>3
  <1>12. i \in 1..pos /\ i + 1 \in 1..pos /\ i + 2 \in 1..pos
    BY <1>1, <1>5, <1>10
  <1>13. c[i] = m[i] /\ m[i] = H(q) /\ m[i + 1] = NL /\ m[i + 2] = NL
    BY <1>2, <1>9, <1>11, <1>12
  <1> QED
    BY <1>1, <1>5, <1>10, <1>13 DEF c

\* A header that lies in the buffer is the first of the stream, and what follows
\* it is what follows there.
LEMMA HeadFound ==
    ASSUME Script(script), NEW b, NEW rest, NEW s, NEW x \in Stream, NoHead(x),
           NEW e \in Stream, Cut(s, x, e), NEW q \in Int, NEW a \in Stream, Cut(e, Header(q), a),
           Holds(b, rest, s), NEW pos \in 1..b.size, NEW i, OneHeader(b.mem, pos, i)
    PROVE  /\ i = Len(x) + 1 /\ pos = Len(x) + 3 /\ SubSeq(b.mem, 1, pos)[i].r = q
           /\ Holds(Erase(b, pos), rest, a)
  <1> DEFINE m == b.mem
             n == b.size
             h == Header(q)
  <1>1. m \in Stream /\ n \in Nat /\ Len(m) \in Nat /\ n <= Len(m) /\ pos \in 1..Len(m)
    BY DEF Holds, Vector, Stream
  <1>2. \A j \in 1..n : m[j] = s[j]
    BY ReadFront
  <1>3. OneHeader(m, pos, i) /\ pos \in 1..n
    OBVIOUS
  <1> HIDE DEF m, n
  <1>4. /\ i \in 1..pos /\ pos = i + 2 /\ \A j \in 1..pos : m[j].t = "H" => i <= j
        /\ SubSeq(m, 1, pos)[i] = m[i] /\ pos \in Nat
        /\ \E k \in Int : m[i] = H(k)
    BY <1>1, <1>3, OneHeaderFacts
  <1>5. h \in Stream /\ Len(h) = 3 /\ h[1] = H(q)
    BY HeaderStream
  <1> HIDE DEF h
  <1>6. /\ s \in Stream /\ Len(s) = Len(x) + Len(e) /\ Len(x) \in Nat /\ Len(e) \in Nat
        /\ \A j \in 1..Len(x) : s[j] = x[j]
        /\ \A j \in 1..Len(e) : s[Len(x) + j] = e[j]
    <2>1. s = x \o e
      BY DEF Cut
    <2> QED
      BY <2>1, ConcatFacts
  <1>7. Len(e) >= 3 /\ e[1] = H(q)
    <2>1. e = h \o a
      BY DEF Cut, h
    <2>2. /\ Len(h \o a) = Len(h) + Len(a) /\ Len(a) \in Nat
          /\ \A j \in 1..Len(h) : (h \o a)[j] = h[j]
      BY <1>5, ConcatFacts
    <2> QED
      BY <1>5, <2>1, <2>2
  <1>8. m[i].t = "H" /\ m[i] = s[i] /\ i \in Nat
    <2>1. \A k : H(k).t = "H"
      BY DEF H, Tok
    <2> QED
      BY <1>1, <1>2, <1>3, <1>4, <2>1
  <1>9. i > Len(x)
    BY <1>4, <1>6, <1>8 DEF NoHead
  <1>10. H(q).t = "H" /\ H(q).r = q
    BY DEF H, Tok
  <1>11. s[Len(x) + 1] = H(q)
    BY <1>6, <1>7
  <1>12. i = Len(x) + 1
    <2>1. Len(x) + 1 \in 1..pos /\ Len(x) + 1 \in 1..n
      BY <1>1, <1>3, <1>4, <1>6, <1>9
    <2>2. m[Len(x) + 1].t = "H"
      BY <1>2, <1>10, <1>11, <2>1
    <2>3. i <= Len(x) + 1
      BY <1>4, <2>1, <2>2
    <2> QED
      BY <1>4, <1>6, <1>9, <2>3
  <1>13. SubSeq(m, 1, pos)[i].r = q
    BY <1>4, <1>8, <1>10, <1>11, <1>12
  <1> DEFINE w == x \o h
  <1>14. Cut(s, w, a) /\ w \in Stream /\ Len(w) = pos
    <2>1. w \in Stream /\ Len(w) = Len(x) + Len(h)
      BY <1>5, ConcatFacts
    <2>2. w \o a = x \o (h \o a)
      BY <1>5, StreamAssociative
    <2>3. s = x \o (h \o a)
      BY DEF Cut, h
    <2>4. Len(w) = pos
      BY <1>4, <1>5, <1>6, <1>12, <2>1
    <2> HIDE DEF w
    <2> QED
      BY <2>1, <2>2, <2>3, <2>4 DEF Cut
  <1> HIDE DEF w
  <1>15. Len(w) <= b.size
    BY <1>1, <1>3, <1>14 DEF n
  <1>16. Holds(Erase(b, Len(w)), rest, a)
    BY <1>14, <1>15, TakeFront
  <1>17. pos = Len(x) + 3
    BY <1>4, <1>6, <1>12
  <1> QED
    BY <1>12, <1>13, <1>14, <1>16, <1>17 DEF m

\* A header that lies in the buffer is the one after the request r whose
\* remaining body x precedes it, and its body is what follows.
LEMMA HeaderFound ==
    ASSUME NEW r \in 0..Len(script), Script(script), NEW b, NEW rest, NEW s,
           NEW x \in Stream, NoHead(x), Cut(s, x, Encode(script, r + 1)),
           Holds(b, rest, s), NEW pos \in 1..b.size, NEW i, OneHeader(b.mem, pos, i)
    PROVE  /\ r + 1 \in DOMAIN script /\ SubSeq(b.mem, 1, pos)[i].r = r + 1
           /\ pos = Len(x) + 3
           /\ Holds(Erase(b, pos), rest, Ahead(r + 1, <<>>))
  <1> DEFINE m == b.mem
             n == b.size
             e == Encode(script, r + 1)
  <1>1. m \in Stream /\ n \in Nat /\ Len(m) \in Nat /\ n <= Len(m) /\ pos \in 1..Len(m)
    BY DEF Holds, Vector, Stream
  <1>2. \A j \in 1..n : m[j] = s[j]
    BY ReadFront
  <1>3. OneHeader(m, pos, i) /\ pos \in 1..n
    OBVIOUS
  <1>4. e \in Stream
    <2>1. r + 1 \in 1..Len(script) + 1
      BY DEF Script
    <2> QED
      BY <2>1, EncodeFacts
  <1> HIDE DEF m, n
  <1>5. /\ i \in 1..pos /\ pos = i + 2 /\ pos \in Nat
        /\ \E k \in Int : m[i] = H(k)
    BY <1>1, <1>3, OneHeaderFacts
  <1> HIDE DEF e
  <1>6. /\ Len(s) = Len(x) + Len(e) /\ Len(x) \in Nat /\ Len(e) \in Nat
        /\ \A j \in 1..Len(x) : s[j] = x[j]
    <2>1. s = x \o e
      BY DEF Cut, e
    <2> QED
      BY <1>4, <2>1, ConcatFacts
  <1>7. Len(s) >= n
    <2>1. Len(s) = b.size + Len(rest) /\ Len(rest) \in Nat
      BY ReadFront
    <2> QED
      BY <1>1, <2>1 DEF n
  <1>8. m[i].t = "H" /\ m[i] = s[i] /\ i \in Nat
    <2>1. \A k : H(k).t = "H"
      BY DEF H, Tok
    <2> QED
      BY <1>1, <1>2, <1>3, <1>5, <2>1
  <1>9. i > Len(x)
    BY <1>5, <1>6, <1>8 DEF NoHead
  <1>10. Len(e) > 0
    BY <1>1, <1>3, <1>5, <1>6, <1>7, <1>9
  <1>11. /\ r + 1 \in DOMAIN script /\ r + 1 \in Int /\ Ahead(r + 1, <<>>) \in Stream
         /\ Cut(e, Header(r + 1), Ahead(r + 1, <<>>))
    BY <1>10, NextRequest DEF e
  <1>12. Cut(s, x, e)
    BY DEF e
  <1> DEFINE a == Ahead(r + 1, <<>>)
             q == r + 1
  <1>13. a \in Stream /\ q \in Int /\ Cut(e, Header(q), a)
    BY <1>11
  <1> HIDE DEF a, q
  <1>14. /\ pos = Len(x) + 3 /\ SubSeq(b.mem, 1, pos)[i].r = q
         /\ Holds(Erase(b, pos), rest, a)
    BY <1>4, <1>12, <1>13, HeadFound
  <1> QED
    BY <1>11, <1>14 DEF a, q

\* The text in the body of the pending request k, in front of the rest of it.
LEMMA TextFound ==
    ASSUME NEW k \in DOMAIN script, Script(script), script[k] = "text", NEW b, NEW rest,
           Holds(b, rest, Ahead(k, <<>>)), NEW pos \in 1..b.size, NEW i,
           OneHeader(b.mem, pos, i)
    PROVE  /\ SubSeq(b.mem, 1, pos)[i].r = -k
           /\ Holds(Erase(b, pos), rest, <<D(k)>> \o Encode(script, k + 1))
  <1> DEFINE e == Ahead(k, <<>>)
             d == <<D(k)>>
             y == Encode(script, k + 1)
             h == Header(-k)
             a == d \o y
  <1>1. k \in Nat /\ y \in Stream /\ -k \in Int /\ <<>> \in Stream
    BY AheadStream DEF Stream
  <1>2. h \in Stream /\ d \in Stream /\ h \o d \in Stream
    BY <1>1, TextShape
  <1>3. e = (h \o d) \o y
    BY DEF Ahead, Rest, Body
  <1> HIDE DEF h, d, y, e
  <1>4. a \in Stream /\ (h \o d) \o y = h \o a
    <2>1. a \in Stream
      BY <1>1, <1>2, ConcatFacts
    <2>2. (h \o d) \o y = h \o (d \o y)
      <3>1. h \in Stream /\ d \in Stream /\ y \in Stream
        BY <1>1, <1>2
      <3>2. \A p, q, r \in Stream : (p \o q) \o r = p \o (q \o r)
        BY StreamAssociative, Zenon
      <3> QED
        BY <3>1, <3>2, Zenon
    <2> QED
      BY <2>1, <2>2
  <1> HIDE DEF a
  <1>5. e = h \o a /\ e \in Stream
    <2>1. h \o a \in Stream
      BY <1>2, <1>4, ConcatFacts
    <2> QED
      BY <2>1, <1>3, <1>4
  <1>6. Cut(e, <<>>, e) /\ NoHead(<<>>)
    <2>1. <<>> \o e = e
      BY <1>5, ConcatEmptySeq DEF Stream
    <2> QED
      BY <2>1 DEF Cut, NoHead
  <1>7. Cut(e, Header(-k), a) /\ Holds(b, rest, e)
    BY <1>5 DEF Cut, h, e
  <1>8. /\ SubSeq(b.mem, 1, pos)[i].r = -k
        /\ Holds(Erase(b, pos), rest, a)
    BY <1>1, <1>4, <1>5, <1>6, <1>7, HeadFound
  <1> QED
    BY <1>8 DEF a, d, y

\* When a body of n tokens has been erased from a vector of the tokens m and
\* the view behind its new end still shows a header there, the body has one
\* token and the header is cut inside its empty line.
LEMMA StaleHeader ==
    ASSUME NEW r \in 0..Len(script), Script(script), NEW m \in Stream, NEW n \in 1..2,
           n <= Len(m), \A j \in 1..n : m[j].t = "D", NEW rest,
           Holds(Erase(Vec(m), n), rest, Encode(script, r + 1)),
           NEW pos \in 1..Len(Erase(Vec(m), n).mem), pos > Erase(Vec(m), n).size,
           NEW i, OneHeader(Erase(Vec(m), n).mem, pos, i)
    PROVE  n = 1 /\ m[Len(m)] = NL /\ Len(rest) >= 1 /\ rest[1] = NL
  <1> DEFINE e == Erase(Vec(m), n)
             v == e.mem
             k == e.size
             s == Encode(script, r + 1)
             L == Len(m)
  <1>1. L \in Nat /\ n \in Nat /\ n >= 1 /\ n <= 2 /\ n <= L
    BY DEF Stream
  <1>2. Vector(Vec(m)) /\ Vec(m).mem = m /\ Vec(m).size = L
    BY VecFacts
  <1>3. /\ Vector(e) /\ k = L - n /\ Len(v) = L
        /\ \A j \in 1..L - n : v[j] = m[n + j]
        /\ \A j \in L - n + 1..L : v[j] = m[j]
    <2> DEFINE b == Vec(m)
    <2>1. Vector(b) /\ b.mem = m /\ b.size = L /\ n \in 0..b.size
      BY <1>1, <1>2
    <2> HIDE DEF b, L
    <2>2. /\ Vector(Erase(b, n)) /\ Erase(b, n).size = b.size - n
          /\ Len(Erase(b, n).mem) = Len(b.mem)
          /\ \A j \in 1..b.size - n : Erase(b, n).mem[j] = b.mem[n + j]
          /\ \A j \in b.size - n + 1..Len(b.mem) : Erase(b, n).mem[j] = b.mem[j]
      BY <2>1, EraseFacts
    <2> QED
      BY <2>1, <2>2 DEF b, L
  <1>4. v \in Stream /\ pos \in 1..Len(v) /\ pos > k /\ OneHeader(v, pos, i)
    BY <1>3 DEF Vector
  <1>5. /\ \A j \in 1..k : v[j] = s[j]
        /\ Len(s) = k + Len(rest) /\ Len(rest) \in Nat
        /\ \A j \in 1..Len(rest) : rest[j] = s[k + j]
    BY ReadFront
  <1>6. \A j \in 1..n : m[j].t = "D"
    OBVIOUS
  <1>7. Len(s) > 0 => /\ s[1] = H(r + 1) /\ s[3] = NL /\ Len(s) >= 3
    BY NextRequest
  <1>8. NL.t # "D" /\ NL.t # "H" /\ \A q : H(q).t = "H"
    BY DEF NL, H, Tok
  <1> HIDE DEF e, v, k, s, L
  <1>9. /\ i \in 1..pos /\ pos = i + 2 /\ \A j \in 1..pos : v[j].t = "H" => i <= j
        /\ \E q \in Int : v[i] = H(q)
        /\ v[i + 1] = NL /\ v[i + 2] = NL
    <2>1. v \in Stream /\ pos \in 1..Len(v) /\ OneHeader(v, pos, i)
      BY <1>4
    <2>2. /\ i \in 1..pos /\ pos = i + 2 /\ pos \in Nat
          /\ \A j \in 1..pos : v[j].t = "H" => i <= j
          /\ SubSeq(v, 1, pos)[i] = v[i]
          /\ \E q \in Int : v[i] = H(q)
          /\ v[i + 1] = NL /\ v[i + 2] = NL
      BY <2>1, OneHeaderFacts
    <2> QED
      BY <2>2
  <1>10. v[i].t = "H" /\ pos \in Nat /\ i \in Nat
    BY <1>4, <1>8, <1>9
  <1>11. k \in Nat /\ k = L - n
    BY <1>1, <1>3
  <1>12. k # 0
    <2>1. SUFFICES ASSUME k = 0 PROVE FALSE
      OBVIOUS
    <2>2. i \in 1..n /\ i \in L - n + 1..L
      BY <2>1, <1>1, <1>3, <1>4, <1>9, <1>11
    <2> QED
      BY <2>2, <1>3, <1>6, <1>10
  <1>13. /\ i = 1 /\ pos = 3 /\ Len(s) > 0
    <2>1. Len(s) > 0 /\ 1 \in 1..k
      BY <1>5, <1>11, <1>12
    <2>2. v[1].t = "H"
      BY <2>1, <1>5, <1>7, <1>8
    <2>3. i <= 1
      BY <2>2, <1>9, <1>10
    <2> QED
      BY <2>1, <2>3, <1>9, <1>10
  <1>14. k \in {1, 2} /\ L = k + n /\ L >= 3 /\ v[2] = NL /\ v[3] = NL
    BY <1>1, <1>3, <1>4, <1>9, <1>11, <1>12, <1>13
  <1>15. k # 1
    <2>1. SUFFICES ASSUME k = 1 PROVE FALSE
      OBVIOUS
    <2>2. n = 2 /\ L = 3 /\ 2 \in 1..n /\ 2 \in L - n + 1..L
      BY <2>1, <1>1, <1>14
    <2>3. v[2] = m[2] /\ m[2].t = "D"
      BY <2>2, <1>3, <1>6
    <2> QED
      BY <2>3, <1>8, <1>14
  <1>16. n # 2
    <2>1. SUFFICES ASSUME n = 2 PROVE FALSE
      OBVIOUS
    <2>2. k = 2 /\ L = 4 /\ 3 \in L - n + 1..L /\ 1 \in 1..L - n /\ n + 1 = 3
      BY <2>1, <1>14, <1>15
    <2>3. v[3] = m[3] /\ v[1] = m[3]
      BY <2>2, <1>3
    <2> QED
      BY <2>3, <1>8, <1>10, <1>13, <1>14
  <1>17. n = 1 /\ k = 2 /\ L = 3
    BY <1>1, <1>14, <1>15, <1>16
  <1>18. m[L] = NL
    <2>1. 3 \in L - n + 1..L
      BY <1>17
    <2> QED
      BY <2>1, <1>3, <1>14, <1>17
  <1>19. Len(rest) >= 1 /\ rest[1] = NL
    <2>1. Len(s) >= 3 /\ s[3] = NL
      BY <1>7, <1>13
    <2>2. Len(rest) >= 1 /\ 1 \in 1..Len(rest)
      BY <2>1, <1>5, <1>17
    <2>3. rest[1] = s[2 + 1]
      BY <2>2, <1>5, <1>17
    <2> QED
      BY <2>1, <2>2, <2>3
  <1> QED
    BY <1>17, <1>18, <1>19 DEF L

-----------------------------------------------------------------------------
(* The invariant *)

\* A request of the script, or the text in the body of one.
IsRequest(k) ==
    k \in Int /\ (k \in DOMAIN script \/ (-k \in DOMAIN script /\ script[-k] = "text"))

\* The stream behind the header and the body of request k: when k is a text, the
\* rest of the body it stands in comes first.
Before(k) == IF k < 0 THEN <<D(-k)>> ELSE <<>>
After(k) == Before(k) \o Encode(script, Place(k) + 1)

\* The requests in h have been handled, each with its body and in order, and
\* the r-th request of the script is the last that may be among them.
Past(h, r) ==
    /\ h \in Seq([r : Int, data : Stream])
    /\ \A i \in DOMAIN h : /\ IsRequest(h[i].r) /\ Place(h[i].r) <= r
                           /\ h[i].data = BodyOf(h[i].r)
    /\ \A i, j \in DOMAIN h : i < j => Place(h[i].r) < Place(h[j].r)

Causes ==
    \/ Range(script) \cap {"chunked", "garbled", "fails"} # {}
    \/ Range(script) \cap {"blank", "text"} # {}
    \/ "short" \in Range(script) /\ cuts = "anywhere"

\* What a connection that is open has in its buffer and before it: the rest of
\* the body of the pending request, if there is one, and the requests after the
\* last header it took.
Follows(cl, nt, hd) ==
    IF cl.pending
    THEN /\ cl.request \in DOMAIN script /\ script[cl.request] \in Late
         /\ DataSoFar(cl.request, cl.data)
         /\ Holds(Vec(cl.buffer), nt, Ahead(cl.request, cl.data))
         /\ Past(hd, cl.request - 1)
    ELSE /\ Holds(Vec(cl.buffer), nt, After(cl.request))
         /\ Past(hd, Place(cl.request))

ClientOK(cl) ==
    /\ cl = [buffer |-> cl.buffer, find_last_pos |-> cl.find_last_pos,
             pending |-> cl.pending, request |-> cl.request, data |-> cl.data]
    /\ cl.buffer \in Stream /\ cl.find_last_pos \in 0..Len(cl.buffer)
    /\ cl.pending \in BOOLEAN /\ (cl.request = 0 \/ IsRequest(cl.request))

Sound(cl, nt, cn, hd) ==
    /\ ClientOK(cl) /\ nt \in Stream
    /\ cn \in {"open", "closed", "undefined"}
    /\ Past(hd, Len(script))
    /\ cn = "undefined" => Causes
    /\ cn = "open" => Follows(cl, nt, hd)

Sent == script \in Seq(Kinds) /\ cuts \in Cuts

HttpInv == Sent /\ Sound(client, net, conn, handled)

LEMMA SentScript ==
    ASSUME Sent
    PROVE  Script(script) /\ Len(script) \in Nat /\ DOMAIN script = 1..Len(script)
  BY HttpConstants DEF Sent, Script

\* Where a request or a text stands, and what follows it.
LEMMA RequestFacts ==
    ASSUME Script(script), NEW k, k = 0 \/ IsRequest(k)
    PROVE  /\ k \in Int /\ Place(k) \in Nat /\ Place(k) \in 0..Len(script)
           /\ IsRequest(k) => Place(k) \in DOMAIN script /\ Place(k) >= 1
           /\ k >= 0 => Place(k) = k /\ (IsRequest(k) => k \in DOMAIN script)
           /\ k < 0 => Place(k) = -k /\ script[-k] = "text"
           /\ Encode(script, Place(k) + 1) \in Stream
           /\ Before(k) \in Stream /\ NoHead(Before(k)) /\ After(k) \in Stream
           /\ Cut(After(k), Before(k), Encode(script, Place(k) + 1))
           /\ BodyOf(k) \in Stream
  <1>1. DOMAIN script = 1..Len(script) /\ Len(script) \in Nat
    BY DEF Script
  <1>2. k \in Int /\ \/ k = 0
                     \/ k \in 1..Len(script)
                     \/ k < 0 /\ -k \in 1..Len(script) /\ script[-k] = "text"
    BY <1>1 DEF IsRequest
  <1>3. /\ Place(k) \in Nat /\ Place(k) \in 0..Len(script)
        /\ IsRequest(k) => Place(k) \in DOMAIN script /\ Place(k) >= 1
        /\ k >= 0 => Place(k) = k /\ (IsRequest(k) => k \in DOMAIN script)
        /\ k < 0 => Place(k) = -k /\ script[-k] = "text"
    BY <1>1, <1>2 DEF Place, IsRequest
  <1>4. Encode(script, Place(k) + 1) \in Stream
    <2>1. Place(k) + 1 \in 1..Len(script) + 1
      BY <1>1, <1>3
    <2> QED
      BY <2>1, EncodeFacts
  <1>5. Before(k) \in Stream /\ NoHead(Before(k))
    <2>1. CASE k < 0
      <3>1. Before(k) = <<D(-k)>> /\ -k \in Nat
        BY <1>2, <2>1 DEF Before
      <3>2. <<D(-k)>> \in Stream /\ <<D(-k)>>[1].t = "D" /\ Len(<<D(-k)>>) = 1
        BY <3>1 DEF D, Tok, Tokens, Stream
      <3>3. NoHead(<<D(-k)>>)
        BY <3>2 DEF NoHead
      <3> QED
        BY <3>1, <3>2, <3>3
    <2>2. CASE ~(k < 0)
      <3>1. Before(k) = <<>> /\ <<>> \in Stream /\ NoHead(<<>>)
        BY <2>2 DEF Before, NoHead, Stream
      <3> QED
        BY <3>1
    <2> QED
      BY <2>1, <2>2
  <1>6. After(k) \in Stream /\ Cut(After(k), Before(k), Encode(script, Place(k) + 1))
    BY <1>4, <1>5, ConcatFacts DEF After, Cut
  <1>7. BodyOf(k) \in Stream
    <2>1. <<>> \in Stream
      BY DEF Stream
    <2>2. CASE k < 0
      <3>1. KindOf(k) = "get"
        BY <2>2 DEF KindOf
      <3>2. BodyOf(k) = <<>>
        BY <3>1 DEF BodyOf
      <3> QED
        BY <2>1, <3>2
    <2>3. CASE ~(k < 0)
      <3>1. k \in Nat /\ KindOf(k) = script[k]
        BY <1>2, <2>3 DEF KindOf
      <3>2. Data(k) \in Stream
        BY <3>1 DEF Data, D, Tok, Tokens, Stream
      <3>3. \A kind \in {"short", "blank", "text"} : Body(k, kind) \in Stream
        BY <3>1, BodyStream DEF AllKinds
      <3> QED
        BY <2>1, <3>1, <3>2, <3>3 DEF BodyOf
    <2> QED
      BY <2>2, <2>3
  <1> QED
    BY <1>2, <1>3, <1>4, <1>5, <1>6, <1>7

LEMMA PastMonotone ==
    ASSUME NEW h, NEW r \in Nat, NEW q \in Nat, Past(h, r), r <= q, Script(script)
    PROVE  Past(h, q)
  <1>1. \A i \in DOMAIN h : IsRequest(h[i].r) /\ Place(h[i].r) <= r
    BY DEF Past
  <1>2. \A i \in DOMAIN h : Place(h[i].r) \in Nat
    BY <1>1, RequestFacts
  <1>3. \A i \in DOMAIN h : Place(h[i].r) <= q
    BY <1>1, <1>2
  <1> QED
    BY <1>3 DEF Past

LEMMA PastAppend ==
    ASSUME NEW h, NEW r, IsRequest(r), Past(h, Place(r) - 1), Script(script)
    PROVE  Past(Append(h, [r |-> r, data |-> BodyOf(r)]), Place(r))
  <1> DEFINE e == [r |-> r, data |-> BodyOf(r)]
             g == Append(h, e)
             S == [r : Int, data : Stream]
  <1>1. r \in Int /\ Place(r) \in Nat /\ Place(r) >= 1 /\ BodyOf(r) \in Stream
    BY RequestFacts
  <1>3. e \in S /\ e.r = r /\ e.data = BodyOf(r)
    BY <1>1
  <1>4. h \in Seq(S) /\ Len(h) \in Nat /\ DOMAIN h = 1..Len(h)
    BY DEF Past
  <1>5. \A i \in DOMAIN h : /\ IsRequest(h[i].r) /\ h[i].data = BodyOf(h[i].r)
                            /\ Place(h[i].r) \in Nat /\ Place(h[i].r) <= Place(r) - 1
    <2>1. \A i \in DOMAIN h : IsRequest(h[i].r) /\ h[i].data = BodyOf(h[i].r) /\ Place(h[i].r) <= Place(r) - 1
      BY DEF Past
    <2> QED
      BY <2>1, RequestFacts
  <1> HIDE DEF e, S
  <1>6. /\ g \in Seq(S) /\ DOMAIN g = 1..Len(h) + 1 /\ g[Len(h) + 1] = e
        /\ \A i \in DOMAIN h : g[i] = h[i]
    BY <1>3, <1>4
  <1> HIDE DEF g
  <1>7. ASSUME NEW i \in DOMAIN g
        PROVE  IsRequest(g[i].r) /\ Place(g[i].r) <= Place(r) /\ g[i].data = BodyOf(g[i].r)
    <2>1. i \in DOMAIN h \/ i = Len(h) + 1
      BY <1>4, <1>6
    <2>2. CASE i \in DOMAIN h
      <3>1. g[i] = h[i] /\ IsRequest(h[i].r) /\ h[i].data = BodyOf(h[i].r)
        BY <2>2, <1>5, <1>6
      <3>2. Place(h[i].r) <= Place(r)
        BY <2>2, <1>1, <1>5
      <3> QED
        BY <3>1, <3>2
    <2>3. CASE i = Len(h) + 1
      BY <2>3, <1>1, <1>3, <1>6
    <2> QED
      BY <2>1, <2>2, <2>3
  <1>8. ASSUME NEW i \in DOMAIN g, NEW j \in DOMAIN g, i < j
        PROVE  Place(g[i].r) < Place(g[j].r)
    <2>1. i \in DOMAIN h /\ (j \in DOMAIN h \/ j = Len(h) + 1)
      BY <1>4, <1>6, <1>8
    <2>2. CASE j \in DOMAIN h
      BY <2>1, <2>2, <1>6, <1>8 DEF Past
    <2>3. CASE j = Len(h) + 1
      <3>1. g[i] = h[i] /\ g[j].r = r /\ Place(h[i].r) \in Nat /\ Place(h[i].r) <= Place(r) - 1
        BY <2>1, <2>3, <1>3, <1>5, <1>6
      <3> QED
        BY <3>1, <1>1
    <2> QED
      BY <2>1, <2>2, <2>3
  <1> QED
    BY <1>6, <1>7, <1>8 DEF Past, g, e, S

\* What handle_client keeps of a connection that stays open.
LEMMA KeptSound ==
    ASSUME Sent, NEW b, NEW flp \in 0..b.size, NEW pending \in BOOLEAN, NEW data,
           NEW r, r = 0 \/ IsRequest(r), NEW rest, NEW hd,
           IF pending
           THEN /\ r \in DOMAIN script /\ script[r] \in Late /\ DataSoFar(r, data)
                /\ Holds(b, rest, Ahead(r, data)) /\ Past(hd, r - 1)
           ELSE Holds(b, rest, After(r)) /\ Past(hd, Place(r))
    PROVE  Sound(Kept(b, flp, pending, r, data), rest, "open", hd)
  <1> DEFINE cl == Kept(b, flp, pending, r, data)
             l == Live(b)
  <1>1. Script(script) /\ Len(script) \in Nat /\ DOMAIN script = 1..Len(script)
    BY SentScript
  <1>2. Vector(b) /\ rest \in Stream
    BY DEF Holds
  <1>3. l \in Stream /\ Len(l) = b.size
    BY <1>2, LiveFacts
  <1>4. cl = [buffer |-> l, find_last_pos |-> flp, pending |-> pending,
              request |-> r, data |-> data]
    BY DEF Kept
  <1>5. ASSUME NEW s, Holds(b, rest, s) PROVE Holds(Vec(l), rest, s)
    <2>1. Vector(Vec(l)) /\ Live(Vec(l)) = l
      BY <1>3, VecFacts
    <2>2. s \in Stream /\ l \o rest = s
      BY <1>5 DEF Holds
    <2> HIDE DEF l
    <2> QED
      BY <1>2, <2>1, <2>2 DEF Holds
  <1> HIDE DEF cl, l
  <1>6. /\ cl.buffer = l /\ cl.find_last_pos = flp /\ cl.pending = pending
        /\ cl.request = r /\ cl.data = data
    BY <1>4
  <1>7. ClientOK(cl)
    BY <1>3, <1>4, <1>6 DEF ClientOK
  <1>8. Follows(cl, rest, hd)
    <2>1. CASE pending
      <3>1. Holds(Vec(l), rest, Ahead(r, data))
        BY <1>5, <2>1
      <3> QED
        BY <1>6, <2>1, <3>1 DEF Follows
    <2>2. CASE ~pending
      <3>1. Holds(Vec(l), rest, After(r))
        BY <1>5, <2>2
      <3> QED
        BY <1>6, <2>2, <3>1 DEF Follows
    <2> QED
      BY <2>1, <2>2
  <1>9. Past(hd, Len(script))
    <2>1. CASE pending
      <3>1. r - 1 \in Nat /\ r - 1 <= Len(script)
        BY <1>1, <2>1
      <3> QED
        BY <1>1, <2>1, <3>1, PastMonotone
    <2>2. CASE ~pending
      <3>1. Place(r) \in Nat /\ Place(r) <= Len(script)
        BY <1>1, RequestFacts
      <3> QED
        BY <1>1, <2>2, <3>1, PastMonotone
    <2> QED
      BY <2>1, <2>2
  <1> QED
    BY <1>2, <1>7, <1>8, <1>9 DEF Sound, cl

\* A connection that is cleaned up.
LEMMA GoneSound ==
    ASSUME Sent, ClientOK(client), NEW how \in {"closed", "undefined"}, Gone(how),
           NEW rest \in Stream, NEW hd, Past(hd, Len(script)), how = "undefined" => Causes
    PROVE  Sound(client', rest, conn', hd)
  <1>1. /\ client = [buffer |-> client.buffer, find_last_pos |-> client.find_last_pos,
                     pending |-> client.pending, request |-> client.request,
                     data |-> client.data]
        /\ client.request = 0 \/ IsRequest(client.request)
    BY DEF ClientOK
  <1>2. /\ client' = [client EXCEPT !.buffer = <<>>, !.find_last_pos = 0, !.pending = FALSE]
        /\ conn' = how
    BY DEF Gone
  <1>3. client' = [buffer |-> <<>>, find_last_pos |-> 0, pending |-> FALSE,
                   request |-> client.request, data |-> client.data]
    BY <1>1, <1>2
  <1>4. /\ client'.buffer = <<>> /\ client'.find_last_pos = 0 /\ client'.pending = FALSE
        /\ client'.request = client.request /\ client'.data = client.data
    BY <1>3
  <1>5. <<>> \in Stream /\ Len(<<>>) = 0
    BY DEF Stream
  <1>6. ClientOK(client')
    BY <1>1, <1>3, <1>4, <1>5 DEF ClientOK
  <1> QED
    BY <1>2, <1>6 DEF Sound

\* Where handle_client stands when the pending request has been tried: p is the
\* outcome, done what has been handled.
Ready(p, rest, done) ==
    /\ p.out \in {"none", "wait", "handled"}
    /\ p.out = "wait" =>
         /\ client.request \in DOMAIN script /\ script[client.request] \in Late
         /\ DataSoFar(client.request, p.data)
         /\ Holds(p.b, rest, Ahead(client.request, p.data))
         /\ Past(done, client.request - 1)
    /\ p.out # "wait" =>
         Holds(p.b, rest, After(client.request)) /\ Past(done, Place(client.request))

\* A header behind the end of the buffer has a cause, and so has a line break
\* where the buffer holds no header.
StaleCaused(m, size) ==
    /\ \A pos \in 1..Len(m), i \in Nat : pos > size /\ OneHeader(m, pos, i) => Causes
    /\ NoHead(m) => Causes \/ \A j \in 1..Len(m) : m[j] # NL

LEMMA ReadyFacts ==
    ASSUME Sent, ClientOK(client), NEW p, NEW rest, NEW done, Ready(p, rest, done)
    PROVE  /\ Vector(p.b) /\ rest \in Stream /\ Past(done, Len(script))
           /\ client.request = 0 \/ IsRequest(client.request)
           /\ client.find_last_pos \in Nat
  <1>1. Script(script) /\ Len(script) \in Nat /\ DOMAIN script = 1..Len(script)
    BY SentScript
  <1>2. /\ client.request = 0 \/ IsRequest(client.request)
        /\ client.find_last_pos \in Nat
    BY <1>1 DEF ClientOK
  <1>3. Vector(p.b) /\ rest \in Stream
    BY DEF Ready, Holds
  <1>4. Past(done, Len(script))
    <2>1. CASE p.out = "wait"
      <3>1. /\ client.request - 1 \in Nat /\ client.request - 1 <= Len(script)
            /\ Past(done, client.request - 1)
        BY <1>1, <2>1 DEF Ready
      <3> QED
        BY <1>1, <3>1, PastMonotone
    <2>2. CASE p.out # "wait"
      <3>1. /\ Place(client.request) \in Nat /\ Place(client.request) <= Len(script)
            /\ Past(done, Place(client.request))
        BY <1>1, <1>2, <2>2, RequestFacts DEF Ready
      <3> QED
        BY <1>1, <3>1, PastMonotone
    <2> QED
      BY <2>1, <2>2
  <1> QED
    BY <1>2, <1>3, <1>4

LEMMA NoHeaderSound ==
    ASSUME Sent, ClientOK(client), conn = "open", NEW p, NEW done, Ready(p, net', done),
           NoHeader(p, done)
    PROVE  Sound(client', net', conn', handled')
  <1>1. /\ client' = Kept(p.b, p.b.size, p.out = "wait", client.request, p.data)
        /\ handled' = done /\ conn' = "open"
    BY DEF NoHeader
  <1>2. Vector(p.b) /\ (client.request = 0 \/ IsRequest(client.request))
    BY ReadyFacts
  <1>3. p.b.size \in 0..p.b.size
    BY <1>2 DEF Vector, Stream
  <1> DEFINE pending == (p.out = "wait")
             cl == Kept(p.b, p.b.size, pending, client.request, p.data)
  <1>4. Sound(cl, net', "open", done)
    <2>1. pending \in BOOLEAN
      OBVIOUS
    <2>2. IF pending
          THEN /\ client.request \in DOMAIN script /\ script[client.request] \in Late
               /\ DataSoFar(client.request, p.data)
               /\ Holds(p.b, net', Ahead(client.request, p.data))
               /\ Past(done, client.request - 1)
          ELSE /\ Holds(p.b, net', After(client.request))
               /\ Past(done, Place(client.request))
      BY DEF Ready
    <2> HIDE DEF pending
    <2> QED
      BY <1>2, <1>3, <2>1, <2>2, KeptSound
  <1> QED
    BY <1>1, <1>4

LEMMA BadHeaderSound ==
    ASSUME Sent, ClientOK(client), NEW p, NEW done, Ready(p, net', done),
           StaleCaused(p.b.mem, p.b.size), BadHeader(p, done)
    PROVE  Sound(client', net', conn', handled')
  <1> DEFINE m == p.b.mem
             pos == FindBlank(m, client.find_last_pos)
             chunk == SubSeq(m, 1, pos)
             i == FindHead(chunk)
  <1>1. /\ Vector(p.b) /\ net' \in Stream /\ Past(done, Len(script))
        /\ client.find_last_pos \in Nat
    BY ReadyFacts
  <1>2. m \in Stream
    BY <1>1 DEF Vector
  <1>3. pos \in 0..Len(m)
    <2> HIDE DEF m
    <2> QED
      BY <1>1, <1>2, FindBlankFacts
  <1>4. /\ pos # 0 /\ handled' = done
        /\ \/ Gone("closed")
           \/ /\ i # 0 /\ Parses(SubSeq(chunk, i, pos)) /\ pos > p.b.size
              /\ Gone("undefined")
           \/ i = 0 /\ pos = Len(m) /\ Gone("undefined")
    BY DEF BadHeader, FindHead
  <1>5. CASE Gone("closed")
    BY <1>1, <1>4, <1>5, GoneSound
  <1>6. CASE /\ i # 0 /\ Parses(SubSeq(chunk, i, pos)) /\ pos > p.b.size
             /\ Gone("undefined")
    <2> HIDE DEF m, pos
    <2>1. OneHeader(m, pos, i)
      BY <1>6 DEF OneHeader
    <2>2. pos \in 1..Len(m)
      BY <1>2, <1>3, <1>4 DEF Stream
    <2>3. i \in Nat
      <3>1. chunk \in Stream
        <4>1. 1 \in 1..Len(m) + 1 /\ pos \in (1 - 1)..Len(m)
          BY <2>2, <1>2 DEF Stream
        <4> QED
          BY <1>2, <4>1, SubFacts
      <3> HIDE DEF chunk
      <3>2. FirstAt(chunk, IsHead, FindHead(chunk))
        BY <3>1, FindHeadFacts
      <3> QED
        BY <3>1, <3>2 DEF FirstAt, Stream
    <2> HIDE DEF i
    <2>4. StaleCaused(m, p.b.size)
      BY DEF m
    <2>5. Causes
      BY <1>6, <2>1, <2>2, <2>3, <2>4 DEF StaleCaused
    <2> QED
      BY <1>1, <1>4, <1>6, <2>5, GoneSound
  <1>7. CASE i = 0 /\ pos = Len(m) /\ Gone("undefined")
    <2>1. m[pos] = NL /\ pos \in 1..Len(m)
      <3> HIDE DEF m
      <3>1. pos # 0 => m[pos] = NL
        BY <1>1, <1>2, FindBlankFacts
      <3> HIDE DEF pos
      <3> QED
        BY <1>2, <1>3, <1>4, <3>1 DEF Stream
    <2> HIDE DEF m, pos
    <2>2. chunk = m
      <3>1. SubSeq(m, 1, Len(m)) = m
        BY <1>2, SubSeqFull DEF Stream
      <3> QED
        BY <1>7, <3>1
    <2> HIDE DEF chunk
    <2>3. FirstAt(m, IsHead, 0)
      <3>1. FirstAt(m, IsHead, FindHead(m))
        BY <1>2, FindHeadFacts
      <3> QED
        BY <1>7, <2>2, <3>1
    <2>4. NoHead(m)
      BY <2>3 DEF FirstAt, IsHead, NoHead
    <2>5. Causes
      <3>1. StaleCaused(m, p.b.size)
        BY DEF m
      <3> QED
        BY <2>1, <2>4, <3>1 DEF StaleCaused
    <2> QED
      BY <1>1, <1>4, <1>7, <2>5, GoneSound
  <1> QED
    BY <1>4, <1>5, <1>6, <1>7

\* The header r has been found, and w is what the buffer holds behind it: it is
\* the header of the next request, or the text in the body of the pending one.
Found(done, rest, r, w) ==
    \/ /\ r \in DOMAIN script /\ Holds(w, rest, Ahead(r, <<>>)) /\ Past(done, r - 1)
    \/ /\ r \in Int /\ -r \in DOMAIN script /\ script[-r] = "text" /\ r < 0
       /\ Holds(w, rest, After(r)) /\ Past(done, -r - 1)

LEMMA GoodHeaderFound ==
    ASSUME Sent, ClientOK(client), NEW p, NEW rest, NEW done, Ready(p, rest, done),
           NEW pos \in 1..p.b.size, NEW i, OneHeader(p.b.mem, pos, i)
    PROVE  Found(done, rest, SubSeq(p.b.mem, 1, pos)[i].r, Erase(p.b, pos))
  <1> DEFINE k == client.request
             b == p.b
             r == SubSeq(b.mem, 1, pos)[i].r
             w == Erase(b, pos)
  <1>1. Script(script) /\ Len(script) \in Nat /\ DOMAIN script = 1..Len(script)
    BY SentScript
  <1>2. /\ Vector(b) /\ rest \in Stream /\ (k = 0 \/ IsRequest(k))
    BY ReadyFacts
  <1>3. pos \in 1..b.size /\ OneHeader(b.mem, pos, i)
    OBVIOUS
  <1>4. CASE p.out = "wait"
    <2>1. /\ k \in DOMAIN script /\ DataSoFar(k, p.data) /\ Holds(b, rest, Ahead(k, p.data))
          /\ Past(done, k - 1)
      BY <1>4 DEF Ready
    <2>2. k \in Nat /\ k \in 0..Len(script)
      BY <1>1, <2>1
    <2> HIDE DEF k, b
    <2>3. CASE script[k] = "text"
      <3>1. p.data = <<>>
        BY <2>1, <2>3 DEF DataSoFar
      <3>2. Holds(b, rest, Ahead(k, <<>>))
        BY <2>1, <3>1
      <3>3. r = -k /\ Holds(w, rest, <<D(k)>> \o Encode(script, k + 1))
        BY <1>1, <1>3, <2>1, <2>3, <3>2, TextFound
      <3> HIDE DEF r, w
      <3>4. -r = k /\ r < 0 /\ r \in Int
        BY <1>1, <2>1, <2>2, <3>3
      <3>5. After(r) = <<D(k)>> \o Encode(script, k + 1)
        BY <3>4 DEF After, Before, Place
      <3> QED
        BY <2>1, <2>3, <3>3, <3>4, <3>5 DEF Found, r, w, b
    <2>4. CASE script[k] # "text"
      <3> DEFINE x == Rest(k, p.data)
                 s == Ahead(k, p.data)
      <3>1. x \in Stream /\ NoHead(x)
        BY <1>1, <2>1, <2>4, RestFacts
      <3>2. Cut(s, x, Encode(script, k + 1)) /\ Holds(b, rest, s)
        BY <2>1 DEF Cut, Ahead
      <3> HIDE DEF x, s
      <3>3. /\ k + 1 \in DOMAIN script /\ r = k + 1
            /\ Holds(w, rest, Ahead(k + 1, <<>>))
        <4> HIDE DEF r, w
        <4>1. /\ k \in 0..Len(script) /\ Script(script) /\ x \in Stream /\ NoHead(x)
              /\ Cut(s, x, Encode(script, k + 1)) /\ Holds(b, rest, s)
              /\ pos \in 1..b.size /\ OneHeader(b.mem, pos, i)
          BY <1>1, <1>3, <2>2, <3>1, <3>2
        <4>2. /\ k + 1 \in DOMAIN script /\ SubSeq(b.mem, 1, pos)[i].r = k + 1
              /\ pos = Len(x) + 3
              /\ Holds(Erase(b, pos), rest, Ahead(k + 1, <<>>))
          BY <4>1, HeaderFound
        <4> QED
          BY <4>2 DEF r, w
      <3> HIDE DEF r, w
      <3>4. Past(done, k)
        <4>1. k - 1 \in Nat /\ k - 1 <= k
          BY <1>1, <2>1
        <4> QED
          BY <1>1, <2>1, <2>2, <4>1, PastMonotone
      <3>5. r - 1 = k
        BY <2>2, <3>3
      <3> QED
        BY <3>3, <3>4, <3>5 DEF Found, r, w, b
    <2> QED
      BY <2>3, <2>4
  <1>5. CASE p.out # "wait"
    <2>1. Holds(b, rest, After(k)) /\ Past(done, Place(k))
      BY <1>5 DEF Ready
    <2> DEFINE x == Before(k)
               s == After(k)
               n == Place(k)
    <2>2. /\ x \in Stream /\ NoHead(x) /\ Cut(s, x, Encode(script, n + 1))
          /\ n \in Nat /\ n \in 0..Len(script)
      BY <1>1, <1>2, RequestFacts
    <2>3. Holds(b, rest, s) /\ Past(done, n)
      BY <2>1
    <2> HIDE DEF b, x, s, n
    <2>4. /\ n + 1 \in DOMAIN script /\ r = n + 1
          /\ Holds(w, rest, Ahead(n + 1, <<>>))
      <3> HIDE DEF r, w
      <3>1. /\ n \in 0..Len(script) /\ Script(script) /\ x \in Stream /\ NoHead(x)
            /\ Cut(s, x, Encode(script, n + 1)) /\ Holds(b, rest, s)
            /\ pos \in 1..b.size /\ OneHeader(b.mem, pos, i)
        BY <1>1, <1>3, <2>2, <2>3
      <3>2. /\ n + 1 \in DOMAIN script /\ SubSeq(b.mem, 1, pos)[i].r = n + 1
            /\ pos = Len(x) + 3
            /\ Holds(Erase(b, pos), rest, Ahead(n + 1, <<>>))
        BY <3>1, HeaderFound
      <3> QED
        BY <3>2 DEF r, w
    <2> HIDE DEF r, w
    <2>5. r - 1 = n
      BY <2>2, <2>4
    <2> QED
      BY <2>3, <2>4, <2>5 DEF Found, r, w, b
  <1> QED
    BY <1>4, <1>5

\* What the attempt at a request that has been found, with the buffer w, comes to.
Attempted(q, rest, done, r) ==
    /\ q.out \in {"wait", "handled", "dropped", "refused", "overrun"}
    /\ q.out = "wait" =>
         /\ r \in DOMAIN script /\ script[r] \in Late /\ DataSoFar(r, q.data)
         /\ Holds(q.b, rest, Ahead(r, q.data)) /\ Past(done, r - 1)
    /\ q.out \in {"handled", "dropped"} =>
         /\ Holds(q.b, rest, After(r))
         /\ Past(Append(done, [r |-> r, data |-> q.data]), Place(r))
    /\ q.out = "overrun" => Causes

LEMMA FoundAttempted ==
    ASSUME Sent, NEW done, NEW rest, NEW r, NEW w, Found(done, rest, r, w)
    PROVE  IsRequest(r) /\ Attempted(HandlePending(w, r, <<>>), rest, done, r)
  <1> DEFINE q == HandlePending(w, r, <<>>)
  <1>1. Script(script) /\ Len(script) \in Nat /\ DOMAIN script = 1..Len(script)
    BY SentScript
  <1>2. CASE r \in DOMAIN script /\ Holds(w, rest, Ahead(r, <<>>)) /\ Past(done, r - 1)
    <2>1. IsRequest(r) /\ r \in Nat /\ r >= 1
      BY <1>1, <1>2 DEF IsRequest
    <2>2. Place(r) = r /\ After(r) = Encode(script, r + 1)
      <3>1. Place(r) = r /\ Before(r) = <<>>
        BY <2>1 DEF Place, Before
      <3>2. Encode(script, Place(r) + 1) \in Stream
        BY <1>1, <2>1, RequestFacts
      <3> DEFINE e == Encode(script, Place(r) + 1)
      <3> HIDE DEF e
      <3>3. <<>> \o e = e
        BY <3>2, ConcatEmptySeq DEF Stream, e
      <3>4. After(r) = <<>> \o e
        BY <3>1 DEF After, e
      <3> QED
        BY <3>1, <3>3, <3>4 DEF e
    <2>3. DataSoFar(r, <<>>)
      BY DEF DataSoFar
    <2>4. Tried(q, w, rest, r)
      BY <1>1, <1>2, <2>3, PendingTried
    <2> HIDE DEF q
    <2>5. Past(Append(done, [r |-> r, data |-> BodyOf(r)]), r)
      BY <1>1, <1>2, <2>1, <2>2, PastAppend
    <2>6. q.out \in {"handled", "dropped"} =>
            Holds(q.b, rest, After(r)) /\ Past(Append(done, [r |-> r, data |-> q.data]), Place(r))
      BY <2>2, <2>4, <2>5 DEF Tried
    <2>7. q.out = "wait" =>
            /\ r \in DOMAIN script /\ script[r] \in Late /\ DataSoFar(r, q.data)
            /\ Holds(q.b, rest, Ahead(r, q.data)) /\ Past(done, r - 1)
      BY <1>2, <2>4 DEF Tried
    <2>8. q.out = "overrun" => Causes
      <3>1. q.out = "overrun" => script[r] \in {"chunked", "garbled"}
        BY <2>4 DEF Tried
      <3> QED
        BY <1>2, <3>1 DEF Causes, Range
    <2>9. q.out \in {"wait", "handled", "dropped", "refused", "overrun"}
      BY <2>4 DEF Tried
    <2> QED
      BY <2>1, <2>6, <2>7, <2>8, <2>9 DEF Attempted, q
  <1>3. CASE /\ r \in Int /\ -r \in DOMAIN script /\ script[-r] = "text" /\ r < 0
             /\ Holds(w, rest, After(r)) /\ Past(done, -r - 1)
    <2>1. r \in Int
      BY <1>3
    <2>2. IsRequest(r)
      BY <1>3, <2>1 DEF IsRequest
    <2>3. KindOf(r) = "get" /\ Place(r) = -r
      BY <1>3 DEF KindOf, Place
    <2>4. q = Outcome("handled", w, <<>>)
      BY <2>3 DEF HandlePending
    <2> HIDE DEF q
    <2>5. q.out = "handled" /\ q.b = w /\ q.data = <<>>
      BY <2>4, OutcomeFields
    <2>6. BodyOf(r) = <<>>
      BY <2>3 DEF BodyOf
    <2>7. Past(Append(done, [r |-> r, data |-> BodyOf(r)]), Place(r))
      BY <1>1, <1>3, <2>2, <2>3, PastAppend
    <2> QED
      BY <1>3, <2>2, <2>5, <2>6, <2>7 DEF Attempted, q
  <1> QED
    BY <1>2, <1>3 DEF Found

\* A header in the buffer is tried at once.
LEMMA GoodHeaderSound ==
    ASSUME Sent, ClientOK(client), conn = "open", NEW p, NEW done, Ready(p, net', done),
           GoodHeader(p, done)
    PROVE  Sound(client', net', conn', handled')
  <1> DEFINE m == p.b.mem
             pos == FindBlank(m, client.find_last_pos)
             chunk == SubSeq(m, 1, pos)
             i == FindHead(chunk)
             r == chunk[i].r
             q == HandlePending(WithoutHeader(p.b, pos), r, <<>>)
  <1>1. /\ pos # 0 /\ pos <= p.b.size /\ i # 0
        /\ Parses(SubSeq(chunk, i, pos))
        /\ \/ /\ q.out = "handled"
              /\ client' = Kept(q.b, 0, FALSE, r, q.data)
              /\ handled' = Append(done, [r |-> r, data |-> q.data])
              /\ UNCHANGED conn
           \/ /\ q.out = "wait"
              /\ client' = Kept(q.b, 0, TRUE, r, q.data)
              /\ handled' = done
              /\ UNCHANGED conn
           \/ /\ q.out = "dropped" /\ Gone("closed")
              /\ handled' = Append(done, [r |-> r, data |-> q.data])
           \/ /\ q.out = "refused" /\ Gone("closed")
              /\ handled' = done
           \/ /\ q.out = "overrun" /\ Gone("undefined")
              /\ handled' = done
    BY DEF GoodHeader, FindHead
  <1>2. /\ Vector(p.b) /\ net' \in Stream /\ Past(done, Len(script))
        /\ client.find_last_pos \in Nat
    BY ReadyFacts
  <1>3. Script(script) /\ Len(script) \in Nat /\ DOMAIN script = 1..Len(script)
    BY SentScript
  <1>4. /\ m \in Stream /\ p.b.size \in 0..Len(m) /\ Len(m) \in Nat
    BY <1>2 DEF Vector, Stream
  <1>5. pos \in 0..Len(m)
    <2> HIDE DEF m
    <2> QED
      BY <1>2, <1>4, FindBlankFacts
  <1>6. OneHeader(m, pos, i)
    BY <1>1 DEF OneHeader
  <1> DEFINE n == p.b.size
  <1>9. pos \in 1..n
    <2>1. pos # 0 /\ pos <= n
      BY <1>1
    <2> HIDE DEF pos, m, n
    <2> QED
      BY <1>4, <1>5, <2>1 DEF n
  <1> DEFINE w == WithoutHeader(p.b, pos)
  <1>10. Found(done, net', r, w)
    <2>1. pos \in 1..p.b.size /\ OneHeader(p.b.mem, pos, i) /\ r = SubSeq(p.b.mem, 1, pos)[i].r
      BY <1>6, <1>9
    <2>2. w = Erase(p.b, pos)
      BY DEF WithoutHeader
    <2> HIDE DEF w, r, pos, i, chunk, m, n
    <2>3. Found(done, net', SubSeq(p.b.mem, 1, pos)[i].r, Erase(p.b, pos))
      BY <2>1, GoodHeaderFound
    <2> QED
      BY <2>1, <2>2, <2>3
  <1>12. q = HandlePending(w, r, <<>>)
    OBVIOUS
  <1> HIDE DEF w, q, r, pos, i, chunk, m
  <1>13. IsRequest(r) /\ Attempted(q, net', done, r)
    BY <1>10, <1>12, FoundAttempted
  <1>14. Place(r) \in Nat /\ Place(r) <= Len(script)
    BY <1>3, <1>13, RequestFacts
  <1>17. CASE q.out = "handled" /\ client' = Kept(q.b, 0, FALSE, r, q.data)
              /\ handled' = Append(done, [r |-> r, data |-> q.data]) /\ UNCHANGED conn
    <2> DEFINE hd == Append(done, [r |-> r, data |-> q.data])
    <2>1. Holds(q.b, net', After(r)) /\ Past(hd, Place(r))
      BY <1>13, <1>17 DEF Attempted
    <2>2. 0 \in 0..q.b.size
      BY <2>1, ReadFront
    <2> HIDE DEF hd
    <2>3. Sound(Kept(q.b, 0, FALSE, r, q.data), net', "open", hd)
      BY <1>13, <2>1, <2>2, KeptSound
    <2> QED
      BY <1>17, <2>3 DEF hd
  <1>18. CASE q.out = "wait" /\ client' = Kept(q.b, 0, TRUE, r, q.data)
              /\ handled' = done /\ UNCHANGED conn
    <2>1. /\ r \in DOMAIN script /\ script[r] \in Late /\ DataSoFar(r, q.data)
          /\ Holds(q.b, net', Ahead(r, q.data)) /\ Past(done, r - 1)
      BY <1>13, <1>18 DEF Attempted
    <2>2. 0 \in 0..q.b.size
      BY <2>1, ReadFront
    <2>3. Sound(Kept(q.b, 0, TRUE, r, q.data), net', "open", done)
      BY <1>13, <2>1, <2>2, KeptSound
    <2> QED
      BY <1>18, <2>3
  <1>19. CASE q.out = "dropped" /\ Gone("closed")
              /\ handled' = Append(done, [r |-> r, data |-> q.data])
    <2>1. Past(handled', Place(r))
      BY <1>13, <1>19 DEF Attempted
    <2>2. Past(handled', Len(script))
      BY <1>3, <1>14, <2>1, PastMonotone
    <2> QED
      BY <1>2, <1>19, <2>2, GoneSound
  <1>20. CASE q.out = "refused" /\ Gone("closed") /\ handled' = done
    BY <1>2, <1>20, GoneSound
  <1>21. CASE q.out = "overrun" /\ Gone("undefined") /\ handled' = done
    <2>2. Causes
      BY <1>13, <1>21 DEF Attempted
    <2> QED
      BY <1>2, <1>21, <2>2, GoneSound
  <1> QED
    BY <1>1, <1>17, <1>18, <1>19, <1>20, <1>21

LEMMA UnpackSound ==
    ASSUME Sent, ClientOK(client), conn = "open", NEW p, NEW done, Ready(p, net', done),
           StaleCaused(p.b.mem, p.b.size), Unpack(p, done)
    PROVE  Sound(client', net', conn', handled')
  BY NoHeaderSound, BadHeaderSound, GoodHeaderSound DEF Unpack

\* The tokens that an event brings.
LEMMA Arrives ==
    ASSUME NEW b \in Stream, net \in Stream, NEW n \in 1..Len(net), NEW s,
           Holds(Vec(b), net, s)
    PROVE  LET a == b \o SubSeq(net, 1, n)
               z == SubSeq(net, n + 1, Len(net))
           IN  /\ a \in Stream /\ z \in Stream /\ Holds(Vec(a), z, s)
               /\ Len(a) >= 1 /\ a[Len(a)] = net[n]
               /\ Len(z) >= 1 => n < Len(net) /\ z[1] = net[n + 1]
  <1> DEFINE u == SubSeq(net, 1, n)
             z == SubSeq(net, n + 1, Len(net))
             a == b \o u
             L == Len(net)
  <1>1. L \in Nat /\ n \in Nat /\ n >= 1 /\ n <= L /\ net \in Stream
    BY DEF Stream
  <1>2. u \in Stream /\ Len(u) = n /\ \A j \in 1..n : u[j] = net[j]
    <2>1. 1 \in 1..Len(net) + 1 /\ n \in (1 - 1)..Len(net)
      BY <1>1
    <2>2. /\ u \in Stream /\ Len(u) = n - 1 + 1
          /\ \A j \in 1..n - 1 + 1 : u[j] = net[1 + j - 1]
      BY <1>1, <2>1, SubFacts
    <2> HIDE DEF u
    <2> QED
      BY <1>1, <2>2
  <1>3. z \in Stream /\ Len(z) = L - n /\ (Len(z) >= 1 => z[1] = net[n + 1])
    <2>1. n + 1 \in 1..Len(net) + 1 /\ Len(net) \in (n + 1 - 1)..Len(net)
      BY <1>1
    <2>2. /\ z \in Stream /\ Len(z) = L - (n + 1) + 1
          /\ \A j \in 1..L - (n + 1) + 1 : z[j] = net[n + 1 + j - 1]
      BY <1>1, <2>1, SubFacts
    <2> HIDE DEF z
    <2>3. Len(z) >= 1 => 1 \in 1..L - (n + 1) + 1 /\ n + 1 + 1 - 1 = n + 1
      BY <1>1, <2>2
    <2> QED
      BY <1>1, <2>2, <2>3
  <1>4. u \o z = net
    <2>1. 1 \in 1..Len(net) + 1 /\ n \in (1 - 1)..Len(net) /\ Len(net) \in n..Len(net)
      BY <1>1
    <2>2. u \o z = SubSeq(net, 1, Len(net))
      BY <1>1, <2>1, ConcatAdjacentSubSeq DEF Stream
    <2> QED
      BY <1>1, <2>2, SubSeqFull DEF Stream
  <1>5. Live(Vec(b)) = b /\ b \o net = s /\ s \in Stream
    BY VecFacts DEF Holds
  <1> HIDE DEF u, z, L
  <1>6. /\ a \in Stream /\ Len(a) = Len(b) + Len(u) /\ Len(b) \in Nat
        /\ \A j \in 1..Len(u) : a[Len(b) + j] = u[j]
    BY <1>2, ConcatFacts
  <1>7. a \o z = s
    <2>1. a \o z = b \o (u \o z)
      BY <1>2, <1>3, StreamAssociative
    <2> QED
      BY <2>1, <1>4, <1>5
  <1> HIDE DEF a
  <1>8. Holds(Vec(a), z, s)
    <2>1. Vector(Vec(a)) /\ Live(Vec(a)) = a
      BY <1>6, VecFacts
    <2> QED
      BY <1>3, <1>5, <1>7, <2>1 DEF Holds
  <1>9. Len(a) >= 1 /\ a[Len(a)] = net[n]
    <2>1. Len(a) = Len(b) + n /\ n \in 1..Len(u)
      BY <1>1, <1>2, <1>6
    <2>2. a[Len(b) + n] = u[n] /\ u[n] = net[n]
      BY <1>1, <1>2, <1>6, <2>1
    <2> QED
      BY <1>1, <1>6, <2>1, <2>2
  <1>10. Len(z) >= 1 => n < Len(net) /\ z[1] = net[n + 1]
    BY <1>1, <1>3 DEF L
  <1> QED
    BY <1>3, <1>6, <1>8, <1>9, <1>10 DEF a, u, z

\* Tokens of a body that are neither a header nor a line break.
BytesOnly(x) == \A j \in 1..Len(x) : x[j].t = "D"

LEMMA RestBytes ==
    ASSUME NEW r \in DOMAIN script, Script(script), NEW data,
           script[r] \in {"length", "short", "coded"}
    PROVE  BytesOnly(Rest(r, data))
  <1>1. D(r).t = "D"
    BY DEF D, Tok
  <1>2. Rest(r, data) = Data(r) \/ Rest(r, data) = <<D(r)>>
    BY DEF Rest, Body
  <1> QED
    BY <1>1, <1>2 DEF BytesOnly, Data

LEMMA BeforeBytes ==
    ASSUME NEW k
    PROVE  BytesOnly(Before(k))
  <1>1. D(-k).t = "D"
    BY DEF D, Tok
  <1> QED
    BY <1>1 DEF BytesOnly, Before

\* A buffer without a header holds only bytes, when the body at its front does.
LEMMA Headless ==
    ASSUME Script(script), NEW r \in 0..Len(script), NEW x \in Stream, BytesOnly(x), NEW s,
           Cut(s, x, Encode(script, r + 1)), NEW b, NEW rest, Holds(b, rest, s), NoHead(b.mem)
    PROVE  b.size <= Len(x) /\ \A j \in 1..b.size : b.mem[j].t = "D"
  <1> DEFINE e == Encode(script, r + 1)
  <1>1. Len(script) \in Nat /\ Len(x) \in Nat
    BY DEF Script, Stream
  <1>2. e \in Stream
    <2>1. r + 1 \in 1..Len(script) + 1
      BY <1>1
    <2> QED
      BY <2>1, EncodeFacts
  <1>3. /\ Len(s) = b.size + Len(rest) /\ Len(rest) \in Nat /\ b.size \in Nat
        /\ \A j \in 1..b.size : b.mem[j] = s[j]
    BY ReadFront
  <1>4. Len(e) > 0 => e[1] = H(r + 1)
    BY NextRequest
  <1> HIDE DEF e
  <1>5. /\ Len(s) = Len(x) + Len(e) /\ Len(e) \in Nat
        /\ \A j \in 1..Len(x) : s[j] = x[j]
        /\ \A j \in 1..Len(e) : s[Len(x) + j] = e[j]
    <2>1. s = x \o e
      BY DEF Cut, e
    <2> QED
      BY <1>2, <2>1, ConcatFacts
  <1>6. b.size <= Len(b.mem) /\ Len(b.mem) \in Nat
    BY DEF Holds, Vector, Stream
  <1>7. b.size <= Len(x)
    <2>1. SUFFICES ASSUME b.size > Len(x) PROVE FALSE
      BY <1>1, <1>3
    <2>2. Len(e) > 0 /\ 1 \in 1..Len(e) /\ Len(x) + 1 \in 1..b.size /\ Len(x) + 1 \in 1..Len(b.mem)
      BY <1>1, <1>3, <1>5, <1>6, <2>1
    <2>3. b.mem[Len(x) + 1] = H(r + 1)
      BY <1>3, <1>4, <1>5, <2>2
    <2>4. H(r + 1).t = "H"
      BY DEF H, Tok
    <2> QED
      BY <2>2, <2>3, <2>4 DEF NoHead
  <1>8. \A j \in 1..b.size : b.mem[j].t = "D"
    <2> TAKE j \in 1..b.size
    <2>1. j \in 1..Len(x)
      BY <1>1, <1>3, <1>7
    <2> QED
      BY <1>3, <1>5, <2>1 DEF BytesOnly
  <1> QED
    BY <1>7, <1>8

\* The buffer a, of which nothing has been erased, holds what comes next.
Waiting(a, rest, data) ==
    LET k == client.request
    IN  IF client.pending
        THEN /\ k \in DOMAIN script /\ script[k] \in Late /\ DataSoFar(k, data)
             /\ Holds(Vec(a), rest, Ahead(k, data)) /\ Past(handled, k - 1)
        ELSE /\ Holds(Vec(a), rest, After(k)) /\ Past(handled, Place(k))

LEMMA NotStale ==
    ASSUME Sent, ClientOK(client), NEW a \in Stream, NEW rest, NEW data, Waiting(a, rest, data)
    PROVE  StaleCaused(Vec(a).mem, Vec(a).size)
  <1> DEFINE k == client.request
             b == Vec(a)
  <1>1. Script(script) /\ Len(script) \in Nat /\ DOMAIN script = 1..Len(script)
    BY SentScript
  <1>2. b.mem = a /\ b.size = Len(a) /\ Len(a) \in Nat
    BY VecFacts DEF Stream
  <1>3. k = 0 \/ IsRequest(k)
    BY DEF ClientOK
  <1>4. \A pos \in 1..Len(a) : ~(pos > Len(a))
    BY <1>2
  <1>5. NL.t = "nl"
    BY DEF NL, Tok
  <1>6. ASSUME NoHead(b.mem) PROVE Causes \/ \A j \in 1..Len(b.mem) : b.mem[j] # NL
    <2>1. CASE client.pending
      <3> DEFINE x == Rest(k, data)
                 s == Ahead(k, data)
      <3>1. k \in DOMAIN script /\ script[k] \in Late /\ Holds(b, rest, s) /\ k \in 0..Len(script)
        BY <1>1, <2>1 DEF Waiting
      <3>2. CASE script[k] \in {"length", "short", "coded"}
        <4>1. x \in Stream /\ BytesOnly(x) /\ Cut(s, x, Encode(script, k + 1))
          BY <1>1, <3>1, <3>2, RestFacts, RestBytes DEF Cut, Ahead
        <4> HIDE DEF x, s, b, k
        <4>2. \A j \in 1..b.size : b.mem[j].t = "D"
          BY <1>1, <1>6, <3>1, <4>1, Headless
        <4> QED
          BY <1>2, <1>5, <4>2
      <3>3. CASE script[k] \notin {"length", "short", "coded"}
        <4>1. script[k] \in {"fails", "blank", "text", "chunked", "garbled"}
          BY <3>1, <3>3 DEF Late
        <4> QED
          BY <3>1, <4>1 DEF Causes, Range
      <3> QED
        BY <3>2, <3>3
    <2>2. CASE ~client.pending
      <3> DEFINE x == Before(k)
                 s == After(k)
                 n == Place(k)
      <3>1. Holds(b, rest, s)
        BY <2>2 DEF Waiting
      <3>2. x \in Stream /\ Cut(s, x, Encode(script, n + 1)) /\ n \in 0..Len(script)
        BY <1>1, <1>3, RequestFacts
      <3>3. BytesOnly(x)
        BY BeforeBytes
      <3> HIDE DEF x, s, b, k, n
      <3>4. \A j \in 1..b.size : b.mem[j].t = "D"
        BY <1>1, <1>6, <3>1, <3>2, <3>3, Headless
      <3> QED
        BY <1>2, <1>5, <3>4
    <2> QED
      BY <2>1, <2>2
  <1> QED
    BY <1>2, <1>4, <1>6 DEF StaleCaused

\* n tokens were read, the last at the end of the buffer a, and what is still
\* to come is rest.
LastRead(a, n, rest) ==
    /\ Len(a) >= 1 /\ a[Len(a)] = net[n]
    /\ Len(rest) >= 1 => n < Len(net) /\ rest[1] = net[n + 1]

\* Only a network that cuts anywhere cuts inside an empty line.
LEMMA CutInside ==
    ASSUME Sent, NEW n \in 1..Len(net), CutAt(n), NEW a, NEW rest, LastRead(a, n, rest),
           a[Len(a)] = NL, Len(rest) >= 1, rest[1] = NL
    PROVE  cuts = "anywhere"
  <1>1. net[n] = NL /\ n < Len(net) /\ net[n + 1] = NL
    BY DEF LastRead
  <1>2. NL.t = "nl"
    BY DEF NL, Tok
  <1>3. cuts \in {"anywhere", "lines", "whole", "bodies"}
    BY HttpConstants DEF Sent
  <1>4. cuts # "lines"
    <2>1. SUFFICES ASSUME cuts = "lines" PROVE FALSE
      OBVIOUS
    <2>2. n < Len(net) => net[n] # NL \/ net[n + 1] # NL
      BY <2>1 DEF CutAt
    <2> QED
      BY <1>1, <2>2
  <1>5. cuts \notin {"whole", "bodies"}
    <2>1. SUFFICES ASSUME cuts \in {"whole", "bodies"} PROVE FALSE
      OBVIOUS
    <2>2. EndsRequest(n) \/ EndsHeader(n)
      BY <2>1 DEF CutAt
    <2>3. net[n + 1].t = "nl"
      BY <1>1, <1>2
    <2>4. CASE EndsRequest(n)
      BY <1>1, <2>3, <2>4 DEF EndsRequest, Starts
    <2>5. CASE EndsHeader(n)
      <3>1. n + 1 = 4 /\ net[4].t \in {"D", "H"}
        BY <2>5 DEF EndsHeader
      <3> QED
        BY <2>3, <3>1
    <2> QED
      BY <2>2, <2>4, <2>5
  <1> QED
    BY <1>3, <1>4, <1>5

\* Behind a late body that has been erased the view of the buffer shows a
\* header only for one of the causes.
LEMMA ErasedStale ==
    ASSUME Sent, NEW r \in DOMAIN script, NEW n \in 1..Len(net), CutAt(n),
           NEW a \in Stream, NEW rest, LastRead(a, n, rest),
           NEW length \in 1..2, script[r] = IF length = 1 THEN "short" ELSE "length",
           length <= Len(a), Holds(Vec(a), rest, Ahead(r, <<>>)),
           Holds(Erase(Vec(a), length), rest, Encode(script, r + 1))
    PROVE  StaleCaused(Erase(Vec(a), length).mem, Erase(Vec(a), length).size)
  <1> DEFINE e == Erase(Vec(a), length)
             s == Ahead(r, <<>>)
             x == Body(r, script[r])
             y == Encode(script, r + 1)
  <1>1. Script(script) /\ DOMAIN script = 1..Len(script) /\ Len(script) \in Nat
    BY SentScript
  <1>2. r \in 0..Len(script) /\ r \in Nat
    BY <1>1
  <1>3. x \in Stream /\ y \in Stream /\ Cut(s, x, y)
    BY <1>1, AheadStream
  <1>4. Len(x) = length /\ \A j \in 1..length : x[j].t = "D"
    <2>1. D(r).t = "D"
      BY DEF D, Tok
    <2>2. CASE length = 1
      BY <2>1, <2>2 DEF Body
    <2>3. CASE length = 2
      BY <2>1, <2>3 DEF Body, Data
    <2> QED
      BY <2>2, <2>3
  <1>5. Vec(a).mem = a /\ Vec(a).size = Len(a) /\ Len(a) \in Nat
    BY VecFacts DEF Stream
  <1>6. \A j \in 1..length : a[j].t = "D"
    <2> DEFINE b == Vec(a)
    <2>1. Holds(b, rest, s) /\ b.mem = a /\ b.size = Len(a)
      BY <1>5
    <2> HIDE DEF b, s, x, y
    <2>2. \A j \in 1..b.size : b.mem[j] = s[j]
      BY <2>1, ReadFront
    <2>3. \A j \in 1..Len(x) : s[j] = x[j]
      BY <1>3, ConcatFacts DEF Cut
    <2> QED
      BY <1>4, <1>5, <2>1, <2>2, <2>3
  <1> HIDE DEF s, x, y
  <1>7. ASSUME NEW pos \in 1..Len(e.mem), NEW i \in Nat, pos > e.size, OneHeader(e.mem, pos, i)
        PROVE  Causes
    <2>1. length = 1 /\ a[Len(a)] = NL /\ Len(rest) >= 1 /\ rest[1] = NL
      BY <1>1, <1>2, <1>6, <1>7, StaleHeader
    <2>2. cuts = "anywhere"
      BY <2>1, CutInside
    <2>3. script[r] = "short"
      BY <2>1
    <2> QED
      BY <2>2, <2>3 DEF Causes, Range
  <1>8. ASSUME NoHead(e.mem) PROVE \A j \in 1..Len(e.mem) : e.mem[j] # NL
    <2>1. /\ <<>> \in Stream /\ BytesOnly(<<>>) /\ Len(<<>>) = 0
      BY DEF Stream, BytesOnly
    <2>2. Cut(Encode(script, r + 1), <<>>, Encode(script, r + 1))
      <3> DEFINE z == Encode(script, r + 1)
      <3>1. z \in Stream
        BY <1>3 DEF y
      <3> HIDE DEF z
      <3>2. <<>> \o z = z
        BY <3>1, ConcatEmptySeq DEF Stream
      <3> QED
        BY <3>2 DEF Cut, z
    <2>3. e.size <= 0
      <3>1. Holds(e, rest, Encode(script, r + 1))
        OBVIOUS
      <3> HIDE DEF e
      <3> QED
        BY <1>1, <1>2, <1>8, <2>1, <2>2, <3>1, Headless
    <2>4. /\ e.size = Len(a) - length /\ Len(e.mem) = Len(a)
          /\ \A j \in Len(a) - length + 1..Len(a) : e.mem[j] = a[j]
      <3> DEFINE b == Vec(a)
      <3>1. Vector(b) /\ length \in 0..b.size /\ b.mem = a /\ b.size = Len(a)
        BY <1>5, VecFacts
      <3> HIDE DEF b
      <3>2. /\ Erase(b, length).size = b.size - length
            /\ Len(Erase(b, length).mem) = Len(b.mem)
            /\ \A j \in b.size - length + 1..Len(b.mem) : Erase(b, length).mem[j] = b.mem[j]
        BY <3>1, EraseFacts
      <3> QED
        BY <3>1, <3>2 DEF b
    <2> HIDE DEF e
    <2>5. Len(a) = length
      BY <1>5, <2>3, <2>4
    <2>6. \A j \in 1..Len(a) : e.mem[j] = a[j] /\ a[j].t = "D"
      BY <1>6, <2>4, <2>5
    <2>7. NL.t = "nl"
      BY DEF NL, Tok
    <2> QED
      BY <2>4, <2>6, <2>7
  <1> QED
    BY <1>7, <1>8 DEF StaleCaused

\* One event's reads have come into the buffer a, and they are cut into
\* requests.
LEMMA ProcessSound ==
    ASSUME Sent, ClientOK(client), conn = "open", Past(handled, Len(script)),
           NEW n \in 1..Len(net), CutAt(n), NEW a \in Stream, LastRead(a, n, net'),
           net' \in Stream, Waiting(a, net', client.data),
           Process(Vec(a))
    PROVE  Sound(client', net', conn', handled')
  <1> DEFINE b == Vec(a)
             k == client.request
             t == HandlePending(b, k, client.data)
             p == IF client.pending THEN t ELSE Outcome("none", b, client.data)
             done == Append(handled, [r |-> k, data |-> p.data])
  <1>1. Script(script) /\ DOMAIN script = 1..Len(script) /\ Len(script) \in Nat
    BY SentScript
  <1>2. \/ p.out \in {"none", "wait"} /\ Unpack(p, handled)
        \/ p.out = "handled" /\ Unpack(p, done)
        \/ p.out = "dropped" /\ Gone("undefined") /\ handled' = done
        \/ p.out \in {"refused", "overrun"} /\ Gone("undefined") /\ UNCHANGED handled
    BY DEF Process
  <1>3. StaleCaused(b.mem, b.size)
    BY NotStale
  <1>6. k = 0 \/ IsRequest(k)
    BY DEF ClientOK
  <1>4. CASE ~client.pending
    <2>1. p = Outcome("none", b, client.data)
      BY <1>4
    <2> HIDE DEF p, done, b
    <2>2. p.out = "none" /\ p.b = b
      BY <2>1, OutcomeFields
    <2>3. Ready(p, net', handled)
      BY <1>4, <2>2 DEF Ready, b, Waiting
    <2>4. StaleCaused(p.b.mem, p.b.size)
      BY <1>3, <2>2
    <2>5. Unpack(p, handled)
      BY <1>2, <2>2
    <2> QED
      BY <2>3, <2>4, <2>5, UnpackSound
  <1>5. CASE client.pending
    <2>1. /\ k \in DOMAIN script /\ script[k] \in Late /\ DataSoFar(k, client.data)
          /\ Holds(b, net', Ahead(k, client.data)) /\ Past(handled, k - 1)
      BY <1>5 DEF Waiting
    <2>2. p = t
      BY <1>5
    <2>3. Tried(p, b, net', k)
      BY <1>1, <2>1, <2>2, PendingTried
    <2>4. b.mem = a /\ b.size = Len(a) /\ Len(a) \in Nat
      BY VecFacts DEF Stream
    <2>5. script[k] # "chunked" => client.data = <<>>
      BY <2>1 DEF DataSoFar
    <2>6. script[k] \in {"chunked", "garbled", "fails", "blank", "text"} => Causes
      BY <2>1 DEF Causes, Range
    <2>7. k \in Nat /\ k <= Len(script) /\ IsRequest(k)
      BY <1>1, <2>1 DEF IsRequest
    <2>14. Place(k) = k /\ Before(k) = <<>>
      BY <2>7 DEF Place, Before
    <2>15. After(k) = Encode(script, k + 1)
      <3> DEFINE e == Encode(script, k + 1)
      <3>1. e \in Stream
        BY <1>1, <2>1, AheadStream
      <3> HIDE DEF e
      <3>2. <<>> \o e = e
        BY <3>1, ConcatEmptySeq DEF Stream
      <3> QED
        BY <2>14, <3>2 DEF After, e
    <2> HIDE DEF p, t, b, k
    <2>8. p.out \in {"handled", "dropped"} => Past(done, k)
      <3>1. Past(Append(handled, [r |-> k, data |-> BodyOf(k)]), k)
        BY <1>1, <2>1, <2>7, <2>14, PastAppend
      <3> QED
        BY <2>3, <3>1 DEF Tried
    <2> HIDE DEF done
    <2>9. CASE p.out = "wait" /\ Unpack(p, handled)
      <3>1. Ready(p, net', handled)
        BY <2>1, <2>3, <2>9 DEF Ready, Tried, k
      <3>2. StaleCaused(p.b.mem, p.b.size)
        <4>1. CASE script[k] = "chunked"
          BY <2>6, <4>1 DEF StaleCaused
        <4>2. CASE script[k] # "chunked"
          <5>1. p.b = b
            BY <2>3, <2>9, <4>2 DEF Tried
          <5> QED
            BY <1>3, <5>1
        <4> QED
          BY <4>1, <4>2
      <3> QED
        BY <2>9, <3>1, <3>2, UnpackSound
    <2>10. CASE p.out = "handled" /\ Unpack(p, done)
      <3>1. Holds(p.b, net', Encode(script, k + 1))
        BY <2>3, <2>10 DEF Tried
      <3>2. Ready(p, net', done)
        BY <2>8, <2>10, <2>14, <2>15, <3>1 DEF Ready, k
      <3>3. StaleCaused(p.b.mem, p.b.size)
        <4>1. script[k] \in {"length", "short", "chunked", "blank", "text"}
          BY <2>1, <2>3, <2>10 DEF Tried, Late
        <4>2. CASE script[k] \in {"chunked", "blank", "text"}
          BY <2>6, <4>2 DEF StaleCaused
        <4>3. CASE script[k] = "length"
          <5>1. 2 <= Len(a) /\ p.b = Erase(Vec(a), 2)
            BY <2>3, <2>4, <2>10, <4>3 DEF Tried, b
          <5>2. Holds(Vec(a), net', Ahead(k, <<>>))
            BY <2>1, <2>5, <4>3 DEF b
          <5>3. Holds(Erase(Vec(a), 2), net', Encode(script, k + 1))
            BY <3>1, <5>1
          <5>4. StaleCaused(Erase(Vec(a), 2).mem, Erase(Vec(a), 2).size)
            BY <2>1, <4>3, <5>1, <5>2, <5>3, ErasedStale
          <5> QED
            BY <5>1, <5>4
        <4>4. CASE script[k] = "short"
          <5>1. 1 <= Len(a) /\ p.b = Erase(Vec(a), 1)
            BY <2>3, <2>4, <2>10, <4>4 DEF Tried, b
          <5>2. Holds(Vec(a), net', Ahead(k, <<>>))
            BY <2>1, <2>5, <4>4 DEF b
          <5>3. Holds(Erase(Vec(a), 1), net', Encode(script, k + 1))
            BY <3>1, <5>1
          <5>4. StaleCaused(Erase(Vec(a), 1).mem, Erase(Vec(a), 1).size)
            BY <2>1, <4>4, <5>1, <5>2, <5>3, ErasedStale
          <5> QED
            BY <5>1, <5>4
        <4> QED
          BY <4>1, <4>2, <4>3, <4>4
      <3> QED
        BY <2>10, <3>2, <3>3, UnpackSound
    <2>11. CASE p.out = "dropped" /\ Gone("undefined") /\ handled' = done
      <3>1. Causes
        BY <2>3, <2>6, <2>11 DEF Tried
      <3>2. Past(done, Len(script))
        BY <1>1, <2>7, <2>8, <2>11, PastMonotone
      <3> QED
        BY <2>11, <3>1, <3>2, GoneSound
    <2>12. CASE p.out \in {"refused", "overrun"} /\ Gone("undefined") /\ UNCHANGED handled
      <3>1. Causes
        BY <2>1, <2>3, <2>6, <2>12 DEF Tried, Late
      <3> QED
        BY <2>12, <3>1, GoneSound
    <2>13. p.out # "none"
      BY <2>3 DEF Tried
    <2> QED
      BY <1>2, <2>9, <2>10, <2>11, <2>12, <2>13
  <1> QED
    BY <1>4, <1>5

-----------------------------------------------------------------------------
(* The steps of the connection *)

LEMMA EventSound ==
    ASSUME HttpInv, NEW n \in 1..Len(net), Event(n)
    PROVE  Sound(client', net', conn', handled')
  <1> DEFINE a == client.buffer \o SubSeq(net, 1, n)
             z == SubSeq(net, n + 1, Len(net))
  <1>1. /\ conn = "open" /\ CutAt(n) /\ net' = z
        /\ \/ Gone("closed") /\ UNCHANGED handled
           \/ Process(Vec(a))
    BY DEF Event
  <1>2. /\ Sent /\ ClientOK(client) /\ net \in Stream /\ Past(handled, Len(script))
        /\ Follows(client, net, handled) /\ client.buffer \in Stream
    BY <1>1 DEF HttpInv, Sound, ClientOK
  <1> DEFINE k == client.request
             s == IF client.pending THEN Ahead(k, client.data) ELSE After(k)
  <1>3. Holds(Vec(client.buffer), net, s)
    BY <1>2 DEF Follows
  <1> HIDE DEF s
  <1>4. /\ a \in Stream /\ z \in Stream /\ Holds(Vec(a), z, s)
        /\ Len(a) >= 1 /\ a[Len(a)] = net[n]
        /\ Len(z) >= 1 => n < Len(net) /\ z[1] = net[n + 1]
    <2> DEFINE b == client.buffer
    <2>1. b \in Stream /\ net \in Stream /\ Holds(Vec(b), net, s)
      BY <1>2, <1>3
    <2> HIDE DEF b
    <2>2. LET c == b \o SubSeq(net, 1, n)
          IN  /\ c \in Stream /\ z \in Stream /\ Holds(Vec(c), z, s)
              /\ Len(c) >= 1 /\ c[Len(c)] = net[n]
              /\ Len(z) >= 1 => n < Len(net) /\ z[1] = net[n + 1]
      BY <2>1, Arrives
    <2> QED
      BY <2>2 DEF b
  <1> HIDE DEF a, z
  <1>5. LastRead(a, n, net') /\ net' \in Stream
    BY <1>1, <1>4 DEF LastRead
  <1>6. CASE Gone("closed") /\ UNCHANGED handled
    BY <1>2, <1>5, <1>6, GoneSound
  <1>7. CASE Process(Vec(a))
    <2>1. Waiting(a, net', client.data)
      BY <1>1, <1>2, <1>4 DEF Follows, s, Waiting
    <2> QED
      BY <1>1, <1>2, <1>4, <1>5, <1>7, <2>1, ProcessSound
  <1> QED
    BY <1>1, <1>6, <1>7

LEMMA SentKept ==
    ASSUME Sent, Sound(client', net', conn', handled'), UNCHANGED <<script, cuts>>
    PROVE  HttpInv'
  <1>1. script' = script /\ cuts' = cuts
    OBVIOUS
  <1> QED
    BY <1>1 DEF HttpInv, Sent, Sound, ClientOK, Follows, Past, Causes, BodyOf, DataSoFar,
                Ahead, Rest, After, IsRequest, KindOf

LEMMA HttpInvInit == Init => HttpInv
  <1> SUFFICES ASSUME Init PROVE HttpInv
    OBVIOUS
  <1>1. PICK m \in 1..MaxRequests : script \in [1..m -> Kinds]
    BY DEF Init
  <1>2. m \in Nat /\ m >= 1
    BY HttpConstants
  <1>3. script \in Seq(Kinds) /\ Len(script) = m
    BY <1>1, <1>2
  <1>4. Sent
    BY <1>3 DEF Init, Sent
  <1>5. Script(script) /\ Len(script) \in Nat
    BY <1>4, SentScript
  <1>6. net \in Stream
    <2>1. 1 \in 1..Len(script) + 1 /\ net = Encode(script, 1)
      BY <1>5 DEF Init
    <2> QED
      BY <1>5, <2>1, EncodeFacts
  <1>7. /\ client = [buffer |-> <<>>, find_last_pos |-> 0, pending |-> FALSE,
                     request |-> 0, data |-> <<>>]
        /\ client.buffer = <<>> /\ client.find_last_pos = 0 /\ client.pending = FALSE
        /\ client.request = 0 /\ client.data = <<>>
    BY DEF Init, NoRequest
  <1>8. <<>> \in Stream /\ Len(<<>>) = 0
    BY DEF Stream
  <1>9. ClientOK(client)
    BY <1>5, <1>7, <1>8 DEF ClientOK
  <1>10. Past(<<>>, 0) /\ Past(<<>>, Len(script))
    BY DEF Past
  <1>11. Holds(Vec(<<>>), net, Encode(script, 1))
    <2>1. Vector(Vec(<<>>)) /\ Live(Vec(<<>>)) = <<>>
      BY <1>8, VecFacts
    <2>2. <<>> \o net = net
      BY <1>6, ConcatEmptySeq DEF Stream
    <2>3. net = Encode(script, 1)
      BY DEF Init
    <2> QED
      BY <1>6, <2>1, <2>2, <2>3 DEF Holds
  <1>12. Follows(client, net, handled)
    <2>1. handled = <<>>
      BY DEF Init
    <2>2. Place(0) = 0 /\ Before(0) = <<>> /\ Place(0) + 1 = 1
      BY DEF Place, Before
    <2>3. After(0) = Encode(script, 1)
      <3> DEFINE e == Encode(script, 1)
      <3>1. e \in Stream
        BY <1>6 DEF Init
      <3> HIDE DEF e
      <3>2. <<>> \o e = e
        BY <3>1, ConcatEmptySeq DEF Stream
      <3>3. After(0) = <<>> \o Encode(script, 1)
        BY <2>2 DEF After
      <3> QED
        BY <3>2, <3>3 DEF e
    <2> QED
      BY <1>7, <1>10, <1>11, <2>1, <2>2, <2>3 DEF Follows
  <1>13. conn = "open" /\ handled = <<>>
    BY DEF Init
  <1> QED
    BY <1>4, <1>6, <1>9, <1>10, <1>12, <1>13 DEF HttpInv, Sound

LEMMA HttpInvNext == HttpInv /\ [Next]_vars => HttpInv'
  <1> SUFFICES ASSUME HttpInv, [Next]_vars PROVE HttpInv'
    OBVIOUS
  <1>1. CASE UNCHANGED vars
    <2>1. UNCHANGED <<script, cuts>> /\ UNCHANGED <<client, net, conn, handled>>
      BY <1>1 DEF vars
    <2>2. Sound(client', net', conn', handled')
      BY <2>1 DEF HttpInv
    <2>3. Sent
      BY DEF HttpInv
    <2> QED
      BY <2>1, <2>2, <2>3, SentKept
  <1>2. CASE Quiet
    BY <1>1, <1>2 DEF Quiet
  <1>3. ASSUME NEW n \in 1..Len(net), Event(n) PROVE HttpInv'
    <2>1. UNCHANGED <<script, cuts>>
      BY <1>3 DEF Event
    <2>2. Sound(client', net', conn', handled')
      BY <1>3, EventSound
    <2> QED
      BY <2>1, <2>2, SentKept DEF HttpInv
  <1> QED
    BY <1>1, <1>2, <1>3 DEF Next

-----------------------------------------------------------------------------
(* The theorems *)

LEMMA HttpInvImplies ==
    ASSUME HttpInv
    PROVE  TypeOK /\ HandledInOrder /\ BodyIntact /\ OverrunCauses
  <1>1. /\ Sent /\ ClientOK(client) /\ Past(handled, Len(script))
        /\ conn \in {"open", "closed", "undefined"}
        /\ conn = "undefined" => Causes
    BY DEF HttpInv, Sound
  <1>2. DOMAIN script = 1..Len(script) /\ Len(script) \in Nat
    BY <1>1, SentScript
  <1>3. TypeOK
    <2> DEFINE texts == {q \in DOMAIN script : script[q] = "text"}
               requests == DOMAIN script \cup {-r : r \in texts}
    <2>1. ASSUME NEW k, IsRequest(k) PROVE k \in requests
      <3>1. k \in DOMAIN script \/ (k \in Int /\ -k \in texts)
        BY <2>1 DEF IsRequest
      <3>2. k \in Int => k = -(-k)
        OBVIOUS
      <3> QED
        BY <3>1, <3>2
    <2>2. client.request \in {NoRequest} \cup requests
      BY <1>1, <2>1 DEF ClientOK, NoRequest
    <2>3. \A i \in DOMAIN handled : handled[i].r \in requests
      BY <1>1, <2>1 DEF Past
    <2> HIDE DEF requests
    <2>4. /\ script \in Seq(Kinds) /\ cuts \in Cuts
          /\ client.find_last_pos \in 0..Len(client.buffer) /\ client.pending \in BOOLEAN
      BY <1>1 DEF Sent, ClientOK
    <2> QED
      BY <1>1, <2>2, <2>3, <2>4 DEF TypeOK, requests
  <1>4. HandledInOrder
    BY <1>1 DEF HandledInOrder, Past
  <1>5. BodyIntact
    BY <1>1 DEF BodyIntact, Past
  <1>6. OverrunCauses
    BY <1>1 DEF OverrunCauses, Causes
  <1> QED
    BY <1>3, <1>4, <1>5, <1>6

\* While a connection is open, ClientInfo::buffer and what is on its way hold what
\* is left of the body of the pending request, or of the body in which
\* handle_client took a text for a request, and then the requests that follow.
THEOREM HttpInvariant == Spec => []HttpInv
  BY HttpInvInit, HttpInvNext, PTL DEF Spec

\* Whatever the client sends and however its stream is cut, every variable keeps
\* its type: in particular the position where the search for a header goes on
\* (ClientInfo::find_last_pos) never lies behind the end of the buffer.
THEOREM HttpTypesAlways == Spec => []TypeOK
  BY HttpInvariant, HttpInvImplies, PTL

\* handle_client hands the requests over in the order they were sent, and none
\* twice; the text in a body, if it is taken for a request, stands in the place of
\* the request that had the body.
THEOREM OrderAlways == Spec => []HandledInOrder
  BY HttpInvariant, HttpInvImplies, PTL

\* handle_pending_request gives every handler exactly the body its request was
\* sent with, late, in pieces or in chunks, also one that holds an empty line or
\* looks like a request.
THEOREM BodiesAlwaysIntact == Spec => []BodyIntact
  BY HttpInvariant, HttpInvImplies, PTL

\* The code leaves its buffer, or goes on with a client that is gone, only for
\* the causes that OverrunCauses lists.
THEOREM OverrunsAlwaysCaused == Spec => []OverrunCauses
  BY HttpInvariant, HttpInvImplies, PTL
-----------------------------------------------------------------------------
(* Requests that arrive whole *)

Usual ==
    \/ cuts = "whole" /\ Range(script) \subseteq Plain \cup {"blank", "text"}
    \/ cuts = "bodies" /\ Range(script) \subseteq Plain
    \/ cuts = "lines" /\ script \in {<<"get">>, <<"post">>, <<"length">>, <<"short">>}

\* The first r requests have been handled, and no other.
Answered(h, r) == Len(h) = r /\ \A i \in 1..r : h[i].r = i

LEMMA AnsweredAppend ==
    ASSUME NEW h \in Seq([r : Int, data : Stream]), NEW r \in Nat, r >= 1, Answered(h, r - 1),
           NEW data \in Stream
    PROVE  Answered(Append(h, [r |-> r, data |-> data]), r)
  <1> DEFINE S == [r : Int, data : Stream]
             e == [r |-> r, data |-> data]
             g == Append(h, e)
  <1>1. e \in S /\ e.r = r
    OBVIOUS
  <1> HIDE DEF e, S
  <1>2. Len(h) = r - 1 /\ \A i \in 1..r - 1 : h[i].r = i
    BY DEF Answered
  <1>3. /\ Len(g) = Len(h) + 1 /\ g[Len(h) + 1] = e
        /\ \A i \in 1..Len(h) : g[i] = h[i]
    BY <1>1 DEF S
  <1> HIDE DEF g
  <1>4. Len(h) + 1 = r
    BY <1>2
  <1>5. ASSUME NEW i \in 1..r PROVE g[i].r = i
    <2>1. i \in 1..r - 1 \/ i = r
      OBVIOUS
    <2> QED
      BY <2>1, <1>1, <1>2, <1>3, <1>4
  <1> QED
    BY <1>3, <1>4, <1>5 DEF Answered, g, e

\* The empty line of a header at the front is the first one.
LEMMA BlankFirst ==
    ASSUME NEW m \in Stream, NEW from \in 0..1, Len(m) >= 3,
           m[1].t = "H", m[2] = NL, m[3] = NL
    PROVE  FindBlank(m, from) = 3
  <1> DEFINE hits == {j \in from + 2..Len(m) : m[j - 1] = NL /\ m[j] = NL}
  <1>1. FindBlank(m, from) = IF hits = {} THEN 0 ELSE Min(hits)
    BY DEF FindBlank
  <1>2. Len(m) \in Nat /\ NL.t = "nl" /\ from \in Nat
    BY DEF Stream, NL, Tok
  <1>3. 3 \in hits /\ hits \subseteq Nat
    BY <1>2
  <1>4. ASSUME NEW j \in hits PROVE 3 <= j
    <2>1. j \in Nat /\ j >= 2 /\ m[j - 1] = NL
      BY <1>2
    <2>2. j # 2
      BY <1>2, <2>1
    <2> QED
      BY <2>1, <2>2
  <1> HIDE DEF hits
  <1>5. Min(hits) \in hits /\ Min(hits) <= 3 /\ Min(hits) \in Nat
    BY <1>3, MinFacts
  <1> QED
    BY <1>1, <1>3, <1>4, <1>5

LEMMA NoBlank ==
    ASSUME NEW m \in Stream, NEW from \in Nat,
           Len(m) <= 1 \/ \A j \in 1..Len(m) : m[j].t = "D"
    PROVE  FindBlank(m, from) = 0
  <1> DEFINE pos == FindBlank(m, from)
  <1>1. /\ pos \in 0..Len(m)
        /\ pos # 0 => from + 2 <= pos /\ m[pos] = NL
    BY FindBlankFacts
  <1>2. Len(m) \in Nat /\ NL.t = "nl"
    BY DEF Stream, NL, Tok
  <1> HIDE DEF pos
  <1>3. SUFFICES ASSUME pos # 0 PROVE FALSE
    BY DEF pos
  <1>4. pos \in 1..Len(m) /\ pos >= 2 /\ m[pos].t = "nl"
    BY <1>1, <1>2, <1>3
  <1> QED
    BY <1>2, <1>4

\* An event that ends a request brings exactly what is left of it.
LEMMA RequestEnds ==
    ASSUME NEW x \in Stream, NEW y \in Stream, Cut(net, x, y), Len(x) >= 1,
           \A j \in 2..Len(x) : ~Starts(x[j]), Len(y) >= 1 => Starts(y[1]),
           NEW n \in 1..Len(net), EndsRequest(n)
    PROVE  n = Len(x)
  <1>1. /\ Len(net) = Len(x) + Len(y) /\ Len(x) \in Nat /\ Len(y) \in Nat
        /\ \A j \in 1..Len(x) : net[j] = x[j]
        /\ \A j \in 1..Len(y) : net[Len(x) + j] = y[j]
    BY ConcatFacts DEF Cut
  <1>2. /\ n < Len(net) => Starts(net[n + 1])
        /\ \A j \in 2..n : ~Starts(net[j])
    BY DEF EndsRequest
  <1>3. n \in Nat /\ n >= 1
    BY <1>1
  <1>4. ~(n < Len(x))
    <2>1. SUFFICES ASSUME n < Len(x) PROVE FALSE
      OBVIOUS
    <2>2. n + 1 \in 2..Len(x) /\ n + 1 \in 1..Len(x) /\ n < Len(net)
      BY <1>1, <1>3, <2>1
    <2> QED
      BY <1>1, <1>2, <2>2
  <1>5. ~(n > Len(x))
    <2>1. SUFFICES ASSUME n > Len(x) PROVE FALSE
      OBVIOUS
    <2>2. Len(x) + 1 \in 2..n /\ 1 \in 1..Len(y)
      BY <1>1, <1>3, <2>1
    <2>3. Starts(net[Len(x) + 1])
      BY <1>1, <2>2
    <2> QED
      BY <1>2, <2>2, <2>3
  <1> QED
    BY <1>1, <1>3, <1>4, <1>5

Ordinary == {"get", "post", "length", "short", "blank", "text", "chunked"}

NoStart(x) == \A j \in 1..Len(x) : ~Starts(x[j])

\* What a well-formed body looks like.
LEMMA BodyShape ==
    ASSUME NEW r \in DOMAIN script, Script(script), script[r] \in Ordinary
    PROVE  LET x == Body(r, script[r])
           IN  /\ x \in Stream /\ Len(x) \in 0..8 /\ NoStart(x)
               /\ script[r] \in {"length", "short"} =>
                    Len(x) \in 1..2 /\ \A j \in 1..Len(x) : x[j].t = "D"
               /\ script[r] \in {"get", "post"} => Len(x) = 0
               /\ script[r] \in {"blank", "text"} => Len(x) = 4
               /\ script[r] = "chunked" => Len(x) = 8 /\ x[1].t = "C"
  <1> DEFINE x == Body(r, script[r])
  <1>1. x \in Stream
    BY AheadStream
  <1>7. r \in Nat
    BY AheadStream
  <1>2. NoStart(x)
    <2>1. CASE script[r] # "text"
      <3>1. NoHead(Rest(r, <<>>))
        BY <2>1, RestFacts
      <3>2. NoHead(x)
        BY <3>1 DEF Rest
      <3> HIDE DEF x
      <3> QED
        BY <3>2 DEF NoHead, NoStart, Starts
    <2>2. CASE script[r] = "text"
      <3>1. x = Header(-r) \o <<D(r)>>
        BY <2>2 DEF Body
      <3> HIDE DEF x
      <3>2. Len(x) = 4 /\ x[1] = H(-r) /\ x[2] = NL /\ x[3] = NL /\ x[4] = D(r)
        BY <1>7, <3>1, TextShape
      <3>3. ~Starts(H(-r)) /\ ~Starts(NL) /\ ~Starts(D(r))
        BY <1>7 DEF Starts, H, NL, D, Tok
      <3>4. \A j \in 1..4 : j = 1 \/ j = 2 \/ j = 3 \/ j = 4
        OBVIOUS
      <3> QED
        BY <3>2, <3>3, <3>4 DEF NoStart
    <2> QED
      BY <2>1, <2>2
  <1>3. CASE script[r] \in {"get", "post"}
    <2>1. x = <<>>
      BY <1>3 DEF Body
    <2> HIDE DEF x
    <2> QED
      BY <1>1, <1>2, <1>3, <2>1 DEF x
  <1>4. CASE script[r] = "length"
    <2>1. x = <<D(r), D(r)>>
      BY <1>4 DEF Body, Data
    <2>2. D(r).t = "D"
      BY DEF D, Tok
    <2> HIDE DEF x
    <2>3. Len(x) = 2 /\ \A j \in 1..2 : x[j].t = "D"
      BY <2>1, <2>2
    <2> QED
      BY <1>1, <1>2, <1>4, <2>3 DEF x
  <1>5. CASE script[r] = "short"
    <2>1. x = <<D(r)>>
      BY <1>5 DEF Body
    <2>2. D(r).t = "D"
      BY DEF D, Tok
    <2> HIDE DEF x
    <2>3. Len(x) = 1 /\ \A j \in 1..1 : x[j].t = "D"
      BY <2>1, <2>2
    <2> QED
      BY <1>1, <1>2, <1>5, <2>3 DEF x
  <1>6. CASE script[r] = "chunked"
    <2>1. x = <<C(r, 2), NL, D(r), D(r), NL, C(r, 0), NL, NL>>
      BY <1>6 DEF Body, ChunkedData
    <2>2. C(r, 2).t = "C"
      BY DEF C, Tok
    <2> HIDE DEF x
    <2>3. Len(x) = 8 /\ x[1].t = "C"
      BY <2>1, <2>2
    <2> QED
      BY <1>1, <1>2, <1>6, <2>3 DEF x
  <1>8. CASE script[r] = "blank"
    <2>1. x = <<D(r), NL, NL, D(r)>>
      BY <1>8 DEF Body
    <2> HIDE DEF x
    <2>2. Len(x) = 4
      BY <2>1
    <2> QED
      BY <1>1, <1>2, <1>8, <2>2 DEF x
  <1>9. CASE script[r] = "text"
    <2>1. x = Header(-r) \o <<D(r)>>
      BY <1>9 DEF Body
    <2> HIDE DEF x
    <2>2. Len(x) = 4
      BY <1>7, <2>1, TextShape
    <2> QED
      BY <1>1, <1>2, <1>9, <2>2 DEF x
  <1> QED
    BY <1>3, <1>4, <1>5, <1>6, <1>8, <1>9 DEF Ordinary

\* A body that has arrived completely is taken; one by length is waited for.
LEMMA WholeHandled ==
    ASSUME NEW r \in DOMAIN script, Script(script), script[r] \in Ordinary,
           NEW b, NEW rest, Holds(b, rest, Ahead(r, <<>>))
    PROVE  LET q == HandlePending(b, r, <<>>)
               n == Len(Body(r, script[r]))
           IN  /\ Tried(q, b, rest, r)
               /\ b.size >= n => q.out = "handled"
               /\ script[r] \in {"length", "short"} =>
                    /\ b.size < n => q = Outcome("wait", b, <<>>)
                    /\ b.size >= n => q.b = Erase(b, n)
  <1> DEFINE q == HandlePending(b, r, <<>>)
             n == Len(Body(r, script[r]))
             k == b.size
  <1>1. Tried(q, b, rest, r)
    <2>1. DataSoFar(r, <<>>)
      BY DEF DataSoFar
    <2> QED
      BY <2>1, PendingTried
  <1>7. KindOf(r) = script[r]
    <2>1. ~(r < 0)
      BY AheadStream
    <2> QED
      BY <2>1 DEF KindOf
  <1>2. CASE script[r] \in {"get", "post"}
    <2>1. q.out = "handled"
      <3>1. q = Outcome("handled", b, <<>>)
        BY <1>2, <1>7 DEF HandlePending
      <3> QED
        BY <3>1, OutcomeFields
    <2> QED
      BY <1>1, <1>2, <2>1
  <1>3. ASSUME NEW length \in 1..4, n = length, q = ReadLength(b, <<>>, length)
        PROVE  /\ k >= n => q.out = "handled"
               /\ k < n => q = Outcome("wait", b, <<>>)
               /\ k >= n => q.b = Erase(b, n)
    <2>1. k \in Nat
      BY ReadFront
    <2>2. k < length => q = Outcome("wait", b, <<>>)
      BY <1>3 DEF ReadLength
    <2>3. k >= length => q = Outcome("handled", Erase(b, length), <<>> \o SubSeq(b.mem, 1, length))
      <3>1. k >= length => ~(k < length)
        BY <2>1
      <3> QED
        BY <1>3, <3>1 DEF ReadLength
    <2> HIDE DEF q, n, k
    <2> QED
      BY <1>3, <2>2, <2>3, OutcomeFields
  <1>4. CASE script[r] = "length"
    <2>1. n = 2
      BY <1>4 DEF Body, Data
    <2>2. q = ReadLength(b, <<>>, 2)
      BY <1>4, <1>7 DEF HandlePending
    <2> HIDE DEF q, n, k
    <2>3. 2 \in 1..4
      OBVIOUS
    <2>4. /\ k >= n => q.out = "handled"
          /\ k < n => q = Outcome("wait", b, <<>>)
          /\ k >= n => q.b = Erase(b, n)
      BY <1>3, <1>4, <2>1, <2>2, <2>3
    <2> QED
      BY <1>1, <1>4, <2>4 DEF q, n, k
  <1>5. CASE script[r] = "short"
    <2>1. n = 1
      BY <1>5 DEF Body
    <2>2. q = ReadLength(b, <<>>, 1)
      BY <1>5, <1>7 DEF HandlePending
    <2> HIDE DEF q, n, k
    <2>3. 1 \in 1..4
      OBVIOUS
    <2>4. /\ k >= n => q.out = "handled"
          /\ k < n => q = Outcome("wait", b, <<>>)
          /\ k >= n => q.b = Erase(b, n)
      BY <1>3, <1>5, <2>1, <2>2, <2>3
    <2> QED
      BY <1>1, <1>5, <2>4 DEF q, n, k
  <1>6. CASE script[r] = "chunked"
    <2>1. n = 8
      BY <1>6, BodyShape
    <2>2. q = ReadChunks(b, <<>>)
      BY <1>6, <1>7 DEF HandlePending
    <2>3. Chunked(q, b, rest, r, 8)
      <3>1. DataSoFar(r, <<>>)
        BY DEF DataSoFar
      <3>2. Chunked(ReadChunks(b, <<>>), b, rest, r, IF <<>> = <<>> THEN 8 ELSE 3)
        BY <1>6, <3>1, TriedChunks
      <3> QED
        BY <2>2, <3>2
    <2>4. k \in Nat
      BY ReadFront
    <2> HIDE DEF q, n
    <2>5. k >= n => q.out = "handled"
      BY <2>1, <2>3, <2>4 DEF Chunked
    <2> QED
      BY <1>1, <1>6, <2>5 DEF q, n
  <1>8. CASE script[r] \in {"blank", "text"}
    <2>1. n = 4
      BY <1>8, BodyShape
    <2>2. q = ReadLength(b, <<>>, 4)
      BY <1>7, <1>8 DEF HandlePending
    <2> HIDE DEF q, n, k
    <2>3. 4 \in 1..4
      OBVIOUS
    <2>4. k >= n => q.out = "handled"
      BY <1>3, <2>1, <2>2, <2>3
    <2> QED
      BY <1>1, <1>8, <2>4 DEF q, n, k
  <1> QED
    BY <1>2, <1>4, <1>5, <1>6, <1>8 DEF Ordinary

\* The header of request r is taken from the front of the buffer a, with the
\* outcome q of its first try.
Taken(a, r, q) ==
    /\ conn' = "open"
    /\ Holds(Erase(Vec(a), 3), net', Ahead(r, <<>>)) /\ Erase(Vec(a), 3).size = Len(a) - 3
    /\ \/ /\ client' = Kept(q.b, 0, FALSE, r, q.data)
          /\ handled' = Append(handled, [r |-> r, data |-> q.data])
          /\ Holds(q.b, net', Encode(script, r + 1)) /\ q.data = BodyOf(r)
       \/ /\ Len(a) - 3 < Len(Body(r, script[r])) /\ script[r] \in {"length", "short"}
          /\ client' = Kept(Erase(Vec(a), 3), 0, TRUE, r, <<>>)
          /\ handled' = handled

LEMMA HeaderTaken ==
    ASSUME Sent, conn = "open", ~client.pending, client.find_last_pos \in 0..1,
           NEW a \in Stream, NEW r \in DOMAIN script, r - 1 \in 0..Len(script),
           Holds(Vec(a), net', Encode(script, r)), Len(a) >= 3, script[r] \in Ordinary,
           script[r] \notin {"length", "short"} => Len(a) - 3 >= Len(Body(r, script[r])),
           Process(Vec(a))
    PROVE  \E q : Taken(a, r, q)
  <1> DEFINE p == Outcome("none", Vec(a), client.data)
             w == Erase(Vec(a), 3)
             q == HandlePending(w, r, <<>>)
             L == Len(a)
             n == Len(Body(r, script[r]))
  <1>1. Script(script) /\ DOMAIN script = 1..Len(script) /\ Len(script) \in Nat
    BY SentScript
  <1>2. r \in Nat /\ (r - 1) + 1 = r
    BY <1>1
  <1>3. Vec(a).mem = a /\ Vec(a).size = L /\ L \in Nat
    BY VecFacts DEF Stream
  <1>4. /\ Header(r) \in Stream /\ Ahead(r, <<>>) \in Stream
        /\ Cut(Encode(script, r), Header(r), Ahead(r, <<>>))
        /\ Len(Header(r)) = 3 /\ Header(r)[1] = H(r) /\ Header(r)[2] = NL /\ Header(r)[3] = NL
    <2>1. Len(Encode(script, (r - 1) + 1)) > 0
      <3>1. Len(Encode(script, r)) = L + Len(net') /\ Len(net') \in Nat
        BY <1>3, ReadFront
      <3> QED
        BY <1>2, <1>3, <3>1
    <2>2. /\ Header((r - 1) + 1) \in Stream /\ Ahead((r - 1) + 1, <<>>) \in Stream
          /\ Cut(Encode(script, (r - 1) + 1), Header((r - 1) + 1), Ahead((r - 1) + 1, <<>>))
      <3> DEFINE k == r - 1
      <3> HIDE DEF k
      <3>1. k \in 0..Len(script) /\ Len(Encode(script, k + 1)) > 0
        BY <2>1 DEF k
      <3>2. /\ Header(k + 1) \in Stream /\ Ahead(k + 1, <<>>) \in Stream
            /\ Cut(Encode(script, k + 1), Header(k + 1), Ahead(k + 1, <<>>))
        BY <1>1, <3>1, NextRequest
      <3> QED
        BY <3>2 DEF k
    <2> QED
      BY <1>2, <2>2, HeaderStream
  <1>5. SubSeq(a, 1, 3) = Header(r) /\ Holds(w, net', Ahead(r, <<>>))
    <2> DEFINE b == Vec(a)
    <2>1. Holds(b, net', Encode(script, r)) /\ b.mem = a /\ 3 <= b.size
      BY <1>3
    <2> HIDE DEF b
    <2>2. Begins(b, Header(r)) /\ Holds(Erase(b, Len(Header(r))), net', Ahead(r, <<>>))
      BY <1>4, <2>1, TakeFront
    <2> QED
      BY <1>4, <2>1, <2>2 DEF Begins, b
  <1>6. w.size = L - 3
    <2>1. Vector(Vec(a)) /\ 3 \in 0..Vec(a).size
      BY <1>3, VecFacts
    <2> QED
      BY <1>3, <2>1, EraseFacts
  <1>7. FindBlank(a, client.find_last_pos) = 3
    <2>1. \A j \in 1..3 : a[j] = Header(r)[j]
      <3>1. 1 \in 1..Len(a) + 1 /\ 3 \in (1 - 1)..Len(a)
        BY <1>3
      <3>2. \A j \in 1..3 - 1 + 1 : SubSeq(a, 1, 3)[j] = a[1 + j - 1]
        BY <3>1, SubFacts
      <3> QED
        BY <1>5, <3>2
    <2>2. H(r).t = "H"
      BY DEF H, Tok
    <2>3. a[1] = Header(r)[1] /\ a[2] = Header(r)[2] /\ a[3] = Header(r)[3]
      BY <2>1
    <2>4. a[1].t = "H" /\ a[2] = NL /\ a[3] = NL
      BY <1>4, <2>2, <2>3
    <2> QED
      BY <1>3, <2>4, BlankFirst
  <1>8. FindHead(Header(r)) = 1
    <2> DEFINE h == Header(r)
    <2>1. FirstAt(h, IsHead, FindHead(h))
      BY <1>4, FindHeadFacts
    <2>2. 1 \in 1..Len(h) /\ IsHead(h[1])
      BY <1>4 DEF IsHead, H, Tok
    <2> HIDE DEF h
    <2>3. FindHead(h) \in 0..Len(h) /\ FindHead(h) # 0 /\ FindHead(h) <= 1
      BY <2>1, <2>2 DEF FirstAt
    <2>4. FindHead(h) = 1
      BY <1>4, <2>3 DEF h
    <2> QED
      BY <2>4 DEF h
  <1>9. SubSeq(Header(r), 1, 3) = Header(r) /\ Parses(Header(r)) /\ Header(r)[1].r = r
    <2>1. SubSeq(Header(r), 1, Len(Header(r))) = Header(r)
      BY <1>4, SubSeqFull DEF Stream
    <2>2. Parses(Header(r))
      BY DEF Parses
    <2>3. H(r).r = r
      BY DEF H, Tok
    <2> QED
      BY <1>4, <2>1, <2>2, <2>3
  <1>10. Unpack(p, handled)
    <2>1. \/ p.out \in {"none", "wait"} /\ Unpack(p, handled)
          \/ p.out \in {"handled", "dropped", "refused", "overrun"}
      BY DEF Process
    <2> HIDE DEF p
    <2>2. p.out = "none"
      BY OutcomeFields DEF p
    <2> QED
      BY <2>1, <2>2
  <1>11. p.b = Vec(a) /\ p.b.mem = a /\ p.b.size = L
    BY <1>3, OutcomeFields
  <1> DEFINE pos == FindBlank(p.b.mem, client.find_last_pos)
             chunk == SubSeq(p.b.mem, 1, pos)
             i == FindHead(chunk)
             qq == HandlePending(WithoutHeader(p.b, pos), chunk[i].r, <<>>)
  <1>12. pos = 3 /\ chunk = Header(r) /\ i = 1
    BY <1>5, <1>7, <1>8, <1>11
  <1>13. qq = q
    <2>1. chunk[i].r = r
      BY <1>9, <1>12
    <2>2. WithoutHeader(p.b, pos) = w
      BY <1>11, <1>12 DEF WithoutHeader
    <2> QED
      BY <2>1, <2>2
  <1>14. ~NoHeader(p, handled)
    BY <1>12 DEF NoHeader
  <1>15. ~BadHeader(p, handled)
    <2>1. BadHeader(p, handled) =>
            \/ ~(i # 0 /\ Parses(SubSeq(chunk, i, pos)))
            \/ pos > p.b.size
      BY DEF BadHeader, FindHead
    <2> HIDE DEF p, pos, chunk, i, qq
    <2>2. i # 0 /\ Parses(SubSeq(chunk, i, pos))
      <3>1. SubSeq(chunk, i, pos) = Header(r)
        BY <1>9, <1>12
      <3>2. i # 0
        BY <1>12
      <3>3. Parses(Header(r))
        BY <1>9
      <3> DEFINE v == SubSeq(chunk, i, pos)
      <3>4. v = Header(r)
        BY <3>1
      <3> HIDE DEF v
      <3>5. Parses(v)
        BY <3>3, <3>4
      <3> QED
        BY <3>2, <3>5 DEF v
    <2>3. ~(pos > p.b.size)
      BY <1>3, <1>11, <1>12
    <2> QED
      BY <2>1, <2>2, <2>3
  <1>16. \/ /\ qq.out = "handled"
            /\ client' = Kept(qq.b, 0, FALSE, chunk[i].r, qq.data)
            /\ handled' = Append(handled, [r |-> chunk[i].r, data |-> qq.data])
            /\ conn' = conn
         \/ /\ qq.out = "wait"
            /\ client' = Kept(qq.b, 0, TRUE, chunk[i].r, qq.data)
            /\ handled' = handled
            /\ conn' = conn
         \/ qq.out \in {"dropped", "refused", "overrun"}
    <2>1. GoodHeader(p, handled)
      BY <1>10, <1>14, <1>15 DEF Unpack
    <2> QED
      BY <2>1 DEF GoodHeader, FindHead
  <1> HIDE DEF p, pos, i, qq
  <1>17. chunk[i].r = r
    BY <1>9, <1>12
  <1> HIDE DEF chunk
  <1>18. /\ Tried(q, w, net', r)
         /\ w.size >= n => q.out = "handled"
         /\ script[r] \in {"length", "short"} => (w.size < n => q = Outcome("wait", w, <<>>))
    <2> HIDE DEF w
    <2> QED
      BY <1>1, <1>5, WholeHandled
  <1>19. n \in Nat
    BY <1>1, BodyShape
  <1> HIDE DEF w, q, n
  <1>20. CASE q.out = "handled"
    <2>1. /\ client' = Kept(q.b, 0, FALSE, r, q.data)
          /\ handled' = Append(handled, [r |-> r, data |-> q.data]) /\ conn' = "open"
      BY <1>13, <1>16, <1>17, <1>20
    <2>2. Holds(q.b, net', Encode(script, r + 1)) /\ q.data = BodyOf(r)
      BY <1>18, <1>20 DEF Tried
    <2>3. Taken(a, r, q)
      BY <1>5, <1>6, <2>1, <2>2 DEF Taken, w
    <2> QED
      BY <2>3
  <1>21. CASE q.out # "handled"
    <2>1. w.size < n
      BY <1>3, <1>6, <1>18, <1>19, <1>21
    <2>2. L - 3 < n
      BY <1>6, <2>1
    <2>3. script[r] \in {"length", "short"}
      BY <1>3, <1>19, <2>2 DEF n
    <2>4. q = Outcome("wait", w, <<>>)
      BY <1>18, <2>1, <2>3
    <2>5. q.out = "wait" /\ q.b = w /\ q.data = <<>>
      BY <2>4, OutcomeFields
    <2>6. client' = Kept(w, 0, TRUE, r, <<>>) /\ handled' = handled /\ conn' = "open"
      BY <1>13, <1>16, <1>17, <2>5
    <2>7. Taken(a, r, q)
      BY <1>5, <1>6, <2>2, <2>3, <2>6 DEF Taken, w, n
    <2> QED
      BY <2>7
  <1> QED
    BY <1>20, <1>21

\* The pending request r, of whose body a is all that has come.
BodyTaken(a, r) ==
    LET n == Len(Body(r, script[r]))
    IN  /\ conn' = "open"
        /\ \/ /\ Len(a) < n
              /\ client' = Kept(Vec(a), Len(a), TRUE, r, <<>>)
              /\ handled' = handled
           \/ /\ Len(a) >= n
              /\ client' = Kept(Erase(Vec(a), n), Len(a) - n, FALSE, r, BodyOf(r))
              /\ handled' = Append(handled, [r |-> r, data |-> BodyOf(r)])

LEMMA LateBodyTaken ==
    ASSUME Sent, conn = "open", client.pending, client.data = <<>>,
           client.find_last_pos \in Nat, NEW r \in DOMAIN script, r = client.request,
           script[r] \in {"length", "short"}, NEW a \in Stream,
           \A j \in 1..Len(a) : a[j].t = "D", Holds(Vec(a), net', Ahead(r, <<>>)),
           Process(Vec(a))
    PROVE  BodyTaken(a, r)
  <1> DEFINE p == HandlePending(Vec(a), r, <<>>)
             L == Len(a)
             n == Len(Body(r, script[r]))
             done == Append(handled, [r |-> r, data |-> p.data])
  <1>1. Script(script) /\ script[r] \in Ordinary
    BY SentScript DEF Ordinary
  <1>2. Vector(Vec(a)) /\ Vec(a).mem = a /\ Vec(a).size = L /\ L \in Nat
    BY VecFacts DEF Stream
  <1>3. n \in Nat
    BY <1>1, BodyShape
  <1>4. /\ Tried(p, Vec(a), net', r)
        /\ Vec(a).size >= n => p.out = "handled"
        /\ Vec(a).size < n => p = Outcome("wait", Vec(a), <<>>)
        /\ Vec(a).size >= n => p.b = Erase(Vec(a), n)
    <2> DEFINE b == Vec(a)
    <2>1. Holds(b, net', Ahead(r, <<>>))
      OBVIOUS
    <2> HIDE DEF b
    <2> QED
      BY <1>1, <2>1, WholeHandled
  <1>5. \/ p.out \in {"none", "wait"} /\ Unpack(p, handled)
        \/ p.out = "handled" /\ Unpack(p, done)
        \/ p.out \in {"dropped", "refused", "overrun"}
    BY DEF Process
  <1> HIDE DEF p, n, done
  <1>6. ASSUME NEW hd, Vector(p.b), Len(p.b.mem) = L, \A j \in 1..L : p.b.mem[j].t = "D",
               Unpack(p, hd)
        PROVE  /\ client' = Kept(p.b, p.b.size, p.out = "wait", r, p.data)
               /\ handled' = hd /\ conn' = "open"
    <2>1. p.b.mem \in Stream
      BY <1>6 DEF Vector
    <2>2. FindBlank(p.b.mem, client.find_last_pos) = 0
      BY <1>6, <2>1, NoBlank
    <2>3. ~BadHeader(p, hd) /\ ~GoodHeader(p, hd)
      BY <2>2 DEF BadHeader, GoodHeader
    <2>4. NoHeader(p, hd)
      BY <1>6, <2>3 DEF Unpack
    <2> QED
      BY <2>4 DEF NoHeader
  <1>7. CASE L < n
    <2>1. p = Outcome("wait", Vec(a), <<>>)
      BY <1>2, <1>4, <1>7
    <2>2. p.out = "wait" /\ p.b = Vec(a) /\ p.data = <<>>
      BY <2>1, OutcomeFields
    <2>3. Unpack(p, handled)
      BY <1>5, <2>2
    <2>4. /\ client' = Kept(p.b, p.b.size, p.out = "wait", r, p.data)
          /\ handled' = handled /\ conn' = "open"
      BY <1>2, <1>6, <2>2, <2>3
    <2>5. client' = Kept(Vec(a), L, TRUE, r, <<>>)
      BY <1>2, <2>2, <2>4
    <2> QED
      BY <1>7, <2>4, <2>5 DEF BodyTaken, n
  <1>8. CASE L >= n
    <2>1. p.out = "handled" /\ p.b = Erase(Vec(a), n) /\ p.data = BodyOf(r)
      BY <1>2, <1>4, <1>8 DEF Tried
    <2>2. Unpack(p, done)
      BY <1>5, <2>1
    <2>3. n \in 0..Vec(a).size
      BY <1>2, <1>3, <1>8
    <2>4. /\ Vector(p.b) /\ p.b.size = L - n /\ Len(p.b.mem) = L
          /\ \A j \in 1..L - n : p.b.mem[j] = a[n + j]
          /\ \A j \in L - n + 1..L : p.b.mem[j] = a[j]
      <3> DEFINE b == Vec(a)
      <3>1. Vector(b) /\ n \in 0..b.size /\ b.mem = a /\ b.size = L
        BY <1>2, <2>3
      <3> HIDE DEF b
      <3>2. /\ Vector(Erase(b, n)) /\ Erase(b, n).size = b.size - n
            /\ Len(Erase(b, n).mem) = Len(b.mem)
            /\ \A j \in 1..b.size - n : Erase(b, n).mem[j] = b.mem[n + j]
            /\ \A j \in b.size - n + 1..Len(b.mem) : Erase(b, n).mem[j] = b.mem[j]
        BY <3>1, EraseFacts
      <3>3. p.b = Erase(b, n)
        BY <2>1 DEF b
      <3> QED
        BY <3>1, <3>2, <3>3
    <2>5. \A j \in 1..L : p.b.mem[j].t = "D"
      <3> DEFINE m == p.b.mem
      <3>1. /\ \A j \in 1..L - n : m[j] = a[n + j]
            /\ \A j \in L - n + 1..L : m[j] = a[j]
        BY <2>4
      <3> HIDE DEF m
      <3>2. ASSUME NEW j \in 1..L PROVE m[j].t = "D"
        <4>1. CASE j <= L - n
          <5>1. j \in 1..L - n /\ n + j \in 1..L
            BY <1>2, <1>3, <1>8, <4>1
          <5> QED
            BY <3>1, <5>1
        <4>2. CASE j > L - n
          <5>1. j \in L - n + 1..L
            BY <1>2, <1>3, <1>8, <4>2
          <5> QED
            BY <3>1, <5>1
        <4> QED
          BY <1>2, <1>3, <4>1, <4>2
      <3> QED
        BY <3>2 DEF m
    <2>6. /\ client' = Kept(p.b, p.b.size, p.out = "wait", r, p.data)
          /\ handled' = done /\ conn' = "open"
      BY <1>6, <2>2, <2>4, <2>5
    <2>7. client' = Kept(Erase(Vec(a), n), L - n, FALSE, r, BodyOf(r))
      BY <2>1, <2>4, <2>6
    <2>8. handled' = Append(handled, [r |-> r, data |-> BodyOf(r)])
      BY <2>1, <2>6 DEF done
    <2> QED
      BY <1>8, <2>6, <2>7, <2>8 DEF BodyTaken, n
  <1> QED
    BY <1>2, <1>3, <1>7, <1>8
\* The buffer a is too short for an empty line.
LEMMA HeaderAwaited ==
    ASSUME conn = "open", ~client.pending, client.find_last_pos \in Nat,
           NEW a \in Stream, Len(a) <= 1, Process(Vec(a))
    PROVE  /\ conn' = "open" /\ handled' = handled
           /\ client' = Kept(Vec(a), Len(a), FALSE, client.request, client.data)
  <1> DEFINE p == Outcome("none", Vec(a), client.data)
  <1>1. p.out = "none" /\ p.b = Vec(a) /\ p.data = client.data
    BY OutcomeFields
  <1>2. Vec(a).mem = a /\ Vec(a).size = Len(a)
    BY VecFacts
  <1>3. Unpack(p, handled)
    <2>1. \/ p.out \in {"none", "wait"} /\ Unpack(p, handled)
          \/ p.out \in {"handled", "dropped", "refused", "overrun"}
      BY DEF Process
    <2> HIDE DEF p
    <2> QED
      BY <1>1, <2>1
  <1> HIDE DEF p
  <1>4. FindBlank(p.b.mem, client.find_last_pos) = 0
    BY <1>1, <1>2, NoBlank
  <1>5. ~BadHeader(p, handled) /\ ~GoodHeader(p, handled)
    BY <1>4 DEF BadHeader, GoodHeader
  <1>6. /\ client' = Kept(p.b, p.b.size, p.out = "wait", client.request, p.data)
        /\ handled' = handled /\ conn' = conn
    BY <1>3, <1>5 DEF Unpack, NoHeader
  <1> QED
    BY <1>1, <1>2, <1>6

LEMMA UsualFacts ==
    ASSUME Sent, Usual
    PROVE  /\ \A r \in DOMAIN script : script[r] \in Ordinary
           /\ cuts \in {"whole", "bodies", "lines"}
           /\ cuts = "bodies" => \A r \in DOMAIN script : script[r] \in Plain
           /\ cuts = "lines" => /\ Len(script) = 1
                                /\ script[1] \in {"get", "post", "length", "short"}
  <1>1. \A r \in DOMAIN script : script[r] \in Ordinary
    BY DEF Usual, Plain, Range, Ordinary
  <1>2. ASSUME cuts = "lines"
        PROVE  Len(script) = 1 /\ script[1] \in {"get", "post", "length", "short"}
    <2>1. script \in {<<"get">>, <<"post">>, <<"length">>, <<"short">>}
      BY <1>2 DEF Usual
    <2> QED
      BY <2>1
  <1>3. cuts = "bodies" => \A r \in DOMAIN script : script[r] \in Plain
    BY DEF Usual, Range
  <1> QED
    BY <1>1, <1>2, <1>3 DEF Usual

\* What follows a request of the script.
LEMMA AfterRequest ==
    ASSUME Script(script), NEW k \in 0..Len(script)
    PROVE  After(k) = Encode(script, k + 1)
  <1> DEFINE e == Encode(script, k + 1)
  <1>1. k \in Nat /\ k + 1 \in 1..Len(script) + 1
    BY DEF Script
  <1>2. Before(k) = <<>> /\ Place(k) = k
    BY <1>1 DEF Before, Place
  <1>3. e \in Stream
    BY <1>1, EncodeFacts
  <1> HIDE DEF e
  <1>4. <<>> \o e = e
    BY <1>3, ConcatEmptySeq DEF Stream
  <1> QED
    BY <1>2, <1>4 DEF After, e

\* Where the requests after the r-th begin.
LEMMA NextStarts ==
    ASSUME Sent, NEW r \in 0..Len(script)
    PROVE  /\ Encode(script, r + 1) \in Stream
           /\ Len(Encode(script, r + 1)) >= 1 =>
                /\ r + 1 \in DOMAIN script /\ Len(Encode(script, r + 1)) >= 3
                /\ Starts(Encode(script, r + 1)[1])
                /\ Encode(script, r + 1)[2] = NL /\ Encode(script, r + 1)[3] = NL
           /\ r = Len(script) => Encode(script, r + 1) = <<>>
  <1>1. Script(script) /\ Len(script) \in Nat /\ DOMAIN script = 1..Len(script)
    BY SentScript
  <1>2. r + 1 \in 1..Len(script) + 1
    BY <1>1
  <1>3. Encode(script, r + 1) \in Stream /\ (r = Len(script) => Encode(script, r + 1) = <<>>)
    BY <1>1, <1>2, EncodeFacts
  <1>4. ASSUME Len(Encode(script, r + 1)) >= 1
        PROVE  /\ r + 1 \in DOMAIN script /\ Len(Encode(script, r + 1)) >= 3
               /\ Encode(script, r + 1)[1] = H(r + 1)
               /\ Encode(script, r + 1)[2] = NL /\ Encode(script, r + 1)[3] = NL
    <2>1. Len(Encode(script, r + 1)) > 0
      BY <1>3, <1>4 DEF Stream
    <2> QED
      BY <1>1, <2>1, NextRequest
  <1>5. Starts(H(r + 1))
    BY <1>1 DEF H, Tok, Starts
  <1> QED
    BY <1>3, <1>4, <1>5

\* Request r, its header and its body, in front of the requests after it.
LEMMA WholeRequest ==
    ASSUME Sent, NEW r \in DOMAIN script, script[r] \in Ordinary
    PROVE  LET x == Header(r) \o Body(r, script[r])
               n == Len(Body(r, script[r]))
           IN  /\ x \in Stream /\ Cut(Encode(script, r), x, Encode(script, r + 1))
               /\ Len(x) = 3 + n /\ \A j \in 2..Len(x) : ~Starts(x[j])
               /\ \A j \in 1..n : x[3 + j] = Body(r, script[r])[j]
               /\ x[2] = NL /\ x[3] = NL
  <1> DEFINE h == Header(r)
             d == Body(r, script[r])
             x == h \o d
             e == Encode(script, r + 1)
  <1>1. Script(script) /\ r \in 1..Len(script) /\ r \in Nat
    BY SentScript
  <1>2. h \in Stream /\ Len(h) = 3 /\ h[2] = NL /\ h[3] = NL
    BY <1>1, HeaderStream
  <1>3. d \in Stream /\ Len(d) \in 0..8 /\ NoStart(d)
    BY <1>1, BodyShape
  <1>4. Encode(script, r) = x \o e
    BY <1>1, EncodeFacts DEF Item
  <1> HIDE DEF h, d, e
  <1>5. /\ x \in Stream /\ Len(x) = 3 + Len(d)
        /\ \A j \in 1..3 : x[j] = h[j]
        /\ \A j \in 1..Len(d) : x[3 + j] = d[j]
    <2>1. /\ x \in Stream /\ Len(x) = Len(h) + Len(d)
          /\ \A j \in 1..Len(h) : x[j] = h[j]
          /\ \A j \in 1..Len(d) : x[Len(h) + j] = d[j]
      BY <1>2, <1>3, ConcatFacts
    <2> HIDE DEF x
    <2> QED
      BY <1>2, <2>1
  <1> HIDE DEF x
  <1>6. x[2] = NL /\ x[3] = NL /\ ~Starts(NL)
    BY <1>2, <1>5 DEF NL, Tok, Starts
  <1>7. ASSUME NEW j \in 2..Len(x) PROVE ~Starts(x[j])
    <2>1. CASE j \in 2..3
      <3>1. j = 2 \/ j = 3
        BY <2>1
      <3> QED
        BY <1>6, <3>1
    <2>2. CASE j \notin 2..3
      <3>1. j - 3 \in 1..Len(d) /\ 3 + (j - 3) = j
        BY <1>3, <1>5, <2>2
      <3> QED
        BY <1>3, <1>5, <3>1 DEF NoStart
    <2> QED
      BY <2>1, <2>2
  <1>8. Cut(Encode(script, r), x, e)
    BY <1>4 DEF Cut
  <1> QED
    BY <1>5, <1>6, <1>7, <1>8 DEF x, h, d, e

\* An event has appended n tokens to the buffer, which holds the beginning of s.
Arrived(a, n, s) ==
    /\ a \in Stream /\ net' \in Stream /\ Holds(Vec(a), net', s) /\ LastRead(a, n, net')
    /\ Len(a) = Len(client.buffer) + n
    /\ Len(s) = Len(client.buffer) + Len(net) /\ Len(s) = Len(a) + Len(net')
    /\ client.buffer = <<>> => net = s
    /\ TooLarge(a) \/ Process(Vec(a))

LEMMA EventArrives ==
    ASSUME ClientOK(client), net \in Stream, NEW n \in 1..Len(net), Event(n), NEW s,
           Holds(Vec(client.buffer), net, s)
    PROVE  \E a : Arrived(a, n, s)
  <1> DEFINE b == client.buffer
             a == b \o SubSeq(net, 1, n)
             z == SubSeq(net, n + 1, Len(net))
  <1>1. /\ net' = z /\ (TooLarge(a) \/ Process(Vec(a)))
    BY DEF Event
  <1>2. b \in Stream /\ Len(b) \in Nat /\ Holds(Vec(b), net, s) /\ Len(net) \in Nat
    BY DEF ClientOK, Stream
  <1>3. Len(SubSeq(net, 1, n)) = n /\ SubSeq(net, 1, n) \in Stream
    <2>1. 1 \in 1..Len(net) + 1 /\ n \in (1 - 1)..Len(net) /\ n - 1 + 1 = n
      BY <1>2
    <2> QED
      BY <2>1, SubFacts
  <1>4. Vec(b).size = Len(b) /\ Live(Vec(b)) = b
    BY <1>2, VecFacts
  <1>5. Len(s) = Len(b) + Len(net)
    BY <1>2, <1>4, ReadFront
  <1>6. b = <<>> => net = s
    <2>1. Live(Vec(b)) \o net = s
      BY <1>2 DEF Holds
    <2> QED
      BY <1>4, <2>1, ConcatEmptySeq DEF Stream
  <1> HIDE DEF b
  <1>7. /\ a \in Stream /\ z \in Stream /\ Holds(Vec(a), z, s)
        /\ Len(a) >= 1 /\ a[Len(a)] = net[n]
        /\ Len(z) >= 1 => n < Len(net) /\ z[1] = net[n + 1]
    BY <1>2, Arrives
  <1>8. Len(a) = Len(b) + n
    BY <1>2, <1>3, ConcatFacts
  <1> HIDE DEF a, z
  <1>9. Len(s) = Len(a) + Len(z)
    <2>1. Vec(a).size = Len(a)
      BY <1>7, VecFacts
    <2> QED
      BY <1>7, <2>1, ReadFront
  <1>10. Arrived(a, n, s)
    BY <1>1, <1>5, <1>6, <1>7, <1>8, <1>9 DEF Arrived, LastRead, b
  <1> QED
    BY <1>10

\* What an event brings to the front of request r: all of it, its header, or
\* the beginning of its header line.
LEMMA HeaderPiece ==
    ASSUME Sent, Usual, NEW r \in DOMAIN script, r - 1 \in 0..Len(script),
           NEW n \in 1..Len(net), CutAt(n), NEW a, Arrived(a, n, Encode(script, r)),
           cuts # "lines" => client.buffer = <<>>
    PROVE  LET m == Len(Body(r, script[r]))
           IN  /\ Len(a) <= 3 + m
               /\ (Len(a) = 1 /\ cuts = "lines") \/ Len(a) >= 3
               /\ cuts # "lines" => Len(a) = 3 + m \/ Len(a) = 3
               /\ Len(a) >= 3 /\ script[r] \notin {"length", "short"} => Len(a) - 3 >= m
  <1> DEFINE x == Header(r) \o Body(r, script[r])
             d == Body(r, script[r])
             m == Len(d)
             s == Encode(script, r)
             y == Encode(script, r + 1)
             L == Len(a)
  <1>1. Script(script) /\ DOMAIN script = 1..Len(script) /\ r \in 1..Len(script) /\ r \in Nat
        /\ Len(script) \in Nat /\ r \in 0..Len(script) /\ (r - 1) + 1 = r
    BY SentScript
  <1>2. script[r] \in Ordinary
    BY UsualFacts
  <1>3. /\ d \in Stream /\ m \in 0..8 /\ m \in Nat
        /\ script[r] \in {"get", "post"} => m = 0
        /\ script[r] = "chunked" => m = 8 /\ d[1].t = "C"
    BY <1>1, <1>2, BodyShape
  <1>4. /\ x \in Stream /\ Cut(s, x, y) /\ Len(x) = 3 + m
        /\ \A j \in 2..Len(x) : ~Starts(x[j])
        /\ \A j \in 1..m : x[3 + j] = d[j]
        /\ x[2] = NL /\ x[3] = NL
    BY <1>2, WholeRequest
  <1>5. y \in Stream /\ (Len(y) >= 1 => Starts(y[1])) /\ (r = Len(script) => y = <<>>)
    BY <1>1, NextStarts
  <1>6. /\ a \in Stream /\ net' \in Stream /\ Holds(Vec(a), net', s) /\ LastRead(a, n, net')
        /\ L = Len(client.buffer) + n /\ Len(s) = L + Len(net')
        /\ client.buffer = <<>> => net = s
    BY DEF Arrived
  <1>7. L \in Nat /\ Len(net') \in Nat /\ n \in Nat /\ n >= 1
    BY <1>6 DEF Stream
  <1> HIDE DEF x, d, s, y, m, L
  <1>8. /\ Len(s) = Len(x) + Len(y) /\ Len(y) \in Nat
        /\ \A j \in 1..Len(x) : s[j] = x[j]
        /\ \A j \in 1..Len(y) : s[Len(x) + j] = y[j]
    BY <1>4, <1>5, ConcatFacts DEF Cut
  <1>9. CASE cuts # "lines"
    <2>1. net = s /\ Len(client.buffer) = 0
      BY <1>6, <1>9
    <2>2. L = n
      BY <1>6, <1>7, <2>1
    <2>3. EndsRequest(n) \/ (cuts = "bodies" /\ EndsHeader(n))
      <3>1. cuts \in {"whole", "bodies"}
        BY <1>9, UsualFacts
      <3> QED
        BY <3>1 DEF CutAt
    <2>4. CASE EndsRequest(n)
      <3>1. Cut(net, x, y) /\ Len(x) >= 1
        BY <1>3, <1>4, <2>1
      <3>2. n = Len(x)
        BY <1>4, <1>5, <2>4, <3>1, RequestEnds
      <3>3. L = 3 + m
        BY <1>4, <2>2, <3>2
      <3> QED
        BY <1>3, <3>3 DEF L, m, d
    <2>5. CASE cuts = "bodies" /\ EndsHeader(n)
      <3>1. L = 3 /\ Len(s) > 3 /\ ~Starts(s[4]) /\ s[4].t # "C"
        <4>1. n = 3 /\ n < Len(net) /\ ~Starts(net[4]) /\ net[4].t \in {"D", "H"}
          BY <2>5 DEF EndsHeader
        <4> QED
          BY <2>1, <2>2, <4>1
      <3>2. m # 0
        <4>1. SUFFICES ASSUME m = 0 PROVE FALSE
          OBVIOUS
        <4>2. Len(x) = 3 /\ Len(y) >= 1
          BY <1>4, <1>8, <3>1, <4>1
        <4>3. 1 \in 1..Len(y) /\ Len(x) + 1 = 4
          BY <1>8, <4>2
        <4>4. s[4] = y[1]
          BY <1>8, <4>3
        <4> QED
          BY <1>5, <3>1, <4>2, <4>4
      <3>3. script[r] # "chunked"
        <4>1. SUFFICES ASSUME script[r] = "chunked" PROVE FALSE
          OBVIOUS
        <4>2. 1 \in 1..m /\ 4 \in 1..Len(x) /\ 3 + 1 = 4
          <5>1. m = 8 /\ Len(x) = 3 + m
            BY <1>3, <1>4, <4>1
          <5> QED
            BY <5>1
        <4>3. x[4] = d[1] /\ s[4] = x[4]
          BY <1>4, <1>8, <4>2
        <4> QED
          BY <1>3, <3>1, <4>1, <4>3
      <3>4. script[r] \in {"length", "short"}
        <4>1. script[r] \in Plain
          BY <1>1, <2>5, UsualFacts
        <4> QED
          BY <1>3, <3>2, <3>3, <4>1 DEF Plain
      <3> QED
        BY <1>3, <3>1, <3>4 DEF L, m, d
    <2> QED
      BY <2>3, <2>4, <2>5
  <1>10. CASE cuts = "lines"
    <2>1. cuts = "lines" /\ Len(script) = 1 /\ script[1] \in {"get", "post", "length", "short"}
      BY <1>10, UsualFacts
    <2>2. r = 1 /\ y = <<>>
      BY <1>1, <1>5, <2>1
    <2>3. Len(s) = 3 + m
      BY <1>3, <1>4, <1>8, <2>2
    <2>4. L <= 3 + m
      BY <1>3, <1>6, <1>7, <2>3
    <2>5. L >= 1
      BY <1>6, <1>7 DEF LastRead, L
    <2>6. L # 2
      <3>1. SUFFICES ASSUME L = 2 PROVE FALSE
        OBVIOUS
      <3>2. Vec(a).mem = a /\ Vec(a).size = L
        BY <1>6, VecFacts DEF L
      <3>3. /\ \A j \in 1..L : a[j] = s[j]
            /\ \A j \in 1..Len(net') : net'[j] = s[L + j]
        <4> DEFINE b == Vec(a)
             z == net'
        <4>1. Holds(b, z, s)
          BY <1>6
        <4>2. b.mem = a /\ b.size = L
          BY <3>2
        <4> HIDE DEF b, z
        <4>3. /\ \A j \in 1..b.size : b.mem[j] = s[j]
              /\ \A j \in 1..Len(z) : z[j] = s[b.size + j]
          BY <4>1, ReadFront
        <4> QED
          BY <4>2, <4>3 DEF z
      <3>4. Len(net') >= 1 /\ 1 \in 1..Len(net') /\ 2 \in 1..L /\ L + 1 = 3
        BY <1>3, <1>6, <1>7, <2>3, <3>1
      <3>5. a[2] = s[2] /\ net'[1] = s[3]
        BY <3>3, <3>4
      <3>6. s[2] = NL /\ s[3] = NL
        <4>1. 2 \in 1..Len(x) /\ 3 \in 1..Len(x)
          BY <1>3, <1>4
        <4> QED
          BY <1>4, <1>8, <4>1
      <3>7. a[Len(a)] = NL /\ net'[1] = NL /\ Len(net') >= 1
        BY <3>1, <3>4, <3>5, <3>6 DEF L
      <3>8. cuts = "anywhere"
        BY <1>6, <3>7, CutInside
      <3> QED
        BY <2>1, <3>8
    <2>7. script[r] \notin {"length", "short"} => m = 0
      BY <1>3, <2>1, <2>2
    <2>8. L = 1 \/ L >= 3
      BY <1>7, <2>5, <2>6
    <2>9. L >= 3 /\ script[r] \notin {"length", "short"} => L - 3 >= m
      BY <1>7, <2>7
    <2> QED
      BY <1>10, <2>4, <2>8, <2>9 DEF L, m, d
  <1> QED
    BY <1>9, <1>10

\* What an event brings of the body of the pending request r.
LEMMA BodyPiece ==
    ASSUME Sent, Usual, NEW r \in DOMAIN script, script[r] \in {"length", "short"},
           NEW n \in 1..Len(net), CutAt(n), NEW a, Arrived(a, n, Ahead(r, <<>>)),
           cuts # "lines" => client.buffer = <<>>
    PROVE  LET m == Len(Body(r, script[r]))
           IN  /\ Len(a) <= m /\ m \in 1..2
               /\ cuts # "lines" => Len(a) = m
               /\ \A j \in 1..Len(a) : a[j].t = "D"
  <1> DEFINE x == Body(r, script[r])
             m == Len(x)
             s == Ahead(r, <<>>)
             y == Encode(script, r + 1)
             L == Len(a)
  <1>1. Script(script) /\ DOMAIN script = 1..Len(script) /\ r \in 1..Len(script) /\ r \in Nat
        /\ Len(script) \in Nat /\ r \in 0..Len(script)
    BY SentScript
  <1>2. script[r] \in Ordinary
    BY DEF Ordinary
  <1>3. x \in Stream /\ m \in 1..2 /\ (\A j \in 1..m : x[j].t = "D") /\ NoStart(x)
    BY <1>1, <1>2, BodyShape
  <1>4. Cut(s, x, y)
    BY <1>1, AheadStream
  <1>5. /\ y \in Stream
        /\ Len(y) >= 1 => Starts(y[1])
        /\ r = Len(script) => y = <<>>
    BY <1>1, NextStarts
  <1>6. /\ a \in Stream /\ net' \in Stream /\ Holds(Vec(a), net', s)
        /\ L = Len(client.buffer) + n /\ Len(s) = L + Len(net')
        /\ client.buffer = <<>> => net = s
    BY DEF Arrived
  <1>7. L \in Nat /\ Len(net') \in Nat /\ n \in Nat /\ n >= 1
    BY <1>6 DEF Stream
  <1>8. m = Len(x) /\ L = Len(a)
    OBVIOUS
  <1> HIDE DEF x, s, y, m, L
  <1>9. /\ Len(s) = m + Len(y) /\ Len(y) \in Nat
        /\ \A j \in 1..m : s[j] = x[j]
        /\ \A j \in 1..Len(y) : s[m + j] = y[j]
    BY <1>3, <1>4, <1>5, ConcatFacts DEF Cut, m
  <1>10. L <= m /\ (cuts # "lines" => L = m)
    <2>1. CASE cuts # "lines"
      <3>1. net = s /\ Len(client.buffer) = 0
        BY <1>6, <2>1
      <3>2. L = n
        BY <1>6, <1>7, <3>1
      <3>3. EndsRequest(n)
        <4>1. EndsRequest(n) \/ EndsHeader(n)
          <5>1. cuts \in {"whole", "bodies"}
            BY <2>1, UsualFacts
          <5> QED
            BY <5>1 DEF CutAt
        <4>2. ~Starts(net[1])
          <5>1. 1 \in 1..m
            BY <1>3
          <5>2. net[1] = x[1] /\ x[1].t = "D"
            BY <1>3, <1>9, <3>1, <5>1
          <5> QED
            BY <5>2 DEF Starts
        <4> QED
          BY <4>1, <4>2 DEF EndsHeader
      <3>4. /\ Cut(net, x, y) /\ Len(x) >= 1 /\ \A j \in 2..Len(x) : ~Starts(x[j])
            /\ Len(y) >= 1 => Starts(y[1])
        <4>1. \A j \in 2..Len(x) : ~Starts(x[j])
          BY <1>3 DEF NoStart, Stream
        <4>2. Cut(net, x, y) /\ Len(x) >= 1
          BY <1>3, <1>4, <1>8, <3>1
        <4> QED
          BY <1>5, <4>1, <4>2
      <3>5. n = Len(x)
        BY <1>3, <1>5, <3>3, <3>4, RequestEnds
      <3> QED
        BY <1>3, <1>8, <3>2, <3>5
    <2>2. CASE cuts = "lines"
      <3>1. Len(script) = 1
        BY <2>2, UsualFacts
      <3>2. y = <<>>
        BY <1>1, <1>5, <3>1
      <3>3. Len(s) = m
        BY <1>3, <1>9, <3>2
      <3> QED
        BY <1>3, <1>6, <1>7, <2>2, <3>3
    <2> QED
      BY <2>1, <2>2
  <1>11. \A j \in 1..L : a[j].t = "D"
    <2> DEFINE b == Vec(a)
    <2>1. b.mem = a /\ b.size = L /\ Holds(b, net', s)
      BY <1>6, <1>8, VecFacts
    <2> HIDE DEF b
    <2>2. \A j \in 1..b.size : b.mem[j] = s[j]
      BY <2>1, ReadFront
    <2>3. ASSUME NEW j \in 1..L PROVE a[j].t = "D"
      <3>1. j \in 1..m
        BY <1>3, <1>7, <1>10
      <3> QED
        BY <1>3, <1>9, <2>1, <2>2, <3>1
    <2> QED
      BY <2>3
  <1> QED
    BY <1>3, <1>10, <1>11, <1>8 DEF x
\* What a usual connection looks like between two events: it is open, everything
\* before the request at hand is answered, and a body is pending only if some of
\* it is missing.
Serving(cl, cn, hd) ==
    /\ cn = "open"
    /\ IF cl.pending
       THEN /\ script[cl.request] \in {"length", "short"}
            /\ Len(cl.buffer) < Len(Body(cl.request, script[cl.request]))
            /\ Answered(hd, cl.request - 1)
       ELSE Len(cl.buffer) <= 1 /\ Answered(hd, cl.request)
    /\ cl.request \in 0..Len(script)
    /\ cuts # "lines" => cl.buffer = <<>>

ServedInv == HttpInv /\ (Usual => Serving(client, conn, handled))

\* The package limit leaves room for the longest well-formed request.
Roomy == MaxPackage = 0 \/ MaxPackage >= 11

KeptAs(cl, b, pending, r) ==
    /\ cl.pending = pending /\ cl.request = r
    /\ Len(cl.buffer) = b.size
    /\ b.size = 0 => cl.buffer = <<>>

LEMMA KeptFields ==
    ASSUME NEW b, Vector(b), NEW flp, NEW pending, NEW r, NEW data,
           NEW cl, cl = Kept(b, flp, pending, r, data)
    PROVE  KeptAs(cl, b, pending, r)
  <1>1. Live(b) \in Stream /\ Len(Live(b)) = b.size
    BY LiveFacts
  <1>2. Len(Live(b)) = 0 => Live(b) = <<>>
    BY <1>1, EmptySeq DEF Stream
  <1> QED
    BY <1>1, <1>2 DEF Kept, KeptAs

LEMMA FitsPackage ==
    ASSUME Roomy, NEW a \in Stream, Len(a) <= 11
    PROVE  ~TooLarge(a)
  <1>1. Len(a) \in Nat /\ MaxPackage \in Nat
    BY HttpConstants DEF Stream
  <1> QED
    BY <1>1 DEF Roomy, TooLarge

\* An event while no request is pending.
LEMMA ServeHeader ==
    ASSUME Roomy, HttpInv, Usual, Serving(client, conn, handled), ~client.pending,
           NEW n \in 1..Len(net), Event(n)
    PROVE  Serving(client', conn', handled')
  <1> DEFINE k == client.request
             r == k + 1
             s == Encode(script, r)
             y == Encode(script, r + 1)
             m == Len(Body(r, script[r]))
  <1>15. /\ Sent /\ ClientOK(client) /\ net \in Stream /\ conn = "open" /\ CutAt(n)
         /\ Holds(Vec(client.buffer), net, After(client.request))
         /\ handled \in Seq([r : Int, data : Stream])
         /\ client.request \in 0..Len(script) /\ client.buffer \in Stream
    BY DEF HttpInv, Sound, Follows, Serving, ClientOK, Past, Event
  <1>1. /\ Sent /\ ClientOK(client) /\ net \in Stream /\ conn = "open" /\ CutAt(n)
        /\ Holds(Vec(client.buffer), net, Encode(script, client.request + 1))
        /\ handled \in Seq([r : Int, data : Stream])
        /\ client.request \in 0..Len(script) /\ client.buffer \in Stream
    <2>1. After(client.request) = Encode(script, client.request + 1)
      BY <1>15, SentScript, AfterRequest
    <2> QED
      BY <1>15, <2>1
  <1>2. /\ Len(client.buffer) <= 1 /\ Answered(handled, k)
        /\ cuts # "lines" => client.buffer = <<>>
    BY DEF Serving
  <1>3. client.find_last_pos \in 0..1 /\ client.find_last_pos \in Nat
    <2>1. client.find_last_pos \in 0..Len(client.buffer) /\ Len(client.buffer) \in Nat
      BY <1>1 DEF ClientOK, Stream
    <2> QED
      BY <1>2, <2>1
  <1>4. Script(script) /\ Len(script) \in Nat /\ DOMAIN script = 1..Len(script)
    BY <1>1, SentScript
  <1>5. PICK a : Arrived(a, n, s)
    <2>1. Holds(Vec(client.buffer), net, s)
      BY <1>1
    <2> HIDE DEF s
    <2> QED
      BY <1>1, <2>1, EventArrives
  <1>6. /\ a \in Stream /\ net' \in Stream /\ Holds(Vec(a), net', s)
        /\ Len(s) = Len(a) + Len(net') /\ (TooLarge(a) \/ Process(Vec(a)))
        /\ Len(a) >= 1 /\ Len(a) \in Nat /\ Len(net') \in Nat
    BY <1>5 DEF Arrived, LastRead, Stream
  <1>7. r \in DOMAIN script /\ r - 1 = k /\ r - 1 \in 0..Len(script) /\ r \in 0..Len(script)
        /\ r \in Nat /\ r >= 1
    <2>1. Len(s) >= 1
      <3> HIDE DEF s
      <3> QED
        BY <1>6
    <2>2. k \in 0..Len(script)
      BY <1>1
    <2>3. k + 1 \in DOMAIN script
      BY <1>1, <2>1, <2>2, NextStarts
    <2> QED
      BY <1>4, <2>2, <2>3
  <1>8. script[r] \in Ordinary
    BY <1>1, <1>7, UsualFacts
  <1> HIDE DEF r, k
  <1>9. /\ Len(a) <= 3 + m
        /\ (Len(a) = 1 /\ cuts = "lines") \/ Len(a) >= 3
        /\ cuts # "lines" => Len(a) = 3 + m \/ Len(a) = 3
        /\ Len(a) >= 3 /\ script[r] \notin {"length", "short"} => Len(a) - 3 >= m
    BY <1>1, <1>2, <1>5, <1>7, HeaderPiece
  <1>10. m \in 0..8 /\ m \in Nat
    BY <1>4, <1>7, <1>8, BodyShape
  <1>11. Process(Vec(a))
    <2>1. Len(a) <= 11
      <3> HIDE DEF m
      <3> QED
        BY <1>6, <1>9, <1>10
    <2> QED
      BY <1>6, <2>1, FitsPackage
  <1>12. Vector(Vec(a)) /\ Vec(a).size = Len(a)
    BY <1>6, VecFacts
  <1>13. CASE Len(a) = 1 /\ cuts = "lines"
    <2>1. /\ conn' = "open" /\ handled' = handled
          /\ client' = Kept(Vec(a), Len(a), FALSE, k, client.data)
      BY <1>1, <1>3, <1>6, <1>11, <1>13, HeaderAwaited DEF k
    <2>2. /\ client'.pending = FALSE /\ client'.request = k
          /\ Len(client'.buffer) = 1
      <3>1. KeptAs(client', Vec(a), FALSE, k)
        BY <1>12, <2>1, KeptFields
      <3> QED
        BY <1>12, <1>13, <3>1 DEF KeptAs
    <2>3. Answered(handled', client'.request)
      BY <1>2, <2>1, <2>2
    <2>4. Len(client'.buffer) <= 1 /\ cuts = "lines" /\ client'.request \in 0..Len(script)
      BY <1>1, <1>13, <2>2 DEF k
    <2> QED
      BY <2>1, <2>2, <2>3, <2>4 DEF Serving
  <1>14. CASE Len(a) >= 3
    <2>1. PICK q : Taken(a, r, q)
      <3>1. Holds(Vec(a), net', Encode(script, r))
        BY <1>6
      <3>2. script[r] \notin {"length", "short"} => Len(a) - 3 >= Len(Body(r, script[r]))
        BY <1>9, <1>14
      <3> QED
        BY <1>1, <1>3, <1>6, <1>7, <1>8, <1>11, <1>14, <3>1, <3>2, HeaderTaken
    <2>2. conn' = "open" /\ Erase(Vec(a), 3).size = Len(a) - 3
      BY <2>1 DEF Taken
    <2>3. CASE /\ client' = Kept(q.b, 0, FALSE, r, q.data)
               /\ handled' = Append(handled, [r |-> r, data |-> q.data])
               /\ Holds(q.b, net', Encode(script, r + 1)) /\ q.data = BodyOf(r)
      <3>1. Len(s) = 3 + m + Len(y) /\ Len(y) \in Nat
        <4> DEFINE x == Header(r) \o Body(r, script[r])
        <4>1. x \in Stream /\ Cut(s, x, y) /\ Len(x) = 3 + m
          BY <1>1, <1>7, <1>8, WholeRequest
        <4>2. y \in Stream
          BY <1>1, <1>7, NextStarts
        <4> HIDE DEF x, s, y, m
        <4> QED
          BY <4>1, <4>2, ConcatFacts DEF Cut
      <3>2. Vector(q.b) /\ Len(y) = q.b.size + Len(net') /\ q.b.size \in Nat
        <4>1. Holds(q.b, net', y)
          BY <2>3
        <4> HIDE DEF y
        <4>2. Vector(q.b)
          BY <4>1 DEF Holds
        <4> QED
          BY <4>1, <4>2, ReadFront
      <3> HIDE DEF s, y, m
      <3>3. q.b.size = 0
        <4> DEFINE la == Len(a)
                   ln == Len(net')
                   ly == Len(y)
                   k0 == q.b.size
        <4>1. la \in Nat /\ ln \in Nat /\ ly \in Nat /\ k0 \in Nat /\ m \in Nat
          BY <1>6, <1>10, <3>1, <3>2
        <4>2. la + ln = 3 + m + ly /\ ly = k0 + ln
          BY <1>6, <3>1, <3>2
        <4>3. la <= 3 + m
          BY <1>9
        <4> HIDE DEF la, ln, ly, k0
        <4>4. k0 = 0
          BY <4>1, <4>2, <4>3
        <4> QED
          BY <4>4 DEF k0
      <3>4. /\ client'.pending = FALSE /\ client'.request = r
            /\ client'.buffer = <<>> /\ Len(client'.buffer) <= 1
        <4>1. /\ client'.pending = FALSE /\ client'.request = r /\ client'.buffer = <<>>
          <5>1. KeptAs(client', q.b, FALSE, r)
            BY <2>3, <3>2, KeptFields
          <5> QED
            BY <3>3, <5>1 DEF KeptAs
        <4> QED
          BY <4>1
      <3>5. Answered(handled', r)
        <4>1. BodyOf(r) \in Stream
          BY <1>4, <1>7, RequestFacts DEF IsRequest
        <4>2. Answered(handled, r - 1)
          BY <1>2, <1>7
        <4>3. Answered(Append(handled, [r |-> r, data |-> BodyOf(r)]), r)
          BY <1>1, <1>7, <4>1, <4>2, AnsweredAppend
        <4> QED
          BY <2>3, <4>3
      <3> QED
        BY <1>7, <2>2, <3>4, <3>5 DEF Serving
    <2>4. CASE /\ Len(a) - 3 < m /\ script[r] \in {"length", "short"}
               /\ client' = Kept(Erase(Vec(a), 3), 0, TRUE, r, <<>>)
               /\ handled' = handled
      <3>1. Vector(Erase(Vec(a), 3))
        <4>1. 3 \in 0..Vec(a).size
          BY <1>6, <1>12, <1>14
        <4> QED
          BY <1>12, <4>1, EraseFacts
      <3>2. /\ client'.pending = TRUE /\ client'.request = r
            /\ Len(client'.buffer) = Len(a) - 3
            /\ Len(a) - 3 = 0 => client'.buffer = <<>>
        <4> DEFINE e == Erase(Vec(a), 3)
        <4>1. Vector(e) /\ client' = Kept(e, 0, TRUE, r, <<>>) /\ e.size = Len(a) - 3
          BY <2>2, <2>4, <3>1
        <4> HIDE DEF e
        <4>2. KeptAs(client', e, TRUE, r)
          BY <4>1, KeptFields
        <4> QED
          BY <4>1, <4>2 DEF KeptAs
      <3>3. cuts # "lines" => Len(a) - 3 = 0
        <4> HIDE DEF m
        <4> QED
          BY <1>6, <1>9, <1>10, <2>4
      <3>4. Answered(handled', r - 1)
        BY <1>2, <1>7, <2>4
      <3>5. Len(client'.buffer) < Len(Body(r, script[r]))
        BY <2>4, <3>2
      <3> QED
        BY <1>7, <2>2, <2>4, <3>2, <3>3, <3>4, <3>5 DEF Serving
    <2> QED
      BY <2>1, <2>3, <2>4 DEF Taken
  <1> QED
    BY <1>9, <1>13, <1>14

\* An event while a request waits for its body.
LEMMA ServeBody ==
    ASSUME Roomy, HttpInv, Usual, Serving(client, conn, handled), client.pending,
           NEW n \in 1..Len(net), Event(n)
    PROVE  Serving(client', conn', handled')
  <1> DEFINE r == client.request
             s == Ahead(r, <<>>)
             m == Len(Body(r, script[r]))
  <1>1. /\ Sent /\ ClientOK(client) /\ net \in Stream /\ conn = "open" /\ CutAt(n)
        /\ Holds(Vec(client.buffer), net, Ahead(r, client.data))
        /\ DataSoFar(r, client.data) /\ r \in DOMAIN script
        /\ handled \in Seq([r : Int, data : Stream]) /\ client.buffer \in Stream
    BY DEF HttpInv, Sound, Follows, Serving, ClientOK, Past, Event
  <1>2. /\ script[r] \in {"length", "short"} /\ Answered(handled, r - 1)
        /\ cuts # "lines" => client.buffer = <<>>
    BY DEF Serving
  <1>3. client.data = <<>>
    BY <1>1, <1>2 DEF DataSoFar
  <1>4. Script(script) /\ Len(script) \in Nat /\ DOMAIN script = 1..Len(script)
    BY <1>1, SentScript
  <1>5. client.find_last_pos \in Nat /\ r \in Nat /\ r >= 1 /\ r \in 0..Len(script)
    <2>1. client.find_last_pos \in 0..Len(client.buffer) /\ Len(client.buffer) \in Nat
      BY <1>1 DEF ClientOK, Stream
    <2>2. r \in 1..Len(script)
      BY <1>1, <1>4
    <2> QED
      BY <1>4, <2>1, <2>2
  <1>6. PICK a : Arrived(a, n, s)
    <2>1. Holds(Vec(client.buffer), net, s)
      BY <1>1, <1>3
    <2> HIDE DEF s
    <2> QED
      BY <1>1, <2>1, EventArrives
  <1>7. /\ a \in Stream /\ Holds(Vec(a), net', s) /\ (TooLarge(a) \/ Process(Vec(a)))
        /\ Len(a) \in Nat
    BY <1>6 DEF Arrived, Stream
  <1>8. /\ Len(a) <= m /\ m \in 1..2 /\ (cuts # "lines" => Len(a) = m)
        /\ \A j \in 1..Len(a) : a[j].t = "D"
    <2> HIDE DEF r
    <2> QED
      BY <1>1, <1>2, <1>6, BodyPiece
  <1>9. Process(Vec(a))
    <2>1. Len(a) <= 11
      <3> HIDE DEF m
      <3> QED
        BY <1>7, <1>8
    <2> QED
      BY <1>7, <2>1, FitsPackage
  <1>10. BodyTaken(a, r)
    <2>1. r = client.request
      OBVIOUS
    <2> HIDE DEF r
    <2> QED
      BY <1>1, <1>2, <1>3, <1>5, <1>7, <1>8, <1>9, <2>1, LateBodyTaken
  <1>11. Vector(Vec(a)) /\ Vec(a).size = Len(a)
    BY <1>7, VecFacts
  <1> HIDE DEF r
  <1>12. /\ conn' = "open"
         /\ \/ /\ Len(a) < m
               /\ client' = Kept(Vec(a), Len(a), TRUE, r, <<>>)
               /\ handled' = handled
            \/ /\ Len(a) >= m
               /\ client' = Kept(Erase(Vec(a), m), Len(a) - m, FALSE, r, BodyOf(r))
               /\ handled' = Append(handled, [r |-> r, data |-> BodyOf(r)])
    BY <1>10 DEF BodyTaken
  <1>13. CASE /\ Len(a) < m
              /\ client' = Kept(Vec(a), Len(a), TRUE, r, <<>>) /\ handled' = handled
    <2>1. /\ client'.pending = TRUE /\ client'.request = r /\ Len(client'.buffer) = Len(a)
      <3>1. KeptAs(client', Vec(a), TRUE, r)
        BY <1>11, <1>13, KeptFields
      <3> QED
        BY <1>11, <3>1 DEF KeptAs
    <2>2. cuts = "lines"
      <3> HIDE DEF m
      <3> QED
        BY <1>7, <1>8, <1>13
    <2>3. Len(client'.buffer) < Len(Body(r, script[r]))
      BY <1>13, <2>1
    <2> QED
      BY <1>2, <1>5, <1>12, <1>13, <2>1, <2>2, <2>3 DEF Serving
  <1>14. CASE /\ Len(a) >= m
              /\ client' = Kept(Erase(Vec(a), m), Len(a) - m, FALSE, r, BodyOf(r))
              /\ handled' = Append(handled, [r |-> r, data |-> BodyOf(r)])
    <2>1. Vector(Erase(Vec(a), m)) /\ Erase(Vec(a), m).size = 0
      <3> DEFINE b == Vec(a)
      <3>1. m \in 0..b.size /\ b.size = Len(a) /\ b.size - m = 0 /\ Vector(b)
        <4> HIDE DEF m
        <4> QED
          BY <1>7, <1>8, <1>11, <1>14
      <3> HIDE DEF b, m
      <3>2. Vector(Erase(b, m)) /\ Erase(b, m).size = b.size - m
        BY <3>1, EraseFacts
      <3> QED
        BY <3>1, <3>2 DEF b
    <2>2. client'.pending = FALSE /\ client'.request = r /\ client'.buffer = <<>>
      <3> DEFINE e == Erase(Vec(a), m)
      <3>1. Vector(e) /\ e.size = 0 /\ client' = Kept(e, Len(a) - m, FALSE, r, BodyOf(r))
        BY <1>14, <2>1
      <3> HIDE DEF e, m
      <3> QED
        <4>1. KeptAs(client', e, FALSE, r)
          BY <3>1, KeptFields
        <4> QED
          BY <3>1, <4>1 DEF KeptAs
    <2>3. Len(client'.buffer) <= 1
      BY <2>2
    <2>4. Answered(handled', r)
      <3>1. BodyOf(r) \in Stream
        BY <1>1, <1>4, <1>5, RequestFacts DEF IsRequest
      <3>2. Answered(Append(handled, [r |-> r, data |-> BodyOf(r)]), r)
        BY <1>1, <1>2, <1>5, <3>1, AnsweredAppend
      <3> QED
        BY <1>14, <3>2
    <2> QED
      BY <1>5, <1>12, <2>2, <2>3, <2>4 DEF Serving
  <1> QED
    BY <1>12, <1>13, <1>14

LEMMA ServedInit == Init => ServedInv
  <1> SUFFICES ASSUME Init PROVE ServedInv
    OBVIOUS
  <1>1. HttpInv
    BY HttpInvInit
  <1>2. /\ client.buffer = <<>> /\ client.pending = FALSE /\ client.request = 0
        /\ conn = "open" /\ handled = <<>>
    BY DEF Init, NoRequest
  <1>3. Answered(handled, client.request) /\ Len(client.buffer) <= 1
    BY <1>2 DEF Answered
  <1>4. client.request \in 0..Len(script)
    <2>1. Len(script) \in Nat
      BY <1>1, SentScript DEF HttpInv
    <2> QED
      BY <1>2, <2>1
  <1> QED
    BY <1>1, <1>2, <1>3, <1>4 DEF ServedInv, Serving

LEMMA ServedNext ==
    ASSUME Roomy
    PROVE  ServedInv /\ [Next]_vars => ServedInv'
  <1> SUFFICES ASSUME ServedInv, [Next]_vars PROVE ServedInv'
    OBVIOUS
  <1>1. HttpInv /\ HttpInv'
    BY HttpInvNext DEF ServedInv
  <1>2. script' = script /\ cuts' = cuts
    BY DEF Next, Quiet, Event, vars
  <1>3. SUFFICES ASSUME Usual, Serving(client, conn, handled)
                 PROVE  Serving(client', conn', handled')
    <2>1. Usual' = Usual
      BY <1>2 DEF Usual, Plain
    <2>2. Serving(client, conn, handled)' = Serving(client', conn', handled')
      BY <1>2 DEF Serving
    <2> QED
      BY <1>1, <1>3, <2>1, <2>2 DEF ServedInv
  <1>4. CASE UNCHANGED vars
    <2>1. client' = client /\ conn' = conn /\ handled' = handled
      BY <1>4 DEF vars
    <2> QED
      BY <1>3, <2>1
  <1>5. CASE Quiet
    BY <1>4, <1>5 DEF Quiet
  <1>6. ASSUME NEW n \in 1..Len(net), Event(n) PROVE Serving(client', conn', handled')
    BY <1>1, <1>3, <1>6, ServeHeader, ServeBody
  <1> QED
    BY <1>4, <1>5, <1>6 DEF Next

LEMMA ServedImplies ==
    ASSUME ServedInv
    PROVE  WholeRequestsServed
  <1>1. SUFFICES ASSUME Usual PROVE conn = "open" /\ AllAnswered
    BY DEF WholeRequestsServed, Usual
  <1>2. HttpInv /\ Serving(client, conn, handled)
    BY <1>1 DEF ServedInv
  <1>3. conn = "open"
    BY <1>2 DEF Serving
  <1>4. SUFFICES ASSUME net = <<>>
                 PROVE  [i \in DOMAIN handled |-> handled[i].r] = [r \in DOMAIN script |-> r]
    BY <1>3 DEF AllAnswered
  <1> DEFINE k == client.request
             L == Len(client.buffer)
  <1>5. /\ Sent /\ Follows(client, net, handled) /\ client.buffer \in Stream
        /\ k \in 0..Len(script) /\ handled \in Seq([r : Int, data : Stream])
    BY <1>2, <1>3 DEF HttpInv, Sound, ClientOK, Past, Serving
  <1>6. Script(script) /\ Len(script) \in Nat /\ DOMAIN script = 1..Len(script)
    BY <1>5, SentScript
  <1>7. L \in Nat /\ Vec(client.buffer).size = L /\ Len(net) = 0
    BY <1>4, <1>5, VecFacts DEF Stream
  <1>8. ASSUME NEW s, Holds(Vec(client.buffer), net, s) PROVE Len(s) = L
    <2> HIDE DEF L
    <2>1. Len(s) = Vec(client.buffer).size + Len(net)
      BY <1>8, ReadFront
    <2> QED
      BY <1>7, <2>1
  <1>9. ~client.pending
    <2>1. SUFFICES ASSUME client.pending PROVE FALSE
      OBVIOUS
    <2>2. /\ k \in DOMAIN script /\ DataSoFar(k, client.data)
          /\ Holds(Vec(client.buffer), net, Ahead(k, client.data))
          /\ script[k] \in {"length", "short"}
          /\ L < Len(Body(k, script[k]))
      BY <1>2, <1>5, <2>1 DEF Follows, Serving
    <2> DEFINE s == Ahead(k, client.data)
               x == Body(k, script[k])
               y == Encode(script, k + 1)
    <2>3. x \in Stream /\ y \in Stream /\ Cut(s, x, y)
      BY <1>6, <2>2, AheadStream
    <2>4. Len(s) = L
      BY <1>8, <2>2
    <2> HIDE DEF s, x, y, L
    <2>5. Len(s) = Len(x) + Len(y) /\ Len(x) \in Nat /\ Len(y) \in Nat
      BY <2>3, ConcatFacts DEF Cut
    <2>6. L < Len(x)
      BY <2>2 DEF x
    <2> QED
      BY <1>7, <2>4, <2>5, <2>6
  <1>10. L <= 1 /\ Answered(handled, k) /\ Holds(Vec(client.buffer), net, Encode(script, k + 1))
    BY <1>2, <1>5, <1>6, <1>9, AfterRequest DEF Serving, Follows
  <1>11. Len(Encode(script, k + 1)) = L
    BY <1>8, <1>10
  <1>12. k = Len(script)
    <2>1. SUFFICES ASSUME k # Len(script) PROVE FALSE
      OBVIOUS
    <2>2. k + 1 \in 1..Len(script)
      BY <1>5, <1>6, <2>1
    <2> DEFINE r == k + 1
               y == Encode(script, r + 1)
               x == Body(r, script[r])
    <2>3. Encode(script, r) = Item(script, r, y) /\ y \in Stream
      <3>1. r + 1 \in 1..Len(script) + 1
        BY <1>6, <2>2
      <3> QED
        BY <1>6, <2>2, <3>1, EncodeFacts
    <2>4. Header(r) \in Stream /\ Len(Header(r)) = 3 /\ x \o y \in Stream
          /\ Cut(Item(script, r, y), Header(r), x \o y)
      <3>1. r \in Nat /\ r \in 1..Len(script)
        BY <1>6, <2>2
      <3> HIDE DEF r, y
      <3> QED
        BY <1>6, <2>3, <3>1, ItemStream, HeaderStream
    <2> DEFINE h == Header(r)
               z == x \o y
               e == Encode(script, r)
    <2>5. h \in Stream /\ Len(h) = 3 /\ z \in Stream /\ e = h \o z /\ Len(e) = L
      BY <1>11, <2>3, <2>4 DEF Cut
    <2> HIDE DEF h, z, e, L
    <2>6. Len(e) = 3 + Len(z) /\ Len(z) \in Nat
      <3>1. Len(h \o z) = Len(h) + Len(z) /\ Len(z) \in Nat
        BY <2>5, ConcatFacts
      <3> QED
        BY <2>5, <3>1
    <2> QED
      BY <1>7, <1>10, <2>5, <2>6
  <1>13. Len(handled) = Len(script) /\ \A i \in 1..Len(script) : handled[i].r = i
    BY <1>10, <1>12 DEF Answered
  <1>14. DOMAIN handled = 1..Len(script)
    BY <1>5, <1>13
  <1> QED
    BY <1>6, <1>13, <1>14

\* If http_package_max_size leaves room for a request, a client whose
\* well-formed requests arrive whole, or with their Content-Length body apart if no
\* body holds an empty line, is answered by handle_client and
\* handle_pending_request without delay, request by request, and keeps its
\* connection; nothing but its requests is answered.
THEOREM WholeRequestsAlwaysServed ==
    ASSUME Roomy
    PROVE  Spec => []WholeRequestsServed
  <1>1. Init => ServedInv
    BY ServedInit
  <1>2. ServedInv /\ [Next]_vars => ServedInv'
    BY ServedNext
  <1>3. ServedInv => WholeRequestsServed
    BY ServedImplies
  <1> QED
    BY <1>1, <1>2, <1>3, PTL DEF Spec
=============================================================================
