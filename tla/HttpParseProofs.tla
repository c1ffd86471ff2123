-------------------------- MODULE HttpParseProofs --------------------------
(***************************************************************************)
(* For URLs of any length: the main path is the decoding of what stands    *)
(* before the question mark, a path that was encoded is read back, and the *)
(* upstream reads the request that the client sent.                        *)
(***************************************************************************)
EXTENDS HttpParse, SequenceTheorems, FiniteSetTheorems, WellFoundedInduction, TLAPS

-----------------------------------------------------------------------------
(* Functions that are defined by recursion *)

\* Every set of naturals that is not empty has a least element.
LEMMA LeastOf ==
    ASSUME NEW S, S \subseteq Nat, S # {}
    PROVE  \E x \in S : \A y \in S : x <= y
  <1> DEFINE R == {ss \in Nat \X Nat : ss[1] < ss[2]}
  <1>1. OpToRel(<, Nat) = R
    BY Zenon DEF OpToRel
  <1>2. IsWellFoundedOn(R, Nat)
    BY <1>1, NatLessThanWellFounded, Zenon
  <1>3. PICK x \in S : \A y \in S : ~(<<y, x>> \in R)
    BY <1>2, WFMin
  <1>4. ASSUME NEW y \in S PROVE x <= y
    <2>1. x \in Nat /\ y \in Nat
      OBVIOUS
    <2>2. <<y, x>> \in Nat \X Nat /\ <<y, x>>[1] = y /\ <<y, x>>[2] = x
      BY <2>1
    <2>3. ~(y < x)
      BY <1>3, <2>2
    <2> QED
      BY <2>1, <2>3
  <1> QED
    BY <1>4

Follows(f, o, n, G) == f[0] = o /\ \A k \in 1..n : f[k] = G[k][f[k - 1]]

\* A first value and the steps behind it make a function.
LEMMA Recursion ==
    ASSUME NEW D, NEW o \in D, NEW n \in Nat, NEW G \in [1..n -> [D -> D]]
    PROVE  \E f \in [0..n -> D] : Follows(f, o, n, G)
  <1> DEFINE T == {m \in 0..n : ~(\E f \in [0..m -> D] : Follows(f, o, m, G))}
  <1>1. SUFFICES ASSUME T # {} PROVE FALSE
    BY SMT
  <1>2. PICK m \in T : \A y \in T : m <= y
    <2>1. T \subseteq Nat
      OBVIOUS
    <2> HIDE DEF T
    <2> QED
      BY <1>1, <2>1, LeastOf, Zenon
  <1>3. m \in 0..n /\ ~(\E f \in [0..m -> D] : Follows(f, o, m, G))
    OBVIOUS
  <1>4. m # 0
    <2> DEFINE g == [k \in 0..0 |-> o]
    <2>1. g \in [0..0 -> D] /\ g[0] = o
      OBVIOUS
    <2>2. \A k \in 1..0 : FALSE
      OBVIOUS
    <2>3. Follows(g, o, 0, G)
      BY <2>1, <2>2 DEF Follows
    <2> QED
      BY <1>3, <2>1, <2>3
  <1>5. m - 1 \in 0..n /\ ~(m <= m - 1)
    BY <1>3, <1>4
  <1>6. \E f \in [0..(m - 1) -> D] : Follows(f, o, m - 1, G)
    BY <1>2, <1>5
  <1> HIDE DEF T
  <1>7. PICK g \in [0..(m - 1) -> D] : Follows(g, o, m - 1, G)
    BY <1>6
  <1> DEFINE f == [k \in 0..m |-> IF k = m THEN G[m][g[m - 1]] ELSE g[k]]
  <1>8. f \in [0..m -> D]
    <2>1. G[m][g[m - 1]] \in D
      <3>1. m \in 1..n /\ m - 1 \in 0..(m - 1)
        BY <1>3, <1>4
      <3>2. g[m - 1] \in D /\ G[m] \in [D -> D]
        BY <3>1
      <3> QED
        BY <3>2
    <2>2. \A k \in 0..m : k # m => k \in 0..(m - 1)
      BY <1>3
    <2> QED
      BY <2>1, <2>2
  <1>9. Follows(f, o, m, G)
    <2>1. f[0] = o
      <3>1. 0 \in 0..m
        BY <1>3
      <3> QED
        BY <1>4, <1>7, <3>1 DEF Follows
    <2>2. ASSUME NEW k \in 1..m PROVE f[k] = G[k][f[k - 1]]
      <3>1. k \in 0..m /\ k - 1 \in 0..m /\ k - 1 # m
        BY <1>3
      <3>2. f[k - 1] = g[k - 1]
        BY <3>1
      <3>3. CASE k = m
        BY <3>1, <3>2, <3>3
      <3>4. CASE k # m
        <4>1. k \in 1..(m - 1)
          BY <1>3, <3>4
        <4>2. g[k] = G[k][g[k - 1]]
          BY <1>7, <4>1 DEF Follows
        <4>3. f[k] = g[k]
          BY <3>1, <3>4
        <4> QED
          BY <3>2, <4>2, <4>3
      <3> QED
        BY <3>3, <3>4
    <2> HIDE DEF f
    <2> QED
      BY <2>1, <2>2 DEF Follows
  <1> HIDE DEF f
  <1> QED
    BY <1>3, <1>8, <1>9

-----------------------------------------------------------------------------
(* The loop of parse_raw_url *)

\* Bytes, and the one from somewhere else.
Bytes == 0..256

Places == [i : Nat, pos : Int, full : Seq(Bytes)]
Start(raw) == [i |-> 0, pos |-> Original(raw), full |-> <<>>]
UrlNext(raw, s) == IF s.i >= Len(raw) THEN s ELSE UrlStep(raw, s, Original(raw))
Looping(raw, f) ==
    f = [n \in 0..Len(raw) |-> IF n = 0 THEN Start(raw) ELSE UrlNext(raw, f[n - 1])]

Begins(s, t) == Len(s) <= Len(t) /\ \A k \in 1..Len(s) : t[k] = s[k]

\* A proper escape at n: two digits that give an acceptable byte.
EscapeAt(raw, n) ==
    /\ n + 2 <= Len(raw)
    /\ Hex(raw[n + 1]) < 16 /\ Hex(raw[n + 2]) < 16
    /\ acceptable(16 * Hex(raw[n + 1]) + Hex(raw[n + 2]))

\* find gives the first question mark.
LEMMA OriginalFacts ==
    ASSUME NEW raw, Len(raw) \in Nat
    PROVE  /\ (\A n \in 1..Len(raw) : raw[n] # Query) => Original(raw) = -1
           /\ (\E n \in 1..Len(raw) : raw[n] = Query) =>
                /\ Original(raw) \in 0..(Len(raw) - 1)
                /\ raw[Original(raw) + 1] = Query
                /\ \A n \in 1..Original(raw) : raw[n] # Query
  <1> DEFINE hits == {n \in 1..Len(raw) : raw[n] = Query}
             x == CHOOSE n \in hits : \A m \in hits : n <= m
  <1>1. Original(raw) = IF hits = {} THEN -1 ELSE x - 1
    BY DEF Original
  <1>2. ASSUME \A n \in 1..Len(raw) : raw[n] # Query PROVE Original(raw) = -1
    <2>1. hits = {}
      BY <1>2
    <2> HIDE DEF hits, x
    <2> QED
      BY <1>1, <2>1
  <1>3. ASSUME \E n \in 1..Len(raw) : raw[n] = Query
        PROVE  /\ Original(raw) \in 0..(Len(raw) - 1)
               /\ raw[Original(raw) + 1] = Query
               /\ \A n \in 1..Original(raw) : raw[n] # Query
    <2>1. hits # {}
      BY <1>3, Zenon
    <2>2. hits \subseteq Nat
      OBVIOUS
    <2>3. \E n \in hits : \A m \in hits : n <= m
      <3> HIDE DEF hits
      <3> QED
        BY <2>1, <2>2, LeastOf, Zenon
    <2>4. x \in hits /\ \A m \in hits : x <= m
      <3> HIDE DEF hits
      <3> QED
        BY <2>3, Zenon
    <2>5. Original(raw) = x - 1
      <3> HIDE DEF hits, x
      <3> QED
        BY <1>1, <2>1, Zenon
    <2>6. x \in 1..Len(raw) /\ raw[x] = Query
      BY <2>4, Zenon
    <2> HIDE DEF x
    <2>7. ASSUME NEW n \in 1..(x - 1) PROVE raw[n] # Query
      <3>1. n \in 1..Len(raw) /\ ~(x <= n)
        BY <2>6
      <3> QED
        BY <2>4, <3>1, Zenon
    <2>8. x - 1 \in 0..(Len(raw) - 1) /\ (x - 1) + 1 = x
      BY <2>6
    <2> QED
      BY <2>5, <2>6, <2>7, <2>8
  <1> QED
    BY <1>2, <1>3, Zenon

\* The value of two characters.
LEMMA HexFacts ==
    ASSUME NEW c \in Int
    PROVE  Hex(c) \in 0..16
  BY DEF Hex

\* What strtol returns for two characters; two digits are both read.
LEMMA StrtolFacts ==
    ASSUME NEW c \in Int, NEW d \in Int
    PROVE  /\ Strtol(c, d).val \in Nat /\ Strtol(c, d).used \in 0..2
           /\ Hex(c) < 16 /\ Hex(d) < 16 =>
                Strtol(c, d).val = 16 * Hex(c) + Hex(d) /\ Strtol(c, d).used = 2
  <1>1. Hex(c) \in 0..16 /\ Hex(d) \in 0..16
    BY HexFacts
  <1>2. CASE Hex(c) < 16 /\ Hex(d) < 16
    <2>1. Strtol(c, d) = [val |-> 16 * Hex(c) + Hex(d), used |-> 2]
      <3>1. c \notin {Plus, Blank}
        BY <1>2 DEF Hex, Plus, Blank
      <3> QED
        BY <1>2, <3>1 DEF Strtol
    <2> QED
      BY <1>1, <2>1
  <1>3. CASE Hex(c) < 16 /\ ~(Hex(d) < 16)
    <2>1. Strtol(c, d) = [val |-> Hex(c), used |-> 1]
      BY <1>3 DEF Strtol
    <2> QED
      BY <1>1, <1>3, <2>1
  <1>4. CASE ~(Hex(c) < 16)
    <2>1. \/ Strtol(c, d) = [val |-> Hex(d), used |-> 2]
          \/ Strtol(c, d) = [val |-> 0, used |-> 0]
      BY <1>4 DEF Strtol
    <2> QED
      BY <1>1, <1>4, <2>1
  <1> QED
    BY <1>2, <1>3, <1>4, Zenon

\* acceptable admits bytes only.
LEMMA AcceptableByte ==
    ASSUME NEW ch \in Nat, acceptable(ch)
    PROVE  ch \in Bytes
  BY DEF acceptable, Bytes

\* What the loop looks ahead at is a byte.
LEMMA AtFacts ==
    ASSUME NEW raw \in Seq(Bytes), NEW n \in Nat
    PROVE  At(raw, n) \in Bytes /\ At(raw, n) \in Int /\ (n < Len(raw) => At(raw, n) = raw[n + 1])
  <1>1. CASE n < Len(raw)
    <2>1. n + 1 \in 1..Len(raw)
      BY <1>1
    <2>2. raw[n + 1] \in Bytes
      BY <2>1
    <2>3. At(raw, n) = raw[n + 1]
      BY <1>1, Zenon DEF At
    <2>4. \A x \in Bytes : x \in Int
      BY DEF Bytes
    <2> QED
      BY <2>2, <2>3, <2>4, Zenon
  <1>2. CASE ~(n < Len(raw))
    <2>1. At(raw, n) = Blank
      BY <1>2, Zenon DEF At
    <2> QED
      BY <1>2, <2>1 DEF Bytes, Blank
  <1> QED
    BY <1>1, <1>2, Zenon

\* A character that is no "%" gives one character.
LEMMA PlainUrlStep ==
    ASSUME NEW raw \in Seq(Bytes), NEW s \in Places, s.i < Len(raw), raw[s.i + 1] # Percent
    PROVE  /\ UrlNext(raw, s).i = s.i + 1 /\ UrlNext(raw, s).pos = s.pos
           /\ UrlNext(raw, s).full =
                Append(s.full, IF raw[s.i + 1] = Plus THEN Blank ELSE raw[s.i + 1])
  <1>1. s.i \in Nat
    BY DEF Places
  <1>2. ~(s.i >= Len(raw))
    BY <1>1
  <1> QED
    BY <1>2 DEF UrlNext, UrlStep

\* A proper escape gives one character for three.
LEMMA EscapedUrlStep ==
    ASSUME NEW raw \in Seq(Bytes), NEW s \in Places, s.i < Len(raw), raw[s.i + 1] = Percent,
           EscapeAt(raw, s.i + 1)
    PROVE  /\ UrlNext(raw, s).i = s.i + 3
           /\ UrlNext(raw, s).pos = IF InFront(s.i + 2, Original(raw)) THEN s.pos - 2 ELSE s.pos
           /\ UrlNext(raw, s).full =
                Append(s.full, 16 * Hex(raw[s.i + 2]) + Hex(raw[s.i + 3]))
  <1> DEFINE c == raw[s.i + 2]
             d == raw[s.i + 3]
             n == Strtol(At(raw, s.i + 1), At(raw, s.i + 2))
             N == Len(raw)
  <1>1. s.i \in Nat /\ N \in Nat
    BY DEF Places
  <1>2. /\ s.i + 3 <= N /\ Hex(c) < 16 /\ Hex(d) < 16
        /\ acceptable(16 * Hex(c) + Hex(d))
    <2>1. (s.i + 1) + 1 = s.i + 2 /\ (s.i + 1) + 2 = s.i + 3
      BY <1>1
    <2> QED
      BY <2>1 DEF EscapeAt
  <1>3. At(raw, s.i + 1) = c /\ At(raw, s.i + 2) = d /\ c \in Int /\ d \in Int
    <2>1. /\ s.i + 1 \in Nat /\ s.i + 2 \in Nat /\ s.i + 1 < N /\ s.i + 2 < N
          /\ (s.i + 1) + 1 = s.i + 2 /\ (s.i + 2) + 1 = s.i + 3
      BY <1>1, <1>2
    <2> HIDE DEF N
    <2>2. /\ At(raw, s.i + 1) = raw[(s.i + 1) + 1] /\ At(raw, s.i + 2) = raw[(s.i + 2) + 1]
          /\ At(raw, s.i + 1) \in Int /\ At(raw, s.i + 2) \in Int
      BY <2>1, AtFacts DEF N
    <2> QED
      BY <2>1, <2>2
  <1> HIDE DEF c, d
  <1>4. n.used = 2 /\ n.val = 16 * Hex(c) + Hex(d)
    BY <1>2, <1>3, StrtolFacts
  <1>5. UrlNext(raw, s) = Escape(raw, s, Original(raw))
    <2>1. ~(s.i >= N) /\ ~(N - s.i < 2)
      BY <1>1, <1>2
    <2> QED
      BY <2>1 DEF UrlNext, UrlStep
  <1>6. acceptable(n.val)
    BY <1>2, <1>4
  <1> HIDE DEF n
  <1> QED
    BY <1>4, <1>5, <1>6 DEF Escape, n, c, d

\* A position, with a question mark before it that is the first, is one behind
\* which nothing counts.
Behind(raw, i) == Original(raw) # -1 /\ i > Original(raw)

\* find gives a number in any case.
LEMMA OriginalInt ==
    ASSUME NEW raw, Len(raw) \in Nat
    PROVE  Original(raw) \in Int
  <1>1. \/ \A n \in 1..Len(raw) : raw[n] # Query
        \/ \E n \in 1..Len(raw) : raw[n] = Query
    OBVIOUS
  <1>2. CASE \A n \in 1..Len(raw) : raw[n] # Query
    BY <1>2, OriginalFacts
  <1>3. CASE \E n \in 1..Len(raw) : raw[n] = Query
    BY <1>3, OriginalFacts
  <1> QED
    BY <1>1, <1>2, <1>3

\* A beginning of a beginning is one.
LEMMA BeginsTransitive ==
    ASSUME NEW s, NEW t, NEW u, Len(s) \in Nat, Len(t) \in Nat, Len(u) \in Nat,
           Begins(s, t), Begins(t, u)
    PROVE  Begins(s, u)
  BY DEF Begins

\* What one iteration may do, whatever the characters are: it goes on, adds to
\* what was decoded, and leaves pos alone behind the question mark.
LEMMA UrlStepFacts ==
    ASSUME NEW raw \in Seq(Bytes), NEW s \in Places
    PROVE  /\ UrlNext(raw, s) \in Places
           /\ s.i >= Len(raw) => UrlNext(raw, s) = s
           /\ s.i < Len(raw) => UrlNext(raw, s).i >= s.i + 1
           /\ Begins(s.full, UrlNext(raw, s).full)
           /\ Behind(raw, s.i) => UrlNext(raw, s).pos = s.pos
  <1> DEFINE o == Original(raw)
             N == Len(raw)
             x == UrlNext(raw, s)
  <1>1. /\ s.i \in Nat /\ s.pos \in Int /\ s.full \in Seq(Bytes) /\ N \in Nat
        /\ Len(s.full) \in Nat
    BY DEF Places
  <1>2. o \in Int
    <2>1. \/ \A n \in 1..Len(raw) : raw[n] # Query
          \/ \E n \in 1..Len(raw) : raw[n] = Query
      OBVIOUS
    <2> QED
      BY <1>1, <2>1, OriginalFacts
  <1>3. ASSUME NEW c \in Bytes
        PROVE  Append(s.full, c) \in Seq(Bytes) /\ Begins(s.full, Append(s.full, c))
    <2>1. /\ Append(s.full, c) \in Seq(Bytes) /\ Len(s.full) <= Len(Append(s.full, c))
          /\ \A k \in 1..Len(s.full) : Append(s.full, c)[k] = s.full[k]
      BY <1>1, AppendProperties
    <2> QED
      BY <2>1, Zenon DEF Begins
  <1>4. Begins(s.full, s.full)
    BY <1>1 DEF Begins
  <1>5. CASE s.i >= N
    <2>1. x = s
      BY <1>5, Zenon DEF UrlNext
    <2> QED
      BY <1>1, <1>4, <1>5, <2>1
  <1>6. CASE ~(s.i >= N) /\ raw[s.i + 1] # Percent
    <2>1. s.i < N
      BY <1>1, <1>6
    <2> DEFINE c == IF raw[s.i + 1] = Plus THEN Blank ELSE raw[s.i + 1]
    <2>2. c \in Bytes
      <3>1. s.i + 1 \in 1..N
        BY <1>1, <2>1
      <3>2. raw[s.i + 1] \in Bytes
        BY <3>1
      <3>3. Blank \in Bytes
        BY DEF Bytes, Blank
      <3> QED
        BY <3>2, <3>3, Zenon
    <2>3. x = [i |-> s.i + 1, pos |-> s.pos, full |-> Append(s.full, c)]
      BY <1>6, <2>1, Zenon DEF UrlNext, UrlStep
    <2> HIDE DEF c
    <2>4. x \in Places /\ x.i = s.i + 1 /\ x.pos = s.pos /\ x.full = Append(s.full, c)
      BY <1>1, <1>3, <2>2, <2>3 DEF Places
    <2> HIDE DEF x
    <2>5. Begins(s.full, x.full)
      BY <1>3, <2>2, <2>4, Zenon
    <2> QED
      BY <1>1, <2>1, <2>4, <2>5 DEF x
  <1>7. CASE ~(s.i >= N) /\ raw[s.i + 1] = Percent /\ N - s.i < 2
    <2>1. x = [s EXCEPT !.i = N]
      BY <1>7, Zenon DEF UrlNext, UrlStep
    <2>2. x \in Places /\ x.i = N /\ x.pos = s.pos /\ x.full = s.full
      BY <1>1, <2>1 DEF Places
    <2> HIDE DEF x
    <2> QED
      BY <1>1, <1>4, <1>7, <2>2 DEF x
  <1>8. CASE ~(s.i >= N) /\ raw[s.i + 1] = Percent /\ ~(N - s.i < 2)
    <2> DEFINE n == Strtol(At(raw, s.i + 1), At(raw, s.i + 2))
               front == InFront(s.i + 2, o)
    <2>1. x = Escape(raw, s, o)
      BY <1>8, Zenon DEF UrlNext, UrlStep
    <2>2. n.val \in Nat /\ n.used \in 0..2
      <3>1. At(raw, s.i + 1) \in Int /\ At(raw, s.i + 2) \in Int
        BY <1>1, AtFacts
      <3> QED
        BY <3>1, StrtolFacts
    <2>3. Behind(raw, s.i) => front = FALSE
      BY <1>1, <1>2 DEF Behind, InFront
    <2>4. CASE n.used = 2 /\ acceptable(n.val)
      <3>1. x = [i |-> s.i + 3, full |-> Append(s.full, n.val),
                 pos |-> IF front THEN s.pos - 2 ELSE s.pos]
        BY <2>1, <2>4, Zenon DEF Escape
      <3> HIDE DEF n, front, x
      <3>2. n.val \in Bytes
        BY <2>2, <2>4, AcceptableByte, Zenon
      <3>3. (IF front THEN s.pos - 2 ELSE s.pos) \in Int
        BY <1>1
      <3>4. x \in Places /\ x.i = s.i + 3 /\ x.full = Append(s.full, n.val)
            /\ x.pos = IF front THEN s.pos - 2 ELSE s.pos
        BY <1>1, <1>3, <3>1, <3>2, <3>3 DEF Places
      <3>5. Begins(s.full, x.full)
        BY <1>3, <3>2, <3>4, Zenon
      <3>6. Behind(raw, s.i) => x.pos = s.pos
        BY <2>3, <3>4, Zenon
      <3>7. x.i >= s.i + 1
        BY <1>1, <3>4
      <3> QED
        BY <1>8, <3>4, <3>5, <3>6, <3>7, Zenon DEF x
    <2>5. CASE ~(n.used = 2 /\ acceptable(n.val))
      <3>1. x = [i |-> s.i + 1 + n.used, full |-> s.full,
                 pos |-> IF front THEN s.pos - (n.used - 1) ELSE s.pos]
        BY <2>1, <2>5, Zenon DEF Escape
      <3> HIDE DEF n, front, x
      <3>2. (IF front THEN s.pos - (n.used - 1) ELSE s.pos) \in Int /\ s.i + 1 + n.used \in Nat
            /\ s.i + 1 + n.used >= s.i + 1
        BY <1>1, <2>2
      <3>3. x \in Places /\ x.i = s.i + 1 + n.used /\ x.full = s.full
            /\ x.pos = IF front THEN s.pos - (n.used - 1) ELSE s.pos
        BY <1>1, <3>1, <3>2 DEF Places
      <3>4. Begins(s.full, x.full)
        BY <1>4, <3>3, Zenon
      <3>5. Behind(raw, s.i) => x.pos = s.pos
        BY <2>3, <3>3, Zenon
      <3>6. x.i >= s.i + 1
        BY <3>2, <3>3, Zenon
      <3> QED
        BY <1>8, <3>3, <3>4, <3>5, <3>6, Zenon DEF x
    <2> QED
      BY <2>4, <2>5, Zenon
  <1> QED
    BY <1>5, <1>6, <1>7, <1>8, Zenon

\* parse_raw_url follows the loop to its end.
UrlRun(raw, f) ==
    /\ f \in [0..Len(raw) -> Places] /\ f[0] = Start(raw)
    /\ \A n \in 1..Len(raw) : f[n] = UrlNext(raw, f[n - 1])
    /\ ParseRawUrl(raw).full_path = f[Len(raw)].full
    /\ ParseRawUrl(raw).main_path = View(f[Len(raw)].full, f[Len(raw)].pos)
    /\ ParseRawUrl(raw).raw_path =
         IF raw # <<>> /\ raw[1] = Slash THEN raw ELSE <<Slash>> \o raw

\* Every text has such a run: the function of ParseRawUrl exists, and its values
\* are places of the loop.
LEMMA UrlRuns ==
    ASSUME NEW raw \in Seq(Bytes)
    PROVE  \E f : UrlRun(raw, f)
  <1> DEFINE N == Len(raw)
             G == [n \in 1..N |-> [s \in Places |-> UrlNext(raw, s)]]
  <1>1. N \in Nat
    OBVIOUS
  <1>2. Start(raw) \in Places /\ Original(raw) \in Int
    <2>1. \/ \A n \in 1..Len(raw) : raw[n] # Query
          \/ \E n \in 1..Len(raw) : raw[n] = Query
      OBVIOUS
    <2>2. Original(raw) \in Int
      BY <1>1, <2>1, OriginalFacts
    <2>3. <<>> \in Seq(Bytes) /\ 0 \in Nat
      OBVIOUS
    <2> QED
      BY <2>2, <2>3 DEF Start, Places
  <1>3. \A s \in Places : UrlNext(raw, s) \in Places
    BY UrlStepFacts
  <1>4. G \in [1..N -> [Places -> Places]]
    BY <1>3
  <1>5. \A n \in 1..N, s \in Places : G[n][s] = UrlNext(raw, s)
    OBVIOUS
  <1> HIDE DEF G, N
  <1>6. PICK f \in [0..N -> Places] : Follows(f, Start(raw), N, G)
    BY <1>1, <1>2, <1>4, Recursion, Zenon
  <1> DEFINE E(e) == [n \in 0..N |-> IF n = 0 THEN Start(raw) ELSE UrlNext(raw, e[n - 1])]
  <1>7. ASSUME NEW n \in 0..N PROVE f[n] = E(f)[n]
    <2>1. CASE n = 0
      BY <1>6, <2>1 DEF Follows
    <2>2. CASE n # 0
      <3>1. n \in 1..N /\ n - 1 \in 0..N
        BY <1>1, <2>2
      <3>2. f[n] = UrlNext(raw, f[n - 1])
        BY <1>5, <1>6, <3>1 DEF Follows
      <3>3. E(f)[n] = UrlNext(raw, f[n - 1])
        BY <2>2
      <3> QED
        BY <3>2, <3>3, Zenon
    <2> QED
      BY <2>1, <2>2
  <1>8. f = E(f)
    BY <1>7
  <1>9. \E e : Looping(raw, e)
    BY <1>8, Zenon DEF Looping, N
  <1> DEFINE e == CHOOSE e : Looping(raw, e)
  <1>10. Looping(raw, e)
    BY <1>9, Zenon
  <1>11. ParseRawUrl(raw) = [raw_path  |-> IF raw # <<>> /\ raw[1] = Slash THEN raw
                                           ELSE <<Slash>> \o raw,
                             full_path |-> e[N].full,
                             main_path |-> View(e[N].full, e[N].pos)]
    BY DEF ParseRawUrl, Looping, UrlNext, Start, N
  <1> HIDE DEF e
  <1>12. e = E(e)
    BY <1>10, Zenon DEF Looping, N
  <1>13. E(e)[0] = Start(raw) /\ \A n \in 1..N : E(e)[n] = UrlNext(raw, e[n - 1])
    BY <1>1
  <1>14. e[0] = Start(raw) /\ \A n \in 1..N : e[n] = UrlNext(raw, e[n - 1])
    <2> HIDE DEF E
    <2> QED
      BY <1>12, <1>13
  <1>15. \A n \in 0..N : e[n] \in Places
    <2> DEFINE T == {n \in 0..N : e[n] \notin Places}
    <2>1. SUFFICES ASSUME T # {} PROVE FALSE
      BY Zenon
    <2>2. PICK m \in T : \A y \in T : m <= y
      <3>1. T \subseteq Nat
        BY <1>1
      <3> HIDE DEF T
      <3> QED
        BY <2>1, <3>1, LeastOf, Zenon
    <2>3. m \in 0..N /\ e[m] \notin Places
      BY Zenon
    <2>4. m # 0
      BY <1>2, <1>14, <2>3, Zenon
    <2>5. m \in 1..N /\ m - 1 \in 0..N /\ ~(m <= m - 1)
      BY <1>1, <2>3, <2>4
    <2>6. e[m - 1] \in Places
      BY <2>2, <2>5
    <2> HIDE DEF T
    <2> QED
      BY <1>3, <1>14, <2>3, <2>5, <2>6, Zenon
  <1>16. e \in [0..N -> Places]
    BY <1>12, <1>15
  <1>17. /\ ParseRawUrl(raw).full_path = e[N].full
         /\ ParseRawUrl(raw).main_path = View(e[N].full, e[N].pos)
         /\ ParseRawUrl(raw).raw_path =
              IF raw # <<>> /\ raw[1] = Slash THEN raw ELSE <<Slash>> \o raw
    BY <1>11
  <1>18. UrlRun(raw, e)
    BY <1>14, <1>16, <1>17, Zenon DEF UrlRun, N
  <1> QED
    BY <1>18

-----------------------------------------------------------------------------
(* What the loop keeps *)

\* Behind the question mark pos stays, and what was decoded is only extended.
LEMMA RunBehind ==
    ASSUME NEW raw \in Seq(Bytes), NEW f, UrlRun(raw, f),
           NEW m \in 0..Len(raw), Behind(raw, f[m].i),
           NEW n \in m..Len(raw)
    PROVE  f[n].pos = f[m].pos /\ Begins(f[m].full, f[n].full)
  <1> DEFINE N == Len(raw)
             Kept(k) == /\ Behind(raw, f[k].i) /\ f[k].pos = f[m].pos
                        /\ Begins(f[m].full, f[k].full)
             T == {k \in m..N : ~Kept(k)}
  <1>1. SUFFICES ASSUME T # {} PROVE FALSE
    BY SMT
  <1>2. N \in Nat /\ m \in 0..N
    OBVIOUS
  <1>3. PICK k \in T : \A y \in T : k <= y
    <2>1. T \subseteq Nat
      BY <1>2
    <2> HIDE DEF T
    <2> QED
      BY <1>1, <2>1, LeastOf, Zenon
  <1>4. k \in m..N /\ ~Kept(k)
    BY Zenon
  <1>5. f[m] \in Places
    BY <1>2, Zenon DEF UrlRun
  <1>6. Kept(m)
    <2>1. Begins(f[m].full, f[m].full)
      BY <1>5 DEF Begins, Places
    <2> QED
      BY <2>1
  <1>7. k # m
    BY <1>4, <1>6, Zenon
  <1>8. k - 1 \in m..N /\ k - 1 \in 0..N /\ k \in 1..N /\ ~(k <= k - 1)
    BY <1>2, <1>4, <1>7
  <1>9. Kept(k - 1)
    <2> HIDE DEF Kept
    <2> QED
      BY <1>3, <1>8
  <1> DEFINE s == f[k - 1]
  <1>10. s \in Places /\ f[k] = UrlNext(raw, s)
    BY <1>8, Zenon DEF UrlRun
  <1> HIDE DEF s, T
  <1>11. UrlNext(raw, s).pos = s.pos /\ Begins(s.full, UrlNext(raw, s).full)
         /\ UrlNext(raw, s) \in Places
    BY <1>9, <1>10, UrlStepFacts, Zenon DEF s
  <1>12. UrlNext(raw, s).i >= s.i
    <2>1. s.i \in Nat /\ (s.i >= Len(raw) \/ s.i < Len(raw))
      BY <1>2, <1>10 DEF Places
    <2>2. s.i >= Len(raw) => UrlNext(raw, s).i = s.i
      BY <1>10, UrlStepFacts, Zenon
    <2>3. s.i < Len(raw) => UrlNext(raw, s).i >= s.i + 1
      BY <1>10, UrlStepFacts, Zenon
    <2>4. UrlNext(raw, s).i \in Nat
      BY <1>11 DEF Places
    <2> QED
      BY <2>1, <2>2, <2>3, <2>4
  <1>13. Behind(raw, f[k].i)
    <2>1. Behind(raw, s.i)
      BY <1>9 DEF s
    <2>2. UrlNext(raw, s).i \in Nat /\ s.i \in Nat
      BY <1>10, <1>11 DEF Places
    <2>3. Original(raw) \in Int
      BY <1>2, OriginalInt
    <2> QED
      BY <1>10, <1>12, <2>1, <2>2, <2>3 DEF Behind
  <1>14. Begins(f[m].full, f[k].full)
    <2>1. Begins(f[m].full, s.full)
      BY <1>9 DEF s
    <2>2. Len(f[m].full) \in Nat /\ Len(s.full) \in Nat
      BY <1>5, <1>10 DEF Places
    <2>3. f[k] \in Places
      BY <1>10, <1>11, Zenon
    <2>4. Len(f[k].full) \in Nat
      BY <2>3 DEF Places
    <2> QED
      BY <1>10, <1>11, <2>1, <2>2, <2>4, BeginsTransitive, Zenon
  <1>15. f[k].pos = f[m].pos
    BY <1>9, <1>10, <1>11, Zenon DEF s
  <1> QED
    BY <1>4, <1>13, <1>14, <1>15, Zenon

-----------------------------------------------------------------------------
(* What was encoded is read back *)

\* The bytes that an escape may stand for.
Written == {ch \in 0..255 : acceptable(ch)}

\* A position of an encoded text is the first, second or third of a character.
LEMMA Thirds ==
    ASSUME NEW n \in Nat \ {0}
    PROVE  \E k \in Nat \ {0} : \/ n = 3 * k - 2 /\ n % 3 = 1
                                \/ n = 3 * k - 1 /\ n % 3 = 2
                                \/ n = 3 * k /\ n % 3 = 0
  <1> DEFINE k == (n + 2) \div 3
  <1>1. k \in Nat \ {0} /\ (\/ n = 3 * k - 2 \/ n = 3 * k - 1 \/ n = 3 * k)
    OBVIOUS
  <1> HIDE DEF k
  <1>2. \/ n = 3 * k - 2 /\ n % 3 = 1
        \/ n = 3 * k - 1 /\ n % 3 = 2
        \/ n = 3 * k /\ n % 3 = 0
    BY <1>1
  <1> QED
    BY <1>1, <1>2

\* The character that a position of an encoded text belongs to.
LEMMA ThirdOf ==
    ASSUME NEW k \in Nat \ {0}
    PROVE  /\ ((3 * k - 2) + 2) \div 3 = k /\ (3 * k - 2) % 3 = 1
           /\ ((3 * k - 1) + 2) \div 3 = k /\ (3 * k - 1) % 3 = 2
           /\ (3 * k + 2) \div 3 = k /\ (3 * k) % 3 = 0
  OBVIOUS

\* A byte is what its two digits say.
LEMMA DigitFacts ==
    ASSUME NEW c \in 0..255
    PROVE  /\ Digit(c \div 16) \in 48..70 \ {Query} /\ Digit(c % 16) \in 48..70 \ {Query}
           /\ Hex(Digit(c \div 16)) < 16 /\ Hex(Digit(c % 16)) < 16
           /\ 16 * Hex(Digit(c \div 16)) + Hex(Digit(c % 16)) = c
  <1>1. c \div 16 \in 0..15 /\ c % 16 \in 0..15 /\ 16 * (c \div 16) + (c % 16) = c
    OBVIOUS
  <1>2. ASSUME NEW h \in 0..15 PROVE Digit(h) \in 48..70 \ {Query} /\ Hex(Digit(h)) = h
    <2>1. CASE h < 10
      BY <2>1 DEF Digit, Hex, Query
    <2>2. CASE ~(h < 10)
      <3>1. Digit(h) = 55 + h /\ 55 + h \in 65..70 /\ ~(55 + h \in 48..57)
        BY <2>2 DEF Digit
      <3>2. Hex(55 + h) = (55 + h) - 55
        <4> DEFINE x == 55 + h
        <4> HIDE DEF x
        <4>1. x \in 65..70 /\ x \notin 48..57 /\ x \notin 97..102
          BY <3>1 DEF x
        <4>2. Hex(x) = x - 55
          BY <4>1 DEF Hex
        <4> QED
          BY <4>2 DEF x
      <3> QED
        BY <3>1, <3>2 DEF Query
    <2> QED
      BY <2>1, <2>2
  <1> DEFINE d == c \div 16
             u == c % 16
  <1> HIDE DEF d, u
  <1>3. d \in 0..15 /\ u \in 0..15 /\ 16 * d + u = c
    BY <1>1 DEF d, u
  <1>4. /\ Digit(d) \in 48..70 \ {Query} /\ Digit(u) \in 48..70 \ {Query}
        /\ Hex(Digit(d)) = d /\ Hex(Digit(u)) = u
    BY <1>2, <1>3
  <1>5. Hex(Digit(d)) < 16 /\ Hex(Digit(u)) < 16 /\ 16 * Hex(Digit(d)) + Hex(Digit(u)) = c
    BY <1>3, <1>4
  <1> QED
    BY <1>4, <1>5 DEF d, u

\* An encoded text is "%" and two digits for each byte, and has no question mark.
LEMMA EncodedFacts ==
    ASSUME NEW w \in Seq(Written)
    PROVE  /\ Encoded(w) \in Seq(Bytes) /\ Len(Encoded(w)) = 3 * Len(w)
           /\ \A n \in 1..(3 * Len(w)) : Encoded(w)[n] # Query
           /\ \A k \in 1..Len(w) :
                /\ Encoded(w)[3 * k - 2] = Percent
                /\ Encoded(w)[3 * k - 1] = Digit(w[k] \div 16)
                /\ Encoded(w)[3 * k] = Digit(w[k] % 16)
  <1> DEFINE L == Len(w)
             E(n) == LET c == w[(n + 2) \div 3] IN
                     CASE n % 3 = 1 -> Percent
                       [] n % 3 = 2 -> Digit(c \div 16)
                       [] OTHER     -> Digit(c % 16)
  <1>1. L \in Nat /\ 3 * L \in Nat
    OBVIOUS
  <1>2. Encoded(w) = [n \in 1..(3 * L) |-> E(n)]
    BY DEF Encoded
  <1>3. ASSUME NEW k \in 1..L
        PROVE  E(3 * k - 2) = Percent /\ E(3 * k - 1) = Digit(w[k] \div 16)
               /\ E(3 * k) = Digit(w[k] % 16)
    <2>1. k \in Nat \ {0}
      BY <1>1
    <2>2. /\ ((3 * k - 2) + 2) \div 3 = k /\ (3 * k - 2) % 3 = 1
          /\ ((3 * k - 1) + 2) \div 3 = k /\ (3 * k - 1) % 3 = 2
          /\ (3 * k + 2) \div 3 = k /\ (3 * k) % 3 = 0
      BY <2>1, ThirdOf, Zenon
    <2>3. E(3 * k - 2) = Percent
      BY <2>2
    <2>4. E(3 * k - 1) = Digit(w[k] \div 16)
      BY <2>2
    <2>5. E(3 * k) = Digit(w[k] % 16)
      <3> DEFINE n == 3 * k
      <3>1. (n + 2) \div 3 = k /\ n % 3 # 1 /\ n % 3 # 2
        BY <2>2
      <3> HIDE DEF n
      <3>2. E(n) = Digit(w[k] % 16)
        BY <3>1
      <3> QED
        BY <3>2 DEF n
    <2> QED
      BY <2>3, <2>4, <2>5, Zenon
  <1> HIDE DEF E
  <1>4. ASSUME NEW k \in 1..L
        PROVE  /\ 3 * k - 2 \in 1..(3 * L) /\ 3 * k - 1 \in 1..(3 * L) /\ 3 * k \in 1..(3 * L)
    BY <1>1
  <1>5. \A k \in 1..L :
            /\ Encoded(w)[3 * k - 2] = Percent
            /\ Encoded(w)[3 * k - 1] = Digit(w[k] \div 16)
            /\ Encoded(w)[3 * k] = Digit(w[k] % 16)
    BY <1>2, <1>3, <1>4
  <1>6. ASSUME NEW n \in 1..(3 * L)
        PROVE  E(n) \in Bytes /\ E(n) # Query
    <2>1. PICK k \in Nat \ {0} : n = 3 * k - 2 \/ n = 3 * k - 1 \/ n = 3 * k
      <3>1. n \in Nat \ {0}
        BY <1>1
      <3> QED
        BY <3>1, Thirds, Zenon
    <2>2. k \in 1..L
      BY <1>1, <2>1
    <2>3. w[k] \in 0..255
      <3>1. w[k] \in Written
        BY <2>2
      <3>2. \A c \in Written : c \in 0..255
        BY DEF Written
      <3> QED
        BY <3>1, <3>2, Zenon
    <2>4. Digit(w[k] \div 16) \in 48..70 \ {Query} /\ Digit(w[k] % 16) \in 48..70 \ {Query}
      BY <2>3, DigitFacts
    <2>5. E(n) = Percent \/ E(n) \in 48..70 \ {Query}
      BY <1>3, <2>1, <2>2, <2>4
    <2> QED
      BY <2>5 DEF Bytes, Percent, Query
  <1>7. \A n \in 1..(3 * L) : Encoded(w)[n] = E(n)
    BY <1>2
  <1>8. Encoded(w) \in [1..(3 * L) -> Bytes]
    BY <1>2, <1>6
  <1> DEFINE e == Encoded(w)
  <1> HIDE DEF e
  <1>9. e \in Seq(Bytes) /\ Len(e) = 3 * L
    <2>1. e \in [1..(3 * L) -> Bytes]
      BY <1>8 DEF e
    <2> QED
      BY <1>1, <2>1
  <1> QED
    BY <1>5, <1>6, <1>7, <1>9 DEF e

\* Character by character, behind an encoded path or at the end of the text.
LEMMA RunEncoded ==
    ASSUME NEW w \in Seq(Written), NEW raw \in Seq(Bytes), NEW f, UrlRun(raw, f),
           3 * Len(w) <= Len(raw), \A n \in 1..(3 * Len(w)) : raw[n] = Encoded(w)[n],
           \/ Original(raw) = -1
           \/ Original(raw) = 3 * Len(w),
           NEW n \in 0..Len(w)
    PROVE  /\ f[n].i = 3 * n /\ f[n].pos = Original(raw) - 2 * n
           /\ Len(f[n].full) = n /\ \A k \in 1..n : f[n].full[k] = w[k]
  <1> DEFINE L == Len(w)
             Got(j) == /\ f[j].i = 3 * j /\ f[j].pos = Original(raw) - 2 * j
                       /\ Len(f[j].full) = j /\ \A k \in 1..j : f[j].full[k] = w[k]
             T == {j \in 0..L : ~Got(j)}
  <1>1. SUFFICES ASSUME T # {} PROVE FALSE
    BY SMT
  <1>2. L \in Nat /\ Len(raw) \in Nat /\ Original(raw) \in Int
    BY OriginalInt
  <1>3. PICK j \in T : \A y \in T : j <= y
    <2>1. T \subseteq Nat
      BY <1>2
    <2> HIDE DEF T
    <2> QED
      BY <1>1, <2>1, LeastOf, Zenon
  <1>4. j \in 0..L /\ ~Got(j)
    BY Zenon
  <1>5. Got(0)
    <2>1. f[0] = Start(raw)
      BY DEF UrlRun
    <2>2. f[0].i = 0 /\ f[0].pos = Original(raw) /\ f[0].full = <<>>
      BY <2>1 DEF Start
    <2> QED
      BY <1>2, <2>2
  <1>6. j # 0
    BY <1>4, <1>5, Zenon
  <1>7. j - 1 \in 0..L /\ j \in 1..L /\ j \in 1..Len(raw) /\ j - 1 \in 0..Len(raw) /\ ~(j <= j - 1)
    BY <1>2, <1>4, <1>6
  <1>8. Got(j - 1)
    <2> HIDE DEF Got
    <2> QED
      BY <1>3, <1>7
  <1> DEFINE s == f[j - 1]
  <1>9. s \in Places /\ f[j] = UrlNext(raw, s)
    BY <1>7, Zenon DEF UrlRun
  <1>10. /\ s.i = 3 * j - 3 /\ s.pos = Original(raw) - 2 * (j - 1) /\ Len(s.full) = j - 1
         /\ \A k \in 1..(j - 1) : s.full[k] = w[k]
    BY <1>7, <1>8
  <1> HIDE DEF s, T
  <1>11. /\ 3 * j - 2 \in 1..(3 * L) /\ 3 * j - 1 \in 1..(3 * L) /\ 3 * j \in 1..(3 * L)
         /\ s.i + 1 = 3 * j - 2 /\ s.i + 2 = 3 * j - 1 /\ s.i + 3 = 3 * j
         /\ (s.i + 1) + 1 = 3 * j - 1 /\ (s.i + 1) + 2 = 3 * j
         /\ s.i < Len(raw) /\ (s.i + 1) + 2 <= Len(raw)
    BY <1>2, <1>7, <1>10
  <1> DEFINE c == w[j]
  <1>12. c \in 0..255 /\ acceptable(c)
    BY <1>7 DEF Written
  <1>13. /\ raw[s.i + 1] = Percent /\ raw[s.i + 2] = Digit(c \div 16) /\ raw[s.i + 3] = Digit(c % 16)
    <2>1. /\ Encoded(w)[3 * j - 2] = Percent /\ Encoded(w)[3 * j - 1] = Digit(c \div 16)
          /\ Encoded(w)[3 * j] = Digit(c % 16)
      BY <1>7, EncodedFacts
    <2> HIDE DEF c
    <2> QED
      BY <1>11, <2>1
  <1> HIDE DEF c
  <1>14. /\ Hex(Digit(c \div 16)) < 16 /\ Hex(Digit(c % 16)) < 16
         /\ 16 * Hex(Digit(c \div 16)) + Hex(Digit(c % 16)) = c
    BY <1>12, DigitFacts
  <1>15. EscapeAt(raw, s.i + 1)
    <2>1. raw[(s.i + 1) + 1] = Digit(c \div 16) /\ raw[(s.i + 1) + 2] = Digit(c % 16)
      BY <1>11, <1>13
    <2> QED
      BY <1>11, <1>12, <1>14, <2>1 DEF EscapeAt
  <1>16. InFront(s.i + 2, Original(raw))
    BY <1>2, <1>7, <1>10 DEF InFront
  <1>17. /\ UrlNext(raw, s).i = s.i + 3 /\ UrlNext(raw, s).pos = s.pos - 2
         /\ UrlNext(raw, s).full = Append(s.full, c)
    <2>1. /\ UrlNext(raw, s).i = s.i + 3
          /\ UrlNext(raw, s).pos = IF InFront(s.i + 2, Original(raw)) THEN s.pos - 2 ELSE s.pos
          /\ UrlNext(raw, s).full = Append(s.full, 16 * Hex(raw[s.i + 2]) + Hex(raw[s.i + 3]))
      BY <1>9, <1>11, <1>13, <1>15, EscapedUrlStep
    <2> QED
      BY <1>13, <1>14, <1>16, <2>1
  <1>18. f[j].i = 3 * j /\ f[j].pos = Original(raw) - 2 * j
    BY <1>2, <1>7, <1>9, <1>10, <1>17
  <1>19. Len(f[j].full) = j /\ \A k \in 1..j : f[j].full[k] = w[k]
    <2>1. s.full \in Seq(Bytes)
      BY <1>9 DEF Places
    <2>2. f[j].full = Append(s.full, c)
      BY <1>9, <1>17
    <2>3. c \in Bytes
      BY <1>12, AcceptableByte
    <2>4. /\ Len(f[j].full) = Len(s.full) + 1
          /\ \A k \in 1..Len(s.full) : f[j].full[k] = s.full[k]
          /\ f[j].full[Len(s.full) + 1] = c
      BY <2>1, <2>2, <2>3, AppendProperties
    <2>5. f[j].full[j] = w[j]
      BY <1>7, <1>10, <2>4 DEF c
    <2>6. ASSUME NEW k \in 1..(j - 1) PROVE f[j].full[k] = w[k]
      BY <1>10, <2>4
    <2>7. \A k \in 1..j : k = j \/ k \in 1..(j - 1)
      BY <1>7
    <2> QED
      BY <1>7, <1>10, <2>4, <2>5, <2>6, <2>7
  <1> QED
    BY <1>4, <1>18, <1>19, Zenon

\* An encoded path is read back.
LEMMA EncodedAlone ==
    ASSUME NEW w \in Seq(Written)
    PROVE  ParseRawUrl(Encoded(w)).full_path = w /\ ParseRawUrl(Encoded(w)).main_path = w
  <1> DEFINE raw == Encoded(w)
             L == Len(w)
             N == Len(raw)
  <1>1. /\ raw \in Seq(Bytes) /\ N = 3 * L /\ L \in Nat
        /\ \A n \in 1..N : raw[n] # Query
    BY EncodedFacts
  <1>2. PICK f : UrlRun(raw, f)
    BY <1>1, UrlRuns
  <1>3. Original(raw) = -1
    BY <1>1, OriginalFacts
  <1>4. L \in 0..N /\ L \in 0..L /\ 3 * L <= N
    BY <1>1
  <1>5. /\ f[L].i = 3 * L /\ f[L].pos = Original(raw) - 2 * L
        /\ Len(f[L].full) = L /\ \A k \in 1..L : f[L].full[k] = w[k]
    <2>1. \A n \in 1..(3 * L) : raw[n] = Encoded(w)[n]
      OBVIOUS
    <2> HIDE DEF raw
    <2> QED
      BY <1>1, <1>2, <1>3, <1>4, <2>1, RunEncoded
  <1> HIDE DEF raw, N, L
  <1>6. f[L] \in Places /\ f[N] = f[L]
    <2>1. \A n \in 0..N : f[n] \in Places
      BY <1>2, Zenon DEF UrlRun, N
    <2>2. f[L].i >= Len(raw)
      BY <1>1, <1>5 DEF N
    <2> DEFINE T == {n \in L..N : f[n] # f[L]}
    <2>3. CASE T # {}
      <3>1. PICK n \in T : \A y \in T : n <= y
        <4>1. T \subseteq Nat
          BY <1>1
        <4> HIDE DEF T
        <4> QED
          BY <2>3, <4>1, LeastOf, Zenon
      <3>2. n \in L..N /\ f[n] # f[L]
        BY Zenon
      <3>3. n # L
        BY <3>2
      <3>4. n - 1 \in L..N /\ n - 1 \in 0..N /\ n \in 1..N /\ ~(n <= n - 1)
        BY <1>1, <3>2, <3>3
      <3>5. f[n - 1] = f[L]
        BY <3>1, <3>4
      <3>6. f[n] = UrlNext(raw, f[L])
        BY <1>2, <3>4, <3>5 DEF UrlRun, N
      <3>7. f[n] = f[L]
        BY <1>1, <1>4, <2>1, <2>2, <3>6, UrlStepFacts
      <3> QED
        BY <3>2, <3>7
    <2>4. CASE T = {}
      BY <1>1, <1>4, <2>1, <2>4
    <2> QED
      BY <2>3, <2>4
  <1> DEFINE full == f[L].full
  <1>7. full = w
    <2>1. full \in Seq(Bytes) /\ w \in Seq(Bytes)
      <3>1. Written \subseteq Bytes
        BY DEF Written, Bytes
      <3> QED
        BY <1>6, <3>1 DEF Places
    <2> HIDE DEF full
    <2>2. Len(full) = Len(w) /\ \A k \in 1..Len(w) : full[k] = w[k]
      BY <1>5 DEF full, L
    <2> QED
      BY <2>1, <2>2, SeqEqual
  <1>8. f[L].pos < 0
    BY <1>1, <1>3, <1>5
  <1>9. View(w, f[L].pos) = w
    BY <1>8 DEF View
  <1> QED
    BY <1>2, <1>6, <1>7, <1>9 DEF UrlRun, raw, N

\* What two joined texts have in common with the two.
LEMMA JoinFacts ==
    ASSUME NEW s \in Seq(Bytes), NEW t \in Seq(Bytes)
    PROVE  /\ s \o t \in Seq(Bytes) /\ Len(s \o t) = Len(s) + Len(t)
           /\ \A n \in 1..Len(s) : (s \o t)[n] = s[n]
           /\ \A n \in 1..Len(t) : (s \o t)[Len(s) + n] = t[n]
  OBVIOUS

\* So is one with a query behind it, without the query.
LEMMA EncodedWithQuery ==
    ASSUME NEW w \in Seq(Written)
    PROVE  ParseRawUrl(Encoded(w) \o <<Query>> \o w).main_path = w
  <1> DEFINE enc == Encoded(w)
             raw == enc \o <<Query>> \o w
             L == Len(w)
             N == Len(raw)
  <1>1. /\ enc \in Seq(Bytes) /\ Len(enc) = 3 * L /\ L \in Nat /\ w \in Seq(Bytes)
        /\ \A n \in 1..(3 * L) : enc[n] # Query
    <2>1. Written \subseteq Bytes
      BY DEF Written, Bytes
    <2> QED
      BY <2>1, EncodedFacts
  <1>2. /\ raw \in Seq(Bytes) /\ N = 4 * L + 1 /\ raw[3 * L + 1] = Query
        /\ \A n \in 1..(3 * L) : raw[n] = enc[n]
    <2> HIDE DEF enc
    <2>1. <<Query>> \in Seq(Bytes) /\ Len(<<Query>>) = 1 /\ <<Query>>[1] = Query
      BY DEF Query, Bytes
    <2> DEFINE q == <<Query>>
    <2> HIDE DEF q
    <2>2. /\ enc \o q \in Seq(Bytes) /\ Len(enc \o q) = 3 * L + 1
          /\ (enc \o q)[3 * L + 1] = Query
          /\ \A n \in 1..(3 * L) : (enc \o q)[n] = enc[n]
      <3>1. /\ enc \o q \in Seq(Bytes) /\ Len(enc \o q) = Len(enc) + 1
            /\ \A n \in 1..Len(enc) : (enc \o q)[n] = enc[n]
            /\ (enc \o q)[Len(enc) + 1] = q[1]
        <4>1. q \in Seq(Bytes) /\ Len(q) = 1 /\ 1 \in 1..1
          BY <2>1 DEF q
        <4>2. \A n \in 1..Len(q) : (enc \o q)[Len(enc) + n] = q[n]
          BY <1>1, <4>1, JoinFacts, Zenon
        <4>3. /\ enc \o q \in Seq(Bytes) /\ Len(enc \o q) = Len(enc) + Len(q)
              /\ \A n \in 1..Len(enc) : (enc \o q)[n] = enc[n]
          BY <1>1, <4>1, JoinFacts, Zenon
        <4>4. (enc \o q)[Len(enc) + 1] = q[1]
          BY <4>1, <4>2, Zenon
        <4> QED
          BY <4>1, <4>3, <4>4, Zenon
      <3>2. q[1] = Query
        BY <2>1 DEF q
      <3> QED
        BY <1>1, <3>1, <3>2
    <2> DEFINE p == enc \o q
    <2> HIDE DEF p
    <2>3. p \in Seq(Bytes) /\ Len(p) = 3 * L + 1
      BY <2>2 DEF p
    <2>4. /\ p \o w \in Seq(Bytes) /\ Len(p \o w) = 4 * L + 1
          /\ \A n \in 1..(3 * L + 1) : (p \o w)[n] = p[n]
      <3>1. /\ p \o w \in Seq(Bytes) /\ Len(p \o w) = Len(p) + Len(w)
            /\ \A n \in 1..Len(p) : (p \o w)[n] = p[n]
        BY <1>1, <2>3, JoinFacts, Zenon
      <3>2. (3 * L + 1) + L = 4 * L + 1
        BY <1>1
      <3> HIDE DEF enc
      <3> QED
        BY <1>1, <2>3, <3>1, <3>2
    <2>5. 3 * L + 1 \in 1..(3 * L + 1) /\ \A n \in 1..(3 * L) : n \in 1..(3 * L + 1)
      BY <1>1
    <2>6. raw = p \o w
      BY DEF p, q
    <2>7. /\ (p \o w)[3 * L + 1] = Query /\ \A n \in 1..(3 * L) : (p \o w)[n] = enc[n]
      BY <2>2, <2>4, <2>5 DEF p
    <2> HIDE DEF raw
    <2> QED
      BY <2>4, <2>6, <2>7
  <1> HIDE DEF raw
  <1>3. Original(raw) = 3 * L
    <2>1. Original(raw) \in 0..(N - 1) /\ raw[Original(raw) + 1] = Query
          /\ \A n \in 1..Original(raw) : raw[n] # Query
      <3>1. 3 * L + 1 \in 1..Len(raw) /\ Len(raw) \in Nat
        BY <1>1, <1>2
      <3>2. \E n \in 1..Len(raw) : raw[n] = Query
        BY <1>2, <3>1, Zenon
      <3> QED
        BY <3>1, <3>2, OriginalFacts
    <2> DEFINE o == Original(raw)
    <2> HIDE DEF o, enc
    <2>2. o \in 0..(N - 1) /\ raw[o + 1] = Query /\ \A n \in 1..o : raw[n] # Query
      BY <2>1 DEF o
    <2>3. ~(o < 3 * L)
      <3>1. SUFFICES ASSUME o < 3 * L PROVE FALSE
        OBVIOUS
      <3>2. o + 1 \in 1..(3 * L)
        BY <1>1, <2>2, <3>1
      <3> QED
        BY <1>1, <1>2, <2>2, <3>2
    <2>4. ~(3 * L < o)
      <3>1. SUFFICES ASSUME 3 * L < o PROVE FALSE
        OBVIOUS
      <3>2. 3 * L + 1 \in 1..o
        BY <1>1, <1>2, <2>2, <3>1
      <3> QED
        BY <1>2, <2>2, <3>2
    <2>5. o = 3 * L
      BY <1>1, <1>2, <2>2, <2>3, <2>4
    <2> QED
      BY <2>5 DEF o
  <1>4. PICK f : UrlRun(raw, f)
    BY <1>2, UrlRuns
  <1>5. L \in 0..N /\ L \in 0..L /\ 3 * L <= N /\ L + 1 \in 1..N /\ L + 1 \in 0..N /\ N \in Nat
    BY <1>1, <1>2
  <1>6. /\ f[L].i = 3 * L /\ f[L].pos = L
        /\ Len(f[L].full) = L /\ \A k \in 1..L : f[L].full[k] = w[k]
    <2>1. /\ f[L].i = 3 * L /\ f[L].pos = Original(raw) - 2 * L
          /\ Len(f[L].full) = L /\ \A k \in 1..L : f[L].full[k] = w[k]
      <3>1. /\ w \in Seq(Written) /\ raw \in Seq(Bytes) /\ UrlRun(raw, f)
            /\ 3 * Len(w) <= Len(raw) /\ \A n \in 1..(3 * Len(w)) : raw[n] = Encoded(w)[n]
            /\ Original(raw) = 3 * Len(w) /\ L \in 0..Len(w)
        BY <1>2, <1>3, <1>4, <1>5
      <3> HIDE DEF L, N, enc
      <3> QED
        BY <3>1, RunEncoded
    <2> QED
      BY <1>1, <1>3, <2>1
  <1> DEFINE s == f[L]
             t == f[L + 1]
             u == f[N]
  <1>7. s \in Places /\ t \in Places /\ u \in Places /\ t = UrlNext(raw, s)
    <2>1. N \in 0..N /\ (L + 1) - 1 = L
      BY <1>1, <1>5
    <2> QED
      BY <1>4, <1>5, <2>1 DEF UrlRun
  <1> HIDE DEF s, N, L, enc
  <1>8. /\ t.i = 3 * L + 1 /\ t.pos = L /\ Begins(s.full, t.full) /\ Len(t.full) = L + 1
    <2>1. s.i < Len(raw) /\ raw[s.i + 1] # Percent /\ raw[s.i + 1] = Query
      <3>1. s.i = 3 * L /\ raw[3 * L + 1] # Percent
        BY <1>2, <1>6 DEF s, Percent, Query
      <3>2. s.i < Len(raw)
        BY <1>1, <1>2, <3>1 DEF N
      <3> QED
        BY <1>2, <3>1, <3>2
    <2>2. /\ UrlNext(raw, s).i = s.i + 1 /\ UrlNext(raw, s).pos = s.pos
          /\ UrlNext(raw, s).full = Append(s.full, Query)
      <3>1. (IF raw[s.i + 1] = Plus THEN Blank ELSE raw[s.i + 1]) = Query
        BY <2>1 DEF Plus, Query
      <3> QED
        BY <1>2, <1>7, <2>1, <3>1, PlainUrlStep
    <2>3. Begins(s.full, UrlNext(raw, s).full)
      BY <1>2, <1>7, UrlStepFacts, Zenon
    <2>4. s.full \in Seq(Bytes) /\ Len(s.full) = L /\ s.i = 3 * L /\ s.pos = L
      BY <1>6, <1>7 DEF Places, s
    <2>5. Len(Append(s.full, Query)) = L + 1
      BY <2>4
    <2> HIDE DEF t
    <2> QED
      BY <1>7, <2>2, <2>3, <2>4, <2>5
  <1>9. u.pos = L /\ Begins(t.full, u.full)
    <2>1. Behind(raw, t.i)
      BY <1>1, <1>3, <1>8 DEF Behind
    <2>2. N \in (L + 1)..Len(raw) /\ L + 1 \in 0..Len(raw)
      BY <1>1, <1>5 DEF N
    <2>3. u.pos = t.pos /\ Begins(t.full, u.full)
      BY <1>2, <1>4, <2>1, <2>2, RunBehind
    <2> QED
      BY <1>8, <2>3, Zenon
  <1> HIDE DEF t
  <1>10. /\ Len(u.full) \in Nat /\ Len(u.full) >= L + 1
         /\ \A k \in 1..L : u.full[k] = w[k]
    <2>1. Len(u.full) \in Nat
      BY <1>7 DEF Places
    <2>2. Len(u.full) >= L + 1 /\ \A k \in 1..(L + 1) : u.full[k] = t.full[k]
      BY <1>1, <1>8, <1>9, <2>1 DEF Begins
    <2>3. \A k \in 1..L : t.full[k] = w[k]
      BY <1>1, <1>6, <1>8 DEF Begins, s
    <2>4. \A k \in 1..L : k \in 1..(L + 1)
      BY <1>1
    <2> QED
      BY <2>1, <2>2, <2>3, <2>4
  <1> DEFINE full == u.full
  <1>11. View(full, L) = w
    <2>1. full # <<>>
      <3>1. Len(full) # 0
        BY <1>1, <1>10
      <3> QED
        BY <3>1
    <2> HIDE DEF full, u
    <2> DEFINE v == [n \in 1..L |-> IF n <= Len(full) THEN full[n] ELSE Unknown]
    <2>2. View(full, L) = v
      BY <1>1, <2>1 DEF View
    <2>3. \A k \in 1..L : k <= Len(full) /\ full[k] = w[k]
      BY <1>1, <1>10 DEF full
    <2>4. v = [n \in 1..L |-> w[n]]
      BY <2>3
    <2>5. w = [n \in 1..L |-> w[n]]
      BY <1>1 DEF L
    <2> QED
      BY <2>2, <2>4, <2>5, Zenon
  <1>12. ParseRawUrl(raw).main_path = View(u.full, u.pos)
    BY <1>4 DEF UrlRun, u, N
  <1> QED
    BY <1>9, <1>11, <1>12, Zenon DEF raw, enc

-----------------------------------------------------------------------------
(* The main path is the decoding of what stands before the question mark *)

\* Without a question mark pos never becomes a position.
LEMMA MainPathAlone ==
    ASSUME NEW raw \in Seq(Bytes), Original(raw) = -1, Escapes(raw)
    PROVE  ParseRawUrl(raw).main_path = ParseRawUrl(raw).full_path
  <1> DEFINE N == Len(raw)
  <1>1. N \in Nat
    OBVIOUS
  <1>2. PICK f : UrlRun(raw, f)
    BY UrlRuns
  <1> DEFINE T == {n \in 0..N : ~(f[n].pos < 0)}
  <1>3. CASE T # {}
    <2>1. PICK n \in T : \A y \in T : n <= y
      <3>1. T \subseteq Nat
        BY <1>1
      <3> HIDE DEF T
      <3> QED
        BY <1>3, <3>1, LeastOf, Zenon
    <2>2. n \in 0..N /\ ~(f[n].pos < 0)
      BY Zenon
    <2>3. n # 0
      <3>1. f[0].pos = -1
        BY <1>2 DEF UrlRun, Start
      <3> QED
        BY <2>2, <3>1
    <2>4. n - 1 \in 0..N /\ n \in 1..N /\ ~(n <= n - 1)
      BY <1>1, <2>2, <2>3
    <2> DEFINE s == f[n - 1]
    <2>5. s.pos < 0
      BY <2>1, <2>4
    <2>6. s \in Places /\ f[n] = UrlNext(raw, s)
      BY <1>2, <2>4, Zenon DEF UrlRun
    <2> HIDE DEF s, T
    <2>7. s.i \in Nat /\ s.pos \in Int
      BY <2>6 DEF Places
    <2>8. CASE s.i >= N
      <3>1. f[n] = s
        BY <2>6, <2>8, UrlStepFacts
      <3> QED
        BY <2>2, <2>5, <3>1
    <2>9. CASE ~(s.i >= N) /\ raw[s.i + 1] # Percent
      <3>1. f[n].pos = s.pos
        BY <1>1, <2>6, <2>7, <2>9, PlainUrlStep
      <3> QED
        BY <2>2, <2>5, <3>1
    <2>10. CASE ~(s.i >= N) /\ raw[s.i + 1] = Percent
      <3>1. EscapeAt(raw, s.i + 1)
        <4>1. s.i + 1 \in 1..Len(raw)
          BY <1>1, <2>7, <2>10
        <4> QED
          BY <2>10, <4>1, Zenon DEF Escapes, EscapeAt
      <3>2. f[n].pos = IF InFront(s.i + 2, Original(raw)) THEN s.pos - 2 ELSE s.pos
        BY <1>1, <2>6, <2>7, <2>10, <3>1, EscapedUrlStep
      <3> QED
        BY <2>2, <2>5, <2>7, <3>2
    <2> QED
      BY <2>8, <2>9, <2>10, Zenon
  <1>4. CASE T = {}
    <2>1. N \in 0..N
      BY <1>1
    <2>2. f[N].pos < 0
      BY <1>4, <2>1
    <2>3. View(f[N].full, f[N].pos) = f[N].full
      BY <2>2 DEF View
    <2> QED
      BY <1>2, <2>3 DEF UrlRun
  <1> QED
    BY <1>3, <1>4, Zenon

\* Side by side on a text and on what stands before its question mark: the two
\* read the same until the second is at its end; the first has pos there.
Abreast(q, s, t) ==
    /\ t.i \in 0..q /\ s.pos = Len(t.full) + q - t.i /\ Begins(t.full, s.full)
    /\ t.i < q => s.i = t.i /\ s.full = t.full
    /\ t.i = q => s.i >= q

\* One iteration on each keeps them abreast, and the second goes on.
LEMMA AbreastStep ==
    ASSUME NEW raw \in Seq(Bytes), NEW before \in Seq(Bytes),
           Original(raw) \in Nat, Original(raw) < Len(raw), Len(before) = Original(raw),
           \A n \in 1..Len(before) : before[n] = raw[n],
           raw[Original(raw) + 1] = Query,
           Original(before) = -1, Escapes(before),
           NEW s \in Places, NEW t \in Places, Abreast(Original(raw), s, t)
    PROVE  /\ Abreast(Original(raw), UrlNext(raw, s), UrlNext(before, t))
           /\ t.i < Original(raw) => UrlNext(before, t).i >= t.i + 1
  <1> DEFINE q == Original(raw)
             x == UrlNext(raw, s)
             y == UrlNext(before, t)
  <1> HIDE DEF q, x, y
  <1>1. /\ q \in Nat /\ q < Len(raw) /\ Len(before) = q /\ raw[q + 1] = Query
        /\ Abreast(q, s, t) /\ Len(raw) \in Nat
    BY DEF q
  <1>2. /\ s.i \in Nat /\ t.i \in Nat /\ s.pos \in Int /\ s.full \in Seq(Bytes)
        /\ t.full \in Seq(Bytes) /\ Len(s.full) \in Nat /\ Len(t.full) \in Nat
    BY DEF Places
  <1>3. /\ x \in Places /\ y \in Places
        /\ Len(x.full) \in Nat /\ Len(y.full) \in Nat
    <2>1. x \in Places /\ y \in Places
      BY UrlStepFacts, Zenon DEF x, y
    <2>2. \A p \in Places : Len(p.full) \in Nat
      BY DEF Places
    <2> QED
      BY <2>1, <2>2, Zenon
  <1>4. CASE t.i = q
    <2>1. y = t
      BY <1>1, <1>2, <1>4, UrlStepFacts DEF y
    <2>2. s.i >= q /\ Begins(t.full, s.full) /\ s.pos = Len(t.full) + q - t.i /\ t.i \in 0..q
      BY <1>1, <1>4 DEF Abreast
    <2>3. Begins(s.full, x.full)
      BY UrlStepFacts, Zenon DEF x
    <2>4. Begins(t.full, x.full)
      BY <1>2, <1>3, <2>2, <2>3, BeginsTransitive, Zenon
    <2>5. x.pos = s.pos /\ x.i >= q
      <3>1. CASE s.i >= Len(raw)
        <4>1. x = s
          BY <3>1, UrlStepFacts DEF x
        <4> QED
          BY <2>2, <4>1
      <3>2. CASE s.i < Len(raw)
        <4>1. x.i >= s.i + 1 /\ x.i \in Nat
          <5>1. x.i >= s.i + 1
            BY <3>2, UrlStepFacts, Zenon DEF x
          <5> QED
            BY <1>3, <5>1 DEF Places
        <4>2. CASE s.i > q
          <5>1. Behind(raw, s.i)
            BY <1>1, <4>2 DEF Behind, q
          <5>2. x.pos = s.pos
            BY <5>1, UrlStepFacts, Zenon DEF x
          <5> QED
            BY <1>1, <1>2, <2>2, <4>1, <5>2
        <4>3. CASE ~(s.i > q)
          <5>1. s.i = q
            BY <1>1, <1>2, <2>2, <4>3
          <5>2. raw[s.i + 1] # Percent
            BY <1>1, <5>1 DEF Percent, Query
          <5>3. x.pos = s.pos
            BY <3>2, <5>2, PlainUrlStep DEF x
          <5> QED
            BY <1>1, <4>1, <5>1, <5>3
        <4> QED
          BY <4>2, <4>3
      <3> QED
        BY <1>1, <1>2, <3>1, <3>2
    <2> HIDE DEF x
    <2>6. Abreast(q, x, y)
      <3>1. t.i \in 0..q /\ x.pos = Len(t.full) + q - t.i
        BY <2>2, <2>5
      <3>2. ~(t.i < q)
        BY <1>1, <1>4
      <3> QED
        BY <2>1, <2>4, <2>5, <3>1, <3>2, Zenon DEF Abreast
    <2> QED
      BY <1>1, <1>4, <2>6 DEF q, x, y
  <1>5. CASE t.i # q
    <2>1. /\ t.i < q /\ s.i = t.i /\ s.full = t.full /\ s.pos = Len(t.full) + q - t.i
          /\ t.i < Len(before) /\ s.i < Len(raw)
      <3>1. t.i < q
        BY <1>1, <1>2, <1>5 DEF Abreast
      <3>2. s.i = t.i /\ s.full = t.full /\ s.pos = Len(t.full) + q - t.i
        BY <1>1, <3>1, Zenon DEF Abreast
      <3> QED
        BY <1>1, <1>2, <3>1, <3>2
    <2>2. before[t.i + 1] = raw[s.i + 1] /\ t.i + 1 \in 1..Len(before)
      <3>1. t.i + 1 \in 1..Len(before)
        BY <1>1, <1>2, <2>1
      <3> QED
        BY <2>1, <3>1
    <2>3. CASE before[t.i + 1] # Percent
      <3> DEFINE c == IF raw[s.i + 1] = Plus THEN Blank ELSE raw[s.i + 1]
      <3>1. y.i = t.i + 1 /\ y.full = Append(t.full, c)
        <4>1. /\ y.i = t.i + 1
              /\ y.full = Append(t.full, IF before[t.i + 1] = Plus THEN Blank ELSE before[t.i + 1])
          BY <2>1, <2>3, PlainUrlStep DEF y
        <4> QED
          BY <2>2, <4>1, Zenon
      <3>2. x.i = s.i + 1 /\ x.pos = s.pos /\ x.full = Append(s.full, c)
        BY <2>1, <2>2, <2>3, PlainUrlStep DEF x
      <3> HIDE DEF c
      <3>3. Len(y.full) = Len(t.full) + 1 /\ Begins(y.full, x.full) /\ x.full = y.full
        <4>1. x.full = y.full
          BY <2>1, <3>1, <3>2
        <4>2. Len(y.full) = Len(t.full) + 1
          BY <1>2, <3>1
        <4>3. Begins(y.full, y.full)
          BY <1>3 DEF Begins
        <4> QED
          BY <4>1, <4>2, <4>3
      <3>4. y.i \in 0..q /\ x.pos = Len(y.full) + q - y.i /\ x.i = y.i
        <4> DEFINE a == Len(t.full)
                   b == Len(y.full)
        <4> HIDE DEF a, b
        <4>1. q \in Nat /\ t.i \in Nat /\ t.i < q /\ a \in Nat /\ b = a + 1
          BY <1>1, <1>2, <2>1, <3>3 DEF a, b
        <4>2. s.pos = a + q - t.i /\ x.pos = s.pos
          BY <2>1, <3>2 DEF a
        <4>3. y.i = t.i + 1 /\ x.i = t.i + 1
          BY <2>1, <3>1, <3>2
        <4>4. y.i \in 0..q /\ x.i = y.i
          BY <4>1, <4>3
        <4>5. x.pos = b + q - y.i
          <5>1. \A e, k, m \in Int : e + k - m = (e + 1) + k - (m + 1)
            OBVIOUS
          <5>2. a \in Int /\ q \in Int /\ t.i \in Int
            BY <4>1
          <5>3. a + q - t.i = (a + 1) + q - (t.i + 1)
            BY <5>1, <5>2, Zenon
          <5> QED
            BY <4>1, <4>2, <4>3, <5>3, Zenon
        <4> QED
          BY <4>4, <4>5 DEF b
      <3>5. y.i = q => x.i >= q
        BY <1>1, <3>4
      <3>6. Abreast(q, x, y)
        BY <3>3, <3>4, <3>5, Zenon DEF Abreast
      <3>7. y.i >= t.i + 1
        BY <1>2, <3>1
      <3> QED
        BY <3>6, <3>7 DEF q, x, y
    <2>4. CASE before[t.i + 1] = Percent
      <3>1. EscapeAt(before, t.i + 1)
        BY <2>2, <2>4, Zenon DEF Escapes, EscapeAt
      <3>2. /\ t.i + 3 <= q /\ t.i + 2 \in 1..q /\ t.i + 3 \in 1..q /\ (t.i + 1) + 1 = t.i + 2
            /\ (t.i + 1) + 2 = t.i + 3
        <4>1. (t.i + 1) + 2 <= q
          BY <1>1, <3>1 DEF EscapeAt
        <4>2. q \in Nat /\ t.i \in Nat
          BY <1>1, <1>2
        <4> QED
          BY <4>1, <4>2
      <3>3. before[t.i + 2] = raw[s.i + 2] /\ before[t.i + 3] = raw[s.i + 3]
        BY <1>1, <2>1, <3>2
      <3>4. EscapeAt(raw, s.i + 1)
        <4>1. (s.i + 1) + 2 <= Len(raw)
          BY <1>1, <1>2, <2>1, <3>2
        <4>2. (s.i + 1) + 1 = t.i + 2 /\ (s.i + 1) + 2 = t.i + 3 /\ s.i + 2 = t.i + 2 /\ s.i + 3 = t.i + 3
          BY <1>2, <2>1
        <4>3. raw[(s.i + 1) + 1] = before[(t.i + 1) + 1] /\ raw[(s.i + 1) + 2] = before[(t.i + 1) + 2]
          BY <3>2, <3>3, <4>2
        <4> QED
          BY <3>1, <4>1, <4>3 DEF EscapeAt
      <3> DEFINE c == 16 * Hex(raw[s.i + 2]) + Hex(raw[s.i + 3])
      <3>5. y.i = t.i + 3 /\ y.full = Append(t.full, c)
        <4>1. /\ y.i = t.i + 3
              /\ y.full = Append(t.full, 16 * Hex(before[t.i + 2]) + Hex(before[t.i + 3]))
          BY <2>1, <2>4, <3>1, EscapedUrlStep DEF y
        <4> QED
          BY <3>3, <4>1
      <3>6. x.i = s.i + 3 /\ x.pos = s.pos - 2 /\ x.full = Append(s.full, c)
        <4>1. /\ x.i = s.i + 3 /\ x.full = Append(s.full, c)
              /\ x.pos = IF InFront(s.i + 2, Original(raw)) THEN s.pos - 2 ELSE s.pos
          BY <2>1, <2>2, <2>4, <3>4, EscapedUrlStep DEF x
        <4>2. InFront(s.i + 2, Original(raw))
          BY <1>1, <1>2, <2>1, <3>2 DEF InFront, q
        <4> HIDE DEF c
        <4> QED
          BY <4>1, <4>2
      <3> HIDE DEF c
      <3>7. Len(y.full) = Len(t.full) + 1 /\ Begins(y.full, x.full) /\ x.full = y.full
        <4>1. x.full = y.full
          BY <2>1, <3>5, <3>6
        <4>2. Len(y.full) = Len(t.full) + 1
          BY <1>2, <3>5
        <4>3. Begins(y.full, y.full)
          BY <1>3 DEF Begins
        <4> QED
          BY <4>1, <4>2, <4>3
      <3>8. y.i \in 0..q /\ x.pos = Len(y.full) + q - y.i /\ x.i = y.i
        <4> DEFINE a == Len(t.full)
                   b == Len(y.full)
        <4> HIDE DEF a, b
        <4>1. q \in Nat /\ t.i \in Nat /\ t.i + 3 <= q /\ a \in Nat /\ b = a + 1
          BY <1>1, <1>2, <3>2, <3>7 DEF a, b
        <4>2. s.pos = a + q - t.i /\ x.pos = s.pos - 2
          BY <2>1, <3>6 DEF a
        <4>3. y.i = t.i + 3 /\ x.i = t.i + 3
          BY <2>1, <3>5, <3>6
        <4>4. y.i \in 0..q /\ x.pos = b + q - y.i /\ x.i = y.i
          <5>1. y.i \in 0..q
            BY <4>1, <4>3
          <5>2. x.pos = (a + q - t.i) - 2
            BY <4>2
          <5>3. (a + q - t.i) - 2 = (a + 1) + q - (t.i + 3)
            <6>1. \A e, k, m \in Int : (e + k - m) - 2 = (e + 1) + k - (m + 3)
              OBVIOUS
            <6>2. a \in Int /\ q \in Int /\ t.i \in Int
              BY <4>1
            <6> QED
              BY <6>1, <6>2, Zenon
          <5>4. x.pos = b + q - y.i
            BY <4>1, <4>3, <5>2, <5>3
          <5> QED
            BY <4>3, <5>1, <5>4
        <4> QED
          BY <4>4 DEF b
      <3>9. y.i = q => x.i >= q
        BY <1>1, <3>8
      <3>10. Abreast(q, x, y)
        BY <3>7, <3>8, <3>9, Zenon DEF Abreast
      <3>11. y.i >= t.i + 1
        BY <1>2, <3>5
      <3> QED
        BY <3>10, <3>11 DEF q, x, y
    <2> QED
      BY <2>3, <2>4
  <1> QED
    BY <1>4, <1>5

\* The view shows what was decoded in front of the question mark.
LEMMA MainPathInFront ==
    ASSUME NEW raw \in Seq(Bytes), Original(raw) # -1, Escapes(BeforeQuery(raw))
    PROVE  ParseRawUrl(raw).main_path = ParseRawUrl(BeforeQuery(raw)).full_path
  <1> DEFINE q == Original(raw)
             before == SubSeq(raw, 1, q)
             N == Len(raw)
  <1>1. /\ q \in Nat /\ q < N /\ N \in Nat /\ raw[q + 1] = Query
        /\ \A n \in 1..q : raw[n] # Query
    <2>1. \E n \in 1..Len(raw) : raw[n] = Query
      <3>1. Len(raw) \in Nat
        OBVIOUS
      <3> QED
        BY <3>1, OriginalFacts, Zenon
    <2>2. Len(raw) \in Nat
      OBVIOUS
    <2>3. /\ q \in 0..(N - 1) /\ raw[q + 1] = Query
          /\ \A n \in 1..q : raw[n] # Query
      BY <2>1, <2>2, OriginalFacts
    <2> HIDE DEF q
    <2> QED
      BY <2>2, <2>3
  <1>2. /\ before \in Seq(Bytes) /\ Len(before) = q
        /\ \A n \in 1..Len(before) : before[n] = raw[n]
    <2> HIDE DEF q
    <2> QED
      BY <1>1, SubSeqProperties
  <1>3. BeforeQuery(raw) = before
    BY DEF BeforeQuery
  <1> HIDE DEF before
  <1>4. Original(before) = -1
    <2> HIDE DEF q
    <2>1. \A n \in 1..Len(before) : before[n] # Query
      BY <1>1, <1>2
    <2>2. Len(before) \in Nat
      BY <1>1, <1>2
    <2> QED
      BY <2>1, <2>2, OriginalFacts
  <1>5. PICK f : UrlRun(raw, f)
    BY UrlRuns
  <1>6. PICK g : UrlRun(before, g)
    BY <1>2, UrlRuns
  <1> DEFINE Good(n) == Abreast(q, f[n], g[n]) /\ (g[n].i >= n \/ g[n].i = q)
             T == {n \in 0..q : ~Good(n)}
  <1>7. /\ \A n \in 0..q : f[n] \in Places /\ g[n] \in Places /\ n \in 0..N
        /\ \A n \in 1..q : f[n] = UrlNext(raw, f[n - 1]) /\ g[n] = UrlNext(before, g[n - 1])
        /\ f[0] = Start(raw) /\ g[0] = Start(before)
    <2>1. \A n \in 0..q : n \in 0..N
      BY <1>1
    <2>2. \A n \in 1..q : n \in 1..N
      BY <1>1
    <2> HIDE DEF q, N
    <2>3. \A n \in 0..N : f[n] \in Places
      BY <1>5, Zenon DEF UrlRun, N
    <2>4. \A n \in 0..q : g[n] \in Places
      BY <1>2, <1>6 DEF UrlRun
    <2>5. \A n \in 1..N : f[n] = UrlNext(raw, f[n - 1])
      BY <1>5, Zenon DEF UrlRun, N
    <2>6. \A n \in 1..q : g[n] = UrlNext(before, g[n - 1])
      BY <1>2, <1>6 DEF UrlRun
    <2>7. f[0] = Start(raw) /\ g[0] = Start(before)
      BY <1>5, <1>6 DEF UrlRun
    <2> QED
      BY <2>1, <2>2, <2>3, <2>4, <2>5, <2>6, <2>7, Zenon
  <1>8. Escapes(before)
    BY <1>3
  <1> HIDE DEF N
  <1>9. T = {}
    <2>1. SUFFICES ASSUME T # {} PROVE FALSE
      BY Zenon
    <2>2. PICK n \in T : \A y \in T : n <= y
      <3>1. T \subseteq Nat
        BY <1>1
      <3> HIDE DEF T
      <3> QED
        BY <2>1, <3>1, LeastOf, Zenon
    <2>3. n \in 0..q /\ ~Good(n)
      BY Zenon
    <2>4. n # 0
      <3>1. Good(0)
        <4>1. f[0].i = 0 /\ f[0].pos = q /\ f[0].full = <<>> /\ g[0].i = 0 /\ g[0].full = <<>>
          BY <1>7 DEF Start
        <4>2. Begins(g[0].full, f[0].full) /\ Len(g[0].full) = 0
          BY <4>1 DEF Begins
        <4>3. g[0].i \in 0..q /\ f[0].pos = Len(g[0].full) + q - g[0].i /\ f[0].i = g[0].i
          BY <1>1, <4>1, <4>2
        <4>4. (g[0].i = q => f[0].i >= q) /\ g[0].i >= 0
          BY <1>1, <4>1
        <4> QED
          BY <4>1, <4>2, <4>3, <4>4, Zenon DEF Abreast
      <3> QED
        BY <2>3, <3>1, Zenon
    <2>5. n - 1 \in 0..q /\ n \in 1..q /\ ~(n <= n - 1)
      BY <1>1, <2>3, <2>4
    <2>6. Good(n - 1)
      <3> HIDE DEF Good
      <3> QED
        BY <2>2, <2>5
    <2> DEFINE s == f[n - 1]
               t == g[n - 1]
    <2>7. s \in Places /\ t \in Places /\ f[n] = UrlNext(raw, s) /\ g[n] = UrlNext(before, t)
      BY <1>7, <2>5, Zenon
    <2>8. Abreast(q, s, t) /\ (t.i >= n - 1 \/ t.i = q)
      BY <2>6
    <2> HIDE DEF s, t, T
    <2>9. /\ Abreast(q, UrlNext(raw, s), UrlNext(before, t))
          /\ t.i < q => UrlNext(before, t).i >= t.i + 1
      BY <1>1, <1>2, <1>4, <1>8, <2>7, <2>8, AbreastStep DEF N
    <2>10. g[n].i >= n \/ g[n].i = q
      <3>1. t.i \in 0..q
        BY <2>8, Zenon DEF Abreast
      <3>2. g[n] \in Places /\ g[n].i \in Nat
        BY <1>7, <2>3 DEF Places
      <3>3. CASE t.i < q
        <4>1. g[n].i >= t.i + 1 /\ t.i >= n - 1
          BY <1>1, <2>7, <2>8, <2>9, <3>1, <3>3
        <4> QED
          BY <1>1, <2>3, <3>1, <3>2, <4>1
      <3>4. CASE ~(t.i < q)
        <4>1. t.i >= Len(before)
          BY <1>1, <1>2, <3>1, <3>4
        <4>2. g[n] = t
          BY <1>2, <2>7, <4>1, UrlStepFacts, Zenon
        <4> QED
          BY <1>1, <3>1, <3>4, <4>2
      <3> QED
        BY <3>3, <3>4, Zenon
    <2> QED
      BY <2>3, <2>7, <2>9, <2>10, Zenon
  <1> DEFINE F == g[q].full
             u == f[N]
             w == f[q]
  <1>10. /\ q \in 0..q /\ N \in 0..N /\ q \in 0..Len(raw) /\ N \in q..Len(raw)
    BY <1>1 DEF N
  <1>11. Abreast(q, w, g[q]) /\ g[q].i = q
    <2>1. Good(q)
      BY <1>9, <1>10, Zenon
    <2>2. g[q].i \in 0..q
      BY <2>1, Zenon DEF Abreast
    <2> QED
      BY <1>1, <2>1, <2>2
  <1>12. w \in Places /\ F \in Seq(Bytes) /\ Len(F) \in Nat
    <2>1. w \in Places /\ g[q] \in Places
      BY <1>7, <1>10, Zenon
    <2> QED
      BY <2>1 DEF Places
  <1>13. w.pos = Len(F) /\ Begins(F, w.full) /\ w.i >= q
    <2>1. w.pos = Len(F) + q - g[q].i
      BY <1>11, Zenon DEF Abreast
    <2>2. Len(F) + q - q = Len(F)
      BY <1>1, <1>12
    <2>3. Begins(F, w.full) /\ w.i >= q
      BY <1>11, Zenon DEF Abreast
    <2> QED
      BY <1>11, <2>1, <2>2, <2>3
  <1>14. ParseRawUrl(raw).main_path = View(u.full, u.pos) /\ ParseRawUrl(before).full_path = F
         /\ u \in Places
    <2>1. u \in Places
      BY <1>5, <1>10, Zenon DEF UrlRun, N
    <2> QED
      BY <1>2, <1>5, <1>6, <2>1 DEF UrlRun, N
  <1> HIDE DEF F, u, w, T
  <1>15. u.pos = Len(F) /\ Begins(F, u.full)
    <2>1. w.i \in Nat /\ Len(w.full) \in Nat /\ w.full \in Seq(Bytes)
      BY <1>12 DEF Places
    <2>2. CASE w.i >= N
      <3> DEFINE U == {n \in q..N : f[n] # w}
      <3>1. CASE U # {}
        <4>1. PICK n \in U : \A y \in U : n <= y
          <5>1. U \subseteq Nat
            BY <1>1
          <5> HIDE DEF U
          <5> QED
            BY <3>1, <5>1, LeastOf, Zenon
        <4>2. n \in q..N /\ f[n] # w
          BY Zenon
        <4>3. n # q
          BY <4>2 DEF w
        <4>4. n - 1 \in q..N /\ n \in 1..N /\ ~(n <= n - 1)
          BY <1>1, <4>2, <4>3
        <4>5. f[n - 1] = w
          BY <4>1, <4>4
        <4>6. f[n] = UrlNext(raw, w)
          BY <1>5, <4>4, <4>5 DEF UrlRun, N
        <4>7. f[n] = w
          BY <1>12, <2>2, <4>6, UrlStepFacts DEF N
        <4> QED
          BY <4>2, <4>7
      <3>2. CASE U = {}
        <4>1. N \in q..N
          BY <1>1
        <4>2. u = w
          BY <3>2, <4>1 DEF u
        <4> QED
          BY <1>13, <4>2
      <3> QED
        BY <3>1, <3>2
    <2>3. CASE ~(w.i >= N) /\ w.i > q
      <3>1. Behind(raw, w.i)
        BY <2>3 DEF Behind
      <3>2. u.pos = w.pos /\ Begins(w.full, u.full)
        <4> HIDE DEF q
        <4> QED
          BY <1>5, <1>10, <3>1, RunBehind DEF u, w
      <3>3. Len(u.full) \in Nat
        BY <1>14 DEF Places
      <3>4. Begins(F, u.full)
        BY <1>12, <1>13, <2>1, <3>2, <3>3, BeginsTransitive, Zenon
      <3> QED
        BY <1>13, <3>2, <3>4
    <2>4. CASE ~(w.i >= N) /\ ~(w.i > q)
      <3> DEFINE x == f[q + 1]
      <3>1. w.i = q /\ q + 1 \in 0..N /\ q + 1 \in 1..N /\ (q + 1) - 1 = q /\ N \in (q + 1)..N
        BY <1>1, <1>13, <2>1, <2>4
      <3>2. x = UrlNext(raw, w)
        BY <1>5, <3>1 DEF UrlRun, N, w
      <3>3. /\ x.i = w.i + 1 /\ x.pos = w.pos
        <4>1. raw[w.i + 1] # Percent /\ w.i < Len(raw)
          BY <1>1, <3>1 DEF Percent, Query, N
        <4> QED
          BY <1>12, <3>2, <4>1, PlainUrlStep
      <3>4. Begins(w.full, x.full) /\ x \in Places
        BY <1>12, <3>2, UrlStepFacts, Zenon
      <3> HIDE DEF x
      <3>5. Behind(raw, x.i)
        BY <1>1, <3>1, <3>3 DEF Behind
      <3>6. u.pos = x.pos /\ Begins(x.full, u.full)
        <4> HIDE DEF q
        <4> QED
          BY <1>5, <3>1, <3>5, RunBehind DEF u, x, N
      <3>7. Len(u.full) \in Nat /\ Len(x.full) \in Nat
        BY <1>14, <3>4 DEF Places
      <3>8. Begins(F, x.full)
        BY <1>12, <1>13, <2>1, <3>4, <3>7, BeginsTransitive, Zenon
      <3>9. Begins(F, u.full)
        BY <1>12, <3>6, <3>7, <3>8, BeginsTransitive, Zenon
      <3> QED
        BY <1>13, <3>3, <3>6, <3>9
    <2> QED
      BY <2>2, <2>3, <2>4, Zenon
  <1>16. View(u.full, Len(F)) = F
    <2> DEFINE full == u.full
    <2>1. full \in Seq(Bytes) /\ Len(full) \in Nat
      BY <1>14 DEF Places
    <2> HIDE DEF full
    <2>2. Len(F) <= Len(full) /\ \A k \in 1..Len(F) : full[k] = F[k]
      BY <1>15, Zenon DEF Begins, full
    <2>3. CASE full = <<>>
      <3>1. Len(F) = 0
        BY <1>12, <2>2, <2>3
      <3>2. F = <<>>
        BY <1>12, <3>1
      <3> QED
        BY <2>3, <3>2 DEF View, full
    <2>4. CASE full # <<>>
      <3> DEFINE v == [n \in 1..Len(F) |-> IF n <= Len(full) THEN full[n] ELSE Unknown]
      <3>1. View(full, Len(F)) = v
        BY <1>12, <2>4 DEF View
      <3>2. \A k \in 1..Len(F) : k <= Len(full) /\ full[k] = F[k]
        BY <1>12, <2>1, <2>2
      <3>3. v = [n \in 1..Len(F) |-> F[n]]
        BY <3>2
      <3>4. F = [n \in 1..Len(F) |-> F[n]]
        BY <1>12
      <3> QED
        BY <3>1, <3>3, <3>4, Zenon DEF full
    <2> QED
      BY <2>3, <2>4
  <1> QED
    BY <1>3, <1>14, <1>15, <1>16, Zenon

-----------------------------------------------------------------------------
(* The headers *)

Keys == {"Host", "X-Forwarded-For", "X-Forwarded-Host", "Other"}
Values == {"v", "w", "localhost:7000", "127.0.0.1", "localhost:9191"}

\* The lines of the client, and those that generate writes.
Fields == [form : {"field"}, key : Keys, blanks : {0, 1, 33, 34}, value : Values]
AnyLines == Fields \cup [form : {"blank first", "no colon", "bad key"}]

\* No key has two values.
Unique(hs) == \A g, h \in hs : g[1] = h[1] => g = h
Headers == {hs \in SUBSET (Keys \X Values) : Unique(hs)}

Reasons == {"SpaceInTheFrontOfHeader", "InvalidFormat", "InvalidKeyName", "TooManySpaces"}
LineStates == [code : {"Success"}, headers : Headers] \cup {Refused(c) : c \in Reasons}

NoHeaders == [code |-> "Success", headers |-> {}]
LineNext(l, s) ==
    IF s.code # "Success" THEN s
    ELSE CASE l.form = "blank first" -> Refused("SpaceInTheFrontOfHeader")
           [] l.form = "no colon"    -> Refused("InvalidFormat")
           [] l.form = "bad key"     -> Refused("InvalidKeyName")
           [] l.form = "field" ->
                IF l.blanks > 33 THEN Refused("TooManySpaces")
                ELSE [code |-> "Success", headers |-> Emplace(s.headers, l.key, l.value)]

\* emplace gives no key a second value.
LEMMA EmplaceFacts ==
    ASSUME NEW hs \in Headers, NEW key \in Keys, NEW value \in Values
    PROVE  Emplace(hs, key, value) \in Headers
  <1>1. hs \subseteq Keys \X Values /\ Unique(hs)
    BY Zenon DEF Headers
  <1>2. CASE \E h \in hs : h[1] = key
    BY <1>2, Zenon DEF Emplace
  <1>3. CASE ~(\E h \in hs : h[1] = key)
    <2> DEFINE p == <<key, value>>
    <2>1. p \in Keys \X Values /\ p[1] = key
      OBVIOUS
    <2>2. Emplace(hs, key, value) = hs \cup {p}
      BY <1>3, Zenon DEF Emplace
    <2> HIDE DEF p
    <2>3. Unique(hs \cup {p})
      <3>1. ASSUME NEW g \in hs \cup {p}, NEW h \in hs \cup {p}, g[1] = h[1]
            PROVE  g = h
        BY <1>1, <1>3, <2>1, <3>1, Zenon DEF Unique
      <3> QED
        BY <3>1, Zenon DEF Unique
    <2> QED
      BY <1>1, <2>1, <2>2, <2>3 DEF Headers
  <1> QED
    BY <1>2, <1>3

\* A line adds its header or ends the parsing; a well-formed one adds.
LEMMA LineNextFacts ==
    ASSUME NEW l \in AnyLines, NEW s \in LineStates
    PROVE  /\ LineNext(l, s) \in LineStates
           /\ s.code = "Success" /\ l.form = "field" /\ l.blanks = 1 =>
                LineNext(l, s) = [code |-> "Success",
                                  headers |-> Emplace(s.headers, l.key, l.value)]
  <1>1. \A c \in Reasons : Refused(c) \in LineStates
    BY DEF LineStates
  <1>2. CASE s.code # "Success"
    BY <1>2, Zenon DEF LineNext
  <1>3. CASE s.code = "Success" /\ l.form = "field"
    <2>1. l \in Fields
      <3>1. \A k \in [form : {"blank first", "no colon", "bad key"}] : k.form # "field"
        OBVIOUS
      <3> QED
        BY <1>3, <3>1, Zenon DEF AnyLines
    <2>2. l.key \in Keys /\ l.value \in Values /\ l.blanks \in {0, 1, 33, 34}
      BY <2>1 DEF Fields
    <2>3. s.headers \in Headers
      <3>1. \A c \in Reasons : Refused(c).code # "Success"
        BY DEF Refused, Reasons
      <3>2. s \in [code : {"Success"}, headers : Headers]
        BY <1>3, <3>1, Zenon DEF LineStates
      <3> QED
        BY <3>2
    <2>4. Emplace(s.headers, l.key, l.value) \in Headers
      BY <2>2, <2>3, EmplaceFacts
    <2> DEFINE e == Emplace(s.headers, l.key, l.value)
    <2> HIDE DEF e
    <2>5. LineNext(l, s) = IF l.blanks > 33 THEN Refused("TooManySpaces")
                           ELSE [code |-> "Success", headers |-> e]
      <3>1. l.form # "blank first" /\ l.form # "no colon" /\ l.form # "bad key"
        BY <1>3
      <3> QED
        BY <1>3, <3>1, Zenon DEF LineNext, e
    <2>6. [code |-> "Success", headers |-> e] \in LineStates
      BY <2>4 DEF LineStates, e
    <2>7. "TooManySpaces" \in Reasons
      BY DEF Reasons
    <2>8. l.blanks = 1 => ~(l.blanks > 33)
      OBVIOUS
    <2> QED
      BY <1>1, <2>5, <2>6, <2>7, <2>8, Zenon DEF e
  <1>4. CASE s.code = "Success" /\ l.form # "field"
    <2>1. l.form \in {"blank first", "no colon", "bad key"}
      <3>1. \A k \in Fields : k.form = "field"
        BY DEF Fields
      <3>2. l \in [form : {"blank first", "no colon", "bad key"}]
        BY <1>4, <3>1, Zenon DEF AnyLines
      <3> QED
        BY <3>2
    <2>2. \/ LineNext(l, s) = Refused("SpaceInTheFrontOfHeader")
          \/ LineNext(l, s) = Refused("InvalidFormat")
          \/ LineNext(l, s) = Refused("InvalidKeyName")
      <3>1. CASE l.form = "blank first"
        <4>1. l.form # "no colon" /\ l.form # "bad key"
          BY <3>1
        <4> QED
          BY <1>4, <3>1, <4>1, Zenon DEF LineNext
      <3>2. CASE l.form = "no colon"
        <4>1. l.form # "blank first" /\ l.form # "bad key"
          BY <3>2
        <4> QED
          BY <1>4, <3>2, <4>1, Zenon DEF LineNext
      <3>3. CASE l.form = "bad key"
        <4>1. l.form # "blank first" /\ l.form # "no colon"
          BY <3>3
        <4> QED
          BY <1>4, <3>3, <4>1, Zenon DEF LineNext
      <3> QED
        BY <2>1, <3>1, <3>2, <3>3
    <2>3. /\ "SpaceInTheFrontOfHeader" \in Reasons /\ "InvalidFormat" \in Reasons
          /\ "InvalidKeyName" \in Reasons
      BY DEF Reasons
    <2> QED
      BY <1>1, <1>4, <2>2, <2>3, Zenon
  <1> QED
    BY <1>2, <1>3, <1>4, Zenon

\* ParseLines reads line by line.
LinesRun(lines, f) ==
    /\ f \in [0..Len(lines) -> LineStates] /\ f[0] = NoHeaders
    /\ \A n \in 1..Len(lines) : f[n] = LineNext(lines[n], f[n - 1])
    /\ ParseLines(lines) = f[Len(lines)]

\* Every request has such a run.
LEMMA LinesRuns ==
    ASSUME NEW lines \in Seq(AnyLines)
    PROVE  \E f : LinesRun(lines, f)
  <1> DEFINE N == Len(lines)
             G == [n \in 1..N |-> [s \in LineStates |-> LineNext(lines[n], s)]]
  <1>1. N \in Nat /\ \A n \in 1..N : lines[n] \in AnyLines
    OBVIOUS
  <1>2. NoHeaders \in LineStates
    <2>1. {} \in Headers
      BY DEF Headers, Unique
    <2> QED
      BY <2>1 DEF NoHeaders, LineStates
  <1>3. \A n \in 1..N, s \in LineStates : LineNext(lines[n], s) \in LineStates
    BY <1>1, LineNextFacts
  <1>4. G \in [1..N -> [LineStates -> LineStates]]
    BY <1>3
  <1>5. \A n \in 1..N, s \in LineStates : G[n][s] = LineNext(lines[n], s)
    OBVIOUS
  <1> HIDE DEF G, N
  <1>6. PICK f \in [0..N -> LineStates] : Follows(f, NoHeaders, N, G)
    BY <1>1, <1>2, <1>4, Recursion, Zenon
  <1> DEFINE E(e) == [n \in 0..N |-> IF n = 0 THEN NoHeaders ELSE LineNext(lines[n], e[n - 1])]
  <1>7. ASSUME NEW n \in 0..N PROVE f[n] = E(f)[n]
    <2>1. CASE n = 0
      BY <1>6, <2>1 DEF Follows
    <2>2. CASE n # 0
      <3>1. n \in 1..N /\ n - 1 \in 0..N
        BY <1>1, <2>2
      <3>2. f[n] = LineNext(lines[n], f[n - 1])
        BY <1>5, <1>6, <3>1 DEF Follows
      <3>3. E(f)[n] = LineNext(lines[n], f[n - 1])
        BY <2>2
      <3> QED
        BY <3>2, <3>3, Zenon
    <2> QED
      BY <2>1, <2>2
  <1>8. f = E(f)
    BY <1>7
  <1> DEFINE e == CHOOSE e : e = E(e)
  <1>9. e = E(e)
    BY <1>8, Zenon
  <1>10. ParseLines(lines) = e[N]
    BY DEF ParseLines, LineNext, NoHeaders, N
  <1> HIDE DEF e
  <1>11. E(e)[0] = NoHeaders /\ \A n \in 1..N : E(e)[n] = LineNext(lines[n], e[n - 1])
    BY <1>1
  <1>12. e[0] = NoHeaders /\ \A n \in 1..N : e[n] = LineNext(lines[n], e[n - 1])
    <2> HIDE DEF E
    <2> QED
      BY <1>9, <1>11
  <1>13. \A n \in 0..N : e[n] \in LineStates
    <2> DEFINE T == {n \in 0..N : e[n] \notin LineStates}
    <2>1. SUFFICES ASSUME T # {} PROVE FALSE
      BY Zenon
    <2>2. PICK m \in T : \A y \in T : m <= y
      <3>1. T \subseteq Nat
        BY <1>1
      <3> HIDE DEF T
      <3> QED
        BY <2>1, <3>1, LeastOf, Zenon
    <2>3. m \in 0..N /\ e[m] \notin LineStates
      BY Zenon
    <2>4. m # 0
      BY <1>2, <1>12, <2>3, Zenon
    <2>5. m \in 1..N /\ m - 1 \in 0..N /\ ~(m <= m - 1)
      BY <1>1, <2>3, <2>4
    <2>6. e[m - 1] \in LineStates
      BY <2>2, <2>5
    <2> HIDE DEF T
    <2> QED
      BY <1>3, <1>12, <2>3, <2>5, <2>6, Zenon
  <1>14. e \in [0..N -> LineStates]
    BY <1>9, <1>13
  <1> QED
    BY <1>10, <1>12, <1>14, Zenon DEF LinesRun, N

\* What is read without an error has no key twice.
LEMMA ParseLinesFacts ==
    ASSUME NEW lines \in Seq(AnyLines)
    PROVE  /\ ParseLines(lines).code \in {"Success"} \cup Reasons
           /\ ParseLines(lines).code = "Success" => ParseLines(lines).headers \in Headers
  <1>1. PICK f : LinesRun(lines, f)
    BY LinesRuns
  <1>2. Len(lines) \in 0..Len(lines)
    OBVIOUS
  <1>3. ParseLines(lines) \in LineStates
    BY <1>1, <1>2 DEF LinesRun
  <1> DEFINE p == ParseLines(lines)
  <1> HIDE DEF p
  <1>4. p \in LineStates
    BY <1>3 DEF p
  <1>5. CASE p \in [code : {"Success"}, headers : Headers]
    <2>1. p.code = "Success" /\ p.headers \in Headers
      BY <1>5
    <2> QED
      BY <2>1, Zenon DEF p
  <1>6. CASE p \in {Refused(c) : c \in Reasons}
    <2>1. p.code \in Reasons
      BY <1>6 DEF Refused
    <2>2. "Success" \notin Reasons
      BY DEF Reasons
    <2> QED
      BY <2>1, <2>2, Zenon DEF p
  <1> QED
    BY <1>4, <1>5, <1>6, Zenon DEF LineStates

\* Some order of the headers exists.
LEMMA OrderFacts ==
    ASSUME NEW hs \in Headers
    PROVE  /\ Cardinality(hs) \in Nat
           /\ Order(hs) \in [1..Cardinality(hs) -> hs]
           /\ \A h \in hs : \E n \in 1..Cardinality(hs) : Order(hs)[n] = h
  <1> DEFINE C == Cardinality(hs)
             Lists(s) == s \in [1..C -> hs] /\ \A h \in hs : \E n \in DOMAIN s : s[n] = h
  <1>1. IsFiniteSet(hs)
    <2>1. IsFiniteSet(Keys) /\ IsFiniteSet(Values)
      <3>1. ASSUME NEW a, NEW b, NEW c, NEW d, NEW e
            PROVE  IsFiniteSet({a, b, c, d, e})
        <4>1. IsFiniteSet({} \cup {a})
          BY FS_EmptySet, FS_AddElement
        <4>2. IsFiniteSet(({} \cup {a}) \cup {b})
          BY <4>1, FS_AddElement
        <4>3. IsFiniteSet((({} \cup {a}) \cup {b}) \cup {c})
          BY <4>2, FS_AddElement
        <4>4. IsFiniteSet(((({} \cup {a}) \cup {b}) \cup {c}) \cup {d})
          BY <4>3, FS_AddElement
        <4>5. IsFiniteSet((((({} \cup {a}) \cup {b}) \cup {c}) \cup {d}) \cup {e})
          BY <4>4, FS_AddElement
        <4>6. (((({} \cup {a}) \cup {b}) \cup {c}) \cup {d}) \cup {e} = {a, b, c, d, e}
          OBVIOUS
        <4> QED
          BY <4>5, <4>6, Zenon
      <3>2. IsFiniteSet(Values)
        BY <3>1, Zenon DEF Values
      <3>3. IsFiniteSet({"Host", "X-Forwarded-For", "X-Forwarded-Host", "Other", "Other"})
        BY <3>1, Zenon
      <3>4. Keys = {"Host", "X-Forwarded-For", "X-Forwarded-Host", "Other", "Other"}
        BY DEF Keys
      <3> QED
        BY <3>2, <3>3, <3>4
    <2>2. IsFiniteSet(Keys \X Values)
      BY <2>1, FS_Product
    <2>3. hs \in SUBSET (Keys \X Values)
      BY DEF Headers
    <2> QED
      BY <2>2, <2>3, FS_Subset
  <1>2. C \in Nat /\ ExistsBijection(1..C, hs)
    BY <1>1, FS_CardinalityType
  <1> HIDE DEF C
  <1>3. \E s : Lists(s)
    <2>1. PICK s \in Bijection(1..C, hs) : TRUE
      BY <1>2 DEF ExistsBijection
    <2>2. s \in [1..C -> hs] /\ \A h \in hs : \E n \in 1..C : s[n] = h
      BY <2>1, Zenon DEF Bijection, Injection, Surjection
    <2> QED
      BY <2>2
  <1>4. \E s \in [1..C -> hs] : \A h \in hs : \E n \in DOMAIN s : s[n] = h
    BY <1>3
  <1>5. Order(hs) = CHOOSE s \in [1..C -> hs] : \A h \in hs : \E n \in DOMAIN s : s[n] = h
    BY DEF Order, C
  <1>6. Order(hs) \in [1..C -> hs] /\ \A h \in hs : \E n \in DOMAIN Order(hs) : Order(hs)[n] = h
    BY <1>4, <1>5, Zenon
  <1>7. DOMAIN Order(hs) = 1..C
    BY <1>6
  <1> QED
    BY <1>2, <1>6, <1>7, Zenon DEF C

HeaderLines(hs) ==
    [n \in 1..Cardinality(hs) |->
       [form |-> "field", key |-> Order(hs)[n][1], blanks |-> 1, value |-> Order(hs)[n][2]]]

\* Headers that are written are read back.
LEMMA HeadersBack ==
    ASSUME NEW hs \in Headers
    PROVE  ParseLines(HeaderLines(hs)) = [code |-> "Success", headers |-> hs]
  <1> DEFINE C == Cardinality(hs)
             ord == Order(hs)
             lines == HeaderLines(hs)
             Read(n) == {ord[m] : m \in 1..n}
  <1>1. /\ C \in Nat /\ \A n \in 1..C : ord[n] \in hs
        /\ \A h \in hs : \E n \in 1..C : ord[n] = h
    <2>1. /\ C \in Nat /\ ord \in [1..C -> hs]
          /\ \A h \in hs : \E n \in 1..C : ord[n] = h
      BY OrderFacts, Zenon
    <2> HIDE DEF C, ord
    <2> QED
      BY <2>1
  <1>2. hs \subseteq Keys \X Values /\ Unique(hs)
    BY Zenon DEF Headers
  <1>3. lines = [n \in 1..C |-> [form |-> "field", key |-> ord[n][1], blanks |-> 1,
                                 value |-> ord[n][2]]]
    BY DEF HeaderLines
  <1> HIDE DEF C, ord, lines
  <1>4. ASSUME NEW n \in 1..C
        PROVE  /\ ord[n] = <<ord[n][1], ord[n][2]>> /\ ord[n][1] \in Keys /\ ord[n][2] \in Values
    BY <1>1, <1>2
  <1>5. ASSUME NEW n \in 1..C
        PROVE  /\ lines[n].form = "field" /\ lines[n].blanks = 1
               /\ lines[n].key = ord[n][1] /\ lines[n].value = ord[n][2]
               /\ lines[n] \in AnyLines
    <2> DEFINE k == ord[n][1]
               v == ord[n][2]
               l == lines[n]
    <2>1. k \in Keys /\ v \in Values
      BY <1>4
    <2>2. l = [form |-> "field", key |-> k, blanks |-> 1, value |-> v]
      BY <1>3
    <2> HIDE DEF k, v, l
    <2>3. l \in Fields /\ l.form = "field" /\ l.blanks = 1 /\ l.key = k /\ l.value = v
      BY <2>1, <2>2 DEF Fields
    <2> QED
      BY <2>3, Zenon DEF AnyLines, k, v, l
  <1>6. lines \in Seq(AnyLines) /\ Len(lines) = C
    <2>1. DOMAIN lines = 1..C /\ lines = [n \in 1..C |-> lines[n]]
      BY <1>3
    <2>2. lines \in [1..C -> AnyLines]
      BY <1>5, <2>1
    <2> QED
      BY <1>1, <2>2
  <1>7. PICK f : LinesRun(lines, f)
    BY <1>6, LinesRuns
  <1>8. /\ f[0] = NoHeaders /\ \A n \in 0..C : f[n] \in LineStates
        /\ \A n \in 1..C : f[n] = LineNext(lines[n], f[n - 1])
        /\ ParseLines(lines) = f[C]
    BY <1>6, <1>7 DEF LinesRun
  <1>9. ASSUME NEW S \in SUBSET hs, NEW n \in 1..C
        PROVE  Emplace(S, ord[n][1], ord[n][2]) = S \cup {ord[n]}
    <2>1. ord[n] \in hs /\ ord[n] = <<ord[n][1], ord[n][2]>>
      BY <1>1, <1>4
    <2>2. CASE \E h \in S : h[1] = ord[n][1]
      <3>1. PICK h \in S : h[1] = ord[n][1]
        BY <2>2
      <3>2. h = ord[n]
        BY <1>2, <2>1, <3>1 DEF Unique
      <3> QED
        BY <2>2, <3>1, <3>2 DEF Emplace
    <2>3. CASE ~(\E h \in S : h[1] = ord[n][1])
      <3>1. Emplace(S, ord[n][1], ord[n][2]) = S \cup {<<ord[n][1], ord[n][2]>>}
        BY <2>3, Zenon DEF Emplace
      <3> QED
        BY <2>1, <3>1, Zenon
    <2> QED
      BY <2>2, <2>3
  <1> DEFINE Good(n) == f[n] = [code |-> "Success", headers |-> Read(n)]
             T == {n \in 0..C : ~Good(n)}
  <1>10. T = {}
    <2>1. SUFFICES ASSUME T # {} PROVE FALSE
      BY Zenon
    <2>2. PICK n \in T : \A y \in T : n <= y
      <3>1. T \subseteq Nat
        BY <1>1
      <3> HIDE DEF T
      <3> QED
        BY <2>1, <3>1, LeastOf, Zenon
    <2>3. n \in 0..C /\ ~Good(n)
      BY Zenon
    <2>4. Good(0)
      <3>1. Read(0) = {}
        OBVIOUS
      <3> HIDE DEF Read
      <3> QED
        BY <1>8, <3>1 DEF NoHeaders
    <2>5. n - 1 \in 0..C /\ n \in 1..C /\ ~(n <= n - 1)
      <3>1. n # 0
        BY <2>3, <2>4, Zenon
      <3> QED
        BY <1>1, <2>3, <3>1
    <2>6. Good(n - 1)
      <3> HIDE DEF Good
      <3> QED
        BY <2>2, <2>5
    <2> DEFINE s == f[n - 1]
    <2>7. s \in LineStates /\ f[n] = LineNext(lines[n], s)
      BY <1>8, <2>5, Zenon
    <2>8. s = [code |-> "Success", headers |-> Read(n - 1)]
      BY <2>6, Zenon
    <2> HIDE DEF s, T
    <2>9. Read(n - 1) \subseteq hs /\ Read(n - 1) \cup {ord[n]} = Read(n)
      <3>1. \A m \in 1..n : m = n \/ m \in 1..(n - 1)
        BY <2>5
      <3>2. \A m \in 1..(n - 1) : m \in 1..n /\ m \in 1..C
        BY <1>1, <2>5
      <3>3. n \in 1..n
        BY <2>5
      <3> QED
        BY <1>1, <3>1, <3>2, <3>3
    <2> HIDE DEF Read
    <2>10. s.code = "Success" /\ s.headers = Read(n - 1)
      BY <2>8
    <2>11. f[n] = [code |-> "Success",
                   headers |-> Emplace(s.headers, lines[n].key, lines[n].value)]
      BY <1>5, <2>5, <2>7, <2>10, LineNextFacts, Zenon
    <2>12. Emplace(s.headers, lines[n].key, lines[n].value) = Read(n)
      <3>1. lines[n].key = ord[n][1] /\ lines[n].value = ord[n][2]
        BY <1>5, <2>5, Zenon
      <3>2. Emplace(Read(n - 1), ord[n][1], ord[n][2]) = Read(n - 1) \cup {ord[n]}
        BY <1>9, <2>5, <2>9, Zenon
      <3> QED
        BY <2>9, <2>10, <3>1, <3>2, Zenon
    <2> QED
      BY <2>3, <2>11, <2>12, Zenon
  <1>11. Good(C)
    <2>1. C \in 0..C
      BY <1>1
    <2> HIDE DEF Good
    <2> QED
      BY <1>10, <2>1
  <1>12. Read(C) = hs
    BY <1>1
  <1> HIDE DEF Read
  <1> QED
    BY <1>8, <1>11, <1>12, Zenon DEF lines

-----------------------------------------------------------------------------
(* The path on its way *)

\* Both paths are bytes.
LEMMA PathTypes ==
    ASSUME NEW raw \in Seq(Bytes)
    PROVE  /\ ParseRawUrl(raw).full_path \in Seq(Bytes)
           /\ ParseRawUrl(raw).main_path \in Seq(Bytes)
  <1>1. PICK f : UrlRun(raw, f)
    BY UrlRuns
  <1> DEFINE s == f[Len(raw)]
             full == s.full
             pos == s.pos
  <1>2. s \in Places
    <2>1. Len(raw) \in 0..Len(raw)
      OBVIOUS
    <2> QED
      BY <1>1, <2>1, Zenon DEF UrlRun
  <1>3. full \in Seq(Bytes) /\ pos \in Int
    <2> HIDE DEF s
    <2> QED
      BY <1>2 DEF Places
  <1>4. ParseRawUrl(raw).full_path = full /\ ParseRawUrl(raw).main_path = View(full, pos)
    BY <1>1 DEF UrlRun
  <1> HIDE DEF full, pos
  <1>5. View(full, pos) \in Seq(Bytes)
    <2>1. CASE pos < 0 \/ full = <<>>
      BY <1>3, <2>1, Zenon DEF View
    <2>2. CASE ~(pos < 0 \/ full = <<>>)
      <3> DEFINE v == [n \in 1..pos |-> IF n <= Len(full) THEN full[n] ELSE Unknown]
      <3>1. View(full, pos) = v /\ pos \in Nat
        BY <1>3, <2>2 DEF View
      <3>2. ASSUME NEW n \in 1..pos PROVE v[n] \in Bytes
        <4>1. CASE n <= Len(full)
          <5>1. full[n] \in Bytes
            BY <1>3, <4>1
          <5> QED
            BY <4>1, <5>1
        <4>2. CASE ~(n <= Len(full))
          BY <4>2 DEF Unknown, Bytes
        <4> QED
          BY <4>1, <4>2
      <3>3. v \in [1..pos -> Bytes]
        BY <3>2
      <3> HIDE DEF v
      <3> QED
        BY <3>1, <3>3
    <2> QED
      BY <2>1, <2>2
  <1> QED
    BY <1>3, <1>4, <1>5, Zenon

\* A text without "%", "+" and "?" is its own path.
LEMMA PlainPath ==
    ASSUME NEW raw \in Seq(Bytes),
           \A n \in 1..Len(raw) : raw[n] # Percent /\ raw[n] # Plus /\ raw[n] # Query
    PROVE  ParseRawUrl(raw).full_path = raw /\ ParseRawUrl(raw).main_path = raw
  <1> DEFINE N == Len(raw)
  <1>1. N \in Nat
    OBVIOUS
  <1>2. PICK f : UrlRun(raw, f)
    BY UrlRuns
  <1> DEFINE Got(n) == /\ f[n].i = n /\ Len(f[n].full) = n
                       /\ \A k \in 1..n : f[n].full[k] = raw[k]
             T == {n \in 0..N : ~Got(n)}
  <1>3. T = {}
    <2>1. SUFFICES ASSUME T # {} PROVE FALSE
      BY Zenon
    <2>2. PICK n \in T : \A y \in T : n <= y
      <3>1. T \subseteq Nat
        BY <1>1
      <3> HIDE DEF T
      <3> QED
        BY <2>1, <3>1, LeastOf, Zenon
    <2>3. n \in 0..N /\ ~Got(n)
      BY Zenon
    <2>4. Got(0)
      <3>1. f[0].i = 0 /\ f[0].full = <<>>
        BY <1>2 DEF UrlRun, Start
      <3> QED
        BY <3>1
    <2>5. n - 1 \in 0..N /\ n \in 1..N /\ ~(n <= n - 1) /\ (n - 1) + 1 = n
      <3>1. n # 0
        BY <2>3, <2>4, Zenon
      <3> QED
        BY <1>1, <2>3, <3>1
    <2>6. Got(n - 1)
      <3> HIDE DEF Got
      <3> QED
        BY <2>2, <2>5
    <2> DEFINE s == f[n - 1]
    <2>7. s \in Places /\ f[n] = UrlNext(raw, s)
      BY <1>2, <2>5, Zenon DEF UrlRun
    <2>8. s.i = n - 1 /\ Len(s.full) = n - 1 /\ \A k \in 1..(n - 1) : s.full[k] = raw[k]
      BY <2>6
    <2> HIDE DEF s, T
    <2>9. raw[s.i + 1] = raw[n] /\ s.i < Len(raw) /\ raw[n] \in Bytes
          /\ raw[n] # Percent /\ raw[n] # Plus
      BY <1>1, <2>5, <2>8
    <2>10. f[n].i = s.i + 1 /\ f[n].full = Append(s.full, raw[n])
      <3>1. (IF raw[s.i + 1] = Plus THEN Blank ELSE raw[s.i + 1]) = raw[n]
        BY <2>9, Zenon
      <3>2. raw[s.i + 1] # Percent
        BY <2>9, Zenon
      <3>3. /\ UrlNext(raw, s).i = s.i + 1
            /\ UrlNext(raw, s).full =
                 Append(s.full, IF raw[s.i + 1] = Plus THEN Blank ELSE raw[s.i + 1])
        BY <2>7, <2>9, <3>2, PlainUrlStep
      <3> QED
        BY <2>7, <3>1, <3>3
    <2>11. s.full \in Seq(Bytes)
      BY <2>7 DEF Places
    <2>12. /\ Len(f[n].full) = Len(s.full) + 1
           /\ \A k \in 1..Len(s.full) : f[n].full[k] = s.full[k]
           /\ f[n].full[Len(s.full) + 1] = raw[n]
      BY <2>9, <2>10, <2>11, AppendProperties
    <2>13. \A k \in 1..n : k = n \/ k \in 1..(n - 1)
      BY <2>5
    <2>14. Len(f[n].full) = n /\ f[n].full[n] = raw[n]
      BY <2>5, <2>8, <2>12
    <2>15. \A k \in 1..(n - 1) : f[n].full[k] = raw[k]
      BY <2>8, <2>12
    <2>16. f[n].i = n
      BY <2>5, <2>8, <2>10
    <2> QED
      BY <2>3, <2>13, <2>14, <2>15, <2>16
  <1>4. Got(N)
    <2>1. N \in 0..N
      BY <1>1
    <2> HIDE DEF Got
    <2> QED
      BY <1>3, <2>1
  <1> DEFINE full == f[N].full
  <1>5. full = raw
    <2>1. full \in Seq(Bytes)
      <3>1. f[N] \in Places
        <4>1. N \in 0..Len(raw)
          BY <1>1
        <4> QED
          BY <1>2, <4>1, Zenon DEF UrlRun
      <3> QED
        BY <3>1 DEF Places
    <2>2. Len(full) = Len(raw) /\ \A k \in 1..Len(raw) : full[k] = raw[k]
      BY <1>4
    <2> HIDE DEF full
    <2> QED
      BY <2>1, <2>2, SeqEqual
  <1>6. ParseRawUrl(raw).full_path = raw
    BY <1>2, <1>5 DEF UrlRun
  <1>7. Original(raw) = -1 /\ Escapes(raw)
    BY <1>1, OriginalFacts DEF Escapes
  <1> QED
    BY <1>6, <1>7, MainPathAlone

\* The main path of a text with proper escapes, whatever its query.
LEMMA MainPathOf ==
    ASSUME NEW raw \in Seq(Bytes), Escapes(BeforeQuery(raw))
    PROVE  ParseRawUrl(raw).main_path = ParseRawUrl(BeforeQuery(raw)).full_path
  <1>1. CASE Original(raw) = -1
    <2>1. BeforeQuery(raw) = raw
      BY <1>1 DEF BeforeQuery
    <2> QED
      BY <1>1, <2>1, MainPathAlone
  <1>2. CASE Original(raw) # -1
    BY <1>2, MainPathInFront
  <1> QED
    BY <1>1, <1>2

-----------------------------------------------------------------------------
(* Reading and writing a request *)

\* What the client types.
Texts == [word : Words, url : Seq(UrlChars), second : BOOLEAN, major : {1, 2, 1000},
          minor : {0, 1, NoNumber}, lines : Seq(Lines)]

\* The parts of what the client types.
LEMMA TextFields ==
    ASSUME NEW t \in Texts
    PROVE  /\ t.word \in Words /\ t.url \in Seq(UrlChars) /\ t.major \in {1, 2, 1000}
           /\ t.minor \in {0, 1, NoNumber} /\ t.lines \in Seq(Lines)
  <1> DEFINE words == Words
             urls == Seq(UrlChars)
             majors == {1, 2, 1000}
             minors == {0, 1, NoNumber}
             lines == Seq(Lines)
  <1>1. t \in [word : words, url : urls, second : BOOLEAN, major : majors,
               minor : minors, lines : lines]
    BY Zenon DEF Texts
  <1> HIDE DEF words, urls, majors, minors, lines
  <1>2. t.word \in words /\ t.url \in urls /\ t.major \in majors
    BY <1>1
  <1>3. t.minor \in minors /\ t.lines \in lines
    BY <1>1
  <1>4. t.word \in Words
    BY <1>2, Zenon DEF words
  <1>5. t.url \in Seq(UrlChars)
    BY <1>2, Zenon DEF urls
  <1>6. t.major \in {1, 2, 1000}
    BY <1>2, Zenon DEF majors
  <1>7. t.minor \in {0, 1, NoNumber}
    BY <1>3, Zenon DEF minors
  <1>8. t.lines \in Seq(Lines)
    BY <1>3, Zenon DEF lines
  <1> QED
    BY <1>4, <1>5, <1>6, <1>7, <1>8, Zenon

\* A request is read exactly when its method, its version and its lines are,
\* and then has their values.
LEMMA ParseFacts ==
    ASSUME NEW t
    PROVE  /\ Parse(t).code = "Success" =>
                /\ getMethod(t.word) # "InvalidMethod" /\ t.major # NoNumber
                /\ ParseLines(t.lines).code = "Success"
           /\ /\ getMethod(t.word) # "InvalidMethod" /\ t.major # NoNumber
              /\ ParseLines(t.lines).code = "Success"
              =>
                Parse(t) = [code |-> "Success", method |-> getMethod(t.word),
                            url |-> ParseRawUrl(UrlText(t)),
                            version |-> <<t.major, IF t.minor = NoNumber THEN 1 ELSE t.minor>>,
                            headers |-> ParseLines(t.lines).headers]
  <1> DEFINE m == getMethod(t.word)
             l == ParseLines(t.lines)
             r == [code |-> "Success", method |-> m, url |-> ParseRawUrl(UrlText(t)),
                   version |-> <<t.major, IF t.minor = NoNumber THEN 1 ELSE t.minor>>,
                   headers |-> l.headers]
  <1>1. Parse(t) = IF m = "InvalidMethod" THEN Refused("InvalidMethod")
                   ELSE IF t.major = NoNumber THEN Refused("InvalidFormat")
                   ELSE IF l.code # "Success" THEN l
                   ELSE r
    BY DEF Parse
  <1>2. Refused("InvalidMethod").code # "Success" /\ Refused("InvalidFormat").code # "Success"
    BY DEF Refused
  <1> HIDE DEF m, l, r
  <1>3. Parse(t).code = "Success" => m # "InvalidMethod" /\ t.major # NoNumber /\ l.code = "Success"
    BY <1>1, <1>2, Zenon
  <1>4. m # "InvalidMethod" /\ t.major # NoNumber /\ l.code = "Success" => Parse(t) = r
    BY <1>1, Zenon
  <1> QED
    BY <1>3, <1>4, Zenon DEF m, l, r

\* A method that was read is one that is written and read again.
LEMMA MethodBack ==
    ASSUME NEW w \in Words, getMethod(w) # "InvalidMethod"
    PROVE  getMethod(getMethodString(getMethod(w))) = getMethod(w)
  <1>1. getMethod(w) = w.of /\ w.of # "TRACE"
    BY Zenon DEF getMethod
  <1> DEFINE m == w.of
             x == getMethodString(m)
  <1>2. x.of = m /\ x.tail = "exact"
    BY DEF getMethodString
  <1> HIDE DEF m, x
  <1>3. x.tail # "short"
    BY <1>2
  <1>4. m # "TRACE"
    BY <1>1 DEF m
  <1>5. getMethod(x) = m
    BY <1>2, <1>3, <1>4, Zenon DEF getMethod
  <1> QED
    BY <1>1, <1>5, Zenon DEF x, m

\* A URL without a blank is read to its end.
LEMMA NoCut ==
    ASSUME NEW url, \A n \in 1..Len(url) : url[n] # Blank
    PROVE  Cut(url) = url
  <1> DEFINE ends == {n \in 1..Len(url) : url[n] = Blank}
  <1>1. ends = {}
    OBVIOUS
  <1> QED
    BY <1>1, Zenon DEF Cut

\* A number of three digits is written.
LEMMA NumberFits ==
    ASSUME NEW num, num < 1000
    PROVE  append_num(num) = num
  BY Zenon DEF append_num

\* What generate writes of a request whose URL has no blank.
LEMMA GenerateFacts ==
    ASSUME NEW r, NEW url, r.url.raw_path = url, Cut(url) = url
    PROVE  /\ generate(r).word = getMethodString(r.method)
           /\ UrlText(generate(r)) = url
           /\ generate(r).major = append_num(r.version[1])
           /\ generate(r).minor = IF r.version[2] = 0 THEN NoNumber ELSE append_num(r.version[2])
           /\ generate(r).lines = HeaderLines(r.headers)
  <1> DEFINE a == getMethodString(r.method)
             d == IF Cut(url) # url THEN NoNumber ELSE append_num(r.version[1])
             e == IF r.version[2] = 0 THEN NoNumber ELSE append_num(r.version[2])
             f == HeaderLines(r.headers)
             g == generate(r)
  <1>1. g = [word |-> a, url |-> Cut(url), second |-> TRUE, major |-> d, minor |-> e, lines |-> f]
    BY Zenon DEF generate, UrlToSend, HeaderLines
  <1> HIDE DEF a, d, e, f, g
  <1>2. g.word = a /\ g.url = Cut(url) /\ g.second = TRUE /\ g.major = d /\ g.minor = e /\ g.lines = f
    BY <1>1, Zenon
  <1>3. UrlText(g) = url
    BY <1>2, Zenon DEF UrlText
  <1>4. d = append_num(r.version[1])
    BY Zenon DEF d
  <1> QED
    BY <1>2, <1>3, <1>4, Zenon DEF a, e, f, g

\* A blank ends a URL.
LEMMA BlankCuts ==
    ASSUME NEW url \in Seq(Bytes), \E n \in 1..Len(url) : url[n] = Blank
    PROVE  Cut(url) # url
  <1> DEFINE ends == {n \in 1..Len(url) : url[n] = Blank}
  <1>1. Len(url) \in Nat /\ ends # {} /\ ends \subseteq Nat
    OBVIOUS
  <1> DEFINE m == CHOOSE n \in ends : \A k \in ends : n <= k
  <1>2. \E n \in ends : \A k \in ends : n <= k
    <2> HIDE DEF ends
    <2> QED
      BY <1>1, LeastOf, Zenon
  <1>3. m \in ends
    <2> HIDE DEF ends
    <2> QED
      BY <1>2, Zenon
  <1>4. m \in 1..Len(url)
    BY <1>3
  <1>5. Cut(url) = SubSeq(url, 1, m - 1)
    BY <1>1 DEF Cut
  <1> HIDE DEF m
  <1>6. Len(SubSeq(url, 1, m - 1)) = m - 1
    BY <1>1, <1>4
  <1> QED
    BY <1>1, <1>4, <1>5, <1>6

\* What generate writes of a request whose URL has one.
LEMMA GenerateBlank ==
    ASSUME NEW r, NEW url, r.url.raw_path = url, Cut(url) # url
    PROVE  generate(r).word = getMethodString(r.method) /\ generate(r).major = NoNumber
  <1> DEFINE a == getMethodString(r.method)
             b == Cut(url)
             e == IF r.version[2] = 0 THEN NoNumber ELSE append_num(r.version[2])
             f == HeaderLines(r.headers)
             g == generate(r)
  <1>1. g = [word |-> a, url |-> b, second |-> TRUE,
             major |-> IF b # url THEN NoNumber ELSE append_num(r.version[1]),
             minor |-> e, lines |-> f]
    BY Zenon DEF generate, UrlToSend, HeaderLines
  <1> DEFINE no == NoNumber
  <1>2. g = [word |-> a, url |-> b, second |-> TRUE, major |-> no, minor |-> e, lines |-> f]
    BY <1>1, Zenon
  <1> HIDE DEF a, b, e, f, g, no
  <1>3. g.word = a /\ g.major = no
    BY <1>2, Zenon
  <1> QED
    BY <1>3, Zenon DEF a, g, no

\* handle() changes three headers and perhaps the URL.
LEMMA ProxiedFacts ==
    ASSUME NEW r, NEW a, NEW b, NEW c, NEW d, NEW e,
           r = [code |-> a, method |-> b, url |-> c, version |-> d, headers |-> e],
           NEW value
    PROVE  /\ Proxied(r, value).method = b
           /\ Proxied(r, value).version = d
           /\ Proxied(r, value).headers = Assign(e, Overwritten)
           /\ Proxied(r, value).url = IF value = NoParam THEN c ELSE ParseRawUrl(value)
  BY DEF Proxied

\* The assignments leave the other headers as they are.
LEMMA AssignFacts ==
    ASSUME NEW hs \in Headers
    PROVE  /\ Assign(hs, Overwritten) \in Headers
           /\ OtherHeaders(Assign(hs, Overwritten)) = OtherHeaders(hs)
           /\ Overwritten \subseteq Assign(hs, Overwritten)
  <1> DEFINE rest == OtherHeaders(hs)
  <1>1. hs \subseteq Keys \X Values /\ Unique(hs)
    BY Zenon DEF Headers
  <1>2. Overwritten \subseteq Keys \X Values /\ Unique(Overwritten)
    BY DEF Overwritten, Keys, Values, Unique
  <1>3. Assign(hs, Overwritten) = rest \cup Overwritten
    BY Zenon DEF Assign, OtherHeaders
  <1>4. rest \subseteq hs /\ \A h \in rest, p \in Overwritten : h[1] # p[1]
    BY Zenon DEF OtherHeaders
  <1>5. Unique(rest \cup Overwritten)
    <2>1. ASSUME NEW g \in rest \cup Overwritten, NEW h \in rest \cup Overwritten, g[1] = h[1]
          PROVE  g = h
      <3> HIDE DEF rest
      <3> QED
        BY <1>1, <1>2, <1>4, <2>1, Zenon DEF Unique
    <2> HIDE DEF rest
    <2> QED
      BY <2>1, Zenon DEF Unique
  <1>6. rest \cup Overwritten \in Headers
    <2> HIDE DEF rest
    <2> QED
      BY <1>1, <1>2, <1>4, <1>5 DEF Headers
  <1>7. OtherHeaders(rest \cup Overwritten) = rest
    <2> HIDE DEF rest
    <2>1. OtherHeaders(rest \cup Overwritten) =
            {h \in rest \cup Overwritten : \A p \in Overwritten : h[1] # p[1]}
      BY Zenon DEF OtherHeaders
    <2>2. \A h \in Overwritten : ~(\A p \in Overwritten : h[1] # p[1])
      OBVIOUS
    <2> QED
      BY <1>4, <2>1, <2>2
  <1> HIDE DEF rest
  <1>8. Overwritten \subseteq rest \cup Overwritten
    OBVIOUS
  <1> QED
    BY <1>3, <1>6, <1>7, <1>8, Zenon DEF rest

\* What the client types are bytes without a blank, and lines.
LEMMA CharFacts ==
    /\ Seq(UrlChars) \subseteq Seq(Bytes) /\ Seq(UrlChars) \subseteq Seq(Written)
    /\ \A c \in UrlChars : c # Blank
    /\ Seq(Lines) \subseteq Seq(AnyLines)
  <1>1. UrlChars \subseteq Bytes
    BY DEF UrlChars, Bytes, Percent, Query, Plus, Slash
  <1>2. UrlChars \subseteq Written
    BY DEF UrlChars, Written, acceptable, Percent, Query, Plus, Slash
  <1>3. \A c \in UrlChars : c # Blank
    BY DEF UrlChars, Blank, Percent, Query, Plus, Slash
  <1>4. Lines \subseteq AnyLines
    BY DEF Lines, AnyLines, Fields, Keys, Values
  <1> QED
    BY <1>1, <1>2, <1>3, <1>4

\* A slash in front of a path, if there is none.
LEMMA SlashedFacts ==
    ASSUME NEW path \in Seq(Bytes)
    PROVE  /\ Slashed(path) \in Seq(Bytes) /\ Slashed(path) # <<>> /\ Slashed(path)[1] = Slash
           /\ \A n \in 1..Len(Slashed(path)) :
                Slashed(path)[n] = Slash \/ \E k \in 1..Len(path) : Slashed(path)[n] = path[k]
           /\ \A k \in 1..Len(path) : \E n \in 1..Len(Slashed(path)) : Slashed(path)[n] = path[k]
  <1>1. CASE path # <<>> /\ path[1] = Slash
    <2>1. Slashed(path) = path
      BY <1>1 DEF Slashed
    <2> QED
      BY <1>1, <2>1
  <1>2. CASE ~(path # <<>> /\ path[1] = Slash)
    <2>1. <<Slash>> \in Seq(Bytes) /\ Len(<<Slash>>) = 1 /\ <<Slash>>[1] = Slash
      BY DEF Slash, Bytes
    <2> DEFINE one == <<Slash>>
               join == Slashed(path)
    <2>2. one \in Seq(Bytes) /\ Len(one) = 1 /\ one[1] = Slash /\ join = one \o path
      BY <1>2, <2>1, Zenon DEF Slashed
    <2> HIDE DEF one, join
    <2>3. /\ join \in Seq(Bytes) /\ Len(join) = 1 + Len(path)
          /\ \A n \in 1..Len(one) : join[n] = one[n]
          /\ \A n \in 1..Len(path) : join[1 + n] = path[n]
      <3>1. /\ one \o path \in Seq(Bytes) /\ Len(one \o path) = Len(one) + Len(path)
            /\ \A n \in 1..Len(one) : (one \o path)[n] = one[n]
            /\ \A n \in 1..Len(path) : (one \o path)[Len(one) + n] = path[n]
        BY <2>2, JoinFacts, Zenon
      <3> QED
        BY <2>2, <3>1, Zenon
    <2>4. Len(path) \in Nat /\ join[1] = Slash /\ join # <<>>
      BY <2>2, <2>3
    <2>5. ASSUME NEW n \in 1..Len(join)
          PROVE  join[n] = Slash \/ \E k \in 1..Len(path) : join[n] = path[k]
      <3>1. CASE n = 1
        BY <2>4, <3>1
      <3>2. CASE n # 1
        <4>1. n - 1 \in 1..Len(path) /\ 1 + (n - 1) = n
          BY <2>3, <2>4, <3>2
        <4>2. join[1 + (n - 1)] = path[n - 1]
          BY <2>3, <4>1, Zenon
        <4> QED
          BY <4>1, <4>2
      <3> QED
        BY <3>1, <3>2
    <2>6. ASSUME NEW k \in 1..Len(path) PROVE \E n \in 1..Len(join) : join[n] = path[k]
      <3>1. 1 + k \in 1..Len(join) /\ join[1 + k] = path[k]
        BY <2>3, <2>4
      <3> QED
        BY <3>1, Zenon
    <2> QED
      BY <2>3, <2>4, <2>5, <2>6, Zenon DEF join
  <1> QED
    BY <1>1, <1>2, Zenon

\* A parameter is a part of the path.
LEMMA ParamFacts ==
    ASSUME NEW path \in Seq(Bytes), NEW v \in ParamValues(path)
    PROVE  v \in Seq(Bytes)
  <1> DEFINE slashes == {n \in 1..Len(path) : path[n] = Slash}
             bounds == {b \in slashes \X (slashes \cup {Len(path) + 1}) :
                          b[1] < b[2] /\ (b[2] <= Len(path) =>
                                            \A n \in slashes : ~(b[1] < n /\ n < b[2]))}
  <1>1. PICK b \in bounds : v = SubSeq(path, b[1] + 1, b[2] - 1)
    BY Zenon DEF ParamValues
  <1>2. b[1] \in slashes /\ b[2] \in slashes \cup {Len(path) + 1}
    OBVIOUS
  <1>3. Len(path) \in Nat
    OBVIOUS
  <1>4. b[1] \in 1..Len(path) /\ b[2] \in 1..(Len(path) + 1)
    BY <1>2, <1>3
  <1> DEFINE i == b[1] + 1
             j == b[2] - 1
  <1>5. i \in Int /\ j \in Int /\ i >= 1 /\ j <= Len(path)
    BY <1>3, <1>4
  <1> HIDE DEF i, j, bounds
  <1>6. \A n \in i..j : path[n] \in Bytes
    BY <1>3, <1>5
  <1>7. SubSeq(path, i, j) \in Seq(Bytes)
    BY <1>5, <1>6
  <1> QED
    BY <1>1, <1>7, Zenon DEF i, j

\* The URL that the client typed is written without a cut.
LEMMA TypedUrl ==
    ASSUME NEW raw \in Seq(UrlChars)
    PROVE  Cut(ParseRawUrl(raw).raw_path) = ParseRawUrl(raw).raw_path
  <1>1. raw \in Seq(Bytes) /\ \A n \in 1..Len(raw) : raw[n] # Blank
    BY CharFacts
  <1>2. ParseRawUrl(raw).raw_path = Slashed(raw)
    BY DEF ParseRawUrl, Slashed
  <1>3. \A n \in 1..Len(Slashed(raw)) : Slashed(raw)[n] # Blank
    <2>1. \A n \in 1..Len(Slashed(raw)) :
            Slashed(raw)[n] = Slash \/ \E k \in 1..Len(raw) : Slashed(raw)[n] = raw[k]
      BY <1>1, SlashedFacts, Zenon
    <2>2. Slash # Blank
      BY DEF Slash, Blank
    <2> QED
      BY <1>1, <2>1, <2>2, Zenon
  <1> QED
    BY <1>2, <1>3, NoCut

\* The request that the upstream reads, of the one that was read.
Upstream(t, value) == Parse(generate(Proxied(Parse(t), value)))

\* The parameters that a location may give handle().
Params(t) == {NoParam} \cup ParamValues(Slashed(Parse(t).url.main_path))

\* They are bytes.
LEMMA ParamTypes ==
    ASSUME NEW t \in Texts, t.second, Parse(t).code = "Success", NEW value \in Params(t)
    PROVE  value \in Seq(Bytes)
  <1>1. t.url \in Seq(Bytes)
    BY TextFields, CharFacts
  <1>2. Parse(t).url = ParseRawUrl(t.url)
    <2>1. UrlText(t) = t.url
      BY DEF UrlText
    <2>2. Parse(t).url = ParseRawUrl(UrlText(t))
      BY ParseFacts
    <2> QED
      BY <2>1, <2>2, Zenon
  <1>3. Parse(t).url.main_path \in Seq(Bytes)
    BY <1>1, <1>2, PathTypes, Zenon
  <1>4. Slashed(Parse(t).url.main_path) \in Seq(Bytes)
    BY <1>3, SlashedFacts, Zenon
  <1>5. NoParam \in Seq(Bytes)
    BY DEF NoParam
  <1> QED
    BY <1>4, <1>5, ParamFacts, Zenon DEF Params

\* A parameter with a blank makes a request that cannot be read.
LEMMA UnreadableRequest ==
    ASSUME NEW t \in Texts, t.second, Parse(t).code = "Success", NEW value \in Params(t),
           \E n \in 1..Len(value) : value[n] = Blank
    PROVE  Upstream(t, value).code = "InvalidFormat"
  <1> DEFINE r == Parse(t)
             m == getMethod(t.word)
             z == Proxied(r, value)
             g == generate(z)
  <1>1. value \in Seq(Bytes)
    BY ParamTypes
  <1>2. value # NoParam
    BY DEF NoParam
  <1>3. t.word \in Words /\ m # "InvalidMethod"
    BY TextFields, ParseFacts
  <1>4. r.method = m /\ z.method = m /\ z.url = ParseRawUrl(value)
    <2> DEFINE a == "Success"
               c == ParseRawUrl(UrlText(t))
               d == <<t.major, IF t.minor = NoNumber THEN 1 ELSE t.minor>>
               e == ParseLines(t.lines).headers
    <2>1. r = [code |-> a, method |-> m, url |-> c, version |-> d, headers |-> e]
      BY ParseFacts
    <2> HIDE DEF a, c, d, e, m, r
    <2>2. z.method = m /\ z.url = IF value = NoParam THEN c ELSE ParseRawUrl(value)
      BY <2>1, ProxiedFacts
    <2>3. r.method = m
      BY <2>1
    <2> QED
      BY <1>2, <2>2, <2>3, Zenon
  <1>5. z.url.raw_path = Slashed(value)
    <2>1. ParseRawUrl(value).raw_path = Slashed(value)
      BY DEF ParseRawUrl, Slashed
    <2> QED
      BY <1>4, <2>1, Zenon
  <1>6. Cut(Slashed(value)) # Slashed(value)
    <2>1. PICK k \in 1..Len(value) : value[k] = Blank
      OBVIOUS
    <2>2. Slashed(value) \in Seq(Bytes) /\ \E n \in 1..Len(Slashed(value)) : Slashed(value)[n] = value[k]
      BY <1>1, SlashedFacts, Zenon
    <2> QED
      BY <2>1, <2>2, BlankCuts
  <1> HIDE DEF z
  <1>7. g.word = getMethodString(m) /\ g.major = NoNumber
    BY <1>4, <1>5, <1>6, GenerateBlank, Zenon
  <1>8. getMethod(g.word) # "InvalidMethod"
    BY <1>3, <1>7, MethodBack, Zenon
  <1> HIDE DEF g, m, r
  <1>9. Parse(g) = Refused("InvalidFormat")
    BY <1>7, <1>8, Zenon DEF Parse
  <1>10. Parse(g).code = "InvalidFormat"
    BY <1>9 DEF Refused
  <1> QED
    BY <1>10, Zenon DEF Upstream, g, z, r

\* What is sent of the URL u, which handle leaves as it was (raw) or makes of a
\* parameter (value), is read as it should be.
SentUrl(raw, value, u) ==
    /\ Cut(u.raw_path) = u.raw_path
    /\ value = NoParam /\ ParseRawUrl(raw).raw_path = raw =>
         ParseRawUrl(u.raw_path).main_path = ParseRawUrl(raw).main_path
    /\ value # NoParam => u.raw_path = Slashed(value)
    /\ value # NoParam /\ Clean(value) =>
         ParseRawUrl(u.raw_path).main_path = Slashed(value)

LEMMA UrlKept ==
    ASSUME NEW raw \in Seq(UrlChars), NEW value \in Seq(Bytes),
           ~\E n \in 1..Len(value) : value[n] = Blank,
           NEW u,
           u = IF value = NoParam THEN ParseRawUrl(raw) ELSE ParseRawUrl(value)
    PROVE  SentUrl(raw, value, u)
  <1>1. CASE value = NoParam
    <2>1. u = ParseRawUrl(raw)
      BY <1>1
    <2>2. Cut(u.raw_path) = u.raw_path
      BY <2>1, TypedUrl, Zenon
    <2> QED
      BY <1>1, <2>1, <2>2, Zenon DEF SentUrl
  <1>2. CASE value # NoParam
    <2> DEFINE to == Slashed(value)
    <2>1. u = ParseRawUrl(value)
      BY <1>2
    <2>2. u.raw_path = to
      <3>1. ParseRawUrl(value).raw_path = to
        BY DEF ParseRawUrl, Slashed
      <3> QED
        BY <2>1, <3>1, Zenon
    <2>3. /\ to \in Seq(Bytes)
          /\ \A n \in 1..Len(to) : to[n] = Slash \/ \E k \in 1..Len(value) : to[n] = value[k]
      BY SlashedFacts
    <2> HIDE DEF to
    <2>4. \A n \in 1..Len(to) : to[n] # Blank
      BY <2>3 DEF Slash, Blank
    <2>5. Cut(to) = to
      BY <2>4, NoCut
    <2>6. ASSUME Clean(value) PROVE ParseRawUrl(to).main_path = to
      <3>1. \A k \in 1..Len(value) :
              value[k] # Percent /\ value[k] # Plus /\ value[k] # Query
        BY <2>6, Zenon DEF Clean, Delicate
      <3>2. \A n \in 1..Len(to) : to[n] # Percent /\ to[n] # Plus /\ to[n] # Query
        <4>1. Slash # Percent /\ Slash # Plus /\ Slash # Query
          BY DEF Slash, Percent, Plus, Query
        <4> QED
          BY <2>3, <3>1, <4>1, Zenon
      <3> QED
        BY <2>3, <3>2, PlainPath, Zenon
    <2> QED
      BY <1>2, <2>2, <2>5, <2>6, Zenon DEF to, SentUrl
  <1> QED
    BY <1>1, <1>2, Zenon

\* What was read, changed by handle, written and read again says the same.
LEMMA KeptRequest ==
    ASSUME NEW t \in Texts, t.second, Parse(t).code = "Success", NEW value \in Params(t),
           Parse(t).version[1] < 1000, ~\E n \in 1..Len(value) : value[n] = Blank
    PROVE  LET r == Parse(t)
               got == Upstream(t, value)
           IN /\ got.code = "Success" /\ got.method = r.method
              /\ got.version = <<r.version[1], IF r.version[2] = 0 THEN 1 ELSE r.version[2]>>
              /\ OtherHeaders(got.headers) = OtherHeaders(r.headers)
              /\ Overwritten \subseteq got.headers
              /\ value = NoParam /\ r.url.raw_path = t.url =>
                   got.url.main_path = r.url.main_path
              /\ value # NoParam => got.url.main_path = ParseRawUrl(Slashed(value)).main_path
              /\ value # NoParam /\ Clean(value) => got.url.main_path = Slashed(value)
  <1> DEFINE r == Parse(t)
             m == getMethod(t.word)
             hs == ParseLines(t.lines).headers
             minor == IF t.minor = NoNumber THEN 1 ELSE t.minor
             url == ParseRawUrl(t.url)
             version == <<t.major, minor>>
             z == Proxied(r, value)
             g == generate(z)
             o == Parse(g)
  <1>1. /\ t.word \in Words /\ t.url \in Seq(UrlChars) /\ t.major \in {1, 2, 1000}
        /\ t.minor \in {0, 1, NoNumber} /\ t.lines \in Seq(Lines)
    BY TextFields
  <1>2. /\ m # "InvalidMethod" /\ t.major # NoNumber /\ ParseLines(t.lines).code = "Success"
    BY ParseFacts
  <1>3. r = [code |-> "Success", method |-> m, url |-> url, version |-> version, headers |-> hs]
    <2>1. UrlText(t) = t.url
      BY DEF UrlText
    <2>2. r = [code |-> "Success", method |-> m, url |-> ParseRawUrl(UrlText(t)),
               version |-> version, headers |-> hs]
      BY <1>2, ParseFacts
    <2> QED
      BY <2>1, <2>2, Zenon
  <1>4. hs \in Headers
    BY <1>1, <1>2, CharFacts, ParseLinesFacts
  <1>5. version[1] = t.major /\ version[2] = minor /\ minor \in {0, 1}
    BY <1>1 DEF NoNumber
  <1> HIDE DEF r, m, hs, url, version
  <1>6. r.method = m /\ r.url = url /\ r.version = version /\ r.headers = hs
    BY <1>3
  <1>7. /\ z.method = m /\ z.version = version
        /\ z.headers = Assign(hs, Overwritten)
        /\ z.url = IF value = NoParam THEN url ELSE ParseRawUrl(value)
    <2> DEFINE done == "Success"
    <2> HIDE DEF done
    <2>1. r = [code |-> done, method |-> m, url |-> url, version |-> version, headers |-> hs]
      BY <1>3 DEF done
    <2>2. /\ Proxied(r, value).method = m
          /\ Proxied(r, value).version = version
          /\ Proxied(r, value).headers = Assign(hs, Overwritten)
          /\ Proxied(r, value).url = IF value = NoParam THEN url ELSE ParseRawUrl(value)
      BY <2>1, ProxiedFacts
    <2> QED
      BY <2>2, Zenon
  <1> DEFINE u == z.url
             hz == z.headers
  <1>8. /\ Cut(u.raw_path) = u.raw_path
        /\ value = NoParam /\ url.raw_path = t.url =>
             ParseRawUrl(u.raw_path).main_path = url.main_path
        /\ value # NoParam => u.raw_path = Slashed(value)
        /\ value # NoParam /\ Clean(value) =>
             ParseRawUrl(u.raw_path).main_path = Slashed(value)
    <2>1. value \in Seq(Bytes)
      BY ParamTypes
    <2>2. u = IF value = NoParam THEN ParseRawUrl(t.url) ELSE ParseRawUrl(value)
      BY <1>7 DEF url
    <2> HIDE DEF z, u
    <2>3. t.url \in Seq(UrlChars) /\ ~\E n \in 1..Len(value) : value[n] = Blank
      BY <1>1
    <2>4. SentUrl(t.url, value, u)
      BY <2>1, <2>2, <2>3, UrlKept, Zenon
    <2> QED
      BY <2>4, Zenon DEF url, SentUrl
  <1> HIDE DEF z
  <1>9. /\ g.word = getMethodString(m) /\ UrlText(g) = u.raw_path
        /\ g.major = append_num(t.major)
        /\ g.minor = IF minor = 0 THEN NoNumber ELSE append_num(minor)
        /\ g.lines = HeaderLines(hz)
    <2>1. /\ g.word = getMethodString(z.method) /\ UrlText(g) = u.raw_path
          /\ g.major = append_num(z.version[1])
          /\ g.minor = IF z.version[2] = 0 THEN NoNumber ELSE append_num(z.version[2])
          /\ g.lines = HeaderLines(z.headers)
      BY <1>8, GenerateFacts, Zenon
    <2> QED
      BY <1>5, <1>7, <2>1, Zenon
  <1>10. t.major < 1000 /\ t.major # NoNumber
    BY <1>1, <1>2, <1>5, <1>6 DEF r
  <1>11. g.major = t.major /\ g.minor = (IF minor = 0 THEN NoNumber ELSE minor)
    <2>1. append_num(t.major) = t.major
      BY <1>10, NumberFits
    <2>2. minor # 0 => append_num(minor) = minor
      <3> HIDE DEF minor
      <3>1. minor < 1000
        BY <1>5
      <3> QED
        BY <3>1, NumberFits
    <2> QED
      BY <1>9, <2>1, <2>2, Zenon
  <1>12. getMethod(g.word) = m
    <2>1. getMethod(getMethodString(getMethod(t.word))) = getMethod(t.word)
      BY <1>1, <1>2, MethodBack DEF m
    <2> HIDE DEF g
    <2> QED
      BY <1>9, <2>1, Zenon DEF m
  <1>13. hz \in Headers /\ OtherHeaders(hz) = OtherHeaders(hs) /\ Overwritten \subseteq hz
    <2>1. hz = Assign(hs, Overwritten)
      BY <1>7, Zenon
    <2> QED
      BY <1>4, <2>1, AssignFacts, Zenon
  <1>14. ParseLines(g.lines).code = "Success" /\ ParseLines(g.lines).headers = hz
    <2>1. ParseLines(g.lines) = [code |-> "Success", headers |-> hz]
      <3> HIDE DEF hz, g
      <3> QED
        BY <1>9, <1>13, HeadersBack, Zenon
    <2> HIDE DEF hz, g
    <2> QED
      BY <2>1
  <1> HIDE DEF g, u, hz
  <1>15. o = [code |-> "Success", method |-> m, url |-> ParseRawUrl(UrlText(g)),
              version |-> <<g.major, IF g.minor = NoNumber THEN 1 ELSE g.minor>>,
              headers |-> hz]
    <2>1. g.major # NoNumber
      BY <1>10, <1>11
    <2>2. o = [code |-> "Success", method |-> getMethod(g.word), url |-> ParseRawUrl(UrlText(g)),
               version |-> <<g.major, IF g.minor = NoNumber THEN 1 ELSE g.minor>>,
               headers |-> ParseLines(g.lines).headers]
      BY <1>2, <1>12, <1>14, <2>1, ParseFacts
    <2> QED
      BY <1>12, <1>14, <2>2, Zenon
  <1>16. o.code = "Success" /\ o.method = m /\ o.url = ParseRawUrl(UrlText(g)) /\ o.headers = hz
         /\ o.version = <<g.major, IF g.minor = NoNumber THEN 1 ELSE g.minor>>
    <2> DEFINE a == ParseRawUrl(UrlText(g))
               b == <<g.major, IF g.minor = NoNumber THEN 1 ELSE g.minor>>
    <2> HIDE DEF a, b
    <2>1. o = [code |-> "Success", method |-> m, url |-> a, version |-> b, headers |-> hz]
      BY <1>15, Zenon DEF a, b
    <2> HIDE DEF o
    <2>2. o.code = "Success" /\ o.method = m /\ o.url = a /\ o.version = b /\ o.headers = hz
      BY <2>1
    <2> QED
      BY <2>2, Zenon DEF a, b
  <1> HIDE DEF o
  <1>17. /\ value = NoParam /\ url.raw_path = t.url => o.url.main_path = url.main_path
         /\ value # NoParam => o.url.main_path = ParseRawUrl(Slashed(value)).main_path
         /\ value # NoParam /\ Clean(value) => o.url.main_path = Slashed(value)
    <2>1. o.url = ParseRawUrl(u.raw_path)
      BY <1>9, <1>16, Zenon
    <2> QED
      BY <1>8, <2>1, Zenon
  <1>18. o.version = <<t.major, IF minor = 0 THEN 1 ELSE minor>>
    <2> HIDE DEF minor
    <2>1. minor = 0 \/ minor = 1
      BY <1>5
    <2>2. (IF g.minor = NoNumber THEN 1 ELSE g.minor) = (IF minor = 0 THEN 1 ELSE minor)
      BY <1>11, <2>1 DEF NoNumber
    <2> QED
      BY <1>11, <1>16, <2>2, Zenon
  <1>19. Upstream(t, value) = o
    BY Zenon DEF Upstream, o, g, z, r
  <1>20. r.version[1] = t.major /\ r.version[2] = minor
    BY <1>5, <1>6, Zenon
  <1> HIDE DEF minor
  <1>21. /\ o.code = "Success" /\ o.method = r.method
         /\ o.version = <<r.version[1], IF r.version[2] = 0 THEN 1 ELSE r.version[2]>>
         /\ OtherHeaders(o.headers) = OtherHeaders(r.headers)
         /\ Overwritten \subseteq o.headers
         /\ value = NoParam /\ r.url.raw_path = t.url => o.url.main_path = r.url.main_path
         /\ value # NoParam => o.url.main_path = ParseRawUrl(Slashed(value)).main_path
         /\ value # NoParam /\ Clean(value) => o.url.main_path = Slashed(value)
    BY <1>6, <1>13, <1>16, <1>17, <1>18, <1>20, Zenon
  <1> QED
    BY <1>19, <1>21, Zenon DEF r

-----------------------------------------------------------------------------
(* The way of a request *)

\* What the upstream reads comes from the request that was read.
Sent == /\ Parse(text).code = "Success"
        /\ param \in Params(text) /\ seen = Upstream(text, param)

Way == /\ text \in Texts
       /\ phase = "read" => req = Parse(text) /\ req.code = "Success"
       /\ phase = "forwarded" => Sent

\* One more character or line is a text.
LEMMA TextFacts ==
    ASSUME NEW t \in Texts
    PROVE  /\ \A c \in UrlChars : [t EXCEPT !.url = Append(@, c)] \in Texts
           /\ \A l \in Lines : [t EXCEPT !.lines = Append(@, l)] \in Texts
  <1>1. t.url \in Seq(UrlChars) /\ t.lines \in Seq(Lines)
    BY TextFields
  <1>2. ASSUME NEW u \in Seq(UrlChars) PROVE [t EXCEPT !.url = u] \in Texts
    BY DEF Texts
  <1>3. ASSUME NEW ls \in Seq(Lines) PROVE [t EXCEPT !.lines = ls] \in Texts
    BY DEF Texts
  <1>4. \A c \in UrlChars : Append(t.url, c) \in Seq(UrlChars)
    BY <1>1
  <1>5. \A l \in Lines : Append(t.lines, l) \in Seq(Lines)
    BY <1>1
  <1> QED
    BY <1>2, <1>3, <1>4, <1>5

\* At first nothing was read.
LEMMA WayInit == Init => Way
  <1> SUFFICES ASSUME Init PROVE Way
    OBVIOUS
  <1>1. phase = "typing"
    BY DEF Init
  <1>2. PICK w \in Words, v \in Versions, s \in BOOLEAN :
          text = [word |-> w, url |-> <<>>, second |-> s, major |-> v[1],
                  minor |-> v[2], lines |-> <<>>]
    BY Zenon DEF Init
  <1>3. v[1] \in {1, 2, 1000} /\ v[2] \in {0, 1, NoNumber}
    BY DEF Versions
  <1>4. <<>> \in Seq(UrlChars) /\ <<>> \in Seq(Lines)
    OBVIOUS
  <1> DEFINE a == v[1]
             b == v[2]
  <1> HIDE DEF a, b
  <1>5. a \in {1, 2, 1000} /\ b \in {0, 1, NoNumber}
    BY <1>3 DEF a, b
  <1>6. text = [word |-> w, url |-> <<>>, second |-> s, major |-> a, minor |-> b, lines |-> <<>>]
    BY <1>2 DEF a, b
  <1>7. text \in Texts
    <2> DEFINE words == Words
               urls == Seq(UrlChars)
               majors == {1, 2, 1000}
               minors == {0, 1, NoNumber}
               lines == Seq(Lines)
    <2>1. /\ w \in words /\ <<>> \in urls /\ s \in BOOLEAN /\ a \in majors
          /\ b \in minors /\ <<>> \in lines
      BY <1>4, <1>5
    <2> HIDE DEF words, urls, majors, minors, lines
    <2>2. text \in [word : words, url : urls, second : BOOLEAN, major : majors,
                    minor : minors, lines : lines]
      BY <1>6, <2>1
    <2> QED
      BY <2>2, Zenon DEF Texts, words, urls, majors, minors, lines
  <1> QED
    BY <1>1, <1>7 DEF Way

\* Every step keeps the request that was read and the one that was sent.
LEMMA WayNext == Way /\ [Next]_vars => Way'
  <1> SUFFICES ASSUME Way, [Next]_vars PROVE Way'
    OBVIOUS
  <1>1. text \in Texts
    BY DEF Way
  <1>2. ASSUME NEW c \in UrlChars, TypeUrl(c) PROVE Way'
    <2>1. phase' = "typing"
      BY <1>2 DEF TypeUrl
    <2>2. text' \in Texts
      BY <1>1, <1>2, TextFacts DEF TypeUrl
    <2> QED
      BY <2>1, <2>2 DEF Way
  <1>3. ASSUME NEW l \in Lines, TypeLine(l) PROVE Way'
    <2>1. phase' = "typing"
      BY <1>3 DEF TypeLine
    <2>2. text' \in Texts
      BY <1>1, <1>3, TextFacts DEF TypeLine
    <2> QED
      BY <2>1, <2>2 DEF Way
  <1>4. CASE Receive
    <2>1. text' = text /\ req' = Parse(text)
      BY <1>4 DEF Receive
    <2>2. phase' = IF req'.code = "Success" THEN "read" ELSE "refused"
      BY <1>4 DEF Receive
    <2>3. phase' = "read" => req'.code = "Success"
      BY <2>2
    <2>4. phase' # "forwarded"
      BY <2>2
    <2>5. req' = Parse(text')
      BY <2>1
    <2> QED
      BY <1>1, <2>1, <2>3, <2>4, <2>5, Zenon DEF Way
  <1>5. CASE Forward
    <2>1. phase = "read" /\ text' = text /\ phase' = "forwarded"
      BY <1>5 DEF Forward
    <2>2. req = Parse(text) /\ req.code = "Success"
      BY <2>1 DEF Way
    <2>3. param' \in Params(text)
      <3>1. param' \in {NoParam} \cup
                        (IF Segmented(Slashed(req.url.main_path))
                           THEN ParamValues(Slashed(req.url.main_path)) ELSE {})
        BY <1>5, Zenon DEF Forward
      <3>2. param' \in {NoParam} \cup ParamValues(Slashed(req.url.main_path))
        BY <3>1
      <3> QED
        BY <2>2, <3>2, Zenon DEF Params
    <2>4. req' = Proxied(req, param') /\ seen' = Parse(generate(req'))
      BY <1>5, Zenon DEF Forward
    <2>5. seen' = Upstream(text, param')
      BY <2>2, <2>4, Zenon DEF Upstream
    <2>6. Params(text') = Params(text) /\ Upstream(text', param') = Upstream(text, param')
      BY <2>1, Zenon
    <2>7. Parse(text').code = "Success"
      BY <2>1, <2>2, Zenon
    <2>8. Sent'
      BY <2>3, <2>5, <2>6, <2>7, Zenon DEF Sent
    <2>9. phase' # "read"
      BY <2>1
    <2> QED
      BY <1>1, <2>1, <2>8, <2>9, Zenon DEF Way
  <1>6. CASE NoRoute
    <2>1. phase' = "refused" /\ text' = text
      BY <1>6 DEF NoRoute
    <2> QED
      BY <1>1, <2>1 DEF Way
  <1>7. CASE UNCHANGED vars
    BY <1>7 DEF vars, Way, Sent
  <1>8. CASE Done
    BY <1>7, <1>8 DEF Done
  <1> QED
    BY <1>2, <1>3, <1>4, <1>5, <1>6, <1>7, <1>8 DEF Next

-----------------------------------------------------------------------------
(* Theorems *)

\* What a step reads stays the reading of the text that was typed.
THEOREM RequestInvariant == Spec => []Way
  BY WayInit, WayNext, PTL DEF Spec

\* However long the URL is, the loop that moves pos ends with the view that
\* shows the decoding of what stands before the question mark, when every "%"
\* there starts a proper escape (URL::parse_raw_url).
THEOREM MainPathAlwaysRight == Spec => []MainPathIfEscaped
  <1>1. Way => MainPathIfEscaped
    <2> SUFFICES ASSUME Way, Escapes(BeforeQuery(text.url))
                 PROVE  MainPathRight
      BY Zenon DEF MainPathIfEscaped
    <2>1. text.url \in Seq(UrlChars)
      BY TextFields DEF Way
    <2>2. text.url \in Seq(Bytes)
      BY <2>1, CharFacts
    <2> QED
      BY <2>2, MainPathOf, Zenon DEF MainPathRight
  <1> QED
    BY <1>1, RequestInvariant, PTL

\* A path of any length that was encoded byte by byte is read back as it was,
\* and a query behind it stays out of it.
THEOREM EncodedAlwaysReadBack == Spec => []UrlRoundTrip
  <1>1. Way => UrlRoundTrip
    <2> SUFFICES ASSUME Way PROVE UrlRoundTrip
      OBVIOUS
    <2>1. text.url \in Seq(UrlChars)
      BY TextFields DEF Way
    <2>2. text.url \in Seq(Written)
      BY <2>1, CharFacts
    <2> QED
      BY <2>2, EncodedAlone, EncodedWithQuery, Zenon DEF UrlRoundTrip
  <1> QED
    BY <1>1, RequestInvariant, PTL

\* What the upstream reads is what the client asked for, however long the URL
\* and however many the header lines: HTTPRequest::parse, what handle changes,
\* HTTPRequest::generate_to and parse again.
THEOREM RequestAlwaysKept == Spec => []RequestKept
  <1>1. Way => RequestKept
    <2> DEFINE r == Parse(text)
    <2> SUFFICES ASSUME Way, phase = "forwarded", text.second, r.version[1] < 1000
                 PROVE  RequestKept
      BY Zenon DEF RequestKept
    <2>1. text \in Texts /\ Sent
      BY DEF Way
    <2>2. r.code = "Success" /\ param \in Params(text) /\ seen = Upstream(text, param)
      BY <2>1, Zenon DEF Sent
    <2>3. CASE \E n \in 1..Len(param) : param[n] = Blank
      <3>1. seen.code = "InvalidFormat"
        BY <2>1, <2>2, <2>3, UnreadableRequest, Zenon
      <3> QED
        BY <2>3, <3>1, Zenon DEF RequestKept
    <2>4. CASE ~\E n \in 1..Len(param) : param[n] = Blank
      <3>1. /\ seen.code = "Success" /\ seen.method = r.method
            /\ seen.version = <<r.version[1], IF r.version[2] = 0 THEN 1 ELSE r.version[2]>>
            /\ OtherHeaders(seen.headers) = OtherHeaders(r.headers)
            /\ Overwritten \subseteq seen.headers
            /\ param = NoParam /\ r.url.raw_path = text.url =>
                 seen.url.main_path = r.url.main_path
            /\ param # NoParam => seen.url.main_path = ParseRawUrl(Slashed(param)).main_path
            /\ param # NoParam /\ Clean(param) => seen.url.main_path = Slashed(param)
        BY <2>1, <2>2, <2>4, KeptRequest, Zenon
      <3> HIDE DEF r
      <3> QED
        BY <2>4, <3>1, Zenon DEF RequestKept, r
    <2> QED
      BY <2>3, <2>4, Zenon
  <1> QED
    BY <1>1, RequestInvariant, PTL
=============================================================================
