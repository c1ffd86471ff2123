---------------------------- MODULE LoggerProofs ----------------------------
(***************************************************************************)
(* What the workers log, for any number of workers, statements, files and  *)
(* reloads: every statement gives one line in each target, in the order of *)
(* its worker and with its level, and the files are full where they end.   *)
(***************************************************************************)
EXTENDS FileProxy, SequenceTheorems, WellFoundedInduction, TLAPS

-----------------------------------------------------------------------------
(* Sums of sizes *)

\* A set of naturals has a least element.
LEMMA LeastNatural ==
    ASSUME NEW T, T \subseteq Nat, T # {}
    PROVE  \E x \in T : \A y \in T : x <= y
  <1> DEFINE R == {ss \in Nat \X Nat : ss[1] < ss[2]}
  <1>1. IsWellFoundedOn(R, Nat)
    <2>1. OpToRel(<, Nat) = R
      BY Zenon DEF OpToRel
    <2> QED
      BY <2>1, NatLessThanWellFounded, Zenon
  <1>2. PICK x \in T : \A y \in T : ~(<<y, x>> \in R)
    BY <1>1, WFMin
  <1>3. ASSUME NEW y \in T PROVE x <= y
    <2>1. x \in Nat /\ y \in Nat
      OBVIOUS
    <2>2. <<y, x>> \in Nat \X Nat /\ <<y, x>>[1] = y /\ <<y, x>>[2] = x
      BY <2>1
    <2>3. ~(y < x)
      BY <1>2, <2>2, Zenon
    <2> QED
      BY <2>1, <2>3
  <1> QED
    BY <1>3

Sized(lines) == Len(lines) \in Nat /\ \A m \in 1..Len(lines) : lines[m].size \in Nat

\* f gives the bytes in the first m lines, for every m up to n.
Sums(lines, f, n) ==
    /\ f \in [0..n -> Nat] /\ f[0] = 0
    /\ \A m \in 1..n : f[m] = f[m - 1] + lines[m].size

\* There is such a function, for otherwise there would be a least n without.
LEMMA SumsExist ==
    ASSUME NEW lines, Sized(lines)
    PROVE  \E f : Sums(lines, f, Len(lines))
  <1> DEFINE T == {n \in 0..Len(lines) : ~(\E f : Sums(lines, f, n))}
  <1>1. SUFFICES ASSUME T # {} PROVE FALSE
    BY DEF Sized
  <1>2. PICK n \in T : \A y \in T : n <= y
    <2>1. T \subseteq Nat
      BY DEF Sized
    <2> HIDE DEF T
    <2> QED
      BY <1>1, <2>1, LeastNatural, Zenon
  <1>3. n \in 0..Len(lines) /\ n \in Nat /\ Len(lines) \in Nat
    BY DEF Sized
  <1>4. n # 0
    <2>1. Sums(lines, [m \in 0..0 |-> 0], 0)
      BY DEF Sums
    <2> QED
      BY <2>1
  <1>5. n - 1 \in 0..Len(lines) /\ ~(n <= n - 1)
    BY <1>3, <1>4
  <1>6. PICK g : Sums(lines, g, n - 1)
    BY <1>2, <1>5
  <1> DEFINE f == [m \in 0..n |-> IF m = n THEN g[n - 1] + lines[n].size ELSE g[m]]
  <1>7. g \in [0..(n - 1) -> Nat] /\ lines[n].size \in Nat
    BY <1>3, <1>4, <1>6 DEF Sums, Sized
  <1>8. f \in [0..n -> Nat] /\ f[0] = 0 /\ f[n] = f[n - 1] + lines[n].size
    BY <1>3, <1>4, <1>6, <1>7 DEF Sums
  <1>9. ASSUME NEW m \in 1..n, m # n PROVE f[m] = f[m - 1] + lines[m].size
    <2>1. m \in 1..(n - 1) /\ m \in 0..n /\ m - 1 \in 0..n /\ m - 1 # n
      BY <1>3, <1>9
    <2> QED
      BY <2>1, <1>9, <1>6 DEF Sums
  <1> QED
    BY <1>8, <1>9 DEF Sums

SameSizes(a, b, n) == \A j \in 1..n : a[j].size = b[j].size

\* Two such functions agree as far as their lines do.
LEMMA SumsAgree ==
    ASSUME NEW a, NEW b, NEW f, NEW g, NEW m \in Nat, NEW n \in Nat, NEW k \in Nat,
           Sums(a, f, m), Sums(b, g, n), k <= m, k <= n,
           SameSizes(a, b, k)
    PROVE  f[k] = g[k]
  <1> DEFINE T == {j \in 0..k : f[j] # g[j]}
  <1>1. SUFFICES ASSUME T # {} PROVE FALSE
    <2>1. k \in 0..k
      OBVIOUS
    <2> QED
      BY <2>1
  <1>2. PICK j \in T : \A y \in T : j <= y
    <2>1. T \subseteq Nat
      OBVIOUS
    <2> HIDE DEF T
    <2> QED
      BY <1>1, <2>1, LeastNatural, Zenon
  <1>3. j \in 0..k /\ j \in Nat /\ f[j] # g[j]
    OBVIOUS
  <1>4. j # 0
    BY <1>3 DEF Sums
  <1>5. /\ j - 1 \in 0..k /\ ~(j <= j - 1)
        /\ j \in 1..k /\ j \in 1..m /\ j \in 1..n
    BY <1>3, <1>4
  <1>6. f[j - 1] = g[j - 1]
    BY <1>2, <1>5
  <1>7. f[j] = f[j - 1] + a[j].size /\ g[j] = g[j - 1] + b[j].size
    BY <1>5 DEF Sums
  <1>8. a[j].size = b[j].size
    BY <1>5 DEF SameSizes
  <1> QED
    BY <1>3, <1>6, <1>7, <1>8

SumOf(lines, f) ==
    f = [m \in 0..Len(lines) |-> IF m = 0 THEN 0 ELSE f[m - 1] + lines[m].size]

\* Bytes is such a function.
LEMMA BytesSums ==
    ASSUME NEW lines, Sized(lines)
    PROVE  \E f : Sums(lines, f, Len(lines)) /\ \A n : Bytes(lines, n) = f[n]
  <1>1. PICK g : Sums(lines, g, Len(lines))
    BY SumsExist
  <1>2. Len(lines) \in Nat
    BY DEF Sized
  <1>3. SumOf(lines, g)
    <2> DEFINE h == [m \in 0..Len(lines) |-> IF m = 0 THEN 0 ELSE g[m - 1] + lines[m].size]
    <2>1. g \in [0..Len(lines) -> Nat]
      BY <1>1 DEF Sums
    <2>2. \A m \in 0..Len(lines) : g[m] = h[m]
      BY <1>1, <1>2 DEF Sums
    <2>3. g = h
      BY <2>1, <2>2
    <2> QED
      BY <2>3 DEF SumOf
  <1> DEFINE f == CHOOSE f : SumOf(lines, f)
  <1>4. SumOf(lines, f)
    BY <1>3
  <1>5. \A n : Bytes(lines, n) = f[n]
    BY DEF Bytes, SumOf
  <1> HIDE DEF f
  <1>6. f[0] = 0 /\ \A m \in 1..Len(lines) : f[m] = f[m - 1] + lines[m].size
    <2> DEFINE h == [m \in 0..Len(lines) |-> IF m = 0 THEN 0 ELSE f[m - 1] + lines[m].size]
    <2>1. f = h
      BY <1>4 DEF SumOf
    <2>2. h[0] = 0 /\ \A m \in 1..Len(lines) : h[m] = f[m - 1] + lines[m].size
      BY <1>2
    <2> HIDE DEF h
    <2>3. f[0] = h[0] /\ \A m : f[m] = h[m]
      BY <2>1
    <2> QED
      BY <2>2, <2>3, Zenon
  <1>7. ASSUME NEW j \in 0..Len(lines) PROVE f[j] = g[j]
    <2> DEFINE T == {k \in 0..Len(lines) : f[k] # g[k]}
    <2>1. SUFFICES ASSUME T # {} PROVE FALSE
      OBVIOUS
    <2>2. PICK k \in T : \A y \in T : k <= y
      <3>1. T \subseteq Nat
        BY <1>2
      <3> HIDE DEF T
      <3> QED
        BY <2>1, <3>1, LeastNatural, Zenon
    <2>3. k # 0
      BY <1>1, <1>6 DEF Sums
    <2>4. k - 1 \in 0..Len(lines) /\ ~(k <= k - 1) /\ k \in 1..Len(lines)
      BY <2>3, <1>2
    <2>5. f[k - 1] = g[k - 1]
      BY <2>2, <2>4
    <2> QED
      BY <2>4, <2>5, <1>1, <1>6 DEF Sums
  <1>8. DOMAIN f = 0..Len(lines) /\ f = [m \in DOMAIN f |-> f[m]]
    BY <1>4 DEF SumOf
  <1>9. f \in [0..Len(lines) -> Nat]
    BY <1>1, <1>7, <1>8 DEF Sums
  <1>10. Sums(lines, f, Len(lines))
    BY <1>6, <1>9 DEF Sums
  <1> QED
    BY <1>5, <1>10

\* Bytes adds the sizes one after the other.
LEMMA BytesSteps ==
    ASSUME NEW lines, Sized(lines)
    PROVE  /\ Bytes(lines, 0) = 0
           /\ \A n \in 0..Len(lines) : Bytes(lines, n) \in Nat
           /\ \A n \in 1..Len(lines) : Bytes(lines, n) = Bytes(lines, n - 1) + lines[n].size
  <1>1. PICK f : Sums(lines, f, Len(lines)) /\ \A n : Bytes(lines, n) = f[n]
    BY BytesSums
  <1> QED
    BY <1>1 DEF Sums

\* What comes after the first n lines does not matter to them.
LEMMA BytesAgree ==
    ASSUME NEW a, NEW b, Sized(a), Sized(b), NEW n \in Nat, n <= Len(a), n <= Len(b),
           SameSizes(a, b, n)
    PROVE  Bytes(a, n) = Bytes(b, n)
  <1>1. PICK f : Sums(a, f, Len(a)) /\ \A m : Bytes(a, m) = f[m]
    BY BytesSums
  <1>2. PICK g : Sums(b, g, Len(b)) /\ \A m : Bytes(b, m) = g[m]
    BY BytesSums
  <1>3. Len(a) \in Nat /\ Len(b) \in Nat
    BY DEF Sized
  <1>4. f[n] = g[n]
    <2>1. Sums(a, f, Len(a)) /\ Sums(b, g, Len(b))
      BY <1>1, <1>2
    <2> QED
      BY <1>3, <2>1, SumsAgree
  <1> QED
    BY <1>1, <1>2, <1>4
-----------------------------------------------------------------------------
(* The inductive invariant *)

Levels == {"info", "trace"}
LineSizes == 0..(Width - MaxBytes)

LineType == [by : Threads \cup {"main"}, n : Nat, era : Nat, size : LineSizes,
             level : Levels, want : Levels, raced : BOOLEAN]
Lines == Seq(LineType)

CallType == [phase : {"none", "text", "out"}, want : Levels, level : Levels,
             size : LineSizes, todo : SUBSET Targets, raced : BOOLEAN]

SplitType == [splitIndex : Indices, currentBytes : 0..(MaxBytes - 1),
              good : BOOLEAN, opened : SUBSET Indices]

LogType ==
    /\ defLogType \in Levels
    /\ call \in [Threads -> CallType]
    /\ console \in Lines
    /\ files \in [Indices -> Lines]
    /\ split \in SplitType
    /\ said \in [Threads -> Nat]
    /\ era \in [n : Nat, since : [Threads -> Nat]]

\* The workers of a behaviour are threads; its lines are shorter than the
\* counter wraps.
WorkloadInv ==
    /\ DOMAIN bounds = {"workers", "requests", "number", "changes", "reloads",
                        "lines", "faults"}
    /\ bounds.lines \subseteq LineSizes
    /\ bounds.workers \subseteq Threads

\* A statement under way has been counted; the shared level is the one it
\* asked for, unless another thread came in between.
StatementInv(t) ==
    /\ era.since[t] <= said[t]
    /\ call[t].phase # "none" => era.since[t] < said[t]
    /\ call[t].phase # "out" => call[t].todo = {}
    /\ call[t].phase = "text" =>
        call[t].want = "info" /\ (defLogType = "info" \/ call[t].raced)
    /\ call[t].phase = "out" => LevelRight(call[t])

AllRight(lines) == \A i \in 1..Len(lines) : LevelRight(lines[i])
LevelsInv == AllRight(console) /\ \A k \in Indices : AllRight(files[k])

\* Every thread's lines are in a log of the console, and of the files.
KeptInv ==
    \A t \in Threads :
        /\ InOrder(t, ConsoleLog, 0, Written(t, "console"))
        /\ split.opened = 0..split.splitIndex =>
            InOrder(t, FileLog, era.since[t], Written(t, "file"))

\* The counter knows the bytes of the current file, or of all of its lines
\* but the first if that file was the first.
Counted(f, k, bytes) ==
    /\ k > 0 => Bytes(f, Len(f)) = bytes
    /\ k = 0 => f # <<>> /\ Bytes(f, Len(f)) - f[1].size <= bytes

\* A file that was left.
Full(f, k) ==
    /\ f # <<>>
    /\ k > 0 => Bytes(f, Len(f) - 1) < MaxBytes /\ Bytes(f, Len(f)) >= MaxBytes
    /\ k = 0 /\ Len(f) > 1 => Bytes(f, Len(f) - 1) - f[1].size < MaxBytes

OfEra(f, n) == \A i \in 1..Len(f) : f[i].era = n
UpToEra(f, n) == \A i \in 1..Len(f) : f[i].era <= n
BeforeEra(f, n) == \A i \in 1..Len(f) : f[i].era < n

\* The files fs of a logger with the fields s, in era n.
Ordered(fs, s, n) ==
    /\ s.good <=> s.splitIndex \in s.opened
    /\ s.opened \subseteq 0..s.splitIndex
    /\ \A k \in s.opened :
        /\ k # s.splitIndex => Full(fs[k], k)
        /\ k = s.splitIndex => Counted(fs[k], k, s.currentBytes)
        /\ OfEra(fs[k], n)
    /\ \A k \in Indices : UpToEra(fs[k], n)
    /\ \A k \in Indices : k > s.splitIndex => BeforeEra(fs[k], n)

FilesInv == Ordered(files, split, era.n)

LogInv ==
    /\ LogType
    /\ \A t \in Threads : StatementInv(t)
    /\ LevelsInv /\ KeptInv /\ FilesInv

LInv == WorkloadInv /\ LogInv
-----------------------------------------------------------------------------
(* Lines in order *)

Mine(t, log) == {p \in DOMAIN log : log[p].by = t}

LEMMA OrderFacts ==
    ASSUME NEW t, NEW log, NEW from, NEW to
    PROVE  InOrder(t, log, from, to) <=>
             /\ \A p, q \in Mine(t, log) : Precedes(p, q) => log[p].n < log[q].n
             /\ {log[p].n : p \in Mine(t, log)} = (from + 1)..to
  BY Zenon DEF InOrder, Mine

\* more is log with one line behind all others, at x.
Extends(log, more, x) ==
    /\ x \notin DOMAIN log /\ DOMAIN more = DOMAIN log \cup {x}
    /\ \A p \in DOMAIN log : more[p] = log[p] /\ ~Precedes(x, p)
    /\ ~Precedes(x, x)

\* The next line of a thread keeps its lines in order.
LEMMA OrderMine ==
    ASSUME NEW log, NEW more, NEW x, Extends(log, more, x),
           NEW t, NEW from \in Nat, NEW to \in Nat, from <= to,
           more[x].by = t, more[x].n = to + 1,
           InOrder(t, log, from, to)
    PROVE  InOrder(t, more, from, to + 1)
  <1>1. Mine(t, more) = Mine(t, log) \cup {x}
    BY DEF Mine, Extends
  <1>2. \A p \in Mine(t, log) : p \in DOMAIN log /\ more[p] = log[p] /\ ~Precedes(x, p)
    BY DEF Mine, Extends
  <1>3. /\ \A p, q \in Mine(t, log) : Precedes(p, q) => log[p].n < log[q].n
        /\ {log[p].n : p \in Mine(t, log)} = (from + 1)..to
    BY OrderFacts
  <1>4. \A p \in Mine(t, log) : log[p].n \in (from + 1)..to
    BY <1>3
  <1>5. ASSUME NEW p \in Mine(t, more), NEW q \in Mine(t, more), Precedes(p, q)
        PROVE  more[p].n < more[q].n
    <2>1. p # x
      BY <1>1, <1>2, <1>5 DEF Extends
    <2>2. p \in Mine(t, log) /\ more[p] = log[p]
      BY <1>1, <1>2, <2>1
    <2>3. CASE q = x
      BY <1>4, <2>2, <2>3
    <2>4. CASE q # x
      BY <1>1, <1>2, <1>3, <1>5, <2>2, <2>4
    <2> QED
      BY <2>3, <2>4
  <1>6. {more[p].n : p \in Mine(t, more)} = (from + 1)..(to + 1)
    <2>1. {more[p].n : p \in Mine(t, more)} = {log[p].n : p \in Mine(t, log)} \cup {to + 1}
      BY <1>1, <1>2
    <2>2. (from + 1)..(to + 1) = ((from + 1)..to) \cup {to + 1}
      OBVIOUS
    <2> QED
      BY <1>3, <2>1, <2>2
  <1> QED
    BY <1>5, <1>6, OrderFacts

\* The line of another thread does not matter.
LEMMA OrderOther ==
    ASSUME NEW log, NEW more, NEW x, Extends(log, more, x),
           NEW t, NEW from, NEW to, more[x].by # t, InOrder(t, log, from, to)
    PROVE  InOrder(t, more, from, to)
  <1>1. Mine(t, more) = Mine(t, log)
    BY DEF Mine, Extends
  <1>2. \A p \in Mine(t, log) : more[p] = log[p]
    BY DEF Mine, Extends
  <1>3. {more[p].n : p \in Mine(t, log)} = {log[p].n : p \in Mine(t, log)}
    BY <1>2
  <1> QED
    BY <1>1, <1>2, <1>3, OrderFacts

\* A thread without lines.
LEMMA OrderNone ==
    ASSUME NEW log, NEW t, NEW n \in Nat, \A p \in DOMAIN log : log[p].by # t
    PROVE  InOrder(t, log, n, n)
  <1>1. Mine(t, log) = {}
    BY DEF Mine
  <1>2. (n + 1)..n = {}
    OBVIOUS
  <1> QED
    BY <1>1, <1>2, OrderFacts

LinesTo(fs, last) == \A k \in 0..last : fs[k] \in Lines

\* log has the lines of fs at their places.
Places(fs, last, log) ==
    /\ \A k \in 0..last : \A i \in 1..Len(fs[k]) :
        <<k, i>> \in DOMAIN log /\ log[<<k, i>>] = fs[k][i]
    /\ \A p \in DOMAIN log : \E k \in 0..last : \E i \in 1..Len(fs[k]) : p = <<k, i>>

LEMMA LogFacts ==
    ASSUME NEW fs, NEW last \in Nat, LinesTo(fs, last)
    PROVE  Places(fs, last, LogOf(fs, last))
  <1>1. \A k \in 0..last : DOMAIN fs[k] = 1..Len(fs[k])
    BY LenProperties DEF LinesTo, Lines
  <1> DEFINE D == UNION {{k} \X DOMAIN fs[k] : k \in 0..last}
  <1>2. ASSUME NEW k \in 0..last, NEW i \in 1..Len(fs[k])
        PROVE  <<k, i>> \in D
    <2>1. <<k, i>> \in {k} \X DOMAIN fs[k]
      BY <1>1
    <2> QED
      BY <2>1
  <1>3. ASSUME NEW p \in D
        PROVE  \E k \in 0..last : \E i \in 1..Len(fs[k]) : p = <<k, i>>
    <2>1. PICK k \in 0..last : p \in {k} \X DOMAIN fs[k]
      OBVIOUS
    <2>2. \E i \in DOMAIN fs[k] : p = <<k, i>>
      BY <2>1
    <2> QED
      BY <1>1, <2>2
  <1>4. DOMAIN LogOf(fs, last) = D /\ \A p \in D : LogOf(fs, last)[p] = fs[p[1]][p[2]]
    BY DEF LogOf
  <1> HIDE DEF D
  <1>5. ASSUME NEW k \in 0..last, NEW i \in 1..Len(fs[k])
        PROVE  LogOf(fs, last)[<<k, i>>] = fs[k][i]
    <2>1. <<k, i>>[1] = k /\ <<k, i>>[2] = i /\ <<k, i>> \in D
      BY <1>2
    <2> QED
      BY <1>4, <2>1
  <1> QED
    BY <1>2, <1>3, <1>4, <1>5 DEF Places

\* A line at the end of the last file.
LEMMA LogMore ==
    ASSUME NEW fs, NEW more, NEW last \in Nat, NEW l \in LineType,
           LinesTo(fs, last), LinesTo(more, last),
           \A k \in 0..last : k # last => more[k] = fs[k],
           more[last] = Append(fs[last], l)
    PROVE  \E x : /\ Extends(LogOf(fs, last), LogOf(more, last), x)
                  /\ LogOf(more, last)[x] = l
  <1> DEFINE a == LogOf(fs, last)
             b == LogOf(more, last)
             x == <<last, Len(fs[last]) + 1>>
  <1>1. /\ \A k \in 0..last : \A i \in 1..Len(fs[k]) :
              <<k, i>> \in DOMAIN a /\ a[<<k, i>>] = fs[k][i]
        /\ \A p \in DOMAIN a : \E k \in 0..last : \E i \in 1..Len(fs[k]) : p = <<k, i>>
    BY LogFacts DEF Places
  <1>2. /\ \A k \in 0..last : \A i \in 1..Len(more[k]) :
              <<k, i>> \in DOMAIN b /\ b[<<k, i>>] = more[k][i]
        /\ \A p \in DOMAIN b : \E k \in 0..last : \E i \in 1..Len(more[k]) : p = <<k, i>>
    BY LogFacts DEF Places
  <1> HIDE DEF a, b
  <1>3. /\ last \in 0..last /\ fs[last] \in Lines
        /\ \A k \in 0..last : Len(fs[k]) \in Nat
    BY LenProperties DEF LinesTo, Lines
  <1>4. /\ Len(more[last]) = Len(fs[last]) + 1
        /\ \A i \in 1..Len(fs[last]) : more[last][i] = fs[last][i]
        /\ more[last][Len(fs[last]) + 1] = l
    BY <1>3, AppendProperties DEF Lines
  <1>5. x \in DOMAIN b /\ b[x] = l
    <2>1. Len(fs[last]) + 1 \in 1..Len(more[last])
      BY <1>3, <1>4
    <2> QED
      BY <1>2, <1>3, <1>4, <2>1
  <1>6. ASSUME NEW p \in DOMAIN a
        PROVE  /\ p # x /\ p \in DOMAIN b /\ b[p] = a[p]
               /\ ~Precedes(x, p)
    <2>0. PICK k \in 0..last : \E i \in 1..Len(fs[k]) : p = <<k, i>>
      BY <1>1
    <2>1. PICK i \in 1..Len(fs[k]) : p = <<k, i>>
      BY <2>0
    <2>2. a[p] = fs[k][i]
      BY <1>1, <2>1
    <2>3. i \in 1..Len(more[k]) /\ more[k][i] = fs[k][i]
      <3>1. CASE k = last
        BY <1>3, <1>4, <3>1
      <3>2. CASE k # last
        BY <3>2
      <3> QED
        BY <3>1, <3>2
    <2>4. p \in DOMAIN b /\ b[p] = more[k][i]
      BY <1>2, <2>1, <2>3
    <2>5. /\ k <= last /\ (k = last => i < Len(fs[last]) + 1)
          /\ k \in Nat /\ i \in Nat /\ Len(fs[last]) \in Nat
      BY <1>3
    <2>6. p # x /\ ~Precedes(x, p)
      <3>1. p[1] = k /\ p[2] = i /\ x[1] = last /\ x[2] = Len(fs[last]) + 1
        BY <2>1
      <3> HIDE DEF x
      <3> QED
        BY <2>5, <3>1 DEF Precedes
    <2> QED
      BY <2>2, <2>3, <2>4, <2>6
  <1>7. ASSUME NEW p \in DOMAIN b, p # x PROVE p \in DOMAIN a
    <2>0. PICK k \in 0..last : \E i \in 1..Len(more[k]) : p = <<k, i>>
      BY <1>2
    <2>1. PICK i \in 1..Len(more[k]) : p = <<k, i>>
      BY <2>0
    <2>2. i \in 1..Len(fs[k])
      <3>1. CASE k = last
        <4>1. i # Len(fs[last]) + 1
          BY <1>7, <2>1, <3>1
        <4> QED
          BY <1>3, <1>4, <3>1, <4>1
      <3>2. CASE k # last
        BY <3>2
      <3> QED
        BY <3>1, <3>2
    <2> QED
      BY <1>1, <2>1, <2>2
  <1>8. ~Precedes(x, x)
    BY <1>3 DEF Precedes
  <1>9. Extends(a, b, x)
    BY <1>5, <1>6, <1>7, <1>8 DEF Extends
  <1> QED
    BY <1>5, <1>9 DEF a, b

\* An empty file behind the last one.
LEMMA LogNext ==
    ASSUME NEW fs, NEW more, NEW last \in Nat, LinesTo(fs, last),
           \A k \in 0..last : more[k] = fs[k], more[last + 1] = <<>>
    PROVE  LogOf(more, last + 1) = LogOf(fs, last)
  <1>1. UNION {{k} \X DOMAIN more[k] : k \in 0..(last + 1)}
          = UNION {{k} \X DOMAIN fs[k] : k \in 0..last}
    <2>1. 0..(last + 1) = (0..last) \cup {last + 1}
      OBVIOUS
    <2>2. {last + 1} \X DOMAIN more[last + 1] = {}
      <3>1. DOMAIN <<>> = {}
        OBVIOUS
      <3> QED
        BY <3>1
    <2>3. {{k} \X DOMAIN more[k] : k \in 0..(last + 1)}
            = {{k} \X DOMAIN fs[k] : k \in 0..last} \cup {{}}
      BY <2>1, <2>2
    <2> QED
      BY <2>3
  <1>2. \A p \in UNION {{k} \X DOMAIN fs[k] : k \in 0..last} : more[p[1]] = fs[p[1]]
    OBVIOUS
  <1> QED
    BY <1>1, <1>2 DEF LogOf
-----------------------------------------------------------------------------
(* The files and the counter *)

LEMMA LineFacts ==
    ASSUME NEW f \in Lines
    PROVE  /\ Sized(f) /\ Len(f) \in Nat
           /\ \A i \in 1..Len(f) : f[i] \in LineType /\ f[i].size \in Nat
  <1>1. Len(f) \in Nat /\ \A i \in 1..Len(f) : f[i] \in LineType
    BY LenProperties, ElementOfSeq DEF Lines
  <1>2. \A l \in LineType : l.size \in Nat
    BY DEF LineType, LineSizes
  <1> QED
    BY <1>1, <1>2 DEF Sized

\* What one more line makes of a file.
Grown(f, l, g) ==
    /\ g \in Lines /\ g # <<>> /\ Len(g) = Len(f) + 1 /\ Len(g) - 1 = Len(f)
    /\ \A i \in 1..Len(f) : g[i] = f[i]
    /\ g[Len(f) + 1] = l
    /\ Bytes(f, Len(f)) \in Nat
    /\ Bytes(g, Len(f)) = Bytes(f, Len(f))
    /\ Bytes(g, Len(g)) = Bytes(f, Len(f)) + l.size

LEMMA MoreBytes ==
    ASSUME NEW f \in Lines, NEW l \in LineType
    PROVE  Grown(f, l, Append(f, l))
  <1> DEFINE g == Append(f, l)
  <1>1. /\ g \in Lines /\ g # <<>> /\ Len(g) = Len(f) + 1
        /\ \A i \in 1..Len(f) : g[i] = f[i]
        /\ g[Len(f) + 1] = l
    BY AppendProperties DEF Lines
  <1> HIDE DEF g
  <1>2. Sized(f) /\ Len(f) \in Nat /\ Sized(g) /\ Len(g) \in Nat
    BY <1>1, LineFacts
  <1>3. SameSizes(g, f, Len(f))
    BY <1>1 DEF SameSizes
  <1>4. Len(f) <= Len(g) /\ Len(f) <= Len(f) /\ Len(g) - 1 = Len(f) /\ Len(g) \in 1..Len(g)
        /\ Len(f) \in 0..Len(f)
    BY <1>1, <1>2
  <1>5. Bytes(g, Len(f)) = Bytes(f, Len(f))
    BY <1>2, <1>3, <1>4, BytesAgree
  <1>6. Bytes(f, Len(f)) \in Nat
    BY <1>2, <1>4, BytesSteps
  <1>7. Bytes(g, Len(g)) = Bytes(g, Len(g) - 1) + g[Len(g)].size
    BY <1>2, <1>4, BytesSteps
  <1>8. Grown(f, l, g)
    BY <1>1, <1>4, <1>5, <1>6, <1>7 DEF Grown
  <1> QED
    BY <1>8, Zenon DEF g

\* The counter keeps to the bytes of the current file.
LEMMA CountedMore ==
    ASSUME NEW f \in Lines, NEW l \in LineType, NEW k \in Nat, NEW b \in Nat,
           Counted(f, k, b), NEW g, g = Append(f, l)
    PROVE  Counted(g, k, b + l.size)
  <1>1. Grown(f, l, g) /\ l.size \in Nat
    BY MoreBytes DEF LineType, LineSizes
  <1>2. f # <<>> => g[1] = f[1] /\ f[1].size \in Nat
    <2>1. f # <<>> => 1 \in 1..Len(f)
      BY EmptySeq, LineFacts DEF Lines
    <2> QED
      BY <1>1, <2>1, LineFacts DEF Grown
  <1> QED
    BY <1>1, <1>2 DEF Counted, Grown

LEMMA NoBytes ==
    <<>> \in Lines /\ Len(<<>>) = 0 /\ Bytes(<<>>, Len(<<>>)) = 0
  <1>1. <<>> \in Lines /\ Len(<<>>) = 0
    BY DEF Lines
  <1> QED
    BY <1>1, LineFacts, BytesSteps

LEMMA ErasMore ==
    ASSUME NEW f \in Lines, NEW l \in LineType, NEW g, g = Append(f, l), NEW n \in Nat,
           l.era = n
    PROVE  /\ OfEra(f, n) => OfEra(g, n)
           /\ UpToEra(f, n) => UpToEra(g, n)
  <1>1. \A i \in 1..Len(g) : i \in 1..Len(f) \/ i = Len(f) + 1
    BY MoreBytes, LineFacts DEF Grown
  <1> QED
    BY <1>1, MoreBytes DEF OfEra, UpToEra, Grown

LEMMA Wraps ==
    ASSUME NEW b \in 0..(MaxBytes - 1), NEW s \in LineSizes
    PROVE  b + s \in Nat /\ (b + s) % Width = b + s
  <1>1. MaxBytes \in Nat /\ Width \in Nat /\ MaxBytes < Width
    BY LoggerConstants
  <1>2. b \in Nat /\ s \in Nat /\ b + s < Width
    BY <1>1 DEF LineSizes
  <1> QED
    BY <1>1, <1>2

\* What is written, before the counter is looked at.
Put(fs, s, l) ==
    IF s.good THEN [fs EXCEPT ![s.splitIndex] = Append(@, l)] ELSE fs

LEMMA PutFacts ==
    ASSUME NEW fs \in [Indices -> Lines], NEW s \in SplitType, NEW l \in LineType
    PROVE  /\ Put(fs, s, l) \in [Indices -> Lines]
           /\ \A k \in Indices : k # s.splitIndex => Put(fs, s, l)[k] = fs[k]
           /\ s.good => Put(fs, s, l)[s.splitIndex] = Append(fs[s.splitIndex], l)
           /\ ~s.good => Put(fs, s, l) = fs
  <1>1. s.splitIndex \in Indices /\ fs[s.splitIndex] \in Lines
    BY DEF SplitType
  <1>2. Append(fs[s.splitIndex], l) \in Lines
    BY <1>1, MoreBytes DEF Grown
  <1> QED
    BY <1>1, <1>2 DEF Put

\* SplittedFiles::write when the file is not full then.
LEMMA OrderedWrite ==
    ASSUME NEW fs \in [Indices -> Lines], NEW s \in SplitType, NEW l \in LineType,
           NEW n \in Nat, l.era = n, Ordered(fs, s, n),
           NEW bytes \in Nat, bytes = s.currentBytes + l.size
    PROVE  Ordered(Put(fs, s, l), [s EXCEPT !.currentBytes = bytes], n)
  <1> DEFINE fs2 == Put(fs, s, l)
             s2 == [s EXCEPT !.currentBytes = bytes]
             j == s.splitIndex
  <1>1. /\ s2.splitIndex = j /\ s2.currentBytes = bytes
        /\ s2.good = s.good /\ s2.opened = s.opened
        /\ j \in Indices /\ s.opened \subseteq Indices /\ s.currentBytes \in Nat
    BY LoggerConstants DEF SplitType
  <1>2. /\ \A k \in Indices : k # j => fs2[k] = fs[k]
        /\ s.good => fs2[j] = Append(fs[j], l)
        /\ ~s.good => fs2 = fs
    BY PutFacts
  <1> HIDE DEF fs2, s2
  <1>3. fs[j] \in Lines /\ l.size \in Nat
    BY <1>1 DEF LineType, LineSizes
  <1>4. s.good <=> j \in s.opened
    BY DEF Ordered
  <1>5. ASSUME NEW k \in s.opened
        PROVE  /\ k # j => Full(fs2[k], k)
               /\ k = j => Counted(fs2[k], k, bytes)
               /\ OfEra(fs2[k], n)
    <2>1. /\ k # j => Full(fs[k], k)
          /\ k = j => Counted(fs[k], k, s.currentBytes)
          /\ OfEra(fs[k], n)
      BY DEF Ordered
    <2>2. CASE k # j
      <3>1. fs2[k] = fs[k]
        BY <1>1, <1>2, <2>2
      <3> QED
        BY <2>1, <2>2, <3>1
    <2>3. CASE k = j
      <3>1. fs2[k] = Append(fs[j], l)
        BY <1>2, <1>4, <2>3
      <3>2. Counted(fs[j], k, s.currentBytes) /\ OfEra(fs[j], n)
        BY <2>1, <2>3
      <3>3. OfEra(fs2[k], n)
        BY <1>3, <3>1, <3>2, ErasMore
      <3>4. Counted(fs2[k], k, s.currentBytes + l.size)
        <4>1. k \in Nat /\ s.currentBytes \in Nat
          BY <1>1, <2>3 DEF Indices
        <4> QED
          BY <1>3, <3>1, <3>2, <4>1, CountedMore
      <3> QED
        BY <2>3, <3>3, <3>4
    <2> QED
      BY <2>2, <2>3
  <1>6. ASSUME NEW k \in Indices
        PROVE  UpToEra(fs2[k], n) /\ (k > j => BeforeEra(fs2[k], n))
    <2>1. UpToEra(fs[k], n) /\ (k > j => BeforeEra(fs[k], n))
      BY DEF Ordered
    <2>2. CASE k = j /\ s.good
      <3>1. UpToEra(fs2[k], n)
        BY <1>2, <1>3, <2>1, <2>2, ErasMore
      <3>2. ~(k > j)
        BY <2>2 DEF Indices
      <3> QED
        BY <3>1, <3>2
    <2>3. CASE ~(k = j /\ s.good)
      BY <1>2, <2>1, <2>3
    <2> QED
      BY <2>2, <2>3
  <1>7. Ordered(fs2, s2, n)
    <2>1. s.opened \subseteq 0..j
      BY DEF Ordered
    <2> QED
      BY <1>1, <1>4, <1>5, <1>6, <2>1 DEF Ordered
  <1> QED
    BY <1>7 DEF fs2, s2
\* The line that fills a file.
LEMMA FullNow ==
    ASSUME NEW f \in Lines, NEW l \in LineType, NEW k \in Nat,
           NEW b \in 0..(MaxBytes - 1), Counted(f, k, b), b + l.size >= MaxBytes,
           NEW g, g = Append(f, l)
    PROVE  Full(g, k)
  <1>1. Grown(f, l, g) /\ l.size \in Nat
    BY MoreBytes DEF LineType, LineSizes
  <1>2. f # <<>> => g[1] = f[1] /\ f[1].size \in Nat
    <2>1. f # <<>> => 1 \in 1..Len(f)
      BY EmptySeq, LineFacts DEF Lines
    <2> QED
      BY <1>1, <2>1, LineFacts DEF Grown
  <1>3. MaxBytes \in Nat /\ b \in Nat /\ b < MaxBytes
    BY LoggerConstants
  <1> QED
    BY <1>1, <1>2, <1>3 DEF Counted, Full, Grown

\* SplittedFiles after testSwapFile went on to the next file.
Swapped(s, ok) ==
    [splitIndex |-> s.splitIndex + 1, currentBytes |-> 0, good |-> ok,
     opened |-> s.opened \cup (IF ok THEN {s.splitIndex + 1} ELSE {})]

\* SplittedFiles::write when the file is full then.
LEMMA OrderedSwap ==
    ASSUME NEW fs \in [Indices -> Lines], NEW s \in SplitType, NEW l \in LineType,
           NEW n \in Nat, l.era = n, Ordered(fs, s, n), NEW ok \in BOOLEAN,
           s.splitIndex + 1 \in Indices, s.currentBytes + l.size >= MaxBytes
    PROVE  Ordered(Opened(Put(fs, s, l), s.splitIndex + 1, ok), Swapped(s, ok), n)
  <1> DEFINE fs2 == Put(fs, s, l)
             fs3 == Opened(fs2, s.splitIndex + 1, ok)
             s2 == Swapped(s, ok)
             j == s.splitIndex
  <1>1. /\ s2.splitIndex = j + 1 /\ s2.currentBytes = 0 /\ s2.good = ok
        /\ s2.opened = s.opened \cup (IF ok THEN {j + 1} ELSE {})
        /\ j \in Indices /\ s.opened \subseteq Indices
        /\ s.currentBytes \in 0..(MaxBytes - 1)
    BY DEF SplitType, Swapped
  <1>2. /\ \A k \in Indices : k # j => fs2[k] = fs[k]
        /\ s.good => fs2[j] = Append(fs[j], l)
        /\ ~s.good => fs2 = fs
        /\ fs2 \in [Indices -> Lines]
    BY PutFacts
  <1>3. /\ \A k \in Indices : k # j + 1 => fs3[k] = fs2[k]
        /\ ok => fs3[j + 1] = <<>>
        /\ ~ok => fs3 = fs2
    BY <1>2 DEF Opened
  <1> HIDE DEF fs2, fs3, s2
  <1>4. /\ fs[j] \in Lines /\ j \in Nat /\ j + 1 # j
        /\ \A k \in Indices : k > j + 1 => k > j
    BY <1>1 DEF Indices
  <1>5. (s.good <=> j \in s.opened) /\ s.opened \subseteq 0..j
    BY DEF Ordered
  <1>6. ASSUME NEW k \in s.opened
        PROVE  Full(fs3[k], k) /\ OfEra(fs3[k], n)
    <2>1. /\ k # j => Full(fs[k], k)
          /\ k = j => Counted(fs[k], k, s.currentBytes)
          /\ OfEra(fs[k], n)
      BY DEF Ordered
    <2>2. k \in Indices /\ k # j + 1
      BY <1>1, <1>5, <1>4
    <2>3. CASE k # j
      BY <1>2, <1>3, <2>1, <2>2, <2>3
    <2>4. CASE k = j
      <3>1. fs3[k] = Append(fs[j], l)
        BY <1>2, <1>3, <1>5, <2>2, <2>4
      <3>2. Counted(fs[j], k, s.currentBytes) /\ OfEra(fs[j], n)
        BY <2>1, <2>4
      <3>3. OfEra(fs3[k], n)
        BY <1>4, <3>1, <3>2, ErasMore
      <3>4. Full(fs3[k], k)
        <4>1. k \in Nat
          BY <1>4, <2>4
        <4> QED
          BY <1>1, <1>4, <3>1, <3>2, <4>1, FullNow
      <3> QED
        BY <3>3, <3>4
    <2> QED
      BY <2>3, <2>4
  <1>7. ok => Counted(fs3[j + 1], j + 1, 0) /\ OfEra(fs3[j + 1], n)
             /\ UpToEra(fs3[j + 1], n)
    <2>1. Counted(<<>>, j + 1, 0)
      BY <1>4, NoBytes DEF Counted
    <2>2. OfEra(<<>>, n) /\ UpToEra(<<>>, n)
      BY DEF OfEra, UpToEra
    <2> QED
      BY <1>3, <2>1, <2>2
  <1>8. ASSUME NEW k \in Indices
        PROVE  UpToEra(fs2[k], n) /\ (k > j => BeforeEra(fs2[k], n))
    <2>1. UpToEra(fs[k], n) /\ (k > j => BeforeEra(fs[k], n))
      BY DEF Ordered
    <2>2. CASE k = j /\ s.good
      <3>1. UpToEra(fs2[k], n)
        BY <1>2, <1>4, <2>1, <2>2, ErasMore
      <3>2. ~(k > j)
        BY <1>4, <2>2
      <3> QED
        BY <3>1, <3>2
    <2>3. CASE ~(k = j /\ s.good)
      BY <1>2, <2>1, <2>3
    <2> QED
      BY <2>2, <2>3
  <1>9. ASSUME NEW k \in Indices
        PROVE  UpToEra(fs3[k], n) /\ (k > j + 1 => BeforeEra(fs3[k], n))
    <2>1. CASE k = j + 1 /\ ok
      <3>1. ~(k > j + 1)
        BY <1>4, <2>1
      <3> QED
        BY <1>7, <2>1, <3>1
    <2>2. CASE ~(k = j + 1 /\ ok)
      BY <1>3, <1>4, <1>8, <2>2
    <2> QED
      BY <2>1, <2>2
  <1>10. \A k \in s2.opened : (k \in s.opened /\ k # j + 1) \/ (ok /\ k = j + 1)
    BY <1>1, <1>4, <1>5
  <1>11. Ordered(fs3, s2, n)
    <2>1. s2.good <=> s2.splitIndex \in s2.opened
      BY <1>1, <1>4, <1>5
    <2>2. s2.opened \subseteq 0..s2.splitIndex
      BY <1>1, <1>4, <1>5
    <2>3. ASSUME NEW k \in s2.opened
          PROVE  /\ k # s2.splitIndex => Full(fs3[k], k)
                 /\ k = s2.splitIndex => Counted(fs3[k], k, s2.currentBytes)
                 /\ OfEra(fs3[k], n)
      BY <1>1, <1>6, <1>7, <1>10
    <2> QED
      BY <1>1, <1>9, <2>1, <2>2, <2>3 DEF Ordered
  <1> QED
    BY <1>11 DEF fs2, fs3, s2-----------------------------------------------------------------------------
(* A line that is written *)

\* A written line is in order behind the others of its thread.
Behind(l, log, more) ==
    \A u \in Threads : \A from, to \in Nat :
        from <= to /\ InOrder(u, log, from, to) =>
            /\ u # l.by => InOrder(u, more, from, to)
            /\ u = l.by /\ l.n = to + 1 => InOrder(u, more, from, to + 1)

LEMMA BehindMore ==
    ASSUME NEW fs, NEW more, NEW last \in Nat, NEW l \in LineType,
           LinesTo(fs, last), LinesTo(more, last),
           \A k \in 0..last : k # last => more[k] = fs[k],
           more[last] = Append(fs[last], l)
    PROVE  Behind(l, LogOf(fs, last), LogOf(more, last))
  <1>1. PICK x : /\ Extends(LogOf(fs, last), LogOf(more, last), x)
                 /\ LogOf(more, last)[x] = l
    BY LogMore
  <1> DEFINE log == LogOf(fs, last)
             new == LogOf(more, last)
  <1>2. Extends(log, new, x) /\ new[x] = l
    BY <1>1
  <1> HIDE DEF log, new
  <1>3. ASSUME NEW u \in Threads, NEW from \in Nat, NEW to \in Nat, from <= to,
               InOrder(u, log, from, to)
        PROVE  /\ u # l.by => InOrder(u, new, from, to)
               /\ u = l.by /\ l.n = to + 1 => InOrder(u, new, from, to + 1)
    <2>1. CASE u # l.by
      BY <1>2, <1>3, <2>1, OrderOther
    <2>2. CASE u = l.by /\ l.n = to + 1
      BY <1>2, <1>3, <2>2, OrderMine
    <2> QED
      BY <2>1, <2>2
  <1>4. Behind(l, log, new)
    BY <1>3 DEF Behind
  <1> QED
    BY <1>4 DEF log, new

LEMMA BehindPut ==
    ASSUME NEW fs \in [Indices -> Lines], NEW s \in SplitType, NEW l \in LineType, s.good
    PROVE  Behind(l, LogOf(fs, s.splitIndex), LogOf(Put(fs, s, l), s.splitIndex))
  <1> DEFINE j == s.splitIndex
             fs2 == Put(fs, s, l)
  <1>1. j \in Nat /\ 0..j \subseteq Indices
    BY LoggerConstants DEF SplitType, Indices
  <1>2. /\ fs2 \in [Indices -> Lines]
        /\ \A k \in Indices : k # j => fs2[k] = fs[k]
        /\ fs2[j] = Append(fs[j], l)
    BY PutFacts
  <1> HIDE DEF fs2, j
  <1>3. LinesTo(fs, j) /\ LinesTo(fs2, j)
    BY <1>1, <1>2 DEF LinesTo
  <1>4. \A k \in 0..j : k # j => fs2[k] = fs[k]
    BY <1>1, <1>2
  <1>5. Behind(l, LogOf(fs, j), LogOf(fs2, j))
    BY <1>1, <1>2, <1>3, <1>4, BehindMore
  <1> QED
    BY <1>5 DEF fs2, j

\* If every file could be opened, the log of the files goes on, too, when a
\* file is full.
LEMMA BehindSwap ==
    ASSUME NEW fs \in [Indices -> Lines], NEW s \in SplitType, NEW l \in LineType,
           s.good, s.splitIndex + 1 \in Indices
    PROVE  Behind(l, LogOf(fs, s.splitIndex),
                  LogOf(Opened(Put(fs, s, l), s.splitIndex + 1, TRUE), s.splitIndex + 1))
  <1> DEFINE j == s.splitIndex
             fs2 == Put(fs, s, l)
             fs3 == Opened(fs2, j + 1, TRUE)
  <1>1. j \in Nat /\ 0..j \subseteq Indices
    BY LoggerConstants DEF SplitType, Indices
  <1>2. fs2 \in [Indices -> Lines]
    BY PutFacts
  <1>3. fs3[j + 1] = <<>> /\ \A k \in 0..j : fs3[k] = fs2[k]
    BY <1>1, <1>2 DEF Opened
  <1>4. LinesTo(fs2, j)
    BY <1>1, <1>2 DEF LinesTo
  <1>5. Behind(l, LogOf(fs, j), LogOf(fs2, j))
    BY BehindPut
  <1> HIDE DEF fs2, fs3, j
  <1>6. LogOf(fs3, j + 1) = LogOf(fs2, j)
    BY <1>1, <1>3, <1>4, LogNext
  <1> QED
    BY <1>5, <1>6 DEF fs3, fs2, j

\* What SplittedFiles::write does.
Stays(l) ==
    /\ split.currentBytes + l.size < MaxBytes
    /\ files' = Put(files, split, l)
    /\ split' = [split EXCEPT !.currentBytes = split.currentBytes + l.size]

GoesOn(l, ok) ==
    /\ split.currentBytes + l.size >= MaxBytes
    /\ split.splitIndex + 1 \in Indices
    /\ files' = Opened(Put(files, split, l), split.splitIndex + 1, ok)
    /\ split' = Swapped(split, ok)

LEMMA WriteCases ==
    ASSUME LogType, NEW l \in LineType, NEW opens, opens \subseteq BOOLEAN,
           SplitWrite(l, opens)
    PROVE  Stays(l) \/ \E ok \in BOOLEAN : GoesOn(l, ok)
  <1>1. split.currentBytes \in 0..(MaxBytes - 1) /\ l.size \in LineSizes
    BY DEF LogType, SplitType, LineType
  <1>2. /\ split.currentBytes + l.size \in Nat
        /\ (split.currentBytes + l.size) % Width = split.currentBytes + l.size
    BY <1>1, Wraps
  <1>3. CASE (split.currentBytes + l.size) % Width < MaxBytes
    <2>1. /\ files' = Put(files, split, l)
          /\ split' = [split EXCEPT !.currentBytes =
                           (split.currentBytes + l.size) % Width]
      BY <1>3 DEF SplitWrite, Put
    <2> QED
      BY <1>2, <1>3, <2>1 DEF Stays
  <1>4. CASE ~((split.currentBytes + l.size) % Width < MaxBytes)
    <2>1. PICK ok \in opens :
            /\ split.splitIndex + 1 \in Indices
            /\ files' = Opened(Put(files, split, l), split.splitIndex + 1, ok)
            /\ split' = Swapped(split, ok)
      BY <1>4 DEF SplitWrite, Put, Swapped
    <2>2. split.currentBytes + l.size >= MaxBytes
      BY <1>2, <1>4, LoggerConstants
    <2> QED
      BY <2>1, <2>2 DEF GoesOn
  <1> QED
    BY <1>3, <1>4
LEMMA PutRight ==
    ASSUME NEW fs \in [Indices -> Lines], NEW s \in SplitType, NEW l \in LineType,
           LevelRight(l), \A k \in Indices : AllRight(fs[k]),
           NEW k \in Indices
    PROVE  AllRight(Put(fs, s, l)[k])
  <1>1. fs[k] \in Lines /\ AllRight(fs[k])
    OBVIOUS
  <1>2. CASE k = s.splitIndex /\ s.good
    <2>1. Put(fs, s, l)[k] = Append(fs[k], l)
      BY <1>2, PutFacts
    <2>2. Grown(fs[k], l, Append(fs[k], l))
      BY <1>1, MoreBytes
    <2> DEFINE f == fs[k]
               g == Append(f, l)
    <2>3. Grown(f, l, g) /\ AllRight(f) /\ Len(f) \in Nat
      BY <1>1, <2>2, LineFacts
    <2> HIDE DEF f, g
    <2>4. \A i \in 1..Len(g) : i \in 1..Len(f) \/ i = Len(f) + 1
      BY <2>3 DEF Grown
    <2>5. AllRight(g)
      BY <2>3, <2>4 DEF Grown, AllRight
    <2> QED
      BY <2>1, <2>5 DEF f, g
  <1>3. CASE ~(k = s.splitIndex /\ s.good)
    BY <1>1, <1>3, PutFacts
  <1> QED
    BY <1>2, <1>3

LEMMA EmptyRight == AllRight(<<>>)
  BY DEF AllRight

\* What SplittedFiles::write keeps, whether or not it goes on to a new file.
LEMMA WriteKeeps ==
    ASSUME LogType, NEW l \in LineType, Stays(l) \/ \E ok \in BOOLEAN : GoesOn(l, ok)
    PROVE  /\ files' \in [Indices -> Lines] /\ split' \in SplitType
           /\ LevelRight(l) /\ (\A k \in Indices : AllRight(files[k])) =>
                \A k \in Indices : AllRight(files'[k])
           /\ \A n \in Nat : l.era = n /\ Ordered(files, split, n) => Ordered(files', split', n)
  <1>1. /\ files \in [Indices -> Lines] /\ split \in SplitType
        /\ MaxBytes \in Nat \ {0}
    BY LoggerConstants DEF LogType
  <1>2. Put(files, split, l) \in [Indices -> Lines]
    BY <1>1, PutFacts
  <1>3. CASE Stays(l)
    <2>1. split.currentBytes + l.size \in 0..(MaxBytes - 1)
      BY <1>1, <1>3, LoggerConstants DEF Stays, SplitType, LineType, LineSizes
    <2>2. split' \in SplitType
      BY <1>1, <1>3, <2>1 DEF Stays, SplitType
    <2>3. files' \in [Indices -> Lines]
      BY <1>2, <1>3 DEF Stays
    <2>4. LevelRight(l) /\ (\A k \in Indices : AllRight(files[k])) =>
            \A k \in Indices : AllRight(files'[k])
      BY <1>1, <1>3, PutRight DEF Stays
    <2>5. ASSUME NEW n \in Nat, l.era = n, Ordered(files, split, n)
          PROVE  Ordered(files', split', n)
      <3>1. split.currentBytes + l.size \in Nat
        BY <1>1, <2>1
      <3>2. Ordered(Put(files, split, l),
                    [split EXCEPT !.currentBytes = split.currentBytes + l.size], n)
        BY <1>1, <2>5, <3>1, OrderedWrite
      <3> QED
        BY <1>3, <3>2, Zenon DEF Stays
    <2> QED
      BY <2>2, <2>3, <2>4, <2>5
  <1>4. CASE \E ok \in BOOLEAN : GoesOn(l, ok)
    <2>1. PICK ok \in BOOLEAN : GoesOn(l, ok)
      BY <1>4
    <2> DEFINE j == split.splitIndex + 1
               fs == Put(files, split, l)
    <2>2. j \in Indices /\ files' = Opened(fs, j, ok) /\ split' = Swapped(split, ok)
      BY <2>1 DEF GoesOn
    <2>3. split' \in SplitType
      BY <1>1, <2>2, LoggerConstants DEF SplitType, Swapped
    <2>4. \A k \in Indices : files'[k] = fs[k] \/ files'[k] = <<>>
      BY <1>2, <2>2 DEF Opened
    <2>5. files' \in [Indices -> Lines]
      BY <1>2, <2>2, NoBytes DEF Opened
    <2>6. LevelRight(l) /\ (\A k \in Indices : AllRight(files[k])) =>
            \A k \in Indices : AllRight(files'[k])
      BY <1>1, <2>4, PutRight, EmptyRight
    <2>7. ASSUME NEW n \in Nat, l.era = n, Ordered(files, split, n)
          PROVE  Ordered(files', split', n)
      <3>1. Ordered(Opened(fs, j, ok), Swapped(split, ok), n)
        BY <1>1, <2>1, <2>7, OrderedSwap DEF GoesOn
      <3> QED
        BY <2>2, <3>1, Zenon
    <2> QED
      BY <2>3, <2>5, <2>6, <2>7
  <1> QED
    BY <1>3, <1>4

\* As long as every file could be opened, the written line is in order.
LEMMA WriteBehind ==
    ASSUME LogType, NEW l \in LineType, Stays(l) \/ \E ok \in BOOLEAN : GoesOn(l, ok),
           FilesInv, split'.opened = 0..split'.splitIndex
    PROVE  /\ split.opened = 0..split.splitIndex
           /\ Behind(l, FileLog, FileLog')
  <1>1. /\ files \in [Indices -> Lines] /\ split \in SplitType
        /\ split.splitIndex \in Nat
    BY LoggerConstants DEF LogType, SplitType, Indices
  <1>2. /\ split.good <=> split.splitIndex \in split.opened
        /\ split.opened \subseteq 0..split.splitIndex
    BY DEF FilesInv, Ordered
  <1>3. FileLog' = LogOf(files', split'.splitIndex)
    BY DEF FileLog, LogOf
  <1>4. CASE Stays(l)
    <2>1. /\ split'.splitIndex = split.splitIndex /\ split'.opened = split.opened
          /\ files' = Put(files, split, l)
      BY <1>1, <1>4 DEF Stays, SplitType
    <2>2. split.good /\ split.opened = 0..split.splitIndex
      BY <1>1, <1>2, <2>1
    <2>3. Behind(l, LogOf(files, split.splitIndex),
                    LogOf(Put(files, split, l), split.splitIndex))
      BY <1>1, <2>2, BehindPut
    <2> QED
      BY <1>3, <2>1, <2>2, <2>3 DEF FileLog
  <1>5. CASE \E ok \in BOOLEAN : GoesOn(l, ok)
    <2>1. PICK ok \in BOOLEAN : GoesOn(l, ok)
      BY <1>5
    <2> DEFINE j == split.splitIndex
    <2>2. /\ split'.splitIndex = j + 1
          /\ split'.opened = split.opened \cup (IF ok THEN {j + 1} ELSE {})
          /\ j + 1 \in Indices
          /\ files' = Opened(Put(files, split, l), j + 1, ok)
      BY <2>1 DEF GoesOn, Swapped
    <2>3. split.opened \cup (IF ok THEN {j + 1} ELSE {}) = 0..(j + 1)
      BY <2>2
    <2>4. j \in Nat /\ split.opened \subseteq 0..j
      BY <1>1, <1>2
    <2>5. ok = TRUE
      BY <2>3, <2>4
    <2>6. split.opened = 0..j
      <3>1. ASSUME NEW x \in 0..j PROVE x \in split.opened
        <4>1. x \in 0..(j + 1) /\ x # j + 1
          BY <2>4
        <4> QED
          BY <2>3, <2>5, <4>1
      <3> QED
        BY <2>4, <3>1
    <2>7. split.good
      BY <1>2, <2>4, <2>6
    <2>8. Behind(l, LogOf(files, j), LogOf(Opened(Put(files, split, l), j + 1, TRUE), j + 1))
      BY <1>1, <2>2, <2>7, BehindSwap
    <2> QED
      BY <1>3, <2>2, <2>5, <2>6, <2>8, Zenon DEF FileLog
  <1> QED
    BY <1>4, <1>5-----------------------------------------------------------------------------
(* A new logger *)

\* The files and the fields of a logger that setup_logger has made in era n.
Fresh0(fs, s, n) ==
    /\ fs \in [Indices -> Lines] /\ s \in SplitType
    /\ \A k \in Indices : AllRight(fs[k])
    /\ Ordered(fs, s, n)
    /\ s.opened = 0..s.splitIndex =>
        \A p \in DOMAIN LogOf(fs, s.splitIndex) :
            LogOf(fs, s.splitIndex)[p].by = "main"

LEMMA BannerFacts ==
    ASSUME NEW n \in Nat
    PROVE  /\ Banner(n) \in LineType /\ LevelRight(Banner(n))
           /\ Banner(n).era = n /\ Banner(n).by = "main" /\ Banner(n).size = 1
           /\ <<Banner(n)>> \in Lines
  <1>1. 1 \in LineSizes
    BY LoggerConstants DEF LineSizes
  <1>2. Banner(n) \in LineType
    BY <1>1 DEF Banner, LineType, Levels
  <1> QED
    BY <1>2 DEF Banner, LevelRight, Lines

OnlyBanner(f, n) == Len(f) = 1 /\ f[1] = Banner(n) /\ f # <<>> /\ f \in Lines

LEMMA OnlyBannerFacts ==
    ASSUME NEW n \in Nat, NEW f, OnlyBanner(f, n)
    PROVE  /\ AllRight(f) /\ OfEra(f, n) /\ UpToEra(f, n) /\ Full(f, 0)
           /\ \A b \in Nat : Counted(f, 0, b)
  <1>1. \A i \in 1..Len(f) : f[i] = Banner(n)
    BY DEF OnlyBanner
  <1>2. Bytes(f, Len(f)) = f[1].size
    <2>1. Sized(f) /\ Len(f) = 1 /\ 1 \in 1..Len(f)
      BY LineFacts DEF OnlyBanner
    <2>2. Bytes(f, 0) = 0 /\ Bytes(f, 1) = Bytes(f, 1 - 1) + f[1].size
      BY <2>1, BytesSteps
    <2>3. 1 - 1 = 0 /\ f[1].size \in Nat
      BY <2>1 DEF Sized
    <2>4. Bytes(f, 1) = 0 + f[1].size
      BY <2>2, <2>3
    <2> QED
      BY <2>1, <2>3, <2>4
  <1>3. f[1].size = 1 /\ f[1].era = n /\ LevelRight(f[1])
    BY BannerFacts DEF OnlyBanner
  <1>4. /\ AllRight(f) /\ OfEra(f, n) /\ UpToEra(f, n)
    <2>1. \A i \in 1..Len(f) : f[i] = f[1]
      BY <1>1 DEF OnlyBanner
    <2> QED
      BY <1>3, <2>1 DEF AllRight, OfEra, UpToEra
  <1>5. Full(f, 0)
    BY DEF Full, OnlyBanner
  <1>6. \A b \in Nat : Counted(f, 0, b)
    BY <1>2, <1>3 DEF Counted, OnlyBanner
  <1> QED
    BY <1>4, <1>5, <1>6

OlderFiles(fs, n) ==
    /\ fs \in [Indices -> Lines]
    /\ \A k \in Indices : AllRight(fs[k]) /\ BeforeEra(fs[k], n)

LEMMA MainOnly ==
    ASSUME NEW fs, NEW last \in Nat, LinesTo(fs, last),
           \A k \in 0..last : \A i \in 1..Len(fs[k]) : fs[k][i].by = "main"
    PROVE  \A p \in DOMAIN LogOf(fs, last) : LogOf(fs, last)[p].by = "main"
  <1> SUFFICES ASSUME NEW p \in DOMAIN LogOf(fs, last)
               PROVE  LogOf(fs, last)[p].by = "main"
    OBVIOUS
  <1>1. Places(fs, last, LogOf(fs, last))
    BY LogFacts
  <1>2. PICK k \in 0..last : \E i \in 1..Len(fs[k]) : p = <<k, i>>
    BY <1>1 DEF Places
  <1>3. PICK i \in 1..Len(fs[k]) : p = <<k, i>>
    BY <1>2
  <1>4. LogOf(fs, last)[p] = fs[k][i]
    BY <1>1, <1>3 DEF Places
  <1> QED
    BY <1>4

\* Its first file, and the counter after the line that goes only to it.
LEMMA FreshFirst ==
    ASSUME NEW n \in Nat, NEW fs, NEW first, NEW ok \in BOOLEAN, NEW b \in 0..(MaxBytes - 1),
           OlderFiles(fs, n), first \in [Indices -> Lines],
           \A k \in Indices : k # 0 => first[k] = fs[k],
           IF ok THEN OnlyBanner(first[0], n) ELSE first = fs
    PROVE  Fresh0(first, [splitIndex |-> 0, currentBytes |-> b, good |-> ok,
                          opened |-> IF ok THEN {0} ELSE {}], n)
  <1> DEFINE s == [splitIndex |-> 0, currentBytes |-> b, good |-> ok,
                   opened |-> IF ok THEN {0} ELSE {}]
  <1>1. /\ s.splitIndex = 0 /\ s.currentBytes = b /\ s.good = ok
        /\ s.opened = (IF ok THEN {0} ELSE {})
        /\ s \in SplitType /\ 0 \in Indices /\ b \in Nat
    BY LoggerConstants DEF SplitType, Indices
  <1> HIDE DEF s
  <1>2. ASSUME NEW k \in Indices
        PROVE  /\ AllRight(first[k]) /\ UpToEra(first[k], n)
               /\ k > 0 => BeforeEra(first[k], n)
    <2>1. CASE k = 0 /\ ok
      <3>1. OnlyBanner(first[k], n)
        BY <2>1
      <3>2. AllRight(first[k]) /\ UpToEra(first[k], n)
        BY <3>1, OnlyBannerFacts
      <3> QED
        BY <2>1, <3>2
    <2>2. CASE ~(k = 0 /\ ok)
      <3>1. first[k] = fs[k]
        BY <2>2
      <3>2. AllRight(fs[k]) /\ BeforeEra(fs[k], n) /\ fs[k] \in Lines
        BY DEF OlderFiles
      <3>3. UpToEra(fs[k], n)
        BY <3>2, LineFacts DEF BeforeEra, UpToEra, LineType
      <3> QED
        BY <3>1, <3>2, <3>3
    <2> QED
      BY <2>1, <2>2
  <1>3. ok => Counted(first[0], 0, b) /\ OfEra(first[0], n)
    BY <1>1, OnlyBannerFacts
  <1>4. Ordered(first, s, n)
    BY <1>1, <1>2, <1>3 DEF Ordered
  <1>5. ASSUME ok, NEW p \in DOMAIN LogOf(first, 0)
        PROVE  LogOf(first, 0)[p].by = "main"
    <2>1. LinesTo(first, 0)
      BY <1>1 DEF LinesTo
    <2>2. ASSUME NEW k \in 0..0, NEW i \in 1..Len(first[k])
          PROVE  first[k][i].by = "main"
      <3>1. k = 0 /\ OnlyBanner(first[0], n)
        BY <1>5
      <3>2. first[k][i] = Banner(n)
        BY <3>1 DEF OnlyBanner
      <3> QED
        BY <3>2 DEF Banner
    <2> QED
      BY <1>5, <2>1, <2>2, MainOnly
  <1>6. s.opened = 0..s.splitIndex => ok
    <2>1. 0 \in 0..0
      OBVIOUS
    <2> QED
      BY <1>1, <2>1
  <1>7. Fresh0(first, s, n)
    BY <1>1, <1>2, <1>4, <1>5, <1>6 DEF Fresh0
  <1> QED
    BY <1>7 DEF s
\* The file after it, if the counter was at its limit from the beginning.
LEMMA FreshSecond ==
    ASSUME NEW n \in Nat, NEW fs, NEW first, NEW ok \in BOOLEAN, NEW ok1 \in BOOLEAN,
           OlderFiles(fs, n), first \in [Indices -> Lines],
           \A k \in Indices : k # 0 => first[k] = fs[k],
           IF ok THEN OnlyBanner(first[0], n) ELSE first = fs
    PROVE  Fresh0(Opened(first, 1, ok1),
                  [splitIndex |-> 1, currentBytes |-> 0, good |-> ok1,
                   opened |-> (IF ok THEN {0} ELSE {}) \cup (IF ok1 THEN {1} ELSE {})], n)
  <1> DEFINE s == [splitIndex |-> 1, currentBytes |-> 0, good |-> ok1,
                   opened |-> (IF ok THEN {0} ELSE {}) \cup (IF ok1 THEN {1} ELSE {})]
             s0 == [splitIndex |-> 0, currentBytes |-> 0, good |-> ok,
                    opened |-> IF ok THEN {0} ELSE {}]
             second == Opened(first, 1, ok1)
  <1>1. /\ s.splitIndex = 1 /\ s.currentBytes = 0 /\ s.good = ok1
        /\ s.opened = (IF ok THEN {0} ELSE {}) \cup (IF ok1 THEN {1} ELSE {})
        /\ s \in SplitType /\ 0 \in Indices /\ 1 \in Indices
    BY LoggerConstants DEF SplitType, Indices
  <1>2. /\ \A k \in Indices : k # 1 => second[k] = first[k]
        /\ ok1 => second[1] = <<>>
        /\ ~ok1 => second = first
        /\ second \in [Indices -> Lines]
    BY <1>1, NoBytes DEF Opened
  <1>3. Fresh0(first, s0, n)
    <2>1. 0 \in 0..(MaxBytes - 1)
      BY LoggerConstants
    <2> QED
      BY <2>1, FreshFirst
  <1>4. s0.splitIndex = 0
    OBVIOUS
  <1> HIDE DEF s, s0, second
  <1>5. \A k \in Indices : /\ AllRight(first[k]) /\ UpToEra(first[k], n)
                           /\ k > 0 => BeforeEra(first[k], n)
    BY <1>3, <1>4 DEF Fresh0, Ordered
  <1>6. AllRight(<<>>) /\ UpToEra(<<>>, n) /\ OfEra(<<>>, n) /\ Counted(<<>>, 1, 0)
    BY NoBytes DEF AllRight, UpToEra, OfEra, Counted
  <1>7. ASSUME NEW k \in Indices
        PROVE  /\ AllRight(second[k]) /\ UpToEra(second[k], n)
               /\ k > 1 => BeforeEra(second[k], n)
    <2>1. CASE k = 1 /\ ok1
      <3>1. ~(k > 1)
        BY <2>1
      <3> QED
        BY <1>2, <1>6, <2>1, <3>1
    <2>2. CASE ~(k = 1 /\ ok1)
      <3>1. second[k] = first[k]
        BY <1>2, <2>2
      <3>2. k > 1 => k > 0
        BY DEF Indices
      <3> QED
        BY <1>5, <3>1, <3>2
    <2> QED
      BY <2>1, <2>2
  <1>8. ok => Full(second[0], 0) /\ OfEra(second[0], n)
    BY <1>1, <1>2, OnlyBannerFacts
  <1>9. ok1 => Counted(second[1], 1, 0) /\ OfEra(second[1], n)
    BY <1>2, <1>6
  <1>10. Ordered(second, s, n)
    <2>1. (s.good <=> s.splitIndex \in s.opened) /\ s.opened \subseteq 0..s.splitIndex
      BY <1>1
    <2>2. ASSUME NEW k \in s.opened
          PROVE  /\ k # s.splitIndex => Full(second[k], k)
                 /\ k = s.splitIndex => Counted(second[k], k, s.currentBytes)
                 /\ OfEra(second[k], n)
      <3>1. (k = 0 /\ ok) \/ (k = 1 /\ ok1)
        BY <1>1
      <3> QED
        BY <1>1, <1>8, <1>9, <3>1
    <2> QED
      BY <1>1, <1>7, <2>1, <2>2 DEF Ordered
  <1>11. ASSUME s.opened = 0..s.splitIndex
         PROVE  \A p \in DOMAIN LogOf(second, 1) : LogOf(second, 1)[p].by = "main"
    <2>1. ok /\ ok1
      <3>1. 0 \in 0..1 /\ 1 \in 0..1
        OBVIOUS
      <3> QED
        BY <1>1, <1>11, <3>1
    <2>2. LinesTo(second, 1)
      BY <1>1, <1>2 DEF LinesTo, Indices
    <2>3. ASSUME NEW k \in 0..1, NEW i \in 1..Len(second[k])
          PROVE  second[k][i].by = "main"
      <3>1. k # 1
        <4>1. second[1] = <<>> /\ 1..Len(<<>>) = {}
          BY <1>2, <2>1, NoBytes
        <4> QED
          BY <4>1
      <3>2. k = 0 /\ OnlyBanner(first[0], n) /\ second[0] = first[0]
        BY <1>1, <1>2, <2>1, <3>1
      <3>3. second[k][i] = Banner(n)
        BY <3>2 DEF OnlyBanner
      <3> QED
        BY <3>3 DEF Banner
    <2> QED
      BY <2>2, <2>3, MainOnly
  <1>12. Fresh0(second, s, n)
    BY <1>1, <1>2, <1>7, <1>10, <1>11 DEF Fresh0
  <1> QED
    BY <1>12 DEF s, second

LEMMA FreshFacts ==
    ASSUME NEW n \in Nat, NEW fs, OlderFiles(fs, n), NEW opens, opens \subseteq BOOLEAN,
           NEW counts, counts \subseteq Nat, NEW f \in FreshFiles(fs, n, opens, counts)
    PROVE  Fresh0(f.files, f.split, n)
  <1>1. PICK ok \in opens, count \in counts : f \in FreshFile(fs, n, ok, count, opens)
    BY DEF FreshFiles
  <1> DEFINE bytes == (count + Banner(n).size) % Width
             first == IF ok THEN [Opened(fs, 0, ok) EXCEPT ![0] = Append(@, Banner(n))]
                      ELSE fs
             opened == IF ok THEN {0} ELSE {}
  <1>2. bytes \in Nat
    <2>1. count + 1 \in Nat /\ Width \in Nat \ {0}
      BY LoggerConstants
    <2>2. Banner(n).size = 1
      BY BannerFacts
    <2> QED
      BY <2>1, <2>2
  <1>3. /\ first \in [Indices -> Lines]
        /\ \A k \in Indices : k # 0 => first[k] = fs[k]
        /\ IF ok THEN OnlyBanner(first[0], n) ELSE first = fs
    <2>1. 0 \in Indices /\ fs \in [Indices -> Lines]
      BY LoggerConstants DEF OlderFiles, Indices
    <2>2. OnlyBanner(Append(<<>>, Banner(n)), n)
      <3>1. Banner(n) \in LineType
        BY BannerFacts
      <3>2. Grown(<<>>, Banner(n), Append(<<>>, Banner(n)))
        BY <3>1, NoBytes, MoreBytes
      <3> QED
        BY <3>2, NoBytes DEF Grown, OnlyBanner
    <2>3. CASE ok
      <3>1. first = [fs EXCEPT ![0] = Append(<<>>, Banner(n))]
        BY <2>1, <2>3 DEF Opened
      <3> QED
        BY <2>1, <2>2, <2>3, <3>1 DEF OnlyBanner
    <2>4. CASE ~ok
      BY <2>1, <2>4
    <2> QED
      BY <2>3, <2>4
  <1>4. CASE bytes < MaxBytes
    <2>1. bytes \in 0..(MaxBytes - 1)
      BY <1>2, <1>4, LoggerConstants
    <2>2. /\ f.files = first
          /\ f.split = [splitIndex |-> 0, currentBytes |-> bytes, good |-> ok,
                        opened |-> IF ok THEN {0} ELSE {}]
      BY <1>1, <1>4 DEF FreshFile
    <2> HIDE DEF bytes, first
    <2>3. Fresh0(first, [splitIndex |-> 0, currentBytes |-> bytes, good |-> ok,
                         opened |-> IF ok THEN {0} ELSE {}], n)
      BY <1>3, <2>1, FreshFirst
    <2> QED
      BY <2>2, <2>3, Zenon
  <1>5. CASE ~(bytes < MaxBytes)
    <2> DEFINE two(ok1) == [files |-> Opened(first, 1, ok1),
                            split |-> [splitIndex |-> 1, currentBytes |-> 0, good |-> ok1,
                                       opened |-> opened \cup (IF ok1 THEN {1} ELSE {})]]
    <2>3. f \in {two(ok1) : ok1 \in opens}
      BY <1>1, <1>5, Zenon DEF FreshFile
    <2>4. PICK ok1 \in opens : f = two(ok1)
      BY <2>3, Zenon
    <2>1. /\ f.files = Opened(first, 1, ok1)
          /\ f.split = [splitIndex |-> 1, currentBytes |-> 0, good |-> ok1,
                        opened |-> opened \cup (IF ok1 THEN {1} ELSE {})]
      BY <2>4
    <2> HIDE DEF bytes, first
    <2>2. Fresh0(Opened(first, 1, ok1),
                 [splitIndex |-> 1, currentBytes |-> 0, good |-> ok1,
                  opened |-> (IF ok THEN {0} ELSE {}) \cup (IF ok1 THEN {1} ELSE {})], n)
      BY <1>3, FreshSecond
    <2> QED
      BY <2>1, <2>2, Zenon
  <1> QED
    BY <1>4, <1>5-----------------------------------------------------------------------------
(* The steps *)

\* What KeptInv says of a thread.
Keeps(t, consoleLog, fileLog, s, since, toConsole, toFile) ==
    /\ InOrder(t, consoleLog, 0, toConsole)
    /\ s.opened = 0..s.splitIndex => InOrder(t, fileLog, since, toFile)

LEMMA KeptNow ==
    KeptInv <=> \A t \in Threads :
        Keeps(t, ConsoleLog, FileLog, split, era.since[t],
              Written(t, "console"), Written(t, "file"))
  BY DEF KeptInv, Keeps

LEMMA KeptNext ==
    ASSUME \A t \in Threads :
        Keeps(t, ConsoleLog', FileLog', split', era.since[t]',
              Written(t, "console")', Written(t, "file")')
    PROVE  KeptInv'
  BY DEF KeptInv, Keeps, InOrder
\* A step that writes nothing.
LEMMA NothingWritten ==
    ASSUME LogInv, LogType', \A u \in Threads : StatementInv(u)',
           UNCHANGED <<console, files, split, era>>,
           \A u \in Threads : Written(u, "console")' = Written(u, "console")
                              /\ Written(u, "file")' = Written(u, "file")
    PROVE  LogInv'
  <1>1. ConsoleLog' = ConsoleLog /\ FileLog' = FileLog
    BY DEF ConsoleLog, FileLog, LogOf
  <1>2. KeptInv'
    <2>1. ASSUME NEW u \in Threads
          PROVE  Keeps(u, ConsoleLog', FileLog', split', era.since[u]',
                       Written(u, "console")', Written(u, "file")')
      <3>1. Keeps(u, ConsoleLog, FileLog, split, era.since[u],
                  Written(u, "console"), Written(u, "file"))
        BY KeptNow DEF LogInv
      <3> QED
        BY <1>1, <3>1
    <2> QED
      BY <2>1, KeptNext
  <1>3. LevelsInv'
    BY DEF LogInv, LevelsInv, AllRight, LevelRight
  <1>4. FilesInv'
    BY DEF LogInv, FilesInv, Ordered
  <1> QED
    BY <1>2, <1>3, <1>4 DEF LogInv

LEMMA NoCallFacts ==
    /\ NoCall \in CallType /\ NoCall.phase = "none" /\ NoCall.todo = {}
    /\ \A s \in LineSizes :
        [NoCall EXCEPT !.phase = "text", !.want = "info", !.size = s] \in CallType
  <1>1. 0 \in LineSizes
    BY LoggerConstants DEF LineSizes
  <1> QED
    BY <1>1 DEF NoCall, CallType, Levels, Targets

\* What another thread's step does to a statement: nothing but raced.
LEMMA DisturbedFacts ==
    ASSUME LogType, NEW t \in Threads, NEW c \in CallType
    PROVE  LET d == [Disturbed(t) EXCEPT ![t] = c]
           IN  /\ d \in [Threads -> CallType] /\ d[t] = c
               /\ \A u \in Threads : u # t =>
                   /\ call[u].phase = "text" => d[u] = [call[u] EXCEPT !.raced = TRUE]
                   /\ call[u].phase # "text" => d[u] = call[u]
  <1>1. call \in [Threads -> CallType]
    BY DEF LogType
  <1>2. \A u \in Threads : [call[u] EXCEPT !.raced = TRUE] \in CallType
    BY <1>1 DEF CallType
  <1> QED
    BY <1>1, <1>2 DEF Disturbed

\* The statement of a thread at the step of another.
LEMMA OtherStatement ==
    ASSUME LogType, NEW u \in Threads, StatementInv(u),
           said'[u] = said[u], UNCHANGED era,
           \/ call[u].phase = "text" /\ call'[u] = [call[u] EXCEPT !.raced = TRUE]
           \/ call[u].phase # "text" /\ call'[u] = call[u]
    PROVE  /\ StatementInv(u)'
           /\ Written(u, "console")' = Written(u, "console")
           /\ Written(u, "file")' = Written(u, "file")
  <1>1. call[u] \in CallType
    BY DEF LogType
  <1>2. CASE call[u].phase = "text" /\ call'[u] = [call[u] EXCEPT !.raced = TRUE]
    <2>1. /\ call'[u].phase = "text" /\ call'[u].todo = call[u].todo
          /\ call'[u].want = call[u].want /\ call'[u].raced
      BY <1>1, <1>2 DEF CallType
    <2>2. StatementInv(u)'
      BY <1>2, <2>1 DEF StatementInv
    <2> QED
      BY <1>2, <2>1, <2>2 DEF Written
  <1>3. CASE call[u].phase # "text" /\ call'[u] = call[u]
    <2>1. LevelRight(call[u])' <=> LevelRight(call[u])
      BY <1>3 DEF LevelRight
    <2>2. StatementInv(u)'
      BY <1>3, <2>1 DEF StatementInv
    <2> QED
      BY <1>3, <2>2 DEF Written
  <1> QED
    BY <1>2, <1>3

LEMMA LogCallKeeps ==
    ASSUME LogInv, NEW t \in Threads, NEW size \in LineSizes, LogCall(t, "info", size)
    PROVE  LogInv'
  <1> DEFINE c == [NoCall EXCEPT !.phase = "text", !.want = "info", !.size = size]
  <1>1. /\ LogType /\ call[t].phase = "none"
        /\ defLogType' = "info" /\ said' = [said EXCEPT ![t] = @ + 1]
        /\ call' = [Disturbed(t) EXCEPT ![t] = c]
        /\ UNCHANGED <<console, files, split, era>>
    BY DEF LogInv, LogCall
  <1>2. c \in CallType /\ c.phase = "text" /\ c.want = "info" /\ c.todo = {}
    BY NoCallFacts DEF NoCall
  <1> HIDE DEF c
  <1>3. /\ call' \in [Threads -> CallType] /\ call'[t] = c
        /\ \A u \in Threads : u # t =>
            /\ call[u].phase = "text" => call'[u] = [call[u] EXCEPT !.raced = TRUE]
            /\ call[u].phase # "text" => call'[u] = call[u]
    BY <1>1, <1>2, DisturbedFacts
  <1>4. /\ said \in [Threads -> Nat] /\ era.since[t] \in Nat
        /\ said' \in [Threads -> Nat] /\ said'[t] = said[t] + 1
        /\ \A u \in Threads : u # t => said'[u] = said[u]
    BY <1>1 DEF LogType
  <1>5. LogType'
    BY <1>1, <1>3, <1>4 DEF LogType, Levels
  <1>6. ASSUME NEW u \in Threads
        PROVE  /\ StatementInv(u)'
               /\ Written(u, "console")' = Written(u, "console")
               /\ Written(u, "file")' = Written(u, "file")
    <2>1. StatementInv(u)
      BY DEF LogInv
    <2>2. CASE u # t
      BY <1>1, <1>3, <1>4, <2>1, <2>2, OtherStatement
    <2>3. CASE u = t
      <3>1. StatementInv(t)'
        BY <1>1, <1>2, <1>3, <1>4, <2>1, <2>3 DEF StatementInv
      <3>2. call[t].todo = {}
        BY <1>1, <2>1, <2>3 DEF StatementInv
      <3>3. \A x : Written(t, x)' = said'[t] - 1 /\ Written(t, x) = said[t]
        BY <1>1, <1>2, <1>3, <3>2 DEF Written
      <3> QED
        BY <1>4, <2>3, <3>1, <3>3
    <2> QED
      BY <2>2, <2>3
  <1> QED
    BY <1>1, <1>5, <1>6, NothingWritten
LEMMA EndLogKeeps ==
    ASSUME LogInv, NEW t \in Threads, EndLog(t)
    PROVE  LogInv'
  <1>1. /\ LogType /\ call[t].phase = "text" /\ StatementInv(t)
        /\ call' = [call EXCEPT ![t].phase = "out", ![t].level = defLogType,
                                ![t].todo = Targets]
        /\ UNCHANGED <<defLogType, console, files, split, said, era>>
    BY DEF LogInv, EndLog
  <1>2. /\ call \in [Threads -> CallType] /\ call[t] \in CallType
        /\ defLogType \in Levels
    BY <1>1 DEF LogType
  <1>3. /\ call'[t] \in CallType /\ call' \in [Threads -> CallType]
        /\ call'[t].phase = "out" /\ call'[t].level = defLogType
        /\ call'[t].todo = Targets /\ call'[t].want = call[t].want
        /\ call'[t].raced = call[t].raced
        /\ \A u \in Threads : u # t => call'[u] = call[u]
    BY <1>1, <1>2 DEF CallType
  <1>4. LogType'
    BY <1>1, <1>3 DEF LogType
  <1>5. ASSUME NEW u \in Threads
        PROVE  /\ StatementInv(u)'
               /\ Written(u, "console")' = Written(u, "console")
               /\ Written(u, "file")' = Written(u, "file")
    <2>1. StatementInv(u)
      BY DEF LogInv
    <2>2. CASE u # t
      <3>1. call'[u] = call[u]
        BY <1>3, <2>2
      <3> QED
        BY <1>1, <2>1, <3>1 DEF StatementInv, LevelRight, Written
    <2>3. CASE u = t
      <3>1. LevelRight(call'[t])
        BY <1>1, <1>2, <1>3 DEF StatementInv, LevelRight, Levels
      <3>2. StatementInv(t)'
        <4>1. LevelRight(call[t])'
          BY <3>1 DEF LevelRight
        <4> QED
          BY <1>1, <1>3, <4>1 DEF StatementInv
      <3>3. \A x \in Targets : Written(t, x)' = Written(t, x)
        BY <1>1, <1>3 DEF Written
      <3> QED
        BY <2>3, <3>2, <3>3 DEF Targets
    <2> QED
      BY <2>2, <2>3
  <1> QED
    BY <1>1, <1>4, <1>5, NothingWritten

LEMMA LogReturnKeeps ==
    ASSUME LogInv, NEW t \in Threads, LogReturn(t)
    PROVE  LogInv'
  <1>1. /\ LogType /\ call[t].phase = "out" /\ call[t].todo = {} /\ StatementInv(t)
        /\ defLogType' = "trace"
        /\ call' = [Disturbed(t) EXCEPT ![t] = NoCall]
        /\ UNCHANGED <<console, files, split, said, era>>
    BY DEF LogInv, LogReturn
  <1>2. NoCall \in CallType /\ NoCall.phase = "none" /\ NoCall.todo = {}
    BY NoCallFacts
  <1>3. /\ call' \in [Threads -> CallType] /\ call'[t] = NoCall
        /\ \A u \in Threads : u # t =>
            /\ call[u].phase = "text" => call'[u] = [call[u] EXCEPT !.raced = TRUE]
            /\ call[u].phase # "text" => call'[u] = call[u]
    BY <1>1, <1>2, DisturbedFacts
  <1>4. LogType'
    BY <1>1, <1>3 DEF LogType, Levels
  <1>5. ASSUME NEW u \in Threads
        PROVE  /\ StatementInv(u)'
               /\ Written(u, "console")' = Written(u, "console")
               /\ Written(u, "file")' = Written(u, "file")
    <2>1. StatementInv(u)
      BY DEF LogInv
    <2>2. CASE u # t
      BY <1>1, <1>3, <2>1, <2>2, OtherStatement
    <2>3. CASE u = t
      <3>1. StatementInv(t)'
        BY <1>1, <1>2, <1>3 DEF StatementInv
      <3>2. \A x : Written(t, x)' = said[t] /\ Written(t, x) = said[t]
        BY <1>1, <1>2, <1>3 DEF Written
      <3> QED
        BY <2>3, <3>1, <3>2
    <2> QED
      BY <2>2, <2>3
  <1> QED
    BY <1>1, <1>4, <1>5, NothingWritten

\* The line of a statement that is being written.
LEMMA LineNow ==
    ASSUME LogInv, NEW t \in Threads, call[t].todo # {}
    PROVE  /\ Line(t) \in LineType /\ LevelRight(Line(t))
           /\ Line(t).by = t /\ Line(t).n = said[t] /\ Line(t).era = era.n
           /\ said[t] - 1 \in Nat /\ era.since[t] \in Nat /\ era.since[t] <= said[t] - 1
           /\ said[t] = said[t] - 1 + 1 /\ call[t].phase = "out"
  <1>1. LogType /\ StatementInv(t)
    BY DEF LogInv
  <1>2. /\ call[t] \in CallType /\ said[t] \in Nat /\ era.since[t] \in Nat
        /\ era.n \in Nat
    BY <1>1 DEF LogType
  <1>3. /\ call[t].phase = "out" /\ LevelRight(call[t]) /\ era.since[t] < said[t]
    BY <1>1, <1>2 DEF StatementInv, CallType
  <1>4. Line(t) \in LineType
    BY <1>2 DEF Line, LineType, CallType
  <1>5. LevelRight(Line(t))
    BY <1>3 DEF Line, LevelRight
  <1> QED
    BY <1>2, <1>3, <1>4, <1>5 DEF Line

Unwritten(u, y) == Written(u, y)' = Written(u, y)

\* What a thread that has written to target x has still to do.
LEMMA TargetDone ==
    ASSUME LogInv, NEW t \in Threads, NEW x \in Targets, x \in call[t].todo,
           call' = [call EXCEPT ![t].todo = @ \ {x}], UNCHANGED <<defLogType, said, era>>
    PROVE  /\ call' \in [Threads -> CallType]
           /\ \A u \in Threads : StatementInv(u)'
           /\ Written(t, x) = said[t] - 1 /\ Written(t, x)' = said[t]
           /\ \A u \in Threads, y \in Targets :
                u # t \/ y # x => Unwritten(u, y)
  <1>1. /\ call \in [Threads -> CallType] /\ call[t] \in CallType
        /\ call[t].phase = "out"
    BY LineNow DEF LogInv, LogType
  <1>2. /\ call'[t] \in CallType /\ call' \in [Threads -> CallType]
        /\ call'[t].phase = "out" /\ call'[t].todo = call[t].todo \ {x}
        /\ call'[t].level = call[t].level /\ call'[t].want = call[t].want
        /\ call'[t].raced = call[t].raced
        /\ \A u \in Threads : u # t => call'[u] = call[u]
    BY <1>1 DEF CallType
  <1>3. ASSUME NEW u \in Threads PROVE StatementInv(u)'
    <2>1. StatementInv(u)
      BY DEF LogInv
    <2>2. CASE u # t
      <3>1. call'[u] = call[u]
        BY <1>2, <2>2
      <3> QED
        BY <2>1, <3>1 DEF StatementInv, LevelRight
    <2>3. CASE u = t
      BY <1>1, <1>2, <2>1, <2>3 DEF StatementInv, LevelRight
    <2> QED
      BY <2>2, <2>3
  <1>4. Written(t, x) = said[t] - 1 /\ Written(t, x)' = said[t]
    BY <1>2 DEF Written
  <1>5. ASSUME NEW u \in Threads, NEW y \in Targets, u # t \/ y # x
        PROVE  Unwritten(u, y)
    <2>1. CASE u # t
      <3>1. call'[u] = call[u]
        BY <1>2, <2>1
      <3> QED
        BY <3>1 DEF Written, Unwritten
    <2>2. CASE u = t /\ y # x
      BY <1>1, <1>2, <2>2 DEF Written, Unwritten
    <2> QED
      BY <1>5, <2>1, <2>2
  <1> QED
    BY <1>2, <1>3, <1>4, <1>5
\* What a line behind the others makes of the order of the threads' lines.
LEMMA InOrderBehind ==
    ASSUME NEW l, NEW log, NEW more, Behind(l, log, more),
           NEW u \in Threads, NEW from \in Nat, NEW to \in Nat, from <= to,
           InOrder(u, log, from, to)
    PROVE  /\ u # l.by => InOrder(u, more, from, to)
           /\ u = l.by /\ l.n = to + 1 => InOrder(u, more, from, to + 1)
  BY Zenon DEF Behind

LEMMA WrittenFacts ==
    ASSUME LogInv, NEW u \in Threads, NEW x \in Targets
    PROVE  /\ Written(u, x) \in Nat /\ era.since[u] \in Nat /\ 0 <= Written(u, x)
           /\ era.since[u] <= Written(u, x)
  <1>1. /\ call[u] \in CallType /\ said[u] \in Nat /\ era.since[u] \in Nat
        /\ StatementInv(u)
    BY DEF LogInv, LogType
  <1>2. CASE call[u].phase = "none"
    BY <1>1, <1>2 DEF StatementInv, Written
  <1>3. CASE call[u].phase # "none"
    BY <1>1, <1>3 DEF StatementInv, Written
  <1> QED
    BY <1>2, <1>3

LEMMA WriteConsoleKeeps ==
    ASSUME LogInv, NEW t \in Threads, WriteConsole(t)
    PROVE  LogInv'
  <1> DEFINE l == Line(t)
             fs == [k \in {0} |-> console]
             fs2 == [k \in {0} |-> Append(console, l)]
  <1>1. /\ LogType /\ "console" \in call[t].todo /\ "console" \in Targets
        /\ console' = Append(console, l)
        /\ call' = [call EXCEPT ![t].todo = @ \ {"console"}]
        /\ UNCHANGED <<defLogType, files, split, said, era>>
    BY DEF LogInv, WriteConsole, Targets
  <1>2. /\ l \in LineType /\ LevelRight(l) /\ l.by = t /\ l.n = said[t]
        /\ said[t] - 1 \in Nat /\ said[t] = said[t] - 1 + 1
    BY <1>1, LineNow
  <1>3. /\ call' \in [Threads -> CallType]
        /\ \A u \in Threads : StatementInv(u)'
        /\ Written(t, "console") = said[t] - 1 /\ Written(t, "console")' = said[t]
        /\ \A u \in Threads : /\ Written(u, "file")' = Written(u, "file")
                              /\ u # t => Written(u, "console")' = Written(u, "console")
    <2>1. "console" # "file" /\ "file" \in Targets
      BY DEF Targets
    <2>2. /\ call' \in [Threads -> CallType]
          /\ \A u \in Threads : StatementInv(u)'
          /\ Written(t, "console") = said[t] - 1 /\ Written(t, "console")' = said[t]
      BY <1>1, TargetDone
    <2>3. ASSUME NEW u \in Threads
          PROVE  /\ Written(u, "file")' = Written(u, "file")
                 /\ u # t => Written(u, "console")' = Written(u, "console")
      <3>1. Unwritten(u, "file") /\ (u # t => Unwritten(u, "console"))
        BY <1>1, <2>1, TargetDone
      <3> QED
        BY <3>1 DEF Unwritten
    <2> QED
      BY <2>2, <2>3
  <1> HIDE DEF l
  <1>4. console \in Lines /\ Grown(console, l, Append(console, l))
    BY <1>1, <1>2, MoreBytes DEF LogType
  <1>5. LogType'
    BY <1>1, <1>3, <1>4 DEF LogType, Grown
  <1>6. Behind(l, ConsoleLog, ConsoleLog')
    <2>1. LinesTo(fs, 0) /\ LinesTo(fs2, 0)
      BY <1>4 DEF LinesTo, Grown
    <2>2. fs2[0] = Append(fs[0], l) /\ \A k \in 0..0 : k # 0 => fs2[k] = fs[k]
      OBVIOUS
    <2>3. ConsoleLog = LogOf(fs, 0) /\ ConsoleLog' = LogOf(fs2, 0)
      BY <1>1 DEF ConsoleLog, LogOf
    <2> HIDE DEF fs, fs2
    <2>4. Behind(l, LogOf(fs, 0), LogOf(fs2, 0))
      BY <1>2, <2>1, <2>2, BehindMore
    <2> QED
      BY <2>3, <2>4, Zenon
  <1>7. FileLog' = FileLog
    BY <1>1 DEF FileLog, LogOf
  <1>8. ASSUME NEW u \in Threads
        PROVE  Keeps(u, ConsoleLog', FileLog', split', era.since[u]',
                     Written(u, "console")', Written(u, "file")')
    <2>1. Keeps(u, ConsoleLog, FileLog, split, era.since[u],
                Written(u, "console"), Written(u, "file"))
      BY KeptNow DEF LogInv
    <2>2. Written(u, "console") \in Nat /\ 0 <= Written(u, "console")
      BY <1>1, WrittenFacts
    <2>3. InOrder(u, ConsoleLog, 0, Written(u, "console"))
      BY <2>1 DEF Keeps
    <2>4. InOrder(u, ConsoleLog', 0, Written(u, "console")')
      <3>1. CASE u # t
        <4>1. InOrder(u, ConsoleLog', 0, Written(u, "console"))
          BY <1>2, <1>6, <2>2, <2>3, <3>1, InOrderBehind
        <4> QED
          BY <1>3, <3>1, <4>1
      <3>2. CASE u = t
        <4>1. l.n = Written(u, "console") + 1
          BY <1>2, <1>3, <3>2
        <4>2. InOrder(u, ConsoleLog', 0, Written(u, "console") + 1)
          BY <1>2, <1>6, <2>2, <2>3, <3>2, <4>1, InOrderBehind
        <4>3. Written(u, "console") + 1 = Written(u, "console")'
          BY <1>2, <1>3, <3>2
        <4> QED
          BY <4>2, <4>3, Zenon
      <3> QED
        BY <3>1, <3>2
    <2>5. /\ split' = split /\ era.since[u]' = era.since[u]
          /\ Written(u, "file")' = Written(u, "file")
      BY <1>1, <1>3
    <2>6. split'.opened = 0..split'.splitIndex =>
            InOrder(u, FileLog', era.since[u]', Written(u, "file")')
      BY <1>7, <2>1, <2>5 DEF Keeps
    <2> QED
      BY <2>4, <2>6 DEF Keeps
  <1>9. KeptInv'
    BY <1>8, KeptNext
  <1>10. AllRight(console')
    <2>1. \A i \in 1..Len(console') : i \in 1..Len(console) \/ i = Len(console) + 1
      BY <1>1, <1>4, LineFacts DEF Grown
    <2>2. AllRight(console)
      BY DEF LogInv, LevelsInv
    <2> QED
      BY <1>1, <1>2, <1>4, <2>1, <2>2 DEF Grown, AllRight
  <1>11. LevelsInv'
    <2>1. \A k \in Indices : AllRight(files[k])
      BY DEF LogInv, LevelsInv
    <2> QED
      BY <1>1, <1>10, <2>1 DEF LevelsInv, AllRight, LevelRight
  <1>12. FilesInv'
    BY <1>1 DEF LogInv, FilesInv, Ordered
  <1> QED
    BY <1>3, <1>5, <1>9, <1>11, <1>12 DEF LogInv

LEMMA WriteFileKeeps ==
    ASSUME LogInv, NEW t \in Threads, NEW opens, opens \subseteq BOOLEAN,
           WriteFile(t, opens)
    PROVE  LogInv'
  <1> DEFINE l == Line(t)
  <1>1. /\ LogType /\ "file" \in call[t].todo /\ "file" \in Targets
        /\ SplitWrite(l, opens)
        /\ call' = [call EXCEPT ![t].todo = @ \ {"file"}]
        /\ UNCHANGED <<defLogType, console, said, era>>
    BY DEF LogInv, WriteFile, Targets
  <1>2. /\ l \in LineType /\ LevelRight(l) /\ l.by = t /\ l.n = said[t]
        /\ said[t] - 1 \in Nat /\ said[t] = said[t] - 1 + 1 /\ l.era = era.n
    BY <1>1, LineNow
  <1>3. /\ call' \in [Threads -> CallType]
        /\ \A u \in Threads : StatementInv(u)'
        /\ Written(t, "file") = said[t] - 1 /\ Written(t, "file")' = said[t]
        /\ \A u \in Threads : /\ Written(u, "console")' = Written(u, "console")
                              /\ u # t => Written(u, "file")' = Written(u, "file")
    <2>1. "console" # "file" /\ "console" \in Targets
      BY DEF Targets
    <2>2. /\ call' \in [Threads -> CallType]
          /\ \A u \in Threads : StatementInv(u)'
          /\ Written(t, "file") = said[t] - 1 /\ Written(t, "file")' = said[t]
      BY <1>1, TargetDone
    <2>3. ASSUME NEW u \in Threads
          PROVE  /\ Written(u, "console")' = Written(u, "console")
                 /\ u # t => Written(u, "file")' = Written(u, "file")
      <3>1. Unwritten(u, "console") /\ (u # t => Unwritten(u, "file"))
        BY <1>1, <2>1, TargetDone
      <3> QED
        BY <3>1 DEF Unwritten
    <2> QED
      BY <2>2, <2>3
  <1> HIDE DEF l
  <1>4. Stays(l) \/ \E ok \in BOOLEAN : GoesOn(l, ok)
    BY <1>1, <1>2, WriteCases
  <1>5. /\ files' \in [Indices -> Lines] /\ split' \in SplitType
        /\ (\A k \in Indices : AllRight(files[k])) => \A k \in Indices : AllRight(files'[k])
        /\ \A n \in Nat : l.era = n /\ Ordered(files, split, n) => Ordered(files', split', n)
    BY <1>1, <1>2, <1>4, WriteKeeps
  <1>6. LogType'
    BY <1>1, <1>3, <1>5 DEF LogType
  <1>7. LevelsInv'
    <2>1. /\ AllRight(console) /\ \A k \in Indices : AllRight(files'[k])
      BY <1>5 DEF LogInv, LevelsInv
    <2> QED
      BY <1>1, <2>1 DEF LevelsInv, AllRight, LevelRight
  <1>8. FilesInv'
    <2>1. era.n \in Nat /\ Ordered(files, split, era.n)
      BY <1>1 DEF LogInv, LogType, FilesInv
    <2>2. Ordered(files', split', era.n)
      BY <1>2, <1>5, <2>1
    <2> QED
      BY <1>1, <2>2 DEF FilesInv, Ordered
  <1>9. ConsoleLog' = ConsoleLog
    BY <1>1 DEF ConsoleLog, LogOf
  <1>10. ASSUME NEW u \in Threads
         PROVE  Keeps(u, ConsoleLog', FileLog', split', era.since[u]',
                      Written(u, "console")', Written(u, "file")')
    <2>1. Keeps(u, ConsoleLog, FileLog, split, era.since[u],
                Written(u, "console"), Written(u, "file"))
      BY KeptNow DEF LogInv
    <2>2. InOrder(u, ConsoleLog', 0, Written(u, "console")')
      <3>1. Written(u, "console")' = Written(u, "console")
        BY <1>3
      <3> QED
        BY <1>9, <2>1, <3>1 DEF Keeps
    <2>3. ASSUME split'.opened = 0..split'.splitIndex
          PROVE  InOrder(u, FileLog', era.since[u]', Written(u, "file")')
      <3>1. split.opened = 0..split.splitIndex /\ Behind(l, FileLog, FileLog')
        BY <1>1, <1>2, <1>4, <2>3, WriteBehind DEF LogInv
      <3>2. InOrder(u, FileLog, era.since[u], Written(u, "file"))
        BY <2>1, <3>1 DEF Keeps
      <3>3. /\ Written(u, "file") \in Nat /\ era.since[u] \in Nat
            /\ era.since[u] <= Written(u, "file")
        BY <1>1, WrittenFacts
      <3>4. era.since[u]' = era.since[u]
        BY <1>1
      <3>5. CASE u # t
        <4>1. InOrder(u, FileLog', era.since[u], Written(u, "file"))
          BY <1>2, <3>1, <3>2, <3>3, <3>5, InOrderBehind
        <4>2. Written(u, "file")' = Written(u, "file")
          BY <1>3, <3>5
        <4> QED
          BY <3>4, <4>1, <4>2
      <3>6. CASE u = t
        <4>1. l.n = Written(u, "file") + 1
          BY <1>2, <1>3, <3>6
        <4>2. InOrder(u, FileLog', era.since[u], Written(u, "file") + 1)
          BY <1>2, <3>1, <3>2, <3>3, <3>6, <4>1, InOrderBehind
        <4>3. Written(u, "file") + 1 = Written(u, "file")'
          BY <1>2, <1>3, <3>6
        <4> QED
          BY <3>4, <4>2, <4>3
      <3> QED
        BY <3>5, <3>6
    <2> QED
      BY <2>2, <2>3 DEF Keeps
  <1>11. KeptInv'
    BY <1>10, KeptNext
  <1> QED
    BY <1>3, <1>6, <1>7, <1>8, <1>11 DEF LogInv
\* Where the files of a new logger stand.
LEMMA FreshLogger ==
    ASSUME NEW fs, NEW s, NEW n \in Nat, Fresh0(fs, s, n)
    PROVE  /\ fs \in [Indices -> Lines] /\ s \in SplitType /\ Ordered(fs, s, n)
           /\ \A k \in Indices : AllRight(fs[k])
           /\ s.opened = 0..s.splitIndex =>
                \A u \in Threads : \A m \in Nat : InOrder(u, LogOf(fs, s.splitIndex), m, m)
  <1>1. ASSUME s.opened = 0..s.splitIndex, NEW u \in Threads, NEW m \in Nat
        PROVE  InOrder(u, LogOf(fs, s.splitIndex), m, m)
    <2>1. u # "main"
      BY LoggerConstants
    <2>2. \A p \in DOMAIN LogOf(fs, s.splitIndex) : LogOf(fs, s.splitIndex)[p].by # u
      BY <1>1, <2>1 DEF Fresh0
    <2> QED
      BY <2>2, OrderNone
  <1> QED
    BY <1>1 DEF Fresh0

LEMMA SetupLoggerKeeps ==
    ASSUME LogInv, NEW opens, opens \subseteq BOOLEAN, NEW counts, counts \subseteq Nat,
           SetupLogger(opens, counts)
    PROVE  LogInv'
  <1>1. /\ LogType /\ \A t \in Threads : call[t].phase = "none"
        /\ defLogType' = "trace" /\ era' = [n |-> era.n + 1, since |-> said]
        /\ UNCHANGED <<call, console, said>>
    BY DEF LogInv, SetupLogger
  <1>2. PICK f \in FreshFiles(files, era.n + 1, opens, counts) :
            files' = f.files /\ split' = f.split
    BY DEF SetupLogger
  <1>3. /\ files \in [Indices -> Lines] /\ era.n \in Nat /\ era.n + 1 \in Nat
        /\ said \in [Threads -> Nat]
    BY <1>1 DEF LogType
  <1>4. OlderFiles(files, era.n + 1)
    <2>1. ASSUME NEW k \in Indices PROVE BeforeEra(files[k], era.n + 1)
      <3>1. UpToEra(files[k], era.n) /\ files[k] \in Lines
        BY <1>3 DEF LogInv, FilesInv, Ordered
      <3>2. \A i \in 1..Len(files[k]) : files[k][i].era \in Nat
        BY <3>1, LineFacts DEF LineType
      <3> QED
        BY <1>3, <3>1, <3>2 DEF UpToEra, BeforeEra
    <2> QED
      BY <1>3, <2>1 DEF OlderFiles, LogInv, LevelsInv
  <1>5. Fresh0(files', split', era.n + 1)
    <2>1. Fresh0(f.files, f.split, era.n + 1)
      BY <1>3, <1>4, FreshFacts
    <2> QED
      BY <1>2, <2>1, Zenon
  <1>6. /\ files' \in [Indices -> Lines] /\ split' \in SplitType
        /\ Ordered(files', split', era.n + 1)
        /\ \A k \in Indices : AllRight(files'[k])
        /\ split'.opened = 0..split'.splitIndex =>
             \A u \in Threads : \A m \in Nat :
                InOrder(u, LogOf(files', split'.splitIndex), m, m)
    BY <1>3, <1>5, FreshLogger
  <1>7. LogType'
    BY <1>1, <1>3, <1>6 DEF LogType, Levels
  <1>8. ASSUME NEW u \in Threads
        PROVE  StatementInv(u)'
    <2>1. StatementInv(u) /\ said[u] \in Nat /\ era'.since[u] = said[u]
      BY <1>1, <1>3 DEF LogInv
    <2> QED
      BY <1>1, <2>1 DEF StatementInv
  <1>9. FilesInv'
    <2>1. era'.n = era.n + 1
      BY <1>1
    <2> QED
      BY <1>6, <2>1 DEF FilesInv, Ordered
  <1>10. LevelsInv'
    <2>1. AllRight(console)
      BY DEF LogInv, LevelsInv
    <2> QED
      BY <1>1, <1>6, <2>1 DEF LevelsInv, AllRight, LevelRight
  <1>11. ASSUME NEW u \in Threads
         PROVE  Keeps(u, ConsoleLog', FileLog', split', era.since[u]',
                      Written(u, "console")', Written(u, "file")')
    <2>1. Keeps(u, ConsoleLog, FileLog, split, era.since[u],
                Written(u, "console"), Written(u, "file"))
      BY KeptNow DEF LogInv
    <2>2. call[u].phase = "none" /\ call[u].todo = {} /\ said[u] \in Nat
      BY <1>1, <1>3 DEF LogInv, StatementInv
    <2>3. /\ Written(u, "console")' = Written(u, "console")
          /\ Written(u, "file")' = said[u] /\ era.since[u]' = said[u]
      BY <1>1, <2>2 DEF Written
    <2>4. ConsoleLog' = ConsoleLog
      BY <1>1 DEF ConsoleLog, LogOf
    <2>5. FileLog' = LogOf(files', split'.splitIndex)
      BY DEF FileLog, LogOf
    <2>6. split'.opened = 0..split'.splitIndex =>
            InOrder(u, FileLog', era.since[u]', Written(u, "file")')
      BY <1>6, <2>2, <2>3, <2>5
    <2> QED
      BY <2>1, <2>3, <2>4, <2>6 DEF Keeps
  <1>12. KeptInv'
    BY <1>11, KeptNext
  <1> QED
    BY <1>7, <1>8, <1>9, <1>10, <1>12 DEF LogInv

LEMMA LogInitRight ==
    ASSUME NEW opens, opens \subseteq BOOLEAN, NEW counts, counts \subseteq Nat,
           LogInit(opens, counts)
    PROVE  LogInv
  <1> DEFINE none == [k \in Indices |-> <<>>]
  <1>1. /\ defLogType = "trace" /\ call = [t \in Threads |-> NoCall]
        /\ console = <<>> /\ said = [t \in Threads |-> 0]
        /\ era = [n |-> 1, since |-> said]
    BY DEF LogInit
  <1>2. PICK f \in FreshFiles(none, 1, opens, counts) :
            files = f.files /\ split = f.split
    BY DEF LogInit
  <1>3. OlderFiles(none, 1)
    <2>1. BeforeEra(<<>>, 1) /\ AllRight(<<>>) /\ <<>> \in Lines
      BY NoBytes DEF BeforeEra, AllRight
    <2> QED
      BY <2>1 DEF OlderFiles
  <1> HIDE DEF none
  <1>4. Fresh0(files, split, 1)
    <2>1. Fresh0(f.files, f.split, 1)
      BY <1>3, FreshFacts
    <2> QED
      BY <1>2, <2>1, Zenon
  <1>5. /\ files \in [Indices -> Lines] /\ split \in SplitType
        /\ Ordered(files, split, 1)
        /\ \A k \in Indices : AllRight(files[k])
        /\ split.opened = 0..split.splitIndex =>
             \A u \in Threads : \A m \in Nat :
                InOrder(u, LogOf(files, split.splitIndex), m, m)
    BY <1>4, FreshLogger
  <1>6. LogType
    BY <1>1, <1>5, NoCallFacts, NoBytes DEF LogType, Levels
  <1>7. ASSUME NEW u \in Threads PROVE StatementInv(u)
    <2>1. call[u] = NoCall /\ said[u] = 0
      BY <1>1
    <2>2. era.since[u] = 0
      BY <1>1
    <2>3. call[u].phase = "none" /\ call[u].todo = {}
      BY <2>1, NoCallFacts
    <2> QED
      BY <2>1, <2>2, <2>3 DEF StatementInv
  <1>8. FilesInv
    BY <1>1, <1>5 DEF FilesInv
  <1>9. LevelsInv
    BY <1>1, <1>5, EmptyRight DEF LevelsInv
  <1>10. \A p \in DOMAIN ConsoleLog : ConsoleLog[p].by = "main"
    <2> DEFINE fs == [k \in {0} |-> console]
    <2>1. fs[0] = <<>> /\ \A k \in 0..0 : k = 0
      BY <1>1
    <2>2. ConsoleLog = LogOf(fs, 0)
      BY DEF ConsoleLog
    <2> HIDE DEF fs
    <2>3. LinesTo(fs, 0) /\ \A k \in 0..0 : 1..Len(fs[k]) = {}
      BY <2>1, NoBytes DEF LinesTo
    <2>4. \A p \in DOMAIN LogOf(fs, 0) : LogOf(fs, 0)[p].by = "main"
      BY <2>3, MainOnly
    <2> QED
      BY <2>2, <2>4, Zenon
  <1>11. ASSUME NEW u \in Threads
         PROVE  Keeps(u, ConsoleLog, FileLog, split, era.since[u],
                      Written(u, "console"), Written(u, "file"))
    <2>1. Written(u, "console") = 0 /\ Written(u, "file") = 0 /\ era.since[u] = 0
      BY <1>1, NoCallFacts DEF Written
    <2>2. u # "main"
      BY LoggerConstants
    <2>3. InOrder(u, ConsoleLog, 0, 0)
      BY <1>10, <2>2, OrderNone
    <2>4. split.opened = 0..split.splitIndex => InOrder(u, FileLog, 0, 0)
      BY <1>5 DEF FileLog
    <2> QED
      BY <2>1, <2>3, <2>4 DEF Keeps
  <1>12. KeptInv
    BY <1>11, KeptNow
  <1> QED
    BY <1>6, <1>7, <1>8, <1>9, <1>12 DEF LogInv
LEMMA StutterKeeps ==
    ASSUME LogInv, UNCHANGED logVars
    PROVE  LogInv'
  <1>1. UNCHANGED <<defLogType, call, console, files, split, said, era>>
    BY DEF logVars
  <1>2. LogType'
    BY <1>1 DEF LogInv, LogType
  <1>3. ASSUME NEW u \in Threads
        PROVE  /\ StatementInv(u)'
               /\ Written(u, "console")' = Written(u, "console")
               /\ Written(u, "file")' = Written(u, "file")
    <2>1. StatementInv(u)
      BY DEF LogInv
    <2> QED
      BY <1>1, <2>1 DEF StatementInv, LevelRight, Written
  <1> QED
    BY <1>1, <1>2, <1>3, NothingWritten

LEMMA LogStepKeeps ==
    ASSUME LogInv, NEW t \in Threads, NEW opens, opens \subseteq BOOLEAN, LogStep(t, opens)
    PROVE  LogInv'
  BY EndLogKeeps, WriteConsoleKeeps, WriteFileKeeps, LogReturnKeeps DEF LogStep

LEMMA OpensFacts == Opens \subseteq BOOLEAN /\ Counts \subseteq Nat
  <1>1. Opens \subseteq BOOLEAN
    BY Zenon DEF Opens
  <1>2. 0..(Width - 1) \subseteq Nat /\ {0} \subseteq Nat
    BY LoggerConstants
  <1> QED
    BY <1>1, <1>2 DEF Counts

LEMMA InitRight == Init => LInv
  <1> SUFFICES ASSUME Init PROVE LInv
    OBVIOUS
  <1>1. bounds \in Workloads /\ LogInit(Opens, Counts)
    BY DEF Init
  <1>2. WorkloadInv
    <2>1. /\ DOMAIN bounds = {"workers", "requests", "number", "changes", "reloads",
                              "lines", "faults"}
          /\ bounds.lines \subseteq 1..(Width - MaxBytes)
          /\ bounds.workers \subseteq Threads
      BY <1>1, FileConstants
    <2> QED
      BY <2>1, LoggerConstants DEF WorkloadInv, LineSizes
  <1>3. Opens \subseteq BOOLEAN /\ Counts \subseteq Nat
    BY OpensFacts
  <1>4. LogInv
    BY <1>1, <1>3, LogInitRight
  <1> QED
    BY <1>2, <1>4 DEF LInv

\* The lines and workers of a workload stay what they are.
SameWorkload ==
    /\ DOMAIN bounds' = DOMAIN bounds
    /\ bounds'.lines = bounds.lines /\ bounds'.workers = bounds.workers

LEMMA WorkloadKept ==
    ASSUME WorkloadInv, SameWorkload
    PROVE  WorkloadInv'
  BY DEF WorkloadInv, SameWorkload

LEMMA FewerBounds ==
    ASSUME WorkloadInv, NEW x \in {"number", "changes", "reloads"}, NEW n,
           bounds' = [bounds EXCEPT ![x] = n]
    PROVE  SameWorkload
  BY DEF WorkloadInv, SameWorkload

\* Every step keeps the invariant.
LEMMA StepRight == LInv /\ [Next]_vars => LInv'
  <1> SUFFICES ASSUME LInv, [Next]_vars PROVE LInv'
    OBVIOUS
  <1>1. WorkloadInv /\ LogInv
    BY DEF LInv
  <1>2. Opens \subseteq BOOLEAN /\ Counts \subseteq Nat
    BY OpensFacts
  <1> SUFFICES SameWorkload /\ LogInv'
    BY <1>1, WorkloadKept DEF LInv
  <1>3. ASSUME UNCHANGED bounds PROVE SameWorkload
    BY <1>3 DEF SameWorkload
  <1>4. ASSUME NEW w \in Threads, Handle(w) PROVE SameWorkload /\ LogInv'
    <2>1. CASE Unrouted(w) \/ Assign(w) \/ AppendPath(w) \/ Stat(w)
      <3>1. UNCHANGED <<logVars, bounds>>
        BY <2>1 DEF Unrouted, Assign, AppendPath, Stat
      <3> QED
        BY <1>1, <1>3, <3>1, StutterKeeps
    <2>2. CASE SendHead(w) \/ Open(w)
      <3>1. UNCHANGED <<logVars, bounds>>
        BY <2>2 DEF SendHead, Open
      <3> QED
        BY <1>1, <1>3, <3>1, StutterKeeps
    <2>3. CASE SendFile(w) \/ SendFails(w) \/ SendDone(w)
      <3>1. UNCHANGED <<logVars, bounds>>
        BY <2>3 DEF SendFile, SendFails, SendDone, Leave
      <3> QED
        BY <1>1, <1>3, <3>1, StutterKeeps
    <2>4. CASE LogPath(w)
      <3>1. PICK size \in bounds.lines : LogCall(w, "info", size)
        BY <2>4 DEF LogPath
      <3>2. size \in LineSizes
        BY <1>1 DEF WorkloadInv
      <3>3. UNCHANGED bounds
        BY <2>4 DEF LogPath
      <3> QED
        BY <1>1, <1>3, <3>1, <3>2, <3>3, LogCallKeeps
    <2>5. CASE LogStep(w, Opens) /\ UNCHANGED fileVars
      BY <1>1, <1>2, <1>3, <2>5, LogStepKeeps DEF fileVars
    <2> QED
      BY <1>4, <2>1, <2>2, <2>3, <2>4, <2>5 DEF Handle
  <1>5. ASSUME NEW w \in Threads, SendBroken(w) \/ Stall(w) PROVE SameWorkload /\ LogInv'
    <2>1. UNCHANGED <<logVars, bounds>>
      BY <1>5 DEF SendBroken, Stall, Leave
    <2> QED
      BY <1>1, <1>3, <2>1, StutterKeeps
  <1>6. ASSUME NEW w \in bounds.workers, NEW r \in bounds.requests, Take(w, r)
        PROVE  SameWorkload /\ LogInv'
    <2>1. SameWorkload
      <3>1. bounds' = [bounds EXCEPT !["number"] = bounds.number - 1]
        BY <1>6 DEF Take
      <3> QED
        BY <1>1, <3>1, FewerBounds
    <2>2. CASE UNCHANGED logVars
      BY <1>1, <2>1, <2>2, StutterKeeps
    <2>3. CASE \E s \in bounds.lines : LogCall(w, "info", s)
      <3>1. PICK size \in bounds.lines : LogCall(w, "info", size)
        BY <2>3
      <3>2. size \in LineSizes /\ w \in Threads
        BY <1>1 DEF WorkloadInv
      <3> QED
        BY <1>1, <2>1, <3>1, <3>2, LogCallKeeps
    <2> QED
      BY <1>6, <2>2, <2>3 DEF Take
  <1>7. ASSUME NEW p \in DOMAIN Sizes, Resize(p) \/ Unlink(p) PROVE SameWorkload /\ LogInv'
    <2>1. UNCHANGED logVars /\ bounds' = [bounds EXCEPT !["changes"] = bounds.changes - 1]
      BY <1>7 DEF Resize, Unlink
    <2> QED
      BY <1>1, <2>1, FewerBounds, StutterKeeps
  <1>8. ASSUME Reload PROVE SameWorkload /\ LogInv'
    <2>1. /\ SetupLogger(Opens, Counts)
          /\ bounds' = [bounds EXCEPT !["reloads"] = bounds.reloads - 1]
      BY <1>8 DEF Reload
    <2> QED
      BY <1>1, <1>2, <2>1, FewerBounds, SetupLoggerKeeps
  <1>9. ASSUME UNCHANGED vars PROVE SameWorkload /\ LogInv'
    <2>1. UNCHANGED <<logVars, bounds>>
      BY <1>9 DEF vars, fileVars
    <2> QED
      BY <1>1, <1>3, <2>1, StutterKeeps
  <1> QED
    BY <1>4, <1>5, <1>6, <1>7, <1>8, <1>9 DEF Next-----------------------------------------------------------------------------
(* The theorems *)

\* The state invariant LogInvariant of the whole logger: what KeptInv, LevelsInv,
\* FilesInv and StatementInv say of the lines, levels, counter and statements
\* holds in every state that Logger::log, SplittedFiles::write and
\* setup_logger lead to.
THEOREM LogInvariant == Spec => []LInv
  <1>1. Init => LInv
    BY InitRight
  <1>2. LInv /\ [Next]_vars => LInv'
    BY StepRight
  <1> QED
    BY <1>1, <1>2, PTL DEF Spec

LEMMA DomainOfLines ==
    ASSUME NEW f \in Lines
    PROVE  DOMAIN f = 1..Len(f) /\ Len(f) \in Nat
  BY LenProperties DEF Lines

LEMMA LogRight ==
    ASSUME NEW fs, NEW last \in Nat, LinesTo(fs, last), \A k \in 0..last : AllRight(fs[k])
    PROVE  \A p \in DOMAIN LogOf(fs, last) : LevelRight(LogOf(fs, last)[p])
  <1> SUFFICES ASSUME NEW p \in DOMAIN LogOf(fs, last)
               PROVE  LevelRight(LogOf(fs, last)[p])
    OBVIOUS
  <1>1. Places(fs, last, LogOf(fs, last))
    BY LogFacts
  <1>2. PICK k \in 0..last : \E i \in 1..Len(fs[k]) : p = <<k, i>>
    BY <1>1 DEF Places
  <1>3. PICK i \in 1..Len(fs[k]) : p = <<k, i>>
    BY <1>2
  <1>4. LogOf(fs, last)[p] = fs[k][i]
    BY <1>1, <1>3 DEF Places
  <1>5. LevelRight(fs[k][i])
    BY DEF AllRight
  <1> QED
    BY <1>4, <1>5

\* Logger::log and SplittedFiles::write lose, repeat and reorder no line of a
\* thread, and LogFactory gives a line another level only after a race.
THEOREM LinesAlwaysKept == Spec => []LinesKept
  <1>1. LInv => LinesKept
    <2> SUFFICES ASSUME LInv PROVE LinesKept
      OBVIOUS
    <2>1. LogType /\ KeptInv /\ LevelsInv
      BY DEF LInv, LogInv
    <2>2. \A p \in DOMAIN ConsoleLog : LevelRight(ConsoleLog[p])
      <3> DEFINE fs == [k \in {0} |-> console]
      <3>1. \A k \in 0..0 : fs[k] = console
        OBVIOUS
      <3>2. ConsoleLog = LogOf(fs, 0)
        BY DEF ConsoleLog
      <3> HIDE DEF fs
      <3>3. LinesTo(fs, 0) /\ \A k \in 0..0 : AllRight(fs[k])
        BY <2>1, <3>1 DEF LinesTo, LogType, LevelsInv
      <3>4. \A p \in DOMAIN LogOf(fs, 0) : LevelRight(LogOf(fs, 0)[p])
        BY <3>3, LogRight
      <3> QED
        BY <3>2, <3>4, Zenon
    <2>3. \A p \in DOMAIN FileLog : LevelRight(FileLog[p])
      <3>1. split.splitIndex \in Nat /\ 0..split.splitIndex \subseteq Indices
        BY <2>1, LoggerConstants DEF LogType, SplitType, Indices
      <3>2. /\ LinesTo(files, split.splitIndex)
            /\ \A k \in 0..split.splitIndex : AllRight(files[k])
        BY <2>1, <3>1 DEF LinesTo, LogType, LevelsInv
      <3>3. \A p \in DOMAIN LogOf(files, split.splitIndex) :
              LevelRight(LogOf(files, split.splitIndex)[p])
        BY <3>1, <3>2, LogRight
      <3> QED
        BY <3>3 DEF FileLog
    <2> QED
      BY <2>1, <2>2, <2>3 DEF LinesKept, KeptInv
  <1> QED
    BY <1>1, LogInvariant, PTL

\* SplittedFiles::write leaves a file exactly when it is full, but for the
\* first one, whose counter starts anywhere; a reload mixes no two eras.
THEOREM FilesAlwaysBounded == Spec => []FilesBounded
  <1>1. LInv => FilesBounded
    <2> SUFFICES ASSUME LInv PROVE FilesBounded
      OBVIOUS
    <2>1. LogType /\ Ordered(files, split, era.n)
      BY DEF LInv, LogInv, FilesInv
    <2>2. /\ files \in [Indices -> Lines] /\ split.opened \subseteq Indices
          /\ split.currentBytes \in Nat /\ split.currentBytes < MaxBytes /\ MaxBytes \in Nat
          /\ split.splitIndex \in Nat /\ split.opened \subseteq 0..split.splitIndex
      BY <2>1, LoggerConstants DEF LogType, SplitType, Indices, Ordered
    <2>3. ASSUME NEW k \in split.opened
          PROVE  LET f == files[k]
                     left == k < split.splitIndex
                     last == IF left THEN Len(f) - 1 ELSE Len(f)
                 IN  /\ left => f # <<>>
                     /\ k > 0 => Bytes(f, last) < MaxBytes
                     /\ k > 0 /\ left => Bytes(f, Len(f)) >= MaxBytes
                     /\ k = 0 /\ last > 0 => Bytes(f, last) - f[1].size < MaxBytes
      <3> DEFINE f == files[k]
      <3>1. /\ k # split.splitIndex => Full(f, k)
            /\ k = split.splitIndex => Counted(f, k, split.currentBytes)
        BY <2>1 DEF Ordered
      <3>2. f \in Lines /\ k \in Nat /\ k <= split.splitIndex
        BY <2>2
      <3> HIDE DEF f
      <3>3. Sized(f) /\ Len(f) \in Nat
        BY <3>2, LineFacts
      <3>4. Bytes(f, Len(f)) \in Nat /\ (f # <<>> => f[1].size \in Nat)
        <4>1. Len(f) \in 0..Len(f)
          BY <3>3
        <4>2. f # <<>> => 1 \in 1..Len(f)
          BY <3>2, EmptySeq, DomainOfLines DEF Lines
        <4> QED
          BY <3>3, <4>1, <4>2, BytesSteps DEF Sized
      <3>5. CASE k < split.splitIndex
        <4>1. Full(f, k) /\ k # split.splitIndex
          BY <2>2, <3>1, <3>2, <3>5
        <4>2. Len(f) - 1 > 0 => Len(f) > 1
          BY <3>3
        <4> QED
          BY <3>2, <3>5, <4>1, <4>2 DEF Full, f
      <3>6. CASE ~(k < split.splitIndex)
        <4>1. Counted(f, k, split.currentBytes)
          BY <2>2, <3>1, <3>2, <3>6
        <4>2. /\ k > 0 => Bytes(f, Len(f)) < MaxBytes
              /\ k = 0 => Bytes(f, Len(f)) - f[1].size < MaxBytes
          BY <2>2, <3>2, <3>4, <4>1 DEF Counted
        <4> QED
          BY <3>6, <4>2 DEF f
      <3> QED
        BY <3>5, <3>6
    <2>4. \A k \in Indices : DOMAIN files[k] = 1..Len(files[k])
      BY <2>2, DomainOfLines
    <2>5. \A k \in split.opened : \A i \in DOMAIN files[k] : files[k][i].era = era.n
      BY <2>1, <2>2, <2>4 DEF Ordered, OfEra
    <2>6. \A k \in Indices \ 0..split.splitIndex :
            \A i \in DOMAIN files[k] : files[k][i].era < era.n
      <3>1. \A k \in Indices \ 0..split.splitIndex : k > split.splitIndex
        BY <2>2 DEF Indices
      <3> QED
        BY <2>1, <2>4, <3>1 DEF Ordered, BeforeEra
    <2> QED
      BY <2>3, <2>5, <2>6, Zenon DEF FilesBounded
  <1> QED
    BY <1>1, LogInvariant, PTL
=============================================================================
