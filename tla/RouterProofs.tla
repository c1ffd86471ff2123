---------------------------- MODULE RouterProofs ----------------------------
(***************************************************************************)
(* For any set of locations, of any depth and added in any order, and any  *)
(* requested path: the route tree is the tree of the accepted locations,   *)
(* and parseURL finds in it what they say.                                 *)
(***************************************************************************)
EXTENDS Router, SequenceTheorems, WellFoundedInduction, TLAPS

-----------------------------------------------------------------------------
(* The inductive invariant *)

\* A section without the name of its parameter.
Mark(x) == IF x.rule = "any" THEN MatchAny("") ELSE FixedString(x.str)

Kinds == {FixedString(n) : n \in Names} \cup {MatchAny("")}
Marks == Kinds \cup {End}

NodeType == [rule : {"fixed", "any"}, str : Names \cup {"", "/"},
             id : Ids \cup {""}, handler : Nat, nexts : Seq(Nat)]

\* at gives every node of ns the marks on the way to it from the root.
Labels(ns, at) ==
    /\ ns \in Seq(NodeType) /\ Len(ns) >= 1
    /\ at \in [1..Len(ns) -> Seq(Marks)] /\ at[1] = <<>>
    /\ \A n \in 2..Len(ns) :
        Mark(ns[n]) \in Marks /\ (ns[n].rule = "any" => ns[n].str = "")
    /\ \A m, n \in 1..Len(ns) : at[m] = at[n] => m = n
    /\ \A n \in 1..Len(ns) : \A j \in 1..Len(ns[n].nexts) :
        /\ ns[n].nexts[j] \in 2..Len(ns)
        /\ at[ns[n].nexts[j]] = Append(at[n], Mark(ns[ns[n].nexts[j]]))
    /\ \A n \in 1..Len(ns) : \A j, k \in 1..Len(ns[n].nexts) :
        ns[n].nexts[j] = ns[n].nexts[k] => j = k
    /\ \A m \in 2..Len(ns) :
        \E n \in 1..Len(ns) : \E j \in 1..Len(ns[n].nexts) : ns[n].nexts[j] = m

Leaf(ns, m) == m # 1 /\ Mark(ns[m]) = End

\* The leaves are the ends of the routes rs, and the other nodes are their
\* beginnings, inner.  Only nodes in open have no child yet.
Holds(ns, at, rs, inner, open) ==
    /\ \A m \in 1..Len(ns) : Leaf(ns, m) =>
        /\ ns[m].nexts = <<>> /\ ns[m].handler \in 1..Len(rs)
        /\ at[m] = Append(Shape(rs[ns[m].handler]), End)
    /\ \A m \in 1..Len(ns) : ~Leaf(ns, m) =>
        /\ at[m] \in inner
        /\ ns[m].nexts = <<>> => m \in open \cup {1}
    /\ \A b \in inner : \E m \in 1..Len(ns) : ~Leaf(ns, m) /\ at[m] = b
    /\ \A h \in 1..Len(rs) : \E m \in 1..Len(ns) : Leaf(ns, m) /\ ns[m].handler = h

\* What add_new_handler has walked so far, and its beginnings.
Walked == SubSeq(Shape(add.chain), 1, add.i - 1)
Inner == Begins \cup (IF phase = "adding"
                      THEN {SubSeq(Shape(add.chain), 1, m) : m \in 0..(add.i - 1)}
                      ELSE {})
OpenNodes == IF phase = "adding" THEN {add.current} ELSE {}

AddInv(at) ==
    phase = "adding" =>
        /\ add.chain \in Seq(Sections) /\ add.i \in 1..(Len(add.chain) + 1)
        /\ add.current \in 1..Len(nodes) /\ ~Leaf(nodes, add.current)
        /\ at[add.current] = Walked
        /\ add.then \in {"locations", "serving"}

\* What is left of a path behind its first n segments.
Rest(path, n) == IF n < Len(path) THEN SubSeq(path, n + 1, Len(path)) ELSE <<"">>

\* The locations that begin with q are those for the path so far: there is one
\* value for every segment passed, and mapper names places of parameters.
OnTheWay(q) ==
    /\ Follows(q, find.path)
    /\ find.left = Rest(find.path, Len(q))
    /\ Len(find.vals) = Len(q)
    /\ \A k \in 1..Len(q) : find.vals[k] = <<Segment(find.path, k)>>
    /\ \A p \in find.mapper : p[2] \in 1..Len(q) /\ q[p[2]].rule = "any"

\* Where parseURL is.
FindInv(at) ==
    phase = "parsing" =>
        /\ find.current \in 1..Len(nodes) /\ ~Leaf(nodes, find.current)
        /\ OnTheWay(at[find.current])

Texts == Names \cup {Other, ""}

AddType == DOMAIN add = {"chain", "i", "current", "then"}

FindType ==
    /\ DOMAIN find = {"path", "left", "current", "vals", "mapper", "fn", "result"}
    /\ find.path \in Seq(Texts) /\ find.vals \in Seq(Seq(Texts))

RouterType ==
    /\ phase \in {"locations", "adding", "serving", "parsing", "parsed"}
    /\ routes \in Seq(Seq(Sections))
    /\ AddType /\ FindType

Placed(at) ==
    Labels(nodes, at) /\ Holds(nodes, at, routes, Inner, OpenNodes)
    /\ AddInv(at) /\ FindInv(at)

\* What parseURL has found.
FoundRoute == Done /\ find.result = "OK" => find.fn \in 1..Len(routes)
Answers == LookupCorrect /\ ParamsRight /\ FoundRoute

RInv == RouterType /\ (\E at \in [1..Len(nodes) -> Seq(Marks)] : Placed(at)) /\ Answers

-----------------------------------------------------------------------------
(* Facts about numbers and sequences *)

\* A set of naturals has a least element.
LEMMA Least ==
    ASSUME NEW T, T \subseteq Nat, T # {}
    PROVE  \E x \in T : \A y \in T : x <= y
  <1> DEFINE R == {ss \in Nat \X Nat : ss[1] < ss[2]}
  <1>1. OpToRel(<, Nat) = R
    BY Zenon DEF OpToRel
  <1>2. IsWellFoundedOn(R, Nat)
    BY <1>1, NatLessThanWellFounded, Zenon
  <1>3. PICK x \in T : \A y \in T : ~(<<y, x>> \in R)
    BY <1>2, WFMin
  <1>4. ASSUME NEW y \in T PROVE x <= y
    <2>1. x \in Nat /\ y \in Nat
      OBVIOUS
    <2>2. ~(y < x)
      <3>1. <<y, x>> \in Nat \X Nat /\ <<y, x>>[1] = y /\ <<y, x>>[2] = x
        BY <2>1
      <3> QED
        BY <1>3, <3>1, Zenon
    <2> QED
      BY <2>1, <2>2
  <1> QED
    BY <1>4

\* The beginning of a sequence.
LEMMA Prefix ==
    ASSUME NEW S, NEW s \in Seq(S), NEW m \in 0..Len(s)
    PROVE  /\ SubSeq(s, 1, m) \in Seq(S) /\ Len(SubSeq(s, 1, m)) = m
           /\ \A j \in 1..m : SubSeq(s, 1, m)[j] = s[j]
  <1>1. Len(s) \in Nat /\ \A j \in 1..m : s[j] \in S
    BY LenProperties, ElementOfSeq
  <1>2. /\ SubSeq(s, 1, m) \in Seq(S)
        /\ Len(SubSeq(s, 1, m)) = IF 1 <= m THEN m - 1 + 1 ELSE 0
        /\ \A j \in 1..(m - 1 + 1) : SubSeq(s, 1, m)[j] = s[1 + j - 1]
    BY <1>1, SubSeqProperties
  <1>3. Len(SubSeq(s, 1, m)) = m
    <2>1. CASE m = 0
      BY <2>1, <1>2
    <2>2. CASE m # 0
      BY <2>2, <1>1, <1>2
    <2> QED
      BY <2>1, <2>2
  <1>4. ASSUME NEW j \in 1..m PROVE SubSeq(s, 1, m)[j] = s[j]
    <2>1. j \in 1..(m - 1 + 1) /\ 1 + j - 1 = j
      BY <1>1
    <2> QED
      BY <2>1, <1>2
  <1> QED
    BY <1>2, <1>3, <1>4

\* Sequences that begin alike have equal beginnings.
LEMMA PrefixEqual ==
    ASSUME NEW S, NEW s \in Seq(S), NEW t \in Seq(S), NEW m \in 0..Len(s),
           m <= Len(t), \A j \in 1..m : s[j] = t[j]
    PROVE  SubSeq(s, 1, m) = SubSeq(t, 1, m)
  <1> DEFINE a == SubSeq(s, 1, m)
             b == SubSeq(t, 1, m)
  <1>1. m \in 0..Len(t)
    BY LenProperties
  <1>2. /\ a \in Seq(S) /\ Len(a) = m /\ \A j \in 1..m : a[j] = s[j]
        /\ b \in Seq(S) /\ Len(b) = m /\ \A j \in 1..m : b[j] = t[j]
    BY <1>1, Prefix
  <1> HIDE DEF a, b
  <1>3. \A j \in 1..Len(a) : a[j] = b[j]
    BY <1>2
  <1>4. a = b
    BY <1>2, <1>3, SeqEqual
  <1> QED
    BY <1>4 DEF a, b

LEMMA PrefixOfPrefix ==
    ASSUME NEW S, NEW s \in Seq(S), NEW m \in 0..Len(s), NEW k \in 0..m
    PROVE  SubSeq(SubSeq(s, 1, m), 1, k) = SubSeq(s, 1, k)
  <1> DEFINE a == SubSeq(s, 1, m)
  <1>1. Len(s) \in Nat
    BY LenProperties
  <1>2. a \in Seq(S) /\ Len(a) = m /\ \A j \in 1..m : a[j] = s[j]
    BY Prefix
  <1> HIDE DEF a
  <1>3. k \in 0..Len(a) /\ k <= Len(s) /\ \A j \in 1..k : a[j] = s[j]
    BY <1>1, <1>2
  <1>4. SubSeq(a, 1, k) = SubSeq(s, 1, k)
    BY <1>2, <1>3, PrefixEqual
  <1> QED
    BY <1>4 DEF a

LEMMA PrefixOfAppend ==
    ASSUME NEW S, NEW s \in Seq(S), NEW e \in S, NEW m \in 0..Len(s)
    PROVE  SubSeq(Append(s, e), 1, m) = SubSeq(s, 1, m)
  <1> DEFINE a == Append(s, e)
  <1>1. Len(s) \in Nat
    BY LenProperties
  <1>2. a \in Seq(S) /\ Len(a) = Len(s) + 1 /\ \A j \in 1..Len(s) : a[j] = s[j]
    BY AppendProperties
  <1> HIDE DEF a
  <1>3. m <= Len(a) /\ \A j \in 1..m : s[j] = a[j]
    BY <1>1, <1>2
  <1>4. SubSeq(s, 1, m) = SubSeq(a, 1, m)
    BY <1>2, <1>3, PrefixEqual
  <1> QED
    BY <1>4 DEF a

LEMMA PrefixGrows ==
    ASSUME NEW S, NEW s \in Seq(S), NEW m \in 1..Len(s)
    PROVE  SubSeq(s, 1, m) = Append(SubSeq(s, 1, m - 1), s[m])
  <1> DEFINE a == SubSeq(s, 1, m)
             c == SubSeq(s, 1, m - 1)
             b == Append(c, s[m])
  <1>1. Len(s) \in Nat /\ s[m] \in S /\ m \in 0..Len(s) /\ m - 1 \in 0..Len(s)
    BY LenProperties, ElementOfSeq
  <1>2. a \in Seq(S) /\ Len(a) = m /\ \A j \in 1..m : a[j] = s[j]
    BY <1>1, Prefix
  <1>3. c \in Seq(S) /\ Len(c) = m - 1 /\ \A j \in 1..(m - 1) : c[j] = s[j]
    BY <1>1, Prefix
  <1> HIDE DEF a, c
  <1>4. /\ b \in Seq(S) /\ Len(b) = Len(c) + 1
        /\ \A j \in 1..Len(c) : b[j] = c[j]
        /\ b[Len(c) + 1] = s[m]
    BY <1>1, <1>3, AppendProperties
  <1> HIDE DEF b
  <1>5. Len(a) = Len(b)
    BY <1>1, <1>2, <1>3, <1>4
  <1>6. ASSUME NEW j \in 1..Len(a) PROVE a[j] = b[j]
    <2>1. CASE j \in 1..(m - 1)
      BY <2>1, <1>1, <1>2, <1>3, <1>4
    <2>2. CASE j = m
      BY <2>2, <1>1, <1>2, <1>3, <1>4
    <2> QED
      BY <2>1, <2>2, <1>1, <1>2
  <1>7. a = b
    BY <1>2, <1>4, <1>5, <1>6, SeqEqual
  <1> QED
    BY <1>7 DEF a, b, c
-----------------------------------------------------------------------------
(* Facts about sections, shapes and beginnings *)

LEMMA Fields ==
    /\ \A n : FixedString(n).rule = "fixed" /\ FixedString(n).str = n
             /\ FixedString(n).id = ""
    /\ \A n : MatchAny(n).rule = "any" /\ MatchAny(n).str = "" /\ MatchAny(n).id = n
  BY DEF FixedString, MatchAny

LEMMA KindFacts ==
    ASSUME NEW k \in Kinds
    PROVE  \/ k = MatchAny("") /\ k.rule = "any"
           \/ \E n \in Names : k = FixedString(n) /\ k.rule = "fixed" /\ k.str = n
  <1>1. CASE k = MatchAny("")
    BY <1>1, Fields
  <1>2. CASE k # MatchAny("")
    <2>1. PICK n \in Names : k = FixedString(n)
      BY <1>2 DEF Kinds
    <2> QED
      BY <2>1, Fields
  <1> QED
    BY <1>1, <1>2

LEMMA MarkFacts ==
    /\ End \notin Kinds /\ Mark(End) = End /\ End.rule = "fixed" /\ End.str = ""
    /\ \A n \in Names : FixedString(n) \in Kinds
    /\ MatchAny("") \in Kinds
    /\ \A p \in Sections : Mark(p) \in Kinds /\ p.rule \in {"fixed", "any"}
                           /\ (p.rule = "any" => p.str = "")
                           /\ (p.rule # "any" => p = Mark(p))
                           /\ p.str \in Names \cup {""} /\ p.id \in Ids \cup {""}
  <1>1. End.rule = "fixed" /\ End.str = ""
    BY Fields DEF End
  <1>2. Mark(End) = End
    BY <1>1 DEF Mark, End
  <1>3. End \notin Kinds
    <2> SUFFICES ASSUME End \in Kinds PROVE FALSE
      OBVIOUS
    <2>1. PICK n \in Names : End.str = n
      BY <1>1, KindFacts
    <2> QED
      BY <1>1, <2>1, RouterConstants
  <1>4. (\A n \in Names : FixedString(n) \in Kinds) /\ MatchAny("") \in Kinds
    BY DEF Kinds
  <1>5. ASSUME NEW p \in Sections
        PROVE  /\ Mark(p) \in Kinds /\ p.rule \in {"fixed", "any"}
               /\ p.rule = "any" => p.str = ""
               /\ p.rule # "any" => p = Mark(p)
               /\ p.str \in Names \cup {""} /\ p.id \in Ids \cup {""}
    <2>1. (\E n \in Names : p = FixedString(n)) \/ (\E n \in Ids : p = MatchAny(n))
      BY DEF Sections
    <2>2. CASE \E n \in Names : p = FixedString(n)
      <3>1. PICK n \in Names : p = FixedString(n)
        BY <2>2
      <3>2. p.rule = "fixed" /\ p.str = n /\ p.id = ""
        BY <3>1, Fields
      <3>3. Mark(p) = FixedString(n)
        BY <3>2 DEF Mark
      <3> QED
        BY <1>4, <3>1, <3>2, <3>3
    <2>3. CASE \E n \in Ids : p = MatchAny(n)
      <3>1. PICK n \in Ids : p = MatchAny(n)
        BY <2>3
      <3>2. p.rule = "any" /\ p.str = "" /\ p.id = n
        BY <3>1, Fields
      <3>3. Mark(p) = MatchAny("")
        BY <3>2 DEF Mark
      <3> QED
        BY <1>4, <3>1, <3>2, <3>3
    <2> QED
      BY <2>1, <2>2, <2>3
  <1> QED
    BY <1>1, <1>2, <1>3, <1>4, <1>5

\* Same compares what Mark keeps.
LEMMA SameMark ==
    ASSUME NEW x \in NodeType, x.rule = "any" => x.str = "",
           NEW p \in Sections \cup {End}
    PROVE  Same(x, p) <=> Mark(x) = Mark(p)
  <1>1. /\ p.rule \in {"fixed", "any"} /\ x.rule \in {"fixed", "any"}
        /\ p.rule = "any" => p.str = ""
    BY MarkFacts DEF NodeType
  <1>2. Mark(x) = Mark(p) => x.rule = p.rule
    BY <1>1, Fields DEF Mark
  <1>3. x.rule = "fixed" /\ p.rule = "fixed" => (Mark(x) = Mark(p) <=> x.str = p.str)
    BY Fields DEF Mark
  <1>4. x.rule = "any" /\ p.rule = "any" => Mark(x) = Mark(p) /\ x.str = p.str
    BY <1>1 DEF Mark
  <1> QED
    BY <1>1, <1>2, <1>3, <1>4 DEF Same

LEMMA ShapeFacts ==
    ASSUME NEW r \in Seq(Sections)
    PROVE  /\ Shape(r) \in Seq(Kinds) /\ Len(Shape(r)) = Len(r)
           /\ \A k \in 1..Len(r) : Shape(r)[k] = Mark(r[k])
                                   /\ Shape(r)[k].rule = r[k].rule
  <1>1. Len(r) \in Nat /\ DOMAIN r = 1..Len(r)
    BY LenProperties
  <1>2. ASSUME NEW k \in 1..Len(r)
        PROVE  /\ Shape(r)[k] = Mark(r[k]) /\ Mark(r[k]) \in Kinds
               /\ Shape(r)[k].rule = r[k].rule
    <2>1. r[k] \in Sections
      BY ElementOfSeq
    <2>2. Shape(r)[k] = IF r[k].rule = "any" THEN MatchAny("") ELSE r[k]
      BY <1>1 DEF Shape
    <2>3. Mark(r[k]) \in Kinds /\ (r[k].rule # "any" => r[k] = Mark(r[k]))
      BY <2>1, MarkFacts
    <2>4. r[k].rule = "any" => Mark(r[k]) = MatchAny("")
      BY DEF Mark
    <2>5. MatchAny("").rule = "any"
      BY DEF MatchAny
    <2> QED
      BY <2>2, <2>3, <2>4, <2>5
  <1>3. Shape(r) \in [1..Len(r) -> Kinds]
    <2>1. DOMAIN Shape(r) = 1..Len(r)
      BY <1>1 DEF Shape
    <2>2. Shape(r) = [k \in 1..Len(r) |-> Shape(r)[k]]
      BY <1>1 DEF Shape
    <2> QED
      BY <1>2, <2>2
  <1>4. Shape(r) \in Seq(Kinds)
    BY <1>1, <1>3, SeqDef
  <1>5. Len(Shape(r)) = Len(r)
    BY <1>1, <1>3, <1>4, LenProperties
  <1> QED
    BY <1>2, <1>4, <1>5

\* What the accepted locations begin with.
LEMMA BeginsFacts ==
    ASSUME routes \in Seq(Seq(Sections))
    PROVE  /\ <<>> \in Begins /\ Begins \subseteq Seq(Kinds)
           /\ Shapes \subseteq Begins
           /\ \A b \in Begins : \A m \in 0..Len(b) : SubSeq(b, 1, m) \in Begins
  <1>1. Shapes \subseteq Seq(Kinds)
    <2> SUFFICES ASSUME NEW h \in DOMAIN routes PROVE Shape(routes[h]) \in Seq(Kinds)
      BY DEF Shapes
    <2>1. routes[h] \in Seq(Sections)
      BY ElementOfSeq, LenProperties
    <2> QED
      BY <2>1, ShapeFacts
  <1> DEFINE P(s) == {SubSeq(s, 1, m) : m \in 0..Len(s)}
             U == UNION {P(s) : s \in Shapes}
  <1>0. Begins = {<<>>} \cup U
    BY DEF Begins
  <1>a. ASSUME NEW s, NEW b PROVE b \in P(s) <=> \E m \in 0..Len(s) : b = SubSeq(s, 1, m)
    OBVIOUS
  <1> HIDE DEF P
  <1>b. ASSUME NEW b PROVE b \in U <=> \E s \in Shapes : b \in P(s)
    OBVIOUS
  <1> HIDE DEF U
  <1>2. <<>> \in Begins /\ <<>> \in Seq(Kinds) /\ Len(<<>>) = 0
    BY <1>0
  <1>3. ASSUME NEW b \in Begins, b # <<>>
        PROVE  \E s \in Shapes : \E m \in 0..Len(s) : b = SubSeq(s, 1, m)
    BY <1>3, <1>0, <1>a, <1>b
  <1>4. ASSUME NEW s \in Shapes, NEW m \in 0..Len(s)
        PROVE  SubSeq(s, 1, m) \in Begins /\ SubSeq(s, 1, m) \in Seq(Kinds)
    <2>1. SubSeq(s, 1, m) \in Begins
      BY <1>0, <1>a, <1>b
    <2> QED
      BY <1>1, <2>1, Prefix
  <1>5. Begins \subseteq Seq(Kinds)
    BY <1>2, <1>3, <1>4
  <1>6. ASSUME NEW s \in Shapes PROVE s \in Begins
    <2>1. s \in Seq(Kinds) /\ Len(s) \in 0..Len(s) /\ SubSeq(s, 1, Len(s)) = s
      BY <1>1, SubSeqFull, LenProperties
    <2> QED
      BY <1>4, <2>1
  <1>7. ASSUME NEW b \in Begins, NEW m \in 0..Len(b) PROVE SubSeq(b, 1, m) \in Begins
    <2>1. CASE b = <<>>
      <3>1. m = 0
        BY <2>1, <1>2
      <3>2. SubSeq(b, 1, 0) = <<>>
        BY SubSeqEmpty
      <3> QED
        BY <3>1, <3>2, <1>2
    <2>2. CASE b # <<>>
      <3>1. PICK s \in Shapes : \E k \in 0..Len(s) : b = SubSeq(s, 1, k)
        BY <2>2, <1>3
      <3>2. PICK k \in 0..Len(s) : b = SubSeq(s, 1, k)
        BY <3>1
      <3>3. s \in Seq(Kinds) /\ Len(s) \in Nat
        BY <1>1, LenProperties
      <3>4. Len(b) = k
        BY <3>2, <3>3, Prefix
      <3>5. SubSeq(b, 1, m) = SubSeq(s, 1, m) /\ m \in 0..Len(s)
        BY <3>2, <3>3, <3>4, PrefixOfPrefix
      <3> QED
        BY <3>5, <1>4
    <2> QED
      BY <2>1, <2>2
  <1> QED
    BY <1>2, <1>5, <1>6, <1>7
-----------------------------------------------------------------------------
(* One more node *)

Pushed(ns, c, p, h) ==
    Append([ns EXCEPT ![c].nexts = Append(@, Len(ns) + 1)], Node(p, h))

Grown(ns, at, c, p) ==
    [m \in 1..(Len(ns) + 1) |->
        IF m = Len(ns) + 1 THEN Append(at[c], Mark(p)) ELSE at[m]]

\* n2 is ns with one more node, x, the last child of c.
OneMore(n2, ns, c, x) ==
    /\ n2 \in Seq(NodeType) /\ Len(n2) = Len(ns) + 1
    /\ \A m \in 1..Len(ns) :
        /\ n2[m] \in NodeType
        /\ n2[m].rule = ns[m].rule /\ n2[m].str = ns[m].str
        /\ n2[m].handler = ns[m].handler
        /\ Mark(n2[m]) = Mark(ns[m])
        /\ m # c => n2[m].nexts = ns[m].nexts
    /\ n2[c].nexts = Append(ns[c].nexts, Len(ns) + 1)
    /\ n2[Len(ns) + 1] = x

LEMMA NodeFields ==
    ASSUME NEW x \in NodeType
    PROVE  /\ x.rule \in {"fixed", "any"} /\ x.str \in Names \cup {"", "/"}
           /\ x.handler \in Nat /\ x.nexts \in Seq(Nat) /\ Len(x.nexts) \in Nat
  <1>1. x.nexts \in Seq(Nat)
    BY DEF NodeType
  <1>2. Len(x.nexts) \in Nat
    BY <1>1, LenProperties
  <1> QED
    BY <1>1, <1>2 DEF NodeType

LEMMA NodeFacts ==
    ASSUME NEW p \in Sections \cup {End}, NEW h \in Nat
    PROVE  /\ Node(p, h) \in NodeType /\ Mark(Node(p, h)) = Mark(p)
           /\ Mark(Node(p, h)) \in Marks
           /\ Node(p, h).rule = "any" => Node(p, h).str = ""
           /\ Node(p, h).nexts = <<>> /\ Node(p, h).handler = h
  <1>1. /\ Node(p, h).rule = p.rule /\ Node(p, h).str = p.str
        /\ Node(p, h).id = p.id /\ Node(p, h).handler = h
        /\ Node(p, h).nexts = <<>>
    BY DEF Node
  <1>2. /\ p.rule \in {"fixed", "any"} /\ p.str \in Names \cup {""}
        /\ p.id \in Ids \cup {""} /\ (p.rule = "any" => p.str = "")
    <2>1. CASE p \in Sections
      BY <2>1, MarkFacts
    <2>2. CASE p = End
      BY <2>2, Fields DEF End
    <2> QED
      BY <2>1, <2>2
  <1>3. Node(p, h) \in NodeType
    <2>1. <<>> \in Seq(Nat)
      OBVIOUS
    <2>2. p.str \in Names \cup {"", "/"}
      BY <1>2
    <2> QED
      BY <1>2, <2>1, <2>2 DEF Node, NodeType
  <1>4. Mark(Node(p, h)) = Mark(p)
    BY <1>1 DEF Mark
  <1>5. Mark(p) \in Marks
    BY MarkFacts DEF Marks
  <1> HIDE DEF Node
  <1> QED
    BY <1>1, <1>2, <1>3, <1>4, <1>5

LEMMA PushedFacts ==
    ASSUME NEW ns \in Seq(NodeType), NEW c \in 1..Len(ns),
           NEW p \in Sections \cup {End}, NEW h \in Nat,
           NEW n2, n2 = Pushed(ns, c, p, h)
    PROVE  OneMore(n2, ns, c, Node(p, h))
  <1> DEFINE x == [ns[c] EXCEPT !.nexts = Append(@, Len(ns) + 1)]
             e == [ns EXCEPT ![c] = x]
  <1>1. Len(ns) \in Nat /\ \A m \in 1..Len(ns) : ns[m] \in NodeType
    BY LenProperties, ElementOfSeq
  <1>2. ns[c].nexts \in Seq(Nat) /\ Len(ns) + 1 \in Nat
    <2>1. ns[c] \in NodeType
      BY <1>1
    <2>2. ns[c].nexts \in Seq(Nat)
      BY <2>1, NodeFields
    <2> QED
      BY <1>1, <2>2
  <1>3. Append(ns[c].nexts, Len(ns) + 1) \in Seq(Nat)
    BY <1>2, AppendProperties
  <1>4. /\ x \in NodeType /\ x.rule = ns[c].rule /\ x.str = ns[c].str
        /\ x.handler = ns[c].handler /\ x.nexts = Append(ns[c].nexts, Len(ns) + 1)
    BY <1>1, <1>3 DEF NodeType
  <1>5. n2 = Append(e, Node(p, h))
    BY DEF Pushed
  <1> HIDE DEF x
  <1>6. /\ e \in Seq(NodeType) /\ Len(e) = Len(ns)
        /\ \A m \in 1..Len(ns) : e[m] = IF m = c THEN x ELSE ns[m]
    BY <1>4, ExceptSeq
  <1> HIDE DEF e
  <1> DEFINE y == Node(p, h)
  <1>a. y \in NodeType
    BY NodeFacts
  <1> HIDE DEF y
  <1>b. n2 = Append(e, y)
    BY <1>5 DEF y
  <1>7. /\ n2 \in Seq(NodeType) /\ Len(n2) = Len(ns) + 1
        /\ \A m \in 1..Len(ns) : n2[m] = e[m]
        /\ n2[Len(ns) + 1] = y
    BY <1>a, <1>b, <1>6, AppendProperties, SMTT(30)
  <1>8. ASSUME NEW m \in 1..Len(ns)
        PROVE  /\ n2[m] \in NodeType
               /\ n2[m].rule = ns[m].rule /\ n2[m].str = ns[m].str
               /\ n2[m].handler = ns[m].handler
               /\ m # c => n2[m].nexts = ns[m].nexts
    BY <1>1, <1>4, <1>6, <1>7
  <1>9. \A m \in 1..Len(ns) : Mark(n2[m]) = Mark(ns[m])
    BY <1>8 DEF Mark
  <1> QED
    BY <1>4, <1>6, <1>7, <1>8, <1>9 DEF y, OneMore

\* A node with a new label keeps the tree labelled.
LEMMA PushedLabels ==
    ASSUME NEW ns, NEW at, Labels(ns, at), NEW c \in 1..Len(ns),
           NEW p \in Sections \cup {End}, NEW h \in Nat,
           \A m \in 1..Len(ns) : at[m] # Append(at[c], Mark(p)),
           NEW n2, n2 = Pushed(ns, c, p, h), NEW a2, a2 = Grown(ns, at, c, p)
    PROVE  Labels(n2, a2)
  <1> DEFINE L == Len(ns)
             N == Len(ns) + 1
  <1>1. ns \in Seq(NodeType) /\ L \in Nat /\ L >= 1 /\ N \in Nat
    <2>1. ns \in Seq(NodeType) /\ Len(ns) >= 1
      BY DEF Labels
    <2>2. Len(ns) \in Nat
      BY <2>1, LenProperties
    <2> QED
      BY <2>1, <2>2
  <1>2. /\ n2 \in Seq(NodeType) /\ Len(n2) = N
        /\ \A m \in 1..L : /\ Mark(n2[m]) = Mark(ns[m])
                           /\ n2[m].rule = ns[m].rule /\ n2[m].str = ns[m].str
                           /\ m # c => n2[m].nexts = ns[m].nexts
        /\ n2[c].nexts = Append(ns[c].nexts, N)
        /\ n2[N] = Node(p, h)
    <2>1. OneMore(n2, ns, c, Node(p, h))
      BY <1>1, PushedFacts
    <2> QED
      BY <2>1 DEF OneMore
  <1>3. /\ Mark(n2[N]) = Mark(p) /\ Mark(n2[N]) \in Marks
        /\ n2[N].rule = "any" => n2[N].str = ""
        /\ n2[N].nexts = <<>>
    <2> DEFINE x == Node(p, h)
    <2>1. /\ Mark(x) = Mark(p) /\ Mark(x) \in Marks /\ x.nexts = <<>>
          /\ x.rule = "any" => x.str = ""
      BY NodeFacts
    <2>2. n2[N] = x
      BY <1>2
    <2> HIDE DEF x, N
    <2> QED
      BY <2>1, <2>2
  <1>4. /\ ns[c].nexts \in Seq(Nat) /\ Len(ns[c].nexts) \in Nat
        /\ Len(n2[c].nexts) = Len(ns[c].nexts) + 1
        /\ \A j \in 1..Len(ns[c].nexts) : n2[c].nexts[j] = ns[c].nexts[j]
        /\ n2[c].nexts[Len(ns[c].nexts) + 1] = N
    <2>1. ns[c] \in NodeType
      BY <1>1, ElementOfSeq
    <2>2. ns[c].nexts \in Seq(Nat)
      BY <2>1 DEF NodeType
    <2> QED
      BY <1>1, <1>2, <2>2, AppendProperties, LenProperties
  <1>5. at \in [1..L -> Seq(Marks)] /\ at[1] = <<>> /\ at[c] \in Seq(Marks)
    BY DEF Labels
  <1>6. Append(at[c], Mark(p)) \in Seq(Marks)
    BY <1>3, <1>5, AppendProperties
  <1>7. /\ a2 \in [1..N -> Seq(Marks)] /\ a2[N] = Append(at[c], Mark(p))
        /\ \A m \in 1..L : a2[m] = at[m]
    BY <1>1, <1>5, <1>6 DEF Grown
  <1>8. \A m \in 1..N : m \in 1..L \/ m = N
    BY <1>1
  <1>9. \A m \in 1..L : m \in 1..N /\ m # N
    BY <1>1
  <1> HIDE DEF L, N
  <1>10. a2[1] = <<>> /\ 1 \in 1..L /\ N \in 1..N
    BY <1>1, <1>5, <1>7 DEF L, N
  <1>11. \A n \in 2..N : Mark(n2[n]) \in Marks /\ (n2[n].rule = "any" => n2[n].str = "")
    <2> SUFFICES ASSUME NEW n \in 2..N
                 PROVE  Mark(n2[n]) \in Marks /\ (n2[n].rule = "any" => n2[n].str = "")
      OBVIOUS
    <2>1. n = N \/ (n \in 2..L /\ n \in 1..L)
      BY <1>1 DEF N, L
    <2>2. CASE n = N
      BY <2>2, <1>3
    <2>3. CASE n \in 2..L /\ n \in 1..L
      <3>1. Mark(ns[n]) \in Marks /\ (ns[n].rule = "any" => ns[n].str = "")
        BY <2>3 DEF Labels, L
      <3>2. /\ Mark(n2[n]) = Mark(ns[n]) /\ n2[n].rule = ns[n].rule
            /\ n2[n].str = ns[n].str
        BY <2>3, <1>2
      <3> QED
        BY <3>1, <3>2
    <2> QED
      BY <2>1, <2>2, <2>3
  <1>12. \A m, n \in 1..N : a2[m] = a2[n] => m = n
    <2>1. \A m, n \in 1..L : at[m] = at[n] => m = n
      BY DEF Labels, L
    <2>2. \A m \in 1..L : at[m] # a2[N]
      BY <1>7 DEF L
    <2> QED
      BY <1>7, <1>8, <2>1, <2>2, ZenonT(30)
  \* The children of a node are those it had, and N for c.
  <1>13. ASSUME NEW n \in 1..N, NEW j \in 1..Len(n2[n].nexts)
         PROVE  /\ n \in 1..L
                /\ \/ j \in 1..Len(ns[n].nexts) /\ n2[n].nexts[j] = ns[n].nexts[j]
                   \/ n = c /\ j = Len(ns[c].nexts) + 1 /\ n2[n].nexts[j] = N
    <2>1. n # N
      <3> SUFFICES ASSUME n = N PROVE FALSE
        OBVIOUS
      <3>1. Len(n2[n].nexts) = 0
        BY <1>3
      <3> QED
        BY <3>1
    <2>2. n \in 1..L
      BY <2>1, <1>8
    <2>3. CASE n # c
      BY <2>2, <2>3, <1>2
    <2>4. CASE n = c
      <3>1. j \in 1..Len(ns[c].nexts) \/ j = Len(ns[c].nexts) + 1
        BY <2>4, <1>4
      <3> QED
        BY <2>2, <2>4, <3>1, <1>4
    <2> QED
      BY <2>3, <2>4
  <1>14. \A n \in 1..L : \A j \in 1..Len(ns[n].nexts) :
            /\ ns[n].nexts[j] \in 2..L /\ ns[n].nexts[j] \in 1..L
            /\ ns[n].nexts[j] # N /\ ns[n].nexts[j] \in 2..N
            /\ at[ns[n].nexts[j]] = Append(at[n], Mark(ns[ns[n].nexts[j]]))
    <2>1. \A k \in 2..L : k \in 1..L /\ k # N /\ k \in 2..N
      BY <1>1 DEF L, N
    <2>2. \A n \in 1..L : \A j \in 1..Len(ns[n].nexts) :
            /\ ns[n].nexts[j] \in 2..L
            /\ at[ns[n].nexts[j]] = Append(at[n], Mark(ns[ns[n].nexts[j]]))
      BY DEF Labels, L
    <2> QED
      BY <2>1, <2>2
  <1>15. ASSUME NEW n \in 1..N, NEW j \in 1..Len(n2[n].nexts)
         PROVE  /\ n2[n].nexts[j] \in 2..N
                /\ a2[n2[n].nexts[j]] = Append(a2[n], Mark(n2[n2[n].nexts[j]]))
    <2>1. n \in 1..L
      BY <1>13
    <2>2. CASE j \in 1..Len(ns[n].nexts) /\ n2[n].nexts[j] = ns[n].nexts[j]
      <3> DEFINE k == ns[n].nexts[j]
      <3>1. k \in 1..L /\ k \in 2..N /\ at[k] = Append(at[n], Mark(ns[k]))
        BY <2>1, <2>2, <1>14
      <3> HIDE DEF k
      <3>2. n2[n].nexts[j] = k
        BY <2>2 DEF k
      <3>3. a2[k] = at[k] /\ a2[n] = at[n] /\ Mark(n2[k]) = Mark(ns[k])
        BY <2>1, <3>1, <1>2, <1>7
      <3> QED
        BY <3>1, <3>2, <3>3
    <2>3. CASE n = c /\ n2[n].nexts[j] = N
      <3>1. N \in 2..N
        BY <1>1 DEF L, N
      <3>2. a2[N] = Append(a2[c], Mark(n2[N]))
        BY <2>1, <2>3, <1>3, <1>7
      <3> QED
        BY <2>3, <3>1, <3>2
    <2> QED
      BY <1>13, <2>2, <2>3
  <1>16. ASSUME NEW n \in 1..N, NEW j \in 1..Len(n2[n].nexts),
                NEW k \in 1..Len(n2[n].nexts), n2[n].nexts[j] = n2[n].nexts[k]
         PROVE  j = k
    <2>1. n \in 1..L
      BY <1>13
    <2>2. \A a, b \in 1..Len(ns[n].nexts) : ns[n].nexts[a] = ns[n].nexts[b] => a = b
      BY <2>1 DEF Labels, L
    <2>3. \A a \in 1..Len(ns[n].nexts) : ns[n].nexts[a] # N
      BY <2>1, <1>14
    <2>4. /\ \/ j \in 1..Len(ns[n].nexts) /\ n2[n].nexts[j] = ns[n].nexts[j]
             \/ n = c /\ j = Len(ns[c].nexts) + 1 /\ n2[n].nexts[j] = N
          /\ \/ k \in 1..Len(ns[n].nexts) /\ n2[n].nexts[k] = ns[n].nexts[k]
             \/ n = c /\ k = Len(ns[c].nexts) + 1 /\ n2[n].nexts[k] = N
      BY <1>13
    <2> QED
      BY <1>16, <2>2, <2>3, <2>4
  <1>17. ASSUME NEW m \in 2..N
         PROVE  \E n \in 1..N : \E j \in 1..Len(n2[n].nexts) : n2[n].nexts[j] = m
    <2>1. CASE m = N
      <3>1. c \in 1..N /\ Len(ns[c].nexts) + 1 \in 1..Len(n2[c].nexts)
        BY <1>4, <1>9 DEF L
      <3> QED
        BY <2>1, <3>1, <1>4
    <2>2. CASE m # N
      <3>1. m \in 2..L
        BY <2>2, <1>1 DEF L, N
      <3>2. PICK n \in 1..L : \E j \in 1..Len(ns[n].nexts) : ns[n].nexts[j] = m
        BY <3>1 DEF Labels, L
      <3>3. PICK j \in 1..Len(ns[n].nexts) : ns[n].nexts[j] = m
        BY <3>2
      <3>4. n \in 1..N
        BY <1>9
      <3>5. j \in 1..Len(n2[n].nexts) /\ n2[n].nexts[j] = m
        <4>1. CASE n = c
          BY <4>1, <3>3, <1>4
        <4>2. CASE n # c
          <5>1. n2[n].nexts = ns[n].nexts
            BY <4>2, <1>2
          <5> QED
            BY <5>1, <3>3
        <4> QED
          BY <4>1, <4>2
      <3> QED
        BY <3>4, <3>5
    <2> QED
      BY <2>1, <2>2
  <1>18. Len(n2) >= 1 /\ Len(n2) = N
    BY <1>1, <1>2 DEF L, N
  <1>19. n2 \in Seq(NodeType) /\ a2 \in [1..Len(n2) -> Seq(Marks)] /\ a2[1] = <<>>
    BY <1>2, <1>7, <1>10, <1>18
  <1>20. \A n \in 1..Len(n2) : \A j \in 1..Len(n2[n].nexts) :
            /\ n2[n].nexts[j] \in 2..Len(n2)
            /\ a2[n2[n].nexts[j]] = Append(a2[n], Mark(n2[n2[n].nexts[j]]))
    BY <1>15, <1>18
  <1>21. \A n \in 1..Len(n2) : \A j, k \in 1..Len(n2[n].nexts) :
            n2[n].nexts[j] = n2[n].nexts[k] => j = k
    BY <1>16, <1>18
  <1>22. \A m \in 2..Len(n2) :
            \E n \in 1..Len(n2) : \E j \in 1..Len(n2[n].nexts) : n2[n].nexts[j] = m
    BY <1>17, <1>18
  <1>23. \A n \in 2..Len(n2) :
            Mark(n2[n]) \in Marks /\ (n2[n].rule = "any" => n2[n].str = "")
    BY <1>11, <1>18
  <1>24. \A m, n \in 1..Len(n2) : a2[m] = a2[n] => m = n
    BY <1>12, <1>18
  <1> QED
    BY <1>18, <1>19, <1>20, <1>21, <1>22, <1>23, <1>24, Zenon DEF Labels
-----------------------------------------------------------------------------
(* Facts about a labelled tree *)

LEMMA LabelsFacts ==
    ASSUME NEW ns, NEW at, Labels(ns, at)
    PROVE  /\ ns \in Seq(NodeType) /\ Len(ns) \in Nat /\ Len(ns) >= 1
           /\ 1 \in 1..Len(ns)
           /\ \A m \in 1..Len(ns) :
                /\ ns[m] \in NodeType /\ at[m] \in Seq(Marks)
                /\ Len(ns[m].nexts) \in Nat /\ ns[m].nexts \in Seq(Nat)
                /\ m # 1 => m \in 2..Len(ns)
           /\ \A m \in 2..Len(ns) : m \in 1..Len(ns) /\ m # 1
  <1>1. ns \in Seq(NodeType) /\ Len(ns) >= 1 /\ at \in [1..Len(ns) -> Seq(Marks)]
    BY DEF Labels
  <1>2. Len(ns) \in Nat
    BY <1>1, LenProperties
  <1>3. ASSUME NEW m \in 1..Len(ns)
        PROVE  /\ ns[m] \in NodeType /\ at[m] \in Seq(Marks)
               /\ Len(ns[m].nexts) \in Nat /\ ns[m].nexts \in Seq(Nat)
               /\ m # 1 => m \in 2..Len(ns)
    <2>1. ns[m] \in NodeType
      BY <1>1, ElementOfSeq
    <2>2. Len(ns[m].nexts) \in Nat /\ ns[m].nexts \in Seq(Nat)
      BY <2>1, NodeFields
    <2> QED
      BY <1>1, <1>2, <2>1, <2>2
  <1> QED
    BY <1>1, <1>2, <1>3

LEMMA LastMark ==
    ASSUME NEW S, NEW s \in Seq(S), NEW t \in Seq(S), NEW e \in S, NEW f \in S,
           Append(s, e) = Append(t, f)
    PROVE  s = t /\ e = f
  BY AppendInjective

LEMMA AppendNotEmpty ==
    ASSUME NEW S, NEW s \in Seq(S), NEW e \in S PROVE Append(s, e) # <<>>
  BY AppendProperties

\* The node with the label of a child is the child.
LEMMA ChildOf ==
    ASSUME NEW ns, NEW at, Labels(ns, at), NEW c \in 1..Len(ns),
           NEW m \in 1..Len(ns), NEW k \in Marks, at[m] = Append(at[c], k)
    PROVE  /\ m # 1 /\ Mark(ns[m]) = k
           /\ \E j \in 1..Len(ns[c].nexts) : ns[c].nexts[j] = m
  <1>1. at[c] \in Seq(Marks) /\ at[1] = <<>>
    BY LabelsFacts DEF Labels
  <1>2. Append(at[c], k) # <<>>
    BY <1>1, AppendProperties
  <1>3. m # 1 /\ m \in 2..Len(ns)
    BY <1>1, <1>2, LabelsFacts
  <1>4. PICK n \in 1..Len(ns) : \E j \in 1..Len(ns[n].nexts) : ns[n].nexts[j] = m
    BY <1>3 DEF Labels
  <1>5. PICK j \in 1..Len(ns[n].nexts) : ns[n].nexts[j] = m
    BY <1>4
  <1>6. at[m] = Append(at[n], Mark(ns[m]))
    BY <1>5, ZenonT(30) DEF Labels
  <1>7. Mark(ns[m]) \in Marks /\ at[n] \in Seq(Marks)
    BY <1>3, LabelsFacts DEF Labels
  <1>8. at[n] = at[c] /\ Mark(ns[m]) = k
    <2> DEFINE s == at[n]
               t == at[c]
               e == Mark(ns[m])
    <2>1. s \in Seq(Marks) /\ t \in Seq(Marks) /\ e \in Marks
          /\ Append(s, e) = Append(t, k)
      BY <1>1, <1>6, <1>7
    <2> HIDE DEF s, t, e
    <2>2. s = t /\ e = k
      BY <2>1, LastMark
    <2> QED
      BY <2>2 DEF s, t, e
  <1>9. n = c
    BY <1>8 DEF Labels
  <1> QED
    BY <1>3, <1>5, <1>8, <1>9

\* A child and its label.
ChildLabel(ns, at, c, m) ==
    /\ m \in 2..Len(ns) /\ m \in 1..Len(ns) /\ m # 1
    /\ at[m] = Append(at[c], Mark(ns[m])) /\ Mark(ns[m]) \in Marks
    /\ ns[m].rule = "any" => ns[m].str = ""

LEMMA LabelOf ==
    ASSUME NEW ns, NEW at, Labels(ns, at), NEW c \in 1..Len(ns),
           NEW j \in 1..Len(ns[c].nexts), NEW m, m = ns[c].nexts[j]
    PROVE  ChildLabel(ns, at, c, m)
  <1>1. m \in 2..Len(ns) /\ at[m] = Append(at[c], Mark(ns[m]))
    BY DEF Labels
  <1>2. Mark(ns[m]) \in Marks /\ (ns[m].rule = "any" => ns[m].str = "")
    BY <1>1 DEF Labels
  <1>3. m \in 1..Len(ns) /\ m # 1
    BY <1>1, LabelsFacts
  <1> QED
    BY <1>1, <1>2, <1>3 DEF ChildLabel

\* A node that has a child need not be open.
LEMMA Closed ==
    ASSUME NEW ns, NEW at, NEW rs, NEW inner, NEW c, NEW open,
           Holds(ns, at, rs, inner, {c}), ns[c].nexts # <<>>
    PROVE  Holds(ns, at, rs, inner, open)
  BY DEF Holds

\* The leaves of a tree with one more node.
LEMMA LeavesKept ==
    ASSUME NEW ns, NEW at, Labels(ns, at), NEW c \in 1..Len(ns), NEW x, NEW n2,
           OneMore(n2, ns, c, x), ~Leaf(ns, c)
    PROVE  /\ \A m \in 1..Len(ns) : Leaf(n2, m) <=> Leaf(ns, m)
           /\ \A m \in 1..Len(ns) : /\ n2[m].handler = ns[m].handler
                                    /\ Leaf(n2, m) => n2[m].nexts = ns[m].nexts
                                    /\ m # c => n2[m].nexts = ns[m].nexts
           /\ n2[c].nexts # <<>>
           /\ \A m \in 1..Len(n2) : m \in 1..Len(ns) \/ m = Len(ns) + 1
           /\ \A m \in 1..Len(ns) : m \in 1..Len(n2)
           /\ Len(ns) + 1 \in 1..Len(n2) /\ Len(ns) + 1 # 1
  <1>1. Len(ns) \in Nat /\ Len(ns) >= 1 /\ ns[c].nexts \in Seq(Nat) /\ Len(ns) + 1 \in Nat
    BY LabelsFacts
  <1>2. \A m \in 1..Len(ns) :
            /\ Mark(n2[m]) = Mark(ns[m]) /\ n2[m].handler = ns[m].handler
            /\ m # c => n2[m].nexts = ns[m].nexts
    BY DEF OneMore
  <1>3. \A m \in 1..Len(ns) : Leaf(n2, m) <=> Leaf(ns, m)
    BY <1>2 DEF Leaf
  <1>4. n2[c].nexts = Append(ns[c].nexts, Len(ns) + 1) /\ Len(n2) = Len(ns) + 1
    BY DEF OneMore
  <1>5. n2[c].nexts # <<>>
    <2>1. Append(ns[c].nexts, Len(ns) + 1) # <<>>
      BY <1>1, AppendNotEmpty
    <2> QED
      BY <1>4, <2>1
  <1>6. /\ \A m \in 1..Len(n2) : m \in 1..Len(ns) \/ m = Len(ns) + 1
        /\ \A m \in 1..Len(ns) : m \in 1..Len(n2)
        /\ Len(ns) + 1 \in 1..Len(n2) /\ Len(ns) + 1 # 1
    BY <1>1, <1>4
  <1> QED
    BY <1>2, <1>3, <1>5, <1>6

LEMMA GrownFacts ==
    ASSUME NEW ns, NEW at, Labels(ns, at), NEW c \in 1..Len(ns), NEW p,
           NEW a2, a2 = Grown(ns, at, c, p)
    PROVE  /\ a2[Len(ns) + 1] = Append(at[c], Mark(p))
           /\ \A m \in 1..Len(ns) : a2[m] = at[m]
  <1>1. Len(ns) \in Nat
    BY LabelsFacts
  <1> QED
    BY <1>1 DEF Grown

\* A new section: its label is a new beginning.
LEMMA PushedInner ==
    ASSUME NEW ns, NEW at, Labels(ns, at), NEW c \in 1..Len(ns), NEW p \in Sections,
           NEW rs, NEW inner, Holds(ns, at, rs, inner, {c}), ~Leaf(ns, c),
           NEW n2, n2 = Pushed(ns, c, p, NoHandler),
           NEW a2, a2 = Grown(ns, at, c, p),
           NEW inner2, inner2 = inner \cup {Append(at[c], Mark(p))}
    PROVE  Holds(n2, a2, rs, inner2, {Len(ns) + 1})
  <1> DEFINE N == Len(ns) + 1
             x == Node(p, NoHandler)
  <1>1. OneMore(n2, ns, c, x)
    BY LabelsFacts, PushedFacts DEF NoHandler
  <1>2. n2[N] = x /\ x.nexts = <<>> /\ Mark(x) = Mark(p) /\ Mark(p) # End
    <2>1. n2[N] = x
      BY <1>1 DEF OneMore
    <2>2. x.nexts = <<>> /\ Mark(x) = Mark(p)
      BY NodeFacts DEF NoHandler
    <2>3. Mark(p) # End
      BY MarkFacts
    <2> QED
      BY <2>1, <2>2, <2>3
  <1> HIDE DEF x
  <1>3. ~Leaf(n2, N)
    BY <1>2 DEF Leaf
  <1>4. a2[N] = Append(at[c], Mark(p)) /\ \A m \in 1..Len(ns) : a2[m] = at[m]
    <2>1. Len(ns) \in Nat
      BY LabelsFacts
    <2> QED
      BY <2>1 DEF Grown
  <1>5. /\ \A m \in 1..Len(ns) : Leaf(n2, m) <=> Leaf(ns, m)
        /\ \A m \in 1..Len(ns) : /\ n2[m].handler = ns[m].handler
                                 /\ Leaf(n2, m) => n2[m].nexts = ns[m].nexts
                                 /\ m # c => n2[m].nexts = ns[m].nexts
        /\ n2[c].nexts # <<>>
        /\ \A m \in 1..Len(n2) : m \in 1..Len(ns) \/ m = N
        /\ \A m \in 1..Len(ns) : m \in 1..Len(n2)
        /\ N \in 1..Len(n2)
    BY <1>1, LeavesKept
  <1> HIDE DEF N
  <1>6. ASSUME NEW m \in 1..Len(n2), Leaf(n2, m)
        PROVE  /\ n2[m].nexts = <<>> /\ n2[m].handler \in 1..Len(rs)
               /\ a2[m] = Append(Shape(rs[n2[m].handler]), End)
    <2>1. m \in 1..Len(ns) /\ Leaf(ns, m)
      BY <1>3, <1>5, <1>6
    <2>2. /\ ns[m].nexts = <<>> /\ ns[m].handler \in 1..Len(rs)
          /\ at[m] = Append(Shape(rs[ns[m].handler]), End)
      BY <2>1 DEF Holds
    <2> QED
      BY <2>1, <2>2, <1>4, <1>5, <1>6
  <1>7. ASSUME NEW m \in 1..Len(n2), ~Leaf(n2, m)
        PROVE  a2[m] \in inner2 /\ (n2[m].nexts = <<>> => m \in {N} \cup {1})
    <2>1. CASE m = N
      BY <2>1, <1>4
    <2>2. CASE m \in 1..Len(ns)
      <3>1. at[m] \in inner /\ (ns[m].nexts = <<>> => m \in {c} \cup {1})
        BY <2>2, <1>5, <1>7 DEF Holds
      <3> QED
        BY <2>2, <3>1, <1>4, <1>5
    <2> QED
      BY <1>5, <2>1, <2>2
  <1>8. ASSUME NEW b \in inner2
        PROVE  \E m \in 1..Len(n2) : ~Leaf(n2, m) /\ a2[m] = b
    <2>1. CASE b \in inner
      <3>1. PICK m \in 1..Len(ns) : ~Leaf(ns, m) /\ at[m] = b
        BY <2>1 DEF Holds
      <3> QED
        BY <3>1, <1>4, <1>5
    <2>2. CASE b = Append(at[c], Mark(p))
      BY <2>2, <1>3, <1>4, <1>5
    <2> QED
      BY <2>1, <2>2
  <1>9. ASSUME NEW h \in 1..Len(rs)
        PROVE  \E m \in 1..Len(n2) : Leaf(n2, m) /\ n2[m].handler = h
    <2>1. PICK m \in 1..Len(ns) : Leaf(ns, m) /\ ns[m].handler = h
      BY DEF Holds
    <2> QED
      BY <2>1, <1>5
  <1> QED
    BY <1>6, <1>7, <1>8, <1>9 DEF Holds, N

\* A new leaf: one more route.
LEMMA PushedLeaf ==
    ASSUME NEW ns, NEW at, Labels(ns, at), NEW c \in 1..Len(ns),
           NEW rs \in Seq(Seq(Sections)), NEW r \in Seq(Sections), at[c] = Shape(r),
           NEW inner, Holds(ns, at, rs, inner, {c}), ~Leaf(ns, c),
           NEW n2, n2 = Pushed(ns, c, End, Len(rs) + 1),
           NEW a2, a2 = Grown(ns, at, c, End)
    PROVE  Holds(n2, a2, Append(rs, r), inner, {})
  <1> DEFINE N == Len(ns) + 1
             H == Len(rs) + 1
             rs2 == Append(rs, r)
             x == Node(End, H)
  <1>1. /\ Len(rs) \in Nat /\ H \in Nat /\ Len(rs2) = H /\ rs2[H] = r
        /\ \A h \in 1..Len(rs) : rs2[h] = rs[h] /\ h \in 1..H
        /\ H \in 1..H
        /\ \A h \in 1..H : h \in 1..Len(rs) \/ h = H
    <2>1. Len(rs) \in Nat
      BY LenProperties
    <2>2. /\ Len(rs2) = H /\ rs2[H] = r /\ \A h \in 1..Len(rs) : rs2[h] = rs[h]
      BY AppendProperties
    <2> QED
      BY <2>1, <2>2
  <1> HIDE DEF rs2
  <1>2. OneMore(n2, ns, c, x)
    BY <1>1, LabelsFacts, PushedFacts
  <1>3. n2[N] = x /\ x.nexts = <<>> /\ Mark(x) = End /\ x.handler = H
    <2>1. n2[N] = x
      BY <1>2 DEF OneMore
    <2>2. x.nexts = <<>> /\ Mark(x) = Mark(End) /\ x.handler = H
      BY <1>1, NodeFacts
    <2>3. Mark(End) = End
      BY MarkFacts
    <2> QED
      BY <2>1, <2>2, <2>3
  <1> HIDE DEF x, H
  <1>4. a2[N] = Append(at[c], End) /\ \A m \in 1..Len(ns) : a2[m] = at[m]
    <2>1. Mark(End) = End
      BY MarkFacts
    <2>2. a2[N] = Append(at[c], Mark(End)) /\ \A m \in 1..Len(ns) : a2[m] = at[m]
      <3>1. Len(ns) \in Nat
        BY LabelsFacts
      <3> QED
        BY <3>1 DEF Grown
    <2> QED
      BY <2>1, <2>2
  <1>5. /\ \A m \in 1..Len(ns) : Leaf(n2, m) <=> Leaf(ns, m)
        /\ \A m \in 1..Len(ns) : /\ n2[m].handler = ns[m].handler
                                 /\ Leaf(n2, m) => n2[m].nexts = ns[m].nexts
                                 /\ m # c => n2[m].nexts = ns[m].nexts
        /\ n2[c].nexts # <<>>
        /\ \A m \in 1..Len(n2) : m \in 1..Len(ns) \/ m = N
        /\ \A m \in 1..Len(ns) : m \in 1..Len(n2)
        /\ N \in 1..Len(n2) /\ N # 1
    BY <1>2, LeavesKept
  <1> HIDE DEF N
  <1>6. Leaf(n2, N)
    BY <1>3, <1>5 DEF Leaf
  <1>7. ASSUME NEW m \in 1..Len(n2), Leaf(n2, m)
        PROVE  /\ n2[m].nexts = <<>> /\ n2[m].handler \in 1..H
               /\ a2[m] = Append(Shape(rs2[n2[m].handler]), End)
    <2>1. CASE m \in 1..Len(ns)
      <3>1. /\ ns[m].nexts = <<>> /\ ns[m].handler \in 1..Len(rs)
            /\ at[m] = Append(Shape(rs[ns[m].handler]), End)
        BY <2>1, <1>5, <1>7 DEF Holds
      <3> QED
        BY <2>1, <3>1, <1>1, <1>4, <1>5, <1>7
    <2>2. CASE m = N
      BY <2>2, <1>1, <1>3, <1>4
    <2> QED
      BY <2>1, <2>2, <1>5
  <1>8. ASSUME NEW m \in 1..Len(n2), ~Leaf(n2, m)
        PROVE  a2[m] \in inner /\ (n2[m].nexts = <<>> => m \in {} \cup {1})
    <2>1. m \in 1..Len(ns) /\ ~Leaf(ns, m)
      BY <1>5, <1>6, <1>8
    <2>2. at[m] \in inner /\ (ns[m].nexts = <<>> => m \in {c} \cup {1})
      BY <2>1 DEF Holds
    <2> QED
      BY <2>1, <2>2, <1>4, <1>5
  <1>9. ASSUME NEW b \in inner
        PROVE  \E m \in 1..Len(n2) : ~Leaf(n2, m) /\ a2[m] = b
    <2>1. PICK m \in 1..Len(ns) : ~Leaf(ns, m) /\ at[m] = b
      BY DEF Holds
    <2> QED
      BY <2>1, <1>4, <1>5
  <1>10. ASSUME NEW h \in 1..H
         PROVE  \E m \in 1..Len(n2) : Leaf(n2, m) /\ n2[m].handler = h
    <2>1. CASE h = H
      BY <2>1, <1>3, <1>5, <1>6
    <2>2. CASE h \in 1..Len(rs)
      <3>1. PICK m \in 1..Len(ns) : Leaf(ns, m) /\ ns[m].handler = h
        BY <2>2 DEF Holds
      <3> QED
        BY <3>1, <1>5
    <2> QED
      BY <2>1, <2>2, <1>1
  <1>11. Len(rs2) = H
    BY <1>1
  <1>12. Holds(n2, a2, rs2, inner, {})
    BY <1>7, <1>8, <1>9, <1>10, <1>11 DEF Holds
  <1> QED
    BY <1>12 DEF rs2
-----------------------------------------------------------------------------
(* Facts about what the accepted locations say of a path *)

\* How a location that has begun with q goes on at a segment, if it does; and
\* that the segment ends it.
KindAt(q, seg) == IF Append(q, FixedString(seg)) \in Begins
                  THEN FixedString(seg) ELSE MatchAny("")
EndsAt(q, seg) == q \in Shapes /\ seg = ""

\* Some location goes on from q at a segment.
GoesOn(q, seg) == \/ Append(q, FixedString(seg)) \in Begins
                  \/ Append(q, MatchAny("")) \in Begins

\* q is enough of a location for the path.
Complete(q, path) == \/ Segment(path, Len(q) + 1) = ""
                     \/ \A b \in Begins : IsPrefix(q, b) => b = q

\* Follows, for sequences of sections.
LEMMA FollowsFacts ==
    ASSUME NEW q \in Seq(Kinds), NEW path
    PROVE  Follows(q, path) <=>
             \A k \in 1..Len(q) :
                /\ q[k] = KindAt(SubSeq(q, 1, k - 1), Segment(path, k))
                /\ ~EndsAt(SubSeq(q, 1, k - 1), Segment(path, k))
  <1>1. DOMAIN q = 1..Len(q)
    BY LenProperties
  <1> QED
    BY <1>1 DEF Follows, KindAt, EndsAt

LEMMA ChosenFacts ==
    ASSUME NEW path, NEW r
    PROVE  r \in Chosen(path) <=> r \in Shapes /\ Follows(r, path) /\ Complete(r, path)
  BY DEF Chosen, Complete

\* Two beginnings that follow the same path agree as far as both go.
LEMMA FollowsAgree ==
    ASSUME NEW q \in Seq(Kinds), NEW r \in Seq(Kinds), NEW path,
           Follows(q, path), Follows(r, path)
    PROVE  \A k \in 1..Len(q) : k <= Len(r) => q[k] = r[k]
  <1> DEFINE T == {k \in 1..Len(q) : k <= Len(r) /\ q[k] # r[k]}
  <1>0. Len(q) \in Nat /\ Len(r) \in Nat
    BY LenProperties
  <1> SUFFICES ASSUME T # {} PROVE FALSE
    OBVIOUS
  <1>1. PICK x \in T : \A y \in T : x <= y
    <2>1. T \subseteq Nat
      OBVIOUS
    <2> HIDE DEF T
    <2> QED
      BY <2>1, Least
  <1>2. x \in 1..Len(q) /\ x <= Len(r) /\ q[x] # r[x] /\ x \in 1..Len(r)
    BY <1>0
  <1>3. ASSUME NEW j \in 1..(x - 1) PROVE q[j] = r[j]
    <2>1. j \in 1..Len(q) /\ j <= Len(r) /\ ~(x <= j)
      BY <1>0, <1>2
    <2> QED
      BY <1>1, <2>1
  <1> HIDE DEF T
  <1>4. SubSeq(q, 1, x - 1) = SubSeq(r, 1, x - 1)
    <2>1. x - 1 \in 0..Len(q) /\ x - 1 <= Len(r)
      BY <1>0, <1>2
    <2> QED
      BY <1>3, <2>1, PrefixEqual
  <1>5. /\ q[x] = KindAt(SubSeq(q, 1, x - 1), Segment(path, x))
        /\ r[x] = KindAt(SubSeq(r, 1, x - 1), Segment(path, x))
    BY <1>2, FollowsFacts
  <1> QED
    BY <1>2, <1>4, <1>5

\* One section further along the path.
LEMMA FollowsOn ==
    ASSUME NEW q \in Seq(Kinds), NEW path, Follows(q, path), NEW e \in Kinds,
           NEW seg, seg = Segment(path, Len(q) + 1),
           e = KindAt(q, seg), ~EndsAt(q, seg)
    PROVE  Follows(Append(q, e), path)
  <1> DEFINE r == Append(q, e)
  <1>1. Len(q) \in Nat
    BY LenProperties
  <1>2. /\ r \in Seq(Kinds) /\ Len(r) = Len(q) + 1 /\ r[Len(q) + 1] = e
        /\ \A k \in 1..Len(q) : r[k] = q[k]
    BY AppendProperties
  <1>3. \A m \in 0..Len(q) : SubSeq(r, 1, m) = SubSeq(q, 1, m)
    BY PrefixOfAppend
  <1> HIDE DEF r
  <1>4. SubSeq(q, 1, Len(q)) = q
    BY SubSeqFull
  <1>5. ASSUME NEW k \in 1..Len(r)
        PROVE  /\ r[k] = KindAt(SubSeq(r, 1, k - 1), Segment(path, k))
               /\ ~EndsAt(SubSeq(r, 1, k - 1), Segment(path, k))
    <2>1. k \in 1..Len(q) \/ k = Len(q) + 1
      BY <1>1, <1>2
    <2>2. CASE k \in 1..Len(q)
      <3>1. k - 1 \in 0..Len(q)
        BY <1>1, <2>2
      <3>2. SubSeq(r, 1, k - 1) = SubSeq(q, 1, k - 1) /\ r[k] = q[k]
        BY <3>1, <2>2, <1>2, <1>3
      <3>3. /\ q[k] = KindAt(SubSeq(q, 1, k - 1), Segment(path, k))
            /\ ~EndsAt(SubSeq(q, 1, k - 1), Segment(path, k))
        BY <2>2, FollowsFacts
      <3> QED
        BY <3>2, <3>3
    <2>3. CASE k = Len(q) + 1
      <3>1. k - 1 = Len(q) /\ Len(q) \in 0..Len(q)
        BY <1>1, <2>3
      <3>2. SubSeq(r, 1, k - 1) = q /\ Segment(path, k) = seg /\ r[k] = e
        BY <3>1, <2>3, <1>2, <1>3, <1>4
      <3> QED
        BY <3>2
    <2> QED
      BY <2>1, <2>2, <2>3
  <1>6. Follows(r, path)
    BY <1>2, <1>5, FollowsFacts
  <1> QED
    BY <1>6 DEF r

\* A location that is chosen goes on from every beginning that follows the
\* path.
LEMMA ChosenGoesOn ==
    ASSUME routes \in Seq(Seq(Sections)), NEW q \in Begins, NEW path,
           Follows(q, path), NEW r \in Chosen(path)
    PROVE  /\ r \in Shapes /\ Follows(r, path) /\ r \in Seq(Kinds)
           /\ Len(q) <= Len(r) /\ SubSeq(r, 1, Len(q)) = q
           /\ Len(r) = Len(q) => r = q
           /\ q \in Seq(Kinds) /\ Len(q) \in Nat /\ Len(r) \in Nat
           /\ Complete(r, path) /\ r \in Begins
  <1>1. r \in Shapes /\ Follows(r, path) /\ Complete(r, path)
    BY ChosenFacts
  <1>2. q \in Seq(Kinds) /\ r \in Seq(Kinds) /\ r \in Begins
    BY <1>1, BeginsFacts
  <1>3. Len(q) \in Nat /\ Len(r) \in Nat
    BY <1>2, LenProperties
  <1>4. \A k \in 1..Len(q) : k <= Len(r) => q[k] = r[k]
    BY <1>1, <1>2, FollowsAgree
  <1>5. Len(q) <= Len(r)
    <2> SUFFICES ASSUME Len(r) < Len(q) PROVE FALSE
      BY <1>3
    <2>1. Len(r) \in 0..Len(r) /\ Len(r) \in 0..Len(q) /\ Len(r) + 1 \in 1..Len(q)
          /\ (Len(r) + 1) - 1 = Len(r)
      BY <1>3
    <2>2. \A k \in 1..Len(r) : r[k] = q[k]
      BY <1>3, <1>4
    <2>3. SubSeq(r, 1, Len(r)) = SubSeq(q, 1, Len(r)) /\ SubSeq(r, 1, Len(r)) = r
      BY <1>2, <2>1, <2>2, PrefixEqual, SubSeqFull
    <2>4. ~EndsAt(SubSeq(q, 1, (Len(r) + 1) - 1), Segment(path, Len(r) + 1))
      BY <1>2, <2>1, FollowsFacts
    <2>5. ~EndsAt(r, Segment(path, Len(r) + 1))
      BY <2>1, <2>3, <2>4
    <2>6. IsPrefix(r, q)
      BY <2>3 DEF IsPrefix
    <2>7. q = r
      BY <1>1, <2>5, <2>6 DEF EndsAt, Complete
    <2> QED
      BY <1>3, <2>7
  <1>6. SubSeq(r, 1, Len(q)) = q
    <2>1. Len(q) \in 0..Len(q) /\ \A k \in 1..Len(q) : q[k] = r[k]
      BY <1>3, <1>4, <1>5
    <2>2. SubSeq(q, 1, Len(q)) = SubSeq(r, 1, Len(q)) /\ SubSeq(q, 1, Len(q)) = q
      BY <1>2, <1>5, <2>1, PrefixEqual, SubSeqFull
    <2> QED
      BY <2>2
  <1>7. Len(r) = Len(q) => r = q
    <2>1. SubSeq(r, 1, Len(r)) = r
      BY <1>2, SubSeqFull
    <2> QED
      BY <1>6, <2>1
  <1> QED
    BY <1>1, <1>2, <1>3, <1>5, <1>6, <1>7

\* The walk ends at the end of a location.
LEMMA ChosenHere ==
    ASSUME routes \in Seq(Seq(Sections)), NEW q \in Shapes, NEW path, Follows(q, path),
           Complete(q, path)
    PROVE  Chosen(path) = {q}
  <1>1. q \in Chosen(path)
    BY ChosenFacts
  <1>2. ASSUME NEW r \in Chosen(path) PROVE r = q
    <2>1. q \in Begins
      BY BeginsFacts
    <2>2. /\ r \in Shapes /\ Follows(r, path) /\ r \in Seq(Kinds)
          /\ Len(q) <= Len(r) /\ SubSeq(r, 1, Len(q)) = q
          /\ Len(r) = Len(q) => r = q
          /\ q \in Seq(Kinds) /\ Len(q) \in Nat /\ Len(r) \in Nat /\ r \in Begins
      BY <2>1, ChosenGoesOn
    <2>3. CASE Len(q) = Len(r)
      BY <2>2, <2>3
    <2>4. CASE Len(q) < Len(r)
      <3>1. Len(q) + 1 \in 1..Len(r) /\ (Len(q) + 1) - 1 = Len(q)
        BY <2>2, <2>4
      <3>2. ~EndsAt(SubSeq(r, 1, (Len(q) + 1) - 1), Segment(path, Len(q) + 1))
        BY <2>2, <3>1, FollowsFacts
      <3>3. ~EndsAt(q, Segment(path, Len(q) + 1))
        BY <2>2, <3>1, <3>2
      <3>4. SubSeq(q, 1, Len(q)) = q
        BY <2>2, SubSeqFull
      <3>5. IsPrefix(q, r)
        BY <2>2, <3>4 DEF IsPrefix
      <3> QED
        BY <2>2, <3>3, <3>5 DEF EndsAt, Complete
    <2> QED
      BY <2>2, <2>3, <2>4
  <1> QED
    BY <1>1, <1>2

\* The walk ends where no location goes on.
LEMMA ChosenNone ==
    ASSUME routes \in Seq(Seq(Sections)), NEW q \in Begins, NEW path, Follows(q, path),
           ~GoesOn(q, Segment(path, Len(q) + 1)), ~(q \in Shapes /\ Complete(q, path))
    PROVE  Chosen(path) = {}
  <1> SUFFICES ASSUME NEW r \in Chosen(path) PROVE FALSE
    OBVIOUS
  <1> DEFINE seg == Segment(path, Len(q) + 1)
  <1>1. /\ r \in Shapes /\ Follows(r, path) /\ r \in Seq(Kinds)
        /\ Len(q) <= Len(r) /\ SubSeq(r, 1, Len(q)) = q
        /\ Len(r) = Len(q) => r = q
        /\ q \in Seq(Kinds) /\ Len(q) \in Nat /\ Len(r) \in Nat
        /\ Complete(r, path) /\ r \in Begins
    BY ChosenGoesOn
  <1>2. CASE Len(r) = Len(q)
    BY <1>1, <1>2
  <1>3. CASE Len(q) < Len(r)
    <2>1. Len(q) + 1 \in 1..Len(r) /\ (Len(q) + 1) - 1 = Len(q) /\ Len(q) + 1 \in 0..Len(r)
      BY <1>1, <1>3
    <2>2. SubSeq(r, 1, Len(q) + 1) = Append(q, r[Len(q) + 1])
      <3>1. SubSeq(r, 1, Len(q) + 1) = Append(SubSeq(r, 1, (Len(q) + 1) - 1), r[Len(q) + 1])
        BY <1>1, <2>1, PrefixGrows
      <3> QED
        BY <1>1, <2>1, <3>1
    <2>3. SubSeq(r, 1, Len(q) + 1) \in Begins
      BY <1>1, <2>1, BeginsFacts
    <2>4. r[Len(q) + 1] = KindAt(SubSeq(r, 1, (Len(q) + 1) - 1), seg)
      BY <1>1, <2>1, FollowsFacts
    <2>5. r[Len(q) + 1] \in {FixedString(seg), MatchAny("")}
      BY <2>4 DEF KindAt
    <2> QED
      BY <2>2, <2>3, <2>5 DEF GoesOn
  <1> QED
    BY <1>1, <1>2, <1>3-----------------------------------------------------------------------------
(* The steps *)

LEMMA SameBegins ==
    ASSUME routes' = routes PROVE Shapes' = Shapes /\ Begins' = Begins
  <1>1. Shapes' = Shapes
    BY DEF Shapes
  <1> QED
    BY <1>1 DEF Begins

\* A labelling found after a step gives the invariant.
LEMMA Rebuild ==
    ASSUME NEW at, Placed(at)', RouterType', Answers'
    PROVE  RInv'
  <1>1. at \in [1..Len(nodes') -> Seq(Marks)]
    BY DEF Placed, Labels
  <1> QED
    BY <1>1 DEF RInv

LEMMA NotDone ==
    ASSUME phase' # "parsed" \/ find'.result = "EmptyURL"
    PROVE  Answers'
  BY DEF Answers, LookupCorrect, ParamsRight, FoundRoute, Done

\* A step that leaves the tree alone and is not part of add_new_handler.
LEMMA SteadyTree ==
    ASSUME NEW at, Placed(at), phase # "adding", phase' # "adding",
           nodes' = nodes, routes' = routes, FindInv(at)'
    PROVE  Placed(at)'
  <1>1. Begins' = Begins
    BY SameBegins
  <1>2. Inner' = Inner /\ OpenNodes' = OpenNodes
    BY <1>1 DEF Inner, OpenNodes
  <1>3. Labels(nodes, at) /\ Holds(nodes, at, routes, Inner, OpenNodes)
    BY DEF Placed
  <1>4. Labels(nodes', at) /\ Holds(nodes', at, routes', Inner', OpenNodes')
    BY <1>2, <1>3
  <1>5. AddInv(at)'
    BY DEF AddInv
  <1> QED
    BY <1>4, <1>5 DEF Placed

\* The tree that holds no location.
LEMMA EmptyPlaced ==
    /\ Labels(EmptyTree, [m \in 1..1 |-> <<>>])
    /\ Holds(EmptyTree, [m \in 1..1 |-> <<>>], <<>>, {<<>>}, {})
  <1> DEFINE x == Node(FixedString("/"), NoHandler)
             at == [m \in 1..1 |-> <<>>]
             t == <<x>>
  <1>1. /\ x.rule = "fixed" /\ x.str = "/" /\ x.id = "" /\ x.handler = 0
        /\ x.nexts = <<>> /\ x \in NodeType
    BY DEF Node, FixedString, NoHandler, NodeType
  <1> HIDE DEF x
  <1>2. t \in Seq(NodeType) /\ Len(t) = 1 /\ t[1] = x
    <2>1. x \in NodeType
      BY <1>1
    <2> QED
      BY <2>1
  <1>3. \A m \in 1..1 : m = 1
    OBVIOUS
  <1>4. at[1] = <<>> /\ at \in [1..1 -> Seq(Marks)]
    OBVIOUS
  <1> HIDE DEF t, at
  <1>5. Len(x.nexts) = 0
    BY <1>1
  <1>6. ~(\E k : k \in 2..1) /\ ~(\E k : k \in 1..0)
    OBVIOUS
  <1>7. Labels(t, at)
    <2>1. t[1].nexts = <<>> /\ Len(t[1].nexts) = 0
      BY <1>1, <1>2, <1>5
    <2>2. \A n \in 1..1 : ~(\E k : k \in 1..Len(t[n].nexts))
      BY <1>3, <1>6, <2>1
    <2>3. Len(t) >= 1
      BY <1>2
    <2> QED
      BY <1>2, <1>3, <1>4, <1>6, <2>2, <2>3, Zenon DEF Labels
  <1>8. ~Leaf(t, 1) /\ Len(<<>>) = 0
    BY DEF Leaf
  <1>9. Holds(t, at, <<>>, {<<>>}, {})
    <2>1. 1 \in 1..1
      OBVIOUS
    <2> QED
      BY <1>2, <1>3, <1>4, <1>6, <1>8, <2>1, Zenon DEF Holds
  <1> QED
    BY <1>7, <1>9 DEF EmptyTree, t, x, at

LEMMA NoBegins ==
    ASSUME routes = <<>> PROVE Begins = {<<>>}
  <1>1. Shapes = {}
    BY DEF Shapes
  <1> QED
    BY <1>1 DEF Begins

LEMMA InitRouter == Init => RInv
  <1> SUFFICES ASSUME Init PROVE RInv
    OBVIOUS
  <1>1. PICK at : at = [m \in 1..1 |-> <<>>]
    OBVIOUS
  <1>2. Labels(nodes, at) /\ Holds(nodes, at, <<>>, {<<>>}, {})
    BY <1>1, EmptyPlaced DEF Init
  <1>3. Inner = {<<>>} /\ OpenNodes = {} /\ routes = <<>>
    BY NoBegins DEF Inner, OpenNodes, Init
  <1>4. AddInv(at) /\ FindInv(at) /\ Answers
    BY DEF Init, AddInv, FindInv, Answers, LookupCorrect, ParamsRight, FoundRoute, Done
  <1>5. RouterType
    BY DEF Init, RouterType, AddType, FindType, NoAdd, NoFind
  <1>6. Placed(at)
    BY <1>2, <1>3, <1>4 DEF Placed
  <1>7. at \in [1..Len(nodes) -> Seq(Marks)]
    BY <1>2 DEF Labels
  <1> QED
    BY <1>4, <1>5, <1>6, <1>7 DEF RInv

LEMMA ClearTreeStep == RInv /\ ClearTree => RInv'
  <1> SUFFICES ASSUME RInv, ClearTree PROVE RInv'
    OBVIOUS
  <1>1. PICK at : at = [m \in 1..1 |-> <<>>]
    OBVIOUS
  <1>2. Labels(nodes', at) /\ Holds(nodes', at, <<>>, {<<>>}, {})
    BY <1>1, EmptyPlaced DEF ClearTree
  <1>3. Inner' = {<<>>} /\ OpenNodes' = {} /\ routes' = <<>>
    <2>1. Shapes' = {}
      BY DEF Shapes, ClearTree
    <2>2. Begins' = {<<>>}
      BY <2>1 DEF Begins
    <2> QED
      BY <2>2 DEF Inner, OpenNodes, ClearTree
  <1>4. AddInv(at)' /\ FindInv(at)' /\ Answers'
    BY NotDone DEF ClearTree, AddInv, FindInv
  <1>5. RouterType'
    <2>1. RouterType
      BY DEF RInv
    <2>2. AddType' /\ FindType'
      BY <2>1 DEF ClearTree, RouterType, AddType, FindType
    <2>3. routes' \in Seq(Seq(Sections)) /\ phase' = "locations"
      BY DEF ClearTree
    <2> QED
      BY <2>2, <2>3 DEF RouterType
  <1>6. Placed(at)'
    BY <1>2, <1>3, <1>4 DEF Placed
  <1> QED
    BY <1>4, <1>5, <1>6, Rebuild

\* The steps that do not touch the tree and end outside add_new_handler and
\* parseURL.
LEMMA QuietStep ==
    RInv /\ (SkipLocation \/ RequestEmpty \/ Answered \/ UNCHANGED vars) => RInv'
  <1>1. ASSUME RInv, UNCHANGED vars PROVE RInv'
    <2>1. /\ phase' = phase /\ nodes' = nodes /\ routes' = routes /\ add' = add
          /\ find' = find
      BY <1>1 DEF vars
    <2>2. Shapes' = Shapes /\ Begins' = Begins
      BY <2>1, SameBegins
    <2>3. PICK at \in [1..Len(nodes) -> Seq(Marks)] : Placed(at)
      BY <1>1 DEF RInv
    <2>4. Inner' = Inner /\ OpenNodes' = OpenNodes
      BY <2>1, <2>2 DEF Inner, OpenNodes
    <2>5. /\ Labels(nodes, at) /\ Holds(nodes, at, routes, Inner, OpenNodes)
          /\ AddInv(at) /\ FindInv(at)
      BY <2>3 DEF Placed
    <2>6. Labels(nodes', at) /\ Holds(nodes', at, routes', Inner', OpenNodes')
      BY <2>1, <2>4, <2>5
    <2>7. AddInv(at)'
      BY <2>1, <2>5 DEF AddInv, Walked
    <2>8. FindInv(at)'
      BY <2>1, <2>2, <2>5 DEF FindInv, OnTheWay, Follows
    <2>9. LookupCorrect'
      BY <1>1, <2>1, <2>2 DEF RInv, Answers, LookupCorrect, Done, Chosen, Follows
    <2>10. ParamsRight' /\ FoundRoute'
      BY <1>1, <2>1 DEF RInv, Answers, ParamsRight, FoundRoute, Done
    <2>11. RouterType'
      BY <1>1, <2>1 DEF RInv, RouterType, AddType, FindType
    <2>12. Placed(at)'
      BY <2>6, <2>7, <2>8 DEF Placed
    <2> QED
      BY <2>9, <2>10, <2>11, <2>12, Rebuild DEF Answers
  <1>2. ASSUME RInv, RequestEmpty \/ Answered PROVE RInv'
    <2>1. PICK at \in [1..Len(nodes) -> Seq(Marks)] : Placed(at)
      BY <1>2 DEF RInv
    <2>2. /\ phase # "adding" /\ phase' # "adding" /\ phase' # "parsing"
          /\ nodes' = nodes /\ routes' = routes
      BY <1>2 DEF RequestEmpty, Answered
    <2>3. FindInv(at)'
      BY <2>2 DEF FindInv
    <2>4. Placed(at)'
      BY <2>1, <2>2, <2>3, SteadyTree
    <2>5. find'.result = "EmptyURL" \/ phase' # "parsed"
      BY <1>2 DEF RequestEmpty, Answered, NoFind
    <2>6. RouterType'
      <3>1. RouterType
        BY <1>2 DEF RInv
      <3>2. add' = add /\ phase' \in {"parsed", "serving"}
            /\ find' \in {NoFind, [NoFind EXCEPT !.result = "EmptyURL"]}
        BY <1>2 DEF RequestEmpty, Answered
      <3>3. FindType'
        <4>1. /\ DOMAIN find' = {"path", "left", "current", "vals", "mapper", "fn",
                                  "result"}
              /\ find'.path = <<>> /\ find'.vals = <<>>
          <5>1. CASE find' = NoFind
            BY <5>1 DEF NoFind
          <5>2. CASE find' = [NoFind EXCEPT !.result = "EmptyURL"]
            BY <5>2 DEF NoFind
          <5> QED
            BY <3>2, <5>1, <5>2
        <4>2. <<>> \in Seq(Texts) /\ <<>> \in Seq(Seq(Texts))
          OBVIOUS
        <4> QED
          BY <4>1, <4>2 DEF FindType
      <3> QED
        BY <2>2, <3>1, <3>2, <3>3 DEF RouterType, AddType
    <2> QED
      BY <2>4, <2>5, <2>6, NotDone, Rebuild
  <1> QED
    BY <1>1, <1>2 DEF SkipLocation-----------------------------------------------------------------------------
(* add_new_handler begins *)

\* The sections of a location that parse_from_str accepts.
LEMMA ParsedSections ==
    ASSUME NEW raw \in RawPatterns, ~ParseFails(raw)
    PROVE  WithoutSlash(raw) \in Seq(Sections)
  <1> DEFINE w == WithoutSlash(raw)
             S == Sections \cup {End}
  <1>1. raw \in Seq(S)
    <2>1. PICK m \in 0..MaxDepth : raw \in [1..m -> S]
      BY DEF RawPatterns
    <2>2. MaxDepth \in Nat
      BY RouterConstants
    <2>3. m \in Nat
      BY <2>2
    <2> QED
      BY <2>1, <2>3, SeqDef
  <1>2. w \in Seq(S)
    <2>1. CASE raw = <<>> \/ Last(raw) # End
      BY <1>1, <2>1 DEF WithoutSlash
    <2>2. CASE raw # <<>> /\ Last(raw) = End
      <3>1. w = SubSeq(raw, 1, Len(raw) - 1)
        BY <2>2 DEF WithoutSlash, Front
      <3>2. Len(raw) \in Nat /\ Len(raw) # 0
        BY <1>1, <2>2, EmptySeq, LenProperties
      <3>3. Len(raw) - 1 \in 0..Len(raw)
        BY <3>2
      <3> HIDE DEF w, S
      <3> QED
        BY <1>1, <3>1, <3>3, Prefix
    <2> QED
      BY <2>1, <2>2
  <1>3. \A k \in DOMAIN w : w[k] # End
    BY DEF ParseFails, Range
  <1> HIDE DEF w
  <1>4. Len(w) \in Nat /\ DOMAIN w = 1..Len(w) /\ w = [k \in 1..Len(w) |-> w[k]]
    <2>1. Len(w) \in Nat /\ w \in [1..Len(w) -> S]
      BY <1>2, LenProperties
    <2> QED
      BY <2>1
  <1>5. \A k \in 1..Len(w) : w[k] \in S
    BY <1>2, ElementOfSeq
  <1>6. \A k \in 1..Len(w) : w[k] \in Sections
    BY <1>3, <1>4, <1>5
  <1>7. w \in [1..Len(w) -> Sections]
    BY <1>4, <1>6
  <1>8. w \in Seq(Sections)
    BY <1>4, <1>7, SeqDef
  <1> QED
    BY <1>8 DEF w

LEMMA BeginStep ==
    ASSUME RInv, phase = "locations", NEW chain \in Seq(Sections),
           NEW then \in {"locations", "serving"}, Begin(chain, then)
    PROVE  RInv'
  <1>1. PICK at \in [1..Len(nodes) -> Seq(Marks)] : Placed(at)
    BY DEF RInv
  <1>2. /\ Labels(nodes, at) /\ Holds(nodes, at, routes, Inner, OpenNodes)
        /\ RouterType
    BY <1>1 DEF Placed, RInv
  <1>3. /\ nodes' = nodes /\ routes' = routes /\ find' = find /\ phase' = "adding"
        /\ add' = [chain |-> chain, i |-> 1, current |-> 1, then |-> then]
    BY DEF Begin
  <1>4. Begins' = Begins /\ <<>> \in Begins
    <2>1. routes \in Seq(Seq(Sections))
      BY <1>2 DEF RouterType
    <2> QED
      BY <1>3, <2>1, SameBegins, BeginsFacts
  <1>5. add'.chain = chain /\ add'.i = 1 /\ add'.current = 1 /\ add'.then = then /\ AddType'
    BY <1>3 DEF AddType
  <1>6. SubSeq(Shape(chain), 1, 0) = <<>>
    BY SubSeqEmpty
  <1>7. Inner' = Inner
    <2>1. Inner' = Begins' \cup {SubSeq(Shape(chain), 1, m) : m \in 0..(1 - 1)}
      BY <1>3, <1>5 DEF Inner
    <2>2. 0..(1 - 1) = {0}
      OBVIOUS
    <2>3. Inner = Begins
      BY DEF Inner
    <2> QED
      BY <2>1, <2>2, <2>3, <1>4, <1>6
  <1>8. OpenNodes = {} /\ OpenNodes' = {1}
    BY <1>3, <1>5 DEF OpenNodes
  <1>9. Holds(nodes', at, routes', Inner', OpenNodes') /\ Labels(nodes', at)
    <2>1. Holds(nodes, at, routes, Inner, {1})
      BY <1>2, <1>8 DEF Holds
    <2> QED
      BY <2>1, <1>2, <1>3, <1>7, <1>8
  <1>10. AddInv(at)'
    <2>1. at[1] = <<>> /\ 1 \in 1..Len(nodes)
      BY <1>2, LabelsFacts DEF Labels
    <2>2. Walked' = <<>>
      <3>1. Walked' = SubSeq(Shape(chain), 1, 1 - 1)
        BY <1>5 DEF Walked
      <3> QED
        BY <3>1, <1>6
    <2>3. ~Leaf(nodes', 1)
      BY DEF Leaf
    <2>4. 1 \in 1..(Len(chain) + 1)
      BY LenProperties
    <2> QED
      BY <1>3, <1>5, <2>1, <2>2, <2>3, <2>4 DEF AddInv
  <1>11. FindInv(at)' /\ Answers'
    BY <1>3, NotDone DEF FindInv
  <1>12. RouterType'
    BY <1>2, <1>3, <1>5 DEF RouterType, FindType
  <1>13. Placed(at)'
    BY <1>9, <1>10, <1>11 DEF Placed
  <1> QED
    BY <1>11, <1>12, <1>13, Rebuild

LEMMA AddStarts ==
    RInv /\ ((\E raw \in RawPatterns : AddLocation(raw)) \/ AddTestRoute) => RInv'
  <1>1. ASSUME RInv, NEW raw \in RawPatterns, AddLocation(raw) PROVE RInv'
    BY <1>1, ParsedSections, BeginStep DEF AddLocation
  <1>2. ASSUME RInv, AddTestRoute PROVE RInv'
    <2>1. FixedString(TestRoute) \in Sections
      BY RouterConstants DEF Sections
    <2>2. <<FixedString(TestRoute)>> \in Seq(Sections)
      BY <2>1
    <2> QED
      BY <1>2, <2>2, BeginStep DEF AddTestRoute
  <1> QED
    BY <1>1, <1>2-----------------------------------------------------------------------------
(* add_new_handler goes on *)

\* Where the loop of add_new_handler is.
LEMMA AddContext ==
    ASSUME NEW at, Placed(at), RouterType, phase = "adding"
    PROVE  /\ Labels(nodes, at) /\ Holds(nodes, at, routes, Inner, {add.current})
           /\ add.chain \in Seq(Sections) /\ Len(add.chain) \in Nat /\ add.i \in Nat
           /\ add.i >= 1 /\ add.i <= Len(add.chain) + 1
           /\ add.current \in 1..Len(nodes) /\ ~Leaf(nodes, add.current)
           /\ at[add.current] = Walked /\ add.then \in {"locations", "serving"}
           /\ routes \in Seq(Seq(Sections))
  <1>1. OpenNodes = {add.current}
    BY DEF OpenNodes
  <1>2. /\ Labels(nodes, at) /\ Holds(nodes, at, routes, Inner, {add.current}) /\ AddInv(at)
    BY <1>1 DEF Placed
  <1>3. /\ add.chain \in Seq(Sections) /\ add.i \in 1..(Len(add.chain) + 1)
        /\ add.current \in 1..Len(nodes) /\ ~Leaf(nodes, add.current)
        /\ at[add.current] = Walked /\ add.then \in {"locations", "serving"}
    BY <1>2 DEF AddInv
  <1>4. Len(add.chain) \in Nat
    BY <1>3, LenProperties
  <1>5. add.i \in Nat /\ add.i >= 1 /\ add.i <= Len(add.chain) + 1
    <2> DEFINE c == add.chain
               i == add.i
    <2>1. i \in 1..(Len(c) + 1) /\ Len(c) \in Nat
      BY <1>3, <1>4
    <2> HIDE DEF c, i
    <2>2. i \in Nat /\ i >= 1 /\ i <= Len(c) + 1
      BY <2>1
    <2> QED
      BY <2>2 DEF c, i
  <1>6. routes \in Seq(Seq(Sections))
    BY DEF RouterType
  <1> QED
    BY <1>2, <1>3, <1>4, <1>5, <1>6

\* The section it is at.
LEMMA SectionFacts ==
    ASSUME add.chain \in Seq(Sections), Len(add.chain) \in Nat, add.i \in Nat,
           add.i >= 1, add.i <= Len(add.chain) + 1
    PROVE  /\ Section \in Sections \cup {End}
           /\ ~AtEnd => /\ Section \in Sections
                        /\ SubSeq(Shape(add.chain), 1, add.i) = Append(Walked, Mark(Section))
                        /\ add.i + 1 <= Len(add.chain) + 1
           /\ AtEnd => /\ Section = End /\ Walked = Shape(add.chain)
                       /\ add.i - 1 = Len(Shape(add.chain))
  <1> DEFINE c == add.chain
             i == add.i
             s == Shape(c)
  <1>1. c \in Seq(Sections) /\ Len(c) \in Nat /\ i \in Nat /\ i >= 1 /\ i <= Len(c) + 1
    OBVIOUS
  <1>2. Section = (IF i <= Len(c) THEN c[i] ELSE End) /\ (AtEnd <=> i > Len(c))
        /\ Walked = SubSeq(s, 1, i - 1)
    BY DEF Section, AtEnd, Walked
  <1>3. /\ s \in Seq(Kinds) /\ Len(s) = Len(c)
        /\ \A k \in 1..Len(c) : s[k] = Mark(c[k])
    BY <1>1, ShapeFacts
  <1> HIDE DEF c, i, s
  <1>4. CASE i <= Len(c)
    <2>1. i \in 1..Len(c) /\ ~AtEnd /\ Section = c[i] /\ i \in 1..Len(s)
      BY <1>1, <1>2, <1>3, <1>4
    <2>2. c[i] \in Sections
      BY <1>1, <2>1, ElementOfSeq
    <2>3. SubSeq(s, 1, i) = Append(SubSeq(s, 1, i - 1), s[i])
      BY <1>3, <2>1, PrefixGrows
    <2>4. SubSeq(s, 1, i) = Append(Walked, Mark(Section)) /\ i + 1 <= Len(c) + 1
      BY <1>1, <1>2, <1>3, <1>4, <2>1, <2>3
    <2> QED
      BY <2>1, <2>2, <2>4 DEF c, i, s
  <1>5. CASE ~(i <= Len(c))
    <2>1. i - 1 = Len(s) /\ AtEnd /\ Section = End
      BY <1>1, <1>2, <1>3, <1>5
    <2>2. Walked = s
      BY <1>2, <1>3, <2>1, SubSeqFull
    <2> QED
      BY <2>1, <2>2 DEF c, i, s
  <1> QED
    BY <1>4, <1>5

\* What the search among the children of a node finds.
LEMMA HitsFacts ==
    ASSUME NEW at, Labels(nodes, at), add.current \in 1..Len(nodes),
           Section \in Sections \cup {End}
    PROVE  /\ Hits \subseteq 1..Len(nodes[add.current].nexts)
           /\ \A j \in Hits :
                LET m == nodes[add.current].nexts[j] IN
                /\ m \in 1..Len(nodes) /\ m # 1 /\ Mark(nodes[m]) = Mark(Section)
                /\ at[m] = Append(at[add.current], Mark(Section))
           /\ Hits # {} => /\ Min(Hits) \in Hits
                           /\ nodes[add.current].nexts # <<>>
           /\ Hits = {} => \A m \in 1..Len(nodes) :
                              at[m] # Append(at[add.current], Mark(Section))
  <1> DEFINE c == add.current
             kids == nodes[c].nexts
             p == Section
  <1>1. kids \in Seq(Nat) /\ Len(kids) \in Nat /\ DOMAIN kids = 1..Len(kids)
    BY LabelsFacts, LenProperties
  <1>2. ASSUME NEW j \in 1..Len(kids)
        PROVE  /\ kids[j] \in 1..Len(nodes) /\ kids[j] # 1
               /\ at[kids[j]] = Append(at[c], Mark(nodes[kids[j]]))
               /\ Same(nodes[kids[j]], p) <=> Mark(nodes[kids[j]]) = Mark(p)
    <2>1. PICK m : m = kids[j]
      OBVIOUS
    <2>2. /\ m \in 1..Len(nodes) /\ m # 1 /\ at[m] = Append(at[c], Mark(nodes[m]))
          /\ nodes[m].rule = "any" => nodes[m].str = ""
      <3>1. PICK n : n = add.current
        OBVIOUS
      <3>2. n \in 1..Len(nodes) /\ j \in 1..Len(nodes[n].nexts) /\ m = nodes[n].nexts[j]
        BY <2>1, <3>1
      <3>3. ChildLabel(nodes, at, n, m)
        BY <3>2, LabelOf
      <3> QED
        BY <3>1, <3>3 DEF ChildLabel
    <2>3. nodes[m] \in NodeType
      BY <2>2, LabelsFacts
    <2>4. Same(nodes[m], p) <=> Mark(nodes[m]) = Mark(p)
      BY <2>2, <2>3, SameMark
    <2> QED
      BY <2>1, <2>2, <2>4
  <1>3. Hits = {j \in 1..Len(kids) : Same(nodes[kids[j]], p)}
    BY <1>1 DEF Hits, Nexts
  <1>4. p \in Sections \cup {End} /\ c \in 1..Len(nodes)
    OBVIOUS
  <1> HIDE DEF p, kids, c
  <1>5. \A j \in Hits : /\ j \in 1..Len(kids)
                        /\ kids[j] \in 1..Len(nodes) /\ kids[j] # 1
                        /\ Mark(nodes[kids[j]]) = Mark(p)
                        /\ at[kids[j]] = Append(at[c], Mark(p))
    BY <1>2, <1>3
  <1>6. ASSUME Hits # {} PROVE Min(Hits) \in Hits /\ kids # <<>>
    <2>1. Hits \subseteq Nat
      BY <1>1, <1>3
    <2>2. \E x \in Hits : \A y \in Hits : x <= y
      BY <1>6, <2>1, Least
    <2>3. Min(Hits) \in Hits
      BY <2>2, Zenon DEF Min
    <2>4. kids # <<>>
      <3> SUFFICES ASSUME kids = <<>> PROVE FALSE
        OBVIOUS
      <3>1. Len(kids) = 0
        OBVIOUS
      <3> QED
        BY <1>3, <1>6, <3>1
    <2> QED
      BY <2>3, <2>4
  <1>7. ASSUME Hits = {}, NEW m \in 1..Len(nodes), at[m] = Append(at[c], Mark(p))
        PROVE  FALSE
    <2>1. Mark(p) \in Marks
      BY <1>4, MarkFacts DEF Marks
    <2>2. PICK j \in 1..Len(nodes[c].nexts) : nodes[c].nexts[j] = m
      BY <1>4, <1>7, <2>1, ChildOf
    <2>3. Mark(nodes[m]) = Mark(p)
      BY <1>4, <1>7, <2>1, ChildOf
    <2>4. j \in 1..Len(kids) /\ kids[j] = m
      BY <2>2 DEF kids
    <2>5. j \in Hits
      BY <1>2, <1>3, <2>3, <2>4
    <2> QED
      BY <1>7, <2>5
  <1> QED
    BY <1>5, <1>6, <1>7 DEF p, kids, c

\* One section further.
LEMMA InnerGrows ==
    ASSUME phase = "adding", phase' = "adding", routes' = routes,
           add'.chain = add.chain, add'.i = add.i + 1, add.i \in Nat, add.i >= 1
    PROVE  /\ Inner' = Inner \cup {SubSeq(Shape(add.chain), 1, add.i)}
           /\ Walked' = SubSeq(Shape(add.chain), 1, add.i)
  <1> DEFINE s == Shape(add.chain)
             i == add.i
             W(k) == {SubSeq(s, 1, m) : m \in 0..k}
  <1>1. i \in Nat /\ i >= 1 /\ add'.i - 1 = i
    OBVIOUS
  <1>2. Inner = Begins \cup W(i - 1)
    BY DEF Inner
  <1>3. Inner' = Begins' \cup W(i) /\ Walked' = SubSeq(s, 1, i)
    BY <1>1 DEF Inner, Walked
  <1>4. Begins' = Begins
    BY SameBegins
  <1> HIDE DEF s, i
  <1>5. \A m : m \in 0..i <=> m \in 0..(i - 1) \/ m = i
    BY <1>1
  <1>6. W(i) = W(i - 1) \cup {SubSeq(s, 1, i)}
    BY <1>5
  <1> HIDE DEF W
  <1>7. Inner' = Inner \cup {SubSeq(s, 1, i)}
    BY <1>2, <1>3, <1>4, <1>6
  <1> QED
    BY <1>3, <1>7 DEF s, i
LEMMA AddDescendStep == RInv /\ AddDescend => RInv'
  <1> SUFFICES ASSUME RInv, AddDescend PROVE RInv'
    OBVIOUS
  <1>1. PICK at \in [1..Len(nodes) -> Seq(Marks)] : Placed(at)
    BY DEF RInv
  <1>2. RouterType /\ phase = "adding" /\ phase' = "adding" /\ ~AtEnd /\ Hits # {}
        /\ nodes' = nodes /\ routes' = routes /\ find' = find
    BY DEF RInv, AddDescend
  <1>3. /\ Labels(nodes, at) /\ Holds(nodes, at, routes, Inner, {add.current})
        /\ add.chain \in Seq(Sections) /\ Len(add.chain) \in Nat /\ add.i \in Nat
        /\ add.i >= 1 /\ add.i <= Len(add.chain) + 1
        /\ add.current \in 1..Len(nodes) /\ ~Leaf(nodes, add.current)
        /\ at[add.current] = Walked /\ add.then \in {"locations", "serving"}
    BY <1>1, <1>2, AddContext
  <1>4. /\ Section \in Sections
        /\ SubSeq(Shape(add.chain), 1, add.i) = Append(Walked, Mark(Section))
        /\ add.i + 1 <= Len(add.chain) + 1
    BY <1>2, <1>3, SectionFacts
  <1>5. PICK m : m = nodes[add.current].nexts[Min(Hits)]
    OBVIOUS
  <1>6. /\ add'.i = add.i + 1 /\ add'.current = m /\ add'.chain = add.chain
        /\ add'.then = add.then /\ AddType'
    BY <1>2, <1>5 DEF AddDescend, RouterType, AddType, Nexts
  <1>7. /\ m \in 1..Len(nodes) /\ m # 1 /\ Mark(nodes[m]) = Mark(Section)
        /\ at[m] = Append(Walked, Mark(Section)) /\ nodes[add.current].nexts # <<>>
    BY <1>2, <1>3, <1>4, <1>5, HitsFacts
  <1>8. ~Leaf(nodes, m)
    BY <1>4, <1>7, MarkFacts DEF Leaf
  <1>9. /\ Inner' = Inner \cup {SubSeq(Shape(add.chain), 1, add.i)}
        /\ Walked' = SubSeq(Shape(add.chain), 1, add.i)
    BY <1>2, <1>3, <1>6, InnerGrows
  <1>10. at[m] \in Inner
    BY <1>3, <1>7, <1>8 DEF Holds
  <1>11. Inner' = Inner /\ Walked' = at[m]
    BY <1>4, <1>7, <1>9, <1>10
  <1>12. Holds(nodes, at, routes, Inner, {m})
    BY <1>3, <1>7, Closed
  <1>13. OpenNodes' = {m}
    BY <1>2, <1>6 DEF OpenNodes
  <1>14. Holds(nodes', at, routes', Inner', OpenNodes') /\ Labels(nodes', at)
    BY <1>2, <1>3, <1>11, <1>12, <1>13
  <1>15. AddInv(at)'
    <2>1. add.i + 1 \in 1..(Len(add.chain) + 1)
      BY <1>3, <1>4
    <2> QED
      BY <1>2, <1>3, <1>6, <1>7, <1>8, <1>11, <2>1 DEF AddInv
  <1>16. FindInv(at)' /\ Answers'
    BY <1>2, NotDone DEF FindInv
  <1>17. RouterType'
    BY <1>2, <1>6 DEF RouterType, FindType
  <1>18. Placed(at)'
    BY <1>14, <1>15, <1>16 DEF Placed
  <1> QED
    BY <1>16, <1>17, <1>18, Rebuild

LEMMA AddPushStep == RInv /\ AddPush => RInv'
  <1> SUFFICES ASSUME RInv, AddPush PROVE RInv'
    OBVIOUS
  <1>1. PICK at \in [1..Len(nodes) -> Seq(Marks)] : Placed(at)
    BY DEF RInv
  <1>2. RouterType /\ phase = "adding" /\ phase' = "adding" /\ ~AtEnd /\ Hits = {}
        /\ routes' = routes /\ find' = find
    BY DEF RInv, AddPush
  <1>3. /\ Labels(nodes, at) /\ Holds(nodes, at, routes, Inner, {add.current})
        /\ add.chain \in Seq(Sections) /\ Len(add.chain) \in Nat /\ add.i \in Nat
        /\ add.i >= 1 /\ add.i <= Len(add.chain) + 1
        /\ add.current \in 1..Len(nodes) /\ ~Leaf(nodes, add.current)
        /\ at[add.current] = Walked /\ add.then \in {"locations", "serving"}
    BY <1>1, <1>2, AddContext
  <1>4. /\ Section \in Sections
        /\ SubSeq(Shape(add.chain), 1, add.i) = Append(Walked, Mark(Section))
        /\ add.i + 1 <= Len(add.chain) + 1
    BY <1>2, <1>3, SectionFacts
  <1>5. /\ add'.i = add.i + 1 /\ add'.current = Len(nodes) + 1 /\ add'.chain = add.chain
        /\ add'.then = add.then /\ AddType'
    BY <1>2 DEF AddPush, RouterType, AddType
  <1>6. PICK c : c = add.current
    OBVIOUS
  <1>7. PICK p : p = Section
    OBVIOUS
  <1>8. nodes' = Pushed(nodes, c, p, NoHandler)
    BY <1>6, <1>7 DEF AddPush, PushNode, Pushed
  <1>9. PICK a2 : a2 = Grown(nodes, at, c, p)
    OBVIOUS
  <1>10. \A m \in 1..Len(nodes) : at[m] # Append(at[c], Mark(p))
    BY <1>2, <1>3, <1>4, <1>6, <1>7, HitsFacts
  <1>11. p \in Sections /\ c \in 1..Len(nodes) /\ NoHandler \in Nat
    BY <1>3, <1>4, <1>6, <1>7 DEF NoHandler
  <1>12. Labels(nodes', a2)
    BY <1>3, <1>8, <1>9, <1>10, <1>11, PushedLabels
  <1>13. /\ Inner' = Inner \cup {Append(at[c], Mark(p))}
         /\ Walked' = Append(at[c], Mark(p))
    BY <1>2, <1>3, <1>4, <1>5, <1>6, <1>7, InnerGrows
  <1>14. Holds(nodes', a2, routes, Inner', {Len(nodes) + 1})
    <2>1. Holds(nodes, at, routes, Inner, {c}) /\ ~Leaf(nodes, c)
      BY <1>3, <1>6
    <2> QED
      BY <1>3, <1>8, <1>9, <1>11, <1>13, <2>1, PushedInner
  <1>15. OpenNodes' = {Len(nodes) + 1}
    BY <1>2, <1>5 DEF OpenNodes
  <1>16. Holds(nodes', a2, routes', Inner', OpenNodes')
    BY <1>2, <1>14, <1>15
  <1>17. AddInv(a2)'
    <2>1. add.i + 1 \in 1..(Len(add.chain) + 1)
      BY <1>3, <1>4
    <2>2. a2[Len(nodes) + 1] = Walked'
      BY <1>3, <1>9, <1>11, <1>13, GrownFacts
    <2>3. OneMore(nodes', nodes, c, Node(p, NoHandler))
      BY <1>3, <1>8, <1>11, LabelsFacts, PushedFacts
    <2>4. Len(nodes') = Len(nodes) + 1 /\ Len(nodes) + 1 \in 1..Len(nodes')
      <3>1. Len(nodes') = Len(nodes) + 1
        BY <2>3 DEF OneMore
      <3>2. Len(nodes) \in Nat
        BY <1>3, LabelsFacts
      <3> QED
        BY <3>1, <3>2
    <2>5. ~Leaf(nodes', Len(nodes) + 1)
      <3>1. nodes'[Len(nodes) + 1] = Node(p, NoHandler)
        BY <2>3 DEF OneMore
      <3>2. Mark(Node(p, NoHandler)) = Mark(p)
        BY <1>11, NodeFacts
      <3>3. Mark(p) # End
        BY <1>11, MarkFacts
      <3> QED
        BY <3>1, <3>2, <3>3 DEF Leaf
    <2> QED
      BY <1>2, <1>3, <1>5, <2>1, <2>2, <2>4, <2>5 DEF AddInv
  <1>18. FindInv(a2)' /\ Answers'
    BY <1>2, NotDone DEF FindInv
  <1>19. RouterType'
    BY <1>2, <1>5 DEF RouterType, FindType
  <1>20. Placed(a2)'
    BY <1>12, <1>16, <1>17, <1>18 DEF Placed
  <1> QED
    BY <1>18, <1>19, <1>20, Rebuild
\* One more location: its beginnings are those add_new_handler has walked.
LEMMA BeginsGrow ==
    ASSUME routes \in Seq(Seq(Sections)), NEW r \in Seq(Sections),
           routes' = Append(routes, r)
    PROVE  Begins' = Begins \cup {SubSeq(Shape(r), 1, m) : m \in 0..Len(Shape(r))}
  <1> DEFINE H == Len(routes) + 1
             s == Shape(r)
             P(t) == {SubSeq(t, 1, m) : m \in 0..Len(t)}
  <1>1. /\ Len(routes) \in Nat /\ DOMAIN routes = 1..Len(routes)
        /\ DOMAIN routes' = 1..H /\ routes'[H] = r
        /\ \A h \in 1..Len(routes) : routes'[h] = routes[h]
    BY AppendProperties, LenProperties
  <1>2. \A h : h \in DOMAIN routes' <=> h \in DOMAIN routes \/ h = H
    BY <1>1
  <1> HIDE DEF H
  <1>3. Shapes' = Shapes \cup {s}
    <2> DEFINE T == {Shape(routes[h]) : h \in DOMAIN routes}
               T2 == {Shape(routes'[h]) : h \in DOMAIN routes'}
    <2>1. ASSUME NEW h \in DOMAIN routes' PROVE Shape(routes'[h]) \in T \cup {s}
      <3>1. CASE h \in DOMAIN routes
        <4>1. routes'[h] = routes[h]
          BY <1>1, <3>1
        <4> QED
          BY <3>1, <4>1
      <3>2. CASE h = H
        BY <1>1, <3>2
      <3> QED
        BY <1>2, <3>1, <3>2
    <2>2. ASSUME NEW h \in DOMAIN routes PROVE Shape(routes[h]) \in T2
      <3>1. routes'[h] = routes[h] /\ h \in DOMAIN routes'
        BY <1>1, <1>2
      <3> QED
        BY <3>1
    <2>3. s \in T2
      BY <1>1, <1>2
    <2>4. T2 = T \cup {s}
      BY <2>1, <2>2, <2>3
    <2> QED
      BY <2>4 DEF Shapes
  <1> HIDE DEF s
  <1>4. Begins' = {<<>>} \cup (UNION {P(t) : t \in Shapes'})
        /\ Begins = {<<>>} \cup (UNION {P(t) : t \in Shapes})
    BY DEF Begins
  <1> HIDE DEF P
  <1>5. Begins' = Begins \cup P(s)
    BY <1>3, <1>4
  <1> QED
    BY <1>5 DEF P, s

LEMMA AddLeafStep == RInv /\ AddLeaf => RInv'
  <1> SUFFICES ASSUME RInv, AddLeaf PROVE RInv'
    OBVIOUS
  <1>1. PICK at \in [1..Len(nodes) -> Seq(Marks)] : Placed(at)
    BY DEF RInv
  <1>2. RouterType /\ phase = "adding" /\ phase' = add.then /\ AtEnd /\ Hits = {}
        /\ routes' = Append(routes, add.chain) /\ find' = find /\ add' = NoAdd
    BY DEF RInv, AddLeaf, Added
  <1>3. /\ Labels(nodes, at) /\ Holds(nodes, at, routes, Inner, {add.current})
        /\ add.chain \in Seq(Sections) /\ Len(add.chain) \in Nat /\ add.i \in Nat
        /\ add.i >= 1 /\ add.i <= Len(add.chain) + 1
        /\ add.current \in 1..Len(nodes) /\ ~Leaf(nodes, add.current)
        /\ at[add.current] = Walked /\ add.then \in {"locations", "serving"}
        /\ routes \in Seq(Seq(Sections))
    BY <1>1, <1>2, AddContext
  <1>4. /\ Section = End /\ Walked = Shape(add.chain)
        /\ add.i - 1 = Len(Shape(add.chain))
    BY <1>2, <1>3, SectionFacts
  <1>5. PICK c : c = add.current
    OBVIOUS
  <1>6. PICK r : r = add.chain
    OBVIOUS
  <1>7. nodes' = Pushed(nodes, c, End, Len(routes) + 1)
    BY <1>4, <1>5 DEF AddLeaf, PushNode, Pushed
  <1>8. PICK a2 : a2 = Grown(nodes, at, c, End)
    OBVIOUS
  <1>9. Mark(End) = End
    BY MarkFacts
  <1>10. \A m \in 1..Len(nodes) : at[m] # Append(at[c], Mark(End))
    BY <1>2, <1>3, <1>4, <1>5, HitsFacts
  <1>11. Len(routes) + 1 \in Nat /\ c \in 1..Len(nodes)
    BY <1>3, <1>5, LenProperties
  <1>12. Labels(nodes', a2)
    BY <1>3, <1>7, <1>8, <1>10, <1>11, PushedLabels
  <1>13. Holds(nodes', a2, Append(routes, r), Inner, {})
    <2>1. /\ Holds(nodes, at, routes, Inner, {c}) /\ ~Leaf(nodes, c)
          /\ at[c] = Shape(r) /\ r \in Seq(Sections)
      BY <1>3, <1>4, <1>5, <1>6
    <2> QED
      BY <1>3, <1>7, <1>8, <1>11, <2>1, PushedLeaf
  <1>14. Begins' = Inner
    <2>1. Begins' = Begins \cup {SubSeq(Shape(r), 1, m) : m \in 0..Len(Shape(r))}
      BY <1>2, <1>3, <1>6, BeginsGrow
    <2>2. Inner = Begins \cup {SubSeq(Shape(r), 1, m) : m \in 0..(add.i - 1)}
      BY <1>2, <1>6 DEF Inner
    <2>3. add.i - 1 = Len(Shape(r))
      BY <1>4, <1>6
    <2> QED
      BY <2>1, <2>2, <2>3
  <1>15. phase' # "adding" /\ phase' # "parsing" /\ phase' # "parsed"
    BY <1>2, <1>3
  <1>16. Inner' = Inner /\ OpenNodes' = {}
    BY <1>14, <1>15 DEF Inner, OpenNodes
  <1>17. Holds(nodes', a2, routes', Inner', OpenNodes')
    BY <1>2, <1>6, <1>13, <1>16
  <1>18. AddInv(a2)' /\ FindInv(a2)' /\ Answers'
    BY <1>15, NotDone DEF FindInv, AddInv
  <1>19. RouterType'
    <2>1. AddType'
      BY <1>2 DEF AddType, NoAdd
    <2>2. routes' \in Seq(Seq(Sections))
      BY <1>2, <1>3, AppendProperties
    <2>3. phase' \in {"locations", "adding", "serving", "parsing", "parsed"}
      BY <1>2, <1>3
    <2>4. FindType'
      BY <1>2 DEF RouterType, FindType
    <2> QED
      BY <2>1, <2>2, <2>3, <2>4 DEF RouterType
  <1>20. Placed(a2)'
    BY <1>12, <1>17, <1>18 DEF Placed
  <1> QED
    BY <1>18, <1>19, <1>20, Rebuild

\* The location is there already: what was walked begins it.
LEMMA AddConflictStep == RInv /\ AddConflict => RInv'
  <1> SUFFICES ASSUME RInv, AddConflict PROVE RInv'
    OBVIOUS
  <1>1. PICK at \in [1..Len(nodes) -> Seq(Marks)] : Placed(at)
    BY DEF RInv
  <1>2. RouterType /\ phase = "adding" /\ phase' = add.then /\ AtEnd /\ Hits # {}
        /\ nodes' = nodes /\ routes' = routes /\ find' = find /\ add' = NoAdd
    BY DEF RInv, AddConflict, Added
  <1>3. /\ Labels(nodes, at) /\ Holds(nodes, at, routes, Inner, {add.current})
        /\ add.chain \in Seq(Sections) /\ Len(add.chain) \in Nat /\ add.i \in Nat
        /\ add.i >= 1 /\ add.i <= Len(add.chain) + 1
        /\ add.current \in 1..Len(nodes) /\ ~Leaf(nodes, add.current)
        /\ at[add.current] = Walked /\ add.then \in {"locations", "serving"}
        /\ routes \in Seq(Seq(Sections))
    BY <1>1, <1>2, AddContext
  <1>4. /\ Section = End /\ Walked = Shape(add.chain)
        /\ add.i - 1 = Len(Shape(add.chain))
    BY <1>2, <1>3, SectionFacts
  <1>5. PICK m : m = nodes[add.current].nexts[Min(Hits)]
    OBVIOUS
  <1>6. Mark(End) = End /\ End \in Marks
    BY MarkFacts DEF Marks
  <1>7. /\ m \in 1..Len(nodes) /\ m # 1 /\ Mark(nodes[m]) = End
        /\ at[m] = Append(Walked, End) /\ nodes[add.current].nexts # <<>>
    BY <1>2, <1>3, <1>4, <1>5, <1>6, HitsFacts
  <1>8. Leaf(nodes, m)
    BY <1>7 DEF Leaf
  <1>9. PICK h : h = nodes[m].handler
    OBVIOUS
  <1>10. h \in 1..Len(routes) /\ at[m] = Append(Shape(routes[h]), End)
    BY <1>3, <1>7, <1>8, <1>9 DEF Holds
  <1>11. Shape(add.chain) = Shape(routes[h])
    <2> DEFINE s == Shape(add.chain)
               t == Shape(routes[h])
    <2>1. routes[h] \in Seq(Sections)
      BY <1>3, <1>10, ElementOfSeq
    <2>2. s \in Seq(Kinds) /\ t \in Seq(Kinds)
      BY <1>3, <2>1, ShapeFacts
    <2>3. Append(s, End) = Append(t, End)
      BY <1>4, <1>7, <1>10
    <2>4. Kinds \subseteq Marks
      BY DEF Marks
    <2> HIDE DEF s, t
    <2>5. s \in Seq(Marks) /\ t \in Seq(Marks)
      BY <2>2, <2>4
    <2>6. s = t
      BY <1>6, <2>3, <2>5, LastMark
    <2> QED
      BY <2>6 DEF s, t
  <1>12. Shape(add.chain) \in Shapes
    <2>1. h \in DOMAIN routes
      BY <1>3, <1>10, LenProperties
    <2> QED
      BY <1>11, <2>1 DEF Shapes
  <1>13. Inner = Begins
    <2> DEFINE s == Shape(add.chain)
    <2>1. \A k \in 0..Len(s) : SubSeq(s, 1, k) \in Begins
      BY <1>3, <1>12, BeginsFacts
    <2>2. Inner = Begins \cup {SubSeq(s, 1, k) : k \in 0..Len(s)}
      BY <1>2, <1>4 DEF Inner
    <2> HIDE DEF s
    <2> QED
      BY <2>1, <2>2
  <1>14. phase' # "adding" /\ phase' # "parsing" /\ phase' # "parsed"
    BY <1>2, <1>3
  <1>15. Inner' = Inner /\ OpenNodes' = {}
    <2>1. Begins' = Begins
      BY <1>2, SameBegins
    <2> QED
      BY <1>13, <1>14, <2>1 DEF Inner, OpenNodes
  <1>16. Holds(nodes, at, routes, Inner, {})
    BY <1>3, <1>7, Closed
  <1>17. Holds(nodes', at, routes', Inner', OpenNodes') /\ Labels(nodes', at)
    BY <1>2, <1>3, <1>15, <1>16
  <1>18. AddInv(at)' /\ FindInv(at)' /\ Answers'
    BY <1>14, NotDone DEF FindInv, AddInv
  <1>19. RouterType'
    <2>1. AddType'
      BY <1>2 DEF AddType, NoAdd
    <2>2. phase' \in {"locations", "adding", "serving", "parsing", "parsed"}
      BY <1>2, <1>3
    <2>3. FindType'
      BY <1>2 DEF RouterType, FindType
    <2> QED
      BY <1>2, <1>3, <2>1, <2>2, <2>3 DEF RouterType
  <1>20. Placed(at)'
    BY <1>17, <1>18 DEF Placed
  <1> QED
    BY <1>18, <1>19, <1>20, Rebuild-----------------------------------------------------------------------------
(* parseURL: the path *)

LEMMA TailOf ==
    ASSUME NEW S, NEW s \in Seq(S), s # <<>>
    PROVE  /\ Tail(s) \in Seq(S) /\ Len(Tail(s)) = Len(s) - 1 /\ Head(s) = s[1]
           /\ \A j \in 1..(Len(s) - 1) : Tail(s)[j] = s[j + 1]
           /\ Len(s) \in Nat /\ Len(s) >= 1
  <1>1. Len(s) \in Nat /\ Len(s) # 0
    BY EmptySeq, LenProperties
  <1>2. Head(s) = s[1]
    OBVIOUS
  <1>3. /\ Tail(s) \in Seq(S) /\ Len(Tail(s)) = Len(s) - 1
        /\ \A j \in 1..Len(Tail(s)) : Tail(s)[j] = s[j + 1]
    BY HeadTailProperties
  <1> QED
    BY <1>1, <1>2, <1>3

LEMMA OneElement ==
    ASSUME NEW S, NEW x \in S, NEW s, s = <<x>>
    PROVE  s \in Seq(S) /\ Len(s) = 1 /\ s[1] = x /\ Head(s) = x
  OBVIOUS

\* The rest of a path as a sequence.
LEMMA RestOf ==
    ASSUME NEW path \in Seq(Texts), NEW n \in Nat, n < Len(path)
    PROVE  /\ Rest(path, n) \in Seq(Texts) /\ Len(Rest(path, n)) = Len(path) - n
           /\ \A j \in 1..(Len(path) - n) : Rest(path, n)[j] = path[n + j]
  <1>1. Len(path) \in Nat /\ n + 1 \in 1..Len(path) /\ n + 1 \in Nat
    BY LenProperties
  <1>2. \A j \in (n + 1)..Len(path) : path[j] \in Texts
    BY <1>1, ElementOfSeq
  <1>3. /\ SubSeq(path, n + 1, Len(path)) \in Seq(Texts)
        /\ Len(SubSeq(path, n + 1, Len(path))) =
             IF n + 1 <= Len(path) THEN Len(path) - (n + 1) + 1 ELSE 0
        /\ \A j \in 1..(Len(path) - (n + 1) + 1) :
             SubSeq(path, n + 1, Len(path))[j] = path[(n + 1) + j - 1]
    BY <1>1, <1>2, SubSeqProperties
  <1>4. Rest(path, n) = SubSeq(path, n + 1, Len(path))
    BY DEF Rest
  <1>5. Len(path) - (n + 1) + 1 = Len(path) - n /\ n + 1 <= Len(path)
        /\ \A j \in 1..(Len(path) - n) : (n + 1) + j - 1 = n + j
    BY <1>1
  <1> QED
    BY <1>3, <1>4, <1>5

\* How one iteration of parseURL takes a segment from the path.
LEMMA RestFacts ==
    ASSUME NEW path \in Seq(Texts), NEW n \in Nat, NEW l, l = Rest(path, n)
    PROVE  /\ l \in Seq(Texts) /\ Head(l) = Segment(path, n + 1) /\ Head(l) \in Texts
           /\ (IF Len(l) > 1 THEN Tail(l) ELSE <<"">>) = Rest(path, n + 1)
  <1>1. Len(path) \in Nat
    BY LenProperties
  <1>2. CASE n < Len(path)
    <2>1. /\ l \in Seq(Texts) /\ Len(l) = Len(path) - n
          /\ \A j \in 1..(Len(path) - n) : l[j] = path[n + j]
      BY <1>2, RestOf
    <2>2. l # <<>>
      <3> SUFFICES ASSUME l = <<>> PROVE FALSE
        OBVIOUS
      <3>1. Len(l) = 0
        OBVIOUS
      <3> QED
        BY <1>1, <1>2, <2>1, <3>1
    <2>3. /\ Tail(l) \in Seq(Texts) /\ Len(Tail(l)) = Len(l) - 1 /\ Head(l) = l[1]
          /\ \A j \in 1..(Len(l) - 1) : Tail(l)[j] = l[j + 1]
      BY <2>1, <2>2, TailOf
    <2>4. Head(l) = Segment(path, n + 1) /\ Head(l) \in Texts
      <3>1. 1 \in 1..(Len(path) - n) /\ n + 1 <= Len(path) /\ n + 1 \in 1..Len(path)
        BY <1>1, <1>2
      <3>2. Head(l) = path[n + 1]
        BY <2>1, <2>3, <3>1
      <3>3. path[n + 1] \in Texts
        BY <3>1, ElementOfSeq
      <3>4. Segment(path, n + 1) = path[n + 1]
        BY <3>1 DEF Segment
      <3> QED
        BY <3>2, <3>3, <3>4
    <2>5. CASE n + 1 < Len(path)
      <3>1. n + 1 \in Nat /\ Len(l) > 1
        BY <1>1, <2>1, <2>5
      <3> DEFINE t == Tail(l)
                 u == Rest(path, n + 1)
      <3>2. /\ u \in Seq(Texts) /\ Len(u) = Len(path) - (n + 1)
            /\ \A j \in 1..(Len(path) - (n + 1)) : u[j] = path[(n + 1) + j]
        BY <2>5, <3>1, RestOf
      <3>3. /\ t \in Seq(Texts) /\ Len(t) = Len(path) - (n + 1)
            /\ \A j \in 1..(Len(path) - n - 1) : t[j] = l[j + 1]
        BY <1>1, <2>1, <2>3
      <3> HIDE DEF t, u
      <3>4. ASSUME NEW j \in 1..Len(t) PROVE t[j] = u[j]
        <4>1. /\ j \in 1..(Len(path) - n - 1) /\ j + 1 \in 1..(Len(path) - n)
              /\ j \in 1..(Len(path) - (n + 1)) /\ n + (j + 1) = (n + 1) + j
          <5>1. Len(t) = Len(path) - (n + 1)
            BY <3>3
          <5> QED
            BY <1>1, <5>1
        <4> QED
          BY <2>1, <3>2, <3>3, <4>1
      <3>5. t = u
        BY <3>2, <3>3, <3>4, SeqEqual
      <3> QED
        BY <2>1, <2>4, <3>1, <3>5 DEF t, u
    <2>6. CASE ~(n + 1 < Len(path))
      <3>1. ~(Len(l) > 1)
        BY <1>1, <1>2, <2>1, <2>6
      <3>2. Rest(path, n + 1) = <<"">>
        BY <2>6 DEF Rest
      <3> QED
        BY <2>1, <2>4, <3>1, <3>2
    <2> QED
      BY <2>5, <2>6
  <1>3. CASE ~(n < Len(path))
    <2>1. l = <<"">>
      BY <1>3 DEF Rest
    <2>2. l \in Seq(Texts) /\ Head(l) = "" /\ Len(l) = 1 /\ "" \in Texts
      <3>1. "" \in Texts
        BY DEF Texts
      <3> QED
        BY <2>1, <3>1, OneElement
    <2>3. ~(n + 1 < Len(path)) /\ ~(n + 1 <= Len(path))
      BY <1>1, <1>3
    <2>4. Rest(path, n + 1) = <<"">> /\ Segment(path, n + 1) = ""
      BY <2>3 DEF Rest, Segment
    <2>5. ~(Len(l) > 1)
      <3>1. Len(l) = 1
        BY <2>2
      <3> QED
        BY <3>1
    <2> QED
      BY <2>2, <2>4, <2>5
  <1> QED
    BY <1>2, <1>3

\* The rest of a path behind its last segment that was taken.
LEMMA RestJoined ==
    ASSUME NEW path \in Seq(Texts), NEW n \in 1..Len(path), n < Len(path)
    PROVE  <<Segment(path, n)>> \o Rest(path, n) = SubSeq(path, n, Len(path))
  <1> DEFINE a == <<Segment(path, n)>>
             b == Rest(path, n)
             w == a \o b
             v == SubSeq(path, n, Len(path))
  <1>1. Len(path) \in Nat /\ n \in Nat /\ n - 1 \in Nat /\ n - 1 < Len(path)
        /\ (n - 1) + 1 = n
    BY LenProperties
  <1>2. Segment(path, n) = path[n] /\ path[n] \in Texts
    <2>1. path[n] \in Texts
      BY ElementOfSeq
    <2>2. n <= Len(path)
      BY <1>1
    <2> QED
      BY <2>1, <2>2 DEF Segment
  <1>3. a \in Seq(Texts) /\ Len(a) = 1 /\ a[1] = path[n]
    <2> DEFINE x == Segment(path, n)
    <2>1. x \in Texts /\ x = path[n] /\ a = <<x>>
      BY <1>2
    <2> HIDE DEF x, a
    <2> QED
      BY <2>1, OneElement
  <1>4. /\ b \in Seq(Texts) /\ Len(b) = Len(path) - n
        /\ \A j \in 1..(Len(path) - n) : b[j] = path[n + j]
    BY <1>1, RestOf
  <1>5. v = Rest(path, n - 1)
    BY <1>1 DEF Rest
  <1> HIDE DEF a, b, v
  <1>6. /\ v \in Seq(Texts) /\ Len(v) = Len(path) - (n - 1)
        /\ \A j \in 1..(Len(path) - (n - 1)) : v[j] = path[(n - 1) + j]
    <2>1. PICK k \in Nat : k = n - 1
      BY <1>1
    <2>2. v = Rest(path, k) /\ k < Len(path)
      BY <1>1, <1>5, <2>1
    <2>3. /\ v \in Seq(Texts) /\ Len(v) = Len(path) - k
          /\ \A j \in 1..(Len(path) - k) : v[j] = path[k + j]
      BY <2>2, RestOf
    <2> QED
      BY <2>1, <2>3
  <1>7. /\ w \in Seq(Texts) /\ Len(w) = Len(a) + Len(b)
        /\ \A i \in 1..(Len(a) + Len(b)) : w[i] = IF i <= Len(a) THEN a[i] ELSE b[i - Len(a)]
    BY <1>3, <1>4, ConcatProperties
  <1> HIDE DEF w
  <1>8. Len(w) = Len(v)
    BY <1>1, <1>3, <1>4, <1>6, <1>7
  <1>9. ASSUME NEW i \in 1..Len(w) PROVE w[i] = v[i]
    <2>1. CASE i = 1
      <3>1. w[i] = a[1]
        BY <1>1, <1>3, <1>4, <1>7, <2>1
      <3>2. v[i] = path[(n - 1) + 1]
        BY <1>1, <1>6, <2>1
      <3> QED
        BY <1>1, <1>3, <3>1, <3>2
    <2>2. CASE i # 1
      <3>1. i - 1 \in 1..(Len(path) - n) /\ n + (i - 1) = (n - 1) + i
            /\ i \in 1..(Len(path) - (n - 1)) /\ ~(i <= 1)
        BY <1>1, <1>3, <1>4, <1>7, <2>2
      <3>2. w[i] = b[i - 1]
        BY <1>3, <1>7, <3>1
      <3> QED
        BY <1>4, <1>6, <3>1, <3>2
    <2> QED
      BY <2>1, <2>2
  <1>10. w = v
    BY <1>6, <1>7, <1>8, <1>9, SeqEqual
  <1> QED
    BY <1>10 DEF w, v, a, b-----------------------------------------------------------------------------
(* parseURL: the tree *)

\* parseURL is at node c, labelled q, with the segment seg to find.
AtNode(at, c, q, seg) ==
    /\ Labels(nodes, at) /\ Holds(nodes, at, routes, Begins, {})
    /\ routes \in Seq(Seq(Sections))
    /\ c \in 1..Len(nodes) /\ ~Leaf(nodes, c) /\ at[c] = q
    /\ q \in Begins /\ q \in Seq(Kinds) /\ Len(q) \in Nat
    /\ find.current = c /\ name = seg

\* A child: the end of the location q, or a node one section further.
ChildIs(at, q, n) ==
    /\ n \in 1..Len(nodes) /\ n # 1 /\ nodes[n].rule \in {"fixed", "any"}
    /\ at[n] = Append(q, Mark(nodes[n]))
    /\ Leaf(nodes, n) =>
        /\ nodes[n].nexts = <<>> /\ nodes[n].handler \in 1..Len(routes)
        /\ Shape(routes[nodes[n].handler]) = q
    /\ ~Leaf(nodes, n) =>
        /\ nodes[n].nexts # <<>> /\ at[n] \in Begins /\ Mark(nodes[n]) \in Kinds

LEMMA FixedFacts ==
    /\ \A s, t : FixedString(s) = FixedString(t) => s = t
    /\ \A s : FixedString(s) # MatchAny("")
  <1>1. ASSUME NEW s, NEW t, FixedString(s) = FixedString(t) PROVE s = t
    <2>1. FixedString(s).str = s /\ FixedString(t).str = t
      BY Fields
    <2> QED
      BY <1>1, <2>1
  <1>2. \A s : FixedString(s) # MatchAny("")
    <2>1. "fixed" # "any"
      OBVIOUS
    <2> QED
      BY <2>1, Fields, Zenon
  <1> QED
    BY <1>1, <1>2

LEMMA KindsInMarks ==
    Kinds \subseteq Marks /\ End \in Marks /\ Seq(Kinds) \subseteq Seq(Marks)
  <1>1. Kinds \subseteq Marks /\ End \in Marks
    BY DEF Marks
  <1> QED
    BY <1>1

LEMMA ChildFacts ==
    ASSUME NEW at, NEW c, NEW q, NEW seg, AtNode(at, c, q, seg), NEW n \in Children
    PROVE  ChildIs(at, q, n)
  <1>1. /\ Labels(nodes, at) /\ Holds(nodes, at, routes, Begins, {})
        /\ routes \in Seq(Seq(Sections))
        /\ c \in 1..Len(nodes) /\ at[c] = q /\ q \in Seq(Kinds) /\ find.current = c
    BY DEF AtNode
  <1>2. PICK j \in 1..Len(nodes[c].nexts) : n = nodes[c].nexts[j]
    <2>1. DOMAIN nodes[c].nexts = 1..Len(nodes[c].nexts)
      BY <1>1, LabelsFacts, LenProperties
    <2> QED
      BY <1>1, <2>1 DEF Children, Range, Nexts
  <1>3. ChildLabel(nodes, at, c, n)
    BY <1>1, <1>2, LabelOf
  <1>4. /\ n \in 1..Len(nodes) /\ n # 1 /\ at[n] = Append(q, Mark(nodes[n]))
        /\ Mark(nodes[n]) \in Marks
    BY <1>1, <1>3 DEF ChildLabel
  <1>5. nodes[n].rule \in {"fixed", "any"}
    BY <1>1, <1>4, LabelsFacts, NodeFields
  <1>6. ASSUME Leaf(nodes, n)
        PROVE  /\ nodes[n].nexts = <<>> /\ nodes[n].handler \in 1..Len(routes)
               /\ Shape(routes[nodes[n].handler]) = q
    <2>1. PICK h : h = nodes[n].handler
      OBVIOUS
    <2>2. /\ nodes[n].nexts = <<>> /\ h \in 1..Len(routes)
          /\ at[n] = Append(Shape(routes[h]), End)
      BY <1>1, <1>4, <1>6, <2>1 DEF Holds
    <2>3. routes[h] \in Seq(Sections)
      BY <1>1, <2>2, ElementOfSeq
    <2>4. PICK s : s = Shape(routes[h])
      OBVIOUS
    <2>5. s \in Seq(Marks) /\ q \in Seq(Marks) /\ End \in Marks
      BY <1>1, <2>3, <2>4, ShapeFacts, KindsInMarks
    <2>6. Append(q, End) = Append(s, End)
      BY <1>4, <1>6, <2>2, <2>4 DEF Leaf
    <2>7. q = s
      BY <2>5, <2>6, LastMark
    <2> QED
      BY <2>1, <2>2, <2>4, <2>7
  <1>7. ASSUME ~Leaf(nodes, n)
        PROVE  nodes[n].nexts # <<>> /\ at[n] \in Begins /\ Mark(nodes[n]) \in Kinds
    <2>1. at[n] \in Begins /\ (nodes[n].nexts = <<>> => n \in {} \cup {1})
      BY <1>1, <1>4, <1>7 DEF Holds
    <2>2. Mark(nodes[n]) \in Kinds
      BY <1>4, <1>7 DEF Leaf, Marks
    <2> QED
      BY <1>4, <2>1, <2>2
  <1> QED
    BY <1>4, <1>5, <1>6, <1>7 DEF ChildIs

\* A node labelled with q and one more mark is a child.
LEMMA ChildHere ==
    ASSUME NEW at, NEW c, NEW q, NEW seg, AtNode(at, c, q, seg), NEW k \in Marks,
           NEW m \in 1..Len(nodes), at[m] = Append(q, k)
    PROVE  m \in Children /\ Mark(nodes[m]) = k
  <1>1. Labels(nodes, at) /\ c \in 1..Len(nodes) /\ at[c] = q /\ find.current = c
    BY DEF AtNode
  <1>2. /\ m # 1 /\ Mark(nodes[m]) = k
        /\ \E j \in 1..Len(nodes[c].nexts) : nodes[c].nexts[j] = m
    BY <1>1, ChildOf
  <1>3. DOMAIN nodes[c].nexts = 1..Len(nodes[c].nexts)
    BY <1>1, LabelsFacts, LenProperties
  <1> QED
    BY <1>1, <1>2, <1>3 DEF Children, Range, Nexts

LEMMA KindWith ==
    ASSUME routes \in Seq(Seq(Sections)), NEW q \in Seq(Kinds), NEW k,
           Append(q, k) \in Begins
    PROVE  k \in Kinds
  <1> DEFINE S == Kinds \cup {k}
             r == Append(q, k)
  <1>1. q \in Seq(S) /\ k \in S /\ Len(q) \in Nat
    BY LenProperties
  <1>2. r[Len(q) + 1] = k /\ Len(r) = Len(q) + 1
    <2> HIDE DEF S
    <2> QED
      BY <1>1, AppendProperties
  <1>3. r \in Seq(Kinds)
    BY BeginsFacts
  <1> HIDE DEF r, S
  <1>4. r[Len(q) + 1] \in Kinds
    <2>1. Len(q) + 1 \in 1..Len(r)
      BY <1>1, <1>2
    <2> QED
      BY <1>3, <2>1, ElementOfSeq
  <1> QED
    BY <1>2, <1>4

\* A section some location goes on with has its child.
LEMMA ChildWith ==
    ASSUME NEW at, NEW c, NEW q, NEW seg, AtNode(at, c, q, seg), NEW k,
           Append(q, k) \in Begins
    PROVE  k \in Kinds /\ \E n \in Children : Mark(nodes[n]) = k /\ ~Leaf(nodes, n)
  <1>1. /\ Holds(nodes, at, routes, Begins, {}) /\ q \in Seq(Kinds)
        /\ routes \in Seq(Seq(Sections))
    BY DEF AtNode
  <1>2. k \in Kinds
    BY <1>1, KindWith
  <1>3. PICK m \in 1..Len(nodes) : ~Leaf(nodes, m) /\ at[m] = Append(q, k)
    BY <1>1 DEF Holds
  <1>4. m \in Children /\ Mark(nodes[m]) = k
    BY <1>2, <1>3, ChildHere, KindsInMarks
  <1> QED
    BY <1>2, <1>3, <1>4

\* The end of a location has its leaf.
LEMMA EndChild ==
    ASSUME NEW at, NEW c, NEW q, NEW seg, AtNode(at, c, q, seg), q \in Shapes
    PROVE  \E n \in Children : Leaf(nodes, n)
  <1>1. /\ Holds(nodes, at, routes, Begins, {}) /\ routes \in Seq(Seq(Sections))
    BY DEF AtNode
  <1>2. PICK h \in 1..Len(routes) : q = Shape(routes[h])
    BY <1>1, LenProperties DEF Shapes
  <1>3. \E m \in 1..Len(nodes) : Leaf(nodes, m) /\ at[m] = Append(q, End)
    <2>1. PICK m \in 1..Len(nodes) : Leaf(nodes, m) /\ nodes[m].handler = h
      BY <1>1 DEF Holds
    <2>2. at[m] = Append(Shape(routes[nodes[m].handler]), End)
      BY <1>1, <2>1 DEF Holds
    <2> QED
      BY <1>2, <2>1, <2>2
  <1> QED
    BY <1>3, ChildHere, KindsInMarks
\* What the search for the segment finds.
LeafHit(q, seg, n) ==
    /\ seg = "" /\ nodes[n].handler \in 1..Len(routes)
    /\ Shape(routes[nodes[n].handler]) = q

InnerHit(at, q, k, n) ==
    /\ n \in 1..Len(nodes) /\ ~Leaf(nodes, n)
    /\ at[n] = Append(q, k) /\ at[n] \in Begins /\ k \in Kinds

LEMMA FixedHit ==
    ASSUME NEW at, NEW c, NEW q, NEW seg, AtNode(at, c, q, seg), NEW n \in FixedHits
    PROVE  /\ Nexts(n) = <<>> => LeafHit(q, seg, n)
           /\ Nexts(n) # <<>> => /\ InnerHit(at, q, FixedString(seg), n)
                                 /\ FixedString(seg) = KindAt(q, seg) /\ ~EndsAt(q, seg)
  <1>1. n \in Children /\ nodes[n].rule = "fixed" /\ nodes[n].str = seg
    BY DEF FixedHits, AtNode
  <1>2. ChildIs(at, q, n)
    BY <1>1, ChildFacts
  <1>4. Mark(nodes[n]) = FixedString(seg)
    BY <1>1 DEF Mark
  <1>5. CASE Leaf(nodes, n)
    <2>1. /\ nodes[n].nexts = <<>> /\ nodes[n].handler \in 1..Len(routes)
          /\ Shape(routes[nodes[n].handler]) = q
      BY <1>2, <1>5 DEF ChildIs
    <2>2. seg = ""
      <3>1. FixedString(seg) = FixedString("")
        BY <1>4, <1>5 DEF Leaf, End
      <3>2. FixedString(seg).str = seg /\ FixedString("").str = ""
        BY Fields
      <3> QED
        BY <3>1, <3>2
    <2> QED
      BY <2>1, <2>2 DEF LeafHit, Nexts
  <1>6. CASE ~Leaf(nodes, n)
    <2>1. /\ n \in 1..Len(nodes) /\ at[n] = Append(q, Mark(nodes[n]))
          /\ nodes[n].nexts # <<>> /\ at[n] \in Begins /\ Mark(nodes[n]) \in Kinds
      BY <1>2, <1>6 DEF ChildIs
    <2>2. InnerHit(at, q, FixedString(seg), n)
      BY <1>4, <1>6, <2>1 DEF InnerHit
    <2>3. FixedString(seg) = KindAt(q, seg)
      BY <1>4, <2>1 DEF KindAt
    <2>4. ~EndsAt(q, seg)
      <3>1. FixedString(seg) # End
        BY <1>4, <2>1, MarkFacts
      <3> QED
        BY <3>1 DEF EndsAt, End
    <2> QED
      BY <2>1, <2>2, <2>3, <2>4 DEF Nexts
  <1> QED
    BY <1>5, <1>6

LEMMA NoFixedHit ==
    ASSUME NEW at, NEW c, NEW q, NEW seg, AtNode(at, c, q, seg), FixedHits = {}
    PROVE  Append(q, FixedString(seg)) \notin Begins /\ ~EndsAt(q, seg)
  <1>1. ASSUME NEW n \in Children PROVE Mark(nodes[n]) # FixedString(seg)
    <2> SUFFICES ASSUME Mark(nodes[n]) = FixedString(seg) PROVE FALSE
      OBVIOUS
    <2>1. ChildIs(at, q, n)
      BY ChildFacts
    <2>2. nodes[n].rule \in {"fixed", "any"}
      BY <2>1 DEF ChildIs
    <2>3. nodes[n].rule = "fixed" /\ nodes[n].str = seg
      BY <2>2, FixedFacts DEF Mark
    <2> QED
      BY <2>3 DEF FixedHits, AtNode
  <1>2. Append(q, FixedString(seg)) \notin Begins
    BY <1>1, ChildWith
  <1>3. ASSUME EndsAt(q, seg) PROVE FALSE
    <2>1. q \in Shapes /\ seg = ""
      BY <1>3 DEF EndsAt
    <2>2. PICK n \in Children : Leaf(nodes, n)
      BY <2>1, EndChild
    <2>3. Mark(nodes[n]) = FixedString(seg)
      BY <2>1, <2>2 DEF Leaf, End
    <2> QED
      BY <1>1, <2>3
  <1> QED
    BY <1>2, <1>3

LEMMA AnyHit ==
    ASSUME NEW at, NEW c, NEW q, NEW seg, AtNode(at, c, q, seg), NEW n \in AnyHits
    PROVE  InnerHit(at, q, MatchAny(""), n)
  <1>1. n \in Children /\ nodes[n].rule = "any"
    BY DEF AnyHits
  <1>2. ChildIs(at, q, n)
    BY <1>1, ChildFacts
  <1>4. Mark(nodes[n]) = MatchAny("")
    BY <1>1 DEF Mark
  <1>5. ~Leaf(nodes, n)
    <2>1. MatchAny("") \in Kinds /\ End \notin Kinds
      BY MarkFacts
    <2> QED
      BY <1>4, <2>1 DEF Leaf
  <1> QED
    BY <1>2, <1>4, <1>5 DEF ChildIs, InnerHit

LEMMA NoAnyHit ==
    ASSUME NEW at, NEW c, NEW q, NEW seg, AtNode(at, c, q, seg), AnyHits = {}
    PROVE  Append(q, MatchAny("")) \notin Begins
  <1> SUFFICES ASSUME Append(q, MatchAny("")) \in Begins PROVE FALSE
    OBVIOUS
  <1>1. PICK n \in Children : Mark(nodes[n]) = MatchAny("")
    BY ChildWith
  <1>2. ChildIs(at, q, n)
    BY ChildFacts
  <1>3. nodes[n].rule \in {"fixed", "any"}
    BY <1>2 DEF ChildIs
  <1>4. nodes[n].rule = "any"
    BY <1>1, <1>3, FixedFacts DEF Mark
  <1> QED
    BY <1>4 DEF AnyHits

\* No location goes on from q.
LastOf(q) == \A b \in Begins : IsPrefix(q, b) => b = q

LEMMA OnlyEnd ==
    ASSUME NEW at, NEW c, NEW q, NEW seg, AtNode(at, c, q, seg),
           no_child, Len(Nexts(c)) = 1, NEW n, n = Nexts(c)[1]
    PROVE  /\ nodes[n].handler \in 1..Len(routes) /\ Shape(routes[nodes[n].handler]) = q
           /\ LastOf(q)
  <1>1. /\ Labels(nodes, at) /\ c \in 1..Len(nodes) /\ find.current = c
        /\ q \in Seq(Kinds) /\ Len(q) \in Nat /\ routes \in Seq(Seq(Sections))
    BY DEF AtNode
  <1>2. n \in Children
    <2>1. 1 \in DOMAIN nodes[c].nexts
      BY <1>1, LabelsFacts, LenProperties DEF Nexts
    <2> QED
      BY <1>1, <2>1 DEF Children, Range, Nexts
  <1>3. ASSUME NEW m \in Children PROVE Leaf(nodes, m) /\ ChildIs(at, q, m)
    <2>1. ChildIs(at, q, m)
      BY ChildFacts
    <2>2. nodes[m].nexts = <<>>
      BY DEF no_child, Nexts
    <2> QED
      BY <2>1, <2>2 DEF ChildIs
  <1>4. nodes[n].handler \in 1..Len(routes) /\ Shape(routes[nodes[n].handler]) = q
    BY <1>2, <1>3 DEF ChildIs
  <1>5. ASSUME NEW b \in Begins, IsPrefix(q, b) PROVE b = q
    <2>1. /\ b \in Seq(Kinds) /\ Len(b) \in Nat
          /\ \A m \in 0..Len(b) : SubSeq(b, 1, m) \in Begins
      BY <1>1, BeginsFacts, LenProperties
    <2>2. Len(q) <= Len(b) /\ SubSeq(q, 1, Len(q)) = SubSeq(b, 1, Len(q))
      BY <1>5 DEF IsPrefix
    <2>3. SubSeq(q, 1, Len(q)) = q /\ SubSeq(b, 1, Len(b)) = b
      BY <1>1, <2>1, SubSeqFull
    <2>4. CASE Len(q) = Len(b)
      BY <2>2, <2>3, <2>4
    <2>5. CASE Len(q) < Len(b)
      <3>1. Len(q) + 1 \in 1..Len(b) /\ (Len(q) + 1) - 1 = Len(q)
            /\ Len(q) + 1 \in 0..Len(b)
        BY <1>1, <2>1, <2>5
      <3>2. SubSeq(b, 1, Len(q) + 1) = Append(SubSeq(b, 1, (Len(q) + 1) - 1), b[Len(q) + 1])
        BY <2>1, <3>1, PrefixGrows
      <3>3. Append(q, b[Len(q) + 1]) \in Begins
        BY <2>1, <2>2, <2>3, <3>1, <3>2
      <3>4. \E m \in Children : ~Leaf(nodes, m)
        BY <3>3, ChildWith
      <3> QED
        BY <1>3, <3>4
    <2> QED
      BY <1>1, <2>1, <2>2, <2>4, <2>5
  <1> QED
    BY <1>4, <1>5 DEF LastOf

LEMMA EndOnly ==
    ASSUME NEW at, NEW c, NEW q, NEW seg, AtNode(at, c, q, seg), q \in Shapes, LastOf(q)
    PROVE  no_child /\ Len(Nexts(c)) = 1
  <1>1. /\ Labels(nodes, at) /\ c \in 1..Len(nodes) /\ find.current = c
        /\ q \in Seq(Kinds) /\ Len(q) \in Nat
    BY DEF AtNode
  <1>2. ASSUME NEW m \in Children PROVE Leaf(nodes, m) /\ ChildIs(at, q, m)
    <2>1. ChildIs(at, q, m)
      BY ChildFacts
    <2>2. ASSUME ~Leaf(nodes, m) PROVE FALSE
      <3>1. PICK k : k = Mark(nodes[m])
        OBVIOUS
      <3>2. at[m] \in Begins /\ at[m] = Append(q, k) /\ k \in Kinds
        BY <2>1, <2>2, <3>1 DEF ChildIs
      <3>3. PICK b : b = Append(q, k)
        OBVIOUS
      <3>4. b \in Seq(Kinds) /\ Len(b) = Len(q) + 1
        BY <1>1, <3>2, <3>3, AppendProperties
      <3>5. SubSeq(b, 1, Len(q)) = SubSeq(q, 1, Len(q))
        <4>1. Len(q) \in 0..Len(q)
          BY <1>1
        <4> QED
          BY <1>1, <3>2, <3>3, <4>1, PrefixOfAppend
      <3>6. Len(q) <= Len(b) /\ Len(q) # Len(b)
        BY <1>1, <3>4
      <3>7. IsPrefix(q, b)
        BY <3>5, <3>6 DEF IsPrefix
      <3> QED
        BY <3>2, <3>3, <3>6, <3>7 DEF LastOf
    <2> QED
      BY <2>1, <2>2
  <1>3. no_child
    BY <1>2 DEF no_child, ChildIs, Nexts
  <1> DEFINE kids == nodes[c].nexts
  <1>4. kids \in Seq(Nat) /\ Len(kids) \in Nat /\ DOMAIN kids = 1..Len(kids)
    BY <1>1, LabelsFacts, LenProperties
  <1>5. \A j \in 1..Len(kids) : kids[j] \in Children
    BY <1>1, <1>4 DEF Children, Range, Nexts
  <1>6. PICK m \in Children : Leaf(nodes, m)
    BY EndChild
  <1>7. PICK j \in 1..Len(kids) : kids[j] = m
    BY <1>1, <1>4 DEF Children, Range, Nexts
  <1>8. \A n \in Children : n \in 1..Len(nodes) /\ at[n] = Append(q, End)
    BY <1>2 DEF ChildIs, Leaf
  <1>9. ASSUME NEW n \in Children PROVE n = m
    <2>1. n \in 1..Len(nodes) /\ m \in 1..Len(nodes) /\ at[n] = at[m]
      BY <1>8
    <2> QED
      BY <1>1, <2>1 DEF Labels
  <1>10. \A k, l \in 1..Len(kids) : kids[k] = kids[l] => k = l
    BY <1>1 DEF Labels
  <1> HIDE DEF kids
  <1>11. \A k \in 1..Len(kids) : k = j
    BY <1>5, <1>7, <1>9, <1>10
  <1>12. Len(kids) = 1
    <2>1. Len(kids) >= 1
      BY <1>4, <1>7
    <2>2. 1 \in 1..Len(kids) /\ Len(kids) \in 1..Len(kids)
      BY <1>4, <2>1
    <2> QED
      BY <1>11, <2>2
  <1> QED
    BY <1>3, <1>12 DEF kids, Nexts-----------------------------------------------------------------------------
(* parseURL: the steps *)

LEMMA ParseContext ==
    ASSUME NEW at, Placed(at), RouterType, phase = "parsing", NEW c, c = find.current,
           NEW q, q = at[c], NEW path, path = find.path,
           NEW seg, seg = Segment(path, Len(q) + 1)
    PROVE  /\ AtNode(at, c, q, seg) /\ OnTheWay(q)
           /\ path \in Seq(Texts) /\ find.vals \in Seq(Seq(Texts)) /\ seg \in Texts
           /\ find.left \in Seq(Texts) /\ Left = Rest(path, Len(q) + 1)
  <1>1. Inner = Begins /\ OpenNodes = {}
    BY DEF Inner, OpenNodes
  <1>2. Labels(nodes, at) /\ Holds(nodes, at, routes, Begins, {}) /\ FindInv(at)
    BY <1>1 DEF Placed
  <1>3. c \in 1..Len(nodes) /\ ~Leaf(nodes, c) /\ OnTheWay(q)
    BY <1>2 DEF FindInv
  <1>4. /\ routes \in Seq(Seq(Sections)) /\ path \in Seq(Texts)
        /\ find.vals \in Seq(Seq(Texts))
    BY DEF RouterType, FindType
  <1>5. q \in Begins
    BY <1>2, <1>3 DEF Holds
  <1>6. q \in Seq(Kinds)
    BY <1>4, <1>5, BeginsFacts
  <1>7. Len(q) \in Nat
    BY <1>6, LenProperties
  <1>8. find.left = Rest(path, Len(q))
    BY <1>3 DEF OnTheWay
  <1>9. PICK l : l = find.left
    OBVIOUS
  <1>10. /\ l \in Seq(Texts) /\ Head(l) = seg /\ Head(l) \in Texts
         /\ (IF Len(l) > 1 THEN Tail(l) ELSE <<"">>) = Rest(path, Len(q) + 1)
    BY <1>4, <1>7, <1>8, <1>9, RestFacts, ZenonT(30)
  <1>11. name = seg /\ Left = Rest(path, Len(q) + 1) /\ find.left \in Seq(Texts)
    BY <1>9, <1>10 DEF name, Left
  <1>12. AtNode(at, c, q, seg)
    BY <1>2, <1>3, <1>4, <1>5, <1>6, <1>7, <1>11 DEF AtNode
  <1> QED
    BY <1>3, <1>4, <1>10, <1>11, <1>12

LEMMA RequestStep == RInv /\ (\E path \in Paths : Request(path)) => RInv'
  <1> SUFFICES ASSUME RInv, NEW path \in Paths, Request(path) PROVE RInv'
    OBVIOUS
  <1>1. PICK at \in [1..Len(nodes) -> Seq(Marks)] : Placed(at)
    BY DEF RInv
  <1>2. /\ phase = "serving" /\ phase' = "parsing" /\ nodes' = nodes /\ routes' = routes
        /\ add' = add /\ find' = [NoFind EXCEPT !.path = path, !.left = path]
    BY DEF Request
  <1>3. path \in Seq(Texts) /\ Len(path) \in Nat /\ Len(path) >= 1
    <2>1. PICK m \in 1..MaxSegments : path \in [1..m -> Texts]
      BY DEF Paths, Texts
    <2>2. MaxSegments \in Nat
      BY RouterConstants
    <2>3. m \in Nat /\ m >= 1
      BY <2>2
    <2>4. path \in Seq(Texts)
      BY <2>1, <2>3, SeqDef
    <2>5. Len(path) = m
      BY <2>1, <2>3, <2>4, LenProperties
    <2> QED
      BY <2>3, <2>4, <2>5
  <1>4. /\ DOMAIN find' = {"path", "left", "current", "vals", "mapper", "fn", "result"}
        /\ find'.path = path /\ find'.left = path /\ find'.current = 1
        /\ find'.vals = <<>> /\ find'.mapper = {}
    BY <1>2 DEF NoFind
  <1>5. at[1] = <<>> /\ 1 \in 1..Len(nodes) /\ ~Leaf(nodes, 1)
    BY <1>1, LabelsFacts DEF Placed, Labels, Leaf
  <1>6. OnTheWay(<<>>)'
    <2>1. Len(<<>>) = 0 /\ DOMAIN <<>> = {} /\ 1..0 = {}
      OBVIOUS
    <2>2. Rest(path, 0) = path
      <3>1. 0 < Len(path) /\ 0 + 1 = 1
        BY <1>3
      <3>2. SubSeq(path, 1, Len(path)) = path
        BY <1>3, SubSeqFull
      <3> QED
        BY <3>1, <3>2 DEF Rest
    <2>3. Follows(<<>>, path)'
      BY <2>1 DEF Follows
    <2> QED
      BY <1>4, <2>1, <2>2, <2>3 DEF OnTheWay, Follows
  <1>7. FindInv(at)'
    BY <1>2, <1>4, <1>5, <1>6, ZenonT(30) DEF FindInv, OnTheWay, Follows
  <1>8. Placed(at)'
    BY <1>1, <1>2, <1>7, SteadyTree
  <1>9. RouterType'
    <2>1. <<>> \in Seq(Seq(Texts))
      OBVIOUS
    <2>2. FindType'
      BY <1>3, <1>4, <2>1 DEF FindType
    <2>3. RouterType
      BY DEF RInv
    <2> QED
      BY <1>2, <2>2, <2>3 DEF RouterType, AddType
  <1>10. Answers'
    BY <1>2, NotDone
  <1> QED
    BY <1>8, <1>9, <1>10, Rebuild

\* What mapper has more, it has for the section k behind q.
MapperGrows(mapper, q, k) ==
    \A p \in mapper : p \in find.mapper \/ (p[2] = Len(q) + 1 /\ k.rule = "any")

\* A step to a child.
LEMMA MoveStep ==
    ASSUME NEW at, Placed(at), RouterType, phase = "parsing", NEW c, NEW q, NEW path,
           NEW seg, seg = Segment(path, Len(q) + 1), path = find.path,
           AtNode(at, c, q, seg), OnTheWay(q),
           path \in Seq(Texts), find.vals \in Seq(Seq(Texts)), seg \in Texts,
           Left = Rest(path, Len(q) + 1),
           NEW n, NEW k, InnerHit(at, q, k, n), k = KindAt(q, seg), ~EndsAt(q, seg),
           NEW mapper, Moves(n, mapper), MapperGrows(mapper, q, k)
    PROVE  RInv'
  <1>1. /\ phase' = "parsing" /\ nodes' = nodes /\ routes' = routes /\ add' = add
        /\ find' = [find EXCEPT !.current = n, !.mapper = mapper,
                                !.vals = Append(@, <<name>>), !.left = Left]
    BY DEF Moves
  <1>2. /\ q \in Seq(Kinds) /\ Len(q) \in Nat /\ name = seg
    BY DEF AtNode
  <1>3. /\ find'.path = path /\ find'.current = n /\ find'.mapper = mapper
        /\ find'.vals = Append(find.vals, <<seg>>) /\ find'.left = Rest(path, Len(q) + 1)
        /\ DOMAIN find' = DOMAIN find
    BY <1>1, <1>2 DEF RouterType, FindType
  <1>4. n \in 1..Len(nodes) /\ ~Leaf(nodes, n) /\ at[n] = Append(q, k) /\ k \in Kinds
    BY DEF InnerHit
  <1>5. /\ Follows(q, path) /\ Len(find.vals) = Len(q)
        /\ \A j \in 1..Len(q) : find.vals[j] = <<Segment(path, j)>>
    BY DEF OnTheWay
  <1>6. \A p \in find.mapper : p[2] \in 1..Len(q) /\ q[p[2]].rule = "any"
    BY DEF OnTheWay
  <1>7. PICK r : r = Append(q, k)
    OBVIOUS
  <1>8. /\ r \in Seq(Kinds) /\ Len(r) = Len(q) + 1 /\ r[Len(q) + 1] = k
        /\ \A j \in 1..Len(q) : r[j] = q[j]
    BY <1>2, <1>4, <1>7, AppendProperties
  <1>9. Follows(r, path)
    BY <1>2, <1>4, <1>5, <1>7, FollowsOn
  <1>10. /\ Append(find.vals, <<seg>>) \in Seq(Seq(Texts))
         /\ Len(find'.vals) = Len(r)
         /\ \A j \in 1..Len(r) : find'.vals[j] = <<Segment(path, j)>>
    <2> DEFINE v == find.vals
               w == find'.vals
               e == <<seg>>
    <2>1. e \in Seq(Texts)
      BY OneElement
    <2>2. w = Append(v, e) /\ v \in Seq(Seq(Texts)) /\ Len(v) = Len(q)
          /\ e = <<Segment(path, Len(q) + 1)>>
          /\ \A j \in 1..Len(q) : v[j] = <<Segment(path, j)>>
      BY <1>3, <1>5
    <2> HIDE DEF v, w, e
    <2>3. /\ w \in Seq(Seq(Texts)) /\ Len(w) = Len(v) + 1 /\ w[Len(v) + 1] = e
          /\ \A j \in 1..Len(v) : w[j] = v[j]
      BY <2>1, <2>2, AppendProperties
    <2>4. \A j \in 1..Len(r) : j \in 1..Len(q) \/ j = Len(q) + 1
      BY <1>2, <1>8
    <2>5. \A j \in 1..Len(r) : w[j] = <<Segment(path, j)>>
      BY <2>2, <2>3, <2>4
    <2> QED
      BY <1>8, <2>2, <2>3, <2>5 DEF v, w, e
  <1>11. ASSUME NEW p \in mapper PROVE p[2] \in 1..Len(r) /\ r[p[2]].rule = "any"
    <2>1. PICK x : x = p[2]
      OBVIOUS
    <2>2. CASE p \in find.mapper
      <3>1. x \in 1..Len(q) /\ q[x].rule = "any"
        BY <1>6, <2>1, <2>2
      <3>2. x \in 1..Len(r)
        BY <1>2, <1>8, <3>1
      <3> QED
        BY <1>8, <2>1, <3>1, <3>2
    <2>3. CASE p[2] = Len(q) + 1 /\ k.rule = "any"
      <3>1. Len(q) + 1 \in 1..Len(r)
        BY <1>2, <1>8
      <3> QED
        BY <1>8, <2>3, <3>1
    <2> QED
      BY <2>2, <2>3 DEF MapperGrows
  <1>12. Shapes' = Shapes /\ Begins' = Begins
    BY <1>1, SameBegins
  <1>13. Follows(r, path)'
    BY <1>9, <1>12 DEF Follows
  <1>14. OnTheWay(r)'
    <2>1. find'.left = Rest(find'.path, Len(r))
      BY <1>3, <1>8
    <2>2. \A j \in 1..Len(r) : find'.vals[j] = <<Segment(find'.path, j)>>
      BY <1>3, <1>10
    <2>3. Follows(r, find.path)'
      BY <1>3, <1>13 DEF Follows
    <2> QED
      BY <1>3, <1>10, <1>11, <2>1, <2>2, <2>3 DEF OnTheWay
  <1>15. FindInv(at)'
    <2>1. at[find'.current] = r
      BY <1>3, <1>4, <1>7
    <2>2. OnTheWay(at[find.current])'
      BY <1>14, <2>1 DEF OnTheWay, Follows
    <2> QED
      BY <1>1, <1>3, <1>4, <2>2 DEF FindInv
  <1>16. Placed(at)'
    BY <1>1, <1>15, SteadyTree
  <1>17. RouterType'
    <2>1. FindType'
      BY <1>3, <1>10 DEF RouterType, FindType
    <2> QED
      BY <1>1, <2>1 DEF RouterType, AddType
  <1>18. Answers'
    BY <1>1, NotDone
  <1> QED
    BY <1>16, <1>17, <1>18, Rebuild
LEMMA ParseFixedStep == RInv /\ ParseFixed => RInv'
  <1> SUFFICES ASSUME RInv, ParseFixed PROVE RInv'
    OBVIOUS
  <1>1. PICK at \in [1..Len(nodes) -> Seq(Marks)] : Placed(at)
    BY DEF RInv
  <1>2. RouterType /\ phase = "parsing"
    BY DEF RInv, ParseFixed
  <1>3. PICK n \in FixedHits : Nexts(n) # <<>> /\ Moves(n, find.mapper)
    BY DEF ParseFixed
  <1>4. PICK c, q, path, seg : c = find.current /\ q = at[c] /\ path = find.path
                               /\ seg = Segment(path, Len(q) + 1)
    OBVIOUS
  <1>5. /\ AtNode(at, c, q, seg) /\ OnTheWay(q)
        /\ path \in Seq(Texts) /\ find.vals \in Seq(Seq(Texts)) /\ seg \in Texts
        /\ find.left \in Seq(Texts) /\ Left = Rest(path, Len(q) + 1)
    BY <1>1, <1>2, <1>4, ParseContext
  <1>6. PICK k : k = FixedString(seg)
    OBVIOUS
  <1>7. InnerHit(at, q, k, n) /\ k = KindAt(q, seg) /\ ~EndsAt(q, seg)
    BY <1>3, <1>5, <1>6, FixedHit
  <1>8. PICK mapper : mapper = find.mapper
    OBVIOUS
  <1>9. Moves(n, mapper) /\ MapperGrows(mapper, q, k)
    BY <1>3, <1>8 DEF MapperGrows
  <1> QED
    BY <1>1, <1>2, <1>4, <1>5, <1>7, <1>9, MoveStep

LEMMA ParseAnyStep == RInv /\ ParseAny => RInv'
  <1> SUFFICES ASSUME RInv, ParseAny PROVE RInv'
    OBVIOUS
  <1>1. PICK at \in [1..Len(nodes) -> Seq(Marks)] : Placed(at)
    BY DEF RInv
  <1>2. RouterType /\ phase = "parsing" /\ FixedHits = {}
    BY DEF RInv, ParseAny, AnyChosen
  <1>3. PICK n \in AnyHits : Moves(n, Emplace(nodes[n].id))
    BY DEF ParseAny
  <1>4. PICK c, q, path, seg : c = find.current /\ q = at[c] /\ path = find.path
                               /\ seg = Segment(path, Len(q) + 1)
    OBVIOUS
  <1>5. /\ AtNode(at, c, q, seg) /\ OnTheWay(q)
        /\ path \in Seq(Texts) /\ find.vals \in Seq(Seq(Texts)) /\ seg \in Texts
        /\ find.left \in Seq(Texts) /\ Left = Rest(path, Len(q) + 1)
    BY <1>1, <1>2, <1>4, ParseContext
  <1>6. PICK k : k = MatchAny("")
    OBVIOUS
  <1>7. InnerHit(at, q, k, n)
    BY <1>3, <1>5, <1>6, AnyHit
  <1>8. k = KindAt(q, seg) /\ ~EndsAt(q, seg)
    <2>1. Append(q, FixedString(seg)) \notin Begins /\ ~EndsAt(q, seg)
      BY <1>2, <1>5, NoFixedHit
    <2> QED
      BY <1>6, <2>1 DEF KindAt
  <1>9. k.rule = "any"
    BY <1>6, Fields
  <1>10. PICK mapper : mapper = Emplace(nodes[n].id)
    OBVIOUS
  <1>11. Len(find.vals) = Len(q)
    BY <1>5 DEF OnTheWay
  <1>12. ASSUME NEW p \in mapper PROVE p \in find.mapper \/ p[2] = Len(q) + 1
    <2>1. p \in find.mapper \/ p = <<nodes[n].id, Len(find.vals) + 1>>
      BY <1>10 DEF Emplace
    <2> QED
      BY <1>11, <2>1
  <1>13. Moves(n, mapper)
    BY <1>3, <1>10
  <1>14. MapperGrows(mapper, q, k)
    BY <1>9, <1>12 DEF MapperGrows
  <1> QED
    BY <1>1, <1>2, <1>4, <1>5, <1>7, <1>8, <1>13, <1>14, MoveStep

\* parseURL has found the handler h.
LEMMA FoundStep ==
    ASSUME NEW at, Placed(at), RouterType, phase = "parsing",
           NEW q, NEW path, path = find.path, path \in Seq(Texts), OnTheWay(q),
           NEW h \in 1..Len(routes), Shape(routes[h]) = q, Complete(q, path),
           NEW vals \in Seq(Seq(Texts)), Len(vals) = Len(q),
           \A j \in 1..Len(q) :
             /\ Head(vals[j]) = Segment(path, j)
             /\ Len(vals[j]) > 1 => j = Len(q) /\ vals[j] = SubSeq(path, j, Len(path)),
           Parsed([find EXCEPT !.fn = h, !.result = "OK", !.vals = vals])
    PROVE  RInv'
  <1>1. /\ phase' = "parsed" /\ nodes' = nodes /\ routes' = routes /\ add' = add
        /\ find' = [find EXCEPT !.fn = h, !.result = "OK", !.vals = vals]
    BY DEF Parsed
  <1>2. /\ find'.path = path /\ find'.fn = h /\ find'.result = "OK" /\ find'.vals = vals
        /\ find'.mapper = find.mapper /\ DOMAIN find' = DOMAIN find
    BY <1>1 DEF RouterType, FindType
  <1>3. Shapes' = Shapes /\ Begins' = Begins
    BY <1>1, SameBegins
  <1>4. routes \in Seq(Seq(Sections)) /\ routes[h] \in Seq(Sections) /\ DOMAIN routes = 1..Len(routes)
    BY ElementOfSeq, LenProperties DEF RouterType
  <1>5. q \in Shapes
    BY <1>4 DEF Shapes
  <1>6. Chosen(path) = {q}
    <2>1. Follows(q, path)
      BY DEF OnTheWay
    <2> QED
      BY <1>4, <1>5, <2>1, ChosenHere
  <1>7. Chosen(find.path)' = {q}
    BY <1>2, <1>3, <1>6 DEF Chosen, Follows
  <1>8. LookupCorrect'
    BY <1>1, <1>2, <1>7 DEF LookupCorrect, Chosen, Follows
  <1>9. PICK r : r = routes[h]
    OBVIOUS
  <1>10. /\ Len(r) = Len(q) /\ DOMAIN r = 1..Len(q)
         /\ \A j \in 1..Len(q) : q[j].rule = r[j].rule
    <2>1. r \in Seq(Sections) /\ q = Shape(r)
      BY <1>4, <1>9
    <2>2. Len(Shape(r)) = Len(r) /\ \A j \in 1..Len(r) : Shape(r)[j].rule = r[j].rule
      BY <2>1, ShapeFacts
    <2>3. DOMAIN r = 1..Len(r)
      BY <2>1, LenProperties
    <2> QED
      BY <2>1, <2>2, <2>3
  <1>11. ASSUME NEW p \in find.mapper PROVE p[2] \in DOMAIN r /\ r[p[2]].rule = "any"
    <2>1. PICK x : x = p[2]
      OBVIOUS
    <2>2. x \in 1..Len(q) /\ q[x].rule = "any"
      BY <2>1 DEF OnTheWay
    <2> QED
      BY <1>10, <2>1, <2>2
  <1>12. routes'[find'.fn] = r
    BY <1>1, <1>2, <1>9
  <1>13. ParamsRight'
    BY <1>2, <1>10, <1>11, <1>12 DEF ParamsRight
  <1>14. FindInv(at)'
    BY <1>1 DEF FindInv
  <1>15. Placed(at)'
    BY <1>1, <1>14, SteadyTree
  <1>16. RouterType'
    <2>1. FindType'
      BY <1>2 DEF RouterType, FindType
    <2> QED
      BY <1>1, <2>1 DEF RouterType, AddType
  <1>17. FoundRoute'
    BY <1>1, <1>2 DEF FoundRoute
  <1> QED
    BY <1>8, <1>13, <1>15, <1>16, <1>17, Rebuild DEF Answers

LEMMA ParseLeafStep == RInv /\ ParseLeaf => RInv'
  <1> SUFFICES ASSUME RInv, ParseLeaf PROVE RInv'
    OBVIOUS
  <1>1. PICK at \in [1..Len(nodes) -> Seq(Marks)] : Placed(at)
    BY DEF RInv
  <1>2. RouterType /\ phase = "parsing"
    BY DEF RInv, ParseLeaf
  <1>3. PICK n \in FixedHits :
            /\ Nexts(n) = <<>>
            /\ Parsed([find EXCEPT !.fn = nodes[n].handler, !.result = "OK"])
    BY DEF ParseLeaf
  <1>4. PICK c, q, path, seg : c = find.current /\ q = at[c] /\ path = find.path
                               /\ seg = Segment(path, Len(q) + 1)
    OBVIOUS
  <1>5. /\ AtNode(at, c, q, seg) /\ OnTheWay(q)
        /\ path \in Seq(Texts) /\ find.vals \in Seq(Seq(Texts)) /\ seg \in Texts
        /\ find.left \in Seq(Texts) /\ Left = Rest(path, Len(q) + 1)
    BY <1>1, <1>2, <1>4, ParseContext
  <1>6. LeafHit(q, seg, n)
    BY <1>3, <1>5, FixedHit
  <1>7. PICK h : h = nodes[n].handler
    OBVIOUS
  <1>8. h \in 1..Len(routes) /\ Shape(routes[h]) = q /\ seg = ""
    BY <1>6, <1>7 DEF LeafHit
  <1>9. Complete(q, path)
    BY <1>4, <1>8 DEF Complete
  <1>10. PICK vals : vals = find.vals
    OBVIOUS
  <1>11. /\ vals \in Seq(Seq(Texts)) /\ Len(vals) = Len(q)
         /\ \A j \in 1..Len(q) : vals[j] = <<Segment(path, j)>>
    BY <1>4, <1>5, <1>10 DEF OnTheWay
  <1>12. ASSUME NEW j \in 1..Len(q)
         PROVE  /\ Head(vals[j]) = Segment(path, j)
                /\ Len(vals[j]) > 1 => j = Len(q) /\ vals[j] = SubSeq(path, j, Len(path))
    <2>1. PICK e : e = vals[j]
      OBVIOUS
    <2>2. e = <<Segment(path, j)>>
      BY <1>11, <2>1
    <2>3. Len(e) = 1 /\ Head(e) = Segment(path, j)
      BY <2>2
    <2>4. ~(Len(e) > 1)
      BY <2>3
    <2> QED
      BY <2>1, <2>3, <2>4
  <1>13. Parsed([find EXCEPT !.fn = h, !.result = "OK", !.vals = vals])
    <2>1. [find EXCEPT !.fn = h, !.result = "OK"]
            = [find EXCEPT !.fn = h, !.result = "OK", !.vals = vals]
      BY <1>2, <1>10 DEF RouterType, FindType
    <2> QED
      BY <1>3, <1>7, <2>1
  <1> QED
    BY <1>1, <1>2, <1>4, <1>5, <1>8, <1>9, <1>11, <1>12, <1>13, FoundStep, ZenonT(30)
\* The values when the rest of the path is appended to the last of them.
Suffixed(vals, rest) == IF vals = <<>> THEN vals
                        ELSE Append(Front(vals), Last(vals) \o rest)

ValuesRight(vals, path, L) ==
    /\ vals \in Seq(Seq(Texts)) /\ Len(vals) = L
    /\ \A j \in 1..L :
        /\ Head(vals[j]) = Segment(path, j)
        /\ Len(vals[j]) > 1 => j = L /\ vals[j] = SubSeq(path, j, Len(path))

LEMMA SuffixVals ==
    ASSUME NEW path \in Seq(Texts), NEW L \in Nat, L < Len(path),
           NEW vals \in Seq(Seq(Texts)), Len(vals) = L,
           \A j \in 1..L : vals[j] = <<Segment(path, j)>>,
           NEW v2, v2 = Suffixed(vals, Rest(path, L))
    PROVE  ValuesRight(v2, path, L)
  <1>1. CASE vals = <<>>
    <2>1. v2 = vals /\ L = 0
      BY <1>1 DEF Suffixed
    <2> QED
      BY <2>1 DEF ValuesRight
  <1>2. CASE vals # <<>>
    <2>1. L # 0 /\ L \in 1..L /\ L - 1 \in 0..L /\ Len(path) \in Nat /\ L \in 1..Len(path)
      <3>1. L # 0
        BY <1>2, EmptySeq
      <3>2. Len(path) \in Nat
        BY LenProperties
      <3> QED
        BY <3>1, <3>2
    <2> DEFINE f == SubSeq(vals, 1, L - 1)
               e == <<Segment(path, L)>> \o Rest(path, L)
    <2>2. v2 = Append(f, e)
      BY <1>2, <2>1 DEF Suffixed, Front, Last
    <2>3. f \in Seq(Seq(Texts)) /\ Len(f) = L - 1 /\ \A j \in 1..(L - 1) : f[j] = vals[j]
      BY <2>1, Prefix
    <2>4. e = SubSeq(path, L, Len(path))
      BY <2>1, RestJoined
    <2>5. e \in Seq(Texts) /\ Head(e) = Segment(path, L)
      <3>1. PICK k \in Nat : k = L - 1
        BY <2>1
      <3>2. k < Len(path) /\ k + 1 = L
        BY <2>1, <3>1
      <3>3. e = Rest(path, k)
        BY <2>4, <3>2 DEF Rest
      <3> HIDE DEF e
      <3>4. e \in Seq(Texts) /\ Head(e) = Segment(path, k + 1)
        BY <3>3, RestFacts
      <3> QED
        BY <3>2, <3>4
    <2> HIDE DEF f, e
    <2>6. /\ v2 \in Seq(Seq(Texts)) /\ Len(v2) = Len(f) + 1 /\ v2[Len(f) + 1] = e
          /\ \A j \in 1..Len(f) : v2[j] = f[j]
      BY <2>2, <2>3, <2>5, AppendProperties
    <2>7. Len(f) + 1 = L
      BY <2>1, <2>3
    <2>8. ASSUME NEW j \in 1..L
          PROVE  /\ Head(v2[j]) = Segment(path, j)
                 /\ Len(v2[j]) > 1 => j = L /\ v2[j] = SubSeq(path, j, Len(path))
      <3>1. CASE j = L
        BY <2>4, <2>5, <2>6, <2>7, <3>1
      <3>2. CASE j # L
        <4>1. j \in 1..(L - 1) /\ j \in 1..Len(f)
          BY <2>1, <2>3, <3>2
        <4>2. PICK w : w = v2[j]
          OBVIOUS
        <4>3. w = <<Segment(path, j)>>
          BY <2>3, <2>6, <4>1, <4>2
        <4>4. Len(w) = 1 /\ Head(w) = Segment(path, j)
          BY <4>3
        <4>5. ~(Len(w) > 1)
          BY <4>4
        <4> QED
          BY <4>2, <4>4, <4>5
      <3> QED
        BY <3>1, <3>2
    <2> QED
      BY <2>6, <2>7, <2>8 DEF ValuesRight
  <1> QED
    BY <1>1, <1>2

LEMMA ParseSuffixStep == RInv /\ ParseSuffix => RInv'
  <1> SUFFICES ASSUME RInv, ParseSuffix PROVE RInv'
    OBVIOUS
  <1>1. PICK at \in [1..Len(nodes) -> Seq(Marks)] : Placed(at)
    BY DEF RInv
  <1>2. /\ RouterType /\ phase = "parsing" /\ FixedHits = {} /\ no_child
        /\ Len(Nexts(find.current)) = 1
    BY DEF RInv, ParseSuffix
  <1>3. PICK c, q, path, seg : c = find.current /\ q = at[c] /\ path = find.path
                               /\ seg = Segment(path, Len(q) + 1)
    OBVIOUS
  <1>4. /\ AtNode(at, c, q, seg) /\ OnTheWay(q)
        /\ path \in Seq(Texts) /\ find.vals \in Seq(Seq(Texts)) /\ seg \in Texts
        /\ find.left \in Seq(Texts) /\ Left = Rest(path, Len(q) + 1)
    BY <1>1, <1>2, <1>3, ParseContext
  <1>5. PICK n, h : n = Nexts(c)[1] /\ h = nodes[n].handler
    OBVIOUS
  <1>6. h \in 1..Len(routes) /\ Shape(routes[h]) = q /\ LastOf(q)
    BY <1>2, <1>3, <1>4, <1>5, OnlyEnd
  <1>7. Complete(q, path)
    BY <1>6 DEF Complete, LastOf
  <1>8. PICK L : L = Len(q)
    OBVIOUS
  <1>9. L \in Nat /\ L < Len(path)
    <2>1. ~EndsAt(q, seg)
      BY <1>2, <1>4, NoFixedHit
    <2>2. q \in Shapes
      <3>1. h \in DOMAIN routes
        BY <1>2, <1>6, LenProperties DEF RouterType
      <3> QED
        BY <1>6, <3>1 DEF Shapes
    <2>3. L \in Nat
      BY <1>4, <1>8 DEF AtNode
    <2>4. L + 1 <= Len(path)
      BY <1>3, <1>8, <2>1, <2>2 DEF EndsAt, Segment
    <2>5. Len(path) \in Nat
      BY <1>4, LenProperties
    <2> QED
      BY <2>3, <2>4, <2>5
  <1>10. /\ Len(find.vals) = L /\ find.left = Rest(path, L)
         /\ \A j \in 1..L : find.vals[j] = <<Segment(path, j)>>
    BY <1>3, <1>4, <1>8 DEF OnTheWay
  <1>11. PICK vals : vals = find.vals
    OBVIOUS
  <1>12. PICK v2 : v2 = Suffixed(vals, Rest(path, L))
    OBVIOUS
  <1>13. /\ v2 \in Seq(Seq(Texts)) /\ Len(v2) = Len(q)
         /\ \A j \in 1..Len(q) :
              /\ Head(v2[j]) = Segment(path, j)
              /\ Len(v2[j]) > 1 => j = Len(q) /\ v2[j] = SubSeq(path, j, Len(path))
    <2>1. /\ vals \in Seq(Seq(Texts)) /\ Len(vals) = L
          /\ \A j \in 1..L : vals[j] = <<Segment(path, j)>>
      BY <1>4, <1>10, <1>11
    <2>2. ValuesRight(v2, path, L)
      BY <1>4, <1>9, <1>12, <2>1, SuffixVals
    <2> QED
      BY <1>8, <2>2 DEF ValuesRight
  <1>14. Parsed([find EXCEPT !.fn = h, !.result = "OK", !.vals = v2])
    BY <1>3, <1>5, <1>10, <1>11, <1>12 DEF ParseSuffix, Suffixed
  <1> QED
    BY <1>1, <1>2, <1>3, <1>4, <1>6, <1>7, <1>13, <1>14, FoundStep, ZenonT(30)

LEMMA Parse404Step == RInv /\ Parse404 => RInv'
  <1> SUFFICES ASSUME RInv, Parse404 PROVE RInv'
    OBVIOUS
  <1>1. PICK at \in [1..Len(nodes) -> Seq(Marks)] : Placed(at)
    BY DEF RInv
  <1>2. /\ RouterType /\ phase = "parsing" /\ FixedHits = {} /\ AnyHits = {}
        /\ ~(no_child /\ Len(Nexts(find.current)) = 1)
        /\ phase' = "parsed" /\ nodes' = nodes /\ routes' = routes /\ add' = add
        /\ find' = [find EXCEPT !.result = "Node404"]
    BY DEF RInv, Parse404, Parsed
  <1>3. PICK c, q, path, seg : c = find.current /\ q = at[c] /\ path = find.path
                               /\ seg = Segment(path, Len(q) + 1)
    OBVIOUS
  <1>4. /\ AtNode(at, c, q, seg) /\ OnTheWay(q)
        /\ path \in Seq(Texts) /\ find.vals \in Seq(Seq(Texts)) /\ seg \in Texts
        /\ find.left \in Seq(Texts) /\ Left = Rest(path, Len(q) + 1)
    BY <1>1, <1>2, <1>3, ParseContext
  <1>5. q \in Begins /\ Follows(q, path) /\ routes \in Seq(Seq(Sections))
    BY <1>3, <1>4 DEF AtNode, OnTheWay
  <1>6. /\ Append(q, FixedString(seg)) \notin Begins /\ ~EndsAt(q, seg)
        /\ Append(q, MatchAny("")) \notin Begins
    BY <1>2, <1>4, NoFixedHit, NoAnyHit
  <1>7. ~GoesOn(q, Segment(path, Len(q) + 1))
    BY <1>3, <1>6 DEF GoesOn
  <1>8. ~(q \in Shapes /\ Complete(q, path))
    <2> SUFFICES ASSUME q \in Shapes, Complete(q, path) PROVE FALSE
      OBVIOUS
    <2>1. LastOf(q)
      BY <1>3, <1>6 DEF EndsAt, Complete, LastOf
    <2>2. no_child /\ Len(Nexts(c)) = 1
      BY <1>4, <2>1, EndOnly
    <2> QED
      BY <1>2, <1>3, <2>2
  <1>9. Chosen(path) = {}
    BY <1>5, <1>7, <1>8, ChosenNone
  <1>10. /\ find'.path = path /\ find'.result = "Node404" /\ find'.vals = find.vals
         /\ DOMAIN find' = DOMAIN find
    BY <1>2, <1>3 DEF RouterType, FindType
  <1>11. Chosen(find.path)' = {}
    <2>1. Shapes' = Shapes /\ Begins' = Begins
      BY <1>2, SameBegins
    <2> QED
      BY <1>9, <1>10, <2>1 DEF Chosen, Follows
  <1>12. LookupCorrect'
    BY <1>10, <1>11 DEF LookupCorrect, Chosen, Follows
  <1>13. ParamsRight' /\ FoundRoute'
    BY <1>10 DEF ParamsRight, FoundRoute
  <1>14. FindInv(at)'
    BY <1>2 DEF FindInv
  <1>15. Placed(at)'
    BY <1>1, <1>2, <1>14, SteadyTree
  <1>16. RouterType'
    <2>1. FindType'
      BY <1>2, <1>3, <1>10 DEF RouterType, FindType
    <2> QED
      BY <1>2, <2>1 DEF RouterType, AddType
  <1> QED
    BY <1>12, <1>13, <1>15, <1>16, Rebuild DEF Answers-----------------------------------------------------------------------------
(* The theorems *)

\* The route tree is the tree of the accepted locations, in every reachable
\* state: each beginning of a location has exactly one node and each location
\* exactly one leaf, also while add_new_handler is half way; and parseURL is at
\* a beginning that follows the path.
THEOREM RouterInvariant == Spec => []RInv
  <1>1. Init => RInv
    BY InitRouter
  <1>2. RInv /\ [Next]_vars => RInv'
    <2> SUFFICES ASSUME RInv, [Next]_vars PROVE RInv'
      OBVIOUS
    <2>1. CASE \E raw \in RawPatterns : AddLocation(raw)
      BY <2>1, AddStarts
    <2>2. CASE AddTestRoute
      BY <2>2, AddStarts
    <2>3. CASE SkipLocation \/ RequestEmpty \/ Answered \/ UNCHANGED vars
      BY <2>3, QuietStep
    <2>4. CASE AddHandler
      BY <2>4, AddDescendStep, AddPushStep, AddLeafStep, AddConflictStep DEF AddHandler
    <2>5. CASE ClearTree
      BY <2>5, ClearTreeStep
    <2>6. CASE \E path \in Paths : Request(path)
      BY <2>6, RequestStep
    <2>7. CASE ParseURL
      BY <2>7, ParseLeafStep, ParseFixedStep, ParseAnyStep, ParseSuffixStep, Parse404Step
         DEF ParseURL
    <2> QED
      BY <2>1, <2>2, <2>3, <2>4, <2>5, <2>6, <2>7 DEF Next
  <1> QED
    BY <1>1, <1>2, PTL DEF Spec

\* parseURL finds exactly the location the accepted ones say, whatever their
\* number, depth and order.
THEOREM LookupAlwaysCorrect == Spec => []LookupCorrect
  <1>1. RInv => LookupCorrect
    BY DEF RInv, Answers
  <1> QED
    BY <1>1, RouterInvariant, PTL

\* The handler gets one value per section of its location, and mapper points to
\* values of parameters (add_new_handler, parseURL); the names it gives them are
\* not compared.
THEOREM ParamsAlwaysRight == Spec => []ParamsRight
  <1>1. RInv => ParamsRight
    BY DEF RInv, Answers
  <1> QED
    BY <1>1, RouterInvariant, PTL

\* Two accepted locations differ in more than the names of their parameters.
LEMMA ShapesDiffer ==
    ASSUME NEW at, Labels(nodes, at), NEW inner, NEW open,
           Holds(nodes, at, routes, inner, open),
           NEW g \in 1..Len(routes), NEW h \in 1..Len(routes),
           Shape(routes[g]) = Shape(routes[h])
    PROVE  g = h
  <1>1. PICK m \in 1..Len(nodes) : Leaf(nodes, m) /\ nodes[m].handler = g
    BY DEF Holds
  <1>2. PICK n \in 1..Len(nodes) : Leaf(nodes, n) /\ nodes[n].handler = h
    BY DEF Holds
  <1>3. at[m] = Append(Shape(routes[g]), End)
    BY <1>1 DEF Holds
  <1>4. at[n] = Append(Shape(routes[h]), End)
    BY <1>2 DEF Holds
  <1>5. m = n
    <2>1. at[m] = at[n]
      BY <1>3, <1>4
    <2> QED
      BY <2>1 DEF Labels
  <1> QED
    BY <1>1, <1>2, <1>5

\* The own path of a location.
LEMMA OwnSegment ==
    ASSUME NEW r \in Seq(Sections)
    PROVE  /\ Segment(OwnPath(r), Len(r) + 1) = ""
           /\ \A k \in 1..Len(r) :
                Segment(OwnPath(r), k) = IF r[k].rule = "any" THEN Other ELSE r[k].str
  <1>1. Len(r) \in Nat /\ DOMAIN r = 1..Len(r)
    BY LenProperties
  <1>2. CASE r = <<>>
    <2>1. OwnPath(r) = <<"">> /\ Len(r) = 0
      BY <1>2 DEF OwnPath
    <2>2. Segment(<<"">>, 1) = ""
      BY DEF Segment
    <2>3. Len(r) + 1 = 1 /\ 1..Len(r) = {}
      <3>1. Len(r) = 0
        BY <2>1
      <3> QED
        BY <3>1
    <2> QED
      BY <2>1, <2>2, <2>3, Zenon
  <1>3. CASE r # <<>>
    <2> DEFINE x(k) == IF r[k].rule = "any" THEN Other ELSE r[k].str
               p == [k \in 1..Len(r) |-> x(k)]
    <2>1. OwnPath(r) = p
      BY <1>1, <1>3 DEF OwnPath
    <2> HIDE DEF x
    <2>2. Len(p) = Len(r) /\ \A k \in 1..Len(r) : p[k] = x(k)
      BY <1>1
    <2> HIDE DEF p
    <2>3. ~(Len(r) + 1 <= Len(p)) /\ \A k \in 1..Len(r) : k <= Len(p)
      BY <1>1, <2>2
    <2>4. Segment(p, Len(r) + 1) = ""
      BY <2>3 DEF Segment
    <2>5. \A k \in 1..Len(r) : Segment(p, k) = x(k)
      BY <2>2, <2>3 DEF Segment
    <2> QED
      BY <2>1, <2>4, <2>5 DEF x
  <1> QED
    BY <1>2, <1>3

LEMMA OwnChosen ==
    ASSUME routes \in Seq(Seq(Sections)), NEW h \in 1..Len(routes)
    PROVE  Shape(routes[h]) \in Chosen(OwnPath(routes[h]))
  <1>1. PICK r : r = routes[h]
    OBVIOUS
  <1>2. PICK s, path : s = Shape(r) /\ path = OwnPath(r)
    OBVIOUS
  <1>3. r \in Seq(Sections) /\ h \in DOMAIN routes /\ Len(r) \in Nat
    BY <1>1, ElementOfSeq, LenProperties
  <1>4. /\ s \in Seq(Kinds) /\ Len(s) = Len(r)
        /\ \A k \in 1..Len(r) : s[k] = Mark(r[k])
    BY <1>2, <1>3, ShapeFacts
  <1>5. s \in Shapes /\ s \in Begins
    <2>1. s \in Shapes
      BY <1>1, <1>2, <1>3 DEF Shapes
    <2> QED
      BY <2>1, BeginsFacts
  <1>6. /\ Segment(path, Len(r) + 1) = ""
        /\ \A k \in 1..Len(r) :
             Segment(path, k) = IF r[k].rule = "any" THEN Other ELSE r[k].str
    BY <1>2, <1>3, OwnSegment
  <1>7. ASSUME NEW k \in 1..Len(s)
        PROVE  /\ s[k] = KindAt(SubSeq(s, 1, k - 1), Segment(path, k))
               /\ ~EndsAt(SubSeq(s, 1, k - 1), Segment(path, k))
    <2>1. PICK b, x : b = SubSeq(s, 1, k - 1) /\ x = r[k]
      OBVIOUS
    <2>2. x \in Sections
      BY <1>3, <1>4, <2>1, ElementOfSeq
    <2>3. /\ k - 1 \in 0..Len(s) /\ k \in 0..Len(s) /\ k \in 1..Len(r)
      BY <1>3, <1>4
    <2>4. Append(b, s[k]) \in Begins /\ b \in Seq(Kinds)
      <3>1. SubSeq(s, 1, k) \in Begins
        BY <1>5, <2>3, BeginsFacts
      <3>2. SubSeq(s, 1, k) = Append(b, s[k])
        BY <1>4, <2>1, PrefixGrows
      <3>3. b \in Seq(Kinds)
        BY <1>4, <2>1, <2>3, Prefix
      <3> QED
        BY <3>1, <3>2, <3>3
    <2>5. CASE x.rule = "any"
      <3>1. Segment(path, k) = Other /\ s[k] = MatchAny("")
        BY <1>4, <1>6, <2>1, <2>3, <2>5 DEF Mark
      <3>2. Append(b, FixedString(Other)) \notin Begins
        <4> SUFFICES ASSUME Append(b, FixedString(Other)) \in Begins PROVE FALSE
          OBVIOUS
        <4>1. FixedString(Other) \in Kinds
          BY <2>4, KindWith
        <4>2. PICK n \in Names : FixedString(Other) = FixedString(n)
          BY <4>1, FixedFacts DEF Kinds
        <4>3. Other \in Names
          BY <4>2, FixedFacts
        <4> QED
          BY <4>3, RouterConstants
      <3>3. Other # ""
        BY RouterConstants
      <3> QED
        BY <2>1, <3>1, <3>2, <3>3 DEF KindAt, EndsAt
    <2>6. CASE x.rule # "any"
      <3>1. Segment(path, k) = x.str /\ s[k] = FixedString(x.str)
        BY <1>4, <1>6, <2>1, <2>3, <2>6 DEF Mark
      <3>2. PICK n \in Names : x = FixedString(n)
        <4>1. \A i : MatchAny(i).rule = "any"
          BY Fields
        <4> QED
          BY <2>2, <2>6, <4>1 DEF Sections
      <3>3. x.str = n
        BY <3>2, Fields
      <3>4. x.str # ""
        BY <3>3, RouterConstants
      <3> QED
        BY <2>1, <2>4, <3>1, <3>4 DEF KindAt, EndsAt
    <2> QED
      BY <2>5, <2>6
  <1>8. Follows(s, path)
    BY <1>4, <1>7, FollowsFacts
  <1>9. Complete(s, path)
    BY <1>4, <1>6 DEF Complete
  <1>10. s \in Chosen(path)
    BY <1>5, <1>8, <1>9, ChosenFacts
  <1> QED
    BY <1>1, <1>2, <1>10

\* No accepted location is dead.
THEOREM NoRouteEverDead == Spec => []NoDeadRoute
  <1>1. RInv => NoDeadRoute
    <2> SUFFICES ASSUME RInv, Done, NEW h \in DOMAIN routes,
                        find.path = OwnPath(routes[h])
                 PROVE  find.fn = h
      BY DEF NoDeadRoute
    <2>1. RouterType /\ LookupCorrect /\ FoundRoute
      BY DEF RInv, Answers
    <2>2. routes \in Seq(Seq(Sections)) /\ h \in 1..Len(routes)
      BY <2>1, LenProperties DEF RouterType
    <2>3. Shape(routes[h]) \in Chosen(find.path)
      BY <2>2, OwnChosen
    <2>4. find.result = "OK" /\ Shape(routes[h]) = Shape(routes[find.fn])
      BY <2>1, <2>3 DEF LookupCorrect
    <2>5. find.fn \in 1..Len(routes)
      BY <2>1, <2>4 DEF FoundRoute
    <2>6. PICK at : Labels(nodes, at) /\ Holds(nodes, at, routes, Inner, OpenNodes)
      BY DEF RInv, Placed
    <2> QED
      BY <2>2, <2>4, <2>5, <2>6, ShapesDiffer
  <1> QED
    BY <1>1, RouterInvariant, PTL
=============================================================================
