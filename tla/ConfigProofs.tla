---------------------------- MODULE ConfigProofs ----------------------------
(***************************************************************************)
(* For texts of any length: the raw pointers to Nodes that analyse_words   *)
(* keeps on its stack are never left dangling by the push_back and erase   *)
(* calls on the vectors the Nodes live in; the tree that it builds is the  *)
(* one the tokens describe, also where a syntax error stops it; the result *)
(* of the load is the one they deserve; a lookup in the tree finds the     *)
(* Node that its path and index select; and the tokens are those of the    *)
(* text.                                                                   *)
(***************************************************************************)
EXTENDS Config, SequenceTheorems, FiniteSetTheorems, NaturalsInduction,
        WellFoundedInduction, TLAPS

NodeSeq == Seq([name : Nat, values : Seq(Nat), parent : Nat])

\* A stack holds a chain of Nodes from the root down, and nothing on it was
\* moved or erased.  The numbers of the Nodes increase along it, so that only
\* one of them has a given parent.
Chain(s, ns, gone) ==
    /\ s \in Seq(1..Len(ns)) /\ Len(s) >= 1 /\ s[1] = Root
    /\ \A n \in 1..Len(s) : s[n] \notin gone
    /\ \A n \in 2..Len(s) : ns[s[n]].parent = s[n - 1]
    /\ \A m, n \in 1..Len(s) : m < n => s[m] < s[n]

Forest ==
    /\ nodes \in NodeSeq /\ Len(nodes) >= 1 /\ nodes[Root].parent = 0
    /\ erased \subseteq 1..Len(nodes) /\ moved \subseteq 1..Len(nodes)
    /\ i \in Nat

StackInv ==
    phase = "words" =>
        Forest /\ Len(stack) >= 2 /\ Chain(stack, nodes, moved \cup erased)

-----------------------------------------------------------------------------
(* Facts about chains *)

\* What Pop returns.
LEMMA PopFacts ==
    ASSUME NEW T, NEW s \in Seq(T), Len(s) >= 1
    PROVE  /\ Pop(s) \in Seq(T) /\ Len(Pop(s)) = Len(s) - 1
           /\ \A n \in 1..Len(Pop(s)) : Pop(s)[n] = s[n]
  <1>1. Len(s) \in Nat /\ \A n \in 1..(Len(s) - 1) : s[n] \in T
    BY ElementOfSeq, LenProperties
  <1>2. /\ SubSeq(s, 1, Len(s) - 1) \in Seq(T)
        /\ Len(SubSeq(s, 1, Len(s) - 1)) = IF 1 <= Len(s) - 1 THEN (Len(s) - 1) - 1 + 1 ELSE 0
        /\ \A n \in 1..((Len(s) - 1) - 1 + 1) : SubSeq(s, 1, Len(s) - 1)[n] = s[1 + n - 1]
    BY <1>1, SubSeqProperties
  <1>3. Pop(s) = SubSeq(s, 1, Len(s) - 1)
    BY DEF Pop
  <1>4. Len(Pop(s)) = Len(s) - 1
    <2>1. CASE 1 <= Len(s) - 1
      BY <2>1, <1>1, <1>2, <1>3
    <2>2. CASE ~(1 <= Len(s) - 1)
      <3>0. ASSUME NEW n \in Nat, n >= 1, ~(1 <= n - 1) PROVE n - 1 = 0
        BY <3>0
      <3>1. Len(s) - 1 = 0
        BY <3>0, <2>2, <1>1
      <3>2. Len(Pop(s)) = 0
        BY <2>2, <1>2, <1>3
      <3> QED
        BY <3>1, <3>2
    <2> QED
      BY <2>1, <2>2
  <1>5. ASSUME NEW n \in 1..Len(Pop(s)) PROVE Pop(s)[n] = s[n]
    <2>1. n \in 1..((Len(s) - 1) - 1 + 1) /\ 1 + n - 1 = n
      BY <1>1, <1>4
    <2> QED
      BY <2>1, <1>2, <1>3
  <1> QED
    BY <1>2, <1>3, <1>4, <1>5

\* Pop takes the end off a chain and leaves a chain.
LEMMA PopChain ==
    ASSUME NEW ns \in NodeSeq, NEW s, NEW gone, Chain(s, ns, gone), Len(s) >= 2
    PROVE  /\ Chain(Pop(s), ns, gone) /\ Len(Pop(s)) = Len(s) - 1
           /\ Top(Pop(s)) = s[Len(s) - 1]
  <1>1. /\ Pop(s) \in Seq(1..Len(ns)) /\ Len(Pop(s)) = Len(s) - 1
        /\ \A n \in 1..Len(Pop(s)) : Pop(s)[n] = s[n]
    BY PopFacts DEF Chain
  <1>2. Len(s) \in Nat /\ s \in Seq(1..Len(ns))
    BY DEF Chain
  <1>3. Top(Pop(s)) = s[Len(s) - 1]
    <2>1. Len(Pop(s)) \in 1..Len(Pop(s))
      BY <1>1, <1>2
    <2> QED
      BY <2>1, <1>1 DEF Top
  <1>4. \A n \in 1..Len(Pop(s)) : n \in 1..Len(s) /\ Pop(s)[n] = s[n]
    BY <1>1, <1>2
  <1>5. \A n \in 2..Len(Pop(s)) : n \in 2..Len(s) /\ n - 1 \in 1..Len(Pop(s)) /\ n \in 1..Len(Pop(s))
    BY <1>1, <1>2
  <1>6. Len(Pop(s)) >= 1 /\ Pop(s)[1] = Root
    BY <1>1, <1>2 DEF Chain
  <1>7. \A n \in 1..Len(Pop(s)) : Pop(s)[n] \notin gone
    BY <1>4 DEF Chain
  <1>8. \A n \in 2..Len(Pop(s)) : ns[Pop(s)[n]].parent = Pop(s)[n - 1]
    BY <1>4, <1>5 DEF Chain
  <1>9. \A m, n \in 1..Len(Pop(s)) : m < n => Pop(s)[m] < Pop(s)[n]
    BY <1>4 DEF Chain
  <1> QED
    BY <1>1, <1>3, <1>6, <1>7, <1>8, <1>9 DEF Chain

\* A push_back on the children of a Node of a chain, and an erase from the
\* children of one, leave every Node of the chain that ends there alone.
LEMMA ChainKept ==
    ASSUME Forest, NEW s, NEW gone, Chain(s, nodes, gone),
           NEW n \in 1..Len(s), n < Len(s) => s[n + 1] \notin Children(s[n])
    PROVE  \A k \in 1..Len(s) : s[k] \notin Children(s[n])
  <1> SUFFICES ASSUME NEW k \in 1..Len(s), s[k] \in Children(s[n]) PROVE FALSE
    OBVIOUS
  <1>0. Len(s) \in Nat /\ s[k] \in 1..Len(nodes) /\ s[n] \in 1..Len(nodes)
    BY DEF Chain
  <1>1. nodes[s[k]].parent = s[n]
    BY DEF Children
  <1>2. CASE k = 1
    BY <1>0, <1>1, <1>2 DEF Chain, Forest, Root
  <1>3. CASE k > 1
    <2>1. k \in 2..Len(s) /\ k - 1 \in 1..Len(s)
      BY <1>0, <1>3
    <2>2. s[k - 1] = s[n]
      BY <2>1, <1>1 DEF Chain
    <2>3. k - 1 = n
      <3>1. k - 1 < n => s[k - 1] < s[n]
        BY <2>1 DEF Chain
      <3>2. n < k - 1 => s[n] < s[k - 1]
        BY <2>1 DEF Chain
      <3> QED
        BY <3>1, <3>2, <2>1, <2>2, <1>0
    <2> QED
      BY <2>3, <2>1, <1>0
  <1> QED
    BY <1>0, <1>2, <1>3

\* PushChild behind a chain that ends at the parent.
LEMMA PushChain ==
    ASSUME Forest, NEW s, Chain(s, nodes, moved \cup erased),
           NEW gone \in SUBSET (1..Len(nodes)),
           \A k \in 1..Len(s) : s[k] \notin gone,
           i' \in Nat,
           PushChild(Top(s), s, gone)
    PROVE  Forest' /\ Len(stack') >= 2 /\ Chain(stack', nodes', (moved \cup erased)')
  <1> DEFINE new == Len(nodes) + 1
  <1>0. /\ Len(s) \in Nat /\ Len(s) >= 1 /\ Len(nodes) \in Nat /\ Len(nodes) >= 1
        /\ s \in Seq(1..Len(nodes)) /\ Top(s) \in 1..Len(nodes) /\ Top(s) = s[Len(s)]
    <2>1. Len(nodes) \in Nat /\ Len(nodes) >= 1
      BY LenProperties DEF Forest, NodeSeq
    <2>2. s \in Seq(1..Len(nodes)) /\ Len(s) >= 1 /\ Len(s) \in Nat
      BY LenProperties DEF Chain
    <2>3. s[Len(s)] \in 1..Len(nodes)
      BY <2>2, ElementOfSeq
    <2> QED
      BY <2>1, <2>2, <2>3 DEF Top
  <1>1. /\ nodes' \in NodeSeq /\ Len(nodes') = new
        /\ \A n \in 1..Len(nodes) : nodes'[n] = nodes[n]
        /\ nodes'[new].parent = Top(s)
    <2>1. Node(Top(s)) \in [name : Nat, values : Seq(Nat), parent : Nat]
      BY <1>0 DEF Node
    <2>2. nodes' = Append(nodes, Node(Top(s))) /\ nodes \in NodeSeq
      BY DEF PushChild, Forest
    <2>3. /\ nodes' \in NodeSeq /\ Len(nodes') = new
          /\ \A n \in 1..Len(nodes) : nodes'[n] = nodes[n]
          /\ nodes'[new] = Node(Top(s))
      BY <2>1, <2>2, AppendProperties DEF NodeSeq
    <2>4. nodes'[new].parent = Top(s)
      BY <2>3 DEF Node
    <2> QED
      BY <2>3, <2>4
  <1>2. Children(Top(s)) \subseteq 1..Len(nodes)
    BY DEF Children
  <1>3. Forest'
    <2>1. 1..Len(nodes) \subseteq 1..Len(nodes') /\ Len(nodes') >= 1
      BY <1>0, <1>1
    <2>2. nodes'[Root].parent = 0
      BY <1>0, <1>1 DEF Forest, Root
    <2>3. erased' = erased \cup gone /\ moved' = moved \cup Children(Top(s))
      BY DEF PushChild
    <2>4. erased' \subseteq 1..Len(nodes') /\ moved' \subseteq 1..Len(nodes')
      BY <2>1, <2>3, <1>2 DEF Forest
    <2> QED
      BY <2>1, <2>2, <2>4, <1>1 DEF Forest
  <1>4. /\ stack' \in Seq(1..new) /\ Len(stack') = Len(s) + 1
        /\ \A n \in 1..Len(s) : stack'[n] = s[n]
        /\ stack'[Len(s) + 1] = new
    <2>1. stack' = Append(s, new) /\ s \in Seq(1..new)
      BY <1>0, SeqMonotonic DEF PushChild
    <2>2. new \in 1..new
      BY <1>0
    <2> QED
      BY <2>1, <2>2, AppendProperties
  <1>5. \A k \in 1..Len(s) : s[k] \notin Children(Top(s))
    BY <1>0, ChainKept
  <1>6. /\ moved' \cup erased' \subseteq moved \cup erased \cup Children(Top(s)) \cup gone
        /\ moved' \cup erased' \subseteq 1..Len(nodes)
    BY <1>2 DEF PushChild, Forest
  <1>7. \A n \in 1..Len(stack') : stack'[n] \notin moved' \cup erased'
    <2> SUFFICES ASSUME NEW n \in 1..Len(stack') PROVE stack'[n] \notin moved' \cup erased'
      OBVIOUS
    <2>1. CASE n \in 1..Len(s)
      <3>1. stack'[n] = s[n] /\ s[n] \notin moved \cup erased \cup gone
        BY <2>1, <1>4 DEF Chain
      <3> QED
        BY <2>1, <3>1, <1>5, <1>6
    <2>2. CASE n = Len(s) + 1
      <3>1. stack'[n] = new /\ new \notin 1..Len(nodes)
        BY <2>2, <1>0, <1>4
      <3> QED
        BY <3>1, <1>6
    <2> QED
      BY <2>1, <2>2, <1>0, <1>4
  <1>8. \A n \in 2..Len(stack') : nodes'[stack'[n]].parent = stack'[n - 1]
    <2> SUFFICES ASSUME NEW n \in 2..Len(stack')
                 PROVE  nodes'[stack'[n]].parent = stack'[n - 1]
      OBVIOUS
    <2>1. CASE n = Len(s) + 1
      <3>1. n - 1 = Len(s) /\ Len(s) \in 1..Len(s)
        BY <2>1, <1>0
      <3>2. stack'[n] = new /\ stack'[n - 1] = Top(s)
        BY <3>1, <2>1, <1>0, <1>4
      <3> QED
        BY <3>2, <1>1
    <2>2. CASE n # Len(s) + 1
      <3>1. n \in 2..Len(s) /\ n \in 1..Len(s) /\ n - 1 \in 1..Len(s)
        BY <2>2, <1>0, <1>4
      <3>2. s[n] \in 1..Len(nodes) /\ nodes[s[n]].parent = s[n - 1]
        BY <3>1, <1>0, SMTT(30) DEF Chain
      <3> QED
        BY <3>1, <3>2, <1>1, <1>4
    <2> QED
      BY <2>1, <2>2
  <1>9. \A m, n \in 1..Len(stack') : m < n => stack'[m] < stack'[n]
    <2> SUFFICES ASSUME NEW m \in 1..Len(stack'), NEW n \in 1..Len(stack'), m < n
                 PROVE  stack'[m] < stack'[n]
      OBVIOUS
    <2>1. m \in 1..Len(s) /\ s[m] \in 1..Len(nodes) /\ stack'[m] = s[m]
      <3>1. m \in 1..Len(s)
        BY <1>0, <1>4
      <3> QED
        BY <3>1, <1>0, <1>4, ElementOfSeq
    <2>2. CASE n = Len(s) + 1
      BY <2>1, <2>2, <1>0, <1>4
    <2>3. CASE n # Len(s) + 1
      <3>1. n \in 1..Len(s) /\ stack'[n] = s[n]
        BY <2>3, <1>0, <1>4, SMTT(30)
      <3> QED
        BY <3>1, <2>1 DEF Chain
    <2> QED
      BY <2>2, <2>3
  <1> QED
    BY <1>0, <1>1, <1>3, <1>4, <1>7, <1>8, <1>9 DEF Chain

-----------------------------------------------------------------------------
(* The invariant *)

\* A step of analyse_words that leaves the tree and its stack alone.
LEMMA StackUnchanged ==
    ASSUME StackInv, phase = "words", i' \in Nat, UNCHANGED <<nodes, erased, moved, stack>>
    PROVE  StackInv'
  BY DEF StackInv, Forest, Chain, NodeSeq

\* The start of analyse_words.
LEMMA StackStarts ==
    ASSUME ReadEnd
    PROVE  StackInv'
  <1>1. /\ nodes' = <<Node(0), Node(Root)>> /\ erased' = {} /\ moved' = {}
        /\ stack' = <<Root, 2>> /\ i' = 0
    BY DEF ReadEnd
  <1>2. Node(0) \in [name : Nat, values : Seq(Nat), parent : Nat] /\ Node(0).parent = 0
    BY DEF Node
  <1>3. Node(Root) \in [name : Nat, values : Seq(Nat), parent : Nat] /\ Node(Root).parent = Root
    BY DEF Node, Root
  <1>4. /\ nodes' \in NodeSeq /\ Len(nodes') = 2
        /\ nodes'[1] = Node(0) /\ nodes'[2] = Node(Root)
    BY <1>1, <1>2, <1>3 DEF NodeSeq
  <1>5. /\ stack' \in Seq(1..2) /\ Len(stack') = 2 /\ stack'[1] = 1 /\ stack'[2] = 2
    BY <1>1 DEF Root
  <1>6. Forest'
    BY <1>1, <1>2, <1>4 DEF Forest, Root
  <1>7. Chain(stack', nodes', (moved \cup erased)')
    BY <1>1, <1>3, <1>4, <1>5 DEF Chain, Root
  <1> QED
    BY <1>5, <1>6, <1>7 DEF StackInv

\* The end of a chain is a child of the Node before it, and the erase of the
\* nameless Node behind a block takes a child of that Node.
LEMMA BelowTop ==
    ASSUME StackInv, phase = "words"
    PROVE  /\ Chain(Pop(stack), nodes, moved \cup erased)
           /\ Top(Pop(stack)) = stack[Len(stack) - 1]
           /\ Len(Pop(stack)) = Len(stack) - 1 /\ Len(stack) \in Nat /\ Len(stack) >= 2
  <1>1. nodes \in NodeSeq /\ Chain(stack, nodes, moved \cup erased) /\ Len(stack) >= 2
    BY DEF StackInv, Forest
  <1>2. Len(stack) \in Nat
    BY <1>1 DEF Chain
  <1> QED
    BY <1>1, <1>2, PopChain

\* ";" behind a named Node.
LEMMA StackEndNode ==
    ASSUME StackInv, EndNode, i \in Nat
    PROVE  StackInv'
  <1>1. phase = "words" /\ i' = i + 1 /\ PushChild(Top(Pop(stack)), Pop(stack), {})
    BY DEF EndNode, Takes, Taken
  <1>2. Forest /\ Chain(Pop(stack), nodes, moved \cup erased)
    BY <1>1, BelowTop DEF StackInv
  <1>3. i' \in Nat
    BY <1>1
  <1> QED
    BY <1>1, <1>2, <1>3, PushChain DEF StackInv

\* "{".
LEMMA StackOpenBlock ==
    ASSUME StackInv, OpenBlock, i \in Nat
    PROVE  StackInv'
  <1>1. phase = "words" /\ i' = i + 1
    BY DEF OpenBlock, Takes, Taken
  <1>2. CASE Fails
    BY <1>2 DEF Fails, StackInv
  <1>3. CASE PushChild(Top(stack), stack, {})
    <2>1. Forest /\ Chain(stack, nodes, moved \cup erased)
      BY <1>1 DEF StackInv
    <2>2. i' \in Nat
      BY <1>1
    <2> QED
      BY <1>3, <2>1, <2>2, PushChain DEF StackInv
  <1> QED
    BY <1>2, <1>3 DEF OpenBlock

\* "}": the vector of the block loses its nameless Node, the one of the Node
\* around the block gets a new Node; the stack has left both.
LEMMA StackCloseBlock ==
    ASSUME StackInv, CloseBlock, i \in Nat
    PROVE  StackInv'
  <1> DEFINE s == Pop(Pop(stack))
  <1>1. phase = "words" /\ i' = i + 1
    BY DEF CloseBlock, Takes, Taken
  <1>2. CASE Fails
    BY <1>2 DEF Fails, StackInv
  <1>3. CASE Len(stack) # 2 /\ PushChild(Top(s), s, Nameless)
    <2>1. /\ Forest /\ Chain(Pop(stack), nodes, moved \cup erased)
          /\ Top(Pop(stack)) = stack[Len(stack) - 1]
          /\ Len(Pop(stack)) = Len(stack) - 1 /\ Len(stack) \in Nat /\ Len(stack) >= 3
      BY <1>1, <1>3, BelowTop DEF StackInv
    <2>2. /\ Chain(s, nodes, moved \cup erased) /\ Len(s) = Len(stack) - 2
      <3>1. nodes \in NodeSeq /\ Len(Pop(stack)) >= 2
        BY <2>1 DEF Forest
      <3>2. Chain(s, nodes, moved \cup erased) /\ Len(s) = Len(Pop(stack)) - 1
        BY <3>1, <2>1, PopChain
      <3> QED
        BY <3>2, <2>1
    <2>3. Nameless \subseteq Children(Top(Pop(stack)))
      BY DEF Nameless, LastChild
    <2>4. \A k \in 1..Len(Pop(stack)) : Pop(stack)[k] \notin Children(Top(Pop(stack)))
      BY <2>1, ChainKept DEF Top
    <2>5. \A k \in 1..Len(s) : k \in 1..Len(Pop(stack)) /\ s[k] = Pop(stack)[k]
      <3>1. Pop(stack) \in Seq(1..Len(nodes)) /\ Len(Pop(stack)) >= 1
        BY <2>1 DEF Chain
      <3>2. \A k \in 1..Len(s) : s[k] = Pop(stack)[k]
        BY <3>1, PopFacts
      <3> QED
        BY <3>2, <2>1, <2>2
    <2>6. \A k \in 1..Len(s) : s[k] \notin Nameless
      BY <2>3, <2>4, <2>5
    <2>7. Nameless \subseteq 1..Len(nodes) /\ i' \in Nat
      BY <2>3, <1>1 DEF Children
    <2> QED
      BY <1>3, <2>1, <2>2, <2>6, <2>7, PushChain DEF StackInv
  <1> QED
    BY <1>2, <1>3 DEF CloseBlock

\* A word changes the name or the values of a Node, never its parent.
LEMMA StackWord ==
    ASSUME StackInv, Word, i \in Nat
    PROVE  StackInv'
  <1> DEFINE NodeType == [name : Nat, values : Seq(Nat), parent : Nat]
             t == Top(stack)
             x == WithWord(nodes[t], i + 1)
  <1>1. /\ phase = "words" /\ i' = i + 1 /\ UNCHANGED <<phase, erased, moved, stack>>
        /\ nodes' = [nodes EXCEPT ![t] = x]
    <2>1. phase = "words" /\ i' = i + 1 /\ UNCHANGED <<phase, erased, moved, stack>>
      BY DEF Word, Takes, Taken
    <2>2. nodes' = [nodes EXCEPT ![t] = x]
      BY DEF Word, Current
    <2> QED
      BY <2>1, <2>2
  <1>2. /\ Forest /\ Len(stack) >= 2 /\ Chain(stack, nodes, moved \cup erased)
        /\ nodes \in Seq(NodeType)
    BY <1>1 DEF StackInv, Forest, NodeSeq
  <1>3. t \in 1..Len(nodes) /\ nodes[t] \in NodeType
    <2>1. stack \in Seq(1..Len(nodes)) /\ Len(stack) \in 1..Len(stack)
      BY <1>2, LenProperties DEF Chain
    <2>2. t \in 1..Len(nodes)
      BY <2>1, ElementOfSeq DEF Top
    <2> QED
      BY <2>2, <1>2, ElementOfSeq
  <1>4. x \in NodeType /\ x.parent = nodes[t].parent
    <2>1. CASE nodes[t].name = 0
      BY <2>1, <1>3 DEF WithWord
    <2>2. CASE nodes[t].name # 0
      <3>1. Append(nodes[t].values, i + 1) \in Seq(Nat)
        BY <1>3, AppendProperties
      <3> QED
        BY <2>2, <3>1, <1>3 DEF WithWord
    <2> QED
      BY <2>1, <2>2
  <1>5. nodes' \in Seq(NodeType) /\ Len(nodes') = Len(nodes)
    BY <1>1, <1>2, <1>3, <1>4, ExceptSeq
  <1>6. \A n \in 1..Len(nodes) : nodes'[n].parent = nodes[n].parent
    <2> HIDE DEF x, t, NodeType
    <2>1. \A n \in 1..Len(nodes) : nodes'[n] = IF n = t THEN x ELSE nodes[n]
      BY <1>1, <1>2, <1>3, <1>4, ExceptSeq
    <2> QED
      BY <2>1, <1>4
  <1>7. Forest'
    <2> HIDE DEF x, t
    <2>1. Root \in 1..Len(nodes) /\ nodes[Root].parent = 0
      BY <1>2 DEF Forest, Root
    <2>2. nodes'[Root].parent = 0 /\ i' \in Nat
      BY <2>1, <1>1, <1>6
    <2> QED
      BY <2>2, <1>1, <1>2, <1>5 DEF Forest, NodeSeq
  <1>8. Chain(stack, nodes', moved \cup erased)
    <2>1. \A n \in 2..Len(stack) : n \in 1..Len(stack)
      BY <1>2
    <2>2. \A n \in 1..Len(stack) : stack[n] \in 1..Len(nodes)
      BY <1>2, ElementOfSeq DEF Chain
    <2>3. \A n \in 2..Len(stack) : nodes'[stack[n]].parent = stack[n - 1]
      BY <2>1, <2>2, <1>2, <1>6 DEF Chain
    <2> QED
      BY <2>3, <1>2, <1>5 DEF Chain
  <1> QED
    BY <1>1, <1>2, <1>7, <1>8 DEF StackInv

\* Every step keeps the chain.
LEMMA StackNext ==
    ASSUME StackInv, [Next]_vars
    PROVE  StackInv'
  <1>0. phase = "words" => i \in Nat
    BY DEF StackInv, Forest
  <1>1. CASE UNCHANGED vars
    BY <1>1 DEF vars, StackInv, Forest, Chain, NodeSeq
  <1>2. CASE LoadEmpty
    BY <1>2 DEF LoadEmpty, StackInv
  <1>3. CASE \E ch \in Chars : ReadChar(ch)
    BY <1>3 DEF ReadChar, StackInv
  <1>4. CASE ReadEnd
    BY <1>4, StackStarts
  <1>5. CASE OpenBlock
    BY <1>0, <1>5, StackOpenBlock DEF OpenBlock, Takes
  <1>6. CASE CloseBlock
    BY <1>0, <1>6, StackCloseBlock DEF CloseBlock, Takes
  <1>7. CASE EndNode
    BY <1>0, <1>7, StackEndNode DEF EndNode, Takes
  <1>8. CASE SkipSemicolon
    <2>1. phase = "words" /\ i' = i + 1 /\ UNCHANGED <<nodes, erased, moved, stack>>
      BY <1>8 DEF SkipSemicolon, Takes, Taken
    <2> QED
      BY <2>1, <1>0, StackUnchanged
  <1>9. CASE Word
    BY <1>0, <1>9, StackWord DEF Word, Takes
  <1>10. CASE Finish
    BY <1>10 DEF Finish, StackInv
  <1> QED
    BY <1>1, <1>2, <1>3, <1>4, <1>5, <1>6, <1>7, <1>8, <1>9, <1>10 DEF Next, Analyse

\* The chain holds throughout analyse_words, for every text.
THEOREM StackAlwaysChain == Spec => []StackInv
  <1>1. Init => StackInv
    BY DEF Init, StackInv
  <1> QED
    BY <1>1, StackNext, PTL DEF Spec

\* analyse_words never follows a Node pointer that a push_back or an erase
\* has invalidated (config.cpp 94-134), whatever the text and its length.
THEOREM NeverDanglingNode == Spec => []NoDanglingNode
  <1>1. StackInv => NoDanglingNode
    BY DEF StackInv, Chain, NoDanglingNode
  <1> QED
    BY <1>1, StackAlwaysChain, PTL

-----------------------------------------------------------------------------
(* What the tokens say, as in Config, of a sequence T of tokens of which j *)
(* were taken: the tokens stay the same while analyse_words runs.          *)

Open == <<"{">>
Close == <<"}">>
Semi == <<";">>

Puncts == {<<ch>> : ch \in Punctuation}
WordIn(T, n) == T[n] \notin Puncts
StartsIn(T, j) == {n \in 1..j : WordIn(T, n) /\ (n = 1 \/ ~WordIn(T, n - 1))}
CountIn(T, tk, n) == Cardinality({m \in 1..(n - 1) : T[m] = tk})
DepthIn(T, n) == CountIn(T, Open, n) - CountIn(T, Close, n)
BreaksIn(T, n) == \/ T[n] = Open /\ (n = 1 \/ ~WordIn(T, n - 1))
                  \/ T[n] = Close /\ DepthIn(T, n) <= 0

\* The brace before n that is the last to open a block of depth d.
BraceIn(T, n, d) == Largest({m \in 1..(n - 1) : T[m] = Open /\ DepthIn(T, m) < d})

\* The directive that starts last before b.
HeadIn(T, j, b) == Largest({m \in StartsIn(T, j) : m < b})

OwnerIn(T, j, n) == HeadIn(T, j, BraceIn(T, n, DepthIn(T, n)))
ValuesIn(T, j, n) == {m \in (n + 1)..j : \A o \in n..m : WordIn(T, o)}

-----------------------------------------------------------------------------
(* The inductive invariant *)

NamedIn(ns) == {n \in 2..Len(ns) : ns[n].name # 0}

\* Nodes have smaller numbers than their children; the root has no name, and
\* what has no name has no values.
Rooted(ns) ==
    /\ ns[Root].name = 0
    /\ \A n \in 2..Len(ns) : /\ ns[n].parent \in 1..(n - 1)
                             /\ ns[n].name = 0 => ns[n].values = <<>>

\* Only Nodes without a name are erased, and only the newest Node may be
\* there without one.
NamelessNewest(ns, gone) ==
    /\ \A n \in gone : ns[n].name = 0
    /\ \A n \in 2..Len(ns) : ns[n].name = 0 => n \in gone \/ n = Len(ns)

\* The Nodes with a name are the directives, in the order of the text.
NamesOnce(T, j, ns) ==
    /\ \A n \in NamedIn(ns) : ns[n].name \in StartsIn(T, j)
    /\ \A m \in StartsIn(T, j) : \E n \in NamedIn(ns) : ns[n].name = m
    /\ \A n, o \in NamedIn(ns) : n < o => ns[n].name < ns[o].name

\* The values are those of the directive, in the order of the text.
ValuesOf(vs, want) ==
    /\ \A v \in 1..Len(vs) : vs[v] \in want
    /\ \A m \in want : \E v \in 1..Len(vs) : vs[v] = m
    /\ \A v \in 2..Len(vs) : vs[v - 1] < vs[v]

Valued(T, j, ns) == \A n \in NamedIn(ns) : ValuesOf(ns[n].values, ValuesIn(T, j, ns[n].name))

Owned(T, j, ns) == \A n \in NamedIn(ns) : ns[ns[n].parent].name = OwnerIn(T, j, ns[n].name)

\* A directive has ended when a token behind its name is no word; one that
\* has a Node behind its own has.
EndedAt(T, j, m) == \E o \in m..j : ~WordIn(T, o)
AllEnded(T, j, ns) == \A n \in NamedIn(ns) : EndedAt(T, j, ns[n].name)
Ended(T, j, ns) == \A n \in NamedIn(ns) : n # Len(ns) => EndedAt(T, j, ns[n].name)

Written(T, j, ns) == Rooted(ns) /\ NamesOnce(T, j, ns) /\ Valued(T, j, ns)
                     /\ Owned(T, j, ns) /\ Ended(T, j, ns)

\* The newest Node is the one on the top of the stack, and it has a name when
\* the last token was a word.
Filling(T, j, ns) ==
    /\ ns[Len(ns)].name = 0 <=> j = 0 \/ ~WordIn(T, j)
    /\ ns[Len(ns)].name # 0 => \A o \in ns[Len(ns)].name..j : WordIn(T, o)

\* No token broke the rules, and no block was closed that is not open.
Unbroken(T, j) ==
    /\ \A n \in 1..j : ~BreaksIn(T, n)
    /\ \A n \in 1..(j + 1) : DepthIn(T, n) >= 0

\* The stack has a Node for every open block, and that Node is the directive
\* in front of the brace that opened it.
Opened(T, j, ns, s) ==
    /\ Len(s) = DepthIn(T, j + 1) + 2
    /\ \A k \in 1..(Len(s) - 1) : ns[s[k]].name = HeadIn(T, j, BraceIn(T, j + 1, k - 1))

\* What holds while analyse_words runs, of the tokens, the Nodes, those that
\* were erased, and the stack.
Going(T, j, ns, gone, s) ==
    /\ Written(T, j, ns) /\ NamelessNewest(ns, gone)
    /\ Len(ns) >= 2 /\ s[Len(s)] = Len(ns)
    /\ Filling(T, j, ns) /\ Unbroken(T, j) /\ Opened(T, j, ns, s)

\* What every result of load_from_buffer says of the tokens taken.
Judged(ph, T, j, ns, gone) ==
    /\ ph = "OK" =>
         /\ Unbroken(T, j) /\ j = Len(T)
         /\ \A n \in 2..Len(ns) : ns[n].name = 0 /\ n \notin gone => DepthIn(T, j + 1) > 0
    /\ ph = "WrongGrammar" =>
         j >= 1 /\ BreaksIn(T, j) /\ \A n \in 1..(j - 1) : ~BreaksIn(T, n)

TreeInv ==
    /\ Forest
    /\ phase \in {"idle", "lex"} => i = 0 /\ nodes = <<Node(0)>> /\ erased = {}
    /\ Written(lex.tokens, i, nodes) /\ NamelessNewest(nodes, erased)
    /\ Len(nodes) >= 2 => Top(stack) = Len(nodes)
    /\ phase = "words" => Going(lex.tokens, i, nodes, erased, stack)
    /\ Judged(phase, lex.tokens, i, nodes, erased)

-----------------------------------------------------------------------------
(* Facts about tokens *)

\* The punctuation tokens are no words, and differ.
LEMMA PunctFacts ==
    ASSUME NEW T, NEW n
    PROVE  /\ T[n] = Open => ~WordIn(T, n)
           /\ T[n] = Close => ~WordIn(T, n)
           /\ T[n] = Semi => ~WordIn(T, n)
           /\ Open # Close /\ Open # Semi /\ Close # Semi
  <1>1. Open \in Puncts /\ Close \in Puncts /\ Semi \in Puncts
    BY Zenon DEF Puncts, Punctuation, Open, Close, Semi
  <1>2. Open # Close /\ Open # Semi /\ Close # Semi
    BY SMT DEF Open, Close, Semi
  <1> QED
    BY <1>1, <1>2, Zenon DEF WordIn

\* What Largest gives: the largest number of a set that has one, or 0.
LEMMA LargestFacts ==
    ASSUME NEW S, S \subseteq Int, NEW x \in S, \A o \in S : o <= x
    PROVE  Largest(S) = x
  <1>1. \E m \in S : \A o \in S : o <= m
    OBVIOUS
  <1>2. ASSUME NEW m \in S, \A o \in S : o <= m PROVE m = x
    BY <1>2
  <1> HIDE <1>1
  <1>3. (CHOOSE m \in S : \A o \in S : o <= m) = x
    BY <1>1, <1>2
  <1> QED
    BY <1>3 DEF Largest

\* The largest of none.
LEMMA LargestOfNone == Largest({}) = 0
  BY DEF Largest

\* One more token changes a count by what it is.
LEMMA CountStep ==
    ASSUME NEW T, NEW tk, NEW j \in Nat
    PROVE  /\ CountIn(T, tk, j + 1) \in Nat
           /\ T[j + 1] = tk => CountIn(T, tk, j + 2) = CountIn(T, tk, j + 1) + 1
           /\ T[j + 1] # tk => CountIn(T, tk, j + 2) = CountIn(T, tk, j + 1)
  <1> DEFINE S == {m \in 1..j : T[m] = tk}
             R == {m \in 1..(j + 1) : T[m] = tk}
  <1>1. CountIn(T, tk, j + 1) = Cardinality(S)
    <2>1. (j + 1) - 1 = j
      OBVIOUS
    <2> QED
      BY <2>1 DEF CountIn
  <1>2. CountIn(T, tk, j + 2) = Cardinality(R)
    <2>1. (j + 2) - 1 = j + 1
      OBVIOUS
    <2> QED
      BY <2>1 DEF CountIn
  <1>3. IsFiniteSet(S) /\ Cardinality(S) \in Nat
    <2>1. IsFiniteSet(1..j)
      BY FS_Interval
    <2>2. IsFiniteSet(S)
      BY <2>1, FS_Subset
    <2> QED
      BY <2>2, FS_CardinalityType
  <1>4. 1..(j + 1) = (1..j) \cup {j + 1} /\ j + 1 \notin 1..j
    OBVIOUS
  <1>5. ASSUME T[j + 1] # tk PROVE R = S
    BY <1>4, <1>5
  <1>6. ASSUME T[j + 1] = tk PROVE R = S \cup {j + 1} /\ j + 1 \notin S
    BY <1>4, <1>6
  <1> HIDE DEF S, R
  <1>7. ASSUME T[j + 1] = tk PROVE Cardinality(R) = Cardinality(S) + 1
    BY <1>3, <1>6, <1>7, FS_AddElement
  <1> QED
    BY <1>1, <1>2, <1>3, <1>5, <1>7

\* There is nothing in front of the first token.
LEMMA CountFirst ==
    ASSUME NEW T, NEW tk
    PROVE  CountIn(T, tk, 1) = 0
  <1>1. {m \in 1..(1 - 1) : T[m] = tk} = {}
    OBVIOUS
  <1> QED
    BY <1>1, FS_EmptySet DEF CountIn

\* The depth behind a token, from the depth before it.
LEMMA DepthStep ==
    ASSUME NEW T, NEW j \in Nat
    PROVE  /\ DepthIn(T, j + 1) \in Int
           /\ T[j + 1] = Open => DepthIn(T, j + 2) = DepthIn(T, j + 1) + 1
           /\ T[j + 1] = Close => DepthIn(T, j + 2) = DepthIn(T, j + 1) - 1
           /\ T[j + 1] # Open /\ T[j + 1] # Close => DepthIn(T, j + 2) = DepthIn(T, j + 1)
           /\ DepthIn(T, 1) = 0
  <1> DEFINE a == CountIn(T, Open, j + 1)
             b == CountIn(T, Close, j + 1)
             c == CountIn(T, Open, j + 2)
             d == CountIn(T, Close, j + 2)
  <1>1. /\ a \in Nat
        /\ T[j + 1] = Open => c = a + 1
        /\ T[j + 1] # Open => c = a
    BY CountStep, Zenon
  <1>2. /\ b \in Nat
        /\ T[j + 1] = Close => d = b + 1
        /\ T[j + 1] # Close => d = b
    BY CountStep, Zenon
  <1>3. DepthIn(T, j + 1) = a - b /\ DepthIn(T, j + 2) = c - d
    BY DEF DepthIn
  <1>4. DepthIn(T, 1) = 0
    <2>1. CountIn(T, Open, 1) = 0 /\ CountIn(T, Close, 1) = 0
      BY CountFirst
    <2> QED
      BY <2>1 DEF DepthIn
  <1>5. Open # Close
    BY PunctFacts
  <1> HIDE DEF a, b, c, d
  <1> QED
    BY <1>1, <1>2, <1>3, <1>4, <1>5
\* Every set of naturals that is not empty has a least element.
LEMMA LeastOf ==
    ASSUME NEW S, S \subseteq Nat, S # {}
    PROVE  \E x \in S : \A y \in S : x <= y
  <1> DEFINE R == {ss \in Nat \X Nat : ss[1] < ss[2]}
  <1>1. OpToRel(<, Nat) = R
    BY Zenon DEF OpToRel
  <1>2. IsWellFoundedOn(R, Nat)
    BY <1>1, NatLessThanWellFounded, Zenon
  <1>3. PICK x \in S : \A y \in S : ~(<<y, x>> \in R)
    BY <1>2, WFMin
  <1>4. ASSUME NEW y \in S PROVE x <= y
    <2>1. x \in Nat /\ y \in Nat
      OBVIOUS
    <2>2. <<y, x>> \in Nat \X Nat /\ <<y, x>>[1] = y /\ <<y, x>>[2] = x
      BY <2>1
    <2>3. ~(y < x)
      BY <1>3, <2>2
    <2> QED
      BY <2>1, <2>3
  <1> QED
    BY <1>4

\* Largest gives a member of a bounded set, unless that is empty.
LEMMA LargestIn ==
    ASSUME NEW n \in Nat, NEW S, S \subseteq 1..n
    PROVE  /\ Largest(S) \in 0..n
           /\ S # {} => Largest(S) \in S /\ \A o \in S : o <= Largest(S)
  <1>1. CASE S = {}
    BY <1>1, LargestOfNone
  <1>2. CASE S # {}
    <2> DEFINE D == {n - x : x \in S}
    <2>1. D \subseteq Nat /\ D # {}
      <3>1. PICK x \in S : TRUE
        BY <1>2
      <3>2. n - x \in D
        OBVIOUS
      <3>3. \A y \in D : y \in Nat
        OBVIOUS
      <3> QED
        BY <3>2, <3>3
    <2>2. PICK y \in D : \A z \in D : y <= z
      <3> HIDE DEF D
      <3> QED
        BY <2>1, LeastOf
    <2>3. PICK x \in S : y = n - x
      BY <2>2
    <2>4. ASSUME NEW o \in S PROVE o <= x
      <3>1. n - o \in D
        OBVIOUS
      <3>2. n - x <= n - o
        BY <3>1, <2>2, <2>3
      <3>3. x \in Int /\ o \in Int
        OBVIOUS
      <3> QED
        BY <3>2, <3>3
    <2> HIDE DEF D
    <2>5. Largest(S) = x
      <3>1. S \subseteq Int
        OBVIOUS
      <3> QED
        BY <3>1, <2>4, LargestFacts
    <2> QED
      BY <2>4, <2>5
  <1> QED
    BY <1>1, <1>2

\* One more token is one more directive, or not.
LEMMA StartsStep ==
    ASSUME NEW T, NEW j \in Nat
    PROVE  /\ StartsIn(T, j) \subseteq 1..j
           /\ ~WordIn(T, j + 1) => StartsIn(T, j + 1) = StartsIn(T, j)
           /\ j # 0 /\ WordIn(T, j) => StartsIn(T, j + 1) = StartsIn(T, j)
           /\ WordIn(T, j + 1) /\ (j = 0 \/ ~WordIn(T, j)) =>
                StartsIn(T, j + 1) = StartsIn(T, j) \cup {j + 1}
  <1>1. 1..(j + 1) = (1..j) \cup {j + 1} /\ j + 1 \notin 1..j /\ (j + 1) - 1 = j
    OBVIOUS
  <1>2. j + 1 = 1 <=> j = 0
    OBVIOUS
  <1>3. j + 1 \in StartsIn(T, j + 1) <=> WordIn(T, j + 1) /\ (j = 0 \/ ~WordIn(T, j))
    BY <1>1, <1>2 DEF StartsIn
  <1>4. \A n \in 1..j : n \in StartsIn(T, j + 1) <=> n \in StartsIn(T, j)
    BY <1>1 DEF StartsIn
  <1>5. StartsIn(T, j) \subseteq 1..j /\ StartsIn(T, j + 1) \subseteq (1..j) \cup {j + 1}
    BY <1>1, Zenon DEF StartsIn
  <1> QED
    BY <1>1, <1>3, <1>4, <1>5, Zenon

\* The directive in front of an earlier brace stays the same.
LEMMA HeadKept ==
    ASSUME NEW T, NEW j \in Nat, NEW b \in Int, b <= j + 1
    PROVE  HeadIn(T, j + 1, b) = HeadIn(T, j, b)
  <1>1. ASSUME NEW m PROVE m \in StartsIn(T, j + 1) /\ m < b <=> m \in StartsIn(T, j) /\ m < b
    <2>1. StartsIn(T, j + 1) = StartsIn(T, j) \/ StartsIn(T, j + 1) = StartsIn(T, j) \cup {j + 1}
      BY StartsStep, Zenon
    <2>2. ~(j + 1 < b)
      OBVIOUS
    <2> QED
      BY <2>1, <2>2
  <1>2. {m \in StartsIn(T, j + 1) : m < b} = {m \in StartsIn(T, j) : m < b}
    BY <1>1
  <1> QED
    BY <1>2 DEF HeadIn

\* The open braces behind a token.
LEMMA BraceStep ==
    ASSUME NEW T, NEW j \in Nat, NEW d \in Int
    PROVE  /\ BraceIn(T, j + 1, d) \in 0..j
           /\ T[j + 1] # Open \/ DepthIn(T, j + 1) >= d =>
                BraceIn(T, j + 2, d) = BraceIn(T, j + 1, d)
           /\ T[j + 1] = Open /\ DepthIn(T, j + 1) < d => BraceIn(T, j + 2, d) = j + 1
  <1> DEFINE S == {m \in 1..j : T[m] = Open /\ DepthIn(T, m) < d}
             R == {m \in 1..(j + 1) : T[m] = Open /\ DepthIn(T, m) < d}
  <1>1. BraceIn(T, j + 1, d) = Largest(S)
    <2>1. (j + 1) - 1 = j
      OBVIOUS
    <2> QED
      BY <2>1 DEF BraceIn
  <1>2. BraceIn(T, j + 2, d) = Largest(R)
    <2>1. (j + 2) - 1 = j + 1
      OBVIOUS
    <2> QED
      BY <2>1 DEF BraceIn
  <1>3. Largest(S) \in 0..j
    BY LargestIn
  <1>4. DepthIn(T, j + 1) \in Int
    BY DepthStep
  <1>5. 1..(j + 1) = (1..j) \cup {j + 1} /\ j + 1 \notin 1..j
    OBVIOUS
  <1>6. ASSUME T[j + 1] # Open \/ DepthIn(T, j + 1) >= d PROVE R = S
    <2>1. ~(T[j + 1] = Open /\ DepthIn(T, j + 1) < d)
      BY <1>4, <1>6
    <2> QED
      BY <1>5, <2>1
  <1>7. ASSUME T[j + 1] = Open, DepthIn(T, j + 1) < d PROVE Largest(R) = j + 1
    <2>1. j + 1 \in R
      BY <1>5, <1>7
    <2>2. R \subseteq Int /\ \A o \in R : o <= j + 1
      OBVIOUS
    <2> HIDE DEF R
    <2> QED
      BY <2>1, <2>2, LargestFacts
  <1> HIDE DEF S, R
  <1> QED
    BY <1>1, <1>2, <1>3, <1>6, <1>7

\* The owner of a directive stays the same.
LEMMA OwnerKept ==
    ASSUME NEW T, NEW j \in Nat, NEW n \in 1..j
    PROVE  OwnerIn(T, j + 1, n) = OwnerIn(T, j, n)
  <1>1. n - 1 \in Nat /\ (n - 1) + 1 = n
    OBVIOUS
  <1>2. DepthIn(T, n) \in Int
    BY <1>1, DepthStep
  <1> DEFINE b == BraceIn(T, n, DepthIn(T, n))
  <1>3. b \in 0..(n - 1)
    BY <1>1, <1>2, BraceStep
  <1> HIDE DEF b
  <1>4. b \in Int /\ b <= j + 1
    BY <1>3
  <1>5. HeadIn(T, j + 1, b) = HeadIn(T, j, b)
    BY <1>4, HeadKept
  <1> QED
    BY <1>5 DEF OwnerIn, b

\* The values of a directive, with one more token.
LEMMA ValuesStep ==
    ASSUME NEW T, NEW j \in Nat, NEW n \in 1..j
    PROVE  /\ ~WordIn(T, j + 1) \/ (\E o \in n..j : ~WordIn(T, o)) =>
                ValuesIn(T, j + 1, n) = ValuesIn(T, j, n)
           /\ WordIn(T, j + 1) /\ (\A o \in n..j : WordIn(T, o)) =>
                ValuesIn(T, j + 1, n) = ValuesIn(T, j, n) \cup {j + 1}
           /\ ValuesIn(T, j, n) \subseteq 1..j
  <1>1. /\ (n + 1)..(j + 1) = ((n + 1)..j) \cup {j + 1} /\ j + 1 \notin (n + 1)..j
        /\ n..(j + 1) = (n..j) \cup {j + 1} /\ (n + 1)..j \subseteq 1..j
    OBVIOUS
  <1>2. j + 1 \in ValuesIn(T, j + 1, n) <=> WordIn(T, j + 1) /\ \A o \in n..j : WordIn(T, o)
    BY <1>1 DEF ValuesIn
  <1>3. \A m \in (n + 1)..j : m \in ValuesIn(T, j + 1, n) <=> m \in ValuesIn(T, j, n)
    BY <1>1 DEF ValuesIn
  <1>4. /\ ValuesIn(T, j, n) \subseteq (n + 1)..j
        /\ ValuesIn(T, j + 1, n) \subseteq ((n + 1)..j) \cup {j + 1}
    BY <1>1, Zenon DEF ValuesIn
  <1> QED
    BY <1>1, <1>2, <1>3, <1>4, Zenon
-----------------------------------------------------------------------------
(* The tree and one more token *)

\* Every directive has begun with a token that was taken.
LEMMA NamedFacts ==
    ASSUME NEW T, NEW j \in Nat, NEW ns, NamesOnce(T, j, ns), NEW n \in NamedIn(ns)
    PROVE  ns[n].name \in 1..j /\ n \in 2..Len(ns)
  BY StartsStep, Zenon DEF NamesOnce, NamedIn

\* A token that is no word adds nothing to the tree, and ends the directive
\* before it.
LEMMA PunctTaken ==
    ASSUME NEW T, NEW j \in Nat, NEW ns, Written(T, j, ns), ~WordIn(T, j + 1)
    PROVE  Written(T, j + 1, ns) /\ AllEnded(T, j + 1, ns)
  <1>1. StartsIn(T, j + 1) = StartsIn(T, j)
    BY StartsStep
  <1>2. /\ Rooted(ns) /\ NamesOnce(T, j, ns) /\ Valued(T, j, ns)
        /\ Owned(T, j, ns) /\ Ended(T, j, ns)
    BY DEF Written
  <1>3. NamesOnce(T, j + 1, ns)
    BY <1>1, <1>2, Zenon DEF NamesOnce
  <1>4. ASSUME NEW n \in NamedIn(ns)
        PROVE  /\ ValuesIn(T, j + 1, ns[n].name) = ValuesIn(T, j, ns[n].name)
               /\ OwnerIn(T, j + 1, ns[n].name) = OwnerIn(T, j, ns[n].name)
               /\ EndedAt(T, j + 1, ns[n].name)
    <2>1. PICK m \in 1..j : m = ns[n].name
      BY <1>2, NamedFacts
    <2>2. ValuesIn(T, j + 1, m) = ValuesIn(T, j, m)
      BY ValuesStep
    <2>3. OwnerIn(T, j + 1, m) = OwnerIn(T, j, m)
      BY OwnerKept
    <2>4. j + 1 \in m..(j + 1)
      OBVIOUS
    <2> QED
      BY <2>1, <2>2, <2>3, <2>4, Zenon DEF EndedAt
  <1>5. Valued(T, j + 1, ns)
    BY <1>2, <1>4, Zenon DEF Valued
  <1>6. Owned(T, j + 1, ns)
    BY <1>2, <1>4, Zenon DEF Owned
  <1>7. Ended(T, j + 1, ns) /\ AllEnded(T, j + 1, ns)
    BY <1>4, Zenon DEF Ended, AllEnded
  <1> QED
    BY <1>2, <1>3, <1>5, <1>6, <1>7, Zenon DEF Written

\* What a push_back of an empty Node gives.
PushedNode(ns, p, ms) ==
    /\ Len(ns) \in Nat /\ ms \in NodeSeq /\ Len(ms) = Len(ns) + 1
    /\ \A n \in 1..Len(ns) : ms[n] = ns[n]
    /\ ms[Len(ns) + 1].name = 0 /\ ms[Len(ns) + 1].parent = p
    /\ ms[Len(ns) + 1].values = <<>>
    /\ NamedIn(ms) = NamedIn(ns)

LEMMA NodePushed ==
    ASSUME NEW ns \in NodeSeq, Len(ns) >= 1, NEW p \in 1..Len(ns),
           NEW ms, ms = Append(ns, Node(p))
    PROVE  PushedNode(ns, p, ms)
  <1>1. Node(p) \in [name : Nat, values : Seq(Nat), parent : Nat]
    BY DEF Node
  <1>2. Len(ns) \in Nat
    BY LenProperties DEF NodeSeq
  <1>3. /\ ms \in NodeSeq /\ Len(ms) = Len(ns) + 1
        /\ \A n \in 1..Len(ns) : ms[n] = ns[n]
        /\ ms[Len(ns) + 1] = Node(p)
    BY <1>1, AppendProperties DEF NodeSeq
  <1>4. Node(p).name = 0 /\ Node(p).parent = p /\ Node(p).values = <<>>
    BY DEF Node
  <1>5. NamedIn(ms) = NamedIn(ns)
    <2>1. ASSUME NEW n \in 2..Len(ns) PROVE n \in 2..Len(ms) /\ ms[n] = ns[n]
      BY <1>2, <1>3
    <2>2. ASSUME NEW n \in 2..Len(ms), n \notin 2..Len(ns) PROVE ms[n].name = 0
      <3>1. n = Len(ns) + 1
        BY <1>2, <1>3, <2>2
      <3> QED
        BY <3>1, <1>3, <1>4
    <2> QED
      BY <2>1, <2>2, Zenon DEF NamedIn
  <1> QED
    BY <1>2, <1>3, <1>4, <1>5 DEF PushedNode

\* An empty Node behind directives that have ended adds nothing to the tree.
LEMMA WrittenPushed ==
    ASSUME NEW T, NEW j \in Nat, NEW ns \in NodeSeq, Len(ns) >= 1, NEW p \in 1..Len(ns),
           NEW ms, ms = Append(ns, Node(p)), Written(T, j, ns),
           AllEnded(T, j, ns)
    PROVE  Written(T, j, ms)
  <1>1. /\ Len(ns) \in Nat /\ Len(ms) = Len(ns) + 1
        /\ \A n \in 1..Len(ns) : ms[n] = ns[n]
        /\ ms[Len(ns) + 1].name = 0 /\ ms[Len(ns) + 1].parent = p
        /\ ms[Len(ns) + 1].values = <<>>
        /\ NamedIn(ms) = NamedIn(ns)
    <2>1. PushedNode(ns, p, ms)
      BY NodePushed
    <2> QED
      BY <2>1 DEF PushedNode
  <1>2. /\ Rooted(ns) /\ NamesOnce(T, j, ns) /\ Valued(T, j, ns) /\ Owned(T, j, ns)
    BY DEF Written
  <1>3. Rooted(ms)
    <2>1. ms[Root] = ns[Root]
      BY <1>1 DEF Root
    <2>2. ASSUME NEW n \in 2..Len(ms)
          PROVE  ms[n].parent \in 1..(n - 1) /\ (ms[n].name = 0 => ms[n].values = <<>>)
      <3>1. CASE n = Len(ns) + 1
        <4>1. n - 1 = Len(ns)
          BY <3>1, <1>1
        <4> QED
          BY <3>1, <4>1, <1>1
      <3>2. CASE n # Len(ns) + 1
        <4>1. n \in 2..Len(ns) /\ n \in 1..Len(ns)
          BY <3>2, <1>1
        <4> QED
          BY <4>1, <1>1, <1>2 DEF Rooted
      <3> QED
        BY <3>1, <3>2
    <2> QED
      BY <2>1, <2>2, <1>2 DEF Rooted
  <1>4. ASSUME NEW n \in NamedIn(ns)
        PROVE  ms[n] = ns[n] /\ ns[n].parent \in 1..Len(ns) /\ n \in 2..Len(ns)
    <2>1. n \in 2..Len(ns) /\ n \in 1..Len(ns)
      BY <1>1 DEF NamedIn
    <2>2. ns[n].parent \in 1..(n - 1)
      BY <2>1, <1>2 DEF Rooted
    <2> QED
      BY <2>1, <2>2, <1>1
  <1>5. NamesOnce(T, j, ms)
    BY <1>1, <1>2, <1>4, ZenonT(40) DEF NamesOnce
  <1>6. Valued(T, j, ms)
    BY <1>1, <1>2, <1>4, Zenon DEF Valued
  <1>7. Owned(T, j, ms)
    BY <1>1, <1>2, <1>4, Zenon DEF Owned
  <1>8. Ended(T, j, ms)
    BY <1>1, <1>4, Zenon DEF Ended, AllEnded
  <1> QED
    BY <1>3, <1>5, <1>6, <1>7, <1>8 DEF Written
\* What a word changes: only the newest Node, which gets a name or a value.
FilledNode(ns, j, ms) ==
    /\ Len(ns) \in Nat /\ ms \in NodeSeq /\ Len(ms) = Len(ns)
    /\ \A n \in 1..Len(ns) : n # Len(ns) => ms[n] = ns[n]
    /\ ms[Len(ns)].parent = ns[Len(ns)].parent
    /\ ns[Len(ns)].name = 0 => /\ ms[Len(ns)].name = j + 1
                               /\ ms[Len(ns)].values = ns[Len(ns)].values
    /\ ns[Len(ns)].name # 0 => /\ ms[Len(ns)].name = ns[Len(ns)].name
                               /\ ms[Len(ns)].values = Append(ns[Len(ns)].values, j + 1)
    /\ ns[Len(ns)].values \in Seq(Nat) /\ ns[Len(ns)].name \in Nat

LEMMA NodeFilled ==
    ASSUME NEW ns \in NodeSeq, Len(ns) >= 1, NEW j \in Nat,
           NEW ms, ms = [ns EXCEPT ![Len(ns)] = WithWord(ns[Len(ns)], j + 1)]
    PROVE  FilledNode(ns, j, ms)
  <1> DEFINE NodeType == [name : Nat, values : Seq(Nat), parent : Nat]
             x == WithWord(ns[Len(ns)], j + 1)
  <1>1. Len(ns) \in Nat /\ Len(ns) \in 1..Len(ns) /\ ns \in Seq(NodeType)
    BY LenProperties DEF NodeSeq
  <1>2. ns[Len(ns)] \in NodeType
    BY <1>1, ElementOfSeq
  <1>3. /\ x \in NodeType /\ x.parent = ns[Len(ns)].parent
        /\ ns[Len(ns)].name = 0 => x.name = j + 1 /\ x.values = ns[Len(ns)].values
        /\ ns[Len(ns)].name # 0 => /\ x.name = ns[Len(ns)].name
                                   /\ x.values = Append(ns[Len(ns)].values, j + 1)
    <2>1. CASE ns[Len(ns)].name = 0
      <3>1. x = [ns[Len(ns)] EXCEPT !.name = j + 1]
        BY <2>1 DEF WithWord
      <3> HIDE DEF x
      <3>2. ASSUME NEW y \in NodeType, NEW k \in Nat
            PROVE  /\ [y EXCEPT !.name = k] \in NodeType
                   /\ [y EXCEPT !.name = k].parent = y.parent
                   /\ [y EXCEPT !.name = k].name = k
                   /\ [y EXCEPT !.name = k].values = y.values
        OBVIOUS
      <3> HIDE DEF NodeType
      <3>3. /\ x \in NodeType /\ x.parent = ns[Len(ns)].parent
            /\ x.name = j + 1 /\ x.values = ns[Len(ns)].values
        <4>1. j + 1 \in Nat
          OBVIOUS
        <4> QED
          BY <4>1, <3>1, <3>2, <1>2, Zenon
      <3> QED
        BY <2>1, <3>3, Zenon
    <2>2. CASE ns[Len(ns)].name # 0
      <3>1. Append(ns[Len(ns)].values, j + 1) \in Seq(Nat)
        BY <1>2, AppendProperties
      <3> QED
        BY <2>2, <3>1, <1>2 DEF WithWord
    <2> QED
      BY <2>1, <2>2
  <1>4. ns[Len(ns)].values \in Seq(Nat) /\ ns[Len(ns)].name \in Nat
    BY <1>2
  <1> HIDE DEF x, NodeType
  <1>5. /\ ms \in Seq(NodeType) /\ Len(ms) = Len(ns)
        /\ \A n \in 1..Len(ns) : ms[n] = IF n = Len(ns) THEN x ELSE ns[n]
    <2>1. ms = [ns EXCEPT ![Len(ns)] = x]
      BY DEF x
    <2> QED
      BY <2>1, <1>1, <1>3, ExceptSeq
  <1>6. ms[Len(ns)] = x /\ \A n \in 1..Len(ns) : n # Len(ns) => ms[n] = ns[n]
    BY <1>1, <1>5
  <1>7. ms \in NodeSeq
    BY <1>5 DEF NodeSeq, NodeType
  <1> QED
    BY <1>1, <1>3, <1>4, <1>5, <1>6, <1>7 DEF FilledNode

\* More tokens do not undo the end of a directive.
LEMMA EndedKept ==
    ASSUME NEW T, NEW j \in Nat, NEW m \in 1..j, EndedAt(T, j, m)
    PROVE  EndedAt(T, j + 1, m)
  <1>1. m..j \subseteq m..(j + 1)
    OBVIOUS
  <1> QED
    BY <1>1, Zenon DEF EndedAt

\* The Nodes that a word does not touch.
KeptNode(T, j, ns, ms, n) ==
    /\ ms[n] = ns[n] /\ ms[ns[n].parent] = ns[ns[n].parent]
    /\ ValuesIn(T, j + 1, ns[n].name) = ValuesIn(T, j, ns[n].name)
    /\ OwnerIn(T, j + 1, ns[n].name) = OwnerIn(T, j, ns[n].name)
    /\ EndedAt(T, j + 1, ns[n].name)
    /\ ns[n].name \in 1..j /\ n < Len(ns) /\ n \in NamedIn(ms)

LEMMA OthersKept ==
    ASSUME NEW T, NEW j \in Nat, NEW ns \in NodeSeq, Len(ns) >= 2, Written(T, j, ns),
           NEW ms, FilledNode(ns, j, ms), NEW n \in NamedIn(ns), n # Len(ns)
    PROVE  KeptNode(T, j, ns, ms, n)
  <1>1. /\ Rooted(ns) /\ NamesOnce(T, j, ns) /\ Ended(T, j, ns)
    BY DEF Written
  <1>2. /\ Len(ns) \in Nat /\ Len(ms) = Len(ns)
        /\ \A k \in 1..Len(ns) : k # Len(ns) => ms[k] = ns[k]
    BY DEF FilledNode
  <1>3. n \in 2..Len(ns) /\ ns[n].name # 0
    BY DEF NamedIn
  <1>4. ns[n].parent \in 1..(n - 1)
    BY <1>1, <1>3 DEF Rooted
  <1>5. n \in 1..Len(ns) /\ n < Len(ns)
    BY <1>2, <1>3
  <1>6. ns[n].parent \in 1..Len(ns) /\ ns[n].parent # Len(ns)
    BY <1>2, <1>3, <1>4
  <1>7. ms[n] = ns[n] /\ ms[ns[n].parent] = ns[ns[n].parent]
    BY <1>2, <1>5, <1>6
  <1>8. n \in NamedIn(ms)
    BY <1>2, <1>3, <1>7, Zenon DEF NamedIn
  <1>9. PICK m \in 1..j : m = ns[n].name
    BY <1>1, NamedFacts
  <1>10. EndedAt(T, j, m)
    BY <1>1, <1>9, Zenon DEF Ended
  <1>11. EndedAt(T, j + 1, m)
    BY <1>10, EndedKept
  <1>12. ValuesIn(T, j + 1, m) = ValuesIn(T, j, m)
    BY <1>10, ValuesStep DEF EndedAt
  <1>13. OwnerIn(T, j + 1, m) = OwnerIn(T, j, m)
    BY OwnerKept
  <1> QED
    BY <1>5, <1>7, <1>8, <1>9, <1>11, <1>12, <1>13, Zenon DEF KeptNode
\* A word behind a token that is none names the newest Node.
LEMMA WordNames ==
    ASSUME NEW T, NEW j \in Nat, NEW ns \in NodeSeq, Len(ns) >= 2, Written(T, j, ns),
           NEW ms, FilledNode(ns, j, ms), ns[Len(ns)].name = 0, Filling(T, j, ns),
           WordIn(T, j + 1),
           ns[ns[Len(ns)].parent].name = OwnerIn(T, j, j + 1)
    PROVE  Written(T, j + 1, ms) /\ Filling(T, j + 1, ms)
  <1> DEFINE x == Len(ns)
  <1>1. /\ Rooted(ns) /\ NamesOnce(T, j, ns) /\ Valued(T, j, ns) /\ Owned(T, j, ns)
    BY DEF Written
  <1>2. /\ x \in Nat /\ x >= 2 /\ Len(ms) = x
        /\ \A k \in 1..x : k # x => ms[k] = ns[k]
        /\ ms[x].parent = ns[x].parent /\ ms[x].name = j + 1 /\ ms[x].values = ns[x].values
    BY DEF FilledNode
  <1>3. ns[x].parent \in 1..(x - 1) /\ ns[x].values = <<>>
    BY <1>1, <1>2 DEF Rooted
  <1>4. StartsIn(T, j + 1) = StartsIn(T, j) \cup {j + 1}
    <2>1. j = 0 \/ ~WordIn(T, j)
      BY DEF Filling
    <2> QED
      BY <2>1, StartsStep
  <1>5. NamedIn(ms) = NamedIn(ns) \cup {x} /\ x \notin NamedIn(ns)
    <2>1. \A n \in 2..x : n \in 1..x
      BY <1>2
    <2>2. x \in 2..x /\ j + 1 # 0
      BY <1>2
    <2>3. \A n \in 2..x : n \in NamedIn(ms) <=> n = x \/ n \in NamedIn(ns)
      BY <2>1, <2>2, <1>2, Zenon DEF NamedIn
    <2>4. NamedIn(ms) \subseteq 2..x /\ NamedIn(ns) \subseteq 2..x
      BY <1>2, Zenon DEF NamedIn
    <2>5. x \notin NamedIn(ns)
      BY Zenon DEF NamedIn
    <2> QED
      BY <2>2, <2>3, <2>4, <2>5, Zenon
  <1> HIDE DEF x
  <1>6. ASSUME NEW n \in NamedIn(ns)
        PROVE  /\ ms[n] = ns[n] /\ ms[ns[n].parent] = ns[ns[n].parent]
               /\ ValuesIn(T, j + 1, ns[n].name) = ValuesIn(T, j, ns[n].name)
               /\ OwnerIn(T, j + 1, ns[n].name) = OwnerIn(T, j, ns[n].name)
               /\ EndedAt(T, j + 1, ns[n].name)
               /\ ns[n].name \in 1..j /\ n < x
    <2>1. n # Len(ns)
      BY <1>5 DEF x
    <2>2. KeptNode(T, j, ns, ms, n)
      BY <2>1, OthersKept
    <2> QED
      BY <2>2, Zenon DEF KeptNode, x
  <1>7. Rooted(ms)
    <2>1. Root \in 1..x /\ Root # x
      BY <1>2 DEF Root
    <2>2. ASSUME NEW n \in 2..x
          PROVE  ms[n].parent \in 1..(n - 1) /\ (ms[n].name = 0 => ms[n].values = <<>>)
      <3>1. CASE n = x
        BY <3>1, <1>2, <1>3
      <3>2. CASE n # x
        <4>1. n \in 1..x /\ n \in 2..Len(ns)
          BY <1>2 DEF x
        <4> QED
          BY <3>2, <4>1, <1>1, <1>2, Zenon DEF Rooted
      <3> QED
        BY <3>1, <3>2
    <2> QED
      BY <2>1, <2>2, <1>1, <1>2, Zenon DEF Rooted
  <1>8. NamesOnce(T, j + 1, ms)
    <2>1. \A n \in NamedIn(ms) : ms[n].name \in StartsIn(T, j + 1)
      BY <1>1, <1>2, <1>4, <1>5, <1>6, Zenon DEF NamesOnce
    <2>2. ASSUME NEW m \in StartsIn(T, j + 1) PROVE \E n \in NamedIn(ms) : ms[n].name = m
      <3>1. CASE m = j + 1
        BY <3>1, <1>2, <1>5, Zenon
      <3>2. CASE m \in StartsIn(T, j)
        <4>1. PICK n \in NamedIn(ns) : ns[n].name = m
          BY <3>2, <1>1, Zenon DEF NamesOnce
        <4> QED
          BY <4>1, <1>5, <1>6, Zenon
      <3> QED
        BY <3>1, <3>2, <1>4, Zenon
    <2>3. ASSUME NEW n \in NamedIn(ms), NEW o \in NamedIn(ms), n < o
          PROVE  ms[n].name < ms[o].name
      <3>1. CASE n \in NamedIn(ns) /\ o \in NamedIn(ns)
        BY <3>1, <2>3, <1>1, <1>6, Zenon DEF NamesOnce
      <3>2. CASE n \in NamedIn(ns) /\ o = x
        <4>1. ms[n].name \in 1..j /\ ms[o].name = j + 1
          BY <3>2, <1>2, <1>6, Zenon
        <4> QED
          BY <4>1
      <3>3. CASE n = x
        <4>1. o = x \/ o < x
          BY <1>5, <1>6
        <4>2. o \in Int
          <5>1. NamedIn(ms) \subseteq Int
            BY SMT DEF NamedIn
          <5> QED
            BY <5>1
        <4> QED
          BY <3>3, <4>1, <4>2, <2>3, <1>2
      <3> QED
        BY <3>1, <3>2, <3>3, <1>5
    <2> QED
      BY <2>1, <2>2, <2>3, Zenon DEF NamesOnce
  <1>9. Valued(T, j + 1, ms)
    <2>1. ValuesIn(T, j + 1, j + 1) = {}
      BY DEF ValuesIn
    <2>2. ValuesOf(<<>>, {})
      BY DEF ValuesOf
    <2>3. ValuesOf(ms[x].values, ValuesIn(T, j + 1, ms[x].name))
      BY <2>1, <2>2, <1>2, <1>3, Zenon
    <2> QED
      BY <2>3, <1>1, <1>5, <1>6, Zenon DEF Valued
  <1>10. Owned(T, j + 1, ms)
    <2> DEFINE b == BraceIn(T, j + 1, DepthIn(T, j + 1))
    <2>1. b \in 0..j
      <3>1. DepthIn(T, j + 1) \in Int
        BY DepthStep
      <3> QED
        BY <3>1, BraceStep
    <2> HIDE DEF b
    <2>2. b \in Int /\ b <= j + 1
      BY <2>1
    <2>3. HeadIn(T, j + 1, b) = HeadIn(T, j, b)
      BY <2>2, HeadKept
    <2>4. OwnerIn(T, j + 1, j + 1) = OwnerIn(T, j, j + 1)
      BY <2>3, Zenon DEF OwnerIn, b
    <2>5. ns[x].parent \in 1..x /\ ns[x].parent # x
      BY <1>2, <1>3
    <2>6. ms[ms[x].parent].name = OwnerIn(T, j + 1, ms[x].name)
      BY <2>4, <2>5, <1>2, Zenon DEF x
    <2>7. ASSUME NEW n \in NamedIn(ns)
          PROVE  ms[ms[n].parent].name = OwnerIn(T, j + 1, ms[n].name)
      <3>1. ns[ns[n].parent].name = OwnerIn(T, j, ns[n].name)
        BY <1>1, Zenon DEF Owned
      <3> QED
        BY <3>1, <1>6, Zenon
    <2> QED
      BY <2>6, <2>7, <1>5, Zenon DEF Owned
  <1>11. Ended(T, j + 1, ms)
    BY <1>2, <1>5, <1>6, Zenon DEF Ended
  <1>12. Filling(T, j + 1, ms)
    <2>1. ms[Len(ms)].name = j + 1 /\ j + 1 # 0 /\ (j + 1)..(j + 1) = {j + 1}
      BY <1>2
    <2> QED
      BY <2>1, Zenon DEF Filling
  <1> QED
    BY <1>7, <1>8, <1>9, <1>10, <1>11, <1>12 DEF Written
\* One more value, larger than the others.
LEMMA ValueAdded ==
    ASSUME NEW j \in Nat, NEW vs \in Seq(Nat), NEW want, want \subseteq 1..j, ValuesOf(vs, want)
    PROVE  ValuesOf(Append(vs, j + 1), want \cup {j + 1})
  <1> DEFINE us == Append(vs, j + 1)
  <1>1. /\ Len(vs) \in Nat /\ Len(us) = Len(vs) + 1 /\ us[Len(vs) + 1] = j + 1
        /\ \A v \in 1..Len(vs) : us[v] = vs[v]
    BY AppendProperties, LenProperties
  <1> HIDE DEF us
  <1>2. 1..Len(us) = (1..Len(vs)) \cup {Len(vs) + 1}
    BY <1>1
  <1>3. \A v \in 1..Len(us) : us[v] \in want \cup {j + 1}
    BY <1>1, <1>2, Zenon DEF ValuesOf
  <1>4. ASSUME NEW m \in want \cup {j + 1} PROVE \E v \in 1..Len(us) : us[v] = m
    <2>1. CASE m = j + 1
      BY <2>1, <1>1, <1>2, Zenon
    <2>2. CASE m \in want
      <3>1. PICK v \in 1..Len(vs) : vs[v] = m
        BY <2>2, Zenon DEF ValuesOf
      <3> QED
        BY <3>1, <1>1, <1>2, Zenon
    <2> QED
      BY <2>1, <2>2, Zenon
  <1>5. ASSUME NEW v \in 2..Len(us) PROVE us[v - 1] < us[v]
    <2>1. v - 1 \in 1..Len(vs) /\ us[v - 1] = vs[v - 1]
      BY <1>1
    <2>2. CASE v = Len(vs) + 1
      <3>1. vs[v - 1] \in 1..j
        BY <2>1, Zenon DEF ValuesOf
      <3> QED
        BY <3>1, <2>1, <2>2, <1>1
    <2>3. CASE v # Len(vs) + 1
      <3>1. v \in 2..Len(vs) /\ v \in 1..Len(vs)
        BY <2>3, <1>1
      <3> QED
        BY <3>1, <2>1, <1>1, Zenon DEF ValuesOf
    <2> QED
      BY <2>2, <2>3
  <1> QED
    BY <1>3, <1>4, <1>5, Zenon DEF ValuesOf, us

\* A word behind a word is a value of the newest Node.
LEMMA WordAdds ==
    ASSUME NEW T, NEW j \in Nat, NEW ns \in NodeSeq, Len(ns) >= 2, Written(T, j, ns),
           NEW ms, FilledNode(ns, j, ms), ns[Len(ns)].name # 0, Filling(T, j, ns),
           WordIn(T, j + 1)
    PROVE  Written(T, j + 1, ms) /\ Filling(T, j + 1, ms)
  <1> DEFINE x == Len(ns)
             h == ns[x].name
  <1>1. /\ Rooted(ns) /\ NamesOnce(T, j, ns) /\ Valued(T, j, ns) /\ Owned(T, j, ns)
    BY DEF Written
  <1>2. /\ x \in Nat /\ x >= 2 /\ Len(ms) = x
        /\ \A k \in 1..x : k # x => ms[k] = ns[k]
        /\ ms[x].parent = ns[x].parent /\ ms[x].name = h
        /\ ms[x].values = Append(ns[x].values, j + 1) /\ ns[x].values \in Seq(Nat)
    BY DEF FilledNode
  <1>3. /\ j # 0 /\ WordIn(T, j) /\ \A o \in h..j : WordIn(T, o)
    BY DEF Filling
  <1>4. StartsIn(T, j + 1) = StartsIn(T, j)
    BY <1>3, StartsStep
  <1>5. x \in NamedIn(ns) /\ h # 0
    <2>1. x \in 2..x
      BY <1>2
    <2> QED
      BY <2>1, Zenon DEF NamedIn
  <1>6. h \in 1..j
    BY <1>1, <1>5, NamedFacts
  <1>7. ns[x].parent \in 1..x /\ ns[x].parent # x /\ ns[x].parent \in 1..(x - 1)
    <2>1. ns[x].parent \in 1..(x - 1)
      BY <1>1, <1>2 DEF Rooted
    <2> QED
      BY <2>1, <1>2
  <1> HIDE DEF x, h
  <1>8. ASSUME NEW n \in NamedIn(ns), n # x
        PROVE  /\ ms[n] = ns[n] /\ ms[ns[n].parent] = ns[ns[n].parent]
               /\ ValuesIn(T, j + 1, ns[n].name) = ValuesIn(T, j, ns[n].name)
               /\ OwnerIn(T, j + 1, ns[n].name) = OwnerIn(T, j, ns[n].name)
               /\ EndedAt(T, j + 1, ns[n].name)
    <2>1. n # Len(ns)
      BY <1>8 DEF x
    <2>2. KeptNode(T, j, ns, ms, n)
      BY <2>1, OthersKept
    <2> QED
      BY <2>2, Zenon DEF KeptNode
  <1>9. NamedIn(ms) = NamedIn(ns) /\ \A n \in 1..x : ms[n].name = ns[n].name
    <2>1. ASSUME NEW n \in 1..x PROVE ms[n].name = ns[n].name
      <3>1. CASE n = x
        BY <3>1, <1>2 DEF h
      <3>2. CASE n # x
        BY <3>2, <1>2
      <3> QED
        BY <3>1, <3>2
    <2>2. \A n \in 2..x : n \in 1..x
      BY <1>2
    <2>3. \A n \in 2..x : ms[n].name = ns[n].name
      BY <2>1, <2>2, Zenon
    <2> QED
      BY <2>1, <2>3, <1>2, Zenon DEF NamedIn, x
  <1>10. ASSUME NEW n \in NamedIn(ns) PROVE ms[n].name = ns[n].name
    <2>1. n \in 2..x /\ n \in 1..x
      BY <1>2 DEF NamedIn, x
    <2> QED
      BY <2>1, <1>9, Zenon
  <1>11. Rooted(ms)
    <2>1. Root \in 1..x
      BY <1>2 DEF Root
    <2>2. ASSUME NEW n \in 2..x
          PROVE  ms[n].parent \in 1..(n - 1) /\ (ms[n].name = 0 => ms[n].values = <<>>)
      <3>1. CASE n = x
        BY <3>1, <1>2, <1>5, <1>7, Zenon
      <3>2. CASE n # x
        <4>1. n \in 1..x /\ n \in 2..Len(ns)
          BY <1>2 DEF x
        <4> QED
          BY <3>2, <4>1, <1>1, <1>2, Zenon DEF Rooted
      <3> QED
        BY <3>1, <3>2
    <2> QED
      BY <2>1, <2>2, <1>1, <1>2, <1>9, Zenon DEF Rooted
  <1>12. NamesOnce(T, j + 1, ms)
    BY <1>1, <1>4, <1>9, <1>10, Zenon DEF NamesOnce
  <1>13. Valued(T, j + 1, ms)
    <2>1. /\ ValuesIn(T, j + 1, h) = ValuesIn(T, j, h) \cup {j + 1}
          /\ ValuesIn(T, j, h) \subseteq 1..j
      BY <1>3, <1>6, ValuesStep
    <2>2. ValuesOf(ns[x].values, ValuesIn(T, j, h))
      BY <1>1, <1>5, Zenon DEF Valued, h
    <2>3. ValuesOf(Append(ns[x].values, j + 1), ValuesIn(T, j, h) \cup {j + 1})
      BY <2>1, <2>2, <1>2, ValueAdded, Zenon
    <2>4. ValuesOf(ms[x].values, ValuesIn(T, j + 1, ms[x].name))
      BY <2>1, <2>3, <1>2, Zenon
    <2>5. ASSUME NEW n \in NamedIn(ns), n # x
          PROVE  ValuesOf(ms[n].values, ValuesIn(T, j + 1, ms[n].name))
      <3>1. ValuesOf(ns[n].values, ValuesIn(T, j, ns[n].name))
        BY <1>1, Zenon DEF Valued
      <3> QED
        BY <3>1, <2>5, <1>8, Zenon
    <2> QED
      BY <2>4, <2>5, <1>9, Zenon DEF Valued
  <1>14. Owned(T, j + 1, ms)
    <2>1. ASSUME NEW n \in NamedIn(ns)
          PROVE  ms[ms[n].parent].name = OwnerIn(T, j + 1, ms[n].name)
      <3>1. ns[ns[n].parent].name = OwnerIn(T, j, ns[n].name)
        BY <1>1, Zenon DEF Owned
      <3>2. CASE n = x
        <4>1. OwnerIn(T, j + 1, h) = OwnerIn(T, j, h)
          BY <1>6, OwnerKept
        <4>2. ms[ns[x].parent].name = ns[ns[x].parent].name
          BY <1>7, <1>9, Zenon
        <4> QED
          BY <3>1, <3>2, <4>1, <4>2, <1>2, Zenon DEF h
      <3>3. CASE n # x
        BY <3>1, <3>3, <1>8, Zenon
      <3> QED
        BY <3>2, <3>3, Zenon
    <2> QED
      BY <2>1, <1>9, Zenon DEF Owned
  <1>15. Ended(T, j + 1, ms)
    BY <1>2, <1>8, <1>9, <1>10, Zenon DEF Ended
  <1>16. Filling(T, j + 1, ms)
    <2>1. ms[Len(ms)].name = h /\ h # 0
      BY <1>2, <1>5
    <2>2. h..(j + 1) = (h..j) \cup {j + 1} /\ j + 1 # 0
      BY <1>6
    <2> QED
      BY <2>1, <2>2, <1>3, Zenon DEF Filling
  <1> QED
    BY <1>11, <1>12, <1>13, <1>14, <1>15, <1>16 DEF Written
-----------------------------------------------------------------------------
(* The stack and one more token *)

\* A token that opens no block keeps what is known of the open ones.
LEMMA OpenedKept ==
    ASSUME NEW T, NEW j \in Nat, T[j + 1] # Open, NEW ns, NEW ms, NEW s, NEW u,
           Opened(T, j, ns, s), Len(s) \in Nat, Len(u) \in Nat, Len(u) <= Len(s),
           Len(u) = DepthIn(T, j + 2) + 2,
           \A k \in 1..(Len(u) - 1) : ms[u[k]].name = ns[s[k]].name
    PROVE  Opened(T, j + 1, ms, u)
  <1>1. ASSUME NEW k \in 1..(Len(u) - 1)
        PROVE  ms[u[k]].name = HeadIn(T, j + 1, BraceIn(T, j + 2, k - 1))
    <2>1. k \in 1..(Len(s) - 1) /\ k - 1 \in Int
      OBVIOUS
    <2>2. ns[s[k]].name = HeadIn(T, j, BraceIn(T, j + 1, k - 1))
      BY <2>1, Zenon DEF Opened
    <2>3. PICK b \in 0..j : b = BraceIn(T, j + 1, k - 1) /\ b = BraceIn(T, j + 2, k - 1)
      <3>1. BraceIn(T, j + 1, k - 1) \in 0..j /\ BraceIn(T, j + 2, k - 1) = BraceIn(T, j + 1, k - 1)
        BY <2>1, BraceStep, Zenon
      <3> QED
        BY <3>1, Zenon
    <2>4. HeadIn(T, j + 1, b) = HeadIn(T, j, b)
      <3>1. b \in Int /\ b <= j + 1
        OBVIOUS
      <3> QED
        BY <3>1, HeadKept, Zenon
    <2> QED
      BY <2>2, <2>3, <2>4, Zenon
  <1>2. (j + 1) + 1 = j + 2
    OBVIOUS
  <1> QED
    BY <1>1, <1>2, Zenon DEF Opened

\* The newest Node, if it has a name, is the last directive.
LEMMA NewestHead ==
    ASSUME NEW T, NEW j \in Nat, NEW ns, Len(ns) \in NamedIn(ns), NamesOnce(T, j, ns),
           ~WordIn(T, j + 1)
    PROVE  HeadIn(T, j + 1, j + 1) = ns[Len(ns)].name
  <1> DEFINE h == ns[Len(ns)].name
             S == {m \in StartsIn(T, j + 1) : m < j + 1}
  <1>1. StartsIn(T, j + 1) = StartsIn(T, j) /\ StartsIn(T, j) \subseteq 1..j
    BY StartsStep, Zenon
  <1>2. h \in StartsIn(T, j)
    BY Zenon DEF NamesOnce
  <1>3. \A m \in StartsIn(T, j) : m \in 1..j
    BY <1>1, Zenon
  <1> HIDE DEF h
  <1>4. h \in S /\ S \subseteq Int
    BY <1>1, <1>2, <1>3
  <1>5. ASSUME NEW o \in S PROVE o <= h
    <2>1. o \in StartsIn(T, j)
      BY <1>1
    <2>2. PICK n \in NamedIn(ns) : ns[n].name = o
      BY <2>1, Zenon DEF NamesOnce
    <2>3. CASE n = Len(ns)
      BY <2>2, <2>3, <2>1, <1>3 DEF h
    <2>4. CASE n # Len(ns)
      <3>1. n < Len(ns)
        <4>1. n \in 2..Len(ns) /\ Len(ns) \in 2..Len(ns)
          BY Zenon DEF NamedIn
        <4> QED
          BY <4>1, <2>4
      <3>2. o < h
        BY <3>1, <2>2, Zenon DEF NamesOnce, h
      <3> QED
        BY <3>2, <2>1, <1>2, <1>3
    <2> QED
      BY <2>3, <2>4
  <1> HIDE DEF S
  <1>6. Largest(S) = h
    BY <1>4, <1>5, LargestFacts
  <1> QED
    BY <1>6, Zenon DEF HeadIn, S, h

\* "{" adds the block of the newest Node.
LEMMA OpenedMore ==
    ASSUME NEW T, NEW j \in Nat, T[j + 1] = Open, NEW ns, NEW ms, NEW s, NEW u,
           Opened(T, j, ns, s), NamesOnce(T, j, ns), Len(ns) \in NamedIn(ns),
           Len(s) \in Nat, Len(s) >= 2, Len(u) = Len(s) + 1, s[Len(s)] = Len(ns),
           \A k \in 1..Len(s) : ms[u[k]].name = ns[s[k]].name
    PROVE  Opened(T, j + 1, ms, u) /\ DepthIn(T, j + 2) >= 0
  <1>1. ~WordIn(T, j + 1)
    BY PunctFacts
  <1>2. /\ DepthIn(T, j + 1) \in Int /\ DepthIn(T, j + 2) = DepthIn(T, j + 1) + 1
        /\ Len(s) = DepthIn(T, j + 1) + 2
    BY DepthStep, Zenon DEF Opened
  <1>3. Len(u) = DepthIn(T, j + 2) + 2 /\ DepthIn(T, j + 2) >= 0
    BY <1>2
  <1>4. ASSUME NEW k \in 1..Len(s)
        PROVE  ms[u[k]].name = HeadIn(T, j + 1, BraceIn(T, j + 2, k - 1))
    <2>1. k - 1 \in Int
      OBVIOUS
    <2>2. CASE k = Len(s)
      <3>1. DepthIn(T, j + 1) < k - 1
        BY <2>2, <1>2
      <3>2. BraceIn(T, j + 2, k - 1) = j + 1
        BY <3>1, <2>1, BraceStep, Zenon
      <3>3. HeadIn(T, j + 1, j + 1) = ns[Len(ns)].name
        BY <1>1, NewestHead, Zenon
      <3> QED
        BY <3>2, <3>3, <2>2, Zenon
    <2>3. CASE k # Len(s)
      <3>1. k \in 1..(Len(s) - 1) /\ DepthIn(T, j + 1) >= k - 1
        BY <2>3, <1>2
      <3>2. ns[s[k]].name = HeadIn(T, j, BraceIn(T, j + 1, k - 1))
        BY <3>1, Zenon DEF Opened
      <3>3. PICK b \in 0..j : b = BraceIn(T, j + 1, k - 1) /\ b = BraceIn(T, j + 2, k - 1)
        <4>1. /\ BraceIn(T, j + 1, k - 1) \in 0..j
              /\ BraceIn(T, j + 2, k - 1) = BraceIn(T, j + 1, k - 1)
          BY <2>1, <3>1, BraceStep, Zenon
        <4> QED
          BY <4>1, Zenon
      <3>4. HeadIn(T, j + 1, b) = HeadIn(T, j, b)
        <4>1. b \in Int /\ b <= j + 1
          OBVIOUS
        <4> QED
          BY <4>1, HeadKept, Zenon
      <3> QED
        BY <3>2, <3>3, <3>4, Zenon
    <2> QED
      BY <2>2, <2>3
  <1>5. (j + 1) + 1 = j + 2 /\ 1..(Len(u) - 1) = 1..Len(s)
    <2>1. Len(u) - 1 = Len(s)
      OBVIOUS
    <2> QED
      BY <2>1
  <1> QED
    BY <1>3, <1>4, <1>5, Zenon DEF Opened

\* A token that breaks nothing.
LEMMA UnbrokenStep ==
    ASSUME NEW T, NEW j \in Nat, Unbroken(T, j), ~BreaksIn(T, j + 1), DepthIn(T, j + 2) >= 0
    PROVE  Unbroken(T, j + 1)
  <1>1. /\ 1..(j + 1) = (1..j) \cup {j + 1}
        /\ 1..((j + 1) + 1) = (1..(j + 1)) \cup {j + 2}
    OBVIOUS
  <1> QED
    BY <1>1, Zenon DEF Unbroken
-----------------------------------------------------------------------------
(* One step of analyse_words *)

\* The newest Node is erased when it has no name.
Erases(ns, g) == IF ns[Len(ns)].name = 0 THEN g = {Len(ns)} ELSE g = {}

\* The tree behind a brace or a semicolon that adds a Node.
PunctPushed(T, j, ns, gone, g, ms) ==
    /\ Written(T, j + 1, ms) /\ NamelessNewest(ms, gone \cup g) /\ Filling(T, j + 1, ms)
    /\ Len(ms) = Len(ns) + 1 /\ \A n \in 1..Len(ns) : ms[n] = ns[n]

LEMMA PunctPushes ==
    ASSUME NEW T, NEW j \in Nat, NEW ns \in NodeSeq, Len(ns) >= 2,
           NEW gone \in SUBSET (1..Len(ns)),
           Written(T, j, ns), NamelessNewest(ns, gone), ~WordIn(T, j + 1),
           NEW p \in 1..Len(ns), NEW ms, ms = Append(ns, Node(p)),
           NEW g, Erases(ns, g)
    PROVE  PunctPushed(T, j, ns, gone, g, ms)
  <1>0. Len(ns) >= 1 /\ Len(ns) \in Nat
    BY LenProperties DEF NodeSeq
  <1>1. PushedNode(ns, p, ms)
    BY <1>0, NodePushed
  <1>2. /\ Len(ms) = Len(ns) + 1 /\ ms[Len(ns) + 1].name = 0
        /\ \A n \in 1..Len(ns) : ms[n] = ns[n]
    BY <1>1, Zenon DEF PushedNode
  <1>3. Written(T, j + 1, ns) /\ AllEnded(T, j + 1, ns)
    BY PunctTaken
  <1>4. Written(T, j + 1, ms)
    <2>1. j + 1 \in Nat
      OBVIOUS
    <2> QED
      BY <2>1, <1>0, <1>3, WrittenPushed
  <1>5. NamelessNewest(ms, gone \cup g)
    <2>1. ASSUME NEW n \in gone \cup g PROVE ms[n].name = 0
      <3>1. CASE n \in gone
        BY <3>1, <1>2, Zenon DEF NamelessNewest
      <3>2. CASE n \in g
        <4>1. n = Len(ns) /\ ns[Len(ns)].name = 0
          BY <3>2, Zenon DEF Erases
        <4>2. n \in 1..Len(ns)
          BY <4>1, <1>0
        <4> QED
          BY <4>1, <4>2, <1>2, Zenon
      <3> QED
        BY <3>1, <3>2, Zenon
    <2>2. ASSUME NEW n \in 2..Len(ms), ms[n].name = 0, n # Len(ms) PROVE n \in gone \cup g
      <3>1. n \in 2..Len(ns) /\ n \in 1..Len(ns)
        BY <2>2, <1>0, <1>2
      <3>2. ns[n].name = 0
        BY <3>1, <2>2, <1>2, Zenon
      <3> QED
        BY <3>1, <3>2, Zenon DEF NamelessNewest, Erases
    <2> QED
      BY <2>1, <2>2, Zenon DEF NamelessNewest
  <1>6. Filling(T, j + 1, ms)
    BY <1>2, Zenon DEF Filling
  <1> QED
    BY <1>2, <1>4, <1>5, <1>6, Zenon DEF PunctPushed

\* "{" behind a name.
LEMMA GoingOpen ==
    ASSUME NEW T, NEW j \in Nat, NEW ns \in NodeSeq, NEW gone \in SUBSET (1..Len(ns)),
           NEW s \in Seq(1..Len(ns)), Len(s) >= 2, Going(T, j, ns, gone, s),
           T[j + 1] = Open, ns[Len(ns)].name # 0,
           NEW ms, ms = Append(ns, Node(Len(ns))), NEW u, u = Append(s, Len(ns) + 1)
    PROVE  Going(T, j + 1, ms, gone, u)
  <1>1. /\ Written(T, j, ns) /\ NamelessNewest(ns, gone)
        /\ Len(ns) >= 2 /\ s[Len(s)] = Len(ns)
        /\ Filling(T, j, ns) /\ Unbroken(T, j) /\ Opened(T, j, ns, s)
    BY DEF Going
  <1>2. Len(ns) \in Nat /\ Len(s) \in Nat /\ Len(ns) \in 1..Len(ns) /\ Len(ns) \in 2..Len(ns)
    <2>1. Len(ns) \in Nat /\ Len(s) \in Nat
      BY LenProperties DEF NodeSeq
    <2> QED
      BY <2>1, <1>1
  <1>3. ~WordIn(T, j + 1)
    BY PunctFacts
  <1>4. PunctPushed(T, j, ns, gone, {}, ms)
    <2>1. Erases(ns, {})
      BY DEF Erases
    <2> QED
      BY <2>1, <1>1, <1>2, <1>3, PunctPushes
  <1>5. /\ Written(T, j + 1, ms) /\ NamelessNewest(ms, gone) /\ Filling(T, j + 1, ms)
        /\ Len(ms) = Len(ns) + 1 /\ \A n \in 1..Len(ns) : ms[n] = ns[n]
    <2>1. gone \cup {} = gone
      OBVIOUS
    <2> QED
      BY <1>4, <2>1, Zenon DEF PunctPushed
  <1>6. /\ Len(u) = Len(s) + 1 /\ u[Len(s) + 1] = Len(ns) + 1
        /\ \A k \in 1..Len(s) : u[k] = s[k] /\ s[k] \in 1..Len(ns)
    <2>1. s \in Seq(Nat) /\ Len(ns) + 1 \in Nat
      BY <1>2, SeqMonotonic
    <2>2. /\ Len(u) = Len(s) + 1 /\ u[Len(s) + 1] = Len(ns) + 1
          /\ \A k \in 1..Len(s) : u[k] = s[k]
      BY <2>1, AppendProperties
    <2>3. \A k \in 1..Len(s) : s[k] \in 1..Len(ns)
      BY ElementOfSeq
    <2> QED
      BY <2>2, <2>3
  <1>7. Opened(T, j + 1, ms, u) /\ DepthIn(T, j + 2) >= 0
    <2>1. NamesOnce(T, j, ns) /\ Len(ns) \in NamedIn(ns)
      BY <1>1, <1>2, Zenon DEF Written, NamedIn
    <2>2. \A k \in 1..Len(s) : ms[u[k]].name = ns[s[k]].name
      BY <1>5, <1>6, Zenon
    <2> QED
      BY <2>1, <2>2, <1>1, <1>2, <1>6, OpenedMore, ZenonT(30)
  <1>8. ~BreaksIn(T, j + 1)
    <2>1. j # 0 /\ WordIn(T, j)
      BY <1>1, Zenon DEF Filling
    <2>2. j + 1 # 1 /\ (j + 1) - 1 = j
      BY <2>1
    <2>3. Open # Close
      BY PunctFacts
    <2> QED
      BY <2>1, <2>2, <2>3, Zenon DEF BreaksIn
  <1>9. Unbroken(T, j + 1)
    BY <1>1, <1>7, <1>8, UnbrokenStep
  <1>10. Len(ms) >= 2 /\ u[Len(u)] = Len(ms)
    BY <1>1, <1>2, <1>5, <1>6
  <1> QED
    BY <1>5, <1>7, <1>9, <1>10, Zenon DEF Going
\* ";" behind a name, and "}" where a block is open: a new Node behind the
\* part q of the stack that is left.
LEMMA GoingBack ==
    ASSUME NEW T, NEW j \in Nat, NEW ns \in NodeSeq, NEW gone \in SUBSET (1..Len(ns)),
           NEW s \in Seq(1..Len(ns)), Going(T, j, ns, gone, s),
           T[j + 1] # Open, ~WordIn(T, j + 1), ~BreaksIn(T, j + 1),
           NEW q \in Seq(1..Len(ns)), Len(q) >= 1, Len(q) < Len(s),
           \A k \in 1..Len(q) : q[k] = s[k], Len(q) = DepthIn(T, j + 2) + 1,
           NEW ms, ms = Append(ns, Node(Top(q))), NEW u, u = Append(q, Len(ns) + 1),
           NEW g, Erases(ns, g)
    PROVE  Going(T, j + 1, ms, gone \cup g, u)
  <1>1. /\ Written(T, j, ns) /\ NamelessNewest(ns, gone)
        /\ Len(ns) >= 2 /\ Unbroken(T, j) /\ Opened(T, j, ns, s)
    BY DEF Going
  <1>2. Len(ns) \in Nat /\ Len(s) \in Nat /\ Len(q) \in Nat /\ DepthIn(T, j + 2) \in Int
    <2>1. Len(ns) \in Nat /\ Len(s) \in Nat /\ Len(q) \in Nat
      BY LenProperties DEF NodeSeq
    <2>2. DepthIn(T, (j + 1) + 1) \in Int /\ (j + 1) + 1 = j + 2
      <3>1. j + 1 \in Nat /\ (j + 1) + 1 = j + 2
        OBVIOUS
      <3> QED
        BY <3>1, DepthStep
    <2> QED
      BY <2>1, <2>2
  <1>3. Top(q) \in 1..Len(ns)
    <2>1. Len(q) \in 1..Len(q)
      BY <1>2
    <2> QED
      BY <2>1, ElementOfSeq DEF Top
  <1>4. PunctPushed(T, j, ns, gone, g, ms)
    BY <1>1, <1>3, PunctPushes
  <1>5. /\ Written(T, j + 1, ms) /\ NamelessNewest(ms, gone \cup g) /\ Filling(T, j + 1, ms)
        /\ Len(ms) = Len(ns) + 1 /\ \A n \in 1..Len(ns) : ms[n] = ns[n]
    BY <1>4, Zenon DEF PunctPushed
  <1>6. /\ Len(u) = Len(q) + 1 /\ u[Len(q) + 1] = Len(ns) + 1
        /\ \A k \in 1..Len(q) : u[k] = q[k] /\ q[k] \in 1..Len(ns)
    <2>1. q \in Seq(Nat) /\ Len(ns) + 1 \in Nat
      BY <1>2, SeqMonotonic
    <2>2. /\ Len(u) = Len(q) + 1 /\ u[Len(q) + 1] = Len(ns) + 1
          /\ \A k \in 1..Len(q) : u[k] = q[k]
      BY <2>1, AppendProperties
    <2>3. \A k \in 1..Len(q) : q[k] \in 1..Len(ns)
      BY ElementOfSeq
    <2> QED
      BY <2>2, <2>3
  <1>7. Opened(T, j + 1, ms, u)
    <2>1. \A k \in 1..Len(q) : ms[u[k]].name = ns[s[k]].name
      BY <1>5, <1>6, ZenonT(40)
    <2>2. /\ Len(u) - 1 = Len(q) /\ Len(u) \in Nat /\ Len(u) <= Len(s)
          /\ Len(u) = DepthIn(T, j + 2) + 2
      BY <1>2, <1>6, SMTT(30)
    <2>3. \A k \in 1..(Len(u) - 1) : ms[u[k]].name = ns[s[k]].name
      BY <2>1, <2>2, Zenon
    <2> QED
      BY <2>2, <2>3, <1>1, <1>2, OpenedKept, Zenon
  <1>8. DepthIn(T, j + 2) >= 0
    BY <1>2
  <1>9. Unbroken(T, j + 1)
    BY <1>1, <1>8, UnbrokenStep
  <1>10. Len(ms) >= 2 /\ u[Len(u)] = Len(ms)
    <2>1. u[Len(u)] = Len(ms)
      BY <1>5, <1>6, Zenon
    <2>2. \A a, b \in Nat : a >= 2 /\ b = a + 1 => b >= 2
      OBVIOUS
    <2>3. Len(ms) \in Nat
      BY <1>2, <1>5
    <2> QED
      BY <2>1, <2>2, <2>3, <1>1, <1>2, <1>5, Zenon
  <1> QED
    BY <1>5, <1>7, <1>9, <1>10, Zenon DEF Going

\* ";" without a name before it.
LEMMA GoingSkip ==
    ASSUME NEW T, NEW j \in Nat, NEW ns \in NodeSeq, NEW gone,
           NEW s \in Seq(1..Len(ns)), Going(T, j, ns, gone, s),
           T[j + 1] = Semi, ns[Len(ns)].name = 0
    PROVE  Going(T, j + 1, ns, gone, s)
  <1>1. /\ Written(T, j, ns) /\ NamelessNewest(ns, gone)
        /\ Len(ns) >= 2 /\ s[Len(s)] = Len(ns)
        /\ Unbroken(T, j) /\ Opened(T, j, ns, s)
    BY DEF Going
  <1>2. ~WordIn(T, j + 1) /\ T[j + 1] # Open /\ T[j + 1] # Close
    BY PunctFacts, Zenon
  <1>3. Written(T, j + 1, ns)
    BY <1>1, <1>2, PunctTaken
  <1>4. Filling(T, j + 1, ns)
    BY <1>2, Zenon DEF Filling
  <1>5. DepthIn(T, j + 2) = DepthIn(T, j + 1)
    BY <1>2, DepthStep, Zenon
  <1>6. Opened(T, j + 1, ns, s)
    <2>1. Len(s) \in Nat /\ Len(s) <= Len(s)
      BY LenProperties
    <2>2. Len(s) = DepthIn(T, j + 2) + 2
      BY <1>1, <1>5, Zenon DEF Opened
    <2>3. \A k \in 1..(Len(s) - 1) : ns[s[k]].name = ns[s[k]].name
      OBVIOUS
    <2> QED
      BY <2>1, <2>2, <2>3, <1>1, <1>2, OpenedKept, Zenon
  <1>7. Unbroken(T, j + 1)
    <2>1. ~BreaksIn(T, j + 1)
      BY <1>2, Zenon DEF BreaksIn
    <2>2. j + 1 \in 1..(j + 1)
      OBVIOUS
    <2>3. DepthIn(T, j + 2) >= 0
      BY <2>2, <1>1, <1>5, Zenon DEF Unbroken
    <2> QED
      BY <2>1, <2>3, <1>1, UnbrokenStep
  <1> QED
    BY <1>1, <1>3, <1>4, <1>6, <1>7, Zenon DEF Going

\* A word.
LEMMA GoingWord ==
    ASSUME NEW T, NEW j \in Nat, NEW ns \in NodeSeq, NEW gone \in SUBSET (1..Len(ns)),
           NEW s \in Seq(1..Len(ns)), Len(s) >= 2, Going(T, j, ns, gone, s),
           WordIn(T, j + 1), Len(ns) \notin gone, ns[Len(ns)].parent = s[Len(s) - 1],
           \A k \in 1..(Len(s) - 1) : s[k] < s[Len(s)],
           NEW ms, ms = [ns EXCEPT ![Len(ns)] = WithWord(ns[Len(ns)], j + 1)]
    PROVE  Going(T, j + 1, ms, gone, s)
  <1>1. /\ Written(T, j, ns) /\ NamelessNewest(ns, gone)
        /\ Len(ns) >= 2 /\ s[Len(s)] = Len(ns)
        /\ Filling(T, j, ns) /\ Unbroken(T, j) /\ Opened(T, j, ns, s)
    BY DEF Going
  <1>2. Len(ns) \in Nat /\ Len(s) \in Nat /\ Len(ns) >= 1
    BY <1>1, LenProperties DEF NodeSeq
  <1>3. FilledNode(ns, j, ms)
    BY <1>2, NodeFilled
  <1>4. /\ Len(ms) = Len(ns)
        /\ \A n \in 1..Len(ns) : n # Len(ns) => ms[n] = ns[n]
        /\ ms[Len(ns)].name # 0
    <2>1. /\ Len(ms) = Len(ns)
          /\ \A n \in 1..Len(ns) : n # Len(ns) => ms[n] = ns[n]
      BY <1>3, Zenon DEF FilledNode
    <2>2. j + 1 # 0
      OBVIOUS
    <2>3. ms[Len(ns)].name # 0
      BY <1>3, <2>2, Zenon DEF FilledNode
    <2> QED
      BY <2>1, <2>3, Zenon
  <1>5. Written(T, j + 1, ms) /\ Filling(T, j + 1, ms)
    <2>1. CASE ns[Len(ns)].name = 0
      <3>1. Len(s) - 1 \in 1..(Len(s) - 1) /\ (Len(s) - 1) - 1 = DepthIn(T, j + 1)
        <4>1. Len(s) = DepthIn(T, j + 1) + 2 /\ DepthIn(T, j + 1) \in Int
          BY <1>1, DepthStep, Zenon DEF Opened
        <4> QED
          BY <4>1, <1>2
      <3>2. ns[s[Len(s) - 1]].name = HeadIn(T, j, BraceIn(T, j + 1, (Len(s) - 1) - 1))
        BY <3>1, <1>1, Zenon DEF Opened
      <3>3. ns[ns[Len(ns)].parent].name = OwnerIn(T, j, j + 1)
        BY <3>1, <3>2, Zenon DEF OwnerIn
      <3> QED
        BY <2>1, <3>3, <1>1, <1>3, WordNames, Zenon
    <2>2. CASE ns[Len(ns)].name # 0
      BY <2>2, <1>1, <1>3, WordAdds, Zenon
    <2> QED
      BY <2>1, <2>2
  <1>6. NamelessNewest(ms, gone)
    <2>1. ASSUME NEW n \in 1..Len(ns), n # Len(ns) PROVE ms[n].name = ns[n].name
      BY <2>1, <1>4, Zenon
    <2>2. \A n \in gone : n \in 1..Len(ns) /\ n # Len(ns)
      BY Zenon
    <2>3. \A n \in 2..Len(ns) : n \in 1..Len(ns)
      BY <1>2
    <2> QED
      BY <2>1, <2>2, <2>3, <1>1, <1>4, Zenon DEF NamelessNewest
  <1>7. T[j + 1] # Open /\ T[j + 1] # Close
    BY PunctFacts, Zenon
  <1>8. DepthIn(T, j + 2) = DepthIn(T, j + 1)
    BY <1>7, DepthStep, Zenon
  <1>9. Opened(T, j + 1, ms, s)
    <2>1. Len(s) <= Len(s)
      BY <1>2
    <2>2. Len(s) = DepthIn(T, j + 2) + 2
      BY <1>1, <1>8, Zenon DEF Opened
    <2>3. ASSUME NEW k \in 1..(Len(s) - 1) PROVE ms[s[k]].name = ns[s[k]].name
      <3>1. k \in 1..Len(s) /\ s[k] < Len(ns)
        BY <1>1, <1>2
      <3>2. s[k] \in 1..Len(ns)
        BY <3>1, ElementOfSeq
      <3>3. s[k] # Len(ns)
        BY <3>1, <3>2
      <3> QED
        BY <3>2, <3>3, <1>4, Zenon
    <2> QED
      BY <2>1, <2>2, <2>3, <1>1, <1>2, <1>7, OpenedKept, Zenon
  <1>10. Unbroken(T, j + 1)
    <2>1. ~BreaksIn(T, j + 1)
      BY <1>7, Zenon DEF BreaksIn
    <2>2. j + 1 \in 1..(j + 1)
      OBVIOUS
    <2>3. DepthIn(T, j + 2) >= 0
      BY <2>2, <1>1, <1>8, Zenon DEF Unbroken
    <2> QED
      BY <2>1, <2>3, <1>1, UnbrokenStep
  <1> QED
    BY <1>1, <1>4, <1>5, <1>6, <1>9, <1>10, Zenon DEF Going
-----------------------------------------------------------------------------
(* The actions *)

\* What is known where analyse_words takes a token.
Running ==
    /\ phase = "words" /\ i \in Nat /\ nodes \in NodeSeq /\ Forest
    /\ erased \in SUBSET (1..Len(nodes)) /\ stack \in Seq(1..Len(nodes))
    /\ Len(stack) \in Nat /\ Len(stack) >= 2 /\ stack[1] = Root
    /\ Going(lex.tokens, i, nodes, erased, stack)
    /\ Top(stack) = Len(nodes) /\ Current = nodes[Len(nodes)]
    /\ Len(nodes) \in Nat /\ Len(nodes) >= 2 /\ Len(nodes) \notin erased
    /\ nodes[Len(nodes)].parent = stack[Len(stack) - 1]

LEMMA RunningFacts ==
    ASSUME TreeInv, StackInv, phase = "words"
    PROVE  Running /\ \A k \in 1..(Len(stack) - 1) : stack[k] < stack[Len(stack)]
  <1>1. /\ Forest /\ Len(stack) >= 2 /\ Chain(stack, nodes, moved \cup erased)
    BY DEF StackInv
  <1>2. Going(lex.tokens, i, nodes, erased, stack)
    BY DEF TreeInv
  <1>3. i \in Nat /\ nodes \in NodeSeq /\ erased \in SUBSET (1..Len(nodes))
    BY <1>1 DEF Forest
  <1>4. stack \in Seq(1..Len(nodes)) /\ Len(stack) \in Nat /\ stack[1] = Root
    BY <1>1, LenProperties DEF Chain
  <1>5. stack[Len(stack)] = Len(nodes) /\ Len(nodes) >= 2 /\ Len(nodes) \in Nat
    BY <1>2, <1>3, LenProperties DEF Going, NodeSeq
  <1>6. Len(stack) \in 2..Len(stack) /\ Len(stack) \in 1..Len(stack)
    BY <1>1, <1>4
  <1>7. Len(nodes) \notin erased /\ nodes[Len(nodes)].parent = stack[Len(stack) - 1]
    BY <1>1, <1>5, <1>6 DEF Chain
  <1>8. ASSUME NEW k \in 1..(Len(stack) - 1) PROVE stack[k] < stack[Len(stack)]
    <2>1. k \in 1..Len(stack) /\ k < Len(stack)
      BY <1>4
    <2> QED
      BY <2>1, <1>1, <1>6 DEF Chain
  <1>9. Top(stack) = Len(nodes) /\ Current = nodes[Len(nodes)]
    BY <1>5 DEF Top, Current
  <1> QED
    BY <1>1, <1>2, <1>3, <1>4, <1>5, <1>7, <1>8, <1>9 DEF Running

\* A step after which analyse_words goes on.
LEMMA GoesOn ==
    ASSUME StackInv', phase' = "words", Going(lex'.tokens, i', nodes', erased', stack')
    PROVE  TreeInv'
  <1>1. Forest'
    BY DEF StackInv
  <1>2. /\ Written(lex'.tokens, i', nodes') /\ NamelessNewest(nodes', erased')
        /\ stack'[Len(stack')] = Len(nodes')
    BY DEF Going
  <1>3. Top(stack') = Len(nodes')
    BY <1>2 DEF Top
  <1>4. Judged(phase', lex'.tokens, i', nodes', erased')
    BY DEF Judged
  <1>5. phase' \notin {"idle", "lex"}
    OBVIOUS
  <1> QED
    BY <1>1, <1>2, <1>3, <1>4, <1>5 DEF TreeInv

\* The end of the children of p is the newest Node, if that is one of them.
LEMMA NewestLast ==
    ASSUME Running
    PROVE  LastChild(stack[Len(stack) - 1]) = {Len(nodes)}
  <1> DEFINE p == stack[Len(stack) - 1]
  <1>1. Len(nodes) \in Nat /\ Len(nodes) \in 1..Len(nodes)
    BY DEF Running
  <1>2. Len(nodes) \in Children(p)
    BY <1>1 DEF Running, Children
  <1>3. \A n \in Children(p) : n \in 1..Len(nodes)
    BY DEF Children
  <1> HIDE DEF p
  <1>4. \A n \in LastChild(p) : n = Len(nodes)
    BY <1>1, <1>2, <1>3 DEF LastChild
  <1>5. Len(nodes) \in LastChild(p)
    BY <1>1, <1>2, <1>3 DEF LastChild
  <1> QED
    BY <1>4, <1>5, Zenon DEF p

\* What "}" erases is the newest Node, if that has no name.
LEMMA NamelessIs ==
    ASSUME Running, StackInv
    PROVE  Erases(nodes, Nameless)
  <1>1. Top(Pop(stack)) = stack[Len(stack) - 1] /\ Current = nodes[Len(nodes)]
    <2>1. phase = "words" /\ Current = nodes[Len(nodes)]
      BY DEF Running
    <2> QED
      BY <2>1, BelowTop
  <1>2. LastChild(Top(Pop(stack))) = {Len(nodes)}
    BY <1>1, NewestLast, Zenon
  <1> QED
    BY <1>1, <1>2, Zenon DEF Nameless, Erases

\* A token that breaks the rules stops analyse_words.
LEMMA Breaking ==
    ASSUME Running, BreaksIn(lex.tokens, i + 1), ~WordIn(lex.tokens, i + 1),
           phase' = "WrongGrammar", i' = i + 1,
           UNCHANGED <<lex, nodes, moved, stack>>,
           NEW g, erased' = erased \cup g, g = {} \/ Erases(nodes, g)
    PROVE  TreeInv'
  <1>1. /\ Written(lex.tokens, i, nodes) /\ NamelessNewest(nodes, erased)
        /\ Unbroken(lex.tokens, i) /\ i \in Nat /\ Forest
        /\ Len(nodes) \in Nat /\ Len(nodes) >= 2 /\ Top(stack) = Len(nodes)
    BY DEF Running, Going
  <1>2. Written(lex.tokens, i + 1, nodes)
    BY <1>1, PunctTaken
  <1>3. \A n \in g : n = Len(nodes) /\ nodes[n].name = 0
    BY Zenon DEF Erases
  <1>4. NamelessNewest(nodes, erased \cup g)
    BY <1>1, <1>3, Zenon DEF NamelessNewest
  <1>5. Forest'
    <2>1. Len(nodes) \in 1..Len(nodes)
      BY <1>1
    <2>2. g \subseteq 1..Len(nodes)
      BY <2>1, <1>3, Zenon
    <2>3. i' \in Nat
      BY <1>1
    <2> QED
      BY <2>2, <2>3, <1>1 DEF Forest
  <1>6. Judged(phase', lex'.tokens, i', nodes', erased')
    <2>1. i + 1 >= 1 /\ (i + 1) - 1 = i
      BY <1>1
    <2>2. \A n \in 1..i : ~BreaksIn(lex.tokens, n)
      BY <1>1, Zenon DEF Unbroken
    <2>3. phase' # "OK"
      OBVIOUS
    <2>4. \A n \in 1..((i + 1) - 1) : ~BreaksIn(lex.tokens, n)
      BY <2>1, <2>2, Zenon
    <2>5. Judged(phase', lex.tokens, i + 1, nodes, erased')
      BY <2>1, <2>3, <2>4, Zenon DEF Judged
    <2> QED
      BY <2>5
  <1>7. phase' \notin {"idle", "lex"} /\ phase' # "words"
    OBVIOUS
  <1>8. Top(stack)' = Len(nodes)'
    BY <1>1 DEF Top
  <1> QED
    BY <1>2, <1>4, <1>5, <1>6, <1>7, <1>8 DEF TreeInv
\* "{".
LEMMA TreeOpenBlock ==
    ASSUME TreeInv, StackInv, StackInv', OpenBlock
    PROVE  TreeInv'
  <1>1. /\ phase = "words" /\ i' = i + 1 /\ lex' = lex
        /\ lex.tokens[i + 1] = Open
    BY DEF OpenBlock, Takes, Taken, Token, Open
  <1>2. Running
    BY <1>1, RunningFacts
  <1>3. ~WordIn(lex.tokens, i + 1)
    BY <1>1, PunctFacts
  <1>4. /\ i \in Nat /\ nodes \in NodeSeq /\ erased \in SUBSET (1..Len(nodes))
        /\ stack \in Seq(1..Len(nodes)) /\ Len(stack) >= 2
        /\ Going(lex.tokens, i, nodes, erased, stack)
        /\ Top(stack) = Len(nodes) /\ Current = nodes[Len(nodes)]
    BY <1>2 DEF Running
  <1>5. CASE nodes[Len(nodes)].name = 0
    <2>1. phase' = "WrongGrammar" /\ UNCHANGED <<nodes, moved, stack, erased>>
      BY <1>4, <1>5 DEF OpenBlock, Fails
    <2>2. BreaksIn(lex.tokens, i + 1)
      <3>1. i = 0 \/ ~WordIn(lex.tokens, i)
        BY <1>4, <1>5, Zenon DEF Going, Filling
      <3>2. (i = 0 => i + 1 = 1) /\ (i + 1) - 1 = i
        BY <1>4
      <3> QED
        BY <3>1, <3>2, <1>1, Zenon DEF BreaksIn
    <2>3. erased' = erased \cup {}
      BY <2>1
    <2> QED
      BY <2>1, <2>2, <2>3, <1>1, <1>2, <1>3, Breaking
  <1>6. CASE nodes[Len(nodes)].name # 0
    <2>1. PushChild(Len(nodes), stack, {}) /\ phase' = phase
      BY <1>4, <1>6, Zenon DEF OpenBlock
    <2>2. /\ nodes' = Append(nodes, Node(Len(nodes))) /\ stack' = Append(stack, Len(nodes) + 1)
          /\ erased' = erased
      BY <2>1 DEF PushChild
    <2>3. Going(lex.tokens, i + 1, nodes', erased, stack')
      BY <2>2, <1>1, <1>4, <1>6, GoingOpen
    <2>4. Going(lex'.tokens, i', nodes', erased', stack') /\ phase' = "words"
      BY <2>1, <2>2, <2>3, <1>1
    <2> QED
      BY <2>4, GoesOn
  <1> QED
    BY <1>5, <1>6

\* The part of the stack below the Node on its top.
LEMMA BelowStack ==
    ASSUME NEW N, NEW s \in Seq(N), Len(s) >= 1
    PROVE  /\ Pop(s) \in Seq(N) /\ Len(Pop(s)) = Len(s) - 1 /\ Len(s) \in Nat
           /\ \A k \in 1..Len(Pop(s)) : Pop(s)[k] = s[k]
  BY PopFacts, LenProperties

\* ";" behind a named Node.
LEMMA TreeEndNode ==
    ASSUME TreeInv, StackInv, StackInv', EndNode
    PROVE  TreeInv'
  <1>1. /\ phase = "words" /\ i' = i + 1 /\ lex' = lex /\ phase' = phase
        /\ lex.tokens[i + 1] = Semi /\ Current.name # 0
        /\ PushChild(Top(Pop(stack)), Pop(stack), {})
    BY DEF EndNode, Takes, Taken, Token, Semi
  <1>2. Running
    BY <1>1, RunningFacts
  <1>3. /\ i \in Nat /\ nodes \in NodeSeq /\ erased \in SUBSET (1..Len(nodes))
        /\ stack \in Seq(1..Len(nodes)) /\ Len(stack) >= 2 /\ Len(stack) \in Nat
        /\ Going(lex.tokens, i, nodes, erased, stack)
        /\ Current = nodes[Len(nodes)]
    BY <1>2 DEF Running
  <1>4. /\ ~WordIn(lex.tokens, i + 1) /\ lex.tokens[i + 1] # Open /\ lex.tokens[i + 1] # Close
    BY <1>1, PunctFacts, Zenon
  <1>5. ~BreaksIn(lex.tokens, i + 1)
    BY <1>4, Zenon DEF BreaksIn
  <1> DEFINE q == Pop(stack)
  <1>6. /\ q \in Seq(1..Len(nodes)) /\ Len(q) = Len(stack) - 1
        /\ \A k \in 1..Len(q) : q[k] = stack[k]
    <2>1. Len(stack) >= 1
      BY <1>3
    <2> QED
      BY <2>1, <1>3, BelowStack
  <1>7. /\ nodes' = Append(nodes, Node(Top(q))) /\ stack' = Append(q, Len(nodes) + 1)
        /\ erased' = erased \cup {}
    BY <1>1 DEF PushChild
  <1> HIDE DEF q
  <1>8. Len(q) >= 1 /\ Len(q) < Len(stack) /\ Len(q) = DepthIn(lex.tokens, i + 2) + 1
    <2>1. /\ DepthIn(lex.tokens, i + 1) \in Int
          /\ DepthIn(lex.tokens, i + 2) = DepthIn(lex.tokens, i + 1)
      BY <1>3, <1>4, DepthStep, Zenon
    <2>2. Len(stack) = DepthIn(lex.tokens, i + 1) + 2
      BY <1>3, Zenon DEF Going, Opened
    <2> QED
      BY <2>1, <2>2, <1>3, <1>6
  <1>9. Erases(nodes, {})
    BY <1>1, <1>3, Zenon DEF Erases
  <1>10. Going(lex.tokens, i + 1, nodes', erased \cup {}, stack')
    BY <1>3, <1>4, <1>5, <1>6, <1>7, <1>8, <1>9, GoingBack
  <1>11. Going(lex'.tokens, i', nodes', erased', stack') /\ phase' = "words"
    BY <1>1, <1>7, <1>10
  <1> QED
    BY <1>11, GoesOn

\* "}".
LEMMA TreeCloseBlock ==
    ASSUME TreeInv, StackInv, StackInv', CloseBlock
    PROVE  TreeInv'
  <1>1. /\ phase = "words" /\ i' = i + 1 /\ lex' = lex
        /\ lex.tokens[i + 1] = Close
    BY DEF CloseBlock, Takes, Taken, Token, Close
  <1>2. Running
    BY <1>1, RunningFacts
  <1>3. /\ i \in Nat /\ nodes \in NodeSeq /\ erased \in SUBSET (1..Len(nodes))
        /\ stack \in Seq(1..Len(nodes)) /\ Len(stack) >= 2 /\ Len(stack) \in Nat
        /\ Going(lex.tokens, i, nodes, erased, stack)
        /\ Current = nodes[Len(nodes)]
    BY <1>2 DEF Running
  <1>4. ~WordIn(lex.tokens, i + 1) /\ lex.tokens[i + 1] # Open
    BY <1>1, PunctFacts, Zenon
  <1>5. Erases(nodes, Nameless)
    BY <1>2, NamelessIs
  <1>6. /\ DepthIn(lex.tokens, i + 1) \in Int
        /\ DepthIn(lex.tokens, i + 2) = DepthIn(lex.tokens, i + 1) - 1
        /\ Len(stack) = DepthIn(lex.tokens, i + 1) + 2
    BY <1>1, <1>3, DepthStep, Zenon DEF Going, Opened
  <1>7. CASE Len(stack) = 2
    <2>1. /\ phase' = "WrongGrammar" /\ UNCHANGED <<nodes, moved, stack>>
          /\ erased' = erased \cup Nameless
      BY <1>7 DEF CloseBlock, Fails
    <2>2. DepthIn(lex.tokens, i + 1) <= 0
      BY <1>6, <1>7
    <2>3. BreaksIn(lex.tokens, i + 1)
      BY <2>2, <1>1, Zenon DEF BreaksIn
    <2> QED
      BY <2>1, <2>3, <1>1, <1>2, <1>4, <1>5, Breaking
  <1>8. CASE Len(stack) # 2
    <2> DEFINE q == Pop(Pop(stack))
    <2>1. PushChild(Top(q), q, Nameless) /\ phase' = phase
      BY <1>8, Zenon DEF CloseBlock
    <2>2. /\ nodes' = Append(nodes, Node(Top(q))) /\ stack' = Append(q, Len(nodes) + 1)
          /\ erased' = erased \cup Nameless
      BY <2>1 DEF PushChild
    <2>3. Len(stack) >= 3
      <3>1. \A n \in Nat : n >= 2 /\ n # 2 => n >= 3
        OBVIOUS
      <3> QED
        BY <3>1, <1>3, <1>8, Zenon
    <2>4. /\ Pop(stack) \in Seq(1..Len(nodes)) /\ Len(Pop(stack)) = Len(stack) - 1
          /\ \A k \in 1..Len(Pop(stack)) : Pop(stack)[k] = stack[k]
      <3>1. Len(stack) >= 1
        BY <1>3
      <3> QED
        BY <3>1, <1>3, BelowStack
    <2>5. /\ q \in Seq(1..Len(nodes)) /\ Len(q) = Len(Pop(stack)) - 1
          /\ \A k \in 1..Len(q) : q[k] = Pop(stack)[k]
      <3>1. Len(Pop(stack)) >= 1
        BY <1>3, <2>3, <2>4
      <3> QED
        BY <3>1, <2>4, BelowStack
    <2> HIDE DEF q
    <2>6. Len(q) >= 1 /\ Len(q) < Len(stack) /\ Len(q) = DepthIn(lex.tokens, i + 2) + 1
      <3>1. \A n \in Nat, a \in Int :
              n >= 3 /\ n = a + 2 =>
                (n - 1) - 1 >= 1 /\ (n - 1) - 1 < n /\ (n - 1) - 1 = (a - 1) + 1
        OBVIOUS
      <3> QED
        BY <3>1, <1>3, <1>6, <2>3, <2>4, <2>5, ZenonT(40)
    <2>7. \A k \in 1..Len(q) : q[k] = stack[k]
      <3>1. \A k \in 1..Len(q) : k \in 1..Len(Pop(stack))
        BY <1>3, <2>4, <2>5
      <3> QED
        BY <3>1, <2>4, <2>5, Zenon
    <2>8. ~BreaksIn(lex.tokens, i + 1)
      <3>1. ~(DepthIn(lex.tokens, i + 1) <= 0)
        BY <1>6, <2>3
      <3> QED
        BY <3>1, <1>4, Zenon DEF BreaksIn
    <2>9. Going(lex.tokens, i + 1, nodes', erased \cup Nameless, stack')
      BY <1>3, <1>4, <1>5, <2>2, <2>5, <2>6, <2>7, <2>8, GoingBack
    <2>10. Going(lex'.tokens, i', nodes', erased', stack') /\ phase' = "words"
      BY <1>1, <2>1, <2>2, <2>9
    <2> QED
      BY <2>10, GoesOn
  <1> QED
    BY <1>7, <1>8

\* ";" without a name before it.
LEMMA TreeSkipSemicolon ==
    ASSUME TreeInv, StackInv, StackInv', SkipSemicolon
    PROVE  TreeInv'
  <1>1. /\ phase = "words" /\ i' = i + 1 /\ lex' = lex
        /\ lex.tokens[i + 1] = Semi /\ Current.name = 0
        /\ UNCHANGED <<phase, nodes, erased, moved, stack>>
    BY DEF SkipSemicolon, Takes, Taken, Token, Semi
  <1>2. Running
    BY <1>1, RunningFacts
  <1>3. /\ i \in Nat /\ nodes \in NodeSeq /\ stack \in Seq(1..Len(nodes))
        /\ Going(lex.tokens, i, nodes, erased, stack)
        /\ nodes[Len(nodes)].name = 0
    BY <1>1, <1>2 DEF Running
  <1>4. Going(lex.tokens, i + 1, nodes, erased, stack)
    BY <1>1, <1>3, GoingSkip
  <1>5. Going(lex'.tokens, i', nodes', erased', stack') /\ phase' = "words"
    BY <1>1, <1>4
  <1> QED
    BY <1>5, GoesOn

\* A word.
LEMMA TreeWord ==
    ASSUME TreeInv, StackInv, StackInv', Word
    PROVE  TreeInv'
  <1>1. /\ phase = "words" /\ i' = i + 1 /\ lex' = lex
        /\ WordIn(lex.tokens, i + 1)
        /\ UNCHANGED <<phase, erased, moved, stack>>
        /\ nodes' = [nodes EXCEPT ![Top(stack)] = WithWord(Current, i + 1)]
    <2>1. PICK tk \in {lex.tokens[n] : n \in 1..Len(lex.tokens)} :
            Takes(tk) /\ tk \notin {<<ch>> : ch \in Punctuation}
      BY Zenon DEF Word
    <2>2. phase = "words" /\ lex.tokens[i + 1] = tk
      BY <2>1, Zenon DEF Takes, Token
    <2>3. WordIn(lex.tokens, i + 1)
      BY <2>1, <2>2, Zenon DEF WordIn, Puncts
    <2>4. /\ i' = i + 1 /\ lex' = lex /\ UNCHANGED <<phase, erased, moved, stack>>
          /\ nodes' = [nodes EXCEPT ![Top(stack)] = WithWord(Current, i + 1)]
      BY DEF Word, Taken
    <2> QED
      BY <2>2, <2>3, <2>4
  <1>2. Running /\ \A k \in 1..(Len(stack) - 1) : stack[k] < stack[Len(stack)]
    BY <1>1, RunningFacts
  <1>3. /\ i \in Nat /\ nodes \in NodeSeq /\ erased \in SUBSET (1..Len(nodes))
        /\ stack \in Seq(1..Len(nodes)) /\ Len(stack) >= 2
        /\ Going(lex.tokens, i, nodes, erased, stack)
        /\ Top(stack) = Len(nodes) /\ Current = nodes[Len(nodes)]
        /\ Len(nodes) \notin erased /\ nodes[Len(nodes)].parent = stack[Len(stack) - 1]
    BY <1>2 DEF Running
  <1>4. nodes' = [nodes EXCEPT ![Len(nodes)] = WithWord(nodes[Len(nodes)], i + 1)]
    BY <1>1, <1>3, Zenon
  <1>5. Going(lex.tokens, i + 1, nodes', erased, stack)
    BY <1>1, <1>2, <1>3, <1>4, GoingWord
  <1>6. Going(lex'.tokens, i', nodes', erased', stack') /\ phase' = "words"
    BY <1>1, <1>5
  <1> QED
    BY <1>6, GoesOn
\* The end of the tokens.
LEMMA TreeFinish ==
    ASSUME TreeInv, StackInv, Finish
    PROVE  TreeInv'
  <1> DEFINE g == {n \in LastChild(Root) : nodes[n].name = 0}
  <1>1. /\ phase = "words" /\ i = Len(lex.tokens) /\ phase' = "OK"
        /\ erased' = erased \cup g /\ UNCHANGED <<text, lex, i, nodes, moved, stack>>
    BY DEF Finish
  <1>2. Running
    BY <1>1, RunningFacts
  <1>3. /\ Written(lex.tokens, i, nodes) /\ NamelessNewest(nodes, erased)
        /\ Unbroken(lex.tokens, i) /\ i \in Nat /\ Forest
        /\ Len(nodes) \in Nat /\ Len(nodes) >= 2 /\ Top(stack) = Len(nodes)
        /\ Opened(lex.tokens, i, nodes, stack)
    BY <1>2 DEF Running, Going
  <1>4. g \subseteq 1..Len(nodes) /\ \A n \in g : nodes[n].name = 0
    BY Zenon DEF LastChild, Children
  <1>5. ASSUME Len(stack) = 2, nodes[Len(nodes)].name = 0 PROVE Len(nodes) \in g
    <2>1. Len(stack) - 1 = 1 /\ stack[1] = Root
      BY <1>2, <1>5 DEF Running
    <2>2. LastChild(Root) = {Len(nodes)}
      BY <2>1, <1>2, NewestLast, Zenon
    <2> QED
      BY <2>2, <1>5, Zenon
  <1> HIDE DEF g
  <1>6. NamelessNewest(nodes, erased \cup g)
    BY <1>3, <1>4, Zenon DEF NamelessNewest
  <1>7. Forest'
    BY <1>1, <1>3, <1>4 DEF Forest
  <1>8. Judged(phase', lex'.tokens, i', nodes', erased')
    <2>1. ASSUME NEW n \in 2..Len(nodes), nodes[n].name = 0, n \notin erased \cup g
          PROVE  DepthIn(lex.tokens, i + 1) > 0
      <3>1. n = Len(nodes)
        BY <2>1, <1>3, Zenon DEF NamelessNewest
      <3>2. Len(stack) # 2
        BY <3>1, <2>1, <1>5, Zenon
      <3>3. i + 1 \in 1..(i + 1)
        BY <1>3
      <3>4. DepthIn(lex.tokens, i + 1) >= 0 /\ Len(stack) = DepthIn(lex.tokens, i + 1) + 2
        BY <3>3, <1>3, Zenon DEF Unbroken, Opened
      <3>5. DepthIn(lex.tokens, i + 1) \in Int
        BY <1>3, DepthStep
      <3>6. \A d \in Int : d >= 0 /\ d + 2 # 2 => d > 0
        OBVIOUS
      <3> QED
        BY <3>2, <3>4, <3>5, <3>6, Zenon
    <2>2. "OK" # "WrongGrammar"
      OBVIOUS
    <2>3. Judged("OK", lex.tokens, i, nodes, erased \cup g)
      BY <2>1, <2>2, <1>1, <1>3, Zenon DEF Judged
    <2> QED
      BY <2>3, <1>1
  <1>9. phase' \notin {"idle", "lex"} /\ phase' # "words"
    BY <1>1
  <1>10. Top(stack)' = Len(nodes)'
    BY <1>1, <1>3 DEF Top
  <1> QED
    BY <1>1, <1>3, <1>6, <1>7, <1>8, <1>9, <1>10 DEF TreeInv

\* A load begins with a root without children.
LEMMA TreeStarts ==
    ASSUME NEW T, NEW ns, ns = <<Node(0)>>
    PROVE  Written(T, 0, ns) /\ NamelessNewest(ns, {}) /\ Len(ns) = 1
  <1>1. Len(ns) = 1 /\ ns[Root].name = 0
    BY DEF Node, Root
  <1>2. NamedIn(ns) = {} /\ 2..Len(ns) = {}
    BY <1>1 DEF NamedIn
  <1>3. StartsIn(T, 0) = {}
    BY DEF StartsIn
  <1> QED
    BY <1>1, <1>2, <1>3, Zenon
    DEF Written, Rooted, NamesOnce, Valued, Owned, Ended, NamelessNewest

\* Characters are read before there is anything in the tree.
LEMMA TreeLexing ==
    ASSUME Forest', phase' \in {"idle", "lex"}, i' = 0, nodes' = <<Node(0)>>, erased' = {}
    PROVE  TreeInv'
  <1>1. /\ Written(lex'.tokens, 0, nodes') /\ NamelessNewest(nodes', {}) /\ Len(nodes') = 1
    BY TreeStarts
  <1>2. Judged(phase', lex'.tokens, i', nodes', erased')
    BY DEF Judged
  <1>3. ~(Len(nodes') >= 2) /\ phase' # "words"
    BY <1>1
  <1>4. Written(lex'.tokens, i', nodes') /\ NamelessNewest(nodes', erased')
    BY <1>1
  <1> QED
    BY <1>2, <1>3, <1>4 DEF TreeInv

\* analyse_words starts.
LEMMA TreeReadEnd ==
    ASSUME TreeInv, StackInv', ReadEnd
    PROVE  TreeInv'
  <1> DEFINE T == lex.tokens
             ns == <<Node(0), Node(Root)>>
             s == <<Root, 2>>
  <1>1. /\ phase' = "words" /\ i' = 0 /\ nodes' = ns /\ erased' = {} /\ stack' = s /\ lex' = lex
    BY DEF ReadEnd
  <1>2. /\ Len(ns) = 2 /\ ns[1].name = 0 /\ ns[2].name = 0 /\ ns[2].parent = 1
        /\ ns[2].values = <<>>
    BY DEF Node, Root
  <1>3. Len(s) = 2 /\ s[1] = 1 /\ s[2] = 2
    BY DEF Root
  <1> HIDE DEF ns, s, T
  <1>4. NamedIn(ns) = {} /\ 2..Len(ns) = {2} /\ 1 \in 1..(2 - 1)
    BY <1>2 DEF NamedIn
  <1>5. StartsIn(T, 0) = {}
    BY DEF StartsIn
  <1>6. Rooted(ns)
    BY <1>2, <1>4, Zenon DEF Rooted, Root
  <1>7. Written(T, 0, ns)
    BY <1>4, <1>5, <1>6, Zenon DEF Written, NamesOnce, Valued, Owned, Ended
  <1>8. NamelessNewest(ns, {})
    BY <1>2, <1>4, Zenon DEF NamelessNewest
  <1>9. Filling(T, 0, ns)
    BY <1>2, Zenon DEF Filling
  <1>10. DepthIn(T, 1) = 0
    <2>1. 0 \in Nat
      OBVIOUS
    <2> QED
      BY <2>1, DepthStep, Zenon
  <1>11. Unbroken(T, 0)
    <2>1. 1..0 = {} /\ 1..(0 + 1) = {1} /\ 0 >= 0
      OBVIOUS
    <2> QED
      BY <2>1, <1>10, Zenon DEF Unbroken
  <1>12. Opened(T, 0, ns, s)
    <2>1. 0 + 1 = 1 /\ 0 + 2 = 2 /\ 1..(2 - 1) = {1}
      OBVIOUS
    <2>2. HeadIn(T, 0, BraceIn(T, 0 + 1, 1 - 1)) = 0
      <3>1. {m \in StartsIn(T, 0) : m < BraceIn(T, 0 + 1, 1 - 1)} = {}
        BY <1>5
      <3> QED
        BY <3>1, LargestOfNone, Zenon DEF HeadIn
    <2> QED
      BY <2>1, <2>2, <1>2, <1>3, <1>10, Zenon DEF Opened
  <1>13. Going(T, 0, ns, {}, s)
    <2>1. Len(ns) >= 2 /\ s[Len(s)] = Len(ns)
      BY <1>2, <1>3
    <2> QED
      BY <2>1, <1>7, <1>8, <1>9, <1>11, <1>12, Zenon DEF Going
  <1>14. Going(lex'.tokens, i', nodes', erased', stack')
    BY <1>1, <1>13 DEF T
  <1> QED
    BY <1>1, <1>14, GoesOn

\* A load of nothing changes nothing.
LEMMA TreeLoadEmpty ==
    ASSUME TreeInv, LoadEmpty
    PROVE  TreeInv'
  <1>1. phase' = "EOFTooEarly" /\ UNCHANGED <<text, lex, i, nodes, erased, moved, stack>>
    BY DEF LoadEmpty
  <1>2. Judged(phase', lex'.tokens, i', nodes', erased')
    BY <1>1 DEF Judged
  <1>3. phase' \notin {"idle", "lex"} /\ phase' # "words"
    BY <1>1
  <1>4. Forest'
    BY <1>1 DEF TreeInv, Forest
  <1>5. /\ Written(lex'.tokens, i', nodes') /\ NamelessNewest(nodes', erased')
        /\ Len(nodes') >= 2 => Top(stack') = Len(nodes')
    BY <1>1 DEF TreeInv
  <1> QED
    BY <1>2, <1>3, <1>4, <1>5 DEF TreeInv
\* Every step keeps the invariant.
LEMMA TreeNext ==
    ASSUME TreeInv, StackInv, StackInv', [Next]_vars
    PROVE  TreeInv'
  <1>1. CASE UNCHANGED vars
    <2>1. UNCHANGED <<phase, text, lex, i, nodes, erased, moved, stack>>
      BY <1>1 DEF vars
    <2>2. Forest'
      BY <2>1 DEF TreeInv, Forest
    <2> QED
      BY <2>1, <2>2 DEF TreeInv
  <1>2. CASE LoadEmpty
    BY <1>2, TreeLoadEmpty
  <1>3. CASE \E ch \in Chars : ReadChar(ch)
    <2>1. /\ phase \in {"idle", "lex"} /\ phase' = "lex"
          /\ UNCHANGED <<i, nodes, erased, moved, stack>>
      BY <1>3 DEF ReadChar
    <2>2. i = 0 /\ nodes = <<Node(0)>> /\ erased = {} /\ Forest
      BY <2>1 DEF TreeInv
    <2>3. Forest'
      BY <2>1, <2>2 DEF Forest
    <2> QED
      BY <2>1, <2>2, <2>3, TreeLexing
  <1>4. CASE ReadEnd
    BY <1>4, TreeReadEnd
  <1>5. CASE OpenBlock
    BY <1>5, TreeOpenBlock
  <1>6. CASE CloseBlock
    BY <1>6, TreeCloseBlock
  <1>7. CASE EndNode
    BY <1>7, TreeEndNode
  <1>8. CASE SkipSemicolon
    BY <1>8, TreeSkipSemicolon
  <1>9. CASE Word
    BY <1>9, TreeWord
  <1>10. CASE Finish
    BY <1>10, TreeFinish
  <1> QED
    BY <1>1, <1>2, <1>3, <1>4, <1>5, <1>6, <1>7, <1>8, <1>9, <1>10 DEF Next, Analyse

\* The invariant holds throughout, for texts of every length.
THEOREM TreeInvariant == Spec => []TreeInv
  <1>1. Init => TreeInv
    <2> SUFFICES ASSUME Init PROVE TreeInv
      OBVIOUS
    <2>1. /\ phase = "idle" /\ i = 0 /\ nodes = <<Node(0)>> /\ erased = {} /\ moved = {}
      BY DEF Init
    <2>2. Forest
      <3>1. Node(0) \in [name : Nat, values : Seq(Nat), parent : Nat] /\ Node(0).parent = 0
        BY DEF Node
      <3>2. nodes \in NodeSeq /\ Len(nodes) = 1 /\ nodes[1] = Node(0)
        BY <2>1, <3>1 DEF NodeSeq
      <3> QED
        BY <2>1, <3>1, <3>2 DEF Forest, Root
    <2>3. /\ Written(lex.tokens, 0, nodes) /\ NamelessNewest(nodes, {}) /\ Len(nodes) = 1
      BY <2>1, TreeStarts
    <2>4. Judged(phase, lex.tokens, i, nodes, erased)
      BY <2>1 DEF Judged
    <2>5. ~(Len(nodes) >= 2) /\ phase # "words"
      BY <2>1, <2>3
    <2> QED
      BY <2>1, <2>2, <2>3, <2>4, <2>5 DEF TreeInv
  <1> QED
    BY <1>1, TreeNext, StackAlwaysChain, PTL DEF Spec

\* The definitions of Config are those of this module, of the tokens read.
LEMMA SameWords ==
    /\ \A n : IsWord(n) <=> WordIn(lex.tokens, n)
    /\ \A n : Depth(n) = DepthIn(lex.tokens, n)
    /\ \A n : Breaks(n) <=> BreaksIn(lex.tokens, n)
    /\ Starts = StartsIn(lex.tokens, i)
    /\ \A n : Owner(n) = OwnerIn(lex.tokens, i, n)
    /\ \A n : Values(n) = ValuesIn(lex.tokens, i, n)
  <1>1. \A n : IsWord(n) <=> WordIn(lex.tokens, n)
    BY Zenon DEF IsWord, WordIn, Puncts
  <1>2. \A n : Depth(n) = DepthIn(lex.tokens, n)
    BY Zenon DEF Depth, DepthIn, Count, CountIn, Open, Close
  <1>3. \A n : Breaks(n) <=> BreaksIn(lex.tokens, n)
    BY <1>1, <1>2, Zenon DEF Breaks, BreaksIn, Open, Close
  <1>4. Starts = StartsIn(lex.tokens, i)
    BY <1>1, Zenon DEF Starts, StartsIn
  <1>5. ASSUME NEW n PROVE Owner(n) = OwnerIn(lex.tokens, i, n)
    <2>1. {m \in 1..(n - 1) : lex.tokens[m] = <<"{">> /\ Depth(m) < Depth(n)} =
          {m \in 1..(n - 1) : lex.tokens[m] = Open
                               /\ DepthIn(lex.tokens, m) < DepthIn(lex.tokens, n)}
      BY <1>2, Zenon DEF Open
    <2>2. Brace(n) = BraceIn(lex.tokens, n, DepthIn(lex.tokens, n))
      BY <2>1, Zenon DEF Brace, BraceIn
    <2> QED
      BY <2>2, <1>4, Zenon DEF Owner, OwnerIn, HeadIn
  <1>6. ASSUME NEW n PROVE Values(n) = ValuesIn(lex.tokens, i, n)
    BY <1>1, Zenon DEF Values, ValuesIn
  <1> QED
    BY <1>1, <1>2, <1>3, <1>4, <1>5, <1>6, Zenon

\* The result of analyse_words is OK exactly when no brace of the text opens a
\* block without a name or closes one that is not open, and an error is found
\* at the first such brace, for texts of every length.
THEOREM VerdictAlwaysRight == Spec => []VerdictRight
  <1>1. TreeInv => VerdictRight
    <2> SUFFICES ASSUME TreeInv PROVE VerdictRight
      OBVIOUS
    <2>1. i \in Nat /\ Judged(phase, lex.tokens, i, nodes, erased)
      BY DEF TreeInv, Forest
    <2>2. ASSUME phase \in {"words", "OK"} PROVE {n \in 1..i : Breaks(n)} = {}
      <3>1. Unbroken(lex.tokens, i)
        BY <2>1, <2>2, Zenon DEF TreeInv, Going, Judged
      <3> QED
        BY <3>1, SameWords, Zenon DEF Unbroken
    <2>3. ASSUME phase = "WrongGrammar" PROVE {n \in 1..i : Breaks(n)} = {i}
      <3>1. /\ i >= 1 /\ BreaksIn(lex.tokens, i)
            /\ \A n \in 1..(i - 1) : ~BreaksIn(lex.tokens, n)
        BY <2>1, <2>3, Zenon DEF Judged
      <3>2. 1..i = (1..(i - 1)) \cup {i}
        BY <2>1, <3>1
      <3> QED
        BY <3>1, <3>2, SameWords, Zenon
    <2>4. phase = "OK" => i = Len(lex.tokens)
      BY <2>1, Zenon DEF Judged
    <2>5. "OK" # "WrongGrammar" /\ "words" # "WrongGrammar"
      OBVIOUS
    <2> QED
      BY <2>2, <2>3, <2>4, <2>5, Zenon DEF VerdictRight
  <1> QED
    BY <1>1, TreeInvariant, PTL

\* The tree of Nodes that analyse_words builds is the one the text describes,
\* after every token and for texts of every length: a Node for every directive,
\* in the block it stands in, with its values, in the order of the text.
THEOREM TreeAlwaysRight == Spec => []TreeRight
  <1>1. TreeInv => TreeRight
    <2> SUFFICES ASSUME TreeInv PROVE TreeRight
      OBVIOUS
    <2> DEFINE named == {n \in Live : nodes[n].name # 0}
    <2>1. /\ NamesOnce(lex.tokens, i, nodes) /\ Valued(lex.tokens, i, nodes)
          /\ Owned(lex.tokens, i, nodes) /\ NamelessNewest(nodes, erased)
          /\ Judged(phase, lex.tokens, i, nodes, erased) /\ i \in Nat
      BY DEF TreeInv, Written, Forest
    <2>2. named = NamedIn(nodes)
      BY <2>1, Zenon DEF Live, NamedIn, NamelessNewest
    <2>3. NamelessGone
      <3> SUFFICES ASSUME NEW n \in Live, nodes[n].name = 0
                   PROVE  n = Top(stack) /\ (phase = "OK" => Depth(i + 1) > 0)
        BY Zenon DEF NamelessGone
      <3>1. n \in 2..Len(nodes) /\ n \notin erased
        BY Zenon DEF Live
      <3>2. n = Len(nodes)
        BY <3>1, <2>1, Zenon DEF NamelessNewest
      <3>3. Len(nodes) >= 2
        BY <3>1, <3>2
      <3>4. n = Top(stack)
        BY <3>2, <3>3, Zenon DEF TreeInv
      <3>5. phase = "OK" => Depth(i + 1) > 0
        BY <3>1, <2>1, SameWords, Zenon DEF Judged
      <3> QED
        BY <3>4, <3>5
    <2> HIDE DEF named
    <2>4. {nodes[n].name : n \in named} = Starts
      BY <2>1, <2>2, SameWords, Zenon DEF NamesOnce
    <2>5. ASSUME NEW n \in named
          PROVE  nodes[nodes[n].parent].name = Owner(nodes[n].name)
      BY <2>1, <2>2, SameWords, Zenon DEF Owned
    <2>6. ASSUME NEW n \in named
          PROVE  /\ \A m \in 1..i : m \in Values(nodes[n].name)
                                     <=> \E v \in 1..Len(nodes[n].values) : nodes[n].values[v] = m
                 /\ \A v \in 2..Len(nodes[n].values) :
                      nodes[n].values[v - 1] < nodes[n].values[v]
      <3>1. ValuesOf(nodes[n].values, Values(nodes[n].name))
        BY <2>1, <2>2, SameWords, Zenon DEF Valued
      <3> QED
        BY <3>1, Zenon DEF ValuesOf
    <2>7. ASSUME NEW n \in named, NEW o \in named
          PROVE  n < o <=> nodes[n].name < nodes[o].name
      <3>1. n \in Int /\ o \in Int
        <4>1. NamedIn(nodes) \subseteq Int
          BY SMT DEF NamedIn
        <4> QED
          BY <4>1, <2>2
      <3>2. PICK a \in 1..i : a = nodes[n].name
        BY <2>1, <2>2, NamedFacts, Zenon
      <3>3. PICK b \in 1..i : b = nodes[o].name
        BY <2>1, <2>2, NamedFacts, Zenon
      <3>4. (n < o => a < b) /\ (o < n => b < a)
        BY <3>2, <3>3, <2>1, <2>2, Zenon DEF NamesOnce
      <3>5. n = o => a = b
        BY <3>2, <3>3
      <3>6. n < o <=> a < b
        BY <3>1, <3>4, <3>5
      <3> QED
        BY <3>2, <3>3, <3>6
    <2> QED
      BY <2>3, <2>4, <2>5, <2>6, <2>7, Zenon DEF TreeRight, named
  <1> QED
    BY <1>1, TreeInvariant, PTL

-----------------------------------------------------------------------------
(* Functions that are defined by recursion *)

Follows(f, o, n, G) == f[0] = o /\ \A k \in 1..n : f[k] = G[k][f[k - 1]]

\* A first value and the steps behind it make a function.
LEMMA Recursion ==
    ASSUME NEW D, NEW o \in D, NEW n \in Nat, NEW G \in [1..n -> [D -> D]]
    PROVE  \E f \in [0..n -> D] : Follows(f, o, n, G)
  <1> DEFINE T == {m \in 0..n : ~(\E f \in [0..m -> D] : Follows(f, o, m, G))}
  <1>1. SUFFICES ASSUME T # {} PROVE FALSE
    BY SMT
  <1>2. PICK m \in T : \A y \in T : m <= y
    <2>1. T \subseteq Nat
      OBVIOUS
    <2> HIDE DEF T
    <2> QED
      BY <1>1, <2>1, LeastOf, Zenon
  <1>3. m \in 0..n /\ ~(\E f \in [0..m -> D] : Follows(f, o, m, G))
    OBVIOUS
  <1>4. m # 0
    <2> DEFINE g == [k \in 0..0 |-> o]
    <2>1. g \in [0..0 -> D] /\ g[0] = o
      OBVIOUS
    <2>2. \A k \in 1..0 : FALSE
      OBVIOUS
    <2>3. Follows(g, o, 0, G)
      BY <2>1, <2>2 DEF Follows
    <2> QED
      BY <1>3, <2>1, <2>3
  <1>5. m - 1 \in 0..n /\ ~(m <= m - 1)
    BY <1>3, <1>4
  <1>6. \E f \in [0..(m - 1) -> D] : Follows(f, o, m - 1, G)
    BY <1>2, <1>5
  <1> HIDE DEF T
  <1>7. PICK g \in [0..(m - 1) -> D] : Follows(g, o, m - 1, G)
    BY <1>6
  <1> DEFINE f == [k \in 0..m |-> IF k = m THEN G[m][g[m - 1]] ELSE g[k]]
  <1>8. f \in [0..m -> D]
    <2>1. G[m][g[m - 1]] \in D
      <3>1. m \in 1..n /\ m - 1 \in 0..(m - 1)
        BY <1>3, <1>4
      <3>2. g[m - 1] \in D /\ G[m] \in [D -> D]
        BY <3>1
      <3> QED
        BY <3>2
    <2>2. \A k \in 0..m : k # m => k \in 0..(m - 1)
      BY <1>3
    <2> QED
      BY <2>1, <2>2
  <1>9. Follows(f, o, m, G)
    <2>1. f[0] = o
      <3>1. 0 \in 0..m
        BY <1>3
      <3> QED
        BY <1>4, <1>7, <3>1 DEF Follows
    <2>2. ASSUME NEW k \in 1..m PROVE f[k] = G[k][f[k - 1]]
      <3>1. k \in 0..m /\ k - 1 \in 0..m /\ k - 1 # m
        BY <1>3
      <3>2. f[k - 1] = g[k - 1]
        BY <3>1
      <3>3. CASE k = m
        BY <3>1, <3>2, <3>3
      <3>4. CASE k # m
        <4>1. k \in 1..(m - 1)
          BY <1>3, <3>4
        <4>2. g[k] = G[k][g[k - 1]]
          BY <1>7, <4>1 DEF Follows
        <4>3. f[k] = g[k]
          BY <3>1, <3>4
        <4> QED
          BY <3>2, <4>2, <4>3
      <3> QED
        BY <3>3, <3>4
    <2> HIDE DEF f
    <2> QED
      BY <2>1, <2>2 DEF Follows
  <1> HIDE DEF f
  <1> QED
    BY <1>3, <1>8, <1>9

-----------------------------------------------------------------------------
(* The scan of one level *)

NoneSeen == [founded |-> 0, at |-> 0, hit |-> FALSE]
Sights == [founded : Nat, at : Nat, hit : BOOLEAN]
StepIn(S, idx, n, r) == IF n \in S THEN Step(n, r, idx) ELSE r

Scanning(S, idx, n, f) ==
    f = [k \in 0..n |-> IF k = 0 THEN NoneSeen ELSE StepIn(S, idx, k, f[k - 1])]

\* What the scan has seen behind the Node k: with a hit, a Node with idx of
\* those in S before it; without one, all of them.
UpTo(S, k) == {o \in S : o <= k}
Before(S, k) == {o \in S : o < k}

Found(S, idx, k, r) ==
    /\ r.founded \in Nat /\ r.hit \in BOOLEAN
    /\ r.hit => r.at \in UpTo(S, k) /\ Cardinality(Before(S, r.at)) = idx
    /\ ~r.hit => /\ r.founded = Cardinality(UpTo(S, k)) /\ r.founded <= idx
                 /\ r.at = Largest(UpTo(S, k))

\* The parts of S are finite.
LEMMA PartsFinite ==
    ASSUME NEW n \in Nat, NEW S, S \subseteq 1..n, NEW k
    PROVE  /\ IsFiniteSet(UpTo(S, k)) /\ Cardinality(UpTo(S, k)) \in Nat
           /\ IsFiniteSet(Before(S, k)) /\ Cardinality(Before(S, k)) \in Nat
  <1>1. IsFiniteSet(1..n)
    BY FS_Interval
  <1>2. UpTo(S, k) \subseteq 1..n /\ Before(S, k) \subseteq 1..n
    BY DEF UpTo, Before
  <1> QED
    BY <1>1, <1>2, FS_Subset, FS_CardinalityType

\* What one Node more adds to them.
LEMMA PartsStep ==
    ASSUME NEW n \in Nat, NEW S, S \subseteq 1..n, NEW k \in 1..n
    PROVE  /\ k \notin UpTo(S, k - 1) /\ Before(S, k) = UpTo(S, k - 1)
           /\ k \notin S => UpTo(S, k) = UpTo(S, k - 1)
           /\ k \in S => /\ UpTo(S, k) = UpTo(S, k - 1) \cup {k}
                         /\ k \in UpTo(S, k) /\ Largest(UpTo(S, k)) = k
  <1>1. \A o \in S : o \in Int /\ (o <= k - 1 <=> o < k) /\ (o <= k <=> o < k \/ o = k)
    <2>1. \A o \in 1..n : o \in Int /\ (o <= k - 1 <=> o < k) /\ (o <= k <=> o < k \/ o = k)
      BY SMT
    <2> QED
      BY <2>1, Zenon
  <1>2. ~(k <= k - 1) /\ ~(k < k) /\ k <= k
    BY SMT
  <1>3. k \notin UpTo(S, k - 1) /\ Before(S, k) = UpTo(S, k - 1)
    BY <1>1, <1>2, Zenon DEF UpTo, Before
  <1>4. k \notin S => UpTo(S, k) = UpTo(S, k - 1)
    BY <1>1, <1>2, Zenon DEF UpTo
  <1>5. ASSUME k \in S PROVE UpTo(S, k) = UpTo(S, k - 1) \cup {k} /\ k \in UpTo(S, k)
    <2>1. k \in UpTo(S, k)
      BY <1>2, <1>5, Zenon DEF UpTo
    <2>2. ASSUME NEW o PROVE o \in UpTo(S, k) <=> o \in UpTo(S, k - 1) \cup {k}
      BY <1>1, <1>2, <1>5, Zenon DEF UpTo
    <2> QED
      BY <2>1, <2>2, Zenon
  <1>6. ASSUME k \in S PROVE Largest(UpTo(S, k)) = k
    <2>1. UpTo(S, k) \subseteq Int /\ \A o \in UpTo(S, k) : o <= k
      BY <1>1, Zenon DEF UpTo
    <2> QED
      BY <1>5, <1>6, <2>1, LargestFacts, Zenon
  <1> QED
    BY <1>3, <1>4, <1>5, <1>6, Zenon

\* A step of the scan keeps the types of what it has seen.
LEMMA StepKeeps ==
    ASSUME NEW S, NEW idx, NEW k \in Nat, NEW r \in Sights
    PROVE  StepIn(S, idx, k, r) \in Sights
  <1>1. Step(k, r, idx) \in Sights
    <2>1. [founded |-> r.founded + 1, at |-> k, hit |-> FALSE] \in Sights
      BY DEF Sights
    <2>2. [r EXCEPT !.at = k, !.hit = TRUE] \in Sights
      BY DEF Sights
    <2> QED
      BY <2>1, <2>2 DEF Step
  <1> QED
    BY <1>1 DEF StepIn

\* One Node more.
LEMMA FoundStep ==
    ASSUME NEW n \in Nat, NEW S, S \subseteq 1..n, NEW idx \in Nat, NEW k \in 1..n,
           NEW r \in Sights, Found(S, idx, k - 1, r)
    PROVE  Found(S, idx, k, StepIn(S, idx, k, r))
  <1> USE DEF Sights
  <1> DEFINE old == UpTo(S, k - 1)
             z == StepIn(S, idx, k, r)
  <1>0. /\ k \notin old /\ Before(S, k) = old
        /\ k \notin S => UpTo(S, k) = old
        /\ k \in S => /\ UpTo(S, k) = old \cup {k}
                      /\ k \in UpTo(S, k) /\ Largest(UpTo(S, k)) = k
    BY PartsStep
  <1>1. IsFiniteSet(old) /\ Cardinality(old) \in Nat
    BY PartsFinite
  <1>2. CASE k \notin S
    <2>1. UpTo(S, k) = old /\ z = r
      BY <1>2, <1>0, Zenon DEF StepIn
    <2> QED
      BY <2>1, Zenon DEF Found
  <1>3. CASE k \in S /\ r.hit
    <2>1. z = r
      BY <1>3, Zenon DEF StepIn, Step
    <2>2. UpTo(S, k) = old \cup {k}
      BY <1>3, <1>0, Zenon
    <2> QED
      BY <1>3, <2>1, <2>2, Zenon DEF Found
  <1>4. CASE k \in S /\ ~r.hit /\ r.founded < idx
    <2>1. z.founded = r.founded + 1 /\ z.at = k /\ z.hit = FALSE
      BY <1>4 DEF StepIn, Step
    <2>2. Cardinality(UpTo(S, k)) = r.founded + 1
      <3>1. Cardinality(old) = r.founded
        BY <1>4, Zenon DEF Found
      <3>2. Cardinality(old \cup {k}) = Cardinality(old) + 1
        <4> HIDE DEF old
        <4> QED
          BY <1>0, <1>1, FS_AddElement
      <3>3. UpTo(S, k) = old \cup {k}
        BY <1>4, <1>0, Zenon
      <3> QED
        BY <3>1, <3>2, <3>3, Zenon
    <2>3. Largest(UpTo(S, k)) = k
      BY <1>4, <1>0, Zenon
    <2>4. r.founded + 1 \in Nat /\ r.founded + 1 <= idx
      BY <1>4
    <2> HIDE DEF z, old
    <2>5. Found(S, idx, k, z)
      BY <2>1, <2>2, <2>3, <2>4, Zenon DEF Found
    <2> QED
      BY <2>5, Zenon DEF z
  <1>5. CASE k \in S /\ ~r.hit /\ ~(r.founded < idx)
    <2>1. z.at = k /\ z.hit = TRUE /\ z.founded = r.founded
      BY <1>5 DEF StepIn, Step
    <2>2. Before(S, k) = old /\ k \in UpTo(S, k)
      BY <1>5, <1>0, Zenon
    <2>3. Cardinality(old) = idx
      <3>1. r.founded = Cardinality(old) /\ r.founded <= idx
        BY <1>5, Zenon DEF Found
      <3> HIDE DEF old
      <3> QED
        BY <1>5, <3>1
    <2>4. r.founded \in Nat /\ z.hit \in BOOLEAN
      BY <2>1
    <2> HIDE DEF z, old
    <2>5. Found(S, idx, k, z)
      BY <2>1, <2>2, <2>3, <2>4, Zenon DEF Found
    <2> QED
      BY <2>5, Zenon DEF z
  <1> QED
    BY <1>2, <1>3, <1>4, <1>5, Zenon

\* Every match but the last one is stepped over, or the one that the index
\* selects is found.
LEMMA ScanEnds ==
    ASSUME NEW n \in Nat, NEW S, S \subseteq 1..n, NEW idx \in Nat,
           NEW f, Scanning(S, idx, n, f)
    PROVE  Found(S, idx, n, f[n])
  <1>1. f[0] = NoneSeen /\ \A k \in 1..n : f[k] = StepIn(S, idx, k, f[k - 1])
    <2> DEFINE e == [k \in 0..n |-> IF k = 0 THEN NoneSeen ELSE StepIn(S, idx, k, f[k - 1])]
    <2>1. f = e
      BY Zenon DEF Scanning
    <2>2. e[0] = NoneSeen /\ \A k \in 1..n : e[k] = StepIn(S, idx, k, f[k - 1])
      OBVIOUS
    <2> HIDE DEF e
    <2> QED
      BY <2>1, <2>2
  <1> DEFINE T == {k \in 0..n : ~(f[k] \in Sights /\ Found(S, idx, k, f[k]))}
  <1>2. SUFFICES ASSUME T # {} PROVE FALSE
    BY SMT
  <1>3. PICK m \in T : \A y \in T : m <= y
    <2>1. T \subseteq Nat
      OBVIOUS
    <2> HIDE DEF T
    <2> QED
      BY <1>2, <2>1, LeastOf, Zenon
  <1>4. m \in 0..n /\ ~(f[m] \in Sights /\ Found(S, idx, m, f[m]))
    OBVIOUS
  <1>5. m # 0
    <2>1. UpTo(S, 0) = {}
      <3>1. \A o \in 1..n : ~(o <= 0)
        BY SMT
      <3> QED
        BY <3>1, Zenon DEF UpTo
    <2>2. Cardinality({}) = 0
      BY FS_EmptySet
    <2>3. /\ NoneSeen.founded = 0 /\ NoneSeen.at = 0 /\ NoneSeen.hit = FALSE
          /\ 0 \in Nat /\ 0 <= idx
      BY DEF NoneSeen
    <2>4. Found(S, idx, 0, NoneSeen)
      BY <2>1, <2>2, <2>3, LargestOfNone, Zenon DEF Found
    <2>5. NoneSeen \in Sights
      BY DEF NoneSeen, Sights
    <2> QED
      BY <1>1, <1>4, <2>4, <2>5
  <1>6. m \in 1..n /\ m - 1 \in 0..n /\ ~(m <= m - 1)
    BY <1>4, <1>5
  <1>7. f[m - 1] \in Sights /\ Found(S, idx, m - 1, f[m - 1])
    BY <1>3, <1>6
  <1> HIDE DEF T
  <1>8. StepIn(S, idx, m, f[m - 1]) \in Sights
    BY <1>6, <1>7, StepKeeps
  <1>9. Found(S, idx, m, StepIn(S, idx, m, f[m - 1]))
    BY <1>6, <1>7, FoundStep, Zenon
  <1> QED
    BY <1>1, <1>4, <1>6, <1>8, <1>9, Zenon

\* The scan follows its steps to the end.
LEMMA ScanRuns ==
    ASSUME NEW n \in Nat, NEW S, S \subseteq 1..n, NEW idx \in Nat
    PROVE  \E f : Scanning(S, idx, n, f)
  <1> DEFINE G == [k \in 1..n |-> [r \in Sights |-> StepIn(S, idx, k, r)]]
  <1>1. NoneSeen \in Sights
    BY DEF NoneSeen, Sights
  <1>2. \A k \in 1..n, r \in Sights : StepIn(S, idx, k, r) \in Sights
    BY StepKeeps, 1..n \subseteq Nat
  <1>3. G \in [1..n -> [Sights -> Sights]]
    BY <1>2
  <1>4. \A k \in 1..n, r \in Sights : G[k][r] = StepIn(S, idx, k, r)
    OBVIOUS
  <1> HIDE DEF G
  <1>5. PICK f \in [0..n -> Sights] : Follows(f, NoneSeen, n, G)
    BY <1>1, <1>3, Recursion, Zenon
  <1> DEFINE e == [k \in 0..n |-> IF k = 0 THEN NoneSeen ELSE StepIn(S, idx, k, f[k - 1])]
  <1>6. ASSUME NEW k \in 0..n PROVE f[k] = e[k]
    <2>1. CASE k = 0
      BY <1>5, <2>1 DEF Follows
    <2>2. CASE k # 0
      <3>1. k \in 1..n /\ k - 1 \in 0..n
        BY <2>2
      <3>2. f[k - 1] \in Sights
        BY <3>1
      <3>3. f[k] = StepIn(S, idx, k, f[k - 1])
        BY <1>4, <1>5, <3>1, <3>2 DEF Follows
      <3>4. e[k] = StepIn(S, idx, k, f[k - 1])
        BY <2>2
      <3> QED
        BY <3>3, <3>4, Zenon
    <2> QED
      BY <2>1, <2>2
  <1>7. f = e
    BY <1>6
  <1>8. Scanning(S, idx, n, f)
    BY <1>7, Zenon DEF Scanning
  <1> QED
    BY <1>5, <1>8

\* What a lookup promises of the set of all matches: the one with idx matches
\* before it, or the last one when there are fewer, or nothing.
Picked(hit, all, idx) ==
    /\ hit = 0 <=> all = {}
    /\ hit # 0 => /\ hit \in all
                  /\ LET before == Cardinality({o \in all : o < hit}) IN
                     before = idx \/ (before < idx /\ \A o \in all : o <= hit)

\* What was found behind the last Node is what is promised.
LEMMA FoundPicked ==
    ASSUME NEW n \in Nat, NEW S, S \subseteq 1..n, NEW idx \in Nat,
           NEW r, Found(S, idx, n, r)
    PROVE  r.at \in 0..n /\ Picked(r.at, S, idx)
  <1>1. \A o \in S : o \in 1..n /\ o <= n /\ o # 0
    BY SMT
  <1>2. UpTo(S, n) = S
    BY <1>1, Zenon DEF UpTo
  <1>3. IsFiniteSet(S) /\ Cardinality(S) \in Nat
    BY <1>2, PartsFinite
  <1>4. CASE r.hit
    <2>1. r.at \in S /\ Cardinality(Before(S, r.at)) = idx
      BY <1>2, <1>4, Zenon DEF Found
    <2>2. r.at \in 1..n
      BY <1>1, <2>1, Zenon
    <2>3. r.at # 0 /\ r.at \in 0..n
      BY <2>2
    <2> QED
      BY <2>1, <2>3, Zenon DEF Picked, Before
  <1>5. CASE ~r.hit /\ S = {}
    <2>1. r.at = 0
      BY <1>2, <1>5, LargestOfNone, Zenon DEF Found
    <2>2. r.at \in 0..n
      BY <2>1
    <2> QED
      BY <1>5, <2>1, <2>2, Zenon DEF Picked
  <1>6. CASE ~r.hit /\ S # {}
    <2> DEFINE l == r.at
    <2>1. l = Largest(S) /\ Cardinality(S) <= idx
      BY <1>2, <1>6, Zenon DEF Found
    <2>2. l \in S /\ \A o \in S : o <= l
      BY <1>6, <2>1, LargestIn
    <2>3. l \in 0..n /\ l # 0
      <3>1. l \in 1..n
        BY <1>1, <2>2, Zenon
      <3> HIDE DEF l
      <3> QED
        BY <3>1
    <2> HIDE DEF l
    <2>4. Cardinality(Before(S, l)) < idx
      <3>1. Before(S, l) = S \ {l}
        <4>1. \A o \in S : o < l <=> o # l
          BY <2>2
        <4> QED
          BY <2>2, <4>1, Zenon DEF Before
      <3>2. Cardinality(S \ {l}) = Cardinality(S) - 1
        BY <1>3, <2>2, FS_RemoveElement
      <3> QED
        BY <1>3, <2>1, <3>1, <3>2
    <2>5. Picked(l, S, idx)
      BY <2>2, <2>3, <2>4, <1>6, Zenon DEF Picked, Before
    <2> QED
      BY <2>3, <2>5, Zenon DEF l
  <1> QED
    BY <1>4, <1>5, <1>6, Zenon

\* So one level of get_node_recursive keeps the promise.
LEMMA ScanRight ==
    ASSUME NEW p, NEW nm, NEW idx \in Nat, Len(nodes) \in Nat
    PROVE  /\ Scan(p, nm, idx) \in 0..Len(nodes)
           /\ Picked(Scan(p, nm, idx), Named(p, nm), idx)
  <1> DEFINE n == Len(nodes)
             S == Named(p, nm)
             f == CHOOSE f : Scanning(S, idx, n, f)
  <1>1. S \subseteq 1..n
    BY DEF Named, Children
  <1>2. Scan(p, nm, idx) = f[n].at
    BY DEF Scan, Scanning, StepIn, NoneSeen
  <1> HIDE DEF S, n
  <1>3. n \in Nat
    BY DEF n
  <1>4. \E g : Scanning(S, idx, n, g)
    BY <1>1, <1>3, ScanRuns
  <1>5. Scanning(S, idx, n, f)
    BY <1>4
  <1> HIDE DEF f
  <1>6. Found(S, idx, n, f[n])
    BY <1>1, <1>3, <1>5, ScanEnds
  <1>7. f[n].at \in 0..n /\ Picked(f[n].at, S, idx)
    BY <1>1, <1>3, <1>6, FoundPicked
  <1> QED
    BY <1>2, <1>7, Zenon DEF S, n

\* A path of names leads from Node to Node, and nowhere from a name that no
\* Node has.
Walk(p, nm, idx) == IF p = 0 THEN 0 ELSE Scan(p, nm, idx)

Walking(loc, idx, f) ==
    f = [k \in 0..Len(loc) |->
           IF k = 0 THEN Root
           ELSE Walk(f[k - 1], loc[k], IF k = Len(loc) THEN idx ELSE 0)]

\* The walk follows its steps to the end, and stays among the Nodes.
LEMMA WalkRuns ==
    ASSUME NEW loc, Len(loc) \in Nat, NEW idx \in Nat, Len(nodes) \in Nat, Len(nodes) >= 1
    PROVE  \E f : Walking(loc, idx, f)
  <1> DEFINE n == Len(loc)
             D == 0..Len(nodes)
             I(k) == IF k = n THEN idx ELSE 0
             G == [k \in 1..n |-> [p \in D |-> Walk(p, loc[k], I(k))]]
  <1>1. Root \in D
    BY DEF Root
  <1>2. ASSUME NEW k \in 1..n, NEW p \in D PROVE Walk(p, loc[k], I(k)) \in D
    <2>1. I(k) \in Nat
      OBVIOUS
    <2> HIDE DEF I
    <2>2. Scan(p, loc[k], I(k)) \in D
      BY <2>1, ScanRight
    <2>3. 0 \in D
      OBVIOUS
    <2> HIDE DEF D
    <2> QED
      BY <2>2, <2>3, Zenon DEF Walk
  <1> HIDE DEF D, I
  <1>3. G \in [1..n -> [D -> D]]
    BY <1>2
  <1>4. \A k \in 1..n, p \in D : G[k][p] = Walk(p, loc[k], I(k))
    OBVIOUS
  <1> HIDE DEF G
  <1>5. PICK f \in [0..n -> D] : Follows(f, Root, n, G)
    BY <1>1, <1>3, Recursion, Zenon
  <1> DEFINE e == [k \in 0..n |-> IF k = 0 THEN Root ELSE Walk(f[k - 1], loc[k], I(k))]
  <1>6. ASSUME NEW k \in 0..n PROVE f[k] = e[k]
    <2>1. CASE k = 0
      BY <1>5, <2>1 DEF Follows
    <2>2. CASE k # 0
      <3>1. k \in 1..n /\ k - 1 \in 0..n
        BY <2>2
      <3>2. f[k - 1] \in D
        BY <3>1
      <3>3. f[k] = Walk(f[k - 1], loc[k], I(k))
        BY <1>4, <1>5, <3>1, <3>2 DEF Follows
      <3>4. e[k] = Walk(f[k - 1], loc[k], I(k))
        BY <2>2
      <3> QED
        BY <3>3, <3>4, Zenon
    <2> QED
      BY <2>1, <2>2
  <1>7. f = e
    BY <1>6
  <1>8. Walking(loc, idx, f)
    BY <1>7, Zenon DEF Walking, I
  <1> QED
    BY <1>8

\* What the steps of a walk lead to.
Walked(loc, idx, f, found) ==
    /\ found = f[Len(loc)] /\ f[0] = Root
    /\ \A k \in 1..Len(loc) :
         f[k] = Walk(f[k - 1], loc[k], IF k = Len(loc) THEN idx ELSE 0)

LEMMA WalkSteps ==
    ASSUME NEW loc, Len(loc) \in Nat, NEW idx \in Nat, Len(nodes) \in Nat, Len(nodes) >= 1
    PROVE  \E f : Walked(loc, idx, f, GetNode(loc, idx))
  <1> DEFINE n == Len(loc)
             f == CHOOSE f : Walking(loc, idx, f)
             I(k) == IF k = n THEN idx ELSE 0
             e == [k \in 0..n |-> IF k = 0 THEN Root ELSE Walk(f[k - 1], loc[k], I(k))]
  <1>1. GetNode(loc, idx) = f[n]
    BY DEF GetNode, Walking, Walk
  <1>2. f = e
    <2>1. \E g : Walking(loc, idx, g)
      BY WalkRuns
    <2> QED
      BY <2>1, Zenon DEF Walking
  <1> HIDE DEF f
  <1>3. e[0] = Root /\ \A k \in 1..n : e[k] = Walk(f[k - 1], loc[k], I(k))
    OBVIOUS
  <1> HIDE DEF e
  <1>4. /\ GetNode(loc, idx) = f[n] /\ f[0] = Root
        /\ \A k \in 1..n : f[k] = Walk(f[k - 1], loc[k], I(k))
    BY <1>1, <1>2, <1>3
  <1> QED
    BY <1>4, Zenon DEF Walked

\* The lookups of one name and of two.
LEMMA GetNodeOne ==
    ASSUME NEW a, Len(nodes) \in Nat, Len(nodes) >= 1, NEW idx \in Nat
    PROVE  GetNode(<<a>>, idx) = Scan(Root, a, idx)
  <1> DEFINE loc == <<a>>
  <1>1. Len(loc) = 1 /\ loc[1] = a /\ 1 \in 1..1 /\ 1 - 1 = 0 /\ Root # 0
    BY DEF Root
  <1> HIDE DEF loc
  <1>2. PICK f : Walked(loc, idx, f, GetNode(loc, idx))
    <2>1. Len(loc) \in Nat
      BY <1>1
    <2> QED
      BY <2>1, WalkSteps
  <1>3. f[1] = Scan(Root, a, idx)
    BY <1>1, <1>2 DEF Walk, Walked
  <1> QED
    BY <1>1, <1>2, <1>3 DEF loc, Walked

\* The second name is looked up under the first Node that has the first.
LEMMA GetNodeTwo ==
    ASSUME NEW a, NEW b, Len(nodes) \in Nat, Len(nodes) >= 1, NEW idx \in Nat
    PROVE  GetNode(<<a, b>>, idx) = Walk(Scan(Root, a, 0), b, idx)
  <1> DEFINE loc == <<a, b>>
  <1>1. /\ Len(loc) = 2 /\ loc[1] = a /\ loc[2] = b /\ 1 \in 1..2 /\ 2 \in 1..2
        /\ 1 - 1 = 0 /\ 2 - 1 = 1 /\ 1 # 2 /\ Root # 0
    BY DEF Root
  <1> HIDE DEF loc
  <1>2. PICK f : Walked(loc, idx, f, GetNode(loc, idx))
    <2>1. Len(loc) \in Nat
      BY <1>1
    <2> QED
      BY <2>1, WalkSteps
  <1>3. f[1] = Scan(Root, a, 0)
    BY <1>1, <1>2 DEF Walk, Walked
  <1>4. f[2] = Walk(f[1], b, idx)
    BY <1>1, <1>2 DEF Walked
  <1> QED
    BY <1>1, <1>2, <1>3, <1>4 DEF loc, Walked

\* A lookup finds the Node that the path and the index select, in every tree
\* that a load can build: the index-th of those with the last name, or the last
\* one when there are fewer, and nothing only where there is none.
THEOREM LookupAlwaysRight == Spec => []LookupRight
  <1>1. TreeInv => LookupRight
    <2> SUFFICES ASSUME TreeInv, NEW a \in Names, NEW b \in Names, NEW idx \in 0..2
                 PROVE  LET first == GetNode(<<a>>, 0)
                            all == Named(first, b)
                            hit == GetNode(<<a, b>>, idx)
                        IN /\ first = 0 <=> Named(Root, a) = {}
                           /\ first # 0 => /\ first \in Named(Root, a)
                                           /\ \A o \in Named(Root, a) : first <= o
                           /\ hit = 0 <=> first = 0 \/ all = {}
                           /\ hit # 0 =>
                                /\ hit \in all
                                /\ LET before == Cardinality({o \in all : o < hit}) IN
                                   before = idx \/ (before < idx /\ \A o \in all : o <= hit)
      BY Zenon DEF LookupRight
    <2> DEFINE first == GetNode(<<a>>, 0)
               all == Named(first, b)
               hit == GetNode(<<a, b>>, idx)
               top == Named(Root, a)
    <2>1. Len(nodes) \in Nat /\ Len(nodes) >= 1 /\ idx \in Nat /\ 0 \in Nat
      BY DEF TreeInv, Forest, NodeSeq
    <2>2. first = Scan(Root, a, 0)
      BY <2>1, GetNodeOne
    <2>3. hit = Walk(first, b, idx)
      BY <2>1, <2>2, GetNodeTwo
    <2>4. Picked(first, top, 0)
      BY <2>1, <2>2, ScanRight
    <2>5. top \subseteq 1..Len(nodes)
      BY DEF Named, Children
    <2>6. first # 0 => Picked(hit, all, idx)
      <3>1. Picked(Scan(first, b, idx), all, idx)
        BY <2>1, ScanRight
      <3> QED
        BY <2>3, <3>1 DEF Walk
    <2>7. first = 0 => hit = 0
      BY <2>3 DEF Walk
    <2> HIDE DEF first, all, hit, top
    <2>8. ASSUME first # 0 PROVE \A o \in top : first <= o
      <3> DEFINE S == {o \in top : o < first}
      <3>1. first \in top
        BY <2>4, <2>8, Zenon DEF Picked
      <3>2. IsFiniteSet(S) /\ Cardinality(S) \in Nat
        BY <2>1, <2>5, PartsFinite DEF Before
      <3>3. Cardinality(S) = 0
        <4>1. Cardinality(S) = 0 \/ Cardinality(S) < 0
          BY <2>4, <2>8, Zenon DEF Picked
        <4> HIDE DEF S
        <4> QED
          BY <3>2, <4>1
      <3>4. S = {}
        BY <3>2, <3>3, FS_EmptySet
      <3>5. \A o \in top : o \in Int
        BY <2>1, <2>5
      <3> QED
        BY <3>1, <3>4, <3>5
    <2>9. /\ first = 0 <=> top = {}
          /\ first # 0 => first \in top
      BY <2>4, Zenon DEF Picked
    <2>10. /\ hit = 0 <=> first = 0 \/ all = {}
           /\ hit # 0 => /\ hit \in all
                         /\ LET before == Cardinality({o \in all : o < hit}) IN
                            before = idx \/ (before < idx /\ \A o \in all : o <= hit)
      BY <2>6, <2>7, Zenon DEF Picked
    <2> QED
      BY <2>8, <2>9, <2>10, Zenon DEF first, all, hit, top
  <1> QED
    BY <1>1, TreeInvariant, PTL

-----------------------------------------------------------------------------
(* The lexer *)

Lexers == [in_str : BOOLEAN, escape : BOOLEAN, buffer : Seq(Chars), tokens : Seq(Seq(Chars))]

\* What TokensRight says of a text t outside quotes: the characters of words,
\* where tokens end, where the word at n starts, and the token that ends there.
PartIn(t, n) == t[n] \notin Punctuation \cup {" "}
EndsIn(t) == {n \in 1..Len(t) : \/ t[n] \in Punctuation
                                \/ PartIn(t, n) /\ n < Len(t) /\ ~PartIn(t, n + 1)}
FromIn(t, n) == Largest({m \in 1..n : ~PartIn(t, m)}) + 1
TokenIn(t, n) == SubSeq(t, IF PartIn(t, n) THEN FromIn(t, n) ELSE n, n)

\* The tokens are those that end at the places of E, in their order.
Numbered(E, toks, t) ==
    /\ Len(toks) = Cardinality(E)
    /\ \A n \in E : toks[Cardinality(UpTo(E, n))] = TokenIn(t, n)

\* Outside quotes, and the word that has not ended is in the buffer.
PlainRight(t, l) ==
    /\ l.in_str = FALSE
    /\ l.buffer = SubSeq(t, FromIn(t, Len(t)), Len(t))
    /\ Numbered(EndsIn(t), l.tokens, t)

LexInv ==
    phase \in {"idle", "lex"} =>
        /\ text \in Seq(Chars) /\ lex \in Lexers
        /\ ~Tricky(text) => PlainRight(text, lex)

\* The lexer keeps the types of what it works on.
LEMMA LexKeeps ==
    ASSUME NEW l \in Lexers, NEW ch \in Chars
    PROVE  LexStep(l, ch) \in Lexers
  <1>1. /\ l.in_str \in BOOLEAN /\ l.escape \in BOOLEAN /\ l.buffer \in Seq(Chars)
        /\ l.tokens \in Seq(Seq(Chars))
    BY DEF Lexers
  <1>2. Quote \in Chars /\ Backslash \in Chars
    BY DEF Chars, QuotedChars
  <1> DEFINE Toks == Seq(Seq(Chars))
  <1>3. ASSUME NEW w \in Seq(Chars) PROVE Append(l.tokens, w) \in Toks
    <2> DEFINE S == Seq(Chars)
    <2>1. l.tokens \in Seq(S) /\ w \in S
      BY <1>1
    <2> HIDE DEF S
    <2>2. Append(l.tokens, w) \in Seq(S)
      BY <2>1
    <2> QED
      BY <2>2 DEF S
  <1>4. ASSUME NEW extra \in Toks PROVE Flush(l, extra) \in Lexers
    <2> DEFINE S == Seq(Chars)
               toks == (IF l.buffer = <<>> THEN l.tokens ELSE Append(l.tokens, l.buffer)) \o extra
    <2>1. toks \in Toks
      <3>1. (IF l.buffer = <<>> THEN l.tokens ELSE Append(l.tokens, l.buffer)) \in Seq(S)
        BY <1>1, <1>3
      <3> HIDE DEF S
      <3>2. extra \in Seq(S)
        BY DEF S
      <3>3. toks \in Seq(S)
        BY <3>1, <3>2
      <3> QED
        BY <3>3 DEF S
    <2>2. <<>> \in Seq(Chars)
      OBVIOUS
    <2>3. Flush(l, extra) = [l EXCEPT !.tokens = toks, !.buffer = <<>>]
      BY DEF Flush
    <2> HIDE DEF toks
    <2> QED
      BY <2>1, <2>2, <2>3 DEF Lexers
  <1>5. LexPlain(l, ch) \in Lexers
    <2>1. [l EXCEPT !.in_str = TRUE] \in Lexers
      BY DEF Lexers
    <2>2. Flush(l, <<>>) \in Lexers
      <3>1. <<>> \in Toks
        OBVIOUS
      <3> QED
        BY <1>4, <3>1
    <2>3. Flush(l, <<<<ch>>>>) \in Lexers
      <3>1. <<<<ch>>>> \in Toks
        OBVIOUS
      <3> QED
        BY <1>4, <3>1
    <2>4. [l EXCEPT !.buffer = Append(@, ch)] \in Lexers
      BY <1>1 DEF Lexers
    <2> QED
      BY <2>1, <2>2, <2>3, <2>4 DEF LexPlain
  <1>6. LexEscaped(l, ch) \in Lexers
    <2> DEFINE b == l.buffer \o (IF ch \in {Backslash, Quote} THEN <<ch>> ELSE <<Backslash, ch>>)
    <2>1. b \in Seq(Chars)
      BY <1>1, <1>2
    <2>2. LexEscaped(l, ch) = [l EXCEPT !.escape = FALSE, !.buffer = b]
      BY DEF LexEscaped
    <2> HIDE DEF b
    <2> QED
      BY <2>1, <2>2 DEF Lexers
  <1>7. LexQuoted(l, ch) \in Lexers
    <2>1. [l EXCEPT !.escape = TRUE] \in Lexers
      BY DEF Lexers
    <2>2. [l EXCEPT !.in_str = FALSE, !.buffer = <<>>,
                    !.tokens = Append(@, <<Quote>> \o l.buffer \o <<Quote>>)] \in Lexers
      <3> DEFINE w == <<Quote>> \o l.buffer \o <<Quote>>
                 toks == Append(l.tokens, w)
      <3>1. w \in Seq(Chars) /\ <<>> \in Seq(Chars)
        BY <1>1, <1>2
      <3> HIDE DEF w
      <3>2. toks \in Toks
        BY <1>3, <3>1
      <3> HIDE DEF toks
      <3>3. [l EXCEPT !.in_str = FALSE, !.buffer = <<>>, !.tokens = toks] \in Lexers
        BY <3>1, <3>2 DEF Lexers
      <3> QED
        BY <3>3 DEF toks, w
    <2>3. [l EXCEPT !.buffer = Append(@, ch)] \in Lexers
      BY <1>1 DEF Lexers
    <2> QED
      BY <2>1, <2>2, <2>3 DEF LexQuoted
  <1> QED
    BY <1>5, <1>6, <1>7 DEF LexStep

\* One token more, which ends behind all the others.
LEMMA NumberedMore ==
    ASSUME NEW t, NEW x \in Nat, NEW E, E \subseteq 1..(x - 1), NEW toks \in Seq(Seq(Chars)),
           Numbered(E, toks, t), NEW tok, tok = TokenIn(t, x)
    PROVE  Numbered(E \cup {x}, Append(toks, tok), t)
  <1> DEFINE F == E \cup {x}
             new == Append(toks, tok)
  <1>1. x >= 1 => x - 1 \in Nat
    OBVIOUS
  <1>2. \A n \in E : n \in Int /\ n <= x /\ ~(x <= n) /\ n # x
    <2>1. \A n \in 1..(x - 1) : n \in Int /\ n <= x /\ ~(x <= n) /\ n # x
      BY SMT
    <2> QED
      BY <2>1, Zenon
  <1>3. x \notin E /\ x <= x
    BY <1>2
  <1>4. \A n \in E : UpTo(F, n) = UpTo(E, n)
    BY <1>2, Zenon DEF UpTo
  <1>5. UpTo(F, x) = F
    BY <1>2, <1>3, Zenon DEF UpTo
  <1>6. IsFiniteSet(E) /\ Cardinality(E) \in Nat
    <2>1. IsFiniteSet(1..(x - 1))
      BY FS_Interval
    <2> QED
      BY <2>1, FS_Subset, FS_CardinalityType
  <1>7. Cardinality(F) = Cardinality(E) + 1
    BY <1>3, <1>6, FS_AddElement
  <1>8. Len(toks) = Cardinality(E) /\ \A n \in E : toks[Cardinality(UpTo(E, n))] = TokenIn(t, n)
    BY DEF Numbered
  <1>9. \A n \in E : Cardinality(UpTo(E, n)) \in 1..Cardinality(E)
    <2> SUFFICES ASSUME NEW n \in E PROVE Cardinality(UpTo(E, n)) \in 1..Cardinality(E)
      OBVIOUS
    <2>1. UpTo(E, n) \subseteq E /\ n \in UpTo(E, n)
      BY <1>2 DEF UpTo
    <2>2. Cardinality(UpTo(E, n)) <= Cardinality(E) /\ IsFiniteSet(UpTo(E, n))
      BY <1>6, <2>1, FS_Subset
    <2>3. Cardinality(UpTo(E, n)) \in Nat /\ Cardinality(UpTo(E, n)) # 0
      BY <2>1, <2>2, FS_CardinalityType, FS_EmptySet
    <2> QED
      BY <1>6, <2>2, <2>3
  <1>10. Len(new) = Len(toks) + 1 /\ new[Len(toks) + 1] = tok
         /\ \A k \in 1..Len(toks) : new[k] = toks[k]
    BY AppendProperties
  <1> HIDE DEF new, F
  <1>11. ASSUME NEW n \in E PROVE new[Cardinality(UpTo(F, n))] = TokenIn(t, n)
    <2>1. Cardinality(UpTo(E, n)) \in 1..Len(toks)
      BY <1>8, <1>9
    <2> QED
      BY <1>4, <1>8, <1>10, <2>1
  <1>12. new[Cardinality(UpTo(F, x))] = TokenIn(t, x)
    BY <1>5, <1>7, <1>8, <1>10
  <1>13. Len(new) = Cardinality(F)
    BY <1>7, <1>8, <1>10
  <1>14. Numbered(F, new, t)
    <2>1. \A n \in F : n \in E \/ n = x
      BY DEF F
    <2> QED
      BY <1>11, <1>12, <1>13, <2>1, Zenon DEF Numbered
  <1> QED
    BY <1>14 DEF F, new

\* A token keeps where it stands and what it consists of.
LEMMA PartsKept ==
    ASSUME NEW t \in Seq(Chars), NEW ch \in Chars, NEW n \in 1..Len(t)
    PROVE  /\ Append(t, ch)[n] = t[n]
           /\ PartIn(Append(t, ch), n) <=> PartIn(t, n)
           /\ FromIn(Append(t, ch), n) = FromIn(t, n) /\ FromIn(t, n) \in 1..(n + 1)
           /\ PartIn(t, n) => FromIn(t, n) \in 1..n
           /\ TokenIn(Append(t, ch), n) = TokenIn(t, n)
  <1> DEFINE u == Append(t, ch)
             S == {m \in 1..n : ~PartIn(t, m)}
  <1>1. Len(t) \in Nat /\ n \in Nat /\ \A m \in 1..n : m \in 1..Len(t)
    BY SMT
  <1>2. \A m \in 1..n : u[m] = t[m]
    BY <1>1, AppendProperties
  <1>3. n \in 1..n
    OBVIOUS
  <1>4. {m \in 1..n : ~PartIn(u, m)} = S
    BY <1>2, Zenon DEF PartIn
  <1>5. FromIn(u, n) = FromIn(t, n)
    BY <1>4, Zenon DEF FromIn
  <1>6. Largest(S) \in 0..n /\ (S # {} => Largest(S) \in S)
    <2>1. S \subseteq 1..n
      OBVIOUS
    <2> HIDE DEF S
    <2> QED
      BY <1>1, <2>1, LargestIn
  <1>7. FromIn(t, n) = Largest(S) + 1
    BY DEF FromIn
  <1>8. PartIn(t, n) => Largest(S) # n
    <2>1. PartIn(t, n) => n \notin S
      OBVIOUS
    <2> HIDE DEF S
    <2>2. n # 0
      OBVIOUS
    <2>3. S = {} => Largest(S) = 0
      BY LargestOfNone
    <2> QED
      BY <1>6, <2>1, <2>2, <2>3
  <1> HIDE DEF S
  <1>9. FromIn(t, n) \in 1..(n + 1) /\ (PartIn(t, n) => FromIn(t, n) \in 1..n)
    BY <1>1, <1>6, <1>7, <1>8
  <1>10. \A a \in 1..(n + 1) : SubSeq(u, a, n) = SubSeq(t, a, n)
    <2> TAKE a \in 1..(n + 1)
    <2>1. u \in Seq(Chars) /\ Len(u) = Len(t) + 1
      BY AppendProperties
    <2>2. \A k \in a..n : u[k] = t[k]
      BY <1>2
    <2> HIDE DEF u
    <2> QED
      BY <1>1, <2>1, <2>2
  <1>11. PartIn(u, n) <=> PartIn(t, n)
    BY <1>2, <1>3, Zenon DEF PartIn
  <1>12. TokenIn(u, n) = TokenIn(t, n)
    <2>1. n \in 1..(n + 1)
      BY <1>1
    <2> HIDE DEF u
    <2> QED
      BY <1>5, <1>9, <1>10, <1>11, <2>1, Zenon DEF TokenIn
  <1> QED
    BY <1>2, <1>3, <1>5, <1>9, <1>11, <1>12, Zenon

\* The character that was read is the last one.
LEMMA LastRead ==
    ASSUME NEW t \in Seq(Chars), NEW ch \in Chars
    PROVE  /\ Append(t, ch) \in Seq(Chars) /\ Len(t) \in Nat
           /\ Len(Append(t, ch)) = Len(t) + 1 /\ Append(t, ch)[Len(t) + 1] = ch
           /\ PartIn(Append(t, ch), Len(t) + 1) <=> ch \notin Punctuation \cup {" "}
  <1>1. /\ Append(t, ch) \in Seq(Chars) /\ Len(t) \in Nat
        /\ Len(Append(t, ch)) = Len(t) + 1 /\ Append(t, ch)[Len(t) + 1] = ch
    BY AppendProperties
  <1> QED
    BY <1>1, Zenon DEF PartIn

\* A character that belongs to no word ends the word before it; punctuation is
\* a token by itself.
InWord(t) == Len(t) >= 1 /\ PartIn(t, Len(t))

WithWordEnd(t) == EndsIn(t) \cup (IF InWord(t) THEN {Len(t)} ELSE {})

LEMMA EndsStep ==
    ASSUME NEW t \in Seq(Chars), NEW ch \in Chars
    PROVE  /\ ch \in Punctuation =>
                EndsIn(Append(t, ch)) = WithWordEnd(t) \cup {Len(t) + 1}
           /\ ch = " " => EndsIn(Append(t, ch)) = WithWordEnd(t)
           /\ ch \notin Punctuation \cup {" "} => EndsIn(Append(t, ch)) = EndsIn(t)
           /\ EndsIn(t) \subseteq 1..Len(t)
           /\ InWord(t) => EndsIn(t) \subseteq 1..(Len(t) - 1)
  <1> DEFINE u == Append(t, ch)
             z == Len(t) + 1
  <1>1. Len(t) \in Nat /\ Len(u) = z /\ u[z] = ch
    BY LastRead
  <1>2. PartIn(u, z) <=> ch \notin Punctuation \cup {" "}
    BY LastRead
  <1>3. \A n \in 1..Len(t) : u[n] = t[n] /\ (PartIn(u, n) <=> PartIn(t, n))
    BY PartsKept
  <1>4. " " \notin Punctuation
    BY DEF Punctuation
  <1> HIDE DEF u
  <1>5. \A n : n \in 1..z <=> n \in 1..Len(t) \/ n = z
    BY <1>1
  <1>6. \A n \in 1..Len(t) : /\ n < Len(t) => n + 1 \in 1..Len(t)
                             /\ n < z /\ (n < Len(t) \/ n = Len(t)) /\ n # z /\ n + 1 # z + 1
                             /\ n = Len(t) => n + 1 = z /\ ~(n < Len(t))
    BY <1>1
  <1>7. Len(t) >= 1 <=> Len(t) \in 1..Len(t)
    BY <1>1
  <1>8. ~(z < z)
    BY <1>1
  <1> HIDE DEF z
  <1>9. \A n \in 1..Len(t) : n \in EndsIn(u) <=> \/ n \in EndsIn(t)
                                                \/ (n = Len(t) /\ PartIn(t, n) /\ ~PartIn(u, z))
    <2> SUFFICES ASSUME NEW n \in 1..Len(t)
                 PROVE  n \in EndsIn(u) <=> \/ n \in EndsIn(t)
                                            \/ (n = Len(t) /\ PartIn(t, n) /\ ~PartIn(u, z))
      OBVIOUS
    <2>1. n \in EndsIn(u) <=> \/ t[n] \in Punctuation
                              \/ PartIn(t, n) /\ n < z /\ ~PartIn(u, n + 1)
      BY <1>1, <1>3, <1>5, Zenon DEF EndsIn
    <2>2. n \in EndsIn(t) <=> \/ t[n] \in Punctuation
                              \/ PartIn(t, n) /\ n < Len(t) /\ ~PartIn(t, n + 1)
      BY Zenon DEF EndsIn
    <2>3. CASE n < Len(t)
      <3>1. PartIn(u, n + 1) <=> PartIn(t, n + 1)
        BY <1>3, <1>6, <2>3, Zenon
      <3>2. n # Len(t)
        BY <1>6, <2>3, Zenon
      <3> QED
        BY <1>6, <2>1, <2>2, <2>3, <3>1, <3>2, Zenon
    <2>4. CASE n = Len(t)
      <3>1. n + 1 = z /\ ~(n < Len(t)) /\ n < z
        BY <1>6, <2>4, Zenon
      <3> QED
        BY <2>1, <2>2, <2>4, <3>1, Zenon
    <2> QED
      BY <1>6, <2>3, <2>4, Zenon
  <1>10. z \in EndsIn(u) <=> ch \in Punctuation
    BY <1>1, <1>5, <1>8, Zenon DEF EndsIn
  <1>11. EndsIn(u) \subseteq 1..z /\ EndsIn(t) \subseteq 1..Len(t)
    BY <1>1, Zenon DEF EndsIn
  <1>12. z \notin 1..Len(t)
    BY <1>6, Zenon
  <1>13. \A n : n \in WithWordEnd(t) <=>
                  n \in 1..Len(t) /\ (n \in EndsIn(t) \/ (n = Len(t) /\ PartIn(t, n)))
    BY <1>7, <1>11, Zenon DEF WithWordEnd, InWord
  <1>14. ASSUME ch \in Punctuation PROVE EndsIn(u) = WithWordEnd(t) \cup {z}
    <2>1. ~PartIn(u, z) /\ z \in EndsIn(u)
      BY <1>2, <1>10, <1>14, Zenon
    <2>2. ASSUME NEW n PROVE n \in EndsIn(u) <=> n \in WithWordEnd(t) \/ n = z
      <3>1. CASE n \in 1..Len(t)
        <4>1. n # z
          BY <1>12, <3>1, Zenon
        <4> QED
          BY <1>9, <1>13, <2>1, <3>1, <4>1, Zenon
      <3>2. CASE n = z
        BY <2>1, <3>2, Zenon
      <3>3. CASE n \notin 1..z
        <4>1. n \notin 1..Len(t) /\ n # z
          BY <1>5, <3>3, Zenon
        <4> QED
          BY <1>11, <1>13, <3>3, <4>1, Zenon
      <3> QED
        BY <1>5, <3>1, <3>2, <3>3, Zenon
    <2> QED
      BY <2>2, Zenon
  <1>15. ASSUME ch = " " PROVE EndsIn(u) = WithWordEnd(t)
    <2>1. ~PartIn(u, z) /\ z \notin EndsIn(u)
      BY <1>2, <1>4, <1>10, <1>15, Zenon
    <2>2. ASSUME NEW n PROVE n \in EndsIn(u) <=> n \in WithWordEnd(t)
      <3>1. CASE n \in 1..Len(t)
        BY <1>9, <1>13, <2>1, <3>1, Zenon
      <3>2. CASE n \notin 1..Len(t)
        <4>1. n = z \/ n \notin 1..z
          BY <1>5, <3>2, Zenon
        <4> QED
          BY <1>11, <1>13, <2>1, <3>2, <4>1, Zenon
      <3> QED
        BY <3>1, <3>2, Zenon
    <2> QED
      BY <2>2, Zenon
  <1>16. ASSUME ch \notin Punctuation \cup {" "} PROVE EndsIn(u) = EndsIn(t)
    <2>1. PartIn(u, z) /\ z \notin EndsIn(u)
      BY <1>2, <1>10, <1>16, Zenon
    <2>2. \A n : n \in EndsIn(u) <=> n \in EndsIn(t)
      BY <1>5, <1>9, <1>11, <2>1, Zenon
    <2> QED
      BY <2>2, Zenon
  <1>17. ASSUME InWord(t) PROVE EndsIn(t) \subseteq 1..(Len(t) - 1)
    <2>1. Len(t) \notin EndsIn(t)
      <3>1. PartIn(t, Len(t)) /\ ~(Len(t) < Len(t))
        BY <1>1, <1>17 DEF InWord
      <3> QED
        BY <3>1, Zenon DEF EndsIn, PartIn
    <2>2. \A n \in 1..Len(t) : n # Len(t) => n \in 1..(Len(t) - 1)
      BY <1>1
    <2> QED
      BY <1>11, <2>1, <2>2, Zenon
  <1> QED
    BY <1>11, <1>14, <1>15, <1>16, <1>17, Zenon DEF u, z

\* A character outside quotes: the word before it ends, or goes on.
LEMMA PlainStep ==
    ASSUME NEW t \in Seq(Chars), NEW l \in Lexers, NEW ch \in Chars, PlainRight(t, l),
           ch \notin {Quote, Backslash}
    PROVE  PlainRight(Append(t, ch), LexStep(l, ch))
  <1> DEFINE u == Append(t, ch)
             n == Len(t)
             z == n + 1
             toks == IF l.buffer = <<>> THEN l.tokens ELSE Append(l.tokens, l.buffer)
             new == LexStep(l, ch)
  <1>1. /\ u \in Seq(Chars) /\ n \in Nat /\ Len(u) = z /\ u[z] = ch
        /\ PartIn(u, z) <=> ch \notin Punctuation \cup {" "}
    BY LastRead
  <1>20. u \in Seq(Chars) /\ n \in Nat /\ Len(u) = z
    BY <1>1, Zenon
  <1>2. /\ l.tokens \in Seq(Seq(Chars)) /\ l.buffer \in Seq(Chars)
        /\ l.in_str = FALSE /\ l.buffer = SubSeq(t, FromIn(t, n), n)
        /\ Numbered(EndsIn(t), l.tokens, t)
    BY Zenon DEF PlainRight, Lexers
  <1>3. /\ EndsIn(t) \subseteq 1..n /\ (InWord(t) => EndsIn(t) \subseteq 1..(n - 1))
        /\ ch \in Punctuation => EndsIn(u) = WithWordEnd(t) \cup {z}
        /\ ch = " " => EndsIn(u) = WithWordEnd(t)
        /\ ch \notin Punctuation \cup {" "} => EndsIn(u) = EndsIn(t)
    BY EndsStep
  <1>4. \A k \in 1..n : /\ u[k] = t[k] /\ TokenIn(u, k) = TokenIn(t, k)
                        /\ PartIn(u, k) <=> PartIn(t, k)
                        /\ PartIn(t, k) => FromIn(t, k) \in 1..k
    BY PartsKept
  <1>15. InWord(t) <=> n >= 1 /\ PartIn(t, n)
    BY Zenon DEF InWord
  <1>16. WithWordEnd(t) = EndsIn(t) \cup (IF InWord(t) THEN {n} ELSE {})
    BY Zenon DEF WithWordEnd
  <1>17. t \in Seq(Chars) /\ Len(t) = n /\ z = n + 1 /\ n \in Nat /\ z \in Nat
    BY <1>20
  <1>18. \A m : m \in 1..z <=> m \in 1..n \/ m = z
    <2> HIDE DEF n, z
    <2> QED
      BY <1>17
  <1>19. /\ z \in 1..z /\ \A m \in 1..z : m <= z /\ m \in Int
         /\ n # 0 => n \in 1..n /\ n >= 1 /\ \A m \in 1..n : m <= n /\ m \in Int
         /\ n >= 1 => n \in 1..n
         /\ 1..(z - 1) = 1..n /\ \A m \in 0..n : m + 1 \in 1..z
    <2> HIDE DEF n, z
    <2> QED
      BY <1>17
  <1> HIDE DEF n, z, u
  <1>5. Numbered(EndsIn(t), l.tokens, u)
    BY <1>2, <1>3, <1>4, Zenon DEF Numbered
  <1>6. new = LexPlain(l, ch)
    BY <1>2, Zenon DEF LexStep
  <1>7. ASSUME ~InWord(t)
        PROVE  /\ FromIn(t, n) = z /\ l.buffer = <<>> /\ WithWordEnd(t) = EndsIn(t)
    <2>1. {m \in 1..n : ~PartIn(t, m)} \subseteq 1..n
      OBVIOUS
    <2>2. Largest({m \in 1..n : ~PartIn(t, m)}) = n
      <3>1. CASE n = 0
        <4>1. {m \in 1..n : ~PartIn(t, m)} = {}
          BY <3>1
        <4> QED
          BY <3>1, <4>1, LargestOfNone, Zenon
      <3>2. CASE n # 0
        <4> DEFINE S == {m \in 1..n : ~PartIn(t, m)}
        <4>1. n \in 1..n /\ n >= 1 /\ \A m \in 1..n : m <= n /\ m \in Int
          BY <1>19, <3>2, Zenon
        <4>2. n \in S
          BY <1>7, <1>15, <4>1, Zenon
        <4>3. S \subseteq Int /\ \A m \in S : m <= n
          BY <4>1, Zenon
        <4> HIDE DEF S
        <4>4. Largest(S) = n
          BY <4>2, <4>3, LargestFacts, Zenon
        <4> QED
          BY <4>4, Zenon DEF S
      <3> QED
        BY <3>1, <3>2, Zenon
    <2>3. FromIn(t, n) = z
      BY <1>17, <2>2, Zenon DEF FromIn
    <2>4. SubSeq(t, z, n) = <<>>
      BY <1>17
    <2>5. WithWordEnd(t) = EndsIn(t)
      BY <1>7, <1>16
    <2> QED
      BY <1>2, <2>3, <2>4, <2>5, Zenon
  <1>8. ASSUME InWord(t)
        PROVE  /\ n \in 1..n /\ PartIn(t, n) /\ FromIn(t, n) \in 1..n
               /\ l.buffer = TokenIn(t, n) /\ l.buffer # <<>>
               /\ WithWordEnd(t) = EndsIn(t) \cup {n}
    <2>1. n \in 1..n /\ PartIn(t, n)
      BY <1>8, <1>15, <1>19, Zenon
    <2>2. FromIn(t, n) \in 1..n
      BY <1>4, <2>1, Zenon
    <2>3. l.buffer = TokenIn(t, n)
      BY <1>2, <2>1, Zenon DEF TokenIn
    <2>4. \A a \in 1..n : SubSeq(t, a, n) # <<>>
      BY <1>17
    <2>5. l.buffer # <<>>
      BY <1>2, <2>2, <2>4, Zenon
    <2> QED
      BY <1>8, <1>16, <2>1, <2>2, <2>3, <2>5, Zenon
  <1>9. Numbered(WithWordEnd(t), toks, u)
    <2>1. CASE ~InWord(t)
      BY <1>5, <1>7, <2>1, Zenon
    <2>2. CASE InWord(t)
      <3>1. toks = Append(l.tokens, l.buffer) /\ l.buffer = TokenIn(u, n)
        BY <1>4, <1>8, <2>2, Zenon
      <3>2. n \in Nat /\ EndsIn(t) \subseteq 1..(n - 1)
        BY <1>1, <1>3, <2>2, Zenon
      <3> HIDE DEF toks
      <3>3. Numbered(EndsIn(t) \cup {n}, Append(l.tokens, l.buffer), u)
        BY <1>2, <1>5, <3>1, <3>2, NumberedMore, Zenon
      <3> QED
        BY <1>8, <2>2, <3>1, <3>3, Zenon
    <2> QED
      BY <2>1, <2>2, Zenon
  <1>10. toks \in Seq(Seq(Chars)) /\ WithWordEnd(t) \subseteq 1..n
    <2> DEFINE S == Seq(Chars)
    <2>1. l.tokens \in Seq(S) /\ l.buffer \in S
      BY <1>2
    <2> HIDE DEF S
    <2>2. Append(l.tokens, l.buffer) \in Seq(S)
      BY <2>1
    <2>3. toks \in Seq(S)
      BY <2>1, <2>2
    <2>4. WithWordEnd(t) \subseteq 1..n
      <3>1. CASE InWord(t)
        <4>1. WithWordEnd(t) = EndsIn(t) \cup {n} /\ n \in 1..n
          BY <1>8, <3>1, Zenon
        <4> QED
          BY <1>3, <4>1
      <3>2. CASE ~InWord(t)
        BY <1>3, <1>7, <3>2
      <3> QED
        BY <3>1, <3>2, Zenon
    <2> QED
      BY <2>3, <2>4 DEF S
  <1>11. ASSUME ~PartIn(u, z) PROVE SubSeq(u, FromIn(u, z), z) = <<>>
    <2> DEFINE S == {m \in 1..z : ~PartIn(u, m)}
    <2>1. z \in 1..z /\ \A m \in 1..z : m <= z /\ m \in Int
      BY <1>19, Zenon
    <2>2. z \in S /\ S \subseteq Int /\ \A m \in S : m <= z
      BY <1>11, <2>1, Zenon
    <2> HIDE DEF S
    <2>3. Largest(S) = z
      BY <2>2, LargestFacts, Zenon
    <2>4. FromIn(u, z) = z + 1
      BY <2>3, Zenon DEF FromIn, S
    <2>5. SubSeq(u, z + 1, z) = <<>>
      BY <1>17, <1>20
    <2> QED
      BY <2>4, <2>5, Zenon
  <1>12. CASE ch = " "
    <2>1. new = Flush(l, <<>>)
      <3>1. ch # Quote
        BY Zenon
      <3> QED
        <4>1. ch \notin Punctuation
          BY <1>12 DEF Punctuation
        <4>2. LexPlain(l, ch) = Flush(l, <<>>)
          BY <1>12, <3>1, <4>1, Zenon DEF LexPlain
        <4> QED
          BY <1>6, <4>2, Zenon
    <2>2. new.in_str = FALSE /\ new.buffer = <<>> /\ new.tokens = toks \o <<>>
      BY <1>2, <2>1 DEF Flush, Lexers
    <2>3. toks \o <<>> = toks
      <3> DEFINE S == Seq(Chars)
      <3>1. toks \in Seq(S)
        BY <1>10
      <3> HIDE DEF toks, S
      <3> QED
        BY <3>1
    <2>4. EndsIn(u) = WithWordEnd(t)
      BY <1>3, <1>12, Zenon
    <2>5. ~PartIn(u, z)
      BY <1>1, <1>12, Zenon
    <2> HIDE DEF new, toks
    <2>6. PlainRight(u, new)
      BY <1>1, <1>9, <1>11, <2>2, <2>3, <2>4, <2>5, Zenon DEF PlainRight
    <2> QED
      BY <2>6 DEF new, u
  <1>13. CASE ch \in Punctuation
    <2>1. new = Flush(l, <<<<ch>>>>)
      <3>1. ch # Quote /\ ch # " "
        BY <1>13 DEF Punctuation, Quote
      <3> QED
        BY <1>6, <1>13, <3>1 DEF LexPlain
    <2>2. new.in_str = FALSE /\ new.buffer = <<>> /\ new.tokens = toks \o <<<<ch>>>>
      BY <1>2, <2>1 DEF Flush, Lexers
    <2>3. toks \o <<<<ch>>>> = Append(toks, <<ch>>)
      <3> DEFINE S == Seq(Chars)
      <3>1. toks \in Seq(S) /\ <<ch>> \in S
        BY <1>10
      <3> HIDE DEF toks, S
      <3> QED
        BY <3>1
    <2>4. EndsIn(u) = WithWordEnd(t) \cup {z}
      BY <1>3, <1>13, Zenon
    <2>5. ~PartIn(u, z)
      BY <1>1, <1>13, Zenon
    <2>6. <<ch>> = TokenIn(u, z)
      <3>1. TokenIn(u, z) = SubSeq(u, z, z)
        BY <2>5, Zenon DEF TokenIn
      <3>2. SubSeq(u, z, z) = <<u[z]>>
        <4> DEFINE x == SubSeq(u, z, z)
                   y == <<u[z]>>
        <4>1. z \in 1..Len(u) /\ u[z] \in Chars
          BY <1>17, <1>20
        <4>2. x \in Seq(Chars) /\ Len(x) = 1 /\ x[1] = u[z]
          BY <1>17, <1>20, <4>1
        <4>3. y \in Seq(Chars) /\ Len(y) = 1 /\ y[1] = u[z]
          BY <4>1
        <4> HIDE DEF x, y
        <4>4. x = y
          BY <4>2, <4>3, SeqEqual
        <4> QED
          BY <4>4 DEF x, y
      <3> QED
        BY <1>1, <3>1, <3>2, Zenon
    <2>7. z \in Nat /\ WithWordEnd(t) \subseteq 1..(z - 1)
      BY <1>10, <1>17, <1>19, Zenon
    <2> HIDE DEF new, toks
    <2>8. Numbered(WithWordEnd(t) \cup {z}, Append(toks, <<ch>>), u)
      BY <1>9, <1>10, <2>6, <2>7, NumberedMore, Zenon
    <2>9. PlainRight(u, new)
      BY <1>1, <1>11, <2>2, <2>3, <2>4, <2>5, <2>8, Zenon DEF PlainRight
    <2> QED
      BY <2>9 DEF new, u
  <1>14. CASE ch \notin Punctuation \cup {" "}
    <2>1. new = [l EXCEPT !.buffer = Append(@, ch)]
      BY <1>6, <1>14, Zenon DEF LexPlain
    <2>2. new.in_str = FALSE /\ new.buffer = Append(l.buffer, ch) /\ new.tokens = l.tokens
      BY <1>2, <2>1 DEF Lexers
    <2>3. EndsIn(u) = EndsIn(t)
      BY <1>3, <1>14, Zenon
    <2>4. FromIn(u, z) = FromIn(t, n) /\ FromIn(t, n) \in 1..z
      <3>1. PartIn(u, z)
        BY <1>1, <1>14, Zenon
      <3>4. {m \in 1..z : ~PartIn(u, m)} = {m \in 1..n : ~PartIn(t, m)}
        BY <1>4, <1>18, <3>1, Zenon
      <3>5. Largest({m \in 1..n : ~PartIn(t, m)}) \in 0..n
        <4> DEFINE S == {m \in 1..n : ~PartIn(t, m)}
        <4>1. S \subseteq 1..n
          OBVIOUS
        <4> HIDE DEF S
        <4>2. Largest(S) \in 0..n
          BY <1>17, <4>1, LargestIn
        <4> QED
          BY <4>2 DEF S
      <3>6. FromIn(t, n) \in 1..z
        BY <1>19, <3>5, Zenon DEF FromIn
      <3> QED
        BY <3>4, <3>6, Zenon DEF FromIn
    <2>5. Append(SubSeq(t, FromIn(t, n), n), ch) = SubSeq(u, FromIn(t, n), z)
      <3> DEFINE a == FromIn(t, n)
      <3>1. a \in 1..z
        BY <2>4
      <3>2. \A k \in 1..n : u[k] = t[k]
        BY <1>4, Zenon
      <3> HIDE DEF a
      <3>3. Append(SubSeq(t, a, n), ch) = SubSeq(u, a, z)
        <4> DEFINE x == SubSeq(t, a, n)
                   y == SubSeq(u, a, z)
                   v == Append(x, ch)
        <4>1. x \in Seq(Chars) /\ Len(x) = z - a /\ \A k \in 1..(z - a) : x[k] = t[a + k - 1]
          BY <1>17, <3>1
        <4>2. y \in Seq(Chars) /\ Len(y) = z - a + 1
              /\ \A k \in 1..(z - a + 1) : y[k] = u[a + k - 1]
          BY <1>20, <1>17, <3>1
        <4>3. v \in Seq(Chars) /\ Len(v) = z - a + 1 /\ v[z - a + 1] = ch
              /\ \A k \in 1..(z - a) : v[k] = x[k]
          <5> HIDE DEF x
          <5> QED
            BY <1>17, <3>1, <4>1
        <4> HIDE DEF x, y, v
        <4>4. ASSUME NEW k \in 1..(z - a + 1) PROVE v[k] = y[k]
          <5>1. CASE k = z - a + 1
            <6>1. a + k - 1 = z
              BY <1>17, <3>1, <5>1
            <6> QED
              BY <1>1, <4>2, <4>3, <5>1, <6>1, Zenon
          <5>2. CASE k # z - a + 1
            <6>1. k \in 1..(z - a) /\ a + k - 1 \in 1..n
              BY <1>17, <3>1, <5>2
            <6> QED
              BY <3>2, <4>1, <4>2, <4>3, <6>1
          <5> QED
            BY <5>1, <5>2
        <4>5. v = y
          BY <4>2, <4>3, <4>4, SeqEqual
        <4> QED
          BY <4>5 DEF x, y, v
      <3> QED
        BY <3>3 DEF a
    <2> HIDE DEF new
    <2>6. PlainRight(u, new)
      BY <1>1, <1>2, <1>5, <2>2, <2>3, <2>4, <2>5, Zenon DEF PlainRight
    <2> QED
      BY <2>6 DEF new, u
  <1> QED
    BY <1>12, <1>13, <1>14, Zenon

\* What PlainTokensRight asks is what PlainRight says of the text.
LEMMA PlainIsRight ==
    ASSUME text \in Seq(Chars), phase = "lex" /\ ~Tricky(text) => PlainRight(text, lex)
    PROVE  PlainTokensRight
  <1> SUFFICES ASSUME phase = "lex", ~Tricky(text)
               PROVE  /\ Len(lex.tokens) = Cardinality(EndsIn(text))
                      /\ \A n \in EndsIn(text) :
                           lex.tokens[Cardinality({m \in EndsIn(text) : m <= n})] =
                             TokenIn(text, n)
    BY Zenon DEF PlainTokensRight, EndsIn, PartIn, TokenIn, FromIn
  <1>1. Numbered(EndsIn(text), lex.tokens, text)
    BY Zenon DEF PlainRight
  <1> QED
    BY <1>1, Zenon DEF Numbered, UpTo

\* A text that a character makes neither tricky nor is itself.
LEMMA PlainBefore ==
    ASSUME NEW t \in Seq(Chars), NEW ch \in Chars, ~Tricky(Append(t, ch))
    PROVE  ~Tricky(t) /\ ch \notin {Quote, Backslash}
  <1> DEFINE u == Append(t, ch)
  <1>1. Len(t) \in Nat /\ Len(u) = Len(t) + 1 /\ u[Len(t) + 1] = ch
    BY LastRead
  <1>2. \A n \in 1..Len(t) : u[n] = t[n]
    BY PartsKept
  <1>3. ~Tricky(u)
    OBVIOUS
  <1> HIDE DEF u
  <1>4. \A n \in 1..Len(t) : n \in 1..Len(u)
    BY <1>1
  <1>5. Len(t) + 1 \in 1..Len(u)
    BY <1>1
  <1>6. ~Tricky(t)
    BY <1>2, <1>3, <1>4, Zenon DEF Tricky
  <1>7. u[Len(t) + 1] \notin {Quote, Backslash}
    BY <1>3, <1>5, Zenon DEF Tricky
  <1> QED
    BY <1>1, <1>6, <1>7, Zenon

\* Nothing is read yet, and nothing lexed.
LEMMA LexStarts == Init => LexInv
  <1> SUFFICES ASSUME Init PROVE LexInv
    OBVIOUS
  <1>1. text = <<>> /\ lex = [in_str |-> FALSE, escape |-> FALSE, buffer |-> <<>>, tokens |-> <<>>]
    BY Zenon DEF Init
  <1>2. text \in Seq(Chars) /\ Len(text) = 0
    BY <1>1
  <1>3. lex \in Lexers
    <2>1. <<>> \in Seq(Chars) /\ <<>> \in Seq(Seq(Chars))
      OBVIOUS
    <2> QED
      BY <1>1, <2>1 DEF Lexers
  <1>4. PlainRight(text, lex)
    <2>1. EndsIn(text) = {}
      <3>1. 1..Len(text) = {}
        BY <1>2
      <3> QED
        BY <3>1, Zenon DEF EndsIn
    <2>2. Numbered({}, lex.tokens, text)
      <3>1. Len(lex.tokens) = 0
        BY <1>1
      <3>2. Cardinality({}) = 0
        BY FS_EmptySet
      <3> QED
        BY <3>1, <3>2, Zenon DEF Numbered
    <2>3. FromIn(text, 0) = 1
      <3>1. {m \in 1..0 : ~PartIn(text, m)} = {}
        <4>1. 1..0 = {}
          OBVIOUS
        <4> QED
          BY <4>1, Zenon
      <3> QED
        BY <3>1, LargestOfNone DEF FromIn
    <2>4. lex.buffer = SubSeq(text, 1, 0) /\ lex.in_str = FALSE
      <3>1. SubSeq(text, 1, 0) = <<>>
        BY <1>2
      <3>2. lex.buffer = <<>> /\ lex.in_str = FALSE
        BY <1>1
      <3> QED
        BY <3>1, <3>2, Zenon
    <2> QED
      BY <1>2, <2>1, <2>2, <2>3, <2>4, Zenon DEF PlainRight
  <1> QED
    BY <1>2, <1>3, <1>4, Zenon DEF LexInv

\* Every step keeps that: only ReadChar reads.
LEMMA LexNext == LexInv /\ [Next]_vars => LexInv'
  <1> SUFFICES ASSUME LexInv, [Next]_vars, phase' \in {"idle", "lex"} PROVE LexInv'
    BY Zenon DEF LexInv
  <1>1. ASSUME NEW ch \in Chars, ReadChar(ch) PROVE LexInv'
    <2>1. phase \in {"idle", "lex"} /\ text' = Append(text, ch) /\ lex' = LexStep(lex, ch)
      BY <1>1, Zenon DEF ReadChar
    <2>2. text \in Seq(Chars) /\ lex \in Lexers /\ (~Tricky(text) => PlainRight(text, lex))
      BY <2>1, Zenon DEF LexInv
    <2>3. text' \in Seq(Chars) /\ lex' \in Lexers
      BY <2>1, <2>2, LastRead, LexKeeps
    <2>4. ~Tricky(text') => PlainRight(text', lex')
      <3> SUFFICES ASSUME ~Tricky(text') PROVE PlainRight(text', lex')
        OBVIOUS
      <3>1. ~Tricky(text) /\ ch \notin {Quote, Backslash}
        BY <2>1, <2>2, PlainBefore, Zenon
      <3> QED
        BY <2>1, <2>2, <3>1, PlainStep, Zenon
    <2> QED
      BY <2>3, <2>4, Zenon DEF LexInv
  <1>2. ASSUME UNCHANGED vars PROVE LexInv'
    BY <1>2, Zenon DEF LexInv, vars
  <1>3. ~LoadEmpty /\ ~ReadEnd
    BY DEF LoadEmpty, ReadEnd
  <1>4. ~Analyse
    <2>1. /\ "words" \notin {"idle", "lex"} /\ "OK" \notin {"idle", "lex"}
          /\ "WrongGrammar" \notin {"idle", "lex"}
      OBVIOUS
    <2>2. Analyse => phase' \in {phase, "OK", "WrongGrammar"} /\ phase = "words"
      BY DEF Analyse, OpenBlock, CloseBlock, EndNode, SkipSemicolon, Word, Finish, Fails, Takes
    <2> QED
      BY <2>1, <2>2
  <1> QED
    BY <1>1, <1>2, <1>3, <1>4, Zenon DEF Next

-----------------------------------------------------------------------------
(* A value in quotes *)

Mark(ch) == IF ch \in {Quote, Backslash} THEN <<Backslash>> ELSE <<>>
Marking(w, e) ==
    e = [n \in 0..Len(w) |-> IF n = 0 THEN <<>> ELSE e[n - 1] \o Mark(w[n]) \o <<w[n]>>]
NoWord == [in_str |-> FALSE, escape |-> FALSE, buffer |-> <<>>, tokens |-> <<>>]
Reading(w, l) ==
    l = [n \in 0..Len(w) |-> IF n = 0 THEN NoWord ELSE LexStep(l[n - 1], w[n])]

\* The lexer reads every text, one step for each character.
LEMMA LexedSteps ==
    ASSUME NEW w \in Seq(Chars)
    PROVE  \E l \in [0..Len(w) -> Lexers] :
             /\ Lexed(w) = l[Len(w)].tokens /\ l[0] = NoWord
             /\ \A n \in 1..Len(w) : l[n] = LexStep(l[n - 1], w[n])
  <1> DEFINE N == Len(w)
             G == [n \in 1..N |-> [l \in Lexers |-> LexStep(l, w[n])]]
  <1>1. N \in Nat /\ \A n \in 1..N : w[n] \in Chars
    OBVIOUS
  <1>2. NoWord \in Lexers
    <2>1. <<>> \in Seq(Chars) /\ <<>> \in Seq(Seq(Chars))
      OBVIOUS
    <2> QED
      BY <2>1 DEF Lexers, NoWord
  <1>3. \A n \in 1..N, l \in Lexers : LexStep(l, w[n]) \in Lexers
    BY <1>1, LexKeeps
  <1>4. G \in [1..N -> [Lexers -> Lexers]]
    BY <1>3
  <1>5. \A n \in 1..N, l \in Lexers : G[n][l] = LexStep(l, w[n])
    OBVIOUS
  <1> HIDE DEF G, N
  <1>6. PICK f \in [0..N -> Lexers] : Follows(f, NoWord, N, G)
    BY <1>1, <1>2, <1>4, Recursion, Zenon
  <1> DEFINE E(l) == [n \in 0..N |-> IF n = 0 THEN NoWord ELSE LexStep(l[n - 1], w[n])]
  <1>7. ASSUME NEW n \in 0..N PROVE f[n] = E(f)[n]
    <2>1. CASE n = 0
      BY <1>6, <2>1 DEF Follows
    <2>2. CASE n # 0
      <3>1. n \in 1..N /\ n - 1 \in 0..N
        BY <1>1, <2>2
      <3>2. f[n] = LexStep(f[n - 1], w[n])
        BY <1>5, <1>6, <3>1 DEF Follows
      <3>3. E(f)[n] = LexStep(f[n - 1], w[n])
        BY <2>2
      <3> QED
        BY <3>2, <3>3, Zenon
    <2> QED
      BY <2>1, <2>2
  <1>8. f = E(f)
    BY <1>7
  <1>9. \E l : Reading(w, l)
    BY <1>8, Zenon DEF Reading, N
  <1> DEFINE l == CHOOSE l : Reading(w, l)
  <1>10. Reading(w, l)
    BY <1>9, Zenon
  <1>11. Lexed(w) = l[N].tokens
    BY DEF Lexed, Reading, NoWord, N
  <1> HIDE DEF l
  <1>12. l = E(l)
    BY <1>10, Zenon DEF Reading, N
  <1>13. E(l)[0] = NoWord /\ \A n \in 1..N : E(l)[n] = LexStep(l[n - 1], w[n])
    BY <1>1
  <1>14. l[0] = NoWord /\ \A n \in 1..N : l[n] = LexStep(l[n - 1], w[n])
    <2> HIDE DEF E
    <2> QED
      BY <1>12, <1>13
  <1>15. \A n \in 0..N : l[n] \in Lexers
    <2> DEFINE T == {n \in 0..N : l[n] \notin Lexers}
    <2>1. SUFFICES ASSUME T # {} PROVE FALSE
      BY Zenon
    <2>2. PICK m \in T : \A y \in T : m <= y
      <3>1. T \subseteq Nat
        BY <1>1
      <3> HIDE DEF T
      <3> QED
        BY <2>1, <3>1, LeastOf, Zenon
    <2>3. m \in 0..N /\ l[m] \notin Lexers
      BY Zenon
    <2>4. m # 0
      BY <1>2, <1>14, <2>3, Zenon
    <2>5. m \in 1..N /\ m - 1 \in 0..N /\ ~(m <= m - 1)
      BY <1>1, <2>3, <2>4
    <2>6. l[m - 1] \in Lexers
      BY <2>2, <2>5
    <2> HIDE DEF T
    <2> QED
      BY <1>3, <1>14, <2>3, <2>5, <2>6, Zenon
  <1>16. l \in [0..N -> Lexers]
    BY <1>12, <1>15
  <1> QED
    BY <1>11, <1>14, <1>16 DEF N

\* Escaped adds one character of the value after the other, with its mark.
EscapedBy(w, e) ==
    /\ e[0] = <<>> /\ \A n \in 0..Len(w) : e[n] \in Seq(Chars)
    /\ \A n \in 1..Len(w) : e[n] = e[n - 1] \o Mark(w[n]) \o <<w[n]>>

LEMMA EscapedSteps ==
    ASSUME NEW w \in Seq(Chars)
    PROVE  \E e : Escaped(w) = e[Len(w)] /\ EscapedBy(w, e)
  <1> DEFINE N == Len(w)
             M(s, n) == s \o Mark(w[n]) \o <<w[n]>>
             G == [n \in 1..N |-> [s \in Seq(Chars) |-> M(s, n)]]
  <1>1. N \in Nat /\ \A n \in 1..N : w[n] \in Chars
    OBVIOUS
  <1>2. <<>> \in Seq(Chars)
    OBVIOUS
  <1>3. \A n \in 1..N, s \in Seq(Chars) : M(s, n) \in Seq(Chars)
    <2> SUFFICES ASSUME NEW n \in 1..N, NEW s \in Seq(Chars) PROVE M(s, n) \in Seq(Chars)
      OBVIOUS
    <2>1. Mark(w[n]) \in Seq(Chars)
      <3>1. Backslash \in Chars
        BY DEF Chars, QuotedChars
      <3>2. <<Backslash>> \in Seq(Chars)
        BY <3>1
      <3> QED
        BY <1>2, <3>2, Zenon DEF Mark
    <2>2. <<w[n]>> \in Seq(Chars)
      BY <1>1
    <2> QED
      BY <2>1, <2>2
  <1> HIDE DEF M
  <1>4. G \in [1..N -> [Seq(Chars) -> Seq(Chars)]]
    BY <1>3
  <1>5. \A n \in 1..N, s \in Seq(Chars) : G[n][s] = M(s, n)
    OBVIOUS
  <1> HIDE DEF G, N
  <1>6. PICK f \in [0..N -> Seq(Chars)] : Follows(f, <<>>, N, G)
    BY <1>1, <1>2, <1>4, Recursion, Zenon
  <1> DEFINE E(e) == [n \in 0..N |-> IF n = 0 THEN <<>> ELSE M(e[n - 1], n)]
  <1>7. ASSUME NEW n \in 0..N PROVE f[n] = E(f)[n]
    <2>1. CASE n = 0
      BY <1>6, <2>1 DEF Follows
    <2>2. CASE n # 0
      <3>1. n \in 1..N /\ n - 1 \in 0..N
        BY <1>1, <2>2
      <3>2. f[n] = M(f[n - 1], n)
        BY <1>5, <1>6, <3>1 DEF Follows
      <3>3. E(f)[n] = M(f[n - 1], n)
        BY <2>2
      <3> QED
        BY <3>2, <3>3, Zenon
    <2> QED
      BY <2>1, <2>2
  <1>8. f = E(f)
    BY <1>7
  <1>9. \E e : Marking(w, e)
    BY <1>8, Zenon DEF Marking, N, M
  <1> DEFINE e == CHOOSE e : Marking(w, e)
  <1>10. Marking(w, e)
    BY <1>9, Zenon
  <1>11. Escaped(w) = e[N]
    BY DEF Escaped, Marking, Mark, N
  <1> HIDE DEF e
  <1>12. e = E(e)
    BY <1>10, Zenon DEF Marking, N, M
  <1>13. E(e)[0] = <<>> /\ \A n \in 1..N : E(e)[n] = M(e[n - 1], n)
    BY <1>1
  <1>14. e[0] = <<>> /\ \A n \in 1..N : e[n] = M(e[n - 1], n)
    <2> HIDE DEF E
    <2> QED
      BY <1>12, <1>13
  <1>15. \A n \in 0..N : e[n] \in Seq(Chars)
    <2> DEFINE T == {n \in 0..N : e[n] \notin Seq(Chars)}
    <2>1. SUFFICES ASSUME T # {} PROVE FALSE
      BY Zenon
    <2>2. PICK m \in T : \A y \in T : m <= y
      <3>1. T \subseteq Nat
        BY <1>1
      <3> HIDE DEF T
      <3> QED
        BY <2>1, <3>1, LeastOf, Zenon
    <2>3. m \in 0..N /\ e[m] \notin Seq(Chars)
      BY Zenon
    <2>4. m # 0
      BY <1>2, <1>14, <2>3, Zenon
    <2>5. m \in 1..N /\ m - 1 \in 0..N /\ ~(m <= m - 1)
      BY <1>1, <2>3, <2>4
    <2>6. e[m - 1] \in Seq(Chars)
      BY <2>2, <2>5
    <2> HIDE DEF T
    <2> QED
      BY <1>3, <1>14, <2>3, <2>5, <2>6, Zenon
  <1>16. EscapedBy(w, e)
    BY <1>14, <1>15, Zenon DEF EscapedBy, M, N
  <1> QED
    BY <1>11, <1>16 DEF N

\* What one character of the value adds.
LEMMA MarkStep ==
    ASSUME NEW w \in Seq(Chars), NEW e, EscapedBy(w, e), NEW n \in 1..Len(w)
    PROVE  /\ \A k \in 1..Len(e[n - 1]) : e[n][k] = e[n - 1][k]
           /\ w[n] \in {Quote, Backslash} =>
                /\ Len(e[n]) = Len(e[n - 1]) + 2
                /\ e[n][Len(e[n - 1]) + 1] = Backslash /\ e[n][Len(e[n - 1]) + 2] = w[n]
           /\ w[n] \notin {Quote, Backslash} =>
                Len(e[n]) = Len(e[n - 1]) + 1 /\ e[n][Len(e[n - 1]) + 1] = w[n]
  <1> DEFINE s == e[n - 1]
             ch == w[n]
  <1>1. n - 1 \in 0..Len(w) /\ ch \in Chars
    OBVIOUS
  <1>2. s \in Seq(Chars) /\ e[n] = s \o Mark(ch) \o <<ch>>
    BY <1>1, Zenon DEF EscapedBy
  <1>3. Backslash \in Chars
    BY DEF Chars, QuotedChars
  <1> HIDE DEF s, ch
  <1>4. CASE ch \in {Quote, Backslash}
    <2>1. e[n] = s \o <<Backslash>> \o <<ch>>
      BY <1>2, <1>4 DEF Mark
    <2>2. /\ Len(s \o <<Backslash>> \o <<ch>>) = Len(s) + 2
          /\ (s \o <<Backslash>> \o <<ch>>)[Len(s) + 1] = Backslash
          /\ (s \o <<Backslash>> \o <<ch>>)[Len(s) + 2] = ch
          /\ \A k \in 1..Len(s) : (s \o <<Backslash>> \o <<ch>>)[k] = s[k]
      BY <1>1, <1>2, <1>3
    <2> QED
      BY <1>4, <2>1, <2>2, Zenon DEF s, ch
  <1>5. CASE ch \notin {Quote, Backslash}
    <2>1. e[n] = s \o <<>> \o <<ch>>
      BY <1>2, <1>5 DEF Mark
    <2>2. /\ Len(s \o <<>> \o <<ch>>) = Len(s) + 1
          /\ (s \o <<>> \o <<ch>>)[Len(s) + 1] = ch
          /\ \A k \in 1..Len(s) : (s \o <<>> \o <<ch>>)[k] = s[k]
      BY <1>1, <1>2
    <2> QED
      BY <1>5, <2>1, <2>2, Zenon DEF s, ch
  <1> QED
    BY <1>4, <1>5, Zenon

\* What is written stays in front of what is added.
Begins(s, t) == Len(s) <= Len(t) /\ \A k \in 1..Len(s) : t[k] = s[k]

LEMMA EscapedBegins ==
    ASSUME NEW w \in Seq(Chars), NEW e, EscapedBy(w, e), NEW n \in 0..Len(w)
    PROVE  Begins(e[n], e[Len(w)])
  <1> DEFINE N == Len(w)
             T == {m \in n..N : ~Begins(e[n], e[m])}
  <1>1. N \in Nat /\ N \in n..N
    OBVIOUS
  <1>2. SUFFICES ASSUME T # {} PROVE FALSE
    BY <1>1, Zenon
  <1>3. \A m \in 0..N : e[m] \in Seq(Chars)
    BY Zenon DEF EscapedBy
  <1>4. PICK m \in T : \A y \in T : m <= y
    <2>1. T \subseteq Nat
      BY <1>1
    <2> HIDE DEF T
    <2> QED
      BY <1>2, <2>1, LeastOf, Zenon
  <1>5. m \in n..N /\ ~Begins(e[n], e[m])
    BY Zenon
  <1>6. m # n
    <2>1. Len(e[n]) <= Len(e[n])
      BY <1>3
    <2> QED
      BY <1>5, <2>1, Zenon DEF Begins
  <1>7. m \in 1..N /\ m - 1 \in n..N /\ ~(m <= m - 1) /\ m - 1 \in 0..N /\ m \in 0..N
    BY <1>1, <1>5, <1>6
  <1>8. Begins(e[n], e[m - 1])
    BY <1>4, <1>7
  <1> HIDE DEF T
  <1>9. Len(e[m - 1]) <= Len(e[m]) /\ \A k \in 1..Len(e[m - 1]) : e[m][k] = e[m - 1][k]
    <2>1. /\ \A k \in 1..Len(e[m - 1]) : e[m][k] = e[m - 1][k]
          /\ Len(e[m]) = Len(e[m - 1]) + 2 \/ Len(e[m]) = Len(e[m - 1]) + 1
      BY <1>7, MarkStep
    <2>2. Len(e[m - 1]) \in Nat
      BY <1>3, <1>7
    <2> QED
      BY <2>1, <2>2
  <1>10. Begins(e[n], e[m])
    <2> DEFINE a == Len(e[n])
               b == Len(e[m - 1])
               c == Len(e[m])
    <2>1. a \in Nat /\ b \in Nat /\ c \in Nat
      BY <1>3, <1>7
    <2>2. a <= b /\ b <= c
      BY <1>8, <1>9, Zenon DEF Begins
    <2> HIDE DEF a, b, c
    <2>3. a <= c /\ \A k \in 1..a : k \in 1..b
      BY <2>1, <2>2
    <2> QED
      BY <1>8, <1>9, <2>3, Zenon DEF Begins, a, b, c
  <1> QED
    BY <1>5, <1>10, Zenon

-----------------------------------------------------------------------------
(* What the lexer does with the value that is written *)

InQuotes(b) == [in_str |-> TRUE, escape |-> FALSE, buffer |-> b, tokens |-> <<>>]
HasRead(toks) == [in_str |-> FALSE, escape |-> FALSE, buffer |-> <<>>, tokens |-> toks]

\* A state of the lexer is what it consists of.
LEMMA LexersEqual ==
    ASSUME NEW x \in Lexers, NEW y \in Lexers, x.in_str = y.in_str, x.escape = y.escape,
           x.buffer = y.buffer, x.tokens = y.tokens
    PROVE  x = y
  BY DEF Lexers

\* The states of the lexer that the proof names, field by field.
LEMMA LexerValues ==
    /\ NoWord \in Lexers /\ NoWord.in_str = FALSE /\ NoWord.escape = FALSE
    /\ NoWord.buffer = <<>> /\ NoWord.tokens = <<>>
    /\ \A b \in Seq(Chars) :
         /\ InQuotes(b) \in Lexers /\ InQuotes(b).in_str = TRUE /\ InQuotes(b).escape = FALSE
         /\ InQuotes(b).buffer = b /\ InQuotes(b).tokens = <<>>
    /\ \A w \in Seq(Chars) :
         /\ HasRead(<<w>>) \in Lexers /\ HasRead(<<w>>).in_str = FALSE
         /\ HasRead(<<w>>).escape = FALSE /\ HasRead(<<w>>).buffer = <<>>
         /\ HasRead(<<w>>).tokens = <<w>>
  <1>1. <<>> \in Seq(Chars) /\ <<>> \in Seq(Seq(Chars))
    OBVIOUS
  <1>2. ASSUME NEW w \in Seq(Chars) PROVE <<w>> \in Seq(Seq(Chars))
    <2> DEFINE S == Seq(Chars)
    <2>1. w \in S
      OBVIOUS
    <2> HIDE DEF S
    <2>2. <<w>> \in Seq(S)
      BY <2>1
    <2> QED
      BY <2>2 DEF S
  <1>3. /\ NoWord \in Lexers /\ NoWord.in_str = FALSE /\ NoWord.escape = FALSE
        /\ NoWord.buffer = <<>> /\ NoWord.tokens = <<>>
    BY <1>1 DEF NoWord, Lexers
  <1>4. ASSUME NEW b \in Seq(Chars)
        PROVE  /\ InQuotes(b) \in Lexers /\ InQuotes(b).in_str = TRUE
               /\ InQuotes(b).escape = FALSE
               /\ InQuotes(b).buffer = b /\ InQuotes(b).tokens = <<>>
    BY <1>1 DEF InQuotes, Lexers
  <1>5. ASSUME NEW w \in Seq(Chars)
        PROVE  /\ HasRead(<<w>>) \in Lexers /\ HasRead(<<w>>).in_str = FALSE
               /\ HasRead(<<w>>).escape = FALSE /\ HasRead(<<w>>).buffer = <<>>
               /\ HasRead(<<w>>).tokens = <<w>>
    <2> DEFINE t == <<w>>
    <2>1. t \in Seq(Seq(Chars))
      BY <1>2
    <2> HIDE DEF t
    <2>2. /\ HasRead(t) \in Lexers /\ HasRead(t).in_str = FALSE
          /\ HasRead(t).escape = FALSE /\ HasRead(t).buffer = <<>>
          /\ HasRead(t).tokens = t
      BY <1>1, <2>1 DEF HasRead, Lexers
    <2> QED
      BY <2>2 DEF t
  <1> QED
    BY <1>3, <1>4, <1>5, Zenon

\* The steps between the quotes.
LEMMA QuoteOpens == LexStep(NoWord, Quote) = InQuotes(<<>>)
  <1> DEFINE x == LexStep(NoWord, Quote)
             y == InQuotes(<<>>)
  <1>1. Quote \in Chars /\ <<>> \in Seq(Chars)
    BY DEF Chars, QuotedChars
  <1>2. x \in Lexers
    BY <1>1, LexerValues, LexKeeps, Zenon
  <1>3. x = [NoWord EXCEPT !.in_str = TRUE]
    <2>1. x = LexPlain(NoWord, Quote)
      BY LexerValues, Zenon DEF LexStep
    <2>2. Quote # " " /\ Quote \notin Punctuation
      BY DEF Quote, Punctuation
    <2> QED
      BY <2>1, <2>2, Zenon DEF LexPlain
  <1>4. x.in_str = TRUE /\ x.escape = FALSE /\ x.buffer = <<>> /\ x.tokens = <<>>
    BY <1>3, LexerValues DEF Lexers
  <1> HIDE DEF x
  <1>5. /\ y \in Lexers /\ y.in_str = TRUE /\ y.escape = FALSE
        /\ y.buffer = <<>> /\ y.tokens = <<>>
    BY <1>1, LexerValues, Zenon
  <1> HIDE DEF y
  <1>6. x = y
    BY <1>2, <1>4, <1>5, LexersEqual
  <1> QED
    BY <1>6, Zenon DEF x, y

\* A character that needs no mark.
LEMMA QuotedStep ==
    ASSUME NEW b \in Seq(Chars), NEW ch \in Chars, ch \notin {Quote, Backslash}
    PROVE  LexStep(InQuotes(b), ch) = InQuotes(Append(b, ch))
  <1> DEFINE q == InQuotes(b)
             x == LexStep(q, ch)
             c == Append(b, ch)
             y == InQuotes(c)
  <1>1. /\ q \in Lexers /\ q.in_str = TRUE /\ q.escape = FALSE
        /\ q.buffer = b /\ q.tokens = <<>>
    BY LexerValues, Zenon
  <1> HIDE DEF q
  <1>2. x \in Lexers
    BY <1>1, LexKeeps
  <1>3. x = [q EXCEPT !.buffer = Append(@, ch)]
    <2>1. x = LexQuoted(q, ch)
      BY <1>1, Zenon DEF LexStep
    <2> QED
      BY <2>1, Zenon DEF LexQuoted
  <1>4. x.in_str = TRUE /\ x.escape = FALSE /\ x.buffer = c /\ x.tokens = <<>>
    BY <1>1, <1>3 DEF Lexers
  <1>5. c \in Seq(Chars)
    OBVIOUS
  <1> HIDE DEF x, c
  <1>6. y \in Lexers /\ y.in_str = TRUE /\ y.escape = FALSE /\ y.buffer = c /\ y.tokens = <<>>
    BY <1>5, LexerValues, Zenon
  <1> HIDE DEF y
  <1>7. x = y
    BY <1>2, <1>4, <1>6, LexersEqual
  <1> QED
    BY <1>7, Zenon DEF x, y, c, q

\* A marked one: the mark is gone, the character stays.
LEMMA EscapedStep ==
    ASSUME NEW b \in Seq(Chars), NEW ch \in {Quote, Backslash}
    PROVE  LexStep(LexStep(InQuotes(b), Backslash), ch) = InQuotes(Append(b, ch))
  <1> DEFINE q == InQuotes(b)
             m == LexStep(q, Backslash)
             x == LexStep(m, ch)
             c == Append(b, ch)
             y == InQuotes(c)
  <1>1. /\ q \in Lexers /\ q.in_str = TRUE /\ q.escape = FALSE
        /\ q.buffer = b /\ q.tokens = <<>>
    BY LexerValues, Zenon
  <1> HIDE DEF q
  <1>2. Backslash \in Chars /\ ch \in Chars
    BY DEF Chars, QuotedChars
  <1>3. m \in Lexers
    BY <1>1, <1>2, LexKeeps
  <1>4. m = [q EXCEPT !.escape = TRUE]
    <2>1. m = LexQuoted(q, Backslash)
      BY <1>1, Zenon DEF LexStep
    <2>2. Backslash # Quote
      BY DEF Quote, Backslash
    <2> QED
      BY <2>1, <2>2, Zenon DEF LexQuoted
  <1>5. m.in_str = TRUE /\ m.escape = TRUE /\ m.buffer = b /\ m.tokens = <<>>
    BY <1>1, <1>4 DEF Lexers
  <1> HIDE DEF m
  <1>6. x \in Lexers
    BY <1>2, <1>3, LexKeeps
  <1>7. x = [m EXCEPT !.escape = FALSE, !.buffer = @ \o <<ch>>]
    <2>1. x = LexEscaped(m, ch)
      BY <1>5, Zenon DEF LexStep
    <2>2. ch \in {Backslash, Quote}
      BY Zenon
    <2> QED
      BY <2>1, <2>2, Zenon DEF LexEscaped
  <1>8. x.in_str = TRUE /\ x.escape = FALSE /\ x.buffer = b \o <<ch>> /\ x.tokens = <<>>
    <2> DEFINE d == m.buffer \o <<ch>>
    <2>1. x = [m EXCEPT !.escape = FALSE, !.buffer = d]
      BY <1>7, Zenon
    <2>2. d = b \o <<ch>>
      BY <1>5, Zenon
    <2> HIDE DEF d, x
    <2>3. x.in_str = m.in_str /\ x.escape = FALSE /\ x.buffer = d /\ x.tokens = m.tokens
      BY <1>3, <2>1 DEF Lexers
    <2> QED
      BY <1>5, <2>2, <2>3, Zenon
  <1>9. c \in Seq(Chars) /\ b \o <<ch>> = c
    BY <1>2
  <1> HIDE DEF x, c
  <1>10. y \in Lexers /\ y.in_str = TRUE /\ y.escape = FALSE /\ y.buffer = c /\ y.tokens = <<>>
    BY <1>9, LexerValues, Zenon
  <1> HIDE DEF y
  <1>11. x = y
    BY <1>6, <1>8, <1>9, <1>10, LexersEqual
  <1> QED
    BY <1>11, Zenon DEF x, y, c, m, q

\* The second quote: both belong to the token.
LEMMA QuoteCloses ==
    ASSUME NEW b \in Seq(Chars)
    PROVE  LexStep(InQuotes(b), Quote) = HasRead(<<<<Quote>> \o b \o <<Quote>>>>)
  <1> DEFINE q == InQuotes(b)
             x == LexStep(q, Quote)
             w == <<Quote>> \o b \o <<Quote>>
             y == HasRead(<<w>>)
  <1>1. /\ q \in Lexers /\ q.in_str = TRUE /\ q.escape = FALSE
        /\ q.buffer = b /\ q.tokens = <<>>
    BY LexerValues, Zenon
  <1> HIDE DEF q
  <1>2. Quote \in Chars /\ Quote # Backslash
    BY DEF Chars, QuotedChars, Quote, Backslash
  <1>3. x \in Lexers
    BY <1>1, <1>2, LexKeeps
  <1>4. w \in Seq(Chars)
    BY <1>2
  <1>5. x = [q EXCEPT !.in_str = FALSE, !.buffer = <<>>, !.tokens = Append(@, w)]
    <2>1. x = LexQuoted(q, Quote)
      BY <1>1, Zenon DEF LexStep
    <2>2. w = <<Quote>> \o q.buffer \o <<Quote>>
      BY <1>1, Zenon
    <2> QED
      BY <1>2, <2>1, <2>2, Zenon DEF LexQuoted
  <1> HIDE DEF w
  <1>6. x.in_str = FALSE /\ x.escape = FALSE /\ x.buffer = <<>> /\ x.tokens = <<w>>
    <2> DEFINE d == Append(q.tokens, w)
    <2>1. x = [q EXCEPT !.in_str = FALSE, !.buffer = <<>>, !.tokens = d]
      BY <1>5, Zenon
    <2>2. d = <<w>>
      <3>1. Append(<<>>, w) = <<w>>
        OBVIOUS
      <3> QED
        BY <1>1, <3>1, Zenon
    <2> HIDE DEF d, x
    <2>3. x.in_str = FALSE /\ x.escape = q.escape /\ x.buffer = <<>> /\ x.tokens = d
      BY <1>1, <2>1 DEF Lexers
    <2> QED
      BY <1>1, <2>2, <2>3, Zenon
  <1> HIDE DEF x
  <1>7. /\ y \in Lexers /\ y.in_str = FALSE /\ y.escape = FALSE
        /\ y.buffer = <<>> /\ y.tokens = <<w>>
    BY <1>4, LexerValues, Zenon
  <1> HIDE DEF y
  <1>8. x = y
    BY <1>3, <1>6, <1>7, LexersEqual, Zenon
  <1> QED
    BY <1>8, Zenon DEF x, y, w, q

\* The semicolon behind it is the next token.
LEMMA SemicolonEnds ==
    ASSUME NEW w \in Seq(Chars)
    PROVE  LexStep(HasRead(<<w>>), ";").tokens = <<w, <<";">>>>
  <1> DEFINE h == HasRead(<<w>>)
  <1>1. h \in Lexers /\ h.in_str = FALSE /\ h.buffer = <<>> /\ h.tokens = <<w>>
    BY LexerValues, Zenon
  <1> HIDE DEF h
  <1>2. LexStep(h, ";") = LexPlain(h, ";")
    BY <1>1, Zenon DEF LexStep
  <1>3. LexPlain(h, ";") = Flush(h, <<<<";">>>>)
    BY DEF LexPlain, Punctuation, Quote
  <1>4. Flush(h, <<<<";">>>>).tokens = <<w>> \o <<<<";">>>>
    <2> DEFINE d == <<<<";">>>>
    <2> HIDE DEF d
    <2>1. Flush(h, d) = [h EXCEPT !.tokens = h.tokens \o d, !.buffer = <<>>]
      BY <1>1, Zenon DEF Flush
    <2>2. Flush(h, d).tokens = h.tokens \o d
      BY <1>1, <2>1 DEF Lexers
    <2> QED
      BY <1>1, <2>2, Zenon DEF d
  <1>5. <<w>> \o <<<<";">>>> = <<w, <<";">>>>
    <2> DEFINE c == ";"
               y == <<c>>
               S == Seq(Chars)
               v == <<w>> \o <<y>>
               z == <<w, y>>
    <2>1. c \in Chars
      BY DEF Chars, QuotedChars, Punctuation
    <2> HIDE DEF c
    <2>2. y \in S
      BY <2>1
    <2>3. w \in S
      OBVIOUS
    <2> HIDE DEF y, S
    <2>4. v \in Seq(S) /\ Len(v) = 2 /\ v[1] = w /\ v[2] = y
      BY <2>2, <2>3
    <2>5. z \in Seq(S) /\ Len(z) = 2 /\ z[1] = w /\ z[2] = y
      BY <2>2, <2>3
    <2> HIDE DEF v, z
    <2>6. \A k \in 1..Len(v) : v[k] = z[k]
      <3>1. \A k \in 1..2 : k = 1 \/ k = 2
        OBVIOUS
      <3> QED
        BY <2>4, <2>5, <3>1
    <2>7. v = z
      BY <2>4, <2>5, <2>6, SeqEqual
    <2> QED
      BY <2>7 DEF v, z, y, c
  <1> QED
    BY <1>2, <1>3, <1>4, <1>5, Zenon DEF h

\* The text that QuotedTokensRight has the lexer read.
QuotedText(w) == <<Quote>> \o Escaped(w) \o <<Quote, ";">>

\* Whatever the value: the lexer finds it again, and the semicolon behind it.
LEMMA QuotedRead ==
    ASSUME NEW w \in Seq(Chars)
    PROVE  Lexed(QuotedText(w)) = <<<<Quote>> \o w \o <<Quote>>, <<";">>>>
  <1>1. PICK e : Escaped(w) = e[Len(w)] /\ EscapedBy(w, e)
    BY EscapedSteps
  <1> DEFINE N == Len(w)
             E == e[N]
             W == QuotedText(w)
             K == Len(E)
  <1>2. N \in Nat /\ \A n \in 0..N : e[n] \in Seq(Chars) /\ Len(e[n]) \in Nat
    BY <1>1 DEF EscapedBy
  <1>3. E \in Seq(Chars) /\ K \in Nat
    BY <1>2
  <1>4. Quote \in Chars /\ ";" \in Chars
    BY DEF Chars, QuotedChars, Punctuation
  <1>5. /\ W \in Seq(Chars) /\ Len(W) = K + 3
        /\ W[1] = Quote /\ \A k \in 1..K : W[k + 1] = E[k]
        /\ W[K + 2] = Quote /\ W[K + 3] = ";"
    <2> DEFINE q == Quote
               c == ";"
               X == <<q>> \o E \o <<q, c>>
    <2>1. W = X
      BY <1>1, Zenon DEF QuotedText
    <2>2. q \in Chars /\ c \in Chars
      BY <1>4
    <2> HIDE DEF q, c, E
    <2>3. /\ X \in Seq(Chars) /\ Len(X) = Len(E) + 3
          /\ X[1] = q /\ \A k \in 1..Len(E) : X[k + 1] = E[k]
          /\ X[Len(E) + 2] = q /\ X[Len(E) + 3] = c
      BY <1>3, <2>2
    <2> HIDE DEF X, W
    <2> QED
      BY <2>1, <2>3, Zenon DEF q, c
  <1>6. PICK l \in [0..Len(W) -> Lexers] :
          /\ Lexed(W) = l[Len(W)].tokens /\ l[0] = NoWord
          /\ \A n \in 1..Len(W) : l[n] = LexStep(l[n - 1], W[n])
    <2> HIDE DEF W
    <2> QED
      BY <1>5, LexedSteps, Zenon
  <1> HIDE DEF W
  <1>7. \A n \in 0..N : /\ Len(e[n]) <= K
                        /\ \A k \in 1..Len(e[n]) : E[k] = e[n][k]
    BY <1>1, EscapedBegins, Zenon DEF Begins
  <1>8. ASSUME NEW k \in 1..(K + 3) PROVE l[k] = LexStep(l[k - 1], W[k])
    BY <1>5, <1>6
  <1> DEFINE P(n) == l[Len(e[n]) + 1] = InQuotes(SubSeq(w, 1, n))
             T == {n \in 0..N : ~P(n)}
  <1>9. T = {}
    <2>1. SUFFICES ASSUME T # {} PROVE FALSE
      BY Zenon
    <2>2. PICK m \in T : \A y \in T : m <= y
      <3>1. T \subseteq Nat
        BY <1>2
      <3> HIDE DEF T
      <3> QED
        BY <2>1, <3>1, LeastOf, Zenon
    <2>3. m \in 0..N /\ ~P(m)
      BY Zenon
    <2>4. m # 0
      <3>1. e[0] = <<>> /\ Len(e[0]) = 0
        BY <1>1 DEF EscapedBy
      <3>2. l[1] = LexStep(l[0], W[1])
        <4>1. 1 \in 1..(K + 3) /\ 1 - 1 = 0
          BY <1>3
        <4> QED
          BY <1>8, <4>1, Zenon
      <3>3. l[1] = InQuotes(<<>>)
        BY <1>5, <1>6, <3>2, QuoteOpens, Zenon
      <3>4. SubSeq(w, 1, 0) = <<>>
        BY <1>2
      <3>5. l[0 + 1] = l[1]
        OBVIOUS
      <3> QED
        BY <2>3, <3>1, <3>3, <3>4, <3>5, Zenon
    <2>5. m \in 1..N /\ m - 1 \in 0..N /\ ~(m <= m - 1)
      BY <1>2, <2>3, <2>4
    <2>6. P(m - 1)
      BY <2>2, <2>5
    <2> HIDE DEF T
    <2> DEFINE a == Len(e[m - 1])
               b == SubSeq(w, 1, m - 1)
               ch == w[m]
    <2>7. b \in Seq(Chars) /\ SubSeq(w, 1, m) = Append(b, ch) /\ ch \in Chars
      BY <1>2, <2>5
    <2>8. l[a + 1] = InQuotes(b)
      BY <2>6, Zenon
    <2>9. a \in Nat /\ K \in Nat
      BY <1>2, <1>3, <2>5, Zenon
    <2>10. Len(e[m]) <= K /\ \A k \in 1..Len(e[m]) : E[k] = e[m][k]
      BY <1>7, <2>3, Zenon
    <2>11. CASE ch \in {Quote, Backslash}
      <3>1. Len(e[m]) = a + 2 /\ e[m][a + 1] = Backslash /\ e[m][a + 2] = ch
        BY <1>1, <2>5, <2>11, MarkStep
      <3> HIDE DEF a, b, ch, K, E
      <3>2. /\ a + 1 \in 1..(a + 2) /\ a + 2 \in 1..(a + 2) /\ a + 2 <= K
            /\ a + 1 \in 1..K /\ a + 2 \in 1..K
            /\ a + 2 \in 1..(K + 3) /\ a + 3 \in 1..(K + 3)
            /\ (a + 1) + 1 = a + 2 /\ (a + 2) + 1 = a + 3
            /\ (a + 2) - 1 = a + 1 /\ (a + 3) - 1 = a + 2
        <4>1. a + 2 <= K
          BY <2>10, <3>1, Zenon
        <4> QED
          BY <2>9, <4>1
      <3>3. W[a + 2] = Backslash /\ W[a + 3] = ch
        <4>1. W[(a + 1) + 1] = E[a + 1] /\ W[(a + 2) + 1] = E[a + 2]
          BY <1>5, <3>2, Zenon
        <4>2. E[a + 1] = Backslash /\ E[a + 2] = ch
          BY <2>10, <3>1, <3>2, Zenon
        <4> QED
          BY <3>2, <4>1, <4>2
      <3>4. l[a + 2] = LexStep(InQuotes(b), Backslash)
        <4>1. l[a + 2] = LexStep(l[(a + 2) - 1], W[a + 2])
          BY <1>8, <3>2, Zenon
        <4> QED
          BY <2>8, <3>2, <3>3, <4>1
      <3>5. l[a + 3] = LexStep(l[a + 2], ch)
        <4>1. l[a + 3] = LexStep(l[(a + 3) - 1], W[a + 3])
          BY <1>8, <3>2, Zenon
        <4> QED
          BY <3>2, <3>3, <4>1
      <3>6. l[a + 3] = InQuotes(Append(b, ch))
        BY <2>7, <2>11, <3>4, <3>5, EscapedStep, Zenon
      <3>7. l[Len(e[m]) + 1] = l[a + 3]
        BY <3>1, <3>2
      <3> QED
        BY <2>3, <2>7, <3>6, <3>7, Zenon
    <2>12. CASE ch \notin {Quote, Backslash}
      <3>1. Len(e[m]) = a + 1 /\ e[m][a + 1] = ch
        BY <1>1, <2>5, <2>12, MarkStep
      <3> HIDE DEF a, b, ch, K, E
      <3>2. /\ a + 1 \in 1..(a + 1) /\ a + 1 <= K
            /\ a + 1 \in 1..K /\ a + 2 \in 1..(K + 3)
            /\ (a + 1) + 1 = a + 2 /\ (a + 2) - 1 = a + 1
        <4>1. a + 1 <= K
          BY <2>10, <3>1, Zenon
        <4> QED
          BY <2>9, <4>1
      <3>3. W[a + 2] = ch
        <4>1. W[(a + 1) + 1] = E[a + 1]
          BY <1>5, <3>2, Zenon
        <4>2. E[a + 1] = ch
          BY <2>10, <3>1, <3>2, Zenon
        <4> QED
          BY <3>2, <4>1, <4>2
      <3>4. l[a + 2] = LexStep(InQuotes(b), ch)
        <4>1. l[a + 2] = LexStep(l[(a + 2) - 1], W[a + 2])
          BY <1>8, <3>2, Zenon
        <4> QED
          BY <2>8, <3>2, <3>3, <4>1
      <3>5. l[a + 2] = InQuotes(Append(b, ch))
        BY <2>7, <2>12, <3>4, QuotedStep, Zenon
      <3>6. l[Len(e[m]) + 1] = l[a + 2]
        BY <3>1, <3>2
      <3> QED
        BY <2>3, <2>7, <3>5, <3>6, Zenon
    <2> QED
      BY <2>11, <2>12, Zenon
  <1>10. l[K + 1] = InQuotes(w)
    <2>1. P(N)
      <3>1. N \in 0..N
        BY <1>2
      <3> QED
        BY <1>9, <3>1, Zenon
    <2>2. SubSeq(w, 1, N) = w
      BY SubSeqFull, Zenon
    <2> QED
      BY <2>1, <2>2, Zenon
  <1> HIDE DEF P, T, E, K
  <1>11. l[K + 2] = HasRead(<<<<Quote>> \o w \o <<Quote>>>>)
    <2>1. K + 2 \in 1..(K + 3) /\ (K + 2) - 1 = K + 1
      BY <1>3
    <2>2. l[K + 2] = LexStep(l[(K + 2) - 1], W[K + 2])
      BY <1>8, <2>1, Zenon
    <2>3. l[K + 2] = LexStep(InQuotes(w), Quote)
      BY <1>5, <1>10, <2>1, <2>2
    <2> QED
      BY <2>3, QuoteCloses, Zenon
  <1>12. l[K + 3] = LexStep(l[K + 2], ";")
    <2>1. K + 3 \in 1..(K + 3) /\ (K + 3) - 1 = K + 2
      BY <1>3
    <2>2. l[K + 3] = LexStep(l[(K + 3) - 1], W[K + 3])
      BY <1>8, <2>1, Zenon
    <2> QED
      BY <1>5, <2>1, <2>2
  <1>13. l[K + 3].tokens = <<<<Quote>> \o w \o <<Quote>>, <<";">>>>
    <2> DEFINE q == <<Quote>> \o w \o <<Quote>>
    <2>1. q \in Seq(Chars)
      <3> DEFINE c == Quote
      <3>1. c \in Chars
        BY <1>4, Zenon
      <3> HIDE DEF c
      <3>2. <<c>> \o w \o <<c>> \in Seq(Chars)
        BY <3>1
      <3> QED
        BY <3>2 DEF c
    <2> HIDE DEF q
    <2>2. LexStep(HasRead(<<q>>), ";").tokens = <<q, <<";">>>>
      BY <2>1, SemicolonEnds, Zenon
    <2> QED
      BY <1>11, <1>12, <2>2, Zenon DEF q
  <1> QED
    BY <1>5, <1>6, <1>13, Zenon DEF W

\* So a value that is written in quotes is read back.
LEMMA QuotedIsRight ==
    ASSUME text \in Seq(Chars)
    PROVE  QuotedTokensRight
  <1> DEFINE q == <<Quote>> \o text \o <<Quote>>
             read == Lexed(QuotedText(text))
  <1>1. read = <<q, <<";">>>>
    BY QuotedRead
  <1>2. GetValue(q) = text
    <2> DEFINE c == Quote
               n == Len(text)
    <2>1. c \in Chars
      BY DEF Chars, QuotedChars
    <2> DEFINE x == <<c>> \o text \o <<c>>
    <2> HIDE DEF c
    <2>2. n \in Nat /\ x \in Seq(Chars) /\ Len(x) = n + 2 /\ x[1] = c
          /\ \A k \in 1..n : x[k + 1] = text[k]
      BY <2>1
    <2> HIDE DEF x
    <2>3. SubSeq(x, 2, n + 1) = text
      <3> DEFINE y == SubSeq(x, 2, n + 1)
      <3> HIDE DEF n
      <3>1. y \in Seq(Chars) /\ Len(y) = n /\ \A k \in 1..n : y[k] = x[k + 1]
        BY <2>2
      <3> HIDE DEF y
      <3>2. \A k \in 1..n : y[k] = text[k]
        BY <2>2, <3>1, Zenon
      <3>3. Len(text) = n
        BY DEF n
      <3>4. y = text
        BY <3>1, <3>2, <3>3, SeqEqual
      <3> QED
        BY <3>4 DEF y
    <2>4. GetValue(x) = SubSeq(x, 2, Len(x) - 1)
      <3> HIDE DEF n
      <3>1. Len(x) >= 2
        BY <2>2
      <3> QED
        BY <2>2, <3>1, Zenon DEF GetValue, c
    <2>5. Len(x) - 1 = n + 1
      <3> HIDE DEF n
      <3> QED
        BY <2>2
    <2> QED
      BY <2>3, <2>4, <2>5 DEF x, c
  <1> HIDE DEF q
  <1>3. Len(read) = 2 /\ read[1] = q /\ read[2] = <<";">>
    <2> HIDE DEF read
    <2> QED
      BY <1>1
  <1> QED
    BY <1>2, <1>3, Zenon DEF QuotedTokensRight, QuotedText

\* load_from_buffer gives the tokens that stand in the text, for texts of every
\* length: outside quotes one for every brace, semicolon and longest run of
\* other characters, and inside quotes the value that was written there.
THEOREM TokensAlwaysRight == Spec => []TokensRight
  <1>1. LexInv => TokensRight
    <2>1. CASE phase = "lex"
      BY <2>1, PlainIsRight, QuotedIsRight, Zenon DEF LexInv, TokensRight
    <2>2. CASE phase # "lex"
      BY <2>2, Zenon DEF TokensRight, PlainTokensRight, QuotedTokensRight
    <2> QED
      BY <2>1, <2>2, Zenon
  <1> QED
    BY <1>1, LexStarts, LexNext, PTL DEF Spec
=============================================================================
