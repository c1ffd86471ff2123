------------------------------- MODULE Config -------------------------------
(***************************************************************************)
(* The configuration parser (src/config.cpp, headers/config.h): the lexer  *)
(* of load_from_buffer, character by character; analyse_words, token by    *)
(* token; and the lookups in the tree of Nodes they build.                 *)
(*                                                                         *)
(* A Node lives in the vector of its parent's children, and analyse_words  *)
(* keeps raw pointers to Nodes on a stack.  A push_back on a vector may    *)
(* move every Node in it, so the model remembers which Nodes have moved.   *)
(***************************************************************************)
EXTENDS Integers, Sequences, FiniteSets

CONSTANTS
    MaxPlain,    \* bound: characters of a text without quotes and backslashes
    MaxQuoted    \* bound: characters of a text with some

ASSUME ConfigConstants == MaxPlain \in Nat /\ MaxQuoted \in Nat

VARIABLES
    phase,     \* what load_from_buffer is doing, or the last LoadResult
    text,      \* the characters read so far
    lex,       \* in_str, escape, buffer and tokens of load_from_buffer
    i,         \* tokens analyse_words has taken
    nodes,     \* the Nodes of config_nodes, in the order of their creation
    erased,    \* the Nodes that were erased from their vector
    moved,     \* the Nodes a later push_back on their vector may have moved
    stack      \* tree: the stack of Node pointers

vars == <<phase, text, lex, i, nodes, erased, moved, stack>>

-----------------------------------------------------------------------------
(* Values *)

Quote == "\""
Backslash == "\\"
Punctuation == {"{", "}", ";"}
PlainChars == {"a", "b", " "} \cup Punctuation
QuotedChars == {"a", " ", Quote, Backslash} \cup Punctuation
Chars == PlainChars \cup QuotedChars

\* A Node: the tokens its name and its values come from (0: no name yet), and
\* the Node whose children it is one of.
Node(p) == [name |-> 0, values |-> <<>>, parent |-> p]
Root == 1

Results == {"OK", "EOFTooEarly", "WrongGrammar"}

Init ==
    /\ phase = "idle" /\ text = <<>>
    /\ lex = [in_str |-> FALSE, escape |-> FALSE, buffer |-> <<>>, tokens |-> <<>>]
    /\ i = 0 /\ nodes = <<Node(0)>>
    /\ erased = {} /\ moved = {} /\ stack = <<>>

-----------------------------------------------------------------------------
(* The lexer *)

\* What is in the buffer, if anything, is a token, and so are the extra ones.
Flush(l, extra) ==
    [l EXCEPT !.tokens = (IF l.buffer = <<>> THEN @ ELSE Append(@, l.buffer)) \o extra,
              !.buffer = <<>>]

\* The character behind a backslash: any but \ and " (and ') keep it.
LexEscaped(l, ch) ==
    [l EXCEPT !.escape = FALSE,
              !.buffer = @ \o (IF ch \in {Backslash, Quote} THEN <<ch>>
                               ELSE <<Backslash, ch>>)]

\* Inside quotes; the quotes become part of the token, "to prevent { }".
LexQuoted(l, ch) ==
    CASE ch = Backslash -> [l EXCEPT !.escape = TRUE]
      [] ch = Quote     -> [l EXCEPT !.in_str = FALSE, !.buffer = <<>>,
                                     !.tokens = Append(@, <<Quote>> \o l.buffer \o <<Quote>>)]
      [] OTHER          -> [l EXCEPT !.buffer = Append(@, ch)]

\* Mutant: a blank does not end a word.
Mut_LexPlain(l, ch) ==
    CASE ch = Quote           -> [l EXCEPT !.in_str = TRUE]
      [] ch = " "             -> l
      [] ch \in Punctuation   -> Flush(l, <<<<ch>>>>)
      [] OTHER                -> [l EXCEPT !.buffer = Append(@, ch)]

\* Outside: an opening quote does not end the word before it.
LexPlain(l, ch) ==
    CASE ch = Quote           -> [l EXCEPT !.in_str = TRUE]
      [] ch = " "             -> Flush(l, <<>>)
      [] ch \in Punctuation   -> Flush(l, <<<<ch>>>>)
      [] OTHER                -> [l EXCEPT !.buffer = Append(@, ch)]

LexStep(l, ch) ==
    IF ~l.in_str THEN LexPlain(l, ch)
    ELSE IF l.escape THEN LexEscaped(l, ch) ELSE LexQuoted(l, ch)

\* A file that is missing leaves the text empty; the nodes stay what they were.
LoadEmpty ==
    /\ phase \in {"idle"} \cup Results
    /\ phase' = "EOFTooEarly"
    /\ UNCHANGED <<text, lex, i, nodes, erased, moved, stack>>

Tricky(t) == \E n \in 1..Len(t) : t[n] \in {Quote, Backslash}

\* One iteration of the loop over the characters.
ReadChar(ch) ==
    LET longer == Append(text, ch) IN
    /\ phase \in {"idle", "lex"}
    /\ IF Tricky(longer)
         THEN Len(text) < MaxQuoted /\ \A n \in 1..Len(longer) : longer[n] \in QuotedChars
         ELSE Len(text) < MaxPlain
    /\ phase' = "lex" /\ text' = longer
    /\ lex' = LexStep(lex, ch)
    /\ UNCHANGED <<i, nodes, erased, moved, stack>>

\* The end of the text: what is left in the buffer is dropped, and
\* analyse_words starts with a root that has one nameless child.
ReadEnd ==
    /\ phase = "lex"
    /\ phase' = "words" /\ i' = 0
    /\ nodes' = <<Node(0), Node(Root)>> /\ erased' = {} /\ moved' = {}
    /\ stack' = <<Root, 2>>
    /\ UNCHANGED <<text, lex>>

-----------------------------------------------------------------------------
(* analyse_words *)

Pop(s) == SubSeq(s, 1, Len(s) - 1)
Top(s) == s[Len(s)]

Children(p) == {n \in 1..Len(nodes) : n \notin erased /\ nodes[n].parent = p}

\* The Node at children.end()-1, if there is one.
LastChild(p) == {n \in Children(p) : \A o \in Children(p) : o <= n}

Current == nodes[Top(stack)]

\* p->children.push_back(Node()); tree.push(...), where s is the stack before.
PushChild(p, s, gone) ==
    /\ nodes' = Append(nodes, Node(p))
    /\ erased' = erased \cup gone
    /\ moved' = moved \cup Children(p)
    /\ stack' = Append(s, Len(nodes) + 1)

Token == lex.tokens[i + 1]
Takes(tk) == phase = "words" /\ i < Len(lex.tokens) /\ Token = tk

Taken == i' = i + 1 /\ UNCHANGED <<text, lex>>

Fails == phase' = "WrongGrammar" /\ UNCHANGED <<nodes, moved, stack>>

\* Mutant: a block without a name is entered.
Mut_OpenBlock ==
    /\ Takes(<<"{">>) /\ Taken
    /\ PushChild(Top(stack), stack, {}) /\ UNCHANGED phase

\* "{": to the next depth; "at least a name is required".
OpenBlock ==
    /\ Takes(<<"{">>) /\ Taken
    /\ IF Current.name = 0
         THEN Fails /\ UNCHANGED erased
         ELSE PushChild(Top(stack), stack, {}) /\ UNCHANGED phase

\* The nameless Node at the end of a block is erased from it.
Nameless == IF Current.name = 0 THEN LastChild(Top(Pop(stack))) ELSE {}

\* Mutant: the second pop is forgotten.
Mut_CloseBlock ==
    /\ Takes(<<"}">>) /\ Taken
    /\ IF Len(stack) = 2
         THEN Fails /\ erased' = erased \cup Nameless
         ELSE PushChild(Top(Pop(Pop(stack))), Pop(stack), Nameless) /\ UNCHANGED phase

\* "}": the Node before it, the block, and a new Node behind the block.  The
\* stack is two deep at least, so that only the last test for an empty stack
\* can succeed.
CloseBlock ==
    /\ Takes(<<"}">>) /\ Taken
    /\ IF Len(stack) = 2
         THEN Fails /\ erased' = erased \cup Nameless
         ELSE PushChild(Top(Pop(Pop(stack))), Pop(Pop(stack)), Nameless) /\ UNCHANGED phase

\* Mutant: the Node that ends is left on the stack.
Mut_EndNode ==
    /\ Takes(<<";">>) /\ Taken
    /\ Current.name # 0
    /\ PushChild(Top(Pop(stack)), stack, {})
    /\ UNCHANGED phase

\* ";" behind a named Node: a new one behind it.
EndNode ==
    /\ Takes(<<";">>) /\ Taken
    /\ Current.name # 0
    /\ PushChild(Top(Pop(stack)), Pop(stack), {})
    /\ UNCHANGED phase

SkipSemicolon ==
    /\ Takes(<<";">>) /\ Taken
    /\ Current.name = 0
    /\ UNCHANGED <<phase, nodes, erased, moved, stack>>

\* A word is the name of a Node, or one of its values.
WithWord(node, word) ==
    IF node.name = 0 THEN [node EXCEPT !.name = word]
    ELSE [node EXCEPT !.values = Append(node.values, word)]

\* A token that is no punctuation.
Word ==
    /\ \E tk \in {lex.tokens[n] : n \in 1..Len(lex.tokens)} :
         Takes(tk) /\ tk \notin {<<ch>> : ch \in Punctuation}
    /\ Taken
    /\ nodes' = [nodes EXCEPT ![Top(stack)] = WithWord(Current, i + 1)]
    /\ UNCHANGED <<phase, erased, moved, stack>>

\* The nameless Node at the end of the root is erased.
Finish ==
    /\ phase = "words" /\ i = Len(lex.tokens)
    /\ phase' = "OK"
    /\ erased' = erased \cup {n \in LastChild(Root) : nodes[n].name = 0}
    /\ UNCHANGED <<text, lex, i, nodes, moved, stack>>

Analyse == OpenBlock \/ CloseBlock \/ EndNode \/ SkipSemicolon \/ Word \/ Finish

Next == LoadEmpty \/ (\E ch \in Chars : ReadChar(ch)) \/ ReadEnd \/ Analyse

Spec == Init /\ [][Next]_vars

-----------------------------------------------------------------------------
(* Lookups *)

\* The children of p whose name is nm; their numbers give their order.
Named(p, nm) == {n \in Children(p) : nodes[n].name # 0 /\ lex.tokens[nodes[n].name] = nm}

\* Mutant: the last match wins whatever the index.
Mut_Step(n, found, idx) == [founded |-> found.founded + 1, at |-> n, hit |-> FALSE]

\* One more match: it is the one, or it is remembered as the last one seen.
Step(n, found, idx) ==
    IF found.hit THEN found
    ELSE IF found.founded < idx THEN [founded |-> found.founded + 1, at |-> n, hit |-> FALSE]
    ELSE [found EXCEPT !.at = n, !.hit = TRUE]

\* The scan of one level of get_node_recursive: 0 when nothing matches.
Scan(p, nm, idx) ==
    LET from[n \in 0..Len(nodes)] ==
          IF n = 0 THEN [founded |-> 0, at |-> 0, hit |-> FALSE]
          ELSE IF n \in Named(p, nm) THEN Step(n, from[n - 1], idx) ELSE from[n - 1]
    IN from[Len(nodes)].at

\* get_node_recursive: the index counts for the last name only, and a name in
\* the middle stands for the first Node that has it.
GetNode(loc, idx) ==
    LET at[n \in 0..Len(loc)] ==
          IF n = 0 THEN Root
          ELSE IF at[n - 1] = 0 THEN 0
          ELSE Scan(at[n - 1], loc[n], IF n = Len(loc) THEN idx ELSE 0)
    IN at[Len(loc)]

\* get_value: the quotes of a token are taken off.
GetValue(tk) ==
    IF Len(tk) >= 2 /\ tk[1] = Quote THEN SubSeq(tk, 2, Len(tk) - 1) ELSE tk

-----------------------------------------------------------------------------
(* Properties *)

\* analyse_words never follows a pointer to a Node that was erased or that a
\* push_back on its vector may have moved, whatever the text: every Node on
\* the stack below another is the last child of the one before it.
NoDanglingNode ==
    phase = "words" =>
        /\ Len(stack) >= 2 /\ stack[1] = Root
        /\ \A n \in 1..Len(stack) : stack[n] \notin moved \cup erased
        /\ \A n \in 2..Len(stack) : nodes[stack[n]].parent = stack[n - 1]

\* What the tokens taken so far say, without a stack.  A word starts a
\* directive unless it follows another word; the words behind it are its
\* values; it belongs to the block of the brace that is open where it stands.
IsWord(n) == lex.tokens[n] \notin {<<ch>> : ch \in Punctuation}
Starts == {n \in 1..i : IsWord(n) /\ (n = 1 \/ ~IsWord(n - 1))}
Count(tk, n) == Cardinality({m \in 1..(n - 1) : lex.tokens[m] = tk})
Depth(n) == Count(<<"{">>, n) - Count(<<"}">>, n)
Largest(S) == IF S = {} THEN 0 ELSE CHOOSE m \in S : \A o \in S : o <= m
Brace(n) == Largest({m \in 1..(n - 1) : lex.tokens[m] = <<"{">> /\ Depth(m) < Depth(n)})
Owner(n) == Largest({m \in Starts : m < Brace(n)})
Values(n) == {m \in (n + 1)..i : \A o \in n..m : IsWord(o)}

Live == {n \in 2..Len(nodes) : n \notin erased}

\* Nodes without a name are only what analyse_words is about to fill; after a
\* load that succeeds one may be left, in a block the text does not close.
NamelessGone ==
    \A n \in Live : nodes[n].name = 0 =>
        /\ phase # "lex" => n = Top(stack)
        /\ phase = "OK" => Depth(i + 1) > 0

\* The tree is the one the text describes, at every moment and so also where
\* a syntax error stops the analysis and setup_config goes on with what there
\* is: a Node for every directive, under the Node of the block it stands in,
\* with its values, and siblings in the order of the text; and no nameless
\* Node besides the one that is about to be filled.
TreeRight ==
    LET named == {n \in Live : nodes[n].name # 0} IN
    /\ NamelessGone
    /\ {nodes[n].name : n \in named} = Starts
    /\ \A n \in named :
         /\ nodes[nodes[n].parent].name = Owner(nodes[n].name)
         /\ \A m \in 1..i : m \in Values(nodes[n].name)
                             <=> \E v \in 1..Len(nodes[n].values) : nodes[n].values[v] = m
         /\ \A v \in 2..Len(nodes[n].values) : nodes[n].values[v - 1] < nodes[n].values[v]
         /\ \A o \in named : n < o <=> nodes[n].name < nodes[o].name

\* A load fails exactly at the first brace that opens a block without a name
\* or closes one that is not open.
Breaks(n) == \/ lex.tokens[n] = <<"{">> /\ (n = 1 \/ ~IsWord(n - 1))
             \/ lex.tokens[n] = <<"}">> /\ Depth(n) <= 0

VerdictRight ==
    /\ phase \in {"words", "OK", "WrongGrammar"} =>
         {n \in 1..i : Breaks(n)} = IF phase = "WrongGrammar" THEN {i} ELSE {}
    /\ phase = "OK" => i = Len(lex.tokens)

\* Outside quotes the layout does not matter: a brace or a semicolon is a token
\* by itself, and so is every longest run of other characters that is followed
\* by a blank or one of those.
PlainTokensRight ==
    LET Part(n) == text[n] \notin Punctuation \cup {" "}
        ends == {n \in 1..Len(text) :
                   \/ text[n] \in Punctuation
                   \/ Part(n) /\ n < Len(text) /\ ~Part(n + 1)}
        from(n) == Largest({m \in 1..n : ~Part(m)}) + 1
    IN phase = "lex" /\ ~Tricky(text) =>
         /\ Len(lex.tokens) = Cardinality(ends)
         /\ \A n \in ends :
              lex.tokens[Cardinality({m \in ends : m <= n})] =
                SubSeq(text, IF Part(n) THEN from(n) ELSE n, n)

\* Whatever a value consists of, it can be written in quotes, with a backslash
\* before quotes and backslashes, and get_value gives it back.
Escaped(w) ==
    LET e[n \in 0..Len(w)] ==
          IF n = 0 THEN <<>>
          ELSE e[n - 1] \o (IF w[n] \in {Quote, Backslash} THEN <<Backslash>> ELSE <<>>)
                       \o <<w[n]>>
    IN e[Len(w)]

Lexed(w) ==
    LET l[n \in 0..Len(w)] ==
          IF n = 0 THEN [in_str |-> FALSE, escape |-> FALSE, buffer |-> <<>>, tokens |-> <<>>]
          ELSE LexStep(l[n - 1], w[n])
    IN l[Len(w)].tokens

QuotedTokensRight ==
    phase = "lex" =>
        LET read == Lexed(<<Quote>> \o Escaped(text) \o <<Quote, ";">>) IN
        Len(read) = 2 /\ GetValue(read[1]) = text /\ read[2] = <<";">>

\* load_from_buffer gives the tokens that stand in the text: outside quotes
\* whatever the layout, and inside them whatever the value.
TokensRight == PlainTokensRight /\ QuotedTokensRight

\* A lookup finds the Node that the path and the index select: the index-th of
\* those with the last name, or the last one when there are fewer; and nothing
\* only if there is none in the block the names before it lead to.
Names == {<<"a">>, <<"b">>}

LookupRight ==
    phase = "OK" => \A a, b \in Names, idx \in 0..2 :
        LET first == GetNode(<<a>>, 0)
            all == Named(first, b)
            hit == GetNode(<<a, b>>, idx)
        IN /\ first = 0 <=> Named(Root, a) = {}
           /\ first # 0 => first \in Named(Root, a) /\ \A o \in Named(Root, a) : first <= o
           /\ hit = 0 <=> first = 0 \/ all = {}
           /\ hit # 0 => /\ hit \in all
                         /\ LET before == Cardinality({o \in all : o < hit}) IN
                            before = idx \/ (before < idx /\ \A o \in all : o <= hit)
=============================================================================
