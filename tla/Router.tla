------------------------------- MODULE Router -------------------------------
(***************************************************************************)
(* The route tree (src/route_states.cpp): how setup_modules and            *)
(* setup_handlers fill it from the locations of a configuration, and how   *)
(* parseURL finds the handler of a request in it.  A reload clears it.     *)
(*                                                                         *)
(* A path is the sequence of its segments, the text between two slashes;   *)
(* the leading slash is dropped, as the code does, and the empty text has  *)
(* one empty segment.  A pattern is a sequence of sections.  Every step is *)
(* one iteration of the loop of add_new_handler or of parseURL.            *)
(***************************************************************************)
EXTENDS Naturals, Sequences, FiniteSetsExt, SequencesExt

CONSTANTS
    Names,       \* the names locations are made of
    Ids,         \* the names of their parameters
    TestRoute,   \* the location that setup_handlers adds itself
    Other,       \* a segment no location has
    MaxRoutes,   \* bound: how many locations are accepted
    MaxDepth,    \* bound: how many sections a location has
    MaxSegments  \* bound: how many segments a requested path has

ASSUME RouterConstants ==
    /\ "" \notin Names \cup {Other} /\ Other \notin Names /\ TestRoute \in Names
    /\ MaxRoutes \in Nat /\ MaxDepth \in Nat /\ MaxSegments \in Nat

VARIABLES
    phase,    \* what the process is doing
    nodes,    \* the tree: nodes[1] is the root, nexts holds indices
    routes,   \* history: the accepted patterns; route h has handler h
    add,      \* the locals of add_new_handler
    find      \* the locals and the result of parseURL

vars == <<phase, nodes, routes, add, find>>

-----------------------------------------------------------------------------
(* StateNode and Node *)

FixedString(name) == [rule |-> "fixed", str |-> name, id |-> ""]
MatchAny(id) == [rule |-> "any", str |-> "", id |-> id]

\* The StateNode behind the last section, with empty = true.
End == FixedString("")

Sections == {FixedString(n) : n \in Names} \cup {MatchAny(i) : i \in Ids}

NoHandler == 0
Node(p, h) == [rule |-> p.rule, str |-> p.str, id |-> p.id, handler |-> h,
               nexts |-> <<>>]

\* clear_tree
EmptyTree == <<Node(FixedString("/"), NoHandler)>>

Nexts(n) == nodes[n].nexts

\* The text of a location, cut at its slashes: a section may be empty.
RawPatterns == UNION {[1..m -> Sections \cup {End}] : m \in 0..MaxDepth}

\* StateNode::parse_from_str: an empty section is an error, unless it is the
\* last one, after a trailing slash.
WithoutSlash(raw) ==
    IF raw # <<>> /\ Last(raw) = End THEN Front(raw) ELSE raw
ParseFails(raw) == End \in Range(WithoutSlash(raw))

NoAdd == [chain |-> <<>>, i |-> 1, current |-> 1, then |-> "locations"]
NoFind == [path |-> <<>>, left |-> <<>>, current |-> 1, vals |-> <<>>,
           mapper |-> {}, fn |-> NoHandler, result |-> "none"]

Init ==
    /\ phase = "locations"
    /\ nodes = EmptyTree
    /\ routes = <<>>
    /\ add = NoAdd
    /\ find = NoFind

-----------------------------------------------------------------------------
(* Filling the tree *)

Begin(chain, then) ==
    /\ add' = [chain |-> chain, i |-> 1, current |-> 1, then |-> then]
    /\ phase' = "adding"
    /\ UNCHANGED <<nodes, routes, find>>

\* setup_modules: a location with a usable path, type and target.
AddLocation(raw) ==
    /\ phase = "locations" /\ Len(routes) < MaxRoutes
    /\ ~ParseFails(raw)
    /\ Begin(WithoutSlash(raw), "locations")

\* A location without path, with a bad path, type, address or port.
SkipLocation == phase = "locations" /\ UNCHANGED vars

\* setup_handlers
AddTestRoute ==
    /\ phase = "locations"
    /\ Begin(<<FixedString(TestRoute)>>, "serving")

(* One iteration of the while loop of add_new_handler. *)

\* pnode
Section == IF add.i <= Len(add.chain) THEN add.chain[add.i] ELSE End
AtEnd == add.i > Len(add.chain)

\* Mutant: the rules are not compared.
Mut_Same(n, p) == n.str = p.str

\* The node n of the tree stands for section p.
Same(n, p) == n.rule = p.rule /\ n.str = p.str

Hits == {j \in DOMAIN Nexts(add.current) : Same(nodes[Nexts(add.current)[j]], Section)}

Added == add' = NoAdd /\ phase' = add.then /\ UNCHANGED find

\* nexts.push_back(node)
PushNode(h) ==
    nodes' = Append([nodes EXCEPT ![add.current].nexts = Append(@, Len(nodes) + 1)],
                    Node(Section, h))

\* A node for the section is there: both move on.
AddDescend ==
    /\ phase = "adding" /\ ~AtEnd /\ Hits # {}
    /\ add' = [add EXCEPT !.i = @ + 1,
                          !.current = Nexts(@)[Min(Hits)]]
    /\ UNCHANGED <<phase, nodes, routes, find>>

\* None is there: it is created, and the parameter keeps the name it has here.
AddPush ==
    /\ phase = "adding" /\ ~AtEnd /\ Hits = {}
    /\ PushNode(NoHandler)
    /\ add' = [add EXCEPT !.i = @ + 1, !.current = Len(nodes) + 1]
    /\ UNCHANGED <<phase, routes, find>>

\* Success: the end of the chain becomes a leaf with the handler.
AddLeaf ==
    /\ phase = "adding" /\ AtEnd /\ Hits = {}
    /\ PushNode(Len(routes) + 1)
    /\ routes' = Append(routes, add.chain)
    /\ Added

\* ConflictHandler: the caller does not look at it.
AddConflict ==
    /\ phase = "adding" /\ AtEnd /\ Hits # {}
    /\ Added
    /\ UNCHANGED <<nodes, routes>>

\* setup_general of the next load
ClearTree ==
    /\ phase = "serving"
    /\ nodes' = EmptyTree /\ routes' = <<>>
    /\ phase' = "locations"
    /\ UNCHANGED <<add, find>>

-----------------------------------------------------------------------------
(* parseURL *)

Paths == UNION {[1..m -> Names \cup {Other, ""}] : m \in 1..MaxSegments}

Request(path) ==
    /\ phase = "serving"
    /\ find' = [NoFind EXCEPT !.path = path, !.left = path]
    /\ phase' = "parsing"
    /\ UNCHANGED <<nodes, routes, add>>

\* The path of the URL is the empty text: EmptyURL, answered like Node404.
RequestEmpty ==
    /\ phase = "serving"
    /\ find' = [NoFind EXCEPT !.result = "EmptyURL"]
    /\ phase' = "parsed"
    /\ UNCHANGED <<nodes, routes, add>>

(* One iteration of the while loop of parseURL. *)

name == Head(find.left)
Left == IF Len(find.left) > 1 THEN Tail(find.left) ELSE <<"">>

Children == Range(Nexts(find.current))
FixedHits == {n \in Children : nodes[n].rule = "fixed" /\ nodes[n].str = name}
AnyHits == {n \in Children : nodes[n].rule = "any"}
no_child == \A n \in Children : Nexts(n) = <<>>

Parsed(f) == find' = f /\ phase' = "parsed" /\ UNCHANGED <<nodes, routes, add>>

Moves(n, mapper) ==
    /\ find' = [find EXCEPT !.current = n, !.mapper = mapper,
                            !.vals = Append(@, <<name>>), !.left = Left]
    /\ UNCHANGED <<phase, nodes, routes, add>>

\* The segment leads to a leaf.
ParseLeaf ==
    /\ phase = "parsing"
    /\ \E n \in FixedHits :
         /\ Nexts(n) = <<>>
         /\ Parsed([find EXCEPT !.fn = nodes[n].handler, !.result = "OK"])

\* The segment leads to an inner node of its name.
ParseFixed ==
    /\ phase = "parsing"
    /\ \E n \in FixedHits : Nexts(n) # <<>> /\ Moves(n, find.mapper)

\* Mutant: a parameter is preferred to a name.
Mut_AnyChosen == AnyHits # {}

AnyChosen == FixedHits = {} /\ AnyHits # {}

\* Mutant: the index behind the value.
Mut_Emplace(id) == find.mapper \cup {<<id, Len(find.vals) + 2>>}

\* mapper.emplace(id, node_vals.size()) keeps an entry that is there.
\* Indices start at 1 here.
Emplace(id) ==
    IF id = "" \/ \E p \in find.mapper : p[1] = id THEN find.mapper
    ELSE find.mapper \cup {<<id, Len(find.vals) + 1>>}

\* No node of its name, but a parameter.
ParseAny ==
    /\ phase = "parsing" /\ AnyChosen
    /\ \E n \in AnyHits : Moves(n, Emplace(nodes[n].id))

\* Neither, and the node is the end of its only location: the rest of the path
\* is appended to the last value.
ParseSuffix ==
    /\ phase = "parsing" /\ FixedHits = {} /\ AnyHits = {}
    /\ no_child /\ Len(Nexts(find.current)) = 1
    /\ Parsed([find EXCEPT !.fn = nodes[Nexts(find.current)[1]].handler,
                           !.result = "OK",
                           !.vals = IF @ = <<>> THEN @
                                    ELSE Append(Front(@), Last(@) \o find.left)])

Parse404 ==
    /\ phase = "parsing" /\ FixedHits = {} /\ AnyHits = {}
    /\ ~(no_child /\ Len(Nexts(find.current)) = 1)
    /\ Parsed([find EXCEPT !.result = "Node404"])

\* The caller has used the result; vals and mapper are cleared by the next.
Answered ==
    /\ phase = "parsed"
    /\ find' = NoFind /\ phase' = "serving"
    /\ UNCHANGED <<nodes, routes, add>>

-----------------------------------------------------------------------------
(* The specification *)

AddHandler == AddDescend \/ AddPush \/ AddLeaf \/ AddConflict

ParseURL == ParseLeaf \/ ParseFixed \/ ParseAny \/ ParseSuffix \/ Parse404

Next ==
    \/ \E raw \in RawPatterns : AddLocation(raw)
    \/ SkipLocation \/ AddTestRoute \/ AddHandler \/ ClearTree
    \/ \E path \in Paths : Request(path)
    \/ RequestEmpty \/ ParseURL \/ Answered

Spec == Init /\ [][Next]_vars

-----------------------------------------------------------------------------
(* What a lookup should give, from the accepted locations alone *)

\* A pattern without the names of its parameters.
Shape(r) == [i \in DOMAIN r |-> IF r[i].rule = "any" THEN MatchAny("") ELSE r[i]]

Shapes == {Shape(routes[h]) : h \in DOMAIN routes}
Begins == {<<>>} \cup (UNION {{SubSeq(s, 1, m) : m \in 0..Len(s)} : s \in Shapes})

\* The path reads as empty text behind its end.
Segment(path, i) == IF i <= Len(path) THEN path[i] ELSE ""

\* q begins some location and follows the path: at every section the name of
\* the segment where a location has it there, else a parameter; and no
\* location has ended on the way at an empty segment.
Follows(q, path) ==
    \A i \in DOMAIN q :
        LET before == SubSeq(q, 1, i - 1)
            named  == Append(before, FixedString(Segment(path, i)))
        IN  /\ q[i] = IF named \in Begins THEN FixedString(Segment(path, i)) ELSE MatchAny("")
            /\ ~(before \in Shapes /\ Segment(path, i) = "")

\* The location a path belongs to: the one it follows to an empty segment, or
\* the one it follows beyond its end if no location goes on from there.
Chosen(path) ==
    {q \in Shapes :
        /\ Follows(q, path)
        /\ \/ Segment(path, Len(q) + 1) = ""
           \/ \A b \in Begins : IsPrefix(q, b) => b = q}

-----------------------------------------------------------------------------
(* Properties *)

Done == phase = "parsed" /\ find.result # "EmptyURL"

\* parseURL finds exactly what the accepted locations say, names before
\* parameters, whatever order they were added in and whichever of them share
\* nodes; a path no location is chosen for gets Node404 ("FixedString ... has
\* higher priority than match any", "if there no extra nodes, the rest of the
\* path will be added").
LookupCorrect ==
    Done =>
        \/ find.result = "OK" /\ Chosen(find.path) = {Shape(routes[find.fn])}
        \/ find.result = "Node404" /\ Chosen(find.path) = {}

\* The path of route h with an unknown name for every parameter.
OwnPath(r) ==
    IF r = <<>> THEN <<"">>
    ELSE [i \in DOMAIN r |-> IF r[i].rule = "any" THEN Other ELSE r[i].str]

\* No accepted location is dead: however many locations have been added after
\* it and whatever they share with it, its own path leads to its handler.
NoDeadRoute ==
    Done => \A h \in DOMAIN routes :
                find.path = OwnPath(routes[h]) => find.fn = h

\* The handler is given the segments of the path: one value per section of its
\* location, the rest of the path appended to the last one, and what mapper
\* calls a parameter is the value at the place of a parameter.  By which name it
\* does is not said: locations share a node and the name it got first.
ParamsRight ==
    Done /\ find.result = "OK" =>
        LET r == routes[find.fn]
        IN  /\ Len(find.vals) = Len(r)
            /\ \A k \in DOMAIN r :
                 /\ Head(find.vals[k]) = Segment(find.path, k)
                 /\ Len(find.vals[k]) > 1 =>
                      /\ k = Len(r)
                      /\ find.vals[k] = SubSeq(find.path, k, Len(find.path))
            /\ \A p \in find.mapper : p[2] \in DOMAIN r /\ r[p[2]].rule = "any"
=============================================================================
