----------------------------- MODULE CallGraph ------------------------------
(***************************************************************************)
(* `scry3 callgraph` (query.rs): a breadth-first walk from the tickets the *)
(* name resolves to, asking the backend for the callers or callees of one  *)
(* symbol at a time.                                                       *)
(***************************************************************************)
EXTENDS Naturals, Sequences, FiniteSets

CONSTANTS
    Symbols,     \* tickets of the serving table
    Graphs,      \* what the serving table may say: symbol -> its callers (or callees)
    Kept,        \* symbols whose path the filter keeps
    Depth,       \* --depth
    SymsLimits   \* the values of --max-syms

ASSUME GraphAssumption ==
    /\ Graphs \subseteq [Symbols -> SUBSET Symbols]
    /\ Kept \subseteq Symbols
    /\ Depth \in Nat /\ SymsLimits \subseteq Nat

VARIABLES
    maxSyms,   \* --max-syms of this command
    nextOf,    \* what the serving table says, in the direction of the walk
    roots,     \* the tickets that resolve has returned
    nodes,     \* nodes of the forest in the order they were found
    qi,        \* index of the node to expand
    reply,     \* tickets of the backend's reply that are still to be looked at
    cgPc       \* "resolve", "roots", "walk", "reply", "printed" or "failed"

cgVars == <<maxSyms, nextOf, roots, nodes, qi, reply, cgPc>>

Node(t, p, d) == [ticket |-> t, parent |-> p, depth |-> d]
Ids  == 1 .. Len(nodes)
Seen == {nodes[i].ticket : i \in Ids}

\* The types of the walk: tickets of the serving table, and indices.
CallGraphTypeOK ==
    /\ maxSyms \in SymsLimits
    /\ nextOf \in Graphs
    /\ roots \in Seq(Symbols)
    /\ nodes \in Seq([ticket : Symbols, parent : Nat, depth : Nat])
    /\ qi \in Nat \ {0}
    /\ reply \subseteq Symbols
    /\ cgPc \in {"resolve", "roots", "walk", "reply", "printed", "failed"}

CallGraphInit ==
    /\ maxSyms \in SymsLimits
    /\ nextOf \in Graphs
    /\ roots = <<>> /\ nodes = <<>>
    /\ qi = 1
    /\ reply = {}
    /\ cgPc = "resolve"

\* The first loop: a root that resolve names twice becomes one node.
AddRoot ==
    /\ cgPc = "roots" /\ roots # <<>>
    /\ nodes' = IF Head(roots) \in Seen THEN nodes ELSE Append(nodes, Node(Head(roots), 0, 0))
    /\ roots' = Tail(roots)
    /\ UNCHANGED <<maxSyms, nextOf, qi, reply, cgPc>>

RootsAdded ==
    /\ cgPc = "roots" /\ roots = <<>>
    /\ cgPc' = "walk"
    /\ UNCHANGED <<maxSyms, nextOf, roots, nodes, qi, reply>>

\* `while qi < nodes.len() && nodes.len() < max_syms`
Going == qi <= Len(nodes) /\ Len(nodes) < maxSyms

\* Mutant: `ndepth + 1 < depth`.
MutShallow == nodes[qi].depth + 1 < Depth

Shallow == nodes[qi].depth < Depth

Ask ==
    /\ cgPc = "walk" /\ Going /\ Shallow
    /\ reply' = nextOf[nodes[qi].ticket]
    /\ cgPc' = "reply"
    /\ UNCHANGED <<maxSyms, nextOf, roots, nodes, qi>>

\* `cg_next(..)?`: one failing request and the command fails.
AskFails ==
    /\ cgPc = "walk" /\ Going /\ Shallow
    /\ cgPc' = "failed"
    /\ UNCHANGED <<maxSyms, nextOf, roots, nodes, qi, reply>>

\* Mutant: `continue` before `qi += 1`.
MutPassOver ==
    /\ cgPc = "walk" /\ Going /\ ~Shallow
    /\ UNCHANGED cgVars

PassOver ==
    /\ cgPc = "walk" /\ Going /\ ~Shallow
    /\ qi' = qi + 1
    /\ UNCHANGED <<maxSyms, nextOf, roots, nodes, reply, cgPc>>

\* Mutant: a child is visited before the nodes that wait.
MutGrown(t) == SubSeq(nodes, 1, qi) \o <<Node(t, qi, nodes[qi].depth + 1)>> \o SubSeq(nodes, qi + 1, Len(nodes))

\* nodes.push(..)
Grown(t) == Append(nodes, Node(t, qi, nodes[qi].depth + 1))

\* Mutant: only the parent is known to be seen.
MutNew(t) == t \in Kept /\ t # nodes[qi].ticket

New(t) == t \in Kept /\ t \notin Seen

\* `if nodes.len() >= max_syms { break; }`
Full == Len(nodes') >= maxSyms

\* The order of a reply is that of a JSON object and its arrays.
Look(t) ==
    /\ cgPc = "reply" /\ t \in reply
    /\ IF New(t)
       THEN /\ nodes' = Grown(t)
            /\ reply' = IF Full THEN {} ELSE reply \ {t}
       ELSE /\ reply' = reply \ {t}
            /\ UNCHANGED nodes
    /\ UNCHANGED <<maxSyms, nextOf, roots, qi, cgPc>>

Expanded ==
    /\ cgPc = "reply" /\ reply = {}
    /\ qi' = qi + 1
    /\ cgPc' = "walk"
    /\ UNCHANGED <<maxSyms, nextOf, roots, nodes, reply>>

PrintForest ==
    /\ cgPc = "walk" /\ ~Going
    /\ cgPc' = "printed"
    /\ UNCHANGED <<maxSyms, nextOf, roots, nodes, qi, reply>>

WalkStep ==
    \/ AddRoot \/ RootsAdded
    \/ Ask \/ AskFails \/ PassOver
    \/ \E t \in Symbols : Look(t)
    \/ Expanded
    \/ PrintForest

\* What the walk needs of resolve: it fails, or has at least one ticket.
AnyRoots ==
    /\ cgPc = "resolve"
    /\ \/ cgPc' = "failed" /\ UNCHANGED roots
       \/ cgPc' = "roots" /\ roots' \in Seq(Symbols) \ {<<>>}
    /\ UNCHANGED <<maxSyms, nextOf, nodes, qi, reply>>

\* The walk by itself, from any roots.
WalkSpec == CallGraphInit /\ [][AnyRoots \/ WalkStep]_cgVars

-----------------------------------------------------------------------------
(***************************************************************************)
(* Properties.                                                             *)
(***************************************************************************)

\* A forest: every symbol appears once; a node that is no root was found from
\* an earlier node that calls it (or that it calls), is one level deeper and
\* passes the filter; nothing is deeper than --depth.
Forest ==
    /\ \A i, j \in Ids : nodes[i].ticket = nodes[j].ticket => i = j
    /\ \A i \in Ids :
          IF nodes[i].parent = 0 THEN nodes[i].depth = 0
          ELSE LET p == nodes[i].parent IN
               /\ p < i
               /\ nodes[i].depth = nodes[p].depth + 1
               /\ nodes[i].ticket \in nextOf[nodes[p].ticket] \cap Kept
               /\ nodes[i].depth <= Depth

\* A first discoverer is a nearest one: no edge from a node leads to one that
\* is more than a level deeper.
NoShortcut ==
    \A i, j \in Ids :
        i < qi /\ nodes[i].depth < Depth /\ nodes[j].ticket \in nextOf[nodes[i].ticket] \cap Kept
            => nodes[j].depth <= nodes[i].depth + 1

\* No more than --max-syms symbols are listed, but for the roots, which
\* --root-limit bounds.
SymsBounded == \A i \in Ids : nodes[i].parent # 0 => i <= maxSyms

\* A forest that is printed and did not reach --max-syms is closed: what the
\* backend says of any node above the last level is in it.
ClosedUnlessCut ==
    cgPc = "printed" /\ Len(nodes) < maxSyms =>
        \A i \in Ids : nodes[i].depth < Depth => nextOf[nodes[i].ticket] \cap Kept \subseteq Seen

\* A forest that is printed has a tree.
SomethingPrinted == cgPc = "printed" => nodes # <<>> /\ nodes[1].parent = 0
=============================================================================
