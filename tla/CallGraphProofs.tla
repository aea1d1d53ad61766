--------------------------- MODULE CallGraphProofs ---------------------------
(***************************************************************************)
(* The breadth-first walk of `callgraph`, from any roots, over any graph,  *)
(* with any --depth and --max-syms.                                        *)
(***************************************************************************)
EXTENDS CallGraph, TLAPS

WalkNext == AnyRoots \/ WalkStep

NodeSet == [ticket : Symbols, parent : Nat, depth : Nat]

-----------------------------------------------------------------------------
(***************************************************************************)
(* The invariant.                                                          *)
(***************************************************************************)

\* Before the walk every node is a root.
RootsFirst ==
    /\ cgPc \in {"resolve", "roots"} =>
          qi = 1 /\ reply = {} /\ \A i \in Ids : nodes[i].parent = 0 /\ nodes[i].depth = 0
    /\ cgPc = "resolve" => nodes = <<>>
    /\ cgPc = "roots" => nodes # <<>> \/ roots # <<>>
    /\ nodes # <<>> => nodes[1].parent = 0
    /\ cgPc \in {"walk", "reply", "printed"} => nodes # <<>>

\* While a reply is looked at: it is that for the node to expand, and there
\* is room.
Looking ==
    cgPc = "reply" =>
        /\ qi \in Ids
        /\ nodes[qi].depth < Depth
        /\ reply \subseteq nextOf[nodes[qi].ticket]
        /\ reply # {} => Len(nodes) < maxSyms

\* Nodes are in the order of their depth, and none is more than a level below
\* the node to expand.
InLevels ==
    /\ \A i, j \in Ids : i <= j => nodes[i].depth <= nodes[j].depth
    /\ qi \in Ids => \A j \in Ids : nodes[j].depth <= nodes[qi].depth + 1
    /\ qi <= Len(nodes) + 1

\* What an expanded node leads to is in the list, unless the list is full.
Expansion ==
    Len(nodes) < maxSyms =>
        /\ \A i \in Ids : i < qi /\ nodes[i].depth < Depth => nextOf[nodes[i].ticket] \cap Kept \subseteq Seen
        /\ cgPc = "reply" => nextOf[nodes[qi].ticket] \cap Kept \subseteq Seen \cup reply

\* The walk ends at the end of the list or when the list is full.
Ended == cgPc = "printed" => ~Going

WalkInv ==
    /\ CallGraphTypeOK
    /\ RootsFirst /\ Looking /\ InLevels /\ Expansion /\ Ended
    /\ Forest /\ NoShortcut /\ SymsBounded

-----------------------------------------------------------------------------
\* What the type of the nodes says of each.
LEMMA NodesTyped ==
    ASSUME CallGraphTypeOK
    PROVE  /\ nodes \in Seq(NodeSet)
           /\ Len(nodes) \in Nat
           /\ \A i \in Ids : nodes[i] \in NodeSet /\ nodes[i].ticket \in Symbols
                             /\ nodes[i].parent \in Nat /\ nodes[i].depth \in Nat
<1>1. nodes \in Seq(NodeSet)
  BY DEF CallGraphTypeOK, NodeSet
<1>2. Len(nodes) \in Nat /\ \A i \in Ids : nodes[i] \in NodeSet
  BY <1>1 DEF Ids
<1> QED BY <1>1, <1>2 DEF NodeSet

\* What Append does to a sequence, position by position.
LEMMA Appended ==
    ASSUME NEW S, NEW s \in Seq(S), NEW e \in S
    PROVE  /\ Append(s, e) \in Seq(S)
           /\ Len(s) \in Nat /\ Len(Append(s, e)) = Len(s) + 1
           /\ \A i \in 1 .. Len(s) : Append(s, e)[i] = s[i] /\ s[i] \in S
           /\ Append(s, e)[Len(s) + 1] = e
  BY SMT

\* A step that leaves the nodes alone leaves their forest alone.
LEMMA SameForest ==
    ASSUME Forest, UNCHANGED <<nextOf, nodes>>
    PROVE  Forest'
  BY DEF Forest, Ids

\* ... and of no new edge between them,
LEMMA SameShortcut ==
    ASSUME NoShortcut, UNCHANGED <<nextOf, nodes, qi>>
    PROVE  NoShortcut'
  BY DEF NoShortcut, Ids

\* ... and within the bound,
LEMMA SameBound ==
    ASSUME SymsBounded, UNCHANGED <<maxSyms, nodes>>
    PROVE  SymsBounded'
  BY DEF SymsBounded, Ids

\* ... and in levels.
LEMMA SameLevels ==
    ASSUME InLevels, UNCHANGED <<nodes, qi>>
    PROVE  InLevels'
  BY DEF InLevels, Ids

\* The invariant holds before resolve.
THEOREM WalkStarts == CallGraphInit => WalkInv
<1> SUFFICES ASSUME CallGraphInit PROVE WalkInv
  OBVIOUS
<1>1. nodes = <<>> /\ Ids = {} /\ Len(nodes) = 0
  BY DEF CallGraphInit, Ids
<1>2. CallGraphTypeOK
  BY DEF CallGraphInit, CallGraphTypeOK
<1>3. RootsFirst /\ Looking /\ InLevels /\ Expansion /\ Ended
  BY <1>1 DEF CallGraphInit, RootsFirst, Looking, InLevels, Expansion, Ended
<1>4. Forest /\ NoShortcut /\ SymsBounded
  BY <1>1 DEF Forest, NoShortcut, SymsBounded
<1> QED BY <1>2, <1>3, <1>4 DEF WalkInv

\* Steps that leave the nodes, the place in them and the table alone.
LEMMA QuietStep ==
    ASSUME WalkInv, UNCHANGED <<maxSyms, nextOf, nodes, qi>>,
           CallGraphTypeOK', RootsFirst', Looking', Expansion', Ended'
    PROVE  WalkInv'
  BY SameForest, SameShortcut, SameBound, SameLevels DEF WalkInv

\* resolve gives roots to an empty list.
LEMMA AnyRootsKeeps == ASSUME WalkInv, AnyRoots PROVE WalkInv'
<1>1. CallGraphTypeOK'
  BY DEF WalkInv, CallGraphTypeOK, AnyRoots
<1>2. RootsFirst' /\ Looking' /\ Expansion' /\ Ended'
  BY DEF WalkInv, RootsFirst, Looking, Expansion, Ended, AnyRoots, Ids, Seen, CallGraphTypeOK
<1> QED BY <1>1, <1>2, QuietStep DEF AnyRoots

\* The walk begins with roots only: they are a level.
LEMMA RootsAddedKeeps == ASSUME WalkInv, RootsAdded PROVE WalkInv'
<1>1. CallGraphTypeOK'
  BY DEF WalkInv, CallGraphTypeOK, RootsAdded
<1>2. RootsFirst' /\ Looking' /\ Expansion' /\ Ended'
  BY DEF WalkInv, RootsFirst, Looking, Expansion, Ended, RootsAdded, Ids, Seen
<1> QED BY <1>1, <1>2, QuietStep DEF RootsAdded

\* A reply has been read, and all of it is still to be looked at.
LEMMA AskKeeps == ASSUME WalkInv, Ask PROVE WalkInv'
<1>1. qi \in Ids /\ Len(nodes) < maxSyms /\ nodes[qi].ticket \in Symbols
  BY NodesTyped DEF WalkInv, CallGraphTypeOK, Ask, Going, Ids
<1>2. nextOf[nodes[qi].ticket] \subseteq Symbols
  BY <1>1, GraphAssumption DEF WalkInv, CallGraphTypeOK
<1>3. CallGraphTypeOK'
  BY <1>2 DEF WalkInv, CallGraphTypeOK, Ask
<1>4. RootsFirst' /\ Ended'
  BY DEF WalkInv, RootsFirst, Ended, Ask, Ids
<1>5. Looking'
  BY <1>1 DEF Looking, Ask, Ids, Shallow
<1>6. Expansion'
  BY DEF WalkInv, Expansion, Ask, Ids, Seen
<1> QED BY <1>3, <1>4, <1>5, <1>6, QuietStep DEF Ask

\* A request that fails ends the walk.
LEMMA AskFailsKeeps == ASSUME WalkInv, AskFails PROVE WalkInv'
<1>1. CallGraphTypeOK'
  BY DEF WalkInv, CallGraphTypeOK, AskFails
<1>2. RootsFirst' /\ Looking' /\ Expansion' /\ Ended'
  BY DEF WalkInv, RootsFirst, Looking, Expansion, Ended, AskFails, Ids, Seen
<1> QED BY <1>1, <1>2, QuietStep DEF AskFails

\* The forest is printed as it is.
LEMMA PrintForestKeeps == ASSUME WalkInv, PrintForest PROVE WalkInv'
<1>1. CallGraphTypeOK'
  BY DEF WalkInv, CallGraphTypeOK, PrintForest
<1>2. RootsFirst' /\ Looking' /\ Expansion' /\ Ended'
  BY DEF WalkInv, RootsFirst, Looking, Expansion, Ended, PrintForest, Ids, Seen, Going
<1> QED BY <1>1, <1>2, QuietStep DEF PrintForest

-----------------------------------------------------------------------------
(***************************************************************************)
(* Steps to the next node.                                                 *)
(***************************************************************************)

\* The next node is as deep as this one, or a level deeper: InLevels moves on.
LEMMA LevelsMoveOn ==
    ASSUME WalkInv, qi \in Ids, nodes' = nodes, qi' = qi + 1
    PROVE  InLevels'
<1>1. Len(nodes) \in Nat /\ \A i \in Ids : nodes[i].depth \in Nat
  BY NodesTyped DEF WalkInv
<1>2. ASSUME qi' \in Ids, NEW j \in Ids PROVE nodes[j].depth <= nodes[qi'].depth + 1
  BY <1>1, <1>2 DEF WalkInv, InLevels, Ids
<1> QED BY <1>1, <1>2 DEF WalkInv, InLevels, Ids

\* No edge of a node that is expanded is a shortcut: nothing is deeper than
\* a level below it.
LEMMA ShortcutMovesOn ==
    ASSUME WalkInv, qi \in Ids, nodes' = nodes, qi' = qi + 1, nextOf' = nextOf
    PROVE  NoShortcut'
<1> SUFFICES ASSUME NEW i \in Ids, NEW j \in Ids, i < qi + 1, nodes[i].depth < Depth,
                    nodes[j].ticket \in nextOf[nodes[i].ticket] \cap Kept
             PROVE  nodes[j].depth <= nodes[i].depth + 1
  BY DEF NoShortcut, Ids
<1>1. i < qi \/ i = qi
  BY DEF Ids
<1> QED BY <1>1 DEF WalkInv, NoShortcut, InLevels, Ids

\* A node at the depth limit has nothing to expand.
LEMMA PassOverKeeps == ASSUME WalkInv, PassOver PROVE WalkInv'
<1>1. qi \in Ids /\ Len(nodes) \in Nat
  BY DEF WalkInv, CallGraphTypeOK, PassOver, Going, Ids
<1>2. CallGraphTypeOK'
  BY DEF WalkInv, CallGraphTypeOK, PassOver
<1>3. RootsFirst' /\ Looking' /\ Ended'
  BY DEF WalkInv, RootsFirst, Looking, Ended, PassOver, Ids
<1>4. Expansion'
  <2>1. ASSUME NEW i \in Ids, i < qi + 1, nodes[i].depth < Depth PROVE i < qi
    BY <1>1, <2>1 DEF PassOver, Shallow, Ids
  <2> QED BY <1>1, <2>1 DEF WalkInv, Expansion, PassOver, Ids, Seen
<1>5. Forest' /\ SymsBounded'
  BY SameForest, SameBound DEF WalkInv, PassOver
<1>6. InLevels' /\ NoShortcut'
  BY <1>1, LevelsMoveOn, ShortcutMovesOn DEF PassOver
<1> QED BY <1>2, <1>3, <1>4, <1>5, <1>6 DEF WalkInv

\* A reply that was looked at is in the list, unless the list is full.
LEMMA ExpandedKeeps == ASSUME WalkInv, Expanded PROVE WalkInv'
<1>1. qi \in Ids /\ Len(nodes) \in Nat
  BY DEF WalkInv, CallGraphTypeOK, Looking, Expanded, Ids
<1>2. CallGraphTypeOK'
  BY DEF WalkInv, CallGraphTypeOK, Expanded
<1>3. RootsFirst' /\ Looking' /\ Ended'
  BY DEF WalkInv, RootsFirst, Looking, Ended, Expanded, Ids
<1>4. Expansion'
  <2>1. ASSUME NEW i \in Ids, i < qi + 1 PROVE i < qi \/ i = qi
    BY <1>1, <2>1 DEF Ids
  <2> QED BY <1>1, <2>1 DEF WalkInv, Expansion, Expanded, Ids, Seen
<1>5. Forest' /\ SymsBounded'
  BY SameForest, SameBound DEF WalkInv, Expanded
<1>6. InLevels' /\ NoShortcut'
  BY <1>1, LevelsMoveOn, ShortcutMovesOn DEF Expanded
<1> QED BY <1>2, <1>3, <1>4, <1>5, <1>6 DEF WalkInv

-----------------------------------------------------------------------------
(***************************************************************************)
(* Steps that look at a ticket: a root or one of a reply.                  *)
(***************************************************************************)

\* A root is appended to roots.
LEMMA AddRootKeeps == ASSUME WalkInv, AddRoot PROVE WalkInv'
<1> DEFINE r == Head(roots)
           e == Node(r, 0, 0)
<1>1. r \in Symbols /\ Tail(roots) \in Seq(Symbols) /\ e \in NodeSet
  BY DEF WalkInv, CallGraphTypeOK, AddRoot, Node, NodeSet
<1>2. nodes \in Seq(NodeSet) /\ Len(nodes) \in Nat /\ qi = 1 /\ reply = {}
  BY NodesTyped DEF WalkInv, RootsFirst, AddRoot
<1>3. CASE r \in Seen
  <2>1. nodes' = nodes /\ nodes # <<>>
    BY <1>3 DEF AddRoot, Seen, Ids
  <2>2. CallGraphTypeOK'
    BY <1>1, <2>1 DEF WalkInv, CallGraphTypeOK, AddRoot
  <2>3. RootsFirst' /\ Looking' /\ Expansion' /\ Ended'
    BY <2>1 DEF WalkInv, RootsFirst, Looking, Expansion, Ended, AddRoot, Ids, Seen
  <2> QED BY <2>1, <2>2, <2>3, QuietStep DEF AddRoot
<1>4. CASE r \notin Seen
  <2>1. nodes' = Append(nodes, e)
    BY <1>4 DEF AddRoot
  <2>2. /\ nodes' \in Seq(NodeSet) /\ Len(nodes') = Len(nodes) + 1
        /\ \A i \in Ids : nodes'[i] = nodes[i]
        /\ nodes'[Len(nodes) + 1] = e
        /\ Ids' = Ids \cup {Len(nodes) + 1}
    BY <1>1, <1>2, <2>1, Appended DEF Ids
  <2>3. CallGraphTypeOK'
    BY <1>1, <2>2 DEF WalkInv, CallGraphTypeOK, AddRoot, NodeSet
  <2>4. \A i \in Ids' : nodes'[i].parent = 0 /\ nodes'[i].depth = 0
    <3>1. e.parent = 0 /\ e.depth = 0
      BY DEF Node
    <3>2. \A i \in Ids : nodes[i].parent = 0 /\ nodes[i].depth = 0
      BY DEF WalkInv, RootsFirst, AddRoot
    <3> QED BY <2>2, <3>1, <3>2
  <2>5. RootsFirst' /\ Looking' /\ Ended'
    BY <1>2, <2>2, <2>4 DEF RootsFirst, Looking, Ended, AddRoot, Ids
  <2>6. Expansion' /\ NoShortcut'
    BY <1>2, <2>2 DEF Expansion, NoShortcut, AddRoot, Ids
  <2>7. InLevels'
    <3>1. qi' = 1 /\ Len(nodes') \in Nat
      BY <1>2, <2>2 DEF AddRoot
    <3>2. \A j \in Ids' : nodes'[j].depth = 0
      BY <2>4
    <3>3. qi' <= Len(nodes') + 1
      BY <3>1
    <3>4. \A i, j \in Ids' : nodes'[i].depth <= nodes'[j].depth /\ nodes'[i].depth <= nodes'[j].depth + 1
      BY <3>2
    <3> QED BY <3>3, <3>4 DEF InLevels
  <2>8. SymsBounded'
    BY <2>4 DEF SymsBounded
  <2>9. ASSUME NEW i \in Ids', NEW j \in Ids', nodes'[i].ticket = nodes'[j].ticket PROVE i = j
    BY <1>4, <2>2, <2>9 DEF WalkInv, Forest, Seen, Node
  <2>10. Forest'
    BY <2>4, <2>9 DEF Forest
  <2> QED BY <2>3, <2>5, <2>6, <2>7, <2>8, <2>10 DEF WalkInv
<1> QED BY <1>3, <1>4

\* A ticket that is passed over.
LEMMA OldTicketKeeps ==
    ASSUME WalkInv, NEW t \in Symbols, Look(t), ~New(t)
    PROVE  WalkInv'
<1>1. nodes' = nodes /\ reply' = reply \ {t} /\ UNCHANGED <<maxSyms, nextOf, roots, qi, cgPc>>
  BY DEF Look
<1>2. CallGraphTypeOK'
  BY <1>1 DEF WalkInv, CallGraphTypeOK
<1>3. RootsFirst' /\ Looking' /\ Ended'
  BY <1>1 DEF WalkInv, RootsFirst, Looking, Ended, Look, Ids, Going
<1>4. Expansion'
  BY <1>1 DEF WalkInv, Expansion, Look, New, Ids, Seen
<1> QED BY <1>1, <1>2, <1>3, <1>4, QuietStep

\* A ticket that is new becomes a node, the deepest so far.
LEMMA NewTicketKeeps ==
    ASSUME WalkInv, NEW t \in Symbols, Look(t), New(t)
    PROVE  WalkInv'
<1> DEFINE e == Node(t, qi, nodes[qi].depth + 1)
           n == Len(nodes)
<1>1. /\ qi \in Ids /\ n \in Nat /\ n < maxSyms /\ maxSyms \in Nat
      /\ nodes \in Seq(NodeSet)
      /\ \A i \in Ids : nodes[i].depth \in Nat
      /\ nodes[qi].depth < Depth /\ t \in nextOf[nodes[qi].ticket] \cap Kept
  BY NodesTyped, GraphAssumption DEF WalkInv, CallGraphTypeOK, Looking, Look, New
<1>2. e \in NodeSet /\ e.ticket = t /\ e.parent = qi /\ e.depth = nodes[qi].depth + 1
  BY <1>1 DEF Node, NodeSet, Ids
<1>3. nodes' = Append(nodes, e) /\ UNCHANGED <<maxSyms, nextOf, roots, qi, cgPc>>
  BY DEF Look, Grown
<1>4. /\ nodes' \in Seq(NodeSet) /\ Len(nodes') = n + 1
      /\ \A i \in Ids : nodes'[i] = nodes[i]
      /\ nodes'[n + 1] = e
      /\ Ids' = Ids \cup {n + 1} /\ n + 1 \notin Ids
  BY <1>1, <1>2, <1>3, Appended DEF Ids
<1>5. Seen' = Seen \cup {t}
  BY <1>2, <1>4 DEF Seen
<1>6. reply' \subseteq reply \ {t} \/ reply' = {}
  BY DEF Look
<1>7. reply' # {} => reply' = reply \ {t} /\ Len(nodes') < maxSyms
  BY <1>1, <1>3, <1>4 DEF Look, Full
<1>8. CallGraphTypeOK'
  BY <1>3, <1>4, <1>6 DEF WalkInv, CallGraphTypeOK, NodeSet
<1>9. RootsFirst' /\ Ended'
  BY <1>1, <1>3, <1>4 DEF WalkInv, RootsFirst, Ended, Look, Ids
<1>10. Looking'
  BY <1>1, <1>3, <1>4, <1>7 DEF WalkInv, Looking
<1>11. InLevels'
  <2>1. ASSUME NEW i \in Ids', NEW j \in Ids', i <= j PROVE nodes'[i].depth <= nodes'[j].depth
    BY <1>1, <1>2, <1>4, <2>1 DEF WalkInv, InLevels, Ids
  <2>2. \A j \in Ids' : nodes'[j].depth <= nodes'[qi].depth + 1
    BY <1>1, <1>2, <1>4 DEF WalkInv, InLevels
  <2> QED BY <1>1, <1>3, <1>4, <2>1, <2>2 DEF InLevels, Ids
<1>12. Expansion'
  <2> SUFFICES ASSUME Len(nodes') < maxSyms PROVE Expansion'
    BY <1>3 DEF Expansion
  <2>1. reply' = reply \ {t}
    BY <1>1, <1>3, <1>4 DEF Look, Full
  <2>2. \A i \in Ids' : i < qi => i \in Ids
    BY <1>1, <1>4 DEF Ids
  <2> QED BY <1>1, <1>3, <1>4, <1>5, <2>1, <2>2 DEF WalkInv, Expansion
<1>13. NoShortcut'
  <2> SUFFICES ASSUME NEW i \in Ids', NEW j \in Ids', i < qi, nodes'[i].depth < Depth,
                      nodes'[j].ticket \in nextOf[nodes'[i].ticket] \cap Kept
               PROVE  nodes'[j].depth <= nodes'[i].depth + 1
    BY <1>3 DEF NoShortcut
  <2>1. i \in Ids
    BY <1>1, <1>4 DEF Ids
  <2>2. j # n + 1
    <3>1. nextOf[nodes[i].ticket] \cap Kept \subseteq Seen
      BY <1>1, <1>4, <2>1 DEF WalkInv, Expansion
    <3> QED BY <1>2, <1>4, <2>1, <3>1 DEF New
  <2> QED BY <1>4, <2>1, <2>2 DEF WalkInv, NoShortcut
<1>14. SymsBounded'
  <2>1. ASSUME NEW i \in Ids, nodes'[i].parent # 0 PROVE i <= maxSyms
    BY <1>4, <2>1 DEF WalkInv, SymsBounded
  <2>2. n + 1 <= maxSyms
    BY <1>1
  <2> QED BY <1>3, <1>4, <2>1, <2>2 DEF SymsBounded
<1>15. Forest'
  <2>1. ASSUME NEW i \in Ids', NEW j \in Ids', nodes'[i].ticket = nodes'[j].ticket PROVE i = j
    BY <1>2, <1>4, <2>1 DEF WalkInv, Forest, New, Seen
  <2>2. ASSUME NEW i \in Ids
        PROVE IF nodes'[i].parent = 0 THEN nodes'[i].depth = 0
              ELSE LET p == nodes'[i].parent IN
                   /\ p < i
                   /\ nodes'[i].depth = nodes'[p].depth + 1
                   /\ nodes'[i].ticket \in nextOf[nodes'[p].ticket] \cap Kept
                   /\ nodes'[i].depth <= Depth
    <3>1. nodes'[i] = nodes[i]
      BY <1>4
    <3>2. CASE nodes[i].parent # 0
      <4>1. nodes[i].parent \in Ids
        BY <3>2, NodesTyped DEF WalkInv, Forest, Ids
      <4> QED BY <1>4, <3>1, <3>2, <4>1 DEF WalkInv, Forest
    <3> QED BY <3>1, <3>2 DEF WalkInv, Forest
  <2>3. qi # 0 /\ qi < n + 1 /\ nodes'[qi] = nodes[qi] /\ nodes[qi].depth + 1 <= Depth
    BY <1>1, <1>4, GraphAssumption DEF Ids
  <2>4. /\ e.parent # 0 /\ e.parent < n + 1
        /\ e.depth = nodes'[e.parent].depth + 1
        /\ e.ticket \in nextOf[nodes'[e.parent].ticket] \cap Kept
        /\ e.depth <= Depth
    BY <1>1, <1>2, <2>3
  <2>5. \A i \in Ids' : IF nodes'[i].parent = 0 THEN nodes'[i].depth = 0
              ELSE LET p == nodes'[i].parent IN
                   /\ p < i
                   /\ nodes'[i].depth = nodes'[p].depth + 1
                   /\ nodes'[i].ticket \in nextOf[nodes'[p].ticket] \cap Kept
                   /\ nodes'[i].depth <= Depth
    <3> HIDE DEF e
    <3> QED BY <1>4, <2>2, <2>4
  <2> QED BY <1>3, <2>1, <2>5 DEF Forest
<1> QED BY <1>8, <1>9, <1>10, <1>11, <1>12, <1>13, <1>14, <1>15 DEF WalkInv

-----------------------------------------------------------------------------
\* Every step of the walk keeps the invariant.
THEOREM WalkGoesOn == WalkInv /\ [WalkNext]_cgVars => WalkInv'
<1> SUFFICES ASSUME WalkInv, [WalkNext]_cgVars PROVE WalkInv'
  OBVIOUS
<1>1. CASE AnyRoots
  BY <1>1, AnyRootsKeeps
<1>2. CASE AddRoot
  BY <1>2, AddRootKeeps
<1>3. CASE RootsAdded
  BY <1>3, RootsAddedKeeps
<1>4. CASE Ask
  BY <1>4, AskKeeps
<1>5. CASE AskFails
  BY <1>5, AskFailsKeeps
<1>6. CASE PassOver
  BY <1>6, PassOverKeeps
<1>7. ASSUME NEW t \in Symbols, Look(t) PROVE WalkInv'
  BY <1>7, OldTicketKeeps, NewTicketKeeps
<1>8. CASE Expanded
  BY <1>8, ExpandedKeeps
<1>9. CASE PrintForest
  BY <1>9, PrintForestKeeps
<1>10. CASE UNCHANGED cgVars
  <2>1. CallGraphTypeOK' /\ RootsFirst' /\ Looking' /\ Expansion' /\ Ended'
    BY <1>10 DEF WalkInv, cgVars, CallGraphTypeOK, RootsFirst, Looking, Expansion, Ended, Ids, Seen, Going
  <2> QED BY <1>10, <2>1, QuietStep DEF cgVars
<1> QED BY <1>1, <1>2, <1>3, <1>4, <1>5, <1>6, <1>7, <1>8, <1>9, <1>10 DEF WalkNext, WalkStep

\* The invariant holds throughout.
THEOREM WalkAlways == WalkSpec => []WalkInv
BY WalkStarts, WalkGoesOn, PTL DEF WalkSpec, WalkNext

\* Every state of a walk has its type.
THEOREM WalkTyped == WalkSpec => []CallGraphTypeOK
<1>1. WalkInv => CallGraphTypeOK
  BY DEF WalkInv
<1> QED BY <1>1, WalkAlways, PTL

\* The nodes are a forest over the graph of the serving table.
THEOREM WalkIsForest == WalkSpec => []Forest
<1>1. WalkInv => Forest
  BY DEF WalkInv
<1> QED BY <1>1, WalkAlways, PTL

\* Every node is found by a nearest discoverer: the depths are distances.
THEOREM WalkIsBreadthFirst == WalkSpec => []NoShortcut
<1>1. WalkInv => NoShortcut
  BY DEF WalkInv
<1> QED BY <1>1, WalkAlways, PTL

\* Only roots exceed --max-syms.
THEOREM WalkIsBounded == WalkSpec => []SymsBounded
<1>1. WalkInv => SymsBounded
  BY DEF WalkInv
<1> QED BY <1>1, WalkAlways, PTL

\* A printed forest below --max-syms leaves nothing out.
THEOREM WalkIsClosed == WalkSpec => []ClosedUnlessCut
<1>1. WalkInv => ClosedUnlessCut
  <2> SUFFICES ASSUME WalkInv, cgPc = "printed", Len(nodes) < maxSyms PROVE ClosedUnlessCut
    BY DEF ClosedUnlessCut
  <2>1. qi > Len(nodes)
    BY NodesTyped DEF WalkInv, CallGraphTypeOK, Ended, Going
  <2>2. \A i \in Ids : i < qi
    BY <2>1, NodesTyped DEF WalkInv, CallGraphTypeOK, Ids
  <2> QED BY <2>2 DEF WalkInv, Expansion, ClosedUnlessCut
<1> QED BY <1>1, WalkAlways, PTL

\* A printed forest is not empty.
THEOREM WalkHasTree == WalkSpec => []SomethingPrinted
<1>1. WalkInv => SomethingPrinted
  BY DEF WalkInv, RootsFirst, SomethingPrinted
<1> QED BY <1>1, WalkAlways, PTL
=============================================================================
