----------------------------- MODULE QueryVerbs -----------------------------
(***************************************************************************)
(* The commands that print what the backend says of each ticket a name     *)
(* resolves to (query.rs): `def` and `ref` one list of anchors, `callers`  *)
(* two, `super` and `sub` the types at the end of its edges.  What is in   *)
(* the lists are symbols, those that the call graph goes to.               *)
(***************************************************************************)
EXTENDS CallGraph, Lists, SequencesExt

CONSTANT Limit    \* --limit

ASSUME VerbAssumption ==
    /\ Limit \in Nat
    /\ \A g \in Graphs : \A s \in Symbols : IsFiniteSet(g[s])

Verbs == {"refs", "callers", "types"}

VARIABLES
    verb,       \* the command: "none" before it starts, "callgraph" or one of Verbs
    json,       \* --json
    answered,   \* how many of roots are done
    shown,      \* lines printed
    ended       \* "no", "printed" or "failed"

verbVars == <<verb, json, answered, shown, ended>>

Header(t, list)  == [line |-> "header", of |-> t, list |-> list]
Item(t, list, s) == [line |-> "item", of |-> t, list |-> list, sym |-> s]
NoResults        == [line |-> "(no ..)"]

\* `total`, the items printed so far.
ItemLines == {k \in 1 .. Len(shown) : shown[k].line = "item"}
Total == Cardinality(ItemLines)

VerbInit == verb = "none" /\ json = FALSE /\ answered = 0 /\ shown = <<>> /\ ended = "no"

\* Mutant: the limit is looked at before the item is counted.
MutCut(items, limit) == SubSeq(items, 1, IF limit < Len(items) THEN limit - 1 ELSE Len(items))

\* The limit is looked at after an item: there is always one.
Cut(items, limit) ==
    SubSeq(items, 1, IF Len(items) <= limit THEN Len(items)
                     ELSE IF limit < 1 THEN 1 ELSE limit)

ItemsOf(t, list, items) == [k \in 1 .. Len(items) |-> Item(t, list, items[k])]

\* Mutant: the header is printed before the filter is asked.
MutAnchors(t, list, kept) == <<Header(t, list)>> \o ItemsOf(t, list, Cut(kept, Limit))

\* print_anchors: a limit for each list
Anchors(t, list, kept) ==
    IF kept = <<>> THEN <<>> ELSE <<Header(t, list)>> \o ItemsOf(t, list, Cut(kept, Limit))

\* inheritance: one header and one limit for all tickets, but that each ticket
\* prints a type before it finds the limit reached.
Types(t, kept) ==
    (IF kept # <<>> /\ Total = 0 THEN <<Header(t, 1)>> ELSE <<>>)
        \o ItemsOf(t, 1, Cut(kept, IF Total < Limit THEN Limit - Total ELSE 0))

\* What is printed of a reply; with --json all of it.
Lines(t, items) ==
    LET kept == Filtered(items, Kept) IN
    IF json THEN ItemsOf(t, 1, items)
    ELSE CASE verb = "refs"    -> Anchors(t, 1, kept)
           [] verb = "callers" -> Anchors(t, 1, kept) \o Anchors(t, 2, kept)
           [] verb = "types"   -> Types(t, kept)

Asking == verb \in Verbs /\ cgPc = "roots" /\ ended = "no"

\* One request for each ticket; the order of a reply is the backend's.
Answer ==
    /\ Asking /\ answered < Len(roots)
    /\ LET t == roots[answered + 1] IN
       \E items \in SetToSeqs(nextOf[t]) : shown' = shown \o Lines(t, items)
    /\ answered' = answered + 1
    /\ UNCHANGED <<cgVars, verb, json, ended>>

\* `?`: what was printed before stays.
AnswerFails ==
    /\ Asking /\ answered < Len(roots)
    /\ ended' = "failed"
    /\ UNCHANGED <<cgVars, verb, json, answered, shown>>

NoneShown == Total = 0

EndVerb ==
    /\ Asking /\ answered = Len(roots)
    /\ shown' = IF ~json /\ NoneShown THEN Append(shown, NoResults) ELSE shown
    /\ ended' = "printed"
    /\ UNCHANGED <<cgVars, verb, json, answered>>

VerbStep == Answer \/ AnswerFails \/ EndVerb

-----------------------------------------------------------------------------
(***************************************************************************)
(* Properties.                                                             *)
(***************************************************************************)
ShownOf(t) == {k \in ItemLines : shown[k].of = t}

\* What the filter keeps of a reply is printed, unless the limit was reached:
\* of this ticket, or in all for super and sub.  Nothing else is printed, and
\* "(no ..)" exactly if every request was answered and nothing was kept.
NothingHidden ==
    /\ \A k \in ItemLines : shown[k].sym \in nextOf[shown[k].of] /\ (json \/ shown[k].sym \in Kept)
    /\ ended = "printed" =>
           \A i \in 1 .. Len(roots) :
               LET due  == IF json THEN nextOf[roots[i]] ELSE nextOf[roots[i]] \cap Kept
                   mine == ShownOf(roots[i]) IN
               \/ due \subseteq {shown[k].sym : k \in mine}
               \/ /\ ~json /\ mine # {}
                  /\ IF verb = "types" THEN Total >= Limit
                     ELSE \A l \in {shown[k].list : k \in mine} :
                              Cardinality({k \in mine : shown[k].list = l}) >= Limit
    /\ (NoResults \in Range(shown)) <=>
           ( /\ verb \in Verbs /\ ~json /\ ended = "printed"
             /\ \A i \in 1 .. Len(roots) : nextOf[roots[i]] \cap Kept = {} )

\* An anchor stands below the header of its own ticket and list, and there is
\* no header without an anchor, also if a later request fails.
OwnHeader ==
    verb \in {"refs", "callers"} /\ ~json =>
        \A k \in 1 .. Len(shown) :
            /\ shown[k].line = "item" =>
                   \E h \in 1 .. k - 1 :
                       /\ shown[h] = Header(shown[k].of, shown[k].list)
                       /\ \A j \in h + 1 .. k - 1 : shown[j].line = "item"
            /\ shown[k].line = "header" => k < Len(shown) /\ shown[k + 1].line = "item"
=============================================================================
