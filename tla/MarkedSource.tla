---------------------------- MODULE MarkedSource ----------------------------
(***************************************************************************)
(* The name of a node from its MarkedSource (marked_source.rs), a tree of  *)
(* [pre, child, joiner, final, post] that is rendered as a text and cut.   *)
(***************************************************************************)
EXTENDS QueryTexts

CONSTANT Declarations   \* functions: [type, scope, name, params], -1 for no parameter list

\* Mutant: a node without a text is joined with the others.
MutShown(text) == TRUE

\* `if out.is_empty() { None }`
Shown(text) == text # <<>>

\* The text of a node; add_final_list_token adds a joiner behind the children.
RECURSIVE Render(_)
Render(n) ==
    LET texts == SelectSeq([k \in 1 .. Len(n.child) |-> Render(n.child[k])], Shown) IN
    n.pre \o Joined(texts, n.joiner)
          \o (IF texts # <<>> /\ n.final THEN n.joiner ELSE <<>>)
          \o n.post

\* The text without the characters at its end that are in a set.
RECURSIVE TrimEnd(_, _)
TrimEnd(text, chars) ==
    IF text # <<>> /\ Last(text) \in chars THEN TrimEnd(Front(text), chars) ELSE text

\* parse_marked_source_fqn, of a tree that can be parsed: the last word before
\* the parameters.  <<>> for None.
QualifiedName(n) ==
    LET full    == Render(n)
        cut     == Positions(full, {"("})
        trimmed == TrimEnd(IF cut = {} THEN full ELSE SubSeq(full, 1, Least(cut) - 1), {" "})
        blanks  == Positions(trimmed, {" "}) IN
    TrimEnd(IF blanks = {} THEN trimmed
            ELSE SubSeq(trimmed, 1 + (CHOOSE i \in blanks : \A j \in blanks : j <= i), Len(trimmed)),
            {":"})

-----------------------------------------------------------------------------
(***************************************************************************)
(* Properties.                                                             *)
(***************************************************************************)
Leaf(text) == [pre |-> text, child |-> <<>>, joiner |-> <<>>, final |-> FALSE, post |-> <<>>]
Box(child) == [Leaf(<<>>) EXCEPT !.child = child]

\* The MarkedSource of a function as the C++ indexer writes it: its type, its
\* qualified name, and its parameters with their types.
Written(d) ==
    LET scope  == [Box([k \in 1 .. Len(d.scope) |-> Leaf(d.scope[k])])
                      EXCEPT !.joiner = <<":", ":">>, !.final = TRUE]
        params == [Box([k \in 1 .. d.params |-> Leaf(<<"int", " ", "p">>)])
                      EXCEPT !.pre = <<"(">>, !.joiner = <<",", " ">>, !.post = <<")">>] IN
    Box((IF d.type = <<>> THEN <<>> ELSE <<Leaf(d.type \o <<" ">>)>>)
            \o <<Box(<<scope, Leaf(d.name)>>)>> \o (IF d.params < 0 THEN <<>> ELSE <<params>>))

\* What a user types: the scopes that have a name, and the declaration's own.
UserName(d) == Joined(SelectSeq(d.scope, LAMBDA t : t # <<>>) \o <<d.name>>, <<":", ":">>)

\* No bracket before the parameters, and no blank behind the type.
Simple(d) ==
    /\ Positions(d.type, {"("}) = {}
    /\ \A text \in Range(d.scope) \cup {d.name} : Positions(text, {"(", " "}) = {}

\* Those declarations have the name that a user types.
SimpleWellNamed == \A d \in Declarations : Simple(d) => QualifiedName(Written(d)) = UserName(d)

\* The row of a declaration without a bracket in its type, or a bracket or a
\* blank in its name, has the name that a user types: what is cut off are its
\* type, its parameters, and scopes without a name.
DeclarationsNamed == loaded => SimpleWellNamed
=============================================================================
