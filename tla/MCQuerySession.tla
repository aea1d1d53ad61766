-------------------------- MODULE MCQuerySession ---------------------------
(***************************************************************************)
(* Instances of QuerySession and MarkedSource for TLC.                     *)
(***************************************************************************)
EXTENDS MarkedSource

\* Two files that share a name and a ticket, and one without a name.
MCRowsIn == <<{Row(1, 1), Row(2, 2)}, {Row(1, 2), Row(3, 3)}, {}>>

\* The ticket of a cut line has no edges.
MCSymbols == Tickets \cup {Torn}

\* Two roots (of name 1), cycles, shared and repeated symbols.
MCGraphs ==
    {g \in [MCSymbols -> SUBSET Tickets] :
        /\ g[1] \in {{}, {2, 3}, {2, 3, 4}} /\ g[4] = {1}
        /\ g[2] \in {{}, {3, 4}} /\ g[3] \in {{}, {4}, {2, 4}}
        /\ g[Torn] = {}}

SeqsUpTo(S, n) == UNION {[1 .. m -> S] : m \in 0 .. n}

\* Characters, and their codes.
MCHex == {"1", "2", "3", "4", "5", "6", "8", "9", "D", "E", "F"}
MCCode ==
    ("1" :> <<"3", "1">>) @@ ("2" :> <<"3", "2">>) @@ ("3" :> <<"3", "3">>) @@ ("4" :> <<"3", "4">>)
    @@ ("5" :> <<"3", "5">>) @@ ("6" :> <<"3", "6">>) @@ ("8" :> <<"3", "8">>) @@ ("9" :> <<"3", "9">>)
    @@ ("D" :> <<"4", "4">>) @@ ("E" :> <<"4", "5">>) @@ ("F" :> <<"4", "6">>)
    @@ ("a" :> <<"6", "1">>) @@ ("m" :> <<"6", "D">>) @@ ("." :> <<"2", "E">>)
    @@ ("(" :> <<"2", "8">>) @@ (")" :> <<"2", "9">>)
    @@ ("/" :> <<"2", "F">>) @@ ("%" :> <<"2", "5">>) @@ ("?" :> <<"3", "F">>) @@ ("#" :> <<"2", "3">>)

\* Every path of up to four segments; and every signature of up to three
\* characters beside a path, or a root, with characters that are escaped.
MCVNames ==
    [corpus : {<<>>, <<"a">>, <<"a", "/", "?">>}, language : {<<>>, <<"#">>},
     path : SeqsUpTo({"", ".", "..", "a", "%"}, 4) \ {<<"">>},
     root : {<<>>}, signature : {<<>>, <<"a">>}]
    \cup
    [corpus : {<<>>, <<"a">>}, language : {<<>>},
     path : {<<>>, <<"a">>, <<"?", "#">>, <<"%", "2", "F">>},
     root : {<<>>, <<"a">>, <<"/">>}, signature : SeqsUpTo({"%", "2", "F", "/", "#", "?"}, 3)]

\* A letter, a character that is in no type, and brackets anywhere.
MCSignatures == SeqsUpTo({"m", ".", "(", ")"}, 6)

\* Types with blanks and with brackets, scopes without a name, destructors and
\* operators.
MCDeclarations ==
    [type : {<<>>, <<"int">>, <<"const", " ", "T", " ", "*">>,
             <<"function<void", "(", "int", ")", ">">>, <<"decltype", "(", "auto", ")">>},
     scope : SeqsUpTo({<<>>, <<"a">>, <<"b">>}, 3),
     name : {<<"f">>, <<"~", "a">>, <<"operator", "==">>, <<"operator", "(", ")">>,
             <<"operator", " ", "bool">>},
     params : -1 .. 2]

\* Longer than the accumulator is wide.
MCTexts64 == SeqsUpTo({0, 1, 41, 63, Blank}, 5) \cup SeqsUpTo({42, Bad}, 7)
=============================================================================
