------------------------------- MODULE MCKzip -------------------------------
(***************************************************************************)
(* Instances of SubKzip for TLC: kzips of two names, the first one in both *)
(* encodings, in one or in none.                                           *)
(***************************************************************************)
EXTENDS SubKzip

CONSTANTS inC, inH, inE, rawE, outC, outH, d1, d2, keep, profile, first, second

\* A unit with these paths, and no flag set.
MCUnit(source, input, own) ==
    [source |-> source, input |-> input, own |-> own, args |-> <<keep, profile>>,
     wanted |-> TRUE, errors |-> FALSE, details |-> FALSE, cut |-> FALSE]

In(vName, info, digest) == [vName |-> vName, info |-> info, digest |-> digest]

\* A usual unit, of each side of the filter, the first with a header that it
\* needs twice.
MCPlain == MCUnit(<<inC>>, <<In(inC, inC, d1), In(inH, inH, d2), In(inH, NoPath, d2)>>, NoPath)
MCOther == MCUnit(<<outC, inC>>, <<In(outC, outC, d2)>>, outC)

\* Units without source_file: the peek and the decoder look for the path in
\* the first input, behind it, and in the unit's own v_name.
MCBare ==
    {MCUnit(<<>>, <<In(inH, inH, d1), In(outC, NoField, NoDigest)>>, NoPath),
     MCUnit(<<>>, <<In(NoPath, NoPath, d2)>>, inC),
     MCUnit(<<>>, <<In(NoField, inC, d1)>>, outH),
     MCUnit(<<>>, <<>>, inH), MCUnit(<<>>, <<>>, outH)}

MCFlagged ==
    {[MCPlain EXCEPT !.errors = TRUE, !.args = <<first, second>>], [MCOther EXCEPT !.cut = TRUE],
     [MCPlain EXCEPT !.details = TRUE, !.args = <<second, keep>>],
     [MCPlain EXCEPT !.details = TRUE, !.args = <<first, second>>],
     [MCPlain EXCEPT !.wanted = FALSE], [MCOther EXCEPT !.args = <<>>]}

\* Units with a path that has an escape in JSON, in front and behind.
MCEscaped == {MCUnit(<<inE>>, <<In(inE, inE, d1)>>, NoPath), MCUnit(<<>>, <<In(inE, inE, d1)>>, outH)}

MCUnitValues == {MCPlain, MCOther} \cup MCBare \cup MCFlagged \cup MCEscaped

MCJsonText == [p \in Path |-> IF p = inE THEN rawE ELSE p]

CONSTANTS s1, s2

\* Every pair of units of the name s1, and a few of s2.
MCArchives ==
    {[enc \in Encodings |->
        [s \in Sha |-> IF s = s1 THEN IF enc = "proto" THEN p ELSE j
                       ELSE IF enc = x.enc THEN x.unit ELSE NoUnit]] :
        p \in UnitValues \cup {NoUnit}, j \in UnitValues \cup {NoUnit},
        x \in [enc : Encodings, unit : {MCPlain, MCOther}] \cup [enc : {"json"}, unit : {NoUnit}]}

\* No filter, --in of the one side, whose prefix no escaped text has, and
\* --not-in of the other.
MCFilters == {Anything, {inC, inH, inE}, {inC, inH, inE, rawE, NoPath}}

\* Rules that nest, and one for every path.
MCRules == <<[under |-> {inC}, arg |-> first], [under |-> {inC, inH, inE}, arg |-> second],
             [under |-> Path, arg |-> first]>>
=============================================================================
