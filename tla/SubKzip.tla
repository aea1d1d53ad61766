------------------------------- MODULE SubKzip ------------------------------
(***************************************************************************)
(* Writing kzips from the units of a read: normalize_progress makes one    *)
(* proto kzip of all of them (kzip.rs), and `index` and `index-stream` one *)
(* of each unit they are to index, with its arguments rewritten (kzip.rs,  *)
(* SubKzipWriter::extract_with; indexer.rs, stream.rs).                    *)
(***************************************************************************)
EXTENDS KzipRead, Lists

CONSTANTS
    ProfileArg,   \* arguments that start with -fprofile-sample-use
    Rules         \* --inject-cu-arg, in order: [under : paths with its prefix, arg]

ASSUME RuleAssumption ==
    /\ ProfileArg \subseteq Arg
    /\ Rules \in Seq([under : SUBSET Path, arg : Arg])   \* "empty PREFIX"

\* An archive is a file.
ASSUME FilesAssumption == IsFiniteSet(Digest)

VARIABLES
    files,   \* digests of the files in the archive
    made     \* the kzip that was written last: [kind, units, blobs]

vars == <<readVars, files, made>>

NoKzip == [kind |-> "none", units |-> [s \in Sha |-> NoUnit], blobs |-> <<>>]

Init == /\ ReadInit
        /\ files \in SUBSET Digest
        /\ made = NoKzip

-----------------------------------------------------------------------------
(***************************************************************************)
(* One unit.                                                               *)
(***************************************************************************)

\* The encoding in which a unit was read, and the decoded unit.
EncodingOf(s) == CHOOSE enc \in Encodings : enc \in read[s]
Wire(s) == archive[EncodingOf(s)][s]
Unit(s) == Decoded(Wire(s))

\* The arguments of the rules whose prefix the primary path has.
Matching(u) == Filtered(Rules, {r \in ToSet(Rules) : PrimaryPath(u) \in r.under})

\* Mutant: every rule is applied from the first one on.
MutInjected(rules, args) ==
    FoldLeft(LAMBDA acc, r : IF Contains(acc, r.arg) THEN acc ELSE <<r.arg>> \o acc, args, rules)

\* `for &a in matching.iter().rev()`: in front, unless it is there already.
Injected(rules, args) ==
    FoldRight(LAMBDA r, acc : IF Contains(acc, r.arg) THEN acc ELSE <<r.arg>> \o acc, rules, args)

\* The transform that the indexers apply to a unit.
Transformed(u) ==
    [u EXCEPT !.args = Injected(Matching(u), Filtered(@, Arg \ ProfileArg))]

\* Mutant: the bytes of a JSON unit are copied, too.
MutUnitBytes(s) ==
    IF Transformed(Unit(s)).args = Unit(s).args THEN Wire(s) ELSE Encoded(Transformed(Unit(s)))

\* extract_with: the bytes of a proto unit whose arguments the transform has
\* left as they were, otherwise the decoded unit, encoded.
UnitBytes(s) ==
    LET cu == Transformed(Unit(s)) IN
    IF "proto" \in read[s] /\ cu.args = Unit(s).args THEN Wire(s) ELSE Encoded(cu)

\* The files that a unit names, NoDigest for an input without one.
Needs(u) == {u.input[k].digest : k \in 1 .. Len(u.input)}

\* Mutant: a digest that was copied is copied again.
MutBlobs(u) == SelectSeq([k \in 1 .. Len(u.input) |-> u.input[k].digest], LAMBDA d : d \in files)

\* The files of its inputs that the archive has, each once.
Blobs(u) ==
    FoldLeft(LAMBDA acc, i : IF i.digest \in files /\ ~Contains(acc, i.digest)
                             THEN Append(acc, i.digest) ELSE acc,
             <<>>, u.input)

\* The plan of an index run: its language is wanted, and the filter is asked again.
Planned == {s \in Sha : read[s] # {} /\ Unit(s).wanted /\ Accepted(Unit(s))}

Extract(s) ==
    /\ rpc = "done" /\ s \in Planned
    /\ made' = [kind |-> "sub", units |-> [NoKzip.units EXCEPT ![s] = UnitBytes(s)],
                blobs |-> Blobs(Unit(s))]
    /\ UNCHANGED <<readVars, files>>

-----------------------------------------------------------------------------
(***************************************************************************)
(* All units.                                                              *)
(***************************************************************************)

\* to_proto_bytes
ProtoBytes(s) == IF "proto" \in read[s] THEN Wire(s) ELSE Encoded(Unit(s))

NeededFiles == UNION {Needs(Unit(s)) : s \in {t \in Sha : read[t] # {}}}

\* The files are written in the order of a HashSet.
Normalize ==
    /\ rpc = "done" /\ ~HasFilter
    /\ \E order \in SetToSeqs(NeededFiles \cap files) :
          made' = [kind  |-> "normal",
                   units |-> [s \in Sha |-> IF read[s] = {} THEN NoUnit ELSE ProtoBytes(s)],
                   blobs |-> order]
    /\ UNCHANGED <<readVars, files>>

Next ==
    \/ ReadStep /\ UNCHANGED <<files, made>>
    \/ \E s \in Sha : Extract(s)
    \/ Normalize

Spec == Init /\ [][Next]_vars

-----------------------------------------------------------------------------
(***************************************************************************)
(* Properties.                                                             *)
(***************************************************************************)
Made(s) == made.units[s] # NoUnit

\* No kzip has a file twice; it has every file that its units need and the
\* archive has, and no other: an indexer finds its headers.
SelfContained ==
    made.kind # "none" =>
        /\ Cardinality(ToSet(made.blobs)) = Len(made.blobs)
        /\ ToSet(made.blobs) =
               files \cap UNION {Needs(made.units[s]) : s \in {t \in Sha : Made(t)}}

\* An indexer that reads a sub-kzip finds the unit that was read from the
\* archive, in all that the decoder knows, whatever its encoding and whether
\* its bytes were copied or not; and a proto unit whose arguments are left as
\* they were it finds as it was.
SubKzipFaithful ==
    made.kind = "sub" => \A s \in Sha : Made(s) =>
        LET got == made.units[s] IN
        /\ Decodes("proto", got)
        /\ [Decoded(got) EXCEPT !.args = <<>>] = [Unit(s) EXCEPT !.args = <<>>]
        /\ read[s] = {"proto"} /\ got.args = Wire(s).args => got = Wire(s)

\* Its arguments are those of the matching rules, each once, in the order of
\* the rules (the last one that has it), but for what the unit has itself;
\* then the unit's own ones in their order, but for its profile flags.
ArgsInjected ==
    made.kind = "sub" => \A s \in Sha : Made(s) =>
        LET rules == Matching(Unit(s))
            own   == Filtered(Unit(s).args, Arg \ ProfileArg)
            front == {k \in 1 .. Len(rules) :
                         /\ rules[k].arg \notin ToSet(own)
                         /\ \A j \in k + 1 .. Len(rules) : rules[j].arg # rules[k].arg} IN
        made.units[s].args =
            [i \in 1 .. Cardinality(front) |-> rules[Nth(front, i)].arg] \o own

\* A normalized kzip has the units of the archive: reading it gives each name
\* once, and the unit that a read of the archive gives.
NormalizeKeeps ==
    made.kind = "normal" => \A s \in Sha :
        /\ Made(s) <=> Present("proto", s) \/ Present("json", s)
        /\ Made(s) => /\ Decodes("proto", made.units[s])
                      /\ Decoded(made.units[s]) =
                            Decoded(IF Present("proto", s) THEN archive["proto"][s] ELSE archive["json"][s])
=============================================================================
