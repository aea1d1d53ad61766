------------------------------ MODULE KzipRead ------------------------------
(***************************************************************************)
(* Reading a kzip (kzip.rs, read_units_progress, read_units_filtered): the *)
(* proto units first, then the JSON units that have no proto twin among    *)
(* those read.  A command with a path filter peeks at a unit before it     *)
(* decodes it.                                                             *)
(***************************************************************************)
EXTENDS KzipUnits, FiniteSets

CONSTANTS
    Sha,        \* names of units
    NoUnit,     \* no unit of that name
    Archives,   \* what the kzip may hold: encoding -> sha -> unit
    Filters     \* what --in and --not-in may accept: sets of paths and texts

Anything == Path \cup RawText \cup {NoPath}

ASSUME ArchiveAssumption ==
    /\ NoUnit \notin CompilationUnit
    /\ Archives \subseteq [Encodings -> [Sha -> UnitValues \cup {NoUnit}]]
    /\ Filters \subseteq SUBSET Anything

VARIABLES
    archive,     \* what the kzip holds
    accept,      \* the paths that the command's filters accept
    rpc,         \* "proto", "json", "done" or "failed"
    todo,        \* entries of this pass that are still to be read
    protoShas,   \* proto_shas
    read         \* sha -> encodings in which it is in the result

readVars == <<archive, accept, rpc, todo, protoShas, read>>

Entries(enc) == {s \in Sha : archive[enc][s] # NoUnit}

\* Without --in and --not-in every unit is decoded.
HasFilter == accept # Anything

\* The types of the reader; proto_shas has the names of the proto units that
\* it returns, and of no other.
ReadTypeOK ==
    /\ archive \in Archives /\ accept \in Filters
    /\ rpc \in {"proto", "json", "done", "failed"}
    /\ todo \subseteq Sha
    /\ read \in [Sha -> SUBSET Encodings]
    /\ protoShas = {s \in Sha : "proto" \in read[s]}

ReadInit ==
    /\ archive \in Archives /\ accept \in Filters
    /\ rpc = "proto" /\ todo = Entries("proto")
    /\ protoShas = {} /\ read = [s \in Sha |-> {}]

\* Mutant: a peek that finds nothing counts as the empty path.
MutPeekRejects(enc, u) ==
    HasFilter /\ (IF Peek(enc, u) = Unknown THEN NoPath ELSE Peek(enc, u)) \notin accept

\* The peek has found a path, and the filter rejects it.
PeekRejects(enc, u) == HasFilter /\ Peek(enc, u) # Unknown /\ Peek(enc, u) \notin accept

\* What the filter says of the decoded unit.
Accepted(u) == PrimaryPath(u) \in accept

\* The entry of this pass that is looked at.
Next1(enc, s) ==
    /\ rpc = enc /\ s \in todo
    /\ todo' = todo \ {s}
    /\ UNCHANGED <<archive, accept>>

PassOver(enc, s) ==
    /\ Next1(enc, s)
    /\ \/ enc = "json" /\ s \in protoShas
       \/ PeekRejects(enc, archive[enc][s])
    /\ UNCHANGED <<rpc, protoShas, read>>

\* Mutant: a name that the proto pass has returned is decoded again.
MutLooksAt(enc, s) == ~PeekRejects(enc, archive[enc][s])

\* It is decoded.
LooksAt(enc, s) == ~(enc = "json" /\ s \in protoShas) /\ ~PeekRejects(enc, archive[enc][s])

\* `with_context(|| "decode unit")?`: one unit fails the command.
DecodeFails(enc, s) ==
    /\ Next1(enc, s)
    /\ LooksAt(enc, s) /\ ~Decodes(enc, archive[enc][s])
    /\ rpc' = "failed"
    /\ UNCHANGED <<protoShas, read>>

Decode(enc, s) ==
    /\ Next1(enc, s)
    /\ LooksAt(enc, s) /\ Decodes(enc, archive[enc][s])
    /\ IF Accepted(archive[enc][s])
       THEN /\ read' = [read EXCEPT ![s] = @ \cup {enc}]
            /\ protoShas' = IF enc = "proto" THEN protoShas \cup {s} ELSE protoShas
       ELSE UNCHANGED <<read, protoShas>>
    /\ UNCHANGED rpc

EndPass ==
    /\ todo = {}
    /\ \/ rpc = "proto" /\ rpc' = "json" /\ todo' = Entries("json")
       \/ rpc = "json" /\ rpc' = "done" /\ UNCHANGED todo
    /\ UNCHANGED <<archive, accept, protoShas, read>>

ReadStep ==
    \/ \E enc \in Encodings, s \in Sha : PassOver(enc, s) \/ DecodeFails(enc, s) \/ Decode(enc, s)
    \/ EndPass

ReadSpec == ReadInit /\ [][ReadStep]_readVars

-----------------------------------------------------------------------------
(***************************************************************************)
(* Properties.                                                             *)
(***************************************************************************)
Present(enc, s) == archive[enc][s] # NoUnit

\* What the filter says of a unit that is in the archive.
AcceptedIn(enc, s) == Present(enc, s) /\ Accepted(archive[enc][s])

\* What a read is to return of a name: its proto unit if it has one, or else
\* its JSON unit, if the filter accepts the unit's primary path.
ToBeRead(s) ==
    IF Present("proto", s)
    THEN IF AcceptedIn("proto", s) THEN {"proto"} ELSE {}
    ELSE IF AcceptedIn("json", s) THEN {"json"} ELSE {}

\* A peek that finds a path does not contradict the decoder on the filter.
PeeksAgree ==
    HasFilter => \A enc \in Encodings, s \in Sha :
        Present(enc, s) /\ Peek(enc, archive[enc][s]) # Unknown =>
            (Peek(enc, archive[enc][s]) \in accept <=> AcceptedIn(enc, s))

\* The two units of a name do not contradict each other on the filter.
TwinsAgree ==
    \A s \in Sha : (\A enc \in Encodings : Present(enc, s)) =>
        (AcceptedIn("proto", s) <=> AcceptedIn("json", s))

\* A read returns a name once, in the encoding that wins, exactly when the
\* filter accepts the primary path of that unit: always without a filter, and
\* with one as long as on the filter no peek contradicts its decoder and no
\* unit its twin.  Where one does, an accepted unit may be dropped, and the JSON
\* twin of a rejected proto unit be read on its own path; ReadIsSound is what is
\* left.
ReadIsExact ==
    rpc = "done" /\ PeeksAgree /\ TwinsAgree => read = [s \in Sha |-> ToBeRead(s)]

\* Whatever the peeks say, no name is returned twice, and none whose primary
\* path the filter rejects.
ReadIsSound ==
    \A s \in Sha :
        /\ read[s] # Encodings
        /\ \A enc \in read[s] : AcceptedIn(enc, s)
=============================================================================
