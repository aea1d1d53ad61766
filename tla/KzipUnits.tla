------------------------------ MODULE KzipUnits ------------------------------
(***************************************************************************)
(* A compilation unit as a kzip holds it, under root/pbunits/ as a proto   *)
(* or under root/units/ as proto3-JSON (kzip.rs): what its decoder reads,  *)
(* what the peek that saves the decoding finds, and what the encoder       *)
(* writes.                                                                 *)
(***************************************************************************)
EXTENDS Naturals, Sequences, SequencesExt

CONSTANTS
    Path,         \* source paths
    RawText,      \* characters in a JSON text that are no path, but a path escaped
    JsonText,     \* [Path -> Path \cup RawText]: what of a path stands between the quotes
    SourcePath,   \* paths and texts with an extension of a source file
    NoPath,       \* the empty path
    NoField,      \* the message that would hold the path is not there
    Unknown,      \* the peek has found no path that it trusts
    Digest,       \* of the files of the archive, and of some that it lacks
    NoDigest,
    Arg,          \* compiler arguments
    UnitValues    \* the units that may be in an archive

\* A required_input: the paths of its v_name and of its info.  Encoders leave
\* out what is empty, and so an info that is there has a path or a digest.
Inputs == {i \in [vName  : Path \cup {NoPath, NoField},
                  info   : Path \cup {NoPath, NoField},
                  digest : Digest \cup {NoDigest}] :
               /\ i.info = NoField => i.digest = NoDigest
               /\ i.info = NoPath => i.digest # NoDigest}

ASSUME PathAssumption ==
    /\ SourcePath \subseteq Path \cup RawText
    /\ JsonText \in [Path -> Path \cup RawText]
    /\ {NoPath, NoField, Unknown} \cap (Path \cup RawText) = {} /\ NoPath # NoField /\ Unknown # NoPath
    /\ NoDigest \notin Digest

CompilationUnit ==
    [source  : Seq(Path),              \* source_file
     input   : Seq(Inputs),            \* required_input
     own     : Path \cup {NoPath},     \* v_name.path
     args    : Seq(Arg),               \* argument
     wanted  : BOOLEAN,                \* its language has an indexer, and is in --langs
     errors  : BOOLEAN,                \* has_compile_errors is set
     details : BOOLEAN,                \* it has details, or another field the decoder lacks
     cut     : BOOLEAN]                \* its bytes end behind its last path, too early

ASSUME UnitValuesAssumption == UnitValues \subseteq CompilationUnit

Encodings == {"proto", "json"}

-----------------------------------------------------------------------------
\* source_file[0], the paths of required_input[0], and the unit's own.
Candidates(u) ==
    <<IF u.source = <<>> THEN NoPath ELSE u.source[1],
      IF u.input = <<>> THEN NoPath ELSE u.input[1].vName,
      IF u.input = <<>> THEN NoPath ELSE u.input[1].info,
      u.own>>

\* cu_primary_path: the first one that is not empty, "" if there is none
PrimaryPath(u) ==
    LET some == {k \in 1 .. 4 : Candidates(u)[k] \in Path} IN
    IF some = {} THEN NoPath ELSE Candidates(u)[CHOOSE k \in some : \A j \in some : k <= j]

\* peek_proto_primary_path: without source_file it looks into the first
\* required_input, and nowhere else.
PeekProto(u) ==
    IF u.source # <<>> THEN u.source[1]
    ELSE IF u.input = <<>> \/ u.input[1].vName = NoField THEN Unknown
    ELSE IF u.input[1].vName \in Path THEN u.input[1].vName
    ELSE IF u.input[1].info = NoField THEN Unknown ELSE u.input[1].info

\* The values of the "path" keys in the order of the JSON text.
PathsInText(u) ==
    <<u.own>> \o FlattenSeq([k \in 1 .. Len(u.input) |-> <<u.input[k].vName, u.input[k].info>>])

\* json_take_string_value: the characters between the quotes, as they stand
\* there; serde takes the escapes out.
Raw(p) == IF p \in Path THEN JsonText[p] ELSE p

\* peek_json_primary_path: without source_file, the first path in the text
\* that looks like a source file's.
PeekJson(u) ==
    LET found == SelectSeq(PathsInText(u), LAMBDA p : Raw(p) \in SourcePath) IN
    IF u.source # <<>> THEN Raw(u.source[1])
    ELSE IF found = <<>> THEN Unknown ELSE Raw(found[1])

Peek(enc, u) == IF enc = "proto" THEN PeekProto(u) ELSE PeekJson(u)

\* read_field_header fails on any field that is not length-delimited, as
\* has_compile_errors is not; serde passes over a key it does not know.
Decodes(enc, u) == ~u.cut /\ ~(enc = "proto" /\ u.errors)

\* parse_indexed_compilation, or serde: the fields of CompilationUnit.
Decoded(u) == [u EXCEPT !.errors = FALSE, !.details = FALSE]

\* Mutant: the unit's own v_name is left out.
MutEncoded(u) == [u EXCEPT !.own = NoPath]

\* encode_indexed_compilation, of a decoded unit: all that was decoded.
Encoded(u) == u
=============================================================================
