----------------------------- MODULE EntryNames -----------------------------
(***************************************************************************)
(* What a scan makes of an entry (ticket.rs, marked_source.rs): the ticket *)
(* of its VName, as Kythe spells it, the name in the signature of a JVM    *)
(* method, and the bytes of a fact in base64; and what a query reads from  *)
(* a ticket (query.rs).  Texts are sequences of characters, or of the      *)
(* words that nothing takes apart: signs, and the segments of a path.      *)
(***************************************************************************)
EXTENDS Lists, SequencesExt

CONSTANTS
    Char,          \* characters
    Reserved,      \* those that are escaped: no letter, no digit, none of -._~
    Hex,           \* hexadecimal digits
    Code,          \* the two digits of a character
    VNames,        \* inputs: [corpus, language, path, root, signature]
    DeepEnough,    \* no path has more segments
    Signatures,    \* targets of `named` edges
    TypeChar,      \* characters of the types in a JVM descriptor
    Texts64,       \* fact values, as the values of their characters
    AccRange       \* values of the base64 decoder's accumulator: 2^32 in the code

\* A path is the sequence of its segments: <<>> is the empty path, <<"", "">>
\* is "/".
Segment == (Char \ {"/"}) \cup {"", ".", ".."}

Text == Seq(Char)

ASSUME CharAssumption ==
    /\ Char \cap {"kythe:", "//", "?lang=", "?path=", "?root=", "", "..", "dir"} = {}
    /\ {"%", "?", "#", "/"} \subseteq Reserved /\ Reserved \subseteq Char /\ "." \notin Reserved
    /\ Hex \subseteq Char \ Reserved
    /\ Code \in [Char -> [1 .. 2 -> Hex]]
    /\ \A c, d \in Char : Code[c] = Code[d] => c = d

ASSUME NamesAssumption ==
    /\ VNames \subseteq [corpus : Text, language : Text, path : Seq(Segment), root : Text, signature : Text]
    /\ \A v \in VNames : v.path # <<"">> /\ Len(v.path) <= DeepEnough
    /\ IsFiniteSet(VNames) /\ DeepEnough \in Nat
    /\ Signatures \subseteq Text
    /\ TypeChar \subseteq Char \ {"(", ")"}

ASSUME Base64Assumption ==
    /\ Texts64 \subseteq Seq(0 .. 65)
    /\ AccRange \in Nat \ {0} /\ AccRange % 16384 = 0

\* Pieces of a text, with a separator between any two.
Joined(texts, sep) ==
    FlattenSeq([k \in 1 .. Len(texts) |-> IF k = 1 THEN texts[k] ELSE sep \o texts[k]])

-----------------------------------------------------------------------------
(***************************************************************************)
(* Tickets.                                                                *)
(***************************************************************************)
Rooted(path) == Len(path) > 1 /\ path[1] = ""

\* Mutant: ".." after ".." goes back to where the first one came from.
MutUp(out, rooted) == IF out # <<>> THEN Front(out) ELSE IF rooted THEN out ELSE <<"..">>

\* A ".." takes back the segment before it, unless that is a "..", too.
Up(out, rooted) ==
    IF out # <<>> /\ Last(out) # ".." THEN Front(out) ELSE IF rooted THEN out ELSE Append(out, "..")

CleanSegments(path) ==
    FoldLeft(LAMBDA out, seg : CASE seg \in {"", "."} -> out
                                 [] seg = ".."        -> Up(out, Rooted(path))
                                 [] OTHER             -> Append(out, seg),
             <<>>, path)

\* clean_path
CleanPath(path) ==
    LET text == Joined([k \in 1 .. Len(CleanSegments(path)) |-> <<CleanSegments(path)[k]>>], <<"/">>) IN
    IF path = <<>> THEN <<>>
    ELSE IF Rooted(path) THEN <<"/">> \o text
    ELSE IF text = <<>> THEN <<".">> ELSE text

Escaped(c, keepSlash) == c \in Reserved /\ ~(keepSlash /\ c = "/")

Escape(text, keepSlash) ==
    FlattenSeq([k \in 1 .. Len(text) |->
                   IF Escaped(text[k], keepSlash) THEN <<"%">> \o Code[text[k]] ELSE <<text[k]>>])

\* A component with its sign, or nothing.
Component(sign, text) == IF text = <<>> THEN <<>> ELSE <<sign>> \o text

ToTicket(v) ==
    <<"kythe:">> \o Component("//", Escape(v.corpus, TRUE))
                 \o Component("?lang=", Escape(v.language, FALSE))
                 \o Component("?path=", Escape(CleanPath(v.path), TRUE))
                 \o Component("?root=", Escape(v.root, TRUE))
                 \o Component("#", Escape(v.signature, FALSE))

PercentDecode(text) ==
    LET Encoded(i) == {c \in Char : i + 2 <= Len(text) /\ Code[c] = <<text[i + 1], text[i + 2]>>}
        from[i \in 1 .. Len(text) + 1] ==
            IF i > Len(text) THEN <<>>
            ELSE IF text[i] = "%" /\ Encoded(i) # {}
            THEN <<CHOOSE c \in Encoded(i) : TRUE>> \o from[i + 3]
            ELSE <<text[i]>> \o from[i + 1] IN
    from[1]

Positions(text, chars) == {i \in 1 .. Len(text) : text[i] \in chars}

Least(set) == CHOOSE i \in set : \A j \in set : i <= j

\* path_of: the ticket itself, if it has no path.
PathOf(ticket) ==
    LET at  == Positions(ticket, {"?path="})
        end == {i \in Positions(ticket, {"?", "?root=", "#"}) : \E j \in at : j < i} IN
    IF at = {} THEN ticket
    ELSE PercentDecode(SubSeq(ticket, Least(at) + 1, IF end = {} THEN Len(ticket) ELSE Least(end) - 1))

\* sig_of: what is behind the last "#".
SigOf(ticket) ==
    LET at == Positions(ticket, {"#"}) IN
    IF at = {} THEN <<>>
    ELSE PercentDecode(SubSeq(ticket, 1 + (CHOOSE i \in at : \A j \in at : j <= i), Len(ticket)))

-----------------------------------------------------------------------------
(***************************************************************************)
(* JVM signatures.                                                         *)
(***************************************************************************)

\* All of a text's characters pass is_jvm_type_byte.
TypeOnly(text) == \A k \in 1 .. Len(text) : text[k] \in TypeChar

\* sig.rfind('(')
Open(sig) == CHOOSE i \in Positions(sig, {"("}) : \A j \in Positions(sig, {"("}) : j <= i

\* strip_jvm_method_descriptor: {} for None
Stripped(sig) ==
    IF Positions(sig, {"("}) = {} THEN {}
    ELSE LET closes == {i \in Positions(sig, {")"}) : i > Open(sig)}
             args   == SubSeq(sig, Open(sig) + 1, Least(closes) - 1)
             ret    == SubSeq(sig, Least(closes) + 1, Len(sig)) IN
         IF closes # {} /\ TypeOnly(args) /\ ret # <<>> /\ TypeOnly(ret)
         THEN {SubSeq(sig, 1, Open(sig) - 1)} ELSE {}

-----------------------------------------------------------------------------
(***************************************************************************)
(* base64_decode: a character is its value, Blank (white space, or "=") or *)
(* Bad.  Of the accumulator no more than the lowest 14 bits are ever read. *)
(***************************************************************************)
Blank == 64
Bad   == 65

ByteReady(bits) == bits >= 8

\* One character that counts.
TakeSextet(s, v) ==
    LET acc  == (s.acc * 64 + v) % AccRange
        bits == s.bits + 6 IN
    IF ByteReady(bits)
    THEN [acc |-> acc, bits |-> bits - 8, out |-> Append(s.out, (acc \div 2 ^ (bits - 8)) % 256)]
    ELSE [acc |-> acc, bits |-> bits, out |-> s.out]

\* {} for None
Base64Decode(text) ==
    IF Contains(text, Bad) THEN {}
    ELSE {FoldLeft(TakeSextet, [acc |-> 0, bits |-> 0, out |-> <<>>],
                   Filtered(text, 0 .. 63)).out}

-----------------------------------------------------------------------------
(***************************************************************************)
(* Properties: every definition above against another one, over the inputs *)
(* of an instance.                                                         *)
(***************************************************************************)

\* Where a path leads to, from a directory that is deep enough.
Place(path) ==
    FoldLeft(LAMBDA stack, seg : CASE seg \in {"", "."} -> stack
                                   [] seg = ".."        -> IF stack = <<>> THEN stack ELSE Front(stack)
                                   [] OTHER             -> Append(stack, seg),
             IF Rooted(path) THEN <<>> ELSE [k \in 1 .. DeepEnough |-> "dir"], path)

\* The node a VName names, however its path is written.
NodeOf(v) ==
    [vname |-> [v EXCEPT !.path = Place(@)], empty |-> v.path = <<>>, rooted |-> Rooted(v.path)]

\* Tickets and nodes are one to one: no sign, escape or detour makes two nodes
\* of one, or one of two.
TicketTells ==
    LET pairs == {<<NodeOf(v), ToTicket(v)>> : v \in VNames} IN
    /\ Cardinality({p[1] : p \in pairs}) = Cardinality(pairs)
    /\ Cardinality({p[2] : p \in pairs}) = Cardinality(pairs)

\* What a query reads from a ticket is what the VName has.
TicketReads ==
    \A v \in VNames :
        /\ PathOf(ToTicket(v)) = IF v.path = <<>> THEN ToTicket(v) ELSE CleanPath(v.path)
        /\ SigOf(ToTicket(v)) = v.signature

\* A signature loses its descriptor, and what is no descriptor stays.
DescriptorStripped ==
    \A sig \in Signatures :
        Stripped(sig) =
            {SubSeq(sig, 1, i) : i \in
                {j \in 0 .. Len(sig) - 1 : \E k \in j + 2 .. Len(sig) - 1 :
                    /\ sig[j + 1] = "(" /\ TypeOnly(SubSeq(sig, j + 2, k - 1))
                    /\ sig[k] = ")" /\ TypeOnly(SubSeq(sig, k + 1, Len(sig)))}}

\* Byte j of the sextets v, from byte 0 on: three bytes of every four sextets.
Byte(v, j) ==
    LET a == v[j + j \div 3 + 1]
        b == v[j + j \div 3 + 2] IN
    CASE j % 3 = 0 -> a * 4 + b \div 16
      [] j % 3 = 1 -> (a % 16) * 16 + b \div 4
      [] j % 3 = 2 -> (a % 4) * 64 + b

\* Of every four characters the bytes are those of RFC 4648, of what is left
\* over those that are complete, whatever stands between the characters.
Base64Right ==
    \A text \in Texts64 :
        LET v == Filtered(text, 0 .. 63) IN
        Base64Decode(text) =
            IF Contains(text, Bad) THEN {} ELSE {[i \in 1 .. (6 * Len(v)) \div 8 |-> Byte(v, i - 1)]}
=============================================================================
