---------------------------- MODULE QuerySession ----------------------------
(***************************************************************************)
(* From the .entries files to an answer: name-index builds the index, a    *)
(* command such as `callgraph NAME` or `ref NAME` loads it, resolves the   *)
(* name, and walks or prints what the backend says of the tickets.  Names  *)
(* and tickets are numbers here; module QueryTexts has their texts.        *)
(***************************************************************************)
EXTENDS NameIndex, QueryVerbs

CONSTANTS
    Substr,       \* names that contain the needle of --substr
    RootLimit,    \* --root-limit; 0 for none
    DefIn         \* symbols whose definition's path contains --def-in: all, if it is not given

ASSUME SessionAssumption ==
    /\ Tickets \cup {Torn} \subseteq Symbols
    /\ RootLimit \in Nat

vars == <<nameVars, cgVars, verbVars>>

Init == NameInit /\ CallGraphInit /\ VerbInit

\* The cap is --root-limit for callgraph, --limit for the others.
Cap(v) == IF v = "callgraph" THEN RootLimit ELSE Limit

\* tickets.truncate(cap), when there is a cap
Truncated(s, cap) == IF cap > 0 THEN First(s, cap) ELSE s

\* A command starts.
Command(v) ==
    /\ loaded /\ cgPc = "resolve"
    /\ verb' = v /\ json' \in IF v = "callgraph" THEN {FALSE} ELSE BOOLEAN
    /\ UNCHANGED <<answered, shown, ended>>

\* --def-in asks for the definition of every ticket; a request that fails
\* counts as no definition.
Unanswered == IF DefIn = Symbols THEN {{}} ELSE SUBSET DefIn

\* Mutant: what was found is looked at, not what --def-in leaves.
MutNoTicket(found, defined) == found = <<>>

\* "no ticket for name"
NoTicket(found, defined) == defined = <<>>

\* resolve: look the name up, keep what is defined under --def-in, truncate
Resolve(v, found) ==
    /\ Command(v)
    /\ \E out \in Unanswered :
          LET defined == Filtered(found, DefIn \ out) IN
          IF NoTicket(found, defined)
          THEN cgPc' = "failed" /\ UNCHANGED roots
          ELSE cgPc' = "roots" /\ roots' = Truncated(defined, Cap(v))
    /\ UNCHANGED <<nameVars, maxSyms, nextOf, nodes, qi, reply>>

ResolveExact(v) == \E n \in Names : Resolve(v, Exact(n))
ResolveSubstr(v) == Resolve(v, Containing(Substr, Limit))

\* A name that is a ticket is taken as it is.
ResolveTicket(v) ==
    /\ Command(v)
    /\ \E t \in Tickets : roots' = <<t>>
    /\ cgPc' = "roots"
    /\ UNCHANGED <<nameVars, maxSyms, nextOf, nodes, qi, reply>>

Next ==
    \/ NameStep /\ UNCHANGED <<cgVars, verbVars>>
    \/ \E v \in Verbs \cup {"callgraph"} : ResolveExact(v) \/ ResolveSubstr(v) \/ ResolveTicket(v)
    \/ WalkStep /\ verb = "callgraph" /\ UNCHANGED <<nameVars, verbVars>>
    \/ VerbStep /\ UNCHANGED nameVars

Spec == Init /\ [][Next]_vars

\* The commands are run, and each is one process that goes on by itself.
FairSpec == Spec /\ WF_vars(Next)

-----------------------------------------------------------------------------
\* A command ends, whatever cycles the graph has.
CommandEnds == <>(cgPc \in {"printed", "failed"} \/ ended # "no")
=============================================================================
