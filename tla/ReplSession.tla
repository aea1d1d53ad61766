----------------------------- MODULE ReplSession ----------------------------
(***************************************************************************)
(* `scry3 repl` (query.rs, main.rs): a session that runs one command after *)
(* another over one HttpClient.  Its backend is the one of --http, or an   *)
(* http_server that it starts for itself on a free port and kills in the   *)
(* end.                                                                    *)
(***************************************************************************)
EXTENDS HttpClient

VARIABLES
    auto,      \* no --http: the session starts its backend
    sess,      \* "start", "polling", "open", "over", "failed" or "killed"
    child,     \* the backend it started: "none", "loading", "serving" or "exited"
    owner,     \* who listens on the port: "none", "child" or "other"
    left,      \* posts that the command has still to make
    first      \* it has made none

replVars == <<auto, sess, child, owner, left, first>>
allVars == <<vars, replVars>>

ReplInit ==
    /\ Init
    /\ auto \in BOOLEAN /\ (auto => ~up)
    /\ sess = "start"
    /\ child = "none" /\ owner = (IF up THEN "other" ELSE "none")
    /\ left = 0 /\ first = TRUE

-----------------------------------------------------------------------------
(***************************************************************************)
(* The backend.                                                            *)
(***************************************************************************)

\* With --http nothing is started and nothing is asked.
UseGiven ==
    /\ sess = "start" /\ ~auto
    /\ sess' = "open"
    /\ UNCHANGED <<vars, auto, child, owner, left, first>>

\* The port is picked and given back, and http_server spawned.
SpawnBackend ==
    /\ sess = "start" /\ auto
    /\ sess' = "polling" /\ child' = "loading"
    /\ UNCHANGED <<vars, auto, owner, left, first>>

SpawnBackendFails ==
    /\ sess = "start" /\ auto
    /\ sess' = "failed"
    /\ UNCHANGED <<vars, auto, child, owner, left, first>>

\* The port is free, and whoever binds it first has it.
Bind ==
    /\ child = "loading" /\ owner = "none"
    /\ child' = "serving" /\ owner' = "child" /\ up' = TRUE
    /\ UNCHANGED <<connVars, faults, trouble, clientVars, auto, sess, left, first>>

OtherBinds ==
    /\ child = "loading" /\ owner = "none"
    /\ Fault
    /\ owner' = "other" /\ up' = TRUE
    /\ UNCHANGED <<connVars, trouble, clientVars, auto, sess, child, left, first>>

\* It finds the port taken, or cannot open the table.
ChildExits ==
    /\ child = "loading"
    /\ IF owner = "other" THEN UNCHANGED faults ELSE Fault
    /\ child' = "exited"
    /\ UNCHANGED <<up, connVars, trouble, clientVars, auto, sess, owner, left, first>>

\* A connection is accepted: whose port it is nobody asks.
PollSucceeds ==
    /\ sess = "polling" /\ up
    /\ sess' = "open"
    /\ UNCHANGED <<vars, auto, child, owner, left, first>>

\* Drop for BackendGuard: kill and wait.
KillChild ==
    /\ child' = (IF child = "none" THEN "none" ELSE "exited")
    /\ IF owner = "child"
       THEN owner' = "none" /\ up' = FALSE /\ live' = FALSE /\ owed' = <<>> /\ sending' = <<>>
       ELSE UNCHANGED <<owner, up, live, owed, sending>>
    /\ UNCHANGED <<wire, faults, trouble, clientVars>>

\* Mutant: the guard is made once the backend is up.
MutDeadline ==
    /\ sess = "polling"
    /\ sess' = "failed"
    /\ UNCHANGED <<vars, auto, child, owner, left, first>>

\* 15 seconds are over.
Deadline ==
    /\ sess = "polling"
    /\ sess' = "failed"
    /\ KillChild
    /\ UNCHANGED <<auto, left, first>>

Polling == SpawnBackend \/ SpawnBackendFails \/ PollSucceeds \/ Deadline

-----------------------------------------------------------------------------
(***************************************************************************)
(* The loop.                                                               *)
(***************************************************************************)
AtPrompt == sess = "open" /\ pc = "idle" /\ left = 0

\* A line: a command that makes up to so many posts, if none fails.
ReadLine ==
    /\ AtPrompt
    /\ left' \in 1 .. MaxPosts - post
    /\ first' = TRUE
    /\ UNCHANGED <<vars, auto, sess, child, owner>>

NextPost ==
    /\ sess = "open" /\ left > 0 /\ (first \/ result.kind = "ok")
    /\ StartPost
    /\ left' = left - 1 /\ first' = FALSE
    /\ UNCHANGED <<auto, sess, child, owner>>

\* "[repl] error: .."
CommandFails ==
    /\ sess = "open" /\ pc = "idle" /\ left > 0 /\ ~first /\ result.kind = "error"
    /\ left' = 0
    /\ UNCHANGED <<vars, auto, sess, child, owner, first>>

\* ^D, or stdin cannot be read.
EndOfInput ==
    /\ AtPrompt
    /\ sess' = "over"
    /\ KillChild
    /\ UNCHANGED <<auto, left, first>>

\* scry3 alone is killed: no guard is dropped.
KillSession ==
    /\ sess \in {"polling", "open"}
    /\ Fault
    /\ sess' = "killed"
    /\ UNCHANGED <<up, connVars, trouble, clientVars, auto, child, owner, left, first>>

Loop == NextPost \/ CommandFails

\* What the server does; one that this session started nobody starts again.
Serves ==
    \/ /\ BeginAnswer \/ WritePiece \/ CloseAfterBody \/ CloseIdle
       /\ UNCHANGED <<child, owner>>
    \/ /\ Die
       /\ owner' = "none"
       /\ child' = (IF owner = "child" THEN "exited" ELSE child)
    \/ /\ Restart
       /\ ~auto /\ owner' = "other" /\ UNCHANGED child

ReplNext ==
    \/ UseGiven \/ Polling \/ Bind \/ OtherBinds \/ ChildExits
    \/ ReadLine \/ Loop \/ EndOfInput \/ KillSession
    \/ ClientStep /\ sess = "open" /\ UNCHANGED replVars
    \/ Serves /\ UNCHANGED <<clientVars, auto, sess, left, first>>

ReplSpec == ReplInit /\ [][ReplNext]_allVars

\* The session goes on by itself; a server that runs answers.
ReplFairSpec ==
    /\ ReplSpec
    /\ WF_allVars(PollSucceeds) /\ WF_allVars(Deadline)
    /\ WF_allVars(Loop) /\ WF_allVars(ClientStep /\ sess = "open" /\ UNCHANGED replVars)
    /\ WF_allVars((BeginAnswer \/ WritePiece \/ CloseAfterBody)
                     /\ UNCHANGED <<child, owner, clientVars, auto, sess, left, first>>)

-----------------------------------------------------------------------------
(***************************************************************************)
(* Properties.                                                             *)
(***************************************************************************)

\* "killed when this guard drops": a session that has ended by itself, opened
\* or not, leaves no http_server behind that it has started.
NoOrphan == sess \in {"over", "failed"} => child \in {"none", "exited"}

\* No command waits for ever: the backend comes up or the deadline passes, and
\* then every command comes back to the prompt, unless the session is killed.
PromptReturns == sess = "polling" \/ left > 0 ~> AtPrompt \/ sess \in {"over", "failed", "killed"}
=============================================================================
