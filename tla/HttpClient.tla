----------------------------- MODULE HttpClient -----------------------------
(***************************************************************************)
(* HttpClient::post (http.rs): requests over a connection that is kept     *)
(* alive, each tried once more on a fresh connection when it fails.        *)
(***************************************************************************)
EXTENDS WarmServer

CONSTANT MaxPosts   \* bound: posts of the session

ASSUME PostAssumption == MaxPosts \in Nat

VARIABLES
    has,       \* self.conn is Some: it may be a connection that was closed
    pc,        \* "idle", "send", "status", "headers", "body" or "judge"
    post,      \* number of the post
    attempt,   \* 1 or 2
    code,      \* status code; 0 if there is none to be read
    framing,   \* what the headers say of the body: "none" if nothing
    got,       \* body read so far
    result     \* of the last post

clientVars == <<has, pc, post, attempt, code, framing, got, result>>
vars == <<serverVars, clientVars>>

NoResult == [kind |-> "none", body |-> <<>>]

Init ==
    /\ ServerInit
    /\ has = FALSE /\ pc = "idle" /\ post = 0 /\ attempt = 1
    /\ code = 0 /\ framing = "none" /\ got = <<>>
    /\ result = NoResult

-----------------------------------------------------------------------------
StartPost ==
    /\ pc = "idle" /\ post < MaxPosts
    /\ pc' = "send" /\ post' = post + 1 /\ attempt' = 1
    /\ result' = NoResult
    /\ trouble' = FALSE
    /\ UNCHANGED <<up, connVars, faults, has, code, framing, got>>

\* self.conn = None
Disconnect == has' = FALSE /\ live' = FALSE /\ owed' = <<>> /\ sending' = <<>> /\ wire' = <<>>

\* Mutant: the second attempt goes to the connection that failed.
MutFreshConnection == UNCHANGED <<has, connVars>>

FreshConnection == Disconnect

\* Mutant: every failure is tried again.
MutFails(why, left) ==
    /\ FreshConnection
    /\ attempt' = 2 /\ pc' = "send"
    /\ trouble' = FALSE
    /\ UNCHANGED result

\* post_once fails: post tries again, or fails and keeps the connection and
\* what is left on it.
Fails(why, left) ==
    \/ /\ attempt = 1
       /\ FreshConnection
       /\ attempt' = 2 /\ pc' = "send"
       /\ trouble' = FALSE
       /\ UNCHANGED result
    \/ /\ attempt = 2
       /\ pc' = "idle" /\ result' = [kind |-> "error", body |-> <<>>]
       /\ trouble' = why
       /\ wire' = left
       /\ UNCHANGED <<live, owed, sending, has, attempt>>

-----------------------------------------------------------------------------
(***************************************************************************)
(* stream(), and the request is written.                                   *)
(***************************************************************************)
ConnectFails ==
    /\ pc = "send" /\ ~has /\ ~up
    /\ Fails(TRUE, wire)
    /\ UNCHANGED <<up, faults, post, code, framing, got>>

SendRequest ==
    /\ pc = "send"
    /\ IF has THEN live ELSE up
    /\ has' = TRUE /\ live' = TRUE
    /\ owed' = Append(owed, post)
    /\ pc' = "status"
    /\ UNCHANGED <<up, sending, wire, faults, trouble, post, attempt, code, framing, got, result>>

\* The connection was closed: the request is written to nobody, or fails.
SendToNobody ==
    /\ pc = "send" /\ has /\ ~live
    /\ pc' = "status"
    /\ UNCHANGED <<serverVars, has, post, attempt, code, framing, got, result>>

SendFails ==
    /\ pc = "send" /\ has /\ ~live
    /\ Fails(trouble, wire)
    /\ UNCHANGED <<up, faults, post, code, framing, got>>

-----------------------------------------------------------------------------
(***************************************************************************)
(* The answer is read.  A read at the end of a closed connection returns   *)
(* nothing, or fails if the connection was reset.                          *)
(***************************************************************************)
AtEnd == wire = <<>> /\ ~live

\* The first line, whatever it is: of headers it is one of several.
StatusTo(where) ==
    /\ pc = "status" /\ wire # <<>>
    /\ code' = IF Head(wire).part = "status" THEN Head(wire).code ELSE 0
    /\ wire' = IF Head(wire).part = "headers" THEN wire ELSE Tail(wire)
    /\ framing' = "none" /\ got' = <<>>
    /\ pc' = where
    /\ UNCHANGED <<up, live, owed, sending, faults, trouble, has, post, attempt, result>>

\* Mutant: an error status is judged at once, its body is left unread.
MutReadStatus ==
    \/ StatusTo("headers") /\ code' < 400
    \/ StatusTo("judge") /\ code' >= 400

ReadStatus == StatusTo("headers")

\* A line, or the headers with the empty line that ends them.
ReadHeaders ==
    /\ pc = "headers" /\ wire # <<>>
    /\ wire' = Tail(wire)
    /\ IF Head(wire).part = "headers" THEN framing' = Head(wire).framing /\ pc' = "body"
       ELSE UNCHANGED <<framing, pc>>
    /\ UNCHANGED <<up, live, owed, sending, faults, trouble, has, post, attempt, code, got, result>>

\* `if r.read_line(..)? == 0 { break; }`: the headers end with the connection.
HeadersEnd ==
    /\ pc = "headers" /\ AtEnd
    /\ pc' = "body"
    /\ UNCHANGED <<serverVars, has, post, attempt, code, framing, got, result>>

\* Content-Length: read_exact
ReadBody ==
    /\ pc = "body" /\ framing = "length" /\ Len(wire) >= 2
    /\ got' = SubSeq(wire, 1, 2) /\ wire' = SubSeq(wire, 3, Len(wire))
    /\ pc' = "judge"
    /\ UNCHANGED <<up, live, owed, sending, faults, trouble, has, post, attempt, code, framing, result>>

ReadChunk ==
    /\ pc = "body" /\ framing = "chunked" /\ wire # <<>>
    /\ wire' = Tail(wire)
    /\ IF Head(wire) = LastChunk THEN pc' = "judge" /\ UNCHANGED got
       ELSE got' = Append(got, Head(wire)) /\ UNCHANGED pc
    /\ UNCHANGED <<up, live, owed, sending, faults, trouble, has, post, attempt, code, framing, result>>

\* The chunks end with the connection: read_chunked returns what it has.
ChunksEnd ==
    /\ pc = "body" /\ framing = "chunked" /\ AtEnd
    /\ pc' = "judge"
    /\ UNCHANGED <<serverVars, has, post, attempt, code, framing, got, result>>

\* read_to_end, whose error is ignored; self.conn = None
ReadToEnd ==
    /\ pc = "body" /\ framing \in {"none", "close"} /\ ~live
    /\ \E k \in 0 .. Len(wire) :
          /\ k < Len(wire) => trouble
          /\ got' = SubSeq(wire, 1, k)
    /\ Disconnect
    /\ pc' = "judge"
    /\ UNCHANGED <<up, faults, trouble, post, attempt, code, framing, result>>

\* The connection was closed before the status line, or within a body of
\* known length; or the server's failure has cut a chunk or reset it.  A read
\* that fails has consumed what was there.
ReadFails ==
    /\ pc \in {"status", "headers", "body"} /\ ~live
    /\ \/ pc = "status" /\ AtEnd
       \/ pc = "body" /\ framing = "length" /\ Len(wire) < 2
       \/ trouble /\ (pc = "body" => framing \in {"length", "chunked"})
    /\ Fails(trouble, <<>>)
    /\ UNCHANGED <<up, faults, post, code, framing, got>>

\* `if code >= 400 { bail!(..) }`
JudgeError ==
    /\ pc = "judge" /\ code >= 400
    /\ Fails(trouble, wire)
    /\ UNCHANGED <<up, faults, post, code, framing, got>>

JudgeOk ==
    /\ pc = "judge" /\ code < 400
    /\ result' = [kind |-> "ok", body |-> got]
    /\ pc' = "idle"
    /\ UNCHANGED <<serverVars, has, post, attempt, code, framing, got>>

ClientStep ==
    \/ ConnectFails \/ SendRequest \/ SendToNobody \/ SendFails
    \/ ReadStatus \/ ReadHeaders \/ HeadersEnd
    \/ ReadBody \/ ReadChunk \/ ChunksEnd \/ ReadToEnd \/ ReadFails
    \/ JudgeError \/ JudgeOk

Next ==
    \/ StartPost
    \/ ClientStep
    \/ ServerStep /\ UNCHANGED clientVars

Spec == Init /\ [][Next]_vars

-----------------------------------------------------------------------------
(***************************************************************************)
(* Properties.                                                             *)
(***************************************************************************)

\* What a post returns is from the body of the answer to its own request,
\* from its beginning, and that answer is no error: no byte of the answer to
\* an earlier request is left on the connection.
OwnAnswer ==
    result.kind = "ok" =>
        \E c \in Codes : c < 400 /\ \E k \in 0 .. 2 : result.body = SubSeq(Body(post, c), 1, k)

\* A connection that was closed between two posts is no error: a post fails
\* only if the server fails, or answers with an error, during its second
\* attempt.
ErrorHasCause == result.kind = "error" => trouble

\* "return the response body bytes": a post that succeeds has the whole body.
AnswerWhole == result.kind = "ok" => \E c \in Codes : result.body = Body(post, c)
=============================================================================
