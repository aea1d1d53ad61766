----------------------------- MODULE WarmServer -----------------------------
(***************************************************************************)
(* Kythe's http_server as HttpClient meets it: a process that may die and  *)
(* be started again, and one connection that it answers requests on, in    *)
(* order, piece by piece.  It may close the connection between requests,   *)
(* and then loses a request that is on its way.                            *)
(***************************************************************************)
EXTENDS Naturals, Sequences

CONSTANTS
    Codes,      \* status codes it answers with; not all are errors
    Framings,   \* how it delimits a body: "length", "chunked" or "close"
    MaxFaults   \* bound: deaths and closed connections

ASSUME ServerAssumption ==
    /\ Codes \subseteq Nat /\ \E c \in Codes : c < 400
    /\ Framings \subseteq {"length", "chunked", "close"}
    /\ MaxFaults \in Nat

VARIABLES
    up,        \* the process runs and accepts connections
    live,      \* its end of the connection is open
    owed,      \* requests on the connection that it has not begun to answer
    sending,   \* pieces of the answer it is writing
    wire,      \* pieces the client has not read
    faults,
    trouble    \* since the client's attempt began the server was down, has
               \* closed the connection, or has answered with an error

connVars == <<live, owed, sending, wire>>
serverVars == <<up, connVars, faults, trouble>>

StatusLine(n, c) == [part |-> "status", req |-> n, code |-> c]
Headers(n, f)    == [part |-> "headers", req |-> n, framing |-> f]
Data(n, c, k)    == [part |-> "data", req |-> n, code |-> c, at |-> k]
LastChunk        == [part |-> "last"]
CloseItself      == [part |-> "close"]

Body(n, c) == <<Data(n, c, 1), Data(n, c, 2)>>

Answer(n, c, f) ==
    <<StatusLine(n, c), Headers(n, f)>> \o Body(n, c)
        \o (CASE f = "length"  -> <<>>
              [] f = "chunked" -> <<LastChunk>>
              [] f = "close"   -> <<CloseItself>>)

ServerInit ==
    /\ up \in BOOLEAN /\ live = FALSE
    /\ owed = <<>> /\ sending = <<>> /\ wire = <<>>
    /\ faults = 0 /\ trouble = FALSE

\* It reads a request.
BeginAnswer ==
    /\ live /\ owed # <<>> /\ sending = <<>>
    /\ \E c \in Codes, f \in Framings :
          /\ sending' = Answer(Head(owed), c, f)
          /\ trouble' = (trouble \/ c >= 400)
    /\ owed' = Tail(owed)
    /\ UNCHANGED <<up, live, wire, faults>>

WritePiece ==
    /\ live /\ sending # <<>> /\ Head(sending) # CloseItself
    /\ wire' = Append(wire, Head(sending))
    /\ sending' = Tail(sending)
    /\ UNCHANGED <<up, live, owed, faults, trouble>>

\* A body without a length ends where the connection does.
CloseAfterBody ==
    /\ live /\ sending = <<CloseItself>>
    /\ live' = FALSE /\ owed' = <<>> /\ sending' = <<>>
    /\ UNCHANGED <<up, wire, faults, trouble>>

Fault == faults < MaxFaults /\ faults' = faults + 1

\* It closes a connection that it takes to be idle.
CloseIdle ==
    /\ live /\ sending = <<>>
    /\ Fault
    /\ live' = FALSE /\ owed' = <<>> /\ trouble' = TRUE
    /\ UNCHANGED <<up, sending, wire>>

\* It dies, perhaps within a status line.
Die ==
    /\ up
    /\ Fault
    /\ up' = FALSE
    /\ live' = FALSE /\ owed' = <<>> /\ sending' = <<>> /\ trouble' = TRUE
    /\ \/ UNCHANGED wire
       \/ /\ sending # <<>> /\ Head(sending).part = "status"
          /\ wire' = Append(wire, [Head(sending) EXCEPT !.code = 0])

\* `scry3 serve`, run again
Restart ==
    /\ ~up
    /\ up' = TRUE
    /\ UNCHANGED <<connVars, faults, trouble>>

ServerStep ==
    \/ BeginAnswer \/ WritePiece \/ CloseAfterBody
    \/ CloseIdle \/ Die \/ Restart
=============================================================================
