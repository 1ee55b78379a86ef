--------------------------- MODULE AbciConnections ---------------------------
(***************************************************************************)
(* The ABCI server Drive runs behind (packages/js-abci) and its shutdown   *)
(* (packages/js-drive: errorHandler, closeAbciServer, the signal handler   *)
(* of scripts/abci.js).                                                    *)
(*                                                                         *)
(* Tenderdash opens several connections and writes requests to each; a     *)
(* request arrives in pieces, a piece may hold the ends of two requests.   *)
(* Requests are all alike here, cut in two parts.  A handler may wait for  *)
(* Core for ever, throw, or answer what does not verify.  The peer and the *)
(* application's handlers are external.                                    *)
(***************************************************************************)
EXTENDS Integers, FiniteSets

CONSTANTS
  Conns,    \* the connections that may be opened
  MaxParts, \* bound: parts of requests the peer writes to each
  MaxBad    \* bound: handlers that throw or answer what does not verify

ASSUME AbciAssumption == MaxParts \in Nat /\ MaxBad \in Nat

\* The two ways to shut down: errorHandler, and the listener for a signal.
Ways == {"error", "signal"}

VARIABLES
  listening,  \* server.listening
  sock,       \* a connection's socket; "ended" is its own end() only
  written,    \* parts the peer wrote
  buffer,     \* parts in readerBuffer
  isReading, isClosing,
  paused,     \* the socket was told to pause
  handling,   \* what a connection's handler is at
  begun,      \* requests handed to the handler
  answered,   \* and answered
  immediate,  \* the setImmediate of server.close() is due
  way,        \* what a way to shut down is at
  exited,     \* the process has ended
  bad

flow == <<written, buffer, isReading, paused, begun, answered>>
vars == <<listening, sock, flow, isClosing, handling, immediate, way, exited, bad>>

TypeOK ==
  /\ listening \in BOOLEAN /\ immediate \in BOOLEAN /\ exited \in BOOLEAN
  /\ sock \in [Conns -> {"none", "open", "ended", "closed"}]
  /\ written \in [Conns -> 0 .. MaxParts] /\ buffer \in [Conns -> 0 .. MaxParts]
  /\ isReading \in [Conns -> BOOLEAN] /\ isClosing \in [Conns -> BOOLEAN]
  /\ paused \in [Conns -> BOOLEAN]
  /\ handling \in [Conns -> {"none", "runs", "waits", "stuck"}]
  /\ begun \in [Conns -> 0 .. MaxParts] /\ answered \in [Conns -> 0 .. MaxParts]
  /\ way \in [Ways -> {"none", "closing", "ready"}]
  /\ bad \in 0 .. MaxBad

Init ==
  /\ listening = TRUE /\ immediate = FALSE /\ exited = FALSE
  /\ sock = [c \in Conns |-> "none"]
  /\ written = [c \in Conns |-> 0] /\ buffer = [c \in Conns |-> 0]
  /\ isReading = [c \in Conns |-> FALSE] /\ isClosing = [c \in Conns |-> FALSE]
  /\ paused = [c \in Conns |-> FALSE]
  /\ handling = [c \in Conns |-> "none"]
  /\ begun = [c \in Conns |-> 0] /\ answered = [c \in Conns |-> 0]
  /\ way = [w \in Ways |-> "none"]
  /\ bad = 0

\* Parts on their way to the server
OnWire(c) == written[c] - (2 * begun[c] + buffer[c])

-----------------------------------------------------------------------------
(* Reading *)

\* Faulty: what was buffered while a request was handled is left there.
ReadNextOnData(c, n) ==
  /\ buffer' = [buffer EXCEPT ![c] = n]
  /\ UNCHANGED <<handling, isReading, paused, begun>>

\* readNextRequest with n parts buffered, called when nothing is being read: a
\* complete request pauses the socket and goes to its handler, part of one is left.
ReadNextRequest(c, n) ==
  \/ /\ n >= 2 /\ ~isClosing[c]
     /\ buffer' = [buffer EXCEPT ![c] = n - 2]
     /\ \E how \in {"runs", "waits"} : handling' = [handling EXCEPT ![c] = how]
     /\ isReading' = [isReading EXCEPT ![c] = TRUE]
     /\ paused' = [paused EXCEPT ![c] = TRUE]
     /\ begun' = [begun EXCEPT ![c] = @ + 1]
  \/ /\ n < 2 \/ isClosing[c]
     /\ buffer' = [buffer EXCEPT ![c] = n]
     /\ handling' = [handling EXCEPT ![c] = "none"]
     /\ isReading' = [isReading EXCEPT ![c] = FALSE]
     /\ paused' = [paused EXCEPT ![c] = isClosing[c]]
     /\ UNCHANGED begun

Connect(c) ==
  /\ listening /\ ~exited /\ sock[c] = "none"
  /\ sock' = [sock EXCEPT ![c] = "open"]
  /\ UNCHANGED <<listening, flow, isClosing, handling, immediate, way, exited, bad>>

Write(c) ==
  /\ sock[c] = "open" /\ written[c] < MaxParts
  /\ written' = [written EXCEPT ![c] = @ + 1]
  /\ UNCHANGED <<listening, sock, buffer, isReading, paused, begun, answered, isClosing,
                 handling, immediate, way, exited, bad>>

\* 'data'
Data(c) ==
  /\ sock[c] = "open" /\ ~paused[c] /\ ~exited /\ OnWire(c) > 0
  /\ \E n \in 1 .. OnWire(c) :
       IF isReading[c] \/ isClosing[c]
       THEN /\ buffer' = [buffer EXCEPT ![c] = @ + n]
            /\ UNCHANGED <<handling, isReading, paused, begun>>
       ELSE ReadNextRequest(c, buffer[c] + n)
  /\ UNCHANGED <<listening, sock, written, answered, isClosing, immediate, way, exited, bad>>

\* Request.decode fails, or the length is zero or too large: the socket is destroyed
\* and nothing is read any more.
Malformed(c) ==
  /\ sock[c] = "open" /\ ~paused[c] /\ ~exited /\ OnWire(c) > 0
  /\ ~isReading[c] /\ ~isClosing[c]
  /\ sock' = [sock EXCEPT ![c] = "closed"]
  /\ isReading' = [isReading EXCEPT ![c] = TRUE]
  /\ UNCHANGED <<listening, written, buffer, paused, begun, answered, isClosing, handling,
                 immediate, way, exited, bad>>

-----------------------------------------------------------------------------
(* Shutting down *)

\* closeAbciServer: only the first call closes the server and waits for it.
CloseAbciServer(w) ==
  /\ way' = [way EXCEPT ![w] = IF listening THEN "closing" ELSE "ready"]
  /\ listening' = FALSE
  /\ immediate' = (immediate \/ listening)

\* errorHandler: once
ErrorHandler == IF way["error"] = "none" THEN CloseAbciServer("error")
                                         ELSE UNCHANGED <<way, listening, immediate>>

Signal ==
  /\ ~exited /\ way["signal"] = "none"
  /\ CloseAbciServer("signal")
  /\ UNCHANGED <<sock, flow, isClosing, handling, exited, bad>>

\* Faulty: connections that handle a request are passed over.
CloseIdleConnections ==
  /\ immediate /\ ~exited
  /\ immediate' = FALSE
  /\ isClosing' = [c \in Conns |-> isClosing[c] \/ (sock[c] = "open" /\ ~isReading[c])]
  /\ paused' = [c \in Conns |-> paused[c] \/ (sock[c] = "open" /\ ~isReading[c])]
  /\ UNCHANGED <<listening, sock, written, buffer, isReading, begun, answered, handling, way,
                 exited, bad>>

\* connection.close() of all, up to its wait
CloseConnections ==
  /\ immediate /\ ~exited
  /\ immediate' = FALSE
  /\ isClosing' = [c \in Conns |-> isClosing[c] \/ sock[c] = "open"]
  /\ paused' = [c \in Conns |-> paused[c] \/ sock[c] = "open"]
  /\ UNCHANGED <<listening, sock, written, buffer, isReading, begun, answered, handling, way,
                 exited, bad>>

\* Faulty: the socket is ended without waiting for the request.
EndAtOnce(c) ==
  /\ ~exited /\ isClosing[c] /\ sock[c] = "open"
  /\ sock' = [sock EXCEPT ![c] = "ended"]
  /\ UNCHANGED <<listening, flow, isClosing, handling, immediate, way, exited, bad>>

\* isRequestHandled is resolved: close() ends the socket.
End(c) ==
  /\ ~exited /\ isClosing[c] /\ sock[c] = "open" /\ ~isReading[c]
  /\ sock' = [sock EXCEPT ![c] = "ended"]
  /\ UNCHANGED <<listening, flow, isClosing, handling, immediate, way, exited, bad>>

\* The peer closes its side, as it does when ours was ended, or leaves.
PeerCloses(c) ==
  /\ sock[c] \in {"open", "ended"}
  /\ sock' = [sock EXCEPT ![c] = "closed"]
  /\ UNCHANGED <<listening, flow, isClosing, handling, immediate, way, exited, bad>>

\* Faulty: the callback comes as soon as nobody listens.
AllClosedAtOnce == ~listening

\* The callback of server.close(): no socket is left.
AllClosed == ~immediate /\ \A c \in Conns : sock[c] \in {"none", "closed"}

ServerClosed ==
  /\ ~exited /\ ~listening /\ AllClosed /\ \E w \in Ways : way[w] = "closing"
  /\ way' = [w \in Ways |-> IF way[w] = "closing" THEN "ready" ELSE way[w]]
  /\ UNCHANGED <<listening, sock, flow, isClosing, handling, immediate, exited, bad>>

\* The container is disposed of and the process ends.
Exit ==
  /\ ~exited /\ \E w \in Ways : way[w] = "ready"
  /\ exited' = TRUE
  /\ UNCHANGED <<listening, sock, flow, isClosing, handling, immediate, way, bad>>

-----------------------------------------------------------------------------
(* Handlers *)

\* The handler returns: the answer is written, unless the peer has gone, and the next
\* request is read from the buffer, whether the peer has gone or not.
Answer(c) ==
  /\ ~exited /\ handling[c] \in {"runs", "waits"}
  /\ answered' = [answered EXCEPT ![c] = IF sock[c] = "open" THEN @ + 1 ELSE @]
  /\ ReadNextRequest(c, buffer[c])
  /\ UNCHANGED <<listening, sock, written, isClosing, immediate, way, exited, bad>>

\* The handler throws: the server's error handler runs, the exception is written and
\* the socket destroyed.
Throw(c) ==
  /\ ~exited /\ handling[c] \in {"runs", "waits"} /\ bad < MaxBad
  /\ bad' = bad + 1
  /\ handling' = [handling EXCEPT ![c] = "none"]
  /\ answered' = [answered EXCEPT ![c] = IF sock[c] = "open" THEN @ + 1 ELSE @]
  /\ sock' = [sock EXCEPT ![c] = "closed"]
  /\ ErrorHandler
  /\ UNCHANGED <<written, buffer, isReading, paused, begun, isClosing, exited>>

\* Response.verify refuses the answer: the rejection is nobody's, and the socket stays.
Unverified(c) ==
  /\ ~exited /\ handling[c] \in {"runs", "waits"} /\ bad < MaxBad
  /\ bad' = bad + 1
  /\ handling' = [handling EXCEPT ![c] = "stuck"]
  /\ ErrorHandler
  /\ UNCHANGED <<sock, written, buffer, isReading, paused, begun, answered, isClosing, exited>>

-----------------------------------------------------------------------------
Next ==
  \/ \E c \in Conns :
       \/ Connect(c) \/ Write(c) \/ Data(c) \/ Malformed(c) \/ End(c) \/ PeerCloses(c)
       \/ Answer(c) \/ Throw(c) \/ Unverified(c)
  \/ Signal \/ CloseConnections \/ ServerClosed \/ Exit

Spec == Init /\ [][Next]_vars

AnswerUnlessWaiting(c) == handling[c] = "runs" /\ Answer(c)
PeerClosesEnded(c) == sock[c] = "ended" /\ OnWire(c) = 0 /\ PeerCloses(c)

\* Data arrives, handlers return unless they wait for Core, what is scheduled runs, and
\* a peer whose connection was ended closes it (which a paused socket notices only when
\* nothing lies before it).
FairSpec ==
  /\ Spec
  /\ \A c \in Conns :
       /\ WF_vars(Data(c)) /\ WF_vars(AnswerUnlessWaiting(c))
       /\ WF_vars(End(c)) /\ WF_vars(PeerClosesEnded(c))
  /\ WF_vars(CloseConnections) /\ WF_vars(ServerClosed) /\ WF_vars(Exit)

-----------------------------------------------------------------------------
\* A request that is complete in the buffer is being handled or waits for the one
\* that is: the server never sits on it with nothing to wake it.
NoRequestForgotten ==
  \A c \in Conns : (sock[c] = "open" /\ ~isReading[c] /\ ~isClosing[c]) => buffer[c] < 2

\* A connection is ended only between two requests, all of the begun ones answered.
EndedBetweenRequests ==
  \A c \in Conns : sock[c] = "ended" => handling[c] = "none" /\ answered[c] = begun[c]

\* Whoever the process still works for when it ends has left, unless both ways to
\* shut down met: the second one finds the server not listening and waits for nothing.
ExitCutsNobody ==
  exited => \/ \A c \in Conns : handling[c] \in {"runs", "waits"} => sock[c] = "closed"
            \/ \A w \in Ways : way[w] # "none"

\* A shutdown ends, unless a connected peer waits for a handler that waits for Core or
\* whose answer did not verify, or data lies unread before the end of a paused socket.
ShutdownEnds ==
  (\E w \in Ways : way[w] # "none")
    ~> (\/ exited
        \/ \E c \in Conns : sock[c] = "open" /\ handling[c] \in {"waits", "stuck"}
        \/ \E c \in Conns : sock[c] = "ended" /\ OnWire(c) > 0)
=============================================================================
