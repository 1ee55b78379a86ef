------------------------ MODULE AbciConnectionsProofs ------------------------
(***************************************************************************)
(* Proofs about AbciConnections for every set of connections and every     *)
(* number of requests and failures.  A connection that was not destroyed   *)
(* has at most one request that is not answered, the one its handler has;  *)
(* and nobody waits for the server once it has closed.                     *)
(***************************************************************************)
EXTENDS AbciConnections, TLAPS

\* A connection's requests, those begun and those answered.
RequestsInv(c) ==
  /\ 2 * begun[c] + buffer[c] <= written[c]
  /\ answered[c] <= begun[c]
  /\ handling[c] # "none" => isReading[c] /\ answered[c] < begun[c]
  /\ sock[c] # "closed" =>
       begun[c] = IF handling[c] = "none" THEN answered[c] ELSE answered[c] + 1
  /\ sock[c] = "none" => buffer[c] = 0 /\ handling[c] = "none"
  /\ sock[c] = "ended" => isClosing[c] /\ ~isReading[c]

\* What is left of the server when a way to shut down has come to its end.
ClosingInv ==
  /\ listening <=> \A w \in Ways : way[w] = "none"
  /\ (\E w \in Ways : way[w] = "ready") =>
       \/ \A c \in Conns : sock[c] \in {"none", "closed"}
       \/ \A w \in Ways : way[w] # "none"
  /\ exited => \E w \in Ways : way[w] = "ready"

IInv ==
  /\ TypeOK /\ ClosingInv /\ NoRequestForgotten
  /\ \A c \in Conns : RequestsInv(c)

USE AbciAssumption

-----------------------------------------------------------------------------
(* Reading a request *)

\* What readNextRequest leaves of a connection that reads nothing, if the begun
\* requests are answered, or destroyed with the socket.
LEMMA RequestRead ==
  ASSUME TypeOK, NEW c \in Conns, NEW n \in 0 .. MaxParts,
         2 * begun[c] + n <= written[c],
         NEW a \in 0 .. MaxParts, a <= begun[c],
         sock[c] # "closed" => a = begun[c],
         ReadNextRequest(c, n)
  PROVE  /\ buffer' \in [Conns -> 0 .. MaxParts] /\ begun' \in [Conns -> 0 .. MaxParts]
         /\ handling' \in [Conns -> {"none", "runs", "waits", "stuck"}]
         /\ isReading' \in [Conns -> BOOLEAN] /\ paused' \in [Conns -> BOOLEAN]
         /\ \A d \in Conns : d # c => /\ buffer'[d] = buffer[d] /\ begun'[d] = begun[d]
                                      /\ handling'[d] = handling[d]
                                      /\ isReading'[d] = isReading[d]
         /\ 2 * begun'[c] + buffer'[c] <= written[c]
         /\ a <= begun'[c]
         /\ handling'[c] # "none" => isReading'[c] /\ a < begun'[c]
         /\ sock[c] # "closed" => begun'[c] = IF handling'[c] = "none" THEN a ELSE a + 1
         /\ isReading'[c] \/ isClosing[c] \/ buffer'[c] < 2
<1>1. CASE /\ n >= 2 /\ ~isClosing[c]
           /\ buffer' = [buffer EXCEPT ![c] = n - 2]
           /\ \E how \in {"runs", "waits"} : handling' = [handling EXCEPT ![c] = how]
           /\ isReading' = [isReading EXCEPT ![c] = TRUE]
           /\ paused' = [paused EXCEPT ![c] = TRUE]
           /\ begun' = [begun EXCEPT ![c] = @ + 1]
  <2>1. begun[c] \in Nat /\ written[c] \in 0 .. MaxParts /\ begun[c] + 1 \in 0 .. MaxParts
    BY <1>1 DEF TypeOK
  <2>2. /\ isReading' \in [Conns -> BOOLEAN] /\ paused' \in [Conns -> BOOLEAN]
        /\ isReading'[c]
    BY <1>1 DEF TypeOK
  <2>3. PICK how \in {"runs", "waits"} : handling' = [handling EXCEPT ![c] = how]
    BY <1>1
  <2>4. /\ buffer' \in [Conns -> 0 .. MaxParts] /\ begun' \in [Conns -> 0 .. MaxParts]
        /\ buffer'[c] = n - 2 /\ begun'[c] = begun[c] + 1
    BY <1>1, <2>1 DEF TypeOK
  <2>5. /\ handling' \in [Conns -> {"none", "runs", "waits", "stuck"}]
        /\ handling'[c] # "none"
    BY <2>3 DEF TypeOK
  <2>6. \A d \in Conns : d # c => /\ buffer'[d] = buffer[d] /\ begun'[d] = begun[d]
                                  /\ handling'[d] = handling[d]
                                  /\ isReading'[d] = isReading[d]
    BY <1>1, <2>3 DEF TypeOK
  <2> QED BY <2>1, <2>2, <2>4, <2>5, <2>6
<1>2. CASE /\ n < 2 \/ isClosing[c]
           /\ buffer' = [buffer EXCEPT ![c] = n]
           /\ handling' = [handling EXCEPT ![c] = "none"]
           /\ isReading' = [isReading EXCEPT ![c] = FALSE]
           /\ paused' = [paused EXCEPT ![c] = isClosing[c]]
           /\ UNCHANGED begun
  <2>1. /\ isReading' \in [Conns -> BOOLEAN] /\ paused' \in [Conns -> BOOLEAN]
    BY <1>2 DEF TypeOK
  <2>2. /\ buffer' \in [Conns -> 0 .. MaxParts] /\ begun' \in [Conns -> 0 .. MaxParts]
        /\ handling' \in [Conns -> {"none", "runs", "waits", "stuck"}]
        /\ buffer'[c] = n /\ begun'[c] = begun[c] /\ handling'[c] = "none"
    BY <1>2 DEF TypeOK
  <2>3. \A d \in Conns : d # c => /\ buffer'[d] = buffer[d] /\ begun'[d] = begun[d]
                                  /\ handling'[d] = handling[d]
                                  /\ isReading'[d] = isReading[d]
    BY <1>2 DEF TypeOK
  <2>4. isClosing[c] \/ buffer'[c] < 2
    BY <1>2, <2>2
  <2> QED BY <2>1, <2>2, <2>3, <2>4
<1> QED BY <1>1, <1>2 DEF ReadNextRequest

\* A connection nothing happens to.
LEMMA RequestsKept ==
  ASSUME NEW c \in Conns, RequestsInv(c),
         written'[c] = written[c], buffer'[c] = buffer[c], begun'[c] = begun[c],
         answered'[c] = answered[c], handling'[c] = handling[c], isReading'[c] = isReading[c],
         sock'[c] = sock[c], isClosing[c] => isClosing'[c]
  PROVE  RequestsInv(c)'
<1>1. /\ 2 * begun'[c] + buffer'[c] <= written'[c]
      /\ answered'[c] <= begun'[c]
  BY DEF RequestsInv
<1>2. /\ sock'[c] # "closed" =>
           begun'[c] = IF handling'[c] = "none" THEN answered'[c] ELSE answered'[c] + 1
      /\ sock'[c] = "none" => buffer'[c] = 0 /\ handling'[c] = "none"
      /\ handling'[c] # "none" => answered'[c] < begun'[c]
  BY DEF RequestsInv
<1>3. /\ handling'[c] # "none" => isReading'[c]
      /\ sock'[c] = "ended" => isClosing'[c] /\ ~isReading'[c]
  <2>1. /\ handling[c] # "none" => isReading[c]
        /\ sock[c] = "ended" => isClosing[c] /\ ~isReading[c]
    BY DEF RequestsInv
  <2> QED BY <2>1, Zenon
<1> QED BY <1>1, <1>2, <1>3 DEF RequestsInv

-----------------------------------------------------------------------------
(* Initial states *)

LEMMA InitIInv == Init => IInv
<1> SUFFICES ASSUME Init PROVE IInv
  OBVIOUS
<1>1. TypeOK
  <2>1. /\ listening \in BOOLEAN /\ immediate \in BOOLEAN /\ exited \in BOOLEAN
    BY Zenon DEF Init
  <2>2. /\ isReading \in [Conns -> BOOLEAN] /\ isClosing \in [Conns -> BOOLEAN]
        /\ paused \in [Conns -> BOOLEAN]
    BY DEF Init
  <2>3. /\ sock \in [Conns -> {"none", "open", "ended", "closed"}]
        /\ written \in [Conns -> 0 .. MaxParts] /\ buffer \in [Conns -> 0 .. MaxParts]
        /\ handling \in [Conns -> {"none", "runs", "waits", "stuck"}]
        /\ begun \in [Conns -> 0 .. MaxParts] /\ answered \in [Conns -> 0 .. MaxParts]
        /\ way \in [Ways -> {"none", "closing", "ready"}]
        /\ bad \in 0 .. MaxBad
    BY DEF Init
  <2> QED BY <2>1, <2>2, <2>3 DEF TypeOK
<1>2. ClosingInv
  BY DEF Init, ClosingInv, Ways
<1>3. NoRequestForgotten /\ \A c \in Conns : RequestsInv(c)
  BY DEF Init, NoRequestForgotten, RequestsInv
<1> QED BY <1>1, <1>2, <1>3 DEF IInv

-----------------------------------------------------------------------------
(* The peer and the socket *)

LEMMA ConnectIInv == ASSUME IInv, NEW c \in Conns, Connect(c) PROVE IInv'
<1>1. /\ listening /\ ~exited /\ sock[c] = "none" /\ sock' = [sock EXCEPT ![c] = "open"]
      /\ UNCHANGED <<listening, flow, isClosing, handling, immediate, way, exited, bad>>
  BY DEF Connect
<1>2. TypeOK'
  BY <1>1 DEF IInv, TypeOK, flow
<1>3. ClosingInv'
  BY <1>1 DEF IInv, ClosingInv
<1>4. buffer[c] = 0
  BY <1>1 DEF IInv, RequestsInv
<1>5. NoRequestForgotten'
  BY <1>1, <1>4 DEF IInv, NoRequestForgotten, TypeOK, flow
<1>6. \A d \in Conns : RequestsInv(d)'
  BY <1>1 DEF IInv, RequestsInv, TypeOK, flow
<1> QED BY <1>2, <1>3, <1>5, <1>6 DEF IInv

LEMMA WriteIInv == ASSUME IInv, NEW c \in Conns, Write(c) PROVE IInv'
<1>1. /\ sock[c] = "open" /\ written[c] < MaxParts
      /\ written' = [written EXCEPT ![c] = @ + 1]
      /\ UNCHANGED <<listening, sock, buffer, isReading, paused, begun, answered, isClosing,
                     handling, immediate, way, exited, bad>>
  BY DEF Write
<1>2. TypeOK'
  BY <1>1 DEF IInv, TypeOK
<1>3. ClosingInv' /\ NoRequestForgotten'
  BY <1>1 DEF IInv, ClosingInv, NoRequestForgotten
<1>4. \A d \in Conns : RequestsInv(d)'
  BY <1>1 DEF IInv, RequestsInv, TypeOK
<1> QED BY <1>2, <1>3, <1>4 DEF IInv

LEMMA DataIInv == ASSUME IInv, NEW c \in Conns, Data(c) PROVE IInv'
<1>1. /\ sock[c] = "open"
      /\ UNCHANGED <<listening, sock, written, answered, isClosing, immediate, way, exited, bad>>
  BY DEF Data
<1>2. PICK n \in 1 .. OnWire(c) :
        IF isReading[c] \/ isClosing[c]
        THEN /\ buffer' = [buffer EXCEPT ![c] = @ + n]
             /\ UNCHANGED <<handling, isReading, paused, begun>>
        ELSE ReadNextRequest(c, buffer[c] + n)
  BY DEF Data
<1>3. /\ n \in Nat /\ buffer[c] \in 0 .. MaxParts /\ begun[c] \in 0 .. MaxParts
      /\ written[c] \in 0 .. MaxParts /\ answered[c] \in 0 .. MaxParts
      /\ buffer[c] + n \in 0 .. MaxParts
      /\ 2 * begun[c] + (buffer[c] + n) <= written[c]
  BY DEF IInv, TypeOK, RequestsInv, OnWire
<1>4. ClosingInv'
  BY <1>1 DEF IInv, ClosingInv
<1>5. CASE isReading[c] \/ isClosing[c]
  <2>1. /\ buffer' = [buffer EXCEPT ![c] = buffer[c] + n]
        /\ UNCHANGED <<handling, isReading, paused, begun>>
    BY <1>2, <1>5
  <2>2. TypeOK'
    BY <1>1, <1>3, <2>1 DEF IInv, TypeOK
  <2>3. NoRequestForgotten'
    BY <1>1, <1>5, <2>1 DEF IInv, NoRequestForgotten, TypeOK
  <2>4. \A d \in Conns : RequestsInv(d)'
    BY <1>1, <1>3, <2>1 DEF IInv, RequestsInv, TypeOK
  <2> QED BY <1>4, <2>2, <2>3, <2>4 DEF IInv
<1>6. CASE ~(isReading[c] \/ isClosing[c])
  <2>1. ReadNextRequest(c, buffer[c] + n)
    BY <1>2, <1>6
  <2>2. answered[c] = begun[c] /\ TypeOK
    BY <1>1, <1>6 DEF IInv, RequestsInv
  <2>3. /\ buffer' \in [Conns -> 0 .. MaxParts] /\ begun' \in [Conns -> 0 .. MaxParts]
        /\ handling' \in [Conns -> {"none", "runs", "waits", "stuck"}]
        /\ isReading' \in [Conns -> BOOLEAN] /\ paused' \in [Conns -> BOOLEAN]
        /\ \A d \in Conns : d # c => /\ buffer'[d] = buffer[d] /\ begun'[d] = begun[d]
                                     /\ handling'[d] = handling[d]
                                     /\ isReading'[d] = isReading[d]
        /\ 2 * begun'[c] + buffer'[c] <= written[c]
        /\ answered[c] <= begun'[c]
        /\ handling'[c] # "none" => isReading'[c] /\ answered[c] < begun'[c]
        /\ sock[c] # "closed" =>
             begun'[c] = IF handling'[c] = "none" THEN answered[c] ELSE answered[c] + 1
        /\ isReading'[c] \/ isClosing[c] \/ buffer'[c] < 2
    BY <1>3, <2>1, <2>2, RequestRead
  <2>4. TypeOK'
    BY <1>1, <2>3 DEF IInv, TypeOK
  <2>5. NoRequestForgotten'
    BY <1>1, <2>3 DEF IInv, NoRequestForgotten
  <2>6. RequestsInv(c)'
    BY <1>1, <2>3 DEF RequestsInv
  <2>7. ASSUME NEW d \in Conns, d # c PROVE RequestsInv(d)'
    BY <1>1, <2>3, <2>7, RequestsKept DEF IInv
  <2> QED BY <1>4, <2>4, <2>5, <2>6, <2>7 DEF IInv
<1> QED BY <1>5, <1>6

LEMMA MalformedIInv == ASSUME IInv, NEW c \in Conns, Malformed(c) PROVE IInv'
<1>1. /\ sock[c] = "open" /\ sock' = [sock EXCEPT ![c] = "closed"]
      /\ isReading' = [isReading EXCEPT ![c] = TRUE]
      /\ UNCHANGED <<listening, written, buffer, paused, begun, answered, isClosing, handling,
                     immediate, way, exited, bad>>
  BY DEF Malformed
<1>2. TypeOK'
  BY <1>1 DEF IInv, TypeOK
<1>3. ClosingInv'
  BY <1>1 DEF IInv, ClosingInv, TypeOK
<1>4. NoRequestForgotten'
  BY <1>1 DEF IInv, NoRequestForgotten, TypeOK
<1>5. \A d \in Conns : RequestsInv(d)'
  BY <1>1 DEF IInv, RequestsInv, TypeOK
<1> QED BY <1>2, <1>3, <1>4, <1>5 DEF IInv

LEMMA EndIInv == ASSUME IInv, NEW c \in Conns, End(c) PROVE IInv'
<1>1. /\ ~exited /\ isClosing[c] /\ sock[c] = "open" /\ ~isReading[c]
      /\ sock' = [sock EXCEPT ![c] = "ended"]
      /\ UNCHANGED <<listening, flow, isClosing, handling, immediate, way, exited, bad>>
  BY DEF End
<1>2. TypeOK'
  BY <1>1 DEF IInv, TypeOK, flow
<1>3. ClosingInv'
  BY <1>1 DEF IInv, ClosingInv, TypeOK
<1>4. NoRequestForgotten'
  BY <1>1 DEF IInv, NoRequestForgotten, TypeOK, flow
<1>5. \A d \in Conns : RequestsInv(d)'
  BY <1>1 DEF IInv, RequestsInv, TypeOK, flow
<1> QED BY <1>2, <1>3, <1>4, <1>5 DEF IInv

LEMMA PeerClosesIInv == ASSUME IInv, NEW c \in Conns, PeerCloses(c) PROVE IInv'
<1>1. /\ sock[c] \in {"open", "ended"} /\ sock' = [sock EXCEPT ![c] = "closed"]
      /\ UNCHANGED <<listening, flow, isClosing, handling, immediate, way, exited, bad>>
  BY DEF PeerCloses
<1>2. TypeOK'
  BY <1>1 DEF IInv, TypeOK, flow
<1>3. ClosingInv'
  BY <1>1 DEF IInv, ClosingInv, TypeOK
<1>4. NoRequestForgotten'
  BY <1>1 DEF IInv, NoRequestForgotten, TypeOK, flow
<1>5. \A d \in Conns : RequestsInv(d)'
  BY <1>1 DEF IInv, RequestsInv, TypeOK, flow
<1> QED BY <1>2, <1>3, <1>4, <1>5 DEF IInv

-----------------------------------------------------------------------------
(* Shutting down *)

\* A way to shut down is taken when it was not.
LEMMA ServerCloses ==
  ASSUME TypeOK, ClosingInv, NEW w \in Ways, way[w] = "none", CloseAbciServer(w),
         exited' = exited,
         \A c \in Conns : sock'[c] = sock[c] \/ sock'[c] = "closed"
  PROVE  /\ listening' \in BOOLEAN /\ immediate' \in BOOLEAN
         /\ way' \in [Ways -> {"none", "closing", "ready"}]
         /\ ClosingInv'
<1>0. /\ way' = [way EXCEPT ![w] = IF listening THEN "closing" ELSE "ready"]
      /\ listening' = FALSE
      /\ immediate' = (immediate \/ listening)
  BY DEF CloseAbciServer
<1>1. listening' \in BOOLEAN /\ immediate' \in BOOLEAN
  BY <1>0
<1>2. way' \in [Ways -> {"none", "closing", "ready"}] /\ way'[w] # "none"
      /\ \A v \in Ways : v # w => way'[v] = way[v]
  BY <1>0 DEF TypeOK
<1>3. CASE listening
  <2>1. \A v \in Ways : way'[v] # "ready"
    BY <1>0, <1>2, <1>3 DEF ClosingInv, TypeOK
  <2>2. ~exited'
    BY <1>3 DEF ClosingInv
  <2> QED BY <1>0, <1>1, <1>2, <2>1, <2>2 DEF ClosingInv
<1>4. CASE ~listening
  <2>1. \A v \in Ways : way'[v] # "none"
    BY <1>2, <1>4 DEF ClosingInv, Ways
  <2>2. way'[w] = "ready"
    BY <1>0, <1>4 DEF TypeOK
  <2> QED BY <1>0, <1>1, <1>2, <2>1, <2>2 DEF ClosingInv
<1> QED BY <1>3, <1>4

LEMMA SignalIInv == ASSUME IInv, Signal PROVE IInv'
<1>1. /\ way["signal"] = "none" /\ CloseAbciServer("signal")
      /\ UNCHANGED <<sock, flow, isClosing, handling, exited, bad>>
  BY DEF Signal
<1>2. /\ listening' \in BOOLEAN /\ immediate' \in BOOLEAN
      /\ way' \in [Ways -> {"none", "closing", "ready"}]
      /\ ClosingInv'
  <2>1. "signal" \in Ways /\ TypeOK /\ ClosingInv
    BY DEF Ways, IInv
  <2> QED BY <1>1, <2>1, ServerCloses
<1>3. TypeOK'
  BY <1>1, <1>2 DEF IInv, TypeOK, flow
<1>4. NoRequestForgotten' /\ \A c \in Conns : RequestsInv(c)'
  BY <1>1 DEF IInv, NoRequestForgotten, RequestsInv, flow
<1> QED BY <1>2, <1>3, <1>4 DEF IInv

LEMMA CloseConnectionsIInv == ASSUME IInv, CloseConnections PROVE IInv'
<1>1. /\ immediate' = FALSE
      /\ isClosing' = [c \in Conns |-> isClosing[c] \/ sock[c] = "open"]
      /\ paused' = [c \in Conns |-> paused[c] \/ sock[c] = "open"]
      /\ UNCHANGED <<listening, sock, written, buffer, isReading, begun, answered, handling, way,
                     exited, bad>>
  BY DEF CloseConnections
<1>2. /\ immediate' \in BOOLEAN /\ isClosing' \in [Conns -> BOOLEAN]
      /\ paused' \in [Conns -> BOOLEAN]
  BY <1>1
<1>3. TypeOK'
  BY <1>1, <1>2 DEF IInv, TypeOK
<1>4. ClosingInv'
  BY <1>1 DEF IInv, ClosingInv
<1>5. \A c \in Conns : isClosing[c] => isClosing'[c]
  BY <1>1
<1>6. NoRequestForgotten'
  BY <1>1, <1>5 DEF IInv, NoRequestForgotten
<1>7. \A c \in Conns : RequestsInv(c)'
  BY <1>1, <1>5, RequestsKept DEF IInv
<1> QED BY <1>3, <1>4, <1>6, <1>7 DEF IInv

LEMMA ServerClosedIInv == ASSUME IInv, ServerClosed PROVE IInv'
<1>1. /\ ~exited /\ ~listening /\ AllClosed
      /\ way' = [w \in Ways |-> IF way[w] = "closing" THEN "ready" ELSE way[w]]
      /\ UNCHANGED <<listening, sock, flow, isClosing, handling, immediate, exited, bad>>
  BY DEF ServerClosed
<1>2. TypeOK'
  BY <1>1 DEF IInv, TypeOK, flow
<1>3. \A w \in Ways : way'[w] = "none" <=> way[w] = "none"
  BY <1>1
<1>4. ClosingInv'
  BY <1>1, <1>3 DEF IInv, ClosingInv, AllClosed
<1>5. NoRequestForgotten' /\ \A c \in Conns : RequestsInv(c)'
  BY <1>1 DEF IInv, NoRequestForgotten, RequestsInv, flow
<1> QED BY <1>2, <1>4, <1>5 DEF IInv

LEMMA ExitIInv == ASSUME IInv, Exit PROVE IInv'
<1>1. /\ \E w \in Ways : way[w] = "ready"
      /\ exited' = TRUE
      /\ UNCHANGED <<listening, sock, flow, isClosing, handling, immediate, way, bad>>
  BY DEF Exit
<1>2. exited' \in BOOLEAN
  BY <1>1
<1>3. TypeOK'
  BY <1>1, <1>2 DEF IInv, TypeOK, flow
<1>4. ClosingInv'
  BY <1>1 DEF IInv, ClosingInv
<1>5. NoRequestForgotten' /\ \A c \in Conns : RequestsInv(c)'
  BY <1>1 DEF IInv, NoRequestForgotten, RequestsInv, flow
<1> QED BY <1>3, <1>4, <1>5 DEF IInv

-----------------------------------------------------------------------------
(* Handlers *)

LEMMA AnswerIInv == ASSUME IInv, NEW c \in Conns, Answer(c) PROVE IInv'
<1>1. /\ handling[c] \in {"runs", "waits"}
      /\ answered' = [answered EXCEPT ![c] = IF sock[c] = "open" THEN answered[c] + 1
                                             ELSE answered[c]]
      /\ ReadNextRequest(c, buffer[c])
      /\ UNCHANGED <<listening, sock, written, isClosing, immediate, way, exited, bad>>
  BY DEF Answer
<1>2. /\ TypeOK /\ RequestsInv(c) /\ ClosingInv /\ buffer[c] \in 0 .. MaxParts
      /\ begun[c] \in 0 .. MaxParts /\ answered[c] \in 0 .. MaxParts
      /\ written[c] \in 0 .. MaxParts /\ sock[c] \in {"none", "open", "ended", "closed"}
  BY DEF IInv, TypeOK
<1>3. sock[c] \in {"open", "closed"} /\ answered[c] < begun[c]
  BY <1>1, <1>2 DEF RequestsInv
<1>4. /\ answered'[c] \in 0 .. MaxParts /\ answered'[c] <= begun[c]
      /\ sock[c] # "closed" => answered'[c] = begun[c]
  <2>1. answered'[c] = IF sock[c] = "open" THEN answered[c] + 1 ELSE answered[c]
    BY <1>1 DEF IInv, TypeOK
  <2>2. sock[c] = "open" => begun[c] = answered[c] + 1
    BY <1>1, <1>2 DEF RequestsInv
  <2> QED BY <1>2, <1>3, <2>1, <2>2
<1>5. answered' \in [Conns -> 0 .. MaxParts] /\ \A d \in Conns : d # c => answered'[d] = answered[d]
  BY <1>1, <1>4 DEF IInv, TypeOK
<1>6. 2 * begun[c] + buffer[c] <= written[c]
  BY <1>2 DEF RequestsInv
<1>7. /\ buffer' \in [Conns -> 0 .. MaxParts] /\ begun' \in [Conns -> 0 .. MaxParts]
      /\ handling' \in [Conns -> {"none", "runs", "waits", "stuck"}]
      /\ isReading' \in [Conns -> BOOLEAN] /\ paused' \in [Conns -> BOOLEAN]
      /\ \A d \in Conns : d # c => /\ buffer'[d] = buffer[d] /\ begun'[d] = begun[d]
                                   /\ handling'[d] = handling[d]
                                   /\ isReading'[d] = isReading[d]
      /\ 2 * begun'[c] + buffer'[c] <= written[c]
      /\ answered'[c] <= begun'[c]
      /\ handling'[c] # "none" => isReading'[c] /\ answered'[c] < begun'[c]
      /\ sock[c] # "closed" =>
           begun'[c] = IF handling'[c] = "none" THEN answered'[c] ELSE answered'[c] + 1
      /\ isReading'[c] \/ isClosing[c] \/ buffer'[c] < 2
  BY <1>1, <1>2, <1>4, <1>6, RequestRead
<1>8. TypeOK'
  BY <1>1, <1>5, <1>7 DEF IInv, TypeOK
<1>9. ClosingInv'
  BY <1>1, <1>2 DEF ClosingInv
<1>10. NoRequestForgotten'
  BY <1>1, <1>7 DEF IInv, NoRequestForgotten
<1>11. RequestsInv(c)'
  BY <1>1, <1>3, <1>7 DEF RequestsInv
<1>12. ASSUME NEW d \in Conns, d # c PROVE RequestsInv(d)'
  BY <1>1, <1>5, <1>7, <1>12, RequestsKept DEF IInv
<1> QED BY <1>8, <1>9, <1>10, <1>11, <1>12 DEF IInv

\* The error handler, next to what else the failing request does.
LEMMA ErrorHandled ==
  ASSUME IInv, ErrorHandler, exited' = exited,
         \A c \in Conns : sock'[c] = sock[c] \/ sock'[c] = "closed"
  PROVE  /\ listening' \in BOOLEAN /\ immediate' \in BOOLEAN
         /\ way' \in [Ways -> {"none", "closing", "ready"}]
         /\ ClosingInv'
<1>1. "error" \in Ways /\ TypeOK /\ ClosingInv
  BY DEF Ways, IInv
<1>2. CASE way["error"] = "none"
  BY <1>1, <1>2, ServerCloses DEF ErrorHandler
<1>3. CASE way["error"] # "none"
  <2>1. UNCHANGED <<way, listening, immediate>>
    BY <1>3 DEF ErrorHandler
  <2> QED BY <1>1, <2>1 DEF ClosingInv, TypeOK
<1> QED BY <1>2, <1>3

LEMMA ThrowIInv == ASSUME IInv, NEW c \in Conns, Throw(c) PROVE IInv'
<1>1. /\ handling[c] \in {"runs", "waits"} /\ bad < MaxBad
      /\ bad' = bad + 1
      /\ handling' = [handling EXCEPT ![c] = "none"]
      /\ answered' = [answered EXCEPT ![c] = IF sock[c] = "open" THEN answered[c] + 1
                                             ELSE answered[c]]
      /\ sock' = [sock EXCEPT ![c] = "closed"]
      /\ ErrorHandler
      /\ UNCHANGED <<written, buffer, isReading, paused, begun, isClosing, exited>>
  BY DEF Throw
<1>2. \A d \in Conns : sock'[d] = sock[d] \/ sock'[d] = "closed"
  BY <1>1 DEF IInv, TypeOK
<1>3. /\ listening' \in BOOLEAN /\ immediate' \in BOOLEAN
      /\ way' \in [Ways -> {"none", "closing", "ready"}]
      /\ ClosingInv'
  BY <1>1, <1>2, ErrorHandled
<1>4. answered[c] \in 0 .. MaxParts /\ begun[c] \in 0 .. MaxParts /\ answered[c] < begun[c]
  BY <1>1 DEF IInv, TypeOK, RequestsInv
<1>5. /\ answered' \in [Conns -> 0 .. MaxParts] /\ answered'[c] <= begun[c]
      /\ \A d \in Conns : d # c => answered'[d] = answered[d]
  BY <1>1, <1>4 DEF IInv, TypeOK
<1>6. TypeOK'
  BY <1>1, <1>3, <1>5 DEF IInv, TypeOK
<1>7. /\ sock'[c] = "closed" /\ handling'[c] = "none"
      /\ \A d \in Conns : d # c => sock'[d] = sock[d] /\ handling'[d] = handling[d]
  BY <1>1 DEF IInv, TypeOK
<1>8. NoRequestForgotten'
  BY <1>1, <1>7 DEF IInv, NoRequestForgotten
<1>9. RequestsInv(c)'
  BY <1>1, <1>5, <1>7 DEF IInv, RequestsInv
<1>10. ASSUME NEW d \in Conns, d # c PROVE RequestsInv(d)'
  BY <1>1, <1>5, <1>7, <1>10, RequestsKept DEF IInv
<1> QED BY <1>3, <1>6, <1>8, <1>9, <1>10 DEF IInv

LEMMA UnverifiedIInv == ASSUME IInv, NEW c \in Conns, Unverified(c) PROVE IInv'
<1>1. /\ handling[c] \in {"runs", "waits"} /\ bad < MaxBad
      /\ bad' = bad + 1
      /\ handling' = [handling EXCEPT ![c] = "stuck"]
      /\ ErrorHandler
      /\ UNCHANGED <<sock, written, buffer, isReading, paused, begun, answered, isClosing, exited>>
  BY DEF Unverified
<1>2. /\ listening' \in BOOLEAN /\ immediate' \in BOOLEAN
      /\ way' \in [Ways -> {"none", "closing", "ready"}]
      /\ ClosingInv'
  BY <1>1, ErrorHandled
<1>3. TypeOK'
  BY <1>1, <1>2 DEF IInv, TypeOK
<1>4. NoRequestForgotten'
  BY <1>1 DEF IInv, NoRequestForgotten
<1>5. \A d \in Conns : RequestsInv(d)'
  BY <1>1 DEF IInv, RequestsInv, TypeOK
<1> QED BY <1>2, <1>3, <1>4, <1>5 DEF IInv

LEMMA StutterIInv == ASSUME IInv, UNCHANGED vars PROVE IInv'
<1> USE DEF vars, flow
<1>1. TypeOK'
  BY DEF IInv, TypeOK
<1>2. ClosingInv' /\ NoRequestForgotten'
  BY DEF IInv, ClosingInv, NoRequestForgotten
<1>3. \A c \in Conns : RequestsInv(c)'
  BY DEF IInv, RequestsInv
<1> QED BY <1>1, <1>2, <1>3 DEF IInv

-----------------------------------------------------------------------------
LEMMA StepIInv == IInv /\ [Next]_vars => IInv'
<1> SUFFICES ASSUME IInv, [Next]_vars PROVE IInv'
  OBVIOUS
<1>1. CASE \E c \in Conns : Connect(c) \/ Write(c) \/ Data(c) \/ Malformed(c)
  BY <1>1, ConnectIInv, WriteIInv, DataIInv, MalformedIInv
<1>2. CASE \E c \in Conns : End(c) \/ PeerCloses(c)
  BY <1>2, EndIInv, PeerClosesIInv
<1>3. CASE \E c \in Conns : Answer(c) \/ Throw(c) \/ Unverified(c)
  BY <1>3, AnswerIInv, ThrowIInv, UnverifiedIInv
<1>4. CASE Signal \/ CloseConnections \/ ServerClosed \/ Exit
  BY <1>4, SignalIInv, CloseConnectionsIInv, ServerClosedIInv, ExitIInv
<1>5. CASE UNCHANGED vars
  BY <1>5, StutterIInv
<1> QED BY <1>1, <1>2, <1>3, <1>4, <1>5 DEF Next

\* The invariant of every reachable state.
THEOREM Invariance == Spec => []IInv
<1> QED BY InitIInv, StepIInv, PTL DEF Spec

\* Every variable keeps its type: no more is answered than was begun, no more begun
\* than was written.
THEOREM TypeCorrect == Spec => []TypeOK
<1>1. IInv => TypeOK
  BY DEF IInv
<1> QED BY <1>1, Invariance, PTL

\* No complete request lies in a buffer with nothing to wake its connection
\* (Connection.readNextRequest), whatever pieces the data comes in.
THEOREM RequestsNotForgotten == Spec => []NoRequestForgotten
<1>1. IInv => NoRequestForgotten
  BY DEF IInv
<1> QED BY <1>1, Invariance, PTL

\* Connection.close ends a socket only when all that was begun on it is answered.
THEOREM EndsBetweenRequests == Spec => []EndedBetweenRequests
<1>1. IInv => EndedBetweenRequests
  BY DEF IInv, EndedBetweenRequests, RequestsInv
<1> QED BY <1>1, Invariance, PTL

\* The process ends with nobody's request under way, unless the error handler and a
\* signal met (closeAbciServer).
THEOREM ExitsCutNobody == Spec => []ExitCutsNobody
<1>1. ASSUME IInv PROVE ExitCutsNobody
  <2>1. \A c \in Conns : handling[c] \in {"runs", "waits"} => sock[c] # "none"
    BY <1>1 DEF IInv, RequestsInv
  <2> QED BY <1>1, <2>1 DEF IInv, ClosingInv, ExitCutsNobody
<1> QED BY <1>1, Invariance, PTL
=============================================================================
