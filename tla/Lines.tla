-------------------------------- MODULE Lines --------------------------------
(***************************************************************************)
(* What a client may count on: the lines it sends are executed for it, in  *)
(* the order it sent them, each once, until it quits, hangs up, sends more *)
(* at once than the server reads, or the server ends.  There are no        *)
(* sockets, buffers and rounds here; PollLoop implements this when every   *)
(* line arrives in one piece.                                              *)
(***************************************************************************)
EXTENDS Naturals, Sequences

CONSTANTS
  Peers,        \* client connections
  Requests,     \* lines a client may send
  Quits,        \* those that end the client
  PowerOffs,    \* those that may end the server
  TooMany       \* as many lines at once end the client

VARIABLES
  queue,        \* the lines of each peer that are still to be executed
  phase,        \* "out", "in" or "gone"
  hung,         \* the peers that have hung up
  server        \* "up", "stopping", "down" or "crashed"

vars == <<queue, phase, hung, server>>

Alive == server \in {"up", "stopping"}

Init ==
  /\ queue = [p \in Peers |-> <<>>]
  /\ phase = [p \in Peers |-> "out"]
  /\ hung = {}
  /\ server = "up"

Submit(p, l) ==
  /\ Alive /\ phase[p] # "gone" /\ p \notin hung
  /\ queue' = [queue EXCEPT ![p] = Append(@, l)]
  /\ UNCHANGED <<phase, hung, server>>

\* In order or with a reset, which loses the newest lines.
HangUp(p) ==
  /\ Alive /\ phase[p] # "gone" /\ p \notin hung
  /\ hung' = hung \cup {p}
  /\ \E n \in 0 .. Len(queue[p]) : queue' = [queue EXCEPT ![p] = SubSeq(@, 1, n)]
  /\ UNCHANGED <<phase, server>>

\* The server accepts the connection, or fails to.
Admit(p) ==
  /\ Alive /\ phase[p] = "out"
  /\ \/ phase' = [phase EXCEPT ![p] = "in"] /\ UNCHANGED queue
     \/ phase' = [phase EXCEPT ![p] = "gone"] /\ queue' = [queue EXCEPT ![p] = <<>>]
  /\ UNCHANGED <<hung, server>>

\* The oldest line is executed.  Behind a QUIT some lines may be at hand.
Take(p) ==
  /\ Alive /\ phase[p] = "in" /\ queue[p] # <<>>
  /\ IF Head(queue[p]) \in Quits
       THEN /\ phase' = [phase EXCEPT ![p] = "gone"]
            /\ \E n \in 0 .. Len(queue[p]) - 1 :
                 queue' = [queue EXCEPT ![p] = SubSeq(@, 2, n + 1)]
       ELSE /\ queue' = [queue EXCEPT ![p] = Tail(@)]
            /\ UNCHANGED phase
  /\ \/ UNCHANGED server
     \/ Head(queue[p]) \in PowerOffs /\ server' = "stopping"
  /\ UNCHANGED hung

\* The server lets a client go that has hung up or sent too much, or all of
\* them when it ends.
Drop(p) ==
  /\ Alive /\ phase[p] = "in"
  /\ p \in hung \/ Len(queue[p]) >= TooMany \/ server = "stopping"
  /\ phase' = [phase EXCEPT ![p] = "gone"]
  /\ queue' = [queue EXCEPT ![p] = <<>>]
  /\ UNCHANGED <<hung, server>>

\* A SIGINT, or an error of poll.
Stop ==
  /\ server = "up"
  /\ server' = "stopping"
  /\ UNCHANGED <<queue, phase, hung>>

Finish ==
  /\ server = "stopping"
  /\ \A p \in Peers : phase[p] # "in"
  /\ server' = "down"
  /\ UNCHANGED <<queue, phase, hung>>

\* Only a line behind a QUIT can do it.
Crash ==
  /\ Alive
  /\ \E p \in Peers : phase[p] = "gone" /\ queue[p] # <<>>
  /\ server' = "crashed"
  /\ UNCHANGED <<queue, phase, hung>>

Next ==
  \/ \E p \in Peers, l \in Requests : Submit(p, l)
  \/ \E p \in Peers : HangUp(p) \/ Admit(p) \/ Take(p) \/ Drop(p)
  \/ Stop
  \/ Finish
  \/ Crash

\* The server gets to every client that it has accepted, and to its own end.
Fairness ==
  /\ \A p \in Peers : WF_vars(Take(p) \/ Drop(p))
  /\ WF_vars(Finish \/ Crash)

Spec == Init /\ [][Next]_vars /\ Fairness

=============================================================================
