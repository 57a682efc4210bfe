------------------------------ MODULE PollLoop ------------------------------
(***************************************************************************)
(* Server::start and what it calls on sockets: poll, the index loop over   *)
(* _fds, accept, recv, the line buffer that all clients share, the end of  *)
(* a client inside the loop, the stop flag and disconnectAllClients.       *)
(*                                                                         *)
(* A line is two pieces: its command, and the rest with the newline.  That *)
(* is enough for a line to arrive in parts and for parts of two clients to *)
(* meet.  Of commands there are three kinds: QUIT, POWEROFF, and all those *)
(* that the loop does not notice.                                          *)
(***************************************************************************)
EXTENDS Integers, FiniteSets, SequencesExt

CONSTANTS
  Peers,        \* client connections, each made once
  Nobody,       \* not a peer
  Fds,          \* descriptors for clients
  Splitters,    \* peers whose lines may arrive in parts
  Kinds,        \* of commands that clients send
  Limit,        \* pieces that fill the 512 bytes recv may return
  MaxPending,   \* bound: pieces of each peer that are not executed yet
  InterruptLeaves  \* what an interrupted poll does to revents: "kept", "cleared"

Listener == 0

ASSUME PeersAssumption == IsFiniteSet(Peers) /\ Nobody \notin Peers
ASSUME FdsAssumption == IsFiniteSet(Fds) /\ Fds \subseteq Nat \ {Listener}
ASSUME KindsAssumption == Kinds \subseteq {"QUIT", "POWEROFF", "OTHER"}
ASSUME LimitAssumption == Limit \in Nat \ {0}
ASSUME PendingAssumption == MaxPending \in [Peers -> {n \in Nat : n % 2 = 0}]
ASSUME InterruptAssumption == InterruptLeaves \subseteq {"kept", "cleared"}

VARIABLES
  dialed,       \* peers that have connected
  hungUp,       \* peers that have closed their end
  backlog,      \* connections the kernel holds for accept
  inbox,        \* what the kernel has received from each peer
  sent,         \* the number of the next piece of each peer
  sock,         \* the peer at each descriptor
  fds,          \* Server::_fds: descriptor, and POLLIN in revents
  users,        \* the keys of Server::_users
  i,            \* the index of the loop
  cur,          \* clientfd of handleIncomingData, while it runs
  buf,          \* incompleteLine
  lines,        \* the part of incompleteLine that is still to be executed
  stop,         \* stopSignalReceived
  pc,           \* where the server is
  next          \* history: per peer, the number after the last piece executed

env == <<dialed, hungUp, backlog, inbox, sent>>
tables == <<sock, fds, users>>
loop == <<i, cur, buf, lines, stop, pc>>
vars == <<env, tables, loop, next>>

\* Pieces are numbered modulo more than there can be on their way.
Modulus(p) == MaxPending[p] + 2

\* A piece of a line.  The second one holds no command.
Piece == UNION {[from : {p}, num : 0 .. Modulus(p) - 1, cmd : Kinds \cup {"OTHER"}] :
                  p \in Peers}

\* An entry of _fds.
Entry(f, r) == [fd |-> f, ready |-> r]

PollTypeOK ==
  /\ dialed \subseteq Peers /\ hungUp \subseteq dialed
  /\ backlog \in Seq(Peers)
  /\ inbox \in [Peers -> Seq(Piece)]
  /\ sent \in [Peers -> Nat] /\ \A p \in Peers : sent[p] < Modulus(p)
  /\ sock \in [Fds -> Peers \cup {Nobody}]
  /\ fds \in Seq([fd : Fds \cup {Listener}, ready : BOOLEAN])
  /\ users \subseteq Fds
  /\ i \in Nat \ {0} /\ cur \in Fds \cup {Listener}
  /\ buf \in Seq(Piece) /\ lines \in Seq(Piece)
  /\ stop \in BOOLEAN
  /\ pc \in {"test", "poll", "scan", "lines", "closing", "done", "fault"}
  /\ next \in [Peers -> Nat] /\ \A p \in Peers : next[p] < Modulus(p)

-----------------------------------------------------------------------------
(* Lines *)

\* The second piece of a line has the newline.
Ends(b) == b.num % 2 = 1

FirstEndLast(s) ==                      \* mutant: find_last_of
  CHOOSE n \in DOMAIN s : Ends(s[n]) /\ \A m \in n + 1 .. Len(s) : ~ Ends(s[m])

FirstEnd(s) ==
  CHOOSE n \in DOMAIN s : Ends(s[n]) /\ \A m \in 1 .. n - 1 : ~ Ends(s[m])

FirstLine(s) == SubSeq(s, 1, FirstEnd(s))

AfterFirstLineShort(s) ==               \* mutant: off by one
  SubSeq(s, FirstEnd(s), Len(s))

AfterFirstLine(s) == SubSeq(s, FirstEnd(s) + 1, Len(s))

\* The pieces of a peer, one more read at a time.
Taken(p, pieces, b) == IF b.from = p THEN Append(pieces, b) ELSE pieces

From(p, s) ==
  LET read[n \in 0 .. Len(s)] == IF n = 0 THEN <<>> ELSE Taken(p, read[n - 1], s[n])
  IN  read[Len(s)]

\* What the server has read and not executed.
InHand == IF pc \in {"lines", "fault"} THEN lines ELSE buf

\* What is on its way from a peer to its execution.
Way(p) == From(p, InHand) \o inbox[p]

\* The number of the next piece to be executed, after a line.
Executed(line) ==
  [p \in Peers |-> IF From(p, line) = <<>>
                     THEN next[p]
                     ELSE (Last(From(p, line)).num + 1) % Modulus(p)]

-----------------------------------------------------------------------------
(* Clients: they connect, send and hang up whenever they like *)

Running == pc \notin {"done", "fault"}

IsServed(p) == \E f \in Fds : sock[f] = p

CanSend(p) ==
  /\ Running /\ p \in dialed \ hungUp
  /\ IsServed(p) \/ Contains(backlog, p)

Dial(p) ==
  /\ Running /\ p \notin dialed
  /\ dialed' = dialed \cup {p}
  /\ backlog' = Append(backlog, p)
  /\ UNCHANGED <<hungUp, inbox, sent, tables, loop, next>>

NextPiece(p, n, k) == [from |-> p, num |-> (sent[p] + n) % Modulus(p), cmd |-> k]

Send(p, pieces) ==
  /\ CanSend(p)
  /\ Len(inbox[p]) + Len(From(p, buf)) + Len(pieces) <= MaxPending[p]
  /\ inbox' = [inbox EXCEPT ![p] = @ \o pieces]
  /\ sent' = [sent EXCEPT ![p] = (@ + Len(pieces)) % Modulus(p)]
  /\ UNCHANGED <<dialed, hungUp, backlog, tables, loop, next>>

SendLine(p, k) ==
  sent[p] % 2 = 0 /\ Send(p, <<NextPiece(p, 0, k), NextPiece(p, 1, "OTHER")>>)

SendStart(p, k) ==
  p \in Splitters /\ sent[p] % 2 = 0 /\ Send(p, <<NextPiece(p, 0, k)>>)

SendRest(p) ==
  p \in Splitters /\ sent[p] % 2 = 1 /\ Send(p, <<NextPiece(p, 0, "OTHER")>>)

\* In order, or with a reset that loses what was not read.
HangUp(p) ==
  /\ CanSend(p)
  /\ hungUp' = hungUp \cup {p}
  /\ inbox' \in {inbox, [inbox EXCEPT ![p] = <<>>]}
  /\ UNCHANGED <<dialed, backlog, sent, tables, loop, next>>

-----------------------------------------------------------------------------
(* The tables of the server *)

AddToPollUncleared(s, f) == Append(s, Entry(f, TRUE))   \* mutant: revents not set

AddToPoll(s, f) == Append(s, Entry(f, FALSE))

EntryOf(s, f) ==
  CHOOSE n \in DOMAIN s : s[n].fd = f /\ \A m \in 1 .. n - 1 : s[m].fd # f

Erase(s, at) == [n \in 1 .. Len(s) - 1 |-> IF n < at THEN s[n] ELSE s[n + 1]]

DeleteFromPollPrevious(s, f) ==         \* mutant: off by one
  IF \E n \in DOMAIN s : s[n].fd = f THEN Erase(s, EntryOf(s, f) - 1) ELSE s

\* The first entry of the descriptor.
DeleteFromPoll(s, f) ==
  IF \E n \in DOMAIN s : s[n].fd = f THEN Erase(s, EntryOf(s, f)) ELSE s

\* disconnectClient; the kernel forgets what the client sent.
DisconnectClient(f) ==
  /\ fds' = DeleteFromPoll(fds, f)
  /\ users' = users \ {f}
  /\ sock' = [sock EXCEPT ![f] = Nobody]
  /\ inbox' = [inbox EXCEPT ![sock[f]] = <<>>]
  /\ UNCHANGED <<dialed, hungUp, backlog, sent>>

-----------------------------------------------------------------------------
(* poll *)

Readable(f) ==
  IF f = Listener THEN backlog # <<>>
                  ELSE inbox[sock[f]] # <<>> \/ sock[f] \in hungUp

SomeReadable == \E n \in DOMAIN fds : Readable(fds[n].fd)

ReadableFds == {f \in {fds[n].fd : n \in DOMAIN fds} : Readable(f)}

Revents(events) == [n \in DOMAIN fds |-> Entry(fds[n].fd, fds[n].fd \in events)]

ScanFromZero == pc' = "scan" /\ i' = 0  \* mutant: indices from 0

Scan == pc' = "scan" /\ i' = 1

\* while (stopSignalReceived == false)
Test ==
  /\ pc = "test"
  /\ pc' = IF stop THEN "closing" ELSE "poll"
  /\ UNCHANGED <<env, tables, i, cur, buf, lines, stop, next>>

PollReady ==
  /\ pc = "poll" /\ SomeReadable
  /\ fds' = Revents(ReadableFds)
  /\ Scan
  /\ UNCHANGED <<env, sock, users, cur, buf, lines, stop, next>>

PollTimesOutNot == FALSE                \* mutant: timeout -1

\* Sixty seconds without an event.
PollTimesOut ==
  /\ pc = "poll" /\ ~ SomeReadable
  /\ fds' = Revents({})
  /\ Scan
  /\ UNCHANGED <<env, sock, users, cur, buf, lines, stop, next>>

\* The exception that main catches, after the destructor of Server.
PollFails ==
  /\ pc = "poll" /\ ~ stop
  /\ pc' = "closing"
  /\ UNCHANGED <<env, tables, i, cur, buf, lines, stop, next>>

\* SIGINT: handleSignal sets the flag.  A poll that is waiting fails, which is
\* no error now that the flag is set, and says nothing of revents.
Signal ==
  /\ Running
  /\ stop' = TRUE
  /\ \/ UNCHANGED <<pc, i, fds>>
     \/ /\ pc = "poll" /\ ~ SomeReadable
        /\ Scan
        /\ \/ "kept" \in InterruptLeaves /\ UNCHANGED fds
           \/ "cleared" \in InterruptLeaves /\ fds' = Revents({})
  /\ UNCHANGED <<env, sock, users, cur, buf, lines, next>>

-----------------------------------------------------------------------------
(* The loop over _fds *)

InRange == i <= Len(fds)

AtReady == pc = "scan" /\ InRange /\ fds[i].ready

EndScan ==
  /\ pc = "scan" /\ ~ InRange
  /\ pc' = "test" /\ i' = 1
  /\ UNCHANGED <<env, tables, cur, buf, lines, stop, next>>

NotReady ==
  /\ pc = "scan" /\ InRange /\ ~ fds[i].ready
  /\ i' = i + 1
  /\ UNCHANGED <<env, tables, cur, buf, lines, stop, pc, next>>

\* The kernel gives the lowest descriptor that is free.
LowestFree(f) ==
  /\ sock[f] = Nobody
  /\ \A g \in Fds : sock[g] = Nobody => f <= g

Accept ==
  /\ AtReady /\ fds[i].fd = Listener /\ backlog # <<>>
  /\ \E f \in Fds :
       /\ LowestFree(f)
       /\ sock' = [sock EXCEPT ![f] = Head(backlog)]
       /\ fds' = AddToPoll(fds, f)
       /\ users' = users \cup {f}
  /\ backlog' = Tail(backlog)
  /\ i' = i + 1
  /\ UNCHANGED <<dialed, hungUp, inbox, sent, cur, buf, lines, stop, pc, next>>

\* accept fails, and the connection stays if there is one, or getnameinfo
\* does, and it is closed.
AcceptFails ==
  /\ AtReady /\ fds[i].fd = Listener
  /\ \/ UNCHANGED <<backlog, inbox>>
     \/ /\ backlog # <<>>
        /\ backlog' = Tail(backlog)
        /\ inbox' = [inbox EXCEPT ![Head(backlog)] = <<>>]
  /\ i' = i + 1
  /\ UNCHANGED <<dialed, hungUp, sent, tables, cur, buf, lines, stop, pc, next>>

Received == inbox[sock[fds[i].fd]]

\* End of file, an error, or as much as 512 bytes; what was read is lost.
RecvEnds ==
  /\ AtReady /\ fds[i].fd # Listener
  /\ \/ Received = <<>> /\ sock[fds[i].fd] \in hungUp
     \/ Len(Received) >= Limit
  /\ DisconnectClient(fds[i].fd)
  /\ i' = i + 1
  /\ UNCHANGED <<cur, buf, lines, stop, pc, next>>

Complete(kept, received) == Ends(Last(kept \o received))

\* With nothing to read, recv waits: the socket is a blocking one.
RecvData ==
  /\ AtReady /\ fds[i].fd # Listener
  /\ Len(Received) \in 1 .. Limit - 1
  /\ buf' = buf \o Received
  /\ inbox' = [inbox EXCEPT ![sock[fds[i].fd]] = <<>>]
  /\ IF Complete(buf, Received)
       THEN pc' = "lines" /\ lines' = buf' /\ cur' = fds[i].fd /\ UNCHANGED i
       ELSE i' = i + 1 /\ UNCHANGED <<pc, lines, cur>>
  /\ UNCHANGED <<dialed, hungUp, backlog, sent, tables, stop, next>>

-----------------------------------------------------------------------------
(* The lines of one buffer are executed for the client that completed it *)

KindOf(line) == line[1].cmd

ExecuteOther ==
  /\ pc = "lines" /\ lines # <<>> /\ cur \in users
  /\ KindOf(FirstLine(lines)) # "QUIT"
  /\ lines' = AfterFirstLine(lines)
  /\ next' = Executed(FirstLine(lines))
  /\ \/ UNCHANGED stop
     \/ KindOf(FirstLine(lines)) = "POWEROFF" /\ stop' = TRUE
  /\ UNCHANGED <<env, tables, i, cur, buf, pc>>

ExecuteQuit ==
  /\ pc = "lines" /\ lines # <<>> /\ cur \in users
  /\ KindOf(FirstLine(lines)) = "QUIT"
  /\ lines' = AfterFirstLine(lines)
  /\ next' = Executed(FirstLine(lines))
  /\ DisconnectClient(cur)
  /\ UNCHANGED <<i, cur, buf, stop, pc>>

\* A line behind a QUIT: its User has been deleted.
ExecuteForDeleted ==
  /\ pc = "lines" /\ lines # <<>> /\ cur \notin users
  /\ pc' = "fault"
  /\ UNCHANGED <<env, tables, i, cur, buf, lines, stop, next>>

BufferKept == buf                       \* mutant: incompleteLine is not cleared

BufferAfter == <<>>

LinesDoneBreak ==                       \* mutant: one client per poll
  /\ pc = "lines" /\ lines = <<>>
  /\ buf' = BufferAfter
  /\ pc' = "test" /\ i' = 1 /\ cur' = Listener
  /\ UNCHANGED <<env, tables, lines, stop, next>>

LinesDone ==
  /\ pc = "lines" /\ lines = <<>>
  /\ buf' = BufferAfter
  /\ pc' = "scan" /\ i' = i + 1 /\ cur' = Listener
  /\ UNCHANGED <<env, tables, lines, stop, next>>

-----------------------------------------------------------------------------
(* The destructor of Server *)

Close ==
  /\ pc = "closing"
  /\ \E f \in users : (\A g \in users : f <= g) /\ DisconnectClient(f)
  /\ UNCHANGED <<loop, next>>

CloseDone ==
  /\ pc = "closing" /\ users = {}
  /\ pc' = "done"
  /\ UNCHANGED <<env, tables, i, cur, buf, lines, stop, next>>

-----------------------------------------------------------------------------

Init ==
  /\ dialed = {} /\ hungUp = {}
  /\ backlog = <<>>
  /\ inbox = [p \in Peers |-> <<>>]
  /\ sent = [p \in Peers |-> 0]
  /\ sock = [f \in Fds |-> Nobody]
  /\ fds = <<Entry(Listener, FALSE)>>
  /\ users = {}
  /\ i = 1 /\ cur = Listener
  /\ buf = <<>> /\ lines = <<>>
  /\ stop = FALSE
  /\ pc = "test"
  /\ next = [p \in Peers |-> 0]

ClientStep(p) ==
  \/ Dial(p)
  \/ \E k \in Kinds : SendLine(p, k) \/ SendStart(p, k)
  \/ SendRest(p)
  \/ HangUp(p)

ServerStep ==
  \/ Test \/ PollReady \/ PollTimesOut \/ PollFails
  \/ EndScan \/ NotReady \/ Accept \/ AcceptFails \/ RecvEnds \/ RecvData
  \/ ExecuteOther \/ ExecuteQuit \/ ExecuteForDeleted \/ LinesDone
  \/ Close \/ CloseDone

Next == (\E p \in Peers : ClientStep(p)) \/ Signal \/ ServerStep

Spec == Init /\ [][Next]_vars

\* The only thread of the server goes on as long as it can; clients and signals
\* are free.  That a poll without events ends is due to its timeout.
FairSpec == Spec /\ WF_vars(ServerStep)

-----------------------------------------------------------------------------
(* Properties *)

\* _fds, _users and the open sockets agree: the listening socket first, then
\* one entry for each client, with no descriptor left out or listed twice, also
\* while a client ends inside the loop over _fds.
TablesAgree ==
  /\ fds[1].fd = Listener
  /\ \A m, n \in DOMAIN fds : fds[m].fd = fds[n].fd => m = n
  /\ {fds[n].fd : n \in DOMAIN fds} = users \cup {Listener}
  /\ users = {f \in Fds : sock[f] # Nobody}

\* Every piece is executed once and in order, however lines are cut, joined and
\* mixed with those of others: from the last one executed to the last one sent
\* nothing is missing.  A client that has gone may have lost the end.
NothingLostOrRepeated ==
  \A p \in Peers :
    /\ \A n \in DOMAIN Way(p) : Way(p)[n].num = (next[p] + n - 1) % Modulus(p)
    /\ (IsServed(p) \/ Contains(backlog, p)) /\ p \notin hungUp
         => sent[p] = (next[p] + Len(Way(p))) % Modulus(p)

\* recv is called where there is something to read or the peer is gone: the
\* blocking sockets never hold up the loop.  It takes an interrupted poll that
\* clears revents.
RecvNeverBlocks ==
  pc = "scan" /\ i \in DOMAIN fds /\ fds[i].ready /\ fds[i].fd # Listener
    => Readable(fds[i].fd)

\* Lines go astray only by their own sender's doing: what is executed for one
\* client and comes from another is part of a line that arrived in parts.
OnlyPartsGoAstray ==
  [][pc = "lines" /\ lines' # lines =>
       \A n \in DOMAIN FirstLine(lines) :
         FirstLine(lines)[n].from \in {sock[cur]} \cup Splitters]_vars

\* A client that sends its lines whole has each of them executed, whatever the
\* others do: an entry erased inside the loop puts the next one off, and the
\* unfinished line of another client gets into it, but neither holds it back.
WholeLinesAreExecuted ==
  \A p \in Peers \ Splitters : \A n \in {m \in 0 .. Modulus(p) - 1 : m % 2 = 0} :
    IsServed(p) /\ Way(p) # <<>> /\ next[p] = n
      ~> next[p] # n \/ ~ IsServed(p) \/ pc = "fault"

\* Once the flag is set the server ends with every client disconnected, even if
\* SIGINT comes after the flag was tested and before poll waits.
StopEnds == stop ~> pc = "fault" \/ (pc = "done" /\ fds = <<Entry(Listener, fds[1].ready)>>)

\* A line sent whole is a request of Lines.
Whole(s) == [n \in 1 .. Len(s) \div 2 |-> s[2 * n - 1]]

Heads == {b \in Piece : ~ Ends(b)}

Left(p) == p \in dialed /\ ~ IsServed(p) /\ ~ Contains(backlog, p)

Phase(p) == CASE IsServed(p) -> "in" [] Left(p) -> "gone" [] OTHER -> "out"

ServerPhase ==
  CASE pc = "fault" -> "crashed"
    [] pc = "done" -> "down"
    [] Running /\ (stop \/ pc = "closing") -> "stopping"
    [] OTHER -> "up"

Serves == INSTANCE Lines WITH
  Requests <- Heads,
  Quits <- {b \in Heads : b.cmd = "QUIT"},
  PowerOffs <- {b \in Heads : b.cmd = "POWEROFF"},
  TooMany <- (Limit + 1) \div 2,
  queue <- [p \in Peers |-> Whole(Way(p))],
  phase <- [p \in Peers |-> Phase(p)],
  hung <- hungUp,
  server <- ServerPhase

\* When every line arrives in one piece, each is executed for its sender, in
\* order and once: PollLoop implements Lines, its fairness included.
ServesLines == Serves!Spec

=============================================================================
