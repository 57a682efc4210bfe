--------------------------- MODULE PollLoopProofs ---------------------------
(***************************************************************************)
(* Proofs about PollLoop, for any number of clients, descriptors and       *)
(* lines: the tables of the server agree at every step of the loop that    *)
(* changes them; where a poll that is interrupted leaves no old events     *)
(* behind, recv is called only where it does not block; every piece that   *)
(* is sent is executed once and in order; only lines that arrive in parts  *)
(* are executed for another client; and where every line arrives in one    *)
(* piece, the loop implements Lines step by step.                          *)
(***************************************************************************)
EXTENDS PollLoop, Induction

Entries == [fd : Fds \cup {Listener}, ready : BOOLEAN]

\* The types of the tables and of what the kernel holds for them.
Shape ==
  /\ fds \in Seq(Entries) /\ fds # <<>>
  /\ users \subseteq Fds
  /\ sock \in [Fds -> Peers \cup {Nobody}]
  /\ i \in Nat \ {0}
  /\ backlog \in Seq(Peers)
  /\ inbox \in [Peers -> Seq(Piece)]
  /\ sent \in [Peers -> Nat]

\* A connection is accepted once and has one descriptor.
Apart ==
  /\ \A f, g \in Fds : sock[f] = sock[g] /\ sock[f] # Nobody => f = g
  /\ \A f \in Fds : sock[f] # Nobody =>
       sock[f] \in dialed /\ \A n \in 1 .. Len(backlog) : backlog[n] # sock[f]
  /\ \A m, n \in 1 .. Len(backlog) : backlog[m] = backlog[n] => m = n
  /\ \A n \in 1 .. Len(backlog) : backlog[n] \in dialed

TablesInv == Shape /\ TablesAgree /\ Apart

-----------------------------------------------------------------------------
(* Entries of _fds *)

LEMMA EraseProperties ==
  ASSUME NEW s \in Seq(Entries), NEW e \in 2 .. Len(s)
  PROVE  /\ Erase(s, e) \in Seq(Entries) /\ Erase(s, e) # <<>>
         /\ Len(Erase(s, e)) = Len(s) - 1
         /\ \A n \in 1 .. Len(s) - 1 :
              Erase(s, e)[n] = IF n < e THEN s[n] ELSE s[n + 1]
<1> DEFINE t == Erase(s, e)
<1>1. Len(s) \in Nat /\ Len(s) - 1 \in Nat /\ Len(s) - 1 > 0
  OBVIOUS
<1>2. \A n \in 1 .. Len(s) : s[n] \in Entries
  OBVIOUS
<1>3. \A n \in 1 .. Len(s) - 1 : t[n] = (IF n < e THEN s[n] ELSE s[n + 1]) /\ t[n] \in Entries
  BY <1>1, <1>2 DEF Erase
<1>4. t = [n \in 1 .. Len(s) - 1 |-> t[n]]
  BY DEF Erase
<1> HIDE DEF t
<1>5. t \in [1 .. Len(s) - 1 -> Entries]
  BY <1>3, <1>4
<1>6. t \in Seq(Entries) /\ Len(t) = Len(s) - 1
  BY <1>1, <1>4, <1>5
<1> QED
  BY <1>1, <1>3, <1>6 DEF t

\* deleteFromPoll takes the one entry of a client out of _fds.
LEMMA DeletesItsEntry ==
  ASSUME Shape, TablesAgree, NEW f \in users
  PROVE  \E e \in 2 .. Len(fds) : fds[e].fd = f /\ DeleteFromPoll(fds, f) = Erase(fds, e)
<1>1. PICK e \in DOMAIN fds : fds[e].fd = f
  BY DEF TablesAgree
<1>2. e \in 2 .. Len(fds)
  <2>1. f # Listener
    BY FdsAssumption DEF Shape
  <2>2. e # 1 /\ e \in 1 .. Len(fds)
    BY <1>1, <2>1 DEF TablesAgree, Shape
  <2> QED
    BY <2>2 DEF Shape
<1>3. \A n \in DOMAIN fds : fds[n].fd = f => n = e
  BY <1>1 DEF TablesAgree
<1>4. \A m \in 1 .. e - 1 : m \in DOMAIN fds /\ m # e
  BY <1>2 DEF Shape
<1>5. EntryOf(fds, f) = e
  BY <1>1, <1>3, <1>4 DEF EntryOf
<1> QED
  BY <1>1, <1>2, <1>5 DEF DeleteFromPoll

\* The entries after the end of a client.
LEMMA EntriesLeft ==
  ASSUME Shape, TablesAgree, NEW f \in users, DisconnectClient(f)
  PROVE  \E e \in 2 .. Len(fds) :
           /\ fds[e].fd = f
           /\ fds' \in Seq(Entries) /\ fds' # <<>>
           /\ Len(fds') = Len(fds) - 1
           /\ \A n \in 1 .. Len(fds) - 1 : fds'[n] = IF n < e THEN fds[n] ELSE fds[n + 1]
<1>1. PICK e \in 2 .. Len(fds) : fds[e].fd = f /\ DeleteFromPoll(fds, f) = Erase(fds, e)
  BY DeletesItsEntry
<1>2. fds' = Erase(fds, e)
  BY <1>1 DEF DisconnectClient
<1> QED
  BY <1>1, <1>2, EraseProperties DEF Shape

-----------------------------------------------------------------------------
(* The tables agree *)

LEMMA DisconnectTables ==
  ASSUME TablesInv, i' \in Nat \ {0}, NEW f \in users, DisconnectClient(f)
  PROVE  TablesInv'
<1> USE DEF TablesInv
<1>1. PICK e \in 2 .. Len(fds) :
        /\ fds[e].fd = f
        /\ fds' \in Seq(Entries) /\ fds' # <<>>
        /\ Len(fds') = Len(fds) - 1
        /\ \A n \in 1 .. Len(fds) - 1 : fds'[n] = IF n < e THEN fds[n] ELSE fds[n + 1]
  BY EntriesLeft
<1>2. /\ f \in Fds /\ f # Listener /\ sock[f] \in Peers
      /\ users' = users \ {f}
      /\ sock' = [sock EXCEPT ![f] = Nobody]
      /\ inbox' = [inbox EXCEPT ![sock[f]] = <<>>]
      /\ UNCHANGED <<dialed, hungUp, backlog, sent>>
  BY FdsAssumption DEF DisconnectClient, Shape, TablesAgree
<1>3. DOMAIN fds = 1 .. Len(fds) /\ DOMAIN fds' = 1 .. Len(fds) - 1
  BY <1>1 DEF Shape
<1>4. Shape'
  <2>1. sock' \in [Fds -> Peers \cup {Nobody}]
    BY <1>2 DEF Shape
  <2>2. inbox' \in [Peers -> Seq(Piece)]
    BY <1>2 DEF Shape
  <2> QED
    BY <1>1, <1>2, <2>1, <2>2 DEF Shape
<1>5. TablesAgree'
  <2>1. fds'[1].fd = Listener
    BY <1>1, <1>3 DEF TablesAgree
  <2>2. \A m \in DOMAIN fds' : \E k \in DOMAIN fds :
          k # e /\ fds'[m] = fds[k] /\ k = IF m < e THEN m ELSE m + 1
    BY <1>1, <1>3
  <2>3. \A m, n \in DOMAIN fds' : fds'[m].fd = fds'[n].fd => m = n
    BY <1>3, <2>2 DEF TablesAgree
  <2>4. \A k \in DOMAIN fds \ {e} : \E m \in DOMAIN fds' : fds'[m] = fds[k]
    <3>1. ASSUME NEW k \in DOMAIN fds, k < e PROVE k \in DOMAIN fds' /\ fds'[k] = fds[k]
      BY <1>1, <1>3, <3>1
    <3>2. ASSUME NEW k \in DOMAIN fds, k > e
          PROVE  k - 1 \in DOMAIN fds' /\ fds'[k - 1] = fds[k]
      BY <1>1, <1>3, <3>2
    <3> QED
      BY <1>1, <1>3, <3>1, <3>2
  <2>5. {fds'[n].fd : n \in DOMAIN fds'} = {fds[n].fd : n \in DOMAIN fds} \ {f}
    <3>1. \A m \in DOMAIN fds' : \E k \in DOMAIN fds : fds'[m].fd = fds[k].fd /\ fds[k].fd # f
      BY <1>1, <1>3, <2>2 DEF TablesAgree
    <3>2. \A k \in DOMAIN fds : fds[k].fd # f => \E m \in DOMAIN fds' : fds'[m].fd = fds[k].fd
      BY <1>1, <2>4
    <3> QED
      BY <3>1, <3>2
  <2>6. {fds'[n].fd : n \in DOMAIN fds'} = users' \cup {Listener}
    BY <1>2, <2>5 DEF TablesAgree
  <2>7. users' = {g \in Fds : sock'[g] # Nobody}
    BY <1>2 DEF TablesAgree, Shape
  <2> QED
    BY <2>1, <2>3, <2>6, <2>7 DEF TablesAgree
<1>6. Apart'
  <2>1. \A g \in Fds : sock'[g] = (IF g = f THEN Nobody ELSE sock[g])
    BY <1>2 DEF Shape
  <2> QED
    BY <1>2, <2>1 DEF Apart
<1> QED
  BY <1>4, <1>5, <1>6

\* An accepted connection gets an entry at the end and a free descriptor.
LEMMA AcceptTables == ASSUME TablesInv, Accept PROVE TablesInv'
<1> USE DEF TablesInv
<1>1. PICK f \in Fds :
        /\ LowestFree(f)
        /\ sock' = [sock EXCEPT ![f] = Head(backlog)]
        /\ fds' = AddToPoll(fds, f)
        /\ users' = users \cup {f}
  BY DEF Accept
<1>2. /\ backlog # <<>> /\ backlog' = Tail(backlog)
      /\ i' = i + 1
      /\ UNCHANGED <<dialed, inbox, sent>>
  BY DEF Accept
<1> DEFINE x == Entry(f, FALSE)
<1>3. /\ sock[f] = Nobody /\ f # Listener /\ f \notin users
      /\ x \in Entries /\ x.fd = f
  BY <1>1, FdsAssumption DEF LowestFree, Entry, Entries, TablesAgree
<1>10. fds' = Append(fds, x)
  BY <1>1 DEF AddToPoll
<1> HIDE DEF x
<1>4. /\ fds' \in Seq(Entries) /\ fds' # <<>> /\ Len(fds') = Len(fds) + 1
      /\ \A n \in 1 .. Len(fds) : fds'[n] = fds[n]
      /\ fds'[Len(fds) + 1] = x
  BY <1>3, <1>10, Append1 DEF Shape
<1>5. /\ Head(backlog) = backlog[1] /\ Head(backlog) \in Peers /\ Len(backlog) >= 1
      /\ Tail(backlog) \in Seq(Peers) /\ Len(Tail(backlog)) = Len(backlog) - 1
      /\ \A n \in 1 .. Len(backlog) - 1 : Tail(backlog)[n] = backlog[n + 1]
  BY <1>2 DEF Shape
<1>6. \A g \in Fds : sock'[g] = (IF g = f THEN backlog[1] ELSE sock[g])
  BY <1>1, <1>5 DEF Shape
<1>7. Shape'
  BY <1>1, <1>2, <1>4, <1>5 DEF Shape
<1>8. TablesAgree'
  <2>1. DOMAIN fds = 1 .. Len(fds) /\ Len(fds) \in Nat \ {0} /\ DOMAIN fds' = 1 .. Len(fds) + 1
    BY <1>4 DEF Shape
  <2>2. fds'[1].fd = Listener
    BY <1>4, <2>1 DEF TablesAgree
  <2>3. \A n \in DOMAIN fds : fds[n].fd # f
    BY <1>3 DEF TablesAgree
  <2>4. \A m, n \in DOMAIN fds' : fds'[m].fd = fds'[n].fd => m = n
    BY <1>3, <1>4, <2>1, <2>3 DEF TablesAgree
  <2>5. {fds'[n].fd : n \in DOMAIN fds'} = {fds[n].fd : n \in DOMAIN fds} \cup {f}
    <3>1. \A n \in DOMAIN fds' : n \in DOMAIN fds \/ n = Len(fds) + 1
      BY <2>1
    <3>2. \A n \in DOMAIN fds : n \in DOMAIN fds' /\ fds'[n] = fds[n]
      BY <1>4, <2>1
    <3>3. Len(fds) + 1 \in DOMAIN fds' /\ fds'[Len(fds) + 1].fd = f
      BY <1>3, <1>4, <2>1
    <3> QED
      BY <3>1, <3>2, <3>3
  <2>6. {fds'[n].fd : n \in DOMAIN fds'} = users' \cup {Listener}
    BY <1>1, <2>5 DEF TablesAgree
  <2>7. users' = {g \in Fds : sock'[g] # Nobody}
    BY <1>1, <1>5, <1>6, PeersAssumption DEF TablesAgree
  <2> QED
    BY <2>2, <2>4, <2>6, <2>7 DEF TablesAgree
<1>9. Apart'
  <2>1. Len(backlog) \in Nat
    BY DEF Shape
  <2>2. \A g \in Fds : sock[g] # Nobody => sock[g] # backlog[1]
    BY <1>5, <2>1 DEF Apart
  <2>3. \A g, h \in Fds : sock'[g] = sock'[h] /\ sock'[g] # Nobody => g = h
    BY <1>3, <1>6, <2>2 DEF Apart
  <2>4. \A n \in 1 .. Len(backlog') :
          backlog'[n] = backlog[n + 1] /\ n + 1 \in 1 .. Len(backlog)
    BY <1>2, <1>5, <2>1
  <2>5. \A n \in 1 .. Len(backlog') : backlog'[n] # backlog[1]
    BY <1>5, <2>1, <2>4 DEF Apart
  <2>6. \A g \in Fds : sock'[g] # Nobody =>
          sock'[g] \in dialed' /\ \A n \in 1 .. Len(backlog') : backlog'[n] # sock'[g]
    BY <1>2, <1>5, <1>6, <2>1, <2>4, <2>5 DEF Apart
  <2>7. \A m, n \in 1 .. Len(backlog') : backlog'[m] = backlog'[n] => m = n
    BY <2>4 DEF Apart
  <2>8. \A n \in 1 .. Len(backlog') : backlog'[n] \in dialed'
    BY <1>2, <2>4 DEF Apart
  <2> QED
    BY <2>3, <2>6, <2>7, <2>8 DEF Apart
<1> QED
  BY <1>7, <1>8, <1>9

\* What poll and an interruption write to revents leaves the descriptors alone.
LEMMA SameDescriptorsTables ==
  ASSUME TablesInv, i' \in Nat \ {0}, fds' \in Seq(Entries), Len(fds') = Len(fds),
         \A n \in 1 .. Len(fds) : fds'[n].fd = fds[n].fd,
         UNCHANGED <<sock, users, backlog, inbox, sent, dialed>>
  PROVE  TablesInv'
<1> USE DEF TablesInv
<1>1. /\ DOMAIN fds = 1 .. Len(fds) /\ DOMAIN fds' = DOMAIN fds
      /\ 1 \in DOMAIN fds /\ fds' # <<>>
  BY DEF Shape
<1>2. Shape'
  BY <1>1 DEF Shape
<1>3. TablesAgree'
  <2>1. fds'[1].fd = Listener
    BY <1>1 DEF TablesAgree
  <2>2. \A m, n \in DOMAIN fds' : fds'[m].fd = fds'[n].fd => m = n
    BY <1>1 DEF TablesAgree
  <2>3. {fds'[n].fd : n \in DOMAIN fds'} = {fds[n].fd : n \in DOMAIN fds}
    BY <1>1
  <2> QED
    BY <2>1, <2>2, <2>3 DEF TablesAgree
<1>4. Apart'
  BY DEF Apart
<1> QED
  BY <1>2, <1>3, <1>4

\* The entries that poll writes.
LEMMA ReventsEntries ==
  ASSUME Shape, NEW ready \in [1 .. Len(fds) -> BOOLEAN],
         fds' = [n \in 1 .. Len(fds) |-> Entry(fds[n].fd, ready[n])]
  PROVE  /\ fds' \in Seq(Entries) /\ Len(fds') = Len(fds)
         /\ \A n \in 1 .. Len(fds) : fds'[n].fd = fds[n].fd /\ fds'[n].ready = ready[n]
<1>1. Len(fds) \in Nat
  BY DEF Shape
<1>2. \A n \in 1 .. Len(fds) : fds[n] \in Entries
  BY DEF Shape
<1>3. fds' = [n \in 1 .. Len(fds) |-> [fd |-> fds[n].fd, ready |-> ready[n]]]
  BY DEF Entry
<1>4. \A n \in 1 .. Len(fds) : [fd |-> fds[n].fd, ready |-> ready[n]] \in Entries
  BY <1>2 DEF Entries
<1>5. fds' \in [1 .. Len(fds) -> Entries]
  BY <1>3, <1>4
<1> QED
  BY <1>1, <1>3, <1>5

LEMMA PollReadyEntries ==
  ASSUME Shape, PollReady
  PROVE  /\ fds' \in Seq(Entries) /\ Len(fds') = Len(fds)
         /\ \A n \in 1 .. Len(fds) :
              fds'[n].fd = fds[n].fd /\ fds'[n].ready = Readable(fds[n].fd)
<1> DEFINE ready == [n \in 1 .. Len(fds) |-> Readable(fds[n].fd)]
<1>1. DOMAIN fds = 1 .. Len(fds)
  BY DEF Shape
<1>2. fds' = [n \in 1 .. Len(fds) |-> Entry(fds[n].fd, Readable(fds[n].fd))]
  <2>1. fds' = [n \in 1 .. Len(fds) |-> Entry(fds[n].fd, fds[n].fd \in ReadableFds)]
    BY <1>1 DEF PollReady, Revents
  <2>2. \A n \in 1 .. Len(fds) : (fds[n].fd \in ReadableFds) = Readable(fds[n].fd)
    BY <1>1 DEF ReadableFds, Readable
  <2> QED
    BY <2>1, <2>2
<1>3. \A n \in 1 .. Len(fds) : ready[n] = Readable(fds[n].fd)
  OBVIOUS
<1>4. fds' = [n \in 1 .. Len(fds) |-> Entry(fds[n].fd, ready[n])]
  BY <1>2
<1>5. ready \in [1 .. Len(fds) -> BOOLEAN]
  BY DEF Readable
<1> HIDE DEF ready
<1> QED
  BY <1>3, <1>4, <1>5, ReventsEntries

\* Neither a poll that times out nor one that clears revents reports anything.
LEMMA ClearedEntries ==
  ASSUME Shape, fds' = Revents({})
  PROVE  /\ fds' \in Seq(Entries) /\ Len(fds') = Len(fds)
         /\ \A n \in 1 .. Len(fds) : fds'[n].fd = fds[n].fd /\ ~ fds'[n].ready
<1> DEFINE ready == [n \in 1 .. Len(fds) |-> FALSE]
<1>1. DOMAIN fds = 1 .. Len(fds)
  BY DEF Shape
<1>2. fds' = [n \in 1 .. Len(fds) |-> Entry(fds[n].fd, FALSE)]
  <2>1. fds' = [n \in 1 .. Len(fds) |-> Entry(fds[n].fd, fds[n].fd \in {})]
    BY <1>1 DEF Revents
  <2>2. \A n \in 1 .. Len(fds) : (fds[n].fd \in {}) = FALSE
    OBVIOUS
  <2> QED
    BY <2>1, <2>2
<1>3. fds' = [n \in 1 .. Len(fds) |-> Entry(fds[n].fd, ready[n])]
  BY <1>2
<1>4. ready \in [1 .. Len(fds) -> BOOLEAN] /\ \A n \in 1 .. Len(fds) : ~ ready[n]
  OBVIOUS
<1> HIDE DEF ready
<1> QED
  BY <1>3, <1>4, ReventsEntries

LEMMA PollReadyTables == ASSUME TablesInv, PollReady PROVE TablesInv'
<1>1. i' = 1 /\ UNCHANGED <<env, sock, users>>
  BY DEF PollReady, Scan
<1> QED
  BY <1>1, PollReadyEntries, SameDescriptorsTables DEF env, TablesInv

LEMMA PollTimesOutTables == ASSUME TablesInv, PollTimesOut PROVE TablesInv'
<1>1. i' = 1 /\ UNCHANGED <<env, sock, users>> /\ fds' = Revents({})
  BY DEF PollTimesOut, Scan
<1> QED
  BY <1>1, ClearedEntries, SameDescriptorsTables DEF env, TablesInv

LEMMA SameTables ==
  ASSUME TablesInv, i' \in Nat \ {0},
         UNCHANGED <<fds, sock, users, backlog, inbox, sent, dialed>>
  PROVE  TablesInv'
  BY DEF TablesInv, Shape, TablesAgree, Apart

LEMMA SignalTables == ASSUME TablesInv, Signal PROVE TablesInv'
<1>1. i \in Nat \ {0}
  BY DEF TablesInv, Shape
<1>2. UNCHANGED <<sock, users, backlog, inbox, sent, dialed>>
  BY DEF Signal, env
<1>3. CASE UNCHANGED <<pc, i, fds>>
  BY <1>1, <1>2, <1>3, SameTables
<1>4. CASE Scan /\ UNCHANGED fds
  BY <1>2, <1>4, SameTables DEF Scan
<1>5. CASE Scan /\ fds' = Revents({})
  BY <1>2, <1>5, ClearedEntries, SameDescriptorsTables DEF Scan, TablesInv
<1> QED
  BY <1>3, <1>4, <1>5 DEF Signal

-----------------------------------------------------------------------------
(* Clients change what the kernel holds, and only add to what is readable *)

StaysReadable == \A f \in Fds : sock[f] # Nobody /\ Readable(f) => Readable(f)'

LEMMA PieceType ==
  ASSUME NEW p \in Peers, sent[p] \in Nat, NEW n \in Nat, NEW k \in Kinds \cup {"OTHER"}
  PROVE  NextPiece(p, n, k) \in Piece
<1>1. Modulus(p) \in Nat \ {0}
  BY PendingAssumption DEF Modulus
<1>2. \A m \in Nat : m % Modulus(p) \in 0 .. Modulus(p) - 1
  BY <1>1
<1>3. NextPiece(p, n, k) \in [from : {p}, num : 0 .. Modulus(p) - 1, cmd : Kinds \cup {"OTHER"}]
  BY <1>2 DEF NextPiece
<1> QED
  BY <1>3 DEF Piece

LEMMA ConcatNotEmpty ==
  ASSUME NEW S, NEW s \in Seq(S), NEW t \in Seq(S)
  PROVE  s \o t \in Seq(S) /\ (s # <<>> => s \o t # <<>>)
<1>1. s \o t \in Seq(S) /\ Len(s \o t) = Len(s) + Len(t)
  OBVIOUS
<1>2. s # <<>> => Len(s) > 0
  OBVIOUS
<1> QED
  BY <1>1, <1>2

LEMMA EmptyInbox ==
  ASSUME inbox \in [Peers -> Seq(Piece)]
  PROVE  \A p : [inbox EXCEPT ![p] = <<>>] \in [Peers -> Seq(Piece)]
<1>1. <<>> \in Seq(Piece)
  OBVIOUS
<1> QED
  BY <1>1

LEMMA DialTables ==
  ASSUME TablesInv, NEW p \in Peers, Dial(p) PROVE TablesInv' /\ StaysReadable
<1> USE DEF TablesInv
<1>1. /\ p \notin dialed /\ dialed' = dialed \cup {p}
      /\ backlog' = Append(backlog, p)
      /\ UNCHANGED <<hungUp, inbox, sent, fds, sock, users, i>>
  BY DEF Dial, tables, loop
<1>2. /\ backlog' \in Seq(Peers) /\ Len(backlog') = Len(backlog) + 1
      /\ \A n \in 1 .. Len(backlog) : backlog'[n] = backlog[n]
      /\ backlog'[Len(backlog) + 1] = p
      /\ Len(backlog) \in Nat
  BY <1>1, Append1 DEF Shape
<1>3. Shape' /\ TablesAgree'
  BY <1>1, <1>2 DEF Shape, TablesAgree
<1>4. \A n \in 1 .. Len(backlog') :
        n \in 1 .. Len(backlog) \/ (backlog'[n] = p /\ n = Len(backlog) + 1)
  BY <1>2
<1>5. Apart'
  BY <1>1, <1>2, <1>4 DEF Apart
<1>6. StaysReadable
  BY <1>1, FdsAssumption DEF StaysReadable, Readable
<1> QED
  BY <1>3, <1>5, <1>6

LEMMA SendTables ==
  ASSUME TablesInv, NEW p \in Peers, NEW pieces \in Seq(Piece), Send(p, pieces)
  PROVE  TablesInv' /\ StaysReadable
<1> USE DEF TablesInv
<1>1. /\ inbox' = [inbox EXCEPT ![p] = @ \o pieces]
      /\ sent' = [sent EXCEPT ![p] = (@ + Len(pieces)) % Modulus(p)]
      /\ UNCHANGED <<dialed, hungUp, backlog, fds, sock, users, i>>
  BY DEF Send, tables, loop
<1>2. sent' \in [Peers -> Nat]
  <2>1. Modulus(p) \in Nat \ {0} /\ sent[p] \in Nat /\ Len(pieces) \in Nat
    BY PendingAssumption DEF Modulus, Shape
  <2>2. (sent[p] + Len(pieces)) % Modulus(p) \in Nat
    BY <2>1
  <2> QED
    BY <1>1, <2>2 DEF Shape
<1>3. /\ inbox[p] \o pieces \in Seq(Piece)
      /\ inbox[p] # <<>> => inbox[p] \o pieces # <<>>
  BY ConcatNotEmpty DEF Shape
<1>4. \A q \in Peers : inbox'[q] = IF q = p THEN inbox[p] \o pieces ELSE inbox[q]
  BY <1>1 DEF Shape
<1>5. inbox' \in [Peers -> Seq(Piece)]
  BY <1>1, <1>3 DEF Shape
<1>6. Shape' /\ TablesAgree' /\ Apart'
  BY <1>1, <1>2, <1>5 DEF Shape, TablesAgree, Apart
<1>7. StaysReadable
  BY <1>1, <1>3, <1>4, FdsAssumption DEF StaysReadable, Readable, Shape
<1> QED
  BY <1>6, <1>7

LEMMA HangUpTables ==
  ASSUME TablesInv, NEW p \in Peers, HangUp(p) PROVE TablesInv' /\ StaysReadable
<1> USE DEF TablesInv
<1>1. /\ hungUp' = hungUp \cup {p}
      /\ inbox' \in {inbox, [inbox EXCEPT ![p] = <<>>]}
      /\ UNCHANGED <<dialed, backlog, sent, fds, sock, users, i>>
  BY DEF HangUp, tables, loop
<1>2. inbox' \in [Peers -> Seq(Piece)]
  BY <1>1, EmptyInbox DEF Shape
<1>3. Shape' /\ TablesAgree' /\ Apart'
  BY <1>1, <1>2 DEF Shape, TablesAgree, Apart
<1>4. \A q \in Peers : q # p => inbox'[q] = inbox[q]
  BY <1>1 DEF Shape
<1>5. StaysReadable
  BY <1>1, <1>4, FdsAssumption DEF StaysReadable, Readable, Shape
<1> QED
  BY <1>3, <1>5

LEMMA ClientTables ==
  ASSUME TablesInv, NEW p \in Peers, ClientStep(p)
  PROVE  TablesInv' /\ StaysReadable /\ UNCHANGED <<tables, loop>>
<1>1. sent[p] \in Nat
  BY DEF TablesInv, Shape
<1>2. CASE Dial(p)
  BY <1>2, DialTables DEF Dial
<1>3. ASSUME NEW k \in Kinds, SendLine(p, k)
      PROVE  TablesInv' /\ StaysReadable /\ UNCHANGED <<tables, loop>>
  <2>1. <<NextPiece(p, 0, k), NextPiece(p, 1, "OTHER")>> \in Seq(Piece)
    BY <1>1, PieceType
  <2> QED
    BY <1>3, <2>1, SendTables DEF SendLine, Send
<1>4. ASSUME NEW k \in Kinds, SendStart(p, k)
      PROVE  TablesInv' /\ StaysReadable /\ UNCHANGED <<tables, loop>>
  <2>1. <<NextPiece(p, 0, k)>> \in Seq(Piece)
    BY <1>1, PieceType
  <2> QED
    BY <1>4, <2>1, SendTables DEF SendStart, Send
<1>5. CASE SendRest(p)
  <2>1. <<NextPiece(p, 0, "OTHER")>> \in Seq(Piece)
    BY <1>1, PieceType
  <2> QED
    BY <1>5, <2>1, SendTables DEF SendRest, Send
<1>6. CASE HangUp(p)
  BY <1>6, HangUpTables DEF HangUp
<1> QED
  BY <1>2, <1>3, <1>4, <1>5, <1>6 DEF ClientStep

-----------------------------------------------------------------------------
(* The server *)

LEMMA AcceptFailsTables ==
  ASSUME TablesInv, AcceptFails PROVE TablesInv' /\ StaysReadable
<1> USE DEF TablesInv
<1>1. i' \in Nat \ {0} /\ UNCHANGED <<dialed, hungUp, sent, fds, sock, users>>
  BY DEF AcceptFails, tables, Shape
<1>2. CASE UNCHANGED <<backlog, inbox>>
  BY <1>1, <1>2, SameTables DEF StaysReadable, Readable
<1>3. CASE /\ backlog # <<>> /\ backlog' = Tail(backlog)
           /\ inbox' = [inbox EXCEPT ![Head(backlog)] = <<>>]
  <2>1. /\ Head(backlog) = backlog[1] /\ 1 \in 1 .. Len(backlog)
        /\ backlog' \in Seq(Peers) /\ Len(backlog') = Len(backlog) - 1
        /\ \A n \in 1 .. Len(backlog') :
             backlog'[n] = backlog[n + 1] /\ n + 1 \in 1 .. Len(backlog)
    BY <1>3 DEF Shape
  <2>2. inbox' \in [Peers -> Seq(Piece)]
    BY <1>3 DEF Shape
  <2>3. Shape' /\ TablesAgree'
    BY <1>1, <2>1, <2>2 DEF Shape, TablesAgree
  <2>4. Apart'
    BY <1>1, <2>1 DEF Apart
  <2>5. \A f \in Fds : sock[f] # Nobody => sock[f] \in Peers /\ sock[f] # Head(backlog)
    BY <2>1 DEF Apart, Shape
  <2>6. \A q \in Peers : q # Head(backlog) => inbox'[q] = inbox[q]
    BY <1>3 DEF Shape
  <2>7. StaysReadable
    BY <1>1, <2>5, <2>6, FdsAssumption DEF StaysReadable, Readable
  <2> QED
    BY <2>3, <2>4, <2>7
<1> QED
  BY <1>2, <1>3 DEF AcceptFails

LEMMA RecvDataTables == ASSUME TablesInv, RecvData PROVE TablesInv'
<1> USE DEF TablesInv
<1>1. /\ i' \in Nat \ {0}
      /\ inbox' = [inbox EXCEPT ![sock[fds[i].fd]] = <<>>]
      /\ UNCHANGED <<dialed, backlog, sent, fds, sock, users>>
  BY DEF RecvData, tables, Shape
<1>2. inbox' \in [Peers -> Seq(Piece)]
  BY <1>1, EmptyInbox DEF Shape
<1> QED
  BY <1>1, <1>2 DEF Shape, TablesAgree, Apart

\* The entry at the index is that of a client.
LEMMA ClientAtIndex ==
  ASSUME TablesInv, AtReady, fds[i].fd # Listener
  PROVE  i \in DOMAIN fds /\ fds[i].fd \in users /\ fds[i].fd \in Fds
<1>1. i \in DOMAIN fds
  BY DEF AtReady, InRange, TablesInv, Shape
<1> QED
  BY <1>1 DEF TablesInv, TablesAgree

LEMMA RecvEndsTables == ASSUME TablesInv, RecvEnds PROVE TablesInv'
<1>1. fds[i].fd \in users
  BY ClientAtIndex DEF RecvEnds
<1>2. DisconnectClient(fds[i].fd) /\ i' \in Nat \ {0}
  BY DEF RecvEnds, TablesInv, Shape
<1> QED
  BY <1>1, <1>2, DisconnectTables

LEMMA CloseTables == ASSUME TablesInv, Close PROVE TablesInv'
<1>1. PICK f \in users : DisconnectClient(f)
  BY DEF Close
<1>2. i' \in Nat \ {0}
  BY DEF Close, loop, TablesInv, Shape
<1> QED
  BY <1>1, <1>2, DisconnectTables

LEMMA TablesInit == Init => TablesInv
<1> SUFFICES ASSUME Init PROVE TablesInv
  OBVIOUS
<1>1. fds = <<Entry(Listener, FALSE)>> /\ Entry(Listener, FALSE) \in Entries
  BY DEF Init, Entry, Entries
<1>2. \A n \in DOMAIN fds : n = 1
  BY <1>1
<1>3. 1 \in DOMAIN fds /\ fds[1].fd = Listener /\ fds # <<>> /\ fds \in Seq(Entries)
  BY <1>1 DEF Entry
<1>4. Shape
  <2>1. inbox \in [Peers -> Seq(Piece)]
    BY DEF Init
  <2>2. sock \in [Fds -> Peers \cup {Nobody}] /\ sent \in [Peers -> Nat]
    BY DEF Init
  <2>3. users \subseteq Fds /\ i \in Nat \ {0} /\ backlog \in Seq(Peers)
    BY DEF Init
  <2> QED
    BY <1>3, <2>1, <2>2, <2>3 DEF Shape
<1>5. TablesAgree
  <2>1. {fds[n].fd : n \in DOMAIN fds} = {Listener}
    BY <1>2, <1>3
  <2> QED
    BY <1>2, <1>3, <2>1 DEF Init, TablesAgree
<1>6. Apart
  BY DEF Init, Apart
<1> QED
  BY <1>4, <1>5, <1>6 DEF TablesInv

LEMMA ServerTables == ASSUME TablesInv, ServerStep PROVE TablesInv'
<1>1. i \in Nat \ {0} /\ i + 1 \in Nat \ {0}
  BY DEF TablesInv, Shape
<1>2. CASE Test \/ PollFails \/ ExecuteOther \/ ExecuteForDeleted \/ CloseDone
  BY <1>1, <1>2, SameTables
     DEF Test, PollFails, ExecuteOther, ExecuteForDeleted, CloseDone, env, tables
<1>3. CASE EndScan \/ NotReady \/ LinesDone
  BY <1>1, <1>3, SameTables DEF EndScan, NotReady, LinesDone, env, tables
<1>4. CASE ExecuteQuit
  BY <1>1, <1>4, DisconnectTables DEF ExecuteQuit
<1> QED
  BY <1>2, <1>3, <1>4, PollReadyTables, PollTimesOutTables, AcceptTables,
     AcceptFailsTables, RecvEndsTables, RecvDataTables, CloseTables DEF ServerStep

LEMMA TablesStep == TablesInv /\ [Next]_vars => TablesInv'
<1> SUFFICES ASSUME TablesInv, [Next]_vars PROVE TablesInv'
  OBVIOUS
<1>1. CASE UNCHANGED vars
  <2>1. i \in Nat \ {0}
    BY DEF TablesInv, Shape
  <2> QED
    BY <1>1, <2>1, SameTables DEF vars, env, tables, loop
<1> QED
  BY <1>1, ClientTables, SignalTables, ServerTables DEF Next

LEMMA TablesInvariant == Spec => []TablesInv
  BY TablesInit, TablesStep, PTL DEF Spec

\* _fds, _users and the open sockets agree at every step of the server, also
\* where a client ends while the loop goes over _fds: deleteFromPoll takes out
\* the one entry of the descriptor, which is never that of the listening socket.
THEOREM TablesStayAgreed == Spec => []TablesAgree
<1>1. TablesInv => TablesAgree
  BY DEF TablesInv
<1> QED
  BY <1>1, TablesInvariant, PTL

-----------------------------------------------------------------------------
(* Events that are still to be handled are true *)

\* The client entries that the loop has not come to yet, with an event.
ToCome(n) ==
  /\ fds[n].ready /\ fds[n].fd # Listener
  /\ (pc = "scan" /\ n >= i) \/ (pc = "lines" /\ n > i)

\* An interrupted poll clears revents, and what is to come is readable: poll saw
\* it, and no client can take it back.
EventIsTrue(n) == ToCome(n) => Readable(fds[n].fd)

EventsInv ==
  /\ InterruptLeaves \subseteq {"cleared"}
  /\ \A n \in DOMAIN fds : EventIsTrue(n)

\* Entries are those of clients, each with a connection of its own.
LEMMA ClientEntry ==
  ASSUME TablesInv, NEW n \in DOMAIN fds, fds[n].fd # Listener
  PROVE  /\ n \in 1 .. Len(fds) /\ n \in Nat /\ fds[n].fd \in Fds
         /\ sock[fds[n].fd] \in Peers
<1>1. n \in 1 .. Len(fds)
  BY DEF TablesInv, Shape
<1>2. fds[n].fd \in users
  BY DEF TablesInv, TablesAgree
<1> QED
  BY <1>1, <1>2 DEF TablesInv, TablesAgree, Shape

\* The entries stay, none is new among those to come.
LEMMA SameEvents ==
  ASSUME TablesInv, EventsInv, StaysReadable, UNCHANGED fds,
         \A n \in DOMAIN fds : ToCome(n)' => ToCome(n)
  PROVE  EventsInv'
<1>1. ASSUME NEW n \in DOMAIN fds PROVE EventIsTrue(n)'
  <2>1. SUFFICES ASSUME ToCome(n)' PROVE EventIsTrue(n)'
    BY DEF EventIsTrue
  <2>2. ToCome(n) /\ Readable(fds[n].fd)
    BY <2>1 DEF EventsInv, EventIsTrue
  <2>3. fds[n].fd \in Fds /\ sock[fds[n].fd] # Nobody
    BY <2>2, ClientEntry, PeersAssumption DEF ToCome
  <2> DEFINE g == fds[n].fd
  <2>4. Readable(g)'
    BY <2>2, <2>3 DEF StaysReadable
  <2> QED
    BY <2>4 DEF EventIsTrue
<1> QED
  BY <1>1 DEF EventsInv

\* A client that ends leaves the others readable.
LEMMA OthersStayReadable ==
  ASSUME TablesInv, NEW f \in users, DisconnectClient(f)
  PROVE  \A g \in Fds : g # f /\ sock[g] # Nobody /\ Readable(g) => Readable(g)'
<1>1. /\ f \in Fds /\ sock[f] \in Peers
      /\ \A g \in Fds : sock[g] # Nobody => sock[g] \in Peers
  BY DEF TablesInv, Shape, TablesAgree
<1>2. ASSUME NEW g \in Fds, g # f, sock[g] # Nobody, Readable(g) PROVE Readable(g)'
  <2>1. sock[g] # sock[f] /\ sock[g] \in Peers
    BY <1>1, <1>2 DEF TablesInv, Apart
  <2>2. sock'[g] = sock[g] /\ inbox'[sock[g]] = inbox[sock[g]] /\ hungUp' = hungUp
    BY <1>1, <1>2, <2>1 DEF DisconnectClient, TablesInv, Shape
  <2> QED
    BY <1>2, <2>2, FdsAssumption DEF Readable
<1> QED
  BY <1>2

\* Where a client ends, what was to come behind it moves forward by one.
LEMMA DisconnectEvents ==
  ASSUME TablesInv, EventsInv, NEW f \in users, DisconnectClient(f), i' \in {i, i + 1},
         pc' \notin {"scan", "lines"} \/ (pc' = pc /\ (pc = "scan" => i' = i + 1))
  PROVE  EventsInv'
<1>1. PICK e \in 2 .. Len(fds) :
        /\ fds[e].fd = f
        /\ fds' \in Seq(Entries) /\ fds' # <<>>
        /\ Len(fds') = Len(fds) - 1
        /\ \A n \in 1 .. Len(fds) - 1 : fds'[n] = IF n < e THEN fds[n] ELSE fds[n + 1]
  BY EntriesLeft DEF TablesInv
<1>2. /\ DOMAIN fds = 1 .. Len(fds) /\ DOMAIN fds' = 1 .. Len(fds) - 1
      /\ Len(fds) \in Nat /\ i \in Nat \ {0}
  BY <1>1 DEF TablesInv, Shape
<1>3. ASSUME NEW n \in DOMAIN fds' PROVE EventIsTrue(n)'
  <2>1. SUFFICES ASSUME ToCome(n)' PROVE EventIsTrue(n)'
    BY DEF EventIsTrue
  <2>2. PICK k \in DOMAIN fds : fds'[n] = fds[k] /\ k # e /\ k >= n /\ (k = n \/ k = n + 1)
    BY <1>1, <1>2
  <2>3. ToCome(k) /\ fds[k].fd # f
    BY <1>1, <1>2, <2>1, <2>2 DEF ToCome, TablesInv, TablesAgree
  <2>4. Readable(fds[k].fd)
    BY <2>3 DEF EventsInv, EventIsTrue
  <2>5. fds[k].fd \in Fds /\ sock[fds[k].fd] # Nobody
    BY <2>3, ClientEntry, PeersAssumption DEF ToCome
  <2>6. PICK g \in Fds : g = fds[k].fd
    BY <2>5
  <2>7. Readable(g)'
    BY <2>3, <2>4, <2>5, <2>6, OthersStayReadable
  <2> QED
    BY <2>2, <2>6, <2>7 DEF EventIsTrue, Readable
<1> QED
  BY <1>3 DEF EventsInv

\* Nothing is to come outside the loop over _fds.
LEMMA OutsideLoop ==
  ASSUME EventsInv, pc' \notin {"scan", "lines"} PROVE EventsInv'
  BY DEF EventsInv, EventIsTrue, ToCome

LEMMA ClientEvents ==
  ASSUME TablesInv, EventsInv, NEW p \in Peers, ClientStep(p) PROVE EventsInv'
<1>1. StaysReadable /\ UNCHANGED <<tables, loop>>
  BY ClientTables
<1>2. \A n \in DOMAIN fds : ToCome(n)' => ToCome(n)
  BY <1>1 DEF ToCome, tables, loop
<1> QED
  BY <1>1, <1>2, SameEvents DEF tables

LEMMA PollReadyEvents ==
  ASSUME TablesInv, EventsInv, PollReady PROVE EventsInv'
<1>1. /\ fds' \in Seq(Entries) /\ Len(fds') = Len(fds)
      /\ \A n \in 1 .. Len(fds) :
           fds'[n].fd = fds[n].fd /\ fds'[n].ready = Readable(fds[n].fd)
  BY PollReadyEntries DEF TablesInv
<1>2. UNCHANGED <<backlog, inbox, hungUp, sock>>
  BY DEF PollReady, env
<1>3. DOMAIN fds' = 1 .. Len(fds)
  BY <1>1
<1>4. ASSUME NEW n \in DOMAIN fds' PROVE EventIsTrue(n)'
  <2>1. SUFFICES ASSUME ToCome(n)' PROVE EventIsTrue(n)'
    BY DEF EventIsTrue
  <2>2. fds'[n].fd = fds[n].fd /\ Readable(fds[n].fd)
    BY <1>1, <1>3, <2>1 DEF ToCome
  <2> QED
    BY <1>2, <2>2 DEF EventIsTrue, Readable
<1> QED
  BY <1>4 DEF EventsInv

LEMMA ClearedEvents ==
  ASSUME TablesInv, EventsInv, fds' = Revents({}) PROVE EventsInv'
<1>1. /\ fds' \in Seq(Entries) /\ Len(fds') = Len(fds)
      /\ \A n \in 1 .. Len(fds) : ~ fds'[n].ready
  BY ClearedEntries DEF TablesInv
<1>2. DOMAIN fds' = 1 .. Len(fds)
  BY <1>1
<1> QED
  BY <1>1, <1>2 DEF EventsInv, EventIsTrue, ToCome

LEMMA SignalEvents ==
  ASSUME TablesInv, EventsInv, Signal PROVE EventsInv'
<1>1. UNCHANGED <<backlog, inbox, hungUp, sock>>
  BY DEF Signal, env
<1>2. CASE UNCHANGED <<pc, i, fds>>
  <2>1. \A n \in DOMAIN fds : ToCome(n)' => ToCome(n)
    BY <1>2 DEF ToCome
  <2> QED
    BY <1>1, <1>2, <2>1, SameEvents DEF StaysReadable, Readable
<1>3. CASE fds' = Revents({})
  BY <1>3, ClearedEvents
<1> QED
  BY <1>2, <1>3 DEF Signal, EventsInv

\* A new connection has no event yet.
LEMMA AcceptEvents ==
  ASSUME TablesInv, EventsInv, Accept PROVE EventsInv'
<1>1. PICK f \in Fds :
        /\ LowestFree(f)
        /\ sock' = [sock EXCEPT ![f] = Head(backlog)]
        /\ fds' = AddToPoll(fds, f)
  BY DEF Accept
<1>2. pc' = pc /\ i' = i + 1 /\ UNCHANGED <<inbox, hungUp>>
  BY DEF Accept
<1> DEFINE x == Entry(f, FALSE)
<1>3. x \in Entries /\ ~ x.ready /\ fds' = Append(fds, x)
  BY <1>1 DEF Entry, Entries, AddToPoll
<1> HIDE DEF x
<1>4. /\ fds' \in Seq(Entries) /\ Len(fds') = Len(fds) + 1
      /\ \A n \in 1 .. Len(fds) : fds'[n] = fds[n]
      /\ fds'[Len(fds) + 1] = x
  BY <1>3, Append1 DEF TablesInv, Shape
<1>5. /\ Len(fds) \in Nat /\ i \in Nat
      /\ DOMAIN fds = 1 .. Len(fds) /\ DOMAIN fds' = 1 .. Len(fds) + 1
  BY <1>4 DEF TablesInv, Shape
<1>6. ASSUME NEW n \in DOMAIN fds' PROVE EventIsTrue(n)'
  <2>1. SUFFICES ASSUME ToCome(n)' PROVE EventIsTrue(n)'
    BY DEF EventIsTrue
  <2>2. n \in DOMAIN fds /\ fds'[n] = fds[n]
    BY <1>3, <1>4, <1>5, <2>1 DEF ToCome
  <2>3. ToCome(n) /\ Readable(fds[n].fd)
    BY <1>2, <1>5, <2>1, <2>2 DEF ToCome, EventsInv, EventIsTrue
  <2>4. fds[n].fd \in Fds /\ sock[fds[n].fd] # Nobody
    BY <2>2, <2>3, ClientEntry, PeersAssumption DEF ToCome
  <2>5. sock'[fds[n].fd] = sock[fds[n].fd] /\ fds[n].fd # Listener
    BY <1>1, <2>4, FdsAssumption DEF LowestFree, TablesInv, Shape
  <2> QED
    BY <1>2, <2>2, <2>3, <2>5 DEF EventIsTrue, Readable
<1> QED
  BY <1>6 DEF EventsInv

LEMMA AcceptFailsEvents ==
  ASSUME TablesInv, EventsInv, AcceptFails PROVE EventsInv'
<1>1. pc' = pc /\ i' = i + 1 /\ i \in Nat /\ UNCHANGED fds
  BY DEF AcceptFails, tables, TablesInv, Shape
<1>2. \A n \in DOMAIN fds : ToCome(n)' => ToCome(n)
  BY <1>1 DEF ToCome, TablesInv, Shape
<1> QED
  BY <1>1, <1>2, AcceptFailsTables, SameEvents

LEMMA RecvEndsEvents ==
  ASSUME TablesInv, EventsInv, RecvEnds PROVE EventsInv'
<1>1. fds[i].fd \in users /\ DisconnectClient(fds[i].fd)
  BY ClientAtIndex DEF RecvEnds
<1>2. i' = i + 1 /\ pc' = pc
  BY DEF RecvEnds
<1> QED
  BY <1>1, <1>2, DisconnectEvents

\* What is received is taken from one client, and its entry is behind now.
LEMMA RecvDataEvents ==
  ASSUME TablesInv, EventsInv, RecvData PROVE EventsInv'
<1>1. /\ i \in DOMAIN fds /\ i \in Nat
      /\ fds[i].fd \in Fds /\ sock[fds[i].fd] # Nobody
  BY ClientAtIndex DEF RecvData, TablesInv, TablesAgree, Shape
<1>2. /\ pc = "scan" /\ inbox' = [inbox EXCEPT ![sock[fds[i].fd]] = <<>>]
      /\ UNCHANGED <<hungUp, fds, sock>>
      /\ (pc' = "lines" /\ i' = i) \/ (pc' = "scan" /\ i' = i + 1)
  BY DEF RecvData, AtReady, tables
<1>3. ASSUME NEW n \in DOMAIN fds PROVE EventIsTrue(n)'
  <2>1. SUFFICES ASSUME ToCome(n)' PROVE EventIsTrue(n)'
    BY DEF EventIsTrue
  <2>2. n \in Nat /\ n > i /\ ToCome(n)
    BY <1>1, <1>2, <2>1 DEF ToCome, TablesInv, Shape
  <2>3. Readable(fds[n].fd)
    BY <2>2 DEF EventsInv, EventIsTrue
  <2>4. fds[n].fd \in Fds /\ sock[fds[n].fd] \in Peers /\ fds[n].fd # Listener
    BY <2>2, ClientEntry DEF ToCome
  <2>5. fds[n].fd # fds[i].fd
    BY <1>1, <2>2 DEF TablesInv, TablesAgree
  <2>6. sock[fds[n].fd] # sock[fds[i].fd]
    BY <1>1, <2>4, <2>5 DEF TablesInv, Apart
  <2>7. inbox'[sock[fds[n].fd]] = inbox[sock[fds[n].fd]]
    BY <1>2, <2>4, <2>6 DEF TablesInv, Shape
  <2> QED
    BY <1>2, <2>3, <2>4, <2>7 DEF EventIsTrue, Readable
<1> QED
  BY <1>2, <1>3 DEF EventsInv

LEMMA SteppingEvents ==
  ASSUME TablesInv, EventsInv, EndScan \/ NotReady \/ LinesDone \/ ExecuteOther
  PROVE  EventsInv'
<1>1. CASE EndScan
  BY <1>1, OutsideLoop DEF EndScan
<1>2. CASE NotReady \/ LinesDone \/ ExecuteOther
  <2>1. StaysReadable /\ UNCHANGED fds
    BY <1>2 DEF NotReady, LinesDone, ExecuteOther, env, tables, StaysReadable, Readable
  <2>2. i \in Nat /\ \A n \in DOMAIN fds : n \in Nat
    BY DEF TablesInv, Shape
  <2>3. \A n \in DOMAIN fds : ToCome(n)' => ToCome(n)
    BY <1>2, <2>1, <2>2 DEF NotReady, LinesDone, ExecuteOther, ToCome
  <2> QED
    BY <2>1, <2>3, SameEvents
<1> QED
  BY <1>1, <1>2

LEMMA ServerEvents == ASSUME TablesInv, EventsInv, ServerStep PROVE EventsInv'
<1>1. CASE Test \/ PollFails \/ ExecuteForDeleted \/ Close \/ CloseDone
  BY <1>1, OutsideLoop DEF Test, PollFails, ExecuteForDeleted, Close, CloseDone, loop
<1>2. CASE PollTimesOut
  BY <1>2, ClearedEvents DEF PollTimesOut
<1>3. CASE ExecuteQuit
  BY <1>3, DisconnectEvents DEF ExecuteQuit
<1> QED
  BY <1>1, <1>2, <1>3, PollReadyEvents, AcceptEvents, AcceptFailsEvents, RecvEndsEvents,
     RecvDataEvents, SteppingEvents DEF ServerStep

LEMMA EventsInit == InterruptLeaves \subseteq {"cleared"} /\ Init => EventsInv
  BY DEF Init, EventsInv, EventIsTrue, ToCome

LEMMA EventsStep == TablesInv /\ EventsInv /\ [Next]_vars => EventsInv'
<1> SUFFICES ASSUME TablesInv, EventsInv, [Next]_vars PROVE EventsInv'
  OBVIOUS
<1>1. CASE UNCHANGED vars
  BY <1>1 DEF vars, env, tables, loop, EventsInv, EventIsTrue, ToCome, Readable
<1> QED
  BY <1>1, ClientEvents, SignalEvents, ServerEvents DEF Next

\* Where an interrupted poll clears revents, recv is called only on a socket that
\* has something to read or has been closed by its peer: a blocking recv does
\* not stop the server, whatever ends, joins or is sent while the loop runs.
THEOREM RecvDoesNotBlock ==
  InterruptLeaves \subseteq {"cleared"} /\ Spec => []RecvNeverBlocks
<1>1. TablesInv /\ EventsInv => RecvNeverBlocks
  BY DEF RecvNeverBlocks, TablesInv, Shape, EventsInv, EventIsTrue, ToCome
<1> QED
  BY <1>1, TablesInvariant, EventsInit, EventsStep, PTL DEF Spec

-----------------------------------------------------------------------------
(* The pieces of one peer *)

\* f has the pieces of p among the first pieces of s, for each number up to m.
Reads(f, p, s, m) ==
  f = [n \in 0 .. m |-> IF n = 0 THEN <<>> ELSE Taken(p, f[n - 1], s[n])]

LEMMA ReadsExists ==
  ASSUME NEW p, NEW s PROVE \A m \in Nat : \E f : Reads(f, p, s, m)
<1> DEFINE S == {m \in Nat : \E f : Reads(f, p, s, m)}
<1>1. 0 \in S
  <2> DEFINE f == [n \in 0 .. 0 |-> <<>>]
  <2>1. Reads(f, p, s, 0)
    BY DEF Reads
  <2> QED
    BY <2>1
<1>2. ASSUME NEW m \in S PROVE m + 1 \in S
  <2>1. PICK g : Reads(g, p, s, m)
    OBVIOUS
  <2> DEFINE f == [n \in 0 .. m + 1 |-> IF n <= m THEN g[n] ELSE Taken(p, g[m], s[m + 1])]
  <2>2. m \in Nat
    OBVIOUS
  <2>3. ASSUME NEW n \in 0 .. m + 1
        PROVE  f[n] = IF n = 0 THEN <<>> ELSE Taken(p, f[n - 1], s[n])
    <3>1. CASE n = 0
      BY <2>1, <3>1 DEF Reads
    <3>2. CASE n \in 1 .. m
      <4>1. f[n - 1] = g[n - 1] /\ f[n] = g[n]
        BY <3>2
      <4> QED
        BY <2>1, <3>2, <4>1 DEF Reads
    <3>3. CASE n = m + 1
      BY <3>3
    <3> QED
      BY <3>1, <3>2, <3>3
  <2>4. f = [n \in 0 .. m + 1 |-> f[n]]
    OBVIOUS
  <2> HIDE DEF f
  <2>5. \E h : Reads(h, p, s, m + 1)
    BY <2>3, <2>4 DEF Reads
  <2> QED
    BY <2>2, <2>5
<1>3. S \in SUBSET Nat
  OBVIOUS
<1> HIDE DEF S
<1>4. S = Nat
  BY <1>1, <1>2, <1>3, SetInduction
<1> QED
  BY <1>4 DEF S

LEMMA FromReads ==
  ASSUME NEW p, NEW s, Len(s) \in Nat
  PROVE  \E f : Reads(f, p, s, Len(s)) /\ From(p, s) = f[Len(s)]
<1> DEFINE f == CHOOSE f : Reads(f, p, s, Len(s))
<1>1. From(p, s) = f[Len(s)]
  BY DEF From, Reads
<1> HIDE DEF f
<1>2. Reads(f, p, s, Len(s))
  BY ReadsExists DEF f
<1> QED
  BY <1>1, <1>2

\* What has been read of the beginning does not depend on what follows.
LEMMA ReadsSame ==
  ASSUME NEW p, NEW s, NEW t, NEW m \in Nat, \A n \in 1 .. m : s[n] = t[n],
         NEW k \in Nat, m <= k, NEW f, Reads(f, p, s, m), NEW g, Reads(g, p, t, k)
  PROVE  f[m] = g[m]
<1> DEFINE S == {n \in Nat : n <= m => f[n] = g[n]}
<1>1. 0 \in S
  BY DEF Reads
<1>2. ASSUME NEW n \in S PROVE n + 1 \in S
  <2>1. SUFFICES ASSUME n + 1 <= m PROVE f[n + 1] = g[n + 1]
    OBVIOUS
  <2>2. n \in Nat /\ f[n] = g[n] /\ s[n + 1] = t[n + 1]
    BY <2>1
  <2>3. n + 1 \in 0 .. m /\ n + 1 \in 0 .. k /\ n + 1 # 0 /\ n + 1 - 1 = n
    BY <2>1, <2>2
  <2>4. f[n + 1] = Taken(p, f[n], s[n + 1])
    BY <2>3 DEF Reads
  <2>5. g[n + 1] = Taken(p, g[n], t[n + 1])
    BY <2>3 DEF Reads
  <2> QED
    BY <2>2, <2>4, <2>5
<1>3. S \in SUBSET Nat
  OBVIOUS
<1> HIDE DEF S
<1>4. S = Nat
  BY <1>1, <1>2, <1>3, SetInduction
<1> QED
  BY <1>4 DEF S

LEMMA FromEmpty == ASSUME NEW p PROVE From(p, <<>>) = <<>>
<1>1. PICK f : Reads(f, p, <<>>, 0) /\ From(p, <<>>) = f[0]
  BY FromReads
<1> QED
  BY <1>1 DEF Reads

LEMMA FromAppend ==
  ASSUME NEW p, NEW P, NEW s \in Seq(P), NEW b \in P
  PROVE  From(p, Append(s, b)) = Taken(p, From(p, s), b)
<1>1. PICK k \in Nat : k = Len(s)
  OBVIOUS
<1> DEFINE t == Append(s, b)
<1>2. Len(t) = k + 1 /\ t[k + 1] = b /\ \A n \in 1 .. k : s[n] = t[n]
  BY <1>1
<1> HIDE DEF t
<1>3. PICK f : Reads(f, p, s, k) /\ From(p, s) = f[k]
  BY <1>1, FromReads
<1>4. PICK g : Reads(g, p, t, k + 1) /\ From(p, t) = g[k + 1]
  BY <1>2, FromReads
<1>5. k + 1 \in Nat /\ k <= k + 1 /\ k + 1 \in 0 .. k + 1 /\ k + 1 # 0 /\ k + 1 - 1 = k
  OBVIOUS
<1>6. f[k] = g[k]
  BY <1>2, <1>3, <1>4, <1>5, ReadsSame
<1>7. g[k + 1] = Taken(p, g[k], t[k + 1])
  BY <1>4, <1>5 DEF Reads
<1> QED
  BY <1>2, <1>3, <1>4, <1>6, <1>7 DEF t

LEMMA FromType ==
  ASSUME NEW p, NEW P PROVE \A s \in Seq(P) : From(p, s) \in Seq(P)
<1> DEFINE T == {s \in Seq(P) : From(p, s) \in Seq(P)}
<1>1. <<>> \in T
  <2>1. <<>> \in Seq(P)
    OBVIOUS
  <2> QED
    BY <2>1, FromEmpty
<1>2. ASSUME NEW s \in T, NEW b \in P PROVE Append(s, b) \in T
  BY FromAppend DEF Taken
<1>3. T \in SUBSET Seq(P)
  OBVIOUS
<1> HIDE DEF T
<1>4. T = Seq(P)
  BY <1>1, <1>2, <1>3, SequenceInduction
<1> QED
  BY <1>4 DEF T

LEMMA AppendConcat ==
  ASSUME NEW P, NEW s \in Seq(P), NEW t \in Seq(P), NEW b \in P
  PROVE  /\ s \o t \in Seq(P)
         /\ s \o Append(t, b) = Append(s \o t, b)
  OBVIOUS

LEMMA FromConcat ==
  ASSUME NEW p, NEW P, NEW s \in Seq(P)
  PROVE  \A t \in Seq(P) : From(p, s \o t) = From(p, s) \o From(p, t)
<1> DEFINE T == {t \in Seq(P) : From(p, s \o t) = From(p, s) \o From(p, t)}
<1>1. <<>> \in T
  <2>1. s \o <<>> = s /\ From(p, s) \in Seq(P)
    BY FromType
  <2>2. From(p, s) \o <<>> = From(p, s)
    BY <2>1
  <2> QED
    BY <2>1, <2>2, FromEmpty
<1>2. ASSUME NEW t \in T, NEW b \in P PROVE Append(t, b) \in T
  <2>1. t \in Seq(P) /\ From(p, s \o t) = From(p, s) \o From(p, t)
    OBVIOUS
  <2>2. /\ s \o t \in Seq(P) /\ s \o Append(t, b) = Append(s \o t, b)
        /\ Append(t, b) \in Seq(P)
    BY <2>1, AppendConcat
  <2> HIDE DEF T
  <2>3. From(p, Append(s \o t, b)) = Taken(p, From(p, s) \o From(p, t), b)
    <3>1. From(p, Append(s \o t, b)) = Taken(p, From(p, s \o t), b)
      BY <2>2, FromAppend
    <3> QED
      BY <2>1, <3>1
  <2>4. From(p, Append(t, b)) = Taken(p, From(p, t), b)
    BY <2>1, FromAppend
  <2>5. PICK x \in Seq(P), y \in Seq(P) : x = From(p, s) /\ y = From(p, t)
    BY <2>1, FromType
  <2>6. Taken(p, x \o y, b) = x \o Taken(p, y, b)
    <3>1. x \o Append(y, b) = Append(x \o y, b)
      BY AppendConcat
    <3>2. CASE b.from = p
      BY <3>1, <3>2 DEF Taken
    <3>3. CASE b.from # p
      BY <3>3 DEF Taken
    <3> QED
      BY <3>2, <3>3
  <2>7. From(p, s \o Append(t, b)) = From(p, s) \o From(p, Append(t, b))
    BY <2>2, <2>3, <2>4, <2>5, <2>6
  <2> QED
    BY <2>2, <2>7 DEF T
<1>3. T \in SUBSET Seq(P)
  OBVIOUS
<1> HIDE DEF T
<1>4. T = Seq(P)
  BY <1>1, <1>2, <1>3, SequenceInduction
<1> QED
  BY <1>4 DEF T

\* Of one's own pieces, all; of another's, none.
LEMMA FromOne ==
  ASSUME NEW p, NEW q, NEW Q, \A b \in Q : b.from = q
  PROVE  \A s \in Seq(Q) : From(p, s) = IF p = q THEN s ELSE <<>>
<1> DEFINE T == {s \in Seq(Q) : From(p, s) = IF p = q THEN s ELSE <<>>}
<1>1. <<>> \in T
  BY FromEmpty
<1>2. ASSUME NEW s \in T, NEW b \in Q PROVE Append(s, b) \in T
  <2>1. s \in Seq(Q) /\ From(p, s) = (IF p = q THEN s ELSE <<>>) /\ b.from = q
    OBVIOUS
  <2>2. Append(s, b) \in Seq(Q)
    BY <2>1
  <2>3. From(p, Append(s, b)) = Taken(p, From(p, s), b)
    BY <2>1, FromAppend
  <2> QED
    BY <2>1, <2>2, <2>3 DEF Taken
<1>3. T \in SUBSET Seq(Q)
  OBVIOUS
<1> HIDE DEF T
<1>4. T = Seq(Q)
  BY <1>1, <1>2, <1>3, SequenceInduction
<1> QED
  BY <1>4 DEF T

-----------------------------------------------------------------------------
(* Numbers modulo m *)

LEMMA Division ==
  ASSUME NEW m \in Nat \ {0}, NEW a \in Nat
  PROVE  \E q \in Nat : a = m * q + (a % m) /\ a % m \in 0 .. m - 1
<1>1. a \div m \in Nat
  OBVIOUS
<1>2. a = m * (a \div m) + (a % m)
  OBVIOUS
<1>3. a % m \in 0 .. m - 1
  OBVIOUS
<1> QED
  BY <1>1, <1>2, <1>3

LEMMA OneRemainder ==
  ASSUME NEW m \in Nat \ {0}, NEW q \in Nat, NEW k \in Nat,
         NEW x \in 0 .. m - 1, NEW y \in 0 .. m - 1, m * q + x = m * k + y
  PROVE  x = y
<1>1. CASE q = k
  BY <1>1
<1>2. CASE q < k
  <2>1. PICK d \in Nat : k = q + 1 + d
    BY <1>2
  <2>2. m * k = m * q + m + m * d /\ m * d >= 0
    BY <2>1
  <2> QED
    BY <2>2
<1>3. CASE q > k
  <2>1. PICK d \in Nat : q = k + 1 + d
    BY <1>3
  <2>2. m * q = m * k + m + m * d /\ m * d >= 0
    BY <2>1
  <2> QED
    BY <2>2
<1> QED
  BY <1>1, <1>2, <1>3

LEMMA Remainder ==
  ASSUME NEW m \in Nat \ {0}, NEW q \in Nat, NEW x \in 0 .. m - 1
  PROVE  (m * q + x) % m = x
<1>1. m * q + x \in Nat
  OBVIOUS
<1>2. PICK k \in Nat :
        /\ m * q + x = m * k + ((m * q + x) % m)
        /\ (m * q + x) % m \in 0 .. m - 1
  BY <1>1, Division
<1> QED
  BY <1>2, OneRemainder

\* A sum may be reduced as it grows.
LEMMA ModSum ==
  ASSUME NEW m \in Nat \ {0}, NEW a \in Nat, NEW b \in Nat
  PROVE  ((a % m) + b) % m = (a + b) % m
<1>1. PICK q \in Nat : a = m * q + (a % m) /\ a % m \in 0 .. m - 1
  BY Division
<1>2. (a % m) + b \in Nat
  BY <1>1
<1>3. PICK k \in Nat :
        /\ (a % m) + b = m * k + (((a % m) + b) % m)
        /\ ((a % m) + b) % m \in 0 .. m - 1
  BY <1>2, Division
<1> DEFINE x == a % m
           y == (x + b) % m
<1> HIDE DEF x, y
<1>4. a = m * q + x /\ x + b = m * k + y /\ y \in 0 .. m - 1 /\ x \in 0 .. m - 1
  BY <1>1, <1>3 DEF x, y
<1>5. a + b = m * (q + k) + y
  BY <1>4
<1>6. \A n \in Nat : (m * n + y) % m = y
  BY <1>4, Remainder
<1>7. q + k \in Nat
  OBVIOUS
<1>8. (m * (q + k) + y) % m = y
  BY <1>6, <1>7
<1> QED
  BY <1>5, <1>8 DEF x, y

-----------------------------------------------------------------------------
(* Sequences of pieces with consecutive numbers *)

Numbered(w, n, m) == \A k \in 1 .. Len(w) : w[k].num = (n + k - 1) % m

LEMMA NumberedParts ==
  ASSUME NEW P, NEW s \in Seq(P), NEW t \in Seq(P), NEW n \in Nat, NEW m
  PROVE  Numbered(s \o t, n, m) <=> Numbered(s, n, m) /\ Numbered(t, n + Len(s), m)
<1>1. PICK u, a, b : u = s \o t /\ a = Len(s) /\ b = Len(t)
  OBVIOUS
<1>2. /\ Len(u) = a + b /\ a \in Nat /\ b \in Nat
      /\ \A k \in 1 .. a : u[k] = s[k]
      /\ \A k \in 1 .. b : u[a + k] = t[k]
  BY <1>1, Concat
<1>3. ASSUME Numbered(u, n, m) PROVE Numbered(s, n, m) /\ Numbered(t, n + a, m)
  <2>1. ASSUME NEW k \in 1 .. b PROVE t[k].num = (n + a + k - 1) % m
    <3>1. a + k \in 1 .. Len(u) /\ n + (a + k) - 1 = n + a + k - 1
      BY <1>2
    <3>2. u[a + k].num = (n + (a + k) - 1) % m
      BY <1>3, <3>1 DEF Numbered
    <3> QED
      BY <1>2, <3>1, <3>2
  <2> QED
    BY <1>1, <1>2, <1>3, <2>1 DEF Numbered
<1>4. ASSUME Numbered(s, n, m), Numbered(t, n + a, m) PROVE Numbered(u, n, m)
  <2>1. ASSUME NEW k \in 1 .. a + b PROVE u[k].num = (n + k - 1) % m
    <3>1. CASE k <= a
      BY <1>1, <1>2, <1>4, <3>1 DEF Numbered
    <3>2. CASE k > a
      <4>1. k - a \in 1 .. b /\ a + (k - a) = k /\ n + a + (k - a) - 1 = n + k - 1
        BY <1>2, <3>2
      <4>2. t[k - a].num = (n + a + (k - a) - 1) % m
        BY <1>1, <1>4, <4>1 DEF Numbered
      <4>3. u[k] = t[k - a]
        BY <1>2, <4>1
      <4> QED
        BY <4>1, <4>2, <4>3
    <3> QED
      BY <1>2, <3>1, <3>2
  <2> QED
    BY <1>2, <2>1 DEF Numbered
<1> QED
  BY <1>1, <1>3, <1>4

LEMMA NumberedReduced ==
  ASSUME NEW P, NEW s \in Seq(P), NEW n \in Nat, NEW m \in Nat \ {0}, Numbered(s, n, m)
  PROVE  Numbered(s, n % m, m)
<1>1. ASSUME NEW k \in 1 .. Len(s) PROVE s[k].num = ((n % m) + k - 1) % m
  <2>1. k - 1 \in Nat /\ n + (k - 1) = n + k - 1 /\ n % m \in Nat
    OBVIOUS
  <2>2. ((n % m) + (k - 1)) % m = (n + (k - 1)) % m
    BY <2>1, ModSum
  <2>3. (n % m) + (k - 1) = (n % m) + k - 1
    BY <2>1
  <2> QED
    BY <2>1, <2>2, <2>3 DEF Numbered
<1> QED
  BY <1>1 DEF Numbered

\* Pieces are taken from the front, and the number after the last of them is
\* that of the next one.
LEMMA NumberedRest ==
  ASSUME NEW P, NEW x \in Seq(P), NEW w \in Seq(P), NEW n \in Nat, NEW m \in Nat \ {0},
         n < m, Numbered(x \o w, n, m),
         NEW k, x = <<>> => k = n, x # <<>> => k = (Last(x).num + 1) % m
  PROVE  /\ k \in Nat /\ k < m
         /\ Numbered(w, k, m)
         /\ (n + Len(x \o w)) % m = (k + Len(w)) % m
<1>1. PICK l, r : l = Len(x) /\ r = Len(w)
  OBVIOUS
<1>2. l \in Nat /\ r \in Nat /\ Len(x \o w) = l + r
  BY <1>1, Concat
<1>3. Numbered(x, n, m) /\ Numbered(w, n + l, m)
  BY <1>1, NumberedParts
<1>4. CASE x = <<>>
  <2>1. l = 0
    BY <1>1, <1>4
  <2> QED
    BY <1>1, <1>2, <1>3, <1>4, <2>1
<1>5. CASE x # <<>>
  <2>1. l \in 1 .. l /\ n + l - 1 \in Nat /\ n + l - 1 + 1 = n + l
    BY <1>1, <1>2, <1>5
  <2>2. Last(x).num = (n + l - 1) % m
    BY <1>1, <1>3, <2>1 DEF Numbered, Last
  <2>3. (((n + l - 1) % m) + 1) % m = (n + l - 1 + 1) % m
    BY <2>1, ModSum
  <2>4. k = (n + l) % m
    BY <1>5, <2>1, <2>2, <2>3
  <2>5. n + l \in Nat
    BY <1>2
  <2>6. Numbered(w, k, m)
    BY <1>3, <2>4, <2>5, NumberedReduced
  <2>7. (((n + l) % m) + r) % m = (n + l + r) % m
    BY <1>2, <2>5, ModSum
  <2>8. k \in Nat /\ k < m
    BY <2>4, <2>5
  <2>9. n + (l + r) = n + l + r
    BY <1>2
  <2> QED
    BY <1>1, <1>2, <2>4, <2>6, <2>7, <2>8, <2>9
<1> QED
  BY <1>4, <1>5

\* Pieces are added at the end, with the numbers that follow.
LEMMA NumberedMore ==
  ASSUME NEW P, NEW w \in Seq(P), NEW v \in Seq(P), NEW n \in Nat, NEW m \in Nat \ {0},
         NEW s, s = (n + Len(w)) % m, Numbered(w, n, m), Numbered(v, s, m)
  PROVE  /\ Numbered(w \o v, n, m)
         /\ (s + Len(v)) % m = (n + Len(w \o v)) % m
<1>1. PICK l, r : l = Len(w) /\ r = Len(v)
  OBVIOUS
<1>2. l \in Nat /\ r \in Nat /\ n + l \in Nat /\ n + (l + r) = n + l + r
  BY <1>1
<1>7. Len(w \o v) = l + r
  BY <1>1, Concat
<1>3. (((n + l) % m) + r) % m = (n + l + r) % m
  BY <1>2, ModSum
<1>4. ASSUME NEW k \in 1 .. r PROVE v[k].num = (n + l + k - 1) % m
  <2>1. k - 1 \in Nat /\ n + l + (k - 1) = n + l + k - 1 /\ (n + l) % m \in Nat
    BY <1>2
  <2>2. (((n + l) % m) + (k - 1)) % m = (n + l + (k - 1)) % m
    BY <1>2, <2>1, ModSum
  <2>3. ((n + l) % m) + (k - 1) = ((n + l) % m) + k - 1
    BY <2>1
  <2>4. v[k].num = (((n + l) % m) + k - 1) % m
    BY <1>1 DEF Numbered
  <2> QED
    BY <2>1, <2>2, <2>3, <2>4
<1>5. Numbered(v, n + l, m)
  BY <1>1, <1>4 DEF Numbered
<1>6. Numbered(w \o v, n, m)
  BY <1>1, <1>5, NumberedParts
<1> QED
  BY <1>1, <1>2, <1>3, <1>6, <1>7

-----------------------------------------------------------------------------
(* Lines of a buffer *)

LEMMA FirstEndIs ==
  ASSUME NEW P, NEW s \in Seq(P), s # <<>>, Ends(Last(s))
  PROVE  /\ FirstEnd(s) \in 1 .. Len(s) /\ Ends(s[FirstEnd(s)])
         /\ \A m \in 1 .. FirstEnd(s) - 1 : ~ Ends(s[m])
<1> DEFINE T == {n \in 1 .. Len(s) : Ends(s[n])}
<1>1. Len(s) \in T /\ T \in SUBSET Nat
  BY DEF Last
<1>2. PICK n \in T : \A m \in T : ~ (m < n)
  BY <1>1, LeastNatural
<1>3. n \in DOMAIN s /\ Ends(s[n]) /\ \A m \in 1 .. n - 1 : ~ Ends(s[m])
  BY <1>1, <1>2
<1> QED
  BY <1>3 DEF FirstEnd

LEMMA LineAndRest ==
  ASSUME NEW P, NEW s \in Seq(P), s # <<>>, Ends(Last(s))
  PROVE  /\ FirstLine(s) \in Seq(P) /\ FirstLine(s) # <<>>
         /\ AfterFirstLine(s) \in Seq(P)
         /\ s = FirstLine(s) \o AfterFirstLine(s)
         /\ AfterFirstLine(s) # <<>> => Last(AfterFirstLine(s)) = Last(s)
<1>1. PICK n \in 1 .. Len(s) : n = FirstEnd(s)
  BY FirstEndIs
<1> DEFINE x == SubSeq(s, 1, n)
           y == SubSeq(s, n + 1, Len(s))
<1>2. x = FirstLine(s) /\ y = AfterFirstLine(s)
  BY <1>1 DEF FirstLine, AfterFirstLine
<1>3. PICK l \in Nat : l = Len(s)
  OBVIOUS
<1>4. /\ x \in Seq(P) /\ Len(x) = n /\ x # <<>>
      /\ \A k \in 1 .. n : x[k] = s[k]
  OBVIOUS
<1>5. y \in Seq(P) /\ Len(y) = l - n
  BY <1>3
<1>6. \A k \in 1 .. l - n : y[k] = s[n + k]
  BY <1>3
<1> HIDE DEF x, y
<1>7. s = x \o y
  <2>1. PICK z \in Seq(P) : z = x \o y /\ Len(z) = l
    <3>1. x \o y \in Seq(P) /\ Len(x \o y) = Len(x) + Len(y)
      BY <1>4, <1>5, Concat
    <3>2. n \in Nat /\ n + (l - n) = l
      BY <1>3
    <3> QED
      BY <1>4, <1>5, <3>1, <3>2
  <2>2. ASSUME NEW k \in 1 .. l PROVE z[k] = s[k]
    <3>1. CASE k <= n
      <4>1. (x \o y)[k] = x[k]
        BY <1>3, <1>4, <1>5, <3>1, Concat
      <4> QED
        BY <1>4, <2>1, <3>1, <4>1
    <3>2. CASE k > n
      <4>1. k - n \in 1 .. l - n /\ n + (k - n) = k
        BY <1>3, <3>2
      <4>2. (x \o y)[n + (k - n)] = y[k - n]
        BY <1>3, <1>4, <1>5, <4>1, Concat
      <4> QED
        BY <1>6, <2>1, <4>1, <4>2
    <3>3. n \in Nat /\ k \in Nat
      BY <1>3
    <3> QED
      BY <3>1, <3>2, <3>3
  <2>3. s = z
    BY <1>3, <2>1, <2>2, SameSequence
  <2> QED
    BY <2>1, <2>3
<1>8. ASSUME y # <<>> PROVE Last(y) = Last(s)
  <2>1. l - n \in 1 .. l - n /\ n + (l - n) = l
    BY <1>3, <1>5, <1>8
  <2> QED
    BY <1>3, <1>5, <1>6, <2>1 DEF Last
<1> QED
  BY <1>2, <1>4, <1>5, <1>7, <1>8

-----------------------------------------------------------------------------
(* What is on its way *)

Own(p) == {b \in Piece : b.from = p}

\* Each piece comes from its sender, and a buffer is executed when it is complete.
LinesShape ==
  /\ dialed \subseteq Peers /\ hungUp \subseteq dialed
  /\ sent \in [Peers -> Nat] /\ \A p \in Peers : sent[p] < Modulus(p)
  /\ \A p \in Peers : inbox[p] \in Seq(Own(p))
  /\ cur \in Fds \cup {Listener}
  /\ buf \in Seq(Piece) /\ lines \in Seq(Piece)
  /\ stop \in BOOLEAN
  /\ pc \in {"test", "poll", "scan", "lines", "closing", "done", "fault"}
  /\ next \in [Peers -> Nat] /\ \A p \in Peers : next[p] < Modulus(p)
  /\ pc = "lines" /\ lines # <<>> => Ends(Last(lines))

Live(p) == (IsServed(p) \/ Contains(backlog, p)) /\ p \notin hungUp

\* The pieces w are those from number n to the last one that p has sent.
Continues(p, w, n) ==
  /\ Numbered(w, n, Modulus(p))
  /\ Live(p) => sent[p] = (n + Len(w)) % Modulus(p)
  /\ p \notin dialed => w = <<>> /\ n = 0 /\ sent[p] = 0

Sound(p) == Continues(p, Way(p), next[p])

LinesInv == TablesInv /\ LinesShape /\ \A p \in Peers : Sound(p)

LEMMA ModulusType ==
  \A p \in Peers : Modulus(p) \in Nat \ {0} /\ Modulus(p) >= 2 /\ Modulus(p) % 2 = 0
<1>1. \A n \in Nat : n % 2 = 0 => (n + 2) % 2 = 0
  OBVIOUS
<1> QED
  BY <1>1, PendingAssumption DEF Modulus

LEMMA KeepsOn ==
  ASSUME NEW p, NEW w, NEW n, Continues(p, w, n), sent'[p] = sent[p], Live(p)' => Live(p),
         p \in dialed => p \in dialed', Way(p)' = w, next'[p] = n
  PROVE  Sound(p)'
  BY DEF Sound, Continues

LEMMA WayType ==
  ASSUME LinesInv, NEW p \in Peers
  PROVE  /\ InHand \in Seq(Piece) /\ From(p, InHand) \in Seq(Piece)
         /\ inbox[p] \in Seq(Piece) /\ Way(p) \in Seq(Piece)
<1>1. InHand \in Seq(Piece) /\ inbox[p] \in Seq(Piece)
  BY DEF LinesInv, LinesShape, InHand, TablesInv, Shape
<1>2. From(p, InHand) \in Seq(Piece)
  BY <1>1, FromType
<1> QED
  BY <1>1, <1>2, Concat DEF Way

\* Nothing happens to what is on its way.
LEMMA SameWay ==
  ASSUME LinesInv, UNCHANGED <<inbox, sent, next>>, InHand' = InHand, NEW p \in Peers,
         Live(p)' => Live(p), dialed \subseteq dialed'
  PROVE  Sound(p)'
<1>1. Way(p)' = Way(p)
  BY DEF Way
<1> QED
  BY <1>1, KeepsOn DEF LinesInv, Sound

\* A connection that ends takes what the kernel held for it.
LEMMA ShorterWay ==
  ASSUME LinesInv, NEW p \in Peers, NEW n \in Nat, NEW s \in Seq(Piece),
         Continues(p, From(p, s) \o inbox[p], n), InHand' = s, inbox'[p] = <<>>, next'[p] = n,
         p \in dialed', ~ Live(p)'
  PROVE  Sound(p)'
<1>1. From(p, s) \in Seq(Piece) /\ inbox[p] \in Seq(Piece)
  BY FromType, WayType
<1>2. From(p, s) \o <<>> = From(p, s)
  BY <1>1
<1>3. Way(p)' = From(p, s)
  BY <1>2 DEF Way
<1>4. Numbered(From(p, s), n, Modulus(p))
  BY <1>1, NumberedParts DEF Continues
<1> QED
  BY <1>3, <1>4 DEF Sound, Continues

\* Of all clients only the one that ends is affected.
LEMMA DisconnectSound ==
  ASSUME LinesInv, NEW f \in users, DisconnectClient(f), NEW p \in Peers,
         NEW n \in Nat, NEW s \in Seq(Piece),
         Continues(p, From(p, s) \o inbox[p], n), InHand' = s, next'[p] = n
  PROVE  Sound(p)'
<1>1. /\ f \in Fds /\ sock[f] \in Peers /\ sock[f] # Nobody /\ Nobody \notin Peers
      /\ UNCHANGED <<dialed, hungUp, backlog, sent>>
      /\ \A g \in Fds : sock'[g] = IF g = f THEN Nobody ELSE sock[g]
      /\ \A q \in Peers : inbox'[q] = IF q = sock[f] THEN <<>> ELSE inbox[q]
  BY PeersAssumption DEF LinesInv, TablesInv, Shape, TablesAgree, DisconnectClient
<1>2. CASE p = sock[f]
  <2>1. ~ IsServed(p)' /\ p \in dialed
    BY <1>1, <1>2 DEF LinesInv, TablesInv, Apart, IsServed
  <2>2. ~ Contains(backlog, p)'
    BY <1>1, <1>2 DEF LinesInv, TablesInv, Apart, Contains
  <2> QED
    BY <1>1, <1>2, <2>1, <2>2, ShorterWay DEF Live
<1>3. CASE p # sock[f]
  <2>1. Live(p)' => Live(p)
    BY <1>1 DEF Live, IsServed, Contains
  <2>2. Way(p)' = From(p, s) \o inbox[p]
    BY <1>1, <1>3 DEF Way
  <2> QED
    BY <1>1, <2>1, <2>2, KeepsOn
<1> QED
  BY <1>2, <1>3

-----------------------------------------------------------------------------
(* Clients *)

LEMMA SubsetSeq ==
  ASSUME NEW P, NEW Q, Q \subseteq P, NEW s \in Seq(Q) PROVE s \in Seq(P) /\ Len(s) \in Nat
  OBVIOUS

LEMMA NoPieces == \A p : <<>> \in Seq(Own(p))
  OBVIOUS

LEMMA DialSound ==
  ASSUME LinesInv, NEW p \in Peers, Dial(p) PROVE LinesShape' /\ \A q \in Peers : Sound(q)'
<1>1. /\ p \notin dialed /\ dialed' = dialed \cup {p} /\ backlog' = Append(backlog, p)
      /\ UNCHANGED <<hungUp, inbox, sent, sock, cur, buf, lines, stop, pc, next>>
  BY DEF Dial, tables, loop
<1>2. InHand' = InHand
  BY <1>1 DEF InHand
<1>3. LinesShape'
  BY <1>1 DEF LinesInv, LinesShape
<1>4. ASSUME NEW q \in Peers, q # p PROVE Sound(q)'
  <2>1. Live(q)' => Live(q)
    <3>1. /\ Len(backlog') = Len(backlog) + 1 /\ backlog'[Len(backlog) + 1] = p
          /\ \A n \in 1 .. Len(backlog) : backlog'[n] = backlog[n]
          /\ Len(backlog) \in Nat
      BY <1>1, Append1 DEF LinesInv, TablesInv, Shape
    <3>2. \A n \in 1 .. Len(backlog') : n \in 1 .. Len(backlog) \/ backlog'[n] # q
      BY <1>4, <3>1
    <3> QED
      BY <1>1, <3>1, <3>2 DEF Live, IsServed, Contains
  <2> QED
    BY <1>1, <1>2, <2>1, SameWay
<1>5. Sound(p)'
  <2>1. Way(p) = <<>> /\ next[p] = 0 /\ sent[p] = 0
    BY <1>1 DEF LinesInv, Sound, Continues
  <2>2. Way(p)' = <<>> /\ next'[p] = 0 /\ sent'[p] = 0 /\ p \in dialed' /\ Len(<<>>) = 0
    BY <1>1, <1>2, <2>1 DEF Way
  <2>3. (0 + 0) % Modulus(p) = 0
    BY ModulusType
  <2> QED
    BY <2>2, <2>3 DEF Sound, Continues, Numbered
<1> QED
  BY <1>3, <1>4, <1>5

LEMMA SendSound ==
  ASSUME LinesInv, NEW p \in Peers, NEW pieces \in Seq(Own(p)), Send(p, pieces),
         Numbered(pieces, sent[p], Modulus(p))
  PROVE  LinesShape' /\ \A q \in Peers : Sound(q)'
<1>1. /\ Live(p) /\ p \in dialed
      /\ UNCHANGED <<dialed, hungUp, backlog, sock, cur, buf, lines, stop, pc, next>>
  BY DEF Send, CanSend, tables, loop, Live
<1>2. /\ pieces \in Seq(Piece) /\ inbox[p] \in Seq(Own(p)) /\ inbox[p] \in Seq(Piece)
      /\ Len(pieces) \in Nat
  <2>1. Own(p) \subseteq Piece
    BY DEF Own
  <2>2. inbox[p] \in Seq(Own(p))
    BY DEF LinesInv, LinesShape
  <2> QED
    BY <2>1, <2>2, SubsetSeq
<1>3. /\ \A q \in Peers : inbox'[q] = IF q = p THEN inbox[p] \o pieces ELSE inbox[q]
      /\ inbox[p] \o pieces \in Seq(Own(p))
  BY <1>2, Concat DEF Send, LinesInv, TablesInv, Shape
<1>4. /\ Modulus(p) \in Nat \ {0} /\ sent[p] \in Nat /\ sent[p] < Modulus(p)
      /\ next[p] \in Nat
  BY ModulusType DEF LinesInv, LinesShape
<1>5. /\ \A q \in Peers :
           sent'[q] = IF q = p THEN (sent[p] + Len(pieces)) % Modulus(p) ELSE sent[q]
      /\ sent' \in [Peers -> Nat]
  <2>1. (sent[p] + Len(pieces)) % Modulus(p) \in Nat
    BY <1>2, <1>4
  <2> QED
    BY <2>1 DEF Send, LinesInv, LinesShape
<1>6. (sent[p] + Len(pieces)) % Modulus(p) < Modulus(p)
  BY <1>2, <1>4
<1>7. LinesShape'
  <2>1. \A q \in Peers : sent'[q] < Modulus(q)
    BY <1>5, <1>6 DEF LinesInv, LinesShape
  <2>2. \A q \in Peers : inbox'[q] \in Seq(Own(q))
    BY <1>3 DEF LinesInv, LinesShape
  <2> QED
    BY <1>1, <1>5, <2>1, <2>2 DEF LinesInv, LinesShape
<1>8. InHand' = InHand
  BY <1>1 DEF InHand
<1>9. ASSUME NEW q \in Peers, q # p PROVE Sound(q)'
  <2>1. Way(q)' = Way(q) /\ sent'[q] = sent[q] /\ next'[q] = next[q]
    BY <1>1, <1>3, <1>5, <1>8, <1>9 DEF Way
  <2>2. Live(q)' => Live(q)
    BY <1>1 DEF Live, IsServed
  <2> QED
    BY <1>1, <2>1, <2>2, KeepsOn DEF LinesInv, Sound
<1>10. Sound(p)'
  <2>1. Way(p)' = Way(p) \o pieces
    <3>1. PICK x \in Seq(Piece), y \in Seq(Piece), z \in Seq(Piece) :
            x = From(p, InHand) /\ y = inbox[p] /\ z = pieces
      BY <1>2, WayType
    <3>2. x \o (y \o z) = (x \o y) \o z
      BY Associative
    <3> QED
      BY <1>3, <1>8, <3>1, <3>2 DEF Way
  <2>2. PICK w \in Seq(Piece) : w = Way(p)
    BY WayType
  <2>3. PICK s \in Nat, n \in Nat, m \in Nat \ {0} :
          s = sent[p] /\ n = next[p] /\ m = Modulus(p)
    BY <1>4
  <2>6. PICK z \in Seq(Piece) : z = pieces
    BY <1>2
  <2>4. Numbered(w, n, m) /\ s = (n + Len(w)) % m /\ Numbered(z, s, m)
    BY <1>1, <2>2, <2>3, <2>6 DEF LinesInv, Sound, Continues
  <2>5. Numbered(w \o z, n, m) /\ (s + Len(z)) % m = (n + Len(w \o z)) % m
    BY <2>4, NumberedMore
  <2> QED
    BY <1>1, <1>5, <2>1, <2>2, <2>3, <2>5, <2>6 DEF Sound, Continues
<1> QED
  BY <1>7, <1>9, <1>10

LEMMA HangUpSound ==
  ASSUME LinesInv, NEW p \in Peers, HangUp(p)
  PROVE  LinesShape' /\ \A q \in Peers : Sound(q)'
<1>1. /\ p \in dialed /\ hungUp' = hungUp \cup {p}
      /\ inbox' \in {inbox, [inbox EXCEPT ![p] = <<>>]}
      /\ UNCHANGED <<dialed, backlog, sent, sock, cur, buf, lines, stop, pc, next>>
  BY DEF HangUp, CanSend, tables, loop
<1>2. InHand' = InHand
  BY <1>1 DEF InHand
<1>3. \A q \in Peers : inbox'[q] = inbox[q] \/ (q = p /\ inbox'[q] = <<>>)
  BY <1>1 DEF LinesInv, TablesInv, Shape
<1>4. LinesShape'
  <2>1. \A q \in Peers : inbox'[q] \in Seq(Own(q))
    BY <1>3, NoPieces DEF LinesInv, LinesShape
  <2> QED
    BY <1>1, <2>1 DEF LinesInv, LinesShape
<1>5. \A q : Live(q)' => Live(q)
  BY <1>1 DEF Live, IsServed
<1>6. ASSUME NEW q \in Peers, inbox'[q] = inbox[q] PROVE Sound(q)'
  <2>1. Way(q)' = Way(q)
    BY <1>2, <1>6 DEF Way
  <2> QED
    BY <1>1, <1>5, <2>1, KeepsOn DEF LinesInv, Sound
<1>7. ASSUME inbox'[p] = <<>> PROVE Sound(p)'
  <2>1. ~ Live(p)'
    BY <1>1 DEF Live
  <2>2. next[p] \in Nat /\ InHand \in Seq(Piece)
    BY WayType DEF LinesInv, LinesShape
  <2>3. Continues(p, From(p, InHand) \o inbox[p], next[p])
    BY DEF LinesInv, Sound, Way
  <2> QED
    BY <1>1, <1>2, <1>7, <2>1, <2>2, <2>3, ShorterWay
<1> QED
  BY <1>3, <1>4, <1>6, <1>7

LEMMA OwnPiece ==
  ASSUME NEW p \in Peers, sent[p] \in Nat, NEW n \in Nat, NEW k \in Kinds \cup {"OTHER"}
  PROVE  NextPiece(p, n, k) \in Own(p)
  BY PieceType DEF Own, NextPiece

LEMMA OnePiece ==
  ASSUME LinesInv, NEW p \in Peers, NEW k \in Kinds \cup {"OTHER"}
  PROVE  /\ <<NextPiece(p, 0, k)>> \in Seq(Own(p))
         /\ Numbered(<<NextPiece(p, 0, k)>>, sent[p], Modulus(p))
<1>1. sent[p] \in Nat
  BY DEF LinesInv, LinesShape
<1>2. NextPiece(p, 0, k) \in Own(p)
  BY <1>1, OwnPiece
<1>3. sent[p] + 0 = sent[p] + 1 - 1
  BY <1>1
<1>4. NextPiece(p, 0, k).num = (sent[p] + 1 - 1) % Modulus(p)
  BY <1>3 DEF NextPiece
<1> QED
  BY <1>2, <1>4 DEF Numbered

LEMMA TwoPieces ==
  ASSUME LinesInv, NEW p \in Peers, NEW k \in Kinds
  PROVE  LET s == <<NextPiece(p, 0, k), NextPiece(p, 1, "OTHER")>>
         IN  s \in Seq(Own(p)) /\ Numbered(s, sent[p], Modulus(p))
<1>1. sent[p] \in Nat
  BY DEF LinesInv, LinesShape
<1>2. NextPiece(p, 0, k) \in Own(p) /\ NextPiece(p, 1, "OTHER") \in Own(p)
  BY <1>1, OwnPiece
<1>3. sent[p] + 0 = sent[p] + 1 - 1 /\ sent[p] + 1 = sent[p] + 2 - 1
  BY <1>1
<1>4. /\ NextPiece(p, 0, k).num = (sent[p] + 1 - 1) % Modulus(p)
      /\ NextPiece(p, 1, "OTHER").num = (sent[p] + 2 - 1) % Modulus(p)
  BY <1>3 DEF NextPiece
<1>5. PICK x, y : x = NextPiece(p, 0, k) /\ y = NextPiece(p, 1, "OTHER")
  OBVIOUS
<1>6. \A n \in 1 .. Len(<<x, y>>) : (n = 1 /\ <<x, y>>[n] = x) \/ (n = 2 /\ <<x, y>>[n] = y)
  OBVIOUS
<1>7. <<x, y>> \in Seq(Own(p))
  BY <1>2, <1>5
<1>8. Numbered(<<x, y>>, sent[p], Modulus(p))
  BY <1>4, <1>5, <1>6 DEF Numbered
<1> QED
  BY <1>5, <1>7, <1>8

LEMMA ClientSound ==
  ASSUME LinesInv, NEW p \in Peers, ClientStep(p)
  PROVE  LinesShape' /\ \A q \in Peers : Sound(q)'
<1>1. ASSUME NEW k \in Kinds, SendLine(p, k) PROVE LinesShape' /\ \A q \in Peers : Sound(q)'
  BY <1>1, TwoPieces, SendSound DEF SendLine
<1>2. ASSUME NEW k \in Kinds, SendStart(p, k) PROVE LinesShape' /\ \A q \in Peers : Sound(q)'
  BY <1>2, OnePiece, SendSound DEF SendStart
<1>3. CASE SendRest(p)
  BY <1>3, OnePiece, SendSound DEF SendRest
<1> QED
  BY <1>1, <1>2, <1>3, DialSound, HangUpSound DEF ClientStep

-----------------------------------------------------------------------------
(* The server *)

\* Steps that touch neither what is on its way nor who is connected.
LEMMA QuietSound ==
  ASSUME LinesInv, UNCHANGED <<env, sock, cur, buf, lines, next>>, stop' \in BOOLEAN,
         pc' \in {"test", "poll", "scan", "lines", "closing", "done", "fault"},
         pc = "lines" <=> pc' \in {"lines", "fault"}, pc # "fault"
  PROVE  LinesShape' /\ \A q \in Peers : Sound(q)'
<1>1. LinesShape'
  BY DEF LinesInv, LinesShape, env
<1>2. InHand' = InHand /\ UNCHANGED <<inbox, sent, next, dialed>>
  BY DEF InHand, env, LinesInv, LinesShape
<1>3. \A q : Live(q)' => Live(q)
  BY DEF Live, IsServed, env
<1> QED
  BY <1>1, <1>2, <1>3, SameWay

LEMMA SteppingSound ==
  ASSUME LinesInv,
         \/ Test \/ PollReady \/ PollTimesOut \/ PollFails \/ EndScan \/ NotReady
         \/ ExecuteForDeleted \/ CloseDone
  PROVE  LinesShape' /\ \A q \in Peers : Sound(q)'
<1>1. stop \in BOOLEAN
  BY DEF LinesInv, LinesShape
<1>2. CASE Test \/ PollFails \/ CloseDone
  BY <1>1, <1>2, QuietSound DEF Test, PollFails, CloseDone, tables
<1>3. CASE PollReady \/ PollTimesOut
  BY <1>1, <1>3, QuietSound DEF PollReady, PollTimesOut, Scan
<1>4. CASE EndScan \/ NotReady
  BY <1>1, <1>4, QuietSound DEF EndScan, NotReady, tables
<1>5. CASE ExecuteForDeleted
  BY <1>1, <1>5, QuietSound DEF ExecuteForDeleted, tables
<1> QED
  BY <1>2, <1>3, <1>4, <1>5

LEMMA SignalSound ==
  ASSUME LinesInv, Signal PROVE LinesShape' /\ \A q \in Peers : Sound(q)'
<1>1. /\ stop' \in BOOLEAN /\ UNCHANGED <<env, sock, cur, buf, lines, next>>
      /\ pc # "fault" /\ pc # "done"
      /\ pc' = pc \/ (pc = "poll" /\ pc' = "scan")
  BY DEF Signal, Scan, Running
<1>2. pc \in {"test", "poll", "scan", "lines", "closing", "done", "fault"}
  BY DEF LinesInv, LinesShape
<1> QED
  BY <1>1, <1>2, QuietSound

LEMMA AcceptSound ==
  ASSUME LinesInv, Accept PROVE LinesShape' /\ \A q \in Peers : Sound(q)'
<1>1. PICK f \in Fds : sock' = [sock EXCEPT ![f] = Head(backlog)]
  BY DEF Accept
<1>2. /\ backlog # <<>> /\ backlog' = Tail(backlog)
      /\ UNCHANGED <<dialed, hungUp, inbox, sent, cur, buf, lines, stop, pc, next>>
  BY DEF Accept
<1>3. /\ Head(backlog) = backlog[1] /\ 1 \in 1 .. Len(backlog)
      /\ Len(backlog') = Len(backlog) - 1
      /\ \A n \in 1 .. Len(backlog') :
           backlog'[n] = backlog[n + 1] /\ n + 1 \in 1 .. Len(backlog)
  BY <1>2 DEF LinesInv, TablesInv, Shape
<1>4. ASSUME NEW q \in Peers PROVE Live(q)' => Live(q)
  <2>1. Contains(backlog, q)' => Contains(backlog, q)
    BY <1>3 DEF Contains
  <2>2. IsServed(q)' => IsServed(q) \/ Contains(backlog, q)
    BY <1>1, <1>3 DEF IsServed, Contains, LinesInv, TablesInv, Shape
  <2> QED
    BY <1>2, <2>1, <2>2 DEF Live
<1>5. LinesShape'
  BY <1>2 DEF LinesInv, LinesShape
<1>6. InHand' = InHand
  BY <1>2 DEF InHand
<1> QED
  BY <1>2, <1>4, <1>5, <1>6, SameWay

LEMMA AcceptFailsSound ==
  ASSUME LinesInv, AcceptFails PROVE LinesShape' /\ \A q \in Peers : Sound(q)'
<1>1. UNCHANGED <<dialed, hungUp, sent, sock, cur, buf, lines, stop, pc, next>>
  BY DEF AcceptFails, tables
<1>2. InHand' = InHand
  BY <1>1 DEF InHand
<1>3. CASE UNCHANGED <<backlog, inbox>>
  <2>1. LinesShape'
    BY <1>1, <1>3 DEF LinesInv, LinesShape
  <2>2. \A q : Live(q)' => Live(q)
    BY <1>1, <1>3 DEF Live, IsServed
  <2> QED
    BY <1>1, <1>2, <1>3, <2>1, <2>2, SameWay
<1>4. CASE /\ backlog # <<>> /\ backlog' = Tail(backlog)
           /\ inbox' = [inbox EXCEPT ![Head(backlog)] = <<>>]
  <2>1. PICK p \in Peers : p = Head(backlog) /\ p = backlog[1]
    BY <1>4 DEF LinesInv, TablesInv, Shape
  <2>2. /\ 1 \in 1 .. Len(backlog) /\ Len(backlog') = Len(backlog) - 1
        /\ \A n \in 1 .. Len(backlog') :
             backlog'[n] = backlog[n + 1] /\ n + 1 \in 1 .. Len(backlog)
    BY <1>4 DEF LinesInv, TablesInv, Shape
  <2>3. \A q \in Peers : inbox'[q] = IF q = p THEN <<>> ELSE inbox[q]
    BY <1>4, <2>1 DEF LinesInv, TablesInv, Shape
  <2>4. LinesShape'
    <3>1. \A q \in Peers : inbox'[q] \in Seq(Own(q))
      BY <2>3, NoPieces DEF LinesInv, LinesShape
    <3> QED
      BY <1>1, <3>1 DEF LinesInv, LinesShape
  <2>5. ASSUME NEW q \in Peers, q # p PROVE Sound(q)'
    <3>1. Live(q)' => Live(q)
      BY <1>1, <2>2 DEF Live, IsServed, Contains
    <3>2. Way(q)' = Way(q)
      BY <1>2, <2>3, <2>5 DEF Way
    <3> QED
      BY <1>1, <3>1, <3>2, KeepsOn DEF LinesInv, Sound
  <2>6. Sound(p)'
    <3>1. p \in dialed
      BY <2>1, <2>2 DEF LinesInv, TablesInv, Apart
    <3>2. ~ IsServed(p)'
      BY <1>1, <2>1, <2>2, PeersAssumption DEF LinesInv, TablesInv, Apart, IsServed
    <3>3. \A n \in 1 .. Len(backlog') : n + 1 # 1
      BY <2>2 DEF LinesInv, TablesInv, Shape
    <3>4. ~ Contains(backlog, p)'
      BY <2>1, <2>2, <3>3 DEF LinesInv, TablesInv, Apart, Contains
    <3>5. next[p] \in Nat /\ InHand \in Seq(Piece)
      BY WayType DEF LinesInv, LinesShape
    <3>6. Continues(p, From(p, InHand) \o inbox[p], next[p])
      BY DEF LinesInv, Sound, Way
    <3>7. inbox'[p] = <<>> /\ p \in dialed' /\ ~ Live(p)'
      BY <1>1, <2>3, <3>1, <3>2, <3>4 DEF Live
    <3> QED
      BY <1>1, <1>2, <3>5, <3>6, <3>7, ShorterWay
  <2> QED
    BY <2>4, <2>5, <2>6
<1> QED
  BY <1>3, <1>4 DEF AcceptFails

\* A client ends, and nothing is executed.
LEMMA EndSound ==
  ASSUME LinesInv, NEW f \in users, DisconnectClient(f),
         UNCHANGED <<cur, buf, lines, stop, pc, next>>
  PROVE  LinesShape' /\ \A q \in Peers : Sound(q)'
<1>1. /\ UNCHANGED <<dialed, hungUp, sent>>
      /\ \A q \in Peers : inbox'[q] = inbox[q] \/ inbox'[q] = <<>>
  BY DEF DisconnectClient, LinesInv, TablesInv, Shape
<1>2. LinesShape'
  <2>1. \A q \in Peers : inbox'[q] \in Seq(Own(q))
    BY <1>1, NoPieces DEF LinesInv, LinesShape
  <2> QED
    BY <1>1, <2>1 DEF LinesInv, LinesShape
<1>3. InHand' = InHand
  BY DEF InHand
<1>4. ASSUME NEW p \in Peers PROVE Sound(p)'
  <2>1. next[p] \in Nat /\ InHand \in Seq(Piece)
    BY WayType DEF LinesInv, LinesShape
  <2>2. Continues(p, From(p, InHand) \o inbox[p], next[p])
    BY DEF LinesInv, Sound, Way
  <2> QED
    BY <1>3, <2>1, <2>2, DisconnectSound
<1> QED
  BY <1>2, <1>4

LEMMA RecvEndsSound ==
  ASSUME LinesInv, RecvEnds PROVE LinesShape' /\ \A q \in Peers : Sound(q)'
<1>1. fds[i].fd \in users
  BY ClientAtIndex DEF RecvEnds, LinesInv
<1> QED
  BY <1>1, EndSound DEF RecvEnds

LEMMA CloseSound ==
  ASSUME LinesInv, Close PROVE LinesShape' /\ \A q \in Peers : Sound(q)'
<1>1. PICK f \in users : DisconnectClient(f)
  BY DEF Close
<1> QED
  BY <1>1, EndSound DEF Close, loop

\* What is received goes to the end of the buffer, behind pieces of others.
LEMMA RecvDataSound ==
  ASSUME LinesInv, RecvData PROVE LinesShape' /\ \A q \in Peers : Sound(q)'
<1>1. PICK f \in Fds, p \in Peers : f = fds[i].fd /\ p = sock[f]
  BY ClientAtIndex, PeersAssumption DEF RecvData, LinesInv, TablesInv, TablesAgree, Shape
<1>2. /\ pc = "scan" /\ buf' = buf \o inbox[p]
      /\ UNCHANGED <<dialed, hungUp, backlog, sent, sock, stop, next>>
      /\ \A q \in Peers : inbox'[q] = IF q = p THEN <<>> ELSE inbox[q]
      /\ \/ pc' = "lines" /\ lines' = buf' /\ cur' = f /\ Complete(buf, inbox[p])
         \/ UNCHANGED <<pc, lines, cur>>
  BY <1>1 DEF RecvData, Received, AtReady, tables, LinesInv, TablesInv, Shape
<1>3. Own(p) \subseteq Piece /\ inbox[p] \in Seq(Own(p)) /\ buf \in Seq(Piece)
  BY DEF Own, LinesInv, LinesShape
<1>4. PICK z \in Seq(Piece), b \in Seq(Piece) : z = inbox[p] /\ b = buf
  BY <1>3, SubsetSeq
<1>5. b \o z \in Seq(Piece) /\ buf' = b \o z
  BY <1>2, <1>4, Concat
<1>6. LinesShape'
  <2>1. \A q \in Peers : inbox'[q] \in Seq(Own(q))
    BY <1>2, NoPieces DEF LinesInv, LinesShape
  <2>2. pc' = "lines" => lines' = buf' /\ cur' \in Fds /\ Ends(Last(lines'))
    BY <1>2 DEF Complete
  <2>3. pc' # "lines" => UNCHANGED <<pc, lines, cur>>
    BY <1>2
  <2> QED
    BY <1>2, <1>5, <2>1, <2>2, <2>3 DEF LinesInv, LinesShape
<1>7. InHand = b /\ InHand' = b \o z
  BY <1>2, <1>4 DEF InHand
<1>8. ASSUME NEW q \in Peers PROVE Way(q)' = Way(q)
  <2>1. From(q, b \o z) = From(q, b) \o From(q, z)
    BY FromConcat
  <2>2. From(q, z) = IF q = p THEN z ELSE <<>>
    <3>1. \A c \in Own(p) : c.from = p
      BY DEF Own
    <3>2. \A s \in Seq(Own(p)) : From(q, s) = IF q = p THEN s ELSE <<>>
      BY <3>1, FromOne
    <3> QED
      BY <1>3, <1>4, <3>2
  <2>3. PICK x \in Seq(Piece) : x = From(q, b)
    BY FromType
  <2>4. CASE q = p
    <3>1. (x \o z) \o <<>> = x \o z
      BY Concat
    <3> QED
      BY <1>2, <1>4, <1>7, <2>1, <2>2, <2>3, <2>4, <3>1 DEF Way
  <2>5. CASE q # p
    <3>1. x \o <<>> = x
      OBVIOUS
    <3> QED
      BY <1>2, <1>7, <2>1, <2>2, <2>3, <2>5, <3>1 DEF Way
  <2> QED
    BY <2>4, <2>5
<1>9. \A q : Live(q)' => Live(q)
  BY <1>2 DEF Live, IsServed
<1> QED
  BY <1>2, <1>6, <1>8, <1>9, KeepsOn DEF LinesInv, Sound

LEMMA LinesDoneSound ==
  ASSUME LinesInv, LinesDone PROVE LinesShape' /\ \A q \in Peers : Sound(q)'
<1>1. /\ pc = "lines" /\ pc' = "scan" /\ lines = <<>> /\ buf' = <<>> /\ cur' = Listener
      /\ UNCHANGED <<dialed, hungUp, backlog, inbox, sent, sock, lines, stop, next>>
  BY DEF LinesDone, BufferAfter, env, tables
<1>2. InHand' = InHand
  BY <1>1 DEF InHand
<1>3. LinesShape'
  BY <1>1 DEF LinesInv, LinesShape
<1>4. \A q : Live(q)' => Live(q)
  BY <1>1 DEF Live, IsServed
<1> QED
  BY <1>1, <1>2, <1>3, <1>4, SameWay

-----------------------------------------------------------------------------
(* A line is executed *)

LEMMA ExecutedWay ==
  ASSUME LinesInv, pc = "lines", lines # <<>>, next' = Executed(FirstLine(lines)),
         NEW p \in Peers
  PROVE  /\ next'[p] \in Nat /\ next'[p] < Modulus(p)
         /\ Continues(p, From(p, AfterFirstLine(lines)) \o inbox[p], next'[p])
<1>1. Ends(Last(lines)) /\ lines \in Seq(Piece)
  BY DEF LinesInv, LinesShape
<1>2. PICK a \in Seq(Piece), r \in Seq(Piece) :
        a = FirstLine(lines) /\ r = AfterFirstLine(lines) /\ lines = a \o r
  BY <1>1, LineAndRest
<1>3. PICK x \in Seq(Piece), y \in Seq(Piece), z \in Seq(Piece) :
        x = From(p, a) /\ y = From(p, r) /\ z = inbox[p]
  BY FromType, WayType
<1>4. From(p, a \o r) = x \o y
  BY <1>3, FromConcat
<1>5. y \o z \in Seq(Piece)
  BY Concat
<1>6. Way(p) = x \o (y \o z)
  <2>1. (x \o y) \o z = x \o (y \o z)
    BY Associative
  <2> QED
    BY <1>2, <1>3, <1>4, <2>1 DEF Way, InHand
<1>7. PICK n \in Nat, m \in Nat \ {0} : n = next[p] /\ m = Modulus(p) /\ n < m
  BY ModulusType DEF LinesInv, LinesShape
<1>8. PICK k : (x = <<>> => k = n) /\ (x # <<>> => k = (Last(x).num + 1) % m)
  OBVIOUS
<1>9. next'[p] = k
  BY <1>2, <1>3, <1>7, <1>8 DEF Executed
<1>10. Continues(p, x \o (y \o z), n)
  BY <1>6, <1>7 DEF LinesInv, Sound
<1>11. PICK w \in Seq(Piece) : w = y \o z
  BY <1>5
<1>12. Numbered(x \o w, n, m)
  BY <1>7, <1>10, <1>11 DEF Continues
<1>13. /\ k \in Nat /\ k < m /\ Numbered(w, k, m)
       /\ (n + Len(x \o w)) % m = (k + Len(w)) % m
  <2>1. n < m
    BY <1>7
  <2> QED
    BY <1>8, <1>12, <2>1, NumberedRest
<1>14. ASSUME p \notin dialed PROVE w = <<>> /\ k = 0 /\ sent[p] = 0
  <2>1. x \o w = <<>> /\ n = 0 /\ sent[p] = 0
    BY <1>10, <1>11, <1>14 DEF Continues
  <2>2. Len(x) + Len(w) = Len(<<>>) /\ Len(x) \in Nat /\ Len(w) \in Nat
    BY <2>1, Concat
  <2>3. Len(x) = 0 /\ Len(w) = 0
    BY <2>2
  <2> QED
    BY <1>8, <2>1, <2>3
<1>15. Continues(p, w, k)
  BY <1>7, <1>10, <1>11, <1>13, <1>14 DEF Continues
<1> QED
  BY <1>2, <1>3, <1>7, <1>9, <1>11, <1>13, <1>15

LEMMA ExecutedShape ==
  ASSUME LinesInv, pc = "lines", lines # <<>>, next' = Executed(FirstLine(lines)),
         lines' = AfterFirstLine(lines), stop' \in BOOLEAN,
         UNCHANGED <<dialed, hungUp, sent, cur, buf, pc>>,
         \A q \in Peers : inbox'[q] = inbox[q] \/ inbox'[q] = <<>>
  PROVE  LinesShape'
<1>1. next' \in [Peers -> Nat] /\ \A q \in Peers : next'[q] < Modulus(q)
  <2>1. \A q \in Peers : next'[q] \in Nat /\ next'[q] < Modulus(q)
    BY ExecutedWay
  <2>2. next' = [q \in Peers |-> next'[q]]
    BY DEF Executed
  <2> QED
    BY <2>1, <2>2
<1>2. lines' \in Seq(Piece) /\ (lines' # <<>> => Ends(Last(lines')))
  <2>1. Ends(Last(lines)) /\ lines \in Seq(Piece)
    BY DEF LinesInv, LinesShape
  <2> QED
    BY <2>1, LineAndRest
<1>3. \A q \in Peers : inbox'[q] \in Seq(Own(q))
  BY NoPieces DEF LinesInv, LinesShape
<1> QED
  BY <1>1, <1>2, <1>3 DEF LinesInv, LinesShape

LEMMA ExecuteOtherSound ==
  ASSUME LinesInv, ExecuteOther PROVE LinesShape' /\ \A q \in Peers : Sound(q)'
<1>1. /\ pc = "lines" /\ lines # <<>> /\ next' = Executed(FirstLine(lines))
      /\ lines' = AfterFirstLine(lines) /\ stop' \in BOOLEAN
      /\ UNCHANGED <<dialed, hungUp, backlog, inbox, sent, sock, cur, buf, pc>>
  BY DEF ExecuteOther, env, tables, LinesInv, LinesShape
<1>2. LinesShape'
  BY <1>1, ExecutedShape
<1>3. ASSUME NEW p \in Peers PROVE Sound(p)'
  <2>1. Way(p)' = From(p, AfterFirstLine(lines)) \o inbox[p]
    BY <1>1 DEF Way, InHand
  <2>2. Live(p)' => Live(p)
    BY <1>1 DEF Live, IsServed
  <2>3. Continues(p, From(p, AfterFirstLine(lines)) \o inbox[p], next'[p])
    BY <1>1, ExecutedWay
  <2> QED
    BY <1>1, <2>1, <2>2, <2>3, KeepsOn
<1> QED
  BY <1>2, <1>3

LEMMA ExecuteQuitSound ==
  ASSUME LinesInv, ExecuteQuit PROVE LinesShape' /\ \A q \in Peers : Sound(q)'
<1>1. /\ pc = "lines" /\ lines # <<>> /\ next' = Executed(FirstLine(lines))
      /\ lines' = AfterFirstLine(lines) /\ stop' \in BOOLEAN
      /\ cur \in users /\ DisconnectClient(cur) /\ UNCHANGED <<cur, buf, pc>>
  BY DEF ExecuteQuit, LinesInv, LinesShape
<1>2. /\ UNCHANGED <<dialed, hungUp, sent>>
      /\ \A q \in Peers : inbox'[q] = inbox[q] \/ inbox'[q] = <<>>
  BY <1>1 DEF DisconnectClient, LinesInv, TablesInv, Shape
<1>3. LinesShape'
  BY <1>1, <1>2, ExecutedShape
<1>4. InHand' = lines' /\ lines' \in Seq(Piece)
  BY <1>1, <1>3 DEF InHand, LinesShape
<1>5. ASSUME NEW p \in Peers PROVE Sound(p)'
  <2>1. /\ Continues(p, From(p, AfterFirstLine(lines)) \o inbox[p], next'[p])
        /\ next'[p] \in Nat
    BY <1>1, ExecutedWay
  <2>2. PICK n \in Nat, s \in Seq(Piece) : n = next'[p] /\ s = lines'
    BY <1>4, <2>1
  <2> QED
    BY <1>1, <1>4, <2>1, <2>2, DisconnectSound
<1> QED
  BY <1>3, <1>5

-----------------------------------------------------------------------------

LEMMA LinesInit == Init => LinesInv
<1> SUFFICES ASSUME Init PROVE LinesInv
  OBVIOUS
<1>1. TablesInv
  BY TablesInit
<1>2. LinesShape
  <2>1. /\ \A p \in Peers : sent[p] = 0 /\ next[p] = 0 /\ inbox[p] = <<>>
        /\ sent \in [Peers -> Nat] /\ next \in [Peers -> Nat]
    BY DEF Init
  <2>2. \A p \in Peers : sent[p] < Modulus(p) /\ next[p] < Modulus(p)
    BY <2>1, ModulusType
  <2>3. \A p \in Peers : inbox[p] \in Seq(Own(p))
    BY <2>1, NoPieces
  <2>4. buf \in Seq(Piece) /\ lines \in Seq(Piece)
    BY DEF Init
  <2> QED
    BY <2>1, <2>2, <2>3, <2>4 DEF Init, LinesShape
<1>3. ASSUME NEW p \in Peers PROVE Sound(p)
  <2>1. InHand = <<>> /\ inbox[p] = <<>> /\ next[p] = 0 /\ sent[p] = 0
    BY DEF Init, InHand
  <2>2. Way(p) = <<>>
    BY <2>1, FromEmpty DEF Way
  <2>3. 0 % Modulus(p) = 0 /\ Len(<<>>) = 0
    BY ModulusType
  <2> QED
    BY <2>1, <2>2, <2>3 DEF Sound, Continues, Numbered
<1> QED
  BY <1>1, <1>2, <1>3 DEF LinesInv

LEMMA LinesStep == LinesInv /\ [Next]_vars => LinesInv'
<1> SUFFICES ASSUME LinesInv, [Next]_vars PROVE LinesInv'
  OBVIOUS
<1>1. TablesInv'
  BY TablesStep DEF LinesInv
<1>2. LinesShape' /\ \A q \in Peers : Sound(q)'
  <2>1. CASE UNCHANGED vars
    <3>1. LinesShape'
      BY <2>1 DEF vars, env, tables, loop, LinesInv, LinesShape
    <3>2. InHand' = InHand /\ UNCHANGED <<inbox, sent, next, dialed>>
      BY <2>1 DEF vars, env, tables, loop, InHand
    <3>3. \A q : Live(q)' => Live(q)
      BY <2>1 DEF vars, env, tables, Live, IsServed
    <3> QED
      BY <3>1, <3>2, <3>3, SameWay
  <2>2. CASE ServerStep
    BY <2>2, SteppingSound, AcceptSound, AcceptFailsSound, RecvEndsSound, RecvDataSound,
       ExecuteOtherSound, ExecuteQuitSound, LinesDoneSound, CloseSound DEF ServerStep
  <2> QED
    BY <2>1, <2>2, ClientSound, SignalSound DEF Next
<1> QED
  BY <1>1, <1>2 DEF LinesInv

LEMMA LinesInvariant == Spec => []LinesInv
  BY LinesInit, LinesStep, PTL DEF Spec

\* The state of the poll loop, of its one line buffer and of the kernel's queues
\* keeps its type.  Two of its parts are more than types: a buffer is a sequence
\* of pieces that peers have sent, and pieces are numbered below the modulus.
THEOREM PollTypeCorrect == Spec => []PollTypeOK
<1>1. LinesInv => PollTypeOK
  BY DEF LinesInv, LinesShape, TablesInv, Shape, Entries, PollTypeOK
<1> QED
  BY <1>1, LinesInvariant, PTL

\* From recv to the execution of a line nothing is lost, repeated or put out of
\* order, for any number of clients whose pieces meet in incompleteLine and for
\* any end of any of them on the way: what follows the last piece executed is
\* numbered without a gap, up to the last piece sent while the client is there.
THEOREM PiecesKept == Spec => []NothingLostOrRepeated
<1>1. LinesInv => NothingLostOrRepeated
  <2>1. SUFFICES ASSUME LinesInv, NEW p \in Peers
                 PROVE  /\ \A n \in DOMAIN Way(p) :
                             Way(p)[n].num = (next[p] + n - 1) % Modulus(p)
                        /\ (IsServed(p) \/ Contains(backlog, p)) /\ p \notin hungUp
                             => sent[p] = (next[p] + Len(Way(p))) % Modulus(p)
    BY DEF NothingLostOrRepeated
  <2>2. DOMAIN Way(p) = 1 .. Len(Way(p))
    BY WayType
  <2> QED
    BY <2>1, <2>2 DEF LinesInv, Sound, Continues, Numbered, Live
<1> QED
  BY <1>1, LinesInvariant, PTL

-----------------------------------------------------------------------------
(* Lines that arrive in parts *)

\* A peer that sends its lines whole is never in the middle of one.
SendsWhole(q) == sent[q] % 2 = 0 /\ (inbox[q] # <<>> => Ends(Last(inbox[q])))

\* What waits for the end of a line are parts, and a buffer that is executed has,
\* apart from such parts, the lines of the client that completed it.
PartsInv ==
  /\ \A q \in Peers \ Splitters : SendsWhole(q)
  /\ pc \notin {"lines", "fault"} => \A n \in 1 .. Len(buf) : buf[n].from \in Splitters
  /\ pc = "lines" /\ cur \in users =>
       \A n \in 1 .. Len(lines) : lines[n].from \in {sock[cur]} \cup Splitters

LEMMA EvenNumbers ==
  ASSUME NEW m \in Nat, m % 2 = 0, NEW n \in Nat, n < m, n % 2 = 0
  PROVE  (n + 1) % m = n + 1 /\ (n + 1) % 2 = 1 /\ ((n + 2) % m) % 2 = 0
<1>1. n + 1 < m /\ (n + 1) % 2 = 1 /\ (n + 2) % 2 = 0
  OBVIOUS
<1>2. (n + 1) % m = n + 1
  BY <1>1
<1>3. CASE n + 2 = m
  BY <1>1, <1>2, <1>3
<1>4. CASE n + 2 < m
  BY <1>1, <1>2, <1>4
<1> QED
  BY <1>1, <1>3, <1>4

LEMMA LastOfTwo ==
  ASSUME NEW P, NEW s \in Seq(P), NEW x \in P, NEW y \in P
  PROVE  Last(s \o <<x, y>>) = y
<1>1. PICK t : t = <<x, y>>
  OBVIOUS
<1>5. t \in Seq(P)
  BY <1>1
<1>2. Len(t) = 2 /\ t[2] = y /\ 2 \in 1 .. Len(t)
  BY <1>1
<1>3. Len(s \o t) = Len(s) + Len(t) /\ \A n \in 1 .. Len(t) : (s \o t)[Len(s) + n] = t[n]
  BY <1>5, Concat
<1>4. (s \o t)[Len(s \o t)] = y
  BY <1>2, <1>3
<1> QED
  BY <1>1, <1>4 DEF Last

LEMMA SendLineWhole ==
  ASSUME LinesInv, NEW p \in Peers, NEW k \in Kinds, SendLine(p, k)
  PROVE  SendsWhole(p)'
<1> DEFINE x == NextPiece(p, 0, k)
           y == NextPiece(p, 1, "OTHER")
<1>1. /\ sent[p] \in Nat /\ sent[p] < Modulus(p) /\ sent[p] % 2 = 0
      /\ Modulus(p) \in Nat /\ Modulus(p) % 2 = 0
  BY ModulusType DEF SendLine, LinesInv, LinesShape
<1>2. x \in Own(p) /\ y \in Own(p) /\ y.num = (sent[p] + 1) % Modulus(p)
  BY <1>1, OwnPiece DEF NextPiece
<1>3. Send(p, <<x, y>>)
  BY DEF SendLine
<1> HIDE DEF x, y
<1>4. inbox[p] \in Seq(Own(p))
  BY DEF LinesInv, LinesShape
<1>5. Len(<<x, y>>) = 2
  OBVIOUS
<1>6. inbox'[p] = inbox[p] \o <<x, y>> /\ sent'[p] = (sent[p] + 2) % Modulus(p)
  BY <1>3, <1>5 DEF Send, LinesInv, LinesShape, TablesInv, Shape
<1>7. Last(inbox'[p]) = y
  BY <1>2, <1>4, <1>6, LastOfTwo
<1>8. PICK m \in Nat, n \in Nat : m = Modulus(p) /\ n = sent[p]
  BY <1>1
<1>9. (n + 1) % m = n + 1 /\ (n + 1) % 2 = 1 /\ ((n + 2) % m) % 2 = 0
  BY <1>1, <1>8, EvenNumbers
<1> QED
  BY <1>2, <1>6, <1>7, <1>8, <1>9 DEF SendsWhole, Ends

LEMMA ClientParts ==
  ASSUME LinesInv, PartsInv, NEW p \in Peers, ClientStep(p) PROVE PartsInv'
<1>1. UNCHANGED <<tables, loop>>
  BY ClientTables DEF LinesInv
<1>2. ASSUME NEW q \in Peers \ Splitters PROVE SendsWhole(q)'
  <2>1. SendsWhole(q)
    BY DEF PartsInv
  <2>2. CASE Dial(p)
    BY <2>1, <2>2 DEF Dial, SendsWhole
  <2>3. CASE HangUp(p)
    <3>1. sent' = sent /\ (inbox'[q] = inbox[q] \/ inbox'[q] = <<>>)
      BY <2>3 DEF HangUp, LinesInv, TablesInv, Shape
    <3> QED
      BY <2>1, <3>1 DEF SendsWhole
  <2>4. ASSUME NEW k \in Kinds, SendLine(p, k) PROVE SendsWhole(q)'
    <3>1. CASE q = p
      BY <2>4, <3>1, SendLineWhole
    <3>2. CASE q # p
      <4>1. sent'[q] = sent[q] /\ inbox'[q] = inbox[q]
        BY <2>4, <3>2 DEF SendLine, Send, LinesInv, LinesShape, TablesInv, Shape
      <4> QED
        BY <2>1, <4>1 DEF SendsWhole
    <3> QED
      BY <3>1, <3>2
  <2>5. ASSUME NEW pieces, p \in Splitters, Send(p, pieces) PROVE SendsWhole(q)'
    <3>1. sent'[q] = sent[q] /\ inbox'[q] = inbox[q]
      BY <2>5 DEF Send, LinesInv, LinesShape, TablesInv, Shape
    <3> QED
      BY <2>1, <3>1 DEF SendsWhole
  <2> QED
    BY <2>2, <2>3, <2>4, <2>5 DEF ClientStep, SendStart, SendRest
<1> QED
  BY <1>1, <1>2 DEF PartsInv, tables, loop

LEMMA SameParts ==
  ASSUME PartsInv, UNCHANGED <<buf, sent>>, pc \notin {"lines", "fault"}, pc' # "lines",
         \A q \in Peers : inbox'[q] = inbox[q] \/ inbox'[q] = <<>>
  PROVE  PartsInv'
  BY DEF PartsInv, SendsWhole

LEMMA SignalParts == ASSUME PartsInv, Signal PROVE PartsInv'
<1>1. /\ UNCHANGED <<env, sock, users, cur, buf, lines>>
      /\ pc' = pc \/ (pc = "poll" /\ pc' = "scan")
  BY DEF Signal, Scan
<1> QED
  BY <1>1 DEF PartsInv, SendsWhole, env

LEMMA RecvDataParts ==
  ASSUME LinesInv, PartsInv, RecvData PROVE PartsInv'
<1>1. PICK f \in Fds, p \in Peers : f = fds[i].fd /\ p = sock[f]
  BY ClientAtIndex, PeersAssumption DEF RecvData, LinesInv, TablesInv, TablesAgree, Shape
<1>2. PICK z \in Seq(Own(p)), b \in Seq(Piece) : z = inbox[p] /\ b = buf
  BY DEF LinesInv, LinesShape
<1>3. /\ pc = "scan" /\ buf' = b \o z /\ UNCHANGED <<sent, sock>>
      /\ z # <<>>
      /\ \A q \in Peers : inbox'[q] = IF q = p THEN <<>> ELSE inbox[q]
      /\ IF Complete(b, z) THEN pc' = "lines" /\ lines' = b \o z /\ cur' = f
                           ELSE UNCHANGED pc
  BY <1>1, <1>2 DEF RecvData, Received, AtReady, tables, LinesInv, TablesInv, Shape
<1>4. z \in Seq(Piece) /\ Own(p) \subseteq Piece
  BY <1>2, SubsetSeq DEF Own
<1>5. \A n \in 1 .. Len(b) : b[n].from \in Splitters
  BY <1>2, <1>3 DEF PartsInv
<1>6. \A n \in 1 .. Len(z) : z[n].from = p
  <2>1. \A n \in 1 .. Len(z) : z[n] \in Own(p)
    OBVIOUS
  <2> QED
    BY <2>1 DEF Own
<1>7. PICK u, l, r : u = b \o z /\ l = Len(b) /\ r = Len(z)
  OBVIOUS
<1>8. /\ Len(u) = l + r /\ l \in Nat /\ r \in Nat
      /\ \A n \in 1 .. l : u[n] = b[n]
      /\ \A n \in 1 .. r : u[l + n] = z[n]
  BY <1>4, <1>7, Concat
<1>9. \A n \in 1 .. Len(u) : u[n].from \in {p} \cup Splitters
  <2>1. ASSUME NEW n \in 1 .. Len(u) PROVE u[n].from \in {p} \cup Splitters
    <3>1. CASE n <= l
      BY <1>5, <1>7, <1>8, <3>1
    <3>2. CASE n > l
      <4>1. n - l \in 1 .. r /\ l + (n - l) = n
        BY <1>8, <3>2
      <4>2. u[n] = z[n - l]
        BY <1>8, <4>1
      <4> QED
        BY <1>6, <1>7, <4>1, <4>2
    <3> QED
      BY <1>8, <3>1, <3>2
  <2> QED
    BY <2>1
<1>10. ~ Complete(b, z) => p \in Splitters
  <2>1. SUFFICES ASSUME p \notin Splitters PROVE Complete(b, z)
    OBVIOUS
  <2>2. Ends(Last(z))
    BY <1>2, <1>3, <2>1 DEF PartsInv, SendsWhole
  <2>3. r \in 1 .. r
    BY <1>3, <1>7, <1>8
  <2>4. u[Len(u)] = z[r]
    BY <1>8, <2>3
  <2> QED
    BY <1>7, <2>2, <2>4 DEF Complete, Last
<1>11. \A q \in Peers \ Splitters : SendsWhole(q)'
  BY <1>3 DEF PartsInv, SendsWhole
<1>12. CASE Complete(b, z)
  BY <1>1, <1>3, <1>7, <1>9, <1>11, <1>12 DEF PartsInv
<1>13. CASE ~ Complete(b, z)
  BY <1>3, <1>7, <1>9, <1>10, <1>11, <1>13 DEF PartsInv
<1> QED
  BY <1>12, <1>13

\* The pieces behind a line are pieces of the same buffer.
LEMMA ExecutedParts ==
  ASSUME LinesInv, PartsInv, pc = "lines", lines # <<>>, lines' = AfterFirstLine(lines),
         UNCHANGED <<sent, pc, cur>>, cur \in users' => cur \in users /\ sock'[cur] = sock[cur],
         \A q \in Peers : inbox'[q] = inbox[q] \/ inbox'[q] = <<>>
  PROVE  PartsInv'
<1>1. Ends(Last(lines)) /\ lines \in Seq(Piece)
  BY DEF LinesInv, LinesShape
<1>2. PICK a \in Seq(Piece), r \in Seq(Piece) : r = lines' /\ lines = a \o r
  BY <1>1, LineAndRest
<1>3. \A n \in 1 .. Len(r) : Len(a) + n \in 1 .. Len(a \o r) /\ (a \o r)[Len(a) + n] = r[n]
  BY Concat
<1>4. \A n \in 1 .. Len(lines') : \E m \in 1 .. Len(lines) : lines'[n] = lines[m]
  BY <1>2, <1>3
<1>5. cur \in users' =>
        \A n \in 1 .. Len(lines') : lines'[n].from \in {sock'[cur]} \cup Splitters
  BY <1>4 DEF PartsInv
<1> QED
  BY <1>5 DEF PartsInv, SendsWhole

LEMMA ServerParts ==
  ASSUME LinesInv, PartsInv, ServerStep PROVE PartsInv'
<1>1. CASE Test \/ PollFails \/ CloseDone
  BY <1>1, SameParts DEF Test, PollFails, CloseDone, env
<1>2. CASE PollReady \/ PollTimesOut
  BY <1>2, SameParts DEF PollReady, PollTimesOut, Scan, env
<1>3. CASE EndScan \/ NotReady
  BY <1>3, SameParts DEF EndScan, NotReady, env
<1>4. CASE Accept
  BY <1>4, SameParts DEF Accept, AtReady
<1>5. CASE AcceptFails
  <2>1. \A q \in Peers : inbox'[q] = inbox[q] \/ inbox'[q] = <<>>
    BY <1>5 DEF AcceptFails, LinesInv, TablesInv, Shape
  <2> QED
    BY <1>5, <2>1, SameParts DEF AcceptFails, AtReady
<1>6. CASE RecvEnds
  <2>1. \A q \in Peers : inbox'[q] = inbox[q] \/ inbox'[q] = <<>>
    BY <1>6 DEF RecvEnds, DisconnectClient, LinesInv, TablesInv, Shape
  <2> QED
    BY <1>6, <2>1, SameParts DEF RecvEnds, DisconnectClient, AtReady
<1>7. CASE Close
  <2>1. \A q \in Peers : inbox'[q] = inbox[q] \/ inbox'[q] = <<>>
    BY <1>7 DEF Close, DisconnectClient, LinesInv, TablesInv, Shape
  <2> QED
    BY <1>7, <2>1, SameParts DEF Close, DisconnectClient, loop
<1>8. CASE ExecuteForDeleted
  BY <1>8 DEF ExecuteForDeleted, env, PartsInv, SendsWhole
<1>9. CASE LinesDone
  <2>1. buf' = <<>> /\ pc' = "scan" /\ UNCHANGED env
    BY <1>9 DEF LinesDone, BufferAfter
  <2> QED
    BY <2>1 DEF PartsInv, SendsWhole, env
<1>10. CASE ExecuteOther
  BY <1>10, ExecutedParts DEF ExecuteOther, env, tables
<1>11. CASE ExecuteQuit
  <2>1. \A q \in Peers : inbox'[q] = inbox[q] \/ inbox'[q] = <<>>
    BY <1>11 DEF ExecuteQuit, DisconnectClient, LinesInv, TablesInv, Shape
  <2>2. cur \notin users'
    BY <1>11 DEF ExecuteQuit, DisconnectClient
  <2> QED
    BY <1>11, <2>1, <2>2, ExecutedParts DEF ExecuteQuit, DisconnectClient
<1> QED
  BY <1>1, <1>2, <1>3, <1>4, <1>5, <1>6, <1>7, <1>8, <1>9, <1>10, <1>11, RecvDataParts
     DEF ServerStep

LEMMA PartsInit == Init => PartsInv
<1>1. 0 % 2 = 0
  OBVIOUS
<1> QED
  BY <1>1 DEF Init, PartsInv, SendsWhole

LEMMA PartsStep == LinesInv /\ PartsInv /\ [Next]_vars => PartsInv'
<1> SUFFICES ASSUME LinesInv, PartsInv, [Next]_vars PROVE PartsInv'
  OBVIOUS
<1>1. CASE UNCHANGED vars
  BY <1>1 DEF vars, env, tables, loop, PartsInv, SendsWhole
<1> QED
  BY <1>1, ClientParts, SignalParts, ServerParts DEF Next

LEMMA FirstLineParts ==
  ASSUME LinesInv, PartsInv, pc = "lines", lines # <<>>, cur \in users
  PROVE  \A n \in DOMAIN FirstLine(lines) :
           FirstLine(lines)[n].from \in {sock[cur]} \cup Splitters
<1>1. Ends(Last(lines)) /\ lines \in Seq(Piece)
  BY DEF LinesInv, LinesShape
<1>2. PICK a \in Seq(Piece), r \in Seq(Piece) : a = FirstLine(lines) /\ lines = a \o r
  BY <1>1, LineAndRest
<1>3. \A n \in 1 .. Len(a) : n \in 1 .. Len(a \o r) /\ (a \o r)[n] = a[n]
  BY Concat
<1>4. \A n \in DOMAIN a : n \in 1 .. Len(lines) /\ lines[n] = a[n]
  BY <1>2, <1>3
<1> QED
  BY <1>2, <1>4 DEF PartsInv

\* A line that is executed for one client has pieces of another only where that
\* other one sent a line in parts: who sends whole lines is never taken for
\* someone else, although all share incompleteLine.
THEOREM PartsGoAstray == Spec => OnlyPartsGoAstray
<1>1. LinesInv /\ PartsInv /\ [Next]_vars =>
        [pc = "lines" /\ lines' # lines =>
           \A n \in DOMAIN FirstLine(lines) :
             FirstLine(lines)[n].from \in {sock[cur]} \cup Splitters]_vars
  <2> SUFFICES ASSUME LinesInv, PartsInv, Next, pc = "lines", lines' # lines
               PROVE  \A n \in DOMAIN FirstLine(lines) :
                        FirstLine(lines)[n].from \in {sock[cur]} \cup Splitters
    OBVIOUS
  <2>1. ASSUME NEW p \in Peers, ClientStep(p) PROVE FALSE
    BY <2>1, ClientTables DEF LinesInv, loop
  <2>2. ~ Signal
    BY DEF Signal
  <2>3. ServerStep
    BY <2>1, <2>2 DEF Next
  <2>4. lines # <<>> /\ cur \in users
    BY <2>3 DEF ServerStep, Test, PollReady, PollTimesOut, PollFails, EndScan, NotReady, Accept,
       AcceptFails, RecvEnds, RecvData, AtReady, ExecuteOther, ExecuteQuit, ExecuteForDeleted,
       LinesDone, Close, CloseDone, loop
  <2> QED
    BY <2>4, FirstLineParts
<1> QED
  BY <1>1, LinesInvariant, PartsInit, PartsStep, PTL DEF Spec, OnlyPartsGoAstray

-----------------------------------------------------------------------------
(* Lines that are sent whole *)

\* s is k lines of two pieces each.
InPairs(s, k) ==
  /\ Len(s) = 2 * k
  /\ \A n \in 1 .. k : ~ Ends(s[2 * n - 1]) /\ Ends(s[2 * n])

LEMMA WholeIs ==
  ASSUME NEW P, NEW s \in Seq(P), NEW k \in Nat, InPairs(s, k)
  PROVE  /\ Whole(s) \in Seq(P) /\ Len(Whole(s)) = k
         /\ \A n \in 1 .. k : Whole(s)[n] = s[2 * n - 1]
<1>1. Len(s) \div 2 = k
  BY DEF InPairs
<1>2. PICK w : w = Whole(s)
  OBVIOUS
<1>3. w = [n \in 1 .. k |-> s[2 * n - 1]]
  BY <1>1, <1>2 DEF Whole
<1>4. \A n \in 1 .. k : 2 * n - 1 \in 1 .. Len(s)
  BY DEF InPairs
<1>5. \A n \in 1 .. k : s[2 * n - 1] \in P
  BY <1>4
<1>6. w \in [1 .. k -> P]
  BY <1>3, <1>5
<1>7. w \in Seq(P) /\ Len(w) = k
  BY <1>3, <1>6
<1> QED
  BY <1>2, <1>3, <1>7

LEMMA NoPairs == InPairs(<<>>, 0) /\ Whole(<<>>) = <<>>
<1>1. Len(<<>>) = 2 * 0 /\ 1 .. 0 = {}
  OBVIOUS
<1>2. InPairs(<<>>, 0)
  BY <1>1 DEF InPairs
<1>3. PICK P : P = {}
  OBVIOUS
<1>4. <<>> \in Seq(P) /\ 0 \in Nat
  OBVIOUS
<1>5. Whole(<<>>) \in Seq(P) /\ Len(Whole(<<>>)) = 0
  BY <1>2, <1>4, WholeIs
<1> QED
  BY <1>2, <1>5

LEMMA OnePair ==
  ASSUME NEW P, NEW x \in P, NEW y \in P, ~ Ends(x), Ends(y)
  PROVE  InPairs(<<x, y>>, 1) /\ Whole(<<x, y>>) = <<x>>
<1>1. PICK t : t = <<x, y>>
  OBVIOUS
<1>2. t \in Seq(P) /\ Len(t) = 2 /\ t[1] = x /\ t[2] = y
  BY <1>1
<1>3. \A n \in 1 .. 1 : n = 1 /\ 2 * n - 1 = 1 /\ 2 * n = 2
  OBVIOUS
<1>4. InPairs(t, 1)
  BY <1>2, <1>3 DEF InPairs
<1>5. PICK w \in Seq(P) : w = Whole(t) /\ Len(w) = 1 /\ \A n \in 1 .. 1 : w[n] = t[2 * n - 1]
  BY <1>2, <1>4, WholeIs
<1>6. w[1] = x
  BY <1>2, <1>3, <1>5
<1>7. w = <<x>>
  BY <1>5, <1>6
<1> QED
  BY <1>1, <1>4, <1>5, <1>7

LEMMA PairsConcat ==
  ASSUME NEW P, NEW s \in Seq(P), NEW t \in Seq(P), NEW k \in Nat, NEW m \in Nat,
         InPairs(s, k), InPairs(t, m)
  PROVE  /\ s \o t \in Seq(P) /\ InPairs(s \o t, k + m)
         /\ Whole(s \o t) = Whole(s) \o Whole(t)
<1>1. PICK u \in Seq(P) : u = s \o t
  BY Concat
<1>2. /\ Len(u) = 2 * (k + m)
      /\ \A n \in 1 .. 2 * k : u[n] = s[n]
      /\ \A n \in 1 .. 2 * m : u[2 * k + n] = t[n]
  <2>1. Len(s) = 2 * k /\ Len(t) = 2 * m /\ 2 * k + 2 * m = 2 * (k + m)
    BY DEF InPairs
  <2>2. /\ Len(u) = Len(s) + Len(t)
        /\ \A n \in 1 .. Len(s) : u[n] = s[n]
        /\ \A n \in 1 .. Len(t) : u[Len(s) + n] = t[n]
    BY <1>1, Concat
  <2> QED
    BY <2>1, <2>2
<1>3. ASSUME NEW n \in 1 .. k
      PROVE  u[2 * n - 1] = s[2 * n - 1] /\ u[2 * n] = s[2 * n]
  <2>1. 2 * n - 1 \in 1 .. 2 * k /\ 2 * n \in 1 .. 2 * k
    OBVIOUS
  <2> QED
    BY <1>2, <2>1
<1>4. ASSUME NEW n \in 1 .. m
      PROVE  u[2 * (k + n) - 1] = t[2 * n - 1] /\ u[2 * (k + n)] = t[2 * n]
  <2>1. /\ 2 * n - 1 \in 1 .. 2 * m /\ 2 * n \in 1 .. 2 * m
        /\ 2 * (k + n) - 1 = 2 * k + (2 * n - 1) /\ 2 * (k + n) = 2 * k + 2 * n
    OBVIOUS
  <2> QED
    BY <1>2, <2>1
<1>5. ASSUME NEW n \in 1 .. k + m PROVE n \in 1 .. k \/ \E j \in 1 .. m : n = k + j
  <2>1. n \notin 1 .. k => n - k \in 1 .. m /\ n = k + (n - k)
    OBVIOUS
  <2> QED
    BY <2>1
<1>6. ASSUME NEW n \in 1 .. k + m PROVE ~ Ends(u[2 * n - 1]) /\ Ends(u[2 * n])
  <2>1. CASE n \in 1 .. k
    BY <1>3, <2>1 DEF InPairs
  <2>2. ASSUME NEW j \in 1 .. m, n = k + j PROVE ~ Ends(u[2 * n - 1]) /\ Ends(u[2 * n])
    BY <1>4, <2>2 DEF InPairs
  <2> QED
    BY <1>5, <2>1, <2>2
<1>7. k + m \in Nat /\ InPairs(u, k + m)
  BY <1>2, <1>6 DEF InPairs
<1>8. PICK v \in Seq(P), w \in Seq(P), x \in Seq(P) :
        /\ v = Whole(s) /\ w = Whole(t) /\ x = Whole(u)
        /\ Len(v) = k /\ Len(w) = m /\ Len(x) = k + m
        /\ \A n \in 1 .. k : v[n] = s[2 * n - 1]
        /\ \A n \in 1 .. m : w[n] = t[2 * n - 1]
        /\ \A n \in 1 .. k + m : x[n] = u[2 * n - 1]
  BY <1>7, WholeIs
<1>9. PICK y \in Seq(P) :
        /\ y = v \o w /\ Len(y) = k + m
        /\ \A n \in 1 .. k : y[n] = v[n]
        /\ \A n \in 1 .. m : y[k + n] = w[n]
  <2>1. /\ v \o w \in Seq(P) /\ Len(v \o w) = Len(v) + Len(w)
        /\ \A n \in 1 .. Len(v) : (v \o w)[n] = v[n]
        /\ \A n \in 1 .. Len(w) : (v \o w)[Len(v) + n] = w[n]
    BY Concat
  <2> QED
    BY <1>8, <2>1
<1>10. ASSUME NEW n \in 1 .. k + m PROVE x[n] = y[n]
  <2>1. x[n] = u[2 * n - 1]
    BY <1>8
  <2>2. CASE n \in 1 .. k
    <3>1. y[n] = v[n] /\ v[n] = s[2 * n - 1]
      BY <1>8, <1>9, <2>2
    <3> QED
      BY <1>3, <2>1, <2>2, <3>1
  <2>3. ASSUME NEW j \in 1 .. m, n = k + j PROVE x[n] = y[n]
    <3>1. y[k + j] = w[j] /\ w[j] = t[2 * j - 1]
      BY <1>8, <1>9
    <3>2. u[2 * (k + j) - 1] = t[2 * j - 1]
      BY <1>4
    <3> QED
      BY <2>1, <2>3, <3>1, <3>2
  <2> QED
    BY <1>5, <2>2, <2>3
<1>11. x = y
  BY <1>8, <1>9, <1>10, SameSequence
<1> QED
  BY <1>1, <1>7, <1>8, <1>9, <1>11

\* The first line of some is the first request.
LEMMA FirstPair ==
  ASSUME NEW P, NEW s \in Seq(P), NEW k \in Nat, InPairs(s, k), s # <<>>
  PROVE  \E r \in Seq(P), m \in Nat :
           /\ r = AfterFirstLine(s) /\ InPairs(r, m)
           /\ KindOf(FirstLine(s)) = s[1].cmd
           /\ s[1] \in P /\ ~ Ends(s[1])
           /\ Whole(s) = <<s[1]>> \o Whole(r)
<1>1. k >= 1 /\ Len(s) = 2 * k /\ ~ Ends(s[1]) /\ Ends(s[2])
  <2>1. Len(s) = 2 * k /\ Len(s) # 0
    BY DEF InPairs
  <2>2. 1 \in 1 .. k /\ 2 * 1 - 1 = 1 /\ 2 * 1 = 2
    BY <2>1
  <2> QED
    BY <2>1, <2>2 DEF InPairs
<1>2. FirstEnd(s) = 2
  <2>1. 2 \in DOMAIN s /\ \A m \in 1 .. 2 - 1 : m = 1
    BY <1>1
  <2>2. Ends(s[2]) /\ \A m \in 1 .. 2 - 1 : ~ Ends(s[m])
    BY <1>1, <2>1
  <2>3. ASSUME NEW n \in DOMAIN s, Ends(s[n]), \A m \in 1 .. n - 1 : ~ Ends(s[m])
        PROVE  n = 2
    <3>1. n \in 1 .. Len(s) /\ n # 1
      BY <1>1, <2>3
    <3>2. ~ (2 \in 1 .. n - 1)
      BY <1>1, <2>3
    <3> QED
      BY <3>1, <3>2
  <2> QED
    BY <2>1, <2>2, <2>3 DEF FirstEnd
<1>3. PICK a \in P, b \in P : a = s[1] /\ b = s[2]
  BY <1>1
<1>4. PICK l \in Seq(P), r \in Seq(P) : l = SubSeq(s, 1, 2) /\ r = SubSeq(s, 3, Len(s))
  <2>1. PICK j \in Nat : j = Len(s) /\ j >= 2
    BY <1>1
  <2>2. SubSeq(s, 1, 2) \in Seq(P)
    <3>1. \A n \in 1 .. 2 : s[n] \in P
      BY <2>1
    <3> QED
      BY <3>1
  <2>3. SubSeq(s, 3, j) \in Seq(P)
    BY <2>1
  <2> QED
    BY <2>1, <2>2, <2>3
<1>5. l = <<a, b>> /\ l = FirstLine(s) /\ r = AfterFirstLine(s)
  <2>1. 2 + 1 = 3
    OBVIOUS
  <2>2. l = FirstLine(s) /\ r = AfterFirstLine(s)
    BY <1>2, <1>4, <2>1 DEF FirstLine, AfterFirstLine
  <2>3. l[1] = a /\ l[2] = b /\ Len(l) = 2
    BY <1>1, <1>3, <1>4
  <2> QED
    BY <2>2, <2>3
<1>6. s = l \o r
  <2>1. Ends(Last(s))
    <3>1. k \in 1 .. k
      BY <1>1
    <3> QED
      BY <1>1, <3>1 DEF InPairs, Last
  <2> QED
    BY <1>5, <2>1, LineAndRest
<1>7. PICK m \in Nat : k = m + 1
  <2>1. k - 1 \in Nat /\ k = (k - 1) + 1
    BY <1>1
  <2> QED
    BY <2>1
<1>8. InPairs(r, m)
  <2>1. Len(r) = 2 * m /\ \A n \in 1 .. 2 * m : r[n] = s[2 + n]
    BY <1>1, <1>4, <1>7
  <2>2. ASSUME NEW n \in 1 .. m PROVE ~ Ends(r[2 * n - 1]) /\ Ends(r[2 * n])
    <3>1. /\ 2 * n - 1 \in 1 .. 2 * m /\ 2 * n \in 1 .. 2 * m
          /\ 2 + (2 * n - 1) = 2 * (n + 1) - 1 /\ 2 + 2 * n = 2 * (n + 1)
          /\ n + 1 \in 1 .. k
      BY <1>7
    <3>2. ~ Ends(s[2 * (n + 1) - 1]) /\ Ends(s[2 * (n + 1)])
      BY <3>1 DEF InPairs
    <3> QED
      BY <2>1, <3>1, <3>2
  <2> QED
    BY <2>1, <2>2 DEF InPairs
<1>9. InPairs(<<a, b>>, 1) /\ Whole(<<a, b>>) = <<a>>
  BY <1>1, <1>3, OnePair
<1>10. Whole(s) = <<a>> \o Whole(r)
  <2>1. InPairs(l, 1) /\ Whole(l) = <<a>>
    BY <1>5, <1>9
  <2>2. Whole(l \o r) = Whole(l) \o Whole(r)
    BY <1>8, <2>1, PairsConcat
  <2> QED
    BY <1>6, <2>1, <2>2
<1>11. KindOf(l) = a.cmd
  BY <1>5 DEF KindOf
<1> QED
  BY <1>1, <1>3, <1>5, <1>8, <1>10, <1>11

-----------------------------------------------------------------------------
(* What Lines sees *)

Queue == [p \in Peers |-> Whole(Way(p))]
Phases == [p \in Peers |-> Phase(p)]

LEMMA SameSeen ==
  ASSUME UNCHANGED <<Queue, Phases, hungUp, ServerPhase>> PROVE UNCHANGED Serves!vars
  BY DEF Serves!vars, Queue, Phases

LEMMA ToSubmit ==
  ASSUME NEW p \in Peers, NEW l \in Heads, ServerPhase \in {"up", "stopping"},
         Phases[p] # "gone", p \notin hungUp,
         Queue' = [Queue EXCEPT ![p] = Append(@, l)],
         UNCHANGED <<Phases, hungUp, ServerPhase>>
  PROVE  Serves!Submit(p, l)
  BY DEF Serves!Submit, Serves!Alive, Queue, Phases

LEMMA ToHangUp ==
  ASSUME NEW p \in Peers, ServerPhase \in {"up", "stopping"},
         Phases[p] # "gone", p \notin hungUp, hungUp' = hungUp \cup {p},
         NEW n \in 0 .. Len(Queue[p]), Queue' = [Queue EXCEPT ![p] = SubSeq(@, 1, n)],
         UNCHANGED <<Phases, ServerPhase>>
  PROVE  Serves!HangUp(p)
  BY DEF Serves!HangUp, Serves!Alive, Queue, Phases

LEMMA ToAdmit ==
  ASSUME NEW p \in Peers, ServerPhase \in {"up", "stopping"}, Phases[p] = "out",
         \/ Phases' = [Phases EXCEPT ![p] = "in"] /\ Queue' = Queue
         \/ Phases' = [Phases EXCEPT ![p] = "gone"] /\ Queue' = [Queue EXCEPT ![p] = <<>>],
         UNCHANGED <<hungUp, ServerPhase>>
  PROVE  Serves!Admit(p)
  BY DEF Serves!Admit, Serves!Alive, Queue, Phases

LEMMA ToTake ==
  ASSUME NEW p \in Peers, ServerPhase \in {"up", "stopping"}, Phases[p] = "in",
         Queue[p] # <<>>, Head(Queue[p]) \in Heads, Head(Queue[p]).cmd # "QUIT",
         Queue' = [Queue EXCEPT ![p] = Tail(@)],
         \/ UNCHANGED ServerPhase
         \/ Head(Queue[p]).cmd = "POWEROFF" /\ ServerPhase' = "stopping",
         UNCHANGED <<Phases, hungUp>>
  PROVE  Serves!Take(p)
  BY DEF Serves!Take, Serves!Alive, Queue, Phases

LEMMA ToQuit ==
  ASSUME NEW p \in Peers, ServerPhase \in {"up", "stopping"}, Phases[p] = "in",
         Queue[p] # <<>>, Head(Queue[p]) \in Heads, Head(Queue[p]).cmd = "QUIT",
         NEW n \in 0 .. Len(Queue[p]) - 1, Queue' = [Queue EXCEPT ![p] = SubSeq(@, 2, n + 1)],
         Phases' = [Phases EXCEPT ![p] = "gone"],
         UNCHANGED <<ServerPhase, hungUp>>
  PROVE  Serves!Take(p)
  BY DEF Serves!Take, Serves!Alive, Queue, Phases

LEMMA ToDrop ==
  ASSUME NEW p \in Peers, ServerPhase \in {"up", "stopping"}, Phases[p] = "in",
         p \in hungUp \/ Len(Queue[p]) >= (Limit + 1) \div 2 \/ ServerPhase = "stopping",
         Phases' = [Phases EXCEPT ![p] = "gone"], Queue' = [Queue EXCEPT ![p] = <<>>],
         UNCHANGED <<ServerPhase, hungUp>>
  PROVE  Serves!Drop(p)
  BY DEF Serves!Drop, Serves!Alive, Queue, Phases

LEMMA ToStop ==
  ASSUME ServerPhase = "up", ServerPhase' = "stopping", UNCHANGED <<Queue, Phases, hungUp>>
  PROVE  Serves!Stop
  BY DEF Serves!Stop, Queue, Phases

LEMMA ToFinish ==
  ASSUME ServerPhase = "stopping", \A p \in Peers : Phases[p] # "in",
         ServerPhase' = "down", UNCHANGED <<Queue, Phases, hungUp>>
  PROVE  Serves!Finish
  BY DEF Serves!Finish, Queue, Phases

LEMMA ToCrash ==
  ASSUME ServerPhase \in {"up", "stopping"}, NEW p \in Peers, Phases[p] = "gone",
         Queue[p] # <<>>, ServerPhase' = "crashed", UNCHANGED <<Queue, Phases, hungUp>>
  PROVE  Serves!Crash
  BY DEF Serves!Crash, Serves!Alive, Queue, Phases

\* One peer's lines or phase change and the others' do not.
LEMMA QueueOf ==
  ASSUME NEW p \in Peers, NEW x, Whole(Way(p))' = x,
         \A q \in Peers : q # p => Way(q)' = Way(q)
  PROVE  Queue' = [Queue EXCEPT ![p] = x]
  BY DEF Queue

LEMMA PhasesOf ==
  ASSUME NEW p \in Peers, NEW x, Phase(p)' = x,
         \A q \in Peers : q # p => Phase(q)' = Phase(q)
  PROVE  Phases' = [Phases EXCEPT ![p] = x]
  BY DEF Phases

LEMMA PhaseIs ==
  ASSUME NEW p
  PROVE  Phase(p) = IF IsServed(p) THEN "in" ELSE IF Left(p) THEN "gone" ELSE "out"
  BY DEF Phase, Left

LEMMA StaysUp ==
  ASSUME pc \notin {"fault", "done"}, pc' \notin {"fault", "done"}, stop' = stop,
         pc' = "closing" <=> pc = "closing"
  PROVE  ServerPhase \in {"up", "stopping"} /\ UNCHANGED ServerPhase
  BY DEF ServerPhase, Running

-----------------------------------------------------------------------------
(* Whose lines are at hand *)

WholeLines(p) == {s \in Seq(Own(p)) : \E k \in Nat : InPairs(s, k)}

\* The lines at hand are those of p, which is served or has been.
OneSender(p) ==
  /\ lines \in WholeLines(p)
  /\ IF cur \in users THEN sock[cur] = p ELSE Left(p)

\* Whoever sends whole lines is never in the middle of one, and a buffer holds
\* the lines of one client.
WholeInv ==
  /\ \A p \in Peers : inbox[p] \in WholeLines(p) /\ sent[p] % 2 = 0
  /\ pc \notin {"lines", "fault"} => buf = <<>>
  /\ pc \in {"lines", "fault"} => \E p \in Peers : OneSender(p)

LEMMA NoLines == \A p : <<>> \in WholeLines(p)
  BY NoPairs, NoPieces DEF WholeLines

LEMMA LinesTypes ==
  ASSUME NEW p, NEW s \in WholeLines(p) PROVE s \in Seq(Own(p)) /\ s \in Seq(Piece)
<1>1. s \in Seq(Own(p)) /\ Own(p) \subseteq Piece
  BY DEF WholeLines, Own
<1> QED
  BY <1>1, SubsetSeq

LEMMA LinesConcat ==
  ASSUME NEW p, NEW s \in WholeLines(p), NEW t \in WholeLines(p)
  PROVE  /\ s \o t \in WholeLines(p)
         /\ Whole(s \o t) = Whole(s) \o Whole(t)
         /\ Whole(s) \in Seq(Own(p)) /\ Whole(t) \in Seq(Own(p))
<1>1. PICK P : P = Own(p)
  OBVIOUS
<1>2. PICK k \in Nat, m \in Nat : InPairs(s, k) /\ InPairs(t, m)
  BY DEF WholeLines
<1>3. s \in Seq(P) /\ t \in Seq(P)
  BY <1>1 DEF WholeLines
<1>4. s \o t \in Seq(P) /\ InPairs(s \o t, k + m) /\ Whole(s \o t) = Whole(s) \o Whole(t)
  BY <1>2, <1>3, PairsConcat
<1>5. k + m \in Nat
  OBVIOUS
<1>6. Whole(s) \in Seq(P) /\ Whole(t) \in Seq(P)
  BY <1>2, <1>3, WholeIs
<1> QED
  BY <1>1, <1>4, <1>5, <1>6 DEF WholeLines

\* A peer's own part of the lines s of peer p.
LEMMA PartOf ==
  ASSUME NEW p, NEW s \in WholeLines(p), NEW q
  PROVE  From(q, s) = IF q = p THEN s ELSE <<>>
<1>1. \A b \in Own(p) : b.from = p
  BY DEF Own
<1>2. s \in Seq(Own(p))
  BY DEF WholeLines
<1> QED
  BY <1>1, <1>2, FromOne

\* What is on the way when s is in hand and z in the kernel.
LEMMA WayWith ==
  ASSUME NEW p, NEW s \in WholeLines(p), NEW q, NEW z \in WholeLines(q)
  PROVE  From(q, s) \o z = IF q = p THEN s \o z ELSE z
<1>1. From(q, s) = IF q = p THEN s ELSE <<>>
  BY PartOf
<1>2. <<>> \o z = z
  <2>1. z \in Seq(Piece)
    BY LinesTypes
  <2> QED
    BY <2>1
<1> QED
  BY <1>1, <1>2

\* In between there is nothing in hand.
LEMMA WayWithNothing == ASSUME NEW q, NEW z \in WholeLines(q) PROVE From(q, <<>>) \o z = z
<1>1. <<>> \in WholeLines(q)
  BY NoLines
<1>2. <<>> \o z = z
  <2>1. z \in Seq(Piece)
    BY LinesTypes
  <2> QED
    BY <2>1
<1>3. From(q, <<>>) = <<>>
  BY FromEmpty
<1> QED
  BY <1>2, <1>3

LEMMA Between ==
  ASSUME WholeInv, pc \notin {"lines", "fault"}
  PROVE  /\ buf = <<>> /\ InHand = <<>>
         /\ \A q \in Peers : Way(q) = inbox[q]
<1>1. buf = <<>> /\ InHand = <<>>
  BY DEF WholeInv, InHand
<1>2. ASSUME NEW q \in Peers PROVE Way(q) = inbox[q]
  <2>1. inbox[q] \in WholeLines(q)
    BY DEF WholeInv
  <2> QED
    BY <1>1, <2>1, WayWithNothing DEF Way
<1> QED
  BY <1>1, <1>2

LEMMA WhileLines ==
  ASSUME WholeInv, pc \in {"lines", "fault"}, NEW p \in Peers, OneSender(p)
  PROVE  \A q \in Peers : Way(q) = IF q = p THEN lines \o inbox[p] ELSE inbox[q]
<1>1. lines \in WholeLines(p) /\ InHand = lines
  BY DEF OneSender, InHand
<1>2. ASSUME NEW q \in Peers PROVE Way(q) = IF q = p THEN lines \o inbox[p] ELSE inbox[q]
  <2>1. inbox[q] \in WholeLines(q)
    BY DEF WholeInv
  <2>2. From(q, lines) \o inbox[q] = IF q = p THEN lines \o inbox[q] ELSE inbox[q]
    <3>1. PICK s \in WholeLines(p), z \in WholeLines(q) : s = lines /\ z = inbox[q]
      BY <1>1, <2>1
    <3>2. From(q, s) \o z = IF q = p THEN s \o z ELSE z
      BY WayWith
    <3> QED
      BY <3>1, <3>2
  <2>3. Way(q) = From(q, lines) \o inbox[q]
    BY <1>1 DEF Way
  <2> QED
    BY <2>2, <2>3
<1> QED
  BY <1>2

\* What is on its way is what is in hand, then what the kernel has: whole lines.
LEMMA OnTheWay ==
  ASSUME WholeInv, NEW q \in Peers
  PROVE  From(q, InHand) \in WholeLines(q)
<1>1. CASE pc \notin {"lines", "fault"}
  BY <1>1, Between, FromEmpty, NoLines
<1>2. CASE pc \in {"lines", "fault"}
  <2>1. PICK p \in Peers : lines \in WholeLines(p)
    BY <1>2 DEF WholeInv, OneSender
  <2>2. InHand = lines
    BY <1>2 DEF InHand
  <2> QED
    BY <2>1, <2>2, PartOf, NoLines
<1> QED
  BY <1>1, <1>2

-----------------------------------------------------------------------------
(* Steps that only the server notices *)

LEMMA Unseen ==
  ASSUME WholeInv, UNCHANGED <<env, sock, users, cur, buf, lines>>,
         pc' = pc \/ (pc \notin {"lines", "fault"} /\ pc' \notin {"lines", "fault"})
  PROVE  WholeInv' /\ UNCHANGED <<Queue, Phases, hungUp>>
<1>1. InHand' = InHand
  BY DEF InHand, WholeInv
<1>2. \A p \in Peers : Phase(p)' = Phase(p) /\ Left(p)' = Left(p)
  BY DEF Phase, Left, IsServed, env
<1>3. \A p \in Peers : OneSender(p)' <=> OneSender(p)
  BY <1>2 DEF OneSender
<1>4. WholeInv'
  BY <1>3 DEF WholeInv, env
<1>5. UNCHANGED Queue
  BY <1>1 DEF Queue, Way, env
<1> QED
  BY <1>2, <1>4, <1>5 DEF Phases, env

LEMMA SignalServes ==
  ASSUME WholeInv, Signal PROVE WholeInv' /\ (Serves!Stop \/ UNCHANGED Serves!vars)
<1>1. /\ UNCHANGED <<env, sock, users, cur, buf, lines>>
      /\ pc' = pc \/ (pc = "poll" /\ pc' = "scan")
      /\ stop' /\ pc \notin {"done", "fault"}
  BY DEF Signal, Scan, Running
<1>2. WholeInv' /\ UNCHANGED <<Queue, Phases, hungUp>>
  BY <1>1, Unseen
<1>3. ServerPhase' = "stopping" /\ ServerPhase \in {"up", "stopping"}
  BY <1>1 DEF ServerPhase, Running
<1> QED
  BY <1>2, <1>3, ToStop, SameSeen

LEMMA WaitingServes ==
  ASSUME WholeInv, Test \/ PollReady \/ PollTimesOut \/ EndScan \/ NotReady
  PROVE  WholeInv' /\ UNCHANGED Serves!vars
<1>1. /\ UNCHANGED <<env, sock, users, cur, buf, lines, stop>>
      /\ pc \in {"test", "poll", "scan"}
      /\ \/ pc' \in {"test", "poll", "scan"}
         \/ pc' = "closing" /\ stop
  BY DEF Test, PollReady, PollTimesOut, EndScan, NotReady, Scan, tables
<1>2. WholeInv' /\ UNCHANGED <<Queue, Phases, hungUp>>
  BY <1>1, Unseen
<1>3. UNCHANGED ServerPhase
  BY <1>1 DEF ServerPhase, Running
<1> QED
  BY <1>2, <1>3, SameSeen

LEMMA PollFailsServes == ASSUME WholeInv, PollFails PROVE WholeInv' /\ Serves!Stop
<1>1. /\ UNCHANGED <<env, sock, users, cur, buf, lines, stop>>
      /\ pc = "poll" /\ ~ stop /\ pc' = "closing"
  BY DEF PollFails, tables
<1>2. WholeInv' /\ UNCHANGED <<Queue, Phases, hungUp>>
  BY <1>1, Unseen
<1>3. ServerPhase = "up" /\ ServerPhase' = "stopping"
  BY <1>1 DEF ServerPhase, Running
<1> QED
  BY <1>2, <1>3, ToStop

LEMMA CloseDoneServes ==
  ASSUME LinesInv, WholeInv, CloseDone PROVE WholeInv' /\ Serves!Finish
<1>1. /\ UNCHANGED <<env, sock, users, cur, buf, lines, stop>>
      /\ pc = "closing" /\ pc' = "done" /\ users = {}
  BY DEF CloseDone, tables
<1>2. WholeInv' /\ UNCHANGED <<Queue, Phases, hungUp>>
  BY <1>1, Unseen
<1>3. ServerPhase = "stopping" /\ ServerPhase' = "down"
  BY <1>1 DEF ServerPhase, Running
<1>4. \A f \in Fds : sock[f] = Nobody
  BY <1>1 DEF LinesInv, TablesInv, TablesAgree
<1>5. \A p \in Peers : ~ IsServed(p)
  BY <1>4, PeersAssumption DEF IsServed
<1>6. \A p \in Peers : Phases[p] # "in"
  BY <1>5 DEF Phases, Phase
<1> QED
  BY <1>2, <1>3, <1>6, ToFinish

LEMMA ForDeletedServes ==
  ASSUME WholeInv, ExecuteForDeleted PROVE WholeInv' /\ Serves!Crash
<1>1. /\ UNCHANGED <<env, sock, users, cur, buf, lines, stop>>
      /\ pc = "lines" /\ pc' = "fault" /\ lines # <<>> /\ cur \notin users
  BY DEF ExecuteForDeleted, tables
<1>2. PICK p \in Peers : OneSender(p)
  BY <1>1 DEF WholeInv
<1>3. \A q \in Peers : Phase(q)' = Phase(q) /\ Left(q)' = Left(q)
  BY <1>1 DEF Phase, Left, IsServed, env
<1>4. \A q \in Peers : OneSender(q)' <=> OneSender(q)
  BY <1>1, <1>3 DEF OneSender
<1>5. WholeInv'
  BY <1>1, <1>2, <1>4 DEF WholeInv, env
<1>6. InHand' = InHand
  BY <1>1 DEF InHand
<1>7. UNCHANGED <<Queue, Phases, hungUp>>
  BY <1>1, <1>3, <1>6 DEF Queue, Way, Phases, env
<1>8. Phases[p] = "gone"
  BY <1>1, <1>2 DEF Phases, Phase, OneSender, Left
<1>9. Queue[p] # <<>>
  <2>1. lines \in WholeLines(p) /\ inbox[p] \in WholeLines(p)
    BY <1>2 DEF OneSender, WholeInv
  <2>2. Way(p) = lines \o inbox[p]
    BY <1>1, <1>2, WhileLines
  <2>3. /\ Whole(lines \o inbox[p]) = Whole(lines) \o Whole(inbox[p])
        /\ Whole(lines) \in Seq(Own(p)) /\ Whole(inbox[p]) \in Seq(Own(p))
    BY <2>1, LinesConcat
  <2>4. PICK k \in Nat : InPairs(lines, k) /\ lines \in Seq(Own(p))
    BY <2>1 DEF WholeLines
  <2>5. Len(Whole(lines)) = k /\ k # 0
    <3>1. Len(lines) = 2 * k /\ Len(lines) # 0
      BY <1>1, <2>4 DEF InPairs
    <3> QED
      BY <2>4, <3>1, WholeIs
  <2>6. Whole(lines) \o Whole(inbox[p]) # <<>>
    BY <2>3, <2>5, Concat
  <2> QED
    BY <2>2, <2>3, <2>6 DEF Queue
<1>10. ServerPhase \in {"up", "stopping"} /\ ServerPhase' = "crashed"
  BY <1>1 DEF ServerPhase, Running
<1> QED
  BY <1>5, <1>7, <1>8, <1>9, <1>10, ToCrash

LEMMA LinesDoneServes ==
  ASSUME WholeInv, LinesDone PROVE WholeInv' /\ UNCHANGED Serves!vars
<1>1. /\ UNCHANGED <<env, sock, users, lines, stop>>
      /\ pc = "lines" /\ pc' = "scan" /\ lines = <<>> /\ buf' = <<>>
  BY DEF LinesDone, BufferAfter, tables
<1>2. \A q \in Peers : Phase(q)' = Phase(q)
  BY <1>1 DEF Phase, Left, IsServed, env
<1>3. InHand = <<>> /\ InHand' = <<>>
  BY <1>1 DEF InHand
<1>4. WholeInv'
  BY <1>1 DEF WholeInv, env
<1>5. UNCHANGED <<Queue, Phases, hungUp>>
  BY <1>1, <1>2, <1>3 DEF Queue, Way, Phases, env
<1>6. UNCHANGED ServerPhase
  BY <1>1 DEF ServerPhase, Running
<1> QED
  BY <1>4, <1>5, <1>6, SameSeen

-----------------------------------------------------------------------------
(* Clients, as Lines sees them *)

LEMMA ContainsAppend ==
  ASSUME NEW P, NEW s \in Seq(P), NEW x \in P, NEW y
  PROVE  Contains(Append(s, x), y) <=> Contains(s, y) \/ y = x
<1>1. PICK n \in Nat : n = Len(s)
  OBVIOUS
<1> DEFINE t == Append(s, x)
<1>2. /\ Len(t) = n + 1 /\ t[n + 1] = x
      /\ \A k \in 1 .. n : t[k] = s[k]
  BY <1>1, Append1
<1> HIDE DEF t
<1>3. \A k \in 1 .. n + 1 : k \in 1 .. n \/ k = n + 1
  OBVIOUS
<1>4. n + 1 \in 1 .. n + 1 /\ \A k \in 1 .. n : k \in 1 .. n + 1
  OBVIOUS
<1>5. Contains(t, y) <=> \E k \in 1 .. n + 1 : t[k] = y
  BY <1>2 DEF Contains
<1>6. Contains(s, y) <=> \E k \in 1 .. n : s[k] = y
  BY <1>1 DEF Contains
<1> QED
  BY <1>2, <1>3, <1>4, <1>5, <1>6 DEF t

\* The first one is taken out of different ones.
LEMMA ContainsTail ==
  ASSUME NEW P, NEW s \in Seq(P), s # <<>>, NEW y,
         \A m, n \in 1 .. Len(s) : s[m] = s[n] => m = n
  PROVE  /\ Contains(s, Head(s)) /\ Head(s) \in P
         /\ Contains(Tail(s), y) <=> Contains(s, y) /\ y # Head(s)
<1>1. PICK n \in Nat : Len(s) = n + 1
  <2>1. Len(s) \in Nat /\ Len(s) # 0
    OBVIOUS
  <2>2. Len(s) - 1 \in Nat /\ Len(s) = (Len(s) - 1) + 1
    BY <2>1
  <2> QED
    BY <2>2
<1> DEFINE t == Tail(s)
<1>2. Len(t) = n /\ \A k \in 1 .. n : t[k] = s[k + 1]
  BY <1>1
<1> HIDE DEF t
<1>3. Head(s) = s[1] /\ s[1] \in P /\ 1 \in 1 .. n + 1
  BY <1>1
<1>4. \A k \in 1 .. n + 1 : k = 1 \/ (k - 1 \in 1 .. n /\ k = (k - 1) + 1)
  OBVIOUS
<1>5. \A k \in 1 .. n : k + 1 \in 1 .. n + 1 /\ k + 1 # 1
  OBVIOUS
<1>6. Contains(s, y) <=> \E k \in 1 .. n + 1 : s[k] = y
  BY <1>1 DEF Contains
<1>7. Contains(t, y) <=> \E k \in 1 .. n : t[k] = y
  BY <1>2 DEF Contains
<1>8. Contains(s, Head(s))
  BY <1>1, <1>3 DEF Contains
<1>9. Contains(t, y) => Contains(s, y) /\ y # Head(s)
  BY <1>1, <1>2, <1>3, <1>5, <1>6, <1>7
<1>10. Contains(s, y) /\ y # Head(s) => Contains(t, y)
  <2>1. ASSUME NEW k \in 1 .. n + 1, s[k] = y, y # Head(s) PROVE Contains(t, y)
    <3>1. k - 1 \in 1 .. n /\ k = (k - 1) + 1
      BY <1>3, <1>4, <2>1
    <3>2. t[k - 1] = y
      BY <1>2, <2>1, <3>1
    <3> QED
      BY <1>7, <3>1, <3>2
  <2> QED
    BY <1>6, <2>1
<1> QED
  BY <1>3, <1>8, <1>9, <1>10 DEF t

LEMMA DialServes ==
  ASSUME LinesInv, WholeInv, NEW p \in Peers, Dial(p)
  PROVE  WholeInv' /\ UNCHANGED Serves!vars
<1>1. /\ UNCHANGED <<hungUp, inbox, sent, sock, users, cur, buf, lines, stop, pc>>
      /\ p \notin dialed /\ dialed' = dialed \cup {p} /\ backlog' = Append(backlog, p)
  BY DEF Dial, tables, loop
<1>2. \A q \in Peers : IsServed(q)' = IsServed(q)
  BY <1>1 DEF IsServed
<1>3. \A q \in Peers : Contains(backlog, q)' <=> Contains(backlog, q) \/ q = p
  <2>1. backlog \in Seq(Peers)
    BY DEF LinesInv, TablesInv, Shape
  <2> QED
    BY <1>1, <2>1, ContainsAppend
<1>4. \A q \in Peers : Left(q)' <=> Left(q)
  BY <1>1, <1>2, <1>3 DEF Left
<1>5. \A q \in Peers : OneSender(q)' <=> OneSender(q)
  BY <1>1, <1>4 DEF OneSender
<1>6. WholeInv'
  BY <1>1, <1>5 DEF WholeInv
<1>7. UNCHANGED <<Queue, Phases, hungUp>>
  <2>1. \A q \in Peers : Phase(q)' = Phase(q)
    BY <1>2, <1>4, PhaseIs DEF Phase
  <2>2. InHand' = InHand
    BY <1>1 DEF InHand
  <2> QED
    BY <1>1, <2>1, <2>2 DEF Queue, Way, Phases
<1>8. UNCHANGED ServerPhase
  BY <1>1 DEF ServerPhase, Running
<1> QED
  BY <1>6, <1>7, <1>8, SameSeen

\* A client that can send is not gone.
LEMMA SenderIsThere ==
  ASSUME NEW p \in Peers, CanSend(p)
  PROVE  /\ Phases[p] # "gone" /\ p \notin hungUp
         /\ ServerPhase \in {"up", "stopping"} /\ pc \notin {"done", "fault"}
  BY PhaseIs DEF CanSend, Phases, Left, ServerPhase, Running

\* Steps of clients that are connected.
LEMMA ClientSees ==
  ASSUME LinesInv, WholeInv, NEW p \in Peers, NEW z \in WholeLines(p),
         inbox' = [inbox EXCEPT ![p] = z], sent'[p] % 2 = 0,
         \A q \in Peers : q # p => sent'[q] = sent[q],
         UNCHANGED <<dialed, backlog, tables, loop>>
  PROVE  /\ WholeInv'
         /\ \A q \in Peers : Way(q)' = IF q = p THEN From(p, InHand) \o z ELSE Way(q)
         /\ UNCHANGED <<Phases, ServerPhase>>
<1>1. UNCHANGED <<dialed, backlog, sock, users, cur, buf, lines, stop, pc>>
  BY DEF tables, loop
<1>2. \A q \in Peers : inbox'[q] = IF q = p THEN z ELSE inbox[q]
  BY DEF LinesInv, TablesInv, Shape
<1>3. \A q \in Peers : Phase(q)' = Phase(q) /\ Left(q)' = Left(q)
  BY <1>1 DEF Phase, Left, IsServed
<1>4. \A q \in Peers : OneSender(q)' <=> OneSender(q)
  BY <1>1, <1>3 DEF OneSender
<1>5. \A q \in Peers : inbox'[q] \in WholeLines(q) /\ sent'[q] % 2 = 0
  BY <1>2 DEF WholeInv
<1>6. WholeInv'
  BY <1>1, <1>4, <1>5 DEF WholeInv
<1>7. InHand' = InHand
  BY <1>1 DEF InHand
<1>8. \A q \in Peers : Way(q)' = IF q = p THEN From(p, InHand) \o z ELSE Way(q)
  BY <1>2, <1>7 DEF Way
<1> QED
  BY <1>1, <1>3, <1>6, <1>8 DEF Phases, ServerPhase, Running

\* The two pieces of a line.
LEMMA NewLine ==
  ASSUME LinesInv, WholeInv, NEW p \in Peers, NEW k \in Kinds, SendLine(p, k)
  PROVE  \E x \in Own(p), y \in Own(p) :
           /\ ~ Ends(x) /\ Ends(y)
           /\ inbox' = [inbox EXCEPT ![p] = @ \o <<x, y>>]
           /\ sent'[p] % 2 = 0
           /\ \A q \in Peers : q # p => sent'[q] = sent[q]
<1> DEFINE a == NextPiece(p, 0, k)
           b == NextPiece(p, 1, "OTHER")
<1>1. PICK m \in Nat, n \in Nat : m = Modulus(p) /\ n = sent[p]
  BY ModulusType DEF LinesInv, LinesShape
<1>2. m % 2 = 0 /\ n % 2 = 0 /\ n < m
  BY <1>1, ModulusType DEF LinesInv, LinesShape, WholeInv
<1>3. (n + 1) % m = n + 1 /\ (n + 1) % 2 = 1 /\ ((n + 2) % m) % 2 = 0
  BY <1>2, EvenNumbers
<1>4. (n + 0) % m = n
  <2>1. n + 0 = n /\ n \in 0 .. m - 1
    BY <1>2
  <2> QED
    BY <1>2, <2>1
<1>5. a \in Own(p) /\ b \in Own(p)
  BY <1>1, OwnPiece
<1>6. a.num = (n + 0) % m /\ b.num = (n + 1) % m
  BY <1>1 DEF NextPiece
<1>7. ~ Ends(a) /\ Ends(b)
  BY <1>2, <1>3, <1>4, <1>6 DEF Ends
<1>8. Send(p, <<a, b>>)
  BY DEF SendLine
<1> HIDE DEF a, b
<1>9. Len(<<a, b>>) = 2
  OBVIOUS
<1>10. /\ inbox' = [inbox EXCEPT ![p] = @ \o <<a, b>>]
       /\ sent' = [sent EXCEPT ![p] = (@ + 2) % Modulus(p)]
  BY <1>8, <1>9 DEF Send
<1>11. sent'[p] = (n + 2) % m /\ \A q \in Peers : q # p => sent'[q] = sent[q]
  BY <1>1, <1>10 DEF LinesInv, LinesShape
<1> QED
  BY <1>3, <1>5, <1>7, <1>10, <1>11

LEMMA SendLineServes ==
  ASSUME LinesInv, WholeInv, NEW p \in Peers, NEW k \in Kinds, SendLine(p, k)
  PROVE  WholeInv' /\ \E l \in Heads : Serves!Submit(p, l)
<1>1. PICK x \in Own(p), y \in Own(p) :
        /\ ~ Ends(x) /\ Ends(y)
        /\ inbox' = [inbox EXCEPT ![p] = @ \o <<x, y>>]
        /\ sent'[p] % 2 = 0
        /\ \A q \in Peers : q # p => sent'[q] = sent[q]
  BY NewLine
<1>2. CanSend(p) /\ UNCHANGED <<dialed, hungUp, backlog, tables, loop>>
  BY DEF SendLine, Send
<1>3. PICK u \in WholeLines(p) : u = <<x, y>> /\ Whole(u) = <<x>>
  <2>1. <<x, y>> \in Seq(Own(p))
    OBVIOUS
  <2>2. InPairs(<<x, y>>, 1) /\ Whole(<<x, y>>) = <<x>>
    BY <1>1, OnePair
  <2> QED
    BY <2>1, <2>2 DEF WholeLines
<1>4. PICK h \in WholeLines(p), z \in WholeLines(p) : h = From(p, InHand) /\ z = inbox[p]
  BY OnTheWay DEF WholeInv
<1>5. PICK v \in WholeLines(p) : v = z \o u
  BY LinesConcat
<1>6. inbox' = [inbox EXCEPT ![p] = v]
  BY <1>1, <1>3, <1>4, <1>5
<1>7. /\ WholeInv'
      /\ \A q \in Peers : Way(q)' = IF q = p THEN From(p, InHand) \o v ELSE Way(q)
      /\ UNCHANGED <<Phases, ServerPhase>>
  BY <1>1, <1>2, <1>6, ClientSees
<1>8. PICK w \in WholeLines(p) : w = Way(p) /\ w = h \o z
  BY <1>4, LinesConcat DEF Way
<1>9. Way(p)' = w \o u
  <2>1. h \in Seq(Piece) /\ z \in Seq(Piece) /\ u \in Seq(Piece)
    BY LinesTypes
  <2>2. (h \o z) \o u = h \o (z \o u)
    BY <2>1, Associative
  <2> QED
    BY <1>4, <1>5, <1>7, <1>8, <2>2
<1>10. Whole(Way(p))' = Append(Queue[p], x)
  <2>1. Whole(w \o u) = Whole(w) \o <<x>> /\ Whole(w) \in Seq(Own(p))
    BY <1>3, LinesConcat
  <2>2. Whole(w) \o <<x>> = Append(Whole(w), x)
    BY <2>1
  <2>3. Queue[p] = Whole(w)
    BY <1>8 DEF Queue
  <2> QED
    BY <1>9, <2>1, <2>2, <2>3
<1>11. Queue' = [Queue EXCEPT ![p] = Append(@, x)]
  <2>1. PICK c : c = Append(Queue[p], x)
    OBVIOUS
  <2>2. Queue' = [Queue EXCEPT ![p] = c]
    BY <1>7, <1>10, <2>1, QueueOf
  <2> QED
    BY <2>1, <2>2
<1>12. x \in Heads
  BY <1>1 DEF Heads, Own
<1>13. Serves!Submit(p, x)
  BY <1>2, <1>7, <1>11, <1>12, SenderIsThere, ToSubmit
<1> QED
  BY <1>7, <1>12, <1>13

LEMMA HangUpServes ==
  ASSUME LinesInv, WholeInv, NEW p \in Peers, HangUp(p)
  PROVE  WholeInv' /\ Serves!HangUp(p)
<1>1. /\ CanSend(p) /\ hungUp' = hungUp \cup {p}
      /\ UNCHANGED <<dialed, backlog, sent, tables, loop>>
  BY DEF HangUp
<1>2. PICK h \in WholeLines(p), y \in WholeLines(p) : h = From(p, InHand) /\ y = inbox[p]
  BY OnTheWay DEF WholeInv
<1>3. PICK z \in WholeLines(p) : /\ inbox' = [inbox EXCEPT ![p] = z]
                                 /\ z = y \/ z = <<>>
  <2>1. CASE inbox' = inbox
    BY <1>2, <2>1 DEF LinesInv, TablesInv, Shape
  <2>2. CASE inbox' = [inbox EXCEPT ![p] = <<>>]
    BY <2>2, NoLines
  <2> QED
    BY <2>1, <2>2 DEF HangUp
<1>4. /\ WholeInv'
      /\ \A q \in Peers : Way(q)' = IF q = p THEN From(p, InHand) \o z ELSE Way(q)
      /\ UNCHANGED <<Phases, ServerPhase>>
  <2>1. sent'[p] % 2 = 0
    BY <1>1 DEF WholeInv
  <2> QED
    BY <1>1, <1>3, <2>1, ClientSees
<1>5. PICK v \in Seq(Own(p)), w \in Seq(Own(p)) :
        v = Whole(h) /\ w = Whole(y) /\ Queue[p] = v \o w
  <2>1. Way(p) = h \o y
    BY <1>2 DEF Way
  <2>2. Whole(h \o y) = Whole(h) \o Whole(y) /\ Whole(h) \in Seq(Own(p)) /\ Whole(y) \in Seq(Own(p))
    BY LinesConcat
  <2> QED
    BY <2>1, <2>2 DEF Queue
<1>6. PICK n \in 0 .. Len(v \o w) : Whole(Way(p))' = SubSeq(v \o w, 1, n)
  <2>1. PICK c \in Seq(Own(p)) :
          /\ c = v \o w /\ Len(c) = Len(v) + Len(w)
          /\ \A k \in 1 .. Len(v) : c[k] = v[k]
    <3>1. /\ v \o w \in Seq(Own(p)) /\ Len(v \o w) = Len(v) + Len(w)
          /\ \A k \in 1 .. Len(v) : (v \o w)[k] = v[k]
      BY Concat
    <3> QED
      BY <3>1
  <2>2. CASE z = y
    <3>1. Whole(Way(p))' = c
      BY <1>2, <1>4, <1>5, <2>1, <2>2 DEF Queue, Way
    <3>2. c = SubSeq(c, 1, Len(c)) /\ Len(c) \in 0 .. Len(c)
      OBVIOUS
    <3> QED
      BY <2>1, <3>1, <3>2
  <2>3. CASE z = <<>>
    <3>1. h \o <<>> = h
      <4>1. h \in Seq(Piece)
        BY LinesTypes
      <4> QED
        BY <4>1
    <3>2. Whole(Way(p))' = v
      BY <1>2, <1>4, <1>5, <2>3, <3>1
    <3>3. PICK l \in Nat : l = Len(v) /\ l \in 0 .. Len(c)
      BY <2>1
    <3>4. PICK d \in Seq(Own(p)) :
            d = SubSeq(c, 1, l) /\ Len(d) = l /\ \A k \in 1 .. l : d[k] = c[k]
      <4>1. l <= Len(c) /\ \A k \in 1 .. l : c[k] \in Own(p)
        BY <3>3
      <4>2. SubSeq(c, 1, l) \in Seq(Own(p)) /\ Len(SubSeq(c, 1, l)) = l
        BY <4>1
      <4>3. \A k \in 1 .. l : SubSeq(c, 1, l)[k] = c[k]
        BY <4>1
      <4> QED
        BY <4>2, <4>3
    <3>5. v = d
      BY <2>1, <3>3, <3>4, SameSequence
    <3> QED
      BY <2>1, <3>2, <3>3, <3>4, <3>5
  <2> QED
    BY <1>3, <2>2, <2>3
<1>7. Queue' = [Queue EXCEPT ![p] = SubSeq(@, 1, n)] /\ n \in 0 .. Len(Queue[p])
  <2>1. PICK c : c = SubSeq(v \o w, 1, n)
    OBVIOUS
  <2>2. Queue' = [Queue EXCEPT ![p] = c]
    BY <1>4, <1>6, <2>1, QueueOf
  <2> QED
    BY <1>5, <2>1, <2>2
<1>8. Serves!HangUp(p)
  BY <1>1, <1>4, <1>7, SenderIsThere, ToHangUp
<1> QED
  BY <1>4, <1>8

-----------------------------------------------------------------------------
(* The server, as Lines sees it *)

\* Steps between buffers that keep the buffer empty.
LEMMA BetweenStays ==
  ASSUME WholeInv, pc \notin {"lines", "fault"}, pc' \notin {"lines", "fault"},
         UNCHANGED <<buf, sent>>,
         \A q \in Peers : inbox'[q] = inbox[q] \/ inbox'[q] = <<>>
  PROVE  /\ WholeInv'
         /\ \A q \in Peers : Way(q) = inbox[q] /\ Way(q)' = inbox'[q]
<1>1. buf = <<>> /\ InHand' = <<>>
  BY DEF WholeInv, InHand
<1>2. \A q \in Peers : inbox'[q] \in WholeLines(q)
  BY NoLines DEF WholeInv
<1>3. WholeInv'
  BY <1>1, <1>2 DEF WholeInv
<1>4. \A q \in Peers : Way(q)' = inbox'[q]
  BY <1>1, <1>2, WayWithNothing DEF Way
<1> QED
  BY <1>3, <1>4, Between

LEMMA NothingWhole == Whole(<<>>) = <<>>
  BY NoPairs

\* The connection that waits first is admitted or not.
LEMMA FirstInBacklog ==
  ASSUME LinesInv, backlog # <<>>
  PROVE  /\ Head(backlog) \in Peers /\ Head(backlog) \in dialed
         /\ ~ IsServed(Head(backlog)) /\ Contains(backlog, Head(backlog))
         /\ \A q : Contains(Tail(backlog), q) <=> Contains(backlog, q) /\ q # Head(backlog)
<1>1. /\ backlog \in Seq(Peers)
      /\ \A m, n \in 1 .. Len(backlog) : backlog[m] = backlog[n] => m = n
  BY DEF LinesInv, TablesInv, Shape, Apart
<1>2. Contains(backlog, Head(backlog)) /\ Head(backlog) \in Peers
  BY <1>1, ContainsTail
<1>3. \A q : Contains(Tail(backlog), q) <=> Contains(backlog, q) /\ q # Head(backlog)
  BY <1>1, ContainsTail
<1>4. PICK n \in 1 .. Len(backlog) : backlog[n] = Head(backlog)
  BY <1>2 DEF Contains
<1>5. Head(backlog) \in dialed /\ ~ IsServed(Head(backlog))
  BY <1>2, <1>4, PeersAssumption DEF LinesInv, TablesInv, Apart, IsServed
<1> QED
  BY <1>2, <1>3, <1>5

LEMMA AcceptServes ==
  ASSUME LinesInv, WholeInv, Accept PROVE WholeInv' /\ \E p \in Peers : Serves!Admit(p)
<1>1. PICK f \in Fds :
        /\ sock[f] = Nobody /\ backlog # <<>> /\ pc = "scan"
        /\ sock' = [sock EXCEPT ![f] = Head(backlog)]
        /\ backlog' = Tail(backlog)
        /\ UNCHANGED <<dialed, hungUp, inbox, sent, cur, buf, lines, stop, pc>>
  BY DEF Accept, AtReady, LowestFree
<1>2. PICK p \in Peers : p = Head(backlog)
  BY <1>1, FirstInBacklog
<1>3. /\ p \in dialed /\ ~ IsServed(p) /\ Contains(backlog, p)
      /\ \A q : Contains(backlog, q)' <=> Contains(backlog, q) /\ q # p
  BY <1>1, <1>2, FirstInBacklog
<1>4. \A q \in Peers : IsServed(q)' <=> IsServed(q) \/ q = p
  <2>1. sock \in [Fds -> Peers \cup {Nobody}] /\ Nobody \notin Peers
    BY PeersAssumption DEF LinesInv, TablesInv, Shape
  <2>2. \A g \in Fds : sock'[g] = IF g = f THEN p ELSE sock[g]
    BY <1>1, <1>2, <2>1
  <2> QED
    BY <1>1, <2>1, <2>2 DEF IsServed
<1>5. Phases[p] = "out" /\ Phase(p)' = "in"
  BY <1>3, <1>4 DEF Phases, Phase, Left
<1>6. \A q \in Peers : q # p => Phase(q)' = Phase(q)
  BY <1>1, <1>3, <1>4 DEF Phase, Left
<1>7. Phases' = [Phases EXCEPT ![p] = "in"]
  BY <1>5, <1>6, PhasesOf
<1>8. WholeInv' /\ UNCHANGED Queue
  BY <1>1, BetweenStays DEF Queue
<1>9. ServerPhase \in {"up", "stopping"} /\ UNCHANGED ServerPhase
  BY <1>1, StaysUp
<1>10. Serves!Admit(p)
  BY <1>1, <1>5, <1>7, <1>8, <1>9, ToAdmit
<1> QED
  BY <1>8, <1>10

LEMMA AcceptFailsServes ==
  ASSUME LinesInv, WholeInv, AcceptFails
  PROVE  WholeInv' /\ ((\E p \in Peers : Serves!Admit(p)) \/ UNCHANGED Serves!vars)
<1>1. pc = "scan" /\ UNCHANGED <<dialed, hungUp, sent, sock, buf, lines, stop, pc>>
  BY DEF AcceptFails, AtReady, tables
<1>2. ServerPhase \in {"up", "stopping"} /\ UNCHANGED ServerPhase
  BY <1>1, StaysUp
<1>3. CASE UNCHANGED <<backlog, inbox>>
  <2>1. WholeInv' /\ UNCHANGED Queue
    BY <1>1, <1>3, BetweenStays DEF Queue
  <2>2. UNCHANGED Phases
    BY <1>1, <1>3 DEF Phases, Phase, Left, IsServed
  <2> QED
    BY <1>1, <1>2, <2>1, <2>2, SameSeen
<1>4. ASSUME backlog # <<>>, backlog' = Tail(backlog),
             inbox' = [inbox EXCEPT ![Head(backlog)] = <<>>]
      PROVE  WholeInv' /\ \E p \in Peers : Serves!Admit(p)
  <2>1. PICK p \in Peers : p = Head(backlog)
    BY <1>4, FirstInBacklog
  <2>2. /\ p \in dialed /\ ~ IsServed(p) /\ Contains(backlog, p)
        /\ \A q : Contains(backlog, q)' <=> Contains(backlog, q) /\ q # p
    BY <1>4, <2>1, FirstInBacklog
  <2>3. \A q \in Peers : inbox'[q] = IF q = p THEN <<>> ELSE inbox[q]
    BY <1>4, <2>1 DEF LinesInv, TablesInv, Shape
  <2>4. \A q \in Peers : IsServed(q)' = IsServed(q)
    BY <1>1 DEF IsServed
  <2>5. Phases[p] = "out" /\ Phase(p)' = "gone"
    BY <1>1, <2>2, <2>4 DEF Phases, Phase, Left
  <2>6. \A q \in Peers : q # p => Phase(q)' = Phase(q)
    BY <1>1, <2>2, <2>4 DEF Phase, Left
  <2>7. Phases' = [Phases EXCEPT ![p] = "gone"]
    BY <2>5, <2>6, PhasesOf
  <2>8. WholeInv' /\ \A q \in Peers : Way(q) = inbox[q] /\ Way(q)' = inbox'[q]
    BY <1>1, <2>3, BetweenStays
  <2>9. Queue' = [Queue EXCEPT ![p] = <<>>]
    BY <2>3, <2>8, NothingWhole, QueueOf
  <2>10. Serves!Admit(p)
    BY <1>1, <1>2, <2>5, <2>7, <2>9, ToAdmit
  <2> QED
    BY <2>8, <2>10
<1> QED
  BY <1>3, <1>4 DEF AcceptFails

\* A client that is let go is served no more, and the others are as they were.
LEMMA LetGo ==
  ASSUME LinesInv, NEW f \in users, DisconnectClient(f), NEW p, p = sock[f]
  PROVE  /\ p \in Peers /\ Phases[p] = "in" /\ Left(p)'
         /\ Phases' = [Phases EXCEPT ![p] = "gone"]
         /\ \A q \in Peers : inbox'[q] = IF q = p THEN <<>> ELSE inbox[q]
         /\ UNCHANGED <<hungUp, sent>>
<1>1. /\ f \in Fds /\ p \in Peers /\ Nobody \notin Peers
      /\ UNCHANGED <<dialed, hungUp, backlog, sent>>
      /\ \A g \in Fds : sock'[g] = IF g = f THEN Nobody ELSE sock[g]
      /\ \A q \in Peers : inbox'[q] = IF q = p THEN <<>> ELSE inbox[q]
  BY PeersAssumption DEF LinesInv, TablesInv, Shape, TablesAgree, DisconnectClient
<1>2. IsServed(p) /\ p \in dialed /\ ~ Contains(backlog, p)
  BY <1>1 DEF IsServed, LinesInv, TablesInv, Apart, Contains
<1>3. \A g \in Fds : sock[g] = p => g = f
  BY <1>1 DEF LinesInv, TablesInv, Apart
<1>4. ~ IsServed(p)' /\ \A q \in Peers : q # p => IsServed(q)' = IsServed(q)
  BY <1>1, <1>3 DEF IsServed
<1>5. Left(p)' /\ \A q \in Peers : q # p => Left(q)' = Left(q)
  BY <1>1, <1>2, <1>4 DEF Left
<1>6. Phase(p)' = "gone" /\ \A q \in Peers : q # p => Phase(q)' = Phase(q)
  BY <1>4, <1>5 DEF Phase
<1>7. Phases' = [Phases EXCEPT ![p] = "gone"]
  BY <1>1, <1>6, PhasesOf
<1>8. Phases[p] = "in"
  <2>1. Phase(p) = "in"
    BY <1>2 DEF Phase, Left
  <2> QED
    BY <1>1, <2>1 DEF Phases
<1> QED
  BY <1>1, <1>5, <1>7, <1>8

\* As many pieces as fill a buffer are too many lines.
LEMMA TooManyLines ==
  ASSUME NEW p, NEW z \in WholeLines(p), Len(z) >= Limit
  PROVE  Len(Whole(z)) >= (Limit + 1) \div 2
<1>1. PICK k \in Nat : InPairs(z, k) /\ z \in Seq(Own(p))
  BY DEF WholeLines
<1>2. Len(z) = 2 * k /\ Len(Whole(z)) = k
  BY <1>1, WholeIs DEF InPairs
<1>3. (Limit + 1) \div 2 <= k
  <2>1. PICK l \in Nat : l = Limit /\ l <= 2 * k
    BY <1>2, LimitAssumption
  <2>2. (l + 1) \div 2 <= k
    BY <2>1
  <2> QED
    BY <2>1, <2>2
<1> QED
  BY <1>2, <1>3, LimitAssumption

LEMMA RecvEndsServes ==
  ASSUME LinesInv, WholeInv, RecvEnds PROVE WholeInv' /\ \E p \in Peers : Serves!Drop(p)
<1>1. PICK f \in users : f = fds[i].fd
  BY ClientAtIndex DEF RecvEnds, LinesInv, TablesInv
<1>2. PICK p : p = sock[f]
  OBVIOUS
<1>3. /\ pc = "scan" /\ DisconnectClient(f)
      /\ p \in hungUp \/ Len(inbox[p]) >= Limit
      /\ UNCHANGED <<buf, stop, pc>>
  BY <1>1, <1>2 DEF RecvEnds, AtReady, Received
<1>4. /\ p \in Peers /\ Phases[p] = "in"
      /\ Phases' = [Phases EXCEPT ![p] = "gone"]
      /\ \A q \in Peers : inbox'[q] = IF q = p THEN <<>> ELSE inbox[q]
      /\ UNCHANGED <<hungUp, sent>>
  BY <1>2, <1>3, LetGo
<1>5. WholeInv' /\ \A q \in Peers : Way(q) = inbox[q] /\ Way(q)' = inbox'[q]
  BY <1>3, <1>4, BetweenStays
<1>6. Queue' = [Queue EXCEPT ![p] = <<>>]
  BY <1>4, <1>5, NothingWhole, QueueOf
<1>7. ServerPhase \in {"up", "stopping"} /\ UNCHANGED ServerPhase
  BY <1>3, StaysUp
<1>8. p \in hungUp \/ Len(Queue[p]) >= (Limit + 1) \div 2
  <2>1. inbox[p] \in WholeLines(p) /\ Queue[p] = Whole(inbox[p])
    BY <1>4, <1>5 DEF WholeInv, Queue
  <2> QED
    BY <1>3, <2>1, TooManyLines
<1>9. Serves!Drop(p)
  BY <1>4, <1>6, <1>7, <1>8, ToDrop
<1> QED
  BY <1>4, <1>5, <1>9

LEMMA CloseServes ==
  ASSUME LinesInv, WholeInv, Close PROVE WholeInv' /\ \E p \in Peers : Serves!Drop(p)
<1>1. PICK f \in users : DisconnectClient(f)
  BY DEF Close
<1>2. PICK p : p = sock[f]
  OBVIOUS
<1>3. pc = "closing" /\ UNCHANGED <<buf, stop, pc>>
  BY DEF Close, loop
<1>4. /\ p \in Peers /\ Phases[p] = "in"
      /\ Phases' = [Phases EXCEPT ![p] = "gone"]
      /\ \A q \in Peers : inbox'[q] = IF q = p THEN <<>> ELSE inbox[q]
      /\ UNCHANGED <<hungUp, sent>>
  BY <1>1, <1>2, LetGo
<1>5. WholeInv' /\ \A q \in Peers : Way(q) = inbox[q] /\ Way(q)' = inbox'[q]
  BY <1>3, <1>4, BetweenStays
<1>6. Queue' = [Queue EXCEPT ![p] = <<>>]
  BY <1>4, <1>5, NothingWhole, QueueOf
<1>7. ServerPhase = "stopping" /\ UNCHANGED ServerPhase
  BY <1>3 DEF ServerPhase, Running
<1>8. Serves!Drop(p)
  BY <1>4, <1>6, <1>7, ToDrop
<1> QED
  BY <1>4, <1>5, <1>8

LEMMA RecvDataServes ==
  ASSUME LinesInv, WholeInv, RecvData PROVE WholeInv' /\ UNCHANGED Serves!vars
<1>1. PICK f \in users : f = fds[i].fd
  BY ClientAtIndex DEF RecvData, LinesInv, TablesInv
<1>2. PICK p \in Peers : p = sock[f]
  BY <1>1 DEF LinesInv, TablesInv, TablesAgree, Shape
<1>3. PICK z \in WholeLines(p) : z = inbox[p]
  BY DEF WholeInv
<1>4. z # <<>> /\ buf \o z = z
  <2>1. z \in Seq(Piece)
    BY LinesTypes
  <2>2. buf = <<>>
    BY DEF RecvData, AtReady, WholeInv
  <2>3. Len(z) \in 1 .. Limit - 1
    BY <1>1, <1>2, <1>3 DEF RecvData, Received
  <2>4. z # <<>>
    BY <2>3
  <2> QED
    BY <2>1, <2>2, <2>4
<1>5. Complete(buf, z)
  <2>1. PICK k \in Nat : InPairs(z, k) /\ z \in Seq(Own(p))
    BY DEF WholeLines
  <2>2. Len(z) = 2 * k /\ k \in 1 .. k
    BY <1>4, <2>1 DEF InPairs
  <2>3. Ends(z[Len(z)])
    BY <2>1, <2>2 DEF InPairs
  <2> QED
    BY <1>4, <2>3 DEF Complete, Last
<1>6. /\ pc = "scan" /\ pc' = "lines" /\ lines' = z /\ cur' = f
      /\ \A q \in Peers : inbox'[q] = IF q = p THEN <<>> ELSE inbox[q]
      /\ UNCHANGED <<dialed, hungUp, backlog, sent, sock, users, stop>>
  BY <1>1, <1>2, <1>3, <1>4, <1>5
     DEF RecvData, AtReady, Received, tables, LinesInv, TablesInv, Shape
<1>7. WholeInv'
  <2>1. OneSender(p)'
    BY <1>2, <1>6 DEF OneSender
  <2>2. \A q \in Peers : inbox'[q] \in WholeLines(q)
    BY <1>6, NoLines DEF WholeInv
  <2> QED
    BY <1>6, <2>1, <2>2 DEF WholeInv
<1>8. \A q \in Peers : Way(q)' = Way(q)
  <2>1. \A q \in Peers : Way(q) = inbox[q]
    BY <1>6, Between
  <2>2. \A q \in Peers : Way(q)' = From(q, z) \o inbox'[q]
    BY <1>6 DEF Way, InHand
  <2>3. z \o <<>> = z
    <3>1. z \in Seq(Piece)
      BY LinesTypes
    <3> QED
      BY <3>1
  <2>4. ASSUME NEW q \in Peers PROVE From(q, z) \o inbox'[q] = inbox[q]
    <3>1. PICK y \in WholeLines(q) : y = inbox'[q]
      BY <1>6, NoLines DEF WholeInv
    <3>2. From(q, z) \o y = IF q = p THEN z \o y ELSE y
      BY WayWith
    <3> QED
      BY <1>3, <1>6, <2>3, <3>1, <3>2
  <2> QED
    BY <2>1, <2>2, <2>4
<1>9. UNCHANGED <<Queue, Phases, hungUp>>
  BY <1>6, <1>8 DEF Queue, Phases, Phase, Left, IsServed
<1>10. UNCHANGED ServerPhase
  BY <1>6, StaysUp
<1> QED
  BY <1>7, <1>9, <1>10, SameSeen

\* q is a request, then those of s, then those of t.
Requested(q, a, s, t) == q = (<<a>> \o s) \o t

LEMMA FrontOf ==
  ASSUME NEW P, NEW a \in P, NEW s \in Seq(P), NEW t \in Seq(P),
         NEW q, Requested(q, a, s, t)
  PROVE  /\ q # <<>> /\ Head(q) = a /\ Tail(q) = s \o t
         /\ SubSeq(q, 2, Len(s) + 1) = s /\ Len(s) \in 0 .. Len(q) - 1
<1>1. PICK u \in Seq(P) : u = s \o t
  BY Concat
<1>2. PICK b \in Seq(P) : b = <<a>>
  <2>1. <<a>> \in Seq(P)
    OBVIOUS
  <2> QED
    BY <2>1
<1>3. q \in Seq(P) /\ q = b \o u
  <2>1. (b \o s) \o t = b \o (s \o t)
    BY Associative
  <2>2. q = (b \o s) \o t
    BY <1>2 DEF Requested
  <2> QED
    BY <1>1, <2>1, <2>2, Concat
<1>4. PICK l \in Nat, m \in Nat : l = Len(s) /\ m = Len(u) /\ l <= m
  BY <1>1, Concat
<1>5. /\ Len(q) = m + 1 /\ q[1] = a
      /\ \A n \in 1 .. m : q[n + 1] = u[n]
  BY <1>2, <1>3, <1>4
<1>6. q # <<>> /\ Head(q) = a
  BY <1>5
<1>7. Tail(q) = u
  <2>1. PICK v \in Seq(P) : v = Tail(q)
    <3>1. Tail(q) \in Seq(P)
      BY <1>3, <1>6
    <3> QED
      BY <3>1
  <2>2. Len(v) = m /\ \A n \in 1 .. m : v[n] = q[n + 1]
    BY <1>5, <2>1
  <2> QED
    BY <1>4, <1>5, <2>1, <2>2, SameSequence
<1>8. SubSeq(q, 2, l + 1) = s
  <2>1. \A n \in 1 .. l : s[n] = u[n]
    BY <1>1, <1>4, Concat
  <2>2. SubSeq(q, 2, l + 1) \in Seq(P) /\ Len(SubSeq(q, 2, l + 1)) = l
    BY <1>3, <1>4, <1>5
  <2>3. PICK v \in Seq(P) : v = SubSeq(q, 2, l + 1) /\ Len(v) = l
    BY <2>2
  <2>4. \A n \in 1 .. l : v[n] = q[n + 1]
    BY <1>4, <1>5, <2>3
  <2>5. \A n \in 1 .. l : v[n] = s[n]
    BY <1>4, <1>5, <2>1, <2>4
  <2> QED
    BY <1>4, <2>3, <2>5, SameSequence
<1>9. l \in 0 .. Len(q) - 1
  BY <1>4, <1>5
<1> QED
  BY <1>1, <1>4, <1>6, <1>7, <1>8, <1>9

\* The first line at hand is the first request of its sender.
LEMMA FirstRequest ==
  ASSUME WholeInv, pc = "lines", lines # <<>>, NEW p \in Peers, OneSender(p)
  PROVE  \E a \in Heads, r \in WholeLines(p), z \in WholeLines(p) :
           /\ r = AfterFirstLine(lines) /\ z = inbox[p]
           /\ a.cmd = KindOf(FirstLine(lines))
           /\ Queue[p] # <<>> /\ Head(Queue[p]) = a
           /\ Tail(Queue[p]) = Whole(r \o z)
           /\ \E n \in 0 .. Len(Queue[p]) - 1 : Whole(r) = SubSeq(Queue[p], 2, n + 1)
<1>1. PICK P : P = Own(p)
  OBVIOUS
<1>2. PICK s \in Seq(P), k \in Nat : s = lines /\ InPairs(s, k)
  BY <1>1 DEF OneSender, WholeLines
<1>3. PICK a \in P, r \in Seq(P), m \in Nat :
        /\ r = AfterFirstLine(s) /\ InPairs(r, m) /\ a.cmd = KindOf(FirstLine(s))
        /\ ~ Ends(a) /\ Whole(s) = <<a>> \o Whole(r)
  <2>1. PICK r \in Seq(P), m \in Nat :
           /\ r = AfterFirstLine(s) /\ InPairs(r, m)
           /\ KindOf(FirstLine(s)) = s[1].cmd
           /\ s[1] \in P /\ ~ Ends(s[1])
           /\ Whole(s) = <<s[1]>> \o Whole(r)
    BY <1>2, FirstPair
  <2> QED
    BY <2>1
<1>4. r \in WholeLines(p) /\ a \in Heads
  BY <1>1, <1>3 DEF WholeLines, Heads, Own
<1>5. PICK z \in WholeLines(p) : z = inbox[p]
  BY DEF WholeInv
<1>6. Queue[p] = Whole(s) \o Whole(z)
  <2>1. Way(p) = s \o z
    BY <1>2, <1>5, WhileLines
  <2>2. s \in WholeLines(p)
    BY <1>2 DEF OneSender
  <2>3. Whole(s \o z) = Whole(s) \o Whole(z)
    BY <2>2, LinesConcat
  <2> QED
    BY <2>1, <2>3 DEF Queue
<1>7. PICK v \in Seq(P), w \in Seq(P) :
        v = Whole(r) /\ w = Whole(z) /\ Whole(r \o z) = v \o w
  <2>1. PICK y \in WholeLines(p) : y = r
    BY <1>4
  <2>2. /\ Whole(y \o z) = Whole(y) \o Whole(z)
        /\ Whole(y) \in Seq(Own(p)) /\ Whole(z) \in Seq(Own(p))
    BY LinesConcat
  <2> QED
    BY <1>1, <2>1, <2>2
<1>8. PICK q : q = (<<a>> \o v) \o w /\ q = Queue[p]
  BY <1>3, <1>6, <1>7
<1>9. /\ q # <<>> /\ Head(q) = a /\ Tail(q) = v \o w
      /\ SubSeq(q, 2, Len(v) + 1) = v /\ Len(v) \in 0 .. Len(q) - 1
  <2>1. Requested(q, a, v, w)
    BY <1>8 DEF Requested
  <2>2. a \in P /\ v \in Seq(P) /\ w \in Seq(P)
    OBVIOUS
  <2> QED
    BY <2>1, <2>2, FrontOf
<1>10. PICK n \in 0 .. Len(q) - 1 : v = SubSeq(q, 2, n + 1)
  BY <1>9
<1> QED
  BY <1>2, <1>3, <1>4, <1>5, <1>7, <1>8, <1>9, <1>10

\* What is on the way when lines r of p are left and others are as they were.
LEMMA WayLeft ==
  ASSUME WholeInv, pc = "lines", pc' = "lines", NEW p \in Peers, OneSender(p),
         NEW r \in WholeLines(p), lines' = r,
         NEW z \in WholeLines(p), inbox'[p] = z,
         \A q \in Peers : q # p => inbox'[q] = inbox[q]
  PROVE  /\ Way(p)' = r \o z
         /\ \A q \in Peers : q # p => Way(q)' = Way(q)
<1>1. \A q \in Peers : Way(q)' = From(q, r) \o inbox'[q]
  BY DEF Way, InHand
<1>2. From(p, r) \o z = r \o z
  BY WayWith
<1>3. ASSUME NEW q \in Peers, q # p PROVE Way(q)' = Way(q)
  <2>1. PICK y \in WholeLines(q) : y = inbox[q]
    BY DEF WholeInv
  <2>2. From(q, r) \o y = y
    BY <1>3, WayWith
  <2>3. Way(q) = y
    BY <1>3, <2>1, WhileLines
  <2> QED
    BY <1>1, <1>3, <2>1, <2>2, <2>3
<1> QED
  BY <1>1, <1>2, <1>3

LEMMA ExecuteOtherServes ==
  ASSUME LinesInv, WholeInv, ExecuteOther
  PROVE  WholeInv' /\ \E p \in Peers : Serves!Take(p)
<1>1. /\ pc = "lines" /\ lines # <<>> /\ cur \in users
      /\ KindOf(FirstLine(lines)) # "QUIT"
      /\ lines' = AfterFirstLine(lines)
      /\ \/ UNCHANGED stop
         \/ KindOf(FirstLine(lines)) = "POWEROFF" /\ stop' = TRUE
      /\ UNCHANGED <<dialed, hungUp, backlog, inbox, sent, sock, users, cur, pc>>
  BY DEF ExecuteOther, env, tables
<1>2. PICK p \in Peers : OneSender(p) /\ sock[cur] = p
  BY <1>1 DEF WholeInv, OneSender
<1>3. PICK a \in Heads, r \in WholeLines(p), z \in WholeLines(p) :
        /\ r = AfterFirstLine(lines) /\ z = inbox[p]
        /\ a.cmd = KindOf(FirstLine(lines))
        /\ Queue[p] # <<>> /\ Head(Queue[p]) = a
        /\ Tail(Queue[p]) = Whole(r \o z)
        /\ \E n \in 0 .. Len(Queue[p]) - 1 : Whole(r) = SubSeq(Queue[p], 2, n + 1)
  BY <1>1, <1>2, FirstRequest
<1>4. WholeInv'
  <2>1. OneSender(p)'
    BY <1>1, <1>2, <1>3 DEF OneSender
  <2> QED
    BY <1>1, <2>1 DEF WholeInv
<1>5. Way(p)' = r \o z /\ \A q \in Peers : q # p => Way(q)' = Way(q)
  BY <1>1, <1>2, <1>3, WayLeft
<1>6. Queue' = [Queue EXCEPT ![p] = Tail(@)]
  <2>1. PICK x : x = Tail(Queue[p])
    OBVIOUS
  <2>2. Queue' = [Queue EXCEPT ![p] = x]
    BY <1>3, <1>5, <2>1, QueueOf
  <2> QED
    BY <2>1, <2>2
<1>7. Phases[p] = "in" /\ UNCHANGED Phases
  <2>1. IsServed(p)
    BY <1>1, <1>2 DEF IsServed, LinesInv, TablesInv, Shape
  <2> QED
    BY <1>1, <2>1 DEF Phases, Phase, Left, IsServed
<1>8. /\ ServerPhase \in {"up", "stopping"}
      /\ \/ UNCHANGED ServerPhase
         \/ Head(Queue[p]).cmd = "POWEROFF" /\ ServerPhase' = "stopping"
  BY <1>1, <1>3 DEF ServerPhase, Running
<1>9. Serves!Take(p)
  BY <1>1, <1>3, <1>6, <1>7, <1>8, ToTake
<1> QED
  BY <1>4, <1>9

LEMMA ExecuteQuitServes ==
  ASSUME LinesInv, WholeInv, ExecuteQuit
  PROVE  WholeInv' /\ \E p \in Peers : Serves!Take(p)
<1>1. /\ pc = "lines" /\ lines # <<>> /\ cur \in users
      /\ KindOf(FirstLine(lines)) = "QUIT"
      /\ lines' = AfterFirstLine(lines)
      /\ DisconnectClient(cur) /\ users' = users \ {cur}
      /\ UNCHANGED <<cur, stop, pc>>
  BY DEF ExecuteQuit, DisconnectClient
<1>2. PICK p \in Peers : OneSender(p) /\ sock[cur] = p
  BY <1>1 DEF WholeInv, OneSender
<1>3. PICK a \in Heads, r \in WholeLines(p), z \in WholeLines(p) :
        /\ r = AfterFirstLine(lines) /\ z = inbox[p]
        /\ a.cmd = KindOf(FirstLine(lines))
        /\ Queue[p] # <<>> /\ Head(Queue[p]) = a
        /\ Tail(Queue[p]) = Whole(r \o z)
        /\ \E n \in 0 .. Len(Queue[p]) - 1 : Whole(r) = SubSeq(Queue[p], 2, n + 1)
  BY <1>1, <1>2, FirstRequest
<1>4. /\ Phases[p] = "in" /\ Left(p)'
      /\ Phases' = [Phases EXCEPT ![p] = "gone"]
      /\ \A q \in Peers : inbox'[q] = IF q = p THEN <<>> ELSE inbox[q]
      /\ UNCHANGED <<hungUp, sent>>
  BY <1>1, <1>2, LetGo
<1>5. WholeInv'
  <2>1. OneSender(p)'
    BY <1>1, <1>3, <1>4 DEF OneSender
  <2>2. \A q \in Peers : inbox'[q] \in WholeLines(q) /\ sent'[q] % 2 = 0
    BY <1>4, NoLines DEF WholeInv
  <2> QED
    BY <1>1, <2>1, <2>2 DEF WholeInv
<1>6. Way(p)' = r /\ \A q \in Peers : q # p => Way(q)' = Way(q)
  <2>1. <<>> \in WholeLines(p)
    BY NoLines
  <2>2. Way(p)' = r \o <<>> /\ \A q \in Peers : q # p => Way(q)' = Way(q)
    BY <1>1, <1>2, <1>3, <1>4, <2>1, WayLeft
  <2>3. r \o <<>> = r
    <3>1. r \in Seq(Piece)
      BY LinesTypes
    <3> QED
      BY <3>1
  <2> QED
    BY <2>2, <2>3
<1>7. PICK n \in 0 .. Len(Queue[p]) - 1 : Queue' = [Queue EXCEPT ![p] = SubSeq(@, 2, n + 1)]
  <2>1. PICK n \in 0 .. Len(Queue[p]) - 1 : Whole(r) = SubSeq(Queue[p], 2, n + 1)
    BY <1>3
  <2>2. PICK x : x = Whole(r)
    OBVIOUS
  <2>3. Queue' = [Queue EXCEPT ![p] = x]
    BY <1>6, <2>2, QueueOf
  <2> QED
    BY <2>1, <2>2, <2>3
<1>8. ServerPhase \in {"up", "stopping"} /\ UNCHANGED ServerPhase
  BY <1>1, StaysUp
<1>9. Serves!Take(p)
  BY <1>1, <1>3, <1>4, <1>7, <1>8, ToQuit
<1> QED
  BY <1>5, <1>9

-----------------------------------------------------------------------------
(* PollLoop implements Lines *)

LEMMA WholeInit == Init => WholeInv /\ Serves!Init
<1> SUFFICES ASSUME Init PROVE WholeInv /\ Serves!Init
  OBVIOUS
<1>1. 0 % 2 = 0
  OBVIOUS
<1>2. WholeInv
  BY <1>1, NoLines DEF Init, WholeInv
<1>3. \A p \in Peers : Whole(Way(p)) = <<>>
  <2>1. \A p \in Peers : Way(p) = <<>>
    BY <1>2, Between DEF Init
  <2> QED
    BY <2>1, NothingWhole
<1>4. \A p \in Peers : Phase(p) = "out"
  BY PeersAssumption DEF Init, Phase, Left, IsServed
<1>5. hungUp = {} /\ ServerPhase = "up"
  BY DEF Init, ServerPhase, Running
<1> QED
  BY <1>2, <1>3, <1>4, <1>5 DEF Serves!Init

LEMMA ServesStep ==
  ASSUME Splitters = {}, LinesInv, WholeInv, [Next]_vars
  PROVE  WholeInv' /\ [Serves!Next]_(Serves!vars)
<1>1. ASSUME NEW p \in Peers, ClientStep(p)
      PROVE  WholeInv' /\ [Serves!Next]_(Serves!vars)
  <2>1. \/ Dial(p) \/ HangUp(p)
        \/ \E k \in Kinds : SendLine(p, k)
    BY <1>1 DEF ClientStep, SendStart, SendRest
  <2>2. CASE Dial(p)
    BY <2>2, DialServes
  <2>3. CASE HangUp(p)
    BY <2>3, HangUpServes DEF Serves!Next
  <2>4. ASSUME NEW k \in Kinds, SendLine(p, k)
        PROVE  WholeInv' /\ [Serves!Next]_(Serves!vars)
    BY <2>4, SendLineServes DEF Serves!Next
  <2> QED
    BY <2>1, <2>2, <2>3, <2>4
<1>2. CASE Signal
  BY <1>2, SignalServes DEF Serves!Next
<1>3. CASE Test \/ PollReady \/ PollTimesOut \/ EndScan \/ NotReady
  BY <1>3, WaitingServes
<1>4. CASE PollFails
  BY <1>4, PollFailsServes DEF Serves!Next
<1>5. CASE Accept
  BY <1>5, AcceptServes DEF Serves!Next
<1>6. CASE AcceptFails
  BY <1>6, AcceptFailsServes DEF Serves!Next
<1>7. CASE RecvEnds
  BY <1>7, RecvEndsServes DEF Serves!Next
<1>8. CASE RecvData
  BY <1>8, RecvDataServes
<1>9. CASE ExecuteOther
  BY <1>9, ExecuteOtherServes DEF Serves!Next
<1>10. CASE ExecuteQuit
  BY <1>10, ExecuteQuitServes DEF Serves!Next
<1>11. CASE ExecuteForDeleted
  BY <1>11, ForDeletedServes DEF Serves!Next
<1>12. CASE LinesDone
  BY <1>12, LinesDoneServes
<1>13. CASE Close
  BY <1>13, CloseServes DEF Serves!Next
<1>14. CASE CloseDone
  BY <1>14, CloseDoneServes DEF Serves!Next
<1>15. CASE UNCHANGED vars
  <2>1. /\ UNCHANGED <<env, sock, users, cur, buf, lines, stop>>
        /\ pc' = pc
    BY <1>15 DEF vars, tables, loop
  <2>2. WholeInv' /\ UNCHANGED <<Queue, Phases, hungUp>>
    BY <2>1, Unseen
  <2>3. UNCHANGED ServerPhase
    BY <2>1 DEF ServerPhase, Running
  <2> QED
    BY <2>2, <2>3, SameSeen
<1> QED
  BY <1>1, <1>2, <1>3, <1>4, <1>5, <1>6, <1>7, <1>8, <1>9, <1>10, <1>11, <1>12, <1>13,
     <1>14, <1>15 DEF Next, ServerStep

\* Where every line arrives in one piece, each step of the server is one of
\* Lines: a line is executed for its sender, in its order and once, and who is
\* let go has hung up, sent too much or met the end of the server.
THEOREM LoopServesLines ==
  Splitters = {} /\ Spec => Serves!Init /\ [][Serves!Next]_(Serves!vars)
<1> SUFFICES ASSUME Splitters = {}
             PROVE  Spec => Serves!Init /\ [][Serves!Next]_(Serves!vars)
  OBVIOUS
<1>1. LinesInv /\ WholeInv /\ [Next]_vars => WholeInv' /\ [Serves!Next]_(Serves!vars)
  BY ServesStep
<1> QED
  BY <1>1, LinesInvariant, WholeInit, PTL DEF Spec

=============================================================================
