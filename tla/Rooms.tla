-------------------------------- MODULE Rooms --------------------------------
(***************************************************************************)
(* What the server promises about who is in a room and who operates it,    *)
(* without addresses, lists in both directions, invitations and nicknames: *)
(* whoever opens a room operates it, operators make and unmake operators,  *)
(* and a room that somebody leaves without operators is given one in the   *)
(* same step.  Channels is shown to keep this promise (Channels!RoomsSpec) *)
(* where nobody is invited.                                                *)
(***************************************************************************)
CONSTANTS
  Users,        \* connections
  Names         \* names of rooms

VARIABLES
  operators,    \* the operators of each room
  others        \* its other members

vars == <<operators, others>>

In(n) == operators[n] \cup others[n]

Init ==
  /\ operators = [n \in Names |-> {}]
  /\ others = [n \in Names |-> {}]

Open(u, n) ==
  /\ In(n) = {}
  /\ operators' = [operators EXCEPT ![n] = {u}]
  /\ UNCHANGED others

Enter(u, n) ==
  /\ In(n) # {} /\ u \notin In(n)
  /\ others' = [others EXCEPT ![n] = @ \cup {u}]
  /\ UNCHANGED operators

\* One operator may change the level of one member, also its own.
Appoint(n) ==
  \E u \in others[n] :
    /\ operators[n] # {}
    /\ operators' = [operators EXCEPT ![n] = @ \cup {u}]
    /\ others' = [others EXCEPT ![n] = @ \ {u}]

Dismiss(n) ==
  \E u \in operators[n] :
    /\ operators' = [operators EXCEPT ![n] = @ \ {u}]
    /\ others' = [others EXCEPT ![n] = @ \cup {u}]

\* At most one takes over, and only where no operator is left.
Heirs(u, n) ==
  IF operators[n] \ {u} = {} /\ others[n] \ {u} # {}
    THEN {{h} : h \in others[n] \ {u}}
    ELSE {{}}

\* A user leaves some rooms at once, of its own will or not.
Leave(u, rooms) ==
  \E heir \in [rooms -> SUBSET Users] :
    /\ \A n \in rooms : u \in In(n) /\ heir[n] \in Heirs(u, n)
    /\ operators' = [n \in Names |->
         IF n \in rooms THEN (operators[n] \ {u}) \cup heir[n] ELSE operators[n]]
    /\ others' = [n \in Names |->
         IF n \in rooms THEN others[n] \ ({u} \cup heir[n]) ELSE others[n]]

Next ==
  \/ \E u \in Users, n \in Names : Open(u, n) \/ Enter(u, n)
  \/ \E n \in Names : Appoint(n) \/ Dismiss(n)
  \/ \E u \in Users, rooms \in SUBSET Names : Leave(u, rooms)

Spec == Init /\ [][Next]_vars

=============================================================================
