------------------------------ MODULE ModeLoop ------------------------------
(***************************************************************************)
(* The loop of Mode::execute over the letters of one MODE command on a     *)
(* channel: the queue of letters with their signs, the queue of parameters *)
(* that the letters take from, and the announcement that is put together   *)
(* on the way.  Channels has the whole command as one step, Mode; here     *)
(* that step is shown to be what the loop does.                            *)
(*                                                                         *)
(* Users, nicknames and the lists are those of Channels, of one channel    *)
(* and of clients that keep their nicknames.                               *)
(***************************************************************************)
EXTENDS Integers, FiniteSets, SequencesExt

CONSTANTS
  Users,        \* registered clients, as in Registration
  Nicks,        \* their nicknames
  Called,       \* the nickname of each
  Words,        \* parameters: nicknames, passwords, numbers
  Value,        \* the number each word starts with, 0 if with none
  MaxInt,       \* the largest int; the smallest is - MaxInt - 1
  Here,         \* the address of the channel
  Name,         \* its name
  NoName, NoKey,
  EmptyKey,     \* the empty key, which JOIN may have given to the channel
  Found,        \* channels that a command may find
  MaxLetters, MaxParams  \* bounds: letters and parameters of a command

Ints == - MaxInt - 1 .. MaxInt

ASSUME UsersAssumption == Users \subseteq Nat
ASSUME NameAssumption == Name # NoName
ASSUME WordsAssumption ==
  Nicks \subseteq Words /\ NoKey \notin Words /\ EmptyKey \notin Words \cup {NoKey}
ASSUME CalledAssumption ==
  /\ Called \in [Users -> Nicks]
  /\ \A u, v \in Users : Called[u] = Called[v] => u = v
ASSUME ValueAssumption == MaxInt \in Nat /\ Value \in [Words -> Int]
ASSUME LengthsAssumption == MaxLetters \in Nat /\ MaxParams \in Nat

VARIABLES
  channel,      \* the Channel
  sender,       \* the client whose command it is
  mods,         \* the letters that are left, each with its sign
  params,       \* the parameters that are left
  happened,     \* the letters that have been done
  last,         \* Mode::_last, which outlives a command
  modsToSend,   \* Mode::_modsToSend
  paramsToSend, \* Mode::_paramsToSend: the words in it, between the blanks
  before,       \* history: the channel when the command came
  pc            \* "idle", "loop", or "over" for good

vars == <<channel, sender, mods, params, happened, last, modsToSend,
          paramsToSend, before, pc>>

Signs == {"+", "-"}
Letters == {"i", "k", "l", "o", "t", "other"}

\* The channel as Channels sees it: unchanged until the command is over.
Outside == IF pc = "loop" THEN before ELSE channel

\* The keys a channel may have.
AllKeys == Words \cup {EmptyKey}

Chan == INSTANCE Channels WITH
  Commands <- {"MODE"}, MaxMangle <- 1, Ptrs <- {Here}, Names <- {Name},
  Keys <- AllKeys, Limits <- 1 .. MaxInt, Topics <- {""},
  MaxInvites <- 0, MaxTargets <- 0,
  status <- [u \in Users |-> "REGISTERED"],
  nick <- [u \in Users |-> <<Called[u]>>],
  named <- [u \in Users |-> TRUE],
  serverOp <- [u \in Users |-> FALSE],
  chan <- [c \in {Here} |-> Outside],
  joined <- [u \in Users |-> {}],
  invites <- [u \in Users |-> [c \in {Here} |-> 0]],
  kick <- <<>>, fault <- "none"

ASSUME FoundAssumption == Found \subseteq {ch \in Chan!Channel : Chan!IsLive(ch)}

ModeTypeOK ==
  /\ channel \in Chan!Channel /\ before \in Chan!Channel
  /\ sender \in Users
  /\ mods \in Seq(Signs \X Letters)
  /\ params \in Seq(Words)
  /\ happened \subseteq Letters
  /\ last \in Signs
  /\ modsToSend \in Seq(Signs \cup Letters)
  /\ paramsToSend \in Seq(Words)
  /\ pc \in {"idle", "loop", "over"}

-----------------------------------------------------------------------------
(* One turn of the loop *)

Sign == mods[1][1]
Letter == mods[1][2]

\* A letter is at the front of the queue, and will be gone.
Turn(l) ==
  /\ pc = "loop" /\ mods # <<>> /\ Letter = l
  /\ mods' = Tail(mods)
  /\ UNCHANGED <<sender, before, pc>>

AgainAndAgain(l) == UNCHANGED happened  \* mutant: happened is not looked at

Once(l) == l \notin happened /\ happened' = happened \cup {l}

TellWhenItChanges(words) ==             \* mutant: goes by _last alone
  /\ modsToSend' = modsToSend \o (IF last # Sign THEN <<Sign, Letter>> ELSE <<Letter>>)
  /\ paramsToSend' = paramsToSend \o words
  /\ last' = Sign

\* The sign is written when it changes, and first in an announcement.
Tell(words) ==
  /\ modsToSend' = modsToSend \o (IF last # Sign \/ modsToSend = <<>>
                                    THEN <<Sign, Letter>> ELSE <<Letter>>)
  /\ paramsToSend' = paramsToSend \o words
  /\ last' = Sign

TellNothing == UNCHANGED <<modsToSend, paramsToSend, last>>

InviteOnly ==
  /\ Turn("i") /\ Once("i")
  /\ channel' = [channel EXCEPT !.inviteOnly = (Sign = "+")]
  /\ Tell(<<>>)
  /\ UNCHANGED params

TopicLock ==
  /\ Turn("t") /\ Once("t")
  /\ channel' = [channel EXCEPT !.topicLock = (Sign = "+")]
  /\ Tell(<<>>)
  /\ UNCHANGED params

SetKey ==
  /\ Turn("k") /\ Once("k") /\ params # <<>> /\ Sign = "+"
  /\ channel' = [channel EXCEPT !.key = Head(params)]
  /\ Tell(<<Head(params)>>)
  /\ params' = Tail(params)

\* What a key adds to the text: an empty key leaves no word between the blanks.
Shown(key) == IF key = EmptyKey THEN <<>> ELSE <<key>>

\* The key that is lifted is announced, whatever the parameter was.
LiftKey ==
  /\ Turn("k") /\ Once("k") /\ params # <<>> /\ Sign = "-"
  /\ channel' = [channel EXCEPT !.key = NoKey]
  /\ Tell(IF channel.key # NoKey THEN Shown(channel.key) ELSE <<Head(params)>>)
  /\ params' = Tail(params)

\* atoi: undefined for a number that is not an int.
Atoi(w) == IF Value[w] \in Ints THEN {Value[w]} ELSE Ints

IsLimitNot(n) == TRUE                   \* mutant: any number will do

IsLimit(n) == n > 0

\* A parameter that is not a limit is taken all the same.
SetLimit ==
  /\ Turn("l") /\ params # <<>> /\ Sign = "+"
  /\ \E max \in Atoi(Head(params)) :
       IF IsLimit(max)
         THEN /\ channel' = [channel EXCEPT !.limit = max]
              /\ Tell(<<Head(params)>>)
         ELSE UNCHANGED channel /\ TellNothing
  /\ params' = Tail(params)
  /\ UNCHANGED happened

\* Takes a parameter if there is one, and announces none.
LiftLimit ==
  /\ Turn("l") /\ Sign = "-"
  /\ channel' = [channel EXCEPT !.limit = 0]
  /\ Tell(<<>>)
  /\ params' = IF params = <<>> THEN params ELSE Tail(params)
  /\ UNCHANGED happened

SetLevel ==
  /\ Turn("o") /\ Once("o") /\ params # <<>>
  /\ \E u \in Chan!Members(channel) :
       /\ Called[u] = Head(params)
       /\ channel' = IF Sign = "+" THEN Chan!Promote(channel, u)
                                   ELSE Chan!Demote(channel, u)
  /\ Tell(<<Head(params)>>)
  /\ params' = Tail(params)

Skip(l) == Turn(l) /\ TellNothing /\ UNCHANGED <<channel, params, happened>>

\* The client named is not in the channel, or nobody is: a reply, and the
\* parameter stays in the queue.
NoSuchMember ==
  /\ "o" \notin happened /\ params # <<>>
  /\ \A u \in Chan!Members(channel) : Called[u] # Head(params)
  /\ Skip("o")

\* An unknown letter, one that has been done, or one without its parameter.
Ignored ==
  \/ Skip("other")
  \/ \E l \in {"i", "k", "o", "t"} : l \in happened /\ Skip(l)
  \/ \E l \in {"k", "o"} : params = <<>> /\ Skip(l)
  \/ Skip("l") /\ params = <<>> /\ Sign = "+"

-----------------------------------------------------------------------------

SeqsUpTo(S, n) == UNION {[1 .. m -> S] : m \in 0 .. n}

\* The sender is tested, once, and the command has been parsed.
Start(u) ==
  /\ pc = "idle"
  /\ Chan!Governs(channel, u)
  /\ sender = u
  /\ mods' \in SeqsUpTo(Signs \X Letters, MaxLetters) \ {<<>>}
  /\ params' \in SeqsUpTo(Words, MaxParams)
  /\ happened' = {} /\ modsToSend' = <<>> /\ paramsToSend' = <<>>
  /\ before' = channel
  /\ pc' = "loop"
  /\ UNCHANGED <<channel, sender, last>>

\* The announcement goes to every member if there is anything in it.
Finish ==
  /\ pc = "loop" /\ mods = <<>>
  /\ pc' = "over"
  /\ UNCHANGED <<channel, sender, mods, params, happened, last, modsToSend,
                 paramsToSend, before>>

\* One command on a channel that it finds, after others that have left _last.
Init ==
  /\ channel \in Found /\ before = channel
  /\ sender \in Users
  /\ mods = <<>> /\ params = <<>> /\ happened = {}
  /\ last \in Signs
  /\ modsToSend = <<>> /\ paramsToSend = <<>>
  /\ pc = "idle"

Loop ==
  \/ InviteOnly \/ TopicLock \/ SetKey \/ LiftKey \/ SetLimit \/ LiftLimit
  \/ SetLevel \/ NoSuchMember \/ Ignored
  \/ Finish

Next == (\E u \in Users : Start(u)) \/ Loop

Spec == Init /\ [][Next]_vars

-----------------------------------------------------------------------------
(* What a member makes of the announcement *)

First(words) == IF words = <<>> THEN NoKey ELSE Head(words)
Rest(words) == IF words = <<>> THEN <<>> ELSE Tail(words)

WithLevel(ch, s, w) ==
  IF \E u \in Chan!Members(ch) : Called[u] = w
    THEN LET u == CHOOSE u \in Users : Called[u] = w
         IN  IF s = "+" THEN Chan!Promote(ch, u) ELSE Chan!Demote(ch, u)
    ELSE ch

\* A reader has read some of it: the sign it is at, the channel, the words left.
Reads(r, x) ==
  CASE x \in Signs -> [r EXCEPT !.sign = x]
    [] x = "i" -> [r EXCEPT !.ch.inviteOnly = (r.sign = "+")]
    [] x = "t" -> [r EXCEPT !.ch.topicLock = (r.sign = "+")]
    [] x = "k" -> [r EXCEPT !.ch.key = IF r.sign = "+" THEN First(r.words) ELSE NoKey,
                            !.words = Rest(r.words)]
    [] x = "l" /\ r.sign = "+" /\ r.words # <<>>
         -> [r EXCEPT !.ch.limit = Value[Head(r.words)], !.words = Tail(@)]
    [] x = "l" /\ ~ (r.sign = "+" /\ r.words # <<>>) -> [r EXCEPT !.ch.limit = 0]
    [] x = "o" -> [r EXCEPT !.ch = WithLevel(r.ch, r.sign, First(r.words)),
                            !.words = Rest(r.words)]

\* Letter by letter, from r on.
Heard(letters, r) ==
  LET heard[n \in 0 .. Len(letters)] ==
        IF n = 0 THEN r ELSE Reads(heard[n - 1], letters[n])
  IN  heard[Len(letters)]

Told == Heard(modsToSend, [sign |-> "+", ch |-> before, words |-> paramsToSend]).ch

-----------------------------------------------------------------------------
(* Properties *)

\* -k has lifted an empty key, and announced no word for it.
EmptyKeyLifted == before.key = EmptyKey /\ channel.key = NoKey

\* What is announced is what was done: a member that applies the announcement
\* to the channel it knew has the channel as it is, also when a letter took the
\* parameter of another, took one in vain, or was refused.  There are two
\* exceptions.  A limit announced by a number that is no int is not the one that
\* is set.  And once an empty key is lifted, the words of o and l are read one
\* too early: what is announced of i, k and t is true even then.
AnnouncementIsTrue ==
  pc = "loop" =>
    /\ ~ EmptyKeyLifted =>
         /\ [Told EXCEPT !.limit = channel.limit] = channel
         /\ (\A n \in DOMAIN paramsToSend : Value[paramsToSend[n]] \in Ints)
              => Told.limit = channel.limit
    /\ Told.inviteOnly = channel.inviteOnly
    /\ Told.topicLock = channel.topicLock
    /\ Told.key = channel.key

\* However many letters there are, the command as a whole is one that Channels
\* allows: by an operator, with at most one member whose level changes.
ModeIsOneStep == [][\E u \in Users : Chan!Mode(u, Here)]_Outside

=============================================================================
