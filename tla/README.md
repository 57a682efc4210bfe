# ft_irc in TLA+

A TLA+ development of the IRC server in `src/`: modules that model it, TLC configurations that check them on
small instances, and proofs that TLAPS checks for every instance. `PROJECT.json` lists the runs, the mutants
that show each property can fail, the source lines behind each definition, the hazards and the theorems.

## The system

The server is one process with one thread. `Server::start` polls the listening socket and the client sockets;
`handleIncomingData` reads a buffer, splits it into lines, and runs each line's command to its end before it
looks at anything else. There are no locks, timers or stored files, and nothing is restarted. What makes the
program hard is elsewhere:

- **Raw pointers in both directions.** A `Channel` lists its operators, normal users and invited users; a `User`
  lists the channels it has joined and those it is invited to. Each half is updated by other code, and a channel
  is deleted in the middle of a command by the departure of its last member.
- **Two notions of identity.** Lists are *tested* by nickname and *changed* by pointer. Nicknames change, and two
  error paths store a reply as the nickname.
- **One test for many steps.** KICK and MODE test the sender once and then work through a list.
- **Buffers and indices.** The partial line is a static shared by all clients, lines after a QUIT run for a
  deleted user, and `_fds` is erased from inside the loop over it.

### Components

| component | state | operations | must be true |
|---|---|---|---|
| Registration (`User`, PASS NICK USER OPER MODE-self) | `_status`, `_nickname`, `_username`, `_op` per socket | accept, five commands, two error paths, disconnect | password first; nobody shares a nickname; a status never claims what the client did not give; operator rights only to the registered |
| Channels (`Channel`, JOIN PART KICK INVITE MODE TOPIC QUIT) | three lists, modes, topic, lifetime; the two lists of each `User` | the seven commands, `removeUser`, `~Channel`, `~User` | both halves of membership agree; a channel lives as long as its members; no freed object is used; modes by operators only; limit and invitations respected |
| MODE's letter loop | queue of letters, queue of parameters, text to announce | one pass over the letters | what is announced is what was done |
| Poll loop and shutdown | `_fds`, `revents`, `_users`, `incompleteLine`, the stop flag | poll, accept, read, erase, SIGINT, POWEROFF, the destructor | the tables agree; every readable client is served; a line is executed once, for the client that sent it; a stop ends the server |
| Parser | none | `parseIncomingData`, `parseLine` | prefix, command, arguments and trailing text are told apart |
| Delivery (`sendToChannel`, PRIVMSG, PING) | sockets | broadcast, direct message | every member but the sender, once |
| `MessageCodes`, `main`, `setPort`, `setServerSocket`, `leaks_control.cpp` | - | texts, start-up, a tool | not state machines: not modelled |

The components meet in `User` and `Channel`: commands find users through `getUserWithNickname` (the first in the
order of the descriptors) and channels through `findChannel` (by name); a disconnect (QUIT, end of file, a failed
read, a full buffer) goes through `disconnectClient` to `leaveAllChannels` and `~User`.

## The modules

| module | what it is |
|---|---|
| `Login` | the abstract specification of logging in: what each client has given, and who may be server operator |
| `Registration` | the clients: status, nickname, names, operator flag; one action per command; refines `Login` |
| `Rooms` | the abstract specification of membership: who is in a room and who operates it |
| `Channels` | extends `Registration` with channels, membership, invitations and the lifetime of objects; refines `Rooms` where nobody is invited |
| `Rosters` | extends `Channels` with the messages to a channel and what its members know from them |
| `ModeLoop` | one MODE command, letter by letter; refines the step `Mode` of `Channels` |
| `Parser` | from a buffer to the messages the handlers get, one extraction at a time |
| `Lines` | the abstract specification of the connections: every line is executed, in order, once, for its sender |
| `PollLoop` | poll, the loop over `_fds`, accept, recv, the line buffer, the end of clients and of the server; refines `Lines` where lines are sent whole |
| `MC...` | instances of these for TLC |
| `RegistrationProofs` | type, nicknames, identity, refinement of `Login`: proofs |
| `ChannelsProofs` | lemmas on lists; type, lifetime, tracking and departures, for all commands |
| `SafetyProofs` | membership, counting, admission, operators, invitations, freed memory, refinement of `Rooms`, for polite clients |
| `RostersProofs` | what members are told is true: proofs for polite clients |
| `ModeLoopProofs` | the loop is one step and its announcement true: proofs for commands of any length |
| `ParserProofs` | a line is parsed as defined, for buffers of any length |
| `PollLoopProofs` | the tables agree, recv does not block, no piece is lost, `Lines` is implemented: proofs for any number of clients and lines |
| `Induction` | induction over numbers and sequences in the form the provers take, for the last four |

The modules meet at three seams. `PollLoop` decides *whose* line is executed and when, and takes of the commands
only that QUIT ends the client and POWEROFF may end the server. `Parser` turns the buffer that `PollLoop` completes
into messages. `Registration`, `Channels` and `Rosters` start from messages: any registered client may send any of
them, which includes the line that one client began and another completed.

### Registration

`status[u]` is `User::_status`, with `"GONE"` for a slot without a `User`. Slots are natural numbers in the order
of the descriptors, because `getUserWithNickname` takes the first match of a map ordered that way. The kernel
hands out the lowest free descriptor; `Accept` takes any free slot, which includes that.

`nick[u]` is a sequence: `<<n>>` is the nickname *n*, `<<"*">>` that of a new client, and `nk \o <<r>>` the reply
"401 *nk* *r* :No such nick." (or "461 *nk* OPER ...", with *r* = `"461"`) that `Commands.cpp:516` and `:841` store
as the nickname. Two such texts are equal exactly when they are about the same nickname and the same subject,
which is what the sequence keeps of them. A text with blanks cannot be the argument of a command.

A refused command only sends a reply; it is a stuttering step and has no action. Usernames, real names and host
names are one flag, for nothing depends on their value. The valid nicknames are the constant `Nicks`.

### Channels

A channel is identified with the address it is allocated at (`Ptrs`). When it is freed the address becomes
available to the next `new Channel`, and old pointers to it then lead to the new channel, as on a heap. A step
that would follow a pointer into freed memory sets `fault` and ends the behaviour (`Halted`): what the process
does from there on is undefined. `fault = "user"` stands for a `User` that is deleted while a list holds it.

`Channel` is a record. The flag KEY and `_password` are one field, LIMIT and `_maxUsers` another: the code always
sets both together. `operators` and `invited` are sets (their order is never used), `normal` is a sequence, since
`isChannelEmpty` takes its front. `invites[u][c]` counts the entries of `c` in `_invitedChannels`, which may hold
it more than once.

Each test by nickname (`Holds`) uses the nicknames of the moment, each removal the user itself, as in the code.

- A command is one step. JOIN and PART with a comma-separated list find the channel and test the sender again for
  each item, so they are several commands with one item. KICK tests the sender once for all targets of a channel:
  it is the step `Kick` followed by one step per target, during which nothing else runs.
- `Mode` is one step. The sender is tested once, each of the letters `i k t o` acts at most once and of `l` the
  last one counts, so the outcomes are all combinations, with at most one member changing level.
- `Quit` follows `disconnectClient`: `leaveAllChannels` (`Emptied`), then `~User`, which calls `removeUser` for
  each entry of `_invitedChannels` (`Released`), then the destructors of the channels these emptied.

`Commands` lists the kinds of command clients send in an instance. `Polite` says that the two that overwrite
nicknames are not among them.

### Rosters

`roster[v][c]` is what client *v* would show of channel *c*: the nicknames it believes there, and which of them
with an `@`. It changes with the messages that `addUser`, `displayUsers`, `leaveChannel`, `leaveAllChannels` and
MODE send, to those whom `sendToChannel` reaches at that moment, and by what the client has asked for itself
(JOIN 0 and QUIT are not echoed). Each step is a step of `Channels` with its messages. A client takes another nickname
only while it is in no channel (`IdentifyStep`): NICK tells nobody else, so that a roster would go stale by design.

### MODE, letter by letter

`mods` and `params` are the two queues that `parseMode` fills, `happened` the array of that name, `last`,
`modsToSend` and `paramsToSend` the members of the one `Mode` object that all clients share; `last` starts with
either sign because it outlives a command. Every branch of the loop is an action: `NoSuchMember` leaves the
parameter of a refused `o` in the queue, `SetLimit` takes one even if it is no limit, `LiftLimit` takes one if there
is one and announces none, `LiftKey` announces the key that was set. `paramsToSend` is the text `_paramsToSend` as the words between its blanks, since
that is how a reader takes it apart; the empty key adds no word to the text (`Shown`). `Atoi` gives any int for a number outside
the range. `Told` replays the announcement on the channel as it was before. Seen from `Channels` the channel is
unchanged until the command is over (`Outside`).

### The parser

Of a character the model keeps what `parseLine` looks at: the blank, the colon, the newline, the carriage return,
which is white space to `>>` but not to `find(' ')`, and letters. Tabs behave as the carriage return. The actions are the
calls on the streams: `std::getline`, the prefix, `>> cmd`, `>> arg` in its two loops. `Meaning` says what a line means
without a stream. A text is cut at positions: `LinesOf` takes what lies between newlines, `WordsOf` what lies between the
starts and the stops of dark characters, and `Made` says which words are the command, the arguments and the trailing text.

### The poll loop

The state is that of `Server` and of the kernel: `inbox` is what the kernel has received from a client, `backlog` the
connections not yet accepted, `fds` the vector with POLLIN of `revents`, `i` the index of the loop, `buf` the static
`incompleteLine`, `lines` what is still to be executed of it. Clients and SIGINT act between any two steps.

- A line is two *pieces*: its command, and the rest with the newline. A client in `Splitters` may send them apart, so
  that lines arrive in parts and parts of two clients meet in `buf`; the others send lines whole, and the kernel
  may still hand over several at once.
- Pieces are numbered per client, modulo `Modulus`, one more than can be on their way and unexecuted: enough to tell a
  lost or repeated piece. `next` is history, the number expected next.
- `RecvEnds` is end of file, an error, or 512 bytes and more (`Limit` pieces); all three end the client inside the loop,
  and the entry behind it moves to the index that the loop has passed.
- `PollReady`, `PollTimesOut`, `PollFails` and the second half of `Signal` are the four ways poll returns. An interrupted poll
  is no error once the flag is set; `InterruptLeaves` says whether it leaves the old `revents` (`"kept"`) or none (`"cleared"`).
- `ExecuteForDeleted` is a line behind a QUIT: the `User` is gone, what the process does is undefined, and the model
  stops (`"fault"`).

## The runs

| run | instance | what it shows |
|---|---|---|
| `registration` | 3 clients, 2 nicknames, all commands, two replies deep | type; `NickExclusive`; `IdentityMatchesStatus`; refinement of `Login` |
| `nicks_are_names` | as above, 2 clients | expected violation: a PRIVMSG to nobody turns the reply into the sender's nickname |
| `channels_pair` | 2 clients from connection on, 1 channel name, 2 addresses, 2 entries per invitation, KICK of 2 targets, 2 topics | type; `MembershipAgrees`; `UsersAreReleased`; `OnlyOperatorsGovern`; `StaleEntriesComeFromJoin`; `FreedOnlyThroughStaleEntries` |
| `channels_crowd` | 3 registered clients with 4 nicknames, 1 channel, limit 2, a key and the empty key | `CountedOnce`; `DepartureLeavesOperator`; `OnlyOperatorsAppoint`; `Admission`; `OthersAreReached` |
| `channels_safe` | 3 registered clients, 2 channels, no INVITE, KICK of 1 target | refinement of `Rooms` |
| `channels_mistaken` | 3 registered clients that overwrite nicknames | `LiveChannels`; `JoinedIsListed`; `InvitationsAreTracked`; `DepartureLeavesOperator` |
| `rosters` | 3 registered clients with 4 nicknames, 1 channel | type; `RostersAreTrue`; `OperatorsAreKnown`; `LeaversAreTold` |
| `mode_loop` | 2 clients, no key, a key or the empty key, up to 3 letters and 2 parameters, ints from -2 to 1 | type; `AnnouncementIsTrue`; `ModeIsOneStep`: refinement of `Channels!Mode` |
| `parser` | all buffers of up to 7 characters before the last newline | type; `ParsesAsDefined`; `WrittenBackTheSame`; `CarriageReturnsAreIgnored` |
| `poll_loop_parts` | 2 clients, one sends in parts, all kinds of command | type; `TablesAgree`; `NothingLostOrRepeated`; `OnlyPartsGoAstray` |
| `poll_loop_whole` | 2 clients that send whole lines, fairness | `RecvNeverBlocks`; refinement of `Lines` |
| `poll_loop_fair` | 2 clients, one sends in parts, fairness | `WholeLinesAreExecuted`; `StopEnds` |

What the runs say about the program:

- With polite clients the two halves of membership always agree and a deleted user is in no list, although tests
  go by nickname and removals by pointer: exclusive nicknames make the two the same.
- Accepting an invitation leaves an entry in `_invitedChannels`. When the channel is deleted before that client
  ends, its destructor uses freed memory; when it is not, the destructor may appoint an operator in a channel the
  client has long left. `StaleEntriesComeFromJoin` shows that nothing else leaves such an entry, and
  `FreedOnlyThroughStaleEntries` that a client that leaves its channels or ends reaches freed memory in no other way:
  not by `_joinedChannels`, and not by the entry of an invitation that still stands.
- A KICK with a list goes on after its channel has been deleted (`KickFreed`): this happens in the runs with two
  targets, the model stops there, and no property is claimed of it.
- Whoever changes modes or a locked topic or begins a KICK is itself an operator, although the test goes by nickname.
- A channel whose last operator gave up the role is governed by nobody: its modes and its locked topic stay until
  a departure appoints an heir.
- Clients that overwrite their nicknames break the agreement of the two halves, but even then a channel lives
  exactly as long as it has members and nobody's `_joinedChannels` leads into freed memory.
- The messages to a channel keep a member's list of it right, whoever comes or goes in whichever way. What they do not
  tell is who inherits: at most one operator at a time is unknown to a member, until the next JOIN of its own.
- What MODE announces is what it did, whatever letters were refused or took each other's parameters, with two
  exceptions that the property states. A limit that is no int is announced as written and set to something else. And the
  empty key, which `JOIN #a ,` gives to a new channel, leaves no word when it is lifted: `MODE #a -k+o x bob` is
  announced as `-k+o bob`, and a reader takes `bob` for the key and has no word for `o`.
- A line in parts may be executed for another client, and takes only the pieces of clients that send in parts with it:
  a client that sends whole lines has its own executed, in order and once, but possibly behind somebody else's
  beginning and so as part of another line. With whole lines everywhere the loop is the service `Lines`.
- A line behind a QUIT in the same buffer is the only way into a `User` that has been deleted (`Crash` in `Lines`).
- A descriptor that is skipped because an entry before it was erased is served in the next round.
- SIGINT between the test of the flag and poll is noticed after the timeout at the latest; with no timeout
  (the mutant `PollTimesOutNot`) the server would not end.

**Bounds.** Two clients are enough for a shared nickname and for a stale pointer, the third adds an heir and a
bystander. One name and two addresses let a channel die and a new one take its address or another; two names are
needed where one command leaves several channels. Two entries per invitation are enough, because `removeUser`
changes nothing from its second call on. `MaxMangle` bounds how often a nickname grows, `MaxInvites` the entries of one channel in one
`_invitedChannels`, `MaxTargets` the targets of a KICK. Runs that start at `RegisteredInit` start in a state that
PASS, NICK and USER lead to. Nicknames, addresses and channel names are symmetric; slots are not.

In `PollLoop`, `MaxPending` bounds the pieces a client has on their way: two lines of one and one of the other are
enough for a line behind a QUIT, for a line behind a partial one and for a mixed line. `Limit` is 4 pieces in
`poll_loop_parts`, just what one client can have pending, and 5 in the other two, so that recv ends a client for sending
too much in the first and never in the liveness runs, where that would only make the properties easier. Two descriptors are one per client,
and each client connects once; an accept that fails is tried again. In `ModeLoop` three letters are a refused one, the
one that takes its parameter, and a sign change; two parameters leave one over. `MaxInt` is 1, so that a word can stand for
a number out of range. In `Channels` the empty key is one more value that only JOIN can give (`EmptyKey`): MODE +k never does,
for a parameter is never empty. In `Parser` seven characters hold a prefix, a command, an argument and a trailing part, or
three lines. `Rosters` has one channel, as its messages never name two.

**Fairness.** The server is one thread, and the only thing it waits for is poll, which returns on an event or after
sixty seconds: `FairSpec` is weak fairness of `ServerStep`, the disjunction of all its steps. Clients and SIGINT are under
no fairness. `PollTimesOut` is part of `ServerStep` because the timeout is not negative. This leaves out a send that
blocks (client sockets are blocking, and a client that does not read stops the server) and a recv that blocks, which
`RecvNeverBlocks` excludes for a kernel that clears `revents` when poll is interrupted. From this fairness
`ServesLines` derives that of `Lines`: weak fairness per client.

## The proofs

TLAPS checks every leaf. Nothing is assumed but the named `ASSUME`s of the modules:

- slots and descriptors are finitely many numbers, the listening socket is not one of them;
- `"*"`, `"461"`, `NoName`, `NoKey`, `EmptyKey` and `Nobody` are none of the values they stand apart from, and no letter of the parser
  is a blank, a colon, a carriage return or a newline;
- limits are positive, `""` is a topic, clients send the kinds of command the constants name;
- in `ModeLoop` nicknames are different words, `Value` gives each word the number it stands for, and the loop starts
  with a channel that lives;
- the bounds are numbers, `MaxPending` an even one. They may be any, so that the theorems do not depend on them.

Some theorems have a hypothesis on what clients send: `Polite` (no command that overwrites a nickname) and `Uninviting`
(polite, and no INVITE). The runs named in the table above
satisfy them and reach the states that the properties are about; the constants of every run satisfy the assumptions.

| theorem | states | for |
|---|---|---|
| `TypeCorrect`, `NicknamesAreExclusive`, `IdentityKeepsUp` | `TypeOK`, `NickExclusive`, `IdentityMatchesStatus` | all commands |
| `RegistrationImplementsLogin` | `LoginSpec` | all commands |
| `ChannelsTypeCorrect` | `ChannelsTypeOK` | all commands |
| `ChannelsLive` | `LiveChannels` | all commands |
| `JoinedStaysListed`, `InvitationsStayTracked` | `JoinedIsListed`, `InvitationsAreTracked` | all commands |
| `DeparturesLeaveOperator` | `DepartureLeavesOperator` | all commands |
| `MembershipStaysAgreed`, `DeletedUsersAreReleased` | `MembershipAgrees`, `UsersAreReleased` | polite clients |
| `EverybodyCountedOnce` | `CountedOnce` | polite clients |
| `AdmissionHolds` | `Admission` | polite clients |
| `OperatorsGovern`, `OperatorsAppoint` | `OnlyOperatorsGovern`, `OnlyOperatorsAppoint` | polite clients |
| `JoinLeavesStaleEntries`, `FreedThroughStaleEntries` | `StaleEntriesComeFromJoin`, `FreedOnlyThroughStaleEntries` | polite clients |
| `OthersReached` | `OthersAreReached` | polite clients |
| `ChannelsAreRooms` | `RoomsSpec` | polite clients, no INVITE |
| `RostersTypeCorrect`, `RostersStayTrue` | `RostersTypeOK`, `RostersAreTrue` | polite clients |
| `OperatorsStayKnown`, `LeaversTold` | `OperatorsAreKnown`, `LeaversAreTold` | polite clients |
| `ModeTypeCorrect`, `LoopIsOneStep`, `AnnouncementStaysTrue` | `ModeTypeOK`, `ModeIsOneStep`, `AnnouncementIsTrue` | all letters and parameters |
| `ParserTypeCorrect`, `ParserIsRight` | `ParserTypeOK`, `ParsesAsDefined` | all buffers |
| `RoundTrip`, `ReturnsAreIgnored` | `WrittenBackTheSame`, `CarriageReturnsAreIgnored` | all messages, all buffers |
| `PollTypeCorrect`, `TablesStayAgreed` | `PollTypeOK`, `TablesAgree` | all clients, descriptors and lines |
| `PiecesKept`, `PartsGoAstray` | `NothingLostOrRepeated`, `OnlyPartsGoAstray` | all clients, descriptors and lines |
| `RecvDoesNotBlock` | `RecvNeverBlocks` | an interrupted poll clears `revents` |
| `LoopServesLines` | the steps of `Lines`, `ServesLines` without fairness | clients that send whole lines |

**Registration.** `RegInv` is inductive. It adds to the checked properties that a connected client's `nick` is not
`<<>>`: an error reply appended to it is then longer than a nickname, and a mangled name never equals a real one.
The refinement maps a status to what the client has given; PASS may take a status back, which to `Login` is a step
of its own.

**Type and lifetime.** `TypeInv` is `RegInv` with `ChannelsTypeOK`. `LiveInv` adds `LiveChannels`; its proof needs of
each operation only that it keeps a channel's name and that it neither fills an empty channel nor, MODE aside,
empties one outside `Settle`.

**Membership.** `MembershipAgrees` is not inductive: `removeUser` looks by nickname in lists that might hold
somebody else. `Agreement` says who is in the lists: members are connected and bear a nickname other than `"*"`,
invited users are connected, no channel has a user in two lists or twice in one, and whoever is invited has an
entry. From there `ByNickname` derives, with `NickExclusive`, that looking by nickname and looking by pointer find
the same user, `RemoveUserMembers` that `removeUser` takes out exactly its user, and `ReleasedAgreement` that a
deleted user is in no list. One lemma per action follows. `LiveInv` is used where JOIN creates a channel at an
address that must be empty.

**Safety.** `Admission` follows from `Agreement` before and after a step: a new member has a new entry in
`_joinedChannels`, and only JOIN makes one. `OperatorsGovern` shows of a step of one client that it changes settings only
by a MODE or TOPIC of that client and begins a KICK only by a KICK of its own, and that passing their test is being in the
list. `OperatorsAppoint` goes through the ways an operator comes to be: MODE by
an operator, a departure, the founder of a channel nobody is in, and the destructor of a client that still holds an entry for a
channel it left. `JoinLeavesStaleEntries` counts entries: every operation that takes a user from the invited takes its
entries with it, but for `addUser` in JOIN. `FreedThroughStaleEntries` then looks at the two lists of a client: what it has
joined lists it and so lives; a channel that has invited it lives (`NoGuests`) and has members other than it, so
that its one call of `removeUser` empties nothing. An entry that leads elsewhere, or a second one, is stale.

**Departures.** `DeparturesLeaveOperator` holds whatever the clients send. What a departure makes of a channel is `Settled`: it has an
operator or is empty, or its members are as they were. `RemoveUser` keeps channels settled whoever it finds by nickname,
and so does any number of them, so that the heir of one departure may be the next to leave.

**Rooms.** `ChannelsAreRooms` maps the channels that live to rooms by name. Without invitations no channel has guests, JOIN
opens or enters, one `o` of MODE appoints or dismisses, and PART, KICK, JOIN 0 and QUIT are `Leave` with the rooms left and
the heirs that `Inherit` picked; every other step changes neither operators nor members.

**Rosters.** `RosterInv` adds to `Agreement` and `LiveInv` that every client has a nickname that NICK accepts, so that names tell
the members apart. `Right` states the three properties for one channel as a relation between what each client has been told, the
members and the operators; the lemmas show for joining, leaving, succession and a level that it is kept, and each action
of `Channels` comes down to one of them per channel.

**The loop of MODE.** `ModeInv` remembers what the channel was: it is `Alike` what one `o` can make of it, and as it was as long as
no `o` has been done, so that the end of the loop is one step `Mode`. `TruthInv` is about the announcement so far:
whoever reads it with any words behind its own has the channel so far and these words left. What it may have wrong is a
limit whose word is no int, which is right again as soon as all words are, and, behind a lifted empty key, what takes a
word after it. Sign by sign and letter by letter
this is induction on what is announced.

**The parser.** The invariant cuts the buffer in two: whole lines that are done, whose meanings have been executed, and whole lines
unread; in the middle of a line the body is what has been extracted and what the stream still has, and `parsedMsg` is what
`Made` makes of the words extracted. An extraction adds one word (`ExtractionStep`): the words of a text are
as many as there are starts and stops in it (`Even`), and a text that goes on with a blank adds none to those it
goes on from. `RoundTrip` follows from the shape of the text that a message is written as, whose words are those of the message.
`ReturnsAreIgnored` goes line by line over the buffer (`BufferInduction`): a carriage return ends the last word of a line
or stands alone.

**Tracking.** For clients that overwrite nicknames tests and removals may be about different users, so `Agreement` is out of
reach. What survives is one-sided: `Tracking` says that each `_joinedChannels` entry is answered by the channel's lists,
each invited user has an entry and is no member, and nobody is twice among the normal users. Its proof needs of an
operation on a channel only that it loses no member but the one that leaves, gains no invited user, and keeps the
normal users apart (`Shrinks`), which holds of `Promote`, `Demote`, `Inherit` and `RemoveUser` whoever they find.

**The poll loop.** `TablesInv` adds to `TablesAgree` the types and `Apart`: connections in the backlog and behind the
descriptors are all different. The proof turns on `DeletesItsEntry`: with no descriptor listed twice, `deleteFromPoll`
takes out the one entry of the client, never the first, and the others keep their order. `EventsInv` says that of the entries
the loop has not come to, those with POLLIN are readable. An erased entry shifts the ones behind it towards the index,
never past it; what a client sends or a hang-up only adds to what is readable; what the server takes belongs to an
entry it has passed; a new entry has no event.

`LinesInv` follows the pieces: what is on its way from a peer, in hand and then in the kernel, is numbered without a gap from
`next` on, and up to the last one sent while the peer is connected. The pieces of one peer in a mixed buffer are picked out
by the recursive function `From`; that it takes concatenation to concatenation is an induction, and that a line and
the rest make up the buffer then moves `next` over just the pieces executed. `PartsInv` adds that a peer that sends
whole lines is never in the middle of one, and that what waits in the buffer are parts.

`LoopServesLines` assumes that nobody sends in parts. `WholeInv` then says that what is on the way from a client comes in
pairs of a line's two pieces, that the lines at hand are all of the client being served, and that the buffer is empty
between clients. A line executed is the first of its client's queue in `Lines` (`FirstRequest`, `FrontOf`); a QUIT
leaves of the queue only the lines at hand, an end of file or too much input nothing; a poll, a recv or the end of a
buffer changes nothing that `Lines` sees.

**Induction.** The library's induction theorems take an operator as parameter, which the provers cannot instantiate. `Induction`
states them for sets: a set of numbers that has 0 and with each number the next is all of them, and likewise of
sequences. A lemma about a recursive function puts the arguments it holds for into such a set. The models therefore
write recursion as functions.

Only model-checked are `WholeLinesAreExecuted` and `StopEnds`, and of `ServesLines` the fairness: liveness is out of the
prover's reach. Every invariant and every action property of the passing runs is proved.

## Not modelled

- A `send` that blocks, and the kernel's buffers for what the server sends.
- PRIVMSG and PING, which answer without a change of state; the error path of PRIVMSG that does is in `Registration`.
- The pairing of channels with keys in one JOIN: a name that is refused, joined already, full or invite-only does
  not take its key (`Commands.cpp:291-311`). Each item is a JOIN with any key here.
- NICK by a member in `Rosters`: it is answered to its sender only, so that the others' lists go stale by design.
- A key that begins with a colon (from `JOIN #a,#b x,:y`), which a client that reads the announcement as IRC arguments
  would take with all that follows: `Told` reads words between blanks.
- A NUL byte, which ends the text that is appended to `incompleteLine`; what the handler of SIGINT does besides setting
  the flag.
- The composition of `PollLoop` with `Channels` in one state space: what a line does is independent of how it arrived.

Texts (`MessageCodes`), start-up and the leak checker stay out: they keep no state.
