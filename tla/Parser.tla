------------------------------- MODULE Parser -------------------------------
(***************************************************************************)
(* From the characters that a client has sent to the commands that are     *)
(* executed: Server::parseIncomingData, which cuts the buffer into lines,  *)
(* and Server::parseLine, which takes a line apart, one extraction from    *)
(* the stream at a time.                                                   *)
(*                                                                         *)
(* A character is one of the three that parseLine looks at, a blank, a     *)
(* colon and the end of the line, a carriage return (a blank for the       *)
(* extraction of a word, but not for the end of the prefix), or a letter.  *)
(* The buffer is not empty and ends with a newline: handleIncomingData     *)
(* waits for that.                                                         *)
(***************************************************************************)
EXTENDS Naturals, Sequences, SequencesExt

CONSTANTS
  Letters,      \* the other characters
  MaxLength     \* bound: characters of the buffer before its last newline

ASSUME LettersAssumption == Letters \cap {" ", ":", "CR", "LF"} = {}
ASSUME MaxLengthAssumption == MaxLength \in Nat

VARIABLES
  buffer,       \* incompleteLine, as it is parsed
  unread,       \* what std::getline has not read of it
  iss,          \* what has not been extracted of the line
  parsedMsg,    \* the s_msg being assembled
  fullMsg,      \* the messages assembled so far
  pc            \* "line" in parseIncomingData; "cmd", "args" and "trailing" at
                \* the extractions of parseLine

vars == <<buffer, unread, iss, parsedMsg, fullMsg, pc>>

Blanks == {" ", "CR"}

Chars == Letters \cup {" ", ":", "CR", "LF"}

Texts == Seq(Chars \ {"LF"})

\* What an extraction yields.
Words == {w \in Texts : w # <<>> /\ ToSet(w) \cap Blanks = {}}

Empty == [prefix |-> <<>>, cmd |-> <<>>, args |-> <<>>,
          trailing |-> <<>>, trailing_sign |-> FALSE]

\* The messages that the handlers get.  An argument is never empty and never
\* starts with a colon, and only a line without a command has no cmd.
Message ==
  [prefix : Texts, cmd : Words \cup {<<>>},
   args : Seq({w \in Words : Head(w) # ":"}),
   trailing : Texts, trailing_sign : BOOLEAN]

ParserTypeOK ==
  /\ buffer \in Seq(Chars) /\ IsSuffix(unread, buffer)
  /\ iss \in Texts
  /\ parsedMsg \in Message /\ fullMsg \in Seq(Message)
  /\ pc \in {"line", "cmd", "args", "trailing"}

-----------------------------------------------------------------------------
(* Streams *)

\* Where the first character of set stops is in s.
Find(s, stops) ==
  LET at == {i \in DOMAIN s : s[i] \in stops}
  IN  IF at = {} THEN Len(s) + 1 ELSE Min(at)

From(s, i) == SubSeq(s, i, Len(s))

\* std::getline, and what it leaves.
Line(s) == SubSeq(s, 1, Find(s, {"LF"}) - 1)
AfterLine(s) == From(s, Find(s, {"LF"}) + 1)

Skipped(s) == From(s, Find(s, Chars \ Blanks))

HasMore(s) == s # <<>>                  \* mutant: the end of file as condition

\* iss >> arg: whether it succeeds, what it yields and what it leaves.
HasWord(s) == Skipped(s) # <<>>
Word(s) == SubSeq(Skipped(s), 1, Find(Skipped(s), Blanks) - 1)
AfterWord(s) == From(Skipped(s), Find(Skipped(s), Blanks))

IsColon(w) == w = <<":">>               \* mutant: a colon on its own

StartsTrailing(w) == w # <<>> /\ Head(w) = ":"

\* However many blanks there were, one is put back.
Joined(s, w) == s \o <<" ">> \o w

-----------------------------------------------------------------------------
(* The loop of parseIncomingData *)

Init ==
  /\ \E s \in BoundedSeq(Chars, MaxLength) : buffer = Append(s, "LF")
  /\ unread = buffer
  /\ iss = <<>>
  /\ parsedMsg = Empty
  /\ fullMsg = <<>>
  /\ pc = "line"

GetsLine(line) ==
  /\ pc = "line" /\ unread # <<>>
  /\ line = Line(unread)
  /\ unread' = AfterLine(unread)
  /\ UNCHANGED buffer

SkipEmptyLine == GetsLine(<<>>) /\ UNCHANGED <<iss, parsedMsg, fullMsg, pc>>

PrefixEnd(line) == Find(line, {" "})

\* A line that is nothing but a prefix is returned as it is: without a command.
ReturnEmpty ==
  \E line \in {Line(unread)} :
    /\ GetsLine(line)
    /\ StartsTrailing(line) /\ PrefixEnd(line) > Len(line)
    /\ fullMsg' = Append(fullMsg, Empty)
    /\ UNCHANGED <<iss, parsedMsg, pc>>

BeginLine ==
  \E line \in {Line(unread)} :
    /\ GetsLine(line)
    /\ line # <<>>
    /\ \/ /\ StartsTrailing(line) /\ PrefixEnd(line) <= Len(line)
          /\ parsedMsg' = [Empty EXCEPT !.prefix = SubSeq(line, 2, PrefixEnd(line) - 1)]
          /\ iss' = From(line, PrefixEnd(line) + 1)
       \/ /\ ~ StartsTrailing(line)
          /\ parsedMsg' = Empty
          /\ iss' = line
    /\ pc' = "cmd"
    /\ UNCHANGED fullMsg

-----------------------------------------------------------------------------
(* The extractions of parseLine *)

ReadCmdToSpace ==                       \* mutant: std::getline(iss, cmd, ' ')
  /\ pc = "cmd"
  /\ parsedMsg' = [parsedMsg EXCEPT !.cmd = SubSeq(iss, 1, Find(iss, {" "}) - 1)]
  /\ iss' = From(iss, Find(iss, {" "}) + 1)
  /\ pc' = "args"
  /\ UNCHANGED <<buffer, unread, fullMsg>>

ReadCmd ==
  /\ pc = "cmd"
  /\ parsedMsg' = [parsedMsg EXCEPT !.cmd = Word(iss)]
  /\ iss' = AfterWord(iss)
  /\ pc' = "args"
  /\ UNCHANGED <<buffer, unread, fullMsg>>

Extracts(w) ==
  /\ HasWord(iss)
  /\ w = Word(iss)
  /\ iss' = AfterWord(iss)
  /\ UNCHANGED <<buffer, unread, fullMsg>>

ReadArg ==
  \E w \in {Word(iss)} :
    /\ pc = "args" /\ Extracts(w)
    /\ ~ StartsTrailing(w)
    /\ parsedMsg' = [parsedMsg EXCEPT !.args = Append(@, w)]
    /\ UNCHANGED pc

BeginTrailing ==
  \E w \in {Word(iss)} :
    /\ pc = "args" /\ Extracts(w)
    /\ StartsTrailing(w)
    /\ parsedMsg' = [parsedMsg EXCEPT !.trailing_sign = TRUE, !.trailing = Tail(w)]
    /\ pc' = "trailing"

ReadTrailingUnspaced ==                 \* mutant: the words run together
  /\ pc = "trailing" /\ Extracts(Word(iss))
  /\ parsedMsg' = [parsedMsg EXCEPT !.trailing = @ \o Word(iss)]
  /\ UNCHANGED pc

ReadTrailing ==
  /\ pc = "trailing" /\ Extracts(Word(iss))
  /\ parsedMsg' = [parsedMsg EXCEPT !.trailing = Joined(@, Word(iss))]
  /\ UNCHANGED pc

EndLine ==
  /\ pc \in {"args", "trailing"}
  /\ ~ HasWord(iss)
  /\ fullMsg' = Append(fullMsg, parsedMsg)
  /\ pc' = "line"
  /\ UNCHANGED <<buffer, unread, iss, parsedMsg>>

Next ==
  \/ SkipEmptyLine \/ ReturnEmpty \/ BeginLine
  \/ ReadCmd \/ ReadArg \/ BeginTrailing \/ ReadTrailing \/ EndLine

Spec == Init /\ [][Next]_vars

-----------------------------------------------------------------------------
(* What a buffer means, all at once *)

\* The numbers in at, from left to right.
Ordered(at) ==
  [k \in 1 .. Cardinality(at) |-> Min({n \in at : Cardinality({m \in at : m <= n}) = k})]

\* What s has at the positions in at.
Selected(s, at) ==
  LET chosen == Ordered(at) IN [k \in DOMAIN chosen |-> s[chosen[k]]]

LinesOf(b) ==
  LET ends == Ordered({n \in DOMAIN b : b[n] = "LF"})
  IN  [k \in DOMAIN ends |->
         SubSeq(b, IF k = 1 THEN 1 ELSE ends[k - 1] + 1, ends[k] - 1)]

Dark(s) == {n \in DOMAIN s : s[n] \notin {" ", "CR"}}

\* The longest pieces of s without blanks.
WordsOf(s) ==
  LET starts == Ordered({n \in Dark(s) : n - 1 \notin Dark(s)})
      ends == Ordered({n \in Dark(s) : n + 1 \notin Dark(s)})
  IN  [k \in DOMAIN starts |-> SubSeq(s, starts[k], ends[k])]

\* A blank before each of the words.
Spaced(ws) ==
  LET spaced[k \in 0 .. Len(ws)] ==
        IF k = 0 THEN <<>> ELSE Joined(spaced[k - 1], ws[k])
  IN  spaced[Len(ws)]

\* The words with a colon, the command aside.
Colons(ws) == {k \in 2 .. Len(ws) : ws[k][1] = ":"}

\* A prefix and words make a command, arguments, and a trailing part from the
\* first word with a colon on, with single blanks.
Made(prefix, ws) ==
  LET end == IF Colons(ws) = {} THEN Len(ws) + 1 ELSE Min(Colons(ws))
  IN  [prefix |-> prefix,
       cmd |-> IF ws = <<>> THEN <<>> ELSE ws[1],
       args |-> SubSeq(ws, 2, end - 1),
       trailing |-> IF Colons(ws) = {} THEN <<>>
                                       ELSE Tail(ws[end]) \o Spaced(From(ws, end + 1)),
       trailing_sign |-> Colons(ws) # {}]

\* A line is an optional prefix and words, or a prefix alone.
Meaning(line) ==
  LET prefixed == line[1] = ":"
      blanks == {n \in DOMAIN line : line[n] = " "}
  IN  CASE ~ prefixed -> Made(<<>>, WordsOf(line))
        [] prefixed /\ blanks = {} -> Empty
        [] prefixed /\ blanks # {}
             -> Made(SubSeq(line, 2, Min(blanks) - 1), WordsOf(From(line, Min(blanks) + 1)))

Meanings(b) ==
  LET lines == LinesOf(b)
      full == Selected(lines, {k \in DOMAIN lines : lines[k] # <<>>})
  IN  [k \in DOMAIN full |-> Meaning(full[k])]

\* A message as a line.
Written(m) ==
  <<":">> \o m.prefix \o <<" ">> \o m.cmd \o Spaced(m.args)
    \o IF m.trailing_sign THEN <<" ", ":">> \o m.trailing ELSE <<>>

WithoutCR(b) == Selected(b, {n \in DOMAIN b : ~ (b[n] = "CR" /\ b[n + 1] = "LF")})

\* The messages that have a command.
Commands(ms) == Selected(ms, {k \in DOMAIN ms : ms[k].cmd # <<>>})

-----------------------------------------------------------------------------
(* Properties *)

Parsed == pc = "line" /\ unread = <<>>

\* The extractions yield what the lines mean: no line is lost, doubled or joined
\* with another, whatever blanks, colons and empty lines the buffer has, and
\* nothing of one message stays in the next.
ParsesAsDefined == Parsed => fullMsg = Meanings(buffer)

\* A message is only what its parts say: written as a line and parsed again it
\* is the same.  No handler sees an argument that another client could not have
\* sent as an argument.
WrittenBackTheSame ==
  \A k \in DOMAIN fullMsg : Meaning(Written(fullMsg[k])) = fullMsg[k]

\* A client that ends its lines with CR LF is given the same commands as one
\* that ends them with LF.
CarriageReturnsAreIgnored ==
  Parsed => Commands(fullMsg) = Commands(Meanings(WithoutCR(buffer)))

=============================================================================
