------------------------------ MODULE LineReader ------------------------------
(***************************************************************************)
(* server/src/pam/parser.c: read_next_pair(), which reads oauth-ssh.conf    *)
(* and the account map files line by line into a buffer that grows.         *)
(*                                                                          *)
(* A byte is a string.  A word of the file that only matters as a whole     *)
(* ("mfa", "true") may be a single byte.                                    *)
(***************************************************************************)
EXTENDS Integers, SequencesExt

CONSTANTS
  Byte,       \* what a file consists of
  ReadLen,    \* PARSER_READ_LEN, 128 in the code
  Files,      \* the files that may be installed
  None        \* NULL

Newline == "LF"
Space   == " "
Comma   == ","
Tab     == "TAB"
Hash    == "#"
Nul     == "NUL"

Delimiters == {Space, Comma}
Spaces     == {Space, Tab, Newline}   \* isspace()

\* fgets(s, 1, f) reads nothing: with a length of 1 no line would ever end.
ASSUME ReaderAssumption ==
  /\ ReadLen \in Nat /\ ReadLen >= 2
  /\ {Newline, Space, Comma, Tab, Hash, Nul} \subseteq Byte
  /\ Files \subseteq Seq(Byte)
  /\ None \notin Seq(Byte)

VARIABLES
  file,       \* the file that is read
  rest,       \* what of it fgets() has not returned yet
  pc,         \* where read_next_pair() or its caller is
  buffer,     \* the C string at the start of the line buffer
  length,     \* the bytes allocated for the buffer
  written,    \* how many of its first bytes the last fgets() has used
  pair,       \* *key and *values
  handed      \* history: the pairs the caller was given

reader_vars == <<file, rest, pc, buffer, length, written, pair, handed>>

----------------------------------------------------------------------------
\* strchr(): what precedes the first byte of D, all of s if there is none.
Before(s, D) ==
  LET ends == {k \in DOMAIN s : s[k] \in D}
  IN  IF ends = {} THEN s ELSE SubSeq(s, 1, Min(ends) - 1)

\* The maximal runs of s without a byte of D, in order: strtok_r().
Runs(s, D) ==
  LET inside    == {i \in DOMAIN s : s[i] \notin D}
      starts    == {i \in inside : i - 1 \notin inside}
      ends      == {i \in inside : i + 1 \notin inside}
      nth(S, k) == CHOOSE i \in S : Cardinality({j \in S : j <= i}) = k
  IN  [k \in 1 .. Cardinality(starts) |-> SubSeq(s, nth(starts, k), nth(ends, k))]

\* What fgets(_, n, _) returns: no more than one line, and room for its
\* terminating NUL.  Empty at the end of the file (NULL).
Fgets(s, n) ==
  LET line == Len(Before(s, {Newline}))
  IN  SubSeq(s, 1, IF line = Len(s) /\ line < n THEN line
                   ELSE IF line < n - 1 THEN line + 1
                   ELSE n - 1)

\* A line without its comment: one with nothing but white space is skipped.
Content(line) == Before(line, {Hash})
Blank(line)   == ToSet(Content(line)) \subseteq Spaces

\* The first word is the key, the others are its values.
Pair(line) ==
  LET words == Runs(Content(line), Delimiters)
  IN  IF words = <<>> THEN [key |-> None, values |-> <<>>]
                      ELSE [key |-> Head(words), values |-> Tail(words)]

----------------------------------------------------------------------------
ReaderInit ==
  /\ file \in Files
  /\ rest = file
  /\ pc = "fill"
  /\ buffer = <<>> /\ length = ReadLen /\ written = 0
  /\ pair = None
  /\ handed = <<>>

\* calloc() at the start of _read_full_line().
NewBuffer == buffer' = <<>> /\ length' = ReadLen /\ written' = 0

\* One round of the loop in _read_full_line(): chunk is what fgets() puts at
\* the end of the C string, in a buffer of size bytes.  What comes behind a NUL
\* byte of the file is lost: the next round starts at strlen().
FillWith(chunk, size) ==
  LET text == Before(buffer \o chunk, {Nul})
      eof  == rest = <<>>
      eol  == Newline \in ToSet(text)
  IN
  /\ pc = "fill"
  /\ pc' = IF ~eof /\ ~eol THEN "fill" ELSE IF text = <<>> THEN "eof" ELSE "line"
  /\ buffer' = Before(text, {Newline})
  /\ length' = size
  /\ written' = IF eof THEN written ELSE Len(buffer) + Len(chunk) + 1
  /\ rest' = SubSeq(rest, Len(chunk) + 1, Len(rest))
  /\ UNCHANGED <<file, pair, handed>>

\* Two plausible slips: the buffer grows only once it is full, and fgets() is
\* given the room that is left instead of a growing buffer.
FillGrowingLate ==
  FillWith(Fgets(rest, ReadLen),
           IF length - Len(buffer) < 2 THEN length + ReadLen ELSE length)
FillRoomLeft == FillWith(Fgets(rest, length - Len(buffer)), length)

\* The buffer grows by what one fgets() may need.
Fill ==
  FillWith(Fgets(rest, ReadLen),
           IF length - Len(buffer) < ReadLen THEN length + ReadLen ELSE length)

\* A plausible slip: an empty line ends the file.
SkipLineToEnd ==
  /\ pc = "line" /\ Blank(buffer)
  /\ pc' = "eof"
  /\ UNCHANGED <<file, rest, buffer, length, written, pair, handed>>

\* _read_line() goes on to the next line.
SkipLine ==
  /\ pc = "line" /\ Blank(buffer)
  /\ pc' = "fill"
  /\ NewBuffer
  /\ UNCHANGED <<file, rest, pair, handed>>

\* read_next_pair() returns true.
ReturnPair ==
  /\ pc = "line" /\ ~Blank(buffer)
  /\ pc' = "pair"
  /\ pair' = Pair(buffer)
  /\ handed' = Append(handed, pair')
  /\ UNCHANGED <<file, rest, buffer, length, written>>

ReadNextPair == Fill \/ SkipLine \/ ReturnPair

----------------------------------------------------------------------------
\* The file as its author sees it: lines, comments, words.
PairsOf(f) ==
  LET lines == Runs(f, {Newline})
  IN  FlattenSeq([k \in DOMAIN lines |->
                    IF Blank(lines[k]) THEN <<>> ELSE <<Pair(lines[k])>>])

\* fgets() never writes behind the allocated buffer, however long the line.
NoOverrun == written <= length

ReaderTypeOK ==
  /\ file \in Seq(Byte) /\ rest \in Seq(Byte) /\ buffer \in Seq(Byte)
  /\ length \in Nat /\ written \in Nat
=============================================================================
