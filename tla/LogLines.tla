------------------------------ MODULE LogLines ------------------------------
(***************************************************************************)
(* From the output of docker to lines (apps/api/src/logs/runtime.ts): the  *)
(* reader of the last lines takes the output apart when all of it is       *)
(* there, the follower in chunks that end anywhere, within a line, between *)
(* "\r" and "\n", or between the two bytes of a character.                 *)
(***************************************************************************)
EXTENDS Naturals, Sequences, SequencesExt, FiniteSetsExt

CONSTANT MaxOutput   \* bound: characters of the output after the first one
ASSUME OutputAssumption == MaxOutput \in Nat

VARIABLE follower
lineVars == <<follower>>

\* A letter, a space, "\r", "\n", and a character of two bytes.
Letter == <<"x">>
Characters == {Letter, <<"s">>, <<"r">>, <<"n">>, <<"h", "t">>}
Replacement == "?"
White == {"s", "r", "n"}

\* Docker begins each line with the name of its service.
Write(bytes, character) == bytes \o character
Outputs ==
  { FoldLeft(Write, Letter, cs) :
      cs \in UNION { [1 .. n -> Characters] : n \in 0 .. MaxOutput } }

\* chunk.toString("utf8"): a byte without the other one is replaced.
Decode(text, byte) ==
  IF byte = "t" /\ text # <<>> /\ Last(text) = "h" THEN Append(Front(text), "c")
  ELSE Append(text, byte)
Decoded(bytes) ==
  LET text == FoldLeft(Decode, <<>>, bytes)
  IN [i \in DOMAIN text |-> IF text[i] \in {"h", "t"} THEN Replacement ELSE text[i]]

\* replace(/\r\n/g, "\n")
EndLine(text, c) ==
  IF c = "n" /\ text # <<>> /\ Last(text) = "r" THEN Append(Front(text), c)
  ELSE Append(text, c)
NewlinesOnly(text) == FoldLeft(EndLine, <<>>, text)

\* split("\n"): there is one piece at least.
Cut(pieces, c) ==
  IF c = "n" THEN Append(pieces, <<>>)
  ELSE Append(Front(pieces), Append(Last(pieces), c))
Split(text) == FoldLeft(Cut, << <<>> >>, text)

Solid(text) == { i \in DOMAIN text : text[i] \notin White }
TrimEnd(text) == SubSeq(text, 1, Max(Solid(text) \cup {0}))
Trim(text) == IF Solid(text) = {} THEN <<>>
              ELSE SubSeq(text, Min(Solid(text)), Max(Solid(text)))

\* A line with nothing on it is dropped.
KeepLine(lines, piece) ==
  IF TrimEnd(piece) = <<>> THEN lines ELSE Append(lines, TrimEnd(piece))
Lines(pieces) == FoldLeft(KeepLine, <<>>, pieces)

\* parseLogLines: what the reader of the last lines makes of the output.
ParseLogLines(text) == Lines(Split(NewlinesOnly(Trim(text))))

LineInit ==
  \E bytes \in Outputs :
    follower = [output |-> bytes, read |-> 0, buffered |-> <<>>, sent |-> <<>>,
                cut |-> FALSE, closed |-> FALSE]

\* Mutant: what follows the last newline is not kept.
FlushAll(text) == [lines |-> Lines(Split(NewlinesOnly(text))), rest |-> <<>>]

FlushBufferedLogLines(text) ==
  LET pieces == Split(NewlinesOnly(text))
  IN [lines |-> Lines(Front(pieces)), rest |-> Last(pieces)]

\* stdout 'data', with a chunk that ends at the given byte; cut tells that one ended
\* within a character.
Data(end) ==
  LET chunk == SubSeq(follower.output, follower.read + 1, end)
      flushed == FlushBufferedLogLines(follower.buffered \o Decoded(chunk))
  IN /\ end \in follower.read + 1 .. Len(follower.output)
     /\ follower' = [follower EXCEPT !.read = end, !.buffered = flushed.rest,
                                     !.sent = @ \o flushed.lines,
                                     !.cut = @ \/ Last(chunk) = "h"]

\* 'close', with flushRemainingLogLine.
Close ==
  /\ ~follower.closed /\ follower.read = Len(follower.output)
  /\ follower' = [follower EXCEPT !.closed = TRUE,
                                  !.sent = @ \o Lines(<<follower.buffered>>)]

LineNext == Close \/ \E end \in 1 .. Len(follower.output) : Data(end)

\* However the output is cut into chunks, the follower sends the lines the reader
\* of the last lines would show, in order and each of them once it is complete;
\* except that a character cut in two is replaced.
LinesAsTailed ==
  LET lines == ParseLogLines(Decoded(follower.output))
  IN /\ ~follower.cut => IsPrefix(follower.sent, lines)
     /\ ~follower.cut /\ follower.closed => follower.sent = lines
     /\ follower.closed => Len(follower.sent) = Len(lines)
=============================================================================
