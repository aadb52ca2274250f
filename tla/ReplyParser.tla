---------------------------- MODULE ReplyParser ----------------------------
(***************************************************************************)
(* The functions of Protocol.scala that read replies from a buffer: count  *)
(* finds how many are whole, decode reads the next, skipNext passes over   *)
(* it.  A byte is a string; positions count from 1.                        *)
(***************************************************************************)
EXTENDS Integers, Sequences, SequencesExt

Digits == [d \in {"0", "1", "2", "3", "4", "5"} |->
             CASE d = "0" -> 0 [] d = "1" -> 1 [] d = "2" -> 2
               [] d = "3" -> 3 [] d = "4" -> 4 [] d = "5" -> 5]

(* The first position of a byte from p on, or 0.                           *)
Find(byte, buffer, p) == SelectInSubSeq(buffer, p, Len(buffer), LAMBDA b : b = byte)

(* parseInt, from p on: it ends with "\r\n" or underflows.                 *)
Underflows(buffer, p) == Find("CR", buffer, p) \in {0, Len(buffer)}
Unsigned(line) == FoldLeft(LAMBDA n, d : 10 * n + Digits[d], 0, line)
Signed(line) == IF line[1] = "-" THEN 0 - Unsigned(Tail(line)) ELSE Unsigned(line)
ParseInt(buffer, p) == Signed(SubSeq(buffer, p, Find("CR", buffer, p) - 1))
AfterLine(buffer, p) == Find("CR", buffer, p) + 2

---------------------------------------------------------------------------
(* count.  `stack` has the elements still missing of each open array.      *)

RECURSIVE Increment(_)
Increment(s) ==
    IF s.stack = <<>> THEN [s EXCEPT !.arrayPosition = 0, !.requests = @ + 1]
    ELSE IF Last(s.stack) = 1 THEN Increment([s EXCEPT !.stack = Front(@)])
    ELSE [s EXCEPT !.stack[Len(s.stack)] = @ - 1]

Stop(s) == [s EXCEPT !.isFragmented = TRUE]

CountLine(buffer, s) ==
    LET lf == Find("LF", buffer, s.next)
        read == [s EXCEPT !.position = s.next]
    IN IF lf = 0 THEN Stop(read) ELSE Increment([read EXCEPT !.next = lf + 1])

BulkLengthOfAny(n) == n + 2
BulkLength(n) == IF n = -1 THEN 0 ELSE n + 2
CountBulk(buffer, s) ==
    LET read == [s EXCEPT !.position = s.next]
        end == AfterLine(buffer, s.next) + BulkLength(ParseInt(buffer, s.next + 1))
    IN IF Underflows(buffer, s.next + 1) THEN Stop(read)
       ELSE IF end > Len(buffer) + 1 THEN Stop(read)
       ELSE Increment([read EXCEPT !.next = end])

CountArray(buffer, s) ==
    LET read == [s EXCEPT !.arrayPosition = IF s.stack = <<>> THEN s.next ELSE @]
        length == ParseInt(buffer, s.next + 1)
        begun == [read EXCEPT !.next = AfterLine(buffer, s.next)]
    IN IF Underflows(buffer, s.next + 1) THEN Stop(read)
       ELSE IF length <= 0 THEN Increment(begun)
       ELSE [begun EXCEPT !.stack = Append(@, length)]

RECURSIVE CountFrom(_, _)
CountFrom(buffer, s) ==
    IF s.next > Len(buffer) \/ s.isFragmented THEN s
    ELSE LET byte == buffer[s.next] IN
         CountFrom(buffer, CASE byte \in {"+", "-", ":"} -> CountLine(buffer, s)
                             [] byte = "$" -> CountBulk(buffer, s)
                             [] byte = "*" -> CountArray(buffer, s)
                             [] OTHER -> [s EXCEPT !.next = @ + 1])

(* How many replies are whole, and where the buffer is left.               *)
Count(buffer) ==
    LET s == CountFrom(buffer, [next |-> 1, requests |-> 0, position |-> 0,
                                arrayPosition |-> 0, stack |-> <<>>, isFragmented |-> FALSE])
    IN [requests |-> s.requests,
        position |-> IF ~s.isFragmented /\ s.stack = <<>> THEN s.next
                     ELSE IF s.arrayPosition > 0 THEN s.arrayPosition ELSE s.position]

---------------------------------------------------------------------------
(* decode: what the next reply is and where it ends.  It reads only the    *)
(* header of an array; Read goes on with its elements, as decoders do.     *)

Response(kind, content) == [kind |-> kind, content |-> content]
Result(value, next) == [value |-> value, next |-> next]
Garbled == Response("garbled", <<>>)

AfterBulkButCr(length, end) == end + length + 1
AfterBulk(length, end) == end + length + 2
Decoded(buffer, p, length, end) ==
    CASE buffer[p] \in {"+", "-", ":"} ->
           Result(Response(buffer[p], SubSeq(buffer, p + 1, end - 3)), end)
      [] buffer[p] = "$" ->
           IF length >= 0
             THEN Result(Response("$", SubSeq(buffer, end, end + length - 1)), AfterBulk(length, end))
             ELSE Result(Response("nil", <<>>), end)
      [] buffer[p] = "*" -> Result(Response("*", length), end)
      [] OTHER -> Result(Garbled, p + 1)
Decode(buffer, p) ==
    IF p > Len(buffer) THEN Result(Garbled, p)
    ELSE Decoded(buffer, p, ParseInt(buffer, p + 1), AfterLine(buffer, p))

Joined(done, one) == Result(Append(done.value, one.value), one.next)
AsArray(elements) == Result(Response("*", elements.value), elements.next)

RECURSIVE Read(_, _), ReadOn(_, _), ReadElements(_, _, _)
ReadElements(buffer, done, n) ==
    IF n <= 0 THEN done
    ELSE ReadElements(buffer, Joined(done, Read(buffer, done.next)), n - 1)
ReadOn(buffer, response) ==
    IF response.value.kind # "*" THEN response
    ELSE AsArray(ReadElements(buffer, Result(<<>>, response.next), response.value.content))
Read(buffer, p) == ReadOn(buffer, Decode(buffer, p))

(* skipNext.  A nil bulk string, of length -1, has no "\r\n" of its own.   *)
RECURSIVE SkipNext(_, _), SkipElements(_, _, _)
SkipElements(buffer, p, n) ==
    IF n <= 0 \/ p = 0 THEN p ELSE SkipElements(buffer, SkipNext(buffer, p), n - 1)
SkippedBulkButCrLf(length, p) == p + length
SkippedBulk(length, p) == p + length + 2
SkipNext(buffer, p) ==
    LET end == AfterLine(buffer, p)
        length == ParseInt(buffer, p + 1)
    IN CASE buffer[p] \in {"+", "-", ":"} -> end
         [] buffer[p] = "$" -> SkippedBulk(length, end)
         [] buffer[p] = "*" -> SkipElements(buffer, end, length)
         [] OTHER -> 0    \* MatchError

=============================================================================
