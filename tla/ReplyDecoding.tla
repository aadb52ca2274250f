--------------------------- MODULE ReplyDecoding ---------------------------
(***************************************************************************)
(* The bytes of the replies on their way to the results: a listener reads  *)
(* them in any portions, counts the whole replies and keeps the rest for   *)
(* the next read (ListenerActor.receiveData); a decoder decodes a partition *)
(* of replies, each for its request (DecoderActor, ArrayResponse).         *)
(***************************************************************************)
EXTENDS ReplyParser, FiniteSets

CONSTANTS
    Streams         \* sequences of requests: the reply to each, its decoder, those of EXEC

VARIABLES
    stream,
    arrived,        \* how many bytes have been read
    kept,           \* remainingByteStringOpt
    partitions,     \* the mailbox of the decoder
    results         \* the requests completed so far
decodingVars == <<stream, arrived, kept, partitions, results>>

(* What a server sends.                                                    *)
Number(n) == CHOOSE d \in DOMAIN Digits : Digits[d] = n
RECURSIVE Encode(_)
Encode(reply) ==
    CASE reply.kind \in {"+", "-", ":"} -> <<reply.kind>> \o reply.content \o <<"CR", "LF">>
      [] reply.kind = "$" ->
           <<"$", Number(Len(reply.content)), "CR", "LF">> \o reply.content \o <<"CR", "LF">>
      [] reply.kind = "nil" -> <<"$", "-", "1", "CR", "LF">>
      [] reply.kind = "*" ->
           <<"*", Number(Len(reply.content)), "CR", "LF">>
             \o FlattenSeq([i \in DOMAIN reply.content |-> Encode(reply.content[i])])
Replies == [i \in DOMAIN stream |-> Encode(stream[i].reply)]
Bytes == FlattenSeq(Replies)
EndOf(i) == Len(FlattenSeq(SubSeq(Replies, 1, i)))

(* The decoder of a request reads all of its reply; or throws, as when a   *)
(* Reader cannot read an element; or, for EXEC, has a decoder for each.    *)
Failed == Response("failed", <<>>)
IsArray(response) == response.value.kind = "*" /\ response.value.content > 0
Unread(buffer, response, p) ==
    Result(Failed, Read(buffer, IF IsArray(response) THEN response.next ELSE p).next)

(* DecoderActor on a partition of replies, and ArrayResponse on the        *)
(* elements of EXEC: one after the other, each for its request.            *)
RECURSIVE Completed(_, _, _), CompletedInTurn(_, _, _)
Completed(buffer, p, r) ==
    CASE r.decoder = "value" -> Read(buffer, p)
      [] r.decoder = "throws" -> Unread(buffer, Decode(buffer, p), p)
      [] r.decoder = "exec" ->
           AsArray(CompletedInTurn(buffer, Result(<<>>, Decode(buffer, p).next), r.exec))
CompletedInTurn(buffer, done, requests) ==
    IF requests = <<>> THEN done
    ELSE CompletedInTurn(buffer, Joined(done, Completed(buffer, done.next, Head(requests))),
                         Tail(requests))

---------------------------------------------------------------------------
ReceiveData(n) ==
    LET completedData == kept \o SubSeq(Bytes, arrived + 1, arrived + n)
        count == Count(completedData)
    IN /\ arrived' = arrived + n
       /\ kept' = SubSeq(completedData, count.position, Len(completedData))
       /\ partitions' =
            IF count.requests = 0 THEN partitions
            ELSE Append(partitions, [data |-> SubSeq(completedData, 1, count.position - 1),
                                     count |-> count.requests])
       /\ UNCHANGED <<stream, results>>

DecodePartition ==
    /\ partitions # <<>>
    /\ LET first == Len(results) + 1
           last == Len(results) + Head(partitions).count
       IN results' = results \o CompletedInTurn(Head(partitions).data, Result(<<>>, 1),
                                                SubSeq(stream, first, last)).value
    /\ partitions' = Tail(partitions)
    /\ UNCHANGED <<stream, arrived, kept>>

DecodingInit ==
    /\ stream \in Streams
    /\ arrived = 0
    /\ kept = <<>>
    /\ partitions = <<>>
    /\ results = <<>>

DecodingNext ==
    \/ \E n \in 1..(Len(Bytes) - arrived) : ReceiveData(n)
    \/ DecodePartition

---------------------------------------------------------------------------
(* Properties.                                                             *)

(* However the replies are cut into reads, a reply is handed over when its *)
(* last byte has been read, and what is kept is the beginning of the next. *)
Whole == {i \in DOMAIN stream : EndOf(i) <= arrived}
Handed == FoldLeft(LAMBDA n, p : n + p.count, Len(results), partitions)
WholeRepliesAreHandedOver ==
    /\ Handed = Cardinality(Whole)
    /\ kept = SubSeq(Bytes, EndOf(Handed) + 1, arrived)

(* Transactions.md: "Every command part of a transaction will be completed *)
(* with its respective result once the transaction is executed."  Every    *)
(* request is completed with its own reply, or fails of its own decoder.   *)
RECURSIVE OwnResult(_)
OwnResult(r) ==
    CASE r.decoder = "value" -> r.reply
      [] r.decoder = "throws" -> Failed
      [] r.decoder = "exec" -> Response("*", [k \in DOMAIN r.exec |-> OwnResult(r.exec[k])])
ResultsAreTheirOwn == \A i \in DOMAIN results : results[i] = OwnResult(stream[i])

(* skipNext, which CLUSTER SLOTS uses for fields it does not know, ends    *)
(* where the reply does, unless there is a nil bulk string in it.          *)
RECURSIVE HasNil(_)
HasNil(reply) ==
    \/ reply.kind = "nil"
    \/ reply.kind = "*" /\ \E k \in DOMAIN reply.content : HasNil(reply.content[k])
SkipsWholeReplies ==
    \A i \in DOMAIN stream :
        ~HasNil(stream[i].reply) => SkipNext(Bytes, EndOf(i - 1) + 1) = EndOf(i) + 1

=============================================================================
