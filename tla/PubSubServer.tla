---------------------------- MODULE PubSubServer ----------------------------
(***************************************************************************)
(* External: what a subscriber connection talks to.  The TCP connections   *)
(* of its IOActors, one after the other, and the Redis session at the far  *)
(* end of the present one, as a server that speaks RESP2 keeps it.         *)
(***************************************************************************)
EXTENDS Integers, Sequences, FiniteSets, SequencesExt

CONSTANTS
    Channels, Patterns,
    None,           \* None, of a channel or of a request
    Rejected,       \* the passwords the server refuses
    MaxDrops        \* bound: lost connections

VARIABLES
    link,             \* "down", "up", or "closing" once the server has read QUIT
    wire,             \* requests under way to the server
    net,              \* its replies under way to the listener
    serverChannels,   \* what the session is subscribed to
    serverPatterns,
    drops
serverVars == <<link, wire, net, serverChannels, serverPatterns, drops>>

ChannelOps == {"subscribe", "unsubscribe"}
PatternOps == {"psubscribe", "punsubscribe"}
PubSubOps == ChannelOps \cup PatternOps
RegularOps == {"auth", "setName", "quit"}

Own(r) == IF r.op \in ChannelOps THEN serverChannels ELSE serverPatterns
Other(r) == IF r.op \in ChannelOps THEN serverPatterns ELSE serverChannels
(* Without arguments UNSUBSCRIBE is from all there are.                    *)
Named(r) == IF r.names = <<>> THEN SetToSeq(Own(r)) ELSE r.names
After(r, k) ==
    LET named == {Named(r)[i] : i \in 1..k}
    IN IF r.op \in {"subscribe", "psubscribe"} THEN Own(r) \cup named ELSE Own(r) \ named

(* One message for each channel, with the subscriptions left of both kinds, *)
(* and one all the same when there is no channel.                          *)
Reply(r, kind, name, count) == [id |-> r.id, kind |-> kind, name |-> name, count |-> count]
PubSubReplies(r) ==
    IF Named(r) = <<>> THEN <<Reply(r, r.op, None, Cardinality(Other(r)))>>
    ELSE [k \in 1..Len(Named(r)) |->
            Reply(r, r.op, Named(r)[k], Cardinality(After(r, k)) + Cardinality(Other(r)))]

ServerPubSub(r) ==
    /\ r.op \in PubSubOps
    /\ net' = net \o PubSubReplies(r)
    /\ LET own == After(r, Len(Named(r)))
       IN IF r.op \in ChannelOps
            THEN serverChannels' = own /\ UNCHANGED serverPatterns
            ELSE serverPatterns' = own /\ UNCHANGED serverChannels
    /\ UNCHANGED link

(* A subscribed session refuses the commands of a regular client.          *)
Subscribed == serverChannels \cup serverPatterns # {}
ServerRegular(r) ==
    /\ r.op \in RegularOps
    /\ LET refused == r.op # "quit" /\ (Subscribed \/ (r.op = "auth" /\ r.names[1] \in Rejected))
       IN net' = Append(net, Reply(r, IF refused THEN "error" ELSE "ok", None, 0))
    /\ link' = IF r.op = "quit" THEN "closing" ELSE link
    /\ UNCHANGED <<serverChannels, serverPatterns>>

ServerExecute ==
    /\ wire # <<>> /\ link = "up"
    /\ ServerPubSub(Head(wire)) \/ ServerRegular(Head(wire))
    /\ wire' = Tail(wire)
    /\ UNCHANGED drops

(* The connection is lost with all that was under way.                     *)
Lost ==
    /\ link = "up"
    /\ drops < MaxDrops /\ drops' = drops + 1
    /\ link' = "down" /\ wire' = <<>> /\ net' = <<>>
    /\ serverChannels' = {} /\ serverPatterns' = {}

=============================================================================
