---------------------------- MODULE MCSubscriber ----------------------------
(* Instances of SubscriberConnection for TLC.                              *)
EXTENDS SubscriberConnection, TLC

Do(i, op, names) == [id |-> i, op |-> op, names |-> names]
OpIds == 1..7
AllIds == OpIds \X {"main", "unsubscribe", "pUnsubscribe"}

(* Operations of two threads.                                              *)
TwoThreads ==
    ("t1" :> <<Do(1, "subscribe", <<"a", "b">>), Do(2, "auth", <<"bad">>),
               Do(3, "auth", <<"good">>), Do(4, "quit", <<>>)>>)
      @@ ("t2" :> <<Do(5, "psubscribe", <<"p">>), Do(6, "unsubscribe", <<>>),
               Do(7, "punsubscribe", <<"p">>)>>)
SubscribeThenAuth ==
    "t1" :> <<Do(1, "subscribe", <<"a">>), Do(2, "auth", <<"good">>)>>

JustSubscribe == "t1" :> <<Do(1, "subscribe", <<"a">>)>>

(* authOpt and nameOpt of the constructor.                                 *)
Anonymous == [auth |-> None, setName |-> None]
WithName == [auth |-> None, setName |-> "name"]

=============================================================================
