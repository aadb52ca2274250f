------------------------------ MODULE MCLibrary ------------------------------
(* Instances of Library for TLC.                                           *)
EXTENDS Library, TLC

TransactionsAndOthers == "c1" :> 2 @@ "c2" :> 3 @@ "b1" :> 0 @@ "b2" :> 0

(* Replies of every kind, one whose payload looks like the end of another. *)
Text == Response("+", <<"x">>)
One == Response(":", <<"1">>)
Nil == Response("nil", <<>>)
Bulk == Response("$", <<"CR", "LF", "+">>)
Array(elements) == Response("*", elements)
SomeReplies ==
    {Text, Response("-", <<"x">>), Nil, Bulk, Response("$", <<>>), Array(<<>>),
     Array(<<Nil, Bulk>>), Array(<<Array(<<One, Array(<<>>)>>), Text>>)}

Value(reply) == [reply |-> reply, decoder |-> "value", exec |-> <<>>]
Throws(reply) == [reply |-> reply, decoder |-> "throws", exec |-> <<>>]
Exec(a, b) == [reply |-> Array(<<a.reply, b.reply>>), decoder |-> "exec", exec |-> <<a, b>>]

(* Decoders that throw only on what is not an array, and EXEC.             *)
Requests ==
    {Value(r) : r \in SomeReplies} \cup {Throws(Bulk)}
      \cup {Exec(Throws(Bulk), Value(Array(<<One, Text>>)))}
SomeStreams ==
    {<<a, b>> : a \in Requests, b \in Requests} \cup 
      {<<a, Value(Nil), b>> : a \in Requests, b \in {Value(Text), Value(Array(<<Nil, Bulk>>))}}

(* A transaction whose first reply, an array, cannot be read.              *)
Unreadable == {<<Exec(Throws(Array(<<Bulk, One>>)), Value(Text))>>}

(* What is done to a Redis.                                                *)
NewValue(k, v, u) == [type |-> "set", key |-> k, value |-> [value |-> v, user |-> u]]
Acts ==
    <<NewValue("auth", "v1", NoUser), NewValue("auth", "v2", NoUser), NewValue("auth", "v1", "u"),
      NewValue("name", "v1", NoUser), NewValue("database", "v1", NoUser), NewValue("database", "v2", NoUser),
      [type |-> "quit"], [type |-> "use", client |-> "blocking"], [type |-> "use", client |-> "subscriber"]>>

(* Any three of them; their order does not matter.                         *)
SomePlans ==
    {"o1" :> Acts[i[1]] @@ "o2" :> Acts[i[2]] @@ "o3" :> Acts[i[3]] :
       i \in {ijk \in [1 .. 3 -> DOMAIN Acts] : ijk[1] <= ijk[2] /\ ijk[2] <= ijk[3]}}

=============================================================================
