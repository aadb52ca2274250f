--------------------------- MODULE MCConnection ---------------------------
(* Instances of AkkaConnection for TLC.                                    *)
EXTENDS AkkaConnection, TLC

WithDatabase == [auth |-> 0, select |-> 2, setName |-> 0]
WithName == [auth |-> 0, select |-> 1, setName |-> 1]

Req(i, op, v) == [id |-> i, op |-> op, value |-> v]
One(r) == [type |-> "Request", reqs |-> <<r>>]
Cmd(i) == One(Req(i, "command", 0))
Multi(members, exec) ==
    [type |-> "Transaction",
     reqs |-> <<Req(Internal, "multi", 0)>> \o members \o <<Req(exec, "exec", 0)>>]

(* Workloads.                                                              *)
TwoThreads == ("t1" :> <<Cmd(1), Cmd(2)>>) @@ ("t2" :> <<Cmd(3)>>)
OneThread == ("t1" :> <<Cmd(1), Cmd(2), One(Req(3, "quit", 0))>>)
Pair == ("t1" :> <<Cmd(1), Cmd(2)>>)
Refusing == ("t1" :> <<Cmd(1), One(Req(2, "auth", 1))>>)
Transacting ==
    ("t1" :> <<Multi(<<Req(1, "command", 0), Req(2, "command", 0)>>, 3)>>)
      @@ ("t2" :> <<Cmd(4)>>)
Quitting ==
    ("t1" :> <<Multi(<<Req(1, "command", 0)>>, 2)>>)
      @@ ("t2" :> <<One(Req(3, "setName", 0)), One(Req(4, "quit", 0))>>)

=============================================================================
