-------------------------- MODULE RequestService --------------------------
(***************************************************************************)
(* What a connection promises its users, whatever happens to it: a request *)
(* is executed by the server at most once, it is completed at most once,   *)
(* and it succeeds only with the result of its own execution, QUIT apart.  *)
(* A request that fails may have been executed all the same.               *)
(***************************************************************************)
CONSTANTS
    Ids,
    Local    \* requests that may succeed without the server: QUIT

VARIABLES
    outcome,    \* outcome[i] is "pending" until the request is completed
    ran         \* the requests the server has executed

Init ==
    /\ outcome = [i \in Ids |-> "pending"]
    /\ ran = {}

(* The server executes one command, or the whole of a transaction.         *)
Execute(S) ==
    /\ S \cap ran = {}
    /\ ran' = ran \cup S
    /\ UNCHANGED outcome

(* Some requests are completed together.                                   *)
Finish(S) ==
    /\ S # {}
    /\ \A i \in S : outcome[i] = "pending"
    /\ \E result \in [S -> {"ok", "failed", "refused"}] :
         /\ \A i \in S : result[i] = "ok" => i \in ran \cup Local
         /\ outcome' = [i \in Ids |-> IF i \in S THEN result[i] ELSE outcome[i]]
    /\ UNCHANGED ran

Next ==
    \/ \E S \in SUBSET Ids : Execute(S)
    \/ \E S \in SUBSET Ids : Finish(S)

Spec == Init /\ [][Next]_<<outcome, ran>>

=============================================================================
