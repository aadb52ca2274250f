--------------------------- MODULE DecoderActor ---------------------------
(***************************************************************************)
(* DecoderActor.scala: decodes the replies of a partition and completes    *)
(* the requests that came with them, by position.                          *)
(***************************************************************************)
EXTENDS ActorSystem

(* Request.complete: QUEUED completes nothing.                             *)
Verdict(r, reply) ==
    CASE reply.kind = "queued" -> "pending"
      [] reply.kind # "queued" /\ reply.to # r.id -> "wrong"
      [] reply.kind = "garbled" /\ reply.to = r.id -> "wrong"
      [] reply.kind = "error" /\ reply.to = r.id -> "failed"
      [] reply.kind = "ok" /\ reply.to = r.id -> "ok"

(* The first `skip` replies of a partition belong to no request.           *)
DecodePartition(d) ==
    /\ dbox[d] # <<>> /\ Head(dbox[d]).type = "Partition"
    /\ LET p == Head(dbox[d])
           Mine(i) == {k \in DOMAIN p.reqs : p.reqs[k].id = i}
       IN outcome' = [i \in Ids |->
            IF outcome[i] = "pending" /\ Mine(i) # {}
            THEN LET k == CHOOSE k \in Mine(i) : TRUE
                 IN Verdict(p.reqs[k], p.replies[p.skip + k])
            ELSE outcome[i]]
    /\ dbox' = [dbox EXCEPT ![d] = Tail(@)]
    /\ UNCHANGED <<lbox, deadDecoders>>

(* A PoisonPill stops the decoder; the listener watches it.                *)
DecoderStop(d) ==
    /\ dbox[d] # <<>> /\ Head(dbox[d]).type = "PoisonPill"
    /\ dbox' = [dbox EXCEPT ![d] = <<>>]
    /\ deadDecoders' = deadDecoders \cup {d}
    /\ Tell("Terminated")
    /\ UNCHANGED outcome

=============================================================================
