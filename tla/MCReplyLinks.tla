---------------------------- MODULE MCReplyLinks ----------------------------
(* Replies name messages that were written before; they may arrive before. *)
EXTENDS ReplyLinks

Earlier == {f \in [0 .. MaxId -> 0 .. MaxId] :
                f[0] = 0 /\ \A id \in 1 .. MaxId : f[id] < id}
=============================================================================
