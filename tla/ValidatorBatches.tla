--------------------------- MODULE ValidatorBatches ---------------------------
(***************************************************************************)
(* What becomes of a batch after it has been submitted to the validator,   *)
(* and what the validator answers when asked for its status.               *)
(*                                                                         *)
(* The validator is external.  It may refuse a batch because its queue is  *)
(* full, forget the batches it has not committed when it restarts, while   *)
(* other validators still have them, and forget after a while why a batch  *)
(* was invalid.  A request for a status with wait=True is answered when    *)
(* the batch is no longer pending or when the wait is over.                *)
(***************************************************************************)

(* Where a batch is:                                                       *)
(*   "pending"    in the queue of the validator                            *)
(*   "committed"  in a block of the chain                                  *)
(*   "invalid"    refused by the transaction processor                     *)
(*   "elsewhere"  unknown to the validator, in the queue of another one    *)
(*   "gone"       unknown to every validator                               *)
BatchPlaces == {"pending", "committed", "invalid", "elsewhere", "gone"}

(* The response to a submission says which; no client looks at it.         *)
AfterSubmission == {"pending", "gone"}

(* The batch may still be executed. *)
Queued(place) == place \in {"pending", "elsewhere"}

(* What a validator or a cache may forget. *)
Forgets(place, after) ==
    \/ place = "pending" /\ after \in {"elsewhere", "gone"}
    \/ place = "invalid" /\ after = "gone"

(* ClientBatchStatus of a batch. *)
Status(place) ==
    CASE place = "pending"                -> "PENDING"
      [] place = "committed"              -> "COMMITTED"
      [] place = "invalid"                -> "INVALID"
      [] place \in {"elsewhere", "gone"}  -> "UNKNOWN"
=============================================================================
