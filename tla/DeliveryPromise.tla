-------------------------- MODULE DeliveryPromise ---------------------------
(***************************************************************************)
(* What a call of the toolbox promises to the ingestion service, whatever  *)
(* happens inside: objects first, the delivery that claims them after, one *)
(* delivery at most, and what it claims stays true.  Puts may land at any  *)
(* time, also once the call is over, but none that disturbs a claim.  A    *)
(* call that ends without a delivery may leave objects behind.             *)
(***************************************************************************)
EXTENDS Sequences

CONSTANTS Key, Content

VARIABLES
    bucket,         \* key -> content
    registered,     \* the sets of <<key, content>> that deliveries claim
    outcome         \* "running", "done", "failed" or "crashed"

promiseVars == <<bucket, registered, outcome>>

PromiseInit ==
    /\ registered = <<>>
    /\ outcome = "running"

\* No write makes a claim untrue.
Store ==
    /\ \E k \in Key, c \in Content :
          /\ bucket' = [bucket EXCEPT ![k] = c]
          /\ \A d \in DOMAIN registered : \A claim \in registered[d] :
                claim[1] = k => claim[2] = c
    /\ UNCHANGED <<registered, outcome>>

\* The caller may or may not learn that its delivery is registered.
Register ==
    /\ outcome = "running"
    /\ registered = <<>>
    /\ Len(registered') = 1
    /\ registered'[1] \subseteq {<<k, bucket[k]>> : k \in Key}
    /\ outcome' \in {"done", "failed", "crashed"}
    /\ UNCHANGED bucket

Stop ==
    /\ outcome = "running"
    /\ outcome' \in {"done", "failed", "crashed"}
    /\ UNCHANGED <<bucket, registered>>

PromiseNext == Store \/ Register \/ Stop

PromiseSpec == PromiseInit /\ [][PromiseNext]_promiseVars
=============================================================================
