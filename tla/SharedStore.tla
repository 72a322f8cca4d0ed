---------------------------- MODULE SharedStore ----------------------------
(***************************************************************************)
(* What services.py promises: behind all serving surfaces there is one     *)
(* store of sessions and one of artifacts, and a look finds what any       *)
(* surface has put there and none removed since.  A restart empties the    *)
(* stores that are kept in memory.  Surfaces, instances and caches are not *)
(* mentioned.                                                              *)
(***************************************************************************)
CONSTANT Sessions

VARIABLES
    managed,   \* the kinds kept outside the process, fixed by the deployment
    store,     \* for each kind, the sessions that have one
    answer     \* what the last look was told

Kind == {"session", "artifact"}

Init ==
    /\ managed \in SUBSET Kind
    /\ store = [k \in Kind |-> {}]
    /\ answer = <<>>

Put(k, s) ==
    /\ store' = [store EXCEPT ![k] = @ \cup {s}]
    /\ UNCHANGED <<managed, answer>>

Remove(k, s) ==
    /\ store' = [store EXCEPT ![k] = @ \ {s}]
    /\ UNCHANGED <<managed, answer>>

Look(k, s) ==
    /\ answer' = <<k, s, s \in store[k]>>
    /\ UNCHANGED <<managed, store>>

Restart ==
    /\ store' = [k \in Kind |-> IF k \in managed THEN store[k] ELSE {}]
    /\ UNCHANGED <<managed, answer>>

Next ==
    \/ \E k \in Kind, s \in Sessions : Put(k, s) \/ Remove(k, s) \/ Look(k, s)
    \/ Restart

Spec == Init /\ [][Next]_<<managed, store, answer>>
=============================================================================
