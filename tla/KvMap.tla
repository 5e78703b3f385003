------------------------------- MODULE KvMap -------------------------------
(***************************************************************************)
(* What keyvalue.c promises its client: a map from keys to values, until   *)
(* it is destroyed.  A set that succeeds has taken effect, at one moment   *)
(* of the call; one that fails has none.  The store compares hashes and    *)
(* never keys, so that keys of one hash are one key: to set one is to set  *)
(* all of them.                                                            *)
(***************************************************************************)
CONSTANTS
    Keys, Vals,
    Hash,       \* the integer each key is hashed to
    NULL        \* the answer for a key that was not set

VARIABLES
    map,        \* what key_value_get answers for each key
    open,       \* the store is not destroyed yet
    key, val,   \* the arguments of the call of key_value_set, or NULL
    applied     \* it has taken effect

vars == <<map, open, key, val, applied>>

Unset == [k \in Keys |-> NULL]

Init ==
    /\ map = Unset /\ open = TRUE
    /\ key = NULL /\ val = NULL /\ applied = FALSE

Call(k, v) ==
    /\ open /\ key = NULL
    /\ key' = k /\ val' = v
    /\ UNCHANGED <<map, open, applied>>

Apply ==
    /\ key # NULL /\ ~applied
    /\ applied' = TRUE
    /\ map' = [k \in Keys |-> IF Hash[k] = Hash[key] THEN val ELSE map[k]]
    /\ UNCHANGED <<open, key, val>>

Fail ==
    /\ key # NULL /\ ~applied
    /\ key' = NULL /\ val' = NULL
    /\ UNCHANGED <<map, open, applied>>

Succeed ==
    /\ applied
    /\ key' = NULL /\ val' = NULL /\ applied' = FALSE
    /\ UNCHANGED <<map, open>>

Destroy ==
    /\ open /\ key = NULL
    /\ open' = FALSE /\ map' = Unset
    /\ UNCHANGED <<key, val, applied>>

Next ==
    \/ \E k \in Keys, v \in Vals : Call(k, v)
    \/ Apply \/ Fail \/ Succeed \/ Destroy

Spec == Init /\ [][Next]_vars
=============================================================================
