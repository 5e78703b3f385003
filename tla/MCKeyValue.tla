----------------------------- MODULE MCKeyValue -----------------------------
(***************************************************************************)
(* Instances of KeyValue.  Two buckets: eight hashes in one, the least     *)
(* number with which rebalancing recolours and then rotates further up;    *)
(* one in the other.  Two keys take two values, one of a size class and    *)
(* one larger than all of them, so that overwriting changes the memory     *)
(* used; one of the two shares its hash with a third.  The budget has room *)
(* for one large value and some small ones.                                *)
(***************************************************************************)
EXTENDS KeyValue

CONSTANTS short, long

MCKeys == 0 .. 9
MCHash == [k \in MCKeys |-> CASE k = 0 -> 1 [] k = 9 -> 8 [] OTHER -> 2 * k]
MCNodes == {MCHash[k] : k \in MCKeys}
MCVals == {short, long}
MCValLen == [v \in MCVals |-> IF v = short THEN 10 ELSE 65537]
MCValsOf == [k \in MCKeys |-> IF k \in {0, 4} THEN MCVals ELSE {short}]
MCZeroed == {NULL}
MCUnset == {NULL, GARBAGE}
=============================================================================
