------------------------------ MODULE EntryStore ------------------------------
(***************************************************************************)
(* What the persistence of an index promises, whatever its layout: a       *)
(* collection of (row id, box) entries that grows by one entry at a time,  *)
(* from which a delete takes every entry of the row ids it names, and      *)
(* which a restart takes back to exactly the collection last saved.        *)
(*                                                                         *)
(* RTreeIndex keeps the collection in a chain of segments whose deleted    *)
(* entries are overwritten with a tombstone; the segments, the tail fields *)
(* and the tombstones are not visible here.                                *)
(***************************************************************************)
EXTENDS Naturals

CONSTANTS Row, Box

VARIABLES
    entries,  \* how often each entry is in the collection
    image     \* the collection last saved: none or one

Bag   == [Row \X Box -> Nat]
Empty == [e \in Row \X Box |-> 0]

Init == entries = Empty /\ image = {}

Add(e) ==
    /\ entries' = [entries EXCEPT ![e] = @ + 1]
    /\ image' = image

Remove(R) ==
    /\ entries' = [e \in Row \X Box |-> IF e[1] \in R THEN 0 ELSE entries[e]]
    /\ image' = image

Save == image' = {entries} /\ entries' = entries

Recover ==
    /\ entries' \in image
    /\ image' = image

Discard == entries' = Empty /\ image' = {}

Next ==
    \/ \E e \in Row \X Box : Add(e)
    \/ \E R \in SUBSET Row : Remove(R)
    \/ Save
    \/ Recover
    \/ Discard

Spec == Init /\ [][Next]_<<entries, image>>
=============================================================================
