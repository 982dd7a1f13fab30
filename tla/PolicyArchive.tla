--------------------------- MODULE PolicyArchive ---------------------------
(***************************************************************************)
(* What the policy archive promises its users: one value, replaced by one  *)
(* committed transaction at a time.  Each commit starts from the value the *)
(* previous commit left, takes the next sequence number, keeps every       *)
(* object published before and may point at any object it publishes.       *)
(* PolicyStore implements this with a lock file, loose objects and HEAD.   *)
(***************************************************************************)
EXTENDS Naturals

CONSTANTS Objects,      \* content addresses of the non-index objects
          MaxSequence,  \* the largest sequence number (u64::MAX in the code)
          None

VARIABLE archive        \* [sequence, inventory, current]

Init == archive = [sequence |-> 0, inventory |-> {}, current |-> None]

Commit ==
  \E inventory \in SUBSET Objects, current \in Objects \cup {None} :
    /\ archive.sequence < MaxSequence
    /\ archive.inventory \subseteq inventory
    /\ current \in inventory \cup {None}
    /\ <<inventory, current>> # <<archive.inventory, archive.current>>
    /\ archive' = [sequence  |-> archive.sequence + 1,
                   inventory |-> inventory,
                   current   |-> current]

Spec == Init /\ [][Commit]_archive
=============================================================================
