---------------------------- MODULE NeighborList ----------------------------
(***************************************************************************)
(* What the neighbor table promises (spec.md, sections 3 and 4.2): a       *)
(* bounded list of the link addresses heard, in the order they were first *)
(* heard.  An entry is created on the first frame from an address and     *)
(* never moved or destroyed; later frames only update its metrics.  When  *)
(* the table is full the source's behaviour is unspecified; this          *)
(* specification keeps the list as it is.                                 *)
(***************************************************************************)
EXTENDS Sequences, SequencesExt

CONSTANTS
  Addr,       \* link addresses frames may come from
  Capacity    \* NEIGHBOR_TABLE_SIZE

VARIABLE neighbors   \* the entries, oldest first

Init == neighbors = <<>>

(* A frame from a: a new address is appended while there is room. *)
Learn(a) ==
  /\ a \notin ToSet(neighbors)
  /\ Len(neighbors) < Capacity
  /\ neighbors' = Append(neighbors, a)

Next == \E a \in Addr : Learn(a)

Spec == Init /\ [][Next]_neighbors

====
