--------------------------- MODULE MCNeighborTable ---------------------------
(***************************************************************************)
(* The neighbor table on its own: frames arrive from any source address in *)
(* Addr, in any order.  heard records every source seen (history).         *)
(***************************************************************************)
EXTENDS NeighborTable, FiniteSets

CONSTANTS
  Addr                  \* short source addresses of neighbours

VARIABLES heard

vars == <<neighbor_table, neighbor_num, heard>>

MCInit == Init /\ heard = {}

(* RX_COMPLETE from src: the table update it performs. *)
Receive(src) ==
  /\ Update(src)
  /\ heard' = heard \cup {src}

MCNext == \E a \in Addr : Receive(a)

MCSpec == MCInit /\ [][MCNext]_vars

Used == 0 .. neighbor_num - 1

TypeOK ==
  /\ neighbor_table \in [Slots -> Addr \cup {0}]
  /\ neighbor_num \in 0 .. 255
  /\ heard \subseteq Addr

(* The table never hands out a slot beyond the array: every new neighbor   *)
(* gets a slot index below NEIGHBOR_TABLE_SIZE (neighbor_table_update has  *)
(* no full-table check).                                                   *)
NeighborNumInBounds == neighbor_num <= NEIGHBOR_TABLE_SIZE

(* Every neighbour a frame was received from has its own entry among the   *)
(* slots handed out, so its link metrics are kept (the search loop also    *)
(* scans unused slots, whose address is 0).                                *)
HeardNeighborsRecorded ==
  \A a \in heard : \E i \in Used \cap Slots : neighbor_table[i] = a

(* The used slots, in slot order, as the list NeighborList describes. *)
Abs == INSTANCE NeighborList
         WITH neighbors <- [k \in 1 .. neighbor_num |-> neighbor_table[k - 1]],
              Capacity <- NEIGHBOR_TABLE_SIZE

(* neighbor_table_update implements the neighbor list: a frame from a new  *)
(* address writes it to the next free slot, one already in a used slot    *)
(* leaves the table alone, and no step moves, duplicates or drops an      *)
(* entry.  This covers the search loop scanning all slots (used or not)   *)
(* and the write at neighbor_num.                                          *)
NeighborListRefined == Abs!Spec

=============================================================================
