---------------------------- MODULE NeighborTable ----------------------------
(***************************************************************************)
(* The router's link-layer neighbor table (neighbor_table[] and            *)
(* neighbor_num in gnrc_netdev2_duty_router.c).  Only the address column   *)
(* is kept: the RSSI/LQI moving averages are data no property tells apart, *)
(* and neighbor_table_update never branches on them.                       *)
(*                                                                         *)
(* Slots are indexed 0..NEIGHBOR_TABLE_SIZE-1 as in the C array; the       *)
(* thread's start-up loop sets every slot's address to 0.                  *)
(***************************************************************************)
EXTENDS Naturals

CONSTANTS
  NEIGHBOR_TABLE_SIZE   \* capacity of neighbor_table[] (10 in the source)

VARIABLES
  neighbor_table,       \* slot -> 16-bit short address stored in it
  neighbor_num          \* number of slots handed out so far

ASSUME NEIGHBOR_TABLE_SIZE \in Nat \ {0}

Slots == 0 .. NEIGHBOR_TABLE_SIZE - 1

(* Mutant: the start-up loop clears addresses to 0xFFFF. *)
InitBcast ==
  /\ neighbor_table = [i \in Slots |-> 65535]
  /\ neighbor_num = 0

(* Start-up loop of _gnrc_netdev_duty_thread: every address cleared to 0. *)
Init ==
  /\ neighbor_table = [i \in Slots |-> 0]
  /\ neighbor_num = 0

(***************************************************************************)
(* The search loop of neighbor_table_update: the first slot, among ALL     *)
(* NEIGHBOR_TABLE_SIZE of them (used or not), whose address equals l2addr. *)
(* 0xFF when none does.                                                    *)
(***************************************************************************)
(* Mutant: the search loop starts at slot 1. *)
FindKeyFrom1(l2addr) ==
  LET hits == {i \in Slots \ {0} : neighbor_table[i] = l2addr}
  IN  IF hits = {} THEN 255
      ELSE CHOOSE i \in hits : \A j \in hits : i <= j

FindKey(l2addr) ==
  LET hits == {i \in Slots : neighbor_table[i] = l2addr}
  IN  IF hits = {} THEN 255
      ELSE CHOOSE i \in hits : \A j \in hits : i <= j

(* Mutant: neighbor_num is incremented before the new entry is written. *)
UpdateIncFirst(l2addr) ==
  IF FindKey(l2addr) = 255
  THEN /\ neighbor_table' = IF neighbor_num + 1 \in Slots
                            THEN [neighbor_table EXCEPT ![neighbor_num + 1] = l2addr]
                            ELSE neighbor_table
       /\ neighbor_num' = (neighbor_num + 1) % 256
  ELSE UNCHANGED <<neighbor_table, neighbor_num>>

(***************************************************************************)
(* neighbor_table_update(l2addr, hdr).  A known address only has its       *)
(* metrics averaged (abstracted: the table is unchanged).  An unknown one  *)
(* is written to slot neighbor_num, which is not bounds-checked: when the  *)
(* table is full the write lands outside the array (undefined behaviour;   *)
(* the model leaves the table unchanged and NeighborNumInBounds flags the  *)
(* step) and neighbor_num still grows.                                     *)
(***************************************************************************)
Update(l2addr) ==
  IF FindKey(l2addr) = 255
  THEN /\ neighbor_table' = IF neighbor_num \in Slots
                            THEN [neighbor_table EXCEPT ![neighbor_num] = l2addr]
                            ELSE neighbor_table
       /\ neighbor_num' = (neighbor_num + 1) % 256
  ELSE UNCHANGED <<neighbor_table, neighbor_num>>

=============================================================================
