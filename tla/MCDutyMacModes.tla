--------------------------- MODULE MCDutyMacModes ---------------------------
(***************************************************************************)
(* DutyMacRouter in both of its compile-time configurations at once:      *)
(* ENABLE_BROADCAST_QUEUEING is 0 in the source (immediate broadcasts),   *)
(* and 1 enables the broadcast hold timer and broadcast_cb.  The variable  *)
(* queueing records which build a behaviour runs and never changes, so    *)
(* the reachable states are the union of those of the two builds and one *)
(* run checks the safety invariants of both.                              *)
(***************************************************************************)
EXTENDS Naturals

CONSTANTS
  NETDEV_PKT_QUEUE_SIZE, NETDEV_NETAPI_MSG_QUEUE_SIZE, NEIGHBOR_TABLE_SIZE,
  MAX_RETRIES, MAX_CSMA_BACKOFFS, UnicastOutcomes, MaxSends,
  MaxRx,             \* frames received, in the immediate-broadcast build
  MaxRxQueueing,     \* frames received, in the broadcast-queueing build
  MaxCtl,            \* GET/SET requests, in the immediate-broadcast build
  MaxCtlQueueing     \* GET/SET requests, in the broadcast-queueing build

VARIABLES
  pkt_queue, broadcasting_num, broadcasting, sending_pkt_key,
  recent_dst_l2addr, radio_busy, irq_pending, retry_rexmit,
  global_src_l2addr, ack_pending, bcast_timer, mailbox, rce, hw,
  neighbor_table, neighbor_num, sent, rx_count, delivered, ctl, ctl_calls,
  queueing           \* the build: ENABLE_BROADCAST_QUEUEING

MCAddr == {1, 2}

Imm == INSTANCE DutyMacRouter
         WITH ENABLE_BROADCAST_QUEUEING <- FALSE, Addr <- MCAddr
Bq == INSTANCE DutyMacRouter
         WITH ENABLE_BROADCAST_QUEUEING <- TRUE, Addr <- MCAddr,
              MaxRx <- MaxRxQueueing, MaxCtl <- MaxCtlQueueing

mac_vars == Imm!vars
vars == <<mac_vars, queueing>>

Init == queueing \in BOOLEAN /\ Imm!Init

Next ==
  \/ ~queueing /\ Imm!Next /\ UNCHANGED queueing
  \/ queueing /\ Bq!Next /\ UNCHANGED queueing

Spec == Init /\ [][Next]_vars

(* The fairness of DutyMacRouter, for the build the behaviour runs. *)
InBuild(q, A) == queueing = q /\ A /\ UNCHANGED queueing

Fairness ==
  /\ WF_vars(InBuild(FALSE, Imm!MacThread)) /\ WF_vars(InBuild(TRUE, Bq!MacThread))
  /\ WF_vars(InBuild(FALSE, Imm!RadioRxEnd)) /\ WF_vars(InBuild(TRUE, Bq!RadioRxEnd))
  /\ WF_vars(InBuild(FALSE, Imm!RadioTxEnd)) /\ WF_vars(InBuild(TRUE, Bq!RadioTxEnd))
  /\ WF_vars(InBuild(FALSE, Imm!CsmaBackoffFires))
  /\ WF_vars(InBuild(TRUE, Bq!CsmaBackoffFires))
  /\ WF_vars(InBuild(TRUE, Bq!BroadcastCb))

LiveSpec == Spec /\ Fairness

-----------------------------------------------------------------------------
(* The properties of DutyMacRouter, in the build the behaviour runs. *)
TypeOK == Imm!TypeOK
AckPendingMatchesQueue == Imm!AckPendingMatchesQueue
RadioEventuallyFree == Imm!RadioEventuallyFree

=============================================================================
