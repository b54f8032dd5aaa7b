---------------------------- MODULE DutyMacRouter ----------------------------
(***************************************************************************)
(* The duty-cycled router MAC of                                           *)
(* sys/net/gnrc/link_layer/dutymac/gnrc_netdev2_duty_router.c.            *)
(*                                                                         *)
(* One MAC thread takes messages from its mailbox one at a time; every     *)
(* message handler is one atomic action.  Interrupt context (the radio     *)
(* ISR callback and the CSMA backoff and broadcast timers) runs between    *)
(* handlers: it sets a flag and posts a message, and a post to a full      *)
(* mailbox is lost.  The upper stack's send blocks while the mailbox is    *)
(* full.  The radio is an environment that receives frames, finishes       *)
(* transmissions with a nondeterministic outcome and raises the ISR.       *)
(*                                                                         *)
(* The retry/CSMA engine of send.h (send_with_retries, csma_send_failed,   *)
(* retry_send_failed, ...) is not part of the source tree; its operators   *)
(* below are written from the documented behaviour.                        *)
(*                                                                         *)
(* Queue indexes are 1-based (C index + 1); NONE stands for the 0xFF       *)
(* sentinel of sending_pkt_key.                                            *)
(***************************************************************************)
EXTENDS Naturals, Sequences, SequencesExt

CONSTANTS
  NETDEV_PKT_QUEUE_SIZE,         \* capacity of pkt_queue (64 in the source)
  NETDEV_NETAPI_MSG_QUEUE_SIZE,  \* capacity of the thread mailbox (8)
  NEIGHBOR_TABLE_SIZE,           \* capacity of neighbor_table (10)
  ENABLE_BROADCAST_QUEUEING,     \* compile-time switch (0 in the source)
  Addr,                          \* 16-bit short addresses of neighbours
  MAX_RETRIES,                   \* link retries of send_with_retries(.., -1, ..)
  MAX_CSMA_BACKOFFS,             \* backoffs csma_send_failed grants
  UnicastOutcomes,               \* events the driver may report after a unicast
  MaxSends,                      \* bound: frames the upper stack submits
  MaxRx,                         \* bound: frames the radio receives
  MaxCtl                         \* bound: NETAPI GET/SET requests

ASSUME NETDEV_PKT_QUEUE_SIZE \in Nat \ {0}
ASSUME NETDEV_NETAPI_MSG_QUEUE_SIZE \in Nat \ {0}
ASSUME ENABLE_BROADCAST_QUEUEING \in BOOLEAN
ASSUME MAX_RETRIES \in Nat /\ MAX_CSMA_BACKOFFS \in Nat
ASSUME UnicastOutcomes \subseteq
         {"TX_COMPLETE", "TX_COMPLETE_DATA_PENDING", "TX_NOACK", "TX_MEDIUM_BUSY"}
ASSUME MaxSends \in Nat /\ MaxRx \in Nat /\ MaxCtl \in Nat

VARIABLES
  pkt_queue,          \* Seq of frames: [id, dst, bcast]; pending_num = Len
  broadcasting_num,   \* frames of the broadcast prefix of pkt_queue
  broadcasting,       \* the broadcast hold timer is running
  sending_pkt_key,    \* index of the frame being sent, or NONE
  recent_dst_l2addr,  \* destination of the last frame chosen for sending
  radio_busy,         \* a frame has been handed over and no terminal event came
  irq_pending,        \* an ISR message is posted and not yet handled
  retry_rexmit,       \* next LINK_RETRANSMIT is a retransmission
  global_src_l2addr,  \* source of the last received frame (read by DC SND)
  ack_pending,        \* NETOPT_ACK_PENDING as last set on the radio
  bcast_timer,        \* xtimer `timer` (broadcast hold) is armed
  mailbox,            \* the MAC thread's message queue
  rce,                \* retry/CSMA engine state of send.h
  hw,                 \* transceiver: [state, event] and the frame on air
  neighbor_table,
  neighbor_num,
  sent,               \* frames submitted so far (bound and frame ids)
  rx_count,           \* frames received so far (bound)
  delivered,          \* history: unicast frames in order of first handled TX_COMPLETE
  ctl,                \* "NETAPI_GET_SET" while an upper thread waits for its reply
  ctl_calls           \* GET/SET requests made so far (bound)

vars == <<pkt_queue, broadcasting_num, broadcasting, sending_pkt_key,
          recent_dst_l2addr, radio_busy, irq_pending, retry_rexmit,
          global_src_l2addr, ack_pending, bcast_timer, mailbox, rce, hw,
          neighbor_table, neighbor_num, sent, rx_count, delivered,
          ctl, ctl_calls>>
netapi_vars == <<ctl, ctl_calls>>

NT == INSTANCE NeighborTable

NONE == 0
BCAST == 65535                       \* 0xFFFF

(* A broadcast's netif header has no destination address; the scan of     *)
(* msg_queue_send still reads two bytes past it, so the 16-bit value it   *)
(* compares is arbitrary.  It is fixed when the frame is created.         *)
Frame == [id : 1 .. MaxSends, dst : Addr \cup {BCAST}, bcast : BOOLEAN]
NoFrame == [id |-> 0, dst |-> 0, bcast |-> FALSE]

Msg(t, f, a) == [type |-> t, pkt |-> f, req |-> a]
MsgTypes == {"NETAPI_SND", "NETDEV_EVENT", "CHECK_QUEUE", "REMOVE_QUEUE",
             "DC_SND", "LINK_RETRANSMIT", "NETAPI_GET_SET"}

NoEvent == [kind |-> "NONE", src |-> 0, dreq |-> FALSE, pkt |-> NoFrame]

(* msg_send / msg_send_to_self / msg_send_int: never blocks; dropped when *)
(* the mailbox is full.                                                    *)
Post(mb, m) ==
  IF Len(mb) < NETDEV_NETAPI_MSG_QUEUE_SIZE THEN Append(mb, m) ELSE mb

PostAll(mb, ms) == FoldLeft(Post, mb, ms)

Receiving == hw.state = "RX"          \* is_receiving(dev)

-----------------------------------------------------------------------------
(***************************************************************************)
(* Retry / CSMA engine (send.h, outside the source tree).                  *)
(* rce = [pkt, retries, max, csma, timer, rexmit]: the frame of the        *)
(* current session, link retries used and allowed, CSMA backoffs used,     *)
(* whether the backoff timer is armed, and the retransmission flag it      *)
(* will hand to send_packet.                                               *)
(***************************************************************************)

(* send_with_retries(pkt, n, send_packet_csma, ..., false): a new session, *)
(* whose first attempt goes through send_with_csma, which arms the backoff *)
(* timer.  n = -1 means the default limit.                                 *)
SendWithRetries(pkt, n) ==
  [pkt |-> pkt, retries |-> 0, max |-> IF n = -1 THEN MAX_RETRIES ELSE n,
   csma |-> 0, timer |-> TRUE, rexmit |-> FALSE]

CsmaSendSucceeded(r) == [r EXCEPT !.csma = 0]
RetrySendSucceeded(r) == [r EXCEPT !.retries = 0]

CsmaWillRetry(r) == r.csma < MAX_CSMA_BACKOFFS
(* csma_send_failed(): another backoff, or give up and reset. *)
CsmaSendFailed(r) ==
  IF CsmaWillRetry(r) THEN [r EXCEPT !.csma = @ + 1, !.timer = TRUE]
                      ELSE [r EXCEPT !.csma = 0]

RetryWillRetry(r) == r.retries < r.max
(* retry_send_failed(): resend through send_packet_csma(pkt, .., true), or *)
(* give up and reset.                                                      *)
RetrySendFailed(r) ==
  IF RetryWillRetry(r)
  THEN [r EXCEPT !.retries = @ + 1, !.csma = 0, !.timer = TRUE, !.rexmit = TRUE]
  ELSE [r EXCEPT !.retries = 0]

-----------------------------------------------------------------------------
(***************************************************************************)
(* Packet queue.                                                           *)
(***************************************************************************)

(* The scan predicate of msg_queue_send; addr_is_dutycycled() is a stub   *)
(* that returns false, so every frame qualifies when to_dutycycled_dest   *)
(* is false.                                                               *)
addr_is_dutycycled(a) == FALSE

Matches(f, to_dutycycled_dest, dst_l2addr) ==
  \/ to_dutycycled_dest /\ f.dst = dst_l2addr
  \/ ~to_dutycycled_dest /\ ~addr_is_dutycycled(f.dst)

SelectKey(q, bc, to_dutycycled_dest, dst_l2addr) ==
  IF bc THEN 1
  ELSE SelectInSeq(q, LAMBDA f : Matches(f, to_dutycycled_dest, dst_l2addr))

(* The frame at key k; slot 1 of an empty queue while broadcasting is a  *)
(* stale slot whose frame was already released (NoFrame).                 *)
SlotFrame(q, k) == IF k <= Len(q) THEN q[k] ELSE NoFrame

(* msg_queue_send(pkt_queue, to_dutycycled_dest, dst_l2addr): on a hit,   *)
(* record the key and destination, mark the radio busy and start a retry  *)
(* session with the default budget.  q, bc and key0 are the queue, the    *)
(* broadcasting flag and sending_pkt_key as the caller left them.         *)
MsgQueueSend(q, bc, key0, to_dutycycled_dest, dst_l2addr) ==
  LET k == SelectKey(q, bc, to_dutycycled_dest, dst_l2addr)
  IN  IF k = NONE
      THEN /\ sending_pkt_key' = key0
           /\ UNCHANGED <<recent_dst_l2addr, radio_busy, rce>>
      ELSE /\ sending_pkt_key' = k
           /\ recent_dst_l2addr' = IF bc THEN BCAST ELSE q[k].dst
           /\ radio_busy' = TRUE
           /\ rce' = SendWithRetries(SlotFrame(q, k), -1)

NoSend(key0) ==
  /\ sending_pkt_key' = key0
  /\ UNCHANGED <<recent_dst_l2addr, radio_busy, rce>>

-----------------------------------------------------------------------------
(***************************************************************************)
(* Radio events handled by _event_cb for a finished transmission.  base is *)
(* the mailbox the callback posts to and after the messages its caller     *)
(* posts once the callback returns.                                        *)
(***************************************************************************)

(* Mutant: the terminal tail forgets to free the radio. *)
TxDoneKeepBusy(r, base, after) ==
  /\ UNCHANGED radio_busy
  /\ rce' = r
  /\ IF broadcasting
     THEN /\ recent_dst_l2addr' = BCAST
          /\ mailbox' = PostAll(base, after)
     ELSE /\ UNCHANGED recent_dst_l2addr
          /\ mailbox' = PostAll(base, <<Msg("REMOVE_QUEUE", NoFrame, 0)>> \o after)

(* The terminal tail shared by TX_COMPLETE and an exhausted TX_NOACK:     *)
(* the radio is free; a broadcast is kept, a unicast removal is posted.   *)
TxDone(r, base, after) ==
  /\ radio_busy' = FALSE
  /\ rce' = r
  /\ IF broadcasting
     THEN /\ recent_dst_l2addr' = BCAST
          /\ mailbox' = PostAll(base, after)
     ELSE /\ UNCHANGED recent_dst_l2addr
          /\ mailbox' = PostAll(base, <<Msg("REMOVE_QUEUE", NoFrame, 0)>> \o after)

(* Only rce changes: the engine will try again later. *)
TxRetry(r, base, after) ==
  /\ rce' = r
  /\ mailbox' = PostAll(base, after)
  /\ UNCHANGED <<radio_busy, recent_dst_l2addr>>

(* TX_NOACK, and TX_MEDIUM_BUSY once CSMA gave up: the link-retry layer. *)
NoAckTail(r, base, after) ==
  IF RetryWillRetry(r) THEN TxRetry(RetrySendFailed(r), base, after)
                       ELSE TxDone(RetrySendFailed(r), base, after)

TxEventCb(ev, base, after) ==
  CASE ev = "TX_COMPLETE" ->
         TxDone(RetrySendSucceeded(CsmaSendSucceeded(rce)), base, after)
    [] ev = "TX_MEDIUM_BUSY" ->
         IF CsmaWillRetry(rce) THEN TxRetry(CsmaSendFailed(rce), base, after)
                               ELSE NoAckTail(CsmaSendFailed(rce), base, after)
    [] ev = "TX_NOACK" ->
         NoAckTail(CsmaSendSucceeded(rce), base, after)
    [] OTHER ->                     \* e.g. TX_COMPLETE_DATA_PENDING: no case
         TxRetry(rce, base, after)

-----------------------------------------------------------------------------
(***************************************************************************)
(* Message handlers of the event loop in _gnrc_netdev_duty_thread.  Each   *)
(* takes the head of the mailbox.                                          *)
(***************************************************************************)
Head_is(t) == mailbox # <<>> /\ Head(mailbox).type = t

RadioFree == ~radio_busy /\ ~irq_pending /\ ~Receiving

(* Mutant: the capacity test of msg_queue_add admits one frame too many. *)
QueueFullOffByOne(q) == Len(q) > NETDEV_PKT_QUEUE_SIZE

(* msg_queue_add refuses a frame when pending_num has reached the queue   *)
(* size ("Queue loss at netdev").                                         *)
QueueFull(q) == Len(q) >= NETDEV_PKT_QUEUE_SIZE

(* msg_queue_add, broadcast-queueing branch: the frame goes in at index   *)
(* broadcasting_num, behind the broadcasts already queued and ahead of the *)
(* unicasts.  When broadcasting_num has run past pending_num the frame is  *)
(* written beyond the live entries and the slot that becomes live is a    *)
(* stale one.                                                              *)
BroadcastInsert(q, f) ==
  IF broadcasting_num <= Len(q) THEN InsertAt(q, broadcasting_num + 1, f)
                                ELSE Append(q, NoFrame)

(* msg_queue_remove: the queue without the entry at key (nothing when    *)
(* key is the 0xFF sentinel).                                             *)
QueueAfterRemove(key) ==
  IF key = NONE THEN pkt_queue ELSE RemoveAt(pkt_queue, key)

(* GNRC_NETAPI_MSG_TYPE_SND: msg_queue_add, then ACK-pending and a drain  *)
(* towards always-on neighbours.  A frame that is not added is released.  *)
HandleNetapiSnd ==
  /\ Head_is("NETAPI_SND")
  /\ LET f    == Head(mailbox).pkt
         q    == pkt_queue
         rest == Tail(mailbox)
         \* broadcast-queueing branch of msg_queue_add
         first == broadcasting_num = 0
         qb    == BroadcastInsert(q, f)
         bcb   == broadcasting \/ first
         keyb  == IF first THEN 1 ELSE sending_pkt_key
     IN  /\ mailbox' = rest
         /\ CASE QueueFull(q) ->                            \* queue loss
                UNCHANGED <<pkt_queue, broadcasting_num, broadcasting,
                            sending_pkt_key, recent_dst_l2addr, radio_busy,
                            rce, ack_pending, bcast_timer>>
           [] f.bcast /\ ENABLE_BROADCAST_QUEUEING ->
                /\ pkt_queue' = qb
                /\ broadcasting_num' = broadcasting_num + 1
                /\ broadcasting' = bcb
                /\ bcast_timer' = (bcast_timer \/ first)
                /\ ack_pending' = TRUE
                /\ IF RadioFree THEN MsgQueueSend(qb, bcb, keyb, FALSE, 0)
                                ELSE NoSend(keyb)
           [] f.bcast /\ ~radio_busy ->                     \* send right away
                /\ pkt_queue' = Append(q, f)
                /\ sending_pkt_key' = Len(q) + 1
                /\ radio_busy' = TRUE
                /\ rce' = SendWithRetries(f, 0)
                /\ ack_pending' = TRUE
                /\ UNCHANGED <<broadcasting_num, broadcasting, bcast_timer,
                               recent_dst_l2addr>>
           [] f.bcast ->                                    \* radio busy: dropped
                UNCHANGED <<pkt_queue, broadcasting_num, broadcasting,
                            sending_pkt_key, recent_dst_l2addr, radio_busy,
                            rce, ack_pending, bcast_timer>>
           [] OTHER ->                                      \* unicast: append
                /\ pkt_queue' = Append(q, f)
                /\ ack_pending' = TRUE
                /\ UNCHANGED <<broadcasting_num, broadcasting, bcast_timer>>
                /\ IF RadioFree
                   THEN MsgQueueSend(Append(q, f), broadcasting,
                                     sending_pkt_key, FALSE, 0)
                   ELSE NoSend(sending_pkt_key)
  /\ UNCHANGED <<irq_pending, retry_rexmit, global_src_l2addr, hw,
                 neighbor_table, neighbor_num, sent, rx_count, delivered>>
  /\ UNCHANGED netapi_vars

(* Mutant: the empty-queue branch never clears ACK-pending. *)
RemoveAckPendingKept(q1) == ack_pending

(* The ACK-pending bit after REMOVE_QUEUE when no burst is started: it is  *)
(* cleared only once the queue is empty.                                  *)
RemoveAckPending(q1) == IF q1 = <<>> THEN FALSE ELSE ack_pending

(* The tail of msg_queue_remove: with frames left and broadcasts still    *)
(* counted, the new head is held for a sleep interval (timer set,         *)
(* broadcasting, sending_pkt_key = 0); otherwise sending_pkt_key = 0xFF.  *)
(* A key of 0xFF returned at once, before any of this.                    *)
RemoveRearms(key, q1) == key # NONE /\ q1 # <<>> /\ broadcasting_num > 0

(* GNRC_NETDEV_DUTYCYCLE_MSG_TYPE_REMOVE_QUEUE: msg_queue_remove, then a  *)
(* burst to the same destination or else to an always-on neighbour, or   *)
(* clear ACK-pending once the queue is empty.                             *)
HandleRemoveQueue ==
  /\ Head_is("REMOVE_QUEUE")
  /\ LET key   == sending_pkt_key
         q1    == QueueAfterRemove(key)
         rearm == RemoveRearms(key, q1)
         key1  == IF rearm THEN 1 ELSE NONE
         bc1   == broadcasting \/ rearm
         burst == SelectKey(q1, bc1, TRUE, recent_dst_l2addr)
     IN  /\ pkt_queue' = q1
         /\ broadcasting' = bc1
         /\ bcast_timer' = (bcast_timer \/ rearm)
         /\ mailbox' = Tail(mailbox)
         /\ IF q1 # <<>> /\ RadioFree /\ recent_dst_l2addr # BCAST
            THEN /\ ack_pending' = ack_pending
                 /\ IF burst # NONE
                    THEN MsgQueueSend(q1, bc1, key1, TRUE, recent_dst_l2addr)
                    ELSE MsgQueueSend(q1, bc1, key1, FALSE, 0)
            ELSE /\ ack_pending' = RemoveAckPending(q1)
                 /\ NoSend(key1)
  /\ UNCHANGED <<broadcasting_num, irq_pending, retry_rexmit,
                 global_src_l2addr, hw, neighbor_table, neighbor_num, sent,
                 rx_count, delivered>>
  /\ UNCHANGED netapi_vars

(* GNRC_NETDEV_DUTYCYCLE_MSG_TYPE_CHECK_QUEUE: drain towards always-on     *)
(* neighbours when the radio is free.                                     *)
HandleCheckQueue ==
  /\ Head_is("CHECK_QUEUE")
  /\ mailbox' = Tail(mailbox)
  /\ IF RadioFree
     THEN MsgQueueSend(pkt_queue, broadcasting, sending_pkt_key, FALSE, 0)
     ELSE NoSend(sending_pkt_key)
  /\ UNCHANGED <<pkt_queue, broadcasting_num, broadcasting, irq_pending,
                 retry_rexmit, global_src_l2addr, ack_pending, bcast_timer,
                 hw, neighbor_table, neighbor_num, sent, rx_count, delivered>>
  /\ UNCHANGED netapi_vars

(* GNRC_NETDEV_DUTYCYCLE_MSG_TYPE_SND: a leaf polled us; send it a frame. *)
(* The message carries a pointer to global_src_l2addr, read only now.     *)
HandleDcSnd ==
  /\ Head_is("DC_SND")
  /\ mailbox' = Tail(mailbox)
  /\ IF pkt_queue # <<>> /\ ~radio_busy
     THEN MsgQueueSend(pkt_queue, broadcasting, sending_pkt_key,
                       TRUE, global_src_l2addr)
     ELSE NoSend(sending_pkt_key)
  /\ UNCHANGED <<pkt_queue, broadcasting_num, broadcasting, irq_pending,
                 retry_rexmit, global_src_l2addr, ack_pending, bcast_timer,
                 hw, neighbor_table, neighbor_num, sent, rx_count, delivered>>
  /\ UNCHANGED netapi_vars

(* _event_cb for RX_DATAREQ (folded into ev.dreq) and RX_COMPLETE: update *)
(* the neighbor table, remember the source, and post DC_SND (carrying a   *)
(* pointer to global_src_l2addr) when a data request finds frames queued. *)
RxComplete(ev, base, after) ==
  /\ NT!Update(ev.src)
  /\ global_src_l2addr' = ev.src
  /\ mailbox' = PostAll(base,
                  (IF ev.dreq /\ pkt_queue # <<>>
                   THEN <<Msg("DC_SND", NoFrame, ev.src)>> ELSE <<>>)
                  \o after)

(* NETDEV_MSG_TYPE_EVENT: clear irq_pending, let the driver service the  *)
(* interrupt (dev->driver->isr, which calls _event_cb for what happened),  *)
(* then post CHECK_QUEUE to self.                                          *)
HandleNetdevEvent ==
  /\ Head_is("NETDEV_EVENT")
  /\ LET ev    == hw.event
         rest  == Tail(mailbox)
         check == <<Msg("CHECK_QUEUE", NoFrame, 0)>>
     IN  /\ irq_pending' = FALSE
         /\ hw' = [hw EXCEPT !.event = NoEvent]
         /\ CASE ev.kind = "NONE" ->
                /\ mailbox' = PostAll(rest, check)
                /\ UNCHANGED <<radio_busy, recent_dst_l2addr, rce,
                               global_src_l2addr, neighbor_table,
                               neighbor_num, delivered>>
           [] ev.kind = "RX" ->
                /\ RxComplete(ev, rest, check)
                /\ UNCHANGED <<radio_busy, recent_dst_l2addr, rce, delivered>>
           [] OTHER ->
                /\ TxEventCb(ev.kind, rest, check)
                /\ delivered' = IF /\ ev.kind = "TX_COMPLETE" /\ ~ev.pkt.bcast
                                   /\ ev.pkt \notin ToSet(delivered)
                                THEN Append(delivered, ev.pkt) ELSE delivered
                /\ UNCHANGED <<global_src_l2addr, neighbor_table, neighbor_num>>
  /\ UNCHANGED <<pkt_queue, broadcasting_num, broadcasting, sending_pkt_key,
                 retry_rexmit, ack_pending, bcast_timer, sent, rx_count>>
  /\ UNCHANGED netapi_vars

(* GNRC_NETDEV_DUTYCYCLE_MSG_TYPE_LINK_RETRANSMIT: hand the frame to the   *)
(* driver (send_ or resend_without_release), or post the message again    *)
(* while an interrupt is pending or a frame is being received.  A driver  *)
(* error is fed back as TX_MEDIUM_BUSY.  The driver's return code is      *)
(* nondeterministic; a transceiver still transmitting always refuses.     *)
HandleLinkRetransmit ==
  /\ Head_is("LINK_RETRANSMIT")
  /\ LET m == Head(mailbox) IN
     IF ~irq_pending /\ ~Receiving
     THEN \/ /\ hw.state = "IDLE"
             /\ hw' = [hw EXCEPT !.state = "TX", !.pkt = m.pkt]
             /\ mailbox' = Tail(mailbox)
             /\ UNCHANGED <<radio_busy, recent_dst_l2addr, rce>>
          \/ /\ hw' = hw
             /\ TxEventCb("TX_MEDIUM_BUSY", Tail(mailbox), <<>>)
     ELSE /\ mailbox' = Post(Tail(mailbox), m)
          /\ UNCHANGED <<hw, radio_busy, recent_dst_l2addr, rce>>
  /\ UNCHANGED <<pkt_queue, broadcasting_num, broadcasting, sending_pkt_key,
                 irq_pending, retry_rexmit, global_src_l2addr, ack_pending,
                 bcast_timer, neighbor_table, neighbor_num, sent, rx_count,
                 delivered>>
  /\ UNCHANGED netapi_vars

-----------------------------------------------------------------------------
(***************************************************************************)
(* Interrupt context and environment.                                      *)
(***************************************************************************)

(* _event_cb(dev, NETDEV_EVENT_ISR), run by the driver's interrupt.       *)
Isr ==
  /\ irq_pending' = TRUE
  /\ mailbox' = Post(mailbox, Msg("NETDEV_EVENT", NoFrame, 0))

(* The upper stack submits a frame (gnrc_netapi_send blocks while the     *)
(* mailbox is full).                                                       *)
UpperSend ==
  /\ sent < MaxSends
  /\ Len(mailbox) < NETDEV_NETAPI_MSG_QUEUE_SIZE
  /\ \E d \in Addr \cup {BCAST}, bc \in BOOLEAN :
       /\ (~bc => d \in Addr)
       /\ mailbox' = Append(mailbox,
                      Msg("NETAPI_SND", [id |-> sent + 1, dst |-> d, bcast |-> bc], 0))
  /\ sent' = sent + 1
  /\ UNCHANGED <<pkt_queue, broadcasting_num, broadcasting, sending_pkt_key,
                 recent_dst_l2addr, radio_busy, irq_pending, retry_rexmit,
                 global_src_l2addr, ack_pending, bcast_timer, rce, hw,
                 neighbor_table, neighbor_num, rx_count, delivered>>
  /\ UNCHANGED netapi_vars

(* An upper thread calls gnrc_netapi_set or gnrc_netapi_get: the request *)
(* goes to the mailbox by msg_send_receive, which blocks while the        *)
(* mailbox is full and then until the MAC thread replies.                  *)
UpperGetSet ==
  /\ ctl = "NONE" /\ ctl_calls < MaxCtl
  /\ Len(mailbox) < NETDEV_NETAPI_MSG_QUEUE_SIZE
  /\ mailbox' = Append(mailbox, Msg("NETAPI_GET_SET", NoFrame, 0))
  /\ ctl' = "NETAPI_GET_SET"
  /\ ctl_calls' = ctl_calls + 1
  /\ UNCHANGED <<pkt_queue, broadcasting_num, broadcasting, sending_pkt_key,
                 recent_dst_l2addr, radio_busy, irq_pending, retry_rexmit,
                 global_src_l2addr, ack_pending, bcast_timer, rce, hw,
                 neighbor_table, neighbor_num, sent, rx_count, delivered>>

(* A frame starts arriving on an idle transceiver. *)
RadioRxStart ==
  /\ hw.state = "IDLE" /\ hw.event = NoEvent
  /\ rx_count < MaxRx
  /\ hw' = [hw EXCEPT !.state = "RX"]
  /\ rx_count' = rx_count + 1
  /\ UNCHANGED <<pkt_queue, broadcasting_num, broadcasting, sending_pkt_key,
                 recent_dst_l2addr, radio_busy, irq_pending, retry_rexmit,
                 global_src_l2addr, ack_pending, bcast_timer, mailbox, rce,
                 neighbor_table, neighbor_num, sent, delivered>>
  /\ UNCHANGED netapi_vars

(* Reception ends: the frame (from src, a data request or not) waits for  *)
(* the driver's isr() and the interrupt fires.                             *)
RadioRxEnd ==
  /\ hw.state = "RX"
  /\ \E src \in Addr, dreq \in BOOLEAN :
       hw' = [state |-> "IDLE", pkt |-> NoFrame,
              event |-> [kind |-> "RX", src |-> src, dreq |-> dreq, pkt |-> NoFrame]]
  /\ Isr
  /\ UNCHANGED <<pkt_queue, broadcasting_num, broadcasting, sending_pkt_key,
                 recent_dst_l2addr, radio_busy, retry_rexmit, global_src_l2addr,
                 ack_pending, bcast_timer, rce, neighbor_table, neighbor_num,
                 sent, rx_count, delivered>>
  /\ UNCHANGED netapi_vars

(* A broadcast asks for no ACK, so it never ends in TX_NOACK or with the  *)
(* frame-pending bit.                                                     *)
Outcomes(f) ==
  IF f.bcast THEN UnicastOutcomes \ {"TX_NOACK", "TX_COMPLETE_DATA_PENDING"}
             ELSE UnicastOutcomes

(* Transmission ends with one of the driver's TX events. *)
RadioTxEnd ==
  /\ hw.state = "TX"
  /\ \E o \in Outcomes(hw.pkt) :
       hw' = [state |-> "IDLE", pkt |-> NoFrame,
              event |-> [kind |-> o, src |-> 0, dreq |-> FALSE, pkt |-> hw.pkt]]
  /\ Isr
  /\ UNCHANGED <<pkt_queue, broadcasting_num, broadcasting, sending_pkt_key,
                 recent_dst_l2addr, radio_busy, retry_rexmit, global_src_l2addr,
                 ack_pending, bcast_timer, rce, neighbor_table, neighbor_num,
                 sent, rx_count, delivered>>
  /\ UNCHANGED netapi_vars

(* The CSMA backoff timer fires: send_packet sets retry_rexmit and posts  *)
(* LINK_RETRANSMIT from interrupt context.                                *)
CsmaBackoffFires ==
  /\ rce.timer
  /\ rce' = [rce EXCEPT !.timer = FALSE]
  /\ retry_rexmit' = rce.rexmit
  /\ mailbox' = Post(mailbox, Msg("LINK_RETRANSMIT", rce.pkt, 0))
  /\ UNCHANGED <<pkt_queue, broadcasting_num, broadcasting, sending_pkt_key,
                 recent_dst_l2addr, radio_busy, irq_pending, global_src_l2addr,
                 ack_pending, bcast_timer, hw, neighbor_table, neighbor_num,
                 sent, rx_count, delivered>>
  /\ UNCHANGED netapi_vars

(* broadcast_cb: the hold interval is over; runs in interrupt context.    *)
BroadcastCb ==
  /\ bcast_timer
  /\ bcast_timer' = FALSE
  /\ broadcasting' = FALSE
  /\ broadcasting_num' = (broadcasting_num + 255) % 256
  /\ mailbox' = Post(mailbox, Msg("REMOVE_QUEUE", NoFrame, 0))
  /\ UNCHANGED <<pkt_queue, sending_pkt_key, recent_dst_l2addr, radio_busy,
                 irq_pending, retry_rexmit, global_src_l2addr, ack_pending,
                 rce, hw, neighbor_table, neighbor_num, sent, rx_count,
                 delivered>>
  /\ UNCHANGED netapi_vars

-----------------------------------------------------------------------------
Init ==
  /\ pkt_queue = <<>>
  /\ broadcasting_num = 0
  /\ broadcasting = FALSE
  /\ sending_pkt_key = NONE
  /\ recent_dst_l2addr = 0
  /\ radio_busy = FALSE
  /\ irq_pending = FALSE
  /\ retry_rexmit = FALSE
  /\ global_src_l2addr = 0
  /\ ack_pending = FALSE
  /\ bcast_timer = FALSE
  /\ mailbox = <<>>
  /\ rce = [pkt |-> NoFrame, retries |-> 0, max |-> 0, csma |-> 0,
            timer |-> FALSE, rexmit |-> FALSE]
  /\ hw = [state |-> "IDLE", event |-> NoEvent, pkt |-> NoFrame]
  /\ NT!Init
  /\ sent = 0
  /\ rx_count = 0
  /\ delivered = <<>>
  /\ ctl = "NONE"
  /\ ctl_calls = 0

(* reply.type = GNRC_NETAPI_MSG_TYPE_ACK; msg_reply(&msg, &reply): the   *)
(* caller blocked in msg_send_receive is released.                         *)
NetapiReply == "NONE"

(* GNRC_NETAPI_MSG_TYPE_SET / GET: driver->set or driver->get of the      *)
(* option, then the reply with its result.  The options a caller sets or  *)
(* gets through the MAC (addresses, channel, power) are not state of this *)
(* model, so a GET and a SET are one kind of request, NETAPI_GET_SET.    *)
HandleNetapiGetSet ==
  /\ Head_is("NETAPI_GET_SET")
  /\ mailbox' = Tail(mailbox)
  /\ ctl' = NetapiReply
  /\ UNCHANGED <<pkt_queue, broadcasting_num, broadcasting, sending_pkt_key,
                 recent_dst_l2addr, radio_busy, irq_pending, retry_rexmit,
                 global_src_l2addr, ack_pending, bcast_timer, rce, hw,
                 neighbor_table, neighbor_num, sent, rx_count, delivered,
                 ctl_calls>>

MacThread ==
  \/ HandleNetapiSnd
  \/ HandleRemoveQueue
  \/ HandleCheckQueue
  \/ HandleDcSnd
  \/ HandleNetdevEvent
  \/ HandleLinkRetransmit
  \/ HandleNetapiGetSet

Next ==
  \/ MacThread
  \/ UpperSend
  \/ UpperGetSet
  \/ RadioRxStart
  \/ RadioRxEnd
  \/ RadioTxEnd
  \/ CsmaBackoffFires
  \/ BroadcastCb

(***************************************************************************)
(* The MAC thread runs whenever its mailbox is not empty; the transceiver *)
(* finishes what it started; armed timers fire.  The upper stack and the  *)
(* neighbours' traffic are not required to do anything.                   *)
(***************************************************************************)
Fairness ==
  /\ WF_vars(MacThread)
  /\ WF_vars(RadioRxEnd)
  /\ WF_vars(RadioTxEnd)
  /\ WF_vars(CsmaBackoffFires)
  /\ WF_vars(BroadcastCb)

Spec == Init /\ [][Next]_vars /\ Fairness

-----------------------------------------------------------------------------
(***************************************************************************)
(* Properties.                                                             *)
(***************************************************************************)

Event == [kind : {"NONE", "RX", "TX_COMPLETE", "TX_COMPLETE_DATA_PENDING",
                  "TX_NOACK", "TX_MEDIUM_BUSY"},
          src : Addr \cup {0}, dreq : BOOLEAN, pkt : Frame \cup {NoFrame}]

TypeOK ==
  /\ pkt_queue \in Seq(Frame \cup {NoFrame}) /\ Len(pkt_queue) <= NETDEV_PKT_QUEUE_SIZE
  /\ broadcasting_num \in 0 .. 255
  /\ broadcasting \in BOOLEAN
  /\ sending_pkt_key \in 0 .. NETDEV_PKT_QUEUE_SIZE
  /\ recent_dst_l2addr \in Addr \cup {0, BCAST}
  /\ {radio_busy, irq_pending, retry_rexmit, ack_pending, bcast_timer}
       \subseteq BOOLEAN
  /\ global_src_l2addr \in Addr \cup {0}
  /\ mailbox \in Seq([type : MsgTypes, pkt : Frame \cup {NoFrame},
                      req : Addr \cup {0}])
  /\ Len(mailbox) <= NETDEV_NETAPI_MSG_QUEUE_SIZE
  /\ rce \in [pkt : Frame \cup {NoFrame}, retries : 0 .. MAX_RETRIES,
              max : 0 .. MAX_RETRIES, csma : 0 .. MAX_CSMA_BACKOFFS,
              timer : BOOLEAN, rexmit : BOOLEAN]
  /\ hw \in [state : {"IDLE", "RX", "TX"}, pkt : Frame \cup {NoFrame},
             event : Event]
  /\ delivered \in Seq(Frame \cup {NoFrame})
  /\ ctl \in {"NONE", "NETAPI_GET_SET"} /\ ctl_calls \in 0 .. MaxCtl

(* Spec invariant 3, made precise: while the radio is busy, the frame the *)
(* retry engine is sending is still in the queue at sending_pkt_key, so   *)
(* the REMOVE_QUEUE that follows its terminal event releases that frame   *)
(* and no other.  Breaking it takes a NETAPI_SND (or a broadcast) handled *)
(* between a TX_COMPLETE and the REMOVE_QUEUE it posted.                  *)
InFlightFrameQueued ==
  radio_busy =>
    /\ sending_pkt_key \in 1 .. Len(pkt_queue)
    /\ pkt_queue[sending_pkt_key] = rce.pkt

(* Spec invariant 4: after every handled message the radio's ACK-pending  *)
(* bit says whether frames are queued (set in the SND handler, cleared    *)
(* only by REMOVE_QUEUE once the queue is empty).                         *)
AckPendingMatchesQueue == ack_pending = (pkt_queue # <<>>)

(* Spec invariant 5: two unicast frames to the same neighbour complete in *)
(* the order they were submitted (first completion of each).              *)
FirstDone(i) == SelectInSeq(delivered, LAMBDA f : f.id = i)

RadioEventuallyFree == radio_busy ~> ~radio_busy


=============================================================================
