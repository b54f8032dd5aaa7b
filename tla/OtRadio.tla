------------------------------ MODULE OtRadio ------------------------------
(***************************************************************************)
(* The OpenThread radio platform glue of                                   *)
(* pkg/openthread/contrib/platform_radio.c, between the OpenThread core    *)
(* (the caller of the otPlatRadio* functions) and a netdev driver.        *)
(*                                                                         *)
(* Each otPlatRadio* call that changes state is one action.  The glue's   *)
(* state is sDisabled, the two source-match counters and what it sets on  *)
(* the driver: NETOPT_STATE and NETOPT_ACK_PENDING.  The caller is the    *)
(* environment: it follows OpenThread's radio state machine (Disabled,    *)
(* Sleep, Receive, Transmit) and keeps its own source-match tables, the   *)
(* sets short_tbl and ext_tbl.  When StrictCaller is FALSE it may also    *)
(* clear an entry that is not in its table, which the radio API allows    *)
(* (it defines an error return for that case).                           *)
(* The setters of channel, power, PAN id, addresses and promiscuous mode  *)
(* write the driver's options.  The addresses are kept as the bytes the   *)
(* driver is given, so that the byte-order conversions of the glue are   *)
(* modelled by what they do; the caller records what it set last in       *)
(* ot_panid, ot_short, ot_ext and ot_promisc.  The frame buffers are data *)
(* that no property tells apart.                                          *)
(***************************************************************************)
EXTENDS Naturals, Sequences
LOCAL INSTANCE SequencesExt

CONSTANTS
  Children,        \* short/extended addresses of children (model values)
  TxOutcomes,      \* netdev events the driver may report after a send
  StrictCaller,    \* the caller only clears entries it has added
  Channels,        \* 802.15.4 channels the caller tunes to
  Powers,          \* transmit powers in dBm (int8_t)
  PanIds,          \* PAN ids the caller sets (uint16_t)
  ShortAddrs       \* short addresses the caller sets (uint16_t)

ASSUME ShortAddrs \subseteq 0 .. 65535 /\ PanIds \subseteq 0 .. 65535

ASSUME StrictCaller \in BOOLEAN
ASSUME TxOutcomes \subseteq {"TX_COMPLETE", "TX_COMPLETE_DATA_PENDING",
                             "TX_NOACK", "TX_MEDIUM_BUSY"}

VARIABLES
  sDisabled,           \* static bool sDisabled (zero-initialised)
  dev_state,           \* driver NETOPT_STATE: "SLEEP", "IDLE" or "TX"
  short_address_list,  \* uint8_t counter of short source-match entries
  ext_address_list,    \* uint8_t counter of extended source-match entries
  ack_pending,         \* driver NETOPT_ACK_PENDING
  ot_state,            \* the caller's radio state
  short_tbl,           \* the caller's short source-match table
  ext_tbl,             \* the caller's extended source-match table
  tx_done,             \* last otPlatRadioTxDone report: error and ACK
  rx_done,             \* last otPlatRadioReceiveDone report
  dev_channel,         \* driver NETOPT_CHANNEL
  dev_power,           \* driver NETOPT_TX_POWER
  dev_panid,           \* driver NETOPT_NID
  dev_short,           \* driver NETOPT_ADDRESS: the two bytes it was given
  dev_long,            \* driver NETOPT_ADDRESS_LONG: the eight bytes
  dev_promisc,         \* driver NETOPT_PROMISCUOUSMODE: netopt_enable_t
  ot_panid,            \* the PAN id the caller set last ({} before any)
  ot_short,            \* the short address the caller set last
  ot_ext,              \* the extended address the caller set last
  ot_promisc           \* the promiscuous mode the caller set last

radio_vars == <<sDisabled, dev_state, short_address_list, ext_address_list,
                ack_pending, ot_state, short_tbl, ext_tbl, tx_done, rx_done>>
cfg_vars == <<dev_channel, dev_power, dev_panid, dev_short, dev_long,
              dev_promisc, ot_panid, ot_short, ot_ext, ot_promisc>>
vars == <<radio_vars, cfg_vars>>

(* IEEE802154_LONG_ADDRESS_LEN *)
LONG_LEN == 8

(* The extended addresses the caller sets: otExtAddress.m8, which         *)
(* OpenThread stores little-endian.  Not a palindrome, so that the byte   *)
(* order shows.                                                           *)
ExtAddrs == {<<1, 2, 3, 4, 5, 6, 7, 8>>}

(* The driver's options before the caller sets them, as its init leaves  *)
(* them: IEEE802154_DEFAULT_PANID, and zero addresses.                    *)
DefaultPanId == 35

(* What otPlatRadioTxDone is given: the error and the ACK frame, with or  *)
(* without its frame-pending bit, or NULL.                                *)
TxReports == [err : {"NONE", "NO_ACK", "CHANNEL_ACCESS_FAILURE"},
              ack : {"NULL", "FRAME_PEND", "NO_FRAME_PEND"}]

(* What otPlatRadioReceiveDone is given: the frame or NULL with ABORT. *)
RxReports == {"NONE", "FRAME", "ABORT"}

(* _set_state and its wrappers _set_sleep / _set_idle: NETOPT_STATE. *)
SetState(st) == dev_state' = st

(* Mutant: the address is passed on without the byte swap. *)
ShortAddrSwapDropped(a) == a

(* The argument of _set_addr in otPlatRadioSetShortAddress: the two bytes *)
(* of aShortAddress swapped.                                              *)
ShortAddrHost(a) == (a % 256) * 256 + ((a \div 256) % 256)

(* _set_addr hands the driver &addr: the bytes of a uint16_t in the      *)
(* memory of the little-endian Cortex-M0+, low byte first.                *)
HostBytes16(v) == <<v % 256, v \div 256>>

(* The loop of otPlatRadioSetExtendedAddress: reversed_addr[i] =          *)
(* m8[LEN - 1 - i], with 1-based indices.                                 *)
LongAddrBytes(m8) == [i \in 1 .. LONG_LEN |-> m8[LONG_LEN + 1 - i]]

(* otPlatRadioGetPromiscuous and _is_promiscuous: the option read back.  *)
otPlatRadioGetPromiscuous == dev_promisc = "ENABLE"

(* otPlatRadioIsEnabled: the driver state read back. *)
otPlatRadioIsEnabled == dev_state \notin {"OFF", "SLEEP"}

(* Mutant: the bit is dropped once either counter reads 0. *)
AckPendingAfterClearEither(s, e) == IF e = 0 \/ s = 0 THEN FALSE ELSE ack_pending

(* The tail shared by the four clear functions: the ACK-pending bit is    *)
(* cleared once both counters read 0.                                     *)
AckPendingAfterClear(s, e) == IF e = 0 /\ s = 0 THEN FALSE ELSE ack_pending

-----------------------------------------------------------------------------
(* otPlatRadioEnable: only acts when sDisabled; the caller goes to Sleep. *)
Enable ==
  /\ ot_state = "Disabled"
  /\ ot_state' = "Sleep"
  /\ IF sDisabled THEN sDisabled' = FALSE /\ SetState("IDLE")
                  ELSE UNCHANGED <<sDisabled, dev_state>>
  /\ UNCHANGED <<short_address_list, ext_address_list, ack_pending,
                 short_tbl, ext_tbl, tx_done, rx_done>>
  /\ UNCHANGED cfg_vars

(* Mutant: Disable switches the transceiver OFF instead of to SLEEP. *)
DisableOff ==
  /\ ot_state = "Sleep"
  /\ ot_state' = "Disabled"
  /\ IF ~sDisabled THEN sDisabled' = TRUE /\ dev_state' = "OFF"
                   ELSE UNCHANGED <<sDisabled, dev_state>>
  /\ UNCHANGED <<short_address_list, ext_address_list, ack_pending,
                 short_tbl, ext_tbl, tx_done, rx_done>>
  /\ UNCHANGED cfg_vars

(* otPlatRadioDisable: from Sleep. *)
Disable ==
  /\ ot_state = "Sleep"
  /\ ot_state' = "Disabled"
  /\ IF ~sDisabled THEN sDisabled' = TRUE /\ SetState("SLEEP")
                   ELSE UNCHANGED <<sDisabled, dev_state>>
  /\ UNCHANGED <<short_address_list, ext_address_list, ack_pending,
                 short_tbl, ext_tbl, tx_done, rx_done>>
  /\ UNCHANGED cfg_vars

(* otPlatRadioSleep: from Receive (or Sleep). *)
Sleep ==
  /\ ot_state \in {"Sleep", "Receive"}
  /\ ot_state' = "Sleep"
  /\ SetState("SLEEP")
  /\ UNCHANGED <<sDisabled, short_address_list, ext_address_list,
                 ack_pending, short_tbl, ext_tbl, tx_done, rx_done>>
  /\ UNCHANGED cfg_vars

(* otPlatRadioReceive: set IDLE (listening) and the channel. *)
Receive(ch) ==
  /\ ot_state \in {"Sleep", "Receive"}
  /\ ot_state' = "Receive"
  /\ SetState("IDLE")
  /\ dev_channel' = ch
  /\ UNCHANGED <<sDisabled, short_address_list, ext_address_list,
                 ack_pending, short_tbl, ext_tbl, tx_done, rx_done>>
  /\ UNCHANGED <<dev_power, dev_panid, dev_short, dev_long, dev_promisc,
                 ot_panid, ot_short, ot_ext, ot_promisc>>

(* otPlatRadioTransmit: the frame's channel and power, then              *)
(* driver->send.                                                          *)
Transmit(ch, pw) ==
  /\ ot_state = "Receive"
  /\ ot_state' = "Transmit"
  /\ dev_channel' = ch /\ dev_power' = pw
  /\ SetState("TX")
  /\ UNCHANGED <<sDisabled, short_address_list, ext_address_list,
                 ack_pending, short_tbl, ext_tbl, tx_done, rx_done>>
  /\ UNCHANGED <<dev_panid, dev_short, dev_long, dev_promisc,
                 ot_panid, ot_short, ot_ext, ot_promisc>>

(* Mutant: sent_pkt without its TX_COMPLETE_DATA_PENDING case. *)
TxDoneEventsNoDataPending == {"TX_COMPLETE", "TX_NOACK", "TX_MEDIUM_BUSY"}

(* The events sent_pkt reports to otPlatRadioTxDone. *)
TxDoneEvents == {"TX_COMPLETE", "TX_COMPLETE_DATA_PENDING", "TX_NOACK",
                 "TX_MEDIUM_BUSY"}

(* _create_fake_ack_frame(ackPending) and the error of each case of       *)
(* sent_pkt: only a completed send gets an ACK, with the frame-pending    *)
(* bit set for TX_COMPLETE_DATA_PENDING.                                  *)
TxReport(ev) ==
  [err |-> CASE ev = "TX_NOACK" -> "NO_ACK"
             [] ev = "TX_MEDIUM_BUSY" -> "CHANNEL_ACCESS_FAILURE"
             [] OTHER -> "NONE",
   ack |-> CASE ev \in {"TX_NOACK", "TX_MEDIUM_BUSY"} -> "NULL"
             [] ev = "TX_COMPLETE_DATA_PENDING" -> "FRAME_PEND"
             [] OTHER -> "NO_FRAME_PEND"]

(* The driver finishes the frame and sent_pkt(event) runs: a handled      *)
(* event ends the caller's Transmit state through otPlatRadioTxDone; any  *)
(* other hits the default branch.                                         *)
SentPkt ==
  /\ dev_state = "TX"
  /\ \E ev \in TxOutcomes :
       /\ SetState("IDLE")
       /\ IF ev \in TxDoneEvents
            THEN ot_state' = "Receive" /\ tx_done' = TxReport(ev)
            ELSE UNCHANGED <<ot_state, tx_done>>
  /\ UNCHANGED <<sDisabled, short_address_list, ext_address_list,
                 ack_pending, short_tbl, ext_tbl, rx_done>>
  /\ UNCHANGED cfg_vars

(* recv_pkt, on RX_COMPLETE while the transceiver listens: the driver's   *)
(* recv either returns the frame (res > 0) or fails, and the frame or     *)
(* NULL with OT_ERROR_ABORT goes to otPlatRadioReceiveDone.  The length   *)
(* check against UINT16_MAX is a failure of the same kind.                *)
RecvPkt ==
  /\ dev_state = "IDLE"
  /\ \E res \in {"FRAME", "ABORT"} : rx_done' = res
  /\ UNCHANGED <<sDisabled, dev_state, short_address_list, ext_address_list,
                 ack_pending, ot_state, short_tbl, ext_tbl, tx_done>>
  /\ UNCHANGED cfg_vars

-----------------------------------------------------------------------------
(* otPlatRadioAddSrcMatchShortEntry / ExtEntry: count and set pending.    *)
AddSrcMatchShortEntry(a) ==
  /\ a \notin short_tbl
  /\ short_tbl' = short_tbl \cup {a}
  /\ short_address_list' = (short_address_list + 1) % 256
  /\ ack_pending' = TRUE
  /\ UNCHANGED <<sDisabled, dev_state, ext_address_list, ot_state, ext_tbl, tx_done, rx_done>>
  /\ UNCHANGED cfg_vars

AddSrcMatchExtEntry(a) ==
  /\ a \notin ext_tbl
  /\ ext_tbl' = ext_tbl \cup {a}
  /\ ext_address_list' = (ext_address_list + 1) % 256
  /\ ack_pending' = TRUE
  /\ UNCHANGED <<sDisabled, dev_state, short_address_list, ot_state, short_tbl, tx_done, rx_done>>
  /\ UNCHANGED cfg_vars

(* otPlatRadioClearSrcMatchShortEntry / ExtEntry: the counter is          *)
(* decremented whatever the address, with uint8_t wrap-around.            *)
ClearSrcMatchShortEntry(a) ==
  /\ StrictCaller => a \in short_tbl
  /\ short_tbl' = short_tbl \ {a}
  /\ short_address_list' = (short_address_list + 255) % 256
  /\ ack_pending' = AckPendingAfterClear(short_address_list', ext_address_list)
  /\ UNCHANGED <<sDisabled, dev_state, ext_address_list, ot_state, ext_tbl, tx_done, rx_done>>
  /\ UNCHANGED cfg_vars

ClearSrcMatchExtEntry(a) ==
  /\ StrictCaller => a \in ext_tbl
  /\ ext_tbl' = ext_tbl \ {a}
  /\ ext_address_list' = (ext_address_list + 255) % 256
  /\ ack_pending' = AckPendingAfterClear(short_address_list, ext_address_list')
  /\ UNCHANGED <<sDisabled, dev_state, short_address_list, ot_state, short_tbl, tx_done, rx_done>>
  /\ UNCHANGED cfg_vars

(* otPlatRadioClearSrcMatchShortEntries / ExtEntries. *)
ClearSrcMatchShortEntries ==
  /\ short_tbl' = {}
  /\ short_address_list' = 0
  /\ ack_pending' = AckPendingAfterClear(0, ext_address_list)
  /\ UNCHANGED <<sDisabled, dev_state, ext_address_list, ot_state, ext_tbl, tx_done, rx_done>>
  /\ UNCHANGED cfg_vars

ClearSrcMatchExtEntries ==
  /\ ext_tbl' = {}
  /\ ext_address_list' = 0
  /\ ack_pending' = AckPendingAfterClear(short_address_list, 0)
  /\ UNCHANGED <<sDisabled, dev_state, short_address_list, ot_state, short_tbl, tx_done, rx_done>>
  /\ UNCHANGED cfg_vars

-----------------------------------------------------------------------------
(* The setters: each hands one option to the driver, in any radio state. *)
otPlatRadioSetPanId(p) ==
  /\ dev_panid' = p /\ ot_panid' = {p}
  /\ UNCHANGED radio_vars
  /\ UNCHANGED <<dev_channel, dev_power, dev_short, dev_long, dev_promisc,
                 ot_short, ot_ext, ot_promisc>>

otPlatRadioSetExtendedAddress(m8) ==
  /\ dev_long' = LongAddrBytes(m8) /\ ot_ext' = {m8}
  /\ UNCHANGED radio_vars
  /\ UNCHANGED <<dev_channel, dev_power, dev_panid, dev_short, dev_promisc,
                 ot_panid, ot_short, ot_promisc>>

otPlatRadioSetShortAddress(a) ==
  /\ dev_short' = HostBytes16(ShortAddrHost(a)) /\ ot_short' = {a}
  /\ UNCHANGED radio_vars
  /\ UNCHANGED <<dev_channel, dev_power, dev_panid, dev_long, dev_promisc,
                 ot_panid, ot_ext, ot_promisc>>

otPlatRadioSetDefaultTxPower(pw) ==
  /\ dev_power' = pw
  /\ UNCHANGED radio_vars
  /\ UNCHANGED <<dev_channel, dev_panid, dev_short, dev_long, dev_promisc,
                 ot_panid, ot_short, ot_ext, ot_promisc>>

otPlatRadioSetPromiscuous(en) ==
  /\ dev_promisc' = (IF en THEN "ENABLE" ELSE "DISABLE")
  /\ ot_promisc' = en
  /\ UNCHANGED radio_vars
  /\ UNCHANGED <<dev_channel, dev_power, dev_panid, dev_short, dev_long,
                 ot_panid, ot_short, ot_ext>>

-----------------------------------------------------------------------------
(* openthread_radio_init leaves the driver as its init left it (IDLE);    *)
(* sDisabled and the counters are zero-initialised statics.  The caller   *)
(* starts Disabled with empty tables.                                     *)
Init ==
  /\ sDisabled = FALSE
  /\ dev_state = "IDLE"
  /\ short_address_list = 0
  /\ ext_address_list = 0
  /\ ack_pending = FALSE
  /\ ot_state = "Disabled"
  /\ short_tbl = {}
  /\ ext_tbl = {}
  /\ tx_done = [err |-> "NONE", ack |-> "NULL"]
  /\ rx_done = "NONE"
  /\ dev_channel \in Channels /\ dev_power \in Powers
  /\ dev_panid = DefaultPanId
  /\ dev_short = <<0, 0>> /\ dev_long = [i \in 1 .. LONG_LEN |-> 0]
  /\ dev_promisc = "DISABLE"
  /\ ot_panid = {} /\ ot_short = {} /\ ot_ext = {} /\ ot_promisc = FALSE

Next ==
  \/ Enable \/ Disable \/ Sleep \/ SentPkt \/ RecvPkt
  \/ \E ch \in Channels : Receive(ch)
  \/ \E ch \in Channels, pw \in Powers : Transmit(ch, pw)
  \/ \E a \in Children :
       \/ AddSrcMatchShortEntry(a) \/ AddSrcMatchExtEntry(a)
       \/ ClearSrcMatchShortEntry(a) \/ ClearSrcMatchExtEntry(a)
  \/ ClearSrcMatchShortEntries \/ ClearSrcMatchExtEntries
  \/ \E p \in PanIds : otPlatRadioSetPanId(p)
  \/ \E m8 \in ExtAddrs : otPlatRadioSetExtendedAddress(m8)
  \/ \E a \in ShortAddrs : otPlatRadioSetShortAddress(a)
  \/ \E pw \in Powers : otPlatRadioSetDefaultTxPower(pw)
  \/ \E en \in BOOLEAN : otPlatRadioSetPromiscuous(en)

(* The driver finishes every frame it was given. *)
Spec == Init /\ [][Next]_vars /\ WF_vars(SentPkt)

-----------------------------------------------------------------------------
TypeOK ==
  /\ sDisabled \in BOOLEAN /\ ack_pending \in BOOLEAN
  /\ dev_state \in {"SLEEP", "IDLE", "TX"}
  /\ short_address_list \in 0 .. 255 /\ ext_address_list \in 0 .. 255
  /\ ot_state \in {"Disabled", "Sleep", "Receive", "Transmit"}
  /\ short_tbl \subseteq Children /\ ext_tbl \subseteq Children
  /\ tx_done \in TxReports /\ rx_done \in RxReports
  /\ dev_channel \in Channels /\ dev_power \in Powers
  /\ dev_panid \in PanIds \cup {DefaultPanId}
  /\ dev_short \in (0 .. 255) \X (0 .. 255)
  /\ dev_long \in [1 .. LONG_LEN -> 0 .. 255]
  /\ dev_promisc \in {"ENABLE", "DISABLE"}
  /\ ot_panid \subseteq PanIds /\ ot_short \subseteq ShortAddrs
  /\ ot_ext \subseteq ExtAddrs /\ ot_promisc \in BOOLEAN

(* The ACK frame-pending bit is set exactly when the caller's source-match *)
(* tables hold an entry: the two counters stand for the tables, and each  *)
(* clear function drops the bit only when both read zero.                 *)
AckPendingMatchesTables == ack_pending = (short_tbl \cup ext_tbl # {})

(* Every frame handed over by otPlatRadioTransmit is reported back through *)
(* otPlatRadioTxDone, so the caller leaves its Transmit state.            *)
TxDoneReported == ot_state = "Transmit" ~> ot_state # "Transmit"

(* The value of a byte array read in network byte order, most           *)
(* significant byte first, as netdev reads NETOPT_ADDRESS(_LONG).  A      *)
(* 64-bit value exceeds TLC's integers, so the extended address is       *)
(* compared as bytes: the little-endian otExtAddress in network order is  *)
(* its reverse.                                                           *)
NetworkValue(bytes) == FoldLeft(LAMBDA acc, b : acc * 256 + b, 0, bytes)
NetworkOrder(le_bytes) == Reverse(le_bytes)

(* The driver holds what the caller set: the short address and the       *)
(* extended address, read in network byte order, are the values the      *)
(* caller gave (the byte swap of otPlatRadioSetShortAddress on a          *)
(* little-endian CPU, and the reversal loop of                            *)
(* otPlatRadioSetExtendedAddress), the PAN id is the caller's, and        *)
(* otPlatRadioGetPromiscuous returns the mode set last.                   *)
DriverConfigMatchesCaller ==
  /\ \A a \in ot_short : NetworkValue(dev_short) = a
  /\ \A m8 \in ot_ext : dev_long = NetworkOrder(m8)
  /\ \A p \in ot_panid : dev_panid = p
  /\ otPlatRadioGetPromiscuous = ot_promisc

=============================================================================
