---------------------------- MODULE DataTransfer ----------------------------
(***************************************************************************)
(* One direction of user data over an ESTABLISHED association: the sending *)
(* half of one AssociationInternal (pending queue, inflight queue, T3-rtx, *)
(* congestion control, FORWARD TSN), the receiving half of its peer        *)
(* (payload queue, delayed acknowledgement, reassembly queue, reader) and  *)
(* a network that loses, duplicates and reorders packets.                  *)
(*                                                                         *)
(* Every handler runs under the association's mutex, so each one is a      *)
(* single action; gather_outbound is the single action of a write loop     *)
(* that its one-place wake-up channel has awakened.                        *)
(*                                                                         *)
(* Units.  Every message is one full-size DATA chunk on one ordered        *)
(* stream: a byte count of the code is a number of chunks here, a packet   *)
(* carries one chunk, and the chunk with TSN t has the SSN t.  TSNs count  *)
(* from 1, the initial TSN; SerialNumbers justifies reading the 32-bit     *)
(* serial comparisons as the order of the integers.                        *)
(***************************************************************************)
EXTENDS Integers, Sequences, FiniteSets, FiniteSetsExt

CONSTANTS
    MaxMsgs,       \* bound: messages the application writes
    RecvBuf,       \* max_receive_buffer_size of the receiver, in chunks
    InitCwnd,      \* congestion window before the first transmission
    Reliability,   \* reliability_type of the sending stream
    RexmitValue,   \* reliability_value, read when Reliability = "Rexmit"
    MaxLoss,       \* bound: packets the network loses
    MaxDup,        \* bound: packets the network delivers and keeps
    MaxSpurious    \* bound: T3-rtx expiries while an answer is still under way

ASSUME BoundsAssumption ==
    /\ MaxMsgs \in Nat \ {0}
    /\ MaxLoss \in Nat
    /\ MaxDup \in Nat
    /\ MaxSpurious \in Nat

ASSUME ConfigAssumption ==
    /\ RecvBuf \in Nat \ {0}
    /\ InitCwnd \in Nat \ {0}
    /\ Reliability \in {"Reliable", "Rexmit", "Timed"}
    /\ RexmitValue \in Nat

VARIABLES
    use_forward_tsn,             \* both sides announced FORWARD TSN
    \* the sender
    written,                     \* messages handed to Stream::write
    my_next_tsn,
    inflight_queue,              \* TSN -> bookkeeping of an outstanding chunk
    abandoned,                   \* chunks whose shared abandoned flag is set
    buffered_amount,             \* Stream::buffered_amount
    cumulative_tsn_ack_point,
    advanced_peer_tsn_ack_point,
    rwnd, cwnd, ssthresh, partial_bytes_acked,
    in_fast_recovery, fast_recover_exit_point,
    will_retransmit_fast, will_send_forward_tsn,
    t3rtx,                       \* "off" or "on"
    t3_late,                     \* an expiry that a stop() came too late for
    snd_awake,                   \* token in the sender's awake_write_loop_ch
    aborted,                     \* handle_inbound returned Err: read_loop ends
    \* the receiver
    peer_last_tsn,
    payload_queue,               \* TSNs received beyond peer_last_tsn
    ack_state, ack_timer,
    has_stream,                  \* the stream is in the receiver's streams map
    reassembly,                  \* messages in the reassembly queue
    next_ssn,
    delivered,                   \* history: what read() returned, in order
    rcv_awake,                   \* token in the receiver's awake_write_loop_ch
    \* the network
    data_net, sack_net, fwd_net, losses, dups, spurious

queue_vars == <<written, my_next_tsn, inflight_queue, abandoned, buffered_amount>>
ack_vars   == <<cumulative_tsn_ack_point, advanced_peer_tsn_ack_point>>
cc_vars    == <<rwnd, cwnd, ssthresh, partial_bytes_acked, in_fast_recovery,
                fast_recover_exit_point, will_retransmit_fast>>
t3_vars    == <<t3rtx, t3_late>>
snd_vars   == <<queue_vars, ack_vars, cc_vars, will_send_forward_tsn, t3_vars,
                snd_awake, aborted, use_forward_tsn>>
rcv_vars   == <<peer_last_tsn, payload_queue, ack_state, ack_timer, has_stream, reassembly,
                next_ssn, delivered, rcv_awake>>
net_vars   == <<data_net, sack_net, fwd_net, losses, dups, spurious>>
vars       == <<snd_vars, rcv_vars, net_vars>>

-----------------------------------------------------------------------------
Tsns == 1 .. MaxMsgs
MinOf(a, b) == IF a <= b THEN a ELSE b
MaxOf(a, b) == IF a >= b THEN a ELSE b

\* One unit is one full-size DATA chunk: max_payload_size is what an MTU has
\* room for after the two headers.
Mtu == 1

\* nsent saturates where no test of the code tells it from larger values.
NSentCap == MaxOf(2, RexmitValue)

\* The last number of the run of consecutive members of S that follows a.
RunEnd(a, S) == CHOOSE i \in a .. MaxMsgs : /\ (a + 1) .. i \subseteq S
                                            /\ i + 1 \notin S

Sent == 1 .. (my_next_tsn - 1)
Outstanding == DOMAIN inflight_queue
Pending == written - (my_next_tsn - 1)      \* pending_queue.len()
BytesInFlight(q) == Cardinality({t \in DOMAIN q : ~q[t].acked})

\* Only handle_init_ack takes the window that the peer announces: the side
\* that was connected to starts with none, until its first SACK.  The
\* receiving application may have opened the stream, or leave it to handle_data.
Init ==
    /\ use_forward_tsn \in BOOLEAN
    /\ has_stream \in BOOLEAN
    /\ written = 0
    /\ my_next_tsn = 1
    /\ inflight_queue = [t \in {} |-> t]
    /\ abandoned = {}
    /\ buffered_amount = 0
    /\ cumulative_tsn_ack_point = 0
    /\ advanced_peer_tsn_ack_point = 0
    /\ rwnd \in {0, RecvBuf}
    /\ cwnd = InitCwnd
    /\ ssthresh = rwnd
    /\ partial_bytes_acked = 0
    /\ in_fast_recovery = FALSE
    /\ fast_recover_exit_point = 0
    /\ will_retransmit_fast = FALSE
    /\ will_send_forward_tsn = FALSE
    /\ t3rtx = "off"
    /\ t3_late = FALSE
    /\ snd_awake = FALSE
    /\ aborted = FALSE
    /\ peer_last_tsn = 0
    /\ payload_queue = {}
    /\ ack_state = "Idle"
    /\ ack_timer = "stopped"
    /\ reassembly = {}
    /\ next_ssn = 1
    /\ delivered = <<>>
    /\ rcv_awake = FALSE
    /\ data_net = {}
    /\ sack_net = {}
    /\ fwd_net = {}
    /\ losses = 0
    /\ dups = 0
    /\ spurious = 0

-----------------------------------------------------------------------------
(* The sender's application and write loop.                                *)

\* Stream::write of a one-chunk message: packetize counts it as buffered,
\* send_payload_data queues it and wakes the write loop.
Write ==
    /\ ~aborted
    /\ written < MaxMsgs
    /\ written' = written + 1
    /\ buffered_amount' = buffered_amount + 1
    /\ snd_awake' = TRUE
    /\ UNCHANGED <<my_next_tsn, inflight_queue, abandoned, ack_vars, cc_vars,
                   will_send_forward_tsn, t3_vars, aborted, use_forward_tsn, rcv_vars,
                   net_vars>>

\* get_data_packets_to_retransmit: flagged chunks in TSN order while they fit
\* in min(cwnd, rwnd); the first outstanding one alone as a zero window probe.
ToRetransmit ==
    LET flagged == {t \in Outstanding : inflight_queue[t].retransmit}
        first   == cumulative_tsn_ack_point + 1
        awnd    == MinOf(cwnd, rwnd)
    IN  IF rwnd < 1 /\ first \in flagged
        THEN {first}
        ELSE {t \in flagged : Cardinality({u \in flagged : u < t}) < awnd}

\* pop_pending_data_chunks_to_send: how many chunks cwnd and rwnd admit.
Admitted == MinOf(MinOf(Pending, rwnd), MaxOf(0, cwnd - BytesInFlight(inflight_queue)))

\* With nothing outstanding one chunk goes out whatever the windows say.
BugIsProbe == FALSE
IsProbe == Admitted = 0 /\ Outstanding = {} /\ Pending > 0

ToSend == my_next_tsn .. (my_next_tsn + (IF IsProbe THEN 1 ELSE Admitted) - 1)

\* One more transmission of the chunks in S.
Resent(q, S) == [t \in DOMAIN q |->
    IF t \in S THEN [q[t] EXCEPT !.nsent = MinOf(@ + 1, NSentCap), !.retransmit = FALSE]
               ELSE q[t]]

FirstSent == [acked |-> FALSE, retransmit |-> FALSE, nsent |-> 1, miss_indicator |-> 0]

\* check_partial_reliability_status of the chunks of S just sent: the sets of
\* chunks that may be given up.  Whether a lifetime has passed is the clock's.
AbandonChoices(q, S) ==
    CASE ~use_forward_tsn \/ Reliability = "Reliable" -> {{}}
      [] use_forward_tsn /\ Reliability = "Rexmit" -> {{t \in S : q[t].nsent >= RexmitValue}}
      [] use_forward_tsn /\ Reliability = "Timed" -> SUBSET S

\* gather_outbound_fast_retransmission_packets: the earliest chunk reported
\* missing three times and sent once; a second one does not fit the packet.
ToFastRetransmit(q, gone) ==
    LET marked == {t \in DOMAIN q : /\ ~q[t].acked
                                    /\ t \notin gone
                                    /\ q[t].nsent <= 1
                                    /\ q[t].miss_indicator >= 3}
    IN  IF will_retransmit_fast
        THEN {t \in marked : \A u \in marked : t <= u}
        ELSE {}

\* create_forward_tsn: on the one stream the new cumulative TSN and the
\* greatest abandoned SSN are the same number.
CreateForwardTsn == advanced_peer_tsn_ack_point

\* gather_outbound_forward_tsn_packets
ForwardTsns == IF /\ will_send_forward_tsn
                  /\ advanced_peer_tsn_ack_point > cumulative_tsn_ack_point
               THEN {CreateForwardTsn}
               ELSE {}

\* gather_outbound of the data sender: retransmissions, new data, fast
\* retransmission, FORWARD TSN, in this order and under one lock.
SenderGather ==
    LET again == ToRetransmit
        fresh == ToSend
        q1    == Resent(inflight_queue, again)
        q2    == [t \in Outstanding \cup fresh |-> IF t \in fresh THEN FirstSent ELSE q1[t]]
    IN  /\ ~aborted
        /\ snd_awake
        /\ snd_awake' = FALSE
        /\ \E lost1 \in AbandonChoices(q2, again \cup fresh) :
             LET fast == ToFastRetransmit(q2, abandoned \cup lost1)
                 q3   == [t \in DOMAIN q2 |->
                            IF t \in fast THEN [q2[t] EXCEPT !.nsent = MinOf(@ + 1, NSentCap)]
                                          ELSE q2[t]]
             IN  /\ inflight_queue' = q3
                 /\ \E lost2 \in AbandonChoices(q3, fast) :
                      abandoned' = abandoned \cup lost1 \cup lost2
                 /\ data_net' = data_net \cup again \cup fresh \cup fast
        /\ my_next_tsn' = my_next_tsn + Cardinality(fresh)
        /\ rwnd' = rwnd - (IF IsProbe THEN 0 ELSE Admitted)
        /\ t3rtx' = IF fresh # {} THEN "on" ELSE t3rtx
        /\ fwd_net' = fwd_net \cup ForwardTsns
        /\ will_retransmit_fast' = FALSE
        /\ will_send_forward_tsn' = FALSE
        /\ UNCHANGED <<written, buffered_amount, ack_vars, cwnd, ssthresh, partial_bytes_acked,
                       in_fast_recovery, fast_recover_exit_point, t3_late, aborted,
                       use_forward_tsn, rcv_vars, sack_net, losses, dups, spurious>>

\* RFC 3758 3.5 C2, in handle_sack and in the T3 timeout: move the advanced
\* ack point over abandoned chunks that follow it in the queue.
BugSkipAbandoned(point, queued) == RunEnd(point, queued)     \* takes any chunk
SkipAbandoned(point, queued) == RunEnd(point, queued \cap abandoned)

\* Nothing is on its way and no task has anything to do: what RTO_MIN, longer
\* than a round trip and a delayed ack, makes likely when T3-rtx expires.
Quiet == /\ data_net = {} /\ sack_net = {} /\ fwd_net = {}
         /\ ~snd_awake /\ ~rcv_awake
         /\ ack_timer # "armed"

BugMarkAllToRetransmit(q) == [t \in DOMAIN q |->              \* the acked ones too
    IF t \in abandoned THEN q[t] ELSE [q[t] EXCEPT !.retransmit = TRUE]]
MarkAllToRetransmit(q) == [t \in DOMAIN q |->
    IF q[t].acked \/ t \in abandoned THEN q[t] ELSE [q[t] EXCEPT !.retransmit = TRUE]]

\* on_retransmission_timeout(T3RTX), by a running timer or by an expiry that
\* was already waiting for the lock when the timer was stopped.
T3Timeout ==
    LET advanced == IF use_forward_tsn
                    THEN SkipAbandoned(advanced_peer_tsn_ack_point, Outstanding)
                    ELSE advanced_peer_tsn_ack_point
    IN  /\ ~aborted
        /\ \/ t3rtx = "on" /\ t3_late' = t3_late
           \/ t3_late /\ t3_late' = FALSE
        /\ \/ Quiet /\ spurious' = spurious
           \/ ~Quiet /\ spurious < MaxSpurious /\ spurious' = spurious + 1
        /\ ssthresh' = MaxOf(cwnd \div 2, 4 * Mtu)
        /\ cwnd' = Mtu
        /\ advanced_peer_tsn_ack_point' = advanced
        /\ will_send_forward_tsn' =
              (\/ will_send_forward_tsn
               \/ use_forward_tsn /\ advanced > cumulative_tsn_ack_point)
        /\ inflight_queue' = MarkAllToRetransmit(inflight_queue)
        /\ snd_awake' = TRUE
        /\ UNCHANGED <<written, my_next_tsn, abandoned, buffered_amount,
                       cumulative_tsn_ack_point, rwnd, partial_bytes_acked,
                       in_fast_recovery, fast_recover_exit_point, will_retransmit_fast,
                       t3rtx, aborted, use_forward_tsn, rcv_vars, data_net, sack_net, fwd_net,
                       losses, dups>>

-----------------------------------------------------------------------------
(* handle_sack.  A SACK is [cum, arwnd, gaps]: the cumulative TSN, the      *)
(* window and the set of TSNs that its gap ack blocks cover.               *)

\* A cumulative TSN behind the ack point: the SACK is out of order.
BugStale(m) == FALSE
Stale(m) == cumulative_tsn_ack_point > m.cum
Advances(m) == cumulative_tsn_ack_point < m.cum

\* process_selective_ack: what leaves the queue, what stays, what a gap ack
\* block acknowledges for the first time.
Popped(m) == (cumulative_tsn_ack_point + 1) .. m.cum
Remaining(m) == Outstanding \ Popped(m)
BugGapAcked(m) == m.gaps \cap Remaining(m)                  \* counts them again
GapAcked(m) == {t \in m.gaps \cap Remaining(m) : ~inflight_queue[t].acked}
NewlyAcked(m) == {t \in Popped(m) \cap Outstanding : ~inflight_queue[t].acked} \cup GapAcked(m)

MarkAcked(m) == [t \in Remaining(m) |->
    IF t \in GapAcked(m)
    THEN [inflight_queue[t] EXCEPT !.acked = TRUE, !.retransmit = FALSE]
    ELSE inflight_queue[t]]

\* Only a SACK that stops exactly at the exit point would end recovery.
BugRecoveryAfterPop(m) == in_fast_recovery /\ fast_recover_exit_point # m.cum
RecoveryAfterPop(m) == in_fast_recovery /\ fast_recover_exit_point \notin Popped(m)

\* T3-rtx after the pops: stopped when the earliest outstanding chunk is newly
\* acknowledged or nothing is left, and started again while something is.
T3Stopped(m) == \/ cumulative_tsn_ack_point + 1 \in Popped(m) \cap NewlyAcked(m)
                \/ Advances(m) /\ Remaining(m) = {}
BugT3After(m) == IF T3Stopped(m) THEN "off" ELSE t3rtx        \* start is void
T3After(m) == IF Remaining(m) # {} THEN "on"
              ELSE IF T3Stopped(m) THEN "off" ELSE t3rtx

\* on_cumulative_tsn_ack_point_advanced, congestion control
SlowStart == cwnd <= ssthresh
PartialBytes(m) == partial_bytes_acked + Cardinality(NewlyAcked(m))
Grown(m) ==
    IF SlowStart
    THEN [cwnd |-> IF ~RecoveryAfterPop(m) /\ Pending > 0
                   THEN cwnd + MinOf(Cardinality(NewlyAcked(m)), cwnd) ELSE cwnd,
          pba  |-> partial_bytes_acked]
    ELSE IF PartialBytes(m) >= cwnd /\ Pending > 0
         THEN [cwnd |-> cwnd + Mtu, pba |-> PartialBytes(m) - cwnd]
         ELSE [cwnd |-> cwnd, pba |-> PartialBytes(m)]
Windows(m) == IF Advances(m) THEN Grown(m)
                             ELSE [cwnd |-> cwnd, pba |-> partial_bytes_acked]

\* process_fast_retransmission: the chunks the SACK reports missing.
ReportedMissing(m) ==
    CASE ~RecoveryAfterPop(m) ->
           {t \in Remaining(m) : t > m.cum /\ \E u \in GapAcked(m) : t < u}
      [] RecoveryAfterPop(m) /\ Advances(m) ->
           {t \in Remaining(m) : t > m.cum /\ t <= m.cum + Cardinality(Remaining(m))}
      [] OTHER -> {}
Indicated(m) == {t \in ReportedMissing(m) : /\ ~MarkAcked(m)[t].acked
                                            /\ t \notin abandoned
                                            /\ inflight_queue[t].miss_indicator < 3}
CountMissing(m) == [t \in Remaining(m) |->
    IF t \in Indicated(m) THEN [MarkAcked(m)[t] EXCEPT !.miss_indicator = @ + 1]
                          ELSE MarkAcked(m)[t]]

EntersRecovery(m) == /\ ~RecoveryAfterPop(m)
                     /\ \E t \in Indicated(m) : inflight_queue[t].miss_indicator = 2

\* The TSNs handle_sack looks up: one that is not in the queue is an error
\* that ends the read loop.
LookedUp(m) ==
    Popped(m) \cup m.gaps
      \cup (IF RecoveryAfterPop(m)
            THEN IF Advances(m) THEN (m.cum + 1) .. (m.cum + Cardinality(Remaining(m)))
                                ELSE {}
            ELSE {t \in (m.cum + 1) .. written : \E u \in GapAcked(m) : t < u})
FatalSack(m) == ~(LookedUp(m) \subseteq Outstanding)

\* The advertised window less what is still outstanding.
BugNewRwnd(m) == m.arwnd - BytesInFlight(MarkAcked(m))        \* may pass zero
NewRwnd(m) == MaxOf(0, m.arwnd - BytesInFlight(MarkAcked(m)))

\* The write loop is awakened for every SACK if FORWARD TSN is in use, and
\* otherwise by postprocess_sack, for one that moves the ack point.
BugWakes(m) == use_forward_tsn
Wakes(m) == use_forward_tsn \/ Advances(m)

HandleSack(m) ==
    LET advanced == IF use_forward_tsn
                    THEN SkipAbandoned(MaxOf(advanced_peer_tsn_ack_point, m.cum), Remaining(m))
                    ELSE advanced_peer_tsn_ack_point
    IN  IF Stale(m)
        THEN UNCHANGED snd_vars
        ELSE /\ aborted' = FatalSack(m)
             /\ inflight_queue' = CountMissing(m)
             /\ buffered_amount' = buffered_amount - Cardinality(NewlyAcked(m))
             /\ cumulative_tsn_ack_point' = m.cum
             /\ t3rtx' = T3After(m)
             /\ t3_late' \in {t3_late, t3_late \/ (T3Stopped(m) /\ t3rtx = "on")}
             /\ rwnd' = NewRwnd(m)
             /\ in_fast_recovery' = (RecoveryAfterPop(m) \/ EntersRecovery(m))
             /\ IF EntersRecovery(m)
                THEN /\ fast_recover_exit_point' = Max(GapAcked(m))
                     /\ ssthresh' = MaxOf(Windows(m).cwnd \div 2, 4 * Mtu)
                     /\ cwnd' = ssthresh'
                     /\ partial_bytes_acked' = 0
                ELSE /\ cwnd' = Windows(m).cwnd
                     /\ partial_bytes_acked' = Windows(m).pba
                     /\ UNCHANGED <<fast_recover_exit_point, ssthresh>>
             /\ will_retransmit_fast' = (\/ will_retransmit_fast
                                         \/ EntersRecovery(m)
                                         \/ in_fast_recovery' /\ Advances(m))
             /\ advanced_peer_tsn_ack_point' = advanced
             /\ will_send_forward_tsn' = (\/ will_send_forward_tsn
                                          \/ use_forward_tsn /\ advanced > m.cum)
             /\ snd_awake' = (snd_awake \/ Wakes(m))
             /\ UNCHANGED <<written, my_next_tsn, abandoned, use_forward_tsn>>

-----------------------------------------------------------------------------
(* The receiver.                                                           *)

Credit == MaxOf(0, RecvBuf - Cardinality(reassembly))

\* handle_data before the common routine: whether the chunk is new, and whether
\* payload_queue and the stream take it.  A full buffer still takes one that
\* fills a hole.  A new chunk creates its stream if there is none.
CanPush(t) == t > peer_last_tsn /\ t \notin payload_queue
Accepted(t) == /\ CanPush(t)
               /\ Credit > 0 \/ \E u \in payload_queue : t < u

\* An acknowledgement that is due at once stops the ack timer and wakes the
\* write loop.
AckNow == /\ ack_state' = "Immediate"
          /\ ack_timer' = "stopped"
          /\ rcv_awake' = TRUE

\* handle_peer_last_tsn_and_acknowledgement and handle_chunk_end, for a queue
\* q above the cumulative TSN c.  A delayed ack is only for a chunk that finds
\* no ack outstanding and leaves no gap; AckTimer::start is void once the
\* timer has fired and was not stopped since.
AdvanceAndAck(c, q) ==
    LET last == RunEnd(c, q)
        rest == {t \in q : t > last}
    IN  /\ peer_last_tsn' = last
        /\ payload_queue' = rest
        /\ IF rest = {} /\ ack_state = "Idle"
           THEN /\ ack_state' = "Delay"
                /\ ack_timer' = IF ack_timer = "stopped" THEN "armed" ELSE ack_timer
                /\ UNCHANGED rcv_awake
           ELSE AckNow

HandleData(t) ==
    LET taken == IF Accepted(t) THEN {t} ELSE {}
    IN  /\ has_stream' = (has_stream \/ CanPush(t))
        /\ reassembly' = reassembly \cup {u \in taken : u >= next_ssn}
        /\ AdvanceAndAck(peer_last_tsn, payload_queue \cup taken)
        /\ UNCHANGED <<next_ssn, delivered>>

\* handle_forward_tsn: one at or behind the cumulative TSN is only answered;
\* any other moves the cumulative TSN, and the SSN of a stream that exists.  If
\* FORWARD TSN is not in use the answer is an ERROR, which Packets has.
BugOutOfDate(f) == FALSE
OutOfDate(f) == f <= peer_last_tsn

HandleForwardTsn(f) ==
    IF ~use_forward_tsn
    THEN UNCHANGED rcv_vars
    ELSE /\ UNCHANGED <<has_stream, reassembly, delivered>>
         /\ IF OutOfDate(f)
            THEN AckNow /\ UNCHANGED <<peer_last_tsn, payload_queue, next_ssn>>
            ELSE /\ next_ssn' = IF has_stream THEN MaxOf(next_ssn, f + 1) ELSE next_ssn
                 /\ AdvanceAndAck(f, {t \in payload_queue : t > f})

\* on_ack_timeout.  The fired timer still holds its close_tx.
AckTimeout ==
    /\ ack_timer = "armed"
    /\ ack_timer' = "spent"
    /\ ack_state' = "Immediate"
    /\ rcv_awake' = TRUE
    /\ UNCHANGED <<peer_last_tsn, payload_queue, has_stream, reassembly, next_ssn, delivered,
                   snd_vars, net_vars>>

\* gather_outbound of the data receiver: a SACK when one is due.
ReceiverGather ==
    /\ rcv_awake
    /\ rcv_awake' = FALSE
    /\ IF ack_state = "Immediate"
       THEN /\ ack_state' = "Idle"
            /\ sack_net' = sack_net \cup
                  {[cum |-> peer_last_tsn, arwnd |-> Credit, gaps |-> payload_queue]}
       ELSE UNCHANGED <<ack_state, sack_net>>
    /\ UNCHANGED <<peer_last_tsn, payload_queue, ack_timer, has_stream, reassembly, next_ssn,
                   delivered, snd_vars, data_net, fwd_net, losses, dups, spurious>>

\* ReassemblyQueue::read: only the lowest complete message, when it is due.
BugReadable == {m \in reassembly : \A u \in reassembly : m <= u}
Readable == {m \in reassembly : m <= next_ssn /\ \A u \in reassembly : m <= u}

AppRead ==
    /\ \E m \in Readable :
           /\ next_ssn' = IF m = next_ssn THEN m + 1 ELSE next_ssn
           /\ reassembly' = reassembly \ {m}
           /\ delivered' = Append(delivered, m)
    /\ UNCHANGED <<peer_last_tsn, payload_queue, ack_state, ack_timer, has_stream, rcv_awake,
                   snd_vars, net_vars>>

-----------------------------------------------------------------------------
(* The network: a packet is handed to the read loop and removed, or kept    *)
(* and handed over again later, or lost; the order is any.                 *)

Delivered(net, after, p) ==
    \/ after = net \ {p} /\ dups' = dups
    \/ after = net /\ dups < MaxDup /\ dups' = dups + 1

RecvData(t) == /\ t \in data_net
               /\ HandleData(t)
               /\ Delivered(data_net, data_net', t)
               /\ UNCHANGED <<snd_vars, sack_net, fwd_net, losses, spurious>>

RecvForwardTsn(f) == /\ f \in fwd_net
                     /\ HandleForwardTsn(f)
                     /\ Delivered(fwd_net, fwd_net', f)
                     /\ UNCHANGED <<snd_vars, data_net, sack_net, losses, spurious>>

RecvSack(m) == /\ m \in sack_net
               /\ ~aborted
               /\ HandleSack(m)
               /\ Delivered(sack_net, sack_net', m)
               /\ UNCHANGED <<rcv_vars, data_net, fwd_net, losses, spurious>>

Lose == /\ losses < MaxLoss
        /\ losses' = losses + 1
        /\ \/ /\ \E t \in data_net : data_net' = data_net \ {t}
              /\ UNCHANGED <<sack_net, fwd_net>>
           \/ /\ \E m \in sack_net : sack_net' = sack_net \ {m}
              /\ UNCHANGED <<data_net, fwd_net>>
           \/ /\ \E f \in fwd_net : fwd_net' = fwd_net \ {f}
              /\ UNCHANGED <<data_net, sack_net>>
        /\ UNCHANGED <<snd_vars, rcv_vars, dups, spurious>>

Next == \/ Write \/ SenderGather \/ T3Timeout
        \/ AckTimeout \/ ReceiverGather \/ AppRead
        \/ \E t \in data_net : RecvData(t)
        \/ \E m \in sack_net : RecvSack(m)
        \/ \E f \in fwd_net : RecvForwardTsn(f)
        \/ Lose

\* The runtime polls every task that can run: the two write loops, the two
\* read loops, the timers and a reader that keeps reading.  The network hands
\* over what it has not lost, and the application need not write.
Fairness == /\ WF_vars(SenderGather)
            /\ WF_vars(T3Timeout)
            /\ WF_vars(AckTimeout)
            /\ WF_vars(ReceiverGather)
            /\ WF_vars(AppRead)
            /\ \A t \in Tsns : WF_vars(RecvData(t))
            /\ WF_vars(\E m \in sack_net : RecvSack(m))
            /\ WF_vars(\E f \in fwd_net : RecvForwardTsn(f))

Spec == Init /\ [][Next]_vars
FairSpec == Spec /\ Fairness

-----------------------------------------------------------------------------
(* Properties.                                                             *)

Chunk == [acked: BOOLEAN, retransmit: BOOLEAN, nsent: 1 .. NSentCap, miss_indicator: 0 .. 3]
SackMsg == [cum: 0 .. MaxMsgs, arwnd: 0 .. RecvBuf, gaps: SUBSET Tsns]

SenderType ==
    /\ use_forward_tsn \in BOOLEAN
    /\ written \in 0 .. MaxMsgs
    /\ my_next_tsn \in 1 .. (written + 1)
    /\ Outstanding \subseteq Sent
    /\ inflight_queue \in [Outstanding -> Chunk]
    /\ abandoned \subseteq Sent
    /\ buffered_amount \in Nat
    /\ cumulative_tsn_ack_point \in 0 .. MaxMsgs
    /\ advanced_peer_tsn_ack_point \in 0 .. MaxMsgs
    /\ rwnd \in Nat
    /\ cwnd \in Nat \ {0}
    /\ ssthresh \in Nat
    /\ partial_bytes_acked \in Nat
    /\ in_fast_recovery \in BOOLEAN
    /\ fast_recover_exit_point \in 0 .. MaxMsgs
    /\ will_retransmit_fast \in BOOLEAN
    /\ will_send_forward_tsn \in BOOLEAN
    /\ t3rtx \in {"off", "on"}
    /\ t3_late \in BOOLEAN
    /\ snd_awake \in BOOLEAN
    /\ aborted \in BOOLEAN

ReceiverType ==
    /\ peer_last_tsn \in 0 .. MaxMsgs
    /\ payload_queue \subseteq Tsns
    /\ ack_state \in {"Idle", "Delay", "Immediate"}
    /\ ack_timer \in {"stopped", "armed", "spent"}
    /\ has_stream \in BOOLEAN
    /\ reassembly \subseteq Tsns
    /\ next_ssn \in 1 .. (MaxMsgs + 1)
    /\ delivered \in Seq(Tsns)
    /\ rcv_awake \in BOOLEAN

NetworkType ==
    /\ data_net \subseteq Tsns
    /\ sack_net \subseteq SackMsg
    /\ fwd_net \subseteq Tsns
    /\ losses \in 0 .. MaxLoss
    /\ dups \in 0 .. MaxDup
    /\ spurious \in 0 .. MaxSpurious

\* Every variable has the type its field has in the code; the inflight queue
\* is a map from TSNs that were sent to chunk bookkeeping, and no unsigned
\* window or counter goes below zero.
TypeOK == SenderType /\ ReceiverType /\ NetworkType

\* The messages that reached the receiver's stream.
Received == Range(delivered) \cup reassembly

\* No SACK that the peer can produce, however late, duplicated or out of
\* order, makes process_selective_ack or process_fast_retransmission look up
\* a TSN that is not outstanding: the error would end the read loop.
SackNeverFatal == ~aborted

\* A chunk leaves the sender's queue, or falls behind the receiver's
\* cumulative TSN, only when the receiver has it or the sender gave it up.
NoSilentLoss ==
    \A t \in 1 .. MaxOf(peer_last_tsn, cumulative_tsn_ack_point) :
        t \in Received \cup abandoned

\* T3-rtx runs exactly while chunks are outstanding: with none running a lost
\* packet would never be sent again.
T3RunsWhileOutstanding == (t3rtx = "on") <=> (Outstanding # {})

\* No work waits for a write loop that sleeps: a FORWARD TSN that is flagged,
\* unsent data with nothing outstanding, and a SACK that is due each imply the
\* wake-up token.  So does a flagged fast retransmission if FORWARD TSN is in
\* use; if it is not, handle_sack may flag one and wake nobody, but then T3-rtx
\* runs, so its expiry is the latest at which the write loop is awakened.
NoLostWakeUp ==
    /\ will_send_forward_tsn => snd_awake
    /\ will_retransmit_fast => snd_awake \/ (~use_forward_tsn /\ t3rtx = "on")
    /\ Pending > 0 /\ Outstanding = {} => snd_awake
    /\ ack_state = "Immediate" => rcv_awake

\* Stream::buffered_amount counts each message once until it is acknowledged,
\* through retransmissions, gap acks, duplicates and abandonment.
BufferedAmountExact == buffered_amount = Pending + BytesInFlight(inflight_queue)

\* The chunk whose removal ends fast recovery is outstanding while it lasts.
FastRecoveryCanEnd == in_fast_recovery => fast_recover_exit_point \in Outstanding

\* FORWARD TSN skips only what was given up: every chunk it covers was
\* abandoned or has been received.
ForwardOnlyAbandoned ==
    /\ \A t \in (cumulative_tsn_ack_point + 1) .. advanced_peer_tsn_ack_point : t \in abandoned
    /\ \A f \in fwd_net : \A t \in 1 .. f : t \in Received \cup abandoned

\* The strengthening that makes the invariants above inductive.  The inflight
\* queue holds every TSN between the ack point and the next one to assign.
InflightContiguous ==
    Outstanding = (cumulative_tsn_ack_point + 1) .. (my_next_tsn - 1)

\* The three ack points, and everything on its way, lie in the range sent.  The
\* advanced one is kept only if FORWARD TSN is in use.
PointsOrdered ==
    /\ use_forward_tsn => cumulative_tsn_ack_point <= advanced_peer_tsn_ack_point
    /\ advanced_peer_tsn_ack_point < my_next_tsn
    /\ cumulative_tsn_ack_point <= peer_last_tsn
    /\ peer_last_tsn < my_next_tsn
    /\ payload_queue \subseteq (peer_last_tsn + 1) .. (my_next_tsn - 1)
    /\ data_net \subseteq Sent
    /\ fwd_net \subseteq Sent
    /\ \A m \in sack_net : /\ m.cum <= peer_last_tsn
                           /\ m.gaps \subseteq (m.cum + 1) .. (my_next_tsn - 1)

\* All that the receiver counts as done is received or was given up.
AllSettled ==
    \A t \in (1 .. peer_last_tsn) \cup payload_queue \cup (1 .. (next_ssn - 1)) :
        t \in Received \cup abandoned

\* Inductive (DataTransferProofs): what every handler relies on when it is
\* entered, whichever handler ran before it.
IInv == /\ TypeOK
        /\ SackNeverFatal
        /\ InflightContiguous
        /\ PointsOrdered
        /\ T3RunsWhileOutstanding
        /\ BufferedAmountExact
        /\ FastRecoveryCanEnd
        /\ AllSettled
        /\ ForwardOnlyAbandoned
        /\ NoLostWakeUp

\* No step puts on the wire a chunk that the peer has acknowledged, by its
\* cumulative TSN or by a gap ack block.  One that was given up is sent once
\* more at most: T3-rtx flagged it before it was given up, and never does after.
NeverResendSettled ==
    [][/\ \A t \in data_net' \ data_net :
             /\ t \in Outstanding' /\ ~inflight_queue'[t].acked
             /\ t \in abandoned => inflight_queue[t].retransmit /\ ~inflight_queue'[t].retransmit
       /\ \A t \in abandoned \cap Outstanding' :
             inflight_queue'[t].retransmit => inflight_queue[t].retransmit]_vars

\* The points both sides count from never move back, whatever the order in
\* which SACKs and FORWARD TSNs arrive.
PointsNeverRetreat ==
    [][/\ cumulative_tsn_ack_point' >= cumulative_tsn_ack_point
       /\ advanced_peer_tsn_ack_point' >= advanced_peer_tsn_ack_point
       /\ peer_last_tsn' >= peer_last_tsn
       /\ next_ssn' >= next_ssn]_vars

\* The stream delivers what OrderedDelivery promises: read and abandoned
\* messages are its received and lost ones.
Promise == INSTANCE OrderedDelivery WITH
    submitted <- written, lost <- abandoned, received <- delivered
DeliversInOrder == Promise!Spec

\* A FORWARD TSN that skips messages of a stream which does not exist yet at the
\* receiver leaves no trace in it: the stream that the next DATA creates waits
\* for the skipped messages.  This says that none has done so.
NoneSkippedUnseen == has_stream \/ peer_last_tsn = 0

\* Every message that is not given up is read in the end, whatever is lost or
\* skipped before it, as long as the stream is there when messages are skipped.
EventuallyDelivers == []NoneSkippedUnseen => Promise!Fairness

\* Again and again everything written is settled, behind the sender's ack
\* point: neither a lost SACK or FORWARD TSN, nor a closed window, nor the
\* delayed ack that finds its timer spent, leaves any of it outstanding for
\* ever.
EverythingSettled == []<>(cumulative_tsn_ack_point = written)

\* AckState::Delay: "ack timer is on (ack is being delayed)".
DelayedAckHasTimer == ack_state = "Delay" => ack_timer = "armed"
=============================================================================
