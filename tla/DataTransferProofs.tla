------------------------- MODULE DataTransferProofs -------------------------
(***************************************************************************)
(* Proofs about DataTransfer for every number of messages, receive buffer, *)
(* window, reliability type and number of losses, duplicates and premature *)
(* timeouts.                                                               *)
(*                                                                         *)
(* IInv is inductive: InitInv for the initial states, one lemma per action *)
(* (WriteInv ... LoseInv) for the steps.  The theorems at the end follow   *)
(* from it; the refinement of OrderedDelivery needs ReadsGoUp as well.     *)
(***************************************************************************)
EXTENDS DataTransfer, FiniteSetTheorems, TLAPS

-----------------------------------------------------------------------------
(* Sets of naturals.                                                       *)

\* A set of naturals has a least element: of the intervals that its elements
\* end, one contains none of the others.
LEMMA LeastNatural ==
    ASSUME NEW S \in SUBSET Nat, S # {}
    PROVE  \E n \in S : \A k \in S : n <= k
<1> DEFINE Upto == {0 .. n : n \in S}
           R == StrictSubsetOrdering(Nat)
           F == FiniteSubsetsOf(Nat)
<1>1. Upto \subseteq F /\ Upto # {}
  <2>1. \A n \in S : 0 .. n \in SUBSET Nat /\ IsFiniteSet(0 .. n)
    BY FS_Interval
  <2> QED BY <2>1 DEF FiniteSubsetsOf
<1>2. PICK x \in Upto : \A y \in Upto : <<y, x>> \notin R
  <2> HIDE DEF Upto, R, F
  <2>1. IsWellFoundedOn(R, F)
    BY FS_StrictSubsetOrderingWellFounded DEF R, F
  <2> QED BY <1>1, <2>1, WFMin
<1>3. PICK n \in S : x = 0 .. n
    BY <1>2
<1>4. ASSUME NEW k \in S, k < n PROVE FALSE
  <2>1. <<0 .. k, 0 .. n>> \in R
    <3>1. n \in 0 .. n /\ n \notin 0 .. k
      BY <1>4
    <3>2. 0 .. k \subseteq 0 .. n /\ 0 .. k # 0 .. n /\ 0 .. n \subseteq Nat
      BY <1>4, <3>1
    <3> QED BY <3>2 DEF StrictSubsetOrdering
  <2> QED BY <1>2, <1>3, <2>1
<1> QED BY <1>4

\* A run of consecutive members ends where RunEnd says.
LEMMA RunEndFact ==
    ASSUME NEW a \in 0 .. MaxMsgs, NEW S \in SUBSET Tsns
    PROVE  /\ RunEnd(a, S) \in a .. MaxMsgs
           /\ (a + 1) .. RunEnd(a, S) \subseteq S
           /\ RunEnd(a, S) + 1 \notin S
<1> DEFINE Stops == {n \in Nat : n >= a /\ n + 1 \notin S}
<1>1. MaxMsgs \in Stops
    BY BoundsAssumption DEF Tsns
<1>2. PICK n \in Stops : \A k \in Stops : n <= k
  <2>1. Stops \in SUBSET Nat /\ Stops # {}
    BY <1>1
  <2> QED BY <2>1, LeastNatural
<1>3. \A i \in (a + 1) .. n : i \in S
  <2> SUFFICES ASSUME NEW i \in (a + 1) .. n, i \notin S PROVE FALSE
    OBVIOUS
  <2>1. i - 1 \in Stops
    BY BoundsAssumption
  <2> QED BY <1>2, <2>1
<1>4. n \in a .. MaxMsgs /\ (a + 1) .. n \subseteq S /\ n + 1 \notin S
    BY <1>1, <1>2, <1>3, BoundsAssumption
<1>5. \E i \in a .. MaxMsgs : (a + 1) .. i \subseteq S /\ i + 1 \notin S
    BY <1>4
<1> QED BY <1>5 DEF RunEnd

\* The greatest of some TSNs is one of them.
LEMMA MaxFact ==
    ASSUME NEW S \in SUBSET Tsns, S # {}
    PROVE  Max(S) \in S
<1> DEFINE Below == {MaxMsgs - s : s \in S}
<1>1. Below \in SUBSET Nat /\ Below # {}
  <2>1. \A s \in S : MaxMsgs - s \in Nat
    BY BoundsAssumption DEF Tsns
  <2> QED BY <2>1
<1>2. PICK n \in Below : \A k \in Below : n <= k
    BY <1>1, LeastNatural
<1>3. PICK x \in S : n = MaxMsgs - x
    BY <1>2
<1>4. \A y \in S : x >= y
  <2> SUFFICES ASSUME NEW y \in S PROVE x >= y
    OBVIOUS
  <2>1. MaxMsgs - x <= MaxMsgs - y
    BY <1>2, <1>3
  <2> QED BY <2>1, BoundsAssumption DEF Tsns
<1> QED BY <1>4 DEF Max
-----------------------------------------------------------------------------
(* The initial state and the sender's steps.                               *)

\* The initial state of an association that has just been established.
LEMMA InitInv == Init => IInv
<1> SUFFICES ASSUME Init PROVE IInv
    OBVIOUS
<1> USE BoundsAssumption, ConfigAssumption DEF Init
<1>1. Outstanding = {} /\ Sent = {} /\ Tsns \in SUBSET Nat
    BY DEF Outstanding, Sent, Tsns
<1>2. BytesInFlight(inflight_queue) = 0
    BY FS_EmptySet DEF BytesInFlight
<1>3. Received = {}
    BY DEF Received, Range
<1>4. TypeOK
  <2>1. inflight_queue \in [Outstanding -> Chunk]
    BY DEF Outstanding
  <2>2. SenderType
    <3>1. 0 \in 0 .. MaxMsgs
      OBVIOUS
    <3>2. /\ written \in 0 .. MaxMsgs
          /\ my_next_tsn \in 1 .. (written + 1)
          /\ rwnd \in Nat /\ cwnd \in Nat \ {0} /\ ssthresh \in Nat
      <4>1. RecvBuf \in Nat
        OBVIOUS
      <4>2. rwnd \in Nat
        BY <4>1
      <4> QED BY <4>2
    <3> QED BY <1>1, <2>1, <3>1, <3>2 DEF SenderType
  <2>3. ReceiverType
    <3>1. <<>> \in Seq(Tsns)
      OBVIOUS
    <3>2. 0 \in 0 .. MaxMsgs /\ 1 \in 1 .. (MaxMsgs + 1)
      OBVIOUS
    <3> QED BY <3>1, <3>2 DEF ReceiverType
  <2>4. NetworkType
      BY DEF NetworkType
  <2> QED BY <2>2, <2>3, <2>4 DEF TypeOK
<1> QED
    BY <1>1, <1>2, <1>3, <1>4 DEF IInv, SackNeverFatal, InflightContiguous, PointsOrdered,
       T3RunsWhileOutstanding, BufferedAmountExact, FastRecoveryCanEnd, AllSettled,
       ForwardOnlyAbandoned, NoLostWakeUp, Pending

\* The unacknowledged chunks are finitely many and number bytes in flight.
LEMMA BytesType ==
    ASSUME TypeOK
    PROVE  /\ IsFiniteSet(Outstanding)
           /\ IsFiniteSet({t \in Outstanding : ~inflight_queue[t].acked})
           /\ BytesInFlight(inflight_queue) \in Nat
<1>1. IsFiniteSet(Outstanding)
  <2>1. Outstanding \in SUBSET (1 .. (my_next_tsn - 1)) /\ my_next_tsn - 1 \in Int
    BY BoundsAssumption DEF TypeOK, SenderType, Sent
  <2>2. IsFiniteSet(1 .. (my_next_tsn - 1))
    BY <2>1, FS_Interval
  <2> QED BY <2>1, <2>2, FS_Subset
<1> QED
    BY <1>1, FS_Subset, FS_CardinalityType DEF BytesInFlight, Outstanding

\* Stream::write.
LEMMA WriteInv == IInv /\ Write => IInv'
<1> SUFFICES ASSUME IInv, Write PROVE IInv'
    OBVIOUS
<1> USE BoundsAssumption DEF IInv, Write, snd_vars, queue_vars, ack_vars, cc_vars, t3_vars,
        rcv_vars, net_vars
<1>1. TypeOK'
  <2>1. SenderType'
    BY DEF TypeOK, SenderType, Sent, Outstanding
  <2> QED BY <2>1 DEF TypeOK, ReceiverType, NetworkType
<1>2. SackNeverFatal' /\ InflightContiguous' /\ PointsOrdered' /\ T3RunsWhileOutstanding'
      /\ FastRecoveryCanEnd'
    BY DEF SackNeverFatal, InflightContiguous, PointsOrdered, T3RunsWhileOutstanding,
       FastRecoveryCanEnd, Outstanding, Sent
<1>3. AllSettled' /\ ForwardOnlyAbandoned'
    BY DEF AllSettled, ForwardOnlyAbandoned, Received
<1>4. BufferedAmountExact' /\ NoLostWakeUp'
  <2>1. BufferedAmountExact'
    BY BytesType DEF BufferedAmountExact, Pending, TypeOK, SenderType
  <2>2. NoLostWakeUp'
    BY DEF NoLostWakeUp, Pending, Outstanding
  <2> QED BY <2>1, <2>2
<1> QED BY <1>1, <1>2, <1>3, <1>4

\* What the type invariant says of the numbers the steps compute with.
LEMMA TsnTypes ==
    ASSUME IInv
    PROVE  /\ MaxMsgs \in Nat /\ written \in Nat /\ my_next_tsn \in Nat
           /\ cumulative_tsn_ack_point \in Nat /\ advanced_peer_tsn_ack_point \in Nat
           /\ peer_last_tsn \in Nat /\ next_ssn \in Nat
           /\ my_next_tsn <= written + 1 /\ written <= MaxMsgs
           /\ Sent \subseteq Tsns /\ Outstanding \subseteq Sent
    BY BoundsAssumption DEF IInv, TypeOK, SenderType, ReceiverType, Sent, Tsns

\* Skipping abandoned chunks moves a point over abandoned chunks only, and
\* not past the last one that was sent.
LEMMA SkipFact ==
    ASSUME IInv, NEW p \in Nat, p < my_next_tsn, NEW Q \in SUBSET Sent
    PROVE  /\ SkipAbandoned(p, Q) \in p .. (my_next_tsn - 1)
           /\ (p + 1) .. SkipAbandoned(p, Q) \subseteq abandoned
<1> DEFINE S == Q \cap abandoned
           e == RunEnd(p, S)
<1>1. S \in SUBSET Tsns /\ p \in 0 .. MaxMsgs
    BY TsnTypes
<1>2. e \in p .. MaxMsgs /\ (p + 1) .. e \subseteq S
  <2> HIDE DEF S
  <2> QED BY <1>1, RunEndFact
<1>3. e <= my_next_tsn - 1
  <2> HIDE DEF e
  <2>1. CASE e = p
    BY <2>1, TsnTypes
  <2>2. CASE e # p
    <3>1. e \in (p + 1) .. e
      BY <1>2, <2>2
    <3> QED BY <3>1, <1>2, TsnTypes DEF Sent
  <2> QED BY <2>1, <2>2
<1> QED
  <2> HIDE DEF e
  <2>1. e \in p .. (my_next_tsn - 1) /\ (p + 1) .. e \subseteq abandoned
    BY <1>2, <1>3, TsnTypes
  <2> QED BY <2>1 DEF SkipAbandoned, e

\* T3-rtx expires.
LEMMA T3TimeoutInv == IInv /\ T3Timeout => IInv'
<1> SUFFICES ASSUME IInv, T3Timeout PROVE IInv'
    OBVIOUS
<1> DEFINE adv == IF use_forward_tsn THEN SkipAbandoned(advanced_peer_tsn_ack_point, Outstanding)
                  ELSE advanced_peer_tsn_ack_point
<1>1. /\ UNCHANGED <<written, my_next_tsn, abandoned, buffered_amount,
                     cumulative_tsn_ack_point, rwnd, partial_bytes_acked,
                     in_fast_recovery, fast_recover_exit_point, will_retransmit_fast,
                     t3rtx, aborted, use_forward_tsn, rcv_vars, data_net, sack_net, fwd_net,
                     losses, dups>>
      /\ inflight_queue' = MarkAllToRetransmit(inflight_queue)
      /\ advanced_peer_tsn_ack_point' = adv
      /\ snd_awake' = TRUE
    BY DEF T3Timeout
<1>2. /\ adv \in advanced_peer_tsn_ack_point .. (my_next_tsn - 1)
      /\ (advanced_peer_tsn_ack_point + 1) .. adv \subseteq abandoned
  <2>1. /\ advanced_peer_tsn_ack_point \in Nat /\ my_next_tsn \in Nat
        /\ advanced_peer_tsn_ack_point < my_next_tsn
    BY TsnTypes DEF IInv, PointsOrdered
  <2>2. CASE use_forward_tsn
    BY <2>1, <2>2, SkipFact, TsnTypes
  <2>3. CASE ~use_forward_tsn
    BY <2>1, <2>3
  <2> QED BY <2>2, <2>3
<1> HIDE DEF adv
<1>3. /\ Outstanding' = Outstanding
      /\ inflight_queue' \in [Outstanding -> Chunk]
      /\ \A t \in Outstanding : inflight_queue'[t].acked = inflight_queue[t].acked
    BY <1>1 DEF IInv, TypeOK, SenderType, MarkAllToRetransmit, Outstanding, Chunk
<1>4. BytesInFlight(inflight_queue') = BytesInFlight(inflight_queue)
  <2>1. {t \in Outstanding' : ~inflight_queue'[t].acked}
          = {t \in Outstanding : ~inflight_queue[t].acked}
    BY <1>3
  <2> QED BY <2>1 DEF BytesInFlight, Outstanding
<1>5. TypeOK'
  <2>1. /\ ssthresh' \in Nat /\ cwnd' \in Nat \ {0}
        /\ will_send_forward_tsn' \in BOOLEAN /\ t3_late' \in BOOLEAN
        /\ spurious' \in 0 .. MaxSpurious
    <3>1. ssthresh' \in Nat /\ cwnd' \in Nat \ {0}
      BY DEF T3Timeout, MaxOf, Mtu, IInv, TypeOK, SenderType
    <3>2. will_send_forward_tsn' \in BOOLEAN /\ t3_late' \in BOOLEAN
      BY DEF T3Timeout, IInv, TypeOK, SenderType
    <3>3. spurious' \in 0 .. MaxSpurious
      BY BoundsAssumption DEF T3Timeout, IInv, TypeOK, NetworkType
    <3> QED BY <3>1, <3>2, <3>3
  <2>2. advanced_peer_tsn_ack_point' \in 0 .. MaxMsgs
    BY <1>1, <1>2, TsnTypes
  <2>3. SenderType'
    BY <1>1, <1>3, <2>1, <2>2 DEF IInv, TypeOK, SenderType, Sent
  <2>4. ReceiverType' /\ NetworkType'
    BY <1>1, <2>1 DEF IInv, TypeOK, ReceiverType, NetworkType, rcv_vars
  <2> QED BY <2>3, <2>4 DEF TypeOK
<1>6. PointsOrdered'
    BY <1>1, <1>2, TsnTypes DEF IInv, PointsOrdered, Sent, rcv_vars
<1>7. ForwardOnlyAbandoned'
    BY <1>1, <1>2, TsnTypes DEF IInv, ForwardOnlyAbandoned, PointsOrdered, Received, rcv_vars
<1>8. AllSettled' /\ NoLostWakeUp'
    BY <1>1, <1>3 DEF IInv, AllSettled, NoLostWakeUp, Received, Pending, rcv_vars
<1> QED
    BY <1>1, <1>3, <1>4, <1>5, <1>6, <1>7, <1>8 DEF IInv, SackNeverFatal, InflightContiguous,
       T3RunsWhileOutstanding, BufferedAmountExact, FastRecoveryCanEnd, Pending

-----------------------------------------------------------------------------
(* The receiver's and the network's steps.                                 *)

\* A step that leaves the sender alone keeps what is said of the sender only.
LEMMA SenderKept ==
    ASSUME IInv, UNCHANGED snd_vars
    PROVE  /\ SenderType' /\ SackNeverFatal' /\ InflightContiguous'
           /\ T3RunsWhileOutstanding' /\ BufferedAmountExact' /\ FastRecoveryCanEnd'
           /\ Outstanding' = Outstanding /\ Sent' = Sent /\ Pending' = Pending
           /\ UNCHANGED <<abandoned, my_next_tsn, cumulative_tsn_ack_point,
                          advanced_peer_tsn_ack_point, snd_awake, use_forward_tsn, t3rtx,
                          will_retransmit_fast, will_send_forward_tsn>>
<1> USE DEF snd_vars, queue_vars, ack_vars, cc_vars, t3_vars
<1>1. SenderType'
    BY DEF IInv, TypeOK, SenderType, Outstanding, Sent
<1>2. SackNeverFatal' /\ InflightContiguous' /\ T3RunsWhileOutstanding' /\ FastRecoveryCanEnd'
    BY DEF IInv, SackNeverFatal, InflightContiguous, T3RunsWhileOutstanding,
       FastRecoveryCanEnd, Outstanding
<1>3. BufferedAmountExact'
    BY DEF IInv, BufferedAmountExact, BytesInFlight, Pending
<1>4. Outstanding' = Outstanding /\ Sent' = Sent /\ Pending' = Pending
    BY DEF Outstanding, Sent, Pending
<1> QED BY <1>1, <1>2, <1>3, <1>4

\* The window advertised is at most the receive buffer.
LEMMA CreditType ==
    ASSUME IInv
    PROVE  Credit \in 0 .. RecvBuf
<1>1. IsFiniteSet(Tsns)
    BY FS_Interval, BoundsAssumption DEF Tsns
<1>2. Cardinality(reassembly) \in Nat
    BY <1>1, FS_Subset, FS_CardinalityType DEF IInv, TypeOK, ReceiverType
<1> QED BY <1>2, ConfigAssumption DEF Credit, MaxOf

\* The acknowledgement routine: the cumulative TSN moves on over a run of the
\* queue, and a chunk leaves the queue only when the run covers it.
LEMMA AdvanceAndAckFact ==
    ASSUME IInv, NEW c \in Nat, c >= peer_last_tsn, c < my_next_tsn,
           NEW q \in SUBSET ((c + 1) .. (my_next_tsn - 1)), AdvanceAndAck(c, q)
    PROVE  /\ peer_last_tsn' \in c .. (my_next_tsn - 1)
           /\ (c + 1) .. peer_last_tsn' \subseteq q
           /\ payload_queue' \subseteq q
           /\ payload_queue' \subseteq (peer_last_tsn' + 1) .. (my_next_tsn - 1)
           /\ ack_state' \in {"Idle", "Delay", "Immediate"}
           /\ ack_timer' \in {"stopped", "armed", "spent"}
           /\ rcv_awake' \in BOOLEAN
           /\ ack_state' = "Immediate" => rcv_awake'
<1> DEFINE last == RunEnd(c, q)
<1>1. c \in 0 .. MaxMsgs /\ q \in SUBSET Tsns
    BY TsnTypes DEF Tsns
<1>2. last \in c .. MaxMsgs /\ (c + 1) .. last \subseteq q
    BY <1>1, RunEndFact
<1>3. peer_last_tsn' = last /\ payload_queue' = {t \in q : t > last}
    BY DEF AdvanceAndAck
<1> HIDE DEF last
<1>4. last <= my_next_tsn - 1
  <2>1. CASE last = c
    BY <2>1, TsnTypes
  <2>2. CASE last # c
    <3>1. last \in (c + 1) .. last
      BY <1>2, <2>2
    <3> QED BY <3>1, <1>2
  <2> QED BY <2>1, <2>2
<1>5. /\ ack_state' \in {"Idle", "Delay", "Immediate"}
      /\ ack_timer' \in {"stopped", "armed", "spent"}
      /\ rcv_awake' \in BOOLEAN
      /\ ack_state' = "Immediate" => rcv_awake'
    BY DEF AdvanceAndAck, AckNow, IInv, TypeOK, ReceiverType
<1>6. payload_queue' \subseteq (last + 1) .. (my_next_tsn - 1)
  <2> SUFFICES ASSUME NEW t \in payload_queue' PROVE t \in (last + 1) .. (my_next_tsn - 1)
    OBVIOUS
  <2>1. t \in (c + 1) .. (my_next_tsn - 1) /\ t > last /\ last \in Int /\ my_next_tsn \in Int
    BY <1>2, <1>3, TsnTypes
  <2> QED BY <2>1
<1> QED BY <1>2, <1>3, <1>4, <1>5, <1>6, TsnTypes

\* The ack timer expires.
LEMMA AckTimeoutInv == IInv /\ AckTimeout => IInv'
<1> SUFFICES ASSUME IInv, AckTimeout PROVE IInv'
    OBVIOUS
<1> USE DEF IInv, AckTimeout, net_vars
<1>1. ReceiverType' /\ NetworkType'
    BY DEF TypeOK, ReceiverType, NetworkType
<1>2. PointsOrdered' /\ AllSettled' /\ ForwardOnlyAbandoned' /\ NoLostWakeUp'
    BY SenderKept DEF PointsOrdered, AllSettled, ForwardOnlyAbandoned, NoLostWakeUp, Received
<1> QED BY <1>1, <1>2, SenderKept DEF TypeOK

\* The receiver's write loop sends a SACK.
LEMMA ReceiverGatherInv == IInv /\ ReceiverGather => IInv'
<1> SUFFICES ASSUME IInv, ReceiverGather PROVE IInv'
    OBVIOUS
<1> DEFINE sack == [cum |-> peer_last_tsn, arwnd |-> Credit, gaps |-> payload_queue]
<1>1. /\ UNCHANGED <<peer_last_tsn, payload_queue, ack_timer, has_stream, reassembly, next_ssn,
                     delivered, snd_vars, data_net, fwd_net, losses, dups, spurious>>
      /\ rcv_awake' = FALSE
      /\ sack_net' \subseteq sack_net \cup {sack}
      /\ ack_state' \in {ack_state, "Idle"}
      /\ ack_state' # "Immediate"
    BY DEF ReceiverGather
<1>2. sack \in SackMsg
    BY CreditType DEF SackMsg, IInv, TypeOK, ReceiverType
<1>3. sack.cum = peer_last_tsn /\ sack.gaps = payload_queue
    OBVIOUS
<1> HIDE DEF sack
<1>4. ReceiverType' /\ NetworkType'
    BY <1>1, <1>2 DEF IInv, TypeOK, ReceiverType, NetworkType
<1>5. PointsOrdered'
  <2>1. \A m \in sack_net' : /\ m.cum <= peer_last_tsn
                              /\ m.gaps \subseteq (m.cum + 1) .. (my_next_tsn - 1)
    <3> TAKE m \in sack_net'
    <3>1. CASE m \in sack_net
      BY <3>1 DEF IInv, PointsOrdered
    <3>2. CASE m = sack
      BY <3>2, <1>3, TsnTypes DEF IInv, PointsOrdered
    <3> QED BY <1>1, <3>1, <3>2
  <2> QED BY <1>1, <2>1, SenderKept DEF IInv, PointsOrdered
<1>6. AllSettled' /\ ForwardOnlyAbandoned' /\ NoLostWakeUp'
    BY <1>1, SenderKept DEF IInv, AllSettled, ForwardOnlyAbandoned, NoLostWakeUp, Received
<1> QED BY <1>1, <1>4, <1>5, <1>6, SenderKept DEF IInv, TypeOK

\* A message is read.
LEMMA AppReadInv == IInv /\ AppRead => IInv'
<1> SUFFICES ASSUME IInv, AppRead PROVE IInv'
    OBVIOUS
<1>1. PICK m \in Readable :
           /\ next_ssn' = IF m = next_ssn THEN m + 1 ELSE next_ssn
           /\ reassembly' = reassembly \ {m}
           /\ delivered' = Append(delivered, m)
    BY DEF AppRead
<1>2. UNCHANGED <<peer_last_tsn, payload_queue, ack_state, ack_timer, has_stream, rcv_awake,
                  snd_vars, data_net, sack_net, fwd_net, losses, dups, spurious>>
    BY DEF AppRead, net_vars
<1>3. m \in reassembly /\ m \in Tsns /\ m <= next_ssn
    BY DEF Readable, IInv, TypeOK, ReceiverType
<1>4. delivered \in Seq(Tsns) /\ delivered' \in Seq(Tsns)
    BY <1>1, <1>3 DEF IInv, TypeOK, ReceiverType
<1>5. Range(delivered') = Range(delivered) \cup {m}
    BY <1>1, <1>3, <1>4 DEF Range
<1>6. Received' = Received
    BY <1>1, <1>3, <1>5 DEF Received
<1>7. TypeOK'
  <2>1. next_ssn' \in 1 .. (MaxMsgs + 1)
    BY <1>1, <1>3, BoundsAssumption DEF Tsns, IInv, TypeOK, ReceiverType
  <2>2. ReceiverType' /\ NetworkType'
    BY <1>1, <1>2, <1>4, <2>1 DEF IInv, TypeOK, ReceiverType, NetworkType
  <2> QED BY <2>2, SenderKept, <1>2 DEF TypeOK
<1>8. PointsOrdered' /\ ForwardOnlyAbandoned' /\ NoLostWakeUp'
    BY <1>2, <1>6, SenderKept DEF IInv, PointsOrdered, ForwardOnlyAbandoned, NoLostWakeUp
<1>9. AllSettled'
  <2> SUFFICES ASSUME NEW t \in 1 .. (next_ssn' - 1) PROVE t \in Received \cup abandoned
    BY <1>2, <1>6, SenderKept DEF IInv, AllSettled
  <2>1. CASE t = m
    BY <2>1, <1>3 DEF Received
  <2>2. CASE t # m
    <3>1. t \in 1 .. (next_ssn - 1)
      BY <2>2, <1>1, TsnTypes
    <3> QED BY <3>1 DEF IInv, AllSettled
  <2> QED BY <2>1, <2>2
<1> QED BY <1>2, <1>7, <1>8, <1>9, SenderKept DEF IInv

\* Moving the receiver on, and packets off the network, keeps all in range.
LEMMA MovedOn ==
    ASSUME IInv, UNCHANGED snd_vars, peer_last_tsn' \in peer_last_tsn .. (my_next_tsn - 1),
           payload_queue' \subseteq (peer_last_tsn' + 1) .. (my_next_tsn - 1),
           data_net' \subseteq data_net, sack_net' \subseteq sack_net, fwd_net' \subseteq fwd_net
    PROVE  PointsOrdered'
<1>1. \A m \in sack_net' : /\ m.cum \in Int /\ m.cum <= peer_last_tsn
                            /\ m.gaps \subseteq (m.cum + 1) .. (my_next_tsn - 1)
    BY DEF IInv, PointsOrdered, TypeOK, NetworkType, SackMsg
<1>2. \A m \in sack_net' : m.cum <= peer_last_tsn'
    BY <1>1, TsnTypes
<1>3. cumulative_tsn_ack_point <= peer_last_tsn' /\ peer_last_tsn' < my_next_tsn
    BY TsnTypes DEF IInv, PointsOrdered
<1> QED BY <1>1, <1>2, <1>3, SenderKept DEF IInv, PointsOrdered

\* A DATA chunk reaches the receiver, for the first time or again.
LEMMA RecvDataInv == ASSUME IInv, NEW t \in data_net, RecvData(t) PROVE IInv'
<1> DEFINE taken == IF Accepted(t) THEN {t} ELSE {}
           q == payload_queue \cup taken
<1>1. /\ reassembly' = reassembly \cup {u \in taken : u >= next_ssn}
      /\ AdvanceAndAck(peer_last_tsn, q)
      /\ UNCHANGED <<next_ssn, delivered, snd_vars, sack_net, fwd_net, losses, spurious>>
      /\ data_net' \subseteq data_net
      /\ dups' \in 0 .. MaxDup
      /\ has_stream' \in BOOLEAN
  <2>1. has_stream' = (has_stream \/ CanPush(t))
    BY DEF RecvData, HandleData
  <2>2. has_stream' \in BOOLEAN
    BY <2>1 DEF IInv, TypeOK, ReceiverType
  <2> QED BY <2>2, BoundsAssumption DEF RecvData, HandleData, Delivered, IInv, TypeOK, NetworkType
<1>2. t \in Sent /\ t \in Tsns /\ t \in Nat
    BY TsnTypes DEF IInv, PointsOrdered, Sent
<1>3. q \in SUBSET ((peer_last_tsn + 1) .. (my_next_tsn - 1)) /\ taken \subseteq {t}
  <2>1. taken \subseteq {t} /\ (taken # {} => t > peer_last_tsn)
    BY DEF Accepted, CanPush
  <2>2. \A u \in taken : u \in (peer_last_tsn + 1) .. (my_next_tsn - 1)
    BY <2>1, <1>2, TsnTypes DEF Sent
  <2> HIDE DEF taken
  <2> QED BY <2>1, <2>2 DEF IInv, PointsOrdered
<1>4. q \subseteq Received' \cup abandoned
  <2>1. Received \subseteq Received'
    BY <1>1 DEF Received
  <2>2. CASE t >= next_ssn
    BY <1>1, <1>3, <2>1, <2>2 DEF Received, IInv, AllSettled
  <2>3. CASE t < next_ssn
    <3>1. t \in 1 .. (next_ssn - 1)
      BY <1>2, <2>3, TsnTypes DEF Sent
    <3> QED BY <1>3, <2>1, <3>1 DEF IInv, AllSettled
  <2> QED BY <2>2, <2>3, <1>2, TsnTypes
<1> HIDE DEF q, taken
<1>5. peer_last_tsn < my_next_tsn
    BY DEF IInv, PointsOrdered
<1>6. /\ peer_last_tsn' \in peer_last_tsn .. (my_next_tsn - 1)
      /\ (peer_last_tsn + 1) .. peer_last_tsn' \subseteq q
      /\ payload_queue' \subseteq q
      /\ payload_queue' \subseteq (peer_last_tsn' + 1) .. (my_next_tsn - 1)
      /\ ack_state' \in {"Idle", "Delay", "Immediate"}
      /\ ack_timer' \in {"stopped", "armed", "spent"}
      /\ rcv_awake' \in BOOLEAN
      /\ ack_state' = "Immediate" => rcv_awake'
    BY <1>1, <1>3, <1>5, TsnTypes, AdvanceAndAckFact
<1>7. TypeOK'
  <2>1. reassembly' \subseteq Tsns
    BY <1>1, <1>2, <1>3 DEF IInv, TypeOK, ReceiverType
  <2>2. peer_last_tsn' \in 0 .. MaxMsgs /\ payload_queue' \subseteq Tsns
    <3>1. q \subseteq Tsns
      BY <1>2, <1>3 DEF q, IInv, TypeOK, ReceiverType
    <3> QED BY <3>1, <1>6, TsnTypes
  <2>3. ReceiverType' /\ NetworkType'
    BY <1>1, <1>6, <2>1, <2>2 DEF IInv, TypeOK, ReceiverType, NetworkType
  <2> QED BY <1>1, <2>3, SenderKept DEF TypeOK
<1>8. PointsOrdered'
    BY <1>1, <1>6, MovedOn
<1>9. AllSettled' /\ ForwardOnlyAbandoned'
  <2>1. Received \subseteq Received'
    BY <1>1 DEF Received
  <2>2. \A u \in 1 .. peer_last_tsn' : u \in (1 .. peer_last_tsn) \cup q
    BY <1>6, TsnTypes
  <2> QED BY <1>1, <1>4, <1>6, <2>1, <2>2, SenderKept DEF IInv, AllSettled, ForwardOnlyAbandoned
<1>10. NoLostWakeUp'
    BY <1>1, <1>6, SenderKept DEF IInv, NoLostWakeUp
<1> QED BY <1>1, <1>7, <1>8, <1>9, <1>10, SenderKept DEF IInv

\* A FORWARD TSN reaches the receiver.
LEMMA RecvForwardTsnInv == ASSUME IInv, NEW f \in fwd_net, RecvForwardTsn(f) PROVE IInv'
<1>1. /\ HandleForwardTsn(f)
      /\ UNCHANGED <<snd_vars, data_net, sack_net, losses, spurious>>
      /\ fwd_net' \subseteq fwd_net
      /\ dups' \in 0 .. MaxDup
    BY BoundsAssumption DEF RecvForwardTsn, Delivered, IInv, TypeOK, NetworkType
<1>2. f \in 1 .. (my_next_tsn - 1) /\ f \in Tsns /\ f \in Nat
    BY TsnTypes DEF IInv, PointsOrdered, Sent
<1>5. CASE ~use_forward_tsn
  <2>1. UNCHANGED rcv_vars
    BY <1>1, <1>5 DEF HandleForwardTsn
  <2>2. ReceiverType' /\ NetworkType'
    BY <1>1, <2>1 DEF rcv_vars, IInv, TypeOK, ReceiverType, NetworkType
  <2>3. PointsOrdered' /\ AllSettled' /\ ForwardOnlyAbandoned' /\ NoLostWakeUp'
    BY <1>1, <2>1, SenderKept DEF rcv_vars, IInv, PointsOrdered, AllSettled,
       ForwardOnlyAbandoned, NoLostWakeUp, Received
  <2> QED BY <1>1, <2>2, <2>3, SenderKept DEF IInv, TypeOK
<1>3. CASE use_forward_tsn /\ OutOfDate(f)
  <2>1. /\ AckNow
        /\ UNCHANGED <<peer_last_tsn, payload_queue, has_stream, reassembly, next_ssn, delivered>>
    BY <1>1, <1>3 DEF HandleForwardTsn
  <2>2. ReceiverType' /\ NetworkType'
    BY <1>1, <2>1 DEF AckNow, IInv, TypeOK, ReceiverType, NetworkType
  <2>3. PointsOrdered' /\ AllSettled' /\ ForwardOnlyAbandoned' /\ NoLostWakeUp'
    BY <1>1, <2>1, SenderKept DEF AckNow, IInv, PointsOrdered, AllSettled,
       ForwardOnlyAbandoned, NoLostWakeUp, Received
  <2> QED BY <1>1, <2>2, <2>3, SenderKept DEF IInv, TypeOK
<1>4. CASE use_forward_tsn /\ ~OutOfDate(f)
  <2> DEFINE q == {t \in payload_queue : t > f}
  <2>1. /\ next_ssn' \in {next_ssn, MaxOf(next_ssn, f + 1)}
        /\ AdvanceAndAck(f, q)
        /\ UNCHANGED <<has_stream, reassembly, delivered>>
    BY <1>1, <1>4 DEF HandleForwardTsn
  <2>2. f >= peer_last_tsn /\ f < my_next_tsn
    BY <1>2, <1>4, TsnTypes DEF OutOfDate
  <2>3. q \in SUBSET ((f + 1) .. (my_next_tsn - 1)) /\ q \subseteq payload_queue
    <3>1. \A t \in q : t \in (peer_last_tsn + 1) .. (my_next_tsn - 1) /\ t > f
      BY DEF IInv, PointsOrdered
    <3>2. \A t \in q : t \in (f + 1) .. (my_next_tsn - 1)
      BY <3>1, <1>2, TsnTypes
    <3> QED BY <3>2
  <2> HIDE DEF q
  <2>4. /\ peer_last_tsn' \in f .. (my_next_tsn - 1)
        /\ (f + 1) .. peer_last_tsn' \subseteq q
        /\ payload_queue' \subseteq q
        /\ payload_queue' \subseteq (peer_last_tsn' + 1) .. (my_next_tsn - 1)
        /\ ack_state' \in {"Idle", "Delay", "Immediate"}
        /\ ack_timer' \in {"stopped", "armed", "spent"}
        /\ rcv_awake' \in BOOLEAN
        /\ ack_state' = "Immediate" => rcv_awake'
    BY <1>2, <2>1, <2>2, <2>3, AdvanceAndAckFact
  <2>5. peer_last_tsn' \in peer_last_tsn .. (my_next_tsn - 1)
    BY <1>2, <2>2, <2>4, TsnTypes
  <2>6. TypeOK'
    <3>1. peer_last_tsn' \in 0 .. MaxMsgs /\ payload_queue' \subseteq Tsns
      BY <2>3, <2>4, <2>5, TsnTypes DEF IInv, TypeOK, ReceiverType
    <3>2. next_ssn' \in 1 .. (MaxMsgs + 1)
      BY <1>2, <2>1, TsnTypes DEF MaxOf, Tsns, IInv, TypeOK, ReceiverType
    <3>3. ReceiverType' /\ NetworkType'
      BY <1>1, <2>1, <2>4, <3>1, <3>2 DEF IInv, TypeOK, ReceiverType, NetworkType
    <3> QED BY <1>1, <3>3, SenderKept DEF TypeOK
  <2>7. PointsOrdered'
    BY <1>1, <2>4, <2>5, MovedOn
  <2>8. Received' = Received /\ abandoned' = abandoned
    BY <1>1, <2>1, SenderKept DEF Received
  <2>9. AllSettled'
    <3>1. \A t \in 1 .. f : t \in Received \cup abandoned
      BY DEF IInv, ForwardOnlyAbandoned
    <3>2. \A t \in q : t \in Received \cup abandoned
      BY <2>3 DEF IInv, AllSettled
    <3>3. \A t \in 1 .. peer_last_tsn' : t \in (1 .. f) \cup q
      BY <1>2, <2>4, TsnTypes
    <3>4. \A t \in 1 .. (next_ssn' - 1) : t \in (1 .. (next_ssn - 1)) \cup (1 .. f)
      BY <1>2, <2>1, TsnTypes DEF MaxOf
    <3>5. \A t \in 1 .. (next_ssn - 1) : t \in Received \cup abandoned
      BY DEF IInv, AllSettled
    <3> QED BY <2>4, <2>8, <3>1, <3>2, <3>3, <3>4, <3>5 DEF AllSettled
  <2>10. ForwardOnlyAbandoned' /\ NoLostWakeUp'
    BY <1>1, <2>4, <2>8, SenderKept DEF IInv, ForwardOnlyAbandoned, NoLostWakeUp
  <2> QED BY <1>1, <2>6, <2>7, <2>9, <2>10, SenderKept DEF IInv
<1> QED BY <1>3, <1>4, <1>5

\* A packet is lost.
LEMMA LoseInv == IInv /\ Lose => IInv'
<1> SUFFICES ASSUME IInv, Lose PROVE IInv'
    OBVIOUS
<1>1. /\ UNCHANGED <<snd_vars, rcv_vars, dups, spurious>>
      /\ losses' \in 0 .. MaxLoss
      /\ data_net' \subseteq data_net
      /\ sack_net' \subseteq sack_net
      /\ fwd_net' \subseteq fwd_net
    BY BoundsAssumption DEF Lose, IInv, TypeOK, NetworkType
<1>2. ReceiverType' /\ NetworkType'
    BY <1>1 DEF IInv, TypeOK, ReceiverType, NetworkType, rcv_vars
<1>3. PointsOrdered' /\ AllSettled' /\ ForwardOnlyAbandoned' /\ NoLostWakeUp'
    BY <1>1, SenderKept DEF IInv, PointsOrdered, AllSettled, ForwardOnlyAbandoned,
       NoLostWakeUp, Received, rcv_vars
<1> QED BY <1>1, <1>2, <1>3, SenderKept DEF IInv, TypeOK

-----------------------------------------------------------------------------
(* The write loop of the sender.                                           *)

\* Two intervals that meet make one.
LEMMA IntervalsJoin ==
    ASSUME NEW a \in Int, NEW b \in Int, NEW c \in Int, a <= b, b <= c
    PROVE  (a .. (b - 1)) \cup (b .. (c - 1)) = a .. (c - 1)
    OBVIOUS

\* A later end makes an interval wider.
LEMMA IntervalWidens ==
    ASSUME NEW a \in Int, NEW b \in Int, NEW c \in Int, b <= c, NEW S \in SUBSET (a .. (b - 1))
    PROVE  S \subseteq a .. (c - 1)
    OBVIOUS

\* How many chunks a gather moves from the pending to the inflight queue.
Moved == IF IsProbe THEN 1 ELSE Admitted

\* Only chunks that are pending move, and one always does when none is out.
LEMMA MovedFact ==
    ASSUME IInv
    PROVE  /\ Moved \in 0 .. Pending /\ Pending \in Nat
           /\ rwnd - (IF IsProbe THEN 0 ELSE Admitted) \in Nat
           /\ ToSend = my_next_tsn .. (my_next_tsn + Moved - 1)
           /\ IsFiniteSet(ToSend) /\ Cardinality(ToSend) = Moved
           /\ Pending > 0 /\ Outstanding = {} => Moved > 0
<1>1. Pending \in Nat /\ rwnd \in Nat /\ cwnd \in Nat /\ BytesInFlight(inflight_queue) \in Nat
    BY TsnTypes, BytesType DEF Pending, IInv, TypeOK, SenderType
<1>2. Admitted \in 0 .. Pending /\ Admitted <= rwnd
    BY <1>1 DEF Admitted, MinOf, MaxOf
<1>3. Moved \in 0 .. Pending /\ (Pending > 0 /\ Outstanding = {} => Moved > 0)
    BY <1>1, <1>2 DEF Moved, IsProbe
<1>4. ToSend = my_next_tsn .. (my_next_tsn + Moved - 1)
    BY DEF ToSend, Moved
<1>5. IsFiniteSet(ToSend) /\ Cardinality(ToSend) = Moved
  <2>1. my_next_tsn \in Int /\ my_next_tsn + Moved - 1 \in Int
    BY <1>1, <1>3, TsnTypes
  <2>2. /\ IsFiniteSet(ToSend)
        /\ Cardinality(ToSend) = IF my_next_tsn > my_next_tsn + Moved - 1 THEN 0
                                 ELSE (my_next_tsn + Moved - 1) - my_next_tsn + 1
    BY <1>4, <2>1, FS_Interval
  <2> QED BY <2>1, <2>2, <1>1, <1>3, TsnTypes
<1> QED BY <1>1, <1>2, <1>3, <1>4, <1>5

\* Partial reliability gives up none but the chunks just transmitted.
LEMMA AbandonFact ==
    ASSUME NEW q, NEW S, NEW L \in AbandonChoices(q, S)
    PROVE  L \subseteq S
    BY ConfigAssumption DEF AbandonChoices

\* Counting one more transmission leaves the rest of a chunk as it was.
LEMMA CountedFact ==
    ASSUME NEW c \in Chunk
    PROVE  /\ [c EXCEPT !.nsent = MinOf(@ + 1, NSentCap), !.retransmit = FALSE] \in Chunk
           /\ [c EXCEPT !.nsent = MinOf(@ + 1, NSentCap)] \in Chunk
           /\ [c EXCEPT !.nsent = MinOf(@ + 1, NSentCap), !.retransmit = FALSE].acked = c.acked
           /\ [c EXCEPT !.nsent = MinOf(@ + 1, NSentCap)].acked = c.acked
<1>1. NSentCap \in Nat /\ NSentCap >= 2
    BY ConfigAssumption DEF NSentCap, MaxOf
<1>2. c.nsent \in 1 .. NSentCap
    BY DEF Chunk
<1>3. MinOf(c.nsent + 1, NSentCap) \in 1 .. NSentCap
    BY <1>1, <1>2 DEF MinOf
<1> DEFINE n == MinOf(c.nsent + 1, NSentCap)
<1>4. n \in 1 .. NSentCap
    BY <1>3
<1> HIDE DEF n
<1>5. /\ [c EXCEPT !.nsent = n, !.retransmit = FALSE] \in Chunk
      /\ [c EXCEPT !.nsent = n] \in Chunk
      /\ [c EXCEPT !.nsent = n, !.retransmit = FALSE].acked = c.acked
      /\ [c EXCEPT !.nsent = n].acked = c.acked
    BY <1>4 DEF Chunk
<1> QED BY <1>5 DEF n

\* What a gather does to the queues: chunks are added at the end, none leaves,
\* no acknowledgement is forgotten, and only what was sent is given up.
LEMMA GatherFact ==
    ASSUME IInv, SenderGather
    PROVE  /\ my_next_tsn' = my_next_tsn + Moved
           /\ Outstanding' = Outstanding \cup ToSend
           /\ inflight_queue' \in [Outstanding' -> Chunk]
           /\ \A t \in Outstanding' : inflight_queue'[t].acked =
                  IF t \in ToSend THEN FALSE ELSE inflight_queue[t].acked
           /\ abandoned \subseteq abandoned'
           /\ abandoned' \subseteq abandoned \cup Outstanding'
           /\ data_net' \subseteq data_net \cup Outstanding'
<1> DEFINE again == ToRetransmit
           q1    == Resent(inflight_queue, again)
           q2    == [t \in Outstanding \cup ToSend |->
                        IF t \in ToSend THEN FirstSent ELSE q1[t]]
<1>1. PICK lost1 \in AbandonChoices(q2, again \cup ToSend) :
        LET fast == ToFastRetransmit(q2, abandoned \cup lost1)
            q3   == [t \in DOMAIN q2 |->
                       IF t \in fast THEN [q2[t] EXCEPT !.nsent = MinOf(@ + 1, NSentCap)]
                                     ELSE q2[t]]
        IN  /\ inflight_queue' = q3
            /\ \E lost2 \in AbandonChoices(q3, fast) :
                 abandoned' = abandoned \cup lost1 \cup lost2
            /\ data_net' = data_net \cup again \cup ToSend \cup fast
    BY DEF SenderGather
<1> DEFINE fast == ToFastRetransmit(q2, abandoned \cup lost1)
           q3   == [t \in DOMAIN q2 |->
                      IF t \in fast THEN [q2[t] EXCEPT !.nsent = MinOf(@ + 1, NSentCap)]
                                    ELSE q2[t]]
<1>2. PICK lost2 \in AbandonChoices(q3, fast) : abandoned' = abandoned \cup lost1 \cup lost2
    BY <1>1
<1>3. inflight_queue' = q3 /\ data_net' = data_net \cup again \cup ToSend \cup fast
    BY <1>1
<1>4. again \subseteq Outstanding /\ fast \subseteq Outstanding \cup ToSend
  <2>1. cumulative_tsn_ack_point + 1 \in
            {t \in Outstanding : inflight_queue[t].retransmit} => again \subseteq Outstanding
    BY DEF ToRetransmit
  <2>2. again \subseteq Outstanding
    BY <2>1 DEF ToRetransmit
  <2>3. fast \subseteq DOMAIN q2
    BY DEF ToFastRetransmit
  <2> QED BY <2>2, <2>3
<1>5. inflight_queue \in [Outstanding -> Chunk] /\ Outstanding \cap ToSend = {}
  <2>1. \A t \in Outstanding : t < my_next_tsn /\ t \in Int
    BY TsnTypes DEF Sent
  <2>2. \A t \in ToSend : t >= my_next_tsn
    BY MovedFact, TsnTypes
  <2>3. Outstanding \cap ToSend = {}
    BY <2>1, <2>2, TsnTypes
  <2> QED BY <2>3 DEF IInv, TypeOK, SenderType
<1>6. /\ q1 \in [Outstanding -> Chunk]
      /\ \A t \in Outstanding : q1[t].acked = inflight_queue[t].acked
    BY <1>5, CountedFact DEF Resent
<1>7. /\ q2 \in [Outstanding \cup ToSend -> Chunk]
      /\ \A t \in Outstanding \cup ToSend :
            q2[t].acked = IF t \in ToSend THEN FALSE ELSE inflight_queue[t].acked
  <2>1. FirstSent \in Chunk /\ FirstSent.acked = FALSE
    BY ConfigAssumption DEF FirstSent, Chunk, NSentCap, MaxOf
  <2> HIDE DEF q1, again
  <2> QED BY <1>5, <1>6, <2>1
<1>8. /\ q3 \in [Outstanding \cup ToSend -> Chunk]
      /\ \A t \in Outstanding \cup ToSend :
            q3[t].acked = IF t \in ToSend THEN FALSE ELSE inflight_queue[t].acked
  <2> HIDE DEF q2, fast
  <2> QED BY <1>7, CountedFact
<1>9. lost1 \subseteq again \cup ToSend /\ lost2 \subseteq fast
    BY AbandonFact
<1> HIDE DEF q3, q2, q1, fast, again
<1>10. Outstanding' = Outstanding \cup ToSend
    BY <1>3, <1>8 DEF Outstanding
<1>11. my_next_tsn' = my_next_tsn + Moved
    BY MovedFact DEF SenderGather
<1> QED BY <1>2, <1>3, <1>4, <1>8, <1>9, <1>10, <1>11

\* The sender's write loop.
LEMMA SenderGatherInv == IInv /\ SenderGather => IInv'
<1> SUFFICES ASSUME IInv, SenderGather PROVE IInv'
    OBVIOUS
<1>1. /\ UNCHANGED <<written, buffered_amount, ack_vars, cwnd, ssthresh, partial_bytes_acked,
                     in_fast_recovery, fast_recover_exit_point, t3_late, aborted,
                     use_forward_tsn, rcv_vars, sack_net, losses, dups, spurious>>
      /\ snd_awake' = FALSE
      /\ rwnd' = rwnd - (IF IsProbe THEN 0 ELSE Admitted)
      /\ t3rtx' = IF ToSend # {} THEN "on" ELSE t3rtx
      /\ fwd_net' = fwd_net \cup ForwardTsns
      /\ will_retransmit_fast' = FALSE
      /\ will_send_forward_tsn' = FALSE
    BY DEF SenderGather
<1>2. /\ UNCHANGED <<peer_last_tsn, payload_queue, has_stream, reassembly, next_ssn, delivered,
                     ack_state, ack_timer, rcv_awake>>
      /\ UNCHANGED <<cumulative_tsn_ack_point, advanced_peer_tsn_ack_point>>
      /\ Received' = Received
    BY <1>1 DEF rcv_vars, ack_vars, Received
<1>3. /\ Moved \in 0 .. Pending /\ Pending \in Nat /\ Pending = written - (my_next_tsn - 1)
      /\ my_next_tsn' = my_next_tsn + Moved
      /\ my_next_tsn' \in 1 .. (written + 1)
      /\ Sent \subseteq Sent' /\ Sent' \subseteq Tsns
  <2>1. Moved \in 0 .. Pending /\ Pending \in Nat /\ Pending = written - (my_next_tsn - 1)
    BY MovedFact DEF Pending
  <2>2. my_next_tsn' = my_next_tsn + Moved
    BY GatherFact
  <2>3. my_next_tsn' \in 1 .. (written + 1)
    BY <2>1, <2>2, TsnTypes DEF IInv, TypeOK, SenderType
  <2> QED BY <2>1, <2>2, <2>3, TsnTypes DEF Sent, Tsns
<1>4. Outstanding' = (cumulative_tsn_ack_point + 1) .. (my_next_tsn' - 1)
  <2>1. ToSend = my_next_tsn .. (my_next_tsn + Moved - 1)
    BY MovedFact
  <2>2. cumulative_tsn_ack_point < my_next_tsn
    BY TsnTypes DEF IInv, PointsOrdered
  <2>3. Outstanding' = ((cumulative_tsn_ack_point + 1) .. (my_next_tsn - 1))
                          \cup (my_next_tsn .. (my_next_tsn' - 1))
    <3>1. ToSend = my_next_tsn .. (my_next_tsn' - 1)
      <4>1. my_next_tsn + Moved - 1 = my_next_tsn' - 1
        <5>1. my_next_tsn' = my_next_tsn + Moved /\ my_next_tsn \in Int /\ Moved \in Int
          BY <1>3, TsnTypes
        <5> QED BY <5>1
      <4> QED BY <2>1, <4>1
    <3> QED BY <3>1, GatherFact DEF IInv, InflightContiguous
  <2>4. /\ cumulative_tsn_ack_point + 1 \in Int /\ my_next_tsn \in Int /\ my_next_tsn' \in Int
        /\ cumulative_tsn_ack_point + 1 <= my_next_tsn /\ my_next_tsn <= my_next_tsn'
    BY <1>3, <2>2, TsnTypes
  <2> QED BY <2>3, <2>4, IntervalsJoin
<1>5. Outstanding' \subseteq Sent'
    BY <1>3, <1>4, TsnTypes, SMTT(30) DEF Sent
<1>6. abandoned' \subseteq Sent' /\ data_net' \subseteq Sent'
  <2>1. abandoned \subseteq Sent' /\ data_net \subseteq Sent'
    BY <1>3 DEF IInv, TypeOK, SenderType, PointsOrdered
  <2> QED BY <1>5, <2>1, GatherFact
<1>7. \A f \in fwd_net' : \/ f \in fwd_net
                          \/ f = advanced_peer_tsn_ack_point /\ f \in Sent
    BY <1>1, TsnTypes DEF ForwardTsns, CreateForwardTsn, IInv, PointsOrdered, Sent
<1>8. fwd_net' \subseteq Sent'
    BY <1>3, <1>7 DEF IInv, PointsOrdered
<1>9. TypeOK'
  <2>1. rwnd' \in Nat
    BY <1>1, MovedFact
  <2>2. SenderType'
    BY <1>1, <1>2, <1>3, <1>5, <1>6, <2>1, GatherFact DEF IInv, TypeOK, SenderType
  <2>3. ReceiverType' /\ NetworkType'
    BY <1>1, <1>2, <1>3, <1>6, <1>8 DEF IInv, TypeOK, ReceiverType, NetworkType
  <2> QED BY <2>2, <2>3 DEF TypeOK
<1>10. PointsOrdered'
  <2>1. my_next_tsn' >= my_next_tsn /\ my_next_tsn' \in Int
    BY <1>3, TsnTypes
  <2>2. \A m \in sack_net : m.gaps \subseteq (m.cum + 1) .. (my_next_tsn' - 1)
                            /\ m.cum <= peer_last_tsn
    <3> TAKE m \in sack_net
    <3>1. m.cum \in Int /\ m.cum <= peer_last_tsn
          /\ m.gaps \subseteq (m.cum + 1) .. (my_next_tsn - 1)
      BY DEF IInv, PointsOrdered, TypeOK, NetworkType, SackMsg
    <3> QED BY <2>1, <3>1, TsnTypes
  <2>3. payload_queue \subseteq (peer_last_tsn + 1) .. (my_next_tsn' - 1)
    <3>1. payload_queue \subseteq (peer_last_tsn + 1) .. (my_next_tsn - 1)
      BY DEF IInv, PointsOrdered
    <3>2. peer_last_tsn + 1 \in Int /\ my_next_tsn \in Int
      BY TsnTypes
    <3> QED BY <2>1, <3>1, <3>2, IntervalWidens
  <2>4. peer_last_tsn < my_next_tsn' /\ advanced_peer_tsn_ack_point < my_next_tsn'
    BY <2>1, TsnTypes DEF IInv, PointsOrdered
  <2> QED BY <1>1, <1>2, <1>6, <1>8, <2>2, <2>3, <2>4 DEF IInv, PointsOrdered
<1>11. BufferedAmountExact'
  <2> DEFINE U == {t \in Outstanding : ~inflight_queue[t].acked}
  <2>1. U \cap ToSend = {}
    <3>1. \A t \in Outstanding : t < my_next_tsn /\ t \in Int
      BY TsnTypes DEF Sent
    <3>2. \A t \in ToSend : t >= my_next_tsn
      BY MovedFact, TsnTypes
    <3> QED BY <3>1, <3>2, TsnTypes
  <2>2. {t \in Outstanding' : ~inflight_queue'[t].acked} = U \cup ToSend
    BY GatherFact
  <2>3. Cardinality(U \cup ToSend) = Cardinality(U) + Moved
    <3>1. IsFiniteSet(U) /\ IsFiniteSet(ToSend) /\ Cardinality(ToSend) = Moved
      BY BytesType, MovedFact DEF IInv
    <3>2. Cardinality(U) \in Nat /\ Cardinality({}) = 0
      BY <3>1, FS_CardinalityType, FS_EmptySet
    <3>4. Moved \in Int
      BY <1>3
    <3> HIDE DEF U
    <3>3. Cardinality(U \cup ToSend) =
             Cardinality(U) + Cardinality(ToSend) - Cardinality(U \cap ToSend)
      BY <3>1, FS_Union
    <3>5. Cardinality(U \cap ToSend) = 0
      BY <2>1, <3>2
    <3> QED BY <3>1, <3>2, <3>3, <3>4, <3>5
  <2>4. BytesInFlight(inflight_queue') = BytesInFlight(inflight_queue) + Moved
    BY <2>2, <2>3 DEF BytesInFlight, Outstanding
  <2>5. BytesInFlight(inflight_queue) \in Nat
    BY BytesType DEF IInv
  <2> QED BY <1>1, <1>3, <2>4, <2>5, TsnTypes DEF IInv, BufferedAmountExact, Pending
<1>12. T3RunsWhileOutstanding' /\ FastRecoveryCanEnd' /\ SackNeverFatal'
    BY <1>1, GatherFact DEF IInv, T3RunsWhileOutstanding, FastRecoveryCanEnd, SackNeverFatal
<1>13. AllSettled'
    BY <1>2, GatherFact DEF IInv, AllSettled
<1>14. ForwardOnlyAbandoned'
  <2>1. \A t \in 1 .. advanced_peer_tsn_ack_point : t \in Received \cup abandoned
    <3> SUFFICES ASSUME NEW t \in 1 .. advanced_peer_tsn_ack_point
                 PROVE  t \in Received \cup abandoned
      OBVIOUS
    <3>1. CASE t <= cumulative_tsn_ack_point
      <4>1. t \in 1 .. peer_last_tsn
        BY <3>1, TsnTypes DEF IInv, PointsOrdered
      <4> QED BY <4>1 DEF IInv, AllSettled
    <3>2. CASE t > cumulative_tsn_ack_point
      <4>1. t \in (cumulative_tsn_ack_point + 1) .. advanced_peer_tsn_ack_point
        BY <3>2, TsnTypes
      <4> QED BY <4>1 DEF IInv, ForwardOnlyAbandoned
    <3> QED BY <3>1, <3>2, TsnTypes
  <2> QED BY <1>2, <1>7, <2>1, GatherFact DEF IInv, ForwardOnlyAbandoned
<1>15. NoLostWakeUp'
  <2>1. ~(Pending' > 0 /\ Outstanding' = {})
    <3> SUFFICES ASSUME Pending' > 0, Outstanding' = {} PROVE FALSE
      OBVIOUS
    <3>1. Outstanding = {} /\ ToSend = {}
      BY GatherFact
    <3>2. Moved = 0
      BY <3>1, FS_EmptySet, MovedFact
    <3>3. Pending > 0
      BY <3>2, <1>1, <1>3, TsnTypes DEF Pending
    <3> QED BY <3>1, <3>2, <3>3, MovedFact
  <2> QED BY <1>1, <1>2, <2>1 DEF IInv, NoLostWakeUp
<1> QED BY <1>1, <1>2, <1>4, <1>9, <1>10, <1>11, <1>12, <1>13, <1>14, <1>15
        DEF IInv, InflightContiguous

-----------------------------------------------------------------------------
(* A SACK at the sender.                                                   *)

\* What is known of a SACK that is not out of order when it is handed over.
LEMMA SackFact ==
    ASSUME IInv, NEW m \in sack_net, ~Stale(m)
    PROVE  /\ m.cum \in cumulative_tsn_ack_point .. peer_last_tsn
           /\ m.cum \in Nat /\ m.cum < my_next_tsn
           /\ m.gaps \subseteq (m.cum + 1) .. (my_next_tsn - 1)
           /\ m.arwnd \in Nat
           /\ Popped(m) \subseteq Outstanding
           /\ Remaining(m) = (m.cum + 1) .. (my_next_tsn - 1)
           /\ m.gaps \subseteq Remaining(m)
           /\ Remaining(m) \subseteq Outstanding
           /\ GapAcked(m) \subseteq Tsns
<1>1. /\ m.cum \in Nat /\ m.cum <= peer_last_tsn /\ m.arwnd \in Nat
      /\ m.gaps \subseteq (m.cum + 1) .. (my_next_tsn - 1)
    BY ConfigAssumption DEF IInv, PointsOrdered, TypeOK, NetworkType, SackMsg
<1>2. m.cum >= cumulative_tsn_ack_point
    BY <1>1, TsnTypes DEF Stale
<1>3. m.cum < my_next_tsn
    BY <1>1, TsnTypes DEF IInv, PointsOrdered
<1>4. Popped(m) \subseteq Outstanding
    BY <1>1, <1>2, <1>3, TsnTypes DEF Popped, IInv, InflightContiguous
<1>5. Remaining(m) = (m.cum + 1) .. (my_next_tsn - 1)
    BY <1>1, <1>2, <1>3, TsnTypes DEF Remaining, Popped, IInv, InflightContiguous
<1>6. Remaining(m) \subseteq Outstanding /\ GapAcked(m) \subseteq Remaining(m)
    BY DEF Remaining, GapAcked
<1> QED BY <1>1, <1>2, <1>3, <1>4, <1>5, <1>6, TsnTypes

\* Every TSN that the handler looks up is outstanding.
LEMMA SackLooksUpOutstanding ==
    ASSUME IInv, NEW m \in sack_net, ~Stale(m)
    PROVE  ~FatalSack(m)
<1>1. Cardinality(Remaining(m)) = my_next_tsn - 1 - m.cum
  <2>1. m.cum + 1 \in Int /\ my_next_tsn - 1 \in Int /\ m.cum + 1 <= my_next_tsn
    BY SackFact, TsnTypes
  <2>2. Cardinality(Remaining(m)) = IF m.cum + 1 > my_next_tsn - 1 THEN 0
                                    ELSE (my_next_tsn - 1) - (m.cum + 1) + 1
    BY <2>1, SackFact, FS_Interval
  <2>3. m.cum \in Nat /\ my_next_tsn \in Nat /\ m.cum < my_next_tsn
    BY SackFact, TsnTypes
  <2> QED BY ONLY <2>2, <2>3
<1>2. (m.cum + 1) .. (m.cum + Cardinality(Remaining(m))) \subseteq Outstanding
    BY <1>1, SackFact, TsnTypes
<1>3. {t \in (m.cum + 1) .. written : \E u \in GapAcked(m) : t < u} \subseteq Outstanding
  <2> SUFFICES ASSUME NEW t \in (m.cum + 1) .. written, NEW u \in GapAcked(m), t < u
               PROVE  t \in Outstanding
    OBVIOUS
  <2>1. u \in (m.cum + 1) .. (my_next_tsn - 1)
    BY SackFact DEF GapAcked
  <2>2. t \in (m.cum + 1) .. (my_next_tsn - 1)
    BY <2>1, SackFact, TsnTypes
  <2> QED BY <2>2, SackFact
<1>4. Popped(m) \cup m.gaps \subseteq Outstanding
    BY SackFact
<1> QED BY <1>2, <1>3, <1>4 DEF FatalSack, LookedUp

\* The queue that is left: the chunks keep their type, and what the SACK
\* acknowledges for the first time is what the unacknowledged chunks lose.
LEMMA SackQueue ==
    ASSUME IInv, NEW m \in sack_net, ~Stale(m), inflight_queue' = CountMissing(m)
    PROVE  /\ Outstanding' = Remaining(m)
           /\ inflight_queue' \in [Remaining(m) -> Chunk]
           /\ BytesInFlight(inflight_queue') =
                  BytesInFlight(inflight_queue) - Cardinality(NewlyAcked(m))
           /\ BytesInFlight(inflight_queue') \in Nat
           /\ BytesInFlight(MarkAcked(m)) = BytesInFlight(inflight_queue')
           /\ Cardinality(NewlyAcked(m)) \in Nat
<1> DEFINE U == {t \in Outstanding : ~inflight_queue[t].acked}
           V == {t \in Remaining(m) : ~inflight_queue'[t].acked}
<1>1. inflight_queue \in [Outstanding -> Chunk] /\ Remaining(m) \subseteq Outstanding
    BY SackFact DEF IInv, TypeOK, SenderType
<1>2. /\ MarkAcked(m) \in [Remaining(m) -> Chunk]
      /\ \A t \in Remaining(m) : MarkAcked(m)[t].acked =
            (inflight_queue[t].acked \/ t \in GapAcked(m))
      /\ \A t \in Remaining(m) : MarkAcked(m)[t].miss_indicator =
            inflight_queue[t].miss_indicator
    BY <1>1 DEF MarkAcked, Chunk
<1>3. /\ CountMissing(m) \in [Remaining(m) -> Chunk]
      /\ \A t \in Remaining(m) : CountMissing(m)[t].acked = MarkAcked(m)[t].acked
  <2>1. \A t \in Indicated(m) \cap Remaining(m) : MarkAcked(m)[t].miss_indicator \in 0 .. 2
    BY <1>1, <1>2 DEF Indicated, Chunk
  <2>2. \A t \in Indicated(m) \cap Remaining(m) :
            /\ [MarkAcked(m)[t] EXCEPT !.miss_indicator = @ + 1] \in Chunk
            /\ [MarkAcked(m)[t] EXCEPT !.miss_indicator = @ + 1].acked = MarkAcked(m)[t].acked
    BY <1>2, <2>1 DEF Chunk
  <2> QED BY <1>2, <2>2 DEF CountMissing
<1>4. Outstanding' = Remaining(m)
    BY <1>3 DEF Outstanding
<1>5. V = U \ NewlyAcked(m) /\ NewlyAcked(m) \subseteq U
    BY <1>1, <1>2, <1>3 DEF NewlyAcked, GapAcked, Remaining
<1>6. /\ IsFiniteSet(U) /\ Cardinality(U) \in Nat
      /\ Cardinality(V) = Cardinality(U) - Cardinality(NewlyAcked(m))
      /\ Cardinality(V) \in Nat /\ Cardinality(NewlyAcked(m)) \in Nat
  <2>1. IsFiniteSet(U)
    BY BytesType DEF IInv
  <2> HIDE DEF U, V
  <2>2. U \cap NewlyAcked(m) = NewlyAcked(m) /\ IsFiniteSet(NewlyAcked(m))
    BY <1>5, <2>1, FS_Subset
  <2>3. IsFiniteSet(V) /\ Cardinality(V) = Cardinality(U) - Cardinality(U \cap NewlyAcked(m))
    BY <1>5, <2>1, FS_Difference
  <2>4. Cardinality(V) \in Nat /\ Cardinality(U) \in Nat /\ Cardinality(NewlyAcked(m)) \in Nat
    BY <2>1, <2>2, <2>3, FS_CardinalityType
  <2> QED BY <2>1, <2>2, <2>3, <2>4
<1>7. BytesInFlight(inflight_queue') = Cardinality(V) /\ BytesInFlight(inflight_queue) = Cardinality(U)
    BY <1>4 DEF BytesInFlight, Outstanding
<1>8. BytesInFlight(MarkAcked(m)) = Cardinality(V)
  <2>1. DOMAIN MarkAcked(m) = Remaining(m)
    BY DEF MarkAcked
  <2>2. {t \in Remaining(m) : ~MarkAcked(m)[t].acked} = V
    BY <1>3
  <2> QED BY <2>1, <2>2 DEF BytesInFlight
<1> QED BY <1>3, <1>4, <1>6, <1>7, <1>8

\* The windows keep their types, and the sender is never left without one.
LEMMA SackWindows ==
    ASSUME IInv, NEW m \in sack_net, Cardinality(NewlyAcked(m)) \in Nat
    PROVE  Windows(m).cwnd \in Nat \ {0} /\ Windows(m).pba \in Nat
<1>1. cwnd \in Nat \ {0} /\ partial_bytes_acked \in Nat
    BY DEF IInv, TypeOK, SenderType
<1>2. PartialBytes(m) \in Nat
    BY <1>1 DEF PartialBytes
<1>3. MinOf(Cardinality(NewlyAcked(m)), cwnd) \in Nat
    BY <1>1 DEF MinOf
<1>4. Grown(m).cwnd \in Nat \ {0} /\ Grown(m).pba \in Nat
  <2>1. CASE SlowStart
    BY <1>1, <1>3, <2>1 DEF Grown
  <2>2. CASE ~SlowStart /\ PartialBytes(m) >= cwnd /\ Pending > 0
    BY <1>1, <1>2, <2>2 DEF Grown, Mtu
  <2>3. CASE ~SlowStart /\ ~(PartialBytes(m) >= cwnd /\ Pending > 0)
    BY <1>1, <1>2, <2>3 DEF Grown
  <2> QED BY <2>1, <2>2, <2>3
<1> QED BY <1>1, <1>4 DEF Windows

\* A SACK reaches the sender.
LEMMA RecvSackInv == ASSUME IInv, NEW m \in sack_net, RecvSack(m) PROVE IInv'
<1>1. /\ HandleSack(m)
      /\ UNCHANGED <<rcv_vars, data_net, fwd_net, losses, spurious>>
      /\ sack_net' \subseteq sack_net
      /\ dups' \in 0 .. MaxDup
    BY BoundsAssumption DEF RecvSack, Delivered, IInv, TypeOK, NetworkType
<1>2. /\ UNCHANGED <<peer_last_tsn, payload_queue, has_stream, reassembly, next_ssn, delivered,
                     ack_state, ack_timer, rcv_awake>>
      /\ Received' = Received /\ ReceiverType' /\ NetworkType'
    BY <1>1 DEF rcv_vars, Received, IInv, TypeOK, ReceiverType, NetworkType
<1>3. CASE Stale(m)
  <2>1. UNCHANGED snd_vars
    BY <1>1, <1>3 DEF HandleSack
  <2>2. PointsOrdered' /\ AllSettled' /\ ForwardOnlyAbandoned' /\ NoLostWakeUp'
    BY <1>1, <1>2, <2>1, SenderKept DEF IInv, PointsOrdered, AllSettled, ForwardOnlyAbandoned,
       NoLostWakeUp
  <2> QED BY <1>2, <2>1, <2>2, SenderKept DEF IInv, TypeOK
<1>4. CASE ~Stale(m)
  <2> DEFINE point == MaxOf(advanced_peer_tsn_ack_point, m.cum)
             advanced == IF use_forward_tsn THEN SkipAbandoned(point, Remaining(m))
                         ELSE advanced_peer_tsn_ack_point
  <2>1. /\ aborted' = FatalSack(m)
        /\ inflight_queue' = CountMissing(m)
        /\ buffered_amount' = buffered_amount - Cardinality(NewlyAcked(m))
        /\ cumulative_tsn_ack_point' = m.cum
        /\ t3rtx' = T3After(m)
        /\ t3_late' \in {t3_late, t3_late \/ (T3Stopped(m) /\ t3rtx = "on")}
        /\ rwnd' = NewRwnd(m)
        /\ in_fast_recovery' = (RecoveryAfterPop(m) \/ EntersRecovery(m))
        /\ will_retransmit_fast' = (\/ will_retransmit_fast
                                    \/ EntersRecovery(m)
                                    \/ in_fast_recovery' /\ Advances(m))
        /\ advanced_peer_tsn_ack_point' = advanced
        /\ will_send_forward_tsn' = (\/ will_send_forward_tsn
                                     \/ use_forward_tsn /\ advanced > m.cum)
        /\ snd_awake' = (snd_awake \/ Wakes(m))
        /\ UNCHANGED <<written, my_next_tsn, abandoned, use_forward_tsn>>
    BY <1>1, <1>4 DEF HandleSack
  <2>2. /\ m.cum \in cumulative_tsn_ack_point .. peer_last_tsn
        /\ m.cum \in Nat /\ m.cum < my_next_tsn
        /\ m.arwnd \in Nat
        /\ Remaining(m) = (m.cum + 1) .. (my_next_tsn - 1)
        /\ Remaining(m) \subseteq Outstanding
        /\ GapAcked(m) \subseteq Tsns
    BY <1>4, SackFact
  <2>3. /\ Outstanding' = Remaining(m)
        /\ inflight_queue' \in [Remaining(m) -> Chunk]
        /\ BytesInFlight(inflight_queue') =
               BytesInFlight(inflight_queue) - Cardinality(NewlyAcked(m))
        /\ BytesInFlight(inflight_queue') \in Nat
        /\ BytesInFlight(MarkAcked(m)) = BytesInFlight(inflight_queue')
        /\ Cardinality(NewlyAcked(m)) \in Nat
    BY <1>4, <2>1, SackQueue
  <2>4. SackNeverFatal'
    BY <1>4, <2>1, SackLooksUpOutstanding DEF SackNeverFatal
  <2>5. InflightContiguous'
    BY <2>1, <2>2, <2>3 DEF InflightContiguous
  <2>6. /\ advanced \in 0 .. (my_next_tsn - 1)
        /\ use_forward_tsn => advanced >= m.cum
        /\ advanced >= advanced_peer_tsn_ack_point
        /\ (point + 1) .. advanced \subseteq abandoned
    <3>1. /\ point \in Nat /\ point >= m.cum /\ point >= advanced_peer_tsn_ack_point
          /\ point < my_next_tsn
      BY <2>2, TsnTypes DEF MaxOf, IInv, PointsOrdered
    <3>2. Remaining(m) \in SUBSET Sent
      BY <2>2, TsnTypes
    <3> HIDE DEF point
    <3>3. /\ SkipAbandoned(point, Remaining(m)) \in point .. (my_next_tsn - 1)
          /\ (point + 1) .. SkipAbandoned(point, Remaining(m)) \subseteq abandoned
      BY <3>1, <3>2, SkipFact
    <3>4. CASE use_forward_tsn
      BY <2>2, <3>1, <3>3, <3>4, TsnTypes
    <3>5. CASE ~use_forward_tsn
      <4>1. advanced_peer_tsn_ack_point \in 0 .. (my_next_tsn - 1)
        BY TsnTypes DEF IInv, PointsOrdered
      <4> QED BY <2>2, <3>1, <3>5, <4>1, TsnTypes
    <3> QED BY <3>4, <3>5
  <2>7. BufferedAmountExact'
    <3>1. BytesInFlight(inflight_queue) \in Nat
      BY BytesType DEF IInv
    <3> QED BY <2>1, <2>3, <3>1, TsnTypes DEF IInv, BufferedAmountExact, Pending
  <2>8. buffered_amount' \in Nat
    <3>1. Pending' \in Nat
      BY <2>1, TsnTypes DEF Pending
    <3> QED BY <2>3, <2>7, <3>1 DEF BufferedAmountExact
  <2>9. T3RunsWhileOutstanding'
    <3>1. CASE Remaining(m) # {}
      BY <2>1, <2>3, <3>1 DEF T3After, T3RunsWhileOutstanding
    <3>2. CASE Remaining(m) = {} /\ T3Stopped(m)
      BY <2>1, <2>3, <3>2 DEF T3After, T3RunsWhileOutstanding
    <3>3. CASE Remaining(m) = {} /\ ~T3Stopped(m)
      <4>1. m.cum = cumulative_tsn_ack_point
        BY <2>2, <3>3, TsnTypes DEF T3Stopped, Advances
      <4>2. Outstanding = {}
        BY <2>2, <3>3, <4>1 DEF IInv, InflightContiguous
      <4> QED BY <2>1, <2>3, <3>3, <4>2 DEF T3After, IInv, T3RunsWhileOutstanding
    <3> QED BY <3>1, <3>2, <3>3
  <2>10. EntersRecovery(m) => Max(GapAcked(m)) \in GapAcked(m) /\ GapAcked(m) \subseteq Remaining(m)
    <3> SUFFICES ASSUME EntersRecovery(m)
                 PROVE  Max(GapAcked(m)) \in GapAcked(m) /\ GapAcked(m) \subseteq Remaining(m)
      OBVIOUS
    <3>1. ReportedMissing(m) # {} /\ ~RecoveryAfterPop(m)
      BY DEF EntersRecovery, Indicated
    <3>2. GapAcked(m) # {}
      BY <3>1 DEF ReportedMissing
    <3> QED BY <2>2, <3>2, MaxFact DEF GapAcked
  <2>11. FastRecoveryCanEnd' /\ fast_recover_exit_point' \in 0 .. MaxMsgs
    <3>1. CASE EntersRecovery(m)
      <4>1. fast_recover_exit_point' = Max(GapAcked(m))
        BY <1>1, <1>4, <3>1 DEF HandleSack
      <4> QED BY <2>2, <2>3, <2>10, <3>1, <4>1 DEF FastRecoveryCanEnd, Tsns
    <3>2. CASE ~EntersRecovery(m)
      <4>1. fast_recover_exit_point' = fast_recover_exit_point
        BY <1>1, <1>4, <3>2 DEF HandleSack
      <4> QED BY <2>1, <2>3, <3>2, <4>1 DEF FastRecoveryCanEnd, RecoveryAfterPop, Remaining,
                  IInv, TypeOK, SenderType
    <3> QED BY <3>1, <3>2
  <2>12. cwnd' \in Nat \ {0} /\ ssthresh' \in Nat /\ partial_bytes_acked' \in Nat
    <3>1. Windows(m).cwnd \in Nat \ {0} /\ Windows(m).pba \in Nat
      BY <2>3, SackWindows
    <3>2. CASE EntersRecovery(m)
      <4>1. /\ ssthresh' = MaxOf(Windows(m).cwnd \div 2, 4 * Mtu)
            /\ cwnd' = ssthresh' /\ partial_bytes_acked' = 0
        BY <1>1, <1>4, <3>2 DEF HandleSack
      <4> QED BY <3>1, <4>1 DEF MaxOf, Mtu
    <3>3. CASE ~EntersRecovery(m)
      <4>1. cwnd' = Windows(m).cwnd /\ partial_bytes_acked' = Windows(m).pba
            /\ ssthresh' = ssthresh
        BY <1>1, <1>4, <3>3 DEF HandleSack
      <4> QED BY <3>1, <4>1 DEF IInv, TypeOK, SenderType
    <3> QED BY <3>2, <3>3
  <2>13. rwnd' \in Nat
    BY <2>1, <2>2, <2>3 DEF NewRwnd, MaxOf
  <2>14. /\ in_fast_recovery' \in BOOLEAN /\ will_retransmit_fast' \in BOOLEAN
         /\ will_send_forward_tsn' \in BOOLEAN /\ t3_late' \in BOOLEAN
         /\ aborted' \in BOOLEAN /\ t3rtx' \in {"off", "on"}
    <3>1. in_fast_recovery' \in BOOLEAN
      BY <2>1 DEF RecoveryAfterPop, EntersRecovery
    <3>2. will_retransmit_fast' \in BOOLEAN /\ will_send_forward_tsn' \in BOOLEAN
      BY <2>1 DEF IInv, TypeOK, SenderType
    <3>3. aborted' \in BOOLEAN
      BY <2>1 DEF FatalSack
    <3>4. t3rtx' \in {"off", "on"}
      BY <2>1 DEF T3After, IInv, TypeOK, SenderType
    <3>5. t3_late' \in BOOLEAN
      BY <2>1 DEF T3Stopped, Advances, IInv, TypeOK, SenderType
    <3> QED BY <3>1, <3>2, <3>3, <3>4, <3>5
  <2> HIDE DEF advanced, point
  <2>15. SenderType'
    <3>1. cumulative_tsn_ack_point' \in 0 .. MaxMsgs /\ advanced_peer_tsn_ack_point' \in 0 .. MaxMsgs
      BY <2>1, <2>2, <2>6, TsnTypes
    <3>2. Outstanding' \subseteq Sent' /\ abandoned' \subseteq Sent'
      BY <2>1, <2>2, <2>3, TsnTypes DEF Sent, IInv, TypeOK, SenderType
    <3>3. /\ use_forward_tsn' \in BOOLEAN
          /\ written' \in 0 .. MaxMsgs /\ my_next_tsn' \in 1 .. (written' + 1)
      BY <2>1 DEF IInv, TypeOK, SenderType
    <3> QED BY <2>1, <2>3, <2>8, <2>11, <2>12, <2>13, <2>14, <3>1, <3>2, <3>3 DEF SenderType
  <2>16. PointsOrdered'
    <3>1. /\ use_forward_tsn => m.cum <= advanced
          /\ advanced < my_next_tsn
          /\ m.cum <= peer_last_tsn /\ peer_last_tsn < my_next_tsn
      BY <2>2, <2>6, TsnTypes DEF IInv, PointsOrdered
    <3> QED BY <1>1, <1>2, <2>1, <3>1 DEF IInv, PointsOrdered, Sent
  <2>17. AllSettled'
    BY <1>2, <2>1 DEF IInv, AllSettled
  <2>18. ForwardOnlyAbandoned'
    <3>1. \A t \in (m.cum + 1) .. advanced : t \in abandoned
      <4> SUFFICES ASSUME NEW t \in (m.cum + 1) .. advanced PROVE t \in abandoned
        OBVIOUS
      <4>1. CASE t <= advanced_peer_tsn_ack_point
        <5>1. t \in (cumulative_tsn_ack_point + 1) .. advanced_peer_tsn_ack_point
          BY <2>2, <4>1, TsnTypes
        <5> QED BY <5>1 DEF IInv, ForwardOnlyAbandoned
      <4>2. CASE t > advanced_peer_tsn_ack_point
        <5>1. t \in (point + 1) .. advanced
          BY <2>2, <2>6, <4>2, TsnTypes DEF point, MaxOf
        <5> QED BY <2>6, <5>1
      <4> QED BY <4>1, <4>2, <2>2, <2>6, TsnTypes
    <3> QED BY <1>1, <1>2, <2>1, <3>1 DEF IInv, ForwardOnlyAbandoned
  <2>19. NoLostWakeUp'
    <3>1. snd_awake' = (snd_awake \/ use_forward_tsn \/ Advances(m))
      BY <2>1 DEF Wakes
    <3>2. will_send_forward_tsn' => snd_awake'
      BY <2>1, <3>1 DEF IInv, NoLostWakeUp
    <3>3. CASE Advances(m) \/ use_forward_tsn
      BY <1>2, <3>1, <3>2, <3>3 DEF IInv, NoLostWakeUp
    <3>4. CASE ~Advances(m) /\ ~use_forward_tsn
      <4>1. m.cum = cumulative_tsn_ack_point
        BY <2>2, <3>4, TsnTypes DEF Advances
      <4>2. Outstanding' = Outstanding /\ Pending' = Pending
        BY <2>1, <2>2, <2>3, <4>1 DEF Pending, IInv, InflightContiguous
      <4>3. will_retransmit_fast' => snd_awake' \/ t3rtx' = "on"
        <5>1. CASE EntersRecovery(m)
          <6>1. Outstanding' # {}
            BY <2>3, <2>10, <5>1
          <6> QED BY <2>9, <6>1 DEF T3RunsWhileOutstanding
        <5>2. CASE ~EntersRecovery(m)
          <6>1. will_retransmit_fast' = will_retransmit_fast
            BY <2>1, <3>4, <5>2 DEF IInv, TypeOK, SenderType
          <6>2. t3rtx' = "on" <=> t3rtx = "on"
            BY <2>9, <4>2 DEF IInv, T3RunsWhileOutstanding
          <6> QED BY <3>1, <6>1, <6>2 DEF IInv, NoLostWakeUp
        <5> QED BY <5>1, <5>2
      <4> QED BY <1>2, <2>1, <3>1, <3>2, <3>4, <4>2, <4>3 DEF IInv, NoLostWakeUp
    <3> QED BY <3>3, <3>4
  <2> QED BY <1>2, <2>4, <2>5, <2>7, <2>9, <2>11, <2>15, <2>16, <2>17, <2>18, <2>19
          DEF IInv, TypeOK
<1> QED BY <1>3, <1>4

-----------------------------------------------------------------------------
(* The theorems.                                                           *)

\* Every step keeps IInv.
LEMMA StepInv == IInv /\ [Next]_vars => IInv'
<1> SUFFICES ASSUME IInv, [Next]_vars PROVE IInv'
    OBVIOUS
<1>1. CASE UNCHANGED vars
  <2>1. ReceiverType' /\ NetworkType'
    BY <1>1 DEF vars, rcv_vars, net_vars, IInv, TypeOK, ReceiverType, NetworkType
  <2>2. UNCHANGED snd_vars
    BY <1>1 DEF vars
  <2>3. PointsOrdered' /\ AllSettled' /\ ForwardOnlyAbandoned' /\ NoLostWakeUp'
    BY <1>1, <2>2, SenderKept DEF vars, rcv_vars, net_vars, IInv, PointsOrdered, AllSettled,
       ForwardOnlyAbandoned, NoLostWakeUp, Received
  <2> QED BY <2>1, <2>2, <2>3, SenderKept DEF IInv, TypeOK
<1>2. CASE Next
    BY <1>2, WriteInv, SenderGatherInv, T3TimeoutInv, AckTimeoutInv, ReceiverGatherInv,
       AppReadInv, RecvDataInv, RecvSackInv, RecvForwardTsnInv, LoseInv DEF Next
<1> QED BY <1>1, <1>2

\* What every handler relies on holds whenever one is entered.
THEOREM Invariance == Spec => []IInv
<1>1. Init => IInv
    BY InitInv
<1>2. IInv /\ [Next]_vars => IInv'
    BY StepInv
<1> QED BY <1>1, <1>2, PTL DEF Spec

\* Every field keeps its type and no unsigned window or counter goes below
\* zero, for any number of messages, any window and any reliability type.
THEOREM TypeCorrect == Spec => []TypeOK
<1>1. IInv => TypeOK
    BY DEF IInv
<1> QED BY <1>1, Invariance, PTL

\* handle_sack never fails to find a TSN, so no SACK of the peer ends the
\* read loop.
THEOREM SacksNeverFatal == Spec => []SackNeverFatal
<1>1. IInv => SackNeverFatal
    BY DEF IInv
<1> QED BY <1>1, Invariance, PTL

\* buffered_amount is exact in every state.
THEOREM BufferedAmountIsExact == Spec => []BufferedAmountExact
<1>1. IInv => BufferedAmountExact
    BY DEF IInv
<1> QED BY <1>1, Invariance, PTL

\* Nothing leaves the sender's queue, and the receiver's cumulative TSN passes
\* nothing, that is neither received nor given up.
THEOREM NothingLostSilently == Spec => []NoSilentLoss
<1>1. IInv => NoSilentLoss
  <2> SUFFICES ASSUME IInv,
                      NEW t \in 1 .. MaxOf(peer_last_tsn, cumulative_tsn_ack_point)
               PROVE  t \in Received \cup abandoned
    BY DEF NoSilentLoss
  <2>1. MaxOf(peer_last_tsn, cumulative_tsn_ack_point) = peer_last_tsn
    BY TsnTypes DEF MaxOf, IInv, PointsOrdered
  <2> QED BY <2>1 DEF IInv, AllSettled
<1> QED BY <1>1, Invariance, PTL

\* FORWARD TSN covers only what was received or given up.
THEOREM ForwardsOnlyAbandoned == Spec => []ForwardOnlyAbandoned
<1>1. IInv => ForwardOnlyAbandoned
    BY DEF IInv
<1> QED BY <1>1, Invariance, PTL

\* T3-rtx runs exactly while chunks are outstanding.
THEOREM T3Recovers == Spec => []T3RunsWhileOutstanding
<1>1. IInv => T3RunsWhileOutstanding
    BY DEF IInv
<1> QED BY <1>1, Invariance, PTL

\* Fast recovery can always end: the chunk that ends it is outstanding.
THEOREM RecoveryEnds == Spec => []FastRecoveryCanEnd
<1>1. IInv => FastRecoveryCanEnd
    BY DEF IInv
<1> QED BY <1>1, Invariance, PTL

\* No FORWARD TSN or SACK that is due, and no unsent data with nothing
\* outstanding, waits for a write loop that sleeps; a flagged fast retransmission
\* may, but only without FORWARD TSN and only while T3-rtx runs.
THEOREM WriteLoopAwake == Spec => []NoLostWakeUp
<1>1. IInv => NoLostWakeUp
    BY DEF IInv
<1> QED BY <1>1, Invariance, PTL

-----------------------------------------------------------------------------
(* The refinement of OrderedDelivery.                                      *)

LastRead == Promise!LastRead

\* Reading goes upwards: what was read is at or below the last message read,
\* what is still to be read is above it.
ReadsGoUp ==
    /\ LastRead \in Nat /\ LastRead < next_ssn
    /\ \A m \in Range(delivered) : m <= LastRead
    /\ \A m \in reassembly : m > LastRead /\ m \in Sent

\* A message is read above the last one, and only given-up ones lie between.
LEMMA ReadStep ==
    ASSUME IInv, ReadsGoUp, NEW m \in Readable,
           reassembly' = reassembly \ {m}, delivered' = Append(delivered, m)
    PROVE  /\ LastRead' = m
           /\ m \in 1 .. written /\ m > LastRead /\ m <= next_ssn
           /\ (LastRead + 1) .. (m - 1) \subseteq abandoned
           /\ \A u \in reassembly' : u > m /\ u \in Sent
           /\ \A u \in Range(delivered') : u <= m
<1>1. /\ m \in reassembly /\ m \in Tsns /\ m \in Nat /\ m <= next_ssn
      /\ \A u \in reassembly : u \in Nat /\ m <= u
    BY DEF Readable, IInv, TypeOK, ReceiverType, Tsns
<1>2. delivered \in Seq(Tsns) /\ delivered' \in Seq(Tsns)
    BY <1>1 DEF IInv, TypeOK, ReceiverType
<1>3. LastRead' = m
  <2>1. Len(delivered') = Len(delivered) + 1 /\ delivered' # <<>>
        /\ delivered'[Len(delivered) + 1] = m
    BY <1>1, <1>2
  <2> QED BY <2>1 DEF LastRead, Promise!LastRead
<1>4. m \in 1 .. written /\ m > LastRead
    BY <1>1, TsnTypes DEF ReadsGoUp, Sent
<1>5. \A u \in reassembly' : u > m /\ u \in Sent
    BY <1>1 DEF ReadsGoUp
<1>6. \A u \in Range(delivered') : u <= m
  <2>1. Range(delivered') = Range(delivered) \cup {m}
    BY <1>1, <1>2 DEF Range
  <2>2. \A u \in Range(delivered) : u \in Nat /\ u <= LastRead
    <3>1. Range(delivered) \subseteq Tsns
      BY <1>2 DEF Range
    <3> QED BY <3>1 DEF ReadsGoUp, Tsns
  <2> QED BY <1>1, <1>4, <2>1, <2>2 DEF ReadsGoUp
<1>7. (LastRead + 1) .. (m - 1) \subseteq abandoned
  <2> SUFFICES ASSUME NEW t \in (LastRead + 1) .. (m - 1) PROVE t \in abandoned
    OBVIOUS
  <2>1. t \in 1 .. (next_ssn - 1) /\ t > LastRead /\ t < m
    BY <1>1, TsnTypes DEF ReadsGoUp
  <2>2. t \in Received \cup abandoned
    BY <2>1 DEF IInv, AllSettled
  <2>3. t \notin Range(delivered) /\ t \notin reassembly
    BY <1>1, <2>1, TsnTypes DEF ReadsGoUp
  <2> QED BY <2>2, <2>3 DEF Received
<1> QED BY <1>1, <1>3, <1>4, <1>5, <1>6, <1>7

\* The messages read and the reassembly queue change only where a message is
\* read or DATA arrives.
LEMMA ReadsGoUpStep == IInv /\ ReadsGoUp /\ [Next]_vars => ReadsGoUp'
<1> SUFFICES ASSUME IInv, ReadsGoUp, [Next]_vars PROVE ReadsGoUp'
    OBVIOUS
<1>1. ASSUME UNCHANGED <<reassembly, delivered>>, next_ssn' \in Int, next_ssn' >= next_ssn,
             Sent \subseteq Sent'
      PROVE  ReadsGoUp'
    BY <1>1, TsnTypes DEF ReadsGoUp, LastRead, Promise!LastRead
<1>2. CASE Write
    BY <1>1, <1>2, TsnTypes DEF Write, rcv_vars, Sent
<1>3. CASE SenderGather
  <2>1. Sent \subseteq Sent'
    BY GatherFact, MovedFact, <1>3, TsnTypes DEF Sent
  <2> QED BY <1>1, <1>3, <2>1, TsnTypes DEF SenderGather, rcv_vars
<1>4. CASE T3Timeout
    BY <1>1, <1>4, TsnTypes DEF T3Timeout, rcv_vars, Sent
<1>5. CASE AckTimeout
    BY <1>1, <1>5, SenderKept, TsnTypes DEF AckTimeout
<1>6. CASE ReceiverGather
    BY <1>1, <1>6, SenderKept, TsnTypes DEF ReceiverGather
<1>7. CASE AppRead
  <2>1. PICK m \in Readable :
             /\ next_ssn' = IF m = next_ssn THEN m + 1 ELSE next_ssn
             /\ reassembly' = reassembly \ {m}
             /\ delivered' = Append(delivered, m)
    BY <1>7 DEF AppRead
  <2>2. UNCHANGED snd_vars
    BY <1>7 DEF AppRead
  <2>3. /\ LastRead' = m
        /\ m \in 1 .. written /\ m > LastRead /\ m <= next_ssn
        /\ \A u \in reassembly' : u > m /\ u \in Sent
        /\ \A u \in Range(delivered') : u <= m
    BY <2>1, ReadStep
  <2>4. m \in Nat /\ m < next_ssn'
    BY <2>1, <2>3, TsnTypes
  <2> QED BY <2>2, <2>3, <2>4, SenderKept DEF ReadsGoUp
<1>8. ASSUME NEW t \in data_net, RecvData(t) PROVE ReadsGoUp'
  <2>1. /\ UNCHANGED <<next_ssn, delivered, snd_vars>>
        /\ reassembly \subseteq reassembly'
        /\ \A u \in reassembly' : u \in reassembly \/ (u = t /\ t >= next_ssn)
    BY <1>8 DEF RecvData, HandleData
  <2>2. t \in Sent /\ t \in Nat
    BY DEF IInv, PointsOrdered, Sent
  <2>3. LastRead' = LastRead
    BY <2>1 DEF LastRead, Promise!LastRead
  <2> QED BY <2>1, <2>2, <2>3, SenderKept, TsnTypes DEF ReadsGoUp
<1>9. ASSUME NEW m \in sack_net, RecvSack(m) PROVE ReadsGoUp'
  <2>1. UNCHANGED <<reassembly, delivered, next_ssn, my_next_tsn>>
    BY <1>9 DEF RecvSack, HandleSack, rcv_vars, snd_vars, queue_vars
  <2> QED BY <1>1, <2>1, TsnTypes DEF Sent
<1>10. ASSUME NEW f \in fwd_net, RecvForwardTsn(f) PROVE ReadsGoUp'
  <2>1. /\ UNCHANGED <<reassembly, delivered, snd_vars>>
        /\ next_ssn' \in {next_ssn, MaxOf(next_ssn, f + 1)}
    BY <1>10 DEF RecvForwardTsn, HandleForwardTsn, rcv_vars
  <2>2. f \in Nat
    BY DEF IInv, PointsOrdered, Sent
  <2>3. next_ssn' \in Int /\ next_ssn' >= next_ssn
    BY <2>1, <2>2, TsnTypes DEF MaxOf
  <2> QED BY <1>1, <2>1, <2>3, SenderKept
<1>11. CASE Lose
    BY <1>1, <1>11, SenderKept, TsnTypes DEF Lose, rcv_vars
<1>12. CASE UNCHANGED vars
    BY <1>1, <1>12, SenderKept, TsnTypes DEF vars, rcv_vars
<1> QED BY <1>2, <1>3, <1>4, <1>5, <1>6, <1>7, <1>8, <1>9, <1>10, <1>11, <1>12 DEF Next

\* Every step is one of OrderedDelivery's or changes nothing it sees.
LEMMA RefinementStep == IInv /\ ReadsGoUp /\ [Next]_vars => [Promise!Next]_(Promise!vars)
<1> SUFFICES ASSUME IInv, ReadsGoUp, [Next]_vars PROVE [Promise!Next]_(Promise!vars)
    OBVIOUS
<1>1. ASSUME UNCHANGED <<written, abandoned, delivered>>
      PROVE  [Promise!Next]_(Promise!vars)
    BY <1>1 DEF Promise!vars
<1>2. CASE Write
  <2>1. Promise!Submit
    BY <1>2 DEF Write, Promise!Submit, rcv_vars
  <2> QED BY <2>1 DEF Promise!Next
<1>3. CASE SenderGather
  <2>1. abandoned \subseteq abandoned' /\ abandoned' \subseteq 1 .. written
        /\ written' = written /\ delivered' = delivered
    <3>1. IInv' /\ UNCHANGED <<written, delivered>>
      BY <1>3, SenderGatherInv DEF SenderGather, rcv_vars
    <3>2. abandoned' \subseteq 1 .. (my_next_tsn' - 1) /\ my_next_tsn' \in 1 .. (written + 1)
      BY <3>1 DEF IInv, TypeOK, SenderType, Sent
    <3>3. abandoned' \subseteq 1 .. written
      <4> DEFINE n == my_next_tsn'
      <4>1. n \in 1 .. (written + 1) /\ abandoned' \subseteq 1 .. (n - 1) /\ written \in Nat
        BY <3>2, TsnTypes
      <4> HIDE DEF n
      <4>2. 1 .. (n - 1) \subseteq 1 .. written
        BY <4>1
      <4> QED BY <4>1, <4>2
    <3> QED BY <1>3, <3>1, <3>3, GatherFact
  <2>2. Promise!GiveUp
    BY <2>1 DEF Promise!GiveUp, Promise!Messages
  <2> QED BY <2>2 DEF Promise!Next
<1>4. CASE AppRead
  <2>1. PICK m \in Readable :
             /\ reassembly' = reassembly \ {m}
             /\ delivered' = Append(delivered, m)
    BY <1>4 DEF AppRead
  <2>2. UNCHANGED <<written, abandoned>>
    BY <1>4 DEF AppRead, snd_vars, queue_vars
  <2>3. m \in Promise!Messages /\ Promise!Deliver(m)
    BY <2>1, <2>2, ReadStep DEF Promise!Messages, Promise!Deliver, LastRead
  <2> QED BY <2>3 DEF Promise!Next
<1>5. CASE T3Timeout \/ AckTimeout \/ ReceiverGather \/ Lose \/ UNCHANGED vars
    BY <1>1, <1>5 DEF T3Timeout, AckTimeout, ReceiverGather, Lose, vars, snd_vars, queue_vars,
       rcv_vars
<1>6. ASSUME \/ \E t \in data_net : RecvData(t)
             \/ \E m \in sack_net : RecvSack(m)
             \/ \E f \in fwd_net : RecvForwardTsn(f)
      PROVE  [Promise!Next]_(Promise!vars)
    BY <1>1, <1>6 DEF RecvData, HandleData, RecvSack, HandleSack, RecvForwardTsn,
       HandleForwardTsn, snd_vars, queue_vars, rcv_vars
<1> QED BY <1>2, <1>3, <1>4, <1>5, <1>6 DEF Next

\* The stream delivers in order, each message at most once, and passes over
\* only what its sender gave up: it implements OrderedDelivery.
THEOREM ImplementsOrderedDelivery == Spec => DeliversInOrder
<1>1. Init => Promise!Init /\ ReadsGoUp
    BY DEF Init, Promise!Init, ReadsGoUp, LastRead, Promise!LastRead, Range
<1>2. IInv /\ ReadsGoUp /\ [Next]_vars => ReadsGoUp'
    BY ReadsGoUpStep
<1>3. IInv /\ ReadsGoUp /\ [Next]_vars => [Promise!Next]_(Promise!vars)
    BY RefinementStep
<1> QED BY <1>1, <1>2, <1>3, Invariance, PTL DEF Spec, DeliversInOrder, Promise!Spec

-----------------------------------------------------------------------------
(* The points both sides count from.                                       *)

\* A run ends at or after the number it follows.
LEMMA RunEndUp ==
    ASSUME IInv, NEW a \in 0 .. MaxMsgs, NEW S \in SUBSET Tsns
    PROVE  RunEnd(a, S) \in Int /\ RunEnd(a, S) >= a
    BY RunEndFact, TsnTypes

\* No step moves a point back.
LEMMA PointsStep ==
    ASSUME IInv, [Next]_vars
    PROVE  /\ cumulative_tsn_ack_point' >= cumulative_tsn_ack_point
           /\ advanced_peer_tsn_ack_point' >= advanced_peer_tsn_ack_point
           /\ peer_last_tsn' >= peer_last_tsn
           /\ next_ssn' >= next_ssn
<1> DEFINE Goal == /\ cumulative_tsn_ack_point' >= cumulative_tsn_ack_point
                   /\ advanced_peer_tsn_ack_point' >= advanced_peer_tsn_ack_point
                   /\ peer_last_tsn' >= peer_last_tsn
                   /\ next_ssn' >= next_ssn
           Same == UNCHANGED <<cumulative_tsn_ack_point, advanced_peer_tsn_ack_point,
                               peer_last_tsn, next_ssn>>
<1>1. ASSUME Same PROVE Goal
    BY <1>1, TsnTypes
<1>2. CASE Write \/ SenderGather \/ AckTimeout \/ ReceiverGather \/ Lose \/ UNCHANGED vars
  <2>1. Same
    BY <1>2 DEF Write, SenderGather, AckTimeout, ReceiverGather, Lose, vars, snd_vars, ack_vars,
       rcv_vars
  <2> QED BY <1>1, <2>1, Zenon
<1>3. CASE T3Timeout
  <2>1. Outstanding \cap abandoned \in SUBSET Tsns /\ advanced_peer_tsn_ack_point \in 0 .. MaxMsgs
    BY TsnTypes DEF IInv, TypeOK, SenderType
  <2>2. RunEnd(advanced_peer_tsn_ack_point, Outstanding \cap abandoned)
            >= advanced_peer_tsn_ack_point
    BY <2>1, RunEndUp
  <2>3. /\ UNCHANGED <<cumulative_tsn_ack_point, peer_last_tsn, next_ssn>>
        /\ advanced_peer_tsn_ack_point' \in
              {advanced_peer_tsn_ack_point,
               RunEnd(advanced_peer_tsn_ack_point, Outstanding \cap abandoned)}
    BY <1>3 DEF T3Timeout, SkipAbandoned, rcv_vars
  <2> QED BY <2>2, <2>3, TsnTypes
<1>4. CASE AppRead
    BY <1>4, TsnTypes DEF AppRead, snd_vars, ack_vars
<1>5. ASSUME NEW t \in data_net, RecvData(t) PROVE Goal
  <2> DEFINE q == payload_queue \cup (IF Accepted(t) THEN {t} ELSE {})
  <2>1. q \in SUBSET Tsns /\ peer_last_tsn \in 0 .. MaxMsgs
    BY DEF IInv, TypeOK, ReceiverType, NetworkType
  <2>2. peer_last_tsn' = RunEnd(peer_last_tsn, q) /\ next_ssn' = next_ssn
        /\ UNCHANGED <<cumulative_tsn_ack_point, advanced_peer_tsn_ack_point>>
    BY <1>5 DEF RecvData, HandleData, AdvanceAndAck, snd_vars, ack_vars
  <2> HIDE DEF q
  <2> QED BY <2>1, <2>2, RunEndUp, TsnTypes
<1>6. ASSUME NEW m \in sack_net, RecvSack(m) PROVE Goal
  <2>1. CASE Stale(m)
    BY <1>6, <2>1, TsnTypes DEF RecvSack, HandleSack, snd_vars, ack_vars, rcv_vars
  <2>2. CASE ~Stale(m)
    <3> DEFINE p == MaxOf(advanced_peer_tsn_ack_point, m.cum)
    <3>1. m.cum \in cumulative_tsn_ack_point .. peer_last_tsn /\ m.cum \in Nat
          /\ m.cum < my_next_tsn /\ Remaining(m) \cap abandoned \in SUBSET Tsns
      BY <2>2, SackFact, TsnTypes
    <3>2. p \in 0 .. MaxMsgs /\ p >= advanced_peer_tsn_ack_point
      BY <3>1, TsnTypes DEF MaxOf, IInv, PointsOrdered
    <3>3. /\ cumulative_tsn_ack_point' = m.cum
          /\ advanced_peer_tsn_ack_point' \in
                {advanced_peer_tsn_ack_point, RunEnd(p, Remaining(m) \cap abandoned)}
          /\ UNCHANGED <<peer_last_tsn, next_ssn>>
      BY <1>6, <2>2 DEF RecvSack, HandleSack, SkipAbandoned, rcv_vars
    <3> HIDE DEF p
    <3> QED BY <3>1, <3>2, <3>3, RunEndUp, TsnTypes
  <2> QED BY <2>1, <2>2
<1>7. ASSUME NEW f \in fwd_net, RecvForwardTsn(f) PROVE Goal
  <2>1. UNCHANGED <<cumulative_tsn_ack_point, advanced_peer_tsn_ack_point>>
    BY <1>7 DEF RecvForwardTsn, snd_vars, ack_vars
  <2>2. CASE OutOfDate(f) \/ ~use_forward_tsn
    BY <1>7, <2>1, <2>2, TsnTypes DEF RecvForwardTsn, HandleForwardTsn, rcv_vars
  <2>3. CASE ~OutOfDate(f) /\ use_forward_tsn
    <3> DEFINE q == {t \in payload_queue : t > f}
    <3>1. f \in 0 .. MaxMsgs /\ f \in Nat /\ f > peer_last_tsn /\ q \in SUBSET Tsns
      <4>1. f \in Tsns /\ payload_queue \subseteq Tsns
        BY DEF IInv, TypeOK, ReceiverType, NetworkType
      <4>2. f \in Nat /\ f \in 0 .. MaxMsgs
        BY <4>1 DEF Tsns
      <4>3. f > peer_last_tsn
        BY <2>3, <4>2, TsnTypes DEF OutOfDate
      <4>4. q \in SUBSET Tsns
        BY <4>1
      <4> HIDE DEF q
      <4> QED BY <4>2, <4>3, <4>4
    <3>2. peer_last_tsn' = RunEnd(f, q) /\ next_ssn' \in {next_ssn, MaxOf(next_ssn, f + 1)}
      BY <1>7, <2>3 DEF RecvForwardTsn, HandleForwardTsn, AdvanceAndAck
    <3> HIDE DEF q
    <3> QED BY <2>1, <3>1, <3>2, RunEndUp, TsnTypes DEF MaxOf
  <2> QED BY <2>2, <2>3
<1> QED BY <1>2, <1>3, <1>4, <1>5, <1>6, <1>7 DEF Next

\* No SACK, DATA or FORWARD TSN, in whatever order, moves a point back.
THEOREM PointsOnlyAdvance == Spec => PointsNeverRetreat
<1>1. IInv /\ [Next]_vars =>
          [/\ cumulative_tsn_ack_point' >= cumulative_tsn_ack_point
           /\ advanced_peer_tsn_ack_point' >= advanced_peer_tsn_ack_point
           /\ peer_last_tsn' >= peer_last_tsn
           /\ next_ssn' >= next_ssn]_vars
    BY PointsStep
<1> QED BY <1>1, Invariance, PTL DEF Spec, PointsNeverRetreat

-----------------------------------------------------------------------------
(* What is sent again.                                                     *)

\* Only a chunk that is not acknowledged is flagged for retransmission.
Flagged == \A t \in Outstanding : inflight_queue[t].retransmit => ~inflight_queue[t].acked

\* What a step may put on the wire, and what becomes of the flags.
Resends ==
    /\ \A t \in data_net' \ data_net :
          /\ t \in Outstanding' /\ ~inflight_queue'[t].acked
          /\ t \in abandoned => inflight_queue[t].retransmit /\ ~inflight_queue'[t].retransmit
    /\ \A t \in abandoned \cap Outstanding' :
          inflight_queue'[t].retransmit => inflight_queue[t].retransmit

\* Counting one more transmission sets no flag.
LEMMA CountedFlag ==
    ASSUME NEW c \in Chunk
    PROVE  /\ [c EXCEPT !.nsent = MinOf(@ + 1, NSentCap), !.retransmit = FALSE].retransmit = FALSE
           /\ [c EXCEPT !.nsent = MinOf(@ + 1, NSentCap)].retransmit = c.retransmit
  BY DEF Chunk

\* A gather clears the flags of what it sends again, and fast retransmission
\* passes over what was acknowledged or given up.
LEMMA GatherSends ==
    ASSUME IInv, Flagged, SenderGather
    PROVE  Flagged' /\ Resends
<1> DEFINE again == ToRetransmit
           q1    == Resent(inflight_queue, again)
           q2    == [t \in Outstanding \cup ToSend |->
                        IF t \in ToSend THEN FirstSent ELSE q1[t]]
<1>1. PICK lost1 \in AbandonChoices(q2, again \cup ToSend) :
        LET fast == ToFastRetransmit(q2, abandoned \cup lost1)
            q3   == [t \in DOMAIN q2 |->
                       IF t \in fast THEN [q2[t] EXCEPT !.nsent = MinOf(@ + 1, NSentCap)]
                                     ELSE q2[t]]
        IN  /\ inflight_queue' = q3
            /\ data_net' = data_net \cup again \cup ToSend \cup fast
    BY DEF SenderGather
<1> DEFINE fast == ToFastRetransmit(q2, abandoned \cup lost1)
           q3   == [t \in DOMAIN q2 |->
                      IF t \in fast THEN [q2[t] EXCEPT !.nsent = MinOf(@ + 1, NSentCap)]
                                    ELSE q2[t]]
<1>2. inflight_queue' = q3 /\ data_net' = data_net \cup again \cup ToSend \cup fast
    BY <1>1
<1>3. again \subseteq {t \in Outstanding : inflight_queue[t].retransmit}
  <2>1. cumulative_tsn_ack_point + 1 \in {t \in Outstanding : inflight_queue[t].retransmit} =>
           {cumulative_tsn_ack_point + 1} \subseteq {t \in Outstanding : inflight_queue[t].retransmit}
    OBVIOUS
  <2> QED BY <2>1 DEF ToRetransmit
<1>4. \A t \in fast : t \in Outstanding \cup ToSend /\ t \notin abandoned /\ ~q2[t].acked
    BY DEF ToFastRetransmit
<1>5. inflight_queue \in [Outstanding -> Chunk] /\ Outstanding \cap ToSend = {} /\ abandoned \cap ToSend = {}
  <2>1. \A t \in Outstanding \cup abandoned : t < my_next_tsn /\ t \in Int
    BY TsnTypes DEF Sent, IInv, TypeOK, SenderType
  <2>2. \A t \in ToSend : t >= my_next_tsn
    BY MovedFact, TsnTypes
  <2>3. (Outstanding \cup abandoned) \cap ToSend = {}
    BY <2>1, <2>2, TsnTypes
  <2>4. inflight_queue \in [Outstanding -> Chunk]
    BY DEF IInv, TypeOK, SenderType
  <2> QED BY <2>3, <2>4
<1>6. /\ q1 \in [Outstanding -> Chunk]
      /\ \A t \in Outstanding : q1[t].acked = inflight_queue[t].acked
      /\ \A t \in Outstanding : q1[t].retransmit =
            IF t \in again THEN FALSE ELSE inflight_queue[t].retransmit
    BY <1>5, CountedFact, CountedFlag DEF Resent
<1>7. /\ q2 \in [Outstanding \cup ToSend -> Chunk]
      /\ \A t \in ToSend : q2[t].acked = FALSE /\ q2[t].retransmit = FALSE
      /\ \A t \in Outstanding : q2[t] = q1[t]
  <2>1. FirstSent \in Chunk /\ FirstSent.acked = FALSE /\ FirstSent.retransmit = FALSE
    BY ConfigAssumption DEF FirstSent, Chunk, NSentCap, MaxOf
  <2> HIDE DEF q1, again
  <2> QED BY <1>5, <1>6, <2>1
<1>8. /\ q3 \in [Outstanding \cup ToSend -> Chunk]
      /\ \A t \in Outstanding \cup ToSend :
            q3[t].acked = q2[t].acked /\ q3[t].retransmit = q2[t].retransmit
  <2> HIDE DEF q2, fast
  <2> QED BY <1>7, CountedFact, CountedFlag
<1> HIDE DEF q3, q2, q1, fast, again
<1>9. Outstanding' = Outstanding \cup ToSend
    BY <1>2, <1>8 DEF Outstanding
<1>10. Flagged'
  <2>1. ASSUME NEW t \in Outstanding', inflight_queue'[t].retransmit
        PROVE  ~inflight_queue'[t].acked
    <3>1. q2[t].retransmit /\ inflight_queue'[t].acked = q2[t].acked
      BY <1>2, <1>8, <1>9, <2>1
    <3>2. t \in Outstanding /\ q2[t] = q1[t]
      BY <1>7, <1>9, <2>1, <3>1
    <3>3. inflight_queue[t].retransmit /\ q1[t].acked = inflight_queue[t].acked
      BY <1>6, <3>1, <3>2
    <3> QED BY <3>1, <3>2, <3>3 DEF Flagged
  <2> QED BY <2>1 DEF Flagged
<1>11. ASSUME NEW t \in data_net' \ data_net
       PROVE  /\ t \in Outstanding' /\ ~inflight_queue'[t].acked
              /\ t \in abandoned => inflight_queue[t].retransmit /\ ~inflight_queue'[t].retransmit
  <2>1. CASE t \in again
    BY <1>2, <1>3, <1>6, <1>7, <1>8, <1>9, <2>1 DEF Flagged
  <2>2. CASE t \in ToSend
    BY <1>2, <1>5, <1>7, <1>8, <1>9, <2>2
  <2>3. CASE t \in fast
    BY <1>2, <1>4, <1>8, <1>9, <2>3
  <2> QED BY <1>2, <2>1, <2>2, <2>3
<1>12. ASSUME NEW t \in abandoned \cap Outstanding', inflight_queue'[t].retransmit
       PROVE  inflight_queue[t].retransmit
    BY <1>2, <1>5, <1>6, <1>7, <1>8, <1>9, <1>12
<1> QED BY <1>10, <1>11, <1>12 DEF Resends

\* The other steps send no data; T3-rtx flags neither what was acknowledged nor
\* what was given up, and a SACK flags nothing.
LEMMA ResendStep == IInv /\ Flagged /\ [Next]_vars => Flagged' /\ Resends
<1> SUFFICES ASSUME IInv, Flagged, [Next]_vars PROVE Flagged' /\ Resends
    OBVIOUS
<1>0. inflight_queue \in [Outstanding -> Chunk]
    BY DEF IInv, TypeOK, SenderType
<1>1. ASSUME inflight_queue' = inflight_queue, data_net' \subseteq data_net PROVE Flagged' /\ Resends
    BY <1>1 DEF Flagged, Resends, Outstanding
<1>2. CASE Write
    BY <1>1, <1>2 DEF Write, net_vars
<1>3. CASE SenderGather
    BY <1>3, GatherSends
<1>4. CASE T3Timeout
  <2>1. inflight_queue' = MarkAllToRetransmit(inflight_queue) /\ data_net' = data_net
    BY <1>4 DEF T3Timeout
  <2>2. \A t \in Outstanding : [inflight_queue[t] EXCEPT !.retransmit = TRUE].acked = inflight_queue[t].acked
    BY <1>0 DEF Chunk
  <2>3. Outstanding' = Outstanding
    BY <2>1 DEF Outstanding, MarkAllToRetransmit
  <2>4. \A t \in Outstanding :
           /\ inflight_queue'[t].acked = inflight_queue[t].acked
           /\ inflight_queue[t].acked \/ t \in abandoned => inflight_queue'[t] = inflight_queue[t]
    BY <2>1, <2>2 DEF MarkAllToRetransmit, Outstanding
  <2> QED BY <2>1, <2>3, <2>4 DEF Flagged, Resends
<1>5. CASE AckTimeout
    BY <1>1, <1>5, SenderKept DEF AckTimeout, net_vars, snd_vars, queue_vars
<1>6. CASE ReceiverGather
    BY <1>1, <1>6 DEF ReceiverGather, snd_vars, queue_vars
<1>7. CASE AppRead
    BY <1>1, <1>7 DEF AppRead, snd_vars, queue_vars, net_vars
<1>8. ASSUME NEW t \in data_net, RecvData(t) PROVE Flagged' /\ Resends
  <2>1. data_net' \subseteq data_net
    BY <1>8 DEF RecvData, Delivered
  <2> QED BY <1>1, <1>8, <2>1 DEF RecvData, snd_vars, queue_vars
<1>9. ASSUME NEW m \in sack_net, RecvSack(m) PROVE Flagged' /\ Resends
  <2>1. data_net' = data_net
    BY <1>9 DEF RecvSack
  <2>2. CASE Stale(m)
    BY <1>1, <1>9, <2>1, <2>2 DEF RecvSack, HandleSack, snd_vars, queue_vars
  <2>3. CASE ~Stale(m)
    <3>1. inflight_queue' = CountMissing(m)
      BY <1>9, <2>3 DEF RecvSack, HandleSack
    <3>2. Outstanding' = Remaining(m) /\ Remaining(m) \subseteq Outstanding
      BY <2>3, <3>1, SackQueue DEF Remaining
    <3>3. \A t \in Remaining(m) :
             MarkAcked(m)[t] \in Chunk /\ (MarkAcked(m)[t].retransmit =>
                inflight_queue[t].retransmit /\ ~MarkAcked(m)[t].acked)
      BY <1>0, <3>2 DEF MarkAcked, Flagged, Chunk
    <3>4. \A t \in Remaining(m) : /\ CountMissing(m)[t].retransmit = MarkAcked(m)[t].retransmit
                                  /\ CountMissing(m)[t].acked = MarkAcked(m)[t].acked
      BY <3>3 DEF CountMissing, Chunk
    <3> QED BY <2>1, <3>1, <3>2, <3>3, <3>4 DEF Flagged, Resends
  <2> QED BY <2>2, <2>3
<1>10. ASSUME NEW f \in fwd_net, RecvForwardTsn(f) PROVE Flagged' /\ Resends
    BY <1>1, <1>10 DEF RecvForwardTsn, snd_vars, queue_vars
<1>11. CASE Lose
  <2>1. data_net' \subseteq data_net
    BY <1>11 DEF Lose
  <2> QED BY <1>1, <1>11, <2>1 DEF Lose, snd_vars, queue_vars
<1>12. CASE UNCHANGED vars
    BY <1>1, <1>12 DEF vars, snd_vars, queue_vars, net_vars
<1> QED BY <1>2, <1>3, <1>4, <1>5, <1>6, <1>7, <1>8, <1>9, <1>10, <1>11, <1>12 DEF Next

\* No retransmission, by T3-rtx or by fast retransmission, is of a chunk that
\* was acknowledged, and one that was given up is sent once more at most.
THEOREM SettledIsNotResent == Spec => NeverResendSettled
<1>1. Init => Flagged
    BY DEF Init, Flagged, Outstanding
<1>2. IInv /\ Flagged /\ [Next]_vars => Flagged'
    BY ResendStep
<1>3. IInv /\ Flagged /\ [Next]_vars =>
        [/\ \A t \in data_net' \ data_net :
              /\ t \in Outstanding' /\ ~inflight_queue'[t].acked
              /\ t \in abandoned => inflight_queue[t].retransmit /\ ~inflight_queue'[t].retransmit
         /\ \A t \in abandoned \cap Outstanding' :
              inflight_queue'[t].retransmit => inflight_queue[t].retransmit]_vars
    BY ResendStep DEF Resends
<1> QED BY <1>1, <1>2, <1>3, Invariance, PTL DEF Spec, NeverResendSettled
=============================================================================
