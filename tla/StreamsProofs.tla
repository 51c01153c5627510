---------------------------- MODULE StreamsProofs ----------------------------
(***************************************************************************)
(* Theorems about Streams, for any number of messages and of lost RECONFIG *)
(* packets, whichever sides write and read.                                *)
(***************************************************************************)
EXTENDS Streams, NaturalSets

Control == [type : {"REQUEST", "RESPONSE"}, last : Nat]
ReaderStates == {"called", "looked", "found nothing", "waiting", "eof"}

Typed ==
    /\ racing \in BOOLEAN /\ reliable \in BOOLEAN /\ losses \in 0 .. MaxLoss
    /\ entry \in [Peers -> {"open", "none", "accepted"}]
    /\ read_shutdown \in [Peers -> BOOLEAN] /\ write_shutdown \in [Peers -> BOOLEAN]
    /\ writer \in [Peers -> {"idle", "checked"}]
    /\ asked \in [Peers -> BOOLEAN] /\ raced \in [Peers -> BOOLEAN]
    /\ pending \in [Peers -> Seq({"DATA", "EOS"})]
    /\ my_next_tsn \in [Peers -> Nat \ {0}]
    /\ abandoned \in [Peers -> SUBSET Nat]
    /\ reconfigs \in [Peers -> SUBSET Nat]
    /\ will_retransmit_reconfig \in [Peers -> BOOLEAN]
    /\ treconfig \in [Peers -> BOOLEAN] /\ awake \in [Peers -> BOOLEAN]
    /\ peer_last_tsn \in [Peers -> Nat]
    /\ payload_queue \in [Peers -> SUBSET Nat]
    /\ reconfig_requests \in [Peers -> SUBSET Nat]
    /\ reassembly \in [Peers -> SUBSET Nat]
    /\ next_ssn \in [Peers -> Nat \ {0}]
    /\ reader \in [Peers -> ReaderStates] /\ permit \in [Peers -> BOOLEAN]
    /\ net \in [Peers -> SUBSET Control]

\* What a request may name: everything that its sender had sent, or nothing.
Known(s) == 0 .. (my_next_tsn[s] - 1)
DataIn(q) == {i \in 1 .. Len(q) : q[i] = "DATA"}

\* The sender s on its own: there is a message for each chunk it has, and one
\* for the write that has only been checked.
SenderOk(s) ==
    /\ my_next_tsn[s] + Cardinality(DataIn(pending[s]))
          + (IF writer[s] = "checked" THEN 1 ELSE 0) <= MaxMsgs + 1
    /\ abandoned[s] \subseteq Sent(s)
    /\ reconfigs[s] \subseteq Known(s)
    /\ raced[s] => asked[s]
    /\ writer[s] = "checked" => racing

\* The receiver r and what is under way name nothing that s has not sent.
ReceiverOk(s, r) ==
    /\ peer_last_tsn[r] \in Known(s)
    /\ \A t \in payload_queue[r] : t > peer_last_tsn[r] /\ t \in Known(s)
    /\ reconfig_requests[r] \subseteq Known(s)
    /\ reassembly[r] \subseteq Sent(s)
    /\ next_ssn[r] <= my_next_tsn[s]
    /\ \A t \in Nat : Request(t) \in net[r] => t \in Known(s)
    /\ \A t \in Nat : Response(t) \in net[s] => t \in Known(s)

Linked == \A s \in Peers : SenderOk(s) /\ ReceiverOk(s, Other(s))

-----------------------------------------------------------------------------
LEMMA OtherPeer ==
    \A x \in Peers : /\ Other(x) \in Peers /\ Other(x) # x /\ Other(Other(x)) = x
                     /\ \A y \in Peers : y # x => y = Other(x)
  BY StreamsAssumption DEF Peers, Other

LEMMA SetValue ==
    ASSUME NEW S, NEW f \in [Peers -> S], NEW x \in Peers, NEW v \in S
    PROVE  /\ Set(f, x, v) \in [Peers -> S]
           /\ Set(f, x, v)[x] = v
           /\ \A y \in Peers : y # x => Set(f, x, v)[y] = f[y]
  BY DEF Set

\* The run of TSNs that arrived ends at one of them, or where it began.
LEMMA RunEndFact ==
    ASSUME NEW m \in 0 .. MaxMsgs, NEW p \in 0 .. m, NEW S \in SUBSET (0 .. m)
    PROVE  /\ RunEnd(p, S) \in p .. m
           /\ (p + 1) .. RunEnd(p, S) \subseteq S
<1>1. m + 1 \notin S /\ S \in SUBSET Nat /\ m \in Nat /\ p \in Nat /\ p <= m
  BY StreamsAssumption
<1>2. \E i \in p .. m : (p + 1) .. i \subseteq S /\ i + 1 \notin S
  BY <1>1, RunOfNaturals
<1>3. \E i \in p .. MaxMsgs : (p + 1) .. i \subseteq S /\ i + 1 \notin S
  BY <1>2, StreamsAssumption
<1> DEFINE e == RunEnd(p, S)
<1>4. e \in p .. MaxMsgs /\ (p + 1) .. e \subseteq S
  BY <1>3 DEF RunEnd
<1> HIDE DEF e
<1>5. e <= m
  <2>1. CASE e = p
    BY <2>1
  <2>2. CASE e # p
    <3>1. e \in (p + 1) .. e
      BY <1>4, <2>2, StreamsAssumption
    <3> QED BY <1>4, <3>1
  <2> QED BY <2>1, <2>2
<1> QED BY <1>4, <1>5, StreamsAssumption DEF e

LEMMA DataInFinite ==
    ASSUME NEW q \in Seq({"DATA", "EOS"})
    PROVE  /\ IsFiniteSet(DataIn(q)) /\ Cardinality(DataIn(q)) \in Nat
           /\ DataIn(q) \in SUBSET (1 .. Len(q))
<1>1. IsFiniteSet(1 .. Len(q)) /\ DataIn(q) \in SUBSET (1 .. Len(q))
  BY FS_Interval DEF DataIn
<1> QED BY <1>1, FS_Subset, FS_CardinalityType

LEMMA AppendData ==
    ASSUME NEW q \in Seq({"DATA", "EOS"})
    PROVE  /\ Cardinality(DataIn(Append(q, "DATA"))) = Cardinality(DataIn(q)) + 1
           /\ Append(q, "DATA") \in Seq({"DATA", "EOS"})
           /\ Cardinality(DataIn(Append(q, "EOS"))) = Cardinality(DataIn(q))
           /\ Append(q, "EOS") \in Seq({"DATA", "EOS"})
<1>1. DataIn(Append(q, "DATA")) = DataIn(q) \cup {Len(q) + 1}
  BY DEF DataIn
<1>2. DataIn(Append(q, "EOS")) = DataIn(q)
  BY DEF DataIn
<1>3. Len(q) + 1 \notin DataIn(q)
  BY DEF DataIn
<1> QED BY <1>1, <1>2, <1>3, DataInFinite, FS_AddElement

\* Popping k chunks takes as many DATA chunks as there are among them.
LEMMA PopData ==
    ASSUME NEW q \in Seq({"DATA", "EOS"}), NEW k \in 0 .. Len(q)
    PROVE  LET popped == SubSeq(q, 1, k)
               rest   == SubSeq(q, k + 1, Len(q))
               n      == Cardinality({i \in 1 .. k : popped[i] = "DATA"})
           IN  /\ rest \in Seq({"DATA", "EOS"}) /\ n \in 0 .. k
               /\ n + Cardinality(DataIn(rest)) = Cardinality(DataIn(q))
               /\ n < k => \E i \in 1 .. k : q[i] # "DATA"
               /\ n = k => \A i \in 1 .. k : q[i] = "DATA"
               /\ n > 0 => \E i \in 1 .. k : q[i] = "DATA"
               /\ Len(rest) = Len(q) - k
               /\ \A i \in 1 .. Len(rest) : rest[i] = q[i + k]
<1> DEFINE popped == SubSeq(q, 1, k)
           rest   == SubSeq(q, k + 1, Len(q))
           D      == {i \in 1 .. k : q[i] = "DATA"}
           E      == {i \in DataIn(q) : i > k}
<1>1. /\ rest \in Seq({"DATA", "EOS"}) /\ Len(rest) = Len(q) - k
      /\ \A i \in 1 .. Len(rest) : rest[i] = q[i + k]
      /\ \A i \in 1 .. k : popped[i] = q[i]
  OBVIOUS
<1> HIDE DEF rest, popped
<1>2. {i \in 1 .. k : popped[i] = "DATA"} = D
  BY <1>1
<1>3. /\ IsFiniteSet(D) /\ IsFiniteSet(E) /\ D \cup E = DataIn(q) /\ D \cap E = {}
      /\ IsFiniteSet(1 .. k) /\ Cardinality(1 .. k) = k /\ D \in SUBSET (1 .. k)
  <2>1. D \in SUBSET (1 .. k) /\ E \in SUBSET DataIn(q)
    OBVIOUS
  <2>2. IsFiniteSet(1 .. k) /\ Cardinality(1 .. k) = k
    BY FS_Interval
  <2>3. D \cup E = DataIn(q) /\ D \cap E = {}
    BY DEF DataIn
  <2> QED BY <2>1, <2>2, <2>3, DataInFinite, FS_Subset
<1>4. Cardinality(E) = Cardinality(DataIn(rest))
  <2>1. E = {i + k : i \in DataIn(rest)}
    <3>1. \A i \in DataIn(rest) : i + k \in E
      BY <1>1 DEF DataIn
    <3>2. \A j \in E : j - k \in DataIn(rest) /\ j = (j - k) + k
      BY <1>1 DEF DataIn
    <3> QED BY <3>1, <3>2
  <2>2. DataIn(rest) \in SUBSET Nat /\ IsFiniteSet(DataIn(rest))
    BY <1>1, DataInFinite
  <2> HIDE DEF E
  <2>3. k \in Nat
    OBVIOUS
  <2> QED BY <2>1, <2>2, <2>3, ShiftedSize
<1>5. Cardinality(D) + Cardinality(E) = Cardinality(DataIn(q)) /\ Cardinality(D) \in Nat
  BY <1>3, SplitSize
<1>6. Cardinality(D) <= k /\ (Cardinality(D) = k => D = 1 .. k)
  <2> HIDE DEF D, E
  <2>1. /\ Cardinality(D) <= Cardinality(1 .. k)
        /\ Cardinality(1 .. k) = Cardinality(D) => 1 .. k = D
    BY <1>3, FS_Subset
  <2> QED BY <1>3, <2>1
<1>7. Cardinality(D) > 0 => D # {}
  BY <1>3, FS_EmptySet
<1> HIDE DEF E
<1>8. Cardinality(D) < k => \E i \in 1 .. k : q[i] # "DATA"
  <2> SUFFICES ASSUME \A i \in 1 .. k : q[i] = "DATA" PROVE Cardinality(D) = k
    BY <1>6
  <2>1. D = 1 .. k
    OBVIOUS
  <2> QED BY <1>3, <2>1
<1>9. /\ Cardinality(D) > 0 => \E i \in 1 .. k : q[i] = "DATA"
      /\ Cardinality(D) = k => \A i \in 1 .. k : q[i] = "DATA"
  BY <1>6, <1>7
<1> HIDE DEF D
<1>10. /\ Cardinality(D) \in 0 .. k
       /\ Cardinality(D) + Cardinality(DataIn(rest)) = Cardinality(DataIn(q))
  BY <1>4, <1>5, <1>6
<1> QED BY <1>1, <1>2, <1>8, <1>9, <1>10 DEF rest, popped

-----------------------------------------------------------------------------
(* Types: the initial state and the application's steps.                   *)

TypeInv == Typed /\ Linked

LEMMA TypeInit == Init => TypeInv
<1> SUFFICES ASSUME Init PROVE TypeInv
  OBVIOUS
<1>1. Typed
  <2>1. pending \in [Peers -> Seq({"DATA", "EOS"})]
    BY DEF Init
  <2>2. racing \in BOOLEAN /\ reliable \in BOOLEAN
    BY DEF Init
  <2>3. losses \in 0 .. MaxLoss
    BY StreamsAssumption DEF Init
  <2> QED BY <2>1, <2>2, <2>3 DEF Init, Typed, ReaderStates
<1>2. \A x \in Peers : DataIn(pending[x]) = {} /\ Cardinality(DataIn(pending[x])) = 0
  BY FS_EmptySet DEF Init, DataIn
<1>3. \A s \in Peers : SenderOk(s)
  BY <1>2, StreamsAssumption DEF Init, SenderOk, Known
<1>4. \A s \in Peers : ReceiverOk(s, Other(s))
  BY OtherPeer DEF Init, ReceiverOk, Known
<1> QED BY <1>1, <1>3, <1>4 DEF TypeInv, Linked

link_vars == <<racing, my_next_tsn, pending, writer, abandoned, reconfigs, raced, asked, peer_last_tsn,
               payload_queue, reconfig_requests, reassembly, next_ssn, net>>

LEMMA LinkedSame == Linked /\ UNCHANGED link_vars => Linked'
  BY DEF link_vars, Linked, SenderOk, ReceiverOk, Sent, Known

\* A receiver's part depends on the sender's next TSN alone.
LEMMA ReceiverSame ==
    ASSUME NEW s, NEW r, ReceiverOk(s, r),
           UNCHANGED <<my_next_tsn, peer_last_tsn, payload_queue, reconfig_requests,
                       reassembly, next_ssn, net>>
    PROVE  ReceiverOk(s, r)'
  BY DEF ReceiverOk, Sent, Known

LEMMA ReadType == ASSUME TypeInv, NEW x \in Peers, ReadStep(x) PROVE TypeInv'
<1>1. CASE LookAtFlag(x) \/ Wait(x)
  <2>1. Typed'
    BY <1>1 DEF TypeInv, Typed, ReadStep, LookAtFlag, Wait, fixed, app_vars, snd_vars, tsn_vars,
                Set, ReaderStates
  <2>2. UNCHANGED link_vars
    BY <1>1 DEF ReadStep, LookAtFlag, Wait, link_vars, fixed, app_vars, snd_vars, tsn_vars
  <2> QED BY <2>1, <2>2, LinkedSame DEF TypeInv
<1>2. CASE LookAtQueue(x)
  <2>1. CASE ~Readable(reassembly[x], next_ssn[x])
    <3>1. Typed'
      BY <1>2, <2>1 DEF TypeInv, Typed, ReadStep, LookAtQueue, fixed, app_vars, snd_vars,
                        tsn_vars, Set, ReaderStates
    <3>2. UNCHANGED link_vars
      BY <1>2, <2>1 DEF ReadStep, LookAtQueue, link_vars, fixed, app_vars, snd_vars, tsn_vars
    <3> QED BY <3>1, <3>2, LinkedSame DEF TypeInv
  <2>2. CASE Readable(reassembly[x], next_ssn[x])
    <3> DEFINE m == Min(reassembly[x])
               n == IF m = next_ssn[x] THEN m + 1 ELSE next_ssn[x]
    <3>1. reassembly[x] \in SUBSET Nat /\ reassembly[x] # {}
      BY <2>2 DEF Readable, TypeInv, Typed
    <3>2. m \in reassembly[x]
      BY <3>1, MinOfNaturals
    <3>3. /\ reassembly' = Set(reassembly, x, reassembly[x] \ {m})
          /\ next_ssn' = Set(next_ssn, x, n)
          /\ reader' = Set(reader, x, "called")
      BY <1>2, <2>2 DEF LookAtQueue
    <3>4. m \in Sent(Other(x)) /\ next_ssn[x] <= my_next_tsn[Other(x)]
      BY <3>2, OtherPeer DEF TypeInv, Linked, ReceiverOk
    <3>5. n \in Nat \ {0} /\ n <= my_next_tsn[Other(x)]
      BY <3>4, OtherPeer DEF Sent, TypeInv, Typed
    <3> HIDE DEF m, n
    <3>6. Typed'
      BY <1>2, <3>3, <3>5 DEF TypeInv, Typed, ReadStep, LookAtQueue, fixed, app_vars, snd_vars,
                              tsn_vars, Set, ReaderStates
    <3>7. UNCHANGED <<racing, app_vars, snd_vars, tsn_vars, net>>
      BY DEF ReadStep, fixed
    <3>8. \A s \in Peers : SenderOk(s)'
      BY <3>7 DEF TypeInv, Linked, SenderOk, Sent, Known, app_vars, snd_vars
    <3>9. \A s \in Peers : ReceiverOk(s, Other(s))'
      <4> SUFFICES ASSUME NEW s \in Peers PROVE ReceiverOk(s, Other(s))'
        OBVIOUS
      <4>1. ReceiverOk(s, Other(s))
        BY DEF TypeInv, Linked
      <4>2. /\ reassembly'[Other(s)] \subseteq reassembly[Other(s)]
            /\ next_ssn'[Other(s)] <= my_next_tsn[s]
        BY <3>3, <3>5, <4>1, OtherPeer DEF Set, ReceiverOk, TypeInv, Typed
      <4> QED BY <3>7, <4>1, <4>2 DEF ReceiverOk, Sent, Known, snd_vars, tsn_vars
    <3> QED BY <3>6, <3>8, <3>9, OtherPeer DEF TypeInv, Linked, Other, Peers
  <2> QED BY <2>1, <2>2
<1> QED BY <1>1, <1>2 DEF ReadStep

\* A chunk is queued for which there is room.
LEMMA QueueType ==
    ASSUME TypeInv, NEW x \in Peers, QueueData(x),
           my_next_tsn[x] + Cardinality(DataIn(pending[x])) <= MaxMsgs,
           writer' \in [Peers -> {"idle", "checked"}],
           writer'[x] = "idle", \A y \in Peers : y # x => writer'[y] = writer[y]
    PROVE  TypeInv'
<1>1. /\ pending[x] \in Seq({"DATA", "EOS"})
      /\ Append(pending[x], "DATA") \in Seq({"DATA", "EOS"})
      /\ Cardinality(DataIn(Append(pending[x], "DATA"))) = Cardinality(DataIn(pending[x])) + 1
      /\ Cardinality(DataIn(pending[x])) \in Nat
  BY AppendData, DataInFinite DEF TypeInv, Typed
<1>2. Typed'
  BY <1>1 DEF TypeInv, Typed, QueueData, Set, fixed, tsn_vars, read_vars
<1>3. \A s \in Peers : SenderOk(s)'
  <2> SUFFICES ASSUME NEW s \in Peers PROVE SenderOk(s)'
    OBVIOUS
  <2>1. SenderOk(s)
    BY DEF TypeInv, Linked
  <2>2. UNCHANGED <<racing, my_next_tsn, abandoned, reconfigs, asked>>
    BY DEF QueueData, fixed
  <2>3. CASE s = x
    <3>1. /\ pending'[x] = Append(pending[x], "DATA") /\ raced'[x] = asked[x]
      BY DEF QueueData, Set, TypeInv, Typed
    <3>2. /\ my_next_tsn[x] \in Nat /\ MaxMsgs \in Nat
      BY StreamsAssumption DEF TypeInv, Typed
    <3> QED BY <1>1, <2>1, <2>2, <2>3, <3>1, <3>2 DEF SenderOk, Sent, Known
  <2>4. CASE s # x
    <3>1. pending'[s] = pending[s] /\ raced'[s] = raced[s] /\ writer'[s] = writer[s]
      BY <2>4 DEF QueueData, Set, TypeInv, Typed
    <3> QED BY <2>1, <2>2, <3>1 DEF SenderOk, Sent, Known
  <2> QED BY <2>3, <2>4
<1>4. \A s \in Peers : ReceiverOk(s, Other(s))'
  BY ReceiverSame DEF QueueData, tsn_vars, read_vars, TypeInv, Linked
<1> QED BY <1>2, <1>3, <1>4 DEF TypeInv, Linked, Other, Peers

\* The chunks of the pending queue are at least its DATA chunks.
LEMMA RoomToWrite ==
    ASSUME TypeInv, NEW x \in Peers, MayWrite(x)
    PROVE  my_next_tsn[x] + Cardinality(DataIn(pending[x])) <= MaxMsgs
<1>1. pending[x] \in Seq({"DATA", "EOS"}) /\ my_next_tsn[x] \in Nat /\ MaxMsgs \in Nat
  BY StreamsAssumption DEF TypeInv, Typed
<1>2. Cardinality(DataIn(pending[x])) \in Nat /\ Cardinality(DataIn(pending[x])) <= Len(pending[x])
  <2>1. /\ DataIn(pending[x]) \in SUBSET (1 .. Len(pending[x]))
        /\ Cardinality(DataIn(pending[x])) \in Nat
    BY <1>1, DataInFinite
  <2>2. /\ IsFiniteSet(1 .. Len(pending[x]))
        /\ Cardinality(1 .. Len(pending[x])) = Len(pending[x])
    BY <1>1, FS_Interval
  <2> QED BY <2>1, <2>2, FS_Subset
<1> QED BY <1>1, <1>2 DEF MayWrite

LEMMA WriteType ==
    ASSUME TypeInv, NEW x \in Peers, Write(x) \/ CheckWrite(x) \/ Push(x) PROVE TypeInv'
<1>1. CASE Write(x)
  <2>1. writer[x] = "idle"
    BY <1>1 DEF Write, TypeInv, Typed, Linked, SenderOk
  <2>2. writer' \in [Peers -> {"idle", "checked"}] /\ writer' = writer
    BY <1>1 DEF Write, TypeInv, Typed
  <2>3. my_next_tsn[x] + Cardinality(DataIn(pending[x])) <= MaxMsgs /\ QueueData(x)
    BY <1>1, RoomToWrite DEF Write
  <2> QED BY <2>1, <2>2, <2>3, QueueType
<1>2. CASE CheckWrite(x)
  <2>1. /\ UNCHANGED <<fixed, entry, read_shutdown, write_shutdown, asked, raced, snd_vars,
                       tsn_vars, read_vars, net, losses>>
        /\ writer' = Set(writer, x, "checked") /\ racing
        /\ my_next_tsn[x] + Cardinality(DataIn(pending[x])) <= MaxMsgs
    BY <1>2, RoomToWrite DEF CheckWrite
  <2>2. Typed'
    BY <2>1 DEF TypeInv, Typed, Set, fixed, snd_vars, tsn_vars, read_vars
  <2>3. \A s \in Peers : SenderOk(s)'
    <3> SUFFICES ASSUME NEW s \in Peers PROVE SenderOk(s)'
      OBVIOUS
    <3>1. SenderOk(s)
      BY DEF TypeInv, Linked
    <3>2. my_next_tsn[s] \in Nat /\ Cardinality(DataIn(pending[s])) \in Nat /\ MaxMsgs \in Nat
      BY DataInFinite, StreamsAssumption DEF TypeInv, Typed
    <3>3. s # x => writer'[s] = writer[s]
      BY <2>1 DEF Set, TypeInv, Typed
    <3>4. s = x => writer'[s] = "checked"
      BY <2>1 DEF Set, TypeInv, Typed
    <3> QED BY <2>1, <3>1, <3>2, <3>3, <3>4 DEF SenderOk, Sent, Known, snd_vars, fixed
  <2>4. \A s \in Peers : ReceiverOk(s, Other(s))'
    BY <2>1, ReceiverSame DEF TypeInv, Linked, snd_vars, tsn_vars, read_vars
  <2> QED BY <2>2, <2>3, <2>4 DEF TypeInv, Linked, Other, Peers
<1>3. CASE Push(x)
  <2>1. /\ QueueData(x) /\ writer[x] = "checked" /\ writer' = Set(writer, x, "idle")
    BY <1>3 DEF Push
  <2>2. my_next_tsn[x] + Cardinality(DataIn(pending[x])) <= MaxMsgs
    <3>1. my_next_tsn[x] \in Nat /\ Cardinality(DataIn(pending[x])) \in Nat /\ MaxMsgs \in Nat
      BY DataInFinite, StreamsAssumption DEF TypeInv, Typed
    <3> QED BY <2>1, <3>1 DEF TypeInv, Linked, SenderOk
  <2>3. /\ writer' \in [Peers -> {"idle", "checked"}] /\ writer'[x] = "idle"
        /\ \A y \in Peers : y # x => writer'[y] = writer[y]
    BY <2>1 DEF Set, TypeInv, Typed
  <2> QED BY <2>1, <2>2, <2>3, QueueType
<1> QED BY <1>1, <1>2, <1>3

LEMMA ShutdownType ==
    ASSUME TypeInv, NEW x \in Peers, NEW how \in Halves, Shutdown(x, how) PROVE TypeInv'
<1> DEFINE w == write_shutdown[x] \/ how \in {"Write", "Both"}
           r == read_shutdown[x] \/ how \in {"Read", "Both"}
<1>1. /\ UNCHANGED <<fixed, entry, writer, raced, my_next_tsn, abandoned, reconfigs,
                     will_retransmit_reconfig, treconfig, tsn_vars, reassembly, next_ssn,
                     net, losses>>
      /\ write_shutdown' \in [Peers -> BOOLEAN] /\ read_shutdown' \in [Peers -> BOOLEAN]
      /\ reader' \in [Peers -> ReaderStates] /\ permit' = permit
      /\ \/ UNCHANGED <<asked, pending, awake>>
         \/ SendResetRequest(x)
  <2>1. w \in BOOLEAN /\ r \in BOOLEAN
    BY DEF TypeInv, Typed
  <2>2. NotifyWaiters(x) => reader' \in [Peers -> ReaderStates] /\ permit' = permit
    BY DEF NotifyWaiters, Set, TypeInv, Typed, ReaderStates
  <2>3. CASE read_shutdown[x] /\ write_shutdown[x]
    BY <2>3 DEF Shutdown, TypeInv, Typed
  <2>4. CASE ~(read_shutdown[x] /\ write_shutdown[x])
    <3>1. /\ write_shutdown' = Set(write_shutdown, x, w)
          /\ read_shutdown' = Set(read_shutdown, x, r)
          /\ IF r /\ ~read_shutdown[x] THEN NotifyWaiters(x) ELSE UNCHANGED <<reader, permit>>
          /\ IF w /\ r THEN SendResetRequest(x) ELSE UNCHANGED <<asked, pending, awake>>
          /\ UNCHANGED <<fixed, entry, writer, raced, my_next_tsn, abandoned, reconfigs,
                     will_retransmit_reconfig, treconfig, tsn_vars, reassembly, next_ssn,
                     net, losses>>
      BY <2>4 DEF Shutdown
    <3> HIDE DEF w, r
    <3>2. write_shutdown' \in [Peers -> BOOLEAN] /\ read_shutdown' \in [Peers -> BOOLEAN]
      BY <2>1, <3>1 DEF Set, TypeInv, Typed
    <3>3. reader' \in [Peers -> ReaderStates] /\ permit' = permit
      BY <2>2, <3>1 DEF TypeInv, Typed
    <3> QED BY <3>1, <3>2, <3>3
  <2> QED BY <2>3, <2>4
<1>2. /\ asked' \in [Peers -> BOOLEAN] /\ awake' \in [Peers -> BOOLEAN]
      /\ pending' \in [Peers -> Seq({"DATA", "EOS"})]
      /\ \A s \in Peers : /\ asked[s] => asked'[s]
                          /\ Cardinality(DataIn(pending'[s])) = Cardinality(DataIn(pending[s]))
  <2>1. CASE UNCHANGED <<asked, pending, awake>>
    BY <2>1 DEF TypeInv, Typed
  <2>2. CASE SendResetRequest(x)
    <3>1. /\ Append(pending[x], "EOS") \in Seq({"DATA", "EOS"})
          /\ Cardinality(DataIn(Append(pending[x], "EOS"))) = Cardinality(DataIn(pending[x]))
      BY AppendData DEF TypeInv, Typed
    <3> DEFINE q == Append(pending[x], "EOS")
    <3>2. /\ asked' = Set(asked, x, TRUE) /\ pending' = Set(pending, x, q)
          /\ awake' = Set(awake, x, TRUE)
      BY <2>2 DEF SendResetRequest
    <3> HIDE DEF q
    <3> QED BY <3>1, <3>2 DEF TypeInv, Typed, Set, q
  <2> QED BY <1>1, <2>1, <2>2
<1>3. Typed'
  BY <1>1, <1>2 DEF TypeInv, Typed, fixed, tsn_vars
<1>4. \A s \in Peers : SenderOk(s)'
  BY <1>1, <1>2 DEF TypeInv, Linked, SenderOk, Sent, Known, fixed
<1>5. \A s \in Peers : ReceiverOk(s, Other(s))'
  BY <1>1, ReceiverSame DEF TypeInv, Linked, tsn_vars
<1> QED BY <1>3, <1>4, <1>5 DEF TypeInv, Linked, Other, Peers

-----------------------------------------------------------------------------
(* Types: the write loop, the timer and the network.                       *)

LEMMA PacketsDiffer ==
    \A t, u : Request(t) # Response(u) /\ (Request(t) = Request(u) => t = u)
              /\ (Response(t) = Response(u) => t = u)
  BY DEF Request, Response

\* What a pass of the write loop does when it pops k chunks with n of DATA among
\* them and makes a request or none.
Gathered(x, k, n, made) ==
    /\ n <= k
    /\ n + Cardinality(DataIn(pending'[x])) = Cardinality(DataIn(pending[x]))
    /\ n = k <=> made = {}
    /\ made # {} => made = {my_next_tsn[x] + n - 1}
    /\ made # {} => \E i \in 1 .. k : pending[x][i] # "DATA"
    /\ made = {} => \A i \in 1 .. k : pending[x][i] = "DATA"
    /\ n > 0 => \E i \in 1 .. k : pending[x][i] = "DATA"
    /\ pending' \in [Peers -> Seq({"DATA", "EOS"})]
    /\ \A y \in Peers : y # x => pending'[y] = pending[y]
    /\ Len(pending'[x]) = Len(pending[x]) - k
    /\ \A i \in 1 .. Len(pending'[x]) : pending'[x][i] = pending[x][i + k]
    /\ my_next_tsn' = Set(my_next_tsn, x, my_next_tsn[x] + n)
    /\ reconfigs' = Set(reconfigs, x, reconfigs[x] \cup made)
    /\ treconfig' \in [Peers -> BOOLEAN]
    /\ treconfig[x] \/ made # {} => treconfig'[x]
    /\ \A y \in Peers : y # x => treconfig'[y] = treconfig[y]
    /\ \E again \in SUBSET reconfigs[x] :
          net' = Set(net, Other(x), net[Other(x)] \cup {Request(t) : t \in made \cup again})
    /\ awake' = Set(awake, x, k < Len(pending[x]))

LEMMA GatherFacts ==
    ASSUME TypeInv, NEW x \in Peers, Gather(x)
    PROVE  \E k \in 0 .. Len(pending[x]), n \in Nat, made \in SUBSET Nat : Gathered(x, k, n, made)
<1>1. PICK k \in 0 .. Len(pending[x]) :
         LET popped == SubSeq(pending[x], 1, k)
             n      == Cardinality({i \in 1 .. k : popped[i] = "DATA"})
             made   == IF n < k THEN {SenderLastTsn(x, n)} ELSE {}
             again  == IF will_retransmit_reconfig[x] THEN reconfigs[x] ELSE {}
         IN  /\ pending' = Set(pending, x, SubSeq(pending[x], k + 1, Len(pending[x])))
             /\ my_next_tsn' = Set(my_next_tsn, x, my_next_tsn[x] + n)
             /\ reconfigs' = Set(reconfigs, x, reconfigs[x] \cup made)
             /\ treconfig' = Set(treconfig, x,
                   treconfig[x] \/ made # {} \/ (will_retransmit_reconfig[x] /\ reconfigs[x] # {}))
             /\ net' = Set(net, Other(x), net[Other(x)] \cup {Request(t) : t \in made \cup again})
             /\ awake' = Set(awake, x, k < Len(pending[x]))
  BY DEF Gather
<1> DEFINE q == pending[x]
           n == Cardinality({i \in 1 .. k : SubSeq(q, 1, k)[i] = "DATA"})
           rest == SubSeq(q, k + 1, Len(q))
           made == IF n < k THEN {SenderLastTsn(x, n)} ELSE {}
           again == IF will_retransmit_reconfig[x] THEN reconfigs[x] ELSE {}
           timer == treconfig[x] \/ made # {} \/ (will_retransmit_reconfig[x] /\ reconfigs[x] # {})
<1>2. q \in Seq({"DATA", "EOS"})
  BY DEF TypeInv, Typed
<1>3. /\ rest \in Seq({"DATA", "EOS"}) /\ n \in 0 .. k
      /\ n + Cardinality(DataIn(rest)) = Cardinality(DataIn(q))
      /\ n < k => \E i \in 1 .. k : q[i] # "DATA"
      /\ n = k => \A i \in 1 .. k : q[i] = "DATA"
      /\ n > 0 => \E i \in 1 .. k : q[i] = "DATA"
      /\ Len(rest) = Len(q) - k
      /\ \A i \in 1 .. Len(rest) : rest[i] = q[i + k]
  BY <1>2, PopData
<1>4. /\ pending' = Set(pending, x, rest)
      /\ my_next_tsn' = Set(my_next_tsn, x, my_next_tsn[x] + n)
      /\ reconfigs' = Set(reconfigs, x, reconfigs[x] \cup made)
      /\ treconfig' = Set(treconfig, x, timer)
      /\ net' = Set(net, Other(x), net[Other(x)] \cup {Request(t) : t \in made \cup again})
      /\ awake' = Set(awake, x, k < Len(q))
  BY <1>1
<1> HIDE DEF n, rest
<1>5. /\ made \in SUBSET Nat
      /\ n = k <=> made = {}
      /\ made # {} => made = {my_next_tsn[x] + n - 1} /\ n < k
  BY <1>3 DEF SenderLastTsn, TypeInv, Typed
<1> HIDE DEF made
<1>6. again \in SUBSET reconfigs[x] /\ timer \in BOOLEAN /\ (treconfig[x] \/ made # {} => timer)
  BY DEF TypeInv, Typed
<1> HIDE DEF again, timer
<1>7. /\ pending' \in [Peers -> Seq({"DATA", "EOS"})] /\ pending'[x] = rest
      /\ \A y \in Peers : y # x => pending'[y] = pending[y]
  <2>1. pending \in [Peers -> Seq({"DATA", "EOS"})]
    BY DEF TypeInv, Typed
  <2> QED BY <1>3, <1>4, <2>1 DEF Set
<1>8. /\ treconfig' \in [Peers -> BOOLEAN]
      /\ treconfig[x] \/ made # {} => treconfig'[x]
      /\ \A y \in Peers : y # x => treconfig'[y] = treconfig[y]
  <2>1. treconfig \in [Peers -> BOOLEAN]
    BY DEF TypeInv, Typed
  <2> QED BY <1>4, <1>6, <2>1 DEF Set
<1>9. Gathered(x, k, n, made)
  <2>1. \E again2 \in SUBSET reconfigs[x] :
          net' = Set(net, Other(x), net[Other(x)] \cup {Request(t) : t \in made \cup again2})
    BY <1>4, <1>6
  <2>2. /\ n <= k
        /\ n + Cardinality(DataIn(pending'[x])) = Cardinality(DataIn(pending[x]))
        /\ Len(pending'[x]) = Len(pending[x]) - k
        /\ \A i \in 1 .. Len(pending'[x]) : pending'[x][i] = pending[x][i + k]
        /\ n > 0 => \E i \in 1 .. k : pending[x][i] = "DATA"
        /\ made # {} => \E i \in 1 .. k : pending[x][i] # "DATA"
        /\ made = {} => \A i \in 1 .. k : pending[x][i] = "DATA"
    BY <1>3, <1>5, <1>7
  <2> HIDE DEF q
  <2>3. /\ my_next_tsn' = Set(my_next_tsn, x, my_next_tsn[x] + n)
        /\ reconfigs' = Set(reconfigs, x, reconfigs[x] \cup made)
        /\ awake' = Set(awake, x, k < Len(pending[x]))
    BY <1>4 DEF q
  <2> QED BY <1>5, <1>7, <1>8, <2>1, <2>2, <2>3 DEF Gathered
<1> HIDE DEF q
<1> QED BY <1>3, <1>5, <1>9

LEMMA GatherType == ASSUME TypeInv, NEW x \in Peers, Gather(x) PROVE TypeInv'
<1>1. PICK k \in 0 .. Len(pending[x]), n \in Nat, made \in SUBSET Nat : Gathered(x, k, n, made)
  BY GatherFacts
<1>2. PICK again \in SUBSET reconfigs[x] :
         net' = Set(net, Other(x), net[Other(x)] \cup {Request(t) : t \in made \cup again})
  BY <1>1 DEF Gathered
<1> DEFINE new == {Request(t) : t \in made \cup again}
           y == Other(x)
<1>3. /\ UNCHANGED <<fixed, entry, app_vars, abandoned, tsn_vars, read_vars, losses>>
      /\ will_retransmit_reconfig' = Set(will_retransmit_reconfig, x, FALSE)
  BY DEF Gather
<1>4. /\ my_next_tsn'[x] = my_next_tsn[x] + n /\ my_next_tsn' \in [Peers -> Nat \ {0}]
      /\ my_next_tsn'[y] = my_next_tsn[y]
      /\ reconfigs'[x] = reconfigs[x] \cup made /\ reconfigs'[y] = reconfigs[y]
      /\ reconfigs' \in [Peers -> SUBSET Nat]
  <2>1. my_next_tsn \in [Peers -> Nat \ {0}] /\ reconfigs \in [Peers -> SUBSET Nat]
    BY DEF TypeInv, Typed
  <2>2. /\ my_next_tsn' = Set(my_next_tsn, x, my_next_tsn[x] + n)
        /\ reconfigs' = Set(reconfigs, x, reconfigs[x] \cup made)
    BY <1>1 DEF Gathered
  <2>3. Other(x) \in Peers /\ Other(x) # x
    BY OtherPeer
  <2>4. /\ my_next_tsn'[x] = my_next_tsn[x] + n /\ my_next_tsn' \in [Peers -> Nat \ {0}]
        /\ my_next_tsn'[Other(x)] = my_next_tsn[Other(x)]
    BY <2>1, <2>2, <2>3 DEF Set
  <2>5. /\ reconfigs'[x] = reconfigs[x] \cup made /\ reconfigs' \in [Peers -> SUBSET Nat]
        /\ reconfigs'[Other(x)] = reconfigs[Other(x)]
    BY <2>1, <2>2, <2>3 DEF Set
  <2> QED BY <2>4, <2>5
<1>5. made \subseteq 0 .. (my_next_tsn[x] + n - 1) /\ again \subseteq Known(x)
  <2>1. my_next_tsn[x] \in Nat \ {0}
    BY DEF TypeInv, Typed
  <2>2. made # {} => my_next_tsn[x] + n - 1 \in 0 .. (my_next_tsn[x] + n - 1)
    BY <2>1
  <2>3. made = {} \/ made = {my_next_tsn[x] + n - 1}
    BY <1>1 DEF Gathered
  <2> QED BY <2>2, <2>3 DEF TypeInv, Linked, SenderOk
<1>6. Typed'
  <2>1. new \in SUBSET Control
    <3>1. \A t \in Nat : Request(t) \in Control
      BY DEF Request, Control
    <3>2. made \cup again \in SUBSET Nat
      BY <1>5 DEF Known
    <3> QED BY <3>1, <3>2
  <2> HIDE DEF new
  <2>2. net' \in [Peers -> SUBSET Control]
    BY <1>2, <2>1, OtherPeer DEF TypeInv, Typed, Set, new
  <2>3. awake' \in [Peers -> BOOLEAN] /\ will_retransmit_reconfig' \in [Peers -> BOOLEAN]
    BY <1>1, <1>3 DEF TypeInv, Typed, Set, Gathered
  <2>4. pending' \in [Peers -> Seq({"DATA", "EOS"})] /\ treconfig' \in [Peers -> BOOLEAN]
    BY <1>1 DEF Gathered
  <2> QED BY <1>3, <1>4, <2>2, <2>3, <2>4 DEF TypeInv, Typed, fixed, app_vars, tsn_vars, read_vars
<1>7. \A s \in Peers : SenderOk(s)'
  <2> SUFFICES ASSUME NEW s \in Peers PROVE SenderOk(s)'
    OBVIOUS
  <2>1. SenderOk(s) /\ my_next_tsn[s] \in Nat \ {0} /\ Cardinality(DataIn(pending[s])) \in Nat
    BY DataInFinite DEF TypeInv, Linked, Typed
  <2>2. UNCHANGED <<writer, abandoned, raced, asked, racing>>
    BY <1>3 DEF app_vars, fixed
  <2>3. CASE s = x
    <3>1. n + Cardinality(DataIn(pending'[x])) = Cardinality(DataIn(pending[x]))
      BY <1>1 DEF Gathered
    <3>2. Cardinality(DataIn(pending'[x])) \in Nat /\ MaxMsgs \in Nat
      BY <1>6, DataInFinite, StreamsAssumption DEF Typed
    <3>3. reconfigs'[x] \subseteq 0 .. (my_next_tsn[x] + n - 1)
      BY <1>4, <1>5, <2>1, <2>3 DEF SenderOk, Known
    <3> QED BY <1>4, <2>1, <2>2, <2>3, <3>1, <3>2, <3>3, SMTT(30) DEF SenderOk, Sent, Known
  <2>4. CASE s # x
    <3>1. s = y /\ pending'[s] = pending[s]
      BY <1>1, <2>4, OtherPeer DEF Gathered
    <3> QED BY <1>4, <2>1, <2>2, <3>1 DEF SenderOk, Sent, Known
  <2> QED BY <2>3, <2>4
<1>8. \A s \in Peers : ReceiverOk(s, Other(s))'
  <2> SUFFICES ASSUME NEW s \in Peers PROVE ReceiverOk(s, Other(s))'
    OBVIOUS
  <2> DEFINE r == Other(s)
  <2>1. ReceiverOk(s, r) /\ r \in Peers /\ my_next_tsn[s] \in Nat \ {0}
    BY OtherPeer DEF TypeInv, Linked, Typed
  <2>2. my_next_tsn'[s] >= my_next_tsn[s] /\ my_next_tsn'[s] \in Nat \ {0}
    BY <1>4, <2>1, OtherPeer
  <2>3. UNCHANGED <<tsn_vars, reassembly, next_ssn>>
    BY <1>3 DEF read_vars
  <2>4. \A t \in Nat : Request(t) \in net'[r] => t \in 0 .. (my_next_tsn'[s] - 1)
    <3> SUFFICES ASSUME NEW t \in Nat, Request(t) \in net'[r]
                 PROVE  t \in 0 .. (my_next_tsn'[s] - 1)
      OBVIOUS
    <3>1. Request(t) \in net[r] => t \in 0 .. (my_next_tsn'[s] - 1)
      BY <2>1, <2>2 DEF ReceiverOk, Known
    <3>2. CASE s = x
      <4>1. net'[r] = net[r] \cup new
        BY <1>2, <3>2, OtherPeer DEF Set, TypeInv, Typed
      <4>2. Request(t) \in new => t \in made \cup again
        BY PacketsDiffer
      <4>3. made \cup again \subseteq 0 .. (my_next_tsn'[s] - 1)
        BY <1>4, <1>5, <3>2, <2>1 DEF Known
      <4> QED BY <3>1, <4>1, <4>2, <4>3
    <3>3. CASE s # x
      <4>1. r = x /\ net'[r] = net[r]
        BY <1>2, <3>3, OtherPeer DEF Set, TypeInv, Typed
      <4> QED BY <3>1, <4>1
    <3> QED BY <3>2, <3>3
  <2>5. \A t \in Nat : Response(t) \in net'[s] => t \in 0 .. (my_next_tsn'[s] - 1)
    <3> SUFFICES ASSUME NEW t \in Nat, Response(t) \in net'[s]
                 PROVE  t \in 0 .. (my_next_tsn'[s] - 1)
      OBVIOUS
    <3>1. Response(t) \in net[s]
      <4>1. Response(t) \notin new
        BY PacketsDiffer
      <4>2. net'[s] = net[s] \/ net'[s] = net[s] \cup new
        BY <1>2, OtherPeer DEF Set, TypeInv, Typed
      <4> QED BY <4>1, <4>2
    <3> QED BY <2>1, <2>2, <3>1 DEF ReceiverOk, Known
  <2> HIDE DEF r, new
  <2>6. next_ssn[r] \in Nat /\ reassembly[r] \subseteq Sent(s)
    BY <2>1 DEF ReceiverOk, TypeInv, Typed
  <2>7. ReceiverOk(s, r)'
    BY <2>1, <2>2, <2>3, <2>4, <2>5, <2>6 DEF ReceiverOk, Known, Sent, tsn_vars
  <2> QED BY <2>7, OtherPeer DEF r, Other, Peers
<1> QED BY <1>6, <1>7, <1>8 DEF TypeInv, Linked, Other, Peers

LEMMA LocalType ==
    ASSUME TypeInv, NEW x \in Peers,
           ReconfigTimeout(x) \/ (\E t \in Messages : Abandon(x, t)) \/ Lose(x)
    PROVE  TypeInv'
<1>1. CASE ReconfigTimeout(x)
  <2>1. Typed'
    BY <1>1 DEF TypeInv, Typed, ReconfigTimeout, fixed, app_vars, tsn_vars, read_vars, Set
  <2>2. UNCHANGED link_vars
    BY <1>1 DEF ReconfigTimeout, link_vars, fixed, app_vars, tsn_vars, read_vars
  <2> QED BY <2>1, <2>2, LinkedSame DEF TypeInv
<1>2. ASSUME NEW t \in Messages, Abandon(x, t) PROVE TypeInv'
  <2>1. t \in Nat /\ t \in Sent(x)
    BY <1>2 DEF Messages, Abandon
  <2>2. Typed'
    BY <1>2, <2>1 DEF TypeInv, Typed, Abandon, fixed, app_vars, tsn_vars, read_vars, Set
  <2>3. \A s \in Peers : abandoned'[s] \subseteq Sent(s)
    BY <1>2, <2>1 DEF TypeInv, Typed, Linked, SenderOk, Abandon, Set
  <2>4. \A s \in Peers : SenderOk(s)'
    BY <1>2, <2>3 DEF TypeInv, Linked, SenderOk, Abandon, app_vars, fixed, Known, Sent
  <2>5. \A s \in Peers : ReceiverOk(s, Other(s))'
    BY <1>2, ReceiverSame DEF TypeInv, Linked, Abandon, tsn_vars, read_vars
  <2> QED BY <2>2, <2>4, <2>5 DEF TypeInv, Linked, Other, Peers
<1>3. CASE Lose(x)
  <2>1. PICK p \in net[x] : net' = Set(net, x, net[x] \ {p})
    BY <1>3 DEF Lose
  <2>2. losses' \in 0 .. MaxLoss
    BY <1>3, StreamsAssumption DEF Lose, TypeInv, Typed
  <2>3. net' \in [Peers -> SUBSET Control] /\ \A z \in Peers : net'[z] \subseteq net[z]
    BY <2>1 DEF TypeInv, Typed, Set
  <2>4. Typed'
    BY <1>3, <2>2, <2>3 DEF TypeInv, Typed, Lose, fixed, app_vars, snd_vars, tsn_vars, read_vars
  <2>5. \A s \in Peers : SenderOk(s)'
    BY <1>3 DEF TypeInv, Linked, SenderOk, Lose, app_vars, fixed, snd_vars, Known, Sent
  <2>6. \A s \in Peers : ReceiverOk(s, Other(s))'
    BY <1>3, <2>3, OtherPeer DEF TypeInv, Linked, ReceiverOk, Lose, snd_vars, tsn_vars, read_vars, Known, Sent
  <2> QED BY <2>4, <2>5, <2>6 DEF TypeInv, Linked, Other, Peers
<1> QED BY <1>1, <1>2, <1>3

-----------------------------------------------------------------------------
(* Types: the handlers.                                                    *)

\* What all three have in common: only the receiver's variables change, and the
\* packets on their way gain nothing but responses.
LEMMA HandlerType ==
    ASSUME TypeInv, NEW x \in Peers,
           Typed', UNCHANGED <<racing, writer, asked, raced, pending, my_next_tsn, abandoned>>,
           \A z \in Peers : reconfigs'[z] \subseteq reconfigs[z],
           \A z \in Peers : z # x =>
              /\ peer_last_tsn'[z] = peer_last_tsn[z] /\ payload_queue'[z] = payload_queue[z]
              /\ reconfig_requests'[z] = reconfig_requests[z]
              /\ reassembly'[z] = reassembly[z] /\ next_ssn'[z] = next_ssn[z],
           peer_last_tsn'[x] \in Known(Other(x)),
           \A t \in payload_queue'[x] : t > peer_last_tsn'[x] /\ t \in Known(Other(x)),
           reconfig_requests'[x] \subseteq Known(Other(x)),
           reassembly'[x] \subseteq Sent(Other(x)),
           next_ssn'[x] <= my_next_tsn[Other(x)],
           NEW new \in SUBSET Known(Other(x)),
           net'[x] \subseteq net[x],
           net'[Other(x)] \subseteq net[Other(x)] \cup {Response(t) : t \in new}
    PROVE  TypeInv'
<1>1. \A s \in Peers : SenderOk(s)'
  BY DEF TypeInv, Linked, SenderOk, Sent, Known
<1>2. \A s \in Peers : ReceiverOk(s, Other(s))'
  <2> SUFFICES ASSUME NEW s \in Peers PROVE ReceiverOk(s, Other(s))'
    OBVIOUS
  <2> DEFINE r == Other(s)
  <2>1. ReceiverOk(s, r) /\ r \in Peers /\ Known(s)' = Known(s) /\ Sent(s)' = Sent(s)
    BY OtherPeer DEF TypeInv, Linked, Known, Sent
  <2>2. \A t \in Nat : Request(t) \in net'[r] => t \in Known(s)
    <3> SUFFICES ASSUME NEW t \in Nat, Request(t) \in net'[r] PROVE t \in Known(s)
      OBVIOUS
    <3>1. Request(t) \in net[r]
      BY OtherPeer, PacketsDiffer
    <3> QED BY <2>1, <3>1 DEF ReceiverOk
  <2>3. \A t \in Nat : Response(t) \in net'[s] => t \in Known(s)
    <3> SUFFICES ASSUME NEW t \in Nat, Response(t) \in net'[s] PROVE t \in Known(s)
      OBVIOUS
    <3>1. CASE s = x
      <4>1. Response(t) \in net[s]
        BY <3>1
      <4> QED BY <2>1, <4>1 DEF ReceiverOk
    <3>2. CASE s # x
      <4>1. s = Other(x)
        BY <3>2, OtherPeer
      <4>2. Response(t) \in net[s] \/ t \in new
        BY <4>1, PacketsDiffer
      <4> QED BY <2>1, <4>1, <4>2 DEF ReceiverOk
    <3> QED BY <3>1, <3>2
  <2>4. CASE s = x
    <3>1. r # x
      BY <2>4, OtherPeer
    <3> QED BY <2>1, <2>2, <2>3, <3>1, OtherPeer DEF ReceiverOk, Other, Peers
  <2>5. CASE s # x
    <3>1. r = x /\ s = Other(x)
      BY <2>5, OtherPeer
    <3>2. /\ peer_last_tsn'[r] \in Known(s)
          /\ \A t \in payload_queue'[r] : t > peer_last_tsn'[r] /\ t \in Known(s)
          /\ reconfig_requests'[r] \subseteq Known(s)
          /\ reassembly'[r] \subseteq Sent(s)
          /\ next_ssn'[r] <= my_next_tsn'[s]
      BY <3>1
    <3> HIDE DEF r
    <3>3. ReceiverOk(s, r)'
      BY <2>1, <2>2, <2>3, <3>2 DEF ReceiverOk
    <3> QED BY <3>3 DEF r, Other, Peers
  <2> QED BY <2>4, <2>5
<1> QED BY <1>1, <1>2 DEF TypeInv, Linked, Other, Peers

LEMMA UnregisterType ==
    ASSUME TypeInv, NEW x \in Peers, Unregister(x)
    PROVE  /\ entry' \in [Peers -> {"open", "none", "accepted"}]
           /\ read_shutdown' \in [Peers -> BOOLEAN] /\ write_shutdown' \in [Peers -> BOOLEAN]
  BY DEF Unregister, Set, TypeInv, Typed

LEMMA NotifyType ==
    ASSUME TypeInv, NEW x \in Peers,
           NotifyOne(x) \/ NotifyWaiters(x) \/ UNCHANGED <<reader, permit>>
    PROVE  reader' \in [Peers -> ReaderStates] /\ permit' \in [Peers -> BOOLEAN]
  BY DEF NotifyOne, NotifyWaiters, Set, TypeInv, Typed, ReaderStates

LEMMA RequestType ==
    ASSUME TypeInv, NEW x \in Peers, NEW t \in Nat, Request(t) \in net[x], HandleRequest(x, t),
           UNCHANGED <<fixed, writer, asked, raced, losses>>
    PROVE  TypeInv'
<1> DEFINE y == Other(x)
           now == Performed({t}, peer_last_tsn[x])
           kept == Stored(x, t) \ now
<1>1. t \in Known(y) /\ y \in Peers /\ y # x
  BY OtherPeer DEF TypeInv, Linked, ReceiverOk
<1>2. kept \subseteq Known(y) /\ kept \in SUBSET Nat
  BY <1>1, OtherPeer DEF Stored, TypeInv, Linked, ReceiverOk, Known
<1>3. /\ reconfig_requests' = Set(reconfig_requests, x, kept)
      /\ net' = [net EXCEPT ![x] = @ \ {Request(t)}, ![y] = @ \cup {Response(t)}]
      /\ UNCHANGED <<peer_last_tsn, payload_queue, reassembly, next_ssn, snd_vars>>
      /\ Unregister(x) \/ UNCHANGED <<entry, read_shutdown, write_shutdown>>
      /\ NotifyOne(x) \/ NotifyWaiters(x) \/ UNCHANGED <<reader, permit>>
  BY DEF HandleRequest
<1> HIDE DEF kept
<1>4. /\ net' \in [Peers -> SUBSET Control]
      /\ net'[x] \subseteq net[x]
      /\ net'[y] \subseteq net[y] \cup {Response(u) : u \in {t}}
  <2>1. Response(t) \in Control
    BY DEF Response, Control
  <2> QED BY <1>1, <1>3, <2>1 DEF TypeInv, Typed
<1>5. /\ reconfig_requests' \in [Peers -> SUBSET Nat] /\ reconfig_requests'[x] = kept
      /\ \A z \in Peers : z # x => reconfig_requests'[z] = reconfig_requests[z]
  BY <1>2, <1>3 DEF Set, TypeInv, Typed
<1>6. /\ entry' \in [Peers -> {"open", "none", "accepted"}]
      /\ read_shutdown' \in [Peers -> BOOLEAN] /\ write_shutdown' \in [Peers -> BOOLEAN]
      /\ reader' \in [Peers -> ReaderStates] /\ permit' \in [Peers -> BOOLEAN]
  BY <1>3, UnregisterType, NotifyType DEF TypeInv, Typed
<1>7. Typed'
  BY <1>3, <1>4, <1>5, <1>6 DEF TypeInv, Typed, fixed, snd_vars
<1>8. /\ peer_last_tsn[x] \in Known(y)
      /\ \A u \in payload_queue[x] : u > peer_last_tsn[x] /\ u \in Known(y)
      /\ reassembly[x] \subseteq Sent(y) /\ next_ssn[x] <= my_next_tsn[y]
  BY <1>1, OtherPeer DEF TypeInv, Linked, ReceiverOk
<1>9. {t} \in SUBSET Known(y)
  BY <1>1
<1>10. /\ UNCHANGED <<racing, writer, asked, raced, pending, my_next_tsn, abandoned, reconfigs>>
       /\ UNCHANGED <<peer_last_tsn, payload_queue, reassembly, next_ssn>>
  BY <1>3 DEF fixed, snd_vars
<1> QED BY <1>2, <1>4, <1>5, <1>7, <1>8, <1>9, <1>10, HandlerType

LEMMA ResponseType ==
    ASSUME TypeInv, NEW x \in Peers, NEW t \in Nat, HandleResponse(x, t),
           UNCHANGED <<fixed, writer, asked, raced, losses>>
    PROVE  TypeInv'
<1>1. /\ net' = Set(net, x, net[x] \ {Response(t)})
      /\ reconfigs' = Set(reconfigs, x, reconfigs[x] \ {t})
      /\ treconfig' = Set(treconfig, x, treconfig[x] /\ reconfigs[x] \ {t} # {})
      /\ UNCHANGED <<entry, read_shutdown, write_shutdown, pending, my_next_tsn, abandoned,
                     will_retransmit_reconfig, awake, tsn_vars, read_vars>>
  BY DEF HandleResponse
<1>2. /\ net' \in [Peers -> SUBSET Control] /\ \A z \in Peers : net'[z] \subseteq net[z]
      /\ reconfigs' \in [Peers -> SUBSET Nat]
      /\ \A z \in Peers : reconfigs'[z] \subseteq reconfigs[z]
  BY <1>1 DEF Set, TypeInv, Typed
<1>3. treconfig' \in [Peers -> BOOLEAN]
  <2>1. (treconfig[x] /\ reconfigs[x] \ {t} # {}) \in BOOLEAN
    BY DEF TypeInv, Typed
  <2> QED BY <1>1, <2>1 DEF Set, TypeInv, Typed
<1>4. Typed'
  BY <1>1, <1>2, <1>3 DEF TypeInv, Typed, fixed, tsn_vars, read_vars
<1>5. \A s \in Peers : SenderOk(s)'
  BY <1>1, <1>2 DEF TypeInv, Linked, SenderOk, Sent, Known, fixed
<1>6. \A s \in Peers : ReceiverOk(s, Other(s))'
  BY <1>1, <1>2, OtherPeer
  DEF TypeInv, Linked, ReceiverOk, tsn_vars, read_vars, Known, Sent
<1> QED BY <1>4, <1>5, <1>6 DEF TypeInv, Linked, Other, Peers

LEMMA ReconfigType ==
    ASSUME TypeInv, NEW x \in Peers, NEW p \in Packets, RecvReconfig(x, p) PROVE TypeInv'
<1>1. PICK t \in Nat : p = Request(t) \/ p = Response(t)
  BY DEF Packets
<1>2. CASE p.type = "REQUEST"
  <2>1. p = Request(t) /\ p.last = t
    BY <1>1, <1>2 DEF Request, Response
  <2> QED BY <1>2, <2>1, RequestType DEF RecvReconfig
<1>3. CASE p.type = "RESPONSE"
  BY <1>1, <1>3, ResponseType DEF RecvReconfig, Request, Response
<1> QED BY <1>2, <1>3 DEF RecvReconfig

\* The end of the sequence moves to the end of a run of TSNs that are here; the
\* stored requests are answered if it moved, and those it passed are performed.
LEMMA AdvanceFacts ==
    ASSUME TypeInv, NEW x \in Peers, NEW p \in Known(Other(x)),
           NEW S \in SUBSET Known(Other(x)), Advance(x, p, S)
    PROVE  LET y     == Other(x)
               last  == RunEnd(p, S)
               again == IF last > p THEN reconfig_requests[x] ELSE {}
           IN  /\ last \in Known(y) /\ last >= p /\ (p + 1) .. last \subseteq S
               /\ peer_last_tsn' \in [Peers -> Nat] /\ peer_last_tsn'[x] = last
               /\ payload_queue' \in [Peers -> SUBSET Nat]
               /\ payload_queue'[x] = {t \in S : t > last}
               /\ reconfig_requests' \in [Peers -> SUBSET Nat]
               /\ reconfig_requests'[x] = {t \in reconfig_requests[x] : t \notin again \/ t > last}
               /\ net' \in [Peers -> SUBSET Control]
               /\ net'[x] = net[x] /\ net'[y] = net[y] \cup {Response(t) : t \in again}
               /\ \A z \in Peers : z # x =>
                     /\ peer_last_tsn'[z] = peer_last_tsn[z]
                     /\ payload_queue'[z] = payload_queue[z]
                     /\ reconfig_requests'[z] = reconfig_requests[z]
<1> DEFINE y     == Other(x)
           last  == RunEnd(p, S)
           again == IF last > p THEN reconfig_requests[x] ELSE {}
           answers == {Response(t) : t \in again}
<1>1. y \in Peers /\ y # x /\ my_next_tsn[y] \in Nat \ {0} /\ my_next_tsn[y] - 1 <= MaxMsgs
  <2>1. y \in Peers /\ y # x
    BY OtherPeer
  <2>2. my_next_tsn[y] \in Nat \ {0} /\ Cardinality(DataIn(pending[y])) \in Nat
    BY <2>1, DataInFinite DEF TypeInv, Typed
  <2> QED BY <2>1, <2>2, StreamsAssumption DEF TypeInv, Linked, SenderOk
<1>2. last \in p .. (my_next_tsn[y] - 1) /\ (p + 1) .. last \subseteq S
  <2>1. /\ my_next_tsn[y] - 1 \in 0 .. MaxMsgs /\ p \in 0 .. (my_next_tsn[y] - 1)
        /\ S \in SUBSET (0 .. (my_next_tsn[y] - 1))
    BY <1>1, StreamsAssumption DEF Known
  <2> QED BY <2>1, RunEndFact
<1>3. /\ last \in Known(y) /\ last \in Nat /\ last >= p /\ p \in Nat
      /\ Known(Other(x)) \in SUBSET Nat
  BY <1>1, <1>2 DEF Known
<1>4. /\ peer_last_tsn' = Set(peer_last_tsn, x, last)
      /\ payload_queue' = Set(payload_queue, x, {t \in S : t > last})
      /\ reconfig_requests' = Set(reconfig_requests, x,
             reconfig_requests[x] \ {t \in again : t <= last})
      /\ net' = Set(net, y, net[y] \cup answers)
  BY DEF Advance, Performed
<1>5. again \in SUBSET Nat
  BY DEF TypeInv, Typed
<1>6. answers \in SUBSET Control
  BY <1>5 DEF Response, Control
<1> HIDE DEF last, y
<1>7. /\ peer_last_tsn' \in [Peers -> Nat] /\ peer_last_tsn'[x] = last
      /\ \A z \in Peers : z # x => peer_last_tsn'[z] = peer_last_tsn[z]
  BY <1>3, <1>4 DEF Set, TypeInv, Typed
<1>8. /\ payload_queue' \in [Peers -> SUBSET Nat] /\ payload_queue'[x] = {t \in S : t > last}
      /\ \A z \in Peers : z # x => payload_queue'[z] = payload_queue[z]
  <2>1. {t \in S : t > last} \in SUBSET Nat
    BY <1>3
  <2> QED BY <1>4, <2>1 DEF Set, TypeInv, Typed
<1> HIDE DEF again
<1>9. /\ reconfig_requests' \in [Peers -> SUBSET Nat]
      /\ reconfig_requests'[x] = {t \in reconfig_requests[x] : t \notin again \/ t > last}
      /\ \A z \in Peers : z # x => reconfig_requests'[z] = reconfig_requests[z]
  <2>1. reconfig_requests[x] \in SUBSET Nat
    BY DEF TypeInv, Typed
  <2>2. reconfig_requests[x] \ {t \in again : t <= last}
          = {t \in reconfig_requests[x] : t \notin again \/ t > last}
    BY <1>3, <2>1
  <2>3. reconfig_requests[x] \ {t \in again : t <= last} \in SUBSET Nat
    BY <2>1
  <2> QED BY <1>4, <2>2, <2>3 DEF Set, TypeInv, Typed
<1> HIDE DEF answers
<1>10. net' \in [Peers -> SUBSET Control] /\ net'[x] = net[x] /\ net'[y] = net[y] \cup answers
  <2>1. net[y] \cup answers \in SUBSET Control
    BY <1>1, <1>6 DEF TypeInv, Typed
  <2> QED BY <1>1, <1>4, <2>1 DEF Set, TypeInv, Typed
<1> QED BY <1>2, <1>3, <1>7, <1>8, <1>9, <1>10 DEF last, y, again, answers

LEMMA DataType ==
    ASSUME TypeInv, NEW x \in Peers, NEW t \in Messages, HandleData(x, t) PROVE TypeInv'
<1> DEFINE y     == Other(x)
           p     == peer_last_tsn[x]
           S     == payload_queue[x] \cup {t}
           last  == RunEnd(p, S)
           again == IF last > p THEN reconfig_requests[x] ELSE {}
           queue == IF entry[x] = "open" /\ t >= next_ssn[x] THEN reassembly[x] \cup {t}
                                                             ELSE reassembly[x]
<1>1. /\ t \in Sent(y) /\ reassembly' = Set(reassembly, x, queue) /\ Advance(x, p, S)
      /\ UNCHANGED <<fixed, writer, asked, raced, snd_vars, next_ssn, losses>>
      /\ NotifyOne(x) \/ NotifyWaiters(x) \/ UNCHANGED <<reader, permit>>
      /\ \/ Unregister(x)
         \/ /\ entry' = Set(entry, x, IF entry[x] = "none" THEN "accepted" ELSE entry[x])
            /\ UNCHANGED <<read_shutdown, write_shutdown>>
  BY DEF HandleData
<1>2. /\ ReceiverOk(y, x) /\ y \in Peers /\ my_next_tsn[y] \in Nat \ {0}
  BY OtherPeer DEF TypeInv, Linked, Typed
<1>3. p \in Known(y) /\ S \in SUBSET Known(y) /\ Known(y) \in SUBSET Nat /\ queue \subseteq Sent(y)
      /\ Sent(y) \subseteq Known(y)
  BY <1>1, <1>2 DEF ReceiverOk, Known, Sent
<1> HIDE DEF queue, p, S
<1>4. /\ last \in Known(y)
      /\ peer_last_tsn' \in [Peers -> Nat] /\ peer_last_tsn'[x] = last
      /\ payload_queue' \in [Peers -> SUBSET Nat]
      /\ payload_queue'[x] = {u \in S : u > last}
      /\ reconfig_requests' \in [Peers -> SUBSET Nat]
      /\ reconfig_requests'[x] \subseteq reconfig_requests[x]
      /\ net' \in [Peers -> SUBSET Control]
      /\ net'[x] = net[x] /\ net'[y] = net[y] \cup {Response(u) : u \in again}
      /\ \A z \in Peers : z # x =>
            /\ peer_last_tsn'[z] = peer_last_tsn[z]
            /\ payload_queue'[z] = payload_queue[z]
            /\ reconfig_requests'[z] = reconfig_requests[z]
  BY <1>1, <1>3, AdvanceFacts
<1>5. again \in SUBSET Known(y)
  BY <1>2 DEF ReceiverOk
<1> HIDE DEF last, again, y
<1>6. /\ reassembly' \in [Peers -> SUBSET Nat] /\ reassembly'[x] = queue
      /\ \A z \in Peers : z # x => reassembly'[z] = reassembly[z]
  <2>1. queue \in SUBSET Nat
    BY <1>3
  <2> QED BY <1>1, <2>1 DEF Set, TypeInv, Typed
<1>7. /\ entry' \in [Peers -> {"open", "none", "accepted"}]
      /\ read_shutdown' \in [Peers -> BOOLEAN] /\ write_shutdown' \in [Peers -> BOOLEAN]
  <2>1. CASE Unregister(x)
    BY <2>1, UnregisterType
  <2>2. CASE entry' = Set(entry, x, IF entry[x] = "none" THEN "accepted" ELSE entry[x])
             /\ UNCHANGED <<read_shutdown, write_shutdown>>
    BY <2>2 DEF TypeInv, Typed, Set
  <2> QED BY <1>1, <2>1, <2>2
<1>8. reader' \in [Peers -> ReaderStates] /\ permit' \in [Peers -> BOOLEAN]
  BY <1>1, NotifyType
<1>9. Typed'
  BY <1>1, <1>4, <1>6, <1>7, <1>8 DEF TypeInv, Typed, fixed, snd_vars
<1>10. /\ UNCHANGED <<racing, writer, asked, raced, pending, my_next_tsn, abandoned>>
       /\ reconfigs' = reconfigs /\ next_ssn' = next_ssn
  BY <1>1 DEF fixed, snd_vars
<1>11. /\ peer_last_tsn'[x] \in Known(y)
       /\ \A u \in payload_queue'[x] : u > peer_last_tsn'[x] /\ u \in Known(y)
       /\ reconfig_requests'[x] \subseteq Known(y)
       /\ reassembly'[x] \subseteq Sent(y)
       /\ next_ssn'[x] <= my_next_tsn[y]
  BY <1>2, <1>3, <1>4, <1>6, <1>10 DEF ReceiverOk
<1> QED BY <1>4, <1>5, <1>6, <1>9, <1>10, <1>11, HandlerType DEF y

LEMMA ForwardTsnType ==
    ASSUME TypeInv, NEW x \in Peers, NEW t \in Messages, HandleForwardTsn(x, t) PROVE TypeInv'
<1> DEFINE y     == Other(x)
           S     == {u \in payload_queue[x] : u > t}
           ssn   == IF next_ssn[x] <= t THEN t + 1 ELSE next_ssn[x]
           last  == RunEnd(t, S)
           again == IF last > t THEN reconfig_requests[x] ELSE {}
<1>1. /\ t \in Sent(y) /\ Advance(x, t, S)
      /\ UNCHANGED <<fixed, writer, asked, raced, snd_vars, reassembly, losses>>
      /\ NotifyOne(x) \/ NotifyWaiters(x) \/ UNCHANGED <<reader, permit>>
      /\ next_ssn' = Set(next_ssn, x, ssn) \/ next_ssn' = next_ssn
      /\ Unregister(x) \/ UNCHANGED <<entry, read_shutdown, write_shutdown>>
  BY DEF HandleForwardTsn
<1>2. /\ ReceiverOk(y, x) /\ y \in Peers /\ my_next_tsn[y] \in Nat \ {0} /\ next_ssn[x] \in Nat \ {0}
  BY OtherPeer DEF TypeInv, Linked, Typed
<1>3. t \in Known(y) /\ S \in SUBSET Known(y) /\ Known(y) \in SUBSET Nat
      /\ ssn \in Nat \ {0} /\ ssn <= my_next_tsn[y]
  BY <1>1, <1>2 DEF ReceiverOk, Known, Sent
<1> HIDE DEF S, ssn
<1>4. /\ last \in Known(y)
      /\ peer_last_tsn' \in [Peers -> Nat] /\ peer_last_tsn'[x] = last
      /\ payload_queue' \in [Peers -> SUBSET Nat]
      /\ payload_queue'[x] = {u \in S : u > last}
      /\ reconfig_requests' \in [Peers -> SUBSET Nat]
      /\ reconfig_requests'[x] \subseteq reconfig_requests[x]
      /\ net' \in [Peers -> SUBSET Control]
      /\ net'[x] = net[x] /\ net'[y] = net[y] \cup {Response(u) : u \in again}
      /\ \A z \in Peers : z # x =>
            /\ peer_last_tsn'[z] = peer_last_tsn[z]
            /\ payload_queue'[z] = payload_queue[z]
            /\ reconfig_requests'[z] = reconfig_requests[z]
  BY <1>1, <1>3, AdvanceFacts
<1>5. again \in SUBSET Known(y)
  BY <1>2 DEF ReceiverOk
<1> HIDE DEF last, again, y
<1>6. /\ next_ssn' \in [Peers -> Nat \ {0}] /\ next_ssn'[x] <= my_next_tsn[y]
      /\ \A z \in Peers : z # x => next_ssn'[z] = next_ssn[z]
  <2>1. next_ssn[x] <= my_next_tsn[y]
    BY <1>2 DEF ReceiverOk
  <2>2. CASE next_ssn' = Set(next_ssn, x, ssn)
    <3>1. /\ next_ssn' \in [Peers -> Nat \ {0}] /\ next_ssn'[x] = ssn
          /\ \A z \in Peers : z # x => next_ssn'[z] = next_ssn[z]
      BY <1>3, <2>2 DEF Set, TypeInv, Typed
    <3> QED BY <1>3, <3>1
  <2>3. CASE next_ssn' = next_ssn
    BY <2>1, <2>3 DEF TypeInv, Typed
  <2> QED BY <1>1, <2>2, <2>3
<1>7. /\ entry' \in [Peers -> {"open", "none", "accepted"}]
      /\ read_shutdown' \in [Peers -> BOOLEAN] /\ write_shutdown' \in [Peers -> BOOLEAN]
      /\ reader' \in [Peers -> ReaderStates] /\ permit' \in [Peers -> BOOLEAN]
  BY <1>1, UnregisterType, NotifyType DEF TypeInv, Typed
<1>8. Typed'
  BY <1>1, <1>4, <1>6, <1>7 DEF TypeInv, Typed, fixed, snd_vars
<1>9. /\ UNCHANGED <<racing, writer, asked, raced, pending, my_next_tsn, abandoned>>
      /\ reconfigs' = reconfigs /\ reassembly' = reassembly
  BY <1>1 DEF fixed, snd_vars
<1>10. /\ peer_last_tsn'[x] \in Known(y)
       /\ \A u \in payload_queue'[x] : u > peer_last_tsn'[x] /\ u \in Known(y)
       /\ reconfig_requests'[x] \subseteq Known(y)
       /\ reassembly'[x] \subseteq Sent(y)
  BY <1>2, <1>3, <1>4, <1>9 DEF ReceiverOk
<1> QED BY <1>4, <1>5, <1>6, <1>8, <1>9, <1>10, HandlerType DEF y

LEMMA TypeNext == TypeInv /\ [Next]_vars => TypeInv'
<1> SUFFICES ASSUME TypeInv, [Next]_vars PROVE TypeInv'
  OBVIOUS
<1>1. CASE UNCHANGED vars
  <2>1. UNCHANGED link_vars
    BY <1>1 DEF vars, link_vars, fixed, app_vars, snd_vars, tsn_vars, read_vars
  <2>2. Typed'
    BY <1>1 DEF TypeInv, Typed, vars, fixed, app_vars, snd_vars, tsn_vars, read_vars
  <2> QED BY <2>1, <2>2, LinkedSame DEF TypeInv
<1>2. ASSUME NEW x \in Peers,
             \/ ReadStep(x) \/ Write(x) \/ CheckWrite(x) \/ Push(x)
             \/ \E how \in Halves : Shutdown(x, how)
             \/ Gather(x) \/ ReconfigTimeout(x)
             \/ \E t \in Messages : Abandon(x, t) \/ HandleData(x, t) \/ HandleForwardTsn(x, t)
             \/ \E p \in Packets : RecvReconfig(x, p)
             \/ Lose(x)
      PROVE  TypeInv'
  BY <1>2, ReadType, WriteType, ShutdownType, GatherType, LocalType, DataType, ForwardTsnType,
     ReconfigType
<1> QED BY <1>1, <1>2 DEF Next

LEMMA TypeFacts == TypeInv => TypeOK
<1> SUFFICES ASSUME TypeInv, NEW x \in Peers
             PROVE  /\ entry[x] \in {"open", "none", "accepted"}
                    /\ {read_shutdown[x], write_shutdown[x], will_retransmit_reconfig[x],
                        treconfig[x], awake[x], permit[x]} \subseteq BOOLEAN
                    /\ writer[x] \in {"idle", "checked"}
                    /\ asked[x] \in BOOLEAN /\ raced[x] => asked[x]
                    /\ pending[x] \in Seq({"DATA", "EOS"})
                    /\ my_next_tsn[x] \in 1 .. MaxMsgs + 1
                    /\ abandoned[x] \subseteq Sent(x)
                    /\ reconfigs[x] \subseteq {0} \cup Sent(x)
                    /\ peer_last_tsn[x] \in {0} \cup Sent(Other(x))
                    /\ payload_queue[x] \subseteq (peer_last_tsn[x] + 1) .. MaxMsgs
                    /\ reconfig_requests[x] \subseteq {0} \cup Sent(Other(x))
                    /\ reassembly[x] \subseteq Sent(Other(x))
                    /\ next_ssn[x] \in 1 .. MaxMsgs + 1
                    /\ reader[x] \in {"called", "looked", "found nothing", "waiting", "eof"}
                    /\ net[x] \subseteq Packets
  BY DEF TypeInv, Typed, TypeOK
<1> DEFINE y == Other(x)
<1>1. SenderOk(x) /\ ReceiverOk(y, x) /\ ReceiverOk(x, y) /\ y \in Peers /\ Other(y) = x
  BY OtherPeer DEF TypeInv, Linked
<1>2. \A z \in Peers : my_next_tsn[z] \in 1 .. MaxMsgs + 1
  <2> SUFFICES ASSUME NEW z \in Peers PROVE my_next_tsn[z] \in 1 .. MaxMsgs + 1
    OBVIOUS
  <2>1. my_next_tsn[z] \in Nat \ {0} /\ Cardinality(DataIn(pending[z])) \in Nat
    BY DataInFinite DEF TypeInv, Typed
  <2> QED BY <2>1, StreamsAssumption DEF TypeInv, Linked, SenderOk
<1>3. \A z \in Peers : Known(z) \subseteq {0} \cup Sent(z) /\ Known(z) \subseteq 0 .. MaxMsgs
  BY <1>2, StreamsAssumption DEF Known, Sent
<1>4. net[x] \subseteq Packets
  <2> SUFFICES ASSUME NEW q \in net[x] PROVE q \in Packets
    OBVIOUS
  <2>1. q \in Control
    BY DEF TypeInv, Typed
  <2>2. PICK t \in Nat : q = Request(t) \/ q = Response(t)
    BY <2>1 DEF Control, Request, Response
  <2>3. t \in 0 .. MaxMsgs
    BY <1>1, <1>3, <2>2 DEF ReceiverOk
  <2> QED BY <2>2, <2>3 DEF Packets
<1>5. payload_queue[x] \subseteq (peer_last_tsn[x] + 1) .. MaxMsgs
  BY <1>1, <1>3, StreamsAssumption DEF ReceiverOk, TypeInv, Typed
<1>6. next_ssn[x] \in 1 .. MaxMsgs + 1
  <2>1. next_ssn[x] \in Nat \ {0}
    BY DEF TypeInv, Typed
  <2> QED BY <1>1, <1>2, <2>1, StreamsAssumption DEF ReceiverOk
<1>7. /\ abandoned[x] \subseteq Sent(x) /\ reconfigs[x] \subseteq {0} \cup Sent(x)
      /\ raced[x] => asked[x]
  BY <1>1, <1>3 DEF SenderOk
<1>8. /\ peer_last_tsn[x] \in {0} \cup Sent(y) /\ reconfig_requests[x] \subseteq {0} \cup Sent(y)
      /\ reassembly[x] \subseteq Sent(y)
  BY <1>1, <1>3 DEF ReceiverOk
<1> HIDE DEF y
<1> QED BY <1>2, <1>4, <1>5, <1>6, <1>7, <1>8 DEF TypeInv, Typed, ReaderStates, y

\* Type correctness, with what ties the two ends together: a receiver is never
\* ahead of the TSNs that were sent, nor does a request or an answer name one
\* that was not (handle_data, handle_forward_tsn, handle_reconfig_param).
THEOREM TypeCorrect == Spec => []TypeOK
<1>1. Spec => []TypeInv
  BY TypeInit, TypeNext, PTL DEF Spec
<1> QED BY <1>1, TypeFacts, PTL

-----------------------------------------------------------------------------
(* No lost notification.  The property is inductive by itself: whoever makes *)
(* a message readable notifies after it has done so, and a notification that *)
(* finds nobody waiting is kept in the permit.                               *)

Noticed(x) ==
    Readable(reassembly[x], next_ssn[x]) =>
        /\ reader[x] # "waiting"
        /\ reader[x] = "found nothing" => permit[x]

\* What is readable stays noticed when readers are woken and nothing is stored.
LEMMA WokenUp ==
    ASSUME Typed, NEW x \in Peers, NEW z \in Peers, Noticed(z),
           NotifyWaiters(x) \/ UNCHANGED <<reader, permit>>,
           reassembly'[z] = reassembly[z], next_ssn'[z] = next_ssn[z]
    PROVE  Noticed(z)'
<1>1. permit'[z] = permit[z] /\ (reader'[z] = reader[z] \/ reader'[z] = "called")
  BY DEF NotifyWaiters, Set, Typed
<1> QED BY <1>1 DEF Noticed

\* notify_one: the reader is awake or has a permit.
LEMMA PermitGiven ==
    ASSUME Typed, NEW x \in Peers, NotifyOne(x)
    PROVE  /\ Noticed(x)'
           /\ \A z \in Peers : z # x => reader'[z] = reader[z] /\ permit'[z] = permit[z]
  BY DEF NotifyOne, Set, Typed, Noticed

LEMMA NoticedRead ==
    ASSUME Typed, NEW x \in Peers, NEW z \in Peers, Noticed(z), ReadStep(x) PROVE Noticed(z)'
<1>1. CASE z # x
  <2>1. /\ reader'[z] = reader[z] /\ permit'[z] = permit[z]
        /\ reassembly'[z] = reassembly[z] /\ next_ssn'[z] = next_ssn[z]
    BY <1>1, ZenonT(30) DEF ReadStep, LookAtFlag, LookAtQueue, Wait, Set, Typed
  <2> QED BY <2>1 DEF Noticed
<1>2. CASE z = x /\ LookAtFlag(x)
  BY <1>2 DEF LookAtFlag, Set, Typed, Noticed
<1>3. CASE z = x /\ LookAtQueue(x)
  <2>1. CASE Readable(reassembly[x], next_ssn[x])
    <3>1. reader'[x] = "called"
      BY <1>3, <2>1 DEF LookAtQueue, Set, Typed
    <3> QED BY <1>3, <3>1 DEF Noticed
  <2>2. CASE ~Readable(reassembly[x], next_ssn[x])
    BY <1>3, <2>2 DEF LookAtQueue, Noticed
  <2> QED BY <2>1, <2>2
<1>4. CASE z = x /\ Wait(x)
  <2>1. /\ reader[x] = "found nothing" /\ UNCHANGED <<reassembly, next_ssn>>
        /\ reader'[x] = IF permit[x] THEN "called" ELSE "waiting"
    BY <1>4 DEF Wait, Set, Typed
  <2> QED BY <1>4, <2>1 DEF Noticed
<1> QED BY <1>1, <1>2, <1>3, <1>4 DEF ReadStep

LEMMA NoticedData ==
    ASSUME Typed, NEW x \in Peers, NEW z \in Peers, Noticed(z),
           NEW t \in Messages, HandleData(x, t)
    PROVE  Noticed(z)'
<1> DEFINE pushed == entry[x] = "open" /\ t >= next_ssn[x]
           queue == IF pushed THEN reassembly[x] \cup {t} ELSE reassembly[x]
<1>1. /\ reassembly' = Set(reassembly, x, queue) /\ next_ssn' = next_ssn
      /\ IF pushed /\ Readable(queue, next_ssn[x])
         THEN NotifyOne(x) ELSE NotifyWaiters(x) \/ UNCHANGED <<reader, permit>>
  BY DEF HandleData
<1>2. reassembly'[x] = queue /\ \A w \in Peers : w # x => reassembly'[w] = reassembly[w]
  BY <1>1 DEF Set, Typed
<1>3. CASE pushed /\ Readable(queue, next_ssn[x])
  BY <1>1, <1>2, <1>3, PermitGiven DEF Noticed
<1>4. CASE ~(pushed /\ Readable(queue, next_ssn[x]))
  <2>1. CASE z = x /\ pushed
    BY <1>1, <1>2, <1>4, <2>1 DEF Noticed
  <2>2. CASE z # x \/ ~pushed
    <3>1. reassembly'[z] = reassembly[z]
      BY <1>2, <2>2
    <3> QED BY <1>1, <1>4, <3>1, WokenUp
  <2> QED BY <2>1, <2>2
<1> QED BY <1>3, <1>4

LEMMA NoticedForwardTsn ==
    ASSUME Typed, NEW x \in Peers, NEW z \in Peers, Noticed(z),
           NEW t \in Messages, HandleForwardTsn(x, t)
    PROVE  Noticed(z)'
<1> DEFINE ssn == IF next_ssn[x] <= t THEN t + 1 ELSE next_ssn[x]
<1>1. reassembly' = reassembly
  BY DEF HandleForwardTsn
<1>2. CASE entry[x] = "open"
  <2>1. /\ next_ssn' = Set(next_ssn, x, ssn)
        /\ IF Readable(reassembly[x], ssn) THEN NotifyOne(x)
           ELSE NotifyWaiters(x) \/ UNCHANGED <<reader, permit>>
    BY <1>2 DEF HandleForwardTsn
  <2>2. next_ssn'[x] = ssn /\ \A w \in Peers : w # x => next_ssn'[w] = next_ssn[w]
    BY <2>1 DEF Set, Typed
  <2>3. CASE Readable(reassembly[x], ssn)
    BY <1>1, <2>1, <2>2, <2>3, PermitGiven DEF Noticed
  <2>4. CASE ~Readable(reassembly[x], ssn)
    <3>1. CASE z = x
      BY <1>1, <2>2, <2>4, <3>1 DEF Noticed
    <3>2. CASE z # x
      BY <1>1, <2>1, <2>2, <2>4, <3>2, WokenUp
    <3> QED BY <3>1, <3>2
  <2> QED BY <2>3, <2>4
<1>3. CASE entry[x] # "open"
  BY <1>1, <1>3, WokenUp DEF HandleForwardTsn
<1> QED BY <1>2, <1>3

\* Every other step wakes readers or leaves them alone.
LEMMA NoticedNext ==
    ASSUME Typed, NoLostNotify, [Next]_vars PROVE NoLostNotify'
<1> SUFFICES ASSUME NEW z \in Peers PROVE Noticed(z)'
  BY DEF NoLostNotify, Noticed, Peers
<1>1. Noticed(z)
  BY DEF NoLostNotify, Noticed
<1>2. CASE UNCHANGED vars
  BY <1>1, <1>2 DEF Noticed, vars, read_vars
<1>3. ASSUME NEW x \in Peers,
             UNCHANGED <<reassembly, next_ssn>>,
             NotifyWaiters(x) \/ UNCHANGED <<reader, permit>>
      PROVE  Noticed(z)'
  BY <1>1, <1>3, WokenUp
<1>4. ASSUME NEW x \in Peers,
             \/ ReadStep(x) \/ Write(x) \/ CheckWrite(x) \/ Push(x)
             \/ \E how \in Halves : Shutdown(x, how)
             \/ Gather(x) \/ ReconfigTimeout(x)
             \/ \E t \in Messages : Abandon(x, t) \/ HandleData(x, t) \/ HandleForwardTsn(x, t)
             \/ \E p \in Packets : RecvReconfig(x, p)
             \/ Lose(x)
      PROVE  Noticed(z)'
  <2>1. CASE ReadStep(x)
    BY <1>1, <2>1, NoticedRead
  <2>2. CASE Write(x) \/ CheckWrite(x) \/ Push(x)
    BY <1>3, <2>2 DEF Write, CheckWrite, Push, QueueData, read_vars
  <2>3. ASSUME NEW how \in Halves, Shutdown(x, how) PROVE Noticed(z)'
    BY <1>3, <2>3 DEF Shutdown
  <2>4. CASE Gather(x) \/ ReconfigTimeout(x) \/ Lose(x) \/ (\E t \in Messages : Abandon(x, t))
    BY <1>3, <2>4 DEF Gather, ReconfigTimeout, Lose, Abandon, read_vars
  <2>5. ASSUME NEW p \in Packets, RecvReconfig(x, p) PROVE Noticed(z)'
    BY <1>3, <2>5 DEF RecvReconfig, HandleRequest, HandleResponse, read_vars
  <2> QED BY <1>1, <1>4, <2>1, <2>2, <2>3, <2>4, <2>5, NoticedData, NoticedForwardTsn
<1> QED BY <1>2, <1>4 DEF Next

\* read_sctp never sleeps on a readable message, nor falls asleep on one that was
\* stored after it had looked into the queue (handle_data, handle_forward_tsn).
THEOREM NeverSleepsOnAMessage == Spec => []NoLostNotify
<1>1. Init => NoLostNotify
  BY DEF Init, NoLostNotify, Readable
<1>2. TypeInv /\ NoLostNotify /\ [Next]_vars => TypeInv' /\ NoLostNotify'
  BY TypeNext, NoticedNext DEF TypeInv
<1> QED BY <1>1, <1>2, TypeInit, PTL DEF Spec

-----------------------------------------------------------------------------
(* A reset is never forgotten.  Of the four places from which it can still be *)
(* performed, the two at the peer are never left again; the two at the sender *)
(* are left only for them, because no answer is on its way before the peer   *)
(* has kept or performed the request (Settling).                             *)

StepOf(x) ==
    \/ ReadStep(x) \/ Write(x) \/ CheckWrite(x) \/ Push(x)
    \/ \E how \in Halves : Shutdown(x, how)
    \/ Gather(x) \/ ReconfigTimeout(x)
    \/ \E t \in Messages : Abandon(x, t) \/ HandleData(x, t) \/ HandleForwardTsn(x, t)
    \/ \E p \in Packets : RecvReconfig(x, p)
    \/ Lose(x)

Queued(x)   == \E i \in 1 .. Len(pending[x]) : pending[x][i] = "EOS" /\ awake[x]
Repeated(x) == reconfigs[x] # {} /\ treconfig[x]
Kept(y)     == reconfig_requests[y] # {} \/ entry[y] # "open"

Settling == \A x \in Peers, t \in Nat : Response(t) \in net[x] => Kept(Other(x))
Forgetless == ResetNeverForgotten /\ Settling

\* What the handlers do with a request: it is stored, or the stream is reset.
LEMMA RequestKept ==
    ASSUME TypeInv, NEW y \in Peers, NEW t \in Nat, HandleRequest(y, t) PROVE Kept(y)'
<1> DEFINE now == Performed({t}, peer_last_tsn[y])
<1>1. /\ reconfig_requests' = Set(reconfig_requests, y, Stored(y, t) \ now)
      /\ IF now # {} /\ entry[y] # "none" THEN Unregister(y) ELSE entry' = entry
  BY DEF HandleRequest
<1>2. CASE now = {}
  <2>1. reconfig_requests'[y] = Stored(y, t)
    BY <1>1, <1>2 DEF Set, TypeInv, Typed
  <2> QED BY <2>1 DEF Stored, Kept
<1>3. CASE now # {}
  <2>1. entry'[y] = "none"
    BY <1>1, <1>3 DEF Unregister, Set, TypeInv, Typed
  <2> QED BY <2>1 DEF Kept
<1> QED BY <1>2, <1>3

\* A request leaves the store only when the stream is reset for it.
LEMMA AdvanceKept ==
    ASSUME TypeInv, NEW y \in Peers, NEW p \in Known(Other(y)), NEW S \in SUBSET Known(Other(y)),
           Advance(y, p, S), Kept(y),
           Resets(y, p, S) => entry'[y] = "none",
           ~Resets(y, p, S) => (entry[y] # "open" => entry'[y] # "open")
    PROVE  Kept(y)'
<1>1. CASE Resets(y, p, S)
  BY <1>1 DEF Kept
<1>2. CASE ~Resets(y, p, S)
  <2> DEFINE last == RunEnd(p, S)
             again == IF last > p THEN reconfig_requests[y] ELSE {}
  <2>1. reconfig_requests'[y] = {t \in reconfig_requests[y] : t \notin again \/ t > last}
    BY AdvanceFacts
  <2>2. again = {} \/ \A t \in reconfig_requests[y] : ~(t <= last)
    BY <1>2 DEF Resets, Performed
  <2>3. last \in Nat /\ reconfig_requests[y] \in SUBSET Nat
    <3>1. last \in Known(Other(y)) /\ my_next_tsn[Other(y)] \in Nat
      BY AdvanceFacts, OtherPeer DEF TypeInv, Typed
    <3> QED BY <3>1 DEF Known, TypeInv, Typed
  <2> HIDE DEF last
  <2>4. reconfig_requests'[y] = reconfig_requests[y]
    BY <2>1, <2>2, <2>3
  <2> QED BY <1>2, <2>4 DEF Kept
<1> QED BY <1>1, <1>2

LEMMA ReceiverInputs ==
    ASSUME TypeInv, NEW y \in Peers, NEW t \in Messages
    PROVE  /\ HandleData(y, t) => /\ peer_last_tsn[y] \in Known(Other(y))
                                  /\ payload_queue[y] \cup {t} \in SUBSET Known(Other(y))
           /\ HandleForwardTsn(y, t) => /\ t \in Known(Other(y))
                                        /\ {u \in payload_queue[y] : u > t}
                                              \in SUBSET Known(Other(y))
<1>1. ReceiverOk(Other(y), y) /\ my_next_tsn[Other(y)] \in Nat \ {0}
  BY OtherPeer DEF TypeInv, Linked, Typed
<1>2. HandleData(y, t) \/ HandleForwardTsn(y, t) => t \in Sent(Other(y))
  BY DEF HandleData, HandleForwardTsn
<1>3. Sent(Other(y)) \subseteq Known(Other(y))
  BY <1>1 DEF Sent, Known
<1> QED BY <1>1, <1>2, <1>3 DEF ReceiverOk

LEMMA KeptStays ==
    ASSUME TypeInv, NEW x \in Peers, StepOf(x), NEW y \in Peers, Kept(y) PROVE Kept(y)'
<1>1. CASE reconfig_requests'[y] = reconfig_requests[y] /\ entry'[y] = entry[y]
  BY <1>1 DEF Kept
<1>2. CASE ReadStep(x) \/ Write(x) \/ CheckWrite(x) \/ Push(x) \/ Gather(x) \/ ReconfigTimeout(x)
           \/ Lose(x)
  BY <1>1, <1>2 DEF ReadStep, Write, CheckWrite, Push, QueueData, Gather, ReconfigTimeout, Lose,
                    tsn_vars
<1>3. ASSUME NEW how \in Halves, Shutdown(x, how) PROVE Kept(y)'
  BY <1>1, <1>3 DEF Shutdown, tsn_vars
<1>4. ASSUME NEW t \in Messages, Abandon(x, t) PROVE Kept(y)'
  BY <1>1, <1>4 DEF Abandon, tsn_vars
<1>5. ASSUME NEW t \in Messages, HandleData(x, t) PROVE Kept(y)'
  <2> DEFINE S == payload_queue[x] \cup {t}
  <2>1. /\ peer_last_tsn[x] \in Known(Other(x)) /\ S \in SUBSET Known(Other(x))
        /\ Advance(x, peer_last_tsn[x], S)
        /\ IF Resets(x, peer_last_tsn[x], S) THEN Unregister(x)
           ELSE entry' = Set(entry, x, IF entry[x] = "none" THEN "accepted" ELSE entry[x])
    BY <1>5, ReceiverInputs DEF HandleData
  <2> HIDE DEF S
  <2>2. CASE y = x
    <3>1. /\ Resets(x, peer_last_tsn[x], S) => entry'[x] = "none"
          /\ ~Resets(x, peer_last_tsn[x], S) => (entry[x] # "open" => entry'[x] # "open")
      BY <2>1 DEF Unregister, Set, TypeInv, Typed
    <3> QED BY <2>1, <2>2, <3>1, AdvanceKept
  <2>3. CASE y # x
    <3>1. reconfig_requests'[y] = reconfig_requests[y]
      BY <2>1, <2>3, AdvanceFacts
    <3>2. entry'[y] = entry[y]
      BY <2>1, <2>3 DEF Unregister, Set, TypeInv, Typed
    <3> QED BY <1>1, <3>1, <3>2
  <2> QED BY <2>2, <2>3
<1>6. ASSUME NEW t \in Messages, HandleForwardTsn(x, t) PROVE Kept(y)'
  <2> DEFINE S == {u \in payload_queue[x] : u > t}
  <2>1. /\ t \in Known(Other(x)) /\ S \in SUBSET Known(Other(x))
        /\ Advance(x, t, S)
        /\ IF Resets(x, t, S) /\ entry[x] # "none" THEN Unregister(x) ELSE entry' = entry
    BY <1>6, ReceiverInputs DEF HandleForwardTsn
  <2> HIDE DEF S
  <2>2. CASE y = x
    <3>1. /\ Resets(x, t, S) => entry'[x] = "none"
          /\ ~Resets(x, t, S) => (entry[x] # "open" => entry'[x] # "open")
      BY <2>1 DEF Unregister, Set, TypeInv, Typed
    <3> QED BY <2>1, <2>2, <3>1, AdvanceKept
  <2>3. CASE y # x
    <3>1. reconfig_requests'[y] = reconfig_requests[y]
      BY <2>1, <2>3, AdvanceFacts
    <3>2. entry'[y] = entry[y]
      BY <2>1, <2>3 DEF Unregister, Set, TypeInv, Typed
    <3> QED BY <1>1, <3>1, <3>2
  <2> QED BY <2>2, <2>3
<1>7. ASSUME NEW p \in Packets, RecvReconfig(x, p) PROVE Kept(y)'
  <2>1. CASE HandleResponse(x, p.last)
    BY <1>1, <2>1 DEF HandleResponse, tsn_vars
  <2>2. CASE HandleRequest(x, p.last)
    <3>1. p.last \in Nat
      BY DEF Packets, Request, Response
    <3>2. CASE y = x
      BY <2>2, <3>1, <3>2, RequestKept
    <3>3. CASE y # x
      <4>1. reconfig_requests'[y] = reconfig_requests[y] /\ entry'[y] = entry[y]
        BY <2>2, <3>3 DEF HandleRequest, Unregister, Set, TypeInv, Typed
      <4> QED BY <1>1, <4>1
    <3> QED BY <3>2, <3>3
  <2> QED BY <1>7, <2>1, <2>2 DEF RecvReconfig
<1> QED BY <1>2, <1>3, <1>4, <1>5, <1>6, <1>7 DEF StepOf

\* An answer is sent only by a peer that has kept the request or performed it.
LEMMA SettlingNext ==
    ASSUME TypeInv, Settling, NEW x \in Peers, StepOf(x) PROVE Settling'
<1> SUFFICES ASSUME NEW z \in Peers, NEW t \in Nat, Response(t) \in net'[z]
             PROVE  Kept(Other(z))'
  BY DEF Settling, Other, Peers
<1> DEFINE w == Other(z)
<1>1. w \in Peers
  BY OtherPeer
<1>2. CASE Kept(w)
  BY <1>1, <1>2, KeptStays DEF Kept, Other, Peers
<1>3. CASE net'[z] \subseteq net[z]
  BY <1>2, <1>3 DEF Settling
<1>4. CASE ReadStep(x) \/ Write(x) \/ CheckWrite(x) \/ Push(x) \/ ReconfigTimeout(x)
  BY <1>3, <1>4 DEF ReadStep, Write, CheckWrite, Push, QueueData, ReconfigTimeout
<1>5. ASSUME NEW how \in Halves, Shutdown(x, how) PROVE Kept(w)'
  BY <1>3, <1>5 DEF Shutdown, Other, Peers, Kept
<1>6. ASSUME NEW u \in Messages, Abandon(x, u) PROVE Kept(w)'
  BY <1>3, <1>6 DEF Abandon, Other, Peers, Kept
<1>7. CASE Lose(x)
  BY <1>3, <1>7 DEF Lose, Set, TypeInv, Typed
<1>8. CASE Gather(x)
  <2>1. PICK k \in 0 .. Len(pending[x]), n \in Nat, made \in SUBSET Nat : Gathered(x, k, n, made)
    BY <1>8, GatherFacts
  <2>2. PICK again \in SUBSET reconfigs[x] :
           net' = Set(net, Other(x), net[Other(x)] \cup {Request(u) : u \in made \cup again})
    BY <2>1 DEF Gathered
  <2>3. Response(t) \in net[z]
    BY <2>2, OtherPeer, PacketsDiffer DEF Set, TypeInv, Typed
  <2> QED BY <1>2, <2>3 DEF Settling
<1>9. ASSUME NEW p \in Packets, RecvReconfig(x, p) PROVE Kept(w)'
  <2>1. CASE HandleResponse(x, p.last)
    BY <1>3, <2>1 DEF HandleResponse, Set, TypeInv, Typed
  <2>2. CASE HandleRequest(x, p.last)
    <3>1. p.last \in Nat
      BY DEF Packets, Request, Response
    <3>2. net' = [net EXCEPT ![x] = @ \ {Request(p.last)}, ![Other(x)] = @ \cup {Response(p.last)}]
      BY <2>2 DEF HandleRequest
    <3>3. CASE z = x
      BY <1>3, <3>2, <3>3, OtherPeer DEF TypeInv, Typed
    <3>4. CASE z # x
      <4>1. w = x
        BY <3>4, OtherPeer
      <4>2. Kept(x)'
        BY <2>2, <3>1, RequestKept
      <4> QED BY <4>1, <4>2 DEF Kept
    <3> QED BY <3>3, <3>4
  <2> QED BY <1>9, <2>1, <2>2 DEF RecvReconfig, Other, Peers, Kept
<1>10. ASSUME NEW p \in Known(Other(x)), NEW S \in SUBSET Known(Other(x)), Advance(x, p, S)
       PROVE  Kept(w)'
  <2> DEFINE again == IF RunEnd(p, S) > p THEN reconfig_requests[x] ELSE {}
  <2>1. net'[x] = net[x] /\ net'[Other(x)] = net[Other(x)] \cup {Response(u) : u \in again}
    BY <1>10, AdvanceFacts
  <2>2. CASE z = x
    BY <1>3, <2>1, <2>2
  <2>3. CASE z # x
    <3>1. z = Other(x) /\ w = x
      BY <2>3, OtherPeer
    <3>2. CASE again = {}
      BY <1>3, <2>1, <3>1, <3>2
    <3>3. CASE again # {}
      <4>1. Kept(x)
        BY <3>3 DEF Kept
      <4> QED BY <1>2, <3>1, <4>1
    <3> QED BY <3>2, <3>3
  <2> QED BY <2>2, <2>3
<1>11. ASSUME NEW u \in Messages, HandleData(x, u) \/ HandleForwardTsn(x, u) PROVE Kept(w)'
  BY <1>10, <1>11, ReceiverInputs DEF HandleData, HandleForwardTsn
<1> QED BY <1>4, <1>5, <1>6, <1>7, <1>8, <1>9, <1>11 DEF StepOf, Kept, Other, Peers

\* At the sender the request is queued, then repeated, until it is settled.
LEMMA SenderKeepsReset ==
    ASSUME TypeInv, Settling, NEW x \in Peers, StepOf(x), NEW z \in Peers,
           Queued(z) \/ Repeated(z)
    PROVE  Queued(z)' \/ Repeated(z)' \/ Kept(Other(z))
<1>1. CASE /\ pending'[z] = pending[z] /\ awake'[z] = awake[z]
           /\ reconfigs'[z] = reconfigs[z] /\ treconfig'[z] = treconfig[z]
  BY <1>1 DEF Queued, Repeated
<1>2. CASE /\ reconfigs'[z] = reconfigs[z] /\ treconfig'[z] = treconfig[z] /\ awake'[z]
           /\ pending[z] \in Seq({"DATA", "EOS"})
           /\ pending'[z] = pending[z] \/ pending'[z] = Append(pending[z], "DATA")
              \/ pending'[z] = Append(pending[z], "EOS")
  <2>1. CASE Repeated(z)
    BY <1>2, <2>1 DEF Repeated
  <2>2. CASE Queued(z)
    <3>1. PICK i \in 1 .. Len(pending[z]) : pending[z][i] = "EOS"
      BY <2>2 DEF Queued
    <3>2. i \in 1 .. Len(pending'[z]) /\ pending'[z][i] = "EOS"
      BY ONLY <1>2, <3>1
    <3> QED BY <1>2, <3>2 DEF Queued
  <2> QED BY <2>1, <2>2
<1>3. pending[z] \in Seq({"DATA", "EOS"})
  BY DEF TypeInv, Typed
<1>4. CASE Write(x) \/ CheckWrite(x) \/ Push(x) \/ ReconfigTimeout(x)
  BY <1>1, <1>2, <1>3, <1>4
  DEF Write, CheckWrite, Push, QueueData, ReconfigTimeout, Set, TypeInv, Typed, snd_vars
<1>5. CASE ReadStep(x) \/ Lose(x)
  BY <1>1, <1>5 DEF ReadStep, Lose, snd_vars
<1>6. ASSUME NEW how \in Halves, Shutdown(x, how)
      PROVE  Queued(z)' \/ Repeated(z)' \/ Kept(Other(z))
  <2>1. /\ UNCHANGED <<reconfigs, treconfig>>
        /\ UNCHANGED <<pending, awake>> \/ SendResetRequest(x)
    BY <1>6 DEF Shutdown
  <2>2. CASE UNCHANGED <<pending, awake>>
    BY <1>1, <2>1, <2>2
  <2>3. CASE SendResetRequest(x)
    <3>1. \/ pending'[z] = pending[z] /\ awake'[z] = awake[z]
          \/ pending'[z] = Append(pending[z], "EOS") /\ awake'[z] = TRUE
      BY <2>3 DEF SendResetRequest, Set, TypeInv, Typed
    <3> QED BY <1>1, <1>2, <1>3, <2>1, <3>1
  <2> QED BY <2>1, <2>2, <2>3
<1>7. ASSUME NEW t \in Messages, Abandon(x, t) \/ HandleData(x, t) \/ HandleForwardTsn(x, t)
      PROVE  Queued(z)' \/ Repeated(z)' \/ Kept(Other(z))
  <2>1. UNCHANGED <<pending, awake, reconfigs, treconfig>>
    BY <1>7 DEF Abandon, HandleData, HandleForwardTsn, snd_vars
  <2> QED BY <1>1, <2>1
<1>8. CASE Gather(x)
  <2>1. PICK k \in 0 .. Len(pending[x]), n \in Nat, made \in SUBSET Nat : Gathered(x, k, n, made)
    BY <1>8, GatherFacts
  <2>2. CASE z # x
    BY <1>1, <2>1, <2>2 DEF Gathered, Set, TypeInv, Typed
  <2>3. CASE z = x
    <3>1. /\ reconfigs'[z] = reconfigs[z] \cup made
          /\ awake'[z] = (k < Len(pending[z]))
          /\ treconfig[z] \/ made # {} => treconfig'[z]
      BY <2>1, <2>3 DEF Gathered, Set, TypeInv, Typed
    <3>2. CASE Repeated(z) \/ made # {}
      BY <3>1, <3>2 DEF Repeated
    <3>3. CASE Queued(z) /\ made = {}
      <4>1. PICK i \in 1 .. Len(pending[z]) : pending[z][i] = "EOS"
        BY <3>3 DEF Queued
      <4>2. i > k
        BY <2>1, <2>3, <3>3, <4>1 DEF Gathered
      <4>3. i - k \in 1 .. Len(pending'[z]) /\ pending'[z][i - k] = "EOS"
        BY <1>3, <2>1, <2>3, <4>1, <4>2 DEF Gathered
      <4>4. k < Len(pending[z])
        BY <1>3, <4>1, <4>2
      <4>5. awake'[z] = TRUE
        BY <3>1, <4>4
      <4> QED BY <4>3, <4>5 DEF Queued
    <3> QED BY <3>2, <3>3
  <2> QED BY <2>2, <2>3
<1>9. ASSUME NEW p \in Packets, RecvReconfig(x, p)
      PROVE  Queued(z)' \/ Repeated(z)' \/ Kept(Other(z))
  <2>1. CASE HandleRequest(x, p.last)
    BY <1>1, <2>1 DEF HandleRequest, snd_vars
  <2>2. CASE p.type = "RESPONSE" /\ HandleResponse(x, p.last)
    <3>1. CASE z = x
      <4>1. p.last \in Nat /\ p = Response(p.last)
        BY <2>2 DEF Packets, Request, Response
      <4> QED BY <1>9, <3>1, <4>1 DEF Settling, RecvReconfig
    <3>2. CASE z # x
      BY <1>1, <2>2, <3>2 DEF HandleResponse, Set, TypeInv, Typed
    <3> QED BY <3>1, <3>2
  <2> QED BY <1>9, <2>1, <2>2 DEF RecvReconfig
<1> QED BY <1>4, <1>5, <1>6, <1>7, <1>8, <1>9 DEF StepOf

LEMMA ForgetlessNext ==
    ASSUME TypeInv, Forgetless, NEW x \in Peers, StepOf(x) PROVE Forgetless'
<1>1. Settling'
  BY SettlingNext DEF Forgetless
<1>2. ResetNeverForgotten'
  <2> SUFFICES ASSUME NEW z \in Peers, asked'[z]
               PROVE  Queued(z)' \/ Repeated(z)' \/ Kept(Other(z))'
    BY DEF ResetNeverForgotten, ResetUnderWay, Queued, Repeated, Kept, Other, Peers
  <2>1. CASE asked[z]
    <3>1. Queued(z) \/ Repeated(z) \/ Kept(Other(z))
      BY <2>1 DEF Forgetless, ResetNeverForgotten, ResetUnderWay, Queued, Repeated, Kept
    <3>2. CASE Kept(Other(z))
      <4>1. Other(z) \in Peers
        BY OtherPeer
      <4>2. \A w \in Peers : w = Other(z) => Kept(w)'
        BY <3>2, KeptStays
      <4> QED BY <4>1, <4>2 DEF Kept, Other, Peers
    <3> QED BY <3>1, <3>2, SenderKeepsReset DEF Forgetless
  <2>2. CASE ~asked[z]
    <3>1. PICK how \in Halves : Shutdown(x, how)
      BY <2>2 DEF StepOf, ReadStep, Write, CheckWrite, Push, QueueData, Gather, ReconfigTimeout,
                  Abandon, HandleData, HandleForwardTsn, RecvReconfig, Lose, app_vars
    <3>2. SendResetRequest(x)
      BY <2>2, <3>1 DEF Shutdown
    <3>3. /\ z = x /\ awake'[z] /\ pending'[z] = Append(pending[z], "EOS")
          /\ pending[z] \in Seq({"DATA", "EOS"})
      BY <2>2, <3>2 DEF SendResetRequest, Set, TypeInv, Typed
    <3>4. /\ Len(pending[z]) + 1 \in 1 .. Len(pending'[z])
          /\ pending'[z][Len(pending[z]) + 1] = "EOS"
      BY <3>3
    <3> QED BY <3>3, <3>4 DEF Queued
  <2> QED BY <2>1, <2>2
<1> QED BY <1>1, <1>2 DEF Forgetless

LEMMA ForgetlessSame == Forgetless /\ UNCHANGED vars => Forgetless'
  BY DEF Forgetless, ResetNeverForgotten, ResetUnderWay, Settling, Kept, vars, app_vars, snd_vars,
         tsn_vars

\* A reset that was begun is never forgotten: until the peer has kept or performed
\* the request it is in the pending queue or retransmitted with T-reconfig running
\* (send_reset_request, gather_outbound_data_and_reconfig_packets, handle_reconfig_param).
THEOREM ResetIsKept == Spec => []ResetNeverForgotten
<1>1. Init => Forgetless
  BY DEF Init, Forgetless, ResetNeverForgotten, Settling
<1>2. TypeInv /\ Forgetless /\ [Next]_vars => TypeInv' /\ Forgetless'
  BY TypeNext, ForgetlessNext, ForgetlessSame DEF Next, StepOf
<1>3. Forgetless => ResetNeverForgotten
  BY DEF Forgetless
<1> QED BY <1>1, <1>2, <1>3, TypeInit, PTL DEF Spec

-----------------------------------------------------------------------------
(* No DATA after the reset.  Unless a write overtook the shutdown, nothing   *)
(* follows the end-of-stream chunk in the pending queue, and every request   *)
(* names the last TSN that its sender will ever give to a chunk.             *)

\* The requests of s that are not settled yet, the ones on their way to r and
\* the ones that r stores included.
Requests(s, r) == reconfigs[s] \cup {t \in Nat : Request(t) \in net[r]} \cup reconfig_requests[r]
Begun(s, r) == Requests(s, r) # {} \/ entry[r] # "open"

Covered(s, r) ==
    /\ \A i, j \in 1 .. Len(pending[s]) :
          i < j /\ pending[s][i] = "EOS" => pending[s][j] # "DATA"
    /\ \A t \in Requests(s, r) : t = my_next_tsn[s] - 1
    /\ Begun(s, r) => DataIn(pending[s]) = {}
    /\ entry[r] # "open" => peer_last_tsn[r] >= my_next_tsn[s] - 1 /\ entry[r] = "none"

Covers(s, r) ==
    /\ Begun(s, r) \/ (\E i \in 1 .. Len(pending[s]) : pending[s][i] = "EOS") => asked[s]
    /\ raced[s] \/ Covered(s, r)

CoversAll == \A s \in Peers : Covers(s, Other(s))

\* The steps of the receiver, and those of the sender that neither queue nor take
\* chunks, at most perform a request that all DATA has reached.
LEMMA CoversStays ==
    ASSUME TypeInv, NEW s \in Peers, NEW r \in Peers, Covers(s, r),
           Requests(s, r)' \subseteq Requests(s, r),
           pending'[s] = pending[s], my_next_tsn'[s] = my_next_tsn[s],
           asked'[s] = asked[s], raced'[s] = raced[s],
           peer_last_tsn'[r] >= peer_last_tsn[r], peer_last_tsn'[r] \in Nat,
           \/ entry'[r] = entry[r]
           \/ /\ entry'[r] = "none"
              /\ \/ entry[r] = "none"
                 \/ \E t \in Requests(s, r) : t <= peer_last_tsn'[r]
    PROVE  Covers(s, r)'
<1>1. Begun(s, r)' => Begun(s, r)
  BY DEF Begun
<1>2. asked'[s] \/ ~(Begun(s, r) \/ \E i \in 1 .. Len(pending[s]) : pending[s][i] = "EOS")
  BY DEF Covers
<1>3. CASE raced[s]
  BY <1>1, <1>2, <1>3 DEF Covers
<1>4. CASE Covered(s, r)
  <2>1. /\ my_next_tsn[s] \in Nat /\ peer_last_tsn[r] \in Nat
    BY DEF TypeInv, Typed
  <2>2. /\ \A t \in Requests(s, r) : t = my_next_tsn[s] - 1
        /\ Begun(s, r) => DataIn(pending[s]) = {}
        /\ entry[r] # "open" => peer_last_tsn[r] >= my_next_tsn[s] - 1 /\ entry[r] = "none"
    BY <1>4 DEF Covered
  <2>3. entry'[r] # "open" => peer_last_tsn'[r] >= my_next_tsn[s] - 1 /\ entry'[r] = "none"
    BY <2>1, <2>2
  <2>4. DataIn(pending[s])' = DataIn(pending[s])
    BY DEF DataIn
  <2>5. Covered(s, r)'
    BY <1>1, <1>4, <2>2, <2>3, <2>4 DEF Covered
  <2> QED BY <1>1, <1>2, <2>5 DEF Covers
<1> QED BY <1>3, <1>4 DEF Covers

\* A chunk that is queued before the shutdown has nothing in front of it.
LEMMA CoversQueue ==
    ASSUME TypeInv, NEW x \in Peers, QueueData(x), NEW s \in Peers, Covers(s, Other(s))
    PROVE  Covers(s, Other(s))'
<1> DEFINE r == Other(s)
<1>1. r \in Peers
  BY OtherPeer
<1>2. /\ UNCHANGED <<reconfigs, net, reconfig_requests, entry, my_next_tsn, peer_last_tsn, asked>>
      /\ Requests(s, r)' = Requests(s, r) /\ Begun(s, r)' = Begun(s, r)
  BY DEF QueueData, tsn_vars, Requests, Begun, Other, Peers
<1>3. CASE s # x
  <2>1. pending'[s] = pending[s] /\ raced'[s] = raced[s]
    BY <1>3 DEF QueueData, Set, TypeInv, Typed
  <2>2. peer_last_tsn'[r] \in Nat /\ peer_last_tsn'[r] >= peer_last_tsn[r] /\ entry'[r] = entry[r]
    BY <1>1, <1>2 DEF TypeInv, Typed
  <2> HIDE DEF r
  <2>3. Covers(s, r)'
    BY <1>1, <1>2, <2>1, <2>2, CoversStays DEF r
  <2> QED BY <2>3 DEF r, Other, Peers
<1>4. CASE s = x
  <2>1. /\ pending[s] \in Seq({"DATA", "EOS"}) /\ pending'[s] = Append(pending[s], "DATA")
        /\ raced'[s] = asked[s]
    BY <1>4 DEF QueueData, Set, TypeInv, Typed
  <2>2. CASE asked[s]
    <3>1. asked'[s] /\ raced'[s]
      BY <1>2, <2>1, <2>2
    <3> QED BY <3>1 DEF Covers
  <2>3. CASE ~asked[s]
    <3>1. ~Begun(s, r) /\ \A i \in 1 .. Len(pending[s]) : pending[s][i] # "EOS"
      BY <2>3 DEF Covers
    <3>2. /\ \A i \in 1 .. Len(pending'[s]) : pending'[s][i] # "EOS"
          /\ ~Begun(s, r)'
      BY <1>2, <2>1, <3>1
    <3>3. Covered(s, r)'
      BY <3>2 DEF Covered, Begun
    <3> QED BY <3>2, <3>3 DEF Covers, Other, Peers
  <2> QED BY <2>2, <2>3
<1> QED BY <1>3, <1>4

LEMMA CoversShutdown ==
    ASSUME TypeInv, NEW x \in Peers, NEW how \in Halves, Shutdown(x, how),
           NEW s \in Peers, Covers(s, Other(s))
    PROVE  Covers(s, Other(s))'
<1> DEFINE r == Other(s)
<1>1. r \in Peers
  BY OtherPeer
<1>2. /\ UNCHANGED <<reconfigs, net, reconfig_requests, entry, my_next_tsn, peer_last_tsn, raced>>
      /\ Requests(s, r)' = Requests(s, r) /\ Begun(s, r)' = Begun(s, r)
      /\ UNCHANGED <<asked, pending, awake>> \/ SendResetRequest(x)
  BY DEF Shutdown, tsn_vars, Requests, Begun, Other, Peers
<1>3. CASE pending'[s] = pending[s] /\ asked'[s] = asked[s]
  <2>1. peer_last_tsn'[r] \in Nat /\ peer_last_tsn'[r] >= peer_last_tsn[r] /\ entry'[r] = entry[r]
    BY <1>1, <1>2 DEF TypeInv, Typed
  <2> HIDE DEF r
  <2>2. Covers(s, r)'
    BY <1>1, <1>2, <1>3, <2>1, CoversStays DEF r
  <2> QED BY <2>2 DEF r, Other, Peers
<1>4. CASE s = x /\ SendResetRequest(x)
  <2>1. /\ pending[s] \in Seq({"DATA", "EOS"}) /\ pending'[s] = Append(pending[s], "EOS")
        /\ asked'[s] = TRUE
    BY <1>4 DEF SendResetRequest, Set, TypeInv, Typed
  <2>2. CASE raced[s]
    BY <1>2, <2>1, <2>2 DEF Covers, Other, Peers
  <2>3. CASE Covered(s, r)
    <3>1. \A i, j \in 1 .. Len(pending'[s]) :
             i < j /\ pending'[s][i] = "EOS" => pending'[s][j] # "DATA"
      BY <2>1, <2>3 DEF Covered
    <3>2. DataIn(pending'[s]) = DataIn(pending[s])
      BY <2>1 DEF DataIn
    <3>3. Covered(s, r)'
      BY <1>2, <2>3, <3>1, <3>2 DEF Covered
    <3> QED BY <2>1, <3>3 DEF Covers, Other, Peers
  <2> QED BY <2>2, <2>3 DEF Covers
<1>5. CASE s # x /\ SendResetRequest(x)
  BY <1>3, <1>5 DEF SendResetRequest, Set, TypeInv, Typed
<1> QED BY <1>2, <1>3, <1>4, <1>5

\* A pass of the write loop names in its request the last TSN it gave: what it
\* pops in front of the end-of-stream chunk is covered, and nothing is behind it.
LEMMA CoversGather ==
    ASSUME TypeInv, NEW x \in Peers, Gather(x), NEW s \in Peers, Covers(s, Other(s))
    PROVE  Covers(s, Other(s))'
<1> DEFINE r == Other(s)
<1>1. r \in Peers /\ r # s
  BY OtherPeer
<1>2. PICK k \in 0 .. Len(pending[x]), n \in Nat, made \in SUBSET Nat : Gathered(x, k, n, made)
  BY GatherFacts
<1>3. PICK again \in SUBSET reconfigs[x] :
         net' = Set(net, Other(x), net[Other(x)] \cup {Request(t) : t \in made \cup again})
  BY <1>2 DEF Gathered
<1>4. UNCHANGED <<entry, asked, raced, peer_last_tsn, reconfig_requests>>
  BY DEF Gather, app_vars, tsn_vars
<1>5. /\ my_next_tsn' = Set(my_next_tsn, x, my_next_tsn[x] + n)
      /\ reconfigs' = Set(reconfigs, x, reconfigs[x] \cup made)
      /\ \A y \in Peers : y # x => pending'[y] = pending[y]
  BY <1>2 DEF Gathered
<1>6. peer_last_tsn'[r] \in Nat /\ peer_last_tsn'[r] >= peer_last_tsn[r] /\ entry'[r] = entry[r]
  BY <1>1, <1>4 DEF TypeInv, Typed
<1>7. CASE s # x
  <2>1. /\ pending'[s] = pending[s] /\ my_next_tsn'[s] = my_next_tsn[s]
        /\ reconfigs'[s] = reconfigs[s]
    BY <1>5, <1>7 DEF Set, TypeInv, Typed
  <2>2. r = x /\ net'[r] = net[r]
    BY <1>3, <1>7, OtherPeer DEF Set, TypeInv, Typed
  <2> HIDE DEF r
  <2>3. Requests(s, r)' \subseteq Requests(s, r)
    BY <1>4, <2>1, <2>2 DEF Requests, r, Other, Peers
  <2>4. Covers(s, r)'
    BY <1>1, <1>4, <1>6, <2>1, <2>3, CoversStays DEF r
  <2> QED BY <2>4 DEF r, Other, Peers
<1>8. CASE s = x
  <2>1. /\ my_next_tsn'[s] = my_next_tsn[s] + n /\ my_next_tsn[s] \in Nat \ {0}
        /\ reconfigs'[s] = reconfigs[s] \cup made
    BY <1>5, <1>8 DEF Set, TypeInv, Typed
  <2>2. /\ n + Cardinality(DataIn(pending'[s])) = Cardinality(DataIn(pending[s]))
        /\ made # {} => made = {my_next_tsn[s] + n - 1}
        /\ made # {} => \E i \in 1 .. k : pending[s][i] # "DATA"
        /\ n > 0 => \E i \in 1 .. k : pending[s][i] = "DATA"
        /\ Len(pending'[s]) = Len(pending[s]) - k
        /\ \A i \in 1 .. Len(pending'[s]) : pending'[s][i] = pending[s][i + k]
        /\ pending[s] \in Seq({"DATA", "EOS"}) /\ pending'[s] \in Seq({"DATA", "EOS"})
        /\ k \in 0 .. Len(pending[s])
    BY <1>2, <1>8 DEF Gathered, TypeInv, Typed
  <2>3. net'[r] = net[r] \cup {Request(t) : t \in made \cup again}
    BY <1>1, <1>3, <1>8 DEF Set, TypeInv, Typed
  <2> HIDE DEF r
  <2>4. Requests(s, r)' \subseteq Requests(s, r) \cup made
    <3>1. \A t \in Nat : Request(t) \in net'[r] => Request(t) \in net[r] \/ t \in made \cup again
      BY <2>3, PacketsDiffer
    <3>2. again \subseteq reconfigs[s]
      BY <1>8
    <3> QED BY <1>4, <2>1, <3>1, <3>2 DEF Requests, r, Other, Peers
  <2>5. made # {} => \E i \in 1 .. k : pending[s][i] = "EOS"
    <3> SUFFICES ASSUME made # {} PROVE \E i \in 1 .. k : pending[s][i] = "EOS"
      OBVIOUS
    <3>1. PICK i \in 1 .. k : pending[s][i] # "DATA"
      BY <2>2
    <3>2. i \in 1 .. Len(pending[s]) /\ pending[s][i] \in {"DATA", "EOS"}
      BY <2>2
    <3> QED BY <3>1, <3>2
  <2>6. Begun(s, r)' => Begun(s, r) \/ made # {}
    BY <1>4, <2>4 DEF Begun, r, Other, Peers
  <2>7. Begun(s, r)' \/ (\E i \in 1 .. Len(pending'[s]) : pending'[s][i] = "EOS") => asked'[s]
    <3>1. (\E i \in 1 .. Len(pending'[s]) : pending'[s][i] = "EOS")
             => \E i \in 1 .. Len(pending[s]) : pending[s][i] = "EOS"
      BY <2>2, SMTT(30)
    <3>2. made # {} => \E i \in 1 .. Len(pending[s]) : pending[s][i] = "EOS"
      BY <2>2, <2>5
    <3> QED BY <1>4, <2>6, <3>1, <3>2 DEF Covers, r
  <2>8. ASSUME Covered(s, r) PROVE Covered(s, r)'
    <3>1. \A i, j \in 1 .. Len(pending'[s]) :
             i < j /\ pending'[s][i] = "EOS" => pending'[s][j] # "DATA"
      <4> SUFFICES ASSUME NEW i \in 1 .. Len(pending'[s]), NEW j \in 1 .. Len(pending'[s]),
                          i < j, pending'[s][i] = "EOS"
                   PROVE  pending'[s][j] # "DATA"
        OBVIOUS
      <4>1. i + k \in 1 .. Len(pending[s]) /\ j + k \in 1 .. Len(pending[s]) /\ i + k < j + k
        BY <2>2
      <4>2. pending[s][i + k] = "EOS" /\ pending'[s][j] = pending[s][j + k]
        BY <2>2
      <4> QED BY <2>8, <4>1, <4>2 DEF Covered
    <3>2. n > 0 => ~Begun(s, r)
      <4>1. n > 0 => DataIn(pending[s]) # {}
        <5>1. n > 0 => \E i \in 1 .. Len(pending[s]) : pending[s][i] = "DATA"
          BY <2>2
        <5> QED BY <5>1 DEF DataIn
      <4> QED BY <2>8, <4>1 DEF Covered
    <3>3. \A t \in Requests(s, r)' : t = my_next_tsn'[s] - 1
      <4>1. n > 0 => Requests(s, r) = {}
        BY <3>2 DEF Begun
      <4>2. \A t \in Requests(s, r) : t = my_next_tsn'[s] - 1
        BY <2>1, <2>8, <4>1 DEF Covered
      <4>3. \A t \in made : t = my_next_tsn'[s] - 1
        <5>1. made = {} \/ made = {my_next_tsn[s] + n - 1}
          BY <2>2
        <5>2. my_next_tsn'[s] - 1 = my_next_tsn[s] + n - 1
          BY <2>1
        <5> QED BY <5>1, <5>2
      <4> QED BY <2>4, <4>2, <4>3
    <3>4. Begun(s, r)' => DataIn(pending'[s]) = {}
      <4>1. CASE Begun(s, r)
        <5>1. \A i \in 1 .. Len(pending[s]) : pending[s][i] # "DATA"
          BY <2>8, <4>1 DEF Covered, DataIn
        <5>2. \A i \in 1 .. Len(pending'[s]) : pending'[s][i] # "DATA"
          BY <2>2, <5>1, SMTT(30)
        <5> QED BY <5>2 DEF DataIn
      <4>2. CASE made # {}
        <5>1. PICK i \in 1 .. k : pending[s][i] = "EOS"
          BY <2>5, <4>2
        <5>2. \A j \in 1 .. Len(pending'[s]) : pending'[s][j] # "DATA"
          <6> SUFFICES ASSUME NEW j \in 1 .. Len(pending'[s]) PROVE pending'[s][j] # "DATA"
            OBVIOUS
          <6>1. i \in 1 .. Len(pending[s]) /\ j + k \in 1 .. Len(pending[s]) /\ i < j + k
            BY <2>2
          <6>2. pending[s][j + k] # "DATA"
            BY <2>8, <5>1, <6>1 DEF Covered
          <6> QED BY <2>2, <6>2
        <5> QED BY <5>2 DEF DataIn
      <4> QED BY <2>6, <4>1, <4>2
    <3>5. entry'[r] # "open" => peer_last_tsn'[r] >= my_next_tsn'[s] - 1 /\ entry'[r] = "none"
      <4> SUFFICES ASSUME entry[r] # "open"
                   PROVE  peer_last_tsn'[r] >= my_next_tsn'[s] - 1 /\ entry'[r] = "none"
        BY <1>4, <1>6 DEF r, Other, Peers
      <4>1. n = 0
        BY <3>2 DEF Begun
      <4>2. my_next_tsn'[s] = my_next_tsn[s]
        BY <2>1, <4>1
      <4> QED BY <1>4, <2>8, <4>2 DEF Covered
    <3> QED BY <3>1, <3>3, <3>4, <3>5 DEF Covered, DataIn, r, Other, Peers
  <2> QED BY <1>4, <2>7, <2>8 DEF Covers, r, Other, Peers
<1> QED BY <1>7, <1>8

LEMMA CoversRequest ==
    ASSUME TypeInv, NEW x \in Peers, NEW t \in Nat, Request(t) \in net[x], HandleRequest(x, t),
           UNCHANGED <<asked, raced>>, NEW s \in Peers, Covers(s, Other(s))
    PROVE  Covers(s, Other(s))'
<1> DEFINE r == Other(s)
           now == Performed({t}, peer_last_tsn[x])
<1>1. r \in Peers /\ r # s
  BY OtherPeer
<1>2. /\ net' = [net EXCEPT ![x] = @ \ {Request(t)}, ![Other(x)] = @ \cup {Response(t)}]
      /\ reconfig_requests' = Set(reconfig_requests, x, Stored(x, t) \ now)
      /\ IF now # {} /\ entry[x] # "none" THEN Unregister(x) ELSE entry' = entry
      /\ UNCHANGED <<peer_last_tsn, pending, my_next_tsn, reconfigs>>
  BY DEF HandleRequest, snd_vars
<1>3. Requests(s, r)' \subseteq Requests(s, r)
  <2>1. \A u \in Nat : Request(u) \in net'[r] => Request(u) \in net[r]
    BY <1>1, <1>2, OtherPeer, PacketsDiffer DEF TypeInv, Typed
  <2>2. \A u \in reconfig_requests'[r] : u \in reconfig_requests[r] \/ (r = x /\ u = t)
    BY <1>1, <1>2 DEF Set, Stored, TypeInv, Typed
  <2> QED BY <1>2, <2>1, <2>2 DEF Requests, Other, Peers
<1>4. peer_last_tsn'[r] \in Nat /\ peer_last_tsn'[r] >= peer_last_tsn[r]
  BY <1>1, <1>2 DEF TypeInv, Typed
<1>5. \/ entry'[r] = entry[r]
      \/ entry'[r] = "none" /\ \E u \in Requests(s, r) : u <= peer_last_tsn'[r]
  <2>1. CASE r = x /\ now # {}
    <3>1. t <= peer_last_tsn'[r]
      BY <1>2, <2>1 DEF Performed
    <3>2. t \in Requests(s, r)
      BY <2>1 DEF Requests
    <3>3. entry'[r] = "none" \/ entry'[r] = entry[r]
      BY <1>2, <2>1 DEF Unregister, Set, TypeInv, Typed
    <3> QED BY <3>1, <3>2, <3>3
  <2>2. CASE ~(r = x /\ now # {})
    BY <1>1, <1>2, <2>2 DEF Unregister, Set, TypeInv, Typed
  <2> QED BY <2>1, <2>2
<1> HIDE DEF r
<1>6. Covers(s, r)'
  BY <1>1, <1>2, <1>3, <1>4, <1>5, CoversStays DEF r
<1> QED BY <1>6 DEF r, Other, Peers

LEMMA CoversResponse ==
    ASSUME TypeInv, NEW x \in Peers, NEW t \in Nat, HandleResponse(x, t),
           UNCHANGED <<asked, raced>>, NEW s \in Peers, Covers(s, Other(s))
    PROVE  Covers(s, Other(s))'
<1> DEFINE r == Other(s)
<1>1. r \in Peers /\ r # s
  BY OtherPeer
<1>2. /\ net' = Set(net, x, net[x] \ {Response(t)})
      /\ reconfigs' = Set(reconfigs, x, reconfigs[x] \ {t})
      /\ UNCHANGED <<entry, peer_last_tsn, pending, my_next_tsn, reconfig_requests>>
  BY DEF HandleResponse, tsn_vars
<1>3. Requests(s, r)' \subseteq Requests(s, r)
  <2>1. net'[r] \subseteq net[r] /\ reconfigs'[s] \subseteq reconfigs[s]
    BY <1>1, <1>2 DEF Set, TypeInv, Typed
  <2> QED BY <1>2, <2>1 DEF Requests, Other, Peers
<1>4. peer_last_tsn'[r] \in Nat /\ peer_last_tsn'[r] >= peer_last_tsn[r]
  BY <1>1, <1>2 DEF TypeInv, Typed
<1> HIDE DEF r
<1>5. Covers(s, r)'
  BY <1>1, <1>2, <1>3, <1>4, CoversStays DEF r
<1> QED BY <1>5 DEF r, Other, Peers

\* A stream that is gone is not created anew: DATA beyond what arrived would
\* have to be beyond the request that was performed.
LEMMA CoversAdvance ==
    ASSUME TypeInv, NEW x \in Peers, NEW p \in Known(Other(x)), NEW S \in SUBSET Known(Other(x)),
           Advance(x, p, S), p >= peer_last_tsn[x],
           UNCHANGED <<asked, raced, pending, my_next_tsn, reconfigs>>,
           IF Resets(x, p, S) THEN entry'[x] = "none"
           ELSE entry'[x] = entry[x] \/ (entry[x] = "none" /\ raced[Other(x)]),
           \A y \in Peers : y # x => entry'[y] = entry[y],
           NEW s \in Peers, Covers(s, Other(s))
    PROVE  Covers(s, Other(s))'
<1> DEFINE r == Other(s)
           last == RunEnd(p, S)
           again == IF last > p THEN reconfig_requests[x] ELSE {}
<1>1. r \in Peers /\ r # s
  BY OtherPeer
<1>2. /\ last \in Known(Other(x)) /\ last >= p
      /\ peer_last_tsn' \in [Peers -> Nat] /\ peer_last_tsn'[x] = last
      /\ reconfig_requests'[x] \subseteq reconfig_requests[x]
      /\ net'[x] = net[x] /\ net'[Other(x)] = net[Other(x)] \cup {Response(t) : t \in again}
      /\ \A z \in Peers : z # x => /\ peer_last_tsn'[z] = peer_last_tsn[z]
                                   /\ reconfig_requests'[z] = reconfig_requests[z]
  BY AdvanceFacts
<1> HIDE DEF last, again
<1>3. Requests(s, r)' \subseteq Requests(s, r)
  <2>1. \A u \in Nat : Request(u) \in net'[r] => Request(u) \in net[r]
    BY <1>1, <1>2, OtherPeer, PacketsDiffer
  <2> QED BY <1>1, <1>2, <2>1 DEF Requests, Other, Peers
<1>4. peer_last_tsn'[r] \in Nat /\ peer_last_tsn'[r] >= peer_last_tsn[r]
  <2>1. my_next_tsn[Other(x)] \in Nat \ {0}
    BY OtherPeer DEF TypeInv, Typed
  <2>2. p \in Nat /\ peer_last_tsn \in [Peers -> Nat]
    BY <2>1 DEF Known, TypeInv, Typed
  <2>3. last >= peer_last_tsn[x]
    BY <1>2, <2>2
  <2> QED BY <1>1, <1>2, <2>2, <2>3
<1>5. CASE ~(r = x /\ entry[x] = "none" /\ ~Resets(x, p, S) /\ raced[Other(x)])
  <2>1. \/ entry'[r] = entry[r]
        \/ /\ entry'[r] = "none"
           /\ entry[r] = "none" \/ \E t \in Requests(s, r) : t <= peer_last_tsn'[r]
    <3>1. CASE r = x /\ Resets(x, p, S)
      <4>1. PICK t \in reconfig_requests[x] : t <= last
        BY <3>1 DEF Resets, Performed, last
      <4> QED BY <1>2, <3>1, <4>1 DEF Requests
    <3>2. CASE ~(r = x /\ Resets(x, p, S))
      BY <1>1, <1>5, <3>2
    <3> QED BY <3>1, <3>2
  <2> HIDE DEF r
  <2>2. Covers(s, r)'
    BY <1>1, <1>3, <1>4, <2>1, CoversStays DEF r
  <2> QED BY <2>2 DEF r, Other, Peers
<1>6. CASE r = x /\ entry[x] = "none" /\ ~Resets(x, p, S) /\ raced[Other(x)]
  <2>1. s = Other(x) /\ raced'[s]
    BY <1>6, OtherPeer
  <2>2. asked'[s]
    BY <1>6 DEF Covers, Begun
  <2> QED BY <2>1, <2>2 DEF Covers
<1> QED BY <1>5, <1>6

LEMMA CoversData ==
    ASSUME TypeInv, CoversAll, NEW x \in Peers, NEW t \in Messages,
           HandleData(x, t) \/ HandleForwardTsn(x, t), NEW s \in Peers
    PROVE  Covers(s, Other(s))'
<1> DEFINE y == Other(x)
<1>1. Covers(s, Other(s)) /\ Covers(y, x)
  BY OtherPeer DEF CoversAll
<1>2. CASE HandleData(x, t)
  <2> DEFINE S == payload_queue[x] \cup {t}
             p == peer_last_tsn[x]
  <2>1. /\ p \in Known(y) /\ S \in SUBSET Known(y) /\ Advance(x, p, S)
        /\ t \in Sent(y) /\ t > p
        /\ UNCHANGED <<asked, raced, pending, my_next_tsn, reconfigs>>
        /\ IF Resets(x, p, S) THEN Unregister(x)
           ELSE entry' = Set(entry, x, IF entry[x] = "none" THEN "accepted" ELSE entry[x])
    BY <1>2, ReceiverInputs DEF HandleData, snd_vars
  <2>2. p >= peer_last_tsn[x]
    BY DEF TypeInv, Typed
  <2>3. entry[x] = "none" => raced[y]
    <3>1. p \in Nat /\ my_next_tsn[y] \in Nat
      BY OtherPeer DEF TypeInv, Typed
    <3>2. ~(p >= my_next_tsn[y] - 1)
      BY <2>1, <3>1 DEF Sent
    <3> QED BY <1>1, <3>2 DEF Covers, Covered
  <2>4. IF Resets(x, p, S) THEN entry'[x] = "none"
        ELSE entry'[x] = entry[x] \/ (entry[x] = "none" /\ raced[Other(x)])
    BY <2>1, <2>3 DEF Unregister, Set, TypeInv, Typed
  <2>5. \A z \in Peers : z # x => entry'[z] = entry[z]
    BY <2>1 DEF Unregister, Set, TypeInv, Typed
  <2> HIDE DEF S, p
  <2> QED BY <1>1, <2>1, <2>2, <2>4, <2>5, CoversAdvance
<1>3. CASE HandleForwardTsn(x, t)
  <2> DEFINE S == {u \in payload_queue[x] : u > t}
  <2>1. /\ t \in Known(y) /\ S \in SUBSET Known(y) /\ Advance(x, t, S)
        /\ t > peer_last_tsn[x]
        /\ UNCHANGED <<asked, raced, pending, my_next_tsn, reconfigs>>
        /\ IF Resets(x, t, S) /\ entry[x] # "none" THEN Unregister(x) ELSE entry' = entry
    BY <1>3, ReceiverInputs DEF HandleForwardTsn, snd_vars
  <2>2. t >= peer_last_tsn[x]
    BY <2>1 DEF TypeInv, Typed, Messages
  <2>3. IF Resets(x, t, S) THEN entry'[x] = "none"
        ELSE entry'[x] = entry[x] \/ (entry[x] = "none" /\ raced[Other(x)])
    BY <2>1 DEF Unregister, Set, TypeInv, Typed
  <2>4. \A z \in Peers : z # x => entry'[z] = entry[z]
    BY <2>1 DEF Unregister, Set, TypeInv, Typed
  <2> HIDE DEF S
  <2> QED BY <1>1, <2>1, <2>2, <2>3, <2>4, CoversAdvance
<1> QED BY <1>2, <1>3

LEMMA CoversNext ==
    ASSUME TypeInv, CoversAll, NEW x \in Peers, StepOf(x) PROVE CoversAll'
<1> SUFFICES ASSUME NEW s \in Peers PROVE Covers(s, Other(s))'
  BY DEF CoversAll, Other, Peers
<1>1. Covers(s, Other(s))
  BY DEF CoversAll
<1>2. CASE UNCHANGED <<entry, asked, raced, pending, my_next_tsn, reconfigs, peer_last_tsn,
                       reconfig_requests, net>>
  BY <1>1, <1>2 DEF Covers, Covered, Begun, Requests, DataIn, Other, Peers
<1>3. CASE ReadStep(x) \/ CheckWrite(x) \/ ReconfigTimeout(x)
  BY <1>2, <1>3 DEF ReadStep, CheckWrite, ReconfigTimeout, app_vars, snd_vars, tsn_vars
<1>4. ASSUME NEW t \in Messages, Abandon(x, t) PROVE Covers(s, Other(s))'
  BY <1>2, <1>4 DEF Abandon, app_vars, tsn_vars
<1>5. CASE Lose(x)
  <2>1. /\ UNCHANGED <<entry, asked, raced, pending, my_next_tsn, reconfigs, peer_last_tsn,
                       reconfig_requests>>
        /\ \A z \in Peers : net'[z] \subseteq net[z]
    BY <1>5 DEF Lose, app_vars, snd_vars, tsn_vars, Set, TypeInv, Typed
  <2>2. Other(s) \in Peers
    BY OtherPeer
  <2>3. Requests(s, Other(s))' \subseteq Requests(s, Other(s))
    BY <2>1, <2>2 DEF Requests, Other, Peers
  <2> DEFINE r == Other(s)
  <2>4. peer_last_tsn'[r] \in Nat /\ peer_last_tsn'[r] >= peer_last_tsn[r]
    BY <2>1, <2>2 DEF TypeInv, Typed
  <2>5. Requests(s, r)' \subseteq Requests(s, r)
    BY <2>3
  <2> HIDE DEF r
  <2>6. Covers(s, r)'
    BY <1>1, <2>1, <2>2, <2>4, <2>5, CoversStays DEF r
  <2> QED BY <2>6 DEF r, Other, Peers
<1>6. ASSUME NEW p \in Packets, RecvReconfig(x, p) PROVE Covers(s, Other(s))'
  <2>1. PICK t \in Nat : p = Request(t) \/ p = Response(t)
    BY DEF Packets
  <2>2. UNCHANGED <<asked, raced>> /\ p \in net[x]
    BY <1>6 DEF RecvReconfig
  <2>3. CASE p.type = "REQUEST"
    <3>1. p = Request(t) /\ HandleRequest(x, t)
      BY <1>6, <2>1, <2>3 DEF RecvReconfig, Request, Response
    <3> QED BY <1>1, <2>2, <3>1, CoversRequest
  <2>4. CASE p.type = "RESPONSE"
    <3>1. HandleResponse(x, t)
      BY <1>6, <2>1, <2>4 DEF RecvReconfig, Request, Response
    <3> QED BY <1>1, <2>2, <3>1, CoversResponse
  <2> QED BY <1>6, <2>3, <2>4 DEF RecvReconfig
<1>7. CASE Write(x) \/ Push(x)
  BY <1>1, <1>7, CoversQueue DEF Write, Push
<1> QED BY <1>1, <1>3, <1>4, <1>5, <1>6, <1>7, CoversShutdown, CoversGather, CoversData DEF StepOf

\* No DATA creates a stream anew after its reset, unless a write that had passed
\* its check before the shutdown was pushed after it (unregister_stream,
\* get_or_create_stream, gather_outbound_data_and_reconfig_packets).
THEOREM ResetIsFinal == Spec => []NoDataAfterReset
<1>1. Init => CoversAll
  BY OtherPeer DEF Init, CoversAll, Covers, Covered, Begun, Requests, DataIn
<1>2. CoversAll /\ UNCHANGED vars => CoversAll'
  BY DEF CoversAll, Covers, Covered, Begun, Requests, DataIn, Other, Peers, vars, app_vars, snd_vars,
         tsn_vars
<1>3. TypeInv /\ CoversAll /\ [Next]_vars => TypeInv' /\ CoversAll'
  BY <1>2, TypeNext, CoversNext DEF Next, StepOf
<1>4. CoversAll => NoDataAfterReset
  BY OtherPeer DEF CoversAll, Covers, Covered, NoDataAfterReset
<1> QED BY <1>1, <1>3, <1>4, TypeInit, PTL DEF Spec
=============================================================================
