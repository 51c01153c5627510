------------------------------ MODULE Fragments ------------------------------
(***************************************************************************)
(* How messages of several chunks cross one stream: packetize and the      *)
(* writers that push fragments into the pending queue, the pending queue   *)
(* that gives them their TSNs, the reassembly queue, and FORWARD TSN over  *)
(* messages that were given up, ordered or unordered.                      *)
(*                                                                         *)
(* Acknowledgement and retransmission are those of DataTransfer: here a    *)
(* chunk that was sent may arrive at any time, in any order, until it is   *)
(* received or passed over.  Every chunk is one unit of n_bytes.  TSNs     *)
(* count from 1 without end; SSNs wrap at 2 * SsnHalf, which stands for    *)
(* 2^16 (SerialNumbers), and are bounded to half a circle of unread ones.  *)
(***************************************************************************)
EXTENDS Integers, Sequences, FiniteSets, FiniteSetsExt, SerialNumbers

CONSTANTS
    Writers,       \* tasks that write to the stream
    SsnHalf,       \* half of the SSN space
    FirstSsn,      \* bound: the SSN both sides have come to, everything read
    RecvBuf,       \* max_receive_buffer_size, in chunks
    Window,        \* bound: chunks in flight, what cwnd and rwnd admit
    MaxMsgs,       \* bound: messages written
    MaxLen,        \* bound: fragments of a message
    MaxChunks      \* bound: fragments of all messages

ASSUME FragmentsAssumption ==
    /\ SsnHalf \in Nat \ {0} /\ FirstSsn \in 0 .. (2 * SsnHalf - 1)
    /\ RecvBuf \in Nat /\ MaxLen \in 1 .. RecvBuf
    /\ Window \in Nat \ {0}
    /\ MaxMsgs \in Nat /\ MaxChunks \in Nat

VARIABLES
    unordered,          \* Stream::unordered, the same on both sides
    \* the sending stream and the pending queue
    messages,           \* history: the messages that packetize cut up
    sequence_number,
    pushing,            \* writer -> fragments it has yet to push
    queue,              \* ordered_queue and unordered_queue
    selected,           \* the queue of the message that is half popped
    \* the sending association
    sent,               \* history: the chunk of each TSN
    abandoned,          \* messages whose abandoned flag is set
    \* the receiving association and stream
    peer_last_tsn, payload_queue,
    next_ssn,
    ordered,            \* SSN -> TSNs of its chunk set
    unordered_chunks,   \* TSNs of unordered chunks that form no message yet
    unordered_sets,     \* complete unordered chunk sets, in order
    n_bytes,
    delivered           \* history: the chunks of each message that was read

snd_vars == <<messages, sequence_number, pushing, queue, selected, sent, abandoned>>
rcv_vars == <<peer_last_tsn, payload_queue, next_ssn, ordered, unordered_chunks,
              unordered_sets, n_bytes, delivered>>
vars == <<unordered, snd_vars, rcv_vars>>

-----------------------------------------------------------------------------
SsnSpace == 2 * SsnHalf
Ssns == 0 .. (SsnSpace - 1)
BugLt(a, b) == a < b                                       \* does not wrap
Lt(a, b) == SernoLt(a, b, SsnHalf)
Lte(a, b) == SernoLte(a, b, SsnHalf)
BugGt(a, b) == a > b                                       \* does not wrap
Gt(a, b) == SernoGt(a, b, SsnHalf)

\* A chunk is [msg, n]: the n-th fragment of a message.
Beginning(c) == c.n = 1
Ending(c) == c.n = messages[c.msg].len
KindOf(m) == IF m.unordered THEN "unordered" ELSE "ordered"
Kind(c) == KindOf(messages[c.msg])
Ssn(c) == messages[c.msg].ssn
Tsns == 1 .. Len(sent)
Held == {s \in Ssns : ordered[s] # {}}      \* the SSNs of the chunk sets in ordered
Written == FoldFunction(LAMBDA m, sum : m.len + sum, 0, messages)

Init ==
    /\ unordered \in BOOLEAN
    /\ messages = <<>>
    /\ sequence_number = FirstSsn
    /\ pushing = [w \in Writers |-> <<>>]
    /\ queue = [k \in {"ordered", "unordered"} |-> <<>>]
    /\ selected = "none"
    /\ sent = <<>>
    /\ abandoned = {}
    /\ peer_last_tsn = 0
    /\ payload_queue = {}
    /\ next_ssn = FirstSsn
    /\ ordered = [s \in Ssns |-> {}]
    /\ unordered_chunks = {}
    /\ unordered_sets = <<>>
    /\ n_bytes = 0
    /\ delivered = <<>>

-----------------------------------------------------------------------------
(* Writing.                                                                *)

\* packetize: a DCEP message is ordered and reliable whatever the stream is;
\* an unordered one carries the SSN but does not use it up.
Write(w) ==
    /\ pushing[w] = <<>>
    /\ Len(messages) < MaxMsgs
    /\ \A s \in Held \cup {next_ssn} : (sequence_number + 1 - s) % SsnSpace < SsnHalf
    /\ \E len \in 1 .. MaxLen, dcep \in BOOLEAN :
         LET m == [dcep |-> dcep, unordered |-> unordered /\ ~dcep, len |-> len,
                   ssn |-> sequence_number]
         IN  /\ Written + len <= MaxChunks
             /\ messages' = Append(messages, m)
             /\ sequence_number' = IF m.unordered THEN sequence_number
                                   ELSE (sequence_number + 1) % SsnSpace
             /\ pushing' = [pushing EXCEPT ![w] =
                   [n \in 1 .. len |-> [msg |-> Len(messages) + 1, n |-> n]]]
    /\ UNCHANGED <<unordered, queue, selected, sent, abandoned, rcv_vars>>

\* send_payload_data pushes one fragment after the other; the queue is locked
\* for one of them at a time.
Push(w) ==
    /\ pushing[w] # <<>>
    /\ LET c == Head(pushing[w])
       IN  queue' = [queue EXCEPT ![Kind(c)] = Append(@, c)]
    /\ pushing' = [pushing EXCEPT ![w] = Tail(@)]
    /\ UNCHANGED <<unordered, messages, sequence_number, selected, sent, abandoned, rcv_vars>>

-----------------------------------------------------------------------------
(* Sending.                                                                *)

\* PendingQueue::peek: unordered messages go first, but never into the middle
\* of another message.
Source == CASE selected # "none" -> selected
            [] selected = "none" /\ queue["unordered"] # <<>> -> "unordered"
            [] selected = "none" /\ queue["unordered"] = <<>> -> "ordered"

\* PendingQueue::pop selects the queue of a message until its last fragment.
BugSelectedAfter(c) == "none"                              \* selects nothing
SelectedAfter(c) == IF Ending(c) THEN "none" ELSE Source

\* move_pending_data_chunk_to_inflight_queue.  With no queue selected pop
\* yields nothing but a first fragment.
MovePending ==
    /\ queue[Source] # <<>>
    /\ Len(sent) - peer_last_tsn < Window
    /\ LET c == Head(queue[Source])
       IN  /\ selected # "none" \/ Beginning(c)
           /\ sent' = Append(sent, c)
           /\ selected' = SelectedAfter(c)
    /\ queue' = [queue EXCEPT ![Source] = Tail(@)]
    /\ UNCHANGED <<unordered, messages, sequence_number, pushing, abandoned, rcv_vars>>

AllInflight(i) == \E t \in Tsns : sent[t].msg = i /\ Ending(sent[t])

\* check_partial_reliability_status gives a message up; abandoned() is true of
\* its fragments once the last one has been sent.
Abandon(i) ==
    /\ i \notin abandoned
    /\ ~messages[i].dcep
    /\ AllInflight(i)
    /\ abandoned' = abandoned \cup {i}
    /\ UNCHANGED <<unordered, messages, sequence_number, pushing, queue, selected, sent, rcv_vars>>

-----------------------------------------------------------------------------
(* The reassembly queue.                                                   *)

\* ChunkSet::is_complete, of a set of TSNs.
BugIsComplete(S) == /\ S # {}                              \* the middle may miss
                    /\ Beginning(sent[Min(S)])
                    /\ Ending(sent[Max(S)])
IsComplete(S) == /\ S # {}
                 /\ Beginning(sent[Min(S)])
                 /\ Ending(sent[Max(S)])
                 /\ S = Min(S) .. Max(S)

\* find_complete_unordered_chunk_set: the first run from a first fragment to
\* the next last fragment with nothing missing between.
CompleteRuns(S) ==
    {R \in {a .. b : a \in S, b \in S} :
        /\ R \subseteq S
        /\ IsComplete(R)
        /\ \A t \in R : (Beginning(sent[t]) <=> t = Min(R)) /\ (Ending(sent[t]) <=> t = Max(R))}

BugDrained(all, R) == all                                  \* cloned instead
Drained(all, R) == all \ R

\* ReassemblyQueue::push
PushUnordered(t) ==
    LET all  == unordered_chunks \cup {t}
        runs == CompleteRuns(all)
    IN  /\ n_bytes' = n_bytes + 1
        /\ IF runs = {}
           THEN unordered_chunks' = all /\ UNCHANGED unordered_sets
           ELSE LET R == CHOOSE R \in runs : \A Q \in runs : Min(R) <= Min(Q)
                IN  /\ unordered_chunks' = Drained(all, R)
                    /\ unordered_sets' = Append(unordered_sets, R)
        /\ UNCHANGED ordered

PushOrdered(t) ==
    /\ IF Lt(Ssn(sent[t]), next_ssn)
       THEN UNCHANGED <<ordered, n_bytes>>
       ELSE /\ n_bytes' = n_bytes + 1
            /\ ordered' = [ordered EXCEPT ![Ssn(sent[t])] = @ \cup {t}]
    /\ UNCHANGED <<unordered_chunks, unordered_sets>>

\* The chunk set that the queue of ordered sets, sorted by SSN, starts with.
First == CHOOSE s \in Held : \A u \in Held : Lte(s, u)

Subtract(n) == IF n_bytes >= n THEN n_bytes - n ELSE 0
Contents(S) == [i \in 1 .. Cardinality(S) |-> sent[Min(S) + i - 1]]

\* The code writes + 1 on a u16, which wraps in a release build and panics in
\* a debug build; so does last_tsn + 1, in ChunkSet, where TSNs come round.
NextSsn(s) == (s + 1) % SsnSpace

\* ReassemblyQueue::read
ReadUnordered ==
    /\ unordered_sets # <<>>
    /\ LET R == Head(unordered_sets)
       IN  /\ delivered' = Append(delivered, Contents(R))
           /\ n_bytes' = Subtract(Cardinality(R))
    /\ unordered_sets' = Tail(unordered_sets)
    /\ UNCHANGED <<ordered, next_ssn>>

ReadOrdered ==
    /\ unordered_sets = <<>>
    /\ Held # {}
    /\ IsComplete(ordered[First])
    /\ ~Gt(First, next_ssn)
    /\ delivered' = Append(delivered, Contents(ordered[First]))
    /\ n_bytes' = Subtract(Cardinality(ordered[First]))
    /\ ordered' = [ordered EXCEPT ![First] = {}]
    /\ next_ssn' = IF First = next_ssn THEN NextSsn(First) ELSE next_ssn
    /\ UNCHANGED unordered_sets

Read ==
    /\ ReadUnordered \/ ReadOrdered
    /\ UNCHANGED <<unordered, snd_vars, peer_last_tsn, payload_queue, unordered_chunks>>

-----------------------------------------------------------------------------
(* Receiving.                                                              *)

RunEnd(p, S) == CHOOSE i \in p .. Len(sent) : (p + 1) .. i \subseteq S /\ i + 1 \notin S

\* handle_peer_last_tsn_and_acknowledgement
Advance(p, S) ==
    /\ peer_last_tsn' = RunEnd(p, S)
    /\ payload_queue' = {t \in S : t > RunEnd(p, S)}

\* handle_data: a full buffer takes only what fills a hole.
HandleData(t) ==
    /\ t > peer_last_tsn /\ t \notin payload_queue
    /\ n_bytes < RecvBuf \/ \E u \in payload_queue : t < u
    /\ IF Kind(sent[t]) = "unordered" THEN PushUnordered(t) ELSE PushOrdered(t)
    /\ Advance(peer_last_tsn, payload_queue \cup {t})
    /\ UNCHANGED <<unordered, snd_vars, next_ssn, delivered>>

\* What a FORWARD TSN can say: the advanced ack point has passed abandoned
\* chunks only, and stopped where the next one is not of the same message.
Forwards == {t \in Tsns :
    /\ t > peer_last_tsn
    /\ \A u \in (peer_last_tsn + 1) .. t : sent[u].msg \in abandoned
    /\ t < Len(sent) => sent[t + 1].msg # sent[t].msg}

\* forward_tsn_for_ordered: incomplete chunk sets are dropped.
BugDroppedOrdered(last) == {}                              \* and forgotten
DroppedOrdered(last) == {s \in Held : Lte(s, last) /\ ~IsComplete(ordered[s])}
ForwardOrdered(last) ==
    /\ ordered' = [s \in Ssns |-> IF s \in DroppedOrdered(last) THEN {} ELSE ordered[s]]
    /\ n_bytes' = Subtract(Cardinality(UNION {ordered[s] : s \in DroppedOrdered(last)}))
    /\ next_ssn' = IF Lte(next_ssn, last) THEN NextSsn(last) ELSE next_ssn
    /\ UNCHANGED unordered_chunks

\* forward_tsn_for_unordered
BugReleased(S) == 0                                        \* the window stays taken
Released(S) == Cardinality(S)
ForwardUnordered(t) ==
    LET gone == {u \in unordered_chunks : u <= t}
    IN  /\ unordered_chunks' = unordered_chunks \ gone
        /\ n_bytes' = Subtract(Released(gone))
        /\ UNCHANGED <<ordered, next_ssn>>

\* handle_forward_tsn; the SSN it reports is that of the last chunk skipped.
HandleForwardTsn(t) ==
    /\ t \in Forwards
    /\ Advance(t, {u \in payload_queue : u > t})
    /\ IF unordered THEN ForwardUnordered(t) ELSE ForwardOrdered(Ssn(sent[t]))
    /\ UNCHANGED <<unordered, snd_vars, unordered_sets, delivered>>

Next == \/ \E w \in Writers : Write(w) \/ Push(w)
        \/ MovePending
        \/ \E i \in 1 .. Len(messages) : Abandon(i)
        \/ \E t \in Tsns : HandleData(t) \/ HandleForwardTsn(t)
        \/ Read

\* A writer finishes its write, the write loop sends, DataTransfer repeats
\* what is lost until it is received or passed over, and the reader reads.
Fairness == /\ \A w \in Writers : WF_vars(Push(w))
            /\ WF_vars(MovePending)
            /\ \A t \in 1 .. MaxChunks :
                  /\ WF_vars(t \in Tsns /\ HandleData(t))
                  /\ WF_vars(t \in Tsns /\ HandleForwardTsn(t))
            /\ WF_vars(Read)

Spec == Init /\ [][Next]_vars
FairSpec == Spec /\ Fairness

-----------------------------------------------------------------------------
(* Properties.                                                             *)

Message == [dcep : BOOLEAN, unordered : BOOLEAN, len : 1 .. MaxLen, ssn : Ssns]
Chunk == [msg : 1 .. MaxMsgs, n : 1 .. MaxLen]

\* No chunk is in two places of the reassembly queue.
InOnePlace ==
    /\ \A s, u \in Ssns : s # u => ordered[s] \cap ordered[u] = {}
    /\ \A s \in Ssns : ordered[s] \cap unordered_chunks = {}
    /\ \A i \in 1 .. Len(unordered_sets) :
          /\ unordered_sets[i] \cap unordered_chunks = {}
          /\ \A s \in Ssns : unordered_sets[i] \cap ordered[s] = {}
          /\ \A j \in 1 .. Len(unordered_sets) :
                i # j => unordered_sets[i] \cap unordered_sets[j] = {}

\* Every variable has its type, the SSNs stay in their 16 bits, and every chunk
\* the reassembly queue holds is in one chunk set or loose, never in two places:
\* what push completes and extracts does not stay behind to be read again.
TypeOK ==
    /\ unordered \in BOOLEAN
    /\ messages \in Seq(Message)
    /\ sequence_number \in Ssns /\ next_ssn \in Ssns
    /\ pushing \in [Writers -> Seq(Chunk)]
    /\ queue \in [{"ordered", "unordered"} -> Seq(Chunk)]
    /\ selected \in {"none", "ordered", "unordered"}
    /\ sent \in Seq(Chunk)
    /\ abandoned \subseteq 1 .. Len(messages)
    /\ peer_last_tsn \in 0 .. Len(sent)
    /\ payload_queue \subseteq Tsns
    /\ ordered \in [Ssns -> SUBSET Tsns]
    /\ unordered_chunks \subseteq Tsns
    /\ unordered_sets \in Seq(SUBSET Tsns)
    /\ InOnePlace
    /\ n_bytes \in Nat
    /\ delivered \in Seq(Seq(Chunk))

\* reassembly_queue.rs: "the TSNs for each fragment of a fragmented user
\* message MUST be strictly sequential".
FragmentsSequential ==
    \A t \in Tsns : /\ ~Beginning(sent[t]) => t > 1 /\ sent[t - 1] = [sent[t] EXCEPT !.n = @ - 1]
                    /\ ~Ending(sent[t]) /\ t < Len(sent) => sent[t + 1].msg = sent[t].msg

\* Every read returns all fragments of one message in their order, and no
\* message is returned twice, though SSNs come round again and incomplete
\* sets with the same SSN may have been there before.
ReadsWholeMessages ==
    /\ \A i \in 1 .. Len(delivered) :
         \E m \in 1 .. Len(messages) :
             delivered[i] = [n \in 1 .. messages[m].len |-> [msg |-> m, n |-> n]]
    /\ \A i, j \in 1 .. Len(delivered) : delivered[i][1] = delivered[j][1] => i = j

\* n_bytes, which closes the receive window, counts the chunks that are held.
HeldChunks == (UNION {ordered[s] : s \in Ssns}) \cup unordered_chunks
                 \cup (UNION {unordered_sets[i] : i \in 1 .. Len(unordered_sets)})
BytesExact == n_bytes = Cardinality(HeldChunks)

\* Once nothing is left to push or to send and the cumulative TSN has passed
\* all that was sent, only complete messages are held: no fragment of a message
\* that was given up takes receive window for ever.
NothingStranded ==
    (/\ \A w \in Writers : pushing[w] = <<>>
     /\ \A k \in {"ordered", "unordered"} : queue[k] = <<>>
     /\ peer_last_tsn = Len(sent)) =>
        unordered_chunks = {} /\ \A s \in Held : IsComplete(ordered[s])

\* The ordered messages among those written are delivered as OrderedDelivery
\* promises, numbered in the order of their SSNs.
Ordinal(i) == Cardinality({j \in 1 .. i : ~messages[j].unordered})
OrderedReads(i) == {j \in 1 .. i : ~messages[delivered[j][1].msg].unordered}
NthRead(n) == CHOOSE i \in OrderedReads(Len(delivered)) : Cardinality(OrderedReads(i)) = n
Promise == INSTANCE OrderedDelivery WITH
    submitted <- Ordinal(Len(messages)),
    lost <- {Ordinal(i) : i \in {j \in abandoned : ~messages[j].unordered}},
    received <- [n \in 1 .. Cardinality(OrderedReads(Len(delivered))) |->
                    Ordinal(delivered[NthRead(n)][1].msg)]
DeliversInOrder == Promise!Spec

\* Every message is read or was given up.
EventuallyRead ==
    \A i \in 1 .. MaxMsgs :
        Len(messages) >= i ~> (\/ i \in abandoned
                               \/ \E k \in 1 .. Len(delivered) : delivered[k][1].msg = i)
==============================================================================
