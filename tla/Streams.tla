------------------------------- MODULE Streams -------------------------------
(***************************************************************************)
(* Closing one stream of an established association: Stream::shutdown on   *)
(* either side, the end-of-stream chunk, RECONFIG requests and responses   *)
(* with their timer, unregister_stream, and the task that waits in         *)
(* read_sctp while all this happens.                                       *)
(*                                                                         *)
(* Each side writes ordered one-chunk messages; DATA that was sent arrives *)
(* in any order until it is received or a FORWARD TSN passes it            *)
(* (DataTransfer).  TSNs count from 1.  A side resets the stream at most   *)
(* once, so its request is named by the last TSN that it carries.          *)
(* Bound: where writes race with shutdown() nobody reads or gives up.      *)
(***************************************************************************)
EXTENDS Integers, Sequences, FiniteSets, FiniteSetsExt

CONSTANTS
    A, B,         \* the two associations
    Writers,      \* bound: the sides that write
    Readers,      \* bound: the sides with a task in read_sctp
    MaxMsgs,      \* bound: messages that each of them writes
    MaxLoss       \* bound: RECONFIG packets the network loses

ASSUME StreamsAssumption ==
    /\ A # B
    /\ Writers \subseteq {A, B} /\ Readers \subseteq {A, B}
    /\ MaxMsgs \in Nat /\ MaxLoss \in Nat

VARIABLES
    racing,           \* other tasks may run between the check of a write and its push
    reliable,         \* no message of the stream is ever given up
    entry,            \* the stream in AssociationInternal::streams
    read_shutdown, write_shutdown,
    writer,           \* the write in progress: idle, or checked, its chunk not yet pushed
    asked,            \* history: shutdown() has queued the end-of-stream chunk
    raced,            \* history: a chunk was pushed after it
    pending,          \* pending_queue
    my_next_tsn,
    abandoned,        \* TSNs the sender has given up
    reconfigs,        \* requests stored for retransmission
    will_retransmit_reconfig,
    treconfig,        \* T-reconfig is running
    awake,            \* token in awake_write_loop_ch
    peer_last_tsn, payload_queue,
    reconfig_requests,     \* requests of the peer that wait for DATA
    reassembly,       \* messages in the stream's reassembly queue
    next_ssn,
    reader,           \* where the task in read_sctp is
    permit,           \* permit stored by read_notifier
    net,              \* RECONFIG packets on their way to each side
    losses

app_vars  == <<read_shutdown, write_shutdown, writer, asked, raced>>
snd_vars  == <<pending, my_next_tsn, abandoned, reconfigs, will_retransmit_reconfig,
               treconfig, awake>>
tsn_vars  == <<peer_last_tsn, payload_queue, reconfig_requests>>
read_vars == <<reassembly, next_ssn, reader, permit>>
fixed     == <<racing, reliable>>      \* chosen once, by Init
vars == <<fixed, entry, app_vars, snd_vars, tsn_vars, read_vars, net, losses>>

-----------------------------------------------------------------------------
Peers == {A, B}
Other(x) == CHOOSE y \in Peers : y # x
Set(f, x, v) == [f EXCEPT ![x] = v]
Sent(x) == 1 .. (my_next_tsn[x] - 1)
Request(t) == [type |-> "REQUEST", last |-> t]
Response(t) == [type |-> "RESPONSE", last |-> t]

Init ==
    /\ racing \in BOOLEAN
    /\ reliable \in IF racing THEN {TRUE} ELSE BOOLEAN
    /\ entry = [x \in Peers |-> "open"]
    /\ read_shutdown = [x \in Peers |-> FALSE]
    /\ write_shutdown = [x \in Peers |-> FALSE]
    /\ writer = [x \in Peers |-> "idle"]
    /\ asked = [x \in Peers |-> FALSE]
    /\ raced = [x \in Peers |-> FALSE]
    /\ pending = [x \in Peers |-> <<>>]
    /\ my_next_tsn = [x \in Peers |-> 1]
    /\ abandoned = [x \in Peers |-> {}]
    /\ reconfigs = [x \in Peers |-> {}]
    /\ will_retransmit_reconfig = [x \in Peers |-> FALSE]
    /\ treconfig = [x \in Peers |-> FALSE]
    /\ awake = [x \in Peers |-> FALSE]
    /\ peer_last_tsn = [x \in Peers |-> 0]
    /\ payload_queue = [x \in Peers |-> {}]
    /\ reconfig_requests = [x \in Peers |-> {}]
    /\ reassembly = [x \in Peers |-> {}]
    /\ next_ssn = [x \in Peers |-> 1]
    /\ reader = [x \in Peers |-> "called"]
    /\ permit = [x \in Peers |-> FALSE]
    /\ net = [x \in Peers |-> {}]
    /\ losses = 0

-----------------------------------------------------------------------------
(* The reader: read_sctp looks at the flag, then into the queue, then waits *)
(* on read_notifier; other tasks run between these steps.                  *)

Readable(queue, ssn) == queue # {} /\ Min(queue) <= ssn

\* Notify: notify_one leaves a permit when nobody waits, notify_waiters none.
BugNotifyOne(x) == /\ reader' = Set(reader, x, IF reader[x] = "waiting" THEN "called" ELSE reader[x])
                   /\ UNCHANGED permit
NotifyOne(x) == IF reader[x] = "waiting"
                THEN reader' = Set(reader, x, "called") /\ UNCHANGED permit
                ELSE permit' = Set(permit, x, TRUE) /\ UNCHANGED reader
NotifyWaiters(x) == /\ reader' = Set(reader, x, IF reader[x] = "waiting" THEN "called"
                                                ELSE reader[x])
                    /\ UNCHANGED permit

\* read_sctp returns end of file once the reading half is shut down.
LookAtFlag(x) ==
    /\ reader[x] = "called"
    /\ reader' = Set(reader, x, IF read_shutdown[x] THEN "eof" ELSE "looked")
    /\ UNCHANGED <<reassembly, next_ssn, permit>>

\* A message that is returned is followed by another call.
LookAtQueue(x) ==
    /\ reader[x] = "looked"
    /\ IF Readable(reassembly[x], next_ssn[x])
       THEN LET m == Min(reassembly[x])
            IN  /\ reassembly' = Set(reassembly, x, reassembly[x] \ {m})
                /\ next_ssn' = Set(next_ssn, x, IF m = next_ssn[x] THEN m + 1 ELSE next_ssn[x])
                /\ reader' = Set(reader, x, "called")
       ELSE reader' = Set(reader, x, "found nothing") /\ UNCHANGED <<reassembly, next_ssn>>
    /\ UNCHANGED permit

Wait(x) ==
    /\ reader[x] = "found nothing"
    /\ reader' = Set(reader, x, IF permit[x] THEN "called" ELSE "waiting")
    /\ permit' = Set(permit, x, FALSE)
    /\ UNCHANGED <<reassembly, next_ssn>>

ReadStep(x) ==
    /\ x \in Readers /\ ~racing
    /\ LookAtFlag(x) \/ LookAtQueue(x) \/ Wait(x)
    /\ UNCHANGED <<fixed, entry, app_vars, snd_vars, tsn_vars, net, losses>>

-----------------------------------------------------------------------------
(* The application.                                                        *)

MayWrite(x) ==
    /\ x \in Writers
    /\ ~write_shutdown[x]
    /\ my_next_tsn[x] - 1 + Len(pending[x]) < MaxMsgs

QueueData(x) ==
    /\ raced' = Set(raced, x, asked[x])
    /\ pending' = Set(pending, x, Append(pending[x], "DATA"))
    /\ awake' = Set(awake, x, TRUE)
    /\ UNCHANGED <<fixed, entry, read_shutdown, write_shutdown, asked, my_next_tsn, abandoned,
                   reconfigs, will_retransmit_reconfig, treconfig, tsn_vars, read_vars, net,
                   losses>>

Write(x) == ~racing /\ MayWrite(x) /\ QueueData(x) /\ UNCHANGED writer

\* write_sctp looks at the flag first, ...
CheckWrite(x) ==
    /\ racing /\ writer[x] = "idle" /\ MayWrite(x)
    /\ writer' = Set(writer, x, "checked")
    /\ UNCHANGED <<fixed, entry, read_shutdown, write_shutdown, asked, raced, snd_vars,
                   tsn_vars, read_vars, net, losses>>

\* ... and pushes the chunk when it gets the lock of the pending queue.
Push(x) ==
    /\ writer[x] = "checked"
    /\ writer' = Set(writer, x, "idle")
    /\ QueueData(x)

SendResetRequest(x) ==
    /\ asked' = Set(asked, x, TRUE)
    /\ pending' = Set(pending, x, Append(pending[x], "EOS"))
    /\ awake' = Set(awake, x, TRUE)

\* Stream::shutdown; with both halves down send_reset_request queues the
\* end-of-stream chunk.  Nothing is done when both were down before.
Shutdown(x, how) ==
    LET w == write_shutdown[x] \/ how \in {"Write", "Both"}
        r == read_shutdown[x] \/ how \in {"Read", "Both"}
    IN  /\ IF read_shutdown[x] /\ write_shutdown[x]
           THEN UNCHANGED <<read_shutdown, write_shutdown, asked, pending, awake, reader, permit>>
           ELSE /\ write_shutdown' = Set(write_shutdown, x, w)
                /\ read_shutdown' = Set(read_shutdown, x, r)
                /\ IF r /\ ~read_shutdown[x] THEN NotifyWaiters(x) ELSE UNCHANGED <<reader, permit>>
                /\ IF w /\ r
                   THEN SendResetRequest(x)
                   ELSE UNCHANGED <<asked, pending, awake>>
        /\ UNCHANGED <<fixed, entry, writer, raced, my_next_tsn, abandoned, reconfigs,
                       will_retransmit_reconfig, treconfig, tsn_vars, reassembly, next_ssn,
                       net, losses>>

-----------------------------------------------------------------------------
(* The write loop and T-reconfig.                                          *)

\* sender_last_tsn of a request that is made after n chunks got their TSNs.
BugSenderLastTsn(x, n) == my_next_tsn[x] - 1               \* read before the pops
SenderLastTsn(x, n) == my_next_tsn[x] + n - 1

\* gather_outbound_data_and_reconfig_packets.  The windows may stop the pops in
\* front of any DATA chunk; a SACK wakes the write loop for the rest.
Gather(x) ==
    /\ awake[x]
    /\ \E k \in 0 .. Len(pending[x]) :
         LET popped == SubSeq(pending[x], 1, k)
             n      == Cardinality({i \in 1 .. k : popped[i] = "DATA"})
             made   == IF n < k THEN {SenderLastTsn(x, n)} ELSE {}
             again  == IF will_retransmit_reconfig[x] THEN reconfigs[x] ELSE {}
         IN  /\ k < Len(pending[x]) => pending[x][k + 1] = "DATA"
             /\ pending' = Set(pending, x, SubSeq(pending[x], k + 1, Len(pending[x])))
             /\ my_next_tsn' = Set(my_next_tsn, x, my_next_tsn[x] + n)
             /\ reconfigs' = Set(reconfigs, x, reconfigs[x] \cup made)
             /\ treconfig' = Set(treconfig, x,
                   treconfig[x] \/ made # {} \/ (will_retransmit_reconfig[x] /\ reconfigs[x] # {}))
             /\ net' = Set(net, Other(x), net[Other(x)] \cup {Request(t) : t \in made \cup again})
             /\ awake' = Set(awake, x, k < Len(pending[x]))
    /\ will_retransmit_reconfig' = Set(will_retransmit_reconfig, x, FALSE)
    /\ UNCHANGED <<fixed, entry, app_vars, abandoned, tsn_vars, read_vars, losses>>

\* on_retransmission_timeout(Reconfig)
ReconfigTimeout(x) ==
    /\ treconfig[x]
    /\ will_retransmit_reconfig' = Set(will_retransmit_reconfig, x, TRUE)
    /\ awake' = Set(awake, x, TRUE)
    /\ UNCHANGED <<fixed, entry, app_vars, pending, my_next_tsn, abandoned, reconfigs,
                   treconfig, tsn_vars, read_vars, net, losses>>

Abandon(x, t) ==
    /\ ~reliable
    /\ t \in Sent(x) \ abandoned[x]
    /\ abandoned' = Set(abandoned, x, abandoned[x] \cup {t})
    /\ UNCHANGED <<fixed, entry, app_vars, pending, my_next_tsn, reconfigs,
                   will_retransmit_reconfig, treconfig, awake, tsn_vars, read_vars, net, losses>>

-----------------------------------------------------------------------------
(* The handlers.                                                           *)

\* unregister_stream: both halves are shut down; a reader that waits returns.
Unregister(x) ==
    /\ entry' = Set(entry, x, "none")
    /\ IF entry[x] = "open"
       THEN /\ read_shutdown' = Set(read_shutdown, x, TRUE)
            /\ write_shutdown' = Set(write_shutdown, x, TRUE)
       ELSE UNCHANGED <<read_shutdown, write_shutdown>>

\* reset_streams_if_any: a request whose DATA is not all here stays stored.
BugPerformed(requests, last) == {t \in requests : t < last}
Performed(requests, last) == {t \in requests : t <= last}

\* handle_reconfig_param of a request.
BugStored(x, t) == reconfig_requests[x]                    \* the answer is all
Stored(x, t) == reconfig_requests[x] \cup {t}
HandleRequest(x, t) ==
    LET now == Performed({t}, peer_last_tsn[x])
    IN  /\ reconfig_requests' = Set(reconfig_requests, x, Stored(x, t) \ now)
        /\ net' = [net EXCEPT ![x] = @ \ {Request(t)}, ![Other(x)] = @ \cup {Response(t)}]
        /\ IF now # {} /\ entry[x] # "none"
           THEN /\ Unregister(x)
                /\ IF entry[x] = "open" /\ ~read_shutdown[x] THEN NotifyWaiters(x)
                   ELSE UNCHANGED <<reader, permit>>
           ELSE UNCHANGED <<entry, read_shutdown, write_shutdown, reader, permit>>
        /\ UNCHANGED <<peer_last_tsn, payload_queue, reassembly, next_ssn, snd_vars>>

\* A response, whatever its result, settles the request.
HandleResponse(x, t) ==
    /\ net' = Set(net, x, net[x] \ {Response(t)})
    /\ reconfigs' = Set(reconfigs, x, reconfigs[x] \ {t})
    /\ treconfig' = Set(treconfig, x, treconfig[x] /\ reconfigs[x] \ {t} # {})
    /\ UNCHANGED <<entry, read_shutdown, write_shutdown, pending, my_next_tsn, abandoned,
                   will_retransmit_reconfig, awake, tsn_vars, read_vars>>

RecvReconfig(x, p) ==
    /\ p \in net[x]
    /\ \/ p.type = "REQUEST" /\ HandleRequest(x, p.last)
       \/ p.type = "RESPONSE" /\ HandleResponse(x, p.last)
    /\ UNCHANGED <<fixed, writer, asked, raced, losses>>

BugRunEnd(p, S) ==                  \* counts the pop that found nothing as well
    1 + CHOOSE i \in p .. MaxMsgs : (p + 1) .. i \subseteq S /\ i + 1 \notin S
RunEnd(p, S) == CHOOSE i \in p .. MaxMsgs : (p + 1) .. i \subseteq S /\ i + 1 \notin S

\* handle_peer_last_tsn_and_acknowledgement: each chunk that extends the
\* sequence has the stored requests looked at again and answered.
Advance(x, p, S) ==
    LET last  == RunEnd(p, S)
        again == IF last > p THEN reconfig_requests[x] ELSE {}
    IN  /\ peer_last_tsn' = Set(peer_last_tsn, x, last)
        /\ payload_queue' = Set(payload_queue, x, {t \in S : t > last})
        /\ reconfig_requests' = Set(reconfig_requests, x,
              reconfig_requests[x] \ Performed(again, last))
        /\ net' = Set(net, Other(x), net[Other(x)] \cup {Response(t) : t \in again})

Resets(x, p, S) ==
    RunEnd(p, S) > p /\ Performed(reconfig_requests[x], RunEnd(p, S)) # {}

\* handle_data: a stream that is not registered is created and offered to
\* accept_stream.  A reader that waits is woken by the message or by the reset.
HandleData(x, t) ==
    LET S     == payload_queue[x] \cup {t}
        queue == IF entry[x] = "open" /\ t >= next_ssn[x] THEN reassembly[x] \cup {t}
                                                          ELSE reassembly[x]
    IN  /\ t \in Sent(Other(x))
        /\ t > peer_last_tsn[x] /\ t \notin payload_queue[x]
        /\ reassembly' = Set(reassembly, x, queue)
        /\ IF entry[x] = "open" /\ t >= next_ssn[x] /\ Readable(queue, next_ssn[x])
           THEN NotifyOne(x)
           ELSE IF Resets(x, peer_last_tsn[x], S) /\ entry[x] = "open" /\ ~read_shutdown[x]
                THEN NotifyWaiters(x)
                ELSE UNCHANGED <<reader, permit>>
        /\ Advance(x, peer_last_tsn[x], S)
        /\ IF Resets(x, peer_last_tsn[x], S)
           THEN Unregister(x)
           ELSE /\ entry' = Set(entry, x, IF entry[x] = "none" THEN "accepted" ELSE entry[x])
                /\ UNCHANGED <<read_shutdown, write_shutdown>>
        /\ UNCHANGED <<fixed, writer, asked, raced, snd_vars, next_ssn, losses>>

\* handle_forward_tsn over chunks that were given up: the stored requests are
\* looked at only if chunks beyond it extend the sequence.
HandleForwardTsn(x, t) ==
    LET S    == {u \in payload_queue[x] : u > t}
        ssn  == IF next_ssn[x] <= t THEN t + 1 ELSE next_ssn[x]
    IN  /\ t \in Sent(Other(x)) /\ t > peer_last_tsn[x]
        /\ (peer_last_tsn[x] + 1) .. t \subseteq abandoned[Other(x)]
        /\ IF entry[x] = "open"
           THEN /\ next_ssn' = Set(next_ssn, x, ssn)
                /\ IF Readable(reassembly[x], ssn) THEN NotifyOne(x)
                   ELSE IF Resets(x, t, S) /\ ~read_shutdown[x] THEN NotifyWaiters(x)
                        ELSE UNCHANGED <<reader, permit>>
           ELSE UNCHANGED <<next_ssn, reader, permit>>
        /\ Advance(x, t, S)
        /\ IF Resets(x, t, S) /\ entry[x] # "none"
           THEN Unregister(x)
           ELSE UNCHANGED <<entry, read_shutdown, write_shutdown>>
        /\ UNCHANGED <<fixed, writer, asked, raced, snd_vars, reassembly, losses>>

Lose(x) ==
    /\ losses < MaxLoss
    /\ losses' = losses + 1
    /\ \E p \in net[x] : net' = Set(net, x, net[x] \ {p})
    /\ UNCHANGED <<fixed, entry, app_vars, snd_vars, tsn_vars, read_vars>>

Messages == 1 .. MaxMsgs
Halves == {"Read", "Write", "Both"}
Packets == {Request(t) : t \in 0 .. MaxMsgs} \cup {Response(t) : t \in 0 .. MaxMsgs}

Next == \E x \in Peers :
    \/ ReadStep(x) \/ Write(x) \/ CheckWrite(x) \/ Push(x)
    \/ \E how \in Halves : Shutdown(x, how)
    \/ Gather(x) \/ ReconfigTimeout(x)
    \/ \E t \in Messages : Abandon(x, t) \/ HandleData(x, t) \/ HandleForwardTsn(x, t)
    \/ \E p \in Packets : RecvReconfig(x, p)
    \/ Lose(x)

\* Every task that can run is polled, the peer's acknowledgements let the write
\* loop take the rest of the queue, DATA is retransmitted until it arrives or is
\* given up, and what was given up is passed over; T-reconfig has no limit of
\* retransmissions.  Nobody has to write, to shut down or to give up anything.
Fairness == \A x \in Peers :
    /\ WF_vars(ReadStep(x)) /\ WF_vars(ReconfigTimeout(x))
    /\ WF_vars(Gather(x) /\ (pending[x] # <<>> => pending'[x] # pending[x]))
    /\ WF_vars(\E t \in Messages : HandleData(x, t) /\ t \notin abandoned[Other(x)])
    /\ WF_vars(\E t \in Messages : HandleForwardTsn(x, t))
    /\ \A p \in Packets : WF_vars(RecvReconfig(x, p))

Spec == Init /\ [][Next]_vars
FairSpec == Spec /\ Fairness

-----------------------------------------------------------------------------
(* Properties                                                              *)

\* The types, with what ties the two ends together: a receiver is never ahead
\* of the TSNs that were sent (handle_data, handle_forward_tsn).
TypeOK ==
    /\ racing \in BOOLEAN /\ reliable \in BOOLEAN
    /\ losses \in 0 .. MaxLoss
    /\ \A x \in Peers :
         /\ entry[x] \in {"open", "none", "accepted"}
         /\ {read_shutdown[x], write_shutdown[x], will_retransmit_reconfig[x],
             treconfig[x], awake[x], permit[x]} \subseteq BOOLEAN
         /\ writer[x] \in {"idle", "checked"}
         /\ asked[x] \in BOOLEAN /\ raced[x] => asked[x]
         /\ pending[x] \in Seq({"DATA", "EOS"})
         /\ my_next_tsn[x] \in 1 .. MaxMsgs + 1
         /\ abandoned[x] \subseteq Sent(x)
         /\ reconfigs[x] \subseteq {0} \cup Sent(x)
         /\ peer_last_tsn[x] \in {0} \cup Sent(Other(x))
         /\ payload_queue[x] \subseteq (peer_last_tsn[x] + 1) .. MaxMsgs
         /\ reconfig_requests[x] \subseteq {0} \cup Sent(Other(x))
         /\ reassembly[x] \subseteq Sent(Other(x))
         /\ next_ssn[x] \in 1 .. MaxMsgs + 1
         /\ reader[x] \in {"called", "looked", "found nothing", "waiting", "eof"}
         /\ net[x] \subseteq Packets

\* No DATA that was queued before the end-of-stream chunk creates the stream anew
\* after the reset: sender_last_tsn covers every chunk that the same pass of the
\* write loop takes, however the request and the chunks overtake each other.  Only
\* a write that passed its check before the shutdown and pushed after it can.
NoDataAfterReset == \A x \in Peers : entry[x] = "accepted" => raced[Other(x)]

\* The request is still somewhere from which it can be performed: in the pending
\* queue, kept for retransmission with T-reconfig running, or stored by the peer.
ResetUnderWay(x) ==
    \/ \E i \in 1 .. Len(pending[x]) : pending[x][i] = "EOS" /\ awake[x]
    \/ reconfigs[x] # {} /\ treconfig[x]
    \/ reconfig_requests[Other(x)] # {}
    \/ entry[Other(x)] # "open"

\* A reset that was begun is never forgotten: a response, even "in progress",
\* settles the sender's copy only after the receiver has kept or performed it.
ResetNeverForgotten == \A x \in Peers : asked[x] => ResetUnderWay(x)

\* read_sctp never sleeps on a readable message, and does not fall asleep on one
\* that came after it had looked: handle_data leaves a permit.
NoLostNotify == \A x \in Peers :
    Readable(reassembly[x], next_ssn[x]) =>
        /\ reader[x] # "waiting"
        /\ reader[x] = "found nothing" => permit[x]

\* On a reliable stream the peer resets its end, whatever RECONFIG packets are
\* lost and whether the request overtakes the DATA before it or not.
ResetReachesPeer == \A x \in Peers :
    (reliable /\ asked[x]) ~> entry[Other(x)] # "open"
=============================================================================
