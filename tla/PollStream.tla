----------------------------- MODULE PollStream -----------------------------
(***************************************************************************)
(* PollStream: AsyncRead and AsyncWrite over a Stream, for one task that   *)
(* polls it.                                                               *)
(*                                                                         *)
(* A poll runs a future until it is done or finds a lock taken: each chunk *)
(* of a write needs the lock of the pending queue, which the write loop    *)
(* and other writers take too, so a poll pushes any number of the chunks   *)
(* that are left and is ready when none is.  The association is            *)
(* established and never shut down here; what happens to the chunks after  *)
(* the pending queue is DataTransfer's.                                    *)
(***************************************************************************)
EXTENDS Integers, Sequences, SequencesExt

CONSTANTS
    Chunks,       \* chunks of a written buffer
    MaxWrites,    \* bound: buffers the task writes, numbered from 1
    MaxReads,     \* bound: messages that arrive
    Message,      \* bytes of an arriving message
    Cap,          \* read_buf_cap
    Room          \* bytes of the buffer given to poll_read

VARIABLES
    write_fut,        \* the write in progress: [buf, left], left chunks not yet pushed
    shutdown_fut,     \* the shutdown in progress: chunks not yet pushed
    read_fut,         \* <<"Idle">>, <<"Reading">> or <<"RemainingData", bytes>>
    write_shutdown, read_shutdown,     \* of the stream
    pending,          \* the pending queue: the buffer of each chunk, 0 for end-of-stream
    reassembly,       \* messages the stream can read
    arrived,          \* history: messages that have arrived
    accepted,         \* history: buffers for which poll_write returned Ready(Ok(_))
    got               \* history: bytes that poll_read has put into the task's buffers

wvars == <<write_fut, shutdown_fut, write_shutdown, pending, accepted>>
rvars == <<read_fut, reassembly, arrived, got>>
vars == <<wvars, rvars, read_shutdown>>

none == <<>>      \* Option::None

Init ==
    /\ write_fut = none /\ shutdown_fut = none /\ read_fut = <<"Idle">>
    /\ write_shutdown = FALSE /\ read_shutdown = FALSE
    /\ pending = <<>> /\ reassembly = <<>> /\ arrived = 0 /\ accepted = <<>> /\ got = <<>>

Copies(x, n) == [i \in 1 .. n |-> x]

\* poll of a write future f: Ready(Ok) when f is done.
PollWriteFut(f) ==
    \E k \in 0 .. f.left :
        /\ pending' = pending \o Copies(f.buf, k)
        /\ write_fut' = IF k = f.left THEN none ELSE [f EXCEPT !.left = @ - k]

\* A future that is new is reported as done even if it is not, one that was there
\* only when it is: but then for the buffer of this call, which it did not write.
PollWrite ==
    /\ Len(accepted) < MaxWrites /\ shutdown_fut = none
    /\ LET buf == Len(accepted) + 1
           is_new == write_fut = none
       IN  IF is_new
           THEN /\ ~write_shutdown      \* else ErrStreamClosed
                /\ PollWriteFut([buf |-> buf, left |-> Chunks])
                /\ accepted' = Append(accepted, buf)
           ELSE /\ PollWriteFut(write_fut)
                /\ accepted' = IF write_fut' = none THEN Append(accepted, buf) ELSE accepted
    /\ UNCHANGED <<shutdown_fut, write_shutdown, read_shutdown, rvars>>

PollFlush ==
    /\ write_fut # none
    /\ PollWriteFut(write_fut)
    /\ UNCHANGED <<shutdown_fut, write_shutdown, read_shutdown, accepted, rvars>>

\* Stream::shutdown(Write), which ends at once unless both halves are now shut
\* down; the end-of-stream chunk may have to wait.  write_fut is not polled.
PollShutdown ==
    /\ \E left \in IF shutdown_fut # none THEN {1}
                   ELSE IF ~write_shutdown /\ read_shutdown THEN {1} ELSE {0} :
       \E k \in 0 .. left :
         /\ pending' = pending \o Copies(0, k)
         /\ shutdown_fut' = IF k = left THEN none ELSE <<1>>
    /\ write_shutdown' = TRUE
    /\ UNCHANGED <<write_fut, read_shutdown, accepted, rvars>>

\* read_sctp: the flag first, then one message, which is gone if it is longer
\* than the buffer (ErrShortBuffer); with neither it waits.
Put(bytes) ==
    /\ got' = got \o SubSeq(bytes, 1, IF Len(bytes) > Room THEN Room ELSE Len(bytes))
    /\ read_fut' = IF Len(bytes) > Room
                   THEN <<"RemainingData", SubSeq(bytes, Room + 1, Len(bytes))>>
                   ELSE <<"Idle">>

PollRead ==
    /\ CASE read_fut[1] = "RemainingData" -> Put(read_fut[2]) /\ UNCHANGED reassembly
         [] read_fut[1] # "RemainingData" /\ read_shutdown -> Put(<<>>) /\ UNCHANGED reassembly
         [] read_fut[1] # "RemainingData" /\ ~read_shutdown /\ reassembly # <<>> ->
              /\ reassembly' = Tail(reassembly)
              /\ IF Len(Head(reassembly)) > Cap THEN read_fut' = <<"Idle">> /\ UNCHANGED got
                 ELSE Put(Head(reassembly))
         [] OTHER -> read_fut' = <<"Reading">> /\ UNCHANGED <<reassembly, got>>
    /\ UNCHANGED <<wvars, arrived, read_shutdown>>

\* handle_data completes a message; the peer resets the stream.
Arrives ==
    /\ arrived < MaxReads
    /\ arrived' = arrived + 1
    /\ reassembly' = Append(reassembly, [i \in 1 .. Message |-> arrived * Message + i])
    /\ UNCHANGED <<wvars, read_fut, got, read_shutdown>>

ResetByPeer ==
    /\ ~read_shutdown
    /\ read_shutdown' = TRUE /\ write_shutdown' = TRUE
    /\ UNCHANGED <<write_fut, shutdown_fut, pending, accepted, rvars>>

Next == PollWrite \/ PollFlush \/ PollShutdown \/ PollRead \/ Arrives \/ ResetByPeer
Spec == Init /\ [][Next]_vars

-----------------------------------------------------------------------------
\* The comment in poll_write: it is all right to return Ready, because the data is
\* buffered.  Every buffer that was accepted is in the pending queue or in the write
\* in progress, all its chunks.
AcceptedIsBuffered ==
    \A k \in DOMAIN accepted :
        LET pushed == Len(SelectSeq(pending, LAMBDA x : x = accepted[k]))
            held   == IF write_fut # none /\ write_fut.buf = accepted[k] THEN write_fut.left ELSE 0
        IN  pushed + held = Chunks
=============================================================================
