------------------------------- MODULE Shutdown -------------------------------
(***************************************************************************)
(* Shutting down an established association from either side or both:      *)
(* Association::shutdown, SHUTDOWN / SHUTDOWN ACK / SHUTDOWN COMPLETE, the *)
(* T2 timer, what gather_outbound sends in each state, and closing.  One   *)
(* message per direction stands for the data still under way.              *)
(*                                                                         *)
(* A handler, a gather and a timer callback hold the mutex and read the    *)
(* state once, when they begin; shutdown() holds no lock and works on the  *)
(* same atomics between their two halves, Begin and Finish.                *)
(***************************************************************************)
EXTENDS Naturals, FiniteSets

CONSTANTS
    A, B,           \* the two associations
    Writers,        \* bound: the sides that write a message
    MaxLoss,        \* bound: packets the network loses
    MaxDup,         \* bound: packets the network delivers and keeps
    MaxSpurious     \* bound: T2 and T3 expiries while an answer is under way,
                    \* in the behaviours where shutdown() meets no handler

ASSUME ShutdownAssumption ==
    /\ A # B
    /\ Writers \subseteq {A, B}
    /\ MaxLoss \in Nat /\ MaxDup \in Nat /\ MaxSpurious \in Nat

VARIABLES
    state,          \* the atomic AssociationState, shared with shutdown()
    will_send_shutdown,            \* atomic, shared with shutdown()
    will_send_shutdown_ack, will_send_shutdown_complete,
    data,           \* the side's message: none, pending, inflight, acked
    abandoned,      \* its inflight message was given up
    resend,         \* it is marked for retransmission
    will_send_forward_tsn,
    received,       \* the peer's message, or a FORWARD TSN over it, came in
    ack_due,        \* ack_state is Immediate
    t2,             \* T2-shutdown is running
    awake,          \* token in awake_write_loop_ch
    closed,         \* close() dropped close_loop_ch_tx: both loops end
    job,            \* what holds the mutex, with the state it read
    app,            \* how far the application's shutdown() call has come
    net,            \* packets on their way to each side
    orderly,        \* shutdown() meets no running handler, SHUTDOWN COMPLETE arrives
    reliable,       \* the stream's messages are never given up
    losses, dups, spurious

flag_vars == <<will_send_shutdown_ack, will_send_shutdown_complete>>
data_vars == <<data, abandoned, resend, will_send_forward_tsn, received, ack_due>>
env_vars  == <<orderly, reliable>>
vars == <<state, will_send_shutdown, flag_vars, data_vars, t2, awake, closed, job, app,
          net, env_vars, losses, dups, spurious>>

-----------------------------------------------------------------------------
Peers == {A, B}
Other(x) == CHOOSE y \in Peers : y # x
Free == [does |-> "nothing", state |-> "Closed"]
ShuttingDown == {"ShutdownPending", "ShutdownSent", "ShutdownReceived"}
SackStates == {"Established", "ShutdownPending", "ShutdownReceived"}
Timers == {"T2Shutdown", "T3RTX"}
Packets == {"DATA", "SACK", "FORWARD_TSN", "SHUTDOWN", "SHUTDOWN_ACK", "SHUTDOWN_COMPLETE"}

\* f with its value at x replaced.
Set(f, x, v) == [f EXCEPT ![x] = v]

Init ==
    /\ state = [x \in Peers |-> "Established"]
    /\ will_send_shutdown = [x \in Peers |-> FALSE]
    /\ will_send_shutdown_ack = [x \in Peers |-> FALSE]
    /\ will_send_shutdown_complete = [x \in Peers |-> FALSE]
    /\ data = [x \in Peers |-> "none"]
    /\ abandoned = [x \in Peers |-> FALSE]
    /\ resend = [x \in Peers |-> FALSE]
    /\ will_send_forward_tsn = [x \in Peers |-> FALSE]
    /\ received = [x \in Peers |-> FALSE]
    /\ ack_due = [x \in Peers |-> FALSE]
    /\ t2 = [x \in Peers |-> FALSE]
    /\ awake = [x \in Peers |-> FALSE]
    /\ closed = [x \in Peers |-> FALSE]
    /\ job = [x \in Peers |-> Free]
    /\ app = [x \in Peers |-> "idle"]
    /\ net = [x \in Peers |-> {}]
    /\ orderly \in BOOLEAN
    /\ reliable \in (IF orderly THEN BOOLEAN ELSE {FALSE})   \* may give up nothing too
    /\ losses = 0
    /\ dups = 0
    /\ spurious = 0

-----------------------------------------------------------------------------
(* The application, outside the mutex.                                     *)

AppMayRun(x) == orderly => job[x] = Free
InShutdown(x) == app[x] \in {"loaded", "pending", "flagged", "woken"}

\* Stream::write of the one message, refused once the state has changed.
Write(x) ==
    /\ AppMayRun(x) /\ ~(orderly /\ InShutdown(x))
    /\ x \in Writers
    /\ data[x] = "none"
    /\ state[x] = "Established"
    /\ data' = Set(data, x, "pending")
    /\ awake' = Set(awake, x, TRUE)
    /\ UNCHANGED <<state, will_send_shutdown, flag_vars, abandoned, resend,
                   will_send_forward_tsn, received, ack_due, t2, closed, job, app, net,
                   env_vars, losses, dups, spurious>>

\* Association::shutdown, one atomic access at a time: it reads the state, ...
CallShutdown(x) ==
    /\ app[x] = "idle"
    /\ state[x] = "Established"
    /\ app' = Set(app, x, "loaded")
    /\ UNCHANGED <<state, will_send_shutdown, awake>>

\* ... sets ShutdownPending, ...
SetPending(x) ==
    /\ app[x] = "loaded"
    /\ state' = Set(state, x, "ShutdownPending")
    /\ app' = Set(app, x, "pending")
    /\ UNCHANGED <<will_send_shutdown, awake>>

\* ... and with nothing outstanding asks for SHUTDOWN, ...
LookOutstanding(x) ==
    /\ app[x] = "pending"
    /\ IF data[x] = "inflight"
       THEN app' = Set(app, x, "waiting") /\ UNCHANGED will_send_shutdown
       ELSE app' = Set(app, x, "flagged") /\ will_send_shutdown' = Set(will_send_shutdown, x, TRUE)
    /\ UNCHANGED <<state, awake>>

\* ... wakes the write loop, ...
WakeUp(x) ==
    /\ app[x] = "flagged"
    /\ awake' = Set(awake, x, TRUE)
    /\ app' = Set(app, x, "woken")
    /\ UNCHANGED <<state, will_send_shutdown>>

\* ... sets ShutdownSent ...
SetSent(x) ==
    /\ app[x] = "woken"
    /\ state' = Set(state, x, "ShutdownSent")
    /\ app' = Set(app, x, "waiting")
    /\ UNCHANGED <<will_send_shutdown, awake>>

\* ... and waits until close() drops close_loop_ch_tx.
Return(x) ==
    /\ app[x] = "waiting" /\ closed[x]
    /\ app' = Set(app, x, "returned")
    /\ UNCHANGED <<state, will_send_shutdown, awake>>

AppStep(x) ==
    /\ AppMayRun(x)
    /\ \/ SetPending(x) \/ LookOutstanding(x) \/ WakeUp(x) \/ SetSent(x) \/ Return(x)
    /\ UNCHANGED <<flag_vars, data_vars, t2, closed, job, net, env_vars, losses, dups, spurious>>

AppCall(x) ==
    /\ AppMayRun(x)
    /\ CallShutdown(x)
    /\ UNCHANGED <<flag_vars, data_vars, t2, closed, job, net, env_vars, losses, dups, spurious>>

-----------------------------------------------------------------------------
(* Taking the mutex: a read loop with a packet, a write loop that was      *)
(* awakened, a timer that expired.                                         *)

CanBegin(x) == /\ job[x] = Free /\ ~closed[x]
               /\ orderly => ~InShutdown(x)
Take(x, what) == job' = Set(job, x, [does |-> what, state |-> state[x]])

BeginRecv(x, p) ==
    /\ CanBegin(x)
    /\ p \in net[x]
    /\ Take(x, p)
    /\ \/ net' = Set(net, x, net[x] \ {p}) /\ dups' = dups
       \/ net' = net /\ dups < MaxDup /\ dups' = dups + 1
    /\ UNCHANGED <<state, will_send_shutdown, flag_vars, data_vars, t2, awake, closed, app,
                   env_vars, losses, spurious>>

BeginGather(x) ==
    /\ CanBegin(x)
    /\ awake[x]
    /\ awake' = Set(awake, x, FALSE)
    /\ Take(x, "gather")
    /\ UNCHANGED <<state, will_send_shutdown, flag_vars, data_vars, t2, closed, app, net,
                   env_vars, losses, dups, spurious>>

\* An RTO is longer than a round trip: expiring earlier is the exception.
Quiet == \A x \in Peers : closed[x] \/ (net[x] = {} /\ ~awake[x] /\ job[x] = Free)

\* T3-rtx runs while the message is outstanding.
Running(x, timer) == IF timer = "T2Shutdown" THEN t2[x] ELSE data[x] = "inflight"

BeginTimeout(x, timer) ==
    /\ CanBegin(x)
    /\ Running(x, timer)
    /\ \/ Quiet /\ spurious' = spurious
       \/ ~Quiet /\ orderly /\ spurious < MaxSpurious /\ spurious' = spurious + 1
    /\ Take(x, timer)
    /\ UNCHANGED <<state, will_send_shutdown, flag_vars, data_vars, t2, awake, closed, app, net,
                   env_vars, losses, dups>>

-----------------------------------------------------------------------------
(* The handlers, with s the state they read when they began.               *)

Wake(x) == awake' = Set(awake, x, TRUE)
Release(x) == job' = Set(job, x, Free)

\* close(): nothing more is sent or handled.
Close(x) == /\ closed' = Set(closed, x, TRUE)
            /\ state' = Set(state, x, "Closed")
            /\ t2' = Set(t2, x, FALSE)

HandleData(x) ==
    /\ received' = Set(received, x, TRUE)
    /\ ack_due' = Set(ack_due, x, TRUE)
    /\ Wake(x)
    /\ UNCHANGED <<state, will_send_shutdown, flag_vars, data, abandoned, resend,
                   will_send_forward_tsn, t2, closed, net>>

\* postprocess_sack, once nothing is outstanding.
NothingOutstanding(x, s) ==
    CASE s = "ShutdownPending" ->
           /\ will_send_shutdown' = Set(will_send_shutdown, x, TRUE)
           /\ state' = Set(state, x, "ShutdownSent")
           /\ UNCHANGED will_send_shutdown_ack
      [] s = "ShutdownReceived" ->
           /\ will_send_shutdown_ack' = Set(will_send_shutdown_ack, x, TRUE)
           /\ state' = Set(state, x, "ShutdownAckSent")
           /\ UNCHANGED will_send_shutdown
      [] OTHER -> UNCHANGED <<state, will_send_shutdown, will_send_shutdown_ack>>

\* handle_sack; every SACK covers the one message.
BugHandleSack(x, s) ==                         \* the mark for retransmission stays
    IF s \in SackStates
    THEN /\ data' = Set(data, x, "acked")
         /\ NothingOutstanding(x, s)
         /\ Wake(x)
         /\ UNCHANGED <<will_send_shutdown_complete, abandoned, resend, will_send_forward_tsn,
                        received, ack_due, t2, closed, net>>
    ELSE UNCHANGED <<state, will_send_shutdown, flag_vars, data_vars, t2, awake, closed, net>>
HandleSack(x, s) ==
    IF s \in SackStates
    THEN /\ data' = Set(data, x, "acked")
         /\ resend' = Set(resend, x, FALSE)
         /\ NothingOutstanding(x, s)
         /\ Wake(x)
         /\ UNCHANGED <<will_send_shutdown_complete, abandoned, will_send_forward_tsn,
                        received, ack_due, t2, closed, net>>
    ELSE UNCHANGED <<state, will_send_shutdown, flag_vars, data_vars, t2, awake, closed, net>>

\* handle_shutdown: the acknowledgement waits for what is outstanding.
BugHandleShutdownEarly(x, s) ==                \* the flag is set all the same
    /\ IF s \in {"Established", "ShutdownSent"}
       THEN /\ will_send_shutdown_ack' = Set(will_send_shutdown_ack, x, TRUE)
            /\ state' = Set(state, x, IF s = "Established" /\ data[x] = "inflight"
                                      THEN "ShutdownReceived" ELSE "ShutdownAckSent")
            /\ Wake(x)
       ELSE UNCHANGED <<state, will_send_shutdown_ack, awake>>
    /\ UNCHANGED <<will_send_shutdown, will_send_shutdown_complete, data_vars, t2, closed, net>>
BugHandleShutdownNow(x, s) ==                  \* nobody asks what is outstanding
    /\ IF s \in {"Established", "ShutdownSent"}
       THEN /\ will_send_shutdown_ack' = Set(will_send_shutdown_ack, x, TRUE)
            /\ state' = Set(state, x, "ShutdownAckSent")
            /\ Wake(x)
       ELSE UNCHANGED <<state, will_send_shutdown_ack, awake>>
    /\ UNCHANGED <<will_send_shutdown, will_send_shutdown_complete, data_vars, t2, closed, net>>
HandleShutdown(x, s) ==
    /\ CASE s = "Established" /\ data[x] = "inflight" ->
              /\ state' = Set(state, x, "ShutdownReceived")
              /\ UNCHANGED <<will_send_shutdown_ack, awake>>
         [] s = "ShutdownSent" \/ (s = "Established" /\ data[x] # "inflight") ->
              /\ will_send_shutdown_ack' = Set(will_send_shutdown_ack, x, TRUE)
              /\ state' = Set(state, x, "ShutdownAckSent")
              /\ Wake(x)
         [] OTHER -> UNCHANGED <<state, will_send_shutdown_ack, awake>>
    /\ UNCHANGED <<will_send_shutdown, will_send_shutdown_complete, data_vars, t2, closed, net>>

HandleShutdownAck(x, s) ==
    IF s \in {"ShutdownSent", "ShutdownAckSent"}
    THEN /\ t2' = Set(t2, x, FALSE)
         /\ will_send_shutdown_complete' = Set(will_send_shutdown_complete, x, TRUE)
         /\ Wake(x)
         /\ UNCHANGED <<state, will_send_shutdown, will_send_shutdown_ack, data_vars, closed, net>>
    ELSE UNCHANGED <<state, will_send_shutdown, flag_vars, data_vars, t2, awake, closed, net>>

HandleShutdownComplete(x, s) ==
    /\ IF s = "ShutdownAckSent" THEN Close(x) ELSE UNCHANGED <<state, closed, t2>>
    /\ UNCHANGED <<will_send_shutdown, flag_vars, data_vars, awake, net>>

\* on_retransmission_timeout for T2.
T2Timeout(x, s) ==
    /\ will_send_shutdown' = Set(will_send_shutdown, x, will_send_shutdown[x] \/ s = "ShutdownSent")
    /\ will_send_shutdown_ack' =
          Set(will_send_shutdown_ack, x, will_send_shutdown_ack[x] \/ s = "ShutdownAckSent")
    /\ awake' = Set(awake, x, awake[x] \/ s \in {"ShutdownSent", "ShutdownAckSent"})
    /\ UNCHANGED <<state, will_send_shutdown_complete, data_vars, t2, closed, net>>

\* on_retransmission_timeout for T3: an abandoned message is not marked, and
\* the advanced ack point that passes it asks for a FORWARD TSN.
T3Timeout(x) ==
    /\ resend' = Set(resend, x, resend[x] \/ ~abandoned[x])
    /\ will_send_forward_tsn' = Set(will_send_forward_tsn, x, will_send_forward_tsn[x] \/ abandoned[x])
    /\ Wake(x)
    /\ UNCHANGED <<state, will_send_shutdown, flag_vars, data, abandoned, received, ack_due,
                   t2, closed, net>>

-----------------------------------------------------------------------------
(* gather_outbound                                                         *)

\* gather_outbound_shutdown_packets sends one packet, in this order.
ShutdownPacket(x) ==
    CASE will_send_shutdown[x] -> {"SHUTDOWN"}
      [] ~will_send_shutdown[x] /\ will_send_shutdown_ack[x] -> {"SHUTDOWN_ACK"}
      [] ~will_send_shutdown[x] /\ ~will_send_shutdown_ack[x] /\ will_send_shutdown_complete[x] ->
            {"SHUTDOWN_COMPLETE"}
      [] OTHER -> {}

\* T2 starts with a packet that wants an answer; the last one closes.
BugGatherShutdown(x, out) ==                   \* T2 is left off
    /\ will_send_shutdown' = Set(will_send_shutdown, x, FALSE)
    /\ will_send_shutdown_ack' = Set(will_send_shutdown_ack, x,
          will_send_shutdown_ack[x] /\ out # {"SHUTDOWN_ACK"})
    /\ will_send_shutdown_complete' = Set(will_send_shutdown_complete, x,
          will_send_shutdown_complete[x] /\ out # {"SHUTDOWN_COMPLETE"})
    /\ IF out = {"SHUTDOWN_COMPLETE"} THEN Close(x) ELSE UNCHANGED <<state, closed, t2>>
GatherShutdown(x, out) ==
    /\ will_send_shutdown' = Set(will_send_shutdown, x, FALSE)
    /\ will_send_shutdown_ack' = Set(will_send_shutdown_ack, x,
          will_send_shutdown_ack[x] /\ out # {"SHUTDOWN_ACK"})
    /\ will_send_shutdown_complete' = Set(will_send_shutdown_complete, x,
          will_send_shutdown_complete[x] /\ out # {"SHUTDOWN_COMPLETE"})
    /\ IF out = {"SHUTDOWN_COMPLETE"}
       THEN Close(x)
       ELSE /\ t2' = Set(t2, x, t2[x] \/ out # {})
            /\ UNCHANGED <<state, closed>>

\* The message is sent the first time only in Established, again in any state
\* but the last; each time the stream may give it up.
Gather(x, s) ==
    LET open  == s = "Established"
        sends == open \/ s \in ShuttingDown
        fresh == open /\ data[x] = "pending"
        again == sends /\ resend[x]
        fwd   == open /\ will_send_forward_tsn[x] /\ abandoned[x] /\ data[x] = "inflight"
        out   == IF s \in ShuttingDown \cup {"ShutdownAckSent"} THEN ShutdownPacket(x) ELSE {}
    IN  /\ data' = Set(data, x, IF fresh THEN "inflight" ELSE data[x])
        /\ resend' = Set(resend, x, resend[x] /\ ~again)
        /\ \E lost \in IF (fresh \/ again) /\ ~reliable THEN BOOLEAN ELSE {FALSE} :
               abandoned' = Set(abandoned, x, abandoned[x] \/ lost)
        /\ will_send_forward_tsn' = Set(will_send_forward_tsn, x, will_send_forward_tsn[x] /\ ~open)
        /\ ack_due' = Set(ack_due, x, ack_due[x] /\ ~sends)
        /\ net' = Set(net, Other(x), IF closed[Other(x)] THEN {} ELSE net[Other(x)]
                      \cup (IF fresh \/ again THEN {"DATA"} ELSE {})
                      \cup (IF sends /\ ack_due[x] THEN {"SACK"} ELSE {})
                      \cup (IF fwd THEN {"FORWARD_TSN"} ELSE {})
                      \cup out)
        /\ IF s \in ShuttingDown \cup {"ShutdownAckSent"}
           THEN GatherShutdown(x, out)
           ELSE UNCHANGED <<state, will_send_shutdown, flag_vars, t2, closed>>
        /\ UNCHANGED <<received, awake>>

Finish(x) ==
    LET s == job[x].state IN
    /\ job[x] # Free
    /\ Release(x)
    /\ CASE job[x].does \in {"DATA", "FORWARD_TSN"} -> HandleData(x)
         [] job[x].does = "SACK" -> HandleSack(x, s)
         [] job[x].does = "SHUTDOWN" -> HandleShutdown(x, s)
         [] job[x].does = "SHUTDOWN_ACK" -> HandleShutdownAck(x, s)
         [] job[x].does = "SHUTDOWN_COMPLETE" -> HandleShutdownComplete(x, s)
         [] job[x].does = "T2Shutdown" -> T2Timeout(x, s)
         [] job[x].does = "T3RTX" -> T3Timeout(x)
         [] job[x].does = "gather" -> Gather(x, s)
    /\ UNCHANGED <<app, env_vars, losses, dups, spurious>>

Lose(x) ==
    /\ losses < MaxLoss
    /\ losses' = losses + 1
    /\ \E p \in net[x] : /\ orderly => p # "SHUTDOWN_COMPLETE"
                         /\ net' = Set(net, x, net[x] \ {p})
    /\ UNCHANGED <<state, will_send_shutdown, flag_vars, data_vars, t2, awake, closed, job, app,
                   env_vars, dups, spurious>>

Next == \E x \in Peers :
    \/ Write(x) \/ AppCall(x) \/ AppStep(x)
    \/ \E p \in Packets : BeginRecv(x, p)
    \/ \E timer \in Timers : BeginTimeout(x, timer)
    \/ BeginGather(x) \/ Finish(x) \/ Lose(x)

\* Every task the runtime can run is polled; a call of shutdown(), once made,
\* goes on, and packets that are not lost arrive.  A timer that keeps running
\* expires, however often other packets make its answer seem under way.
Fairness == \A x \in Peers :
    /\ WF_vars(AppStep(x)) /\ WF_vars(Finish(x))
    /\ WF_vars(BeginGather(x))
    /\ \A timer \in Timers : SF_vars(BeginTimeout(x, timer))
    /\ \A p \in Packets : WF_vars(BeginRecv(x, p))

Spec == Init /\ [][Next]_vars
FairSpec == Spec /\ Fairness

-----------------------------------------------------------------------------
(* Properties.                                                             *)

States == {"Closed", "Established", "ShutdownAckSent"} \cup ShuttingDown
Jobs == {"nothing", "gather"} \cup Timers \cup Packets

\* Every variable has its type; only an outstanding message is marked to be
\* sent again, and an acknowledged one did arrive or was given up.
TypeOK ==
    /\ state \in [Peers -> States]
    /\ data \in [Peers -> {"none", "pending", "inflight", "acked"}]
    /\ job \in [Peers -> [does : Jobs, state : States]]
    /\ app \in [Peers -> {"idle", "loaded", "pending", "flagged", "woken", "waiting", "returned"}]
    /\ net \in [Peers -> SUBSET Packets]
    /\ \A x \in Peers :
         /\ t2[x] \in BOOLEAN /\ awake[x] \in BOOLEAN /\ closed[x] \in BOOLEAN
         /\ resend[x] => data[x] = "inflight"
         /\ data[x] = "acked" => received[Other(x)]

\* No side closes under one that still works: when one is closed the other has
\* at least stopped taking messages, whatever shutdown() did to its state.
CloseIsAgreed ==
    \A x \in Peers : closed[x] => state[Other(x)] \notin {"Established", "ShutdownReceived"}

\* A shutdown that meets no running handler is graceful for what is
\* outstanding: neither side closes before its message was acknowledged.
GracefulForOutstanding ==
    orderly => \A x \in Peers : closed[x] => data[x] # "inflight"

\* Such a shutdown, with every message reliable, brings both sides down and
\* returns, also when both call it and when packets but the last are lost.
ShutdownCompletes ==
    (orderly /\ reliable /\ \E x \in Peers : app[x] # "idle") ~>
        (\A x \in Peers : closed[x] /\ app[x] \in {"idle", "returned"})

\* Association::shutdown: "The method blocks until the shutdown sequence is
\* completed and the connection is closed".
ShutdownReturns ==
    \A x \in Peers : (orderly /\ app[x] # "idle") ~> app[x] = "returned"
=============================================================================
