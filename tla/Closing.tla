------------------------------- MODULE Closing -------------------------------
(***************************************************************************)
(* The tasks of one association and how they end: Association::new with    *)
(* its two loops, server() and client(), close(), shutdown(), the tasks of *)
(* the retransmission timers and a task in read_sctp, while the transport  *)
(* may break at any time.                                                  *)
(*                                                                         *)
(* The peer is the packets it may send; what they carry, and what DATA is   *)
(* outstanding (T3-rtx with it), is left to Handshake, DataTransfer and    *)
(* Shutdown.  CookieWait stands for CookieEchoed too, and T1 for both T1    *)
(* timers.  Handlers, gathers, timer callbacks and                         *)
(* AssociationInternal::close hold the mutex: one step each.               *)
(***************************************************************************)
EXTENDS Naturals, TLAPS

CONSTANTS
    MaxPackets,     \* bound: packets that the peer sends after the handshake
    MaxRetrans      \* MAX_INIT_RETRANS

ASSUME ClosingAssumption == MaxPackets \in Nat /\ MaxRetrans \in Nat

VARIABLES
    is_client,
    started,        \* the last block of Association::new was run
    state,          \* the atomic AssociationState
    close_loop_ch,  \* close_loop_ch_tx was not dropped yet
    conn,           \* the transport works
    read_loop, write_loop,      \* where the two tasks are
    awake,          \* token in awake_write_loop_ch
    control,        \* control_queue is not empty
    will_send,      \* the will_send_shutdown... flags that are set
    timers,         \* timers that run
    fired,          \* timers whose task waits for the mutex
    n_rtos,         \* expiries of T1
    entry,          \* streams[si]: none, the first stream, or one created late,
                    \* after a close
    opened,         \* history: a stream was registered
    read_shutdown,  \* of the first stream
    reader,         \* the task in read_sctp of the first stream
    caller,         \* client() or server()
    app,            \* how far a call of shutdown() has come
    closer,         \* how far a call of close() has come
    packets         \* packets received since the handshake was complete

loop_vars   == <<read_loop, write_loop>>
work_vars   == <<awake, control, will_send>>
timer_vars  == <<timers, fired, n_rtos>>
stream_vars == <<entry, opened, read_shutdown, reader>>
app_vars    == <<caller, app, closer>>
vars == <<is_client, started, state, close_loop_ch, conn, loop_vars, work_vars, timer_vars,
          stream_vars, app_vars, packets>>

ShuttingDown == {"ShutdownPending", "ShutdownSent", "ShutdownReceived"}
Packets == {"COOKIE_ECHO", "COOKIE_ACK", "DATA", "SACK", "SHUTDOWN", "SHUTDOWN_ACK",
            "SHUTDOWN_COMPLETE", "INIT"}

\* AssociationInternal::new: Closed, and both loops are spawned.
Init ==
    /\ is_client \in BOOLEAN
    /\ started = ~is_client
    /\ state = "Closed" /\ close_loop_ch = TRUE /\ conn = TRUE
    /\ read_loop = "select" /\ write_loop = "gather"
    /\ awake = FALSE /\ control = FALSE /\ will_send = {}
    /\ timers = {} /\ fired = {} /\ n_rtos = 0
    /\ entry = "none" /\ opened = FALSE /\ read_shutdown = FALSE /\ reader = "outside"
    /\ caller = "waiting" /\ app = "idle" /\ closer = "idle"
    /\ packets = 0

\* Association::new of a client, after the loops were spawned.
StartClient ==
    /\ ~started
    /\ started' = TRUE
    /\ state' = "CookieWait"
    /\ control' = TRUE /\ awake' = TRUE
    /\ timers' = timers \cup {"T1"}
    /\ UNCHANGED <<is_client, close_loop_ch, conn, loop_vars, will_send, fired, n_rtos,
                   stream_vars, app_vars, packets>>

-----------------------------------------------------------------------------
(* close                                                                   *)

\* unregister_stream of every stream: notify_waiters wakes a reader that waits.
UnregisterAll ==
    /\ entry' = "none"
    /\ IF entry = "first"
       THEN /\ read_shutdown' = TRUE
            /\ reader' = IF reader = "waiting" THEN "called" ELSE reader
       ELSE UNCHANGED <<read_shutdown, reader>>
    /\ UNCHANGED opened

\* AssociationInternal::close, which does nothing in Closed.
BugClose ==                         \* the loops are not told
    IF state # "Closed"
    THEN /\ state' = "Closed" /\ timers' = {} /\ UnregisterAll
         /\ UNCHANGED close_loop_ch
    ELSE UNCHANGED <<state, timers, close_loop_ch, stream_vars>>
Close ==
    IF state # "Closed"
    THEN /\ state' = "Closed" /\ timers' = {} /\ UnregisterAll
         /\ close_loop_ch' = FALSE
    ELSE UNCHANGED <<state, timers, close_loop_ch, stream_vars>>

BreakConn ==
    /\ conn
    /\ conn' = FALSE
    /\ UNCHANGED <<is_client, started, state, close_loop_ch, loop_vars, work_vars, timer_vars,
                   stream_vars, app_vars, packets>>

\* Association::close: the transport first, then the mutex.
CallClose ==
    /\ caller = "Ok" /\ closer = "idle"
    /\ closer' = "locking" /\ conn' = FALSE
    /\ UNCHANGED <<is_client, started, state, close_loop_ch, loop_vars, work_vars, timer_vars,
                   stream_vars, caller, app, packets>>

FinishClose ==
    /\ closer = "locking"
    /\ closer' = "returned"
    /\ Close
    /\ UNCHANGED <<is_client, started, conn, loop_vars, work_vars, fired, n_rtos, caller, app,
                   packets>>

-----------------------------------------------------------------------------
(* shutdown(), one access to an atomic at a time (see Shutdown).           *)

CallShutdown ==
    /\ app = "idle" /\ caller = "Ok" /\ state = "Established"
    /\ app' = "loaded" /\ UNCHANGED <<state, will_send, awake>>
SetPending ==
    /\ app = "loaded"
    /\ app' = "pending" /\ state' = "ShutdownPending" /\ UNCHANGED <<will_send, awake>>
LookOutstanding ==
    /\ app = "pending"
    /\ \/ app' = "waiting" /\ UNCHANGED <<will_send, awake>>        \* chunks are outstanding
       \/ app' = "asked" /\ will_send' = will_send \cup {"SHUTDOWN"} /\ awake' = TRUE
    /\ UNCHANGED state
SetSent ==
    /\ app = "asked"
    /\ app' = "waiting" /\ state' = "ShutdownSent" /\ UNCHANGED <<will_send, awake>>
Return ==
    /\ app = "waiting" /\ ~close_loop_ch
    /\ app' = "returned" /\ UNCHANGED <<state, will_send, awake>>

AppFrame == UNCHANGED <<is_client, started, close_loop_ch, conn, loop_vars, control,
                        timer_vars, stream_vars, caller, closer, packets>>
AppStep == (SetPending \/ LookOutstanding \/ SetSent \/ Return) /\ AppFrame
AppCall == CallShutdown /\ AppFrame

\* read_sctp, for which no message ever comes.
ReadStep ==
    /\ \/ reader = "called" /\ reader' = IF read_shutdown THEN "eof" ELSE "looked"
       \/ reader = "looked" /\ reader' = "waiting"
    /\ UNCHANGED <<is_client, started, state, close_loop_ch, conn, loop_vars, work_vars,
                   timer_vars, entry, opened, read_shutdown, app_vars, packets>>

-----------------------------------------------------------------------------
(* The read loop                                                           *)

Settle(result) == caller' = IF caller = "waiting" THEN result ELSE caller

\* The handshake is complete.  What T1 has stored is dropped with it, so that a
\* callback of T1 that is late has nothing to send.  Its failure still puts an error
\* into the channel, but behind the Ok, which is all that the caller reads; one that
\* comes between INIT ACK and COOKIE ACK is in Handshake (LateExpiry).
Complete ==
    /\ state' = "Established" /\ Settle("Ok")
    /\ timers' = timers \ {"T1"} /\ fired' = fired \ {"T1"} /\ n_rtos' = 0
    /\ UNCHANGED <<close_loop_ch, will_send, stream_vars>>
Ask(flag, s) ==
    /\ will_send' = will_send \cup {flag} /\ awake' = TRUE /\ state' = s
    /\ UNCHANGED <<close_loop_ch, control, stream_vars, caller>>

\* get_or_create_stream: the stream is offered to accept_stream.
Register ==
    /\ entry' = CASE entry # "none" -> entry
                  [] entry = "none" /\ ~opened /\ close_loop_ch -> "first"
                  [] OTHER -> "late"
    /\ opened' = TRUE
    /\ reader' = IF entry' = "first" /\ ~opened THEN "called" ELSE reader
    /\ UNCHANGED <<state, close_loop_ch, control, will_send, timers, read_shutdown, caller, awake>>

\* What the packet p does in this state, if it does anything.
HandleLater(p) ==
    \/ /\ p = "DATA" /\ (caller = "Ok" \/ state = "CookieWait")
       /\ Register
    \/ /\ p = "SACK" /\ state = "ShutdownPending"             \* of all that was outstanding
       /\ Ask("SHUTDOWN", "ShutdownSent") /\ UNCHANGED timers
    \/ /\ p = "SACK" /\ state = "ShutdownReceived"
       /\ Ask("SHUTDOWN_ACK", "ShutdownAckSent") /\ UNCHANGED timers
    \/ /\ p = "SHUTDOWN" /\ state = "Established"             \* chunks are outstanding
       /\ state' = "ShutdownReceived"
       /\ UNCHANGED <<close_loop_ch, work_vars, timers, stream_vars, caller>>
    \/ /\ p = "SHUTDOWN" /\ state \in {"Established", "ShutdownSent"}
       /\ Ask("SHUTDOWN_ACK", "ShutdownAckSent") /\ UNCHANGED timers
    \/ /\ p = "SHUTDOWN_ACK" /\ state \in {"ShutdownSent", "ShutdownAckSent"}
       /\ Ask("SHUTDOWN_COMPLETE", state) /\ timers' = timers \ {"T2"}
    \/ /\ p = "SHUTDOWN_COMPLETE" /\ state = "ShutdownAckSent"
       /\ Close /\ UNCHANGED <<control, will_send, awake, caller>>

Handle(p) ==
    \/ /\ p = "COOKIE_ECHO" /\ ~is_client /\ state = "Closed"
       /\ Complete /\ control' = TRUE /\ awake' = TRUE
    \/ /\ p = "COOKIE_ACK" /\ state = "CookieWait"
       /\ Complete /\ UNCHANGED <<control, awake>>
    \/ HandleLater(p) /\ UNCHANGED <<fired, n_rtos>>

\* An error of a handler, here of a repeated INIT, ends the loop.
BadPacket(p) == p = "INIT" /\ state \notin {"Closed", "CookieWait"}

Recv(p) ==
    /\ read_loop = "select" /\ conn
    /\ IF caller = "waiting" THEN UNCHANGED packets
       ELSE packets < MaxPackets /\ packets' = packets + 1
    /\ \/ Handle(p) /\ UNCHANGED read_loop
       \/ /\ BadPacket(p) /\ read_loop' = "done"
          /\ UNCHANGED <<state, close_loop_ch, awake, control, will_send, timer_vars, stream_vars,
                         caller>>
    /\ UNCHANGED <<is_client, started, conn, write_loop, app, closer>>

\* The channel was closed, or recv failed; select! takes any branch that is ready.
ReadLoopLeaves ==
    /\ read_loop = "select" /\ (~close_loop_ch \/ ~conn)
    /\ read_loop' = "done"
    /\ UNCHANGED <<is_client, started, state, close_loop_ch, conn, write_loop, work_vars,
                   timer_vars, stream_vars, app_vars, packets>>

ReadLoopEnds ==
    /\ read_loop = "done"
    /\ read_loop' = "ended"
    /\ Close
    /\ UNCHANGED <<is_client, started, conn, write_loop, work_vars, fired, n_rtos, app_vars,
                   packets>>

-----------------------------------------------------------------------------
(* The write loop                                                          *)

\* gather_outbound_shutdown_packets takes the first flag that is set.
FirstFlag ==
    CHOOSE f \in will_send : \/ f = "SHUTDOWN"
                             \/ f = "SHUTDOWN_ACK" /\ "SHUTDOWN" \notin will_send
                             \/ will_send = {"SHUTDOWN_COMPLETE"}

Gather ==
    LET flags == state \in ShuttingDown \cup {"ShutdownAckSent"} /\ will_send # {}
        last  == flags /\ FirstFlag = "SHUTDOWN_COMPLETE"
    IN  /\ write_loop = "gather"
        /\ control' = FALSE
        /\ will_send' = IF flags THEN will_send \ {FirstFlag} ELSE will_send
        /\ timers' = timers \cup (IF flags /\ ~last THEN {"T2"} ELSE {})
        /\ write_loop' = CASE last -> "send last"
                          [] ~last /\ (control \/ flags) -> "send"
                          [] OTHER -> "wait"
        /\ UNCHANGED <<is_client, started, state, close_loop_ch, conn, read_loop, awake, fired,
                       n_rtos, stream_vars, app_vars, packets>>

LoopFrame == UNCHANGED <<is_client, started, state, close_loop_ch, conn, read_loop, control,
                         will_send, timer_vars, stream_vars, app_vars, packets>>

Send ==
    /\ write_loop \in {"send", "send last"}
    /\ write_loop' = IF conn /\ write_loop = "send" THEN "wait" ELSE "done"
    /\ UNCHANGED awake /\ LoopFrame

\* select! over the two channels.
WriteLoopGoesOn ==
    /\ write_loop = "wait" /\ awake
    /\ awake' = FALSE /\ write_loop' = "gather"
    /\ LoopFrame

WriteLoopLeaves ==
    /\ write_loop = "wait" /\ ~close_loop_ch
    /\ write_loop' = "done" /\ UNCHANGED awake
    /\ LoopFrame

BugWriteLoopEnds ==                 \* leaves the closing to the read loop
    /\ write_loop = "done"
    /\ write_loop' = "ended"
    /\ IF close_loop_ch THEN Close ELSE UNCHANGED <<state, timers, close_loop_ch, stream_vars>>
    /\ UNCHANGED <<is_client, started, conn, read_loop, work_vars, fired, n_rtos, app_vars,
                   packets>>
WriteLoopEnds ==
    /\ write_loop = "done"
    /\ write_loop' = "ended"
    /\ Close
    /\ UNCHANGED <<is_client, started, conn, read_loop, work_vars, fired, n_rtos, app_vars,
                   packets>>

-----------------------------------------------------------------------------
(* The tasks of the timers                                                 *)

Fire(t) ==
    /\ t \in timers \ fired
    /\ fired' = fired \cup {t}
    /\ UNCHANGED <<is_client, started, state, close_loop_ch, conn, loop_vars, work_vars, timers,
                   n_rtos, stream_vars, app_vars, packets>>

\* The callback runs even if the timer was stopped while its task waited; T1
\* gives up after MaxRetrans of them.
Callback(t) ==
    /\ t \in fired
    /\ fired' = fired \ {t}
    /\ CASE t = "T1" ->
              /\ n_rtos' = IF n_rtos < MaxRetrans THEN n_rtos + 1 ELSE n_rtos
              /\ IF n_rtos < MaxRetrans
                 THEN /\ control' = (control \/ caller = "waiting")
                      /\ awake' = (awake \/ caller = "waiting")
                      /\ UNCHANGED <<timers, caller>>
                 ELSE Settle("Err") /\ timers' = timers \ {t} /\ UNCHANGED <<control, awake>>
              /\ UNCHANGED will_send
         [] t = "T2" ->
              /\ will_send' = will_send \cup (CASE state = "ShutdownSent" -> {"SHUTDOWN"}
                                                [] state = "ShutdownAckSent" -> {"SHUTDOWN_ACK"}
                                                [] OTHER -> {})
              /\ awake' = (awake \/ state \in {"ShutdownSent", "ShutdownAckSent"})
              /\ UNCHANGED <<control, timers, n_rtos, caller>>
    /\ UNCHANGED <<is_client, started, state, close_loop_ch, conn, loop_vars,
                   stream_vars, app, closer, packets>>

Timers == {"T1", "T2"}

Next ==
    \/ StartClient \/ BreakConn \/ CallClose \/ FinishClose
    \/ AppCall \/ AppStep \/ ReadStep
    \/ \E p \in Packets : Recv(p)
    \/ ReadLoopLeaves \/ ReadLoopEnds
    \/ Gather \/ Send \/ WriteLoopGoesOn \/ WriteLoopLeaves \/ WriteLoopEnds
    \/ \E t \in Timers : Fire(t) \/ Callback(t)

\* Each task that can go on is polled, and select! takes a ready branch at random,
\* so that the closed channel is seen although a timer keeps waking the loop.  Nobody
\* has to send, close or break anything.
Fairness ==
    /\ WF_vars(StartClient) /\ WF_vars(FinishClose) /\ WF_vars(AppStep) /\ WF_vars(ReadStep)
    /\ WF_vars(ReadLoopLeaves) /\ WF_vars(ReadLoopEnds)
    /\ WF_vars(Gather) /\ WF_vars(Send) /\ WF_vars(WriteLoopGoesOn) /\ WF_vars(WriteLoopEnds)
    /\ SF_vars(WriteLoopLeaves)
    /\ \A t \in Timers : WF_vars(Fire(t)) /\ WF_vars(Callback(t))

Spec == Init /\ [][Next]_vars
FairSpec == Spec /\ Fairness

-----------------------------------------------------------------------------
LoopsEnded == read_loop = "ended" /\ write_loop = "ended"

\* When both loops are gone no timer runs that they would have to serve: not even
\* T2 started by a gather after the close, in a state that a late shutdown() wrote
\* over Closed.  (Each loop closes once more when it ends.)
NothingRunsOn == LoopsEnded => timers = {}

\* Once the transport of an association that is not Closed is broken, whether by
\* close() or not, or a handler failed, both loops end, and shutdown() and a reader
\* that waits return.  (The caller of client() or server() may not.)
Ending == ~conn \/ read_loop = "done"
WaitersReleased ==
    /\ (Ending /\ state # "Closed") ~> (LoopsEnded /\ app # "waiting")
    /\ (Ending /\ state # "Closed" /\ entry = "first" /\ reader = "waiting") ~> reader = "eof"

-----------------------------------------------------------------------------
(* Proofs, for every number of packets and of expiries.                     *)

\* AssociationInternal::close stops every timer, and a timer starts in no
\* association that is Closed: not by a gather, and not by a late shutdown(),
\* which leaves that state first.
ClosedIsQuiet == state = "Closed" => timers = {}

\* Before the last block of Association::new has run nobody has anything to send,
\* so that the write loop cannot have ended.
NotStarted ==
    ~started => /\ state = "Closed" /\ close_loop_ch /\ caller = "waiting" /\ app = "idle"
                /\ is_client /\ timers = {} /\ fired = {}
                /\ ~control /\ write_loop \in {"gather", "wait"}

IInv == ClosedIsQuiet /\ NotStarted /\ NothingRunsOn

LEMMA InitInv == Init => IInv
  BY DEF Init, IInv, ClosedIsQuiet, NotStarted, NothingRunsOn, LoopsEnded

\* close() only ever empties timers.
LEMMA CloseQuiets ==
    ASSUME IInv, Close
    PROVE  /\ ClosedIsQuiet' /\ timers' \in {timers, {}}
           /\ timers' = {}
  BY DEF Close, IInv, ClosedIsQuiet, UnregisterAll

\* A gather starts T2 only in a shutdown, whose state is not Closed, and before the
\* write loop has ended.
LEMMA GatherInv == ASSUME IInv, Gather PROVE IInv'
<1>1. ClosedIsQuiet'
  BY DEF Gather, IInv, ClosedIsQuiet, ShuttingDown
<1>2. NotStarted'
  BY DEF Gather, IInv, NotStarted, ShuttingDown, app_vars
<1>3. NothingRunsOn'
  BY DEF Gather, NothingRunsOn, LoopsEnded
<1> QED BY <1>1, <1>2, <1>3 DEF IInv

\* The steps that end a loop close the association.
LEMMA LoopEndsInv == ASSUME IInv, ReadLoopEnds \/ WriteLoopEnds PROVE IInv'
<1>1. Close
  BY DEF ReadLoopEnds, WriteLoopEnds
<1>2. ClosedIsQuiet' /\ timers' = {}
  BY <1>1, CloseQuiets
<1>3. NotStarted'
  BY <1>1 DEF IInv, NotStarted, Close, ReadLoopEnds, WriteLoopEnds, app_vars, work_vars
<1> QED BY <1>2, <1>3 DEF IInv, NothingRunsOn

LEMMA RecvInv == ASSUME IInv, NEW p \in Packets, Recv(p) PROVE IInv'
<1>1. CASE Handle(p)
  <2>1. CASE Complete
    <3>1. started
      BY <1>1, <2>1 DEF Handle, HandleLater, Complete, IInv, NotStarted
    <3> QED
      BY <2>1, <3>1 DEF Complete, Recv, IInv, ClosedIsQuiet, NotStarted, NothingRunsOn, LoopsEnded
  <2>2. CASE HandleLater(p)
    <3>1. CASE p = "SHUTDOWN_COMPLETE" /\ state = "ShutdownAckSent" /\ Close
      BY <3>1, CloseQuiets DEF Recv, IInv, ClosedIsQuiet, NotStarted, NothingRunsOn, LoopsEnded
    <3>2. CASE ~(p = "SHUTDOWN_COMPLETE" /\ state = "ShutdownAckSent" /\ Close)
      BY <2>2, <3>2 DEF HandleLater, Ask, Register, Recv, IInv, ClosedIsQuiet, NotStarted,
                       NothingRunsOn, LoopsEnded
    <3> QED BY <3>1, <3>2
  <2> QED BY <1>1, <2>1, <2>2 DEF Handle
<1>2. CASE ~Handle(p)
  BY <1>2 DEF Recv, BadPacket, IInv, ClosedIsQuiet, NotStarted, NothingRunsOn, LoopsEnded,
              timer_vars
<1> QED BY <1>1, <1>2

LEMMA CallbackInv == ASSUME IInv, NEW t \in Timers, Callback(t) PROVE IInv'
  BY DEF Callback, Timers, Settle, IInv, ClosedIsQuiet, NotStarted, NothingRunsOn, LoopsEnded,
         loop_vars

LEMMA NextInv == ASSUME IInv, [Next]_vars PROVE IInv'
<1> USE DEF IInv, ClosedIsQuiet, NotStarted, NothingRunsOn, LoopsEnded
<1>1. CASE StartClient
  BY <1>1 DEF StartClient, loop_vars, app_vars
<1>2. CASE BreakConn \/ CallClose \/ ReadStep
  BY <1>2 DEF BreakConn, CallClose, ReadStep, loop_vars, work_vars, timer_vars, app_vars
<1>3. CASE FinishClose
  BY <1>3, CloseQuiets DEF FinishClose, loop_vars, work_vars, Close
<1>4. CASE AppCall \/ AppStep
  BY <1>4 DEF AppCall, AppStep, AppFrame, CallShutdown, SetPending, LookOutstanding, SetSent,
              Return, loop_vars, timer_vars
<1>5. CASE \E p \in Packets : Recv(p)
  BY <1>5, RecvInv
<1>6. CASE ReadLoopLeaves
  BY <1>6 DEF ReadLoopLeaves, timer_vars, work_vars, app_vars
<1>7. CASE ReadLoopEnds \/ WriteLoopEnds
  BY <1>7, LoopEndsInv
<1>8. CASE Gather
  BY <1>8, GatherInv
<1>9. CASE Send \/ WriteLoopGoesOn \/ WriteLoopLeaves
  <2>1. ClosedIsQuiet' /\ NothingRunsOn'
    BY <1>9 DEF Send, WriteLoopGoesOn, WriteLoopLeaves, LoopFrame, timer_vars
  <2>2. NotStarted'
    BY <1>9 DEF Send, WriteLoopGoesOn, WriteLoopLeaves, LoopFrame, timer_vars, app_vars
  <2> QED BY <2>1, <2>2
<1>10. CASE \E t \in Timers : Fire(t)
  BY <1>10 DEF Fire, loop_vars, work_vars, app_vars
<1>11. CASE \E t \in Timers : Callback(t)
  BY <1>11, CallbackInv
<1>12. CASE UNCHANGED vars
  BY <1>12 DEF vars, loop_vars, work_vars, timer_vars, app_vars
<1> QED
  BY <1>1, <1>2, <1>3, <1>4, <1>5, <1>6, <1>7, <1>8, <1>9, <1>10, <1>11, <1>12 DEF Next

\* However the association ends, no timer is left running behind its two loops.
THEOREM NoTimerSurvives == Spec => []NothingRunsOn
<1>1. Init => IInv
  BY InitInv
<1>2. IInv /\ [Next]_vars => IInv'
  BY NextInv
<1>3. IInv => NothingRunsOn
  BY DEF IInv
<1> QED BY <1>1, <1>2, <1>3, PTL DEF Spec
=============================================================================
