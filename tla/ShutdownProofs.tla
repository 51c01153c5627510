---------------------------- MODULE ShutdownProofs ----------------------------
(***************************************************************************)
(* Theorems about Shutdown, for any number of packets lost and repeated and *)
(* of early expiries, and for shutdown() calls that run between the halves  *)
(* of the handlers.                                                        *)
(***************************************************************************)
EXTENDS Shutdown, TLAPS

Working == {"Established", "ShutdownReceived"}

\* From here on y may be closed or be taken by its peer to agree: it has decided to
\* acknowledge a SHUTDOWN, or the peer has heard of that, or one of them is closed.
Agreed(y) ==
    \/ state[y] = "ShutdownAckSent" \/ will_send_shutdown_ack[y]
    \/ job[y] # Free /\ job[y].state = "ShutdownAckSent"
    \/ "SHUTDOWN_ACK" \in net[Other(y)] \/ job[Other(y)].does = "SHUTDOWN_ACK"
    \/ will_send_shutdown_complete[Other(y)]
    \/ closed[y] \/ closed[Other(y)]

Types ==
    /\ state \in [Peers -> States]
    /\ will_send_shutdown_ack \in [Peers -> BOOLEAN]
    /\ will_send_shutdown_complete \in [Peers -> BOOLEAN]
    /\ closed \in [Peers -> BOOLEAN]
    /\ job \in [Peers -> [does : Jobs, state : States]]
    /\ \A y \in Peers : job[y].does = "nothing" => job[y] = Free
    /\ net \in [Peers -> SUBSET Packets]

\* Neither y nor the handler that holds its mutex takes it for working any more, so
\* that the handler cannot write a working state over it.
AgreedForGood ==
    \A y \in Peers :
        Agreed(y) => state[y] \notin Working /\ (job[y] # Free => job[y].state \notin Working)

CompleteFromClosed ==
    \A y \in Peers :
        /\ "SHUTDOWN_COMPLETE" \in net[y] \/ job[y].does = "SHUTDOWN_COMPLETE" => closed[Other(y)]
        /\ closed[y] => job[y] = Free

IInv == Types /\ AgreedForGood /\ CompleteFromClosed

LEMMA OtherPeer ==
    \A x \in Peers : /\ Other(x) \in Peers /\ Other(x) # x /\ Other(Other(x)) = x
                     /\ \A y \in Peers : y = x \/ y = Other(x)
  BY ShutdownAssumption DEF Peers, Other

LEMMA InitInv == Init => IInv
<1> SUFFICES ASSUME Init PROVE IInv
  OBVIOUS
<1>1. Types
  BY DEF Init, Types, States, Jobs, Free, ShuttingDown
<1>2. \A y \in Peers : ~Agreed(y)
  BY OtherPeer DEF Init, Agreed, Free
<1>3. CompleteFromClosed
  BY OtherPeer DEF Init, CompleteFromClosed, Free
<1> QED BY <1>1, <1>2, <1>3 DEF IInv, AgreedForGood

-----------------------------------------------------------------------------
\* A step that only changes the state of x, and never to a working one.
LEMMA AppInv ==
    ASSUME IInv, NEW x \in Peers, AppStep(x) \/ AppCall(x)
    PROVE  IInv'
<1> USE OtherPeer
<1>1. PICK s \in {state[x], "ShutdownPending", "ShutdownSent"} : state' = [state EXCEPT ![x] = s]
  BY DEF AppStep, AppCall, CallShutdown, SetPending, LookOutstanding, WakeUp, SetSent, Return,
         Set, IInv, Types
<1>2. UNCHANGED <<flag_vars, closed, job, net>>
  BY DEF AppStep, AppCall
<1>3. Types'
  BY <1>1, <1>2 DEF IInv, Types, flag_vars, States, ShuttingDown
<1>4. \A y \in Peers : Agreed(y)' => Agreed(y)
  BY <1>1, <1>2 DEF IInv, Types, Agreed, flag_vars
<1>5. AgreedForGood'
  BY <1>1, <1>2, <1>4 DEF IInv, Types, AgreedForGood, Working
<1> QED BY <1>2, <1>3, <1>5 DEF IInv, CompleteFromClosed

\* Taking the mutex reads the state.
LEMMA BeginInv ==
    ASSUME IInv, NEW x \in Peers, NEW what \in Jobs \ {"nothing"}, CanBegin(x), Take(x, what),
           UNCHANGED <<state, flag_vars, closed>>,
           \/ UNCHANGED net
           \/ net' = Set(net, x, net[x] \ {what}),
           what \in Packets => what \in net[x]
    PROVE  IInv'
<1> USE OtherPeer
<1>1. /\ job' = [job EXCEPT ![x] = [does |-> what, state |-> state[x]]]
      /\ ~closed[x]
  BY DEF Take, Set, CanBegin
<1>2. net' \in [Peers -> SUBSET Packets] /\ \A y \in Peers : net'[y] \subseteq net[y]
  BY DEF Set, IInv, Types
<1>3. Types'
  BY <1>1, <1>2 DEF IInv, Types, flag_vars
<1>4. \A y \in Peers : Agreed(y)' => Agreed(y)
  BY <1>1, <1>2 DEF IInv, Types, Agreed, flag_vars, Packets
<1>5. AgreedForGood'
  BY <1>1, <1>4 DEF IInv, Types, AgreedForGood
<1>6. CompleteFromClosed'
  BY <1>1, <1>2 DEF IInv, Types, CompleteFromClosed, Packets
<1> QED BY <1>3, <1>5, <1>6 DEF IInv

-----------------------------------------------------------------------------
(* The second halves.  Each of these lemmas is about the handler of x that  *)
(* holds the mutex and read the state s.                                   *)

Finishing(x) == x \in Peers /\ job[x] # Free /\ Release(x)

\* Nothing is written that the other side or a later handler could read.
LEMMA IdleInv ==
    ASSUME IInv, NEW x, Finishing(x),
           UNCHANGED <<state, will_send_shutdown_ack, will_send_shutdown_complete, closed, net>>
    PROVE  IInv'
<1> USE OtherPeer
<1>1. job' = [job EXCEPT ![x] = Free] /\ Free \in [does : Jobs, state : States]
  BY DEF Finishing, Release, Set, Free, Jobs, States
<1>2. Types'
  BY <1>1 DEF IInv, Types
<1>3. \A y \in Peers : Agreed(y)' => Agreed(y)
  BY <1>1 DEF IInv, Types, Agreed, Finishing, Free
<1>4. AgreedForGood'
  BY <1>1, <1>3 DEF IInv, Types, AgreedForGood, Finishing
<1>5. CompleteFromClosed'
  BY <1>1 DEF IInv, Types, CompleteFromClosed, Finishing, Free
<1> QED BY <1>2, <1>4, <1>5 DEF IInv

\* A state that is not working is written, and with ShutdownAckSent the flag.
LEMMA MoveInv ==
    ASSUME IInv, NEW x, Finishing(x), NEW s \in States \ Working, NEW f \in BOOLEAN,
           state' = [state EXCEPT ![x] = s],
           will_send_shutdown_ack' = [will_send_shutdown_ack EXCEPT ![x] = f],
           UNCHANGED <<will_send_shutdown_complete, closed, net>>
    PROVE  IInv'
<1> USE OtherPeer
<1>1. job' = [job EXCEPT ![x] = Free] /\ Free \in [does : Jobs, state : States]
  BY DEF Finishing, Release, Set, Free, Jobs, States
<1>2. Types'
  BY <1>1 DEF IInv, Types, Finishing
<1>3. \A y \in Peers : y # x => (Agreed(y)' => Agreed(y))
  BY <1>1 DEF IInv, Types, Agreed, Finishing, Free
<1>4. AgreedForGood'
  BY <1>1, <1>3 DEF IInv, Types, AgreedForGood, Finishing
<1>5. CompleteFromClosed'
  BY <1>1 DEF IInv, Types, CompleteFromClosed, Finishing, Free
<1> QED BY <1>2, <1>4, <1>5 DEF IInv

LEMMA SackInv == ASSUME IInv, NEW x, Finishing(x), HandleSack(x, job[x].state) PROVE IInv'
<1> DEFINE s == job[x].state
<1>1. CASE s \in SackStates /\ s = "ShutdownPending"
  <2>1. /\ state' = [state EXCEPT ![x] = "ShutdownSent"]
        /\ will_send_shutdown_ack' =
             [will_send_shutdown_ack EXCEPT ![x] = will_send_shutdown_ack[x]]
        /\ UNCHANGED <<will_send_shutdown_complete, closed, net>>
    BY <1>1 DEF HandleSack, NothingOutstanding, Set, IInv, Types
  <2> QED BY <2>1, MoveInv DEF States, ShuttingDown, Working, IInv, Types, Finishing
<1>2. CASE s \in SackStates /\ s = "ShutdownReceived"
  <2>1. /\ state' = [state EXCEPT ![x] = "ShutdownAckSent"]
        /\ will_send_shutdown_ack' = [will_send_shutdown_ack EXCEPT ![x] = TRUE]
        /\ UNCHANGED <<will_send_shutdown_complete, closed, net>>
    BY <1>2 DEF HandleSack, NothingOutstanding, Set
  <2> QED BY <2>1, MoveInv DEF States, ShuttingDown, Working
<1>3. CASE ~(s \in SackStates /\ s \in {"ShutdownPending", "ShutdownReceived"})
  <2>1. UNCHANGED <<state, will_send_shutdown_ack, will_send_shutdown_complete, closed, net>>
    BY <1>3 DEF HandleSack, NothingOutstanding, flag_vars
  <2> QED BY <2>1, IdleInv
<1> QED BY <1>1, <1>2, <1>3

\* ShutdownReceived is a working state: what is outstanding keeps x from agreeing.
LEMMA ShutdownInv ==
    ASSUME IInv, NEW x, Finishing(x), HandleShutdown(x, job[x].state) PROVE IInv'
<1> DEFINE s == job[x].state
<1>1. CASE s = "Established" /\ data[x] = "inflight"
  <2> USE OtherPeer
  <2>1. /\ state' = [state EXCEPT ![x] = "ShutdownReceived"]
        /\ UNCHANGED <<will_send_shutdown_ack, will_send_shutdown_complete, closed, net>>
    BY <1>1 DEF HandleShutdown, Set
  <2>2. job' = [job EXCEPT ![x] = Free] /\ Free \in [does : Jobs, state : States]
    BY DEF Finishing, Release, Set, Free, Jobs, States
  <2>3. Types'
    BY <2>1, <2>2 DEF IInv, Types, Finishing, States, ShuttingDown
  <2>4. \A y \in Peers : Agreed(y)' => Agreed(y)
    BY <2>1, <2>2 DEF IInv, Types, Agreed, Finishing, Free
  <2>5. ~Agreed(x)
    BY <1>1 DEF IInv, AgreedForGood, Working, Finishing
  <2>6. AgreedForGood'
    BY <2>1, <2>2, <2>4, <2>5 DEF IInv, Types, AgreedForGood, Finishing
  <2>7. CompleteFromClosed'
    BY <2>1, <2>2 DEF IInv, Types, CompleteFromClosed, Finishing, Free
  <2> QED BY <2>3, <2>6, <2>7 DEF IInv
<1>2. CASE s = "ShutdownSent" \/ (s = "Established" /\ data[x] # "inflight")
  <2>1. /\ state' = [state EXCEPT ![x] = "ShutdownAckSent"]
        /\ will_send_shutdown_ack' = [will_send_shutdown_ack EXCEPT ![x] = TRUE]
        /\ UNCHANGED <<will_send_shutdown_complete, closed, net>>
    BY <1>2 DEF HandleShutdown, Set
  <2> QED BY <2>1, MoveInv DEF States, ShuttingDown, Working
<1>3. CASE s \notin {"Established", "ShutdownSent"}
  <2>1. UNCHANGED <<state, will_send_shutdown_ack, will_send_shutdown_complete, closed, net>>
    BY <1>3 DEF HandleShutdown
  <2> QED BY <2>1, IdleInv
<1> QED BY <1>1, <1>2, <1>3

\* The peer has agreed: its SHUTDOWN ACK was being handled.
LEMMA ShutdownAckInv ==
    ASSUME IInv, NEW x, Finishing(x), job[x].does = "SHUTDOWN_ACK",
           HandleShutdownAck(x, job[x].state)
    PROVE  IInv'
<1> USE OtherPeer
<1>1. job' = [job EXCEPT ![x] = Free] /\ Free \in [does : Jobs, state : States]
  BY DEF Finishing, Release, Set, Free, Jobs, States
<1>2. will_send_shutdown_complete' \in [Peers -> BOOLEAN]
      /\ \A y \in Peers : y # x => will_send_shutdown_complete'[y] = will_send_shutdown_complete[y]
  <2>1. CASE job[x].state \in {"ShutdownSent", "ShutdownAckSent"}
    <3>1. will_send_shutdown_complete' = [will_send_shutdown_complete EXCEPT ![x] = TRUE]
      BY <2>1 DEF HandleShutdownAck, Set
    <3> QED BY <3>1 DEF IInv, Types
  <2>2. CASE job[x].state \notin {"ShutdownSent", "ShutdownAckSent"}
    BY <2>2 DEF HandleShutdownAck, IInv, Types, flag_vars
  <2> QED BY <2>1, <2>2
<1>3. UNCHANGED <<state, will_send_shutdown_ack, closed, net>>
  BY DEF HandleShutdownAck, flag_vars
<1>4. Types'
  BY <1>1, <1>2, <1>3 DEF IInv, Types, Finishing
<1>5. Agreed(Other(x))
  BY DEF Agreed, Finishing
<1>6. Agreed(x)' => Agreed(x)
  BY <1>1, <1>2, <1>3 DEF IInv, Types, Agreed, Finishing, Free
<1>7. AgreedForGood'
  BY <1>1, <1>3, <1>5, <1>6 DEF IInv, Types, AgreedForGood, Finishing
<1>8. CompleteFromClosed'
  BY <1>1, <1>3 DEF IInv, Types, CompleteFromClosed, Finishing, Free
<1> QED BY <1>4, <1>7, <1>8 DEF IInv

LEMMA T2Inv == ASSUME IInv, NEW x, Finishing(x), T2Timeout(x, job[x].state) PROVE IInv'
<1> USE OtherPeer
<1>1. job' = [job EXCEPT ![x] = Free] /\ Free \in [does : Jobs, state : States]
  BY DEF Finishing, Release, Set, Free, Jobs, States
<1>2. will_send_shutdown_ack' = [will_send_shutdown_ack EXCEPT ![x] =
         will_send_shutdown_ack[x] \/ job[x].state = "ShutdownAckSent"]
  BY DEF T2Timeout, Set
<1>3. UNCHANGED <<state, will_send_shutdown_complete, closed, net>>
  BY DEF T2Timeout
<1>4. Types'
  BY <1>1, <1>2, <1>3 DEF IInv, Types, Finishing
<1>5. \A y \in Peers : Agreed(y)' => Agreed(y)
  BY <1>1, <1>2, <1>3 DEF IInv, Types, Agreed, Finishing, Free
<1>6. AgreedForGood'
  BY <1>1, <1>3, <1>5 DEF IInv, Types, AgreedForGood, Finishing
<1>7. CompleteFromClosed'
  BY <1>1, <1>3 DEF IInv, Types, CompleteFromClosed, Finishing, Free
<1> QED BY <1>4, <1>6, <1>7 DEF IInv

\* close(), after the peer has agreed.
LEMMA CloseInv ==
    ASSUME IInv, NEW x, Finishing(x), Close(x), Agreed(Other(x)),
           NEW f \in BOOLEAN, NEW g \in BOOLEAN,
           will_send_shutdown_ack' = [will_send_shutdown_ack EXCEPT ![x] = f],
           will_send_shutdown_complete' = [will_send_shutdown_complete EXCEPT ![x] = g],
           net' \in [Peers -> SUBSET Packets], net'[x] = net[x]
    PROVE  IInv'
<1> USE OtherPeer
<1>1. /\ job' = [job EXCEPT ![x] = Free] /\ Free \in [does : Jobs, state : States]
      /\ state' = [state EXCEPT ![x] = "Closed"] /\ closed' = [closed EXCEPT ![x] = TRUE]
  BY DEF Finishing, Release, Close, Set, Free, Jobs, States
<1>2. Types'
  BY <1>1 DEF IInv, Types, Finishing, States
<1>3. AgreedForGood'
  <2>1. state'[x] \notin Working /\ job'[x] = Free
    BY <1>1 DEF IInv, Types, Finishing, Working
  <2>2. /\ state'[Other(x)] \notin Working
        /\ job'[Other(x)] # Free => job'[Other(x)].state \notin Working
    BY <1>1 DEF IInv, Types, Finishing, AgreedForGood
  <2> QED BY <2>1, <2>2 DEF AgreedForGood, Finishing
<1>4. CompleteFromClosed'
  BY <1>1 DEF IInv, Types, CompleteFromClosed, Finishing, Free
<1> QED BY <1>2, <1>3, <1>4 DEF IInv

LEMMA ShutdownCompleteInv ==
    ASSUME IInv, NEW x, Finishing(x), job[x].does = "SHUTDOWN_COMPLETE",
           HandleShutdownComplete(x, job[x].state)
    PROVE  IInv'
<1>1. CASE job[x].state = "ShutdownAckSent"
  <2>1. Close(x)
    BY <1>1 DEF HandleShutdownComplete
  <2>2. Agreed(Other(x))
    BY DEF Agreed, Finishing, IInv, CompleteFromClosed
  <2>3. /\ will_send_shutdown_ack' =
             [will_send_shutdown_ack EXCEPT ![x] = will_send_shutdown_ack[x]]
        /\ will_send_shutdown_complete' =
             [will_send_shutdown_complete EXCEPT ![x] = will_send_shutdown_complete[x]]
        /\ UNCHANGED net
    BY DEF HandleShutdownComplete, flag_vars, IInv, Types
  <2> QED BY <2>1, <2>2, <2>3, CloseInv DEF IInv, Types, Finishing
<1>2. CASE job[x].state # "ShutdownAckSent"
  BY <1>2, IdleInv DEF HandleShutdownComplete, flag_vars
<1> QED BY <1>1, <1>2

\* A gather sends SHUTDOWN ACK for the flag, and closes only with the last packet.
LEMMA GatherInv == ASSUME IInv, NEW x, Finishing(x), Gather(x, job[x].state) PROVE IInv'
<1> USE OtherPeer
<1> DEFINE s   == job[x].state
           out == IF s \in ShuttingDown \cup {"ShutdownAckSent"} THEN ShutdownPacket(x) ELSE {}
           o   == Other(x)
<1>1. /\ \A y \in Peers : y # o => net'[y] = net[y]
      /\ \A p \in {"SHUTDOWN_ACK", "SHUTDOWN_COMPLETE"} :
            p \in net'[o] => p \in net[o] \/ out = {p}
      /\ net' \in [Peers -> SUBSET Packets]
  <2>1. PICK A1 \in SUBSET {"DATA"}, A2 \in SUBSET {"SACK"}, A3 \in SUBSET {"FORWARD_TSN"} :
          net' = [net EXCEPT ![o] =
                    IF closed[o] THEN {} ELSE net[o] \cup A1 \cup A2 \cup A3 \cup out]
    <3> DEFINE open  == s = "Established"
               sends == open \/ s \in ShuttingDown
               fresh == open /\ data[x] = "pending"
               again == sends /\ resend[x]
               fwd   == open /\ will_send_forward_tsn[x] /\ abandoned[x] /\ data[x] = "inflight"
               A1    == IF fresh \/ again THEN {"DATA"} ELSE {}
               A2    == IF sends /\ ack_due[x] THEN {"SACK"} ELSE {}
               A3    == IF fwd THEN {"FORWARD_TSN"} ELSE {}
    <3>1. net' = [net EXCEPT ![o] =
                    IF closed[o] THEN {} ELSE net[o] \cup A1 \cup A2 \cup A3 \cup out]
      BY DEF Gather, Set
    <3>2. A1 \in SUBSET {"DATA"} /\ A2 \in SUBSET {"SACK"} /\ A3 \in SUBSET {"FORWARD_TSN"}
      OBVIOUS
    <3> HIDE DEF A1, A2, A3, out
    <3> QED BY <3>1, <3>2
  <2>2. out \subseteq Packets /\ \A p \in out : out = {p}
    BY DEF ShutdownPacket, Packets
  <2> HIDE DEF out
  <2>3. net \in [Peers -> SUBSET Packets] /\ o \in Peers
    BY DEF IInv, Types, Finishing
  <2>4. net'[o] = IF closed[o] THEN {} ELSE net[o] \cup A1 \cup A2 \cup A3 \cup out
    BY <2>1, <2>3
  <2>5. net'[o] \subseteq Packets
    BY <2>2, <2>3, <2>4 DEF Packets
  <2>6. \A p \in {"SHUTDOWN_ACK", "SHUTDOWN_COMPLETE"} : p \in net'[o] => p \in net[o] \/ out = {p}
    BY <2>2, <2>4
  <2>7. \A y \in Peers : y # o => net'[y] = net[y]
    BY <2>1, <2>3
  <2>8. net' \in [Peers -> SUBSET Packets]
    BY <2>1, <2>3, <2>5
  <2> QED BY <2>6, <2>7, <2>8
<1>2. /\ out = {"SHUTDOWN_ACK"} => will_send_shutdown_ack[x]
      /\ out = {"SHUTDOWN_COMPLETE"} => /\ s \in ShuttingDown \cup {"ShutdownAckSent"}
                                       /\ will_send_shutdown_complete[x]
  BY DEF ShutdownPacket
<1> HIDE DEF out
<1>3. CASE out = {"SHUTDOWN_COMPLETE"}
  <2>1. Close(x)
    BY <1>2, <1>3 DEF Gather, GatherShutdown, out
  <2>2. Agreed(o)
    BY <1>2, <1>3 DEF Agreed, Finishing
  <2>3. /\ will_send_shutdown_ack' = [will_send_shutdown_ack EXCEPT ![x] =
               will_send_shutdown_ack[x] /\ out # {"SHUTDOWN_ACK"}]
        /\ will_send_shutdown_complete' = [will_send_shutdown_complete EXCEPT ![x] =
               will_send_shutdown_complete[x] /\ out # {"SHUTDOWN_COMPLETE"}]
    BY <1>2, <1>3 DEF Gather, GatherShutdown, Set, out
  <2>4. net'[x] = net[x]
    BY <1>1 DEF Finishing
  <2> QED BY <1>1, <2>1, <2>2, <2>3, <2>4, CloseInv
<1>4. CASE out # {"SHUTDOWN_COMPLETE"}
  <2>1. job' = [job EXCEPT ![x] = Free] /\ Free \in [does : Jobs, state : States]
    BY DEF Finishing, Release, Set, Free, Jobs, States
  <2>2. /\ UNCHANGED <<state, closed>>
        /\ will_send_shutdown_ack' \in [Peers -> BOOLEAN]
        /\ will_send_shutdown_complete' \in [Peers -> BOOLEAN]
        /\ \A y \in Peers : /\ will_send_shutdown_ack'[y] => will_send_shutdown_ack[y]
                            /\ will_send_shutdown_complete'[y] => will_send_shutdown_complete[y]
    <3>1. CASE s \in ShuttingDown \cup {"ShutdownAckSent"}
      <4>1. GatherShutdown(x, out)
        BY <3>1 DEF Gather, out
      <4>2. /\ UNCHANGED <<state, closed>>
            /\ will_send_shutdown_ack' = [will_send_shutdown_ack EXCEPT ![x] =
                   will_send_shutdown_ack[x] /\ out # {"SHUTDOWN_ACK"}]
            /\ will_send_shutdown_complete' = [will_send_shutdown_complete EXCEPT ![x] =
                   will_send_shutdown_complete[x] /\ out # {"SHUTDOWN_COMPLETE"}]
        BY <1>4, <4>1 DEF GatherShutdown, Set
      <4> QED BY <4>2 DEF IInv, Types
    <3>2. CASE s \notin ShuttingDown \cup {"ShutdownAckSent"}
      BY <3>2 DEF Gather, flag_vars, IInv, Types
    <3> QED BY <3>1, <3>2
  <2>3. Types'
    BY <1>1, <2>1, <2>2 DEF IInv, Types, Finishing
  <2>4. \A y \in Peers : Agreed(y)' => Agreed(y)
    BY <1>1, <1>2, <2>1, <2>2 DEF IInv, Types, Agreed, Finishing, Free
  <2>5. AgreedForGood'
    BY <2>1, <2>2, <2>4 DEF IInv, Types, AgreedForGood, Finishing
  <2>6. CompleteFromClosed'
    BY <1>1, <1>4, <2>1, <2>2 DEF IInv, Types, CompleteFromClosed, Finishing, Free
  <2> QED BY <2>3, <2>5, <2>6 DEF IInv
<1> QED BY <1>3, <1>4

LEMMA FinishInv == ASSUME IInv, NEW x \in Peers, Finish(x) PROVE IInv'
<1> DEFINE s == job[x].state
<1>1. Finishing(x)
  BY DEF Finish, Finishing
<1>2. CASE job[x].does \in {"DATA", "FORWARD_TSN"}
  BY <1>1, <1>2, IdleInv DEF Finish, HandleData, flag_vars
<1>3. CASE job[x].does = "SACK"
  BY <1>1, <1>3, SackInv DEF Finish
<1>4. CASE job[x].does = "SHUTDOWN"
  BY <1>1, <1>4, ShutdownInv DEF Finish
<1>5. CASE job[x].does = "SHUTDOWN_ACK"
  BY <1>1, <1>5, ShutdownAckInv DEF Finish
<1>6. CASE job[x].does = "SHUTDOWN_COMPLETE"
  BY <1>1, <1>6, ShutdownCompleteInv DEF Finish
<1>7. CASE job[x].does = "T2Shutdown"
  BY <1>1, <1>7, T2Inv DEF Finish
<1>8. CASE job[x].does = "T3RTX"
  BY <1>1, <1>8, IdleInv DEF Finish, T3Timeout, flag_vars
<1>9. CASE job[x].does = "gather"
  BY <1>1, <1>9, GatherInv DEF Finish
<1>10. job[x].does \in Jobs /\ job[x].does # "nothing"
  BY <1>1 DEF IInv, Types, Finishing
<1> QED
  BY <1>2, <1>3, <1>4, <1>5, <1>6, <1>7, <1>8, <1>9, <1>10 DEF Jobs, Timers, Packets

-----------------------------------------------------------------------------
LEMMA NextInv == ASSUME IInv, [Next]_vars PROVE IInv'
<1>1. CASE UNCHANGED vars
  BY <1>1 DEF vars, flag_vars, IInv, Types, AgreedForGood, Agreed, CompleteFromClosed
<1>2. ASSUME NEW x \in Peers, Write(x) PROVE IInv'
  BY <1>2 DEF Write, flag_vars, IInv, Types, AgreedForGood, Agreed, CompleteFromClosed
<1>3. ASSUME NEW x \in Peers, AppStep(x) \/ AppCall(x) PROVE IInv'
  BY <1>3, AppInv
<1>4. ASSUME NEW x \in Peers, NEW p \in Packets, BeginRecv(x, p) PROVE IInv'
  BY <1>4, BeginInv DEF BeginRecv, Jobs, Packets
<1>5. ASSUME NEW x \in Peers, NEW timer \in Timers, BeginTimeout(x, timer) PROVE IInv'
  BY <1>5, BeginInv DEF BeginTimeout, Jobs, Packets, Timers
<1>6. ASSUME NEW x \in Peers, BeginGather(x) PROVE IInv'
  BY <1>6, BeginInv DEF BeginGather, Jobs, Packets, Timers
<1>7. ASSUME NEW x \in Peers, Finish(x) PROVE IInv'
  BY <1>7, FinishInv
<1>8. ASSUME NEW x \in Peers, Lose(x) PROVE IInv'
  <2>1. /\ net' \in [Peers -> SUBSET Packets] /\ \A y \in Peers : net'[y] \subseteq net[y]
        /\ UNCHANGED <<state, flag_vars, closed, job>>
    BY <1>8 DEF Lose, Set, IInv, Types
  <2> QED
    BY <2>1, OtherPeer DEF flag_vars, IInv, Types, AgreedForGood, Agreed, CompleteFromClosed
<1> QED
  BY <1>1, <1>2, <1>3, <1>4, <1>5, <1>6, <1>7, <1>8 DEF Next

\* Whatever shutdown() writes between the halves of a handler and whatever packets are
\* lost or repeated, no side closes under one that still works.
THEOREM ClosesInAgreement == Spec => []CloseIsAgreed
<1>1. Init => IInv
  BY InitInv
<1>2. IInv /\ [Next]_vars => IInv'
  BY NextInv
<1>3. IInv => CloseIsAgreed
  BY OtherPeer DEF IInv, AgreedForGood, Agreed, CloseIsAgreed, Working
<1> QED BY <1>1, <1>2, <1>3, PTL DEF Spec

-----------------------------------------------------------------------------
(* A shutdown() that meets no running handler.                             *)

GracefulTypes ==
    /\ state \in [Peers -> States]
    /\ will_send_shutdown_complete \in [Peers -> BOOLEAN]
    /\ closed \in [Peers -> BOOLEAN]
    /\ data \in [Peers -> {"none", "pending", "inflight", "acked"}]
    /\ app \in [Peers -> {"idle", "loaded", "pending", "flagged", "woken", "waiting", "returned"}]
    /\ job \in [Peers -> {Free} \cup [does : Jobs \ {"nothing"}, state : States]]

\* The handler and the application take turns, and who has asked for the end, or has
\* come closer to it, has nothing outstanding and will send nothing new.
Graceful(x) ==
    /\ job[x] # Free => job[x].state = state[x] /\ ~InShutdown(x)
    /\ app[x] = "loaded" => state[x] = "Established"
    /\ app[x] \in {"pending", "flagged", "woken"} => state[x] = "ShutdownPending"
    /\ app[x] \in {"flagged", "woken"} => data[x] # "inflight"
    /\ state[x] \in {"ShutdownSent", "ShutdownAckSent", "Closed"} => data[x] # "inflight"
    /\ will_send_shutdown_complete[x] => data[x] # "inflight" /\ state[x] # "Established"
    /\ closed[x] => state[x] = "Closed"

GracefulInv == orderly => GracefulTypes /\ \A x \in Peers : Graceful(x)

LEMMA GracefulInit == Init => GracefulInv
  BY DEF Init, GracefulInv, GracefulTypes, Graceful, States, Jobs, Free, ShuttingDown, InShutdown

\* A step of x leaves what Graceful says of the other side alone.
Touches(x) ==
    /\ \A y \in Peers : y # x => /\ state'[y] = state[y] /\ closed'[y] = closed[y]
                                /\ will_send_shutdown_complete'[y] = will_send_shutdown_complete[y]
                                /\ data'[y] = data[y] /\ app'[y] = app[y] /\ job'[y] = job[y]
    /\ UNCHANGED orderly

LEMMA GracefulFrame ==
    ASSUME GracefulInv, orderly, NEW x \in Peers, Touches(x), GracefulTypes', Graceful(x)'
    PROVE  GracefulInv'
<1>1. \A y \in Peers : y # x => Graceful(y)'
  BY DEF GracefulInv, Graceful, InShutdown, Touches
<1> QED BY <1>1 DEF GracefulInv

LEMMA GracefulApp ==
    ASSUME GracefulInv, orderly, NEW x \in Peers, AppStep(x) \/ AppCall(x) PROVE GracefulInv'
<1> USE DEF AppStep, AppCall, CallShutdown, SetPending, LookOutstanding, WakeUp, SetSent,
            Return, Set, GracefulInv, flag_vars, data_vars, env_vars
<1>1. Touches(x)
  BY DEF Touches, GracefulTypes
<1>2. GracefulTypes'
  BY DEF GracefulTypes, States, ShuttingDown
<1>3. Graceful(x)'
  BY DEF Graceful, GracefulTypes, AppMayRun, InShutdown
<1> QED BY <1>1, <1>2, <1>3, GracefulFrame

LEMMA GracefulWrite ==
    ASSUME GracefulInv, orderly, NEW x \in Peers, Write(x) PROVE GracefulInv'
<1> USE DEF Write, Set, GracefulInv, flag_vars, data_vars, env_vars
<1>1. Touches(x)
  BY DEF Touches, GracefulTypes
<1>2. GracefulTypes'
  BY DEF GracefulTypes
<1>3. Graceful(x)'
  BY DEF Graceful, GracefulTypes, InShutdown
<1> QED BY <1>1, <1>2, <1>3, GracefulFrame

LEMMA GracefulBegin ==
    ASSUME GracefulInv, orderly, NEW x \in Peers, NEW what \in Jobs \ {"nothing"},
           CanBegin(x), Take(x, what), UNCHANGED <<state, flag_vars, data, closed, app, orderly>>
    PROVE  GracefulInv'
<1> USE DEF CanBegin, Take, Set, GracefulInv, flag_vars
<1>1. Touches(x)
  BY DEF Touches, GracefulTypes
<1>2. GracefulTypes'
  BY DEF GracefulTypes
<1>3. Graceful(x)'
  BY DEF Graceful, GracefulTypes, InShutdown
<1> QED BY <1>1, <1>2, <1>3, GracefulFrame

\* The handlers: what is outstanding only grows in Established, and a state of the
\* end is written where nothing is.
LEMMA GracefulFinish ==
    ASSUME GracefulInv, orderly, NEW x \in Peers, Finish(x) PROVE GracefulInv'
<1> DEFINE s == job[x].state
<1>1. /\ GracefulTypes /\ Graceful(x) /\ job[x] # Free
      /\ job' = [job EXCEPT ![x] = Free] /\ UNCHANGED <<app, orderly>>
      /\ s = state[x] /\ ~InShutdown(x)
  BY DEF Finish, Release, Set, GracefulInv, Graceful, env_vars
<1>2. SUFFICES /\ Touches(x) /\ GracefulTypes' /\ Graceful(x)'
  BY <1>2, GracefulFrame
<1> USE DEF flag_vars, data_vars
<1>3. ASSUME UNCHANGED <<state, will_send_shutdown_complete, data, closed>>
      PROVE  Touches(x) /\ GracefulTypes' /\ Graceful(x)'
  BY <1>1, <1>3 DEF Touches, GracefulTypes, Graceful, InShutdown
<1>4. CASE job[x].does \in {"DATA", "FORWARD_TSN"}
  BY <1>3, <1>4 DEF Finish, HandleData
<1>20. ASSUME NEW st \in States, NEW c \in BOOLEAN, NEW z \in BOOLEAN,
             NEW d \in {"none", "pending", "inflight", "acked"},
             state' = [state EXCEPT ![x] = st], closed' = [closed EXCEPT ![x] = z],
             will_send_shutdown_complete' = [will_send_shutdown_complete EXCEPT ![x] = c],
             data' = [data EXCEPT ![x] = d],
             st \in {"ShutdownSent", "ShutdownAckSent", "Closed"} \/ c => d # "inflight",
             c => st # "Established", z => st = "Closed"
      PROVE  Touches(x) /\ GracefulTypes' /\ Graceful(x)'
  BY <1>1, <1>20 DEF Touches, GracefulTypes, Graceful, InShutdown
<1>21. /\ state = [state EXCEPT ![x] = state[x]] /\ closed = [closed EXCEPT ![x] = closed[x]]
      /\ will_send_shutdown_complete =
           [will_send_shutdown_complete EXCEPT ![x] = will_send_shutdown_complete[x]]
      /\ data = [data EXCEPT ![x] = data[x]]
      /\ state[x] \in States /\ closed[x] \in BOOLEAN /\ will_send_shutdown_complete[x] \in BOOLEAN
      /\ data[x] \in {"none", "pending", "inflight", "acked"}
  BY <1>1 DEF GracefulTypes
<1>22. {"ShutdownSent", "ShutdownAckSent", "ShutdownReceived", "Closed"} \subseteq States
  BY DEF States, ShuttingDown
<1>5. CASE job[x].does = "SACK"
  <2>1. HandleSack(x, s)
    BY <1>5 DEF Finish
  <2>2. CASE s \notin SackStates
    BY <1>3, <2>1, <2>2 DEF HandleSack
  <2>3. CASE s \in SackStates
    <3>1. PICK st \in {state[x], "ShutdownSent", "ShutdownAckSent"} :
            /\ state' = [state EXCEPT ![x] = st]
            /\ st = state[x] \/ s # "Established"
      BY <1>21, <2>1, <2>3 DEF HandleSack, NothingOutstanding, Set
    <3>2. /\ data' = [data EXCEPT ![x] = "acked"]
          /\ UNCHANGED <<will_send_shutdown_complete, closed>>
      BY <2>1, <2>3 DEF HandleSack, Set
    <3>3. ~closed[x] /\ (will_send_shutdown_complete[x] => state[x] # "Established")
      BY <1>1, <2>3 DEF Graceful, SackStates
    <3> QED BY <1>1, <1>20, <1>21, <1>22, <3>1, <3>2, <3>3
  <2> QED BY <2>2, <2>3
<1>6. CASE job[x].does = "SHUTDOWN"
  <2>1. HandleShutdown(x, s)
    BY <1>6 DEF Finish
  <2>2. UNCHANGED <<will_send_shutdown_complete, data, closed>>
    BY <2>1 DEF HandleShutdown
  <2>3. CASE s = "Established" /\ data[x] = "inflight"
    <3>1. state' = [state EXCEPT ![x] = "ShutdownReceived"]
      BY <2>1, <2>3 DEF HandleShutdown, Set
    <3>2. ~closed[x] /\ ~will_send_shutdown_complete[x]
      BY <1>1, <2>3 DEF Graceful
    <3> QED BY <1>20, <1>21, <1>22, <2>2, <3>1, <3>2
  <2>4. CASE s = "ShutdownSent" \/ (s = "Established" /\ data[x] # "inflight")
    <3>1. state' = [state EXCEPT ![x] = "ShutdownAckSent"]
      BY <2>1, <2>4 DEF HandleShutdown, Set
    <3>2. ~closed[x] /\ data[x] # "inflight"
      BY <1>1, <2>4 DEF Graceful
    <3> QED BY <1>20, <1>21, <1>22, <2>2, <3>1, <3>2
  <2>5. CASE s \notin {"Established", "ShutdownSent"}
    BY <1>3, <2>1, <2>5 DEF HandleShutdown
  <2> QED BY <2>3, <2>4, <2>5
<1>7. CASE job[x].does = "SHUTDOWN_ACK"
  <2>1. HandleShutdownAck(x, s)
    BY <1>7 DEF Finish
  <2>2. CASE s \notin {"ShutdownSent", "ShutdownAckSent"}
    BY <1>3, <2>1, <2>2 DEF HandleShutdownAck
  <2>3. CASE s \in {"ShutdownSent", "ShutdownAckSent"}
    <3>1. /\ will_send_shutdown_complete' = [will_send_shutdown_complete EXCEPT ![x] = TRUE]
          /\ UNCHANGED <<state, data, closed>>
      BY <2>1, <2>3 DEF HandleShutdownAck, Set
    <3>2. ~closed[x] /\ data[x] # "inflight" /\ state[x] # "Established"
      BY <1>1, <2>3 DEF Graceful
    <3> QED BY <1>20, <1>21, <3>1, <3>2
  <2> QED BY <2>2, <2>3
<1>8. CASE job[x].does = "SHUTDOWN_COMPLETE"
  <2>1. HandleShutdownComplete(x, s)
    BY <1>8 DEF Finish
  <2>2. CASE s # "ShutdownAckSent"
    BY <1>3, <2>1, <2>2 DEF HandleShutdownComplete
  <2>3. CASE s = "ShutdownAckSent"
    <3>1. /\ state' = [state EXCEPT ![x] = "Closed"] /\ closed' = [closed EXCEPT ![x] = TRUE]
          /\ UNCHANGED <<will_send_shutdown_complete, data>>
      BY <2>1, <2>3 DEF HandleShutdownComplete, Close, Set
    <3>2. data[x] # "inflight"
      BY <1>1, <2>3 DEF Graceful
    <3> QED BY <1>20, <1>21, <1>22, <3>1, <3>2
  <2> QED BY <2>2, <2>3
<1>9. CASE job[x].does = "T2Shutdown"
  BY <1>3, <1>9 DEF Finish, T2Timeout
<1>10. CASE job[x].does = "T3RTX"
  BY <1>3, <1>10 DEF Finish, T3Timeout
<1>11. CASE job[x].does = "gather"
  <2>1. Gather(x, s)
    BY <1>11 DEF Finish
  <2> DEFINE d == IF s = "Established" /\ data[x] = "pending" THEN "inflight" ELSE data[x]
  <2>2. data' = [data EXCEPT ![x] = d] /\ d \in {"none", "pending", "inflight", "acked"}
    BY <1>21, <2>1 DEF Gather, Set
  <2>3. d = "inflight" => data[x] = "inflight" \/ s = "Established"
    OBVIOUS
  <2> HIDE DEF d
  <2>4. CASE s \notin ShuttingDown \cup {"ShutdownAckSent"}
    <3>1. UNCHANGED <<state, will_send_shutdown_complete, closed>>
      BY <2>1, <2>4 DEF Gather
    <3> QED BY <1>1, <1>20, <1>21, <2>2, <2>3, <3>1 DEF Graceful
  <2>5. CASE s \in ShuttingDown \cup {"ShutdownAckSent"}
    <3>1. GatherShutdown(x, ShutdownPacket(x))
      BY <2>1, <2>5 DEF Gather
    <3>2. d = "inflight" => data[x] = "inflight"
      BY <2>3, <2>5 DEF ShuttingDown
    <3>3. CASE ShutdownPacket(x) = {"SHUTDOWN_COMPLETE"}
      <4>1. /\ state' = [state EXCEPT ![x] = "Closed"] /\ closed' = [closed EXCEPT ![x] = TRUE]
            /\ will_send_shutdown_complete' = [will_send_shutdown_complete EXCEPT ![x] = FALSE]
        BY <3>1, <3>3 DEF GatherShutdown, Close, Set
      <4>2. will_send_shutdown_complete[x]
        BY <3>3 DEF ShutdownPacket
      <4>3. data[x] # "inflight"
        BY <1>1, <4>2 DEF Graceful
      <4> QED BY <1>20, <1>22, <2>2, <3>2, <4>1, <4>3
    <3>4. CASE ShutdownPacket(x) # {"SHUTDOWN_COMPLETE"}
      <4>1. /\ UNCHANGED <<state, closed>>
            /\ will_send_shutdown_complete' = [will_send_shutdown_complete EXCEPT ![x] =
                                                will_send_shutdown_complete[x] /\ TRUE]
        BY <3>1, <3>4 DEF GatherShutdown, Set
      <4> QED BY <1>1, <1>20, <1>21, <2>2, <3>2, <4>1 DEF Graceful
    <3> QED BY <3>3, <3>4
  <2> QED BY <2>4, <2>5
<1>12. job[x].does \in Jobs \ {"nothing"}
  BY <1>1 DEF GracefulTypes
<1> QED
  BY <1>4, <1>5, <1>6, <1>7, <1>8, <1>9, <1>10, <1>11, <1>12 DEF Jobs, Timers, Packets

LEMMA GracefulNext == ASSUME GracefulInv, [Next]_vars PROVE GracefulInv'
<1>1. CASE ~orderly
  <2>1. UNCHANGED orderly
    BY DEF Next, vars, env_vars, Write, AppStep, AppCall, BeginRecv, BeginTimeout, BeginGather,
           Finish, Lose
  <2> QED BY <1>1, <2>1 DEF GracefulInv
<1>2. CASE orderly
  <2>1. CASE UNCHANGED vars
    BY <2>1 DEF vars, flag_vars, data_vars, env_vars, GracefulInv, GracefulTypes, Graceful,
                InShutdown
  <2>2. ASSUME NEW x \in Peers, Write(x) PROVE GracefulInv'
    BY <1>2, <2>2, GracefulWrite
  <2>3. ASSUME NEW x \in Peers, AppStep(x) \/ AppCall(x) PROVE GracefulInv'
    BY <1>2, <2>3, GracefulApp
  <2>4. ASSUME NEW x \in Peers, NEW p \in Packets, BeginRecv(x, p) PROVE GracefulInv'
    BY <1>2, <2>4, GracefulBegin DEF BeginRecv, data_vars, env_vars, Jobs, Packets
  <2>5. ASSUME NEW x \in Peers, NEW timer \in Timers, BeginTimeout(x, timer) PROVE GracefulInv'
    BY <1>2, <2>5, GracefulBegin DEF BeginTimeout, data_vars, env_vars, Jobs, Timers
  <2>6. ASSUME NEW x \in Peers, BeginGather(x) PROVE GracefulInv'
    BY <1>2, <2>6, GracefulBegin DEF BeginGather, data_vars, env_vars, Jobs
  <2>7. ASSUME NEW x \in Peers, Finish(x) PROVE GracefulInv'
    BY <1>2, <2>7, GracefulFinish
  <2>8. ASSUME NEW x \in Peers, Lose(x) PROVE GracefulInv'
    BY <2>8 DEF Lose, flag_vars, data_vars, env_vars, GracefulInv, GracefulTypes, Graceful,
                InShutdown
  <2> QED
    BY <2>1, <2>2, <2>3, <2>4, <2>5, <2>6, <2>7, <2>8 DEF Next
<1> QED BY <1>1, <1>2

\* A shutdown() that meets no running handler closes neither side before what that
\* side had outstanding was acknowledged.
THEOREM ShutdownIsGraceful == Spec => []GracefulForOutstanding
<1>1. Init => GracefulInv
  BY GracefulInit
<1>2. GracefulInv /\ [Next]_vars => GracefulInv'
  BY GracefulNext
<1>3. GracefulInv => GracefulForOutstanding
  BY DEF GracefulInv, Graceful, GracefulForOutstanding
<1> QED BY <1>1, <1>2, <1>3, PTL DEF Spec

-----------------------------------------------------------------------------
(* The types, with what a side may know of the other's message.            *)

Typed ==
    /\ state \in [Peers -> States]
    /\ data \in [Peers -> {"none", "pending", "inflight", "acked"}]
    /\ job \in [Peers -> [does : Jobs, state : States]]
    /\ app \in [Peers -> {"idle", "loaded", "pending", "flagged", "woken", "waiting", "returned"}]
    /\ net \in [Peers -> SUBSET Packets]
    /\ \A x \in Peers : job[x].does = "nothing" => job[x] = Free
    /\ t2 \in [Peers -> BOOLEAN] /\ awake \in [Peers -> BOOLEAN]
    /\ closed \in [Peers -> BOOLEAN]
    /\ resend \in [Peers -> BOOLEAN] /\ received \in [Peers -> BOOLEAN]
    /\ ack_due \in [Peers -> BOOLEAN]
    /\ will_send_shutdown \in [Peers -> BOOLEAN]
    /\ will_send_shutdown_ack \in [Peers -> BOOLEAN]
    /\ will_send_shutdown_complete \in [Peers -> BOOLEAN]

\* A message is sent before it arrives, arrives before it is acknowledged, and is
\* outstanding while T3 or a mark for retransmission is about it.
Told(x) ==
    LET y == Other(x)
        Given == {"DATA", "FORWARD_TSN"}
    IN  /\ resend[x] \/ job[x].does = "T3RTX" => data[x] = "inflight"
        /\ received[y] \/ net[y] \cap Given # {} \/ job[y].does \in Given =>
              data[x] \in {"inflight", "acked"}
        /\ ack_due[y] \/ "SACK" \in net[x] \/ job[x].does = "SACK" \/ data[x] = "acked" =>
              received[y]

TypeInv == Typed /\ \A x \in Peers : Told(x)

LEMMA TypeInit == Init => TypeInv
<1> SUFFICES ASSUME Init PROVE TypeInv
  OBVIOUS
<1>1. Typed
  BY DEF Init, Typed, States, Jobs, Free, ShuttingDown
<1>2. \A x \in Peers : Told(x)
  BY OtherPeer DEF Init, Told, Free
<1> QED BY <1>1, <1>2 DEF TypeInv

\* A step of the application sends nothing, but for the first time.
LEMMA TypeApp ==
    ASSUME TypeInv, NEW x \in Peers, AppStep(x) \/ AppCall(x) \/ Write(x) PROVE TypeInv'
<1>1. Typed'
  <2>1. CASE Write(x)
    BY <2>1 DEF Write, Set, TypeInv, Typed, flag_vars, data_vars
  <2>2. CASE AppStep(x) \/ AppCall(x)
    <3>1. state' \in [Peers -> States] /\ app' \in [Peers -> {"idle", "loaded", "pending",
             "flagged", "woken", "waiting", "returned"}]
      BY <2>2 DEF AppStep, AppCall, CallShutdown, SetPending, LookOutstanding, WakeUp, SetSent,
                  Return, Set, TypeInv, Typed, States, ShuttingDown
    <3>2. will_send_shutdown' \in [Peers -> BOOLEAN] /\ awake' \in [Peers -> BOOLEAN]
      BY <2>2 DEF AppStep, AppCall, CallShutdown, SetPending, LookOutstanding, WakeUp, SetSent,
                  Return, Set, TypeInv, Typed
    <3> QED BY <2>2, <3>1, <3>2 DEF AppStep, AppCall, TypeInv, Typed, flag_vars, data_vars
  <2> QED BY <2>1, <2>2
<1>2. /\ UNCHANGED <<resend, received, ack_due, net, job>>
      /\ \A y \in Peers : data'[y] = data[y] \/ (data[y] = "none" /\ data'[y] = "pending")
  <2>1. CASE Write(x)
    BY <2>1 DEF Write, Set, TypeInv, Typed
  <2>2. CASE AppStep(x) \/ AppCall(x)
    BY <2>2 DEF AppStep, AppCall, data_vars
  <2> QED BY <2>1, <2>2
<1>3. \A y \in Peers : Told(y)'
  BY <1>2, OtherPeer DEF TypeInv, Told
<1> QED BY <1>1, <1>3 DEF TypeInv

\* Taking the mutex, with a packet that is there or a timer that runs.
LEMMA TypeBegin ==
    ASSUME TypeInv, NEW x \in Peers, NEW what \in Jobs \ {"nothing"}, Take(x, what),
           UNCHANGED <<state, will_send_shutdown, flag_vars, data_vars, t2, closed, app>>,
           awake' \in [Peers -> BOOLEAN],
           net' \in [Peers -> SUBSET Packets], \A y \in Peers : net'[y] \subseteq net[y],
           what \in Packets => what \in net[x],
           what = "T3RTX" => data[x] = "inflight"
    PROVE  TypeInv'
<1>1. job' = [job EXCEPT ![x] = [does |-> what, state |-> state[x]]]
  BY DEF Take, Set
<1>2. Typed'
  BY <1>1 DEF TypeInv, Typed, flag_vars, data_vars
<1>3. \A y \in Peers : Told(y)'
  BY <1>1, OtherPeer DEF TypeInv, Typed, Told, data_vars, Packets
<1> QED BY <1>2, <1>3 DEF TypeInv

\* A handler of x that leaves the messages and the network alone.
LEMMA TypeQuiet ==
    ASSUME TypeInv, NEW x \in Peers, job' = [job EXCEPT ![x] = Free], Typed',
           UNCHANGED <<data_vars, net>>
    PROVE  TypeInv'
<1>1. \A y \in Peers : Told(y)'
  BY OtherPeer DEF TypeInv, Typed, Told, data_vars, Free
<1> QED BY <1>1 DEF TypeInv

LEMMA TypeFinish ==
    ASSUME TypeInv, NEW x \in Peers, Finish(x) PROVE TypeInv'
<1> DEFINE s == job[x].state
<1>1. /\ job' = [job EXCEPT ![x] = Free] /\ UNCHANGED app /\ job[x] # Free
      /\ Free \in [does : Jobs, state : States]
  BY DEF Finish, Release, Set, Free, Jobs, States
<1>2. Typed /\ Told(x) /\ Told(Other(x)) /\ s \in States /\ job[x].does \in Jobs
  BY OtherPeer DEF TypeInv, Typed
<1> USE OtherPeer DEF flag_vars, data_vars
<1>3. CASE job[x].does \in {"DATA", "FORWARD_TSN"}
  <2>1. HandleData(x)
    BY <1>3 DEF Finish
  <2>2. Typed'
    BY <1>1, <1>2, <2>1 DEF HandleData, Wake, Set, Typed
  <2>3. \A y \in Peers : Told(y)'
    BY <1>1, <1>2, <1>3, <2>1 DEF HandleData, Set, Typed, Told, Free
  <2> QED BY <2>2, <2>3 DEF TypeInv
<1>4. CASE job[x].does = "SACK"
  <2>1. HandleSack(x, s)
    BY <1>4 DEF Finish
  <2>2. CASE s \notin SackStates
    BY <1>1, <1>2, <2>1, <2>2, TypeQuiet DEF HandleSack, Typed
  <2>3. CASE s \in SackStates
    <3>1. /\ data' = [data EXCEPT ![x] = "acked"] /\ resend' = [resend EXCEPT ![x] = FALSE]
          /\ UNCHANGED <<will_send_shutdown_complete, received, ack_due, t2, closed, net>>
      BY <2>1, <2>3 DEF HandleSack, Set
    <3>2. /\ state' \in [Peers -> States] /\ awake' \in [Peers -> BOOLEAN]
          /\ will_send_shutdown' \in [Peers -> BOOLEAN]
          /\ will_send_shutdown_ack' \in [Peers -> BOOLEAN]
      BY <1>2, <2>1, <2>3 DEF HandleSack, NothingOutstanding, Wake, Set, Typed, States, ShuttingDown
    <3>3. Typed'
      BY <1>1, <1>2, <3>1, <3>2 DEF Typed
    <3>4. \A y \in Peers : Told(y)'
      BY <1>1, <1>2, <1>4, <3>1 DEF Typed, Told, Free
    <3> QED BY <3>3, <3>4 DEF TypeInv
  <2> QED BY <2>2, <2>3
<1>5. CASE job[x].does = "SHUTDOWN"
  <2>1. HandleShutdown(x, s)
    BY <1>5 DEF Finish
  <2>2. /\ state' \in [Peers -> States] /\ awake' \in [Peers -> BOOLEAN]
        /\ will_send_shutdown_ack' \in [Peers -> BOOLEAN]
    <3>1. CASE s = "Established" /\ data[x] = "inflight"
      BY <1>2, <2>1, <3>1 DEF HandleShutdown, Set, Typed, States, ShuttingDown
    <3>2. CASE s = "ShutdownSent" \/ (s = "Established" /\ data[x] # "inflight")
      BY <1>2, <2>1, <3>2 DEF HandleShutdown, Wake, Set, Typed, States
    <3>3. CASE s \notin {"Established", "ShutdownSent"}
      BY <1>2, <2>1, <3>3 DEF HandleShutdown, Typed
    <3> QED BY <3>1, <3>2, <3>3
  <2>3. UNCHANGED <<will_send_shutdown, will_send_shutdown_complete, data_vars, t2, closed, net>>
    BY <2>1 DEF HandleShutdown
  <2>4. Typed'
    BY <1>1, <1>2, <2>2, <2>3 DEF Typed
  <2> QED BY <1>1, <2>3, <2>4, TypeQuiet
<1>6. CASE job[x].does = "SHUTDOWN_ACK"
  <2>1. HandleShutdownAck(x, s)
    BY <1>6 DEF Finish
  <2>2. Typed'
    <3>1. /\ t2' = t2 \/ t2' = [t2 EXCEPT ![x] = FALSE]
          /\ awake' = awake \/ awake' = [awake EXCEPT ![x] = TRUE]
          /\ will_send_shutdown_complete' = will_send_shutdown_complete
             \/ will_send_shutdown_complete' = [will_send_shutdown_complete EXCEPT ![x] = TRUE]
          /\ UNCHANGED <<state, will_send_shutdown, will_send_shutdown_ack, data_vars, closed, net>>
      BY <2>1 DEF HandleShutdownAck, Wake, Set
    <3> QED BY <1>1, <1>2, <3>1 DEF Typed
  <2> QED BY <1>1, <2>1, <2>2, TypeQuiet DEF HandleShutdownAck
<1>7. CASE job[x].does = "SHUTDOWN_COMPLETE"
  <2>1. HandleShutdownComplete(x, s)
    BY <1>7 DEF Finish
  <2>2. Typed'
    <3>1. /\ t2' = t2 \/ t2' = [t2 EXCEPT ![x] = FALSE]
          /\ closed' = closed \/ closed' = [closed EXCEPT ![x] = TRUE]
          /\ state' = state \/ state' = [state EXCEPT ![x] = "Closed"]
          /\ UNCHANGED <<will_send_shutdown, flag_vars, data_vars, awake, net>>
      BY <2>1 DEF HandleShutdownComplete, Close, Set
    <3>2. "Closed" \in States
      BY DEF States
    <3>3. /\ t2' \in [Peers -> BOOLEAN] /\ closed' \in [Peers -> BOOLEAN]
          /\ state' \in [Peers -> States]
      <4>1. /\ t2 \in [Peers -> BOOLEAN] /\ closed \in [Peers -> BOOLEAN]
            /\ state \in [Peers -> States]
        BY <1>2 DEF Typed
      <4>2. t2' \in [Peers -> BOOLEAN]
        BY ONLY <3>1, <4>1
      <4>3. closed' \in [Peers -> BOOLEAN]
        BY ONLY <3>1, <4>1
      <4>4. state' \in [Peers -> States]
        BY ONLY <3>1, <3>2, <4>1
      <4> QED BY ONLY <4>2, <4>3, <4>4
    <3> QED BY <1>1, <1>2, <3>1, <3>3 DEF Typed
  <2> QED BY <1>1, <2>1, <2>2, TypeQuiet DEF HandleShutdownComplete
<1>8. CASE job[x].does = "T2Shutdown"
  <2>1. T2Timeout(x, s)
    BY <1>8 DEF Finish
  <2>2. Typed'
    BY <1>1, <1>2, <2>1 DEF T2Timeout, Set, Typed
  <2> QED BY <1>1, <2>1, <2>2, TypeQuiet DEF T2Timeout
<1>9. CASE job[x].does = "T3RTX"
  <2>1. T3Timeout(x)
    BY <1>9 DEF Finish
  <2>2. resend' \in [Peers -> BOOLEAN] /\ \A y \in Peers : y # x => resend'[y] = resend[y]
    BY <1>2, <2>1 DEF T3Timeout, Set, Typed
  <2>3. UNCHANGED <<data, received, ack_due, net>>
    BY <2>1 DEF T3Timeout
  <2>4. Typed'
    BY <1>1, <1>2, <2>1, <2>2 DEF T3Timeout, Wake, Set, Typed
  <2>5. \A y \in Peers : Told(y)'
    BY <1>1, <1>2, <1>9, <2>2, <2>3 DEF Typed, Told, Free
  <2> QED BY <2>4, <2>5 DEF TypeInv
<1>10. CASE job[x].does = "gather"
  <2>1. Gather(x, s)
    BY <1>10 DEF Finish
  <2> DEFINE y == Other(x)
             out == IF s \in ShuttingDown \cup {"ShutdownAckSent"} THEN ShutdownPacket(x) ELSE {}
  <2>2. out \subseteq {"SHUTDOWN", "SHUTDOWN_ACK", "SHUTDOWN_COMPLETE"}
    BY DEF ShutdownPacket
  <2>3. PICK d \in {data[x], "inflight"}, r \in BOOLEAN, a \in BOOLEAN :
          /\ data' = [data EXCEPT ![x] = d] /\ resend' = [resend EXCEPT ![x] = r]
          /\ ack_due' = [ack_due EXCEPT ![x] = a]
          /\ d = "inflight" => data[x] \in {"pending", "inflight"}
          /\ data[x] = "inflight" => d = "inflight"
          /\ r => resend[x]
          /\ a => ack_due[x]
    BY <1>2, <2>1 DEF Gather, Set, Typed
  <2>4. PICK N \in SUBSET Packets :
          /\ net' = [net EXCEPT ![y] = N]
          /\ "SACK" \in N => "SACK" \in net[y] \/ ack_due[x]
          /\ N \cap {"DATA", "FORWARD_TSN"} # {} =>
                net[y] \cap {"DATA", "FORWARD_TSN"} # {} \/ resend[x] \/ d = "inflight"
    <3> DEFINE open  == s = "Established"
               sends == open \/ s \in ShuttingDown
               fresh == open /\ data[x] = "pending"
               again == sends /\ resend[x]
               fwd   == open /\ will_send_forward_tsn[x] /\ abandoned[x] /\ data[x] = "inflight"
               N == IF closed[y] THEN {} ELSE net[y]
                      \cup (IF fresh \/ again THEN {"DATA"} ELSE {})
                      \cup (IF sends /\ ack_due[x] THEN {"SACK"} ELSE {})
                      \cup (IF fwd THEN {"FORWARD_TSN"} ELSE {})
                      \cup out
    <3>1. net' = [net EXCEPT ![y] = N] /\ net[y] \subseteq Packets
      BY <1>2, <2>1 DEF Gather, Set, Typed
    <3>2. fresh => d = "inflight"
      BY <1>2, <2>1, <2>3 DEF Gather, Set, Typed
    <3>3. N \subseteq Packets
      BY <2>2, <3>1 DEF Packets
    <3>4. data[x] = "inflight" => d = "inflight"
      BY <2>3
    <3>5. "SACK" \in N => "SACK" \in net[y] \/ ack_due[x]
      BY <2>2
    <3>6. N \cap {"DATA", "FORWARD_TSN"} # {} =>
                net[y] \cap {"DATA", "FORWARD_TSN"} # {} \/ resend[x] \/ d = "inflight"
      BY <2>2, <3>2, <3>4
    <3> HIDE DEF N
    <3> QED BY <3>1, <3>3, <3>5, <3>6
  <2>5. UNCHANGED <<received, awake>>
    BY <2>1 DEF Gather
  <2>6. /\ state' \in [Peers -> States]
        /\ t2' \in [Peers -> BOOLEAN] /\ closed' \in [Peers -> BOOLEAN]
        /\ will_send_shutdown' \in [Peers -> BOOLEAN]
        /\ will_send_shutdown_ack' \in [Peers -> BOOLEAN]
        /\ will_send_shutdown_complete' \in [Peers -> BOOLEAN]
    <3>1. CASE s \notin ShuttingDown \cup {"ShutdownAckSent"}
      BY <1>2, <2>1, <3>1 DEF Gather, Typed
    <3>2. CASE s \in ShuttingDown \cup {"ShutdownAckSent"}
      <4>1. GatherShutdown(x, out)
        BY <2>1, <3>2 DEF Gather
      <4> HIDE DEF out
      <4> QED BY <1>2, <4>1 DEF GatherShutdown, Close, Set, Typed, States
    <3> QED BY <3>1, <3>2
  <2> HIDE DEF out
  <2>7. Typed'
    <3>1. d \in {"none", "pending", "inflight", "acked"}
      BY <1>2, <2>3 DEF Typed
    <3>2. /\ data' \in [Peers -> {"none", "pending", "inflight", "acked"}]
          /\ resend' \in [Peers -> BOOLEAN] /\ ack_due' \in [Peers -> BOOLEAN]
          /\ net' \in [Peers -> SUBSET Packets]
      BY <1>2, <2>3, <2>4, <3>1 DEF Typed
    <3>3. /\ job' \in [Peers -> [does : Jobs, state : States]]
          /\ \A z \in Peers : job'[z].does = "nothing" => job'[z] = Free
      BY <1>1, <1>2 DEF Typed
    <3> QED BY <1>1, <1>2, <2>5, <2>6, <3>2, <3>3 DEF Typed
  <2>8. \A z \in Peers : Told(z)'
    <3>1. Told(x)'
      BY <1>1, <1>2, <2>3, <2>4, <2>5 DEF Typed, Told, Free
    <3>2. Told(y)'
      BY <1>1, <1>2, <2>3, <2>4, <2>5 DEF Typed, Told, Free
    <3> QED BY <3>1, <3>2
  <2> QED BY <2>7, <2>8 DEF TypeInv
<1> QED
  BY <1>1, <1>2, <1>3, <1>4, <1>5, <1>6, <1>7, <1>8, <1>9, <1>10 DEF Jobs, Timers, Packets, Typed

LEMMA TypeNext == ASSUME TypeInv, [Next]_vars PROVE TypeInv'
<1>1. CASE UNCHANGED vars
  BY <1>1 DEF vars, flag_vars, data_vars, env_vars, TypeInv, Typed, Told
<1>2. ASSUME NEW x \in Peers, Write(x) \/ AppStep(x) \/ AppCall(x) PROVE TypeInv'
  BY <1>2, TypeApp
<1>3. ASSUME NEW x \in Peers, NEW p \in Packets, BeginRecv(x, p) PROVE TypeInv'
  <2>1. net' \in [Peers -> SUBSET Packets] /\ \A y \in Peers : net'[y] \subseteq net[y]
    <3>1. net' = net \/ net' = [net EXCEPT ![x] = net[x] \ {p}]
      BY <1>3 DEF BeginRecv, Set
    <3>2. net \in [Peers -> SUBSET Packets]
      BY DEF TypeInv, Typed
    <3> QED BY ONLY <3>1, <3>2
  <2>2. p \in Jobs \ {"nothing"} /\ p # "T3RTX"
    BY DEF Jobs, Packets
  <2> QED BY <1>3, <2>1, <2>2, TypeBegin DEF BeginRecv, TypeInv, Typed
<1>4. ASSUME NEW x \in Peers, NEW timer \in Timers, BeginTimeout(x, timer) PROVE TypeInv'
  <2>1. timer \in Jobs \ {"nothing"} /\ timer \notin Packets
    BY DEF Jobs, Packets, Timers
  <2>2. timer = "T3RTX" => data[x] = "inflight"
    BY <1>4 DEF BeginTimeout, Running
  <2> QED BY <1>4, <2>1, <2>2, TypeBegin DEF BeginTimeout, TypeInv, Typed
<1>5. ASSUME NEW x \in Peers, BeginGather(x) PROVE TypeInv'
  <2>1. "gather" \in Jobs \ {"nothing"} /\ "gather" \notin Packets
    BY DEF Jobs, Packets
  <2>2. awake' \in [Peers -> BOOLEAN]
    BY <1>5 DEF BeginGather, Set, TypeInv, Typed
  <2> QED BY <1>5, <2>1, <2>2, TypeBegin DEF BeginGather, TypeInv, Typed
<1>6. ASSUME NEW x \in Peers, Finish(x) PROVE TypeInv'
  BY <1>6, TypeFinish
<1>7. ASSUME NEW x \in Peers, Lose(x) PROVE TypeInv'
  <2>1. net' \in [Peers -> SUBSET Packets] /\ \A y \in Peers : net'[y] \subseteq net[y]
    BY <1>7 DEF Lose, Set, TypeInv, Typed
  <2>2. Typed'
    BY <1>7, <2>1 DEF Lose, flag_vars, data_vars, TypeInv, Typed
  <2>3. \A y \in Peers : Told(y)'
    <3>1. UNCHANGED <<data_vars, job>>
      BY <1>7 DEF Lose
    <3> QED BY <2>1, <3>1, OtherPeer DEF data_vars, TypeInv, Told
  <2> QED BY <2>2, <2>3 DEF TypeInv
<1> QED BY <1>1, <1>2, <1>3, <1>4, <1>5, <1>6, <1>7 DEF Next

\* Types, and that no side takes a message for acknowledged that has not arrived (or a
\* FORWARD TSN over it), nor marks one to be sent again that is not outstanding.
THEOREM TypeCorrect == Spec => []TypeOK
<1>1. Init => TypeInv
  BY TypeInit
<1>2. TypeInv /\ [Next]_vars => TypeInv'
  BY TypeNext
<1>3. TypeInv => TypeOK
  BY DEF TypeInv, Typed, Told, TypeOK
<1> QED BY <1>1, <1>2, <1>3, PTL DEF Spec
=============================================================================
