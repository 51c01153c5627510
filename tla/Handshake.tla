------------------------------ MODULE Handshake ------------------------------
(***************************************************************************)
(* The four-way handshake between two associations: Association::new, the  *)
(* INIT / INIT ACK / COOKIE ECHO / COOKIE ACK handlers, the two T1 timers  *)
(* with their limited retransmissions, and the result that client() and    *)
(* server() hand to their callers.  At least one side is a client; when    *)
(* both are, as WebRTC data channels do, their INITs cross.                *)
(*                                                                         *)
(* An association is a record whose fields are those of                    *)
(* AssociationInternal; a handler, which runs under its mutex, is an       *)
(* operator from a record to the record after it and the packets sent.     *)
(* The control queue and the write loop that drains it only delay packets, *)
(* as the network does, and are part of it.                                *)
(*                                                                         *)
(* TSNs count from the initial TSN of their sender: peer_last_tsn is 0     *)
(* once that is known.  One DATA chunk stands for the data that overtakes  *)
(* or meets handshake packets.                                             *)
(***************************************************************************)
EXTENDS Integers, Sequences, SequencesExt

CONSTANTS
    A, B,             \* the two associations
    MaxInitRetrans,   \* MAX_INIT_RETRANS
    MaxLoss,          \* bound: packets the network loses
    MaxDup,           \* bound: packets the network delivers and keeps
    MaxSpurious       \* bound: T1 expiries while an answer is still under way

ASSUME HandshakeAssumption ==
    /\ A # B
    /\ MaxInitRetrans \in Nat
    /\ MaxLoss \in Nat /\ MaxDup \in Nat /\ MaxSpurious \in Nat

VARIABLES
    role,        \* which constructor made each side
    assoc,       \* the AssociationInternal of each side
    started,     \* the is_client block of Association::new has run
    dead,        \* read_loop ended on an error and closed the association
    result,      \* first message of handshake_completed_ch
    net,         \* packets on their way to each side, in sending order
    orderly,     \* packets keep their order, no T1 expires early
    losses, dups, spurious

vars == <<role, assoc, started, dead, result, net, orderly, losses, dups, spurious>>

-----------------------------------------------------------------------------
Peers == {A, B}
Other(x) == CHOOSE y \in Peers : y # x

Unset == -1                  \* peer_last_tsn before any INIT or INIT ACK
Off == -1                    \* a timer that does not run
T1 == {"T1Init", "T1Cookie"}

\* A running timer is the number of its expiries so far.
NewAssociation ==
    [state |-> "Closed", my_cookie |-> FALSE, stored_init |-> FALSE,
     stored_cookie_echo |-> FALSE, peer_tag |-> FALSE, peer_last_tsn |-> Unset,
     timers |-> [id \in T1 |-> Off], late |-> {}, sent |-> 0, got |-> 0]

\* A server's new() has nothing left to do after it spawned the loops.
Init ==
    /\ role \in {r \in [Peers -> {"client", "server"}] : \E x \in Peers : r[x] = "client"}
    /\ assoc = [x \in Peers |-> NewAssociation]
    /\ started = [x \in Peers |-> role[x] = "server"]
    /\ dead = [x \in Peers |-> FALSE]
    /\ result = [x \in Peers |-> "none"]
    /\ net = [x \in Peers |-> <<>>]
    /\ orderly \in BOOLEAN
    /\ losses = 0
    /\ dups = 0
    /\ spurious = 0

-----------------------------------------------------------------------------
(* Handlers.  Each yields the association after it, the packets it sends,  *)
(* what it puts in handshake_completed_ch, and whether it is an error.     *)

Outcome(e, out, done, err) == [assoc |-> e, out |-> out, done |-> done, err |-> err]
Ignored(e) == Outcome(e, <<>>, "none", FALSE)

\* The verification tag of an INIT is whatever peer_verification_tag is.
InitPacket(e) == [type |-> "INIT", zero_tag |-> ~e.peer_tag]
Packet(t) == [type |-> t, zero_tag |-> FALSE]

SendInit(e) == IF e.stored_init THEN <<InitPacket(e)>> ELSE <<>>
SendCookieEcho(e) == IF e.stored_cookie_echo THEN <<Packet("COOKIE_ECHO")>> ELSE <<>>

Stop(e, ids) == [e EXCEPT !.timers = [id \in T1 |-> IF id \in ids THEN Off ELSE @[id]]]
Start(e, id) == [e EXCEPT !.timers[id] = IF @ = Off THEN 0 ELSE @]

Opening == {"Closed", "CookieWait", "CookieEchoed"}

\* handle_init: in any other state an error, which ends the read loop.
BugHandleInit(e) ==                                       \* TSN left to INIT ACK
    IF e.state \notin Opening
    THEN Outcome(e, <<>>, "none", TRUE)
    ELSE Outcome([e EXCEPT !.peer_tag = TRUE, !.my_cookie = TRUE],
                 <<Packet("INIT_ACK")>>, "none", FALSE)
BugHandleInitAlways(e) ==                                 \* the guard is missing
    Outcome([e EXCEPT !.peer_tag = TRUE, !.peer_last_tsn = 0, !.my_cookie = TRUE],
            <<Packet("INIT_ACK")>>, "none", FALSE)
HandleInit(e) ==
    IF e.state \notin Opening
    THEN Outcome(e, <<>>, "none", TRUE)
    ELSE Outcome([e EXCEPT !.peer_tag = TRUE, !.peer_last_tsn = 0, !.my_cookie = TRUE],
                 <<Packet("INIT_ACK")>>, "none", FALSE)

HandleInitAck(e) ==
    IF e.state # "CookieWait"
    THEN Ignored(e)
    ELSE LET e1 == [Stop(e, {"T1Init"}) EXCEPT
                       !.peer_tag = TRUE, !.peer_last_tsn = 0, !.stored_init = FALSE,
                       !.stored_cookie_echo = TRUE, !.state = "CookieEchoed"]
         IN  Outcome(Start(e1, "T1Cookie"), SendCookieEcho(e1), "none", FALSE)

\* handle_cookie_echo.  The only cookie on the wire is the one of my_cookie.
BugHandleCookieEcho(e) ==                        \* the ACK is not repeated
    IF ~e.my_cookie \/ e.state \notin Opening
    THEN Ignored(e)
    ELSE Outcome([Stop(e, T1) EXCEPT !.stored_init = FALSE, !.stored_cookie_echo = FALSE,
                                     !.state = "Established"],
                 <<Packet("COOKIE_ACK")>>, "ok", FALSE)
HandleCookieEcho(e) ==
    CASE ~e.my_cookie \/ e.state \notin Opening \cup {"Established"} -> Ignored(e)
      [] e.my_cookie /\ e.state = "Established" ->
           Outcome(e, <<Packet("COOKIE_ACK")>>, "none", FALSE)
      [] e.my_cookie /\ e.state \in Opening ->
           Outcome([Stop(e, T1) EXCEPT !.stored_init = FALSE, !.stored_cookie_echo = FALSE,
                                       !.state = "Established"],
                   <<Packet("COOKIE_ACK")>>, "ok", FALSE)

BugHandleCookieAck(e) ==                       \* the stored echo stays stored
    IF e.state # "CookieEchoed"
    THEN Ignored(e)
    ELSE Outcome([Stop(e, {"T1Cookie"}) EXCEPT !.state = "Established"],
                 <<>>, "ok", FALSE)
HandleCookieAck(e) ==
    IF e.state # "CookieEchoed"
    THEN Ignored(e)
    ELSE Outcome([Stop(e, {"T1Cookie"}) EXCEPT !.stored_cookie_echo = FALSE,
                                               !.state = "Established"],
                 <<>>, "ok", FALSE)

\* handle_data of the one chunk: no state is asked for.
HandleData(e) ==
    IF e.peer_last_tsn = 0
    THEN Ignored([e EXCEPT !.peer_last_tsn = 1, !.got = 1])
    ELSE Ignored(e)

\* handle_chunk, after check_packet discarded an INIT with a tag.
Handle(e, p) ==
    CASE p.type = "INIT" -> IF p.zero_tag THEN HandleInit(e) ELSE Ignored(e)
      [] p.type = "INIT_ACK" -> HandleInitAck(e)
      [] p.type = "COOKIE_ECHO" -> HandleCookieEcho(e)
      [] p.type = "COOKIE_ACK" -> HandleCookieAck(e)
      [] p.type = "DATA" -> HandleData(e)

\* on_retransmission_timeout and on_retransmission_failure, for expiry n.
Expired(e, id, n) ==
    CASE id = "T1Init" /\ n <= MaxInitRetrans ->
           Outcome(e, SendInit(e), "none", FALSE)
      [] id = "T1Init" /\ n > MaxInitRetrans -> Outcome(e, <<>>, "ErrHandshakeInitAck", FALSE)
      [] id = "T1Cookie" /\ n <= MaxInitRetrans ->
           Outcome(e, SendCookieEcho(e), "none", FALSE)
      [] id = "T1Cookie" /\ n > MaxInitRetrans -> Outcome(e, <<>>, "ErrHandshakeCookieEcho", FALSE)

-----------------------------------------------------------------------------
(* Steps.                                                                  *)

\* A timer that the handler stopped may have expired already and be waiting
\* for the mutex.
LateExpiries(e, e1) ==
    {{}} \cup (IF orderly \/ spurious = MaxSpurious THEN {}
               ELSE {{<<id, e.timers[id] + 1>>} :
                        id \in {i \in T1 : e.timers[i] # Off /\ e1.timers[i] = Off}})

\* The first message of the channel is the result: its receiver is dropped.
FirstResult(x, done) == IF result[x] = "none" THEN done ELSE result[x]

\* read_loop closes the association on an error; its packets stay unsent.
Apply(x, o, toX) ==
    /\ \E late \in LateExpiries(assoc[x], o.assoc) :
           /\ assoc' = [assoc EXCEPT ![x] =
                [(IF o.err THEN [Stop(o.assoc, T1) EXCEPT !.state = "Closed"] ELSE o.assoc)
                    EXCEPT !.late = @ \cup late]]
           /\ spurious' = spurious + (IF late = {} THEN 0 ELSE 1)
    /\ dead' = [dead EXCEPT ![x] = @ \/ o.err]
    /\ result' = [result EXCEPT ![x] = FirstResult(x, o.done)]
    /\ net' = [net EXCEPT ![x] = toX, ![Other(x)] = @ \o (IF dead[x] THEN <<>> ELSE o.out)]
    /\ UNCHANGED <<role, orderly>>

\* The is_client block of Association::new, which takes the mutex after the
\* loops were spawned.
StartClient(x) ==
    /\ ~started[x]
    /\ started' = [started EXCEPT ![x] = TRUE]
    /\ LET e == [assoc[x] EXCEPT !.state = "CookieWait", !.stored_init = TRUE]
       IN  /\ assoc' = [assoc EXCEPT ![x] = Start(e, "T1Init")]
           /\ net' = [net EXCEPT ![Other(x)] = @ \o (IF dead[x] THEN <<>> ELSE SendInit(e))]
    /\ UNCHANGED <<role, dead, result, orderly, losses, dups, spurious>>

\* The i-th packet on its way is handed to the read loop; equal packets are
\* interchangeable.
Recv(x) ==
    /\ ~dead[x]
    /\ \E i \in 1 .. Len(net[x]) :
         /\ orderly => i = 1
         /\ \A j \in 1 .. (i - 1) : net[x][j] # net[x][i]
         /\ \/ /\ Apply(x, Handle(assoc[x], net[x][i]), RemoveAt(net[x], i))
               /\ dups' = dups
            \/ /\ dups < MaxDup
               /\ dups' = dups + 1
               /\ Apply(x, Handle(assoc[x], net[x][i]), net[x])
    /\ UNCHANGED <<started, losses>>

\* Nothing is on its way to a live association: what an RTO longer than a
\* round trip makes likely when T1 expires.
Quiet == \A x \in Peers : started[x] /\ (dead[x] \/ net[x] = <<>>)

\* A running timer expires; after the failure its task ends.
T1Expire(x) ==
    /\ \/ Quiet /\ spurious' = spurious
       \/ ~Quiet /\ ~orderly /\ spurious < MaxSpurious /\ spurious' = spurious + 1
    /\ \E id \in T1 :
         LET n == assoc[x].timers[id] + 1
             e == [assoc[x] EXCEPT !.timers[id] = IF n > MaxInitRetrans THEN Off ELSE n]
             o == Expired(e, id, n)
         IN  /\ assoc[x].timers[id] # Off
             /\ assoc' = [assoc EXCEPT ![x] = e]
             /\ result' = [result EXCEPT ![x] = FirstResult(x, o.done)]
             /\ net' = [net EXCEPT ![Other(x)] = @ \o (IF dead[x] THEN <<>> ELSE o.out)]
    /\ UNCHANGED <<role, started, dead, orderly, losses, dups>>

\* An expiry that waited for the mutex while its timer was stopped.
LateExpiry(x) ==
    /\ \E l \in assoc[x].late :
         LET e == [assoc[x] EXCEPT !.late = @ \ {l}]
             o == Expired(e, l[1], l[2])
         IN  /\ assoc' = [assoc EXCEPT ![x] = e]
             /\ result' = [result EXCEPT ![x] = FirstResult(x, o.done)]
             /\ net' = [net EXCEPT ![Other(x)] = @ \o (IF dead[x] THEN <<>> ELSE o.out)]
    /\ UNCHANGED <<role, started, dead, orderly, losses, dups, spurious>>

\* The write loop of an established association sends data once client() or
\* server() returned it.
SendData(x) ==
    /\ started[x] /\ result[x] = "ok" /\ ~dead[x]
    /\ assoc[x].state = "Established"
    /\ assoc[x].sent = 0
    /\ assoc' = [assoc EXCEPT ![x].sent = 1]
    /\ net' = [net EXCEPT ![Other(x)] = Append(@, Packet("DATA"))]
    /\ UNCHANGED <<role, started, dead, result, orderly, losses, dups, spurious>>

Lose(x) ==
    /\ losses < MaxLoss
    /\ losses' = losses + 1
    /\ \E i \in 1 .. Len(net[x]) : net' = [net EXCEPT ![x] = RemoveAt(@, i)]
    /\ UNCHANGED <<role, assoc, started, dead, result, orderly, dups, spurious>>

Next == \E x \in Peers :
    StartClient(x) \/ Recv(x) \/ T1Expire(x) \/ LateExpiry(x) \/ SendData(x) \/ Lose(x)

\* The runtime finishes the constructors, polls the read loops and the timer
\* tasks; nobody has to send data and nothing has to be lost.
Fairness == \A x \in Peers :
    WF_vars(StartClient(x)) /\ WF_vars(Recv(x)) /\ WF_vars(T1Expire(x)) /\ WF_vars(LateExpiry(x))

Spec == Init /\ [][Next]_vars
FairSpec == Spec /\ Fairness

-----------------------------------------------------------------------------
(* Properties.                                                             *)

States == Opening \cup {"Established"}
Types == {"INIT", "INIT_ACK", "COOKIE_ECHO", "COOKIE_ACK", "DATA"}
Results == {"none", "ok", "ErrHandshakeInitAck", "ErrHandshakeCookieEcho"}

\* Every field has its type; a side that is Established has the tag and the
\* initial TSN that its handlers use from then on, its T1 timers are off and
\* nothing is stored, so that neither a retransmission nor a failure can follow
\* but one already waiting.
TypeOK ==
    /\ assoc \in [Peers ->
         [state : States, my_cookie : BOOLEAN, stored_init : BOOLEAN,
          stored_cookie_echo : BOOLEAN, peer_tag : BOOLEAN, peer_last_tsn : {Unset, 0, 1},
          timers : [T1 -> Off .. MaxInitRetrans],
          late : SUBSET (T1 \X (1 .. (MaxInitRetrans + 1))), sent : 0 .. 1, got : 0 .. 1]]
    /\ \A x \in Peers :
         /\ started[x] \in BOOLEAN /\ dead[x] \in BOOLEAN /\ result[x] \in Results
         /\ \A i \in 1 .. Len(net[x]) : net[x][i] \in [type : Types, zero_tag : BOOLEAN]
         /\ assoc[x].state = "Established" =>
               /\ assoc[x].peer_tag /\ assoc[x].peer_last_tsn # Unset
               /\ assoc[x].timers = [id \in T1 |-> Off]
               /\ ~assoc[x].stored_init /\ ~assoc[x].stored_cookie_echo

\* Whoever may send data has a peer that knows its initial TSN, so no DATA,
\* however early, is measured against the zero of a fresh association.
DataIsUnderstood ==
    \A x \in Peers :
        assoc[x].state = "Established" \/ assoc[x].sent = 1 => assoc[Other(x)].peer_last_tsn # Unset

\* With a server on one side, the last TSN in sequence is never forgotten: no
\* late, repeated or reordered INIT or INIT ACK rewinds it.
NeverRewinds ==
    (\E x \in Peers : role[x] = "server") =>
        \A x \in Peers : assoc[x].got = 1 => assoc[x].peer_last_tsn = 1

\* The read loop may answer an INIT before the is_client block has run: every
\* INIT of this side then carries the tag it learned and the peer discards it.
\* It may even get as far as Established, and the block sets that back to
\* CookieWait.
AnsweredEarly == \E x \in Peers : ~started[x] /\ assoc[x].peer_tag
SetBack == \E x \in Peers : ~started[x] /\ assoc[x].state = "Established"

\* On a network that keeps the order of packets and loses no more of them than
\* T1 repeats, both constructors return, and both associations stay Established
\* unless the is_client block set one back.  A client that answered before its
\* is_client block has one pair of T1 timers less to recover with, so its case
\* is for a network that loses nothing.
Connects ==
    orderly /\ ([]~AnsweredEarly \/ [](losses = 0)) =>
        /\ <>[](\A x \in Peers : result[x] = "ok")
        /\ []~SetBack => <>[](\A x \in Peers : assoc[x].state = "Established")
=============================================================================
