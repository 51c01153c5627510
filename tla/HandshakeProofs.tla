--------------------------- MODULE HandshakeProofs ---------------------------
(***************************************************************************)
(* Theorems about Handshake, for every limit of retransmissions and for any *)
(* number of packets lost, repeated and reordered and of early expiries.    *)
(***************************************************************************)
EXTENDS Handshake, SequenceTheorems, TLAPS

Association ==
    [state : States, my_cookie : BOOLEAN, stored_init : BOOLEAN,
     stored_cookie_echo : BOOLEAN, peer_tag : BOOLEAN, peer_last_tsn : {Unset, 0, 1},
     timers : [T1 -> Off .. MaxInitRetrans],
     late : SUBSET (T1 \X (1 .. (MaxInitRetrans + 1))), sent : 0 .. 1, got : 0 .. 1]
AnyPacket == [type : Types, zero_tag : BOOLEAN]

Knows(e) == e.peer_last_tsn # Unset

\* An association on its own: a cookie, a stored COOKIE ECHO and the two states in
\* which T1-init is over come after the peer's initial TSN.
Sound(e) ==
    /\ e \in Association
    /\ e.my_cookie \/ e.stored_cookie_echo => Knows(e) /\ e.peer_tag
    /\ e.state \in {"CookieEchoed", "Established"} =>
          e.peer_tag /\ Knows(e) /\ ~e.stored_init /\ e.timers["T1Init"] = Off
    /\ e.state = "Established" => e.timers["T1Cookie"] = Off /\ ~e.stored_cookie_echo

\* What may be under way from an association: the two packets that complete the
\* peer's handshake show that it has the peer's initial TSN, however late they come.
MaySend(e) == {p \in AnyPacket : p.type \in {"COOKIE_ECHO", "COOKIE_ACK"} => Knows(e)}

IInv ==
    /\ started \in [Peers -> BOOLEAN] /\ dead \in [Peers -> BOOLEAN]
    /\ result \in [Peers -> Results]
    /\ assoc \in [Peers -> Association] /\ net \in [Peers -> Seq(AnyPacket)]
    /\ \A x \in Peers : Sound(assoc[x]) /\ net[Other(x)] \in Seq(MaySend(assoc[x]))
    /\ DataIsUnderstood

-----------------------------------------------------------------------------
LEMMA OtherPeer ==
    \A x \in Peers : Other(x) \in Peers /\ Other(x) # x /\ \A y \in Peers : y # x => y = Other(x)
  BY HandshakeAssumption DEF Peers, Other

LEMMA RemoveAtType ==
    ASSUME NEW S, NEW s \in Seq(S), NEW i \in 1 .. Len(s)
    PROVE  RemoveAt(s, i) \in Seq(S)
  BY DEF RemoveAt

LEMMA SeqMonotone ==
    ASSUME NEW S, NEW T, S \subseteq T, NEW s \in Seq(S)
    PROVE  s \in Seq(T)
  OBVIOUS

LEMMA ConcatType ==
    ASSUME NEW S, NEW s \in Seq(S), NEW t \in Seq(S)
    PROVE  s \o t \in Seq(S)
  OBVIOUS

LEMMA StillMaySend ==
    ASSUME NEW e, NEW e2, Knows(e) => Knows(e2), NEW s \in Seq(MaySend(e))
    PROVE  s \in Seq(MaySend(e2))
<1>1. MaySend(e) \subseteq MaySend(e2)
  BY DEF MaySend
<1> QED BY <1>1, SeqMonotone

\* What a handler, or an expiry, makes of an association e, and what it sends.
Follows(e, o) ==
    /\ Sound(o.assoc) /\ o.out \in Seq(MaySend(o.assoc)) /\ o.done \in Results
    /\ o.err \in BOOLEAN
    /\ Knows(e) => Knows(o.assoc)
    /\ o.assoc.sent = e.sent

LEMMA Sending ==
    ASSUME NEW e, NEW t \in Types, t \in {"COOKIE_ECHO", "COOKIE_ACK"} => Knows(e)
    PROVE  <<Packet(t)>> \in Seq(MaySend(e))
<1>1. Packet(t) \in MaySend(e)
  BY DEF MaySend, AnyPacket, Packet
<1> QED BY <1>1

SameButTimers(e, e2) ==
    /\ e2.state = e.state /\ e2.my_cookie = e.my_cookie /\ e2.stored_init = e.stored_init
    /\ e2.stored_cookie_echo = e.stored_cookie_echo /\ e2.peer_tag = e.peer_tag
    /\ e2.peer_last_tsn = e.peer_last_tsn /\ e2.sent = e.sent

LEMMA StopFields ==
    ASSUME NEW e \in Association, NEW ids
    PROVE  /\ Stop(e, ids) \in Association
           /\ \A id \in T1 : Stop(e, ids).timers[id] = IF id \in ids THEN Off ELSE e.timers[id]
           /\ SameButTimers(e, Stop(e, ids))
<1>1. Stop(e, ids) \in Association
  BY HandshakeAssumption DEF Stop, Association, T1, Off
<1>2. \A id \in T1 : Stop(e, ids).timers[id] = IF id \in ids THEN Off ELSE e.timers[id]
  BY DEF Stop, Association
<1>3. SameButTimers(e, Stop(e, ids))
  BY DEF Stop, Association, SameButTimers
<1> QED BY <1>1, <1>2, <1>3

LEMMA StartFields ==
    ASSUME NEW e \in Association, NEW id \in T1
    PROVE  /\ Start(e, id) \in Association
           /\ \A i \in T1 : i # id => Start(e, id).timers[i] = e.timers[i]
           /\ SameButTimers(e, Start(e, id))
<1>1. Start(e, id) \in Association
  BY HandshakeAssumption DEF Start, Association, T1, Off
<1>2. \A i \in T1 : i # id => Start(e, id).timers[i] = e.timers[i]
  BY DEF Start, Association
<1>3. SameButTimers(e, Start(e, id))
  BY DEF Start, Association, SameButTimers
<1> QED BY <1>1, <1>2, <1>3

\* An outcome with nothing but the association to look at.
LEMMA QuietFollows ==
    ASSUME NEW e, NEW e2, Sound(e2), NEW done \in Results, NEW err \in BOOLEAN,
           Knows(e) => Knows(e2), e2.sent = e.sent,
           NEW out \in Seq(MaySend(e2))
    PROVE  Follows(e, Outcome(e2, out, done, err))
  BY DEF Follows, Outcome

LEMMA IgnoredFollows ==
    ASSUME NEW e, Sound(e) PROVE Follows(e, Ignored(e))
  BY QuietFollows, <<>> \in Seq(MaySend(e)) DEF Ignored, Results

LEMMA InitFollows ==
    ASSUME NEW e, Sound(e)
    PROVE  /\ Follows(e, HandleInit(e))
           /\ HandleInit(e).assoc.state = e.state
<1>1. CASE e.state \notin Opening
  BY <1>1, QuietFollows, <<>> \in Seq(MaySend(e)) DEF HandleInit, Results, Outcome
<1>2. CASE e.state \in Opening
  <2> DEFINE e2 == [e EXCEPT !.peer_tag = TRUE, !.peer_last_tsn = 0, !.my_cookie = TRUE]
  <2>1. e2 \in Association
    BY DEF Sound, Association
  <2>2. /\ e2.peer_tag = TRUE /\ e2.peer_last_tsn = 0
        /\ e2.state = e.state /\ e2.stored_init = e.stored_init /\ e2.timers = e.timers
        /\ e2.stored_cookie_echo = e.stored_cookie_echo /\ e2.sent = e.sent
    BY DEF Sound, Association
  <2> HIDE DEF e2
  <2>3. Sound(e2) /\ Knows(e2)
    BY <2>1, <2>2 DEF Sound, Knows, Unset
  <2>4. Follows(e, Outcome(e2, <<Packet("INIT_ACK")>>, "none", FALSE))
    BY <2>2, <2>3, Sending, QuietFollows DEF Types, Results
  <2> QED BY <1>2, <2>2, <2>4 DEF HandleInit, e2, Outcome
<1> QED BY <1>1, <1>2

LEMMA InitAckFollows ==
    ASSUME NEW e, Sound(e)
    PROVE  /\ Follows(e, HandleInitAck(e))
           /\ HandleInitAck(e).assoc.state = "Established" => e.state = "Established"
<1>1. CASE e.state # "CookieWait"
  BY <1>1, IgnoredFollows DEF HandleInitAck, Ignored, Outcome
<1>2. CASE e.state = "CookieWait"
  <2> DEFINE s  == Stop(e, {"T1Init"})
             e1 == [s EXCEPT !.peer_tag = TRUE, !.peer_last_tsn = 0, !.stored_init = FALSE,
                             !.stored_cookie_echo = TRUE, !.state = "CookieEchoed"]
             e2 == Start(e1, "T1Cookie")
  <2>1. s \in Association /\ s.timers["T1Init"] = Off /\ s.sent = e.sent
    BY StopFields DEF Sound, SameButTimers, T1
  <2> HIDE DEF s
  <2>2. /\ e1 \in Association
        /\ e1.peer_tag = TRUE /\ e1.peer_last_tsn = 0 /\ e1.state = "CookieEchoed"
        /\ e1.stored_init = FALSE /\ e1.stored_cookie_echo = TRUE
        /\ e1.timers["T1Init"] = Off /\ e1.sent = e.sent
    BY <2>1 DEF Association, States, Opening, T1
  <2> HIDE DEF e1
  <2>3. /\ e2 \in Association
        /\ e2.peer_tag = TRUE /\ e2.peer_last_tsn = 0 /\ e2.state = "CookieEchoed"
        /\ e2.stored_init = FALSE
        /\ e2.timers["T1Init"] = Off /\ e2.sent = e.sent
    BY <2>2, StartFields DEF SameButTimers, T1
  <2> HIDE DEF e2
  <2>4. Sound(e2) /\ Knows(e2)
    BY <2>3 DEF Sound, Knows, Unset
  <2>5. SendCookieEcho(e1) \in Seq(MaySend(e2))
    BY <2>2, <2>4, Sending DEF SendCookieEcho, Types
  <2>6. Follows(e, Outcome(e2, SendCookieEcho(e1), "none", FALSE))
    BY <2>3, <2>4, <2>5, QuietFollows DEF Results
  <2>7. HandleInitAck(e) = Outcome(e2, SendCookieEcho(e1), "none", FALSE)
    BY <1>2 DEF HandleInitAck, s, e1, e2
  <2> QED BY <2>3, <2>6, <2>7 DEF Outcome
<1> QED BY <1>1, <1>2

LEMMA CookieEchoFollows ==
    ASSUME NEW e, Sound(e)
    PROVE  Follows(e, HandleCookieEcho(e))
<1>1. CASE ~e.my_cookie \/ e.state \notin Opening \cup {"Established"}
  BY <1>1, IgnoredFollows DEF HandleCookieEcho, Opening
<1>2. CASE e.my_cookie /\ e.state = "Established"
  <2>1. HandleCookieEcho(e) = Outcome(e, <<Packet("COOKIE_ACK")>>, "none", FALSE)
    BY <1>2 DEF HandleCookieEcho, Opening
  <2> QED
    BY <1>2, <2>1, QuietFollows, Sending DEF Sound, Types, Results
<1>3. CASE e.my_cookie /\ e.state \in Opening
  <2> DEFINE s  == Stop(e, T1)
             e2 == [s EXCEPT !.stored_init = FALSE, !.stored_cookie_echo = FALSE,
                             !.state = "Established"]
  <2>1. /\ s \in Association /\ s.sent = e.sent /\ s.peer_last_tsn = e.peer_last_tsn
        /\ s.peer_tag = e.peer_tag
        /\ \A id \in T1 : s.timers[id] = Off
    BY StopFields DEF Sound, SameButTimers
  <2> HIDE DEF s
  <2>2. /\ e2 \in Association
        /\ e2.peer_tag = e.peer_tag /\ e2.peer_last_tsn = e.peer_last_tsn
        /\ e2.state = "Established" /\ e2.sent = e.sent
        /\ e2.stored_init = FALSE /\ e2.stored_cookie_echo = FALSE
        /\ \A id \in T1 : e2.timers[id] = Off
    BY <2>1 DEF Association, States
  <2> HIDE DEF e2
  <2>3. Knows(e) /\ e.peer_tag
    BY <1>3 DEF Sound
  <2>4. Sound(e2) /\ Knows(e2)
    BY <2>2, <2>3 DEF Sound, Knows, T1
  <2>5. HandleCookieEcho(e) = Outcome(e2, <<Packet("COOKIE_ACK")>>, "ok", FALSE)
    BY <1>3 DEF HandleCookieEcho, Opening, s, e2
  <2> QED
    BY <2>2, <2>4, <2>5, QuietFollows, Sending DEF Types, Results
<1> QED BY <1>1, <1>2, <1>3 DEF Opening

LEMMA CookieAckFollows ==
    ASSUME NEW e, Sound(e)
    PROVE  Follows(e, HandleCookieAck(e))
<1>1. CASE e.state # "CookieEchoed"
  BY <1>1, IgnoredFollows DEF HandleCookieAck
<1>2. CASE e.state = "CookieEchoed"
  <2> DEFINE s  == Stop(e, {"T1Cookie"})
             e2 == [s EXCEPT !.stored_cookie_echo = FALSE, !.state = "Established"]
  <2>1. /\ s \in Association /\ s.sent = e.sent /\ s.peer_last_tsn = e.peer_last_tsn
        /\ s.peer_tag = e.peer_tag /\ s.stored_init = e.stored_init
        /\ \A id \in T1 : s.timers[id] = Off
    BY <1>2, StopFields DEF Sound, SameButTimers, T1
  <2> HIDE DEF s
  <2>2. /\ e2 \in Association
        /\ e2.peer_tag = e.peer_tag /\ e2.peer_last_tsn = e.peer_last_tsn
        /\ e2.state = "Established" /\ e2.sent = e.sent
        /\ e2.stored_init = e.stored_init /\ e2.stored_cookie_echo = FALSE
        /\ \A id \in T1 : e2.timers[id] = Off
    BY <2>1 DEF Association, States
  <2> HIDE DEF e2
  <2>3. Sound(e2) /\ Knows(e2)
    BY <1>2, <2>2 DEF Sound, Knows, T1
  <2>4. HandleCookieAck(e) = Outcome(e2, <<>>, "ok", FALSE)
    BY <1>2 DEF HandleCookieAck, s, e2
  <2> QED
    BY <2>2, <2>3, <2>4, QuietFollows, <<>> \in Seq(MaySend(e2)) DEF Results
<1> QED BY <1>1, <1>2

LEMMA DataFollows ==
    ASSUME NEW e, Sound(e)
    PROVE  /\ Follows(e, HandleData(e))
           /\ HandleData(e).assoc.state = e.state
<1>1. CASE e.peer_last_tsn # 0
  BY <1>1, IgnoredFollows DEF HandleData, Ignored, Outcome
<1>2. CASE e.peer_last_tsn = 0
  <2> DEFINE e2 == [e EXCEPT !.peer_last_tsn = 1, !.got = 1]
  <2>1. e2 \in Association
    <3>1. 1 \in 0 .. 1 /\ 1 \in {Unset, 0, 1}
      OBVIOUS
    <3> QED BY <3>1 DEF Sound, Association
  <2>2. /\ e2.peer_last_tsn = 1 /\ e2.peer_tag = e.peer_tag /\ e2.my_cookie = e.my_cookie
        /\ e2.state = e.state /\ e2.stored_init = e.stored_init /\ e2.timers = e.timers
        /\ e2.stored_cookie_echo = e.stored_cookie_echo /\ e2.sent = e.sent
    BY DEF Sound, Association
  <2> HIDE DEF e2
  <2>3. Sound(e2) /\ Knows(e2)
    BY <2>1, <2>2 DEF Sound, Knows, Unset
  <2>4. HandleData(e) = Ignored(e2)
    BY <1>2 DEF HandleData, e2
  <2>5. Follows(e, Outcome(e2, <<>>, "none", FALSE))
    BY <2>2, <2>3, QuietFollows, <<>> \in Seq(MaySend(e2)) DEF Results
  <2> QED BY <2>2, <2>4, <2>5 DEF Ignored, Outcome
<1> QED BY <1>1, <1>2

\* Only the two packets that show the peer's knowledge complete a handshake.
LEMMA HandleFollows ==
    ASSUME NEW e, Sound(e), NEW p \in AnyPacket
    PROVE  /\ Follows(e, Handle(e, p))
           /\ Handle(e, p).assoc.state = "Established" =>
                 e.state = "Established" \/ p.type \in {"COOKIE_ECHO", "COOKIE_ACK"}
<1>1. CASE p.type = "INIT"
  BY <1>1, InitFollows, IgnoredFollows DEF Handle, Ignored, Outcome
<1>2. CASE p.type = "INIT_ACK"
  BY <1>2, InitAckFollows DEF Handle
<1>3. CASE p.type = "COOKIE_ECHO"
  BY <1>3, CookieEchoFollows DEF Handle
<1>4. CASE p.type = "COOKIE_ACK"
  BY <1>4, CookieAckFollows DEF Handle
<1>5. CASE p.type = "DATA"
  BY <1>5, DataFollows DEF Handle
<1> QED BY <1>1, <1>2, <1>3, <1>4, <1>5 DEF AnyPacket, Types
-----------------------------------------------------------------------------
(* Steps.                                                                  *)

\* An association is replaced by one that knows no less, what it sends is put
\* behind what is under way, and what is under way to it may be taken.
LEMMA StepInv ==
    ASSUME IInv, NEW x \in Peers, NEW e2, Sound(e2), Knows(assoc[x]) => Knows(e2),
           e2.state = "Established" \/ e2.sent = 1 => Knows(assoc[Other(x)]),
           NEW out \in Seq(MaySend(e2)), NEW toX \in Seq(MaySend(assoc[Other(x)])),
           assoc' = [assoc EXCEPT ![x] = e2],
           net' = [net EXCEPT ![x] = toX, ![Other(x)] = @ \o out],
           started' \in [Peers -> BOOLEAN], dead' \in [Peers -> BOOLEAN],
           result' \in [Peers -> Results]
    PROVE  IInv'
<1> USE OtherPeer
<1>1. PICK y \in Peers : y = Other(x) /\ y # x /\ x = Other(y) /\ \A z \in Peers : z = x \/ z = y
  OBVIOUS
<1>2. /\ assoc'[x] = e2 /\ assoc'[y] = assoc[y]
      /\ net'[x] = toX /\ net'[y] = net[y] \o out
  BY <1>1 DEF IInv
<1>3. net[y] \in Seq(MaySend(e2))
  <2>1. net[y] \in Seq(MaySend(assoc[x]))
    BY <1>1 DEF IInv
  <2> QED BY <2>1, StillMaySend
<1>4. net'[y] \in Seq(MaySend(e2))
  <2>1. net[y] \o out \in Seq(MaySend(e2))
    BY <1>3, ConcatType
  <2> QED BY <1>2, <2>1
<1>5. \A z \in Peers : Sound(assoc'[z]) /\ net'[Other(z)] \in Seq(MaySend(assoc'[z]))
  BY <1>1, <1>2, <1>4 DEF IInv
<1>6. assoc' \in [Peers -> Association]
  BY DEF IInv, Sound
<1>7. net' \in [Peers -> Seq(AnyPacket)]
  <2>1. \A z \in Peers : net'[z] \in Seq(AnyPacket)
    BY <1>1, <1>5, SeqMonotone DEF MaySend
  <2> QED BY <2>1 DEF IInv
<1>8. DataIsUnderstood'
  BY <1>1, <1>2 DEF IInv, DataIsUnderstood, Knows
<1> QED BY <1>5, <1>6, <1>7, <1>8 DEF IInv

LEMMA InitInv == Init => IInv
<1> SUFFICES ASSUME Init PROVE IInv
  OBVIOUS
<1>1. NewAssociation \in Association
  BY HandshakeAssumption DEF NewAssociation, Association, States, Opening, Unset, Off, T1
<1>2. Sound(NewAssociation)
  BY <1>1 DEF Sound, NewAssociation
<1>3. \A x \in Peers : assoc[x] = NewAssociation /\ net[x] = <<>>
  BY DEF Init
<1>4. DataIsUnderstood
  BY <1>3 DEF DataIsUnderstood, NewAssociation
<1>5. \A x \in Peers : net[Other(x)] \in Seq(MaySend(assoc[x])) /\ net[x] \in Seq(AnyPacket)
  <2>1. \A S : <<>> \in Seq(S)
    OBVIOUS
  <2> QED BY <1>3, <2>1, OtherPeer
<1> QED BY <1>1, <1>2, <1>3, <1>4, <1>5 DEF Init, IInv, Results

\* More expiries may wait for the mutex; that alone is no news.
LEMMA LateSound ==
    ASSUME NEW e, Sound(e), NEW late \in SUBSET (T1 \X (1 .. (MaxInitRetrans + 1)))
    PROVE  LET e2 == [e EXCEPT !.late = late]
           IN  /\ Sound(e2) /\ (Knows(e2) <=> Knows(e))
               /\ e2.sent = e.sent /\ e2.state = e.state /\ MaySend(e2) = MaySend(e)
<1> DEFINE e2 == [e EXCEPT !.late = late]
<1>1. e2 \in Association
  BY DEF Sound, Association
<1>2. SameButTimers(e, e2) /\ e2.timers = e.timers
  BY DEF Sound, Association, SameButTimers
<1> HIDE DEF e2
<1>3. (Knows(e2) <=> Knows(e)) /\ e2.sent = e.sent /\ e2.state = e.state
  BY <1>2 DEF SameButTimers, Knows
<1>4. Sound(e2)
  BY <1>1, <1>2, <1>3 DEF Sound, SameButTimers
<1> QED BY <1>3, <1>4 DEF MaySend, e2

LEMMA ApplyInv ==
    ASSUME IInv, NEW x \in Peers, NEW o, Follows(assoc[x], o),
           o.assoc.state = "Established" => Knows(assoc[Other(x)]),
           NEW toX \in Seq(MaySend(assoc[Other(x)])), Apply(x, o, toX), UNCHANGED started
    PROVE  IInv'
<1>1. Sound(assoc[x])
  BY DEF IInv
<1> DEFINE e1 == IF o.err THEN [Stop(o.assoc, T1) EXCEPT !.state = "Closed"] ELSE o.assoc
<1>2. /\ Sound(e1) /\ e1.sent = assoc[x].sent
      /\ Knows(o.assoc) <=> Knows(e1)
      /\ e1.state = "Established" => o.assoc.state = "Established"
  <2>1. CASE ~o.err
    BY <2>1 DEF Follows
  <2>2. CASE o.err
    <3> DEFINE t == Stop(o.assoc, T1)
    <3>1. t \in Association /\ SameButTimers(o.assoc, t)
      BY StopFields DEF Follows, Sound
    <3> HIDE DEF t
    <3> DEFINE c == [t EXCEPT !.state = "Closed"]
    <3>2. /\ c \in Association /\ c.state = "Closed"
          /\ c.my_cookie = t.my_cookie /\ c.stored_cookie_echo = t.stored_cookie_echo
          /\ c.peer_tag = t.peer_tag /\ c.peer_last_tsn = t.peer_last_tsn /\ c.sent = t.sent
      BY <3>1 DEF Association, States, Opening
    <3> HIDE DEF c
    <3>3. Sound(c) /\ (Knows(o.assoc) <=> Knows(c)) /\ c.sent = assoc[x].sent
      BY <3>1, <3>2 DEF Follows, Sound, Knows, SameButTimers
    <3> QED BY <2>2, <3>2, <3>3 DEF c, t
  <2> QED BY <2>1, <2>2 DEF Follows
<1>3. o.out \in Seq(MaySend(e1)) /\ (Knows(assoc[x]) => Knows(e1))
  BY <1>2 DEF Follows, MaySend
<1>4. e1.state = "Established" \/ e1.sent = 1 => Knows(assoc[Other(x)])
  BY <1>2 DEF IInv, DataIsUnderstood, Knows
<1>5. PICK late \in LateExpiries(assoc[x], o.assoc) :
        assoc' = [assoc EXCEPT ![x] = [e1 EXCEPT !.late = @ \cup late]]
  BY DEF Apply
<1> HIDE DEF e1
<1>6. late \in SUBSET (T1 \X (1 .. (MaxInitRetrans + 1)))
  <2>1. \A id \in T1 : assoc[x].timers[id] # Off =>
          assoc[x].timers[id] + 1 \in 1 .. (MaxInitRetrans + 1)
    BY <1>1, HandshakeAssumption DEF Sound, Association, Off
  <2> QED BY <1>5, <2>1 DEF LateExpiries
<1> DEFINE l2 == e1.late \cup late
           e2 == [e1 EXCEPT !.late = l2]
<1>7. l2 \in SUBSET (T1 \X (1 .. (MaxInitRetrans + 1)))
  BY <1>2, <1>6 DEF Sound, Association
<1>8. assoc' = [assoc EXCEPT ![x] = e2]
  BY <1>5
<1> HIDE DEF l2
<1>9. /\ Sound(e2) /\ (Knows(assoc[x]) => Knows(e2))
      /\ e2.state = "Established" \/ e2.sent = 1 => Knows(assoc[Other(x)])
      /\ MaySend(e2) = MaySend(e1)
  BY <1>2, <1>3, <1>4, <1>7, LateSound
<1> HIDE DEF e2
<1> DEFINE out == IF dead[x] THEN <<>> ELSE o.out
<1>10. out \in Seq(MaySend(e2))
  BY <1>3, <1>9
<1>11. /\ net' = [net EXCEPT ![x] = toX, ![Other(x)] = @ \o out]
       /\ dead' \in [Peers -> BOOLEAN] /\ result' \in [Peers -> Results]
       /\ started' \in [Peers -> BOOLEAN]
  <2>1. net' = [net EXCEPT ![x] = toX, ![Other(x)] = @ \o out]
    BY DEF Apply
  <2>2. dead' \in [Peers -> BOOLEAN]
    BY DEF Apply, IInv, Follows
  <2>3. result' \in [Peers -> Results]
    BY DEF Apply, IInv, Follows, FirstResult
  <2> QED BY <2>1, <2>2, <2>3 DEF IInv
<1> HIDE DEF out
<1> QED BY <1>8, <1>9, <1>10, <1>11, StepInv

LEMMA RecvInv == ASSUME IInv, NEW x \in Peers, Recv(x) PROVE IInv'
<1>1. PICK i \in 1 .. Len(net[x]) :
        \/ Apply(x, Handle(assoc[x], net[x][i]), RemoveAt(net[x], i))
        \/ Apply(x, Handle(assoc[x], net[x][i]), net[x])
  BY DEF Recv
<1> DEFINE p == net[x][i]
<1>2. Other(x) \in Peers /\ Other(Other(x)) = x
  BY OtherPeer
<1>3. net[x] \in Seq(MaySend(assoc[Other(x)]))
  BY <1>2 DEF IInv
<1>4. p \in MaySend(assoc[Other(x)])
  BY <1>3
<1>5. Sound(assoc[x]) /\ p \in AnyPacket
  BY <1>4 DEF IInv, MaySend
<1>6. Follows(assoc[x], Handle(assoc[x], p))
  BY <1>5, HandleFollows
<1>7. Handle(assoc[x], p).assoc.state = "Established" => Knows(assoc[Other(x)])
  BY <1>4, <1>5, HandleFollows DEF IInv, DataIsUnderstood, MaySend, Knows
<1>8. RemoveAt(net[x], i) \in Seq(MaySend(assoc[Other(x)]))
  BY <1>3, RemoveAtType
<1> QED BY <1>1, <1>3, <1>6, <1>7, <1>8, ApplyInv DEF Recv

\* An association that sends without having received anything.
LEMMA LocalStepInv ==
    ASSUME IInv, NEW x \in Peers, NEW e2, Sound(e2), Knows(assoc[x]) => Knows(e2),
           e2.state = "Established" \/ e2.sent = 1 => Knows(assoc[Other(x)]),
           NEW out \in Seq(MaySend(e2)),
           assoc' = [assoc EXCEPT ![x] = e2],
           net' = [net EXCEPT ![Other(x)] = @ \o out],
           started' \in [Peers -> BOOLEAN], UNCHANGED dead,
           result' \in [Peers -> Results]
    PROVE  IInv'
<1>1. net[x] \in Seq(MaySend(assoc[Other(x)])) /\ Other(x) # x
  BY OtherPeer DEF IInv
<1>2. net' = [net EXCEPT ![x] = net[x], ![Other(x)] = @ \o out]
  BY <1>1, OtherPeer DEF IInv
<1>3. dead' \in [Peers -> BOOLEAN]
  BY DEF IInv
<1> QED BY <1>1, <1>2, <1>3, StepInv

LEMMA StartClientInv == ASSUME IInv, NEW x \in Peers, StartClient(x) PROVE IInv'
<1> DEFINE e  == [assoc[x] EXCEPT !.state = "CookieWait", !.stored_init = TRUE]
           e2 == Start(e, "T1Init")
           out == IF dead[x] THEN <<>> ELSE SendInit(e)
<1>1. /\ e \in Association /\ e.state = "CookieWait"
      /\ e.my_cookie = assoc[x].my_cookie /\ e.stored_cookie_echo = assoc[x].stored_cookie_echo
      /\ e.peer_tag = assoc[x].peer_tag /\ e.peer_last_tsn = assoc[x].peer_last_tsn
      /\ e.sent = assoc[x].sent
  <2>1. assoc[x] \in Association
    BY DEF IInv
  <2>2. e \in Association
    BY <2>1 DEF Association, States, Opening
  <2> QED BY <2>1, <2>2 DEF Association
<1>2. SendInit(e) \in Seq(MaySend(e2))
  <2>1. InitPacket(e) \in MaySend(e2)
    BY <1>1 DEF InitPacket, MaySend, AnyPacket, Types, Association
  <2> QED BY <2>1 DEF SendInit
<1>3. /\ assoc' = [assoc EXCEPT ![x] = e2]
      /\ net' = [net EXCEPT ![Other(x)] = @ \o out]
  BY DEF StartClient
<1> HIDE DEF e
<1>4. e2 \in Association /\ SameButTimers(e, e2)
  BY <1>1, StartFields DEF T1
<1> HIDE DEF e2
<1>5. /\ Sound(e2) /\ (Knows(assoc[x]) => Knows(e2))
      /\ e2.state = "Established" \/ e2.sent = 1 => Knows(assoc[Other(x)])
  BY <1>1, <1>4 DEF SameButTimers, Sound, Knows, IInv, DataIsUnderstood
<1>6. out \in Seq(MaySend(e2))
  BY <1>2
<1> HIDE DEF out
<1>7. started' \in [Peers -> BOOLEAN] /\ UNCHANGED dead /\ result' \in [Peers -> Results]
  BY DEF StartClient, IInv
<1> QED BY <1>3, <1>5, <1>6, <1>7, LocalStepInv

LEMMA ExpiredSends ==
    ASSUME NEW e, Sound(e), NEW id \in T1, NEW n \in Nat
    PROVE  Expired(e, id, n).out \in Seq(MaySend(e)) /\ Expired(e, id, n).done \in Results
<1>1. SendInit(e) \in Seq(MaySend(e))
  <2>1. InitPacket(e) \in MaySend(e)
    BY DEF InitPacket, MaySend, AnyPacket, Types, Sound, Association
  <2> QED BY <2>1 DEF SendInit
<1>2. SendCookieEcho(e) \in Seq(MaySend(e))
  <2>1. e.stored_cookie_echo => Packet("COOKIE_ECHO") \in MaySend(e)
    BY DEF Packet, MaySend, AnyPacket, Types, Sound
  <2> QED BY <2>1 DEF SendCookieEcho
<1>3. <<>> \in Seq(MaySend(e))
  OBVIOUS
<1>4. CASE id = "T1Init" /\ n <= MaxInitRetrans
  BY <1>1, <1>4 DEF Expired, Outcome, Results
<1>5. CASE id = "T1Init" /\ n > MaxInitRetrans
  <2>1. ~(n <= MaxInitRetrans)
    BY <1>5, HandshakeAssumption
  <2>2. Expired(e, id, n) = Outcome(e, <<>>, "ErrHandshakeInitAck", FALSE)
    BY <1>5, <2>1 DEF Expired
  <2> QED BY <1>3, <2>2 DEF Outcome, Results
<1>6. CASE id = "T1Cookie" /\ n <= MaxInitRetrans
  <2>1. ~(n > MaxInitRetrans)
    BY <1>6, HandshakeAssumption
  <2>2. Expired(e, id, n) = Outcome(e, SendCookieEcho(e), "none", FALSE)
    BY <1>6, <2>1 DEF Expired
  <2> QED BY <1>2, <2>2 DEF Outcome, Results
<1>7. CASE id = "T1Cookie" /\ n > MaxInitRetrans
  <2>1. ~(n <= MaxInitRetrans)
    BY <1>7, HandshakeAssumption
  <2>2. Expired(e, id, n) = Outcome(e, <<>>, "ErrHandshakeCookieEcho", FALSE)
    BY <1>7, <2>1 DEF Expired
  <2> QED BY <1>3, <2>2 DEF Outcome, Results
<1> QED BY <1>4, <1>5, <1>6, <1>7, HandshakeAssumption DEF T1

LEMMA T1ExpireInv == ASSUME IInv, NEW x \in Peers, T1Expire(x) PROVE IInv'
<1>1. Sound(assoc[x])
  BY DEF IInv
<1>2. PICK id \in T1 :
        /\ assoc[x].timers[id] # Off
        /\ LET n == assoc[x].timers[id] + 1
               e == [assoc[x] EXCEPT !.timers[id] = IF n > MaxInitRetrans THEN Off ELSE n]
               o == Expired(e, id, n)
           IN  /\ assoc' = [assoc EXCEPT ![x] = e]
               /\ result' = [result EXCEPT ![x] = FirstResult(x, o.done)]
               /\ net' = [net EXCEPT ![Other(x)] = @ \o (IF dead[x] THEN <<>> ELSE o.out)]
  BY DEF T1Expire
<1> DEFINE n == assoc[x].timers[id] + 1
           v == IF n > MaxInitRetrans THEN Off ELSE n
           e == [assoc[x] EXCEPT !.timers[id] = v]
           out == IF dead[x] THEN <<>> ELSE Expired(e, id, n).out
<1>3. n \in Nat /\ v \in Off .. MaxInitRetrans
  BY <1>1, <1>2, HandshakeAssumption DEF Sound, Association, Off
<1> HIDE DEF n, v
<1>4. /\ e \in Association /\ SameButTimers(assoc[x], e)
      /\ \A i \in T1 : i # id => e.timers[i] = assoc[x].timers[i]
  <2>1. e \in Association
    BY <1>1, <1>3 DEF Sound, Association
  <2>2. SameButTimers(assoc[x], e)
    BY <1>1 DEF Sound, Association, SameButTimers
  <2>3. \A i \in T1 : i # id => e.timers[i] = assoc[x].timers[i]
    BY <1>1 DEF Sound, Association
  <2> QED BY <2>1, <2>2, <2>3
<1>5. /\ assoc' = [assoc EXCEPT ![x] = e]
      /\ result' = [result EXCEPT ![x] = FirstResult(x, Expired(e, id, n).done)]
      /\ net' = [net EXCEPT ![Other(x)] = @ \o out]
  BY <1>2 DEF n, v
<1> HIDE DEF e
<1>6. /\ Sound(e) /\ (Knows(assoc[x]) => Knows(e))
      /\ e.state = "Established" \/ e.sent = 1 => Knows(assoc[Other(x)])
  <2>1. id = "T1Init" => e.state \notin {"CookieEchoed", "Established"}
    BY <1>1, <1>2, <1>4 DEF Sound, SameButTimers
  <2>2. id = "T1Cookie" => e.state # "Established"
    BY <1>1, <1>2, <1>4 DEF Sound, SameButTimers
  <2>3. Sound(e)
    BY <1>1, <1>4, <2>1, <2>2 DEF Sound, SameButTimers, Knows, T1
  <2> QED BY <2>3, <1>4 DEF SameButTimers, Knows, IInv, DataIsUnderstood
<1>7. out \in Seq(MaySend(e)) /\ Expired(e, id, n).done \in Results
  BY <1>3, <1>6, ExpiredSends
<1> HIDE DEF out
<1>8. started' \in [Peers -> BOOLEAN] /\ UNCHANGED dead /\ result' \in [Peers -> Results]
  BY <1>5, <1>7 DEF T1Expire, IInv, FirstResult
<1> QED BY <1>5, <1>6, <1>7, <1>8, LocalStepInv

LEMMA LateExpiryInv == ASSUME IInv, NEW x \in Peers, LateExpiry(x) PROVE IInv'
<1>1. Sound(assoc[x])
  BY DEF IInv
<1>2. PICK l \in assoc[x].late :
        LET e == [assoc[x] EXCEPT !.late = @ \ {l}]
            o == Expired(e, l[1], l[2])
        IN  /\ assoc' = [assoc EXCEPT ![x] = e]
            /\ result' = [result EXCEPT ![x] = FirstResult(x, o.done)]
            /\ net' = [net EXCEPT ![Other(x)] = @ \o (IF dead[x] THEN <<>> ELSE o.out)]
  BY DEF LateExpiry
<1> DEFINE rest == assoc[x].late \ {l}
           e == [assoc[x] EXCEPT !.late = rest]
           out == IF dead[x] THEN <<>> ELSE Expired(e, l[1], l[2]).out
<1>3. /\ rest \in SUBSET (T1 \X (1 .. (MaxInitRetrans + 1)))
      /\ l[1] \in T1 /\ l[2] \in Nat
  BY <1>1, HandshakeAssumption DEF Sound, Association
<1>4. /\ assoc' = [assoc EXCEPT ![x] = e]
      /\ result' = [result EXCEPT ![x] = FirstResult(x, Expired(e, l[1], l[2]).done)]
      /\ net' = [net EXCEPT ![Other(x)] = @ \o out]
  BY <1>2
<1> HIDE DEF rest
<1>5. /\ Sound(e) /\ (Knows(e) <=> Knows(assoc[x]))
      /\ e.sent = assoc[x].sent /\ e.state = assoc[x].state
  BY <1>1, <1>3, LateSound
<1> HIDE DEF e
<1>6. e.state = "Established" \/ e.sent = 1 => Knows(assoc[Other(x)])
  BY <1>5 DEF IInv, DataIsUnderstood, Knows
<1>7. out \in Seq(MaySend(e)) /\ Expired(e, l[1], l[2]).done \in Results
  BY <1>3, <1>5, ExpiredSends
<1> HIDE DEF out
<1>8. started' \in [Peers -> BOOLEAN] /\ UNCHANGED dead /\ result' \in [Peers -> Results]
  BY <1>4, <1>7 DEF LateExpiry, IInv, FirstResult
<1> QED BY <1>4, <1>5, <1>6, <1>7, <1>8, LocalStepInv

LEMMA SendDataInv == ASSUME IInv, NEW x \in Peers, SendData(x) PROVE IInv'
<1> DEFINE e == [assoc[x] EXCEPT !.sent = 1]
<1>1. e \in Association
  <2>1. 1 \in 0 .. 1
    OBVIOUS
  <2>2. assoc[x] \in Association
    BY DEF IInv
  <2> QED BY <2>1, <2>2 DEF Association
<1>2. /\ e.state = assoc[x].state /\ e.my_cookie = assoc[x].my_cookie
      /\ e.stored_init = assoc[x].stored_init /\ e.timers = assoc[x].timers
      /\ e.stored_cookie_echo = assoc[x].stored_cookie_echo /\ e.peer_tag = assoc[x].peer_tag
      /\ e.peer_last_tsn = assoc[x].peer_last_tsn
  BY DEF IInv, Association
<1>3. assoc' = [assoc EXCEPT ![x] = e]
  BY DEF SendData
<1> HIDE DEF e
<1>4. Sound(e) /\ (Knows(assoc[x]) => Knows(e))
  BY <1>1, <1>2 DEF IInv, Sound, Knows
<1>5. Knows(assoc[Other(x)])
  BY DEF SendData, IInv, DataIsUnderstood, Knows
<1>6. <<Packet("DATA")>> \in Seq(MaySend(e))
  BY Sending DEF Types
<1>7. net' = [net EXCEPT ![Other(x)] = @ \o <<Packet("DATA")>>]
  <2>1. net[Other(x)] \in Seq(AnyPacket)
    BY OtherPeer DEF IInv
  <2>2. Packet("DATA") \in AnyPacket
    BY DEF Packet, AnyPacket, Types
  <2>3. Append(net[Other(x)], Packet("DATA")) = net[Other(x)] \o <<Packet("DATA")>>
    BY <2>1, <2>2, AppendIsConcat
  <2>4. net' = [net EXCEPT ![Other(x)] = Append(net[Other(x)], Packet("DATA"))]
    BY DEF SendData
  <2> QED BY <2>3, <2>4
<1>8. started' \in [Peers -> BOOLEAN] /\ UNCHANGED dead /\ result' \in [Peers -> Results]
  BY DEF SendData, IInv
<1> QED BY <1>3, <1>4, <1>5, <1>6, <1>7, <1>8, LocalStepInv

LEMMA LoseInv == ASSUME IInv, NEW x \in Peers, Lose(x) PROVE IInv'
<1>1. PICK i \in 1 .. Len(net[x]) : net' = [net EXCEPT ![x] = RemoveAt(net[x], i)]
  BY DEF Lose
<1>2. Other(x) \in Peers /\ Other(Other(x)) = x
  BY OtherPeer
<1>3. /\ RemoveAt(net[x], i) \in Seq(AnyPacket)
      /\ RemoveAt(net[x], i) \in Seq(MaySend(assoc[Other(x)]))
  <2>1. net[x] \in Seq(AnyPacket) /\ net[x] \in Seq(MaySend(assoc[Other(x)]))
    BY <1>2 DEF IInv
  <2> QED BY <2>1, RemoveAtType
<1>4. \A y \in Peers : net'[Other(y)] \in Seq(MaySend(assoc[y]))
  BY <1>1, <1>2, <1>3, OtherPeer DEF IInv
<1>5. net' \in [Peers -> Seq(AnyPacket)]
  BY <1>1, <1>3 DEF IInv
<1> QED BY <1>4, <1>5 DEF Lose, IInv, DataIsUnderstood

LEMMA NextInv == ASSUME IInv, [Next]_vars PROVE IInv'
<1>1. CASE Next
  <2>1. PICK x \in Peers :
          StartClient(x) \/ Recv(x) \/ T1Expire(x) \/ LateExpiry(x) \/ SendData(x) \/ Lose(x)
    BY <1>1 DEF Next
  <2> QED
    BY <2>1, StartClientInv, RecvInv, T1ExpireInv, LateExpiryInv, SendDataInv, LoseInv
<1>2. CASE UNCHANGED vars
  BY <1>2 DEF vars, IInv, DataIsUnderstood
<1> QED BY <1>1, <1>2

-----------------------------------------------------------------------------
\* Every association is sound and what is under way from it shows no more than it
\* knows, whatever the network does.
THEOREM Invariance == Spec => []IInv
<1>1. Init => IInv
  BY InitInv
<1>2. IInv /\ [Next]_vars => IInv'
  BY NextInv
<1> QED BY <1>1, <1>2, PTL DEF Spec

\* However handshakes cross and packets are repeated, whoever sends data has a peer
\* that knows its initial TSN.
THEOREM DataAlwaysUnderstood == Spec => []DataIsUnderstood
<1>1. IInv => DataIsUnderstood
  BY DEF IInv
<1> QED BY <1>1, Invariance, PTL

\* Types, and what an established association may rely on.
THEOREM TypeCorrect == Spec => []TypeOK
<1>1. IInv => TypeOK
  <2> SUFFICES ASSUME IInv PROVE TypeOK
    OBVIOUS
  <2>1. \A x \in Peers : \A i \in 1 .. Len(net[x]) : net[x][i] \in AnyPacket
    <3> TAKE x \in Peers
    <3>1. net[x] \in Seq(AnyPacket)
      BY DEF IInv
    <3> QED BY <3>1
  <2>2. \A x \in Peers : assoc[x].state = "Established" =>
          /\ assoc[x].peer_tag /\ assoc[x].peer_last_tsn # Unset
          /\ assoc[x].timers = [id \in T1 |-> Off]
          /\ ~assoc[x].stored_init /\ ~assoc[x].stored_cookie_echo
    BY DEF IInv, Sound, Knows, Association, T1
  <2> QED BY <2>1, <2>2 DEF IInv, TypeOK, Association, AnyPacket
<1> QED BY <1>1, Invariance, PTL

-----------------------------------------------------------------------------
(* The last TSN in sequence, when one side is a server.  The server never  *)
(* asks, so the client never gets an INIT; data reaches the server only    *)
(* after the server was established, from when on an INIT is an error.     *)

Kept(e) == e.got = 1 => e.peer_last_tsn = 1
ServerSide(e) == ~e.stored_init /\ e.state \in {"Closed", "Established"}
ClientSide(e) == ~e.my_cookie /\ (Knows(e) => e.state \in {"CookieEchoed", "Established"})

\* The server was established, and is, unless an error closed it.
Stands(s) == assoc[s].state = "Established" \/ dead[s]

\* What may be under way from each side, given whether the server stands.
FromServer(up) == {p \in AnyPacket : p.type # "INIT" /\ (p.type = "COOKIE_ACK" => up)}
FromClient(up) == {p \in AnyPacket : p.type = "DATA" => up}

RoleInv(s, c) ==
    /\ started[s]
    /\ ServerSide(assoc[s]) /\ Kept(assoc[s])
    /\ ClientSide(assoc[c]) /\ Kept(assoc[c])
    /\ ~started[c] => assoc[c].state = "Closed"
    /\ assoc[s].got = 1 \/ assoc[c].state = "Established" \/ assoc[c].sent = 1 => Stands(s)
    /\ net[c] \in Seq(FromServer(Stands(s)))
    /\ net[s] \in Seq(FromClient(Stands(s)))

SameRole(e, e2) ==
    /\ e2.state = e.state /\ e2.my_cookie = e.my_cookie /\ e2.stored_init = e.stored_init
    /\ e2.peer_last_tsn = e.peer_last_tsn /\ e2.got = e.got /\ e2.sent = e.sent

LEMMA SingleSends ==
    ASSUME NEW up, NEW t \in Types
    PROVE  /\ t \notin {"INIT", "COOKIE_ACK"} => <<Packet(t)>> \in Seq(FromServer(up))
           /\ t = "COOKIE_ACK" /\ up => <<Packet(t)>> \in Seq(FromServer(up))
           /\ t # "DATA" => <<Packet(t)>> \in Seq(FromClient(up))
           /\ t = "DATA" /\ up => <<Packet(t)>> \in Seq(FromClient(up))
           /\ <<>> \in Seq(FromServer(up)) /\ <<>> \in Seq(FromClient(up))
<1>1. /\ t \notin {"INIT", "COOKIE_ACK"} => Packet(t) \in FromServer(up)
      /\ t = "COOKIE_ACK" /\ up => Packet(t) \in FromServer(up)
      /\ t # "DATA" => Packet(t) \in FromClient(up)
      /\ t = "DATA" /\ up => Packet(t) \in FromClient(up)
  BY DEF FromServer, FromClient, AnyPacket, Packet
<1> QED BY <1>1

LEMMA StopKeeps ==
    ASSUME NEW e \in Association, NEW ids PROVE Stop(e, ids).got = e.got
  BY DEF Stop, Association

\* A server's handlers keep it established and never ask.
LEMMA ServerHandles ==
    ASSUME NEW e, Sound(e), ServerSide(e), Kept(e), e.got = 1 => e.state = "Established",
           NEW p \in AnyPacket
    PROVE  LET o == Handle(e, p) IN
           /\ ServerSide(o.assoc) /\ Kept(o.assoc)
           /\ e.state = "Established" => o.assoc.state = "Established"
           /\ o.assoc.got = 1 => e.got = 1 \/ p.type = "DATA"
           /\ o.out \in Seq(FromServer(o.assoc.state = "Established"))
<1> DEFINE Good(o) ==
             /\ ServerSide(o.assoc) /\ Kept(o.assoc)
             /\ e.state = "Established" => o.assoc.state = "Established"
             /\ o.assoc.got = 1 => e.got = 1 \/ p.type = "DATA"
             /\ o.out \in Seq(FromServer(o.assoc.state = "Established"))
<1>1. \A err : Good(Outcome(e, <<>>, "none", err))
  BY SingleSends DEF Outcome, Types
<1>2. Good(Ignored(e))
  BY <1>1 DEF Ignored
<1>3. CASE p.type = "INIT"
  <2>1. CASE e.state = "Established" \/ ~p.zero_tag
    BY <1>1, <1>2, <1>3, <2>1 DEF Handle, HandleInit, Opening
  <2>2. CASE e.state # "Established" /\ p.zero_tag
    <3> DEFINE e2 == [e EXCEPT !.peer_tag = TRUE, !.peer_last_tsn = 0, !.my_cookie = TRUE]
    <3>1. e2.state = e.state /\ e2.stored_init = e.stored_init /\ e2.got = e.got
      BY DEF Sound, Association
    <3>2. Handle(e, p) = Outcome(e2, <<Packet("INIT_ACK")>>, "none", FALSE)
      BY <1>3, <2>2 DEF Handle, HandleInit, ServerSide, Opening
    <3> HIDE DEF e2
    <3>3. e2.got # 1
      BY <2>2, <3>1
    <3>4. ServerSide(e2) /\ Kept(e2)
      BY <3>1, <3>3 DEF ServerSide, Kept
    <3>5. <<Packet("INIT_ACK")>> \in Seq(FromServer(e2.state = "Established"))
      BY SingleSends DEF Types
    <3> QED BY <2>2, <3>2, <3>3, <3>4, <3>5 DEF Outcome
  <2> QED BY <2>1, <2>2
<1>4. CASE p.type = "INIT_ACK"
  BY <1>2, <1>4 DEF Handle, HandleInitAck, ServerSide
<1>5. CASE p.type = "COOKIE_ECHO"
  <2>1. CASE ~e.my_cookie
    BY <1>2, <1>5, <2>1 DEF Handle, HandleCookieEcho, Opening
  <2>2. CASE e.my_cookie /\ e.state = "Established"
    <3>1. Handle(e, p) = Outcome(e, <<Packet("COOKIE_ACK")>>, "none", FALSE)
      BY <1>5, <2>2 DEF Handle, HandleCookieEcho, Opening
    <3>2. <<Packet("COOKIE_ACK")>> \in Seq(FromServer(e.state = "Established"))
      BY <2>2, SingleSends DEF Types
    <3> QED BY <3>1, <3>2 DEF Outcome
  <2>3. CASE e.my_cookie /\ e.state # "Established"
    <3> DEFINE s  == Stop(e, T1)
               e2 == [s EXCEPT !.stored_init = FALSE, !.stored_cookie_echo = FALSE,
                               !.state = "Established"]
    <3>1. s \in Association /\ s.got = e.got /\ s.peer_last_tsn = e.peer_last_tsn
      BY StopFields, StopKeeps DEF Sound, SameButTimers
    <3>2. Handle(e, p) = Outcome(e2, <<Packet("COOKIE_ACK")>>, "ok", FALSE)
      BY <1>5, <2>3 DEF Handle, HandleCookieEcho, Opening, ServerSide
    <3> HIDE DEF s
    <3>3. /\ e2.got = e.got /\ e2.peer_last_tsn = e.peer_last_tsn
          /\ e2.stored_init = FALSE /\ e2.state = "Established"
      BY <3>1 DEF Association
    <3> HIDE DEF e2
    <3>4. <<Packet("COOKIE_ACK")>> \in Seq(FromServer(e2.state = "Established"))
      BY <3>3, SingleSends DEF Types
    <3> QED BY <3>2, <3>3, <3>4 DEF Outcome, ServerSide, Kept
  <2> QED BY <2>1, <2>2, <2>3
<1>6. CASE p.type = "COOKIE_ACK"
  BY <1>2, <1>6 DEF Handle, HandleCookieAck, ServerSide
<1>7. CASE p.type = "DATA"
  <2>1. CASE e.peer_last_tsn # 0
    BY <1>2, <1>7, <2>1 DEF Handle, HandleData
  <2>2. CASE e.peer_last_tsn = 0
    <3> DEFINE e2 == [e EXCEPT !.peer_last_tsn = 1, !.got = 1]
    <3>1. e2.state = e.state /\ e2.stored_init = e.stored_init /\ e2.peer_last_tsn = 1
      BY DEF Sound, Association
    <3>2. Handle(e, p) = Outcome(e2, <<>>, "none", FALSE)
      BY <1>7, <2>2 DEF Handle, HandleData, Ignored
    <3> HIDE DEF e2
    <3> QED BY <1>7, <3>1, <3>2, SingleSends DEF Outcome, ServerSide, Kept, Types
  <2> QED BY <2>1, <2>2
<1> HIDE DEF Good
<1> QED BY <1>3, <1>4, <1>5, <1>6, <1>7 DEF AnyPacket, Types

\* A client's handlers, as no INIT comes: the INIT ACK is taken once, no cookie is
\* ever given out, and only a COOKIE ACK establishes it.
LEMMA ClientHandles ==
    ASSUME NEW e, Sound(e), ClientSide(e), Kept(e), NEW p \in AnyPacket, p.type # "INIT"
    PROVE  LET o == Handle(e, p) IN
           /\ ClientSide(o.assoc) /\ Kept(o.assoc) /\ o.err = FALSE
           /\ e.state = "Closed" => o.assoc.state = "Closed"
           /\ o.assoc.state = "Established" => e.state = "Established" \/ p.type = "COOKIE_ACK"
           /\ o.out \in Seq(FromClient(FALSE))
<1> DEFINE Good(o) ==
             /\ ClientSide(o.assoc) /\ Kept(o.assoc) /\ o.err = FALSE
             /\ e.state = "Closed" => o.assoc.state = "Closed"
             /\ o.assoc.state = "Established" => e.state = "Established" \/ p.type = "COOKIE_ACK"
             /\ o.out \in Seq(FromClient(FALSE))
<1>1. Good(Ignored(e))
  BY SingleSends DEF Ignored, Outcome, Types
<1>2. CASE p.type = "INIT_ACK"
  <2>1. CASE e.state # "CookieWait"
    BY <1>1, <1>2, <2>1 DEF Handle, HandleInitAck
  <2>2. CASE e.state = "CookieWait"
    <3> DEFINE s  == Stop(e, {"T1Init"})
               e1 == [s EXCEPT !.peer_tag = TRUE, !.peer_last_tsn = 0, !.stored_init = FALSE,
                               !.stored_cookie_echo = TRUE, !.state = "CookieEchoed"]
               e2 == Start(e1, "T1Cookie")
    <3>1. Handle(e, p) = Outcome(e2, SendCookieEcho(e1), "none", FALSE)
      BY <1>2, <2>2 DEF Handle, HandleInitAck
    <3>2. s \in Association /\ s.my_cookie = e.my_cookie /\ s.got = e.got
      BY StopFields, StopKeeps DEF Sound, SameButTimers
    <3> HIDE DEF s
    <3>3. /\ e1.my_cookie = e.my_cookie /\ e1.got = e.got /\ e1.peer_last_tsn = 0
          /\ e1.state = "CookieEchoed"
      BY <3>2 DEF Association
    <3> HIDE DEF e1
    <3>4. /\ e2.my_cookie = e1.my_cookie /\ e2.got = e1.got
          /\ e2.peer_last_tsn = e1.peer_last_tsn /\ e2.state = e1.state
      <4>1. e1 \in Association
        BY <3>2 DEF e1, Association, States, Opening
      <4> QED BY <4>1 DEF Start, Association
    <3> HIDE DEF e2
    <3>5. e.got # 1
      BY <2>2 DEF ClientSide, Kept, Knows, Unset
    <3>6. ClientSide(e2) /\ Kept(e2)
      BY <3>3, <3>4, <3>5 DEF ClientSide, Kept
    <3>7. SendCookieEcho(e1) \in Seq(FromClient(FALSE))
      BY SingleSends DEF SendCookieEcho, Types
    <3> DEFINE out == SendCookieEcho(e1)
    <3> HIDE DEF out
    <3>8. Good(Outcome(e2, out, "none", FALSE))
      BY <2>2, <3>3, <3>4, <3>6, <3>7 DEF Outcome, out
    <3> QED BY <3>1, <3>8 DEF out
  <2> QED BY <2>1, <2>2
<1>3. CASE p.type = "COOKIE_ECHO"
  BY <1>1, <1>3 DEF Handle, HandleCookieEcho, ClientSide, Opening
<1>4. CASE p.type = "COOKIE_ACK"
  <2>1. CASE e.state # "CookieEchoed"
    BY <1>1, <1>4, <2>1 DEF Handle, HandleCookieAck
  <2>2. CASE e.state = "CookieEchoed"
    <3> DEFINE s  == Stop(e, {"T1Cookie"})
               e2 == [s EXCEPT !.stored_cookie_echo = FALSE, !.state = "Established"]
    <3>1. Handle(e, p) = Outcome(e2, <<>>, "ok", FALSE)
      BY <1>4, <2>2 DEF Handle, HandleCookieAck
    <3>2. /\ s \in Association /\ s.my_cookie = e.my_cookie /\ s.got = e.got
          /\ s.peer_last_tsn = e.peer_last_tsn
      BY StopFields, StopKeeps DEF Sound, SameButTimers
    <3> HIDE DEF s
    <3>3. /\ e2.my_cookie = e.my_cookie /\ e2.got = e.got
          /\ e2.peer_last_tsn = e.peer_last_tsn /\ e2.state = "Established"
      BY <3>2 DEF Association
    <3> HIDE DEF e2
    <3>4. ClientSide(e2) /\ Kept(e2)
      BY <3>3 DEF ClientSide, Kept
    <3> QED BY <1>4, <2>2, <3>1, <3>4, SingleSends DEF Outcome, Types
  <2> QED BY <2>1, <2>2
<1>5. CASE p.type = "DATA"
  <2>1. CASE e.peer_last_tsn # 0
    BY <1>1, <1>5, <2>1 DEF Handle, HandleData
  <2>2. CASE e.peer_last_tsn = 0
    <3> DEFINE e2 == [e EXCEPT !.peer_last_tsn = 1, !.got = 1]
    <3>1. e2.state = e.state /\ e2.my_cookie = e.my_cookie /\ e2.peer_last_tsn = 1
      BY DEF Sound, Association
    <3>2. Handle(e, p) = Outcome(e2, <<>>, "none", FALSE)
      BY <1>5, <2>2 DEF Handle, HandleData, Ignored
    <3> HIDE DEF e2
    <3>3. ClientSide(e2) /\ Kept(e2)
      BY <2>2, <3>1 DEF ClientSide, Kept, Knows, Unset
    <3> QED BY <3>1, <3>2, <3>3, SingleSends DEF Outcome, Types
  <2> QED BY <2>1, <2>2
<1> HIDE DEF Good
<1> QED BY <1>2, <1>3, <1>4, <1>5 DEF AnyPacket, Types

\* A later moment at which the server stands lets no fewer packets be under way.
LEMMA StandsMonotone ==
    ASSUME NEW up, NEW up2, up => up2
    PROVE  /\ \A q \in Seq(FromServer(up)) : q \in Seq(FromServer(up2))
           /\ \A q \in Seq(FromClient(up)) : q \in Seq(FromClient(up2))
<1>1. FromServer(up) \subseteq FromServer(up2) /\ FromClient(up) \subseteq FromClient(up2)
  BY DEF FromServer, FromClient
<1> QED BY <1>1, SeqMonotone

LEMMA ServerStep ==
    ASSUME IInv, NEW s \in Peers, NEW c, c = Other(s), RoleInv(s, c),
           NEW e2, ServerSide(e2), Kept(e2),
           assoc[s].state = "Established" => e2.state = "Established" \/ dead'[s],
           e2.got = 1 => e2.state = "Established" \/ dead'[s],
           dead[s] => dead'[s],
           NEW out \in Seq(FromServer(e2.state = "Established" \/ dead'[s])),
           NEW toS \in Seq(FromClient(Stands(s))),
           assoc'[s] = e2, assoc'[c] = assoc[c],
           net'[s] = toS, net'[c] = net[c] \o out,
           UNCHANGED started
    PROVE  RoleInv(s, c)'
<1>1. c \in Peers /\ c # s
  BY OtherPeer
<1>2. /\ assoc'[s] = e2 /\ assoc'[c] = assoc[c]
      /\ net'[s] = toS /\ net'[c] = net[c] \o out
  OBVIOUS
<1>3. Stands(s)' <=> (e2.state = "Established" \/ dead'[s])
  BY <1>2 DEF Stands
<1>4. Stands(s) => Stands(s)'
  BY <1>3 DEF Stands
<1>5. toS \in Seq(FromClient(Stands(s)'))
  BY <1>4, StandsMonotone
<1>6. net[c] \o out \in Seq(FromServer(Stands(s)'))
  <2>1. net[c] \in Seq(FromServer(Stands(s)')) /\ out \in Seq(FromServer(Stands(s)'))
    BY <1>3, <1>4, StandsMonotone DEF RoleInv
  <2> QED BY <2>1, ConcatType
<1>7. (assoc[s].got = 1 \/ assoc[c].state = "Established" \/ assoc[c].sent = 1 => Stands(s))'
  BY <1>2, <1>3, <1>4 DEF RoleInv
<1>8. FromServer(Stands(s))' = FromServer(Stands(s)') /\ FromClient(Stands(s))' = FromClient(Stands(s)')
  BY DEF FromServer, FromClient
<1> QED BY <1>1, <1>2, <1>5, <1>6, <1>7, <1>8 DEF RoleInv

LEMMA ClientStep ==
    ASSUME IInv, NEW s \in Peers, NEW c, c = Other(s), RoleInv(s, c),
           NEW e2, ClientSide(e2), Kept(e2),
           e2.state = "Established" \/ e2.sent = 1 => Stands(s),
           ~started'[c] => e2.state = "Closed",
           NEW out \in Seq(FromClient(Stands(s))),
           NEW toC \in Seq(FromServer(Stands(s))),
           assoc'[c] = e2, assoc'[s] = assoc[s],
           net'[c] = toC, net'[s] = net[s] \o out,
           started'[s], dead'[s] = dead[s]
    PROVE  RoleInv(s, c)'
<1>1. c \in Peers /\ c # s
  BY OtherPeer
<1>2. /\ assoc'[c] = e2 /\ assoc'[s] = assoc[s]
      /\ net'[c] = toC /\ net'[s] = net[s] \o out
  OBVIOUS
<1>3. Stands(s)' = Stands(s)
  BY <1>2 DEF Stands
<1>4. net[s] \o out \in Seq(FromClient(Stands(s)))
  BY ConcatType DEF RoleInv
<1>5. FromServer(Stands(s))' = FromServer(Stands(s)') /\ FromClient(Stands(s))' = FromClient(Stands(s)')
  BY DEF FromServer, FromClient
<1> QED BY <1>1, <1>2, <1>3, <1>4, <1>5 DEF RoleInv

-----------------------------------------------------------------------------
(* Steps, seen by a server and its client.                                 *)

LEMMA LateRole ==
    ASSUME NEW e \in Association, NEW late
    PROVE  SameRole(e, [e EXCEPT !.late = late])
  BY DEF SameRole, Association

LEMMA RoleSame ==
    ASSUME NEW e, NEW e2, SameRole(e, e2)
    PROVE  /\ ServerSide(e) => ServerSide(e2)
           /\ ClientSide(e) => ClientSide(e2)
           /\ Kept(e) => Kept(e2)
  BY DEF SameRole, ServerSide, ClientSide, Kept, Knows

LEMMA RecvServer ==
    ASSUME IInv, NEW s \in Peers, NEW c, c = Other(s), RoleInv(s, c), Recv(s)
    PROVE  RoleInv(s, c)'
<1>a. PICK i \in 1 .. Len(net[s]) :
        \/ Apply(s, Handle(assoc[s], net[s][i]), RemoveAt(net[s], i))
        \/ Apply(s, Handle(assoc[s], net[s][i]), net[s])
  BY DEF Recv
<1>1. PICK toS \in {RemoveAt(net[s], i), net[s]} :
        Apply(s, Handle(assoc[s], net[s][i]), toS)
  BY <1>a
<1> DEFINE p == net[s][i]
           o == Handle(assoc[s], p)
<1>2. net[s] \in Seq(FromClient(Stands(s)))
  BY DEF RoleInv
<1>3. p \in FromClient(Stands(s)) /\ toS \in Seq(FromClient(Stands(s)))
  BY <1>2, RemoveAtType
<1>4. ~dead[s] /\ UNCHANGED started
  BY DEF Recv
<1>5. Sound(assoc[s]) /\ p \in AnyPacket
  BY <1>3 DEF IInv, FromClient
<1>6. assoc[s].got = 1 \/ p.type = "DATA" => assoc[s].state = "Established"
  BY <1>3, <1>4 DEF RoleInv, Stands, FromClient
<1>7. Follows(assoc[s], o)
  BY <1>5, HandleFollows
<1>8. /\ ServerSide(o.assoc) /\ Kept(o.assoc)
      /\ assoc[s].state = "Established" => o.assoc.state = "Established"
      /\ o.assoc.got = 1 => o.assoc.state = "Established"
      /\ o.out \in Seq(FromServer(o.assoc.state = "Established"))
  <2>1. ServerSide(assoc[s]) /\ Kept(assoc[s])
    BY DEF RoleInv
  <2> QED BY <1>5, <1>6, <2>1, ServerHandles
<1>9. Apply(s, o, toS)
  BY <1>1
<1> HIDE DEF o
<1> DEFINE e1 == IF o.err THEN [Stop(o.assoc, T1) EXCEPT !.state = "Closed"] ELSE o.assoc
<1>10. /\ ServerSide(e1) /\ Kept(e1) /\ e1 \in Association
       /\ ~o.err => e1.state = o.assoc.state
       /\ e1.got = o.assoc.got
  <2>1. CASE ~o.err
    BY <1>7, <1>8, <2>1 DEF Follows, Sound
  <2>2. CASE o.err
    <3> DEFINE t == Stop(o.assoc, T1)
    <3>1. t \in Association /\ SameButTimers(o.assoc, t) /\ t.got = o.assoc.got
      BY <1>7, StopFields, StopKeeps DEF Follows, Sound
    <3> HIDE DEF t
    <3> DEFINE d == [t EXCEPT !.state = "Closed"]
    <3>2. /\ d \in Association /\ d.state = "Closed" /\ d.got = t.got
          /\ d.stored_init = t.stored_init /\ d.peer_last_tsn = t.peer_last_tsn
      BY <3>1 DEF Association, States, Opening
    <3> HIDE DEF d
    <3>3. ServerSide(d) /\ Kept(d)
      BY <1>8, <3>1, <3>2 DEF ServerSide, Kept, SameButTimers
    <3> QED BY <2>2, <3>1, <3>2, <3>3 DEF d, t
  <2> QED BY <2>1, <2>2
<1>11. PICK late \in LateExpiries(assoc[s], o.assoc) :
        assoc' = [assoc EXCEPT ![s] = [e1 EXCEPT !.late = @ \cup late]]
  BY <1>9 DEF Apply
<1> HIDE DEF e1
<1> DEFINE l2 == e1.late \cup late
           e2 == [e1 EXCEPT !.late = l2]
<1>12. assoc'[s] = e2 /\ assoc'[c] = assoc[c]
  BY <1>11, OtherPeer DEF IInv
<1> HIDE DEF l2
<1>13. SameRole(e1, e2)
  BY <1>10, LateRole
<1> HIDE DEF e2
<1>14. ServerSide(e2) /\ Kept(e2) /\ e2.state = e1.state /\ e2.got = e1.got
  BY <1>10, <1>13, RoleSame DEF SameRole
<1>15. dead'[s] <=> o.err
  BY <1>4, <1>7, <1>9 DEF Apply, IInv, Follows
<1>16. o.out \in Seq(FromServer(e2.state = "Established" \/ dead'[s]))
  BY <1>8, <1>10, <1>14, <1>15, StandsMonotone
<1>17. net'[s] = toS /\ net'[c] = net[c] \o o.out
  BY <1>4, <1>9, OtherPeer DEF Apply, IInv
<1>18. /\ assoc[s].state = "Established" => e2.state = "Established" \/ dead'[s]
       /\ e2.got = 1 => e2.state = "Established" \/ dead'[s]
  BY <1>8, <1>10, <1>14, <1>15
<1> HIDE DEF p
<1> QED BY <1>3, <1>4, <1>12, <1>14, <1>16, <1>17, <1>18, ServerStep

LEMMA RecvClient ==
    ASSUME IInv, NEW s \in Peers, NEW c, c = Other(s), RoleInv(s, c), Recv(c)
    PROVE  RoleInv(s, c)'
<1>0. c \in Peers /\ Other(c) = s /\ c # s
  BY OtherPeer
<1>a. PICK i \in 1 .. Len(net[c]) :
        \/ Apply(c, Handle(assoc[c], net[c][i]), RemoveAt(net[c], i))
        \/ Apply(c, Handle(assoc[c], net[c][i]), net[c])
  BY DEF Recv
<1>1. PICK toC \in {RemoveAt(net[c], i), net[c]} :
        Apply(c, Handle(assoc[c], net[c][i]), toC)
  BY <1>a
<1> DEFINE p == net[c][i]
           o == Handle(assoc[c], p)
<1>2. net[c] \in Seq(FromServer(Stands(s)))
  BY DEF RoleInv
<1>3. p \in FromServer(Stands(s)) /\ toC \in Seq(FromServer(Stands(s)))
  BY <1>2, RemoveAtType
<1>4. ~dead[c] /\ UNCHANGED started
  BY DEF Recv
<1>5. Sound(assoc[c]) /\ p \in AnyPacket /\ p.type # "INIT"
  BY <1>0, <1>3 DEF IInv, FromServer
<1>6. p.type = "COOKIE_ACK" => Stands(s)
  BY <1>3 DEF FromServer
<1>7. Follows(assoc[c], o)
  BY <1>5, HandleFollows
<1>8. /\ ClientSide(o.assoc) /\ Kept(o.assoc) /\ o.err = FALSE
      /\ assoc[c].state = "Closed" => o.assoc.state = "Closed"
      /\ o.assoc.state = "Established" => Stands(s)
      /\ o.out \in Seq(FromClient(FALSE))
  <2>1. ClientSide(assoc[c]) /\ Kept(assoc[c])
    BY DEF RoleInv
  <2>2. assoc[c].state = "Established" => Stands(s)
    BY DEF RoleInv
  <2> QED BY <1>5, <1>6, <2>1, <2>2, ClientHandles
<1>9. Apply(c, o, toC)
  BY <1>1
<1> HIDE DEF o
<1> DEFINE e1 == o.assoc
<1>11. PICK late \in LateExpiries(assoc[c], o.assoc) :
        assoc' = [assoc EXCEPT ![c] = [e1 EXCEPT !.late = @ \cup late]]
  BY <1>8, <1>9 DEF Apply
<1>10. e1 \in Association /\ e1.sent = assoc[c].sent
  BY <1>7 DEF Follows, Sound
<1> DEFINE l2 == e1.late \cup late
           e2 == [e1 EXCEPT !.late = l2]
<1>12. assoc'[c] = e2 /\ assoc'[s] = assoc[s]
  BY <1>0, <1>11 DEF IInv
<1> HIDE DEF l2
<1>13. SameRole(e1, e2)
  BY <1>10, LateRole
<1> HIDE DEF e2
<1>14. /\ ClientSide(e2) /\ Kept(e2) /\ e2.state = o.assoc.state
       /\ e2.sent = assoc[c].sent
  BY <1>8, <1>10, <1>13, RoleSame DEF SameRole
<1> HIDE DEF e1
<1>15. dead'[s] = dead[s]
  BY <1>0, <1>9 DEF Apply, IInv
<1>16. o.out \in Seq(FromClient(Stands(s)))
  BY <1>8, StandsMonotone
<1>17. net'[c] = toC /\ net'[s] = net[s] \o o.out
  BY <1>0, <1>4, <1>9 DEF Apply, IInv
<1>18. /\ e2.state = "Established" \/ e2.sent = 1 => Stands(s)
       /\ ~started'[c] => e2.state = "Closed"
       /\ started'[s]
  BY <1>4, <1>8, <1>14 DEF RoleInv
<1> HIDE DEF p
<1> QED BY <1>3, <1>12, <1>14, <1>15, <1>16, <1>17, <1>18, ClientStep

\* An association that sends without having received anything.
LEMMA LocalServer ==
    ASSUME IInv, NEW s \in Peers, NEW c, c = Other(s), RoleInv(s, c),
           NEW e2, SameRole(assoc[s], e2), UNCHANGED started, dead'[s] = dead[s],
           NEW out \in Seq(FromServer(Stands(s))),
           assoc'[s] = e2, assoc'[c] = assoc[c],
           net'[s] = net[s], net'[c] = net[c] \o out
    PROVE  RoleInv(s, c)'
<1>1. net[s] \in Seq(FromClient(Stands(s)))
  BY DEF RoleInv
<1>2. ServerSide(e2) /\ Kept(e2) /\ e2.state = assoc[s].state /\ e2.got = assoc[s].got
  BY RoleSame DEF RoleInv, SameRole
<1>3. out \in Seq(FromServer(e2.state = "Established" \/ dead'[s]))
  BY <1>2, StandsMonotone DEF Stands
<1>4. /\ e2.got = 1 => e2.state = "Established" \/ dead'[s]
      /\ assoc[s].state = "Established" => e2.state = "Established" \/ dead'[s]
      /\ dead[s] => dead'[s]
  BY <1>2 DEF RoleInv, Stands
<1>5. UNCHANGED started
  OBVIOUS
<1> QED BY <1>1, <1>2, <1>3, <1>4, <1>5, ServerStep

LEMMA LocalClient ==
    ASSUME IInv, NEW s \in Peers, NEW c, c = Other(s), RoleInv(s, c),
           NEW e2, SameRole(assoc[c], e2), UNCHANGED started, dead'[s] = dead[s],
           NEW out \in Seq(FromClient(Stands(s))),
           assoc'[c] = e2, assoc'[s] = assoc[s],
           net'[c] = net[c], net'[s] = net[s] \o out
    PROVE  RoleInv(s, c)'
<1>1. net[c] \in Seq(FromServer(Stands(s)))
  BY DEF RoleInv
<1>2. ClientSide(e2) /\ Kept(e2) /\ e2.state = assoc[c].state /\ e2.sent = assoc[c].sent
  BY RoleSame DEF RoleInv, SameRole
<1>3. /\ e2.state = "Established" \/ e2.sent = 1 => Stands(s)
      /\ ~started'[c] => e2.state = "Closed"
      /\ started'[s] /\ dead'[s] = dead[s]
  BY <1>2 DEF RoleInv
<1> QED BY <1>1, <1>2, <1>3, ClientStep

\* An expiry, late or not, sends what is stored: a server stores nothing.
LEMMA ExpiredRole ==
    ASSUME NEW e, NEW id \in T1, NEW n \in Nat, NEW up, NEW silent \in BOOLEAN
    PROVE  LET out == IF silent THEN <<>> ELSE Expired(e, id, n).out IN
           /\ ~e.stored_init => out \in Seq(FromServer(up))
           /\ e.peer_tag \in BOOLEAN => out \in Seq(FromClient(up))
<1> DEFINE Stored == {<<>>, SendInit(e), SendCookieEcho(e)}
<1>1. Expired(e, id, n).out \in Stored
  <2>1. CASE id = "T1Init" /\ n <= MaxInitRetrans
    BY <2>1 DEF Expired, Outcome
  <2>2. CASE id = "T1Init" /\ n > MaxInitRetrans
    <3>1. ~(n <= MaxInitRetrans)
      BY <2>2, HandshakeAssumption
    <3> QED BY <2>2, <3>1 DEF Expired, Outcome
  <2>3. CASE id = "T1Cookie" /\ n <= MaxInitRetrans
    <3>1. ~(n > MaxInitRetrans)
      BY <2>3, HandshakeAssumption
    <3> QED BY <2>3, <3>1 DEF Expired, Outcome
  <2>4. CASE id = "T1Cookie" /\ n > MaxInitRetrans
    <3>1. ~(n <= MaxInitRetrans)
      BY <2>4, HandshakeAssumption
    <3> QED BY <2>4, <3>1 DEF Expired, Outcome
  <2> QED BY <2>1, <2>2, <2>3, <2>4, HandshakeAssumption DEF T1
<1>2. SendCookieEcho(e) \in Seq(FromServer(up)) /\ SendCookieEcho(e) \in Seq(FromClient(up))
  BY SingleSends DEF SendCookieEcho, Types
<1>3. ~e.stored_init => SendInit(e) \in Seq(FromServer(up))
  BY SingleSends DEF SendInit, Types
<1>4. e.peer_tag \in BOOLEAN => SendInit(e) \in Seq(FromClient(up))
  <2>1. e.peer_tag \in BOOLEAN => InitPacket(e) \in FromClient(up)
    BY DEF InitPacket, FromClient, AnyPacket, Types
  <2> QED BY <2>1 DEF SendInit
<1>5. <<>> \in Seq(FromServer(up)) /\ <<>> \in Seq(FromClient(up))
  OBVIOUS
<1> HIDE DEF Stored
<1>6. \A q \in Stored : /\ ~e.stored_init => q \in Seq(FromServer(up))
                        /\ e.peer_tag \in BOOLEAN => q \in Seq(FromClient(up))
  BY <1>2, <1>3, <1>4, <1>5 DEF Stored
<1> QED BY <1>1, <1>5, <1>6

LEMMA StartRole ==
    ASSUME IInv, NEW s \in Peers, NEW c, c = Other(s), RoleInv(s, c),
           NEW x \in Peers, StartClient(x)
    PROVE  RoleInv(s, c)'
<1>1. x = c /\ c \in Peers /\ c # s /\ Other(c) = s
  BY OtherPeer DEF StartClient, RoleInv
<1> DEFINE e  == [assoc[c] EXCEPT !.state = "CookieWait", !.stored_init = TRUE]
           e2 == Start(e, "T1Init")
           out == IF dead[c] THEN <<>> ELSE SendInit(e)
<1>2. /\ assoc' = [assoc EXCEPT ![c] = e2]
      /\ net' = [net EXCEPT ![s] = @ \o out]
      /\ started' = [started EXCEPT ![c] = TRUE] /\ UNCHANGED dead
  BY <1>1 DEF StartClient
<1>3. assoc[c] \in Association /\ assoc[c].state = "Closed"
  BY <1>1 DEF IInv, RoleInv, StartClient
<1>4. /\ e \in Association /\ e.state = "CookieWait" /\ e.my_cookie = assoc[c].my_cookie
      /\ e.peer_last_tsn = assoc[c].peer_last_tsn /\ e.got = assoc[c].got
      /\ e.sent = assoc[c].sent
  BY <1>3 DEF Association, States, Opening
<1>5. out \in Seq(FromClient(Stands(s)))
  <2>1. InitPacket(e) \in FromClient(Stands(s))
    BY <1>4 DEF InitPacket, FromClient, AnyPacket, Types, Association
  <2> QED BY <2>1 DEF SendInit
<1> HIDE DEF e, out
<1>6. SameRole(e, e2)
  BY <1>4 DEF Start, Association, SameRole
<1> HIDE DEF e2
<1>7. ClientSide(e2) /\ Kept(e2)
  <2>1. ~Knows(assoc[c]) /\ ~assoc[c].my_cookie /\ Kept(assoc[c])
    BY <1>3 DEF RoleInv, ClientSide
  <2> QED BY <1>4, <1>6, <2>1 DEF SameRole, ClientSide, Kept, Knows
<1>8. /\ e2.state = "Established" \/ e2.sent = 1 => Stands(s)
      /\ ~started'[c] => e2.state = "Closed"
      /\ started'[s] /\ dead'[s] = dead[s]
  BY <1>1, <1>2, <1>4, <1>6 DEF RoleInv, SameRole, IInv
<1>9. /\ assoc'[c] = e2 /\ assoc'[s] = assoc[s]
      /\ net'[c] = net[c] /\ net'[s] = net[s] \o out
      /\ net[c] \in Seq(FromServer(Stands(s)))
  BY <1>1, <1>2 DEF IInv, RoleInv
<1> QED BY <1>5, <1>7, <1>8, <1>9, ClientStep

LEMMA ExpiryRole ==
    ASSUME IInv, NEW s \in Peers, NEW c, c = Other(s), RoleInv(s, c),
           NEW x \in Peers, NEW id \in T1, NEW n \in Nat,
           NEW e, SameRole(assoc[x], e), e.peer_tag = assoc[x].peer_tag,
           assoc' = [assoc EXCEPT ![x] = e],
           net' = [net EXCEPT ![Other(x)] =
                      @ \o (IF dead[x] THEN <<>> ELSE Expired(e, id, n).out)],
           UNCHANGED <<started, dead>>
    PROVE  RoleInv(s, c)'
<1> DEFINE out == IF dead[x] THEN <<>> ELSE Expired(e, id, n).out
<1>1. /\ ~e.stored_init => out \in Seq(FromServer(Stands(s)))
      /\ e.peer_tag \in BOOLEAN => out \in Seq(FromClient(Stands(s)))
  <2>1. dead[x] \in BOOLEAN
    BY DEF IInv
  <2> QED BY <2>1, ExpiredRole
<1>2. /\ assoc'[x] = e /\ assoc'[Other(x)] = assoc[Other(x)]
      /\ net'[x] = net[x] /\ net'[Other(x)] = net[Other(x)] \o out
      /\ dead'[s] = dead[s]
  BY OtherPeer DEF IInv
<1> HIDE DEF out
<1>3. CASE x = s
  <2>1. ~e.stored_init
    BY <1>3 DEF RoleInv, ServerSide, SameRole
  <2> QED BY <1>1, <1>2, <1>3, <2>1, LocalServer
<1>4. CASE x = c
  <2>1. e.peer_tag \in BOOLEAN /\ Other(x) = s
    BY <1>4, OtherPeer DEF IInv, Association
  <2> QED BY <1>1, <1>2, <1>4, <2>1, LocalClient
<1> QED BY <1>3, <1>4, OtherPeer

LEMMA T1ExpireRole ==
    ASSUME IInv, NEW s \in Peers, NEW c, c = Other(s), RoleInv(s, c),
           NEW x \in Peers, T1Expire(x)
    PROVE  RoleInv(s, c)'
<1>1. PICK id \in T1 :
        LET n == assoc[x].timers[id] + 1
            e == [assoc[x] EXCEPT !.timers[id] = IF n > MaxInitRetrans THEN Off ELSE n]
        IN  /\ assoc' = [assoc EXCEPT ![x] = e]
            /\ net' = [net EXCEPT ![Other(x)] =
                          @ \o (IF dead[x] THEN <<>> ELSE Expired(e, id, n).out)]
  BY DEF T1Expire
<1> DEFINE n == assoc[x].timers[id] + 1
           v == IF n > MaxInitRetrans THEN Off ELSE n
           e == [assoc[x] EXCEPT !.timers[id] = v]
<1>2. n \in Nat
  BY HandshakeAssumption DEF IInv, Association, Off
<1>3. /\ assoc' = [assoc EXCEPT ![x] = e]
      /\ net' = [net EXCEPT ![Other(x)] = @ \o (IF dead[x] THEN <<>> ELSE Expired(e, id, n).out)]
  BY <1>1
<1> HIDE DEF n, v
<1>4. SameRole(assoc[x], e) /\ e.peer_tag = assoc[x].peer_tag
  BY DEF SameRole, IInv, Association
<1> HIDE DEF e
<1>5. UNCHANGED <<started, dead>>
  BY DEF T1Expire
<1> QED BY <1>2, <1>3, <1>4, <1>5, ExpiryRole

LEMMA LateExpiryRole ==
    ASSUME IInv, NEW s \in Peers, NEW c, c = Other(s), RoleInv(s, c),
           NEW x \in Peers, LateExpiry(x)
    PROVE  RoleInv(s, c)'
<1>1. PICK l \in assoc[x].late :
        LET e == [assoc[x] EXCEPT !.late = @ \ {l}]
        IN  /\ assoc' = [assoc EXCEPT ![x] = e]
            /\ net' = [net EXCEPT ![Other(x)] =
                          @ \o (IF dead[x] THEN <<>> ELSE Expired(e, l[1], l[2]).out)]
  BY DEF LateExpiry
<1> DEFINE rest == assoc[x].late \ {l}
           e == [assoc[x] EXCEPT !.late = rest]
           id == l[1]
           n == l[2]
<1>2. id \in T1 /\ n \in Nat
  BY HandshakeAssumption DEF IInv, Association
<1>3. /\ assoc' = [assoc EXCEPT ![x] = e]
      /\ net' = [net EXCEPT ![Other(x)] = @ \o (IF dead[x] THEN <<>> ELSE Expired(e, id, n).out)]
  BY <1>1
<1> HIDE DEF rest, id, n
<1>4. SameRole(assoc[x], e) /\ e.peer_tag = assoc[x].peer_tag
  BY DEF SameRole, IInv, Association
<1> HIDE DEF e
<1>5. UNCHANGED <<started, dead>>
  BY DEF LateExpiry
<1> QED BY <1>2, <1>3, <1>4, <1>5, ExpiryRole

LEMMA SendDataRole ==
    ASSUME IInv, NEW s \in Peers, NEW c, c = Other(s), RoleInv(s, c),
           NEW x \in Peers, SendData(x)
    PROVE  RoleInv(s, c)'
<1> DEFINE e2 == [assoc[x] EXCEPT !.sent = 1]
           out == <<Packet("DATA")>>
<1>1. /\ e2.state = assoc[x].state /\ e2.my_cookie = assoc[x].my_cookie
      /\ e2.stored_init = assoc[x].stored_init /\ e2.got = assoc[x].got
      /\ e2.peer_last_tsn = assoc[x].peer_last_tsn /\ e2.sent = 1
  BY DEF IInv, Association
<1>2. assoc'[x] = e2 /\ assoc'[Other(x)] = assoc[Other(x)]
  BY OtherPeer DEF SendData, IInv
<1> HIDE DEF e2
<1>3. Stands(s)
  BY OtherPeer DEF SendData, RoleInv, Stands
<1>4. net'[x] = net[x] /\ net'[Other(x)] = net[Other(x)] \o out
  <2>1. net[Other(x)] \in Seq(AnyPacket)
    BY OtherPeer DEF IInv
  <2>2. Packet("DATA") \in AnyPacket
    BY DEF Packet, AnyPacket, Types
  <2>3. Append(net[Other(x)], Packet("DATA")) = net[Other(x)] \o out
    BY <2>1, <2>2, AppendIsConcat
  <2>4. net' = [net EXCEPT ![Other(x)] = Append(net[Other(x)], Packet("DATA"))]
    BY DEF SendData
  <2> QED BY <2>3, <2>4, OtherPeer DEF IInv
<1>5. out \in Seq(FromServer(Stands(s))) /\ out \in Seq(FromClient(Stands(s)))
  BY <1>3, SingleSends DEF Types
<1> HIDE DEF out
<1>6. CASE x = s
  <2>1. ServerSide(e2) /\ Kept(e2)
    BY <1>1, <1>6 DEF RoleInv, ServerSide, Kept
  <2>2. net[s] \in Seq(FromClient(Stands(s)))
    BY DEF RoleInv
  <2>4. /\ e2.state = "Established" \/ dead'[s]
        /\ dead[s] => dead'[s]
        /\ UNCHANGED started
    BY <1>1, <1>3, <1>6 DEF SendData, Stands
  <2>5. out \in Seq(FromServer(e2.state = "Established" \/ dead'[s]))
    BY <1>5, <2>4, StandsMonotone
  <2> QED BY <1>2, <1>4, <1>6, <2>1, <2>2, <2>4, <2>5, ServerStep
<1>7. CASE x = c
  <2>1. ClientSide(e2) /\ Kept(e2)
    BY <1>1, <1>7 DEF RoleInv, ClientSide, Kept, Knows
  <2>2. net[c] \in Seq(FromServer(Stands(s))) /\ Other(c) = s
    BY <1>7, OtherPeer DEF RoleInv
  <2>4. /\ ~started'[c] => e2.state = "Closed"
        /\ started'[s] /\ dead'[s] = dead[s]
    BY <1>1, <1>7 DEF SendData, RoleInv
  <2> QED BY <1>2, <1>3, <1>4, <1>5, <1>7, <2>1, <2>2, <2>4, ClientStep
<1> QED BY <1>6, <1>7, OtherPeer

LEMMA LoseRole ==
    ASSUME IInv, NEW s \in Peers, NEW c, c = Other(s), RoleInv(s, c),
           NEW x \in Peers, Lose(x)
    PROVE  RoleInv(s, c)'
<1>1. PICK i \in 1 .. Len(net[x]) : net' = [net EXCEPT ![x] = RemoveAt(net[x], i)]
  BY DEF Lose
<1>2. c # s /\ c \in Peers
  BY OtherPeer
<1>3. /\ net'[c] \in Seq(FromServer(Stands(s)))
      /\ net'[s] \in Seq(FromClient(Stands(s)))
  BY <1>1, <1>2, RemoveAtType DEF IInv, RoleInv
<1>4. UNCHANGED <<assoc, started, dead>>
  BY DEF Lose
<1>5. /\ Stands(s)' = Stands(s)
      /\ FromServer(Stands(s))' = FromServer(Stands(s))
      /\ FromClient(Stands(s))' = FromClient(Stands(s))
  BY <1>4 DEF Stands, FromServer, FromClient
<1> QED BY <1>3, <1>4, <1>5 DEF RoleInv

\* A server's peer is a client: roles never change.
Roles == \A s \in Peers : role[s] = "server" => role[Other(s)] = "client" /\ RoleInv(s, Other(s))

LEMMA RolesInit == Init => Roles
<1> SUFFICES ASSUME Init, NEW s \in Peers, role[s] = "server"
             PROVE  role[Other(s)] = "client" /\ RoleInv(s, Other(s))
  BY DEF Roles
<1>1. PICK c \in Peers : c = Other(s) /\ c # s /\ \A z \in Peers : z = s \/ z = c
  BY OtherPeer
<1>2. /\ assoc[s] = NewAssociation /\ assoc[c] = NewAssociation
      /\ net[s] = <<>> /\ net[c] = <<>> /\ started[s] = TRUE /\ role[c] = "client"
  BY <1>1 DEF Init
<1>3. <<>> \in Seq(FromServer(Stands(s))) /\ <<>> \in Seq(FromClient(Stands(s)))
  OBVIOUS
<1> QED
  BY <1>1, <1>2, <1>3
  DEF RoleInv, NewAssociation, ServerSide, ClientSide, Kept, Knows, Unset

LEMMA RolesNext == ASSUME IInv, Roles, [Next]_vars PROVE Roles'
<1> SUFFICES ASSUME NEW s \in Peers, role'[s] = "server"
             PROVE  role'[Other(s)] = "client" /\ RoleInv(s, Other(s))'
  BY DEF Roles, Peers, Other
<1> DEFINE c == Other(s)
<1>1. UNCHANGED role
  BY ZenonT(30) DEF Next, vars, StartClient, Recv, Apply, T1Expire, LateExpiry, SendData, Lose
<1>2. role[c] = "client" /\ RoleInv(s, c)
  BY <1>1 DEF Roles
<1>3. c \in Peers /\ c = Other(s) /\ \A z \in Peers : z = s \/ z = c
  BY OtherPeer
<1> HIDE DEF c
<1>4. RoleInv(s, c)'
  <2>1. CASE UNCHANGED vars
    BY <1>2, <2>1 DEF vars, RoleInv, Stands, FromServer, FromClient
  <2>2. CASE Next
    <3>1. PICK x \in Peers :
            StartClient(x) \/ Recv(x) \/ T1Expire(x) \/ LateExpiry(x) \/ SendData(x) \/ Lose(x)
      BY <2>2 DEF Next
    <3>2. CASE Recv(x)
      BY <1>2, <1>3, <3>2, RecvServer, RecvClient
    <3> QED
      BY <1>2, <1>3, <3>1, <3>2, StartRole, T1ExpireRole, LateExpiryRole, SendDataRole, LoseRole
  <2> QED BY <2>1, <2>2
<1> QED BY <1>1, <1>2, <1>4 DEF c

\* Against a server, no late, repeated or reordered INIT or INIT ACK takes back a TSN that
\* was received: a client has none to forget, and the server is established by then.
THEOREM NeverForgets == Spec => []NeverRewinds
<1>1. Roles => NeverRewinds
  <2> SUFFICES ASSUME Roles, NEW s \in Peers, role[s] = "server", NEW x \in Peers
               PROVE  assoc[x].got = 1 => assoc[x].peer_last_tsn = 1
    BY DEF NeverRewinds
  <2>1. x = s \/ x = Other(s)
    BY OtherPeer
  <2> QED BY <2>1 DEF Roles, RoleInv, Kept
<1>2. Init => IInv /\ Roles
  BY InitInv, RolesInit
<1>3. (IInv /\ Roles) /\ [Next]_vars => (IInv /\ Roles)'
  BY NextInv, RolesNext
<1> QED BY <1>1, <1>2, <1>3, PTL DEF Spec
=============================================================================
