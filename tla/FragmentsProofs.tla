--------------------------- MODULE FragmentsProofs ---------------------------
(***************************************************************************)
(* Theorems about Fragments when one task writes to the stream, for any    *)
(* messages, any windows and any size of the SSN space.  (With two writers *)
(* fragments interleave: the run of FragmentsInterleave shows it.)         *)
(*                                                                         *)
(* The parts of the inductive invariant are predicates of the values they  *)
(* speak of, ms the messages and s the chunks that were sent among them,   *)
(* so that most lemmas are about values and not about steps.               *)
(***************************************************************************)
EXTENDS Fragments, NaturalSets

OneWriter == \E w : Writers = {w}
W == CHOOSE w \in Writers : TRUE
Kinds == {"ordered", "unordered"}

-----------------------------------------------------------------------------
(* The sender's part of the invariant.                                     *)

\* Chunks that packetize makes, and their order among chunks of one kind.
Fragment == [msg : Nat \ {0}, n : Nat \ {0}]
ValidIn(ms, c) == c \in Fragment /\ c.msg <= Len(ms) /\ c.n <= ms[c.msg].len
Ends(ms, c) == c.n = ms[c.msg].len
KindIn(ms, c) == KindOf(ms[c.msg])
Before(c, d) == c.msg < d.msg \/ (c.msg = d.msg /\ c.n < d.n)
Follows(ms, c, d) == IF Ends(ms, c) THEN d.n = 1 ELSE d.msg = c.msg /\ d.n = c.n + 1
Last(ms, i) == [msg |-> i, n |-> ms[i].len]

\* What is still to be sent of each kind: the queue, then what the writer has
\* not pushed yet.
Unpushed(k) == IF pushing[W] # <<>> /\ KindIn(messages, pushing[W][1]) = k THEN pushing[W] ELSE <<>>
Rest == [k \in Kinds |-> queue[k] \o Unpushed(k)]

\* packetize: SSNs count the ordered messages.  Wrap(a) is the SSN after a of them.
NumberIn(ms, i) == Cardinality({j \in 1 .. i : ~ms[j].unordered})
Wrap(a) == (FirstSsn + a) % SsnSpace
Numbered(ms, u, next) ==
    /\ ms \in Seq(Message) /\ Len(ms) <= MaxMsgs
    /\ \A i \in 1 .. Len(ms) :
          /\ ms[i].unordered = (u /\ ~ms[i].dcep)
          /\ ~ms[i].unordered => ms[i].ssn = Wrap(NumberIn(ms, i) - 1)
    /\ next = Wrap(NumberIn(ms, Len(ms)))

\* The chunks r of kind k that are to be sent: whole messages, but for one half sent.
ToSend(ms, k, r) ==
    /\ r \in Seq(Fragment)
    /\ \A i \in 1 .. Len(r) : ValidIn(ms, r[i]) /\ KindIn(ms, r[i]) = k
    /\ \A i \in 1 .. Len(r) - 1 : Follows(ms, r[i], r[i + 1])
    /\ \A i, j \in 1 .. Len(r) : i < j => Before(r[i], r[j])
    /\ r # <<>> => Ends(ms, r[Len(r)])

\* The chunks that were sent: those of a message have TSNs one after the other.
Preceded(s, t) == s[t].n <= t /\ \A j \in 0 .. s[t].n - 1 :
                      s[t - j] = [msg |-> s[t].msg, n |-> s[t].n - j]
SentOk(ms, s) ==
    /\ s \in Seq(Fragment)
    /\ \A t \in 1 .. Len(s) : ValidIn(ms, s[t]) /\ Preceded(s, t)
    /\ \A t \in 1 .. Len(s) - 1 : Follows(ms, s[t], s[t + 1])
    /\ \A t, u \in 1 .. Len(s) :
          t < u /\ KindIn(ms, s[t]) = KindIn(ms, s[u]) => Before(s[t], s[u])

\* What is to be sent comes after what was sent.
Awaits(ms, s, k, r) == \A t \in 1 .. Len(s) : KindIn(ms, s[t]) = k =>
                          \A i \in 1 .. Len(r) : Before(s[t], r[i])

\* The queue that is selected is that of the message that is half sent.
SelectedOk(ms, s, rest, sel) ==
    /\ sel \in {"none", "ordered", "unordered"}
    /\ sel = "none" => (Len(s) > 0 => Ends(ms, s[Len(s)]))
    /\ sel # "none" => /\ Len(s) > 0 /\ ~Ends(ms, s[Len(s)])
                       /\ rest[sel] # <<>> /\ Follows(ms, s[Len(s)], rest[sel][1])
    /\ \A k \in Kinds : k # sel /\ rest[k] # <<>> => rest[k][1].n = 1

\* The last fragment of every message is sent or to be sent.
EndsKept(ms, s, rest) == \A i \in 1 .. Len(ms) :
    \/ \E t \in 1 .. Len(s) : s[t] = Last(ms, i)
    \/ \E j \in 1 .. Len(rest[KindOf(ms[i])]) : rest[KindOf(ms[i])][j] = Last(ms, i)

\* Only messages whose last fragment was sent are given up.
AbandonedOk(ms, s, ab) == \A i \in ab : /\ i \in 1 .. Len(ms) /\ ~ms[i].dcep
                                       /\ \E t \in 1 .. Len(s) : s[t] = Last(ms, i)

SenderInv ==
    /\ unordered \in BOOLEAN
    /\ Numbered(messages, unordered, sequence_number)
    /\ queue \in [Kinds -> Seq(Fragment)] /\ pushing \in [Writers -> Seq(Fragment)]
    /\ \A i \in 1 .. Len(pushing[W]) : pushing[W][i].msg = Len(messages)
    /\ \A k \in Kinds : ToSend(messages, k, Rest[k]) /\ Awaits(messages, sent, k, Rest[k])
    /\ SentOk(messages, sent)
    /\ SelectedOk(messages, sent, Rest, selected)
    /\ EndsKept(messages, sent, Rest)
    /\ AbandonedOk(messages, sent, abandoned)

-----------------------------------------------------------------------------
(* The receiver's part: A are the chunks that have arrived or were passed  *)
(* over, ord, uc and us the chunks that the reassembly queue holds.        *)

Arrived == (1 .. peer_last_tsn) \cup payload_queue
Whole(s, e) == (e - s[e].n + 1) .. e            \* the message that ends with e
HeldIn(ord, uc, us) == (UNION {ord[x] : x \in Ssns}) \cup uc
                          \cup (UNION {us[i] : i \in 1 .. Len(us)})

ReceivedOk(s, p, q) == p \in 0 .. Len(s) /\ q \subseteq 1 .. Len(s) /\ p + 1 \notin q

\* Where the chunks that are held may be.
OrderedOk(ms, s, A, ord) ==
    /\ ord \in [Ssns -> SUBSET Nat]
    /\ \A x \in Ssns : \A t \in ord[x] :
          t \in A /\ KindIn(ms, s[t]) = "ordered" /\ ms[s[t].msg].ssn = x
SetsOk(ms, s, A, uc, us) ==
    /\ us \in Seq(SUBSET Nat)
    /\ \A t \in uc : t \in A /\ KindIn(ms, s[t]) = "unordered"
    /\ \A i \in 1 .. Len(us) :
          /\ \E e \in 1 .. Len(s) : Ends(ms, s[e]) /\ KindIn(ms, s[e]) = "unordered"
                                   /\ us[i] = Whole(s, e)
          /\ us[i] \subseteq A /\ us[i] \cap uc = {}
          /\ \A j \in 1 .. Len(us) : i # j => us[i] \cap us[j] = {}

\* next_ssn counts, from FirstSsn, n ordered messages that were read or passed
\* over: no chunk of them is missing.
PassedOk(ms, s, A, n) ==
    /\ \A t \in 1 .. Len(s) :
          KindIn(ms, s[t]) = "ordered" /\ t \notin A => NumberIn(ms, s[t].msg) > n
    /\ \A i \in 1 .. Len(ms) : ~ms[i].unordered /\ NumberIn(ms, i) <= n =>
          \E t \in 1 .. Len(s) : s[t] = Last(ms, i)
NextIs(ms, s, A, next, n) ==
    /\ n \in Nat /\ next = Wrap(n)
    /\ n <= NumberIn(ms, Len(ms)) /\ NumberIn(ms, Len(ms)) - n < SsnHalf
    /\ PassedOk(ms, s, A, n)

\* The SSNs in use are in half a circle.
NearOk(ms, s, ord) == \A x \in Ssns : \A t \in ord[x] :
    NumberIn(ms, Len(ms)) - NumberIn(ms, s[t].msg) + 1 < SsnHalf

\* A chunk that has arrived is in its place, or its whole message has arrived
\* and none of it is: it was read, or dropped, as a whole.
InPlace(ms, s, ord, uc, t) == IF KindIn(ms, s[t]) = "ordered" THEN t \in ord[ms[s[t].msg].ssn] ELSE t \in uc
Together(ms, s, A, ord, uc) == \A u \in A :
    \/ InPlace(ms, s, ord, uc, u)
    \/ \E e \in A : /\ Ends(ms, s[e]) /\ u \in Whole(s, e) /\ Whole(s, e) \subseteq A
                   /\ \A t \in Whole(s, e) : ~InPlace(ms, s, ord, uc, t)

\* The unordered chunks that are loose form no message.
LooseOk(ms, s, uc) == \A e \in uc : Ends(ms, s[e]) => ~(Whole(s, e) \subseteq uc)

\* Whole messages were read, and what was read is not held any more.
DeliveredOk(ms, s, A, held, dl) ==
    /\ dl \in Seq(Seq(Fragment))
    /\ \A i \in 1 .. Len(dl) :
          /\ \E m \in 1 .. Len(ms) : dl[i] = [n \in 1 .. ms[m].len |-> [msg |-> m, n |-> n]]
          /\ \E t \in A : t \notin held /\ s[t] = dl[i][1]
    /\ \A i, j \in 1 .. Len(dl) : dl[i][1] = dl[j][1] => i = j

QueueInv(ms, s, A, next, ord, uc, us, nb, dl) ==
    /\ A \subseteq 1 .. Len(s)
    /\ OrderedOk(ms, s, A, ord)
    /\ SetsOk(ms, s, A, uc, us)
    /\ \E n \in Nat : NextIs(ms, s, A, next, n)
    /\ NearOk(ms, s, ord)
    /\ Together(ms, s, A, ord, uc)
    /\ LooseOk(ms, s, uc)
    /\ DeliveredOk(ms, s, A, HeldIn(ord, uc, us), dl)
    /\ nb = Cardinality(HeldIn(ord, uc, us))

ReceiverInv ==
    /\ ReceivedOk(sent, peer_last_tsn, payload_queue)
    /\ QueueInv(messages, sent, Arrived, next_ssn, ordered, unordered_chunks, unordered_sets,
                n_bytes, delivered)

-----------------------------------------------------------------------------
(* Numbers that wrap.                                                      *)

\* A remainder is what is left of any multiple.
LEMMA RemainderUnique ==
    ASSUME NEW m \in Nat \ {0}, NEW q \in Int, NEW r \in 0 .. (m - 1), NEW a \in Int, a = m * q + r
    PROVE  a % m = r
<1> DEFINE d == a \div m
           k == q - d
<1>1. a = m * d + (a % m) /\ a % m \in 0 .. (m - 1) /\ d \in Int
  OBVIOUS
<1> HIDE DEF d
<1>2. k \in Int /\ m * q - m * d = m * k
  BY <1>1
<1> HIDE DEF k
<1>3. (a % m) - r = m * k
  <2> DEFINE A == m * q
             B == m * d
             C == m * k
             e == a % m
  <2>1. A \in Int /\ B \in Int /\ C \in Int /\ e \in Int
    BY <1>1, <1>2
  <2>2. A - B = C /\ a = B + e /\ a = A + r
    BY <1>1, <1>2
  <2> HIDE DEF A, B, C, e
  <2>3. e - r = C
    BY <2>1, <2>2
  <2> QED BY <2>3 DEF C, e
<1>4. ~(k >= 1)
  <2> SUFFICES ASSUME k >= 1 PROVE FALSE
    OBVIOUS
  <2>1. m * k >= m
    BY <1>2, MultipleFact
  <2> QED BY <1>1, <1>3, <2>1
<1>5. ~(k <= -1)
  <2> SUFFICES ASSUME k <= -1 PROVE FALSE
    OBVIOUS
  <2>1. -k \in Nat /\ -k >= 1
    BY <1>2
  <2>2. m * (-k) >= m
    BY <2>1, MultipleFact
  <2>3. m * k = -(m * (-k))
    BY <1>2
  <2> DEFINE C == m * (-k)
             e == a % m
  <2>4. C \in Int /\ e - r = -C /\ C >= m /\ e \in 0 .. (m - 1)
    BY <1>1, <1>2, <1>3, <2>2, <2>3
  <2> HIDE DEF C, e
  <2> QED BY <2>4
<1>6. k = 0
  BY <1>2, <1>4, <1>5
<1> QED BY <1>1, <1>3, <1>6

LEMMA WrapNext ==
    ASSUME NEW m \in Nat \ {0}, NEW a \in Nat
    PROVE  a % m \in 0 .. (m - 1) /\ ((a % m) + 1) % m = (a + 1) % m
<1> DEFINE q == a \div m
           r == a % m
<1>1. a = m * q + r /\ r \in 0 .. (m - 1) /\ q \in Int
  OBVIOUS
<1> HIDE DEF q, r
<1>2. CASE r + 1 < m
  <2>1. (r + 1) % m = r + 1
    <3>1. r + 1 = m * 0 + (r + 1) /\ r + 1 \in 0 .. (m - 1) /\ r + 1 \in Int
      BY <1>1, <1>2
    <3> QED BY <3>1, RemainderUnique
  <2>2. (a + 1) % m = r + 1
    <3>1. a + 1 = m * q + (r + 1) /\ r + 1 \in 0 .. (m - 1)
      BY <1>1, <1>2
    <3> QED BY <1>1, <3>1, RemainderUnique
  <2> QED BY <1>1, <2>1, <2>2 DEF r
<1>3. CASE r + 1 = m
  <2>1. (r + 1) % m = 0
    <3>1. r + 1 = m * 1 + 0 /\ 0 \in 0 .. (m - 1) /\ r + 1 \in Int
      BY <1>1, <1>3
    <3> QED BY <3>1, RemainderUnique
  <2>2. (a + 1) % m = 0
    <3>1. m * (q + 1) = m * q + m
      BY <1>1
    <3>2. a + 1 = m * (q + 1) + 0 /\ 0 \in 0 .. (m - 1) /\ q + 1 \in Int /\ a + 1 \in Int
      BY <1>1, <1>3, <3>1
    <3> QED BY <3>2, RemainderUnique
  <2> QED BY <1>1, <2>1, <2>2 DEF r
<1> QED BY <1>1, <1>2, <1>3 DEF r

LEMMA WrapDistance ==
    ASSUME NEW half \in Nat \ {0}, NEW a \in Nat, NEW b \in Nat, a <= b, b - a < half
    PROVE  /\ ((b % (2 * half)) + 1 - (a % (2 * half))) % (2 * half) = b + 1 - a
           /\ b % (2 * half) = a % (2 * half) => a = b
<1> DEFINE m == 2 * half
           d == (b % m) - (a % m)
<1>1. d = b - a \/ d = b - a - m
  BY CircleFact
<1>2. /\ m \in Nat \ {0} /\ b % m \in 0 .. (m - 1) /\ a % m \in 0 .. (m - 1)
      /\ b + 1 - a \in 0 .. (m - 1) /\ b - a < m
  OBVIOUS
<1>3. (b % m) + 1 - (a % m) = d + 1 /\ d \in Int
  BY <1>2
<1> HIDE DEF m
<1>4. d = 0 => a = b
  BY <1>1, <1>2
<1>5. (d + 1) % m = b + 1 - a
  <2>1. CASE d = b - a
    <3>1. d + 1 = m * 0 + (b + 1 - a) /\ d + 1 \in Int
      BY <1>2, <1>3, <2>1
    <3> QED BY <1>2, <3>1, RemainderUnique
  <2>2. CASE d = b - a - m
    <3>1. d + 1 = m * (-1) + (b + 1 - a) /\ d + 1 \in Int
      BY <1>2, <1>3, <2>2
    <3> QED BY <1>2, <3>1, RemainderUnique
  <2> QED BY <1>1, <2>1, <2>2
<1>6. b % m = a % m => d = 0
  BY <1>2
<1> QED BY <1>3, <1>4, <1>5, <1>6 DEF m

LEMMA Concatenated ==
    ASSUME NEW S, NEW a \in Seq(S), NEW b \in Seq(S)
    PROVE  /\ a \o b \in Seq(S) /\ Len(a \o b) = Len(a) + Len(b)
           /\ \A i \in 1 .. Len(a) : (a \o b)[i] = a[i]
           /\ \A i \in 1 .. Len(b) : (a \o b)[Len(a) + i] = b[i]
           /\ b = <<>> => a \o b = a
  OBVIOUS

LEMMA SameSequence ==
    ASSUME NEW S, NEW a \in Seq(S), NEW b \in Seq(S), Len(a) = Len(b),
           \A i \in 1 .. Len(a) : a[i] = b[i]
    PROVE  a = b
  OBVIOUS

LEMMA HeadAndTail ==
    ASSUME NEW S, NEW a \in Seq(S), a # <<>>
    PROVE  /\ Len(a) > 0 /\ Head(a) = a[1] /\ Head(a) \in S
           /\ Tail(a) \in Seq(S) /\ Len(Tail(a)) = Len(a) - 1
           /\ \A i \in 1 .. Len(Tail(a)) : Tail(a)[i] = a[i + 1]
  OBVIOUS

\* Pushing a fragment, the head of what the writer has left, moves nothing.
LEMMA PushMoves ==
    ASSUME NEW S, NEW a \in Seq(S), NEW b \in Seq(S), b # <<>>
    PROVE  Append(a, Head(b)) \o Tail(b) = a \o b
<1> DEFINE c == Append(a, Head(b))
           t == Tail(b)
           p == c \o t
           q == a \o b
<1>1. /\ c \in Seq(S) /\ t \in Seq(S) /\ Len(c) = Len(a) + 1 /\ Len(t) = Len(b) - 1
      /\ \A i \in 1 .. Len(a) : c[i] = a[i]
      /\ c[Len(a) + 1] = b[1]
      /\ \A i \in 1 .. Len(t) : t[i] = b[i + 1]
  BY HeadAndTail
<1>2. /\ p \in Seq(S) /\ Len(p) = Len(c) + Len(t)
      /\ \A i \in 1 .. Len(c) : p[i] = c[i]
      /\ \A i \in 1 .. Len(t) : p[Len(c) + i] = t[i]
  BY <1>1, Concatenated
<1>3. /\ q \in Seq(S) /\ Len(q) = Len(a) + Len(b)
      /\ \A i \in 1 .. Len(a) : q[i] = a[i]
      /\ \A i \in 1 .. Len(b) : q[Len(a) + i] = b[i]
  BY Concatenated
<1> HIDE DEF c, t, p, q
<1>4. Len(a) \in Nat /\ Len(b) \in Nat /\ Len(p) = Len(q)
  BY <1>1, <1>2, <1>3
<1>5. \A i \in 1 .. Len(p) : p[i] = q[i]
  <2> SUFFICES ASSUME NEW i \in 1 .. Len(p) PROVE p[i] = q[i]
    OBVIOUS
  <2>1. CASE i <= Len(a)
    BY <1>1, <1>2, <1>3, <1>4, <2>1
  <2>2. CASE i = Len(a) + 1
    <3>1. 1 \in 1 .. Len(b) /\ i \in 1 .. Len(c)
      BY <1>1, <1>2, <1>4, <2>2
    <3> QED BY <1>1, <1>2, <1>3, <2>2, <3>1
  <2>3. CASE i > Len(a) + 1
    <3> DEFINE j == i - Len(c)
    <3>1. j \in 1 .. Len(t) /\ j + 1 \in 1 .. Len(b) /\ i = Len(c) + j /\ i = Len(a) + (j + 1)
      BY <1>1, <1>2, <1>4, <2>3
    <3> HIDE DEF j
    <3>2. p[Len(c) + j] = t[j] /\ t[j] = b[j + 1]
      BY <1>1, <1>2, <3>1
    <3>3. q[Len(a) + (j + 1)] = b[j + 1]
      BY <1>3, <3>1
    <3> QED BY <3>1, <3>2, <3>3
  <2> QED BY <1>4, <2>1, <2>2, <2>3
<1>6. p = q
  BY <1>2, <1>3, <1>4, <1>5, SameSequence
<1> QED BY <1>6 DEF c, t, p, q

\* Taking the head of the queue takes the head of what is to be sent.
LEMMA PopMoves ==
    ASSUME NEW S, NEW a \in Seq(S), NEW b \in Seq(S), a # <<>>
    PROVE  Tail(a) \o b = Tail(a \o b) /\ a \o b # <<>> /\ Head(a) = (a \o b)[1]
<1> DEFINE t == Tail(a)
           r == a \o b
           u == Tail(r)
           p == t \o b
<1>1. /\ t \in Seq(S) /\ Len(t) = Len(a) - 1 /\ \A i \in 1 .. Len(t) : t[i] = a[i + 1]
      /\ Len(a) > 0 /\ Head(a) = a[1]
  BY HeadAndTail
<1>2. /\ r \in Seq(S) /\ Len(r) = Len(a) + Len(b)
      /\ \A i \in 1 .. Len(a) : r[i] = a[i]
      /\ \A i \in 1 .. Len(b) : r[Len(a) + i] = b[i]
  BY Concatenated
<1>3. /\ p \in Seq(S) /\ Len(p) = Len(t) + Len(b)
      /\ \A i \in 1 .. Len(t) : p[i] = t[i]
      /\ \A i \in 1 .. Len(b) : p[Len(t) + i] = b[i]
  BY <1>1, Concatenated
<1> HIDE DEF t, r, p
<1>4. Len(a) \in Nat /\ Len(b) \in Nat /\ Len(r) > 0 /\ r # <<>>
  BY <1>1, <1>2
<1>5. u \in Seq(S) /\ Len(u) = Len(r) - 1 /\ \A i \in 1 .. Len(u) : u[i] = r[i + 1]
  BY <1>2, <1>4, HeadAndTail
<1> HIDE DEF u
<1>6. \A i \in 1 .. Len(p) : p[i] = u[i]
  <2> SUFFICES ASSUME NEW i \in 1 .. Len(p) PROVE p[i] = u[i]
    OBVIOUS
  <2>1. i \in 1 .. Len(u)
    BY <1>1, <1>2, <1>3, <1>4, <1>5
  <2>2. CASE i <= Len(t)
    BY <1>1, <1>2, <1>3, <1>4, <1>5, <2>1, <2>2
  <2>3. CASE i > Len(t)
    <3> DEFINE j == i - Len(t)
    <3>1. j \in 1 .. Len(b) /\ i = Len(t) + j /\ i + 1 = Len(a) + j
      BY <1>1, <1>3, <1>4, <2>3
    <3> HIDE DEF j
    <3> QED BY <1>2, <1>3, <1>5, <2>1, <3>1
  <2> QED BY <1>1, <1>4, <2>2, <2>3
<1>7. p = u
  BY <1>1, <1>2, <1>3, <1>4, <1>5, <1>6, SameSequence
<1>8. Head(a) = r[1]
  BY <1>1, <1>2, <1>4
<1> QED BY <1>4, <1>7, <1>8 DEF t, u, r, p

LEMMA SpaceFacts ==
    /\ SsnHalf \in Nat \ {0} /\ SsnSpace \in Nat \ {0} /\ SsnSpace = 2 * SsnHalf
    /\ FirstSsn \in Nat /\ FirstSsn % SsnSpace = FirstSsn
    /\ \A a \in Nat : a % SsnSpace \in Ssns
<1>1. /\ SsnHalf \in Nat \ {0} /\ SsnSpace \in Nat \ {0} /\ FirstSsn \in 0 .. (SsnSpace - 1)
  BY FragmentsAssumption DEF SsnSpace
<1>2. FirstSsn % SsnSpace = FirstSsn
  <2>1. FirstSsn = SsnSpace * 0 + FirstSsn /\ FirstSsn \in Int
    BY <1>1
  <2> QED BY <1>1, <2>1, RemainderUnique
<1>3. \A a \in Nat : a % SsnSpace \in Ssns
  BY <1>1, WrapNext DEF Ssns
<1> QED BY <1>1, <1>2, <1>3 DEF SsnSpace

-----------------------------------------------------------------------------
(* Chunks and messages.                                                    *)

LEMMA TheWriter == OneWriter => W \in Writers /\ \A w \in Writers : w = W
  BY DEF OneWriter, W

\* The number of an ordered message is greater than those of the ones before it,
\* and new messages leave the numbers of old ones.
LEMMA NumberFacts ==
    ASSUME NEW ms, NEW i \in Nat
    PROVE  /\ NumberIn(ms, i) \in 0 .. i
           /\ NumberIn(ms, i + 1) = IF ms[i + 1].unordered THEN NumberIn(ms, i) ELSE NumberIn(ms, i) + 1
           /\ \A j \in 0 .. i : NumberIn(ms, j) <= NumberIn(ms, i)
<1> DEFINE S(j) == {l \in 1 .. j : ~ms[l].unordered}
<1>1. \A j \in Nat : S(j) \subseteq 1 .. j /\ IsFiniteSet(1 .. j) /\ Cardinality(1 .. j) = j
  BY FS_Interval
<1>2. \A j \in Nat : IsFiniteSet(S(j)) /\ Cardinality(S(j)) \in 0 .. j
  <2> SUFFICES ASSUME NEW j \in Nat PROVE IsFiniteSet(S(j)) /\ Cardinality(S(j)) \in 0 .. j
    OBVIOUS
  <2> HIDE DEF S
  <2>1. IsFiniteSet(S(j)) /\ Cardinality(S(j)) <= j
    BY <1>1, FS_Subset
  <2> QED BY <2>1, FS_CardinalityType
<1>3. i + 1 \notin S(i) /\ S(i + 1) = IF ms[i + 1].unordered THEN S(i) ELSE S(i) \cup {i + 1}
  OBVIOUS
<1>4. \A j \in 0 .. i : S(j) \subseteq S(i) /\ j \in Nat
  OBVIOUS
<1> HIDE DEF S
<1>5. \A j \in 0 .. i : Cardinality(S(j)) <= Cardinality(S(i))
  BY <1>2, <1>4, FS_Subset
<1>6. Cardinality(S(i) \cup {i + 1}) = Cardinality(S(i)) + 1
  BY <1>2, <1>3, FS_AddElement
<1>7. \A j \in Nat : NumberIn(ms, j) = Cardinality(S(j))
  BY DEF NumberIn, S
<1> QED BY <1>2, <1>3, <1>5, <1>6, <1>7

LEMMA NumberNat == ASSUME NEW ms, NEW i \in Nat PROVE NumberIn(ms, i) \in Nat
  BY NumberFacts

LEMMA NumberGrows ==
    ASSUME NEW ms, NEW i \in Nat \ {0}, NEW j \in Nat, i < j, ~ms[j].unordered
    PROVE  NumberIn(ms, i) < NumberIn(ms, j)
<1>1. j - 1 \in Nat /\ i \in 0 .. (j - 1) /\ (j - 1) + 1 = j
  OBVIOUS
<1>2. NumberIn(ms, j) = NumberIn(ms, j - 1) + 1
  BY <1>1, NumberFacts
<1>3. NumberIn(ms, i) <= NumberIn(ms, j - 1) /\ NumberIn(ms, i) \in Nat /\ NumberIn(ms, j - 1) \in Nat
  BY <1>1, NumberFacts
<1> QED BY <1>2, <1>3

LEMMA WrapFacts ==
    ASSUME NEW a \in Nat, NEW b \in Nat
    PROVE  /\ Wrap(0) = FirstSsn /\ Wrap(a) \in Ssns /\ NextSsn(Wrap(a)) = Wrap(a + 1)
           /\ a - b < SsnHalf /\ b - a < SsnHalf =>
                 /\ Lt(Wrap(a), Wrap(b)) <=> a < b
                 /\ Lte(Wrap(a), Wrap(b)) <=> a <= b
                 /\ Gt(Wrap(a), Wrap(b)) <=> a > b
                 /\ Wrap(a) = Wrap(b) => a = b
           /\ a <= b /\ b - a < SsnHalf => (Wrap(b) + 1 - Wrap(a)) % SsnSpace = b + 1 - a
<1> DEFINE x == FirstSsn + a
           y == FirstSsn + b
<1>1. FirstSsn \in Nat /\ SsnHalf \in Nat \ {0} /\ SsnSpace = 2 * SsnHalf /\ SsnSpace \in Nat \ {0}
  BY SpaceFacts
<1>2. /\ x \in Nat /\ y \in Nat /\ x - y = a - b /\ y - x = b - a /\ x + 1 = FirstSsn + (a + 1)
      /\ y + 1 - x = b + 1 - a /\ FirstSsn + 0 = FirstSsn
      /\ x < y <=> a < b
      /\ x <= y <=> a <= b
      /\ x > y <=> a > b
      /\ x = y <=> a = b
      /\ x <= y \/ y <= x
  BY <1>1
<1>3. Wrap(a) = x % SsnSpace /\ Wrap(b) = y % SsnSpace
  BY DEF Wrap
<1> HIDE DEF x, y
<1>4. Wrap(0) = FirstSsn
  BY <1>2, SpaceFacts DEF Wrap
<1>5. Wrap(a) \in Ssns
  BY <1>2, <1>3, SpaceFacts
<1>6. NextSsn(Wrap(a)) = Wrap(a + 1)
  BY <1>1, <1>2, <1>3, WrapNext DEF NextSsn, Wrap
<1>7. ASSUME a - b < SsnHalf, b - a < SsnHalf
      PROVE  /\ Lt(Wrap(a), Wrap(b)) <=> a < b
             /\ Lte(Wrap(a), Wrap(b)) <=> a <= b
             /\ Gt(Wrap(a), Wrap(b)) <=> a > b
  <2>1. /\ SernoLt(x % SsnSpace, y % SsnSpace, SsnHalf) <=> x < y
        /\ SernoLte(x % SsnSpace, y % SsnSpace, SsnHalf) <=> x <= y
        /\ SernoGt(x % SsnSpace, y % SsnSpace, SsnHalf) <=> x > y
    BY <1>1, <1>2, <1>7, SernoIsOrder
  <2> QED BY <1>2, <1>3, <2>1 DEF Lt, Lte, Gt
<1>8. ASSUME a - b < SsnHalf, b - a < SsnHalf, Wrap(a) = Wrap(b) PROVE a = b
  <2>1. x % (2 * SsnHalf) = y % (2 * SsnHalf) /\ x - y < SsnHalf /\ y - x < SsnHalf
    BY <1>1, <1>2, <1>3, <1>8
  <2>2. CASE x <= y
    <3>1. x % (2 * SsnHalf) = y % (2 * SsnHalf) => x = y
      BY <1>1, <1>2, <2>1, <2>2, WrapDistance, ZenonT(30)
    <3> QED BY <1>2, <2>1, <3>1
  <2>3. CASE y <= x
    <3>1. y % (2 * SsnHalf) = x % (2 * SsnHalf) => y = x
      BY <1>1, <1>2, <2>1, <2>3, WrapDistance
    <3> QED BY <1>2, <2>1, <3>1
  <2> QED BY <1>2, <2>2, <2>3
<1>9. ASSUME a <= b, b - a < SsnHalf PROVE (Wrap(b) + 1 - Wrap(a)) % SsnSpace = b + 1 - a
  <2>1. ((y % (2 * SsnHalf)) + 1 - (x % (2 * SsnHalf))) % (2 * SsnHalf) = y + 1 - x
    <3>1. x <= y /\ y - x < SsnHalf
      BY ONLY <1>2, <1>9
    <3>2. x \in Nat /\ y \in Nat /\ SsnHalf \in Nat \ {0}
      BY <1>1, <1>2
    <3> QED BY ONLY <3>1, <3>2, WrapDistance
  <2> QED BY <1>1, <1>2, <1>3, <2>1
<1> QED BY <1>4, <1>5, <1>6, <1>7, <1>8, <1>9

\* What is said of messages and chunks stays when messages are added.
Extends(ms, ms2) == /\ ms \in Seq(Message) /\ ms2 \in Seq(Message) /\ Len(ms) <= Len(ms2)
                    /\ \A i \in 1 .. Len(ms) : ms2[i] = ms[i]

LEMMA MessageTypes ==
    ASSUME NEW m \in Message
    PROVE  /\ m.len \in Nat \ {0} /\ m.len <= MaxLen /\ m.unordered \in BOOLEAN /\ m.dcep \in BOOLEAN
           /\ m.ssn \in Ssns /\ KindOf(m) \in Kinds
           /\ KindOf(m) = "ordered" <=> ~m.unordered
           /\ KindOf(m) = "unordered" <=> m.unordered
  BY FragmentsAssumption DEF Message, KindOf, Kinds

LEMMA ValidFacts ==
    ASSUME NEW ms \in Seq(Message), NEW c, ValidIn(ms, c)
    PROVE  /\ c.msg \in 1 .. Len(ms) /\ c.n \in Nat \ {0} /\ ms[c.msg] \in Message
           /\ c = [msg |-> c.msg, n |-> c.n] /\ c.n <= ms[c.msg].len
           /\ ms[c.msg].len \in Nat \ {0} /\ KindIn(ms, c) \in Kinds
           /\ Ends(ms, c) <=> c = Last(ms, c.msg)
           /\ KindIn(ms, c) = "ordered" <=> ~ms[c.msg].unordered
           /\ KindIn(ms, c) = "unordered" <=> ms[c.msg].unordered
<1>1. /\ c.msg \in 1 .. Len(ms) /\ c.n \in Nat \ {0}
      /\ c = [msg |-> c.msg, n |-> c.n] /\ c.n <= ms[c.msg].len
  BY DEF ValidIn, Fragment
<1>2. ms[c.msg] \in Message
  BY <1>1
<1>3. Ends(ms, c) <=> c = Last(ms, c.msg)
  BY <1>1 DEF Ends, Last
<1> QED BY <1>1, <1>2, <1>3, MessageTypes DEF KindIn

LEMMA ExtendedSame ==
    ASSUME NEW ms, NEW ms2, Extends(ms, ms2)
    PROVE  /\ \A i \in 0 .. Len(ms) : NumberIn(ms2, i) = NumberIn(ms, i)
           /\ \A i \in 1 .. Len(ms) : ms2[i] = ms[i] /\ Last(ms2, i) = Last(ms, i)
           /\ \A c : ValidIn(ms, c) =>
                 /\ ValidIn(ms2, c) /\ ms2[c.msg] = ms[c.msg] /\ KindIn(ms2, c) = KindIn(ms, c)
                 /\ Ends(ms2, c) <=> Ends(ms, c)
                 /\ \A d : Follows(ms2, c, d) <=> Follows(ms, c, d)
                 /\ NumberIn(ms2, c.msg) = NumberIn(ms, c.msg)
<1>1. \A i \in 0 .. Len(ms) : NumberIn(ms2, i) = NumberIn(ms, i)
  <2> SUFFICES ASSUME NEW i \in 0 .. Len(ms) PROVE NumberIn(ms2, i) = NumberIn(ms, i)
    OBVIOUS
  <2>1. \A j \in 1 .. i : ms2[j] = ms[j]
    BY DEF Extends
  <2>2. {j \in 1 .. i : ~ms2[j].unordered} = {j \in 1 .. i : ~ms[j].unordered}
    BY <2>1
  <2> QED BY <2>2 DEF NumberIn
<1>2. \A i \in 1 .. Len(ms) : ms2[i] = ms[i] /\ Last(ms2, i) = Last(ms, i)
  BY DEF Extends, Last
<1>3. ASSUME NEW c, ValidIn(ms, c)
      PROVE  /\ ValidIn(ms2, c) /\ ms2[c.msg] = ms[c.msg] /\ KindIn(ms2, c) = KindIn(ms, c)
             /\ Ends(ms2, c) <=> Ends(ms, c)
             /\ \A d : Follows(ms2, c, d) <=> Follows(ms, c, d)
             /\ NumberIn(ms2, c.msg) = NumberIn(ms, c.msg)
  <2>0. Len(ms) \in Nat /\ Len(ms2) \in Nat /\ Len(ms) <= Len(ms2)
    BY DEF Extends
  <2>1. c.msg \in 1 .. Len(ms) /\ c.msg \in 0 .. Len(ms) /\ c \in Fragment /\ c.n <= ms[c.msg].len
    <3>1. c \in Fragment /\ c.msg <= Len(ms) /\ c.n <= ms[c.msg].len
      BY <1>3 DEF ValidIn
    <3>2. c.msg \in Nat \ {0}
      BY <3>1 DEF Fragment
    <3> QED BY <2>0, <3>1, <3>2
  <2>2. ms2[c.msg] = ms[c.msg]
    BY <1>2, <2>1
  <2>3. NumberIn(ms2, c.msg) = NumberIn(ms, c.msg)
    BY <1>1, <2>1
  <2>4. Ends(ms2, c) <=> Ends(ms, c)
    BY <2>2 DEF Ends
  <2> QED BY <2>0, <2>1, <2>2, <2>3, <2>4 DEF ValidIn, KindIn, Follows
<1> QED BY <1>1, <1>2, <1>3

-----------------------------------------------------------------------------
(* packetize: a message m is added, its fragments come after all others.   *)

LEMMA AppendExtends ==
    ASSUME NEW ms \in Seq(Message), NEW m \in Message
    PROVE  /\ Extends(ms, Append(ms, m)) /\ Append(ms, m) \in Seq(Message)
           /\ Len(Append(ms, m)) = Len(ms) + 1 /\ Append(ms, m)[Len(ms) + 1] = m
           /\ NumberIn(Append(ms, m), Len(ms) + 1) =
                 IF m.unordered THEN NumberIn(ms, Len(ms)) ELSE NumberIn(ms, Len(ms)) + 1
<1> DEFINE ms2 == Append(ms, m)
<1>1. /\ ms2 \in Seq(Message) /\ Len(ms2) = Len(ms) + 1 /\ ms2[Len(ms) + 1] = m /\ Len(ms) \in Nat
      /\ \A i \in 1 .. Len(ms) : ms2[i] = ms[i]
  OBVIOUS
<1> HIDE DEF ms2
<1>2. Extends(ms, ms2)
  BY <1>1 DEF Extends
<1>3. NumberIn(ms2, Len(ms) + 1) = IF m.unordered THEN NumberIn(ms2, Len(ms)) ELSE NumberIn(ms2, Len(ms)) + 1
  BY <1>1, NumberFacts
<1>4. NumberIn(ms2, Len(ms)) = NumberIn(ms, Len(ms))
  <2>1. Len(ms) \in 0 .. Len(ms)
    BY <1>1
  <2> QED BY <1>2, <2>1, ExtendedSame
<1> QED BY <1>1, <1>2, <1>3, <1>4 DEF ms2

LEMMA NumberedAdd ==
    ASSUME NEW ms, NEW u, NEW next, Numbered(ms, u, next),
           NEW m \in Message, m.unordered = (u /\ ~m.dcep), m.ssn = next, Len(ms) < MaxMsgs
    PROVE  Numbered(Append(ms, m), u, IF m.unordered THEN next ELSE NextSsn(next))
<1>0. ms \in Seq(Message)
  BY DEF Numbered
<1> DEFINE ms2 == Append(ms, m)
           L == Len(ms)
           a == NumberIn(ms, L)
<1>1. /\ Extends(ms, ms2) /\ ms2 \in Seq(Message) /\ Len(ms2) = L + 1 /\ ms2[L + 1] = m /\ L \in Nat
      /\ NumberIn(ms2, L + 1) = IF m.unordered THEN a ELSE a + 1
  BY <1>0, AppendExtends
<1>2. next = Wrap(a)
  BY DEF Numbered
<1>3. a \in Nat
  <2>1. NumberIn(ms, L) \in 0 .. L
    BY <1>1, NumberFacts
  <2> QED BY <1>1, <2>1
<1>4. Len(ms2) <= MaxMsgs
  BY <1>1, FragmentsAssumption
<1>5. \A i \in 1 .. L : ms2[i] = ms[i] /\ NumberIn(ms2, i) = NumberIn(ms, i)
  <2>1. \A i \in 1 .. L : i \in 0 .. L
    BY <1>1
  <2> QED BY <1>1, <2>1, ExtendedSame
<1> HIDE DEF ms2, L, a
<1>6. ASSUME NEW i \in 1 .. Len(ms2)
      PROVE  /\ ms2[i].unordered = (u /\ ~ms2[i].dcep)
             /\ ~ms2[i].unordered => ms2[i].ssn = Wrap(NumberIn(ms2, i) - 1)
  <2>1. CASE i \in 1 .. L
    BY <1>5, <2>1 DEF Numbered, L
  <2>2. CASE i = L + 1
    <3>1. ~m.unordered => NumberIn(ms2, i) - 1 = a
      BY <1>1, <1>3, <2>2
    <3> QED BY <1>1, <1>2, <2>2, <3>1
  <2> QED BY <1>1, <2>1, <2>2
<1>7. (IF m.unordered THEN next ELSE NextSsn(next)) = Wrap(NumberIn(ms2, L + 1))
  BY <1>1, <1>2, <1>3, WrapFacts
<1> QED BY <1>1, <1>4, <1>6, <1>7 DEF Numbered, ms2

Packetized(ms, m, k, r, r2) ==
    /\ r \in Seq(Fragment) /\ r2 \in Seq(Fragment)
    /\ Len(r2) = Len(r) + (IF k = KindOf(m) THEN m.len ELSE 0)
    /\ \A i \in 1 .. Len(r) : r2[i] = r[i]
    /\ \A i \in Len(r) + 1 .. Len(r2) : r2[i] = [msg |-> Len(ms) + 1, n |-> i - Len(r)]

LEMMA AddedChunk ==
    ASSUME NEW ms \in Seq(Message), NEW m \in Message, NEW k \in Kinds, NEW r, NEW r2,
           Packetized(ms, m, k, r, r2)
    PROVE  \A i \in 1 .. Len(r2) : i <= Len(r) \/
              /\ k = KindOf(m) /\ r2[i].msg = Len(ms) + 1 /\ r2[i].n = i - Len(r)
              /\ ValidIn(Append(ms, m), r2[i]) /\ KindIn(Append(ms, m), r2[i]) = k
              /\ Ends(Append(ms, m), r2[i]) <=> i = Len(r2)
<1> SUFFICES ASSUME NEW i \in 1 .. Len(r2), ~(i <= Len(r))
             PROVE  /\ k = KindOf(m) /\ r2[i].msg = Len(ms) + 1 /\ r2[i].n = i - Len(r)
                    /\ ValidIn(Append(ms, m), r2[i]) /\ KindIn(Append(ms, m), r2[i]) = k
                    /\ Ends(Append(ms, m), r2[i]) <=> i = Len(r2)
  OBVIOUS
<1>1. /\ Len(r) \in Nat /\ Len(r2) \in Nat /\ i \in Len(r) + 1 .. Len(r2)
      /\ Len(r2) = Len(r) + (IF k = KindOf(m) THEN m.len ELSE 0)
      /\ r2[i] = [msg |-> Len(ms) + 1, n |-> i - Len(r)]
  BY DEF Packetized
<1>2. k = KindOf(m) /\ Len(r2) = Len(r) + m.len
  BY <1>1
<1>3. m.len \in Nat \ {0}
  BY MessageTypes
<1>4. i - Len(r) \in 1 .. m.len /\ (i - Len(r) = m.len <=> i = Len(r2))
  BY <1>1, <1>2, <1>3
<1> DEFINE ms2 == Append(ms, m)
<1>5. Len(ms2) = Len(ms) + 1 /\ ms2[Len(ms) + 1] = m /\ Len(ms) \in Nat
  BY AppendExtends
<1> HIDE DEF ms2
<1>6. r2[i].msg = Len(ms) + 1 /\ r2[i].n = i - Len(r)
  BY <1>1
<1>7. r2[i] \in Fragment
  BY <1>1 DEF Packetized
<1>8. ValidIn(ms2, r2[i]) /\ KindIn(ms2, r2[i]) = k /\ (Ends(ms2, r2[i]) <=> i = Len(r2))
  BY <1>1, <1>2, <1>3, <1>4, <1>5, <1>6, <1>7 DEF ValidIn, KindIn, Ends
<1> QED BY <1>1, <1>2, <1>4, <1>6, <1>8 DEF ms2

LEMMA ToSendAdd ==
    ASSUME NEW ms \in Seq(Message), NEW m \in Message, NEW k \in Kinds, NEW r, NEW r2,
           Packetized(ms, m, k, r, r2), ToSend(ms, k, r)
    PROVE  ToSend(Append(ms, m), k, r2)
<1> DEFINE ms2 == Append(ms, m)
<1>1. Extends(ms, ms2)
  BY AppendExtends
<1>2. /\ Len(r) \in Nat /\ Len(r2) \in Nat /\ Len(r) <= Len(r2) /\ r2 \in Seq(Fragment) /\ Len(ms) \in Nat
      /\ \A i \in 1 .. Len(r) : r2[i] = r[i]
  <2>1. m.len \in Nat
    BY MessageTypes
  <2> QED BY <2>1 DEF Packetized
<1>3. \A i \in 1 .. Len(r2) : i <= Len(r) \/
         /\ k = KindOf(m) /\ r2[i].msg = Len(ms) + 1 /\ r2[i].n = i - Len(r)
         /\ ValidIn(ms2, r2[i]) /\ KindIn(ms2, r2[i]) = k
         /\ Ends(ms2, r2[i]) <=> i = Len(r2)
  BY AddedChunk
<1>4. \A i \in 1 .. Len(r) :
         /\ ValidIn(ms, r[i]) /\ KindIn(ms, r[i]) = k
         /\ ValidIn(ms2, r[i]) /\ KindIn(ms2, r[i]) = k
         /\ Ends(ms2, r[i]) <=> Ends(ms, r[i])
         /\ \A d : Follows(ms2, r[i], d) <=> Follows(ms, r[i], d)
         /\ r[i].msg <= Len(ms) /\ r[i].msg \in Nat
  BY <1>1, ExtendedSame DEF ToSend, ValidIn, Fragment
<1> HIDE DEF ms2
<1>5. ASSUME NEW i \in 1 .. Len(r2) PROVE ValidIn(ms2, r2[i]) /\ KindIn(ms2, r2[i]) = k
  BY <1>2, <1>3, <1>4
<1>6. ASSUME NEW i \in 1 .. Len(r2) - 1 PROVE Follows(ms2, r2[i], r2[i + 1])
  <2>1. CASE i + 1 <= Len(r)
    <3>1. i \in 1 .. Len(r) - 1 /\ i \in 1 .. Len(r) /\ i + 1 \in 1 .. Len(r)
      BY <1>2, <2>1
    <3>2. Follows(ms, r[i], r[i + 1])
      BY <3>1 DEF ToSend
    <3>3. Follows(ms2, r[i], r[i + 1])
      BY <1>4, <3>1, <3>2
    <3> QED BY <1>2, <3>1, <3>3
  <2>2. CASE i = Len(r)
    <3>1. i \in 1 .. Len(r) /\ i + 1 \in 1 .. Len(r2) /\ ~(i + 1 <= Len(r)) /\ (i + 1) - Len(r) = 1
      BY <1>2, <2>2
    <3>2. r # <<>> /\ Ends(ms, r[Len(r)])
      BY <1>2, <2>2, <3>1 DEF ToSend
    <3>3. Ends(ms2, r2[i])
      BY <1>2, <1>4, <2>2, <3>1, <3>2
    <3>4. r2[i + 1].n = 1
      BY <1>3, <3>1
    <3> QED BY <3>3, <3>4 DEF Follows
  <2>3. CASE i > Len(r)
    <3>1. i \in 1 .. Len(r2) /\ i + 1 \in 1 .. Len(r2) /\ ~(i <= Len(r)) /\ ~(i + 1 <= Len(r)) /\ i # Len(r2)
          /\ (i + 1) - Len(r) = (i - Len(r)) + 1
      BY <1>2, <2>3
    <3>2. ~Ends(ms2, r2[i]) /\ r2[i].msg = Len(ms) + 1 /\ r2[i].n = i - Len(r)
      BY <1>3, <3>1
    <3>3. r2[i + 1].msg = Len(ms) + 1 /\ r2[i + 1].n = (i + 1) - Len(r)
      BY <1>3, <3>1
    <3> QED BY <3>1, <3>2, <3>3 DEF Follows
  <2> QED BY <1>2, <2>1, <2>2, <2>3
<1>7. ASSUME NEW i \in 1 .. Len(r2), NEW j \in 1 .. Len(r2), i < j PROVE Before(r2[i], r2[j])
  <2>1. CASE j <= Len(r)
    BY <1>2, <1>7, <2>1 DEF ToSend
  <2>2. CASE ~(j <= Len(r)) /\ i <= Len(r)
    <3>1. r2[j].msg = Len(ms) + 1 /\ r2[i] = r[i] /\ i \in 1 .. Len(r)
      BY <1>2, <1>3, <2>2
    <3> QED BY <1>2, <1>4, <3>1 DEF Before
  <2>3. CASE ~(j <= Len(r)) /\ ~(i <= Len(r))
    <3>1. r2[j].msg = Len(ms) + 1 /\ r2[j].n = j - Len(r) /\ r2[i].msg = Len(ms) + 1 /\ r2[i].n = i - Len(r)
      BY <1>3, <2>3
    <3> QED BY <1>2, <1>7, <3>1 DEF Before
  <2> QED BY <2>1, <2>2, <2>3
<1>8. ASSUME r2 # <<>> PROVE Ends(ms2, r2[Len(r2)])
  <2>1. Len(r2) \in 1 .. Len(r2)
    BY <1>2, <1>8
  <2>2. CASE Len(r2) <= Len(r)
    <3>1. Len(r2) = Len(r) /\ Len(r) \in 1 .. Len(r) /\ r # <<>>
      BY <1>2, <2>1, <2>2
    <3> QED BY <1>2, <1>4, <3>1 DEF ToSend
  <2>3. CASE ~(Len(r2) <= Len(r))
    BY <1>3, <2>1, <2>3
  <2> QED BY <2>2, <2>3
<1> QED BY <1>2, <1>5, <1>6, <1>7, <1>8 DEF ToSend, ms2

LEMMA SentExtended ==
    ASSUME NEW ms, NEW ms2, Extends(ms, ms2), NEW s, SentOk(ms, s)
    PROVE  SentOk(ms2, s)
<1>1. s \in Seq(Fragment) /\ Len(s) \in Nat
  BY DEF SentOk
<1>2. \A t \in 1 .. Len(s) : ValidIn(ms, s[t]) /\ ValidIn(ms2, s[t]) /\ KindIn(ms2, s[t]) = KindIn(ms, s[t])
                            /\ \A d : Follows(ms2, s[t], d) <=> Follows(ms, s[t], d)
  BY ExtendedSame DEF SentOk
<1>3. \A t \in 1 .. Len(s) - 1 : t \in 1 .. Len(s)
  BY <1>1
<1> QED BY <1>1, <1>2, <1>3 DEF SentOk

LEMMA AwaitsAdd ==
    ASSUME NEW ms \in Seq(Message), NEW m \in Message, NEW k \in Kinds, NEW r, NEW r2, NEW s,
           Packetized(ms, m, k, r, r2), SentOk(ms, s), Awaits(ms, s, k, r)
    PROVE  Awaits(Append(ms, m), s, k, r2)
<1> DEFINE ms2 == Append(ms, m)
<1> SUFFICES ASSUME NEW t \in 1 .. Len(s), KindIn(ms2, s[t]) = k, NEW i \in 1 .. Len(r2)
             PROVE  Before(s[t], r2[i])
  BY DEF Awaits
<1>1. Extends(ms, ms2) /\ Len(ms) \in Nat
  BY AppendExtends
<1>2. ValidIn(ms, s[t])
  BY DEF SentOk
<1>3. KindIn(ms2, s[t]) = KindIn(ms, s[t])
  BY <1>1, <1>2, ExtendedSame
<1>4. s[t].msg \in Nat /\ s[t].msg <= Len(ms)
  BY <1>2, ValidFacts, <1>1
<1> HIDE DEF ms2
<1>5. CASE i <= Len(r)
  <2>1. i \in 1 .. Len(r) /\ r2[i] = r[i]
    BY <1>5 DEF Packetized
  <2> QED BY <1>3, <2>1 DEF Awaits
<1>6. CASE ~(i <= Len(r))
  <2>1. r2[i].msg = Len(ms) + 1
    BY <1>6, AddedChunk
  <2> QED BY <1>1, <1>4, <2>1 DEF Before
<1> QED BY <1>5, <1>6

LEMMA SelectedAdd ==
    ASSUME NEW ms \in Seq(Message), NEW m \in Message, NEW rest, NEW rest2, NEW s, NEW sel,
           \A k \in Kinds : Packetized(ms, m, k, rest[k], rest2[k]),
           SentOk(ms, s), SelectedOk(ms, s, rest, sel)
    PROVE  SelectedOk(Append(ms, m), s, rest2, sel)
<1> DEFINE ms2 == Append(ms, m)
<1>1. Extends(ms, ms2) /\ s \in Seq(Fragment) /\ Len(s) \in Nat
  BY AppendExtends DEF SentOk
<1>2. Len(s) > 0 => /\ Ends(ms2, s[Len(s)]) <=> Ends(ms, s[Len(s)])
                    /\ \A d : Follows(ms2, s[Len(s)], d) <=> Follows(ms, s[Len(s)], d)
  <2>1. Len(s) > 0 => ValidIn(ms, s[Len(s)])
    BY <1>1 DEF SentOk
  <2> QED BY <1>1, <2>1, ExtendedSame
<1>3. ASSUME NEW k \in Kinds, rest[k] # <<>> PROVE rest2[k] # <<>> /\ rest2[k][1] = rest[k][1]
  <2> DEFINE r == rest[k]
             r2 == rest2[k]
  <2>1. Packetized(ms, m, k, r, r2) /\ r # <<>>
    BY <1>3
  <2> HIDE DEF r, r2
  <2>2. Len(r) > 0 /\ r2[1] = r[1] /\ Len(r2) >= Len(r) /\ r2 # <<>>
    <3>1. m.len \in Nat
      BY MessageTypes
    <3>2. /\ r \in Seq(Fragment) /\ r2 \in Seq(Fragment)
          /\ Len(r2) = Len(r) + (IF k = KindOf(m) THEN m.len ELSE 0)
          /\ \A i \in 1 .. Len(r) : r2[i] = r[i]
      BY <2>1 DEF Packetized
    <3>3. Len(r) \in Nat \ {0} /\ Len(r2) >= Len(r)
      BY <2>1, <3>1, <3>2
    <3> QED BY <3>2, <3>3
  <2> QED BY <2>2 DEF r, r2
<1>4. ASSUME NEW k \in Kinds, rest[k] = <<>>, rest2[k] # <<>> PROVE rest2[k][1].n = 1
  <2> DEFINE r == rest[k]
             r2 == rest2[k]
  <2>1. Packetized(ms, m, k, r, r2) /\ r = <<>> /\ r2 # <<>>
    BY <1>4
  <2> HIDE DEF r, r2
  <2>2. Len(r) = 0 /\ 1 \in 1 .. Len(r2) /\ ~(1 <= Len(r))
    BY <2>1 DEF Packetized
  <2>3. r2[1].n = 1 - Len(r)
    BY <2>1, <2>2, AddedChunk
  <2>4. r2[1].n = 1
    BY <2>2, <2>3
  <2> QED BY <2>4 DEF r2
<1> HIDE DEF ms2
<1>5. sel \in {"none", "ordered", "unordered"}
  BY DEF SelectedOk
<1>6. sel = "none" => (Len(s) > 0 => Ends(ms2, s[Len(s)]))
  BY <1>2 DEF SelectedOk
<1>7. sel # "none" => /\ Len(s) > 0 /\ ~Ends(ms2, s[Len(s)])
                      /\ rest2[sel] # <<>> /\ Follows(ms2, s[Len(s)], rest2[sel][1])
  BY <1>2, <1>3, <1>5 DEF SelectedOk, Kinds
<1>8. \A k \in Kinds : k # sel /\ rest2[k] # <<>> => rest2[k][1].n = 1
  BY <1>3, <1>4 DEF SelectedOk
<1> QED BY <1>5, <1>6, <1>7, <1>8 DEF SelectedOk, ms2

LEMMA EndsAdd ==
    ASSUME NEW ms \in Seq(Message), NEW m \in Message, NEW rest, NEW rest2, NEW s,
           \A k \in Kinds : Packetized(ms, m, k, rest[k], rest2[k]),
           EndsKept(ms, s, rest)
    PROVE  EndsKept(Append(ms, m), s, rest2)
<1> DEFINE ms2 == Append(ms, m)
<1>1. Extends(ms, ms2) /\ ms2 \in Seq(Message) /\ Len(ms2) = Len(ms) + 1 /\ ms2[Len(ms) + 1] = m /\ Len(ms) \in Nat
  BY AppendExtends
<1> HIDE DEF ms2
<1> SUFFICES ASSUME NEW i \in 1 .. Len(ms2)
             PROVE  \/ \E t \in 1 .. Len(s) : s[t] = Last(ms2, i)
                    \/ \E j \in 1 .. Len(rest2[KindOf(ms2[i])]) : rest2[KindOf(ms2[i])][j] = Last(ms2, i)
  BY DEF EndsKept, ms2
<1> DEFINE k == KindOf(ms2[i])
           r == rest[k]
           r2 == rest2[k]
<1>2. ms2[i] \in Message /\ k \in Kinds
  BY <1>1, MessageTypes
<1>3. Packetized(ms, m, k, r, r2)
  BY <1>2
<1>4. CASE i \in 1 .. Len(ms)
  <2>1. ms2[i] = ms[i] /\ Last(ms2, i) = Last(ms, i)
    BY <1>1, <1>4, ExtendedSame
  <2>2. \/ \E t \in 1 .. Len(s) : s[t] = Last(ms, i)
        \/ \E j \in 1 .. Len(r) : r[j] = Last(ms, i)
    BY <1>4, <2>1 DEF EndsKept
  <2> HIDE DEF k, r, r2
  <2>3. m.len \in Nat
    BY MessageTypes
  <2>4. \A j \in 1 .. Len(r) : j \in 1 .. Len(r2) /\ r2[j] = r[j]
    BY <1>3, <2>3 DEF Packetized
  <2>5. \/ \E t \in 1 .. Len(s) : s[t] = Last(ms2, i)
        \/ \E j \in 1 .. Len(r2) : r2[j] = Last(ms2, i)
    BY <2>1, <2>2, <2>4
  <2> QED BY <2>5 DEF k, r2
<1>5. CASE i = Len(ms) + 1
  <2>1. k = KindOf(m) /\ ms2[i] = m
    BY <1>1, <1>5
  <2> HIDE DEF k, r, r2
  <2>2. m.len \in Nat \ {0}
    BY MessageTypes
  <2>3. Len(r2) = Len(r) + m.len /\ Len(r) \in Nat /\ r2[Len(r2)] = [msg |-> Len(ms) + 1, n |-> Len(r2) - Len(r)]
        /\ Len(r2) \in 1 .. Len(r2)
    <3>1. /\ r \in Seq(Fragment) /\ Len(r2) = Len(r) + m.len
          /\ \A j \in Len(r) + 1 .. Len(r2) : r2[j] = [msg |-> Len(ms) + 1, n |-> j - Len(r)]
      BY <1>3, <2>1 DEF Packetized
    <3>2. Len(r) \in Nat /\ Len(r2) \in Len(r) + 1 .. Len(r2) /\ Len(r2) \in 1 .. Len(r2)
      BY <2>2, <3>1
    <3> QED BY <3>1, <3>2
  <2>4. Last(ms2, i) = [msg |-> Len(ms) + 1, n |-> m.len] /\ Len(r2) - Len(r) = m.len
    BY <1>5, <2>1, <2>2, <2>3 DEF Last
  <2>5. r2[Len(r2)] = Last(ms2, i)
    BY <2>3, <2>4
  <2>6. \E j \in 1 .. Len(r2) : r2[j] = Last(ms2, i)
    BY <2>3, <2>5
  <2> QED BY <2>6 DEF k, r2
<1> QED BY <1>1, <1>4, <1>5

LEMMA AbandonedExtended ==
    ASSUME NEW ms, NEW ms2, Extends(ms, ms2), NEW s, NEW ab, AbandonedOk(ms, s, ab)
    PROVE  AbandonedOk(ms2, s, ab)
<1> SUFFICES ASSUME NEW i \in ab
             PROVE  /\ i \in 1 .. Len(ms2) /\ ~ms2[i].dcep
                    /\ \E t \in 1 .. Len(s) : s[t] = Last(ms2, i)
  BY DEF AbandonedOk
<1>1. /\ i \in 1 .. Len(ms) /\ ~ms[i].dcep
      /\ \E t \in 1 .. Len(s) : s[t] = Last(ms, i)
  BY DEF AbandonedOk
<1>2. Len(ms) <= Len(ms2) /\ Len(ms) \in Nat /\ Len(ms2) \in Nat
  BY DEF Extends
<1> QED BY <1>1, <1>2, ExtendedSame

-----------------------------------------------------------------------------
(* move_pending_data_chunk_to_inflight_queue: the first chunk to be sent   *)
(* of a kind is sent.                                                      *)

LEMMA AppendedTo ==
    ASSUME NEW S, NEW s \in Seq(S), NEW c \in S
    PROVE  /\ Append(s, c) \in Seq(S) /\ Len(Append(s, c)) = Len(s) + 1 /\ Append(s, c)[Len(s) + 1] = c
           /\ \A t \in 1 .. Len(s) : Append(s, c)[t] = s[t]
           /\ Len(s) \in Nat /\ 1 .. Len(Append(s, c)) = (1 .. Len(s)) \cup {Len(s) + 1}
<1>1. Len(s) \in Nat /\ Len(Append(s, c)) = Len(s) + 1
  OBVIOUS
<1> QED BY <1>1

LEMMA ToSendPop ==
    ASSUME NEW ms, NEW k, NEW r, ToSend(ms, k, r), r # <<>>
    PROVE  /\ ToSend(ms, k, Tail(r)) /\ r \in Seq(Fragment) /\ Tail(r) \in Seq(Fragment)
           /\ r[1] \in Fragment /\ ValidIn(ms, r[1]) /\ KindIn(ms, r[1]) = k
           /\ Len(Tail(r)) = Len(r) - 1 /\ Len(r) \in Nat \ {0}
           /\ \A i \in 1 .. Len(Tail(r)) : Tail(r)[i] = r[i + 1] /\ Before(r[1], Tail(r)[i])
           /\ Tail(r) # <<>> => Follows(ms, r[1], Tail(r)[1])
           /\ Tail(r) = <<>> => Ends(ms, r[1])
<1>1. r \in Seq(Fragment)
  BY DEF ToSend
<1> DEFINE q == Tail(r)
<1>2. /\ q \in Seq(Fragment) /\ Len(q) = Len(r) - 1 /\ Len(r) \in Nat \ {0} /\ Len(q) \in Nat
      /\ \A i \in 1 .. Len(q) : q[i] = r[i + 1]
      /\ r[1] \in Fragment
  BY <1>1, HeadAndTail
<1> HIDE DEF q
<1>3. \A i \in 1 .. Len(q) : i + 1 \in 1 .. Len(r) /\ q[i] = r[i + 1] /\ 1 < i + 1 /\ 1 \in 1 .. Len(r)
  BY <1>2
<1>4. \A i \in 1 .. Len(q) : ValidIn(ms, q[i]) /\ KindIn(ms, q[i]) = k
  BY <1>3 DEF ToSend
<1>5. \A i \in 1 .. Len(q) - 1 : Follows(ms, q[i], q[i + 1])
  <2> SUFFICES ASSUME NEW i \in 1 .. Len(q) - 1 PROVE Follows(ms, q[i], q[i + 1])
    OBVIOUS
  <2>1. i \in 1 .. Len(q) /\ i + 1 \in 1 .. Len(q) /\ i + 1 \in 1 .. Len(r) - 1
    BY <1>2
  <2>2. q[i] = r[i + 1] /\ q[i + 1] = r[(i + 1) + 1]
    BY <1>2, <2>1
  <2>3. Follows(ms, r[i + 1], r[(i + 1) + 1])
    BY <2>1 DEF ToSend
  <2> QED BY <2>2, <2>3
<1>6. \A i, j \in 1 .. Len(q) : i < j => Before(q[i], q[j])
  <2> SUFFICES ASSUME NEW i \in 1 .. Len(q), NEW j \in 1 .. Len(q), i < j PROVE Before(q[i], q[j])
    OBVIOUS
  <2>1. i + 1 \in 1 .. Len(r) /\ j + 1 \in 1 .. Len(r) /\ i + 1 < j + 1
    BY <1>2
  <2>2. Before(r[i + 1], r[j + 1])
    BY <2>1 DEF ToSend
  <2> QED BY <1>3, <2>2
<1>7. q # <<>> => Ends(ms, q[Len(q)]) /\ Follows(ms, r[1], q[1])
  <2> SUFFICES ASSUME q # <<>> PROVE Ends(ms, q[Len(q)]) /\ Follows(ms, r[1], q[1])
    OBVIOUS
  <2>1. Len(q) > 0
    BY <1>2
  <2>2. q[Len(q)] = r[Len(r)] /\ q[1] = r[1 + 1] /\ 1 \in 1 .. Len(r) - 1
    BY <1>2, <2>1
  <2> QED BY <2>2 DEF ToSend
<1>8. q = <<>> => Ends(ms, r[1])
  <2> SUFFICES ASSUME q = <<>> PROVE Ends(ms, r[1])
    OBVIOUS
  <2>1. Len(r) = 1
    BY <1>2
  <2> QED BY <2>1 DEF ToSend
<1>9. ValidIn(ms, r[1]) /\ KindIn(ms, r[1]) = k
  BY <1>2 DEF ToSend
<1>10. \A i \in 1 .. Len(q) : Before(r[1], q[i])
  BY <1>3 DEF ToSend
<1> QED BY <1>1, <1>2, <1>4, <1>5, <1>6, <1>7, <1>8, <1>9, <1>10 DEF ToSend, q

LEMMA SentPop ==
    ASSUME NEW ms \in Seq(Message), NEW s, SentOk(ms, s), NEW c, ValidIn(ms, c),
           \A t \in 1 .. Len(s) : KindIn(ms, s[t]) = KindIn(ms, c) => Before(s[t], c),
           Len(s) > 0 => Follows(ms, s[Len(s)], c),
           Len(s) = 0 => c.n = 1
    PROVE  SentOk(ms, Append(s, c))
<1> DEFINE s2 == Append(s, c)
           L == Len(s)
<1>1. c \in Fragment /\ s \in Seq(Fragment)
  BY DEF ValidIn, SentOk
<1>2. /\ s2 \in Seq(Fragment) /\ Len(s2) = L + 1 /\ s2[L + 1] = c /\ L \in Nat
      /\ \A t \in 1 .. L : s2[t] = s[t]
  BY <1>1, AppendedTo
<1>3. c.n \in Nat \ {0} /\ c = [msg |-> c.msg, n |-> c.n]
  BY ValidFacts
<1> HIDE DEF s2
<1>4. \A t \in 1 .. L : ValidIn(ms, s[t]) /\ Preceded(s, t) /\ s[t].n \in Nat \ {0}
  BY ValidFacts DEF SentOk
<1>5. ASSUME NEW t \in 1 .. L PROVE Preceded(s2, t)
  <2>1. s[t].n <= t /\ s2[t] = s[t] /\ s[t].n \in Nat \ {0}
    BY <1>2, <1>4 DEF Preceded
  <2>2. \A j \in 0 .. s[t].n - 1 : t - j \in 1 .. L
    BY <2>1, <1>2
  <2> QED BY <1>2, <1>4, <2>1, <2>2 DEF Preceded
<1>6. Preceded(s2, L + 1)
  <2>1. CASE c.n = 1
    <3>1. c.n <= L + 1 /\ \A j \in 0 .. c.n - 1 : j = 0
      BY <1>2, <2>1
    <3>2. (L + 1) - 0 = L + 1 /\ c.n - 0 = c.n
      BY <1>2, <1>3
    <3> QED BY <1>2, <1>3, <3>1, <3>2 DEF Preceded
  <2>2. CASE c.n # 1
    <3>1. L \in 1 .. L /\ c.msg = s[L].msg /\ c.n = s[L].n + 1
      <4>1. L > 0
        BY <1>2, <2>2
      <4>2. Follows(ms, s[L], c) /\ L \in 1 .. L
        BY <1>2, <4>1
      <4> QED BY <2>2, <4>2 DEF Follows
    <3> DEFINE d == s[L]
    <3>2. d.n <= L /\ d.n \in Nat \ {0} /\ \A j \in 0 .. d.n - 1 : s[L - j] = [msg |-> d.msg, n |-> d.n - j]
      BY <1>4, <3>1 DEF Preceded
    <3>3. c.n = d.n + 1 /\ c.msg = d.msg
      BY <3>1
    <3> HIDE DEF d
    <3>4. c.n <= L + 1
      BY <1>2, <3>2, <3>3
    <3>5. ASSUME NEW j \in 0 .. c.n - 1
          PROVE  s2[(L + 1) - j] = [msg |-> c.msg, n |-> c.n - j]
      <4>1. CASE j = 0
        <5>1. (L + 1) - j = L + 1 /\ c.n - j = c.n
          BY <1>2, <1>3, <4>1
        <5> QED BY <1>2, <1>3, <5>1
      <4>2. CASE j # 0
        <5>1. j - 1 \in 0 .. d.n - 1 /\ (L + 1) - j = L - (j - 1) /\ c.n - j = d.n - (j - 1)
              /\ L - (j - 1) \in 1 .. L
          BY <1>2, <3>2, <3>3, <4>2
        <5>2. s[L - (j - 1)] = [msg |-> d.msg, n |-> d.n - (j - 1)]
          BY <3>2, <5>1
        <5> QED BY <1>2, <3>3, <5>1, <5>2
      <4> QED BY <4>1, <4>2
    <3> QED BY <1>2, <3>4, <3>5 DEF Preceded
  <2> QED BY <2>1, <2>2
<1>7. \A t \in 1 .. Len(s2) : t \in 1 .. L \/ t = L + 1
  BY <1>2
<1>8. \A t \in 1 .. Len(s2) : ValidIn(ms, s2[t]) /\ Preceded(s2, t)
  BY <1>2, <1>4, <1>5, <1>6, <1>7
<1>9. \A t \in 1 .. Len(s2) - 1 : Follows(ms, s2[t], s2[t + 1])
  <2> SUFFICES ASSUME NEW t \in 1 .. Len(s2) - 1 PROVE Follows(ms, s2[t], s2[t + 1])
    OBVIOUS
  <2>1. CASE t = L
    BY <1>2, <2>1
  <2>2. CASE t # L
    <3>1. t \in 1 .. L - 1 /\ t \in 1 .. L /\ t + 1 \in 1 .. L
      BY <1>2, <2>2
    <3>2. Follows(ms, s[t], s[t + 1])
      BY <3>1 DEF SentOk
    <3> QED BY <1>2, <3>1, <3>2
  <2> QED BY <2>1, <2>2
<1>10. \A t, u \in 1 .. Len(s2) :
          t < u /\ KindIn(ms, s2[t]) = KindIn(ms, s2[u]) => Before(s2[t], s2[u])
  <2> SUFFICES ASSUME NEW t \in 1 .. Len(s2), NEW u \in 1 .. Len(s2), t < u,
                      KindIn(ms, s2[t]) = KindIn(ms, s2[u])
               PROVE  Before(s2[t], s2[u])
    OBVIOUS
  <2>1. t \in 1 .. L /\ s2[t] = s[t]
    BY <1>2
  <2>2. CASE u = L + 1
    BY <1>2, <2>1, <2>2
  <2>3. CASE u \in 1 .. L
    BY <1>2, <2>1, <2>3 DEF SentOk
  <2> QED BY <1>7, <2>2, <2>3
<1> QED BY <1>2, <1>8, <1>9, <1>10 DEF SentOk, s2

LEMMA AwaitsPop ==
    ASSUME NEW ms, NEW s \in Seq(Fragment), NEW k, NEW r, ToSend(ms, k, r), r # <<>>, Awaits(ms, s, k, r)
    PROVE  Awaits(ms, Append(s, r[1]), k, Tail(r))
<1> DEFINE s2 == Append(s, r[1])
           q == Tail(r)
<1>1. /\ r[1] \in Fragment /\ Len(q) = Len(r) - 1 /\ Len(r) \in Nat
      /\ \A i \in 1 .. Len(q) : q[i] = r[i + 1] /\ Before(r[1], q[i])
  BY ToSendPop
<1>2. /\ \A t \in 1 .. Len(s) : s2[t] = s[t]
      /\ s2[Len(s) + 1] = r[1] /\ 1 .. Len(s2) = (1 .. Len(s)) \cup {Len(s) + 1}
  BY <1>1, AppendedTo
<1> HIDE DEF s2, q
<1> SUFFICES ASSUME NEW t \in 1 .. Len(s2), KindIn(ms, s2[t]) = k, NEW i \in 1 .. Len(q)
             PROVE  Before(s2[t], q[i])
  BY DEF Awaits, s2, q
<1>3. i + 1 \in 1 .. Len(r) /\ q[i] = r[i + 1]
  BY <1>1
<1>4. CASE t \in 1 .. Len(s)
  BY <1>2, <1>3, <1>4 DEF Awaits
<1>5. CASE t = Len(s) + 1
  BY <1>1, <1>2, <1>5
<1> QED BY <1>2, <1>4, <1>5

LEMMA AwaitsOther ==
    ASSUME NEW ms, NEW s \in Seq(Fragment), NEW c \in Fragment, NEW k, NEW r, KindIn(ms, c) # k,
           Awaits(ms, s, k, r)
    PROVE  Awaits(ms, Append(s, c), k, r)
<1> DEFINE s2 == Append(s, c)
<1>1. /\ \A t \in 1 .. Len(s) : s2[t] = s[t]
      /\ s2[Len(s) + 1] = c /\ 1 .. Len(s2) = (1 .. Len(s)) \cup {Len(s) + 1}
  BY AppendedTo
<1> HIDE DEF s2
<1>2. \A t \in 1 .. Len(s2) : KindIn(ms, s2[t]) = k => t \in 1 .. Len(s) /\ s2[t] = s[t]
  BY <1>1
<1> QED BY <1>1, <1>2 DEF Awaits, s2

\* What the queue of the next chunk says of it.
Popped(ms, s, rest, sel, k) ==
    /\ ms \in Seq(Message) /\ SentOk(ms, s) /\ SelectedOk(ms, s, rest, sel)
    /\ \A x \in Kinds : ToSend(ms, x, rest[x]) /\ Awaits(ms, s, x, rest[x])
    /\ k \in Kinds /\ rest[k] # <<>>
    /\ IF sel = "none" THEN rest[k][1].n = 1 ELSE k = sel

LEMMA PoppedFollows ==
    ASSUME NEW ms, NEW s, NEW rest, NEW sel, NEW k, Popped(ms, s, rest, sel, k)
    PROVE  SentOk(ms, Append(s, rest[k][1]))
<1> DEFINE r == rest[k]
           c == rest[k][1]
<1>1. ToSend(ms, k, r) /\ r # <<>> /\ Awaits(ms, s, k, r) /\ s \in Seq(Fragment) /\ ms \in Seq(Message)
  BY DEF Popped, SentOk
<1> HIDE DEF r
<1>2. ValidIn(ms, r[1]) /\ KindIn(ms, r[1]) = k /\ Len(r) \in Nat \ {0}
  BY <1>1, ToSendPop
<1>3. c = r[1]
  BY DEF r
<1> HIDE DEF c
<1>4. \A t \in 1 .. Len(s) : KindIn(ms, s[t]) = KindIn(ms, c) => Before(s[t], c)
  BY <1>1, <1>2, <1>3 DEF Awaits
<1>5. Len(s) > 0 => Follows(ms, s[Len(s)], c)
  BY <1>3 DEF Popped, SelectedOk, Follows, r
<1>6. Len(s) = 0 => c.n = 1
  <2> SUFFICES ASSUME Len(s) = 0 PROVE c.n = 1
    OBVIOUS
  <2>1. sel = "none"
    BY DEF Popped, SelectedOk
  <2> QED BY <1>3, <2>1 DEF Popped, r
<1>7. SentOk(ms, s)
  BY DEF Popped
<1>8. SentOk(ms, Append(s, c))
  BY <1>1, <1>2, <1>3, <1>4, <1>5, <1>6, <1>7, SentPop
<1> QED BY <1>8 DEF c

LEMMA PoppedSelects ==
    ASSUME NEW ms, NEW s, NEW rest \in [Kinds -> Seq(Fragment)], NEW sel, NEW k, Popped(ms, s, rest, sel, k)
    PROVE  SelectedOk(ms, Append(s, rest[k][1]), [rest EXCEPT ![k] = Tail(@)],
                      IF Ends(ms, rest[k][1]) THEN "none" ELSE k)
<1> DEFINE r == rest[k]
           c == rest[k][1]
           q == Tail(rest[k])
           s2 == Append(s, c)
           rest2 == [rest EXCEPT ![k] = Tail(@)]
           sel2 == IF Ends(ms, c) THEN "none" ELSE k
<1>1. ToSend(ms, k, r) /\ r # <<>> /\ s \in Seq(Fragment) /\ k \in Kinds /\ c = r[1] /\ q = Tail(r)
  BY DEF Popped, SentOk
<1>2. rest2[k] = q /\ \A x \in Kinds : x # k => rest2[x] = rest[x]
  BY <1>1
<1> HIDE DEF r, q, c
<1>3. /\ c \in Fragment /\ q # <<>> => Follows(ms, c, q[1])
      /\ q = <<>> => Ends(ms, c)
  BY <1>1, ToSendPop
<1>3a. c \in Fragment
  BY <1>1, ToSendPop
<1>4. Len(s2) = Len(s) + 1 /\ s2[Len(s2)] = c /\ Len(s) \in Nat
  BY <1>1, <1>3a, AppendedTo
<1> HIDE DEF s2, rest2
<1>5. \A x \in Kinds : x # k /\ rest2[x] # <<>> => rest2[x][1].n = 1
  <2>1. \A x \in Kinds : x # "none"
    BY DEF Kinds
  <2>2. SelectedOk(ms, s, rest, sel) /\ (IF sel = "none" THEN TRUE ELSE k = sel)
    BY DEF Popped
  <2> QED BY <1>2, <2>1, <2>2 DEF SelectedOk
<1>6. CASE Ends(ms, c)
  <2>1. q # <<>> => q[1].n = 1
    BY <1>3, <1>3a, <1>6 DEF Follows
  <2>2. sel2 = "none"
    BY <1>6
  <2>3. SelectedOk(ms, s2, rest2, sel2)
    BY <1>2, <1>4, <1>5, <1>6, <2>1, <2>2 DEF SelectedOk
  <2> QED BY <2>3 DEF c, s2, rest2
<1>7. CASE ~Ends(ms, c)
  <2>1. q # <<>> /\ Follows(ms, c, q[1])
    BY <1>3, <1>3a, <1>7
  <2>2. sel2 = k
    BY <1>7
  <2>3. k # "none" /\ k \in {"none", "ordered", "unordered"}
    BY <1>1 DEF Kinds
  <2>4. SelectedOk(ms, s2, rest2, sel2)
    BY <1>2, <1>4, <1>5, <1>7, <2>1, <2>2, <2>3 DEF SelectedOk
  <2> QED BY <2>4 DEF c, s2, rest2
<1> QED BY <1>6, <1>7

LEMMA PoppedEnds ==
    ASSUME NEW ms \in Seq(Message), NEW s \in Seq(Fragment), NEW rest \in [Kinds -> Seq(Fragment)],
           NEW k \in Kinds, rest[k] # <<>>, EndsKept(ms, s, rest)
    PROVE  EndsKept(ms, Append(s, rest[k][1]), [rest EXCEPT ![k] = Tail(@)])
<1> DEFINE c == rest[k][1]
           s2 == Append(s, c)
           rest2 == [rest EXCEPT ![k] = Tail(@)]
<1> SUFFICES ASSUME NEW i \in 1 .. Len(ms)
             PROVE  \/ \E t \in 1 .. Len(s2) : s2[t] = Last(ms, i)
                    \/ \E j \in 1 .. Len(rest2[KindOf(ms[i])]) : rest2[KindOf(ms[i])][j] = Last(ms, i)
  BY DEF EndsKept
<1> DEFINE x == KindOf(ms[i])
           r == rest[x]
           q == Tail(rest[k])
<1>1. x \in Kinds
  BY MessageTypes
<1>2. rest[k] \in Seq(Fragment) /\ c \in Fragment
  OBVIOUS
<1>3. rest2[k] = q /\ (x # k => rest2[x] = rest[x])
  BY <1>1
<1>4. Len(q) = Len(rest[k]) - 1 /\ \A j \in 1 .. Len(q) : q[j] = rest[k][j + 1]
  BY <1>2, HeadAndTail
<1>5. /\ \A t \in 1 .. Len(s) : s2[t] = s[t] /\ t \in 1 .. Len(s2)
      /\ s2[Len(s) + 1] = c /\ Len(s) + 1 \in 1 .. Len(s2)
  BY <1>2, AppendedTo
<1> HIDE DEF s2, rest2, q, c
<1>6. CASE \E t \in 1 .. Len(s) : s[t] = Last(ms, i)
  BY <1>5, <1>6
<1>7. CASE \E j \in 1 .. Len(r) : r[j] = Last(ms, i)
  <2> PICK j \in 1 .. Len(r) : r[j] = Last(ms, i)
    BY <1>7
  <2>1. CASE x # k
    BY <1>3, <2>1
  <2>2. CASE x = k /\ j = 1
    BY <1>5, <2>2 DEF c
  <2>3. CASE x = k /\ j # 1
    <3>0. Len(rest[k]) \in Nat
      BY <1>2
    <3>1. j - 1 \in 1 .. Len(q) /\ (j - 1) + 1 = j
      BY <1>4, <2>3, <3>0
    <3>2. q[j - 1] = Last(ms, i)
      BY <1>4, <2>3, <3>1
    <3> QED BY <1>3, <2>3, <3>1, <3>2
  <2> QED BY <2>1, <2>2, <2>3
<1> QED BY <1>6, <1>7 DEF EndsKept

LEMMA AbandonedAppend ==
    ASSUME NEW ms, NEW s \in Seq(Fragment), NEW c \in Fragment, NEW ab, AbandonedOk(ms, s, ab)
    PROVE  AbandonedOk(ms, Append(s, c), ab)
<1> DEFINE s2 == Append(s, c)
<1>1. \A t \in 1 .. Len(s) : s2[t] = s[t] /\ t \in 1 .. Len(s2)
  BY AppendedTo
<1> HIDE DEF s2
<1> QED BY <1>1 DEF AbandonedOk, s2

-----------------------------------------------------------------------------
(* The sender's steps.                                                     *)

LEMMA RestTyped ==
    ASSUME SenderInv, OneWriter
    PROVE  /\ Rest \in [Kinds -> Seq(Fragment)] /\ pushing[W] \in Seq(Fragment)
           /\ \A k \in Kinds : queue[k] \in Seq(Fragment) /\ Unpushed(k) \in Seq(Fragment)
                               /\ Rest[k] = queue[k] \o Unpushed(k)
  BY TheWriter DEF SenderInv, Rest, Unpushed

LEMMA SenderInit == ASSUME OneWriter, Init PROVE SenderInv
<1>1. messages = <<>> /\ sent = <<>> /\ abandoned = {} /\ W \in Writers
  BY TheWriter DEF Init
<1>2. ASSUME NEW k \in Kinds PROVE Rest[k] = <<>>
  <2>1. queue[k] = <<>> /\ pushing[W] = <<>>
    BY <1>1 DEF Init, Kinds
  <2>2. queue[k] \o Unpushed(k) = <<>>
    BY <2>1, Concatenated DEF Unpushed
  <2> QED BY <2>2 DEF Rest
<1>3. Numbered(messages, unordered, sequence_number)
  <2>1. NumberIn(messages, 0) = 0 /\ 0 \in Nat
    BY NumberFacts
  <2>2. Wrap(0) = FirstSsn
    BY <2>1, WrapFacts
  <2>3. sequence_number = FirstSsn /\ Len(messages) = 0 /\ messages \in Seq(Message)
    BY <1>1 DEF Init
  <2> QED BY <1>1, <2>1, <2>2, <2>3, FragmentsAssumption DEF Numbered
<1>4. \A k \in Kinds : ToSend(messages, k, Rest[k]) /\ Awaits(messages, sent, k, Rest[k])
  <2> SUFFICES ASSUME NEW k \in Kinds
               PROVE  ToSend(messages, k, <<>>) /\ Awaits(messages, <<>>, k, <<>>)
    BY <1>1, <1>2
  <2> QED BY DEF ToSend, Awaits
<1>5. SentOk(messages, sent)
  BY <1>1 DEF SentOk
<1>6. SelectedOk(messages, sent, Rest, selected)
  BY <1>1, <1>2 DEF Init, SelectedOk
<1>7. EndsKept(messages, sent, Rest) /\ AbandonedOk(messages, sent, abandoned)
  BY <1>1 DEF EndsKept, AbandonedOk
<1>8. /\ unordered \in BOOLEAN
      /\ queue \in [Kinds -> Seq(Fragment)] /\ pushing \in [Writers -> Seq(Fragment)]
      /\ pushing[W] = <<>>
  BY <1>1 DEF Init, Kinds
<1>9. \A i \in 1 .. Len(pushing[W]) : pushing[W][i].msg = Len(messages)
  BY <1>8
<1> QED BY <1>3, <1>4, <1>5, <1>6, <1>7, <1>8, <1>9 DEF SenderInv

LEMMA SenderSame == SenderInv /\ UNCHANGED <<unordered, snd_vars>> => SenderInv'
<1> SUFFICES ASSUME SenderInv, UNCHANGED <<unordered, snd_vars>> PROVE SenderInv'
  OBVIOUS
<1>1. Rest' = Rest
  BY DEF snd_vars, Rest, Unpushed
<1> QED BY <1>1 DEF SenderInv, snd_vars

\* What a write does.
Wrote(m) ==
    /\ m \in Message /\ m.unordered = (unordered /\ ~m.dcep) /\ m.ssn = sequence_number
    /\ Len(messages) < MaxMsgs
    /\ messages' = Append(messages, m)
    /\ sequence_number' = IF m.unordered THEN sequence_number ELSE NextSsn(sequence_number)
    /\ UNCHANGED <<unordered, queue, selected, sent, abandoned, rcv_vars>>
    /\ pushing' \in [Writers -> Seq(Fragment)]
    /\ \A i \in 1 .. Len(pushing'[W]) : pushing'[W][i].msg = Len(messages')
    /\ \A k \in Kinds : Packetized(messages, m, k, Rest[k], Rest'[k])
    /\ \A s \in Held \cup {next_ssn} : (sequence_number + 1 - s) % SsnSpace < SsnHalf

LEMMA WriteFacts ==
    ASSUME OneWriter, SenderInv, NEW w \in Writers, Write(w)
    PROVE  \E m \in Message : Wrote(m)
<1>0. messages \in Seq(Message)
  BY DEF SenderInv, Numbered
<1> PICK L \in Nat : L = Len(messages)
  BY <1>0
<1>1. w = W /\ W \in Writers
  BY TheWriter
<1>2. PICK len \in 1 .. MaxLen, dcep \in BOOLEAN :
         LET m == [dcep |-> dcep, unordered |-> unordered /\ ~dcep, len |-> len,
                   ssn |-> sequence_number]
         IN  /\ messages' = Append(messages, m)
             /\ sequence_number' = IF m.unordered THEN sequence_number
                                   ELSE (sequence_number + 1) % SsnSpace
             /\ pushing' = [pushing EXCEPT ![w] = [n \in 1 .. len |-> [msg |-> L + 1, n |-> n]]]
  BY DEF Write
<1> DEFINE m == [dcep |-> dcep, unordered |-> unordered /\ ~dcep, len |-> len,
                 ssn |-> sequence_number]
           new == [n \in 1 .. len |-> [msg |-> L + 1, n |-> n]]
<1>3. /\ messages \in Seq(Message) /\ L = Len(messages) /\ queue \in [Kinds -> Seq(Fragment)]
      /\ pushing \in [Writers -> Seq(Fragment)] /\ pushing[W] = <<>>
      /\ L < MaxMsgs
      /\ UNCHANGED <<unordered, queue, selected, sent, abandoned, rcv_vars>>
  BY <1>0, <1>1 DEF SenderInv, Write
<1>4. sequence_number \in Ssns
  <2>1. sequence_number = Wrap(NumberIn(messages, L))
    BY <1>3 DEF SenderInv, Numbered
  <2>2. NumberIn(messages, L) \in Nat
    BY NumberFacts
  <2> QED BY <2>1, <2>2, WrapFacts
<1>5. m \in Message
  <2>1. (unordered /\ ~dcep) \in BOOLEAN
    OBVIOUS
  <2> QED BY <1>4, <2>1 DEF Message
<1>6. /\ m.unordered = (unordered /\ ~m.dcep) /\ m.ssn = sequence_number /\ m.len = len
      /\ messages' = Append(messages, m) /\ messages'[L + 1] = m /\ Len(messages') = L + 1
      /\ sequence_number' = IF m.unordered THEN sequence_number ELSE NextSsn(sequence_number)
  BY <1>2, <1>3 DEF NextSsn
<1>7. /\ new \in Seq(Fragment) /\ Len(new) = len /\ new # <<>>
      /\ \A i \in 1 .. len : new[i] = [msg |-> L + 1, n |-> i]
      /\ len \in Nat \ {0}
  <2>1. len \in Nat \ {0}
    BY FragmentsAssumption
  <2>2. \A n \in 1 .. len : [msg |-> L + 1, n |-> n] \in Fragment
    BY DEF Fragment
  <2>3. new \in [1 .. len -> Fragment]
    BY <2>2
  <2>4. \A i \in 1 .. len : new[i] = [msg |-> L + 1, n |-> i]
    OBVIOUS
  <2> HIDE DEF new
  <2>5. new \in Seq(Fragment) /\ Len(new) = len
    BY <2>1, <2>3
  <2> QED BY <2>1, <2>4, <2>5
<1>8. pushing' = [pushing EXCEPT ![w] = new]
  BY <1>2
<1> HIDE DEF m, new
<1>9. pushing' \in [Writers -> Seq(Fragment)] /\ pushing'[W] = new
  BY <1>1, <1>3, <1>7, <1>8
<1>10. ASSUME NEW k \in Kinds PROVE Packetized(messages, m, k, Rest[k], Rest'[k])
  <2>1. queue[k] \in Seq(Fragment) /\ <<>> \in Seq(Fragment)
    BY <1>3
  <2>2. Rest[k] = queue[k]
    BY <1>3, <2>1, Concatenated DEF Rest, Unpushed
  <2>3. KindIn(messages', new[1]) = KindOf(m)
    BY <1>6, <1>7 DEF KindIn
  <2>4. Rest'[k] = queue[k] \o (IF k = KindOf(m) THEN new ELSE <<>>)
    BY <1>3, <1>7, <1>9, <2>3 DEF Rest, Unpushed
  <2>5. CASE k # KindOf(m)
    <3>1. Rest'[k] = queue[k]
      BY <2>1, <2>4, <2>5, Concatenated
    <3> QED BY <2>1, <2>2, <2>5, <3>1 DEF Packetized
  <2>6. CASE k = KindOf(m)
    <3> DEFINE q == queue[k]
               b == new
               r == q \o b
    <3>1. q \in Seq(Fragment) /\ b \in Seq(Fragment) /\ Len(b) = len
      BY <1>7, <2>1
    <3>2. Rest'[k] = r /\ Rest[k] = q
      BY <2>2, <2>4, <2>6
    <3> HIDE DEF q, b
    <3>2a. r = q \o b
      OBVIOUS
    <3> HIDE DEF r
    <3>2b. Len(q) \in Nat /\ q \in Seq(Fragment) /\ b \in Seq(Fragment)
      BY <3>1
    <3>2c. q \in Seq(Fragment) /\ b \in Seq(Fragment)
      BY <3>1
    <3>3. /\ r \in Seq(Fragment) /\ Len(r) = Len(q) + Len(b)
          /\ \A i \in 1 .. Len(q) : r[i] = q[i]
          /\ \A i \in 1 .. Len(b) : r[Len(q) + i] = b[i]
      BY <3>2a, <3>2c, Concatenated
    <3>4. ASSUME NEW i \in Len(q) + 1 .. Len(r) PROVE r[i] = [msg |-> L + 1, n |-> i - Len(q)]
      <4> DEFINE j == i - Len(q)
      <4>1. j \in 1 .. len /\ i = Len(q) + j
        BY <1>7, <3>1, <3>2b, <3>3
      <4> HIDE DEF j
      <4>2. r[Len(q) + j] = [msg |-> L + 1, n |-> j]
        BY <1>7, <3>1, <3>3, <4>1 DEF b
      <4> QED BY <4>1, <4>2 DEF j
    <3>5. Packetized(messages, m, k, q, r)
      BY <1>3, <1>6, <1>7, <2>6, <3>1, <3>2b, <3>3, <3>4 DEF Packetized
    <3> QED BY <3>2, <3>5
  <2> QED BY <2>5, <2>6
<1>11. \A i \in 1 .. Len(pushing'[W]) : pushing'[W][i].msg = Len(messages')
  BY <1>6, <1>7, <1>9
<1>12. \A s \in Held \cup {next_ssn} : (sequence_number + 1 - s) % SsnSpace < SsnHalf
  BY DEF Write
<1> QED BY <1>3, <1>5, <1>6, <1>9, <1>10, <1>11, <1>12 DEF Wrote

LEMMA WroteKeeps ==
    ASSUME OneWriter, SenderInv, NEW m, Wrote(m)
    PROVE  SenderInv' /\ Extends(messages, messages')
<1>1. /\ m \in Message /\ messages \in Seq(Message) /\ messages' = Append(messages, m)
      /\ UNCHANGED <<unordered, queue, selected, sent, abandoned>>
      /\ \A k \in Kinds : Packetized(messages, m, k, Rest[k], Rest'[k])
  BY DEF Wrote, SenderInv, Numbered
<1>2. Extends(messages, messages')
  BY <1>1, AppendExtends
<1>3. Numbered(messages', unordered', sequence_number')
  <2>1. Numbered(messages, unordered, sequence_number) /\ m.unordered = (unordered /\ ~m.dcep)
        /\ m.ssn = sequence_number /\ Len(messages) < MaxMsgs
        /\ sequence_number' = IF m.unordered THEN sequence_number ELSE NextSsn(sequence_number)
    BY DEF Wrote, SenderInv
  <2> QED BY <1>1, <2>1, NumberedAdd
<1>4. ASSUME NEW k \in Kinds
      PROVE  ToSend(messages', k, Rest'[k]) /\ Awaits(messages', sent', k, Rest'[k])
  <2>1. /\ ToSend(messages, k, Rest[k]) /\ Awaits(messages, sent, k, Rest[k])
        /\ Packetized(messages, m, k, Rest[k], Rest'[k]) /\ SentOk(messages, sent)
    BY <1>1 DEF SenderInv
  <2>2. ToSend(Append(messages, m), k, Rest'[k])
    BY <1>1, <2>1, ToSendAdd
  <2>3. Awaits(Append(messages, m), sent, k, Rest'[k])
    BY <1>1, <2>1, AwaitsAdd
  <2> QED BY <1>1, <2>2, <2>3
<1>5. SentOk(messages', sent') /\ AbandonedOk(messages', sent', abandoned')
  <2>1. SentOk(messages, sent) /\ AbandonedOk(messages, sent, abandoned)
    BY DEF SenderInv
  <2>2. SentOk(messages', sent)
    BY <1>2, <2>1, SentExtended
  <2>3. AbandonedOk(messages', sent, abandoned)
    BY <1>2, <2>1, AbandonedExtended
  <2> QED BY <1>1, <2>2, <2>3
<1>6. SelectedOk(messages', sent', Rest', selected') /\ EndsKept(messages', sent', Rest')
  <2>1. SelectedOk(messages, sent, Rest, selected) /\ EndsKept(messages, sent, Rest) /\ SentOk(messages, sent)
    BY DEF SenderInv
  <2>2. SelectedOk(Append(messages, m), sent, Rest', selected)
    BY <1>1, <2>1, SelectedAdd
  <2>3. EndsKept(Append(messages, m), sent, Rest')
    BY <1>1, <2>1, EndsAdd
  <2> QED BY <1>1, <2>2, <2>3
<1>7. unordered' \in BOOLEAN /\ queue' \in [Kinds -> Seq(Fragment)] /\ pushing' \in [Writers -> Seq(Fragment)]
      /\ \A i \in 1 .. Len(pushing'[W]) : pushing'[W][i].msg = Len(messages')
  BY <1>1 DEF Wrote, SenderInv
<1> QED BY <1>2, <1>3, <1>4, <1>5, <1>6, <1>7 DEF SenderInv

LEMMA PushKeeps ==
    ASSUME OneWriter, SenderInv, NEW w \in Writers, Push(w)
    PROVE  SenderInv'
<1> DEFINE p == pushing[W]
           c == Head(pushing[W])
           K == KindIn(messages, c)
<1>1. w = W /\ W \in Writers /\ p \in Seq(Fragment) /\ p # <<>> /\ messages \in Seq(Message)
  BY TheWriter, RestTyped DEF Push, SenderInv, Numbered
<1>2. /\ UNCHANGED <<unordered, messages, sequence_number, selected, sent, abandoned>>
      /\ pushing' = [pushing EXCEPT ![W] = Tail(@)]
      /\ queue' = [queue EXCEPT ![K] = Append(@, c)]
  BY <1>1 DEF Push, Kind, KindIn
<1>3. /\ queue \in [Kinds -> Seq(Fragment)] /\ pushing \in [Writers -> Seq(Fragment)]
      /\ \A i \in 1 .. Len(p) : p[i].msg = Len(messages)
  BY DEF SenderInv
<1>4. /\ Len(p) \in Nat \ {0} /\ c = p[1] /\ c \in Fragment /\ Tail(p) \in Seq(Fragment)
      /\ Len(Tail(p)) = Len(p) - 1 /\ \A i \in 1 .. Len(Tail(p)) : Tail(p)[i] = p[i + 1]
  BY <1>1, HeadAndTail
<1>5. \A i \in 1 .. Len(Tail(p)) : i + 1 \in 1 .. Len(p) /\ Tail(p)[i].msg = Len(messages)
  BY <1>3, <1>4
<1>6. c.msg = Len(messages) /\ c.msg \in Nat \ {0}
  BY <1>3, <1>4 DEF Fragment
<1>7. K \in Kinds
  BY <1>1, <1>6, MessageTypes DEF KindIn
<1>8. pushing'[W] = Tail(p) /\ pushing' \in [Writers -> Seq(Fragment)]
  BY <1>1, <1>2, <1>3, <1>4
<1>9. queue' \in [Kinds -> Seq(Fragment)] /\ queue'[K] = Append(queue[K], c)
      /\ \A k \in Kinds : k # K => queue'[k] = queue[k]
  BY <1>2, <1>3, <1>4, <1>7
<1>10. ASSUME NEW k \in Kinds PROVE Rest'[k] = Rest[k]
  <2>1. Unpushed(k) = IF k = K THEN p ELSE <<>>
    BY <1>1, <1>4 DEF Unpushed
  <2>2. Unpushed(k)' = IF Tail(p) # <<>> /\ KindIn(messages, Tail(p)[1]) = k THEN Tail(p) ELSE <<>>
    BY <1>2, <1>8 DEF Unpushed
  <2>3. Tail(p) # <<>> => KindIn(messages, Tail(p)[1]) = K
    <3> SUFFICES ASSUME Tail(p) # <<>> PROVE KindIn(messages, Tail(p)[1]) = K
      OBVIOUS
    <3>1. Len(Tail(p)) > 0
      BY <1>4
    <3>2. Tail(p)[1].msg = Len(messages)
      BY <1>4, <1>5, <3>1
    <3> QED BY <1>6, <3>2 DEF KindIn
  <2>4. Unpushed(k)' = IF k = K THEN Tail(p) ELSE <<>>
    BY <2>2, <2>3
  <2>5. CASE k = K
    <3>1. Append(queue[K], Head(p)) \o Tail(p) = queue[K] \o p
      BY <1>1, <1>3, <1>7, PushMoves
    <3>2. queue'[k] \o Unpushed(k)' = queue[k] \o Unpushed(k)
      BY <1>9, <2>1, <2>4, <2>5, <3>1
    <3> QED BY <3>2 DEF Rest
  <2>6. CASE k # K
    <3>1. queue'[k] \o Unpushed(k)' = queue[k] \o Unpushed(k)
      BY <1>9, <2>1, <2>4, <2>6
    <3> QED BY <3>1 DEF Rest
  <2> QED BY <2>5, <2>6
<1>11. Rest' = Rest
  <2>1. Rest' = [k \in Kinds |-> Rest'[k]] /\ Rest = [k \in Kinds |-> Rest[k]]
    BY DEF Rest
  <2> QED BY <1>10, <2>1
<1>12. \A i \in 1 .. Len(pushing'[W]) : pushing'[W][i].msg = Len(messages')
  BY <1>2, <1>5, <1>8
<1> QED BY <1>2, <1>8, <1>9, <1>11, <1>12 DEF SenderInv

LEMMA MoveFacts ==
    ASSUME OneWriter, SenderInv, MovePending
    PROVE  \E k \in Kinds :
             /\ Popped(messages, sent, Rest, selected, k)
             /\ sent' = Append(sent, Rest[k][1]) /\ Rest[k][1] \in Fragment
             /\ Rest' = [Rest EXCEPT ![k] = Tail(@)]
             /\ selected' = IF Ends(messages, Rest[k][1]) THEN "none" ELSE k
             /\ queue' \in [Kinds -> Seq(Fragment)]
             /\ UNCHANGED <<unordered, messages, sequence_number, pushing, abandoned, rcv_vars>>
<1> DEFINE k == Source
           c == Head(queue[k])
<1>1. /\ queue[k] # <<>> /\ (selected # "none" \/ Beginning(c))
      /\ sent' = Append(sent, c) /\ queue' = [queue EXCEPT ![k] = Tail(@)]
      /\ selected' = SelectedAfter(c)
      /\ UNCHANGED <<unordered, messages, sequence_number, pushing, abandoned, rcv_vars>>
  BY DEF MovePending
<1>2. k \in Kinds /\ (selected # "none" => k = selected)
  <2>1. selected \in {"none", "ordered", "unordered"}
    BY DEF SenderInv, SelectedOk
  <2> QED BY <2>1 DEF Source, Kinds
<1>3. selected' = IF Ends(messages, c) THEN "none" ELSE k
  BY <1>1 DEF SelectedAfter, Ending, Ends
<1> HIDE DEF k
<1>4. queue \in [Kinds -> Seq(Fragment)]
  BY DEF SenderInv
<1>5. \A x \in Kinds : queue[x] \in Seq(Fragment) /\ Unpushed(x) \in Seq(Fragment)
                       /\ Rest[x] = queue[x] \o Unpushed(x)
  BY RestTyped
<1>6. Tail(queue[k]) \o Unpushed(k) = Tail(Rest[k]) /\ Rest[k] # <<>> /\ c = Rest[k][1]
  <2> DEFINE q == queue[k]
             u == Unpushed(k)
             r == Rest[k]
  <2>1. q \in Seq(Fragment) /\ u \in Seq(Fragment) /\ r = q \o u /\ q # <<>>
    BY <1>1, <1>2, <1>5
  <2> HIDE DEF q, u, r
  <2>2. Tail(q) \o u = Tail(r) /\ r # <<>> /\ Head(q) = r[1]
    BY <2>1, PopMoves
  <2> QED BY <2>2 DEF q, u, r
<1>7. Tail(queue[k]) \in Seq(Fragment) /\ c \in Fragment
  BY <1>1, <1>2, <1>4, HeadAndTail
<1>8. queue' \in [Kinds -> Seq(Fragment)] /\ queue'[k] = Tail(queue[k])
      /\ \A x \in Kinds : x # k => queue'[x] = queue[x]
  BY <1>1, <1>2, <1>4, <1>7
<1>9. \A x \in Kinds : Unpushed(x)' = Unpushed(x)
  BY <1>1 DEF Unpushed
<1>10. \A x \in Kinds : Rest'[x] = IF x = k THEN Tail(Rest[x]) ELSE Rest[x]
  BY <1>5, <1>6, <1>8, <1>9 DEF Rest
<1>11. Rest' = [x \in Kinds |-> Rest'[x]] /\ Rest = [x \in Kinds |-> Rest[x]]
  BY DEF Rest
<1>12. Rest' = [Rest EXCEPT ![k] = Tail(@)]
  BY <1>2, <1>10, <1>11
<1>13. Popped(messages, sent, Rest, selected, k)
  BY <1>1, <1>2, <1>6 DEF Popped, SenderInv, Numbered, Beginning
<1> QED BY <1>1, <1>2, <1>3, <1>6, <1>7, <1>8, <1>12, <1>13

LEMMA MoveKeeps ==
    ASSUME OneWriter, SenderInv, MovePending
    PROVE  SenderInv'
<1> PICK k \in Kinds :
             /\ Popped(messages, sent, Rest, selected, k)
             /\ sent' = Append(sent, Rest[k][1]) /\ Rest[k][1] \in Fragment
             /\ Rest' = [Rest EXCEPT ![k] = Tail(@)]
             /\ selected' = IF Ends(messages, Rest[k][1]) THEN "none" ELSE k
             /\ queue' \in [Kinds -> Seq(Fragment)]
             /\ UNCHANGED <<unordered, messages, sequence_number, pushing, abandoned, rcv_vars>>
  BY MoveFacts
<1> DEFINE c == Rest[k][1]
<1>1. /\ messages \in Seq(Message) /\ sent \in Seq(Fragment) /\ c \in Fragment
      /\ Rest \in [Kinds -> Seq(Fragment)] /\ Rest[k] # <<>>
      /\ ToSend(messages, k, Rest[k]) /\ Awaits(messages, sent, k, Rest[k])
  BY RestTyped DEF SenderInv, Numbered, SentOk, Popped
<1>2. Rest'[k] = Tail(Rest[k]) /\ \A x \in Kinds : x # k => Rest'[x] = Rest[x]
  BY <1>1
<1>3. ToSend(messages, k, Tail(Rest[k])) /\ KindIn(messages, c) = k
  BY <1>1, ToSendPop
<1>4. ASSUME NEW x \in Kinds
      PROVE  ToSend(messages', x, Rest'[x]) /\ Awaits(messages', sent', x, Rest'[x])
  <2>1. CASE x = k
    <3>1. Awaits(messages, Append(sent, Rest[k][1]), k, Tail(Rest[k]))
      BY <1>1, AwaitsPop
    <3> QED BY <1>2, <1>3, <2>1, <3>1
  <2>2. CASE x # k
    <3>1. ToSend(messages, x, Rest[x]) /\ Awaits(messages, sent, x, Rest[x])
      BY DEF SenderInv
    <3>2. Awaits(messages, Append(sent, c), x, Rest[x])
      BY <1>1, <1>3, <2>2, <3>1, AwaitsOther
    <3> QED BY <1>2, <2>2, <3>1, <3>2
  <2> QED BY <2>1, <2>2
<1>5. SentOk(messages', sent')
  BY PoppedFollows
<1>6. SelectedOk(messages', sent', Rest', selected')
  BY <1>1, PoppedSelects
<1>7. EndsKept(messages', sent', Rest')
  <2>1. EndsKept(messages, sent, Rest)
    BY DEF SenderInv
  <2>2. EndsKept(messages, Append(sent, Rest[k][1]), [Rest EXCEPT ![k] = Tail(@)])
    BY <1>1, <2>1, PoppedEnds
  <2> QED BY <2>2
<1>8. AbandonedOk(messages', sent', abandoned')
  <2>1. AbandonedOk(messages, sent, abandoned)
    BY DEF SenderInv
  <2>2. AbandonedOk(messages, Append(sent, c), abandoned)
    BY <1>1, <2>1, AbandonedAppend
  <2> QED BY <2>2
<1>9. /\ unordered' \in BOOLEAN /\ Numbered(messages', unordered', sequence_number')
      /\ queue' \in [Kinds -> Seq(Fragment)] /\ pushing' \in [Writers -> Seq(Fragment)]
      /\ \A i \in 1 .. Len(pushing'[W]) : pushing'[W][i].msg = Len(messages')
  BY DEF SenderInv
<1> QED BY <1>4, <1>5, <1>6, <1>7, <1>8, <1>9 DEF SenderInv

LEMMA AbandonKeeps ==
    ASSUME SenderInv, NEW i \in 1 .. Len(messages), Abandon(i)
    PROVE  SenderInv'
<1>1. /\ UNCHANGED <<unordered, messages, sequence_number, pushing, queue, selected, sent>>
      /\ abandoned' = abandoned \cup {i} /\ ~messages[i].dcep /\ AllInflight(i)
  BY DEF Abandon
<1>2. Rest' = Rest
  BY <1>1 DEF Rest, Unpushed
<1>3. PICK t \in Tsns : sent[t].msg = i /\ Ending(sent[t])
  BY <1>1 DEF AllInflight
<1>4. sent[t] = Last(messages, i) /\ t \in 1 .. Len(sent)
  <2>1. messages \in Seq(Message) /\ ValidIn(messages, sent[t])
    BY <1>3 DEF SenderInv, Numbered, SentOk, Tsns
  <2> QED BY <1>3, <2>1, ValidFacts DEF Ending, Ends, Tsns
<1>5. AbandonedOk(messages', sent', abandoned')
  BY <1>1, <1>4 DEF SenderInv, AbandonedOk
<1> QED BY <1>1, <1>2, <1>5 DEF SenderInv

LEMMA SenderNext ==
    ASSUME OneWriter, SenderInv, [Next]_vars
    PROVE  SenderInv'
<1>1. CASE \E w \in Writers : Write(w) \/ Push(w)
  BY <1>1, WriteFacts, WroteKeeps, PushKeeps
<1>2. CASE MovePending
  BY <1>2, MoveKeeps
<1>3. CASE \E i \in 1 .. Len(messages) : Abandon(i)
  BY <1>3, AbandonKeeps
<1>4. CASE (\E t \in Tsns : HandleData(t) \/ HandleForwardTsn(t)) \/ Read \/ UNCHANGED vars
  BY <1>4, SenderSame DEF HandleData, HandleForwardTsn, Read, vars
<1> QED BY <1>1, <1>2, <1>3, <1>4 DEF Next

LEMMA SenderAlways == ASSUME OneWriter PROVE Spec => []SenderInv
<1>1. Init => SenderInv
  BY SenderInit
<1>2. SenderInv /\ [Next]_vars => SenderInv'
  BY SenderNext
<1> QED BY <1>1, <1>2, PTL DEF Spec

\* The fragments of a message have TSNs one after the other, which is what
\* fragmentation and the pending queue owe to the receiver: it tells messages
\* apart by nothing else.
THEOREM FragmentsFollow == ASSUME OneWriter PROVE Spec => []FragmentsSequential
<1>1. SenderInv => FragmentsSequential
  <2> SUFFICES ASSUME SenderInv PROVE FragmentsSequential
    OBVIOUS
  <2> SUFFICES ASSUME NEW t \in 1 .. Len(sent)
               PROVE  /\ sent[t].n # 1 => t > 1 /\ sent[t - 1] = [sent[t] EXCEPT !.n = @ - 1]
                      /\ ~Ends(messages, sent[t]) /\ t < Len(sent) => sent[t + 1].msg = sent[t].msg
    BY DEF FragmentsSequential, Tsns, Beginning, Ending, Ends
  <2>1. messages \in Seq(Message) /\ sent \in Seq(Fragment) /\ ValidIn(messages, sent[t]) /\ Preceded(sent, t)
        /\ (t \in 1 .. Len(sent) - 1 => Follows(messages, sent[t], sent[t + 1]))
    BY DEF SenderInv, Numbered, SentOk
  <2> DEFINE c == sent[t]
  <2>2. c.n \in Nat \ {0} /\ c = [msg |-> c.msg, n |-> c.n]
    BY <2>1, ValidFacts
  <2>3. c.n <= t /\ \A j \in 0 .. c.n - 1 : sent[t - j] = [msg |-> c.msg, n |-> c.n - j]
    BY <2>1 DEF Preceded
  <2>4. Len(sent) \in Nat
    BY <2>1
  <2>5. ~Ends(messages, c) /\ t < Len(sent) => sent[t + 1].msg = c.msg
    BY <2>1, <2>4 DEF Follows
  <2> HIDE DEF c
  <2>6. ASSUME c.n # 1 PROVE t > 1 /\ sent[t - 1] = [c EXCEPT !.n = @ - 1]
    <3>1. 1 \in 0 .. c.n - 1 /\ t > 1
      BY <2>2, <2>3, <2>6
    <3>2. sent[t - 1] = [msg |-> c.msg, n |-> c.n - 1]
      BY <2>3, <3>1
    <3>3. [c EXCEPT !.n = @ - 1] = [msg |-> c.msg, n |-> c.n - 1]
      BY <2>2
    <3> QED BY <3>1, <3>2, <3>3
  <2> QED BY <2>5, <2>6 DEF c
<1> QED BY <1>1, SenderAlways, PTL

-----------------------------------------------------------------------------
(* Where the fragments of a message are among the chunks that were sent.   *)

LEMMA SentLen ==
    ASSUME NEW ms, NEW s, SentOk(ms, s)
    PROVE  s \in Seq(Fragment) /\ Len(s) \in Nat
  BY DEF SentOk

LEMMA SentAt ==
    ASSUME NEW ms \in Seq(Message), NEW s, SentOk(ms, s), NEW t \in 1 .. Len(s)
    PROVE  /\ ValidIn(ms, s[t]) /\ KindIn(ms, s[t]) \in Kinds
           /\ s[t].n \in Nat \ {0} /\ s[t].n <= t /\ s[t].n <= ms[s[t].msg].len
           /\ s[t].msg \in 1 .. Len(ms) /\ s[t].msg \in Nat \ {0}
           /\ ms[s[t].msg] \in Message /\ ms[s[t].msg].len \in Nat \ {0}
           /\ s[t] = [msg |-> s[t].msg, n |-> s[t].n]
<1>1. ValidIn(ms, s[t]) /\ Preceded(s, t)
  BY DEF SentOk
<1>2. s[t].n <= t
  BY <1>1 DEF Preceded
<1>3. s[t].msg \in 1 .. Len(ms) => s[t].msg \in Nat \ {0}
  OBVIOUS
<1> QED BY <1>1, <1>2, <1>3, ValidFacts

LEMMA SentBack ==
    ASSUME NEW ms, NEW s, SentOk(ms, s), NEW t \in 1 .. Len(s)
    PROVE  \A j \in 0 .. s[t].n - 1 : s[t - j] = [msg |-> s[t].msg, n |-> s[t].n - j]
  BY DEF SentOk, Preceded

LEMMA SamePlace ==
    ASSUME NEW ms \in Seq(Message), NEW s, SentOk(ms, s), NEW t \in 1 .. Len(s), NEW u \in 1 .. Len(s),
           s[t].msg = s[u].msg
    PROVE  t - u = s[t].n - s[u].n
<1>1. ASSUME NEW a \in 1 .. Len(s), NEW b \in 1 .. Len(s), s[a].msg = s[b].msg, a < b
      PROVE  b - a = s[b].n - s[a].n
  <2>1. /\ s[a].n \in Nat \ {0} /\ s[b].n \in Nat \ {0} /\ s[b].n <= b
        /\ s[a] = [msg |-> s[a].msg, n |-> s[a].n]
        /\ s[a].msg \in Nat
        /\ \A j \in 0 .. s[b].n - 1 : s[b - j] = [msg |-> s[b].msg, n |-> s[b].n - j]
        /\ Len(s) \in Nat
    <3>1. s[a].n \in Nat \ {0} /\ s[a] = [msg |-> s[a].msg, n |-> s[a].n] /\ s[a].msg \in Nat
      BY SentAt
    <3>2. s[b].n \in Nat \ {0} /\ s[b].n <= b
      BY SentAt
    <3>3. \A j \in 0 .. s[b].n - 1 : s[b - j] = [msg |-> s[b].msg, n |-> s[b].n - j]
      BY SentBack
    <3>4. Len(s) \in Nat
      BY SentLen
    <3> QED BY ONLY <3>1, <3>2, <3>3, <3>4
  <2>2. KindIn(ms, s[a]) = KindIn(ms, s[b])
    BY <1>1 DEF KindIn
  <2>3. Before(s[a], s[b])
    BY <1>1, <2>2 DEF SentOk
  <2>4. s[a].n < s[b].n
    BY <1>1, <2>1, <2>3 DEF Before
  <2> DEFINE j == s[b].n - s[a].n
             c == b - j
  <2>5. j \in 0 .. s[b].n - 1 /\ s[b].n - j = s[a].n
    BY <2>1, <2>4
  <2>6. s[c] = [msg |-> s[b].msg, n |-> s[a].n]
    BY <2>1, <2>5
  <2>7. s[c] = s[a]
    BY <1>1, <2>1, <2>6
  <2>8. c \in 1 .. Len(s) /\ j \in Nat
    <3>1. j \in Nat /\ j < s[b].n
      BY <2>1, <2>4
    <3> HIDE DEF j
    <3> QED BY <2>1, <3>1
  <2> HIDE DEF c
  <2>9. ~(a < c) /\ ~(c < a)
    <3>1. a < c => Before(s[a], s[c])
      BY <2>7, <2>8 DEF SentOk
    <3>2. c < a => Before(s[c], s[a])
      BY <2>7, <2>8 DEF SentOk
    <3>3. ~Before(s[a], s[a])
      BY <2>1 DEF Before
    <3> QED BY <2>7, <3>1, <3>2, <3>3
  <2>10. a = c
    BY <2>8, <2>9
  <2>11. b - (b - j) = j
    BY <2>8
  <2> QED BY <2>10, <2>11 DEF c
<1>2. s[t].n \in Nat /\ s[u].n \in Nat
  BY SentAt
<1>3. CASE t < u
  BY <1>1, <1>2, <1>3
<1>4. CASE u < t
  BY <1>1, <1>2, <1>4
<1>5. CASE t = u
  BY <1>2, <1>5
<1> QED BY <1>3, <1>4, <1>5

LEMMA SentOnce ==
    ASSUME NEW ms \in Seq(Message), NEW s, SentOk(ms, s), NEW t \in 1 .. Len(s), NEW u \in 1 .. Len(s),
           s[t] = s[u]
    PROVE  t = u
<1>1. s[t].n \in Nat
  BY SentAt
<1>2. t - u = s[t].n - s[u].n
  BY SamePlace
<1> QED BY <1>1, <1>2

LEMMA WholeFacts ==
    ASSUME NEW ms \in Seq(Message), NEW s, SentOk(ms, s), NEW e \in 1 .. Len(s), Ends(ms, s[e])
    PROVE  /\ e - s[e].n + 1 \in 1 .. e /\ e \in Whole(s, e) /\ Whole(s, e) \subseteq 1 .. e
           /\ \A u \in 1 .. Len(s) : u \in Whole(s, e) <=> s[u].msg = s[e].msg
           /\ \A u \in Whole(s, e) :
                 /\ u \in 1 .. Len(s)
                 /\ s[u].msg = s[e].msg /\ s[u].n = u - (e - s[e].n)
                 /\ s[u].n = 1 <=> u = e - s[e].n + 1
                 /\ Ends(ms, s[u]) <=> u = e
                 /\ KindIn(ms, s[u]) = KindIn(ms, s[e])
<1> DEFINE c == s[e]
           a == e - c.n + 1
<1>0. c.n \in Nat \ {0} /\ c.n <= e
  BY SentAt
<1>1. /\ c.n \in Nat \ {0} /\ c.n <= e /\ Len(s) \in Nat /\ e \in Nat
      /\ \A j \in 0 .. c.n - 1 : s[e - j] = [msg |-> c.msg, n |-> c.n - j]
  BY <1>0, SentBack, SentLen
<1>2. Whole(s, e) = a .. e /\ c.n = ms[c.msg].len
  BY DEF Whole, Ends
<1> HIDE DEF c
<1>3. a \in 1 .. e /\ e \in a .. e /\ a .. e \subseteq 1 .. e /\ 1 .. e \subseteq 1 .. Len(s)
  BY <1>1
<1>4. ASSUME NEW u \in a .. e
      PROVE  s[u].msg = c.msg /\ s[u].n = u - (e - c.n)
  <2> DEFINE j == e - u
  <2>1. j \in 0 .. c.n - 1 /\ e - j = u /\ c.n - j = u - (e - c.n)
    BY <1>1, <1>3
  <2> HIDE DEF j
  <2>2. s[e - j] = [msg |-> c.msg, n |-> c.n - j]
    BY <1>1, <2>1
  <2> QED BY <2>1, <2>2
<1>5. ASSUME NEW u \in 1 .. Len(s), s[u].msg = c.msg PROVE u \in a .. e
  <2>1. u - e = s[u].n - c.n
    BY <1>5, SamePlace DEF c
  <2>2. s[u].n <= ms[s[u].msg].len /\ s[u].n \in Nat \ {0}
    BY SentAt
  <2>3. s[u].n <= c.n
    BY <1>2, <1>5, <2>2
  <2>4. u \in Nat /\ s[u].n >= 1
    BY <1>1, <2>2
  <2>5. u <= e /\ u > e - c.n
    BY ONLY <1>1, <2>1, <2>2, <2>3, <2>4
  <2> QED BY <1>1, <2>5
<1>6. ASSUME NEW u \in a .. e
      PROVE  /\ s[u].n = 1 <=> u = a
             /\ Ends(ms, s[u]) <=> u = e
             /\ KindIn(ms, s[u]) = KindIn(ms, c)
  <2>1. s[u].msg = c.msg /\ s[u].n = u - (e - c.n)
    BY <1>4
  <2>2. s[u].n = 1 <=> u = a
    BY <1>1, <1>3, <2>1
  <2>3. s[u].n = c.n <=> u = e
    BY <1>1, <1>3, <2>1
  <2> QED BY <1>2, <2>1, <2>2, <2>3 DEF Ends, KindIn
<1> QED BY <1>2, <1>3, <1>4, <1>5, <1>6 DEF c

\* Where a last fragment follows, the next of them ends the message.
LEMMA NextEnd ==
    ASSUME NEW ms \in Seq(Message), NEW s, SentOk(ms, s), NEW u \in 1 .. Len(s), NEW t \in u .. Len(s),
           Ends(ms, s[t])
    PROVE  \E e \in u .. t : e \in 1 .. Len(s) /\ Ends(ms, s[e]) /\ u \in Whole(s, e)
<1>1. Len(s) \in Nat /\ t \in 1 .. Len(s) /\ t \in Nat
  BY SentLen
<1> DEFINE S == {v \in u .. t : Ends(ms, s[v])}
<1>2. PICK e \in S : \A v \in S : e <= v
  <2>1. S \in SUBSET Nat /\ t \in S
    BY <1>1
  <2> QED BY <2>1, LeastNatural
<1>3. e \in u .. t /\ e \in 1 .. Len(s) /\ Ends(ms, s[e]) /\ \A v \in u .. (e - 1) : ~Ends(ms, s[v])
  BY <1>1, <1>2
<1> DEFINE a == e - s[e].n + 1
<1>4. /\ a \in 1 .. e /\ a \in Whole(s, e) /\ Whole(s, e) = a .. e
      /\ s[a].n = 1
  <2>1. a \in 1 .. e /\ Whole(s, e) = a .. e
    BY <1>3, WholeFacts DEF Whole
  <2>2. a \in Whole(s, e)
    BY <2>1
  <2> QED BY <1>3, <2>1, <2>2, WholeFacts
<1> HIDE DEF a, S
<1>5. a <= u
  <2> SUFFICES ASSUME a > u PROVE FALSE
    BY <1>4
  <2> DEFINE b == a - 1
  <2>1. b \in u .. (e - 1) /\ b \in 1 .. Len(s) - 1 /\ b + 1 = a /\ b \in 1 .. Len(s)
    BY <1>1, <1>3, <1>4
  <2> HIDE DEF b
  <2>2. ~Ends(ms, s[b]) /\ Follows(ms, s[b], s[b + 1])
    BY <1>3, <2>1 DEF SentOk
  <2>3. s[a].n = s[b].n + 1 /\ s[b].n \in Nat \ {0}
    BY <2>1, <2>2, SentAt DEF Follows
  <2> QED BY <1>4, <2>3
<1> QED BY <1>3, <1>4, <1>5

\* Ordered chunks that are numbered alike are of one message.
LEMMA SameNumber ==
    ASSUME NEW ms \in Seq(Message), NEW s, SentOk(ms, s), NEW t \in 1 .. Len(s), NEW u \in 1 .. Len(s),
           KindIn(ms, s[t]) = "ordered", KindIn(ms, s[u]) = "ordered"
    PROVE  /\ NumberIn(ms, s[t].msg) = NumberIn(ms, s[u].msg) => s[t].msg = s[u].msg
           /\ t <= u => NumberIn(ms, s[t].msg) <= NumberIn(ms, s[u].msg)
           /\ t < u /\ Ends(ms, s[t]) => NumberIn(ms, s[t].msg) < NumberIn(ms, s[u].msg)
           /\ NumberIn(ms, s[t].msg) \in 1 .. NumberIn(ms, Len(ms))
           /\ ~ms[s[t].msg].unordered
<1>1. /\ ValidIn(ms, s[t]) /\ ValidIn(ms, s[u])
      /\ s[t].msg \in 1 .. Len(ms) /\ s[u].msg \in 1 .. Len(ms) /\ Len(ms) \in Nat
      /\ s[u].n \in Nat /\ s[t].n \in Nat /\ s[u].n <= ms[s[u].msg].len /\ ms[s[u].msg].len \in Nat
  <2>1. ValidIn(ms, s[t]) /\ s[t].msg \in 1 .. Len(ms) /\ s[t].n \in Nat
    BY SentAt
  <2>2. ValidIn(ms, s[u]) /\ s[u].msg \in 1 .. Len(ms) /\ s[u].n \in Nat
        /\ s[u].n <= ms[s[u].msg].len /\ ms[s[u].msg].len \in Nat
    BY SentAt
  <2> QED BY <2>1, <2>2
<1>2. ~ms[s[t].msg].unordered /\ ~ms[s[u].msg].unordered
  BY <1>1, ValidFacts
<1> DEFINE i == s[t].msg
           j == s[u].msg
<1>3. i \in Nat \ {0} /\ j \in Nat \ {0} /\ i \in 0 .. Len(ms)
  BY <1>1
<1>4. NumberIn(ms, i) \in Nat /\ NumberIn(ms, j) \in Nat
  BY <1>3, NumberNat
<1>5. (i < j => NumberIn(ms, i) < NumberIn(ms, j)) /\ (j < i => NumberIn(ms, j) < NumberIn(ms, i))
  BY <1>2, <1>3, NumberGrows
<1>6. t < u => i < j \/ (i = j /\ s[t].n < s[u].n)
  BY DEF SentOk, Before
<1>7. t < u /\ Ends(ms, s[t]) => i < j
  BY <1>1, <1>6 DEF Ends
<1>8. NumberIn(ms, i) \in 1 .. NumberIn(ms, Len(ms))
  <2>1. NumberIn(ms, i) <= NumberIn(ms, Len(ms)) /\ NumberIn(ms, Len(ms)) \in Nat
    <3>1. \A l \in 0 .. Len(ms) : NumberIn(ms, l) <= NumberIn(ms, Len(ms))
      BY <1>1, NumberFacts
    <3> QED BY <1>1, <1>3, <3>1, NumberNat
  <2>2. i - 1 \in Nat /\ (i - 1) + 1 = i
    BY <1>3
  <2>3. NumberIn(ms, i) = NumberIn(ms, i - 1) + 1 /\ NumberIn(ms, i - 1) \in Nat
    <3> DEFINE p == i - 1
    <3>1. ~ms[p + 1].unordered /\ p \in Nat
      BY <1>2, <2>2
    <3> HIDE DEF p
    <3>2. NumberIn(ms, p + 1) = NumberIn(ms, p) + 1 /\ NumberIn(ms, p) \in 0 .. p
      BY <3>1, NumberFacts
    <3>3. NumberIn(ms, p) \in Nat
      BY <3>1, <3>2
    <3> QED BY <2>2, <3>2, <3>3 DEF p
  <2> QED BY <1>4, <2>1, <2>3
<1> HIDE DEF i, j
<1>9. NumberIn(ms, i) = NumberIn(ms, j) => i = j
  <2>1. i < j \/ j < i \/ i = j
    BY <1>3
  <2>2. CASE i < j
    BY <1>4, <1>5, <2>2
  <2>3. CASE j < i
    BY <1>4, <1>5, <2>3
  <2> QED BY <2>1, <2>2, <2>3
<1>10. t <= u => NumberIn(ms, i) <= NumberIn(ms, j)
  BY <1>3, <1>4, <1>5, <1>6 DEF i, j
<1>11. t < u /\ Ends(ms, s[t]) => NumberIn(ms, i) < NumberIn(ms, j)
  BY <1>5, <1>7
<1> QED BY <1>2, <1>8, <1>9, <1>10, <1>11 DEF i, j

-----------------------------------------------------------------------------
(* ChunkSet::is_complete and find_complete_unordered_chunk_set find whole  *)
(* messages.                                                               *)

LEMMA RunEnds ==
    ASSUME NEW a \in Nat, NEW b \in Nat, a <= b
    PROVE  Min(a .. b) = a /\ Max(a .. b) = b
<1>1. a .. b \in SUBSET Nat /\ a .. b # {} /\ \A k \in a .. b : k <= b
  OBVIOUS
<1>2. Min(a .. b) \in a .. b /\ \A k \in a .. b : Min(a .. b) <= k
  BY <1>1, MinOfNaturals
<1>3. Max(a .. b) \in a .. b /\ \A k \in a .. b : Max(a .. b) >= k
  BY <1>1, MaxOfNaturals
<1>4. a \in a .. b /\ b \in a .. b
  OBVIOUS
<1> DEFINE x == Min(a .. b)
           y == Max(a .. b)
<1>5. x \in a .. b /\ x <= a /\ y \in a .. b /\ y >= b
  BY <1>2, <1>3, <1>4
<1> HIDE DEF x, y
<1>6. x = a /\ y = b
  BY <1>5
<1> QED BY <1>6 DEF x, y

LEMMA WholeComplete ==
    ASSUME messages \in Seq(Message), SentOk(messages, sent), NEW e \in 1 .. Len(sent), Ends(messages, sent[e])
    PROVE  /\ IsComplete(Whole(sent, e))
           /\ Min(Whole(sent, e)) = e - sent[e].n + 1 /\ Max(Whole(sent, e)) = e
           /\ \A S : e \in S /\ Whole(sent, e) \subseteq S => Whole(sent, e) \in CompleteRuns(S)
<1> DEFINE a == e - sent[e].n + 1
<1>1. a \in 1 .. e /\ a \in Nat /\ e \in Nat /\ a <= e
  BY WholeFacts
<1>2. Whole(sent, e) = a .. e
  BY DEF Whole
<1> DEFINE w == Whole(sent, e)
<1>3. /\ e \in w /\ w \subseteq 1 .. e
      /\ \A u \in w : /\ sent[u].n = 1 <=> u = a
                      /\ Ends(messages, sent[u]) <=> u = e
  BY WholeFacts
<1> HIDE DEF a
<1>4. Min(w) = a /\ Max(w) = e
  BY <1>1, <1>2, RunEnds
<1>5. a \in w /\ w = a .. e /\ w # {}
  <2>1. a \in a .. e
    BY <1>1
  <2> QED BY <1>2, <2>1
<1> HIDE DEF w
<1>6. \A u \in w : Beginning(sent[u]) <=> u = a
  BY <1>3 DEF Beginning
<1>7. \A u \in w : Ending(sent[u]) <=> u = e
  BY <1>3 DEF Ending, Ends
<1>8. IsComplete(w)
  BY <1>3, <1>4, <1>5, <1>6, <1>7 DEF IsComplete
<1>9. ASSUME NEW S, e \in S, w \subseteq S PROVE w \in CompleteRuns(S)
  <2>1. a \in S /\ w \in {x .. y : x \in S, y \in S}
    BY <1>5, <1>9
  <2>2. \A t \in w : (Beginning(sent[t]) <=> t = Min(w)) /\ (Ending(sent[t]) <=> t = Max(w))
    BY <1>4, <1>6, <1>7
  <2> QED BY <1>8, <1>9, <2>1, <2>2 DEF CompleteRuns
<1> QED BY <1>4, <1>8, <1>9 DEF w, a

\* A set without gaps from a first fragment to a last one is one whole message,
\* if no other fragment in it is a first one or if all are of one message.
LEMMA CompleteWhole ==
    ASSUME messages \in Seq(Message), SentOk(messages, sent), NEW S \in SUBSET (1 .. Len(sent)), IsComplete(S),
           \/ \A t \in S : Beginning(sent[t]) => t = Min(S)
           \/ \A t, u \in S : sent[t].msg = sent[u].msg
    PROVE  /\ Max(S) \in S /\ Max(S) \in 1 .. Len(sent) /\ Ends(messages, sent[Max(S)])
           /\ S = Whole(sent, Max(S))
<1>0. Len(sent) \in Nat
  BY SentLen
<1>1. S \in SUBSET Nat /\ S # {} /\ \A k \in S : k <= Len(sent)
  BY <1>0 DEF IsComplete
<1> DEFINE b == Max(S)
           a == Min(S)
<1>2. b \in S /\ a \in S /\ \A k \in S : k <= b /\ a <= k
  BY <1>0, <1>1, MinOfNaturals, MaxOfNaturals
<1>3. S = a .. b /\ sent[a].n = 1 /\ Ends(messages, sent[b])
  BY DEF IsComplete, Beginning, Ending, Ends
<1>4. \/ \A t \in S : sent[t].n = 1 => t = a
      \/ \A t, u \in S : sent[t].msg = sent[u].msg
  BY DEF Beginning
<1> HIDE DEF a, b
<1>5. a \in 1 .. Len(sent) /\ b \in 1 .. Len(sent) /\ a <= b /\ b \in Nat /\ a \in Nat
  BY <1>2, <1>0
<1> DEFINE c == b - sent[b].n + 1
<1>6. /\ c \in 1 .. b /\ Whole(sent, b) = c .. b /\ c \in Whole(sent, b)
      /\ sent[c].n = 1
      /\ \A u \in Whole(sent, b) : sent[u].n = 1 <=> u = c
      /\ \A u \in 1 .. Len(sent) : u \in Whole(sent, b) <=> sent[u].msg = sent[b].msg
  <2>1. c \in 1 .. b /\ Whole(sent, b) = c .. b
    BY <1>3, <1>5, WholeFacts DEF Whole
  <2>2. \A u \in Whole(sent, b) : sent[u].n = 1 <=> u = c
    BY <1>3, <1>5, WholeFacts
  <2>3. \A u \in 1 .. Len(sent) : u \in Whole(sent, b) <=> sent[u].msg = sent[b].msg
    BY <1>3, <1>5, WholeFacts
  <2>4. c \in Whole(sent, b)
    BY <2>1, <1>5
  <2> QED BY <2>1, <2>2, <2>3, <2>4
<1> HIDE DEF c
<1>7. ~(a < c)
  <2> SUFFICES ASSUME a < c PROVE FALSE
    OBVIOUS
  <2>1. c \in S /\ c # a
    BY <1>3, <1>5, <1>6
  <2>2. \A t, u \in S : sent[t].msg = sent[u].msg
    BY <1>4, <1>6, <2>1
  <2>3. a \in Whole(sent, b)
    BY <1>2, <1>5, <1>6, <2>2
  <2> QED BY <1>5, <1>6, <2>3
<1>8. ~(c < a)
  <2> SUFFICES ASSUME c < a PROVE FALSE
    OBVIOUS
  <2>1. a \in Whole(sent, b)
    BY <1>5, <1>6
  <2> QED BY <1>3, <1>6, <2>1
<1>9. S = Whole(sent, b)
  BY <1>3, <1>5, <1>6, <1>7, <1>8
<1> QED BY <1>2, <1>3, <1>5, <1>9 DEF b

LEMMA RunsFacts ==
    ASSUME messages \in Seq(Message), SentOk(messages, sent), NEW S \in SUBSET (1 .. Len(sent))
    PROVE  /\ \A R \in CompleteRuns(S) : \E e \in S : Ends(messages, sent[e]) /\ R = Whole(sent, e) /\ R \subseteq S
           /\ CompleteRuns(S) = {} <=> LooseOk(messages, sent, S)
<1>1. ASSUME NEW R \in CompleteRuns(S)
      PROVE  \E e \in S : Ends(messages, sent[e]) /\ R = Whole(sent, e) /\ R \subseteq S
  <2>1. R \subseteq S /\ IsComplete(R) /\ \A t \in R : Beginning(sent[t]) => t = Min(R)
    BY DEF CompleteRuns
  <2>2. R \in SUBSET (1 .. Len(sent))
    BY <2>1
  <2>3. Max(R) \in R /\ Ends(messages, sent[Max(R)]) /\ R = Whole(sent, Max(R))
    BY <2>1, <2>2, CompleteWhole
  <2> QED BY <2>1, <2>3
<1>2. ASSUME NEW e \in S, Ends(messages, sent[e]), Whole(sent, e) \subseteq S
      PROVE  CompleteRuns(S) # {}
  BY <1>2, WholeComplete
<1> QED BY <1>1, <1>2 DEF LooseOk

\* The contents of a whole message.
LEMMA WholeContents ==
    ASSUME messages \in Seq(Message), SentOk(messages, sent), NEW e \in 1 .. Len(sent), Ends(messages, sent[e])
    PROVE  LET m == sent[e].msg
           IN  /\ Contents(Whole(sent, e)) = [n \in 1 .. messages[m].len |-> [msg |-> m, n |-> n]]
               /\ Contents(Whole(sent, e)) \in Seq(Fragment)
               /\ Contents(Whole(sent, e))[1] = sent[e - sent[e].n + 1]
               /\ m \in 1 .. Len(messages)
               /\ Cardinality(Whole(sent, e)) = messages[m].len
<1> DEFINE m == sent[e].msg
           a == e - sent[e].n + 1
           len == messages[m].len
<1>1. /\ len \in Nat \ {0} /\ sent[e].n = len /\ m \in 1 .. Len(messages) /\ m \in Nat \ {0}
      /\ Len(sent) \in Nat
  <2>1. sent[e].n = len
    BY DEF Ends
  <2> QED BY <2>1, SentAt, SentLen
<1>2. a \in 1 .. e /\ Whole(sent, e) = a .. e /\ a + len - 1 = e
  <2>1. a \in 1 .. e
    BY WholeFacts
  <2>2. a + len - 1 = e
    <3>1. a = e - len + 1 /\ e \in Nat /\ len \in Nat
      BY <1>1
    <3> HIDE DEF a, len
    <3> QED BY <3>1
  <2> QED BY <2>1, <2>2 DEF Whole
<1>3. \A u \in Whole(sent, e) : u \in 1 .. Len(sent) /\ sent[u].msg = m /\ sent[u].n = u - (e - sent[e].n)
  BY WholeFacts
<1> HIDE DEF a
<1>4. Cardinality(a .. e) = len
  <2>1. Cardinality(a .. e) = e - a + 1
    BY <1>1, <1>2, FS_Interval
  <2> QED BY <1>1, <1>2, <2>1
<1>5. Min(a .. e) = a
  BY <1>2, RunEnds
<1>6. ASSUME NEW i \in 1 .. len PROVE sent[a + i - 1] = [msg |-> m, n |-> i]
  <2> DEFINE u == a + i - 1
  <2>1. u \in a .. e /\ u - (e - sent[e].n) = i
    BY <1>1, <1>2, SMTT(30)
  <2> HIDE DEF u
  <2>2. u \in 1 .. Len(sent) /\ sent[u].msg = m /\ sent[u].n = i
    BY <1>2, <1>3, <2>1
  <2>3. sent[u] = [msg |-> sent[u].msg, n |-> sent[u].n]
    BY <2>2, SentAt
  <2> QED BY <2>2, <2>3 DEF u
<1>7. Contents(Whole(sent, e)) = [i \in 1 .. len |-> sent[a + i - 1]]
  BY <1>2, <1>4, <1>5 DEF Contents
<1>8. [i \in 1 .. len |-> sent[a + i - 1]] = [n \in 1 .. len |-> [msg |-> m, n |-> n]]
  BY <1>6
<1>9. [n \in 1 .. len |-> [msg |-> m, n |-> n]] \in Seq(Fragment)
  <2>1. \A n \in 1 .. len : [msg |-> m, n |-> n] \in Fragment
    BY <1>1 DEF Fragment
  <2>2. [n \in 1 .. len |-> [msg |-> m, n |-> n]] \in [1 .. len -> Fragment]
    BY <2>1
  <2> HIDE DEF len, m
  <2> QED BY <1>1, <2>2
<1>10. [i \in 1 .. len |-> sent[a + i - 1]][1] = sent[a]
  <2>1. 1 \in 1 .. len /\ a + 1 - 1 = a
    BY <1>1, <1>2
  <2> QED BY <2>1
<1> DEFINE q == Contents(Whole(sent, e))
           r == [n \in 1 .. len |-> [msg |-> m, n |-> n]]
<1>11. q = r /\ r \in Seq(Fragment) /\ q[1] = sent[a]
  BY <1>7, <1>8, <1>9, <1>10
<1>12. m \in 1 .. Len(messages) /\ Cardinality(Whole(sent, e)) = len
  BY <1>1, <1>2, <1>4
<1> HIDE DEF q, r
<1>13. q = r /\ q \in Seq(Fragment) /\ q[1] = sent[a]
  BY <1>11
<1> QED BY <1>12, <1>13 DEF a, q, r

-----------------------------------------------------------------------------
(* The reassembly queue.                                                   *)

\* What the receiver knows of the sender.
Sending(ms, s, un) == SentOk(ms, s) /\ \E next : Numbered(ms, un, next)

LEMMA SendingFacts ==
    ASSUME NEW ms, NEW s, NEW un, Sending(ms, s, un)
    PROVE  /\ ms \in Seq(Message) /\ SentOk(ms, s) /\ s \in Seq(Fragment)
           /\ Len(ms) \in Nat /\ Len(s) \in Nat /\ NumberIn(ms, Len(ms)) \in Nat
           /\ \A i \in 1 .. Len(ms) : ms[i].unordered = (un /\ ~ms[i].dcep)
<1>1. ms \in Seq(Message) /\ SentOk(ms, s)
  BY DEF Sending, Numbered
<1>2. Len(ms) \in Nat
  BY <1>1
<1>3. \A i \in 1 .. Len(ms) : ms[i].unordered = (un /\ ~ms[i].dcep)
  BY DEF Sending, Numbered
<1> QED BY <1>1, <1>2, <1>3, SentLen, NumberNat

LEMMA ChunkNumber ==
    ASSUME NEW ms, NEW s, NEW un, Sending(ms, s, un), NEW t \in 1 .. Len(s), KindIn(ms, s[t]) = "ordered"
    PROVE  /\ ms[s[t].msg].ssn = Wrap(NumberIn(ms, s[t].msg) - 1) /\ ms[s[t].msg].ssn \in Ssns
           /\ NumberIn(ms, s[t].msg) \in Nat /\ NumberIn(ms, s[t].msg) - 1 \in Nat
           /\ NumberIn(ms, s[t].msg) <= NumberIn(ms, Len(ms))
<1>1. ms \in Seq(Message) /\ SentOk(ms, s)
  BY SendingFacts
<1>2. ~ms[s[t].msg].unordered /\ NumberIn(ms, s[t].msg) \in 1 .. NumberIn(ms, Len(ms))
  BY <1>1, SameNumber
<1>3. s[t].msg \in 1 .. Len(ms)
  BY <1>1, SentAt
<1>4. ms[s[t].msg].ssn = Wrap(NumberIn(ms, s[t].msg) - 1)
  BY <1>2, <1>3 DEF Sending, Numbered
<1>5. NumberIn(ms, s[t].msg) \in Nat /\ NumberIn(ms, s[t].msg) - 1 \in Nat
      /\ NumberIn(ms, s[t].msg) <= NumberIn(ms, Len(ms))
  <2>1. NumberIn(ms, Len(ms)) \in Nat
    BY SendingFacts
  <2> QED BY <1>2, <2>1
<1> QED BY <1>4, <1>5, WrapFacts

\* An ordered chunk set holds chunks of one message.
Apart(s, ord) == \A x \in Ssns : \A t, u \in ord[x] : s[t].msg = s[u].msg

LEMMA OneMessage ==
    ASSUME NEW ms, NEW s, NEW un, Sending(ms, s, un), NEW A, A \subseteq 1 .. Len(s),
           NEW ord, OrderedOk(ms, s, A, ord), NearOk(ms, s, ord)
    PROVE  Apart(s, ord)
<1> SUFFICES ASSUME NEW x \in Ssns, NEW t \in ord[x], NEW u \in ord[x] PROVE s[t].msg = s[u].msg
  BY DEF Apart
<1> DEFINE a == NumberIn(ms, s[t].msg)
           b == NumberIn(ms, s[u].msg)
           L == NumberIn(ms, Len(ms))
<1>1. /\ t \in 1 .. Len(s) /\ KindIn(ms, s[t]) = "ordered" /\ ms[s[t].msg].ssn = x
      /\ u \in 1 .. Len(s) /\ KindIn(ms, s[u]) = "ordered" /\ ms[s[u].msg].ssn = x
  BY DEF OrderedOk
<1>2. x = Wrap(a - 1) /\ a - 1 \in Nat /\ a \in Nat /\ a <= L
  BY <1>1, ChunkNumber
<1>3. x = Wrap(b - 1) /\ b - 1 \in Nat /\ b \in Nat /\ b <= L
  BY <1>1, ChunkNumber
<1>4. L - a + 1 < SsnHalf /\ L - b + 1 < SsnHalf
  BY DEF NearOk
<1>5. L \in Nat /\ ms \in Seq(Message) /\ SentOk(ms, s) /\ SsnHalf \in Nat
  BY SendingFacts, SpaceFacts
<1> HIDE DEF a, b, L
<1>6. (a - 1) - (b - 1) < SsnHalf /\ (b - 1) - (a - 1) < SsnHalf
  BY <1>2, <1>3, <1>4, <1>5
<1>7. a - 1 = b - 1
  BY <1>2, <1>3, <1>6, WrapFacts
<1>8. a = b
  BY <1>2, <1>3, <1>7
<1> QED BY <1>1, <1>5, <1>8, SameNumber DEF a, b

LEMMA HeldMember ==
    ASSUME NEW ord, NEW uc, NEW us, NEW t
    PROVE  t \in HeldIn(ord, uc, us) <=>
              \/ \E x \in Ssns : t \in ord[x]
              \/ t \in uc
              \/ \E i \in 1 .. Len(us) : t \in us[i]
<1>1. t \in UNION {ord[x] : x \in Ssns} <=> \E x \in Ssns : t \in ord[x]
  OBVIOUS
<1>2. t \in UNION {us[i] : i \in 1 .. Len(us)} <=> \E i \in 1 .. Len(us) : t \in us[i]
  OBVIOUS
<1> DEFINE P == UNION {ord[x] : x \in Ssns}
           Q == UNION {us[i] : i \in 1 .. Len(us)}
<1>3. HeldIn(ord, uc, us) = P \cup uc \cup Q
  BY DEF HeldIn
<1> HIDE DEF P, Q
<1>4. t \in HeldIn(ord, uc, us) <=> t \in P \/ t \in uc \/ t \in Q
  BY <1>3
<1> QED BY <1>1, <1>2, <1>4 DEF P, Q

LEMMA HeldArrived ==
    ASSUME NEW ms, NEW s \in Seq(Fragment), NEW A \in SUBSET (1 .. Len(s)), NEW ord, NEW uc, NEW us,
           OrderedOk(ms, s, A, ord), SetsOk(ms, s, A, uc, us)
    PROVE  /\ HeldIn(ord, uc, us) \subseteq A /\ IsFiniteSet(HeldIn(ord, uc, us))
           /\ Cardinality(HeldIn(ord, uc, us)) \in Nat
<1>1. ASSUME NEW t \in HeldIn(ord, uc, us) PROVE t \in A
  <2>1. CASE \E x \in Ssns : t \in ord[x]
    BY <2>1 DEF OrderedOk
  <2>2. CASE t \in uc
    BY <2>2 DEF SetsOk
  <2>3. CASE \E i \in 1 .. Len(us) : t \in us[i]
    BY <2>3 DEF SetsOk
  <2> QED BY <1>1, <2>1, <2>2, <2>3, HeldMember
<1>2. IsFiniteSet(1 .. Len(s))
  BY FS_Interval
<1>3. HeldIn(ord, uc, us) \subseteq 1 .. Len(s)
  BY <1>1
<1>4. IsFiniteSet(HeldIn(ord, uc, us))
  BY <1>2, <1>3, FS_Subset
<1> QED BY <1>1, <1>4, FS_CardinalityType

\* next_ssn is never ahead of a chunk that has not arrived.
LEMMA NotBehind ==
    ASSUME NEW ms, NEW s, NEW un, Sending(ms, s, un), NEW A, NEW next, NEW n, NextIs(ms, s, A, next, n),
           NEW t \in 1 .. Len(s), t \notin A, KindIn(ms, s[t]) = "ordered"
    PROVE  /\ ~Lt(ms[s[t].msg].ssn, next) /\ Lte(next, ms[s[t].msg].ssn)
           /\ NumberIn(ms, s[t].msg) > n
           /\ NumberIn(ms, Len(ms)) - NumberIn(ms, s[t].msg) + 1 < SsnHalf
<1> DEFINE a == NumberIn(ms, s[t].msg)
           L == NumberIn(ms, Len(ms))
<1>1. ms[s[t].msg].ssn = Wrap(a - 1) /\ a - 1 \in Nat /\ a \in Nat /\ a <= L /\ L \in Nat
  BY ChunkNumber, SendingFacts
<1>2. n \in Nat /\ next = Wrap(n) /\ n <= L /\ L - n < SsnHalf /\ a > n
  BY DEF NextIs, PassedOk
<1>3. SsnHalf \in Nat \ {0}
  BY SpaceFacts
<1> HIDE DEF a, L
<1>4. /\ (a - 1) - n < SsnHalf /\ n - (a - 1) < SsnHalf /\ ~(a - 1 < n) /\ n <= a - 1
      /\ L - a + 1 < SsnHalf
  BY <1>1, <1>2, <1>3
<1>5. ~Lt(Wrap(a - 1), Wrap(n)) /\ Lte(Wrap(n), Wrap(a - 1))
  BY <1>1, <1>2, <1>4, WrapFacts
<1> QED BY <1>1, <1>2, <1>4, <1>5 DEF a, L

LEMMA PassedMore ==
    ASSUME NEW ms, NEW s, NEW A, NEW B, A \subseteq B, NEW next, NEW n, NextIs(ms, s, A, next, n)
    PROVE  NextIs(ms, s, B, next, n)
  BY DEF NextIs, PassedOk

LEMMA SetsMore ==
    ASSUME NEW ms, NEW s, NEW A, NEW B, A \subseteq B, NEW uc, NEW us, SetsOk(ms, s, A, uc, us)
    PROVE  SetsOk(ms, s, B, uc, us)
  BY DEF SetsOk

LEMMA OrderedMore ==
    ASSUME NEW ms, NEW s, NEW A, NEW B, A \subseteq B, NEW ord, OrderedOk(ms, s, A, ord)
    PROVE  OrderedOk(ms, s, B, ord)
  BY DEF OrderedOk

\* What was read stays read when chunks arrive or are dropped.
LEMMA DeliveredMore ==
    ASSUME NEW ms, NEW s, NEW A, NEW B, A \subseteq B, NEW held, NEW held2, held2 \cap A \subseteq held,
           NEW dl, DeliveredOk(ms, s, A, held, dl)
    PROVE  DeliveredOk(ms, s, B, held2, dl)
<1>1. ASSUME NEW i \in 1 .. Len(dl) PROVE \E t \in B : t \notin held2 /\ s[t] = dl[i][1]
  BY DEF DeliveredOk
<1> QED BY <1>1 DEF DeliveredOk

\* An ordered chunk arrives.
LEMMA ReceiveOrdered ==
    ASSUME NEW ms, NEW s, NEW un, Sending(ms, s, un), NEW A, NEW next, NEW ord, NEW uc, NEW us, NEW nb, NEW dl,
           QueueInv(ms, s, A, next, ord, uc, us, nb, dl),
           NEW x \in 1 .. Len(s), x \notin A, KindIn(ms, s[x]) = "ordered"
    PROVE  /\ ~Lt(ms[s[x].msg].ssn, next)
           /\ QueueInv(ms, s, A \cup {x}, next,
                       [ord EXCEPT ![ms[s[x].msg].ssn] = @ \cup {x}], uc, us, nb + 1, dl)
<1> DEFINE K == ms[s[x].msg].ssn
           B == A \cup {x}
           o2 == [ord EXCEPT ![K] = @ \cup {x}]
           held == HeldIn(ord, uc, us)
           held2 == HeldIn(o2, uc, us)
<1> PICK n \in Nat : NextIs(ms, s, A, next, n)
  BY DEF QueueInv
<1>1. /\ ms \in Seq(Message) /\ SentOk(ms, s) /\ s \in Seq(Fragment)
      /\ A \subseteq 1 .. Len(s) /\ B \subseteq 1 .. Len(s) /\ A \subseteq B
      /\ OrderedOk(ms, s, A, ord) /\ SetsOk(ms, s, A, uc, us) /\ NearOk(ms, s, ord)
      /\ Together(ms, s, A, ord, uc) /\ LooseOk(ms, s, uc) /\ DeliveredOk(ms, s, A, held, dl)
      /\ nb = Cardinality(held)
  BY SendingFacts DEF QueueInv
<1>2. K \in Ssns
  BY ChunkNumber
<1>3. ~Lt(K, next) /\ NumberIn(ms, Len(ms)) - NumberIn(ms, s[x].msg) + 1 < SsnHalf
  BY NotBehind
<1>4. o2 \in [Ssns -> SUBSET Nat] /\ \A y \in Ssns : o2[y] = IF y = K THEN ord[y] \cup {x} ELSE ord[y]
  <2>1. ord \in [Ssns -> SUBSET Nat] /\ x \in Nat
    BY <1>1 DEF OrderedOk
  <2> QED BY <1>2, <2>1
<1> HIDE DEF K, o2
<1>5. OrderedOk(ms, s, B, o2)
  <2> SUFFICES ASSUME NEW y \in Ssns, NEW t \in o2[y]
               PROVE  t \in B /\ KindIn(ms, s[t]) = "ordered" /\ ms[s[t].msg].ssn = y
    BY <1>4 DEF OrderedOk
  <2>1. CASE t = x
    <3>1. y = K
      <4>1. t \notin ord[y]
        BY <1>1, <2>1 DEF OrderedOk
      <4> QED BY <1>4, <4>1
    <3> QED BY <2>1, <3>1 DEF K
  <2>2. CASE t # x
    BY <1>1, <1>4, <2>2 DEF OrderedOk
  <2> QED BY <2>1, <2>2
<1>6. SetsOk(ms, s, B, uc, us) /\ NextIs(ms, s, B, next, n)
  BY <1>1, SetsMore, PassedMore
<1>7. NearOk(ms, s, o2)
  <2> SUFFICES ASSUME NEW y \in Ssns, NEW t \in o2[y]
               PROVE  NumberIn(ms, Len(ms)) - NumberIn(ms, s[t].msg) + 1 < SsnHalf
    BY DEF NearOk
  <2>1. t = x \/ t \in ord[y]
    BY <1>4
  <2> QED BY <1>1, <1>3, <2>1 DEF NearOk
<1>8. Together(ms, s, B, o2, uc)
  <2>1. InPlace(ms, s, o2, uc, x)
    BY <1>2, <1>4 DEF InPlace, K
  <2>2. ASSUME NEW t \in A PROVE InPlace(ms, s, o2, uc, t) <=> InPlace(ms, s, ord, uc, t)
    <3>1. t # x /\ t \in 1 .. Len(s)
      BY <1>1
    <3>2. KindIn(ms, s[t]) = "ordered" => ms[s[t].msg].ssn \in Ssns
      BY <3>1, ChunkNumber
    <3> QED BY <1>4, <3>1, <3>2 DEF InPlace
  <2> SUFFICES ASSUME NEW u \in B
               PROVE  \/ InPlace(ms, s, o2, uc, u)
                      \/ \E e \in B : /\ Ends(ms, s[e]) /\ u \in Whole(s, e) /\ Whole(s, e) \subseteq B
                                      /\ \A t \in Whole(s, e) : ~InPlace(ms, s, o2, uc, t)
    BY DEF Together
  <2>3. CASE u = x
    BY <2>1, <2>3
  <2>4. CASE u \in A /\ ~InPlace(ms, s, ord, uc, u)
    <3>1. PICK e \in A : /\ Ends(ms, s[e]) /\ u \in Whole(s, e) /\ Whole(s, e) \subseteq A
                         /\ \A t \in Whole(s, e) : ~InPlace(ms, s, ord, uc, t)
      BY <1>1, <2>4 DEF Together
    <3> QED BY <2>2, <3>1
  <2>5. CASE u \in A /\ InPlace(ms, s, ord, uc, u)
    BY <2>2, <2>5
  <2> QED BY <2>3, <2>4, <2>5
<1>9. held2 = held \cup {x}
  <2>1. \A t : t \in held2 <=> t \in held \/ t = x
    <3> TAKE t
    <3>1. (\E y \in Ssns : t \in o2[y]) <=> (\E y \in Ssns : t \in ord[y]) \/ t = x
      BY <1>2, <1>4
    <3> QED BY <3>1, HeldMember
  <2> HIDE DEF held, held2
  <2> QED BY <2>1
<1>10. held \subseteq A /\ IsFiniteSet(held)
  BY <1>1, HeldArrived
<1> HIDE DEF held, held2
<1>11. Cardinality(held2) = nb + 1
  BY <1>1, <1>9, <1>10, FS_AddElement
<1>12. DeliveredOk(ms, s, B, held2, dl)
  <2>1. held2 \cap A \subseteq held
    BY <1>9
  <2> QED BY <1>1, <2>1, DeliveredMore
<1>13. QueueInv(ms, s, B, next, o2, uc, us, nb + 1, dl)
  BY <1>1, <1>5, <1>6, <1>7, <1>8, <1>11, <1>12 DEF QueueInv, held2
<1> QED BY <1>3, <1>13 DEF K, o2

\* An unordered chunk arrives that completes no message.
LEMMA ReceiveLoose ==
    ASSUME NEW ms, NEW s, NEW un, Sending(ms, s, un), NEW A, NEW next, NEW ord, NEW uc, NEW us, NEW nb, NEW dl,
           QueueInv(ms, s, A, next, ord, uc, us, nb, dl),
           NEW x \in 1 .. Len(s), x \notin A, KindIn(ms, s[x]) = "unordered",
           LooseOk(ms, s, uc \cup {x})
    PROVE  QueueInv(ms, s, A \cup {x}, next, ord, uc \cup {x}, us, nb + 1, dl)
<1> DEFINE B == A \cup {x}
           uc2 == uc \cup {x}
           held == HeldIn(ord, uc, us)
           held2 == HeldIn(ord, uc2, us)
<1> PICK n \in Nat : NextIs(ms, s, A, next, n)
  BY DEF QueueInv
<1>1. /\ ms \in Seq(Message) /\ SentOk(ms, s) /\ s \in Seq(Fragment)
      /\ A \subseteq 1 .. Len(s) /\ B \subseteq 1 .. Len(s) /\ A \subseteq B
      /\ OrderedOk(ms, s, A, ord) /\ SetsOk(ms, s, A, uc, us) /\ NearOk(ms, s, ord)
      /\ Together(ms, s, A, ord, uc) /\ DeliveredOk(ms, s, A, held, dl)
      /\ nb = Cardinality(held)
  BY SendingFacts DEF QueueInv
<1>2. OrderedOk(ms, s, B, ord) /\ NextIs(ms, s, B, next, n)
  BY <1>1, OrderedMore, PassedMore
<1>3. SetsOk(ms, s, B, uc2, us)
  <2>1. us \in Seq(SUBSET Nat)
    BY <1>1 DEF SetsOk
  <2>2. \A t \in uc2 : t \in B /\ KindIn(ms, s[t]) = "unordered"
    BY <1>1 DEF SetsOk
  <2>3. ASSUME NEW i \in 1 .. Len(us)
        PROVE  /\ \E e \in 1 .. Len(s) : Ends(ms, s[e]) /\ KindIn(ms, s[e]) = "unordered"
                                         /\ us[i] = Whole(s, e)
               /\ us[i] \subseteq B /\ us[i] \cap uc2 = {}
               /\ \A j \in 1 .. Len(us) : i # j => us[i] \cap us[j] = {}
    <3>1. us[i] \subseteq A /\ us[i] \cap uc = {}
      BY <1>1 DEF SetsOk
    <3>2. us[i] \subseteq B /\ us[i] \cap uc2 = {}
      BY <3>1
    <3>3. /\ \E e \in 1 .. Len(s) : Ends(ms, s[e]) /\ KindIn(ms, s[e]) = "unordered"
                                    /\ us[i] = Whole(s, e)
          /\ \A j \in 1 .. Len(us) : i # j => us[i] \cap us[j] = {}
      BY <1>1 DEF SetsOk
    <3> QED BY <3>2, <3>3
  <2> QED BY <2>1, <2>2, <2>3 DEF SetsOk
<1>4. Together(ms, s, B, ord, uc2)
  <2>1. InPlace(ms, s, ord, uc2, x)
    BY DEF InPlace
  <2>2. ASSUME NEW t \in A PROVE InPlace(ms, s, ord, uc2, t) <=> InPlace(ms, s, ord, uc, t)
    <3>1. t # x
      OBVIOUS
    <3> QED BY <3>1 DEF InPlace
  <2> SUFFICES ASSUME NEW u \in B
               PROVE  \/ InPlace(ms, s, ord, uc2, u)
                      \/ \E e \in B : /\ Ends(ms, s[e]) /\ u \in Whole(s, e) /\ Whole(s, e) \subseteq B
                                      /\ \A t \in Whole(s, e) : ~InPlace(ms, s, ord, uc2, t)
    BY DEF Together
  <2>3. CASE u = x
    BY <2>1, <2>3
  <2>4. CASE u \in A /\ ~InPlace(ms, s, ord, uc, u)
    <3>1. PICK e \in A : /\ Ends(ms, s[e]) /\ u \in Whole(s, e) /\ Whole(s, e) \subseteq A
                         /\ \A t \in Whole(s, e) : ~InPlace(ms, s, ord, uc, t)
      BY <1>1, <2>4 DEF Together
    <3> QED BY <2>2, <3>1
  <2>5. CASE u \in A /\ InPlace(ms, s, ord, uc, u)
    BY <2>2, <2>5
  <2> QED BY <2>3, <2>4, <2>5
<1>5. held2 = held \cup {x}
  <2>1. \A t : t \in held2 <=> t \in held \/ t = x
    BY HeldMember
  <2> HIDE DEF held, held2
  <2> QED BY <2>1
<1>6. held \subseteq A /\ IsFiniteSet(held)
  BY <1>1, HeldArrived
<1> HIDE DEF held, held2
<1>7. Cardinality(held2) = nb + 1
  BY <1>1, <1>5, <1>6, FS_AddElement
<1>8. DeliveredOk(ms, s, B, held2, dl)
  <2>1. held2 \cap A \subseteq held
    BY <1>5
  <2> QED BY <1>1, <2>1, DeliveredMore
<1> QED BY <1>1, <1>2, <1>3, <1>4, <1>7, <1>8 DEF QueueInv, held2

\* An unordered chunk arrives and completes its message.
LEMMA ReceiveRun ==
    ASSUME NEW ms, NEW s, NEW un, Sending(ms, s, un), NEW A, NEW next, NEW ord, NEW uc, NEW us, NEW nb, NEW dl,
           QueueInv(ms, s, A, next, ord, uc, us, nb, dl),
           NEW x \in 1 .. Len(s), x \notin A, KindIn(ms, s[x]) = "unordered",
           NEW e \in 1 .. Len(s), Ends(ms, s[e]), Whole(s, e) \subseteq uc \cup {x}
    PROVE  QueueInv(ms, s, A \cup {x}, next, ord, (uc \cup {x}) \ Whole(s, e), Append(us, Whole(s, e)),
                    nb + 1, dl)
<1> DEFINE B == A \cup {x}
           R == Whole(s, e)
           uc2 == (uc \cup {x}) \ R
           us2 == Append(us, R)
           held == HeldIn(ord, uc, us)
           held2 == HeldIn(ord, uc2, us2)
<1> PICK n \in Nat : NextIs(ms, s, A, next, n)
  BY DEF QueueInv
<1>1. /\ ms \in Seq(Message) /\ SentOk(ms, s) /\ s \in Seq(Fragment)
      /\ A \subseteq 1 .. Len(s) /\ B \subseteq 1 .. Len(s) /\ A \subseteq B
      /\ OrderedOk(ms, s, A, ord) /\ SetsOk(ms, s, A, uc, us) /\ NearOk(ms, s, ord)
      /\ Together(ms, s, A, ord, uc) /\ LooseOk(ms, s, uc) /\ DeliveredOk(ms, s, A, held, dl)
      /\ nb = Cardinality(held)
  BY SendingFacts DEF QueueInv
<1>2. OrderedOk(ms, s, B, ord) /\ NextIs(ms, s, B, next, n)
  BY <1>1, OrderedMore, PassedMore
<1>3. /\ e \in R /\ R \subseteq 1 .. e
      /\ \A u \in R : KindIn(ms, s[u]) = KindIn(ms, s[e])
  BY <1>1, WholeFacts
<1>4. x \in R
  <2> SUFFICES ASSUME x \notin R PROVE FALSE
    OBVIOUS
  <2>1. R \subseteq uc /\ e \in uc
    BY <1>3
  <2> QED BY <1>1, <2>1 DEF LooseOk
<1>5. \A u \in R : KindIn(ms, s[u]) = "unordered"
  BY <1>3, <1>4
<1>6. uc \subseteq A /\ us \in Seq(SUBSET Nat) /\ R \subseteq B
  <2>1. uc \subseteq A /\ us \in Seq(SUBSET Nat)
    BY <1>1 DEF SetsOk
  <2> QED BY <2>1
<1>7. /\ us2 \in Seq(SUBSET Nat) /\ us2[Len(us) + 1] = R /\ Len(us) \in Nat
      /\ \A i \in 1 .. Len(us) : us2[i] = us[i]
      /\ 1 .. Len(us2) = (1 .. Len(us)) \cup {Len(us) + 1}
  <2>1. R \in SUBSET Nat
    BY <1>3
  <2> HIDE DEF R
  <2> QED BY <1>6, <2>1, AppendedTo
<1> HIDE DEF us2
<1>8. ASSUME NEW i \in 1 .. Len(us)
      PROVE  us[i] \subseteq A /\ us[i] \cap uc2 = {} /\ us[i] \cap R = {}
  <2>1. us[i] \subseteq A /\ us[i] \cap uc = {}
    BY <1>1 DEF SetsOk
  <2>2. us[i] \cap (uc \cup {x}) = {}
    BY <2>1
  <2> QED BY <2>1, <2>2
<1>9. SetsOk(ms, s, B, uc2, us2)
  <2>1. \A t \in uc2 : t \in B /\ KindIn(ms, s[t]) = "unordered"
    BY <1>1 DEF SetsOk
  <2>2. ASSUME NEW i \in 1 .. Len(us2)
        PROVE  /\ \E f \in 1 .. Len(s) : Ends(ms, s[f]) /\ KindIn(ms, s[f]) = "unordered"
                                         /\ us2[i] = Whole(s, f)
               /\ us2[i] \subseteq B /\ us2[i] \cap uc2 = {}
               /\ \A j \in 1 .. Len(us2) : i # j => us2[i] \cap us2[j] = {}
    <3>1. CASE i = Len(us) + 1
      <4>1. us2[i] = R /\ KindIn(ms, s[e]) = "unordered" /\ R \cap uc2 = {}
        BY <1>3, <1>5, <1>7, <3>1
      <4>2. \A j \in 1 .. Len(us2) : i # j => us2[i] \cap us2[j] = {}
        <5> HIDE DEF R
        <5> QED BY <1>7, <1>8, <3>1, <4>1
      <4>3. \E f \in 1 .. Len(s) : Ends(ms, s[f]) /\ KindIn(ms, s[f]) = "unordered" /\ us2[i] = Whole(s, f)
        BY <4>1
      <4> QED BY <1>6, <4>1, <4>2, <4>3
    <3>2. CASE i \in 1 .. Len(us)
      <4>1. us2[i] = us[i] /\ us[i] \subseteq B
        BY <1>7, <1>8, <3>2
      <4>2. \E f \in 1 .. Len(s) : Ends(ms, s[f]) /\ KindIn(ms, s[f]) = "unordered" /\ us[i] = Whole(s, f)
        BY <1>1, <3>2 DEF SetsOk
      <4>3. \A j \in 1 .. Len(us) : i # j => us[i] \cap us[j] = {}
        BY <1>1, <3>2 DEF SetsOk
      <4>4. \A j \in 1 .. Len(us2) : i # j => us2[i] \cap us2[j] = {}
        <5> HIDE DEF R
        <5> QED BY <1>7, <1>8, <3>2, <4>1, <4>3
      <4>5. us2[i] \cap uc2 = {}
        BY <1>8, <3>2, <4>1
      <4> QED BY <4>1, <4>2, <4>4, <4>5
    <3> QED BY <1>7, <3>1, <3>2
  <2> HIDE DEF uc2
  <2> QED BY <1>7, <2>1, <2>2 DEF SetsOk
<1>10. LooseOk(ms, s, uc2)
  <2> SUFFICES ASSUME NEW f \in uc2, Ends(ms, s[f]), Whole(s, f) \subseteq uc2 PROVE FALSE
    BY DEF LooseOk
  <2>1. Whole(s, f) \subseteq uc /\ f \in uc
    BY <1>4
  <2> QED BY <1>1, <2>1 DEF LooseOk
<1>11. Together(ms, s, B, ord, uc2)
  <2>1. \A t \in R : ~InPlace(ms, s, ord, uc2, t)
    BY <1>5 DEF InPlace
  <2>2. ASSUME NEW t \in A, t \notin R PROVE InPlace(ms, s, ord, uc2, t) <=> InPlace(ms, s, ord, uc, t)
    <3>1. t # x
      OBVIOUS
    <3> QED BY <2>2, <3>1 DEF InPlace
  <2>3. ASSUME NEW t \in A, ~InPlace(ms, s, ord, uc, t) PROVE ~InPlace(ms, s, ord, uc2, t)
    BY <2>1, <2>2, <2>3
  <2> SUFFICES ASSUME NEW u \in B
               PROVE  \/ InPlace(ms, s, ord, uc2, u)
                      \/ \E f \in B : /\ Ends(ms, s[f]) /\ u \in Whole(s, f) /\ Whole(s, f) \subseteq B
                                      /\ \A t \in Whole(s, f) : ~InPlace(ms, s, ord, uc2, t)
    BY DEF Together
  <2>4. CASE u \in R
    <3>1. e \in B
      BY <1>3, <1>6
    <3> QED BY <1>6, <2>1, <2>4, <3>1
  <2>5. CASE u \notin R /\ ~InPlace(ms, s, ord, uc, u)
    <3>1. u \in A
      BY <1>4, <2>5
    <3>2. PICK f \in A : /\ Ends(ms, s[f]) /\ u \in Whole(s, f) /\ Whole(s, f) \subseteq A
                         /\ \A t \in Whole(s, f) : ~InPlace(ms, s, ord, uc, t)
      BY <1>1, <2>5, <3>1 DEF Together
    <3> QED BY <2>3, <3>2
  <2>6. CASE u \notin R /\ InPlace(ms, s, ord, uc, u)
    <3>1. u \in A
      BY <1>4, <2>6
    <3> QED BY <2>2, <2>6, <3>1
  <2> QED BY <2>4, <2>5, <2>6
<1>12. held2 = held \cup {x}
  <2>1. ASSUME NEW t PROVE t \in held2 <=> t \in held \/ t = x
    <3>1. (\E i \in 1 .. Len(us2) : t \in us2[i]) <=> (\E i \in 1 .. Len(us) : t \in us[i]) \/ t \in R
      <4> HIDE DEF R
      <4> QED BY <1>7
    <3>2. t \in uc2 \/ t \in R <=> t \in uc \/ t = x
      BY <1>4
    <3>3. t \in held2 <=> (\E y \in Ssns : t \in ord[y]) \/ t \in uc2 \/ (\E i \in 1 .. Len(us2) : t \in us2[i])
      BY HeldMember
    <3>4. t \in held <=> (\E y \in Ssns : t \in ord[y]) \/ t \in uc \/ (\E i \in 1 .. Len(us) : t \in us[i])
      BY HeldMember
    <3> HIDE DEF held, held2, uc2, R
    <3> QED BY <3>1, <3>2, <3>3, <3>4
  <2> HIDE DEF held, held2
  <2> QED BY <2>1
<1>13. held \subseteq A /\ IsFiniteSet(held)
  BY <1>1, HeldArrived
<1> HIDE DEF held, held2
<1>14. Cardinality(held2) = nb + 1
  BY <1>1, <1>12, <1>13, FS_AddElement
<1>15. DeliveredOk(ms, s, B, held2, dl)
  <2>1. held2 \cap A \subseteq held
    BY <1>12
  <2> QED BY <1>1, <2>1, DeliveredMore
<1> HIDE DEF uc2, R
<1>16. QueueInv(ms, s, B, next, ord, uc2, us2, nb + 1, dl)
  BY <1>1, <1>2, <1>9, <1>10, <1>11, <1>14, <1>15 DEF QueueInv, held2
<1> QED BY <1>16 DEF uc2, us2, R

\* What is read is no longer held.
LEMMA RemoveSize ==
    ASSUME NEW held, IsFiniteSet(held), NEW R \in SUBSET held
    PROVE  /\ Cardinality(held \ R) = Cardinality(held) - Cardinality(R)
           /\ Cardinality(held) \in Nat /\ Cardinality(R) \in Nat /\ Cardinality(R) <= Cardinality(held)
<1> DEFINE T == held \ R
<1>1. IsFiniteSet(R) /\ IsFiniteSet(T)
  BY FS_Subset
<1>2. R \cap T = {} /\ R \cup T = held
  OBVIOUS
<1>3. Cardinality(R) \in Nat /\ Cardinality(T) \in Nat
  BY <1>1, FS_CardinalityType
<1> HIDE DEF T
<1>4. Cardinality(R \cup T) = Cardinality(R) + Cardinality(T)
  BY <1>1, <1>2, SplitSize
<1>5. Cardinality(held) = Cardinality(R) + Cardinality(T)
  BY <1>2, <1>4
<1>6. Cardinality(T) = Cardinality(held) - Cardinality(R) /\ Cardinality(held) \in Nat
      /\ Cardinality(R) <= Cardinality(held)
  BY <1>3, <1>5
<1> QED BY <1>3, <1>6 DEF T

MessageOf(ms, m) == [n \in 1 .. ms[m].len |-> [msg |-> m, n |-> n]]

LEMMA DeliveredAdd ==
    ASSUME NEW ms \in Seq(Message), NEW s, SentOk(ms, s), NEW A \in SUBSET (1 .. Len(s)), NEW held, NEW held2,
           NEW dl, DeliveredOk(ms, s, A, held, dl),
           NEW e \in 1 .. Len(s), Ends(ms, s[e]), Whole(s, e) \subseteq A, Whole(s, e) \subseteq held,
           held2 \subseteq held, held2 \cap Whole(s, e) = {}
    PROVE  DeliveredOk(ms, s, A, held2, Append(dl, MessageOf(ms, s[e].msg)))
<1> DEFINE m == s[e].msg
           a == e - s[e].n + 1
           c == MessageOf(ms, m)
           d2 == Append(dl, c)
<1>1. m \in 1 .. Len(ms) /\ m \in Nat \ {0} /\ ms[m].len \in Nat \ {0} /\ s[e].n \in Nat \ {0}
  BY SentAt
<1>2. a \in 1 .. e /\ Whole(s, e) = a .. e
  BY WholeFacts DEF Whole
<1>3. a \in Whole(s, e)
  BY <1>1, <1>2
<1>4. a \in 1 .. Len(s) /\ s[a].msg = m /\ s[a].n = 1
  BY <1>3, WholeFacts
<1>5. s[a] = [msg |-> m, n |-> 1]
  <2>1. s[a] = [msg |-> s[a].msg, n |-> s[a].n]
    BY <1>4, SentAt
  <2> QED BY <1>4, <2>1
<1> HIDE DEF a
<1>6. c \in Seq(Fragment) /\ c[1] = s[a]
  <2>1. \A n \in 1 .. ms[m].len : [msg |-> m, n |-> n] \in Fragment
    BY <1>1 DEF Fragment
  <2>2. c \in [1 .. ms[m].len -> Fragment]
    BY <2>1 DEF MessageOf
  <2>3. c[1] = [msg |-> m, n |-> 1]
    BY <1>1 DEF MessageOf
  <2> HIDE DEF c, m
  <2>4. c \in Seq(Fragment)
    BY <1>1, <2>2
  <2> QED BY <1>5, <2>3, <2>4
<1>7. dl \in Seq(Seq(Fragment))
  BY DEF DeliveredOk
<1>8. c = [n \in 1 .. ms[m].len |-> [msg |-> m, n |-> n]]
  BY DEF MessageOf
<1> HIDE DEF c, m
<1>9. /\ d2 \in Seq(Seq(Fragment)) /\ d2[Len(dl) + 1] = c
      /\ \A i \in 1 .. Len(dl) : d2[i] = dl[i]
      /\ 1 .. Len(d2) = (1 .. Len(dl)) \cup {Len(dl) + 1} /\ Len(dl) \in Nat
  BY <1>6, <1>7, AppendedTo
<1> HIDE DEF d2
<1>10. a \in A /\ a \in held /\ a \notin held2
  BY <1>3
<1>11. ASSUME NEW i \in 1 .. Len(dl)
       PROVE  /\ \E k \in 1 .. Len(ms) : dl[i] = [n \in 1 .. ms[k].len |-> [msg |-> k, n |-> n]]
              /\ \E t \in A : t \notin held2 /\ s[t] = dl[i][1]
              /\ dl[i][1] # c[1]
  <2>1. PICK t \in A : t \notin held /\ s[t] = dl[i][1]
    BY DEF DeliveredOk
  <2>2. t # a /\ t \in 1 .. Len(s)
    BY <1>10, <2>1
  <2>3. s[t] # s[a]
    BY <1>4, <2>2, SentOnce
  <2>4. \E k \in 1 .. Len(ms) : dl[i] = [n \in 1 .. ms[k].len |-> [msg |-> k, n |-> n]]
    BY DEF DeliveredOk
  <2> QED BY <1>6, <2>1, <2>3, <2>4
<1>12. ASSUME NEW i \in 1 .. Len(d2)
       PROVE  /\ \E k \in 1 .. Len(ms) : d2[i] = [n \in 1 .. ms[k].len |-> [msg |-> k, n |-> n]]
              /\ \E t \in A : t \notin held2 /\ s[t] = d2[i][1]
  <2>1. CASE i \in 1 .. Len(dl)
    <3>1. d2[i] = dl[i]
      BY <1>9, <2>1
    <3>2. /\ \E k \in 1 .. Len(ms) : dl[i] = [n \in 1 .. ms[k].len |-> [msg |-> k, n |-> n]]
          /\ \E t \in A : t \notin held2 /\ s[t] = dl[i][1]
      BY <1>11, <2>1
    <3> QED BY <3>1, <3>2, ZenonT(30)
  <2>2. CASE i = Len(dl) + 1
    <3>1. d2[i] = c
      BY <1>9, <2>2
    <3>2. \E k \in 1 .. Len(ms) : d2[i] = [n \in 1 .. ms[k].len |-> [msg |-> k, n |-> n]]
      BY <1>1, <1>8, <3>1
    <3> QED BY <1>6, <1>10, <3>1, <3>2
  <2> QED BY <1>9, <2>1, <2>2
<1>13. ASSUME NEW i \in 1 .. Len(d2), NEW j \in 1 .. Len(d2), d2[i][1] = d2[j][1] PROVE i = j
  <2>1. CASE i \in 1 .. Len(dl) /\ j \in 1 .. Len(dl)
    BY <1>9, <1>13, <2>1 DEF DeliveredOk
  <2>2. CASE i = Len(dl) + 1 /\ j \in 1 .. Len(dl)
    BY <1>9, <1>11, <1>13, <2>2
  <2>3. CASE i \in 1 .. Len(dl) /\ j = Len(dl) + 1
    BY <1>9, <1>11, <1>13, <2>3
  <2>4. CASE i = Len(dl) + 1 /\ j = Len(dl) + 1
    BY <2>4
  <2> QED BY <1>9, <2>1, <2>2, <2>3, <2>4
<1> QED BY <1>9, <1>12, <1>13 DEF DeliveredOk, d2, c, m

\* An unordered message is read.
LEMMA ReadSet ==
    ASSUME NEW ms, NEW s, NEW un, Sending(ms, s, un), NEW A, NEW next, NEW ord, NEW uc, NEW us, NEW nb, NEW dl,
           QueueInv(ms, s, A, next, ord, uc, us, nb, dl), us # <<>>
    PROVE  \E e \in 1 .. Len(s) :
              /\ Ends(ms, s[e]) /\ Head(us) = Whole(s, e)
              /\ Cardinality(Head(us)) \in Nat /\ Cardinality(Head(us)) <= nb /\ nb \in Nat
              /\ QueueInv(ms, s, A, next, ord, uc, Tail(us), nb - Cardinality(Head(us)),
                          Append(dl, MessageOf(ms, s[e].msg)))
<1> DEFINE R == Head(us)
           us2 == Tail(us)
           held == HeldIn(ord, uc, us)
           held2 == HeldIn(ord, uc, us2)
<1>1. /\ ms \in Seq(Message) /\ SentOk(ms, s) /\ s \in Seq(Fragment)
      /\ A \in SUBSET (1 .. Len(s))
      /\ OrderedOk(ms, s, A, ord) /\ SetsOk(ms, s, A, uc, us) /\ NearOk(ms, s, ord)
      /\ Together(ms, s, A, ord, uc) /\ LooseOk(ms, s, uc) /\ DeliveredOk(ms, s, A, held, dl)
      /\ nb = Cardinality(held)
      /\ \E n \in Nat : NextIs(ms, s, A, next, n)
  BY SendingFacts DEF QueueInv
<1>2. us \in Seq(SUBSET Nat)
  BY <1>1 DEF SetsOk
<1>3. /\ Len(us) > 0 /\ Len(us) \in Nat /\ R = us[1] /\ us2 \in Seq(SUBSET Nat) /\ Len(us2) = Len(us) - 1
      /\ \A i \in 1 .. Len(us2) : us2[i] = us[i + 1]
  BY <1>2, HeadAndTail
<1> HIDE DEF R, us2
<1>4. \A i \in 1 .. Len(us2) : i + 1 \in 1 .. Len(us) /\ us2[i] = us[i + 1] /\ i + 1 # 1
  BY <1>3
<1>5. 1 \in 1 .. Len(us) /\ \A i \in 1 .. Len(us) : i = 1 \/ (i - 1 \in 1 .. Len(us2) /\ (i - 1) + 1 = i)
  BY <1>3
<1> PICK e \in 1 .. Len(s) : Ends(ms, s[e]) /\ KindIn(ms, s[e]) = "unordered" /\ us[1] = Whole(s, e)
  BY <1>1, <1>5 DEF SetsOk
<1>6. R = Whole(s, e) /\ R \subseteq A /\ R \cap uc = {}
      /\ \A i \in 1 .. Len(us2) : us2[i] \cap R = {}
  <2>1. R = Whole(s, e) /\ R \subseteq A /\ R \cap uc = {}
    BY <1>1, <1>3, <1>5 DEF SetsOk
  <2>2. ASSUME NEW i \in 1 .. Len(us2) PROVE us2[i] \cap R = {}
    <3>1. us[i + 1] \cap us[1] = {}
      BY <1>1, <1>4, <1>5 DEF SetsOk
    <3> QED BY <1>3, <1>4, <3>1
  <2> QED BY <2>1, <2>2
<1>7. \A u \in R : u \in 1 .. Len(s) /\ KindIn(ms, s[u]) = "unordered"
  BY <1>1, <1>6, WholeFacts
<1>8. SetsOk(ms, s, A, uc, us2)
  <2>1. \A t \in uc : t \in A /\ KindIn(ms, s[t]) = "unordered"
    BY <1>1 DEF SetsOk
  <2>2. ASSUME NEW i \in 1 .. Len(us2)
        PROVE  /\ \E f \in 1 .. Len(s) : Ends(ms, s[f]) /\ KindIn(ms, s[f]) = "unordered"
                                         /\ us2[i] = Whole(s, f)
               /\ us2[i] \subseteq A /\ us2[i] \cap uc = {}
               /\ \A j \in 1 .. Len(us2) : i # j => us2[i] \cap us2[j] = {}
    <3>1. i + 1 \in 1 .. Len(us) /\ us2[i] = us[i + 1]
      BY <1>4
    <3>2. /\ \E f \in 1 .. Len(s) : Ends(ms, s[f]) /\ KindIn(ms, s[f]) = "unordered"
                                    /\ us[i + 1] = Whole(s, f)
          /\ us[i + 1] \subseteq A /\ us[i + 1] \cap uc = {}
      BY <1>1, <3>1 DEF SetsOk
    <3>3. ASSUME NEW j \in 1 .. Len(us2), i # j PROVE us2[i] \cap us2[j] = {}
      <4>1. j + 1 \in 1 .. Len(us) /\ us2[j] = us[j + 1] /\ i + 1 # j + 1
        BY <1>4, <3>3
      <4>2. us[i + 1] \cap us[j + 1] = {}
        BY <1>1, <3>1, <4>1 DEF SetsOk
      <4> QED BY <3>1, <4>1, <4>2
    <3> QED BY <3>1, <3>2, <3>3
  <2> QED BY <1>3, <2>1, <2>2 DEF SetsOk
<1>9. held2 = held \ R /\ R \subseteq held
  <2>1. ASSUME NEW t PROVE t \in held2 <=> t \in held /\ t \notin R
    <3>1. (\E i \in 1 .. Len(us) : t \in us[i]) <=> (\E i \in 1 .. Len(us2) : t \in us2[i]) \/ t \in R
      BY <1>3, <1>4, <1>5
    <3>2. t \in R => ~(\E y \in Ssns : t \in ord[y])
      BY <1>1, <1>7 DEF OrderedOk
    <3>3. t \in R => t \notin uc /\ ~(\E i \in 1 .. Len(us2) : t \in us2[i])
      BY <1>6
    <3>4. t \in held2 <=> (\E y \in Ssns : t \in ord[y]) \/ t \in uc \/ (\E i \in 1 .. Len(us2) : t \in us2[i])
      BY HeldMember
    <3>5. t \in held <=> (\E y \in Ssns : t \in ord[y]) \/ t \in uc \/ (\E i \in 1 .. Len(us) : t \in us[i])
      BY HeldMember
    <3> HIDE DEF held, held2
    <3> QED BY <3>1, <3>2, <3>3, <3>4, <3>5
  <2>2. \A t \in R : t \in held
    BY <1>3, <1>5, HeldMember
  <2> HIDE DEF held, held2
  <2> QED BY <2>1, <2>2
<1>10. IsFiniteSet(held)
  BY <1>1, HeldArrived
<1> HIDE DEF held, held2
<1>11. Cardinality(held2) = nb - Cardinality(R) /\ Cardinality(R) \in Nat /\ Cardinality(R) <= nb /\ nb \in Nat
  BY <1>1, <1>9, <1>10, RemoveSize
<1>12. DeliveredOk(ms, s, A, held2, Append(dl, MessageOf(ms, s[e].msg)))
  <2>1. Whole(s, e) \subseteq A /\ Whole(s, e) \subseteq held /\ held2 \subseteq held /\ held2 \cap Whole(s, e) = {}
    BY <1>6, <1>9
  <2> QED BY <1>1, <2>1, DeliveredAdd
<1>13. QueueInv(ms, s, A, next, ord, uc, us2, nb - Cardinality(R), Append(dl, MessageOf(ms, s[e].msg)))
  BY <1>1, <1>8, <1>11, <1>12 DEF QueueInv, held2
<1> QED BY <1>6, <1>11, <1>13 DEF R, us2

\* An ordered message is read.
LEMMA ReadInOrder ==
    ASSUME NEW ms, NEW s, NEW un, Sending(ms, s, un), NEW A, NEW next, NEW ord, NEW uc, NEW us, NEW nb, NEW dl,
           QueueInv(ms, s, A, next, ord, uc, us, nb, dl),
           NEW x \in Ssns, NEW e \in 1 .. Len(s), Ends(ms, s[e]), ord[x] = Whole(s, e), ~Gt(x, next)
    PROVE  /\ Cardinality(ord[x]) \in Nat /\ Cardinality(ord[x]) <= nb /\ nb \in Nat
           /\ QueueInv(ms, s, A, IF x = next THEN NextSsn(x) ELSE next, [ord EXCEPT ![x] = {}], uc, us,
                       nb - Cardinality(ord[x]), Append(dl, MessageOf(ms, s[e].msg)))
<1> DEFINE R == ord[x]
           o2 == [ord EXCEPT ![x] = {}]
           held == HeldIn(ord, uc, us)
           held2 == HeldIn(o2, uc, us)
           m == s[e].msg
           f == NumberIn(ms, m)
           total == NumberIn(ms, Len(ms))
           next2 == IF x = next THEN NextSsn(x) ELSE next
<1> PICK n \in Nat : NextIs(ms, s, A, next, n)
  BY DEF QueueInv
<1>1. /\ ms \in Seq(Message) /\ SentOk(ms, s) /\ s \in Seq(Fragment)
      /\ A \in SUBSET (1 .. Len(s))
      /\ OrderedOk(ms, s, A, ord) /\ SetsOk(ms, s, A, uc, us) /\ NearOk(ms, s, ord)
      /\ Together(ms, s, A, ord, uc) /\ LooseOk(ms, s, uc) /\ DeliveredOk(ms, s, A, held, dl)
      /\ nb = Cardinality(held)
      /\ total \in Nat
  BY SendingFacts DEF QueueInv
<1>2. /\ e \in R /\ R \subseteq A /\ R = Whole(s, e) /\ KindIn(ms, s[e]) = "ordered" /\ ms[m].ssn = x
      /\ \A t \in R : t \in 1 .. Len(s) /\ KindIn(ms, s[t]) = "ordered" /\ ms[s[t].msg].ssn = x
  <2>1. e \in R
    BY <1>1, WholeFacts
  <2> QED BY <1>1, <2>1 DEF OrderedOk
<1>3. /\ x = Wrap(f - 1) /\ f \in Nat /\ f - 1 \in Nat /\ f <= total /\ total - f + 1 < SsnHalf
      /\ next = Wrap(n) /\ n <= total /\ total - n < SsnHalf
  <2>1. total - f + 1 < SsnHalf
    BY <1>1, <1>2 DEF NearOk
  <2> QED BY <1>2, <2>1, ChunkNumber DEF NextIs
<1>4. SsnHalf \in Nat
  BY SpaceFacts
<1>5. f - 1 <= n /\ (x = next => f = n + 1) /\ NextSsn(x) = Wrap(f)
  <2> HIDE DEF f, total
  <2> DEFINE g == f - 1
  <2>1. g \in Nat /\ g - n < SsnHalf /\ n - g < SsnHalf /\ g + 1 = f /\ x = Wrap(g)
    BY <1>1, <1>3, <1>4
  <2> HIDE DEF g
  <2>2. (Gt(Wrap(g), Wrap(n)) <=> g > n) /\ (Wrap(g) = Wrap(n) => g = n) /\ NextSsn(Wrap(g)) = Wrap(g + 1)
    BY <2>1, WrapFacts
  <2>3. ~(g > n) /\ (x = next => g = n)
    BY <1>3, <2>1, <2>2
  <2> QED BY <2>1, <2>2, <2>3, <1>3
<1>6. \E k \in Nat : NextIs(ms, s, A, next2, k)
  <2>1. CASE x # next
    BY <2>1
  <2>2. CASE x = next
    <3>1. f = n + 1 /\ next2 = Wrap(f)
      BY <1>5, <2>2
    <3>2. \A t \in 1 .. Len(s) : KindIn(ms, s[t]) = "ordered" /\ t \notin A => NumberIn(ms, s[t].msg) > f
      <4> SUFFICES ASSUME NEW t \in 1 .. Len(s), KindIn(ms, s[t]) = "ordered", t \notin A
                   PROVE  NumberIn(ms, s[t].msg) > f
        OBVIOUS
      <4>1. NumberIn(ms, s[t].msg) > n /\ NumberIn(ms, s[t].msg) \in Nat
        BY ChunkNumber DEF NextIs, PassedOk
      <4>2. s[t].msg # m
        BY <1>1, <1>2, WholeFacts
      <4>3. NumberIn(ms, s[t].msg) # f
        BY <1>1, <1>2, <4>2, SameNumber
      <4> HIDE DEF f
      <4> QED BY <3>1, <4>1, <4>3
    <3>3. \A i \in 1 .. Len(ms) : ~ms[i].unordered /\ NumberIn(ms, i) <= f =>
             \E t \in 1 .. Len(s) : s[t] = Last(ms, i)
      <4> SUFFICES ASSUME NEW i \in 1 .. Len(ms), ~ms[i].unordered, NumberIn(ms, i) <= f
                   PROVE  \E t \in 1 .. Len(s) : s[t] = Last(ms, i)
        OBVIOUS
      <4>1. i \in Nat \ {0} /\ m \in Nat \ {0} /\ ~ms[m].unordered
        <5>1. i \in Nat \ {0}
          BY <1>1
        <5>2. m \in Nat \ {0}
          BY <1>1, SentAt
        <5>3. ~ms[m].unordered
          BY <1>1, <1>2, SameNumber
        <5> QED BY <5>1, <5>2, <5>3
      <4>2. CASE NumberIn(ms, i) <= n
        BY <4>2 DEF NextIs, PassedOk
      <4>3. CASE NumberIn(ms, i) = f
        <5>1. NumberIn(ms, i) \in Nat
          BY <4>1, NumberNat
        <5>2. ~(i < m) /\ ~(m < i)
          <6>1. i < m => NumberIn(ms, i) < f
            BY <4>1, NumberGrows
          <6>2. m < i => f < NumberIn(ms, i)
            BY <4>1, NumberGrows
          <6> HIDE DEF f, m
          <6> QED BY <1>3, <4>3, <5>1, <6>1, <6>2
        <5>3. i = m
          <6> HIDE DEF m
          <6> QED BY <4>1, <5>2
        <5>4. s[e] = Last(ms, m)
          BY <1>1, SentAt DEF Ends, Last
        <5> QED BY <5>3, <5>4
      <4>4. NumberIn(ms, i) \in Nat
        BY <4>1, NumberNat
      <4>5. NumberIn(ms, i) <= n \/ NumberIn(ms, i) = f
        <5> HIDE DEF f
        <5> QED BY <3>1, <4>4
      <4> QED BY <4>2, <4>3, <4>5
    <3>4. NextIs(ms, s, A, next2, f)
      <4>1. f \in Nat /\ next2 = Wrap(f) /\ f <= total /\ total - f < SsnHalf
        <5> HIDE DEF f, total, next2
        <5> QED BY <1>1, <1>3, <1>4, <3>1
      <4>2. PassedOk(ms, s, A, f)
        BY <3>2, <3>3 DEF PassedOk
      <4> QED BY <4>1, <4>2 DEF NextIs
    <3> QED BY <1>3, <3>4
  <2> QED BY <2>1, <2>2
<1>7. o2 \in [Ssns -> SUBSET Nat] /\ o2[x] = {} /\ (\A y \in Ssns : y # x => o2[y] = ord[y])
  BY <1>1 DEF OrderedOk
<1> HIDE DEF o2
<1>8. \A y \in Ssns : \A t \in o2[y] : t \in ord[y]
  BY <1>7
<1>9. OrderedOk(ms, s, A, o2) /\ NearOk(ms, s, o2)
  BY <1>1, <1>7, <1>8 DEF OrderedOk, NearOk
<1>10. Together(ms, s, A, o2, uc)
  <2>1. ASSUME NEW t \in R PROVE ~InPlace(ms, s, o2, uc, t)
    BY <1>2, <1>7 DEF InPlace
  <2>2. ASSUME NEW t \in A, t \notin R PROVE InPlace(ms, s, o2, uc, t) <=> InPlace(ms, s, ord, uc, t)
    <3>1. t \in 1 .. Len(s)
      BY <1>1
    <3>2. KindIn(ms, s[t]) = "ordered" => ms[s[t].msg].ssn \in Ssns
      BY <3>1, ChunkNumber
    <3>3. KindIn(ms, s[t]) = "ordered" => (t \in o2[ms[s[t].msg].ssn] <=> t \in ord[ms[s[t].msg].ssn])
      BY <1>7, <2>2, <3>2
    <3> QED BY <3>3 DEF InPlace
  <2> SUFFICES ASSUME NEW u \in A
               PROVE  \/ InPlace(ms, s, o2, uc, u)
                      \/ \E d \in A : /\ Ends(ms, s[d]) /\ u \in Whole(s, d) /\ Whole(s, d) \subseteq A
                                      /\ \A t \in Whole(s, d) : ~InPlace(ms, s, o2, uc, t)
    BY DEF Together
  <2>3. CASE u \in R
    <3>1. e \in A /\ Ends(ms, s[e]) /\ u \in Whole(s, e) /\ Whole(s, e) \subseteq A
      BY <1>2, <2>3
    <3>2. \A t \in Whole(s, e) : ~InPlace(ms, s, o2, uc, t)
      BY <1>2, <2>1
    <3> QED BY <3>1, <3>2
  <2>4. CASE u \notin R /\ InPlace(ms, s, ord, uc, u)
    BY <2>2, <2>4
  <2>5. CASE u \notin R /\ ~InPlace(ms, s, ord, uc, u)
    <3>1. PICK d \in A : /\ Ends(ms, s[d]) /\ u \in Whole(s, d) /\ Whole(s, d) \subseteq A
                         /\ \A t \in Whole(s, d) : ~InPlace(ms, s, ord, uc, t)
      BY <1>1, <2>5 DEF Together
    <3>2. \A t \in Whole(s, d) : ~InPlace(ms, s, o2, uc, t)
      BY <2>1, <2>2, <3>1
    <3> QED BY <3>1, <3>2
  <2> QED BY <2>3, <2>4, <2>5
<1>11. held2 = held \ R /\ R \subseteq held
  <2>1. ASSUME NEW t PROVE t \in held2 <=> t \in held /\ t \notin R
    <3>1. (\E y \in Ssns : t \in ord[y]) <=> (\E y \in Ssns : t \in o2[y]) \/ t \in R
      BY <1>7
    <3>2. t \in R => ~(\E y \in Ssns : t \in o2[y])
      <4> SUFFICES ASSUME t \in R, NEW y \in Ssns, t \in o2[y] PROVE FALSE
        OBVIOUS
      <4>1. y # x /\ t \in ord[y]
        BY <1>7
      <4>2. ms[s[t].msg].ssn = y
        BY <1>1, <4>1 DEF OrderedOk
      <4> QED BY <1>2, <4>1, <4>2
    <3>3. t \in R => t \notin uc /\ ~(\E i \in 1 .. Len(us) : t \in us[i])
      <4> SUFFICES ASSUME t \in R PROVE t \notin uc /\ ~(\E i \in 1 .. Len(us) : t \in us[i])
        OBVIOUS
      <4>1. KindIn(ms, s[t]) # "unordered"
        BY <1>2
      <4>2. t \notin uc
        BY <1>1, <4>1 DEF SetsOk
      <4>3. ASSUME NEW i \in 1 .. Len(us), t \in us[i] PROVE FALSE
        <5>1. PICK d \in 1 .. Len(s) : Ends(ms, s[d]) /\ KindIn(ms, s[d]) = "unordered" /\ us[i] = Whole(s, d)
          BY <1>1 DEF SetsOk
        <5>2. KindIn(ms, s[t]) = "unordered"
          BY <1>1, <4>3, <5>1, WholeFacts
        <5> QED BY <4>1, <5>2
      <4> QED BY <4>2, <4>3
    <3>4. t \in held2 <=> (\E y \in Ssns : t \in o2[y]) \/ t \in uc \/ (\E i \in 1 .. Len(us) : t \in us[i])
      BY HeldMember
    <3>5. t \in held <=> (\E y \in Ssns : t \in ord[y]) \/ t \in uc \/ (\E i \in 1 .. Len(us) : t \in us[i])
      BY HeldMember
    <3> HIDE DEF held, held2, R
    <3> QED BY <3>1, <3>2, <3>3, <3>4, <3>5
  <2>2. \A t \in R : t \in held
    BY HeldMember
  <2> HIDE DEF held, held2, R
  <2> QED BY <2>1, <2>2
<1>12. IsFiniteSet(held)
  BY <1>1, HeldArrived
<1> HIDE DEF held, held2
<1>13. Cardinality(held2) = nb - Cardinality(R) /\ Cardinality(R) \in Nat /\ Cardinality(R) <= nb /\ nb \in Nat
  <2> HIDE DEF R
  <2> QED BY <1>1, <1>11, <1>12, RemoveSize
<1>14. DeliveredOk(ms, s, A, held2, Append(dl, MessageOf(ms, s[e].msg)))
  <2>1. Whole(s, e) \subseteq A /\ Whole(s, e) \subseteq held /\ held2 \subseteq held /\ held2 \cap Whole(s, e) = {}
    BY <1>2, <1>11
  <2> QED BY <1>1, <2>1, DeliveredAdd
<1>15. QueueInv(ms, s, A, next2, o2, uc, us, nb - Cardinality(R), Append(dl, MessageOf(ms, s[e].msg)))
  BY <1>1, <1>6, <1>9, <1>10, <1>13, <1>14 DEF QueueInv, held2
<1> QED BY <1>13, <1>15 DEF o2

\* What a FORWARD TSN to t drops (the loose unordered chunks up to t, the ordered
\* sets of the SSNs in dropped), and what the sender owes it: all chunks up to t
\* that are missing are of one kind, and no ordered message before it is unsent.
UpTo(uc, t) == {u \in uc : u <= t}
SetsOf(ord, dropped) == UNION {ord[x] : x \in dropped}
Without(ord, dropped) == [x \in Ssns |-> IF x \in dropped THEN {} ELSE ord[x]]
KindsTo(ms, s, A, t, k) == \A u \in 1 .. t : u \notin A => KindIn(ms, s[u]) = k
AllSentTo(ms, s, t) == \A i \in 1 .. Len(ms) :
    ~ms[i].unordered /\ NumberIn(ms, i) <= NumberIn(ms, s[t].msg) =>
       \E u \in 1 .. Len(s) : s[u] = Last(ms, i)
Drops(ms, s, ord, last, dropped) == dropped \subseteq Ssns /\ \A x \in Ssns :
    x \in dropped <=> /\ ord[x] # {} /\ Lte(x, last)
                      /\ ~\E e \in 1 .. Len(s) : Ends(ms, s[e]) /\ ord[x] = Whole(s, e)

\* A FORWARD TSN passes over everything up to t, of a stream that is ordered:
\* the chunk sets up to that SSN that are not complete are dropped.
LEMMA PassOrdered ==
    ASSUME NEW ms, NEW s, NEW un, Sending(ms, s, un), NEW A, NEW next, NEW ord, NEW uc, NEW us, NEW nb, NEW dl,
           QueueInv(ms, s, A, next, ord, uc, us, nb, dl),
           NEW t \in 1 .. Len(s), Ends(ms, s[t]), \E u \in 1 .. t : u \notin A,
           KindsTo(ms, s, {}, t, "ordered"),
           AllSentTo(ms, s, t),
           NEW dropped, Drops(ms, s, ord, ms[s[t].msg].ssn, dropped),
           NEW gone, gone = SetsOf(ord, dropped)
    PROVE  /\ Lte(next, ms[s[t].msg].ssn)
           /\ Cardinality(gone) \in Nat /\ Cardinality(gone) <= nb /\ nb \in Nat
           /\ QueueInv(ms, s, A \cup (1 .. t), NextSsn(ms[s[t].msg].ssn),
                       Without(ord, dropped), uc, us, nb - Cardinality(gone), dl)
<1> DEFINE B == A \cup (1 .. t)
           o2 == Without(ord, dropped)
           held == HeldIn(ord, uc, us)
           held2 == HeldIn(o2, uc, us)
           f == NumberIn(ms, s[t].msg)
           last == ms[s[t].msg].ssn
           total == NumberIn(ms, Len(ms))
           N(u) == NumberIn(ms, s[u].msg)
<1> PICK n \in Nat : NextIs(ms, s, A, next, n)
  BY DEF QueueInv
<1> PICK z \in 1 .. t : z \notin A
  OBVIOUS
<1>0. dropped \in SUBSET Ssns /\ \A x \in Ssns : x \in dropped <=>
         /\ ord[x] # {} /\ Lte(x, last)
         /\ ~\E e \in 1 .. Len(s) : Ends(ms, s[e]) /\ ord[x] = Whole(s, e)
  BY DEF Drops
<1>a. gone = UNION {ord[x] : x \in dropped}
  BY DEF SetsOf
<1>1. /\ ms \in Seq(Message) /\ SentOk(ms, s) /\ s \in Seq(Fragment) /\ Len(s) \in Nat
      /\ A \in SUBSET (1 .. Len(s)) /\ B \in SUBSET (1 .. Len(s)) /\ A \subseteq B
      /\ OrderedOk(ms, s, A, ord) /\ SetsOk(ms, s, A, uc, us) /\ NearOk(ms, s, ord)
      /\ Together(ms, s, A, ord, uc) /\ LooseOk(ms, s, uc) /\ DeliveredOk(ms, s, A, held, dl)
      /\ nb = Cardinality(held)
      /\ total \in Nat
      /\ z \in 1 .. Len(s) /\ \A u \in 1 .. t : u \in 1 .. Len(s)
  BY SendingFacts DEF QueueInv
<1>2. KindIn(ms, s[t]) = "ordered" /\ KindIn(ms, s[z]) = "ordered"
      /\ \A u \in 1 .. t : KindIn(ms, s[u]) = "ordered"
  BY DEF KindsTo
<1>3. /\ last = Wrap(f - 1) /\ last \in Ssns /\ f \in Nat /\ f - 1 \in Nat /\ f <= total
      /\ next = Wrap(n) /\ n <= total /\ total - n < SsnHalf
      /\ n < f
  <2>1. n < N(z) /\ N(z) \in Nat
    BY <1>1, <1>2, NotBehind, ChunkNumber
  <2>2. N(z) <= f
    BY <1>1, <1>2, SameNumber
  <2>3. last = Wrap(f - 1) /\ last \in Ssns /\ f \in Nat /\ f - 1 \in Nat /\ f <= total
    BY <1>2, ChunkNumber
  <2>4. next = Wrap(n) /\ n <= total /\ total - n < SsnHalf
    BY DEF NextIs
  <2> HIDE DEF N, f, total, last
  <2> QED BY <2>1, <2>2, <2>3, <2>4
<1>4. SsnHalf \in Nat
  BY SpaceFacts
<1>5. Lte(next, last) /\ NextSsn(last) = Wrap(f)
  <2> HIDE DEF f, total, last
  <2> DEFINE g == f - 1
  <2>1. g \in Nat /\ g - n < SsnHalf /\ n - g < SsnHalf /\ g + 1 = f /\ last = Wrap(g) /\ n <= g
    BY <1>1, <1>3, <1>4
  <2> HIDE DEF g
  <2>2. (Lte(Wrap(n), Wrap(g)) <=> n <= g) /\ NextSsn(Wrap(g)) = Wrap(g + 1)
    BY <2>1, WrapFacts
  <2> QED BY <1>3, <2>1, <2>2
<1>6. ASSUME NEW x \in Ssns, NEW u \in ord[x]
      PROVE  /\ u \in A /\ u \in 1 .. Len(s) /\ KindIn(ms, s[u]) = "ordered" /\ ms[s[u].msg].ssn = x
             /\ Lte(x, last) <=> u <= t
  <2>1. u \in A /\ u \in 1 .. Len(s) /\ KindIn(ms, s[u]) = "ordered" /\ ms[s[u].msg].ssn = x
    BY <1>1 DEF OrderedOk
  <2> DEFINE g == N(u) - 1
             h == f - 1
  <2>2. x = Wrap(g) /\ g \in Nat /\ g + 1 = N(u) /\ N(u) <= total
    <3>1. ms[s[u].msg].ssn = Wrap(g) /\ N(u) \in Nat /\ g \in Nat /\ N(u) <= total
      BY <2>1, ChunkNumber
    <3>2. g + 1 = N(u)
      <4> HIDE DEF N
      <4> QED BY <3>1
    <3> QED BY <2>1, <3>1, <3>2
  <2>3. total - N(u) + 1 < SsnHalf
    BY <1>1 DEF NearOk
  <2>4. u <= t => N(u) <= f
    BY <1>1, <1>2, <2>1, SameNumber
  <2>5. t < u => f < N(u)
    BY <1>1, <1>2, <2>1, SameNumber
  <2> HIDE DEF N, f, total, last
  <2>a. total \in Nat
    BY <1>1
  <2>6. /\ h \in Nat /\ g - h < SsnHalf /\ h - g < SsnHalf /\ last = Wrap(h)
        /\ (u <= t => g <= h) /\ (t < u => h < g)
    BY <1>3, <1>4, <2>a, <2>2, <2>3, <2>4, <2>5
  <2> HIDE DEF g, h
  <2>7. Lte(Wrap(g), Wrap(h)) <=> g <= h
    BY <2>2, <2>6, WrapFacts
  <2>8. u \in Int /\ t \in Int
    BY <2>1
  <2>9. Lte(x, last) <=> u <= t
    BY <2>2, <2>6, <2>7, <2>8
  <2> QED BY <2>1, <2>9
<1>7. NextIs(ms, s, B, NextSsn(last), f)
  <2>1. ASSUME NEW u \in 1 .. Len(s), KindIn(ms, s[u]) = "ordered", u \notin B PROVE N(u) > f
    <3>1. t < u
      BY <2>1
    <3> QED BY <1>1, <1>2, <2>1, <3>1, SameNumber
  <2>2. PassedOk(ms, s, B, f)
    BY <2>1 DEF PassedOk, AllSentTo
  <2>3. f \in Nat /\ f <= total /\ total - f < SsnHalf
    <3> HIDE DEF f, total, last
    <3> QED BY <1>1, <1>3, <1>4
  <2> QED BY <1>5, <2>2, <2>3 DEF NextIs
<1>8. o2 \in [Ssns -> SUBSET Nat] /\ \A x \in Ssns : o2[x] = IF x \in dropped THEN {} ELSE ord[x]
  BY <1>1 DEF OrderedOk, Without
<1> HIDE DEF o2
<1>9. OrderedOk(ms, s, B, o2) /\ NearOk(ms, s, o2)
  BY <1>1, <1>8 DEF OrderedOk, NearOk
<1>10. SetsOk(ms, s, B, uc, us)
  BY <1>1, SetsMore
<1>11. Together(ms, s, B, o2, uc)
  <2>1. ASSUME NEW u \in B, KindIn(ms, s[u]) = "ordered"
        PROVE  InPlace(ms, s, o2, uc, u) <=> u \in ord[ms[s[u].msg].ssn] /\ ms[s[u].msg].ssn \notin dropped
    <3>1. ms[s[u].msg].ssn \in Ssns
      BY <1>1, <2>1, ChunkNumber
    <3> QED BY <1>8, <2>1, <3>1 DEF InPlace
  <2>2. ASSUME NEW u \in B, InPlace(ms, s, o2, uc, u) PROVE InPlace(ms, s, ord, uc, u)
    <3>1. CASE KindIn(ms, s[u]) = "ordered"
      BY <2>1, <2>2, <3>1 DEF InPlace
    <3>2. CASE KindIn(ms, s[u]) # "ordered"
      BY <2>2, <3>2 DEF InPlace
    <3> QED BY <3>1, <3>2
  <2> SUFFICES ASSUME NEW u \in B
               PROVE  \/ InPlace(ms, s, o2, uc, u)
                      \/ \E e \in B : /\ Ends(ms, s[e]) /\ u \in Whole(s, e) /\ Whole(s, e) \subseteq B
                                      /\ \A v \in Whole(s, e) : ~InPlace(ms, s, o2, uc, v)
    BY DEF Together
  <2> DEFINE y == ms[s[u].msg].ssn
  <2>3. CASE u \in A /\ ~InPlace(ms, s, ord, uc, u)
    <3>1. PICK e \in A : /\ Ends(ms, s[e]) /\ u \in Whole(s, e) /\ Whole(s, e) \subseteq A
                         /\ \A v \in Whole(s, e) : ~InPlace(ms, s, ord, uc, v)
      BY <1>1, <2>3 DEF Together
    <3>2. e \in B /\ Whole(s, e) \subseteq B
      BY <1>1, <3>1
    <3>3. \A v \in Whole(s, e) : ~InPlace(ms, s, o2, uc, v)
      BY <2>2, <3>1, <3>2
    <3> QED BY <3>1, <3>2, <3>3
  <2>4. CASE u \in A /\ InPlace(ms, s, ord, uc, u) /\ ~(KindIn(ms, s[u]) = "ordered" /\ y \in dropped)
    <3>1. CASE KindIn(ms, s[u]) = "ordered"
      BY <2>1, <2>4, <3>1 DEF InPlace
    <3>2. CASE KindIn(ms, s[u]) # "ordered"
      BY <2>4, <3>2 DEF InPlace
    <3> QED BY <3>1, <3>2
  <2>5. CASE u \in A /\ InPlace(ms, s, ord, uc, u) /\ KindIn(ms, s[u]) = "ordered" /\ y \in dropped
    <3>1. u \in ord[y] /\ y \in Ssns /\ Lte(y, last)
      BY <1>0, <2>5 DEF InPlace
    <3>2. u <= t /\ u \in 1 .. Len(s) /\ t \in u .. Len(s)
      <4>1. u <= t /\ u \in 1 .. Len(s)
        BY <1>6, <3>1
      <4> QED BY <1>1, <4>1
    <3>3. PICK e \in u .. t : e \in 1 .. Len(s) /\ Ends(ms, s[e]) /\ u \in Whole(s, e)
      BY <1>1, <3>2, NextEnd
    <3>4. e \in B /\ Whole(s, e) \subseteq B
      <4>1. Whole(s, e) \subseteq 1 .. e /\ e \in 1 .. t
        BY <1>1, <3>2, <3>3, WholeFacts
      <4> QED BY <4>1
    <3>5. \A v \in Whole(s, e) : ~InPlace(ms, s, o2, uc, v)
      <4> SUFFICES ASSUME NEW v \in Whole(s, e) PROVE ~InPlace(ms, s, o2, uc, v)
        OBVIOUS
      <4>1. v \in B /\ s[v].msg = s[e].msg /\ s[u].msg = s[e].msg
        BY <1>1, <3>3, <3>4, WholeFacts
      <4>2. KindIn(ms, s[v]) = "ordered" /\ ms[s[v].msg].ssn \in dropped
        BY <2>5, <4>1 DEF KindIn
      <4> QED BY <2>1, <4>1, <4>2
    <3> QED BY <3>3, <3>4, <3>5
  <2>6. CASE u \notin A
    <3>1. u \in 1 .. t /\ u <= t /\ u \in 1 .. Len(s) /\ t \in u .. Len(s) /\ KindIn(ms, s[u]) = "ordered"
      <4>1. u \in 1 .. t
        BY <2>6
      <4> QED BY <1>1, <1>2, <4>1
    <3>2. PICK e \in u .. t : e \in 1 .. Len(s) /\ Ends(ms, s[e]) /\ u \in Whole(s, e)
      BY <1>1, <3>1, NextEnd
    <3>3. e \in B /\ Whole(s, e) \subseteq B /\ Whole(s, e) \subseteq 1 .. t
      <4>1. Whole(s, e) \subseteq 1 .. e /\ e \in 1 .. t
        BY <1>1, <3>1, <3>2, WholeFacts
      <4> QED BY <4>1
    <3>4. \A v \in Whole(s, e) : ~InPlace(ms, s, o2, uc, v)
      <4> SUFFICES ASSUME NEW v \in Whole(s, e), InPlace(ms, s, o2, uc, v) PROVE FALSE
        OBVIOUS
      <4>1. v \in B /\ v \in 1 .. Len(s) /\ v \in 1 .. t /\ s[v].msg = s[e].msg /\ s[u].msg = s[e].msg
        BY <1>1, <3>2, <3>3, WholeFacts
      <4>2. KindIn(ms, s[v]) = "ordered" /\ ms[s[v].msg].ssn = y
        BY <3>1, <4>1 DEF KindIn
      <4>3. v \in ord[y] /\ y \notin dropped
        BY <2>1, <4>1, <4>2
      <4>4. y \in Ssns
        BY <3>1, ChunkNumber
      <4>5. Lte(y, last)
        BY <1>6, <4>1, <4>3, <4>4
      <4>6. PICK d \in 1 .. Len(s) : Ends(ms, s[d]) /\ ord[y] = Whole(s, d)
        BY <1>0, <4>3, <4>4, <4>5
      <4>7. s[v].msg = s[d].msg
        BY <1>1, <4>1, <4>3, <4>6, WholeFacts
      <4>8. u \in Whole(s, d)
        BY <1>1, <3>1, <4>1, <4>6, <4>7, WholeFacts
      <4>9. u \in A
        BY <1>6, <4>4, <4>6, <4>8
      <4> QED BY <2>6, <4>9
    <3> QED BY <3>2, <3>3, <3>4
  <2> QED BY <2>3, <2>4, <2>5, <2>6
<1>12. held2 = held \ gone /\ gone \subseteq held
  <2>1. ASSUME NEW v PROVE v \in held2 <=> v \in held /\ v \notin gone
    <3>1. v \in gone <=> \E x \in Ssns : x \in dropped /\ v \in ord[x]
      BY <1>0, <1>a
    <3>2. (\E x \in Ssns : v \in ord[x]) <=> (\E x \in Ssns : v \in o2[x]) \/ v \in gone
      BY <1>8, <3>1
    <3>3. v \in gone => ~(\E x \in Ssns : v \in o2[x])
      <4> SUFFICES ASSUME v \in gone, NEW x \in Ssns, v \in o2[x] PROVE FALSE
        OBVIOUS
      <4>1. PICK w \in Ssns : w \in dropped /\ v \in ord[w]
        BY <3>1
      <4>2. x \notin dropped /\ v \in ord[x]
        BY <1>8
      <4>3. ms[s[v].msg].ssn = w
        BY <1>6, <4>1
      <4>4. ms[s[v].msg].ssn = x
        BY <1>6, <4>2
      <4> QED BY <4>1, <4>2, <4>3, <4>4
    <3>4. v \in gone => v \notin uc /\ ~(\E i \in 1 .. Len(us) : v \in us[i])
      <4> SUFFICES ASSUME v \in gone PROVE v \notin uc /\ ~(\E i \in 1 .. Len(us) : v \in us[i])
        OBVIOUS
      <4>1. KindIn(ms, s[v]) # "unordered"
        BY <1>6, <3>1
      <4>2. v \notin uc
        BY <1>1, <4>1 DEF SetsOk
      <4>3. ASSUME NEW i \in 1 .. Len(us), v \in us[i] PROVE FALSE
        <5>1. PICK d \in 1 .. Len(s) : Ends(ms, s[d]) /\ KindIn(ms, s[d]) = "unordered" /\ us[i] = Whole(s, d)
          BY <1>1 DEF SetsOk
        <5>2. KindIn(ms, s[v]) = "unordered"
          BY <1>1, <4>3, <5>1, WholeFacts
        <5> QED BY <4>1, <5>2
      <4> QED BY <4>2, <4>3
    <3>5. v \in held2 <=> (\E x \in Ssns : v \in o2[x]) \/ v \in uc \/ (\E i \in 1 .. Len(us) : v \in us[i])
      BY HeldMember
    <3>6. v \in held <=> (\E x \in Ssns : v \in ord[x]) \/ v \in uc \/ (\E i \in 1 .. Len(us) : v \in us[i])
      BY HeldMember
    <3> HIDE DEF held, held2
    <3> QED BY <3>2, <3>3, <3>4, <3>5, <3>6
  <2>2. \A v \in gone : v \in held
    <3> SUFFICES ASSUME NEW v \in gone PROVE v \in held
      OBVIOUS
    <3>1. \E x \in Ssns : v \in ord[x]
      BY <1>0, <1>a
    <3> QED BY <3>1, HeldMember
  <2> HIDE DEF held, held2
  <2> QED BY <2>1, <2>2
<1>13. IsFiniteSet(held)
  BY <1>1, HeldArrived
<1> HIDE DEF held, held2
<1>14. Cardinality(held2) = nb - Cardinality(gone) /\ Cardinality(gone) \in Nat
       /\ Cardinality(gone) <= nb /\ nb \in Nat
  BY <1>1, <1>12, <1>13, RemoveSize
<1>15. DeliveredOk(ms, s, B, held2, dl)
  <2>1. held2 \cap A \subseteq held
    BY <1>12
  <2> QED BY <1>1, <2>1, DeliveredMore
<1>16. QueueInv(ms, s, B, NextSsn(last), o2, uc, us, nb - Cardinality(gone), dl)
  BY <1>1, <1>3, <1>7, <1>9, <1>10, <1>11, <1>14, <1>15 DEF QueueInv, held2
<1> QED BY <1>5, <1>14, <1>16 DEF o2

\* A FORWARD TSN passes over everything up to t, of a stream that is unordered:
\* the loose chunks up to t are dropped.
LEMMA PassUnordered ==
    ASSUME NEW ms, NEW s, NEW un, Sending(ms, s, un), NEW A, NEW next, NEW ord, NEW uc, NEW us, NEW nb, NEW dl,
           QueueInv(ms, s, A, next, ord, uc, us, nb, dl),
           NEW t \in 1 .. Len(s), Ends(ms, s[t]),
           KindsTo(ms, s, A, t, "unordered"),
           NEW gone, gone = UpTo(uc, t)
    PROVE  /\ Cardinality(gone) \in Nat /\ Cardinality(gone) <= nb /\ nb \in Nat
           /\ QueueInv(ms, s, A \cup (1 .. t), next, ord, uc \ gone, us, nb - Cardinality(gone), dl)
<1> DEFINE B == A \cup (1 .. t)
           uc2 == uc \ gone
           held == HeldIn(ord, uc, us)
           held2 == HeldIn(ord, uc2, us)
<1>0. gone = {u \in uc : u <= t}
  BY DEF UpTo
<1> PICK n \in Nat : NextIs(ms, s, A, next, n)
  BY DEF QueueInv
<1>1. /\ ms \in Seq(Message) /\ SentOk(ms, s) /\ s \in Seq(Fragment) /\ Len(s) \in Nat
      /\ A \in SUBSET (1 .. Len(s)) /\ B \in SUBSET (1 .. Len(s)) /\ A \subseteq B
      /\ OrderedOk(ms, s, A, ord) /\ SetsOk(ms, s, A, uc, us) /\ NearOk(ms, s, ord)
      /\ Together(ms, s, A, ord, uc) /\ LooseOk(ms, s, uc) /\ DeliveredOk(ms, s, A, held, dl)
      /\ nb = Cardinality(held)
      /\ \A u \in 1 .. t : u \in 1 .. Len(s)
  BY SendingFacts DEF QueueInv
<1>2. OrderedOk(ms, s, B, ord) /\ NextIs(ms, s, B, next, n) /\ SetsOk(ms, s, B, uc, us)
  BY <1>1, OrderedMore, PassedMore, SetsMore
<1>3. SetsOk(ms, s, B, uc2, us)
  <2>1. us \in Seq(SUBSET Nat) /\ \A v \in uc2 : v \in B /\ KindIn(ms, s[v]) = "unordered"
    BY <1>2 DEF SetsOk
  <2>2. ASSUME NEW i \in 1 .. Len(us)
        PROVE  /\ \E e \in 1 .. Len(s) : Ends(ms, s[e]) /\ KindIn(ms, s[e]) = "unordered"
                                         /\ us[i] = Whole(s, e)
               /\ us[i] \subseteq B /\ us[i] \cap uc2 = {}
               /\ \A j \in 1 .. Len(us) : i # j => us[i] \cap us[j] = {}
    <3>1. us[i] \subseteq B /\ us[i] \cap uc = {}
      BY <1>2 DEF SetsOk
    <3>2. us[i] \cap uc2 = {}
      BY <3>1
    <3>3. /\ \E e \in 1 .. Len(s) : Ends(ms, s[e]) /\ KindIn(ms, s[e]) = "unordered"
                                    /\ us[i] = Whole(s, e)
          /\ \A j \in 1 .. Len(us) : i # j => us[i] \cap us[j] = {}
      BY <1>2 DEF SetsOk
    <3> QED BY <3>1, <3>2, <3>3
  <2> QED BY <2>1, <2>2 DEF SetsOk
<1>4. Together(ms, s, B, ord, uc2)
  <2>1. \A v \in B : InPlace(ms, s, ord, uc2, v) => InPlace(ms, s, ord, uc, v)
    BY DEF InPlace
  <2> SUFFICES ASSUME NEW u \in B
               PROVE  \/ InPlace(ms, s, ord, uc2, u)
                      \/ \E e \in B : /\ Ends(ms, s[e]) /\ u \in Whole(s, e) /\ Whole(s, e) \subseteq B
                                      /\ \A v \in Whole(s, e) : ~InPlace(ms, s, ord, uc2, v)
    BY DEF Together
  <2>2. CASE u \in A /\ ~InPlace(ms, s, ord, uc, u)
    <3>1. PICK e \in A : /\ Ends(ms, s[e]) /\ u \in Whole(s, e) /\ Whole(s, e) \subseteq A
                         /\ \A v \in Whole(s, e) : ~InPlace(ms, s, ord, uc, v)
      BY <1>1, <2>2 DEF Together
    <3>2. e \in B /\ Whole(s, e) \subseteq B
      BY <1>1, <3>1
    <3> QED BY <2>1, <3>1, <3>2
  <2>3. CASE u \in A /\ InPlace(ms, s, ord, uc, u) /\ ~(u \in gone /\ KindIn(ms, s[u]) # "ordered")
    BY <2>3 DEF InPlace
  <2>4. CASE (u \in A /\ u \in gone /\ KindIn(ms, s[u]) # "ordered") \/ u \notin A
    <3>1. u \in 1 .. Len(s) /\ u <= t /\ t \in u .. Len(s)
      <4>1. u \in 1 .. Len(s) /\ u \in Int /\ t \in Int
        BY <1>1
      <4>2. u <= t
        BY <1>0, <2>4, <4>1
      <4> QED BY <4>1, <4>2
    <3>2. KindIn(ms, s[u]) # "ordered"
      BY <2>4 DEF KindsTo
    <3>3. PICK e \in u .. t : e \in 1 .. Len(s) /\ Ends(ms, s[e]) /\ u \in Whole(s, e)
      BY <1>1, <3>1, NextEnd
    <3>4. e \in B /\ Whole(s, e) \subseteq B /\ Whole(s, e) \subseteq 1 .. t
      <4>1. Whole(s, e) \subseteq 1 .. e /\ e \in 1 .. t
        BY <1>1, <3>1, <3>3, WholeFacts
      <4> QED BY <4>1
    <3>5. \A v \in Whole(s, e) : ~InPlace(ms, s, ord, uc2, v)
      <4> SUFFICES ASSUME NEW v \in Whole(s, e) PROVE ~InPlace(ms, s, ord, uc2, v)
        OBVIOUS
      <4>1. s[v].msg = s[e].msg /\ s[u].msg = s[e].msg /\ v <= t
        BY <1>1, <3>3, <3>4, WholeFacts
      <4>2. KindIn(ms, s[v]) # "ordered" /\ v \notin uc2
        BY <1>0, <3>2, <4>1 DEF KindIn
      <4> QED BY <4>2 DEF InPlace
    <3> QED BY <3>3, <3>4, <3>5
  <2> QED BY <2>2, <2>3, <2>4
<1>5. LooseOk(ms, s, uc2)
  BY <1>1 DEF LooseOk
<1>6. held2 = held \ gone /\ gone \subseteq held
  <2>1. ASSUME NEW v PROVE v \in held2 <=> v \in held /\ v \notin gone
    <3>1. v \in gone => ~(\E x \in Ssns : v \in ord[x]) /\ ~(\E i \in 1 .. Len(us) : v \in us[i])
      <4> SUFFICES ASSUME v \in gone
                   PROVE  ~(\E x \in Ssns : v \in ord[x]) /\ ~(\E i \in 1 .. Len(us) : v \in us[i])
        OBVIOUS
      <4>1. v \in uc /\ KindIn(ms, s[v]) = "unordered"
        BY <1>0, <1>1 DEF SetsOk
      <4>2. ~(\E x \in Ssns : v \in ord[x])
        BY <1>1, <4>1 DEF OrderedOk
      <4>3. ~(\E i \in 1 .. Len(us) : v \in us[i])
        BY <1>1, <4>1 DEF SetsOk
      <4> QED BY <4>2, <4>3
    <3>2. v \in uc2 <=> v \in uc /\ v \notin gone
      OBVIOUS
    <3>3. v \in held2 <=> (\E x \in Ssns : v \in ord[x]) \/ v \in uc2 \/ (\E i \in 1 .. Len(us) : v \in us[i])
      BY HeldMember
    <3>4. v \in held <=> (\E x \in Ssns : v \in ord[x]) \/ v \in uc \/ (\E i \in 1 .. Len(us) : v \in us[i])
      BY HeldMember
    <3> HIDE DEF held, held2, uc2
    <3> QED BY <3>1, <3>2, <3>3, <3>4
  <2>2. \A v \in gone : v \in held
    <3>1. gone \subseteq uc
      BY <1>0
    <3> QED BY <3>1, HeldMember
  <2> HIDE DEF held, held2
  <2> QED BY <2>1, <2>2
<1>7. IsFiniteSet(held)
  BY <1>1, HeldArrived
<1> HIDE DEF held, held2
<1>8. Cardinality(held2) = nb - Cardinality(gone) /\ Cardinality(gone) \in Nat
      /\ Cardinality(gone) <= nb /\ nb \in Nat
  BY <1>1, <1>6, <1>7, RemoveSize
<1>9. DeliveredOk(ms, s, B, held2, dl)
  <2>1. held2 \cap A \subseteq held
    BY <1>6
  <2> QED BY <1>1, <2>1, DeliveredMore
<1> HIDE DEF uc2
<1>10. QueueInv(ms, s, B, next, ord, uc2, us, nb - Cardinality(gone), dl)
  BY <1>1, <1>2, <1>3, <1>4, <1>5, <1>8, <1>9 DEF QueueInv, held2
<1> QED BY <1>8, <1>10 DEF uc2

\* A message is written: the guard of Write keeps the SSNs in half a circle.
LEMMA QueueWritten ==
    ASSUME NEW ms, NEW s, NEW un, Sending(ms, s, un), NEW A, NEW next, NEW ord, NEW uc, NEW us, NEW nb, NEW dl,
           QueueInv(ms, s, A, next, ord, uc, us, nb, dl),
           NEW m \in Message,
           \A x \in Ssns : ord[x] # {} =>
              (Wrap(NumberIn(ms, Len(ms))) + 1 - x) % SsnSpace < SsnHalf,
           (Wrap(NumberIn(ms, Len(ms))) + 1 - next) % SsnSpace < SsnHalf
    PROVE  QueueInv(Append(ms, m), s, A, next, ord, uc, us, nb, dl)
<1> DEFINE ms2 == Append(ms, m)
           total == NumberIn(ms, Len(ms))
           total2 == NumberIn(ms2, Len(ms2))
           held == HeldIn(ord, uc, us)
<1> PICK n \in Nat : NextIs(ms, s, A, next, n)
  BY DEF QueueInv
<1>1. /\ ms \in Seq(Message) /\ SentOk(ms, s) /\ s \in Seq(Fragment) /\ Len(s) \in Nat
      /\ A \in SUBSET (1 .. Len(s))
      /\ OrderedOk(ms, s, A, ord) /\ SetsOk(ms, s, A, uc, us) /\ NearOk(ms, s, ord)
      /\ Together(ms, s, A, ord, uc) /\ LooseOk(ms, s, uc) /\ DeliveredOk(ms, s, A, held, dl)
      /\ nb = Cardinality(held)
      /\ total \in Nat /\ Len(ms) \in Nat
  BY SendingFacts DEF QueueInv
<1>2. /\ Extends(ms, ms2) /\ ms2 \in Seq(Message) /\ Len(ms2) = Len(ms) + 1 /\ ms2[Len(ms) + 1] = m
      /\ total2 = IF m.unordered THEN total ELSE total + 1
  BY <1>1, AppendExtends
<1> HIDE DEF ms2
<1>3. ASSUME NEW t \in 1 .. Len(s)
      PROVE  /\ ms2[s[t].msg] = ms[s[t].msg] /\ KindIn(ms2, s[t]) = KindIn(ms, s[t])
             /\ Ends(ms2, s[t]) <=> Ends(ms, s[t])
             /\ NumberIn(ms2, s[t].msg) = NumberIn(ms, s[t].msg)
  <2>1. ValidIn(ms, s[t])
    BY <1>1, SentAt
  <2> QED BY <1>2, <2>1, ExtendedSame
<1>4. /\ \A i \in 0 .. Len(ms) : NumberIn(ms2, i) = NumberIn(ms, i)
      /\ \A i \in 1 .. Len(ms) : ms2[i] = ms[i] /\ Last(ms2, i) = Last(ms, i)
  BY <1>2, ExtendedSame
<1>5. SsnHalf \in Nat /\ total2 \in Nat /\ total <= total2 /\ total2 <= total + 1
  <2>1. total \in Nat /\ (total2 = total \/ total2 = total + 1)
    BY <1>1, <1>2
  <2> HIDE DEF total, total2
  <2>2. total2 \in Nat /\ total <= total2 /\ total2 <= total + 1
    BY <2>1
  <2> QED BY <2>2, SpaceFacts
<1>6. NextIs(ms2, s, A, next, n)
  <2>1. next = Wrap(n) /\ n <= total /\ total - n < SsnHalf /\ PassedOk(ms, s, A, n)
    BY DEF NextIs
  <2>2. total + 1 - n < SsnHalf
    <3> HIDE DEF total
    <3>1. (Wrap(total) + 1 - Wrap(n)) % SsnSpace = total + 1 - n
      BY <1>1, <2>1, WrapFacts
    <3>2. (Wrap(total) + 1 - next) % SsnSpace < SsnHalf
      BY DEF total
    <3> QED BY <2>1, <3>1, <3>2
  <2>3. n <= total2 /\ total2 - n < SsnHalf
    <3> HIDE DEF total, total2
    <3> QED BY <1>1, <1>5, <2>1, <2>2
  <2>4. \A t \in 1 .. Len(s) : KindIn(ms2, s[t]) = "ordered" /\ t \notin A => NumberIn(ms2, s[t].msg) > n
    BY <1>3, <2>1 DEF PassedOk
  <2>5. ASSUME NEW i \in 1 .. Len(ms2), ~ms2[i].unordered, NumberIn(ms2, i) <= n
        PROVE  \E t \in 1 .. Len(s) : s[t] = Last(ms2, i)
    <3>1. CASE i \in 1 .. Len(ms)
      <4>1. i \in 0 .. Len(ms)
        BY <3>1
      <4> QED BY <1>4, <2>1, <2>5, <3>1, <4>1 DEF PassedOk
    <3>2. CASE i = Len(ms) + 1
      <4>1. ms2[i] = m /\ NumberIn(ms2, i) = total + 1
        BY <1>2, <2>5, <3>2
      <4> HIDE DEF total
      <4> QED BY <1>1, <2>1, <2>5, <4>1
    <3> QED BY <1>1, <1>2, <3>1, <3>2
  <2> QED BY <2>1, <2>3, <2>4, <2>5 DEF NextIs, PassedOk
<1>7. ASSUME NEW x \in Ssns, NEW t \in ord[x]
      PROVE  /\ t \in A /\ t \in 1 .. Len(s) /\ KindIn(ms, s[t]) = "ordered" /\ ms[s[t].msg].ssn = x
             /\ total2 - NumberIn(ms, s[t].msg) + 1 < SsnHalf
  <2> DEFINE f == NumberIn(ms, s[t].msg)
             g == f - 1
  <2>1. t \in A /\ t \in 1 .. Len(s) /\ KindIn(ms, s[t]) = "ordered" /\ ms[s[t].msg].ssn = x
    BY <1>1 DEF OrderedOk
  <2>2. x = Wrap(g) /\ f \in Nat /\ g \in Nat /\ f <= total
    BY <2>1, ChunkNumber
  <2>3. total - f + 1 < SsnHalf /\ (Wrap(total) + 1 - x) % SsnSpace < SsnHalf
    BY <1>1 DEF NearOk
  <2> HIDE DEF f, total, total2
  <2>4. g <= total /\ total - g < SsnHalf
    BY <1>1, <1>5, <2>2, <2>3
  <2>5. (Wrap(total) + 1 - Wrap(g)) % SsnSpace = total + 1 - g
    <3> HIDE DEF g
    <3> QED BY <1>1, <2>2, <2>4, WrapFacts
  <2>6. total + 1 - g < SsnHalf
    BY <2>2, <2>3, <2>5
  <2>7. total2 - f + 1 < SsnHalf
    BY <1>1, <1>5, <2>2, <2>6
  <2> QED BY <2>1, <2>7 DEF f
<1>8. OrderedOk(ms2, s, A, ord)
  <2>1. ord \in [Ssns -> SUBSET Nat]
    BY <1>1 DEF OrderedOk
  <2>2. \A x \in Ssns : \A t \in ord[x] :
           t \in A /\ KindIn(ms2, s[t]) = "ordered" /\ ms2[s[t].msg].ssn = x
    BY <1>3, <1>7
  <2> QED BY <2>1, <2>2 DEF OrderedOk
<1>9. NearOk(ms2, s, ord)
  BY <1>3, <1>7 DEF NearOk
<1>10. SetsOk(ms2, s, A, uc, us)
  <2>1. us \in Seq(SUBSET Nat) /\ \A t \in uc : t \in A /\ KindIn(ms2, s[t]) = "unordered"
    BY <1>1, <1>3 DEF SetsOk
  <2>2. ASSUME NEW i \in 1 .. Len(us)
        PROVE  /\ \E e \in 1 .. Len(s) : Ends(ms2, s[e]) /\ KindIn(ms2, s[e]) = "unordered"
                                         /\ us[i] = Whole(s, e)
               /\ us[i] \subseteq A /\ us[i] \cap uc = {}
               /\ \A j \in 1 .. Len(us) : i # j => us[i] \cap us[j] = {}
    BY <1>1, <1>3 DEF SetsOk
  <2> QED BY <2>1, <2>2 DEF SetsOk
<1>11. Together(ms2, s, A, ord, uc)
  <2>1. \A t \in 1 .. Len(s) : InPlace(ms2, s, ord, uc, t) <=> InPlace(ms, s, ord, uc, t)
    BY <1>3 DEF InPlace
  <2> SUFFICES ASSUME NEW u \in A
               PROVE  \/ InPlace(ms2, s, ord, uc, u)
                      \/ \E e \in A : /\ Ends(ms2, s[e]) /\ u \in Whole(s, e) /\ Whole(s, e) \subseteq A
                                      /\ \A t \in Whole(s, e) : ~InPlace(ms2, s, ord, uc, t)
    BY DEF Together
  <2>2. CASE InPlace(ms, s, ord, uc, u)
    BY <1>1, <2>1, <2>2
  <2>3. CASE ~InPlace(ms, s, ord, uc, u)
    <3>1. PICK e \in A : /\ Ends(ms, s[e]) /\ u \in Whole(s, e) /\ Whole(s, e) \subseteq A
                         /\ \A t \in Whole(s, e) : ~InPlace(ms, s, ord, uc, t)
      BY <1>1, <2>3 DEF Together
    <3>2. Ends(ms2, s[e]) /\ \A t \in Whole(s, e) : ~InPlace(ms2, s, ord, uc, t)
      BY <1>1, <1>3, <2>1, <3>1
    <3> QED BY <3>1, <3>2
  <2> QED BY <2>2, <2>3
<1>12. LooseOk(ms2, s, uc)
  <2>1. \A e \in uc : e \in 1 .. Len(s)
    BY <1>1 DEF SetsOk
  <2> QED BY <1>1, <1>3, <2>1 DEF LooseOk
<1>13. DeliveredOk(ms2, s, A, held, dl)
  <2>1. ASSUME NEW i \in 1 .. Len(dl)
        PROVE  \E k \in 1 .. Len(ms2) : dl[i] = [j \in 1 .. ms2[k].len |-> [msg |-> k, n |-> j]]
    <3>1. PICK k \in 1 .. Len(ms) : dl[i] = [j \in 1 .. ms[k].len |-> [msg |-> k, n |-> j]]
      BY <1>1 DEF DeliveredOk
    <3>2. k \in 1 .. Len(ms2) /\ ms2[k] = ms[k]
      BY <1>1, <1>2, <1>4
    <3> QED BY <3>1, <3>2
  <2> QED BY <1>1, <2>1 DEF DeliveredOk
<1>14. \E k \in Nat : NextIs(ms2, s, A, next, k)
  BY <1>6
<1>15. QueueInv(ms2, s, A, next, ord, uc, us, nb, dl)
  BY <1>1, <1>8, <1>9, <1>10, <1>11, <1>12, <1>13, <1>14 DEF QueueInv
<1> QED BY <1>15 DEF ms2

\* A chunk is sent: it has not arrived, and is none of those passed over.
LEMMA QueueSent ==
    ASSUME NEW ms, NEW s, NEW un, Sending(ms, s, un), NEW A, NEW next, NEW ord, NEW uc, NEW us, NEW nb, NEW dl,
           QueueInv(ms, s, A, next, ord, uc, us, nb, dl),
           NEW c \in Fragment, SentOk(ms, Append(s, c))
    PROVE  QueueInv(ms, Append(s, c), A, next, ord, uc, us, nb, dl)
<1> DEFINE s2 == Append(s, c)
           held == HeldIn(ord, uc, us)
<1> PICK n \in Nat : NextIs(ms, s, A, next, n)
  BY DEF QueueInv
<1>1. /\ ms \in Seq(Message) /\ SentOk(ms, s) /\ s \in Seq(Fragment) /\ Len(s) \in Nat
      /\ A \in SUBSET (1 .. Len(s))
      /\ OrderedOk(ms, s, A, ord) /\ SetsOk(ms, s, A, uc, us) /\ NearOk(ms, s, ord)
      /\ Together(ms, s, A, ord, uc) /\ LooseOk(ms, s, uc) /\ DeliveredOk(ms, s, A, held, dl)
      /\ nb = Cardinality(held) /\ Len(ms) \in Nat
  BY SendingFacts DEF QueueInv
<1>2. /\ s2 \in Seq(Fragment) /\ Len(s2) = Len(s) + 1 /\ s2[Len(s) + 1] = c
      /\ \A t \in 1 .. Len(s) : s2[t] = s[t] /\ t \in 1 .. Len(s2)
  BY <1>1
<1>3. SentOk(ms, s2)
  OBVIOUS
<1> HIDE DEF s2
<1>4. \A e \in 1 .. Len(s) : Whole(s2, e) = Whole(s, e)
  BY <1>2 DEF Whole
<1>5. A \in SUBSET (1 .. Len(s2))
  BY <1>1, <1>2
<1>6. NextIs(ms, s2, A, next, n)
  <2>1. PassedOk(ms, s, A, n)
    BY DEF NextIs
  <2>2. ASSUME NEW t \in 1 .. Len(s2), KindIn(ms, s2[t]) = "ordered", t \notin A
        PROVE  NumberIn(ms, s2[t].msg) > n
    <3>1. CASE t \in 1 .. Len(s)
      BY <1>2, <2>1, <2>2, <3>1 DEF PassedOk
    <3>2. CASE t = Len(s) + 1
      <4>1. /\ c.msg \in 1 .. Len(ms) /\ c.msg \in Nat \ {0} /\ c.n <= ms[c.msg].len /\ c.n \in Nat
            /\ ms[c.msg].len \in Nat
        <5>1. s2[t] = c
          BY <1>2, <3>2
        <5> QED BY <1>1, <1>3, <5>1, SentAt
      <4>2. ~ms[c.msg].unordered
        BY <1>2, <2>2, <3>2 DEF KindIn, KindOf
      <4>3. NumberIn(ms, c.msg) \in Nat
        BY <4>1, NumberNat
      <4>4. ASSUME NumberIn(ms, c.msg) <= n PROVE FALSE
        <5>1. PICK u \in 1 .. Len(s) : s[u] = Last(ms, c.msg)
          BY <2>1, <4>1, <4>2, <4>4 DEF PassedOk
        <5>2. s2[u] = s[u] /\ u \in 1 .. Len(s2) /\ u < t /\ s2[t] = c
          BY <1>1, <1>2, <3>2, <5>1
        <5>3. KindIn(ms, s2[u]) = KindIn(ms, s2[t])
          BY <5>1, <5>2 DEF KindIn, Last
        <5>4. Before(s2[u], c)
          BY <1>3, <5>2, <5>3 DEF SentOk
        <5>5. s2[u].msg = c.msg /\ s2[u].n = ms[c.msg].len
          BY <5>1, <5>2 DEF Last
        <5> QED BY <4>1, <5>4, <5>5 DEF Before
      <4> QED BY <1>2, <3>2, <4>3, <4>4
    <3> QED BY <1>1, <1>2, <3>1, <3>2
  <2>3. \A i \in 1 .. Len(ms) : ~ms[i].unordered /\ NumberIn(ms, i) <= n =>
           \E t \in 1 .. Len(s2) : s2[t] = Last(ms, i)
    <3> SUFFICES ASSUME NEW i \in 1 .. Len(ms), ~ms[i].unordered, NumberIn(ms, i) <= n
                 PROVE  \E t \in 1 .. Len(s2) : s2[t] = Last(ms, i)
      OBVIOUS
    <3>1. PICK t \in 1 .. Len(s) : s[t] = Last(ms, i)
      BY <2>1 DEF PassedOk
    <3> QED BY <1>2, <3>1
  <2> QED BY <2>2, <2>3 DEF NextIs, PassedOk
<1>7. OrderedOk(ms, s2, A, ord) /\ NearOk(ms, s2, ord)
  <2>1. \A x \in Ssns : \A t \in ord[x] : t \in A /\ s2[t] = s[t]
    BY <1>1, <1>2 DEF OrderedOk
  <2> QED BY <1>1, <2>1 DEF OrderedOk, NearOk
<1>8. SetsOk(ms, s2, A, uc, us)
  <2>1. us \in Seq(SUBSET Nat) /\ \A t \in uc : t \in A /\ KindIn(ms, s2[t]) = "unordered"
    BY <1>1, <1>2 DEF SetsOk
  <2>2. ASSUME NEW i \in 1 .. Len(us)
        PROVE  /\ \E e \in 1 .. Len(s2) : Ends(ms, s2[e]) /\ KindIn(ms, s2[e]) = "unordered"
                                         /\ us[i] = Whole(s2, e)
               /\ us[i] \subseteq A /\ us[i] \cap uc = {}
               /\ \A j \in 1 .. Len(us) : i # j => us[i] \cap us[j] = {}
    <3>1. PICK e \in 1 .. Len(s) : Ends(ms, s[e]) /\ KindIn(ms, s[e]) = "unordered" /\ us[i] = Whole(s, e)
      BY <1>1 DEF SetsOk
    <3>2. e \in 1 .. Len(s2) /\ s2[e] = s[e] /\ us[i] = Whole(s2, e)
      BY <1>2, <1>4, <3>1
    <3>3. us[i] \subseteq A /\ us[i] \cap uc = {} /\ \A j \in 1 .. Len(us) : i # j => us[i] \cap us[j] = {}
      BY <1>1 DEF SetsOk
    <3> QED BY <3>1, <3>2, <3>3
  <2> QED BY <2>1, <2>2 DEF SetsOk
<1>9. Together(ms, s2, A, ord, uc)
  <2>1. \A t \in 1 .. Len(s) : InPlace(ms, s2, ord, uc, t) <=> InPlace(ms, s, ord, uc, t)
    BY <1>2 DEF InPlace
  <2> SUFFICES ASSUME NEW u \in A
               PROVE  \/ InPlace(ms, s2, ord, uc, u)
                      \/ \E e \in A : /\ Ends(ms, s2[e]) /\ u \in Whole(s2, e) /\ Whole(s2, e) \subseteq A
                                      /\ \A t \in Whole(s2, e) : ~InPlace(ms, s2, ord, uc, t)
    BY DEF Together
  <2>2. CASE InPlace(ms, s, ord, uc, u)
    BY <1>1, <2>1, <2>2
  <2>3. CASE ~InPlace(ms, s, ord, uc, u)
    <3>1. PICK e \in A : /\ Ends(ms, s[e]) /\ u \in Whole(s, e) /\ Whole(s, e) \subseteq A
                         /\ \A t \in Whole(s, e) : ~InPlace(ms, s, ord, uc, t)
      BY <1>1, <2>3 DEF Together
    <3>2. s2[e] = s[e] /\ Whole(s2, e) = Whole(s, e)
      BY <1>1, <1>2, <1>4
    <3>3. \A t \in Whole(s, e) : ~InPlace(ms, s2, ord, uc, t)
      BY <1>1, <2>1, <3>1
    <3> QED BY <3>1, <3>2, <3>3
  <2> QED BY <2>2, <2>3
<1>10. LooseOk(ms, s2, uc)
  <2>1. \A e \in uc : e \in 1 .. Len(s)
    BY <1>1 DEF SetsOk
  <2> QED BY <1>1, <1>2, <1>4, <2>1 DEF LooseOk
<1>11. DeliveredOk(ms, s2, A, held, dl)
  <2>1. ASSUME NEW i \in 1 .. Len(dl)
        PROVE  \E t \in A : t \notin held /\ s2[t] = dl[i][1]
    BY <1>1, <1>2 DEF DeliveredOk
  <2> QED BY <1>1, <2>1 DEF DeliveredOk
<1>12. \E k \in Nat : NextIs(ms, s2, A, next, k)
  BY <1>6
<1>13. QueueInv(ms, s2, A, next, ord, uc, us, nb, dl)
  BY <1>1, <1>5, <1>7, <1>8, <1>9, <1>10, <1>11, <1>12 DEF QueueInv
<1> QED BY <1>13 DEF s2

-----------------------------------------------------------------------------
(* The steps of the receiver.                                              *)

\* handle_peer_last_tsn_and_acknowledgement changes what is cumulative and
\* nothing of what has arrived.
LEMMA AdvanceFacts ==
    ASSUME Len(sent) \in Nat, NEW p \in 0 .. Len(sent), NEW S \in SUBSET (1 .. Len(sent)),
           Advance(p, S), sent' = sent
    PROVE  ReceivedOk(sent', peer_last_tsn', payload_queue') /\ Arrived' = (1 .. p) \cup S
<1> DEFINE i == RunEnd(p, S)
<1>1. \E k \in p .. Len(sent) : (p + 1) .. k \subseteq S /\ k + 1 \notin S
  <2>1. p \in Nat /\ p <= Len(sent) /\ S \in SUBSET Nat /\ Len(sent) + 1 \notin S
    OBVIOUS
  <2> QED BY <2>1, RunOfNaturals
<1>2. i \in p .. Len(sent) /\ (p + 1) .. i \subseteq S /\ i + 1 \notin S
  BY <1>1 DEF RunEnd
<1>3. peer_last_tsn' = i /\ payload_queue' = {t \in S : t > i}
  BY DEF Advance
<1> HIDE DEF i
<1>4. ReceivedOk(sent', peer_last_tsn', payload_queue')
  <2> DEFINE q == {t \in S : t > i}
  <2>1. i \in 0 .. Len(sent)
    BY <1>2
  <2>2. q \subseteq 1 .. Len(sent) /\ i + 1 \notin q
    BY <1>2
  <2> HIDE DEF q
  <2>3. ReceivedOk(sent, i, q)
    BY <2>1, <2>2 DEF ReceivedOk
  <2>4. payload_queue' = q
    BY <1>3 DEF q
  <2> QED BY <1>3, <2>3, <2>4
<1>5. ASSUME NEW u PROVE u \in Arrived' <=> u \in (1 .. p) \cup S
  <2>1. u \in Arrived' <=> u \in 1 .. i \/ (u \in S /\ u > i)
    BY <1>3 DEF Arrived
  <2>2. u \in 1 .. i => u \in 1 .. p \/ u \in (p + 1) .. i
    BY <1>2
  <2>3. u \in 1 .. p => u \in 1 .. i
    BY <1>2
  <2>4. u \in S => u \in 1 .. i \/ u > i
    BY <1>2
  <2> QED BY <1>2, <2>1, <2>2, <2>3, <2>4
<1> QED BY <1>4, <1>5

LEMMA ReceiverFacts ==
    ASSUME SenderInv, ReceiverInv
    PROVE  /\ Sending(messages, sent, unordered) /\ messages \in Seq(Message) /\ SentOk(messages, sent)
           /\ Len(sent) \in Nat /\ peer_last_tsn \in 0 .. Len(sent) /\ payload_queue \in SUBSET (1 .. Len(sent))
           /\ Arrived \in SUBSET (1 .. Len(sent)) /\ peer_last_tsn + 1 \notin Arrived
           /\ unordered_chunks \in SUBSET (1 .. Len(sent))
           /\ \A x \in Ssns : ordered[x] \in SUBSET (1 .. Len(sent))
           /\ OrderedOk(messages, sent, Arrived, ordered) /\ NearOk(messages, sent, ordered)
           /\ SetsOk(messages, sent, Arrived, unordered_chunks, unordered_sets)
<1>1. Sending(messages, sent, unordered)
  BY DEF SenderInv, Sending
<1>2. /\ peer_last_tsn \in 0 .. Len(sent) /\ payload_queue \in SUBSET (1 .. Len(sent))
      /\ peer_last_tsn + 1 \notin payload_queue
      /\ Arrived \in SUBSET (1 .. Len(sent))
      /\ OrderedOk(messages, sent, Arrived, ordered) /\ NearOk(messages, sent, ordered)
      /\ SetsOk(messages, sent, Arrived, unordered_chunks, unordered_sets)
  BY DEF ReceiverInv, ReceivedOk, QueueInv
<1>3. messages \in Seq(Message) /\ SentOk(messages, sent) /\ Len(sent) \in Nat
  BY <1>1, SendingFacts
<1>4. peer_last_tsn + 1 \notin Arrived
  BY <1>2, <1>3 DEF Arrived
<1>5. unordered_chunks \in SUBSET (1 .. Len(sent))
  BY <1>2 DEF SetsOk
<1>6. \A x \in Ssns : ordered[x] \in SUBSET (1 .. Len(sent))
  BY <1>2 DEF OrderedOk
<1> QED BY <1>1, <1>2, <1>3, <1>4, <1>5, <1>6

\* A chunk arrives for the first time.
LEMMA PushStep ==
    ASSUME SenderInv, ReceiverInv, NEW t \in 1 .. Len(sent), t \notin Arrived,
           IF Kind(sent[t]) = "unordered" THEN PushUnordered(t) ELSE PushOrdered(t)
    PROVE  QueueInv(messages, sent, Arrived \cup {t}, next_ssn, ordered', unordered_chunks', unordered_sets',
                    n_bytes', delivered)
<1>1. /\ Sending(messages, sent, unordered) /\ messages \in Seq(Message) /\ SentOk(messages, sent)
      /\ unordered_chunks \in SUBSET (1 .. Len(sent))
      /\ QueueInv(messages, sent, Arrived, next_ssn, ordered, unordered_chunks, unordered_sets,
                  n_bytes, delivered)
  BY ReceiverFacts DEF ReceiverInv
<1>2. Kind(sent[t]) = KindIn(messages, sent[t]) /\ Ssn(sent[t]) = messages[sent[t].msg].ssn
  BY DEF Kind, KindIn, Ssn
<1>3. CASE Kind(sent[t]) # "unordered"
  <2>1. KindIn(messages, sent[t]) = "ordered"
    BY <1>2, <1>3 DEF KindIn, KindOf
  <2>2. PushOrdered(t) /\ ~Lt(Ssn(sent[t]), next_ssn)
    BY <1>1, <1>2, <1>3, <2>1, ReceiveOrdered
  <2>3. n_bytes' = n_bytes + 1 /\ ordered' = [ordered EXCEPT ![Ssn(sent[t])] = @ \cup {t}]
        /\ unordered_chunks' = unordered_chunks /\ unordered_sets' = unordered_sets
    BY <2>2 DEF PushOrdered
  <2> QED BY <1>1, <1>2, <2>1, <2>3, ReceiveOrdered
<1>4. CASE Kind(sent[t]) = "unordered"
  <2> DEFINE all == unordered_chunks \cup {t}
             runs == CompleteRuns(all)
  <2>1. KindIn(messages, sent[t]) = "unordered" /\ PushUnordered(t)
    BY <1>2, <1>4
  <2>2. all \in SUBSET (1 .. Len(sent))
    BY <1>1
  <2>3. n_bytes' = n_bytes + 1 /\ ordered' = ordered
    BY <2>1 DEF PushUnordered
  <2>4. CASE runs = {}
    <3>1. unordered_chunks' = all /\ unordered_sets' = unordered_sets
      BY <2>1, <2>4 DEF PushUnordered
    <3>2. LooseOk(messages, sent, unordered_chunks \cup {t})
      BY <1>1, <2>2, <2>4, RunsFacts
    <3> QED BY <1>1, <2>1, <2>3, <3>1, <3>2, ReceiveLoose
  <2>5. CASE runs # {}
    <3> DEFINE R == CHOOSE R \in runs : \A Q \in runs : Min(R) <= Min(Q)
               Mins == {Min(Q) : Q \in runs}
    <3>1. unordered_chunks' = all \ R /\ unordered_sets' = Append(unordered_sets, R)
      BY <2>1, <2>5 DEF PushUnordered, Drained
    <3>2. \A Q \in runs : \E e \in 1 .. Len(sent) :
             Ends(messages, sent[e]) /\ Q = Whole(sent, e) /\ Q \subseteq all
      BY <1>1, <2>2, RunsFacts
    <3>3. \A Q \in runs : Min(Q) \in Nat
      <4> SUFFICES ASSUME NEW Q \in runs PROVE Min(Q) \in Nat
        OBVIOUS
      <4> PICK e \in 1 .. Len(sent) : Ends(messages, sent[e]) /\ Q = Whole(sent, e)
        BY <3>2
      <4>1. Min(Q) = e - sent[e].n + 1
        BY <1>1, WholeComplete
      <4>2. e - sent[e].n + 1 \in 1 .. e
        BY <1>1, WholeFacts
      <4> QED BY <4>1, <4>2
    <3> HIDE DEF runs, all
    <3>4. \E k \in Mins : \A l \in Mins : k <= l
      BY <2>5, <3>3, LeastNatural
    <3>5. R \in runs
      BY <3>4
    <3> HIDE DEF R
    <3> PICK e \in 1 .. Len(sent) : Ends(messages, sent[e]) /\ R = Whole(sent, e) /\ R \subseteq all
      BY <3>2, <3>5
    <3>6. Whole(sent, e) \subseteq unordered_chunks \cup {t}
      BY DEF all
    <3>7. unordered_chunks' = (unordered_chunks \cup {t}) \ Whole(sent, e)
          /\ unordered_sets' = Append(unordered_sets, Whole(sent, e))
      BY <3>1 DEF all
    <3> QED BY <1>1, <2>1, <2>3, <3>6, <3>7, ReceiveRun
  <2> QED BY <2>4, <2>5
<1> QED BY <1>3, <1>4

LEMMA DataStep ==
    ASSUME SenderInv, ReceiverInv, NEW t \in Tsns, HandleData(t)
    PROVE  ReceiverInv'
<1>1. /\ Len(sent) \in Nat /\ peer_last_tsn \in 0 .. Len(sent)
      /\ payload_queue \in SUBSET (1 .. Len(sent)) /\ t \in 1 .. Len(sent)
  BY ReceiverFacts DEF Tsns
<1>2. t > peer_last_tsn /\ t \notin payload_queue
      /\ (IF Kind(sent[t]) = "unordered" THEN PushUnordered(t) ELSE PushOrdered(t))
      /\ Advance(peer_last_tsn, payload_queue \cup {t})
      /\ UNCHANGED <<messages, sent, next_ssn, delivered>>
  BY DEF HandleData, snd_vars
<1>3. t \notin Arrived
  BY <1>1, <1>2 DEF Arrived
<1>4. QueueInv(messages, sent, Arrived \cup {t}, next_ssn, ordered', unordered_chunks', unordered_sets',
               n_bytes', delivered)
  BY <1>1, <1>2, <1>3, PushStep
<1>5. payload_queue \cup {t} \in SUBSET (1 .. Len(sent)) /\ sent' = sent
  BY <1>1, <1>2
<1>6. ReceivedOk(sent', peer_last_tsn', payload_queue')
      /\ Arrived' = (1 .. peer_last_tsn) \cup (payload_queue \cup {t})
  BY <1>1, <1>2, <1>5, AdvanceFacts
<1>7. Arrived' = Arrived \cup {t}
  BY <1>6 DEF Arrived
<1> QED BY <1>2, <1>4, <1>6, <1>7 DEF ReceiverInv

\* The queue of ordered sets, when not empty, starts with the least SSN.
LEMMA FirstHeld ==
    ASSUME SenderInv, ReceiverInv, Held # {}
    PROVE  First \in Held /\ \A u \in Held : Lte(First, u)
<1> DEFINE N(t) == NumberIn(messages, sent[t].msg)
           total == NumberIn(messages, Len(messages))
           Numbers == {N(t) : t \in UNION {ordered[x] : x \in Ssns}}
<1>1. /\ Sending(messages, sent, unordered)
      /\ \A x \in Ssns : ordered[x] \in SUBSET (1 .. Len(sent))
      /\ OrderedOk(messages, sent, Arrived, ordered) /\ NearOk(messages, sent, ordered)
  BY ReceiverFacts
<1>2. ASSUME NEW x \in Ssns, NEW t \in ordered[x]
      PROVE  /\ N(t) \in Nat /\ N(t) - 1 \in Nat /\ x = Wrap(N(t) - 1)
             /\ N(t) <= total /\ total - N(t) + 1 < SsnHalf
  <2>1. t \in 1 .. Len(sent) /\ KindIn(messages, sent[t]) = "ordered" /\ messages[sent[t].msg].ssn = x
    BY <1>1 DEF OrderedOk
  <2>2. total - N(t) + 1 < SsnHalf
    BY <1>1 DEF NearOk
  <2> QED BY <1>1, <2>1, <2>2, ChunkNumber
<1>3. total \in Nat /\ SsnHalf \in Nat
  BY <1>1, SendingFacts, SpaceFacts
<1> HIDE DEF N, total
<1>4. Numbers \in SUBSET Nat /\ Numbers # {}
  <2>1. \A t \in UNION {ordered[x] : x \in Ssns} : N(t) \in Nat
    BY <1>2
  <2>2. \E t : t \in UNION {ordered[x] : x \in Ssns}
    BY DEF Held
  <2> QED BY <2>1, <2>2
<1>5. PICK k \in Numbers : \A l \in Numbers : k <= l
  BY <1>4, LeastNatural
<1>6. PICK x \in Ssns : \E t \in ordered[x] : k = N(t)
  BY <1>5
<1>7. PICK t \in ordered[x] : k = N(t)
  BY <1>6
<1>8. x \in Held
  BY <1>7 DEF Held
<1>9. ASSUME NEW u \in Held PROVE Lte(x, u)
  <2>1. PICK v \in ordered[u] : u \in Ssns
    BY DEF Held
  <2> DEFINE a == N(t) - 1
             b == N(v) - 1
  <2>2. N(t) <= N(v)
    <3>1. N(v) \in Numbers
      BY <2>1
    <3> QED BY <1>5, <1>7, <3>1
  <2>3. /\ N(t) \in Nat /\ a \in Nat /\ x = Wrap(a) /\ N(t) <= total /\ total - N(t) + 1 < SsnHalf
        /\ N(v) \in Nat /\ b \in Nat /\ u = Wrap(b) /\ N(v) <= total /\ total - N(v) + 1 < SsnHalf
    BY <1>2, <1>7, <2>1
  <2>4. a <= b /\ a - b < SsnHalf /\ b - a < SsnHalf
    BY <1>3, <2>2, <2>3
  <2> HIDE DEF a, b
  <2>5. Lte(Wrap(a), Wrap(b))
    BY <2>3, <2>4, WrapFacts
  <2> QED BY <2>3, <2>5
<1> QED BY <1>8, <1>9 DEF First

\* A chunk set is complete when it is a whole message.
LEMMA OrderedComplete ==
    ASSUME SenderInv, ReceiverInv, NEW x \in Ssns
    PROVE  IsComplete(ordered[x]) <=>
              \E e \in 1 .. Len(sent) : Ends(messages, sent[e]) /\ ordered[x] = Whole(sent, e)
<1> DEFINE S == ordered[x]
<1>1. /\ Sending(messages, sent, unordered) /\ messages \in Seq(Message) /\ SentOk(messages, sent)
      /\ S \in SUBSET (1 .. Len(sent)) /\ Arrived \in SUBSET (1 .. Len(sent))
      /\ OrderedOk(messages, sent, Arrived, ordered) /\ NearOk(messages, sent, ordered)
  BY ReceiverFacts
<1>2. \A t, u \in S : sent[t].msg = sent[u].msg
  <2>1. Apart(sent, ordered)
    BY <1>1, OneMessage
  <2> QED BY <2>1 DEF Apart
<1> HIDE DEF S
<1>3. ASSUME IsComplete(S) PROVE \E e \in 1 .. Len(sent) : Ends(messages, sent[e]) /\ S = Whole(sent, e)
  BY <1>1, <1>2, <1>3, CompleteWhole
<1>4. ASSUME NEW e \in 1 .. Len(sent), Ends(messages, sent[e]), S = Whole(sent, e) PROVE IsComplete(S)
  BY <1>1, <1>4, WholeComplete
<1> QED BY <1>3, <1>4 DEF S

LEMMA SubtractFacts ==
    ASSUME NEW n \in Nat, n_bytes \in Nat, n <= n_bytes
    PROVE  Subtract(n) = n_bytes - n
  BY DEF Subtract

LEMMA ReadStep ==
    ASSUME SenderInv, ReceiverInv, Read
    PROVE  ReceiverInv'
<1>1. /\ Sending(messages, sent, unordered) /\ messages \in Seq(Message) /\ SentOk(messages, sent)
      /\ QueueInv(messages, sent, Arrived, next_ssn, ordered, unordered_chunks, unordered_sets,
                  n_bytes, delivered)
      /\ ReceivedOk(sent, peer_last_tsn, payload_queue)
  BY ReceiverFacts DEF ReceiverInv
<1>2. UNCHANGED <<messages, sent, peer_last_tsn, payload_queue, unordered_chunks>>
  BY DEF Read, snd_vars
<1>3. Arrived' = Arrived
  BY <1>2 DEF Arrived
<1>4. CASE ReadUnordered
  <2> DEFINE R == Head(unordered_sets)
  <2>1. /\ unordered_sets # <<>> /\ delivered' = Append(delivered, Contents(R))
        /\ n_bytes' = Subtract(Cardinality(R)) /\ unordered_sets' = Tail(unordered_sets)
        /\ ordered' = ordered /\ next_ssn' = next_ssn
    BY <1>4 DEF ReadUnordered
  <2>2. PICK e \in 1 .. Len(sent) :
              /\ Ends(messages, sent[e]) /\ R = Whole(sent, e)
              /\ Cardinality(R) \in Nat /\ Cardinality(R) <= n_bytes /\ n_bytes \in Nat
              /\ QueueInv(messages, sent, Arrived, next_ssn, ordered, unordered_chunks, Tail(unordered_sets),
                          n_bytes - Cardinality(R), Append(delivered, MessageOf(messages, sent[e].msg)))
    BY <1>1, <2>1, ReadSet
  <2> HIDE DEF R
  <2>3. Contents(R) = MessageOf(messages, sent[e].msg)
    BY <1>1, <2>2, WholeContents DEF MessageOf
  <2>4. n_bytes' = n_bytes - Cardinality(R)
    BY <2>1, <2>2, SubtractFacts
  <2> QED BY <1>1, <1>2, <1>3, <2>1, <2>2, <2>3, <2>4 DEF ReceiverInv
<1>5. CASE ReadOrdered
  <2> DEFINE x == First
             R == ordered[x]
  <2>1. /\ Held # {} /\ IsComplete(R) /\ ~Gt(x, next_ssn)
        /\ delivered' = Append(delivered, Contents(R)) /\ n_bytes' = Subtract(Cardinality(R))
        /\ ordered' = [ordered EXCEPT ![x] = {}]
        /\ next_ssn' = IF x = next_ssn THEN NextSsn(x) ELSE next_ssn
        /\ unordered_sets' = unordered_sets
    BY <1>5 DEF ReadOrdered
  <2>2. x \in Ssns
    BY <2>1, FirstHeld DEF Held
  <2> HIDE DEF x
  <2> PICK e \in 1 .. Len(sent) : Ends(messages, sent[e]) /\ R = Whole(sent, e)
    BY <2>1, <2>2, OrderedComplete
  <2>3. /\ Cardinality(R) \in Nat /\ Cardinality(R) <= n_bytes /\ n_bytes \in Nat
        /\ QueueInv(messages, sent, Arrived, IF x = next_ssn THEN NextSsn(x) ELSE next_ssn,
                    [ordered EXCEPT ![x] = {}], unordered_chunks, unordered_sets,
                    n_bytes - Cardinality(R), Append(delivered, MessageOf(messages, sent[e].msg)))
    BY <1>1, <2>1, <2>2, ReadInOrder
  <2> HIDE DEF R
  <2>4. Contents(R) = MessageOf(messages, sent[e].msg)
    BY <1>1, WholeContents DEF MessageOf
  <2>5. n_bytes' = n_bytes - Cardinality(R)
    BY <2>1, <2>3, SubtractFacts
  <2> QED BY <1>1, <1>2, <1>3, <2>1, <2>3, <2>4, <2>5 DEF ReceiverInv
<1> QED BY <1>4, <1>5 DEF Read

\* Where a FORWARD TSN stops a message ends.
LEMMA ForwardEnds ==
    ASSUME SenderInv, ReceiverInv, NEW t \in Forwards
    PROVE  t \in 1 .. Len(sent) /\ Ends(messages, sent[t])
<1>1. /\ messages \in Seq(Message) /\ SentOk(messages, sent) /\ Len(sent) \in Nat
      /\ peer_last_tsn \in 0 .. Len(sent)
  BY ReceiverFacts
<1>2. t \in 1 .. Len(sent) /\ t > peer_last_tsn
  BY DEF Forwards, Tsns
<1>3. sent[t].msg \in abandoned /\ (t < Len(sent) => sent[t + 1].msg # sent[t].msg)
  <2>1. t \in (peer_last_tsn + 1) .. t
    BY <1>1, <1>2
  <2> QED BY <2>1 DEF Forwards
<1> DEFINE m == sent[t].msg
<1>4. PICK e \in 1 .. Len(sent) : sent[e] = Last(messages, m)
  BY <1>3 DEF SenderInv, AbandonedOk
<1>5. sent[e].msg = m /\ sent[e].n = messages[m].len /\ Ends(messages, sent[e])
  BY <1>4 DEF Last, Ends
<1>6. sent[t].n <= messages[m].len /\ sent[t].n \in Nat /\ messages[m].len \in Nat
  BY <1>1, <1>2, SentAt
<1>7. e - t = sent[e].n - sent[t].n
  BY <1>1, <1>2, <1>5, SamePlace
<1>8. t <= e
  <2> HIDE DEF m
  <2> QED BY <1>2, <1>4, <1>5, <1>6, <1>7
<1>9. ~(t < e)
  <2> SUFFICES ASSUME t < e PROVE FALSE
    OBVIOUS
  <2>1. t + 1 \in 1 .. Len(sent) /\ t < Len(sent)
    BY <1>1, <1>2
  <2>2. t \in Whole(sent, e)
    BY <1>1, <1>2, <1>5, WholeFacts
  <2>3. t + 1 \in Whole(sent, e)
    <3>1. sent[e].n \in Nat
      BY <1>1, SentAt
    <3>2. e \in Nat /\ t \in Nat
      BY <1>1, <1>2
    <3> QED BY <2>2, <3>1, <3>2 DEF Whole
  <2>4. sent[t + 1].msg = sent[e].msg
    BY <1>1, <1>5, <2>1, <2>3, WholeFacts
  <2> QED BY <1>3, <1>5, <2>1, <2>4
<1> QED BY <1>2, <1>5, <1>8, <1>9

\* The ordered messages up to that of a chunk that was sent with its end have
\* all been sent.
LEMMA EndsSent ==
    ASSUME SenderInv, NEW t \in 1 .. Len(sent), Ends(messages, sent[t]), KindIn(messages, sent[t]) = "ordered"
    PROVE  AllSentTo(messages, sent, t)
<1> SUFFICES ASSUME NEW i \in 1 .. Len(messages), ~messages[i].unordered,
                    NumberIn(messages, i) <= NumberIn(messages, sent[t].msg),
                    ~\E u \in 1 .. Len(sent) : sent[u] = Last(messages, i)
             PROVE  FALSE
  BY DEF AllSentTo
<1> DEFINE r == Rest["ordered"]
           m == sent[t].msg
<1>1. /\ messages \in Seq(Message) /\ SentOk(messages, sent)
      /\ EndsKept(messages, sent, Rest) /\ Awaits(messages, sent, "ordered", r)
  BY DEF SenderInv, Numbered, Kinds
<1>2. KindOf(messages[i]) = "ordered"
  BY DEF KindOf
<1>3. PICK j \in 1 .. Len(r) : r[j] = Last(messages, i)
  BY <1>1, <1>2 DEF EndsKept
<1>4. Before(sent[t], Last(messages, i))
  BY <1>1, <1>3 DEF Awaits
<1>5. /\ m \in Nat \ {0} /\ sent[t].n \in Nat /\ sent[t].n = messages[m].len /\ i \in Nat
      /\ m \in 1 .. Len(messages)
  <2>1. m \in Nat \ {0} /\ sent[t].n \in Nat /\ m \in 1 .. Len(messages)
    BY <1>1, SentAt
  <2>2. i \in Nat
    BY <1>1
  <2> QED BY <2>1, <2>2 DEF Ends
<1>6. m < i \/ (m = i /\ sent[t].n < messages[i].len)
  BY <1>4 DEF Before, Last
<1> HIDE DEF m
<1>7. m < i
  BY <1>5, <1>6
<1>8. NumberIn(messages, m) < NumberIn(messages, i)
  BY <1>5, <1>7, NumberGrows
<1>9. NumberIn(messages, m) \in Nat /\ NumberIn(messages, i) \in Nat
  BY <1>5, NumberNat
<1> QED BY <1>8, <1>9 DEF m

LEMMA ForwardStep ==
    ASSUME SenderInv, ReceiverInv, NEW t \in Tsns, HandleForwardTsn(t)
    PROVE  ReceiverInv'
<1>1. /\ Sending(messages, sent, unordered) /\ messages \in Seq(Message) /\ SentOk(messages, sent)
      /\ Len(sent) \in Nat /\ peer_last_tsn \in 0 .. Len(sent) /\ payload_queue \in SUBSET (1 .. Len(sent))
      /\ Arrived \in SUBSET (1 .. Len(sent)) /\ peer_last_tsn + 1 \notin Arrived
      /\ \A x \in Ssns : ordered[x] \in SUBSET (1 .. Len(sent))
  BY ReceiverFacts
<1>2. QueueInv(messages, sent, Arrived, next_ssn, ordered, unordered_chunks, unordered_sets,
               n_bytes, delivered)
  BY DEF ReceiverInv
<1>3. /\ t \in Forwards /\ Advance(t, {u \in payload_queue : u > t})
      /\ (IF unordered THEN ForwardUnordered(t) ELSE ForwardOrdered(Ssn(sent[t])))
      /\ UNCHANGED <<messages, sent, unordered_sets, delivered>>
  BY DEF HandleForwardTsn, snd_vars
<1>4. t \in 1 .. Len(sent) /\ Ends(messages, sent[t])
  BY <1>3, ForwardEnds
<1>5. t > peer_last_tsn /\ \A u \in (peer_last_tsn + 1) .. t : sent[u].msg \in abandoned
  BY <1>3 DEF Forwards
<1> DEFINE q == {u \in payload_queue : u > t}
<1>6. q \in SUBSET (1 .. Len(sent)) /\ t \in 0 .. Len(sent) /\ sent' = sent
  <2>1. t \in 0 .. Len(sent)
    BY <1>1, <1>4
  <2> QED BY <1>1, <1>3, <2>1
<1>7. ReceivedOk(sent', peer_last_tsn', payload_queue') /\ Arrived' = (1 .. t) \cup q
  <2> HIDE DEF q
  <2>1. Advance(t, q)
    BY <1>3 DEF q
  <2> QED BY <1>1, <1>6, <2>1, AdvanceFacts
<1>8. Arrived' = Arrived \cup (1 .. t)
  <2>1. \A u \in payload_queue : u \in 1 .. t \/ u > t
    BY <1>1, <1>4
  <2>2. 1 .. peer_last_tsn \subseteq 1 .. t
    BY <1>1, <1>4, <1>5
  <2> QED BY <1>7, <2>1, <2>2 DEF Arrived
<1>9. ASSUME NEW u \in 1 .. t, u \notin Arrived PROVE u \in (peer_last_tsn + 1) .. t
  BY <1>1, <1>4, <1>9 DEF Arrived
<1> HIDE DEF q
<1>10. QueueInv(messages, sent, Arrived \cup (1 .. t), next_ssn', ordered', unordered_chunks', unordered_sets,
                n_bytes', delivered)
  <2>1. CASE unordered
    <3> DEFINE gone == UpTo(unordered_chunks, t)
    <3>1. /\ unordered_chunks' = unordered_chunks \ gone /\ n_bytes' = Subtract(Cardinality(gone))
          /\ ordered' = ordered /\ next_ssn' = next_ssn
      BY <1>3, <2>1 DEF ForwardUnordered, Released, UpTo
    <3>2. KindsTo(messages, sent, Arrived, t, "unordered")
      <4> SUFFICES ASSUME NEW u \in 1 .. t, u \notin Arrived PROVE KindIn(messages, sent[u]) = "unordered"
        BY DEF KindsTo
      <4>1. sent[u].msg \in abandoned
        BY <1>5, <1>9
      <4>2. sent[u].msg \in 1 .. Len(messages) /\ ~messages[sent[u].msg].dcep
        BY <4>1 DEF SenderInv, AbandonedOk
      <4>3. messages[sent[u].msg].unordered
        BY <2>1, <4>2 DEF SenderInv, Numbered
      <4> QED BY <4>3 DEF KindIn, KindOf
    <3>3. gone = UpTo(unordered_chunks, t)
      OBVIOUS
    <3> HIDE DEF gone
    <3>4. /\ Cardinality(gone) \in Nat /\ Cardinality(gone) <= n_bytes /\ n_bytes \in Nat
          /\ QueueInv(messages, sent, Arrived \cup (1 .. t), next_ssn, ordered, unordered_chunks \ gone,
                      unordered_sets, n_bytes - Cardinality(gone), delivered)
      <4>1. Sending(messages, sent, unordered)
        BY <1>1
      <4> QED BY <4>1, <1>2, <1>4, <3>2, <3>3, PassUnordered
    <3>5. n_bytes' = n_bytes - Cardinality(gone)
      BY <3>1, <3>4, SubtractFacts
    <3> QED BY <3>1, <3>4, <3>5
  <2>2. CASE ~unordered
    <3> DEFINE last == messages[sent[t].msg].ssn
               dropped == DroppedOrdered(last)
               gone == SetsOf(ordered, dropped)
    <3>1. /\ ordered' = Without(ordered, dropped)
          /\ n_bytes' = Subtract(Cardinality(gone))
          /\ next_ssn' = IF Lte(next_ssn, last) THEN NextSsn(last) ELSE next_ssn
          /\ unordered_chunks' = unordered_chunks
      BY <1>3, <2>2 DEF ForwardOrdered, Ssn, Without, SetsOf
    <3>2. \A u \in 1 .. Len(sent) : KindIn(messages, sent[u]) = "ordered"
      <4> SUFFICES ASSUME NEW u \in 1 .. Len(sent) PROVE KindIn(messages, sent[u]) = "ordered"
        OBVIOUS
      <4>1. sent[u].msg \in 1 .. Len(messages)
        BY <1>1, SentAt
      <4>2. ~messages[sent[u].msg].unordered
        BY <2>2, <4>1 DEF SenderInv, Numbered
      <4> QED BY <4>2 DEF KindIn, KindOf
    <3>3. KindsTo(messages, sent, {}, t, "ordered")
      <4>1. \A u \in 1 .. t : u \in 1 .. Len(sent)
        BY <1>1, <1>4
      <4> QED BY <3>2, <4>1 DEF KindsTo
    <3>4. \E u \in 1 .. t : u \notin Arrived
      <4>1. peer_last_tsn + 1 \in 1 .. t
        BY <1>1, <1>4, <1>5
      <4> QED BY <1>1, <4>1
    <3>5. AllSentTo(messages, sent, t)
      BY <1>4, <3>2, EndsSent
    <3>6. Drops(messages, sent, ordered, last, dropped) /\ gone = SetsOf(ordered, dropped)
      <4>1. \A x \in Ssns : x \in dropped <=> ordered[x] # {} /\ Lte(x, last) /\ ~IsComplete(ordered[x])
        BY DEF DroppedOrdered, Held
      <4>2. dropped \in SUBSET Ssns
        BY DEF DroppedOrdered, Held
      <4> HIDE DEF dropped
      <4> QED BY <4>1, <4>2, OrderedComplete DEF Drops
    <3> HIDE DEF dropped, gone
    <3>7. /\ Lte(next_ssn, last)
          /\ Cardinality(gone) \in Nat /\ Cardinality(gone) <= n_bytes /\ n_bytes \in Nat
          /\ QueueInv(messages, sent, Arrived \cup (1 .. t), NextSsn(last),
                      Without(ordered, dropped), unordered_chunks, unordered_sets, n_bytes - Cardinality(gone), delivered)
      <4>1. Sending(messages, sent, unordered)
        BY <1>1
      <4> QED BY <4>1, <1>2, <1>4, <3>3, <3>4, <3>5, <3>6, PassOrdered
    <3> HIDE DEF last
    <3>8. n_bytes' = n_bytes - Cardinality(gone)
      BY <3>1, <3>7, SubtractFacts
    <3> QED BY <3>1, <3>7, <3>8
  <2> QED BY <2>1, <2>2
<1> QED BY <1>3, <1>7, <1>8, <1>10 DEF ReceiverInv

-----------------------------------------------------------------------------
(* The steps of the sender, and the invariant.                             *)

LEMMA WriteStep ==
    ASSUME SenderInv, ReceiverInv, NEW m, Wrote(m)
    PROVE  ReceiverInv'
<1>1. /\ m \in Message /\ messages' = Append(messages, m) /\ sent' = sent /\ UNCHANGED rcv_vars
      /\ \A x \in Held \cup {next_ssn} : (sequence_number + 1 - x) % SsnSpace < SsnHalf
  BY DEF Wrote
<1>2. /\ Sending(messages, sent, unordered) /\ sequence_number = Wrap(NumberIn(messages, Len(messages)))
      /\ ReceivedOk(sent, peer_last_tsn, payload_queue)
      /\ QueueInv(messages, sent, Arrived, next_ssn, ordered, unordered_chunks, unordered_sets,
                  n_bytes, delivered)
  BY ReceiverFacts DEF ReceiverInv, SenderInv, Numbered
<1>3. /\ \A x \in Ssns : ordered[x] # {} =>
              (Wrap(NumberIn(messages, Len(messages))) + 1 - x) % SsnSpace < SsnHalf
      /\ (Wrap(NumberIn(messages, Len(messages))) + 1 - next_ssn) % SsnSpace < SsnHalf
  BY <1>1, <1>2 DEF Held
<1>4. QueueInv(Append(messages, m), sent, Arrived, next_ssn, ordered, unordered_chunks, unordered_sets,
               n_bytes, delivered)
  BY <1>1, <1>2, <1>3, QueueWritten
<1>5. Arrived' = Arrived
  BY <1>1 DEF Arrived, rcv_vars
<1> QED BY <1>1, <1>2, <1>4, <1>5 DEF ReceiverInv, rcv_vars

LEMMA MoveStep ==
    ASSUME OneWriter, SenderInv, ReceiverInv, MovePending
    PROVE  ReceiverInv'
<1>1. PICK c \in Fragment : /\ sent' = Append(sent, c) /\ UNCHANGED <<messages, rcv_vars>>
  BY MoveFacts
<1>2. /\ Sending(messages, sent, unordered) /\ SentOk(messages, sent)
      /\ Len(sent) \in Nat /\ sent \in Seq(Fragment)
      /\ ReceivedOk(sent, peer_last_tsn, payload_queue)
      /\ QueueInv(messages, sent, Arrived, next_ssn, ordered, unordered_chunks, unordered_sets,
                  n_bytes, delivered)
  BY ReceiverFacts, SentLen DEF ReceiverInv
<1>3. SentOk(messages, Append(sent, c))
  <2>1. SentOk(messages', sent')
    BY MoveKeeps DEF SenderInv
  <2> QED BY <1>1, <2>1
<1>4. QueueInv(messages, Append(sent, c), Arrived, next_ssn, ordered, unordered_chunks, unordered_sets,
               n_bytes, delivered)
  BY <1>2, <1>3, QueueSent
<1>5. ReceivedOk(Append(sent, c), peer_last_tsn, payload_queue)
  <2>1. Len(Append(sent, c)) = Len(sent) + 1
    BY <1>2
  <2> QED BY <1>2, <2>1 DEF ReceivedOk
<1>6. Arrived' = Arrived
  BY <1>1 DEF Arrived, rcv_vars
<1> QED BY <1>1, <1>4, <1>5, <1>6 DEF ReceiverInv, rcv_vars

LEMMA ReceiverSame == ReceiverInv /\ UNCHANGED <<messages, sent, rcv_vars>> => ReceiverInv'
<1> SUFFICES ASSUME ReceiverInv, UNCHANGED <<messages, sent, rcv_vars>> PROVE ReceiverInv'
  OBVIOUS
<1>1. Arrived' = Arrived
  BY DEF Arrived, rcv_vars
<1> QED BY <1>1 DEF ReceiverInv, rcv_vars

LEMMA ReceiverNext ==
    ASSUME OneWriter, SenderInv, ReceiverInv, [Next]_vars
    PROVE  ReceiverInv'
<1>1. ASSUME NEW w \in Writers, Write(w) PROVE ReceiverInv'
  BY <1>1, WriteFacts, WriteStep
<1>2. ASSUME NEW w \in Writers, Push(w) PROVE ReceiverInv'
  BY <1>2, ReceiverSame DEF Push
<1>3. CASE MovePending
  BY <1>3, MoveStep
<1>4. ASSUME NEW i \in 1 .. Len(messages), Abandon(i) PROVE ReceiverInv'
  BY <1>4, ReceiverSame DEF Abandon
<1>5. ASSUME NEW t \in Tsns, HandleData(t) \/ HandleForwardTsn(t) PROVE ReceiverInv'
  BY <1>5, DataStep, ForwardStep
<1>6. CASE Read
  BY <1>6, ReadStep
<1>7. CASE UNCHANGED vars
  BY <1>7, ReceiverSame DEF vars, snd_vars
<1> QED BY <1>1, <1>2, <1>3, <1>4, <1>5, <1>6, <1>7 DEF Next

LEMMA ReceiverInit == ASSUME Init PROVE ReceiverInv
<1>1. /\ messages = <<>> /\ sent = <<>> /\ peer_last_tsn = 0 /\ payload_queue = {} /\ next_ssn = FirstSsn
      /\ ordered = [x \in Ssns |-> {}] /\ unordered_chunks = {} /\ unordered_sets = <<>>
      /\ n_bytes = 0 /\ delivered = <<>>
  BY DEF Init
<1>2. Arrived = {}
  BY <1>1 DEF Arrived
<1>3. ReceivedOk(sent, peer_last_tsn, payload_queue)
  BY <1>1 DEF ReceivedOk
<1>4. HeldIn(ordered, unordered_chunks, unordered_sets) = {}
  BY <1>1 DEF HeldIn
<1>5. Cardinality({}) = 0
  BY FS_EmptySet
<1>6. NextIs(messages, sent, {}, next_ssn, 0)
  <2>1. NumberIn(messages, 0) = 0 /\ 0 \in Nat
    BY NumberFacts
  <2>2. Wrap(0) = FirstSsn /\ SsnHalf \in Nat \ {0}
    BY <2>1, WrapFacts, SpaceFacts
  <2>3. Len(messages) = 0 /\ Len(sent) = 0
    BY <1>1
  <2>4. PassedOk(messages, sent, {}, 0)
    BY <2>3 DEF PassedOk
  <2> QED BY <1>1, <2>1, <2>2, <2>3, <2>4 DEF NextIs
<1>7. OrderedOk(messages, sent, {}, ordered) /\ NearOk(messages, sent, ordered)
  BY <1>1 DEF OrderedOk, NearOk
<1>8. SetsOk(messages, sent, {}, unordered_chunks, unordered_sets)
  BY <1>1 DEF SetsOk
<1>9. DeliveredOk(messages, sent, {}, {}, delivered)
  BY <1>1 DEF DeliveredOk
<1>10. Together(messages, sent, {}, ordered, unordered_chunks) /\ LooseOk(messages, sent, unordered_chunks)
  BY <1>1 DEF Together, LooseOk
<1>11. \E n \in Nat : NextIs(messages, sent, {}, next_ssn, n)
  BY <1>6
<1>12. QueueInv(messages, sent, {}, next_ssn, ordered, unordered_chunks, unordered_sets, n_bytes, delivered)
  BY <1>1, <1>4, <1>5, <1>7, <1>8, <1>9, <1>10, <1>11 DEF QueueInv
<1> QED BY <1>2, <1>3, <1>12 DEF ReceiverInv

LEMMA ReceiverAlways == ASSUME OneWriter PROVE Spec => [](SenderInv /\ ReceiverInv)
<1>1. Init => SenderInv /\ ReceiverInv
  BY SenderInit, ReceiverInit
<1>2. SenderInv /\ ReceiverInv /\ [Next]_vars => SenderInv' /\ ReceiverInv'
  BY SenderNext, ReceiverNext
<1> QED BY <1>1, <1>2, PTL DEF Spec

-----------------------------------------------------------------------------
(* What the reassembly queue promises.                                     *)

\* n_bytes, which the receive window is computed from, is the number of chunks
\* that are held: nothing is counted twice when chunks are pushed, and nothing
\* is left of what was read or what a FORWARD TSN dropped.
THEOREM BytesAreExact == ASSUME OneWriter PROVE Spec => []BytesExact
<1>1. HeldChunks = HeldIn(ordered, unordered_chunks, unordered_sets)
  BY DEF HeldChunks, HeldIn
<1>2. ReceiverInv => BytesExact
  BY <1>1 DEF ReceiverInv, QueueInv, BytesExact
<1> QED BY <1>2, ReceiverAlways, PTL

\* Every read returns the fragments of one message, all of them and in order, and
\* no message is returned twice, though SSNs wrap and incomplete sets of the same
\* SSN may have been dropped.
THEOREM WholeMessagesRead == ASSUME OneWriter PROVE Spec => []ReadsWholeMessages
<1>1. ReceiverInv => ReadsWholeMessages
  <2> SUFFICES ASSUME ReceiverInv PROVE ReadsWholeMessages
    OBVIOUS
  <2>1. DeliveredOk(messages, sent, Arrived, HeldIn(ordered, unordered_chunks, unordered_sets), delivered)
    BY DEF ReceiverInv, QueueInv
  <2> QED BY <2>1 DEF DeliveredOk, ReadsWholeMessages
<1> QED BY <1>1, ReceiverAlways, PTL

\* When all was sent and passed, every message whose last chunk was held by the
\* reassembly queue is held whole.
LEMMA HeldWhole ==
    ASSUME SenderInv, ReceiverInv, NEW u \in Arrived, Arrived = 1 .. Len(sent),
           \A i \in 1 .. Len(messages) : \E e \in 1 .. Len(sent) : sent[e] = Last(messages, i),
           InPlace(messages, sent, ordered, unordered_chunks, u)
    PROVE  \E e \in 1 .. Len(sent) :
              /\ Ends(messages, sent[e]) /\ u \in Whole(sent, e)
              /\ \A v \in Whole(sent, e) : InPlace(messages, sent, ordered, unordered_chunks, v)
<1>1. /\ messages \in Seq(Message) /\ SentOk(messages, sent) /\ u \in 1 .. Len(sent)
      /\ Together(messages, sent, Arrived, ordered, unordered_chunks)
  BY ReceiverFacts DEF ReceiverInv, QueueInv
<1>2. sent[u].msg \in 1 .. Len(messages)
  BY <1>1, SentAt
<1>3. PICK e \in 1 .. Len(sent) : sent[e] = Last(messages, sent[u].msg)
  BY <1>2
<1>4. sent[e].msg = sent[u].msg /\ Ends(messages, sent[e])
  BY <1>3 DEF Last, Ends
<1>5. u \in Whole(sent, e)
  BY <1>1, <1>4, WholeFacts
<1>6. ASSUME NEW v \in Whole(sent, e), ~InPlace(messages, sent, ordered, unordered_chunks, v) PROVE FALSE
  <2>1. v \in 1 .. Len(sent) /\ sent[v].msg = sent[u].msg
    BY <1>1, <1>4, WholeFacts
  <2>2. PICK d \in Arrived :
           /\ Ends(messages, sent[d]) /\ v \in Whole(sent, d)
           /\ \A t \in Whole(sent, d) : ~InPlace(messages, sent, ordered, unordered_chunks, t)
    BY <1>1, <1>6, <2>1 DEF Together
  <2>3. sent[v].msg = sent[d].msg
    BY <1>1, <2>1, <2>2, WholeFacts
  <2>4. u \in Whole(sent, d)
    BY <1>1, <2>1, <2>2, <2>3, WholeFacts
  <2> QED BY <2>2, <2>4
<1> QED BY <1>4, <1>5, <1>6

\* When everything that was written has been sent and the cumulative TSN has
\* passed it, the reassembly queue holds complete messages only: a message that
\* was given up leaves no fragment behind that would take receive window for ever.
THEOREM NothingIsStranded == ASSUME OneWriter PROVE Spec => []NothingStranded
<1>1. SenderInv /\ ReceiverInv => NothingStranded
  <2> SUFFICES ASSUME SenderInv, ReceiverInv, \A w \in Writers : pushing[w] = <<>>,
                      \A k \in Kinds : queue[k] = <<>>, peer_last_tsn = Len(sent)
               PROVE  unordered_chunks = {} /\ \A s \in Held : IsComplete(ordered[s])
    BY DEF NothingStranded, Kinds
  <2>1. /\ messages \in Seq(Message) /\ SentOk(messages, sent) /\ Len(sent) \in Nat
        /\ Sending(messages, sent, unordered)
        /\ payload_queue \in SUBSET (1 .. Len(sent))
        /\ Arrived \in SUBSET (1 .. Len(sent))
        /\ OrderedOk(messages, sent, Arrived, ordered) /\ NearOk(messages, sent, ordered)
        /\ SetsOk(messages, sent, Arrived, unordered_chunks, unordered_sets)
        /\ LooseOk(messages, sent, unordered_chunks)
    BY ReceiverFacts DEF ReceiverInv, QueueInv
  <2>2. Arrived = 1 .. Len(sent)
    BY <2>1 DEF Arrived
  <2>3. \A k \in Kinds : Rest[k] = <<>>
    <3> SUFFICES ASSUME NEW k \in Kinds PROVE Rest[k] = <<>>
      OBVIOUS
    <3>1. W \in Writers /\ pushing[W] = <<>> /\ queue[k] = <<>>
      BY TheWriter
    <3>2. queue[k] \o Unpushed(k) = <<>>
      BY <3>1, Concatenated DEF Unpushed
    <3> QED BY <3>2 DEF Rest
  <2>4. \A i \in 1 .. Len(messages) : \E e \in 1 .. Len(sent) : sent[e] = Last(messages, i)
    <3> SUFFICES ASSUME NEW i \in 1 .. Len(messages) PROVE \E e \in 1 .. Len(sent) : sent[e] = Last(messages, i)
      OBVIOUS
    <3>1. KindOf(messages[i]) \in Kinds
      BY DEF KindOf, Kinds
    <3>2. Rest[KindOf(messages[i])] = <<>>
      BY <2>3, <3>1
    <3>3. ~\E j \in 1 .. Len(Rest[KindOf(messages[i])]) :
              Rest[KindOf(messages[i])][j] = Last(messages, i)
      BY <3>2
    <3> QED BY <3>3 DEF SenderInv, EndsKept
  <2>5. ASSUME NEW u \in unordered_chunks PROVE FALSE
    <3>1. u \in Arrived /\ KindIn(messages, sent[u]) = "unordered"
      BY <2>1 DEF SetsOk
    <3>2. InPlace(messages, sent, ordered, unordered_chunks, u)
      BY <3>1 DEF InPlace
    <3>3. PICK e \in 1 .. Len(sent) :
              /\ Ends(messages, sent[e]) /\ u \in Whole(sent, e)
              /\ \A v \in Whole(sent, e) : InPlace(messages, sent, ordered, unordered_chunks, v)
      BY <2>2, <2>4, <3>1, <3>2, HeldWhole
    <3>4. \A v \in Whole(sent, e) : KindIn(messages, sent[v]) = "unordered"
      BY <2>1, <3>1, <3>3, WholeFacts
    <3>5. Whole(sent, e) \subseteq unordered_chunks
      BY <3>3, <3>4 DEF InPlace
    <3>6. e \in Whole(sent, e)
      BY <2>1, <3>3, WholeFacts
    <3> QED BY <2>1, <3>3, <3>5, <3>6 DEF LooseOk
  <2>6. ASSUME NEW x \in Held PROVE IsComplete(ordered[x])
    <3>1. x \in Ssns /\ ordered[x] # {}
      BY DEF Held
    <3> PICK u \in ordered[x] : TRUE
      BY <3>1
    <3>2. u \in Arrived /\ KindIn(messages, sent[u]) = "ordered" /\ messages[sent[u].msg].ssn = x
      BY <2>1, <3>1 DEF OrderedOk
    <3>3. InPlace(messages, sent, ordered, unordered_chunks, u)
      BY <3>2 DEF InPlace
    <3>4. PICK e \in 1 .. Len(sent) :
              /\ Ends(messages, sent[e]) /\ u \in Whole(sent, e)
              /\ \A v \in Whole(sent, e) : InPlace(messages, sent, ordered, unordered_chunks, v)
      BY <2>2, <2>4, <3>2, <3>3, HeldWhole
    <3>5. \A v \in Whole(sent, e) : sent[v].msg = sent[u].msg
      BY <2>1, <3>4, WholeFacts
    <3>6. Whole(sent, e) \subseteq ordered[x]
      BY <3>2, <3>4, <3>5 DEF InPlace, KindIn
    <3>7. Apart(sent, ordered)
      BY <2>1, OneMessage
    <3>8. ASSUME NEW v \in ordered[x] PROVE v \in Whole(sent, e)
      <4>1. v \in 1 .. Len(sent)
        BY <2>1, <3>1 DEF OrderedOk
      <4>2. sent[v].msg = sent[u].msg
        BY <3>1, <3>7 DEF Apart
      <4>3. sent[u].msg = sent[e].msg
        BY <2>1, <2>2, <3>2, <3>4, WholeFacts
      <4> QED BY <2>1, <3>4, <4>1, <4>2, <4>3, WholeFacts
    <3>9. ordered[x] = Whole(sent, e)
      BY <3>6, <3>8
    <3> QED BY <3>1, <3>4, <3>9, OrderedComplete
  <2> QED BY <2>5, <2>6
<1> QED BY <1>1, ReceiverAlways, PTL

\* A valid fragment is a chunk within the bounds.
LEMMA ValidChunk ==
    ASSUME NEW ms \in Seq(Message), Len(ms) <= MaxMsgs, NEW c, ValidIn(ms, c)
    PROVE  c \in Chunk
<1>1. c \in Fragment /\ c.msg <= Len(ms) /\ c.n <= ms[c.msg].len
  BY DEF ValidIn
<1>2. c = [msg |-> c.msg, n |-> c.n] /\ c.msg \in Nat \ {0} /\ c.n \in Nat \ {0}
  BY <1>1 DEF Fragment
<1>3. Len(ms) \in Nat /\ MaxMsgs \in Nat /\ MaxLen \in Nat
  BY FragmentsAssumption
<1>4. c.msg \in 1 .. Len(ms) /\ c.msg \in 1 .. MaxMsgs
  BY <1>1, <1>2, <1>3
<1>5. ms[c.msg].len \in Nat /\ ms[c.msg].len <= MaxLen
  BY <1>4, MessageTypes
<1>6. c.n \in 1 .. MaxLen
  BY <1>1, <1>2, <1>3, <1>5
<1>7. [msg |-> c.msg, n |-> c.n] \in Chunk
  BY <1>4, <1>6 DEF Chunk
<1> QED BY <1>2, <1>7

LEMMA Retyped ==
    ASSUME NEW S, NEW T, NEW q \in Seq(S), \A i \in 1 .. Len(q) : q[i] \in T
    PROVE  q \in Seq(T)
  OBVIOUS

LEMMA SenderTyped ==
    ASSUME OneWriter, SenderInv
    PROVE  /\ messages \in Seq(Message) /\ Len(messages) \in Nat /\ Len(messages) <= MaxMsgs
           /\ sequence_number \in Ssns
           /\ pushing \in [Writers -> Seq(Chunk)] /\ queue \in [Kinds -> Seq(Chunk)]
           /\ sent \in Seq(Chunk)
<1>1. /\ messages \in Seq(Message) /\ Len(messages) <= MaxMsgs
      /\ sequence_number = Wrap(NumberIn(messages, Len(messages)))
      /\ queue \in [Kinds -> Seq(Fragment)] /\ pushing \in [Writers -> Seq(Fragment)]
      /\ \A k \in Kinds : ToSend(messages, k, Rest[k])
      /\ SentOk(messages, sent)
  BY DEF SenderInv, Numbered
<1>2. Len(messages) \in Nat
  BY <1>1
<1>3. sequence_number \in Ssns
  BY <1>1, <1>2, NumberNat, WrapFacts
<1>4. sent \in Seq(Chunk)
  <2>1. \A t \in 1 .. Len(sent) : sent[t] \in Chunk
    BY <1>1, ValidChunk DEF SentOk
  <2>2. sent \in Seq(Fragment)
    BY <1>1 DEF SentOk
  <2> QED BY <2>1, <2>2, Retyped
<1>5. ASSUME NEW k \in Kinds
      PROVE  queue[k] \in Seq(Chunk) /\ Unpushed(k) \in Seq(Chunk)
  <2> DEFINE q == queue[k]
             u == Unpushed(k)
             r == Rest[k]
  <2>1. q \in Seq(Fragment) /\ u \in Seq(Fragment) /\ r = q \o u
    BY RestTyped
  <2>2. \A i \in 1 .. Len(r) : r[i] \in Chunk
    BY <1>1, ValidChunk DEF ToSend
  <2> HIDE DEF q, u, r
  <2>3. /\ Len(r) = Len(q) + Len(u)
        /\ \A i \in 1 .. Len(q) : r[i] = q[i]
        /\ \A i \in 1 .. Len(u) : r[Len(q) + i] = u[i]
    BY <2>1, Concatenated
  <2>4. Len(q) \in Nat /\ Len(u) \in Nat
    BY <2>1
  <2>5. \A i \in 1 .. Len(q) : q[i] \in Chunk
    BY <2>2, <2>3, <2>4
  <2>6. \A i \in 1 .. Len(u) : u[i] \in Chunk
    <3> SUFFICES ASSUME NEW i \in 1 .. Len(u) PROVE u[i] \in Chunk
      OBVIOUS
    <3>1. Len(q) + i \in 1 .. Len(r)
      BY <2>3, <2>4
    <3> QED BY <2>2, <2>3, <3>1
  <2>7. q \in Seq(Chunk)
    BY <2>1, <2>5, Retyped
  <2>8. u \in Seq(Chunk)
    BY <2>1, <2>6, Retyped
  <2> QED BY <2>7, <2>8 DEF q, u
<1>6. queue \in [Kinds -> Seq(Chunk)]
  BY <1>1, <1>5
<1>7. pushing \in [Writers -> Seq(Chunk)]
  <2>1. pushing[W] \in Seq(Chunk)
    <3>1. CASE pushing[W] = <<>>
      BY <3>1
    <3>2. CASE pushing[W] # <<>>
      <4> DEFINE k == KindIn(messages, pushing[W][1])
      <4>1. k \in Kinds
        BY DEF KindIn, KindOf, Kinds
      <4>2. Unpushed(k) = pushing[W]
        BY <3>2 DEF Unpushed
      <4> HIDE DEF k
      <4> QED BY <1>5, <4>1, <4>2
    <3> QED BY <3>1, <3>2
  <2>2. \A w \in Writers : w = W
    BY TheWriter
  <2> QED BY <1>1, <2>1, <2>2
<1> QED BY <1>1, <1>2, <1>3, <1>4, <1>6, <1>7

\* Ordered chunks are kept by the SSN of their message, and an unordered chunk
\* is loose or in the set of its message.
LEMMA OnePlace == SenderInv /\ ReceiverInv => InOnePlace
<1> SUFFICES ASSUME SenderInv, ReceiverInv PROVE InOnePlace
  OBVIOUS
<1>1. /\ messages \in Seq(Message) /\ SentOk(messages, sent)
      /\ OrderedOk(messages, sent, Arrived, ordered)
      /\ SetsOk(messages, sent, Arrived, unordered_chunks, unordered_sets)
  BY ReceiverFacts
<1>2. \A x \in Ssns : \A t \in ordered[x] :
         KindIn(messages, sent[t]) = "ordered" /\ messages[sent[t].msg].ssn = x
  BY <1>1 DEF OrderedOk
<1>3. \A x, y \in Ssns : x # y => ordered[x] \cap ordered[y] = {}
  BY <1>2
<1>4. \A x \in Ssns : ordered[x] \cap unordered_chunks = {}
  <2>1. \A t \in unordered_chunks : KindIn(messages, sent[t]) = "unordered"
    BY <1>1 DEF SetsOk
  <2> QED BY <1>2, <2>1
<1>5. ASSUME NEW i \in 1 .. Len(unordered_sets)
      PROVE  /\ unordered_sets[i] \cap unordered_chunks = {}
             /\ \A j \in 1 .. Len(unordered_sets) :
                   i # j => unordered_sets[i] \cap unordered_sets[j] = {}
  BY <1>1 DEF SetsOk
<1>6. ASSUME NEW i \in 1 .. Len(unordered_sets), NEW x \in Ssns
      PROVE  unordered_sets[i] \cap ordered[x] = {}
  <2>1. PICK e \in 1 .. Len(sent) :
               /\ Ends(messages, sent[e]) /\ KindIn(messages, sent[e]) = "unordered"
               /\ unordered_sets[i] = Whole(sent, e)
    BY <1>1 DEF SetsOk
  <2>2. \A u \in Whole(sent, e) : KindIn(messages, sent[u]) = "unordered"
    BY <1>1, <2>1, WholeFacts
  <2> QED BY <1>2, <2>1, <2>2
<1> QED BY <1>3, <1>4, <1>5, <1>6 DEF InOnePlace

\* Every variable has its type: the SSNs stay in their space, and what the
\* reassembly queue holds are chunks that were sent, each in one place.
THEOREM TypeCorrect == ASSUME OneWriter PROVE Spec => []TypeOK
<1>1. SenderInv /\ ReceiverInv => TypeOK
  <2> SUFFICES ASSUME SenderInv, ReceiverInv PROVE TypeOK
    OBVIOUS
  <2>1. /\ unordered \in BOOLEAN /\ selected \in {"none", "ordered", "unordered"}
        /\ abandoned \subseteq 1 .. Len(messages)
    BY DEF SenderInv, SelectedOk, AbandonedOk
  <2>2. /\ messages \in Seq(Message) /\ Len(messages) \in Nat /\ Len(messages) <= MaxMsgs
        /\ sequence_number \in Ssns
        /\ pushing \in [Writers -> Seq(Chunk)] /\ queue \in [Kinds -> Seq(Chunk)]
        /\ sent \in Seq(Chunk)
    BY SenderTyped
  <2>3. /\ peer_last_tsn \in 0 .. Len(sent) /\ payload_queue \subseteq Tsns
        /\ unordered_chunks \subseteq Tsns /\ \A x \in Ssns : ordered[x] \subseteq Tsns
        /\ Arrived \subseteq Tsns /\ sent \in Seq(Fragment)
        /\ OrderedOk(messages, sent, Arrived, ordered)
        /\ SetsOk(messages, sent, Arrived, unordered_chunks, unordered_sets)
    BY ReceiverFacts, SentLen DEF Tsns
  <2>4. /\ n_bytes = Cardinality(HeldIn(ordered, unordered_chunks, unordered_sets))
        /\ DeliveredOk(messages, sent, Arrived, HeldIn(ordered, unordered_chunks, unordered_sets), delivered)
        /\ \E n \in Nat : next_ssn = Wrap(n)
    BY DEF ReceiverInv, QueueInv, NextIs
  <2>5. n_bytes \in Nat
    BY <2>3, <2>4, HeldArrived DEF Tsns
  <2>6. next_ssn \in Ssns
    BY <2>4, WrapFacts
  <2>7. ordered \in [Ssns -> SUBSET Tsns]
    BY <2>3 DEF OrderedOk
  <2>8. unordered_sets \in Seq(SUBSET Tsns)
    <3>1. unordered_sets \in Seq(SUBSET Nat)
      BY <2>3 DEF SetsOk
    <3>2. \A i \in 1 .. Len(unordered_sets) : unordered_sets[i] \subseteq Arrived
      BY <2>3 DEF SetsOk
    <3>3. \A i \in 1 .. Len(unordered_sets) : unordered_sets[i] \in SUBSET Tsns
      BY <2>3, <3>2
    <3> QED BY <3>1, <3>3, Retyped
  <2>9. delivered \in Seq(Seq(Chunk))
    <3>1. delivered \in Seq(Seq(Fragment))
      BY <2>4 DEF DeliveredOk
    <3>2. ASSUME NEW i \in 1 .. Len(delivered) PROVE delivered[i] \in Seq(Chunk)
      <4>1. PICK m \in 1 .. Len(messages) :
              delivered[i] = [n \in 1 .. messages[m].len |-> [msg |-> m, n |-> n]]
        BY <2>4 DEF DeliveredOk
      <4>2. messages[m] \in Message /\ m \in 1 .. MaxMsgs
        BY <2>2, FragmentsAssumption
      <4>3. messages[m].len \in Nat /\ messages[m].len <= MaxLen /\ MaxLen \in Nat
        BY <4>2, MessageTypes, FragmentsAssumption
      <4>4. \A n \in 1 .. messages[m].len : [msg |-> m, n |-> n] \in Chunk
        BY <4>2, <4>3 DEF Chunk
      <4>5. delivered[i] \in [1 .. messages[m].len -> Chunk]
        BY <4>1, <4>4
      <4> DEFINE d == delivered[i]
                 l == messages[m].len
      <4> HIDE DEF d, l
      <4>6. d \in [1 .. l -> Chunk] /\ l \in Nat
        BY <4>3, <4>5 DEF d, l
      <4>7. d \in Seq(Chunk)
        BY <4>6
      <4> QED BY <4>7 DEF d
    <3> QED BY <3>1, <3>2, Retyped
  <2>10. InOnePlace
    BY OnePlace
  <2> QED BY <2>1, <2>2, <2>3, <2>5, <2>6, <2>7, <2>8, <2>9, <2>10 DEF TypeOK, Kinds
<1> QED BY <1>1, ReceiverAlways, PTL

-----------------------------------------------------------------------------
(* Ordered messages are delivered as OrderedDelivery promises.  last is    *)
(* the number of the last ordered message that was read, n that of the     *)
(* last one that next_ssn has passed.                                      *)

\* next_ssn counts n ordered messages.
Counted(ms, next, n) ==
    /\ n \in Nat /\ next = Wrap(n)
    /\ n <= NumberIn(ms, Len(ms)) /\ NumberIn(ms, Len(ms)) - n < SsnHalf

\* What next_ssn has passed was given up, or is held and complete.
HeldWholly(ms, s, ord, i) == \E e \in 1 .. Len(s) : s[e] = Last(ms, i) /\ ord[ms[i].ssn] = Whole(s, e)
GivenUpOrHeld(ms, s, ord, ab, last, n) ==
    \A i \in 1 .. Len(ms) :
        ~ms[i].unordered /\ NumberIn(ms, i) > last /\ NumberIn(ms, i) <= n =>
            i \in ab \/ HeldWholly(ms, s, ord, i)

\* What has arrived of the messages that next_ssn has not passed is held.
NoneDropped(ms, s, A, ord, n) ==
    \A u \in A : KindIn(ms, s[u]) = "ordered" /\ NumberIn(ms, s[u].msg) > n => u \in ord[ms[s[u].msg].ssn]

\* What is held comes after what was read.
AfterRead(ms, s, ord, last) ==
    \A x \in Ssns : \A u \in ord[x] : NumberIn(ms, s[u].msg) > last

ReadsOk(ms, s, A, ord, ab, last, n) ==
    /\ last \in Nat /\ last <= n
    /\ GivenUpOrHeld(ms, s, ord, ab, last, n)
    /\ NoneDropped(ms, s, A, ord, n)
    /\ AfterRead(ms, s, ord, last)

\* next_ssn tells the count, since fewer than half of the circle are ahead.
LEMMA SameCount ==
    ASSUME NEW ms \in Seq(Message), NEW s, NEW A, NEW next, NEW n, NEW m,
           NextIs(ms, s, A, next, n), Counted(ms, next, m)
    PROVE  n = m
<1> DEFINE total == NumberIn(ms, Len(ms))
<1>1. total \in Nat
  BY NumberNat
<1>2. /\ n \in Nat /\ next = Wrap(n) /\ n <= total /\ total - n < SsnHalf
      /\ m \in Nat /\ next = Wrap(m) /\ m <= total /\ total - m < SsnHalf
  BY DEF NextIs, Counted
<1> HIDE DEF total
<1>3. n - m < SsnHalf /\ m - n < SsnHalf
  BY <1>1, <1>2, SpaceFacts
<1> QED BY <1>2, <1>3, WrapFacts

\* A chunk that has not arrived belongs to a message that next_ssn has not passed.
LEMMA AheadOf ==
    ASSUME NEW ms \in Seq(Message), NEW s, NEW A, NEW next, NEW ord, NEW uc, NEW us, NEW nb, NEW dl,
           QueueInv(ms, s, A, next, ord, uc, us, nb, dl), NEW n, Counted(ms, next, n)
    PROVE  NextIs(ms, s, A, next, n)
<1> PICK m \in Nat : NextIs(ms, s, A, next, m)
  BY DEF QueueInv
<1> QED BY SameCount

\* Ordered messages with the same number are the same.
LEMMA NumberTells ==
    ASSUME NEW ms \in Seq(Message), NEW i \in 1 .. Len(ms), NEW j \in 1 .. Len(ms),
           ~ms[i].unordered, ~ms[j].unordered, NumberIn(ms, i) = NumberIn(ms, j)
    PROVE  i = j
<1>1. i \in Nat \ {0} /\ j \in Nat \ {0}
  OBVIOUS
<1>2. NumberIn(ms, i) \in Nat /\ NumberIn(ms, j) \in Nat
  BY <1>1, NumberNat
<1>3. CASE i < j
  <2>1. NumberIn(ms, i) < NumberIn(ms, j)
    BY <1>1, <1>3, NumberGrows
  <2> QED BY <1>2, <2>1
<1>4. CASE j < i
  <2>1. NumberIn(ms, j) < NumberIn(ms, i)
    BY <1>1, <1>4, NumberGrows
  <2> QED BY <1>2, <2>1
<1> QED BY <1>1, <1>3, <1>4

\* The number of an ordered message is one of those given out.
LEMMA OrderedNumber ==
    ASSUME NEW ms \in Seq(Message), NEW i \in 1 .. Len(ms), ~ms[i].unordered
    PROVE  NumberIn(ms, i) \in 1 .. NumberIn(ms, Len(ms))
<1>1. Len(ms) \in Nat /\ i \in Nat /\ i \in 0 .. Len(ms) /\ 0 \in 0 .. i
  OBVIOUS
<1>2. NumberIn(ms, i) <= NumberIn(ms, Len(ms)) /\ NumberIn(ms, Len(ms)) \in Nat /\ NumberIn(ms, i) \in Nat
  <2>1. \A l \in 0 .. Len(ms) : NumberIn(ms, l) <= NumberIn(ms, Len(ms))
    BY <1>1, NumberFacts
  <2> QED BY <1>1, <2>1, NumberNat
<1> DEFINE p == i - 1
<1>3. p \in Nat /\ p + 1 = i /\ ~ms[p + 1].unordered
  BY <1>1
<1> HIDE DEF p
<1>4. NumberIn(ms, i) = NumberIn(ms, p) + 1 /\ NumberIn(ms, p) \in Nat
  <2>1. NumberIn(ms, p + 1) = NumberIn(ms, p) + 1
    BY <1>3, NumberFacts
  <2> QED BY <1>3, <2>1, NumberNat
<1> QED BY <1>2, <1>4

\* Every number up to the last belongs to an ordered message.
LEMMA NumberReached ==
    ASSUME NEW ms \in Seq(Message), NEW k \in Nat \ {0}, k <= NumberIn(ms, Len(ms))
    PROVE  \E i \in 1 .. Len(ms) : ~ms[i].unordered /\ NumberIn(ms, i) = k
<1> DEFINE S == {i \in 0 .. Len(ms) : k <= NumberIn(ms, i)}
<1>1. Len(ms) \in Nat
  OBVIOUS
<1>2. S \in SUBSET Nat /\ S # {}
  BY <1>1
<1>3. PICK i \in S : \A j \in S : i <= j
  BY <1>2, LeastNatural
<1>4. i \in 0 .. Len(ms) /\ k <= NumberIn(ms, i) /\ i \in Nat
  BY <1>3
<1>5. i # 0
  <2>1. NumberIn(ms, 0) \in 0 .. 0
    BY NumberFacts
  <2> QED BY <1>4, <2>1
<1> DEFINE p == i - 1
<1>6. p \in Nat /\ p + 1 = i /\ p \in 0 .. Len(ms)
  BY <1>1, <1>4, <1>5
<1> HIDE DEF p
<1>7. ~(k <= NumberIn(ms, p))
  BY <1>3, <1>4, <1>6
<1>8. NumberIn(ms, p + 1) = IF ms[p + 1].unordered THEN NumberIn(ms, p) ELSE NumberIn(ms, p) + 1
  BY <1>6, NumberFacts
<1>9. NumberIn(ms, p) \in Nat
  BY <1>6, NumberNat
<1>10. ~ms[i].unordered /\ NumberIn(ms, i) = k
  <2>1. ~ms[i].unordered
    BY <1>4, <1>6, <1>7, <1>8
  <2>2. NumberIn(ms, i) = NumberIn(ms, p) + 1
    BY <1>6, <1>8, <2>1
  <2> QED BY <1>4, <1>7, <1>9, <2>1, <2>2
<1> QED BY <1>1, <1>4, <1>5, <1>10

\* Writing a message changes nothing for those before it.
LEMMA ReadsWritten ==
    ASSUME NEW ms, NEW s, NEW un, Sending(ms, s, un), NEW A, A \subseteq 1 .. Len(s), NEW ord, OrderedOk(ms, s, A, ord),
           NEW next, NEW n, Counted(ms, next, n), NEW ab, NEW last, ReadsOk(ms, s, A, ord, ab, last, n),
           NEW m \in Message, (Wrap(NumberIn(ms, Len(ms))) + 1 - next) % SsnSpace < SsnHalf
    PROVE  Counted(Append(ms, m), next, n) /\ ReadsOk(Append(ms, m), s, A, ord, ab, last, n)
<1> DEFINE ms2 == Append(ms, m)
           total == NumberIn(ms, Len(ms))
           total2 == NumberIn(ms2, Len(ms2))
<1>1. ms \in Seq(Message) /\ SentOk(ms, s) /\ Len(ms) \in Nat /\ total \in Nat
  BY SendingFacts
<1>2. /\ Extends(ms, ms2) /\ ms2 \in Seq(Message) /\ Len(ms2) = Len(ms) + 1 /\ ms2[Len(ms) + 1] = m
      /\ total2 = IF m.unordered THEN total ELSE total + 1
  BY <1>1, AppendExtends
<1> HIDE DEF ms2
<1>3. ASSUME NEW t \in 1 .. Len(s)
      PROVE  /\ ms2[s[t].msg] = ms[s[t].msg] /\ KindIn(ms2, s[t]) = KindIn(ms, s[t])
             /\ NumberIn(ms2, s[t].msg) = NumberIn(ms, s[t].msg)
  <2>1. ValidIn(ms, s[t])
    BY <1>1, SentAt
  <2> QED BY <1>2, <2>1, ExtendedSame
<1>4. /\ \A i \in 0 .. Len(ms) : NumberIn(ms2, i) = NumberIn(ms, i)
      /\ \A i \in 1 .. Len(ms) : ms2[i] = ms[i] /\ Last(ms2, i) = Last(ms, i)
  BY <1>2, ExtendedSame
<1>5. n \in Nat /\ next = Wrap(n) /\ n <= total /\ total - n < SsnHalf
  BY DEF Counted
<1>6. total + 1 - n < SsnHalf
  <2>1. (Wrap(total) + 1 - next) % SsnSpace < SsnHalf
    OBVIOUS
  <2> HIDE DEF total
  <2>2. (Wrap(total) + 1 - Wrap(n)) % SsnSpace = total + 1 - n
    BY <1>1, <1>5, WrapFacts
  <2> QED BY <1>5, <2>1, <2>2
<1>7. Counted(ms2, next, n)
  <2>1. total2 = total \/ total2 = total + 1
    BY <1>2
  <2> HIDE DEF total, total2
  <2>2. n <= total2 /\ total2 - n < SsnHalf
    BY <1>1, <1>5, <1>6, <2>1, SpaceFacts
  <2> QED BY <1>5, <2>2 DEF Counted, total2
<1>8. GivenUpOrHeld(ms2, s, ord, ab, last, n)
  <2> SUFFICES ASSUME NEW i \in 1 .. Len(ms2), ~ms2[i].unordered,
                      NumberIn(ms2, i) > last, NumberIn(ms2, i) <= n
               PROVE  i \in ab \/ HeldWholly(ms2, s, ord, i)
    BY DEF GivenUpOrHeld
  <2>1. CASE i \in 1 .. Len(ms)
    <3>1. ms2[i] = ms[i] /\ Last(ms2, i) = Last(ms, i) /\ NumberIn(ms2, i) = NumberIn(ms, i)
      BY <1>1, <1>4, <2>1
    <3>2. i \in ab \/ HeldWholly(ms, s, ord, i)
      BY <2>1, <3>1 DEF ReadsOk, GivenUpOrHeld
    <3> QED BY <3>1, <3>2 DEF HeldWholly
  <2>2. CASE i = Len(ms) + 1
    <3>1. NumberIn(ms2, i) = total2 /\ ~m.unordered
      BY <1>2, <2>2
    <3>2. total2 = total + 1
      BY <1>2, <3>1
    <3> HIDE DEF total, total2
    <3> QED BY <1>1, <1>5, <3>1, <3>2
  <2> QED BY <1>1, <1>2, <2>1, <2>2
<1>9. NoneDropped(ms2, s, A, ord, n)
  BY <1>3 DEF ReadsOk, NoneDropped
<1>10. AfterRead(ms2, s, ord, last)
  BY <1>3 DEF ReadsOk, AfterRead, OrderedOk
<1> QED BY <1>7, <1>8, <1>9, <1>10 DEF ReadsOk, ms2

\* Sending a chunk changes nothing for those before it.
LEMMA ReadsSent ==
    ASSUME NEW ms, NEW s \in Seq(Fragment), NEW A, A \subseteq 1 .. Len(s), NEW ord, OrderedOk(ms, s, A, ord),
           NEW ab, NEW last, NEW n, ReadsOk(ms, s, A, ord, ab, last, n), NEW c \in Fragment
    PROVE  ReadsOk(ms, Append(s, c), A, ord, ab, last, n)
<1> DEFINE s2 == Append(s, c)
<1>1. Len(s2) = Len(s) + 1 /\ Len(s) \in Nat /\ \A t \in 1 .. Len(s) : s2[t] = s[t] /\ t \in 1 .. Len(s2)
  OBVIOUS
<1> HIDE DEF s2
<1>2. \A i : HeldWholly(ms, s, ord, i) => HeldWholly(ms, s2, ord, i)
  BY <1>1 DEF HeldWholly, Whole
<1>3. GivenUpOrHeld(ms, s2, ord, ab, last, n)
  BY <1>2 DEF ReadsOk, GivenUpOrHeld
<1>4. NoneDropped(ms, s2, A, ord, n)
  BY <1>1 DEF ReadsOk, NoneDropped
<1>5. AfterRead(ms, s2, ord, last)
  BY <1>1 DEF ReadsOk, AfterRead, OrderedOk
<1> QED BY <1>3, <1>4, <1>5 DEF ReadsOk, s2

\* Giving messages up changes nothing for the others.
LEMMA ReadsGivenUp ==
    ASSUME NEW ms, NEW s, NEW A, NEW ord, NEW ab, NEW last, NEW n, ReadsOk(ms, s, A, ord, ab, last, n),
           NEW ab2, ab \subseteq ab2
    PROVE  ReadsOk(ms, s, A, ord, ab2, last, n)
  BY DEF ReadsOk, GivenUpOrHeld

\* A chunk that arrives is put with those of its message.
LEMMA ReadsArrived ==
    ASSUME NEW ms, NEW s, NEW un, Sending(ms, s, un), NEW A, A \subseteq 1 .. Len(s), NEW ord, OrderedOk(ms, s, A, ord),
           NEW next, NEW n, NextIs(ms, s, A, next, n), NEW ab, NEW last, ReadsOk(ms, s, A, ord, ab, last, n),
           NEW x \in 1 .. Len(s), x \notin A, KindIn(ms, s[x]) = "ordered",
           NEW ord2, ord2 = [ord EXCEPT ![ms[s[x].msg].ssn] = @ \cup {x}],
           OrderedOk(ms, s, A \cup {x}, ord2), NearOk(ms, s, ord2)
    PROVE  ReadsOk(ms, s, A \cup {x}, ord2, ab, last, n)
<1> DEFINE y == ms[s[x].msg].ssn
           B == A \cup {x}
<1>1. ms \in Seq(Message) /\ SentOk(ms, s) /\ B \subseteq 1 .. Len(s)
  BY SendingFacts
<1>2. Apart(s, ord2)
  BY <1>1, OneMessage
<1>3. y \in Ssns /\ NumberIn(ms, s[x].msg) \in Nat
  BY ChunkNumber
<1>4. ord \in [Ssns -> SUBSET Nat]
  BY DEF OrderedOk
<1> HIDE DEF y
<1>5. ord2[y] = ord[y] \cup {x} /\ \A z \in Ssns : z # y => ord2[z] = ord[z]
  BY <1>3, <1>4 DEF y
<1>6. ASSUME NEW i \in 1 .. Len(ms), ~ms[i].unordered, HeldWholly(ms, s, ord, i) PROVE HeldWholly(ms, s, ord2, i)
  <2> PICK e \in 1 .. Len(s) : s[e] = Last(ms, i) /\ ord[ms[i].ssn] = Whole(s, e)
    BY <1>6 DEF HeldWholly
  <2>1. Ends(ms, s[e]) /\ s[e].msg = i
    BY DEF Ends, Last
  <2>2. e \in Whole(s, e)
    BY <1>1, <2>1, WholeFacts
  <2>3. ms[i].ssn \in Ssns
    <3>1. KindIn(ms, s[e]) = "ordered"
      BY <1>6, <2>1 DEF KindIn, KindOf
    <3> QED BY <2>1, <3>1, ChunkNumber
  <2>4. ms[i].ssn # y
    <3> SUFFICES ASSUME ms[i].ssn = y PROVE FALSE
      OBVIOUS
    <3>1. e \in ord2[y] /\ x \in ord2[y]
      BY <1>5, <2>2
    <3>2. s[x].msg = s[e].msg
      BY <1>2, <1>3, <3>1 DEF Apart
    <3>3. x \in Whole(s, e)
      BY <1>1, <2>1, <3>2, WholeFacts
    <3>4. x \in ord[y]
      BY <3>3
    <3> QED BY <1>3, <3>4 DEF OrderedOk
  <2>5. ord2[ms[i].ssn] = Whole(s, e)
    BY <1>5, <2>3, <2>4
  <2> QED BY <2>5 DEF HeldWholly
<1>7. GivenUpOrHeld(ms, s, ord2, ab, last, n)
  BY <1>6 DEF ReadsOk, GivenUpOrHeld
<1>8. NoneDropped(ms, s, B, ord2, n)
  <2> SUFFICES ASSUME NEW u \in B, KindIn(ms, s[u]) = "ordered", NumberIn(ms, s[u].msg) > n
               PROVE  u \in ord2[ms[s[u].msg].ssn]
    BY DEF NoneDropped
  <2>1. CASE u \in A
    <3>1. u \in ord[ms[s[u].msg].ssn]
      BY <2>1 DEF ReadsOk, NoneDropped
    <3>2. ms[s[u].msg].ssn \in Ssns
      BY <1>1, ChunkNumber
    <3> QED BY <1>5, <3>1, <3>2
  <2>2. CASE u = x
    BY <1>5, <2>2 DEF y
  <2> QED BY <2>1, <2>2
<1>9. AfterRead(ms, s, ord2, last)
  <2>1. NumberIn(ms, s[x].msg) > n
    BY NotBehind
  <2>2. NumberIn(ms, s[x].msg) > last
    BY <1>3, <2>1 DEF ReadsOk, NextIs
  <2> QED BY <1>5, <2>2 DEF ReadsOk, AfterRead
<1> QED BY <1>7, <1>8, <1>9 DEF ReadsOk

\* A FORWARD TSN that passes over unordered chunks changes nothing here.
LEMMA ReadsPassed ==
    ASSUME NEW ms, NEW s, NEW A, NEW ord, NEW ab, NEW last, NEW n, ReadsOk(ms, s, A, ord, ab, last, n),
           NEW t, KindsTo(ms, s, A, t, "unordered")
    PROVE  ReadsOk(ms, s, A \cup (1 .. t), ord, ab, last, n)
  BY DEF ReadsOk, NoneDropped, KindsTo

\* One that passes over ordered chunks: the messages up to its last were given
\* up, or were held by then as a whole, and those are not dropped.
LEMMA ReadsForwarded ==
    ASSUME NEW ms, NEW s, NEW un, Sending(ms, s, un), NEW A, A \subseteq 1 .. Len(s),
           NEW ord, OrderedOk(ms, s, A, ord), NearOk(ms, s, ord),
           NEW next, NEW n, NextIs(ms, s, A, next, n), NEW ab, NEW last, ReadsOk(ms, s, A, ord, ab, last, n),
           NEW t \in 1 .. Len(s), Ends(ms, s[t]), \E u \in 1 .. t : u \notin A,
           KindsTo(ms, s, {}, t, "ordered"), AllSentTo(ms, s, t),
           \A u \in 1 .. t : s[u].msg \in ab \/ \A v \in 1 .. u : v \in A,
           NEW dropped, Drops(ms, s, ord, ms[s[t].msg].ssn, dropped)
    PROVE  /\ Counted(ms, NextSsn(ms[s[t].msg].ssn), NumberIn(ms, s[t].msg))
           /\ ReadsOk(ms, s, A \cup (1 .. t), Without(ord, dropped), ab, last, NumberIn(ms, s[t].msg))
<1> DEFINE B == A \cup (1 .. t)
           o2 == Without(ord, dropped)
           f == NumberIn(ms, s[t].msg)
           final == ms[s[t].msg].ssn
           total == NumberIn(ms, Len(ms))
           N(u) == NumberIn(ms, s[u].msg)
<1>1. /\ ms \in Seq(Message) /\ SentOk(ms, s) /\ Len(s) \in Nat /\ total \in Nat /\ SsnHalf \in Nat
      /\ \A u \in 1 .. t : u \in 1 .. Len(s)
      /\ Apart(s, ord) /\ ord \in [Ssns -> SUBSET Nat]
  <2>1. ms \in Seq(Message) /\ SentOk(ms, s) /\ Len(s) \in Nat /\ total \in Nat
    BY SendingFacts
  <2>2. \A u \in 1 .. t : u \in 1 .. Len(s)
    BY <2>1
  <2>3. Apart(s, ord) /\ ord \in [Ssns -> SUBSET Nat] /\ SsnHalf \in Nat
    <3>1. Apart(s, ord)
      BY OneMessage
    <3>2. ord \in [Ssns -> SUBSET Nat]
      BY DEF OrderedOk
    <3> QED BY <3>1, <3>2, SpaceFacts
  <2> QED BY <2>1, <2>2, <2>3
<1>2. \A u \in 1 .. t : KindIn(ms, s[u]) = "ordered"
  BY DEF KindsTo
<1>3. KindIn(ms, s[t]) = "ordered"
  BY <1>2
<1> PICK z \in 1 .. t : z \notin A
  OBVIOUS
<1>4. /\ n \in Nat /\ n <= total /\ total - n < SsnHalf /\ last \in Nat /\ last <= n
  BY DEF NextIs, ReadsOk
<1>5. final = Wrap(f - 1) /\ final \in Ssns /\ f \in Nat /\ f - 1 \in Nat /\ f <= total
  BY <1>3, ChunkNumber
<1>6. n < f
  <2>1. z \in 1 .. Len(s) /\ KindIn(ms, s[z]) = "ordered"
    BY <1>1, <1>2
  <2>2. N(z) > n
    BY <2>1, NotBehind
  <2>3. N(z) <= f
    BY <1>1, <1>3, <2>1, SameNumber
  <2>4. N(z) \in Nat
    BY <2>1, ChunkNumber
  <2> HIDE DEF N, f
  <2> QED BY <1>4, <1>5, <2>2, <2>3, <2>4
<1>7. Counted(ms, NextSsn(final), f)
  <2> HIDE DEF f, total, final
  <2> DEFINE g == f - 1
  <2>1. g \in Nat /\ g + 1 = f /\ final = Wrap(g)
    BY <1>5
  <2> HIDE DEF g
  <2>2. NextSsn(final) = Wrap(f)
    BY <2>1, WrapFacts
  <2>3. total - f < SsnHalf
    BY <1>1, <1>4, <1>5, <1>6
  <2> QED BY <1>5, <2>2, <2>3 DEF Counted, total
<1>8. ASSUME NEW x \in Ssns, NEW e \in 1 .. Len(s), Ends(ms, s[e]), ord[x] = Whole(s, e)
      PROVE  o2[x] = ord[x]
  BY <1>8 DEF Drops, Without
<1>9. ASSUME NEW v \in 1 .. Len(s), KindIn(ms, s[v]) = "ordered", ~(v \in 1 .. t)
      PROVE  f < N(v)
  <2>1. t < v
    BY <1>1, <1>9
  <2> QED BY <1>1, <1>3, <1>9, <2>1, SameNumber
<1>10. GivenUpOrHeld(ms, s, o2, ab, last, f)
  <2> SUFFICES ASSUME NEW i \in 1 .. Len(ms), ~ms[i].unordered, NumberIn(ms, i) > last, NumberIn(ms, i) <= f, i \notin ab
               PROVE  HeldWholly(ms, s, o2, i)
    BY DEF GivenUpOrHeld
  <2>1. PICK e \in 1 .. Len(s) : s[e] = Last(ms, i)
    BY DEF AllSentTo
  <2>2. Ends(ms, s[e]) /\ s[e].msg = i /\ KindIn(ms, s[e]) = "ordered"
    BY <2>1 DEF Ends, Last, KindIn, KindOf
  <2>3. ms[i].ssn \in Ssns /\ NumberIn(ms, i) \in Nat
    BY <2>2, ChunkNumber
  <2>4. ord[ms[i].ssn] = Whole(s, e)
    <3>1. CASE NumberIn(ms, i) <= n
      <4>1. PICK d \in 1 .. Len(s) : s[d] = Last(ms, i) /\ ord[ms[i].ssn] = Whole(s, d)
        BY <3>1 DEF ReadsOk, GivenUpOrHeld, HeldWholly
      <4>2. d = e
        BY <1>1, <2>1, <4>1, SentOnce
      <4> QED BY <4>1, <4>2
    <3>2. CASE ~(NumberIn(ms, i) <= n)
      <4>1. NumberIn(ms, i) > n
        BY <1>4, <2>3, <3>2
      <4>2. e \in 1 .. t
        <5> SUFFICES ASSUME ~(e \in 1 .. t) PROVE FALSE
          OBVIOUS
        <5>1. f < NumberIn(ms, i)
          BY <1>9, <2>2
        <5> HIDE DEF f
        <5> QED BY <1>5, <2>3, <5>1
      <4>3. \A u \in 1 .. e : u \in A
        BY <2>2, <4>2
      <4>4. Whole(s, e) \subseteq 1 .. e /\ e \in Whole(s, e)
            /\ \A u \in Whole(s, e) : s[u].msg = i /\ KindIn(ms, s[u]) = "ordered"
        BY <1>1, <2>2, WholeFacts
      <4>5. Whole(s, e) \subseteq ord[ms[i].ssn]
        BY <4>1, <4>3, <4>4 DEF ReadsOk, NoneDropped
      <4>6. ord[ms[i].ssn] \subseteq Whole(s, e)
        <5> SUFFICES ASSUME NEW u \in ord[ms[i].ssn] PROVE u \in Whole(s, e)
          OBVIOUS
        <5>1. s[u].msg = s[e].msg
          BY <1>1, <2>3, <4>4, <4>5 DEF Apart
        <5>2. u \in 1 .. Len(s)
          BY <2>3 DEF OrderedOk
        <5> QED BY <1>1, <2>2, <5>1, <5>2, WholeFacts
      <4> QED BY <4>5, <4>6
    <3> QED BY <3>1, <3>2
  <2>5. o2[ms[i].ssn] = Whole(s, e)
    BY <1>8, <2>2, <2>3, <2>4
  <2> QED BY <2>1, <2>5 DEF HeldWholly
<1>11. NoneDropped(ms, s, B, o2, f)
  <2> SUFFICES ASSUME NEW u \in B, KindIn(ms, s[u]) = "ordered", N(u) > f
               PROVE  u \in o2[ms[s[u].msg].ssn]
    BY DEF NoneDropped
  <2>1. u \in 1 .. Len(s)
    BY <1>1
  <2>2. N(u) \in Nat /\ N(u) - 1 \in Nat /\ N(u) <= total
        /\ ms[s[u].msg].ssn = Wrap(N(u) - 1) /\ ms[s[u].msg].ssn \in Ssns
    BY <2>1, ChunkNumber
  <2>3. u \notin 1 .. t
    <3> SUFFICES ASSUME u \in 1 .. t PROVE FALSE
      OBVIOUS
    <3>1. N(u) <= f
      BY <1>1, <1>3, <2>1, SameNumber
    <3> HIDE DEF N, f
    <3> QED BY <1>5, <2>2, <3>1
  <2>4. N(u) > n
    <3> HIDE DEF N, f
    <3> QED BY <1>4, <1>5, <1>6, <2>2
  <2>5. u \in ord[ms[s[u].msg].ssn]
    BY <2>3, <2>4 DEF ReadsOk, NoneDropped
  <2>6. ~Lte(ms[s[u].msg].ssn, final)
    <3> DEFINE g == N(u) - 1
               h == f - 1
    <3>1. ms[s[u].msg].ssn = Wrap(g) /\ final = Wrap(h) /\ g \in Nat /\ h \in Nat
      BY <1>5, <2>2
    <3>2. g + 1 = N(u) /\ h + 1 = f
      BY <1>5, <2>2
    <3>3. N(u) > f
      OBVIOUS
    <3> HIDE DEF g, h, N, f, total
    <3>4. g - h < SsnHalf /\ h - g < SsnHalf /\ ~(g <= h)
      BY <1>1, <1>4, <1>5, <1>6, <2>2, <3>1, <3>2, <3>3
    <3> HIDE DEF final
    <3>5. ~Lte(Wrap(g), Wrap(h))
      BY <3>1, <3>4, WrapFacts
    <3> QED BY <3>1, <3>5
  <2>7. ms[s[u].msg].ssn \notin dropped
    BY <2>2, <2>6 DEF Drops
  <2> QED BY <2>2, <2>5, <2>7 DEF Without
<1>12. AfterRead(ms, s, o2, last)
  <2>1. \A x \in Ssns : o2[x] \subseteq ord[x]
    BY DEF Without
  <2> QED BY <2>1 DEF ReadsOk, AfterRead
<1>13. last <= f /\ last \in Nat
  <2> HIDE DEF f
  <2> QED BY <1>4, <1>5, <1>6
<1> QED BY <1>7, <1>10, <1>11, <1>12, <1>13 DEF ReadsOk

\* The number of a chunk that is held gives its SSN, and the numbers that are
\* held are in half a circle.
Storing(ms, s, A, ord) ==
    (\E un : Sending(ms, s, un)) /\ A \subseteq 1 .. Len(s) /\ OrderedOk(ms, s, A, ord) /\ NearOk(ms, s, ord)
HeldAs(ms, s, x, u) ==
    /\ u \in 1 .. Len(s) /\ KindIn(ms, s[u]) = "ordered" /\ ms[s[u].msg].ssn = x
    /\ NumberIn(ms, s[u].msg) - 1 \in Nat /\ NumberIn(ms, s[u].msg) \in Nat
    /\ x = Wrap(NumberIn(ms, s[u].msg) - 1)
    /\ NumberIn(ms, s[u].msg) <= NumberIn(ms, Len(ms))
    /\ NumberIn(ms, Len(ms)) - NumberIn(ms, s[u].msg) + 1 < SsnHalf

LEMMA HeldNumber ==
    ASSUME NEW ms, NEW s, NEW A, NEW ord, Storing(ms, s, A, ord), NEW x \in Ssns, NEW u, u \in ord[x]
    PROVE  HeldAs(ms, s, x, u)
<1> PICK un : Sending(ms, s, un)
  BY DEF Storing
<1>1. u \in 1 .. Len(s) /\ KindIn(ms, s[u]) = "ordered" /\ ms[s[u].msg].ssn = x
  BY DEF OrderedOk, Storing
<1>2. NumberIn(ms, Len(ms)) - NumberIn(ms, s[u].msg) + 1 < SsnHalf
  BY DEF NearOk, Storing
<1>3. /\ ms[s[u].msg].ssn = Wrap(NumberIn(ms, s[u].msg) - 1) /\ ms[s[u].msg].ssn \in Ssns
      /\ NumberIn(ms, s[u].msg) \in Nat /\ NumberIn(ms, s[u].msg) - 1 \in Nat
      /\ NumberIn(ms, s[u].msg) <= NumberIn(ms, Len(ms))
  BY <1>1, ChunkNumber
<1> QED BY <1>1, <1>2, <1>3 DEF HeldAs

\* Of two chunks that are held the one with the smaller SSN has the smaller number.
LEMMA HeldOrder ==
    ASSUME NEW ms, NEW s, NEW A, NEW ord, Storing(ms, s, A, ord),
           NEW x \in Ssns, NEW u, u \in ord[x], NEW y \in Ssns, NEW v, v \in ord[y], Lte(x, y)
    PROVE  /\ NumberIn(ms, s[u].msg) <= NumberIn(ms, s[v].msg)
           /\ NumberIn(ms, s[u].msg) = NumberIn(ms, s[v].msg) => x = y
<1> DEFINE total == NumberIn(ms, Len(ms))
           i == NumberIn(ms, s[u].msg)
           j == NumberIn(ms, s[v].msg)
           a == i - 1
           b == j - 1
<1>1. total \in Nat /\ SsnHalf \in Nat
  BY SendingFacts, SpaceFacts DEF Storing
<1>2. a \in Nat /\ i \in Nat /\ x = Wrap(a) /\ i <= total /\ total - i + 1 < SsnHalf
  BY HeldNumber DEF HeldAs
<1>3. b \in Nat /\ j \in Nat /\ y = Wrap(b) /\ j <= total /\ total - j + 1 < SsnHalf
  BY HeldNumber DEF HeldAs
<1>4. a + 1 = i /\ b + 1 = j
  BY <1>2, <1>3
<1> HIDE DEF a, b, i, j, total
<1>5. a - b < SsnHalf /\ b - a < SsnHalf
  BY <1>1, <1>2, <1>3, <1>4
<1>6. a <= b
  BY <1>2, <1>3, <1>5, WrapFacts
<1>7. i <= j /\ (i = j => a = b)
  BY <1>2, <1>3, <1>4, <1>6
<1> QED BY <1>2, <1>3, <1>7 DEF i, j

\* The message m is the next to be read: it comes after the last that was, and
\* those between were given up.
IsNext(ms, ab, last, m) ==
    /\ NumberIn(ms, m) \in 1 .. NumberIn(ms, Len(ms))
    /\ NumberIn(ms, m) > last
    /\ ~ms[m].unordered
    /\ \A i \in 1 .. Len(ms) :
          ~ms[i].unordered /\ NumberIn(ms, i) > last /\ NumberIn(ms, i) < NumberIn(ms, m) => i \in ab

\* The read of an ordered message: it comes after all that was read, and what
\* lies between was given up.
LEMMA ReadsRead ==
    ASSUME NEW ms, NEW s, NEW A, NEW ord, Storing(ms, s, A, ord),
           NEW next, NEW n, Counted(ms, next, n), NEW ab, NEW last, ReadsOk(ms, s, A, ord, ab, last, n),
           NEW x \in Ssns, NEW e \in 1 .. Len(s), Ends(ms, s[e]), ord[x] = Whole(s, e), ~Gt(x, next),
           \A y \in Ssns : ord[y] # {} => Lte(x, y)
    PROVE  /\ \E n2 \in Nat :
                 /\ Counted(ms, IF x = next THEN NextSsn(x) ELSE next, n2)
                 /\ ReadsOk(ms, s, A, [ord EXCEPT ![x] = {}], ab, NumberIn(ms, s[e].msg), n2)
           /\ IsNext(ms, ab, last, s[e].msg)
<1> DEFINE f == NumberIn(ms, s[e].msg)
           total == NumberIn(ms, Len(ms))
           n2 == IF x = next THEN n + 1 ELSE n
           next2 == IF x = next THEN NextSsn(x) ELSE next
           o2 == [ord EXCEPT ![x] = {}]
           N(u) == NumberIn(ms, s[u].msg)
<1>1. ms \in Seq(Message) /\ SentOk(ms, s) /\ total \in Nat /\ SsnHalf \in Nat
  BY SendingFacts, SpaceFacts DEF Storing
<1>2. ord \in [Ssns -> SUBSET Nat] /\ A \subseteq 1 .. Len(s) /\ \E un : Sending(ms, s, un)
  BY DEF OrderedOk, Storing
<1> PICK un : Sending(ms, s, un)
  BY <1>2
<1>3. e \in ord[x]
  BY <1>1, WholeFacts
<1>4. /\ KindIn(ms, s[e]) = "ordered" /\ f - 1 \in Nat /\ f \in Nat /\ x = Wrap(f - 1)
      /\ f <= total /\ total - f + 1 < SsnHalf
  BY <1>3, HeldNumber DEF HeldAs
<1>5. ~ms[s[e].msg].unordered /\ f \in 1 .. total
  BY <1>1, <1>4, SameNumber
<1>6. /\ n \in Nat /\ next = Wrap(n) /\ n <= total /\ total - n < SsnHalf
      /\ last \in Nat /\ last <= n
  BY DEF Counted, ReadsOk
<1>7. f > last
  BY <1>3 DEF ReadsOk, AfterRead
<1>8. f - 1 <= n /\ (x = next <=> f - 1 = n)
  <2> DEFINE g == f - 1
  <2>1. g \in Nat /\ g + 1 = f /\ x = Wrap(g)
    BY <1>4
  <2> HIDE DEF g, f, total
  <2>2. g - n < SsnHalf /\ n - g < SsnHalf
    <3>1. total \in Nat /\ SsnHalf \in Nat /\ f \in Nat /\ f <= total /\ total - f + 1 < SsnHalf
      BY <1>1, <1>4
    <3>2. n \in Nat /\ n <= total /\ total - n < SsnHalf
      BY <1>6
    <3>3. g \in Nat /\ g + 1 = f
      BY <2>1
    <3> QED BY <3>1, <3>2, <3>3, SMTT(30)
  <2>3. ~(g > n)
    BY <1>6, <2>1, <2>2, WrapFacts
  <2>4. x = next => g = n
    BY <1>6, <2>1, <2>2, WrapFacts
  <2>5. g = n => x = next
    BY <1>6, <2>1
  <2> QED BY <1>6, <2>1, <2>3, <2>4, <2>5 DEF g
<1>9. n2 \in Nat /\ f <= n2 /\ n <= n2 /\ (n2 # n => n2 = f)
  <2> HIDE DEF f
  <2>1. CASE x = next
    BY <1>4, <1>6, <1>8, <2>1
  <2>2. CASE x # next
    BY <1>4, <1>6, <1>8, <2>2
  <2> QED BY <2>1, <2>2
<1>10. Counted(ms, next2, n2)
  <2>1. CASE x = next
    <3>1. n2 = n + 1 /\ next2 = NextSsn(Wrap(n)) /\ n + 1 = f
      BY <1>4, <1>6, <1>8, <2>1
    <3> HIDE DEF n2, next2, f, total
    <3>2. next2 = Wrap(n2)
      BY <1>6, <3>1, WrapFacts
    <3>3. n2 <= total /\ total - n2 < SsnHalf
      BY <1>1, <1>4, <1>6, <3>1
    <3> QED BY <1>9, <3>2, <3>3 DEF Counted, total
  <2>2. CASE x # next
    BY <2>2 DEF Counted
  <2> QED BY <2>1, <2>2
<1>11. ASSUME NEW y \in Ssns, y # x, NEW u \in ord[y] PROVE f < N(u)
  <2>1. Lte(x, y)
    BY <1>11
  <2>2. f <= N(u) /\ f # N(u)
    BY <1>3, <1>11, <2>1, HeldOrder
  <2>3. N(u) \in Nat
    BY <1>11, HeldNumber DEF HeldAs
  <2> HIDE DEF f, N
  <2> QED BY <1>4, <2>2, <2>3
<1>12. o2[x] = {} /\ \A y \in Ssns : y # x => o2[y] = ord[y]
  BY <1>2
<1> HIDE DEF o2
<1>13. ASSUME NEW i \in 1 .. Len(ms), ~ms[i].unordered, HeldWholly(ms, s, ord, i)
       PROVE  /\ f <= NumberIn(ms, i)
              /\ f # NumberIn(ms, i) => HeldWholly(ms, s, o2, i)
  <2> PICK d \in 1 .. Len(s) : s[d] = Last(ms, i) /\ ord[ms[i].ssn] = Whole(s, d)
    BY <1>13 DEF HeldWholly
  <2>1. Ends(ms, s[d]) /\ s[d].msg = i /\ KindIn(ms, s[d]) = "ordered"
    BY <1>13 DEF Ends, Last, KindIn, KindOf
  <2>2. ms[i].ssn \in Ssns /\ d \in ord[ms[i].ssn] /\ NumberIn(ms, i) \in Nat
    <3>1. d \in Whole(s, d)
      BY <1>1, <2>1, WholeFacts
    <3> QED BY <2>1, <3>1, ChunkNumber
  <2>3. CASE ms[i].ssn = x
    <3>1. d \in Whole(s, e)
      BY <2>2, <2>3
    <3>2. s[d].msg = s[e].msg
      BY <1>1, <3>1, WholeFacts
    <3> HIDE DEF f
    <3> QED BY <1>4, <2>1, <3>2 DEF f
  <2>4. CASE ms[i].ssn # x
    <3>1. f < NumberIn(ms, i)
      BY <1>11, <2>1, <2>2, <2>4
    <3>2. o2[ms[i].ssn] = Whole(s, d)
      BY <1>12, <2>2, <2>4
    <3> HIDE DEF f
    <3> QED BY <1>4, <2>2, <3>1, <3>2 DEF HeldWholly
  <2> QED BY <2>3, <2>4
<1>14. ASSUME NEW i \in 1 .. Len(ms), ~ms[i].unordered, NumberIn(ms, i) > last, NumberIn(ms, i) <= n
       PROVE  i \in ab \/ HeldWholly(ms, s, ord, i)
  BY <1>14 DEF ReadsOk, GivenUpOrHeld
<1>15. \A i \in 1 .. Len(ms) : NumberIn(ms, i) \in Nat
  BY NumberNat
<1>16. \A i \in 1 .. Len(ms) : ~ms[i].unordered /\ NumberIn(ms, i) > last /\ NumberIn(ms, i) < f => i \in ab
  <2> SUFFICES ASSUME NEW i \in 1 .. Len(ms), ~ms[i].unordered, NumberIn(ms, i) > last, NumberIn(ms, i) < f
               PROVE  i \in ab
    OBVIOUS
  <2>1. NumberIn(ms, i) < f
    OBVIOUS
  <2> HIDE DEF f
  <2>2. NumberIn(ms, i) <= n /\ ~(f <= NumberIn(ms, i))
    BY <1>4, <1>6, <1>8, <1>15, <2>1
  <2> QED BY <1>13, <1>14, <2>2
<1>17. GivenUpOrHeld(ms, s, o2, ab, f, n2)
  <2> SUFFICES ASSUME NEW i \in 1 .. Len(ms), ~ms[i].unordered, NumberIn(ms, i) > f, NumberIn(ms, i) <= n2
               PROVE  i \in ab \/ HeldWholly(ms, s, o2, i)
    BY DEF GivenUpOrHeld
  <2>1. NumberIn(ms, i) > f /\ NumberIn(ms, i) <= n2
    OBVIOUS
  <2> HIDE DEF f, n2
  <2>2. NumberIn(ms, i) > last /\ NumberIn(ms, i) <= n /\ f # NumberIn(ms, i)
    BY <1>4, <1>6, <1>7, <1>9, <1>15, <2>1
  <2> QED BY <1>13, <1>14, <2>2
<1>18. NoneDropped(ms, s, A, o2, n2)
  <2> SUFFICES ASSUME NEW u \in A, KindIn(ms, s[u]) = "ordered", N(u) > n2
               PROVE  u \in o2[ms[s[u].msg].ssn]
    BY DEF NoneDropped
  <2>1. u \in 1 .. Len(s) /\ N(u) > n2
    BY <1>2
  <2>2. N(u) \in Nat /\ ms[s[u].msg].ssn \in Ssns
    BY <2>1, ChunkNumber
  <2>3. N(u) > n /\ N(u) # f
    <3> HIDE DEF f, N, n2
    <3> QED BY <1>4, <1>6, <1>9, <2>1, <2>2
  <2>4. u \in ord[ms[s[u].msg].ssn]
    BY <2>3 DEF ReadsOk, NoneDropped
  <2>5. ms[s[u].msg].ssn # x
    <3> SUFFICES ASSUME ms[s[u].msg].ssn = x PROVE FALSE
      OBVIOUS
    <3>1. u \in Whole(s, e)
      BY <2>4
    <3>2. s[u].msg = s[e].msg
      BY <1>1, <3>1, WholeFacts
    <3> QED BY <2>3, <3>2
  <2> QED BY <1>12, <2>2, <2>4, <2>5
<1>19. AfterRead(ms, s, o2, f)
  <2> SUFFICES ASSUME NEW y \in Ssns, NEW u \in o2[y] PROVE N(u) > f
    BY DEF AfterRead
  <2>1. y # x /\ u \in ord[y]
    BY <1>12
  <2>2. f < N(u) /\ N(u) \in Nat
    BY <1>11, <2>1, HeldNumber DEF HeldAs
  <2> HIDE DEF f, N
  <2> QED BY <1>4, <2>2
<1>20. ReadsOk(ms, s, A, o2, ab, f, n2)
  BY <1>4, <1>9, <1>17, <1>18, <1>19 DEF ReadsOk
<1> HIDE DEF f, n2
<1>21. IsNext(ms, ab, last, s[e].msg)
  BY <1>5, <1>7, <1>16 DEF IsNext, f
<1> QED BY <1>9, <1>10, <1>20, <1>21 DEF f, o2

-----------------------------------------------------------------------------
(* The numbers of the ordered messages that were read.                     *)

ReadsTo(ms, dl, i) == {j \in 1 .. i : ~ms[dl[j][1].msg].unordered}
Nth(ms, dl, n) == CHOOSE i \in ReadsTo(ms, dl, Len(dl)) : Cardinality(ReadsTo(ms, dl, i)) = n
Numbers(ms, dl) == [n \in 1 .. Cardinality(ReadsTo(ms, dl, Len(dl))) |-> NumberIn(ms, dl[Nth(ms, dl, n)][1].msg)]
LastOf(q) == IF q = <<>> THEN 0 ELSE q[Len(q)]
OfMessages(ms, dl) == ms \in Seq(Message) /\ dl \in Seq(Seq(Fragment))
                      /\ \A j \in 1 .. Len(dl) : dl[j][1].msg \in 1 .. Len(ms)

\* Up to their number there is an n-th ordered message among those read.
LEMMA NthIsRead ==
    ASSUME NEW ms, NEW dl, OfMessages(ms, dl)
    PROVE  /\ Cardinality(ReadsTo(ms, dl, Len(dl))) \in Nat
           /\ \A i \in 0 .. Len(dl) : /\ IsFiniteSet(ReadsTo(ms, dl, i))
                                      /\ Cardinality(ReadsTo(ms, dl, i)) \in 0 .. Cardinality(ReadsTo(ms, dl, Len(dl)))
           /\ \A n \in 1 .. Cardinality(ReadsTo(ms, dl, Len(dl))) :
                 /\ Nth(ms, dl, n) \in 1 .. Len(dl)
                 /\ Nth(ms, dl, n) \in ReadsTo(ms, dl, Len(dl))
<1> DEFINE rs == [j \in 1 .. Len(dl) |-> ms[dl[j][1].msg]]
           R(i) == ReadsTo(ms, dl, i)
           K == Cardinality(R(Len(dl)))
<1>1. Len(dl) \in Nat /\ ms \in Seq(Message) /\ \A j \in 1 .. Len(dl) : ms[dl[j][1].msg] \in Message
  BY DEF OfMessages
<1>2. rs \in Seq(Message) /\ Len(rs) = Len(dl) /\ \A j \in 1 .. Len(dl) : rs[j] = ms[dl[j][1].msg]
  BY <1>1
<1> HIDE DEF rs
<1>3. ASSUME NEW i \in 0 .. Len(dl) PROVE R(i) = {j \in 1 .. i : ~rs[j].unordered} /\ Cardinality(R(i)) = NumberIn(rs, i)
  <2>1. \A j \in 1 .. i : rs[j] = ms[dl[j][1].msg]
    BY <1>1, <1>2
  <2>2. R(i) = {j \in 1 .. i : ~rs[j].unordered}
    BY <2>1 DEF ReadsTo
  <2> QED BY <2>2 DEF NumberIn
<1>4. Len(dl) \in 0 .. Len(dl)
  BY <1>1
<1>5. K = NumberIn(rs, Len(rs)) /\ K \in Nat
  <2>1. K = NumberIn(rs, Len(rs))
    BY <1>2, <1>3, <1>4
  <2> QED BY <1>1, <1>2, <2>1, NumberNat
<1>6. ASSUME NEW i \in 0 .. Len(dl) PROVE IsFiniteSet(R(i)) /\ Cardinality(R(i)) \in 0 .. K
  <2>1. i \in Nat
    BY <1>1
  <2>2. IsFiniteSet(1 .. i)
    BY <2>1, FS_Interval
  <2>3. IsFiniteSet(R(i))
    BY <2>2, FS_Subset DEF ReadsTo
  <2>4. \A j \in 0 .. Len(dl) : NumberIn(rs, j) <= NumberIn(rs, Len(dl))
    BY <1>1, NumberFacts
  <2>5. NumberIn(rs, i) \in Nat
    BY <2>1, NumberNat
  <2>6. Cardinality(R(i)) = NumberIn(rs, i) /\ K = NumberIn(rs, Len(dl))
    BY <1>2, <1>3, <1>5
  <2> HIDE DEF R, K
  <2> QED BY <1>5, <2>3, <2>4, <2>5, <2>6
<1>7. ASSUME NEW n \in 1 .. K PROVE Nth(ms, dl, n) \in 1 .. Len(dl) /\ Nth(ms, dl, n) \in R(Len(dl))
  <2>1. n \in Nat \ {0} /\ n <= NumberIn(rs, Len(rs))
    BY <1>5
  <2>2. PICK i \in 1 .. Len(rs) : ~rs[i].unordered /\ NumberIn(rs, i) = n
    BY <1>2, <2>1, NumberReached
  <2>3. i \in 0 .. Len(dl) /\ i \in 1 .. Len(dl)
    BY <1>1, <1>2
  <2>4. i \in R(Len(dl)) /\ Cardinality(R(i)) = n
    BY <1>3, <1>4, <2>2, <2>3
  <2>5. Nth(ms, dl, n) \in R(Len(dl))
    BY <2>4 DEF Nth
  <2> QED BY <2>5 DEF ReadsTo
<1> HIDE DEF R, K
<1> QED BY <1>5, <1>6, <1>7 DEF R, K

\* Ordered messages have numbers.
LEMMA NumbersType ==
    ASSUME NEW ms, NEW dl, OfMessages(ms, dl)
    PROVE  /\ Numbers(ms, dl) \in Seq(Nat)
           /\ Len(Numbers(ms, dl)) = Cardinality(ReadsTo(ms, dl, Len(dl)))
<1> DEFINE K == Cardinality(ReadsTo(ms, dl, Len(dl)))
<1>1. K \in Nat
  BY NthIsRead
<1>2. ASSUME NEW n \in 1 .. K PROVE NumberIn(ms, dl[Nth(ms, dl, n)][1].msg) \in Nat
  <2>1. Nth(ms, dl, n) \in 1 .. Len(dl)
    BY NthIsRead
  <2>2. dl[Nth(ms, dl, n)][1].msg \in Nat
    BY <2>1 DEF OfMessages
  <2> QED BY <2>2, NumberNat
<1> HIDE DEF K
<1> QED BY <1>1, <1>2 DEF Numbers, K

\* Two sequences of reads have the same n-th read if they count the same.
LEMMA NthSame ==
    ASSUME NEW ms, NEW dl, NEW ms2, NEW dl2, NEW n,
           \A i : /\ i \in ReadsTo(ms, dl, Len(dl)) /\ Cardinality(ReadsTo(ms, dl, i)) = n
                  <=> i \in ReadsTo(ms2, dl2, Len(dl2)) /\ Cardinality(ReadsTo(ms2, dl2, i)) = n
    PROVE  Nth(ms, dl, n) = Nth(ms2, dl2, n)
  BY Zenon DEF Nth

\* Writing adds nothing to what was read.
LEMMA NumbersWritten ==
    ASSUME NEW ms, NEW dl, OfMessages(ms, dl), NEW ms2, Extends(ms, ms2)
    PROVE  Numbers(ms2, dl) = Numbers(ms, dl) /\ OfMessages(ms2, dl)
<1>1. /\ Len(dl) \in Nat /\ Len(ms) \in Nat /\ Len(ms2) \in Nat /\ Len(ms) <= Len(ms2) /\ ms2 \in Seq(Message)
      /\ \A j \in 1 .. Len(dl) : dl[j][1].msg \in 1 .. Len(ms)
      /\ \A i \in 1 .. Len(ms) : ms2[i] = ms[i]
  BY DEF OfMessages, Extends
<1>2. ASSUME NEW i \in 0 .. Len(dl) PROVE ReadsTo(ms2, dl, i) = ReadsTo(ms, dl, i)
  <2>1. \A j \in 1 .. i : j \in 1 .. Len(dl)
    BY <1>1
  <2>2. \A j \in 1 .. i : ms2[dl[j][1].msg] = ms[dl[j][1].msg]
    BY <1>1, <2>1
  <2> QED BY <2>2 DEF ReadsTo
<1>3. ReadsTo(ms2, dl, Len(dl)) = ReadsTo(ms, dl, Len(dl))
  BY <1>1, <1>2
<1>4. ASSUME NEW n PROVE Nth(ms2, dl, n) = Nth(ms, dl, n)
  <2>1. \A i \in ReadsTo(ms, dl, Len(dl)) : i \in 0 .. Len(dl)
    BY <1>1 DEF ReadsTo
  <2> QED BY <1>2, <1>3, <2>1, NthSame
<1>5. ASSUME NEW n \in 1 .. Cardinality(ReadsTo(ms, dl, Len(dl)))
      PROVE  NumberIn(ms2, dl[Nth(ms, dl, n)][1].msg) = NumberIn(ms, dl[Nth(ms, dl, n)][1].msg)
  <2>1. dl[Nth(ms, dl, n)][1].msg \in 1 .. Len(ms)
    BY <1>1, NthIsRead
  <2>2. dl[Nth(ms, dl, n)][1].msg \in 0 .. Len(ms)
    BY <1>1, <2>1
  <2> QED BY <2>2, ExtendedSame
<1>6. Numbers(ms2, dl) = Numbers(ms, dl)
  BY <1>3, <1>4, <1>5 DEF Numbers
<1>7. OfMessages(ms2, dl)
  BY <1>1 DEF OfMessages
<1> QED BY <1>6, <1>7

\* A read adds its number when the message is ordered, and nothing else.
LEMMA NumbersRead ==
    ASSUME NEW ms, NEW dl, OfMessages(ms, dl), NEW c \in Seq(Fragment), c[1].msg \in 1 .. Len(ms)
    PROVE  /\ Numbers(ms, Append(dl, c)) = IF ms[c[1].msg].unordered THEN Numbers(ms, dl)
                                           ELSE Append(Numbers(ms, dl), NumberIn(ms, c[1].msg))
           /\ OfMessages(ms, Append(dl, c))
<1> DEFINE d2 == Append(dl, c)
           l == Len(dl)
           K == Cardinality(ReadsTo(ms, dl, l))
           K2 == Cardinality(ReadsTo(ms, d2, Len(d2)))
<1>1. /\ l \in Nat /\ Len(d2) = l + 1 /\ d2[l + 1] = c /\ d2 \in Seq(Seq(Fragment))
      /\ \A j \in 1 .. l : d2[j] = dl[j]
  BY DEF OfMessages
<1> HIDE DEF d2
<1>2. OfMessages(ms, d2)
  <2>1. \A j \in 1 .. Len(d2) : j \in 1 .. l \/ j = l + 1
    BY <1>1
  <2>2. \A j \in 1 .. l : dl[j][1].msg \in 1 .. Len(ms)
    BY DEF OfMessages
  <2>3. \A j \in 1 .. Len(d2) : d2[j][1].msg \in 1 .. Len(ms)
    BY <1>1, <2>1, <2>2
  <2> QED BY <1>1, <2>3 DEF OfMessages
<1>3. ASSUME NEW i \in 0 .. l PROVE ReadsTo(ms, d2, i) = ReadsTo(ms, dl, i)
  <2>1. \A j \in 1 .. i : d2[j] = dl[j]
    BY <1>1
  <2> QED BY <2>1 DEF ReadsTo
<1>4. /\ K \in Nat /\ IsFiniteSet(ReadsTo(ms, dl, l))
      /\ \A i \in 0 .. l : Cardinality(ReadsTo(ms, dl, i)) \in 0 .. K
  BY <1>1, NthIsRead
<1>5. \A i \in ReadsTo(ms, dl, l) : i \in 0 .. l /\ i # l + 1
  BY <1>1 DEF ReadsTo
<1>6. ReadsTo(ms, d2, l) = ReadsTo(ms, dl, l)
  BY <1>1, <1>3
<1>7. CASE ms[c[1].msg].unordered
  <2>1. ReadsTo(ms, d2, Len(d2)) = ReadsTo(ms, dl, l)
    <3>1. ReadsTo(ms, d2, l + 1) = ReadsTo(ms, d2, l)
      BY <1>1, <1>7 DEF ReadsTo
    <3> QED BY <1>1, <1>6, <3>1
  <2>2. ASSUME NEW n PROVE Nth(ms, d2, n) = Nth(ms, dl, n)
    BY <1>3, <1>5, <2>1, NthSame
  <2>3. \A n \in 1 .. K : d2[Nth(ms, dl, n)] = dl[Nth(ms, dl, n)]
    BY <1>1, NthIsRead
  <2>4. Numbers(ms, d2) = Numbers(ms, dl)
    BY <2>1, <2>2, <2>3 DEF Numbers
  <2> QED BY <1>2, <1>7, <2>4 DEF d2
<1>8. CASE ~ms[c[1].msg].unordered
  <2>1. ReadsTo(ms, d2, Len(d2)) = ReadsTo(ms, dl, l) \cup {l + 1}
    <3>1. ReadsTo(ms, d2, l + 1) = ReadsTo(ms, d2, l) \cup {l + 1}
      BY <1>1, <1>8 DEF ReadsTo
    <3> QED BY <1>1, <1>6, <3>1
  <2>2. K2 = K + 1
    BY <1>4, <1>5, <2>1, FS_AddElement
  <2>3. Cardinality(ReadsTo(ms, d2, l + 1)) = K + 1
    BY <1>1, <2>2
  <2>4. ASSUME NEW n \in 1 .. K PROVE Nth(ms, d2, n) = Nth(ms, dl, n)
    <3>1. ASSUME NEW i, i \in ReadsTo(ms, d2, Len(d2)), Cardinality(ReadsTo(ms, d2, i)) = n
          PROVE  i \in ReadsTo(ms, dl, l) /\ Cardinality(ReadsTo(ms, dl, i)) = n
      <4>1. i # l + 1
        <5> HIDE DEF K, l
        <5> QED BY <1>4, <2>3, <3>1
      <4>2. i \in ReadsTo(ms, dl, l)
        BY <2>1, <3>1, <4>1
      <4> QED BY <1>3, <1>5, <3>1, <4>2
    <3>2. ASSUME NEW i, i \in ReadsTo(ms, dl, l), Cardinality(ReadsTo(ms, dl, i)) = n
          PROVE  i \in ReadsTo(ms, d2, Len(d2)) /\ Cardinality(ReadsTo(ms, d2, i)) = n
      BY <1>3, <1>5, <2>1, <3>2
    <3> QED BY <3>1, <3>2, NthSame
  <2>5. Nth(ms, d2, K + 1) = l + 1
    <3>1. l + 1 \in ReadsTo(ms, d2, Len(d2)) /\ Cardinality(ReadsTo(ms, d2, l + 1)) = K + 1
      BY <2>1, <2>3
    <3>2. ASSUME NEW i \in ReadsTo(ms, d2, Len(d2)), Cardinality(ReadsTo(ms, d2, i)) = K + 1 PROVE i = l + 1
      <4> SUFFICES ASSUME i \in ReadsTo(ms, dl, l) PROVE FALSE
        BY <2>1
      <4>1. i \in 0 .. l
        BY <1>5
      <4>2. Cardinality(ReadsTo(ms, d2, i)) \in 0 .. K
        BY <1>3, <1>4, <4>1
      <4> HIDE DEF K, l
      <4> QED BY <1>4, <3>2, <4>2
    <3> QED BY <3>1, <3>2 DEF Nth
  <2>6. \A n \in 1 .. K : d2[Nth(ms, dl, n)] = dl[Nth(ms, dl, n)]
    BY <1>1, NthIsRead
  <2> DEFINE q == Numbers(ms, dl)
             q2 == Numbers(ms, d2)
             f == NumberIn(ms, c[1].msg)
  <2>7. q \in Seq(Nat) /\ Len(q) = K /\ q2 \in Seq(Nat) /\ Len(q2) = K2
    BY <1>2, NumbersType
  <2>8. \A n \in 1 .. K : q2[n] = q[n]
    <3> SUFFICES ASSUME NEW n \in 1 .. K PROVE q2[n] = q[n]
      OBVIOUS
    <3>1. n \in 1 .. K2
      BY <1>4, <2>2
    <3>2. q2[n] = NumberIn(ms, d2[Nth(ms, d2, n)][1].msg)
      BY <3>1 DEF Numbers
    <3>3. q[n] = NumberIn(ms, dl[Nth(ms, dl, n)][1].msg)
      BY DEF Numbers
    <3> QED BY <2>4, <2>6, <3>2, <3>3
  <2>9. q2[K + 1] = f
    <3>1. K + 1 \in 1 .. K2
      BY <1>4, <2>2
    <3>2. q2[K + 1] = NumberIn(ms, d2[Nth(ms, d2, K + 1)][1].msg)
      BY <3>1 DEF Numbers
    <3> QED BY <1>1, <2>5, <3>2
  <2> HIDE DEF q, q2, f, K, K2
  <2>10. q2 = Append(q, f)
    BY <1>4, <2>2, <2>7, <2>8, <2>9
  <2> QED BY <1>2, <1>8, <2>10 DEF q, q2, f, d2
<1> QED BY <1>7, <1>8

-----------------------------------------------------------------------------
(* The steps.                                                              *)

Submitted == NumberIn(messages, Len(messages))
GivenUp == {NumberIn(messages, i) : i \in {j \in abandoned : ~messages[j].unordered}}
ReadNumbers == Numbers(messages, delivered)

OrderInv == \E n \in Nat :
    /\ Counted(messages, next_ssn, n)
    /\ ReadsOk(messages, sent, Arrived, ordered, abandoned, LastOf(ReadNumbers), n)

\* The steps of OrderedDelivery.
Submits == Submitted < MaxMsgs /\ Submitted' = Submitted + 1 /\ GivenUp' = GivenUp /\ ReadNumbers' = ReadNumbers
GivesUp == /\ \E S \in SUBSET (1 .. Submitted) : GivenUp' = GivenUp \cup S
           /\ Submitted' = Submitted /\ ReadNumbers' = ReadNumbers
Delivers(f) == /\ f \in 1 .. Submitted /\ f > LastOf(ReadNumbers)
               /\ (LastOf(ReadNumbers) + 1) .. (f - 1) \subseteq GivenUp
               /\ ReadNumbers' = Append(ReadNumbers, f)
               /\ Submitted' = Submitted /\ GivenUp' = GivenUp
Stutters == Submitted' = Submitted /\ GivenUp' = GivenUp /\ ReadNumbers' = ReadNumbers

\* What was read are messages that were written.
LEMMA ReadMessages ==
    ASSUME SenderInv, ReceiverInv
    PROVE  OfMessages(messages, delivered)
<1>1. messages \in Seq(Message)
  BY ReceiverFacts
<1>2. DeliveredOk(messages, sent, Arrived, HeldIn(ordered, unordered_chunks, unordered_sets), delivered)
  BY DEF ReceiverInv, QueueInv
<1>3. ASSUME NEW j \in 1 .. Len(delivered) PROVE delivered[j][1].msg \in 1 .. Len(messages)
  <2>1. PICK m \in 1 .. Len(messages) : delivered[j] = [n \in 1 .. messages[m].len |-> [msg |-> m, n |-> n]]
    BY <1>2 DEF DeliveredOk
  <2>2. 1 \in 1 .. messages[m].len
    <3>1. messages[m] \in Message
      BY <1>1
    <3>2. messages[m].len \in Nat \ {0}
      BY <3>1, MessageTypes
    <3> QED BY <3>2
  <2>3. delivered[j][1] = [msg |-> m, n |-> 1]
    BY <2>1, <2>2
  <2> QED BY <2>3
<1> QED BY <1>1, <1>2, <1>3 DEF OfMessages, DeliveredOk

LEMMA OrderSame ==
    ASSUME OrderInv, UNCHANGED <<messages, sent, abandoned, rcv_vars>>
    PROVE  OrderInv' /\ Stutters
<1>1. Arrived' = Arrived /\ ReadNumbers' = ReadNumbers /\ Submitted' = Submitted /\ GivenUp' = GivenUp
  BY DEF Arrived, rcv_vars, ReadNumbers, Submitted, GivenUp
<1>2. UNCHANGED <<messages, next_ssn, sent, ordered, abandoned>>
  BY DEF rcv_vars
<1> QED BY <1>1, <1>2 DEF OrderInv, Stutters

LEMMA OrderWrite ==
    ASSUME SenderInv, ReceiverInv, OrderInv, NEW m, Wrote(m)
    PROVE  OrderInv' /\ (Submits \/ Stutters)
<1>1. /\ m \in Message /\ messages' = Append(messages, m) /\ Len(messages) < MaxMsgs
      /\ UNCHANGED <<sent, abandoned, rcv_vars>>
      /\ (sequence_number + 1 - next_ssn) % SsnSpace < SsnHalf
  BY DEF Wrote
<1>2. /\ Sending(messages, sent, unordered) /\ Arrived \subseteq 1 .. Len(sent)
      /\ OrderedOk(messages, sent, Arrived, ordered) /\ messages \in Seq(Message) /\ Len(messages) \in Nat
  BY ReceiverFacts
<1>3. Arrived' = Arrived /\ UNCHANGED <<next_ssn, ordered, delivered>>
  BY <1>1 DEF Arrived, rcv_vars
<1>4. Extends(messages, messages') /\ Len(messages') = Len(messages) + 1
      /\ NumberIn(messages', Len(messages) + 1) = IF m.unordered THEN Submitted ELSE Submitted + 1
  BY <1>1, <1>2, AppendExtends DEF Submitted
<1>5. ReadNumbers' = ReadNumbers
  <2>1. Numbers(messages', delivered) = Numbers(messages, delivered)
    BY <1>4, ReadMessages, NumbersWritten
  <2> QED BY <1>3, <2>1 DEF ReadNumbers
<1>6. GivenUp' = GivenUp
  <2>1. \A i \in abandoned : i \in 1 .. Len(messages) /\ i \in 0 .. Len(messages)
    BY <1>2 DEF SenderInv, AbandonedOk
  <2>2. \A i \in abandoned : messages'[i] = messages[i] /\ NumberIn(messages', i) = NumberIn(messages, i)
    BY <1>4, <2>1, ExtendedSame
  <2>3. abandoned' = abandoned
    BY <1>1
  <2> QED BY <2>2, <2>3 DEF GivenUp
<1>7. Submitted' = Submitted \/ (Submitted' = Submitted + 1 /\ Submitted < MaxMsgs)
  <2>1. Submitted \in 0 .. Len(messages)
    BY <1>2, NumberFacts DEF Submitted
  <2>2. Submitted' = IF m.unordered THEN Submitted ELSE Submitted + 1
    BY <1>4 DEF Submitted
  <2>3. Submitted < MaxMsgs
    BY <1>1, <1>2, <2>1, FragmentsAssumption
  <2> QED BY <2>2, <2>3
<1>8. OrderInv'
  <2> PICK n \in Nat : Counted(messages, next_ssn, n)
                       /\ ReadsOk(messages, sent, Arrived, ordered, abandoned, LastOf(ReadNumbers), n)
    BY DEF OrderInv
  <2>1. (Wrap(NumberIn(messages, Len(messages))) + 1 - next_ssn) % SsnSpace < SsnHalf
    BY <1>1 DEF SenderInv, Numbered
  <2>2. Counted(messages', next_ssn, n) /\ ReadsOk(messages', sent, Arrived, ordered, abandoned, LastOf(ReadNumbers), n)
    BY <1>1, <1>2, <2>1, ReadsWritten
  <2>3. sent' = sent /\ abandoned' = abandoned
    BY <1>1
  <2> QED BY <1>3, <1>5, <2>2, <2>3 DEF OrderInv
<1> QED BY <1>5, <1>6, <1>7, <1>8 DEF Submits, Stutters

LEMMA OrderMove ==
    ASSUME OneWriter, SenderInv, ReceiverInv, OrderInv, MovePending
    PROVE  OrderInv' /\ Stutters
<1>1. PICK c \in Fragment : sent' = Append(sent, c) /\ UNCHANGED <<messages, abandoned, rcv_vars>>
  BY MoveFacts
<1>2. /\ Arrived \subseteq 1 .. Len(sent) /\ OrderedOk(messages, sent, Arrived, ordered)
      /\ sent \in Seq(Fragment)
  BY ReceiverFacts, SentLen
<1>3. Arrived' = Arrived /\ ReadNumbers' = ReadNumbers /\ Submitted' = Submitted /\ GivenUp' = GivenUp
  BY <1>1 DEF Arrived, rcv_vars, ReadNumbers, Submitted, GivenUp
<1>4. UNCHANGED <<messages, next_ssn, ordered, abandoned>>
  BY <1>1 DEF rcv_vars
<1> PICK n \in Nat : Counted(messages, next_ssn, n)
                     /\ ReadsOk(messages, sent, Arrived, ordered, abandoned, LastOf(ReadNumbers), n)
  BY DEF OrderInv
<1>5. ReadsOk(messages, Append(sent, c), Arrived, ordered, abandoned, LastOf(ReadNumbers), n)
  BY <1>2, ReadsSent
<1> QED BY <1>1, <1>3, <1>4, <1>5 DEF OrderInv, Stutters

LEMMA OrderAbandon ==
    ASSUME SenderInv, ReceiverInv, OrderInv, NEW i \in 1 .. Len(messages), Abandon(i)
    PROVE  OrderInv' /\ GivesUp
<1>1. abandoned' = abandoned \cup {i} /\ UNCHANGED <<messages, sent, rcv_vars>>
  BY DEF Abandon
<1>2. Arrived' = Arrived /\ ReadNumbers' = ReadNumbers /\ Submitted' = Submitted
  BY <1>1 DEF Arrived, rcv_vars, ReadNumbers, Submitted
<1>3. UNCHANGED <<messages, sent, next_ssn, ordered>>
  BY <1>1 DEF rcv_vars
<1>4. OrderInv'
  <2> PICK n \in Nat : Counted(messages, next_ssn, n)
                       /\ ReadsOk(messages, sent, Arrived, ordered, abandoned, LastOf(ReadNumbers), n)
    BY DEF OrderInv
  <2>1. abandoned \subseteq abandoned'
    BY <1>1
  <2>2. ReadsOk(messages, sent, Arrived, ordered, abandoned', LastOf(ReadNumbers), n)
    BY <2>1, ReadsGivenUp
  <2> QED BY <1>2, <1>3, <2>2 DEF OrderInv
<1>5. \E S \in SUBSET (1 .. Submitted) : GivenUp' = GivenUp \cup S
  <2>1. CASE messages[i].unordered
    <3>1. GivenUp' = GivenUp
      BY <1>1, <2>1 DEF GivenUp
    <3> QED BY <3>1
  <2>2. CASE ~messages[i].unordered
    <3> DEFINE f == NumberIn(messages, i)
    <3>1. GivenUp' = GivenUp \cup {f}
      BY <1>1, <2>2 DEF GivenUp
    <3>2. f \in 1 .. Submitted
      BY <2>2, ReceiverFacts, OrderedNumber DEF Submitted
    <3> QED BY <3>1, <3>2
  <2> QED BY <2>1, <2>2
<1> QED BY <1>2, <1>4, <1>5 DEF GivesUp

\* A chunk arrives for the first time.
LEMMA OrderData ==
    ASSUME SenderInv, ReceiverInv, ReceiverInv', OrderInv, NEW t \in Tsns, HandleData(t)
    PROVE  OrderInv' /\ Stutters
<1>1. /\ Sending(messages, sent, unordered) /\ Len(sent) \in Nat /\ t \in 1 .. Len(sent)
      /\ peer_last_tsn \in 0 .. Len(sent) /\ payload_queue \in SUBSET (1 .. Len(sent))
      /\ Arrived \in SUBSET (1 .. Len(sent)) /\ OrderedOk(messages, sent, Arrived, ordered)
      /\ QueueInv(messages, sent, Arrived, next_ssn, ordered, unordered_chunks, unordered_sets,
                  n_bytes, delivered)
      /\ messages \in Seq(Message)
  BY ReceiverFacts DEF ReceiverInv, Tsns
<1>2. t > peer_last_tsn /\ t \notin payload_queue
      /\ (IF Kind(sent[t]) = "unordered" THEN PushUnordered(t) ELSE PushOrdered(t))
      /\ Advance(peer_last_tsn, payload_queue \cup {t})
      /\ UNCHANGED <<messages, sent, abandoned, next_ssn, delivered>>
  BY DEF HandleData, snd_vars
<1>3. t \notin Arrived
  BY <1>1, <1>2 DEF Arrived
<1>4. Arrived' = Arrived \cup {t}
  <2>1. payload_queue \cup {t} \in SUBSET (1 .. Len(sent)) /\ sent' = sent
    BY <1>1, <1>2
  <2>2. Arrived' = (1 .. peer_last_tsn) \cup (payload_queue \cup {t})
    BY <1>1, <1>2, <2>1, AdvanceFacts
  <2> QED BY <2>2 DEF Arrived
<1>5. Stutters
  BY <1>2 DEF Stutters, Submitted, GivenUp, ReadNumbers
<1>6. Kind(sent[t]) = KindIn(messages, sent[t]) /\ Ssn(sent[t]) = messages[sent[t].msg].ssn
  BY DEF Kind, KindIn, Ssn
<1> DEFINE last == LastOf(ReadNumbers)
<1> PICK n \in Nat : Counted(messages, next_ssn, n)
                     /\ ReadsOk(messages, sent, Arrived, ordered, abandoned, last, n)
  BY DEF OrderInv
<1>7. last' = last
  BY <1>5 DEF Stutters
<1> HIDE DEF last
<1>8. ReadsOk(messages, sent, Arrived \cup {t}, ordered', abandoned, last, n)
  <2>1. CASE Kind(sent[t]) # "unordered"
    <3>1. KindIn(messages, sent[t]) = "ordered"
      BY <1>6, <2>1 DEF KindIn, KindOf
    <3>2. ~Lt(Ssn(sent[t]), next_ssn)
      BY <1>1, <1>3, <1>6, <3>1, ReceiveOrdered
    <3>3. ordered' = [ordered EXCEPT ![messages[sent[t].msg].ssn] = @ \cup {t}]
      BY <1>2, <1>6, <2>1, <3>2 DEF PushOrdered
    <3>4. OrderedOk(messages, sent, Arrived \cup {t}, ordered') /\ NearOk(messages, sent, ordered')
      BY <1>2, <1>4 DEF ReceiverInv, QueueInv
    <3>5. NextIs(messages, sent, Arrived, next_ssn, n)
      BY <1>1, AheadOf
    <3> QED BY <1>1, <1>3, <3>1, <3>3, <3>4, <3>5, ReadsArrived
  <2>2. CASE Kind(sent[t]) = "unordered"
    <3>1. ordered' = ordered /\ KindIn(messages, sent[t]) # "ordered"
      BY <1>2, <1>6, <2>2 DEF PushUnordered
    <3> QED BY <3>1 DEF ReadsOk, NoneDropped
  <2> QED BY <2>1, <2>2
<1> QED BY <1>2, <1>4, <1>5, <1>7, <1>8 DEF OrderInv, last

\* A FORWARD TSN passes over messages that were given up.
LEMMA OrderForward ==
    ASSUME SenderInv, ReceiverInv, OrderInv, NEW t \in Tsns, HandleForwardTsn(t)
    PROVE  OrderInv' /\ Stutters
<1>1. /\ Sending(messages, sent, unordered) /\ messages \in Seq(Message) /\ SentOk(messages, sent)
      /\ Len(sent) \in Nat /\ peer_last_tsn \in 0 .. Len(sent) /\ payload_queue \in SUBSET (1 .. Len(sent))
      /\ Arrived \in SUBSET (1 .. Len(sent)) /\ peer_last_tsn + 1 \notin Arrived
      /\ OrderedOk(messages, sent, Arrived, ordered) /\ NearOk(messages, sent, ordered)
  BY ReceiverFacts
<1>2. QueueInv(messages, sent, Arrived, next_ssn, ordered, unordered_chunks, unordered_sets,
               n_bytes, delivered)
  BY DEF ReceiverInv
<1>3. /\ t \in Forwards /\ Advance(t, {u \in payload_queue : u > t})
      /\ (IF unordered THEN ForwardUnordered(t) ELSE ForwardOrdered(Ssn(sent[t])))
      /\ UNCHANGED <<messages, sent, abandoned, delivered>>
  BY DEF HandleForwardTsn, snd_vars
<1>4. t \in 1 .. Len(sent) /\ Ends(messages, sent[t])
  BY <1>3, ForwardEnds
<1>5. t > peer_last_tsn /\ \A u \in (peer_last_tsn + 1) .. t : sent[u].msg \in abandoned
  BY <1>3 DEF Forwards
<1> DEFINE q == {u \in payload_queue : u > t}
           last == LastOf(ReadNumbers)
<1>6. q \in SUBSET (1 .. Len(sent)) /\ t \in 0 .. Len(sent) /\ sent' = sent
  <2>1. t \in 0 .. Len(sent)
    BY <1>1, <1>4
  <2> QED BY <1>1, <1>3, <2>1
<1>7. Arrived' = (1 .. t) \cup q
  <2> HIDE DEF q
  <2>1. Advance(t, q)
    BY <1>3 DEF q
  <2> QED BY <1>1, <1>6, <2>1, AdvanceFacts
<1>8. Arrived' = Arrived \cup (1 .. t)
  <2>1. \A u \in payload_queue : u \in 1 .. t \/ u > t
    BY <1>1, <1>4
  <2>2. 1 .. peer_last_tsn \subseteq 1 .. t
    BY <1>1, <1>4, <1>5
  <2> QED BY <1>7, <2>1, <2>2 DEF Arrived
<1>9. ASSUME NEW u \in 1 .. t PROVE u \in (peer_last_tsn + 1) .. t \/ \A v \in 1 .. u : v \in Arrived
  BY <1>1, <1>4 DEF Arrived
<1>10. Stutters
  BY <1>3 DEF Stutters, Submitted, GivenUp, ReadNumbers
<1>11. last' = last
  BY <1>10 DEF Stutters
<1> HIDE DEF q, last
<1> PICK n \in Nat : Counted(messages, next_ssn, n)
                     /\ ReadsOk(messages, sent, Arrived, ordered, abandoned, last, n)
  BY DEF OrderInv, last
<1>12. \E n2 \in Nat : /\ Counted(messages, next_ssn', n2)
                       /\ ReadsOk(messages, sent, Arrived \cup (1 .. t), ordered', abandoned, last, n2)
  <2>1. CASE unordered
    <3>1. ordered' = ordered /\ next_ssn' = next_ssn
      BY <1>3, <2>1 DEF ForwardUnordered
    <3>2. KindsTo(messages, sent, Arrived, t, "unordered")
      <4> SUFFICES ASSUME NEW u \in 1 .. t, u \notin Arrived PROVE KindIn(messages, sent[u]) = "unordered"
        BY DEF KindsTo
      <4>1. sent[u].msg \in abandoned
        <5>1. u \in 1 .. u
          BY <1>4
        <5> QED BY <1>5, <1>9, <5>1
      <4>2. sent[u].msg \in 1 .. Len(messages) /\ ~messages[sent[u].msg].dcep
        BY <4>1 DEF SenderInv, AbandonedOk
      <4>3. messages[sent[u].msg].unordered
        BY <2>1, <4>2 DEF SenderInv, Numbered
      <4> QED BY <4>3 DEF KindIn, KindOf
    <3> QED BY <3>1, <3>2, ReadsPassed
  <2>2. CASE ~unordered
    <3> DEFINE final == messages[sent[t].msg].ssn
               dropped == DroppedOrdered(final)
    <3>1. /\ ordered' = Without(ordered, dropped)
          /\ next_ssn' = IF Lte(next_ssn, final) THEN NextSsn(final) ELSE next_ssn
      BY <1>3, <2>2 DEF ForwardOrdered, Ssn, Without
    <3>2. \A u \in 1 .. Len(sent) : KindIn(messages, sent[u]) = "ordered"
      <4> SUFFICES ASSUME NEW u \in 1 .. Len(sent) PROVE KindIn(messages, sent[u]) = "ordered"
        OBVIOUS
      <4>1. sent[u].msg \in 1 .. Len(messages)
        BY <1>1, SentAt
      <4>2. ~messages[sent[u].msg].unordered
        BY <2>2, <4>1 DEF SenderInv, Numbered
      <4> QED BY <4>2 DEF KindIn, KindOf
    <3>3. KindsTo(messages, sent, {}, t, "ordered")
      <4>1. \A u \in 1 .. t : u \in 1 .. Len(sent)
        BY <1>1, <1>4
      <4> QED BY <3>2, <4>1 DEF KindsTo
    <3>4. \E u \in 1 .. t : u \notin Arrived
      <4>1. peer_last_tsn + 1 \in 1 .. t
        BY <1>1, <1>4, <1>5
      <4> QED BY <1>1, <4>1
    <3>5. AllSentTo(messages, sent, t)
      BY <1>4, <3>2, EndsSent
    <3>6. Drops(messages, sent, ordered, final, dropped)
      <4>1. \A x \in Ssns : x \in dropped <=> ordered[x] # {} /\ Lte(x, final) /\ ~IsComplete(ordered[x])
        BY DEF DroppedOrdered, Held
      <4>2. dropped \in SUBSET Ssns
        BY DEF DroppedOrdered, Held
      <4> HIDE DEF dropped
      <4> QED BY <4>1, <4>2, OrderedComplete DEF Drops
    <3> HIDE DEF dropped
    <3>7. Lte(next_ssn, final)
      BY <1>1, <1>2, <1>4, <3>3, <3>4, <3>5, <3>6, PassOrdered
    <3>8. NextIs(messages, sent, Arrived, next_ssn, n)
      BY <1>1, <1>2, AheadOf
    <3>9. \A u \in 1 .. t : sent[u].msg \in abandoned \/ \A v \in 1 .. u : v \in Arrived
      BY <1>5, <1>9
    <3> DEFINE n2 == NumberIn(messages, sent[t].msg)
    <3>10. /\ Counted(messages, NextSsn(final), n2)
           /\ ReadsOk(messages, sent, Arrived \cup (1 .. t), Without(ordered, dropped), abandoned, last, n2)
      BY <1>1, <1>4, <3>3, <3>4, <3>5, <3>6, <3>8, <3>9, ReadsForwarded
    <3>11. n2 \in Nat
      BY <3>10 DEF Counted
    <3> QED BY <3>1, <3>7, <3>10, <3>11
  <2> QED BY <2>1, <2>2
<1> QED BY <1>3, <1>8, <1>10, <1>11, <1>12 DEF OrderInv, last

\* A message is read: an ordered one is delivered in its order.
LEMMA OrderRead ==
    ASSUME SenderInv, ReceiverInv, OrderInv, Read
    PROVE  OrderInv' /\ (Stutters \/ \E f \in 1 .. Submitted : Delivers(f))
<1>1. /\ Sending(messages, sent, unordered) /\ messages \in Seq(Message) /\ SentOk(messages, sent)
      /\ QueueInv(messages, sent, Arrived, next_ssn, ordered, unordered_chunks, unordered_sets,
                  n_bytes, delivered)
      /\ OfMessages(messages, delivered)
  BY ReceiverFacts, ReadMessages DEF ReceiverInv
<1>2. UNCHANGED <<messages, sent, abandoned, peer_last_tsn, payload_queue>>
  BY DEF Read, snd_vars
<1>3. Arrived' = Arrived /\ Submitted' = Submitted /\ GivenUp' = GivenUp
  BY <1>2 DEF Arrived, Submitted, GivenUp
<1> DEFINE last == LastOf(ReadNumbers)
<1> PICK n \in Nat : Counted(messages, next_ssn, n)
                     /\ ReadsOk(messages, sent, Arrived, ordered, abandoned, last, n)
  BY DEF OrderInv
<1>4. ASSUME NEW e \in 1 .. Len(sent), Ends(messages, sent[e]),
             delivered' = Append(delivered, Contents(Whole(sent, e)))
      PROVE  ReadNumbers' = IF messages[sent[e].msg].unordered THEN ReadNumbers
                            ELSE Append(ReadNumbers, NumberIn(messages, sent[e].msg))
  <2> DEFINE c == Contents(Whole(sent, e))
             m == sent[e].msg
  <2>1. c = [k \in 1 .. messages[m].len |-> [msg |-> m, n |-> k]] /\ c \in Seq(Fragment) /\ m \in 1 .. Len(messages)
    BY <1>1, <1>4, WholeContents
  <2>2. 1 \in 1 .. messages[m].len
    <3>1. messages[m] \in Message
      BY <1>1, <2>1
    <3>2. messages[m].len \in Nat \ {0}
      BY <3>1, MessageTypes
    <3> QED BY <3>2
  <2>3. c[1].msg = m
    BY <2>1, <2>2
  <2> HIDE DEF c
  <2>4. Numbers(messages, Append(delivered, c)) =
           IF messages[m].unordered THEN Numbers(messages, delivered)
           ELSE Append(Numbers(messages, delivered), NumberIn(messages, m))
    BY <1>1, <2>1, <2>3, NumbersRead
  <2>5. messages' = messages /\ delivered' = Append(delivered, c)
    BY <1>2, <1>4 DEF c
  <2> QED BY <2>4, <2>5 DEF ReadNumbers
<1>5. CASE ReadUnordered
  <2> DEFINE R == Head(unordered_sets)
  <2>1. /\ unordered_sets # <<>> /\ delivered' = Append(delivered, Contents(R))
        /\ ordered' = ordered /\ next_ssn' = next_ssn
    BY <1>5 DEF ReadUnordered
  <2>2. PICK e \in 1 .. Len(sent) :
           Ends(messages, sent[e]) /\ KindIn(messages, sent[e]) = "unordered" /\ R = Whole(sent, e)
    <3>1. SetsOk(messages, sent, Arrived, unordered_chunks, unordered_sets)
      BY <1>1 DEF QueueInv
    <3>2. 1 \in 1 .. Len(unordered_sets) /\ R = unordered_sets[1]
      BY <2>1, <3>1 DEF SetsOk
    <3> QED BY <3>1, <3>2 DEF SetsOk
  <2> HIDE DEF R
  <2>3. messages[sent[e].msg].unordered
    BY <2>2 DEF KindIn, KindOf
  <2>4. ReadNumbers' = ReadNumbers
    BY <1>4, <2>1, <2>2, <2>3
  <2> QED BY <1>2, <1>3, <2>1, <2>4 DEF OrderInv, Stutters
<1>6. CASE ReadOrdered
  <2> DEFINE x == First
             next2 == IF x = next_ssn THEN NextSsn(x) ELSE next_ssn
             o2 == [ordered EXCEPT ![x] = {}]
  <2>1. /\ Held # {} /\ IsComplete(ordered[x]) /\ ~Gt(x, next_ssn)
        /\ delivered' = Append(delivered, Contents(ordered[x]))
        /\ ordered' = o2 /\ next_ssn' = next2
    BY <1>6 DEF ReadOrdered
  <2>2. x \in Ssns /\ \A y \in Ssns : ordered[y] # {} => Lte(x, y)
    BY <2>1, FirstHeld DEF Held
  <2> HIDE DEF x
  <2> PICK e \in 1 .. Len(sent) : Ends(messages, sent[e]) /\ ordered[x] = Whole(sent, e)
    BY <2>1, <2>2, OrderedComplete
  <2> DEFINE f == NumberIn(messages, sent[e].msg)
  <2>3. Storing(messages, sent, Arrived, ordered)
    BY <1>1 DEF Storing, QueueInv
  <2>4. /\ \E n2 \in Nat : /\ Counted(messages, next2, n2)
                           /\ ReadsOk(messages, sent, Arrived, o2, abandoned, f, n2)
        /\ f \in 1 .. Submitted /\ f > last /\ ~messages[sent[e].msg].unordered
        /\ \A i \in 1 .. Len(messages) :
              ~messages[i].unordered /\ NumberIn(messages, i) > last /\ NumberIn(messages, i) < f => i \in abandoned
    <3> HIDE DEF last
    <3>1. last \in Nat
      BY DEF ReadsOk
    <3>2. ~Gt(x, next_ssn)
      BY <2>1
    <3>3. \E n2 \in Nat : /\ Counted(messages, next2, n2)
                          /\ ReadsOk(messages, sent, Arrived, o2, abandoned, f, n2)
      BY <2>2, <2>3, <3>1, <3>2, ReadsRead
    <3>4. IsNext(messages, abandoned, last, sent[e].msg)
      BY <2>2, <2>3, <3>1, <3>2, ReadsRead
    <3> QED BY <3>3, <3>4 DEF Submitted, IsNext
  <2>5. ReadNumbers' = Append(ReadNumbers, f)
    BY <1>4, <2>1, <2>4
  <2>6. ReadNumbers \in Seq(Nat) /\ f \in Nat
    BY <1>1, <2>4, NumbersType DEF ReadNumbers, Submitted
  <2> HIDE DEF f, next2, o2
  <2>7. last' = f
    <3>1. ASSUME NEW q \in Seq(Nat) PROVE LastOf(Append(q, f)) = f
      <4>1. Len(Append(q, f)) = Len(q) + 1 /\ Append(q, f)[Len(q) + 1] = f /\ Len(q) \in Nat
        BY <2>6
      <4>2. Append(q, f) # <<>>
        BY <4>1
      <4> QED BY <4>1, <4>2 DEF LastOf
    <3> QED BY <2>5, <2>6, <3>1 DEF last
  <2>8. (last + 1) .. (f - 1) \subseteq GivenUp
    <3> SUFFICES ASSUME NEW k \in (last + 1) .. (f - 1) PROVE k \in GivenUp
      OBVIOUS
    <3>1. last \in Nat /\ Submitted \in Nat /\ f <= Submitted
      <4>1. last \in Nat
        BY DEF ReadsOk
      <4>2. Submitted \in Nat
        BY <1>1, NumberNat DEF Submitted
      <4> QED BY <2>4, <4>1, <4>2
    <3> HIDE DEF last
    <3>2. k \in Nat \ {0} /\ k > last /\ k < f /\ k <= Submitted
      BY <2>6, <3>1
    <3>3. PICK i \in 1 .. Len(messages) : ~messages[i].unordered /\ NumberIn(messages, i) = k
      BY <1>1, <3>2, NumberReached DEF Submitted
    <3>4. i \in abandoned
      BY <2>4, <3>2, <3>3
    <3> QED BY <3>3, <3>4 DEF GivenUp
  <2>9. Delivers(f)
    BY <1>3, <2>4, <2>5, <2>8 DEF Delivers
  <2>10. OrderInv'
    BY <1>2, <1>3, <2>1, <2>4, <2>7 DEF OrderInv
  <2> QED BY <2>4, <2>9, <2>10
<1> QED BY <1>5, <1>6 DEF Read

\* Every step is one of those, or changes none of what was submitted, given up
\* or read in order.
LEMMA OrderNext ==
    ASSUME OneWriter, SenderInv, ReceiverInv, OrderInv, [Next]_vars
    PROVE  OrderInv' /\ (Submits \/ GivesUp \/ (\E f \in 1 .. Submitted : Delivers(f)) \/ Stutters)
<1>1. ASSUME NEW w \in Writers, Write(w) PROVE OrderInv' /\ (Submits \/ Stutters)
  BY <1>1, WriteFacts, OrderWrite
<1>2. ASSUME NEW w \in Writers, Push(w) PROVE OrderInv' /\ Stutters
  BY <1>2, OrderSame DEF Push
<1>3. CASE MovePending
  BY <1>3, OrderMove
<1>4. ASSUME NEW i \in 1 .. Len(messages), Abandon(i) PROVE OrderInv' /\ GivesUp
  BY <1>4, OrderAbandon
<1>5. ASSUME NEW t \in Tsns, HandleData(t) PROVE OrderInv' /\ Stutters
  BY <1>5, DataStep, OrderData
<1>6. ASSUME NEW t \in Tsns, HandleForwardTsn(t) PROVE OrderInv' /\ Stutters
  BY <1>6, OrderForward
<1>7. CASE Read
  BY <1>7, OrderRead
<1>8. CASE UNCHANGED vars
  BY <1>8, OrderSame DEF vars, snd_vars
<1> QED BY <1>1, <1>2, <1>3, <1>4, <1>5, <1>6, <1>7, <1>8 DEF Next

LEMMA OrderInit ==
    ASSUME Init
    PROVE  OrderInv /\ Submitted = 0 /\ GivenUp = {} /\ ReadNumbers = <<>>
<1>1. /\ messages = <<>> /\ sent = <<>> /\ peer_last_tsn = 0 /\ payload_queue = {} /\ next_ssn = FirstSsn
      /\ ordered = [x \in Ssns |-> {}] /\ abandoned = {} /\ delivered = <<>>
  BY DEF Init
<1>2. Arrived = {} /\ Len(messages) = 0 /\ Len(delivered) = 0
  BY <1>1 DEF Arrived
<1>3. NumberIn(messages, 0) = 0
  BY NumberFacts
<1>4. Submitted = 0 /\ GivenUp = {}
  BY <1>1, <1>2, <1>3 DEF Submitted, GivenUp
<1>5. ReadNumbers = <<>>
  <2>1. ReadsTo(messages, delivered, Len(delivered)) = {}
    BY <1>2 DEF ReadsTo
  <2>2. Cardinality(ReadsTo(messages, delivered, Len(delivered))) = 0
    BY <2>1, FS_EmptySet
  <2> QED BY <2>2 DEF ReadNumbers, Numbers
<1>6. LastOf(ReadNumbers) = 0
  BY <1>5 DEF LastOf
<1>7. Counted(messages, next_ssn, 0)
  <2>1. Wrap(0) = FirstSsn /\ SsnHalf \in Nat \ {0} /\ 0 \in Nat
    BY WrapFacts, SpaceFacts
  <2> QED BY <1>1, <1>2, <1>3, <2>1 DEF Counted
<1>8. ReadsOk(messages, sent, {}, ordered, {}, 0, 0)
  BY <1>1, <1>2 DEF ReadsOk, GivenUpOrHeld, NoneDropped, AfterRead
<1> QED BY <1>1, <1>2, <1>4, <1>5, <1>6, <1>7, <1>8 DEF OrderInv

\* Reads go on from SenderInv and ReceiverInv.
LEMMA OrderAlways == ASSUME OneWriter PROVE Spec => [](SenderInv /\ ReceiverInv /\ OrderInv)
<1>1. Init => OrderInv
  BY OrderInit
<1>2. SenderInv /\ ReceiverInv /\ OrderInv /\ [Next]_vars => OrderInv'
  BY OrderNext
<1> QED BY <1>1, <1>2, ReceiverAlways, PTL DEF Spec

\* The refinement mapping, in the terms of the lemmas above.
Mapped ==
    /\ Ordinal(Len(messages)) = Submitted
    /\ {Ordinal(i) : i \in {j \in abandoned : ~messages[j].unordered}} = GivenUp
    /\ [n \in 1 .. Cardinality(OrderedReads(Len(delivered))) |-> Ordinal(delivered[NthRead(n)][1].msg)] = ReadNumbers

LEMMA MappedSame == Mapped
<1>1. \A i : Ordinal(i) = NumberIn(messages, i)
  BY DEF Ordinal, NumberIn
<1>2. \A i : OrderedReads(i) = ReadsTo(messages, delivered, i)
  BY DEF OrderedReads, ReadsTo
<1>3. \A n : NthRead(n) = Nth(messages, delivered, n)
  BY <1>2, Zenon DEF NthRead, Nth
<1> QED BY <1>1, <1>2, <1>3 DEF Mapped, Submitted, GivenUp, ReadNumbers, Numbers

LEMMA MappedNext == Mapped'
  BY MappedSame, PTL

LEMMA MappedStep ==
    ASSUME OneWriter, SenderInv, ReceiverInv, OrderInv, [Next]_vars
    PROVE  [Promise!Next]_(Promise!vars)
<1>0. Mapped /\ Mapped'
  BY MappedSame, MappedNext
<1>1. CASE Submits
  <2>1. Promise!Submit
    BY <1>1, <1>0 DEF Mapped, Submits, Promise!Submit
  <2> QED BY <2>1 DEF Promise!Next
<1>2. CASE GivesUp
  <2>1. Promise!GiveUp
    BY <1>2, <1>0 DEF Mapped, GivesUp, Promise!GiveUp, Promise!Messages
  <2> QED BY <2>1 DEF Promise!Next
<1>3. ASSUME NEW f \in 1 .. Submitted, Delivers(f) PROVE Promise!Next
  <2>1. Promise!Deliver(f)
    BY <1>3, <1>0 DEF Mapped, Delivers, Promise!Deliver, Promise!LastRead, LastOf
  <2>2. f \in Promise!Messages
    BY <1>0 DEF Mapped, Promise!Messages
  <2> QED BY <2>1, <2>2 DEF Promise!Next
<1>4. CASE Stutters
  BY <1>4, <1>0 DEF Mapped, Stutters, Promise!vars
<1> QED BY <1>1, <1>2, <1>3, <1>4, OrderNext

\* What is read of the ordered messages is what OrderedDelivery promises: in the
\* order they were written, none twice, and a message that is passed over was
\* given up by its sender.
THEOREM ImplementsOrderedDelivery == ASSUME OneWriter PROVE Spec => DeliversInOrder
<1>1. Init => Promise!Init
  BY OrderInit, MappedSame DEF Mapped, Promise!Init
<1>2. SenderInv /\ ReceiverInv /\ OrderInv /\ [Next]_vars => [Promise!Next]_(Promise!vars)
  BY MappedStep
<1> QED BY <1>1, <1>2, OrderAlways, PTL DEF Spec, DeliversInOrder, Promise!Spec
=============================================================================
