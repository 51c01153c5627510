------------------------------ MODULE Packets ------------------------------
(***************************************************************************)
(* From chunks to packets and back: how the DATA of one gather is bundled, *)
(* how SACK and FORWARD TSN are made from the queues, how a packet is      *)
(* marshalled, parsed chunk by chunk at the other end, checked, and its    *)
(* chunks handed to their handlers (handle_inbound, handle_chunk) with     *)
(* what these answer.  Wire has the bytes.                                 *)
(*                                                                         *)
(* A behaviour begins with what one side has to send: packets that this    *)
(* program makes, or ("peer") packets of another implementation, which     *)
(* also bundles control chunks and sends chunks this program does not      *)
(* know.  What the handlers do to the association is in the other modules; *)
(* here they are taken to accept the chunk, but for what handle_chunk      *)
(* itself refuses.                                                         *)
(***************************************************************************)
EXTENDS Wire, FiniteSets, FiniteSetsExt, SerialNumbers

CONSTANTS
    Mtu,         \* self.mtu
    Lengths,     \* bound: bytes of user data in a chunk
    MaxData,     \* bound: DATA chunks in one gather
    MaxGap,      \* bound: how far past the cumulative TSN chunks have arrived
    MaxBundle    \* bound: chunks a peer puts into a packet

ASSUME PacketsAssumption ==
    /\ MaxBundle \in Nat
    /\ Mtu \in Nat /\ Mtu <= 65535
    /\ MaxData \in Nat /\ MaxData <= 65535   \* the SSNs of a gather do not wrap
    /\ MaxGap \in Nat /\ MaxGap <= 32754     \* the length of a SACK has 16 bits
    /\ Lengths \subseteq 1 .. (Mtu - 28)      \* max_payload_size

VARIABLES
    origin,      \* history: what there was to send
    queue,       \* packets still to be sent
    packet,      \* history: the packet being received
    raw,         \* its bytes
    phase,       \* of handle_inbound: "idle" "parse" "handle" "dropped" "closed"
    offset, chunks,       \* of Packet::unmarshal
    handled,     \* chunks of this packet that handle_chunk has finished with
    replies,     \* history: what handle_chunk put into control_queue for each of
                 \* them, and for the one it refused
    requests,    \* reconfig_requests: the sequence numbers of its keys
    delivered    \* history: DATA given to handle_data

vars == <<origin, queue, packet, raw, phase, offset, chunks, handled, replies, requests, delivered>>

-----------------------------------------------------------------------------
(* What is sent.                                                           *)

Port == 5000
create_packet(cs) == [sport |-> Port, dport |-> Port, tag |-> 7001, chunks |-> cs]
InitPacket(c) == [create_packet(<<c>>) EXCEPT !.tag = 0]

\* Mutant: a packet that is full is replaced, not pushed.
BugFlush(acc) == [acc EXCEPT !.open = <<>>, !.bytes = 12]

Flush(acc) == [packets |-> Append(acc.packets, acc.open), open |-> <<>>, bytes |-> 12]

BundleOne(acc, c) ==
    LET a == IF acc.bytes + Len(c.user_data) > Mtu THEN Flush(acc) ELSE acc
    IN  [a EXCEPT !.open = Append(@, c), !.bytes = @ + 16 + Len(c.user_data)]

BundleAll(cs) ==
    LET acc[k \in 0 .. Len(cs)] == IF k = 0 THEN [packets |-> <<>>, open |-> <<>>, bytes |-> 12]
                                  ELSE BundleOne(acc[k - 1], cs[k])
    IN  acc[Len(cs)]

bundle_data_chunks_into_packets(cs) ==
    LET done == BundleAll(cs)
    IN  IF done.open = <<>> THEN done.packets ELSE Append(done.packets, done.open)

\* One step of the loop of get_gap_ack_blocks; blocks ends with the block b.
Diff(tsn, cum) == IF tsn >= cum THEN (tsn - cum) % 65536 ELSE 0

\* Mutant: a block is closed by the chunk that follows its last but one.
BugExtends(b, diff) == b.end + 2 = diff
Extends(b, diff) == b.end + 1 = diff

GapBlock(cum, blocks, tsn) ==
    LET d == Diff(tsn, cum) IN
    IF blocks # <<>> /\ Extends(Last(blocks), d)
    THEN [blocks EXCEPT ![Len(blocks)].end = @ + 1]
    ELSE Append(blocks, [start |-> d, end |-> d])

\* The TSNs of the payload queue in their order, none of them past cum + MaxGap.
get_gap_ack_blocks(rcvd, cum) ==
    LET blocks[d \in 0 .. MaxGap] ==
          IF d = 0 THEN <<>>
          ELSE IF cum + d \in rcvd THEN GapBlock(cum, blocks[d - 1], cum + d)
          ELSE blocks[d - 1]
    IN  blocks[MaxGap]

create_selective_ack_chunk(cum, rcvd, dups) ==
    [typ |-> CT.SACK, cum |-> cum, rwnd |-> 70000,
     gaps |-> get_gap_ack_blocks(rcvd, cum), dups |-> dups]

\* stream_map after the chunk c: the greatest SSN of each stream.
StreamMap(m, c) ==
    IF c.si \in DOMAIN m /\ ~SernoLt(m[c.si], c.ssn, 32768) THEN m
    ELSE [s \in DOMAIN m \cup {c.si} |-> IF s = c.si THEN c.ssn ELSE m[s]]

stream_map(abandoned) ==
    LET map[k \in 0 .. Len(abandoned)] ==
          IF k = 0 THEN [s \in {} |-> 0] ELSE StreamMap(map[k - 1], abandoned[k])
    IN  map[Len(abandoned)]

\* The map is iterated in any order.
create_forward_tsn(cum, abandoned) ==
    LET m == stream_map(abandoned)
    IN  {[typ |-> CT.FORWARD_TSN, cum |-> cum + Len(abandoned), streams |-> ss]
         : ss \in SetToSeqs({[si |-> s, ssn |-> m[s]] : s \in DOMAIN m})}

Data(n, len, flags) ==
    [typ |-> CT.DATA, E |-> "E" \in flags, B |-> "B" \in flags, U |-> "U" \in flags,
     I |-> "I" \in flags, tsn |-> 70000 + n, si |-> 300, ssn |-> n, ppi |-> IF "U" \in flags THEN 53 ELSE 51,
     user_data |-> [i \in 1 .. len |-> (200 + n) % 256]]

set_supported_extensions == [typ |-> PT.SupportedExt, value |-> <<CT.RECONFIG, CT.FORWARD_TSN>>]
my_cookie == [typ |-> PT.StateCookie, value |-> [i \in 1 .. 32 |-> i]]

InitOf(typ, ps) ==
    [typ |-> typ, tag |-> 7001, rwnd |-> 1048576, os |-> 65535, is |-> 65535,
     tsn |-> 70000, params |-> ps]

ResetRequest(sids) ==
    [typ |-> PT.OutSsnResetReq, req |-> 70001, resp |-> 0, last |-> 70003, sids |-> sids]
ResetResponse(result) == [typ |-> PT.ReconfigResp, rsn |-> 70001, result |-> result]

\* Control packets of this program; the answers to INIT follow it.
Control ==
    {InitPacket(InitOf(CT.INIT, <<set_supported_extensions>>))}
    \cup {create_packet(<<c>>) : c \in
            {CookieAck, ShutdownAck, ShutdownComplete, [typ |-> CT.SHUTDOWN, cum |-> 70000]}
            \cup {[typ |-> CT.RECONFIG, params |-> <<p>>] : p \in
                    {ResetRequest([k \in 1 .. n |-> 300 + k]) : n \in 1 .. 3}
                    \cup {ResetResponse(r) : r \in {1, 6}}}}

-----------------------------------------------------------------------------
(* What another implementation sends.                                      *)

Unknown(t, len) == [typ |-> t, flags |-> 1, value |-> [i \in 1 .. len |-> i]]
HeartbeatOf(len) ==
    [typ |-> CT.HEARTBEAT, info |-> [typ |-> PT.HeartbeatInfo, value |-> [i \in 1 .. len |-> i]]]

\* Chunks that may stand anywhere in a packet; 64 is I-DATA, 132 PAD, 193 ASCONF.
Bundled ==
    {Data(1, 3, {"B", "E"}), create_selective_ack_chunk(70000, {70002, 70003}, <<70000>>),
     HeartbeatOf(5), CookieAck, [typ |-> CT.COOKIE_ECHO, cookie |-> my_cookie.value],
     [typ |-> CT.RECONFIG, params |-> <<ResetResponse(1), ResetRequest(<<300>>)>>],
     [typ |-> CT.RECONFIG, params |-> <<ResetRequest(<<300>>), ResetResponse(1)>>],
     [typ |-> CT.RECONFIG, params |-> <<ResetRequest(<<300>>), set_supported_extensions>>],
     Unknown(64, 2), Unknown(132, 3), Unknown(193, 5)}

\* Chunks that this program parses only at the end of a packet.
AtTheEnd ==
    {[typ |-> CT.FORWARD_TSN, cum |-> 70001, streams |-> <<[si |-> 300, ssn |-> 1]>>],
     [typ |-> CT.SHUTDOWN, cum |-> 70000],
     [typ |-> CT.ABORT, causes |-> <<[code |-> 12, raw |-> <<1, 2, 3>>]>>],
     [typ |-> CT.ERROR, causes |-> <<[code |-> 3, raw |-> <<1, 2, 3, 4>>], [code |-> 8, raw |-> <<5>>]>>],
     [typ |-> CT.HEARTBEAT_ACK, flags |-> 0, value |-> <<0, 1, 0, 5, 9>>]}

PeerParams == <<[typ |-> PT.ForwardTsnSupp, value |-> <<>>], [typ |-> PT.Random, value |-> <<1, 2, 3>>],
                [typ |-> PT.ChunkList, value |-> <<193>>], [typ |-> PT.ReqHmacAlgo, value |-> <<0, 1, 0, 3>>],
                [typ |-> 49158, value |-> <<1, 2>>], set_supported_extensions>>

FromPeer ==
    {InitPacket(InitOf(CT.INIT, PeerParams))}
    \cup {create_packet(s) : s \in UNION {[1 .. n -> Bundled] : n \in 1 .. MaxBundle}}
    \cup {create_packet(s \o <<c>>) : s \in {<<>>} \cup {<<b>> : b \in Bundled}, c \in AtTheEnd}

-----------------------------------------------------------------------------
SendData ==
    \E n \in 1 .. MaxData : \E ls \in [1 .. n -> Lengths] : \E flags \in {{"B", "E"}, {"U", "I"}} :
        LET data == [k \in 1 .. n |-> Data(k, ls[k], flags)]
            bundles == bundle_data_chunks_into_packets(data)
        IN  /\ origin = [kind |-> "data", data |-> data]
            /\ queue = [k \in DOMAIN bundles |-> create_packet(bundles[k])]

SendSack ==
    \E rcvd \in SUBSET (70001 .. (70000 + MaxGap)), dups \in {<<>>, <<70000, 70003>>} :
        /\ origin = [kind |-> "sack", rcvd |-> rcvd]
        /\ queue = <<create_packet(<<create_selective_ack_chunk(70000, rcvd, dups)>>)>>

\* Bound: chunks of two streams, with sequence numbers that wrap.
Abandoned == [si : {0, 300}, ssn : {65535, 0, 1}]
Cum == 70000

SendForwardTsn ==
    \E n \in 1 .. 3 : \E abandoned \in [1 .. n -> Abandoned] :
        /\ origin = [kind |-> "forward", abandoned |-> abandoned]
        /\ \E c \in create_forward_tsn(Cum, abandoned) : queue = <<create_packet(<<c>>)>>

SendControl == \E p \in Control : origin = [kind |-> "control"] /\ queue = <<p>>
SendPeer    == \E p \in FromPeer : origin = [kind |-> "peer"] /\ queue = <<p>>

Init ==
    /\ SendData \/ SendSack \/ SendForwardTsn \/ SendControl \/ SendPeer
    /\ packet = create_packet(<<>>) /\ raw = <<>> /\ phase = "idle" /\ offset = 12
    /\ chunks = <<>> /\ handled = <<>> /\ replies = <<>> /\ requests = {} /\ delivered = <<>>

-----------------------------------------------------------------------------
(* The receiver.                                                           *)

Send ==
    /\ phase = "idle" /\ queue # <<>>
    /\ packet' = Head(queue) /\ queue' = Tail(queue)
    /\ raw' = Marshal(packet')
    /\ phase' = "parse" /\ offset' = 12 /\ chunks' = <<>> /\ handled' = <<>> /\ replies' = <<>>
    /\ UNCHANGED <<origin, requests, delivered>>

\* One turn of the loop of Packet::unmarshal.
UnmarshalChunk ==
    /\ phase = "parse" /\ offset # Len(raw)
    /\ LET cs == ParseChunk(Slice(raw, offset, Len(raw))) IN
       IF cs = {} THEN phase' = "dropped" /\ UNCHANGED <<offset, chunks>>
       ELSE \E c \in cs :
              /\ chunks' = Append(chunks, c)
              /\ offset' = offset + 4 + ValueLength(c) + PaddingSize(ValueLength(c))
              /\ phase' = phase
    /\ UNCHANGED <<origin, queue, packet, raw, handled, replies, requests, delivered>>

Received == [sport |-> Get16(raw, 0), dport |-> Get16(raw, 2), tag |-> Get32(raw, 4), chunks |-> chunks]

\* The end of unmarshal, and check_packet.
Checked ==
    /\ phase = "parse" /\ offset = Len(raw)
    /\ phase' = IF CheckPacket(Received) THEN "handle" ELSE "dropped"
    /\ UNCHANGED <<origin, queue, packet, raw, offset, chunks, handled, replies, requests, delivered>>

CheckChunk(c) ==
    c.typ \in {CT.INIT, CT.INIT_ACK} => c.tag # 0 /\ c.is # 0 /\ c.os # 0 /\ c.rwnd >= 1500

\* The two highest bits of a type no handler is for.
HandleCode(typ) == IF typ \in Parsed THEN "known" ELSE <<"00", "01", "10", "11">>[1 + typ \div 64]

CookieOf(c) == {c.params[k] : k \in {j \in DOMAIN c.params : c.params[j].typ = PT.StateCookie}}

\* Mutant: the two kinds of chunk that are skipped are taken for each other.
BugReported(code) == code \in {"01", "10"}
Reported(code) == code \in {"01", "11"}

\* The chunks with which handle_init, handle_init_ack, handle_heartbeat and
\* handle_chunk itself answer.
InitAck == InitOf(CT.INIT_ACK, <<my_cookie, set_supported_extensions>>)
Echo(c) == [typ |-> CT.COOKIE_ECHO, cookie |-> (CHOOSE p \in CookieOf(c) : TRUE).value]
handle_heartbeat(c) == [typ |-> CT.HEARTBEAT_ACK, info |-> c.info]
Unrecognized(c) ==
    [typ |-> CT.ERROR, causes |-> <<[code |-> UNRECOGNIZED_CHUNK_TYPE, raw |-> MarshalChunk(c)]>>]

\* A handler leaves answers and the stored requests; most leave these alone.
Only(as) == [answers |-> as, requests |-> requests]

\* A request is performed when the DATA before it has arrived (Streams has the test),
\* and else kept.
SuccessPerformed == 1
InProgress == 6
Results == {SuccessPerformed, InProgress}
Response(req, result) ==
    [typ |-> CT.RECONFIG, params |-> <<[typ |-> PT.ReconfigResp, rsn |-> req, result |-> result]>>]
reset_streams_if_any(o, req) ==
    {[answers |-> Append(o.answers, Response(req, SuccessPerformed)), requests |-> o.requests \ {req}],
     [answers |-> Append(o.answers, Response(req, InProgress)), requests |-> o.requests \cup {req}]}

ErrParamterType(p) == p.typ \notin {PT.OutSsnResetReq, PT.ReconfigResp}
handle_reconfig_param(o, p) ==
    IF p.typ = PT.OutSsnResetReq THEN reset_streams_if_any(o, p.req) ELSE {o}

\* The error of param_b drops the answer to param_a.
handle_reconfig(c) ==
    LET a == handle_reconfig_param(Only(<<>>), c.params[1])
    IN  IF Len(c.params) = 1 \/ ErrParamterType(c.params[1]) THEN a
        ELSE IF ErrParamterType(c.params[2]) THEN {[o EXCEPT !.answers = <<>>] : o \in a}
        ELSE UNION {handle_reconfig_param(o, c.params[2]) : o \in a}

\* handle_peer_last_tsn_and_acknowledgement answers every stored request again, in any
\* order, when the cumulative TSN moves.  Bound: it moves once for a chunk at most.
AnswerAgain ==
    {Only(<<>>)} \cup
    {[answers |-> [k \in DOMAIN rs |->
                     Response(rs[k], IF rs[k] \in done THEN SuccessPerformed ELSE InProgress)],
      requests |-> requests \ done]
     : rs \in SetToSeqs(requests), done \in SUBSET requests}

\* Whether FORWARD TSN was negotiated with another implementation is left open; its
\* default error cause has neither a code nor a chunk.
NotEnabled == [typ |-> CT.ERROR, causes |-> <<[code |-> 0, raw |-> <<>>]>>]
handle_forward_tsn ==
    AnswerAgain \cup (IF origin.kind = "peer" THEN {Only(<<NotEnabled>>)} ELSE {})

Outcomes(c) ==
    IF ~CheckChunk(c) THEN {Only(<<>>)}
    ELSE CASE c.typ = CT.INIT -> {Only(<<InitAck>>)}
           [] c.typ = CT.INIT_ACK /\ CookieOf(c) # {} -> {Only(<<Echo(c)>>)}
           [] c.typ = CT.COOKIE_ECHO /\ c.cookie = my_cookie.value -> {Only(<<CookieAck>>)}
           [] c.typ = CT.HEARTBEAT -> {Only(<<handle_heartbeat(c)>>)}
           [] c.typ = CT.RECONFIG -> handle_reconfig(c)
           [] c.typ = CT.DATA -> AnswerAgain
           [] c.typ = CT.FORWARD_TSN -> handle_forward_tsn
           [] Reported(HandleCode(c.typ)) -> {Only(<<Unrecognized(c)>>)}
           [] OTHER -> {Only(<<>>)}

\* handle_chunk returns an error, and the read loop closes the association.
Refused(c) ==
    \/ ~CheckChunk(c)
    \/ c.typ \in {CT.ABORT, CT.ERROR}
    \/ HandleCode(c.typ) \in {"00", "01"}
    \/ c.typ = CT.INIT_ACK /\ CookieOf(c) = {}
    \/ c.typ = CT.RECONFIG /\ \E k \in DOMAIN c.params : ErrParamterType(c.params[k])

InPackets(as) == [k \in DOMAIN as |-> create_packet(<<as[k]>>)]

\* Answers to this program's own packets reach its peer; another implementation's
\* peer is not followed further.
HandleChunk ==
    /\ phase = "handle" /\ Len(handled) < Len(chunks)
    /\ LET c == chunks[Len(handled) + 1] IN
       /\ \E o \in Outcomes(c) :
            /\ replies' = Append(replies, InPackets(o.answers))
            /\ requests' = o.requests
            /\ queue' = IF origin.kind = "control" THEN queue \o InPackets(o.answers) ELSE queue
       /\ IF Refused(c) THEN phase' = "closed" /\ UNCHANGED <<handled, delivered>>
          ELSE /\ handled' = Append(handled, c)
               /\ delivered' = IF c.typ = CT.DATA THEN Append(delivered, c) ELSE delivered
               /\ phase' = phase
    /\ UNCHANGED <<origin, packet, raw, offset, chunks>>

EndPacket ==
    /\ phase = "handle" /\ handled = chunks
    /\ phase' = "idle"
    /\ UNCHANGED <<origin, queue, packet, raw, offset, chunks, handled, replies, requests, delivered>>

Next == Send \/ UnmarshalChunk \/ Checked \/ HandleChunk \/ EndPacket
Spec == Init /\ [][Next]_vars

-----------------------------------------------------------------------------
(* Properties.                                                             *)

\* What was marshalled is parsed to the same chunks, one after the other, each from
\* where it was written; no packet is dropped.  (value_length(), marshal_to() and
\* unmarshal() of every chunk and parameter agree, on the boundaries of four bytes.)
ParsesWhatWasSent ==
    /\ phase # "dropped"
    /\ offset % 4 = 0 /\ \A k \in DOMAIN raw : raw[k] \in 0 .. 255
    /\ phase # "idle" =>
         /\ IsPrefix(chunks, packet.chunks)
         /\ offset = 12 + Len(MarshalChunks(chunks))

\* Bundling loses, repeats and reorders no DATA: what is delivered is what was
\* gathered, all of it when everything is sent.  No packet is empty, and none is
\* longer than the MTU by more than the header that the test of
\* bundle_data_chunks_into_packets leaves out and the padding.
BundlesData ==
    origin.kind = "data" =>
        /\ IsPrefix(delivered, origin.data)
        /\ phase = "idle" /\ queue = <<>> => delivered = origin.data
        /\ phase # "idle" => packet.chunks # <<>>
        /\ Len(raw) <= Mtu + 16 + 3 * Len(packet.chunks)

NamesArrived(sack, rcvd) ==
    UNION {(sack.cum + g.start) .. (sack.cum + g.end) : g \in ToSet(sack.gaps)} = rcvd

NamesAbandoned(skip, abandoned) ==
    LET ss == ToSet(skip.streams)
        gone == ToSet(abandoned)
    IN  /\ ss \subseteq gone
        /\ Len(skip.streams) = Cardinality({c.si : c \in gone})
        /\ \A c \in gone : \E s \in ss : s.si = c.si /\ SernoLte(c.ssn, s.ssn, 32768)

\* A SACK, as received, names the chunks in the payload queue and no other; a
\* FORWARD TSN names every stream of an abandoned chunk once, with the last of
\* its sequence numbers in serial order.
ReportsExact ==
    \A k \in DOMAIN chunks :
        /\ origin.kind = "sack" => NamesArrived(chunks[k], origin.rcvd)
        /\ origin.kind = "forward" => NamesAbandoned(chunks[k], origin.abandoned)

\* The answer a can be parsed, as its packet carries it, and holds what it answers: the
\* report of a chunk the whole chunk, the HEARTBEAT ACK the information of the HEARTBEAT.
Answered(c, a) ==
    LET b == PadTo4(MarshalChunk(a)) IN
    /\ c.typ = 193 => \E e \in ParseChunk(b) : ParseChunk(e.causes[1].raw) = {c}
    /\ c.typ = CT.HEARTBEAT => BuildParam(Slice(b, 4, Len(b))) = {c.info}

Tells(p, req, result) == p = create_packet(<<Response(req, result)>>)

\* Each reset request of c has one of the answers rs, and no other request has.
EachRequestAnswered(c, rs) ==
    LET asked == {k \in DOMAIN c.params : c.params[k].typ = PT.OutSsnResetReq}
    IN  \E f \in Bijection(DOMAIN rs, asked) :
            \A k \in DOMAIN rs : \E result \in Results : Tells(rs[k], c.params[f[k]].req, result)

\* Some answer of those to earlier chunks says that req is in progress, and no later
\* one that it is performed.
LeftInProgress(req, before) ==
    \E j \in DOMAIN before :
        /\ \E p \in ToSet(before[j]) : Tells(p, req, InProgress)
        /\ \A m \in DOMAIN before : m > j =>
              \A p \in ToSet(before[m]) : ~Tells(p, req, SuccessPerformed)

\* The answers rs to c are what c calls for; before has those to earlier chunks.
CalledFor(c, rs, before) ==
    CASE c.typ \in {CT.INIT, CT.COOKIE_ECHO, CT.HEARTBEAT, 193} ->
            Len(rs) = 1 /\ Answered(c, rs[1].chunks[1])
      [] c.typ = CT.RECONFIG -> EachRequestAnswered(c, rs)
      [] c.typ \in {CT.DATA, CT.FORWARD_TSN} ->
            \/ c.typ = CT.FORWARD_TSN /\ rs = <<create_packet(<<NotEnabled>>)>>
            \/ \A p \in ToSet(rs) :
                  LET req == p.chunks[1].params[1].rsn IN
                  LeftInProgress(req, before) /\ \E result \in Results : Tells(p, req, result)
      [] OTHER -> rs = <<>>

\* A chunk that may be skipped hides no other: every chunk of a packet is handled, in
\* order, and only one whose type, or parameter, nobody knows or that reports an error
\* ends the association.  What asks is answered, once.  DATA and FORWARD TSN bring
\* further answers only to reset requests left in progress, none to one performed.
EveryChunkHandled ==
    /\ phase = "idle" => handled = packet.chunks
    /\ phase = "closed" =>
         LET c == packet.chunks[Len(handled) + 1] IN
         \/ c.typ \in {CT.ABORT, CT.ERROR, CT.HEARTBEAT_ACK, 64}
         \/ c.typ = CT.RECONFIG /\ \E k \in DOMAIN c.params : ErrParamterType(c.params[k])
    /\ origin.kind = "peer" /\ phase \in {"handle", "idle"} =>
         /\ Len(replies) = Len(handled)
         /\ \A k \in DOMAIN handled : CalledFor(handled[k], replies[k], SubSeq(replies, 1, k - 1))
=============================================================================
