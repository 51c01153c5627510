-------------------------------- MODULE Wire --------------------------------
(***************************************************************************)
(* The byte layout of SCTP packets as packet.rs, chunk/, param/ and        *)
(* error_cause.rs write and read it.                                       *)
(*                                                                         *)
(* A byte is a number below 256, bytes are a sequence, offsets count from  *)
(* 0 as in the code.  For every chunk there is what value_length() says,   *)
(* what marshal_to() writes after the header and what unmarshal() makes of *)
(* the rest of the packet: the three are separate functions in the code,   *)
(* and nothing but agreement between them keeps a packet readable.         *)
(* unmarshal returns a set: {chunk}, or {} for an error.                   *)
(*                                                                         *)
(* Numbers of 32 bits stay below 2^31 here (TLC's integers).               *)
(***************************************************************************)
EXTENDS Integers, Sequences, SequencesExt

CT == [DATA |-> 0, INIT |-> 1, INIT_ACK |-> 2, SACK |-> 3, HEARTBEAT |-> 4,
       HEARTBEAT_ACK |-> 5, ABORT |-> 6, SHUTDOWN |-> 7, SHUTDOWN_ACK |-> 8, ERROR |-> 9,
       COOKIE_ECHO |-> 10, COOKIE_ACK |-> 11, SHUTDOWN_COMPLETE |-> 14,
       RECONFIG |-> 130, FORWARD_TSN |-> 192]

PT == [HeartbeatInfo |-> 1, StateCookie |-> 7, OutSsnResetReq |-> 13, ReconfigResp |-> 16,
       Random |-> 32770, ChunkList |-> 32771, ReqHmacAlgo |-> 32772,
       SupportedExt |-> 32776, ForwardTsnSupp |-> 49152]

UNRECOGNIZED_CHUNK_TYPE == 6

U16(v) == <<v \div 256, v % 256>>
U32(v) == U16(v \div 65536) \o U16(v % 65536)
At(b, i) == b[i + 1]
Get16(b, i) == At(b, i) * 256 + At(b, i + 1)
Get32(b, i) == Get16(b, i) * 65536 + Get16(b, i + 2)
Slice(b, from, to) == SubSeq(b, from + 1, to)
Words16(b, from, n) == [k \in 1 .. n |-> Get16(b, from + 2 * (k - 1))]
Words32(b, from, n) == [k \in 1 .. n |-> Get32(b, from + 4 * (k - 1))]

PaddingSize(len) == (4 - (len % 4)) % 4
Padding(len) == [i \in 1 .. PaddingSize(len) |-> 0]

\* The two enumerations with a conversion from numbers: what they do not know
\* becomes Unknown, whose own number is the one after the last.
PayloadProtocolIdentifier(v) == IF v \in {50, 51, 53, 56, 57} THEN v ELSE 58
ReconfigResult(v) == IF v \in 0 .. 6 THEN v ELSE 7

\* All but the last element are padded.
Padded(items) == FlattenSeq([k \in DOMAIN items |->
                     IF k = Len(items) THEN items[k] ELSE items[k] \o Padding(Len(items[k]))])

-----------------------------------------------------------------------------
(* Parameters.  Those whose value is copied, or a list of bytes, are       *)
(* [typ, value]; a reset request and its response have fields.             *)

ParamLength(p) ==
    CASE p.typ = PT.OutSsnResetReq -> 12 + 2 * Len(p.sids)
      [] p.typ = PT.ReconfigResp -> 8
      [] p.typ = PT.ForwardTsnSupp -> 0
      [] OTHER -> Len(p.value)

OutgoingResetValue(p) ==
    U32(p.req) \o U32(p.resp) \o U32(p.last) \o FlattenSeq([k \in DOMAIN p.sids |-> U16(p.sids[k])])

ReconfigResponseValue(p) == U32(p.rsn) \o U32(p.result)

ParamValue(p) ==
    CASE p.typ = PT.OutSsnResetReq -> OutgoingResetValue(p)
      [] p.typ = PT.ReconfigResp -> ReconfigResponseValue(p)
      [] p.typ = PT.ForwardTsnSupp -> <<>>
      [] OTHER -> p.value

MarshalParam(p) == U16(p.typ) \o U16(ParamLength(p) + 4) \o ParamValue(p)

\* The value of a parameter whose header is sound.
ParamHeader(b) ==
    IF Len(b) < 4 \/ Get16(b, 2) < 4 \/ Len(b) < Get16(b, 2)
    THEN {} ELSE {[typ |-> Get16(b, 0), value |-> Slice(b, 4, Get16(b, 2))]}

ParseOutgoingReset(v) ==
    IF Len(v) < 12 THEN {}
    ELSE {[typ |-> PT.OutSsnResetReq, req |-> Get32(v, 0), resp |-> Get32(v, 4),
           last |-> Get32(v, 8), sids |-> Words16(v, 12, (Len(v) - 12) \div 2)]}

ParseReconfigResponse(v) ==
    IF Len(v) < 8 THEN {}
    ELSE {[typ |-> PT.ReconfigResp, rsn |-> Get32(v, 0), result |-> ReconfigResult(Get32(v, 4))]}

ParseReqHmacAlgo(v) ==
    IF \A k \in 1 .. (Len(v) \div 2) : Words16(v, 0, Len(v) \div 2)[k] \in {1, 3}
    THEN {[typ |-> PT.ReqHmacAlgo, value |-> Slice(v, 0, 2 * (Len(v) \div 2))]} ELSE {}

\* Values that are kept as they are.  A type the program does not know is an error
\* unless its highest bit is set.
Copied(typ) ==
    \/ typ \in {PT.HeartbeatInfo, PT.StateCookie, PT.Random, PT.ChunkList, PT.SupportedExt}
    \/ typ >= 32768 /\ typ \notin {PT.ReqHmacAlgo, PT.ForwardTsnSupp}

BuildParam(b) ==
    UNION {CASE h.typ = PT.OutSsnResetReq -> ParseOutgoingReset(h.value)
             [] h.typ = PT.ReconfigResp -> ParseReconfigResponse(h.value)
             [] h.typ = PT.ReqHmacAlgo -> ParseReqHmacAlgo(h.value)
             [] h.typ = PT.ForwardTsnSupp -> {[typ |-> h.typ, value |-> <<>>]}
             [] Copied(h.typ) -> {h}
             [] OTHER -> {}
           : h \in ParamHeader(b)}

-----------------------------------------------------------------------------
(* Error causes, [code, raw].                                              *)

MarshalCause(e) == U16(e.code) \o U16(Len(e.raw) + 4) \o e.raw

ParseCause(b) ==
    IF Len(b) < 4 \/ Get16(b, 2) < 4 \/ Len(b) < Get16(b, 2)
    THEN {} ELSE {[code |-> Get16(b, 0), raw |-> Slice(b, 4, Get16(b, 2))]}

-----------------------------------------------------------------------------
(* The chunk header, which every unmarshal begins with.                    *)

MarshalHeader(typ, flags, length) == <<typ, flags>> \o U16(length + 4)

\* Padding is looked at only when nothing but padding can follow.
ParseHeader(raw) ==
    LET length == Get16(raw, 2)
        after  == Len(raw) - length
    IN  IF \/ Len(raw) < 4 \/ length < 4 \/ after < 0
           \/ after < 4 /\ \E i \in length .. (Len(raw) - 1) : At(raw, i) # 0
        THEN {} ELSE {[typ |-> At(raw, 0), flags |-> At(raw, 1), length |-> length - 4]}

Body(raw, h) == Slice(raw, 4, 4 + h.length)

-----------------------------------------------------------------------------
(* The chunks.                                                             *)

Bit(b, v) == IF b THEN v ELSE 0
IsSet(flags, v) == (flags \div v) % 2 = 1

DataFlags(c) == Bit(c.E, 1) + Bit(c.B, 2) + Bit(c.U, 4) + Bit(c.I, 8)
DataLength(c) == 12 + Len(c.user_data)
DataValue(c) == U32(c.tsn) \o U16(c.si) \o U16(c.ssn) \o U32(c.ppi) \o c.user_data
ParseData(raw, h) ==
    IF h.length < 12 THEN {}
    ELSE {[typ |-> h.typ, E |-> IsSet(h.flags, 1), B |-> IsSet(h.flags, 2),
           U |-> IsSet(h.flags, 4), I |-> IsSet(h.flags, 8), tsn |-> Get32(raw, 4),
           si |-> Get16(raw, 8), ssn |-> Get16(raw, 10), ppi |-> PayloadProtocolIdentifier(Get32(raw, 12)),
           user_data |-> Slice(raw, 16, 4 + h.length)]}

InitLength(c) ==
    LET l[k \in 0 .. Len(c.params)] ==
          IF k = 0 THEN 16
          ELSE l[k - 1] + 4 + ParamLength(c.params[k])
               + (IF k = Len(c.params) THEN 0 ELSE PaddingSize(4 + ParamLength(c.params[k])))
    IN  l[Len(c.params)]
InitValue(c) ==
    U32(c.tag) \o U32(c.rwnd) \o U16(c.os) \o U16(c.is) \o U32(c.tsn)
    \o Padded([k \in DOMAIN c.params |-> MarshalParam(c.params[k])])
\* One turn of the loop over the parameters, which goes on while more than four
\* bytes of the packet remain; it takes four of them at least.
InitParam(raw, h, st) ==
    IF Len(raw) - st.offset <= 4 THEN {st}
    ELSE {[offset |-> st.offset + 4 + ParamLength(p) + PaddingSize(4 + ParamLength(p)),
           params |-> Append(st.params, p)]
          : p \in BuildParam(Slice(raw, st.offset, 4 + h.length))}
InitParams(raw, h) ==
    LET turn[k \in 0 .. Len(raw)] ==
          IF k = 0 THEN {[offset |-> 20, params |-> <<>>]}
          ELSE UNION {InitParam(raw, h, st) : st \in turn[k - 1]}
    IN  {st.params : st \in turn[Len(raw)]}
\* A length that is too short for what follows it is a parse error here.  Where the
\* code slices to that length without a test (chunk_init.rs, chunk_forward_tsn.rs,
\* chunk_shutdown.rs) it panics instead; no packet of the runs has such a length.
ParseInit(raw, h) ==
    IF h.length < 16 \/ h.flags # 0 THEN {}
    ELSE {[typ |-> h.typ, tag |-> Get32(raw, 4), rwnd |-> Get32(raw, 8), os |-> Get16(raw, 12),
           is |-> Get16(raw, 14), tsn |-> Get32(raw, 16), params |-> ps]
          : ps \in InitParams(raw, h)}

\* Mutant: the duplicate TSNs are left out of the length.
BugSackLength(c) == 12 + 4 * Len(c.gaps)

SackLength(c) == 12 + 4 * Len(c.gaps) + 4 * Len(c.dups)
SackValue(c) ==
    U32(c.cum) \o U32(c.rwnd) \o U16(Len(c.gaps)) \o U16(Len(c.dups))
    \o FlattenSeq([k \in DOMAIN c.gaps |-> U16(c.gaps[k].start) \o U16(c.gaps[k].end)])
    \o FlattenSeq([k \in DOMAIN c.dups |-> U32(c.dups[k])])
ParseSack(raw, h) ==
    IF h.length < 12 \/ h.length < 12 + 4 * Get16(raw, 12) + 4 * Get16(raw, 14) THEN {}
    ELSE LET g == Get16(raw, 12)
             w == Words16(raw, 16, 2 * g)
         IN  {[typ |-> h.typ, cum |-> Get32(raw, 4), rwnd |-> Get32(raw, 8),
               gaps |-> [k \in 1 .. g |-> [start |-> w[2 * k - 1], end |-> w[2 * k]]],
               dups |-> Words32(raw, 16 + 4 * g, Get16(raw, 14))]}

ForwardTsnLength(c) == 4 + 4 * Len(c.streams)
ForwardTsnValue(c) ==
    U32(c.cum) \o FlattenSeq([k \in DOMAIN c.streams |-> U16(c.streams[k].si) \o U16(c.streams[k].ssn)])
\* The loop over streams runs to the end of the packet: what follows the chunk
\* is taken for a stream that is too short.
ParseForwardTsn(raw, h) ==
    IF Len(raw) # 4 + h.length \/ h.length % 4 # 0 THEN {}
    ELSE LET w == Words16(raw, 8, (h.length - 4) \div 2)
         IN  {[typ |-> h.typ, cum |-> Get32(raw, 4),
               streams |-> [k \in 1 .. ((h.length - 4) \div 4) |->
                               [si |-> w[2 * k - 1], ssn |-> w[2 * k]]]]}

\* params holds param_a and, when there is one, param_b.
ReconfigLength(c) ==
    4 + ParamLength(c.params[1])
    + (IF Len(c.params) = 1 THEN 0
       ELSE 4 + ParamLength(c.params[2]) + PaddingSize(4 + ParamLength(c.params[1])))
ReconfigValue(c) == Padded([k \in DOMAIN c.params |-> MarshalParam(c.params[k])])
ParseReconfig(raw, h) ==
    UNION {LET offset == 8 + ParamLength(a) + PaddingSize(4 + ParamLength(a))
           IN  IF 4 + h.length > offset
               THEN {[typ |-> h.typ, params |-> <<a, b>>]
                     : b \in BuildParam(Slice(raw, offset, 4 + h.length))}
               ELSE {[typ |-> h.typ, params |-> <<a>>]}
           : a \in BuildParam(Body(raw, h))}

\* ABORT and ERROR.  Causes are not padded, and the loop runs to the end of the packet.
ErrorLength(c) ==
    LET l[k \in 0 .. Len(c.causes)] == IF k = 0 THEN 0 ELSE l[k - 1] + 4 + Len(c.causes[k].raw)
    IN  l[Len(c.causes)]
ErrorValue(c) == FlattenSeq([k \in DOMAIN c.causes |-> MarshalCause(c.causes[k])])
Cause(raw, h, st) ==
    IF st.offset + 4 > Len(raw) THEN {st}
    ELSE {[offset |-> st.offset + 4 + Len(e.raw), causes |-> Append(st.causes, e)]
          : e \in ParseCause(Slice(raw, st.offset, 4 + h.length))}
Causes(raw, h) ==
    LET turn[k \in 0 .. Len(raw)] ==
          IF k = 0 THEN {[offset |-> 4, causes |-> <<>>]}
          ELSE UNION {Cause(raw, h, st) : st \in turn[k - 1]}
    IN  {st.causes : st \in turn[Len(raw)]}
ParseAbort(raw, h) == {[typ |-> h.typ, causes |-> es] : es \in Causes(raw, h)}
ParseError(raw, h) == {[typ |-> h.typ, causes |-> es] : es \in Causes(raw, h)}

HeartbeatLength(c) == 4 + ParamLength(c.info)
HeartbeatValue(c) == MarshalParam(c.info)
ParseHeartbeat(raw, h) ==
    {[typ |-> h.typ, info |-> p] : p \in {q \in BuildParam(Body(raw, h)) : q.typ = PT.HeartbeatInfo}}

\* The program answers a HEARTBEAT, and has the one parameter that marshal_to asks for.
HeartbeatAckValue(c) == MarshalParam(c.info)

ParseShutdown(raw, h) ==
    IF Len(raw) # 8 THEN {} ELSE {[typ |-> h.typ, cum |-> Get32(raw, 4)]}

ParseCookieEcho(raw, h) == {[typ |-> h.typ, cookie |-> Body(raw, h)]}

CookieAck        == [typ |-> CT.COOKIE_ACK]
ShutdownAck      == [typ |-> CT.SHUTDOWN_ACK]
ShutdownComplete == [typ |-> CT.SHUTDOWN_COMPLETE]

\* A chunk of any other type keeps its header and its bytes.
ParseUnknown(raw, h) == {[typ |-> h.typ, flags |-> h.flags, value |-> Body(raw, h)]}

-----------------------------------------------------------------------------
(* Dispatch on the type.                                                   *)

\* HEARTBEAT_ACK is left out of the match of Packet::unmarshal.
Parsed == {CT[t] : t \in DOMAIN CT} \ {CT.HEARTBEAT_ACK}

ValueLength(c) ==
    CASE c.typ = CT.DATA -> DataLength(c)
      [] c.typ \in {CT.INIT, CT.INIT_ACK} -> InitLength(c)
      [] c.typ = CT.SACK -> SackLength(c)
      [] c.typ = CT.FORWARD_TSN -> ForwardTsnLength(c)
      [] c.typ = CT.RECONFIG -> ReconfigLength(c)
      [] c.typ \in {CT.ABORT, CT.ERROR} -> ErrorLength(c)
      [] c.typ \in {CT.HEARTBEAT, CT.HEARTBEAT_ACK} /\ "info" \in DOMAIN c -> HeartbeatLength(c)
      [] c.typ = CT.SHUTDOWN -> 4
      [] c.typ = CT.COOKIE_ECHO -> Len(c.cookie)
      [] c \in {CookieAck, ShutdownAck, ShutdownComplete} -> 0
      [] OTHER -> Len(c.value)

Value(c) ==
    CASE c.typ = CT.DATA -> DataValue(c)
      [] c.typ \in {CT.INIT, CT.INIT_ACK} -> InitValue(c)
      [] c.typ = CT.SACK -> SackValue(c)
      [] c.typ = CT.FORWARD_TSN -> ForwardTsnValue(c)
      [] c.typ = CT.RECONFIG -> ReconfigValue(c)
      [] c.typ \in {CT.ABORT, CT.ERROR} -> ErrorValue(c)
      [] c.typ = CT.HEARTBEAT -> HeartbeatValue(c)
      [] c.typ = CT.HEARTBEAT_ACK /\ "info" \in DOMAIN c -> HeartbeatAckValue(c)
      [] c.typ = CT.SHUTDOWN -> U32(c.cum)
      [] c.typ = CT.COOKIE_ECHO -> c.cookie
      [] c \in {CookieAck, ShutdownAck, ShutdownComplete} -> <<>>
      [] OTHER -> c.value

Flags(c) == CASE c.typ = CT.DATA -> DataFlags(c) [] "flags" \in DOMAIN c -> c.flags [] OTHER -> 0

MarshalChunk(c) == MarshalHeader(c.typ, Flags(c), ValueLength(c)) \o Value(c)

ParseChunk(raw) ==
    UNION {CASE h.typ \in {CT.INIT, CT.INIT_ACK} -> ParseInit(raw, h)
             [] h.typ = CT.ABORT -> ParseAbort(raw, h)
             [] h.typ = CT.COOKIE_ECHO -> ParseCookieEcho(raw, h)
             [] h.typ = CT.HEARTBEAT -> ParseHeartbeat(raw, h)
             [] h.typ = CT.DATA -> ParseData(raw, h)
             [] h.typ = CT.SACK -> ParseSack(raw, h)
             [] h.typ = CT.RECONFIG -> ParseReconfig(raw, h)
             [] h.typ = CT.FORWARD_TSN -> ParseForwardTsn(raw, h)
             [] h.typ = CT.ERROR -> ParseError(raw, h)
             [] h.typ = CT.SHUTDOWN -> ParseShutdown(raw, h)
             [] h.typ \in {CT.COOKIE_ACK, CT.SHUTDOWN_ACK, CT.SHUTDOWN_COMPLETE} -> {[typ |-> h.typ]}
             [] OTHER -> ParseUnknown(raw, h)
           : h \in ParseHeader(raw)}

\* A packet is [sport, dport, tag, chunks].  Each chunk begins at a multiple of
\* four bytes; the checksum (four bytes, here 0) is taken to match.
PadTo4(b) == b \o Padding(Len(b))
MarshalChunks(chunks) ==
    LET raw[k \in 0 .. Len(chunks)] ==
          IF k = 0 THEN <<>> ELSE PadTo4(raw[k - 1] \o MarshalChunk(chunks[k]))
    IN  raw[Len(chunks)]

CommonHeader(p) == U16(p.sport) \o U16(p.dport) \o U32(p.tag) \o U32(0)
Marshal(p) == CommonHeader(p) \o MarshalChunks(p.chunks)

CheckPacket(p) ==
    /\ p.sport # 0 /\ p.dport # 0
    /\ (\E k \in DOMAIN p.chunks : p.chunks[k].typ = CT.INIT) => Len(p.chunks) = 1 /\ p.tag = 0
=============================================================================
