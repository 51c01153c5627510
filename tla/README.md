# TLA+ models and proofs for `sctp` (webrtc-rs)

`src/` implements SCTP (RFC 4960) with partial reliability (RFC 3758), stream
reset (RFC 6525) over a datagram
transport, for WebRTC data channels. This directory models its protocol logic in
TLA+, checks the models with TLC on small instances, and proves their safety
properties with TLAPS for every value of the constants: data transfer, fragmentation and
reassembly, the handshake, stream resets, the shutdown and the end of an association, and the
packet codec with bundling and dispatch.

`PROJECT.json` lists the components, every run with its properties, the mutant
of the code that each property rejects, the source lines each definition stands
for, the hazards and the disagreements between code and documentation.

Below, `ai` is `src/src/association/association_internal.rs`.

## 1. The system

| Component | State | Operations | Modelled in |
|---|---|---|---|
| Association (`association/mod.rs`) | two tasks, `read_loop` and `write_loop`; the one-place channel `awake_write_loop_ch`; the broadcast that closes both | `server`, `client`, `shutdown`, `close`, `open_stream`, `accept_stream` | Closing, Handshake, Shutdown |
| Handshake (`ai`) | `state`, tags, cookie, stored INIT and COOKIE ECHO, T1-init, T1-cookie | `send_init`, `handle_init`, `handle_init_ack`, `handle_cookie_echo`, `handle_cookie_ack`, T1 expiry and failure | Handshake |
| Data sender (`ai`, `queue/payload_queue.rs`) | `inflight_queue`, `cwnd`, `rwnd`, `ssthresh`, fast recovery, the cumulative and advanced ack points, T3-rtx | `gather_outbound`, `handle_sack`, T3 expiry, partial reliability, FORWARD TSN | DataTransfer |
| Data receiver (`ai`, `timer/ack_timer.rs`) | `payload_queue`, `peer_last_tsn`, ack state and timer | `handle_data`, `handle_forward_tsn`, ack timeout, SACK | DataTransfer |
| Pending queue (`queue/pending_queue.rs`) | ordered and unordered queues, `selected` | `push`, `peek`, `pop` | Fragments |
| Reassembly queue (`queue/reassembly_queue.rs`) | ordered sets, unordered sets and chunks, `next_ssn`, `n_bytes` | `push`, `read`, both `forward_tsn_for_...` | Fragments |
| Stream (`stream/mod.rs`) | SSN, shutdown flags, `read_notifier`, `buffered_amount` | `write_sctp`, `read_sctp`, `shutdown` | Fragments, Streams, DataTransfer |
| Stream reset (`ai`) | `reconfigs`, `reconfig_requests`, T-reconfig, the `streams` map | end-of-stream chunk, RECONFIG request and response, `unregister_stream` | Streams |
| Association shutdown (`ai`, `mod.rs`) | `state` and `will_send_shutdown` (atomics), T2 | `shutdown`, the three SHUTDOWN chunks | Shutdown |
| Retransmission timers (`timer/rtx_timer.rs`) | running or not, expiries | `start`, `stop`, expiry, failure | in each module that has a timer |
| Serial numbers (`util.rs`) | none | `sna16...`, `sna32...` | SerialNumbers |
| `PollStream` (`stream/mod.rs`) | the futures of a read, a write and a shutdown, the temporary read buffer | `poll_read`, `poll_write`, `poll_flush`, `poll_shutdown` | PollStream |
| Packet codec (`packet.rs`, `chunk/`, `param/`, `error_cause.rs`) | none | `marshal_to`, `unmarshal`, `value_length` of every chunk, `check_packet` | Wire, Packets |
| Bundling and dispatch (`ai`) | `control_queue` | `bundle_data_chunks_into_packets`, `create_selective_ack_chunk`, `create_forward_tsn`, `handle_inbound`, `handle_chunk`, heartbeat | Packets |
| RTO arithmetic, statistics | | | not modelled |

**How they interact.** An association is an `AssociationInternal` behind one
async mutex. `read_loop` takes it for each packet and runs the handler of each
chunk; `write_loop` sleeps on `awake_write_loop_ch`, takes it, calls
`gather_outbound` and sends what that returns; timers are tasks that take it when
they fire. So handlers, gathers and expiries are atomic with respect to each
other, and what a handler decides is recorded in `will_...` flags that the next
gather reads. Three things run outside the mutex: `Association::shutdown`,
which works on the atomic state; a stream's writers, which push chunks one by one
into the pending queue under a lock of its own; and its readers, which look at a flag,
lock the reassembly queue and wait on a `Notify` in three separate steps. A timer
that has fired may be waiting for the mutex while the handler that stops it runs.

**What is hard.** The behaviours a unit test hardly reaches, listed at their lines
under "hazards": work that is flagged while the write loop sleeps; expiries that
come after the stop; SACKs and FORWARD TSNs that arrive late, repeated or out of
order and are looked up in a queue that has moved on; messages given up when half
of them has arrived; INITs that cross, and DATA that meets them; `shutdown()`
between the two halves of a handler; a reset that overtakes its data; a reader
between its look and its wait; SSNs that wrap; a writer that passed the shutdown
check before the shutdown; lengths that are no multiple of four; an association that four parties
(application, transport, a handler, the peer) may end at once, while `shutdown()` writes its state
without the mutex.

**What makes each component correct.** Sender and receiver: ordered, at-most-once
delivery that skips only what was given up; no silent loss; nothing outstanding
without T3; ack points that never move back; an exact `buffered_amount`; a SACK
never ends the read loop. Handshake: whoever sends data has a peer that knows its
initial TSN; no packet rewinds it; nothing of T1 outlives completion; both sides
connect. Fragments: TSNs of a message are sequential; only whole messages are read,
once and in order; nothing stranded keeps receive window. Streams: a reset
follows all data before it, is never forgotten and reaches the peer; no reader
misses a message. Shutdown: nobody closes under a working peer; what is
outstanding is acknowledged first; it completes. Closing: nothing runs on behind the
two loops, and the callers and readers that wait for them return, but for a reader that
`notify_waiters` misses and a constructor whose handshake is cut off (hazards at
`stream/mod.rs:381` and `association/mod.rs:235`). Packets: what is marshalled is parsed to
the same; bundling neither loses nor repeats; a chunk that is skipped hides no other; each chunk is
answered by what it calls for.
PollStream: what is reported as written is buffered.

## 2. Modules

| Module | Role |
|---|---|
| `OrderedDelivery` | abstract: what an ordered stream promises (submit, give up, deliver) |
| `DataTransfer` | one direction of one ordered stream between two associations, with the network; implements OrderedDelivery |
| `DataTransferProofs` | its theorems |
| `Fragments`, `FragmentsProofs` | pending queue, TSN assignment, reassembly of several-chunk messages, ordered, unordered and DCEP; implements OrderedDelivery; its theorems |
| `Handshake`, `HandshakeProofs` | two associations from their constructors to Established; its theorems |
| `Shutdown`, `ShutdownProofs` | two associations from Established to closed; its theorems |
| `Closing` | the tasks of one association, who waits for them, and how they end; with its theorem |
| `Streams`, `StreamsProofs` | one stream from open to reset, on both sides, with its readers; its theorems |
| `PollStream` | the async adapter over a stream, for one task that polls it |
| `Wire` | the byte layout of every chunk, parameter and error cause, as operators |
| `Packets`, `PacketsProofs` | from the queues of one gather to packets, over the wire, and chunk by chunk to the handlers of the other side; the theorems about it and about `Wire` |
| `SerialNumbers` | the comparisons of `util.rs` |
| `NaturalSets` | lemmas that the proofs share, about sets of naturals (least and greatest elements, runs of consecutive members, sizes) and about loops; the theorem about the serial numbers |

Each `.cfg` instantiates a module directly: the bounds are constants of the
modules, so no further MC modules are needed.

**How state and actions correspond.** Variables keep the field names. In
`DataTransfer` an action is a whole handler: `SenderGather` is `gather_outbound`
with its retransmissions, new data, fast retransmission and FORWARD TSN in the order
of the code; `RecvSack` is `handle_sack` with `process_selective_ack`,
`on_cumulative_tsn_ack_point_advanced`, `process_fast_retransmission` and
`postprocess_sack`; `RecvData` and `RecvForwardTsn` end in the common routine that
advances `peer_last_tsn` and sets the ack state. Three things are settled before the model begins, and
open in its initial states: whether both sides announced FORWARD TSN (`use_forward_tsn`); whether the sender
was the client, which knows the peer's window from INIT ACK, or the server, whose `rwnd` and `ssthresh` are zero until
the first SACK; and whether the receiving application has opened the stream (`has_stream`) or leaves that to
the first DATA. `Handshake` keeps each
association in one record and writes a handler as an operator from a record to the
record after it and the packets it sends. `Shutdown` splits a handler in `Begin`
(take the mutex, read the state once) and `Finish`, because `shutdown()` changes the
state between them, and splits `shutdown()` at every access to an atomic.
`Closing` has both loops with the points at which they wait (`select!`, the channel, the mutex, the
transport), every call of `AssociationInternal::close` with the order of its effects, and the tasks of the
timers. `Packets` is a computation: a state is a place in `handle_inbound`, and the
initial states are all that there may be to send. What the handlers do with the association is in the
other modules; here each chunk leaves an outcome: what it puts into `control_queue` (`replies`) and the reset requests that
stay in `reconfig_requests` (`requests`), which later DATA and FORWARD TSNs may answer again (`AnswerAgain`).
`Fragments` has one step per push of a fragment, and `Streams` one step per look of
a reader and two per write: the check of the shutdown flag, and the push. Networks are sets of packets (any order), except in `Handshake`, where
they are sequences so that "the network keeps the order" can be said.

**Abstractions.**
- A message of `DataTransfer` is one full chunk on one ordered stream; bytes are
  counted in chunks. `Fragments` has the sizes and kinds of messages instead, lets a
  chunk that was sent arrive at any time, and abstracts cwnd and rwnd to one window.
- TSNs count from 1 without wrapping. `SernoIsOrder` proves that the serial
  comparisons are the order of such numbers as long as they are less than 2^31 apart.
  Arithmetic on TSNs that does not use those comparisons is not covered (section 6).
- Which chunks a timed policy gives up is a free choice of the model; the
  retransmission policy counts transmissions as the code does.
- Timers expire at any time. Expiries while an answer is still under way
  ("spurious") are bounded, the others are not.
- `Fragments` gives both sides the same `unordered` setting and bounds the unread
  messages to half of the SSN space. The code enforces neither (see the hazards).
- `Streams` closes a stream at most once per side, with one-chunk ordered
  messages. In behaviours where a write races a shutdown (`racing`) nobody reads or gives up.
  `Shutdown` has one message per direction.
- `Closing` reduces the peer to the packets it may send, CookieEchoed to CookieWait,
  and both T1 timers to one; what the packets carry is in the other modules.
- Numbers in `Wire` stay below 2^31, and the checksum is taken to match. A length field that is too short for
  what must follow is a parse error in `Wire`; where the code slices to it without a test
  (`chunk_init.rs:173`, `chunk_forward_tsn.rs:72`, `chunk_shutdown.rs:51`) it panics. No packet of the model has one.
- Sums that pass the end of an integer type wrap, as in a release build. In `Fragments` these are `next_ssn += 1`
  (`reassembly_queue.rs:270`) and `last_ssn + 1` (`reassembly_queue.rs:317`), which panic in a debug build.
- In `Packets` the cumulative TSN moves by one at most for a chunk, whether the DATA before a reset has
  arrived is left open, and FORWARD TSN may or may not have been negotiated with another implementation.
- In `Closing` a T1 failure that comes after the handshake is dropped: its error stands behind the Ok in the
  channel, of which the caller reads one value. One that comes before the Ok is in `Handshake`.
- A poll of `PollStream` gets the lock of the pending queue for any number of
  chunks, then finds it taken.

## 3. Runs

| Run | Shows | Bounds, and why they are enough |
|---|---|---|
| `transfer` | type, no silent loss, FORWARD TSN only over abandoned chunks, T3, exact buffered amount, the inductive invariant; points never retreat; nothing acknowledged is sent again, and nothing given up is flagged again | 3 messages: one missing, one acknowledged by a gap block, one after it; buffer 2, so the window closes; 1 duplicate, 1 premature T3. A chunk that is delayed while T3 expires behaves as a lost one, and `transfer_live` loses packets |
| `transfer_live` | the refinement of OrderedDelivery; everything written is delivered or given up, and settled; a SACK never ends the read loop, fast recovery can end, no lost wake-up | 4 messages, the fewest that give three missing reports; buffer 4, initial window 3; given up after 2 transmissions; 2 losses, so that the first message can be given up before any DATA arrives; under fairness |
| `handshake` | who knows whose TSN, what outlives completion, what a late packet rewinds; both constructors return and both sides stay connected (section 4) | one loss, one duplicate, one premature T1, one retransmission before T1 fails; client and server, and two clients |
| `shutdown` | nobody closes early; graceful; completes | a message from one side, one loss, one premature timer; either side or both call `shutdown()` |
| `fragments` | sequential TSNs, whole messages, exact `n_bytes`, nothing stranded, order, everything read or given up | 3 messages of 1 to 3 fragments, 5 fragments in all; SSN circle of 8 entered at 7, so SSNs wrap; buffer 3 |
| `streams` | a reset covers its data, also that of a writer who passed the check first, is never forgotten, reaches the peer; no lost notification | 2 messages from one side, so one may be in the pending queue and one on its way; both sides shut down any halves; 1 RECONFIG packet lost, any number retransmitted |
| `packets` | every chunk is parsed to what was marshalled; bundling; SACK and FORWARD TSN report the queues exactly; every chunk is handled, and answered by what it calls for | user data of 1, 4, 11 and 16 bytes, so with 3, 1 or no bytes of padding, and an MTU of 44, so that two short chunks fit and two long ones do not; gaps up to 5 past the ack point; bundles of 3 from a peer, with unknown chunks for each of the four actions that a type may ask for (HEARTBEAT ACK for the one that ends the association), reset requests with and without a response, and one with a parameter that `handle_reconfig_param` refuses |
| `closing` | no timer runs behind the loops; both loops end, and `shutdown()`, `close()` and the readers return | 3 packets after the handshake, which is a whole shutdown sequence; T1 fails after 1 retransmission; each of the four ways to end at any point |

Deadlock is not checked: every one of these systems may stop, when everything bounded has
been written and settled or both sides are closed.

Four more runs expect a violation: each shows that the code does not do what a
comment, a doc comment or a test of the repository says.

| Run | The text | What the code does |
|---|---|---|
| `delayed_ack` | `AckState::Delay`: "ack timer is on" (`association/mod.rs:167`) | an ack timer that fired keeps `close_tx`, so it never starts again; a later delayed ack has no timer |
| `shutdown_hang` | `shutdown()` "blocks until the shutdown sequence is completed" (`association/mod.rs:261`) | with an abandoned chunk outstanding no FORWARD TSN is sent in ShutdownPending, and it never returns |
| `fragments_interleave` | "the TSNs for each fragment ... MUST be strictly sequential" (`reassembly_queue.rs:88`) | two tasks that write to one stream mix their fragments |
| `poll_write` | "the data is buffered" (`stream/mod.rs:723`), so it is fine to report success | a `poll_write` that meets an unfinished write finishes that one and reports the new buffer as written (`stream/mod.rs:738`); it is dropped |

Smaller disagreements, and behaviour that no text speaks of, have no run of their own; the models have each of them.

- An INIT sent after the peer's INIT was handled carries the peer's tag (`ai:181`), and the peer discards it, as
  "MUST have a zero Verification" tag (`packet.rs:225`) demands: when INITs cross, the handshake goes on
  with the other INIT (`Handshake`).
- The read loop is spawned before the `is_client` block takes the mutex (`association/mod.rs:384`, `407`), so it may
  handle the peer's INIT first, and even establish the association, which the block then sets back to CookieWait
  (`Handshake`: `AnsweredEarly`, `SetBack`).
- A stream that the peer reset first has both flags set, so `shutdown(Both)` returns at once
  (`stream/mod.rs:370`) and the peer's stream stays, although the doc comment says that it is reset (`Streams`).
- `get_data_packets_to_retransmit` sends chunks "that are not acked or abandoned yet" (`ai:2065`), but
  it looks only at the flag that T3-rtx has set: when one gather has no room for a flagged chunk in its
  window, and then sends it by fast retransmission, which leaves the flag and may give it up, a later gather
  sends the abandoned chunk once more. `NeverResendSettled` is stated as the code has it.
- A FORWARD TSN that skips messages of a stream which the receiver does not have yet is lost on it (`ai:1755-1759`):
  the stream that the next DATA creates waits for the skipped SSNs, and its ordered messages are never read
  (`DataTransfer`: `NoneSkippedUnseen`).
- `handle_sack` wakes the write loop for every SACK only if FORWARD TSN is in use (`ai:1492`, `1525`). If not, a fast
  retransmission that is flagged by a SACK which acknowledges nothing new waits for another wake-up, at the latest
  that of T3-rtx, which is what fast retransmission is there to avoid (`NoLostWakeUp` says what holds).
- For a chunk type with the high bits 00 or 01 the comment says to "stop processing this SCTP packet and discard it"
  (`ai:2207-2212`, `2223`, `2227`); the code returns an error, and the read loop ends the association.
- An Operation Error "is not considered fatal in and of itself" (`chunk_error.rs:9-10`); `handle_chunk` returns an
  error for it, which ends the association.
- "We report unknown parameters with a paramtype with bit 14 set as unrecognized" (`ai:720-721`); the list that is
  collected for the INIT ACK is overwritten with the cookie at `ai:755-756`. The peer's INIT in `Packets` has such a
  parameter (49158), and no answer reports it. These last three are in `Packets` (`Refused`, `InitAck`).

## 4. Fairness

Weak fairness of a gather: its loop is a task that has a token to take. Of an expiry: a timer
that runs expires (strong fairness in `Shutdown`, where gathers disable and enable it while they
hold the mutex). Of a delivery: a packet that is on its way, and not lost, arrives; losses are
bounded, which is how "retransmission gets through at last" is said. Of the reader: the
application reads on. In `Streams` the acknowledgements that let the write loop go on
are not modelled, so the gather is fair in that it takes something from a queue
that is not empty, and DATA arrives unless it was given up. No model
assumes that an application writes, closes or gives up anything.
`EventuallyDelivers` has the condition that no FORWARD TSN skips messages of a stream that does not exist yet
(`NoneSkippedUnseen`): after one the code does not deliver. `EverythingSettled` has no condition. `Connects`
holds on a network that keeps the order of packets: a late duplicate INIT ends the
read loop of an established side (a listed hazard). It has two more conditions, both about a read loop that handles the
peer's packets before the `is_client` block has run. If it answers an INIT that early, the client's own INITs are discarded
and only the peer's timers recover a loss, so the claim for this case is for a network that loses
nothing. And if it gets as far as Established, the block sets the association back to CookieWait: both
constructors return all the same, but it is not claimed that the association stays established. `ShutdownCompletes`
is stated for calls that meet no running handler, with reliable messages and a last
packet that arrives; without these the code does hang, as the hazards and
`shutdown_hang` say. `ResetReachesPeer` is stated for reliable streams. In `Closing` every task is weakly fair; that the write loop takes
the closed branch of its `select!` is strongly fair, because `select!` picks at random among the branches
that are ready, and tokens may keep coming.

## 5. What is proved

All proofs are checked by tlapm to the last leaf, for every value of the constants
(any number of messages, losses, duplicates and premature expiries, any buffer and window,
each reliability policy), from the modules' named assumptions on their constants. One hypothesis is
added: the theorems about `Fragments` assume `OneWriter`, that one task writes to the stream. With two,
fragments interleave (`fragments_interleave`), and what the others rest on is gone.

**Data transfer** (`DataTransferProofs`)

- `Invariance`: `Spec => []IInv`. The invariants one wants (`NoLostWakeUp`, `BufferedAmountExact`,
  `SackNeverFatal`, ...) are not inductive alone: that every TSN `handle_sack` looks up is
  outstanding needs that the inflight queue holds *every* TSN from the ack
  point on (`InflightContiguous`), that SACKs under way name nothing that was not sent
  and that the three points are ordered (`PointsOrdered`); that a skipped chunk
  is accounted for needs that all the receiver counts as done was received or given up
  (`AllSettled`). `use_forward_tsn` decides two of them: the advanced ack point is kept only with it, and
  without it a flagged fast retransmission may find the write loop asleep, but never T3-rtx off. `IInv` is their conjunction, TLC checks it in `transfer`, and the
  proof has one lemma per action (`WriteInv`, `SenderGatherInv`, `RecvSackInv`, ...), on lemmas
  about what a SACK pops and marks and how far the points run.
- From it: `TypeCorrect`, `SacksNeverFatal`, `BufferedAmountIsExact`,
  `NothingLostSilently`, `ForwardsOnlyAbandoned`, `T3Recovers`, `RecoveryEnds`, `WriteLoopAwake`.
- `ImplementsOrderedDelivery`: initial states map to initial states and every step
  to a step or a stutter of `OrderedDelivery`. It needs one more invariant,
  `ReadsGoUp`: the last message read is below `next_ssn`, all others read are before it,
  and all that waits in the reassembly queue is after it.
- `PointsOnlyAdvance`: the action property `PointsNeverRetreat`.
- `SettledIsNotResent`: the action property `NeverResendSettled`. It needs that no acknowledged chunk
  carries the retransmit flag (`Flagged`): a SACK clears the flag where it acknowledges, T3-rtx and
  fast retransmission pass over what is acknowledged, and a gather clears the flag of what it retransmits.
- `SernoIsOrder` (`NaturalSets`): for every circle and all numbers less than half a circle
  apart, the wrapped comparison is the order of the unwrapped numbers.

**Handshake** (`HandshakeProofs`), for any number of losses, duplicates and premature expiries, client and
server or two clients. `DataAlwaysUnderstood` is not inductive: an association
becomes established by a COOKIE ECHO or a COOKIE ACK that may be very old. The
invariant adds, for each association alone, that a cookie, a stored COOKIE ECHO and the states after
T1-init come only after the peer's TSN (`Sound`), and for the network that these two
packets are under way only from a side that knows its peer's TSN (`MaySend`). Handlers are operators on one
association, so the proof has one lemma per handler about its result, and one
step per action that adds the network. `TypeCorrect` follows; it says also that no T1 runs and
nothing is stored once the handshake is over. `NeverForgets`, the property `NeverRewinds`, is about a client and a server: who
has received data has a TSN to lose when a late INIT or INIT ACK sets `peer_last_tsn`. Its invariant
(`Roles`) says in which states each of the two can be, that INITs come from the client and COOKIE ACKs from a server
that stands only, and that no data is under way or received before the server stands.

**Shutdown** (`ShutdownProofs`), against every interleaving of the atomics. `ClosesInAgreement`: once a side
has decided to acknowledge a SHUTDOWN, or its peer has heard of it (`Agreed`), neither its
state nor the state that the handler in progress has read is a working one
(`AgreedForGood`), so no late write brings it back; and SHUTDOWN COMPLETE comes only
from a closed side (`CompleteFromClosed`). `ShutdownIsGraceful`, for a `shutdown()` that
meets no running handler: a second invariant (`GracefulInv`) says at which points of the call and of the handlers
nothing is outstanding any more. `TypeCorrect` has in it that nothing counts as acknowledged that did not
arrive; for that the invariant follows a message to its receiver and the SACK back (`Told`).

**Fragments** (`FragmentsProofs`), for one writer, any messages, any window and any SSN circle of which less than half
is in use.

- `FragmentsFollow` (`FragmentsSequential`), from `SenderInv`. What makes it inductive is what is *not yet* sent: both pending
  queues, with what the writer has still to push, hold whole messages in order, but for the one half
  sent, and that one's queue is `selected` (`SelectedOk`).
- `BytesAreExact`, `WholeMessagesRead`, `NothingIsStranded` and `TypeCorrect` (no chunk is in two places of the reassembly
  queue), from `ReceiverInv`. A set of the reassembly
  queue is identified by an SSN that wraps, so the invariant counts without wrapping: `next_ssn`
  stands for a number `n` of ordered messages, of which no chunk is missing (`NextIs`, `PassedOk`), and all
  SSNs in use are in half a circle (`NearOk`), so one set never has two messages. A chunk that has arrived
  is in its place, or its whole message has arrived and none of it is there (`Together`); loose unordered chunks
  form no message (`LooseOk`). These two say that `push` moves a message as a whole and that a
  FORWARD TSN drops it as a whole.
- `ImplementsOrderedDelivery`: ordered messages, numbered as they are written, refine `OrderedDelivery`. The proof needs more of
  `next_ssn` (`OrderInv`): what it has passed and nobody has read was given up or is held complete, what it
  has not passed is not dropped, and all that is held comes after the last message read. A read delivers the set that
  comes first in the list, so this is what makes "first" the lowest number, and all below it given up.

The parts of the invariants are predicates of values (the messages, the chunks sent, the
queues), so that most lemmas are about one operation of a queue, and the lemmas of the steps only put them together.

**Streams** (`StreamsProofs`), for both sides at once and any messages, with lost and repeated RECONFIG packets.
`TypeCorrect` (`Linked`): no receiver, request or answer names a TSN that was not sent. `NeverSleepsOnAMessage`
(`NoLostNotify`) is inductive with the types: a step that makes a message readable leaves a permit or wakes the reader. `ResetIsKept`
(`ResetNeverForgotten`): a request may leave its sender only by an answer, and an answer is under way only when the peer has
kept or performed the request (`Settling`). `ResetIsFinal` (`NoDataAfterReset`): unless a write overtook the shutdown, nothing follows the
end-of-stream chunk in the pending queue, and every request in any of its four places names the last TSN the
stream will ever use (`Covers`); a reset is performed when that TSN has been passed.

**Closing** (in `Closing`). `NoTimerSurvives`: a closed association has no timer
(`ClosedIsQuiet`), a `shutdown()` that writes over Closed may lead to a gather that starts
T2, but that gather comes before the write loop's own close.

**The codec** (`PacketsProofs`). `RoundTrip`: for every well formed chunk of every kind, with any contents, any number
of parameters, causes, blocks or streams, what `unmarshal` reads where `marshal_to` has written is that chunk and nothing else.
It holds wherever the chunk stands in a packet, padding and all that follows included, but for the kinds whose parsers read
to the end of the bytes they are given: for these it is stated for a chunk that comes last, which is where this program
puts them. "Well formed" says that the numbers fit their fields and that the
total fits the 16-bit length, and that the last parameter of an INIT is not empty: the loop over parameters stops when four
bytes are left (`chunk_init.rs`), so an empty last parameter is not read.
The proof is one lemma per kind, from lemmas that say which bytes hold which field (`Holds`, `Joins`).

**Packets** (`PacketsProofs`), for any MTU, any number and any lengths of the chunks in a gather, any gaps that fit a
SACK (`PacketsAssumption`), and bundles of any size of the chunks that the model lets a peer send.

- `ReadsWhatWasSent` (`ParsesWhatWasSent`), from `ReadInv`: the loop of `unmarshal` has read a prefix of the packet's
  chunks, and its offset is 12 plus the length of what these were marshalled to. So the next chunk begins at the offset,
  and `RoundTrip` says what is read there; the loop ends at the end of the bytes and nowhere else.
- `ReportsAreExact` (`ReportsExact`), from `ReportInv`: a SACK or FORWARD TSN under way says what the queues held. For a SACK the loop of
  `get_gap_ack_blocks` keeps that the blocks made so far name exactly the chunks that arrived among those looked at, and
  are at most half as many as the numbers they span (`GapInv`), so that the length of the chunk fits in 16 bits as long
  as arrivals reach no further than `MaxGap <= 32754` past the ack point; beyond that a SACK of some 16,000 blocks would wrap it. For a
  FORWARD TSN `stream_map` holds for each stream an SSN that was given up, and none later was (`MapInv`).
- `GathersAreDelivered` (`BundlesData`), from `GatherInv`: there are cuts in the DATA of the gather such that every packet is what
  stands between two of them, in order, without gap or overlap (`BundleInv`), and what is delivered is what stands before
  the packet, and the part of it that is handled (`Place`). No packet is longer than the MTU, but for the last chunk's header and
  padding, which `bundle_data_chunks_into_packets` does not count in its test.
- `ChunksAreHandled` (`EveryChunkHandled`), for all of these packets: a packet ends with all of its chunks handled,
  or the association ends at a chunk that ends it (`ClosedInv`), and what each chunk of a peer's packet has put into
  `control_queue` is what it calls for (`Matches` in `PeerInv`). That an ERROR reports an unknown chunk
  byte by byte is again `RoundTrip`, of the chunk inside it. A RECONFIG has one response for each of its reset requests
  (`ReconfigOutcome`). DATA and FORWARD TSNs answer stored requests again; that these were in progress, and not
  performed, when they were last answered needs the other half of `PeerInv`: every stored request has had the answer "in
  progress" and none since that it is performed (`LeftInProgress`).

**Sets instead of induction.** The induction rules of the library cannot be instantiated here, but least elements
can: `LeastNatural` (`NaturalSets`) follows from the well-foundedness of finite sets, and gives the end of a run of
consecutive TSNs and the greatest element of a bounded set. Fragments and Streams need no more: how far the cumulative
TSN advances, and which message a set is, are such questions. Counting messages is `Cardinality` of a set of positions.
For the loops of `Wire` and `Packets`, which the modules write as functions on the number of turns, it gives two facts: a function that
satisfies the loop's equation exists (`LoopExists`), and two that begin alike and whose turns keep them alike are equal
(`SameLoop`). With the first a loop is what its equation says, with the second it is the closed form that the lemma
claims: what a loop computes is proved for every input, without induction over data.

**Only model-checked**: the liveness properties (`EventuallyDelivers`, `EverythingSettled`, `Connects`, `ShutdownCompletes`,
`EventuallyRead`, `ResetReachesPeer`, `WaitersReleased`), because fairness and ENABLED are out of the prover's
reach, and `PollStream`, whose run shows a violation. Every other property of a passing run, each invariant, each
action property and each refinement, is stated by a theorem.

## 6. Not modelled, and why

- The CRC32c of a packet: a library function over bytes, the same on both sides.
- The RTO (`timer/rtx_timer.rs`): smoothing in floating point, which TLA+ does not have; timers
  expire at any time in the models, so no property depends on its value.
- The association's statistics: counters that only tests read.
- Several streams that share the receive window, and fragments under the
  windows: `DataTransfer` has one stream and counts chunks, `Fragments` has one window for both.
- TSN arithmetic at the wrap that does not use the serial comparisons (`payload_queue.rs:104`).
- `Association`'s accept channel (16 places; a full one refuses the stream).

## 7. Plan

Built, in order of what matters most: DataTransfer with OrderedDelivery and its proofs,
Handshake, Shutdown, Fragments with SerialNumbers, Streams; then Packets over Wire, PollStream, Closing,
writes that race a shutdown, and the proofs of Handshake, Shutdown, Closing, Streams, Fragments, Wire and Packets. Left:

1. **Gap-ack blocks at the wrap**: `Packets` checks `get_gap_ack_blocks` (`ReportsExact`) for TSNs away
   from the wrap; the code compares them as integers, so the wrap needs a small circle and a reference definition.
2. **Streams**: a stream opened again under its identifier (request numbers are not remembered);
   the readers that `notify_waiters` misses; an unreliable stream whose stored
   request is passed by FORWARD TSN.
3. **Several streams** on one association: the shared receive window, and a stream
   that is half shut down.

Proofs left: what the extensions above add.
