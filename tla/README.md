# A verification of aoip-core

aoip-core moves audio between an audio device and an AES67 multicast stream. A
process has three threads: `main`, the network thread (`network_loop`) and the
audio thread (`audio_cb_run`). The network and the audio thread share a ring of
packet slots, without a lock.

This directory holds TLA+ modules that model that system, TLC configurations
that check them on small instances, and proofs that TLAPS checks for all
instances.

## 1. The system

| Part | State | Operations | Interacts with |
|---|---|---|---|
| slot ring (`queue.h`) | `head`, `tail`, `slot[]` | init, empty, full, read/write pointer, read/write next | both threads |
| memory ordering (`utils.h`) | stores not yet visible | `wmb` | both threads |
| playback path (`aoip.c`, `rtpdump.c`) | `seq`, the datagram at hand | receive, fill, drop, publish; `ao_read` | ring, socket, file |
| record path (`aoip.c`, `tonegen.c`) | `seq`, `tstamp`, the RTP header | `ao_write`; stamp, send, retry, give back | ring, socket |
| PTP client (`ptpc.c`, `ptpc.h`) | `ptpc_ctx_t`, `ptpc_sync_ctx_t` | three receive handlers | PTP servers, network thread |
| network thread (`aoip.c`) | where the loops are, two timers, SAP announcement | announce loop, sync loop, main loop, deletion | PTP client, SAP socket, stop flag |
| device life cycle (`aoip.c`, `socket.c`, the two `main`s) | sockets, groups, memory, threads | create, start, stop, join, destroy | everything |
| WAV writer (`rtpdump.c`, `wav.c`) | `received_frames`, the file | `ao_open`, `ao_read`, `ao_close` | audio thread |
| SAP/SDP message (`sap.c`) | the message | `build_sap_msg`, `search_rtp_addr_from_sap_msg` | network thread, `simple-sapc` |
| example clients (`simple-ptpc`, `simple-sapc`, `simple-rtpc-recv`) | one context each | one loop each, SIGINT | PTP, SAP, RTP sockets |

What is hard to get right here, and where each property aims (the full list,
with source lines, is under `hazards` in `PROJECT.json`):

- two threads and no lock: `recv()` writes into the ring before anyone asks
  whether it is full; only one free slot and one fence keep the reader safe;
- retries: `EAGAIN` from the RTP socket repeats part of an iteration and skips
  the rest;
- a PTP exchange of four messages over a network that loses, repeats and
  reorders, with several servers and clients in one multicast group;
- three nested kinds of timeout and a stop flag, any of which may come at any
  step, and an announcement that has to be withdrawn on every way out;
- threads that end early, and a destruction that has to wait for both;
- integers that are cut: 16-bit timestamps, an `int` that holds nanoseconds, 32-bit
  file sizes, unsigned comparison of signed delays;
- a text put together by a dozen `snprintf` calls whose lengths are added up, and
  read back by a search that counts the length differently.

## 2. Modules

```
PacketFifo   <--  Queue  <--  PlaybackPath, RecordPath      (refinement)
                  Fence  ---- extended by the two paths
Ptpc         ---- extended by PtpSession and NetworkLoop
Device       <--  Programs  -->  NetworkLoop                (refinement)
Programs     ---- extends Device and SapMessage, instances NetworkLoop
RtpDump      ---- extends Sums
```

| Module | Models | Proofs |
|---|---|---|
| `PacketFifo` | what the ring promises: a bounded FIFO | |
| `Queue` | `queue.h`, `aoip_queue_init` | `QueueProofs` |
| `Fence` | stores to slots, and `wmb()` | `QueueProofs` |
| `PlaybackPath` | network thread to audio thread | `PlaybackProofs` |
| `RecordPath` | audio thread to network thread | `RecordProofs` |
| `Ptpc` | the handlers of `ptpc.c` and the arithmetic of `ptpc.h` | |
| `PtpSession` | those handlers in their loops, against servers | `PtpSessionProofs` |
| `NetworkLoop` | `network_loop` and its two preludes | `NetworkLoopProofs` |
| `Device` | creation, threads, signal, destruction | `DeviceProofs` |
| `SapMessage` | the SAP message: built and searched | `ProgramProofs` |
| `Programs` | the five programs from `main` to exit | `ProgramProofs` |
| `RtpDump` | the callbacks of `rtpdump` and the file | `RtpDumpProofs` |
| `Sums` | running totals, for what `RtpDump` says of a counter | |

Each `MC*` module instantiates the module of the same name for TLC; `Device` is
checked through `Programs`, which extends it. Operators
keep the names of the C functions. A function that shares memory with another
thread is split at each access: `PlaybackPath` has `Recv`, `FillSlot`, `Publish`
and `DropPacket` for lines 317-332 of `aoip.c`. Operators marked "Mutated form"
are variants of the definition that follows them, with a plausible bug; no
specification uses them. They show that each property can fail.

### How state and actions correspond to the code

- **Ring.** `head`, `tail` and `slot` are the members of `struct aoip_queue`.
  `& mask` is `% SlotNum`, which is the same because `SlotNum` is a power of two
  (an assumption of the modules). `slot` has the members a thread reads: `len`,
  `seq`, `data`. Nobody reads `tstamp`.
- **Memory.** A producer's store goes to `wbuf` and reaches `slot` later, in any
  order (`Drained`); `wmb` waits until `wbuf` is empty. This is weaker than x86-64.
  The consumer's loads happen in program order, as they do on x86-64. GCC treats a
  non-empty `asm("...")` as a barrier to the compiler too, which the models assume.
- **PTP.** One operator per path through `ptpc_recv_general_packet`. A poll's
  outcome is a parameter: a message, nothing, or an error. `PtpSession` uses clock
  values and messages under way; `NetworkLoop` lets any message come and uses
  relative time, in which `sync.now` is 0 and a timer is minus its age. The event
  and the general socket receive into one buffer, and the handler of general
  messages looks at it even after an empty datagram, which leaves the Sync of the
  poll before in it: `PtpSession` keeps what the buffer holds.
- **Network thread.** `pc` names the statement that comes next. Each `ns_gettime`
  at a loop's head takes `0..MaxStep`. `ToInt` is the assignment to the `int` at
  `aoip.c:253`.
- **Device.** `aoip_create_context` and `aoip_context_destroy` are sequences of
  `<<operation, resource>>`; `main` takes them one by one, and any step of the
  creation may fail. Its network thread is abstract: it may end at any time, and
  does once it is told to.
- **Programs.** `program` says which of the five it is. In `rtpdump` and `tonegen`
  the network thread takes the steps of `NetworkLoop` (`Net`), with
  `network_stop_flag` as its stop flag; in the clients `main` takes the steps of
  their loop until `caught_signal`. `simple-ptpc` shares the announcement loop
  with `network_loop` and has a synchronisation loop of its own, which ends with
  SIGINT or by failing. Sockets may answer anything until
  `aoip_context_destroy` begins (`Silent`). `sap_msg` is written where
  `build_sap_msg` is called.
- **SapMessage.** A message is the sequence of the lengths of its twelve descriptions:
  the number of characters each format gives for the session at hand. An address is
  four octets, so that its printed length follows; a name is its length and the
  places at which it holds `c=`, each with the address that can be read behind it
  (`Mark`) or without one, which is all the search can tell apart.
- **RtpDump.** The file is its bytes, and a byte is where it comes from: an earlier
  file, the WAV header, a size, or an offset in the payload of a packet. Every
  `write()` takes any part of what it is given or fails, and the code takes one byte
  for success, of the header, of a frame and of a size alike. `took` and `began` record
  what the writes took.

## 3. Runs

| Run | Distinct states | What it shows |
|---|---|---|
| `queue` | 13,062 | the ring is a bounded FIFO (`FifoSpec`) |
| `playback` | 10,052 | nothing torn, nothing lost except by dropping, order and numbering kept, the ring is used as `Queue` says, and what is published is dumped |
| `record` | 20,612 | what is sent is the generated stream, and what is published is sent |
| `ptp_session` | 1,416,142 | `t1` and `t4` of a measurement are of the server the client follows, `t1` that of the exchange, although two servers use the same sequence numbers and their clocks differ, and the four are in the order of an exchange; delay and offset come from the same, best measurement |
| `ptp_timely` | 33,357 | a client that is served on time synchronises |
| `network` | 406,552 | the announcement is withdrawn on every way out, timers are served in playback mode, the stop flag ends the thread within sixteen steps, and so does silence |
| `programs` | 65,937 | in all five programs destruction undoes creation and a signal ends the process, because nobody waits for a thread that was not told to end (`SomeoneGoesOn`) and nothing is begun again (`LifeCountsDown`); threads have a whole context; `rtpdump` and `tonegen` implement `Device` (`StepsOfDevice`, `ProgressOfDevice`) with `network_loop` as the network thread (`StepsOfNetworkLoop`), withdraw their session unless the deletion cannot be sent or the audio thread cannot be created, and name the same PTP server in the deletion; the SAP message fits its buffer and is read back |
| `rtpdump` | 426,683 | the frame count agrees with the packets, the header with the file up to what short writes left out, and the file has what was taken of every frame of every packet once and in order |

Four runs state what the repository says of itself and are violated by the code:

| Run | The code | What the repository says |
|---|---|---|
| `record_clock` | the timestamp is cut to 16 bits from the second packet on; a retry after `EAGAIN` advances it again | `sap.c:80`: `mediaclk:direct=0`; `README.md:61-62`: 48 per sequence number |
| `ptp_measured` | `t2` is overwritten by each poll; repeated and foreign answers count | `aoip.c:235`: "the meanPathDelay is measured 10 times" |
| `network_synced` | a PTP timeout noticed within 0.147 s counts as success | `aoip.c:235`, the same line |
| `rtpdump_stream` | the header's size is added twice | `README.md:29`: "save the multicast stream" |

`SapReadBack` is exact: `search_rtp_addr_from_sap_msg` reads the address that
`build_sap_msg` wrote except in two cases, which the property names. An address of
fifteen characters fills `ascii_addr` and is turned down (`sap.c:57`), and a name
with `c=` in it stops the search (`sap.c:39`): what is read is the address the name
has behind it, or none. That the builder counts the header
in `len` and the search does not (`sap.c:27`) does no harm in the messages built here.

With `ClockTs = {1}` in `MCRecordClock.cfg` the counterexample is the retry alone.

### Bounds

- Rings have 4 slots, the smallest size at which a full ring holds more than one
  packet and wraps in the middle. Eight packets (six in record mode) fill it, wrap
  it and wrap the sequence number (`SeqMod` 3).
- `MaxPublished` in `MCQueue` stops the run; the ring itself needs no bound.
- PTP: the first server sends two Syncs, which tells an old exchange from a new
  one; the second sends one, with a sequence number the first also uses, and has
  another client. The clock reads 0 and 2: delays come out as 0, 1 and 2. The first
  server's clock is 3 ahead (`OwnClocks`), so that mixing the two gives a delay that is
  negative. Two measurements stand for ten. In `ptp_timely` sequence numbers wrap.
- `NetworkLoop` counts in half seconds: PTP timeout 4, Announce timeout 6, the
  range of an `int` 10. SAP's 30 s are 8. A step takes up to 6, longer than any
  PTP timeout, so an iteration may skip every threshold. `Horizon` is the age
  from which ages are not told apart; a PTP timer is noticed before it gets there.
  An iteration of more than 4.29 s, after which the `int` of `aoip.c:253` is small
  again, is beyond `MaxStep`.
- `Programs` has 2 slots: a first and a last one. All five programs are initial
  states. Two PTP servers, one sequence number and one measurement are enough for
  a second server to take over at each step; every timeout is 1 and a step takes 0 or 1,
  so that a timer is or is not due at each check (`NetworkLoop` has the long steps).
  `simple-sapc` announces names of 1, 16 and 31 characters (the most that
  `MAX_DEVICE_NAME_SIZ` has room for), names with `c=`, with and without an address behind it, group addresses of 9, 14 and 15
  characters and times of 10 and 11; the other programs what is compiled into them.
- `RtpDump`: samples of 2 bytes (3 in the code) and an RTP header of 2 frames, as in
  the code; lengths below and at the header, with an incomplete frame and with three; a
  WAV header of 7 bytes with its two sizes of 2; counter and sizes wrap at 5; up to two
  packets over no old file or one of 12 bytes, which ends among the first frames. `Space`
  has room for all of them: that the disk is full is a `write()` that takes less.

`CHECK_DEADLOCK FALSE` stands where threads end or a bound is used up. The
`queue` run checks deadlock.

### Fairness

- Threads are scheduled: weak fairness on their steps. A thread that waits for
  input is not assumed to get any.
- Stores become visible: weak fairness on `StoreVisible`.
- A socket that is tried again and again takes a packet at some time: strong
  fairness on `SendOk` (`PublishedIsSent`) and `RtpDone` (`SilenceEnds`). UDP send
  buffers drain.
- A loop that runs for ever takes time: strong fairness on `TimePasses`
  (`SilenceEnds`), because `CLOCK_MONOTONIC` advances.
- `SilenceEnds` states these two as its premise. `StopEnds`, checked in the same
  run, has the scheduling of the thread alone.
- `ptp_timely` assumes a server that keeps sending and a client whose polls
  receive what has arrived. It excludes that a Follow_Up overtakes its Sync between
  two polls, which the client takes for another exchange.
- `Device` assumes that the network thread ends once it is told to. `Programs`
  does not: it has weak fairness of each thread, and `ProgressOfDevice` shows that
  `Device`'s assumption follows. It holds because each loop of `network_loop` looks
  at the stop flag once per iteration and no iteration waits.

## 4. Proofs

All proofs hold for every value of the constants that satisfies the modules'
`ASSUME`s: ring sizes that are powers of two, positive moduli and timeouts, a
PTP timeout below half the range of an `int`, a target of measurements that
its 8-bit counter can reach, and sessions of the types the code's structures have.
`NetworkAssumption` of `Programs` repeats those of `NetworkLoop` for its instance.
All safety properties that a passing run checks are proved.

- **`QueueProofs`.** `QueueType`; then `QueueIsFifo`: `Contents`, the slots from
  `tail` to `head`, is the queue of `PacketFifo`. `FillKeepsContents` is the point:
  slot `head` is never part of `Contents`, so scribbling on it is a stutter. The module also
  has what both paths need: what a store and its becoming visible do to the slot
  at `head`, and how a wrapping counter counts (`CountsModulo`).
- **`PlaybackProofs`.** `PathInv` is inductive. It adds to the types what each
  thread knows at each step: stores that are not visible yet are all for slot
  `head`; between `tail` and `head` every slot has `data = len`; what the audio
  thread has read so far is what slot `tail` holds. From it follow
  `DumpedIsWhole` and `PlaybackUsesRing`. `DumpedWhole` alone is not inductive: it
  says nothing about slots that are still to be read.
  `PacketsAccounted` numbers the accepted packets whether they have been dumped or are
  still in the ring (`Nth`): a publication adds one (`PublishAccepts`), a
  give-back moves the boundary between the two and no packet (`OthersKeep`), and so
  the numbers (`Numbered`) and the places of the datagrams (`Placed`) are kept.
- **`RecordProofs`.** `StreamInv` is inductive: the block in the k-th occupied slot is
  the number of blocks given back plus k, with the sequence number of that block;
  `wire` is as long as `taken`, or one longer between the send and the give-back.
  From it follow `WireCarriesStream` and `RecordUsesRing`.
- **The paths as FIFOs.** `PlaybackIsFifo` and `RecordIsFifo` put the two refinements
  together: `QP` instances `QueueProofs` with the path's own ring, so that `QueueIsFifo` of
  that instance applies to what `PlaybackUsesRing` and `RecordUsesRing` establish.
  Two threads with a store buffer between them are a bounded FIFO, from `network_loop`
  down to the abstract specification.
- **`NetworkLoopProofs`.** `NetworkType`, from the fact that each handler keeps its
  types; `SessionWithdrawn` is inductive as it stands;
  `TimersAreServed` needs in addition what holds between the two timer checks.
  `StopBoundsTheSteps` is the safety part of `StopEnds`: with the stop flag set, every
  step that moves the loop lowers `StepsLeft`, a number of at most sixteen, so the thread is
  at its end after as many steps, whatever the sockets answer and however long a
  send stays blocked.
- **`PtpSessionProofs`.** `Types` adds to `TypeOK` what each place in the loops
  implies: only a server that has sent a Sync owes a Follow_Up, and nothing is
  asked before a server has been selected. `Coherent` says what the messages under way
  know of the servers' clocks: a Follow_Up carries the origin of its Sync, a
  Delay_Resp a later time, and the `t1` the client keeps is the origin of the Sync
  it is at. `MeasurementsAreCoherent` follows for any number of servers, each with a
  clock of its own, clients and messages, and from it `DelaysAreNotNegative`, which makes the unsigned comparison of delays sound, both with the premise `~Wraps`: a server whose 16-bit sequence numbers
  come round within the life of a message gives the client no means to tell
  two exchanges apart. `BestIsKept` has no such premise.
- **`DeviceProofs`.** Creation and destruction are lists of calls of which `main` has
  done a part, so the invariant is about what is left of them: what is not there
  yet is still to be created (`Creating`), and what is still there is to be
  given back once, groups before their sockets, slots before their array
  (`Destroying`). The five invariants of `Device` follow for every number of slots.
  Two more are about the end of the process. `NoJoinWaitsForEver` rests on `Told`: from the
  first join on both stop flags are set, so the thread `main` waits for can
  take its last steps. `LifeIsBounded` adds up what is left to do for `main`, for each
  thread and for the signal (`LifeLeft`) and shows that every step lowers the sum. Together
  they are the safety part of `SignalEnds`: a process has at most `LifeLeft` steps of `Device`
  before it, and after SIGINT no join keeps it from taking them.
- **`ProgramProofs`.** `ProgramsStepAsDevices` shows that every step of `rtpdump` and `tonegen`
  is a step of `Device` or a stutter, so what is proved of `Device` holds of them too. The clients
  have lists of their own (`Made`, `Undone`: which sockets are there when n calls are left),
  and `ProgramsKeepTheirContexts` states the five invariants of all programs,
  `ProgramsComeToAnEnd` the two results about the end.
  `NetworkThreadIsNetworkLoop` is the other half: seen through `Net`, every step of such a
  program is a step of `NetworkLoop` or a stutter. It rests on `ReleasedLast`: the
  sockets fall silent only when the network thread has been joined. With it
  `NetworkLoopInPrograms` brings the theorems of `NetworkLoopProofs` into the programs.
  `OnlyFailureLeavesSession` joins `SessionWithdrawn` with the order in which `main` joins the
  threads, and with the fact that a deletion that could not be sent is the last thing
  `network_loop` does (`DeletionFails`); `SameServerDeleted` follows from the handlers: none of them takes over
  another server and stays in the loop.
  `MessagesFit` and `AddressReadBack` are about every session: a number that an `int` or an
  octet holds has so many digits, hence each description so many characters; and
  the first `c=` of the text is that of the address, unless the name has one before it,
  of which the first counts (`FirstMark`).
- **`RtpDumpProofs`.** `Inv` relates the counters to the writes: `received_frames` is
  their number modulo 2^32, the file position is where the audio began plus what
  they took, and a failure is remembered until the loop is left. `ContentInv` is about
  the bytes: sizes are in the file after `ao_close` only, with the values it computed, and
  nothing but audio lies between the beginning of the audio and the position.
  `HeaderTellsTheTruth` follows, since what the writes took and what they left out add
  up to whole frames (`TakenAndMissing`): for every width, every old file and every
  pattern of short and failing writes. `PayloadCounted` is
  about a sum over all packets: `SetInduction`, from the least element of a set of
  numbers, gives that the recursive function of `Sums` exists and adds up, and
  the invariant relates the loop's index to the frames written of the packet at hand.
  `FramesDumpedInOrder` says where each of these frames is: `PlaceInv` has what was
  taken of them in its place as long as no `write()` failed; a write
  at the position adds the next one and touches none of them (`WriteFramePlaces`), and the
  update of the header touches none if the header was written whole. After a
  failed write the claim ends, and so does the loop, with the packet.

Only model-checked:

- liveness and fairness (`PublishedIsDumped`, `PublishedIsSent`,
  `EventuallySynced`, `StopEnds`, `SilenceEnds`, `SignalEnds` and `ProgressOfDevice`),
  which need `ENABLED`; what of `StopEnds` and `SignalEnds` is safety is proved
  (`StopBoundsTheSteps`, `NoJoinWaitsForEver`, `LifeIsBounded`);
- the four properties that the code violates.

## 5. Not modelled

- Byte layout of PTP, RTP and SAP headers: `print_ptp_header`, `build_rtp_hdr`, the
  constant fields of the SAP and the WAV header. `tstamp_to_ns` is the identity on
  timestamps whose upper 16 bits of seconds are 0, as they are until 2106.
- The characters of the SDP text. The descriptions of the inputs in
  `test/test_sap.c` add up to 307 with the header, where line 27 of the test
  expects 280: the 27 of the `i=` line are missing there. The `o=` line has the second at which a message
  is built, so the deletion's differs from the announcement's; nothing in the
  repository compares them.
- PTP datagrams that are not empty and shorter than a header, of which the handlers
  would see a mixture of two messages.
- What `simple-rtpc-recv` prints (`recv_rtp_packet` fills a buffer; line 39 of
  the program then looks at the address of the pointer to it). Its loop, signal and
  context are in `Programs`.
- `tone.c` (floating point) and `pcap.c` (file I/O that nothing calls).
- Assertions: the default build is `Release`, without them.
- Reordering of the consumer's loads: `rmb()` is defined and nobody uses it; x86-64
  does not need it.

## 6. Plan

Done, most important first: the ring and its refinement; both paths with the fence;
the PTP client and its session; the network thread; the device; the WAV writer;
the programs as compositions of these; the SAP message; proofs of all safety
properties.

What could follow:

1. The audio paths inside `Programs`, so that the stop flags cut a stream short in
   one model; today `PlaybackPath`, `RecordPath` and `RtpDump` end their threads at any
   step instead.
2. Short PTP datagrams, with `rxbuf` as a record whose members are overwritten in part.
3. The consumer's loads out of order, for processors other than x86-64.
