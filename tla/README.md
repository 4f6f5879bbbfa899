# A verification project for the FDU 2020 peer-to-peer file transfer

The program (`src/src`) is a BitTorrent-like peer in C. A user types
`GET <chunk file> <output file>`; the peer asks all other peers who has the
chunks of 512 KB (`WHOHAS`), they answer (`IHAVE`), and the peer fetches each
chunk from one of them (`GET`, 512 `DATA` packets, `ACK`) with go-back-N over
UDP. Datagrams go through a simulator of a network (`hupsim.pl`) that queues
and drops them. This directory models the peers and the network in TLA+,
model-checks them with TLC on small instances, together with the datagrams and
the routers of the simulator, the buffer for the user's commands and the signal
that interrupts a peer, and proves with TLAPS, for all instances, the invariants
of the pools, the timer and the chunk table, that the peers implement an
abstract download, that go-back-N keeps chunks and acknowledgments apart on a
network that keeps the order of packets, that the routers of the simulator are such
a network on every topology, what a signal within a packet handler cannot
break, that every line typed is handed over, that messages survive the datagrams,
and that the chunks of a file make the file.

## Inventory

| Component (source) | State | Operations | What makes it correct |
| --- | --- | --- | --- |
| packet handlers (`process_packets.c`) | none of its own: it moves the state of the two components below | `process_download`, `process_WHOHAS`, `process_IHAVE`, `process_GET`, `process_DATA`, `process_ACK`, `handle_timeout` | every chunk asked for is fetched once, intact, in spite of loss, reordering and dead peers; every connection ends; whoever has a connection has a timer |
| pools and send window (`connection_pool.c`) | `download_pool`, `upload_pool`: slots and a counter; per connection `expected_seq`, `last_acked`, `next`, `available`, `duplicate_num`, `overtime_count` | init, add, remove, find, `send_DATAs` | counter = occupied slots; one connection per peer; the window within the chunk and always sent |
| chunk table (`process_chunks.c`) | `chunks_to_get`: hashes, statuses, data; `is_download_done` | `init_chunks_to_get`, `update_provider`, `make_chunks_to_packet`, `save_data`, `find_chunk` | DOWNLOADING exactly while a connection fetches the chunk; DONE only with the right data, and for good |
| packets (`packet.c`) | none | constructors, byte order, `is_packet_valid` | what is decoded is what was encoded |
| peer process (`peer.c`) | globals, the timer | `main`, the select loop, `process_get`, the SIGALRM handler | one thing at a time, save for the signal |
| datagram service (`spiffy.c`) | socket | send and receive with a header for the simulator | the destination survives the detour |
| network simulator (`hupsim.pl`) | queues per link, routing tables | `enQ`, `recv`, `run`, `createTable` | packets of one pair of peers keep their order; queues are bounded, tail drop; routes are shortest paths |
| user input buffer (`input_buffer.c`) | a buffer and a cursor | `process_user_input` | every complete line is delivered once |
| configuration (`bt_parse.c`) | the peer list | `bt_parse_peer_list`, `bt_peer_info`, `find_peer` | a peer is found by its id, and by its port |
| hashing (`chunk.c`, `make_chunks.c`) | none | `binary2hex`, `hex2binary`, cutting a file into chunks | what is listed is what is asked for, sent, compared and written |
| SHA-1 (third-party `sha.c`), list (`my_list.c`), debugging, demo client and server | | | |

How they interact: a peer is one thread. `select` waits, without a timeout, for
a datagram or for standard input; a datagram becomes one call of
`process_PACKET`, which runs one handler, which reads and writes the pools and
the table and sends answers by `spiffy_sendto`. `alarm(1)` is set by the
handlers that leave something to wait for, and SIGALRM runs `handle_timeout`,
which retransmits, gives up connections and asks again for their chunks. Peers
share nothing but packets.

What is hard here: packets that are lost, duplicated, reordered or left over
from an earlier connection with the same peer (a `DATA` packet does not say
which chunk it is from, an `ACK` not which connection it is for); peers that are
killed, and started again with no memory; one timer for all connections, which
may fire while an answer is on its way; pools that are full, admission by a
counter; a table that is freed while packets for it are under way; a signal
handler that interrupts the others. `PROJECT.json` lists the hazards line by
line, with the properties that watch them.

## Modules

| Module | What it is |
| --- | --- |
| `ConnectionPool` | `connection_pool.c`: pools as records of slots and a counter, connections as records, and what `send_DATAs` does to a window |
| `Timeout` | `handle_timeout`: what its loops do to a pool; used by `Swarm` and by `SignalRace` |
| `Chunks` | `process_chunks.c`: the table, scanned for the first entry with a hash; requests and offers as functions from positions to hashes |
| `Network` | the packets, and a bounded queue with tail drop from every peer to every peer |
| `Swarm` | the peers: one action per handler and outcome, the timeout handler, the user, faults; types, properties, fairness |
| `Download` | what a user may expect of the chunk table: each chunk once, at its place and for good, and the file with the last one; `Swarm` implements it |
| `SignalRace` | one peer, its handlers statement by statement, and the signal between any two instructions |
| `Wire` | how a message becomes a datagram and a message again: `packet.c`, `spiffy.c`, the peer list and the ends of `process_packets.c`, with real sizes and byte order |
| `Routing` | the routing tables of `hupsim.pl` (`createTable`), with reference definitions of distance and connectedness |
| `HupSim` | the routers of `hupsim.pl`: a drop-tail queue per link, through which the datagrams of `Wire` are passed on by the tables |
| `Channel` | what two peers may expect of the network: loss, but no overtaking, no duplicates and no change; `HupSim` implements it |
| `Sharing` | how a file becomes chunks and chunks become a file: hexadecimal, `make_chunks`, chunk files, what is sent, compared and written |
| `InputBuffer` | `process_user_input`: the buffer byte by byte, the cursor, the loop over the lines |
| `LineInput` | what its callback may expect: each line once and in order; `InputBuffer` implements it, within limits |
| `MCSwarm`, `MCSignalRace`, `MCHupSim`, `MCInputBuffer` | values of the constants for TLC |
| `PoolTheorems` | lemmas about the operators of `ConnectionPool` |
| `SwarmProofs` | theorems about `Swarm`: types, pools, timer and window, with the lemmas about `Network`; the chunk table, and that `Swarm` implements `Download` |
| `GoBackNProofs` | theorems about the packets on their way between two peers of `Swarm` |
| `SignalProofs` | theorems about `SignalRace` |
| `InputBufferProofs` | theorems about `InputBuffer` |
| `RoutingProofs` | lemmas about `Routing`: induction and recursive functions, distances, the search, the tables, the way along them |
| `HupSimProofs` | theorems about the operators of `Wire`, and about `HupSim`: its routes, and that it implements `Channel` |
| `SharingTheorems` | theorems about the operators of `Sharing` |

How they are composed: `Swarm` extends `Chunks`, `Network` and `Timeout` (which
extends `ConnectionPool`), `SignalRace` extends `Timeout`, `HupSim` extends
`Routing` and `Wire`. `Swarm` takes a packet to be the message in it and a network to
lose packets without changing them: that is what `HupSim` is shown to provide. It
takes a chunk to be a name and a flag: that is what `Sharing` is shown to allow.

### State and actions of Swarm

Every variable is a function of the peer. `table` says whether the arrays of
`chunks_to_get` are not yet in use, live, or freed; `chunks`, `statuses` and
`chunks_data` are these arrays; `download_pool`, `upload_pool` and
`is_download_done` have the names of the globals; `alarm` is whether a SIGALRM
is due; `run` whether the process runs, crashed or was killed; `net[q][p]` holds
the packets on the way from q to p. `lost`, `duplicated`, `died` and `gets`
count faults and commands against their bounds.

| Actions | Code |
| --- | --- |
| `ProcessWHOHAS` | `process_WHOHAS` |
| `IgnoreIHAVE`, `StartDownload`, `CrashOnIHAVE` | `process_IHAVE` |
| `RefuseGET`, `AcceptGET` | `process_GET` |
| `IgnoreDATA`, `RejectDATA`, `AcceptDATA`, `FinishChunk`, `FinishFile`, `CrashOnDATA` | `process_DATA`, `save_data` |
| `IgnoreACK`, `FinishUpload`, `CumulativeACK`, `DuplicateACK`, `FastRetransmit`, `StaleACK` | `process_ACK` |
| `HandleTimeout` | `handle_timeout` |
| `UserGet` | `handle_user_input`, `process_get`, `process_download` |
| `Lose`, `Duplicate`, `Die`, `Restart` | the network and the operating system; `Restart` is `main` |

### The signal

`Swarm` handles a packet in one step. In the program only what `process_ACK` does
to a window is between `alarm(0)` and `alarm(1)`; everything else runs with the timer on,
if there is a connection already. `SignalRace` has one peer whose other peers may send
anything at any time. `pc` is the next statement, `pkt` the packet that
is handled, and `reg` what an instruction loaded and the next one will store: the
Makefile compiles without optimisation, so `size++`, `size--`, `next++` and
`duplicate_num++` are a load and a store each, with time for a signal in
between. `SIGALRM` runs all of `handle_timeout` between any two steps.
`remove_from_*_pool` frees a connection before it clears the slot, so
there is an instant at which the signal would find a freed connection
(`FreedTwice`); a handler whose connection was freed under it goes on with it
(`UseAfterFree`), and dies of it or has no effect but a timer that is
set. A signal may only interrupt a handler `MaxSignals` times.

### The datagrams, the simulator and the user's input

`Wire` has no variables. `Packet` makes the header and converts it to network
order, as the constructors of `packet.c` do; `Datagram` takes `packet_len` after that
conversion as the number of bytes to send, as the callers of `spiffy_sendto` do;
`Handled` is what reaches a handler: cut to the receiver's buffer, converted
back, and dropped if `is_packet_valid` says so. If the datagram is shorter
than the packet, what is handled is `Unknown`. `Requests` is the split of a
request into several `WHOHAS`.

`HupSim` starts with any connected topology and the tables that `CreateTables`
computes for it, router by router in the order of `main`; `predecessor` is
carried from one router's search to the next, as in the code. `Insert` is the
datagram that `main` hands to the router of its sender, `Run` the head of a link's
queue that is due, and `Recv` delivers or enqueues. `queue`, `routingTable`
are the fields of the routers. `ImplementsChannel` maps `transit` of `Channel` to the
messages of a flow in the queues along its way, and `arrived` has what
the handlers get: what arrives is what was sent, after all conversions. It justifies
what `Swarm` assumes of `Network` when `Reordered` is FALSE: packets may be lost, but
those that arrive do so in order.

`InputBuffer` has the bytes of the buffer, because the properties are about bytes
that `memmove` leaves behind. `Read` takes any portion of what arrived, so that
never more than `burst` bytes wait; `HandleLine` is one iteration of the loop and
`NoMoreLines` its end. `cur` is an unsigned number and wraps.
`HandsOverLines` maps `unread` of `LineInput` to the bytes before `cur` and the
input that was not read.

### The abstract download

`Download` knows a file that was asked for, the chunks that are there and the output.
`Swarm` implements it with `asked` the hashes of the table, `got` the entries that
are DONE and intact, and `output` what `process_DATA` wrote when it freed the table.
A handler that ends a connection without success, a retry, a give-up, a lost or
duplicated packet must be a step that changes none of these; the last packet of an
intact chunk (`FinishChunk`, `FinishFile`) must be a `Save` of one; and the check
whether the file is complete must come out right in the same step. The SHA-1
comparison, the states of the table and the connections all take part in that.

### Abstractions

- In `Swarm` a handler is one step. The signal that interrupts one is the subject
  of `SignalRace`, where the network, the other peers and the provenance of data are open.
- In `SignalRace`, what is between `alarm(0)` and `alarm(1)` is one step, chunk
  statuses are per hash, and offers that come after the last chunk was saved are left
  to `Swarm`.
- The content of a chunk is its provenance: a connection is `intact` as long as
  every packet it read is from its chunk, and the SHA-1 matches exactly then.
- `position` of a download connection is always `expected_seq - 1` packets and
  is left out. So is `peers` of `chunks_to_get`, which is written and never read.
- `handle_timeout` compares `clock()`, which is processor time, with 100
  microseconds. Which connections have spent that since their last packet is
  not determined by anything a model could know, so every set of connections
  may be late at every SIGALRM (`up`, `down`).
- After the arrays were freed, a read of `statuses` may yield anything
  (`Readings`), and a write, or a `save_data` without an entry, may crash
  or not.
- A chunk file of `Swarm` has at most `MAX_CHUNKS_NUM` (74) hashes, which are
  distinct, so that a request is one `WHOHAS`. Longer requests are in `Wire`.
- In `Wire` the payload is a set of hashes or one value. The peers' machine is
  little-endian, what lies behind a packet in memory may be read, and `malloc` and
  `sendto` do not fail.
- In `Sharing` a file is a sequence of parts of 1024 bytes, what one `DATA` packet
  carries, and SHA-1 is an operator.
- A peer that crashed or was killed receives nothing, and packets to it vanish.
- When a packet is due, which follows from latencies, rates and the load, is left
  open: any head of a queue may be due at any time. Rates and statistics are left out.
- A topology is connected. For one that is not, `createTable` does not end: reading
  the id of an undefined `predecessor` creates it, so the `die` in the loop
  (`hupsim.pl:280`) is not reached.
- Limits of the code are constants: `CHUNK_SIZE` (512), `WINDOW` (64),
  `OVERTIME_LIMIT` (5), `DUPLICATE_LIMIT` (3).

Constants of the environment: `Reordered`, `LossyTypes`, `Mortal`; `Patient`
(answers arrive before the next SIGALRM: a round trip is shorter than the
second of `alarm(1)`); `Overlap` (a user may type GET during a download).

## Properties

- `TypeOK`: types; sequence numbers and windows within the chunk, counters
  within their limits.
- `PoolsConsistent`: the counter of a pool is the number of its connections,
  and no peer has two of them.
- `DownloadingIffConnected`: a chunk is DOWNLOADING exactly while one
  connection downloads it, and only one does.
- `TimerCoversConnections`: a peer with a connection has a SIGALRM due.
- `WindowIsSent`: an upload connection has sent all its window allows, and no more.
- `DoneIsIntact`: what counts as downloaded, in the table or in the file that
  was written, is the chunk of its hash.
- `DoneIsFinal`: it stays so until the next command.
- `NothingMixed`, `AckedIsReceived`: on a network that keeps the order of
  packets, and as long as no connection is given up, go-back-N alone keeps
  chunks apart, and what is acknowledged was received.
- `ImplementsDownload`: a chunk is saved once and at its place, and the file is
  written in the very step that saves the last one, whatever two connections, timers and
  the network do in between.
- `EveryGetCompletes`: a download ends with the file written, unless its user is killed.
- `UploadsEnd`: an uploader gets its slot back.
- `NobodyCrashes`: refuted, see below.

Of `SignalRace`:

- `AdmittedFindsSlot`: wherever signals fall between the halves of `size++` and
  `size--`, a connection that was admitted finds a slot. The counter may get too high,
  never too low.
- `TimerCoversConnections`: when a handler has returned, a peer with a connection has a
  SIGALRM due, although the signal may have come in the middle and not re-armed it.
- `AtMostOneSkipped`: a signal while `process_GET` sends its window makes `next++` skip
  one packet at most.
- `DownloadingIffConnected`: when a handler has returned, the table agrees with the connections.
- `DoneIsFinal`: a signal between `save_data` and `remove_from_download_pool` does not
  take the chunk back.
- `RefusedOnlyWhenFull`: refuted, see below.

Of `HupSim`:

- `RoutesAreShortest`: a packet that follows the tables of independent routers gets
  to its destination on a shortest way.
- `ImplementsChannel`: between two nodes messages keep their order, are not duplicated,
  and are handled as they were sent, from the node that sent them.
- `PacketsLeave`: no packet stays in the network for ever.
- `DatagramsAreWhole`: refuted, see below.

Of `InputBuffer`:

- `TypedLinesAreHandedOver`: from a terminal, the callback gets the lines typed, and
  nothing else. `HandsOverLines`, which says so of any input, is refuted, see below.
- `EveryLineComes`: it gets all of them.
- `TypeOK`: the buffer stays a C string, whatever is read.

## Runs

`chaos`, `transfer`, `parallel`, `contest`, `lost_request` and `second_offer` are of
`MCSwarm`, `signals` and `refused` of `MCSignalRace`, `routers` and
`short_request` of `MCHupSim`, `typed` and `piped` of `MCInputBuffer`. None
checks for deadlock: peers with nothing to do and no packet on the way really stop, and
so do a peer that crashed, an empty network and a buffer whose input has ended.

| Run | Instance | Properties | Distinct states |
| --- | --- | --- | --- |
| `chaos` | 1 downloader, 1 uploader, 2 chunks of 2 packets, window 1; any reordering, 1 duplicate, queues of 2 that overflow, timers at any moment, give-up after 2 timeouts, retransmission at 2 duplicate ACKs | `TypeOK`, `PoolsConsistent`, `DownloadingIffConnected`, `TimerCoversConnections`, `DoneIsIntact`, `DoneIsFinal`, `ImplementsDownload` | 135,328 |
| `transfer` | the same peers, chunks of 6 packets, window 4, order kept, 3 losses among GET, DATA and ACK | `NothingMixed`, `AckedIsReceived`, `WindowIsSent`, `EveryGetCompletes`, `UploadsEnd` | 3,176 |
| `parallel` | 1 downloader with 2 connections, one source per chunk, 2 losses, the downloader or one source killed and restarted, 2 GETs | `PoolsConsistent`, `DownloadingIffConnected`, `ImplementsDownload` | 239,783 |
| `contest` | u serves one peer at a time; d wants a chunk that u and v have, v wants one that only u has; v may be killed and restarted, up to twice | `EveryGetCompletes` | 28,830 |
| `signals` | one peer with 2 slots in each pool, 3 others, 2 chunks of 2 packets, 1 signal within each handler; any packet at any time; symmetric peers and chunks | `AdmittedFindsSlot`, `TimerCoversConnections`, `AtMostOneSkipped`, `DownloadingIffConnected`, `DoneIsFinal` | 1,265,140 |
| `typed` | buffer of 7; up to 3 lines of up to 3 letters, of which half of the buffer waits, or any 8 characters that fill it up | `TypeOK`, `TypedLinesAreHandedOver`, `EveryLineComes` | 99,369 |
| `routers` | the 38 connected topologies of 4 routers, queues of 2, 3 flows, among them a request for 75 chunks in two `WHOHAS` | `RoutesAreShortest`, `ImplementsChannel`, `PacketsLeave` | 31,277 |
| `short_request` | one link, a request for 63 chunks | `DatagramsAreWhole`: violated | |
| `refused` | as `signals`, with 2 other peers and 1 chunk | `RefusedOnlyWhenFull`: violated | |
| `piped` | buffer of 5, any 6 characters in any portions | `HandsOverLines`: violated | |
| `lost_request` | one `WHOHAS` or `IHAVE` is lost | `EveryGetCompletes`: violated | |
| `second_offer` | two sources offer the only chunk | `NobodyCrashes`: violated | |

Why the bounds are enough for the cases that matter: two chunks are the least
for which packets of one connection can meet the next with the same peer; two
packets per chunk have a first, a last and a retransmission of each, and six
with a window of four make the window slide, stop at the end of the chunk and
rewind by one, two and three; one duplicate together with free reordering
produces stale packets of every type; queues of two overflow, and where packets
may overtake each other, one that is never taken stands for one that was lost, so
`chaos` needs no counted losses. `transfer` sets
`OVERTIME_LIMIT` so high that its three losses cannot make anybody give up: with
the limits of the code itself, several losses of the same packet can (each round
of a lost retransmission is answered only by timeouts), and then a later
connection may meet packets of the one given up. That case is in `chaos`, where
the SHA-1 catches it: `DoneIsIntact` holds there, `NothingMixed` does not.

No run has a user who asks again during a download (`Overlap` is FALSE in each).
`DownloadingIffConnected`, and what rests on it, needs users who wait; `PoolsConsistent`
and `DoneIsIntact` do not, and for users who ask at any moment they are proved only
(`PoolsStayConsistent`, `DoneAlwaysIntact`, which are about either value of `Overlap`).

In `contest` both kinds of trouble for a download come together: a source that
refuses while it serves another, and one that dies in the middle. Killed
twice, v dies as a source, as a user, and as a source that was restarted.
In `signals` two slots are the least with one connection to give up while another is
made, and three peers the least that can fill both slots and be refused. One
signal within a handler is what the code allows: the timer has a period of a
second, and no handler takes one. Between two handlers there may be any number.

Four routers are the least with two shortest ways between two of them (a ring)
and with links shared by flows from different sources; six packets over queues
of two overflow them. The messages are one of each type, with the greatest
sequence number and with 75 hashes, one more than fit a packet. Half of the
buffer is 4096 bytes in the code, which is the longest line a terminal accepts with its
newline; three lines are enough for one to meet what the two before it left behind.

### Fairness

`FairSpec` of `Swarm` adds weak fairness of `Receive(p, q)` for each pair (the select
loop handles what has arrived), and, for each slot of each pool, strong fairness of the
SIGALRM that finds the connection in that slot late. A SIGALRM that is due comes
although packets are handled before it does: the timer runs meanwhile, and what
re-sets it makes progress (a packet of a chunk, an acknowledgment, a new
connection) and so ends. Strong and not weak because `alarm(1)` disables the signal for a moment
that the model has no clock to measure. Every SIGALRM costs processor time, so the
clock of a connection without packets passes 100 microseconds sooner or later. Users and
faults are not fair. In `HupSim`, `main` sleeps until the first packet is due and
then runs every router: weak fairness for each link. In `InputBuffer` the select loop
reads as long as there is input: weak fairness of its steps. `SignalRace` has safety only.

### Findings

- `lost_request`: `handle_timeout` has a branch for a lost request
  (`process_packets.c:319`, Design.pdf section 6), guarded by
  `!is_download_done`. `is_download_done` is 1 at the start (`peer.c:37`) and
  nothing sets it to 0, so the branch never runs and the download stops for ever.
- `second_offer`: `update_provider` returns NULL when none of the offered chunks
  is NOT_DOWNLOADED any more (`process_chunks.c:99`; its comment,
  `process_chunks.h:44`, promises a hash), and `process_IHAVE` copies 20 bytes
  from it. Two providers of the last chunk and a free slot suffice.
- `short_request`: `packet_len` is converted to network order by the constructors
  (`packet.c:17`) and then used as the length of the datagram
  (`process_packets.c:51`). Swapped, a length is nearly always more than the packet
  has, and garbage behind the packet is sent with it; but 63 chunks make 1280 bytes, which
  is 0x0500, and 5 bytes are sent. The receiver reads the header from what its
  buffer held before.
- `refused`: SIGALRM between the load and the store of `size++`
  (`connection_pool.c:60`) frees another connection, and its `size--` is overwritten. The
  counter stays one too high for ever, and a later GET is refused, as if "the number
  of upload connections has reached its maximum" (`process_packets.c:148`).
- `piped`: `memmove` does not clear what is behind the contents it moved
  (`input_buffer.c:49`), and `strchr` looks up to the first NUL, not up to `cur`: if
  several lines fill more than half of the buffer at once, an old newline behind the
  cursor can end a line that was never typed, and `cur` wraps. A user at a
  terminal does not get there (`typed`).

## Proofs

The theorems about `Swarm` and `SignalRace` hold for every finite set of peers, any
numbers of slots, packets per chunk, queue places, faults and signals, those about
`InputBuffer` for every size of the buffer and every input, under the named
assumptions of the modules (limits positive, a window no larger than a chunk, NULL
not a connection). TLC evaluates these assumptions in every run. Any other hypothesis
is in the statement of the theorem, and in this table.

| Theorem | Module | Argument |
| --- | --- | --- |
| `TypeCorrect`: `Spec => []TypeOK` | `SwarmProofs` | `TypeOK` is inductive: one lemma per action |
| `PoolsStayConsistent`: `Spec => []PoolsConsistent` | `SwarmProofs` | inductive with `TypeOK` |
| `TimerAlwaysCovers`: `Spec => []TimerCoversConnections` | `SwarmProofs` | inductive with `TypeOK` |
| `WindowAlwaysSent`: `Spec => []WindowIsSent` | `SwarmProofs` | inductive with `TypeOK` |
| `DoneAlwaysIntact`: `Spec => []DoneIsIntact` | `SwarmProofs` | inductive with `TypeOK` |
| `DownloadingAlwaysConnected`: `~Overlap`, then `Spec => []DownloadingIffConnected` | `SwarmProofs` | inductive with `TypeOK /\ PoolsConsistent` |
| `DoneStaysDone`: `~Overlap`, then `Spec => DoneIsFinal` | `SwarmProofs` | from `DownloadingIffConnected` |
| `SwarmImplementsDownload`: `~Overlap`, then `Spec => ImplementsDownload` | `SwarmProofs` | every step maps to one of `Download` or to a stutter |
| `NothingEverMixed`: `~Reordered`, `WINDOW < CHUNK_SIZE`, then `Spec /\ [][Undisturbed]_vars => []NothingMixed` | `GoBackNProofs` | `LinksOK`, an invariant of every pair of peers over both connections and both queues |
| `AckedAlwaysReceived`: with `~Overlap` too, `Spec /\ [][Undisturbed /\ Settled]_vars => []AckedIsReceived` | `GoBackNProofs` | `AcksOK` on top of `LinksOK` |
| `AdmissionIsSafe`: `Spec => []AdmittedFindsSlot` | `SignalProofs` | `CountersOK` in `Inv`: by how much a counter is ahead of its slots at each statement |
| `TimerIsSet`: `Spec => []TimerCoversConnections` | `SignalProofs` | `TimerOK` in `Inv` |
| `WindowIsPassed`: `Spec => []AtMostOneSkipped` | `SignalProofs` | `WindowOK` in `Inv` |
| `TableMatchesPool`: `Spec => []DownloadingIffConnected` | `SignalProofs` | `TableOK` in `Inv` |
| `SavedIsFinal`: `MaxSignals <= OVERTIME_LIMIT`, then `Spec => DoneIsFinal` | `SignalProofs` | `TableOK` and `StampedOK` in `Inv` |
| `TypeCorrect`: `Spec => []TypeOK` | `InputBufferProofs` | inductive, for any input |
| `TypedLines`: `2 * Half <= USERBUF_SIZE + 1`, then `Spec => TypedLinesAreHandedOver` | `InputBufferProofs` | `Tidy`: what is behind the cursor is 0 |
| `MessagesArrive`: every message a peer can send is handled as it was sent, unless it is for 63 chunks | `HupSimProofs` | by the type of message, from the two conversions |
| `RequestsCover`: each chunk is asked for in exactly one `WHOHAS`, which fits a packet | `HupSimProofs` | arithmetic of the split, for every number of chunks |
| `Addressed`: a datagram goes to its node, which finds the sender by its port | `HupSimProofs` | for every `nodes.map` with distinct ids and ports |
| `RoutesAlwaysShortest`: `Spec => []RoutesAreShortest` | `HupSimProofs` | `CreateTablesIs` and `Reaches` of `RoutingProofs`, for every connected topology of any number of routers |
| `NetworkIsChannel`: `Usable(Hash, Bytes)`, then `Spec => ImplementsChannel` | `HupSimProofs` | `Carried`: every datagram waits for a link of its way |
| `ChunkArrives`: what a peer sends for a hash it lists is accepted | `SharingTheorems` | for master chunk files made of lines of `make_chunks`, in any order |
| `FileIsRestored`: data that is accepted for each chunk makes the file | `SharingTheorems` | from the round trip of a hash through hexadecimal |
| `ShortChunkIsRefused`: the last chunk of any other file is never accepted | `SharingTheorems` | 512 parts are sent for fewer |

Where the work is. `TypeOK` bounds `expected_seq` by the chunk size and
`last_acked` strictly below it, which needs that the last packet and its `ACK`
close their connections; and that what `handle_timeout` sends, numbered by rank
among the slots, exists (`KthExists`). `PoolTheorems` shows that a pool whose
counter is right and below `max_conn` has a free slot (a cardinality argument),
so that `add_to_*_pool` never drops a connection, and that adding, writing,
removing and the loops of `handle_timeout` preserve consistency. The counter alone
is not inductive, as removing by peer empties one slot only: the second
conjunct of `Consistent`, one connection per peer, is what makes it so.
The part on the chunk table first reduces every step to what it does to the table and the
downloads of one peer (`TableStep`, `NextTableStep`), then shows each kind of step
to keep table and connections together. It needs `PoolsConsistent`: a
connection is closed by its peer, so with two connections of one peer the wrong
chunk could be judged; and that a pool with counter 0 is empty, which is what a
new table starts from. `~Overlap` is necessary: a second GET during a download
replaces the table under the connections, and the invariant fails.

`SwarmImplementsDownload` takes as inductive invariant `TypeOK`, `PoolsConsistent`,
`DownloadingIffConnected`, `DoneIsIntact` and `Unfinished`: a table in use has a chunk
that is not DONE. The last conjunct is why the file is written at the right moment: if
it could fail, a table would be complete without its file, and no later packet
would write it. Each step of `Swarm` is then one of three: the user sees the
same, sees one chunk more, or sees nothing (a new file, a restart), and these are a
stutter, `Save`, and `Ask` or `Forget`.

`MessagesArrive` rests on `Swap` being its own inverse below 65536 and on
`Swap(n) >= n` for the length of every packet but one: the search for that one
is what found `short_request`. `SharingTheorems` suppose that SHA-1 yields 20
bytes, and, where data is compared, that the two chunks that are compared do not
collide. `FileIsRestored` and `ChunkArrives` are about files of whole chunks.

### Chunk after chunk over one link

A `DATA` packet does not name its chunk, and `process_GET` replaces an older upload
to the same peer without a word. `NothingMixed` says that the right packets are read
all the same; it says nothing about the packets on their way, and so is far from
inductive. `LinkOK` says what they may be, by the state of the download:

- no download (`NoDownload`): no `GET` is on its way, and no packet 1, nor will the
  uploader send one;
- a download that waits for packet 1 (`Asking`): either the uploader has not seen the
  `GET`, and what it sends is the rest of an earlier chunk, without packet 1; or it
  has seen it, and is at the beginning of this chunk. Behind a packet 1 there is nothing
  but packets of this chunk;
- a download that has begun (`Reading`): everything on its way is of its chunk, a `GET`
  that is still on its way finds the uploader where it began, and no packet is a
  window or more behind one sent earlier.

The last clause, and `WINDOW < CHUNK_SIZE`, are why a download ends with no packet 1 on
its way: it would be taken for the first of the next chunk. `AcksOK` adds the numbers:
what an uploader takes for acknowledged, and each `ACK` on its way once the download
reads, is below `expected_seq` of the download of that chunk, and an upload of any other
chunk is of one that was saved. Steps are again reduced to what they do to one link
(`LinkStep`: packets taken and sent in order, and what becomes of the two connections).

The hypotheses are those of the network that `hupsim.pl` is: order is kept
(`ImplementsChannel`), nothing is duplicated, and 64 is less than 512. They are no
limits on losses, timeouts or retransmissions. `Undisturbed` excludes what does mix
chunks: a download that is given up or forgotten in a restart leaves packets behind
that the next download from the same peer may read. `chaos` has these cases, and
there the SHA-1 is what keeps the data right (`DoneAlwaysIntact`, without hypotheses).
`Settled` excludes two ways to an upload that is of no chunk of the current
table: an offer that comes when the file is written and reads the freed table, and a
user who asks for the next file before the last `ACK` has closed the upload of
this one. TLC checks in `transfer` what the theorems conclude; that instance satisfies
both hypotheses, with three losses.

### Signals

`Inv` of `SignalProofs` has one part per property, each with what is true at every
statement and not only when a handler returns. `CountersOK`: a counter is at
least the number of occupied slots, one more before `size--`, one less between filling
a slot and `size++`, and so is the value a load has put into a register, because
signals free connections and never make them; and from the test `size < max_conn` on
there is a free slot. `TimerOK`: there is a SIGALRM due, or no connection, or the
handler that runs has made one and is on its way to set the timer. `WindowOK`: only the
connection that is being sent may be behind its window, and a resend from a signal
leaves `next` at most one beyond. `TableOK`: a chunk is marked DOWNLOADING before its
connection exists, and its connection exists for a while after the chunk was judged.
`StampedOK`: since `process_DATA` set `overtime_count` to 0, it has grown by no more than the
signals of this handler. That is where `SavedIsFinal` needs its
hypothesis: to give up the connection between `save_data` and its removal takes more
than `OVERTIME_LIMIT` (5) signals, one a second, in a handler that hashes 512 KB.

### Lines

`TypedLines` rests on `Tidy`: the bytes before `cur` are those that were read and the rest
of the buffer is 0. `memmove` copies what follows a line to the front and clears
nothing; what it copies includes the zeroes behind it, and these cover what was
there if the line and what follows it were at most half of the buffer. So it is the
hypothesis on `Half`, 4096 of 8191 bytes, that keeps old bytes out; a line typed at
a terminal has at most 4096. For a pipe, `piped` shows what happens without it.
`TypeCorrect` holds for any input: `cur` may wrap, and the last byte stays 0.

### Routes and queues

`createTable` is Dijkstra's algorithm, with two peculiarities: it visits as many
routers as there are, and `predecessor` is not reset between the searches of different
routers. `Searched` is what is true in the middle of a search: who is done has its
distance, the links from there are relaxed, and `predecessor` is right for those whose
`distance` is no longer 65535. What another search left there matters to nobody, because
in a connected topology no distance is 65535 at the end (`Routing_Assumption`: more than
there are routers). `StartRoute` follows the predecessors back as often as there are
routers, and stops at the neighbour it reached from the router itself; so each entry is a
neighbour from which it is less far (`NextHop`). Tables of different routers are made by
different searches, which may choose different ways among equals: that a packet still
arrives, on a shortest way, is `Reaches`, by descent of the distance.

`NetworkIsChannel` needs from the routes only that the way of a flow does not meet a
router twice (`Walk`): then each queue is on it once, what is on the way is the queues
one after the other (`InTransit`), and a datagram that goes from the head of one to the end of
the next keeps its place. `Carried` says that every datagram in a queue is one that a peer
sent and that the link of the queue is on its way. A step of a router then is an
`Arrive`, a `Lose` (a full queue), or a stutter. `Usable` says which `nodes.map` and
messages are meant: every router is listed, with an id and a port of its own and a real address;
nobody sends to itself; the messages are those of `Sendable`, but not requests for 63
chunks, which `short_request` is about. The instance of `routers` satisfies it. The
messages get through by `MessagesArrive`, and the addresses by `Addressed`.

Recursive functions (`Ball`, `After`, `Search`, `StartRoute`, `CreateTables`, `OfFlow`,
`InTransit`) are unfolded by hand: `Recursion` of `RoutingProofs` says that a function
with such values exists, so that the one the definition chooses has them, and
`Induction`, for properties given as sets, rests on `LeastNumber`.

### Only model-checked

All liveness (`EveryGetCompletes`, `UploadsEnd`, `PacketsLeave`, `EveryLineComes`) needs
fairness and ENABLED, which are beyond the prover. Every other property of a passing run
is proved, under the hypotheses in the table. The five properties of violating runs are
false.

## Not modelled

- SHA-1 itself (`sha.c`, third-party), the list (`my_list.c`), logging (`debug.c`), the demo
  programs `client.c` and `server.c`, which the peer does not use.
- The options of the command line: they are the constants of `Swarm`.
- Memory layout: a 40 byte array for `%40s`, `malloc` that fails, what the C library does
  when the signal handler calls `printf` or `free` while a packet handler is in one of them.
- A chunk file with a repeated hash, and lines of a chunk file that are not read
  (`TableOf` of `Sharing` has them, `Swarm` does not): such a download never ends.
- Latencies, rates and statistics of `hupsim.pl`, and topologies that are not connected.
- A datagram for an address that is not in `nodes.map`, which a router drops: the peers
  and the routers read the same file, so that no peer sends one.
- Peers with one port on two machines, which `find_peer` takes for one another: every
  `nodes.map` here has distinct ports.
- How a request is split into `WHOHAS` is not checked by a run; `RequestsCover` is proved
  for every number of chunks.

## Plan

Done: `Swarm` with its proofs, `Download` with its refinement proof, `SignalRace`,
`HupSim` over `Wire` against `Channel`, `InputBuffer` against `LineInput`, `Sharing`,
`GoBackNProofs` over the contents of the queues, `SignalProofs`, `InputBufferProofs`,
`RoutingProofs` and `HupSimProofs`. Left:

1. What `Undisturbed` excludes, in part: a download that is given up and never asked of
   the same peer again cannot be mixed with another.
