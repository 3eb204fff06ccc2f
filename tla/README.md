# A TLA+ model of the P2P transfer engine

This directory holds TLA+ specifications of the BitTorrent client in `code/`,
the TLC configurations that check them on small instances, and TLAPS proofs of
the properties that matter most. Paths below are relative to the repository.

## The system

The engine is one process with one thread. `main.cpp` parses the torrent, asks
the tracker for peers, preallocates the output files and runs an epoll loop;
everything else happens in callbacks of that loop. Concurrency comes from the
swarm: any peer may send, choke, stall, close or reset at any moment, and every
`send` may discover a broken connection and run the whole disconnection path in
the middle of the handler that was sending.

| Component | State | Operations | Talks to |
|---|---|---|---|
| `DownloadCoordinator` | `peers_`: per peer a bitfield, the requests in flight, the active piece | register, unregister, one branch per message, request pipeline, cancel, HAVE broadcast | PieceManager, PiecePicker (calls); PeerConnection (sends, callbacks); main (completed, corrupted callbacks) |
| `PieceManager` | `bitfield_`, `in_progress_`: per piece its blocks (Pending, Requested, Received), buffer, counter | next block, block received, request failed, validate, complete, discard | called by the coordinator |
| `PiecePicker` | availability histogram | add, remove, pick | called by the coordinator |
| `PeerManager` | `active_peers_`, `blacklist_` | add peers, connect, blacklist, destructor | creates connections, installs callbacks |
| `PeerConnection` | `state_`, four choke/interest flags, `rx_buffer_`, `tx_buffer_`, socket | connect, events, read, write, frame, send, disconnect | EventLoop, TcpConnection; callbacks to the manager and the coordinator |
| `DiskIOManager` | the output files | preallocate, write, read, verify | called by main |
| `EventLoop` | descriptors, timers, cancelled timer ids | register, modify, unregister, timers, run, shutdown | calls everybody |
| `TrackerClient` | none between calls; during one a socket, attempts, timeouts, ids | announce over HTTP or UDP, with retries and fallback | called by main, before the loop and at completion |
| `PeerMessage`, `Bitfield`, `Bencode`, `TorrentMetadata` | a value | conversions from and to bytes | used by all the others |
| `Config`, `Hasher`, `Logger`, `PeerId`, `TcpConnection` | none, or a value | wrappers | |

What is hard here:

- requests and blocks move between three places (`in_progress_`, the peers'
  `outstanding` lists, the wire) under chokes, disconnections, corrupt pieces,
  late and unsolicited blocks;
- a send that fails erases an entry of `peers_` that a caller further up the
  stack still refers to;
- two components install `on_disconnect` on the same connection, and the
  second replaces the first;
- partial reads and writes, with callbacks that send or disconnect in the middle;
- pieces that span files, and writes that fail half-way;
- timers that register and cancel timers, batches of events whose descriptors are
  closed while the batch is handled, signals at any moment;
- datagrams that are lost, late, doubled or foreign, against one read per attempt;
- bytes from peers, trackers and files that are cut off, damaged or ambiguous;
- everything that must eventually happen without timeouts.

`PROJECT.json` lists these as hazards, each at its line, with the properties
that would show it going wrong.

## Modules

| Module | Models | Notes |
|---|---|---|
| `PieceManager` | `piece_manager.cpp` | operators on `bitfield` and `in_progress` |
| `PiecePicker` | `piece_picker.cpp` | extends PieceManager |
| `DownloadCoordinator` | `download_coordinator.cpp`, and main's two callbacks | extends both; the state machine |
| `DownloadCoordinator_proofs` | | TLAPS: types, the invariants among arbitrary peers, rarest first |
| `DownloadCoordinator_transfer_proofs` | | TLAPS: the refinement, duplicates, honest peers |
| `InductionLemmas` | | TLAPS: induction, recursive functions, sums, concatenations |
| `PeerManager` | `peer_manager.cpp`, callback ownership, the end of `main` | |
| `PeerManager_proofs`, `PeerConnection_proofs`, `EventLoop_proofs`, `TrackerClient_proofs`, `DiskIO_proofs` | | TLAPS |
| `PieceTransfer` | what the coordinator promises | abstract; implemented by `DownloadCoordinator` |
| `PeerConnection` | `peer_connection.cpp`, `tcp_connection.cpp`, framing of `peer_message.cpp` | |
| `EventLoop` | `event_loop.cpp`, the timers and the signal handler of `main.cpp` | |
| `TrackerClient` | `announce`, `announce_http`, `announce_udp`, and what `main.cpp` does with the outcome | |
| `DiskIO` | `disk_io.cpp`, file offsets of `torrent.cpp`, final validation of `main.cpp` | |
| `Bencode` | `bencode.cpp` | operators; recursive |
| `TorrentMetadata` | `torrent.cpp` | extends Bencode |
| `TrackerResponse` | `parse_response`, and separately the peer list of `announce_udp` | extends Bencode |
| `PeerMessage` | `peer_message.cpp`, byte by byte | operators |
| `Bitfield` | `bitfield.cpp`, byte by byte | operators |
| `Codecs` | the five above, between an encoder, damage and a decoder | the state machine that checks them |
| `MC*` | | constants for TLC |

Operators and actions carry the names of the functions they model where TLA+
allows it. An operator whose name ends in `_Something` and whose comment begins
with "Mutant" is a deliberately wrong variant of the definition that follows
it. It is used by no specification; it serves to show that a property notices
the mistake.

### DownloadCoordinator

A handler that is one straight piece of code is one action. A handler that
loops over peers or requests (`fill_request_pipeline`, `cancel_piece_requests`,
the HAVE broadcast) is one action per iteration; `thread` is the program counter,
and no event is handled until it is idle again. A handler therefore never
interleaves with another, as in the code, and what is nondeterministic is which
peer acts next and which sends fail.

- Bytes are abstracted to right or wrong: `data` is the set of offsets of the
  buffer that hold the byte the digest was computed from. A payload has a length
  and a quality. SHA-1 is taken to be exact.
- `outstanding` is a bag of requests. The vector is only ever searched, counted
  and erased from.
- An honest peer sends the bytes it was asked for. It may still answer a request
  for a piece we completed meanwhile, and, after it choked and unchoked us, one
  that the choke made us withdraw (the ghost `withdrawn`), when another peer may
  have been asked for the same block. Any other peer sends any block of
  any piece, one index and one offset past the end included, right or wrong, of
  any length up to `MaxPayload`.
- `NoDuplicateRequest` therefore lets a block that has come be in flight once
  more: the late answer was stored while the other peer's request is out. What
  never happens, until a freed entry is used, is that a block is in flight twice.
- Where the C++ behaviour is undefined because an erased entry of `peers_` is
  used, the step records the site in the ghost variable `dangling` and the
  process aborts or goes on. The four sites are the corrupt-piece branch, the
  cancel loop, the broadcast loop and the request loop. Going on is modelled by
  what the freed memory would plausibly still do: the cancel loop may miss
  peers, the request loop may mark further blocks of the active piece Requested.
  Two properties (`NoOrphanRequest`, `CancelComplete`) are stated for executions
  in which their own site has not been hit.
- INTERESTED is sent unconditionally after the handshake, so the two later
  places that send it when it has not been sent before are never reached with a
  send; the condition is modelled all the same.

`PieceTransfer` states what all this amounts to, without peers, requests or
connections. Blocks are collected, each at most once, until one is missing; when
it comes the piece is obtained, with its bytes on disk or not (a failing write is
only logged), or all of it is discarded. `DownloadCoordinator` implements it with
`have` the bitfield and `held` the blocks marked Received of the pieces in
progress (`HeldBlocks`): every choke, lost peer, late, unsolicited or over-long
block and every failing send is a stutter or one of these three steps. In
particular no event on one connection loses what another one has delivered.

### PeerManager

A connection is reduced to its `ConnectionState` and to the owner of its
`on_disconnect` callback. `add_peers` is one action per element of its list;
`connect_to_peer` is `add_peers` with one element, since it makes the same
checks. `WithCoordinator` says whether `on_peer_connected` is set, as in
`main.cpp`, or not, as in the tests; the runs use the former, the proofs cover
both. The last two actions are the destructors at
the end of `main`, in reverse order of construction. Between them both kinds of
callback would reach the destroyed coordinator, the manager's own through
`on_peer_disconnected` (`peer_manager.cpp:96`, `main.cpp:126`); nothing runs there,
and the manager's destructor clears both before it closes a connection. What it
closes are the entries of `active_peers_`: `ClosedOnExit` says that these are all the
open sockets there are.

### PeerConnection

The peer's stream is fixed at the start: a handshake and up to `MaxFrames`
frames. Its bytes arrive one at a time and may be read at any point. Between
`epoll_wait` and each `recv` or `send` more bytes may arrive and the peer may
close or reset. `on_handshake` and `on_message` hand control to the client, which
sends or disconnects any number of times (up to `MaxSends` messages). Sends
accept any prefix. A byte is a pair of message kind and position: enough for the
order and framing properties, and nothing is said about the fields of a message.
Messages are sent only on Active connections, as the engine does.

### EventLoop

One thread goes through its timers, waits, and handles a batch of events. Time is
counted in ticks that are shorter than a millisecond, since what matters is that
`epoll_wait` takes whole milliseconds; deadlines are kept relative to the present,
so that the state space is finite. `now` is a value that grows old while callbacks
run (`drift`). The kernel's ready list is a sequence from which `epoll_wait`
reports at most `MAX_EVENTS` and which it rotates, as level-triggered epoll does.
A handler leaves events behind or not, closes any set of connections, and
registers or cancels timers; the two timers of `main.cpp` register themselves
again or shut the loop down. Descriptors are all opened before the loop runs,
as in `main.cpp`, so that a number is never given to a second connection.

### TrackerClient

The announce that precedes the download. Requests and replies in flight are
sets, the socket's queue is a sequence, and each step reads at most one datagram,
as the code does: anything that is not the reply to the last request uses up an
attempt. A datagram has its length, action, transaction id and connection id; ids
drawn with `std::rand` are taken to be distinct. `blocked` is the longest time the
whole announce can have taken so far, over all trackers: `getaddrinfo`, which the
code calls without a limit of its own and which blocks for the resolver's
(`ResolveTimeout`, whether it succeeds or not), the receive timeouts, and
curl's limit for each HTTP tracker, with or without an answer. The calls that do not
block (`setsockopt`, `sendto` on a UDP socket) take no time. HTTP is one step with
its possible outcomes, and a tracker is its scheme. The last action is what `main.cpp` makes of the outcome and
of `--peer`.

### Codecs

A behaviour encodes one value (a message, a bencoded value, a torrent, a tracker's
answer over HTTP or UDP) or takes the bytes of a bitfield, damages the bytes in one place or not,
and decodes them. Numbers have their widths, in a base and with limits that make
the boundaries cheap to reach: bytes of 16 values for messages, of three bits for
bitfields, integers up to 25, digests of two bytes. Dictionary keys are
abbreviated to one character each that keeps their order. Everything the code
throws is `Fail`. A port that the code leaves uninitialised is `AnyPort`. Compact
peers are read by two loops in the code, and by two definitions here (`CompactPeers`
for HTTP, `udp_peers` for UDP), which `PeersAgree` compares with each other and the
second with what the tracker sent. The sums of file sizes wrap like the processor's
additions (`Wrap`); the C++ standard leaves them undefined.

### DiskIO

The right byte at global offset `g` is the number `g`, so a byte in the wrong
place is a wrong byte. Writes may fail after any number of bytes with an
exception; or without one, when the stream is flushed by its destructor.

## Runs

Every run is `tlc -config <run>.cfg MC<module>`.

| Run | Result | Distinct states | Question |
|---|---|---|---|
| `coord_byzantine` | holds | 383,356 | is the bookkeeping consistent, and each block in flight at most once, with an arbitrary peer, failing sends, chokes that cross answers, failing disk? |
| `coord_honest` | holds | 1,030,839 | with three honest peers, is each piece resolved, none spoilt by the engine, the rarest picked? |
| `coord_live` | holds | 3,842 | does a download from connected seeds complete under choking? |
| `coord_stall` | violated | | ... and when one of two seeds disconnects? |
| `coord_use_after_free` | violated | | is an erased entry of `peers_` ever used? |
| `peers_engine` | holds | 24,972 | caps, blacklist, registration; is every socket closed at exit? |
| `peers_leak` | violated | | does a dropped connection give back its slot? |
| `conn` | holds | 354,566 | framing, send order, EPOLLOUT, clean-up; does everything flow? |
| `loop` | holds | 247,320 | are handlers never stale, timers never late or early, all descriptors served, and does the engine stop? |
| `tracker` | holds | 818,045 | is what is believed authentic, are losses made up for, the socket released, the time of the whole announce bounded? |
| `codec` | holds | 223,950 | does decoding invert encoding, refuse what is ambiguous, yield metadata that fit together, and the same peers over HTTP and UDP? |
| `disk` | holds | 484,275 | are bytes in place, and is the final report right? |

`coord_byzantine` also checks that `DownloadCoordinator` implements
`PieceTransfer`.

The violated runs are disagreements between the code and what its documents,
comments or tests say; `PROJECT.json` quotes the sentence for each under
"findings". In short: blocks of a lost peer are not asked for again from peers
that are idle; a failing send leaves references to an erased map entry; the
coordinator's callback replaces the manager's, so dropped connections keep their
slots.

### Disagreements without a run

These are visible in the modules as well, and the properties are stated so that
they say what does hold.

- The peer that completes a corrupt piece is blacklisted, whoever sent the wrong
  bytes (`download_coordinator.cpp:247`), while `docs/Notes.md:269` speaks of "the
  offending peer". In the instance of `coord_byzantine`, `blacklist \cap Honest = {}`
  fails: the arbitrary peer sends a wrong block of a piece, the honest peer its last
  one, and the honest peer is blacklisted. What does hold is
  `BlacklistNeedsOffender`: the engine itself never spoils a piece.
- `docs/Notes.md:269` says that blacklisting "blocks any future connections from
  that IP". The code keys the blacklist by address and port, and so does its test,
  which expects another port of a blacklisted address to be connected
  (`tests/test_bencode.cpp:1128`, `1133`). A peer of the model is such a pair, and
  `NeverBlacklisted` speaks of pairs.
- A block whose payload runs past its piece is marked Received and not counted
  (`piece_manager.cpp:72`): the piece then has all its blocks and is never
  resolved, against `piece_manager.hpp:52`. `FullyReceivedIsResolved` is checked
  for payloads of the right length.
- The info hash of a received handshake is compared with nothing
  (`ProcessHandshake`), while `docs/Notes.md:230` says of Active connections
  "Handshakes match"; the properties of a connection are checked with such a peer
  included.
- `pick_piece` counts pieces that are only fully requested as obtained
  (`CompletedOrFull` in `PieceChoices`), so that random selection may end before
  four pieces are obtained (`docs/Notes.md:302`).
- The timeout of `epoll_wait` is cut to whole milliseconds, so that the loop wakes
  up to a millisecond before a deadline and polls until it is reached, while
  `docs/Notes.md:148` says it wakes "exactly" then. `SleepsNoLonger` states the
  half that holds.
- A datagram that is late or doubled puts the client one answer behind for good:
  every later read finds the answer to the attempt before. `ToleratesLoss`
  therefore speaks of losses only, and `upset` names what it leaves out.
- An HTTP answer with a failure reason is returned like a success, so that the
  trackers behind it in the list are not asked.
- The completion announce passes the downloaded bytes as `uploaded`
  (`main.cpp:279`).
- `from_bencode` lets negative sizes through when they fit together, and divides by
  a piece length of zero. It adds file sizes without a check (`torrent.cpp:169`,
  `188`): lengths of 2^63 - 1, 2^63 - 1 and 4 wrap to a total of 2, and one piece of
  length 2 is accepted for them; a piece length close to 2^63 overflows the rounding
  in the same way. The samples of `codec` hold both cases, and `LayoutConsistent` is
  stated for sizes whose sums fit. The parser refuses the smallest `int64_t`, which the
  encoder writes; `RoundTrip` says so. A compact peer list that is cut off is
  refused over HTTP and loses its tail over UDP.

### Bounds

- The coordinator: two pieces, of two blocks and of one, so that there is a full
  piece, a short last piece, and a piece assembled from two peers. A pipeline of
  two fills up and holds blocks of two pieces. `BootstrapPieces` is 1, so that
  both phases of the picker are reached with two pieces; `coord_honest` uses 0 to
  have rarest-first in force from the start with three peers, where availability
  can differ. `MaxPayload` 2 is longer than a block and, at the last block, runs
  past the piece. In `coord_byzantine` the honest peer chokes, so that its late
  answers cross requests to the other one; bitfields are the first piece or both, and
  the arbitrary peer sends HAVEs. `coord_honest` has every bitfield that is not
  empty, and no HAVE.
- The manager: three peers for two slots, and lists of three, duplicates
  included.
- The connection: sizes 2 for handshake and header make every split of every
  frame happen; two frames and two sends give each handler a predecessor and a
  successor. A handshake of another torrent is taken like one of this torrent, so
  one of the two stands for both.
- The loop: three descriptors for batches of two; main's two timers and one more,
  which handlers register and cancel. Two ticks to the millisecond, so that a
  deadline may fall between two of them; cancels are of pending, fired and never
  registered ids. `MaxLate` bounds how far the thread gets behind, `MaxIds` the
  timers at a time.
- The tracker client: two attempts per phase instead of three, so that there is a
  first, a last and a repeated one in both phases; two duplicated or foreign
  datagrams, enough to use up all attempts of a phase. Lengths below, at and above
  the minimum of both phases, and a peer list with a remainder. The times are 3
  and 10 seconds as in the code; 5 seconds for a resolution stand for any number,
  as the proof shows.
- The codecs: every message type with numbers at both ends of their range; every
  integer of the width and the ones just outside by damage; torrents that are
  right, short of a piece, incomplete in each part or too long to add up; datagrams
  of none, one and two peers, cut off anywhere; every bitfield of up to two
  bytes against five numbers of pieces. One damaged place suffices to make every
  check of the decoders fail once.
- The disk: pieces of 3 bytes over up to three files of 0 to 3 bytes reach pieces
  inside one file, over two and over three, empty files at every position, and a
  short last piece. Old files are shorter or longer than needed.

### Deadlock

`CHECK_DEADLOCK FALSE` is set where the modelled thing really ends: a swarm in
which every peer has disconnected or the process aborted, a process after `main`,
a connection that is down, a loop that was shut down, an announce that is over, a
value that has been decoded, a finished validation. `coord_live` checks deadlock.

### Fairness

`DownloadCoordinator`: weak fairness of the handler that is running, because the
thread never blocks. Strong fairness, for the peers that are honest and do not
disconnect, of connecting, announcing all pieces, lifting a choke and answering
each outstanding request: epoll is level-triggered, so what such a peer sends is
served in the end, and sending it is what makes the peer a seed. A connection
that may break does break in the end. No fairness is assumed for choking, HAVE or
anything a dishonest peer does.

`PeerConnection`: weak fairness of connecting, of the network, of polling and of
the running handler, and strong fairness of a write that makes progress: the
peer reads, so the kernel's buffer has room again and again.

`EventLoop`: weak fairness of the thread and of the clock. Nothing is assumed of
the peers, which may keep the loop busy, or of the user.

`TrackerClient`: weak fairness of the client's thread, whose receive timeouts
expire. Nothing is assumed of the network or the trackers.

## Proofs

`tlapm M.tla` checks the proofs of a module `M`: `InductionLemmas` and the seven
modules `*_proofs`. They hold for every value of the constants (sets of
peers, piece and file layouts, pipeline depths, caps, batch sizes, timer periods,
lists of trackers, attempts, timeouts) from the assumptions named in the modules: a
finite set of peers, positive lengths, subsets of the declared sets, layouts that
hold at least one byte, and ids enough for the two timers of `main.cpp`.

**The coordinator.**

- `TypeCorrect`: `TypeOK` is inductive. The effort goes into a block for the
  index past the last piece, which the assembler stores in a fresh empty piece:
  it counts as assembled at once and is dropped in the same handler
  (`NotAssembledInRange`), so `in_progress_` never keeps it.
- `BlacklistCorrect`: the registered peers are those with a live connection, and
  blacklisted ones are disconnected. It is inductive with `TypeOK` and two facts
  about the thread: the peer of a running handler, and the peers still to be
  cancelled, are known.
- `NoOrphan`: a Requested block is in the outstanding list of a registered peer.
  By itself this is not inductive, because `cancel_piece_requests` drops requests
  without returning their blocks. The strengthening (`OrphanInv`) adds that a
  piece that is completed is not in progress (`InProgressNotOurs`) and that the
  piece being cancelled is a completed one (`CancelledIsOurs`): the requests it
  drops have no blocks any more. The other steps each have a reason of their own:
  a choke or a lost peer returns exactly the blocks its list holds
  (`ReturnedStayOwned`), a stored block is Received whoever had been asked for it
  (`StoredNotRequested`), and a new request is pushed by the step that marks its
  block (`FillRequestOwned`).
- `PipelineCorrect`: the length of an outstanding list, a sum over a bag, stays
  within the pipeline, and a peer that chokes us owes nothing.
- `CancellationComplete`: `CancelInv` says what is still allowed while
  `cancel_piece_requests` runs: the peers it has not visited may owe blocks of the
  piece being cancelled, and of no other piece we have. Like the invariant it
  excepts a loop that went through the entry of a removed peer, which is what the
  run `coord_use_after_free` is about.
- `AvailabilityCorrect`: the histogram equals the number of registered peers that
  have the piece. Inductive with the facts about the thread; every removal of an
  entry goes with the matching decrements.
- `RarestFirstCorrect` follows: the picker compares exact numbers.
- `TransferRefined`: the coordinator implements `PieceTransfer`. Needed is that
  `blocks_received` never exceeds the number of Received blocks, and that a piece
  in progress has a block it does not count (`CountOf`): then a piece that is
  assembled has all its blocks. Every action but the reception of a block keeps
  what the abstraction speaks of (`KeepsData`); that one is a Collect, a Resolve,
  or nothing new.
- `NobodyBlacklisted` and `HonestResolved` rest on `HonestInv`: as long as no
  arbitrary peer has connected, the right bytes of a piece in progress are those of
  its Received blocks, and `blocks_received` is their number. The second assumes
  `Honest = Peer`, as in the run `coord_honest`, since among arbitrary peers it fails
  (see the disagreements above).
- `NoDuplicates` holds for arbitrary peers. Inductive is that a request in flight is
  so once, at one peer, and for a block that is Requested or has come (`Once`), as
  long as no entry of a removed peer was used; with `NoOrphan` and
  `CancellationComplete` it gives the sum over all lists that `NoDuplicateRequest`
  speaks of.

**The peer manager.** `ConnectionCap`, `BlacklistRespected`, `RegistrationCorrect`,
`NothingLeftOpen` and `ManagerTypeCorrect` follow from one inductive
invariant, `ManagerInv`, which adds that the entries themselves respect the cap,
that the callbacks of a connection belong to the manager until it is established
and to the coordinator from then on, and that no list is being worked off once
`main` has begun to end (`ExitIsQuiet`).

**A connection.** `DownIsClean`, `NoLostWakeup`, `SentInOrder` and `ReceivedInOrder`
follow from `ConnectionInv`. `EpollOutExact` speaks of the time between handlers;
inductive is that EPOLLOUT is armed rightly inside them, too (`ArmedInv`).
`FramesInOrder` needs where the parser stands in the stream as a position
(`ParsedTo`): some n messages have been taken off it, and the buffer is the part of
the stream between the end of the n-th and what was read. `StartInv` says that
nothing is read or queued before the handshake is.

**The loop.** `NeverStale`, `NeverOversleeps` and `TimersFireInOrder` follow from
`LoopInv`, the types (the kernel's list holds registered descriptors without
repetition) with the two invariants. The work is in the list: what one wait
reports moves to its end (`RotateInjective`), what a handler closes or drains is
taken out (`KeepInjective`).

**The tracker client.** `SocketAlwaysReleased`, `AnswersAuthentic` and
`LossTolerated` follow from `TrackerInv`: the socket is open exactly while a UDP
exchange runs, datagrams that name a transaction carry the id issued for it
(`Genuine`), and attempts are used up by losses unless something else happened.
`BlockedBounded` adds `TimeInv`: the next attempt waits for one first timeout and
all that the attempts of its phase before it may have waited, at most, so that n
attempts take `Doubling[n]`; an announce phase has a whole connect phase behind it,
and both have the resolution of the name and the trackers before this one
(`Budget[url - 1]`).
An attempt that a foreign datagram uses up keeps its timeout and stays below.

**The disk.** `WritesCorrect` and `ReportCorrect` follow from `DiskInv`, which adds
to the two properties how far `preallocate_files` has come (`AllocInv`) and that the
piece being written is complete in the files already passed (`WriteInv`). Under it
are facts about the layout. The offsets of files never decrease, by induction over
`Start` (`StartGrows`), so a byte lies in exactly one non-empty file (`FileExists`,
`FileUnique`), and the pieces leave no byte out (`PieceOf`). The positions that
`write_piece` computes from the overlap are exactly those of the piece's bytes
(`OverlapExact`), which is why a write never extends a file, never touches another
piece and, cut off anywhere, leaves right bytes or what was there (`WriteKeeps`).
`read_piece` takes a byte from the last overlap that holds it, and there is only the
one (`ReadByte`, `VerifyExact`). `OkIsComplete` draws the conclusion for the user:
when the report is "ok", every file is what the torrent describes.

The induction over data that the proofs need (sums over finite sets,
concatenations of sequences) is in `InductionLemmas`. The theorems of the library
that take a property as an operator cannot be applied, so properties are sets of
natural numbers, and a counterexample would have a least element (`LeastNatural`).
A function that is recursive over an interval (`Start`, `Doubling`, `Budget`) is known to
satisfy its equation once one that does is shown to exist (`RecursionExists`).
The prover knows no facts about `SelectSeq`; where the model selects a subsequence
(`StillReady`, `Messages`) it concatenates sequences of one element or none.

`TrackerInv`, `TimeInv`, `ConnectionInv`, `LoopInv` and `DiskInv` are also invariants
of the instances of `tracker`, `conn`, `loop` and `disk`, as TLC confirms.

**Only model-checked**: liveness (`Stops`, `Served`, `EverythingFlows` and the
other leads-to properties), since the prover handles no fairness; and the codecs.
What `Bencode` parses and writes is defined by recursion over values and bytes, which
is out of the prover's reach, and the widths of messages and bitfields are powers,
about which it has no facts. Every other invariant and action property that a
passing run checks is proved.

## Not modelled

- `Config`, `Hasher`, `Logger`, `PeerId`: string handling, a library's digests,
  output and random characters, without state of interest. Digests are taken to be
  exact.
- Of the tracker client: the URLs (building, escaping, splitting), the transport
  under HTTP, the counters it reports, and the second announce, at completion,
  whose outcome is ignored and whose duration `BlockedBound` bounds.
- Of the event loop: an `epoll_wait` that fails for another reason than a signal
  (the loop ends), and the latency statistics.
- Of the peer messages: frames of 2^32 - 4 bytes and more, for which the sum of
  length and prefix wraps around, and the fields of the handshake, which are
  copied to and from fixed places.
- `TcpConnection`'s own `send` and `recv`, `PieceManager::mark_completed` and
  `PiecePicker::remove_availability`, which only tests call.
- A request timeout, keep-alives, uploads and incoming connections do not exist in
  the code.
