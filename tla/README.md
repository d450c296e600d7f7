# A verification project for cryze

cryze lets a Wyze battery doorbell be watched without the vendor's cloud. It
intercepts the doorbell's connection to the vendor's signaling servers
("Mars"), plays their part in a local relay, and runs the vendor's SDK in a
bridge process whose video goes to go2rtc. This directory holds TLA+ models of
the program, the TLC runs that check them, and proofs checked by TLAPS. Paths
below are relative to the repository; `relay/` and `bridge/` are short for
`src/relay/` and `src/bridge/`.

    tlc -workers 2 -config MtpRelay_pairing.cfg MCMtpRelay     # one run
    tlapm MtpRelayProofs.tla                                   # one proof module

## The system

    doorbell, chime <--UDP/TCP--> relay (gutes_relay.py, asyncio)
                                    | registry, keys, CALLING queue, MTP relay
    go2rtc <--H.264-- bridge (daemon.cpp or main.cpp + vendor SDK) --UDP/TCP--> relay
                        | LD_PRELOAD hook -> session_key_extracted.bin -> relay
    network_setup.py: iptables, DNS, ARP so that the devices' traffic comes here
    entrypoint.py: starts and stops all of it in the container

| Part | State it keeps | Operations | Interacts with |
|---|---|---|---|
| MTP media relay (`relay/mtp_relay.py`) | two pending lists, `mtp_pairs`, `mtp_link_counter`, one handler task per TCP connection, two copy tasks per relay loop | accept, identify, pair, wait, relay, close | bridge and doorbell over TCP; `frame_builder.py` advances the counter |
| Response dispatch (`relay/gutes_relay.py` `_recv_loop`, `_tcp_signaling_handle`) | `_extra_responses`, shared by all loops | take a request, send response and extras | every client; the handlers that queue extras |
| CALLING and wakeup (`relay/calling.py`) | `clients`, role term ids, `pending_callings` | route, wake the chime, queue, deliver | doorbell, chime, bridge |
| Session keys (`bridge/bionic_interpose.c`, `session_key.cpp`, `relay/session_crypto.py`) | key in memory, key file, `session_keys`, `addr_session_keys`, `session_keys.json` | capture, write, rewrite, load, persist, look up | SDK thread, main thread, relay: three actors and one file |
| Bridge daemon (`bridge/daemon.cpp`) | `g_shutdown`, `g_streaming`, `g_channel_id`, the output descriptor, stdio's buffer | startup, start, stop, quit, end of input, exit | SDK threads, controller (stdin), signals |
| One-shot bridge (`bridge/main.cpp`) | the same SDK session, one link | run to the end | as above |
| Handshake (`gutes_relay.py` 227-660, `frame_builder.py`, `session_crypto.py`) | `addr_session_keys`, `addr_session_id`, `addr_last_sqnum`, `clients` | read, answer, predict request numbers | SDK, doorbell |
| Mars proxy and proxy mode (`gutes_relay.py` 449-575, 879-980) | a persistent socket per address, one per CERTIFY, one per term id | ask Mars and block, give up, forward both ways | Mars, every client |
| Keepalive (`gutes_relay.py` 375-399, 720-760) | `doorbell_addr`, `keepalive_misses` | periodic send, count, reset | doorbell |
| Broadcast discovery (`relay/broadcast.py`) | `doorbell_mtp_port` | listen, update | LAN |
| Network setup (`src/network/network_setup.py`) | iptables chains and jumps, child tasks | set up, clean up, on signals too | kernel |
| Entrypoint (`scripts/entrypoint.py`) | child processes, `libs/`, the bridge's binaries | build, start, watch, shut down | all of it |
| Authentication (`bridge/wyze_auth.cpp`) | token cache file | load, refresh, save, wake up | vendor cloud |
| RC5 (`relay/rc5.py`) | key table | key schedule, encrypt, decrypt | every frame |

What is hard here: asyncio tasks that interleave at every `await` over shared
lists; waiters that poll for what another task did; a relay that answers
requests whose numbers it cannot read; requests to Mars that block the event
loop while everybody else waits; a file written by two threads of one process
and read by another; a daemon whose main thread, SDK threads, controller and
signals meet at exit; signal handlers that run in the middle of the setup they
undo; peers that vanish, sleep and come back; restarts that forget the registry
while iptables and `libs/` remember everything. There are no tests in the
repository. `PROJECT.json` lists these hazards line by line with the properties
that cover them, and each component's status.

## Modules

`M.tla` is the specification, `MCM.tla` instantiates it for TLC, `M_run.cfg` are
its runs. An operator `X_Y` beside an operator `X` is a faulty variant of it; no
specification uses one. `PROJECT.json` names the run and the property that
catches each.

| Run | Bound | Shows |
|---|---|---|
| `MtpRelay_pairing` | 3 connections, any role, 1 poll, 1 chunk each, 2 link ids | `PairedOnce`, `ReturnedIsClosed`, `NoCrossTalk`, `Implements`, types |
| `MtpRelay_streams` | 2 connections, 2 chunks, 2 polls | `NoDuplicates`, `LoopKeepsOrder`, `WaiterResolved`, `RelayTornDown` |
| `MtpRelay_stays` | 2 connections | violation of `RelayedStaysOpen` |
| `ResponseDispatch_mixed` | 1 UDP and 2 TCP clients, 4 requests of theirs, up to 2 ACKs for each | `UdpAckBeforeResp`, `AckAtMostOnce`, `UdpAckToOwner` |
| `Wakeup_queue` | 2 calls of both senders, UDP and LIST port, any of the sends fails | `QueuedNotLost`, `NotCalledLate`, `CalledAtMostOnce`, `WakeupDelivers` |
| `Signaling_handshake` | 2 sessions, 3 ports, 1 repeated request | `OneClient`, `KeysMatch`, `OnlyOldSessionsMislead`, `AnswersFit`, `OnlyRepeatsMislead` |
| `Upstream_all` | a doorbell, a bridge with two ports, a bridge on TCP, 2 requests of any kind, 2 answers each | `ClientsApart`, `LateOnlyAfterGivingUp`, `DormantMeansUnheard`, `EveryoneServed` |
| `SessionKey_all` | 4 keys, both writers, failing writes, repeated CERTIFYs, restarts | `NeverBlank`, `RightKeyUsed` |
| `BridgeDaemon_all` | 3 commands, 2 channels | `FramesHaveOutput`, `NoForgottenLink`, `ShutdownExits`, `EndOfInputStops`, types |
| `HostSetup_all` | 2 programs, 2 configurations, 3 starts, 2 signals | `SetupReplaces`, `LiveChainsComplete`, `NetworkExitCleans`, `EarlyShutdownDisarms`, `LaunchedComplete`, `SignalEnds` |
| `HostSetup_shutdown` | 1 start, 1 signal | violation of `ShutdownCleans` |
| `RC5_roundtrip` | words of 3 bits, 3 rounds, keys of 0 to 2 words | `Retraces`, `RoundTrip` |

### MtpRelay and MediaPairing

One variable per field of the Python state; `phase` is the `await` at which a
handler is suspended, `copy[h][r]` that of the task of handler `h` that reads
side `r`. Every action is the code between two awaits. Python's
StreamReader/StreamWriter and TCP are modelled from their use: `inbuf`, `left`
(FIN), `closed` (transport lost or closed), and a `read()` that raises
`RuntimeError` when another task waits on the same stream. A stream has one
`_waiter`: a task that goes on sets it to `None`, even when another task has
meanwhile taken the data and waits in its turn (`ResumeCopy`). That one is
`"lost"`: nothing wakes it any more, not even the end of the stream. The 30 s
deadline is a number of polls (`PollLimit`).

`MediaPairing` is what peers may rely on: two free ones `Meet`, for good, and
each hears only what its partner has said. It knows no queue, handler, poll or
copy task. `Implements` is `MediaPairing!Spec` under the mapping that derives a
connection's partner from the pairs handlers hold, and what it has heard from
the chunks written to it.

Three connections are the fewest with which a pair and a third party exist; two
link ids let a delayed pair replace another's entry or not. Two chunks are the
fewest that can be swapped; the doorbell of `streams` is identified by its first
frame, which is the case with two relay loops over one pair. With
three connections there are never two pairs, so that a delayed pair that replaces
the entry of another live pair is covered by the theorems `PairingOneToOne` and
`ReturnedClosed` alone. Fairness: the event loop runs every task that is ready
and every timer that is due; nothing is assumed of peers.

What the violation shows: a connection paired at once by a newcomer is closed by
its own waiting handler, because the pair was not stored. After a delayed pairing
both handlers relay the same streams, and one of the loops can die of a `read()`
that the other awaits (`CopyReads`), or wait for ever when the other took its
waiter away: its `gather` never returns and its handler stays. `RelayTornDown`
says that this is the only way a relay loop outlives its peers; without that
exception it is violated.

### ResponseDispatch

`extraResponses` is the one list of the relay. A UDP loop takes a request, sends
all extras to their addresses, then the response, without an await in between; a
TCP handler writes its response, suspends in `drain()`, then walks the list,
suspending after every write, while others pop, append or clear. A request may
queue several ACKs: a proxied CERTIFY one for each CERTIFY_ACK among the packets
it reads, and it may be proxied twice. So `AckAtMostOnce` is about each queued
ACK: what Mars sends twice a client gets twice. One UDP and two TCP clients are
the fewest with which a TCP handler's walk meets a UDP loop and another walk; four
requests with up to two ACKs let every one of them ask and one ask again.

### Wakeup

The registry (`via`, `age`, `known`), `pending` and the doorbell itself. Time
passes in units of 30 s; the run shortens all limits to one unit, which two ticks
exceed. `fate` records what became of every CALLING and is read by no action.
Every entry of the queue is sent on its own: `failing` is the set of calls whose
`sendto` raises, so one may fail among others that are delivered, and exactly
those that failed stay. A doorbell that certifies over the LIST port (51701),
which has no socket to answer from, or over TCP signaling, whose address receives
no datagrams, gets nothing and the queue is dropped; `QueuedNotLost` names both.
The run has the LIST port, and the theorem `QueueLosesNothing` every mix of
transports. Wrong keys, failing sends and restarts are in the run. Fairness: the
chime acts on a request it holds and a doorbell that woke up certifies, which is
the business of their firmware; the relay owes its part at once.

### FrameCodec and Signaling

`FrameCodec` has the frames the relay builds and reads. A frame is a function
from word indices to words, a word a set of terms combined by XOR, and an
encrypted block a term that only the same key applied to the same block takes
apart. So the order in which a builder fills in numbers, computes the checksum,
encrypts the payload, the numbers and the id is all there, and a reader that
undoes it in another order gets noise; what the bytes mean is not.
`Signaling` runs the SDK's script (DETECT, LIST, CERTIFY, INIT_INFO, SUBSCRIBE,
SESSION_CTL, CALLING) against `handle_packet` over datagrams that are repeated,
overtaken and lost, in two sessions with new ports and keys. The SDK finds the
request an answer is for by its number alone, so `mismatched` says whether it
ever took one for another; `shifted`, `twice` and `misread` are history and name
the only circumstances in which things go wrong. Two sessions are the fewest
with an old key, and one repeat shifts a prediction. The SDK is external: its
numbering and what it accepts are taken from the comments and the builders of
the relay (`frame_builder.py`, `gutes_relay.py` 363-412).
INIT_INFO_RESP and CALLING_ACK carry the session id of the address, or else the
first one of the same host (`HostId`); the other answers have no such fallback.

### Upstream

Requests are numbered; a packet of Mars names the request it is for and the
socket it is in, and the relay looks at neither. `job` is the request that
blocks the event loop, so every other handler has `job = Idle` as guard, and a
datagram, also a sign of life of the doorbell, waits in `inbox` meanwhile. A
persistent socket keeps what comes late, the CERTIFY socket loses it, and the
sockets of proxy mode, one for each term id, pass on everything to the address
that sent last with that id; frames without a complete header share the id 0.
`extras` is `_extra_responses` once more, with the CERTIFY_ACKs of Mars in it
and TCP handlers that write all of it to their own client (`TcpWritesExtra`): a
set here, since order and copies are the subject of ResponseDispatch. `Instead`
is what the relay does without an answer (captured key, second attempt,
prediction, or nothing). `given` is what the last step gave to clients, each with
the request it was given for and the one Mars meant. A configured upstream host
is assumed. `gaveUp`, `answered` and `unheard` are history.

`ClientsApart` names the two holes through which what is meant for one client
reaches another: a term id used by several addresses in proxy mode, and the shared
list in the hands of a TCP handler. `DormantMeansUnheard` compares the relay's
counter with the signs of life that have arrived: it may run ahead only while
one of them still waits behind a blocking request.

Two requests and two answers are the fewest with a late answer and a copy; two
bridge ports and a TCP bridge beside the doorbell let answers cross within a term
id, between term ids and through the shared list. `MaxRead` and `MAX_MISSES` are
10 and 3 in the code and 2 here. Fairness: the receive loops run, and a socket
has something to read or times out; nothing is assumed of Mars, nor of a TCP
client that does not read what it is sent.

### SessionKey

A key is the number of the CERTIFY it belongs to, so "the right key" is "the
last one". `made` and `sdk` are the SDK, `file` the key file (`Blank` between
`O_TRUNC` and `write`), `addrKey`, `termKey` and `cached` the relay's tables.
The relay may handle a copy of a CERTIFY and derive a key the SDK does not have
(`Stray`), and the hook may fail to open or write the file. `faults` records which
of three things has happened in the present session: a CERTIFY was handled again,
the hook could not write the file, `main` wrote it once more. No action reads it.
Each of the three alone can make the relay use a wrong key; `RightKeyUsed` says
that nothing else does: no fault of an earlier session, no restart, no Mars
fallback, no half-written file. Four keys let the hook, `main` and the relay each
hold a different one and a newer one follow. The type invariant is proved
(`KeyTypesCorrect`) and not part of the run.

### BridgeDaemon

`pc` follows `main`; `pipe` and `buffer` separate what `select()` sees from what
`fgets` can return: a line that arrived together with another stays in
`buffer` until more input or the end of input makes `select()` return, so
`EndOfInputStops` speaks of the end of input and no property promises that a
buffered line is obeyed before. `channel` is `g_channel_id`, the one link the
daemon can stop, and `links` is what the SDK has open: a second `start_av_link`
would overwrite the id of the first link, which nothing could stop any more.
`StopStream` supposes that the loader found `stop_av_link` (`bridge/daemon.cpp`
109 skips the call otherwise). Three commands are enough for start, stop, start
and for a buffered line; the bound limits only what the controller writes.
Fairness: the main thread runs, each of its waits has a timeout or returns with
the SDK call it is in. The process exits, so this run does not check deadlock.

### NetworkRules and HostSetup

`NetworkRules` has the iptables scripts of `network_setup.py` as sequences of
commands and, in `Apply`, what the kernel does with each (external, from their
use: a command that does not apply fails, and `run()` ignores that).
`HostSetup` is the life of the program that runs them, `network_setup.main` or
`entrypoint.main`: one command is one step, and a signal handler starts in the
middle of one. The interrupted command is in `flight` and may take effect at any
later moment, also in the middle of the cleanup, but not after the program's end:
`subprocess.run` kills its child when an exception passes through it.
Rules, `libs/` and binaries outlive every kind of end, and the next start may
have another configuration. Three starts let a third meet what two others left
behind; two signals let one interrupt the handler of the other. Fairness: the
main thread goes on unless killed.

What the violation shows: see `findings`; `shutdown()` in normal operation waits
for go2rtc inside `main`'s wait for it, both of its own waits time out, and the
second raises before the rules are removed.

### RC5 and RC5Words

`RC5` encrypts a block at one side and decrypts it at the other, a round per
step, over an arithmetic given by constants, so that it holds for the 32- and
64-bit words of the code alike. `RC5Words` defines that arithmetic and the key
schedule for words of any size. Three bits make all blocks enumerable and every
rotation amount occur.

## Proofs

For every value of the constants:

| Theorem | Module | States |
|---|---|---|
| `TypeCorrect` | MtpRelayProofs | `Spec => []TypeOK` |
| `PairingOneToOne` | MtpRelayProofs | `Spec => []PairedOnce` |
| `RelayKeepsPromise` | MtpRelayProofs | `Spec => Implements` |
| `ReturnedClosed` | MtpRelayProofs | `Spec => []ReturnedIsClosed` |
| `CallsStayApart` | MtpRelayProofs | `Spec => []NoCrossTalk` |
| `NothingTwice` | MtpRelayProofs | `Spec => []NoDuplicates` |
| `StreamsInOrder` | MtpRelayProofs | `Spec => []LoopKeepsOrder` |
| `AckedOnce` | RelayProofs | `Spec => []AckAtMostOnce` |
| `OwnersAcked` | RelayProofs | `Spec => []UdpAckToOwner` |
| `AckedFirst` | RelayProofs | `Spec => []UdpAckBeforeResp` |
| `NeverCalledTwice` | RelayProofs | `Spec => []CalledAtMostOnce` |
| `QueueLosesNothing` | RelayProofs | `Spec => QueuedNotLost` |
| `NeverCalledLate` | RelayProofs | `Spec => NotCalledLate` |
| `Invariant` | SignalingProofs | `Spec => []IndInv` |
| `RegistersOneClient` | SignalingProofs | `Spec => []OneClient` |
| `KeysAgree` | SignalingProofs | `Spec => []KeysMatch` |
| `MisledByOldSessions` | SignalingProofs | `Spec => []OnlyOldSessionsMislead` |
| `AnswersAccepted` | SignalingProofs | `Spec => []AnswersFit` |
| `MisledByRepeats` | SignalingProofs | `Spec => []OnlyRepeatsMislead` |
| `AnswersStayApart` | UpstreamProofs | `Spec => []ClientsApart` |
| `DormantIsUnheard` | UpstreamProofs | `Spec => []DormantMeansUnheard` |
| `LateForAReason` | UpstreamProofs | `Spec => []LateOnlyAfterGivingUp` |
| `DaemonTypeCorrect` | BridgeDaemonProofs | `Spec => []TypeOK` |
| `FramesAlwaysHaveOutput` | BridgeDaemonProofs | `Spec => []FramesHaveOutput` |
| `NoLinkForgotten` | BridgeDaemonProofs | `Spec => []NoForgottenLink` |
| `RulesInvariant` | HostSetupProofs | `Spec => []RulesInv` (types, chains, DNS rules) |
| `CompletedSetupReplaces` | HostSetupProofs | `Spec => []SetupReplaces` |
| `NoHalfChain` | HostSetupProofs | `Spec => []LiveChainsComplete` |
| `NetworkExitsClean` | HostSetupProofs | `Spec => []NetworkExitCleans` |
| `EarlyShutdownLeavesNothingLive` | HostSetupProofs | `Spec => []EarlyShutdownDisarms` |
| `LaunchesComplete` | HostSetupProofs | `Spec => []LaunchedComplete` |
| `KeyTypesCorrect` | CryptoProofs | `Spec => []TypeOK` |
| `BlankNeverUsed` | CryptoProofs | `Spec => []NeverBlank` |
| `UndisturbedSessionAgrees` | CryptoProofs | `Spec => []RightKeyUsed` |
| `DecryptionRetraces` | CryptoProofs | `RC5Spec => []Retraces` |
| `DecryptInvertsEncrypt` | CryptoProofs | `RC5Spec => []RoundTrip` |

Assumptions: the ASSUMEs of the modules (positive bounds, disjoint sets of
clients, roles, programs and commands among the ones the code knows; for RC5 that
words are closed under the arithmetic and that subtraction, XOR and the right
rotation undo addition, XOR and the left one, which TLC checks for RC5Words; for
HostSetup that a configuration is what `get_devices` returns, and that the
value for "no chain" is no list of rules). No theorem has a hypothesis of its own.

*PairingOneToOne.* `PairedOnce` alone is not inductive: a step that pops the head
of a queue needs to know that the head is in no other queue and in no pair.
`PairInv` adds `QueueInv` (a queue holds nobody twice, and only waiting handlers
whose role is the queue's) and `PairRoles` (a member of a pair has left the
phases in which it could be queued, and sits on the side of its role).
`TypeInv` adds to `TypeOK` that a handler that waits has a role and one that
relays has a pair. `ListLemmas` states what append, pop and remove do to a
list without duplicates. Each action then either makes no pair (`NoPairMade`)
or one pair of two connections that were in none (`PairMade`).

*RelayKeepsPromise.* `HeldInv` says what handlers hold: no pair before they relay,
then one with their own connection on a side (`HandlerInv`); a stored pair is
held by its maker (`StoredHeld`); what is buffered for a connection was sent by
its own peer (`Authentic`). With it every action is a `Say`, `HangUp`, `Listen`
or `Meet` of MediaPairing or a stutter: `EnterRelayLoop` of a new pair is a
`Meet` because `PairedOnce` leaves both sides without a partner, and a second
handler that enters a stored pair changes no partner. `CallsStayApart` follows
from what MediaPairing says a peer may hear.

*NothingTwice, StreamsInOrder.* The chunks of a peer are numbered. `BufferInv`: what
waits to be read rises and comes after the first frame, read to identify the
connection. `WrittenInv`: everything of a peer that was written comes before what
is still buffered for it. `FirstInv`: as long as a handler is not paired nobody
has written its first frame. Two loops over one pair may overtake each other, so
only the writes of one loop rise; that nothing is written twice holds across them.

*AckedOnce, OwnersAcked, AckedFirst.* Only requests the relay has taken are queued
or answered (`KnownInv`). An acknowledgement, perhaps one of several for its
request, is queued once and has not reached
its own client (`QueueInv`), with one exception: the handler that wrote it is
suspended in its walk, at an index past it, and has not cleared the list. Others
may get it a second time, its owner may not. What a UDP client has received is
its own, once, acknowledgement first (`ReceivedInv`), because its loop does not
wait between the two.

*NeverCalledTwice, QueueLosesNothing, NeverCalledLate.* `CallsInv`: a frame waits
in one entry of the queue, and while it does it has neither reached the doorbell
nor expired. `EntryFate` says what a delivery does to one entry, whatever
happens to the others, for every set of sends that fail; the two action
properties are read off it, and every other step leaves whoever waits alone
(`WaitingFated`).

*The handshake.* The lemmas come in two halves. The first follows frames: what
ECB over a range of words does to each word (`EcbWords`), that a sealed request
carries its id, number and body where the relay looks for them (`RequestSealed`,
`IdBack`), and that an answer the relay builds opens at the SDK to the number it
was built with, with a checksum that verifies (`ClearAnswer`, `CertifyAnswer`,
`ListAnswer`, `MtpAnswer`, `AckAnswer`). Decryption with the right key gives the
words back; with any other key each term of the result is a decrypted one
(`Noise`), which no number, id or key is (`NumberRead`).
The second half is the inductive invariant `IndInv`. `SdkInv`: the SDK follows
its script, so that kind, number, port and key of every request follow from its
session and its place. `KeyInv`: the port of the SDK has a key once CERTIFY was
handled, and from the answer on it is the SDK's, unless it was handled twice;
what the hook captured is the SDK's key. `AnswerInv`: an answer on its way
carries the number of its request, or the one predicted for it, and the answer
to CERTIFY the server key of the relay's key. `NumberInv`: which request
`addr_last_sqnum` stands for after each step, as long as no repeat has moved it.
Here lies the difficulty: after a repeated CERTIFY the relay may be unable to read
INIT_INFO and note 0, from which every prediction would be wrong. But then its
answer to INIT_INFO carries noise, the SDK does not take it and asks nothing
that needs a prediction. So an answer to INIT_INFO that fits, like a request
after it, is evidence that the number was noted, and `NumberInv` says so.
`IdInv`: the relay stores ids that clients chose, which can be told from noise.
`MisreadInv`: what `OnlyOldSessionsMislead` says, which holds because in the first
session every key of the host is one of that session. The theorems cover any number of ports,
sessions and repeats; `KeysMatch`, `AnswersFit`, `OnlyOldSessionsMislead` and
`OnlyRepeatsMislead` are read off the invariant, `OneClient` off the frames.

*AnswersStayApart.* A packet in a socket `Fits` there: a persistent socket holds
packets for requests of its address, the CERTIFY socket only for the request
that blocks the loop, a proxy-mode socket for requests of its term id, which
then has a client. `FitInv` says this of every packet and of everything Mars may
still answer; `ClientInv` that the client of a term id is one of its addresses,
but for the id of frames without a header; `ExtraInv` that an extra response is
an ACK for a CERTIFY of the address it is queued for. The delicate case is the
CERTIFY socket, shared by all clients in turn: it must be empty, and nobody
asked on it, whenever a wait ends (`JobEnds`, `CertifyQuiet`).

*DormantIsUnheard.* The property is inductive with its types (`CountInv`): a sign
of life taken out of its socket always resets the counter (`CertifiedCounts`), in
either mode and from whatever address the doorbell has.

*LateForAReason.* One answer that comes after the relay gave up is read by the
next request of that address, whose own answer then waits for the one after: a
single late answer shifts all later ones, however many follow. `CleanInv`: if nothing went
wrong with any request of an address but the one that waits, its socket holds
answers to that one only, and all others have had theirs. `SentInv` and
`HomeInv` count the packets and keep them to the sockets they were asked on,
`FreshInv` says that a request that still waits in a socket of the relay was
neither asked nor answered. TLC sees the shift over two requests, the theorem
covers any number.

*FramesAlwaysHaveOutput, NoLinkForgotten.* `LinkInv`: before `start_stream`
returns there is no link; without the flag there is none; with it there is at
most the one in `g_channel_id`; after the last stop there is none; the output
closes in the last step.

*RulesInvariant and what follows from it.* What a chain, or the DNS rules, look
like in the middle of a script is a function of how many of their commands are
left, so commands are counted from the end. `TodoInv`: what is left to run is the
end of a script of the program. `ChainInv` and `DnsInv`: the chain and the rules
are as this count says; whatever the commands to come, a chain with a jump is
complete. `FlightInv`: which command can be the interrupted one, and that it does
no harm whenever it takes effect; in the entry program it can be the jump into a
chain, and then the chain has all its rules or none. `ExitInv`: what is true of
the rules when a program has stopped. The lemmas up to `NextOfNothing` say what
the scripts are and what a command does; then comes one lemma per action.
`SetupReplaces`, `LiveChainsComplete`, `NetworkExitCleans` and
`EarlyShutdownDisarms` are read off the invariant.

*LaunchesComplete.* What is in `libs/` or among the binaries depends on the order of
the commands and not on their number, so the invariant is another one. `ToolsInv`,
in the setup of the entry program: what is missing is still to be made, after the
directory is emptied and before go2rtc is started. `LaunchInv` adds what
survives an end: the shims are there when a library was copied, and nothing is
before the first start.

*BlankNeverUsed, UndisturbedSessionAgrees.* `KeyInv`: every table holds a key that
was made, or a placeholder, and only the file is ever blank. `HookInv`, in a
session without faults: once the hook is through, the file holds the present key;
an address that has the present key agrees with its term id; an online session
has no other key for its address. The middle part is why a key kept from an earlier
session does no harm before INIT_INFO replaces it.

*DecryptInvertsEncrypt.* The trail of blocks between the rounds is the invariant:
encryption leaves `trail[k] = Round(k, trail[k - 1])`, decryption has `trail[i]`
before it undoes round `i`.

Induction. The library's induction theorems cannot be instantiated here, but a
set of naturals with an element has a least one (`LeastNumber` in `ListLemmas`),
and taking the least counterexample does the work of an induction over the
length of a list: that is how what `Select` returns is proved, on which
ResponseDispatch and Wakeup rest.

Only model-checked. The liveness properties `WaiterResolved`, `RelayTornDown`,
`WakeupDelivers`, `EveryoneServed`, `ShutdownExits`, `EndOfInputStops` and
`SignalEnds`, since the prover has neither fairness nor ENABLED. The key schedule
and arithmetic of `RC5Words`, which are recursive operators. The two violations are counterexamples. Every
invariant and every action property that a passing run checks is the subject of
a theorem.

## What the code does otherwise than one would expect

Met while modelling; the models have it as the code has it.

- `relay/gutes_relay.py` 1044-1052: a TCP handler writes what it finds in the
  shared list to its own connection, whomever it is for, and the response before
  the ACK, the other way round than the UDP loop.
- `relay/calling.py` 273: a queued CALLING for a doorbell on TCP signaling is
  sent as a datagram to its TCP port and forgotten, and one for a doorbell that
  certified over port 51701 is forgotten unsent.
- `relay/mtp_relay.py` 277, 296: two tasks that read one stream can take each
  other's waiter away, and one of them never wakes up.
- `bridge/bionic_interpose.c` 143-151: when the key file cannot be written the old
  one stays, and INIT_INFO (`relay/gutes_relay.py` 320-326) puts its key over the
  right one the relay derived itself.
- `relay/gutes_relay.py` 882-887: in proxy mode the answers to frames shorter than
  a header all go to whoever sent such a frame last.
- `relay/frame_builder.py` 408, 522: CALLING_ACK names the constant port 51850
  where MTP_RES_RESP names the discovered one; `_extract_calling_dest`
  (`relay/calling.py` 105) reads bytes that also hold the link id.
- `bridge/main.cpp` 172: the second write of the key file can restore an old key.
- `relay/gutes_relay.py` 622-629: a repeated CERTIFY makes a new server key.
- `relay/session_crypto.py` 128: a lookup by IP alone finds the oldest key.
- `relay/frame_builder.py`: CERTIFY_RESP is encrypted from offset 0x18, while
  `parse_frame`, `capture_session_key_from_response` and `_rewrite_list_resp`
  decrypt from 0x1C. The docstring of `build_init_info_resp` speaks of session
  encryption where `opt_encrypt` is 0. `build_keepalive_ack` leaves the checksum
  0, and line 375 says that the SDK validates it. `build_calling_ack` encrypts
  the id before the XOR, `id_encrypt` after it.
- `scripts/entrypoint.py` 126: a later start takes a library for done that was
  copied and not patched. 375-380: the rules stay when go2rtc exits by itself.
  326: the relay's output goes to a pipe that nobody reads.

## Plan

Done: media relay with its abstract specification and refinement, dispatch,
wakeup, session keys, handshake, Mars proxy and keepalive, proxy mode, daemon,
network rules and entrypoint, RC5.

Left, in this order:

1. A composition of Wakeup and Signaling: the certification that delivers a
   CALLING is the CERTIFY of Signaling.
2. ARP redirect and DNS responder children of the network setup; failing
   iptables commands, the `TimeoutExpired` that `run()` raises for a hanging one,
   and the ways past parts of the setup: no iptables (`check_iptables`), no relay
   address. `HostSetup` has setups whose iptables commands all succeed.
3. The token cache of the authentication.

## Not modelled

The byte layouts within words and logging; `_rewrite_list_resp`, a search for
byte patterns in a decrypted frame, and `_tcp_listen`, a byte pipe; parsing
errors of malformed frames; the ELF patching of `setup_libs`; the authentication
(HTTP and JSON of an external service); symbol loading (every SDK function
is taken to be found) and libc stubs; the SDK's
inside; the capture and sniffer tools, which are not part of the running system.
The reasons are in `PROJECT.json`.
