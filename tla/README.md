# A TLA+ model of lightsocks

lightsocks is a proxy. An application speaks SOCKS4, SOCKS5 or HTTP to a *client*
process, which sends what it gets, cut into encrypted frames, to a *server*
process, which opens the connection to the origin. Run in *direct* mode the first
process dials the origin itself and copies raw bytes. Every proxied connection is
served by several goroutines which share sockets, a connection registry, a
WaitGroup for shutdown, a configuration that can be reloaded, and a DNS resolver
with a cache, a single flight and goroutines that outlive their callers. There are
no tests in the repository; this directory holds a model of that concurrency, the
TLC runs that check it on small instances, and TLAPS proofs of what can be proved
for any size.

`PROJECT.json` is the machine-readable side of this file: which definition stands
for which lines, the runs, a mutant for each property, the hazards and findings.

## 1. Inventory

| Part | State | Operations | Modelled in |
|---|---|---|---|
| `cmd` | the command, the signal channel | three commands, `registerSignalHandlers` | `Lifecycle` (partly) |
| `internal/conf` | `conf.App`, replaced by every reload | `Load`, `viperLoadConf`, `OnConfigChange` | `Lifecycle` (the mode), `Mixed` (users and networks) |
| `internal/mixed`, `internal/server` | listener, UDP socket, WaitGroup | `ListenAndServe`, `handle`, `ShutdownWithTimeout` | `Lifecycle`, `Mixed` |
| `internal/socks5`, `socks4`, `http` | the connection, a buffer | handshake, then a request on `tunnel.TCPIn` | `FrontEnd`, `Socks5`, `Socks4`, `HttpProxy`, `Mixed` |
| `internal/auth` | none; reads `conf.App` | `VerifyIP`, `Enable`, `Verify` | `Auth` |
| `internal/udp` | association map (always empty), remote sockets | `Listen`, `handleUdpPacket`, `handleRemoteRead`, `deleteRemoteConn` | `UdpRelay` |
| `internal/tunnel` | the queue, one goroutine a connection | `processTCP`, `handleTCPConn` | `Tunnel` |
| `internal/statistic` | manager: map of trackers, byte counters | `Join`, `Leave`, `Close`, `Snapshot`, `Push...`, `handle` | `Tunnel`, `Lifecycle`; the counters in `Statistic` |
| `internal/api` | none | connection routes, DNS query, rendering | `Lifecycle`, `DnsResolver` |
| `internal/net`, `internal/protocol` | two copiers and two sockets a relay | `Relay.Start` (`direct`, `forward`), `Encode`, `ReadFull` | `Relay`, `Pipe` |
| `internal/cipher` | none | `Encrypt`, `Decrypt` | `Cipher` |
| `internal/cache` | map, list, entries, a mutex | `New`, `Get`, `GetWithExpire`, `Set`, `SetWithExpire`, `Delete` | `LruCache` |
| `internal/dns`, `internal/picker` | cache, flights, tasks, contexts | `LookupIP`, `ExchangeContext`, `batchExchange`, `Go`, `Wait`, client exchange | `LookupIP`, `DnsResolver`, `Picker` |
| `internal/resolver` | `DefaultResolver`, set once | dispatch | `LookupIP` (as a tunnel uses it) |
| `internal/compress`, `constant` | none | a library wrapper, types | not modelled |

How they meet: a listener's `handle` (a goroutine per connection, counted by
`wg.Add`) lets a front end parse the request and puts a `TCPContext` on the
tunnel's queue. `handleTCPConn` resolves and dials the target, reads
`conf.App.Mode` at five separate statements, tells the client through the
callback `PreFn`, registers the connection with the manager and runs the relay; its
deferred calls are `PostFn` (the listener's `wg.Done`), then the closes. The API
takes snapshots of the manager and closes trackers under a running relay. The
signal handler closes the listener, waits for the WaitGroup or a timer, clears the
listener's fields and exits. The watcher of the configuration file replaces
`conf.App` at any time.

What is hard here: shutdown against connections being accepted; error paths that
leave before a deferred call exists; state read several times while it may change;
one goroutine of a relay ending the other with a read deadline while a frame is in
parts; full buffers in both directions; a cache entry read after the unlock; a
renewal goroutine that writes its parent's result and runs on its parent's
context; timeouts against late answers; requests that arrive in pieces at parsers which
take a read for a message; a map that two goroutines of the UDP relay clean up; counters
that are loaded and reset in two steps. The list, line by line and with the
properties that cover each point, is `hazards` in `PROJECT.json`.

What makes the parts correct:

* listener and shutdown: the WaitGroup counts what is in service, never below
  zero; a shutdown that drains leaves no connection in service that was admitted before
  `wg.Wait` returned; every shutdown ends;
* tunnel: sockets are closed on every path, a granted request is served, each
  connection speaks the protocol of its command and gets to its relay or its end;
* registry: lists exactly the connections being relayed on an open socket, whoever closes
  first, but for an API request between the two statements of `TcpTracker.Close`;
* relay: each end gets a prefix of what the other sent; nothing is lost while it
  runs, it does not stall, and it comes down completely once it begins to;
* frames and cipher: both ends stay in step, `Decrypt(Encrypt(x)) = x` for all lengths;
* cache: map and list agree, the size is bounded, the least recently used entry goes
  first, a reader gets a pair that was stored;
* resolver: one exchange a server at a time, failure only when all servers failed,
  A records before AAAA records, every call and goroutine ends, a hit is a success;
* front ends: the request that is queued is the one the client made, whoever is served is
  entitled to it by a configuration that was in force meanwhile, a panic ends the process
  only for the clients named below, each way out closes the connection, and a client that leaves frees its goroutine;
* UDP relay: every socket dialled for a datagram is closed once its destination is silent;
* counters: process and connections agree on every byte, rates count each byte at most once.

## 2. Modules

**`Tunnel`** is `handleTCPConn`. `pc[c]` names the next statement of the goroutine
that serves connection `c`; there is one action per statement that changes state,
an error return being an alternative of its statement (`Fail`) which goes on at the
first deferred call registered by then. Because `conf.App.Mode` is read afresh each
time, `Resolve`, `DialOk`, `Header`, `Branch` and `Swap` read the variable `mode` in
steps of their own. `wire[c]` records how the dialled socket is used: whom it
reaches, with TLS or not, what was written before the relay, which relay, and
whether the ends changed places.

**`Lifecycle`** extends `Tunnel` to a process: accept loop, `handle` of either
listener (`Peek`/`Handshake...` for direct and client, `ReadFull...` for server),
signal, `wg.Wait`, timer, exit, the API's snapshot and close as separate steps, and
the reload. `TcpTracker.Close` is two steps, `Leave` and `CloseWrapped`, whoever calls it:
the relay (`RelayEnd`, `RelayCloseDest`) or an API request (`ApiLeave`, `ApiClose`), and
`closing` has the connections between an API request's two. It starts where `ListenAndServe` is once the listener is open; what comes
before ends the process when it fails. What a parser accepts is a free choice here.

**`Mixed`** is that choice made good, for one client of the listener: `MixedAccept`,
`MixedAdmit` (`VerifyIP`, `wg.Add`), `MixedPeek` and `HandleErr` are the accept loop and
`handle`, and the rest is the front end the first byte selects. **`FrontEnd`** has what the
three share: the client's byte stream (`script`, `sent`), the buffer of the current parser
(bytes `base + 1` to `base + n` of the stream), and `want`, the least and most the current
`ReadAtLeast`, `ReadFull` or loop asks for; a `Read` returns any part of what was sent
(`whole = FALSE`) or all of it. `ReloadConf` replaces users and networks at any time; each
statement that reads them (`VerifyIP`, `Enable`, `Verify`) is a step of its own, and
`inForce` is the history of what they were since the client was accepted. **`Socks5`** has one action per read and the parsing after
it, with the sizes of the code (4096, 32, 258, and the missing length bytes that read as
zero); **`Socks4`** and **`HttpProxy`** parse one read, up to `Enable` and from `Verify`
on. The text of an HTTP request is a
sequence of units (request line, header, credentials, CRLF), the zero bytes behind it one
more. Its target is a sequence of tokens: the marks the code looks for (`:`, `/`, `//`, `[`,
`]`, `@`), numbers, and other characters. `ConnectTarget`, `UrlTarget` and `UrlPath` split
it where `processRequest` does, `Atoi` gives 0 for what is no number and cuts a port to 16
bits, and `Dest` (of SOCKS, too) is the joining to one string and the `SplitHostPort` of it,
which takes off brackets around a name and drops what it cannot split. A slice or index out
of range sets `crashed`, in each of the three parsers. **`Auth`** has the predicates.
**`UdpRelay`** has, for each datagram, the goroutine of `handleUdpPacket` and the reader of
the answers, with the three statements of `deleteRemoteConn` as steps of either; `fatal`
is the end of the process, by the run-time's "concurrent map" abort, which may or may not
strike when a write overlaps another use, or by the header of a datagram that is too short
for it (`ShortPacket`). `Mixed` composes all of this: datagrams flow once the association is granted.

`ImplementsLifecycle` states that `Mixed` implements `Lifecycle`: the stages of the parsers
map to `Lifecycle`'s `handshake`, every way out of them to its outcomes, `conn` to `src`.
So what is shown of `Lifecycle`, where the front ends may accept anything at any time, holds
for these parsers too; the variables of the tunnel, the signal and the API stay at their
initial values under the mapping.

**`Relay`** has one or two relays in a row. Each has two copiers with `read`, `write`,
`poke` (the deadline) and `done`; links are bounded queues of units, a unit being a
plain byte, an encrypted byte or a header. A `Read` returns any non-empty part of
what is there, a `Write` hands over what fits and keeps the rest. TCP, the
application and the origin are external; a close with unread data may reset the
connection, a half-close (`PeerShut`) may come any time. **`Pipe`** is what a
connection promises: in each direction the receiver's bytes are those of the sender,
in order, once. `Relay` implements it (`DeliversInOrder`, by an instance of `Pipe`
over the variables `sent` and `got`).

**`Cipher`** has bytes of eight bits with the shifts of a `uint8`, the operators for a
byte and for a whole array, and a state machine that runs the block loops of
`encrypt` and then of `decrypt` on the same data and key.

**`LruCache`**: whatever runs under the mutex is a step; what `Get` and
`GetWithExpire` read through the entry after the unlock is a step per field, in
either order. Entries live in a small heap so that a reader can hold one that is
overwritten or evicted. `older` and `seen` are auxiliary: the order of use, as pairs of
cached keys of which the first was used longer ago, and what an entry held while it was
being read.

**`Picker`** is a call of `batchExchange`: per server a task that dials and selects,
and the goroutine that talks to the server and may outlive the task.
**`DnsResolver`** extends it with `ExchangeContext`: the cache (an entry is fresh,
stale or absent), `group.Do` (external, from `golang.org/x/sync`), the goroutine that
renews a stale answer, the named result `err` it shares with its parent, and the
contexts of tunnels and of API queries. **`LookupIP`** puts `Resolver.LookupIP` on top: the
A lookup, the AAAA goroutine and their channel; there a call of `Exchange` is what
`DnsResolver` shows of it, something that returns an answer or an error.

**`Statistic`** has the counters. A mover is one direction of one tracker; the three
additions of `TcpTracker.Read` or `Write` are separate steps, and so are the load, the
publication and the reset of `Manager.handle`. `moved`, `added`, `shown` and `missed` are
histories.

`MCLifecycle`, `MCRelay`, `MCCipher`, `MCLruCache` and `MCMixed` hold the values for TLC.
The modules named `...Proofs` hold the proofs. The definitions at the end of `Relay`, from
`FirstCopier` on, are its inductive invariant; at the end of `Mixed` are the well-formed
clients and the inductive invariants. Operators introduced by a
comment "Fault:" are wrong versions of the definition after them; no specification
uses them, they are there to show that the properties notice.

## 3. Runs

| Run | What it shows |
|---|---|
| `lifecycle_safety` | types, WaitGroup, registry, socket release, the grant, the late panic and `DrainMeansIdle`, with reloads and API closes at any time |
| `lifecycle_protocol` | without a reload every connection speaks its command's protocol; shutdown ends; queued connections settle |
| `lifecycle_reload` | with one reload, at any time before a connection's last read of the mode, they do not: finding 1 |
| `cipher` | both loops against the array operators, and the round trip |
| `relay_safety` | one raw relay, and client and server: frames stay aligned, no plain byte in the tunnel and no frame outside, nothing lost, and the refinement to `Pipe` |
| `relay_liveness` | one raw relay winds down although peers do nothing; with peers that read no direction stalls, though both send at once and all buffers are full, a closing sender's data arrives, and both relays come down |
| `lru_cache` | map, list and bound, order and ownership in two configurations |
| `lru_torn` | a pair that was never stored is read: finding 2 |
| `dns` | failure only when all failed, one exchange a server, A before AAAA, calls and goroutines end |
| `dns_stale` | a stale hit fails: finding 3 |
| `mixed` | requests queued as asked, credentials verified as given, service only under a configuration that grants it, for which clients a parser goes out of range and for which it does not, when the map of the UDP relay is shared, service for whoever sends whole messages while the configuration stays, the end of goroutines and of UDP sockets, and the refinement to `Lifecycle`; all with reloads at any time |
| `statistic` | totals agree, rates miss exactly what falls into the window, and settle at zero |

### Bounds

* *Lifecycle*: two connections in any stages, any number of reloads, one shutdown. The
  connections meet only in `wg`, the registry, the snapshot, the mode and the accept
  loop, and each of those treats the others alike, so that a second connection is
  enough for one to disturb another; the safety part is proved for any number anyway.
  Symmetry of the connections is used only for the safety run.
* *Relay*: in `relay_safety` buffers (`Cap`) and reads (`BufSize`) of two units. A frame of
  two bytes has three units: it does not fit a buffer, is cut at each place, and a read can
  get one or two frames. `Setups` names the connections of a run: two units down and one up
  keep both directions busy in the chain, three and two go through the single relay.
  `relay_liveness` has buffers and reads of one unit, one relay whose peers may stop reading,
  and three setups with peers that read: three units each way through a single relay, which
  is what its two sockets and its copier hold; a frame each way through two relays, of two
  units, which does not fit into the link; and two frames in one direction. In the first two
  both copiers of a relay wait in `Write` at the same time. The protocol's limit of a frame
  (`maxByte`) is out of reach of the pooled buffers that fill it.
* *Cipher*: all plaintexts up to three bytes over three values, all keys of one and two
  bytes over eight values that include every shift; proved for every length and key.
* *LruCache*: three keys in a cache of two, a reader, any number of writers (a write is a
  single step under the lock), one value and a clock of two ticks; for the torn read one
  key, two values and two expiries. `Refs` is what list, insertion and reader can hold.
* *DnsResolver*: two calls on one question and two servers, and a cache that may hold an
  answer already. One server can fail while
  another answers; a call can find, join, or just miss the flight of the other; either
  may be the API's. Each caller calls once, so that flights are named after their leader.
  A behaviour has these calls or one `LookupIP`; what connects the two is that `Exchange`
  returns, which is `CallsReturn`.
* *Mixed*: one client at a time, since front ends share nothing but `wg` and the queue. The
  scripts are of well-formed clients: all commands and address types, names at the limits
  of the buffers (251 and 252 bytes for a host, 28 to 31 for credentials), right, wrong and
  empty passwords, names that are the beginning of others, SOCKS4a, CONNECT and plain HTTP
  with headers and a body, a SOCKS4a name and an HTTP text as long as the buffer, targets
  that are plain and targets that are not (an IPv6 literal, a port over 65535, user
  information, a path alone, no host, no port, nothing), clients that wait for answers and clients that send everything
  at once, inside and outside the allowed networks. Scripts longer than `PieceBound` bytes
  come in whole messages only, all others in every possible cut; it is 60. The buffers of SOCKS4 and HTTP hold 4096 bytes in the code; how much
  that is (`Socks4Buf`, `HttpBuf`) is a constant, 20 bytes and 14 units in the runs and
  anything in the proofs. Two configurations, one without users, replace each other at any
  time. A datagram, a fragment and one that is too short, with one answer each: a datagram
  shares no state with another one, and a second answer finds what the first one found.
* *Statistic*: two connections with both directions, one byte each, against any number of
  ticks. Larger sizes behave alike since a counter only ever adds or is set to zero.

### Fairness

* `Lifecycle`: each goroutine of the tunnel that waits for no peer is scheduled, lookups
  and dials end (`DefaultDNSTimeout`, and the `Timeout` of the configuration, which the
  example files set to 15s; left out, it is 0 and only the operating system limits a dial
  and nothing a TLS handshake), the 15s timer of `ShutdownWithTimeout` fires and the
  handler exits. None for accepting, front ends, the
  end of a relay, API or reload: they wait for others.
* `Relay`: a copier whose read or write can return runs on, and `wg.Wait` returns.
  The setups with `readers` also have peers that read what has arrived, an assumption about the peers that `NoStall`, `AllWindDown` and `FlushesOnClose`
  name. Without it a copier may hang in `Write` for ever
  because the code sets read deadlines only; `WindsDown` names that exception. Each of these
  steps takes data or an end further, of which there is only so much: weak fairness of them
  together is enough.
* `DnsResolver`: goroutines run and timers go off; no server has to answer. Every caller
  calls once and every step of `Runs` makes progress, so that fairness of them
  together is enough. `LookupIP`: its two goroutines run.
* `Mixed`: connections are accepted, goroutines run, a read with something to return does,
  and a UDP read ends at its deadline of 100 s at the latest. Each answer renews that deadline
  (`udp.go:143`); it is the bound `MaxAnswers` that makes a destination fall silent, so that
  `UdpSocketsClosed` speaks of such destinations only. Each of these steps gets something done
  that is not undone, so that weak fairness of them together is enough. No reload is assumed. The client
  sends what its protocol lets it send next; it need not close, and no datagram need be sent or answered.
* `Statistic`: goroutines that count go on, and the ticker fires. Nobody has to send.

Deadlock is checked in all runs but those of `Relay` and `Mixed`, where a connection that is
over, or whose peers are silent, really does nothing more. Termination of a process and of all
DNS calls is an explicit stuttering step.

## 4. Proofs

`LifecycleProofs` proves, for every finite set of connections and with reloads allowed
or not, `Spec => []IndInv` and from it the properties of `lifecycle_safety`. The
properties are not inductive by themselves: that sockets are released at the end needs
to know which of them are open at every statement (`SocketInv`); that the WaitGroup counts
correctly needs to know which outcomes are possible at which statement (`OutcomeInv`)
since the leaking ones are told apart by it; that a granted client is served needs
`GrantInv`; and an API close that comes late must only meet relays that have begun
(`StageInv`), or the registry would lose a connection it does not list yet, and so must one
that has left the manager and not closed the socket (`closing`). `WgAccounting` counts a set, so each action has to say whether it adds an element
to `Held`, removes one or leaves it; three lemmas on cardinality do that.
`DrainMeansIdle` is an action property: `wg = 0` makes `Held` empty.

`CipherProofs` proves that the rotations undo each other for each of the eight shifts,
from that `Decrypt(Encrypt(d, k), k) = d` for every byte sequence and non-empty token
(the padding to a multiple of the token and its removal included), and that the block
loops compute those operators (`LoopInv`: before position `i` the output is that of the
operator), hence `RoundTrip` and `LengthPreserved` of the state machine.

`StatisticProofs` proves `RateAccounting` for any set of connections and any sizes. With the
types it is inductive: `ToPublish` says what `handle` holds at each of its statements, and
`missed` grows exactly with what is added while it is between load and reset. `TotalsAgree`
is a sum over the movers, which cannot be taken apart by induction over their set here; it
is proved by counting: a sum is the cardinality of the set of bytes it counts, and a step
that adds to one mover adds as many bytes to that set.

`ProtocolSpoken` is `SpeaksCommandProtocol` for a process whose configuration is not reloaded
(`lifecycle_reload` shows that it fails otherwise). `ProtocolInv` says that the mode is the
command's and ties `wire[c]`, statement by statement, to `pc[c]` and to the kind of request
(`WireInv`).

`DnsProofs` proves, for any servers, questions and callers, that a question has one exchange
a server at a time, that a call fails only when all its servers did (or
for the reasons the property names), and for `LookupIP` that A records win. `ResolverInv` adds to the types,
for each caller, what its own state says of its flight and its result (`CallInv`), and for
each task, what the goroutine that talks to the server may still hand over (`TaskInv`);
`LookupInv` adds the same for the channel of the AAAA goroutine (`HandOver`).

`MixedProofs` proves for any scripts that begin with the byte of their protocol, thus for
malformed requests too, the types, that
whoever is served is entitled to it by a configuration in force since it was accepted,
whatever reloads come between the statements (`AuthInv`: the current configuration is among
those, and a SOCKS5 client past its credentials passed `Verify` of one of them or was greeted
under one without users; the others pass in the step that serves them), that the map of the UDP relay is used by
two goroutines of a datagram only after a failed `Write` (`UdpInv`), and that `Mixed`
implements `Lifecycle`. `PlaceInv` carries the refinement: the stage of the
front end determines whether the connection is open, and nothing is read or counted by the
WaitGroup before the connection is admitted.
Then each action of `Mixed` is shown to be the action of `Lifecycle` it maps to, or a stutter.

`LruProofs` proves for any keys, values, callers and options that map and list agree and are
bounded (`Indexed`), that the list is in order of use (`RecencyOrder`), and that a reader
gets what was stored under its key (`ReadsOwnKey`). They support each other: eviction keeps the map
right because the list has no key twice, and a reader that holds an entry after the unlock is
safe because an entry in use keeps its key (`LruInv`).

`RelayProofs` proves for any setups and sizes of buffers the types, `FramesAligned`, and that
`Relay` implements `Pipe`. The bytes of a direction are numbered as they are sent. With one
relay `OneHop` says that receiver, socket, buffer and socket hold consecutive numbers.
Between two relays the units are frames, and the reader may hold one in part:
`FrameStream` says that its buffer, the queue and the buffer of the writer together are
frames which begin at the places `p`, with `b[i]` bytes of the stream before place `i`; and
that the last one is whole while the writer runs. A frame is added at the end
(`FrameAppended`), cut there when the writer dies with a part of it written (`FrameCut`),
begun (`FrameBegun`) and taken (`FrameTaken`) at the front. Places instead of a recursive
parser make this provable: no step needs an induction over the stream. That the next number
to arrive is the one after the last gives `Deliver` of `Pipe`. `NothingLostWhileCopying` is
about `Payload`, which is recursive: what it collects from a queue, unit by unit, is shown by
the least-number principle (`WFMin` on the natural numbers, `Least` and `Stepwise`), since the
induction theorems of the library take an operator.

`ParserProofs` proves `CrashOnlyWhen` and `TakenAsGiven` for any set of clients of which each
is `WellFormed` and any configurations whose users are `Named`. `WellFormed` says what the
protocols prescribe, byte by byte for SOCKS (RFC 1928 and 1929, SOCKS4a) and unit by unit for
HTTP, for any lengths, and which request and which credentials these bytes stand for; a user
without a name could be matched by a client that sends none. Neither is an assumption on the
constants of `Mixed`: both are hypotheses of the theorems, and the `ASSUME`s of `MCMixed` have
TLC confirm that the clients and users of the run fulfil them. `ParserInv` has two halves. For
a client with one message (`OneInv`) the buffer begins with the message and has all of it when
nothing is cut, so that its strings end at the zero bytes, or where the read did
(`Socks4User`, `Socks4HostIs`), a target that is plain comes out of the splitting and joining
as the host, the port and the path that were meant (`ConnectIs`, `UrlIs`), and the text that goes to the origin is the client's without
the line of its credentials (`RewrittenIs`, again by the least-number principle). For a SOCKS5
client that waits for the answers (`WaitsInv`), each parser's buffer begins where its message
does. One case is different: a greeting that came in pieces makes the parser take three bytes,
and what is left of the greeting is read as credentials or as a request. That this is refused
and neither crashes nor is verified, because no greeting has a byte that could be the version
of a request (`Aside`), is what needs the invariant. A SOCKS5 client that does not wait is left
out of `Taken`, since the theorem would be false: the beginning of its request can be read with
its credentials, and an address inside a request can look like another request. `NoCrash` has
it as an exception, which the property names, with the other ones: messages that do not fit
(`Overlong`) and an HTTP request without a port or a target (`Targetless`), none of which is
excluded by `WellFormed`. Reloads are part of both theorems.

Assumptions, named `ASSUME`s that TLC evaluates in the runs: connections, servers and trackers
are finite sets; switches are Booleans; tokens are not empty; buffers
have a positive size; byte counts, times, expiries and the limits of a cache are natural
numbers; scripts and setups have the fields the model reads; and values that stand for
"none" are not members of the sets they are added to.

Only model-checked:

* all liveness (`ShutdownEnds`, `TunnelSettles`, `WindsDown`, `NoStall`, `AllWindDown`,
  `FlushesOnClose`, `LookupsReturn`, `ExchangesEnd`, `ServedWhenWhole`, `EndsWhenGone`,
  `UdpSocketsClosed`, `RateSettles`): the prover has no usable rule for fairness;
* `TakenAsGiven` for the SOCKS5 clients of the run that do not wait for the answers: their
  requests do not look like another one from within.

## 5. Findings

1. **A reload turns a client or server into a direct proxy** (`conf/config.go:76`).
   `viperLoadConf` builds a new `Config` with `Mode: DirectMode`; the command's mode is set
   only at start. Connections accepted after the reload, and those between two reads of the
   mode, no longer follow the command's protocol; TLC's shortest trace has one of the former.
2. **A torn read in the cache** (`cache/lrucache.go:103`). `GetWithExpire` reads `value` and
   `expires` after the unlock, `SetWithExpire` overwrites them, and the pair returned was
   never stored, in a type documented as thread-safe.
3. **A stale hit can fail** (`dns/resolver.go:125`). The renewal goroutine assigns to the
   named result of its parent.

Worth knowing, and stated by a property rather than a finding because no document promises
otherwise: the error paths of `LeakingOutcomes` never call `wg.Done`, so that a shutdown
after one of them always takes the whole timeout; a SOCKS5 connection handled after
`ShutdownWithTimeout` returned dereferences a nil UDP socket, in the short time before
`os.Exit`; a half-close cuts the other direction off. In the resolver, a renewal runs on the
context of the API query that started it and is broken off when the query returns
(`FailsOnlyWhenAllFailed` names the case). In the front ends (the exceptions that the properties of
`Mixed` name):

* a SOCKS5 greeting that comes in pieces makes the handshake take a byte too many or wait for
  one (`socks5/tcp.go:84`); a request of nine bytes, that is a host name of two or fewer, waits for
  a tenth (`:178`);
* a password whose length byte arrives after the name is taken for empty (`:149`), and an empty
  password is not compared (`auth/user.go:27`); credentials larger than 32 bytes loop on empty
  reads, and a name of 30 bytes is an index out of range; so is a host name of 252 bytes or more;
* a CONNECT without a port (`http/tcp.go:106`), another request with an empty target (`:110`), and a
  SOCKS4a user name that fills the buffer (`socks4/tcp.go:117`) are out of range, too, and nothing
  recovers; nor from a datagram that is shorter than its header (`udp.go:88`);
* an HTTP target with an IPv6 literal becomes no host and port 0, a port is taken modulo 65536, user
  information is taken for the host, and a path alone for a host and a path (`http/tcp.go:104-128`);
* a SOCKS5 client that was greeted when there were no users is served after a reload that
  configures some (`socks5/tcp.go:92`);
* a SOCKS4 user or host name, and an HTTP request, end where the first read ended; the text of
  a plain HTTP request is passed on with the zero bytes of its buffer;
* every datagram of an association has a socket of its own for at least 100 s, and the end of the
  association does not close it.

A client process swaps the ends of its relay, so that what it counts as upload is what a
direct process counts as download.

## 6. Not modelled

* Start-up until the listener is open, flags, logging, configuration parsing, TLS files.
* Requests that no well-formed client sends, but for the HTTP targets of section 3: the runs have
  no address types that do not exist and no SOCKS messages that contradict their lengths. Of a
  datagram's header only whether it is too short counts. Cuts of an HTTP request inside a
  line count as a cut before the unit they divide. `CrashOnlyWhen` therefore speaks of the
  three TCP parsers and of such clients, not of every way in which the process could end.
* Routes of the API that only render state (`hello`, `traffic`, the lists), its authentication
  and the websockets. `GET /traffic` shows `blip` of `Statistic`.
* TCP, TLS, PROXY protocol, snappy, miekg/dns, the singleflight library, viper: external. TCP
  and `group.Do` are modelled from their use, compression is taken to be lossless, and TLS
  to be a TCP connection.
* `LruCache.CloneTo`, `protocol.UnPack`, `ResetStatistic` and the single-version lookups of the
  resolver, which have no callers; the eviction callback, which is never set.
* The remaining time to live in an answer from the cache: an entry is fresh or stale. The
  comparison with `now` and `time.Until` are two readings of the clock, but what is left
  between them is a fraction of a second, which the conversion makes 0.
* Lookups with the operating system's resolver: `DefaultResolver` is always set.

## 7. Plan

Done in this order: tunnel and process, the cipher, the relay, the cache, the resolver; then
the front ends with authentication and UDP, their refinement of `Lifecycle`, the counters,
and `LookupIP`; then the proofs of section 4. What is left of the code is listed above with
the reason. Every safety property that a run checks is
proved, `TakenAsGiven` but for the SOCKS5 clients that do not wait; liveness is not.
