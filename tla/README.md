# TransProxy in TLA+

TransProxy runs on a small router.  It answers DNS queries of the local network
with *virtual* addresses for names that a rule list says must be proxied, takes
the packets sent to those addresses from a TUN device, and forwards each TCP
connection to an upstream HTTP or SOCKS5 proxy - without the client's knowledge
and without ending the connection itself: it rewrites addresses and sequence
numbers of the packets that pass.  A management page is served over a small TCP
stack of its own.

Paths below are relative to `src/Dev/Main/src/`.

## Inventory

| Component | State it keeps | Operations | Talks to |
|---|---|---|---|
| Process and daemon (`TransProxy.cpp`) | settings read before the daemon forks | fork loop, `run()`, reboot after 3 s, abort on an uncaught exception | everything |
| Poll loop, timers (`Base/Looper.cpp`, `Base/Timer.h`) | slots of descriptors, next free index, armed timerfds | attach, detach, `loopOnce` | calls every listener |
| TUN, MAC, IPv4, UDP, ping (`Net/Tun.cpp`, `TransProxy/{TunMac,IPv4,Ping}.h`, `UDP.cpp`) | a packet buffer | read one packet per pass, check, dispatch | TransTCP, TCP, DNS |
| Transparent connection (`TransProxy/TransTCP.cpp`, `_Connection`) | state, timer, two sequence numbers, windows, two totals, FIN flags, counters, authenticator | `dispatchPacket`, `onTimeout` | tables, authenticator, TUN |
| Connection tables (`TransTCP`) | map by client address, map by agent address, next agent address, totals | create on SYN, dispatch, delete; page, `dns` rule | DomainResolver |
| Authenticators (`ProxyAuthHTTP.h`, `ProxyAuthSock5.h`) | what of the proxy's answer has been read | `sendAuthRequest`, `onAuthResponse` | connection |
| Domain resolver (`DomainResolver.cpp`) | two maps, the next address, the file `dns.cache` | `dns`, `_add`, constructor | rules, DNS server, TransTCP |
| Rules (`DomainRules.cpp`, `CustomList.h`) | a trie, two lists | `accept`, `deny` | resolver |
| DNS server and agent (`DNS.cpp`, `DnsAgent.h`) | pending queries, an array of ids | `onReceived`, forward upstream, answer | resolver, UDP |
| Management server (`TcpConnection.cpp`, `TCP.cpp`, `HttpServer.cpp`, `RingBuffer.cpp`) | TCP state, receive ring, request under construction | packets, timeouts, nested loop while sending | HTTP services |
| Settings (`Config.cpp`, `Base/IniFile.h`) | settings in memory; four files, each with a temporary and a backup | save, restore, page | daemon, every reader of the settings |
| Rules update (`Config.h`, `HttpClient.cpp`, `SocketConnection.cpp`, `DnsClientSystem.cpp`) | the one request under way, parser state, a lookup thread | start, receive, decode, replace the file | loop, settings |
| Containers (`Map.cpp`, `List.cpp`, `RingBuffer.cpp`) | AVL tree, list, ring | | |

Everything but the lookup of a host name runs in one thread: a loop of `poll`
and callbacks.  What is hard about this code is therefore not data races but

* the **order** of callbacks: packets of two sides, repeats and losses of either,
  timers that ran out together with a packet, and readiness the loop saw before
  a callback changed what it means;
* **state carried from one callback to the next**: an authenticator that one
  callback deletes and others use; a connection that a SYN revives; totals that
  grow until the splice starts and must not change afterwards;
* **the process dying anywhere** (every uncaught exception aborts) and being
  started again by the daemon's parent over the files it left;
* **widths and limits**: 32-bit sequence numbers that wrap, 16-bit query ids,
  1000 loop slots, a ring of 1400 bytes, addresses from a counter.

`PROJECT.json` lists each such hazard at its line, with the properties that
cover it or the reason why none does.

What makes each part correct:

* a transparent connection: both streams reach the other side unaltered, no
  acknowledgement promises what has not arrived, nothing of the client passes
  before the proxy has granted the tunnel, every connection ends;
* the resolver: names and addresses stay one to one, and what a client was told
  stays true over a crash anywhere;
* the loop: a listener is called for what happened, and never after its end;
* the settings: what was saved is what the next start uses;
* the rules update: it ends, and leaves either the old rules or the new;
* the management server: each request gets one answer, each connection ends;
* ring, map, trie: they are the queue, the set and the name matcher their users
  take them for.

## Modules

| Module | Models |
|---|---|
| `ProxyAuth` | the two authenticators: what each call of `onAuthResponse` may decide |
| `TransConnection` | one `TransTCP::_Connection`, with the poll loop around it |
| `Lifecycle` | abstract: the five phases the management page shows |
| `TransConnection_proofs` | theorems about `TransConnection` |
| `Tunnel` | `TransConnection` and what it sends, with a TCP endpoint at either side |
| `DomainResolver` | the resolver, `dns.cache`, death and restart of the process |
| `Directory` | abstract: bindings that never change while the network keeps its numbers |
| `DomainResolver_proofs` | theorems about `DomainResolver` |
| `ConfigStore` | settings, lists and rules: four files with temporaries and backups, the daemon, its child |
| `Store` | abstract: texts replaced whole, in order, and never lost |
| `ConfigStore_proofs` | theorems about `ConfigStore` |
| `TransTable` | the protocols every packet passes, the two tables of `TransTCP`, agent addresses |
| `DnsAgent` | the DNS server, its log, and the queries it sends on under ids of its own |
| `DomainRules` | the tries of the rules file and the two lists |
| `RulesUpdate` | the rules' download: listener, HTTP client, SSL, socket, lookup, timers and the loop's pass |
| `ServerTcp` | the TCP stack of the management server, one connection |
| `HttpServer` | the HTTP server on `ServerTcp`, its nested passes of the loop, a browser |
| `RingBuffer` | the ring, with the queue it stands for |
| `AvlMap` | the balanced tree behind every map |
| `Tunnel_proofs` | theorems about the tunnel, on those about `TransConnection` |
| `HttpServer_proofs` | theorems about the management server, on its TCP, and about the ring |
| `TransTable_proofs`, `Base_proofs` | theorems about the tables; about the DNS agent, the rules and the map |
| `RulesUpdate_proofs` | theorems about the rules' download and about the file it leaves |
| `MC*` | values for TLC; `MCBase` puts the four data modules into one run |

### TransConnection

One variable per field of `_Connection`, under the field's name without its
underscore, `state = "NONE"` standing for no object.  Each handler of
`dispatchPacket` and each case of `onTimeout` is an action (`TransferSYN1`,
`AuthDispatchPacket`, ..., `TimeoutClosing`), which includes the calls it makes
(`_close`, `_closed`, `_try`, `setTimeout`, `delete this`).  A packet is its
flags, numbers, length and window; *any* packet of the bounded sets may come
from either side in any state, so the proofs and the runs on this module do not
depend on well-behaved peers.

The loop is modelled as the connection meets it.  `Poll` takes the snapshot of
what is readable; at most one packet of the TUN device is served in a pass, and
before the timers, since the device is attached first and `loopOnce` goes by
index; `ServeTimer` then serves the timer if the *snapshot* says so, whatever
the packet has done to it in between.  `Expire` is the kernel.  A timer is what
it is set to (at once, 3 s, 15 min or off) and whether that has run out; time
itself is not counted.

`ProxyAuth` keeps of an authenticator its stage and the number of bytes it holds.
The verdict on an answer's bytes is nondeterministic within what the code can
decide at that length.

### Tunnel

Adds to every step of `TransConnection` the packets it sends: `Forwarded` for
the handshake with the window closed and for the splice, `AuthRequest`,
`TimeoutToProxy` and `TimeoutToClient`.  The endpoints are external: an endpoint
is its progress (bytes received in order, its own bytes acknowledged, FIN, last
window), and the packets in the network are *all* that an endpoint in that
state may have sent so far - which covers loss, repetition and reordering
towards TransProxy without a set of messages in the state; towards an endpoint a
packet is received or lost.  The upstream proxy answers honestly (`Honest`): it
grants the tunnel with the last byte of its answer.

`Coalesce = FALSE` in the run: the proxy does not append bytes of the server
to the segment that ends its answer.  `_authDispatchPacket` counts the whole
segment as its answer, so such bytes would not reach the client; this is listed
as a hazard, and the constant is there to examine it.

### DomainResolver

`pc` is where the process stands in `_add`, whose file operations are one action
each; `Crash` may happen between any two.  The file is its size header and its
records.  C's buffered output is modelled by what reaches the file and when: the
header of a new file stays in the buffer until `fflush` writes it together with
the first record.  `Start` is the constructor, with its check that the record at
each place carries the address counting gives it; the network's first address may
be another than at the last start, after which nothing that was answered before
counts.  `answered` is a history variable.  The rules are sets of pairs of
client and name.

### ConfigStore

A text is the number of the request it came from, `Partial` while its file is
open for writing.  `file` and `step` say where the one handler at work is in
replacing a file; every `fopen`, `fclose`, `rename` and `remove` is a step.
`SaveRequest` is the part of `config-save` before the first file; the settings,
the proxy list and the direct list follow one another.  `DownloadEnds` is
`onResponseCompleted`, with which `_updateRulesFile` starts; the bytes of the
download and its failures are an environment.  `OpenIni` and `Restore` are what
static initialisation does in the daemon's parent; `ChildStart` is the fork and
`run()`, with the parent's settings in memory.  `ChildDies` and `PowerOff` may
come between any two steps (stop.sh kills parent and child wherever they are).

The refinement maps a file to what it will hold once restored: the file itself,
or the backup if there is no file.  `transproxy.conf` has no part in it:
`IniFile`'s constructor removes a backup that it should restore (`OpenIni`).

### TransTable

What is sent for a packet is computed by one operator per protocol, applied in
the order of `IPv4::addProtocol` to the packet *as the one before has left it* -
which is how the code does it, since each protocol rewrites the packet in its
buffer and none tells the next that it has handled it.  A checksum is what it was
summed over, so that a packet whose addresses change places keeps a fitting one
and a packet with a new address does not.  `Open` and `Delete` are the constructor
and the destructor of a connection, which enter it into both tables and take it
out.  What a connection makes of a packet is left open (`how`, one of `Handlings`),
since `TransConnection` says so: it drops it, passes it on, or, for a packet of the
proxy, answers it at once with a packet of its own to the proxy, as the SOCKS5
authenticator sends its second request from within `onAuthResponse`
(`ProxyAuthSock5.h:45-51`, `AnswerProxy`).  In that case the packet that arrived goes
on to the other protocols as it came.

Met while modelling and left as they are: a reset for an unknown packet keeps the
checksum the packet came with; agent IPs run on past the range of the settings; a
packet to an agent address is taken for the proxy's whoever sent it.

### RulesUpdate

One record per `HttpClient::_Request`, since a request is deleted on a timer and
the next may be started before.  Each branch of `_doHttp` is an action operator
(`DoPreparing` ... `DoClosed`); `ServeTimer`, `ServeLookup`, `ServeRead`,
`ServeWrite` and `ServeClosed` are the callbacks that lead there, directly or
through the SSL layer (`OnTcp`).  `Poll` takes the readiness of every slot, the
callbacks of a pass use it up in any order, and deleting an object takes back the
readiness of its slots only (`Served`, from `detach`).  The listener's pointer is
followed without a test (`Forget`); an exception ends the process (`Die`) and its
successor starts over.  The server answers with one of four replies, cut into
tokens that arrive in any grouping, and refuses, stalls, ends or resets as
`Faults` and `ResetAllowed` permit.

`UpdateEnds` excepts three ways in which an update stays for ever, each named by an
operator: `Wedged`, half of a chunk's length line (`HttpClient.cpp:355-366` neither
takes it nor waits); `Spins`, an end of the connection where content was waited for
(the loop tries POLLIN first and `recv` of nothing is no error); and `[]Silent`, a
server that from some moment on neither answers the connect nor sends nor ends, since
the only timeout a request ever sets is 0.

An https connection that is refused is outside the module, and `RulesAssumption` has
no fault for it, nor for the lookup of an https name, which leads to the same.  The
listener is told of it (`SSLConnection.cpp:110-113`) and the update ends, but
`SSLConnection::_close` (140-147) closes the socket only after `SSL_new`: the socket
stays in the loop, is hung up for ever, and every pass calls a listener that has been
freed.  So what the properties and theorems of `RulesUpdate` say, they say of a
process in which this has not happened.

### ServerTcp and HttpServer

`ServerTcp` is functional: every member function is an operator from the
connection before it to the one after it, with the packets it sends in `out`.
`HttpServer` makes actions of them, since what `onTimeout` does includes the
listener's callback, and that callback may run the loop: `WriteOn` writes what the
ring takes and, while something is left, leaves the callback where it is
(`http.state = "RESPONSE"`); `SendOn` is the nested `loopOnce` coming back to
`_send`.  Between the two any packet and any timer of the same connection is
served.  `Returns` is the rest of `onTimeout` after the callback.

The browser keeps to the window (one byte probes a closed one), asks for a page
when it has the one before, and may end its stream at any moment (`Closes`), in the
middle of a request or of a response too; after its own FIN it only acknowledges
(`LastAck`).  Its FIN carries no data: the server would ignore it
(`TcpConnection.cpp:109-113`).

A FIN in mid-response is taken like any other: the connection goes to LAST_ACK,
`_send` turns on without room in a ring that takes nothing any more, and when the
server's own FIN is acknowledged, or not after the last try, `onTimeout` deletes
connection and listener (237-240) under the `_send` that is running
(`HttpServer.cpp:130-140`).  The model follows this as far as the code is defined: it
is `ServeTimer1Closed` with `http.state = "RESPONSE"`, which leads to `CRASHED`, and the
run reaches it, also with responses that do not end by closing.
`ResponseUndisturbed` therefore speaks of the time until the browser's FIN, and says
that the process dies in no third way.  There is no run that expects a violation
here, since no comment, assertion or test of the repository says that a browser may
not leave.

Met while modelling: a response without a length may end the process
(`Returns`, state `CRASHED`: `close()` has set `_listener` to NULL when `onTimeout`
tells it of room in the ring); what the ring holds at such an end is never
repeated; an acknowledgement without data is sent once (`AckLost`); CLOSING is the
one state without a timer.

### The data modules

`RingBuffer` has the two positions, the memory and a history of what was written
and not read.  `AvlMap` has the tree as functions for kids, parents and heights, and
every rotation of `__adjust`; the walk from `min` by `bigger` is compared with the
members and the order of the keys.  A function of the code that calls itself on a
subtree is a recursive function on the items.  `DomainRules` builds the tries line by line and compares each
decision with what the loaded lines mean (`RuleMeans`, `Means`); a line is its
labels and marks, the parts of its path included, which the code measures and does
not cut off: with a path a line means nothing, or, when a part behind the slash is
`*`, all names that end in what follows it.  `DnsAgent` sends on what is not the proxy's, under `_id++`; an
upstream answer comes once, late or never.

## Runs

| Run | Module | Distinct states | Question |
|---|---|---|---|
| `conn_http` | `MCTransConnection` | 215,252 | does a connection through an HTTP proxy keep its invariants, and its phases their order, under any packets? |
| `conn_sock5` | `MCTransConnection` | 22,944 | the same for the two-step authenticator; does the connection implement `Lifecycle` with its liveness; does it always end? |
| `conn_timer` | `MCTransConnection` | (violation) | is `onTimeout` only called for a timer that ran out? |
| `tunnel` | `MCTunnel` | 122,440 | do both streams arrive, under loss, repetition and reordering, through an HTTP and a SOCKS5 proxy? |
| `resolver` | `MCDomainResolver` | 2,124 | does what a client was told survive death and restart? |
| `config` | `MCConfigStore` | 1,224,686 | are lists and rules ever lost, half written or put back, wherever a process was killed? |
| `config_reboot` | `MCConfigStore` | (violation) | are saved settings in force after the reboot that the page offers? |
| `rules` | `MCRulesUpdate` | 71,992 | do downloads of the rules leave a whole file, and end unless they are stuck in one of three named ways? |
| `server` | `MCHttpServer` | 39,225 | does the page arrive over the own TCP, although it is sent from within a callback? |
| `table` | `MCTransTable` | 11,484 | does every packet have one handler, and every address one connection? |
| `base` | `MCBase` | 68,501 | are ring, map, tries and DNS agent what their users take them for? |
| `dns_ids` | `MCDnsAgent` | (violation) | does every id of the DNS agent have an item? |

`config_reboot` is expected to fail and is a finding: the settings are read once,
in the daemon's parent, and the rebooted child inherits them.

`conn_timer` is expected to fail and is a finding: the first packet after an
expiry sets the timer again, the loop calls `onTimeout` all the same, and a
handshake or a connection that just made progress is closed.

`dns_ids` is expected to fail and is a finding: ids are given out without end, and
already the last one of the range named beside the array lies behind it.

The deadlock check is off where the system rests: in `tunnel`, `rules` and
`server`, which follow a bounded number of connections and requests to their end,
and in `table`, `base` and `dns_ids`, whose bounds on addresses and queries may be
used up.

**Bounds.**  In `MCTransConnection` sequence numbers have two bits (one in the
fair run) and connections start at the last number, so every sum wraps; the
handlers compare numbers only for equality, except `Advance`, which needs two
halves.  Lengths 0, 1 and 2 against an authenticator's buffer of 4 give an empty
answer, one in parts, one that fills it and one that overruns it.  In `MCTunnel`
a request has two bytes (SOCKS5: a greeting of one and a request of one), the answer
three, each stream two and a FIN, in five-bit spaces that both wrap within the data:
both streams differ in length from the answer, and a request can arrive in part.  Bytes carry their origin and place, so a byte that is
lost, doubled or put at another offset (by the request, the answer or a FIN) shows
in what an endpoint has received; the totals differ from each other at some moment
of every run, which is what a wrong counter needs to be seen.
`MCDomainResolver` has three names (one given out, one being written, one to
come), a denied client and two networks whose ranges overlap, so that records of
the one are in the range of the other.  `MCConfigStore` has three requests of each
kind: an old text, one in the backup and one half way.  `MCRulesUpdate` has two
updates, so that the second may begin while the first one's object waits to be
deleted.  `MCHttpServer` has a ring of three bytes and packets of two, a second
request and a first response longer than the ring: both go through it in pieces
and around a closed window.  `MCTransTable` has two ports for each of three agent
IPs, so that the counter carries twice, and targets that are a name's address, a
server's and a port next to it.  `MCBase` has a ring of three bytes with writes of
up to four; eight items of which pairs share a key, enough for both double
rotations and for taking out an item with two kids; nine rules, two of them with a
path, and three lines of the lists, over names of up to three labels; two clients
that use the same ids.

**Fairness.**  `FairSpec` of `TransConnection` assumes that the loop runs
(`Looper::loop` never returns; what the poll saw is served) and that an armed
timer runs out *in a state that no packet re-arms*: authorizing, waiting after
both FINs, closing, closed.  It does not assume that clients stop repeating
their handshake or that an established connection falls silent, and the
liveness properties claim nothing there: `EventuallyOver` says that a connection
that has shaken hands carries data or ends.

In `RulesUpdate` the loop polls and serves what it polled, and a lookup returns.
Nothing is assumed of the server: it may stay silent from any moment on.  In `HttpServer` a timer that is set runs out and is served,
and a nested pass comes back; the network may lose packets but not for ever: the
browser's latest segment and what the second timer repeats arrive again and again
(strong fairness, since both come and go with the state).

## Proofs

`TransConnection_proofs` proves, for every width of sequence numbers, any packets,
either authenticator and any buffer size, that the specification keeps

    IInv == TypeOK /\ TimerArmed /\ AuthHeld /\ ClosingTries

`TypeOK` needs the others: `_retryCount` stays within 4 only because CLOSING is
left with it at most 3 (`ClosingTries`), and `AuthDispatchPacket` is typed only
where the authenticator exists (`AuthHeld`).  There is one step per action, each
with one step per part of the invariant that the action can disturb; lemmas give
the range of modular arithmetic and what `OnAuthResponse` returns.  From the
invariant follow `TypeCorrect`, `NeverLeaked` (a timer is always armed while the
object exists), `AuthNeverNull` and `LifecycleImplemented`:
every step of the connection is a step of `Lifecycle` or a stutter.

`Tunnel_proofs` proves the five properties of the tunnel for any width of sequence
numbers, initial numbers, streams, requests and answers, both authenticators, and
whatever is lost, repeated, late or cut.  Every number is read as an offset from the
start of its stream (`PlusPlus`, `MinusPlus`, `Differences`): connection data is short
of half the sequence space (`TunnelAssumption`), so sums and differences modulo
`SeqWrap` are those of offsets, and old acknowledgements are told from new.  A
segment `Fits` when it carries bytes where they belong in what its receiver is to
hear, or lies before that, and acknowledges no more than was received end to end; an
endpoint that takes fitting segments only keeps the beginning of its stream
(`Taken`).  What is forwarded, answered and repeated fits (`ClientForwarded`,
`ProxyForwarded`, `RequestFits`, `TimeoutSends`) because of the invariant

    TunnelInv == IInv /\ Lifetime /\ Numbers /\ Asked /\ Heard
                 /\ EndToEndAcks /\ WindowGate /\ CountsHonest

with `IInv` of `TransConnection_proofs`.  `Asked` fixes the two totals: they are what
has been asked and answered so far while authorizing, and all of both from then on,
which is what makes adding them and subtracting them cancel.  `WindowGate` is needed
for the third packet of the handshake, which may carry no data where it is forwarded
as it is.  A connection whose SYN was never answered closes with a FIN whose
acknowledgement means nothing (`proxySeq` is still zero): that does no harm only as
the proxy has sent nothing yet and drops it (`Numbers`, `Unanswered`).  The theorems
assume `~Coalesce`; with it `ClientHearsServer` is false, as said above.

`DomainResolver_proofs` proves, for any names, rules, networks and number of
addresses, the invariant of type, `MapsAgree`, `AnswersKept`, `Recoverable` and
three parts that make it inductive: `Stored` (what each place in `_add` has
already written, so that a crash there loses nothing that was answered),
`FileSound` (the records in the header's range carry consecutive addresses and
distinct names, so that loading gives inverse maps) and `Idle` (a process that is
down holds nothing).  `Implementation` is the refinement: the resolver implements
`Directory`.

`ConfigStore_proofs` proves, for any number of requests, the invariant

    IInv == TypeOK /\ Whole /\ Bounded /\ Written /\ Placed /\ Stations

where `Written` says which files of a batch hold the new text and which do not,
`Placed` where that text is until it is renamed into place, and `Stations` which
steps a file has.  Without them neither renaming (what is renamed is whole) nor the
answer (every file of the batch holds the request's text) can be justified.
`NeverHalf`, `NothingLost` and the refinement `Implementation` follow; only `Swap`,
`Answer` and the two requests are visible to `Store`, every other step, death and
restart included, is a stutter.

`HttpServer_proofs` proves four properties of the management server for requests and
responses of every number and length, rings, packets and windows of every size, and
whatever of the traffic is lost, repeated or late.  The invariant says where the
bytes are:

    IInv == conn.out = <<>> /\ kind \in LastKinds /\ Inv(conn, http, client) /\ Dies(conn)

In an established connection the request at hand and the ring behind it are the
piece of the browser's stream from `Before` on (`Incoming`), the other ring is what was
written and is not acknowledged (`Outgoing`), and the browser has heard no more than
was written and acknowledged no more than was received (`Follows`).  In the middle of
a response no data arrives, since the browser sends a request only after the answer
to the one before (`Responding`); between responses at most one request does
(`Requesting`).  Once the browser's FIN is taken it is the last number of its stream
(`Ended`), and a response may be half sent (`Ending`).  These parts hold each other up: that no data comes while `_send`
runs the loop follows from what the browser has heard, and that from what the ring
was given; but only because no data comes is the callback not entered again.  Every
operator of `ServerTcp` has a lemma that says which of this it keeps, for any
connection (`SendRingHolds`, `TakeAckHolds`, `TakeDataHolds`, `OnTimeoutHolds`, ...): a
segment that it sends is `Truthful` about what was written and received, and a
browser that takes truthful segments only stays behind the server (`ReachesIs`).
`BothStreams`, `CallbackAlone`, `NeverUntimed` and `ServerTyped` follow, from
`ServerTcpAssumption` (the sizes are positive) and `HttpServerAssumption` (a request is
as long as its header at least, a response is not empty, some window is open).  The
browser is the model's: of one that asks for a page before it has the last the
theorems say nothing.  It may send its FIN at any moment; `Dies` says that the process
ends only after such a FIN or with a response that ends by closing.

The same module proves for every size that the ring is a queue of at most that
many bytes.  The code's positions run modulo twice the size, so its place in the
buffer and its turn come from `%` and `/`, which the provers do not handle for an
unknown size: `PageOffset` and `Moved` bring every position into linear form first
(`At`, `Wrap`).  The invariant is `RingTyped /\ RingHolds`, and `RingHolds` says that the bytes
between the two positions are the queue, one by one.  `Peeked` (what one or two
copies out of the buffer give is a part of the queue) and `StoredSound` (what one or
two copies into it leave) each split on whether the bytes pass the buffer's end;
`RingIsQueue` follows.

`TransTable_proofs` proves the three properties of the tables of `TransTCP` from
one invariant, `CounterOK /\ Ahead /\ Given /\ KeysUnique /\ InRange /\ Named`: the
counter of agent addresses is ahead, in the order of IP and then port, of
everything it ever gave out (`AllocAhead`, the carry into the next IP included), and
what connections have was given out.  So what it gives next is new
(`AddressesFresh`), and neither table has two connections for a key
(`TablesAgree`).  `HandledOnce` follows a packet through all protocols: what
`TransTCP` passes on is for the proxy or for a client (`SentToward`), and as neither
is a server, a virtual address or an agent (`ApartAssumption`), the protocols behind
it leave the packet alone; so they do with a packet to an agent that a connection has
answered and left as it was; what they handle, `TransTCP` has left alone.  `LastAgentIP`
may be any IP that keeps the agents apart from servers and virtual addresses, as the
ranges at `TransProxy/Config.cpp:14-28` do; of a counter that leaves that range the
theorems say nothing.

`RulesUpdate_proofs` proves, for any number of updates, any of the replies, any
of the module's faults and any order in which a pass serves what it polled, the invariant

    IInv == ListenerOK /\ req \in [...] /\ rev \in [...]
            /\ \A i : Holds(req[i]) /\ Waits(req[i]) /\ Fresh(i)  /\ HandleAlive

`Holds` says which objects (socket, SSL layer, lookup) a request has in each state,
`Waits` what it waits for there, and `Fresh` that what the poll reported is, when a
callback of the pass comes to it, still something the request waits for: an object
that was deleted took its report back.  Without `Fresh` a callback might be served in
a state that never asked for it.  `PointerHonest` and `WokenOnce` follow, and type
correctness.  `FileWhole` builds on it: `HandleAlive` makes the request under
way the only one that writes, and its place in the reply tells how many bytes of
the body the temporary file holds (`Copied`); the file is complete where
`onResponseCompleted` renames it, so the rules are one whole body.

`Base_proofs` proves that an answer reaches the client that asked, under its own
id and for its own question (`AnswersReturn`): the item of an id under way says who
asked, and ids are given out once, being numbers without width.  What the code does
behind the array's end is undefined and nothing is said of it.  `LogShown` says that
the page of the log shows every query of a client among the last ones, once and the
newest first.  The log is the end of all that was logged (`LastLogs`, the invariant);
what the page's walk has collected after each entry (`EntriesSound`) is shown by way of
the least entry after which it would be wrong, since the library's induction theorems
cannot be used here.
`DnsAssumption` says that `MIN_ID` is an integer and that the log has room for an entry.

The same module proves `LinesDecide` of `DomainRules`: a name is accepted or denied
exactly when a line that was loaded says so, for any lines, in any order, and any
names.  The invariant (`RulesInv`) says that each trie is the union of what its lines
add (`Nodes`), so neither the order of the lines nor the nodes they share matter.  The
rest is about one trie and one name: `_inList` is a recursive function, and
`InListIs` shows that it finds a way from the root that ends at `*` or at the whole
name (`FoundFrom`), by way of the lowest level where it would not; `RuleMeansIs`
turns what a line means, which is read from the front of the names, to the order in
which the trie has them; `NodeEnds` and `MeansFound` are the two directions between
them.  `LinesAssumption` says that lines and names are split at dots.

And it proves `MapKept` of `AvlMap`: for any items and keys, equal ones included, the
tree is its members, in order and balanced, after any additions and removals.  The
invariant is

    MapInv == \E under : Whole(avl, under, members)

where `under` tells for each item what stands in the tree below it; it is not kept by
the code, so it stands behind a quantifier, and every step gives the new one.  In a
`Whole` tree each item is `Linked` (its two subtrees are apart, know their parent and
lie at their sides of its key), `Even` (their heights differ by one at most, and its
height is theirs plus one) and `Closed` (what stands below it has its own items and
its parent there).  Heights alone, or the order alone, would not be inductive:
`__adjust` trusts the heights, and `bigger` the parents.

`RotateTree` says what one rotation leaves of this; `OnceIs`, `TwiceIs` and `AdjustIs`
that `__adjust` makes a tree of any two subtrees whose heights differ by two at most,
as high as before or one off, so the abort there is never reached; `HangIs` that a
subtree which was replaced by one of a height one off leads to the same one level up.
Insertion (`BelowIs`), `__removeMin` and `__removeMax` (`TakenIs`) and removal, which
looks for an item among equal keys on both sides (`RestIs`), then go by way of the
lowest item at which they would fail.  Every operation says that it leaves alone what
stands outside its subtree (`Beyond`), which is what lets the subtrees be put
together.  That the recursive functions exist is proved as well (`RecursionExists`:
their bodies use them on lower ranks only, the heights being the rank).

`get` passes by no item with the key (`GotIs`).  For the walk, `Later` is the set of what
comes after an item: its right subtree, and for every item it stands at the left of,
that one and its right subtree.  `min` starts at an item whose `Later` is all the rest,
and `bigger` leads to the item `b` with `Later(n) = {b} \cup Later(b)`, down the right
subtree or up the parents (`BiggerIs`); so the walk meets each item once
(`WalkIs`).  `MapAssumption` says that keys are integers and that NULL is no item.

The assumptions are those of the modules, named: `SeqAssumption`,
`AuthAssumption`, `TunnelAssumption`, `ResolverAssumption`, `RequestsAssumption`, `SizeAssumption`,
`TextsAssumption`, `TableAssumption`, `ApartAssumption`, `RulesAssumption`, `ServerTcpAssumption`,
`HttpServerAssumption`, `DnsAssumption`, `LinesAssumption`, `MapAssumption`.  TLC
evaluates each of them in its runs.

Only model-checked: liveness (`UpdateEnds`, `EveryAnswer`, `EventuallyOver`, and
the fairness of `Lifecycle` in `ImplementsLifecycle`), which is beyond the prover.

## Not modelled

The free list and the 1000 places of the loop's slots; the services behind the
management server other than settings, rules and DNS log, and the parsing of a
request; the linked list; what the code does after a browser's FIN has had a
connection deleted under `_send`, or a refused https connection has left its socket in
the loop (use of freed objects), and what a repeated upstream answer leads to (each is
described above).  Left out for good: logging, strings, JSON, exceptions (data and
wording; an exception that is not caught is `Crash`), checksums and address
exchange in packets (stateless), the proxied client connectors (no user in the
repository), a full disk, and the loss of unwritten buffers when the whole machine
stops.

## Plan

Written: `TransConnection` with `Lifecycle`, `DomainResolver` with `Directory`,
`ConfigStore` with `Store`, `Tunnel`, each with its proofs; `TransTable`,
`RingBuffer`, `RulesUpdate`, `DnsAgent`, `DomainRules`, `AvlMap`, `ServerTcp` and
`HttpServer` with proofs.

What is left: the loop's slots with their reuse while a pass is under way;
several connections of the management server whose nested passes stack up.
