# rustyrouter in TLA+

Models, model-checking runs and machine-checked proofs for *rustyrouter*, a home
router that runs as the only user-space program of a Linux system. The modules
model its four network services (the DHCP server of the LAN, the DHCP client of the
WAN, the DNS forwarder, the SNTP client), the firewall between them and the
network, the loading of kernel modules, and the life of the init process from
power-on to power-off. Paths below are relative to the repository's `src/`.

## The system

| Part | State it keeps | Operations | Talks to |
|---|---|---|---|
| LAN DHCP server, `services/dhcp_server.rs` | lease table: map `by_mac`, index `allocated_ips`; raw socket | DISCOVER, REQUEST, DECLINE, RELEASE; socket set-up and loss | LAN clients by frames |
| WAN DHCP client, `services/dhcp_client.rs` | its phase and timers; the shared `WanLease`; address and default route of the WAN interface | discover, request, bind, renew, rebind, expire; configure and deconfigure by netlink | upstream servers by UDP, kernel by netlink, other services through `WanLease` |
| DNS forwarder, `services/dns_forwarder.rs` | cache; registry of pending queries by transaction id; two sockets | one task per query; a receiver task; a cleanup task | LAN clients, resolvers; reads `WanLease` |
| SNTP client, `services/sntp_client.rs` | retry delay | sync every 30 minutes, back-off on failure | reads `WanLease`; asks the DNS forwarder, then a server through the firewall |
| Init and shutdown, `main.rs`, `system.rs`, `signal.rs` | shutdown flag; what has been set up | mounts, start-up order, panic hook, signals, power button, reboot | starts every task |
| Orphan reaper, `reaper.rs` | its stream of SIGCHLD | `waitpid` on SIGCHLD or every 5 s | stops on the shutdown flag |
| Kernel modules, `kmod.rs` | `LOADED_MODULES`, one per process | load with dependencies, resolve aliases | kernel, which also runs the program as `modprobe` |
| Firewall, `netfilter.rs`; interfaces, `network.rs` | none | one batch; a sequence of netlink requests | kernel, which needs modules for both |
| Configuration, `config.rs`; `packet.rs`, `services/utils.rs` | none | parsing, building frames, socket calls | used by the rest |

The services are tokio tasks. They share one piece of state, the `WanLease`
behind a mutex that the WAN client writes and the DNS forwarder and the SNTP
client read. The runtime has several threads (`tokio` with all features and
`#[tokio::main]`), so tasks interleave between any two locks and awaits. The
DHCP server and the DHCP client are each a single task that awaits every handler
to its end. The tasks of the DNS forwarder are concurrent with each other. Init
runs its start-up alone, but the kernel may start further processes of the same
binary as `modprobe` at any time, each with a `LOADED_MODULES` of its own.

What is hard here, and what each component must guarantee against it:

- *Server.* Two structures that must agree; entries that outlive their leases;
  requests that come late or name arbitrary addresses; a full pool; restarts.
  Correct: no address is leased twice, none is lost, exhaustion is real, nobody
  else ends a client's lease, and what a client believes is backed by the table.
- *WAN client.* Timers against late answers; renewal against expiry; netlink
  requests that fail half way; a published lease that stands for the interface.
  Correct: the other services see the lease in force and only that; the interface
  has that lease's address and route; a lease is not used much past its end; a
  renewal ends.
- *DNS forwarder.* Answers matched by a 16-bit id alone; the timer, a late answer
  and an early reuse of the id racing for one registry entry; the limit on pending
  queries. Correct: an answer reaches its own question, nobody else's query or answer
  takes a query's entry, no entry leaks, the limit holds, every query ends.
- *SNTP client.* Three waits in a row, each of which may fail, under a lease that
  comes and goes, with a back-off that is reset in two places. Correct: the clock
  is set again and again, in bounded time after things are good; the servers are
  not pressed.
- *Kernel modules.* Several processes that load the same modules at the same time;
  an order that rests on `modules.dep` alone; files that cannot be loaded. Correct:
  a failure is never remembered as a success; no module is loaded before what it
  needs; a file that cannot be loaded costs only the modules that need it.
- *Life of init.* Errors that are reported and passed over, others that restart the
  machine; a `reboot` that the kernel refuses; a panic hook that never returns and
  holds a thread; SIGCHLDs that are coalesced. Correct: a boot without failures
  sets everything up; a boot and a shutdown end; init exits only when nothing else is left; orphans are reaped.

`PROJECT.json` lists every hazard with its line and the properties that cover it, or
why none does.

## Modules

| Module | Models |
|---|---|
| `LeaseTable` | `LeaseTable` of the server, as operators on a record `[by_mac, allocated_ips]` |
| `DhcpServer` | the server: one action per packet, socket event, reboot and tick |
| `AddressPool` | abstract: who holds which address; grant and free |
| `LanDhcp` | `DhcpServer` composed with RFC 2131 clients and the wire |
| `DhcpClient` | the WAN client, the shared lease and the WAN interface |
| `DnsForwarder` | query tasks, receiver, registry, cache |
| `Resolver` | abstract: who asks what, who was answered, what is kept; ask, answer, finish, forget |
| `Firewall` | the input rules, as a classification of packets |
| `SntpClient` | the SNTP client with its timers, through `Firewall`, and the lease it reads |
| `Kmod` | the loader of kernel modules, in init and in `modprobe` processes; aliases |
| `Wildcard` | `wildcard_match`, and what a match is |
| `Lifecycle` | start-up, signals, power button, panic hook and reaper, on top of `Kmod` |
| `DhcpServer_proofs`, `LanDhcp_proofs`, `DhcpClient_proofs`, `DnsForwarder_proofs`, `SntpClient_proofs`, `Wildcard_proofs`, `Lifecycle_proofs` | theorems |
| `MCDhcpServer`, `MCLanDhcp`, `MCDhcpClient`, `MCDnsForwarder`, `MCLifecycle` | instances for TLC (`SntpClient` is its own) |

Operators introduced by a comment `Mistake:` are not part of any specification.
Each is a plausible bug in the definition that follows it (an index that is not
cleaned, a test left out, a timer that is missing) and serves to see that the
properties notice it: `PROJECT.json`, "mutants", pairs them with the properties.

### Correspondence

**Time** is relative. An expiry is the number of ticks left until it, and a tick
is an action that brings all of them nearer. `Instant::now()` needs no bound and
time passes between any two steps. A timer of the WAN client fires on time: `Tick`
waits for a turn of the loop that is due.

**`DhcpServer`.** `leases` is the table, `socket` the raw socket, `reply` the frame
that the last step sent. A handler runs to its end before the next packet is read
and changes the table before it builds and sends the reply, so it is one action;
`SendReply` lets the reply fail after the change, as `build_dhcp_reply_payload` and
`send_raw_packet` may. A packet is its type, `chaddr`, the sender of the Ethernet
frame and the requested address; the sender is the client, a relay, or someone
else, which is what the anti-spoofing test tells apart. Addresses are offsets in
the network, with one value for all outside it. `HandleDiscover` re-offers any
entry, expired or not; otherwise it evicts, searches and inserts, in that order.

**`LanDhcp`.** A client's phase, address and time left are as in RFC 2131, the lease
counted from the sending of the REQUEST. Clients come back with an address they
remember, retransmit, give up, renew, release, leave silently, and decline an
address they find in use. Each client has a channel each way in which frames keep
their order and can be lost; answers to an earlier transaction id are ignored.
A server with a reply still on its way to a client (`MaxReplies`) keeps that client's
next frame queued.

**`DhcpClient`.** `phase` is the place in `run`: `configure` and `deconfigure` are
the netlink calls, which run after the mutex is released, so that the published
lease and the interface differ in between. `elapsed` is `bound_at.elapsed()`,
`sent` and `deadline` are the renewal loop's last REQUEST and the end of its wait,
`wan` and `route` are the kernel's side, which loses an interface's routes with its
last address. A configuration that fails may have flushed some of the old
addresses. `dirty` remembers that a netlink request failed, nothing else: it is what the
properties about the interface and about the published lease except.
A lease names its granting server, which real servers do. Netlink calls are
short beside a tick, and `NegotiationTimeout` may come at any time because its
delay is jittered.

**`DnsForwarder`.** A task's phase is the place in `handle_dns_query` and
`forward_query`; an action is what it does under one lock. `wire` holds a query from
its sending until its answer has come for the last time: it may be answered,
repeatedly and late, or lost. A reply is known by the question it answers, so that
an answer under the wrong question can be seen. The receiver also takes any datagram
from `Elsewhere`, under any id and at any time: one address stands for all that are
not asked, because the comparison with the source is all that tells them apart. It
removes the entry under the id and compares the source afterwards. A datagram that
carries an asked resolver's address without being its answer is not modelled: the
code cannot tell it from an answer. `XidReuse` says whether an id may
be drawn while its previous use is not over (an answer still on its way, or its
owner not yet cleaned up). The code only excludes ids that are in the registry,
and of 65536 random ids one is drawn early with small probability: with `XidReuse`
the model is the code, without it the code and luck. The resolver is any of the
lease's or the fallback at each query, as the lease may change in between.

**`SntpClient`, `Firewall`.** `phase` is the place in the loop and `left` the time
until its timer fires; `delay` is `current_retry_delay`. `lease` and `net`, whether
the forwarder and the servers answer, change at any time. An answer comes when
`AnswerDue` has held from the question on, before the timer; otherwise an answer
and a failure are both possible. `flow` is the WAN address that the server was asked
from: the kernel's connection tracking lets its answer in only while the lease has
that address. `Firewall` has the accepting rules of `netfilter.rs`; all else is
dropped. A time before 1970 panics, and the router starts again
(`AnswerPanics`). `age`, `good_for` and `quiet` are history, each up to a cap
beyond which no property looks.

**`Kmod`.** `kernel` is the set of modules in the kernel; for each process, `loaded`
is `LOADED_MODULES`, `asked` the names that it has yet to load and `plan` the files
still to load for the name at hand. An action is one name, or one file: its reading
and `init_module`, which is atomic. `dep_lines` is `modules.dep` as `depmod` writes it
(each module before what it needs itself), or nothing. A file is abstracted to
whether it can be loaded; a module whose needs are not in the kernel is refused.
`resolve_alias` is an operator on a sequence of characters, and so is
`wildcard_match`, in `Wildcard`: a recursive function over the rest of the pattern,
whose value says for every rest of the input whether the two match, as the code's
calls do one by one. `Matches`, beside it, is what a match is: a cut of the input
into one piece for each character of the pattern. `Strings` are the names for which
`AliasesResolve` compares the two.

**`Lifecycle`.** `stage` is the place in `run_as_init`, `up` what has been set up.
Each step of start-up succeeds or fails as its operations may, and goes on where
the code goes on. `reboot(2)` either does not return (`Stops`) or is refused
(`Refused`); `hopeless` remembers a refused emergency reboot. `MaxFailures` bounds the
operations that fail in one boot. `monitor`, `listening`, `clock` and `reaper` are the
tasks that the life of the process depends on; `clock` is the SNTP task, here for its
panic. The panic hook holds the thread of the task that panicked (`stuck`), and a
task runs only while a worker is left (`TaskRuns`). `sigchld` is the one SIGCHLD that
a stream holds; `backlog` remembers orphans that died before there was a stream.
When the machine stops, all that is in memory is as at its first start.

## Runs

All pass within the bounds given, or violate one property as stated.

| Run | Instance | Shows |
|---|---|---|
| `dhcp_server` | 3 clients, a /30 with 2 hosts of which one is the router, leases of 2 ticks; symmetric clients; about 3200 states | `UniqueLiveLease`, `NoLeakedAddress`, `ServerIpNeverLeased`, `NoFalseExhaustion`, `LiveLeaseUndisturbed`, and `ImplementsPool`: the server refines `AddressPool` |
| `lan_dhcp` | 2 clients, 2 frames under way to the server and 1 reply back, one squatted address, losses, reboots; 1.1 million states | `NoDoubleUse`, `LeaseBacked`, and `ClientsImplementPool`: the clients refine `AddressPool` from one reboot to the next |
| `lan_dhcp_live` | 2 clients, 6 hosts, no loss, exchanges shorter than a tick | `AskingGetsAddress` |
| `dhcp_client` | 4 configurations (another address, gateway, resolver, or an invalid mask), leases of 0, 5 and 48 ticks, all failures; 120 000 states | `OverrunBounded`, `InterfaceMatchesLease`, `PublishedInForce`, `LossWithdraws`, `RenewalEnds` |
| `dns_queries` | 2 tasks, 2 ids, 1 place, ids reused early, datagrams from elsewhere; 30 000 states | `NoEntryLeaks`, `PendingBounded`, `QueryEnds` |
| `sntp_client` | intervals of 1 (poll), 2 (first retry), 30 (longest retry) and 60 ticks (sync), time-outs of 2, two WAN addresses; 11 000 states | `ClockRecovers`, `NotPressed`, `KeepsTime` |
| `lifecycle` | 4 modules of which two have dependencies, every `modules.dep` or none, a `modprobe` process, a button, one worker, 2 orphans, 2 failures in a boot; 82 000 states | `CleanBoot`, `OnlyFailuresMissing`, `InitExitsLast`, `NoZombieUnnoticed`, `CacheIsTrue`, `DependenciesFirst`, `AliasesResolve`, `BootSettles`, `ShutdownEnds`, `ZombiesReaped` |
| `dns_answers` | 2 tasks, 2 questions, 3 ids, no early reuse, datagrams from elsewhere; 116 000 states | `AnswerMatches`, `EntryUndisturbed`, and `ImplementsResolver`: the forwarder refines `Resolver` |

Why the bounds are enough: with three clients on one free host besides the
network's end addresses (which a REQUEST may name), every conflict of two clients
happens while a third observes, and the pool is exhausted; two ticks tell a fresh,
an aged and an expired lease apart. With two frames a retransmission overtakes a
release or a new lease. A lease of 5 ticks with a least interval of 2 has renewal,
rebinding and overrun; 48 has several intervals of each kind, some longer than the
least. `Horizon` stops the client's clock where nothing depends on it any more,
which an assumption of the module states. With two tasks and one place one
task is refused, or takes the place while the other still holds its id, which is
every race over an entry; the proofs cover more. The intervals of the SNTP client keep the
order of the real ones, the back-off doubles four times before it is cut, and the
interval of synchronization is longer than the longest back-off. In `lifecycle` one
module needs another that needs a third, so that the order within a line of
`modules.dep` matters, and a helper loads what init loads; two failures are a refused
power-off with its refused fallback, or a panic with its refused reboot; with one
worker one panic stops every task; two orphans make one SIGCHLD. The lines of
`modules.alias` go through the edges of `wildcard_match`, against all names of up to four
characters; the proof covers the rest. A third failure
adds nothing that these combinations do not have, as failures of different steps
are independent; the proofs do not bound them. `lifecycle` has its check for
deadlock off, because a router whose threads are all in the panic hook, and
whose reboot was refused, really hangs. `MAX_PENDING_QUERIES` is below the number of ids, as in
the program, so that a search for a free id ends.

`AskingGetsAddress` has an exception, and the exception is real: a client whose
entry has expired and whose address another client took by REQUEST is offered that
address again and refused it again, until the other lease or the entry is gone.

### What the program does not do

Four runs check a sentence of the repository that the code does not keep, and TLC
shows how. `PROJECT.json`, "findings", quotes the sentences.

| Run | What happens |
|---|---|
| `stale_offer` | A DISCOVER of A, whose lease has expired, is answered with the address that B leases. |
| `bound_unconfigured` | `configure_wan` fails after the lease was stored; the next identical ACK finds it unchanged, and the client is bound without an address. |
| `late_rebinding` | At T2 the interval grows, the last REQUEST is less than that ago, and nothing is broadcast for another interval: with a lease of an hour about four minutes late. |
| `early_xid_reuse` | A query's id is free again while an answer to it is still to come; the next query that draws it gets that answer, and it is cached. |

Three of the findings are delimited by a theorem for every value of the constants, so
that they are the whole of the disagreement. `OnlyStaleEntriesClash`: an offered
address that another client leases is always that of the client's own expired entry.
`OnlyFailuresUnconfigure`: a client is bound without its address only after a netlink
request has failed. `RebindingIsLateByOneTurn`: after T2 one turn of the renewal loop
may keep silent and not two, which is less than the least interval and half of the
rest of the lease (or twice the least interval, if that is more). The fourth needs an id
drawn early, without which `AnswersMatchQuestions` holds.

Some properties are weaker than one would like, because the code is.
`ZombiesReaped` holds up to the shutdown flag: a power-off by the button that the
kernel refuses sets the flag, and the reaper stops on a router that goes on.
`ShutdownEnds` excepts tasks in the panic hook, which keep the monitor from its
turn, or the process from its end. `EntryUndisturbed` excepts datagrams from
elsewhere: `router_spec.md:128` speaks of fully rejecting packets from another address
than the resolver's, and none is delivered or cached (`AnswerMatches`,
`ImplementsResolver`), but the entry under the id has been removed by then
(`dns_forwarder.rs:96`), so the query whose id it was ends without an answer. The
properties about the WAN interface and the published lease except what follows a
failed netlink request (`dirty`). `CleanBoot` and `OnlyFailuresMissing` say nothing of
the order of links and rules: the links are up before the rules are in the kernel
(`main.rs:127` to `137`), and no document states an order.

### Fairness

Safety runs assume none. `LanFairSpec`: the server's task is scheduled, frames
arrive, and clients retry; nothing is assumed of renewals, releases, or of time.
`DhcpClient!FairSpec`: time goes on and the client's own task takes the steps that
its timers and netlink calls make due; nothing is assumed of any server.
`DnsForwarder!FairSpec`: tokio polls every spawned query task, and the timer of
`tokio::time::timeout` is one of its steps; nothing is assumed of the resolvers, of
the network, or of the receiver.
`SntpClient!FairSpec`: time goes on and the client's task is polled; nothing is
assumed of the lease or of the servers.
`Lifecycle!FairSpec`: the scheduler runs main, the signal monitor, the reaper and
the `modprobe` processes, and the kernel asks for a module that it waits for; nothing
is assumed of signals, buttons, orphans, panics or of the hypervisor that switches
the machine on.

## Proofs

TLAPS proves the following for every value of the constants that satisfies the
`ASSUME`s of the modules: any number of clients, addresses, tasks, any lease time.

**Server** (`DhcpServer_proofs`). `TypeCorrect`; `NoAddressLeasedTwice`;
`PoolNeverShrinks`; `RouterKeepsItsAddress`; `ExhaustionIsReal`; `OnlyTheClientEndsItsLease`;
`ServerImplementsPool`; `RepliesAreBacked`; `OnlyStaleEntriesClash`. Uniqueness is not inductive through the index, which can
miss live leases: A's lease expires, B takes the address by REQUEST, A inserts
another address, and `insert` removes A's old address, now B's, from the index. The argument goes around it: an insertion
either follows a test against the live leases themselves (REQUEST), or a search on
a table that has just been evicted, on which the index *is* the set of live
addresses (a lemma about `EvictExpired`); ageing and eviction only take live leases
away. Refinement uses uniqueness: it maps a client to the address of its live
lease, and every step grants a free address, frees a set of clients, or stutters.
`RepliesAreBacked` says that what a frame promises has been entered before it is
sent; with uniqueness, an offer that clashes can only be of an expired entry.

**Server and clients** (`LanDhcp_proofs`). `LanTypeCorrect`; `NoAddressUsedTwice`;
`UsedLeaseIsBacked`, under any losses, restarts and retransmissions. A client starts
to use an address by an ACK that may have been long under way, so the invariant
`LanInv` speaks of the queues. An ACK under way to a client whose REQUEST is younger
than the last reboot is backed by a live entry that lasts for what the REQUEST leaves
of a lease. A frame that is served must not undo that: frames of the exchange ask
for nothing but the client's address, frames of an earlier exchange come first in
the queue, and none of them is left once an answer is under way; while an address is
in use no frame under way gives it up or asks for another. That a reboot may break a
lease, for one lease time, is the clause on `since_reboot`. The clients are external,
so these theorems say what the server promises to clients that keep RFC 2131.

`ClientsShareNothing` is the refinement seen from the clients: `ClientsImplementPool`
maps a client to the address that it uses by a REQUEST sent since the last reboot
(`UsesSinceReboot`: more of its lease is left than the time since then would leave).
A reboot frees every client at once, which `AddressPool` allows, and so does an expiry;
a client that takes an ACK takes an address that no other such client uses, because
the ACK is backed by a live entry, as the use of each of the others is, and live
entries have different addresses; other steps of a client only end a use. Uses from before a reboot are not mapped, because the server has
forgotten them. `ServerAmongClients` says that `LanSpec` implements the server's own
`Spec`: whatever clients and losses do is a packet that the server may receive
anyway, or nothing to it. (A step of a client clears `reply`, which to the server is
an INFORM, a packet that it ignores.) So
all of `DhcpServer_proofs` holds among clients, too (`PromisesAmongClients`).

**WAN client** (`DhcpClient_proofs`). `ClientTypeCorrect`; `BoundLeaseIsPublished`;
`OverrunIsBounded`; `LossIsWithdrawn`; `InterfaceFollowsLease`; `PublishedIsInForce`;
`TurnsAreApart`; `OnlyFailuresUnconfigure`; `RebindingIsLateByOneTurn`. The first invariants
add that an ACK is held wherever it is used and that `deadline` is below the end of
the lease plus the least interval: while renewing, half of what is left is added to
`elapsed`, or the least interval to an `elapsed` below the end. The interface
invariant also says what is on the interface while a netlink call is pending.
`PublishedIsInForce` is the promise to the services that read the lease, and adds that
a lease is published in no other phase unless a request failed: when `configure_wan`
fails, nothing takes the lease back, and it stays published while the client
negotiates, past its end if need be. `TurnsAreApart` bounds the turns of a renewal.
`RebindingIsLateByOneTurn` needs that the retry interval only shrinks after T2: a wait
that a silent turn opened is then long enough for the next turn to send.

**DNS forwarder** (`DnsForwarder_proofs`). `DnsTypeCorrect`; `RegistryDoesNotLeak`
and `PendingIsBounded`, both even if ids are drawn early; `AnswersMatchQuestions`,
`EntriesStay` and `ForwarderImplementsResolver`, which assume
`XidReuse = FALSE`. The invariant for these says that two tasks that hold an id hold different ones, that each datagram
under the id of a task is about that task's question, and that an entry's resolver
and owner are those of the task that holds its id. That a query is registered while
it waits is no part of it: a datagram from elsewhere may have taken the entry.
`EntriesStay` says that nothing else does, step by step: a reply that is accepted
is the answer to the entry's own question (`AcceptedIsAnswer`), so it goes to the task
with its entry. `SomeIdIsFree` follows from the
limit. `ForwarderImplementsResolver` maps a task to its question and the answer handed
to it, and the cache to the answers in it that have not expired. A reply to a waiting
task is its one answer, because the entry goes with the first reply; the
end of a task, by whatever way, finishes its question; time forgets the answers that
expire with it; everything else, the removal of expired entries included, is unseen.

**SNTP client** (`SntpClient_proofs`). `TypeCorrect`; `Recovery`; `AttemptsApart`. The
invariant for recovery, `Timing`, bounds `age` in each phase: while things have been
good, an attempt that is under way began within them and will be answered, and a
sleep that began before ends in time. `Spacing` says that the time left of a sleep
and the time since the last attempt together make at least `RETRY_INTERVAL`.

**Matching** (`Wildcard_proofs`). `WildcardMatchIsRight`: for every pattern and
input, of any length and over any characters, `WildcardMatch` is `Matches`. The
recursion is shown to be well founded (a table for the last k characters of the
pattern exists, for every k) and then followed from the end of the pattern:
the rest of the pattern from i on matches the rest of the input from j on iff there is
a cut of that rest. Induction is over sets of numbers, `SetInduction`, which follows
from the least element of a set, so that no theorem with an operator parameter is
needed.

**Life of init** (`Lifecycle_proofs`). `TypeCorrect`; `NotedIsLoaded`; `RightToLeft`;
`FailuresCostNoMore`; `ExitIsLast`; `NoneUnnoticed`; `BootsClean`; `AliasesResolved`, which
rests on the former and on the first matching line being the least one. For any dependencies,
any number of helpers and any number of failures. `DependenciesFirst` needs that
each plan is ordered: what the head of a plan needs is in the kernel, or could not
be loaded, or was to be loaded before. `FailuresCostNoMore` needs that what has been
tried (is in the kernel, failed or was refused) is closed under dependencies, and
that init's list and plan lose no module untried, whatever fails (`TriedInv`);
`DependenciesFirst` then goes from a refused module to one that failed. `BootsClean`
needs, besides, that the kernel is closed under dependencies and that the list of `load_required_modules` covers what the interfaces and
the rules need (`RequiredAssumption`), whatever order the helpers load in meanwhile.

Only model-checked are the liveness properties (`AskingGetsAddress`, `RenewalEnds`,
`QueryEnds`, `KeepsTime`, `BootSettles`, `ShutdownEnds`, `ZombiesReaped`), which need
fairness and `ENABLED` and are outside what the provers do. Of two of them a part is
proved. `RenewalEnds`: `TurnsAreApart` and `OverrunIsBounded` leave the renewal loop
finitely many turns. `QueryEnds`: with `SomeIdIsFree` the search for an id can end.

## Not modelled, and the plan

Done: every component that keeps state, the composition of the DHCP server with its
clients, and the theorems above. What remains:

- A composition of the WAN client with the services that read its lease. Each of
  them is now checked against a lease that changes at any time, which is more than
  the WAN client does.
- For the liveness properties other than `RenewalEnds`, the invariants and bounds on
  which they rest, as theorems: a measure that every turn of a loop moves.

Documented, but not in the code, so that there is nothing to model: the avoidance of
a collision between the WAN's and the LAN's subnet, and the teardown of rules and
interfaces at shutdown (`router_spec.md`); the code only announces the latter. A
forwarder that cannot bind its port says that it retries and does not.

Left out for good: byte layouts and checksums (`packet.rs`), system calls
(`services/utils.rs`), decompression of kernel modules, the text of logs, the
parsing of options, whose results are inputs of the models, character classes in
`modules.alias`, which the code does not know either, and the run as a process other
than PID 1, for development.
