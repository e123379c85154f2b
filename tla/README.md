# Verification of P2P_SERVER

TLA+ models of the P2P_SERVER system (signalling server, relay, client SDK),
the TLC runs that check them on small instances, and TLAPS proofs of what
matters most for every instance. The models are translated from the C++ under
`src/`; `PROJECT.json` maps each definition to its lines.

To repeat the work: `tlc -workers 2 -config <X>.cfg <Module>` for each run of
`PROJECT.json`, `tlapm <Module>Proofs.tla` for each proof module.

## 1. The system

Two clients behind NATs find each other through a signalling server, punch a
direct UDP path or fall back to a relay, and talk through reliable sessions.

| Component | State | Operations | What makes it correct |
|---|---|---|---|
| **Session** (`client/sdk/session/Session.h`) | `next_seq_`, `pending_` (send window, 64), `expected_seq_`, `ooo_` (64) | `send`, `on_frame` (DATA, ACK, PING, PONG, CLOSE), `tick` (retransmit after 400 ms, ping every 15 s) | each message delivered once and in order; nothing forgotten before it is delivered; buffers never wedge; everything accepted arrives |
| **P2PProxy** (`server/proxyserver`) | `uuid2addr_`, `addr2uuid_`, `srcpaths_` | register, unregister, relay, punch helper, availability query; timer: decay of paths, expiry of registrations | limit respected; the two tables invert one another; both directions of a path live together; unused entries go |
| **Login** (`P2PClient.cpp` client side; `RecvProcess.cpp`, `NatServer.cpp`, `PeerManage.cpp` server side) | client `authed_`, `auth_inflight_`, `auth_denied_`; server `auth_nonces_`, `auth_sessions_`, `peers_` | challenge, login, heartbeat and CONNECT gates, expiry | a nonce is used once; no gate opens without a login, here or at a linked server; a legitimate client gets in and is refused only for cause |
| **AntiAbuse** (`natserver/src/AntiAbuse.cpp`) | `flood_`, `ip_black_`, `uuid_black_`, `dirty_`, the file | flood check, ban, unban, lookup, sweep, save, load | a ban lasts its term and survives a restart; lapsed entries go |
| **LicenseMgr** | white list, its file | load, save, add, remove, `allowed` | only listed uuids pass; the file round-trips |
| **Registry synchronisation** (`PeerManage.cpp`, `NatServer.cpp` 565-737) | `peers_` per server, `sync_seen_` | heartbeat, entry, delete, full snapshot between servers, hop limit, time-out | a heartbeat reaches every server; no copy gets younger; a client that left is forgotten; messages die out |
| **NatServer core** | bounded queue `mq_`, proxy health table, counters | receive, dispatch, CONNECT / PUNCH forwarding, `pick_proxy`, reload | requests are answered or dropped by policy; a dead proxy is not chosen for ever |
| **NAT detection** (`NatDetect.h`, `NatTypeCheck.cpp`) | probe phase, replies | start, feed, tick, classify | the class found is that of the NAT |
| **P2PClient connections** | `conns_`, `sessions_`, `addr_to_peer_`, relay registration, ICE agents | connect, invite, punch, time-out to relay, ICE callbacks, close | connecting settles; no use after close; both ends agree on direct or relay |
| Crypto, codecs, configuration, status page, demos | - | pure functions, I/O | test vectors (`tests/crypto_test.cpp`) |

Interaction. Clients and servers exchange UDP datagrams only: anything may be
lost, repeated or reordered. Inside the server, receiving threads put packets
in `mq_`, worker threads run `RecvProcess.cpp`, a timer thread runs once a
second; they share `peers_`, `abuse_`, `license_`, each behind its own mutex.
Inside the proxy, receiving threads and a timer thread share three tables behind
`mu_`. Inside the client, one worker thread, the application's calls and the
threads of libjuice share everything behind the recursive `mu_`.

What is hard here: datagram faults against sequence numbers and one-shot flags;
work split over two critical sections (proxy timer, black list save); time-outs
racing late answers (nonces, NAT probes, punching); restarts of a server whose
state is in memory; replicas updated without versions. `PROJECT.json` lists
these as hazards, each at its line, with the properties that cover it.

## 2. Modules

| Module | Models | Extends / uses |
|---|---|---|
| `Session` | two Session objects and the network between them | refines `FifoChannel` |
| `FifoChannel` | abstract: a bounded FIFO channel in each direction | |
| `SessionProofs` | theorems about `Session` | `Session` |
| `P2PProxy` | the relay with its receiving threads and timer | |
| `P2PProxyProofs` | theorems about `P2PProxy` | `P2PProxy` |
| `Auth` | login of one client at one server, and the two gates behind it | |
| `AuthProofs` | theorems about `Auth` | `Auth` |
| `AntiAbuse` | flood detection, black lists, their file, the saving timer, crash and load | |
| `AntiAbuseProofs` | theorems about `AntiAbuse` | `AntiAbuse` |
| `Registry` | the registries of linked NatServers, for one client | |
| `MCRegistry` | topologies for TLC | `Registry` |
| `RegistryProofs` | theorems about `Registry` | `Registry` |
| `Connection` | connections of clients: set-up, ICE, relay, path choice, closing | |
| `MCConnection` | configurations and networks for TLC | `Connection` |
| `ConnectionProofs` | theorems about `Connection` | `Connection` |
| `NatDetect` | NAT type detection: client, server and NAT | |
| `NatDetectProofs` | theorems about `NatDetect` | `NatDetect` |
| `NatServer` | the work queue, the workers, proxy health, CONNECT and the clients' relays | |
| `MCNatServer` | proxies and configurations for TLC | `NatServer` |
| `NatServerProofs` | theorems about `NatServer` | `NatServer` |

Definitions called `X_something` that are commented "Faulty variant of X" are
plausible bugs of that code. They are not used by the specifications; each is
there to show that some property notices it.

### Session

`Send`/`SendUnreliable` are `send()`, `tick` is `tick()`, and `Receive` runs
`on_frame`, whose cases `handle_in_order`, `handle_ahead` and `handle_dropped`
are the three branches of `handle_data`. `P2PClient` calls every method with
`mu_` held, so each is one step. A payload is the index of its message;
`delivered` and `sent` are history. `net` is a set of frames: `Receive` may keep
the frame (duplicate), `Lose` drops one, any order of receipt is possible.
`InFlight` says how long a frame can be delayed (constant `Lifetime`, counted in
messages); it matters for wrap-around only. The clocks become free choices: any
subset of the pending frames may be due at a tick. Not modelled: `TT_CLOSE`
(sets `active_`, which nothing reads), the `session_id` (never checked), and
empty payloads (delivered without a call of `on_data`).

### P2PProxy

One action per message of `handle()` that changes a table; `do_register` is the
registration past its refusals; `timer_collect` and `timer_reclaim` are the two
critical sections of `timer_loop`, between which other threads run. Times are ages
in timer rounds, saturated just past `REG_TTL`. What the relay sends changes no
table and is left out: the forwarded frame and the answers, so also
`PUNCH_HELPER`, `SP_ASK_EXTINFO` and refused registrations, which do nothing but
answer (their receivers are in `Connection` and `NatServer`). `lost` is history:
the registrations without an `addr2uuid_` entry, from the moment they lose it until
they are refreshed or go.

### Auth

Client handlers run under `mu_`; the server's touch the nonce and session of a
uuid in one critical section each, so every handler is one step. `net` is a set
of messages; `Duplicate` delivers one and keeps it, `Lose` drops one. Nonces are
numbers; a MAC is right exactly if its nonce and the secret are. Expiry, restart
and changes of the lists are steps whose number is bounded by the constants,
each kind by itself and all together (`left`); `Lossless` and `Undisturbed` say
that some of them have not happened yet. `Init` leaves open whether the server demands
logins and whether the client's secret is the server's. Heartbeat answers are
encrypted after a login; if the secrets differ (possible when the server does not
demand logins) their result is arbitrary (`Decrypted`).

`PeerManager::authed` has two sources: `session` is `auth_sessions_`, `vouched` the
`auth_expire` of the entry in `peers_`. A login sets both (the second if there is an
entry), a heartbeat keeps the second, and an entry that another server sends
(`handle_sync_entry`, with `upsert_synced`) sets it without a login here: `synced`
remembers that one came. The client retries by `tick_auth` after an answer that it
cannot use: a short one, an unknown result of a challenge, `AUTH_BAD_NONCE`. This
server gives none of them, so they come from `OddAnswer`, which turns an answer
under way into one; back-off times are left out.

### AntiAbuse

`ip_black_` and `uuid_black_` are one function from keys to seconds left
(`Lapsed` when over, `Absent` without entry). `save()` and its caller are four
steps of the timer thread: snapshot, open (which truncates), write, and
`reset_dirty`; opening and encrypting may fail (`save` returns false and `dirty_`
stays), writing may fail unnoticed, and the process may be killed between any two
steps (`Restart` loads what the file then holds; a write cut short leaves any part
of it). `unsaved` is history: keys whose last
change the file may lack although `dirty_` is clear, because they changed during a
save or the write failed. The server has a `BlacklistFile`: without one (`path_`
empty) `save` and `load` return at once and nothing outlives the process.

### Registry

The tables are keyed by uuid, so one client stands for all. An entry is the age
of its heartbeat in seconds (`last_heartbeat` against synchronised clocks; all
ages past the time-out are alike), and `Tick` ages entries once every timer has
had its round and what was sent has arrived or is lost: a datagram is not
delayed beyond the second it was sent in, except, where `LateDels` is set, a
deletion, which carries no time. Within the second `net` is a set of
messages received in any order, each perhaps lost or delivered twice. The
messages of servers that are linked verify (they share `SyncAuthSecret`).
Handlers run on several worker threads, but each has one critical section that
matters. `seen` is `sync_seen_`, whose key is uuid, heartbeat time and sender;
as increments are of the current second, the sender is what is left of it, and the
keys of earlier seconds fit none (`SeenNow`).
`Restart` loses everything in memory and asks the neighbours for snapshots.
`beat`, `calm` are history: the age of the client's last heartbeat, and that
nothing but heartbeats happened in this second.

### Connection

`conn[<<a, b>>]` is `conns_[b]` of client `a`; `on` says whether the entry
exists. `session` and `known` are the keys of `sessions_` and the peers in
`addr_to_peer_`. The handlers of `P2PClient` run under `mu_` and are one step
each: the application's `connect`, `disconnect`, `send`; the ticks of the worker
thread (`tick_connections` in the parts of its branches); one action per message;
the callbacks of libjuice. `connect_req` is the server's handler, whose answer
depends on registry and login and is left open. Deadlines are three periods
(`time`): before `punch_deadline`, after it, and `connect_timeout_ms` later.
`Elapse` passes them at any moment; `MaxLate` bounds how often it does so while
signalling messages are still under way, `MaxUpsets` such deadlines and faults
together.

libjuice is external. An agent's description is the number of the agent; a
description set stays; two agents with one another's descriptions get through
where the NATs let "ice" through (`Paired`), and then report CONNECTED and
COMPLETED. Registration at the relay is one step with the request, its answer a
message, which is a refusal when the relay has no `room`; `RelayForgets` is the
relay's `REG_TTL`. `juice_send` fails before the agent has found a way, and nobody
looks at its result: `Route` is the path the code chooses, `Sent` what then leaves.
Frames are pings or pongs, and only the last one from a client to another is kept,
since what sequence numbers make of older ones is the matter of `Session`. `on_juice_candidate` only fills a
string that `on_juice_gathering_done` replaces, and `tick_conn_fsm` finds nothing
to do, because `relay_ok` is never set without `connected`.

### NatDetect

`start`, `feed` (in its cases `feed_main`, `feed_alt`, `feed_ignored`) and `tick`
are those of `NatDetect.h`, `report` the first half of `tick_nat_detect`; the
worker thread calls them all, so each is one step. `try_fast_handle` is the
server's, on the receiving thread of either socket, and `dual_reply` its two
answers. There are four kinds of NAT: cone or symmetric, with a filter on the port or
not ("open", "restricted", "loose", "symmetric"; both sockets of the server have
one address). `Mapped` is the public port the server sees, `Passes` whether an
answer gets in, `opened` the ports the client has sent to. Time is left out: `tick`
may find the deadline passed with answers still under way, and `late` remembers
that. Heartbeat answers (every 20 s, more often after failures) start the detection over while it has no
result, in any phase; `MaxStarts` bounds them.

### NatServer

`recv_thread` is the tail of the receiving loop (the gates before it are in
AntiAbuse and Auth), `proc_pool_thread` a worker that takes a packet, `process`
its handling; `hand` is the bag of packets the workers hold, so several are under
way and finish in any order. A CONNECT is handled in two steps, the ACK and the
INVITE, because other workers may change the proxy health between them.
`timer_thread` is one round of queries with `mark_proxy_stale`, `reload` a change
of the configured proxies. Time counts in these rounds; whether an answer less
than a round old is already 10 s old is left open (`prompt`). Weights of the
draws are left out: `pick_proxy` is the set of all lists that can come out of three
draws and the configured order, each candidate added unless it is there.
Clients are what their first relay is: `Offer` is the end of `on_connect_ack` and
`on_connect_invite`, which take the list over if they have none, and everything
else uses `proxies_[0]` alone. (`parse_proxies` drops empty addresses and
duplicates, which `OfferSound` shows an offer never has.) `Connection` has one relay
only; that the two clients need the same one is the matter of this module.

## 3. Runs

| Run | Bounds | Shows |
|---|---|---|
| `session` | window 2, buffer 2, 4 reliable and 1 unreliable message, pings | safety and liveness of the session |
| `session_stuck` | the same with 3 messages and no pings | **violated**: the unconditional delivery promise |
| `proxy` | 3 uuids, 2 addresses, 2 places, TTL of 1 round, one address that relays, fair timer | limit, agreement of the tables, symmetry of paths, expiry, decay |
| `auth` | 5 challenges; one heartbeat and one CONNECT under way; at most one each of loss, duplicate, nonce expiry, session expiry, restart, list change, synced registration, odd answer, any two together; fair client and network | safety of the login; refused only for cause; admitted again and again |
| `abuse` | 1 ip, 1 uuid, threshold 1, ban of 2 s, disk and cipher errors, 1 crash, fair timer and disk | restart keeps the list; sweep happens; changes reach the file |
| `registry` | 3 servers in a row, time-out after 1 s, snapshots every 3 s, 1 heartbeat a second, 1 fault (loss, duplicate, removal, restart of server 1), fair timers and links | no copy gets younger; a heartbeat reaches all; a client that left is forgotten |
| `registry_mesh` | 3 servers linked to one another, no faults, deletions may be late, fair timers and links | **violated**: deletions die out |
| `connection` | 2 clients, 1 connect, 1 disconnect, 1 fault (loss, duplicate, expiry at the relay) or 1 deadline during signalling; relay forced, offered, full, missing | nothing outlives its connection; connected means that frames are sent |
| `connection_live` | 2 clients, 1 connect, no faults, 1 deadline during signalling; NATs that ICE gets through or nothing does; relays as above; fair threads and network | connecting settles; ICE is used where it can be |
| `natdetect` | 3 starts, 2 losses or repetitions, 4 kinds of NAT; fair ticks and network | right when undisturbed, no cone NAT symmetric, a result comes |
| `natserver` | 2 proxies, 2 workers, queue of 2, lists of 2, 1 CONNECT, 1 event (loss, drop, proxy change, reload), fair threads | no request lost or handled twice; offers sound; health follows the proxies |
| `natserver_relay` | the same without events, clients without a relay of their own | **violated**: both ends use one relay |

Why the bounds are enough. Session: two frames in flight with a window of 2 give
every relation a frame can have to `expected_seq_` (behind, equal, ahead with and
without room), the third and fourth message the refilled window; the proofs cover any
window and count. Proxy: with two places two uuids are registered at a time, so that
one takes over the address of the other, one moves and leaves its old entry to the
next, and the third finds the proxy full; the proofs cover all. Auth: every pair of
faults, at any moment of two logins; the proofs cover any number. Five
challenges are enough: one for each login and each unusable answer, and some to
spare for late refusals, which make a client log in again that is logged in already.
AntiAbuse: one key in the save and one changing during it; the proof covers all.
Registry: three servers in a row are the least where an entry is forwarded and a
hop limit of 2 is used up; snapshots asked for at different seconds meet entries
of every age and the time-out, and a repeated entry or the next second's heartbeat
meets the memory of what was seen. Three servers are the least mesh in which a
deletion has somebody to be passed on to.
Connection: one disconnect and one lost or repeated message, against every
moment of one set-up, give closed connections that late messages make anew; the
proofs cover any number of calls, clients, faults and late deadlines. NatDetect:
three starts are two restarts, in each phase; two faults hit both answers of a probe.
NatServer: two workers handle two answers of one proxy
in either order, a queue of two overflows with two proxies' answers before a
CONNECT, two proxies give every list of a draw, short ones too. `natserver` gives
one of the clients a relay of its own, so that a client with and one without take
their offer.

Fairness. Session: `worker_loop` ticks at least every 50 ms and a frame is due
after 400 ms, hence weak fairness of a tick that resends everything pending; and
strong fairness of receipt of the frame waited for, of frames received before
(they are acknowledged again) and of the newest acknowledgement, which is what
"UDP sometimes gets through" must mean for any protocol to deliver. Proxy and AntiAbuse: time passes
and the timer thread runs (weak); the disk does not refuse to open the file
for ever, nor the cipher to encrypt it (strong fairness of `save_open`, `save_write`).
Auth: the worker loop sends heartbeats and retries, and messages in flight arrive
(weak); loss is a bounded fault. Registry: time passes, timers run and what is on a link arrives (weak); loss is a bounded fault. Connection: every
client's worker ticks, agents gather and check, time passes and each link
delivers (all weak: the worker loop wakes at least every 50 ms, and nothing here
can be switched off for ever by somebody else); there is no fairness of the
application's calls. NatDetect: the worker loop ticks and reports, and a datagram
that is not lost arrives (weak; losses and restarts are bounded). That heartbeats do
not restart it for ever is their interval of 20 s against 3 s for a phase.
NatServer: the timer and the workers run (weak, for each packet a worker holds);
an answer of a proxy arrives, with strong fairness, since only the bound on
events, not the code, can keep it from the full queue. Deadlock is checked except
in the runs of Connection, NatDetect and NatServer: both clients may have given
up, the detection may be over, or a CONNECT may be all that was asked.

Findings, with the lines quoted in `PROJECT.json`:

1. `send_ack` has no value for "nothing received": ack 0 acknowledges frame 0.
   If frame 1 overtakes frame 0 and frame 0 is lost, the session is stuck
   (`session_stuck`). `AckedExceptFirst` proves that this is the only frame.
2. `pick_proxy` is called once for the ACK and once for the INVITE of a CONNECT, and
   draws anew. Each client registers at, and relays through, the first of its own
   list, so the two ends may use different relays, each of which drops what is for
   a uuid it does not know (`natserver_relay`). No client moves on to the second
   candidate, whatever happens to the first.
3. `handle_sync_del` passes a deletion on to every peer but the sender, with no hop
   and no memory. Without `SyncAddrs` the servers form a full mesh
   (`NatServer.cpp:94-95`), and among three of them one deletion circulates for
   ever (`registry_mesh`), removing the client again after it came back. The guide
   (1353), `src/README.md:240` and `ProtoDef.h:341-343` speak of loop prevention by
   `SYNC_HOP_MAX`, which `SyncPeerDel` has no field for. Links without a cycle,
   as in `registry`, do not have the problem.

Met while modelling, and part of the models rather than runs of their own:

- Proxy: a uuid that moved leaves `addr2uuid_[old]` behind, and the next
  registration at the old address erases the moved uuid; a uuid registered, between
  the timer's two critical sections, at an address that expired loses its
  `addr2uuid_` entry, and so does another at that address when the first is
  unregistered (`lost`, the exception to `TablesAgree`). A refresh repairs it.
- Session: `handle_data` compares sequence numbers without wrap-around; `Session`
  with 8 numbers, window 1 and 16 messages violates `InOrder`.
- Auth: `auth_inflight_` is cleared by an answer only and has no time-out
  (`P2PClient.h:141` speaks of a retry, `src/docs/开发指南.md:184` of an
  `auth_timeout_ms` that nothing reads): after one lost handshake message the
  client never logs in. `HandshakeAlive` and `LoggedIn` therefore hold until a
  message is lost (`Lossless`); without that guard both are violated.
- Auth: an expired or replaced nonce is reported as a bad MAC and ends all
  retries (`src/docs/开发指南.md:217` has AUTH_BAD_NONCE and a retry); after
  an expired nonce, a duplicate or a restart the client gives up without a cause,
  hence `Undisturbed` in `DeniedForCause`. The retry that the guide (143, 217, 1852)
  and `P2PClient.h:141` promise is there (`tick_auth`), but it waits for answers
  this server never sends: with this server it never runs.
- Auth: a registration that another server sends counts as a login for an hour
  (`upsert_synced`). In a full mesh of three servers or more, a server's own entry
  comes back to it by way of the others within the hop limit, so the heartbeats of a
  client renew `auth_expire` where it logged in, and the session need not end with
  the 3600 s of its login.
- Connection: the peer ignores CLOSE, and its next ping through the relay makes
  the connection anew at the side that closed it. A relay registration is never
  renewed.
- Connection: connecting has no end at the relay. `tick_conn_relay` tries again
  with back-off and no time-out, so a client whose peer never got the INVITE, whose
  relay refuses it (`P2PClient.cpp:391-395` reports an error and no more), or whose
  peer uses another relay (finding 2) stays "connecting" for ever.
  `ConnectingSettles` therefore ends at the relay.
- Connection: a frame by the direct path makes a client connected with `direct_ok`
  (`P2PClient.cpp:358-362`), after which `send_tunnel_via` prefers an ICE agent to
  that path, although the agent may have found no way; `juice_send` then fails and
  nobody notices (887-889). This, and a relay that connects a client before it has
  answered its registration, are the exceptions in `ConnectedSends`.
- Connection: when both sides dial at once and one request is refused, they may stay
  on the relay although ICE could get through; and a deadline that passes before the
  signalling is done may send one end to the relay. `DirectWhenOpen` is a promise
  for one dialler and signalling in time.
- AntiAbuse: a ban between the snapshot of a save and `reset_dirty` is not saved
  and one whose write failed is not noticed (`unsaved`, the exception to
  `RestartKeepsList` and `ChangesReachFile`). A failing cipher leaves the file empty
  until the next save; `dirty_` is then still set.
- Registry: an older entry replaces a newer one (`upsert_synced` compares nothing),
  and a replica's time-out deletes an entry that is live elsewhere.
- NatDetect: in phase Alt only index 0 counts, which the server sends from the
  main socket to the mapping made for the other one. A symmetric NAT that filters by
  port keeps it out, so the "different ports: symmetric" of `NatDetect.h:9` (and of
  `src/docs/开发指南.md:72`, 130, 1287, 1763, and `NatTypeCheck.h:16`) is never found
  there and such a client reports NAT_UNKNOWN and probes for ever: the theorem
  `NatDetectSymmetricUnseen`, and the exception in `ResultReported`. One that lets
  in any port of an address it knows gets FULL_CONE, as the steps of `NatDetect.h`
  say, and NAT_SYMMETRIC (line 118) only if index 1 was lost in phase Main.
  Answers carry no mark of their probe: after a restart in phase Alt, when the NAT
  already lets the second port in, a port-restricted NAT is taken for FULL_CONE, and
  a late answer of phase Main ends phase Alt with PORT_RESTRICTED. `FirstTryRight` is
  therefore about a first detection without either.
- NatServer: `mark_proxy_stale` takes `available` from a proxy at its first missed
  round, so the penalty and the threshold `down < 2` of `pick_proxy` never apply: the
  theorem `NatServerAvailableIsRecent`. `src/docs/开发指南.md:273` (two probes missed
  in a row), `NatServer.h:41` and the comments at `NatServer.cpp:488` and 519 say
  they do; `src/README.md:418` agrees with the code. It runs
  just after the queries are sent and measures the age of the answers before: a
  proxy that answers within the second is marked every 10 s until its next answer.
- NatServer: `recvfrom` blocks inside a loop that does not look at `running_`, so
  `run` does not get past `rt.join()` at shutdown.

## 4. Proofs

All statements are for every value of the constants, from the `ASSUME`s of the
modules (types of the constants; distinct sentinels) and what is said below.

**Session** (`SessionProofs`), for `NoWrap`: at most half the sequence space is
used, i.e. the first 32768 messages of a session. That hypothesis is needed:
after wrap-around `InOrder` fails (section 3). The invariants are not inductive: that the
frame numbered `expected_seq_` is the next message needs that numbers and
messages correspond in the network, in `ooo_` and in `pending_`. `IInv` says so:
`SenderInv` (`pending_` is the run of the last messages, numbered by themselves),
`ReceiverInv` (`expected_seq_` counts deliveries, `ooo_` holds later messages
under their numbers), `NetInv` (frames carry sent messages under their numbers,
acknowledgements say no more than was delivered) and `AckInv` (what left
`pending_` was delivered, except message 0). From it: `SessionInOrder`,
`SessionOooAhead`, `SessionAckedExceptFirst`, `SessionOooHasRoom` (if the buffer
is as large as the window), and `SessionImplementsFifo`: `send` is the channel's
Send, an in-order delivery is a Deliver of the whole run, all else a stutter.
`SessionFirstLossIsFinal` is the general form of what the run `session_stuck`
exhibits: when message 0 has left `pending_` undelivered and its last copy is gone
(`FirstLost`), that stays so, for every width, window and network, since the
receiver still expects number 0 and nothing that is sent carries it.

**P2PProxy** (`P2PProxyProofs`): `ProxyTypeOK`; `ProxyCapacity` (inductive as it
is; the step counts a replaced and an added uuid); `ProxyTablesAgree` and
`ProxyPathsSymmetric` (inductive given the types; for the first, each action says
which registrations lose or regain their `addr2uuid_` entry).

**Auth** (`AuthProofs`): `AuthInv` adds to the properties that the stored nonce
was not accepted before, that messages carry nonces already issued, and that
acceptances and OK answers go back to a right secret. From it `AuthNonceUsedOnce`
and `AuthAdmittedByLogin`, with any number of losses, duplicates, expiries,
restarts, synced registrations and odd answers. The second tells the two sources of
`authed` apart: a session and the client's belief need a login here, an entry of
`peers_` one here or elsewhere. `AuthHandshakeAlive` and `AuthDeniedForCause` carry
their conditions in the property (`Lossless`, `Undisturbed`), and rest on the fact that a bound once
touched stays touched.
`AuthStrandedForGood` is the other side of `HandshakeAlive`: once `auth_inflight_` is
set and the last message of the handshake is lost (`Stranded`), no heartbeat,
CONNECT, expiry or restart changes the client again, and it gets no session.

**AntiAbuse** (`AntiAbuseProofs`): `AbuseTypeOK`, and `AbuseRestartKeepsList` by
`SaveInv`: memory agrees with the file while `dirty_` is clear, with the snapshot
until it is written and with the file again until `dirty_` is cleared, except on
the keys in `unsaved`.

**Registry** (`RegistryProofs`): `RegistryTypeOK`, which includes that no
increment has more than `SYNC_HOP_MAX` hops, and `RegistryNoneFresher`, inductive
given the types: it speaks of the entries and of the messages together, since
each is copied from the other, and ageing keeps the order of ages.
`RegistryGoneTimesOut` is what makes a stopped client forgotten: once its last
heartbeat is past the time-out, so is every copy, in the servers and under way, for
good, whatever snapshots bring back.
The next is about links that form a tree (`TreeDistance`, which gives the number
of links between two servers; TLC evaluates it for the chain of the run,
`ChainIsTree`): `RegistryHeartbeatReachesAll`, for a tree no wider than `SYNC_HOP_MAX`:
the property speaks only of the end, so `ReachInv` says where the entry is before.
It has reached a server v, or an increment that its receiver has not seen yet is on
its way to v over a link that leads towards v (`Reached`). This is kept when an entry
already seen is dropped, because what x has seen from a neighbour behind it is at v,
or nearer to v than x (`SeenInv`), and kept by the limit of hops, because the hop
of an increment counts its way from the server of the heartbeat (`IncrementsInv`).
`RegistryDeletionsCirculate` is the general form of what the run `registry_mesh`
exhibits: where every server has two links or more, whoever handles a deletion has
somebody to pass it on to, so that one is under way from then on unless the network
loses the last copy, whatever the hop limit and the rest of the links.

**Connection** (`ConnectionProofs`): `ConnectionTypeOK`, `ConnectionNoOrphans` and
`ConnectionSends` by `IInv`. `GoodConn` says of a connection that it is empty
when there is none, that an agent comes with `self`, that a forced relay leaves
neither agent nor direct address, and that connected means `relay_ok`, a direct
address or an agent that has got through; `ConnInv` adds that sessions and
addresses belong to connections, and that a known address comes with `have_direct`
(else a frame from it could report a connection without a path), and that
`direct_ok` means a known address or an agent that has got through; `NetOK` that only
clients with a relay are answered by one. Any number of clients and calls, late
and lost messages and late deadlines.

**NatDetect** (`NatDetectProofs`): `NatDetectTypeOK`; `NatDetectConeNotSymmetric` and
`NatDetectSymmetricUnseen` by `OnePort`, for every NAT but the loose one: the port
kept is always the one the main socket saw, because an answer of that socket that
gets in shows no other, and phase Alt starts with that port known;
`NatDetectFirstTryRight` by `FirstTry`, which says for each phase what can be
under way and, where nothing is filtered, that both answers of the first probe are
counted or still to come. Any number of restarts and faults.

**NatServer** (`NatServerProofs`): `NatServerConnectKept`, by a count of the CONNECTs
in the queue and in the bag of the workers, which receiving, dropping, taking and
answering move together with `request`; and `NatServerAvailableIsRecent`, by the
types of the health table and of the packets. `NatServerTypeOK` and
`NatServerOfferSound` need two facts about data of any size: that the bag of the
workers never has more copies than there are workers, and what the loop of `pick_proxy`
makes of its list. The library's induction theorems cannot be used by the provers
here, so induction over the numbers is proved as a fact about sets (`Induction`: a
set with 0 that is closed under the successor has all numbers, since `<` is
well-founded), and `SumAnyOrder` (the size of a bag does not depend on the order in
which it is counted), `CardinalityIsSum` and `FillKept` (what adding candidates to a
list keeps, hence `AddedFacts` for the draws and for the configured proxies) follow
from it. Any number of workers, proxies, configurations and any queue limit.

The type invariants of all eight component modules are proved; where they do not help to
read a run they are not repeated there. So are all safety properties of the passing
runs. Only model-checked are the liveness properties (TLAPS does not prove
liveness under fairness), and nothing is proved about a session after wrap-around.

## 5. Not modelled

- Connections at a finer grain: the lock `mu_` against libjuice's threads
  (`close_conn` waits for the agent's thread, whose callbacks wait for `mu_`), and
  races on `conns_` outside `mu_`. Every handler of `Connection` is one step, and
  how far `juice_destroy` waits is a matter of the vendored library.
- A third client, whose description an agent could take for its peer's; and
  `Connection` together with `Session`, where a recreated endpoint meets an old one:
  the product is beyond the state spaces TLC finishes here, and what the code does
  is known (section 3).
- LicenseMgr: `load` calls `count` with `mu_` held (`LicenseMgr.cpp:101`, `108`) and
  does not return; there is no behaviour past it to model. Its verdict is an input
  of `Auth` and `NatServer`.
- NatServer: PUNCH and `MSG_ASK_EXTINFO` forwarding (one lookup and one datagram),
  shutdown, counters.

Left out for good: Crypto and codecs (bit-level functions with test vectors),
configuration parsing, the status page, logging, sockets, demo clients, scripts
(I/O and formatting), and the vendored libjuice, of which only the callbacks
matter.
