# TLA+ models of althea_rs (rita)

This directory holds TLA+ models of the rita router daemon in `src/`. TLC checks them.
`PROJECT.json` lists the components, the runs, the mutants and the source lines each definition models.

## 1. The system

Rita runs on every node of an Althea mesh. The parts under `src/` are these.

| Part | Source | State | Operations |
|---|---|---|---|
| TunnelManager (actix actor) | `rita_common/tunnel_manager/mod.rs` | `free_ports: Vec<u16>`, `tunnels: HashMap<Identity, Vec<Tunnel>>`, each tunnel with ip, wg interface, ifidx, port, last_contact, registration and payment state | `PeersToContact`, `IdentityCallback`, `PortCallback`, `TriggerGC`, `TunnelStateChange`, `GetNeighbors` (read only) |
| Relay traffic watcher | `rita_common/traffic_watcher/mod.rs` | none of its own: it reads babel routes and iptables counters | `Watch`, which computes a debt per neighbour and sends `TrafficUpdate` to DebtKeeper |
| Client traffic watcher | `rita_client/traffic_watcher/mod.rs` | last exit counters (`last_read_input/output`) | `Watch`, which charges exit usage; `QueryExitDebts`, which sends `TrafficReplace` |
| Client and exit loops | `rita_client/rita_loop`, `rita_exit/rita_loop` | none | one tick: GC, contacting peers, watching |
| Exit database | `rita_exit/database/database_tools.rs`, `db_client.rs` | the clients table (Postgres), reached through a pool of connections | signup (`get_client`, then `update_client`, or `get_next_client_ip` then the insert), status, delete |
| Exit endpoints | `rita_exit/network_endpoints/mod.rs` | none | HTTP setup and status requests, each its own future on a pooled connection |
| Client wireless dashboard | `rita_client/dashboard/mod.rs`, `wifi.rs` | UCI options, staged and committed | `SetWifiConfig`, `SetWiFiSSID`, `SetWiFiPass`, `set_wifi_ssid`, `set_wifi_pass`, `set_wifi_channel` |
| Client exit dashboard | `rita_client/dashboard/exits.rs` | `SETTING.exit_client` (exits, current_exit) and the config file | `add_exits`, `exits_sync`, `reset_exit`, `select_exit`, register/verify |
| Other dashboards, payment controller, althea_types | the rest | settings files | configuration HTTP handlers, payment glue, type declarations |

The parts interact as follows:

- **Tunnel set-up.** Each round, the loop hands `PeersToContact` to TunnelManager.
  - For each peer, TunnelManager draws a speculative port and sends a hello carrying that port.
  - For the manual hostname, it starts a DNS lookup that holds the port until the lookup completes.
  - A reply, or a hello from the other side, arrives as `IdentityCallback`, and `open_tunnel` then keeps or recreates a tunnel.
  - A failed hello arrives as `PortCallback`, which returns the port to the pool.
- **Babel and the kernel.** Creating a tunnel spawns a babel `monitor` future, and expiring one spawns `unmonitor`. Creating, deleting and shaping interfaces go through `KI` (the kernel interface crate, not under `src/`).
- **Accounting.** DebtKeeper is not under `src/`. It turns watcher output into `TunnelStateChange(identity, action)`. TunnelManager then flips the registration and payment states and re-shapes bandwidth.

The hard behaviours are these:

- hellos, DNS answers and babel futures complete in any order;
- a port is shared between a lookup and the hellos it fans out to;
- nearly every `KI` call can fail, and an early return via `?` then leaves the work half done;
- GC can run while hellos are in flight;
- interface names are reused;
- a panic (the port pool is empty, or no wg name is free) stops the process.

## 2. What is modelled

### TunnelManager.tla (status: modelled)

**Variables.**

| Variable | What it represents |
|---|---|
| `free_ports` | A **bag** of ports, because the Vec can hold duplicates. |
| `tunnels` | `Identity -> Seq(Tunnel)`. A tunnel record keeps `ip, ifidx, port, iface, reg, pay`, plus a `stale` flag that stands for `last_contact` being older than the GC timeout. |
| `kernel` | For each wg interface: up, the bound port and the qdisc. The qdisc is 0 for codel, or a classless limit. |
| `monitored` | The interfaces babel currently monitors. |
| `babel_cmds` | The monitor/unmonitor futures still pending, per interface. |
| `hellos`, `dns` | Requests in flight that hold a port. |
| `halted` | The process has panicked. |

**Actions.** Each actor handler is one atomic action, as the actix mailbox guarantees. Each action models the whole handler.

| Action | Code |
|---|---|
| `PeersToContact` | The loop over the discovered peers, in any HashMap order. If `is_gateway`, it then does the manual hostname. Each `get_port` draw can succeed, panic, or lose the port when `used_ports()` fails. |
| `IdentityCallback` | A peer's hello: `get_port`, then `open_tunnel`. |
| `HelloAnswered` | Our hello is answered: `open_tunnel` with the port the hello carried. |
| `PortCallback` | A failed hello returns its port. |
| `DnsResolved` | The resolver future completes. On an error it returns the port. On an answer it sends one hello per address, all with the same port. An empty answer, or a node that is no longer a gateway, does nothing. |
| `TriggerGC` | Storage keeps the fresh tunnels. Then, for each timed-out tunnel, it spawns unmonitor, calls `del_interface` and pushes the port. A failing `del_interface` ends the loop at any point. |
| `TunnelStateChange` | A batch of at most one change per identity, in any order. Each change goes through `tunnel_state_change` and, when a payment state moved, through `tunnel_bw_limit_update`. |
| `BabelComplete` | A spawned babel future completes, or fails if `BabelFaults`. |
| `Expire` | Time passes for one tunnel. |

The following are environment choices made inside the actions, not separate steps:

- the result of every `KI` call (`Ok`, or `Err` when `KernelFaults`);
- the neighbour's `have_tunnel` answer (`Some(true)`, `Some(false)` or `None`);
- the DNS answer;
- the gateway flag.

`setup_wg_if` is modelled as creating the lowest free wg name. This is taken from the spec, because the kernel interface crate is not under `src/`.

### TunnelManager properties and runs

| Run | Expect | Property | What it shows |
|---|---|---|---|
| tm_lifecycle | pass | `TypeOK`, `NoPortDoubleBooked`, `StorageMatchesKernel` | Under every KI failure, no port is claimed twice (pool copies, stored tunnels and in-flight requests). Every stored tunnel has a live interface bound to its port, with no interface shared. These hold across hellos racing peer hellos, re-creation, GC with a failing delete, and babel ordering. Neighbour A is heard from two addresses on one interface (`MC_Links2`), so A can hold two tunnels on ifidx 1 and the they-don't path can delete the other address's tunnel (mod.rs:733); ports and interfaces stay consistent even so. 474,894 distinct states, about 100 s. |
| tm_shaping | pass | `ShapingMatchesPayment`, `WgNamesOwned`, `ImplementsPortPool`, `PortsSettle` | With a kernel that never fails and no manual peer, every Overdue tunnel is limited, no Paid tunnel is, and the limits sum to at most the free tier. This holds across batches of state changes, GC and re-created tunnels, with babel futures failing and reordered. In the same run, TunnelManager refines the abstract `PortPool` (below). Under the fairness described below, every port keeps coming back to the pool or to a tunnel. Every wg interface that is up belongs to a stored tunnel (`WgNamesOwned`), so no orphan uses up the names that `setup_wg_if().unwrap()` draws from. With kernel faults on, a failed `Tunnel::open` breaks this in three steps. |
| tm_port_leak | violation | `PortsConserved` (spec P2, union) | An empty DNS answer, or a node that stopped being a gateway, loses the port (mod.rs:618). |
| tm_fanout | violation | `PoolDisjointFromTunnels` (spec P2, disjoint) | A hostname resolving to two addresses sends one port in two hellos. The failed hello pushes back the port a tunnel listens on (mod.rs:613). |
| tm_babel_stale | violation | `BabelMatchesRegistration` (spec I5) | The we-have/they-don't path deletes an interface without `unmonitor` (mod.rs:746). |

Each property of a passing run has a mutant in `PROJECT.json`, a plausible bug that TLC catches:

- `GetPort` without the empty-pool panic;
- `del_tunnel` that retains everything;
- GC replacing storage only after the delete loop;
- a bandwidth update that never restores codel;
- a `PortCallback` that drops the port instead of pushing it (breaks both port-pool properties);
- GC that removes timed-out tunnels from storage without deleting their interfaces (breaks `WgNamesOwned`).

**Spec P1 is not checked.** With a second address on one interface, `open_tunnel` reuses a tunnel only when both ip and ifidx match (mod.rs:672), so a neighbour gets two tunnels on one ifidx. The code means this: mod.rs:604-605 creates tunnels to every address of a neighbour. Spec P1's unique (identity, ifidx) therefore does not describe the code, and no property states it.

**Shaping under tc failures is not checked.** A failing `has_limit` or `set_*` call ends `tunnel_bw_limit_update` part way (mod.rs:941-950), which spec 7 allows (errors are surfaced, not retried). The next payment transition re-runs the update over all tunnels (909-910), but nothing forces one, so no property is stated for that case.

### PortPool.tla: the abstract port pool, and the refinement

`PortPool` states what `free_ports` promises, from spec section 3 and P2. Every port of the range is in exactly one of three places: `pool`, `inflight` (held by a hello or a hostname lookup) or `bound` (a live tunnel's port). One step of the abstract pool may move several ports at once: a port enters flight only from the pool, is bound from the pool or from flight, and returns from flight or from a tunnel. A panic stops it (`stopped`).

`TunnelManager` is mapped onto it in `TunnelManager.tla`:

```
Pool == INSTANCE PortPool WITH pool <- BagToSet(free_ports), inflight <- InFlightPorts,
                               bound <- BoundPorts, stopped <- halted
```

`ImplementsPortPool` is `Pool!SafetySpec` checked as a property. It fails exactly where the code loses or duplicates a port, which is why the violation runs `tm_port_leak` and `tm_fanout` use the concrete properties `PortsConserved` and `PoolDisjointFromTunnels` instead. In `tm_shaping`, with no manual peer, neither bug can fire and the refinement holds.

### TunnelManager bounds

`MC_TunnelManager.tla` sets the following bounds:

- 2 identities;
- 2 links on distinct interfaces, and one hostname; `tm_lifecycle` adds a second address of A on A's interface;
- 2 or 3 ports;
- 2 wg names;
- a free tier of 6;
- `MaxInFlight`: a new round starts only while fewer than this many hellos or lookups are outstanding. Lifecycle uses 1 and the violation runs use 2.

Two names and three ports are the least that allow all of the following:

- a tunnel and an orphan interface together;
- a reused name after GC;
- a pool that is non-empty while a port is in use elsewhere;
- the panic paths.

Two identities are needed for batches whose order matters and for shares of the free tier.

**Deadlock.** The TunnelManager runs set `CHECK_DEADLOCK FALSE`. The only states with no successor are `halted` ones, and those are real panics of the code. The `tw_*` and `ctw_billing` runs check for deadlock. In those models a `Watch` or a `TrafficUpdate` is always enabled, so they pass. `edb_signup` sets `CHECK_DEADLOCK FALSE` because a failed `ListClients` panics the exit, and that state has no successor. `edb_ip_race` checks for deadlock: it has no faults, and `ExitTick` is always enabled.

**Fairness.** Only `PortsSettle` in `tm_shaping` needs fairness. `FairSpec` adds weak fairness on the completion of each hello (`PortCallback` or `HelloAnswered`) and of each DNS lookup (`DnsResolved`). The code justifies this: a hello is sent with a 4 s timeout and the resolver with a 1 s timeout. Either way the future completes and sends its message to the actor, whose mailbox is served in order. Without this fairness, `PortsSettle` is violated by a hello that never completes. No fairness is assumed on the loop, babel or the kernel.

### TrafficWatcher.tla (status: modelled)

This is the relay watcher in `rita_common/traffic_watcher/mod.rs`.

**Variables.**

| Variable | What it represents |
|---|---|
| `ctr` | The kernel's iptables counters since they were last read, per table (Input, ForwardInput, Output, ForwardOutput) and per `(destination, wg interface)` key. |
| `sent`, `accounted` | History variables. `sent` counts the bytes that crossed a key. `accounted` counts the bytes a completed `watch()` put into a TrafficUpdate. |
| `mailbox`, `balance` | The TrafficUpdates waiting for DebtKeeper, and DebtKeeper's running balance for each neighbour. |

**Actions.**

| Action | Code |
|---|---|
| `Watch` | The whole `watch()`. |
| `Traffic` | The kernel counts a packet. This is an environment action. |
| `TrafficUpdate` | DebtKeeper adds each amount to the neighbour's balance. This is modelled from the spec. |

`Watch` takes these inputs: a set of live neighbours (`prepare_helper_maps`), a babel route table with prices and missing routes (`get_babel_info`, which caps a price at `max_fee`, adds `local_fee` and prices our own address at 0), and the point at which a read fails. The four counter reads happen in the code's order. A read resets its table; this read-and-reset behaviour of `KI.read_counters` is modelled from the spec. A failing read returns through `?` with the tables already read zeroed. The debit and credit loops are a `FoldSet` over the input entries and then over the output entries.

| Run | Expect | Property | What it shows |
|---|---|---|---|
| tw_accounting | pass | `TypeOK`, `BalanceMatchesP4` | Reads can fail. DebtKeeper's balance of every neighbour equals the sum of spec P4's charges of the rounds it handled. The reference (`P4Charge`) is written from the spec, not from the code: it prices each destination from the round's raw route table with `CappedPrice` (min with `max_fee`), adds `local_fee`, prices our own address at 0, and sums with `MapThenSumSet` over the keys of the round's live neighbours. The code's side is `get_babel_info`, the two `FoldSet` loops of `watch()` and DebtKeeper's additive handler. This covers prices above `max_fee`, unrouted destinations, interfaces with no live neighbour, our own address and failed rounds. 84,180 distinct states. |
| tw_read_fault | violation | `BytesAccounted` (spec 7) | `get_input_counters` reads and resets the input tables, then `get_output_counters` fails and `?` ends the round: the input bytes are never billed, and the round cannot be retried (mod.rs:254-255). The code logs "traffic has gone unaccounted!"; spec 7 says every round is independently retriable. 3 states. |

The mutants are:

- reads that never reset (breaks `TypeOK`);
- `get_babel_info` without the `max_fee` cap (breaks `BalanceMatchesP4`).

Bounds:

- 2 neighbours, each with one interface;
- 2 destinations, one of which is our own address;
- 2 route prices, one of them above `max_fee`;
- 3 counter keys;
- at most 2 bytes per key;
- 1 pending update.

### ClientTrafficWatcher.tla (status: modelled)

This is the client watcher in `rita_client/traffic_watcher/mod.rs`.

**Counters and cursors.**

- `wg` holds the `wg_exit` counters since the tunnel was created.
- `Recreate` sets them back to 0. The kernel and the exit manager are environment.
- `last_read` holds the cursors.
- `Watch` follows lines 242-252. Both cursors are zeroed when either counter is below its cursor. Then `input`/`output` are computed as `counter - cursor`, and the cursors move to the counters.
- `Width` is the width of the u64 counters, scaled down, and arithmetic is taken `% 2^Width`.
- `used` and `billed` are history variables. They record the bytes that crossed the tunnel and the bytes `Watch` charged.

**The exit's figure.**

- `QueryExitDebts` spawns a request (lines 98-176).
- `ExitAnswers` delivers the exit's figure at that moment, or drops the request on a connection error, the timeout or a parse failure.
- `ReplyArrives` sends `TrafficReplace` for a non-negative figure. The replace overwrites `ledger`, which stands for DebtKeeper's exit balance.

| Run | Expect | Property | What it shows |
|---|---|---|---|
| ctw_billing | pass | `TypeOK`, `NeverOverbilled` | Watches can fail and tunnels can be recreated in any order; the counters themselves stay below `U64` (`ASSUME MaxBytes < U64`), and it is the cursor subtraction `SubU64` that would wrap. Even so, the client never bills more bytes than crossed the tunnel. The reset rule can only under-bill, for example when a recreated counter has already passed its cursor again. Deadlock is checked, and no deadlock is found. |

The mutant drops the regression check, so the u64 subtraction wraps. It violates both properties.

The model also reaches two queries in flight where the answer to the older one arrives last and overwrites the newer figure (mod.rs:146). Spec 4.5 makes the exit's figure authoritative without saying which answer wins, so no property states an order; `PROJECT.json` lists this as a hazard.

### ExitDatabase.tla (status: modelled)

This is the exit's client registration: `rita_exit/database/database_tools.rs`, the setup and status endpoints of `rita_exit/network_endpoints/mod.rs`, and the exit loop's tick in `rita_exit/rita_loop/mod.rs`. Each HTTP request is its own future, and each database query is one atomic step, so the queries of different requests interleave. The connection pool is the counter `free`.

**Variables.**

| Variable | What it represents |
|---|---|
| `records` | The clients table, as `[mesh, wg, eth, ip]` rows keyed by `mesh_ip`. |
| `pc`, `kind`, `client` | Each request's position, whether it is a setup or a status request, and the identity it decrypted. |
| `tries` | The 100 ms retries a request has spent waiting for a connection. |
| `free` | Idle pooled connections. |
| `seen`, `chosen` | History: the internal ips `get_next_client_ip` loaded, and the one it returned. |
| `wgconf` | The wg peers `set_exit_wg_config` last configured. |
| `halted` | A failed `ListClients` in the exit loop panicked. |

**Actions.**

| Action | Code |
|---|---|
| `Receive` | Decryption and the source-address check of the endpoints. Either can deny the request. |
| `GetDatabaseConnection` | `try_get`. It either takes a connection, retries after 100 ms, or times out after `MaxRetries`. |
| `ClientStatus` | The status query. |
| `GetClient` | The rows matching mesh_ip, wg key and eth address. One match goes to `UpdateClient`, none to `NextClientIp`. |
| `UpdateClient` | The field updates. No modelled state depends on them. |
| `NextClientIp` | Load every row, then run `get_next_client_ip`'s loop (`NextFreeFrom`, a RECURSIVE operator). The loop steps over taken addresses, and over the gateway's address right after an increment. |
| `Insert` | The insert. It is refused on a duplicate `mesh_ip`, on a fault, and on a taken ip if `IpUnique`. |
| `DeleteClient` | Removes a row. |
| `ExitTick` | `ListClients`, then the wg config built from every row. |

Every query can fail when `DbFaults` holds. A failure ends the request and gives its connection back.

| Run | Expect | Property | What it shows |
|---|---|---|---|
| edb_signup | pass | `TypeOK`, `NextIpIsLowestFree` | Three requests share one connection, under failing queries, pool timeouts, deletes and status requests. The connection count stays right: `TypeOK` ties `free` to the requests holding one. Every address handed out equals the reference `LowestFreeIp` (the lowest free non-gateway address) for the rows loaded. With one connection the signups are serialised, so distinct internal ips follow from this; the race between two connections is `edb_ip_race`. |
| edb_ip_race | violation | `WgConfigIpsDistinct` | Two first signups on two connections both load the table before either inserts. Both get the same address, and the exit loop configures two wg peers with one allowed ip (database_tools.rs:365). Only a unique constraint on `internal_ip` would stop this, and the schema is not in this repository. |

The mutants are:

- the netmask bound checked one address late;
- the gateway's address not stepped over.

**Bounds.** Addresses 1..3 with the gateway at 2 leave two usable addresses, so the out-of-addresses error is reachable with two rows. Three identities include two that share a `mesh_ip` under different keys, so `get_client` misses while the insert hits the key. One connection with one retry reaches both the retry and the timeout.

### ExitSelection.tla (status: the client loop and the exits dashboard, partly)

This module models the exit handlers of `rita_client/dashboard/exits.rs` and the client loop of `rita_client/rita_loop/mod.rs`. The two meet in the settings: the dashboard writes the exit list and the selection, and the loop's futures read the selection.

**Variables.**

| Variable | What it represents |
|---|---|
| `exits`, `current` | The exit list and the selection in `SETTING`. For each nickname, it is `Absent` or its `ExitState`. |
| `disk` | The config file. `Restart` reloads memory from it. |
| `syncing` | An `exits_sync` fetch is in flight. |
| `wg_exit`, `neighbours` | The exit tunnel exists, and which exits TunnelManager has as neighbours (environment). |
| `probe`, `answer` | The corner-case future: idle, asked, or answered together with the neighbour set it got. |
| `tunnels_req` | The `GetTunnels` future is in flight. |
| `gateway` | The last `WeAreGatewayClient` value sent. |
| `halted` | An `unwrap` on a timed-out answer panicked. |

**Actions.**

- Each dashboard handler is one atomic step under the settings lock: `AddExits`, `ResetExit`, `SelectExit` and `ExitSetupRequest`.
  - A write of the config file can fail (`WriteFaults`).
  - `KI.del_interface` can fail (`KernelFaults`); the failure is only logged.
- `exits_sync` is two steps, because the fetch lets every other step run in between: `ExitsSyncStart`, and `ExitsSyncDone`, which merges and saves.
- `ClientTick` spawns the two futures. A future still in flight has had its 4 s timeout, which is less than the 5 s period, so a tick waits for both to end.
- `NeighboursAnswered` is TunnelManager's `GetNeighbors`. `GatewayCheck` is the resumed corner case: it reads `current` only then.
- `TunnelsAnswered` is the `GetTunnels` future: an `unwrap` of an answer or a panic.
- Environment actions: `SetupExitTunnel` (ExitManager, not under `src/`), `NeighbourChange`, `SaveLoop` (the settings crate's periodic save) and `Restart`.

**Runs.**

| Run | Expect | Property | What it shows |
|---|---|---|---|
| es_gateway | pass | `TypeOK`, `GatewayFlagSettles` | The corner case answers from a stale neighbour set and for an exit read later than its request. Even so, once the selection, the exit states and the neighbours stop changing and the process stops restarting, the flag ends up, for good, equal to whether the Registered selected exit is a neighbour, unless a timeout panicked. |

The mutants are:

- `GatewayValueOnlyTrue`, which drops the `false` send after the loop, so a stale `true` is never withdrawn;
- `SaveSelectionOnly`, which writes only the selection rather than the whole settings.

**Fairness.** `FairSpec` puts weak fairness on `ClientTick` (`run_interval`), and on the completion of each future. The 4 s timeout ends every future, answered or not. The dashboard and the environment get no fairness. `GatewayFlagSettles` is stated under `InputsSettle` (eventually no restart and no change to the exits, the selection or the neighbours), since an environment that keeps switching can keep any flag stale.

**Bounds.** There are two nicknames: one to switch away from and one to switch to. `States` is `{New, Registered}`, because only Registered is told apart by any step modelled. A posted exit carries `New`. All three fault switches are on. The run reaches 272,000 distinct states in about 20 s. The handler of `WeAreGatewayClient` is not in this repository, so the flag is checked as sent.

### ClientDashboard.tla (status: the wireless handlers of the client dashboard)

This module models the wireless handlers of `rita_client/dashboard/mod.rs` (the Dashboard actor's `SetWifiConfig`, `SetWiFiSSID`, `SetWiFiPass`) and of `rita_client/dashboard/wifi.rs` (`set_wifi_ssid`, `set_wifi_pass`, `set_wifi_channel`).

**UCI.**
- `committed` is the config files: each option of the radio's wifi-iface section, the device's channel, and the `network.rita_wlanN` section a mesh interface needs.
- `staged` holds what `uci set` has staged and no commit has written yet. `get_uci_var` reads the staged value over the committed one.
- `listening` is the set of interfaces PeerListener listens on.
- The KI crate is not under `src/`. `set_uci_var`, `uci_commit` and `get_uci_var` are modelled by what `uci` does: staging, committing a config (or every config), and reading.

**Handlers.**
- A handler is the sequence of its KI calls, as records: `Set`, `Commit`, `Call("reset")`, `Call("sync")`, `Listen`, `UnListen`.
- `Exec` (RECURSIVE) applies them in order.
- Every KI call returns a `Result` used with `?`. So under `UciFaults` a handler may stop before any fallible call (`Stops`), keeping what it staged so far.
- `set_wifi_channel` reads the current channel and validates the request with `ValidateChannel`, one conjunct per `else if` of `validate_channel`. No property depends on its channel tables; it is there so that the channel handler's guard is the code's.
- A request refused by validation changes nothing, so it is a stuttering step.

| Run | Expect | Property | What it shows |
|---|---|---|---|
| dash_open_ap | violation | `LanApEncrypted` | `SetWifiConfig`'s mesh branch stages `ssid AltheaMesh` and `encryption none`, then `set_uci_var(mode adhoc)` fails. The next handler that commits writes `encryption none` into a section still in `ap` mode on `lan`: an open access point bridged to the LAN (mod.rs:158). The trace has three states. |

The message `SetWifiConfig` is private to `dashboard/mod.rs`. It is sent from its `network_endpoints` submodule, which is not in this repository. `mod.rs` calls `uci_commit()` and `wifi.rs` calls `uci_commit("wireless")`; each is modelled as its call site states.

**Bounds.** There is one radio, since each handler touches one section. It is a 5 GHz radio at VHT80 on a gl-b1300, with channels 36 (allowed), 52 (allowed only off a gl-b1300) and 100.

### Not modelled here, and why

- `GetNeighbors` only reads.
- The PortCallback message that follows a DNS error is folded into the resolver's completion. Its handler only pushes the port.
- Logging and the exact wg names and strings are left out.
- The crate tests are not modelled.
- `update_usage` (relay) and the local exit-price estimate (client) are not modelled. They only feed the usage tracker, and no balance depends on them.
- So the u64 product `exit_price * output` (client line 287) is left out too.
- `truncate_db_tables` is for development only. `client_conflict` and the debt queries of the exit database are not modelled either: nothing in the modelled handlers calls them.
- The client loop's `send_udp_heartbeat` (a DNS lookup and one UDP datagram, with `expect()` on each step) changes no state.
- The read-only dashboard handlers (`GetWifiConfig`, `get_wifi_config`, `GetInterfaces` with `ethernet2mode`/`wlan2mode`, `GetNodeInfo`, `GetExitInfo`, `get_allowed_wifi_channels`) change no state. The common dashboard's getters and `release_feed.rs` write at most one option in one call.
- `ExitSelection` and `ClientTrafficWatcher` share `wg_exit` but are checked apart. Their product exceeds 10^9 states even at the smallest bounds that fire every action, and neither property depends on the other module's variables.
- A change that `add_exits` or `reset_exit` answers 200 OK is not written to the config file. A restart before the periodic save loses it, and `ExitSelection` reaches that. No property states durability, because the periodic save closes the window and the user sees the old list.
- The exit's other endpoints (`get_exit_info`, `rtt`, the list endpoints) only read.

## 3. Plan for the remaining sittings

Done so far:

- TunnelManager;
- the abstract `PortPool`, with TunnelManager shown to refine it, and port liveness under the hello and DNS timeouts;
- the relay TrafficWatcher, checked against P4;
- the client TrafficWatcher;
- the exit database with its endpoints and the exit loop's tick;
- the client's exit selection (the exits dashboard and the client loop);
- the client dashboard's wireless handlers over UCI staging and commits.

Still to do:

1. **DebtKeeper.tla** (from the spec; it is not under `src/`). Balances, and the overdue/paid hysteresis that emits TunnelStateChange.
   - An abstract **Ledger** spec, with DebtKeeper shown to refine it via INSTANCE ... WITH.
2. **AccountingRound.tla.** Composes TrafficWatcher → DebtKeeper → TunnelManager's `TunnelStateChange`.
   - Liveness under the loop's weak fairness: an overdue neighbour is eventually limited, and a repaid one eventually unlimited, without kernel faults.
   - A re-created tunnel resetting to Paid is the stale-state hazard to check here.
3. **Larger instances.** Three ports for the refinement run, and three requests on two connections for the exit database.
