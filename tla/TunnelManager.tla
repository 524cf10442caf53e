--------------------------- MODULE TunnelManager ---------------------------
(***************************************************************************)
(* The TunnelManager actor of rita_common/tunnel_manager/mod.rs together   *)
(* with the parts of its world it changes: the kernel's wg interfaces     *)
(* (KI), the set of interfaces babel monitors, the hellos and DNS lookups  *)
(* in flight that hold a speculative port.                                 *)
(*                                                                         *)
(* The actor handles one message at a time, so every handler is one        *)
(* atomic action.  Futures spawned on the Arbiter (hello requests, DNS,    *)
(* babel monitor/unmonitor) complete later, in any order, as actions of   *)
(* their own.                                                              *)
(***************************************************************************)
EXTENDS Naturals, FiniteSets, Sequences, SequencesExt, Bags, BagsExt

CONSTANTS
    Ids,            \* neighbour identities (althea_types::Identity)
    Links,          \* <<ip, ifidx>> a neighbour is heard on (peer_listener::Peer)
    ManualIps,      \* addresses a manual peer hostname can resolve to (ifidx 0)
    IdOf,           \* [ip -> Identity]: who answers at an address
    Ports,          \* free_ports = (wg_start_port..65535)
    ExternalPorts,  \* UDP ports held by other programs (KI.used_ports())
    NumIfaces,      \* wg0 .. wg(NumIfaces-1)
    FreeTier,       \* payment.free_tier_throughput
    KernelFaults,   \* may a KI call return Err?
    BabelFaults,    \* may a spawned monitor/unmonitor future fail?
    BabelInOrder,   \* do babel commands on one interface complete in order?
    Actions,        \* TunnelAction values DebtKeeper / exit code may send
    MaxInFlight,    \* bound on hellos and DNS lookups outstanding at once
    NoPort          \* sentinel: interface not bound to a port

Ifaces == 0 .. NumIfaces - 1
Ips == {l[1] : l \in Links} \cup ManualIps
Ifidxs == {l[2] : l \in Links} \cup {0}
Rates == 1 .. FreeTier
Unlimited == 0      \* the codel qdisc: KI.has_limit() is false

ASSUME /\ Ips \subseteq DOMAIN IdOf /\ \A ip \in Ips : IdOf[ip] \in Ids
       /\ ExternalPorts \subseteq Ports
       /\ Actions \subseteq {"MembershipConfirmed", "MembershipExpired",
                             "PaidOnTime", "PaymentOverdue"}

VARIABLES
    free_ports,     \* TunnelManager.free_ports: a Vec, so a bag of ports
    tunnels,        \* TunnelManager.tunnels: Identity -> Vec<Tunnel>
    kernel,         \* wg interfaces: up, bound listen port, qdisc
    monitored,      \* interfaces babel currently monitors
    babel_cmds,     \* monitor/unmonitor futures pending, per interface
    hellos,         \* Hello requests in flight holding a speculative port
    dns,            \* hostname lookups in flight holding a speculative port
    halted          \* the process panicked

vars == <<free_ports, tunnels, kernel, monitored, babel_cmds, hellos, dns, halted>>

Tunnel == [ip : Ips, ifidx : Ifidxs, port : Ports, iface : Ifaces,
           reg : {"Registered", "NotRegistered"}, pay : {"Paid", "Overdue"},
           stale : BOOLEAN]
KIface == [up : BOOLEAN, port : Ports \cup {NoPort}, qdisc : {Unlimited} \cup Rates]
KAbsent == [up |-> FALSE, port |-> NoPort, qdisc |-> Unlimited]
Hello == [ip : Ips, ifidx : Ifidxs, port : Ports]
BabelOps == {"monitor", "unmonitor"}

(* Every tunnel in a storage map tm. *)
AllTunnels(tm) == UNION {Range(tm[id]) : id \in Ids}

(* Ports the OS reports as used: other programs' and those bound by wg. *)
OsUsed(kn) == ExternalPorts \cup {kn[i].port : i \in {j \in Ifaces : kn[j].port # NoPort}}

(* The ways a Result of a KI call can come back. *)
KiResults == IF KernelFaults THEN {"Ok", "Err"} ELSE {"Ok"}

(* Mutant of GetPort: an empty pool yields a port value (a default of 0)  *)
(* instead of the gen_range panic.                                         *)
GetPortNoEmptyCheck(pool) ==
    IF BagToSet(pool) = {} THEN {[res |-> "some", port |-> NoPort]}
    ELSE {[res |-> "some", port |-> p] : p \in BagToSet(pool) \ OsUsed(kernel)}
         \cup {[res |-> "panic", port |-> NoPort] : p \in BagToSet(pool) \cap OsUsed(kernel)}
         \cup {[res |-> "lost", port |-> p] : p \in IF KernelFaults THEN BagToSet(pool) ELSE {}}

(***************************************************************************)
(* get_port(0): draw a random element of free_ports; if KI.used_ports()    *)
(* lists it, push it back and draw again, panicking at level 10; if        *)
(* used_ports() fails the drawn port is dropped and None returned.         *)
(* gen_range(0, 0) panics on an empty pool.  Eleven unlucky draws are      *)
(* possible whenever some pooled port is in use.                           *)
(***************************************************************************)
GetPort(pool) ==
    IF BagToSet(pool) = {} THEN {[res |-> "panic", port |-> NoPort]}
    ELSE {[res |-> "some", port |-> p] : p \in BagToSet(pool) \ OsUsed(kernel)}
         \cup {[res |-> "panic", port |-> NoPort] : p \in BagToSet(pool) \cap OsUsed(kernel)}
         \cup {[res |-> "lost", port |-> p] : p \in IF KernelFaults THEN BagToSet(pool) ELSE {}}

(* Adding a babel command for each interface in S (Arbiter::spawn). *)
Spawn(cmds, S, op) ==
    [i \in Ifaces |-> IF i \notin S THEN cmds[i]
                      ELSE IF BabelInOrder THEN {op} ELSE cmds[i] \cup {op}]

(* have_tunnel_by_ifidx(..) && have_tunnel_by_ip(..): two separate scans. *)
WeHaveTunnel(ts, ip, ifidx) ==
    /\ \E k \in DOMAIN ts : ts[k].ifidx = ifidx
    /\ \E k \in DOMAIN ts : ts[k].ip = ip

(* The last_contact bump of every tunnel matching both ip and ifidx. *)
Bump(ts, ip, ifidx) ==
    [k \in DOMAIN ts |-> IF ts[k].ifidx = ifidx /\ ts[k].ip = ip
                         THEN [ts[k] EXCEPT !.stale = FALSE] ELSE ts[k]]

(* get_tunnel_by_ifidx: the first tunnel of the list on that ifidx. *)
GetTunnelByIfidx(ts, ifidx) == ts[SelectInSeq(ts, LAMBDA t : t.ifidx = ifidx)]

(* Mutant of DelTunnel: the retain is dropped. *)
DelTunnelKeep(t, ts) == ts

(* del_tunnel: retain every tunnel not equal to the deleted one. *)
DelTunnel(t, ts) == SelectSeq(ts, LAMBDA x : x # t)

Panic ==
    /\ halted' = TRUE
    /\ UNCHANGED <<free_ports, tunnels, kernel, monitored, babel_cmds, hellos, dns>>

(***************************************************************************)
(* The creating tail of open_tunnel, from storage tm, pool pl and kernel   *)
(* kn: KI.setup_wg_if() makes the lowest free wg# (unwrap panics when     *)
(* none is left), Tunnel::open binds the port and sets codel; on Err the   *)
(* handler returns early, leaving the blank interface and the port.  On    *)
(* success the tunnel is monitored and pushed into storage.                *)
(***************************************************************************)
CreateTunnel(id, ip, ifidx, port, tm, pl, kn) ==
    LET names == {i \in Ifaces : ~kn[i].up}
        i == CHOOSE j \in names : \A n \in names : j <= n
        t == [ip |-> ip, ifidx |-> ifidx, port |-> port, iface |-> i,
              reg |-> "Registered", pay |-> "Paid", stale |-> FALSE]
    IN \/ /\ names = {}
          /\ halted' = TRUE
          /\ tunnels' = tm /\ free_ports' = pl /\ kernel' = kn
          /\ UNCHANGED babel_cmds
       \/ /\ names # {}
          /\ \E open \in KiResults, shape \in KiResults :
               LET bound == open = "Ok" /\ port \notin OsUsed(kn) IN
               /\ kernel' = [kn EXCEPT ![i] = [up |-> TRUE, qdisc |-> Unlimited,
                                               port |-> IF bound THEN port ELSE NoPort]]
               /\ free_ports' = pl
               /\ IF bound /\ shape = "Ok"
                  THEN /\ tunnels' = [tm EXCEPT ![id] = Append(@, t)]
                       /\ babel_cmds' = Spawn(babel_cmds, {i}, "monitor")
                  ELSE tunnels' = tm /\ UNCHANGED babel_cmds
          /\ UNCHANGED halted

(***************************************************************************)
(* open_tunnel(their_localid, peer, our_port) on the pool pl left by the   *)
(* caller.  have is their_localid.have_tunnel; None is taken as true.     *)
(***************************************************************************)
OpenTunnel(id, ip, ifidx, have, port, pl) ==
    LET ts == tunnels[id]
        bumped == [tunnels EXCEPT ![id] = Bump(ts, ip, ifidx)]
        old == GetTunnelByIfidx(bumped[id], ifidx)
    IN IF ~WeHaveTunnel(ts, ip, ifidx)
       THEN CreateTunnel(id, ip, ifidx, port, tunnels, pl, kernel)
       ELSE IF have # "Some(false)"
       THEN /\ tunnels' = bumped
            /\ free_ports' = BagAdd(pl, port)
            /\ UNCHANGED <<kernel, babel_cmds, halted>>
       ELSE \E del \in KiResults :
              CreateTunnel(id, ip, ifidx, port,
                           [bumped EXCEPT ![id] = DelTunnel(old, @)],
                           BagAdd(pl, old.port),
                           IF del = "Ok" THEN [kernel EXCEPT ![old.iface] = KAbsent]
                                         ELSE kernel)

-----------------------------------------------------------------------------
(***************************************************************************)
(* Handlers and completions.                                               *)
(***************************************************************************)

(* contact_neighbor over a set of peers with one port: the hellos sent.   *)
(* KI.manual_peers_route may fail, which returns Err with the speculative  *)
(* port neither sent nor returned.                                         *)
Contacted(peers, port) ==
    {{[ip |-> l[1], ifidx |-> l[2], port |-> port] : l \in sent} :
        sent \in {s \in SUBSET peers : s = peers \/ KernelFaults}}

(* The manual peer hostname, a target of neighbor_inquiry_hostname. *)
Hostname == "hostname"

(***************************************************************************)
(* neighbor_inquiry(peer) or neighbor_inquiry_hostname on the part of the  *)
(* manager st = [pool, hellos, dns, halted] they touch: the outcomes.      *)
(* get_port None returns Err after the port is dropped; the hostname path  *)
(* keeps the port for the spawned resolver.                                *)
(***************************************************************************)
Inquire(target, st) ==
    IF st.halted THEN {st}
    ELSE UNION {
      IF r.res = "panic" THEN {[st EXCEPT !.halted = TRUE]}
      ELSE LET st2 == [st EXCEPT !.pool = BagRemove(st.pool, r.port)] IN
           IF r.res = "lost" THEN {st2}
           ELSE IF target = Hostname THEN {[st2 EXCEPT !.dns = @ \cup {r.port}]}
           ELSE {[st2 EXCEPT !.hellos = @ \cup hs] : hs \in Contacted({target}, r.port)}
      : r \in GetPort(st.pool)}

(* The PeersToContact loop, in HashMap order, over a set of outcomes. *)
RECURSIVE InquireAll(_, _)
InquireAll(todo, sts) ==
    IF todo = <<>> THEN sts
    ELSE InquireAll(Tail(todo), UNION {Inquire(Head(todo), st) : st \in sts})

(***************************************************************************)
(* PeersToContact: neighbor_inquiry for every peer PeerListener heard (a   *)
(* map keyed by address, so distinct addresses in any order), then, when   *)
(* is_gateway, the manual peer hostname.  A panic ends the process.        *)
(***************************************************************************)
PeersToContact ==
    /\ Cardinality(hellos) + Cardinality(dns) < MaxInFlight
    /\ \E order \in SetToAllKPermutations(Links), is_gateway \in BOOLEAN :
       LET peers == IF is_gateway /\ ManualIps # {} THEN order \o <<Hostname>> ELSE order
           st0 == [pool |-> free_ports, hellos |-> hellos, dns |-> dns, halted |-> FALSE]
       IN /\ \A j, k \in DOMAIN order : j # k => order[j][1] # order[k][1]
          /\ peers # <<>>
          /\ \E st \in InquireAll(peers, {st0}) :
               /\ free_ports' = st.pool
               /\ hellos' = st.hellos
               /\ dns' = st.dns
               /\ halted' = st.halted
    /\ UNCHANGED <<tunnels, kernel, monitored, babel_cmds>>

(* The resolver future completes: on error a PortCallback returns the     *)
(* port; on success every resolved address is contacted with the SAME    *)
(* port when we are a gateway; an empty answer, or is_gateway now false,  *)
(* does nothing.                                                           *)
DnsResolved(p) ==
    /\ p \in dns
    /\ dns' = dns \ {p}
    /\ \/ /\ free_ports' = BagAdd(free_ports, p)
          /\ UNCHANGED hellos
       \/ /\ \E addrs \in SUBSET ManualIps :
               IF addrs = {} THEN UNCHANGED hellos
               ELSE \E hs \in Contacted({<<a, 0>> : a \in addrs}, p) :
                      hellos' = hellos \cup hs
          /\ UNCHANGED free_ports
    /\ UNCHANGED <<tunnels, kernel, monitored, babel_cmds, halted>>

(* Mutant of PortCallback: the failed hello is dropped without pushing   *)
(* its port back.                                                          *)
PortCallbackDrop(h) ==
    /\ h \in hellos
    /\ hellos' = hellos \ {h}
    /\ UNCHANGED <<free_ports, tunnels, kernel, monitored, babel_cmds, dns, halted>>

(* The hello handler's request fails: PortCallback(our_port). *)
PortCallback(h) ==
    /\ h \in hellos
    /\ hellos' = hellos \ {h}
    /\ free_ports' = BagAdd(free_ports, h.port)
    /\ UNCHANGED <<tunnels, kernel, monitored, babel_cmds, dns, halted>>

(* The neighbour answers our hello: IdentityCallback with Some(our_port). *)
HelloAnswered(h, have) ==
    /\ h \in hellos
    /\ hellos' = hellos \ {h}
    /\ OpenTunnel(IdOf[h.ip], h.ip, h.ifidx, have, h.port, free_ports)
    /\ UNCHANGED <<monitored, dns>>

(* A neighbour says hello to us: IdentityCallback with our_port None. *)
IdentityCallback(l, have) ==
    /\ \E r \in GetPort(free_ports) :
         CASE r.res = "panic" -> Panic
           [] r.res = "lost"  -> /\ free_ports' = BagRemove(free_ports, r.port)
                                 /\ UNCHANGED <<tunnels, kernel, babel_cmds, halted>>
           [] r.res = "some"  -> OpenTunnel(IdOf[l[1]], l[1], l[2], have, r.port,
                                            BagRemove(free_ports, r.port))
    /\ UNCHANGED <<monitored, hellos, dns>>

(* Time passes: a tunnel's last_contact becomes older than the GC timeout. *)
Expire(id, k) ==
    /\ k \in DOMAIN tunnels[id]
    /\ ~tunnels[id][k].stale
    /\ tunnels' = [tunnels EXCEPT ![id][k].stale = TRUE]
    /\ UNCHANGED <<free_ports, kernel, monitored, babel_cmds, hellos, dns, halted>>

(* Mutant of TriggerGC: storage is replaced only after the deletion loop, *)
(* so a failing del_interface leaves the deleted tunnels stored.          *)
TriggerGCStorageLast ==
    LET timed_out == {t \in AllTunnels(tunnels) : t.stale} IN
    \E done \in SUBSET timed_out :
    \E failed \in IF done = timed_out THEN {{}} ELSE {{f} : f \in timed_out \ done} :
      /\ done = timed_out \/ KernelFaults
      /\ tunnels' = IF done = timed_out
                    THEN [id \in Ids |-> SelectSeq(tunnels[id], LAMBDA t : ~t.stale)]
                    ELSE tunnels
      /\ kernel' = [i \in Ifaces |-> IF \E t \in done : t.iface = i THEN KAbsent ELSE kernel[i]]
      /\ free_ports' = FoldSet(LAMBDA t, b : BagAdd(b, t.port), free_ports, done)
      /\ babel_cmds' = Spawn(babel_cmds, {t.iface : t \in done \cup failed}, "unmonitor")
      /\ UNCHANGED <<monitored, hellos, dns, halted>>

(* Mutant of TriggerGC: the timed-out tunnels leave storage but their     *)
(* interfaces are not deleted.                                             *)
TriggerGCNoDelete ==
    LET timed_out == {t \in AllTunnels(tunnels) : t.stale} IN
    /\ tunnels' = [id \in Ids |-> SelectSeq(tunnels[id], LAMBDA t : ~t.stale)]
    /\ free_ports' = FoldSet(LAMBDA t, b : BagAdd(b, t.port), free_ports, timed_out)
    /\ babel_cmds' = Spawn(babel_cmds, {t.iface : t \in timed_out}, "unmonitor")
    /\ UNCHANGED <<kernel, monitored, hellos, dns, halted>>

(***************************************************************************)
(* TriggerGC: storage keeps the fresh tunnels first; then, in HashMap      *)
(* order, each timed-out tunnel is unmonitored, deleted, and its port      *)
(* pushed.  The `?` on del_interface ends the loop at the first failure:  *)
(* the tunnels before it are done, the failing one is only unmonitored.   *)
(***************************************************************************)
TriggerGC ==
    LET timed_out == {t \in AllTunnels(tunnels) : t.stale} IN
    /\ tunnels' = [id \in Ids |-> SelectSeq(tunnels[id], LAMBDA t : ~t.stale)]
    /\ \E done \in SUBSET timed_out :
       \E failed \in IF done = timed_out THEN {{}} ELSE {{f} : f \in timed_out \ done} :
         /\ done = timed_out \/ KernelFaults
         /\ kernel' = [i \in Ifaces |-> IF \E t \in done : t.iface = i
                                        THEN KAbsent ELSE kernel[i]]
         /\ free_ports' = FoldSet(LAMBDA t, b : BagAdd(b, t.port), free_ports, done)
         /\ babel_cmds' = Spawn(babel_cmds, {t.iface : t \in done \cup failed}, "unmonitor")
    /\ UNCHANGED <<monitored, hellos, dns, halted>>

(* A spawned babel monitor/unmonitor future completes or fails. *)
BabelComplete(i, op) ==
    /\ op \in babel_cmds[i]
    /\ babel_cmds' = [babel_cmds EXCEPT ![i] = @ \ {op}]
    /\ \/ monitored' = IF op = "monitor" THEN monitored \cup {i} ELSE monitored \ {i}
       \/ BabelFaults /\ UNCHANGED monitored
    /\ UNCHANGED <<free_ports, tunnels, kernel, hellos, dns, halted>>

(* Mutant of TunnelBwLimitUpdate: Paid tunnels keep whatever limit they  *)
(* had instead of getting codel back.                                      *)
TunnelBwLimitUpdateNoReset(tm, kn) ==
    LET all == AllTunnels(tm)
        limited == Cardinality({t \in all : t.pay = "Overdue"})
        bw_per_iface == IF limited > 0 THEN FreeTier \div limited ELSE FreeTier
    IN {[i \in Ifaces |-> IF \E t \in all : t.iface = i /\ t.pay = "Overdue"
                          THEN [kn[i] EXCEPT !.qdisc = bw_per_iface] ELSE kn[i]]}

(***************************************************************************)
(* tunnel_bw_limit_update over storage tm and kernel kn: the kernels it   *)
(* can leave.  Overdue tunnels get free_tier_throughput / count, Paid      *)
(* tunnels with a limit get codel back.  A `?` on has_limit / set_* stops  *)
(* the HashMap-ordered loop, leaving any subset of tunnels untouched.      *)
(***************************************************************************)
TunnelBwLimitUpdate(tm, kn) ==
    LET all == AllTunnels(tm)
        limited == Cardinality({t \in all : t.pay = "Overdue"})
        bw_per_iface == IF limited > 0 THEN FreeTier \div limited ELSE FreeTier
        Shape(t) == IF t.pay = "Overdue" THEN bw_per_iface ELSE Unlimited
    IN {[i \in Ifaces |-> IF \E t \in done : t.iface = i
                          THEN [kn[i] EXCEPT !.qdisc = Shape(CHOOSE t \in done : t.iface = i)]
                          ELSE kn[i]]
        : done \in {d \in SUBSET all : d = all \/ KernelFaults}}

(* The TunnelAction table of tunnel_state_change: field, from, to. *)
Transition ==
    [MembershipConfirmed |-> [field |-> "reg", from |-> "NotRegistered", to |-> "Registered"],
     MembershipExpired   |-> [field |-> "reg", from |-> "Registered", to |-> "NotRegistered"],
     PaidOnTime          |-> [field |-> "pay", from |-> "Overdue", to |-> "Paid"],
     PaymentOverdue      |-> [field |-> "pay", from |-> "Paid", to |-> "Overdue"]]

(***************************************************************************)
(* tunnel_state_change(TunnelChange{id, a}) on st = [tm, kn, cmds]: every  *)
(* tunnel of id in the `from` state moves to `to`; registration moves      *)
(* spawn monitor/unmonitor, payment moves run the bandwidth update over    *)
(* all tunnels.  The outcomes.                                             *)
(***************************************************************************)
TunnelStateChangeOne(id, a, st) ==
    LET tr == Transition[a]
        ts == st.tm[id]
        moved == {k \in DOMAIN ts : ts[k][tr.field] = tr.from}
        tm == [st.tm EXCEPT ![id] = [k \in DOMAIN ts |->
                  IF k \in moved THEN [ts[k] EXCEPT ![tr.field] = tr.to] ELSE ts[k]]]
        cmds == IF tr.field = "reg"
                THEN Spawn(st.cmds, {ts[k].iface : k \in moved},
                           IF a = "MembershipConfirmed" THEN "monitor" ELSE "unmonitor")
                ELSE st.cmds
        kns == IF tr.field = "pay" /\ moved # {} THEN TunnelBwLimitUpdate(tm, st.kn)
                                              ELSE {st.kn}
    IN {[tm |-> tm, kn |-> kn, cmds |-> cmds] : kn \in kns}

(* The handler's loop over the batch, in order, over a set of outcomes. *)
RECURSIVE StateChangeAll(_, _)
StateChangeAll(batch, sts) ==
    IF batch = <<>> THEN sts
    ELSE StateChangeAll(Tail(batch),
           UNION {TunnelStateChangeOne(Head(batch)[1], Head(batch)[2], st) : st \in sts})

(***************************************************************************)
(* The TunnelStateChange handler: a batch of TunnelChanges, at most one    *)
(* per identity, in any order, applied in one step of the actor.           *)
(***************************************************************************)
TunnelStateChange ==
    \E order \in SetToAllKPermutations(Ids) \ {<<>>}, act \in [Ids -> Actions] :
    \E st \in StateChangeAll([k \in DOMAIN order |-> <<order[k], act[order[k]]>>],
                             {[tm |-> tunnels, kn |-> kernel, cmds |-> babel_cmds]}) :
        /\ tunnels' = st.tm
        /\ kernel' = st.kn
        /\ babel_cmds' = st.cmds
        /\ UNCHANGED <<free_ports, monitored, hellos, dns, halted>>

-----------------------------------------------------------------------------
Init ==
    /\ free_ports = SetToBag(Ports)
    /\ tunnels = [id \in Ids |-> <<>>]
    /\ kernel = [i \in Ifaces |-> KAbsent]
    /\ monitored = {}
    /\ babel_cmds = [i \in Ifaces |-> {}]
    /\ hellos = {}
    /\ dns = {}
    /\ halted = FALSE

HaveTunnel == {"Some(true)", "Some(false)", "None"}

Next ==
    /\ ~halted
    /\ \/ PeersToContact
       \/ \E p \in dns : DnsResolved(p)
       \/ \E h \in hellos : PortCallback(h)
       \/ \E h \in hellos, have \in HaveTunnel : HelloAnswered(h, have)
       \/ \E l \in Links, have \in HaveTunnel : IdentityCallback(l, have)
       \/ \E id \in Ids, k \in 1 .. NumIfaces : Expire(id, k)
       \/ TriggerGC
       \/ \E i \in Ifaces, op \in BabelOps : BabelComplete(i, op)
       \/ TunnelStateChange

Spec == Init /\ [][Next]_vars

-----------------------------------------------------------------------------
(***************************************************************************)
(* The port pool's contract.  free_ports maps to the pool (its copies     *)
(* merged), the ports of hellos and lookups to the ports in flight, the   *)
(* ports of stored tunnels to the bound ones, a panic to stopped.         *)
(***************************************************************************)
InFlightPorts == {h.port : h \in hellos} \cup dns
BoundPorts == {t.port : t \in AllTunnels(tunnels)}

Pool == INSTANCE PortPool WITH pool <- BagToSet(free_ports), inflight <- InFlightPorts,
                              bound <- BoundPorts, stopped <- halted

(* A spawned hello future ends in PortCallback or IdentityCallback, and    *)
(* the resolver future in its completion: the hello's 4 s and DNS's 1 s    *)
(* timeouts make every one of them complete.                               *)
HelloCompletes(h) == PortCallback(h) \/ \E have \in HaveTunnel : HelloAnswered(h, have)

FairSpec ==
    /\ Spec
    /\ \A h \in Hello : WF_vars(~halted /\ HelloCompletes(h))
    /\ \A p \in Ports : WF_vars(~halted /\ DnsResolved(p))

(* Every step of the manager, whatever the order of hellos, callbacks,    *)
(* re-opened tunnels and GC, moves ports only as the pool's contract       *)
(* allows: none is in two places, none disappears, none enters flight     *)
(* except from free_ports.                                                 *)
ImplementsPortPool == Pool!SafetySpec

(* Every port taken from free_ports for a hello or a lookup comes back to  *)
(* the pool or to a live tunnel once the spawned futures complete.         *)
PortsSettle == Pool!PortsSettle

-----------------------------------------------------------------------------
(* Properties *)

TypeOK ==
    /\ IsABag(free_ports) /\ BagToSet(free_ports) \subseteq Ports
    /\ tunnels \in [Ids -> Seq(Tunnel)]
    /\ kernel \in [Ifaces -> KIface]
    /\ monitored \subseteq Ifaces
    /\ babel_cmds \in [Ifaces -> SUBSET BabelOps]
    /\ hellos \subseteq Hello
    /\ dns \subseteq Ports
    /\ halted \in BOOLEAN

(* How many of the manager's records claim port p: copies in free_ports,  *)
(* stored tunnels listening on it, hellos and lookups holding it.          *)
Claims(p) ==
    CopiesIn(p, free_ports)
      + Cardinality({t \in AllTunnels(tunnels) : t.port = p})
      + Cardinality({h \in hellos : h.port = p})
      + (IF p \in dns THEN 1 ELSE 0)

(* A port is never handed out twice: across get_port, the speculative     *)
(* ports of hellos, the early port returns of open_tunnel, PortCallback    *)
(* and GC, no port is claimed by two of the records above.                 *)
NoPortDoubleBooked == \A p \in Ports : Claims(p) <= 1

(* Storage agrees with the kernel whatever KI call failed: every stored   *)
(* tunnel's wg interface exists and listens on the tunnel's port, and no   *)
(* two stored tunnels share an interface (the reason TriggerGC updates     *)
(* storage before deleting).                                               *)
StorageMatchesKernel ==
    \A t \in AllTunnels(tunnels) :
        /\ kernel[t.iface].up
        /\ kernel[t.iface].port = t.port
        /\ \A u \in AllTunnels(tunnels) : u.iface = t.iface => u = t

(* Spec P2, first half: no port is in the free pool while a live tunnel   *)
(* listens on it.                                                          *)
PoolDisjointFromTunnels ==
    \A t \in AllTunnels(tunnels) : t.port \notin BagToSet(free_ports)

(***************************************************************************)
(* Every wg interface that is up belongs to a stored tunnel: no open,     *)
(* re-open or GC leaves an orphan interface holding a wg name, the names  *)
(* whose exhaustion makes setup_wg_if().unwrap() panic.                    *)
(***************************************************************************)
WgNamesOwned == \A i \in Ifaces : kernel[i].up => \E t \in AllTunnels(tunnels) : t.iface = i

(* Spec P2, second half: every port of the range is in the pool, in a     *)
(* live tunnel, or held by a hello or lookup still in flight.              *)
PortsConserved == \A p \in Ports : Claims(p) >= 1

Quiescent == \A i \in Ifaces : babel_cmds[i] = {}

(* Spec I5: once no monitor/unmonitor future is pending, babel monitors    *)
(* exactly the interfaces of the stored Registered tunnels.                *)
BabelMatchesRegistration ==
    Quiescent => monitored = {t.iface : t \in {u \in AllTunnels(tunnels) : u.reg = "Registered"}}

(* Spec 4.3 bandwidth policy after TunnelStateChange: every Overdue       *)
(* tunnel has a classless limit, no Paid tunnel has one, and the limits    *)
(* together stay within free_tier_throughput.                              *)
ShapingMatchesPayment ==
    LET all == AllTunnels(tunnels) IN
    /\ \A t \in all : (t.pay = "Overdue") <=> (kernel[t.iface].qdisc # Unlimited)
    /\ FoldSet(LAMBDA t, s : s + kernel[t.iface].qdisc, 0, all) <= FreeTier
====
