------------------------------ MODULE PortPool ------------------------------
(***************************************************************************)
(* What TunnelManager's free_ports promises, spec section 3 and P2: every *)
(* UDP port of the range is in exactly one place, the free pool, a       *)
(* request in flight (a hello or a hostname lookup holding a speculative  *)
(* port) or a live tunnel.  A port enters flight only from the pool, and  *)
(* one step of the manager may move several ports at once.  A panic ends  *)
(* the process (stopped).                                                  *)
(***************************************************************************)
EXTENDS FiniteSets

CONSTANT Ports

VARIABLES pool, inflight, bound, stopped

vars == <<pool, inflight, bound, stopped>>

Partition ==
    /\ pool \cup inflight \cup bound = Ports
    /\ pool \cap inflight = {} /\ pool \cap bound = {} /\ inflight \cap bound = {}

Init ==
    /\ pool = Ports
    /\ inflight = {}
    /\ bound = {}
    /\ stopped = FALSE

(* Ports drawn into flight, bound to tunnels (from the pool or from       *)
(* flight), and given back (from flight or from tunnels), all at once.    *)
Move(toFlight, toBound, toPool) ==
    /\ toFlight \subseteq pool
    /\ toBound \subseteq pool \cup inflight
    /\ toPool \subseteq inflight \cup bound
    /\ toFlight \cap toBound = {}
    /\ pool' = (pool \ (toFlight \cup toBound)) \cup toPool
    /\ inflight' = (inflight \ (toBound \cup toPool)) \cup toFlight
    /\ bound' = (bound \ toPool) \cup toBound

Next ==
    /\ ~stopped
    /\ \E f \in SUBSET pool, b \in SUBSET (pool \cup inflight), p \in SUBSET (inflight \cup bound) :
          Move(f, b, p)
    /\ stopped' \in BOOLEAN

(* A request in flight completes: its port leaves flight. *)
Settle(p) ==
    /\ ~stopped
    /\ p \in inflight
    /\ \E b \in {{}, {p}} : Move({}, b, {p} \ b)
    /\ UNCHANGED stopped

SafetySpec == Init /\ [][Next]_vars

Spec == SafetySpec /\ \A p \in Ports : WF_vars(Settle(p))

(* No port is lost for good: unless the process stopped, each port keeps   *)
(* coming back to the pool or to a live tunnel.                            *)
PortsSettle == \A p \in Ports : []<>(p \in pool \/ p \in bound \/ stopped)
====
