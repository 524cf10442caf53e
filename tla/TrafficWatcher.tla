--------------------------- MODULE TrafficWatcher --------------------------
(***************************************************************************)
(* The relay TrafficWatcher of rita_common/traffic_watcher/mod.rs: each    *)
(* Watch reads the four iptables counter tables (Input, ForwardInput,      *)
(* Output, ForwardOutput) per (destination, wg interface), prices the      *)
(* bytes with the babel route table and sends one TrafficUpdate to          *)
(* DebtKeeper.  The kernel counters are read-and-reset by the kernel       *)
(* interface, and traffic keeps arriving between Watches.                  *)
(***************************************************************************)
EXTENDS Integers, FiniteSets, Sequences, FiniteSetsExt, Functions, TLC

CONSTANTS
    Ids,            \* neighbour identities
    Dests,          \* destination mesh addresses (/128 routes)
    OwnIp,          \* our own mesh_ip, priced 0
    Ifaces,         \* wg tunnel interfaces
    IfaceOwner,     \* [Ifaces -> Ids]: whose tunnel an interface is
    Prices,         \* route prices babel may announce
    MaxFee,         \* payment.max_fee
    LocalFee,       \* payment.local_fee
    InKeys,         \* (dest, iface) pairs inbound traffic is counted on
    OutKeys,        \* (dest, iface) pairs outbound traffic is counted on
    MaxBytes,       \* bound on bytes per key and direction
    MaxQueue,       \* bound on TrafficUpdates waiting in DebtKeeper's mailbox
    KernelFaults,   \* may KI.read_counters fail?
    NoRoute         \* sentinel: no installed route to a destination

ASSUME /\ OwnIp \in Dests
       /\ IfaceOwner \in [Ifaces -> Ids]
       /\ InKeys \cup OutKeys \subseteq Dests \X Ifaces

Keys == InKeys \cup OutKeys
\* The order watch() reads them in: get_input_counters, then get_output_counters.
Targets == <<"Input", "ForwardInput", "Output", "ForwardOutput">>
InTargets == {"Input", "ForwardInput"}
OutTargets == {"Output", "ForwardOutput"}
TargetKeys(t) == IF t \in InTargets THEN InKeys ELSE OutKeys

VARIABLES
    ctr,        \* kernel counters since the last read: [target -> [key -> bytes]]
    sent,       \* bytes that crossed each key, per direction (history)
    accounted,  \* bytes a completed Watch took into its TrafficUpdate (history)
    mailbox,    \* TrafficUpdates sent to DebtKeeper, not yet handled
    balance,    \* DebtKeeper's running balance per neighbour
    billed      \* spec P4's charge of every round DebtKeeper handled (history)

vars == <<ctr, sent, accounted, mailbox, balance, billed>>

Dirs == {"in", "out"}
DirOf(t) == IF t \in InTargets THEN "in" ELSE "out"
RouteTables == [Dests \ {OwnIp} -> Prices \cup {NoRoute}]

(* A packet crosses key k and the kernel counts it in table t. *)
Traffic(t, k) ==
    /\ k \in TargetKeys(t)
    /\ sent[DirOf(t)][k] < MaxBytes
    /\ ctr' = [ctr EXCEPT ![t][k] = @ + 1]
    /\ sent' = [sent EXCEPT ![DirOf(t)][k] = @ + 1]
    /\ UNCHANGED <<accounted, mailbox, balance, billed>>

(* prepare_helper_maps: the wg interface -> identity map of the live       *)
(* neighbours handed to Watch.                                              *)
PrepareHelperMaps(live) == [i \in live |-> IfaceOwner[i]]

(* Mutant of GetBabelInfo: the announced price is used without the       *)
(* max_fee cap.                                                             *)
GetBabelInfoNoCap(route) ==
    [d \in {x \in Dests \ {OwnIp} : route[x] # NoRoute} |-> route[d] + LocalFee]
    @@ (OwnIp :> 0)

(* get_babel_info: installed routes priced min(price, max_fee) + local_fee; *)
(* our own mesh ip priced 0.                                                *)
GetBabelInfo(route) ==
    [d \in {x \in Dests \ {OwnIp} : route[x] # NoRoute} |->
        (IF route[d] > MaxFee THEN MaxFee ELSE route[d]) + LocalFee]
    @@ (OwnIp :> 0)

(* Mutant of ReadCounters: cumulative counters, never reset on read. *)
ReadCountersNoReset(c, read) == c

(* KI.read_counters on each table of read: the table is reset on read. *)
ReadCounters(c, read) == [t \in DOMAIN c |-> IF t \in read THEN [k \in Keys |-> 0] ELSE c[t]]

(* get_input_counters / get_output_counters: the two tables merged per key. *)
TotalCounters(c, t1, t2, keys) == [k \in keys |-> c[t1][k] + c[t2][k]]

(***************************************************************************)
(* watch(): debts start at 0 for every neighbour; each input entry with a  *)
(* known destination and interface debits the interface's owner           *)
(* dest * bytes, each output entry credits it (dest - local_fee) * bytes;  *)
(* any other entry is skipped with a warning.                              *)
(***************************************************************************)
WatchDebts(in, out, dest, if_to_id) ==
    LET known(k) == k[1] \in DOMAIN dest /\ k[2] \in DOMAIN if_to_id
        InStep(k, d) == IF known(k)
                        THEN [d EXCEPT ![if_to_id[k[2]]] = @ - dest[k[1]] * in[k]]
                        ELSE d
        OutStep(k, d) == IF known(k)
                         THEN [d EXCEPT ![if_to_id[k[2]]] = @ + (dest[k[1]] - LocalFee) * out[k]]
                         ELSE d
    IN FoldSet(OutStep, FoldSet(InStep, [n \in Range(if_to_id) |-> 0], DOMAIN in), DOMAIN out)

(***************************************************************************)
(* The reference for the history billed, written from the spec and not    *)
(* from the code: capped_price(route) = min(route.price, max_fee) (spec    *)
(* 3), a destination's price is capped_price + local_fee for an installed *)
(* route and 0 for our own mesh ip (spec 4.4 step 2), and neighbour n's    *)
(* charge for a round is spec P4's sum over the counters of its tunnels in *)
(* the round's neighbour snapshot.                                          *)
(***************************************************************************)
CappedPrice(route, d) == IF route[d] < MaxFee THEN route[d] ELSE MaxFee
PricedDests(route) == {OwnIp} \cup {d \in Dests \ {OwnIp} : route[d] # NoRoute}
DestPrice(route, d) == IF d = OwnIp THEN 0 ELSE CappedPrice(route, d) + LocalFee
P4Charge(in, out, route, live, n) ==
    LET mine(k) == k[1] \in PricedDests(route) /\ k[2] \in live /\ IfaceOwner[k[2]] = n
    IN MapThenSumSet(LAMBDA k : (DestPrice(route, k[1]) - LocalFee) * out[k], {k \in OutKeys : mine(k)})
       - MapThenSumSet(LAMBDA k : DestPrice(route, k[1]) * in[k], {k \in InKeys : mine(k)})

(***************************************************************************)
(* The Watch handler.  get_babel_info fails without a mesh ip before any   *)
(* read, which changes nothing and is left out.  The four reads follow in  *)
(* order; each successful read resets its table, and a failing read        *)
(* (KI error) ends watch() with `?`: the tables already read are zeroed    *)
(* and no TrafficUpdate is sent.                                           *)
(***************************************************************************)
Watch ==
    /\ Len(mailbox) < MaxQueue
    /\ \E live \in SUBSET Ifaces, route \in RouteTables,
          fail \in IF KernelFaults THEN 0 .. Len(Targets) ELSE {0} :
       LET read == {Targets[j] : j \in 1 .. IF fail = 0 THEN Len(Targets) ELSE fail - 1}
           in == TotalCounters(ctr, "Input", "ForwardInput", InKeys)
           out == TotalCounters(ctr, "Output", "ForwardOutput", OutKeys)
           dest == GetBabelInfo(route)
           if_to_id == PrepareHelperMaps(live)
       IN /\ ctr' = ReadCounters(ctr, read)
          /\ IF fail = 0
             THEN /\ mailbox' = Append(mailbox,
                        [debts |-> WatchDebts(in, out, dest, if_to_id),
                         p4 |-> [n \in Ids |-> P4Charge(in, out, route, live, n)]])
                  /\ accounted' = [accounted EXCEPT !["in"] = [k \in Keys |-> @[k] + (IF k \in InKeys THEN in[k] ELSE 0)],
                                                    !["out"] = [k \in Keys |-> @[k] + (IF k \in OutKeys THEN out[k] ELSE 0)]]
             ELSE UNCHANGED <<mailbox, accounted>>
          /\ UNCHANGED <<sent, balance, billed>>

(* DebtKeeper handles a TrafficUpdate: every amount is added to the        *)
(* sender's balance (spec 4.6).                                            *)
TrafficUpdate ==
    /\ mailbox # <<>>
    /\ LET debts == Head(mailbox).debts IN
       balance' = [n \in Ids |-> IF n \in DOMAIN debts THEN balance[n] + debts[n] ELSE balance[n]]
    /\ billed' = [n \in Ids |-> billed[n] + Head(mailbox).p4[n]]
    /\ mailbox' = Tail(mailbox)
    /\ UNCHANGED <<ctr, sent, accounted>>

Init ==
    /\ ctr = [t \in Range(Targets) |-> [k \in Keys |-> 0]]
    /\ sent = [d \in Dirs |-> [k \in Keys |-> 0]]
    /\ accounted = [d \in Dirs |-> [k \in Keys |-> 0]]
    /\ mailbox = <<>>
    /\ balance = [n \in Ids |-> 0]
    /\ billed = [n \in Ids |-> 0]

Next ==
    \/ \E t \in Range(Targets), k \in Keys : Traffic(t, k)
    \/ Watch
    \/ TrafficUpdate

Spec == Init /\ [][Next]_vars

-----------------------------------------------------------------------------
(* Properties *)

TypeOK ==
    /\ ctr \in [Range(Targets) -> [Keys -> 0 .. MaxBytes]]
    /\ sent \in [Dirs -> [Keys -> 0 .. MaxBytes]]
    /\ accounted \in [Dirs -> [Keys -> 0 .. MaxBytes]]
    /\ Len(mailbox) <= MaxQueue
    /\ balance \in [Ids -> Int]
    /\ billed \in [Ids -> Int]

(***************************************************************************)
(* Spec P4, end to end: DebtKeeper's balance of every neighbour equals the *)
(* sum of spec P4's charges of the rounds it has handled, each priced from *)
(* that round's route table with the max_fee cap, the local fee and our    *)
(* own address at 0.  It ties get_babel_info, the two counter loops of     *)
(* watch() and DebtKeeper's handling of TrafficUpdate to the reference,    *)
(* across routes coming and going, failing reads and neighbours missing    *)
(* from the snapshot.                                                       *)
(***************************************************************************)
BalanceMatchesP4 == balance = billed

(* Spec section 7, error policy: every round is independently retriable,  *)
(* so every byte the kernel counted is either still in a counter or was    *)
(* taken into a TrafficUpdate; none is read by get_input_counters and then *)
(* dropped because a later read of watch() failed.                          *)
BytesAccounted ==
    \A k \in Keys :
        /\ sent["in"][k] = accounted["in"][k] + ctr["Input"][k] + ctr["ForwardInput"][k]
        /\ sent["out"][k] = accounted["out"][k] + ctr["Output"][k] + ctr["ForwardOutput"][k]
====
