------------------------ MODULE ClientTrafficWatcher ------------------------
(***************************************************************************)
(* The client TrafficWatcher of rita_client/traffic_watcher/mod.rs.  Watch *)
(* reads the cumulative wg_exit counters and bills the bytes since its     *)
(* cursors (last_read_input / last_read_output), resetting the cursors     *)
(* when a counter went backwards.  QueryExitDebts asks the exit for its    *)
(* authoritative figure; the spawned request's answer, if non-negative,    *)
(* overwrites the exit's balance in DebtKeeper (TrafficReplace).           *)
(***************************************************************************)
EXTENDS Naturals, Integers, FiniteSets

CONSTANTS
    Width,          \* bits of the u64 counters and cursors, scaled down
    MaxBytes,       \* bound on bytes moved per direction
    DebtValues,     \* figures the exit's /client_debt may return
    MaxQueries,     \* bound on QueryExitDebts sent
    KernelFaults    \* may read_wg_counters / the exit route lookup fail?

Dirs == {"down", "up"}      \* download = input, upload = output
U64 == 2 ^ Width
NoReply == -1               \* ledger sequence number before any reply

ASSUME MaxBytes < U64

VARIABLES
    wg,         \* KI wg_exit counters since the tunnel was (re)created
    last_read,  \* TrafficWatcher.last_read_input / last_read_output
    used,       \* bytes that really crossed the tunnel (history)
    billed,     \* bytes Watch has billed: the sum of its input / output (history)
    exit_debt,  \* what the exit would answer now
    queries,    \* QueryExitDebts requests sent, not answered: sequence numbers
    replies,    \* answers on their way back: [seq, debt]
    ledger,     \* DebtKeeper's exit balance and the query it came from
    next_query  \* sequence number of the next QueryExitDebts

vars == <<wg, last_read, used, billed, exit_debt, queries, replies, ledger, next_query>>

(* Traffic to or from the exit crosses wg_exit. *)
Transfer(d) ==
    /\ used[d] < MaxBytes
    /\ used' = [used EXCEPT ![d] = @ + 1]
    /\ wg' = [wg EXCEPT ![d] = (@ + 1) % U64]
    /\ UNCHANGED <<last_read, billed, exit_debt, queries, replies, ledger, next_query>>

(* The exit tunnel is torn down and set up again: its counters restart. *)
Recreate ==
    /\ wg # [d \in Dirs |-> 0]
    /\ wg' = [d \in Dirs |-> 0]
    /\ UNCHANGED <<last_read, used, billed, exit_debt, queries, replies, ledger, next_query>>

(* u64 subtraction as the release build computes it. *)
SubU64(a, b) == (a - b) % U64

(* Mutant of CursorsAfterReset: the regression check is dropped. *)
CursorsNoResetCheck(counter, cur) == cur

(* "Exit tunnel reset resetting counters": both cursors go to 0 when      *)
(* either counter is below its cursor.                                     *)
CursorsAfterReset(counter, cur) ==
    IF \E d \in Dirs : cur[d] > counter[d] THEN [d \in Dirs |-> 0] ELSE cur

(***************************************************************************)
(* The Watch handler, watch(): find_exit_route_capped and read_wg_counters *)
(* may fail, returning Err before the cursors are touched.  Otherwise the  *)
(* cursors are reset on regression, input / output are the differences,   *)
(* and the cursors move to the counters.  The local estimate only feeds    *)
(* the usage tracker.                                                      *)
(***************************************************************************)
Watch ==
    \E ok \in IF KernelFaults THEN BOOLEAN ELSE {TRUE} :
       /\ ok
       /\ LET cur == CursorsAfterReset(wg, last_read)
              delta == [d \in Dirs |-> SubU64(wg[d], cur[d])]
          IN /\ last_read' = wg
             /\ billed' = [d \in Dirs |-> billed[d] + delta[d]]
       /\ UNCHANGED <<wg, used, exit_debt, queries, replies, ledger, next_query>>

(* The exit's own view of our debt changes (we use it, or we pay). *)
ExitDebtChanges ==
    /\ \E v \in DebtValues \ {exit_debt} : exit_debt' = v
    /\ UNCHANGED <<wg, last_read, used, billed, queries, replies, ledger, next_query>>

(* QueryExitDebts: the request future is spawned on the Arbiter. *)
QueryExitDebts ==
    /\ next_query < MaxQueries
    /\ queries' = queries \cup {next_query}
    /\ next_query' = next_query + 1
    /\ UNCHANGED <<wg, last_read, used, billed, exit_debt, replies, ledger>>

(* The exit answers a request with its figure at that moment; or the       *)
(* connection fails, the 5 s timeout fires or the body does not parse,     *)
(* and the future ends having done nothing.                                *)
ExitAnswers(q) ==
    /\ q \in queries
    /\ queries' = queries \ {q}
    /\ \/ replies' = replies \cup {[seq |-> q, debt |-> exit_debt]}
       \/ UNCHANGED replies
    /\ UNCHANGED <<wg, last_read, used, billed, exit_debt, ledger, next_query>>

(* The answer reaches the client: a non-negative debt is sent to          *)
(* DebtKeeper as TrafficReplace, which overwrites the exit's balance;     *)
(* a negative one is only logged ("Exit owes us?").                        *)
ReplyArrives(r) ==
    /\ r \in replies
    /\ replies' = replies \ {r}
    /\ ledger' = IF r.debt >= 0 THEN [seq |-> r.seq, debt |-> r.debt] ELSE ledger
    /\ UNCHANGED <<wg, last_read, used, billed, exit_debt, queries, next_query>>

Init ==
    /\ wg = [d \in Dirs |-> 0]
    /\ last_read = [d \in Dirs |-> 0]
    /\ used = [d \in Dirs |-> 0]
    /\ billed = [d \in Dirs |-> 0]
    /\ exit_debt \in DebtValues
    /\ queries = {}
    /\ replies = {}
    /\ ledger = [seq |-> NoReply, debt |-> 0]
    /\ next_query = 0

Next ==
    \/ \E d \in Dirs : Transfer(d)
    \/ Recreate
    \/ Watch
    \/ ExitDebtChanges
    \/ QueryExitDebts
    \/ \E q \in queries : ExitAnswers(q)
    \/ \E r \in replies : ReplyArrives(r)

Spec == Init /\ [][Next]_vars

-----------------------------------------------------------------------------
(* Properties *)

TypeOK ==
    /\ wg \in [Dirs -> 0 .. U64 - 1]
    /\ last_read \in [Dirs -> 0 .. U64 - 1]
    /\ used \in [Dirs -> 0 .. MaxBytes]
    /\ billed \in [Dirs -> 0 .. MaxBytes]
    /\ exit_debt \in DebtValues
    /\ queries \subseteq 0 .. MaxQueries - 1
    /\ replies \subseteq [seq : 0 .. MaxQueries - 1, debt : DebtValues]
    /\ ledger \in [seq : {NoReply} \cup 0 .. MaxQueries - 1, debt : DebtValues \cup {0}]
    /\ next_query \in 0 .. MaxQueries

(* Spec 7, open question: treating a counter regression as a recreated    *)
(* tunnel may under-bill but never over-bills, whatever the order of       *)
(* transfers, recreations and failed Watches.                              *)
NeverOverbilled == \A d \in Dirs : billed[d] <= used[d]

====
