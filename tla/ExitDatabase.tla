---------------------------- MODULE ExitDatabase ----------------------------
(***************************************************************************)
(* The exit's client registrations: rita_exit/database/database_tools.rs, *)
(* the setup and status endpoints of rita_exit/network_endpoints and the  *)
(* exit loop of rita_exit/rita_loop.  Every HTTP request runs as its own  *)
(* future on a pooled Postgres connection; each query is one atomic step, *)
(* and the steps of different requests interleave.  A signup is          *)
(* create_or_update_user_record: get_client, then update_client or        *)
(* get_next_client_ip followed by the insert.                             *)
(***************************************************************************)
EXTENDS Naturals, FiniteSets, FiniteSetsExt

CONSTANTS
    Identities,     \* ExitClientIdentity.global: [mesh, wg, eth] records
    Requests,       \* HTTP requests handled during the run
    StartIp,        \* exit_network.exit_start_ip, as an address number
    GatewayIp,      \* exit_network.own_internal_ip
    LastIp,         \* last address increment() yields inside the netmask
    PoolSize,       \* connections in DB_POOL
    MaxRetries,     \* 100 ms retries of try_get before the 1 s timeout
    DbFaults,       \* may a query fail?
    IpUnique,       \* does the clients table reject a duplicate internal_ip?
    NoIp            \* sentinel: get_next_client_ip returned Err

ASSUME /\ StartIp <= LastIp
       /\ StartIp # GatewayIp
       /\ PoolSize \in Nat \ {0}

Ips == StartIp .. LastIp
Kinds == {"setup", "status"}

VARIABLES
    records,    \* the clients table: [mesh, wg, eth, ip] rows, mesh_ip the key
    pc,         \* where each request is
    kind,       \* secure_setup_request or secure_status_request
    client,     \* the decrypted identity of each request
    tries,      \* retries spent waiting for a connection
    seen,       \* internal ips get_next_client_ip loaded (history)
    chosen,     \* the ip it returned
    free,       \* idle connections in the pool
    wgconf,     \* set_exit_wg_config: the exit's wg peers [wg, ip]
    halted      \* a panic ended the exit's actor system

vars == <<records, pc, kind, client, tries, seen, chosen, free, wgconf, halted>>

Row(c, ip) == [mesh |-> c.mesh, wg |-> c.wg, eth |-> c.eth, ip |-> ip]
Faults == IF DbFaults THEN BOOLEAN ELSE {FALSE}

(* The pooled connection is dropped when the request's future ends. *)
Finish(r) ==
    /\ pc' = [pc EXCEPT ![r] = "done"]
    /\ free' = free + 1

(***************************************************************************)
(* Both endpoints decrypt the EncryptedExitClientIdentity first; a box    *)
(* that does not open, is not UTF-8 or not JSON answers Denied.  The      *)
(* setup request then checks the sender's address against the identity's *)
(* mesh_ip and answers Denied or an error on a mismatch or a bad header.  *)
(***************************************************************************)
Receive(r) ==
    /\ pc[r] = "idle"
    /\ \E k \in Kinds, c \in Identities, admitted \in BOOLEAN :
          /\ kind' = [kind EXCEPT ![r] = k]
          /\ client' = [client EXCEPT ![r] = c]
          /\ pc' = [pc EXCEPT ![r] = IF admitted THEN "conn" ELSE "done"]
    /\ UNCHANGED <<records, tries, seen, chosen, free, wgconf, halted>>

(***************************************************************************)
(* get_database_connection: try_get; with no idle connection, sleep       *)
(* 100 ms and try again, until the 1 s timeout answers an error.           *)
(***************************************************************************)
GetDatabaseConnection(r) ==
    /\ pc[r] = "conn"
    /\ \/ /\ free > 0
          /\ free' = free - 1
          /\ pc' = [pc EXCEPT ![r] = IF kind[r] = "setup" THEN "get_client" ELSE "status"]
          /\ UNCHANGED tries
       \/ /\ free = 0
          /\ tries[r] < MaxRetries
          /\ tries' = [tries EXCEPT ![r] = @ + 1]
          /\ UNCHANGED <<pc, free>>
       \/ /\ free = 0
          /\ tries[r] = MaxRetries
          /\ pc' = [pc EXCEPT ![r] = "done"]
          /\ UNCHANGED <<tries, free>>
    /\ UNCHANGED <<records, kind, client, seen, chosen, wgconf, halted>>

(* client_status reads the request's row and answers its ExitState; the   *)
(* query may fail, and either way the connection is given back.           *)
ClientStatus(r) ==
    /\ pc[r] = "status"
    /\ Finish(r)
    /\ UNCHANGED <<records, kind, client, tries, seen, chosen, wgconf, halted>>

(***************************************************************************)
(* get_client: the rows matching mesh_ip, wg_pubkey and eth_address.      *)
(* One goes on to update_client, none to the insert path; a failed query  *)
(* bails out.  Its panic on more than one match cannot happen: mesh_ip is *)
(* the table's key (delete_client finds rows by it).                      *)
(***************************************************************************)
GetClient(r) ==
    /\ pc[r] = "get_client"
    /\ \E fault \in Faults :
          LET matches == {row \in records : row.mesh = client[r].mesh
                            /\ row.wg = client[r].wg /\ row.eth = client[r].eth}
          IN IF fault
             THEN Finish(r)
             ELSE /\ pc' = [pc EXCEPT ![r] = IF matches = {} THEN "next_ip" ELSE "update"]
                  /\ UNCHANGED free
    /\ UNCHANGED <<records, kind, client, tries, seen, chosen, wgconf, halted>>

(* update_client rewrites email, phone and last_seen, each update failing *)
(* with `?`; none of these columns is read by anything modelled here.     *)
UpdateClient(r) ==
    /\ pc[r] = "update"
    /\ Finish(r)
    /\ UNCHANGED <<records, kind, client, tries, seen, chosen, wgconf, halted>>

(* Mutant of NextFreeFrom: the netmask bound checked one address late. *)
NextFreeOffByOne(ip, used) ==
    LET above == {i \in ip .. LastIp + 1 : i \notin used /\ i # GatewayIp}
    IN IF above = {} THEN NoIp ELSE Min(above)

(* Mutant of NextFreeFrom: the gateway's address is not stepped over. *)
NextFreeNoGatewaySkip(ip, used) ==
    LET above == {i \in ip .. LastIp : i \notin used}
    IN IF above = {} THEN NoIp ELSE Min(above)

(***************************************************************************)
(* The loop of get_next_client_ip: from exit_start_ip, step over every    *)
(* address in use, and over the gateway's own address right after an     *)
(* increment; increment fails once the netmask is left.                   *)
(***************************************************************************)
RECURSIVE NextFreeFrom(_, _)
NextFreeFrom(ip, used) ==
    IF ip \notin used THEN ip
    ELSE IF ip + 1 > LastIp THEN NoIp
    ELSE IF ip + 1 # GatewayIp THEN NextFreeFrom(ip + 1, used)
    ELSE IF ip + 2 > LastIp THEN NoIp
    ELSE NextFreeFrom(ip + 2, used)

GetNextClientIp(used) == NextFreeFrom(StartIp, used)

(* get_next_client_ip loads every row (a failed query bails out) and     *)
(* computes the address; running out of addresses is an Err too.          *)
NextClientIp(r) ==
    /\ pc[r] = "next_ip"
    /\ \E fault \in Faults :
          LET used == {row.ip : row \in records}
              ip == GetNextClientIp(used)
          IN IF fault \/ ip = NoIp
             THEN /\ Finish(r)
                  /\ UNCHANGED <<seen, chosen>>
             ELSE /\ pc' = [pc EXCEPT ![r] = "insert"]
                  /\ seen' = [seen EXCEPT ![r] = used]
                  /\ chosen' = [chosen EXCEPT ![r] = ip]
                  /\ UNCHANGED free
    /\ UNCHANGED <<records, kind, client, tries, wgconf, halted>>

(* diesel::insert_into(clients): refused on a mesh_ip already present    *)
(* (the key), on a taken internal_ip if the table is declared so, or on a *)
(* failed query; the signup then answers an internal error.               *)
Insert(r) ==
    /\ pc[r] = "insert"
    /\ \E fault \in Faults :
          LET refused == \/ fault
                         \/ \E row \in records : row.mesh = client[r].mesh
                         \/ IpUnique /\ \E row \in records : row.ip = chosen[r]
          IN records' = IF refused THEN records ELSE records \cup {Row(client[r], chosen[r])}
    /\ Finish(r)
    /\ UNCHANGED <<kind, client, tries, seen, chosen, wgconf, halted>>

(* delete_client removes the row keyed by the client's mesh_ip. *)
DeleteClient(c) ==
    /\ \E row \in records : row.mesh = c.mesh
    /\ records' = {row \in records : row.mesh # c.mesh}
    /\ UNCHANGED <<pc, kind, client, tries, seen, chosen, free, wgconf, halted>>

(***************************************************************************)
(* The exit loop's Tick: ListClients, whose result is unwrapped (a failed *)
(* query panics), then set_exit_wg_config with every row as a wg peer    *)
(* whose allowed ip is its internal_ip.                                   *)
(***************************************************************************)
ExitTick ==
    /\ \E fault \in Faults :
          IF fault
          THEN /\ halted' = TRUE
               /\ UNCHANGED wgconf
          ELSE /\ wgconf' = {[wg |-> row.wg, ip |-> row.ip] : row \in records}
               /\ UNCHANGED halted
    /\ UNCHANGED <<records, pc, kind, client, tries, seen, chosen, free>>

Init ==
    /\ records = {}
    /\ pc = [r \in Requests |-> "idle"]
    /\ kind = [r \in Requests |-> "setup"]
    /\ client = [r \in Requests |-> CHOOSE c \in Identities : TRUE]
    /\ tries = [r \in Requests |-> 0]
    /\ seen = [r \in Requests |-> {}]
    /\ chosen = [r \in Requests |-> NoIp]
    /\ free = PoolSize
    /\ wgconf = {}
    /\ halted = FALSE

Next ==
    /\ ~halted
    /\ \/ \E r \in Requests :
             \/ Receive(r)
             \/ GetDatabaseConnection(r)
             \/ ClientStatus(r)
             \/ GetClient(r)
             \/ UpdateClient(r)
             \/ NextClientIp(r)
             \/ Insert(r)
       \/ \E c \in Identities : DeleteClient(c)
       \/ ExitTick

Spec == Init /\ [][Next]_vars

-----------------------------------------------------------------------------
(* Properties *)

Holding == {r \in Requests : pc[r] \in {"status", "get_client", "update", "next_ip", "insert"}}

TypeOK ==
    /\ records \subseteq [mesh : {c.mesh : c \in Identities}, wg : {c.wg : c \in Identities},
                          eth : {c.eth : c \in Identities}, ip : Ips]
    /\ pc \in [Requests -> {"idle", "conn", "status", "get_client", "update",
                            "next_ip", "insert", "done"}]
    /\ kind \in [Requests -> Kinds]
    /\ client \in [Requests -> Identities]
    /\ tries \in [Requests -> 0 .. MaxRetries]
    /\ seen \in [Requests -> SUBSET Ips]
    /\ chosen \in [Requests -> Ips \cup {NoIp}]
    /\ free = PoolSize - Cardinality(Holding)
    /\ wgconf \subseteq [wg : {c.wg : c \in Identities}, ip : Ips]
    /\ halted \in BOOLEAN

(* Reference for get_next_client_ip: the lowest address from              *)
(* exit_start_ip to the end of the netmask that no row holds and that is  *)
(* not the gateway's own, or an error when there is none.                 *)
LowestFreeIp(used) ==
    LET candidates == {i \in Ips : i \notin used /\ i # GatewayIp}
    IN IF candidates = {} THEN NoIp ELSE Min(candidates)

(* Every address get_next_client_ip hands out is the reference's answer  *)
(* for the rows it loaded: never the gateway's, never a taken one, never  *)
(* past a free one.                                                       *)
NextIpIsLowestFree ==
    \A r \in Requests : chosen[r] # NoIp => chosen[r] = LowestFreeIp(seen[r])

(* The exit's wg config never gives two peers the same allowed ip. *)
WgConfigIpsDistinct ==
    \A a, b \in wgconf : a.ip = b.ip => a.wg = b.wg
====
