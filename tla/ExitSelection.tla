---------------------------- MODULE ExitSelection ----------------------------
(***************************************************************************)
(* A client's exits: the exit handlers of rita_client/dashboard/exits.rs   *)
(* and the client loop of rita_client/rita_loop/mod.rs.  The exit list and *)
(* the selected exit live in SETTING (memory) and in the config file       *)
(* (disk); a restart reloads memory from disk.  Each dashboard request is  *)
(* one atomic step under the settings lock, except exits_sync, whose       *)
(* HTTP fetch lets other steps run between its start and its completion.   *)
(* The loop's Tick spawns futures that ask TunnelManager with a 4 s        *)
(* timeout and unwrap the answer.                                          *)
(***************************************************************************)
EXTENDS Naturals, FiniteSets

CONSTANTS
    Exits,          \* nicknames an exit may be configured under
    States,         \* the ExitState variants (New, GotInfo, Pending, Registered, Denied)
    PostedStates,   \* ExitState values a posted ExitServer may carry
    WriteFaults,    \* may writing the config file fail?
    KernelFaults,   \* may KI.del_interface fail?
    TmTimeouts,     \* may TunnelManager miss the 4 s timeout?
    None            \* no exit selected

ASSUME {"New", "Registered"} \subseteq States
Absent == "Absent"          \* the nickname is not in exit_client.exits
Configs == [Exits -> States \cup {Absent}]

VARIABLES
    exits,      \* SETTING exit_client.exits: each nickname's ExitState
    current,    \* SETTING exit_client.current_exit
    disk,       \* the config file: [exits, current]
    syncing,    \* an exits_sync fetch is in flight
    wg_exit,    \* the wg_exit interface exists
    neighbours, \* exits TunnelManager has as neighbours
    probe,      \* the corner-case future: "idle", "asked" or "answered"
    answer,     \* the neighbours GetNeighbors answered it
    tunnels_req,\* the GetTunnels future is in flight
    gateway,    \* the last WeAreGatewayClient value sent to TrafficWatcher
    halted      \* an unwrap in a spawned future panicked

vars == <<exits, current, disk, syncing, wg_exit, neighbours, probe, answer, tunnels_req,
          gateway, halted>>

Configured == {n \in Exits : exits[n] # Absent}

Registered(n) == n # None /\ exits[n] = "Registered"

Faults(flag) == IF flag THEN BOOLEAN ELSE {FALSE}

(* Mutant of Save: only the selection is written, not the whole settings. *)
SaveSelectionOnly(ok, ex, cur) == disk' = IF ok THEN [current |-> cur] ELSE disk

(* SETTING.write().write(&ARGS.flag_config): the whole settings, atomically. *)
Save(ok, ex, cur) == disk' = IF ok THEN [exits |-> ex, current |-> cur] ELSE disk

(***************************************************************************)
(* Dashboard handlers.                                                     *)
(***************************************************************************)

(* add_exits: exits.extend(new_exits), replacing the ExitServer (and its  *)
(* state) of a nickname already present; answered 200 OK, no save.         *)
AddExits ==
    /\ \E new \in SUBSET Exits \ {{}}, st \in [Exits -> PostedStates] :
          exits' = [n \in Exits |-> IF n \in new THEN st[n] ELSE exits[n]]
    /\ UNCHANGED <<answer, current, disk, syncing, wg_exit, neighbours, probe, tunnels_req,
                   gateway, halted>>

(* exits_sync: a url that is missing or not https is answered 400 before  *)
(* anything is fetched; otherwise the list is fetched.                      *)
ExitsSyncStart ==
    /\ ~syncing
    /\ syncing' = TRUE
    /\ UNCHANGED <<answer, exits, current, disk, wg_exit, neighbours, probe, tunnels_req,
                   gateway, halted>>

(***************************************************************************)
(* The fetched list arrives.  A send or payload error, or a body that is   *)
(* not an exit map, changes nothing.  Otherwise each nickname already      *)
(* present keeps its state, the list is merged in, and the settings are   *)
(* saved; a failed save answers an error with memory already changed.      *)
(***************************************************************************)
ExitsSyncDone ==
    /\ syncing
    /\ syncing' = FALSE
    /\ \/ UNCHANGED <<exits, disk>>
       \/ \E new \in SUBSET Exits \ {{}}, st \in [Exits -> PostedStates], fail \in Faults(WriteFaults) :
             LET merged == [n \in Exits |-> IF n \in new /\ exits[n] = Absent THEN st[n] ELSE exits[n]]
             IN /\ exits' = merged
                /\ Save(~fail, merged, current)
    /\ UNCHANGED <<answer, current, wg_exit, neighbours, probe, tunnels_req, gateway, halted>>

(* reset_exit: a known exit goes back to New and wg_exit is deleted (a     *)
(* failing delete is only logged); answered 200 OK, no save.  An unknown  *)
(* nickname is answered 400.                                               *)
ResetExit(n) ==
    /\ exits[n] # Absent
    /\ exits' = [exits EXCEPT ![n] = "New"]
    /\ \E fail \in Faults(KernelFaults) : wg_exit' = (wg_exit /\ fail)
    /\ UNCHANGED <<answer, current, disk, syncing, neighbours, probe, tunnels_req, gateway, halted>>

(* select_exit: a known exit becomes current_exit and the settings are   *)
(* saved; a failed save answers an error with memory already changed.      *)
SelectExit(n) ==
    /\ exits[n] # Absent
    /\ current' = n
    /\ \E fail \in Faults(WriteFaults) : Save(~fail, exits, n)
    /\ UNCHANGED <<answer, exits, syncing, wg_exit, neighbours, probe, tunnels_req, gateway, halted>>

(***************************************************************************)
(* register_to_exit / verify_on_exit_with_code: exit_setup_request asks   *)
(* the exit and stores the ExitState it answers.                           *)
(***************************************************************************)
ExitSetupRequest(n) ==
    /\ exits[n] # Absent
    /\ \E s \in States \ {exits[n]} : exits' = [exits EXCEPT ![n] = s]
    /\ UNCHANGED <<answer, current, disk, syncing, wg_exit, neighbours, probe, tunnels_req,
                   gateway, halted>>

(***************************************************************************)
(* Environment.                                                            *)
(***************************************************************************)

(* ExitManager sets up wg_exit for a registered current exit. *)
SetupExitTunnel ==
    /\ Registered(current)
    /\ ~wg_exit
    /\ wg_exit' = TRUE
    /\ UNCHANGED <<answer, exits, current, disk, syncing, neighbours, probe, tunnels_req,
                   gateway, halted>>

(* A tunnel to an exit comes up or times out in TunnelManager. *)
NeighbourChange ==
    /\ \E e \in Exits : neighbours' = IF e \in neighbours THEN neighbours \ {e}
                                                         ELSE neighbours \cup {e}
    /\ UNCHANGED <<answer, exits, current, disk, syncing, wg_exit, probe, tunnels_req,
                   gateway, halted>>

(* The settings crate's periodic save of SETTING to the config file. *)
SaveLoop ==
    /\ \E fail \in Faults(WriteFaults) : Save(~fail, exits, current)
    /\ UNCHANGED <<answer, exits, current, syncing, wg_exit, neighbours, probe, tunnels_req,
                   gateway, halted>>

(***************************************************************************)
(* The process stops (a panic, or the router losing power) and starts     *)
(* again: SETTING is read from the config file, the actors start afresh   *)
(* and no future is in flight; the kernel keeps wg_exit.                  *)
(***************************************************************************)
Restart ==
    /\ exits' = disk.exits
    /\ current' = disk.current
    /\ syncing' = FALSE
    /\ probe' = "idle"
    /\ answer' = {}
    /\ tunnels_req' = FALSE
    /\ gateway' = FALSE
    /\ halted' = FALSE
    /\ UNCHANGED <<disk, wg_exit, neighbours>>

(***************************************************************************)
(* The client loop.                                                        *)
(***************************************************************************)

(***************************************************************************)
(* Tick, every CLIENT_LOOP_SPEED seconds: ExitManager's Tick (its effects  *)
(* are ExitSetupRequest and SetupExitTunnel), the corner-case future       *)
(* asking GetNeighbors and the future asking GetTunnels.  A future still  *)
(* in flight has had its 4 s, less than the 5 s period, so at most one of  *)
(* each is in flight.                                                      *)
(***************************************************************************)
ClientTick ==
    /\ ~halted
    /\ probe = "idle"
    /\ ~tunnels_req
    /\ probe' = "asked"
    /\ tunnels_req' = TRUE
    /\ UNCHANGED <<answer, exits, current, disk, syncing, wg_exit, neighbours, gateway, halted>>

(* TunnelManager handles GetNeighbors: the neighbours at that moment. *)
NeighboursAnswered ==
    /\ ~halted
    /\ probe = "asked"
    /\ probe' = "answered"
    /\ answer' = neighbours
    /\ UNCHANGED <<exits, current, disk, syncing, wg_exit, neighbours, tunnels_req,
                   gateway, halted>>

(* Mutant of GatewayValue: the `false` send after the loop is dropped.    *)
GatewayValueOnlyTrue(ans) ==
    IF Registered(current) /\ current \in ans THEN TRUE ELSE gateway

(* The WeAreGatewayClient value the corner case sends for a GetNeighbors  *)
(* answer ans: for a Registered current exit, whether a neighbour has its *)
(* mesh ip and eth address; for any other, nothing is sent.               *)
GatewayValue(ans) == IF Registered(current) THEN current \in ans ELSE gateway

(***************************************************************************)
(* check_for_gateway_client_billing_corner_case resumes: it reads the     *)
(* current exit only now, and if it is Registered sends                    *)
(* WeAreGatewayClient, true iff it is among the neighbours; otherwise it  *)
(* sends nothing.  A timed-out request is unwrapped: a panic.              *)
(***************************************************************************)
GatewayCheck ==
    /\ ~halted
    /\ probe # "idle"
    /\ \/ /\ probe = "answered"
          /\ gateway' = GatewayValue(answer)
          /\ probe' = "idle"
          /\ UNCHANGED halted
       \/ /\ probe = "asked"
          /\ TmTimeouts
          /\ halted' = TRUE
          /\ UNCHANGED <<gateway, probe>>
    /\ UNCHANGED <<answer, exits, current, disk, syncing, wg_exit, neighbours, tunnels_req>>

(* The GetTunnels future resumes: res.unwrap().unwrap() on the answer, a  *)
(* panic on a timeout; the tunnels go on to LightClientManager.            *)
TunnelsAnswered ==
    /\ ~halted
    /\ tunnels_req
    /\ tunnels_req' = FALSE
    /\ halted' \in Faults(TmTimeouts)
    /\ UNCHANGED <<answer, exits, current, disk, syncing, wg_exit, neighbours, probe, gateway>>

Init ==
    /\ exits \in Configs
    /\ current \in {None} \cup Configured
    /\ disk = [exits |-> exits, current |-> current]
    /\ syncing = FALSE
    /\ wg_exit = FALSE
    /\ neighbours = {}
    /\ probe = "idle"
    /\ answer = {}
    /\ tunnels_req = FALSE
    /\ gateway = FALSE
    /\ halted = FALSE

(* Dashboard requests are served while the process runs. *)
Dashboard ==
    /\ ~halted
    /\ \/ AddExits
       \/ ExitsSyncStart
       \/ ExitsSyncDone
       \/ \E n \in Exits : ResetExit(n) \/ SelectExit(n) \/ ExitSetupRequest(n)

Next ==
    \/ Dashboard
    \/ ClientTick
    \/ NeighboursAnswered
    \/ GatewayCheck
    \/ TunnelsAnswered
    \/ ~halted /\ (SetupExitTunnel \/ SaveLoop)
    \/ NeighbourChange
    \/ Restart

Spec == Init /\ [][Next]_vars

(***************************************************************************)
(* Tick runs every CLIENT_LOOP_SPEED seconds (run_interval), and each     *)
(* spawned future ends within its 4 s timeout, answered or not.            *)
(***************************************************************************)
FairSpec ==
    /\ Spec
    /\ WF_vars(ClientTick)
    /\ WF_vars(NeighboursAnswered \/ GatewayCheck)
    /\ WF_vars(TunnelsAnswered)

-----------------------------------------------------------------------------
(* Properties *)

TypeOK ==
    /\ exits \in Configs
    /\ current \in Exits \cup {None}
    /\ disk \in [exits : Configs, current : Exits \cup {None}]
    /\ syncing \in BOOLEAN
    /\ wg_exit \in BOOLEAN
    /\ neighbours \subseteq Exits
    /\ probe \in {"idle", "asked", "answered"}
    /\ answer \subseteq Exits
    /\ tunnels_req \in BOOLEAN
    /\ gateway \in BOOLEAN
    /\ halted \in BOOLEAN

(* The exits, the selection and the neighbours stop changing, and the    *)
(* process stops restarting.                                               *)
InputsSettle == <>[][~Restart /\ UNCHANGED <<exits, current, neighbours>>]_vars

(***************************************************************************)
(* The billing corner case settles: once the selected exit, its state and *)
(* our neighbours stop changing, TrafficWatcher ends up told, for good,   *)
(* whether a Registered selected exit is one of our neighbours: a         *)
(* WeAreGatewayClient computed from an earlier neighbour set or for an    *)
(* earlier exit does not last, unless a timed-out request panicked.       *)
(***************************************************************************)
GatewayFlagSettles ==
    InputsSettle =>
        <>[](halted \/ ~Registered(current) \/ gateway = (current \in neighbours))
====
