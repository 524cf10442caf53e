--------------------------- MODULE ClientDashboard ---------------------------
(***************************************************************************)
(* The wireless handlers of the client dashboard: the Dashboard actor's   *)
(* SetWifiConfig, SetWiFiSSID and SetWiFiPass (rita_client/dashboard/     *)
(* mod.rs) and the HTTP handlers set_wifi_ssid, set_wifi_pass and         *)
(* set_wifi_channel (rita_client/dashboard/wifi.rs).  Each handler is a   *)
(* sequence of KI calls on UCI: set_uci_var stages a value, uci_commit     *)
(* writes the staged values of a config (or of every config) to the       *)
(* config files, and a reader sees the staged value over the committed    *)
(* one.  Every KI call returns a Result and the handlers use `?`, so a    *)
(* failing call ends the handler and leaves what it staged so far.        *)
(***************************************************************************)
EXTENDS Naturals, Sequences

CONSTANTS
    Radios,         \* radio names; radio r has the wifi-iface default_r and the device r
    Channels,       \* channel numbers a request may carry
    HtMode,         \* HtMode[r]: the htmode string of radio r's device section
    Device,         \* SETTING.network.device: a model name, or NoValue
    UciFaults,      \* may a KI call fail?
    NoValue         \* an option that is not set (staged: nothing staged)

(* The width markers channel_width.contains(..) looks for in each htmode. *)
WidthTags == [h \in {"HT20", "VHT20", "HT40", "VHT40", "VHT80", "VHT160", "NOHT"} |->
                 CASE h \in {"HT20", "VHT20"} -> {"20"}
                   [] h \in {"HT40", "VHT40"} -> {"40"}
                   [] h = "VHT80"             -> {"80"}
                   [] h = "VHT160"            -> {"160"}
                   [] OTHER                   -> {}]

ASSUME HtMode \in [Radios -> DOMAIN WidthTags]

(* The options the handlers write: wireless.default_r.* (and the device's *)
(* channel), and the network.rita_wlanN section a mesh interface needs.   *)
Fields == {"ssid", "key", "encryption", "mode", "network", "channel",
           "rita_if", "ifname", "proto"}
Keys == Radios \X Fields
ConfigOf(k) == IF k[2] \in {"rita_if", "ifname", "proto"} THEN "network" ELSE "wireless"

VARIABLES
    committed,  \* the UCI config files: each option's value
    staged,     \* the changes uci set has staged and no commit has written
    listening   \* the wlan interfaces PeerListener listens on

vars == <<committed, staged, listening>>

(***************************************************************************)
(* One KI call, as a record.  "set" is set_uci_var, "commit" uci_commit   *)
(* of the configs in cfgs, "get" get_uci_var, "reset" openwrt_reset_      *)
(* wireless, "sync" fs_sync; "listen"/"unlisten" are the do_send to       *)
(* PeerListener, which cannot fail.                                        *)
(***************************************************************************)
Set(r, f, v) == [op |-> "set", key |-> <<r, f>>, val |-> v]
Commit(cfgs) == [op |-> "commit", cfgs |-> cfgs]
Call(name)   == [op |-> name]
Listen(r)    == [op |-> "listen", iface |-> r]
UnListen(r)  == [op |-> "unlisten", iface |-> r]
AllConfigs   == {"wireless", "network"}

Fallible(c) == c.op \notin {"listen", "unlisten"}

(* The UCI value a get_uci_var reads: the staged one if there is one. *)
Read(k) == IF staged[k] # NoValue THEN staged[k] ELSE committed[k]

(* The effect of one call on [committed, staged, listening]. *)
Step(c, s) ==
    CASE c.op = "set" ->
            [s EXCEPT !.staged[c.key] = c.val]
      [] c.op = "commit" ->
            [s EXCEPT
               !.committed = [k \in Keys |-> IF ConfigOf(k) \in c.cfgs /\ s.staged[k] # NoValue
                                              THEN s.staged[k] ELSE s.committed[k]],
               !.staged = [k \in Keys |-> IF ConfigOf(k) \in c.cfgs THEN NoValue ELSE s.staged[k]]]
      [] c.op = "listen"   -> [s EXCEPT !.listening = @ \cup {c.iface}]
      [] c.op = "unlisten" -> [s EXCEPT !.listening = @ \ {c.iface}]
      [] OTHER             -> s

RECURSIVE Exec(_, _)
Exec(calls, s) == IF calls = <<>> THEN s ELSE Exec(Tail(calls), Step(Head(calls), s))

(* How many calls a handler gets through: all of them, or those before a  *)
(* call that fails and returns through `?`.                                *)
Stops(calls) ==
    {Len(calls)} \cup
    IF UciFaults THEN {n \in 0 .. Len(calls) - 1 : Fallible(calls[n + 1])} ELSE {}

(* A handler runs its calls in order up to the first failure. *)
RunHandler(calls) ==
    \E n \in Stops(calls) :
        LET s == Exec(SubSeq(calls, 1, n),
                      [committed |-> committed, staged |-> staged, listening |-> listening])
        IN /\ committed' = s.committed
           /\ staged' = s.staged
           /\ listening' = s.listening

(***************************************************************************)
(* validate_channel: the request is refused when it changes band, or when *)
(* the new channel is not in the list for its band and for each width     *)
(* marker the htmode contains, or (on a gl-b1300) not in the 80 MHz list  *)
(* of that model.  Each conjunct is one `else if` of the code.            *)
(***************************************************************************)
AllowedTwo   == {1, 6, 11}
AllowedFive20 == {36, 40, 44, 48, 52, 56, 60, 64, 100, 104, 108, 112, 116,
                  132, 136, 140, 144, 149, 153, 157, 161, 165}
AllowedFive40 == {36, 44, 52, 60, 100, 108, 116, 124, 132, 140, 149, 157}
AllowedFive80 == {36, 52, 100, 116, 132, 149}
AllowedFive80B1300 == {36, 149}
AllowedFive160 == {36, 100}

ValidateChannel(old, new, width) ==
    LET two(c) == c < 20
        w == WidthTags[width]
    IN /\ two(old) = two(new)
       /\ two(new) => new \in AllowedTwo
       /\ ~two(new) /\ "20" \in w => new \in AllowedFive20
       /\ ~two(new) /\ "40" \in w => new \in AllowedFive40
       /\ ~two(new) /\ "80" \in w => new \in AllowedFive80
       /\ ~two(new) /\ "160" \in w => new \in AllowedFive160
       /\ Device = "gl-b1300" /\ ~two(new) /\ "80" \in w => new \in AllowedFive80B1300

(***************************************************************************)
(* Handlers.  A request that fails validation, or whose first get_uci_var *)
(* fails, is answered without a change: a stuttering step.                *)
(***************************************************************************)

(* SetWifiConfig, for one interface: a mesh interface gets the mesh       *)
(* options, a commit and a wireless reset, then PeerListener listens on   *)
(* it; an access point gets the user's options, PeerListener stops        *)
(* listening before the commit.  The loop is followed by a final commit,  *)
(* reset and fs_sync.                                                      *)
MeshCalls(r) ==
    <<Set(r, "ssid", "AltheaMesh"), Set(r, "encryption", "none"), Set(r, "mode", "adhoc"),
      Set(r, "network", "wlan"), Set(r, "rita_if", "interface"), Set(r, "ifname", "wlan"),
      Set(r, "proto", "static"), Commit(AllConfigs), Call("reset"), Listen(r)>>
ApCalls(r) ==
    <<Set(r, "ssid", "UserSsid"), Set(r, "key", "UserKey"), Set(r, "mode", "ap"),
      Set(r, "encryption", "psk2+tkip+aes"), Set(r, "network", "lan"), UnListen(r),
      Commit(AllConfigs), Call("reset")>>
SetWifiConfig(r, mesh) ==
    RunHandler((IF mesh THEN MeshCalls(r) ELSE ApCalls(r))
               \o <<Commit(AllConfigs), Call("reset"), Call("sync")>>)

(* The Dashboard actor's SetWiFiSSID and SetWiFiPass: commit every config. *)
SetWiFiSSID(r) == RunHandler(<<Set(r, "ssid", "UserSsid"), Commit(AllConfigs), Call("reset"), Call("sync")>>)
SetWiFiPass(r) == RunHandler(<<Set(r, "key", "UserKey"), Commit(AllConfigs), Call("reset"), Call("sync")>>)

(* wifi.rs: a valid value is staged and the wireless config committed. *)
set_wifi_ssid(r) == RunHandler(<<Set(r, "ssid", "UserSsid"), Commit({"wireless"}), Call("reset"), Call("sync")>>)
set_wifi_pass(r) == RunHandler(<<Set(r, "key", "UserKey"), Commit({"wireless"}), Call("reset"), Call("sync")>>)

(* set_wifi_channel reads the current channel (staged or committed) and   *)
(* the htmode, validates, then stages, commits, resets and syncs.          *)
set_wifi_channel(r, ch) ==
    /\ ValidateChannel(Read(<<r, "channel">>), ch, HtMode[r])
    /\ RunHandler(<<Set(r, "channel", ch), Commit({"wireless"}), Call("reset"), Call("sync")>>)

(* A radio's options as an access point on the LAN, or as a mesh interface. *)
ApConfig(ch) == [ssid |-> "UserSsid", key |-> "UserKey", encryption |-> "psk2+tkip+aes",
                 mode |-> "ap", network |-> "lan", channel |-> ch,
                 rita_if |-> NoValue, ifname |-> NoValue, proto |-> NoValue]
MeshConfig(ch) == [ssid |-> "AltheaMesh", key |-> "UserKey", encryption |-> "none",
                   mode |-> "adhoc", network |-> "wlan", channel |-> ch,
                   rita_if |-> "interface", ifname |-> "wlan", proto |-> "static"]

Init ==
    \E cfg \in [Radios -> {ApConfig(c) : c \in Channels} \cup {MeshConfig(c) : c \in Channels}] :
        /\ committed = [k \in Keys |-> cfg[k[1]][k[2]]]
        /\ staged = [k \in Keys |-> NoValue]
        /\ listening = {r \in Radios : cfg[r].mode = "adhoc"}

Next ==
    \E r \in Radios :
        \/ \E mesh \in BOOLEAN : SetWifiConfig(r, mesh)
        \/ SetWiFiSSID(r)
        \/ SetWiFiPass(r)
        \/ set_wifi_ssid(r)
        \/ set_wifi_pass(r)
        \/ \E ch \in Channels : set_wifi_channel(r, ch)

Spec == Init /\ [][Next]_vars

-----------------------------------------------------------------------------
(* Properties *)

Values == {"AltheaMesh", "UserSsid", "UserKey", "none", "psk2+tkip+aes", "adhoc", "ap",
           "wlan", "lan", "interface", "static"} \cup Channels

TypeOK ==
    /\ committed \in [Keys -> Values \cup {NoValue}]
    /\ staged \in [Keys -> Values \cup {NoValue}]
    /\ listening \subseteq Radios

(***************************************************************************)
(* The access point bridged to the LAN is never open: whenever the        *)
(* committed wireless config has a section in ap mode on the lan network, *)
(* its encryption is not none.  SetWifiConfig's mesh options stage        *)
(* encryption none before mode adhoc; this says no sequence of handlers   *)
(* and failing KI calls commits the one without the other.                *)
(***************************************************************************)
LanApEncrypted ==
    \A r \in Radios :
        committed[<<r, "mode">>] = "ap" /\ committed[<<r, "network">>] = "lan"
            => committed[<<r, "encryption">>] # "none"

====
