---------------------------- MODULE KeyRefresh ----------------------------
(***************************************************************************)
(* The key refresh procedure of one subnet and its application key: the    *)
(* Configuration Client (cfg_cli.c) gives every member a new network key   *)
(* and perhaps a new application key, then moves the network to the new    *)
(* keys (Phase 2) and has it forget the old ones (Phase 3).  A member      *)
(* follows its Configuration Server's messages (cfg_srv.c) or the Secure   *)
(* Network beacons of any other member (beacon.c, net.c), whichever comes  *)
(* first; both may be lost or late.                                        *)
(*                                                                         *)
(* Keys are numbered by the refresh that brought them; None is a key that  *)
(* was never set.  The IV index stands still, encryption always succeeds   *)
(* and two keys never share an identifier.  A request that is overtaken by *)
(* a later one to the same member is lost: its sequence number is old.     *)
(* Who issues the calls of the client, and in which order, is the operator *)
(* at its shell: a member gets the keys before Phase 2 begins.  A call     *)
(* waits for a status of its kind, whoever sends it, or times out.  Bound: *)
(* of the statuses on their way to the client only the newest arrives.     *)
(* Members are in no friendship, so no Friend Update moves their phase.    *)
(***************************************************************************)
EXTENDS Integers

CONSTANTS
  Nodes,      \* devices
  Client,     \* the one with the Configuration Client, a member at the start
  Initial,    \* the members at the start
  CliBuilds,  \* devices built with CONFIG_BT_MESH_CFG_CLI
  MaxGen,     \* bound: refreshes
  Settles     \* the operator waits until a refresh is over everywhere

ASSUME KeyRefreshAssumption ==
  /\ Client \in Initial /\ Initial \subseteq Nodes /\ CliBuilds \subseteq Nodes
  /\ MaxGen \in Nat /\ Settles \in BOOLEAN

None == -1
Gen == 0..MaxGen
Key == Gen \cup {None}

\* BT_MESH_KR_NORMAL, _PHASE_1, _PHASE_2 and _PHASE_3.
Normal == 0
Phase1 == 1
Phase2 == 2
Phase3 == 3

\* A Secure Network beacon: its network key and its Key Refresh flag.
Beacon == [key : Key, kr : 0..1]
NoBeacon == [key |-> None, kr |-> 0]

\* A request of the client: its argument is a key or a phase.
Request == [op : {"none", "net", "app", "krp"}, arg : Gen \cup {Phase2, Phase3},
            key : Key]
NoRequest == [op |-> "none", arg |-> 0, key |-> None]

\* A Config NetKey or AppKey Status.  The client sees neither the sender nor the
\* request that it answers (arg); ok is STATUS_SUCCESS.
Status == [op : {"none", "net", "app"}, from : Nodes, arg : Gen, ok : BOOLEAN,
           key : Key]
NoStatus == [op |-> "none", from |-> Client, arg |-> 0, ok |-> FALSE, key |-> None]

\* The client's call under way: cli->op_pending, and whom it is about.
Call == [op : {"none", "net", "app"}, to : Nodes]
NoCall == [op |-> "none", to |-> Client]

VARIABLES
  members,    \* devices that are provisioned
  node,       \* bt_mesh.sub[0] and bt_mesh.app_keys[0] of every device
  gen,        \* the refresh under way, or the last one
  withApp,    \* it renews the application key too
  req,        \* the request under way to each device
  call,       \* the call under way of the client
  status,     \* the status under way to it
  confirmed,  \* what the operator believes that each device has
  amiss,      \* history: devices it believes so by a status of another or of an
              \* earlier refresh, and those that a client amiss provisioned
  early       \* history: in Phase 2 a device got the new key with the flag 0

net == <<req, call, status>>
vars == <<members, node, gen, withApp, net, confirmed, amiss, early>>

\* The state of struct bt_mesh_subnet and of struct bt_mesh_app_key.
Fresh == [phase |-> Normal, flag |-> 0, net0 |-> None, net1 |-> None,
          app0 |-> None, app1 |-> None, updated |-> FALSE, cache |-> NoBeacon]

-----------------------------------------------------------------------------
(***************************************************************************)
(* Which key a device uses, and which it finds.                            *)
(***************************************************************************)
\* bt_mesh_net_encode.
NetKeyOf(x) == IF x.flag = 1 THEN x.net1 ELSE x.net0

\* bt_mesh_trans_send.
AppKeyOf(x) ==
  IF x.phase = Phase2 /\ x.updated THEN x.app1 ELSE x.app0

\* net_find_and_decrypt: the network keys that a device tries.
NetKeysTried(x) ==
  {x.net0} \cup (IF x.phase = Normal THEN {} ELSE {x.net1})

\* rx->new_key: the key at index 1 was needed.
IsNew(x, k) == k # x.net0

\* sdu_recv: the application key that it tries for a PDU under network key k.
AppKeyTried(x, k) ==
  IF IsNew(x, k) /\ x.updated THEN x.app1 ELSE x.app0

\* The network layer of r decrypts what s sends; its upper transport does too.
NetHears(s, r) == NetKeyOf(s) \in NetKeysTried(r)
Hears(s, r) == NetHears(s, r) /\ AppKeyOf(s) = AppKeyTried(r, NetKeyOf(s))

-----------------------------------------------------------------------------
(***************************************************************************)
(* The procedure in one device.                                            *)
(***************************************************************************)
\* cache_add and cache_check: the last beacon is ignored if it comes again.  With
\* the flag 0 it would change nothing, and under a key that is no longer tried it
\* is not seen: the cache need not remember these.
Remember(b) == IF b.kr = 1 THEN b ELSE NoBeacon
Forget(x) == IF x.cache.key = x.net1 THEN x.cache ELSE NoBeacon

\* Plausible slip: updated stays.
RevokeKeepsMark(x) ==
  [x EXCEPT !.net0 = x.net1,
            !.app0 = IF x.updated THEN x.app1 ELSE @,
            !.cache = Forget(x)]

\* bt_mesh_net_revoke_keys.
RevokeKeys(x) ==
  [x EXCEPT !.net0 = x.net1,
            !.app0 = IF x.updated THEN x.app1 ELSE @,
            !.updated = FALSE,
            !.cache = Forget(x)]

\* bt_mesh_kr_update.
KrUpdate(x, kr, newKey) ==
  LET y == [x EXCEPT !.flag = kr]
  IN  IF x.phase = Normal THEN x
      ELSE IF kr = 1
             THEN [y EXCEPT !.phase = Phase2]
      ELSE IF x.phase = Phase2 \/ newKey
             THEN [RevokeKeys(y) EXCEPT !.phase = Normal]
      ELSE y

\* bt_mesh_beacon_create and bt_mesh_net_beacon_update.
BeaconOf(n) ==
  [key |-> IF n \in CliBuilds THEN node[n].net0 ELSE NetKeyOf(node[n]),
   kr |-> node[n].flag]

\* Plausible slip: a beacon under the old key counts in Phase 2.
SecureBeaconRecvOld(x, b) ==
  IF b = x.cache \/ b.key \notin NetKeysTried(x) THEN x
  ELSE KrUpdate([x EXCEPT !.cache = Remember(b)], b.kr, IsNew(x, b.key))

\* secure_beacon_recv with cache_check, bt_mesh_subnet_find and cache_add.
SecureBeaconRecv(x, b) ==
  IF \/ b = x.cache
     \/ b.key \notin NetKeysTried(x)
     \/ (x.phase = Phase2 /\ ~IsNew(x, b.key))
  THEN x
  ELSE KrUpdate([x EXCEPT !.cache = Remember(b)], b.kr, IsNew(x, b.key))

\* What NetKey Update does to the subnet, net_key_update.
NetKeyUpdate(x, k) ==
  IF x.phase = Normal /\ k # x.net0
  THEN [x EXCEPT !.net1 = k, !.phase = Phase1]
  ELSE x

\* Its status, which is STATUS_SUCCESS whatever happened; a key that is in use
\* already gets none.
NetKeyStatus(x, k) == ~(x.phase = Normal /\ k = x.net0)

\* app_key_set with update.
AppKeyUpdate(x, k) ==
  IF x.phase = Phase1 /\ ~x.updated
  THEN [x EXCEPT !.app1 = k, !.updated = TRUE]
  ELSE x

\* It is STATUS_SUCCESS.
AppKeyStatus(x, k) == x.phase = Phase1 /\ (x.updated => k = x.app1)

\* Plausible slip: the mark of Phase 2 stays when the procedure is over.
KrpSetKeepsFlag(x, phase) ==
  CASE x.phase = Phase1 /\ phase = Phase2 ->
         [x EXCEPT !.phase = Phase2, !.flag = 1]
    [] x.phase \in {Phase1, Phase2} /\ phase = Phase3 ->
         [RevokeKeys(x) EXCEPT !.phase = Normal]
    [] OTHER -> x

\* krp_set, and what bt_mesh_cfg_krp_set does to the client itself.
KrpSet(x, phase) ==
  CASE x.phase = Phase1 /\ phase = Phase2 ->
         [x EXCEPT !.phase = Phase2, !.flag = 1]
    [] x.phase \in {Phase1, Phase2} /\ phase = Phase3 ->
         [RevokeKeys(x) EXCEPT !.phase = Normal, !.flag = 0]
    [] OTHER -> x

\* bt_mesh_net_create with the flags and the key of the provisioning data, and
\* app_key_set without update.
NetCreate(kr, k, app) ==
  IF kr = 1
  THEN [Fresh EXCEPT !.flag = 1, !.phase = Phase2, !.net1 = k, !.app0 = app]
  ELSE [Fresh EXCEPT !.net0 = k, !.app0 = app]

-----------------------------------------------------------------------------
(***************************************************************************)
(* The client.                                                             *)
(***************************************************************************)
Me == node[Client]
Others == members \ {Client}

\* check_cli, bt_mesh_model_send and cli_wait: one call at a time; the PDU is
\* protected by the client's key of the moment.
Send(n, op, arg, x) ==
  /\ call = NoCall
  /\ call' = IF op = "krp" THEN NoCall ELSE [op |-> op, to |-> n]
  /\ node' = [node EXCEPT ![Client] = x]
  /\ req' = [req EXCEPT ![n] = [op |-> op, arg |-> arg, key |-> NetKeyOf(x)]]
  /\ UNCHANGED <<members, gen, withApp, status, confirmed, amiss, early>>

\* Device n has ended refresh gen.
Over(n) == node[n].phase = Normal /\ node[n].net0 = gen

\* The operator begins another refresh, if it waits also after the requests and
\* the statuses of the last one have died away.
StartRefresh ==
  /\ gen < MaxGen
  /\ call = NoCall
  /\ Over(Client)
  /\ Settles => \A n \in members : Over(n)
  /\ gen' = gen + 1
  /\ withApp' \in BOOLEAN
  /\ confirmed' = [n \in Nodes |-> {}]
  /\ req' = IF Settles THEN [n \in Nodes |-> NoRequest] ELSE req
  /\ status' = IF Settles THEN NoStatus ELSE status
  /\ early' = FALSE
  /\ UNCHANGED <<members, node, call, amiss>>

\* bt_mesh_cfg_net_key_update.
CliNetKeyUpdate(n) ==
  /\ n \in Others
  /\ "net" \notin confirmed[n]
  /\ Me.phase # Phase2 /\ ~Over(Client)
  /\ Send(n, "net", gen, [Me EXCEPT !.net1 = gen, !.phase = Phase1])

\* bt_mesh_cfg_app_key_update; the client sends itself one too.
CliAppKeyUpdate(n) ==
  /\ n \in members
  /\ withApp /\ "app" \notin confirmed[n]
  /\ Me.phase = Phase1
  /\ n # Client => "net" \in confirmed[n]
  /\ Send(n, "app", gen, Me)

\* The operator has seen that every member has the new keys.
KeysGiven ==
  /\ \A n \in Others : "net" \in confirmed[n]
  /\ withApp => \A n \in members : "app" \in confirmed[n]

\* bt_mesh_cfg_krp_set.  Nothing handles the status that it waits for, so it
\* times out and the operator cannot know that a member is in Phase 2.
CliKrpSet2(n) ==
  /\ n \in Others
  /\ (Me.phase = Phase1 /\ KeysGiven) \/ Me.phase = Phase2
  /\ Send(n, "krp", Phase2, KrpSet(Me, Phase2))

CliKrpSet3(n) ==
  /\ n \in Others
  /\ Me.phase = Phase2 \/ (gen > 0 /\ Over(Client))
  /\ Send(n, "krp", Phase3, KrpSet(Me, Phase3))

\* net_key_status and app_key_status: a status ends the call that waits for one
\* of its kind, whichever device sent it and whenever; another is ignored.
StatusRecv ==
  /\ status # NoStatus /\ status.key \in NetKeysTried(Me)
  /\ status' = NoStatus
  /\ IF call.op = status.op
       THEN /\ call' = NoCall
            /\ confirmed' = [confirmed EXCEPT ![call.to] =
                               @ \cup IF status.ok THEN {status.op} ELSE {}]
            /\ amiss' = IF status.from = call.to /\ status.arg = gen THEN amiss
                        ELSE amiss \cup {call.to}
       ELSE UNCHANGED <<call, confirmed, amiss>>
  /\ UNCHANGED <<members, node, gen, withApp, req, early>>

\* cli_wait: k_sem_take times out.
Timeout ==
  /\ call # NoCall
  /\ call' = NoCall
  /\ UNCHANGED <<members, node, gen, withApp, req, status, confirmed, amiss, early>>

(***************************************************************************)
(* A device is provisioned with the client's key of the moment             *)
(* (bt_mesh_provisioner_net_key_get, bt_mesh_net_create).  The provisioner *)
(* of this repository reads the flags once, at its start, so that it       *)
(* always hands out the Key Refresh flag 0; another one hands out the      *)
(* client's.                                                               *)
(***************************************************************************)
Join(n, kr) ==
  /\ n \notin members
  /\ kr \in {0, Me.flag}
  /\ members' = members \cup {n}
  /\ node' = [node EXCEPT ![n] = NetCreate(kr, NetKeyOf(Me), AppKeyOf(Me))]
  /\ early' = (early \/ kr # Me.flag)
  /\ amiss' = IF Client \in amiss THEN amiss \cup {n} ELSE amiss
  /\ UNCHANGED <<gen, withApp, net, confirmed>>

-----------------------------------------------------------------------------
(***************************************************************************)
(* The network.                                                            *)
(***************************************************************************)
\* A device handles the request under way to it and sends its status.
Deliver(n) ==
  LET r == req[n]
      x == node[n]
      y == CASE r.op = "net" -> NetKeyUpdate(x, r.arg)
             [] r.op = "app" -> AppKeyUpdate(x, r.arg)
             [] OTHER -> KrpSet(x, r.arg)
      Reply(ok) == [op |-> r.op, from |-> n, arg |-> r.arg, ok |-> ok,
                    key |-> NetKeyOf(y)]
  IN  /\ r # NoRequest
      /\ r.key \in NetKeysTried(x)
      /\ node' = [node EXCEPT ![n] = y]
      /\ req' = [req EXCEPT ![n] = NoRequest]
      /\ status' \in {status} \cup
           CASE r.op = "net" -> IF NetKeyStatus(x, r.arg) THEN {Reply(TRUE)} ELSE {}
             [] r.op = "app" -> {Reply(AppKeyStatus(x, r.arg))}
             [] OTHER -> {}
      /\ UNCHANGED <<members, gen, withApp, call, confirmed, amiss, early>>

\* A device hears the beacon of another.
Hear(n, m) ==
  /\ n \in members /\ m \in members \ {n}
  /\ node' = [node EXCEPT ![n] = SecureBeaconRecv(@, BeaconOf(m))]
  /\ UNCHANGED <<members, gen, withApp, net, confirmed, amiss, early>>

-----------------------------------------------------------------------------
Init ==
  /\ members = Initial
  /\ node = [n \in Nodes |-> IF n \in Initial THEN NetCreate(0, 0, 0) ELSE Fresh]
  /\ gen = 0
  /\ withApp = FALSE
  /\ req = [n \in Nodes |-> NoRequest]
  /\ call = NoCall
  /\ status = NoStatus
  /\ confirmed = [n \in Nodes |-> {}]
  /\ amiss = {}
  /\ early = FALSE

Next ==
  \/ StartRefresh
  \/ StatusRecv
  \/ Timeout
  \/ \E n \in Nodes : \/ CliNetKeyUpdate(n)
                      \/ CliAppKeyUpdate(n)
                      \/ CliKrpSet2(n)
                      \/ CliKrpSet3(n)
                      \/ \E kr \in 0..1 : Join(n, kr)
                      \/ Deliver(n)
                      \/ \E m \in Nodes : Hear(n, m)

\* The call of a key update, the request that reaches its member while the client
\* waits for the status, and that status when it reaches the client.
Called(n) == CliNetKeyUpdate(n) \/ CliAppKeyUpdate(n)
Reached(n) ==
  /\ call = [op |-> req[n].op, to |-> n] /\ Deliver(n)
  /\ status'.from = n /\ status'.op = call.op
Answered(n) == call = [op |-> status.op, to |-> n] /\ status.from = n /\ StatusRecv

\* A beacon that moves device n to another phase.
Moved(n) ==
  \E m \in Nodes : Hear(n, m) /\ node'[n].phase # node[n].phase

(***************************************************************************)
(* The operator repeats the key updates until all were answered, and the   *)
(* radio gets some request and some status through before the client gives *)
(* up, when they are tried again and again.  Of the calls for Phase 2 and  *)
(* Phase 3 only some are made, perhaps always to the same member.  A call  *)
(* that is not answered times out.  Beacons are sent for ever and some are *)
(* heard.                                                                  *)
(***************************************************************************)
Fairness ==
  /\ SF_vars(\E n \in Nodes : Called(n))
  /\ SF_vars(\E n \in Nodes : Reached(n))
  /\ SF_vars(\E n \in Nodes : Answered(n))
  /\ SF_vars(\E n \in Nodes : CliKrpSet2(n))
  /\ SF_vars(\E n \in Nodes : CliKrpSet3(n))
  /\ WF_vars(\E n \in Nodes : Moved(n))
  /\ WF_vars(Timeout)

Spec == Init /\ [][Next]_vars /\ Fairness

-----------------------------------------------------------------------------
\* The type invariant, with: kr_flag is set in Phase 2 and in no other phase
\* (bt_mesh_kr_update, krp_set, bt_mesh_net_create).
TypeOK ==
  /\ members \subseteq Nodes
  /\ node \in [Nodes -> [phase : {Normal, Phase1, Phase2}, flag : 0..1,
                         net0 : Key, net1 : Key, app0 : Key, app1 : Key,
                         updated : BOOLEAN, cache : Beacon]]
  /\ \A n \in Nodes : node[n].flag = 1 <=> node[n].phase = Phase2
  /\ gen \in Gen /\ withApp \in BOOLEAN
  /\ req \in [Nodes -> Request]
  /\ call \in Call /\ status \in Status
  /\ confirmed \in [Nodes -> SUBSET {"net", "app"}]
  /\ amiss \subseteq Nodes /\ early \in BOOLEAN

(***************************************************************************)
(* Whatever a member sends, every other member decrypts at both layers, at *)
(* any moment of a refresh.  The exceptions: a member still in Phase 1,    *)
(* which sends under the old key: one that joined with the new key never   *)
(* hears it, and the others give up the old key, but none of them before   *)
(* the client does, unless a device joined in Phase 2 with the flag 0,     *)
(* whose beacons end the refresh for all that hear them; and members about *)
(* which the client was misled by a status that was not theirs             *)
(* (net_key_status, app_key_status look at the key index only).            *)
(***************************************************************************)
Understood ==
  \A s, r \in members \ amiss :
    \/ Hears(node[s], node[r])
    \/ /\ node[s].phase = Phase1
       /\ node[s].net0 \notin NetKeysTried(node[r])
       /\ node[r].net0 = None \/ Over(Client) \/ early

(***************************************************************************)
(* A refresh that was begun ends: every member has the new keys and no     *)
(* other.  A member about which the client was misled may be left behind,  *)
(* and if there is an application key to renew it can hold up the others:  *)
(* it refuses that key for ever (app_key_set outside Phase 1).             *)
(***************************************************************************)
RefreshEnds ==
  \A g \in 1..MaxGen :
    gen = g ~> \/ gen > g
               \/ withApp /\ amiss # {}
               \/ \A n \in members \ amiss :
                    /\ Over(n)
                    /\ ~node[n].updated
                    /\ withApp => node[n].app0 = gen
=============================================================================
