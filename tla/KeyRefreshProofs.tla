-------------------------- MODULE KeyRefreshProofs --------------------------
(***************************************************************************)
(* Proofs about KeyRefresh, for any set of devices, any of them built with *)
(* the client, and any number of refreshes.                                *)
(*                                                                         *)
(* The argument: a member is in one of three places, with the old keys,    *)
(* with the new ones, or joined in Phase 2 without old keys.  It leaves    *)
(* the old keys behind only after the client went to Phase 2, and by then  *)
(* every member has the new ones, because the client was told so, unless it *)
(* was misled about that member.                                           *)
(***************************************************************************)
EXTENDS KeyRefresh, TLAPS

\* What TypeOK says of one device.
State == [phase : {Normal, Phase1, Phase2}, flag : 0..1,
          net0 : Key, net1 : Key, app0 : Key, app1 : Key,
          updated : BOOLEAN, cache : Beacon]

Flagged(x) == x.flag = 1 <=> x.phase = Phase2

\* Device state x has the keys from before refresh g.
Old(x, g) == g > 0 /\ x.net0 = g - 1

\* Device state y is no earlier in refresh g than x, as long as its keys are old.
Later(x, y, g) ==
  Old(y, g) => /\ Old(x, g) /\ x.phase <= y.phase
               /\ x.updated => y.updated

\* A status of kind op speaks the truth about device state x.
Has(x, g, op) ==
  /\ op = "net" /\ Old(x, g) => x.phase # Normal
  /\ op = "app" /\ Old(x, g) => x.updated

\* The client has begun Phase 2 of the refresh; some device may have ended it.
Past == Me.phase = Phase2 \/ Over(Client)
Ended == Over(Client) \/ early

(***************************************************************************)
(* Device state x fits refresh g, which renews the application key or not  *)
(* (app), while the client is past Phase 1 (past), the refresh may have    *)
(* ended somewhere (over) and the client was not misled about the device   *)
(* (sure).                                                                 *)
(***************************************************************************)
Placed(x, g, app, past, over, sure) ==
  \/ /\ Old(x, g)
     /\ x.phase # Normal => x.net1 = g
     /\ x.updated => x.phase # Normal /\ app /\ x.app1 = g
     /\ x.phase = Phase2 => past
     /\ past /\ sure => x.phase # Normal /\ x.updated = app
  \/ x.net0 = g /\ x.phase = Normal /\ ~x.updated /\ over
  \/ /\ g > 0
     /\ x.net0 = None /\ x.net1 = g /\ x.phase = Phase2 /\ ~x.updated /\ past

Members ==
  /\ Client \in members /\ Me.net0 # None /\ (early => Past)
  /\ \A n \in members : Placed(node[n], gen, withApp, Past, Ended, n \notin amiss)

\* Members with keys of one age have the same application key.
Apps ==
  \A m, n \in members \ amiss :
    /\ ~withApp \/ (Old(node[m], gen) /\ Old(node[n], gen)) =>
         node[m].app0 = node[n].app0
    /\ withApp /\ ~Old(node[n], gen) => node[n].app0 = gen

\* A request is one of this refresh, and asks for no more than the client did.
Asked(n, r, past, over) ==
  \/ r = NoRequest
  \/ /\ gen > 0
     /\ \/ r.op = "net" /\ r.arg = gen /\ n # Client
        \/ r.op = "app" /\ r.arg = gen /\ withApp
        \/ /\ r.op = "krp" /\ n # Client
           /\ \/ r.arg = Phase2 /\ past
              \/ r.arg = Phase3 /\ over

Requests ==
  \A n \in Nodes : /\ Asked(n, req[n], Past, Ended)
                   /\ req[n] # NoRequest => n \in members

\* What a status under way says of its sender is true, and so is what the client
\* believes of a member about which it was not misled.
Told ==
  /\ status.op # "none" =>
       /\ status.from \in members
       /\ status.ok => Has(node[status.from], gen, status.op)
  /\ \A n \in Nodes \ amiss :
       /\ confirmed[n] # {} => n \in members
       /\ \A op \in confirmed[n] : Has(node[n], gen, op)

\* The type invariant, with the arguments of the key updates.
Typed ==
  /\ TypeOK
  /\ \A n \in Nodes : req[n].op \in {"net", "app"} => req[n].arg \in Gen
  /\ status.op = "none" => status = NoStatus

IInv == Typed /\ Members /\ Apps /\ Requests /\ Told
-----------------------------------------------------------------------------
(***************************************************************************)
(* What the operators on one device do, first to the types.                *)
(***************************************************************************)
LEMMA BasicTypes ==
  /\ gen \in Gen => gen \in Key
  /\ None \in Key /\ Gen \subseteq Int /\ Key \subseteq Int /\ Client \in Nodes
  /\ Fresh \in State /\ NoBeacon \in Beacon
  BY KeyRefreshAssumption DEF Key, Gen, None, Fresh, State, NoBeacon, Beacon, Normal,
                              Phase1, Phase2

\* The phases differ.
LEMMA Phases ==
  /\ Normal = 0 /\ Phase1 = 1 /\ Phase2 = 2 /\ Phase3 = 3
  BY DEF Normal, Phase1, Phase2, Phase3

LEMMA RevokeType ==
  ASSUME NEW x \in State
  PROVE  /\ RevokeKeys(x) \in State
         /\ RevokeKeys(x).phase = x.phase /\ RevokeKeys(x).flag = x.flag
         /\ RevokeKeys(x).net0 = x.net1 /\ RevokeKeys(x).net1 = x.net1
         /\ RevokeKeys(x).app0 = IF x.updated THEN x.app1 ELSE x.app0
         /\ ~RevokeKeys(x).updated
  BY BasicTypes DEF RevokeKeys, Forget, State

LEMMA KrUpdateType ==
  ASSUME NEW x \in State, Flagged(x), NEW kr \in 0..1, NEW newKey \in BOOLEAN
  PROVE  KrUpdate(x, kr, newKey) \in State /\ Flagged(KrUpdate(x, kr, newKey))
<1> DEFINE y == [x EXCEPT !.flag = kr]
<1>1. y \in State
  BY DEF State
<1>2. RevokeKeys(y) \in State
  BY <1>1, RevokeType
<1>3. KrUpdate(x, kr, newKey) \in State
  <2>1. [y EXCEPT !.phase = Phase2] \in State
    BY <1>1 DEF State
  <2>2. [RevokeKeys(y) EXCEPT !.phase = Normal] \in State
    BY <1>2 DEF State
  <2> QED BY <1>1, <2>1, <2>2 DEF KrUpdate
<1>4. Flagged(KrUpdate(x, kr, newKey))
  <2>1. x.phase \in {0, 1, 2}
    BY Phases DEF State
  <2>2. CASE x.phase = Normal
    BY <2>2 DEF KrUpdate
  <2>3. CASE x.phase # Normal /\ kr = 1
    BY <1>1, <2>3 DEF KrUpdate, State, Flagged
  <2>4. CASE x.phase # Normal /\ kr = 0 /\ (x.phase = Phase2 \/ newKey)
    BY <1>1, <1>2, <2>4, RevokeType, Phases DEF KrUpdate, State, Flagged
  <2>5. CASE x.phase # Normal /\ kr = 0 /\ ~(x.phase = Phase2 \/ newKey)
    BY <1>1, <2>5 DEF KrUpdate, State, Flagged
  <2> QED BY <2>2, <2>3, <2>4, <2>5
<1> QED BY <1>3, <1>4

LEMMA BeaconRecvType ==
  ASSUME NEW x \in State, Flagged(x), NEW b \in Beacon
  PROVE  SecureBeaconRecv(x, b) \in State /\ Flagged(SecureBeaconRecv(x, b))
<1> DEFINE y == [x EXCEPT !.cache = Remember(b)]
<1>0. Remember(b) \in Beacon
  BY BasicTypes DEF Remember
<1>1. y \in State /\ Flagged(y) /\ b.kr \in 0..1 /\ IsNew(x, b.key) \in BOOLEAN
  BY <1>0 DEF State, Flagged, Beacon, IsNew
<1>2. /\ KrUpdate(y, b.kr, IsNew(x, b.key)) \in State
      /\ Flagged(KrUpdate(y, b.kr, IsNew(x, b.key)))
  BY <1>1, KrUpdateType
<1> QED BY <1>2 DEF SecureBeaconRecv

LEMMA NetKeyUpdateType ==
  ASSUME NEW x \in State, Flagged(x), NEW k \in Gen
  PROVE  NetKeyUpdate(x, k) \in State /\ Flagged(NetKeyUpdate(x, k))
<1>1. NetKeyUpdate(x, k) \in State
  <2>1. k \in Key
    BY DEF Key
  <2> QED BY <2>1 DEF NetKeyUpdate, State
<1>2. Flagged(NetKeyUpdate(x, k))
  BY Phases DEF NetKeyUpdate, State, Flagged
<1> QED BY <1>1, <1>2

LEMMA AppKeyUpdateType ==
  ASSUME NEW x \in State, Flagged(x), NEW k \in Gen
  PROVE  AppKeyUpdate(x, k) \in State /\ Flagged(AppKeyUpdate(x, k))
  BY DEF AppKeyUpdate, State, Flagged, Key

LEMMA KrpSetType ==
  ASSUME NEW x \in State, Flagged(x), NEW phase
  PROVE  KrpSet(x, phase) \in State /\ Flagged(KrpSet(x, phase))
<1>1. RevokeKeys(x) \in State
  BY RevokeType
<1>2. KrpSet(x, phase) \in State
  <2>0. ASSUME NEW z \in State, NEW p \in {Normal, Phase1, Phase2}, NEW f \in 0..1
        PROVE  [z EXCEPT !.phase = p, !.flag = f] \in State
    BY DEF State
  <2>1. 0 \in 0..1 /\ 1 \in 0..1
    OBVIOUS
  <2>2. [x EXCEPT !.phase = Phase2, !.flag = 1] \in State
    BY <2>0, <2>1, Zenon
  <2>3. [RevokeKeys(x) EXCEPT !.phase = Normal, !.flag = 0] \in State
    BY <1>1, <2>0, <2>1, Zenon
  <2> QED BY <2>2, <2>3 DEF KrpSet
<1>3. Flagged(KrpSet(x, phase))
  <2>1. CASE x.phase = Phase1 /\ phase = Phase2
    <3>1. KrpSet(x, phase) = [x EXCEPT !.phase = Phase2, !.flag = 1]
      BY <2>1, Phases DEF KrpSet
    <3> QED BY <3>1 DEF State, Flagged
  <2>2. CASE x.phase \in {Phase1, Phase2} /\ phase = Phase3
    <3>1. KrpSet(x, phase) = [RevokeKeys(x) EXCEPT !.phase = Normal, !.flag = 0]
      BY <2>2, Phases DEF KrpSet
    <3> QED BY <1>1, <3>1, Phases DEF State, Flagged
  <2>3. CASE ~(x.phase = Phase1 /\ phase = Phase2) /\ ~(x.phase \in {Phase1, Phase2} /\ phase = Phase3)
    BY <2>3 DEF KrpSet
  <2> QED BY <2>1, <2>2, <2>3
<1> QED BY <1>2, <1>3

LEMMA NetCreateType ==
  ASSUME NEW kr \in 0..1, NEW k \in Key, NEW app \in Key
  PROVE  NetCreate(kr, k, app) \in State /\ Flagged(NetCreate(kr, k, app))
<1>1. NetCreate(kr, k, app) \in State
  BY BasicTypes DEF NetCreate, State
<1>2. Flagged(NetCreate(kr, k, app))
  BY Phases DEF NetCreate, Fresh, Flagged
<1> QED BY <1>1, <1>2

LEMMA KeysOf ==
  ASSUME NEW x \in State
  PROVE  NetKeyOf(x) \in Key /\ AppKeyOf(x) \in Key
  BY DEF NetKeyOf, AppKeyOf, State

LEMMA BeaconType ==
  ASSUME TypeOK, NEW n \in Nodes
  PROVE  BeaconOf(n) \in Beacon
  BY KeysOf DEF TypeOK, State, BeaconOf, Beacon

-----------------------------------------------------------------------------
LEMMA StateOf ==
  ASSUME TypeOK, NEW n \in Nodes
  PROVE  node[n] \in State /\ Flagged(node[n])
  BY DEF TypeOK, State, Flagged

LEMMA InitTyped == Init => Typed
<1> SUFFICES ASSUME Init PROVE Typed
  OBVIOUS
<1>1. 0 \in Gen /\ 0 \in Key /\ NoRequest \in Request
  BY KeyRefreshAssumption DEF Gen, Key, NoRequest, Request, None
<1>2. NetCreate(0, 0, 0) \in State /\ Flagged(NetCreate(0, 0, 0))
  BY <1>1, NetCreateType
<1>3. Fresh \in State /\ Flagged(Fresh)
  BY BasicTypes DEF Fresh, Flagged, Normal, Phase2
<1>4. node \in [Nodes -> State] /\ \A n \in Nodes : Flagged(node[n])
  BY <1>2, <1>3 DEF Init
<1>5. members \subseteq Nodes /\ req \in [Nodes -> Request]
  BY <1>1, KeyRefreshAssumption DEF Init
<1>6. NoCall \in Call /\ NoStatus \in Status
  BY <1>1, BasicTypes DEF NoCall, Call, NoStatus, Status
<1>7. TypeOK
  BY <1>1, <1>4, <1>5, <1>6 DEF Init, TypeOK, State, Flagged
<1> QED BY <1>1, <1>7 DEF Init, Typed, NoRequest

\* A step that changes device n to y and request m to r keeps the types.
LEMMA DeviceTyped ==
  ASSUME Typed, NEW n \in Nodes, NEW m \in Nodes, NEW y \in State, Flagged(y),
         NEW r \in Request, r.op \in {"net", "app"} => r.arg \in Gen,
         node' = [node EXCEPT ![n] = y],
         req' = req \/ req' = [req EXCEPT ![m] = r],
         confirmed' \in [Nodes -> SUBSET {"net", "app"}],
         members' \subseteq Nodes, UNCHANGED <<gen, withApp>>,
         call' \in Call, status' \in Status, status'.op = "none" => status' = NoStatus,
         amiss' \subseteq Nodes, early' \in BOOLEAN
  PROVE  Typed'
<1>1. node' \in [Nodes -> State] /\ \A k \in Nodes : Flagged(node'[k])
  BY StateOf DEF Typed, TypeOK, State
<1>2. /\ req' \in [Nodes -> Request]
      /\ \A k \in Nodes : req'[k].op \in {"net", "app"} => req'[k].arg \in Gen
  BY DEF Typed, TypeOK
<1> QED BY <1>1, <1>2 DEF Typed, TypeOK, State, Flagged

LEMMA TypedStep == Typed /\ [Next]_vars => Typed'
<1> SUFFICES ASSUME Typed, [Next]_vars PROVE Typed'
  OBVIOUS
<1>0. TypeOK /\ Client \in Nodes /\ Me \in State /\ Flagged(Me) /\ gen \in Key
  BY StateOf, BasicTypes DEF Typed, TypeOK, Me
<1>a. /\ \A n \in Nodes : node[n] \in State /\ Flagged(node[n]) /\ req[n] \in Request
      /\ gen \in Gen /\ NoRequest \in Request /\ NoRequest.op \notin {"net", "app"}
      /\ confirmed \in [Nodes -> SUBSET {"net", "app"}] /\ members \subseteq Nodes
      /\ amiss \subseteq Nodes /\ early \in BOOLEAN
  BY <1>0, StateOf, KeyRefreshAssumption
     DEF TypeOK, NoRequest, Request, None, Key, Gen
<1>b. /\ call \in Call /\ NoCall \in Call
      /\ status \in Status /\ NoStatus \in Status /\ NoStatus.op = "none"
      /\ status.op = "none" => status = NoStatus
  <2>1. 0 \in Gen /\ None \in Key /\ Client \in Nodes
    BY BasicTypes, KeyRefreshAssumption DEF Gen
  <2>2. NoCall \in Call /\ NoStatus \in Status /\ NoStatus.op = "none"
    BY <2>1 DEF NoCall, Call, NoStatus, Status
  <2> QED BY <2>2 DEF Typed, TypeOK
<1>1. CASE StartRefresh
  <2>1. gen' \in Gen
    BY <1>1, <1>a, KeyRefreshAssumption DEF StartRefresh, Gen
  <2>2. /\ req' \in [Nodes -> Request]
        /\ \A n \in Nodes : req'[n].op \in {"net", "app"} => req'[n].arg \in Gen
    BY <1>1, <1>a DEF StartRefresh, Typed, TypeOK
  <2> QED BY <1>1, <1>b, <2>1, <2>2 DEF StartRefresh, Typed, TypeOK
<1>2. ASSUME NEW n \in Nodes, CliNetKeyUpdate(n) PROVE Typed'
  <2> DEFINE y == [Me EXCEPT !.net1 = gen, !.phase = Phase1]
             r == [op |-> "net", arg |-> gen, key |-> NetKeyOf(y)]
  <2>1. y \in State /\ Flagged(y)
    <3>1. y \in State
      BY <1>0 DEF State
    <3>2. Me.phase # Phase2
      BY <1>2 DEF CliNetKeyUpdate
    <3> QED BY <1>0, <3>1, <3>2, Phases DEF State, Flagged
  <2>2. r \in Request /\ r.arg \in Gen
    BY <1>a, <2>1, KeysOf DEF Request
  <2> HIDE DEF y
  <2>3. call' \in Call
    BY <1>2 DEF CliNetKeyUpdate, Send, Call
  <2> QED BY <1>0, <1>2, <1>a, <1>b, <2>1, <2>2, <2>3, DeviceTyped
          DEF CliNetKeyUpdate, Send, y
<1>3. ASSUME NEW n \in Nodes, CliAppKeyUpdate(n) PROVE Typed'
  <2> DEFINE r == [op |-> "app", arg |-> gen, key |-> NetKeyOf(Me)]
  <2>1. r \in Request /\ r.arg \in Gen
    BY <1>0, <1>a, KeysOf DEF Request
  <2>2. call' \in Call
    BY <1>3 DEF CliAppKeyUpdate, Send, Call
  <2> QED BY <1>0, <1>3, <1>a, <1>b, <2>1, <2>2, DeviceTyped DEF CliAppKeyUpdate, Send
<1>4. ASSUME NEW n \in Nodes, CliKrpSet2(n) \/ CliKrpSet3(n) PROVE Typed'
  <2>1. PICK ph \in {Phase2, Phase3} : Send(n, "krp", ph, KrpSet(Me, ph))
    BY <1>4 DEF CliKrpSet2, CliKrpSet3
  <2>2. KrpSet(Me, ph) \in State /\ Flagged(KrpSet(Me, ph))
    BY <1>0, KrpSetType
  <2> DEFINE r == [op |-> "krp", arg |-> ph, key |-> NetKeyOf(KrpSet(Me, ph))]
  <2>3. r \in Request /\ r.op \notin {"net", "app"}
    BY <2>2, KeysOf DEF Request
  <2> QED BY <1>0, <1>a, <1>b, <2>1, <2>2, <2>3, DeviceTyped DEF Send
<1>5. ASSUME NEW n \in Nodes, NEW kr \in 0..1, Join(n, kr) PROVE Typed'
  <2> DEFINE y == NetCreate(kr, NetKeyOf(Me), AppKeyOf(Me))
  <2>1. y \in State /\ Flagged(y)
    <3>1. NetKeyOf(Me) \in Key /\ AppKeyOf(Me) \in Key
      BY <1>0, KeysOf
    <3> QED BY <3>1, NetCreateType
  <2>2. node' = [node EXCEPT ![n] = y] /\ UNCHANGED <<gen, withApp, req, confirmed>>
    BY <1>5 DEF Join, net
  <2> HIDE DEF y
  <2>3. members' \subseteq Nodes /\ amiss' \subseteq Nodes /\ early' \in BOOLEAN
    BY <1>5, <1>a DEF Join
  <2>4. call' = call /\ status' = status
    BY <1>5 DEF Join, net
  <2> QED BY <1>a, <1>b, <2>1, <2>2, <2>3, <2>4, DeviceTyped
<1>6. ASSUME NEW n \in Nodes, Deliver(n) PROVE Typed'
  <2> DEFINE y == CASE req[n].op = "net" -> NetKeyUpdate(node[n], req[n].arg)
                    [] req[n].op = "app" -> AppKeyUpdate(node[n], req[n].arg)
                    [] OTHER -> KrpSet(node[n], req[n].arg)
  <2>1. y \in State /\ Flagged(y)
    BY <1>a, NetKeyUpdateType, AppKeyUpdateType, KrpSetType DEF Typed
  <2>2. node' = [node EXCEPT ![n] = y]
    BY <1>6 DEF Deliver
  <2> HIDE DEF y
  <2>3. ASSUME NEW ok \in BOOLEAN, req[n].op \in {"net", "app"}
        PROVE  [op |-> req[n].op, from |-> n, arg |-> req[n].arg, ok |-> ok,
                key |-> NetKeyOf(y)] \in Status
    BY <2>1, <2>3, KeysOf DEF Typed, Status
  <2>4. NetKeyStatus(node[n], req[n].arg) \in BOOLEAN /\ AppKeyStatus(node[n], req[n].arg) \in BOOLEAN
    BY DEF NetKeyStatus, AppKeyStatus
  <2>5. \/ status' = status
        \/ \E ok \in BOOLEAN :
             /\ req[n].op \in {"net", "app"}
             /\ status' = [op |-> req[n].op, from |-> n, arg |-> req[n].arg, ok |-> ok,
                           key |-> NetKeyOf(y)]
    BY <1>6, <2>4 DEF Deliver, y
  <2>6. status' \in Status /\ (status'.op = "none" => status' = NoStatus)
    BY <1>b, <2>3, <2>5
  <2> QED BY <1>6, <1>a, <1>b, <2>1, <2>2, <2>6, DeviceTyped DEF Deliver
<1>7. ASSUME NEW n \in Nodes, NEW m \in Nodes, Hear(n, m) PROVE Typed'
  <2>1. BeaconOf(m) \in Beacon
    BY <1>0, BeaconType
  <2> DEFINE y == SecureBeaconRecv(node[n], BeaconOf(m))
  <2>2. y \in State /\ Flagged(y)
    BY <1>a, <2>1, BeaconRecvType
  <2> HIDE DEF y
  <2>3. node' = [node EXCEPT ![n] = y]
    BY <1>7 DEF Hear, y
  <2> QED BY <1>7, <1>a, <1>b, <2>2, <2>3, DeviceTyped DEF Hear, net
<1>8. CASE StatusRecv
  <2>1. /\ status # NoStatus /\ status' = NoStatus
        /\ UNCHANGED <<members, node, gen, withApp, req, early>>
    BY <1>8 DEF StatusRecv
  <2>2. status.op \in {"net", "app"} /\ call.to \in Nodes
    BY <1>b, <2>1 DEF Status, Call
  <2>3. /\ confirmed' \in [Nodes -> SUBSET {"net", "app"}]
        /\ call' \in Call /\ amiss' \subseteq Nodes
    BY <1>8, <1>a, <1>b, <2>2 DEF StatusRecv
  <2> QED BY <1>b, <2>1, <2>3 DEF Typed, TypeOK
<1>9. CASE Timeout
  BY <1>9, <1>b DEF Timeout, Typed, TypeOK
<1>10. CASE UNCHANGED vars
  BY <1>10 DEF vars, net, Typed, TypeOK
<1> QED BY <1>1, <1>2, <1>3, <1>4, <1>5, <1>6, <1>7, <1>8, <1>9, <1>10 DEF Next

(***************************************************************************)
(* Keys, phases and requests keep their ranges, and kr_flag is set in      *)
(* Phase 2 and in no other phase, whatever beacons and requests a device   *)
(* gets in whichever order, also when the operator does not wait.          *)
(***************************************************************************)
THEOREM RefreshTypes == Spec => []TypeOK
<1>1. Typed => TypeOK
  BY DEF Typed
<1> QED BY InitTyped, TypedStep, <1>1, PTL DEF Spec
-----------------------------------------------------------------------------
(***************************************************************************)
(* What a step does to one device: it keeps its current keys, or goes over *)
(* to the new ones.                                                        *)
(***************************************************************************)
Follows(x, y, g) ==
  \/ /\ y.net0 = x.net0 /\ y.app0 = x.app0
     /\ x.phase <= y.phase
     /\ x.updated => y.updated
  \/ /\ x.phase # Normal /\ x.net0 # g
     /\ y.net0 = g
     /\ y.app0 = IF x.updated THEN x.app1 ELSE x.app0

\* A device that gives up its old keys while the client has done so.
LEMMA RevokePlaced ==
  ASSUME NEW x \in State, NEW y, NEW g \in Gen, NEW a \in BOOLEAN, NEW p \in BOOLEAN,
         NEW s \in BOOLEAN, Placed(x, g, a, p, TRUE, s), x.phase # Normal,
         y.net0 = x.net1, y.phase = Normal, ~y.updated,
         y.app0 = IF x.updated THEN x.app1 ELSE x.app0
  PROVE  Placed(y, g, a, p, TRUE, s) /\ Follows(x, y, g)
<1>1. x.net1 = g /\ x.net0 # g
  BY BasicTypes DEF Placed, Old, Gen, None
<1> QED BY <1>1 DEF Placed, Follows

\* A device that goes to Phase 2 while the client is past Phase 1.
LEMMA Phase2Placed ==
  ASSUME NEW x \in State, NEW y, NEW g \in Gen, NEW a \in BOOLEAN, NEW o \in BOOLEAN,
         NEW s \in BOOLEAN, Placed(x, g, a, TRUE, o, s), x.phase # Normal,
         y.phase = Phase2, y.net0 = x.net0, y.net1 = x.net1, y.app0 = x.app0,
         y.app1 = x.app1, y.updated = x.updated
  PROVE  Placed(y, g, a, TRUE, o, s) /\ Follows(x, y, g)
<1>1. x.phase <= y.phase
  BY Phases DEF State
<1>2. Follows(x, y, g)
  BY <1>1 DEF Follows
<1>3. Placed(y, g, a, TRUE, o, s)
  BY Phases DEF Placed, Old
<1> QED BY <1>2, <1>3

\* A device whose keys and phase stay.
LEMMA SamePlaced ==
  ASSUME NEW x \in State, NEW y, NEW g, NEW a, NEW p, NEW o, NEW s,
         Placed(x, g, a, p, o, s),
         y.phase = x.phase, y.net0 = x.net0, y.net1 = x.net1, y.app0 = x.app0,
         y.app1 = x.app1, y.updated = x.updated
  PROVE  Placed(y, g, a, p, o, s) /\ Follows(x, y, g)
<1>1. x.phase <= y.phase
  BY Phases DEF State
<1>2. Follows(x, y, g)
  BY <1>1 DEF Follows
<1>3. Placed(y, g, a, p, o, s)
  BY DEF Placed, Old
<1> QED BY <1>2, <1>3

\* bt_mesh_kr_update.
LEMMA KrUpdatePlaced ==
  ASSUME NEW x \in State, NEW b \in Beacon, NEW c \in Beacon, NEW newKey \in BOOLEAN,
         NEW g \in Gen, NEW a \in BOOLEAN, NEW p \in BOOLEAN, NEW o \in BOOLEAN,
         NEW s \in BOOLEAN,
         Placed(x, g, a, p, o, s),
         x.phase # Normal /\ b.kr = 1 => p,
         x.phase # Normal /\ b.kr = 0 /\ (x.phase = Phase2 \/ newKey) => o
  PROVE  LET y == KrUpdate([x EXCEPT !.cache = c], b.kr, newKey)
         IN  Placed(y, g, a, p, o, s) /\ Follows(x, y, g)
<1> DEFINE z == [x EXCEPT !.cache = c]
           w == [z EXCEPT !.flag = b.kr]
           y == KrUpdate(z, b.kr, newKey)
<1>0. b.kr \in 0..1
  BY DEF Beacon
<1>1. /\ w \in State /\ z.phase = x.phase
      /\ w.phase = x.phase /\ w.net0 = x.net0 /\ w.net1 = x.net1
      /\ w.app0 = x.app0 /\ w.app1 = x.app1 /\ w.updated = x.updated
      /\ z.net0 = x.net0 /\ z.net1 = x.net1
      /\ z.app0 = x.app0 /\ z.app1 = x.app1 /\ z.updated = x.updated
  BY <1>0 DEF State
<1>2. CASE x.phase = Normal
  <2>1. y = z
    BY <1>1, <1>2 DEF KrUpdate
  <2> QED BY <1>1, <2>1, SamePlaced
<1>3. CASE x.phase # Normal /\ b.kr = 1
  <2>1. y = [w EXCEPT !.phase = Phase2]
    BY <1>1, <1>3 DEF KrUpdate
  <2>2. /\ y.phase = Phase2 /\ y.net0 = x.net0 /\ y.net1 = x.net1
        /\ y.app0 = x.app0 /\ y.app1 = x.app1 /\ y.updated = x.updated
    BY <1>1, <2>1 DEF State
  <2>3. p = TRUE
    BY <1>3
  <2> HIDE DEF y
  <2>4. Placed(y, g, a, p, o, s) /\ Follows(x, y, g)
    BY <1>3, <2>2, <2>3, Phase2Placed
  <2> QED BY <2>4 DEF y
<1>4. CASE x.phase # Normal /\ b.kr = 0 /\ (x.phase = Phase2 \/ newKey)
  <2>1. y = [RevokeKeys(w) EXCEPT !.phase = Normal]
    BY <1>1, <1>4 DEF KrUpdate
  <2>2. /\ RevokeKeys(w) \in State
        /\ RevokeKeys(w).net0 = x.net1 /\ ~RevokeKeys(w).updated
        /\ RevokeKeys(w).app0 = IF x.updated THEN x.app1 ELSE x.app0
    BY <1>1, RevokeType
  <2>3. /\ y.phase = Normal /\ y.net0 = x.net1 /\ ~y.updated
        /\ y.app0 = IF x.updated THEN x.app1 ELSE x.app0
    BY <2>1, <2>2 DEF State
  <2>4. o = TRUE
    BY <1>4
  <2> HIDE DEF y
  <2>5. Placed(y, g, a, p, o, s) /\ Follows(x, y, g)
    BY <1>4, <2>3, <2>4, RevokePlaced
  <2> QED BY <2>5 DEF y
<1>5. CASE x.phase # Normal /\ b.kr = 0 /\ ~(x.phase = Phase2 \/ newKey)
  <2>1. y = w
    BY <1>1, <1>5 DEF KrUpdate
  <2> QED BY <1>1, <2>1, SamePlaced
<1> QED BY <1>0, <1>2, <1>3, <1>4, <1>5

\* secure_beacon_recv, of a beacon that a member in state z sends.
LEMMA BeaconRecvPlaced ==
  ASSUME NEW x \in State, NEW z \in State, Flagged(z), NEW b \in Beacon,
         NEW g \in Gen, NEW a \in BOOLEAN, NEW p \in BOOLEAN, NEW o \in BOOLEAN,
         NEW s \in BOOLEAN,
         NEW t \in BOOLEAN, Placed(x, g, a, p, o, s), Placed(z, g, a, p, o, t),
         b.kr = z.flag, b.key \in {z.net0, NetKeyOf(z)}
  PROVE  /\ Placed(SecureBeaconRecv(x, b), g, a, p, o, s)
         /\ Follows(x, SecureBeaconRecv(x, b), g)
<1>1. CASE \/ b = x.cache \/ b.key \notin NetKeysTried(x)
           \/ (x.phase = Phase2 /\ ~IsNew(x, b.key))
  <2>1. SecureBeaconRecv(x, b) = x
    BY <1>1 DEF SecureBeaconRecv
  <2> QED BY <2>1, SamePlaced
<1>2. CASE ~(\/ b = x.cache \/ b.key \notin NetKeysTried(x)
             \/ (x.phase = Phase2 /\ ~IsNew(x, b.key)))
  <2>1. b.kr = 1 => p
    BY Phases DEF Flagged, Placed
  <2>2. ASSUME x.phase # Normal, b.kr = 0, x.phase = Phase2 \/ IsNew(x, b.key)
        PROVE  o
    <3>1. b.key # x.net0 /\ b.key = x.net1
      BY <1>2, <2>2 DEF NetKeysTried, IsNew
    <3>2. x.net1 = g
      BY <2>2 DEF Placed
    <3>3. z.flag = 0 /\ z.phase # Phase2 /\ b.key = z.net0
      BY <2>2 DEF Flagged, NetKeyOf, State
    <3>4. z.net0 = g
      BY <3>1, <3>2, <3>3
    <3>5. ~Old(z, g)
      BY <3>4, BasicTypes DEF Old
    <3> QED BY <3>3, <3>5 DEF Placed
  <2>3. SecureBeaconRecv(x, b) =
          KrUpdate([x EXCEPT !.cache = Remember(b)], b.kr, IsNew(x, b.key))
    BY <1>2 DEF SecureBeaconRecv
  <2>4. IsNew(x, b.key) \in BOOLEAN /\ Remember(b) \in Beacon
    BY BasicTypes DEF IsNew, Remember
  <2> QED BY <2>1, <2>2, <2>3, <2>4, KrUpdatePlaced
<1> QED BY <1>1, <1>2

\* net_key_update.
LEMMA NetKeyUpdatePlaced ==
  ASSUME NEW x \in State, NEW g \in Gen, g > 0, NEW a \in BOOLEAN,
         NEW p \in BOOLEAN, NEW o \in BOOLEAN,
         NEW s \in BOOLEAN, Placed(x, g, a, p, o, s)
  PROVE  Placed(NetKeyUpdate(x, g), g, a, p, o, s) /\ Follows(x, NetKeyUpdate(x, g), g)
<1> DEFINE y == NetKeyUpdate(x, g)
<1>1. CASE x.phase = Normal /\ g # x.net0
  <2>1. Old(x, g) /\ ~(p /\ s) /\ ~x.updated
    BY <1>1, Phases DEF Placed
  <2>2. y = [x EXCEPT !.net1 = g, !.phase = Phase1]
    BY <1>1 DEF NetKeyUpdate
  <2>3. /\ y.net1 = g /\ y.phase = Phase1 /\ y.net0 = x.net0
        /\ y.updated = x.updated /\ y.app0 = x.app0
    BY <2>2 DEF State
  <2> HIDE DEF y
  <2>4. Placed(y, g, a, p, o, s)
    BY <2>1, <2>3, Phases DEF Placed, Old
  <2>5. Follows(x, y, g)
    BY <1>1, <2>1, <2>3, Phases DEF Follows
  <2> QED BY <2>4, <2>5 DEF y
<1>2. CASE ~(x.phase = Normal /\ g # x.net0)
  BY <1>2, SamePlaced DEF NetKeyUpdate
<1> QED BY <1>1, <1>2

\* app_key_set.
LEMMA AppKeyUpdatePlaced ==
  ASSUME NEW x \in State, NEW g \in Gen,
         NEW p \in BOOLEAN, NEW o \in BOOLEAN,
         NEW s \in BOOLEAN, Placed(x, g, TRUE, p, o, s)
  PROVE  Placed(AppKeyUpdate(x, g), g, TRUE, p, o, s) /\ Follows(x, AppKeyUpdate(x, g), g)
<1> DEFINE y == AppKeyUpdate(x, g)
<1>1. CASE x.phase = Phase1 /\ ~x.updated
  <2>1. Old(x, g) /\ ~(p /\ s) /\ x.net1 = g
    BY <1>1, Phases DEF Placed
  <2>2. y = [x EXCEPT !.app1 = g, !.updated = TRUE]
    BY <1>1 DEF AppKeyUpdate
  <2>3. /\ y.net1 = g /\ y.phase = Phase1 /\ y.net0 = x.net0
        /\ y.updated /\ y.app0 = x.app0 /\ y.app1 = g
    BY <1>1, <2>1, <2>2 DEF State
  <2> HIDE DEF y
  <2>4. Placed(y, g, TRUE, p, o, s)
    BY <2>1, <2>3, Phases DEF Placed, Old
  <2>5. Follows(x, y, g)
    BY <1>1, <2>1, <2>3, Phases DEF Follows
  <2> QED BY <2>4, <2>5 DEF y
<1>2. CASE ~(x.phase = Phase1 /\ ~x.updated)
  BY <1>2, SamePlaced DEF AppKeyUpdate
<1> QED BY <1>1, <1>2

\* krp_set.
LEMMA KrpSetPlaced ==
  ASSUME NEW x \in State, NEW g \in Gen, NEW a \in BOOLEAN, NEW phase,
         NEW p \in BOOLEAN, NEW o \in BOOLEAN,
         NEW s \in BOOLEAN, Placed(x, g, a, p, o, s),
         phase = Phase2 => p, phase = Phase3 => o
  PROVE  Placed(KrpSet(x, phase), g, a, p, o, s) /\ Follows(x, KrpSet(x, phase), g)
<1> DEFINE y == KrpSet(x, phase)
<1>1. CASE x.phase = Phase1 /\ phase = Phase2
  <2>1. y = [x EXCEPT !.phase = Phase2, !.flag = 1]
    BY <1>1, Phases DEF KrpSet
  <2>2. /\ y.phase = Phase2 /\ y.net0 = x.net0 /\ y.net1 = x.net1
        /\ y.app0 = x.app0 /\ y.app1 = x.app1 /\ y.updated = x.updated
    BY <2>1 DEF State
  <2>3. p = TRUE /\ x.phase # Normal
    BY <1>1, Phases
  <2> HIDE DEF y
  <2>4. Placed(y, g, a, p, o, s) /\ Follows(x, y, g)
    BY <2>2, <2>3, Phase2Placed
  <2> QED BY <2>4 DEF y
<1>2. CASE x.phase \in {Phase1, Phase2} /\ phase = Phase3
  <2>1. y = [RevokeKeys(x) EXCEPT !.phase = Normal, !.flag = 0]
    BY <1>2, Phases DEF KrpSet
  <2>2. /\ RevokeKeys(x) \in State
        /\ RevokeKeys(x).net0 = x.net1 /\ ~RevokeKeys(x).updated
        /\ RevokeKeys(x).app0 = IF x.updated THEN x.app1 ELSE x.app0
    BY RevokeType
  <2>3. /\ y.phase = Normal /\ y.net0 = x.net1 /\ ~y.updated
        /\ y.app0 = IF x.updated THEN x.app1 ELSE x.app0
    BY <2>1, <2>2 DEF State
  <2>4. o = TRUE /\ x.phase # Normal
    BY <1>2, Phases
  <2> HIDE DEF y
  <2>5. Placed(y, g, a, p, o, s) /\ Follows(x, y, g)
    BY <2>3, <2>4, RevokePlaced
  <2> QED BY <2>5 DEF y
<1>3. CASE /\ ~(x.phase = Phase1 /\ phase = Phase2)
           /\ ~(x.phase \in {Phase1, Phase2} /\ phase = Phase3)
  <2>1. y = x
    BY <1>3 DEF KrpSet
  <2> QED BY <2>1, SamePlaced
<1> QED BY <1>1, <1>2, <1>3
-----------------------------------------------------------------------------
(***************************************************************************)
(* Steps of the network, when the operator waits for the end of a refresh. *)
(***************************************************************************)
LEMMA InvTypes ==
  ASSUME IInv
  PROVE  /\ TypeOK /\ Client \in members /\ members \subseteq Nodes /\ amiss \subseteq Nodes
         /\ gen \in Gen /\ gen \in Int /\ withApp \in BOOLEAN /\ early \in BOOLEAN
         /\ Past \in BOOLEAN /\ Over(Client) \in BOOLEAN /\ (Over(Client) => Past)
         /\ Ended \in BOOLEAN /\ Ended = (Over(Client) \/ early) /\ (Ended => Past)
         /\ Me \in State /\ Flagged(Me) /\ Me = node[Client]
         /\ \A n \in members :
              /\ node[n] \in State /\ Flagged(node[n])
              /\ Placed(node[n], gen, withApp, Past, Ended, n \notin amiss)
  BY StateOf, BasicTypes DEF IInv, Typed, TypeOK, Members, Past, Ended, Over, Me

\* Where the client itself is.
LEMMA ClientPlace ==
  ASSUME IInv
  PROVE  \/ Over(Client) /\ Me.net0 = gen /\ Me.phase = Normal /\ ~Me.updated
         \/ ~Over(Client) /\ Old(Me, gen)
<1>1. Placed(Me, gen, withApp, Past, Ended, Client \notin amiss) /\ Me.net0 # None
  BY InvTypes DEF IInv, Members
<1>2. Old(Me, gen) => Me.net0 # gen
  BY InvTypes DEF Old
<1> QED BY <1>1, <1>2 DEF Placed, Over, Me

\* A device fits also when more has ended or less is sure.
LEMMA Weaker ==
  ASSUME NEW x, NEW g, NEW a, NEW p, NEW o \in BOOLEAN, NEW o1 \in BOOLEAN,
         NEW s \in BOOLEAN, NEW s1 \in BOOLEAN,
         Placed(x, g, a, p, o, s), o => o1, s1 => s
  PROVE  Placed(x, g, a, p, o1, s1)
  BY DEF Placed

\* What was true of a device stays true.
LEMMA HasStep ==
  ASSUME NEW x \in State, NEW y, NEW g, NEW op, Has(x, g, op), Later(x, y, g)
  PROVE  Has(y, g, op)
<1>1. x.phase # Normal /\ x.phase <= y.phase => y.phase # Normal
  BY Phases DEF State
<1> QED BY <1>1 DEF Has, Later

(***************************************************************************)
(* One member goes from its state to y, and all fit the client's progress  *)
(* after the step.                                                         *)
(***************************************************************************)
LEMMA MemberStep ==
  ASSUME IInv, NEW n \in members, NEW y \in State,
         node' = [node EXCEPT ![n] = y],
         UNCHANGED <<members, gen, withApp, amiss, early>>,
         Follows(node[n], y, gen), Ended' => Past', Ended' \in BOOLEAN,
         Placed(y, gen, withApp, Past', Ended', n \notin amiss),
         \A m \in members : Placed(node[m], gen, withApp, Past', Ended', m \notin amiss)
  PROVE  /\ Members' /\ Apps'
         /\ \A k \in Nodes : Later(node[k], node'[k], gen)
<1>0. n \in Nodes /\ node \in [Nodes -> State] /\ members \subseteq Nodes
  BY InvTypes DEF TypeOK, State
<1>1. node'[n] = y /\ \A k \in Nodes : k # n => node'[k] = node[k]
  BY <1>0
<1>2. y.net0 = gen => ~Old(y, gen)
  BY InvTypes DEF Old
<1>3. Members'
  <2>1. Me' = node'[Client] /\ gen # None
    BY InvTypes DEF Me, Gen, None
  <2>2. Me'.net0 # None
    <3>1. CASE n = Client
      <4>1. node[Client].net0 # None /\ Me' = y
        BY <1>1, <2>1, <3>1, InvTypes DEF IInv, Members
      <4> QED BY <2>1, <3>1, <4>1 DEF Follows
    <3>2. CASE n # Client
      <4>1. Me' = Me
        BY <1>0, <1>1, <2>1, <3>2, InvTypes
      <4> QED BY <4>1 DEF IInv, Members
    <3> QED BY <3>1, <3>2
  <2>3. \A m \in members : Placed(node'[m], gen, withApp, Past', Ended', m \notin amiss)
    BY <1>0, <1>1
  <2>4. early => Past'
    BY DEF Ended
  <2> QED BY <2>2, <2>3, <2>4, InvTypes DEF Members
<1>4. \A k \in Nodes : Later(node[k], node'[k], gen)
  <2>1. ASSUME NEW k \in Nodes, k # n
        PROVE  Later(node[k], node'[k], gen)
    <3>1. node'[k] = node[k] /\ node[k].phase \in Int
      BY <1>0, <1>1, <2>1, Phases DEF State
    <3> QED BY <3>1 DEF Later
  <2>2. Later(node[n], node'[n], gen)
    <3> SUFFICES ASSUME Old(node'[n], gen)
                 PROVE  /\ Old(node[n], gen) /\ node[n].phase <= node'[n].phase
                        /\ node[n].updated => node'[n].updated
      BY DEF Later
    <3>1. y.net0 # gen
      BY <1>1, <1>2
    <3> QED BY <1>1, <3>1 DEF Follows, Old
  <2> QED BY <2>1, <2>2
<1>5. CASE y.net0 = node[n].net0 /\ y.app0 = node[n].app0
  <2>1. \A k \in members : /\ node'[k].app0 = node[k].app0
                           /\ Old(node'[k], gen) <=> Old(node[k], gen)
    BY <1>0, <1>1, <1>5 DEF Old
  <2>2. Apps'
    BY <2>1 DEF IInv, Apps
  <2> QED BY <1>3, <1>4, <2>2
<1>6. CASE ~(y.net0 = node[n].net0 /\ y.app0 = node[n].app0)
  <2>1. /\ node[n].phase # Normal /\ node[n].net0 # gen /\ y.net0 = gen
        /\ y.app0 = IF node[n].updated THEN node[n].app1 ELSE node[n].app0
    BY <1>6 DEF Follows
  <2>2. Ended' /\ Past'
    BY <1>2, <2>1, InvTypes DEF Placed, Gen, None
  <2>3. Placed(node[n], gen, withApp, TRUE, TRUE, n \notin amiss)
    BY <2>2 DEF Placed
  <2>4. ~withApp => y.app0 = node[n].app0
    BY <2>1, <2>3 DEF Placed
  <2>5. n \notin amiss /\ withApp => y.app0 = gen
    <3>1. CASE Old(node[n], gen)
      <4>1. node[n].net0 # None
        BY <3>1, InvTypes DEF Old, None
      <4>2. n \notin amiss /\ withApp => node[n].updated /\ node[n].app1 = gen
        BY <2>1, <2>3, <4>1, InvTypes DEF Placed
      <4> QED BY <2>1, <4>2
    <3>2. CASE ~Old(node[n], gen)
      <4>1. ~node[n].updated
        BY <2>3, <3>2 DEF Placed
      <4> QED BY <2>1, <3>2, <4>1 DEF IInv, Apps
    <3> QED BY <3>1, <3>2
  <2>6. ~Old(node'[n], gen)
    BY <1>1, <1>2, <2>1
  <2>7. Apps'
    <3>1. ASSUME NEW m \in members \ amiss, NEW k \in members \ amiss
          PROVE  /\ ~withApp \/ (Old(node'[m], gen) /\ Old(node'[k], gen)) =>
                      node'[m].app0 = node'[k].app0
                 /\ withApp /\ ~Old(node'[k], gen) => node'[k].app0 = gen
      BY <1>0, <1>1, <2>4, <2>5, <2>6 DEF IInv, Apps
    <3> QED BY <3>1 DEF Apps
  <2> QED BY <1>3, <1>4, <2>7
<1> QED BY <1>5, <1>6

\* A step that leaves the client's progress alone, but for a refresh that a beacon
\* of a device with the flag 0 ends.
LEMMA QuietStep ==
  ASSUME IInv, NEW n \in members, NEW y \in State,
         node' = [node EXCEPT ![n] = y],
         UNCHANGED <<members, gen, withApp, amiss, early>>,
         Follows(node[n], y, gen),
         Placed(y, gen, withApp, Past, Ended, n \notin amiss)
  PROVE  /\ Past' = Past /\ Ended' = Ended
         /\ Members' /\ Apps'
         /\ \A k \in Nodes : Later(node[k], node'[k], gen)
<1>0. n \in Nodes /\ node \in [Nodes -> State]
  BY InvTypes DEF TypeOK, State
<1>1. Me' = node'[Client] /\ Client \in Nodes
  BY InvTypes DEF Me
<1>2. Over(Client)' = (Me'.phase = Normal /\ Me'.net0 = gen)
  BY <1>1 DEF Over
<1>3. Past' = (Me'.phase = Phase2 \/ Over(Client)')
  BY DEF Past
<1>4. Ended' = (Over(Client)' \/ early)
  BY DEF Ended
<1>5. Past' = Past /\ Ended' = Ended
  <2>1. CASE n # Client
    <3>1. Me' = Me
      BY <1>0, <1>1, <2>1, InvTypes
    <3>2. Over(Client)' = Over(Client)
      BY <1>2, <3>1, InvTypes DEF Over
    <3> QED BY <1>3, <1>4, <3>1, <3>2, InvTypes DEF Past
  <2>2. CASE n = Client
    <3>1. Me' = y /\ Me = node[n]
      BY <1>0, <1>1, <2>2, InvTypes
    <3>2. CASE Over(Client)
      <4>1. Me.net0 = gen /\ Me.phase = Normal /\ ~Old(Me, gen)
        BY <3>2, ClientPlace, InvTypes DEF Old
      <4>2. y.net0 = gen
        BY <3>1, <4>1 DEF Follows
      <4>3. y.phase = Normal
        BY <4>2, InvTypes DEF Placed, Old, Gen, None
      <4> QED BY <1>2, <1>3, <1>4, <3>1, <3>2, <4>2, <4>3, InvTypes
    <3>3. CASE ~Over(Client) /\ Me.phase = Phase2
      <4>1. CASE y.net0 = gen
        <5>1. y.phase = Normal /\ Ended
          BY <4>1, InvTypes DEF Placed, Old, Gen, None
        <5>2. Over(Client)'
          BY <1>2, <3>1, <4>1, <5>1
        <5>3. Past' = TRUE /\ Ended' = TRUE /\ Past /\ Ended
          BY <1>3, <1>4, <3>3, <5>1, <5>2 DEF Past
        <5> QED BY <5>3, InvTypes
      <4>2. CASE y.net0 # gen
        <5>1. y.phase = Phase2
          BY <3>1, <3>3, <4>2, Phases DEF Follows, State
        <5>2. Past /\ Past' /\ ~Over(Client)'
          BY <1>2, <1>3, <3>1, <3>3, <4>2, <5>1 DEF Past
        <5>3. Past' \in BOOLEAN /\ Over(Client)' \in BOOLEAN
          BY <1>2, <1>3
        <5> QED BY <1>4, <3>3, <5>2, <5>3, InvTypes
      <4> QED BY <4>1, <4>2
    <3>4. CASE ~Past
      <4>0. ~Ended
        BY <3>4, InvTypes
      <4>1. y.net0 # gen /\ y.phase # Phase2
        BY <3>4, <4>0, InvTypes DEF Placed, Old, Gen, None
      <4> QED BY <1>2, <1>3, <1>4, <3>1, <3>4, <4>0, <4>1, InvTypes
    <3> QED BY <3>2, <3>3, <3>4 DEF Past
  <2> QED BY <2>1, <2>2
<1> QED BY <1>5, InvTypes, MemberStep

\* What was said stays true when no more is.
LEMMA SilentStep ==
  ASSUME IInv, UNCHANGED <<members, gen, status, confirmed, amiss>>,
         \A k \in Nodes : Later(node[k], node'[k], gen)
  PROVE  Told'
<1>1. ASSUME NEW k \in Nodes, NEW op, Has(node[k], gen, op)
      PROVE  Has(node'[k], gen, op)
  BY <1>1, InvTypes, StateOf, HasStep
<1>2. status.op # "none" =>
        /\ status.from \in members
        /\ status.ok => Has(node'[status.from], gen, status.op)
  BY <1>1, InvTypes DEF IInv, Told
<1>3. \A n \in Nodes \ amiss :
        /\ confirmed[n] # {} => n \in members
        /\ \A op \in confirmed[n] : Has(node'[n], gen, op)
  BY <1>1 DEF IInv, Told
<1> QED BY <1>2, <1>3 DEF Told
-----------------------------------------------------------------------------
\* Requests after a step that sends at most one and lets the client's progress grow.
LEMMA RequestStep ==
  ASSUME IInv, NEW n \in Nodes, NEW r \in Request, UNCHANGED <<gen, withApp>>,
         members \subseteq members', Past => Past', Ended => Ended',
         req' = req \/ req' = [req EXCEPT ![n] = r],
         r # NoRequest => n \in members,
         Asked(n, r, Past', Ended')
  PROVE  Requests'
<1>0. req \in [Nodes -> Request]
  BY InvTypes DEF TypeOK
<1>1. ASSUME NEW k \in Nodes
      PROVE  Asked(k, req'[k], Past', Ended') /\ (req'[k] # NoRequest => k \in members')
  <2>1. CASE req'[k] = req[k]
    BY <2>1 DEF IInv, Requests, Asked
  <2>2. CASE req'[k] # req[k]
    <3>1. k = n /\ req'[k] = r
      BY <1>0, <2>2
    <3> QED BY <3>1
  <2> QED BY <2>1, <2>2
<1> QED BY <1>1 DEF Requests, Asked

LEMMA InitInv == Init => IInv
<1> SUFFICES ASSUME Init PROVE IInv
  OBVIOUS
<1>1. \A n \in members : /\ n \in Nodes /\ node[n] = NetCreate(0, 0, 0)
                         /\ node[n].net0 = 0 /\ node[n].phase = Normal
                         /\ ~node[n].updated /\ node[n].app0 = 0
  <2>1. NetCreate(0, 0, 0) = [Fresh EXCEPT !.net0 = 0, !.app0 = 0]
    BY DEF NetCreate
  <2>2. /\ NetCreate(0, 0, 0).net0 = 0 /\ NetCreate(0, 0, 0).phase = Normal
        /\ ~NetCreate(0, 0, 0).updated /\ NetCreate(0, 0, 0).app0 = 0
    BY <2>1 DEF Fresh
  <2>3. members \subseteq Nodes /\ \A n \in members : node[n] = NetCreate(0, 0, 0)
    BY KeyRefreshAssumption DEF Init
  <2> QED BY <2>2, <2>3
<1>2. Client \in members /\ Me = node[Client] /\ gen = 0 /\ ~withApp
  BY KeyRefreshAssumption DEF Init, Me
<1>3. Over(Client) /\ Past /\ Ended
  BY <1>1, <1>2 DEF Over, Past, Ended
<1>4. Members
  BY <1>1, <1>2, <1>3 DEF Members, Placed, None
<1>5. Apps
  BY <1>1, <1>2 DEF Apps
<1>6. Requests /\ Told
  BY DEF Init, Requests, Asked, Told, NoStatus
<1> QED BY InitTyped, <1>4, <1>5, <1>6 DEF IInv

LEMMA StartRefreshStep ==
  ASSUME IInv, Settles, StartRefresh
  PROVE  Members' /\ Apps' /\ Requests' /\ Told'
<1>1. /\ gen' = gen + 1 /\ members' = members /\ node' = node
      /\ withApp' \in BOOLEAN /\ Over(Client) /\ \A n \in members : Over(n)
      /\ confirmed' = [n \in Nodes |-> {}] /\ req' = [n \in Nodes |-> NoRequest]
      /\ status' = NoStatus /\ early' = FALSE /\ amiss' = amiss
  BY DEF StartRefresh
<1>2. gen \in Int /\ gen >= 0 /\ gen' > 0 /\ gen = gen' - 1 /\ gen # gen'
  BY <1>1, InvTypes DEF Gen
<1>3. ASSUME NEW n \in members
      PROVE  /\ node[n].net0 = gen /\ node[n].phase = Normal /\ ~node[n].updated
             /\ ~Old(node[n], gen) /\ Old(node[n], gen')
  <2>1. node[n].net0 = gen /\ node[n].phase = Normal
    BY <1>1 DEF Over
  <2>2. ~Old(node[n], gen) /\ Old(node[n], gen')
    BY <1>2, <2>1 DEF Old
  <2>3. Placed(node[n], gen, withApp, Past, Ended, n \notin amiss)
    BY InvTypes
  <2> QED BY <2>1, <2>2, <2>3, Phases DEF Placed
<1>4. Client \in members /\ Me' = node[Client] /\ Me = node[Client]
  BY <1>1, InvTypes DEF Me
<1>5. ~Over(Client)' /\ ~Past' /\ ~Ended'
  BY <1>1, <1>2, <1>3, <1>4, Phases DEF Over, Past, Ended
<1>6. Members'
  <2>1. Me'.net0 # None
    BY <1>2, <1>3, <1>4 DEF None
  <2>2. \A n \in members : Placed(node[n], gen', withApp', Past', Ended', n \notin amiss)
    BY <1>3, <1>5, Phases DEF Placed
  <2> QED BY <1>1, <1>4, <2>1, <2>2 DEF Members
<1>7. Apps'
  <2>1. \A m, n \in members \ amiss : node[m].app0 = node[n].app0
    BY <1>3, InvTypes DEF IInv, Apps
  <2> QED BY <1>1, <1>3, <2>1 DEF Apps
<1>8. Requests' /\ Told'
  BY <1>1 DEF Requests, Asked, Told, NoStatus
<1> QED BY <1>6, <1>7, <1>8

LEMMA NetKeyStep ==
  ASSUME IInv, NEW n \in Nodes, CliNetKeyUpdate(n)
  PROVE  Members' /\ Apps' /\ Requests' /\ Told'
<1> DEFINE y == [Me EXCEPT !.net1 = gen, !.phase = Phase1]
           r == [op |-> "net", arg |-> gen, key |-> NetKeyOf(y)]
<1>1. /\ n \in members /\ n # Client /\ Me.phase # Phase2 /\ ~Over(Client)
      /\ node' = [node EXCEPT ![Client] = y] /\ req' = [req EXCEPT ![n] = r]
      /\ UNCHANGED <<members, gen, withApp, status, confirmed, amiss, early>>
  BY DEF CliNetKeyUpdate, Send, Others
<1>2. ~Past /\ Old(Me, gen) /\ gen > 0
  BY <1>1, ClientPlace DEF Past, Old
<1>3. y \in State /\ r \in Request
  <2>1. y \in State
    BY InvTypes, BasicTypes DEF State
  <2> QED BY <2>1, KeysOf, InvTypes DEF Request
<1>4. /\ y.net1 = gen /\ y.phase = Phase1 /\ y.net0 = Me.net0
      /\ y.app0 = Me.app0 /\ y.app1 = Me.app1 /\ y.updated = Me.updated
  BY InvTypes DEF State
<1>5. r.op = "net" /\ r.arg = gen
  OBVIOUS
<1> HIDE DEF y, r
<1>6. Placed(y, gen, withApp, Past, Ended, Client \notin amiss)
  <2>1. Placed(Me, gen, withApp, Past, Ended, Client \notin amiss)
    BY InvTypes
  <2> QED BY <1>1, <1>2, <1>4, <2>1, Phases DEF Placed, Old
<1>7. Follows(node[Client], y, gen)
  <2>1. Me.phase \in {0, 1} /\ Me.phase <= y.phase
    BY <1>1, <1>4, InvTypes, Phases DEF State
  <2> QED BY <1>4, <2>1, InvTypes DEF Follows
<1>8. /\ Past' = Past /\ Ended' = Ended /\ Members' /\ Apps'
      /\ \A k \in Nodes : Later(node[k], node'[k], gen)
  BY <1>1, <1>3, <1>6, <1>7, InvTypes, QuietStep
<1>9. Requests'
  <2>1. Asked(n, r, Past', Ended')
    BY <1>1, <1>2, <1>5 DEF Asked
  <2> QED BY <1>1, <1>3, <1>8, <2>1, RequestStep
<1>10. Told'
  BY <1>1, <1>8, SilentStep
<1> QED BY <1>8, <1>9, <1>10

LEMMA AppKeyStep ==
  ASSUME IInv, NEW n \in Nodes, CliAppKeyUpdate(n)
  PROVE  Members' /\ Apps' /\ Requests' /\ Told'
<1> DEFINE r == [op |-> "app", arg |-> gen, key |-> NetKeyOf(Me)]
<1>1. /\ n \in members /\ withApp /\ Me.phase = Phase1
      /\ node' = [node EXCEPT ![Client] = Me] /\ req' = [req EXCEPT ![n] = r]
      /\ UNCHANGED <<members, gen, withApp, status, confirmed, amiss, early>>
  BY DEF CliAppKeyUpdate, Send
<1>2. gen > 0
  BY <1>1, ClientPlace, Phases DEF Old
<1>3. r \in Request /\ r.op = "app" /\ r.arg = gen
  BY KeysOf, InvTypes DEF Request
<1> HIDE DEF r
<1>4. Placed(Me, gen, withApp, Past, Ended, Client \notin amiss) /\ Follows(node[Client], Me, gen)
  BY InvTypes, SamePlaced
<1>5. /\ Past' = Past /\ Ended' = Ended /\ Members' /\ Apps'
      /\ \A k \in Nodes : Later(node[k], node'[k], gen)
  BY <1>1, <1>4, InvTypes, QuietStep
<1>6. Requests'
  <2>1. Asked(n, r, Past', Ended')
    BY <1>1, <1>2, <1>3 DEF Asked
  <2> QED BY <1>1, <1>3, <1>5, <2>1, RequestStep
<1>7. Told'
  BY <1>1, <1>5, SilentStep
<1> QED BY <1>5, <1>6, <1>7

(***************************************************************************)
(* The client goes to Phase 2: by then every member has the new keys.      *)
(***************************************************************************)
LEMMA Krp2Step ==
  ASSUME IInv, NEW n \in Nodes, CliKrpSet2(n)
  PROVE  Members' /\ Apps' /\ Requests' /\ Told'
<1> DEFINE y == KrpSet(Me, Phase2)
           r == [op |-> "krp", arg |-> Phase2, key |-> NetKeyOf(y)]
<1>1. /\ n \in members /\ n # Client
      /\ (Me.phase = Phase1 /\ KeysGiven) \/ Me.phase = Phase2
      /\ node' = [node EXCEPT ![Client] = y] /\ req' = [req EXCEPT ![n] = r]
      /\ UNCHANGED <<members, gen, withApp, status, confirmed, amiss, early>>
  BY DEF CliKrpSet2, Send, Others
<1>2. ~Over(Client) /\ Old(Me, gen) /\ gen > 0
  BY <1>1, ClientPlace, Phases DEF Old
<1>3. y \in State /\ r \in Request /\ r.op = "krp" /\ r.arg = Phase2
  <2>1. y \in State
    BY InvTypes, KrpSetType
  <2> QED BY <2>1, KeysOf DEF Request
<1>4. /\ y.net0 = Me.net0 /\ y.phase = Phase2
      /\ y.net1 = Me.net1 /\ y.app0 = Me.app0 /\ y.app1 = Me.app1
      /\ y.updated = Me.updated
  <2>1. CASE Me.phase = Phase1
    <3>1. y = [Me EXCEPT !.phase = Phase2, !.flag = 1]
      BY <2>1, Phases DEF KrpSet
    <3> QED BY <3>1, InvTypes DEF State
  <2>2. CASE Me.phase = Phase2
    <3>1. y = Me
      BY <2>2, Phases DEF KrpSet
    <3> QED BY <2>2, <3>1
  <2> QED BY <1>1, <2>1, <2>2
<1> HIDE DEF y, r
<1>5. Me' = y /\ Ended' = early /\ Past' = TRUE
  <2>1. Me' = y
    BY <1>1, InvTypes DEF Me, TypeOK
  <2>2. Over(Client)' = (Me'.phase = Normal /\ Me'.net0 = gen)
    BY <1>1 DEF Over, Me
  <2>3. Past' = (Me'.phase = Phase2 \/ Over(Client)')
    BY DEF Past
  <2>4. Me'.phase = Phase2 /\ Phase2 # Normal
    BY <1>4, <2>1, Phases
  <2>5. Over(Client)' = FALSE
    BY <2>2, <2>4
  <2>6. Ended' = early
    BY <1>1, <2>5, InvTypes DEF Ended
  <2> QED BY <2>1, <2>3, <2>4, <2>6
<1>6. \A m \in members : Placed(node[m], gen, withApp, TRUE, early, m \notin amiss)
  <2>0. Ended = early
    BY <1>2, InvTypes
  <2>1. CASE Me.phase = Phase2
    BY <2>0, <2>1, InvTypes DEF Past
  <2>2. CASE Me.phase = Phase1 /\ KeysGiven
    <3> SUFFICES ASSUME NEW m \in members
                 PROVE  Placed(node[m], gen, withApp, TRUE, early, m \notin amiss)
      OBVIOUS
    <3>1. ~Past /\ ~early /\ m \in Nodes
      BY <1>2, <2>0, <2>2, InvTypes, Phases DEF Past
    <3>2. Placed(node[m], gen, withApp, FALSE, FALSE, m \notin amiss) /\ Old(node[m], gen)
      BY <2>0, <3>1, InvTypes DEF Placed
    <3>3. m \notin amiss => node[m].phase # Normal
      <4>1. CASE m = Client
        BY <2>2, <4>1, InvTypes, Phases
      <4>2. CASE m # Client
        BY <2>2, <3>1, <3>2, <4>2 DEF KeysGiven, Others, IInv, Told, Has
      <4> QED BY <4>1, <4>2
    <3>4. m \notin amiss /\ withApp => node[m].updated
      BY <2>2, <3>1, <3>2 DEF KeysGiven, IInv, Told, Has
    <3>5. m \notin amiss => node[m].updated = withApp
      BY <3>2, <3>4, <1>2, InvTypes DEF Placed, State
    <3> QED BY <3>2, <3>3, <3>5 DEF Placed
  <2> QED BY <1>1, <2>1, <2>2
<1>7. Placed(y, gen, withApp, TRUE, early, Client \notin amiss) /\ Follows(Me, y, gen)
  <2>1. Me.phase # Normal
    BY <1>1, Phases
  <2>2. Placed(Me, gen, withApp, TRUE, early, Client \notin amiss)
    BY <1>6, InvTypes
  <2>3. (Client \notin amiss) \in BOOLEAN
    OBVIOUS
  <2> QED BY <1>4, <2>1, <2>2, <2>3, InvTypes, Phase2Placed
<1>8. Members' /\ Apps' /\ \A k \in Nodes : Later(node[k], node'[k], gen)
  BY <1>1, <1>3, <1>5, <1>6, <1>7, InvTypes, MemberStep
<1>9. Requests'
  <2>1. Asked(n, r, Past', Ended')
    BY <1>1, <1>2, <1>3, <1>5 DEF Asked
  <2>2. Ended => Ended'
    BY <1>2, <1>5, InvTypes
  <2> QED BY <1>1, <1>3, <1>5, <2>1, <2>2, RequestStep
<1>10. Told'
  BY <1>1, <1>8, SilentStep
<1> QED BY <1>8, <1>9, <1>10

LEMMA Krp3Step ==
  ASSUME IInv, NEW n \in Nodes, CliKrpSet3(n)
  PROVE  Members' /\ Apps' /\ Requests' /\ Told'
<1> DEFINE y == KrpSet(Me, Phase3)
           r == [op |-> "krp", arg |-> Phase3, key |-> NetKeyOf(y)]
<1>1. /\ n \in members /\ n # Client
      /\ Me.phase = Phase2 \/ (gen > 0 /\ Over(Client))
      /\ node' = [node EXCEPT ![Client] = y] /\ req' = [req EXCEPT ![n] = r]
      /\ UNCHANGED <<members, gen, withApp, status, confirmed, amiss, early>>
  BY DEF CliKrpSet3, Send, Others
<1>2. Past /\ gen > 0
  BY <1>1, ClientPlace, Phases DEF Old, Past
<1>3. y \in State /\ r \in Request /\ r.op = "krp" /\ r.arg = Phase3
  <2>1. y \in State
    BY InvTypes, KrpSetType
  <2> QED BY <2>1, KeysOf DEF Request
<1>4. \A m \in members : Placed(node[m], gen, withApp, TRUE, TRUE, m \notin amiss)
  BY <1>2, InvTypes DEF Placed
<1>5. Placed(y, gen, withApp, TRUE, TRUE, Client \notin amiss) /\ Follows(Me, y, gen)
  <2>1. (Client \notin amiss) \in BOOLEAN
    OBVIOUS
  <2>2. Placed(Me, gen, withApp, TRUE, TRUE, Client \notin amiss)
    BY <1>4, InvTypes
  <2> QED BY <2>1, <2>2, InvTypes, KrpSetPlaced
<1>6. y.phase = Normal /\ y.net0 = gen
  <2>1. CASE Over(Client)
    <3>1. y = Me
      BY <2>1, ClientPlace, Phases DEF KrpSet, Old
    <3> QED BY <2>1, <3>1, ClientPlace
  <2>2. CASE Me.phase = Phase2
    <3>1. y = [RevokeKeys(Me) EXCEPT !.phase = Normal, !.flag = 0]
      BY <2>2, Phases DEF KrpSet
    <3>2. RevokeKeys(Me) \in State /\ RevokeKeys(Me).net0 = Me.net1
      BY RevokeType, InvTypes
    <3>3. y.phase = Normal /\ y.net0 = Me.net1
      BY <3>1, <3>2 DEF State
    <3>4. Me.net1 = gen
      BY <2>2, <1>4, InvTypes, Phases DEF Placed
    <3> QED BY <3>3, <3>4
  <2> QED BY <1>1, <2>1, <2>2
<1> HIDE DEF y, r
<1>7. Ended' = TRUE /\ Past' = TRUE
  <2>1. Me' = y
    BY <1>1, InvTypes DEF Me, TypeOK
  <2>2. Over(Client)' = (Me'.phase = Normal /\ Me'.net0 = gen)
    BY <1>1 DEF Over, Me
  <2>3. Past' = (Me'.phase = Phase2 \/ Over(Client)')
    BY DEF Past
  <2> QED BY <1>6, <2>1, <2>2, <2>3 DEF Ended
<1>8. Members' /\ Apps' /\ \A k \in Nodes : Later(node[k], node'[k], gen)
  BY <1>1, <1>3, <1>4, <1>5, <1>7, InvTypes, MemberStep
<1>9. Requests'
  <2>1. Asked(n, r, Past', Ended')
    BY <1>1, <1>2, <1>3, <1>7 DEF Asked
  <2> QED BY <1>1, <1>3, <1>7, <2>1, RequestStep
<1>10. Told'
  BY <1>1, <1>8, SilentStep
<1> QED BY <1>8, <1>9, <1>10

\* Device n gets the key that the client uses, in Phase 2 perhaps as a current one.
LEMMA JoinStep ==
  ASSUME IInv, NEW n \in Nodes, NEW kr \in 0..1, Join(n, kr)
  PROVE  Members' /\ Apps' /\ Requests' /\ Told'
<1> DEFINE y == NetCreate(kr, NetKeyOf(Me), AppKeyOf(Me))
<1>1. /\ n \notin members /\ members' = members \cup {n} /\ n # Client
      /\ node' = [node EXCEPT ![n] = y]
      /\ early' = (early \/ kr # Me.flag) /\ kr \in {0, Me.flag}
      /\ amiss' = IF Client \in amiss THEN amiss \cup {n} ELSE amiss
      /\ UNCHANGED <<gen, withApp, req, status, confirmed>>
  BY InvTypes DEF Join, net
<1>2. node'[n] = y /\ \A k \in Nodes : k # n => node'[k] = node[k]
  BY <1>1, InvTypes DEF TypeOK
<1>3. Me' = Me /\ Past' = Past /\ Over(Client)' = Over(Client)
  BY <1>1, <1>2, InvTypes DEF Me, Past, Over
<1>a. Ended' = (Over(Client) \/ early') /\ early' \in BOOLEAN /\ (Ended => Ended')
  BY <1>1, <1>3, InvTypes DEF Ended
<1>4. y.app0 = AppKeyOf(Me) /\ ~y.updated
  BY DEF NetCreate, Fresh
<1>5. /\ kr = 1 => y.net0 = None /\ y.net1 = Me.net1 /\ y.phase = Phase2 /\ Me.phase = Phase2
      /\ kr = 0 => y.net0 = NetKeyOf(Me) /\ y.phase = Normal
  BY <1>1, InvTypes DEF NetCreate, Fresh, Flagged, NetKeyOf
<1>6. /\ Me.phase = Phase2 => NetKeyOf(Me) = Me.net1 /\ Me.flag = 1
      /\ Me.phase # Phase2 => NetKeyOf(Me) = Me.net0 /\ Me.flag = 0 /\ kr = 0
  BY <1>1, InvTypes DEF Flagged, NetKeyOf, State
<1> HIDE DEF y
<1>7. Placed(Me, gen, withApp, Past, Ended, Client \notin amiss)
  BY InvTypes
<1>8. Me.phase = Phase2 => gen > 0 /\ Me.net1 = gen /\ Past /\ Old(Me, gen)
  BY <1>7, ClientPlace, Phases DEF Placed, Old, Past
<1>9. Placed(y, gen, withApp, Past, Ended', TRUE) /\ (early' => Past)
  <2>1. CASE kr = 1
    <3>1. y.net0 = None /\ y.net1 = gen /\ y.phase = Phase2 /\ gen > 0 /\ Past
      BY <1>5, <1>8, <2>1
    <3> QED BY <1>4, <3>1 DEF Placed
  <2>2. CASE kr = 0 /\ Me.phase = Phase2
    <3>1. kr # Me.flag /\ Past
      BY <1>6, <1>8, <2>2
    <3>2. early' /\ Ended'
      BY <1>1, <1>a, <3>1, Zenon
    <3> QED BY <1>4, <1>5, <1>6, <1>8, <2>2, <3>1, <3>2 DEF Placed
  <2>3. CASE kr = 0 /\ Me.phase # Phase2
    <3>a. kr = Me.flag /\ early \in BOOLEAN /\ (early => Past)
      BY <1>6, <2>3, InvTypes
    <3>0. early' = early /\ (early => Past)
      BY <1>1, <3>a, Zenon
    <3>1. CASE Over(Client)
      BY <1>4, <1>5, <1>6, <1>a, <2>3, <3>0, <3>1, ClientPlace DEF Placed
    <3>2. CASE ~Over(Client)
      BY <1>4, <1>5, <1>6, <2>3, <3>0, <3>2, ClientPlace, Phases DEF Placed, Old, Past
    <3> QED BY <3>1, <3>2
  <2>4. kr = 0 \/ kr = 1
    OBVIOUS
  <2> QED BY <2>1, <2>2, <2>3, <2>4, Zenon
<1>10. Members'
  <2>1. ASSUME NEW m \in members' PROVE Placed(node'[m], gen, withApp, Past, Ended', m \notin amiss')
    <3>0. /\ (m \notin amiss) \in BOOLEAN /\ (m \notin amiss') \in BOOLEAN
          /\ m \notin amiss' => m \notin amiss
      BY <1>1
    <3>1. Ended' \in BOOLEAN
      BY <1>a
    <3>2. CASE m = n
      BY <1>2, <1>9, <3>0, <3>1, <3>2, Weaker
    <3>3. CASE m # n
      <4>1. m \in members /\ node'[m] = node[m]
        BY <1>1, <1>2, <3>3, InvTypes
      <4>2. Placed(node[m], gen, withApp, Past, Ended, m \notin amiss)
        BY <4>1, InvTypes
      <4> QED BY <1>a, <3>0, <3>1, <4>1, <4>2, InvTypes, Weaker
    <3> QED BY <3>2, <3>3
  <2>2. /\ Client \in members' /\ Me'.net0 # None /\ (early' => Past')
    BY <1>1, <1>3, <1>9 DEF IInv, Members
  <2> QED BY <1>1, <1>3, <2>1, <2>2 DEF Members
<1>11. Client \notin amiss =>
       /\ Old(y, gen) => Old(Me, gen) /\ y.app0 = Me.app0
       /\ ~withApp => y.app0 = Me.app0
       /\ withApp /\ ~Old(y, gen) => y.app0 = gen
  <2> SUFFICES ASSUME Client \notin amiss
               PROVE  /\ Old(y, gen) => Old(Me, gen) /\ y.app0 = Me.app0
                      /\ ~withApp => y.app0 = Me.app0
                      /\ withApp /\ ~Old(y, gen) => y.app0 = gen
    OBVIOUS
  <2>1. CASE Me.phase = Phase2
    <3>1. ~Old(y, gen)
      BY <1>5, <1>6, <1>8, <2>1, InvTypes DEF Old, None
    <3>2. Old(Me, gen) /\ Me.net0 # None /\ Me.net0 # gen
      BY <1>8, <2>1, InvTypes DEF Old, None, Gen
    <3>3. Me.updated = withApp /\ (Me.updated => Me.app1 = gen)
      BY <1>7, <1>8, <2>1, <3>2, InvTypes, Phases DEF Placed
    <3> QED BY <1>4, <2>1, <3>1, <3>3, InvTypes DEF AppKeyOf
  <2>2. CASE Me.phase # Phase2
    <3>1. y.app0 = Me.app0 /\ y.net0 = Me.net0
      BY <1>4, <1>5, <1>6, <2>2 DEF AppKeyOf
    <3> QED BY <3>1, InvTypes DEF Old, IInv, Apps
  <2> QED BY <2>1, <2>2
<1>12. Apps'
  <2>1. ASSUME NEW m \in members' \ amiss', NEW k \in members' \ amiss'
        PROVE  /\ ~withApp \/ (Old(node'[m], gen) /\ Old(node'[k], gen)) =>
                    node'[m].app0 = node'[k].app0
               /\ withApp /\ ~Old(node'[k], gen) => node'[k].app0 = gen
    <3>0. /\ m \notin amiss /\ (m = n => Client \notin amiss)
          /\ k \notin amiss /\ (k = n => Client \notin amiss)
      BY <1>1
    <3>1. \A j \in members : node'[j] = node[j]
      BY <1>1, <1>2, InvTypes
    <3>2. Client \notin amiss =>
            \A j \in members \ amiss :
              ~withApp \/ (Old(Me, gen) /\ Old(node[j], gen)) => Me.app0 = node[j].app0
      BY InvTypes DEF IInv, Apps
    <3>3. (m = n \/ m \in members) /\ (k = n \/ k \in members)
      BY <1>1
    <3>4. CASE m \in members /\ k \in members
      BY <3>0, <3>1, <3>4 DEF IInv, Apps
    <3>5. CASE m = n /\ k \in members
      BY <1>2, <1>11, <3>0, <3>1, <3>2, <3>5 DEF IInv, Apps
    <3>6. CASE m \in members /\ k = n
      BY <1>2, <1>11, <3>0, <3>1, <3>2, <3>6 DEF IInv, Apps
    <3>7. CASE m = n /\ k = n
      BY <1>2, <1>11, <3>0, <3>7
    <3> QED BY <3>3, <3>4, <3>5, <3>6, <3>7
  <2> QED BY <1>1, <2>1 DEF Apps
<1>13. Requests'
  <2>1. NoRequest \in Request /\ Asked(n, NoRequest, Past', Ended')
    BY KeyRefreshAssumption DEF NoRequest, Request, None, Key, Gen, Asked
  <2> QED BY <1>1, <1>3, <1>a, <2>1, RequestStep
<1>14. Told'
  <2>1. \A k \in members : node'[k] = node[k]
    BY <1>1, <1>2, InvTypes
  <2>2. amiss \subseteq amiss' /\ members \subseteq members'
    BY <1>1
  <2>3. ASSUME NEW k \in Nodes \ amiss'
        PROVE  /\ confirmed[k] # {} => k \in members'
               /\ \A op \in confirmed[k] : Has(node'[k], gen, op)
    BY <2>1, <2>2, <2>3 DEF IInv, Told
  <2>4. status.op # "none" =>
          /\ status.from \in members'
          /\ status.ok => Has(node'[status.from], gen, status.op)
    BY <2>1, <2>2 DEF IInv, Told
  <2> QED BY <1>1, <2>3, <2>4 DEF Told
<1> QED BY <1>10, <1>12, <1>13, <1>14

LEMMA DeliverStep ==
  ASSUME IInv, NEW n \in Nodes, Deliver(n)
  PROVE  Members' /\ Apps' /\ Requests' /\ Told'
<1> DEFINE x == node[n]
           r == req[n]
           sure == n \notin amiss
           y == CASE r.op = "net" -> NetKeyUpdate(x, r.arg)
                  [] r.op = "app" -> AppKeyUpdate(x, r.arg)
                  [] OTHER -> KrpSet(x, r.arg)
<1>1. /\ r # NoRequest
      /\ node' = [node EXCEPT ![n] = y] /\ req' = [req EXCEPT ![n] = NoRequest]
      /\ UNCHANGED <<members, gen, withApp, confirmed, amiss, early>>
  BY DEF Deliver
<1>2. /\ n \in members /\ gen > 0
      /\ \/ r.op = "net" /\ r.arg = gen /\ n # Client
         \/ r.op = "app" /\ r.arg = gen /\ withApp
         \/ /\ r.op = "krp" /\ n # Client
            /\ \/ r.arg = Phase2 /\ Past
               \/ r.arg = Phase3 /\ Ended
  BY <1>1 DEF IInv, Requests, Asked
<1>3. /\ x \in State /\ Flagged(x) /\ Placed(x, gen, withApp, Past, Ended, sure)
      /\ sure \in BOOLEAN
  BY <1>2, InvTypes
<1>4. \/ status' = status
      \/ /\ r.op = "net" /\ NetKeyStatus(x, r.arg)
         /\ status'.op = "net" /\ status'.from = n
      \/ /\ r.op = "app" /\ status'.op = "app" /\ status'.from = n
         /\ status'.ok = AppKeyStatus(x, r.arg)
  BY <1>2 DEF Deliver
<1>5. /\ y \in State /\ Placed(y, gen, withApp, Past, Ended, sure) /\ Follows(x, y, gen)
      /\ r.op = "net" /\ NetKeyStatus(x, r.arg) => Has(y, gen, "net")
      /\ r.op = "app" /\ AppKeyStatus(x, r.arg) => Has(y, gen, "app")
  <2> HIDE DEF sure
  <2>1. CASE r.op = "net"
    <3>1. y = NetKeyUpdate(x, gen) /\ r.arg = gen
      BY <1>2, <2>1
    <3> HIDE DEF y
    <3>3. y \in State /\ Placed(y, gen, withApp, Past, Ended, sure) /\ Follows(x, y, gen)
      BY <1>2, <1>3, <3>1, InvTypes, NetKeyUpdateType, NetKeyUpdatePlaced
    <3>4. NetKeyStatus(x, gen) /\ Old(y, gen) => y.phase # Normal
      <4>1. CASE x.phase = Normal /\ gen # x.net0
        <5>1. y = [x EXCEPT !.net1 = gen, !.phase = Phase1]
          BY <3>1, <4>1 DEF NetKeyUpdate
        <5>2. y.phase = Phase1
          BY <1>3, <5>1 DEF State
        <5> QED BY <5>2, Phases
      <4>2. CASE ~(x.phase = Normal /\ gen # x.net0)
        BY <3>1, <4>2 DEF NetKeyUpdate, NetKeyStatus
      <4> QED BY <4>1, <4>2
    <3> QED BY <2>1, <3>1, <3>3, <3>4 DEF Has
  <2>2. CASE r.op = "app"
    <3>1. y = AppKeyUpdate(x, gen) /\ r.arg = gen /\ withApp = TRUE
      BY <1>2, <2>2, InvTypes
    <3> HIDE DEF y
    <3>3. y \in State /\ Placed(y, gen, withApp, Past, Ended, sure) /\ Follows(x, y, gen)
      BY <1>2, <1>3, <3>1, InvTypes, AppKeyUpdateType, AppKeyUpdatePlaced
    <3>4. AppKeyStatus(x, gen) => y.updated
      BY <1>3, <3>1 DEF AppKeyUpdate, AppKeyStatus, State
    <3> QED BY <2>2, <3>1, <3>3, <3>4 DEF Has
  <2>3. CASE r.op = "krp"
    <3>1. y = KrpSet(x, r.arg)
      BY <2>3
    <3>2. (r.arg = Phase2 => Past) /\ (r.arg = Phase3 => Ended)
      BY <1>2, <2>3, Phases
    <3>3. r.op # "net" /\ r.op # "app"
      BY <2>3
    <3> HIDE DEF y, r
    <3>4. y \in State /\ Placed(y, gen, withApp, Past, Ended, sure) /\ Follows(x, y, gen)
      BY <1>3, <3>1, <3>2, InvTypes, KrpSetType, KrpSetPlaced
    <3> QED BY <3>3, <3>4
  <2> QED BY <1>2, <2>1, <2>2, <2>3
<1>6. node'[n] = y
  BY <1>1, InvTypes DEF TypeOK
<1> HIDE DEF y, x
<1>7. /\ Past' = Past /\ Ended' = Ended /\ Members' /\ Apps'
      /\ \A k \in Nodes : Later(node[k], node'[k], gen)
  BY <1>1, <1>2, <1>5, QuietStep DEF x
<1>8. Requests'
  <2>1. NoRequest \in Request /\ Asked(n, NoRequest, Past', Ended')
    BY KeyRefreshAssumption DEF NoRequest, Request, None, Key, Gen, Asked
  <2> QED BY <1>1, <1>7, <2>1, RequestStep
<1>9. Told'
  <2>1. CASE status' = status
    BY <1>1, <1>7, <2>1, SilentStep
  <2>2. CASE status' # status
    <3>1. status'.from = n /\ (status'.ok => Has(y, gen, status'.op))
      BY <1>4, <1>5, <2>2
    <3>2. ASSUME NEW k \in Nodes \ amiss
          PROVE  /\ confirmed[k] # {} => k \in members
                 /\ \A op \in confirmed[k] : Has(node'[k], gen, op)
      <4>1. node[k] \in State
        BY InvTypes, StateOf
      <4> QED BY <1>7, <4>1, HasStep DEF IInv, Told
    <3> QED BY <1>1, <1>2, <1>6, <3>1, <3>2 DEF Told
  <2> QED BY <2>1, <2>2
<1> QED BY <1>7, <1>8, <1>9

\* The client takes what a status says for what it asked of its call's member.
LEMMA StatusStep ==
  ASSUME IInv, StatusRecv
  PROVE  Members' /\ Apps' /\ Requests' /\ Told'
<1>1. /\ status # NoStatus /\ status' = NoStatus
      /\ UNCHANGED <<members, node, gen, withApp, req, early>>
  BY DEF StatusRecv
<1>2. status.op # "none" /\ call.to \in Nodes /\ confirmed \in [Nodes -> SUBSET {"net", "app"}]
  BY <1>1, InvTypes DEF IInv, Typed, TypeOK, Call
<1>3. amiss \subseteq amiss'
  BY DEF StatusRecv
<1>4. Past' = Past /\ Ended' = Ended /\ Me' = Me
  BY <1>1 DEF Past, Ended, Over, Me
<1>5. Members'
  <2>1. ASSUME NEW m \in members PROVE Placed(node[m], gen, withApp, Past, Ended, m \notin amiss')
    <3>1. /\ (m \notin amiss) \in BOOLEAN /\ (m \notin amiss') \in BOOLEAN
          /\ m \notin amiss' => m \notin amiss
      BY <1>3
    <3> QED BY <3>1, InvTypes, Weaker
  <2> QED BY <1>1, <1>4, <2>1 DEF IInv, Members
<1>6. Apps'
  BY <1>1, <1>3 DEF IInv, Apps
<1>7. Requests'
  BY <1>1, <1>4 DEF IInv, Requests, Asked
<1>8. Told'
  <2>1. ASSUME NEW k \in Nodes \ amiss', confirmed'[k] # confirmed[k]
        PROVE  /\ k \in members
               /\ \A op \in confirmed'[k] : op \in confirmed[k] \/ Has(node[k], gen, op)
    <3>1. /\ call.op = status.op
          /\ confirmed' = [confirmed EXCEPT ![call.to] =
                             @ \cup IF status.ok THEN {status.op} ELSE {}]
          /\ amiss' = IF status.from = call.to /\ status.arg = gen THEN amiss
                      ELSE amiss \cup {call.to}
      BY <2>1 DEF StatusRecv
    <3>2. k = call.to /\ status.ok /\ confirmed'[k] = confirmed[k] \cup {status.op}
      BY <1>2, <2>1, <3>1
    <3>3. status.from = k
      BY <2>1, <3>1, <3>2
    <3> QED BY <1>2, <3>2, <3>3 DEF IInv, Told
  <2>2. ASSUME NEW k \in Nodes \ amiss'
        PROVE  /\ confirmed'[k] # {} => k \in members
               /\ \A op \in confirmed'[k] : Has(node[k], gen, op)
    BY <1>3, <2>1, <2>2 DEF IInv, Told
  <2> QED BY <1>1, <2>2 DEF Told, NoStatus
<1> QED BY <1>5, <1>6, <1>7, <1>8

LEMMA HearStep ==
  ASSUME IInv, NEW n \in Nodes, NEW m \in Nodes, Hear(n, m)
  PROVE  Members' /\ Apps' /\ Requests' /\ Told'
<1> DEFINE b == BeaconOf(m)
           y == SecureBeaconRecv(node[n], b)
<1>1. /\ n \in members /\ m \in members
      /\ node' = [node EXCEPT ![n] = y]
      /\ UNCHANGED <<members, gen, withApp, req, status, confirmed, amiss, early>>
  BY DEF Hear, net
<1>2. b \in Beacon /\ b.kr = node[m].flag /\ b.key \in {node[m].net0, NetKeyOf(node[m])}
  BY InvTypes, BeaconType DEF BeaconOf
<1> HIDE DEF b
<1>3. y \in State
  BY <1>1, <1>2, InvTypes, BeaconRecvType
<1>4. Placed(y, gen, withApp, Past, Ended, n \notin amiss) /\ Follows(node[n], y, gen)
  <2> DEFINE s == n \notin amiss
             t == m \notin amiss
  <2>1. s \in BOOLEAN /\ t \in BOOLEAN
    OBVIOUS
  <2>2. /\ Placed(node[n], gen, withApp, Past, Ended, s)
        /\ Placed(node[m], gen, withApp, Past, Ended, t)
        /\ node[n] \in State /\ node[m] \in State /\ Flagged(node[m])
        /\ gen \in Gen /\ withApp \in BOOLEAN /\ Past \in BOOLEAN /\ Ended \in BOOLEAN
    BY <1>1, InvTypes
  <2> HIDE DEF s, t
  <2>3. Placed(y, gen, withApp, Past, Ended, s) /\ Follows(node[n], y, gen)
    BY ONLY <1>2, <2>1, <2>2, BeaconRecvPlaced
  <2> QED BY <2>3 DEF s
<1> HIDE DEF y
<1>5. /\ Past' = Past /\ Ended' = Ended /\ Members' /\ Apps'
      /\ \A k \in Nodes : Later(node[k], node'[k], gen)
  BY <1>1, <1>3, <1>4, QuietStep
<1>6. Requests'
  <2>1. NoRequest \in Request /\ Asked(n, NoRequest, Past', Ended')
    BY KeyRefreshAssumption DEF NoRequest, Request, None, Key, Gen, Asked
  <2> QED BY <1>1, <1>5, <2>1, RequestStep
<1>7. Told'
  BY <1>1, <1>5, SilentStep
<1> QED BY <1>5, <1>6, <1>7

LEMMA InvStep == Settles /\ IInv /\ [Next]_vars => IInv'
<1> SUFFICES ASSUME Settles, IInv, [Next]_vars PROVE IInv'
  OBVIOUS
<1>1. Typed'
  BY TypedStep DEF IInv
<1>2. Members' /\ Apps' /\ Requests' /\ Told'
  <2>1. CASE Timeout \/ UNCHANGED vars
    <3>1. UNCHANGED <<members, node, gen, withApp, req, status, confirmed, amiss, early>>
      BY <2>1 DEF Timeout, vars, net
    <3> QED BY <3>1 DEF IInv, Members, Apps, Requests, Asked, Told, Me, Past, Ended, Over
  <2> QED
    BY <2>1, StatusStep, StartRefreshStep, NetKeyStep, AppKeyStep, Krp2Step, Krp3Step, JoinStep,
       DeliverStep, HearStep DEF Next
<1> QED BY <1>1, <1>2 DEF IInv

(***************************************************************************)
(* What one member sends, another in its place hears.                      *)
(***************************************************************************)
LEMMA InvUnderstood == IInv => Understood
<1> SUFFICES ASSUME IInv, NEW s \in members \ amiss, NEW r \in members \ amiss
             PROVE  \/ Hears(node[s], node[r])
                    \/ /\ node[s].phase = Phase1
                       /\ node[s].net0 \notin NetKeysTried(node[r])
                       /\ node[r].net0 = None \/ Over(Client) \/ early
  BY DEF Understood
<1> DEFINE x == node[s]
           z == node[r]
<1>0. /\ x \in State /\ Flagged(x) /\ Placed(x, gen, withApp, Past, Ended, TRUE)
      /\ z \in State /\ Flagged(z) /\ Placed(z, gen, withApp, Past, Ended, TRUE)
      /\ Ended => Past
      /\ gen \in Int /\ gen >= 0 /\ gen # None /\ withApp \in BOOLEAN
  <2>1. (s \notin amiss) = TRUE /\ (r \notin amiss) = TRUE
    OBVIOUS
  <2>2. /\ Placed(x, gen, withApp, Past, Ended, s \notin amiss)
        /\ Placed(z, gen, withApp, Past, Ended, r \notin amiss)
        /\ x \in State /\ Flagged(x) /\ z \in State /\ Flagged(z)
    BY InvTypes
  <2>3. gen \in Int /\ gen >= 0 /\ gen # None /\ withApp \in BOOLEAN /\ (Ended => Past)
    BY InvTypes DEF Gen, None
  <2> QED BY <2>1, <2>2, <2>3
<1>1. /\ Old(x, gen) => x.net0 # gen /\ x.net0 # None
      /\ Old(z, gen) => z.net0 # gen /\ z.net0 # None
  BY <1>0 DEF Old, None
<1>2. /\ ~withApp \/ (Old(x, gen) /\ Old(z, gen)) => x.app0 = z.app0
      /\ withApp /\ ~Old(x, gen) => x.app0 = gen
      /\ withApp /\ ~Old(z, gen) => z.app0 = gen
  BY DEF IInv, Apps
<1> HIDE DEF x, z
<1>3. CASE Old(x, gen) /\ x.phase # Phase2
  <2>1. NetKeyOf(x) = x.net0 /\ AppKeyOf(x) = x.app0
    BY <1>0, <1>3 DEF NetKeyOf, AppKeyOf, Flagged
  <2>2. CASE Old(z, gen)
    <3>1. z.net0 = x.net0 /\ z.app0 = x.app0
      BY <1>2, <1>3, <2>2 DEF Old
    <3> QED BY <2>1, <3>1 DEF Hears, NetHears, NetKeysTried, AppKeyTried, IsNew, x, z
  <2>3. CASE ~Old(z, gen)
    <3>1. Past /\ (z.net0 = None \/ Ended) /\ z.net0 # x.net0
      <4>1. CASE z.net0 = gen /\ z.phase = Normal /\ Ended
        BY <1>0, <1>1, <1>3, <4>1
      <4>2. CASE z.net0 = None /\ Past
        BY <1>1, <1>3, <4>2
      <4> QED BY <1>0, <2>3, <4>1, <4>2 DEF Placed
    <3>2. x.phase = Phase1
      BY <1>0, <1>1, <1>3, <3>1 DEF Placed, State
    <3>3. z.phase # Normal => z.net1 = gen
      BY <1>0, <2>3 DEF Placed
    <3>4. x.net0 \notin NetKeysTried(z)
      BY <1>1, <1>3, <3>1, <3>3 DEF NetKeysTried
    <3> QED BY <3>1, <3>2, <3>4 DEF Ended, x, z
  <2> QED BY <2>2, <2>3
<1>4. CASE ~(Old(x, gen) /\ x.phase # Phase2)
  <2>1. NetKeyOf(x) = gen
    BY <1>0, <1>4, Phases DEF NetKeyOf, Flagged, Placed
  <2>2. Past
    BY <1>0, <1>4 DEF Placed
  <2>3. AppKeyOf(x) = IF withApp THEN gen ELSE x.app0
    <3>1. CASE Old(x, gen)
      <4>1. x.phase = Phase2 /\ x.updated = withApp /\ (x.updated => x.app1 = gen)
        BY <1>0, <1>1, <1>4, <2>2, <3>1 DEF Placed
      <4> QED BY <4>1 DEF AppKeyOf
    <3>2. CASE ~Old(x, gen)
      <4>1. ~x.updated
        BY <1>0, <3>2 DEF Placed
      <4> QED BY <1>2, <3>2, <4>1 DEF AppKeyOf
    <3> QED BY <3>1, <3>2
  <2>4. gen \in NetKeysTried(z)
    BY <1>0, <2>2, Phases DEF Placed, NetKeysTried
  <2>5. AppKeyTried(z, gen) = IF withApp THEN gen ELSE z.app0
    <3>1. CASE Old(z, gen)
      <4>1. z.net0 # gen /\ z.updated = withApp /\ (z.updated => z.app1 = gen)
        BY <1>0, <1>1, <2>2, <3>1 DEF Placed
      <4> QED BY <4>1 DEF AppKeyTried, IsNew
    <3>2. CASE ~Old(z, gen)
      <4>1. ~z.updated
        BY <1>0, <3>2 DEF Placed
      <4> QED BY <1>2, <3>2, <4>1 DEF AppKeyTried
    <3> QED BY <3>1, <3>2
  <2>6. AppKeyOf(x) = AppKeyTried(z, gen)
    BY <1>0, <1>2, <2>3, <2>5
  <2> QED BY <2>1, <2>4, <2>6 DEF Hears, NetHears, x, z
<1> QED BY <1>3, <1>4

(***************************************************************************)
(* Members understand one another through every refresh, in any number of  *)
(* devices and whatever requests, statuses and beacons are lost or late,   *)
(* but for those about which a status that was not theirs misled the       *)
(* client (net_key_status and app_key_status do not look at its sender),   *)
(* if the operator lets one refresh end before the next (cfg_srv.c,        *)
(* beacon.c, net.c and transport.c agree on the key of every phase).       *)
(***************************************************************************)
THEOREM Understanding == Settles /\ Spec => []Understood
<1> SUFFICES ASSUME Settles PROVE Spec => []Understood
  OBVIOUS
<1>1. IInv /\ [Next]_vars => IInv'
  BY InvStep
<1> QED BY InitInv, <1>1, InvUnderstood, PTL DEF Spec
=============================================================================
