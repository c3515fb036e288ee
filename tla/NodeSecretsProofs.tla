------------------------- MODULE NodeSecretsProofs -------------------------
(***************************************************************************)
(* For any number of rotations and crashes.  As long as the node and the   *)
(* command do not create secrets side by side, halves that belong to       *)
(* different pairs never meet in the database, and what a completed        *)
(* rotation stored is on record.  The carriers accept what clients are     *)
(* handed and what is stored, short ids of overlapping rotations apart.    *)
(***************************************************************************)
EXTENDS NodeSecretsLemmas

(* Whatever crashes, failures and aborted commands there are: the types    *)
(* hold, and the public keys and the certificate key in node_settings are  *)
(* missing or belong to what they are used with, for any sessions and      *)
(* bounds, if the node and the command do not create secrets side by side  *)
(* (wg.go loadOrCreateKeys, secrets.go loadOrCreateSecrets and             *)
(* RotateAllSecrets, tlscert.go loadOrCreateCert).                         *)
THEOREM PairsStayTogether ==
    ASSUME FirstAlone
    PROVE  Spec => [](TypeOK /\ PairsMatch)
<1>1. SecretsInv => TypeOK /\ PairsMatch
  BY Zenon DEF SecretsInv
<1>2. QED
  BY <1>1, SecretsInvariant, PTL

-----------------------------------------------------------------------------
(* What the carriers accept                                                *)

Threads == Session \cup {"node"}

(* The steps of the threads of the node.                                   *)
Idle == <<"idle", "">>
Up == <<"up", "">>
AtBuild == <<"build", "">>
AtListen == <<"listen", "">>
AtPut == <<"put", "short">>
AtInstall == <<"install", "short">>
AtClose == <<"close", "">>

LEMMA StepsApart ==
    /\ Idle # AtBuild /\ Idle # AtListen /\ Idle # AtPut /\ Idle # AtInstall /\ Idle # AtClose
    /\ Up # AtBuild /\ Up # AtListen
    /\ AtBuild # AtListen /\ AtBuild # AtPut /\ AtBuild # AtInstall /\ AtBuild # AtClose
    /\ AtListen # AtPut /\ AtListen # AtInstall /\ AtListen # AtClose
    /\ AtPut # AtInstall /\ AtPut # AtClose /\ AtInstall # AtClose
  BY Zenon DEF Idle, Up, AtBuild, AtListen, AtPut, AtInstall, AtClose

(* A node that is up has loaded.                                           *)
LEMMA UpVerb == Up[1] = "up"
  BY Verb, ZenonT(30) DEF Up

(* A rotation that began alone, or one since which none overlapped with    *)
(* another, is the only one in progress.                                   *)
OverlapInv ==
    sole \/ ~mixed => \A a, b \in Session : pc[a] # Idle /\ pc[b] # Idle => a = b

(* The listeners come up only after the node has loaded, from the secrets  *)
(* in memory, and go down for the time between a new short id and a        *)
(* restart; overlapping rotations leave all but the short id as it is.     *)
ListenInv ==
    /\ pc["node"] # Up => ~running /\ \A t \in Session : pc[t] = Idle
    /\ ~mixed => \A t \in Session : pc[t] \in {AtBuild, AtListen} => ~running
    /\ \A t \in Threads : pc[t] = AtListen =>
          \A s \in Listener : opts[t][s] = mem["node"][s] \/ (s = "short" /\ mixed)
    /\ running => \A s \in Listener :
          \/ served[s] = mem["node"][s]
          \/ s = "short" /\ (mixed \/ \E t \in Session : pc[t] = AtClose)

(* The settings of the listeners that a load is done with at setting s.    *)
Before(s) ==
    {x \in Listener :
        \/ x = "priv" /\ s \notin {"wgPriv", "wgPub", "priv"}
        \/ x = "short" /\ s \in {"uuid", "pass", "cert", "certKey"}
        \/ x = "uuid" /\ s \in {"pass", "cert", "certKey"}
        \/ x = "pass" /\ s \in {"cert", "certKey"}
        \/ x = "cert" /\ s = "certKey"}

(* The node has secrets: its load did not fail.                            *)
Working == running \/ mem["node"]["priv"] # 0 \/ \E t \in Session : pc[t] # Idle

(* Of the settings that the command did not write since, memory holds what *)
(* is stored, but for a short id that a session has yet to install and     *)
(* those of overlapping rotations.                                         *)
StoredInv ==
    \A x \in Listener : x \notin foreign =>
       /\ Loading("node") /\ x \in Before(pc["node"][2]) => mem["node"][x] = db[x]
       /\ pc["node"] \in {AtBuild, AtListen} => mem["node"][x] = db[x]
       /\ pc["node"] = Up /\ Working =>
             \/ mem["node"][x] = db[x]
             \/ x = "short" /\ (mixed \/ \E t \in Session : pc[t] = AtInstall)
       /\ x = "short" /\ (sole \/ ~mixed) =>
             \A t \in Session : pc[t] = AtInstall => new[t] = db[x]

ServedInv == OverlapInv /\ ListenInv /\ StoredInv

(* The statements of a load, one by one.                                   *)
KeyStep(p, s, k) ==
    GetPrivate(p, s, k) \/ SetPrivate(p, s, k) \/ SetPublic(p, k, s) \/ GetPublic(p, k)

LEMMA LoadParts ==
    ASSUME NEW p, Load(p)
    PROVE  \/ KeyStep(p, "wgPriv", "wgPub") \/ KeyStep(p, "priv", "pub")
           \/ getOrSet(p, "short") \/ getOrSet(p, "uuid") \/ getOrSet(p, "pass")
           \/ GetCert(p) \/ GetCertKey(p) \/ SetCert(p) \/ SetCertKey(p)
<1>1. ASSUME NEW k \in {<<"wgPriv", "wgPub">>, <<"priv", "pub">>},
             \/ GetPrivate(p, k[1], k[2]) \/ SetPrivate(p, k[1], k[2])
             \/ SetPublic(p, k[2], k[1]) \/ GetPublic(p, k[2])
      PROVE  KeyStep(p, "wgPriv", "wgPub") \/ KeyStep(p, "priv", "pub")
  <2>1. PICK a, b : k = <<a, b>> /\ k[1] = a /\ k[2] = b
    OBVIOUS
  <2>2. KeyStep(p, a, b)
    BY <1>1, <2>1, Zenon DEF KeyStep
  <2>3. (a = "wgPriv" /\ b = "wgPub") \/ (a = "priv" /\ b = "pub")
    BY <2>1, Zenon
  <2>4. QED
    BY <2>2, <2>3, Zenon
<1>2. ASSUME NEW s \in Carrier, getOrSet(p, s)
      PROVE  getOrSet(p, "short") \/ getOrSet(p, "uuid") \/ getOrSet(p, "pass")
  BY <1>2, Zenon DEF Carrier
<1>3. QED
  BY <1>1, <1>2, Zenon DEF Load

(* The command and the node work on different memories.                    *)
LEMMA CommandApart ==
    ASSUME TypeOK, Command \/ Elapse \/ UNCHANGED vars
    PROVE  /\ \A t \in Threads : pc'[t] = pc[t]
           /\ mem'["node"] = mem["node"] /\ opts' = opts /\ served' = served /\ new' = new
           /\ (running' <=> running) /\ (sole' <=> sole) /\ (mixed' <=> mixed)
           /\ \A x \in Setting : x \notin foreign' => x \notin foreign /\ db'[x] = db[x]
<1>1. /\ "cli" \notin Threads /\ Threads \subseteq Thread /\ "cli" \in Process /\ "node" \in Process
      /\ Carrier \subseteq Setting /\ "cli" \in Thread /\ "cli" # "node"
  BY ThreadAssumption, Zenon DEF Threads, Thread, Process, Setting
<1>2. ASSUME NEW l, Goto("cli", l)
      PROVE  \A t \in Threads : pc'[t] = pc[t]
  BY <1>1, <1>2, Zenon DEF Goto, TypeOK
<1> DEFINE Flags == (running' <=> running) /\ (sole' <=> sole) /\ (mixed' <=> mixed)
           Others == \A x \in Setting : x \notin foreign' => x \notin foreign /\ db'[x] = db[x]
<1>3. ASSUME UNCHANGED <<db, foreign>>
      PROVE  Others
  BY <1>3, Zenon
<1>4. ASSUME NEW s \in Setting, NEW v, db' = [db EXCEPT ![s] = v], foreign' = foreign \cup {s}
      PROVE  Others
  <2>1. db \in [Setting -> Nat]
    BY Zenon DEF TypeOK
  <2>2. QED
    BY <1>4, <2>1, Zenon
<1>5. ASSUME UNCHANGED <<carriers, sole, mixed>>
      PROVE  Flags
  BY <1>5, Zenon DEF carriers
<1> HIDE DEF Flags, Others
<1>6. CASE Load("cli")
  <2>1. UNCHANGED World
    BY <1>6, Zenon DEF Load, GetPrivate, SetPrivate, SetPublic, GetPublic, getOrSet, GetCert,
                GetCertKey, SetCert, SetCertKey, Put
  <2>2. \E l : Goto("cli", l)
    BY <1>6, Zenon DEF Load, GetPrivate, SetPrivate, SetPublic, GetPublic, getOrSet, GetCert,
                GetCertKey, SetCert, SetCertKey
  <2>3. mem'["node"] = mem["node"]
    BY <1>1, <1>6, ZenonT(30) DEF Load, GetPrivate, SetPrivate, SetPublic, GetPublic, getOrSet, GetCert,
                GetCertKey, SetCert, SetCertKey, Take, TypeOK
  <2>4. Others
    <3>1. ASSUME NEW s, NEW k, s \in Setting, k \in Setting,
                 KeyStep("cli", s, k)
          PROVE  Others
      BY <1>1, <1>3, <1>4, <3>1, ZenonT(30) DEF KeyStep, GetPrivate, SetPrivate, SetPublic, GetPublic,
                Put, Known
    <3>2. ASSUME NEW s \in Setting, getOrSet("cli", s)
          PROVE  Others
      BY <1>1, <1>3, <1>4, <3>2, ZenonT(30) DEF getOrSet, Put, Known
    <3>3. CASE GetCert("cli") \/ GetCertKey("cli") \/ SetCert("cli") \/ SetCertKey("cli")
      <4>1. "cert" \in Setting /\ "certKey" \in Setting
        BY Zenon DEF Setting
      <4>2. QED
        BY <1>1, <1>3, <1>4, <3>3, <4>1, ZenonT(30) DEF GetCert, GetCertKey, SetCert, SetCertKey, Put, Known
    <3>4. {"wgPriv", "wgPub", "priv", "pub", "short", "uuid", "pass"} \subseteq Setting
      BY Zenon DEF Setting, WireGuard, Carrier
    <3>5. QED
      BY <1>6, <3>1, <3>2, <3>3, <3>4, LoadParts, ZenonT(30)
  <2>5. Flags
    BY <1>5, <2>1, Zenon DEF World
  <2>6. QED
    BY <1>2, <2>1, <2>2, <2>3, <2>4, <2>5, ZenonT(30) DEF World, carriers, Flags, Others
<1>7. ASSUME UNCHANGED <<mem, new, carriers, sole, mixed>>, Others,
             (\E l : Goto("cli", l)) \/ pc' = pc
      PROVE  /\ \A t \in Threads : pc'[t] = pc[t]
             /\ mem'["node"] = mem["node"] /\ opts' = opts /\ served' = served /\ new' = new
             /\ Flags /\ Others
  BY <1>2, <1>5, <1>7, Zenon DEF carriers
<1>8. ASSUME NEW s \in Carrier, archiveCurrent(s) \/ RotateAllSecrets(s) \/ RecordNew(s)
      PROVE  /\ \E l : Goto("cli", l)
             /\ UNCHANGED <<mem, new, carriers, sole, mixed>> /\ Others
  <2>1. UNCHANGED <<mem, new, carriers, sole, mixed>>
    BY <1>8, Zenon DEF archiveCurrent, RotateAllSecrets, RecordNew, rest
  <2>2. \E l : Goto("cli", l)
    BY <1>8, Zenon DEF archiveCurrent, RotateAllSecrets, RecordNew
  <2>3. Others
    BY <1>1, <1>3, <1>4, <1>8, Zenon DEF archiveCurrent, RotateAllSecrets, RecordNew, rest
  <2>4. QED
    BY <2>1, <2>2, <2>3, Zenon
<1>9. CASE RotateCarriers \/ DeactivateExpiredCarrierCredentials \/ Abort
  <2>1. UNCHANGED <<db, new, carriers, foreign, sole, mixed>>
    BY <1>9, Zenon DEF RotateCarriers, DeactivateExpiredCarrierCredentials, Abort, World, rest
  <2>2. \E l : Goto("cli", l)
    BY <1>9, Zenon DEF RotateCarriers, DeactivateExpiredCarrierCredentials, Abort, Exit
  <2>3. mem'["node"] = mem["node"]
    BY <1>1, <1>9, Zenon DEF RotateCarriers, DeactivateExpiredCarrierCredentials, Abort, Exit, TypeOK
  <2>4. Flags /\ Others
    BY <1>3, <1>5, <2>1, Zenon
  <2>5. QED
    BY <1>2, <2>1, <2>2, <2>3, <2>4, ZenonT(30) DEF carriers, Flags, Others
<1>10. CASE Elapse \/ UNCHANGED vars
  <2>1. UNCHANGED <<mem, new, carriers, sole, mixed>> /\ pc' = pc /\ UNCHANGED <<db, foreign>>
    BY <1>10, Zenon DEF Elapse, vars, rest
  <2>2. QED
    BY <1>3, <1>7, <2>1, Zenon DEF Flags, Others
<1>11. QED
  BY <1>6, <1>7, <1>8, <1>9, <1>10, Zenon DEF Command, Flags, Others

(* The node loads before it is up, and does not listen yet when a          *)
(* statement of the load ends.                                             *)
LEMMA LoadsBeforeUp ==
    ASSUME TypeOK, Boot \/ Load("node") \/ LoadFails
    PROVE  /\ pc["node"] # Up /\ pc'["node"] # AtListen
           /\ \A t \in Session : pc'[t] = pc[t]
           /\ opts' = opts /\ served' = served /\ new' = new
           /\ (running' => running) /\ (running => running')
<1>1. PICK l : Goto("node", l)
  BY Zenon DEF Boot, LoadFails, Load, GetPrivate, SetPrivate, SetPublic, GetPublic, getOrSet, GetCert,
         GetCertKey, SetCert, SetCertKey
<1>2. \A t \in Session : pc'[t] = pc[t]
  BY <1>1, ThreadAssumption, ZenonT(30) DEF Goto, TypeOK, Thread, Process
<1>3. UNCHANGED <<new, carriers>>
  BY Zenon DEF Boot, LoadFails, Load, GetPrivate, SetPrivate, SetPublic, GetPublic, getOrSet, GetCert,
         GetCertKey, SetCert, SetCertKey, Put, World
<1>4. (running' => running) /\ (running => running')
  BY <1>3, Zenon DEF carriers
<1>5. pc["node"] # Up
  <2>1. \A x : <<"get", x>> # Up /\ <<"set", x>> # Up
    BY Zenon DEF Up
  <2>2. CASE LoadFails
    <3>1. pc["node"][1] \in {"get", "set"}
      BY <2>2, Zenon DEF LoadFails, Loading
    <3>2. pc["node"] = Up => pc["node"][1] = "up"
      BY UpVerb, Zenon
    <3>3. QED
      BY <3>1, <3>2, Zenon
  <2>3. CASE Boot
    <3>1. <<"off", "">> # Up
      BY Zenon DEF Up
    <3>2. QED
      BY <2>3, <3>1, Zenon DEF Boot
  <2>4. ASSUME NEW s, NEW k, KeyStep("node", s, k)
        PROVE  pc["node"] # Up
    BY <2>1, <2>4, Zenon DEF KeyStep, GetPrivate, SetPrivate, SetPublic, GetPublic
  <2>5. ASSUME NEW s, getOrSet("node", s)
        PROVE  pc["node"] # Up
    BY <2>1, <2>5, Zenon DEF getOrSet
  <2>6. CASE GetCert("node") \/ GetCertKey("node") \/ SetCert("node") \/ SetCertKey("node")
    BY <2>1, <2>6, Zenon DEF GetCert, GetCertKey, SetCert, SetCertKey
  <2>7. QED
    BY <2>2, <2>3, <2>4, <2>5, <2>6, LoadParts, ZenonT(30)
<1>6. \A s \in {"wgPub", "pub", "certKey"} \cup Carrier : After("node", s) # AtListen
  BY Zenon DEF After, Carrier, AtListen
<1>7. pc'["node"] # AtListen
  <2>1. "node" \in Thread
    BY Zenon DEF Thread, Process
  <2>2. ASSUME NEW x, Goto("node", x)
        PROVE  pc'["node"] = x
    BY <2>1, <2>2, Moved, Zenon
  <2>0. \A x : <<"get", x>> # AtListen /\ <<"set", x>> # AtListen /\ <<"up", "">> # AtListen
    BY Zenon DEF AtListen
  <2>3. CASE Boot
    <3>1. pc'["node"] = <<"get", "wgPriv">>
      BY <2>2, <2>3, ZenonT(30) DEF Boot
    <3>2. QED
      BY <2>0, <3>1, Zenon
  <2>4. CASE LoadFails
    <3>1. pc'["node"] = <<"get", "priv">> \/ pc'["node"] = <<"up", "">>
      BY <2>2, <2>4, Zenon DEF LoadFails
    <3>2. QED
      BY <2>0, <3>1, Zenon
  <2>5. ASSUME NEW s, NEW k \in {"wgPub", "pub"}, KeyStep("node", s, k)
        PROVE  pc'["node"] # AtListen
    <3>1. \/ \E x : pc'["node"] = <<"get", x>> \/ pc'["node"] = <<"set", x>>
          \/ pc'["node"] = After("node", k)
      BY <2>2, <2>5, Zenon DEF KeyStep, GetPrivate, SetPrivate, SetPublic, GetPublic
    <3>2. QED
      BY <1>6, <2>0, <3>1, Zenon
  <2>6. ASSUME NEW s \in Carrier, getOrSet("node", s)
        PROVE  pc'["node"] # AtListen
    <3>1. pc'["node"] = <<"set", s>> \/ pc'["node"] = After("node", s)
      BY <2>2, <2>6, Zenon DEF getOrSet
    <3>2. QED
      BY <1>6, <2>0, <3>1, Zenon
  <2>7. CASE GetCert("node") \/ GetCertKey("node") \/ SetCert("node") \/ SetCertKey("node")
    <3>1. \/ \E x : pc'["node"] = <<"get", x>> \/ pc'["node"] = <<"set", x>>
          \/ pc'["node"] = After("node", "certKey")
      BY <2>2, <2>7, Zenon DEF GetCert, GetCertKey, SetCert, SetCertKey
    <3>2. QED
      BY <1>6, <2>0, <3>1, Zenon
  <2>8. QED
    BY <2>3, <2>4, <2>5, <2>6, <2>7, LoadParts, ZenonT(30) DEF Carrier
<1>8. QED
  BY <1>1, <1>2, <1>3, <1>4, <1>5, <1>7, ZenonT(30) DEF carriers

(* The invariant while the node is up, for session t.                      *)
LEMMA SessionKnows ==
    ASSUME TypeOK, ServedInv, NEW t \in Session,
           pc[t] # Idle \/ (pc["node"] = Up /\ mem["node"]["priv"] # 0)
    PROVE  /\ pc["node"] = Up /\ t \in Thread /\ "node" \in Thread \ {t} /\ Session \subseteq Thread
           /\ pc[t] # Idle /\ (sole \/ ~mixed) => \A u \in Session \ {t} : pc[u] = Idle
           /\ ~mixed /\ pc[t] \in {AtBuild, AtListen} => ~running
           /\ pc[t] = AtListen =>
                 \A s \in Listener : opts[t][s] = mem["node"][s] \/ (s = "short" /\ mixed)
           /\ running => \A s \in Listener :
                 \/ served[s] = mem["node"][s]
                 \/ s = "short" /\ (mixed \/ \E u \in Session : pc[u] = AtClose)
           /\ \A x \in Listener : x \notin foreign =>
                 \/ mem["node"][x] = db[x]
                 \/ x = "short" /\ (mixed \/ \E u \in Session : pc[u] = AtInstall)
           /\ "short" \notin foreign /\ (sole \/ ~mixed) /\ pc[t] = AtInstall => new[t] = db["short"]
<1>1. t \in Thread /\ "node" \in Thread \ {t} /\ t \in Threads /\ Session \subseteq Thread
  BY ThreadAssumption, Zenon DEF Thread, Process, Threads
<1>2. pc["node"] = Up /\ Working
  BY Zenon DEF ListenInv, Working, ServedInv
<1>3. /\ pc[t] # Idle /\ (sole \/ ~mixed) => \A u \in Session \ {t} : pc[u] = Idle
      /\ ~mixed /\ pc[t] \in {AtBuild, AtListen} => ~running
  BY Zenon DEF OverlapInv, ListenInv, ServedInv
<1>4. /\ pc[t] = AtListen =>
            \A s \in Listener : opts[t][s] = mem["node"][s] \/ (s = "short" /\ mixed)
      /\ running => \A s \in Listener :
            \/ served[s] = mem["node"][s]
            \/ s = "short" /\ (mixed \/ \E u \in Session : pc[u] = AtClose)
  BY <1>1, Zenon DEF ListenInv, ServedInv
<1>5. \A x \in Listener : x \notin foreign =>
         \/ mem["node"][x] = db[x]
         \/ x = "short" /\ (mixed \/ \E u \in Session : pc[u] = AtInstall)
  BY <1>2, Zenon DEF StoredInv, ServedInv
<1>6. "short" \notin foreign /\ (sole \/ ~mixed) /\ pc[t] = AtInstall => new[t] = db["short"]
  BY Zenon DEF StoredInv, ServedInv, Listener, Carrier
<1>7. QED
  BY <1>1, <1>2, <1>3, <1>4, <1>5, <1>6, Zenon

(* It is enough to look at t when t moves, and at the short id.            *)
LEMMA SessionKeeps ==
    ASSUME TypeOK, ServedInv, NEW t \in Session, NEW l, Goto(t, l), pc["node"] = Up,
           sole' \/ ~mixed' => \A u \in Session \ {t} : pc[u] = Idle,
           \A u \in Session \ {t} : opts'[u] = opts[u],
           \A s \in Listener : s # "short" => mem'["node"][s] = mem["node"][s],
           ~mixed' /\ l \in {AtBuild, AtListen} => ~running',
           l = AtListen =>
              \A s \in Listener : opts'[t][s] = mem'["node"][s] \/ (s = "short" /\ mixed'),
           running' => \A s \in Listener :
              served'[s] = mem'["node"][s] \/ (s = "short" /\ (mixed' \/ l = AtClose)),
           \A x \in Listener : x \notin foreign' =>
              mem'["node"][x] = db'[x] \/ (x = "short" /\ (mixed' \/ l = AtInstall)),
           "short" \notin foreign' /\ (sole' \/ ~mixed') /\ l = AtInstall => new'[t] = db'["short"]
    PROVE  ServedInv'
<1>1. t \in Thread /\ "node" \in Thread \ {t} /\ Session \subseteq Thread /\ Threads = Session \cup {"node"}
  BY ThreadAssumption, Zenon DEF Thread, Process, Threads
<1>2. pc'[t] = l /\ pc'["node"] = Up /\ \A u \in Session \ {t} : pc'[u] = pc[u]
  BY <1>1, Moved, Zenon
<1>3. OverlapInv'
  <2>1. ASSUME sole' \/ ~mixed', NEW a \in Session, NEW b \in Session, pc'[a] # Idle, pc'[b] # Idle
        PROVE  a = b
    <3>1. \A u \in Session \ {t} : pc'[u] = Idle
      BY <1>2, <2>1, Zenon
    <3>2. QED
      BY <2>1, <3>1, Zenon
  <2>2. QED
    BY <2>1, Zenon DEF OverlapInv
<1>4. \A u \in Threads : pc'[u] = AtListen =>
         \A s \in Listener : opts'[u][s] = mem'["node"][s] \/ (s = "short" /\ mixed')
  <2>1. ASSUME NEW u \in Session \ {t}, pc'[u] = AtListen, NEW s \in Listener
        PROVE  opts'[u][s] = mem'["node"][s] \/ (s = "short" /\ mixed')
    <3>1. mixed' /\ pc[u] = AtListen
      BY <1>2, <2>1, StepsApart, Zenon
    <3>2. \A v \in Threads : pc[v] = AtListen =>
             \A x \in Listener : opts[v][x] = mem["node"][x] \/ (x = "short" /\ mixed)
      BY ZenonT(30) DEF ListenInv, ServedInv
    <3>3. opts[u][s] = mem["node"][s] \/ s = "short"
      BY <1>1, <2>1, <3>1, <3>2, Zenon
    <3>4. CASE s # "short"
      BY <2>1, <3>3, <3>4, Zenon
    <3>5. QED
      BY <3>1, <3>4, Zenon
  <2>2. QED
    BY <1>1, <1>2, <2>1, StepsApart, Zenon
<1>5. ListenInv'
  <2>1. ~mixed' => \A u \in Session : pc'[u] \in {AtBuild, AtListen} => ~running'
    BY <1>2, StepsApart, ZenonT(60)
  <2>2. running' => \A s \in Listener :
           \/ served'[s] = mem'["node"][s]
           \/ s = "short" /\ (mixed' \/ \E u \in Session : pc'[u] = AtClose)
    BY <1>2, Zenon
  <2>3. QED
    BY <1>2, <1>4, <2>1, <2>2, Zenon DEF ListenInv
<1>6. ~Loading("node")'
  <2>1. pc'["node"][1] = "up"
    BY <1>2, UpVerb, Zenon
  <2>2. QED
    BY <2>1, Zenon DEF Loading
<1>7. StoredInv'
  <2>1. "short" \notin foreign' /\ (sole' \/ ~mixed') =>
           \A u \in Session : pc'[u] = AtInstall => new'[u] = db'["short"]
    BY <1>2, StepsApart, Zenon
  <2>2. \A x \in Listener : x \notin foreign' =>
           \/ mem'["node"][x] = db'[x]
           \/ x = "short" /\ (mixed' \/ \E u \in Session : pc'[u] = AtInstall)
    BY <1>2, Zenon
  <2>3. QED
    BY <1>2, <1>6, <2>1, <2>2, StepsApart, Zenon DEF StoredInv
<1>8. QED
  BY <1>3, <1>5, <1>7, Zenon DEF ServedInv

(* A session's rotation of the short id.                                   *)
LEMMA RotationServes ==
    ASSUME TypeOK, ServedInv, NEW t \in Session,
           RotateReality(t) \/ PutShortID(t) \/ InstallShortID(t) \/ Close(t)
    PROVE  ServedInv'
<1>1. "short" \in Setting /\ Listener \subseteq Setting /\ "node" \in Process
  BY Zenon DEF Setting, Carrier, Listener, Process
<1>2. Done(t) = Idle
  BY ThreadAssumption, Zenon DEF Done, Idle, Process
<1>3. CASE RotateReality(t)
  <2>1. pc[t] = Idle /\ pc["node"] = Up /\ mem["node"]["priv"] # 0 /\ Goto(t, AtPut)
    BY <1>3, Zenon DEF RotateReality, Idle, Up, AtPut
  <2>2. /\ sole' => \A u \in Session : pc[u] = Idle
        /\ mixed' \/ (~mixed /\ sole')
    BY <1>3, Zenon DEF RotateReality, Idle
  <2>3. UNCHANGED <<db, mem, opts, served, foreign>>
    BY <1>3, Zenon DEF RotateReality, carriers
  <2>4. running' => running
    BY <1>3, Zenon DEF RotateReality, carriers
  <2>5. sole' \/ ~mixed' => \A u \in Session \ {t} : pc[u] = Idle
    BY <2>2, Zenon
  <2>6. running' => \A s \in Listener :
           served'[s] = mem'["node"][s] \/ (s = "short" /\ (mixed' \/ AtPut = AtClose))
    BY <2>1, <2>2, <2>3, <2>4, SessionKnows, StepsApart, Zenon
  <2>7. \A x \in Listener : x \notin foreign' =>
           mem'["node"][x] = db'[x] \/ (x = "short" /\ (mixed' \/ AtPut = AtInstall))
    BY <2>1, <2>2, <2>3, SessionKnows, StepsApart, Zenon
  <2>8. QED
    BY <2>1, <2>3, <2>5, <2>6, <2>7, SessionKeeps, StepsApart, Zenon
<1>4. CASE PutShortID(t)
  <2>1. pc[t] = AtPut
    BY <1>4, Zenon DEF PutShortID, AtPut
  <2>2. /\ pc["node"] = Up
        /\ sole' \/ ~mixed' => \A u \in Session \ {t} : pc[u] = Idle
        /\ (sole' <=> sole) /\ (mixed' <=> mixed)
    <3>1. (sole' <=> sole) /\ (mixed' <=> mixed)
      BY <1>4, Zenon DEF PutShortID
    <3>2. QED
      BY <2>1, <3>1, SessionKnows, StepsApart, Zenon
  <2>3. UNCHANGED <<mem, served, opts>>
    BY <1>4, Zenon DEF PutShortID, carriers
  <2>4. running' => running
    BY <1>4, Zenon DEF PutShortID, carriers
  <2>5. running' => \A s \in Listener : served'[s] = mem'["node"][s] \/ (s = "short" /\ mixed')
    BY <2>1, <2>2, <2>3, <2>4, SessionKnows, StepsApart, ZenonT(30)
  <2>6. CASE /\ db' = [db EXCEPT !["short"] = new[t]] /\ Goto(t, AtInstall) /\ UNCHANGED new
             /\ foreign' = foreign \ {"short"}
    <3>1. db'["short"] = new[t] /\ \A x \in Listener : x # "short" => db'[x] = db[x]
      BY <1>1, <2>6, Written, Zenon
    <3>2. \A x \in Listener : x \notin foreign' => mem'["node"][x] = db'[x] \/ x = "short"
      BY <2>1, <2>3, <2>6, <3>1, SessionKnows, StepsApart, Zenon
    <3>3. new'[t] = db'["short"]
      BY <2>6, <3>1, Zenon
    <3>4. QED
      BY <2>2, <2>3, <2>5, <2>6, <3>2, <3>3, SessionKeeps, StepsApart, Zenon
  <2>7. CASE UNCHANGED <<db, foreign>> /\ Goto(t, Idle)
    <3>1. \A x \in Listener : x \notin foreign' => mem'["node"][x] = db'[x] \/ (x = "short" /\ mixed')
      BY <2>1, <2>2, <2>3, <2>7, SessionKnows, StepsApart, ZenonT(30)
    <3>2. QED
      BY <2>2, <2>3, <2>5, <2>7, <3>1, SessionKeeps, StepsApart, Zenon
  <2>8. QED
    BY <1>2, <1>4, <2>6, <2>7, Zenon DEF PutShortID, AtInstall
<1>5. CASE InstallShortID(t)
  <2>1. pc[t] = AtInstall
    BY <1>5, Zenon DEF InstallShortID, AtInstall
  <2>2. (sole' => sole) /\ (mixed' \/ ~mixed \/ sole)
    BY <1>5, Zenon DEF InstallShortID
  <2>3. /\ pc["node"] = Up
        /\ sole' \/ ~mixed' => \A u \in Session \ {t} : pc[u] = Idle
        /\ "short" \notin foreign /\ ~mixed' => new[t] = db["short"]
    BY <2>1, <2>2, SessionKnows, StepsApart, Zenon
  <2>4. UNCHANGED <<db, foreign, served, opts>>
    BY <1>5, Zenon DEF InstallShortID, carriers
  <2>5. /\ mem'["node"]["short"] = new[t]
        /\ \A x \in Listener : x # "short" => mem'["node"][x] = mem["node"][x]
    <3>1. Take("node", "short", new[t])
      BY <1>5, Zenon DEF InstallShortID, Take
    <3>2. QED
      BY <1>1, <3>1, Taken
  <2>6. \A x \in Listener : x \notin foreign' => mem'["node"][x] = db'[x] \/ (x = "short" /\ mixed')
    <3>1. ASSUME NEW x \in Listener, x \notin foreign, x # "short"
          PROVE  mem["node"][x] = db[x]
      BY <2>1, <3>1, SessionKnows, StepsApart, Zenon
    <3>2. QED
      BY <2>3, <2>4, <2>5, <3>1, Zenon
  <2>7. running => \A s \in Listener : s # "short" => served'[s] = mem'["node"][s]
    <3>1. ASSUME running, NEW s \in Listener, s # "short"
          PROVE  served[s] = mem["node"][s]
      BY <2>1, <3>1, SessionKnows, StepsApart, Zenon
    <3>2. QED
      BY <2>4, <2>5, <3>1, Zenon
  <2>8. running' => running
    BY <1>5, Zenon DEF InstallShortID, carriers
  <2>9. CASE running /\ Goto(t, AtClose)
    BY <2>3, <2>4, <2>5, <2>6, <2>7, <2>9, SessionKeeps, StepsApart, Zenon
  <2>10. CASE ~running /\ Goto(t, Idle)
    BY <2>3, <2>4, <2>5, <2>6, <2>8, <2>10, SessionKeeps, StepsApart, Zenon
  <2>11. QED
    BY <1>2, <1>5, <2>9, <2>10, Zenon DEF InstallShortID, AtClose
<1>6. CASE Close(t)
  <2>1. pc[t] = AtClose /\ Goto(t, AtBuild)
    BY <1>6, Zenon DEF Close, AtClose, AtBuild
  <2>2. (sole' <=> sole) /\ (mixed' <=> mixed) /\ ~running'
    BY <1>6, Zenon DEF Close, rest
  <2>3. UNCHANGED <<db, mem, opts, foreign>>
    BY <1>6, Zenon DEF Close, rest
  <2>4. /\ pc["node"] = Up
        /\ sole' \/ ~mixed' => \A u \in Session \ {t} : pc[u] = Idle
    BY <2>1, <2>2, SessionKnows, StepsApart, Zenon
  <2>5. \A x \in Listener : x \notin foreign' => mem'["node"][x] = db'[x] \/ (x = "short" /\ mixed')
    BY <2>1, <2>2, <2>3, <2>4, SessionKnows, StepsApart, ZenonT(30)
  <2>6. QED
    BY <2>1, <2>2, <2>3, <2>4, <2>5, SessionKeeps, StepsApart, Zenon
<1>7. QED
  BY <1>3, <1>4, <1>5, <1>6, Zenon

(* The invariant while the sessions wait for the node.                     *)
LEMMA NodeKeeps ==
    ASSUME \A t \in Session : pc'[t] = Idle, pc'["node"] # Up => ~running',
           pc'["node"] = AtListen => \A s \in Listener : opts'["node"][s] = mem'["node"][s],
           running' => \A s \in Listener : served'[s] = mem'["node"][s] \/ (s = "short" /\ mixed')
    PROVE  OverlapInv' /\ ListenInv'
<1>1. OverlapInv'
  BY Zenon DEF OverlapInv
<1>2. ListenInv'
  BY StepsApart, Zenon DEF ListenInv, Threads
<1>3. QED
  BY <1>1, <1>2, Zenon

(* The start of the listeners by a session.                                *)
LEMMA RestartServes ==
    ASSUME TypeOK, ServedInv, NEW t \in Session, serverOptions(t) \/ Listen(t)
    PROVE  ServedInv'
<1>1. UNCHANGED <<db, mem, new, foreign>>
  BY Zenon DEF serverOptions, Listen, rest
<1>2. (sole' <=> sole) /\ (mixed' <=> mixed)
  <2>1. UNCHANGED <<sole, mixed>>
    BY Zenon DEF serverOptions, Listen, rest
  <2>2. QED
    BY <2>1, Zenon
<1>3. \A u \in Session \ {t} : opts'[u] = opts[u]
  BY Zenon DEF serverOptions, Listen, TypeOK
<1>4. pc[t] \in {AtBuild, AtListen}
  BY Zenon DEF serverOptions, Listen, AtBuild, AtListen
<1>5. /\ pc["node"] = Up
      /\ sole' \/ ~mixed' => \A u \in Session \ {t} : pc[u] = Idle
      /\ running => \A s \in Listener : served[s] = mem["node"][s] \/ (s = "short" /\ mixed)
  BY <1>2, <1>4, SessionKnows, StepsApart, ZenonT(30)
<1>6. \A x \in Listener : x \notin foreign' => mem'["node"][x] = db'[x] \/ (x = "short" /\ mixed')
  BY <1>1, <1>2, <1>4, SessionKnows, StepsApart, ZenonT(30)
<1>7. CASE serverOptions(t)
  <2>1. Goto(t, AtListen) /\ served' = served
    BY <1>7, Zenon DEF serverOptions, AtListen
  <2>2. \A s \in Listener : opts'[t][s] = mem'["node"][s]
    BY <1>7, Zenon DEF serverOptions, TypeOK
  <2>3. running' => running
    BY <1>7, Zenon DEF serverOptions
  <2>4. ~mixed' => ~running'
    BY <1>2, <1>4, <2>3, SessionKnows, StepsApart, Zenon
  <2>5. running' => \A s \in Listener : served'[s] = mem'["node"][s] \/ (s = "short" /\ mixed')
    BY <1>1, <1>2, <1>5, <2>1, <2>3, Zenon
  <2>6. QED
    BY <1>1, <1>3, <1>5, <1>6, <2>1, <2>2, <2>4, <2>5, SessionKeeps, StepsApart, ZenonT(30)
<1>8. CASE Listen(t)
  <2>1. pc[t] = AtListen
    BY <1>8, Zenon DEF Listen, AtListen
  <2>2. Goto(t, Idle)
    BY <1>8, ThreadAssumption, Zenon DEF Listen, Done, Idle, Process
  <2>3. \A s \in Listener : opts[t][s] = mem["node"][s] \/ (s = "short" /\ mixed)
    BY <2>1, SessionKnows, StepsApart, Zenon
  <2>4. served' = opts[t] \/ (served' = served /\ (running' => running))
    BY <1>8, Zenon DEF Listen
  <2>5. running' => \A s \in Listener : served'[s] = mem'["node"][s] \/ (s = "short" /\ mixed')
    BY <1>1, <1>2, <1>5, <2>3, <2>4, Zenon
  <2>6. QED
    BY <1>1, <1>3, <1>5, <1>6, <2>2, <2>5, SessionKeeps, StepsApart, ZenonT(30)
<1>9. QED
  BY <1>7, <1>8, Zenon

(* The start of the listeners by the node.                                 *)
LEMMA StartServes ==
    ASSUME TypeOK, ServedInv, serverOptions("node") \/ Listen("node")
    PROVE  ServedInv'
<1>1. "node" \in Thread /\ "node" \in Threads /\ Session \subseteq Thread \ {"node"}
  BY ThreadAssumption, Zenon DEF Threads, Thread, Process
<1>2. UNCHANGED <<db, mem, foreign>>
  BY Zenon DEF serverOptions, Listen, rest
<1>3. (sole' <=> sole) /\ (mixed' <=> mixed)
  <2>1. UNCHANGED <<sole, mixed>>
    BY Zenon DEF serverOptions, Listen, rest
  <2>2. QED
    BY <2>1, Zenon
<1>4. pc["node"] \in {AtBuild, AtListen} /\ pc["node"] # Up
  BY StepsApart, Zenon DEF serverOptions, Listen, AtBuild, AtListen
<1>5. PICK l : Goto("node", l)
  BY Zenon DEF serverOptions, Listen
<1>6. ~running /\ \A u \in Session : pc[u] = Idle /\ pc'[u] = Idle
  <2>1. \A u \in Session : pc'[u] = pc[u]
    BY <1>1, <1>5, Moved, Zenon
  <2>2. QED
    BY <1>4, <2>1, Zenon DEF ListenInv, ServedInv
<1>7. \A x \in Listener : x \notin foreign' => mem'["node"][x] = db'[x]
  BY <1>2, <1>4, Zenon DEF StoredInv, ServedInv
<1>8. CASE serverOptions("node")
  <2>1. pc'["node"] = AtListen
    BY <1>1, <1>8, Moved, Zenon DEF serverOptions, AtListen
  <2>2. \A s \in Listener : opts'["node"][s] = mem'["node"][s]
    BY <1>8, Zenon DEF serverOptions, TypeOK
  <2>3. ~running'
    <3>1. running' = running
      BY <1>8, Zenon DEF serverOptions
    <3>2. QED
      BY <1>6, <3>1, Zenon
  <2>4. OverlapInv' /\ ListenInv'
    BY <1>6, <2>2, <2>3, NodeKeeps, Zenon
  <2>5. ~Loading("node")'
    <3>1. pc'["node"][1] = "listen"
      BY <2>1, Verb DEF AtListen
    <3>2. QED
      BY <3>1, Zenon DEF Loading
  <2>6. StoredInv'
    BY <1>6, <1>7, <2>5, StepsApart, Zenon DEF StoredInv
  <2>7. QED
    BY <2>4, <2>6, Zenon DEF ServedInv
<1>9. CASE Listen("node")
  <2>1. pc["node"] = AtListen /\ pc'["node"] = Up
    BY <1>1, <1>9, Moved, Zenon DEF Listen, AtListen, Done, Up
  <2>2. \A s \in Listener : opts["node"][s] = mem["node"][s] \/ (s = "short" /\ mixed)
    BY <1>1, <2>1, Zenon DEF ListenInv, ServedInv
  <2>3. ~running' \/ served' = opts["node"]
    BY <1>6, <1>9, Zenon DEF Listen
  <2>4. running' => \A s \in Listener : served'[s] = mem'["node"][s] \/ (s = "short" /\ mixed')
    BY <1>2, <1>3, <2>2, <2>3, Zenon
  <2>5. OverlapInv' /\ ListenInv'
    BY <1>6, <2>1, <2>4, NodeKeeps, StepsApart, Zenon
  <2>6. ~Loading("node")'
    <3>1. pc'["node"][1] = "up"
      BY <2>1, UpVerb, Zenon
    <3>2. QED
      BY <3>1, Zenon DEF Loading
  <2>7. StoredInv'
    BY <1>6, <1>7, <2>6, StepsApart, Zenon DEF StoredInv
  <2>8. QED
    BY <2>5, <2>7, Zenon DEF ServedInv
<1>10. QED
  BY <1>8, <1>9, Zenon

(* The end of the node.                                                    *)
LEMMA CrashServes ==
    ASSUME TypeOK, Crash
    PROVE  ServedInv'
<1>1. pc'["node"] = <<"off", "">> /\ \A t \in Session : pc'[t] = Idle
  <2>1. pc' = [t \in Thread |-> IF t = "cli" THEN pc[t]
                                ELSE IF t = "node" THEN <<"off", "">> ELSE Idle]
    BY Zenon DEF Crash, Idle
  <2>2. QED
    BY <2>1, ThreadAssumption, Zenon DEF Thread, Process
<1>2. ~running'
  BY Zenon DEF Crash
<1>3. pc'["node"] # Up /\ pc'["node"] # AtListen /\ pc'["node"] # AtBuild /\ ~Loading("node")'
  <2>1. pc'["node"][1] = "off"
    BY <1>1, Verb, Zenon
  <2>2. Up[1] # "off" /\ AtListen[1] # "off" /\ AtBuild[1] # "off"
    BY Zenon DEF Up, AtListen, AtBuild
  <2>3. QED
    BY <2>1, <2>2, ZenonT(30) DEF Loading
<1>4. OverlapInv' /\ ListenInv'
  BY <1>1, <1>2, <1>3, NodeKeeps, Zenon
<1>5. StoredInv'
  BY <1>1, <1>3, StepsApart, Zenon DEF StoredInv
<1>6. QED
  BY <1>4, <1>5, Zenon DEF ServedInv

(* The order of the load.                                                  *)
LEMMA LoadOrder ==
    /\ \A z : z \notin Before(z)
    /\ Before("wgPub") \subseteq Before("wgPriv") /\ Before("priv") \subseteq Before("wgPub")
    /\ Before("pub") \subseteq Before("priv") \cup {"priv"}
    /\ Before("short") \subseteq Before("pub")
    /\ Before("uuid") \subseteq Before("short") \cup {"short"}
    /\ Before("pass") \subseteq Before("uuid") \cup {"uuid"}
    /\ Before("cert") \subseteq Before("pass") \cup {"pass"}
    /\ Before("certKey") \subseteq Before("cert") \cup {"cert"}
    /\ Listener \subseteq Before("certKey") \cup {"certKey"}
    /\ Before("cert") \cap {"cert", "certKey"} = {}
<1>1. Listener = {"uuid", "pass", "short", "priv", "cert", "certKey"}
  BY Zenon DEF Listener, Carrier
<1>2. QED
  BY <1>1, Zenon DEF Before

LEMMA Settles ==
    ASSUME \A t \in Session : pc'[t] = Idle,
           NEW v \in {"get", "set", "build"}, NEW s, pc'["node"] = <<v, s>>,
           v \in {"get", "set"} =>
              \A x \in Before(s) : x \notin foreign' => mem'["node"][x] = db'[x],
           v = "build" => \A x \in Listener : x \notin foreign' => mem'["node"][x] = db'[x]
    PROVE  StoredInv'
<1>1. pc'["node"][1] = v /\ pc'["node"][2] = s
  BY Verb
<1>2. pc'["node"] # Up /\ pc'["node"] # AtListen /\ (pc'["node"] = AtBuild => v = "build")
  <2>1. Up[1] = "up" /\ AtListen[1] = "listen" /\ AtBuild[1] = "build"
    BY Zenon DEF Up, AtListen, AtBuild
  <2>2. QED
    BY <1>1, <2>1, Zenon
<1>3. QED
  BY <1>1, <1>2, StepsApart, Zenon DEF StoredInv, Loading

(* A statement that reads, makes or writes setting z.                      *)
LEMMA LoadSettles ==
    ASSUME TypeOK, StoredInv, \A t \in Session : pc'[t] = Idle,
           NEW w \in {"get", "set"}, NEW z \in Setting, foreign' = foreign \ {z}, pc["node"] = <<w, z>>, NEW val,
           (Take("node", z, val) /\ db' = db) \/ (mem' = mem /\ db' = [db EXCEPT ![z] = val]),
           NEW v \in {"get", "set", "build"}, NEW s, Goto("node", <<v, s>>),
           \/ v # "build" /\ Before(s) \subseteq Before(z)
           \/ v # "build" /\ mem'["node"][z] = db'[z] /\ Before(s) \subseteq Before(z) \cup {z}
           \/ v = "build" /\ mem'["node"][z] = db'[z] /\ Listener \subseteq Before(z) \cup {z}
    PROVE  StoredInv'
<1>1. pc["node"][1] = w /\ pc["node"][2] = z /\ "node" \in Process /\ "node" \in Thread
  BY Verb DEF Process, Thread
<1>2. \A x \in Before(z) : x \notin foreign => mem["node"][x] = db[x]
  BY <1>1, Zenon DEF StoredInv, Loading, Before
<1>3. \A x \in Setting \ {z} : mem'["node"][x] = mem["node"][x] /\ db'[x] = db[x]
  BY <1>1, Taken, Written
<1>4. Before(z) \subseteq Setting \ {z}
  BY LoadOrder, Zenon DEF Before, Listener, Setting
<1>5. \A x \in Before(z) : x \notin foreign' => mem'["node"][x] = db'[x]
  BY <1>2, <1>3, <1>4, Zenon
<1>6. pc'["node"] = <<v, s>>
  BY <1>1, Moved, ZenonT(30)
<1>7. QED
  BY <1>5, <1>6, Settles, ZenonT(30)

(* The node's load, statement by statement.                                *)
LEMMA LoadServes ==
    ASSUME TypeOK, ServedInv, Load("node")
    PROVE  ServedInv'
<1>1. /\ pc["node"] # Up /\ pc'["node"] # AtListen
      /\ \A t \in Session : pc'[t] = pc[t]
      /\ running' => running
  BY LoadsBeforeUp, Zenon
<1>2. ~running /\ ~running' /\ \A t \in Session : pc'[t] = Idle
  BY <1>1, Zenon DEF ListenInv, ServedInv
<1>3. OverlapInv' /\ ListenInv'
  BY <1>1, <1>2, NodeKeeps, Zenon
<1>4. SUFFICES StoredInv'
  BY <1>3, Zenon DEF ServedInv
<1>5. StoredInv
  BY Zenon DEF ServedInv
<1>6. /\ Carrier \subseteq Setting /\ "node" \in Process
      /\ {"wgPriv", "wgPub", "priv", "pub", "cert", "certKey"} \subseteq Setting
  BY Zenon DEF Setting, WireGuard, Process
<1>7. ASSUME NEW s \in Setting, NEW k \in Setting, KeyStep("node", s, k), NEW n,
             After("node", k) = <<"get", n>>,
             Before(k) \subseteq Before(s) \cup {s}, Before(n) \subseteq Before(k)
      PROVE  StoredInv'
  <2>1. CASE GetPrivate("node", s, k)
    <3>1. pc["node"] = <<"get", s>> /\ db' = db /\ foreign' = foreign \ {s}
      BY <2>1, Zenon DEF GetPrivate, Known
    <3>2. CASE Take("node", s, db[s]) /\ Goto("node", <<"get", k>>)
      <4>1. mem'["node"][s] = db'[s]
        BY <1>6, <3>1, <3>2, Taken
      <4>2. QED
        BY <1>2, <1>5, <1>7, <3>1, <3>2, <4>1, LoadSettles, ZenonT(30)
    <3>3. CASE Take("node", s, gen[s] + 1) /\ Goto("node", <<"set", s>>)
      BY <1>2, <1>5, <1>7, <3>1, <3>3, LoadSettles, ZenonT(30)
    <3>4. QED
      BY <2>1, <3>2, <3>3, Zenon DEF GetPrivate
  <2>2. CASE SetPrivate("node", s, k)
    <3>1. /\ pc["node"] = <<"set", s>> /\ db' = [db EXCEPT ![s] = mem["node"][s]]
          /\ mem' = mem /\ Goto("node", <<"set", k>>) /\ foreign' = foreign \ {s}
      BY <2>2, Zenon DEF SetPrivate, Put
    <3>2. mem'["node"][s] = db'[s]
      BY <3>1, Written, Zenon
    <3>3. QED
      BY <1>2, <1>5, <1>7, <3>1, <3>2, LoadSettles, ZenonT(30)
  <2>3. CASE SetPublic("node", k, s)
    <3>1. /\ pc["node"] = <<"set", k>> /\ db' = [db EXCEPT ![k] = mem["node"][s]]
          /\ mem' = mem /\ Goto("node", <<"get", k>>) /\ foreign' = foreign \ {k}
      BY <2>3, Zenon DEF SetPublic, Put
    <3>2. QED
      BY <1>2, <1>5, <1>7, <3>1, LoadSettles, ZenonT(30)
  <2>4. CASE GetPublic("node", k)
    <3>1. /\ pc["node"] = <<"get", k>> /\ db' = db /\ foreign' = foreign \ {k}
          /\ Take("node", k, db[k]) /\ Goto("node", <<"get", n>>)
      BY <1>7, <2>4, Zenon DEF GetPublic, Known
    <3>2. QED
      BY <1>2, <1>5, <1>7, <3>1, LoadSettles, ZenonT(30)
  <2>5. QED
    BY <1>7, <2>1, <2>2, <2>3, <2>4, ZenonT(30) DEF KeyStep
<1>8. ASSUME NEW s \in Carrier, getOrSet("node", s), NEW n,
             After("node", s) = <<"get", n>>, Before(n) \subseteq Before(s) \cup {s}
      PROVE  StoredInv'
  <2>0. foreign' = foreign \ {s}
    BY <1>8, Zenon DEF getOrSet, Put, Known
  <2>1. CASE pc["node"] = <<"get", s>> /\ db' = db /\ Take("node", s, db[s]) /\ Goto("node", <<"get", n>>)
    <3>1. mem'["node"][s] = db'[s]
      BY <1>6, <2>1, Taken
    <3>2. QED
      BY <1>2, <1>5, <1>6, <1>8, <2>0, <2>1, <3>1, LoadSettles, ZenonT(30)
  <2>2. CASE /\ pc["node"] = <<"get", s>> /\ db' = db
             /\ Take("node", s, gen[s] + 1) /\ Goto("node", <<"set", s>>)
    BY <1>2, <1>5, <1>6, <1>8, <2>0, <2>2, LoadSettles, ZenonT(30)
  <2>3. CASE /\ pc["node"] = <<"set", s>> /\ db' = [db EXCEPT ![s] = mem["node"][s]]
             /\ mem' = mem /\ Goto("node", <<"get", n>>)
    <3>1. mem'["node"][s] = db'[s]
      BY <1>6, <2>3, Written, Zenon
    <3>2. QED
      BY <1>2, <1>5, <1>6, <1>8, <2>0, <2>3, <3>1, LoadSettles, ZenonT(30)
  <2>4. QED
    BY <1>8, <2>1, <2>2, <2>3, ZenonT(30) DEF getOrSet, Put
<1>9. CASE GetCert("node")
  <2>1. /\ pc["node"] = <<"get", "cert">> /\ db' = db /\ foreign' = foreign \ {"cert"}
        /\ Take("node", "cert", db["cert"]) /\ Goto("node", <<"get", "certKey">>)
    BY <1>9, Zenon DEF GetCert, Known
  <2>2. mem'["node"]["cert"] = db'["cert"]
    BY <1>6, <2>1, Taken
  <2>3. QED
    BY <1>2, <1>5, <1>6, <2>1, <2>2, LoadSettles, LoadOrder, ZenonT(30)
<1>10. After("node", "certKey") = <<"build", "">>
  BY Zenon DEF After
<1>11. CASE GetCertKey("node")
  <2>1. pc["node"] = <<"get", "certKey">> /\ db' = db /\ foreign' = foreign \ {"certKey"}
    BY <1>11, Zenon DEF GetCertKey, Known
  <2>2. CASE Take("node", "certKey", db["certKey"]) /\ Goto("node", After("node", "certKey"))
    <3>1. mem'["node"]["certKey"] = db'["certKey"]
      BY <1>6, <2>1, <2>2, Taken
    <3>2. Goto("node", <<"build", "">>)
      BY <1>10, <2>2, Zenon
    <3>3. QED
      BY <1>2, <1>5, <1>6, <2>1, <2>2, <3>1, <3>2, LoadSettles, LoadOrder, ZenonT(30)
  <2>3. CASE /\ mem' = [mem EXCEPT !["node"]["cert"] = gen["cert"] + 1,
                                   !["node"]["certKey"] = gen["cert"] + 1]
             /\ Goto("node", <<"set", "cert">>)
    <3>1. mem["node"] \in [Setting -> Nat] /\ mem \in [Process -> [Setting -> Nat]]
      BY <1>6, Zenon DEF TypeOK
    <3>2. \A x \in Setting \ {"cert", "certKey"} : mem'["node"][x] = mem["node"][x]
      BY <1>6, <2>3, <3>1, Zenon
    <3>3. Before("cert") \subseteq Setting \ {"cert", "certKey"} /\ Before("cert") \subseteq Before("certKey")
      BY LoadOrder, Zenon DEF Before, Listener, Setting
    <3>4. pc["node"][1] = "get" /\ pc["node"][2] = "certKey"
      BY <2>1, Verb, Zenon
    <3>5. \A x \in Before("certKey") : x \notin foreign => mem["node"][x] = db[x]
      BY <1>5, <3>4, Zenon DEF StoredInv, Loading, Before
    <3>6. \A x \in Before("cert") : x \notin foreign' => mem'["node"][x] = db'[x]
      BY <2>1, <3>2, <3>3, <3>5, Zenon
    <3>7. pc'["node"] = <<"set", "cert">>
      BY <1>6, <2>3, Moved, Zenon DEF Thread
    <3>8. QED
      BY <1>2, <3>6, <3>7, Settles, Zenon
  <2>4. QED
    BY <1>11, <2>2, <2>3, Zenon DEF GetCertKey
<1>12. CASE SetCert("node")
  <2>1. /\ pc["node"] = <<"set", "cert">> /\ db' = [db EXCEPT !["cert"] = mem["node"]["cert"]]
        /\ mem' = mem /\ Goto("node", <<"set", "certKey">>) /\ foreign' = foreign \ {"cert"}
    BY <1>12, Zenon DEF SetCert, Put
  <2>2. mem'["node"]["cert"] = db'["cert"]
    BY <1>6, <2>1, Written, Zenon
  <2>3. QED
    BY <1>2, <1>5, <1>6, <2>1, <2>2, LoadSettles, LoadOrder, ZenonT(30)
<1>13. CASE SetCertKey("node")
  <2>1. /\ pc["node"] = <<"set", "certKey">> /\ db' = [db EXCEPT !["certKey"] = mem["node"]["certKey"]]
        /\ mem' = mem /\ Goto("node", <<"build", "">>) /\ foreign' = foreign \ {"certKey"}
    BY <1>10, <1>13, Zenon DEF SetCertKey, Put
  <2>2. mem'["node"]["certKey"] = db'["certKey"]
    BY <1>6, <2>1, Written, Zenon
  <2>3. QED
    BY <1>2, <1>5, <1>6, <2>1, <2>2, LoadSettles, LoadOrder, ZenonT(30)
<1>14. CASE KeyStep("node", "wgPriv", "wgPub")
  <2>1. After("node", "wgPub") = <<"get", "priv">>
    BY Zenon DEF After
  <2>2. QED
    BY <1>6, <1>7, <1>14, <2>1, LoadOrder
<1>15. CASE KeyStep("node", "priv", "pub")
  <2>1. After("node", "pub") = <<"get", "short">>
    BY Zenon DEF After
  <2>2. QED
    BY <1>6, <1>7, <1>15, <2>1, LoadOrder
<1>16. CASE getOrSet("node", "short") \/ getOrSet("node", "uuid") \/ getOrSet("node", "pass")
  <2>1. /\ After("node", "short") = <<"get", "uuid">> /\ After("node", "uuid") = <<"get", "pass">>
        /\ After("node", "pass") = <<"get", "cert">>
    BY Zenon DEF After
  <2>2. {"short", "uuid", "pass"} \subseteq Carrier
    BY Zenon DEF Carrier
  <2>3. QED
    BY <1>8, <1>16, <2>1, <2>2, LoadOrder, ZenonT(30)
<1>17. QED
  BY <1>9, <1>11, <1>12, <1>13, <1>14, <1>15, <1>16, LoadParts, Zenon

(* The start of a load, and its failure: the node is then up without       *)
(* secrets.                                                                *)
LEMMA BootServes ==
    ASSUME TypeOK, ServedInv, Boot \/ LoadFails
    PROVE  ServedInv'
<1>1. /\ pc["node"] # Up /\ pc'["node"] # AtListen
      /\ \A t \in Session : pc'[t] = pc[t]
      /\ running' => running
  BY LoadsBeforeUp, Zenon
<1>2. ~running' /\ \A t \in Session : pc'[t] = Idle
  BY <1>1, Zenon DEF ListenInv, ServedInv
<1>3. OverlapInv' /\ ListenInv'
  BY <1>1, <1>2, NodeKeeps, Zenon
<1>4. "node" \in Process /\ "node" \in Thread /\ "priv" \in Setting \ WireGuard
  BY Zenon DEF Process, Thread, Setting, WireGuard, Carrier
<1>5. Before("wgPriv") = {} /\ Before("priv") = {}
  BY Zenon DEF Before
<1>6. CASE Boot
  <2>1. pc'["node"] = <<"get", "wgPriv">>
    BY <1>4, <1>6, Moved, Zenon DEF Boot
  <2>2. StoredInv'
    BY <1>2, <1>5, <2>1, Settles, Zenon
  <2>3. QED
    BY <1>3, <2>2, Zenon DEF ServedInv
<1>7. CASE LoadFails
  <2>1. Goto("node", <<"get", "priv">>) \/ (Goto("node", Up) /\ pc["node"][2] \notin WireGuard)
    BY <1>7, Zenon DEF LoadFails, Up
  <2>2. CASE Goto("node", <<"get", "priv">>)
    <3>1. pc'["node"] = <<"get", "priv">>
      BY <1>4, <2>2, Moved, Zenon
    <3>2. StoredInv'
      BY <1>2, <1>5, <3>1, Settles, Zenon
    <3>3. QED
      BY <1>3, <3>2, Zenon DEF ServedInv
  <2>3. CASE Goto("node", Up)
    <3>0. pc'["node"] = Up
      BY <1>4, <2>3, Moved, Zenon
    <3>1. pc'["node"] = Up /\ pc'["node"][1] = "up"
      BY <3>0, UpVerb, Zenon
    <3>2. mem'["node"]["priv"] = 0
      BY <1>4, <1>7, Zenon DEF LoadFails, TypeOK
    <3>3. ~Working'
      BY <1>2, <3>2, Zenon DEF Working
    <3>4. StoredInv'
      BY <1>2, <3>1, <3>3, StepsApart, Zenon DEF StoredInv, Loading
    <3>5. QED
      BY <1>3, <3>4, Zenon DEF ServedInv
  <2>4. QED
    BY <2>1, <2>2, <2>3, Zenon
<1>8. QED
  BY <1>6, <1>7, Zenon

LEMMA ServedInitial == Init => ServedInv
<1>. SUFFICES ASSUME Init
              PROVE  ServedInv
  BY Zenon
<1>1. pc["node"] = <<"off", "">> /\ \A t \in Session : pc[t] = Idle
  BY ThreadAssumption, Zenon DEF Init, Thread, Process, Idle
<1>2. ~running
  BY Zenon DEF Init
<1>3. pc["node"] # Up /\ pc["node"] # AtListen /\ pc["node"] # AtBuild /\ ~Loading("node")
  <2>1. pc["node"][1] = "off"
    BY <1>1, Verb, Zenon
  <2>2. Up[1] # "off" /\ AtListen[1] # "off" /\ AtBuild[1] # "off"
    BY Zenon DEF Up, AtListen, AtBuild
  <2>3. QED
    BY <2>1, <2>2, Zenon DEF Loading
<1>4. OverlapInv /\ ListenInv
  BY <1>1, <1>2, <1>3, StepsApart, Zenon DEF OverlapInv, ListenInv, Threads
<1>5. StoredInv
  BY <1>1, <1>3, StepsApart, Zenon DEF StoredInv
<1>6. QED
  BY <1>4, <1>5, Zenon DEF ServedInv

LEMMA ServedInductive ==
    ASSUME TypeOK, ServedInv, [Next]_vars
    PROVE  ServedInv'
<1>1. CASE Command \/ Elapse \/ UNCHANGED vars
  <2>1. /\ \A t \in Threads : pc'[t] = pc[t]
        /\ mem'["node"] = mem["node"] /\ opts' = opts /\ served' = served /\ new' = new
        /\ (running' <=> running) /\ (sole' <=> sole) /\ (mixed' <=> mixed)
        /\ \A x \in Setting : x \notin foreign' => x \notin foreign /\ db'[x] = db[x]
    BY <1>1, CommandApart, ZenonT(60)
  <2>2. Session \subseteq Threads /\ "node" \in Threads /\ Listener \subseteq Setting
    BY ZenonT(60) DEF Threads, Listener, Setting
  <2>3. OverlapInv'
    BY <2>1, <2>2, Zenon DEF OverlapInv, ServedInv
  <2>4. ListenInv'
    BY <2>1, <2>2, ZenonT(60) DEF ListenInv, ServedInv
  <2>5. (Loading("node")' <=> Loading("node")) /\ (Working' <=> Working)
    BY <2>1, <2>2, Zenon DEF Loading, Working
  <2>6. StoredInv'
    BY <2>1, <2>2, <2>5, ZenonT(60) DEF StoredInv, ServedInv
  <2>7. QED
    BY <2>3, <2>4, <2>6, Zenon DEF ServedInv
<1>2. CASE Node
  BY <1>2, BootServes, LoadServes, CrashServes, StartServes, RestartServes, RotationServes, Zenon DEF Node
<1>3. QED
  BY <1>1, <1>2, Zenon DEF Next

LEMMA ServedInvariant == Spec => []ServedInv
<1>1. Init => TypeOK /\ ServedInv
  BY SecretsStart, ServedInitial, Zenon DEF SecretsInv
<1>2. TypeOK /\ ServedInv /\ [Next]_vars => (TypeOK /\ ServedInv)'
  BY SecretsTypes, ServedInductive, Zenon
<1>3. QED
  BY <1>1, <1>2, PTL DEF Spec

(* Whenever the carriers run and no RotateReality is in progress, they     *)
(* accept the secrets that Params hands to clients, for any number of      *)
(* sessions, rotations, failed loads and crashes, and whatever the command *)
(* does beside them; only the short id may differ after rotations that     *)
(* overlapped, until one is alone or the node starts again (stealth.go     *)
(* Start, RotateReality; profile.go Params).                               *)
THEOREM ServesWhatItAdvertises == Spec => []AdvertisedIsServed
<1>1. ServedInv => AdvertisedIsServed
  BY StepsApart, Zenon DEF ServedInv, ListenInv, AdvertisedIsServed, Quiet, Idle
<1>2. QED
  BY <1>1, ServedInvariant, PTL

(* With the same exception they are the stored ones too, setting by        *)
(* setting, unless the command wrote one after the node had read or        *)
(* written it, so that a restart of the node serves the same secrets       *)
(* (secrets.go getOrSet, tlscert.go loadOrCreateCert, stealth.go           *)
(* RotateReality).                                                         *)
THEOREM ServesWhatIsStored == Spec => []StoredIsServed
<1>1. ServedInv => StoredIsServed
  <2>. SUFFICES ASSUME ServedInv, Quiet, running, NEW s \in Listener, s \notin foreign,
                       ~(s = "short" /\ mixed)
                PROVE  served[s] = db[s]
    BY Zenon DEF StoredIsServed
  <2>1. pc["node"] = Up /\ \A t \in Session : pc[t] = Idle
    BY Zenon DEF Quiet, Up, Idle
  <2>2. served[s] = mem["node"][s]
    BY <2>1, StepsApart, Zenon DEF ListenInv, ServedInv
  <2>3. mem["node"][s] = db[s]
    BY <2>1, StepsApart, Zenon DEF StoredInv, Working, ServedInv
  <2>4. QED
    BY <2>2, <2>3, Zenon
<1>2. QED
  BY <1>1, ServedInvariant, PTL

-----------------------------------------------------------------------------
(* What the rows of carrier_credentials hold                               *)

Recs == {"uuid", "pass"}

(* The stored secret s has its row.                                        *)
Rec(s) == \E r \in rows : r.kind = s /\ r.secret = db[s] /\ r.active /\ r.grace = "none"

GetPass == <<"get", "pass">>
SetPass == <<"set", "pass">>
RecordUuid == <<"record", "uuid">>
RecordPass == <<"record", "pass">>
RecordShort == <<"record", "short">>
Expire == <<"expire", "">>

(* The steps of the command after it has read the uuid.                    *)
Late == {GetPass, SetPass, RecordUuid, RecordPass, RecordShort, Expire}

(* A process writes only a uuid or password that is missing, so what the   *)
(* command has read and recorded remains what is stored.                   *)
RecInv ==
    /\ \A p \in Process, s \in Recs : pc[p] = <<"set", s>> => db[s] = 0
    /\ complete => \A s \in Recs : db[s] # 0 /\ Rec(s)
    /\ pc["cli"] \in {GetPass, SetPass, RecordUuid} => mem["cli"]["uuid"] = db["uuid"]
    /\ pc["cli"] \in {RecordUuid, RecordPass} => mem["cli"]["pass"] = db["pass"]
    /\ pc["cli"] \in {RecordPass, RecordShort, Expire} => Rec("uuid")
    /\ pc["cli"] \in {RecordShort, Expire} => Rec("pass")

LEMMA LateSteps ==
    /\ \A v, s : <<v, s>> \in Late => \/ v \in {"get", "set"} /\ s = "pass"
                                      \/ v \in {"record", "expire"}
    /\ RecordUuid \notin {RecordPass, RecordShort, Expire, GetPass, SetPass}
    /\ RecordPass \notin {RecordShort, Expire, GetPass, SetPass}
    /\ RecordShort \notin {Expire, GetPass, SetPass} /\ Expire \notin {GetPass, SetPass}
    /\ GetPass # SetPass /\ Idle \notin Late
  BY Zenon DEF Late, RecordUuid, RecordPass, RecordShort, Expire, GetPass, SetPass, Idle

(* The row of a secret stays as long as the secret is stored.              *)
LEMMA RowStays ==
    ASSUME NEW s, Rec(s), db'[s] = db[s], \A r \in rows : r \in Row,
           \/ rows \subseteq rows'
           \/ rows' = {[r EXCEPT !.active = @ /\ r.grace # "over"] : r \in rows}
           \/ rows' = {[r EXCEPT !.grace = IF @ = "running" THEN "over" ELSE @] : r \in rows}
    PROVE  Rec(s)'
<1>1. PICK r \in rows : r.kind = s /\ r.secret = db[s] /\ r.active /\ r.grace = "none"
  BY Zenon DEF Rec
<1>2. CASE rows \subseteq rows'
  BY <1>1, <1>2, Zenon DEF Rec
<1>3. r \in Row
  BY <1>1, Zenon
<1>4. ASSUME NEW n \in rows', n.kind = r.kind, n.secret = r.secret, n.active, n.grace = "none"
      PROVE  Rec(s)'
  BY <1>1, <1>4, Zenon DEF Rec
<1>5. CASE rows' = {[x EXCEPT !.active = @ /\ x.grace # "over"] : x \in rows}
  <2>1. [r EXCEPT !.active = @ /\ r.grace # "over"] \in rows'
    BY <1>1, <1>5, Zenon
  <2>2. (r.active /\ r.grace # "over") = TRUE
    BY <1>1, Zenon
  <2>3. [r EXCEPT !.active = TRUE] \in rows'
    BY <2>1, <2>2, Zenon
  <2>4. QED
    BY <1>1, <1>3, <1>4, <2>3, Zenon DEF Row
<1>6. CASE rows' = {[x EXCEPT !.grace = IF @ = "running" THEN "over" ELSE @] : x \in rows}
  <2>1. [r EXCEPT !.grace = IF @ = "running" THEN "over" ELSE @] \in rows'
    BY <1>1, <1>6, Zenon
  <2>2. (IF r.grace = "running" THEN "over" ELSE r.grace) = "none"
    BY <1>1, Zenon
  <2>3. [r EXCEPT !.grace = "none"] \in rows'
    BY <2>1, <2>2, Zenon
  <2>4. QED
    BY <1>1, <1>3, <1>4, <2>3, Zenon DEF Row
<1>7. QED
  BY <1>2, <1>5, <1>6, Zenon

(* A step that leaves the rows, the secrets and the command alone.         *)
LEMMA RecordsBeside ==
    ASSUME TypeOK, RecInv, \A s \in Recs : db'[s] = db[s] /\ mem'["cli"][s] = mem["cli"][s],
           rows' = rows, complete' => complete, pc'["cli"] = pc["cli"],
           \A s \in Recs : pc'["node"] = <<"set", s>> => db[s] = 0
    PROVE  RecInv'
<1>1. \A s \in Recs : Rec(s) => Rec(s)'
  BY RowStays, Zenon DEF TypeOK
<1>2. Process = {"node", "cli"} /\ Recs = {"uuid", "pass"}
  BY Zenon DEF Process, Recs
<1>3. (\A p \in Process, s \in Recs : pc[p] = <<"set", s>> => db[s] = 0)'
  BY <1>2 DEF RecInv
<1>4. (complete => \A s \in Recs : db[s] # 0 /\ Rec(s))'
  BY <1>1, Zenon DEF RecInv
<1>5. QED
  BY <1>1, <1>2, <1>3, <1>4, Zenon DEF RecInv

(* A step that ends where the command has read nothing.                    *)
LEMMA RecordsEarly ==
    ASSUME TypeOK, RecInv, pc'["cli"] \notin Late,
           complete' => complete /\ rows \subseteq rows' /\ \A s \in Recs : db'[s] = db[s],
           \A p \in Process, s \in Recs : pc'[p] = <<"set", s>> => db'[s] = 0
    PROVE  RecInv'
<1>1. complete' => \A s \in Recs : Rec(s)'
  BY RowStays, Zenon DEF TypeOK, RecInv
<1>2. QED
  BY <1>1, Zenon DEF RecInv, Late

(* Who writes a uuid or a password because it is missing is alone.         *)
LEMMA WritesMissing ==
    ASSUME SecretsInv, RecInv, NEW p \in Process, NEW s \in Recs, pc[p] = <<"set", s>>
    PROVE  /\ db[s] = 0 /\ ~complete /\ ~reload /\ \A q \in Process \ {p} : ~Loading(q)
           /\ p = "node" => pc["cli"] \notin Late /\ pc["cli"][1] # "rotate"
<1>1. db[s] = 0
  BY Zenon DEF RecInv
<1>2. ~NonZero
  BY <1>1, Zenon DEF NonZero, Core, Recs, Carrier
<1>3. Loading(p)
  BY Verb, Zenon DEF Loading
<1>4. Process = {"node", "cli"}
  BY Zenon DEF Process
<1>5. ~complete
  BY <1>1, Zenon DEF RecInv
<1>6. /\ Loading("node") /\ Loading("cli") => NonZero
      /\ reload => NonZero
      /\ pc["cli"][1] \in {"archive", "rotate", "record", "expire"} => NonZero
  BY Zenon DEF SecretsInv, AloneInv
<1>7. \A q \in Process \ {p} : ~Loading(q)
  BY <1>2, <1>3, <1>4, <1>6, Zenon
<1>8. ASSUME p = "node", pc["cli"] \in Late
      PROVE  FALSE
  <2>1. pc["cli"][1] \in {"get", "set", "record", "expire"}
    <3>1. /\ GetPass[1] = "get" /\ SetPass[1] = "set" /\ Expire[1] = "expire"
          /\ RecordUuid[1] = "record" /\ RecordPass[1] = "record" /\ RecordShort[1] = "record"
      BY Zenon DEF GetPass, SetPass, RecordUuid, RecordPass, RecordShort, Expire
    <3>2. QED
      BY <1>8, <3>1, Zenon DEF Late
  <2>2. QED
    BY <1>2, <1>4, <1>6, <1>7, <1>8, <2>1, Zenon DEF Loading
<1>9. ~reload
  BY <1>2, <1>6, Zenon
<1>10. pc["cli"][1] # "rotate"
  BY <1>2, <1>6, Zenon
<1>11. QED
  BY <1>1, <1>5, <1>7, <1>8, <1>9, <1>10, ZenonT(30)

(* The node's steps beside its load.                                       *)
LEMMA NodeRecords ==
    ASSUME TypeOK, RecInv,
           \/ Boot \/ LoadFails \/ Crash
           \/ \E t \in Threads : serverOptions(t) \/ Listen(t)
           \/ \E t \in Session : RotateReality(t) \/ PutShortID(t) \/ InstallShortID(t) \/ Close(t)
    PROVE  RecInv'
<1>1. /\ "node" \in Process /\ "cli" \in Process /\ "cli" # "node" /\ Recs \subseteq Setting \ {"short"}
      /\ "short" \in Setting /\ "cli" \in Thread /\ "node" \in Thread /\ Threads \subseteq Thread \ {"cli"}
      /\ Session \subseteq Thread \ {"cli", "node"}
  BY ThreadAssumption, Zenon DEF Process, Recs, Setting, Carrier, Thread, Threads
<1>2. rows' = rows
  BY Zenon DEF Boot, LoadFails, Crash, serverOptions, Listen, RotateReality, PutShortID,
         InstallShortID, Close, World
<1>3. complete' => complete
  BY Zenon DEF Boot, LoadFails, Crash, serverOptions, Listen, RotateReality, PutShortID,
         InstallShortID, Close, World, rest
<1>4. \A s \in Recs : db'[s] = db[s]
  BY <1>1, Written, ZenonT(30) DEF Boot, LoadFails, Crash, serverOptions, Listen, RotateReality, PutShortID,
         InstallShortID, Close, World
<1>5. mem'["cli"] = mem["cli"]
  BY <1>1, Zenon DEF Boot, LoadFails, Crash, serverOptions, Listen, RotateReality, PutShortID,
         InstallShortID, Close, World, TypeOK
<1>6. CASE Crash
  <2>1. pc' = [t \in Thread |-> IF t = "cli" THEN pc[t]
                                ELSE IF t = "node" THEN <<"off", "">> ELSE <<"idle", "">>]
    BY <1>6, Zenon DEF Crash
  <2>2. pc'["cli"] = pc["cli"] /\ pc'["node"] = <<"off", "">>
    BY <1>1, <2>1, Zenon
  <2>3. pc'["node"][1] = "off"
    BY <2>2, Verb, Zenon
  <2>4. \A s : pc'["node"] # <<"set", s>>
    BY <2>3
  <2>5. QED
    BY <1>2, <1>3, <1>4, <1>5, <2>2, <2>4, RecordsBeside, ZenonT(30)
<1>7. ASSUME NEW t \in Session, NEW l, Goto(t, l)
      PROVE  RecInv'
  <2>1. pc'["cli"] = pc["cli"] /\ pc'["node"] = pc["node"]
    BY <1>1, <1>7, Moved, Zenon
  <2>2. \A s \in Recs : pc'["node"] = <<"set", s>> => db[s] = 0
    BY <1>1, <2>1, Zenon DEF RecInv
  <2>3. QED
    BY <1>2, <1>3, <1>4, <1>5, <2>1, <2>2, RecordsBeside, ZenonT(30)
<1>8. ASSUME NEW v, NEW x, v # "set", Goto("node", <<v, x>>)
      PROVE  RecInv'
  <2>1. pc'["cli"] = pc["cli"] /\ pc'["node"] = <<v, x>>
    BY <1>1, <1>8, Moved, Zenon
  <2>2. \A s : pc'["node"] # <<"set", s>>
    BY <1>8, <2>1
  <2>3. QED
    BY <1>2, <1>3, <1>4, <1>5, <2>1, <2>2, RecordsBeside, ZenonT(30)
<1>9. CASE \/ \E t \in Session : serverOptions(t) \/ Listen(t)
           \/ \E t \in Session : RotateReality(t) \/ PutShortID(t) \/ InstallShortID(t) \/ Close(t)
  BY <1>7, <1>9, ZenonT(30) DEF serverOptions, Listen, RotateReality, PutShortID, InstallShortID, Close
<1>10. CASE Boot \/ LoadFails \/ serverOptions("node") \/ Listen("node")
  BY <1>8, <1>10, Zenon DEF Boot, LoadFails, serverOptions, Listen, Done
<1>11. QED
  BY <1>6, <1>9, <1>10, Zenon DEF Threads

(* A load at setting s goes on to setting n or to a step that is not Late. *)
LEMMA LoadMovesOn ==
    ASSUME TypeOK, RecInv, NEW p \in Process, rows' = rows, complete' => complete,
           \A s \in Recs : db'[s] = db[s] /\ mem'["cli"][s] = mem["cli"][s],
           NEW v, NEW n, Goto(p, <<v, n>>), <<v, n>> \notin Late, v = "set" => n \notin Recs
    PROVE  RecInv'
<1>1. p \in Thread /\ Process \subseteq Thread /\ Process = {"node", "cli"}
  BY Zenon DEF Thread, Process
<1>2. pc'[p] = <<v, n>> /\ \A q \in Process \ {p} : pc'[q] = pc[q]
  BY <1>1, Moved, Zenon
<1>3. \A s \in Recs : pc'[p] # <<"set", s>>
  BY <1>2
<1>4. \A q \in Process, s \in Recs : pc'[q] = <<"set", s>> => db'[s] = 0
  BY <1>2, <1>3, ZenonT(30) DEF RecInv
<1>5. CASE p = "node"
  <2>1. pc'["cli"] = pc["cli"]
    BY <1>1, <1>2, <1>5, Zenon
  <2>2. \A s \in Recs : pc'["node"] = <<"set", s>> => db[s] = 0
    BY <1>3, <1>5, Zenon
  <2>3. QED
    BY <2>1, <2>2, RecordsBeside, Zenon
<1>6. CASE p = "cli"
  <2>1. pc'["cli"] \notin Late
    BY <1>2, <1>6, Zenon
  <2>2. QED
    BY <1>4, <2>1, RecordsEarly, Zenon
<1>7. QED
  BY <1>1, <1>5, <1>6, ZenonT(30)

(* The uuid and the password are loaded.                                   *)
LEMMA RecsLoaded ==
    ASSUME SecretsInv, RecInv, NEW p \in Process, NEW s \in Recs, getOrSet(p, s)
    PROVE  RecInv'
<1>1. /\ TypeOK /\ Process = {"node", "cli"} /\ Recs = {"uuid", "pass"} /\ Recs \subseteq Setting
      /\ Process \subseteq Thread
  BY Zenon DEF SecretsInv, Process, Recs, Setting, Carrier, Thread
<1>2. rows' = rows
  BY Zenon DEF getOrSet, World, Put
<1>3. complete' => complete
  BY Zenon DEF getOrSet, rest, Put
<1>4. ASSUME NEW q \in Process \ {p}
      PROVE  mem'[q] = mem[q] /\ pc'[q] = pc[q]
  <2>1. mem' = mem \/ \E v : Take(p, s, v)
    BY Zenon DEF getOrSet
  <2>2. \E l : Goto(p, l)
    BY Zenon DEF getOrSet
  <2>3. mem'[q] = mem[q]
    BY <1>1, <2>1, Taken, ZenonT(30)
  <2>4. pc'[q] = pc[q]
    BY <1>1, <2>2, Moved, Zenon
  <2>5. QED
    BY <2>3, <2>4, Zenon
<1> DEFINE n == After(p, s)
<1>5. \/ s = "uuid" /\ n = GetPass
      \/ s = "pass" /\ n = RecordUuid /\ p = "cli" /\ reload
      \/ s = "pass" /\ n = <<"get", "cert">>
  <2>1. CASE s = "uuid"
    BY <2>1, Zenon DEF After, GetPass
  <2>2. CASE s = "pass" /\ p = "cli" /\ reload
    BY <2>2, Zenon DEF After, RecordUuid
  <2>3. CASE s = "pass" /\ ~(p = "cli" /\ reload)
    BY <2>3, Zenon DEF After
  <2>4. QED
    BY <1>1, <2>1, <2>2, <2>3, Zenon
<1>6. \/ pc[p] = <<"get", s>> /\ db' = db /\ Take(p, s, db[s]) /\ Goto(p, n)
      \/ pc[p] = <<"get", s>> /\ db' = db /\ db[s] = 0 /\ Take(p, s, gen[s] + 1) /\ Goto(p, <<"set", s>>)
      \/ /\ pc[p] = <<"set", s>> /\ db' = [db EXCEPT ![s] = mem[p][s]]
         /\ mem' = mem /\ Goto(p, n)
  BY Zenon DEF getOrSet, Put
<1> HIDE DEF n
<1>7. <<"get", "cert">> \notin Late /\ <<"set", "uuid">> \notin Late
  BY LateSteps
<1>8. \A u : n # <<"set", u>>
  <2>1. \A u : GetPass # <<"set", u>> /\ RecordUuid # <<"set", u>> /\ <<"get", "cert">> # <<"set", u>>
    BY ZenonT(60) DEF GetPass, RecordUuid
  <2>2. QED
    BY <1>5, <2>1, Zenon
<1>9. CASE pc[p] = <<"get", s>> /\ db' = db /\ Take(p, s, db[s]) /\ Goto(p, n)
  <2>0. PICK v : TypeOK /\ s \in Setting /\ v = db[s] /\ Take(p, s, v)
    BY <1>1, <1>9, Zenon
  <2>1. mem'[p][s] = db[s] /\ \A u \in Setting \ {s} : mem'[p][u] = mem[p][u]
    <3>1. mem'[p][s] = v /\ \A u \in Setting \ {s} : mem'[p][u] = mem[p][u]
      BY <2>0, Taken, ZenonT(60)
    <3>2. QED
      BY <2>0, <3>1, Zenon
  <2>2. pc'[p] = n
    BY <1>1, <1>9, Moved, Zenon
  <2>3. \A q \in Process, u \in Recs : pc'[q] = <<"set", u>> => db'[u] = 0
    BY <1>4, <1>8, <1>9, <2>2, ZenonT(30) DEF RecInv
  <2>4. CASE p = "node"
    BY <1>1, <1>2, <1>3, <1>4, <1>9, <2>3, <2>4, RecordsBeside, Zenon
  <2>5. CASE p = "cli" /\ n = <<"get", "cert">>
    <3>1. pc'["cli"] \notin Late
      BY <1>7, <2>2, <2>5, Zenon
    <3>2. QED
      BY <1>1, <1>2, <1>3, <1>9, <2>3, <3>1, RecordsEarly, Zenon
  <2>6. complete' => \A u \in Recs : db'[u] # 0 /\ Rec(u)'
    BY <1>1, <1>2, <1>3, <1>9, RowStays, Zenon DEF RecInv, TypeOK
  <2>7. CASE p = "cli" /\ n = GetPass /\ s = "uuid"
    <3>1. mem'["cli"]["uuid"] = db'["uuid"]
      BY <1>9, <2>1, <2>7, Zenon
    <3>2. pc'["cli"] = GetPass
      BY <2>2, <2>7, Zenon
    <3>3. QED
      BY <2>3, <2>6, <3>1, <3>2, LateSteps, Zenon DEF RecInv
  <2>8. CASE p = "cli" /\ n = RecordUuid /\ s = "pass"
    <3>1. mem["cli"]["uuid"] = db["uuid"]
      BY <1>9, <2>8, Zenon DEF RecInv, GetPass
    <3>2. mem'["cli"]["uuid"] = db'["uuid"] /\ mem'["cli"]["pass"] = db'["pass"]
      BY <1>1, <1>9, <2>1, <2>8, <3>1, Zenon
    <3>3. pc'["cli"] = RecordUuid
      BY <2>2, <2>8, Zenon
    <3>4. QED
      BY <2>3, <2>6, <3>2, <3>3, LateSteps, Zenon DEF RecInv
  <2>9. QED
    BY <1>1, <1>5, <2>4, <2>5, <2>7, <2>8, Zenon
<1>10. CASE pc[p] = <<"get", s>> /\ db' = db /\ db[s] = 0 /\ Take(p, s, gen[s] + 1) /\ Goto(p, <<"set", s>>)
  <2>0. s \in Setting /\ Take(p, s, gen[s] + 1)
    BY <1>1, <1>10, Zenon
  <2>1. \A u \in Setting \ {s} : mem'[p][u] = mem[p][u]
    BY <1>1, <2>0, Taken, ZenonT(30)
  <2>2. pc'[p] = <<"set", s>>
    BY <1>1, <1>10, Moved, Zenon
  <2>3. \A q \in Process, u \in Recs : pc'[q] = <<"set", u>> => db'[u] = 0
    <3>1. \A u \in Recs : pc'[p] = <<"set", u>> => u = s
      BY <2>2
    <3>2. QED
      BY <1>4, <1>10, <3>1, Zenon DEF RecInv
  <2>4. CASE p = "node"
    BY <1>1, <1>2, <1>3, <1>4, <1>10, <2>3, <2>4, RecordsBeside, Zenon
  <2>5. CASE p = "cli" /\ s = "uuid"
    <3>1. pc'["cli"] \notin Late
      BY <1>7, <2>2, <2>5, Zenon
    <3>2. QED
      BY <1>1, <1>2, <1>3, <1>10, <2>3, <3>1, RecordsEarly, Zenon
  <2>6. CASE p = "cli" /\ s = "pass"
    <3>1. mem["cli"]["uuid"] = db["uuid"]
      BY <1>10, <2>6, Zenon DEF RecInv, GetPass
    <3>2. mem'["cli"]["uuid"] = db'["uuid"]
      BY <1>1, <1>10, <2>1, <2>6, <3>1, Zenon
    <3>3. pc'["cli"] = SetPass
      BY <2>2, <2>6, Zenon DEF SetPass
    <3>4. complete' => \A u \in Recs : db'[u] # 0 /\ Rec(u)'
      BY <1>1, <1>2, <1>3, <1>10, RowStays, ZenonT(30) DEF RecInv, TypeOK
    <3>5. QED
      BY <2>3, <3>2, <3>3, <3>4, LateSteps, Zenon DEF RecInv
  <2>7. QED
    BY <1>1, <2>4, <2>5, <2>6, Zenon
<1>11. CASE /\ pc[p] = <<"set", s>> /\ db' = [db EXCEPT ![s] = mem[p][s]]
            /\ mem' = mem /\ Goto(p, n)
  <2>1. /\ db[s] = 0 /\ ~complete /\ ~reload /\ \A q \in Process \ {p} : ~Loading(q)
        /\ p = "node" => pc["cli"] \notin Late
    BY <1>11, WritesMissing, Zenon
  <2>2. ~complete'
    BY <1>3, <2>1, Zenon
  <2>3. db'[s] = mem[p][s] /\ \A u \in Setting \ {s} : db'[u] = db[u]
    BY <1>1, <1>11, Written, Zenon
  <2>4. pc'[p] = n
    BY <1>1, <1>11, Moved, Zenon
  <2>5. \A q \in Process, u \in Recs : pc'[q] # <<"set", u>>
    <3>1. ASSUME NEW q \in Process \ {p}, NEW u \in Recs, pc'[q] = <<"set", u>>
          PROVE  FALSE
      <4>1. pc[q][1] = "set"
        BY <1>4, <3>1, Verb
      <4>2. QED
        BY <2>1, <4>1, Zenon DEF Loading
    <3>2. QED
      BY <1>8, <2>4, <3>1, Zenon
  <2>6. CASE p = "node" \/ n = <<"get", "cert">>
    <3>1. pc'["cli"] \notin Late
      BY <1>1, <1>4, <1>7, <2>1, <2>4, <2>6, Zenon
    <3>2. QED
      BY <1>1, <2>2, <2>5, <3>1, RecordsEarly, Zenon
  <2>7. CASE p = "cli" /\ n = GetPass /\ s = "uuid"
    <3>1. mem'["cli"]["uuid"] = db'["uuid"] /\ pc'["cli"] = GetPass
      BY <1>11, <2>3, <2>4, <2>7, Zenon
    <3>2. QED
      BY <2>2, <2>5, <3>1, LateSteps, Zenon DEF RecInv
  <2>8. QED
    BY <1>1, <1>5, <2>1, <2>6, <2>7, Zenon
<1>12. QED
  BY <1>9, <1>10, <1>11, <1>6, Zenon

(* The other statements of a load.                                         *)
LEMMA OthersLoaded ==
    ASSUME TypeOK, RecInv, NEW p \in Process,
           \/ KeyStep(p, "wgPriv", "wgPub") \/ KeyStep(p, "priv", "pub") \/ getOrSet(p, "short")
           \/ GetCert(p) \/ GetCertKey(p) \/ SetCert(p) \/ SetCertKey(p)
    PROVE  RecInv'
<1>1. /\ Process = {"node", "cli"} /\ Recs \subseteq Setting
      /\ {"wgPriv", "wgPub", "priv", "pub", "short", "cert", "certKey"} \subseteq Setting \ Recs
  BY Zenon DEF Process, Recs, Setting, Carrier, WireGuard
<1>2. rows' = rows
  BY Zenon DEF KeyStep, GetPrivate, SetPrivate, SetPublic, GetPublic, getOrSet, GetCert, GetCertKey,
         SetCert, SetCertKey, Put, World
<1>3. complete' => complete
  BY Zenon DEF KeyStep, GetPrivate, SetPrivate, SetPublic, GetPublic, getOrSet, GetCert, GetCertKey,
         SetCert, SetCertKey, Put, rest
<1>4. ASSUME NEW z \in Setting \ Recs, NEW v, db' = [db EXCEPT ![z] = v], mem' = mem
      PROVE  \A s \in Recs : db'[s] = db[s] /\ mem'["cli"][s] = mem["cli"][s]
  BY <1>1, <1>4, Written, Zenon
<1>5. ASSUME NEW z \in Setting \ Recs, NEW v, Take(p, z, v), db' = db
      PROVE  \A s \in Recs : db'[s] = db[s] /\ mem'["cli"][s] = mem["cli"][s]
  BY <1>1, <1>5, Taken
<1>6. /\ \A u \in Setting \ Recs : <<"get", u>> \notin Late /\ <<"set", u>> \notin Late
      /\ <<"get", "uuid">> \notin Late
      /\ <<"archive", "uuid">> \notin Late /\ <<"build", "">> \notin Late
  <2>1. ASSUME NEW v, NEW u, u # "pass", v \notin {"record", "expire"}
        PROVE  <<v, u>> \notin Late
    BY <2>1, LateSteps, Zenon
  <2>2. ASSUME NEW v, NEW u, v \notin {"get", "set", "record", "expire"}
        PROVE  <<v, u>> \notin Late
    BY <2>2, LateSteps, Zenon
  <2>3. \A u \in Setting \ Recs : u # "pass"
    BY Zenon DEF Recs
  <2>4. QED
    BY <2>1, <2>2, <2>3, Zenon
<1>7. ASSUME NEW k \in {"wgPub", "pub", "short", "certKey"}
      PROVE  \E v, n : After(p, k) = <<v, n>> /\ <<v, n>> \notin Late /\ v # "set"
  <2>1. /\ After(p, "wgPub") = <<"get", "priv">> /\ After(p, "pub") = <<"get", "short">>
        /\ After(p, "short") = <<"get", "uuid">>
        /\ After("cli", "certKey") = <<"archive", "uuid">>
        /\ After("node", "certKey") = <<"build", "">>
    BY Zenon DEF After
  <2>2. QED
    BY <1>1, <1>6, <2>1, Zenon
<1>8. ASSUME NEW k \in {"wgPub", "pub", "short", "certKey"}, Goto(p, After(p, k)),
             \A s \in Recs : db'[s] = db[s] /\ mem'["cli"][s] = mem["cli"][s]
      PROVE  RecInv'
  <2>1. PICK v, n : Goto(p, <<v, n>>) /\ <<v, n>> \notin Late /\ v # "set"
    BY <1>7, <1>8, ZenonT(30)
  <2>2. QED
    BY <1>2, <1>3, <1>8, <2>1, LoadMovesOn, Zenon
<1>9. ASSUME NEW v \in {"get", "set"}, NEW u \in Setting \ Recs, Goto(p, <<v, u>>),
             \A s \in Recs : db'[s] = db[s] /\ mem'["cli"][s] = mem["cli"][s]
      PROVE  RecInv'
  BY <1>2, <1>3, <1>6, <1>9, LoadMovesOn, Zenon
<1>10. ASSUME NEW s \in Setting \ Recs, NEW k \in Setting \ Recs, k \in {"wgPub", "pub"}, KeyStep(p, s, k)
       PROVE  RecInv'
  <2>1. CASE GetPrivate(p, s, k)
    BY <1>5, <1>9, <1>10, <2>1, Zenon DEF GetPrivate
  <2>2. CASE SetPrivate(p, s, k)
    BY <1>4, <1>9, <1>10, <2>2, Zenon DEF SetPrivate, Put
  <2>3. CASE SetPublic(p, k, s)
    BY <1>4, <1>9, <1>10, <2>3, Zenon DEF SetPublic, Put
  <2>4. CASE GetPublic(p, k)
    BY <1>5, <1>8, <1>10, <2>4, Zenon DEF GetPublic
  <2>5. QED
    BY <1>10, <2>1, <2>2, <2>3, <2>4, Zenon DEF KeyStep
<1>11. CASE getOrSet(p, "short")
  BY <1>1, <1>4, <1>5, <1>8, <1>9, <1>11, Zenon DEF getOrSet, Put
<1>12. CASE GetCert(p)
  BY <1>1, <1>5, <1>9, <1>12, Zenon DEF GetCert
<1>13. CASE GetCertKey(p)
  <2>1. CASE Take(p, "certKey", db["certKey"]) /\ Goto(p, After(p, "certKey"))
    BY <1>1, <1>5, <1>8, <1>13, <2>1, Zenon DEF GetCertKey
  <2>2. CASE /\ mem' = [mem EXCEPT ![p]["cert"] = gen["cert"] + 1, ![p]["certKey"] = gen["cert"] + 1]
             /\ Goto(p, <<"set", "cert">>)
    <3>1. mem["cli"] \in [Setting -> Nat] /\ mem[p] \in [Setting -> Nat] /\ mem \in [Process -> [Setting -> Nat]]
      BY <1>1, Zenon DEF TypeOK
    <3>2. \A s \in Recs : mem'["cli"][s] = mem["cli"][s]
      BY <1>1, <2>2, <3>1, Zenon
    <3>3. db' = db
      BY <1>13, Zenon DEF GetCertKey
    <3>4. QED
      BY <1>1, <1>9, <2>2, <3>2, <3>3, Zenon
  <2>3. QED
    BY <1>13, <2>1, <2>2, Zenon DEF GetCertKey
<1>14. CASE SetCert(p)
  BY <1>1, <1>4, <1>9, <1>14, Zenon DEF SetCert, Put
<1>15. CASE SetCertKey(p)
  BY <1>1, <1>4, <1>8, <1>15, Zenon DEF SetCertKey, Put
<1>16. QED
  BY <1>1, <1>10, <1>11, <1>12, <1>13, <1>14, <1>15, Zenon

(* The command's own steps.                                                *)
LEMMA CommandRecords ==
    ASSUME SecretsInv, RecInv,
           \/ RotateCarriers \/ DeactivateExpiredCarrierCredentials \/ Abort \/ Elapse
           \/ \E s \in Carrier : archiveCurrent(s) \/ RotateAllSecrets(s) \/ RecordNew(s)
    PROVE  RecInv'
<1>1. /\ TypeOK /\ Process = {"node", "cli"} /\ Recs = {"uuid", "pass"} /\ Recs \subseteq Setting
      /\ Carrier = {"uuid", "pass", "short"} /\ Carrier \subseteq Setting
      /\ "cli" \in Thread /\ "node" \in Thread \ {"cli"}
  BY Zenon DEF SecretsInv, Process, Recs, Setting, Carrier, Thread
<1>2. ASSUME NEW l, Goto("cli", l), \A s \in Recs : l # <<"set", s>> /\ db'[s] = db[s]
      PROVE  pc'["cli"] = l /\ \A q \in Process, s \in Recs : pc'[q] = <<"set", s>> => db'[s] = 0
  <2>1. pc'["cli"] = l /\ pc'["node"] = pc["node"]
    BY <1>1, <1>2, Moved, Zenon
  <2>2. \A s \in Recs : pc'["node"] = <<"set", s>> => db'[s] = 0
    BY <1>1, <1>2, <2>1, Zenon DEF RecInv
  <2>3. QED
    BY <1>1, <1>2, <2>1, <2>2, Zenon
<1>3. \A v, u : <<v, u>> \in Late => v \in {"get", "set", "record", "expire"}
  BY LateSteps, Zenon
<1>4. ASSUME NEW v, NEW u, Goto("cli", <<v, u>>), v \notin {"set", "record", "expire"}, u # "pass",
             UNCHANGED db, rows \subseteq rows', complete' => complete
      PROVE  RecInv'
  <2>1. <<v, u>> \notin Late
    BY <1>4, LateSteps, Zenon
  <2>2. \A s \in Recs : <<v, u>> # <<"set", s>>
    BY <1>4, Zenon
  <2>3. /\ pc'["cli"] = <<v, u>>
        /\ \A q \in Process, s \in Recs : pc'[q] = <<"set", s>> => db'[s] = 0
    BY <1>2, <1>4, <2>2, Zenon
  <2>4. QED
    BY <1>1, <1>4, <2>1, <2>3, RecordsEarly, Zenon
<1>5. CASE RotateCarriers
  <2>1. Goto("cli", <<"get", "priv">>) /\ UNCHANGED <<db, rows>>
    BY <1>5, Zenon DEF RotateCarriers, World
  <2>2. complete' => complete
    BY <1>5, Zenon DEF RotateCarriers, rest
  <2>3. QED
    BY <1>4, <2>1, <2>2, Zenon
<1>6. CASE Abort
  <2>1. Goto("cli", <<"idle", "">>) /\ UNCHANGED <<db, rows>>
    BY <1>6, Zenon DEF Abort, Exit
  <2>2. complete' => complete
    BY <1>6, Zenon DEF Abort, rest
  <2>3. QED
    BY <1>4, <2>1, <2>2, Zenon
<1>7. ASSUME NEW s \in Carrier, archiveCurrent(s)
      PROVE  RecInv'
  <2>1. /\ NextRow("archive", s, <<"rotate", "uuid">>) \in
              {<<"archive", "pass">>, <<"archive", "short">>, <<"rotate", "uuid">>}
        /\ Goto("cli", NextRow("archive", s, <<"rotate", "uuid">>))
        /\ db' = db /\ rows \subseteq rows'
    BY <1>1, <1>7, Zenon DEF archiveCurrent, NextRow
  <2>2. PICK v, u : Goto("cli", <<v, u>>) /\ v \in {"archive", "rotate"}
    BY <2>1, Zenon
  <2>3. complete' => complete
    BY <1>7, Zenon DEF archiveCurrent, rest
  <2>4. \A x \in Recs : <<v, u>> # <<"set", x>>
    BY <2>2, Zenon
  <2>5. /\ pc'["cli"] = <<v, u>>
        /\ \A q \in Process, x \in Recs : pc'[q] = <<"set", x>> => db'[x] = 0
    BY <1>2, <2>1, <2>2, <2>4, Zenon
  <2>6. <<v, u>> \notin Late
    BY <1>3, <2>2, Zenon
  <2>7. QED
    BY <1>1, <2>1, <2>3, <2>5, <2>6, RecordsEarly, Zenon
<1>8. ASSUME NEW s \in Carrier, RotateAllSecrets(s)
      PROVE  RecInv'
  <2>1. /\ pc["cli"] = <<"rotate", s>> /\ Goto("cli", NextSecret(s))
        /\ NextSecret(s) \in {<<"rotate", "short">>, <<"rotate", "pass">>, <<"get", "priv">>}
    BY <1>1, <1>8, Zenon DEF RotateAllSecrets, NextSecret
  <2>2. ~complete'
    BY <1>8, Zenon DEF RotateAllSecrets
  <2>3. pc'["cli"] = NextSecret(s) /\ pc'["node"] = pc["node"]
    BY <1>1, <2>1, Moved, Zenon
  <2>4. <<"rotate", "short">> \notin Late /\ <<"rotate", "pass">> \notin Late /\ <<"get", "priv">> \notin Late
    BY LateSteps
  <2>5. pc["cli"][1] = "rotate"
    BY <2>1, Verb, Zenon
  <2>6. \A x \in Recs : pc["node"] # <<"set", x>>
    BY <1>1, <2>5, WritesMissing, Zenon
  <2>7. \A x : <<"rotate", "short">> # <<"set", x>> /\ <<"rotate", "pass">> # <<"set", x>>
               /\ <<"get", "priv">> # <<"set", x>>
    BY Zenon
  <2>8. \A q \in Process, x \in Recs : pc'[q] # <<"set", x>>
    BY <1>1, <2>1, <2>3, <2>6, <2>7
  <2>9. pc'["cli"] \notin Late
    BY <2>1, <2>3, <2>4, Zenon
  <2>10. QED
    BY <1>1, <2>2, <2>8, <2>9, RecordsEarly, Zenon
<1>9. ASSUME NEW s \in Carrier, RecordNew(s)
      PROVE  RecInv'
  <2>1. /\ pc["cli"] = <<"record", s>> /\ Goto("cli", NextRow("record", s, <<"expire", "">>))
        /\ db' = db /\ mem' = mem /\ rows' = rows \cup {Recorded(s)}
    BY <1>9, Zenon DEF RecordNew
  <2>2. complete' => complete
    BY <1>9, Zenon DEF RecordNew, rest
  <2>3. \A u \in Recs : Rec(u) => Rec(u)'
    BY <1>1, <2>1, RowStays, Zenon DEF TypeOK
  <2>4. (complete => \A u \in Recs : db[u] # 0 /\ Rec(u))'
    BY <2>1, <2>2, <2>3, Zenon DEF RecInv
  <2>5. mem["cli"][s] = db[s] => Rec(s)'
    <3>1. Recorded(s) = [kind |-> s, secret |-> mem["cli"][s], grace |-> "none", active |-> TRUE]
      BY Zenon DEF Recorded
    <3>2. Recorded(s).active
      <4>1. Recorded(s).active = TRUE
        BY <3>1
      <4>2. QED
        BY <4>1, Zenon
    <3>3. Recorded(s).kind = s /\ Recorded(s).secret = mem["cli"][s] /\ Recorded(s).grace = "none"
      BY <3>1
    <3>4. QED
      BY <2>1, <3>2, <3>3, Zenon DEF Rec
  <2>6. \A x : RecordPass # <<"set", x>> /\ RecordShort # <<"set", x>> /\ Expire # <<"set", x>>
    BY Zenon DEF RecordPass, RecordShort, Expire
  <2>7. CASE s = "uuid"
    <3>1. pc["cli"] = RecordUuid /\ Goto("cli", RecordPass)
      BY <2>1, <2>7, Zenon DEF RecordUuid, RecordPass, NextRow
    <3>2. /\ pc'["cli"] = RecordPass
          /\ \A q \in Process, x \in Recs : pc'[q] = <<"set", x>> => db'[x] = 0
      BY <1>2, <2>1, <2>6, <3>1, Zenon
    <3>3. mem["cli"]["uuid"] = db["uuid"] /\ mem["cli"]["pass"] = db["pass"]
      BY <3>1, Zenon DEF RecInv
    <3>4. Rec("uuid")' /\ mem'["cli"]["pass"] = db'["pass"]
      BY <2>1, <2>5, <2>7, <3>3, Zenon
    <3>5. QED
      BY <2>4, <3>2, <3>4, LateSteps, Zenon DEF RecInv
  <2>8. CASE s = "pass"
    <3>1. pc["cli"] = RecordPass /\ Goto("cli", RecordShort)
      BY <2>1, <2>8, Zenon DEF RecordPass, RecordShort, NextRow
    <3>2. /\ pc'["cli"] = RecordShort
          /\ \A q \in Process, x \in Recs : pc'[q] = <<"set", x>> => db'[x] = 0
      BY <1>2, <2>1, <2>6, <3>1, ZenonT(30)
    <3>3. Rec("uuid")' /\ Rec("pass")'
      BY <1>1, <2>3, <2>5, <2>8, <3>1, ZenonT(30) DEF RecInv
    <3>4. QED
      BY <2>4, <3>2, <3>3, LateSteps, Zenon DEF RecInv
  <2>9. CASE s = "short"
    <3>1. pc["cli"] = RecordShort /\ Goto("cli", Expire)
      BY <2>1, <2>9, Zenon DEF RecordShort, Expire, NextRow
    <3>2. /\ pc'["cli"] = Expire
          /\ \A q \in Process, x \in Recs : pc'[q] = <<"set", x>> => db'[x] = 0
      BY <1>2, <2>1, <2>6, <3>1, Zenon
    <3>3. Rec("uuid")' /\ Rec("pass")'
      BY <1>1, <2>3, <3>1, Zenon DEF RecInv
    <3>4. QED
      BY <2>4, <3>2, <3>3, LateSteps, Zenon DEF RecInv
  <2>10. QED
    BY <1>1, <2>7, <2>8, <2>9, Zenon
<1>10. CASE DeactivateExpiredCarrierCredentials
  <2>1. /\ pc["cli"] = Expire /\ Goto("cli", <<"idle", "">>) /\ db' = db
        /\ \/ rows' = {[r EXCEPT !.active = @ /\ r.grace # "over"] : r \in rows}
           \/ rows' = rows
    BY <1>10, Zenon DEF DeactivateExpiredCarrierCredentials, Exit, Expire
  <2>2. pc["cli"][1] = "expire"
    BY <2>1, Verb, Zenon DEF Expire
  <2>3. \A u \in Recs : db[u] # 0
    BY <1>1, <2>2, Zenon DEF SecretsInv, AloneInv, NonZero, Core
  <2>4. \A u \in Recs : Rec(u)'
    BY <1>1, <2>1, RowStays, Zenon DEF TypeOK, RecInv
  <2>5. \A x : <<"idle", "">> # <<"set", x>>
    BY Zenon
  <2>6. /\ pc'["cli"] = <<"idle", "">>
        /\ \A q \in Process, x \in Recs : pc'[q] = <<"set", x>> => db'[x] = 0
    BY <1>2, <2>1, <2>5, Zenon
  <2>7. <<"idle", "">> \notin Late
    BY LateSteps, Zenon DEF Idle
  <2>8. QED
    BY <2>1, <2>3, <2>4, <2>6, <2>7, Zenon DEF RecInv, Late
<1>11. CASE Elapse
  <2>1. /\ db' = db /\ mem' = mem /\ pc' = pc
        /\ rows' = {[r EXCEPT !.grace = IF @ = "running" THEN "over" ELSE @] : r \in rows}
    BY <1>11, Zenon DEF Elapse
  <2>2. complete' => complete
    BY <1>11, Zenon DEF Elapse, rest
  <2>3. \A u \in Recs : Rec(u) => Rec(u)'
    BY <2>1, <1>1, RowStays, Zenon DEF TypeOK
  <2>4. QED
    BY <1>1, <2>1, <2>2, <2>3 DEF RecInv
<1>12. QED
  BY <1>5, <1>6, <1>7, <1>8, <1>9, <1>10, <1>11, Zenon

LEMMA RecInductive ==
    ASSUME SecretsInv, RecInv, [Next]_vars
    PROVE  RecInv'
<1>1. TypeOK
  BY Zenon DEF SecretsInv
<1>2. ASSUME NEW p \in Process, Load(p)
      PROVE  RecInv'
  BY <1>1, <1>2, LoadParts, RecsLoaded, OthersLoaded, Zenon DEF Recs
<1>3. CASE Node
  BY <1>1, <1>2, <1>3, NodeRecords, Zenon DEF Node, Process, Threads
<1>4. CASE Command \/ Elapse
  BY <1>2, <1>4, CommandRecords, Zenon DEF Command, Process
<1>5. CASE UNCHANGED vars
  <2>1. complete' => complete
    BY <1>5, Zenon DEF vars, rest
  <2>2. QED
    BY <1>1, <1>5, <2>1, RecordsBeside, Zenon DEF vars, RecInv, Process
<1>6. QED
  BY <1>3, <1>4, <1>5, Zenon DEF Next

LEMMA RecordsStart == Init => RecInv
<1>. SUFFICES ASSUME Init
              PROVE  RecInv
  BY Zenon
<1>1. pc["node"] = <<"off", "">> /\ pc["cli"] = <<"idle", "">>
  BY Zenon DEF Init, Thread, Process
<1>2. \A x : <<"off", "">> # <<"set", x>> /\ <<"idle", "">> # <<"set", x>>
  BY Zenon
<1>3. \A p \in Process, s \in Recs : pc[p] # <<"set", s>>
  BY <1>1, <1>2, Zenon DEF Process
<1>4. ~complete
  BY Zenon DEF Init
<1>5. <<"idle", "">> \notin Late
  BY LateSteps, Zenon DEF Idle
<1>6. QED
  BY <1>1, <1>3, <1>4, <1>5, Zenon DEF RecInv, Late

(* If the node and the command do not create secrets side by side: once a  *)
(* rotation has completed and until the next one begins to write,          *)
(* carrier_credentials holds an active row without expiry for the stored   *)
(* uuid and password, for any number of rotations, crashes and aborted     *)
(* commands (carriers/rotate.go Rotate).                                   *)
THEOREM RotationsAreRecorded ==
    ASSUME FirstAlone
    PROVE  Spec => []OnRecord
<1>1. Init => RecInv
  BY RecordsStart, Zenon
<1>2. SecretsInv /\ RecInv /\ [Next]_vars => RecInv'
  BY RecInductive, Zenon
<1>3. RecInv => OnRecord
  BY Zenon DEF RecInv, OnRecord, Recs, Rec
<1>4. QED
  BY <1>1, <1>2, <1>3, SecretsInvariant, PTL DEF Spec

-----------------------------------------------------------------------------
(* What is stored stays                                                    *)

(* A statement of a load writes the setting it is at, and writes a secret. *)
LEMMA LoadPuts ==
    ASSUME SecretsInv, NEW p \in Process, Load(p)
    PROVE  \/ db' = db
           \/ \E s \in Setting : \E x : pc[p] = <<"set", s>> /\ x # 0 /\ db' = [db EXCEPT ![s] = x]
<1>1. Knows(p) /\ {"wgPriv", "wgPub", "priv", "pub", "short", "uuid", "pass", "cert", "certKey"} = Setting
      /\ Carrier = {"short", "uuid", "pass"}
  BY Zenon DEF SecretsInv, SetInv, Setting, Carrier, WireGuard
<1>2. ASSUME NEW s \in Setting, NEW k \in Setting, KeyStep(p, s, k),
             pc[p] = <<"set", s>> => mem[p][s] # 0, pc[p] = <<"set", k>> => mem[p][s] # 0
      PROVE  \/ db' = db
             \/ \E z \in Setting : \E x : pc[p] = <<"set", z>> /\ x # 0 /\ db' = [db EXCEPT ![z] = x]
  BY <1>2, Zenon DEF KeyStep, GetPrivate, SetPrivate, SetPublic, GetPublic, Put
<1>3. CASE KeyStep(p, "wgPriv", "wgPub") \/ KeyStep(p, "priv", "pub")
  <2>1. \A k \in {"wgPriv", "wgPub"} : pc[p] = <<"set", k>> => mem[p]["wgPriv"] # 0
    BY <1>1, Zenon DEF Knows
  <2>2. \A k \in {"priv", "pub"} : pc[p] = <<"set", k>> => mem[p]["priv"] # 0
    BY <1>1, Zenon DEF Knows
  <2>3. QED
    BY <1>1, <1>2, <1>3, <2>1, <2>2, Zenon
<1>4. ASSUME NEW s \in Carrier, getOrSet(p, s)
      PROVE  \/ db' = db
             \/ \E z \in Setting : \E x : pc[p] = <<"set", z>> /\ x # 0 /\ db' = [db EXCEPT ![z] = x]
  <2>1. s \in Setting /\ (pc[p] = <<"set", s>> => mem[p][s] # 0)
    BY <1>1, Zenon DEF Knows, Setting
  <2>2. QED
    BY <1>4, <2>1, Zenon DEF getOrSet, Put
<1>5. CASE GetCert(p) \/ GetCertKey(p) \/ SetCert(p) \/ SetCertKey(p)
  <2>1. /\ pc[p] = <<"set", "cert">> => mem[p]["cert"] # 0
        /\ pc[p] = <<"set", "certKey">> => mem[p]["certKey"] # 0
        /\ "cert" \in Setting /\ "certKey" \in Setting
    BY <1>1, Zenon DEF Knows
  <2>2. QED
    BY <1>5, <2>1, Zenon DEF GetCert, GetCertKey, SetCert, SetCertKey, Put
<1>6. QED
  BY <1>1, <1>3, <1>4, <1>5, LoadParts, Zenon

(* Who writes a setting.                                                   *)
LEMMA NextPuts ==
    ASSUME SecretsInv, [Next]_vars
    PROVE  \/ db' = db
           \/ \E p \in Process, s \in Setting : \E x :
                 pc[p] = <<"set", s>> /\ x # 0 /\ db' = [db EXCEPT ![s] = x]
           \/ \E s \in Carrier : RotateAllSecrets(s)
           \/ \E t \in Session : PutShortID(t)
<1>1. CASE \E p \in Process : Load(p)
  BY <1>1, LoadPuts, Zenon
<1>2. CASE \/ Boot \/ LoadFails \/ Crash
           \/ \E t \in Threads : serverOptions(t) \/ Listen(t)
           \/ \E t \in Session : RotateReality(t) \/ InstallShortID(t) \/ Close(t)
  BY <1>2, Zenon DEF Boot, LoadFails, Crash, serverOptions, Listen, RotateReality, InstallShortID, Close
<1>3. CASE \/ RotateCarriers \/ DeactivateExpiredCarrierCredentials \/ Abort \/ Elapse
           \/ \E s \in Carrier : archiveCurrent(s) \/ RecordNew(s)
  BY <1>3, Zenon DEF RotateCarriers, DeactivateExpiredCarrierCredentials, Abort, Elapse, archiveCurrent,
       RecordNew
<1>4. CASE UNCHANGED vars
  BY <1>4, Zenon DEF vars
<1>5. QED
  BY <1>1, <1>2, <1>3, <1>4, Zenon DEF Next, Node, Command, Process, Threads

(* No setting is emptied.                                                  *)
LEMMA NothingEmptied ==
    ASSUME SecretsInv, [Next]_vars, NEW s \in Setting, db[s] # 0
    PROVE  db'[s] # 0
<1>1. TypeOK /\ Carrier \subseteq Setting /\ "short" \in Setting
  BY Zenon DEF SecretsInv, Setting, Carrier
<1>2. ASSUME NEW z \in Setting, NEW x, x # 0, db' = [db EXCEPT ![z] = x]
      PROVE  db'[s] # 0
  BY <1>1, <1>2, Written, Zenon
<1>3. ASSUME NEW z \in Carrier, RotateAllSecrets(z)
      PROVE  db'[s] # 0
  <2>1. gen[z] \in Nat /\ z \in Setting
    BY <1>1, Zenon DEF TypeOK
  <2>2. gen[z] + 1 # 0
    BY <2>1
  <2>3. QED
    BY <1>2, <1>3, <2>1, <2>2, Zenon DEF RotateAllSecrets
<1>4. ASSUME NEW t \in Session, PutShortID(t)
      PROVE  db'[s] # 0
  <2>1. pc[t][1] = "put"
    BY <1>4, Verb, Zenon DEF PutShortID
  <2>2. new[t] # 0
    BY <2>1, Zenon DEF SecretsInv, ShortInv
  <2>3. QED
    BY <1>1, <1>2, <1>4, <2>2, Zenon DEF PutShortID
<1>5. QED
  BY <1>2, <1>3, <1>4, NextPuts, Zenon

(* The settings that a load reads after the short id.                      *)
Beyond == {"uuid", "pass", "cert", "certKey"}
SetShort == <<"set", "short">>

(* The node has loaded the short id, or a session is about to replace it.  *)
PastShort ==
    \/ pc["node"][1] \in {"build", "listen"}
    \/ Loading("node") /\ pc["node"][2] \in Beyond
    \/ pc["node"] = Up /\ mem["node"]["priv"] # 0
    \/ \E t \in Session : pc[t] = AtPut

(* A short id is created only while none is stored, and replaced only once *)
(* one is.                                                                 *)
ShortKnown ==
    /\ \A p \in Process : pc[p] = SetShort => db["short"] = 0
    /\ PastShort => db["short"] # 0

(* The process that creates the short id is alone.                         *)
LEMMA ShortAlone ==
    ASSUME SecretsInv, ShortKnown, NEW p \in Process, pc[p] = SetShort
    PROVE  /\ ~PastShort /\ pc["cli"][1] # "rotate"
           /\ \A q \in Process \ {p} : pc[q] # SetShort
<1>1. ~PastShort /\ db["short"] = 0
  BY Zenon DEF ShortKnown
<1>2. ~NonZero
  BY <1>1, Zenon DEF NonZero, Core, Carrier
<1>3. Process = {"node", "cli"} /\ \A q \in Process : pc[q] = SetShort => Loading(q)
  BY Verb, Zenon DEF Loading, SetShort, Process
<1>4. (Loading("node") /\ Loading("cli") => NonZero) /\ (pc["cli"][1] = "rotate" => NonZero)
  BY Zenon DEF SecretsInv, AloneInv
<1>5. QED
  BY <1>1, <1>2, <1>3, <1>4, Zenon

(* A process that goes from one step to another.                           *)
LEMMA ProcessGoes ==
    ASSUME SecretsInv, ShortKnown, NEW p \in Process, NEW v, NEW n, Goto(p, <<v, n>>),
           p = "cli" => mem'["node"] = mem["node"],
           \/ db'["short"] = db["short"]
           \/ db'["short"] # 0 /\ \A q \in Process \ {p} : pc[q] # SetShort,
           v = "set" /\ n = "short" => db'["short"] = 0,
           p = "node" /\ (v \in {"build", "listen"} \/ (v \in {"get", "set"} /\ n \in Beyond))
              => PastShort \/ db'["short"] # 0,
           p = "node" /\ v = "up" => mem'["node"]["priv"] = 0 \/ PastShort
    PROVE  ShortKnown'
<1>1. /\ TypeOK /\ p \in Thread /\ Process \subseteq Thread /\ Process = {"node", "cli"}
      /\ Session \subseteq Thread \ {"node", "cli"}
  BY ThreadAssumption, Zenon DEF SecretsInv, Thread, Process
<1>2. pc'[p] = <<v, n>> /\ \A u \in Thread \ {p} : pc'[u] = pc[u]
  BY <1>1, Moved, Zenon
<1>3. pc'[p][1] = v /\ pc'[p][2] = n
  BY <1>1, MovedTo, Zenon
<1>4. \A q \in Process : pc'[q] = SetShort => db'["short"] = 0
  <2>1. pc'[p] = SetShort => v = "set" /\ n = "short"
    BY <1>3, Verb, Zenon DEF SetShort
  <2>2. \A q \in Process \ {p} : pc'[q] = pc[q]
    BY <1>1, <1>2, Zenon
  <2>3. QED
    BY <2>1, <2>2, Zenon DEF ShortKnown
<1>5. PastShort => db'["short"] # 0
  BY Zenon DEF ShortKnown
<1>6. ASSUME PastShort'
      PROVE  PastShort \/ db'["short"] # 0
  <2>1. \A t \in Session : pc'[t] = pc[t]
    BY <1>1, <1>2, Zenon
  <2>2. CASE p = "cli"
    <3>1. pc'["node"] = pc["node"]
      BY <1>1, <1>2, <2>2, Zenon
    <3>2. QED
      BY <1>6, <2>1, <2>2, <3>1, Zenon DEF PastShort, Loading
  <2>3. CASE p = "node"
    <3>1. pc'["node"] = Up => v = "up"
      BY <1>3, <2>3, Verb, ZenonT(30) DEF Up
    <3>2. QED
      BY <1>3, <1>6, <2>1, <2>3, <3>1, Zenon DEF PastShort, Loading
  <2>4. QED
    BY <1>1, <2>2, <2>3, Zenon
<1>7. QED
  BY <1>4, <1>5, <1>6, Zenon DEF ShortKnown

(* The loads.                                                              *)
LEMMA ShortLoaded ==
    ASSUME SecretsInv, ShortKnown, NEW p \in Process, Load(p)
    PROVE  ShortKnown'
<1>1. /\ TypeOK /\ Process = {"node", "cli"} /\ "short" \in Setting /\ "node" \in Process /\ Knows(p)
      /\ \A s : s \in {"uuid", "pass", "cert", "certKey", "wgPriv", "wgPub", "priv", "pub"} =>
            s \in Setting \ {"short"}
  BY Zenon DEF SecretsInv, SetInv, Process, Setting, Carrier, WireGuard
<1>2. p = "cli" => mem'["node"] = mem["node"]
  BY <1>1, CommandApart, Zenon DEF Command
<1>3. ASSUME NEW w \in {"get", "set"}, NEW z \in Beyond, pc[p] = <<w, z>>, p = "node"
      PROVE  PastShort
  <2>1. pc[p][1] = w /\ pc[p][2] = z
    BY <1>3, Verb, Zenon
  <2>2. QED
    BY <1>3, <2>1, Zenon DEF PastShort, Loading
<1>4. ASSUME NEW v, NEW n, Goto(p, <<v, n>>), db'["short"] = db["short"],
             \/ v \in {"get", "set"} /\ n \in {"wgPriv", "wgPub", "priv", "pub"}
             \/ v = "get" /\ n = "short"
      PROVE  ShortKnown'
  <2>1. n \notin Beyond /\ v \notin {"build", "listen", "up"} /\ ~(v = "set" /\ n = "short")
    BY <1>4, Zenon DEF Beyond
  <2>2. QED
    BY <1>2, <1>4, <2>1, ProcessGoes, Zenon
<1>5. ASSUME NEW v, NEW n, Goto(p, <<v, n>>), v # "up", ~(v = "set" /\ n = "short"),
             db'["short"] = db["short"], p = "node" => PastShort
      PROVE  ShortKnown'
  BY <1>2, <1>5, ProcessGoes, Zenon
<1>6. ASSUME NEW s \in {"wgPriv", "priv"}, NEW k \in {"wgPub", "pub"}, KeyStep(p, s, k)
      PROVE  ShortKnown'
  <2>1. db'["short"] = db["short"]
    BY <1>1, <1>6, Written, ZenonT(30) DEF KeyStep, GetPrivate, SetPrivate, SetPublic, GetPublic, Put
  <2>2. After(p, k) \in {<<"get", "priv">>, <<"get", "short">>}
    BY Zenon DEF After
  <2>3. QED
    BY <1>4, <1>6, <2>1, <2>2, Zenon DEF KeyStep, GetPrivate, SetPrivate, SetPublic, GetPublic
<1>7. CASE getOrSet(p, "short")
  <2>1. After(p, "short") = <<"get", "uuid">>
    BY Zenon DEF After
  <2>2. CASE Goto(p, <<"set", "short">>) /\ db["short"] = 0 /\ db' = db
    BY <1>2, <2>2, ProcessGoes, Zenon DEF Beyond
  <2>3. CASE Goto(p, <<"get", "uuid">>) /\ db["short"] # 0 /\ db' = db
    BY <1>2, <2>3, ProcessGoes, Zenon
  <2>4. CASE /\ pc[p] = SetShort /\ Goto(p, <<"get", "uuid">>)
             /\ db' = [db EXCEPT !["short"] = mem[p]["short"]]
    <3>1. mem[p]["short"] # 0
      BY <1>1, <2>4, Zenon DEF Knows, SetShort, Carrier
    <3>2. db'["short"] # 0
      BY <1>1, <2>4, <3>1, Written, Zenon
    <3>3. \A q \in Process \ {p} : pc[q] # SetShort
      BY <2>4, ShortAlone, Zenon
    <3>4. QED
      BY <1>2, <2>4, <3>2, <3>3, ProcessGoes, Zenon
  <2>5. QED
    BY <1>7, <2>1, <2>2, <2>3, <2>4, Zenon DEF getOrSet, Put, SetShort
<1>8. ASSUME NEW s \in {"uuid", "pass"}, getOrSet(p, s)
      PROVE  ShortKnown'
  <2>1. db'["short"] = db["short"]
    BY <1>1, <1>8, Written, Zenon DEF getOrSet, Put
  <2>2. p = "node" => PastShort
    BY <1>3, <1>8, Zenon DEF getOrSet, Beyond
  <2>3. After(p, s) \in {<<"get", "pass">>, <<"record", "uuid">>, <<"get", "cert">>}
    BY Zenon DEF After
  <2>4. QED
    BY <1>5, <1>8, <2>1, <2>2, <2>3, Zenon DEF getOrSet
<1>9. CASE GetCert(p) \/ GetCertKey(p) \/ SetCert(p) \/ SetCertKey(p)
  <2>1. db'["short"] = db["short"]
    BY <1>1, <1>9, Written, Zenon DEF GetCert, GetCertKey, SetCert, SetCertKey, Put
  <2>2. p = "node" => PastShort
    BY <1>3, <1>9, Zenon DEF GetCert, GetCertKey, SetCert, SetCertKey, Beyond
  <2>3. After(p, "certKey") \in {<<"archive", "uuid">>, <<"build", "">>}
    BY Zenon DEF After
  <2>4. QED
    BY <1>5, <1>9, <2>1, <2>2, <2>3, Zenon DEF GetCert, GetCertKey, SetCert, SetCertKey
<1>10. QED
  BY <1>6, <1>7, <1>8, <1>9, LoadParts, Zenon

(* The sessions of the node.                                               *)
LEMMA SessionShort ==
    ASSUME SecretsInv, ShortKnown, NEW t \in Session,
           \/ serverOptions(t) \/ Listen(t)
           \/ RotateReality(t) \/ PutShortID(t) \/ InstallShortID(t) \/ Close(t)
    PROVE  ShortKnown'
<1>1. /\ TypeOK /\ t \in Thread /\ Process \subseteq Thread /\ t \notin Process /\ "node" \in Process
      /\ "short" \in Setting /\ "priv" \in Setting /\ Session \subseteq Thread
  BY ThreadAssumption, Zenon DEF SecretsInv, Thread, Process, Setting, Carrier
<1>2. /\ \A x : <<"listen", x>> # AtPut /\ <<"idle", x>> # AtPut /\ <<"build", x>> # AtPut
                /\ <<"close", x>> # AtPut /\ <<"install", x>> # AtPut
      /\ Done(t) = <<"idle", "">>
  BY <1>1, Zenon DEF AtPut, Done
<1>3. PICK l : Goto(t, l) /\ (l = AtPut => PastShort)
  <2>1. CASE RotateReality(t)
    BY <2>1, Zenon DEF RotateReality, PastShort, Up
  <2>2. CASE serverOptions(t) \/ Listen(t) \/ InstallShortID(t) \/ Close(t) \/ PutShortID(t)
    BY <1>2, <2>2, Zenon DEF serverOptions, Listen, InstallShortID, Close, PutShortID
  <2>3. QED
    BY <2>1, <2>2, Zenon
<1>4. pc'[t] = l /\ \A u \in Thread \ {t} : pc'[u] = pc[u]
  BY <1>1, <1>3, Moved, Zenon
<1>5. mem'["node"]["priv"] = mem["node"]["priv"]
  <2>1. CASE InstallShortID(t)
    BY <1>1, <2>1, Zenon DEF InstallShortID, TypeOK
  <2>2. CASE serverOptions(t) \/ Listen(t) \/ RotateReality(t) \/ PutShortID(t) \/ Close(t)
    BY <2>2, Zenon DEF serverOptions, Listen, RotateReality, PutShortID, Close
  <2>3. QED
    BY <2>1, <2>2, Zenon
<1>6. PastShort' => PastShort
  <2>1. pc'["node"] = pc["node"]
    BY <1>1, <1>4, Zenon
  <2>2. \A u \in Session : pc'[u] = AtPut => PastShort
    BY <1>1, <1>3, <1>4, Zenon DEF PastShort
  <2>3. QED
    BY <1>5, <2>1, <2>2, Zenon DEF PastShort, Loading
<1>7. \/ db'["short"] = db["short"]
      \/ PastShort /\ db'["short"] # 0
  <2>1. CASE PutShortID(t) /\ db' # db
    <3>1. pc[t] = AtPut /\ db' = [db EXCEPT !["short"] = new[t]]
      BY <2>1, Zenon DEF PutShortID, AtPut
    <3>2. pc[t][1] = "put"
      BY <3>1, Verb, Zenon DEF AtPut
    <3>3. new[t] # 0
      BY <3>2, Zenon DEF SecretsInv, ShortInv
    <3>4. QED
      BY <1>1, <3>1, <3>3, Written, Zenon DEF PastShort
  <2>2. CASE serverOptions(t) \/ Listen(t) \/ RotateReality(t) \/ InstallShortID(t) \/ Close(t)
    BY <2>2, Zenon DEF serverOptions, Listen, RotateReality, InstallShortID, Close
  <2>3. QED
    BY <2>1, <2>2, Zenon
<1>8. \A p \in Process : pc'[p] = pc[p]
  BY <1>1, <1>4, Zenon
<1>9. QED
  BY <1>6, <1>7, <1>8, Zenon DEF ShortKnown

(* The start and the end of the node.                                      *)
LEMMA NodeShort ==
    ASSUME SecretsInv, ShortKnown,
           Boot \/ LoadFails \/ Crash \/ serverOptions("node") \/ Listen("node")
    PROVE  ShortKnown'
<1>1. TypeOK /\ "node" \in Process /\ "node" # "cli" /\ "priv" \in Setting \ WireGuard
  BY Zenon DEF SecretsInv, Process, Setting, WireGuard
<1>2. db' = db
  BY Zenon DEF Boot, LoadFails, Crash, serverOptions, Listen
<1>3. CASE Boot
  <2>1. Goto("node", <<"get", "wgPriv">>) /\ "wgPriv" \notin Beyond
    BY <1>3, Zenon DEF Boot, Beyond
  <2>2. QED
    BY <1>1, <1>2, <2>1, ProcessGoes, Zenon
<1>4. CASE LoadFails
  <2>1. mem'["node"]["priv"] = 0
    BY <1>1, <1>4, Zenon DEF LoadFails, TypeOK
  <2>2. CASE Goto("node", <<"get", "priv">>)
    BY <1>1, <1>2, <2>2, ProcessGoes, Zenon DEF Beyond
  <2>3. CASE Goto("node", <<"up", "">>)
    BY <1>1, <1>2, <2>1, <2>3, ProcessGoes, Zenon
  <2>4. QED
    BY <1>4, <2>2, <2>3, Zenon DEF LoadFails
<1>5. CASE serverOptions("node") \/ Listen("node")
  <2>1. pc["node"][1] \in {"build", "listen"}
    BY <1>5, Verb, Zenon DEF serverOptions, Listen
  <2>2. PastShort
    BY <2>1, Zenon DEF PastShort
  <2>3. Goto("node", <<"listen", "">>) \/ Goto("node", <<"up", "">>)
    BY <1>5, Zenon DEF serverOptions, Listen, Done
  <2>4. QED
    BY <1>1, <1>2, <2>2, <2>3, ProcessGoes, Zenon
<1>6. CASE Crash
  <2>1. /\ "cli" \in Thread /\ "node" \in Thread /\ Session \subseteq Thread \ {"cli", "node"}
        /\ Process = {"node", "cli"}
    BY ThreadAssumption, Zenon DEF Thread, Process
  <2>2. pc' = [t \in Thread |-> IF t = "cli" THEN pc[t]
                                ELSE IF t = "node" THEN <<"off", "">> ELSE <<"idle", "">>]
    BY <1>6, Zenon DEF Crash
  <2>3. /\ pc'["cli"] = pc["cli"] /\ pc'["node"] = <<"off", "">>
        /\ \A t \in Session : pc'[t] = <<"idle", "">>
    BY <2>1, <2>2, Zenon
  <2>4. pc'["node"][1] = "off" /\ <<"idle", "">> # AtPut /\ pc'["node"] # Up /\ pc'["node"] # SetShort
    <3>1. pc'["node"][1] = "off"
      BY <2>3, Verb, ZenonT(30)
    <3>2. Idle # AtPut /\ <<"off", "">> # Up /\ <<"off", "">> # SetShort
      BY Zenon DEF Idle, AtPut, Up, SetShort
    <3>3. QED
      BY <2>3, <3>1, <3>2, Zenon DEF Idle
  <2>5. ~PastShort'
    BY <2>3, <2>4, Zenon DEF PastShort, Loading
  <2>6. QED
    BY <1>2, <2>1, <2>3, <2>4, <2>5, Zenon DEF ShortKnown
<1>7. QED
  BY <1>3, <1>4, <1>5, <1>6, Zenon

(* The steps of the command beside its load.                               *)
LEMMA CommandShort ==
    ASSUME SecretsInv, ShortKnown,
           \/ RotateCarriers \/ DeactivateExpiredCarrierCredentials \/ Abort
           \/ \E s \in Carrier : archiveCurrent(s) \/ RotateAllSecrets(s) \/ RecordNew(s)
    PROVE  ShortKnown'
<1>1. TypeOK /\ "cli" \in Process /\ "node" # "cli" /\ Carrier \subseteq Setting /\ "short" \in Setting
  BY Zenon DEF SecretsInv, Process, Setting, Carrier
<1>2. mem'["node"] = mem["node"]
  BY <1>1, CommandApart, Zenon DEF Command
<1>3. \/ db'["short"] = db["short"]
      \/ db'["short"] # 0 /\ \A q \in Process \ {"cli"} : pc[q] # SetShort
  <2>1. CASE \/ RotateCarriers \/ DeactivateExpiredCarrierCredentials \/ Abort
             \/ \E s \in Carrier : archiveCurrent(s) \/ RecordNew(s)
    BY <2>1, Zenon DEF RotateCarriers, DeactivateExpiredCarrierCredentials, Abort, archiveCurrent, RecordNew
  <2>2. ASSUME NEW s \in Carrier, RotateAllSecrets(s)
        PROVE  \/ db'["short"] = db["short"]
               \/ db'["short"] # 0 /\ \A q \in Process \ {"cli"} : pc[q] # SetShort
    <3>1. gen[s] \in Nat
      BY <1>1, Zenon DEF TypeOK
    <3>2. gen[s] + 1 # 0
      BY <3>1
    <3>3. db' = [db EXCEPT ![s] = gen[s] + 1] /\ pc["cli"][1] = "rotate"
      BY <2>2, Verb, Zenon DEF RotateAllSecrets
    <3>4. QED
      BY <1>1, <3>2, <3>3, Written, ShortAlone, Zenon
  <2>3. QED
    BY <2>1, <2>2, Zenon
<1>4. ASSUME NEW v, NEW n, Goto("cli", <<v, n>>), v # "set"
      PROVE  ShortKnown'
  BY <1>1, <1>2, <1>3, <1>4, ProcessGoes, Zenon
<1>5. CASE RotateCarriers \/ DeactivateExpiredCarrierCredentials \/ Abort
  BY <1>4, <1>5, Zenon DEF RotateCarriers, DeactivateExpiredCarrierCredentials, Abort, Exit
<1>6. ASSUME NEW s \in Carrier, RotateAllSecrets(s)
      PROVE  ShortKnown'
  <2>1. NextSecret(s) \in {<<"rotate", "short">>, <<"rotate", "pass">>, <<"get", "priv">>}
    BY Zenon DEF NextSecret, Carrier
  <2>2. QED
    BY <1>4, <1>6, <2>1, Zenon DEF RotateAllSecrets
<1>7. ASSUME NEW s \in Carrier, archiveCurrent(s) \/ RecordNew(s)
      PROVE  ShortKnown'
  <2>1. /\ NextRow("archive", s, <<"rotate", "uuid">>) \in
              {<<"archive", "pass">>, <<"archive", "short">>, <<"rotate", "uuid">>}
        /\ NextRow("record", s, <<"expire", "">>) \in
              {<<"record", "pass">>, <<"record", "short">>, <<"expire", "">>}
    BY Zenon DEF NextRow, Carrier
  <2>2. QED
    BY <1>4, <1>7, <2>1, Zenon DEF archiveCurrent, RecordNew
<1>8. QED
  BY <1>5, <1>6, <1>7, Zenon

LEMMA ShortInductive ==
    ASSUME SecretsInv, ShortKnown, [Next]_vars
    PROVE  ShortKnown'
<1>1. CASE Node
  BY <1>1, ShortLoaded, NodeShort, SessionShort, Zenon DEF Node, Process, Threads
<1>2. CASE Command
  BY <1>2, ShortLoaded, CommandShort, Zenon DEF Command, Process
<1>3. CASE Elapse \/ UNCHANGED vars
  <2>1. db' = db /\ mem' = mem /\ pc' = pc
    BY <1>3, Zenon DEF Elapse, vars
  <2>2. QED
    BY <2>1, Zenon DEF ShortKnown, PastShort, Loading
<1>4. QED
  BY <1>1, <1>2, <1>3, Zenon DEF Next

LEMMA StepKeepsSettings ==
    ASSUME SecretsInv, RecInv, ShortKnown, [Next]_vars
    PROVE  SettingsKept
<1>1. /\ TypeOK /\ Recs \subseteq Setting \ {"short"} /\ "short" \in Setting /\ Carrier \subseteq Setting
      /\ Recs \subseteq Carrier
      /\ {"wgPriv", "wgPub", "priv", "pub", "cert", "certKey"} = Setting \ Carrier
      /\ Carrier = Recs \cup {"short"}
  BY Zenon DEF SecretsInv, Setting, Carrier, WireGuard, Recs
<1>2. \A s \in Setting : db[s] # 0 => db'[s] # 0
  BY NothingEmptied, Zenon
<1>3. CASE db' = db
  BY <1>2, <1>3, Zenon DEF SettingsKept, Recs
<1>4. ASSUME NEW p \in Process, NEW s \in Setting, NEW x, pc[p] = <<"set", s>>, db' = [db EXCEPT ![s] = x]
      PROVE  SettingsKept
  <2>1. \A u \in Setting \ {s} : db'[u] = db[u]
    BY <1>1, <1>4, Written, Zenon
  <2>2. /\ s \in {"wgPriv", "wgPub", "priv", "pub"} => db[s] = 0
        /\ s \in {"cert", "certKey"} => db["certKey"] = 0
    BY <1>4, Zenon DEF SecretsInv, SetInv, Knows
  <2>3. s \in Carrier => db[s] = 0
    BY <1>1, <1>4, Zenon DEF RecInv, ShortKnown, SetShort
  <2>4. QED
    BY <1>1, <1>2, <2>1, <2>2, <2>3, Zenon DEF SettingsKept, Recs
<1>5. ASSUME NEW s \in Carrier, RotateAllSecrets(s)
      PROVE  SettingsKept
  <2>1. \A u \in Setting \ {s} : db'[u] = db[u]
    BY <1>1, <1>5, Written, Zenon DEF RotateAllSecrets
  <2>2. QED
    BY <1>1, <1>2, <1>5, <2>1, Zenon DEF SettingsKept, Recs
<1>6. ASSUME NEW t \in Session, PutShortID(t)
      PROVE  SettingsKept
  <2>1. \A u \in Setting \ {"short"} : db'[u] = db[u]
    BY <1>1, <1>6, Written, Zenon DEF PutShortID
  <2>2. QED
    BY <1>1, <1>2, <1>6, <2>1, Zenon DEF SettingsKept, Recs
<1>7. QED
  BY <1>3, <1>4, <1>5, <1>6, NextPuts, Zenon

(* If the node and the command do not create secrets side by side: a       *)
(* stored secret is never lost or overwritten by a load, whatever crashes, *)
(* failed statements and aborted commands come between. The WireGuard and  *)
(* Reality keys that the clients hold stay for good, the certificate stays *)
(* once both halves are stored, the uuid and the password change only in   *)
(* RotateAllSecrets and the short id only there and in RotateReality       *)
(* (wg.go loadOrCreateKeys; secrets.go getOrSet, loadOrCreateSecrets;      *)
(* tlscert.go loadOrCreateCert).                                           *)
THEOREM StoredSecretsKept ==
    ASSUME FirstAlone
    PROVE  Spec => StoredKept
<1>1. Init => RecInv /\ ShortKnown
  <2>. SUFFICES ASSUME Init
                PROVE  ShortKnown
    BY RecordsStart, Zenon
  <2>1. /\ pc["node"] = <<"off", "">> /\ pc["cli"] = <<"idle", "">>
        /\ \A t \in Session : pc[t] = <<"idle", "">>
    BY ThreadAssumption, Zenon DEF Init, Thread, Process
  <2>2. pc["node"][1] = "off"
    BY <2>1, Verb, Zenon
  <2>3. /\ <<"off", "">> # SetShort /\ <<"idle", "">> # SetShort
        /\ <<"off", "">> # Up /\ <<"idle", "">> # AtPut
    BY Zenon DEF SetShort, Up, AtPut
  <2>4. QED
    BY <2>1, <2>2, <2>3, Zenon DEF ShortKnown, PastShort, Loading, Process
<1>2. SecretsInv /\ RecInv /\ ShortKnown /\ [Next]_vars => RecInv' /\ ShortKnown'
  BY RecInductive, ShortInductive, Zenon
<1>3. SecretsInv /\ RecInv /\ ShortKnown /\ [Next]_vars => [SettingsKept]_vars
  BY StepKeepsSettings, Zenon
<1>4. QED
  BY <1>1, <1>2, <1>3, SecretsInvariant, PTL DEF Spec, StoredKept
=============================================================================
