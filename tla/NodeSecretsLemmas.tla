------------------------- MODULE NodeSecretsLemmas -------------------------
(***************************************************************************)
(* The inductive invariant behind PairsMatch and OnRecord, SecretsInv, and *)
(* that every step keeps it: the types, the node's start and listeners,    *)
(* the sessions' rotations, the command's, and the loads of the secrets.   *)
(***************************************************************************)
EXTENDS NodeSecrets, TLAPS

(* What the command needs to find before it rotates.                       *)
Core == Carrier \cup {"priv", "cert", "certKey"}
NonZero == \A s \in Core : db[s] # 0

(* What comes in pairs and is created by both processes.                   *)
Paired == {"priv", "pub", "cert", "certKey"}

(* What a process knows of the settings at the statement it is at.         *)
Knows(p) ==
    /\ pc[p] = <<"set", "wgPriv">> => db["wgPriv"] = 0 /\ mem[p]["wgPriv"] # 0
    /\ pc[p] = <<"set", "wgPub">> =>
          db["wgPub"] = 0 /\ mem[p]["wgPriv"] # 0 /\ db["wgPriv"] = mem[p]["wgPriv"]
    /\ pc[p] = <<"set", "priv">> => db["priv"] = 0 /\ mem[p]["priv"] # 0
    /\ pc[p] = <<"set", "pub">> =>
          db["pub"] = 0 /\ mem[p]["priv"] # 0 /\ db["priv"] = mem[p]["priv"]
    /\ \A s \in Carrier : pc[p] = <<"set", s>> => mem[p][s] # 0
    /\ pc[p] = <<"get", "certKey">> => mem[p]["cert"] # 0 \/ db["cert"] = 0
    /\ pc[p] = <<"set", "cert">> =>
          db["certKey"] = 0 /\ mem[p]["cert"] # 0 /\ mem[p]["certKey"] = mem[p]["cert"]
    /\ pc[p] = <<"set", "certKey">> =>
          db["certKey"] = 0 /\ db["cert"] # 0 /\ mem[p]["certKey"] = db["cert"]

SetInv == \A p \in Process : Knows(p)

(* A short id that a session is to install exists.                         *)
ShortInv == \A t \in Session : pc[t][1] \in {"put", "install"} => new[t] # 0

(* A process that creates a pair has the database to itself.               *)
AloneInv ==
    /\ Loading("node") /\ Loading("cli") => NonZero
    /\ reload => NonZero
    /\ pc["cli"][1] \in {"archive", "rotate", "record", "expire"} => NonZero
    /\ \A s \in Paired : pc["node"] = <<"set", s>> => pc["cli"] = <<"idle", "">>
    /\ \A s \in Paired : pc["cli"] = <<"set", s>> => ~Loading("node")

(* What the command has found or created so far.                           *)
Ordered(s) ==
    /\ s # "priv" => db["priv"] # 0
    /\ s \in {"uuid", "pass", "cert", "certKey"} => db["short"] # 0
    /\ s \in {"pass", "cert", "certKey"} => db["uuid"] # 0
    /\ s \in {"cert", "certKey"} => db["pass"] # 0

OrderInv == Loading("cli") => Ordered(pc["cli"][2])

SecretsInv == TypeOK /\ PairsMatch /\ SetInv /\ ShortInv /\ AloneInv /\ OrderInv

(* Nothing is stored at first and nobody is at work.                       *)
LEMMA SecretsStart == Init => SecretsInv
<1> SUFFICES ASSUME Init
             PROVE  SecretsInv
  BY Zenon
<1> USE ThreadAssumption
    DEF Init, Nothing, Down, Thread, Process, Setting, Carrier, WireGuard, Listener
<1>2. pc["node"] = <<"off", "">> /\ pc["cli"] = <<"idle", "">>
      /\ \A t \in Session : pc[t] = <<"idle", "">>
  BY Zenon
<1>1. pc \in [Thread -> NodeStep \cup CommandStep \cup SessionStep]
  BY <1>2, Zenon DEF NodeStep, CommandStep, SessionStep
<1>3. /\ running \in BOOLEAN /\ reload \in BOOLEAN /\ complete \in BOOLEAN
      /\ sole \in BOOLEAN /\ mixed \in BOOLEAN /\ foreign \subseteq Setting
  BY Zenon
<1>4. TypeOK
  BY <1>1, <1>2, <1>3, ZenonT(30) DEF TypeOK, NodeStep, CommandStep, SessionStep
<1>5. QED
  BY <1>2, <1>4, Zenon
     DEF SecretsInv, PairsMatch, SetInv, Knows, ShortInv, AloneInv, OrderInv, Loading

(* The step that follows the load of a setting.                            *)
LEMMA AfterType ==
    ASSUME NEW s \in {"wgPub", "pub", "certKey"} \cup Carrier
    PROVE  /\ After("node", s) \in NodeStep
           /\ s # "wgPub" => After("cli", s) \in CommandStep
  BY Zenon DEF After, NodeStep, CommandStep, Setting, Carrier, WireGuard

(* A process that goes from one of its steps to another.                   *)
LEMMA GotoType ==
    ASSUME TypeOK, NEW p \in Process, NEW l, Goto(p, l),
           p = "node" => l \in NodeStep, p = "cli" => l \in CommandStep
    PROVE  /\ pc' \in [Thread -> NodeStep \cup CommandStep \cup SessionStep]
           /\ pc'["node"] \in NodeStep /\ pc'["cli"] \in CommandStep
           /\ \A t \in Session : pc'[t] \in SessionStep
  BY ThreadAssumption, Zenon DEF TypeOK, Goto, Thread, Process

(* The command loads no WireGuard keys.                                    *)
LEMMA PairOf ==
    ASSUME TypeOK, NEW p \in Process,
           NEW s, NEW k, <<s, k>> \in {<<"wgPriv", "wgPub">>, <<"priv", "pub">>},
           pc[p] \in {<<"get", s>>, <<"set", s>>, <<"get", k>>, <<"set", k>>}
    PROVE  /\ s \in Setting /\ k \in Setting /\ k \in {"wgPub", "pub"}
           /\ p = "cli" => k # "wgPub" /\ {s, k} \subseteq Setting \ WireGuard
<1>1. CASE s = "priv" /\ k = "pub"
  BY <1>1, Zenon DEF Setting, WireGuard, Carrier
<1>2. CASE s = "wgPriv" /\ k = "wgPub"
  <2>1. ASSUME p = "cli" PROVE FALSE
    <3>1. pc["cli"] \in CommandStep
      BY Zenon DEF TypeOK
    <3>2. pc["cli"] \in {"get", "set"} \X WireGuard
      BY <1>2, <2>1 DEF WireGuard
    <3>3. QED
      BY <3>1, <3>2, Zenon DEF CommandStep
  <2>2. QED
    BY <1>2, <2>1, Zenon DEF Setting, WireGuard
<1>3. QED
  BY <1>1, <1>2, Zenon

(* What a load changes besides the step.                                   *)
LoadedType ==
    /\ db' \in [Setting -> Nat] /\ gen' \in [Setting -> Nat]
    /\ mem' \in [Process -> [Setting -> Nat]]
    /\ foreign' \subseteq Setting /\ complete' = complete
    /\ UNCHANGED World

(* Loading keeps the types.                                                *)
LEMMA LoadTypes ==
    ASSUME TypeOK, NEW p \in Process, Load(p)
    PROVE  TypeOK'
<1> DEFINE Pcs == /\ pc' \in [Thread -> NodeStep \cup CommandStep \cup SessionStep]
                  /\ pc'["node"] \in NodeStep /\ pc'["cli"] \in CommandStep
                  /\ \A t \in Session : pc'[t] \in SessionStep
<1>0. ASSUME NEW s \in Setting, Known(p, s)
      PROVE  foreign' \subseteq Setting
  BY <1>0, Zenon DEF Known, TypeOK
<1>1. ASSUME Pcs, LoadedType
      PROVE  TypeOK'
  BY <1>1, Zenon DEF TypeOK, LoadedType, World, carriers
<1> HIDE DEF Pcs
<1>2. ASSUME NEW s \in Setting, NEW v \in Nat, Put(p, s, v), UNCHANGED mem
      PROVE  LoadedType
  <2>1. foreign' \subseteq Setting
    BY <1>2, Zenon DEF Put, TypeOK
  <2>2. QED
    BY <1>2, <2>1, Zenon DEF Put, TypeOK, LoadedType
<1>3. ASSUME NEW s \in Setting, NEW v \in Nat, Take(p, s, v), Known(p, s),
             UNCHANGED <<db, World, complete>>, gen' = gen \/ Create(s)
      PROVE  LoadedType
  <2>1. gen' \in [Setting -> Nat]
    BY <1>3 DEF Create, TypeOK
  <2>2. mem[p] \in [Setting -> Nat]
    BY Zenon DEF TypeOK
  <2>3. mem' \in [Process -> [Setting -> Nat]]
    BY <1>3, <2>2, Zenon DEF Take, TypeOK
  <2>4. QED
    BY <1>0, <1>3, <2>1, <2>3, Zenon DEF LoadedType, TypeOK
<1>5. ASSUME NEW s, NEW k, <<s, k>> \in {<<"wgPriv", "wgPub">>, <<"priv", "pub">>},
             \/ GetPrivate(p, s, k) \/ SetPrivate(p, s, k)
             \/ SetPublic(p, k, s) \/ GetPublic(p, k)
      PROVE  Pcs /\ LoadedType
  <2>0. /\ s \in Setting /\ k \in Setting /\ k \in {"wgPub", "pub"}
        /\ p = "cli" => k # "wgPub" /\ {s, k} \subseteq Setting \ WireGuard
    BY <1>5, PairOf DEF GetPrivate, SetPrivate, SetPublic, GetPublic
  <2>1. /\ mem[p][s] \in Nat /\ db[s] \in Nat /\ db[k] \in Nat /\ gen[s] + 1 \in Nat
    BY <2>0 DEF TypeOK
  <2>2. /\ \A v \in {"get", "set"} : <<v, s>> \in NodeStep /\ <<v, k>> \in NodeStep
        /\ p = "cli" => \A v \in {"get", "set"} : <<v, s>> \in CommandStep /\ <<v, k>> \in CommandStep
    BY <2>0, Zenon DEF NodeStep, CommandStep
  <2>3. CASE GetPrivate(p, s, k)
    <3>1. Pcs
      BY <2>2, <2>3, GotoType, Zenon DEF GetPrivate, Pcs
    <3>2. LoadedType
      BY <1>3, <2>0, <2>1, <2>3, Zenon DEF GetPrivate
    <3>3. QED
      BY <3>1, <3>2, Zenon
  <2>4. CASE SetPrivate(p, s, k)
    <3>1. Pcs
      BY <2>2, <2>4, GotoType, Zenon DEF SetPrivate, Pcs
    <3>2. LoadedType
      BY <1>2, <2>0, <2>1, <2>4, Zenon DEF SetPrivate
    <3>3. QED
      BY <3>1, <3>2, Zenon
  <2>5. CASE SetPublic(p, k, s)
    <3>1. Pcs
      BY <2>2, <2>5, GotoType, Zenon DEF SetPublic, Pcs
    <3>2. LoadedType
      BY <1>2, <2>0, <2>1, <2>5, Zenon DEF SetPublic
    <3>3. QED
      BY <3>1, <3>2, Zenon
  <2>6. CASE GetPublic(p, k)
    <3>1. Pcs
      BY <2>0, <2>6, GotoType, AfterType, Zenon DEF GetPublic, Pcs, Process
    <3>2. LoadedType
      BY <1>3, <2>0, <2>1, <2>6, Zenon DEF GetPublic
    <3>3. QED
      BY <3>1, <3>2, Zenon
  <2>7. QED
    BY <1>5, <2>3, <2>4, <2>5, <2>6, Zenon
<1>6. ASSUME NEW s \in Carrier, getOrSet(p, s)
      PROVE  Pcs /\ LoadedType
  <2>1. s \in Setting /\ mem[p][s] \in Nat /\ db[s] \in Nat /\ gen[s] + 1 \in Nat
    BY DEF TypeOK, Setting
  <2>2. <<"set", s>> \in NodeStep /\ <<"set", s>> \in CommandStep
    BY Zenon DEF NodeStep, CommandStep, Setting, Carrier, WireGuard
  <2>3. After("node", s) \in NodeStep /\ After("cli", s) \in CommandStep
    BY AfterType, Zenon DEF Carrier
  <2>4. Pcs
    BY <1>6, <2>2, <2>3, GotoType, Zenon DEF getOrSet, Pcs, Process
  <2>5. LoadedType
    BY <1>2, <1>3, <1>6, <2>1, Zenon DEF getOrSet
  <2>6. QED
    BY <2>4, <2>5, Zenon
<1>7. {"cert", "certKey"} \subseteq Setting \ WireGuard
  BY Zenon DEF Setting, WireGuard, Carrier
<1>8. \A s \in {"cert", "certKey"} : mem[p][s] \in Nat /\ db[s] \in Nat /\ gen[s] + 1 \in Nat
  BY <1>7 DEF TypeOK
<1>9. \A v \in {"get", "set"}, s \in {"cert", "certKey"} :
          <<v, s>> \in NodeStep /\ <<v, s>> \in CommandStep
  BY <1>7, Zenon DEF NodeStep, CommandStep
<1>10. After("node", "certKey") \in NodeStep /\ After("cli", "certKey") \in CommandStep
  BY AfterType, Zenon
<1>11. CASE GetCert(p)
  <2>1. Pcs
    BY <1>9, <1>11, GotoType, Zenon DEF GetCert, Pcs
  <2>2. LoadedType
    BY <1>3, <1>7, <1>8, <1>11, Zenon DEF GetCert
  <2>3. QED
    BY <1>1, <2>1, <2>2, Zenon
<1>12. CASE GetCertKey(p)
  <2>1. Pcs
    BY <1>9, <1>10, <1>12, GotoType, Zenon DEF GetCertKey, Pcs, Process
  <2>2. CASE Take(p, "certKey", db["certKey"]) /\ gen' = gen
    <3>1. LoadedType
      BY <1>3, <1>7, <1>8, <1>12, <2>2, Zenon DEF GetCertKey
    <3>2. QED
      BY <1>1, <2>1, <3>1, Zenon
  <2>3. CASE /\ Create("cert")
             /\ mem' = [mem EXCEPT ![p]["cert"] = gen["cert"] + 1,
                                   ![p]["certKey"] = gen["cert"] + 1]
    <3>1. mem[p] \in [Setting -> Nat]
      BY Zenon DEF TypeOK
    <3>2. [mem[p] EXCEPT !["cert"] = gen["cert"] + 1, !["certKey"] = gen["cert"] + 1]
             \in [Setting -> Nat]
      BY <1>7, <1>8, <3>1, Zenon
    <3>3. mem' = [mem EXCEPT ![p] = [mem[p] EXCEPT !["cert"] = gen["cert"] + 1,
                                                   !["certKey"] = gen["cert"] + 1]]
      BY <2>3, <3>1, Zenon DEF TypeOK
    <3>4. mem' \in [Process -> [Setting -> Nat]]
      BY <3>2, <3>3, Zenon DEF TypeOK
    <3>5. gen' \in [Setting -> Nat]
      BY <1>7, <1>8, <2>3, Zenon DEF Create, TypeOK
    <3>6. LoadedType
      BY <1>0, <1>7, <1>8, <1>12, <3>4, <3>5, Zenon DEF GetCertKey, LoadedType, TypeOK
    <3>7. QED
      BY <1>1, <2>1, <3>6, Zenon
  <2>4. QED
    BY <1>12, <2>2, <2>3, Zenon DEF GetCertKey
<1>13. CASE SetCert(p)
  <2>1. Pcs
    BY <1>9, <1>13, GotoType, Zenon DEF SetCert, Pcs
  <2>2. LoadedType
    BY <1>2, <1>7, <1>8, <1>13, Zenon DEF SetCert
  <2>3. QED
    BY <1>1, <2>1, <2>2, Zenon
<1>14. CASE SetCertKey(p)
  <2>1. Pcs
    BY <1>9, <1>10, <1>14, GotoType, Zenon DEF SetCertKey, Pcs, Process
  <2>2. LoadedType
    BY <1>2, <1>7, <1>8, <1>14, Zenon DEF SetCertKey
  <2>3. QED
    BY <1>1, <2>1, <2>2, Zenon
<1>15. QED
  BY <1>1, <1>5, <1>6, <1>11, <1>12, <1>13, <1>14 DEF Load

(* What everything else does to the steps, for a thread of any kind.       *)
LEMMA ThreadType ==
    ASSUME TypeOK, NEW t \in Thread, NEW l, Goto(t, l),
           t = "node" => l \in NodeStep, t = "cli" => l \in CommandStep,
           t \in Session => l \in SessionStep
    PROVE  /\ pc' \in [Thread -> NodeStep \cup CommandStep \cup SessionStep]
           /\ pc'["node"] \in NodeStep /\ pc'["cli"] \in CommandStep
           /\ \A u \in Session : pc'[u] \in SessionStep
  BY ThreadAssumption, Zenon DEF TypeOK, Goto, Thread, Process

(* Boot, the listeners and the sessions keep the types.                    *)
LEMMA NodeTypes ==
    ASSUME TypeOK, Node
    PROVE  TypeOK'
<1> USE DEF carriers, rest, World
<1>1. Process = {"node", "cli"} /\ Session \subseteq Thread /\ Process \subseteq Thread
      /\ "node" \notin Session /\ "cli" \notin Session
  BY ThreadAssumption, Zenon DEF Process, Thread
<1>2. /\ <<"get", "wgPriv">> \in NodeStep /\ <<"get", "priv">> \in NodeStep
      /\ <<"up", "">> \in NodeStep /\ <<"listen", "">> \in NodeStep /\ <<"off", "">> \in NodeStep
      /\ <<"listen", "">> \in SessionStep /\ <<"idle", "">> \in SessionStep
      /\ <<"close", "">> \in SessionStep /\ <<"build", "">> \in SessionStep
      /\ <<"put", "short">> \in SessionStep /\ <<"install", "short">> \in SessionStep
  BY Zenon DEF NodeStep, SessionStep, Setting, WireGuard
<1>3. "short" \in Setting /\ Listener \subseteq Setting
  BY Zenon DEF Setting, Carrier, Listener
<1>4. Nothing \in [Setting -> Nat] /\ Down \in [Listener -> Nat]
  BY Zenon DEF Nothing, Down
<1>5. ASSUME NEW t \in Session \cup {"node"}
      PROVE  t = "node" => Done(t) \in NodeStep
  BY <1>2, Zenon DEF Done
<1>6. ASSUME NEW t \in Session
      PROVE  Done(t) \in SessionStep
  BY <1>1, <1>2, Zenon DEF Done
<1>7. CASE Boot
  <2>1. Goto("node", <<"get", "wgPriv">>)
    BY <1>7, Zenon DEF Boot
  <2>2. QED
    BY <1>1, <1>2, <1>7, <2>1, ThreadType, Zenon DEF Boot, TypeOK
<1>8. CASE Load("node")
  BY <1>1, <1>8, LoadTypes, Zenon
<1>9. CASE LoadFails
  <2>1. cuts' \in Nat
    <3>1. cuts' = cuts + 1
      BY <1>9, Zenon DEF LoadFails, Cut
    <3>2. cuts \in Nat
      BY Zenon DEF TypeOK
    <3>3. QED
      BY <3>1, <3>2
  <2>2. mem["node"] \in [Setting -> Nat]
    BY <1>1, Zenon DEF TypeOK
  <2>3. mem' \in [Process -> [Setting -> Nat]]
    BY <1>9, <2>2, Zenon DEF LoadFails, TypeOK
  <2>4. PICK l \in NodeStep : Goto("node", l)
    BY <1>2, <1>9, Zenon DEF LoadFails
  <2>5. QED
    BY <1>1, <1>9, <2>1, <2>3, <2>4, ThreadType, Zenon DEF LoadFails, TypeOK
<1>10. CASE Crash
  <2>1. /\ pc' = [t \in Thread |-> IF t = "cli" THEN pc[t]
                                   ELSE IF t = "node" THEN <<"off", "">> ELSE <<"idle", "">>]
    BY <1>10, Zenon DEF Crash
  <2>2. /\ pc' \in [Thread -> NodeStep \cup CommandStep \cup SessionStep]
        /\ pc'["node"] \in NodeStep /\ pc'["cli"] \in CommandStep
        /\ \A u \in Session : pc'[u] \in SessionStep
    BY <1>1, <1>2, <2>1, Zenon DEF TypeOK
  <2>3. mem' \in [Process -> [Setting -> Nat]]
    BY <1>4, <1>10, Zenon DEF Crash, TypeOK
  <2>4. cuts' \in Nat
    <3>1. cuts' = cuts + 1
      BY <1>10, Zenon DEF Crash, Cut
    <3>2. cuts \in Nat
      BY Zenon DEF TypeOK
    <3>3. QED
      BY <3>1, <3>2
  <2>5. running' \in BOOLEAN /\ sole' \in BOOLEAN /\ mixed' \in BOOLEAN
    BY <1>10, Zenon DEF Crash
  <2>6. QED
    BY <1>4, <1>10, <2>2, <2>3, <2>4, <2>5, Zenon DEF Crash, TypeOK
<1>11. ASSUME NEW t \in Session \cup {"node"}, serverOptions(t)
       PROVE  TypeOK'
  <2>1. Goto(t, <<"listen", "">>)
    BY <1>11, Zenon DEF serverOptions
  <2>2. [s \in Listener |-> mem["node"][s]] \in [Listener -> Nat]
    <3>1. mem["node"] \in [Setting -> Nat]
      BY <1>1, Zenon DEF TypeOK
    <3>2. QED
      BY <1>3, <3>1, Zenon
  <2>3. opts' \in [Session \cup {"node"} -> [Listener -> Nat]]
    BY <1>11, <2>2, Zenon DEF serverOptions, TypeOK
  <2>4. QED
    BY <1>1, <1>2, <1>11, <2>1, <2>3, ThreadType, Zenon DEF serverOptions, TypeOK
<1>12. ASSUME NEW t \in Session \cup {"node"}, Listen(t)
       PROVE  TypeOK'
  <2>1. Goto(t, Done(t))
    BY <1>12, Zenon DEF Listen
  <2>2. running' \in BOOLEAN
    BY <1>12, Zenon DEF Listen, TypeOK
  <2>3. opts' \in [Session \cup {"node"} -> [Listener -> Nat]]
    BY <1>4, <1>12, Zenon DEF Listen, TypeOK
  <2>4. served' \in [Listener -> Nat]
    <3>1. opts[t] \in [Listener -> Nat] /\ served \in [Listener -> Nat]
      BY Zenon DEF TypeOK
    <3>2. served' = opts[t] \/ served' = served
      BY <1>12, Zenon DEF Listen
    <3>3. QED
      BY <3>1, <3>2, Zenon
  <2>5. /\ pc' \in [Thread -> NodeStep \cup CommandStep \cup SessionStep]
        /\ pc'["node"] \in NodeStep /\ pc'["cli"] \in CommandStep
        /\ \A u \in Session : pc'[u] \in SessionStep
    BY <1>1, <1>5, <1>6, <2>1, ThreadType, Zenon
  <2>6. UNCHANGED <<db, rows, gen, mem, new, cuts, reload, rest>>
    BY <1>12, Zenon DEF Listen
  <2>7. QED
    BY <2>2, <2>3, <2>4, <2>5, <2>6, Zenon DEF TypeOK, rest
<1>13. ASSUME NEW t \in Session, RotateReality(t)
       PROVE  TypeOK'
  <2>1. Goto(t, <<"put", "short">>)
    BY <1>13, Zenon DEF RotateReality
  <2>2. gen' \in [Setting -> Nat] /\ new' \in [Session -> Nat]
    <3>1. gen["short"] \in Nat
      BY <1>3, Zenon DEF TypeOK
    <3>2. gen["short"] + 1 \in Nat
      BY <3>1
    <3>3. QED
      BY <1>3, <1>13, <3>2, Zenon DEF RotateReality, Create, TypeOK
  <2>3. sole' \in BOOLEAN /\ mixed' \in BOOLEAN
    BY <1>13, Zenon DEF RotateReality
  <2>4. QED
    BY <1>1, <1>2, <1>13, <2>1, <2>2, <2>3, ThreadType, Zenon DEF RotateReality, TypeOK
<1>14. ASSUME NEW t \in Session, PutShortID(t)
       PROVE  TypeOK'
  <2>1. PICK l \in {<<"install", "short">>, Done(t)} : Goto(t, l)
    BY <1>14, Zenon DEF PutShortID
  <2>2. db' \in [Setting -> Nat] /\ new' \in [Session -> Nat]
    <3>1. new[t] \in Nat
      BY Zenon DEF TypeOK
    <3>2. \/ db' = [db EXCEPT !["short"] = new[t]] /\ new' = new
          \/ new' = [new EXCEPT ![t] = 0] /\ db' = db
      BY <1>14, Zenon DEF PutShortID
    <3>3. db \in [Setting -> Nat] /\ new \in [Session -> Nat] /\ 0 \in Nat
      BY Zenon DEF TypeOK
    <3>4. QED
      BY <3>1, <3>2, <3>3
  <2>3. foreign' \subseteq Setting
    BY <1>14, Zenon DEF PutShortID, TypeOK
  <2>4. QED
    BY <1>1, <1>2, <1>6, <1>14, <2>1, <2>2, <2>3, ThreadType, Zenon DEF PutShortID, TypeOK
<1>15. ASSUME NEW t \in Session, InstallShortID(t)
       PROVE  TypeOK'
  <2>1. PICK l \in {<<"close", "">>, Done(t)} : Goto(t, l)
    BY <1>15, Zenon DEF InstallShortID
  <2>2. mem["node"] \in [Setting -> Nat] /\ new[t] \in Nat
    BY <1>1, Zenon DEF TypeOK
  <2>3. mem' \in [Process -> [Setting -> Nat]] /\ new' \in [Session -> Nat]
    BY <1>1, <1>3, <1>15, <2>2, Zenon DEF InstallShortID, TypeOK
  <2>4. mixed' \in BOOLEAN
    BY <1>15, Zenon DEF InstallShortID
  <2>5. QED
    BY <1>1, <1>2, <1>6, <1>15, <2>1, <2>3, <2>4, ThreadType, Zenon DEF InstallShortID, TypeOK
<1>16. ASSUME NEW t \in Session, Close(t)
       PROVE  TypeOK'
  <2>1. Goto(t, <<"build", "">>)
    BY <1>16, Zenon DEF Close
  <2>2. running' \in BOOLEAN
    BY <1>16, Zenon DEF Close
  <2>3. QED
    BY <1>1, <1>2, <1>4, <1>16, <2>1, <2>2, ThreadType, Zenon DEF Close, TypeOK
<1>17. QED
  BY <1>7, <1>8, <1>9, <1>10, <1>11, <1>12, <1>13, <1>14, <1>15, <1>16, Zenon DEF Node

(* The command keeps the types.                                            *)
LEMMA CommandTypes ==
    ASSUME TypeOK, Command
    PROVE  TypeOK'
<1> USE DEF carriers, rest, World
<1>1. "cli" \in Process /\ "cli" \in Thread /\ "cli" \notin Session
  BY ThreadAssumption, Zenon DEF Process, Thread
<1>2. /\ <<"get", "priv">> \in CommandStep /\ <<"idle", "">> \in CommandStep
      /\ <<"expire", "">> \in CommandStep /\ <<"rotate", "uuid">> \in CommandStep
      /\ \A v \in {"archive", "rotate", "record"}, s \in Carrier : <<v, s>> \in CommandStep
  BY Zenon DEF CommandStep, Setting, WireGuard, Carrier
<1>3. ASSUME NEW l \in CommandStep, Goto("cli", l)
      PROVE  /\ pc' \in [Thread -> NodeStep \cup CommandStep \cup SessionStep]
             /\ pc'["node"] \in NodeStep /\ pc'["cli"] \in CommandStep
             /\ \A u \in Session : pc'[u] \in SessionStep
  BY <1>1, <1>3, ThreadType, Zenon
<1>4. ASSUME NEW s \in Carrier, NEW v \in {"archive", "record"}, NEW e \in CommandStep
      PROVE  NextRow(v, s, e) \in CommandStep
  BY <1>2, Zenon DEF NextRow, Carrier
<1>5. ASSUME NEW s \in Carrier
      PROVE  /\ mem["cli"][s] \in Nat /\ s \in Setting
             /\ Archived(s) \in Row /\ Recorded(s) \in Row
  <2>1. mem["cli"][s] \in Nat /\ s \in Setting
    BY <1>1 DEF TypeOK, Setting
  <2>2. QED
    BY <2>1, Zenon DEF Archived, Recorded, Row
<1>6. CASE RotateCarriers
  BY <1>2, <1>3, <1>6, Zenon DEF RotateCarriers, TypeOK
<1>7. CASE Load("cli")
  BY <1>1, <1>7, LoadTypes, Zenon
<1>8. ASSUME Exit
      PROVE  /\ mem' \in [Process -> [Setting -> Nat]] /\ reload' \in BOOLEAN
             /\ Goto("cli", <<"idle", "">>)
  <2>1. mem' \in [Process -> [Setting -> Nat]]
    BY <1>8, Zenon DEF Exit, Nothing, TypeOK
  <2>2. reload' \in BOOLEAN /\ Goto("cli", <<"idle", "">>)
    BY <1>8, Zenon DEF Exit
  <2>3. QED
    BY <2>1, <2>2, Zenon
<1>9. CASE DeactivateExpiredCarrierCredentials
  <2>1. \A r \in rows' : r \in Row
    <3>1. CASE UNCHANGED rows
      BY <3>1, Zenon DEF TypeOK
    <3>2. CASE rows' = {[r EXCEPT !.active = @ /\ r.grace # "over"] : r \in rows}
      <4>1. ASSUME NEW r \in rows
            PROVE  [r EXCEPT !.active = @ /\ r.grace # "over"] \in Row
        BY ZenonT(30) DEF TypeOK, Row
      <4>2. QED
        BY <3>2, <4>1, Zenon
    <3>3. QED
      BY <1>9, <3>1, <3>2, Zenon DEF DeactivateExpiredCarrierCredentials
  <2>2. complete' \in BOOLEAN
    BY <1>9, Zenon DEF DeactivateExpiredCarrierCredentials
  <2>3. Exit /\ UNCHANGED <<db, gen, new, carriers, cuts, foreign, sole, mixed>>
    BY <1>9, Zenon DEF DeactivateExpiredCarrierCredentials
  <2>4. QED
    BY <1>2, <1>3, <1>8, <2>1, <2>2, <2>3, Zenon DEF TypeOK
<1>10. CASE Abort
  <2>1. cuts' = cuts + 1 /\ Exit
    BY <1>10, Zenon DEF Abort, Cut
  <2>2. cuts \in Nat
    BY Zenon DEF TypeOK
  <2>3. cuts' \in Nat
    BY <2>1, <2>2
  <2>4. UNCHANGED <<db, rows, gen, new, carriers, rest>>
    BY <1>10, Zenon DEF Abort
  <2>5. QED
    BY <1>2, <1>3, <1>8, <2>1, <2>3, <2>4, Zenon DEF TypeOK
<1>11. ASSUME NEW s \in Carrier, archiveCurrent(s) \/ RecordNew(s)
       PROVE  TypeOK'
  <2>1. PICK l \in CommandStep : Goto("cli", l)
    BY <1>2, <1>4, <1>11, Zenon DEF archiveCurrent, RecordNew
  <2>2. \A r \in rows' : r \in Row
    <3>1. PICK r \in Row : rows' = rows \cup {r}
      BY <1>5, <1>11, Zenon DEF archiveCurrent, RecordNew
    <3>2. QED
      BY <3>1, Zenon DEF TypeOK
  <2>3. UNCHANGED <<db, gen, mem, new, carriers, cuts, reload, rest>>
    BY <1>11, Zenon DEF archiveCurrent, RecordNew
  <2>4. QED
    BY <1>3, <2>1, <2>2, <2>3, Zenon DEF TypeOK
<1>12. ASSUME NEW s \in Carrier, RotateAllSecrets(s)
       PROVE  TypeOK'
  <2>1. NextSecret(s) \in CommandStep /\ Goto("cli", NextSecret(s))
    BY <1>2, <1>12, Zenon DEF NextSecret, RotateAllSecrets, Carrier
  <2>2. reload' \in BOOLEAN /\ foreign' \subseteq Setting /\ complete' \in BOOLEAN
    BY <1>5, <1>12, Zenon DEF RotateAllSecrets, TypeOK
  <2>3. gen[s] \in Nat /\ s \in Setting
    BY <1>5, Zenon DEF TypeOK
  <2>4. gen[s] + 1 \in Nat
    BY <2>3
  <2>5. gen' \in [Setting -> Nat] /\ db' \in [Setting -> Nat]
    BY <1>12, <2>3, <2>4, Zenon DEF RotateAllSecrets, Create, TypeOK
  <2>6. UNCHANGED <<rows, mem, new, carriers, cuts, sole, mixed>>
    BY <1>12, Zenon DEF RotateAllSecrets
  <2>7. QED
    BY <1>3, <2>1, <2>2, <2>5, <2>6, Zenon DEF TypeOK
<1>13. QED
  BY <1>6, <1>7, <1>9, <1>10, <1>11, <1>12, Zenon DEF Command

(* Every step keeps the types.                                             *)
LEMMA SecretsTypes ==
    ASSUME TypeOK, [Next]_vars
    PROVE  TypeOK'
<1> USE DEF carriers, rest
<1>1. CASE Elapse
  <2>1. ASSUME NEW r \in rows
        PROVE  [r EXCEPT !.grace = IF @ = "running" THEN "over" ELSE @] \in Row
    BY ZenonT(30) DEF TypeOK, Row
  <2>2. \A r \in rows' : r \in Row
    BY <1>1, <2>1, Zenon DEF Elapse
  <2>3. UNCHANGED <<db, gen, mem, pc, new, carriers, cuts, reload, rest>>
    BY <1>1, Zenon DEF Elapse
  <2>4. QED
    BY <2>2, <2>3, Zenon DEF TypeOK
<1>2. CASE UNCHANGED vars
  BY <1>2, Zenon DEF TypeOK, vars
<1>3. QED
  BY <1>1, <1>2, NodeTypes, CommandTypes, Zenon DEF Next

(* The parts of a step.                                                    *)
LEMMA Verb ==
    ASSUME NEW x, NEW v, NEW s, x = <<v, s>>
    PROVE  x[1] = v /\ x[2] = s
  BY Zenon

LEMMA IdleVerb == pc["cli"] = <<"idle", "">> => pc["cli"][1] = "idle"
BY Verb, Zenon

LEMMA InProduct ==
    ASSUME NEW A, NEW B, NEW c \in A \X B
    PROVE  \E a \in A, b \in B : c = <<a, b>>
  BY SMT

(* The invariant besides the types and the sessions' short ids.            *)
PairsInv == PairsMatch /\ SetInv /\ AloneInv /\ OrderInv

(* A step that leaves the pairs alone, at most replaces carrier secrets by *)
(* new ones, and moves no process into a load.                             *)
StoreBeside == \A s \in Setting : db'[s] = db[s] \/ (s \in Carrier /\ db'[s] # 0)
StepBeside == \A p \in Process : pc'[p] = pc[p] \/ pc'[p][1] \notin {"get", "set"}
MemoryBeside ==
    \A p \in Process, s \in Setting :
        \/ mem'[p][s] = mem[p][s]
        \/ s \in Carrier /\ mem'[p][s] # 0
        \/ pc'[p][1] \notin {"get", "set"}
CommandBeside ==
    \/ (reload' => reload) /\ pc'["cli"] = pc["cli"]
    \/ ~reload' /\ pc'["cli"] = <<"idle", "">>
    \/ NonZero' /\ pc["cli"] # <<"idle", "">>
Beside == StoreBeside /\ StepBeside /\ MemoryBeside /\ CommandBeside

LEMMA SettingParts ==
    /\ Process = {"node", "cli"} /\ Carrier \subseteq Setting /\ Paired \subseteq Setting
    /\ WireGuard \subseteq Setting /\ Core \subseteq Setting
    /\ Paired \cap Carrier = {} /\ WireGuard \cap Carrier = {}
  BY Zenon DEF Process, Paired, Setting, Core, Carrier, WireGuard

LEMMA StoreKept ==
    ASSUME SecretsInv, StoreBeside
    PROVE  /\ \A s \in Paired \cup WireGuard : db'[s] = db[s]
           /\ \A s \in Setting : db[s] # 0 => db'[s] # 0
           /\ NonZero => NonZero'
           /\ PairsMatch'
<1>1. \A s \in Paired \cup WireGuard : db'[s] = db[s]
  BY SettingParts, Zenon DEF StoreBeside
<1>2. \A s \in Setting : db[s] # 0 => db'[s] # 0
  BY Zenon DEF StoreBeside
<1>3. NonZero => NonZero'
  BY <1>2, SettingParts, Zenon DEF NonZero
<1>4. PairsMatch'
  BY <1>1, Zenon DEF PairsMatch, Paired, WireGuard, SecretsInv
<1>5. QED
  BY <1>1, <1>2, <1>3, <1>4, Zenon

LEMMA BesideLoads ==
    ASSUME SecretsInv, Beside
    PROVE  PairsInv'
<1>1. /\ Process = {"node", "cli"} /\ Carrier \subseteq Setting /\ Paired \subseteq Setting
      /\ WireGuard \subseteq Setting
      /\ Paired \cap Carrier = {} /\ WireGuard \cap Carrier = {}
  BY SettingParts, Zenon
<1>2. \A s \in Paired \cup WireGuard : db'[s] = db[s]
  BY StoreKept, Zenon DEF Beside
<1>3. \A s \in Setting : db[s] # 0 => db'[s] # 0
  BY StoreKept, Zenon DEF Beside
<1>4. NonZero => NonZero'
  BY StoreKept, Zenon DEF Beside
<1>5. PairsMatch'
  BY StoreKept, Zenon DEF Beside
<1>6. \A p \in Process : Loading(p)' =>
         Loading(p) /\ pc'[p] = pc[p] /\ \A s \in Paired \cup WireGuard : mem'[p][s] = mem[p][s]
  BY <1>1, Zenon DEF Loading, Beside, StepBeside, MemoryBeside
<1>7. SetInv'
  <2>1. ASSUME NEW p \in Process, Loading(p)'
        PROVE  Knows(p)'
    <3>1. Knows(p) /\ pc'[p] = pc[p]
      BY <1>6, <2>1, Zenon DEF SetInv, SecretsInv
    <3>2. \A s \in Carrier : mem[p][s] # 0 => mem'[p][s] # 0
      BY <1>1, <2>1, Zenon DEF Loading, Beside, StepBeside, MemoryBeside
    <3>3. \A s \in Paired \cup WireGuard : mem'[p][s] = mem[p][s]
      BY <1>6, <2>1, Zenon
    <3>4. QED
      BY <1>2, <3>1, <3>2, <3>3, ZenonT(30) DEF Knows, Paired, WireGuard
  <2>2. ASSUME NEW p \in Process, ~Loading(p)'
        PROVE  Knows(p)'
    <3>1. \A s : pc'[p] # <<"get", s>> /\ pc'[p] # <<"set", s>>
      BY <2>2 DEF Loading
    <3>2. QED
      BY <3>1, Zenon DEF Knows
  <2>3. QED
    BY <2>1, <2>2, Zenon DEF SetInv
<1>8. AloneInv'
  <2>1. (Loading("node") /\ Loading("cli") => NonZero)'
    BY <1>1, <1>4, <1>6, Zenon DEF AloneInv, SecretsInv
  <2>2. /\ reload' => NonZero'
        /\ pc'["cli"][1] \in {"archive", "rotate", "record", "expire"} => NonZero'
    <3>1. CASE (reload' => reload) /\ pc'["cli"] = pc["cli"]
      <4>1. /\ reload => NonZero
            /\ pc["cli"][1] \in {"archive", "rotate", "record", "expire"} => NonZero
        BY Zenon DEF AloneInv, SecretsInv
      <4>2. reload' => NonZero'
        BY <1>4, <3>1, <4>1, Zenon
      <4>3. pc'["cli"][1] \in {"archive", "rotate", "record", "expire"} => NonZero'
        BY <1>4, <3>1, <4>1, Zenon
      <4>4. QED
        BY <4>2, <4>3, Zenon
    <3>2. CASE ~reload' /\ pc'["cli"] = <<"idle", "">>
      <4>1. pc'["cli"][1] = "idle"
        BY <3>2, Verb, Zenon
      <4>2. pc'["cli"][1] \notin {"archive", "rotate", "record", "expire"}
        BY <4>1, Zenon
      <4>3. QED
        BY <3>2, <4>2, Zenon
    <3>3. QED
      BY <3>1, <3>2, Zenon DEF Beside, CommandBeside
  <2>3. ASSUME NEW s \in Paired, pc'["node"] = <<"set", s>>
        PROVE  pc'["cli"] = <<"idle", "">>
    <3>1. pc["node"] = <<"set", s>>
      BY <1>1, <1>6, <2>3 DEF Loading
    <3>2. pc["cli"] = <<"idle", "">>
      BY <3>1, Zenon DEF AloneInv, SecretsInv
    <3>3. QED
      BY <3>2, Zenon DEF Beside, CommandBeside
  <2>4. ASSUME NEW s \in Paired, pc'["cli"] = <<"set", s>>
        PROVE  ~Loading("node")'
    <3>1. pc["cli"] = <<"set", s>>
      BY <1>1, <1>6, <2>4 DEF Loading
    <3>2. ~Loading("node")
      BY <3>1, Zenon DEF AloneInv, SecretsInv
    <3>3. QED
      BY <1>1, <1>6, <3>2, Zenon
  <2>5. QED
    BY <2>1, <2>2, <2>3, <2>4, Zenon DEF AloneInv
<1>9. OrderInv'
  <2>1. {"priv", "short", "uuid", "pass"} \subseteq Setting
    BY <1>1, Zenon DEF Carrier, Paired
  <2>2. QED
    BY <1>1, <1>3, <1>6, <2>1, Zenon DEF OrderInv, Ordered, SecretsInv
<1>10. QED
  BY <1>5, <1>7, <1>8, <1>9, Zenon DEF PairsInv

(* Where a thread and the others are after a move.                         *)
LEMMA Moved ==
    ASSUME TypeOK, NEW t \in Thread, NEW l, Goto(t, l)
    PROVE  pc'[t] = l /\ \A u \in Thread \ {t} : pc'[u] = pc[u]
  BY Zenon DEF TypeOK, Goto

LEMMA MovedTo ==
    ASSUME TypeOK, NEW t \in Thread, NEW v, NEW s, Goto(t, <<v, s>>)
    PROVE  pc'[t][1] = v /\ pc'[t][2] = s
<1>1. pc'[t] = <<v, s>>
  BY Moved, Zenon
<1>2. QED
  BY <1>1, Verb, Zenon

(* What a write and a read change.                                         *)
LEMMA Written ==
    ASSUME TypeOK, NEW s \in Setting, NEW v, db' = [db EXCEPT ![s] = v]
    PROVE  db'[s] = v /\ \A u \in Setting \ {s} : db'[u] = db[u]
  BY Zenon DEF TypeOK

LEMMA Taken ==
    ASSUME TypeOK, NEW p \in Process, NEW s \in Setting, NEW v, Take(p, s, v)
    PROVE  /\ mem'[p][s] = v /\ \A u \in Setting \ {s} : mem'[p][u] = mem[p][u]
           /\ \A q \in Process \ {p} : mem'[q] = mem[q]
<1>1. mem[p] \in [Setting -> Nat] /\ mem \in [Process -> [Setting -> Nat]]
  BY Zenon DEF TypeOK
<1>2. QED
  BY <1>1, Zenon DEF Take

(* The listeners, the sessions and the end of the node are such steps.     *)
LEMMA ListenersBeside ==
    ASSUME SecretsInv,
           \/ Crash
           \/ \E t \in Session \cup {"node"} : serverOptions(t) \/ Listen(t)
           \/ \E t \in Session : RotateReality(t) \/ PutShortID(t) \/ InstallShortID(t) \/ Close(t)
    PROVE  Beside
<1> USE DEF carriers, rest
<1>1. /\ Process = {"node", "cli"} /\ "node" \in Thread /\ "cli" \in Thread
      /\ "node" \notin Session /\ "cli" \notin Session /\ Session \subseteq Thread
      /\ "short" \in Carrier /\ Carrier \subseteq Setting
  BY ThreadAssumption, Zenon DEF Process, Thread, Carrier, Setting
<1>2. TypeOK
  BY Zenon DEF SecretsInv
<1>3. CASE Crash
  <2>1. pc'["node"] = <<"off", "">> /\ pc'["cli"] = pc["cli"] /\ db' = db
    BY <1>1, <1>3, Zenon DEF Crash
  <2>2. mem'["cli"] = mem["cli"]
    BY <1>1, <1>2, <1>3, Zenon DEF Crash, TypeOK
  <2>3. reload' => reload
    BY <1>3, Zenon DEF Crash
  <2>4. pc'["node"][1] = "off"
    BY <2>1, Verb, Zenon
  <2>5. pc'["node"][1] \notin {"get", "set"}
    BY <2>4, Zenon
  <2>6. StoreBeside
    BY <2>1, Zenon DEF StoreBeside
  <2>7. StepBeside /\ MemoryBeside
    BY <1>1, <2>1, <2>2, <2>5, Zenon DEF StepBeside, MemoryBeside
  <2>8. CommandBeside
    BY <2>1, <2>3, Zenon DEF CommandBeside
  <2>9. QED
    BY <2>6, <2>7, <2>8, Zenon DEF Beside
<1>4. ASSUME NEW t \in Session \cup {"node"}, NEW l, Goto(t, l),
             t = "node" => l[1] \notin {"get", "set"}
      PROVE  pc'["cli"] = pc["cli"] /\ StepBeside
  BY <1>1, <1>2, <1>4, Moved DEF StepBeside
<1>5. ASSUME NEW t \in Session \cup {"node"}, serverOptions(t) \/ Listen(t)
      PROVE  Beside
  <2>1. db' = db /\ mem' = mem
    BY <1>5, Zenon DEF serverOptions, Listen
  <2>2. reload' => reload
    BY <1>5, Zenon DEF serverOptions, Listen
  <2>3. PICK l : Goto(t, l) /\ (t = "node" => l[1] \notin {"get", "set"})
    <3>1. ASSUME serverOptions(t)
          PROVE  /\ Goto(t, <<"listen", "">>)
                 /\ t = "node" => <<"listen", "">>[1] \notin {"get", "set"}
      BY <3>1, Zenon DEF serverOptions
    <3>2. ASSUME Listen(t)
          PROVE  Goto(t, Done(t)) /\ (t = "node" => Done(t)[1] \notin {"get", "set"})
      BY <3>2, Zenon DEF Listen, Done
    <3>3. QED
      BY <1>5, <3>1, <3>2, Zenon
  <2>4. pc'["cli"] = pc["cli"] /\ StepBeside
    BY <1>4, <2>3, Zenon
  <2>5. StoreBeside /\ MemoryBeside
    BY <2>1, Zenon DEF StoreBeside, MemoryBeside
  <2>6. CommandBeside
    BY <2>2, <2>4, Zenon DEF CommandBeside
  <2>7. QED
    BY <2>4, <2>5, <2>6, Zenon DEF Beside
<1>6. ASSUME NEW t \in Session,
             RotateReality(t) \/ PutShortID(t) \/ InstallShortID(t) \/ Close(t)
      PROVE  Beside
  <2>1. PICK l : Goto(t, l)
    BY <1>6, Zenon DEF RotateReality, PutShortID, InstallShortID, Close
  <2>2. reload' => reload
    BY <1>6, Zenon DEF RotateReality, PutShortID, InstallShortID, Close
  <2>3. new[t] # 0 \/ ~(PutShortID(t) \/ InstallShortID(t))
    <3>1. ASSUME pc[t] = <<"put", "short">> \/ pc[t] = <<"install", "short">>
          PROVE  new[t] # 0
      <4>1. pc[t][1] = "put" \/ pc[t][1] = "install"
        BY <3>1, Verb, Zenon
      <4>2. QED
        BY <4>1, Zenon DEF SecretsInv, ShortInv
    <3>2. QED
      BY <3>1, Zenon DEF PutShortID, InstallShortID
  <2>4. StoreBeside
    <3>1. CASE db' = db
      BY <3>1, Zenon DEF StoreBeside
    <3>2. CASE db' = [db EXCEPT !["short"] = new[t]] /\ PutShortID(t)
      BY <1>1, <1>2, <2>3, <3>2, Written DEF StoreBeside
    <3>3. QED
      BY <1>6, <3>1, <3>2, Zenon DEF RotateReality, PutShortID, InstallShortID, Close
  <2>5. MemoryBeside
    <3>1. CASE mem' = mem
      BY <3>1, Zenon DEF MemoryBeside
    <3>2. CASE Take("node", "short", new[t]) /\ InstallShortID(t)
      BY <1>1, <1>2, <2>3, <3>2, Taken DEF MemoryBeside
    <3>3. QED
      BY <1>6, <3>1, <3>2, Zenon DEF RotateReality, PutShortID, InstallShortID, Close, Take
  <2>6. pc'["cli"] = pc["cli"] /\ StepBeside
    BY <1>1, <1>4, <2>1, Zenon
  <2>7. CommandBeside
    BY <2>2, <2>6, Zenon DEF CommandBeside
  <2>8. QED
    BY <2>4, <2>5, <2>6, <2>7, Zenon DEF Beside
<1>7. QED
  BY <1>3, <1>5, <1>6, Zenon

(* A process begins to load: it may, when the other one is not creating    *)
(* a pair.                                                                 *)
LEMMA LoadBegins ==
    ASSUME SecretsInv, StoreBeside,
           NEW p \in Process, NEW s \in {"wgPriv", "priv"}, p = "cli" => s = "priv",
           Goto(p, <<"get", s>>),
           \A q \in Process \ {p} :
               /\ mem'[q] = mem[q]
               /\ Loading(q) => NonZero'
               /\ \A u \in Paired : pc[q] # <<"set", u>>,
           reload' => NonZero'
    PROVE  PairsInv'
<1>1. PICK q \in Process : Process = {p, q} /\ q # p
  BY Zenon DEF Process
<1>2. pc'[p] = <<"get", s>> /\ pc'[q] = pc[q]
  BY <1>1, Moved DEF SecretsInv, Thread
<1>3. pc'[p][1] = "get" /\ pc'[p][2] = s
  BY <1>2, Verb
<1>4. /\ mem'[q] = mem[q] /\ (Loading(q) => NonZero')
      /\ \A u \in Paired : pc[q] # <<"set", u>>
  BY <1>1, Zenon
<1>5. Loading(q)' <=> Loading(q)
  BY <1>2, Zenon DEF Loading
<1>6. SetInv'
  <2>1. Knows(p)'
    BY <1>2 DEF Knows
  <2>2. Knows(q)'
    <3>1. Knows(q)
      BY Zenon DEF SecretsInv, SetInv
    <3>2. \A u \in Paired \cup WireGuard : db'[u] = db[u]
      BY StoreKept, Zenon
    <3>3. QED
      BY <1>2, <1>4, <3>1, <3>2, ZenonT(30) DEF Knows, Paired, WireGuard
  <2>3. QED
    BY <1>1, <2>1, <2>2, Zenon DEF SetInv
<1>7. NonZero => NonZero'
  BY StoreKept, Zenon
<1>8. AloneInv'
  <2>1. (Loading("node") /\ Loading("cli") => NonZero)'
    BY <1>1, <1>4, <1>5, Zenon DEF Process
  <2>2. pc'["cli"][1] \in {"archive", "rotate", "record", "expire"} => NonZero'
    <3>1. CASE p = "cli"
      BY <1>3, <3>1, Zenon
    <3>2. CASE q = "cli"
      BY <1>2, <1>7, <3>2, Zenon DEF AloneInv, SecretsInv
    <3>3. QED
      BY <1>1, <3>1, <3>2, Zenon DEF Process
  <2>3. \A u \in Paired : pc'[p] # <<"set", u>> /\ pc'[q] # <<"set", u>>
    BY <1>2, <1>4
  <2>4. QED
    BY <1>1, <2>1, <2>2, <2>3, Zenon DEF AloneInv, Process
<1>9. OrderInv'
  <2>1. CASE p = "cli"
    BY <1>3, <2>1, Zenon DEF OrderInv, Ordered
  <2>2. CASE q = "cli"
    <3>1. {"priv", "short", "uuid", "pass"} \subseteq Setting
      BY SettingParts, Zenon DEF Carrier, Paired
    <3>2. \A u \in Setting : db[u] # 0 => db'[u] # 0
      BY StoreKept, Zenon
    <3>3. QED
      BY <1>2, <1>5, <2>2, <3>1, <3>2, Zenon DEF OrderInv, Ordered, SecretsInv
  <2>3. QED
    BY <1>1, <2>1, <2>2, Zenon DEF Process
<1>10. PairsMatch'
  BY StoreKept, Zenon
<1>11. QED
  BY <1>6, <1>8, <1>9, <1>10, Zenon DEF PairsInv

(* The node boots, or goes on without WireGuard or without carriers.       *)
LEMMA NodeBegins ==
    ASSUME FirstAlone, SecretsInv, Boot \/ LoadFails
    PROVE  PairsInv'
<1> USE DEF World, carriers, rest
<1>1. /\ "node" \in Process /\ "cli" \in Process /\ Process \ {"node"} = {"cli"}
      /\ "node" \in Thread /\ "cli" \in Thread
  BY Zenon DEF Process, Thread
<1>2. db' = db
  BY Zenon DEF Boot, LoadFails
<1>3. TypeOK /\ StoreBeside
  BY <1>2, Zenon DEF StoreBeside, SecretsInv
<1>4. reload' => reload
  BY Zenon DEF Boot, LoadFails
<1>5. reload' => NonZero'
  <2>1. reload => NonZero
    BY Zenon DEF SecretsInv, AloneInv
  <2>2. NonZero => NonZero'
    BY <1>3, StoreKept, Zenon
  <2>3. QED
    BY <1>4, <2>1, <2>2, Zenon
<1>6. mem'["cli"] = mem["cli"]
  BY <1>1, <1>3, Zenon DEF Boot, LoadFails, TypeOK
<1>7. CASE Boot
  <2>1. Loading("cli") => \A s \in Setting : db[s] # 0
    BY <1>7, Zenon DEF Boot, MayLoad
  <2>2. Loading("cli") => NonZero'
    BY <1>2, <2>1, SettingParts, Zenon DEF NonZero
  <2>3. ASSUME NEW u \in Paired, pc["cli"] = <<"set", u>>
        PROVE  FALSE
    <3>1. Loading("cli")
      BY <2>3, Verb, Zenon DEF Loading
    <3>2. db["priv"] # 0 /\ db["pub"] # 0 /\ db["certKey"] # 0
      BY <2>1, <3>1, SettingParts, Zenon DEF Paired
    <3>3. Knows("cli")
      BY <1>1, Zenon DEF SecretsInv, SetInv
    <3>4. QED
      BY <2>3, <3>2, <3>3, Zenon DEF Knows, Paired
  <2>4. Goto("node", <<"get", "wgPriv">>)
    BY <1>7, Zenon DEF Boot
  <2>5. QED
    BY <1>1, <1>3, <1>5, <1>6, <2>2, <2>3, <2>4, LoadBegins
<1>8. CASE LoadFails
  <2>1. Loading("node")
    BY <1>8, Zenon DEF LoadFails
  <2>2. Loading("cli") => NonZero'
    BY <1>3, <2>1, StoreKept, Zenon DEF SecretsInv, AloneInv
  <2>3. \A u \in Paired : pc["cli"] # <<"set", u>>
    BY <2>1, Zenon DEF SecretsInv, AloneInv
  <2>4. CASE Goto("node", <<"get", "priv">>)
    BY <1>1, <1>3, <1>5, <1>6, <2>2, <2>3, <2>4, LoadBegins
  <2>5. CASE Goto("node", <<"up", "">>)
    <3>1. pc'["node"] = <<"up", "">> /\ pc'["cli"] = pc["cli"]
      BY <1>1, <1>3, <2>5, Moved, Zenon
    <3>2. pc'["node"][1] = "up"
      BY <3>1, Verb, Zenon
    <3>3. pc'["node"][1] \notin {"get", "set"}
      BY <3>2, Zenon
    <3>4. StepBeside /\ MemoryBeside
      BY <1>6, <3>1, <3>3, Zenon DEF StepBeside, MemoryBeside, Process
    <3>5. CommandBeside
      BY <1>4, <3>1, Zenon DEF CommandBeside
    <3>6. QED
      BY <1>3, <3>4, <3>5, BesideLoads, Zenon DEF Beside
  <2>6. QED
    BY <1>8, <2>4, <2>5, Zenon DEF LoadFails
<1>9. QED
  BY <1>7, <1>8, Zenon

(* The steps of the command besides its loads, and time.                   *)
LEMMA CommandKeeps ==
    ASSUME FirstAlone, SecretsInv,
           \/ RotateCarriers \/ DeactivateExpiredCarrierCredentials \/ Abort \/ Elapse
           \/ \E s \in Carrier : archiveCurrent(s) \/ RotateAllSecrets(s) \/ RecordNew(s)
    PROVE  PairsInv'
<1> USE DEF World, carriers, rest
<1>1. /\ "node" \in Process /\ "cli" \in Process /\ Process \ {"cli"} = {"node"}
      /\ "node" \in Thread /\ "cli" \in Thread
  BY Zenon DEF Process, Thread
<1>2. TypeOK
  BY Zenon DEF SecretsInv
<1>3. CASE RotateCarriers
  <2>1. db' = db /\ mem' = mem /\ Goto("cli", <<"get", "priv">>)
    BY <1>3, Zenon DEF RotateCarriers
  <2>2. StoreBeside
    BY <2>1, Zenon DEF StoreBeside
  <2>3. Loading("node") => \A s \in Setting : db[s] # 0
    BY <1>3, Zenon DEF RotateCarriers, MayLoad
  <2>4. Loading("node") => NonZero'
    BY <2>1, <2>3, SettingParts, Zenon DEF NonZero
  <2>5. ASSUME NEW u \in Paired, pc["node"] = <<"set", u>>
        PROVE  FALSE
    <3>1. Loading("node")
      BY <2>5, Verb, Zenon DEF Loading
    <3>2. db["priv"] # 0 /\ db["pub"] # 0 /\ db["certKey"] # 0
      BY <2>3, <3>1, SettingParts, Zenon DEF Paired
    <3>3. Knows("node")
      BY <1>1, Zenon DEF SecretsInv, SetInv
    <3>4. QED
      BY <2>5, <3>2, <3>3, Zenon DEF Knows, Paired
  <2>6. reload' => NonZero'
    <3>1. reload => NonZero
      BY Zenon DEF SecretsInv, AloneInv
    <3>2. NonZero => NonZero'
      BY <2>2, StoreKept, Zenon
    <3>3. reload' => reload
      BY <1>3, Zenon DEF RotateCarriers
    <3>4. QED
      BY <3>1, <3>2, <3>3, Zenon
  <2>7. QED
    BY <1>1, <2>1, <2>2, <2>4, <2>5, <2>6, LoadBegins
<1>4. ASSUME db' = db, mem'["node"] = mem["node"], NEW l, Goto("cli", l),
             l[1] \notin {"get", "set"},
             \/ ~reload' /\ pc'["cli"] = <<"idle", "">>
             \/ NonZero' /\ pc["cli"] # <<"idle", "">>
      PROVE  PairsInv'
  <2>1. pc'["cli"] = l /\ pc'["node"] = pc["node"]
    BY <1>1, <1>2, <1>4, Moved, Zenon
  <2>2. StoreBeside
    BY <1>4, Zenon DEF StoreBeside
  <2>3. StepBeside /\ MemoryBeside
    BY <1>4, <2>1, Zenon DEF StepBeside, MemoryBeside, Process
  <2>4. CommandBeside
    BY <1>4, Zenon DEF CommandBeside
  <2>5. QED
    BY <2>2, <2>3, <2>4, BesideLoads, Zenon DEF Beside
<1>5. CASE DeactivateExpiredCarrierCredentials \/ Abort
  <2>1. db' = db /\ Exit
    BY <1>5, Zenon DEF DeactivateExpiredCarrierCredentials, Abort
  <2>2. mem'["node"] = mem["node"]
    BY <1>1, <1>2, <2>1, Zenon DEF Exit, TypeOK
  <2>3. Goto("cli", <<"idle", "">>) /\ ~reload'
    BY <2>1, Zenon DEF Exit
  <2>4. pc'["cli"] = <<"idle", "">>
    BY <1>1, <1>2, <2>3, Moved, Zenon
  <2>5. <<"idle", "">>[1] \notin {"get", "set"}
    BY Zenon
  <2>6. QED
    BY <1>4, <2>1, <2>2, <2>3, <2>4, <2>5, Zenon
<1>6. ASSUME NEW s \in Carrier, archiveCurrent(s) \/ RecordNew(s)
      PROVE  PairsInv'
  <2>1. db' = db /\ mem' = mem
    BY <1>6, Zenon DEF archiveCurrent, RecordNew
  <2>2. PICK v \in {"archive", "record"} : pc["cli"] = <<v, s>>
    BY <1>6, Zenon DEF archiveCurrent, RecordNew
  <2>3. pc["cli"][1] = v
    BY <2>2, Verb, Zenon
  <2>4. NonZero'
    BY <2>1, <2>3, Zenon DEF SecretsInv, AloneInv, NonZero
  <2>5. pc["cli"] # <<"idle", "">>
    <3>1. pc["cli"] = <<"idle", "">> => pc["cli"][1] = "idle"
      BY IdleVerb, Zenon
    <3>2. QED
      BY <2>3, <3>1, Zenon
  <2>6. ASSUME NEW e, e[1] \notin {"get", "set"}, NEW w \in {"archive", "record"}
        PROVE  NextRow(w, s, e)[1] \notin {"get", "set"}
    BY <2>6, Zenon DEF NextRow, Carrier
  <2>7. /\ NextRow("archive", s, <<"rotate", "uuid">>)[1] \notin {"get", "set"}
        /\ NextRow("record", s, <<"expire", "">>)[1] \notin {"get", "set"}
    <3>1. <<"rotate", "uuid">>[1] \notin {"get", "set"} /\ <<"expire", "">>[1] \notin {"get", "set"}
      BY Zenon
    <3>2. QED
      BY <2>6, <3>1, Zenon
  <2>8. \/ Goto("cli", NextRow("archive", s, <<"rotate", "uuid">>))
        \/ Goto("cli", NextRow("record", s, <<"expire", "">>))
    BY <1>6, Zenon DEF archiveCurrent, RecordNew
  <2>9. QED
    BY <1>4, <2>1, <2>4, <2>5, <2>7, <2>8, Zenon
<1>7. ASSUME NEW s \in Carrier, RotateAllSecrets(s)
      PROVE  PairsInv'
  <2>1. s \in Setting
    BY SettingParts, Zenon
  <2>2. gen[s] + 1 # 0
    <3>1. gen[s] \in Nat
      BY <1>2, <2>1, Zenon DEF TypeOK
    <3>2. QED
      BY <3>1
  <2>3. StoreBeside /\ mem' = mem
    <3>1. db' = [db EXCEPT ![s] = gen[s] + 1] /\ mem' = mem
      BY <1>7, Zenon DEF RotateAllSecrets
    <3>2. db'[s] = gen[s] + 1 /\ \A u \in Setting \ {s} : db'[u] = db[u]
      BY <1>2, <2>1, <3>1, Written, Zenon
    <3>3. QED
      BY <2>2, <3>1, <3>2, Zenon DEF StoreBeside
  <2>4. pc["cli"] = <<"rotate", s>> /\ Goto("cli", NextSecret(s))
    BY <1>7, Zenon DEF RotateAllSecrets
  <2>5. pc["cli"][1] = "rotate"
    BY <2>4, Verb, Zenon
  <2>6. NonZero
    BY <2>5, Zenon DEF SecretsInv, AloneInv
  <2>7. NonZero'
    BY <2>3, <2>6, StoreKept, Zenon
  <2>8. pc["cli"] # <<"idle", "">>
    <3>1. pc["cli"] = <<"idle", "">> => pc["cli"][1] = "idle"
      BY IdleVerb, Zenon
    <3>2. QED
      BY <2>5, <3>1, Zenon
  <2>9. CASE s = "pass"
    <3>1. Goto("cli", <<"get", "priv">>)
      BY <2>4, <2>9, Zenon DEF NextSecret
    <3>2. \A u \in Paired : pc["node"] # <<"set", u>>
      BY <2>8, Zenon DEF SecretsInv, AloneInv
    <3>3. QED
      BY <1>1, <2>3, <2>7, <3>1, <3>2, LoadBegins, ZenonT(30)
  <2>10. CASE s # "pass"
    <3>1. NextSecret(s)[1] \notin {"get", "set"}
      BY <2>10, Zenon DEF NextSecret, Carrier
    <3>2. pc'["cli"] = NextSecret(s) /\ pc'["node"] = pc["node"]
      BY <1>1, <1>2, <2>4, Moved, Zenon
    <3>3. StepBeside /\ MemoryBeside
      BY <2>3, <3>1, <3>2, Zenon DEF StepBeside, MemoryBeside, Process
    <3>4. CommandBeside
      BY <2>7, <2>8, Zenon DEF CommandBeside
    <3>5. QED
      BY <2>3, <3>3, <3>4, BesideLoads, Zenon DEF Beside
  <2>11. QED
    BY <2>9, <2>10, Zenon
<1>8. CASE Elapse
  <2>1. db' = db /\ mem' = mem /\ pc' = pc
    BY <1>8, Zenon DEF Elapse
  <2>2. reload' => reload
    BY <1>8, Zenon DEF Elapse
  <2>3. StoreBeside /\ StepBeside /\ MemoryBeside
    BY <2>1, Zenon DEF StoreBeside, StepBeside, MemoryBeside
  <2>4. CommandBeside
    BY <2>1, <2>2, Zenon DEF CommandBeside
  <2>5. QED
    BY <2>3, <2>4, BesideLoads, Zenon DEF Beside
<1>9. QED
  BY <1>3, <1>5, <1>6, <1>7, <1>8, Zenon

-----------------------------------------------------------------------------
(* Loading                                                                 *)

(* The other process, while p loads.                                       *)
LEMMA OtherKnows ==
    ASSUME SecretsInv, NEW q \in Process, pc'[q] = pc[q], mem'[q] = mem[q],
           \/ ~Loading(q)
           \/ \A u \in Paired : db'[u] = db[u] /\ q = "cli"
           \/ \A u \in Paired \cup WireGuard : db'[u] = db[u]
    PROVE  Knows(q)'
<1>1. Knows(q)
  BY Zenon DEF SecretsInv, SetInv
<1>2. CASE ~Loading(q)
  <2>1. ASSUME NEW s, pc'[q] = <<"get", s>> \/ pc'[q] = <<"set", s>>
        PROVE  FALSE
    <3>1. pc[q][1] = "get" \/ pc[q][1] = "set"
      BY <2>1, Verb
    <3>2. QED
      BY <1>2, <3>1, Zenon DEF Loading
  <2>2. QED
    BY <2>1, Zenon DEF Knows
<1>3. CASE \A u \in Paired : db'[u] = db[u] /\ q = "cli"
  <2>1. q = "cli"
    BY <1>3, Zenon DEF Paired
  <2>2. pc["cli"] \in CommandStep
    BY Zenon DEF SecretsInv, TypeOK
  <2>3. \A u \in WireGuard : <<"set", u>> \notin CommandStep
    BY Zenon DEF CommandStep, Carrier
  <2>4. pc["cli"] # <<"set", "wgPriv">> /\ pc["cli"] # <<"set", "wgPub">>
    BY <2>2, <2>3, Zenon DEF WireGuard
  <2>5. QED
    BY <1>1, <1>3, <2>1, <2>4, ZenonT(30) DEF Knows, Paired
<1>4. CASE \A u \in Paired \cup WireGuard : db'[u] = db[u]
  BY <1>1, <1>4, ZenonT(30) DEF Knows, Paired, WireGuard
<1>5. QED
  BY <1>2, <1>3, <1>4, Zenon

(* A process that finds something missing is the only one at work.         *)
LEMMA CreatesAlone ==
    ASSUME SecretsInv, NEW p \in Process, NEW q \in Process, q # p, Loading(p), ~NonZero
    PROVE  ~Loading(q) /\ (p = "node" => pc[q] = <<"idle", "">>)
<1>1. ~Loading(q)
  <2>1. Loading("node") /\ Loading("cli") => NonZero
    BY Zenon DEF SecretsInv, AloneInv
  <2>2. (p = "node" /\ q = "cli") \/ (p = "cli" /\ q = "node")
    BY Zenon DEF Process
  <2>3. QED
    BY <2>1, <2>2, Zenon
<1>2. ASSUME p = "node"
      PROVE  pc[q] = <<"idle", "">>
  <2>1. q = "cli" /\ pc["cli"] \in CommandStep
    BY <1>2, Zenon DEF Process, SecretsInv, TypeOK
  <2>2. pc["cli"][1] \notin {"archive", "rotate", "record", "expire"}
    BY Zenon DEF SecretsInv, AloneInv
  <2>3. ASSUME NEW c \in CommandStep, c[1] \notin {"get", "set"},
               c[1] \notin {"archive", "rotate", "record", "expire"}
        PROVE  c = <<"idle", "">>
    <3>1. PICK A, B : A = {"idle", "expire"} /\ B = {""}
      BY Zenon
    <3>2. c \in {"idle", "expire"} \X {""}
      BY <2>3, Zenon DEF CommandStep
    <3>3. c \in A \X B
      BY <3>1, <3>2, Zenon
    <3>4. PICK w \in A, e \in B : c = <<w, e>>
      BY <3>3, InProduct
    <3>5. c[1] = w
      BY <3>4, Verb, Zenon
    <3>6. w = "idle" /\ e = ""
      BY <2>3, <3>1, <3>5, Zenon
    <3>7. QED
      BY <3>4, <3>6, Zenon
  <2>4. QED
    BY <1>1, <2>1, <2>2, <2>3, Zenon DEF Loading
<1>3. QED
  BY <1>1, <1>2, Zenon

(* A step of a load, from what it does to the process itself and to what   *)
(* is stored.                                                              *)
LEMMA LoadMoves ==
    ASSUME SecretsInv, NEW p \in Process, NEW q \in Process, q # p, Loading(p),
           NEW v, NEW s, Goto(p, <<v, s>>), mem'[q] = mem[q], reload' => reload,
           \A u \in Setting : db[u] # 0 => db'[u] # 0,
           PairsMatch', Knows(p)', Knows(q)',
           p = "cli" /\ v \in {"archive", "rotate", "record", "expire"} => NonZero',
           p = "cli" /\ v \in {"get", "set"} => Ordered(s)',
           v = "set" /\ s \in Paired => ~Loading(q) /\ (p = "node" => pc[q] = <<"idle", "">>)
    PROVE  PairsInv'
<1>1. Process = {p, q} /\ Process = {"node", "cli"}
  BY Zenon DEF Process
<1>2. pc'[p] = <<v, s>> /\ pc'[q] = pc[q]
  BY <1>1, Moved, Zenon DEF SecretsInv, Thread
<1>3. pc'[p][1] = v /\ pc'[p][2] = s
  BY <1>1, MovedTo, Zenon DEF SecretsInv, Thread
<1>4. Loading(q)' <=> Loading(q)
  BY <1>2, Zenon DEF Loading
<1>5. NonZero => NonZero'
  BY SettingParts, Zenon DEF NonZero
<1>6. AloneInv'
  <2>1. (Loading("node") /\ Loading("cli") => NonZero)'
    BY <1>1, <1>4, <1>5, Zenon DEF SecretsInv, AloneInv
  <2>2. reload' => NonZero'
    <3>1. reload => NonZero
      BY Zenon DEF SecretsInv, AloneInv
    <3>2. QED
      BY <1>5, <3>1, Zenon
  <2>3. pc'["cli"][1] \in {"archive", "rotate", "record", "expire"} => NonZero'
    <3>1. CASE p = "cli"
      BY <1>3, <3>1, Zenon
    <3>2. CASE q = "cli"
      BY <1>2, <1>5, <3>2, Zenon DEF SecretsInv, AloneInv
    <3>3. QED
      BY <1>1, <3>1, <3>2, Zenon
  <2>4. ASSUME NEW u \in Paired, pc'[p] = <<"set", u>>
        PROVE  ~Loading(q)' /\ (p = "node" => pc'[q] = <<"idle", "">>)
    <3>1. v = "set" /\ s = u
      BY <1>3, <2>4, Verb, ZenonT(60)
    <3>2. QED
      BY <1>2, <1>4, <3>1, Zenon
  <2>5. ASSUME NEW u \in Paired, pc'[q] = <<"set", u>>
        PROVE  FALSE
    <3>1. pc[q] = <<"set", u>>
      BY <1>2, <2>5, Zenon
    <3>2. CASE q = "cli"
      BY <1>1, <3>1, <3>2, Zenon DEF SecretsInv, AloneInv
    <3>3. CASE q = "node"
      <4>1. pc["cli"] = <<"idle", "">> /\ p = "cli"
        BY <1>1, <3>1, <3>3, Zenon DEF SecretsInv, AloneInv
      <4>2. pc["cli"][1] = "idle"
        BY <4>1, Verb, ZenonT(30)
      <4>3. QED
        BY <4>1, <4>2, Zenon DEF Loading
    <3>4. QED
      BY <1>1, <3>2, <3>3, Zenon
  <2>6. \A u \in Paired : pc'["node"] = <<"set", u>> => pc'["cli"] = <<"idle", "">>
    BY <1>1, <2>4, <2>5, Zenon
  <2>7. \A u \in Paired : pc'["cli"] = <<"set", u>> => ~Loading("node")'
    BY <1>1, <2>4, <2>5, Zenon
  <2>8. QED
    BY <2>1, <2>2, <2>3, <2>6, <2>7, Zenon DEF AloneInv
<1>7. OrderInv'
  <2>1. CASE p = "cli"
    BY <1>3, <2>1, Zenon DEF OrderInv, Loading
  <2>2. CASE q = "cli"
    <3>1. {"priv", "short", "uuid", "pass"} \subseteq Setting
      BY SettingParts, Zenon DEF Carrier, Paired
    <3>2. QED
      BY <1>2, <1>4, <2>2, <3>1, Zenon DEF OrderInv, Ordered, SecretsInv
  <2>3. QED
    BY <1>1, <2>1, <2>2, Zenon
<1>8. SetInv'
  BY <1>1, Zenon DEF SetInv
<1>9. QED
  BY <1>6, <1>7, <1>8, Zenon DEF PairsInv

(* A step of a load that reads or makes a secret.                          *)
LEMMA LoadReads ==
    ASSUME SecretsInv, NEW p \in Process, NEW w \in {"get", "set"}, NEW z, pc[p] = <<w, z>>,
           NEW v, NEW s, Goto(p, <<v, s>>), db' = db, reload' => reload,
           \A q \in Process \ {p} : mem'[q] = mem[q], Knows(p)',
           p = "cli" /\ v \in {"archive", "rotate", "record", "expire"} => NonZero,
           p = "cli" /\ v \in {"get", "set"} => Ordered(s),
           v = "set" /\ s \in Paired => ~NonZero
    PROVE  PairsInv'
<1>1. PICK q \in Process : q # p /\ mem'[q] = mem[q]
  BY Zenon DEF Process
<1>2. pc'[q] = pc[q]
  BY <1>1, Moved, Zenon DEF SecretsInv, Thread
<1>3. Loading(p)
  BY Verb, ZenonT(30) DEF Loading
<1>4. Knows(q)'
  BY <1>1, <1>2, OtherKnows, Zenon
<1>5. PairsMatch' /\ (NonZero => NonZero') /\ (Ordered(s) => Ordered(s)')
  BY Zenon DEF SecretsInv, PairsMatch, NonZero, Ordered
<1>6. v = "set" /\ s \in Paired => ~Loading(q) /\ (p = "node" => pc[q] = <<"idle", "">>)
  BY <1>1, <1>3, CreatesAlone, Zenon
<1>7. QED
  BY <1>1, <1>3, <1>4, <1>5, <1>6, LoadMoves, Zenon

(* A step of a load that writes a secret.                                  *)
LEMMA LoadWrites ==
    ASSUME SecretsInv, NEW p \in Process, NEW z \in Setting, pc[p] = <<"set", z>>,
           NEW x, x # 0, db' = [db EXCEPT ![z] = x], mem' = mem, reload' => reload,
           NEW v, NEW s, Goto(p, <<v, s>>), PairsMatch', Knows(p)',
           p = "cli" => z \notin WireGuard,
           p = "cli" /\ v \in {"archive", "rotate", "record", "expire"} => NonZero',
           p = "cli" /\ v \in {"get", "set"} => Ordered(s)',
           v = "set" /\ s \in Paired => z \in Paired
    PROVE  PairsInv'
<1>1. PICK q \in Process : q # p /\ Process = {p, q}
  BY Zenon DEF Process
<1>2. pc'[q] = pc[q] /\ mem'[q] = mem[q]
  BY <1>1, Moved DEF SecretsInv, Thread
<1>3. Loading(p)
  BY Verb, Zenon DEF Loading
<1>4. db'[z] = x /\ \A u \in Setting \ {z} : db'[u] = db[u]
  BY Written, Zenon DEF SecretsInv
<1>5. z \in Paired => ~Loading(q) /\ (p = "node" => pc[q] = <<"idle", "">>)
  <2>1. CASE p = "node"
    <3>1. q = "cli" /\ (z \in Paired => pc["cli"] = <<"idle", "">>)
      BY <1>1, <2>1, Zenon DEF SecretsInv, AloneInv, Process
    <3>2. pc["cli"] = <<"idle", "">> => pc["cli"][1] = "idle"
      BY IdleVerb, Zenon
    <3>3. QED
      BY <3>1, <3>2, Zenon DEF Loading
  <2>2. CASE p = "cli"
    BY <1>1, <2>2, Zenon DEF SecretsInv, AloneInv, Process
  <2>3. QED
    BY <2>1, <2>2, Zenon DEF Process
<1>6. Knows(q)'
  <2>1. CASE z \in Paired
    BY <1>1, <1>2, <1>5, <2>1, OtherKnows, Zenon
  <2>2. CASE z \in WireGuard
    <3>1. q = "cli" /\ \A u \in Paired : db'[u] = db[u]
      BY <1>1, <1>4, <2>2, SettingParts, Zenon DEF Process, Paired, WireGuard
    <3>2. QED
      BY <1>1, <1>2, <3>1, OtherKnows, Zenon
  <2>3. CASE z \in Carrier
    <3>1. \A u \in Paired \cup WireGuard : db'[u] = db[u]
      BY <1>4, <2>3, SettingParts, Zenon
    <3>2. QED
      BY <1>1, <1>2, <3>1, OtherKnows, Zenon
  <2>4. QED
    BY <2>1, <2>2, <2>3, Zenon DEF Setting, Paired
<1>7. \A u \in Setting : db[u] # 0 => db'[u] # 0
  BY <1>4, Zenon
<1>8. QED
  BY <1>1, <1>2, <1>3, <1>5, <1>6, <1>7, LoadMoves, Zenon

(* What the statements of a load leave alone.                              *)
LEMMA LoadFrame ==
    ASSUME NEW p \in Process, Load(p)
    PROVE  reload' => reload
<1> USE DEF World
<1>1. reload' = reload
  BY Zenon DEF Load, GetPrivate, SetPrivate, SetPublic, GetPublic, getOrSet, GetCert, GetCertKey,
         SetCert, SetCertKey, Put
<1>2. QED
  BY <1>1, Zenon

(* A process that is to store a new private key.                           *)
LEMMA KnowsNew ==
    ASSUME NEW p, NEW s \in {"wgPriv", "priv"}, pc'[p] = <<"set", s>>, mem'[p][s] # 0, db'[s] = 0
    PROVE  Knows(p)'
<1>1. \A y : pc'[p] # <<"get", y>> /\ (pc'[p] = <<"set", y>> => y = s)
  OBVIOUS
<1>2. s \notin Carrier /\ s \notin {"wgPub", "pub", "cert", "certKey"}
  BY Zenon DEF Carrier
<1>3. QED
  BY <1>1, <1>2, Zenon DEF Knows

(* The key pairs.                                                          *)
LEMMA KeysLoaded ==
    ASSUME SecretsInv, NEW p \in Process, reload' => reload,
           NEW s, NEW k, <<s, k>> \in {<<"wgPriv", "wgPub">>, <<"priv", "pub">>},
           \/ GetPrivate(p, s, k) \/ SetPrivate(p, s, k)
           \/ SetPublic(p, k, s) \/ GetPublic(p, k)
    PROVE  PairsInv'
<1>1. TypeOK /\ PairsMatch /\ Knows(p)
  BY Zenon DEF SecretsInv, SetInv
<1>2. (s = "wgPriv" /\ k = "wgPub") \/ (s = "priv" /\ k = "pub")
  BY Zenon
<1>3. /\ s \in Setting /\ k \in Setting /\ s # k
      /\ p = "cli" => s = "priv" /\ k = "pub" /\ s \notin WireGuard /\ k \notin WireGuard
  <2>1. pc[p] \in {<<"get", s>>, <<"set", s>>, <<"get", k>>, <<"set", k>>}
    BY Zenon DEF GetPrivate, SetPrivate, SetPublic, GetPublic
  <2>2. /\ s \in Setting /\ k \in Setting /\ k \in {"wgPub", "pub"}
        /\ p = "cli" => k # "wgPub" /\ {s, k} \subseteq Setting \ WireGuard
    BY <1>1, <2>1, PairOf
  <2>3. s # k
    BY <1>2, Zenon
  <2>4. p = "cli" => s = "priv" /\ k = "pub"
    BY <1>2, <2>2, Zenon
  <2>5. QED
    BY <2>2, <2>3, <2>4, Zenon
<1>4. db[s] \in Nat /\ gen[s] \in Nat /\ gen[s] + 1 # 0
  <2>1. db[s] \in Nat /\ gen[s] \in Nat
    BY <1>1, <1>3, Zenon DEF TypeOK
  <2>2. QED
    BY <2>1
<1>5. db[k] \in {0, db[s]}
  BY <1>1, <1>2, Zenon DEF PairsMatch
<1>6. p \in Thread
  BY Zenon DEF Thread
<1>7. CASE GetPrivate(p, s, k)
  <2>1. pc[p] = <<"get", s>> /\ db' = db
    BY <1>7, Zenon DEF GetPrivate
  <2>2. CASE db[s] # 0
    <3>1. Take(p, s, db[s]) /\ Goto(p, <<"get", k>>)
      BY <1>7, <2>2, Zenon DEF GetPrivate
    <3>2. \A q \in Process \ {p} : mem'[q] = mem[q]
      BY <1>1, <1>3, <3>1, Taken, Zenon
    <3>3. pc'[p] = <<"get", k>>
      BY <1>1, <1>6, <3>1, Moved, Zenon
    <3>4. Knows(p)'
      BY <1>2, <3>3 DEF Knows
    <3>5. p = "cli" => Ordered(k)
      BY <1>3, <2>2, Zenon DEF Ordered
    <3>6. QED
      BY <2>1, <3>1, <3>2, <3>4, <3>5, LoadReads, Zenon
  <2>3. CASE db[s] = 0
    <3>0. PICK g : g = gen[s] + 1 /\ g # 0
      BY <1>4, Zenon
    <3>1. Take(p, s, g) /\ Goto(p, <<"set", s>>)
      BY <1>7, <2>3, <3>0, Zenon DEF GetPrivate
    <3>2. mem'[p][s] = g /\ \A q \in Process \ {p} : mem'[q] = mem[q]
      BY <1>1, <1>3, <3>1, Taken, ZenonT(60)
    <3>3. pc'[p] = <<"set", s>>
      BY <1>1, <1>6, <3>1, Moved, Zenon
    <3>4. Knows(p)'
      BY <1>2, <2>1, <2>3, <3>0, <3>2, <3>3, KnowsNew, Zenon
    <3>5. p = "cli" => Ordered(s)
      BY <1>3, Zenon DEF Ordered
    <3>6. s \in Paired => ~NonZero
      BY <1>2, <2>3, Zenon DEF Paired, NonZero, Core
    <3>7. QED
      BY <2>1, <3>1, <3>2, <3>4, <3>5, <3>6, LoadReads, Zenon
  <2>4. QED
    BY <2>2, <2>3, Zenon
<1>8. CASE SetPrivate(p, s, k)
  <2>1. /\ pc[p] = <<"set", s>> /\ db' = [db EXCEPT ![s] = mem[p][s]] /\ mem' = mem
        /\ Goto(p, <<"set", k>>)
    BY <1>8, Zenon DEF SetPrivate, Put
  <2>2. db[s] = 0 /\ mem[p][s] # 0
    BY <1>1, <1>2, <2>1, Zenon DEF Knows
  <2>3. db'[s] = mem[p][s] /\ \A u \in Setting \ {s} : db'[u] = db[u]
    BY <1>1, <1>3, <2>1, Written, Zenon
  <2>4. db'[k] = 0
    BY <1>3, <1>5, <2>2, <2>3, Zenon
  <2>5. pc'[p] = <<"set", k>>
    BY <1>1, <1>6, <2>1, Moved, Zenon
  <2>6. Knows(p)'
    <3>1. mem'[p][s] # 0 /\ db'[s] = mem'[p][s]
      BY <2>1, <2>2, <2>3, Zenon
    <3>2. CASE s = "wgPriv" /\ k = "wgPub"
      BY <2>4, <2>5, <3>1, <3>2 DEF Knows, Carrier
    <3>3. CASE s = "priv" /\ k = "pub"
      BY <2>4, <2>5, <3>1, <3>3 DEF Knows, Carrier
    <3>4. QED
      BY <1>2, <3>2, <3>3, Zenon
  <2>7. PairsMatch'
    BY <1>1, <1>2, <2>3, <2>4, Zenon DEF PairsMatch, Setting, WireGuard
  <2>8. p = "cli" => Ordered(k)'
    BY <1>3, <2>2, <2>3, Zenon DEF Ordered
  <2>9. k \in Paired => s \in Paired
    BY <1>2, Zenon DEF Paired
  <2>10. QED
    BY <1>3, <2>1, <2>2, <2>6, <2>7, <2>8, <2>9, LoadWrites, Zenon
<1>9. CASE SetPublic(p, k, s)
  <2>1. /\ pc[p] = <<"set", k>> /\ db' = [db EXCEPT ![k] = mem[p][s]] /\ mem' = mem
        /\ Goto(p, <<"get", k>>)
    BY <1>9, Zenon DEF SetPublic, Put
  <2>2. db[s] = mem[p][s] /\ mem[p][s] # 0
    BY <1>1, <1>2, <2>1, Zenon DEF Knows
  <2>3. db'[k] = mem[p][s] /\ \A u \in Setting \ {k} : db'[u] = db[u]
    BY <1>1, <1>3, <2>1, Written, Zenon
  <2>4. pc'[p] = <<"get", k>>
    BY <1>1, <1>6, <2>1, Moved, Zenon
  <2>5. Knows(p)'
    BY <1>2, <2>4 DEF Knows
  <2>6. PairsMatch'
    BY <1>1, <1>2, <2>2, <2>3, Zenon DEF PairsMatch, Setting, WireGuard
  <2>7. p = "cli" => Ordered(k)'
    BY <1>3, <2>2, <2>3, Zenon DEF Ordered
  <2>8. QED
    BY <1>3, <2>1, <2>2, <2>5, <2>6, <2>7, LoadWrites, Zenon
<1>10. CASE GetPublic(p, k)
  <2>1. PICK v, z : /\ Goto(p, <<v, z>>) /\ v = "get" /\ z \in {"priv", "short"}
                    /\ k = "pub" => z = "short"
    BY <1>2, <1>10, Zenon DEF GetPublic, After
  <2>2. pc[p] = <<"get", k>> /\ db' = db /\ Take(p, k, db[k])
    BY <1>10, Zenon DEF GetPublic
  <2>3. \A q \in Process \ {p} : mem'[q] = mem[q]
    BY <1>1, <1>3, <2>2, Taken, Zenon
  <2>4. pc'[p] = <<v, z>>
    BY <1>1, <1>6, <2>1, Moved, Zenon
  <2>5. Knows(p)'
    <3>1. pc'[p][1] # "set" /\ pc'[p] # <<"get", "certKey">>
      BY <2>1, <2>4
    <3>2. \A y : pc'[p] # <<"set", y>>
      BY <3>1
    <3>. QED
      BY <3>1, <3>2, Zenon DEF Knows
  <2>6. p = "cli" => Ordered(z)
    <3>1. ASSUME p = "cli"
          PROVE  Ordered(k)
      <4>1. pc[p][1] = "get" /\ pc[p][2] = k
        BY <2>2, Verb
      <4>2. QED
        BY <3>1, <4>1, Zenon DEF SecretsInv, OrderInv, Loading
    <3>2. QED
      BY <1>3, <2>1, <3>1, Zenon DEF Ordered
  <2>7. QED
    BY <2>1, <2>2, <2>3, <2>5, <2>6, LoadReads, Zenon
<1>11. QED
  BY <1>7, <1>8, <1>9, <1>10, Zenon

(* What the command knows of the order at the statement it is at.          *)
LEMMA CommandOrder ==
    ASSUME SecretsInv, NEW w \in {"get", "set"}, NEW z, pc["cli"] = <<w, z>>
    PROVE  Ordered(z)
<1>1. pc["cli"][1] = w /\ pc["cli"][2] = z
  BY Verb, Zenon
<1>2. QED
  BY <1>1, Zenon DEF SecretsInv, OrderInv, Loading

(* The uuid, the password and the short id.                                *)
LEMMA CarriersLoaded ==
    ASSUME SecretsInv, NEW p \in Process, reload' => reload, NEW s \in Carrier, getOrSet(p, s)
    PROVE  PairsInv'
<1>1. TypeOK /\ PairsMatch /\ Knows(p) /\ (reload => NonZero)
  BY Zenon DEF SecretsInv, SetInv, AloneInv
<1>2. s \in Setting /\ s \notin WireGuard /\ s \notin Paired /\ p \in Thread
  BY SettingParts, Zenon DEF Thread
<1>3. gen[s] + 1 # 0
  <2>1. gen[s] \in Nat
    BY <1>1, <1>2, Zenon DEF TypeOK
  <2>2. QED
    BY <2>1
<1>4. PICK v, z : /\ After(p, s) = <<v, z>>
                  /\ \/ v = "record" /\ reload /\ p = "cli"
                     \/ /\ v = "get"
                        /\ \/ s = "short" /\ z = "uuid"
                           \/ s = "uuid" /\ z = "pass"
                           \/ s = "pass" /\ z = "cert"
  <2>1. CASE s = "short"
    BY <2>1, Zenon DEF After
  <2>2. CASE s = "uuid"
    BY <2>2, Zenon DEF After
  <2>3. CASE s = "pass" /\ p = "cli" /\ reload
    BY <2>3, Zenon DEF After
  <2>4. CASE s = "pass" /\ ~(p = "cli" /\ reload)
    BY <2>4, Zenon DEF After
  <2>5. QED
    BY <2>1, <2>2, <2>3, <2>4, Zenon DEF Carrier
<1>5. v = "record" => NonZero
  BY <1>1, <1>4, Zenon
<1>6. v \in {"get", "record"}
  BY <1>4, Zenon
<1>7. ASSUME pc'[p] = <<v, z>>
      PROVE  Knows(p)'
  BY <1>4, <1>6, <1>7 DEF Knows, Carrier
<1>8. CASE pc[p] = <<"get", s>>
  <2>0. pc[p] # <<"set", s>>
    BY <1>8, Verb
  <2>1. db' = db
    BY <1>8, <2>0, Zenon DEF getOrSet
  <2>2. p = "cli" => Ordered(s)
    BY <1>8, CommandOrder, Zenon
  <2>3. CASE db[s] # 0
    <3>1. Take(p, s, db[s]) /\ Goto(p, <<v, z>>)
      BY <1>4, <1>8, <2>0, <2>3, Zenon DEF getOrSet
    <3>2. \A q \in Process \ {p} : mem'[q] = mem[q]
      BY <1>1, <1>2, <3>1, Taken, Zenon
    <3>3. Knows(p)'
      BY <1>1, <1>2, <1>7, <3>1, Moved, Zenon
    <3>4. p = "cli" /\ v = "get" => Ordered(z)
      BY <1>4, <2>2, <2>3 DEF Ordered
    <3>5. QED
      BY <1>5, <1>6, <1>8, <2>1, <3>1, <3>2, <3>3, <3>4, LoadReads, Zenon
  <2>4. CASE db[s] = 0
    <3>1. Take(p, s, gen[s] + 1) /\ Goto(p, <<"set", s>>)
      BY <1>8, <2>0, <2>4, Zenon DEF getOrSet
    <3>2. mem'[p][s] = gen[s] + 1 /\ \A q \in Process \ {p} : mem'[q] = mem[q]
      BY <1>1, <1>2, <3>1, Taken
    <3>3. pc'[p] = <<"set", s>>
      BY <1>1, <1>2, <3>1, Moved, ZenonT(30)
    <3>4. Knows(p)'
      BY <1>2, <1>3, <3>2, <3>3 DEF Knows, Paired, WireGuard
    <3>5. QED
      BY <1>2, <1>8, <2>1, <2>2, <3>1, <3>2, <3>4, LoadReads, Zenon
  <2>5. QED
    BY <2>3, <2>4, Zenon
<1>9. CASE pc[p] = <<"set", s>>
  <2>0. pc[p] # <<"get", s>>
    BY <1>9, Verb
  <2>1. db' = [db EXCEPT ![s] = mem[p][s]] /\ mem' = mem /\ Goto(p, <<v, z>>)
    BY <1>4, <1>9, <2>0, Zenon DEF getOrSet, Put
  <2>2. mem[p][s] # 0
    BY <1>1, <1>9, Zenon DEF Knows
  <2>3. db'[s] = mem[p][s] /\ \A u \in Setting \ {s} : db'[u] = db[u]
    BY <1>1, <1>2, <2>1, Written, Zenon
  <2>4. Knows(p)'
    BY <1>1, <1>2, <1>7, <2>1, Moved, Zenon
  <2>5. PairsMatch' /\ (NonZero => NonZero')
    <3>1. StoreBeside
      BY <2>2, <2>3, Zenon DEF StoreBeside
    <3>2. QED
      BY <3>1, StoreKept, Zenon
  <2>6. p = "cli" /\ v = "get" => Ordered(z)'
    <3>1. p = "cli" => Ordered(s)
      BY <1>9, CommandOrder, Zenon
    <3>2. {"priv", "short", "uuid", "pass"} \subseteq Setting
      BY SettingParts, Zenon DEF Carrier, Paired
    <3>3. QED
      BY <1>4, <2>2, <2>3, <3>1, <3>2, Zenon DEF Ordered
  <2>7. QED
    BY <1>2, <1>5, <1>6, <1>9, <2>1, <2>2, <2>4, <2>5, <2>6, LoadWrites, Zenon
<1>10. QED
  BY <1>8, <1>9, Zenon DEF getOrSet

(* The certificate and its key.                                            *)
LEMMA CertLoaded ==
    ASSUME SecretsInv, NEW p \in Process, reload' => reload,
           GetCert(p) \/ GetCertKey(p) \/ SetCert(p) \/ SetCertKey(p)
    PROVE  PairsInv'
<1>1. TypeOK /\ PairsMatch /\ Knows(p)
  BY Zenon DEF SecretsInv, SetInv
<1>2. PICK c, k : c = "cert" /\ k = "certKey"
  BY Zenon
<1>3. /\ c \in Setting /\ k \in Setting /\ c # k /\ c \in Paired /\ k \in Paired
      /\ c \notin WireGuard /\ k \notin WireGuard /\ p \in Thread
  BY <1>2, Zenon DEF Setting, Paired, WireGuard, Carrier, Thread
<1>4. gen[c] + 1 # 0
  <2>1. gen[c] \in Nat
    BY <1>1, <1>3, Zenon DEF TypeOK
  <2>2. QED
    BY <2>1
<1>5. db[k] \in {0, db[c]}
  BY <1>1, <1>2, Zenon DEF PairsMatch
<1>6. PICK v, z : /\ After(p, k) = <<v, z>>
                  /\ v \in {"archive", "build"} /\ (v = "archive" => p = "cli")
  <2>1. CASE p = "cli"
    BY <1>2, <2>1, Zenon DEF After
  <2>2. CASE p # "cli"
    <3>1. After(p, k) = <<"build", "">>
      BY <1>2, <2>2, Zenon DEF After
    <3>2. WITNESS "build", ""
    <3>3. QED
      BY <3>1, Zenon
  <2>3. QED
    BY <2>1, <2>2, Zenon
<1>7. ASSUME pc'[p] = <<v, z>>
      PROVE  Knows(p)'
  <2>1. v # "get" /\ v # "set"
    BY <1>6, Zenon
  <2>2. \A y : pc'[p] # <<"get", y>> /\ pc'[p] # <<"set", y>>
    BY <1>7, <2>1
  <2>3. QED
    BY <2>2, Zenon DEF Knows
<1>8. ASSUME NEW w \in {"get", "set"}, NEW u \in {c, k}, pc[p] = <<w, u>>, p = "cli"
      PROVE  /\ Ordered(u) /\ db["priv"] # 0
             /\ \A s \in Carrier : db[s] # 0
  <2>1. Ordered(u)
    BY <1>8, CommandOrder, Zenon
  <2>2. QED
    BY <1>2, <2>1, Zenon DEF Ordered, Carrier
<1>9. CASE GetCert(p)
  <2>1. pc[p] = <<"get", c>> /\ db' = db /\ Take(p, c, db[c]) /\ Goto(p, <<"get", k>>)
    BY <1>2, <1>9, ZenonT(30) DEF GetCert
  <2>2. mem'[p][c] = db[c] /\ \A q \in Process \ {p} : mem'[q] = mem[q]
    BY <1>1, <1>3, <2>1, Taken
  <2>3. pc'[p] = <<"get", k>>
    BY <1>1, <1>3, <2>1, Moved, Zenon
  <2>4. Knows(p)'
    <3>1. mem'[p]["cert"] # 0 \/ db'["cert"] = 0
      BY <1>2, <2>1, <2>2, ZenonT(30)
    <3>2. \A y : pc'[p] # <<"set", y>>
      BY <2>3
    <3>3. QED
      BY <3>1, <3>2, Zenon DEF Knows
  <2>5. p = "cli" => Ordered(k)
    BY <1>2, <1>8, <2>1, Zenon DEF Ordered, Carrier
  <2>6. QED
    BY <2>1, <2>2, <2>4, <2>5, LoadReads, Zenon
<1>10. CASE GetCertKey(p) /\ mem[p][c] # 0 /\ db[k] # 0
  <2>1. pc[p] = <<"get", k>> /\ db' = db /\ Take(p, k, db[k]) /\ Goto(p, <<v, z>>)
    BY <1>2, <1>6, <1>10, Zenon DEF GetCertKey
  <2>2. \A q \in Process \ {p} : mem'[q] = mem[q]
    BY <1>1, <1>3, <2>1, Taken, Zenon
  <2>3. Knows(p)'
    BY <1>1, <1>3, <1>7, <2>1, Moved, Zenon
  <2>4. p = "cli" => NonZero
    BY <1>2, <1>5, <1>8, <1>10, <2>1, Zenon DEF NonZero, Core
  <2>5. QED
    BY <1>6, <2>1, <2>2, <2>3, <2>4, LoadReads, Zenon
<1>11. CASE GetCertKey(p) /\ (mem[p][c] = 0 \/ db[k] = 0)
  <2>1. /\ pc[p] = <<"get", k>> /\ db' = db /\ Goto(p, <<"set", c>>)
        /\ mem' = [mem EXCEPT ![p][c] = gen[c] + 1, ![p][k] = gen[c] + 1]
    BY <1>2, <1>11, Zenon DEF GetCertKey
  <2>2. /\ mem'[p][c] = gen[c] + 1 /\ mem'[p][k] = gen[c] + 1
        /\ \A q \in Process \ {p} : mem'[q] = mem[q]
    <3>1. mem \in [Process -> [Setting -> Nat]] /\ mem[p] \in [Setting -> Nat]
      BY <1>1, Zenon DEF TypeOK
    <3>2. QED
      BY <1>3, <2>1, <3>1, Zenon
  <2>3. db[k] = 0
    <3>1. mem[p][c] # 0 \/ db[c] = 0
      BY <1>1, <1>2, <2>1, Zenon DEF Knows
    <3>2. QED
      BY <1>5, <1>11, <3>1, Zenon
  <2>4. ~NonZero
    BY <1>2, <2>3, Zenon DEF NonZero, Core
  <2>5. pc'[p] = <<"set", c>>
    BY <1>1, <1>3, <2>1, Moved, Zenon
  <2>6. Knows(p)'
    BY <1>2, <1>4, <2>1, <2>2, <2>3, <2>5 DEF Knows, Carrier
  <2>7. p = "cli" => Ordered(c)
    BY <1>2, <1>8, <2>1, Zenon DEF Ordered, Carrier
  <2>8. QED
    BY <2>1, <2>2, <2>4, <2>6, <2>7, LoadReads, Zenon
<1>12. CASE SetCert(p)
  <2>1. /\ pc[p] = <<"set", c>> /\ db' = [db EXCEPT ![c] = mem[p][c]] /\ mem' = mem
        /\ Goto(p, <<"set", k>>)
    BY <1>2, <1>12, Zenon DEF SetCert, Put
  <2>2. db[k] = 0 /\ mem[p][c] # 0 /\ mem[p][k] = mem[p][c]
    BY <1>1, <1>2, <2>1, Zenon DEF Knows
  <2>3. db'[c] = mem[p][c] /\ \A u \in Setting \ {c} : db'[u] = db[u]
    BY <1>1, <1>3, <2>1, Written, Zenon
  <2>4. pc'[p] = <<"set", k>>
    BY <1>1, <1>3, <2>1, Moved, ZenonT(30)
  <2>5. Knows(p)'
    BY <1>2, <1>3, <2>1, <2>2, <2>3, <2>4 DEF Knows, Carrier
  <2>6. PairsMatch'
    BY <1>1, <1>2, <1>3, <2>2, <2>3, Zenon DEF PairsMatch, Setting, WireGuard
  <2>7. p = "cli" => Ordered(k)'
    BY <1>2, <1>8, <2>1, <2>3, Zenon DEF Ordered, Carrier, Setting
  <2>8. QED
    BY <1>3, <2>1, <2>2, <2>5, <2>6, <2>7, LoadWrites, Zenon
<1>13. CASE SetCertKey(p)
  <2>1. /\ pc[p] = <<"set", k>> /\ db' = [db EXCEPT ![k] = mem[p][k]] /\ mem' = mem
        /\ Goto(p, <<v, z>>)
    BY <1>2, <1>6, <1>13, Zenon DEF SetCertKey, Put
  <2>2. db[c] # 0 /\ mem[p][k] = db[c]
    BY <1>1, <1>2, <2>1, Zenon DEF Knows
  <2>3. db'[k] = mem[p][k] /\ \A u \in Setting \ {k} : db'[u] = db[u]
    BY <1>1, <1>3, <2>1, Written, Zenon
  <2>4. Knows(p)'
    BY <1>1, <1>3, <1>7, <2>1, Moved, Zenon
  <2>5. PairsMatch'
    BY <1>1, <1>2, <1>3, <2>2, <2>3, Zenon DEF PairsMatch, Setting, WireGuard
  <2>6. p = "cli" => NonZero'
    <3>1. \A s \in Setting : db[s] # 0 => db'[s] # 0
      BY <2>2, <2>3, Zenon
    <3>2. "priv" \in Setting
      BY Zenon DEF Setting
    <3>3. db'[c] # 0 /\ db'[k] # 0
      BY <1>3, <2>2, <2>3, Zenon
    <3>4. QED
      BY <1>2, <1>8, <2>1, <3>1, <3>2, <3>3, SettingParts, Zenon DEF NonZero, Core
  <2>7. QED
    BY <1>3, <1>6, <2>1, <2>2, <2>4, <2>5, <2>6, LoadWrites, Zenon
<1>14. QED
  BY <1>2, <1>9, <1>10, <1>11, <1>12, <1>13, Zenon DEF GetCertKey

(* The short ids of the sessions.                                          *)
LEMMA ShortKept ==
    ASSUME SecretsInv, [Next]_vars
    PROVE  ShortInv'
<1> USE DEF carriers, rest, World
<1>1. TypeOK /\ ShortInv
  BY Zenon DEF SecretsInv
<1>2. /\ Session \subseteq Thread /\ "node" \in Thread /\ "cli" \in Thread
      /\ "node" \notin Session /\ "cli" \notin Session
  BY ThreadAssumption, Zenon DEF Process, Thread
<1>3. ASSUME new' = new, \A u \in Session : pc'[u] = pc[u]
      PROVE  ShortInv'
  BY <1>1, <1>3, Zenon DEF ShortInv
<1>4. ASSUME new' = new, NEW t \in Process, NEW l, Goto(t, l)
      PROVE  ShortInv'
  BY <1>1, <1>2, <1>3, <1>4, Moved, Zenon DEF Process
<1>5. ASSUME NEW t \in Session, NEW l, Goto(t, l), \A u \in Session \ {t} : new'[u] = new[u],
             l[1] \in {"put", "install"} => new'[t] # 0
      PROVE  ShortInv'
  BY <1>1, <1>2, <1>5, Moved DEF ShortInv
<1>6. ASSUME NEW p \in Process, Load(p)
      PROVE  ShortInv'
  <2>1. new' = new
    BY <1>6, Zenon DEF Load, GetPrivate, SetPrivate, SetPublic, GetPublic, getOrSet, GetCert, GetCertKey,
                SetCert, SetCertKey, Put
  <2>2. PICK l : Goto(p, l)
    BY <1>6, Zenon DEF Load, GetPrivate, SetPrivate, SetPublic, GetPublic, getOrSet, GetCert, GetCertKey,
                SetCert, SetCertKey
  <2>3. QED
    BY <1>4, <2>1, <2>2, Zenon
<1>7. CASE Boot \/ LoadFails
  <2>1. new' = new
    BY <1>7, Zenon DEF Boot, LoadFails
  <2>2. PICK l : Goto("node", l)
    BY <1>7, Zenon DEF Boot, LoadFails
  <2>3. QED
    BY <1>4, <2>1, <2>2, Zenon DEF Process
<1>8. CASE Crash
  <2>1. \A u \in Session : pc'[u] = <<"idle", "">>
    BY <1>2, <1>8, Zenon DEF Crash
  <2>2. \A u \in Session : pc'[u][1] = "idle"
    BY <2>1, Verb, Zenon
  <2>3. QED
    BY <2>2, Zenon DEF ShortInv
<1>9. ASSUME NEW t \in Session \cup {"node"}, serverOptions(t) \/ Listen(t)
      PROVE  ShortInv'
  <2>1. new' = new
    BY <1>9, Zenon DEF serverOptions, Listen
  <2>2. ASSUME NEW l, Goto(t, l), l[1] \notin {"put", "install"}
        PROVE  ShortInv'
    <3>1. CASE t = "node"
      BY <1>4, <2>1, <2>2, <3>1, Zenon DEF Process
    <3>2. CASE t \in Session
      BY <1>5, <2>1, <2>2, <3>2, Zenon
    <3>3. QED
      BY <3>1, <3>2, Zenon
  <2>3. <<"listen", "">>[1] \notin {"put", "install"} /\ Done(t)[1] \notin {"put", "install"}
    BY Zenon DEF Done
  <2>4. QED
    BY <1>9, <2>2, <2>3, Zenon DEF serverOptions, Listen
<1>10. ASSUME NEW t \in Session
       PROVE  Done(t)[1] \notin {"put", "install"}
  BY Zenon DEF Done
<1>11. ASSUME NEW t \in Session, RotateReality(t)
       PROVE  ShortInv'
  <2>1. new' = [new EXCEPT ![t] = gen["short"] + 1] /\ Goto(t, <<"put", "short">>)
    BY <1>11, Zenon DEF RotateReality
  <2>2. gen["short"] + 1 # 0
    <3>1. gen["short"] \in Nat
      BY <1>1, Zenon DEF TypeOK, Setting, Carrier
    <3>2. QED
      BY <3>1
  <2>3. new'[t] # 0 /\ \A u \in Session \ {t} : new'[u] = new[u]
    BY <1>1, <2>1, <2>2, Zenon DEF TypeOK
  <2>4. QED
    BY <1>5, <2>1, <2>3, Zenon
<1>12. ASSUME NEW t \in Session, PutShortID(t)
       PROVE  ShortInv'
  <2>1. CASE Goto(t, <<"install", "short">>) /\ new' = new
    <3>1. pc[t][1] = "put"
      BY <1>12, Verb, Zenon DEF PutShortID
    <3>2. new[t] # 0
      BY <1>1, <3>1, Zenon DEF ShortInv
    <3>3. QED
      BY <1>5, <2>1, <3>2, Zenon
  <2>2. CASE Goto(t, Done(t)) /\ new' = [new EXCEPT ![t] = 0]
    <3>1. \A u \in Session \ {t} : new'[u] = new[u]
      BY <1>1, <2>2, Zenon DEF TypeOK
    <3>2. QED
      BY <1>5, <1>10, <2>2, <3>1, Zenon
  <2>3. QED
    BY <1>12, <2>1, <2>2, Zenon DEF PutShortID
<1>13. ASSUME NEW t \in Session, InstallShortID(t)
       PROVE  ShortInv'
  <2>1. \A u \in Session \ {t} : new'[u] = new[u]
    BY <1>1, <1>13, Zenon DEF InstallShortID, TypeOK
  <2>2. Goto(t, <<"close", "">>) \/ Goto(t, Done(t))
    BY <1>13, Zenon DEF InstallShortID
  <2>3. <<"close", "">>[1] \notin {"put", "install"}
    BY Zenon
  <2>4. QED
    BY <1>5, <1>10, <2>1, <2>2, <2>3, Zenon
<1>14. ASSUME NEW t \in Session, Close(t)
       PROVE  ShortInv'
  <2>1. new' = new /\ Goto(t, <<"build", "">>)
    BY <1>14, Zenon DEF Close
  <2>2. <<"build", "">>[1] \notin {"put", "install"}
    BY Zenon
  <2>3. QED
    BY <1>5, <2>1, <2>2, Zenon
<1>15. CASE Command
  <2>1. CASE Load("cli")
    BY <1>6, <2>1, Zenon DEF Process
  <2>2. CASE ~Load("cli")
    <3>1. new' = new
      BY <1>15, <2>2, Zenon DEF Command, RotateCarriers, DeactivateExpiredCarrierCredentials, Abort,
                         archiveCurrent, RotateAllSecrets, RecordNew
    <3>2. PICK l : Goto("cli", l)
      BY <1>15, <2>2, Zenon DEF Command, RotateCarriers, DeactivateExpiredCarrierCredentials, Abort,
                         archiveCurrent, RotateAllSecrets, RecordNew, Exit
    <3>3. QED
      BY <1>4, <3>1, <3>2, Zenon DEF Process
  <2>3. QED
    BY <2>1, <2>2, Zenon
<1>16. CASE Elapse \/ UNCHANGED vars
  <2>1. new' = new /\ pc' = pc
    BY <1>16, Zenon DEF Elapse, vars
  <2>2. QED
    BY <1>3, <2>1, Zenon
<1>17. CASE Node
  BY <1>6, <1>7, <1>8, <1>9, <1>11, <1>12, <1>13, <1>14, <1>17, Zenon DEF Node, Process
<1>18. QED
  BY <1>15, <1>16, <1>17, Zenon DEF Next

(* The inductive invariant holds throughout.                               *)
LEMMA SecretsInvariant ==
    ASSUME FirstAlone
    PROVE  Spec => []SecretsInv
<1>1. Init => SecretsInv
  BY SecretsStart, Zenon
<1>2. SecretsInv /\ [Next]_vars => SecretsInv'
  <2> SUFFICES ASSUME SecretsInv, [Next]_vars
               PROVE  SecretsInv'
    BY Zenon
  <2>1. TypeOK'
    BY SecretsTypes, Zenon DEF SecretsInv
  <2>2. ShortInv'
    BY ShortKept, Zenon
  <2>3. ASSUME NEW p \in Process, Load(p)
        PROVE  PairsInv'
    <3>1. reload' => reload
      BY <2>3, LoadFrame, Zenon
    <3>2. ASSUME NEW k \in {<<"wgPriv", "wgPub">>, <<"priv", "pub">>},
                 \/ GetPrivate(p, k[1], k[2]) \/ SetPrivate(p, k[1], k[2])
                 \/ SetPublic(p, k[2], k[1]) \/ GetPublic(p, k[2])
          PROVE  PairsInv'
      <4>1. PICK a, b : k = <<a, b>> /\ k[1] = a /\ k[2] = b
        OBVIOUS
      <4>2. QED
        BY <3>1, <3>2, <4>1, KeysLoaded
    <3>3. ASSUME NEW s \in Carrier, getOrSet(p, s)
          PROVE  PairsInv'
      BY <3>1, <3>3, CarriersLoaded, Zenon
    <3>4. CASE GetCert(p) \/ GetCertKey(p) \/ SetCert(p) \/ SetCertKey(p)
      BY <3>1, <3>4, CertLoaded, Zenon
    <3>5. QED
      BY <2>3, <3>2, <3>3, <3>4, Zenon DEF Load
  <2>4. PairsInv'
    <3>1. CASE Node
      <4>1. CASE Boot \/ LoadFails
        BY <4>1, NodeBegins, Zenon
      <4>2. CASE Load("node")
        BY <2>3, <4>2, Zenon DEF Process
      <4>3. ASSUME Beside
            PROVE  PairsInv'
        BY <4>3, BesideLoads, Zenon
      <4>4. QED
        BY <3>1, <4>1, <4>2, <4>3, ListenersBeside, Zenon DEF Node
    <3>2. CASE Command \/ Elapse
      <4>1. CASE Load("cli")
        BY <2>3, <4>1, Zenon DEF Process
      <4>2. QED
        BY <3>2, <4>1, CommandKeeps, Zenon DEF Command
    <3>3. CASE UNCHANGED vars
      <4>1. db' = db /\ mem' = mem /\ pc' = pc /\ reload' = reload
        BY <3>3, Zenon DEF vars
      <4>2. reload' => reload
        BY <4>1, Zenon
      <4>3. StoreBeside /\ StepBeside /\ MemoryBeside
        BY <4>1, Zenon DEF StoreBeside, StepBeside, MemoryBeside
      <4>4. CommandBeside
        BY <4>1, <4>2, Zenon DEF CommandBeside
      <4>5. QED
        BY <4>3, <4>4, BesideLoads, Zenon DEF Beside
    <3>4. QED
      BY <3>1, <3>2, <3>3, Zenon DEF Next
  <2>5. QED
    BY <2>1, <2>2, <2>4, Zenon DEF PairsInv, SecretsInv
<1>3. QED
  BY <1>1, <1>2, PTL DEF Spec
=============================================================================
