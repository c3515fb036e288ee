---------------------------- MODULE NodeSecrets ----------------------------
(***************************************************************************)
(* The secrets the node keeps in node_settings, from their creation to     *)
(* their rotation: the WireGuard server keys (internal/wg), the REALITY    *)
(* keys, short id, VLESS uuid, Hysteria2 password and certificate          *)
(* (internal/stealth), and carrier rotation (internal/carriers).           *)
(*                                                                         *)
(* Two processes share the database: the node, and the operator's          *)
(* "rotate carriers" command.  In the node, gateway sessions rotate the    *)
(* REALITY short id.  Every GetSetting, SetSetting and INSERT is a step.   *)
(*                                                                         *)
(* A secret is the number of its generation, 0 when the setting is empty;  *)
(* the halves of a key pair, and a certificate and its key, belong         *)
(* together when their numbers are equal.  Stealth is enabled.             *)
(***************************************************************************)
EXTENDS Integers

CONSTANTS
    Session,    \* gateway command readers of the node
    MaxGen,     \* bound on the generations of a secret, for
    MaxShort,   \* the short id one of its own
    MaxCuts,    \* bound on crashes, failures while loading and aborted commands
    FirstAlone  \* neither process loads secrets while the other may be
                \* creating some

ASSUME SecretsAssumption ==
    {MaxGen, MaxShort, MaxCuts} \subseteq Nat /\ FirstAlone \in BOOLEAN

Carrier == {"uuid", "pass", "short"}        \* what the command rotates
WireGuard == {"wgPriv", "wgPub"}
Setting == Carrier \cup WireGuard \cup {"priv", "pub", "cert", "certKey"}
Process == {"node", "cli"}
Thread == Process \cup Session

ASSUME ThreadAssumption == Session \cap Process = {}

(* What the listeners are configured with.                                 *)
Listener == Carrier \cup {"priv", "cert", "certKey"}

Nothing == [s \in Setting |-> 0]
Down == [s \in Listener |-> 0]

(* A row of carrier_credentials; grace is its expiry: none, in the future, *)
(* or past.                                                                *)
Row == [kind : Carrier, secret : Nat, grace : {"none", "running", "over"}, active : BOOLEAN]

VARIABLES
    db,         \* node_settings
    rows,       \* carrier_credentials
    gen,        \* the last generation of every secret
    mem,        \* the secrets a process has read or made
    pc,         \* the step of a thread: a verb and a setting
    new,        \* the short id a session is about to install
    opts,       \* the sing-box options a thread has built
    served,     \* the secrets the listeners accept
    running,    \* Manager.running
    cuts,       \* how often a process was cut short
    reload,     \* the command reads the settings for the second time
    foreign,    \* history: the settings that the command wrote since the
                \* node last read or wrote them
    sole,       \* history: the last RotateReality began with no other in
                \* progress
    mixed,      \* history: two overlapped, and none was alone since
    complete    \* history: the latest rotation ran to its end

rest == <<foreign, sole, mixed, complete>>
carriers == <<opts, served, running>>
vars == <<db, rows, gen, mem, pc, new, carriers, cuts, reload, rest>>

-----------------------------------------------------------------------------
(* Loading and creating, the same for both processes                       *)

Loading(p) == pc[p][1] \in {"get", "set"}

(* Process p may start to load beside the other one, q.                    *)
MayLoad(q) ==
    FirstAlone => ~Loading(q) \/ \A s \in Setting : db[s] # 0

(* Where the load goes after setting s.                                    *)
After(p, s) ==
    CASE s = "wgPub" -> <<"get", "priv">>
      [] s = "pub"   -> <<"get", "short">>
      [] s = "short" -> <<"get", "uuid">>
      [] s = "uuid"  -> <<"get", "pass">>
      [] s = "pass"  -> IF p = "cli" /\ reload THEN <<"record", "uuid">> ELSE <<"get", "cert">>
      [] s = "certKey" -> IF p = "cli" THEN <<"archive", "uuid">> ELSE <<"build", "">>

Goto(p, l) == pc' = [pc EXCEPT ![p] = l]

Take(p, s, v) == mem' = [mem EXCEPT ![p][s] = v]

Cut ==
    /\ cuts < MaxCuts
    /\ cuts' = cuts + 1

Create(s) ==
    /\ gen[s] < IF s = "short" THEN MaxShort ELSE MaxGen
    /\ gen' = [gen EXCEPT ![s] = @ + 1]

World == <<rows, new, carriers, cuts, reload, sole, mixed>>

(* Process p has read setting s.                                           *)
Known(p, s) == foreign' = IF p = "node" THEN foreign \ {s} ELSE foreign

(* Mutant: a private key without its public half is made anew.             *)
GetPrivateWhole(p, s, public) ==
    /\ pc[p] = <<"get", s>>
    /\ \/ /\ db[s] # 0 /\ db[public] # 0
          /\ Take(p, s, db[s])
          /\ Goto(p, <<"get", public>>)
          /\ UNCHANGED gen
       \/ /\ db[s] = 0 \/ db[public] = 0
          /\ Create(s)
          /\ Take(p, s, gen[s] + 1)
          /\ Goto(p, <<"set", s>>)
    /\ Known(p, s)
    /\ UNCHANGED <<db, World, complete>>

(* loadOrCreateKeys, loadOrCreateSecrets: a private key is created with    *)
(* its public half, which is stored next and then read back.               *)
GetPrivate(p, s, public) ==
    /\ pc[p] = <<"get", s>>
    /\ \/ /\ db[s] # 0
          /\ Take(p, s, db[s])
          /\ Goto(p, <<"get", public>>)
          /\ UNCHANGED gen
       \/ /\ db[s] = 0
          /\ Create(s)
          /\ Take(p, s, gen[s] + 1)
          /\ Goto(p, <<"set", s>>)
    /\ Known(p, s)
    /\ UNCHANGED <<db, World, complete>>

Put(p, s, v) ==
    /\ db' = [db EXCEPT ![s] = v]
    /\ foreign' = IF p = "node" THEN foreign \ {s} ELSE foreign \cup {s}
    /\ UNCHANGED <<gen, World, complete>>

SetPrivate(p, s, public) ==
    /\ pc[p] = <<"set", s>>
    /\ Put(p, s, mem[p][s])
    /\ Goto(p, <<"set", public>>)
    /\ UNCHANGED mem

SetPublic(p, s, private) ==
    /\ pc[p] = <<"set", s>>
    /\ Put(p, s, mem[p][private])
    /\ Goto(p, <<"get", s>>)
    /\ UNCHANGED mem

GetPublic(p, s) ==
    /\ pc[p] = <<"get", s>>
    /\ Take(p, s, db[s])
    /\ Goto(p, After(p, s))
    /\ Known(p, s)
    /\ UNCHANGED <<db, gen, World, complete>>

(* Mutant: a missing secret is made and used, but not stored.              *)
getOrMake(p, s) ==
    /\ pc[p] = <<"get", s>>
    /\ \/ /\ db[s] # 0
          /\ Take(p, s, db[s])
          /\ UNCHANGED gen
       \/ /\ db[s] = 0
          /\ Create(s)
          /\ Take(p, s, gen[s] + 1)
    /\ Goto(p, After(p, s))
    /\ Known(p, s)
    /\ UNCHANGED <<db, World, complete>>

getOrSet(p, s) ==
    \/ /\ pc[p] = <<"get", s>>
       /\ \/ /\ db[s] # 0
             /\ Take(p, s, db[s])
             /\ Goto(p, After(p, s))
             /\ UNCHANGED gen
          \/ /\ db[s] = 0
             /\ Create(s)
             /\ Take(p, s, gen[s] + 1)
             /\ Goto(p, <<"set", s>>)
       /\ Known(p, s)
       /\ UNCHANGED <<db, World, complete>>
    \/ /\ pc[p] = <<"set", s>>
       /\ Put(p, s, mem[p][s])
       /\ Goto(p, After(p, s))
       /\ UNCHANGED mem

(* loadOrCreateCert: unless both halves are stored, both are made anew.    *)
GetCert(p) ==
    /\ pc[p] = <<"get", "cert">>
    /\ Take(p, "cert", db["cert"])
    /\ Goto(p, <<"get", "certKey">>)
    /\ Known(p, "cert")
    /\ UNCHANGED <<db, gen, World, complete>>

(* Mutant: a certificate without its key is kept and a key made for it.    *)
GetCertKeyAlone(p) ==
    /\ pc[p] = <<"get", "certKey">>
    /\ \/ /\ db["certKey"] # 0
          /\ Take(p, "certKey", db["certKey"])
          /\ Goto(p, After(p, "certKey"))
          /\ UNCHANGED gen
       \/ /\ db["certKey"] = 0
          /\ Create("cert")
          /\ Take(p, "certKey", gen["cert"] + 1)
          /\ Goto(p, IF mem[p]["cert"] = 0 THEN <<"set", "cert">> ELSE <<"set", "certKey">>)
    /\ Known(p, "certKey")
    /\ UNCHANGED <<db, World, complete>>

GetCertKey(p) ==
    /\ pc[p] = <<"get", "certKey">>
    /\ \/ /\ mem[p]["cert"] # 0 /\ db["certKey"] # 0
          /\ Take(p, "certKey", db["certKey"])
          /\ Goto(p, After(p, "certKey"))
          /\ UNCHANGED gen
       \/ /\ mem[p]["cert"] = 0 \/ db["certKey"] = 0
          /\ Create("cert")
          /\ mem' = [mem EXCEPT ![p]["cert"] = gen["cert"] + 1,
                                ![p]["certKey"] = gen["cert"] + 1]
          /\ Goto(p, <<"set", "cert">>)
    /\ Known(p, "certKey")
    /\ UNCHANGED <<db, World, complete>>

SetCert(p) ==
    /\ pc[p] = <<"set", "cert">>
    /\ Put(p, "cert", mem[p]["cert"])
    /\ Goto(p, <<"set", "certKey">>)
    /\ UNCHANGED mem

SetCertKey(p) ==
    /\ pc[p] = <<"set", "certKey">>
    /\ Put(p, "certKey", mem[p]["certKey"])
    /\ Goto(p, After(p, "certKey"))
    /\ UNCHANGED mem

Load(p) ==
    \/ \E k \in {<<"wgPriv", "wgPub">>, <<"priv", "pub">>} :
          GetPrivate(p, k[1], k[2]) \/ SetPrivate(p, k[1], k[2])
          \/ SetPublic(p, k[2], k[1]) \/ GetPublic(p, k[2])
    \/ \E s \in Carrier : getOrSet(p, s)
    \/ GetCert(p) \/ GetCertKey(p) \/ SetCert(p) \/ SetCertKey(p)

(* A GetSetting or SetSetting of the node fails: it goes on without        *)
(* WireGuard, or without carriers.                                         *)
LoadFails ==
    LET inWG == pc["node"][2] \in WireGuard
    IN  /\ Loading("node")
        /\ mem' = [mem EXCEPT !["node"] =
                      [s \in Setting |-> IF s \in WireGuard /\ ~inWG THEN @[s] ELSE 0]]
        /\ Goto("node", IF inWG THEN <<"get", "priv">> ELSE <<"up", "">>)
        /\ Cut
        /\ UNCHANGED <<db, gen, rows, new, carriers, reload, rest>>

-----------------------------------------------------------------------------
(* The node: boot, listeners, RotateReality                                *)

Boot ==
    /\ pc["node"] = <<"off", "">>
    /\ MayLoad("cli")
    /\ Goto("node", <<"get", "wgPriv">>)
    /\ UNCHANGED <<db, gen, mem, World, rest>>

Done(t) == IF t = "node" THEN <<"up", "">> ELSE <<"idle", "">>

(* Start: the options are rendered from the secrets in memory ...          *)
serverOptions(t) ==
    /\ pc[t] = <<"build", "">>
    /\ opts' = [opts EXCEPT ![t] = [s \in Listener |-> mem["node"][s]]]
    /\ Goto(t, <<"listen", "">>)
    /\ UNCHANGED <<db, rows, gen, mem, new, served, running, cuts, reload, rest>>

(* ... and sing-box listens with them, unless a port is taken or it fails  *)
(* for another reason.                                                     *)
Listen(t) ==
    /\ pc[t] = <<"listen", "">>
    /\ \/ /\ served = Down
          /\ served' = opts[t]
          /\ running' = TRUE
       \/ UNCHANGED <<served, running>>
    /\ opts' = [opts EXCEPT ![t] = Down]
    /\ Goto(t, Done(t))
    /\ UNCHANGED <<db, rows, gen, mem, new, cuts, reload, rest>>

(* Without a lock: another session's may be in progress.                   *)
RotateReality(t) ==
    /\ pc[t] = <<"idle", "">> /\ pc["node"] = <<"up", "">>
    /\ mem["node"]["priv"] # 0
    /\ Create("short")
    /\ sole' = \A u \in Session : pc[u] = <<"idle", "">>
    /\ mixed' = (mixed \/ ~sole')
    /\ new' = [new EXCEPT ![t] = gen["short"] + 1]
    /\ Goto(t, <<"put", "short">>)
    /\ UNCHANGED <<db, rows, mem, carriers, cuts, reload, foreign, complete>>

PutShortID(t) ==
    /\ pc[t] = <<"put", "short">>
    /\ \/ /\ db' = [db EXCEPT !["short"] = new[t]]
          /\ foreign' = foreign \ {"short"}
          /\ Goto(t, <<"install", "short">>)
          /\ UNCHANGED new
       \/ /\ Goto(t, Done(t))          \* SetSetting fails
          /\ new' = [new EXCEPT ![t] = 0]
          /\ UNCHANGED <<db, foreign>>
    /\ UNCHANGED <<rows, gen, mem, carriers, cuts, reload, sole, mixed, complete>>

(* Mutant: the listeners keep the short id they were started with.         *)
InstallWithoutRestart(t) ==
    /\ pc[t] = <<"install", "short">>
    /\ mem' = [mem EXCEPT !["node"]["short"] = new[t]]
    /\ new' = [new EXCEPT ![t] = 0]
    /\ Goto(t, Done(t))
    /\ mixed' = (mixed /\ ~sole)
    /\ UNCHANGED <<db, rows, gen, carriers, cuts, reload, sole, foreign, complete>>

InstallShortID(t) ==
    /\ pc[t] = <<"install", "short">>
    /\ mem' = [mem EXCEPT !["node"]["short"] = new[t]]
    /\ new' = [new EXCEPT ![t] = 0]
    /\ Goto(t, IF running THEN <<"close", "">> ELSE Done(t))
    /\ mixed' = (mixed /\ ~sole)
    /\ UNCHANGED <<db, rows, gen, carriers, cuts, reload, sole, foreign, complete>>

Close(t) ==
    /\ pc[t] = <<"close", "">>
    /\ served' = Down
    /\ running' = FALSE
    /\ Goto(t, <<"build", "">>)
    /\ UNCHANGED <<db, rows, gen, mem, new, opts, cuts, reload, rest>>

(* The node stops or dies; its next start is Boot.                         *)
Crash ==
    /\ pc["node"] # <<"off", "">>
    /\ pc' = [t \in Thread |-> CASE t = "cli" -> pc[t] [] t = "node" -> <<"off", "">>
                                  [] OTHER -> <<"idle", "">>]
    /\ mem' = [mem EXCEPT !["node"] = Nothing]
    /\ new' = [t \in Session |-> 0]
    /\ opts' = [t \in Session \cup {"node"} |-> Down]
    /\ served' = Down
    /\ running' = FALSE
    /\ sole' = FALSE /\ mixed' = FALSE
    /\ Cut
    /\ UNCHANGED <<db, rows, gen, reload, foreign, complete>>

-----------------------------------------------------------------------------
(* The command: Init, archiveCurrent, RotateAllSecrets, the new rows       *)

Archived(s) == [kind |-> s, secret |-> mem["cli"][s], grace |-> "running", active |-> TRUE]
Recorded(s) == [kind |-> s, secret |-> mem["cli"][s], grace |-> "none", active |-> TRUE]

(* The order in which the rows are written, and the settings.              *)
NextRow(verb, s, end) ==
    CASE s = "uuid" -> <<verb, "pass">> [] s = "pass" -> <<verb, "short">> [] s = "short" -> end

NextSecret(s) ==
    CASE s = "uuid" -> <<"rotate", "short">> [] s = "short" -> <<"rotate", "pass">>
      [] s = "pass" -> <<"get", "priv">>

RotateCarriers ==
    /\ pc["cli"] = <<"idle", "">>
    /\ MayLoad("node")
    /\ Goto("cli", <<"get", "priv">>)
    /\ UNCHANGED <<db, gen, mem, World, rest>>

archiveCurrent(s) ==
    /\ pc["cli"] = <<"archive", s>>
    /\ rows' = rows \cup {Archived(s)}
    /\ Goto("cli", NextRow("archive", s, <<"rotate", "uuid">>))
    /\ UNCHANGED <<db, gen, mem, new, carriers, cuts, reload, rest>>

RotateAllSecrets(s) ==
    /\ pc["cli"] = <<"rotate", s>>
    /\ Create(s)
    /\ db' = [db EXCEPT ![s] = gen[s] + 1]
    /\ reload' = TRUE
    /\ Goto("cli", NextSecret(s))
    /\ foreign' = foreign \cup {s}
    /\ complete' = FALSE
    /\ UNCHANGED <<rows, mem, new, carriers, cuts, sole, mixed>>

(* Mutant: the rows hold the secrets of the generation before.             *)
RecordArchived(s) ==
    /\ pc["cli"] = <<"record", s>>
    /\ rows' = rows \cup {[Recorded(s) EXCEPT !.secret = @ - 1]}
    /\ Goto("cli", NextRow("record", s, <<"expire", "">>))
    /\ UNCHANGED <<db, gen, mem, new, carriers, cuts, reload, rest>>

RecordNew(s) ==
    /\ pc["cli"] = <<"record", s>>
    /\ rows' = rows \cup {Recorded(s)}
    /\ Goto("cli", NextRow("record", s, <<"expire", "">>))
    /\ UNCHANGED <<db, gen, mem, new, carriers, cuts, reload, rest>>

Exit == /\ Goto("cli", <<"idle", "">>)
        /\ mem' = [mem EXCEPT !["cli"] = Nothing]
        /\ reload' = FALSE

(* The last step of Rotate; a failure of the UPDATE is ignored.            *)
DeactivateExpiredCarrierCredentials ==
    /\ pc["cli"] = <<"expire", "">>
    /\ \/ rows' = {[r EXCEPT !.active = @ /\ r.grace # "over"] : r \in rows}
       \/ UNCHANGED rows
    /\ Exit
    /\ complete' = TRUE
    /\ UNCHANGED <<db, gen, new, carriers, cuts, foreign, sole, mixed>>

(* A statement fails, or the operator interrupts the command.              *)
Abort ==
    /\ pc["cli"] # <<"idle", "">>
    /\ Exit
    /\ Cut
    /\ UNCHANGED <<db, rows, gen, new, carriers, rest>>

(* The grace period passes; it is hours long, a rotation takes less.       *)
Elapse ==
    /\ pc["cli"] = <<"idle", "">>
    /\ \E r \in rows : r.grace = "running"
    /\ rows' = {[r EXCEPT !.grace = IF @ = "running" THEN "over" ELSE @] : r \in rows}
    /\ UNCHANGED <<db, gen, mem, pc, new, carriers, cuts, reload, rest>>

-----------------------------------------------------------------------------
Init ==
    /\ db = Nothing
    /\ rows = {}
    /\ gen = Nothing
    /\ mem = [p \in Process |-> Nothing]
    /\ pc = [t \in Thread |-> IF t = "node" THEN <<"off", "">> ELSE <<"idle", "">>]
    /\ new = [t \in Session |-> 0]
    /\ opts = [t \in Session \cup {"node"} |-> Down]
    /\ served = Down
    /\ running = FALSE
    /\ cuts = 0
    /\ reload = FALSE
    /\ foreign = {}
    /\ sole = FALSE /\ mixed = FALSE
    /\ complete = FALSE

Node ==
    \/ Boot \/ Load("node") \/ LoadFails \/ Crash
    \/ \E t \in Session \cup {"node"} : serverOptions(t) \/ Listen(t)
    \/ \E t \in Session : RotateReality(t) \/ PutShortID(t) \/ InstallShortID(t) \/ Close(t)

Command ==
    \/ RotateCarriers \/ Load("cli") \/ DeactivateExpiredCarrierCredentials \/ Abort
    \/ \E s \in Carrier : archiveCurrent(s) \/ RotateAllSecrets(s) \/ RecordNew(s)

Next == Node \/ Command \/ Elapse

Spec == Init /\ [][Next]_vars

-----------------------------------------------------------------------------
NodeStep == ({"get", "set"} \X Setting) \cup ({"off", "build", "listen", "up"} \X {""})
CommandStep == ({"get", "set"} \X (Setting \ WireGuard))
                  \cup ({"archive", "rotate", "record"} \X Carrier)
                  \cup ({"idle", "expire"} \X {""})
SessionStep == ({"put", "install"} \X {"short"})
                  \cup ({"idle", "close", "build", "listen"} \X {""})

(* The type invariant; in particular the command never builds listeners.   *)
TypeOK ==
    /\ db \in [Setting -> Nat] /\ gen \in [Setting -> Nat]
    /\ \A r \in rows : r \in Row
    /\ mem \in [Process -> [Setting -> Nat]]
    /\ pc \in [Thread -> NodeStep \cup CommandStep \cup SessionStep]
    /\ pc["node"] \in NodeStep /\ pc["cli"] \in CommandStep
    /\ \A t \in Session : pc[t] \in SessionStep
    /\ new \in [Session -> Nat]
    /\ opts \in [Session \cup {"node"} -> [Listener -> Nat]]
    /\ served \in [Listener -> Nat]
    /\ cuts \in Nat /\ running \in BOOLEAN /\ reload \in BOOLEAN
    /\ foreign \subseteq Setting
    /\ sole \in BOOLEAN /\ mixed \in BOOLEAN /\ complete \in BOOLEAN

(* Crashes, failures and aborted commands never leave the halves of two    *)
(* different pairs in the database: the public keys clients are given      *)
(* belong to the private keys the node uses (or are missing), and a        *)
(* certificate that is reused comes with its own key.  This needs          *)
(* FirstAlone (wg.go loadOrCreateKeys, secrets.go loadOrCreateSecrets,     *)
(* tlscert.go loadOrCreateCert).                                           *)
PairsMatch ==
    /\ db["wgPub"] \in {0, db["wgPriv"]}
    /\ db["pub"] \in {0, db["priv"]}
    /\ db["certKey"] \in {0, db["cert"]}

(* The node is up, and no rotation of its own is in progress.              *)
Quiet == pc["node"] = <<"up", "">> /\ \A t \in Session : pc[t] = <<"idle", "">>

(* Whenever the carriers run and no RotateReality is in progress, they     *)
(* accept exactly the secrets that Params hands to clients, whatever the   *)
(* command, failed rotations and overlapping ones did before (stealth.go   *)
(* Start, RotateReality; profile.go Params).  Only the short id may differ *)
(* when two rotations overlapped, which no lock prevents, and then until   *)
(* the next one that is alone or the next start.                           *)
AdvertisedIsServed ==
    Quiet /\ running =>
        \A s \in Listener : served[s] = mem["node"][s] \/ (s = "short" /\ mixed)

(* They are also the stored ones, so that a restart of the node serves the *)
(* same secrets, except for those that the command wrote after the node    *)
(* had: also while a command is at work and after one that broke off       *)
(* (secrets.go getOrSet, stealth.go RotateReality).                        *)
StoredIsServed ==
    Quiet /\ running =>
        \A s \in Listener \ foreign : served[s] = db[s] \/ (s = "short" /\ mixed)

(* Once a rotation has completed, and until the next one begins to write,  *)
(* carrier_credentials holds an active row without expiry for the stored   *)
(* uuid and password (carriers/rotate.go Rotate).                          *)
OnRecord ==
    complete => \A s \in {"uuid", "pass"} :
        \E r \in rows : r.kind = s /\ r.secret = db[s] /\ r.active /\ r.grace = "none"

(* What a step may do to the settings: none is emptied, the keys stay, the *)
(* certificate stays once its key is stored, and a uuid, a password and a  *)
(* short id are replaced only by the operator's rotations.                 *)
SettingsKept ==
    /\ \A s \in Setting : db[s] # 0 => db'[s] # 0
    /\ \A s \in {"wgPriv", "wgPub", "priv", "pub"} : db[s] # 0 => db'[s] = db[s]
    /\ \A s \in {"cert", "certKey"} : db["certKey"] # 0 => db'[s] = db[s]
    /\ \A s \in {"uuid", "pass"} : db[s] # 0 /\ db'[s] # db[s] => RotateAllSecrets(s)
    /\ db["short"] # 0 /\ db'["short"] # db["short"] =>
          RotateAllSecrets("short") \/ \E t \in Session : PutShortID(t)

(* A stored secret is never lost or overwritten by a load, whatever        *)
(* crashes, failed statements and aborted commands come between: the keys  *)
(* that clients hold stay for good.  This needs FirstAlone (wg.go          *)
(* loadOrCreateKeys; secrets.go getOrSet, loadOrCreateSecrets; tlscert.go  *)
(* loadOrCreateCert).                                                      *)
StoredKept == [][SettingsKept]_vars

(* "old ones remain valid for the grace period" (nodeapp/rotate.go): a     *)
(* uuid whose archived row is active and within its grace is accepted by   *)
(* the running carriers.                                                   *)
GraceHonoured ==
    Quiet /\ running =>
        \A r \in rows : r.kind = "uuid" /\ r.active /\ r.grace = "running"
                          => served["uuid"] = r.secret
=============================================================================
