---------------------------- MODULE KuboIdentity ----------------------------
(***************************************************************************)
(* How the Kubo sidecar gets its identity.  The node derives it from the   *)
(* mnemonic and hands it over in files of the shared volume                *)
(* (internal/drop/identity.go); the sidecar waits for them, creates its    *)
(* repository and installs the identity (deploy/compose/drop.yml,          *)
(* kubo-init.sh).  Node and sidecar restart on their own and run side by   *)
(* side, so every file operation is a step.                                *)
(*                                                                         *)
(* An identity is named by the mnemonic it derives from; Random is the one *)
(* "ipfs init" makes up.                                                   *)
(***************************************************************************)
EXTENDS Naturals

CONSTANTS
    Mnemonic,   \* the mnemonics the operator configures
    Random,     \* the identity of a new repository
    None,       \* no file, no identity
    MaxMoves,   \* bound on changes of the mnemonic
    MaxCuts     \* bound on crashes and failing file operations

ASSUME IdentityAssumption ==
    /\ {Random, None} \cap Mnemonic = {} /\ Random # None
    /\ MaxMoves \in Nat /\ MaxCuts \in Nat

Identity == Mnemonic \cup {Random}

(* A repository config holds a peer id and a private key.                  *)
NoConfig == [peer |-> None, key |-> None]
Pair(i) == [peer |-> i, key |-> i]

VARIABLES
    env,        \* the configured mnemonic
    peerFile,   \* .erebrus-peer-id
    keyFile,    \* .erebrus-private-key
    readyFile,  \* .erebrus-identity-ready
    marker,     \* .erebrus-identity-conflict exists
    config,     \* the identity in the repository config
    staged,     \* the one in config.erebrus
    npc,        \* where the node stands in PrepareKuboIdentity
    mnemonic,   \* the mnemonic the node started with
    identityReady,
    kpc,        \* where the sidecar stands
    expected,   \* the peer id kubo-init.sh has read
    halfway,    \* history: the script was killed after it installed an
                \* identity and before it removed the private key
    moves,      \* how often the operator changed the mnemonic
    cuts        \* how often something was cut short

files == <<peerFile, keyFile, readyFile, marker, config, staged>>
nodeVars == <<npc, mnemonic, identityReady>>
kuboVars == <<kpc, expected, halfway>>
idVars == <<env, files, nodeVars, kuboVars, moves, cuts>>

-----------------------------------------------------------------------------
(* Node: Service.Start, PrepareKuboIdentity                                *)

NodeStep(from, to) ==
    /\ npc = from
    /\ npc' = to
    /\ UNCHANGED <<env, kuboVars, moves, cuts>>

NodeBoot ==
    /\ NodeStep("off", "marker")
    /\ mnemonic' = env
    /\ UNCHANGED <<files, identityReady>>

CheckMarker ==
    /\ \/ marker /\ NodeStep("marker", "up")
       \/ ~marker /\ NodeStep("marker", "peer")
    /\ UNCHANGED <<files, mnemonic, identityReady>>

WritePeerID ==
    /\ NodeStep("peer", "config")
    /\ peerFile' = mnemonic
    /\ UNCHANGED <<keyFile, readyFile, marker, config, staged, mnemonic, identityReady>>

ReadConfig ==
    /\ \/ config = NoConfig /\ NodeStep("config", "key")
       \/ config.peer = mnemonic /\ NodeStep("config", "remove")
       \/ config # NoConfig /\ config.peer # mnemonic /\ NodeStep("config", "conflict")
    /\ UNCHANGED <<files, mnemonic, identityReady>>

WriteKey ==
    /\ NodeStep("key", "ready")
    /\ keyFile' = mnemonic
    /\ UNCHANGED <<peerFile, readyFile, marker, config, staged, mnemonic, identityReady>>

RemoveKey ==
    /\ NodeStep("remove", "ready")
    /\ keyFile' = None
    /\ UNCHANGED <<peerFile, readyFile, marker, config, staged, mnemonic, identityReady>>

(* Mutant: a conflict is not an error.                                     *)
WriteReadyAlways ==
    /\ NodeStep("ready", "up") \/ NodeStep("conflict", "up")
    /\ readyFile' = mnemonic
    /\ identityReady' = TRUE
    /\ UNCHANGED <<peerFile, keyFile, marker, config, staged, mnemonic>>

(* The ready file is written either way; it is what the sidecar waits for. *)
WriteReady ==
    /\ NodeStep("ready", "up") \/ NodeStep("conflict", "up")
    /\ readyFile' = mnemonic
    /\ identityReady' = (npc = "ready")
    /\ UNCHANGED <<peerFile, keyFile, marker, config, staged, mnemonic>>

Cut ==
    /\ cuts < MaxCuts
    /\ cuts' = cuts + 1

(* A file operation fails: the node runs on without Drop.                  *)
PrepareFails ==
    /\ npc \notin {"off", "up"}
    /\ npc' = "up"
    /\ Cut
    /\ UNCHANGED <<env, files, mnemonic, identityReady, kuboVars, moves>>

NodeStops ==
    /\ npc # "off"
    /\ npc' = "off"
    /\ mnemonic' = None
    /\ identityReady' = FALSE

NodeCrash == NodeStops /\ Cut /\ UNCHANGED <<env, files, kuboVars, moves>>

(* The operator changes the mnemonic, which recreates the node.            *)
ChangeMnemonic(m) ==
    /\ m # env
    /\ moves < MaxMoves
    /\ moves' = moves + 1
    /\ env' = m
    /\ NodeStops
    /\ UNCHANGED <<files, kuboVars, cuts>>

Prepare ==
    \/ NodeBoot \/ CheckMarker \/ WritePeerID \/ ReadConfig \/ WriteKey \/ RemoveKey
    \/ WriteReady

-----------------------------------------------------------------------------
(* Sidecar: the container command, start_ipfs, kubo-init.sh.  It restarts  *)
(* whenever it fails.                                                      *)

KuboStep(from, to) ==
    /\ kpc = from
    /\ kpc' = to
    /\ UNCHANGED <<env, nodeVars, halfway, moves, cuts>>

AwaitReady ==
    /\ readyFile # None
    /\ KuboStep("wait", "init")
    /\ UNCHANGED <<files, expected>>

(* start_ipfs creates a repository where there is none.                    *)
IpfsInit ==
    /\ KuboStep("init", "expect")
    /\ config' = IF config = NoConfig THEN Pair(Random) ELSE config
    /\ UNCHANGED <<peerFile, keyFile, readyFile, marker, staged, expected>>

(* The peer id is on the volume whenever the ready file is.                *)
ReadExpected ==
    /\ KuboStep("expect", "compare")
    /\ expected' = peerFile
    /\ UNCHANGED files

(* Mutant: the script takes every identity it did not install for a        *)
(* conflict.                                                               *)
CompareStrict ==
    /\ \/ /\ config.peer = expected
          /\ KuboStep("compare", "clean")
          /\ UNCHANGED <<marker, expected>>
       \/ /\ config.peer # expected
          /\ KuboStep("compare", "wait")
          /\ marker' = TRUE
          /\ expected' = None
    /\ UNCHANGED <<peerFile, keyFile, readyFile, config, staged>>

Compare ==
    /\ \/ /\ config.peer = expected
          /\ KuboStep("compare", "clean")
          /\ UNCHANGED <<marker, expected>>
       \/ /\ config.peer # expected /\ keyFile = None
          /\ KuboStep("compare", "wait")
          /\ marker' = TRUE
          /\ expected' = None
       \/ /\ config.peer # expected /\ keyFile # None
          /\ KuboStep("compare", "install")
          /\ UNCHANGED <<marker, expected>>
    /\ UNCHANGED <<peerFile, keyFile, readyFile, config, staged>>

(* awk writes the config with both fields substituted to a file beside it, *)
(* unless the key is gone by now; mv puts it in place.                     *)
Substitute ==
    /\ \/ /\ keyFile # None
          /\ KuboStep("install", "move")
          /\ staged' = [peer |-> expected, key |-> keyFile]
          /\ UNCHANGED expected
       \/ /\ keyFile = None
          /\ KuboStep("install", "wait")
          /\ expected' = None
          /\ UNCHANGED staged
    /\ UNCHANGED <<peerFile, keyFile, readyFile, marker, config>>

Install ==
    /\ KuboStep("move", "clean")
    /\ config' = staged
    /\ staged' = NoConfig
    /\ UNCHANGED <<peerFile, keyFile, readyFile, marker, expected>>

(* Mutant: the ready file goes with the private key.                       *)
CleanReady ==
    /\ KuboStep("clean", "start")
    /\ keyFile' = None
    /\ readyFile' = None
    /\ marker' = FALSE
    /\ expected' = None
    /\ UNCHANGED <<peerFile, config, staged>>

Clean ==
    /\ KuboStep("clean", "start")
    /\ keyFile' = None
    /\ marker' = FALSE
    /\ expected' = None
    /\ UNCHANGED <<peerFile, readyFile, config, staged>>

(* The daemon refuses a private key that is not the peer id's.             *)
Daemon ==
    /\ \/ config.peer = config.key /\ KuboStep("start", "daemon")
       \/ config.peer # config.key /\ KuboStep("start", "wait")
    /\ UNCHANGED <<files, expected>>

KuboCrash ==
    /\ kpc # "wait"
    /\ kpc' = "wait"
    /\ expected' = None
    /\ halfway' = (halfway \/ kpc = "clean")
    /\ Cut
    /\ UNCHANGED <<env, files, nodeVars, moves>>

Sidecar ==
    \/ AwaitReady \/ IpfsInit \/ ReadExpected \/ Compare \/ Substitute \/ Install
    \/ Clean \/ Daemon

-----------------------------------------------------------------------------
IdentityInit ==
    /\ env \in Mnemonic
    /\ peerFile = None /\ keyFile = None /\ readyFile = None
    /\ marker = FALSE
    /\ config = NoConfig /\ staged = NoConfig
    /\ npc = "off" /\ mnemonic = None /\ identityReady = FALSE
    /\ kpc = "wait" /\ expected = None /\ halfway = FALSE
    /\ moves = 0 /\ cuts = 0

IdentityNext ==
    \/ Prepare \/ PrepareFails \/ NodeCrash
    \/ \E m \in Mnemonic : ChangeMnemonic(m)
    \/ Sidecar \/ KuboCrash

(* Both containers run and are restarted ("restart: unless-stopped").      *)
IdentitySpec ==
    IdentityInit /\ [][IdentityNext]_idVars /\ WF_idVars(Prepare) /\ WF_idVars(Sidecar)

-----------------------------------------------------------------------------
IdentityTypeOK ==
    /\ env \in Mnemonic
    /\ peerFile \in Mnemonic \cup {None}
    /\ keyFile \in Mnemonic \cup {None}
    /\ readyFile \in Mnemonic \cup {None}
    /\ marker \in BOOLEAN
    /\ config \in [peer : Identity \cup {None}, key : Identity \cup {None}]
    /\ staged \in [peer : Mnemonic \cup {None}, key : Mnemonic \cup {None}]
    /\ npc \in {"off", "marker", "peer", "config", "key", "remove", "conflict", "ready", "up"}
    /\ mnemonic \in Mnemonic \cup {None}
    /\ identityReady \in BOOLEAN
    /\ kpc \in {"wait", "init", "expect", "compare", "install", "move", "clean", "start",
               "daemon"}
    /\ expected \in Mnemonic \cup {None}
    /\ halfway \in BOOLEAN
    /\ moves \in 0 .. MaxMoves /\ cuts \in 0 .. MaxCuts

(* As long as the mnemonic stays the same, no order of restarts, crashes   *)
(* and failures of node and sidecar leaves a conflict behind: no marker,   *)
(* no peer id with another's key, and the random identity of a new         *)
(* repository only while the private key is there to replace it            *)
(* (PrepareKuboIdentity, kubo-init.sh).  The node itself does take that    *)
(* identity for a foreign one and returns ErrIdentityConflict when it      *)
(* reads it (conflict), but only after something was cut short.            *)
NoFalseConflict ==
    moves = 0 =>
        /\ ~marker
        /\ config \in {NoConfig, Pair(Random), Pair(env)}
        /\ config = Pair(Random) => keyFile = env
        /\ npc = "conflict" => cuts > 0

(* While Drop accepts operations (identityReady) and Kubo runs, Kubo has   *)
(* the identity of the node's own mnemonic, however often that was changed *)
(* and however the handoffs interleaved, unless the script was killed      *)
(* between installing an identity and removing the private key             *)
(* (PrepareKuboIdentity, kubo-init.sh, operational).                       *)
ServesOwnIdentity ==
    ~halfway /\ identityReady /\ kpc = "daemon" => config = Pair(mnemonic)

(* Once the handoff was completed, and as long as the mnemonic stays the   *)
(* same, the sidecar comes up and stays up when crashes and failures end.  *)
KuboComesUp == [](moves = 0) /\ <>(readyFile # None) => <>[](kpc = "daemon")

(* To resolve an identity conflict, "restore the mnemonic associated with  *)
(* the existing volume": when that mnemonic is configured for good, Kubo   *)
(* comes up.                                                               *)
RestoreRecovers ==
    <>[](config = Pair(env)) => []<>(kpc = "daemon")
=============================================================================
