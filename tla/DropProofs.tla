----------------------------- MODULE DropProofs -----------------------------
(***************************************************************************)
(* Whatever mnemonics are configured one after the other, and however node *)
(* and sidecar interleave, crash and fail, the Kubo that the node operates *)
(* has the identity of the node's mnemonic, unless the script was killed   *)
(* in the one step that matters.  The service leaves the handoff of the    *)
(* identity alone, so this carries over to the composition; and for any    *)
(* number of handlers and any contents, an upload that was confirmed stays *)
(* pinned.                                                                 *)
(***************************************************************************)
EXTENDS Drop, FiniteSetTheorems, TLAPS

(* An identity that would start belongs to the node's mnemonic, or is the  *)
(* one a new repository starts with.                                       *)
Harmless == config.peer = config.key => config.peer \in {None, Random, mnemonic}

(* What the node and the script write and read are mnemonics: the peer id  *)
(* is on the volume before the ready file, and the script waits for that.  *)
FilesInv ==
    /\ npc # "off" => mnemonic \in Mnemonic
    /\ npc \in {"config", "key", "remove", "conflict", "ready"} => peerFile = mnemonic
    /\ readyFile # None => peerFile \in Mnemonic
    /\ kpc # "wait" => readyFile # None
    /\ kpc \in {"compare", "install", "move", "clean"} => expected \in Mnemonic

(* The sidecar: the repository exists once the script runs; the script     *)
(* substitutes only where the ids differ, starts Kubo only where they      *)
(* agree, and Kubo starts only with a matching pair.                       *)
SidecarInv ==
    /\ config.peer = None => config = NoConfig /\ kpc \in {"wait", "init"}
    /\ kpc \in {"install", "move"} => config.peer # expected
    /\ kpc = "move" =>
           /\ staged.peer = expected /\ staged.key \in Mnemonic
           /\ config.peer \in Mnemonic => staged.key = config.peer
    /\ kpc = "clean" => config.peer = expected
    /\ kpc \in {"start", "daemon"} => config.peer \in Mnemonic
    /\ kpc = "daemon" => config.peer = config.key

(* The node: what it has established at every step of the handoff.         *)
NodeInv ==
    /\ npc # "up" => ~identityReady
    /\ npc = "key" =>
           /\ kpc \in {"compare", "install", "move"} => expected = mnemonic
           /\ config.peer \in {None, Random, mnemonic}
    /\ npc = "remove" => config.peer \in Mnemonic /\ Harmless
    /\ npc = "ready" \/ identityReady =>
           /\ keyFile \in {None, mnemonic} /\ Harmless
           /\ kpc = "move" /\ staged.peer = staged.key => staged.peer = mnemonic

(* A private key that is left beside an installed identity is its own.     *)
KeyInv == config.peer \in Mnemonic /\ kpc # "clean" /\ keyFile # None => keyFile = config.peer

HandoffInv == IdentityTypeOK /\ FilesInv /\ (~halfway => SidecarInv /\ NodeInv /\ KeyInv)

(* The handoff starts without files, and with both processes down.         *)
LEMMA HandoffStarts == IdentityInit => HandoffInv
<1> SUFFICES ASSUME IdentityInit
             PROVE  HandoffInv
  BY Zenon
<1> USE IdentityAssumption DEF IdentityInit
<1>1. config.peer = None /\ None \notin Mnemonic
  BY Zenon DEF NoConfig
<1>2. marker \in BOOLEAN /\ identityReady \in BOOLEAN /\ halfway \in BOOLEAN
  BY Zenon
<1>3. IdentityTypeOK
  BY <1>2 DEF IdentityTypeOK, NoConfig, Identity
<1>4. FilesInv /\ SidecarInv /\ KeyInv
  BY <1>1, Zenon DEF FilesInv, SidecarInv, KeyInv
<1>5. NodeInv
  BY <1>2, Zenon DEF NodeInv
<1>6. QED
  BY <1>3, <1>4, <1>5, Zenon DEF HandoffInv

(* Every step of node and sidecar keeps the variables in their types.      *)
LEMMA HandoffTypes == IdentityTypeOK /\ FilesInv /\ [IdentityNext]_idVars => IdentityTypeOK'
<1> SUFFICES ASSUME IdentityTypeOK, FilesInv, [IdentityNext]_idVars
             PROVE  IdentityTypeOK'
  BY ZenonT(30)
<1> USE IdentityAssumption DEF IdentityTypeOK, FilesInv, Identity
<1>1. CASE NodeBoot
  BY <1>1 DEF NodeBoot, NodeStep, files, nodeVars, kuboVars
<1>2. CASE CheckMarker
  BY <1>2 DEF CheckMarker, NodeStep, files, nodeVars, kuboVars
<1>3. CASE WritePeerID
  BY <1>3 DEF WritePeerID, NodeStep, files, nodeVars, kuboVars
<1>4. CASE ReadConfig
  BY <1>4 DEF ReadConfig, NodeStep, files, nodeVars, kuboVars
<1>5. CASE WriteKey
  BY <1>5 DEF WriteKey, NodeStep, files, nodeVars, kuboVars
<1>6. CASE RemoveKey
  BY <1>6 DEF RemoveKey, NodeStep, files, nodeVars, kuboVars
<1>7. CASE WriteReady
  BY <1>7 DEF WriteReady, NodeStep, files, nodeVars, kuboVars
<1>8. CASE AwaitReady
  BY <1>8 DEF AwaitReady, KuboStep, files, nodeVars, kuboVars, Pair, NoConfig
<1>9. CASE IpfsInit
  BY <1>9, ZenonT(120) DEF IpfsInit, KuboStep, files, nodeVars, kuboVars, Pair, NoConfig
<1>10. CASE ReadExpected
  BY <1>10 DEF ReadExpected, KuboStep, files, nodeVars, kuboVars, Pair, NoConfig
<1>11. CASE Compare
  <2>1. UNCHANGED <<env, peerFile, keyFile, readyFile, config, staged, npc, mnemonic,
                    identityReady, halfway, moves, cuts>>
    BY <1>11, ZenonT(30) DEF Compare, KuboStep, nodeVars
  <2>2. kpc' \in {"clean", "wait", "install"} /\ expected' \in {expected, None}
    BY <1>11, ZenonT(30) DEF Compare, KuboStep
  <2>3. marker' \in BOOLEAN
    BY <1>11, ZenonT(30) DEF Compare
  <2>4. QED
    BY <2>1, <2>2, <2>3
<1>12. CASE Substitute
  BY <1>12 DEF Substitute, KuboStep, files, nodeVars, kuboVars, Pair, NoConfig
<1>13. CASE Install
  BY <1>13 DEF Install, KuboStep, files, nodeVars, kuboVars, Pair, NoConfig
<1>14. CASE Clean
  BY <1>14, ZenonT(120) DEF Clean, KuboStep, files, nodeVars, kuboVars, Pair, NoConfig
<1>15. CASE Daemon
  BY <1>15 DEF Daemon, KuboStep, files, nodeVars, kuboVars, Pair, NoConfig
<1>16. CASE PrepareFails
  BY <1>16 DEF PrepareFails, Cut, files, nodeVars, kuboVars
<1>17. CASE NodeCrash
  <2>1. identityReady' \in BOOLEAN
    BY <1>17, ZenonT(30) DEF NodeCrash, NodeStops
  <2>2. QED
    BY <1>17, <2>1 DEF NodeCrash, NodeStops, Cut, files, nodeVars, kuboVars
<1>18. CASE \E m \in Mnemonic : ChangeMnemonic(m)
  <2>1. identityReady' \in BOOLEAN
    BY <1>18, ZenonT(30) DEF ChangeMnemonic, NodeStops
  <2>2. QED
    BY <1>18, <2>1 DEF ChangeMnemonic, NodeStops, files, nodeVars, kuboVars
<1>19. CASE KuboCrash
  BY <1>19 DEF KuboCrash, Cut, files, nodeVars, kuboVars
<1>20. CASE UNCHANGED idVars
  BY <1>20 DEF idVars, files, nodeVars, kuboVars
<1>21. QED
  BY <1>1, <1>2, <1>3, <1>4, <1>5, <1>6, <1>7, <1>8, <1>9, <1>10,
     <1>11, <1>12, <1>13, <1>14, <1>15, <1>16, <1>17, <1>18, <1>19, <1>20, ZenonT(30)
  DEF IdentityNext, Prepare, Sidecar

(* Every step keeps the files and what was read from them mnemonics.       *)
LEMMA HandoffFiles == IdentityTypeOK /\ FilesInv /\ [IdentityNext]_idVars => FilesInv'
<1> SUFFICES ASSUME IdentityTypeOK, FilesInv, [IdentityNext]_idVars
             PROVE  FilesInv'
  BY Zenon
<1> USE IdentityAssumption DEF IdentityTypeOK, FilesInv, Identity
<1>1. CASE NodeBoot
  BY <1>1, Zenon DEF NodeBoot, NodeStep, files, nodeVars, kuboVars
<1>2. CASE CheckMarker
  BY <1>2, Zenon DEF CheckMarker, NodeStep, files, nodeVars, kuboVars
<1>3. CASE WritePeerID
  BY <1>3, Zenon DEF WritePeerID, NodeStep, files, nodeVars, kuboVars
<1>4. CASE ReadConfig
  BY <1>4, Zenon DEF ReadConfig, NodeStep, files, nodeVars, kuboVars
<1>5. CASE WriteKey
  BY <1>5, Zenon DEF WriteKey, NodeStep, files, nodeVars, kuboVars
<1>6. CASE RemoveKey
  BY <1>6, Zenon DEF RemoveKey, NodeStep, files, nodeVars, kuboVars
<1>7. CASE WriteReady
  BY <1>7, Zenon DEF WriteReady, NodeStep, files, nodeVars, kuboVars
<1>8. CASE AwaitReady
  BY <1>8, Zenon DEF AwaitReady, KuboStep, files, nodeVars, kuboVars
<1>9. CASE IpfsInit
  BY <1>9, Zenon DEF IpfsInit, KuboStep, Pair, NoConfig, files, nodeVars, kuboVars
<1>10. CASE ReadExpected
  BY <1>10, Zenon DEF ReadExpected, KuboStep, files, nodeVars, kuboVars
<1>11. CASE Compare
  BY <1>11, Zenon DEF Compare, KuboStep, files, nodeVars, kuboVars
<1>12. CASE Substitute
  BY <1>12, Zenon DEF Substitute, KuboStep, files, nodeVars, kuboVars
<1>13. CASE Install
  BY <1>13, Zenon DEF Install, KuboStep, files, nodeVars, kuboVars
<1>14. CASE Clean
  BY <1>14, Zenon DEF Clean, KuboStep, files, nodeVars, kuboVars
<1>15. CASE Daemon
  BY <1>15, Zenon DEF Daemon, KuboStep, files, nodeVars, kuboVars
<1>16. CASE PrepareFails
  BY <1>16, Zenon DEF PrepareFails, Cut, files, nodeVars, kuboVars
<1>17. CASE NodeCrash
  BY <1>17, Zenon DEF NodeCrash, NodeStops, Cut, files, nodeVars, kuboVars
<1>18. CASE \E m \in Mnemonic : ChangeMnemonic(m)
  BY <1>18, Zenon DEF ChangeMnemonic, NodeStops, files, nodeVars, kuboVars
<1>19. CASE KuboCrash
  BY <1>19, Zenon DEF KuboCrash, Cut, files, nodeVars, kuboVars
<1>20. CASE UNCHANGED idVars
  BY <1>20, ZenonT(30) DEF idVars, files, nodeVars, kuboVars
<1>21. QED
  BY <1>1, <1>2, <1>3, <1>4, <1>5, <1>6, <1>7, <1>8, <1>9, <1>10,
     <1>11, <1>12, <1>13, <1>14, <1>15, <1>16, <1>17, <1>18, <1>19, <1>20, ZenonT(30)
  DEF IdentityNext, Prepare, Sidecar

(* Every step keeps the sidecar where its config lets it be; only a kill   *)
(* after the installation breaks that, and then halfway holds.             *)
LEMMA SidecarKept == HandoffInv /\ ~halfway' /\ [IdentityNext]_idVars => SidecarInv'
<1> SUFFICES ASSUME HandoffInv, ~halfway', [IdentityNext]_idVars
             PROVE  SidecarInv'
  BY Zenon
<1> USE IdentityAssumption DEF HandoffInv, IdentityTypeOK, FilesInv, SidecarInv, KeyInv, Identity,
        NoConfig
<1>1. CASE NodeBoot
  BY <1>1, Zenon DEF NodeBoot, NodeStep, files, nodeVars, kuboVars
<1>2. CASE CheckMarker
  BY <1>2, Zenon DEF CheckMarker, NodeStep, files, nodeVars, kuboVars
<1>3. CASE WritePeerID
  BY <1>3, Zenon DEF WritePeerID, NodeStep, files, nodeVars, kuboVars
<1>4. CASE ReadConfig
  BY <1>4, Zenon DEF ReadConfig, NodeStep, files, nodeVars, kuboVars
<1>5. CASE WriteKey
  BY <1>5, Zenon DEF WriteKey, NodeStep, files, nodeVars, kuboVars
<1>6. CASE RemoveKey
  BY <1>6, Zenon DEF RemoveKey, NodeStep, files, nodeVars, kuboVars
<1>7. CASE WriteReady
  BY <1>7, Zenon DEF WriteReady, NodeStep, files, nodeVars, kuboVars
<1>8. CASE AwaitReady
  BY <1>8, Zenon DEF AwaitReady, KuboStep, files, nodeVars, kuboVars
<1>9. CASE IpfsInit
  BY <1>9, Zenon DEF IpfsInit, KuboStep, Pair, NoConfig, files, nodeVars, kuboVars
<1>10. CASE ReadExpected
  BY <1>10, Zenon DEF ReadExpected, KuboStep, files, nodeVars, kuboVars
<1>11. CASE Compare
  BY <1>11, ZenonT(30) DEF Compare, KuboStep, files, nodeVars, kuboVars
<1>12. CASE Substitute
  BY <1>12 DEF Substitute, KuboStep, files, nodeVars, kuboVars
<1>13. CASE Install
  BY <1>13 DEF Install, KuboStep, files, nodeVars, kuboVars
<1>14. CASE Clean
  BY <1>14, Zenon DEF Clean, KuboStep, files, nodeVars, kuboVars
<1>15. CASE Daemon
  BY <1>15, Zenon DEF Daemon, KuboStep, files, nodeVars, kuboVars
<1>16. CASE PrepareFails
  BY <1>16, Zenon DEF PrepareFails, Cut, files, nodeVars, kuboVars
<1>17. CASE NodeCrash
  BY <1>17, ZenonT(30) DEF NodeCrash, NodeStops, Cut, files, nodeVars, kuboVars
<1>18. CASE \E m \in Mnemonic : ChangeMnemonic(m)
  BY <1>18 DEF ChangeMnemonic, NodeStops, files, nodeVars, kuboVars
<1>19. CASE KuboCrash
  BY <1>19, Zenon DEF KuboCrash, Cut, files, nodeVars, kuboVars
<1>20. CASE UNCHANGED idVars
  BY <1>20, Zenon DEF idVars, files, nodeVars, kuboVars
<1>21. QED
  BY <1>1, <1>2, <1>3, <1>4, <1>5, <1>6, <1>7, <1>8, <1>9, <1>10,
     <1>11, <1>12, <1>13, <1>14, <1>15, <1>16, <1>17, <1>18, <1>19, <1>20, ZenonT(30)
  DEF IdentityNext, Prepare, Sidecar

(* A private key beside an installed identity stays that identity's: the   *)
(* node writes one only where no other identity is installed.              *)
LEMMA KeyKept == HandoffInv /\ ~halfway' /\ [IdentityNext]_idVars => KeyInv'
<1> SUFFICES ASSUME HandoffInv, ~halfway', [IdentityNext]_idVars
             PROVE  KeyInv'
  BY Zenon
<1> USE IdentityAssumption DEF HandoffInv, IdentityTypeOK, FilesInv, SidecarInv, NodeInv,
        KeyInv, Identity, NoConfig
<1>1. CASE NodeBoot
  BY <1>1, Zenon DEF NodeBoot, NodeStep, files, nodeVars, kuboVars
<1>2. CASE CheckMarker
  BY <1>2, Zenon DEF CheckMarker, NodeStep, files, nodeVars, kuboVars
<1>3. CASE WritePeerID
  BY <1>3, Zenon DEF WritePeerID, NodeStep, files, nodeVars, kuboVars
<1>4. CASE ReadConfig
  BY <1>4, Zenon DEF ReadConfig, NodeStep, files, nodeVars, kuboVars
<1>5. CASE WriteKey
  BY <1>5, Zenon DEF WriteKey, NodeStep, files, nodeVars, kuboVars
<1>6. CASE RemoveKey
  BY <1>6, Zenon DEF RemoveKey, NodeStep, files, nodeVars, kuboVars
<1>7. CASE WriteReady
  BY <1>7, Zenon DEF WriteReady, NodeStep, files, nodeVars, kuboVars
<1>8. CASE AwaitReady
  BY <1>8, Zenon DEF AwaitReady, KuboStep, files, nodeVars, kuboVars
<1>9. CASE IpfsInit
  BY <1>9, ZenonT(30) DEF IpfsInit, KuboStep, Pair, NoConfig, files, nodeVars, kuboVars
<1>10. CASE ReadExpected
  BY <1>10, ZenonT(30) DEF ReadExpected, KuboStep, files, nodeVars, kuboVars
<1>11. CASE Compare
  BY <1>11, Zenon DEF Compare, KuboStep, files, nodeVars, kuboVars
<1>12. CASE Substitute
  BY <1>12, ZenonT(30) DEF Substitute, KuboStep, files, nodeVars, kuboVars
<1>13. CASE Install
  BY <1>13, ZenonT(30) DEF Install, KuboStep, files, nodeVars, kuboVars
<1>14. CASE Clean
  BY <1>14, Zenon DEF Clean, KuboStep, files, nodeVars, kuboVars
<1>15. CASE Daemon
  BY <1>15, Zenon DEF Daemon, KuboStep, files, nodeVars, kuboVars
<1>16. CASE PrepareFails
  BY <1>16, Zenon DEF PrepareFails, Cut, files, nodeVars, kuboVars
<1>17. CASE NodeCrash
  BY <1>17, ZenonT(30) DEF NodeCrash, NodeStops, Cut, files, nodeVars, kuboVars
<1>18. CASE \E m \in Mnemonic : ChangeMnemonic(m)
  BY <1>18 DEF ChangeMnemonic, NodeStops, files, nodeVars, kuboVars
<1>19. CASE KuboCrash
  BY <1>19, Zenon DEF KuboCrash, Cut, files, nodeVars, kuboVars
<1>20. CASE UNCHANGED idVars
  BY <1>20, ZenonT(30) DEF idVars, files, nodeVars, kuboVars
<1>21. QED
  BY <1>1, <1>2, <1>3, <1>4, <1>5, <1>6, <1>7, <1>8, <1>9, <1>10,
     <1>11, <1>12, <1>13, <1>14, <1>15, <1>16, <1>17, <1>18, <1>19, <1>20, ZenonT(30)
  DEF IdentityNext, Prepare, Sidecar

(* What the node has established holds until it stops, whatever the        *)
(* sidecar does meanwhile.                                                 *)
LEMMA NodeKept == HandoffInv /\ ~halfway' /\ [IdentityNext]_idVars => NodeInv'
<1> SUFFICES ASSUME HandoffInv, ~halfway', [IdentityNext]_idVars
             PROVE  NodeInv'
  BY Zenon
<1> USE IdentityAssumption DEF HandoffInv, IdentityTypeOK, FilesInv, SidecarInv, NodeInv,
        KeyInv, Harmless, Identity, NoConfig
<1>1. CASE NodeBoot
  BY <1>1, Zenon DEF NodeBoot, NodeStep, files, nodeVars, kuboVars
<1>2. CASE CheckMarker
  BY <1>2, Zenon DEF CheckMarker, NodeStep, files, nodeVars, kuboVars
<1>3. CASE WritePeerID
  BY <1>3, ZenonT(30) DEF WritePeerID, NodeStep, files, nodeVars, kuboVars
<1>4. CASE ReadConfig
  BY <1>4 DEF ReadConfig, NodeStep, files, nodeVars, kuboVars
<1>5. CASE WriteKey
  BY <1>5, Zenon DEF WriteKey, NodeStep, files, nodeVars, kuboVars
<1>6. CASE RemoveKey
  BY <1>6, Zenon DEF RemoveKey, NodeStep, files, nodeVars, kuboVars
<1>7. CASE WriteReady
  BY <1>7, ZenonT(30) DEF WriteReady, NodeStep, files, nodeVars, kuboVars
<1>8. CASE AwaitReady
  BY <1>8, ZenonT(30) DEF AwaitReady, KuboStep, files, nodeVars, kuboVars
<1>9. CASE IpfsInit
  BY <1>9 DEF IpfsInit, KuboStep, Pair, NoConfig, files, nodeVars, kuboVars
<1>10. CASE ReadExpected
  BY <1>10, ZenonT(30) DEF ReadExpected, KuboStep, files, nodeVars, kuboVars
<1>11. CASE Compare
  BY <1>11 DEF Compare, KuboStep, files, nodeVars, kuboVars
<1>12. CASE Substitute
  BY <1>12 DEF Substitute, KuboStep, files, nodeVars, kuboVars
<1>13. CASE Install
  BY <1>13 DEF Install, KuboStep, files, nodeVars, kuboVars
<1>14. CASE Clean
  BY <1>14, ZenonT(30) DEF Clean, KuboStep, files, nodeVars, kuboVars
<1>15. CASE Daemon
  BY <1>15 DEF Daemon, KuboStep, files, nodeVars, kuboVars
<1>16. CASE PrepareFails
  BY <1>16, Zenon DEF PrepareFails, Cut, files, nodeVars, kuboVars
<1>17. CASE NodeCrash
  BY <1>17, Zenon DEF NodeCrash, NodeStops, Cut, files, nodeVars, kuboVars
<1>18. CASE \E m \in Mnemonic : ChangeMnemonic(m)
  BY <1>18, Zenon DEF ChangeMnemonic, NodeStops, files, nodeVars, kuboVars
<1>19. CASE KuboCrash
  BY <1>19, Zenon DEF KuboCrash, Cut, files, nodeVars, kuboVars
<1>20. CASE UNCHANGED idVars
  BY <1>20, Zenon DEF idVars, files, nodeVars, kuboVars
<1>21. QED
  BY <1>1, <1>2, <1>3, <1>4, <1>5, <1>6, <1>7, <1>8, <1>9, <1>10,
     <1>11, <1>12, <1>13, <1>14, <1>15, <1>16, <1>17, <1>18, <1>19, <1>20, ZenonT(30)
  DEF IdentityNext, Prepare, Sidecar

(* Where the invariant holds, a Kubo that runs has the node's identity:    *)
(* its pair matches, it is a mnemonic's, and it is harmless.               *)
LEMMA HandoffImplies == HandoffInv => ServesOwnIdentity
BY IdentityAssumption, Zenon
   DEF HandoffInv, IdentityTypeOK, FilesInv, SidecarInv, NodeInv, Harmless, ServesOwnIdentity,
       Pair, Identity

(* While Drop accepts operations (Service.identityReady) and Kubo runs,    *)
(* Kubo has the identity of the node's mnemonic (PrepareKuboIdentity,      *)
(* kubo-init.sh), for every set of mnemonics, every number of changes,     *)
(* crashes and failures, unless the script was killed between installing   *)
(* an identity and removing the private key.                               *)
THEOREM KuboServesOwnIdentity == IdentitySpec => [](IdentityTypeOK /\ ServesOwnIdentity)
<1>1. IdentityInit => HandoffInv
  BY HandoffStarts, Zenon
<1>2. HandoffInv /\ [IdentityNext]_idVars => HandoffInv'
  BY HandoffTypes, HandoffFiles, SidecarKept, KeyKept, NodeKept, ZenonT(30) DEF HandoffInv
<1>3. HandoffInv => IdentityTypeOK /\ ServesOwnIdentity
  BY HandoffImplies, ZenonT(30) DEF HandoffInv
<1>4. QED
  BY <1>1, <1>2, <1>3, PTL DEF IdentitySpec

-----------------------------------------------------------------------------
(* While the mnemonic stays the same                                       *)

(* Once the ready file is there, the private key is on the volume until    *)
(* the identity is installed: the script never finds itself without it.    *)
StillInv ==
    moves = 0 =>
        /\ ~marker
        /\ npc # "off" => mnemonic = env
        /\ peerFile \in {None, env} /\ keyFile \in {None, env} /\ expected \in {None, env}
        /\ config \in {NoConfig, Pair(Random), Pair(env)}
        /\ config # NoConfig => readyFile # None
        /\ kpc = "move" => staged = Pair(env)
        /\ readyFile # None /\ config # Pair(env) => keyFile = env
        /\ npc = "remove" \/ kpc = "clean" => config = Pair(env)
        /\ npc = "ready" => keyFile = env \/ config = Pair(env)
        /\ npc = "conflict" => config # NoConfig
        /\ readyFile # None /\ npc # "up" => cuts > 0

LEMMA StillKept == IdentityTypeOK /\ FilesInv /\ StillInv /\ [IdentityNext]_idVars => StillInv'
<1> SUFFICES ASSUME IdentityTypeOK, FilesInv, StillInv, [IdentityNext]_idVars, moves' = 0
             PROVE  StillInv'
  BY Zenon DEF StillInv
<1> USE IdentityAssumption DEF IdentityTypeOK, FilesInv, StillInv, Identity, NoConfig, Pair
<1>1. CASE NodeBoot
  BY <1>1, Zenon DEF NodeBoot, NodeStep, files, nodeVars, kuboVars
<1>2. CASE CheckMarker
  BY <1>2, ZenonT(30) DEF CheckMarker, NodeStep, files, nodeVars, kuboVars
<1>3. CASE WritePeerID
  BY <1>3, ZenonT(30) DEF WritePeerID, NodeStep, files, nodeVars, kuboVars
<1>4. CASE ReadConfig
  BY <1>4 DEF ReadConfig, NodeStep, files, nodeVars, kuboVars
<1>5. CASE WriteKey
  BY <1>5, Zenon DEF WriteKey, NodeStep, files, nodeVars, kuboVars
<1>6. CASE RemoveKey
  BY <1>6, Zenon DEF RemoveKey, NodeStep, files, nodeVars, kuboVars
<1>7. CASE WriteReady
  BY <1>7, Zenon DEF WriteReady, NodeStep, files, nodeVars, kuboVars
<1>8. CASE AwaitReady
  BY <1>8, ZenonT(30) DEF AwaitReady, KuboStep, files, nodeVars, kuboVars
<1>9. CASE IpfsInit
  BY <1>9 DEF IpfsInit, KuboStep, files, nodeVars, kuboVars
<1>10. CASE ReadExpected
  BY <1>10, ZenonT(30) DEF ReadExpected, KuboStep, files, nodeVars, kuboVars
<1>11. CASE Compare
  BY <1>11 DEF Compare, KuboStep, files, nodeVars, kuboVars
<1>12. CASE Substitute
  BY <1>12 DEF Substitute, KuboStep, files, nodeVars, kuboVars
<1>13. CASE Install
  BY <1>13 DEF Install, KuboStep, files, nodeVars, kuboVars
<1>14. CASE Clean
  BY <1>14, Zenon DEF Clean, KuboStep, files, nodeVars, kuboVars
<1>15. CASE Daemon
  BY <1>15, Zenon DEF Daemon, KuboStep, files, nodeVars, kuboVars
<1>16. CASE PrepareFails
  BY <1>16, Zenon DEF PrepareFails, Cut, files, nodeVars, kuboVars
<1>17. CASE NodeCrash
  <2>1. cuts' > 0
    BY <1>17 DEF NodeCrash, Cut
  <2>2. QED
    BY <1>17, <2>1, ZenonT(30) DEF NodeCrash, NodeStops, Cut, files, nodeVars, kuboVars
<1>18. CASE \E m \in Mnemonic : ChangeMnemonic(m)
  BY <1>18 DEF ChangeMnemonic
<1>19. CASE KuboCrash
  <2>1. cuts' > 0
    BY <1>19 DEF KuboCrash, Cut
  <2>2. QED
    BY <1>19, <2>1, Zenon DEF KuboCrash, Cut, files, nodeVars, kuboVars
<1>20. CASE UNCHANGED idVars
  BY <1>20, Zenon DEF idVars, files, nodeVars, kuboVars
<1>21. QED
  BY <1>1, <1>2, <1>3, <1>4, <1>5, <1>6, <1>7, <1>8, <1>9, <1>10,
     <1>11, <1>12, <1>13, <1>14, <1>15, <1>16, <1>17, <1>18, <1>19, <1>20, ZenonT(30)
  DEF IdentityNext, Prepare, Sidecar

-----------------------------------------------------------------------------
(* The Drop service                                                        *)

(* An upload is pinned between Kubo's answer and the confirmation too,     *)
(* unless its content was unpinned meanwhile.                              *)
PinInv ==
    /\ wpc \in [Worker -> {"idle", "admit", "add", "answer"}]
    /\ object \in [Worker -> Object \cup {None}]
    /\ honest \in [Worker -> BOOLEAN] /\ unpinned \in [Worker -> BOOLEAN]
    /\ owed \subseteq pins
    /\ \A w \in Worker :
          wpc[w] = "answer" /\ honest[w] /\ ~unpinned[w] => object[w] \in pins

(* A request that begins, moves on before Kubo's answer, or ends.          *)
LEMMA FinishKeeps ==
    ASSUME PinInv, NEW w \in Worker, Finish(w), owed' \subseteq pins', pins' = pins
    PROVE  PinInv'
  BY Zenon DEF PinInv, Finish, Goto

(* Every step keeps the pins of the confirmed uploads.                     *)
LEMMA PinsKept == PinInv /\ [Next]_vars => PinInv'
<1> SUFFICES ASSUME PinInv, [Next]_vars
             PROVE  PinInv'
  BY Zenon
<1> USE DEF snapshot, request, kubo
<1>1. ASSUME UNCHANGED <<request, pins, owed>>
      PROVE  PinInv'
  BY <1>1, Zenon DEF PinInv
<1>2. CASE Handoff
  <2>1. CASE UNCHANGED request
    BY <1>1, <1>2, <2>1, Zenon DEF Handoff
  <2>2. CASE /\ wpc' = [w \in Worker |-> "idle"] /\ object' = [w \in Worker |-> None]
             /\ honest' = [w \in Worker |-> FALSE] /\ unpinned' = [w \in Worker |-> FALSE]
    <3>1. pins' = pins /\ owed' = owed
      BY <1>2, Zenon DEF Handoff
    <3>2. QED
      BY <2>2, <3>1, Zenon DEF PinInv
  <2>3. QED
    BY <1>2, <2>1, <2>2, ZenonT(30) DEF Handoff
<1>3. CASE refresh \/ Collect
  BY <1>1, <1>3, Zenon DEF refresh, Version, VersionFails, RepoStats, RepoStatsFail, Collect
<1>4. ASSUME NEW w \in Worker, NEW o \in Object, NEW good \in BOOLEAN, Upload(w, o, good)
      PROVE  PinInv'
  BY <1>4, Zenon DEF Upload, Goto, PinInv
<1>5. ASSUME NEW w \in Worker, Admit(w) \/ AddFails(w)
      PROVE  PinInv'
  <2>1. CASE Finish(w)
    BY <1>5, <2>1, FinishKeeps, Zenon DEF Admit, AddFails, PinInv
  <2>2. CASE Goto(w, "add") /\ UNCHANGED <<object, honest, unpinned, pins, owed>>
    BY <2>2, Zenon DEF Goto, PinInv
  <2>3. QED
    BY <1>5, <2>1, <2>2, Zenon DEF Admit, AddFails
<1>6. ASSUME NEW w \in Worker, KuboAdds(w)
      PROVE  PinInv'
  BY <1>6, Zenon DEF KuboAdds, Goto, PinInv
<1>7. ASSUME NEW w \in Worker, AddAnswered(w)
      PROVE  PinInv'
  <2>1. owed' \subseteq pins /\ pins' = pins
    BY <1>7, Zenon DEF AddAnswered, PinInv
  <2>2. QED
    BY <1>7, <2>1, FinishKeeps, Zenon DEF AddAnswered
<1>8. ASSUME NEW o \in Object, Unpin(o)
      PROVE  PinInv'
  <2>1. unpinned' \in [Worker -> BOOLEAN]
    BY <1>8, Zenon DEF Unpin
  <2>2. \A w \in Worker : wpc'[w] = "answer" /\ ~unpinned'[w] => ~unpinned[w] /\ object[w] # o
    BY <1>8, Zenon DEF Unpin
  <2>3. QED
    BY <1>8, <2>1, <2>2, Zenon DEF Unpin, PinInv
<1>9. CASE UNCHANGED vars
  BY <1>1, <1>9, Zenon DEF vars
<1>10. QED
  BY <1>2, <1>3, <1>4, <1>5, <1>6, <1>7, <1>8, <1>9, ZenonT(30) DEF Next

(* The service and its handlers take no part in the handoff.               *)
LEMMA HandoffApart == [Next]_vars => [IdentityNext]_idVars
  BY Zenon DEF Next, vars, Handoff, refresh, Version, VersionFails, RepoStats, RepoStatsFail,
       Upload, Admit, KuboAdds, AddAnswered, AddFails, Unpin, Collect

(* An upload that was confirmed stays pinned until it is unpinned, through *)
(* failed uploads of the same content, garbage collection, crashes and     *)
(* restarts of node and sidecar (AddAndPin, Upload).                       *)
THEOREM ConfirmedStaysPinned == FairSpec => []UploadsStayPinned
<1>1. Init => PinInv
  BY Zenon DEF Init, PinInv
<1>2. PinInv /\ [Next]_vars => PinInv'
  BY PinsKept, Zenon
<1>3. PinInv => UploadsStayPinned
  BY Zenon DEF PinInv, UploadsStayPinned
<1>4. QED
  BY <1>1, <1>2, <1>3, PTL DEF FairSpec

(* In the composition of service, handlers, node and sidecar, the Kubo     *)
(* that Drop operates on has the identity of the node's mnemonic           *)
(* (PrepareKuboIdentity, kubo-init.sh, operational).                       *)
THEOREM ServiceUsesOwnKubo == FairSpec => []ServesOwnIdentity
<1>1. Init => HandoffInv
  BY HandoffStarts, Zenon DEF Init
<1>2. HandoffInv /\ [Next]_vars => HandoffInv'
  BY HandoffApart, HandoffTypes, HandoffFiles, SidecarKept, KeyKept, NodeKept, ZenonT(30) DEF
       HandoffInv
<1>3. HandoffInv => ServesOwnIdentity
  BY HandoffImplies, Zenon
<1>4. QED
  BY <1>1, <1>2, <1>3, PTL DEF FairSpec

(* No order of restarts, crashes and failures of node and sidecar leaves a *)
(* marker or a pair of two identities while the mnemonic stays the same,   *)
(* the random identity of a new repository stands only as long as the key  *)
(* that replaces it, and the node takes it for a foreign one only when     *)
(* something was cut short (PrepareKuboIdentity, kubo-init.sh), in the     *)
(* composition with the service.                                           *)
THEOREM ConflictsAreReal == FairSpec => []NoFalseConflict
<1>1. Init => IdentityTypeOK /\ FilesInv /\ StillInv
  <2> SUFFICES ASSUME Init
               PROVE  IdentityTypeOK /\ FilesInv /\ StillInv
    BY Zenon
  <2>1. IdentityInit
    BY Zenon DEF Init
  <2>2. IdentityTypeOK /\ FilesInv
    BY <2>1, HandoffStarts, Zenon DEF HandoffInv
  <2>3. StillInv
    BY <2>1, IdentityAssumption, Zenon DEF IdentityInit, StillInv, NoConfig, Pair
  <2>4. QED
    BY <2>2, <2>3, Zenon
<1>2. IdentityTypeOK /\ FilesInv /\ StillInv /\ [Next]_vars =>
          IdentityTypeOK' /\ FilesInv' /\ StillInv'
  BY HandoffApart, HandoffTypes, HandoffFiles, StillKept, Zenon
<1>3. IdentityTypeOK /\ StillInv => NoFalseConflict
  <2>1. IdentityTypeOK => Pair(Random) # Pair(env) /\ Pair(Random) # NoConfig
    BY IdentityAssumption DEF IdentityTypeOK, Pair, NoConfig
  <2>2. QED
    BY <2>1, Zenon DEF StillInv, NoFalseConflict
<1>4. QED
  BY <1>1, <1>2, <1>3, PTL DEF FairSpec

-----------------------------------------------------------------------------
(* The way of the sidecar to its daemon                                    *)

(* The steps that the sidecar has before it, at most.                      *)
KuboDistance ==
    CASE kpc = "wait"    -> 8
      [] kpc = "init"    -> 7
      [] kpc = "expect"  -> 6
      [] kpc = "compare" -> 5
      [] kpc = "install" -> 4
      [] kpc = "move"    -> 3
      [] kpc = "clean"   -> 2
      [] kpc = "start"   -> 1
      [] OTHER           -> 0

(* While the mnemonic stays the same, every step of the sidecar brings it  *)
(* nearer to its daemon and only a crash sends it back; the handoff it     *)
(* waits for is not withdrawn, and an identity once installed is not       *)
(* replaced (the container command, start_ipfs, kubo-init.sh, beside       *)
(* PrepareKuboIdentity).                                                   *)
SidecarNears ==
    moves' = 0 =>
        /\ Sidecar => KuboDistance' < KuboDistance
        /\ KuboDistance' > KuboDistance => KuboCrash
        /\ readyFile # None => readyFile' # None
        /\ config.peer \in Mnemonic => config' = config

(* The script installs an identity only in place of another.               *)
InstallInv == kpc \in {"install", "move"} => config.peer # expected

LEMMA InstallKept == InstallInv /\ [IdentityNext]_idVars => InstallInv'
<1> SUFFICES ASSUME InstallInv, [IdentityNext]_idVars, kpc' \in {"install", "move"}
             PROVE  config'.peer # expected'
  BY Zenon DEF InstallInv
<1>1. CASE Prepare \/ PrepareFails \/ NodeCrash \/ (\E m \in Mnemonic : ChangeMnemonic(m))
  <2>1. UNCHANGED <<kpc, expected, config>>
    BY <1>1, Zenon DEF Prepare, NodeBoot, CheckMarker, WritePeerID, ReadConfig, WriteKey, RemoveKey,
         WriteReady, NodeStep, PrepareFails, NodeCrash, ChangeMnemonic, files, kuboVars
  <2>2. QED
    BY <2>1, Zenon DEF InstallInv
<1>2. CASE Compare
  BY <1>2, Zenon DEF Compare, KuboStep
<1>3. CASE AwaitReady \/ IpfsInit \/ ReadExpected \/ Substitute \/ Install \/ Clean \/ Daemon
  BY <1>3, Zenon DEF InstallInv, AwaitReady, IpfsInit, ReadExpected, Substitute, Install, Clean,
       Daemon, KuboStep
<1>4. CASE KuboCrash
  BY <1>4, Zenon DEF KuboCrash
<1>5. CASE UNCHANGED idVars
  BY <1>5, Zenon DEF idVars, files, kuboVars, InstallInv
<1>6. QED
  BY <1>1, <1>2, <1>3, <1>4, <1>5, Zenon DEF IdentityNext, Sidecar

(* While the mnemonic stays the same, the script finds the private key     *)
(* wherever it needs it, and the two halves of the identity belong         *)
(* together.                                                               *)
LEMMA KeyAtHand ==
    ASSUME IdentityTypeOK, FilesInv, StillInv, moves = 0
    PROVE  /\ config.peer = config.key
           /\ kpc \in {"compare", "install"} /\ config.peer # expected => keyFile # None
<1>1. config \in {NoConfig, Pair(Random), Pair(env)}
  BY Zenon DEF StillInv
<1>2. config.peer = config.key /\ (config = Pair(env) => config.peer = env)
  BY <1>1 DEF NoConfig, Pair
<1>3. ASSUME kpc \in {"compare", "install"}, config.peer # expected
      PROVE  keyFile # None
  <2>1. readyFile # None /\ expected = env
    BY <1>3, IdentityAssumption, Zenon DEF FilesInv, StillInv
  <2>2. keyFile = env
    BY <1>2, <1>3, <2>1, Zenon DEF StillInv
  <2>3. QED
    BY <2>2, IdentityAssumption, Zenon DEF IdentityTypeOK
<1>4. QED
  BY <1>2, <1>3, Zenon

LEMMA SidecarStepNears ==
    ASSUME IdentityTypeOK, FilesInv, StillInv, InstallInv, Sidecar, moves' = 0
    PROVE  KuboDistance' < KuboDistance
<1>0. moves = 0
  BY Zenon DEF Sidecar, AwaitReady, IpfsInit, ReadExpected, Compare, Substitute, Install, Clean,
       Daemon, KuboStep
<1> USE DEF KuboDistance
<1>1. CASE AwaitReady
  BY <1>1 DEF AwaitReady, KuboStep
<1>2. CASE IpfsInit
  BY <1>2 DEF IpfsInit, KuboStep
<1>3. CASE ReadExpected
  BY <1>3 DEF ReadExpected, KuboStep
<1>4. CASE Compare
  <2>1. ~(config.peer # expected /\ keyFile = None)
    BY <1>0, <1>4, KeyAtHand, Zenon DEF Compare, KuboStep
  <2>2. KuboStep("compare", "clean") \/ KuboStep("compare", "install")
    BY <1>4, <2>1, Zenon DEF Compare
  <2>3. QED
    BY <2>2 DEF KuboStep
<1>5. CASE Substitute
  <2>1. keyFile # None
    BY <1>0, <1>5, KeyAtHand, Zenon DEF Substitute, KuboStep, InstallInv
  <2>2. KuboStep("install", "move")
    BY <1>5, <2>1, Zenon DEF Substitute
  <2>3. QED
    BY <2>2 DEF KuboStep
<1>6. CASE Install
  BY <1>6 DEF Install, KuboStep
<1>7. CASE Clean
  BY <1>7 DEF Clean, KuboStep
<1>8. CASE Daemon
  <2>1. config.peer = config.key
    BY <1>0, KeyAtHand, Zenon
  <2>2. KuboStep("start", "daemon")
    BY <1>8, <2>1, Zenon DEF Daemon
  <2>3. QED
    BY <2>2 DEF KuboStep
<1>9. QED
  BY <1>1, <1>2, <1>3, <1>4, <1>5, <1>6, <1>7, <1>8, Zenon DEF Sidecar

LEMMA SidecarKeepsIdentity ==
    ASSUME IdentityTypeOK, FilesInv, StillInv, InstallInv, Sidecar, moves' = 0,
           config.peer \in Mnemonic
    PROVE  config' = config
<1>1. config = Pair(env) /\ config.peer = env
  <2>1. config \in {NoConfig, Pair(Random), Pair(env)}
    BY Zenon DEF StillInv, Sidecar, AwaitReady, IpfsInit, ReadExpected, Compare, Substitute,
         Install, Clean, Daemon, KuboStep
  <2>2. QED
    BY <2>1, IdentityAssumption DEF NoConfig, Pair
<1>2. ~Install
  <2> SUFFICES ASSUME Install
               PROVE  FALSE
    BY Zenon
  <2>1. kpc = "move" /\ moves = 0
    BY Zenon DEF Install, KuboStep
  <2>2. expected = env
    BY <2>1, IdentityAssumption, Zenon DEF FilesInv, StillInv
  <2>3. QED
    BY <1>1, <2>1, <2>2, Zenon DEF InstallInv
<1>3. config # NoConfig
  BY IdentityAssumption DEF NoConfig
<1>4. QED
  BY <1>2, <1>3, Zenon DEF Sidecar, AwaitReady, IpfsInit, ReadExpected, Compare, Substitute, Clean,
         Daemon, files

LEMMA StepNearsDaemon ==
    ASSUME IdentityTypeOK, FilesInv, StillInv, InstallInv, [IdentityNext]_idVars
    PROVE  SidecarNears
<1> SUFFICES ASSUME moves' = 0
             PROVE  SidecarNears!2
  BY Zenon DEF SidecarNears
<1>1. CASE Prepare \/ PrepareFails \/ NodeCrash \/ UNCHANGED idVars
  <2>1. UNCHANGED <<kpc, config>> /\ (readyFile' = readyFile \/ readyFile' = mnemonic)
    BY <1>1, Zenon DEF Prepare, NodeBoot, CheckMarker, WritePeerID, ReadConfig, WriteKey, RemoveKey,
         WriteReady, NodeStep, PrepareFails, NodeCrash, files, kuboVars, idVars
  <2>2. readyFile' = readyFile \/ readyFile' # None
    BY <1>1, IdentityAssumption, Zenon DEF Prepare, NodeBoot, CheckMarker, WritePeerID, ReadConfig,
         WriteKey, RemoveKey, WriteReady, NodeStep, PrepareFails, NodeCrash, files, idVars, FilesInv
  <2>3. KuboDistance' = KuboDistance
    BY <2>1, Zenon DEF KuboDistance
  <2>4. ~Sidecar \/ kpc' # kpc
    BY Zenon DEF Sidecar, AwaitReady, IpfsInit, ReadExpected, Compare, Substitute, Install, Clean,
         Daemon, KuboStep
  <2>5. KuboDistance \in Int
    BY DEF KuboDistance
  <2>6. ~(KuboDistance' > KuboDistance)
    BY <2>3, <2>5
  <2>7. QED
    BY <2>1, <2>2, <2>4, <2>6, Zenon
<1>2. CASE Sidecar
  <2>1. KuboDistance' < KuboDistance
    BY <1>2, SidecarStepNears, Zenon
  <2>2. KuboDistance \in Int /\ KuboDistance' \in Int
    BY DEF KuboDistance
  <2>3. ~(KuboDistance' > KuboDistance)
    BY <2>1, <2>2
  <2>4. readyFile' = readyFile
    BY <1>2, Zenon DEF Sidecar, AwaitReady, IpfsInit, ReadExpected, Compare, Substitute, Install,
         Clean, Daemon, files
  <2>5. config.peer \in Mnemonic => config' = config
    BY <1>2, SidecarKeepsIdentity, Zenon
  <2>6. QED
    BY <2>1, <2>3, <2>4, <2>5, Zenon
<1>3. CASE KuboCrash
  <2>1. readyFile' = readyFile /\ config' = config
    BY <1>3, Zenon DEF KuboCrash, files
  <2>2. ~Sidecar \/ cuts' = cuts
    BY ZenonT(30) DEF Sidecar, AwaitReady, IpfsInit, ReadExpected, Compare, Substitute, Install,
         Clean, Daemon, KuboStep
  <2>3. cuts' # cuts
    BY <1>3 DEF KuboCrash, Cut, IdentityTypeOK
  <2>4. QED
    BY <1>3, <2>1, <2>2, <2>3, Zenon
<1>4. CASE \E m \in Mnemonic : ChangeMnemonic(m)
  BY <1>4 DEF ChangeMnemonic, IdentityTypeOK
<1>5. QED
  BY <1>1, <1>2, <1>3, <1>4, Zenon DEF IdentityNext

(* Once the handoff is complete and as long as the mnemonic stays the      *)
(* same, no restart, crash or failure of the node keeps the sidecar from   *)
(* its daemon or takes it a step back: eight steps of its own bring it up. *)
THEOREM SidecarNearsDaemon == FairSpec => [][SidecarNears]_idVars
<1>1. Init => IdentityTypeOK /\ FilesInv /\ StillInv /\ InstallInv
  <2> SUFFICES ASSUME Init
               PROVE  IdentityTypeOK /\ FilesInv /\ StillInv /\ InstallInv
    BY Zenon
  <2>1. IdentityInit
    BY Zenon DEF Init
  <2>2. IdentityTypeOK /\ FilesInv
    BY <2>1, HandoffStarts, Zenon DEF HandoffInv
  <2>3. StillInv /\ InstallInv
    BY <2>1, IdentityAssumption, Zenon DEF IdentityInit, StillInv, InstallInv, NoConfig, Pair
  <2>4. QED
    BY <2>2, <2>3, Zenon
<1>2. IdentityTypeOK /\ FilesInv /\ StillInv /\ InstallInv /\ [Next]_vars =>
          IdentityTypeOK' /\ FilesInv' /\ StillInv' /\ InstallInv'
  BY HandoffApart, HandoffTypes, HandoffFiles, StillKept, InstallKept, ZenonT(30)
<1>3. IdentityTypeOK /\ FilesInv /\ StillInv /\ InstallInv /\ [Next]_vars =>
          [SidecarNears]_idVars
  BY HandoffApart, StepNearsDaemon, Zenon
<1>4. QED
  BY <1>1, <1>2, <1>3, PTL DEF FairSpec

-----------------------------------------------------------------------------
(* The types of the service                                                *)

(* A handler that serves a request has its content in hand.                *)
ServiceInv ==
    /\ state \in {"starting", "active", "degraded", "full", "unreachable"}
    /\ size \in 0 .. Cardinality(Object)
    /\ poll \in {"version", "stat"}
    /\ pins \subseteq stored /\ stored \subseteq Object
    /\ owed \subseteq Object
    /\ \A w \in Worker : wpc[w] # "idle" => object[w] \in Object

LEMMA SizeInRange ==
    ASSUME NEW S, S \subseteq Object
    PROVE  Cardinality(S) \in 0 .. Cardinality(Object)
<1>1. IsFiniteSet(S) /\ Cardinality(S) <= Cardinality(Object)
  BY DropAssumption, FS_Subset, Zenon
<1>2. Cardinality(S) \in Nat /\ Cardinality(Object) \in Nat
  BY <1>1, DropAssumption, FS_CardinalityType, Zenon
<1>3. QED
  BY <1>1, <1>2

LEMMA ServiceKept == PinInv /\ ServiceInv /\ [Next]_vars => ServiceInv'
<1> SUFFICES ASSUME PinInv, ServiceInv, [Next]_vars
             PROVE  ServiceInv'
  BY Zenon
<1> USE DEF snapshot, request, kubo
<1>1. 0 \in 0 .. Cardinality(Object) /\ Cardinality(stored) \in 0 .. Cardinality(Object)
  BY SizeInRange DEF ServiceInv
<1>2. CASE Handoff
  <2>1. UNCHANGED <<stored, pins, owed>>
    BY <1>2, Zenon DEF Handoff
  <2>2. /\ state' \in {"starting", "degraded", state} /\ size' \in {0, size}
        /\ poll' \in {"version", poll}
    BY <1>2, Zenon DEF Handoff, setSnapshot
  <2>3. \A w \in Worker : wpc'[w] # "idle" => object'[w] = object[w] /\ wpc'[w] = wpc[w]
    BY <1>2, Zenon DEF Handoff
  <2>4. QED
    BY <1>1, <2>1, <2>2, <2>3, Zenon DEF ServiceInv
<1>3. CASE refresh
  <2>1. UNCHANGED <<request, kubo, owed>>
    BY <1>3, Zenon DEF refresh, Version, VersionFails, RepoStats, RepoStatsFail
  <2>2. /\ state' \in {state, "unreachable", "full", "active", "degraded"}
        /\ size' \in {size, 0, Cardinality(stored)} /\ poll' \in {"stat", "version"}
    BY <1>3, Zenon DEF refresh, Version, VersionFails, RepoStats, RepoStatsFail, setSnapshot,
         ServiceInv
  <2>3. QED
    BY <1>1, <2>1, <2>2, Zenon DEF ServiceInv
<1>4. CASE Collect
  BY <1>4, Zenon DEF Collect, ServiceInv
<1>5. ASSUME NEW w \in Worker, NEW o \in Object, NEW good \in BOOLEAN, Upload(w, o, good)
      PROVE  ServiceInv'
  BY <1>5, Zenon DEF Upload, Goto, ServiceInv, PinInv
<1>6. ASSUME NEW w \in Worker, Finish(w), UNCHANGED <<snapshot, kubo>>, owed' \subseteq Object
      PROVE  ServiceInv'
  BY <1>6, Zenon DEF Finish, Goto, ServiceInv, PinInv
<1>7. ASSUME NEW w \in Worker, Admit(w) \/ AddFails(w)
      PROVE  ServiceInv'
  <2>1. CASE Finish(w)
    BY <1>6, <1>7, <2>1, Zenon DEF Admit, AddFails, ServiceInv
  <2>2. CASE Goto(w, "add") /\ wpc[w] = "admit" /\ UNCHANGED <<object, snapshot, kubo, owed>>
    BY <2>2, Zenon DEF Goto, ServiceInv, PinInv
  <2>3. QED
    BY <1>7, <2>1, <2>2, Zenon DEF Admit, AddFails
<1>8. ASSUME NEW w \in Worker, KuboAdds(w)
      PROVE  ServiceInv'
  <2>1. object[w] \in Object
    BY <1>8, Zenon DEF KuboAdds, ServiceInv
  <2>2. QED
    BY <1>8, <2>1, Zenon DEF KuboAdds, Goto, ServiceInv, PinInv
<1>9. ASSUME NEW w \in Worker, AddAnswered(w)
      PROVE  ServiceInv'
  <2>1. object[w] \in Object
    BY <1>9, Zenon DEF AddAnswered, ServiceInv
  <2>2. owed' \subseteq Object
    BY <1>9, <2>1, Zenon DEF AddAnswered, ServiceInv
  <2>3. QED
    BY <1>6, <1>9, <2>2, Zenon DEF AddAnswered
<1>10. ASSUME NEW o \in Object, Unpin(o)
       PROVE  ServiceInv'
  BY <1>10, Zenon DEF Unpin, ServiceInv
<1>11. CASE UNCHANGED vars
  BY <1>11, Zenon DEF vars, ServiceInv
<1>12. QED
  BY <1>2, <1>3, <1>4, <1>5, <1>7, <1>8, <1>9, <1>10, <1>11, ZenonT(30) DEF Next

(* The service keeps its types, for any finite set of contents: what the   *)
(* poller reports never exceeds what there is to store, what is pinned is  *)
(* stored, and nothing but contents of requests gets into Kubo (refresh,   *)
(* AddAndPin, Unpin and Kubo's garbage collection).                        *)
THEOREM DropKeepsTypes == FairSpec => []TypeOK
<1>1. Init => IdentityTypeOK /\ FilesInv /\ PinInv /\ ServiceInv
  <2> SUFFICES ASSUME Init
               PROVE  IdentityTypeOK /\ FilesInv /\ PinInv /\ ServiceInv
    BY Zenon
  <2>1. IdentityTypeOK /\ FilesInv
    BY HandoffStarts, Zenon DEF Init, HandoffInv
  <2>2. PinInv
    BY Zenon DEF Init, PinInv
  <2>3. 0 \in 0 .. Cardinality(Object)
    BY DropAssumption, FS_CardinalityType
  <2>4. ServiceInv
    BY <2>3, Zenon DEF Init, ServiceInv
  <2>5. QED
    BY <2>1, <2>2, <2>4, Zenon
<1>2. IdentityTypeOK /\ FilesInv /\ PinInv /\ ServiceInv /\ [Next]_vars =>
          IdentityTypeOK' /\ FilesInv' /\ PinInv' /\ ServiceInv'
  BY HandoffApart, HandoffTypes, HandoffFiles, PinsKept, ServiceKept, ZenonT(30)
<1>3. IdentityTypeOK /\ PinInv /\ ServiceInv => TypeOK
  BY Zenon DEF PinInv, ServiceInv, TypeOK
<1>4. QED
  BY <1>1, <1>2, <1>3, PTL DEF FairSpec
=============================================================================
