------------------------- MODULE GatewayLinkProofs -------------------------
(***************************************************************************)
(* For any number of starts, with and without faults, the node's link to   *)
(* its gateway implements the control channel, and the credentials it      *)
(* stores and works with are the ones the gateway has on record.           *)
(***************************************************************************)
EXTENDS GatewayCalls, TLAPS

Own == {"fresh", "stale"}
Redialling == {"dial", "refresh", "sleep", "session"}

(* The gateway knows the node wherever a token of its own is held, and a   *)
(* client works under the node's own id.                                   *)
KnownInv ==
    /\ minted # NoKey
    /\ mem.token \in Own => gwKey # NoKey
    /\ db.token \in Own => gwKey # NoKey
    /\ pc \in Redialling => mem.id = "me"
    /\ pc = "register" => ~Complete(mem)

(* How far a save has come: the settings before the one it writes next are *)
(* those of the credentials being saved, which are the gateway's.          *)
SaveInv ==
    pc = "save" =>
        /\ cred.id = "me" /\ cred.token = "fresh" /\ cred.key = gwKey /\ gwKey # NoKey
        /\ at # "id" => db.id = "me"
        /\ at \in {"key", "pub", "done"} => db.token = "fresh"
        /\ at \in {"pub", "done"} => db.key = gwKey
        /\ Complete(mem) => mem.key = gwKey

(* Where nothing went wrong since the last complete save, the settings are *)
(* the gateway's, so is the key of a client, and a node without a client   *)
(* has no registration of its own.                                         *)
MatchInv ==
    ~cut =>
        /\ db.id = "me" /\ pc # "save" => db.token \in Own /\ db.key = gwKey
        /\ pc \in Redialling => mem.key = gwKey /\ gwKey # NoKey /\ db.id = "me"
        /\ pc \in {"register", "offline"} /\ db.id = "me" => FALSE

LinkInv == TypeOK /\ KnownInv /\ SaveInv /\ MatchInv

(* The node starts without credentials of its own.                         *)
LEMMA LinkStarts == Init => LinkInv
<1> SUFFICES ASSUME Init
             PROVE  LinkInv
  BY Zenon
<1>1. reach \in BOOLEAN /\ cut \in BOOLEAN
  BY Zenon DEF Init
<1>2. NoCredentials \in Credentials /\ OtherCredentials \in Credentials
  BY Zenon DEF NoCredentials, OtherCredentials, Credentials, NoKey, OtherKey
<1>3. db.id # "me" /\ db.token \notin Own /\ mem.id = "none" /\ mem.token \notin Own
  BY DEF Init, NoCredentials, OtherCredentials, Own
<1>4. TypeOK
  BY <1>1, <1>2, <1>3, LinkAssumption
     DEF Init, TypeOK, Setting, NoKey, OperatorKey, FirstMinted
<1>5. KnownInv /\ SaveInv /\ MatchInv
  BY <1>3 DEF Init, KnownInv, SaveInv, MatchInv, Redialling, NoKey, FirstMinted
<1>6. QED
  BY <1>4, <1>5, Zenon DEF LinkInv

(* Every step keeps the variables in their types.                          *)
LEMMA LinkTypes == LinkInv /\ [Next]_vars => TypeOK'
<1> SUFFICES ASSUME LinkInv, [Next]_vars
             PROVE  TypeOK'
  BY Zenon
<1> USE LinkAssumption DEF LinkInv, TypeOK, Credentials, Setting, NoKey, OperatorKey, KnownInv
<1>1. CASE Load
  <2>1. PICK c \in LoadCredentials :
          mem' = Loaded(c) /\ pc' \in {"dial", "register", "offline"}
    BY <1>1, ZenonT(30) DEF Load
  <2>2. c \in Credentials
    <3>1. db \in Credentials /\ NoCredentials \in Credentials
      BY Zenon DEF NoCredentials
    <3>2. [db EXCEPT !.key = NoKey] \in Credentials
      BY Zenon
    <3>3. [db EXCEPT !.pub = FALSE] \in Credentials
      BY Zenon
    <3>4. [db EXCEPT !.key = NoKey, !.pub = FALSE] \in Credentials
      BY Zenon
    <3>5. QED
      BY <2>1, <3>1, <3>2, <3>3, <3>4, ZenonT(30) DEF LoadCredentials
  <2>3. Loaded(c) \in Credentials /\ Loaded(c).id # "other"
    <3>1. (c.pub \/ env.pub) \in BOOLEAN
      BY Zenon
    <3>2. QED
      BY <2>2, <3>1 DEF Loaded
  <2>4. cut' \in BOOLEAN
    BY <1>1, Zenon DEF Load
  <2>5. boots' \in 0 .. MaxBoots
    BY <1>1 DEF Load
  <2>6. UNCHANGED <<env, db, cred, at, gwKey, minted, reach>>
    BY <1>1, Zenon DEF Load, saving, gateway
  <2>7. QED
    BY <2>1, <2>3, <2>4, <2>5, <2>6
<1>2. CASE Register
  <2>1. gwKey' \in Nat /\ minted' \in Nat
    BY <1>2 DEF Register, GatewayRegisters
  <2>2. PICK p \in {TRUE, mem.pub} :
          cred' = [id |-> "me", token |-> "fresh", key |-> gwKey', pub |-> p]
    BY <1>2, Zenon DEF Register
  <2>3. p \in BOOLEAN
    BY <2>2, Zenon
  <2>4. cred' \in Credentials /\ cred'.id # "other"
    BY <2>1, <2>2, <2>3, Zenon
  <2>5. QED
    BY <1>2, <2>1, <2>4 DEF Register, GatewayRegisters
<1>3. CASE RegisterFails
  <2>1. cut' \in BOOLEAN
    BY <1>3, Zenon DEF RegisterFails
  <2>2. QED
    BY <1>3, <2>1 DEF RegisterFails, GatewayRegisters, saving, gateway
<1>4. CASE SaveSetting
  BY <1>4 DEF SaveSetting, Following, saving, gateway
<1>5. CASE Saved
  <2>1. cut' \in BOOLEAN
    BY <1>5, Zenon DEF Saved
  <2>2. QED
    BY <1>5, <2>1 DEF Saved, saving, gateway
<1>6. CASE Dial
  BY <1>6 DEF Dial, Goto, saving, gateway
<1>7. CASE DialRefused
  BY <1>7 DEF DialRefused, Goto, saving, gateway
<1>8. CASE DialFails
  BY <1>8 DEF DialFails, Goto, saving, gateway
<1>9. CASE Refresh
  BY <1>9 DEF Refresh, saving, gateway
<1>10. CASE RefreshFails
  BY <1>10 DEF RefreshFails, Goto, saving, gateway
<1>11. CASE Wake
  BY <1>11 DEF Wake, Goto, saving, gateway
<1>12. CASE SessionEnds
  BY <1>12 DEF SessionEnds, Goto, saving, gateway
<1>13. CASE Reachability
  BY <1>13 DEF Reachability, saving, gateway
<1>14. CASE Expire
  BY <1>14 DEF Expire, Aged, saving, gateway
<1>15. CASE Crash
  BY <1>15, ZenonT(30) DEF Crash, NoCredentials, saving, gateway
<1>16. CASE UNCHANGED vars
  BY <1>16 DEF vars, saving, gateway
<1>17. QED
  BY <1>1, <1>2, <1>3, <1>4, <1>5, <1>6, <1>7, <1>8, <1>9, <1>10, <1>11, <1>12, <1>13, <1>14, <1>15, <1>16, Zenon
  DEF Next, Client

(* What a start may read of the stored id and token: both or neither.      *)
LEMMA LoadReads ==
    ASSUME TypeOK, NEW c \in LoadCredentials
    PROVE  /\ (c.id = db.id /\ c.token = db.token) \/ (c.id = "none" /\ c.token = "none")
           /\ c.key = db.key => c = NoCredentials \/ (c.id = db.id /\ c.token = db.token)
<1> USE DEF TypeOK, Credentials
<1>1. CASE c = db
  BY <1>1, Zenon
<1>2. CASE c = NoCredentials
  BY <1>2 DEF NoCredentials
<1>3. CASE c = [db EXCEPT !.key = NoKey]
  BY <1>3
<1>4. CASE c = [db EXCEPT !.pub = FALSE]
  BY <1>4
<1>5. CASE c = [db EXCEPT !.key = NoKey, !.pub = FALSE]
  BY <1>5
<1>6. QED
  BY <1>1, <1>2, <1>3, <1>4, <1>5, ZenonT(30) DEF LoadCredentials

(* Every step keeps the gateway informed: a token comes from it.           *)
LEMMA KnownKept == LinkInv /\ [Next]_vars => KnownInv'
<1> SUFFICES ASSUME LinkInv, [Next]_vars
             PROVE  KnownInv'
  BY Zenon
<1> USE LinkAssumption DEF LinkInv, TypeOK, Credentials, Setting, NoKey, OperatorKey, KnownInv, SaveInv, Own, Redialling, Complete
<1>1. CASE Load
  <2>1. PICK c \in LoadCredentials :
           mem' = Loaded(c) /\ pc' = IF Complete(Loaded(c)) THEN "dial"
                                    ELSE IF env.auto THEN "register" ELSE "offline"
    BY <1>1, Zenon DEF Load
  <2>2. (c.id = db.id /\ c.token = db.token) \/ (c.id = "none" /\ c.token = "none")
    BY LoadReads, Zenon
  <2>3. UNCHANGED <<db, gwKey, minted>>
    BY <1>1, Zenon DEF Load, gateway
  <2>4. QED
    BY <2>1, <2>2, <2>3 DEF Loaded
<1>2. CASE Register
  BY <1>2 DEF Register, GatewayRegisters, saving, gateway
<1>3. CASE RegisterFails
  BY <1>3 DEF RegisterFails, GatewayRegisters, saving, gateway
<1>4. CASE SaveSetting
  BY <1>4, Zenon DEF SaveSetting, Following, saving, gateway
<1>5. CASE Saved
  BY <1>5, Zenon DEF Saved, saving, gateway
<1>6. CASE Dial
  BY <1>6, Zenon DEF Dial, Goto, saving, gateway
<1>7. CASE DialRefused
  BY <1>7, Zenon DEF DialRefused, Goto, saving, gateway
<1>8. CASE DialFails
  BY <1>8, Zenon DEF DialFails, Goto, saving, gateway
<1>9. CASE Refresh
  BY <1>9, Zenon DEF Refresh, saving, gateway
<1>10. CASE RefreshFails
  BY <1>10, Zenon DEF RefreshFails, Goto, saving, gateway
<1>11. CASE Wake
  BY <1>11, Zenon DEF Wake, Goto, saving, gateway
<1>12. CASE SessionEnds
  BY <1>12, ZenonT(30) DEF SessionEnds, Goto, saving, gateway
<1>13. CASE Reachability
  BY <1>13, Zenon DEF Reachability, saving, gateway
<1>14. CASE Expire
  BY <1>14, Zenon DEF Expire, Aged, saving, gateway
<1>15. CASE Crash
  BY <1>15, Zenon DEF Crash, NoCredentials, saving, gateway
<1>16. CASE UNCHANGED vars
  BY <1>16, ZenonT(30) DEF vars, saving, gateway
<1>17. QED
  BY <1>1, <1>2, <1>3, <1>4, <1>5, <1>6, <1>7, <1>8, <1>9, <1>10, <1>11, <1>12, <1>13, <1>14, <1>15, <1>16, Zenon
  DEF Next, Client

(* Every step keeps the order of a save.                                   *)
LEMMA SaveKept == LinkInv /\ [Next]_vars => SaveInv'
<1> SUFFICES ASSUME LinkInv, [Next]_vars
             PROVE  SaveInv'
  BY Zenon
<1> USE LinkAssumption DEF LinkInv, TypeOK, Credentials, Setting, NoKey, OperatorKey, KnownInv, SaveInv, Own, Redialling, Complete
<1>1. CASE Load
  BY <1>1, ZenonT(30) DEF Load, LoadCredentials, Loaded, Complete, NoCredentials, saving, gateway
<1>2. CASE Register
  BY <1>2 DEF Register, GatewayRegisters, saving, gateway
<1>3. CASE RegisterFails
  BY <1>3, Zenon DEF RegisterFails, GatewayRegisters, saving, gateway
<1>4. CASE SaveSetting
  BY <1>4, ZenonT(30) DEF SaveSetting, Following, saving, gateway
<1>5. CASE Saved
  BY <1>5, Zenon DEF Saved, saving, gateway
<1>6. CASE Dial
  BY <1>6, Zenon DEF Dial, Goto, saving, gateway
<1>7. CASE DialRefused
  BY <1>7, Zenon DEF DialRefused, Goto, saving, gateway
<1>8. CASE DialFails
  BY <1>8, Zenon DEF DialFails, Goto, saving, gateway
<1>9. CASE Refresh
  BY <1>9, Zenon DEF Refresh, saving, gateway
<1>10. CASE RefreshFails
  BY <1>10, Zenon DEF RefreshFails, Goto, saving, gateway
<1>11. CASE Wake
  BY <1>11, Zenon DEF Wake, Goto, saving, gateway
<1>12. CASE SessionEnds
  BY <1>12, Zenon DEF SessionEnds, Goto, saving, gateway
<1>13. CASE Reachability
  BY <1>13, Zenon DEF Reachability, saving, gateway
<1>14. CASE Expire
  BY <1>14, Zenon DEF Expire, Aged, saving, gateway
<1>15. CASE Crash
  BY <1>15, Zenon DEF Crash, NoCredentials, saving, gateway
<1>16. CASE UNCHANGED vars
  BY <1>16, ZenonT(30) DEF vars, saving, gateway
<1>17. QED
  BY <1>1, <1>2, <1>3, <1>4, <1>5, <1>6, <1>7, <1>8, <1>9, <1>10, <1>11, <1>12, <1>13, <1>14, <1>15, <1>16, Zenon
  DEF Next, Client

(* Every step keeps settings, node and gateway in agreement, or sets cut.  *)
LEMMA MatchKept == LinkInv /\ [Next]_vars => MatchInv'
<1> SUFFICES ASSUME LinkInv, [Next]_vars
             PROVE  MatchInv'
  BY Zenon
<1> USE LinkAssumption DEF LinkInv, TypeOK, Credentials, Setting, NoKey, OperatorKey, KnownInv, SaveInv, MatchInv, Own, Redialling, Complete
<1>1. CASE Load
  <2> SUFFICES ASSUME ~cut'
               PROVE  MatchInv'
    BY Zenon
  <2>1. PICK c \in LoadCredentials :
           /\ mem' = Loaded(c)
           /\ cut' = (cut \/ c.key # db.key)
           /\ pc' = IF Complete(Loaded(c)) THEN "dial"
                    ELSE IF env.auto THEN "register" ELSE "offline"
    BY <1>1, Zenon DEF Load
  <2>2. ~cut /\ c.key = db.key
    BY <2>1, Zenon
  <2>3. pc = "down" /\ UNCHANGED <<db, gwKey>>
    BY <1>1, Zenon DEF Load, gateway
  <2>4. db.id = "me" => db.token \in Own /\ db.key = gwKey /\ gwKey # NoKey
    BY <2>2, <2>3, Zenon
  <2>5. db.id = "me" => c.id = "me" /\ c.token = db.token
    <3>1. (c.id = db.id /\ c.token = db.token) \/ c = NoCredentials
      BY <2>2, LoadReads, Zenon
    <3>2. c = NoCredentials => c.key = NoKey
      BY SMT DEF NoCredentials
    <3>3. QED
      BY <2>2, <2>4, <3>1, <3>2, Zenon
  <2>6. db.id # "me" => mem'.id = "none"
    <3>1. c.id \in {db.id, "none"} /\ db.id \in {"none", "me", "other"}
      BY LoadReads, Zenon
    <3>2. QED
      BY <2>1, <3>1 DEF Loaded
  <2>7. db.id = "me" => pc' = "dial" /\ mem'.key = gwKey
    BY <2>1, <2>2, <2>4, <2>5 DEF Loaded
  <2>8. db.id # "me" => pc' \in {"register", "offline"}
    BY <2>1, <2>6, Zenon
  <2>9. QED
    BY <2>3, <2>4, <2>7, <2>8, Zenon
<1>2. CASE Register
  BY <1>2, Zenon DEF Register, GatewayRegisters, saving, gateway
<1>3. CASE RegisterFails
  BY <1>3, Zenon DEF RegisterFails, GatewayRegisters, saving, gateway
<1>4. CASE SaveSetting
  BY <1>4, Zenon DEF SaveSetting, Following, saving, gateway
<1>5. CASE Saved
  BY <1>5, Zenon DEF Saved, saving, gateway
<1>6. CASE Dial
  BY <1>6, Zenon DEF Dial, Goto, saving, gateway
<1>7. CASE DialRefused
  BY <1>7, ZenonT(30) DEF DialRefused, Goto, saving, gateway
<1>8. CASE DialFails
  BY <1>8, Zenon DEF DialFails, Goto, saving, gateway
<1>9. CASE Refresh
  BY <1>9, Zenon DEF Refresh, saving, gateway
<1>10. CASE RefreshFails
  BY <1>10, Zenon DEF RefreshFails, Goto, saving, gateway
<1>11. CASE Wake
  BY <1>11, ZenonT(30) DEF Wake, Goto, saving, gateway
<1>12. CASE SessionEnds
  BY <1>12 DEF SessionEnds, Goto, saving, gateway
<1>13. CASE Reachability
  BY <1>13, Zenon DEF Reachability, saving, gateway
<1>14. CASE Expire
  BY <1>14, ZenonT(30) DEF Expire, Aged, saving, gateway
<1>15. CASE Crash
  BY <1>15, Zenon DEF Crash, NoCredentials, saving, gateway
<1>16. CASE UNCHANGED vars
  BY <1>16, ZenonT(30) DEF vars, saving, gateway
<1>17. QED
  BY <1>1, <1>2, <1>3, <1>4, <1>5, <1>6, <1>7, <1>8, <1>9, <1>10, <1>11, <1>12, <1>13, <1>14, <1>15, <1>16, Zenon
  DEF Next, Client

(* Every step is one of the control channel, or does not concern it.       *)
LEMMA StepOfChannel == LinkInv /\ [Next]_vars => [Channel!Next]_(Channel!vars)
<1> SUFFICES ASSUME LinkInv, [Next]_vars
             PROVE  [Channel!Next]_(Channel!vars)
  BY Zenon
<1> USE DEF LinkInv, TypeOK, KnownInv, SaveInv, Own, Credentials, NoKey, Channel!vars, Channel!Next
<1>1. CASE Load
  BY <1>1, ZenonT(30) DEF Load, LoadCredentials, Loaded, Complete, Channel!Start, saving, gateway
<1>2. CASE Register
  BY <1>2, Zenon DEF Register, GatewayRegisters, Channel!Enrol, saving, gateway
<1>3. CASE RegisterFails
  BY <1>3, ZenonT(30) DEF RegisterFails, GatewayRegisters, Channel!Enrol, saving, gateway
<1>4. CASE SaveSetting
  BY <1>4, Zenon DEF SaveSetting, Channel!Record, saving, gateway
<1>5. CASE Saved
  BY <1>5, Zenon DEF Saved, saving, gateway
<1>6. CASE Dial
  BY <1>6, Zenon DEF Dial, Goto, Channel!Connect, saving, gateway
<1>7. CASE DialRefused
  BY <1>7, Zenon DEF DialRefused, Goto, saving, gateway
<1>8. CASE DialFails
  BY <1>8, Zenon DEF DialFails, Goto, saving, gateway
<1>9. CASE Refresh
  BY <1>9, Zenon DEF Refresh, saving, gateway
<1>10. CASE RefreshFails
  BY <1>10, Zenon DEF RefreshFails, Goto, saving, gateway
<1>11. CASE Wake
  BY <1>11, Zenon DEF Wake, Goto, saving, gateway
<1>12. CASE SessionEnds
  BY <1>12, ZenonT(30) DEF SessionEnds, Goto, Channel!Disconnect, saving, gateway
<1>13. CASE Reachability
  BY <1>13, Zenon DEF Reachability, saving, gateway
<1>14. CASE Expire
  BY <1>14, Zenon DEF Expire, Aged, saving, gateway
<1>15. CASE Crash
  BY <1>15, Zenon DEF Crash, Channel!Stop, saving, gateway
<1>16. CASE UNCHANGED vars
  BY <1>16, Zenon DEF vars, saving, gateway
<1>17. QED
  BY <1>1, <1>2, <1>3, <1>4, <1>5, <1>6, <1>7, <1>8, <1>9, <1>10, <1>11, <1>12, <1>13, <1>14, <1>15, <1>16, Zenon
  DEF Next, Client

(* The invariant holds of every behaviour.                                 *)
LEMMA LinkInvariant == Spec => []LinkInv
<1>1. LinkInv /\ [Next]_vars => LinkInv'
  BY LinkTypes, KnownKept, SaveKept, MatchKept, Zenon DEF LinkInv
<1>2. QED
  BY LinkStarts, <1>1, PTL DEF Spec

(* The link implements the control channel (Run, SaveCredentials, the      *)
(* refresher, Client.Run): for any number of starts, whatever crashes and  *)
(* fails, the gateway knows the node before the node records it, the       *)
(* record is never lost, and every session is of a node it knows.          *)
THEOREM LinkImplementsChannel == Spec => ImplementsChannel
<1>1. Init => Channel!Init
  BY DEF Init, Channel!Init, NoCredentials, OtherCredentials
<1>2. LinkInv /\ [Next]_vars => [Channel!Next]_(Channel!vars)
  BY StepOfChannel, Zenon
<1>3. QED
  BY <1>1, <1>2, LinkInvariant, PTL DEF Spec, ImplementsChannel, Channel!Spec

(* Where the invariant holds, a client can refresh its token and the       *)
(* stored settings belong together.                                        *)
LEMMA LinkImplies == LinkInv => CanRefresh /\ CredentialsMatch
BY Zenon DEF LinkInv, SaveInv, MatchInv, CanRefresh, CredentialsMatch, ClientRuns, Redialling, Own

(* For any number of starts the client holds the key the gateway knows,    *)
(* since the last complete save: the refresher can renew its token         *)
(* (SaveCredentials, LoadCredentials, the refresher).                      *)
THEOREM CredentialsStayUsable == Spec => [](TypeOK /\ CanRefresh)
<1>1. LinkInv => TypeOK /\ CanRefresh
  BY LinkImplies, Zenon DEF LinkInv
<1>2. QED
  BY <1>1, LinkInvariant, PTL

(* For any number of starts, a stored id comes with a token issued for it  *)
(* and with the key the gateway knows, since the last complete save        *)
(* (SaveCredentials writes the three one by one).                          *)
THEOREM CredentialsStayTogether == Spec => []CredentialsMatch
<1>1. LinkInv => CredentialsMatch
  BY LinkImplies, Zenon
<1>2. QED
  BY <1>1, LinkInvariant, PTL

(* A node reports itself registered exactly when it runs a client (the     *)
(* readiness provider of Run against its own decision).                    *)
THEOREM ReportedRegistrationIsUsed == Spec => []RegisteredMeansClient
<1>1. LinkInv => RegisteredMeansClient
  <2> SUFFICES ASSUME LinkInv, pc \notin {"down", "register", "save"}, ~cut, db.id # "other"
               PROVE  GatewayRegistered <=> ClientRuns
    BY Zenon DEF RegisteredMeansClient
  <2> USE DEF LinkInv, TypeOK, MatchInv, GatewayRegistered, ClientRuns
  <2>1. CASE pc = "offline"
    BY <2>1, Zenon DEF Credentials
  <2>2. CASE pc \in Redialling
    BY <2>2, Zenon DEF Redialling, Own
  <2>3. QED
    BY <2>1, <2>2, Zenon DEF Redialling
<1>2. QED
  BY <1>1, LinkInvariant, PTL

(* The gateway's calls get through to a node that runs a client            *)
(* (gatewayAuthForPurpose, VerifyGatewayCall).                             *)
THEOREM GatewayGetsThrough == Spec => []GatewayHeard
<1>1. LinkInv => GatewayHeard
  <2> SUFFICES ASSUME LinkInv, ClientRuns, ~cut, mem.pub,
                      NEW p \in Purpose, NEW debug \in BOOLEAN
               PROVE  gatewayAuthForPurpose(p, debug, CallOf(p))
    BY Zenon DEF GatewayHeard
  <2>1. mem.key = gwKey /\ gwKey # NoKey
    BY Zenon DEF LinkInv, SaveInv, MatchInv, ClientRuns, Redialling
  <2>2. mem.id = "me"
    BY Zenon DEF LinkInv, TypeOK, KnownInv, Credentials, ClientRuns, Complete, Redialling
  <2>3. QED
    BY <2>1, <2>2, Zenon
       DEF gatewayAuthForPurpose, CallOf, VerifyGatewayCall, VerifyGatewayCallPurpose, NodeID
<1>2. QED
  BY <1>1, LinkInvariant, PTL

-----------------------------------------------------------------------------
(* What the control channel promises, whoever implements it                *)

LEMMA ChannelSound == Channel!Spec => []Channel!Sound
<1>1. Channel!Init => Channel!Sound
  BY Zenon DEF Channel!Init, Channel!Sound
<1>2. Channel!Sound /\ [Channel!Next]_(Channel!vars) => Channel!Sound'
  BY Zenon DEF Channel!Sound, Channel!Next, Channel!vars, Channel!Start, Channel!Stop,
               Channel!Enrol, Channel!Record, Channel!Connect, Channel!Disconnect
<1>3. QED
  BY <1>1, <1>2, PTL DEF Channel!Spec

LEMMA ChannelRemembers == Channel!Spec => Channel!Remembers
<1>1. [Channel!Next]_(Channel!vars) => [Channel!Recalls]_(Channel!vars)
  BY Zenon DEF Channel!Recalls, Channel!Next, Channel!vars, Channel!Start, Channel!Stop,
               Channel!Enrol, Channel!Record, Channel!Connect, Channel!Disconnect
<1>2. QED
  BY <1>1, PTL DEF Channel!Spec, Channel!Remembers

(* Through crashes, broken saves and expired tokens a node that has its    *)
(* registration on record keeps it, the gateway it was recorded with knows *)
(* the node, and every session is of a node the gateway knows: the client  *)
(* inherits it from the control channel it implements (Run,                *)
(* SaveCredentials, the refresher).                                        *)
THEOREM RegistrationIsKept == Spec => []Channel!Sound /\ Channel!Remembers
BY LinkImplementsChannel, ChannelSound, ChannelRemembers, PTL DEF ImplementsChannel

-----------------------------------------------------------------------------
(* The way back to a session                                               *)

(* A client that nothing keeps from its gateway.                           *)
CanConnect == reach /\ ClientRuns /\ mem.key = gwKey

(* The steps that are left to the next session, at most.                   *)
Distance ==
    CASE pc = "session" -> 0
      [] pc = "dial"    -> IF mem.token = "fresh" THEN 1 ELSE 8
      [] pc = "save"    -> CASE at = "done" -> 2 [] at = "pub" -> 3 [] at = "key" -> 4
                             [] at = "token" -> 5 [] OTHER -> 6
      [] pc = "refresh" -> 7
      [] OTHER          -> 9

(* As long as the gateway can be reached and the node runs, a client that  *)
(* holds its key stays one, and each of its steps brings it nearer to a    *)
(* session: no refused dial, refresh or broken save sends it back to sleep *)
(* (Client.Run, the refresher, SaveCredentials).                           *)
Nears ==
    CanConnect /\ reach' /\ pc' # "down" =>
        /\ CanConnect'
        /\ pc # "session" => Distance' <= Distance /\ (Client => Distance' < Distance)

(* A client has a token, and where the node's own id is held the gateway   *)
(* has given the node a key.                                               *)
TokenInv ==
    /\ pc \in Redialling => mem.token # "none"
    /\ mem.id = "me" \/ db.id = "me" => gwKey # NoKey

LEMMA TokenKept == LinkInv /\ TokenInv /\ [Next]_vars => TokenInv'
<1> SUFFICES ASSUME LinkInv, TokenInv, [Next]_vars
             PROVE  TokenInv'
  BY Zenon
<1> USE DEF TokenInv, Redialling
<1>1. CASE Load
  <2>1. PICK c \in LoadCredentials :
           mem' = Loaded(c) /\ pc' = IF Complete(Loaded(c)) THEN "dial"
                                    ELSE IF env.auto THEN "register" ELSE "offline"
    BY <1>1, Zenon DEF Load
  <2>2. c.id \in {db.id, "none"}
    BY <2>1, LoadReads, Zenon DEF LinkInv
  <2>3. mem'.id \in {db.id, "none"} /\ db' = db /\ gwKey' = gwKey
    BY <1>1, <2>1, <2>2, Zenon DEF Load, Loaded, gateway
  <2>4. QED
    BY <2>1, <2>3, Zenon DEF Complete
<1>2. CASE Register \/ RegisterFails
  <2>1. gwKey # NoKey => gwKey' # NoKey
    BY <1>2, Zenon DEF Register, RegisterFails, GatewayRegisters, gateway, LinkInv, KnownInv
  <2>2. mem' = mem /\ db' = db /\ pc' \notin Redialling
    BY <1>2, Zenon DEF Register, RegisterFails
  <2>3. QED
    BY <2>1, <2>2, Zenon
<1>3. CASE SaveSetting \/ Refresh
  <2>1. (pc = "save" /\ gwKey # NoKey) \/ db' = db
    BY <1>3, Zenon DEF SaveSetting, Refresh, LinkInv, SaveInv
  <2>2. mem' = mem /\ gwKey' = gwKey /\ pc' = "save"
    BY <1>3, Zenon DEF SaveSetting, Refresh, gateway
  <2>3. QED
    BY <2>1, <2>2, Zenon
<1>4. CASE Saved
  BY <1>4, Zenon DEF Saved, LinkInv, SaveInv, gateway
<1>5. CASE Dial \/ DialRefused \/ DialFails \/ RefreshFails \/ Wake \/ SessionEnds
  BY <1>5, Zenon DEF Dial, DialRefused, DialFails, RefreshFails, Wake, SessionEnds, Goto, gateway
<1>6. CASE Reachability \/ Crash
  <2>1. (pc' = pc /\ mem' = mem) \/ (pc' = "down" /\ mem' = NoCredentials)
    BY <1>6, Zenon DEF Reachability, Crash
  <2>2. db' = db /\ gwKey' = gwKey
    BY <1>6, Zenon DEF Reachability, Crash, gateway
  <2>3. QED
    BY <2>1, <2>2 DEF NoCredentials
<1>7. CASE Expire
  <2>1. /\ mem'.token = IF mem.token = "fresh" THEN "stale" ELSE mem.token
        /\ mem'.id = mem.id /\ db'.id = db.id
    BY <1>7, Zenon DEF Expire, Aged, LinkInv, TypeOK, Credentials
  <2>2. QED
    BY <1>7, <2>1, Zenon DEF Expire, gateway
<1>8. CASE UNCHANGED vars
  BY <1>8, Zenon DEF vars, gateway
<1>9. QED
  BY <1>1, <1>2, <1>3, <1>4, <1>5, <1>6, <1>7, <1>8, Zenon DEF Next, Client

(* Every step of the client moves it on.                                   *)
LEMMA ClientMoves ==
    ASSUME Client
    PROVE  pc' # pc \/ at' # at
BY Zenon DEF Client, SaveSetting, Following, Saved, Dial, DialRefused, DialFails, Refresh, RefreshFails,
       Wake, Goto

LEMMA StepNears == LinkInv /\ TokenInv /\ [Next]_vars => Nears
<1> SUFFICES ASSUME LinkInv, TokenInv, [Next]_vars, CanConnect, reach', pc' # "down"
             PROVE  /\ CanConnect'
                    /\ pc # "session" => Distance' <= Distance /\ (Client => Distance' < Distance)
  BY Zenon DEF Nears
<1>0. /\ pc \in Redialling => Complete(mem)
      /\ reach /\ mem.key = gwKey /\ (pc \in Redialling \/ pc = "save") /\ Complete(mem)
      /\ pc = "save" => cred.token = "fresh" /\ cred.key = gwKey /\ cred.id = "me"
  BY Zenon DEF LinkInv, KnownInv, SaveInv, TokenInv, CanConnect, ClientRuns, Complete, Redialling
<1> USE DEF Distance
<1>1. CASE SaveSetting
  <2>1. /\ pc = "save" /\ pc' = "save" /\ at # "done" /\ at' = Following
        /\ mem' = mem /\ gwKey' = gwKey
    BY <1>1, Zenon DEF SaveSetting, gateway
  <2>2. CanConnect'
    BY <1>0, <2>1, Zenon DEF CanConnect, ClientRuns, Complete
  <2>3. Distance' < Distance
    BY <2>1 DEF Following, LinkInv, TypeOK, Setting
  <2>4. QED
    BY <2>2, <2>3
<1>2. CASE Saved
  <2>1. pc = "save" /\ pc' = "dial" /\ mem' = cred /\ gwKey' = gwKey
    BY <1>2, Zenon DEF Saved, gateway
  <2>2. CanConnect'
    BY <1>0, <2>1, Zenon DEF CanConnect, ClientRuns
  <2>3. Distance' = 1 /\ Distance \in 2 .. 6
    BY <1>0, <2>1
  <2>4. QED
    BY <2>2, <2>3
<1>3. CASE Dial
  BY <1>0, <1>3 DEF Dial, Goto, gateway, CanConnect, ClientRuns
<1>4. CASE DialRefused
  BY <1>0, <1>4 DEF DialRefused, Goto, gateway, CanConnect, ClientRuns
<1>5. CASE DialFails
  BY <1>0, <1>5, Zenon DEF DialFails
<1>6. CASE Refresh
  <2>1. pc = "refresh" /\ pc' = "save" /\ at' = "id" /\ mem' = mem /\ gwKey' = gwKey
    BY <1>6, Zenon DEF Refresh, gateway
  <2>2. CanConnect'
    BY <1>0, <2>1, Zenon DEF CanConnect, ClientRuns, Complete, Redialling
  <2>3. Distance' = 6 /\ Distance = 7
    BY <2>1, Zenon
  <2>4. QED
    BY <2>2, <2>3
<1>7. CASE RefreshFails
  <2>1. mem.key # NoKey
    BY <1>0, <1>7, Zenon DEF LinkInv, KnownInv, TokenInv, Redialling, RefreshFails
  <2>2. QED
    BY <1>0, <1>7, <2>1, Zenon DEF RefreshFails
<1>8. CASE Wake
  BY <1>0, <1>8 DEF Wake, Goto, gateway, CanConnect, ClientRuns
<1>9. CASE SessionEnds
  BY <1>0, <1>9, Zenon DEF SessionEnds, Goto, gateway, CanConnect, ClientRuns, Client, SaveSetting,
       Saved, Dial, DialRefused, DialFails, Refresh, RefreshFails, Wake
<1>10. CASE Load \/ Register \/ RegisterFails
  BY <1>0, <1>10, Zenon DEF Load, Register, RegisterFails, Redialling
<1>11. CASE Reachability \/ Crash
  BY <1>0, <1>11, Zenon DEF Reachability, Crash
<1>12. CASE Expire
  <2>1. pc \in {"sleep", "session"} /\ pc' = pc /\ gwKey' = gwKey /\ mem'.key = mem.key
    BY <1>0, <1>12, Zenon DEF Expire, Aged, Redialling, gateway, LinkInv, TypeOK, Credentials
  <2>2. Distance' = Distance
    BY <2>1, Zenon
  <2>3. ~Client
    BY <1>12, <2>1, ClientMoves, Zenon DEF Expire, saving
  <2>4. CanConnect'
    BY <1>0, <2>1, Zenon DEF CanConnect, ClientRuns
  <2>5. Distance \in Nat
    BY Zenon
  <2>6. QED
    BY <2>2, <2>3, <2>4, <2>5
<1>13. CASE UNCHANGED vars
  <2>1. ~Client /\ Distance' = Distance /\ CanConnect'
    BY <1>13, ClientMoves, Zenon DEF vars, CanConnect, ClientRuns, Complete, saving, gateway
  <2>2. Distance \in Nat
    BY Zenon
  <2>3. QED
    BY <2>1, <2>2
<1>14. QED
  BY <1>1, <1>2, <1>3, <1>4, <1>5, <1>6, <1>7, <1>8, <1>9, <1>10, <1>11, <1>12, <1>13, Zenon
  DEF Next, Client

(* The safety half of Reconnects, for any number of starts and any faults: *)
(* a reachable gateway is reconnected to within nine steps of the client.  *)
THEOREM ClientNearsSession == Spec => [][Nears]_vars
<1>1. Init => TokenInv
  BY DEF Init, TokenInv, Redialling, NoCredentials, OtherCredentials
<1>2. LinkInv /\ TokenInv /\ [Next]_vars => [Nears]_vars
  BY StepNears, Zenon
<1>3. QED
  BY <1>1, <1>2, TokenKept, LinkInvariant, PTL DEF Spec
=============================================================================
