--------------------------- MODULE FirewallProofs ---------------------------
(***************************************************************************)
(* For any readers, request handlers, files and policies: what the node's  *)
(* firewall client and Sentinel keep in force, which policies get that     *)
(* far, and what the set-up of Shield leaves alone.                        *)
(***************************************************************************)
EXTENDS Firewall, TLAPS

(* The files as far as a writer has come with policy p.                    *)
Written(h, p) ==
    /\ writer[h].pol = p
    /\ writer[h].open \in writer[h].left \cup {NoFile}
    /\ writer[h].open # NoFile => files[writer[h].open] = Empty
    /\ \A f \in File : f \notin writer[h].left => files[f] = p

(* A reader whose apply has had the files to itself so far: it waits on    *)
(* the only writer, or on none if Sentinel has stopped, or has all of its  *)
(* policy written.                                                         *)
AloneInv ==
    \A r \in Reader : cmd[r].alone =>
        /\ held = NoPolicy
        /\ \A o \in Reader : cmd[o].alone => o = r
        /\ \/ /\ cmd[r].pc = "wait"
              /\ cmd[r].at \in Handler
              /\ \A h \in Handler : Idle(h) \/ (h = cmd[r].at /\ Written(h, cmd[r].pol))
           \/ /\ cmd[r].pc = "reload"
              /\ \A h \in Handler : Idle(h)
              /\ \A f \in File : files[f] = cmd[r].pol

(* While a policy is held nobody writes.                                   *)
HeldInv ==
    held # NoPolicy =>
        /\ \A h \in Handler : Idle(h)
        /\ \A f \in File : files[f] = held
        /\ up => loaded = held

(* Without overlapping syncs the client is licensed as the payload says,   *)
(* so an unlicensed one does not get past the first read.                  *)
LicenceInv ==
    ~crossed =>
        /\ \A r \in Reader :
             /\ At(r, "check") /\ licensed => cmd[r].pol \notin Lapsed
             /\ cmd[r].pc \in {"body", "license", "apply"} => cmd[r].pol \notin Lapsed
        /\ \A h \in Handler : writer[h].pol \notin Lapsed
        /\ \A f \in File : files[f] \notin Lapsed

(* The set-up writes back what it read before anyone picked upstreams.     *)
ShieldInv == setup = "write" /\ ~fresh => adguard.dns.upstream # "chosen"

FirewallInv == TypeOK /\ AloneInv /\ HeldInv /\ LicenceInv /\ ShieldInv

(* The node starts with nothing written and nobody in a command.           *)
LEMMA FirewallStarts == Init => FirewallInv
<1> SUFFICES ASSUME Init
             PROVE  FirewallInv
  BY Zenon
<1> USE NamesAssumption, HandlerAssumption, LicenceAssumption, LapsedAssumption
        DEF Init, SentinelInit, ShieldInit
<1>1. TypeOK
  <2>1. licensed \in BOOLEAN /\ crossed \in BOOLEAN /\ fresh \in BOOLEAN /\ up \in BOOLEAN
    BY Zenon
  <2>2. FactoryDns \in Dns /\ adguard \in [configured : BOOLEAN, pw : Password \cup {NoPw}, dns : Dns]
    BY Zenon DEF FactoryDns, Dns, Upstream
  <2>3. ShieldTypeOK
    BY <2>1, <2>2, Zenon DEF ShieldTypeOK
  <2>4. SentinelTypeOK
    BY <2>1, Zenon DEF SentinelTypeOK, Content, NoWriter
  <2>5. QED
    BY <2>1, <2>3, <2>4, Zenon DEF TypeOK, NoCmd, Pc
<1>2. AloneInv /\ HeldInv /\ ShieldInv
  BY Zenon DEF AloneInv, HeldInv, ShieldInv, NoCmd
<1>3. LicenceInv
  BY Zenon DEF LicenceInv, NoCmd, At, NoWriter
<1>4. QED
  BY <1>1, <1>2, <1>3, Zenon DEF FirewallInv

(* The sidecars keep the variables in their types.                         *)
LEMMA SidecarTypes == TypeOK /\ SidecarStep => TypeOK'
<1> SUFFICES ASSUME TypeOK, SidecarStep
             PROVE  TypeOK'
  BY Zenon
<1> USE NamesAssumption, LicenceAssumption
<1>1. SentinelStep => SentinelTypeOK'
  <2> SUFFICES ASSUME SentinelStep
               PROVE  SentinelTypeOK'
    BY Zenon
  <2> USE DEF TypeOK, SentinelTypeOK, Content
  <2>1. ASSUME NEW h \in Handler, NEW f \in File, OpenFile(h, f)
        PROVE  SentinelTypeOK'
    BY <2>1 DEF OpenFile
  <2>2. ASSUME NEW h \in Handler, WriteFile(h)
        PROVE  SentinelTypeOK'
    <3>1. writer[h] \in [pol : Policy \cup {NoPolicy}, left : SUBSET File, open : File \cup {NoFile}]
      BY Zenon
    <3>2. files' \in [File -> Content]
      BY <2>2, <3>1 DEF WriteFile
    <3>3. [writer[h] EXCEPT !.open = NoFile, !.left = @ \ {writer[h].open}]
            \in [pol : Policy \cup {NoPolicy}, left : SUBSET File, open : File \cup {NoFile}]
      BY <3>1, Zenon
    <3>4. writer' = [writer EXCEPT ![h] =
                      [writer[h] EXCEPT !.open = NoFile, !.left = @ \ {writer[h].open}]]
      BY <2>2, <3>1, Zenon DEF WriteFile
    <3>5. writer' \in [Handler -> [pol : Policy \cup {NoPolicy}, left : SUBSET File,
                                   open : File \cup {NoFile}]]
      BY <3>3, <3>4, Zenon
    <3>6. QED
      BY <2>2, <3>2, <3>5, Zenon DEF WriteFile
  <2>3. CASE SentinelStops
    BY <2>3, Zenon DEF SentinelStops, NoWriter
  <2>4. CASE SentinelStarts
    BY <2>4, Zenon DEF SentinelStarts, Whole
  <2>5. QED
    BY <2>1, <2>2, <2>3, <2>4, Zenon DEF SentinelStep
<1>2. ShieldStep => ShieldTypeOK'
  <2> SUFFICES ASSUME ShieldStep
               PROVE  ShieldTypeOK'
    BY Zenon
  <2> USE DEF TypeOK, ShieldTypeOK, Dns, Upstream
  <2>1. CASE ConfigureAdmin
    BY <2>1, ZenonT(60) DEF ConfigureAdmin, Install
  <2>2. CASE ReadDnsInfo
    BY <2>2, ZenonT(30) DEF ReadDnsInfo
  <2>3. CASE WriteDnsConfig
    BY <2>3 DEF WriteDnsConfig
  <2>4. CASE ReportCredentials
    BY <2>4 DEF ReportCredentials
  <2>5. CASE \E pw \in Password : PersonSetsUp(pw)
    BY <2>5, ZenonT(60) DEF PersonSetsUp, Install
  <2>6. CASE PersonChoosesUpstreams
    BY <2>6, ZenonT(30) DEF PersonChoosesUpstreams
  <2>7. CASE PersonTunes
    BY <2>7 DEF PersonTunes
  <2>8. QED
    BY <2>1, <2>2, <2>3, <2>4, <2>5, <2>6, <2>7, Zenon DEF ShieldStep
<1>3. UNCHANGED sentinelVars => SentinelTypeOK'
  BY Zenon DEF TypeOK, SentinelTypeOK, sentinelVars
<1>4. UNCHANGED shieldVars => ShieldTypeOK'
  BY Zenon DEF TypeOK, ShieldTypeOK, shieldVars
<1>5. QED
  BY <1>1, <1>2, <1>3, <1>4, Zenon DEF SidecarStep, TypeOK, clientVars

(* The types of a command and of a request that is being served.           *)
CmdType ==
    [pc : Pc, pol : Policy \cup {NoPolicy}, body : BOOLEAN, at : Handler \cup {NoHandler},
     alone : BOOLEAN, pw : Password \cup {NoPw}]

(* The node's own steps keep the variables in their types.                 *)
LEMMA CommandTypes ==
    ASSUME TypeOK, NEW r \in Reader, Command(r)
    PROVE  TypeOK'
<1> USE NamesAssumption, LapsedAssumption DEF TypeOK, CmdType, At, Goes, Answer
<1>1. cmd[r] \in CmdType /\ NoCmd \in CmdType
  BY Zenon DEF NoCmd, Pc
<1>2. UNCHANGED sentinelVars => SentinelTypeOK'
  BY Zenon DEF SentinelTypeOK, sentinelVars
<1>3. UNCHANGED shieldVars => ShieldTypeOK'
  BY Zenon DEF ShieldTypeOK, shieldVars
<1>4. ASSUME NEW p \in Policy, Sync(r, p)
      PROVE  TypeOK'
  <2>1. licensed' \in BOOLEAN /\ crossed' \in BOOLEAN
    BY <1>4, Zenon DEF Sync
  <2>2. cmd' \in [Reader -> CmdType]
    BY <1>1, <1>4 DEF Sync, Pc
  <2>3. QED
    BY <1>2, <1>3, <1>4, <2>1, <2>2, Zenon DEF Sync
<1>5. CASE CheckLicensed(r)
  <2>1. cmd' \in [Reader -> CmdType]
    BY <1>1, <1>5 DEF CheckLicensed, Pc
  <2>2. QED
    BY <1>2, <1>3, <1>5, <2>1, Zenon DEF CheckLicensed
<1>6. CASE LicenseBody(r)
  <2>1. [cmd[r] EXCEPT !.pc = "license", !.body = licensed] \in CmdType
    BY <1>1, ZenonT(30) DEF Pc
  <2>2. cmd' = [cmd EXCEPT ![r] = [cmd[r] EXCEPT !.pc = "license", !.body = licensed]]
    BY <1>6, <1>1, Zenon DEF LicenseBody
  <2>3. cmd' \in [Reader -> CmdType]
    BY <2>1, <2>2, Zenon
  <2>4. QED
    BY <1>2, <1>3, <1>6, <2>3, Zenon DEF LicenseBody
<1>7. CASE PostLicense(r)
  <2>1. cmd' \in [Reader -> CmdType]
    BY <1>1, <1>7 DEF PostLicense, Pc
  <2>2. SentinelTypeOK'
    <3>1. CASE handleLicenseCheck(cmd[r].body)
      BY <1>1, <3>1, Zenon DEF handleLicenseCheck, SentinelTypeOK
    <3>2. QED
      BY <1>2, <1>7, <3>1, Zenon DEF PostLicense
  <2>3. QED
    BY <1>3, <1>7, <2>1, <2>2, Zenon DEF PostLicense
<1>8. CASE PostApply(r)
  <2>1. PICK h \in Handler :
          /\ handlePolicyApply(h, cmd[r].pol)
          /\ cmd' = [o \in Reader |->
                       IF o = r THEN [cmd[r] EXCEPT !.pc = "wait", !.at = h,
                                                    !.alone = \A g \in Handler : Idle(g)]
                       ELSE [cmd[o] EXCEPT !.alone = FALSE]]
    BY <1>8, Zenon DEF PostApply
  <2>2. [cmd[r] EXCEPT !.pc = "wait", !.at = h, !.alone = \A g \in Handler : Idle(g)] \in CmdType
    BY <1>1, ZenonT(30) DEF Pc
  <2>3. \A o \in Reader : [cmd[o] EXCEPT !.alone = FALSE] \in CmdType
    <3>1. TAKE o \in Reader
    <3>2. cmd[o] \in CmdType
      BY Zenon
    <3>3. QED
      BY <3>2, Zenon
  <2>4. cmd' \in [Reader -> CmdType]
    BY <2>1, <2>2, <2>3, ZenonT(30)
  <2>5. SentinelTypeOK'
    BY <1>1, <2>1, Zenon DEF handlePolicyApply, SentinelTypeOK
  <2>6. QED
    BY <1>3, <1>8, <2>4, <2>5, Zenon DEF PostApply
<1>9. CASE ApplyRefused(r) \/ ApplyTimesOut(r) \/ ReloadFails(r)
  BY <1>1, <1>2, <1>3, <1>9 DEF ApplyRefused, ApplyTimesOut, ReloadFails
<1>10. CASE PostReload(r)
  <2>1. SentinelTypeOK'
    BY <1>10, Zenon DEF PostReload, handleReload, Whole, SentinelTypeOK
  <2>2. cmd' \in [Reader -> CmdType] /\ held' \in Policy \cup {NoPolicy}
    BY <1>1, <1>10, Zenon DEF PostReload
  <2>3. QED
    BY <1>3, <1>10, <2>1, <2>2, Zenon DEF PostReload
<1>11. CASE Restart(r)
  BY <1>1, <1>2, <1>3, <1>11, ZenonT(30) DEF Restart, Pc
<1>12. ASSUME NEW pw \in Password, SetAdminPassword(r, pw)
       PROVE  TypeOK'
  <2>1. [cmd[r] EXCEPT !.pc = "password", !.pw = pw] \in CmdType
    BY <1>1, Zenon DEF Pc
  <2>2. cmd' = [cmd EXCEPT ![r] = [cmd[r] EXCEPT !.pc = "password", !.pw = pw]]
    BY <1>12, <1>1, Zenon DEF SetAdminPassword
  <2>3. ShieldTypeOK'
    BY <1>12, Zenon DEF SetAdminPassword, ShieldTypeOK
  <2>4. QED
    BY <1>2, <1>12, <2>1, <2>2, <2>3 DEF SetAdminPassword
<1>13. CASE PostPassword(r)
  <2>1. adguard' \in [configured : BOOLEAN, pw : Password \cup {NoPw}, dns : Dns]
    BY <1>1, <1>13, ZenonT(30) DEF PostPassword, Install, ShieldTypeOK
  <2>2. ShieldTypeOK'
    BY <1>13, <2>1, Zenon DEF PostPassword, ShieldTypeOK
  <2>3. QED
    BY <1>1, <1>2, <1>13, <2>2, Zenon DEF PostPassword
<1>14. QED
  BY <1>4, <1>5, <1>6, <1>7, <1>8, <1>9, <1>10, <1>11, <1>12, <1>13, Zenon DEF Command

(* Every step keeps the variables in their types.                          *)
LEMMA FirewallTypes == TypeOK /\ [Next]_vars => TypeOK'
<1> SUFFICES ASSUME TypeOK, [Next]_vars
             PROVE  TypeOK'
  BY Zenon
<1>1. ASSUME NEW h \in Handler, ApplyEnds(h)
      PROVE  TypeOK'
  <2>1. NoWriter \in [pol : Policy \cup {NoPolicy}, left : SUBSET File, open : File \cup {NoFile}]
    BY Zenon DEF NoWriter
  <2> USE DEF TypeOK, SentinelTypeOK
  <2>2. SentinelTypeOK'
    BY <1>1, <2>1, ZenonT(30) DEF ApplyEnds, ApplyDone, ApplyFails
  <2>3. ASSUME NEW ok \in BOOLEAN, Answered(h, ok)
        PROVE  cmd' \in [Reader -> CmdType]
    <3>1. NoCmd \in CmdType
      BY Zenon DEF NoCmd, CmdType, Pc
    <3>2. \A r \in Reader : cmd[r] \in CmdType
      BY Zenon DEF CmdType
    <3>3. \A c \in CmdType : [c EXCEPT !.pc = "reload", !.at = NoHandler] \in CmdType
      BY Zenon DEF CmdType, Pc
    <3>4. QED
      BY <2>3, <3>1, <3>2, <3>3, Zenon DEF Answered
  <2>4. cmd' \in [Reader -> CmdType]
    BY <1>1, <2>3, Zenon DEF ApplyEnds
  <2>5. QED
    BY <1>1, <2>2, <2>4 DEF ApplyEnds, ShieldTypeOK, shieldVars, CmdType
<1>2. CASE NodeRestarts
  <2>1. licensed' \in BOOLEAN
    BY <1>2, Zenon DEF NodeRestarts, TypeOK, SentinelTypeOK
  <2>2. SentinelTypeOK'
    BY <1>2, Zenon DEF NodeRestarts, TypeOK, SentinelTypeOK, sentinelVars
  <2>3. ShieldTypeOK'
    BY <1>2, Zenon DEF NodeRestarts, TypeOK, ShieldTypeOK, ShieldBoots, shieldVars
  <2>4. QED
    BY <1>2, <2>1, <2>2, <2>3, Zenon DEF NodeRestarts, TypeOK, NoCmd, Pc
<1>3. CASE SidecarStep
  BY <1>3, SidecarTypes, Zenon
<1>4. CASE UNCHANGED vars
  BY <1>4 DEF vars, clientVars, sentinelVars, shieldVars, TypeOK, SentinelTypeOK, ShieldTypeOK
<1>5. QED
  BY <1>1, <1>2, <1>3, <1>4, CommandTypes, Zenon DEF Next

-----------------------------------------------------------------------------
(* Fragments that all hold one policy amount to that policy.               *)
LEMMA WholeOf ==
    ASSUME NEW p \in Policy, NEW fs, \A f \in File : fs[f] = p
    PROVE  Whole(fs) = p
<1>1. PICK f \in File : TRUE
  BY NamesAssumption, Zenon
<1>2. \A q \in Policy \cup {NoPolicy} : (\A g \in File : fs[g] = q) <=> q = p
  BY <1>1, Zenon
<1>3. QED
  BY <1>2, Zenon DEF Whole

(* Only the set-up and the people change AdGuard's upstreams, and a person *)
(* who does sets fresh.                                                    *)
LEMMA ShieldKept == FirewallInv /\ [Next]_vars => ShieldInv'
<1> SUFFICES ASSUME FirewallInv, [Next]_vars
             PROVE  ShieldInv'
  BY Zenon
<1> USE DEF FirewallInv, TypeOK, ShieldTypeOK, ShieldInv, shieldVars
<1>1. ASSUME NEW r \in Reader, Command(r)
      PROVE  UNCHANGED <<setup, fresh>> /\ adguard'.dns = adguard.dns
  BY <1>1, Zenon
     DEF Command, Sync, CheckLicensed, LicenseBody, PostLicense, PostApply, ApplyRefused,
         ApplyTimesOut, PostReload, ReloadFails, Restart, SetAdminPassword, PostPassword, Install
<1>2. ASSUME NEW h \in Handler, ApplyEnds(h)
      PROVE  ShieldInv'
  BY <1>2, Zenon DEF ApplyEnds
<1>3. CASE NodeRestarts
  BY <1>3, Zenon DEF NodeRestarts, ShieldBoots
<1>4. CASE ShieldStep
  <2>1. CASE ConfigureAdmin
    BY <2>1, Zenon DEF ConfigureAdmin
  <2>2. CASE ReadDnsInfo
    BY <2>2, Zenon DEF ReadDnsInfo
  <2>3. CASE WriteDnsConfig
    BY <2>3, Zenon DEF WriteDnsConfig
  <2>4. CASE ReportCredentials
    BY <2>4, Zenon DEF ReportCredentials
  <2>5. CASE \E pw \in Password : PersonSetsUp(pw)
    BY <2>5 DEF PersonSetsUp, Install
  <2>6. CASE PersonChoosesUpstreams
    BY <2>6, Zenon DEF PersonChoosesUpstreams
  <2>7. CASE PersonTunes
    BY <2>7, Zenon DEF PersonTunes, Dns
  <2>8. QED
    BY <1>4, <2>1, <2>2, <2>3, <2>4, <2>5, <2>6, <2>7, Zenon DEF ShieldStep
<1>5. CASE UNCHANGED shieldVars
  BY <1>5, SMTT(30)
<1>6. QED
  BY <1>1, <1>2, <1>3, <1>4, <1>5, Zenon DEF Next, SidecarStep, vars

(* A posted policy makes its reader wait, alone if nobody writes, and      *)
(* takes the files from every other reader.                                *)
LEMMA ApplyPosted ==
    ASSUME TypeOK, NEW r \in Reader, PostApply(r)
    PROVE  \E h \in Handler :
             /\ handlePolicyApply(h, cmd[r].pol)
             /\ cmd'[r].pc = "wait" /\ cmd'[r].at = h /\ cmd'[r].pol = cmd[r].pol
             /\ cmd'[r].alone => \A g \in Handler : Idle(g)
             /\ \A o \in Reader \ {r} :
                   cmd'[o].pc = cmd[o].pc /\ cmd'[o].pol = cmd[o].pol /\ ~cmd'[o].alone
<1>1. PICK h \in Handler :
         /\ handlePolicyApply(h, cmd[r].pol)
         /\ cmd' = [o \in Reader |->
                      IF o = r THEN [cmd[r] EXCEPT !.pc = "wait", !.at = h,
                                                   !.alone = \A g \in Handler : Idle(g)]
                      ELSE [cmd[o] EXCEPT !.alone = FALSE]]
  BY Zenon DEF PostApply
<1>2. \A o \in Reader : cmd[o] \in CmdType
  BY SMTT(30) DEF TypeOK, CmdType
<1>3. /\ cmd'[r].pc = "wait" /\ cmd'[r].at = h /\ cmd'[r].pol = cmd[r].pol
      /\ cmd'[r].alone => \A g \in Handler : Idle(g)
  BY <1>1, <1>2, ZenonT(30) DEF CmdType
<1>4. \A o \in Reader \ {r} :
        cmd'[o].pc = cmd[o].pc /\ cmd'[o].pol = cmd[o].pol /\ ~cmd'[o].alone
  BY <1>1, <1>2, ZenonT(30) DEF CmdType
<1>5. QED
  BY <1>1, <1>3, <1>4, Zenon

(* A payload that is unlicensed never gets to Sentinel's files, as long as *)
(* no other sync sets the licence in between.                              *)
LEMMA LicenceKept == FirewallInv /\ [Next]_vars => LicenceInv'
<1> SUFFICES ASSUME FirewallInv, [Next]_vars, ~crossed'
             PROVE  LicenceInv'
  BY SMTT(30) DEF LicenceInv
<1> USE NamesAssumption, LapsedAssumption
    DEF FirewallInv, TypeOK, SentinelTypeOK, LicenceInv, At, Goes, Answer, NoCmd, NoWriter,
        sentinelVars
<1>1. ~crossed
  <2>1. CASE \E r \in Reader, p \in Policy : Sync(r, p)
    BY <2>1, Zenon DEF Sync
  <2>2. CASE UNCHANGED crossed
    BY <2>2, Zenon
  <2>3. QED
    BY <2>1, <2>2, ZenonT(30)
       DEF Next, vars, clientVars, Command, CheckLicensed, LicenseBody, PostLicense, PostApply,
           ApplyRefused, ApplyTimesOut, PostReload, ReloadFails, Restart, SetAdminPassword,
           PostPassword, ApplyEnds, NodeRestarts, SidecarStep
<1>2. ASSUME NEW r \in Reader, Command(r)
      PROVE  LicenceInv'
  <2>1. ASSUME NEW p \in Policy, Sync(r, p)
        PROVE  LicenceInv'
    BY <1>1, <2>1 DEF Sync
  <2>2. CASE CheckLicensed(r)
    BY <1>1, <2>2 DEF CheckLicensed
  <2>3. CASE LicenseBody(r)
    BY <1>1, <2>3 DEF LicenseBody
  <2>4. CASE PostLicense(r)
    BY <1>1, <2>4 DEF PostLicense, handleLicenseCheck
  <2>5. CASE PostApply(r)
    <3>1. PICK h \in Handler :
             /\ handlePolicyApply(h, cmd[r].pol)
             /\ cmd'[r].pc = "wait" /\ cmd'[r].pol = cmd[r].pol
             /\ \A o \in Reader \ {r} : cmd'[o].pc = cmd[o].pc /\ cmd'[o].pol = cmd[o].pol
      BY <2>5, ApplyPosted, SMTT(30)
    <3>2. licensed' = licensed /\ files' = files
      BY <2>5, <3>1, ZenonT(30) DEF PostApply, handlePolicyApply
    <3>3. \A g \in Handler : writer'[g].pol \in {writer[g].pol, cmd[r].pol}
      BY <3>1, SMTT(30) DEF handlePolicyApply
    <3>4. cmd[r].pol \notin Lapsed
      BY <1>1, <2>5, ZenonT(30) DEF PostApply
    <3>5. QED
      BY <1>1, <3>1, <3>2, <3>3, <3>4, ZenonT(30)
  <2>6. CASE ApplyRefused(r) \/ ApplyTimesOut(r) \/ ReloadFails(r)
    BY <1>1, <2>6 DEF ApplyRefused, ApplyTimesOut, ReloadFails
  <2>7. CASE PostReload(r)
    BY <1>1, <2>7, Zenon DEF PostReload, handleReload
  <2>8. CASE Restart(r)
    BY <1>1, <2>8 DEF Restart
  <2>9. ASSUME NEW pw \in Password, SetAdminPassword(r, pw)
        PROVE  LicenceInv'
    BY <1>1, <2>9 DEF SetAdminPassword
  <2>10. CASE PostPassword(r)
    BY <1>1, <2>10, Zenon DEF PostPassword
  <2>11. QED
    BY <1>2, <2>1, <2>2, <2>3, <2>4, <2>5, <2>6, <2>7, <2>8, <2>9, <2>10, Zenon DEF Command
<1>3. ASSUME NEW h \in Handler, ApplyEnds(h)
      PROVE  LicenceInv'
  <2>1. licensed' = licensed /\ files' = files
    BY <1>3, Zenon DEF ApplyEnds, ApplyDone, ApplyFails
  <2>2. \A r \in Reader : cmd'[r] = cmd[r] \/ cmd'[r].pc \in {"idle", "reload"}
    <3>1. CASE Answered(h, TRUE)
      BY <3>1, ZenonT(60) DEF Answered
    <3>2. CASE Answered(h, FALSE)
      BY <3>2, Zenon DEF Answered
    <3>3. QED
      BY <1>3, <3>1, <3>2, Zenon DEF ApplyEnds
  <2>3. writer' = [writer EXCEPT ![h] = NoWriter]
    BY <1>3, Zenon DEF ApplyEnds, ApplyDone, ApplyFails
  <2>4. \A g \in Handler : writer'[g].pol \notin Lapsed
    BY <1>1, <2>3, Zenon
  <2>5. QED
    BY <1>1, <2>1, <2>2, <2>4, Zenon
<1>4. CASE NodeRestarts
  BY <1>1, <1>4, Zenon DEF NodeRestarts
<1>5. CASE SidecarStep
  <2>1. UNCHANGED <<cmd, licensed>>
    BY <1>5, Zenon DEF SidecarStep, clientVars
  <2>2. ASSUME NEW h \in Handler, NEW f \in File, OpenFile(h, f)
        PROVE  LicenceInv'
    BY <1>1, <2>1, <2>2 DEF OpenFile
  <2>3. ASSUME NEW h \in Handler, WriteFile(h)
        PROVE  LicenceInv'
    BY <1>1, <2>1, <2>3 DEF WriteFile
  <2>4. CASE SentinelStops \/ SentinelStarts
    BY <1>1, <2>1, <2>4 DEF SentinelStops, SentinelStarts
  <2>5. CASE UNCHANGED sentinelVars
    BY <1>1, <2>1, <2>5, Zenon
  <2>6. QED
    BY <1>5, <2>2, <2>3, <2>4, <2>5, Zenon DEF SidecarStep, SentinelStep
<1>6. CASE UNCHANGED vars
  BY <1>1, <1>6, Zenon DEF vars, clientVars
<1>7. QED
  BY <1>2, <1>3, <1>4, <1>5, <1>6, Zenon DEF Next

(* A policy that is in force stays there until the next apply.             *)
LEMMA HeldKept == FirewallInv /\ [Next]_vars => HeldInv'
<1> SUFFICES ASSUME FirewallInv, [Next]_vars, held' # NoPolicy
             PROVE  HeldInv'
  BY Zenon DEF HeldInv
<1> USE NamesAssumption
    DEF FirewallInv, TypeOK, SentinelTypeOK, HeldInv, Idle, NoWriter, sentinelVars
<1>1. ASSUME NEW r \in Reader, PostReload(r)
      PROVE  HeldInv'
  <2>1. loaded' = Whole(files) /\ UNCHANGED <<up, files, writer>>
    BY <1>1, Zenon DEF PostReload, handleReload
  <2>2. CASE cmd[r].alone
    <3>1. /\ \A h \in Handler : Idle(h)
          /\ \A f \in File : files[f] = cmd[r].pol
      BY <1>1, <2>2, Zenon DEF AloneInv, PostReload, At
    <3>2. held' = cmd[r].pol
      BY <1>1, <2>2, Zenon DEF PostReload
    <3>3. cmd[r].pol \in Policy
      BY <3>2, Zenon
    <3>4. Whole(files) = cmd[r].pol
      BY <3>1, <3>3, WholeOf, Zenon
    <3>5. QED
      BY <2>1, <3>1, <3>2, <3>4, Zenon
  <2>3. CASE ~cmd[r].alone
    <3>1. held' = held
      BY <1>1, <2>3, Zenon DEF PostReload
    <3>2. Whole(files) = held
      BY <3>1, WholeOf, Zenon
    <3>3. QED
      BY <2>1, <3>1, <3>2, Zenon
  <2>4. QED
    BY <2>2, <2>3, Zenon
<1>2. ASSUME NEW r \in Reader, Command(r), ~PostReload(r)
      PROVE  HeldInv'
  <2>1. ~PostApply(r)
    BY Zenon DEF PostApply
  <2>2. UNCHANGED <<held, up, files, loaded, writer>>
    BY <1>2, <2>1, Zenon
       DEF Command, Sync, CheckLicensed, LicenseBody, PostLicense, handleLicenseCheck,
           ApplyRefused, ApplyTimesOut, ReloadFails, Restart, SetAdminPassword, PostPassword
  <2>3. QED
    BY <2>2, SMTT(30)
<1>3. ASSUME NEW h \in Handler, ApplyEnds(h)
      PROVE  HeldInv'
  BY <1>3, Zenon DEF ApplyEnds, ApplyDone, ApplyFails
<1>4. CASE NodeRestarts
  BY <1>4, Zenon DEF NodeRestarts
<1>5. CASE SidecarStep
  <2>1. UNCHANGED held
    BY <1>5, Zenon DEF SidecarStep, clientVars
  <2>2. ASSUME NEW h \in Handler, \/ \E f \in File : OpenFile(h, f)
                                  \/ WriteFile(h)
        PROVE  FALSE
    BY <2>1, <2>2 DEF OpenFile, WriteFile
  <2>3. CASE SentinelStops
    BY <2>1, <2>3, Zenon DEF SentinelStops
  <2>4. CASE SentinelStarts
    <3>1. Whole(files) = held
      BY <2>1, WholeOf, Zenon
    <3>2. QED
      BY <2>1, <2>4, <3>1, Zenon DEF SentinelStarts
  <2>5. CASE UNCHANGED sentinelVars
    BY <2>1, <2>5, Zenon
  <2>6. QED
    BY <1>5, <2>2, <2>3, <2>4, <2>5, Zenon DEF SidecarStep, SentinelStep
<1>6. CASE UNCHANGED vars
  BY <1>6, Zenon DEF vars, clientVars
<1>7. QED
  BY <1>1, <1>2, <1>3, <1>4, <1>5, <1>6, Zenon DEF Next

(* What touches neither files nor writers, and no reader that is alone,    *)
(* leaves that reader's hold on the files as it was.                       *)
LEMMA AloneLocal ==
    ASSUME AloneInv, UNCHANGED <<writer, files, held>>,
           \A r \in Reader : cmd'[r].alone => cmd'[r] = cmd[r]
    PROVE  AloneInv'
  BY DEF AloneInv, Written, Idle

(* An apply that starts with nobody writing stays alone on the files until *)
(* another one starts.                                                     *)
LEMMA AloneKept == FirewallInv /\ [Next]_vars => AloneInv'
<1> SUFFICES ASSUME FirewallInv, [Next]_vars
             PROVE  AloneInv'
  BY Zenon
<1> USE NamesAssumption, HandlerAssumption
    DEF FirewallInv, TypeOK, SentinelTypeOK, At, Goes, Answer, NoCmd, sentinelVars
<1>a. \A r \in Reader : cmd[r].alone => cmd[r].pc \in {"wait", "reload"}
  BY Zenon DEF AloneInv
<1>1. ASSUME NEW r \in Reader, Command(r), ~PostApply(r), ~PostReload(r)
      PROVE  AloneInv'
  <2>1. UNCHANGED <<writer, files, held>>
    BY <1>1, Zenon
       DEF Command, Sync, CheckLicensed, LicenseBody, PostLicense, handleLicenseCheck,
           ApplyRefused, ApplyTimesOut, ReloadFails, Restart, SetAdminPassword, PostPassword
  <2>2. \A o \in Reader : o # r => cmd'[o] = cmd[o]
    BY <1>1, ZenonT(30)
       DEF Command, Sync, CheckLicensed, LicenseBody, PostLicense, ApplyRefused,
           ApplyTimesOut, ReloadFails, Restart, SetAdminPassword, PostPassword
  <2>3. cmd'[r].alone => cmd'[r] = cmd[r]
    BY <1>1, <1>a
       DEF Command, Sync, CheckLicensed, LicenseBody, PostLicense, ApplyRefused,
           ApplyTimesOut, ReloadFails, Restart, SetAdminPassword, PostPassword
  <2>4. QED
    BY <2>1, <2>2, <2>3, AloneLocal, Zenon
<1>2. ASSUME NEW r \in Reader, PostApply(r)
      PROVE  AloneInv'
  <2>1. PICK h \in Handler :
           /\ handlePolicyApply(h, cmd[r].pol)
           /\ cmd'[r].pc = "wait" /\ cmd'[r].at = h /\ cmd'[r].pol = cmd[r].pol
           /\ cmd'[r].alone => \A g \in Handler : Idle(g)
           /\ \A o \in Reader \ {r} : ~cmd'[o].alone
    BY <1>2, ApplyPosted, ZenonT(30)
  <2>2. /\ writer' = [writer EXCEPT ![h] = [pol |-> cmd[r].pol, left |-> File, open |-> NoFile]]
        /\ files' = files
    BY <2>1, SMTT(30) DEF handlePolicyApply
  <2>3. held' = NoPolicy
    BY <1>2, ZenonT(30) DEF PostApply
  <2>4. cmd'[r].alone => \A g \in Handler : Idle(g)' \/ g = h
    BY <2>1, <2>2, Zenon DEF Idle
  <2>5. Written(h, cmd[r].pol)'
    BY <2>1, <2>2, Zenon DEF Written
  <2>6. QED
    BY <2>1, <2>3, <2>4, <2>5 DEF AloneInv
<1>3. ASSUME NEW r \in Reader, PostReload(r)
      PROVE  AloneInv'
  <2>1. UNCHANGED <<writer, files>>
    BY <1>3, Zenon DEF PostReload, handleReload
  <2>2. /\ ~cmd'[r].alone
        /\ \A o \in Reader : o # r => cmd'[o] = cmd[o]
    BY <1>3, Zenon DEF PostReload
  <2>3. (\E o \in Reader : cmd'[o].alone) => held' = held
    BY <1>3, <2>2, Zenon DEF PostReload, AloneInv
  <2>4. CASE \E o \in Reader : cmd'[o].alone
    BY <2>1, <2>2, <2>3, <2>4, AloneLocal, Zenon
  <2>5. CASE ~ \E o \in Reader : cmd'[o].alone
    BY <2>5, Zenon DEF AloneInv
  <2>6. QED
    BY <2>4, <2>5, Zenon
<1>4. ASSUME NEW h \in Handler, ApplyEnds(h)
      PROVE  AloneInv'
  <2>1. /\ ~Idle(h) /\ held' = held
        /\ writer' = [writer EXCEPT ![h] = NoWriter] /\ files' = files
    BY <1>4, Zenon DEF ApplyEnds, ApplyDone, ApplyFails
  <2>2. \A o \in Reader : cmd'[o].alone => cmd[o].alone /\ cmd'[o].pol = cmd[o].pol
    <3>1. CASE Answered(h, TRUE)
      BY <3>1, ZenonT(60) DEF Answered
    <3>2. CASE Answered(h, FALSE)
      BY <3>2, Zenon DEF Answered
    <3>3. QED
      BY <1>4, <3>1, <3>2, Zenon DEF ApplyEnds
  <2>3. ASSUME NEW r \in Reader, cmd'[r].alone
        PROVE  /\ cmd'[r].pc = "reload"
               /\ \A g \in Handler : Idle(g)'
               /\ \A f \in File : files'[f] = cmd'[r].pol
    <3>1. cmd[r].alone /\ cmd'[r].pol = cmd[r].pol
      BY <2>2, <2>3, Zenon
    <3>2. /\ cmd[r].pc = "wait" /\ cmd[r].at = h
          /\ Written(h, cmd[r].pol)
          /\ \A g \in Handler : g # h => Idle(g)
      BY <2>1, <3>1 DEF AloneInv
    <3>3. CASE ApplyFails(h) /\ Answered(h, FALSE)
      BY <2>3, <3>2, <3>3, Zenon DEF Answered
    <3>4. CASE ApplyDone(h) /\ Answered(h, TRUE)
      <4>1. cmd'[r].pc = "reload"
        BY <3>2, <3>4, ZenonT(30) DEF Answered
      <4>2. \A g \in Handler : Idle(g)'
        BY <2>1, <3>2, Zenon DEF Idle
      <4>3. \A f \in File : files'[f] = cmd'[r].pol
        BY <2>1, <3>1, <3>2, <3>4, ZenonT(30) DEF ApplyDone, Written
      <4>4. QED
        BY <4>1, <4>2, <4>3, Zenon
    <3>5. QED
      BY <1>4, <3>3, <3>4, Zenon DEF ApplyEnds
  <2>4. QED
    BY <2>1, <2>2, <2>3, Zenon DEF AloneInv
<1>5. CASE NodeRestarts
  BY <1>5, Zenon DEF NodeRestarts, AloneInv
<1>6. CASE UNCHANGED vars
  <2>1. UNCHANGED <<writer, files, held, cmd>>
    BY <1>6, Zenon DEF vars, clientVars
  <2>2. QED
    BY <2>1, AloneLocal, Zenon
<1>7. CASE SidecarStep
  <2>1. UNCHANGED <<cmd, held>>
    BY <1>7, Zenon DEF SidecarStep, clientVars
  <2>2. ASSUME NEW h \in Handler, NEW r \in Reader, cmd[r].alone, ~Idle(h)
        PROVE  /\ cmd[r].pc = "wait" /\ cmd[r].at = h
               /\ Written(h, cmd[r].pol)
               /\ \A g \in Handler : g # h => Idle(g)
    BY <2>2 DEF AloneInv
  <2>3. ASSUME NEW h \in Handler, ~Idle(h),
               \A g \in Handler : g # h => writer'[g] = writer[g],
               \A p : Written(h, p) => Written(h, p)'
        PROVE  AloneInv'
    BY <2>1, <2>2, <2>3 DEF AloneInv, Idle
  <2>4. ASSUME NEW h \in Handler, NEW f \in File, OpenFile(h, f)
        PROVE  AloneInv'
    <3>1. ~Idle(h) /\ \A g \in Handler : g # h => writer'[g] = writer[g]
      BY <2>4, Zenon DEF OpenFile
    <3>2. /\ writer'[h].pol = writer[h].pol
          /\ writer'[h].left = writer[h].left
          /\ writer'[h].open = f /\ f \in writer[h].left
          /\ files' = [files EXCEPT ![f] = Empty]
      BY <2>4 DEF OpenFile
    <3>3. \A p : Written(h, p) => Written(h, p)'
      BY <3>2, ZenonT(30) DEF Written
    <3>4. QED
      BY <2>3, <3>1, <3>3, Zenon
  <2>5. ASSUME NEW h \in Handler, WriteFile(h)
        PROVE  AloneInv'
    <3> DEFINE f == writer[h].open
    <3>1. /\ f \in File
          /\ \A g \in Handler : g # h => writer'[g] = writer[g]
      BY <2>5, Zenon DEF WriteFile
    <3>2. ~Idle(h)
      BY <2>5 DEF WriteFile, Idle, NoWriter
    <3>3. /\ writer'[h].pol = writer[h].pol
          /\ writer'[h].left = writer[h].left \ {f}
          /\ writer'[h].open = NoFile
      BY <2>5 DEF WriteFile
    <3>4. files[f] = Empty => files' = [files EXCEPT ![f] = writer[h].pol]
      BY <2>5, ZenonT(30) DEF WriteFile
    <3>5. \A p : Written(h, p) => Written(h, p)'
      BY <3>1, <3>3, <3>4 DEF Written
    <3>6. QED
      BY <2>3, <3>1, <3>2, <3>5, Zenon
  <2>6. CASE SentinelStops
    <3>1. files' = files /\ \A h \in Handler : Idle(h)'
      BY <2>6, Zenon DEF SentinelStops, Idle
    <3>2. QED
      BY <2>1, <3>1, ZenonT(30) DEF AloneInv
  <2>7. CASE SentinelStarts \/ UNCHANGED sentinelVars
    <3>1. UNCHANGED <<writer, files>>
      BY <2>7, Zenon DEF SentinelStarts
    <3>2. QED
      BY <2>1, <3>1, AloneLocal, Zenon
  <2>8. QED
    BY <1>7, <2>4, <2>5, <2>6, <2>7, Zenon DEF SidecarStep, SentinelStep
<1>8. QED
  BY <1>1, <1>2, <1>3, <1>4, <1>5, <1>6, <1>7, Zenon DEF Next

(* The invariant of the firewall.                                          *)
LEMMA FirewallInvariant == Spec => []FirewallInv
<1>1. FirewallInv /\ [Next]_vars => FirewallInv'
  <2> SUFFICES ASSUME FirewallInv, [Next]_vars
               PROVE  FirewallInv'
    BY Zenon
  <2>1. TypeOK'
    BY FirewallTypes, Zenon DEF FirewallInv
  <2>2. QED
    BY <2>1, AloneKept, HeldKept, LicenceKept, ShieldKept, Zenon DEF FirewallInv
<1>2. QED
  BY <1>1, FirewallStarts, PTL DEF Spec

(* A policy that Sentinel took with no other apply on the files is in all  *)
(* of them, and loaded, until the next apply (internal/sentinel apply and  *)
(* reload, internal/firewall syncSentinel), for any number of readers,     *)
(* requests and files.                                                     *)
THEOREM PolicyStaysEnforced == Spec => [](TypeOK /\ EnforcedUntilReplaced)
<1>1. FirewallInv => TypeOK /\ EnforcedUntilReplaced
  BY Zenon DEF FirewallInv, HeldInv, EnforcedUntilReplaced
<1>2. QED
  BY <1>1, FirewallInvariant, PTL

(* No payload the gateway calls unlicensed gets into Sentinel's files, as  *)
(* long as no two syncs overlap (the licence checks of syncSentinel).      *)
THEOREM UnlicensedKeptOut == Spec => []LicensedPoliciesOnly
<1>1. FirewallInv => LicensedPoliciesOnly
  BY Zenon DEF FirewallInv, LicenceInv, LicensedPoliciesOnly
<1>2. QED
  BY <1>1, FirewallInvariant, PTL

(* The set-up of Shield never takes back upstreams a person picked, unless *)
(* they were picked between its read and its write (ensureShieldUpstreams).*)
THEOREM UpstreamsStayChosen == Spec => ChosenUpstreamsKept
<1>1. FirewallInv /\ [Next]_vars =>
        [adguard.dns.upstream = "chosen" /\ adguard'.dns.upstream # "chosen" => fresh]_vars
  <2> SUFFICES ASSUME FirewallInv, [Next]_vars,
                      adguard.dns.upstream = "chosen", adguard'.dns.upstream # "chosen"
               PROVE  fresh
    BY Zenon
  <2> USE DEF FirewallInv, TypeOK, ShieldTypeOK, shieldVars
  <2>1. ASSUME NEW r \in Reader, Command(r)
        PROVE  FALSE
    BY <2>1, Zenon
       DEF Command, Sync, CheckLicensed, LicenseBody, PostLicense, PostApply, ApplyRefused,
           ApplyTimesOut, PostReload, ReloadFails, Restart, SetAdminPassword, PostPassword, Install
  <2>2. CASE WriteDnsConfig
    BY <2>2, Zenon DEF WriteDnsConfig, ShieldInv
  <2>3. ASSUME ShieldStep, ~WriteDnsConfig
        PROVE  FALSE
    <3>1. CASE PersonChoosesUpstreams
      BY <3>1, Zenon DEF PersonChoosesUpstreams, Dns
    <3>2. CASE PersonTunes
      BY <3>2, Zenon DEF PersonTunes, Dns
    <3>3. CASE \E pw \in Password : PersonSetsUp(pw)
      BY <3>3, Zenon DEF PersonSetsUp, Install
    <3>4. CASE ConfigureAdmin
      BY <3>4, Zenon DEF ConfigureAdmin, Install
    <3>5. CASE ReadDnsInfo \/ ReportCredentials
      BY <3>5, Zenon DEF ReadDnsInfo, ReportCredentials
    <3>6. QED
      BY <2>3, <3>1, <3>2, <3>3, <3>4, <3>5, Zenon DEF ShieldStep
  <2>4. CASE UNCHANGED adguard
    BY <2>4, Zenon
  <2>5. QED
    BY <2>1, <2>2, <2>3, <2>4, Zenon
       DEF Next, SidecarStep, ApplyEnds, NodeRestarts, ShieldBoots, vars
<1>2. QED
  BY <1>1, FirewallInvariant, PTL DEF Spec, ChosenUpstreamsKept
=============================================================================
