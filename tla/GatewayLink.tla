---------------------------- MODULE GatewayLink ----------------------------
(***************************************************************************)
(* The node's link to its gateway: the registration credentials kept in    *)
(* node_settings, the start of the node that loads or obtains them         *)
(* (internal/nodeapp/run.go), and the client that dials, refreshes its     *)
(* token and redials (internal/gatewayclient).                             *)
(*                                                                         *)
(* Identities are "me" (the peer id derived from the mnemonic) and "other" *)
(* (of an earlier mnemonic).  A token is fresh, stale (expired) or foreign *)
(* (issued to "other"); the gateway only takes fresh ones.  Node keys are  *)
(* numbered: NoKey, the operator's NODE_KEY, then the ones the gateway     *)
(* mints.  The gateway keeps the key it is given at a registration, and    *)
(* mints one when it is given none.  Backoff is the time a sleep takes and *)
(* is left out, as are the frames of a session.  NODE_ID and NODE_TOKEN    *)
(* are not set in the environment.                                         *)
(***************************************************************************)
EXTENDS Integers

CONSTANTS
    Faults,     \* TRUE: database calls fail and the node crashes
    MaxBoots    \* bound on the starts of the node

ASSUME LinkAssumption == Faults \in BOOLEAN /\ MaxBoots \in Nat

NoKey == 0
OperatorKey == 1    \* NODE_KEY of the environment, where it is set
OtherKey == 2       \* the key registered with the earlier mnemonic
FirstMinted == 3

Credentials ==
    [id : {"none", "me", "other"}, token : {"none", "fresh", "stale", "foreign"},
     key : Nat, pub : BOOLEAN]

NoCredentials == [id |-> "none", token |-> "none", key |-> NoKey, pub |-> FALSE]

OtherCredentials == [id |-> "other", token |-> "foreign", key |-> OtherKey, pub |-> TRUE]

VARIABLES
    env,        \* the environment: NODE_KEY, GATEWAY_PUBLIC_KEY,
                \* GATEWAY_AUTO_REGISTER
    db,         \* the four settings
    mem,        \* what the running node works with
    pc,         \* where the node or its client stands
    cred,       \* the credentials being saved
    at,         \* the setting the save writes next
    gwKey,      \* the key the gateway knows this node by
    minted,     \* the next key the gateway will mint
    reach,      \* the gateway can be reached
    boots,      \* starts so far
    cut         \* history: since the last complete save, a save broke off,
                \* an answer to a registration was lost, or a key not read

gateway == <<gwKey, minted, reach>>
saving == <<cred, at>>
vars == <<env, db, mem, pc, saving, gateway, boots, cut>>

-----------------------------------------------------------------------------
(* Start of the node                                                       *)

(* What Run makes of the loaded credentials c: another identity's id and   *)
(* token are dropped, its key is not.                                      *)
Loaded(c) ==
    LET mine == c.id # "other"
    IN  [id |-> IF mine THEN c.id ELSE "none",
         token |-> IF mine THEN c.token ELSE "none",
         key |-> IF c.key # NoKey THEN c.key ELSE env.key,
         pub |-> c.pub \/ env.pub]

Complete(c) == c.id # "none" /\ c.token # "none"

(* What LoadCredentials may return: an error on the id or the token gives  *)
(* up on all four, one on the key or the gateway's public key is ignored.  *)
LoadCredentials ==
    {db} \cup (IF Faults
               THEN {NoCredentials, [db EXCEPT !.key = NoKey], [db EXCEPT !.pub = FALSE],
                     [db EXCEPT !.key = NoKey, !.pub = FALSE]}
               ELSE {})

(* Run loads the credentials and dials, registers or stays offline.        *)
Load ==
    /\ pc = "down"
    /\ boots < MaxBoots
    /\ boots' = boots + 1
    /\ \E c \in LoadCredentials :
          /\ mem' = Loaded(c)
          /\ cut' = (cut \/ c.key # db.key)
          /\ pc' = IF Complete(Loaded(c)) THEN "dial"
                   ELSE IF env.auto THEN "register" ELSE "offline"
    /\ UNCHANGED <<env, db, saving, gateway>>

(* The gateway registers the node under key k, its own if k is NoKey.      *)
GatewayRegisters(k) ==
    /\ reach
    /\ gwKey' = IF k = NoKey THEN minted ELSE k
    /\ minted' = IF k = NoKey THEN minted + 1 ELSE minted
    /\ UNCHANGED reach

(* Mutant: the credentials are used and not saved.                         *)
RegisterUnsaved ==
    /\ pc = "register"
    /\ GatewayRegisters(mem.key)
    /\ mem' = [id |-> "me", token |-> "fresh", key |-> gwKey', pub |-> mem.pub]
    /\ pc' = "dial"
    /\ UNCHANGED <<env, db, saving, boots, cut>>

Register ==
    /\ pc = "register"
    /\ GatewayRegisters(mem.key)
    /\ \E p \in {TRUE, mem.pub} :
          cred' = [id |-> "me", token |-> "fresh", key |-> gwKey', pub |-> p]
    /\ at' = "id"
    /\ pc' = "save"
    /\ UNCHANGED <<env, db, mem, boots, cut>>

(* Refused, unreachable, or the answer to the second request is lost: the  *)
(* node runs without a client until it is restarted.                       *)
RegisterFails ==
    /\ pc = "register"
    /\ pc' = "offline"
    /\ \/ UNCHANGED <<gateway, cut>>
       \/ GatewayRegisters(mem.key) /\ cut' = TRUE
    /\ UNCHANGED <<env, db, mem, saving, boots>>

-----------------------------------------------------------------------------
(* SaveCredentials: one statement per setting                              *)

Setting == {"id", "token", "key", "pub"}

(* Mutant: the key is not saved.                                           *)
FollowingSkipsKey ==
    CASE at = "id"    -> "token"
      [] at = "token" -> "pub"
      [] OTHER        -> "done"

(* Mutant: the token is not saved.                                         *)
FollowingSkipsToken ==
    CASE at = "id"    -> "key"
      [] at = "key"   -> "pub"
      [] OTHER        -> "done"

Following ==
    CASE at = "id"    -> "token"
      [] at = "token" -> "key"
      [] at = "key"   -> "pub"
      [] OTHER        -> "done"

(* An empty key or public key is not written.                              *)
SaveSetting ==
    /\ pc = "save"
    /\ at # "done"
    /\ db' = CASE at = "id"    -> [db EXCEPT !.id = cred.id]
               [] at = "token" -> [db EXCEPT !.token = cred.token]
               [] at = "key"   -> [db EXCEPT !.key = IF cred.key # NoKey THEN cred.key ELSE @]
               [] OTHER        -> [db EXCEPT !.pub = @ \/ cred.pub]
    /\ at' = Following
    /\ UNCHANGED <<env, mem, pc, cred, gateway, boots, cut>>

(* Mutant: the refreshed token is not handed to the client.                *)
SavedForgets ==
    /\ pc = "save"
    /\ pc' = "dial"
    /\ \/ at = "done" /\ cut' = FALSE
       \/ at # "done" /\ Faults /\ cut' = TRUE
    /\ mem' = [cred EXCEPT !.token = IF mem.token = "none" THEN @ ELSE mem.token]
    /\ at' = "done"
    /\ UNCHANGED <<env, db, cred, gateway, boots>>

(* Done, or broken off at the first error, which is only logged: either    *)
(* way the client goes on with the new credentials.                        *)
Saved ==
    /\ pc = "save"
    /\ pc' = "dial"
    /\ \/ at = "done" /\ cut' = FALSE
       \/ at # "done" /\ Faults /\ cut' = TRUE
    /\ mem' = cred
    /\ at' = "done"
    /\ UNCHANGED <<env, db, cred, gateway, boots>>

-----------------------------------------------------------------------------
(* Client.Run                                                              *)

Goto(l) == pc' = l /\ UNCHANGED <<env, db, mem, saving, gateway, boots, cut>>

Dial ==
    /\ pc = "dial"
    /\ reach
    /\ mem.token = "fresh"
    /\ Goto("session")

(* Mutant: the stored token is thrown away once it is refused.             *)
DialRefusedDrops ==
    /\ pc = "dial"
    /\ reach => mem.token # "fresh"
    /\ pc' = "refresh"
    /\ db' = [db EXCEPT !.token = "none"]
    /\ UNCHANGED <<env, mem, saving, gateway, boots, cut>>

(* Any answer that is no upgrade is a "bad handshake", which isAuthDialError *)
(* takes for a refused token.                                              *)
DialRefused ==
    /\ pc = "dial"
    /\ reach => mem.token # "fresh"
    /\ Goto("refresh")

DialFails ==
    /\ pc = "dial"
    /\ ~reach
    /\ Goto("sleep")

(* The refresher: a new token for the key, saved before it is used.        *)
Refresh ==
    /\ pc = "refresh"
    /\ reach
    /\ mem.key # NoKey
    /\ mem.key = gwKey
    /\ cred' = [mem EXCEPT !.token = "fresh"]
    /\ at' = "id"
    /\ pc' = "save"
    /\ UNCHANGED <<env, db, mem, gateway, boots, cut>>

RefreshFails ==
    /\ pc = "refresh"
    /\ ~reach \/ mem.key = NoKey \/ mem.key # gwKey
    /\ Goto("sleep")

Wake ==
    /\ pc = "sleep"
    /\ Goto("dial")

(* A pump ends.  An error that speaks of 401 or unauthorized, as a close   *)
(* reason may, leads to a refresh.                                         *)
SessionEnds ==
    /\ pc = "session"
    /\ \E l \in {"sleep", "refresh"} : Goto(l)

-----------------------------------------------------------------------------
(* The world                                                               *)

Reachability ==
    /\ reach' = ~reach
    /\ UNCHANGED <<env, db, mem, pc, saving, gwKey, minted, boots, cut>>

Aged(c) == [c EXCEPT !.token = IF @ = "fresh" THEN "stale" ELSE @]

(* Tokens expire, though not within the seconds from their issue to the    *)
(* next dial.                                                              *)
Expire ==
    /\ pc \in {"down", "offline", "sleep", "session"}
    /\ db' = Aged(db)
    /\ mem' = Aged(mem)
    /\ UNCHANGED <<env, pc, saving, gateway, boots, cut>>

Crash ==
    /\ Faults
    /\ pc # "down"
    /\ pc' = "down"
    /\ mem' = NoCredentials
    /\ cred' = NoCredentials
    /\ at' = "done"
    /\ cut' = (cut \/ (pc = "save" /\ at # "done"))
    /\ UNCHANGED <<env, db, gateway, boots>>

-----------------------------------------------------------------------------

Init ==
    /\ env \in [key : {NoKey, OperatorKey}, pub : BOOLEAN, auto : BOOLEAN]
    /\ db \in {NoCredentials, OtherCredentials}
    /\ mem = NoCredentials
    /\ pc = "down"
    /\ cred = NoCredentials
    /\ at = "done"
    /\ gwKey = NoKey
    /\ minted = FirstMinted
    /\ reach = TRUE
    /\ boots = 0
    /\ cut = FALSE

Client ==
    \/ SaveSetting \/ Saved
    \/ Dial \/ DialRefused \/ DialFails
    \/ Refresh \/ RefreshFails \/ Wake

Next ==
    \/ Load \/ Register \/ RegisterFails
    \/ Client \/ SessionEnds
    \/ Reachability \/ Expire \/ Crash

Spec == Init /\ [][Next]_vars

(* The client's goroutine is never starved, its requests have timeouts and *)
(* its sleeps end.  Nothing makes the gateway or the operator act.         *)
FairSpec == Spec /\ WF_vars(Client)

-----------------------------------------------------------------------------
(* Run started the client.                                                 *)
ClientRuns ==
    \/ pc \in {"dial", "refresh", "sleep", "session"}
    \/ pc = "save" /\ Complete(mem)

(* What the settings, the node and the gateway hold; the node never works  *)
(* under an identity that is not its own (Run drops a stored id that is    *)
(* not the peer id).                                                       *)
TypeOK ==
    /\ env \in [key : {NoKey, OperatorKey}, pub : BOOLEAN, auto : BOOLEAN]
    /\ db \in Credentials
    /\ mem \in Credentials /\ mem.id # "other"
    /\ pc \in {"down", "register", "offline", "save", "dial", "refresh", "sleep", "session"}
    /\ cred \in Credentials /\ cred.id # "other"
    /\ at \in Setting \cup {"done"}
    /\ gwKey \in Nat
    /\ minted \in Nat
    /\ reach \in BOOLEAN
    /\ boots \in 0 .. MaxBoots
    /\ cut \in BOOLEAN

(* A client that runs can renew its token: it holds the key the gateway    *)
(* knows, through restarts, repeated registrations and changes of          *)
(* mnemonic, unless a save broke off half-way, the answer to a             *)
(* registration was lost or the key could not be read (SaveCredentials,    *)
(* LoadCredentials, the refresher in Run).                                 *)
CanRefresh == ClientRuns /\ ~cut => mem.key = gwKey

(* The stored id never comes with another identity's token, or with no     *)
(* key, unless a save broke off (SaveCredentials writes the id first).     *)
CredentialsMatch ==
    db.id = "me" /\ ~cut /\ pc # "save" =>
        db.token \in {"fresh", "stale"} /\ db.key = gwKey

(* While the gateway can be reached, a client that holds its key is        *)
(* connected again and again, however often its token expires or its       *)
(* session ends (Client.Run: refresh on a refused dial, redial after a     *)
(* sleep).                                                                 *)
Reconnects ==
    <>[](reach /\ ClientRuns /\ mem.key = gwKey) => []<>(pc = "session")

(* What the readiness provider reads from the settings: a registration of  *)
(* whatever identity, not what the running node made of it.                *)
GatewayRegistered == db.id # "none" /\ db.token # "none"

(* A node that has started reports itself registered exactly when it runs  *)
(* a client, unless the settings are another identity's or a save, a load  *)
(* or a registration went wrong (the readiness provider of Run reads the   *)
(* settings, Run decided from what it loaded).                             *)
RegisteredMeansClient ==
    pc \notin {"down", "register", "save"} /\ ~cut /\ db.id # "other" =>
        (GatewayRegistered <=> ClientRuns)

(* The link as the rest of the node sees it.                               *)
Channel ==
    INSTANCE ControlChannel WITH
        up         <- pc # "down",
        known      <- gwKey # NoKey,
        registered <- db.id = "me" /\ db.token \in {"fresh", "stale"},
        connected  <- pc = "session"

(* The client implements the control channel: through crashes, broken      *)
(* saves, expired tokens and changes of mnemonic the gateway knows the     *)
(* node before the node records it, the record is never lost, and every    *)
(* session is of a node the gateway knows (Run, SaveCredentials, the       *)
(* refresher and Client.Run).                                              *)
ImplementsChannel == Channel!Spec
=============================================================================
