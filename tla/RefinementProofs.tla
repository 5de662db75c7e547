-------------------------- MODULE RefinementProofs --------------------------
(***************************************************************************)
(* The proof that Enrollment implements Registry, for every set of         *)
(* devices, keys, tokens, requests and processes and any number of faults  *)
(* and crashes; so what Registry promises holds of the gateway's tables.   *)
(* Then what follows for the peers of enrollments that nothing disturbs.   *)
(***************************************************************************)
EXTENDS EnrollmentProofs

(***************************************************************************)
(* What the open transaction of p may rely on until it commits: the checks *)
(* of prepare_enrollment still hold of the committed tables.               *)
(***************************************************************************)
Sound(p) ==
    /\ record(p).device = request(p).device
    /\ tokens[request(p).token].state \in {"fresh", "expired"}
    /\ tokens[request(p).token].scope \in {AnyDevice, request(p).device}
    /\ frame[p].created =>
          /\ ~DB!Registered(record(p).device)
          /\ DB!KeyOwners(record(p).key) = {}
          /\ record(p).address \in DB!FreeAddresses
    /\ ~frame[p].created =>
          /\ DB!Registered(record(p).device)
          /\ devices[record(p).device].enabled
          /\ devices[record(p).device].key = record(p).key

TransactionSound == lock \in Request => Sound(lock)

(***************************************************************************)
(* A step that changes neither the tables, nor the lock, nor what its      *)
(* holder has prepared.                                                    *)
(***************************************************************************)
Quiet ==
    /\ UNCHANGED <<devices, tokens, lock>>
    /\ lock \in Request =>
          /\ frame'[lock].request = frame[lock].request
          /\ frame'[lock].record = frame[lock].record
          /\ frame'[lock].created = frame[lock].created

(***************************************************************************)
(* A step after which no transaction is open and nothing was committed.    *)
(***************************************************************************)
Release == UNCHANGED <<devices, tokens>> /\ lock' = NoProcess

(***************************************************************************)
(* What every step of the gateway does: it keeps the open transaction      *)
(* sound, and is a step of Registry or changes nothing there.              *)
(***************************************************************************)
Promises == TransactionSound' /\ [Promised!Next]_<<devices, AdmittedTokens>>

(***************************************************************************)
(* The inductive invariant.                                                *)
(***************************************************************************)
Inv == LocalsFit /\ SharedTypeOK /\ TransactionHeld /\ TransactionSound

(***************************************************************************)
(* A quiet step is no step of Registry.                                    *)
(***************************************************************************)
LEMMA QuietPromises ==
    ASSUME Inv, Quiet PROVE Promises
<1>1. TransactionSound'
  BY DEF Inv, TransactionSound, Sound, Quiet, record, request, DB!Registered,
     DB!KeyOwners, DB!RegisteredDevices, DB!FreeAddresses, DB!TakenAddresses
<1>2. AdmittedTokens' = AdmittedTokens
  BY DEF Quiet, AdmittedTokens, Admitted, request
<1> QED BY <1>1, <1>2 DEF Promises, Quiet

(***************************************************************************)
(* A transaction that is rolled back, or dies, is no step of Registry; but *)
(* if the token it had admitted has expired meanwhile, it expires in       *)
(* Registry now.                                                           *)
(***************************************************************************)
LEMMA ReleasePromises ==
    ASSUME Inv, Release PROVE Promises
<1>1. TransactionSound'
  BY GatewayConstants DEF TransactionSound, Release
<1>2. AdmittedTokens' = tokens
  BY GatewayConstants DEF Release, AdmittedTokens, Admitted, Inv,
     SharedTypeOK, DB!TypeOK
<1>3. CASE \E t \in Token : Admitted(t) /\ tokens[t].state = "expired"
  <2>1. PICK t \in Token : Admitted(t) /\ tokens[t].state = "expired"
    BY <1>3
  <2>2. \A u \in Token : u # t => ~Admitted(u)
    BY <2>1 DEF Admitted
  <2>3. AdmittedTokens[t].state = "fresh"
    BY <2>1 DEF AdmittedTokens, Inv, SharedTypeOK, DB!TypeOK, DB!TokenRow
  <2>4. [AdmittedTokens[t] EXCEPT !.state = "expired"] = tokens[t]
    BY <2>1 DEF AdmittedTokens, Inv, SharedTypeOK, DB!TypeOK, DB!TokenRow
  <2>5. \A u \in Token : u # t => AdmittedTokens[u] = tokens[u]
    BY <2>2 DEF AdmittedTokens
  <2>6. tokens = [AdmittedTokens EXCEPT
                    ![t] = [AdmittedTokens[t] EXCEPT !.state = "expired"]]
    BY <2>4, <2>5 DEF AdmittedTokens, Inv, SharedTypeOK, DB!TypeOK
  <2>7. Promised!ExpireToken(t)
    BY <1>2, <2>3, <2>6 DEF Promised!ExpireToken, Release
  <2> QED BY <1>1, <2>7 DEF Promises, Promised!Next
<1>4. CASE ~\E t \in Token : Admitted(t) /\ tokens[t].state = "expired"
  <2>1. AdmittedTokens = tokens
    BY <1>4 DEF AdmittedTokens, Inv, SharedTypeOK, DB!TypeOK
  <2> QED BY <1>1, <1>2, <2>1 DEF Promises, Release
<1> QED BY <1>3, <1>4

-----------------------------------------------------------------------------
(***************************************************************************)
(* While no transaction is open the tables are as Registry sees them.      *)
(***************************************************************************)
LEMMA FreeOfLock ==
    ASSUME Inv, lock = NoProcess PROVE AdmittedTokens = tokens
BY GatewayConstants DEF AdmittedTokens, Admitted, Inv, SharedTypeOK, DB!TypeOK

(***************************************************************************)
(* prepare_enrollment opens a sound transaction.                           *)
(***************************************************************************)
LEMMA PreparePromises ==
    ASSUME Inv, NEW p \in Request, PrepareExisting(p) \/ PrepareNew(p)
    PROVE  Promises
<1>p. p \in Process /\ p # NoProcess /\ frame[p] \in Frame
  BY GatewayConstants DEF Process, Inv, LocalsFit
<1>1. PICK rec, isNew :
         /\ Prepared(p, rec, isNew)
         /\ lock = NoProcess
         /\ TokenAccepted(p)
         /\ rec.device = request(p).device
         /\ isNew = TRUE =>
               /\ ~DB!Registered(rec.device)
               /\ DB!KeyOwners(rec.key) = {}
               /\ rec.address \in DB!FreeAddresses
         /\ isNew = FALSE =>
               /\ DB!Registered(rec.device)
               /\ devices[rec.device].enabled
               /\ devices[rec.device].key = rec.key
         /\ isNew \in BOOLEAN
  <2>1. CASE PrepareExisting(p)
    BY <2>1 DEF PrepareExisting, AcceptsExisting
  <2>2. CASE PrepareNew(p)
    <3>1. Min(FreeAddresses(p)) \in DB!FreeAddresses
      BY <2>2, MinimumIsMember, GatewayConstants DEF PrepareNew, AcceptsNew,
         FreeAddresses, DB!FreeAddresses
    <3> QED BY <2>2, <3>1 DEF PrepareNew, AcceptsNew
  <2> QED BY <2>1, <2>2
<1>2. /\ UNCHANGED <<devices, tokens>>
      /\ lock' = p
      /\ frame'[p].request = frame[p].request
      /\ frame'[p].record = rec
      /\ frame'[p].created = isNew
  BY <1>p, <1>1 DEF Prepared, Set, Inv, LocalsFit, Frame
<1>3. TransactionSound'
  BY <1>1, <1>2 DEF TransactionSound, Sound, record, request, TokenAccepted,
     DB!TokenAdmits, DB!Registered, DB!KeyOwners, DB!RegisteredDevices,
     DB!FreeAddresses, DB!TakenAddresses
<1>4. AdmittedTokens' = tokens
  BY <1>1, <1>2 DEF AdmittedTokens, Admitted, request, TokenAccepted,
     DB!TokenAdmits, Inv, SharedTypeOK, DB!TypeOK
<1> QED BY <1>1, <1>2, <1>3, <1>4, FreeOfLock DEF Promises

(***************************************************************************)
(* The commit of a sound transaction is a Register or a Reenroll.          *)
(***************************************************************************)
LEMMA CommitPromises ==
    ASSUME Inv, NEW p \in Request, Commit(p) PROVE Promises
<1> DEFINE d == record(p).device
           k == record(p).key
           t == request(p).token
<1>1. lock = p /\ stage[p] \in UsesRequest /\ stage[p] \in UsesRecord
  BY DEF Commit, At, Inv, TransactionHeld, TransactionStages, UsesRequest,
     UsesRecord
<1>2. Sound(p)
  BY <1>1 DEF Inv, TransactionSound
<1>3. t \in Token /\ record(p) \in DeviceRecord
  BY <1>1, Asking DEF Inv, LocalsFit, Fits, record, Process
<1>4. d \in Device /\ k \in Key
  BY <1>3 DEF DeviceRecord
<1>5. TransactionSound'
  BY GatewayConstants DEF Commit, TransactionSound
<1>6. AdmittedTokens' = tokens'
  BY <1>5, GatewayConstants DEF Commit, AdmittedTokens, Admitted, Inv,
     SharedTypeOK, DB!TypeOK
<1>7. /\ AdmittedTokens[t].state = "fresh"
      /\ AdmittedTokens[t].scope \in {AnyDevice, d}
      /\ [AdmittedTokens[t] EXCEPT !.state = "consumed"] =
            [tokens[t] EXCEPT !.state = "consumed"]
  <2>1. tokens[t] \in DB!TokenRow
    BY <1>3 DEF Inv, SharedTypeOK, DB!TypeOK
  <2>2. CASE tokens[t].state = "fresh"
    BY <1>1, <1>2, <1>3, <2>2 DEF AdmittedTokens, Admitted, Sound
  <2>3. CASE tokens[t].state = "expired"
    BY <1>1, <1>2, <1>3, <2>1, <2>3 DEF AdmittedTokens, Admitted, Sound,
       DB!TokenRow
  <2> QED BY <1>2, <2>2, <2>3 DEF Sound
<1>8. \A u \in Token : u # t => AdmittedTokens[u] = tokens[u]
  BY <1>1 DEF AdmittedTokens, Admitted
<1>9. tokens' = [AdmittedTokens EXCEPT
                   ![t] = [AdmittedTokens[t] EXCEPT !.state = "consumed"]]
  BY <1>3, <1>7, <1>8 DEF Commit, AdmittedTokens, Inv, SharedTypeOK, DB!TypeOK
<1>10. Promised!TokenAdmits(t, d) /\ Promised!Consume(t)
  BY <1>6, <1>7, <1>9 DEF Promised!TokenAdmits, Promised!Consume
<1>11. CASE frame[p].created
  <2>1. devices' = [devices EXCEPT
                      ![d] = [key |-> k, address |-> record(p).address,
                              enabled |-> TRUE]]
    BY <1>11 DEF Commit, TransactionRows
  <2>2. Promised!Register(d, k, t)
    BY <1>2, <1>10, <1>11, <2>1 DEF Sound, Promised!Register, DB!Registered,
       DB!KeyOwners, DB!RegisteredDevices, DB!FreeAddresses,
       DB!TakenAddresses, Promised!Registered, Promised!KeyOwners,
       Promised!RegisteredDevices, Promised!FreeAddresses,
       Promised!TakenAddresses
  <2> QED BY <1>3, <1>4, <1>5, <2>2 DEF Promises, Promised!Next
<1>12. CASE ~frame[p].created
  <2>1. Promised!Reenroll(d, k, t)
    BY <1>2, <1>10, <1>12 DEF Commit, TransactionRows, Sound,
       Promised!Reenroll, DB!Registered, Promised!Registered
  <2> QED BY <1>3, <1>4, <1>5, <2>1 DEF Promises, Promised!Next
<1> QED BY <1>11, <1>12

(***************************************************************************)
(* A thread outside its transaction is quiet if it leaves tables and lock  *)
(* alone.                                                                  *)
(***************************************************************************)
LEMMA OutsideQuiet ==
    ASSUME Inv, NEW p \in Request, stage[p] \notin TransactionStages,
           UNCHANGED <<devices, tokens, lock>>,
           \A q \in Process \ {p} : frame'[q] = frame[q]
    PROVE  Quiet
BY GatewayConstants DEF Inv, TransactionHeld, Quiet, Process

(***************************************************************************)
(* A thread inside its transaction is quiet if it also keeps what it has   *)
(* prepared.                                                               *)
(***************************************************************************)
LEMMA InsideQuiet ==
    ASSUME Inv, NEW p \in Request, UNCHANGED <<devices, tokens, lock>>,
           \A q \in Process \ {p} : frame'[q] = frame[q],
           frame'[p].request = frame[p].request,
           frame'[p].record = frame[p].record,
           frame'[p].created = frame[p].created
    PROVE  Quiet
BY DEF Quiet, Process

(***************************************************************************)
(* Every step of an enrollment keeps the promises of Registry.             *)
(***************************************************************************)
LEMMA RequestPromises ==
    ASSUME Inv, NEW p \in Request,
           Receive(p) \/ EnrollStep(p) \/ EnrollFault(p)
    PROVE  Promises
<1>p. p \in Process /\ frame \in [Process -> Frame]
  BY DEF Process, Inv, LocalsFit
<1>1. CASE PrepareExisting(p) \/ PrepareNew(p)
  BY <1>1, PreparePromises
<1>2. CASE Commit(p)
  BY <1>2, CommitPromises
<1>3. CASE \/ Reject(p) \/ BusyTimeout(p) \/ PeerRefused(p) \/ DnsRefused(p)
           \/ StepFails(p)
  <2>1. Fail(p)
    BY <1>3 DEF Reject, BusyTimeout, PeerRefused, DnsRefused, StepFails
  <2>2. /\ UNCHANGED <<devices, tokens>>
        /\ \A q \in Process \ {p} : frame'[q] = frame[q]
    BY <1>p, <2>1 DEF Fail, Set
  <2>3. CASE lock = p
    BY <2>1, <2>2, <2>3, ReleasePromises DEF Fail, ReleaseLock, Release
  <2>4. CASE lock # p
    BY <2>1, <2>2, <2>4, QuietPromises DEF Fail, ReleaseLock, Quiet, Process
  <2> QED BY <2>3, <2>4
<1>4. CASE UndoDns(p) \/ UndoDnsFails(p)
  <2>1. LeaveDns(p) /\ lock = p
    BY <1>4 DEF UndoDns, UndoDnsFails, At, TransactionStages, Inv,
       TransactionHeld
  <2> QED BY <2>1, ReleasePromises DEF LeaveDns, ReleaseLock, Release
<1>5. CASE \/ Receive(p) \/ ReadReservations(p) \/ RestoreDns(p)
           \/ RestoreDnsFails(p)
  <2>1. stage[p] \notin TransactionStages
    BY <1>5 DEF Receive, MayStart, ReadReservations, RestoreDns,
       RestoreDnsFails, At, TransactionStages, PeerStages
  <2>2. /\ UNCHANGED <<devices, tokens, lock>>
        /\ \A q \in Process \ {p} : frame'[q] = frame[q]
    BY <1>p, <1>5 DEF Receive, ReadReservations, RestoreDns, RestoreDnsFails,
       AfterDnsRestore, Set, database
  <2> QED BY <2>1, <2>2, OutsideQuiet, QuietPromises
<1>6. CASE \/ RemoveRead(p) \/ RemoveRuntime(p) \/ StripPeer(p)
           \/ RemovalFails(p) \/ ListDevices(p) \/ RestoreHosts(p)
           \/ RestoreHostsFails(p)
  <2>1. stage[p] \notin TransactionStages
    BY <1>6 DEF RemoveRead, RemoveRuntime, StripPeer, StripConfig,
       RemovalFails, ListDevices, RestoreHosts, RestoreHostsFails, At,
       TransactionStages, PeerStages, RemovalStages, HostsStages
  <2>2. /\ UNCHANGED <<devices, tokens, lock>>
        /\ \A q \in Process \ {p} : frame'[q] = frame[q]
    BY <1>p, <1>6 DEF RemoveRead, RemoveRuntime, StripPeer, StripConfig,
       RemovalFails, ListDevices, RestoreHosts, RestoreHostsFails, Finish,
       Set, database
  <2> QED BY <2>1, <2>2, OutsideQuiet, QuietPromises
<1>7. CASE \/ EnsureRuntime(p) \/ SyncHosts(p) \/ ReplaceDns(p)
           \/ ReplaceDnsFails(p)
  <2>1. UNCHANGED <<devices, tokens, lock, frame>>
    BY <1>7 DEF EnsureRuntime, SyncHosts, ReplaceDns, ReplaceDnsFails,
       database
  <2> QED BY <2>1, QuietPromises DEF Quiet
<1>8. CASE EnsureRead(p) \/ WritePeer(p) \/ ReadDns(p)
  <2>1. /\ UNCHANGED <<devices, tokens, lock>>
        /\ \A q \in Process \ {p} : frame'[q] = frame[q]
    BY <1>p, <1>8 DEF EnsureRead, WritePeer, ReadDns, Set, database
  <2>2. /\ frame'[p].request = frame[p].request
        /\ frame'[p].record = frame[p].record
        /\ frame'[p].created = frame[p].created
    BY <1>p, <1>8 DEF EnsureRead, WritePeer, ReadDns, Set, Frame
  <2> QED BY <2>1, <2>2, InsideQuiet, QuietPromises
<1> QED BY <1>1, <1>2, <1>3, <1>4, <1>5, <1>6, <1>7, <1>8 DEF EnrollStep,
    EnrollFault

(***************************************************************************)
(* Every step of a command does: the only one that is not quiet is the     *)
(* transaction of registry.revoke.                                         *)
(***************************************************************************)
LEMMA AdminPromises ==
    ASSUME Inv, NEW p \in Admin,
           \/ StartHostsSync(p) \/ StartRevoke(p)
           \/ AdminStep(p) \/ AdminFault(p) \/ CommandDies(p)
    PROVE  Promises
<1>1. CASE RevokeRow(p)
  <2>1. /\ lock' = lock /\ lock = NoProcess
        /\ tokens' = tokens /\ AdmittedTokens' = AdmittedTokens
    BY <1>1, FreeOfLock, GatewayConstants DEF RevokeRow, DB!Revoke,
       AdmittedTokens, Admitted
  <2>2. PICK d \in Device : DB!Revoke(d)
    <3>1. frame[p].record.device \in Device
      BY <1>1 DEF RevokeRow, At, Inv, LocalsFit, Fits, UsesRecord,
         DeviceRecord, Process
    <3> QED BY <1>1, <3>1 DEF RevokeRow
  <2>3. Promised!Revoke(d)
    BY <2>1, <2>2 DEF DB!Revoke, Promised!Revoke, DB!Registered,
       Promised!Registered
  <2>4. TransactionSound'
    BY <2>1, GatewayConstants DEF TransactionSound
  <2> QED BY <2>3, <2>4 DEF Promises, Promised!Next
<1>2. CASE ~RevokeRow(p)
  <2>1. UNCHANGED <<devices, tokens>>
    BY <1>2 DEF StartHostsSync, StartRevoke, AdminStep, AdminFault,
       CommandDies, RemoveRead, RemoveRuntime, StripRevoked, StripConfig,
       RevokeBusy, RevokeFails, EnsureRead, EnsureRuntime, RewritePeer,
       PutBackRefused, PutBackFails, ListDevices, WriteHosts, WriteHostsFails,
       LookUpDns, DeleteDns, RedoDns, LookUpDnsFails, DeleteDnsFails,
       PutPeerBack, database
  <2>2. Quiet
    BY <2>1, AdminOutside, GatewayConstants DEF Inv, LocalsFit, Quiet, Set,
       Process
  <2> QED BY <2>2, QuietPromises
<1> QED BY <1>1, <1>2

(***************************************************************************)
(* So do the creation and the expiry of a token, the death of the server   *)
(* and a reboot.                                                           *)
(***************************************************************************)
LEMMA OthersPromise ==
    ASSUME Inv,
           \/ \E t \in Token, s \in Scope : CreateToken(t, s)
           \/ \E t \in Token : TokenExpires(t)
           \/ ServerDies \/ Reboot \/ UNCHANGED gatewayVars
    PROVE  Promises
<1>1. ASSUME NEW t \in Token, NEW s \in Scope, CreateToken(t, s) PROVE Promises
  <2>1. lock = NoProcess /\ lock' = lock
    BY <1>1 DEF CreateToken
  <2>2. AdmittedTokens = tokens /\ AdmittedTokens' = tokens'
    <3>1. tokens' = [u \in Token |-> tokens'[u]]
      BY <1>1 DEF CreateToken, DB!CreateToken, Inv, SharedTypeOK, DB!TypeOK
    <3>2. \A u \in Token : ~Admitted(u)'
      BY <2>1, GatewayConstants DEF Admitted
    <3> QED BY <2>1, <3>1, <3>2, FreeOfLock DEF AdmittedTokens
  <2>3. Promised!CreateToken(t, s)
    BY <1>1, <2>2 DEF CreateToken, DB!CreateToken, Promised!CreateToken
  <2> QED BY <2>1, <2>3, GatewayConstants DEF Promises, Promised!Next,
      TransactionSound
<1>2. ASSUME NEW t \in Token, TokenExpires(t) PROVE Promises
  <2>1. /\ tokens[t].state = "fresh"
        /\ tokens' = [tokens EXCEPT ![t].state = "expired"]
        /\ tokens \in [Token -> DB!TokenRow]
        /\ UNCHANGED <<devices, lock, frame>>
    BY <1>2 DEF TokenExpires, DB!ExpireToken, Inv, SharedTypeOK, DB!TypeOK
  <2>2. \A u \in Token :
           /\ tokens'[u].state = IF u = t THEN "expired" ELSE tokens[u].state
           /\ tokens'[u].scope = tokens[u].scope
    BY <2>1 DEF DB!TokenRow
  <2>3. TransactionSound'
    <3> SUFFICES ASSUME lock \in Request PROVE Sound(lock)'
      BY <2>1 DEF TransactionSound
    <3>1. request(lock).token \in Token
      BY Asking, GatewayConstants DEF Inv, TransactionHeld, UsesRequest
    <3>2. Sound(lock) /\ lock' = lock
      BY <2>1 DEF Inv, TransactionSound
    <3> QED BY <2>1, <2>2, <3>1, <3>2 DEF Sound, record, request,
        DB!Registered, DB!KeyOwners, DB!RegisteredDevices, DB!FreeAddresses,
        DB!TakenAddresses
  <2>4. CASE Admitted(t)
    <3>1. \A u \in Token : u # t => ~Admitted(u)
      BY <2>4 DEF Admitted
    <3>2. \A u \in Token : Admitted(u)' <=> Admitted(u)
      BY <2>1 DEF Admitted, request
    <3>3. [tokens'[t] EXCEPT !.state = "fresh"] = tokens[t]
      BY <2>1 DEF DB!TokenRow
    <3>4. AdmittedTokens = tokens
      BY <2>1, <2>4, <3>1 DEF AdmittedTokens
    <3>5. AdmittedTokens' = tokens
      BY <2>1, <2>2, <2>4, <3>1, <3>2, <3>3 DEF AdmittedTokens
    <3> QED BY <2>1, <2>3, <3>4, <3>5 DEF Promises
  <2>5. CASE ~Admitted(t)
    <3>2. \A u \in Token : Admitted(u)' <=> Admitted(u)
      BY <2>1 DEF Admitted, request
    <3>3. AdmittedTokens[t] = tokens[t]
      BY <2>5 DEF AdmittedTokens
    <3>4. AdmittedTokens' = [AdmittedTokens EXCEPT ![t].state = "expired"]
      BY <2>1, <2>5, <3>2, <3>3 DEF AdmittedTokens
    <3>5. Promised!ExpireToken(t)
      BY <2>1, <3>3, <3>4 DEF Promised!ExpireToken
    <3> QED BY <2>3, <3>5 DEF Promises, Promised!Next
  <2> QED BY <2>4, <2>5
<1>3. CASE ServerDies
  <2>1. Release \/ Quiet
    BY <1>3 DEF ServerDies, Release, Quiet, Inv, TransactionHeld
  <2> QED BY <2>1, QuietPromises, ReleasePromises
<1>4. CASE Reboot
  BY <1>4, ReleasePromises DEF Reboot, Release
<1>5. CASE UNCHANGED gatewayVars
  BY <1>5, QuietPromises DEF gatewayVars, Quiet
<1> QED BY <1>1, <1>2, <1>3, <1>4, <1>5

(***************************************************************************)
(* The invariant holds when the gateway starts, on tables Registry may     *)
(* start with.                                                             *)
(***************************************************************************)
LEMMA StartsSound == Init => Inv /\ Promised!Init
<1> SUFFICES ASSUME Init PROVE Inv /\ Promised!Init
  OBVIOUS
<1>1. lock = NoProcess /\ LocalsFit /\ SharedTypeOK
  BY Initially DEF Init
<1>2. Inv
  BY <1>1, GatewayConstants DEF Inv, Init, TransactionHeld, TransactionSound,
     TransactionStages, PeerStages, Process
<1>3. Promised!Init
  BY <1>1, <1>2, FreeOfLock DEF Init, DB!Init, Promised!Init
<1> QED BY <1>2, <1>3

(***************************************************************************)
(* Every step of the gateway keeps the invariant, and is a step of         *)
(* Registry or changes nothing there.                                      *)
(***************************************************************************)
LEMMA StepsSound ==
    Inv /\ [Next]_gatewayVars =>
        Inv' /\ [Promised!Next]_<<devices, AdmittedTokens>>
<1> SUFFICES ASSUME Inv, [Next]_gatewayVars
             PROVE  Inv' /\ [Promised!Next]_<<devices, AdmittedTokens>>
  OBVIOUS
<1>1. LocalsFit' /\ SharedTypeOK' /\ TransactionHeld'
  BY LocalStep, SharedStep, HeldStep DEF Inv
<1>2. Promises
  BY RequestPromises, AdminPromises, OthersPromise DEF Next
<1> QED BY <1>1, <1>2 DEF Inv, Promises

(***************************************************************************)
(* The enrollment service and the administrator's commands, interleaved in *)
(* any way, with failing steps, deaths and reboots, change the committed   *)
(* tables only as module Registry allows.                                  *)
(***************************************************************************)
THEOREM RegistryImplemented == Spec => ImplementsRegistry
<1>1. Promised!Spec <=>
         Promised!Init /\ [][Promised!Next]_<<devices, AdmittedTokens>>
  BY DEF Promised!Spec, Promised!registryVars
<1> QED BY <1>1, StartsSound, StepsSound, PTL DEF Spec, ImplementsRegistry

-----------------------------------------------------------------------------
(***************************************************************************)
(* What RegistryProofs proves of Registry holds of the tables of the       *)
(* gateway, as Registry sees them.                                         *)
(***************************************************************************)
Kept == INSTANCE RegistryProofs WITH tokens <- AdmittedTokens

LEMMA SameRegistry == Promised!Spec <=> Kept!Spec
<1>1. Promised!Init <=> Kept!Init
  BY DEF Promised!Init, Kept!Init
<1>2. [Promised!Next]_<<devices, AdmittedTokens>> <=>
         [Kept!Next]_<<devices, AdmittedTokens>>
  BY DEF Promised!Next, Promised!CreateToken, Promised!ExpireToken,
     Promised!Register, Promised!Reenroll, Promised!Revoke,
     Promised!TokenAdmits, Promised!Registered, Promised!RegisteredDevices,
     Promised!KeyOwners, Promised!FreeAddresses, Promised!TakenAddresses,
     Promised!Consume, Kept!Next, Kept!CreateToken, Kept!ExpireToken,
     Kept!Register, Kept!Reenroll, Kept!Revoke, Kept!TokenAdmits,
     Kept!Registered, Kept!RegisteredDevices, Kept!KeyOwners,
     Kept!FreeAddresses, Kept!TakenAddresses, Kept!Consume
<1> QED BY <1>1, <1>2, PTL DEF Promised!Spec, Kept!Spec,
    Promised!registryVars, Kept!registryVars

(***************************************************************************)
(* Which tokens are consumed is the same for both.                         *)
(***************************************************************************)
LEMMA ConsumedAlike == Kept!ConsumedTokens = DB!ConsumedTokens
BY DEF Kept!ConsumedTokens, DB!ConsumedTokens, AdmittedTokens

(***************************************************************************)
(* In the gateway's tables no two devices, enabled or revoked, ever share  *)
(* a key or an address, however their enrollments overlap, fail or die.    *)
(***************************************************************************)
THEOREM GatewayIdentitiesDistinct == Spec => []DB!IdentitiesDistinct
<1>1. Kept!Spec => []Kept!IdentitiesDistinct
  BY Kept!IdentitiesAlwaysDistinct, NoRowIsNone, AnyDeviceIsNone, PTL
<1>2. Kept!IdentitiesDistinct => DB!IdentitiesDistinct
  BY DEF Kept!IdentitiesDistinct, DB!IdentitiesDistinct,
     Kept!RegisteredDevices, DB!RegisteredDevices, Kept!Registered,
     DB!Registered
<1> QED BY <1>1, <1>2, SameRegistry, RegistryImplemented, PTL
    DEF ImplementsRegistry

(***************************************************************************)
(* No device is registered without a consumed token of its own.            *)
(***************************************************************************)
THEOREM GatewayDevicesPaidFor ==
    ASSUME IsFiniteSet(Token) PROVE Spec => []DB!DevicesPaidFor
<1>0. Kept!IsFiniteSet(Token)
  BY DEF IsFiniteSet, Kept!IsFiniteSet
<1>1. Kept!Spec => []Kept!DevicesPaidFor
  BY <1>0, Kept!AllDevicesPaidFor, NoRowIsNone, AnyDeviceIsNone, PTL
<1>3. Kept!RegisteredDevices = DB!RegisteredDevices
  BY DEF Kept!RegisteredDevices, DB!RegisteredDevices, Kept!Registered,
     DB!Registered
<1>4. \A S : Kept!Cardinality(S) = DB!Cardinality(S)
  BY DEF Kept!Cardinality, DB!Cardinality
<1>2. Kept!DevicesPaidFor => DB!DevicesPaidFor
  BY ConsumedAlike, <1>3, <1>4 DEF Kept!DevicesPaidFor, DB!DevicesPaidFor
<1> QED BY <1>1, <1>2, SameRegistry, RegistryImplemented, PTL
    DEF ImplementsRegistry

(***************************************************************************)
(* Rows keep their identity, a revoked device stays revoked and a consumed *)
(* token stays consumed, though the row was read long before it is         *)
(* written.                                                                *)
(***************************************************************************)
THEOREM GatewayHistoryFinal == Spec => DB!HistoryIsFinal
<1>1. Kept!Spec => Kept!HistoryIsFinal
  BY Kept!HistoryAlwaysFinal, NoRowIsNone, AnyDeviceIsNone, PTL
<1>2. [/\ \A d \in Device : Kept!KeepsIdentity(d)
       /\ Kept!ConsumedTokens \subseteq Kept!ConsumedTokens'
      ]_<<devices, AdmittedTokens>> =>
      [/\ \A d \in Device : DB!KeepsIdentity(d)
       /\ DB!ConsumedTokens \subseteq DB!ConsumedTokens'
      ]_<<devices, tokens>>
  <2>1. (devices = devices') => \A d \in Device : DB!KeepsIdentity(d)
    BY DEF DB!KeepsIdentity, DB!Registered
  <2>2. (AdmittedTokens = AdmittedTokens') =>
           Kept!ConsumedTokens = Kept!ConsumedTokens'
    BY DEF Kept!ConsumedTokens
  <2>3. Kept!ConsumedTokens' = DB!ConsumedTokens'
    BY DEF Kept!ConsumedTokens, DB!ConsumedTokens, AdmittedTokens
  <2>4. (\A d \in Device : Kept!KeepsIdentity(d)) =>
           \A d \in Device : DB!KeepsIdentity(d)
    BY DEF Kept!KeepsIdentity, DB!KeepsIdentity, Kept!Registered,
       DB!Registered
  <2> QED BY <2>1, <2>2, <2>3, <2>4, ConsumedAlike
<1> QED BY <1>1, <1>2, SameRegistry, RegistryImplemented, PTL
    DEF ImplementsRegistry, Kept!HistoryIsFinal, DB!HistoryIsFinal,
        Kept!registryVars, DB!registryVars

-----------------------------------------------------------------------------
(***************************************************************************)
(* Enrollments by themselves: no administrator's command, no fault and no  *)
(* death. No client has the key of a hand-written peer, and with DNS       *)
(* automation none has a hostname of the gateway.                          *)
(***************************************************************************)
NotByHand(k) == \A b \in ManualBlocks : b.key # k

Undisturbed ==
    /\ Admin = {}
    /\ MaxFaults = 0 /\ MaxCrashes = 0
    /\ \A q \in Payload : NotByHand(q.key)
    /\ DnsEnabled => \A q \in Payload : q.device \notin Operational

(***************************************************************************)
(* Then no request has anything to undo but the hosts file: what fails     *)
(* fails before it has prepared a row.                                     *)
(***************************************************************************)
Calm ==
    /\ budget.fault = 0 /\ budget.crash = 0
    /\ \A p \in Request :
          /\ stage[p] \notin RemovalStages \cup {"dns_undo", "dns_restore"}
          /\ stage[p] \in {"peer_reservations", "registry_prepare"} =>
                ~frame[p].created /\ frame[p].previous = "unset"
          /\ stage[p] = "dns_read" => DnsEnabled

(***************************************************************************)
(* Rows share neither key nor address, and have no key of another peer.    *)
(***************************************************************************)
RowsApart ==
    /\ DB!IdentitiesDistinct
    /\ \A d \in DB!RegisteredDevices : NotByHand(devices[d].key)

(***************************************************************************)
(* A block is written by hand, or for a row with its key, committed or     *)
(* about to be. So ensure_peer finds no key in a wrong block.              *)
(***************************************************************************)
BlocksOwned ==
    \A b \in config :
       \/ b \in ManualBlocks
       \/ /\ b.owner \in DB!RegisteredDevices
          /\ devices[b.owner].key = b.key
       \/ /\ lock \in Request
          /\ b.owner = record(lock).device
          /\ b.key = record(lock).key

(***************************************************************************)
(* How far the open transaction of p has come: the text it will write back *)
(* is that of the file, since nobody else writes it meanwhile; then its    *)
(* peer is live, and then in the file.                                     *)
(***************************************************************************)
Applying(p) ==
    /\ NotByHand(record(p).key)
    /\ ~frame[p].created =>
          record(p).address = devices[record(p).device].address
    /\ stage[p] \in {"runtime_set", "config_write"} => frame[p].text = config
    /\ stage[p] \notin {"peer_apply", "runtime_set"} =>
          interface[record(p).key] = record(p).address
    /\ stage[p] \notin PeerStages =>
          [owner |-> record(p).device, key |-> record(p).key,
           address |-> record(p).address] \in config

HolderApplies == lock \in Request => Applying(lock)

Coexisting ==
    Calm /\ RowsApart /\ BlocksOwned /\ HolderApplies /\ EnabledHavePeers

(***************************************************************************)
(* So the only refusals are those of the registry.                         *)
(***************************************************************************)
LEMMA NeverRefused ==
    ASSUME Inv, Coexisting, Undisturbed, NEW p \in Request
    PROVE  ~PeerRefused(p) /\ ~DnsRefused(p) /\ ~StepFails(p)
<1>1. ~StepFails(p)
  BY DEF StepFails, Spend, Coexisting, Calm
<1>2. ASSUME stage[p] \in TransactionStages
      PROVE  /\ lock = p /\ Sound(p) /\ Applying(p)
             /\ request(p) \in Payload
  BY <1>2, Asking DEF Inv, TransactionHeld, TransactionSound, Coexisting,
     HolderApplies, UsesRequest
<1>3. ~DnsRefused(p)
  <2> SUFFICES ASSUME DnsRefused(p) PROVE FALSE
    OBVIOUS
  <2>1. stage[p] = "dns_read" /\ record(p).device \in Operational
    BY DEF DnsRefused, At
  <2>2. DnsEnabled /\ Sound(p) /\ request(p) \in Payload
    BY <1>2, <2>1 DEF Coexisting, Calm, TransactionStages
  <2> QED BY <2>1, <2>2 DEF Sound, Undisturbed
<1>4. ~PeerRefused(p)
  <2> SUFFICES ASSUME PeerRefused(p) PROVE FALSE
    OBVIOUS
  <2>1. stage[p] = "peer_apply" /\ PeerConflict(p)
    BY DEF PeerRefused, At
  <2>2. lock = p /\ Sound(p) /\ Applying(p)
    BY <1>2, <2>1 DEF TransactionStages, PeerStages
  <2>3. PICK b \in config : b.owner # record(p).device /\ b.key = record(p).key
    BY <2>1 DEF PeerConflict, KeyElsewhere, StripManagedBlock, record
  <2>4. b \notin ManualBlocks
    BY <2>2, <2>3 DEF Applying, NotByHand
  <2>5. /\ b.owner \in DB!RegisteredDevices
        /\ devices[b.owner].key = record(p).key
    BY <2>2, <2>3, <2>4 DEF Coexisting, BlocksOwned
  <2>6. CASE frame[p].created
    BY <2>2, <2>5, <2>6 DEF Sound, DB!KeyOwners
  <2>7. CASE ~frame[p].created
    <3>1. /\ record(p).device \in DB!RegisteredDevices
          /\ devices[record(p).device].key = record(p).key
      BY <2>1, <2>2, <2>7, Asking DEF Sound, DB!RegisteredDevices, Inv,
         UsesRequest, TransactionStages, PeerStages
    <3> QED BY <2>3, <2>5, <3>1 DEF Coexisting, RowsApart,
        DB!IdentitiesDistinct
  <2> QED BY <2>6, <2>7
<1> QED BY <1>1, <1>3, <1>4

(***************************************************************************)
(* A process that goes to a stage without anything to undo keeps Calm.     *)
(***************************************************************************)
LEMMA CalmMoves ==
    ASSUME LocalsFit, Calm, NEW p \in Process, NEW s, NEW f,
           Goto(p, s), Set(p, f),
           budget'.fault = 0, budget'.crash = 0,
           s \notin RemovalStages \cup {"dns_undo", "dns_restore"},
           s \in {"peer_reservations", "registry_prepare"} =>
              ~f.created /\ f.previous = "unset",
           s = "dns_read" => DnsEnabled
    PROVE  Calm'
BY DEF LocalsFit, Calm, Goto, Set

(***************************************************************************)
(* A failed repair of the hosts file costs nothing else.                   *)
(***************************************************************************)
LEMMA RepairSpends ==
    ASSUME SharedTypeOK, Calm, UNCHANGED budget \/ Spend("repair")
    PROVE  budget'.fault = 0 /\ budget'.crash = 0
BY DEF SharedTypeOK, Calm, Spend

(***************************************************************************)
(* What enrollments do when nothing disturbs them.                         *)
(***************************************************************************)
LEMMA RequestDoes ==
    ASSUME Inv, Coexisting, Undisturbed, NEW p \in Request,
           Receive(p) \/ EnrollStep(p) \/ EnrollFault(p)
    PROVE  \/ Receive(p) \/ ReadReservations(p) \/ Reject(p) \/ BusyTimeout(p)
           \/ ListDevices(p) \/ RestoreHosts(p) \/ RestoreHostsFails(p)
           \/ PrepareExisting(p) \/ PrepareNew(p)
           \/ EnsureRead(p) \/ EnsureRuntime(p) \/ WritePeer(p)
           \/ SyncHosts(p) \/ ReadDns(p) \/ ReplaceDns(p)
           \/ Commit(p)
<1>1. /\ ~UndoDns(p) /\ ~UndoDnsFails(p) /\ ~RestoreDns(p)
      /\ ~RestoreDnsFails(p) /\ ~RemoveRead(p) /\ ~RemoveRuntime(p)
      /\ ~StripPeer(p) /\ ~RemovalFails(p)
  BY DEF Coexisting, Calm, At, UndoDns, UndoDnsFails, RestoreDns,
     RestoreDnsFails, RemoveRead, RemoveRuntime, StripPeer, StripConfig,
     RemovalFails, RemovalStages
<1>2. ~ReplaceDnsFails(p)
  BY DEF ReplaceDnsFails, Spend, Coexisting, Calm
<1> QED BY <1>1, <1>2, NeverRefused DEF EnrollStep, EnrollFault

(***************************************************************************)
(* None of them leaves a request with something to undo.                   *)
(***************************************************************************)
LEMMA CalmStep ==
    ASSUME Inv, Coexisting, Undisturbed, NEW p \in Request,
           Receive(p) \/ EnrollStep(p) \/ EnrollFault(p)
    PROVE  Calm'
<1>p. /\ p \in Process /\ Calm /\ LocalsFit /\ SharedTypeOK
      /\ frame[p] \in Frame
  BY DEF Process, Coexisting, Inv, LocalsFit
<1>b. UNCHANGED budget => budget'.fault = 0 /\ budget'.crash = 0
  BY <1>p, RepairSpends
<1> USE <1>p, <1>b DEF At, RemovalStages
<1>1. CASE Receive(p) \/ ReadReservations(p)
  <2>1. EmptyFrame.created = FALSE /\ EmptyFrame.previous = "unset"
    BY DEF EmptyFrame
  <2>2. CASE Receive(p)
    <3>1. PICK q \in Payload :
             Set(p, [EmptyFrame EXCEPT !.request = q])
      BY <2>2 DEF Receive
    <3>2. [EmptyFrame EXCEPT !.request = q].created = FALSE
       /\ [EmptyFrame EXCEPT !.request = q].previous = "unset"
      BY DEF EmptyFrame
    <3> QED BY <2>2, <3>1, <3>2, CalmMoves DEF Receive
  <2>3. CASE ReadReservations(p)
    BY <2>3, CalmMoves DEF ReadReservations, Calm, Frame
  <2> QED BY <1>1, <2>2, <2>3
<1>2. CASE Reject(p) \/ BusyTimeout(p)
  <2>1. CleanupStage(p) = "hosts_list"
    BY <1>2 DEF Reject, BusyTimeout, Calm, CleanupStage
  <2> QED BY <1>2, <2>1, CalmMoves DEF Reject, BusyTimeout, Fail
<1>3. CASE ListDevices(p) \/ RestoreHosts(p)
  BY <1>3, CalmMoves DEF ListDevices, RestoreHosts, Finish
<1>4. CASE RestoreHostsFails(p)
  BY <1>4, RepairSpends, CalmMoves DEF RestoreHostsFails, Finish
<1>5. CASE PrepareExisting(p) \/ PrepareNew(p)
  BY <1>5, CalmMoves DEF PrepareExisting, PrepareNew, Prepared
<1>6. CASE EnsureRead(p) \/ WritePeer(p)
  BY <1>6, CalmMoves DEF EnsureRead, WritePeer
<1>7. CASE EnsureRuntime(p) \/ SyncHosts(p) \/ ReplaceDns(p)
  <2>1. Set(p, frame[p])
    BY <1>7 DEF EnsureRuntime, SyncHosts, ReplaceDns, Set, LocalsFit
  <2> QED BY <1>7, <2>1, CalmMoves DEF EnsureRuntime, SyncHosts, ReplaceDns
<1>8. CASE ReadDns(p)
  <2>1. UNCHANGED frame => Set(p, frame[p])
    BY DEF Set, LocalsFit
  <2> QED BY <1>8, <2>1, CalmMoves DEF ReadDns
<1>9. CASE Commit(p)
  BY <1>9, CalmMoves DEF Commit, Finish
<1> QED BY <1>1, <1>2, <1>3, <1>4, <1>5, <1>6, <1>7, <1>8, <1>9, RequestDoes

(***************************************************************************)
(* The rest of Coexisting: what is about rows, blocks and peers.           *)
(***************************************************************************)
PeersKept == RowsApart /\ BlocksOwned /\ HolderApplies /\ EnabledHavePeers

(***************************************************************************)
(* It is kept while nobody touches rows and peers, nor the transaction     *)
(* that is open.                                                           *)
(***************************************************************************)
LEMMA OutsideKeepsPeers ==
    ASSUME PeersKept, UNCHANGED <<devices, lock, config, interface>>,
           lock \in Request =>
              frame'[lock] = frame[lock] /\ stage'[lock] = stage[lock]
    PROVE  PeersKept'
<1>1. RowsApart' /\ EnabledHavePeers'
  BY DEF PeersKept, RowsApart, EnabledHavePeers, EnabledRecords, Installed,
     DB!IdentitiesDistinct, DB!RegisteredDevices, DB!Registered
<1>2. BlocksOwned'
  BY DEF PeersKept, BlocksOwned, record, DB!RegisteredDevices, DB!Registered
<1>3. HolderApplies'
  BY DEF PeersKept, HolderApplies, Applying, record
<1> QED BY <1>1, <1>2, <1>3 DEF PeersKept

(***************************************************************************)
(* A transaction begins with a record of its own.                          *)
(***************************************************************************)
LEMMA PrepareKeepsPeers ==
    ASSUME Inv, PeersKept, Undisturbed, NEW p \in Request,
           PrepareExisting(p) \/ PrepareNew(p)
    PROVE  PeersKept'
<1>p. p \in Process /\ frame[p] \in Frame /\ request(p) \in Payload
  BY Asking DEF Process, Inv, LocalsFit, UsesRequest, At, PrepareExisting,
     PrepareNew
<1>1. /\ UNCHANGED <<devices, config, interface>>
      /\ lock = NoProcess /\ lock' = p /\ stage'[p] = "peer_apply"
  BY <1>p DEF PrepareExisting, PrepareNew, Prepared, Goto, peerState, Inv,
     LocalsFit
<1>2. NotByHand(request(p).key)
  BY <1>p DEF Undisturbed
<1>3. /\ NotByHand(frame'[p].record.key)
      /\ ~frame'[p].created =>
            frame'[p].record.address = devices[frame'[p].record.device].address
  <2>1. CASE PrepareExisting(p)
    <3> DEFINE rec == [device |-> request(p).device,
                       key |-> devices[request(p).device].key,
                       address |-> devices[request(p).device].address]
    <3>1. /\ Prepared(p, rec, FALSE)
          /\ devices[request(p).device].key = request(p).key
      BY <2>1 DEF PrepareExisting, AcceptsExisting
    <3>2. frame'[p].record = rec
      BY <1>p, <3>1 DEF Prepared, Set, Inv, LocalsFit, Frame
    <3> QED BY <1>2, <3>1, <3>2
  <2>2. CASE PrepareNew(p)
    <3> DEFINE rec == [device |-> request(p).device, key |-> request(p).key,
                       address |-> Min(FreeAddresses(p))]
    <3>1. Prepared(p, rec, TRUE)
      BY <2>2 DEF PrepareNew
    <3>2. frame'[p].record = rec /\ frame'[p].created = TRUE
      BY <1>p, <3>1 DEF Prepared, Set, Inv, LocalsFit, Frame
    <3>3. rec.key = request(p).key
      OBVIOUS
    <3> QED BY <1>2, <3>2, <3>3
  <2> QED BY <2>1, <2>2
<1>4. HolderApplies'
  BY <1>1, <1>3 DEF HolderApplies, Applying, record, PeerStages
<1>5. RowsApart' /\ EnabledHavePeers'
  BY <1>1 DEF PeersKept, RowsApart, EnabledHavePeers, EnabledRecords,
     Installed, DB!IdentitiesDistinct, DB!RegisteredDevices, DB!Registered
<1>6. BlocksOwned'
  BY <1>1, GatewayConstants DEF PeersKept, BlocksOwned, DB!RegisteredDevices,
     DB!Registered
<1> QED BY <1>4, <1>5, <1>6 DEF PeersKept

(***************************************************************************)
(* What the holder of the lock may rely on.                                *)
(***************************************************************************)
LEMMA Holding ==
    ASSUME Inv, PeersKept, NEW p \in Request, stage[p] \in TransactionStages
    PROVE  /\ lock = p /\ Sound(p) /\ Applying(p)
           /\ p \in Process /\ frame[p] \in Frame
           /\ record(p) \in DeviceRecord
BY DEF Inv, TransactionHeld, TransactionSound, PeersKept, HolderApplies,
   Process, LocalsFit, Fits, record, UsesRecord

(***************************************************************************)
(* The record of the open transaction is that of a row, or shares neither  *)
(* key nor address with any.                                               *)
(***************************************************************************)
LEMMA RecordApart ==
    ASSUME Inv, PeersKept, NEW p \in Request, Sound(p), Applying(p),
           record(p) \in DeviceRecord, NEW d \in DB!RegisteredDevices
    PROVE  \/ /\ d = record(p).device
              /\ devices[d].key = record(p).key
              /\ devices[d].address = record(p).address
           \/ /\ d # record(p).device
              /\ devices[d].key # record(p).key
              /\ devices[d].address # record(p).address
<1>1. CASE frame[p].created
  BY <1>1 DEF Sound, DB!RegisteredDevices, DB!KeyOwners, DB!FreeAddresses,
     DB!TakenAddresses
<1>2. CASE ~frame[p].created
  <2>1. /\ record(p).device \in DB!RegisteredDevices
        /\ devices[record(p).device].key = record(p).key
        /\ devices[record(p).device].address = record(p).address
    BY <1>2 DEF Sound, Applying, DB!RegisteredDevices, DeviceRecord
  <2> QED BY <2>1 DEF PeersKept, RowsApart, DB!IdentitiesDistinct
<1> QED BY <1>1, <1>2

(***************************************************************************)
(* What changes neither rows nor lock keeps rows apart.                    *)
(***************************************************************************)
LEMMA RowsStayApart ==
    ASSUME PeersKept, UNCHANGED devices PROVE RowsApart'
BY DEF PeersKept, RowsApart, DB!IdentitiesDistinct, DB!RegisteredDevices,
   DB!Registered

(***************************************************************************)
(* Enabled devices keep their peers if they keep block and address.        *)
(***************************************************************************)
LEMMA InstalledStays ==
    ASSUME PeersKept, UNCHANGED devices,
           \A rec \in EnabledRecords : Installed(rec) => Installed(rec)'
    PROVE  EnabledHavePeers'
BY DEF PeersKept, EnabledHavePeers, EnabledRecords, DB!RegisteredDevices,
   DB!Registered

(***************************************************************************)
(* The steps of a transaction on the peer.                                 *)
(***************************************************************************)
LEMMA PeerStepKeepsPeers ==
    ASSUME Inv, PeersKept, NEW p \in Request,
           EnsureRead(p) \/ EnsureRuntime(p) \/ WritePeer(p)
    PROVE  PeersKept'
<1> DEFINE rec == record(p)
           block == [owner |-> rec.device, key |-> rec.key,
                     address |-> rec.address]
<1>0. stage[p] \in PeerStages /\ stage[p] \in TransactionStages
  BY DEF EnsureRead, EnsureRuntime, WritePeer, At, PeerStages,
     TransactionStages
<1>1. /\ lock = p /\ Sound(p) /\ Applying(p)
      /\ p \in Process /\ frame[p] \in Frame /\ rec \in DeviceRecord
  BY <1>0, Holding
<1>2. UNCHANGED <<devices, lock>>
  BY DEF EnsureRead, EnsureRuntime, WritePeer, database
<1>3. /\ frame'[p].record = rec /\ frame'[p].created = frame[p].created
      /\ stage'[p] = IF stage[p] = "peer_apply" THEN "runtime_set"
                     ELSE IF stage[p] = "runtime_set" THEN "config_write"
                     ELSE "hosts_sync"
  BY <1>1 DEF EnsureRead, EnsureRuntime, WritePeer, At, Set, Goto, Inv,
     LocalsFit, Frame, record
<1>4. RowsApart'
  BY <1>2, RowsStayApart
<1>5. CASE EnsureRead(p)
  <2>1. /\ UNCHANGED <<config, interface>>
        /\ frame'[p].text = config /\ stage'[p] = "runtime_set"
    BY <1>1, <1>3, <1>5 DEF EnsureRead, peerState, Set, Inv, LocalsFit,
       Frame, At
  <2>2. HolderApplies'
    BY <1>1, <1>2, <1>3, <2>1 DEF HolderApplies, Applying, record, PeerStages
  <2>3. BlocksOwned'
    BY <1>1, <1>2, <1>3, <2>1 DEF PeersKept, BlocksOwned, record,
       DB!RegisteredDevices, DB!Registered
  <2>4. EnabledHavePeers'
    BY <1>2, <2>1, InstalledStays DEF Installed
  <2> QED BY <1>4, <2>2, <2>3, <2>4 DEF PeersKept
<1>6. CASE EnsureRuntime(p)
  <2>1. /\ UNCHANGED <<config, frame>>
        /\ interface' = WgSetPeer(interface, rec.key, rec.address)
        /\ stage[p] = "runtime_set" /\ stage'[p] = "config_write"
    BY <1>3, <1>6 DEF EnsureRuntime, At, record
  <2>2. rec.key \in Key
    BY <1>1 DEF DeviceRecord
  <2>3. HolderApplies'
    BY <1>1, <1>2, <2>1, <2>2 DEF HolderApplies, Applying, record, PeerStages,
       WgSetPeer
  <2>4. BlocksOwned'
    BY <1>1, <1>2, <2>1 DEF PeersKept, BlocksOwned, record,
       DB!RegisteredDevices, DB!Registered
  <2>5. ASSUME NEW d \in DB!RegisteredDevices,
               interface[devices[d].key] = devices[d].address
        PROVE  interface'[devices[d].key] = devices[d].address
    <3>1. devices[d].key \in Key
      BY DEF Inv, SharedTypeOK, DB!TypeOK, DB!Row, DB!RegisteredDevices,
         DB!Registered
    <3> QED BY <1>1, <2>1, <2>5, <3>1, RecordApart DEF WgSetPeer
  <2>6. EnabledHavePeers'
    BY <1>2, <2>1, <2>5, InstalledStays DEF Installed, EnabledRecords
  <2> QED BY <1>4, <2>3, <2>4, <2>6 DEF PeersKept
<1>7. CASE WritePeer(p)
  <2>1. /\ interface' = interface
        /\ stage[p] = "config_write" /\ stage'[p] = "hosts_sync"
        /\ frame[p].text = config
    BY <1>1, <1>3, <1>7 DEF WritePeer, At, Applying
  <2>2. config' = StripManagedBlock(config, rec.device) \cup {block}
    BY <1>7, <2>1 DEF WritePeer, EnsureWrite, WithManagedBlock, record
  <2>3. block \in config'
    BY <2>2
  <2>4. HolderApplies'
    BY <1>1, <1>2, <1>3, <2>1, <2>3 DEF HolderApplies, Applying, record,
       PeerStages
  <2>5. \A b \in config' : b = block \/ b \in config
    BY <2>2 DEF StripManagedBlock
  <2>6. BlocksOwned'
    BY <1>1, <1>2, <1>3, <2>5 DEF PeersKept, BlocksOwned, record,
       DB!RegisteredDevices, DB!Registered
  <2>7. ASSUME NEW d \in DB!RegisteredDevices,
               [owner |-> d, key |-> devices[d].key,
                address |-> devices[d].address] \in config
        PROVE  [owner |-> d, key |-> devices[d].key,
                address |-> devices[d].address] \in config'
    BY <1>1, <2>2, <2>7, RecordApart DEF StripManagedBlock
  <2>8. EnabledHavePeers'
    BY <1>2, <2>1, <2>7, InstalledStays DEF Installed, EnabledRecords
  <2> QED BY <1>4, <2>4, <2>6, <2>8 DEF PeersKept
<1> QED BY <1>5, <1>6, <1>7

(***************************************************************************)
(* The steps of a transaction after it has set the peer.                   *)
(***************************************************************************)
LEMMA NameStepKeepsPeers ==
    ASSUME Inv, PeersKept, NEW p \in Request,
           SyncHosts(p) \/ ReadDns(p) \/ ReplaceDns(p)
    PROVE  PeersKept'
<1>0. stage[p] \notin PeerStages /\ stage[p] \in TransactionStages
  BY DEF SyncHosts, ReadDns, ReplaceDns, At, PeerStages, TransactionStages
<1>1. /\ lock = p /\ Sound(p) /\ Applying(p)
      /\ p \in Process /\ frame[p] \in Frame
  BY <1>0, Holding
<1>2. UNCHANGED <<devices, lock, config, interface>>
  BY DEF SyncHosts, ReadDns, ReplaceDns, database, peerState
<1>3. /\ frame'[p].record = frame[p].record
      /\ frame'[p].created = frame[p].created
      /\ stage'[p] \in {"dns_read", "dns_replace", "token_consume"}
  BY <1>1 DEF SyncHosts, ReadDns, ReplaceDns, Set, Goto, Inv, LocalsFit,
     Frame
<1>4. RowsApart'
  BY <1>2, RowsStayApart
<1>5. HolderApplies'
  BY <1>0, <1>1, <1>2, <1>3 DEF HolderApplies, Applying, record, PeerStages
<1>6. BlocksOwned'
  BY <1>1, <1>2, <1>3 DEF PeersKept, BlocksOwned, record,
     DB!RegisteredDevices, DB!Registered
<1>7. EnabledHavePeers'
  BY <1>2, InstalledStays DEF Installed
<1> QED BY <1>4, <1>5, <1>6, <1>7 DEF PeersKept

(***************************************************************************)
(* The commit makes a row of the record, whose peer is in place.           *)
(***************************************************************************)
LEMMA CommitKeepsPeers ==
    ASSUME Inv, PeersKept, NEW p \in Request, Commit(p)
    PROVE  PeersKept'
<1> DEFINE rec == record(p)
           row == [key |-> rec.key, address |-> rec.address, enabled |-> TRUE]
<1>0. /\ stage[p] = "token_consume" /\ stage[p] \in TransactionStages
      /\ stage[p] \notin PeerStages
  BY DEF Commit, At, PeerStages, TransactionStages
<1>1. /\ lock = p /\ Sound(p) /\ Applying(p)
      /\ rec \in DeviceRecord
  BY <1>0, Holding
<1>2. /\ rec.device \in Device
      /\ [owner |-> rec.device, key |-> rec.key, address |-> rec.address]
            \in config
      /\ interface[rec.key] = rec.address
      /\ NotByHand(rec.key)
  BY <1>0, <1>1 DEF DeviceRecord, Applying
<1>3. /\ UNCHANGED <<config, interface>>
      /\ lock' = NoProcess
      /\ devices' = TransactionRows(p)
  BY DEF Commit, peerState
<1>4. row.key = rec.key /\ row.address = rec.address /\ row # NoRow
  <2>1. row \in [key : Key, address : Address, enabled : BOOLEAN]
    BY <1>1 DEF DeviceRecord
  <2> QED BY <2>1, NoRowIsNone
<1>5. /\ \A d \in DB!RegisteredDevices' :
            \/ d \in DB!RegisteredDevices /\ devices'[d] = devices[d]
            \/ /\ d = rec.device
               /\ devices'[d].key = rec.key
               /\ devices'[d].address = rec.address
      /\ \A d \in DB!RegisteredDevices :
            /\ d \in DB!RegisteredDevices'
            /\ d # rec.device => devices'[d] = devices[d]
      /\ rec.device \in DB!RegisteredDevices'
      /\ devices'[rec.device].key = rec.key
      /\ devices'[rec.device].address = rec.address
  <2> HIDE DEF row
  <2>1. CASE frame[p].created
    <3>1. devices' = [devices EXCEPT ![rec.device] = row]
      BY <1>3, <2>1 DEF TransactionRows, row
    <3>2. /\ \A d \in Device :
                devices'[d] = IF d = rec.device THEN row ELSE devices[d]
      BY <3>1 DEF Inv, SharedTypeOK, DB!TypeOK
    <3> QED BY <1>2, <1>4, <3>2 DEF DB!RegisteredDevices, DB!Registered
  <2>2. CASE ~frame[p].created
    <3>1. devices' = devices
      BY <1>3, <2>2 DEF TransactionRows
    <3>2. /\ DB!Registered(rec.device)
          /\ devices[rec.device].key = rec.key
          /\ devices[rec.device].address = rec.address
      BY <1>1, <2>2 DEF Sound, Applying
    <3> QED BY <1>2, <3>1, <3>2 DEF DB!RegisteredDevices, DB!Registered
  <2> QED BY <2>1, <2>2
<1>6. rec.address # GatewayAddress
  <2>1. CASE frame[p].created
    BY <1>1, <2>1 DEF Sound, DB!FreeAddresses, DB!TakenAddresses
  <2>2. CASE ~frame[p].created
    BY <1>1, <1>2, <2>2 DEF Sound, Applying, PeersKept, RowsApart,
       DB!IdentitiesDistinct, DB!RegisteredDevices
  <2> QED BY <2>1, <2>2
<1>7. RowsApart'
  <2>1. ASSUME NEW d \in DB!RegisteredDevices',
               NEW e \in DB!RegisteredDevices', d # e
        PROVE  /\ devices'[d].key # devices'[e].key
               /\ devices'[d].address # devices'[e].address
    <3>1. CASE d = rec.device
      <4>1. e \in DB!RegisteredDevices /\ devices'[e] = devices[e]
        BY <1>5, <2>1, <3>1
      <4> QED BY <1>1, <1>5, <2>1, <3>1, <4>1, RecordApart
    <3>2. CASE d # rec.device
      <4>1. d \in DB!RegisteredDevices /\ devices'[d] = devices[d]
        BY <1>5, <3>2
      <4>2. CASE e = rec.device
        BY <1>1, <1>5, <3>2, <4>1, <4>2, RecordApart
      <4>3. CASE e # rec.device
        <5>1. e \in DB!RegisteredDevices /\ devices'[e] = devices[e]
          BY <1>5, <4>3
        <5> QED BY <2>1, <4>1, <5>1 DEF PeersKept, RowsApart,
            DB!IdentitiesDistinct
      <4> QED BY <4>2, <4>3
    <3> QED BY <3>1, <3>2
  <2>2. ASSUME NEW d \in DB!RegisteredDevices'
        PROVE  /\ devices'[d].address # GatewayAddress
               /\ NotByHand(devices'[d].key)
    BY <1>2, <1>5, <1>6 DEF PeersKept, RowsApart, DB!IdentitiesDistinct
  <2> QED BY <2>1, <2>2 DEF RowsApart, DB!IdentitiesDistinct, NotByHand
<1>8. BlocksOwned'
  <2> SUFFICES ASSUME NEW b \in config, b \notin ManualBlocks
               PROVE  /\ b.owner \in DB!RegisteredDevices'
                      /\ devices'[b.owner].key = b.key
    BY <1>3 DEF BlocksOwned
  <2>1. CASE b.owner = rec.device /\ b.key = rec.key
    BY <1>5, <2>1
  <2>2. CASE b.owner \in DB!RegisteredDevices /\ devices[b.owner].key = b.key
    BY <1>1, <1>5, <2>2, RecordApart
  <2> QED BY <1>1, <2>1, <2>2 DEF PeersKept, BlocksOwned
<1>9. HolderApplies'
  BY <1>3, GatewayConstants DEF HolderApplies
<1>10. EnabledHavePeers'
  <2>1. ASSUME NEW d \in DB!RegisteredDevices', devices'[d].enabled
        PROVE  /\ [owner |-> d, key |-> devices'[d].key,
                   address |-> devices'[d].address] \in config
               /\ interface[devices'[d].key] = devices'[d].address
    <3>1. CASE d = rec.device
      BY <1>2, <1>5, <3>1
    <3>2. CASE d # rec.device
      <4> DEFINE old == [device |-> d, key |-> devices[d].key,
                         address |-> devices[d].address]
      <4>1. d \in DB!RegisteredDevices /\ devices'[d] = devices[d]
        BY <1>5, <3>2
      <4>2. old \in EnabledRecords
        BY <2>1, <4>1 DEF EnabledRecords
      <4>3. Installed(old)
        BY <4>2 DEF PeersKept, EnabledHavePeers
      <4> QED BY <4>1, <4>3 DEF Installed
    <3> QED BY <3>1, <3>2
  <2>2. ASSUME NEW r \in EnabledRecords' PROVE Installed(r)'
    <3>1. PICK d \in DB!RegisteredDevices' :
             /\ devices'[d].enabled
             /\ r = [device |-> d, key |-> devices'[d].key,
                     address |-> devices'[d].address]
      BY DEF EnabledRecords
    <3> QED BY <1>3, <2>1, <3>1 DEF Installed
  <2> QED BY <2>2 DEF EnabledHavePeers
<1> QED BY <1>7, <1>8, <1>9, <1>10 DEF PeersKept

(***************************************************************************)
(* Every step of undisturbed enrollments keeps all of it.                  *)
(***************************************************************************)
LEMMA CoexistingStep ==
    Undisturbed /\ Inv /\ Coexisting /\ [Next]_gatewayVars => Coexisting'
<1> SUFFICES ASSUME Undisturbed, Inv, Coexisting, [Next]_gatewayVars
             PROVE  Coexisting'
  OBVIOUS
<1>k. PeersKept /\ Calm
  BY DEF Coexisting, PeersKept
<1>q. Calm' /\ PeersKept' => Coexisting'
  BY DEF Coexisting, PeersKept
<1>1. CASE \/ \E t \in Token, s \in Scope : CreateToken(t, s)
           \/ \E t \in Token : TokenExpires(t)
           \/ UNCHANGED gatewayVars
  <2>1. /\ UNCHANGED <<devices, lock, config, interface>>
        /\ UNCHANGED <<stage, frame, budget>>
    BY <1>1 DEF CreateToken, TokenExpires, DB!CreateToken, DB!ExpireToken,
       gatewayVars, peerState
  <2>2. Calm'
    BY <1>k, <2>1 DEF Calm
  <2> QED BY <1>k, <1>q, <2>1, <2>2, OutsideKeepsPeers
<1>2. ASSUME NEW p \in Request,
             Receive(p) \/ EnrollStep(p) \/ EnrollFault(p)
      PROVE  Coexisting'
  <2>1. Calm'
    BY <1>2, CalmStep
  <2>2. CASE \/ Receive(p) \/ ReadReservations(p) \/ Reject(p)
             \/ BusyTimeout(p) \/ ListDevices(p) \/ RestoreHosts(p)
             \/ RestoreHostsFails(p)
    <3>1. stage[p] \notin TransactionStages
      BY <2>2 DEF Receive, MayStart, ReadReservations, Reject, BusyTimeout,
         ListDevices, RestoreHosts, RestoreHostsFails, At, TransactionStages,
         PeerStages, HostsStages
    <3>2. lock # p
      BY <3>1, GatewayConstants DEF Inv, TransactionHeld
    <3>3. UNCHANGED <<devices, lock, config, interface>>
      BY <2>2, <3>2 DEF Receive, ReadReservations, Reject, BusyTimeout,
         ListDevices, RestoreHosts, RestoreHostsFails, Fail, ReleaseLock,
         database, peerState
    <3>4. \A q \in Process \ {p} : frame'[q] = frame[q] /\ stage'[q] = stage[q]
      BY <2>2 DEF Receive, ReadReservations, Reject, BusyTimeout, ListDevices,
         RestoreHosts, RestoreHostsFails, Fail, Finish, Set, Goto, Inv,
         LocalsFit
    <3> QED BY <1>k, <1>q, <2>1, <3>2, <3>3, <3>4, OutsideKeepsPeers
        DEF Process
  <2>3. CASE PrepareExisting(p) \/ PrepareNew(p)
    BY <1>k, <1>q, <2>1, <2>3, PrepareKeepsPeers
  <2>4. CASE EnsureRead(p) \/ EnsureRuntime(p) \/ WritePeer(p)
    BY <1>k, <1>q, <2>1, <2>4, PeerStepKeepsPeers
  <2>5. CASE SyncHosts(p) \/ ReadDns(p) \/ ReplaceDns(p)
    BY <1>k, <1>q, <2>1, <2>5, NameStepKeepsPeers
  <2>6. CASE Commit(p)
    BY <1>k, <1>q, <2>1, <2>6, CommitKeepsPeers
  <2> QED BY <1>2, <2>2, <2>3, <2>4, <2>5, <2>6, RequestDoes
<1>3. ~\E p \in Admin : TRUE
  BY DEF Undisturbed
<1>4. ~ServerDies /\ ~Reboot
  BY <1>k DEF ServerDies, Reboot, Spend, Calm
<1> QED BY <1>1, <1>2, <1>3, <1>4 DEF Next

(***************************************************************************)
(* It holds of the gateway at the start, where there are no rows.          *)
(***************************************************************************)
LEMMA CoexistingInitially == Undisturbed /\ Init => Coexisting
<1> SUFFICES ASSUME Undisturbed, Init PROVE Coexisting
  OBVIOUS
<1>1. DB!RegisteredDevices = {}
  BY DEF Init, DB!Init, DB!RegisteredDevices, DB!Registered
<1>2. Calm
  BY DEF Init, Calm, Undisturbed, Process, RemovalStages
<1>3. RowsApart /\ EnabledHavePeers
  BY <1>1 DEF RowsApart, DB!IdentitiesDistinct, EnabledHavePeers,
     EnabledRecords
<1>4. BlocksOwned /\ HolderApplies
  BY GatewayConstants DEF Init, BlocksOwned, HolderApplies
<1> QED BY <1>2, <1>3, <1>4 DEF Coexisting

(***************************************************************************)
(* However many enrollments overlap, as long as nothing else disturbs      *)
(* them, every committed device has its block in the configuration and its *)
(* address on the interface at every moment: the peer of one is never      *)
(* overwritten by the stale text, nor taken by the address or the refusal, *)
(* of another.                                                             *)
(***************************************************************************)
THEOREM EnabledAlwaysHavePeers ==
    ASSUME Undisturbed PROVE Spec => []EnabledHavePeers
<1>1. Coexisting => EnabledHavePeers
  BY DEF Coexisting
<1> QED BY <1>1, StartsSound, StepsSound, CoexistingInitially, CoexistingStep,
    PTL DEF Spec
=============================================================================
