---------------------------- MODULE SerialProofs ----------------------------
(***************************************************************************)
(* What holds of the gateway when its operations do not overlap, for every *)
(* set of devices, keys, addresses and processes, with any steps failing   *)
(* and any process dying: which rows, blocks, peers and names there are    *)
(* while the one operation in progress is at each of its stages.           *)
(***************************************************************************)
EXTENDS RefinementProofs, FiniteSetTheorems

(***************************************************************************)
(* A step of process p.                                                    *)
(***************************************************************************)
Acts(p) ==
    \/ p \in Request /\ (Receive(p) \/ EnrollStep(p) \/ EnrollFault(p))
    \/ p \in Admin /\ \/ StartHostsSync(p) \/ StartRevoke(p)
                      \/ AdminStep(p) \/ AdminFault(p) \/ CommandDies(p)

(***************************************************************************)
(* At most one operation is in progress, and a process that is idle has    *)
(* forgotten the one before.                                               *)
(***************************************************************************)
Sequential ==
    /\ \A p, q \in Process : ~At(p, "idle") /\ ~At(q, "idle") => p = q
    /\ \A p \in Process : At(p, "idle") => frame[p] = EmptyFrame

(***************************************************************************)
(* An operation starts only when no other is in progress.                  *)
(***************************************************************************)
LEMMA StartsAlone ==
    ASSUME MaxOverlap = 1, Sequential, NEW p \in Process, MayStart(p)
    PROVE  \A q \in Process : At(q, "idle")
<1> DEFINE Busy == {q \in Process : ~At(q, "idle")}
<1> SUFFICES ASSUME NEW q \in Process, ~At(q, "idle") PROVE FALSE
  OBVIOUS
<1>1. Busy = {q}
  BY DEF Sequential
<1>2. Cardinality(Busy) = 1
  BY <1>1, FS_Singleton
<1> QED BY <1>2 DEF MayStart

(***************************************************************************)
(* A step of a process changes where it is and what it remembers, and only *)
(* the first one finds it idle.                                            *)
(***************************************************************************)
LEMMA RequestMoves ==
    ASSUME Inv, NEW p \in Request,
           Receive(p) \/ EnrollStep(p) \/ EnrollFault(p)
    PROVE  /\ \E s, f : Goto(p, s) /\ Set(p, f)
           /\ ~At(p, "idle") \/ MayStart(p)
<1>1. p \in Process /\ frame = [frame EXCEPT ![p] = frame[p]]
  BY DEF Process, Inv, LocalsFit
<1> USE <1>1 DEF Set, Finish, Fail, At
<1>2. CASE Receive(p) \/ ReadReservations(p)
  BY <1>2 DEF Receive, ReadReservations
<1>3. CASE PrepareExisting(p) \/ PrepareNew(p)
  BY <1>3 DEF PrepareExisting, PrepareNew, Prepared
<1>4. CASE \/ Reject(p) \/ BusyTimeout(p) \/ PeerRefused(p) \/ DnsRefused(p)
           \/ StepFails(p)
  BY <1>4 DEF Reject, BusyTimeout, PeerRefused, DnsRefused, StepFails,
     PeerStages
<1>5. CASE \/ EnsureRead(p) \/ EnsureRuntime(p) \/ WritePeer(p)
           \/ SyncHosts(p) \/ Commit(p)
  BY <1>5 DEF EnsureRead, EnsureRuntime, WritePeer, SyncHosts, Commit
<1>6. CASE ReadDns(p) \/ ReplaceDns(p) \/ ReplaceDnsFails(p)
  BY <1>6 DEF ReadDns, ReplaceDns, ReplaceDnsFails
<1>7. CASE UndoDns(p) \/ UndoDnsFails(p) \/ RestoreDns(p) \/ RestoreDnsFails(p)
  BY <1>7 DEF UndoDns, UndoDnsFails, LeaveDns, RestoreDns, RestoreDnsFails,
     AfterDnsRestore
<1>8. CASE \/ RemoveRead(p) \/ RemoveRuntime(p) \/ StripPeer(p)
           \/ RemovalFails(p)
  BY <1>8 DEF RemoveRead, RemoveRuntime, StripPeer, StripConfig,
     RemovalFails, RemovalStages
<1>9. CASE ListDevices(p) \/ RestoreHosts(p) \/ RestoreHostsFails(p)
  BY <1>9 DEF ListDevices, RestoreHosts, RestoreHostsFails, HostsStages
<1> QED BY <1>2, <1>3, <1>4, <1>5, <1>6, <1>7, <1>8, <1>9 DEF EnrollStep,
    EnrollFault

(***************************************************************************)
(* So does a step of a command.                                            *)
(***************************************************************************)
LEMMA AdminMoves ==
    ASSUME Inv, NEW p \in Admin,
           \/ StartHostsSync(p) \/ StartRevoke(p)
           \/ AdminStep(p) \/ AdminFault(p) \/ CommandDies(p)
    PROVE  /\ \E s, f : Goto(p, s) /\ Set(p, f)
           /\ ~At(p, "idle") \/ MayStart(p)
<1>1. ~At(p, "idle") \/ MayStart(p)
  <2>1. CASE StartHostsSync(p) \/ StartRevoke(p) \/ CommandDies(p)
    BY <2>1 DEF StartHostsSync, StartRevoke, CommandDies
  <2>2. CASE AdminStep(p) \/ AdminFault(p)
    BY <2>2 DEF AdminStep, AdminFault, At, RemoveRead, RemoveRuntime,
       StripRevoked, StripConfig, RevokeRow, RevokeBusy, RevokeFails,
       EnsureRead, EnsureRuntime, RewritePeer, PutBackRefused, PutBackFails,
       ListDevices, WriteHosts, WriteHostsFails, LookUpDns, DeleteDns,
       RedoDns, LookUpDnsFails, DeleteDnsFails, PeerStages, RemovalStages,
       HostsStages
  <2> QED BY <2>1, <2>2
<1> QED BY <1>1, AdminOutside DEF Inv

(***************************************************************************)
(* While a process takes a step every other one is idle, and stays so.     *)
(***************************************************************************)
LEMMA ActsAlone ==
    ASSUME MaxOverlap = 1, Inv, Sequential, NEW p \in Process, Acts(p)
    PROVE  /\ \A q \in Process \ {p} :
                 /\ stage[q] = "idle" /\ stage'[q] = "idle"
                 /\ frame[q] = EmptyFrame /\ frame'[q] = EmptyFrame
           /\ \E s, f : /\ Goto(p, s) /\ Set(p, f)
                        /\ stage'[p] = s /\ frame'[p] = f
<1>1. PICK s, f : Goto(p, s) /\ Set(p, f)
  BY RequestMoves, AdminMoves DEF Acts
<1>2. ~At(p, "idle") \/ MayStart(p)
  BY RequestMoves, AdminMoves DEF Acts
<1>3. \A q \in Process \ {p} : At(q, "idle")
  BY <1>2, StartsAlone DEF Sequential
<1> QED BY <1>1, <1>3 DEF Sequential, At, Goto, Set, Inv, LocalsFit

(***************************************************************************)
(* A process that becomes idle forgets what it was doing.                  *)
(***************************************************************************)
LEMMA EndsEmpty ==
    ASSUME Inv, NEW p \in Process, Acts(p), stage'[p] = "idle"
    PROVE  frame'[p] = EmptyFrame
<1>1. ASSUME Finish(p) PROVE frame'[p] = EmptyFrame
  BY <1>1 DEF Finish, Set, Inv, LocalsFit
<1>2. CASE p \in Request
  <2> USE DEF Goto, Inv, LocalsFit
  <2>1. CASE Receive(p) \/ ReadReservations(p)
    BY <2>1 DEF Receive, ReadReservations
  <2>2. CASE PrepareExisting(p) \/ PrepareNew(p)
    BY <2>2 DEF PrepareExisting, PrepareNew, Prepared
  <2>3. CASE \/ Reject(p) \/ BusyTimeout(p) \/ PeerRefused(p)
             \/ DnsRefused(p) \/ StepFails(p)
    BY <2>3 DEF Reject, BusyTimeout, PeerRefused, DnsRefused, StepFails,
       Fail, CleanupStage
  <2>4. CASE EnsureRead(p) \/ EnsureRuntime(p) \/ WritePeer(p) \/ SyncHosts(p)
    BY <2>4 DEF EnsureRead, EnsureRuntime, WritePeer, SyncHosts
  <2>5. CASE ReadDns(p) \/ ReplaceDns(p) \/ ReplaceDnsFails(p)
    BY <2>5 DEF ReadDns, ReplaceDns, ReplaceDnsFails
  <2>6. CASE \/ UndoDns(p) \/ UndoDnsFails(p) \/ RestoreDns(p)
             \/ RestoreDnsFails(p)
    BY <2>6 DEF UndoDns, UndoDnsFails, LeaveDns, RestoreDns,
       RestoreDnsFails, AfterDnsRestore
  <2>7. CASE \/ RemoveRead(p) \/ RemoveRuntime(p) \/ StripPeer(p)
             \/ RemovalFails(p) \/ ListDevices(p)
    BY <2>7 DEF RemoveRead, RemoveRuntime, StripPeer, StripConfig,
       RemovalFails, ListDevices
  <2>8. CASE Commit(p) \/ RestoreHosts(p) \/ RestoreHostsFails(p)
    BY <1>1, <2>8 DEF Commit, RestoreHosts, RestoreHostsFails
  <2> QED BY <1>2, <2>1, <2>2, <2>3, <2>4, <2>5, <2>6, <2>7, <2>8,
      GatewayConstants DEF Acts, EnrollStep, EnrollFault
<1>3. CASE p \in Admin
  <2> USE DEF Goto, Inv, LocalsFit
  <2>1. CASE StartHostsSync(p) \/ StartRevoke(p) \/ CommandDies(p)
    BY <1>1, <2>1 DEF StartHostsSync, StartRevoke, CommandDies
  <2>2. CASE \/ RemoveRead(p) \/ RemoveRuntime(p) \/ StripRevoked(p)
             \/ RevokeRow(p) \/ RevokeBusy(p) \/ RevokeFails(p)
    BY <2>2 DEF RemoveRead, RemoveRuntime, StripRevoked, StripConfig,
       RevokeRow, RevokeBusy, RevokeFails, PutPeerBack
  <2>3. CASE \/ EnsureRead(p) \/ EnsureRuntime(p) \/ RewritePeer(p)
             \/ PutBackRefused(p) \/ PutBackFails(p)
    BY <1>1, <2>3 DEF EnsureRead, EnsureRuntime, RewritePeer,
       PutBackRefused, PutBackFails
  <2>4. CASE ListDevices(p) \/ WriteHosts(p) \/ WriteHostsFails(p)
    BY <1>1, <2>4 DEF ListDevices, WriteHosts, WriteHostsFails, AfterHosts
  <2>5. CASE \/ LookUpDns(p) \/ DeleteDns(p) \/ RedoDns(p)
             \/ LookUpDnsFails(p) \/ DeleteDnsFails(p)
    BY <1>1, <2>5 DEF LookUpDns, DeleteDns, RedoDns, LookUpDnsFails,
       DeleteDnsFails
  <2> QED BY <1>3, <2>1, <2>2, <2>3, <2>4, <2>5, GatewayConstants DEF Acts,
      AdminStep, AdminFault
<1> QED BY <1>2, <1>3 DEF Process

(***************************************************************************)
(* Steps that belong to no process.                                        *)
(***************************************************************************)
Outside ==
    \/ \E t \in Token, s \in Scope : CreateToken(t, s)
    \/ \E t \in Token : TokenExpires(t)
    \/ UNCHANGED gatewayVars

(***************************************************************************)
(* The steps of the gateway, by who takes them.                            *)
(***************************************************************************)
LEMMA StepsAre ==
    [Next]_gatewayVars =>
        (\E p \in Process : Acts(p)) \/ Outside \/ ServerDies \/ Reboot
BY DEF Next, Acts, Outside, Process

(***************************************************************************)
(* A death or a reboot leaves every process idle, or where it was.         *)
(***************************************************************************)
LEMMA Dies ==
    ASSUME Inv, ServerDies \/ Reboot, NEW p \in Process
    PROVE  \/ stage'[p] = "idle" /\ frame'[p] = EmptyFrame
           \/ stage'[p] = stage[p] /\ frame'[p] = frame[p]
BY DEF ServerDies, Reboot

(***************************************************************************)
(* Operations that start one at a time stay so.                            *)
(***************************************************************************)
LEMMA SequentialStep ==
    ASSUME MaxOverlap = 1, Inv, Sequential, [Next]_gatewayVars
    PROVE  Sequential'
<1>1. ASSUME NEW p \in Process, Acts(p) PROVE Sequential'
  BY <1>1, ActsAlone, EndsEmpty DEF Sequential, At
<1>2. CASE Outside
  BY <1>2 DEF Outside, CreateToken, TokenExpires, gatewayVars, Sequential, At
<1>3. CASE ServerDies \/ Reboot
  BY <1>3, Dies DEF Sequential, At
<1> QED BY <1>1, <1>2, <1>3, StepsAre

-----------------------------------------------------------------------------
(***************************************************************************)
(* No step of the gateway gives two devices one key or one address.        *)
(***************************************************************************)
LEMMA IdentitiesStep ==
    ASSUME Inv, DB!IdentitiesDistinct, [Next]_gatewayVars
    PROVE  DB!IdentitiesDistinct'
<1>r. devices \in [Device -> DB!Row \cup {NoRow}]
  BY DEF Inv, SharedTypeOK, DB!TypeOK
<1> USE <1>r DEF DB!IdentitiesDistinct, DB!RegisteredDevices, DB!Registered
<1>1. CASE UNCHANGED devices
  BY <1>1
<1>2. ASSUME NEW d \in Device, NEW k \in Key, NEW t \in Token,
             Promised!Register(d, k, t)
      PROVE  DB!IdentitiesDistinct'
  <2>1. PICK a \in Promised!FreeAddresses :
           devices' = [devices EXCEPT
                         ![d] = [key |-> k, address |-> a, enabled |-> TRUE]]
    BY <1>2 DEF Promised!Register
  <2>2. /\ a # GatewayAddress
        /\ \A e \in DB!RegisteredDevices :
              devices[e].key # k /\ devices[e].address # a
    BY <1>2 DEF Promised!Register, Promised!FreeAddresses, Promised!KeyOwners,
       Promised!TakenAddresses, Promised!RegisteredDevices,
       Promised!Registered
  <2>3. \A e \in Device : devices'[e] =
           IF e = d THEN [key |-> k, address |-> a, enabled |-> TRUE]
                    ELSE devices[e]
    BY <2>1
  <2> QED BY <2>2, <2>3
<1>3. ASSUME NEW d \in Device, Promised!Revoke(d)
      PROVE  DB!IdentitiesDistinct'
  <2>1. devices[d] \in DB!Row
    BY <1>3 DEF Promised!Revoke, Promised!Registered
  <2>2. \A e \in DB!RegisteredDevices' :
           /\ e \in DB!RegisteredDevices
           /\ devices'[e].key = devices[e].key
           /\ devices'[e].address = devices[e].address
    BY <1>3, <2>1 DEF Promised!Revoke, Promised!Registered, DB!Row
  <2> QED BY <2>2
<1>4. [Promised!Next]_<<devices, AdmittedTokens>>
  BY StepsSound
<1> QED BY <1>1, <1>2, <1>3, <1>4 DEF Promised!Next, Promised!CreateToken,
    Promised!ExpireToken, Promised!Reenroll

(***************************************************************************)
(* The two ways in which the committed tables change.                      *)
(***************************************************************************)
LEMMA TableSteps ==
    ASSUME Inv, NEW p \in Process, Acts(p)
    PROVE  \/ UNCHANGED devices
           \/ p \in Request /\ Commit(p)
           \/ p \in Admin /\ RevokeRow(p)
<1>1. CASE p \in Request
  BY <1>1, GatewayConstants DEF Acts, EnrollStep, EnrollFault, database,
     Receive, ReadReservations, PrepareExisting, PrepareNew, Prepared, Reject,
     BusyTimeout, PeerRefused, DnsRefused, StepFails, Fail, EnsureRead,
     EnsureRuntime, WritePeer, SyncHosts, ReadDns, ReplaceDns,
     ReplaceDnsFails, UndoDns, UndoDnsFails, LeaveDns, RestoreDns,
     RestoreDnsFails, AfterDnsRestore, RemoveRead, RemoveRuntime, StripPeer,
     StripConfig, RemovalFails, ListDevices, RestoreHosts, RestoreHostsFails
<1>2. CASE p \in Admin
  BY <1>2, GatewayConstants DEF Acts, AdminStep, AdminFault, database,
     StartHostsSync, StartRevoke, CommandDies, RemoveRead, RemoveRuntime,
     StripRevoked, StripConfig, RevokeBusy, RevokeFails, PutPeerBack,
     EnsureRead, EnsureRuntime, RewritePeer, PutBackRefused, PutBackFails,
     ListDevices, WriteHosts, WriteHostsFails, LookUpDns, DeleteDns, RedoDns,
     LookUpDnsFails, DeleteDnsFails
<1> QED BY <1>1, <1>2 DEF Process

(***************************************************************************)
(* How the record that a process works on relates to the committed tables: *)
(* a request prepared a row that nobody has yet, or found its own; a       *)
(* command works on a row that is enabled until registry.revoke.           *)
(***************************************************************************)
Unused(rec) ==
    /\ ~DB!Registered(rec.device)
    /\ \A d \in DB!RegisteredDevices :
          devices[d].key # rec.key /\ devices[d].address # rec.address

RowOf(rec, isEnabled) ==
    /\ DB!Registered(rec.device)
    /\ devices[rec.device].key = rec.key
    /\ devices[rec.device].address = rec.address
    /\ devices[rec.device].enabled = isEnabled

Unprepared == {"peer_reservations", "registry_prepare"}
RevokesPeer == PeerStages \cup RemovalStages \cup {"registry_revoke"}

RecordCurrent(p) ==
    /\ p \in Request =>
          /\ stage[p] \in Unprepared =>
                /\ frame[p].record = NoRecord
                /\ ~frame[p].created
                /\ frame[p].previous = "unset"
          /\ stage[p] \in RemovalStages => frame[p].created
          /\ frame[p].created => Unused(frame[p].record)
          /\ ~frame[p].created /\ frame[p].record # NoRecord =>
                RowOf(frame[p].record, TRUE)
    /\ p \in Admin =>
          /\ ~frame[p].created
          /\ stage[p] \in RevokesPeer => RowOf(frame[p].record, TRUE)
          /\ stage[p] \notin RevokesPeer /\ frame[p].record # NoRecord =>
                RowOf(frame[p].record, FALSE)

RecordsCurrent == \A p \in Process : RecordCurrent(p)

(***************************************************************************)
(* An idle process works on no record.                                     *)
(***************************************************************************)
LEMMA IdleRecord ==
    ASSUME NEW p, stage'[p] = "idle", frame'[p] = EmptyFrame
    PROVE  RecordCurrent(p)'
BY DEF RecordCurrent, EmptyFrame, Unprepared, RevokesPeer, PeerStages,
   RemovalStages

(***************************************************************************)
(* A new row gets an address that is free in the tables and was not in the *)
(* configuration when it was read.                                         *)
(***************************************************************************)
LEMMA AllocatesFree ==
    ASSUME NEW p, PrepareNew(p)
    PROVE  Min(FreeAddresses(p)) \in FreeAddresses(p)
<1>1. FreeAddresses(p) \subseteq Nat
  BY GatewayConstants DEF FreeAddresses, DB!FreeAddresses
<1>2. FreeAddresses(p) # {}
  BY DEF PrepareNew, AcceptsNew
<1> QED BY <1>1, <1>2, MinimumIsMember

(***************************************************************************)
(* A request keeps its record current until it ends.                       *)
(***************************************************************************)
LEMMA RequestRecord ==
    ASSUME Inv, NEW p \in Request, RecordCurrent(p),
           Receive(p) \/ EnrollStep(p) \/ EnrollFault(p)
    PROVE  RecordCurrent(p)'
<1>p. /\ p \in Process /\ p \notin Admin
      /\ frame[p] \in Frame /\ frame \in [Process -> Frame]
      /\ stage \in [Process -> Stage]
  BY GatewayConstants DEF Process, Inv, LocalsFit
<1>d. devices \in [Device -> DB!Row \cup {NoRow}]
  BY DEF Inv, SharedTypeOK, DB!TypeOK
<1> DEFINE Keeps ==
      /\ stage'[p] \notin Unprepared
      /\ stage'[p] \in RemovalStages =>
            stage[p] \in RemovalStages \/ frame[p].created
      /\ frame'[p].record = frame[p].record
      /\ frame'[p].created = frame[p].created
<1>k. ASSUME UNCHANGED devices, Keeps
      PROVE  RecordCurrent(p)'
  BY <1>p, <1>k DEF RecordCurrent, Unused, RowOf, DB!Registered,
     DB!RegisteredDevices
<1>e. ASSUME Finish(p) PROVE RecordCurrent(p)'
  BY <1>p, <1>e DEF Finish, Goto, Set, RecordCurrent, EmptyFrame, Unprepared,
     RemovalStages
<1> USE <1>p, <1>d DEF At, Goto, Set, Frame, Unprepared, RemovalStages
<1>1. CASE Receive(p)
  <2>1. /\ stage'[p] = "peer_reservations"
        /\ frame'[p].record = NoRecord
        /\ frame'[p].created = FALSE
        /\ frame'[p].previous = "unset"
    BY <1>1 DEF Receive, EmptyFrame
  <2> QED BY <2>1 DEF RecordCurrent
<1>2. CASE ReadReservations(p)
  BY <1>2 DEF ReadReservations, RecordCurrent, At
<1>3. CASE PrepareExisting(p)
  <2>1. request(p).device \in Device
    BY <1>3, Asking DEF Inv, PrepareExisting, At, UsesRequest
  <2>2. devices[request(p).device] \in DB!Row
    BY <1>3, <2>1 DEF PrepareExisting, AcceptsExisting, DB!Registered
  <2> QED BY <1>3, <2>2 DEF PrepareExisting, AcceptsExisting, Prepared,
      RecordCurrent, RowOf, DB!Row, DB!Registered
<1>4. CASE PrepareNew(p)
  <2> QED BY <1>4, AllocatesFree DEF PrepareNew, AcceptsNew, Prepared,
      RecordCurrent, FreeAddresses, Unused, DB!FreeAddresses,
      DB!TakenAddresses, DB!KeyOwners, DB!Registered, DB!RegisteredDevices
<1>5. CASE \/ Reject(p) \/ BusyTimeout(p) \/ PeerRefused(p) \/ DnsRefused(p)
           \/ StepFails(p)
  <2>1. Fail(p)
    BY <1>5 DEF Reject, BusyTimeout, PeerRefused, DnsRefused, StepFails
  <2> QED BY <1>k, <2>1 DEF Fail, CleanupStage
<1>6. CASE EnsureRead(p) \/ EnsureRuntime(p) \/ WritePeer(p) \/ SyncHosts(p)
  BY <1>k, <1>6 DEF EnsureRead, EnsureRuntime, WritePeer, SyncHosts, database
<1>7. CASE ReadDns(p) \/ ReplaceDns(p) \/ ReplaceDnsFails(p)
  BY <1>k, <1>7 DEF ReadDns, ReplaceDns, ReplaceDnsFails, database
<1>8. CASE UndoDns(p) \/ UndoDnsFails(p) \/ RestoreDns(p) \/ RestoreDnsFails(p)
  BY <1>k, <1>8 DEF UndoDns, UndoDnsFails, LeaveDns, RestoreDns,
     RestoreDnsFails, AfterDnsRestore, database
<1>9. CASE \/ RemoveRead(p) \/ RemoveRuntime(p) \/ StripPeer(p)
           \/ RemovalFails(p) \/ ListDevices(p)
  BY <1>k, <1>9 DEF RemoveRead, RemoveRuntime, StripPeer, StripConfig,
     RemovalFails, ListDevices, database
<1>10. CASE Commit(p) \/ RestoreHosts(p) \/ RestoreHostsFails(p)
  BY <1>e, <1>10 DEF Commit, RestoreHosts, RestoreHostsFails
<1> QED BY <1>1, <1>2, <1>3, <1>4, <1>5, <1>6, <1>7, <1>8, <1>9, <1>10
    DEF EnrollStep, EnrollFault

(***************************************************************************)
(* So does a command; registry.revoke disables its row.                    *)
(***************************************************************************)
LEMMA AdminRecord ==
    ASSUME Inv, NEW p \in Admin, RecordCurrent(p),
           stage[p] = "idle" => frame[p] = EmptyFrame,
           \/ StartHostsSync(p) \/ StartRevoke(p)
           \/ AdminStep(p) \/ AdminFault(p) \/ CommandDies(p)
    PROVE  RecordCurrent(p)'
<1>p. /\ p \in Process /\ p \notin Request
      /\ frame[p] \in Frame /\ frame \in [Process -> Frame]
      /\ stage \in [Process -> Stage]
  BY GatewayConstants DEF Process, Inv, LocalsFit
<1>d. devices \in [Device -> DB!Row \cup {NoRow}]
  BY DEF Inv, SharedTypeOK, DB!TypeOK
<1> DEFINE Keeps ==
      /\ stage'[p] \in RevokesPeer <=> stage[p] \in RevokesPeer
      /\ frame'[p].record = frame[p].record
      /\ frame'[p].created = frame[p].created
<1>k. ASSUME UNCHANGED devices, Keeps
      PROVE  RecordCurrent(p)'
  BY <1>p, <1>k DEF RecordCurrent, RowOf, DB!Registered
<1>e. ASSUME Finish(p) PROVE RecordCurrent(p)'
  BY <1>p, <1>e DEF Finish, Goto, Set, RecordCurrent, EmptyFrame, RevokesPeer,
     PeerStages, RemovalStages
<1> USE <1>p, <1>d DEF At, Goto, Set, Frame, RevokesPeer, PeerStages,
    RemovalStages
<1>1. CASE StartHostsSync(p)
  <2>1. frame'[p] = EmptyFrame /\ stage'[p] = "hosts_list"
    BY <1>1 DEF StartHostsSync, MayStart
  <2> QED BY <2>1 DEF RecordCurrent, EmptyFrame
<1>2. CASE StartRevoke(p)
  <2>1. PICK d \in DB!RegisteredDevices :
           /\ Set(p, [EmptyFrame EXCEPT
                        !.record = [device |-> d, key |-> devices[d].key,
                                    address |-> devices[d].address]])
           /\ Goto(p, IF devices[d].enabled THEN "peer_remove"
                                            ELSE "hosts_list")
    BY <1>2 DEF StartRevoke
  <2>2. d \in Device /\ devices[d] \in DB!Row /\ devices[d] # NoRow
    BY DEF DB!RegisteredDevices, DB!Registered
  <2>3. /\ frame'[p].record = [device |-> d, key |-> devices[d].key,
                               address |-> devices[d].address]
        /\ frame'[p].created = FALSE
    BY <2>1 DEF EmptyFrame
  <2>4. RowOf(frame'[p].record, devices[d].enabled)
    BY <2>2, <2>3 DEF RowOf, DB!Registered
  <2>5. UNCHANGED devices /\ devices[d].enabled \in BOOLEAN
    BY <1>2, <2>2 DEF StartRevoke, database, DB!Row
  <2>6. stage'[p] = IF devices[d].enabled THEN "peer_remove" ELSE "hosts_list"
    BY <2>1
  <2> QED BY <2>3, <2>4, <2>5, <2>6 DEF RecordCurrent, RowOf, DB!Registered
<1>3. CASE RevokeRow(p)
  <2>1. frame[p].record \in DeviceRecord /\ RowOf(frame[p].record, TRUE)
    BY <1>3 DEF RevokeRow, RecordCurrent, Inv, LocalsFit, Fits, UsesRecord
  <2>2. RowOf(frame[p].record, FALSE)'
    <3>1. /\ frame[p].record.device \in Device
          /\ devices[frame[p].record.device] \in DB!Row
      BY <2>1 DEF RowOf, DB!Registered, DeviceRecord
    <3>2. [devices[frame[p].record.device] EXCEPT !.enabled = FALSE]
             \in DB!Row
      BY <3>1 DEF DB!Row
    <3> QED BY <1>3, <2>1, <3>1, <3>2, NoRowIsNone DEF RevokeRow, RowOf,
        DB!Revoke, DB!Registered, DB!Row
  <2>3. stage'[p] = "hosts_list" /\ UNCHANGED frame
    BY <1>3 DEF RevokeRow
  <2> QED BY <2>2, <2>3 DEF RecordCurrent
<1>4. CASE RemoveRead(p) \/ RemoveRuntime(p) \/ StripRevoked(p)
  BY <1>k, <1>4 DEF RemoveRead, RemoveRuntime, StripRevoked, StripConfig,
     database
<1>5. CASE RevokeBusy(p) \/ RevokeFails(p)
  BY <1>k, <1>5 DEF RevokeBusy, RevokeFails, PutPeerBack, database
<1>6. CASE EnsureRead(p) \/ EnsureRuntime(p)
  BY <1>k, <1>6 DEF EnsureRead, EnsureRuntime, database
<1>7. CASE ListDevices(p) \/ DeleteDnsFails(p)
  BY <1>k, <1>7 DEF ListDevices, DeleteDnsFails, HostsStages, database
<1>8. CASE WriteHosts(p) \/ WriteHostsFails(p)
  BY <1>k, <1>e, <1>8 DEF WriteHosts, WriteHostsFails, AfterHosts,
     HostsStages, database
<1>9. CASE LookUpDns(p)
  BY <1>k, <1>e, <1>9 DEF LookUpDns, database
<1>10. CASE \/ RewritePeer(p) \/ PutBackRefused(p) \/ PutBackFails(p)
            \/ DeleteDns(p) \/ RedoDns(p) \/ LookUpDnsFails(p)
            \/ CommandDies(p)
  BY <1>e, <1>10 DEF RewritePeer, PutBackRefused, PutBackFails, DeleteDns,
     RedoDns, LookUpDnsFails, CommandDies
<1> QED BY <1>1, <1>2, <1>3, <1>4, <1>5, <1>6, <1>7, <1>8, <1>9, <1>10
    DEF AdminStep, AdminFault

(***************************************************************************)
(* Every step of the gateway keeps every record current: the only process  *)
(* that changes the tables is the one whose record they are about.         *)
(***************************************************************************)
LEMMA RecordStep ==
    ASSUME MaxOverlap = 1, Inv, Sequential, RecordsCurrent,
           [Next]_gatewayVars
    PROVE  RecordsCurrent'
<1>1. ASSUME NEW p \in Process, Acts(p) PROVE RecordsCurrent'
  <2>1. RecordCurrent(p)'
    BY <1>1, RequestRecord, AdminRecord DEF RecordsCurrent, Acts, Sequential,
       At
  <2>2. \A q \in Process \ {p} : RecordCurrent(q)'
    BY <1>1, ActsAlone, IdleRecord
  <2> QED BY <2>1, <2>2 DEF RecordsCurrent
<1>2. CASE Outside \/ ServerDies \/ Reboot
  <2>1. UNCHANGED devices
    BY <1>2 DEF Outside, CreateToken, TokenExpires, ServerDies, Reboot,
       DB!CreateToken, DB!ExpireToken, gatewayVars
  <2>2. ASSUME NEW p \in Process
        PROVE  \/ stage'[p] = "idle" /\ frame'[p] = EmptyFrame
               \/ stage'[p] = stage[p] /\ frame'[p] = frame[p]
    BY <1>2, Dies DEF Outside, CreateToken, TokenExpires, gatewayVars
  <2>3. ASSUME NEW p \in Process PROVE RecordCurrent(p)'
    <3>1. CASE stage'[p] = stage[p] /\ frame'[p] = frame[p]
      BY <2>1, <3>1 DEF RecordsCurrent, RecordCurrent, Unused, RowOf,
         DB!Registered, DB!RegisteredDevices
    <3> QED BY <2>2, <3>1, IdleRecord
  <2> QED BY <2>3 DEF RecordsCurrent
<1> QED BY <1>1, <1>2, StepsAre

-----------------------------------------------------------------------------
(***************************************************************************)
(* The configuration file and the committed rows: the block of a           *)
(* registered device says what its row says, a revoked device has none,    *)
(* and no other block has the key or the address of a row.                 *)
(***************************************************************************)
BlocksFit(d) ==
    \A b \in config :
        IF b.owner = d
        THEN /\ devices[d].enabled
             /\ b.key = devices[d].key
             /\ b.address = devices[d].address
        ELSE /\ b.key # devices[d].key
             /\ b.address # devices[d].address

AllBlocksFit == \A d \in DB!RegisteredDevices : BlocksFit(d)

(***************************************************************************)
(* What a process knows of the file: the text it read is still the text,   *)
(* the addresses and the key it will write are in no other block, and once *)
(* it has written its block, that is the only one of the device.           *)
(***************************************************************************)
AppliedStages ==
    {"hosts_sync", "dns_read", "dns_replace", "dns_undo", "token_consume"}

BlockOf(rec) ==
    [owner |-> rec.device, key |-> rec.key, address |-> rec.address]
BlocksOf(d) == {b \in config : b.owner = d}
AddressElsewhere(rec) ==
    \E b \in StripManagedBlock(config, rec.device) : b.address = rec.address

TextCurrent(p) ==
    /\ stage[p] = "registry_prepare" =>
          frame[p].reserved = ReservedNetworks(config)
    /\ stage[p] \in TextStages => frame[p].text = config
    /\ stage[p] \in TransactionStages /\ frame[p].created =>
          ~AddressElsewhere(frame[p].record)
    /\ stage[p] \in TransactionStages \ {"peer_apply"} =>
          ~KeyElsewhere(config, frame[p].record.device, frame[p].record.key)
    /\ stage[p] \in AppliedStages =>
          BlocksOf(frame[p].record.device) = {BlockOf(frame[p].record)}
    /\ stage[p] = "registry_revoke" =>
          BlocksOf(frame[p].record.device) = {}

TextsCurrent == \A p \in Process : TextCurrent(p)

(***************************************************************************)
(* The ways in which the file changes, when nobody else has written it     *)
(* since it was read.                                                      *)
(***************************************************************************)
LEMMA FileSteps ==
    ASSUME Inv, NEW p \in Process, Acts(p), TextCurrent(p)
    PROVE  \/ UNCHANGED config
           \/ /\ stage[p] = "config_write" /\ UNCHANGED devices
              /\ config' = WithManagedBlock(config, frame[p].record.device,
                              frame[p].record.key, frame[p].record.address)
           \/ /\ stage[p] = "config_strip" /\ UNCHANGED devices
              /\ config' = StripManagedBlock(config, frame[p].record.device)
<1> USE DEF At, TextCurrent, TextStages, database
<1>1. CASE \/ EnsureRead(p) \/ EnsureRuntime(p)
           \/ RemoveRead(p) \/ RemoveRuntime(p)
  BY <1>1 DEF EnsureRead, EnsureRuntime, RemoveRead, RemoveRuntime, peerState
<1>2. CASE WritePeer(p) \/ RewritePeer(p)
  BY <1>2 DEF WritePeer, RewritePeer, EnsureWrite
<1>3. CASE StripConfig(p, "hosts_list") \/ StripConfig(p, "registry_revoke")
  BY <1>3 DEF StripConfig, HasManagedBlock, StripManagedBlock
<1> QED BY <1>1, <1>2, <1>3, RequestText, AdminText DEF Acts, Inv

(***************************************************************************)
(* A block that is written for a record that is current fits the rows, and *)
(* leaves the others as they were.                                         *)
(***************************************************************************)
LEMMA WrittenFits ==
    ASSUME DB!IdentitiesDistinct, AllBlocksFit, UNCHANGED devices,
           NEW rec \in DeviceRecord, Unused(rec) \/ RowOf(rec, TRUE),
           config' = WithManagedBlock(config, rec.device, rec.key, rec.address)
    PROVE  AllBlocksFit'
<1> SUFFICES ASSUME NEW d \in DB!RegisteredDevices, NEW b \in config'
             PROVE  IF b.owner = d
                    THEN /\ devices[d].enabled
                         /\ b.key = devices[d].key
                         /\ b.address = devices[d].address
                    ELSE /\ b.key # devices[d].key
                         /\ b.address # devices[d].address
  BY DEF AllBlocksFit, BlocksFit, DB!RegisteredDevices, DB!Registered
<1>1. CASE b \in config
  BY <1>1 DEF AllBlocksFit, BlocksFit
<1>2. CASE b = BlockOf(rec)
  <2>1. b.owner = rec.device /\ b.key = rec.key /\ b.address = rec.address
    BY <1>2 DEF BlockOf
  <2>2. CASE d = rec.device
    BY <2>1, <2>2 DEF Unused, RowOf, DB!RegisteredDevices
  <2>3. CASE d # rec.device
    <3>1. rec.device \in Device
      BY DEF DeviceRecord
    <3> QED BY <2>1, <2>3, <3>1 DEF Unused, RowOf, DB!IdentitiesDistinct,
        DB!RegisteredDevices
  <2> QED BY <2>2, <2>3
<1> QED BY <1>1, <1>2 DEF WithManagedBlock, StripManagedBlock, BlockOf

(***************************************************************************)
(* The record of a process that applies it is current.                     *)
(***************************************************************************)
LEMMA AppliesCurrent ==
    ASSUME Inv, NEW p \in Process, RecordCurrent(p),
           \/ stage[p] \in PeerStages
           \/ p \in Request /\ stage[p] \in TransactionStages
    PROVE  /\ frame[p].record \in DeviceRecord
           /\ \/ /\ p \in Request /\ frame[p].created
                 /\ Unused(frame[p].record)
              \/ /\ p \in Request => ~frame[p].created
                 /\ RowOf(frame[p].record, TRUE)
<1>1. frame[p].record \in DeviceRecord
  BY DEF Inv, LocalsFit, Fits, UsesRecord, TransactionStages
<1>2. frame[p].record # NoRecord
  BY <1>1, NoOwnerIsNoDevice DEF DeviceRecord, NoRecord
<1> QED BY <1>1, <1>2 DEF RecordCurrent, Process, RevokesPeer

(***************************************************************************)
(* Every step of a process keeps rows and blocks fitting each other.       *)
(***************************************************************************)
LEMMA BlocksStep ==
    ASSUME Inv, DB!IdentitiesDistinct, AllBlocksFit, NEW p \in Process,
           RecordCurrent(p), TextCurrent(p), Acts(p)
    PROVE  AllBlocksFit'
<1>p. stage \in [Process -> Stage] /\ frame \in [Process -> Frame]
  BY DEF Inv, LocalsFit
<1>d. devices \in [Device -> DB!Row \cup {NoRow}]
  BY DEF Inv, SharedTypeOK, DB!TypeOK
<1>1. CASE UNCHANGED <<devices, config>>
  BY <1>1 DEF AllBlocksFit, BlocksFit, DB!RegisteredDevices, DB!Registered
<1>2. CASE /\ stage[p] = "config_write" /\ UNCHANGED devices
           /\ config' = WithManagedBlock(config, frame[p].record.device,
                           frame[p].record.key, frame[p].record.address)
  BY <1>2, AppliesCurrent, WrittenFits DEF PeerStages
<1>3. CASE /\ stage[p] = "config_strip" /\ UNCHANGED devices
           /\ config' = StripManagedBlock(config, frame[p].record.device)
  BY <1>3 DEF AllBlocksFit, BlocksFit, DB!RegisteredDevices, DB!Registered,
     StripManagedBlock
<1>4. CASE p \in Request /\ Commit(p) /\ UNCHANGED config
  <2>1. /\ stage[p] = "token_consume"
        /\ BlocksOf(frame[p].record.device) = {BlockOf(frame[p].record)}
        /\ ~KeyElsewhere(config, frame[p].record.device, frame[p].record.key)
        /\ frame[p].created => ~AddressElsewhere(frame[p].record)
        /\ frame[p].record \in DeviceRecord
    BY <1>4, AppliesCurrent DEF Commit, At, TextCurrent, TransactionStages,
       PeerStages, AppliedStages
  <2>2. CASE ~frame[p].created
    BY <1>4, <2>2 DEF Commit, TransactionRows, AllBlocksFit, BlocksFit,
       DB!RegisteredDevices, DB!Registered
  <2>3. CASE frame[p].created
    <3> DEFINE r == frame[p].record
    <3>1. \A e \in Device : devices'[e] =
             IF e = r.device
             THEN [key |-> r.key, address |-> r.address, enabled |-> TRUE]
             ELSE devices[e]
      BY <1>d, <1>4, <2>3 DEF Commit, TransactionRows, record
    <3>2. ASSUME NEW b \in config
          PROVE  /\ b.owner = r.device => b = BlockOf(r)
                 /\ b.owner # r.device => b.key # r.key
                 /\ b.owner # r.device => b.address # r.address
      BY <2>1, <2>3 DEF BlocksOf, KeyElsewhere, AddressElsewhere,
         StripManagedBlock
    <3>3. r.key = BlockOf(r).key /\ r.address = BlockOf(r).address
      BY DEF BlockOf
    <3>4. ASSUME NEW d \in DB!RegisteredDevices' PROVE BlocksFit(d)'
      <4>1. CASE d = r.device
        BY <1>4, <3>1, <3>2, <3>3, <4>1 DEF BlocksFit, DB!RegisteredDevices
      <4>2. CASE d # r.device
        BY <1>4, <3>1, <3>4, <4>2 DEF AllBlocksFit, BlocksFit,
           DB!RegisteredDevices, DB!Registered
      <4> QED BY <4>1, <4>2
    <3> QED BY <3>4 DEF AllBlocksFit
  <2> QED BY <2>2, <2>3
<1>5. CASE p \in Admin /\ RevokeRow(p) /\ UNCHANGED config
  <2>1. BlocksOf(frame[p].record.device) = {}
    BY <1>5 DEF RevokeRow, At, TextCurrent
  <2>2. \A d \in DB!RegisteredDevices' :
           /\ d \in DB!RegisteredDevices
           /\ devices'[d].key = devices[d].key
           /\ devices'[d].address = devices[d].address
           /\ d # frame[p].record.device => devices'[d] = devices[d]
    BY <1>d, <1>5 DEF RevokeRow, DB!Revoke, DB!RegisteredDevices,
       DB!Registered, DB!Row
  <2> QED BY <1>5, <2>1, <2>2 DEF AllBlocksFit, BlocksFit, BlocksOf
<1> QED BY <1>1, <1>2, <1>3, <1>4, <1>5, FileSteps, TableSteps DEF Commit,
    RevokeRow, peerState

(***************************************************************************)
(* A request keeps knowing the file.                                       *)
(***************************************************************************)
LEMMA RequestFile ==
    ASSUME Inv, AllBlocksFit, NEW p \in Request, RecordCurrent(p),
           TextCurrent(p),
           Receive(p) \/ EnrollStep(p) \/ EnrollFault(p)
    PROVE  TextCurrent(p)'
<1>p. /\ p \in Process /\ p \notin Admin
      /\ frame[p] \in Frame /\ frame \in [Process -> Frame]
      /\ stage \in [Process -> Stage]
  BY GatewayConstants DEF Process, Inv, LocalsFit
<1> USE <1>p DEF Goto, Set, At, TextCurrent, TransactionStages, PeerStages,
    AppliedStages, TextStages
<1>1. CASE Receive(p)
  BY <1>1 DEF Receive
<1>2. CASE ReadReservations(p)
  BY <1>2 DEF ReadReservations, peerState, Frame, ReservedNetworks
<1>3. CASE PrepareExisting(p)
  BY <1>3 DEF PrepareExisting, Prepared, Frame
<1>4. CASE PrepareNew(p)
  <2>1. /\ frame'[p].record.address = Min(FreeAddresses(p))
        /\ UNCHANGED config
        /\ stage'[p] = "peer_apply"
    BY <1>4 DEF PrepareNew, Prepared, Frame, peerState
  <2>2. frame'[p].record.address \notin ReservedNetworks(config)
    BY <1>4, <2>1, AllocatesFree DEF PrepareNew, FreeAddresses
  <2> QED BY <2>1, <2>2 DEF AddressElsewhere, StripManagedBlock,
      ReservedNetworks
<1>5. CASE \/ Reject(p) \/ BusyTimeout(p) \/ PeerRefused(p) \/ DnsRefused(p)
           \/ StepFails(p)
  <2>1. Fail(p)
    BY <1>5 DEF Reject, BusyTimeout, PeerRefused, DnsRefused, StepFails
  <2> QED BY <2>1 DEF Fail, CleanupStage
<1>6. CASE EnsureRead(p)
  BY <1>6 DEF EnsureRead, PeerConflict, peerState, Frame, KeyElsewhere,
     AddressElsewhere
<1>7. CASE EnsureRuntime(p)
  BY <1>7 DEF EnsureRuntime, KeyElsewhere, AddressElsewhere
<1>8. CASE WritePeer(p)
  <2>1. frame'[p].record = frame[p].record
     /\ frame'[p].created = frame[p].created
     /\ stage'[p] = "hosts_sync"
    BY <1>8 DEF WritePeer, Frame
  <2>2. config' = WithManagedBlock(config, frame[p].record.device,
                     frame[p].record.key, frame[p].record.address)
    BY <1>8 DEF WritePeer, EnsureWrite
  <2> QED BY <1>8, <2>1, <2>2 DEF WritePeer, WithManagedBlock, KeyElsewhere,
      AddressElsewhere, StripManagedBlock, BlocksOf, BlockOf
<1>9. CASE \/ SyncHosts(p) \/ ReadDns(p) \/ ReplaceDns(p)
           \/ ReplaceDnsFails(p)
  BY <1>9 DEF SyncHosts, ReadDns, ReplaceDns, ReplaceDnsFails, peerState,
     Frame, KeyElsewhere, AddressElsewhere, BlocksOf
<1>10. CASE \/ UndoDns(p) \/ UndoDnsFails(p) \/ RestoreDns(p)
            \/ RestoreDnsFails(p)
  BY <1>10 DEF UndoDns, UndoDnsFails, LeaveDns, RestoreDns, RestoreDnsFails,
     AfterDnsRestore
<1>11. CASE RemoveRead(p) \/ RemoveRuntime(p)
  BY <1>11 DEF RemoveRead, RemoveRuntime, peerState, Frame
<1>12. CASE StripPeer(p) \/ RemovalFails(p) \/ ListDevices(p)
  BY <1>12 DEF StripPeer, StripConfig, RemovalFails, ListDevices
<1>13. CASE Commit(p) \/ RestoreHosts(p) \/ RestoreHostsFails(p)
  BY <1>13 DEF Commit, RestoreHosts, RestoreHostsFails, Finish
<1> QED BY <1>1, <1>2, <1>3, <1>4, <1>5, <1>6, <1>7, <1>8, <1>9, <1>10,
    <1>11, <1>12, <1>13 DEF EnrollStep, EnrollFault

(***************************************************************************)
(* So does a command.                                                      *)
(***************************************************************************)
LEMMA AdminFile ==
    ASSUME Inv, AllBlocksFit, NEW p \in Admin, RecordCurrent(p),
           TextCurrent(p), ~frame[p].created,
           \/ StartHostsSync(p) \/ StartRevoke(p)
           \/ AdminStep(p) \/ AdminFault(p) \/ CommandDies(p)
    PROVE  TextCurrent(p)'
<1>p. /\ p \in Process /\ p \notin Request
      /\ frame[p] \in Frame /\ frame \in [Process -> Frame]
      /\ stage \in [Process -> Stage]
  BY GatewayConstants DEF Process, Inv, LocalsFit
<1> USE <1>p DEF Goto, Set, At, TextCurrent, TransactionStages, PeerStages,
    AppliedStages, TextStages
<1>1. CASE \/ StartHostsSync(p) \/ StartRevoke(p) \/ CommandDies(p)
           \/ PutBackRefused(p) \/ PutBackFails(p) \/ RewritePeer(p)
  BY <1>1 DEF StartHostsSync, StartRevoke, CommandDies, PutBackRefused,
     PutBackFails, RewritePeer, Finish
<1>2. CASE RemoveRead(p) \/ RemoveRuntime(p)
  BY <1>2 DEF RemoveRead, RemoveRuntime, peerState, Frame
<1>3. CASE StripRevoked(p)
  BY <1>3 DEF StripRevoked, StripConfig, HasManagedBlock, StripManagedBlock,
     BlocksOf, Frame
<1>4. CASE RevokeRow(p) \/ RevokeBusy(p) \/ RevokeFails(p)
  BY <1>4 DEF RevokeRow, RevokeBusy, RevokeFails, PutPeerBack, Frame
<1>5. CASE EnsureRead(p)
  BY <1>5 DEF EnsureRead, PeerConflict, peerState, Frame, KeyElsewhere
<1>6. CASE EnsureRuntime(p)
  BY <1>6 DEF EnsureRuntime, KeyElsewhere
<1>7. CASE ListDevices(p) \/ WriteHosts(p) \/ WriteHostsFails(p)
  BY <1>7 DEF ListDevices, WriteHosts, WriteHostsFails, AfterHosts, Finish
<1>8. CASE \/ LookUpDns(p) \/ DeleteDns(p) \/ RedoDns(p)
           \/ LookUpDnsFails(p) \/ DeleteDnsFails(p)
  BY <1>8 DEF LookUpDns, DeleteDns, RedoDns, LookUpDnsFails, DeleteDnsFails,
     Finish
<1> QED BY <1>1, <1>2, <1>3, <1>4, <1>5, <1>6, <1>7, <1>8 DEF AdminStep,
    AdminFault

(***************************************************************************)
(* Every step of the gateway keeps what the processes know of the file,    *)
(* and rows and blocks fitting each other.                                 *)
(***************************************************************************)
LEMMA FileStep ==
    ASSUME MaxOverlap = 1, Inv, Sequential, DB!IdentitiesDistinct,
           RecordsCurrent, AllBlocksFit, TextsCurrent, [Next]_gatewayVars
    PROVE  AllBlocksFit' /\ TextsCurrent'
<1>1. ASSUME NEW p \in Process, stage'[p] = "idle" PROVE TextCurrent(p)'
  BY <1>1 DEF TextCurrent, TextStages, TransactionStages, PeerStages,
     AppliedStages
<1>2. ASSUME NEW p \in Process, Acts(p) PROVE AllBlocksFit' /\ TextsCurrent'
  <2>1. RecordCurrent(p) /\ TextCurrent(p)
    BY DEF RecordsCurrent, TextsCurrent
  <2>2. TextCurrent(p)'
    BY <1>2, <2>1, RequestFile, AdminFile DEF Acts, RecordCurrent
  <2>3. \A q \in Process \ {p} : TextCurrent(q)'
    BY <1>1, <1>2, ActsAlone
  <2> QED BY <1>2, <2>1, <2>2, <2>3, BlocksStep DEF TextsCurrent
<1>3. CASE Outside \/ ServerDies \/ Reboot
  <2>1. UNCHANGED <<devices, config>>
    BY <1>3 DEF Outside, CreateToken, TokenExpires, ServerDies, Reboot,
       DB!CreateToken, DB!ExpireToken, gatewayVars, peerState
  <2>2. AllBlocksFit'
    BY <2>1 DEF AllBlocksFit, BlocksFit, DB!RegisteredDevices, DB!Registered
  <2>3. ASSUME NEW p \in Process PROVE TextCurrent(p)'
    <3>1. \/ stage'[p] = "idle" /\ frame'[p] = EmptyFrame
          \/ stage'[p] = stage[p] /\ frame'[p] = frame[p]
      BY <1>3, Dies DEF Outside, CreateToken, TokenExpires, gatewayVars
    <3>2. CASE stage'[p] = stage[p] /\ frame'[p] = frame[p]
      BY <2>1, <3>2 DEF TextsCurrent, TextCurrent, KeyElsewhere,
         AddressElsewhere, BlocksOf
    <3> QED BY <1>1, <3>1, <3>2
  <2> QED BY <2>2, <2>3 DEF TextsCurrent
<1> QED BY <1>2, <1>3, StepsAre

-----------------------------------------------------------------------------
(***************************************************************************)
(* The running interface: a revoked device's address is not with its key,  *)
(* a peer that has been set is there, and one that has been removed is     *)
(* not.                                                                    *)
(***************************************************************************)
RevokedOffline ==
    \A d \in DB!RegisteredDevices :
        ~devices[d].enabled => interface[devices[d].key] # devices[d].address

PeerCurrent(p) ==
    /\ stage[p] \in AppliedStages \cup {"config_write"} =>
          interface[frame[p].record.key] = frame[p].record.address
    /\ stage[p] \in {"config_strip", "registry_revoke"} =>
          interface[frame[p].record.key] = NoAddress

PeersCurrent == \A p \in Process : PeerCurrent(p)

(***************************************************************************)
(* The ways in which a process changes the interface.                      *)
(***************************************************************************)
LEMMA PeerSteps ==
    ASSUME Inv, NEW p \in Process, Acts(p)
    PROVE  \/ UNCHANGED interface
           \/ /\ stage[p] = "runtime_set" /\ UNCHANGED devices
              /\ interface' = WgSetPeer(interface, frame[p].record.key,
                                        frame[p].record.address)
           \/ /\ stage[p] = "runtime_remove" /\ UNCHANGED devices
              /\ interface' = WgRemovePeer(interface, frame[p].record.key)
<1> USE GatewayConstants DEF Acts, At, database, peerState
<1>1. CASE EnsureRuntime(p) \/ RemoveRuntime(p)
  BY <1>1 DEF EnsureRuntime, RemoveRuntime
<1>2. CASE p \in Request
  BY <1>1, <1>2 DEF EnrollStep, EnrollFault, Receive, ReadReservations,
     PrepareExisting, PrepareNew, Prepared, Reject, BusyTimeout, PeerRefused,
     DnsRefused, StepFails, EnsureRead, WritePeer, SyncHosts, ReadDns,
     ReplaceDns, ReplaceDnsFails, UndoDns, UndoDnsFails, LeaveDns,
     RestoreDns, RestoreDnsFails, AfterDnsRestore, RemoveRead, StripPeer,
     StripConfig, RemovalFails, ListDevices, RestoreHosts,
     RestoreHostsFails, Commit
<1>3. CASE p \in Admin
  BY <1>1, <1>3 DEF AdminStep, AdminFault, StartHostsSync, StartRevoke,
     CommandDies, RemoveRead, StripRevoked, StripConfig, RevokeRow,
     RevokeBusy, RevokeFails, PutPeerBack, EnsureRead, RewritePeer,
     PutBackRefused, PutBackFails, ListDevices, WriteHosts, WriteHostsFails,
     LookUpDns, DeleteDns, RedoDns, LookUpDnsFails, DeleteDnsFails
<1> QED BY <1>2, <1>3 DEF Process

(***************************************************************************)
(* The record of a process that sets or removes a peer is a real one, and  *)
(* not that of a revoked device.                                           *)
(***************************************************************************)
LEMMA TouchesOwn ==
    ASSUME Inv, DB!IdentitiesDistinct, NEW p \in Process, RecordCurrent(p),
           stage[p] \in PeerStages \cup RemovalStages
    PROVE  /\ frame[p].record \in DeviceRecord
           /\ \A d \in DB!RegisteredDevices :
                 ~devices[d].enabled => devices[d].key # frame[p].record.key
<1>1. frame[p].record \in DeviceRecord
  BY DEF Inv, LocalsFit, Fits, UsesRecord, TransactionStages
<1>2. frame[p].record # NoRecord /\ frame[p].record.device \in Device
  BY <1>1, NoOwnerIsNoDevice DEF DeviceRecord, NoRecord
<1>3. Unused(frame[p].record) \/ RowOf(frame[p].record, TRUE)
  BY <1>2 DEF RecordCurrent, Process, RevokesPeer
<1> QED BY <1>1, <1>2, <1>3 DEF Unused, RowOf, DB!IdentitiesDistinct,
    DB!RegisteredDevices

(***************************************************************************)
(* No step of a process brings the address of a revoked device back.       *)
(***************************************************************************)
LEMMA OfflineStep ==
    ASSUME Inv, DB!IdentitiesDistinct, RevokedOffline, NEW p \in Process,
           RecordCurrent(p), PeerCurrent(p), Acts(p)
    PROVE  RevokedOffline'
<1>d. /\ devices \in [Device -> DB!Row \cup {NoRow}]
      /\ interface \in Interface
  BY DEF Inv, SharedTypeOK, DB!TypeOK
<1>a. \A d \in DB!RegisteredDevices :
         devices[d].key \in Key /\ devices[d].address # NoAddress
  BY <1>d, NoAddressIsNone DEF DB!RegisteredDevices, DB!Registered, DB!Row
<1>1. CASE UNCHANGED <<devices, interface>>
  BY <1>1 DEF RevokedOffline, DB!RegisteredDevices, DB!Registered
<1>2. CASE /\ stage[p] = "runtime_set" /\ UNCHANGED devices
           /\ interface' = WgSetPeer(interface, frame[p].record.key,
                                     frame[p].record.address)
  <2>1. \A d \in DB!RegisteredDevices :
           ~devices[d].enabled =>
              interface'[devices[d].key] \in
                 {interface[devices[d].key], NoAddress}
    BY <1>a, <1>2, TouchesOwn DEF WgSetPeer, PeerStages
  <2> QED BY <1>a, <1>2, <2>1 DEF RevokedOffline, DB!RegisteredDevices,
      DB!Registered
<1>3. CASE /\ stage[p] = "runtime_remove" /\ UNCHANGED devices
           /\ interface' = WgRemovePeer(interface, frame[p].record.key)
  <2>1. \A d \in DB!RegisteredDevices :
           ~devices[d].enabled =>
              interface'[devices[d].key] \in
                 {interface[devices[d].key], NoAddress}
    BY <1>a, <1>d, <1>3, TouchesOwn DEF WgRemovePeer, Interface
  <2> QED BY <1>a, <1>3, <2>1 DEF RevokedOffline, DB!RegisteredDevices,
      DB!Registered
<1>4. CASE p \in Request /\ Commit(p)
  <2>1. UNCHANGED interface
    BY <1>4 DEF Commit, peerState
  <2>2. \A d \in DB!RegisteredDevices' :
           ~devices'[d].enabled =>
              d \in DB!RegisteredDevices /\ devices'[d] = devices[d]
    BY <1>d, <1>4 DEF Commit, TransactionRows, DB!RegisteredDevices,
       DB!Registered
  <2> QED BY <2>1, <2>2 DEF RevokedOffline
<1>5. CASE p \in Admin /\ RevokeRow(p)
  <2>1. UNCHANGED interface /\ stage[p] = "registry_revoke"
    BY <1>5 DEF RevokeRow, peerState, At
  <2>2. \A d \in DB!RegisteredDevices' :
           /\ d \in DB!RegisteredDevices
           /\ devices'[d].key = devices[d].key
           /\ devices'[d].address = devices[d].address
           /\ d # frame[p].record.device => devices'[d] = devices[d]
    BY <1>d, <1>5 DEF RevokeRow, DB!Revoke, DB!RegisteredDevices,
       DB!Registered, DB!Row
  <2>3. /\ interface[frame[p].record.key] = NoAddress
        /\ RowOf(frame[p].record, TRUE)
    BY <1>5, <2>1 DEF PeerCurrent, RecordCurrent, RevokesPeer
  <2> QED BY <1>a, <2>1, <2>2, <2>3 DEF RevokedOffline, RowOf
<1> QED BY <1>1, <1>2, <1>3, <1>4, <1>5, PeerSteps, TableSteps

(***************************************************************************)
(* A request keeps knowing its peer.                                       *)
(***************************************************************************)
LEMMA RequestPeer ==
    ASSUME Inv, NEW p \in Request, PeerCurrent(p),
           Receive(p) \/ EnrollStep(p) \/ EnrollFault(p)
    PROVE  PeerCurrent(p)'
<1>p. /\ p \in Process /\ frame[p] \in Frame /\ frame \in [Process -> Frame]
      /\ stage \in [Process -> Stage] /\ interface \in Interface
      /\ stage[p] \in PeerStages \cup RemovalStages =>
            frame[p].record \in DeviceRecord
  BY DEF Process, Inv, LocalsFit, SharedTypeOK, Fits, UsesRecord,
     TransactionStages
<1> USE <1>p DEF Goto, Set, At, PeerCurrent, PeerStages, RemovalStages,
    AppliedStages
<1>1. CASE Receive(p) \/ ReadReservations(p)
  BY <1>1 DEF Receive, ReadReservations
<1>2. CASE PrepareExisting(p) \/ PrepareNew(p)
  BY <1>2 DEF PrepareExisting, PrepareNew, Prepared
<1>3. CASE \/ Reject(p) \/ BusyTimeout(p) \/ PeerRefused(p) \/ DnsRefused(p)
           \/ StepFails(p)
  BY <1>3 DEF Reject, BusyTimeout, PeerRefused, DnsRefused, StepFails, Fail,
     CleanupStage
<1>4. CASE EnsureRead(p) \/ RemoveRead(p)
  BY <1>4 DEF EnsureRead, RemoveRead
<1>5. CASE EnsureRuntime(p)
  BY <1>5 DEF EnsureRuntime, WgSetPeer, DeviceRecord
<1>6. CASE RemoveRuntime(p)
  BY <1>6 DEF RemoveRuntime, WgRemovePeer, DeviceRecord, Interface
<1>7. CASE WritePeer(p)
  BY <1>7 DEF WritePeer, Frame
<1>8. CASE \/ SyncHosts(p) \/ ReadDns(p) \/ ReplaceDns(p)
           \/ ReplaceDnsFails(p)
  BY <1>8 DEF SyncHosts, ReadDns, ReplaceDns, ReplaceDnsFails, peerState,
     Frame
<1>9. CASE \/ UndoDns(p) \/ UndoDnsFails(p) \/ RestoreDns(p)
           \/ RestoreDnsFails(p)
  BY <1>9 DEF UndoDns, UndoDnsFails, LeaveDns, RestoreDns, RestoreDnsFails,
     AfterDnsRestore
<1>10. CASE StripPeer(p) \/ RemovalFails(p) \/ ListDevices(p)
  BY <1>10 DEF StripPeer, StripConfig, RemovalFails, ListDevices
<1>11. CASE Commit(p) \/ RestoreHosts(p) \/ RestoreHostsFails(p)
  BY <1>11 DEF Commit, RestoreHosts, RestoreHostsFails, Finish
<1> QED BY <1>1, <1>2, <1>3, <1>4, <1>5, <1>6, <1>7, <1>8, <1>9, <1>10, <1>11
    DEF EnrollStep, EnrollFault

(***************************************************************************)
(* So does a command.                                                      *)
(***************************************************************************)
LEMMA AdminPeer ==
    ASSUME Inv, NEW p \in Admin, PeerCurrent(p),
           \/ StartHostsSync(p) \/ StartRevoke(p)
           \/ AdminStep(p) \/ AdminFault(p) \/ CommandDies(p)
    PROVE  PeerCurrent(p)'
<1>p. /\ p \in Process /\ frame[p] \in Frame /\ frame \in [Process -> Frame]
      /\ stage \in [Process -> Stage] /\ interface \in Interface
      /\ stage[p] \in PeerStages \cup RemovalStages =>
            frame[p].record \in DeviceRecord
  BY DEF Process, Inv, LocalsFit, SharedTypeOK, Fits, UsesRecord,
     TransactionStages
<1> USE <1>p DEF Goto, Set, At, PeerCurrent, PeerStages, RemovalStages,
    AppliedStages
<1>1. CASE \/ StartHostsSync(p) \/ StartRevoke(p) \/ CommandDies(p)
           \/ PutBackRefused(p) \/ PutBackFails(p) \/ RewritePeer(p)
  BY <1>1 DEF StartHostsSync, StartRevoke, CommandDies, PutBackRefused,
     PutBackFails, RewritePeer, Finish
<1>2. CASE EnsureRead(p) \/ RemoveRead(p)
  BY <1>2 DEF EnsureRead, RemoveRead
<1>3. CASE EnsureRuntime(p)
  BY <1>3 DEF EnsureRuntime, WgSetPeer, DeviceRecord
<1>4. CASE RemoveRuntime(p)
  BY <1>4 DEF RemoveRuntime, WgRemovePeer, DeviceRecord, Interface
<1>5. CASE StripRevoked(p)
  BY <1>5 DEF StripRevoked, StripConfig, Frame
<1>6. CASE RevokeRow(p) \/ RevokeBusy(p) \/ RevokeFails(p)
  BY <1>6 DEF RevokeRow, RevokeBusy, RevokeFails, PutPeerBack
<1>7. CASE ListDevices(p) \/ WriteHosts(p) \/ WriteHostsFails(p)
  BY <1>7 DEF ListDevices, WriteHosts, WriteHostsFails, AfterHosts, Finish
<1>8. CASE \/ LookUpDns(p) \/ DeleteDns(p) \/ RedoDns(p)
           \/ LookUpDnsFails(p) \/ DeleteDnsFails(p)
  BY <1>8 DEF LookUpDns, DeleteDns, RedoDns, LookUpDnsFails, DeleteDnsFails,
     Finish
<1> QED BY <1>1, <1>2, <1>3, <1>4, <1>5, <1>6, <1>7, <1>8 DEF AdminStep,
    AdminFault

(***************************************************************************)
(* Every step of the gateway keeps the interface as the rows and the       *)
(* processes want it: a reboot brings up only what the file says, and the  *)
(* file has no block for a revoked device.                                 *)
(***************************************************************************)
LEMMA PeerStep ==
    ASSUME MaxOverlap = 1, Inv, Sequential, DB!IdentitiesDistinct,
           RecordsCurrent, AllBlocksFit, RevokedOffline, PeersCurrent,
           [Next]_gatewayVars
    PROVE  RevokedOffline' /\ PeersCurrent'
<1>1. ASSUME NEW p \in Process, stage'[p] = "idle" PROVE PeerCurrent(p)'
  BY <1>1 DEF PeerCurrent, AppliedStages
<1>2. ASSUME NEW p \in Process, Acts(p) PROVE RevokedOffline' /\ PeersCurrent'
  <2>1. RecordCurrent(p) /\ PeerCurrent(p)
    BY DEF RecordsCurrent, PeersCurrent
  <2>2. PeerCurrent(p)'
    BY <1>2, <2>1, RequestPeer, AdminPeer DEF Acts
  <2>3. \A q \in Process \ {p} : PeerCurrent(q)'
    BY <1>1, <1>2, ActsAlone
  <2> QED BY <1>2, <2>1, <2>2, <2>3, OfflineStep DEF PeersCurrent
<1>3. CASE Outside \/ ServerDies
  <2>1. UNCHANGED <<devices, interface>>
    BY <1>3 DEF Outside, CreateToken, TokenExpires, ServerDies,
       DB!CreateToken, DB!ExpireToken, gatewayVars, peerState
  <2>2. RevokedOffline'
    BY <2>1 DEF RevokedOffline, DB!RegisteredDevices, DB!Registered
  <2>3. ASSUME NEW p \in Process PROVE PeerCurrent(p)'
    <3>1. \/ stage'[p] = "idle" /\ frame'[p] = EmptyFrame
          \/ stage'[p] = stage[p] /\ frame'[p] = frame[p]
      BY <1>3, Dies DEF Outside, CreateToken, TokenExpires, gatewayVars
    <3>2. CASE stage'[p] = stage[p] /\ frame'[p] = frame[p]
      BY <2>1, <3>2 DEF PeersCurrent, PeerCurrent
    <3> QED BY <1>1, <3>1, <3>2
  <2> QED BY <2>2, <2>3 DEF PeersCurrent
<1>4. CASE Reboot
  <2>1. UNCHANGED devices /\ interface' \in BroughtUp(config)
    BY <1>4 DEF Reboot
  <2>2. ASSUME NEW d \in DB!RegisteredDevices, ~devices[d].enabled
        PROVE  interface'[devices[d].key] # devices[d].address
    <3>1. devices[d].key \in Key /\ devices[d].address # NoAddress
      BY NoAddressIsNone DEF Inv, SharedTypeOK, DB!TypeOK, DB!Row,
         DB!RegisteredDevices, DB!Registered
    <3>2. \A b \in config : b.key # devices[d].key
      BY <2>2 DEF AllBlocksFit, BlocksFit
    <3>3. interface'[devices[d].key] = NoAddress
      BY <2>1, <3>1, <3>2 DEF BroughtUp
    <3> QED BY <3>1, <3>3
  <2>3. RevokedOffline'
    BY <2>1, <2>2 DEF RevokedOffline, DB!RegisteredDevices, DB!Registered
  <2>4. \A p \in Process : stage'[p] = "idle"
    BY <1>4 DEF Reboot
  <2> QED BY <1>1, <2>3, <2>4 DEF PeersCurrent
<1> QED BY <1>2, <1>3, <1>4, StepsAre

-----------------------------------------------------------------------------
(***************************************************************************)
(* Inside a transaction that has written it the hosts file has the names   *)
(* of the rows as the transaction sees them, and the device whose          *)
(* enrollment is about to commit is in the zone if DNS is automated.       *)
(***************************************************************************)
NameCurrent(p) ==
    /\ p \in Request /\ stage[p] \in AppliedStages \ {"hosts_sync"} =>
          hosts = HostEntriesOf(TransactionRows(p))
    /\ p \in Request /\ stage[p] = "token_consume" /\ DnsEnabled =>
          dns[frame[p].record.device] = "gateway"

NamesCurrent == \A p \in Process : NameCurrent(p)

(***************************************************************************)
(* The device that a transaction enrolls is named in the hosts file that   *)
(* is written inside it.                                                   *)
(***************************************************************************)
LEMMA SyncNames ==
    ASSUME Inv, NEW p \in Request, RecordCurrent(p),
           stage[p] \in TransactionStages
    PROVE  [device |-> frame[p].record.device,
            address |-> frame[p].record.address]
              \in HostEntriesOf(TransactionRows(p))
<1> DEFINE r == frame[p].record
<1>1. /\ p \in Process /\ r \in DeviceRecord /\ r.device \in Device
      /\ frame[p].created \/ RowOf(r, TRUE)
  BY AppliesCurrent DEF Process, DeviceRecord
<1>2. /\ devices \in [Device -> DB!Row \cup {NoRow}]
      /\ [key |-> r.key, address |-> r.address, enabled |-> TRUE] # NoRow
  <2>1. [key |-> r.key, address |-> r.address, enabled |-> TRUE]
           \in [key : Key, address : Address, enabled : BOOLEAN]
    BY <1>1 DEF DeviceRecord
  <2> QED BY <2>1, NoRowIsNone DEF Inv, SharedTypeOK, DB!TypeOK
<1>3. /\ TransactionRows(p)[r.device] # NoRow
      /\ TransactionRows(p)[r.device].enabled
      /\ TransactionRows(p)[r.device].address = r.address
  BY <1>1, <1>2 DEF TransactionRows, record, RowOf, DB!Registered
<1> QED BY <1>1, <1>3 DEF HostEntriesOf

(***************************************************************************)
(* A request keeps knowing its names.                                      *)
(***************************************************************************)
LEMMA RequestName ==
    ASSUME Inv, NEW p \in Request, RecordCurrent(p), NameCurrent(p),
           Receive(p) \/ EnrollStep(p) \/ EnrollFault(p)
    PROVE  NameCurrent(p)'
<1>p. /\ p \in Process /\ frame[p] \in Frame /\ frame \in [Process -> Frame]
      /\ stage \in [Process -> Stage] /\ dns \in [Device -> DnsRecord]
      /\ stage[p] \in TransactionStages => frame[p].record \in DeviceRecord
  BY DEF Process, Inv, LocalsFit, SharedTypeOK, Fits, UsesRecord
<1> USE <1>p DEF Goto, Set, At, NameCurrent, AppliedStages
<1>1. CASE Receive(p) \/ ReadReservations(p)
  BY <1>1 DEF Receive, ReadReservations
<1>2. CASE PrepareExisting(p) \/ PrepareNew(p)
  BY <1>2 DEF PrepareExisting, PrepareNew, Prepared
<1>3. CASE \/ Reject(p) \/ BusyTimeout(p) \/ PeerRefused(p) \/ DnsRefused(p)
           \/ StepFails(p)
  BY <1>3 DEF Reject, BusyTimeout, PeerRefused, DnsRefused, StepFails, Fail,
     CleanupStage
<1>4. CASE EnsureRead(p) \/ EnsureRuntime(p) \/ WritePeer(p)
  BY <1>4 DEF EnsureRead, EnsureRuntime, WritePeer
<1>5. CASE SyncHosts(p)
  BY <1>5 DEF SyncHosts, TransactionRows, database, record
<1>6. CASE ReadDns(p)
  <2>1. /\ UNCHANGED <<devices, hosts, dns>>
        /\ frame'[p].record = frame[p].record
        /\ frame'[p].created = frame[p].created
    BY <1>6 DEF ReadDns, names, database, Frame
  <2>2. TransactionRows(p)' = TransactionRows(p)
    BY <2>1 DEF TransactionRows, record
  <2> QED BY <1>6, <2>1, <2>2 DEF ReadDns, record, HostEntriesOf
<1>7. CASE ReplaceDns(p) \/ ReplaceDnsFails(p)
  BY <1>7 DEF ReplaceDns, ReplaceDnsFails, record, TransactionStages,
     DeviceRecord, TransactionRows, database
<1>8. CASE \/ UndoDns(p) \/ UndoDnsFails(p) \/ RestoreDns(p)
           \/ RestoreDnsFails(p)
  BY <1>8 DEF UndoDns, UndoDnsFails, LeaveDns, RestoreDns, RestoreDnsFails,
     AfterDnsRestore
<1>9. CASE \/ RemoveRead(p) \/ RemoveRuntime(p) \/ StripPeer(p)
           \/ RemovalFails(p) \/ ListDevices(p)
  BY <1>9 DEF RemoveRead, RemoveRuntime, StripPeer, StripConfig,
     RemovalFails, ListDevices
<1>10. CASE Commit(p) \/ RestoreHosts(p) \/ RestoreHostsFails(p)
  BY <1>10 DEF Commit, RestoreHosts, RestoreHostsFails, Finish
<1> QED BY <1>1, <1>2, <1>3, <1>4, <1>5, <1>6, <1>7, <1>8, <1>9, <1>10
    DEF EnrollStep, EnrollFault

(***************************************************************************)
(* Every step of the gateway does: nobody else writes the hosts file or    *)
(* the zone while a request is in its transaction.                         *)
(***************************************************************************)
LEMMA NameStep ==
    ASSUME MaxOverlap = 1, Inv, Sequential, RecordsCurrent, NamesCurrent,
           [Next]_gatewayVars
    PROVE  NamesCurrent'
<1>1. ASSUME NEW p \in Process, stage'[p] = "idle" PROVE NameCurrent(p)'
  BY <1>1 DEF NameCurrent, AppliedStages
<1>2. ASSUME NEW p \in Process, Acts(p) PROVE NamesCurrent'
  <2>1. p \in Request => NameCurrent(p)'
    BY <1>2, RequestName, GatewayConstants DEF RecordsCurrent, NamesCurrent,
       Acts
  <2>2. p \in Admin => NameCurrent(p)'
    BY GatewayConstants DEF NameCurrent
  <2>3. \A q \in Process \ {p} : NameCurrent(q)'
    BY <1>1, <1>2, ActsAlone
  <2> QED BY <2>1, <2>2, <2>3 DEF NamesCurrent, Process
<1>3. CASE Outside \/ ServerDies \/ Reboot
  <2>1. UNCHANGED <<devices, hosts, dns>>
    BY <1>3 DEF Outside, CreateToken, TokenExpires, ServerDies, Reboot,
       DB!CreateToken, DB!ExpireToken, gatewayVars, names
  <2>2. ASSUME NEW p \in Process PROVE NameCurrent(p)'
    <3>1. \/ stage'[p] = "idle" /\ frame'[p] = EmptyFrame
          \/ stage'[p] = stage[p] /\ frame'[p] = frame[p]
      BY <1>3, Dies DEF Outside, CreateToken, TokenExpires, gatewayVars
    <3>2. CASE stage'[p] = stage[p] /\ frame'[p] = frame[p]
      BY <2>1, <3>2 DEF NamesCurrent, NameCurrent, TransactionRows, record,
         HostEntriesOf
    <3> QED BY <1>1, <3>1, <3>2
  <2> QED BY <2>2 DEF NamesCurrent
<1> QED BY <1>2, <1>3, StepsAre

-----------------------------------------------------------------------------
(***************************************************************************)
(* The inductive invariant of a gateway whose operations do not overlap.   *)
(***************************************************************************)
SerialInv ==
    /\ Inv
    /\ Sequential
    /\ DB!IdentitiesDistinct
    /\ RecordsCurrent
    /\ AllBlocksFit
    /\ TextsCurrent
    /\ RevokedOffline
    /\ PeersCurrent
    /\ NamesCurrent

(***************************************************************************)
(* It holds when the gateway starts, with no device registered and no      *)
(* operation in progress.                                                  *)
(***************************************************************************)
LEMMA SerialInitially == Init => SerialInv
<1> SUFFICES ASSUME Init PROVE SerialInv
  OBVIOUS
<1>1. Inv
  BY StartsSound
<1>2. \A p \in Process : stage[p] = "idle" /\ frame[p] = EmptyFrame
  BY DEF Init
<1>3. DB!RegisteredDevices = {}
  BY DEF Init, DB!Init, DB!RegisteredDevices, DB!Registered
<1>4. Sequential /\ RecordsCurrent
  <2>1. Sequential
    BY <1>2 DEF Sequential, At
  <2>2. ASSUME NEW p \in Process PROVE RecordCurrent(p)
    <3>1. /\ stage[p] = "idle"
          /\ frame[p].record = NoRecord
          /\ frame[p].created = FALSE
      BY <1>2 DEF EmptyFrame
    <3> QED BY <3>1 DEF RecordCurrent, Unprepared, RevokesPeer, PeerStages,
        RemovalStages
  <2> QED BY <2>1, <2>2 DEF RecordsCurrent
<1>5. DB!IdentitiesDistinct /\ AllBlocksFit /\ RevokedOffline
  BY <1>3 DEF DB!IdentitiesDistinct, AllBlocksFit, RevokedOffline
<1>6. TextsCurrent /\ PeersCurrent /\ NamesCurrent
  BY <1>2 DEF TextsCurrent, TextCurrent, TextStages, TransactionStages,
     PeerStages, AppliedStages, PeersCurrent, PeerCurrent, NamesCurrent,
     NameCurrent
<1> QED BY <1>1, <1>4, <1>5, <1>6 DEF SerialInv

(***************************************************************************)
(* Every step of the gateway keeps it.                                     *)
(***************************************************************************)
LEMMA SerialStep ==
    ASSUME MaxOverlap = 1 PROVE SerialInv /\ [Next]_gatewayVars => SerialInv'
<1> SUFFICES ASSUME SerialInv, [Next]_gatewayVars PROVE SerialInv'
  OBVIOUS
<1>1. /\ Inv /\ Sequential /\ DB!IdentitiesDistinct /\ RecordsCurrent
      /\ AllBlocksFit /\ TextsCurrent /\ RevokedOffline /\ PeersCurrent
      /\ NamesCurrent
  BY DEF SerialInv
<1>2. Inv' /\ DB!IdentitiesDistinct'
  BY <1>1, StepsSound, IdentitiesStep
<1>3. Sequential' /\ RecordsCurrent'
  BY <1>1, SequentialStep, RecordStep
<1>4. AllBlocksFit' /\ TextsCurrent'
  BY <1>1, FileStep
<1>5. RevokedOffline' /\ PeersCurrent'
  BY <1>1, PeerStep
<1>6. NamesCurrent'
  BY <1>1, NameStep
<1> QED BY <1>2, <1>3, <1>4, <1>5, <1>6 DEF SerialInv

(***************************************************************************)
(* Between operations that do not overlap a revoked device has neither a   *)
(* block in the configuration nor its address on the interface, whatever   *)
(* failed, died or was rebooted.                                           *)
(***************************************************************************)
THEOREM RevokedNeverHavePeer ==
    ASSUME MaxOverlap = 1 PROVE Spec => []RevokedHaveNoPeer
<1>1. SerialInv => RevokedHaveNoPeer
  BY DEF SerialInv, AllBlocksFit, BlocksFit, RevokedOffline,
     RevokedHaveNoPeer, HasManagedBlock
<1> QED BY <1>1, SerialInitially, SerialStep, PTL DEF Spec

(***************************************************************************)
(* A process learns that its record is new only by preparing it.           *)
(***************************************************************************)
LEMMA CreatedByPrepare ==
    ASSUME Inv, NEW p \in Request, ~frame[p].created, frame'[p].created,
           Receive(p) \/ EnrollStep(p) \/ EnrollFault(p)
    PROVE  PrepareNew(p)
<1>p. p \in Process /\ frame[p] \in Frame /\ frame \in [Process -> Frame]
  BY DEF Process, Inv, LocalsFit
<1> USE <1>p DEF Set, Frame
<1>1. CASE Receive(p) \/ ReadReservations(p)
  BY <1>1 DEF Receive, ReadReservations, EmptyFrame
<1>2. CASE PrepareExisting(p)
  BY <1>2 DEF PrepareExisting, Prepared
<1>3. CASE \/ Reject(p) \/ BusyTimeout(p) \/ PeerRefused(p) \/ DnsRefused(p)
           \/ StepFails(p)
  BY <1>3 DEF Reject, BusyTimeout, PeerRefused, DnsRefused, StepFails, Fail
<1>4. CASE EnsureRead(p) \/ EnsureRuntime(p) \/ WritePeer(p) \/ SyncHosts(p)
  BY <1>4 DEF EnsureRead, EnsureRuntime, WritePeer, SyncHosts
<1>5. CASE ReadDns(p) \/ ReplaceDns(p) \/ ReplaceDnsFails(p)
  BY <1>5 DEF ReadDns, ReplaceDns, ReplaceDnsFails
<1>6. CASE UndoDns(p) \/ UndoDnsFails(p) \/ RestoreDns(p) \/ RestoreDnsFails(p)
  BY <1>6 DEF UndoDns, UndoDnsFails, LeaveDns, RestoreDns, RestoreDnsFails,
     AfterDnsRestore
<1>7. CASE \/ RemoveRead(p) \/ RemoveRuntime(p) \/ StripPeer(p)
           \/ RemovalFails(p) \/ ListDevices(p)
  BY <1>7 DEF RemoveRead, RemoveRuntime, StripPeer, StripConfig,
     RemovalFails, ListDevices
<1>8. CASE Commit(p) \/ RestoreHosts(p) \/ RestoreHostsFails(p)
  BY <1>8 DEF Commit, RestoreHosts, RestoreHostsFails, Finish, EmptyFrame
<1> QED BY <1>1, <1>2, <1>3, <1>4, <1>5, <1>6, <1>7, <1>8 DEF EnrollStep,
    EnrollFault

(***************************************************************************)
(* "The registry allocates around addresses already present in the         *)
(* WireGuard configuration": without a concurrent writer the addresses     *)
(* that were read before the transaction are still those of the file when  *)
(* the row is prepared.                                                    *)
(***************************************************************************)
THEOREM AlwaysAllocatesAroundConfig ==
    ASSUME MaxOverlap = 1 PROVE Spec => AllocatesAroundConfig
<1> DEFINE Around(p) ==
      ~frame[p].created /\ frame'[p].created =>
         \A b \in config : b.address # record(p)'.address
<1>1. SerialInv /\ [Next]_gatewayVars =>
         [\A p \in Request : Around(p)]_gatewayVars
  <2> SUFFICES ASSUME SerialInv, Next, NEW p \in Request,
                      ~frame[p].created, frame'[p].created,
                      NEW b \in config
               PROVE  b.address # record(p)'.address
    OBVIOUS
  <2>p. p \in Process /\ frame[p] \in Frame /\ Inv /\ TextCurrent(p)
    BY DEF Process, SerialInv, Inv, LocalsFit, TextsCurrent
  <2>1. PrepareNew(p)
    <3>1. ASSUME NEW q \in Process, Acts(q) PROVE PrepareNew(p)
      <4>1. CASE q = p
        BY <2>p, <3>1, <4>1, CreatedByPrepare, GatewayConstants DEF Acts
      <4>2. CASE q # p
        BY <2>p, <3>1, <4>2, ActsAlone DEF SerialInv, EmptyFrame
      <4> QED BY <4>1, <4>2
    <3>2. CASE Outside \/ ServerDies \/ Reboot
      BY <2>p, <3>2, Dies DEF Outside, CreateToken, TokenExpires, gatewayVars,
         EmptyFrame
    <3> QED BY <3>1, <3>2, StepsAre
  <2>2. frame'[p].record.address = Min(FreeAddresses(p))
    BY <2>p, <2>1 DEF PrepareNew, Prepared, Set, Frame, Inv, LocalsFit
  <2>3. Min(FreeAddresses(p)) \notin ReservedNetworks(config)
    BY <2>p, <2>1, AllocatesFree DEF PrepareNew, FreeAddresses, TextCurrent,
       At
  <2> QED BY <2>2, <2>3 DEF ReservedNetworks, record
<1> QED BY <1>1, SerialInitially, SerialStep, PTL DEF Spec,
    AllocatesAroundConfig

(***************************************************************************)
(* "A token is consumed only after the peer update and private hostname    *)
(* update succeed": whatever is to be applied is in place when the         *)
(* transaction commits.                                                    *)
(***************************************************************************)
THEOREM AlwaysConsumedWhenApplied ==
    ASSUME MaxOverlap = 1 PROVE Spec => ConsumedOnlyWhenApplied
<1>1. ASSUME SerialInv, NEW p \in Request, At(p, "token_consume")
      PROVE  Applied(record(p))
  <2>1. /\ Inv /\ RecordCurrent(p) /\ TextCurrent(p)
        /\ PeerCurrent(p) /\ NameCurrent(p)
    BY <1>1 DEF SerialInv, RecordsCurrent, TextsCurrent, PeersCurrent,
       NamesCurrent, Process
  <2>2. BlockOf(record(p)) \in config
    BY <1>1, <2>1 DEF TextCurrent, At, AppliedStages, BlocksOf, record
  <2>3. [device |-> record(p).device, address |-> record(p).address] \in hosts
    BY <1>1, <2>1, SyncNames DEF NameCurrent, At, AppliedStages,
       TransactionStages, record
  <2> QED BY <1>1, <2>1, <2>2, <2>3 DEF Applied, Installed, BlockOf,
      PeerCurrent, NameCurrent, At, AppliedStages, record
<1>2. SerialInv =>
         [\A p \in Request :
             At(p, "token_consume") /\ tokens' # tokens
                /\ tokens'[request(p).token].state = "consumed"
                /\ tokens[request(p).token].state # "consumed"
             => Applied(record(p))]_gatewayVars
  BY <1>1
<1> QED BY <1>2, SerialInitially, SerialStep, PTL DEF Spec,
    ConsumedOnlyWhenApplied

(***************************************************************************)
(* "If a later enrollment step fails [...] the local transaction/peer/     *)
(* hosts state is rolled back": the removal of a peer concerns a device    *)
(* that is not registered, whose key and address no row has; a reboot in   *)
(* the middle brings every other peer up again from its block.             *)
(***************************************************************************)
THEOREM RollbackAlwaysLocal ==
    ASSUME MaxOverlap = 1 PROVE Spec => RollbackStaysLocal
<1> DEFINE Local(p) ==
      stage[p] \in RemovalStages /\ stage'[p] # stage[p] =>
         \A rec \in EnabledRecords : Installed(rec) => Installed(rec)'
<1>1. SerialInv /\ [Next]_gatewayVars =>
         [\A p \in Request : Local(p)]_gatewayVars
  <2> SUFFICES ASSUME SerialInv, Next, NEW p \in Request,
                      stage[p] \in RemovalStages, stage'[p] # stage[p],
                      NEW rec \in EnabledRecords, Installed(rec)
               PROVE  Installed(rec)'
    OBVIOUS
  <2>p. /\ p \in Process /\ Inv /\ Sequential /\ RecordCurrent(p)
        /\ TextCurrent(p) /\ AllBlocksFit /\ interface \in Interface
    BY DEF Process, SerialInv, Inv, SharedTypeOK, RecordsCurrent,
       TextsCurrent
  <2>r. /\ rec.device \in DB!RegisteredDevices
        /\ rec.key = devices[rec.device].key
        /\ rec.address = devices[rec.device].address
    BY DEF EnabledRecords
  <2>t. rec.key \in Key /\ rec.address \in Address
    BY <2>p, <2>r DEF Inv, SharedTypeOK, DB!TypeOK, DB!Row,
       DB!RegisteredDevices, DB!Registered
  <2>n. /\ frame[p].record.device # rec.device
        /\ frame[p].record.key # rec.key
    BY <2>p, <2>r DEF RecordCurrent, Unused, DB!RegisteredDevices,
       DB!Registered
  <2>1. CASE UNCHANGED <<config, interface>>
    BY <2>1 DEF Installed
  <2>2. ASSUME NEW q \in Process, Acts(q) PROVE Installed(rec)'
    <3>1. q = p
      BY <2>p, <2>2, ActsAlone DEF RemovalStages
    <3>2. \/ UNCHANGED config
          \/ config' = StripManagedBlock(config, frame[p].record.device)
      BY <2>p, <2>2, <3>1, FileSteps DEF RemovalStages
    <3>3. \/ UNCHANGED interface
          \/ interface' = WgRemovePeer(interface, frame[p].record.key)
      BY <2>p, <2>2, <3>1, PeerSteps DEF RemovalStages
    <3>4. BlockOf(rec) \in config' /\ interface'[rec.key] = rec.address
      BY <2>p, <2>t, <2>n, <3>2, <3>3 DEF Installed, BlockOf,
         StripManagedBlock, WgRemovePeer, Interface
    <3> QED BY <3>4 DEF Installed, BlockOf
  <2>3. CASE Outside \/ ServerDies
    BY <2>1, <2>3 DEF Outside, CreateToken, TokenExpires, ServerDies,
       gatewayVars, peerState
  <2>4. CASE Reboot
    <3>1. UNCHANGED config /\ interface' \in BroughtUp(config)
      BY <2>4 DEF Reboot
    <3>2. rec.address \in {c.address : c \in config}
      BY DEF Installed
    <3>3. PICK b \in config : b.address = rec.address
                              /\ interface'[b.key] = rec.address
      BY <3>1, <3>2 DEF BroughtUp
    <3>4. b.key = rec.key
      BY <2>p, <2>r, <3>3 DEF AllBlocksFit, BlocksFit
    <3> QED BY <3>1, <3>3, <3>4 DEF Installed
  <2> QED BY <2>2, <2>3, <2>4, StepsAre
<1> QED BY <1>1, SerialInitially, SerialStep, PTL DEF Spec,
    RollbackStaysLocal

-----------------------------------------------------------------------------
(***************************************************************************)
(* A block that is written for a record that is current has an address of  *)
(* its own.                                                                *)
(***************************************************************************)
LEMMA UnsharedStep ==
    ASSUME MaxOverlap = 1
    PROVE  SerialInv /\ AddressesNotShared /\ [Next]_gatewayVars =>
              AddressesNotShared'
<1> SUFFICES ASSUME SerialInv, AddressesNotShared, [Next]_gatewayVars
             PROVE  AddressesNotShared'
  OBVIOUS
<1>1. CASE UNCHANGED config
  BY <1>1 DEF AddressesNotShared
<1>2. ASSUME NEW p \in Process, Acts(p) PROVE AddressesNotShared'
  <2> DEFINE r == frame[p].record
  <2>p. /\ Inv /\ RecordCurrent(p) /\ TextCurrent(p) /\ AllBlocksFit
    BY DEF SerialInv, RecordsCurrent, TextsCurrent
  <2>1. CASE /\ stage[p] = "config_write"
             /\ config' = WithManagedBlock(config, r.device, r.key, r.address)
    <3>1. /\ r \in DeviceRecord
          /\ \/ frame[p].created
             \/ RowOf(r, TRUE)
      BY <2>p, <2>1, AppliesCurrent DEF PeerStages
    <3>2. ASSUME NEW b \in StripManagedBlock(config, r.device)
          PROVE  b.address # r.address
      <4>1. CASE frame[p].created
        BY <2>p, <2>1, <4>1 DEF TextCurrent, TransactionStages, PeerStages,
           AddressElsewhere
      <4>2. CASE RowOf(r, TRUE)
        <5>1. r.device \in DB!RegisteredDevices
          BY <3>1, <4>2 DEF RowOf, DeviceRecord, DB!RegisteredDevices
        <5> QED BY <2>p, <4>2, <5>1 DEF RowOf, AllBlocksFit, BlocksFit,
            StripManagedBlock
      <4> QED BY <3>1, <4>1, <4>2
    <3>3. BlockOf(r).address = r.address
      BY DEF BlockOf
    <3>4. config' = StripManagedBlock(config, r.device) \cup {BlockOf(r)}
      BY <2>1 DEF WithManagedBlock, BlockOf
    <3> HIDE DEF r
    <3> QED BY <3>2, <3>3, <3>4 DEF AddressesNotShared, StripManagedBlock
  <2>2. CASE config' = StripManagedBlock(config, r.device)
    BY <2>2 DEF AddressesNotShared, StripManagedBlock
  <2> QED BY <1>1, <1>2, <2>p, <2>1, <2>2, FileSteps
<1>3. CASE Outside \/ ServerDies \/ Reboot
  BY <1>1, <1>3 DEF Outside, CreateToken, TokenExpires, ServerDies, Reboot,
     gatewayVars, peerState
<1> QED BY <1>2, <1>3, StepsAre

(***************************************************************************)
(* The hand-written blocks route no address twice.                         *)
(***************************************************************************)
ManualAddressesDistinct ==
    \A b, c \in ManualBlocks : b # c => b.address # c.address

(***************************************************************************)
(* No address is ever routed to two peers by the configuration file,       *)
(* whatever failed or died before, if the hand-written blocks did not do   *)
(* so from the start: the block of an enrollment that died counts among    *)
(* those the next one allocates around.                                    *)
(***************************************************************************)
THEOREM AddressesNeverShared ==
    ASSUME MaxOverlap = 1, ManualAddressesDistinct
    PROVE  Spec => []AddressesNotShared
<1>1. Init => AddressesNotShared
  BY ManualAddressesDistinct DEF Init, AddressesNotShared,
     ManualAddressesDistinct
<1> QED BY <1>1, SerialInitially, SerialStep, UnsharedStep, PTL DEF Spec

-----------------------------------------------------------------------------
(***************************************************************************)
(* What the processes leave behind.  The rest holds as long as no          *)
(* best-effort repair has failed and nothing has died.                     *)
(***************************************************************************)
Budgeted == budget.repair <= MaxRepairFaults /\ budget.crash <= MaxCrashes
Unharmed == budget.repair = MaxRepairFaults /\ budget.crash = MaxCrashes

(***************************************************************************)
(* The stages at which the peer of a device may be neither there nor gone: *)
(* a first enrollment until it commits or its peer is removed, a           *)
(* revocation until the row is disabled or the peer is put back.           *)
(***************************************************************************)
TouchesPeer(p) ==
    \/ /\ p \in Request /\ frame[p].created
       /\ stage[p] \in
             TransactionStages \cup RemovalStages \cup {"dns_restore"}
    \/ p \in Admin /\ stage[p] \in RevokesPeer

InPlace(d) ==
    IF DB!Registered(d) /\ devices[d].enabled
    THEN Installed([device |-> d, key |-> devices[d].key,
                    address |-> devices[d].address])
    ELSE BlocksOf(d) = {}

PeersWhole ==
    Unharmed =>
      /\ \A d \in Device :
            \/ InPlace(d)
            \/ \E p \in Process :
                  TouchesPeer(p) /\ frame[p].record.device = d
      /\ \A k \in Key :
            \/ interface[k] = NoAddress
            \/ \E b \in config : b.key = k /\ b.address = interface[k]
            \/ \E p \in Process : TouchesPeer(p) /\ frame[p].record.key = k
      /\ \A p \in Process :
            TouchesPeer(p) =>
               BlocksOf(frame[p].record.device) \subseteq
                  {BlockOf(frame[p].record)}

(***************************************************************************)
(* The hosts file names the enabled devices, except while an enrollment or *)
(* the hosts stages of a command are under way.                            *)
(***************************************************************************)
TouchesHosts(p) ==
    \/ p \in Request /\ stage[p] # "idle"
    \/ p \in Admin /\ stage[p] \in HostsStages

HostsWhole ==
    /\ \A p \in Process :
          stage[p] = "hosts_restore" =>
             frame[p].listed = HostEntriesOf(devices)
    /\ Unharmed =>
          \/ hosts = HostEntriesOf(devices)
          \/ \E p \in Process : TouchesHosts(p)

(***************************************************************************)
(* The zone is right for every device, except for one that is being        *)
(* enrolled for the first time or whose revocation is not over; what an    *)
(* enrollment would put back is not the gateway's address, and an          *)
(* enrollment of a known device finds nothing to replace.                  *)
(***************************************************************************)
ZoneStages == {"dns_replace", "dns_undo", "dns_restore", "token_consume"}

TouchesDns(p) ==
    \/ /\ p \in Request /\ frame[p].created
       /\ stage[p] \in ZoneStages \ {"dns_replace"}
    \/ /\ p \in Admin /\ frame[p].record # NoRecord
       /\ stage[p] \in HostsStages \cup {"dns_lookup", "dns_delete"}

Resolved(d) ==
    IF ~DB!Registered(d) THEN dns[d] # "gateway"
    ELSE IF devices[d].enabled THEN dns[d] = "gateway"
    ELSE dns[d] = "none"

PutsBack(p) ==
    IF frame[p].created /\ stage[p] \in ZoneStages
    THEN frame[p].previous \notin {"gateway", "unset"}
    ELSE frame[p].previous = "unset"

Named(p) ==
    stage[p] \in ZoneStages \ {"dns_restore"} =>
       frame[p].record.device \notin Operational

DnsWhole ==
    DnsEnabled =>
      /\ \A d \in DB!RegisteredDevices : d \notin Operational
      /\ \A p \in Request : Named(p)
      /\ Unharmed =>
            /\ \A d \in Device :
                  \/ Resolved(d)
                  \/ \E p \in Process :
                        TouchesDns(p) /\ frame[p].record.device = d
            /\ \A p \in Request : PutsBack(p)
            /\ \A p \in Admin : stage[p] # "dns_redo"

(***************************************************************************)
(* A failed repair and a death are never forgotten.                        *)
(***************************************************************************)
LEMMA Harms ==
    ASSUME Inv, Budgeted, NEW kind \in {"repair", "crash"}, Spend(kind)
    PROVE  ~Unharmed'
<1>1. budget \in [fault : Nat, repair : Nat, crash : Nat]
  BY DEF Inv, SharedTypeOK
<1>2. budget'[kind] = budget[kind] - 1
  BY <1>1 DEF Spend
<1> QED BY <1>1, <1>2, GatewayConstants DEF Budgeted, Unharmed

(***************************************************************************)
(* A step of a process spends at most one fault, repair or death.          *)
(***************************************************************************)
LEMMA SpendSteps ==
    ASSUME Inv, NEW p \in Process, Acts(p)
    PROVE  UNCHANGED budget \/ \E k \in {"fault", "repair", "crash"} : Spend(k)
<1>1. CASE p \in Request
  BY <1>1, GatewayConstants DEF Acts, EnrollStep, EnrollFault, Receive,
     ReadReservations, PrepareExisting, PrepareNew, Prepared, Reject,
     BusyTimeout, PeerRefused, DnsRefused, StepFails, EnsureRead,
     EnsureRuntime, WritePeer, SyncHosts, ReadDns, ReplaceDns,
     ReplaceDnsFails, UndoDns, UndoDnsFails, RestoreDns, RestoreDnsFails,
     RemoveRead, RemoveRuntime, StripPeer, StripConfig, RemovalFails,
     ListDevices, RestoreHosts, RestoreHostsFails, Commit
<1>2. CASE p \in Admin
  BY <1>2, GatewayConstants DEF Acts, AdminStep, AdminFault, StartHostsSync,
     StartRevoke, CommandDies, RemoveRead, RemoveRuntime, StripRevoked,
     StripConfig, RevokeRow, RevokeBusy, RevokeFails, EnsureRead,
     EnsureRuntime, RewritePeer, PutBackRefused, PutBackFails, ListDevices,
     WriteHosts, WriteHostsFails, LookUpDns, DeleteDns, RedoDns,
     LookUpDnsFails, DeleteDnsFails
<1> QED BY <1>1, <1>2 DEF Process

(***************************************************************************)
(* The budgets only shrink: what is unharmed after a step was so before.   *)
(***************************************************************************)
LEMMA BudgetStep ==
    ASSUME Inv, Budgeted, [Next]_gatewayVars
    PROVE  Budgeted' /\ (Unharmed' => Unharmed)
<1>b. budget \in [fault : Nat, repair : Nat, crash : Nat]
  BY DEF Inv, SharedTypeOK
<1>1. ASSUME UNCHANGED budget PROVE Budgeted' /\ (Unharmed' => Unharmed)
  BY <1>1 DEF Budgeted, Unharmed
<1>2. ASSUME NEW k \in {"fault", "repair", "crash"}, Spend(k)
      PROVE  Budgeted' /\ (Unharmed' => Unharmed)
  <2>1. /\ budget'[k] = budget[k] - 1
        /\ \A j \in {"fault", "repair", "crash"} \ {k} : budget'[j] = budget[j]
    BY <1>b, <1>2 DEF Spend
  <2>2. /\ budget'.repair <= budget.repair
        /\ budget'.crash <= budget.crash
        /\ {budget.repair, budget.crash, budget'.repair, budget'.crash}
              \subseteq Int
    BY <1>b, <2>1
  <2> QED BY <2>2, GatewayConstants DEF Budgeted, Unharmed
<1>3. CASE Outside
  BY <1>1, <1>3 DEF Outside, CreateToken, TokenExpires, gatewayVars
<1>4. CASE ServerDies \/ Reboot
  BY <1>2, <1>4 DEF ServerDies, Reboot
<1> QED BY <1>1, <1>2, <1>3, <1>4, SpendSteps, StepsAre

-----------------------------------------------------------------------------
(***************************************************************************)
(* Applying a record that is current leaves every peer in place that was,  *)
(* and puts that of the record in place if its row is there.               *)
(***************************************************************************)
LEMMA AppliesInPlace ==
    ASSUME Inv, DB!IdentitiesDistinct, UNCHANGED devices,
           NEW rec \in DeviceRecord, NEW d \in Device, InPlace(d),
           \/ Unused(rec) /\ d # rec.device
           \/ RowOf(rec, TRUE),
           \/ UNCHANGED config
           \/ config' =
                WithManagedBlock(config, rec.device, rec.key, rec.address),
           \/ UNCHANGED interface
           \/ interface' = WgSetPeer(interface, rec.key, rec.address)
    PROVE  InPlace(d)'
<1> DEFINE own == [owner |-> d, key |-> devices[d].key,
                   address |-> devices[d].address]
<1>d. devices \in [Device -> DB!Row \cup {NoRow}] /\ rec.device \in Device
  BY DEF Inv, SharedTypeOK, DB!TypeOK, DeviceRecord
<1>1. CASE DB!Registered(d) /\ devices[d].enabled
  <2>1. own \in config /\ interface[devices[d].key] = devices[d].address
    BY <1>1 DEF InPlace, Installed
  <2>2. devices[d].key \in Key
    BY <1>d, <1>1 DEF DB!Registered, DB!Row
  <2>3. CASE d = rec.device
    <3>1. devices[d].key = rec.key /\ devices[d].address = rec.address
      BY <2>3 DEF RowOf
    <3>2. own = BlockOf(rec)
      BY <2>3, <3>1 DEF BlockOf
    <3>3. own \in config' /\ interface'[devices[d].key] = devices[d].address
      BY <2>1, <2>2, <3>1, <3>2 DEF WithManagedBlock, BlockOf, WgSetPeer
    <3> QED BY <1>1, <3>3 DEF InPlace, Installed, DB!Registered
  <2>4. CASE d # rec.device
    <3>1. devices[d].key # rec.key /\ devices[d].address # rec.address
      BY <1>d, <1>1, <2>4 DEF Unused, RowOf, DB!IdentitiesDistinct,
         DB!RegisteredDevices
    <3>2. own.owner = d
      OBVIOUS
    <3>3. own \in config' /\ interface'[devices[d].key] = devices[d].address
      BY <2>1, <2>2, <2>4, <3>1, <3>2 DEF WithManagedBlock,
         StripManagedBlock, WgSetPeer
    <3> QED BY <1>1, <3>3 DEF InPlace, Installed, DB!Registered
  <2> QED BY <2>3, <2>4
<1>2. CASE ~(DB!Registered(d) /\ devices[d].enabled)
  <2>1. d # rec.device /\ BlocksOf(d) = {}
    BY <1>2 DEF RowOf, InPlace
  <2>2. BlocksOf(d)' = {}
    BY <2>1 DEF BlocksOf, WithManagedBlock, StripManagedBlock
  <2> QED BY <1>2, <2>2 DEF InPlace, DB!Registered
<1> QED BY <1>1, <1>2

(***************************************************************************)
(* Removing it leaves every other peer in place.                           *)
(***************************************************************************)
LEMMA RemovesInPlace ==
    ASSUME Inv, DB!IdentitiesDistinct, UNCHANGED devices,
           NEW rec \in DeviceRecord, NEW d \in Device, InPlace(d),
           d # rec.device, Unused(rec) \/ RowOf(rec, TRUE),
           \/ UNCHANGED config
           \/ config' = StripManagedBlock(config, rec.device),
           \/ UNCHANGED interface
           \/ interface' = WgRemovePeer(interface, rec.key)
    PROVE  InPlace(d)'
<1> DEFINE own == [owner |-> d, key |-> devices[d].key,
                   address |-> devices[d].address]
<1>d. /\ devices \in [Device -> DB!Row \cup {NoRow}] /\ rec.device \in Device
      /\ interface \in Interface
  BY DEF Inv, SharedTypeOK, DB!TypeOK, DeviceRecord
<1>1. CASE DB!Registered(d) /\ devices[d].enabled
  <2>1. own \in config /\ interface[devices[d].key] = devices[d].address
    BY <1>1 DEF InPlace, Installed
  <2>2. devices[d].key \in Key /\ devices[d].key # rec.key
    BY <1>d, <1>1 DEF DB!Registered, DB!Row, Unused, RowOf,
       DB!IdentitiesDistinct, DB!RegisteredDevices
  <2>3. own.owner = d
    OBVIOUS
  <2>4. own \in config' /\ interface'[devices[d].key] = devices[d].address
    BY <1>d, <2>1, <2>2, <2>3 DEF StripManagedBlock, WgRemovePeer, Interface
  <2> QED BY <1>1, <2>4 DEF InPlace, Installed, DB!Registered
<1>2. CASE ~(DB!Registered(d) /\ devices[d].enabled)
  <2>1. BlocksOf(d)' = {}
    BY <1>2 DEF InPlace, BlocksOf, StripManagedBlock
  <2> QED BY <1>2, <2>1 DEF InPlace, DB!Registered
<1> QED BY <1>1, <1>2

(***************************************************************************)
(* A step that changes no row, block or peer, and after which whoever was  *)
(* to settle a peer is still about to.                                     *)
(***************************************************************************)
LeavesPeers(p) ==
    /\ UNCHANGED <<devices, config, interface>>
    /\ TouchesPeer(p) =>
          TouchesPeer(p)' /\ frame'[p].record = frame[p].record

(***************************************************************************)
(* What a step of a request is to rows, blocks and peers, if no repair     *)
(* fails.                                                                  *)
(***************************************************************************)
LEMMA RequestTouches ==
    ASSUME Inv, Budgeted, Unharmed', NEW p \in Request,
           Receive(p) \/ EnrollStep(p) \/ EnrollFault(p)
    PROVE  \/ LeavesPeers(p)
           \/ EnsureRuntime(p) \/ WritePeer(p) \/ RemoveRuntime(p)
           \/ StripPeer(p) \/ Commit(p)
<1>p. /\ p \in Process /\ p \notin Admin
      /\ frame[p] \in Frame /\ frame \in [Process -> Frame]
      /\ stage \in [Process -> Stage]
  BY GatewayConstants DEF Process, Inv, LocalsFit
<1> USE <1>p DEF Goto, Set, At, Frame, LeavesPeers, TouchesPeer, peerState,
    database, TransactionStages, PeerStages, RemovalStages
<1>1. CASE Receive(p) \/ ReadReservations(p)
  BY <1>1 DEF Receive, MayStart, ReadReservations
<1>2. CASE PrepareExisting(p) \/ PrepareNew(p)
  BY <1>2 DEF PrepareExisting, PrepareNew, Prepared
<1>3. CASE \/ Reject(p) \/ BusyTimeout(p) \/ PeerRefused(p) \/ DnsRefused(p)
           \/ StepFails(p)
  BY <1>3 DEF Reject, BusyTimeout, PeerRefused, DnsRefused, StepFails, Fail,
     CleanupStage
<1>4. CASE EnsureRead(p) \/ SyncHosts(p)
  BY <1>4 DEF EnsureRead, SyncHosts
<1>5. CASE ReadDns(p) \/ ReplaceDns(p) \/ ReplaceDnsFails(p)
  BY <1>5 DEF ReadDns, ReplaceDns, ReplaceDnsFails
<1>6. CASE UndoDns(p) \/ RestoreDns(p)
  BY <1>6 DEF UndoDns, LeaveDns, RestoreDns, AfterDnsRestore
<1>7. CASE \/ UndoDnsFails(p) \/ RestoreDnsFails(p) \/ RemovalFails(p)
           \/ RestoreHostsFails(p)
  BY <1>7, Harms DEF UndoDnsFails, RestoreDnsFails, RemovalFails,
     RestoreHostsFails
<1>8. CASE RemoveRead(p)
  BY <1>8 DEF RemoveRead
<1>9. CASE ListDevices(p) \/ RestoreHosts(p)
  BY <1>9 DEF ListDevices, RestoreHosts
<1> QED BY <1>1, <1>2, <1>3, <1>4, <1>5, <1>6, <1>7, <1>8, <1>9
    DEF EnrollStep, EnrollFault

(***************************************************************************)
(* What a step of a command is; a peer is never refused when it is put     *)
(* back, because no other block has its key.                               *)
(***************************************************************************)
LEMMA AdminTouches ==
    ASSUME Inv, Budgeted, Unharmed', NEW p \in Admin, RecordCurrent(p),
           AllBlocksFit,
           \/ StartHostsSync(p) \/ StartRevoke(p)
           \/ AdminStep(p) \/ AdminFault(p) \/ CommandDies(p)
    PROVE  \/ LeavesPeers(p)
           \/ EnsureRuntime(p) \/ RewritePeer(p) \/ RemoveRuntime(p)
           \/ StripRevoked(p) \/ RevokeRow(p)
<1>p. /\ p \in Process /\ p \notin Request
      /\ frame[p] \in Frame /\ frame \in [Process -> Frame]
      /\ stage \in [Process -> Stage]
  BY GatewayConstants DEF Process, Inv, LocalsFit
<1> USE <1>p DEF Goto, Set, At, Frame, LeavesPeers, TouchesPeer, peerState,
    database, RevokesPeer, PeerStages, RemovalStages
<1>1. CASE StartHostsSync(p) \/ StartRevoke(p)
  BY <1>1 DEF StartHostsSync, StartRevoke, MayStart
<1>2. CASE \/ CommandDies(p) \/ PutBackFails(p) \/ WriteHostsFails(p)
           \/ LookUpDnsFails(p) \/ DeleteDnsFails(p)
  BY <1>2, Harms DEF CommandDies, PutBackFails, WriteHostsFails,
     LookUpDnsFails, DeleteDnsFails
<1>3. CASE RemoveRead(p) \/ EnsureRead(p)
  BY <1>3 DEF RemoveRead, EnsureRead
<1>4. CASE RevokeBusy(p) \/ RevokeFails(p)
  BY <1>4 DEF RevokeBusy, RevokeFails, PutPeerBack
<1>5. CASE PutBackRefused(p)
  <2>1. RowOf(frame[p].record, TRUE) /\ frame[p].record \in DeviceRecord
    BY <1>5, AppliesCurrent DEF PutBackRefused
  <2>2. frame[p].record.device \in DB!RegisteredDevices
    BY <2>1 DEF RowOf, DeviceRecord, DB!RegisteredDevices
  <2>3. ~PeerConflict(p)
    BY <2>1, <2>2 DEF AllBlocksFit, BlocksFit, RowOf, PeerConflict,
       KeyElsewhere, StripManagedBlock
  <2> QED BY <1>5, <2>3 DEF PutBackRefused
<1>6. CASE ListDevices(p) \/ WriteHosts(p)
  BY <1>6 DEF ListDevices, WriteHosts
<1>7. CASE LookUpDns(p) \/ DeleteDns(p) \/ RedoDns(p)
  BY <1>7 DEF LookUpDns, DeleteDns, RedoDns
<1> QED BY <1>1, <1>2, <1>3, <1>4, <1>5, <1>6, <1>7 DEF AdminStep, AdminFault

(***************************************************************************)
(* The block of a row that is enabled is the only one of its device.       *)
(***************************************************************************)
LEMMA OwnBlock ==
    ASSUME Inv, AllBlocksFit, NEW rec \in DeviceRecord, RowOf(rec, TRUE)
    PROVE  BlocksOf(rec.device) \subseteq {BlockOf(rec)}
<1> SUFFICES ASSUME NEW b \in config, b.owner = rec.device
             PROVE  b = BlockOf(rec)
  BY DEF BlocksOf
<1>1. rec.device \in DB!RegisteredDevices
  BY DEF RowOf, DeviceRecord, DB!RegisteredDevices
<1>2. b.key = rec.key /\ b.address = rec.address /\ b \in Block
  BY <1>1 DEF AllBlocksFit, BlocksFit, RowOf, Inv, SharedTypeOK
<1> QED BY <1>2 DEF BlockOf, Block

(***************************************************************************)
(* Every step of a process keeps the peers whole, and leaves none to be    *)
(* settled that it was settling itself.                                    *)
(***************************************************************************)
LEMMA PeersWholeStep ==
    ASSUME MaxOverlap = 1, SerialInv, SerialInv', Budgeted, PeersWhole,
           NEW p \in Process, Acts(p)
    PROVE  PeersWhole'
<1> SUFFICES ASSUME Unharmed' PROVE PeersWhole'
  BY DEF PeersWhole
<1> DEFINE T == TouchesPeer(p)
           r == frame[p].record
           desired == WithManagedBlock(config, r.device, r.key, r.address)
<1>p. /\ Inv /\ Inv' /\ DB!IdentitiesDistinct /\ AllBlocksFit /\ AllBlocksFit'
      /\ RecordCurrent(p) /\ RecordCurrent(p)' /\ TextCurrent(p)
      /\ PeerCurrent(p) /\ Sequential
  BY DEF SerialInv, RecordsCurrent, TextsCurrent, PeersCurrent
<1>t. /\ devices \in [Device -> DB!Row \cup {NoRow}]
      /\ interface \in Interface /\ config \subseteq Block
      /\ stage \in [Process -> Stage] /\ frame \in [Process -> Frame]
      /\ frame[p] \in Frame
  BY <1>p DEF Inv, SharedTypeOK, DB!TypeOK, LocalsFit
<1>o. \A q \in Process \ {p} : ~TouchesPeer(q) /\ ~TouchesPeer(q)'
  <2>1. ASSUME NEW q \in Process \ {p}
        PROVE  /\ stage[q] = "idle" /\ stage'[q] = "idle"
               /\ frame[q].created = FALSE /\ frame'[q].created = FALSE
    BY <1>p, ActsAlone DEF EmptyFrame
  <2> QED BY <2>1 DEF TouchesPeer, RevokesPeer, PeerStages, RemovalStages
<1>f. /\ \A d \in Device : InPlace(d) \/ (T /\ r.device = d)
      /\ \A k \in Key :
            \/ interface[k] = NoAddress
            \/ \E b \in config : b.key = k /\ b.address = interface[k]
            \/ T /\ r.key = k
      /\ T => BlocksOf(r.device) \subseteq {BlockOf(r)}
  BY <1>p, <1>o, BudgetStep DEF PeersWhole, Next, Acts, Process
<1>g. SUFFICES /\ \A d \in Device :
                     InPlace(d)' \/ (T' /\ frame'[p].record.device = d)
               /\ \A k \in Key :
                     \/ interface'[k] = NoAddress
                     \/ \E b \in config' :
                           b.key = k /\ b.address = interface'[k]
                     \/ T' /\ frame'[p].record.key = k
               /\ T' => BlocksOf(frame[p].record.device)' \subseteq
                           {BlockOf(frame[p].record)'}
  BY <1>o DEF PeersWhole
<1>1. CASE LeavesPeers(p)
  <2> DEFINE new == frame'[p].record
  <2>1. /\ UNCHANGED <<devices, config, interface>>
        /\ \A d \in Device : InPlace(d)' = InPlace(d)
        /\ T => T' /\ new = r
    BY <1>1 DEF LeavesPeers, InPlace, Installed, BlocksOf, DB!Registered
  <2>2. ASSUME ~T, T' PROVE BlocksOf(new.device) \subseteq {BlockOf(new)}
    <3>1. new \in DeviceRecord /\ new.device \in Device
      BY <1>p, <2>2 DEF Inv, LocalsFit, Fits, UsesRecord, TouchesPeer,
         RevokesPeer, TransactionStages, PeerStages, DeviceRecord
    <3>2. CASE p \in Request
      <4>1. ~DB!Registered(new.device)
        BY <1>p, <2>1, <2>2, <3>2, GatewayConstants DEF TouchesPeer,
           RecordCurrent, Unused, DB!Registered
      <4> QED BY <1>f, <2>2, <3>1, <4>1 DEF InPlace
    <3>3. CASE p \in Admin
      <4>1. RowOf(new, TRUE)
        BY <1>p, <2>1, <2>2, <3>3, GatewayConstants DEF TouchesPeer,
           RecordCurrent, RowOf, DB!Registered
      <4> QED BY <1>p, <3>1, <4>1, OwnBlock
    <3> QED BY <3>2, <3>3 DEF Process
  <2> QED BY <1>f, <2>1, <2>2 DEF BlocksOf, BlockOf
<1>2. CASE EnsureRuntime(p)
  <2>1. /\ stage[p] = "runtime_set"
        /\ interface' = WgSetPeer(interface, r.key, r.address)
        /\ UNCHANGED <<devices, config, frame>>
        /\ stage'[p] = "config_write"
    BY <1>t, <1>2 DEF EnsureRuntime, At, Goto, record, database
  <2>2. /\ r \in DeviceRecord /\ r.device \in Device /\ r.key \in Key
        /\ \/ p \in Request /\ frame[p].created /\ Unused(r)
           \/ (p \in Request => ~frame[p].created) /\ RowOf(r, TRUE)
    BY <1>p, <2>1, AppliesCurrent DEF PeerStages, DeviceRecord
  <2>3. T' <=> T
    BY <2>1 DEF TouchesPeer, TransactionStages, PeerStages, RevokesPeer
  <2>4. T \/ RowOf(r, TRUE)
    BY <2>1, <2>2 DEF TouchesPeer, TransactionStages, PeerStages
  <2>5. \A d \in Device : InPlace(d)' \/ (T /\ r.device = d)
    BY <1>p, <1>f, <2>1, <2>2, <2>4, AppliesInPlace
  <2>6. ASSUME NEW k \in Key
        PROVE  \/ interface'[k] = NoAddress
               \/ \E b \in config' : b.key = k /\ b.address = interface'[k]
               \/ T /\ r.key = k
    <3>1. CASE k = r.key /\ ~T
      <4>1. InPlace(r.device) /\ RowOf(r, TRUE)
        BY <1>f, <2>2, <2>4, <3>1
      <4>2. BlockOf(r) \in config
        BY <4>1 DEF InPlace, Installed, RowOf, BlockOf
      <4> QED BY <2>1, <2>2, <3>1, <4>2 DEF WgSetPeer, BlockOf
    <3>2. CASE k # r.key
      BY <1>f, <2>1, <3>2 DEF WgSetPeer
    <3> QED BY <3>1, <3>2
  <2> QED BY <1>f, <2>1, <2>3, <2>5, <2>6 DEF BlocksOf, BlockOf
<1>3. CASE (p \in Request /\ WritePeer(p)) \/ RewritePeer(p)
  <2>1. /\ stage[p] = "config_write"
        /\ config' = desired
        /\ UNCHANGED <<devices, interface>>
    BY <1>p, <1>3 DEF WritePeer, RewritePeer, EnsureWrite, At, database,
       TextCurrent, TextStages
  <2>2. /\ r \in DeviceRecord /\ r.device \in Device /\ r.key \in Key
        /\ \/ p \in Request /\ frame[p].created /\ Unused(r)
           \/ (p \in Request => ~frame[p].created) /\ RowOf(r, TRUE)
    BY <1>p, <2>1, AppliesCurrent DEF PeerStages, DeviceRecord
  <2>3. BlocksOf(r.device) \subseteq {BlockOf(r)}
    BY <1>p, <1>f, <2>1, <2>2, OwnBlock DEF TouchesPeer, TransactionStages,
       PeerStages
  <2>4. /\ BlockOf(r) \in config'
        /\ \A b \in config' : b.owner = r.device => b = BlockOf(r)
    <3> HIDE DEF r
    <3> QED BY <2>1 DEF BlockOf, WithManagedBlock, StripManagedBlock
  <2>5. interface'[r.key] = r.address
    BY <1>p, <2>1 DEF PeerCurrent
  <2>6. ASSUME NEW k \in Key
        PROVE  \/ interface'[k] = NoAddress
               \/ \E b \in config' : b.key = k /\ b.address = interface'[k]
    <3>1. CASE k = r.key
      BY <2>4, <2>5, <3>1 DEF BlockOf
    <3>2. CASE k # r.key /\ interface[k] # NoAddress
      <4>1. PICK b \in config : b.key = k /\ b.address = interface[k]
        BY <1>f, <3>2
      <4>2. b.owner # r.device
        BY <2>3, <3>2, <4>1 DEF BlocksOf, BlockOf
      <4> QED BY <2>1, <4>1, <4>2 DEF WithManagedBlock, StripManagedBlock
    <3> QED BY <2>1, <3>1, <3>2
  <2>7. ASSUME NEW d \in Device, InPlace(d), T \/ RowOf(r, TRUE)
        PROVE  InPlace(d)' \/ (frame[p].created /\ r.device = d)
    BY <1>p, <2>1, <2>2, <2>7, AppliesInPlace
  <2>8. CASE p \in Request /\ WritePeer(p)
    <3>1. /\ T' <=> T
          /\ frame'[p].record = r /\ frame'[p].created = frame[p].created
      BY <1>t, <2>1, <2>8, GatewayConstants DEF WritePeer, Goto, Set, Frame,
         TouchesPeer, TransactionStages, PeerStages, RevokesPeer,
         RemovalStages
    <3>2. T \/ RowOf(r, TRUE)
      BY <2>1, <2>2 DEF TouchesPeer, TransactionStages, PeerStages
    <3>3. frame[p].created => T
      BY <1>p, <2>1, GatewayConstants DEF TouchesPeer, TransactionStages,
         PeerStages, RecordCurrent, Process
    <3>4. BlocksOf(r.device)' \subseteq {BlockOf(r)}
      BY <2>4, <3>1 DEF BlocksOf
    <3>5. \A d \in Device :
             InPlace(d)' \/ (T' /\ frame'[p].record.device = d)
      BY <1>f, <2>7, <3>1, <3>2, <3>3
    <3>6. BlockOf(frame[p].record)' = BlockOf(r)
      BY <3>1 DEF BlockOf
    <3> QED BY <2>6, <3>4, <3>5, <3>6
  <2>9. CASE RewritePeer(p)
    <3>1. T /\ ~T' /\ RowOf(r, TRUE) /\ ~frame[p].created
      BY <1>p, <1>t, <2>1, <2>9, GatewayConstants DEF RewritePeer, Finish,
         Goto, TouchesPeer, RevokesPeer, PeerStages, RemovalStages,
         RecordCurrent
    <3>2. ASSUME NEW d \in Device, d = r.device PROVE InPlace(d)'
      <4>1. [owner |-> d, key |-> devices[d].key,
             address |-> devices[d].address] = BlockOf(r)
        BY <3>1, <3>2 DEF RowOf, BlockOf
      <4> QED BY <2>1, <2>4, <2>5, <3>1, <3>2, <4>1 DEF InPlace, Installed,
          RowOf, DB!Registered
    <3> QED BY <1>f, <2>6, <2>7, <3>1, <3>2
  <2> QED BY <1>3, <2>8, <2>9
<1>4. CASE RemoveRuntime(p)
  <2>1. /\ stage[p] = "runtime_remove" /\ stage'[p] = "config_strip"
        /\ interface' = WgRemovePeer(interface, r.key)
        /\ UNCHANGED <<devices, config, frame>>
    BY <1>t, <1>4 DEF RemoveRuntime, At, Goto, database
  <2>2. /\ T /\ T' /\ r \in DeviceRecord
        /\ Unused(r) \/ RowOf(r, TRUE)
    BY <1>p, <2>1 DEF TouchesPeer, RevokesPeer, RemovalStages, RecordCurrent,
       Process, Inv, LocalsFit, Fits, UsesRecord
  <2>3. \A d \in Device : InPlace(d)' \/ r.device = d
    BY <1>p, <1>f, <2>1, <2>2, RemovesInPlace
  <2>4. \A k \in Key : k # r.key => interface'[k] = interface[k]
    BY <1>t, <2>1 DEF WgRemovePeer, Interface
  <2> QED BY <1>f, <2>1, <2>2, <2>3, <2>4 DEF BlocksOf, BlockOf
<1>5. CASE StripPeer(p) \/ StripRevoked(p)
  <2>1. /\ stage[p] = "config_strip"
        /\ config' = StripManagedBlock(config, r.device)
        /\ UNCHANGED <<devices, interface>>
        /\ frame'[p].record = r
    BY <1>p, <1>t, <1>5 DEF StripPeer, StripRevoked, StripConfig, At, Set,
       Frame, database, TextCurrent, TextStages, HasManagedBlock,
       StripManagedBlock
  <2>2. /\ T /\ r \in DeviceRecord /\ r.device \in Device
        /\ Unused(r) \/ RowOf(r, TRUE)
        /\ p \in Request => Unused(r)
    BY <1>p, <2>1, GatewayConstants DEF TouchesPeer, RevokesPeer,
       RemovalStages, RecordCurrent, Process, Inv, LocalsFit, Fits,
       UsesRecord, DeviceRecord
  <2>3. \A d \in Device : InPlace(d)' \/ r.device = d
    BY <1>p, <1>f, <2>1, <2>2, RemovesInPlace
  <2>4. BlocksOf(r.device)' = {}
    BY <2>1 DEF BlocksOf, StripManagedBlock
  <2>5. p \in Request => InPlace(r.device)'
    BY <2>1, <2>2, <2>4 DEF InPlace, Unused, DB!Registered
  <2>6. p \in Admin => T'
    BY <1>t, <1>5, GatewayConstants DEF StripPeer, StripRevoked, StripConfig,
       Goto, TouchesPeer, RevokesPeer
  <2>7. ASSUME NEW k \in Key
        PROVE  \/ interface'[k] = NoAddress
               \/ \E b \in config' : b.key = k /\ b.address = interface'[k]
    <3>1. CASE k = r.key
      BY <1>p, <2>1, <3>1 DEF PeerCurrent
    <3>2. CASE k # r.key /\ interface[k] # NoAddress
      <4>1. PICK b \in config : b.key = k /\ b.address = interface[k]
        BY <1>f, <3>2
      <4>2. b.owner # r.device
        BY <1>f, <2>2, <3>2, <4>1 DEF BlocksOf, BlockOf
      <4> QED BY <2>1, <4>1, <4>2 DEF StripManagedBlock
    <3> QED BY <2>1, <3>1, <3>2
  <2> QED BY <2>1, <2>3, <2>4, <2>5, <2>6, <2>7 DEF Process
<1>6. CASE p \in Request /\ Commit(p)
  <2>1. /\ stage[p] = "token_consume" /\ devices' = TransactionRows(p)
        /\ UNCHANGED <<config, interface>> /\ ~T'
        /\ T <=> frame[p].created
    BY <1>t, <1>6, GatewayConstants DEF Commit, Finish, Goto, At, peerState,
       TouchesPeer, TransactionStages, RevokesPeer, PeerStages, RemovalStages
  <2>2. /\ r \in DeviceRecord
        /\ BlockOf(r) \in config /\ interface[r.key] = r.address
    BY <1>p, <1>6, <2>1, AppliesCurrent DEF TransactionStages, TextCurrent,
       AppliedStages, BlocksOf, PeerCurrent
  <2>3. \A k \in Key :
           \/ interface'[k] = NoAddress
           \/ \E b \in config' : b.key = k /\ b.address = interface'[k]
    BY <1>f, <2>1, <2>2 DEF BlockOf
  <2>4. CASE frame[p].created
    <3>1. \A d \in Device : devices'[d] =
             IF d = r.device
             THEN [key |-> r.key, address |-> r.address, enabled |-> TRUE]
             ELSE devices[d]
      BY <1>t, <2>1, <2>4 DEF TransactionRows, record
    <3>2. ASSUME NEW d \in Device, d # r.device PROVE InPlace(d)'
      BY <1>f, <2>1, <3>1, <3>2 DEF InPlace, Installed, BlocksOf,
         DB!Registered
    <3>3. ASSUME NEW d \in Device, d = r.device PROVE InPlace(d)'
      <4>1. [key |-> r.key, address |-> r.address, enabled |-> TRUE]
               \in [key : Key, address : Address, enabled : BOOLEAN]
        BY <2>2 DEF DeviceRecord
      <4>2. /\ devices'[d] # NoRow /\ devices'[d].enabled
            /\ devices'[d].key = r.key /\ devices'[d].address = r.address
        <5> DEFINE row ==
              [key |-> r.key, address |-> r.address, enabled |-> TRUE]
        <5>1. devices'[d] = row
          BY <3>1, <3>3
        <5>2. row # NoRow
          BY <4>1, NoRowIsNone
        <5> QED BY <5>1, <5>2
      <4>3. [owner |-> d, key |-> devices'[d].key,
             address |-> devices'[d].address] = BlockOf(r)
        BY <3>3, <4>2 DEF BlockOf
      <4> QED BY <2>1, <2>2, <4>2, <4>3 DEF InPlace, Installed, DB!Registered
    <3> QED BY <2>1, <2>3, <3>2, <3>3
  <2>5. CASE ~frame[p].created
    <3>1. \A d \in Device : InPlace(d)' = InPlace(d)
      BY <2>1, <2>5 DEF TransactionRows, InPlace, Installed, BlocksOf,
         DB!Registered
    <3> QED BY <1>f, <2>1, <2>3, <2>5, <3>1
  <2> QED BY <2>4, <2>5
<1>7. CASE p \in Admin /\ RevokeRow(p)
  <2>1. /\ stage[p] = "registry_revoke" /\ UNCHANGED <<config, interface>>
        /\ devices' = [devices EXCEPT ![r.device].enabled = FALSE]
        /\ T /\ ~T' /\ RowOf(r, TRUE)
    BY <1>p, <1>t, <1>7, GatewayConstants DEF RevokeRow, DB!Revoke, Goto, At,
       peerState, TouchesPeer, RevokesPeer, PeerStages, RemovalStages,
       RecordCurrent
  <2>2. BlocksOf(r.device) = {} /\ interface[r.key] = NoAddress
    BY <1>p, <2>1 DEF TextCurrent, PeerCurrent
  <2>3. \A d \in Device \ {r.device} : InPlace(d)' = InPlace(d)
    BY <1>t, <2>1 DEF InPlace, Installed, BlocksOf, DB!Registered
  <2>4. ASSUME NEW d \in Device, d = r.device PROVE InPlace(d)'
    <3>1. ~devices'[d].enabled
      BY <1>t, <2>1, <2>4 DEF RowOf, DB!Registered, DB!Row
    <3> QED BY <2>1, <2>2, <2>4, <3>1 DEF InPlace, BlocksOf
  <2> QED BY <1>f, <2>1, <2>2, <2>3, <2>4
<1> QED BY <1>p, <1>1, <1>2, <1>3, <1>4, <1>5, <1>6, <1>7, RequestTouches,
    AdminTouches DEF Acts

(***************************************************************************)
(* The peers stay whole whatever happens: after a death nothing is said of *)
(* them any more.                                                          *)
(***************************************************************************)
LEMMA PeersWholeKept ==
    ASSUME MaxOverlap = 1
    PROVE  /\ Init => Budgeted /\ PeersWhole
           /\ SerialInv /\ SerialInv' /\ Budgeted /\ PeersWhole
                 /\ [Next]_gatewayVars => Budgeted' /\ PeersWhole'
<1>1. Init => Budgeted /\ PeersWhole
  <2> SUFFICES ASSUME Init PROVE Budgeted /\ PeersWhole
    OBVIOUS
  <2>1. Budgeted
    BY GatewayConstants DEF Init, Budgeted
  <2>2. ASSUME NEW p \in Process PROVE ~TouchesPeer(p)
    BY DEF Init, EmptyFrame, TouchesPeer, RevokesPeer, PeerStages,
       RemovalStages
  <2>3. ASSUME NEW d \in Device PROVE InPlace(d)
    BY NoOwnerIsNoDevice, GatewayConstants DEF Init, DB!Init, InPlace,
       DB!Registered, BlocksOf, Unmanaged
  <2>4. ASSUME NEW k \in Key, interface[k] # NoAddress
        PROVE  \E b \in config : b.key = k /\ b.address = interface[k]
    BY <2>4 DEF Init, BroughtUp
  <2> QED BY <2>1, <2>2, <2>3, <2>4 DEF PeersWhole
<1>2. ASSUME SerialInv, SerialInv', Budgeted, PeersWhole, [Next]_gatewayVars
      PROVE  PeersWhole'
  <2>1. ASSUME NEW p \in Process, Acts(p) PROVE PeersWhole'
    BY <1>2, <2>1, PeersWholeStep
  <2>2. CASE Outside
    <3>1. UNCHANGED <<devices, config, interface, stage, frame, budget>>
      BY <2>2 DEF Outside, CreateToken, TokenExpires, DB!CreateToken,
         DB!ExpireToken, gatewayVars, peerState
    <3> QED BY <1>2, <3>1 DEF PeersWhole, Unharmed, TouchesPeer, InPlace,
        Installed, BlocksOf, BlockOf, DB!Registered
  <2>3. CASE ServerDies \/ Reboot
    BY <1>2, <2>3, Harms DEF SerialInv, ServerDies, Reboot, PeersWhole
  <2> QED BY <1>2, <2>1, <2>2, <2>3, StepsAre
<1> QED BY <1>1, <1>2, BudgetStep DEF SerialInv

(***************************************************************************)
(* Once every operation has ended, and nothing has failed that nobody      *)
(* repairs, the managed blocks and the live peers are exactly those of the *)
(* enabled devices: a failed enrollment has removed what it wrote, and a   *)
(* failed revocation has put back what it removed.                         *)
(***************************************************************************)
THEOREM PeersSettle ==
    ASSUME MaxOverlap = 1 PROVE Spec => []SettledPeers
<1>1. SerialInv /\ PeersWhole => SettledPeers
  <2> SUFFICES ASSUME SerialInv, PeersWhole, Settled
               PROVE  /\ config \ Unmanaged(config) =
                            {BlockOf(rec) : rec \in EnabledRecords}
                      /\ \A k \in Key :
                            interface[k] # NoAddress =>
                               \E b \in config :
                                  b.key = k /\ b.address = interface[k]
                      /\ \A rec \in EnabledRecords :
                            interface[rec.key] = rec.address
    BY DEF SettledPeers, BlockOf
  <2>1. ASSUME NEW p \in Process PROVE ~TouchesPeer(p)
    BY DEF Settled, Idle, At, TouchesPeer, TransactionStages, RevokesPeer,
       PeerStages, RemovalStages
  <2>2. /\ \A d \in Device : InPlace(d)
        /\ \A k \in Key :
              interface[k] # NoAddress =>
                 \E b \in config : b.key = k /\ b.address = interface[k]
    BY <2>1 DEF PeersWhole, Settled, Unharmed
  <2>3. ASSUME NEW rec \in EnabledRecords
        PROVE  BlockOf(rec) \in config /\ interface[rec.key] = rec.address
    <3>1. PICK d \in DB!RegisteredDevices :
             /\ devices[d].enabled
             /\ rec = [device |-> d, key |-> devices[d].key,
                       address |-> devices[d].address]
      BY DEF EnabledRecords
    <3>2. Installed(rec)
      BY <2>2, <3>1 DEF InPlace, DB!RegisteredDevices
    <3> QED BY <3>2 DEF Installed, BlockOf
  <2>4. ASSUME NEW b \in config, b.owner # NoOwner
        PROVE  \E rec \in EnabledRecords : b = BlockOf(rec)
    <3> DEFINE d == b.owner
               rec == [device |-> d, key |-> devices[d].key,
                       address |-> devices[d].address]
    <3>1. b \in Block /\ d \in Device
      BY <2>4 DEF SerialInv, Inv, SharedTypeOK, Block
    <3>2. DB!Registered(d) /\ devices[d].enabled
      BY <2>2, <3>1 DEF InPlace, BlocksOf
    <3>3. d \in DB!RegisteredDevices
      BY <3>1, <3>2 DEF DB!RegisteredDevices
    <3>4. b.key = devices[d].key /\ b.address = devices[d].address
      BY <3>3 DEF SerialInv, AllBlocksFit, BlocksFit
    <3>5. b = BlockOf(rec)
      BY <3>1, <3>4 DEF Block, BlockOf
    <3>6. rec \in EnabledRecords
      BY <3>2, <3>3 DEF EnabledRecords
    <3> QED BY <3>5, <3>6
  <2>5. ASSUME NEW rec \in EnabledRecords PROVE BlockOf(rec).owner # NoOwner
    BY NoOwnerIsNoDevice DEF EnabledRecords, BlockOf, DB!RegisteredDevices
  <2> QED BY <2>2, <2>3, <2>4, <2>5 DEF Unmanaged
<1> QED BY <1>1, SerialInitially, SerialStep, PeersWholeKept, PTL DEF Spec

-----------------------------------------------------------------------------
(***************************************************************************)
(* A process writes the hosts file from rows that it has just listed, and  *)
(* a request ends by committing or by restoring the hosts file.            *)
(***************************************************************************)
LEMMA RequestEnds ==
    ASSUME Inv, NEW p \in Request,
           Receive(p) \/ EnrollStep(p) \/ EnrollFault(p)
    PROVE  /\ stage'[p] = "hosts_restore" => ListDevices(p)
           /\ stage'[p] = "idle" =>
                 Commit(p) \/ RestoreHosts(p) \/ RestoreHostsFails(p)
<1>p. p \in Process /\ stage \in [Process -> Stage]
  BY DEF Process, Inv, LocalsFit
<1> USE <1>p DEF Goto
<1>1. CASE Receive(p) \/ ReadReservations(p)
  BY <1>1 DEF Receive, ReadReservations
<1>2. CASE PrepareExisting(p) \/ PrepareNew(p)
  BY <1>2 DEF PrepareExisting, PrepareNew, Prepared
<1>3. CASE \/ Reject(p) \/ BusyTimeout(p) \/ PeerRefused(p) \/ DnsRefused(p)
           \/ StepFails(p)
  BY <1>3 DEF Reject, BusyTimeout, PeerRefused, DnsRefused, StepFails, Fail,
     CleanupStage
<1>4. CASE EnsureRead(p) \/ EnsureRuntime(p) \/ WritePeer(p) \/ SyncHosts(p)
  BY <1>4 DEF EnsureRead, EnsureRuntime, WritePeer, SyncHosts
<1>5. CASE ReadDns(p) \/ ReplaceDns(p) \/ ReplaceDnsFails(p)
  BY <1>5 DEF ReadDns, ReplaceDns, ReplaceDnsFails
<1>6. CASE UndoDns(p) \/ UndoDnsFails(p) \/ RestoreDns(p) \/ RestoreDnsFails(p)
  BY <1>6 DEF UndoDns, UndoDnsFails, LeaveDns, RestoreDns, RestoreDnsFails,
     AfterDnsRestore
<1>7. CASE \/ RemoveRead(p) \/ RemoveRuntime(p) \/ StripPeer(p)
           \/ RemovalFails(p) \/ ListDevices(p)
  BY <1>7 DEF RemoveRead, RemoveRuntime, StripPeer, StripConfig,
     RemovalFails, ListDevices
<1>8. CASE Commit(p) \/ RestoreHosts(p) \/ RestoreHostsFails(p)
  BY <1>8 DEF Commit, RestoreHosts, RestoreHostsFails, Finish
<1> QED BY <1>1, <1>2, <1>3, <1>4, <1>5, <1>6, <1>7, <1>8 DEF EnrollStep,
    EnrollFault

(***************************************************************************)
(* What a step of a command is to the rows and the hosts file.             *)
(***************************************************************************)
LEMMA AdminHosts ==
    ASSUME Inv, NEW p \in Admin,
           \/ StartHostsSync(p) \/ StartRevoke(p)
           \/ AdminStep(p) \/ AdminFault(p) \/ CommandDies(p)
    PROVE  /\ stage'[p] = "hosts_restore" => ListDevices(p)
           /\ \/ stage'[p] \in HostsStages
              \/ stage[p] \notin HostsStages /\ UNCHANGED <<devices, hosts>>
              \/ WriteHosts(p) \/ WriteHostsFails(p) \/ CommandDies(p)
<1>p. p \in Process /\ stage \in [Process -> Stage]
  BY DEF Process, Inv, LocalsFit
<1> USE <1>p DEF Goto, At, HostsStages, database, names
<1>1. CASE \/ StartHostsSync(p) \/ StartRevoke(p) \/ CommandDies(p)
  BY <1>1 DEF StartHostsSync, StartRevoke, MayStart, CommandDies, Finish
<1>2. CASE RemoveRead(p) \/ RemoveRuntime(p) \/ StripRevoked(p)
  BY <1>2 DEF RemoveRead, RemoveRuntime, StripRevoked, StripConfig
<1>3. CASE RevokeRow(p) \/ RevokeBusy(p) \/ RevokeFails(p)
  BY <1>3 DEF RevokeRow, RevokeBusy, RevokeFails, PutPeerBack, RemovalStages
<1>4. CASE \/ EnsureRead(p) \/ EnsureRuntime(p) \/ RewritePeer(p)
           \/ PutBackRefused(p) \/ PutBackFails(p)
  BY <1>4 DEF EnsureRead, EnsureRuntime, RewritePeer, PutBackRefused,
     PutBackFails, PeerStages, Finish
<1>5. CASE ListDevices(p)
  BY <1>5 DEF ListDevices
<1>6. CASE WriteHosts(p) \/ WriteHostsFails(p)
  BY <1>6 DEF WriteHosts, WriteHostsFails, AfterHosts, Finish
<1>7. CASE \/ LookUpDns(p) \/ DeleteDns(p) \/ RedoDns(p)
           \/ LookUpDnsFails(p) \/ DeleteDnsFails(p)
  BY <1>7 DEF LookUpDns, DeleteDns, RedoDns, LookUpDnsFails, DeleteDnsFails,
     Finish
<1> QED BY <1>1, <1>2, <1>3, <1>4, <1>5, <1>6, <1>7 DEF AdminStep, AdminFault

(***************************************************************************)
(* The hosts file stays whole whatever happens.                            *)
(***************************************************************************)
LEMMA HostsWholeKept ==
    ASSUME MaxOverlap = 1
    PROVE  /\ Init => HostsWhole
           /\ SerialInv /\ Budgeted /\ HostsWhole /\ [Next]_gatewayVars =>
                 HostsWhole'
<1>1. Init => HostsWhole
  <2> SUFFICES ASSUME Init PROVE HostsWhole
    OBVIOUS
  <2>1. HostEntriesOf(devices) = {}
    BY DEF Init, DB!Init, HostEntriesOf
  <2> QED BY <2>1 DEF Init, HostsWhole
<1>2. ASSUME SerialInv, Budgeted, HostsWhole, [Next]_gatewayVars
      PROVE  HostsWhole'
  <2>i. Inv /\ Sequential /\ NamesCurrent
    BY <1>2 DEF SerialInv
  <2>1. ASSUME NEW p \in Process, Acts(p) PROVE HostsWhole'
    <3>o. \A q \in Process \ {p} : stage[q] = "idle" /\ stage'[q] = "idle"
      BY <2>i, <2>1, ActsAlone
    <3>u. ~TouchesHosts(p) /\ Unharmed' => hosts = HostEntriesOf(devices)
      BY <1>2, <2>i, <3>o, BudgetStep DEF HostsWhole, TouchesHosts,
         HostsStages
    <3>s. SUFFICES /\ stage'[p] = "hosts_restore" =>
                         frame'[p].listed = HostEntriesOf(devices)'
                   /\ Unharmed' /\ ~TouchesHosts(p)' =>
                         hosts' = HostEntriesOf(devices)'
      BY <3>o DEF HostsWhole
    <3>1. ASSUME ListDevices(p)
          PROVE  frame'[p].listed = HostEntriesOf(devices)'
      BY <2>i, <3>1 DEF ListDevices, Set, database, Inv, LocalsFit, Frame,
         HostEntriesOf
    <3>2. ASSUME RestoreHosts(p) \/ WriteHosts(p)
          PROVE  hosts' = HostEntriesOf(devices)'
      BY <1>2, <3>2 DEF RestoreHosts, WriteHosts, At, database, HostsWhole,
         HostEntriesOf
    <3>3. CASE p \in Request
      <4>1. ASSUME Commit(p) PROVE hosts' = HostEntriesOf(devices)'
        BY <2>i, <3>3, <4>1 DEF Commit, At, names, NamesCurrent, NameCurrent,
           AppliedStages, HostEntriesOf
      <4>2. RestoreHostsFails(p) => ~Unharmed'
        BY <1>2, <2>i, Harms DEF RestoreHostsFails
      <4> QED BY <2>1, <2>i, <3>1, <3>2, <3>3, <4>1, <4>2, RequestEnds,
          GatewayConstants DEF Acts, TouchesHosts
    <3>4. CASE p \in Admin
      <4>1. WriteHostsFails(p) \/ CommandDies(p) => ~Unharmed'
        BY <1>2, <2>i, Harms DEF WriteHostsFails, CommandDies
      <4>2. UNCHANGED devices =>
               HostEntriesOf(devices)' = HostEntriesOf(devices)
        BY DEF HostEntriesOf
      <4> QED BY <2>1, <2>i, <3>u, <3>1, <3>2, <3>4, <4>1, <4>2, AdminHosts,
          GatewayConstants DEF Acts, TouchesHosts
    <3> QED BY <3>3, <3>4 DEF Process
  <2>2. CASE Outside
    <3>1. UNCHANGED <<devices, hosts, stage, frame, budget>>
      BY <2>2 DEF Outside, CreateToken, TokenExpires, DB!CreateToken,
         DB!ExpireToken, gatewayVars, names
    <3> QED BY <1>2, <3>1 DEF HostsWhole, Unharmed, TouchesHosts,
        HostEntriesOf
  <2>3. CASE ServerDies \/ Reboot
    <3>1. UNCHANGED devices /\ ~Unharmed'
      BY <1>2, <2>i, <2>3, Harms DEF ServerDies, Reboot
    <3>2. ASSUME NEW p \in Process, stage'[p] = "hosts_restore"
          PROVE  frame'[p].listed = HostEntriesOf(devices)'
      BY <1>2, <2>i, <2>3, <3>1, <3>2, Dies DEF HostsWhole, HostEntriesOf
    <3> QED BY <3>1, <3>2 DEF HostsWhole
  <2> QED BY <1>2, <2>1, <2>2, <2>3, StepsAre
<1> QED BY <1>1, <1>2

(***************************************************************************)
(* Once every operation has ended, and nothing has failed that nobody      *)
(* repairs, the hosts file names exactly the enabled devices: whoever      *)
(* changed it for a row that did not come to be has restored it.           *)
(***************************************************************************)
THEOREM HostsSettle ==
    ASSUME MaxOverlap = 1 PROVE Spec => []SettledHosts
<1>1. SerialInv /\ HostsWhole => SettledHosts
  <2> SUFFICES ASSUME SerialInv, HostsWhole, Settled
               PROVE  hosts =
                         {[device |-> rec.device, address |-> rec.address] :
                            rec \in EnabledRecords}
    BY DEF SettledHosts
  <2>1. hosts = HostEntriesOf(devices)
    BY DEF HostsWhole, Settled, Unharmed, Idle, At, TouchesHosts, HostsStages
  <2>2. HostEntriesOf(devices) =
           {[device |-> rec.device, address |-> rec.address] :
              rec \in EnabledRecords}
    <3> DEFINE rec(d) == [device |-> d, key |-> devices[d].key,
                          address |-> devices[d].address]
               entry(d) == [device |-> d, address |-> devices[d].address]
               Enabled == {d \in Device : devices[d] # NoRow
                                          /\ devices[d].enabled}
    <3>1. HostEntriesOf(devices) = {entry(d) : d \in Enabled}
      BY DEF HostEntriesOf
    <3>2. EnabledRecords = {rec(d) : d \in Enabled}
      BY DEF EnabledRecords, DB!RegisteredDevices, DB!Registered
    <3>3. \A d : rec(d).device = d /\ rec(d).address = devices[d].address
      OBVIOUS
    <3> HIDE DEF rec, Enabled
    <3> QED BY <3>1, <3>2, <3>3
  <2> QED BY <2>1, <2>2
<1> QED BY <1>1, SerialInitially, SerialStep, PeersWholeKept,
    HostsWholeKept, PTL DEF Spec

-----------------------------------------------------------------------------
(***************************************************************************)
(* What a step of a request is to the zone.  The quiet ones neither begin  *)
(* nor end in a stage that concerns it, unless a failure leads to a        *)
(* restoration of what was replaced.                                       *)
(***************************************************************************)
QuietRequest(p) ==
    /\ UNCHANGED <<devices, dns>>
    /\ stage[p] \notin ZoneStages
    /\ stage'[p] \notin ZoneStages \ {"dns_restore"}
    /\ frame[p].previous = "unset" =>
          frame'[p].previous = "unset" /\ stage'[p] # "dns_restore"

(***************************************************************************)
(* Every step of a request is one of these.                                *)
(***************************************************************************)
LEMMA RequestZone ==
    ASSUME Inv, DnsEnabled, NEW p \in Request,
           Receive(p) \/ EnrollStep(p) \/ EnrollFault(p)
    PROVE  \/ QuietRequest(p)
           \/ ReadDns(p) \/ ReplaceDns(p) \/ ReplaceDnsFails(p)
           \/ UndoDns(p) \/ UndoDnsFails(p)
           \/ RestoreDns(p) \/ RestoreDnsFails(p)
           \/ Commit(p)
           \/ At(p, "token_consume") /\ Fail(p) /\ UNCHANGED dns
<1>p. /\ p \in Process /\ frame[p] \in Frame /\ frame \in [Process -> Frame]
      /\ stage \in [Process -> Stage]
  BY DEF Process, Inv, LocalsFit
<1> USE <1>p DEF Goto, Set, At, Frame, QuietRequest, ZoneStages, database,
    names
<1>1. CASE Receive(p) \/ ReadReservations(p)
  BY <1>1 DEF Receive, MayStart, ReadReservations, EmptyFrame
<1>2. CASE PrepareExisting(p) \/ PrepareNew(p)
  <2>1. /\ stage[p] = "registry_prepare" /\ stage'[p] = "peer_apply"
        /\ UNCHANGED <<devices, dns>>
    BY <1>2 DEF PrepareExisting, PrepareNew, Prepared
  <2>2. ASSUME NEW rec, NEW isNew, Prepared(p, rec, isNew)
        PROVE  frame'[p].previous = frame[p].previous
    BY <2>2 DEF Prepared
  <2>3. frame'[p].previous = frame[p].previous
    BY <1>2, <2>2 DEF PrepareExisting, PrepareNew
  <2> QED BY <2>1, <2>3
<1>3. CASE \/ Reject(p) \/ BusyTimeout(p) \/ PeerRefused(p) \/ DnsRefused(p)
           \/ StepFails(p)
  <2>1. /\ Fail(p) /\ UNCHANGED dns
        /\ stage[p] \notin {"dns_replace", "dns_undo", "dns_restore"}
    BY <1>3 DEF Reject, BusyTimeout, PeerRefused, DnsRefused, StepFails,
       PeerStages
  <2>2. CASE stage[p] # "token_consume"
    BY <2>1, <2>2 DEF Fail, CleanupStage
  <2> QED BY <2>1, <2>2
<1>4. CASE EnsureRead(p) \/ EnsureRuntime(p) \/ WritePeer(p) \/ SyncHosts(p)
  BY <1>4 DEF EnsureRead, EnsureRuntime, WritePeer, SyncHosts
<1>5. CASE \/ RemoveRead(p) \/ RemoveRuntime(p) \/ StripPeer(p)
           \/ RemovalFails(p) \/ ListDevices(p)
  BY <1>5 DEF RemoveRead, RemoveRuntime, StripPeer, StripConfig,
     RemovalFails, RemovalStages, ListDevices
<1>6. CASE RestoreHosts(p) \/ RestoreHostsFails(p)
  BY <1>6 DEF RestoreHosts, RestoreHostsFails, HostsStages, Finish,
     EmptyFrame
<1> QED BY <1>1, <1>2, <1>3, <1>4, <1>5, <1>6 DEF EnrollStep, EnrollFault

(***************************************************************************)
(* What a step of a command is to the zone.                                *)
(***************************************************************************)
QuietCommand(p) ==
    /\ UNCHANGED <<devices, dns>>
    /\ stage'[p] # "dns_redo"
    /\ TouchesDns(p) => TouchesDns(p)' /\ frame'[p].record = frame[p].record

(***************************************************************************)
(* Every step of a command is one of these.                                *)
(***************************************************************************)
LEMMA AdminZone ==
    ASSUME Inv, NEW p \in Admin,
           \/ StartHostsSync(p) \/ StartRevoke(p)
           \/ AdminStep(p) \/ AdminFault(p) \/ CommandDies(p)
    PROVE  \/ QuietCommand(p)
           \/ RevokeRow(p) \/ WriteHosts(p)
           \/ LookUpDns(p) \/ DeleteDns(p) \/ RedoDns(p)
           \/ \E kind \in {"repair", "crash"} :
                 Spend(kind) /\ UNCHANGED devices
<1>p. /\ p \in Process /\ p \notin Request
      /\ frame[p] \in Frame /\ frame \in [Process -> Frame]
      /\ stage \in [Process -> Stage]
  BY GatewayConstants DEF Process, Inv, LocalsFit
<1> USE <1>p DEF Goto, Set, At, Frame, QuietCommand, TouchesDns, HostsStages,
    database, names
<1>1. CASE StartHostsSync(p) \/ StartRevoke(p)
  BY <1>1 DEF StartHostsSync, StartRevoke, MayStart
<1>2. CASE \/ CommandDies(p) \/ PutBackFails(p) \/ WriteHostsFails(p)
           \/ LookUpDnsFails(p) \/ DeleteDnsFails(p)
  BY <1>2 DEF CommandDies, PutBackFails, WriteHostsFails, LookUpDnsFails,
     DeleteDnsFails
<1>3. CASE RemoveRead(p) \/ RemoveRuntime(p) \/ StripRevoked(p)
  BY <1>3 DEF RemoveRead, RemoveRuntime, StripRevoked, StripConfig
<1>4. CASE RevokeBusy(p) \/ RevokeFails(p)
  BY <1>4 DEF RevokeBusy, RevokeFails, PutPeerBack, RemovalStages
<1>5. CASE \/ EnsureRead(p) \/ EnsureRuntime(p) \/ RewritePeer(p)
           \/ PutBackRefused(p)
  BY <1>5 DEF EnsureRead, EnsureRuntime, RewritePeer, PutBackRefused, Finish
<1>6. CASE ListDevices(p)
  BY <1>6 DEF ListDevices
<1> QED BY <1>1, <1>2, <1>3, <1>4, <1>5, <1>6 DEF AdminStep, AdminFault

(***************************************************************************)
(* Every step of a request keeps the zone whole.                           *)
(***************************************************************************)
LEMMA RequestDnsWhole ==
    ASSUME MaxOverlap = 1, SerialInv, Budgeted, DnsEnabled, DnsWhole,
           NEW p \in Request, Acts(p)
    PROVE  DnsWhole'
<1> DEFINE r == frame[p].record
           new == frame'[p].record
<1>p. /\ p \in Process /\ p \notin Admin
      /\ Inv /\ RecordCurrent(p) /\ NameCurrent(p) /\ Sequential
  BY GatewayConstants DEF Process, SerialInv, RecordsCurrent, NamesCurrent
<1>t. /\ devices \in [Device -> DB!Row \cup {NoRow}]
      /\ dns \in [Device -> DnsRecord]
      /\ stage \in [Process -> Stage] /\ frame \in [Process -> Frame]
      /\ frame[p] \in Frame
  BY <1>p DEF Inv, SharedTypeOK, DB!TypeOK, LocalsFit
<1>r. stage[p] \in ZoneStages \cup {"dns_read"} =>
         /\ r \in DeviceRecord /\ r.device \in Device /\ r # NoRecord
         /\ stage[p] \in ZoneStages \ {"token_consume"} =>
               frame[p].previous # "unset"
         /\ IF frame[p].created THEN ~DB!Registered(r.device)
            ELSE RowOf(r, TRUE)
  <2> SUFFICES ASSUME stage[p] \in ZoneStages \cup {"dns_read"}
               PROVE  /\ r \in DeviceRecord /\ r.device \in Device
                      /\ r # NoRecord
                      /\ stage[p] \in ZoneStages \ {"token_consume"} =>
                            frame[p].previous # "unset"
                      /\ IF frame[p].created THEN ~DB!Registered(r.device)
                         ELSE RowOf(r, TRUE)
    OBVIOUS
  <2>1. /\ r \in DeviceRecord
        /\ stage[p] \in ZoneStages \ {"token_consume"} =>
              frame[p].previous # "unset"
    BY <1>p DEF Inv, LocalsFit, Fits, UsesRecord, UsesPrevious, ZoneStages,
       TransactionStages
  <2>2. r.device \in Device /\ r # NoRecord
    BY <2>1, NoOwnerIsNoDevice DEF DeviceRecord, NoRecord
  <2> QED BY <1>p, <2>1, <2>2 DEF RecordCurrent, Unused
<1>o. \A q \in Process \ {p} :
         /\ ~TouchesDns(q) /\ ~TouchesDns(q)' /\ Named(q)' /\ PutsBack(q)'
         /\ stage'[q] # "dns_redo"
  <2>1. ASSUME NEW q \in Process \ {p}
        PROVE  /\ stage[q] = "idle" /\ stage'[q] = "idle"
               /\ frame[q].created = FALSE /\ frame'[q].created = FALSE
               /\ frame'[q].previous = "unset"
    BY <1>p, ActsAlone DEF EmptyFrame
  <2> QED BY <2>1 DEF TouchesDns, Named, PutsBack, ZoneStages, HostsStages
<1>f. /\ \A d \in DB!RegisteredDevices : d \notin Operational
      /\ Named(p)
      /\ Unharmed' =>
            /\ \A d \in Device : Resolved(d) \/ (TouchesDns(p) /\ r.device = d)
            /\ PutsBack(p)
  <2>1. Unharmed' => Unharmed
    BY <1>p, BudgetStep DEF Next, Acts
  <2>2. /\ \A d \in DB!RegisteredDevices : d \notin Operational
        /\ \A q \in Request : Named(q)
        /\ Unharmed =>
              /\ \A d \in Device :
                    \/ Resolved(d)
                    \/ \E q \in Process :
                          TouchesDns(q) /\ frame[q].record.device = d
              /\ \A q \in Request : PutsBack(q)
    BY DEF DnsWhole
  <2> QED BY <1>o, <2>1, <2>2
<1>g. SUFFICES /\ \A d \in DB!RegisteredDevices' : d \notin Operational
               /\ Named(p)'
               /\ Unharmed' =>
                     /\ \A d \in Device :
                           \/ Resolved(d)'
                           \/ TouchesDns(p)' /\ new.device = d
                     /\ PutsBack(p)'
  BY <1>p, <1>o, GatewayConstants DEF DnsWhole, Process
<1>d. UNCHANGED devices =>
         \A d \in DB!RegisteredDevices' : d \notin Operational
  BY <1>f DEF DB!RegisteredDevices, DB!Registered
<1>s. UNCHANGED devices =>
         \A d \in Device : dns'[d] = dns[d] => Resolved(d)' = Resolved(d)
  BY DEF Resolved, DB!Registered
<1> USE <1>p, <1>t DEF At, Goto, Set, Frame, ZoneStages
<1>1. CASE QuietRequest(p)
  BY <1>d, <1>f, <1>s, <1>1 DEF QuietRequest, Named, TouchesDns, PutsBack
<1>2. CASE ReadDns(p)
  <2>1. /\ stage[p] = "dns_read" /\ UNCHANGED <<devices, dns>>
        /\ new = r /\ frame'[p].created = frame[p].created
        /\ stage'[p] \in {"token_consume", "dns_replace"}
        /\ r.device \notin Operational
        /\ IF dns[r.device] = "gateway"
           THEN frame'[p].previous = frame[p].previous
           ELSE frame'[p].previous = dns[r.device]
    BY <1>2 DEF ReadDns, record, database, names
  <2>2. Named(p)'
    BY <2>1 DEF Named
  <2>3. ASSUME Unharmed'
        PROVE  (\A d \in Device : Resolved(d)') /\ PutsBack(p)'
    <3>1. \A d \in Device : Resolved(d) /\ Resolved(d)'
      BY <1>f, <1>s, <2>1, <2>3 DEF TouchesDns
    <3>2. frame[p].previous = "unset"
      BY <1>f, <2>1, <2>3 DEF PutsBack
    <3>3. dns[r.device] = "gateway" <=> ~frame[p].created
      BY <1>r, <2>1, <3>1 DEF Resolved, RowOf
    <3>4. dns[r.device] # "unset"
      BY <1>r, <2>1 DEF DnsRecord
    <3> QED BY <2>1, <3>1, <3>2, <3>3, <3>4 DEF PutsBack
  <2> QED BY <1>d, <2>1, <2>2, <2>3
<1>3. CASE ReplaceDns(p) \/ ReplaceDnsFails(p)
  <2>1. /\ stage[p] = "dns_replace" /\ UNCHANGED <<devices, frame>>
        /\ stage'[p] \in {"token_consume", "dns_undo"}
        /\ \A d \in Device : d # r.device => dns'[d] = dns[d]
    BY <1>3 DEF ReplaceDns, ReplaceDnsFails, record, database
  <2>2. Named(p)'
    BY <1>f, <2>1 DEF Named
  <2>3. ASSUME Unharmed' PROVE frame[p].created /\ PutsBack(p)'
    BY <1>f, <1>r, <2>1, <2>3 DEF PutsBack
  <2>4. ASSUME Unharmed'
        PROVE  \A d \in Device :
                  Resolved(d)' \/ (TouchesDns(p)' /\ new.device = d)
    BY <1>f, <1>s, <2>1, <2>3, <2>4 DEF TouchesDns
  <2> QED BY <1>d, <2>1, <2>2, <2>3, <2>4
<1>4. CASE UndoDns(p) \/ RestoreDns(p)
  <2>1. /\ stage[p] \in {"dns_undo", "dns_restore"} /\ UNCHANGED devices
        /\ stage'[p] \in {"peer_remove", "hosts_list"}
        /\ dns' = [dns EXCEPT ![r.device] = frame[p].previous]
        /\ frame'[p].previous = "unset"
    BY <1>4 DEF UndoDns, LeaveDns, RestoreDns, AfterDnsRestore, record,
       database
  <2>2. Named(p)' /\ PutsBack(p)'
    BY <2>1 DEF Named, PutsBack
  <2>3. ASSUME Unharmed', NEW d \in Device PROVE Resolved(d)'
    <3>1. CASE d # r.device
      BY <1>f, <1>s, <2>1, <2>3, <3>1
    <3>2. CASE d = r.device
      <4>1. frame[p].created /\ frame[p].previous # "gateway"
        BY <1>f, <1>r, <2>1, <2>3 DEF PutsBack
      <4> QED BY <1>r, <2>1, <3>2, <4>1 DEF Resolved, DB!Registered
    <3> QED BY <3>1, <3>2
  <2> QED BY <1>d, <2>1, <2>2, <2>3
<1>5. CASE UndoDnsFails(p) \/ RestoreDnsFails(p)
  <2>1. UNCHANGED devices /\ ~Unharmed'
    BY <1>5, Harms DEF UndoDnsFails, LeaveDns, RestoreDnsFails,
       AfterDnsRestore, database
  <2>2. Named(p)'
    BY <1>5 DEF UndoDnsFails, LeaveDns, RestoreDnsFails, AfterDnsRestore,
       Named
  <2> QED BY <1>d, <2>1, <2>2
<1>6. CASE Commit(p)
  <2>1. /\ stage[p] = "token_consume" /\ stage'[p] = "idle"
        /\ devices' = TransactionRows(p) /\ UNCHANGED dns
        /\ frame'[p].previous = "unset"
    BY <1>6 DEF Commit, Finish, EmptyFrame, names
  <2>2. Named(p)' /\ PutsBack(p)'
    BY <2>1 DEF Named, PutsBack
  <2>3. dns[r.device] = "gateway" /\ r.device \notin Operational
    BY <1>f, <2>1, DnsEnabled DEF Named, NameCurrent
  <2>4. CASE frame[p].created
    <3>1. \A d \in Device : devices'[d] =
             IF d = r.device
             THEN [key |-> r.key, address |-> r.address, enabled |-> TRUE]
             ELSE devices[d]
      BY <2>1, <2>4 DEF TransactionRows, record
    <3>2. \A d \in DB!RegisteredDevices' : d \notin Operational
      BY <1>f, <2>3, <3>1 DEF DB!RegisteredDevices, DB!Registered
    <3>3. ASSUME Unharmed', NEW d \in Device PROVE Resolved(d)'
      <4>1. CASE d # r.device
        BY <1>f, <2>1, <3>1, <3>3, <4>1 DEF Resolved, DB!Registered
      <4>2. CASE d = r.device
        <5> DEFINE row ==
              [key |-> r.key, address |-> r.address, enabled |-> TRUE]
        <5>1. row \in [key : Key, address : Address, enabled : BOOLEAN]
          BY <1>r, <2>1 DEF DeviceRecord
        <5>2. devices'[d] = row
          BY <3>1, <4>2
        <5>3. devices'[d] # NoRow /\ devices'[d].enabled
          BY <5>1, <5>2, NoRowIsNone
        <5> QED BY <2>1, <2>3, <4>2, <5>3 DEF Resolved, DB!Registered
      <4> QED BY <4>1, <4>2
    <3> QED BY <2>2, <3>2, <3>3
  <2>5. CASE ~frame[p].created
    <3>1. UNCHANGED devices
      BY <2>1, <2>5 DEF TransactionRows
    <3> QED BY <1>d, <1>f, <1>s, <2>1, <2>2, <2>5, <3>1 DEF TouchesDns
  <2> QED BY <2>4, <2>5
<1>7. CASE At(p, "token_consume") /\ Fail(p) /\ UNCHANGED dns
  <2>1. /\ stage[p] = "token_consume" /\ UNCHANGED <<devices, dns>>
        /\ new = r /\ frame'[p].created = frame[p].created
        /\ frame'[p].previous = frame[p].previous
        /\ stage'[p] = CleanupStage(p)
    BY <1>7 DEF Fail
  <2>2. Named(p)'
    BY <2>1 DEF Named, CleanupStage
  <2>3. ASSUME Unharmed'
        PROVE  /\ PutsBack(p)'
               /\ frame[p].created => TouchesDns(p)'
    BY <1>f, <2>1, <2>3 DEF PutsBack, CleanupStage, TouchesDns
  <2>4. ASSUME Unharmed'
        PROVE  \A d \in Device :
                  Resolved(d)' \/ (TouchesDns(p)' /\ new.device = d)
    BY <1>f, <1>s, <2>1, <2>3, <2>4 DEF TouchesDns
  <2> QED BY <1>d, <2>1, <2>2, <2>3, <2>4
<1> QED BY <1>1, <1>2, <1>3, <1>4, <1>5, <1>6, <1>7, RequestZone DEF Acts

(***************************************************************************)
(* Every step of a command does: what it has yet to delete is the name of  *)
(* a device that it revoked.                                               *)
(***************************************************************************)
LEMMA AdminDnsWhole ==
    ASSUME MaxOverlap = 1, SerialInv, Budgeted, DnsEnabled, DnsWhole,
           NEW p \in Admin, Acts(p)
    PROVE  DnsWhole'
<1> DEFINE r == frame[p].record
           new == frame'[p].record
<1>p. /\ p \in Process /\ p \notin Request
      /\ Inv /\ RecordCurrent(p) /\ Sequential
  BY GatewayConstants DEF Process, SerialInv, RecordsCurrent
<1>t. /\ devices \in [Device -> DB!Row \cup {NoRow}]
      /\ dns \in [Device -> DnsRecord]
      /\ stage \in [Process -> Stage] /\ frame \in [Process -> Frame]
      /\ frame[p] \in Frame
  BY <1>p DEF Inv, SharedTypeOK, DB!TypeOK, LocalsFit
<1>r. r # NoRecord =>
         /\ r.device \in Device
         /\ stage[p] \notin RevokesPeer => RowOf(r, FALSE)
  <2> SUFFICES ASSUME r # NoRecord
               PROVE  /\ r.device \in Device
                      /\ stage[p] \notin RevokesPeer => RowOf(r, FALSE)
    OBVIOUS
  <2>1. r \in DeviceRecord
    BY <1>t DEF Frame
  <2> QED BY <1>p, <2>1 DEF RecordCurrent, DeviceRecord
<1>o. \A q \in Process \ {p} :
         /\ ~TouchesDns(q) /\ ~TouchesDns(q)' /\ Named(q)' /\ PutsBack(q)'
         /\ stage'[q] # "dns_redo"
  <2>1. ASSUME NEW q \in Process \ {p}
        PROVE  /\ stage[q] = "idle" /\ stage'[q] = "idle"
               /\ frame[q].created = FALSE /\ frame'[q].created = FALSE
               /\ frame'[q].previous = "unset"
    BY <1>p, ActsAlone DEF EmptyFrame
  <2> QED BY <2>1 DEF TouchesDns, Named, PutsBack, ZoneStages, HostsStages
<1>f. /\ \A d \in DB!RegisteredDevices : d \notin Operational
      /\ Unharmed' =>
            /\ \A d \in Device : Resolved(d) \/ (TouchesDns(p) /\ r.device = d)
            /\ stage[p] # "dns_redo"
  <2>1. Unharmed' => Unharmed
    BY <1>p, BudgetStep DEF Next, Acts
  <2>2. /\ \A d \in DB!RegisteredDevices : d \notin Operational
        /\ Unharmed =>
              /\ \A d \in Device :
                    \/ Resolved(d)
                    \/ \E q \in Process :
                          TouchesDns(q) /\ frame[q].record.device = d
              /\ \A q \in Admin : stage[q] # "dns_redo"
    BY DEF DnsWhole
  <2> QED BY <1>o, <2>1, <2>2
<1>g. SUFFICES /\ \A d \in DB!RegisteredDevices' : d \notin Operational
               /\ Unharmed' =>
                     /\ \A d \in Device :
                           \/ Resolved(d)'
                           \/ TouchesDns(p)' /\ new.device = d
                     /\ stage'[p] # "dns_redo"
  BY <1>p, <1>o, GatewayConstants DEF DnsWhole, Process
<1>d. UNCHANGED devices =>
         \A d \in DB!RegisteredDevices' : d \notin Operational
  BY <1>f DEF DB!RegisteredDevices, DB!Registered
<1>s. UNCHANGED devices =>
         \A d \in Device : dns'[d] = dns[d] => Resolved(d)' = Resolved(d)
  BY DEF Resolved, DB!Registered
<1> USE <1>p, <1>t DEF At, Goto, Set, Frame
<1>1. CASE QuietCommand(p)
  BY <1>d, <1>f, <1>s, <1>1 DEF QuietCommand
<1>2. CASE RevokeRow(p)
  <2>1. /\ stage[p] = "registry_revoke" /\ stage'[p] = "hosts_list"
        /\ devices' = [devices EXCEPT ![r.device].enabled = FALSE]
        /\ UNCHANGED <<dns, frame>>
        /\ RowOf(r, TRUE)
    BY <1>2 DEF RevokeRow, DB!Revoke, RecordCurrent, RevokesPeer, names
  <2>2. r # NoRecord
    BY <2>1, NoOwnerIsNoDevice DEF Inv, LocalsFit, Fits, UsesRecord,
       DeviceRecord, NoRecord
  <2>3. TouchesDns(p)' /\ ~TouchesDns(p)
    BY <2>1, <2>2, GatewayConstants DEF TouchesDns, HostsStages
  <2>4. \A d \in DB!RegisteredDevices' : d \in DB!RegisteredDevices
    BY <2>1 DEF RowOf, DB!RegisteredDevices, DB!Registered
  <2>5. \A d \in Device \ {r.device} : Resolved(d)' = Resolved(d)
    BY <2>1 DEF Resolved, DB!Registered
  <2> QED BY <1>f, <2>1, <2>3, <2>4, <2>5
<1>3. CASE WriteHosts(p)
  <2>1. /\ stage[p] = "hosts_restore" /\ UNCHANGED <<devices, dns>>
        /\ AfterHosts(p)
    BY <1>3 DEF WriteHosts, database
  <2>2. CASE RevokesDns(p)
    <3>1. stage'[p] = "dns_lookup" /\ new = r /\ r # NoRecord
      BY <2>1, <2>2 DEF AfterHosts, RevokesDns
    <3> QED BY <1>d, <1>f, <1>s, <2>1, <3>1 DEF TouchesDns
  <2>3. CASE ~RevokesDns(p)
    <3>1. stage'[p] = "idle"
      BY <2>1, <2>3 DEF AfterHosts, Finish
    <3>2. r = NoRecord
      <4> SUFFICES ASSUME r # NoRecord PROVE FALSE
        OBVIOUS
      <4>1. RowOf(r, FALSE) /\ r.device \in Device
        BY <1>r, <2>1 DEF RevokesPeer, PeerStages, RemovalStages
      <4>2. r.device \in DB!RegisteredDevices
        BY <4>1 DEF RowOf, DB!RegisteredDevices
      <4> QED BY <1>f, <2>3, <4>2, DnsEnabled DEF RevokesDns
    <3> QED BY <1>d, <1>f, <1>s, <2>1, <3>1, <3>2 DEF TouchesDns
  <2> QED BY <2>2, <2>3
<1>4. CASE LookUpDns(p) \/ DeleteDns(p)
  <2>1. /\ stage[p] \in {"dns_lookup", "dns_delete"} /\ UNCHANGED devices
        /\ stage'[p] \in {"idle", "dns_delete"}
        /\ \A d \in Device : d # r.device => dns'[d] = dns[d]
    BY <1>4 DEF LookUpDns, DeleteDns, Finish, database, names
  <2>2. r # NoRecord /\ r.device \in Device /\ RowOf(r, FALSE)
    <3>1. r \in DeviceRecord
      BY <2>1 DEF Inv, LocalsFit, Fits, UsesRecord
    <3>2. r # NoRecord
      BY <3>1, NoOwnerIsNoDevice DEF DeviceRecord, NoRecord
    <3> QED BY <1>r, <2>1, <3>2 DEF RevokesPeer, PeerStages, RemovalStages
  <2>3. CASE stage'[p] = "dns_delete"
    <3>1. new = r
      BY <1>4, <2>3 DEF LookUpDns, DeleteDns, Finish
    <3>2. TouchesDns(p)'
      BY <2>2, <2>3, <3>1 DEF TouchesDns
    <3> QED BY <1>d, <1>f, <1>s, <2>1, <3>1, <3>2
  <2>4. CASE stage'[p] = "idle"
    <3>1. dns'[r.device] = "none"
      BY <1>4, <2>2, <2>4 DEF LookUpDns, DeleteDns, names
    <3>2. \A d \in Device : d = r.device => Resolved(d)'
      BY <2>1, <2>2, <3>1 DEF Resolved, RowOf, DB!Registered
    <3> QED BY <1>d, <1>f, <1>s, <2>1, <2>4, <3>2
  <2> QED BY <2>1, <2>3, <2>4
<1>5. CASE RedoDns(p)
  <2>1. UNCHANGED devices /\ stage[p] = "dns_redo"
    BY <1>5 DEF RedoDns, database
  <2> QED BY <1>d, <1>f, <2>1
<1>6. CASE \E kind \in {"repair", "crash"} :
              Spend(kind) /\ UNCHANGED devices
  BY <1>d, <1>6, Harms
<1> QED BY <1>1, <1>2, <1>3, <1>4, <1>5, <1>6, AdminZone DEF Acts

(***************************************************************************)
(* The zone stays whole whatever happens.                                  *)
(***************************************************************************)
LEMMA DnsWholeKept ==
    ASSUME MaxOverlap = 1
    PROVE  /\ Init => DnsWhole
           /\ SerialInv /\ Budgeted /\ DnsWhole /\ [Next]_gatewayVars =>
                 DnsWhole'
<1>1. Init => DnsWhole
  <2> SUFFICES ASSUME Init PROVE DnsWhole
    OBVIOUS
  <2>1. ASSUME NEW p \in Process
        PROVE  /\ stage[p] = "idle" /\ frame[p].created = FALSE
               /\ frame[p].previous = "unset"
    BY DEF Init, EmptyFrame
  <2>2. \A d \in Device : ~DB!Registered(d) /\ dns[d] # "gateway"
    BY DEF Init, DB!Init, DB!Registered
  <2> QED BY <2>1, <2>2 DEF DnsWhole, Process, DB!RegisteredDevices, Named,
      PutsBack, Resolved, ZoneStages
<1>2. ASSUME SerialInv, Budgeted, DnsWhole, [Next]_gatewayVars
      PROVE  DnsWhole'
  <2> SUFFICES ASSUME DnsEnabled PROVE DnsWhole'
    BY DEF DnsWhole
  <2>1. ASSUME NEW p \in Process, Acts(p) PROVE DnsWhole'
    BY <1>2, <2>1, RequestDnsWhole, AdminDnsWhole DEF Process
  <2>2. CASE Outside
    <3>1. UNCHANGED <<devices, dns, stage, frame, budget>>
      BY <2>2 DEF Outside, CreateToken, TokenExpires, DB!CreateToken,
         DB!ExpireToken, gatewayVars, names
    <3> QED BY <1>2, <3>1 DEF DnsWhole, Unharmed, TouchesDns, Resolved,
        PutsBack, Named, DB!RegisteredDevices, DB!Registered
  <2>3. CASE ServerDies \/ Reboot
    <3>1. UNCHANGED devices /\ ~Unharmed'
      BY <1>2, <2>3, Harms DEF SerialInv, ServerDies, Reboot
    <3>2. ASSUME NEW p \in Request PROVE Named(p)'
      <4>1. \/ stage'[p] = "idle" /\ frame'[p] = EmptyFrame
            \/ stage'[p] = stage[p] /\ frame'[p] = frame[p]
        BY <1>2, <2>3, Dies DEF SerialInv, Process
      <4> QED BY <1>2, <4>1 DEF DnsWhole, Named, ZoneStages
    <3>3. DB!RegisteredDevices' = DB!RegisteredDevices
      BY <3>1 DEF DB!RegisteredDevices, DB!Registered
    <3> QED BY <1>2, <3>1, <3>2, <3>3 DEF DnsWhole
  <2> QED BY <1>2, <2>1, <2>2, <2>3, StepsAre
<1> QED BY <1>1, <1>2

(***************************************************************************)
(* Once every operation has ended, and nothing has failed that nobody      *)
(* repairs, the public names of enabled devices lead to the gateway, those *)
(* of revoked ones are gone, and an enrollment that failed has left no     *)
(* name behind that leads to it.                                           *)
(***************************************************************************)
THEOREM DnsSettles ==
    ASSUME MaxOverlap = 1 PROVE Spec => []SettledDns
<1>1. DnsWhole => SettledDns
  <2> SUFFICES ASSUME DnsWhole, Settled, DnsEnabled, NEW d \in Device
               PROVE  Resolved(d)
    BY DEF SettledDns, Resolved
  <2>1. \A p \in Process : ~TouchesDns(p)
    BY DEF Settled, Idle, At, TouchesDns, ZoneStages, HostsStages
  <2> QED BY <2>1 DEF DnsWhole, Settled, Unharmed
<1> QED BY <1>1, SerialInitially, SerialStep, PeersWholeKept,
    DnsWholeKept, PTL DEF Spec
=============================================================================
