-------------------------- MODULE EnrollmentProofs --------------------------
(***************************************************************************)
(* Proofs about Enrollment, for every set of devices, keys, tokens,        *)
(* requests and processes: types, the write lock, and the configuration    *)
(* file.                                                                   *)
(***************************************************************************)
EXTENDS Enrollment, WellFoundedInduction, TLAPS

(***************************************************************************)
(* The stages in which a thread still reads its request; in which a        *)
(* process has the record of a device; in which it remembers the DNS       *)
(* record it found.                                                        *)
(***************************************************************************)
UsesRequest == TransactionStages \cup {"peer_reservations", "registry_prepare"}
UsesRecord ==
    TransactionStages \cup RemovalStages \cup
    {"dns_restore", "registry_revoke", "dns_lookup", "dns_delete", "dns_redo"}
UsesPrevious ==
    {"dns_replace", "dns_undo", "dns_restore", "dns_delete", "dns_redo"}

(***************************************************************************)
(* What the locals of process p must be like in stage s. TypeOK is not     *)
(* inductive without it: the record that goes into the tables or the hosts *)
(* file, and the DNS record that is put back, must be real ones.           *)
(***************************************************************************)
Fits(p, s, f) ==
    /\ p \in Request /\ s \in UsesRequest => f.request \in Payload
    /\ f.created \/ f.previous # "unset" \/ s \in UsesRecord =>
          f.record \in DeviceRecord
    /\ s \in UsesPrevious => f.previous # "unset"

LocalsFit ==
    /\ stage \in [Process -> Stage]
    /\ frame \in [Process -> Frame]
    /\ \A p \in Process : Fits(p, stage[p], frame[p])

(***************************************************************************)
(* The rest of TypeOK: the tables, the lock and the other resources.       *)
(***************************************************************************)
SharedTypeOK ==
    /\ DB!TypeOK
    /\ lock \in Process \cup {NoProcess}
    /\ config \subseteq Block
    /\ interface \in Interface
    /\ hosts \subseteq HostEntry
    /\ dns \in [Device -> DnsRecord]
    /\ budget \in [fault : Nat, repair : Nat, crash : Nat]

(***************************************************************************)
(* A process that goes to a stage its new local variables fit keeps the    *)
(* frames well-formed; the next lemmas are the ways in which the actions   *)
(* do this: by leaving the locals alone, ending, failing, or preparing a   *)
(* row.                                                                    *)
(***************************************************************************)
LEMMA Moves ==
    ASSUME LocalsFit, NEW p \in Process, NEW s \in Stage, NEW f \in Frame,
           Goto(p, s), Set(p, f), Fits(p, s, f)
    PROVE  LocalsFit'
BY DEF Goto, Set, LocalsFit, Fits

(***************************************************************************)
(* The same for a step that leaves the locals alone.                       *)
(***************************************************************************)
LEMMA Stays ==
    ASSUME LocalsFit, NEW p \in Process, NEW s \in Stage,
           Goto(p, s), UNCHANGED frame, Fits(p, s, frame[p])
    PROVE  LocalsFit'
BY DEF Goto, LocalsFit, Fits

(***************************************************************************)
(* The locals of an idle process are well-typed.                           *)
(***************************************************************************)
LEMMA EmptyFrameIsFrame == EmptyFrame \in Frame
BY DEF EmptyFrame, Frame

(***************************************************************************)
(* A process may end at any stage.                                         *)
(***************************************************************************)
LEMMA Finishes ==
    ASSUME LocalsFit, NEW p \in Process, Finish(p)
    PROVE  LocalsFit'
<1>1. "idle" \in Stage /\ Fits(p, "idle", EmptyFrame)
  BY DEF Stage, Fits, EmptyFrame, UsesRequest, UsesRecord, UsesPrevious,
     TransactionStages, RemovalStages, PeerStages
<1> QED BY <1>1, EmptyFrameIsFrame, Moves DEF Finish

(***************************************************************************)
(* The exception that leaves the with-block keeps what the cleanup needs:  *)
(* record, created and dns_mutation.                                       *)
(***************************************************************************)
LEMMA FailKeeps ==
    ASSUME LocalsFit, NEW p \in Process, Fail(p)
    PROVE  LocalsFit'
<1> DEFINE f == [frame[p] EXCEPT !.reserved = {}, !.text = {}, !.listed = {}]
<1>1. f \in Frame
  BY DEF LocalsFit, Frame
<1>2. /\ f.request = frame[p].request
      /\ f.record = frame[p].record
      /\ f.created = frame[p].created
      /\ f.previous = frame[p].previous
  BY DEF LocalsFit, Frame
<1>3. CleanupStage(p) \in {"dns_restore", "peer_remove", "hosts_list"}
  BY DEF CleanupStage
<1>4. CleanupStage(p) \in Stage
  BY <1>3 DEF Stage, RemovalStages, HostsStages
<1>5. Fits(p, CleanupStage(p), f)
  BY <1>2, <1>3 DEF Fits, CleanupStage, LocalsFit, UsesRequest, UsesRecord,
     UsesPrevious, TransactionStages, PeerStages, RemovalStages
<1> QED BY <1>1, <1>4, <1>5, Moves DEF Fail

(***************************************************************************)
(* Taking the lock with a device record and a flag keeps the locals well-  *)
(* formed.                                                                 *)
(***************************************************************************)
LEMMA PreparedKeeps ==
    ASSUME LocalsFit, NEW p \in Process, NEW rec \in DeviceRecord,
           NEW isNew \in BOOLEAN, p \in Request => request(p) \in Payload,
           Prepared(p, rec, isNew)
    PROVE  LocalsFit'
<1> DEFINE f == [frame[p] EXCEPT !.record = rec, !.created = isNew,
                                 !.reserved = {}]
<1>1. f \in Frame
  BY DEF LocalsFit, Frame
<1>2. /\ f.request = frame[p].request
      /\ f.record = rec
  BY DEF LocalsFit, Frame
<1>3. "peer_apply" \in Stage
  BY DEF Stage, TransactionStages, PeerStages
<1>4. Fits(p, "peer_apply", f)
  BY <1>2 DEF Fits, UsesPrevious, request
<1> QED BY <1>1, <1>3, <1>4, Moves DEF Prepared

(***************************************************************************)
(* allocate_address returns one of the candidates: the least element of a  *)
(* non-empty set of numbers is in it.                                      *)
(***************************************************************************)
LEMMA MinimumIsMember ==
    ASSUME NEW S \in SUBSET Nat, S # {} PROVE Min(S) \in S
<1> DEFINE LessThan == {ss \in Nat \X Nat : ss[1] < ss[2]}
<1>0. OpToRel(<, Nat) = LessThan
  BY DEF OpToRel
<1>1. IsWellFoundedOn(LessThan, Nat)
  BY <1>0, NatLessThanWellFounded, Zenon
<1> HIDE DEF LessThan
<1>2. PICK x \in S : \A y \in S : ~ (<<y, x>> \in LessThan)
  BY <1>1, WFMin, Zenon
<1>3. ASSUME NEW y \in S PROVE x <= y
  <2>1. <<y, x>> \in Nat \X Nat /\ <<y, x>>[1] = y /\ <<y, x>>[2] = x
    OBVIOUS
  <2>2. ~(y < x)
    BY <1>2, <2>1 DEF LessThan
  <2> QED BY <2>2
<1> QED BY <1>3 DEF Min

(***************************************************************************)
(* What the commands remember of a registered row is a device record.      *)
(***************************************************************************)
LEMMA RowsAreRecords ==
    ASSUME SharedTypeOK, NEW d \in DB!RegisteredDevices
    PROVE  /\ devices[d] \in DB!Row
           /\ [device |-> d, key |-> devices[d].key,
               address |-> devices[d].address] \in DeviceRecord
BY DEF SharedTypeOK, DB!TypeOK, DB!Row, DB!RegisteredDevices, DB!Registered,
   DeviceRecord

(***************************************************************************)
(* A request thread that still needs its request has one.                  *)
(***************************************************************************)
LEMMA Asking ==
    ASSUME LocalsFit, NEW p \in Request, stage[p] \in UsesRequest
    PROVE  /\ request(p) \in Payload
           /\ request(p).device \in Device
           /\ request(p).key \in Key
           /\ request(p).token \in Token
BY GatewayConstants DEF LocalsFit, Fits, request, Process

(***************************************************************************)
(* prepare_enrollment hands a device record to the rest of the request.    *)
(***************************************************************************)
LEMMA PrepareKeeps ==
    ASSUME LocalsFit, SharedTypeOK, NEW p \in Request,
           PrepareExisting(p) \/ PrepareNew(p)
    PROVE  LocalsFit'
<1>1. /\ request(p) \in Payload
      /\ request(p).device \in Device /\ request(p).key \in Key
  BY Asking DEF UsesRequest, At, PrepareExisting, PrepareNew
<1>2. p \in Process
  BY DEF Process
<1>3. CASE PrepareExisting(p)
  <2>1. request(p).device \in DB!RegisteredDevices
    BY <1>1, <1>3 DEF PrepareExisting, AcceptsExisting, DB!RegisteredDevices
  <2> QED BY <1>1, <1>2, <1>3, <2>1, RowsAreRecords, PreparedKeeps
      DEF PrepareExisting
<1>4. CASE PrepareNew(p)
  <2>1. Min(FreeAddresses(p)) \in Address
    BY <1>4, MinimumIsMember, GatewayConstants DEF PrepareNew, AcceptsNew,
       FreeAddresses, DB!FreeAddresses
  <2>2. [device |-> request(p).device, key |-> request(p).key,
         address |-> Min(FreeAddresses(p))] \in DeviceRecord
    BY <1>1, <2>1 DEF DeviceRecord
  <2> QED BY <1>1, <1>2, <1>4, <2>2, PreparedKeeps DEF PrepareNew
<1> QED BY <1>3, <1>4

(***************************************************************************)
(* ensure_record remembers a record it really read before it replaces it.  *)
(***************************************************************************)
LEMMA ReadDnsKeeps ==
    ASSUME LocalsFit, SharedTypeOK, NEW p \in Request, ReadDns(p)
    PROVE  LocalsFit'
<1> DEFINE f == [frame[p] EXCEPT !.previous = dns[record(p).device]]
<1>1. p \in Process /\ record(p) \in DeviceRecord
  BY DEF Process, LocalsFit, Fits, ReadDns, At, record, UsesRecord,
     TransactionStages
<1>2. dns[record(p).device] \in DnsRecord
  BY <1>1 DEF SharedTypeOK, DeviceRecord
<1>3. f \in Frame /\ f.request = frame[p].request /\ f.record = frame[p].record
   /\ f.previous # "unset"
  BY <1>1, <1>2 DEF LocalsFit, Frame, DnsRecord
<1>4. "dns_replace" \in Stage /\ "token_consume" \in Stage
  BY DEF Stage, TransactionStages
<1>5. Fits(p, "dns_replace", f) /\ Fits(p, "token_consume", frame[p])
  BY <1>1, <1>3 DEF Fits, LocalsFit, ReadDns, At, record, UsesRequest,
     UsesRecord, UsesPrevious, TransactionStages
<1>6. Set(p, frame[p]) \/ ~UNCHANGED frame
  BY DEF Set, LocalsFit
<1> QED BY <1>1, <1>3, <1>4, <1>5, <1>6, Moves DEF ReadDns, LocalsFit

(***************************************************************************)
(* list_devices yields entries for the hosts file.                         *)
(***************************************************************************)
LEMMA ListKeeps ==
    ASSUME LocalsFit, SharedTypeOK, NEW p \in Process, ListDevices(p)
    PROVE  LocalsFit'
<1> DEFINE f == [frame[p] EXCEPT !.listed = HostEntriesOf(devices)]
<1>1. HostEntriesOf(devices) \subseteq HostEntry
  BY DEF HostEntriesOf, HostEntry, SharedTypeOK, DB!TypeOK, DB!Row
<1>2. f \in Frame /\ f.request = frame[p].request /\ f.record = frame[p].record
   /\ f.previous = frame[p].previous /\ f.created = frame[p].created
  BY <1>1 DEF LocalsFit, Frame
<1> QED BY <1>2, Moves DEF ListDevices, At, Fits, LocalsFit, Stage,
    HostsStages, UsesRequest, UsesRecord, UsesPrevious, TransactionStages,
    PeerStages, RemovalStages

(***************************************************************************)
(* No step of an enrollment leaves its thread with locals that do not fit. *)
(***************************************************************************)
LEMMA RequestLocal ==
    ASSUME LocalsFit, SharedTypeOK, NEW p \in Request,
           Receive(p) \/ EnrollStep(p) \/ EnrollFault(p)
    PROVE  LocalsFit'
<1>p. p \in Process
  BY DEF Process
<1>f. frame[p] \in Frame /\ Fits(p, stage[p], frame[p])
  BY <1>p DEF LocalsFit
<1> USE <1>p, <1>f DEF At, Fits, Frame, Stage, UsesRequest, UsesRecord,
    UsesPrevious, TransactionStages, RemovalStages, PeerStages, HostsStages
<1>1. CASE PrepareExisting(p) \/ PrepareNew(p)
  BY <1>1, PrepareKeeps
<1>2. CASE \/ Reject(p) \/ BusyTimeout(p) \/ PeerRefused(p) \/ DnsRefused(p)
           \/ StepFails(p)
  BY <1>2, FailKeeps DEF Reject, BusyTimeout, PeerRefused, DnsRefused,
     StepFails
<1>3. CASE \/ EnsureRuntime(p) \/ SyncHosts(p) \/ ReplaceDns(p)
           \/ ReplaceDnsFails(p) \/ RemoveRuntime(p)
  BY <1>3, Stays DEF EnsureRuntime, SyncHosts, ReplaceDns, ReplaceDnsFails,
     RemoveRuntime
<1>4. CASE Commit(p) \/ RestoreHosts(p) \/ RestoreHostsFails(p)
  BY <1>4, Finishes DEF Commit, RestoreHosts, RestoreHostsFails
<1>5. CASE Receive(p)
  BY <1>5, Moves DEF Receive, EmptyFrame, NoRecord
<1>6. CASE ReadReservations(p)
  BY <1>6, Moves DEF ReadReservations, SharedTypeOK, ReservedNetworks, Block
<1>7. CASE EnsureRead(p) \/ RemoveRead(p)
  BY <1>7, Moves DEF EnsureRead, RemoveRead, SharedTypeOK
<1>8. CASE WritePeer(p) \/ StripPeer(p) \/ RemovalFails(p)
  BY <1>8, Moves DEF WritePeer, StripPeer, StripConfig, RemovalFails
<1>9. CASE ReadDns(p)
  BY <1>9, ReadDnsKeeps
<1>10. CASE UndoDns(p) \/ UndoDnsFails(p)
  BY <1>10, Moves DEF UndoDns, UndoDnsFails, LeaveDns
<1>11. CASE RestoreDns(p) \/ RestoreDnsFails(p)
  BY <1>11, Moves DEF RestoreDns, RestoreDnsFails, AfterDnsRestore
<1>12. CASE ListDevices(p)
  BY <1>12, ListKeeps
<1> QED BY <1>1, <1>2, <1>3, <1>4, <1>5, <1>6, <1>7, <1>8, <1>9, <1>10, <1>11,
    <1>12 DEF EnrollStep, EnrollFault

(***************************************************************************)
(* The exception handler of revoke_device still has the row it had read.   *)
(***************************************************************************)
LEMMA PutBackKeeps ==
    ASSUME LocalsFit, NEW p \in Process, frame[p].record \in DeviceRecord,
           p \notin Request, PutPeerBack(p)
    PROVE  LocalsFit'
BY Moves DEF PutPeerBack, LocalsFit, Fits, Frame, Stage, UsesPrevious,
   TransactionStages, PeerStages

(***************************************************************************)
(* No step of an administrator's command leaves locals that do not fit.    *)
(***************************************************************************)
LEMMA AdminLocal ==
    ASSUME LocalsFit, SharedTypeOK, NEW p \in Admin,
           \/ StartHostsSync(p) \/ StartRevoke(p)
           \/ AdminStep(p) \/ AdminFault(p) \/ CommandDies(p)
    PROVE  LocalsFit'
<1>p. p \in Process /\ p \notin Request
  BY GatewayConstants DEF Process
<1>f. frame[p] \in Frame /\ Fits(p, stage[p], frame[p])
  BY <1>p DEF LocalsFit
<1> USE <1>p, <1>f DEF At, Fits, Frame, Stage, UsesRequest, UsesRecord,
    UsesPrevious, TransactionStages, RemovalStages, PeerStages, HostsStages
<1>1. CASE \/ StartHostsSync(p) \/ RemoveRuntime(p) \/ EnsureRuntime(p)
           \/ RevokeRow(p) \/ DeleteDnsFails(p)
  BY <1>1, Stays DEF StartHostsSync, MayStart, RemoveRuntime, EnsureRuntime,
     RevokeRow, DeleteDnsFails
<1>2. CASE \/ RewritePeer(p) \/ PutBackRefused(p) \/ PutBackFails(p)
           \/ DeleteDns(p) \/ RedoDns(p) \/ LookUpDnsFails(p) \/ CommandDies(p)
  BY <1>2, Finishes DEF RewritePeer, PutBackRefused, PutBackFails, DeleteDns,
     RedoDns, LookUpDnsFails, CommandDies
<1>3. CASE RevokeBusy(p) \/ RevokeFails(p)
  BY <1>3, PutBackKeeps DEF RevokeBusy, RevokeFails
<1>4. CASE StartRevoke(p)
  <2>1. PICK d \in DB!RegisteredDevices :
           /\ Set(p, [EmptyFrame EXCEPT
                        !.record = [device |-> d, key |-> devices[d].key,
                                    address |-> devices[d].address]])
           /\ Goto(p, IF devices[d].enabled THEN "peer_remove"
                                            ELSE "hosts_list")
    BY <1>4 DEF StartRevoke
  <2> QED BY <2>1, RowsAreRecords, EmptyFrameIsFrame, Moves DEF EmptyFrame
<1>5. CASE RemoveRead(p) \/ EnsureRead(p) \/ StripRevoked(p)
  BY <1>5, Moves DEF RemoveRead, EnsureRead, StripRevoked, StripConfig,
     SharedTypeOK
<1>6. CASE ListDevices(p)
  BY <1>6, ListKeeps
<1>7. CASE WriteHosts(p) \/ WriteHostsFails(p)
  BY <1>7, Moves, Finishes DEF WriteHosts, WriteHostsFails, AfterHosts,
     RevokesDns
<1>8. CASE LookUpDns(p)
  <2>1. dns[frame[p].record.device] \in DnsRecord
    BY <1>8 DEF LookUpDns, SharedTypeOK, DeviceRecord
  <2> QED BY <1>8, <2>1, Moves, Finishes DEF LookUpDns, DnsRecord
<1> QED BY <1>1, <1>2, <1>3, <1>4, <1>5, <1>6, <1>7, <1>8 DEF AdminStep,
    AdminFault

(***************************************************************************)
(* Every step of the gateway keeps every process's locals well-formed.     *)
(***************************************************************************)
LEMMA LocalStep ==
    LocalsFit /\ SharedTypeOK /\ [Next]_gatewayVars => LocalsFit'
<1> SUFFICES ASSUME LocalsFit, SharedTypeOK, [Next]_gatewayVars
             PROVE  LocalsFit'
  OBVIOUS
<1>1. CASE \/ \E t \in Token, s \in Scope : CreateToken(t, s)
           \/ \E t \in Token : TokenExpires(t)
           \/ UNCHANGED gatewayVars
  BY <1>1 DEF CreateToken, TokenExpires, gatewayVars, LocalsFit, Fits
<1>2. CASE ServerDies \/ Reboot
  <2>1. "idle" \in Stage /\ \A p \in Process : Fits(p, "idle", EmptyFrame)
    BY DEF Stage, Fits, EmptyFrame, UsesRequest, UsesRecord, UsesPrevious,
       TransactionStages, RemovalStages, PeerStages
  <2>2. stage' \in [Process -> Stage] /\ frame' \in [Process -> Frame]
    BY <1>2, <2>1, EmptyFrameIsFrame DEF ServerDies, Reboot, LocalsFit
  <2>3. ASSUME NEW p \in Process PROVE Fits(p, stage'[p], frame'[p])
    BY <1>2, <2>1, <2>3 DEF ServerDies, Reboot, LocalsFit
  <2> QED BY <2>2, <2>3 DEF LocalsFit, Fits
<1> QED BY <1>1, <1>2, RequestLocal, AdminLocal DEF Next

(***************************************************************************)
(* The budget of faults stays a triple of numbers.                         *)
(***************************************************************************)
LEMMA SpendKeeps ==
    ASSUME SharedTypeOK, NEW kind \in {"fault", "repair", "crash"}, Spend(kind)
    PROVE  budget' \in [fault : Nat, repair : Nat, crash : Nat]
BY DEF SharedTypeOK, Spend

(***************************************************************************)
(* No step of an enrollment spoils the type of a shared resource.          *)
(***************************************************************************)
LEMMA RequestShared ==
    ASSUME LocalsFit, SharedTypeOK, NEW p \in Request,
           Receive(p) \/ EnrollStep(p) \/ EnrollFault(p)
    PROVE  SharedTypeOK'
<1>p. p \in Process /\ frame[p] \in Frame /\ Fits(p, stage[p], frame[p])
  BY DEF Process, LocalsFit
<1> USE <1>p DEF SharedTypeOK, DB!TypeOK, database, peerState, names
<1>1. CASE \/ Receive(p) \/ ReadReservations(p) \/ EnsureRead(p)
           \/ ReadDns(p) \/ RemoveRead(p) \/ ListDevices(p)
  BY <1>1 DEF Receive, ReadReservations, EnsureRead, ReadDns, RemoveRead,
     ListDevices
<1>2. CASE PrepareExisting(p) \/ PrepareNew(p)
  BY <1>2 DEF PrepareExisting, PrepareNew, Prepared
<1>3. CASE \/ Reject(p) \/ BusyTimeout(p) \/ PeerRefused(p) \/ DnsRefused(p)
           \/ StepFails(p)
  BY <1>3, SpendKeeps DEF Reject, BusyTimeout, PeerRefused, DnsRefused,
     StepFails, Fail, ReleaseLock
<1>4. CASE RemovalFails(p) \/ RestoreHostsFails(p) \/ RestoreDnsFails(p)
  BY <1>4, SpendKeeps DEF RemovalFails, RestoreHostsFails, RestoreDnsFails,
     AfterDnsRestore
<1>5. CASE UndoDnsFails(p)
  BY <1>5, SpendKeeps DEF UndoDnsFails, LeaveDns, ReleaseLock
<1>6. CASE EnsureRuntime(p) \/ RemoveRuntime(p)
  <2>1. record(p) \in DeviceRecord
    BY <1>6 DEF EnsureRuntime, RemoveRuntime, At, Fits, record, UsesRecord,
       TransactionStages, PeerStages, RemovalStages
  <2> QED BY <1>6, <2>1 DEF EnsureRuntime, RemoveRuntime, WgSetPeer,
      WgRemovePeer, Interface, DeviceRecord, record
<1>7. CASE WritePeer(p) \/ StripPeer(p)
  <2>1. frame[p].text \subseteq Block /\ record(p) \in DeviceRecord
    BY <1>7 DEF Frame, WritePeer, StripPeer, StripConfig, At, Fits, record,
       UsesRecord, TransactionStages, PeerStages, RemovalStages
  <2> QED BY <1>7, <2>1 DEF WritePeer, EnsureWrite, WithManagedBlock,
      StripManagedBlock, StripPeer, StripConfig, Block, DeviceRecord, record
<1>8. CASE SyncHosts(p) \/ RestoreHosts(p)
  <2>1. record(p) \in DeviceRecord \/ ~frame[p].created
    BY DEF Fits, record
  <2>2. TransactionRows(p) \in [Device -> DB!Row \cup {NoRow}]
    BY <2>1 DEF TransactionRows, DeviceRecord, DB!Row
  <2>3. HostEntriesOf(TransactionRows(p)) \subseteq HostEntry
    BY <2>2 DEF HostEntriesOf, HostEntry, DB!Row
  <2> QED BY <1>8, <2>3 DEF SyncHosts, RestoreHosts, Frame
<1>9. CASE ReplaceDns(p) \/ ReplaceDnsFails(p)
  BY <1>9, SpendKeeps DEF ReplaceDns, ReplaceDnsFails, DnsRecord
<1>10. CASE UndoDns(p) \/ RestoreDns(p)
  <2>1. frame[p].previous \in DnsRecord
    BY <1>10 DEF UndoDns, RestoreDns, At, Fits, UsesPrevious, Frame
  <2> QED BY <1>10, <2>1 DEF UndoDns, RestoreDns, LeaveDns, ReleaseLock,
      AfterDnsRestore
<1>11. CASE Commit(p)
  <2>1. record(p) \in DeviceRecord \/ ~frame[p].created
    BY DEF Fits, record
  <2>2. TransactionRows(p) \in [Device -> DB!Row \cup {NoRow}]
    BY <2>1 DEF TransactionRows, DeviceRecord, DB!Row
  <2> QED BY <1>11, <2>2 DEF Commit, DB!TokenRow, DB!TokenState
<1> QED BY <1>1, <1>2, <1>3, <1>4, <1>5, <1>6, <1>7, <1>8, <1>9, <1>10, <1>11
    DEF EnrollStep, EnrollFault

(***************************************************************************)
(* No step of an administrator's command spoils the type of a shared       *)
(* resource.                                                               *)
(***************************************************************************)
LEMMA AdminShared ==
    ASSUME LocalsFit, SharedTypeOK, NEW p \in Admin,
           \/ StartHostsSync(p) \/ StartRevoke(p)
           \/ AdminStep(p) \/ AdminFault(p) \/ CommandDies(p)
    PROVE  SharedTypeOK'
<1>p. p \in Process /\ frame[p] \in Frame /\ Fits(p, stage[p], frame[p])
  BY DEF Process, LocalsFit
<1> USE <1>p DEF SharedTypeOK, DB!TypeOK, database, peerState, names
<1>1. CASE \/ StartHostsSync(p) \/ StartRevoke(p) \/ EnsureRead(p)
           \/ RemoveRead(p) \/ ListDevices(p) \/ LookUpDns(p)
           \/ PutBackRefused(p) \/ RevokeBusy(p)
  BY <1>1 DEF StartHostsSync, StartRevoke, EnsureRead, RemoveRead,
     ListDevices, LookUpDns, PutBackRefused, RevokeBusy, PutPeerBack
<1>2. CASE \/ RevokeFails(p) \/ PutBackFails(p) \/ LookUpDnsFails(p)
           \/ CommandDies(p) \/ WriteHostsFails(p)
  BY <1>2, SpendKeeps DEF RevokeFails, PutPeerBack, PutBackFails,
     LookUpDnsFails, CommandDies, WriteHostsFails
<1>3. CASE EnsureRuntime(p) \/ RemoveRuntime(p)
  <2>1. frame[p].record \in DeviceRecord
    BY <1>3 DEF EnsureRuntime, RemoveRuntime, At, Fits, UsesRecord,
       TransactionStages, PeerStages, RemovalStages
  <2> QED BY <1>3, <2>1 DEF EnsureRuntime, RemoveRuntime, WgSetPeer,
      WgRemovePeer, Interface, DeviceRecord
<1>4. CASE RewritePeer(p) \/ StripRevoked(p)
  <2>1. frame[p].text \subseteq Block /\ frame[p].record \in DeviceRecord
    BY <1>4 DEF Frame, RewritePeer, StripRevoked, StripConfig, At, Fits,
       UsesRecord, TransactionStages, PeerStages, RemovalStages
  <2> QED BY <1>4, <2>1 DEF RewritePeer, EnsureWrite, WithManagedBlock,
      StripManagedBlock, StripRevoked, StripConfig, Block, DeviceRecord
<1>5. CASE RevokeRow(p)
  BY <1>5 DEF RevokeRow, DB!Revoke, DB!Registered, DB!Row
<1>6. CASE WriteHosts(p)
  BY <1>6 DEF WriteHosts, Frame
<1>7. CASE DeleteDns(p) \/ DeleteDnsFails(p)
  BY <1>7, SpendKeeps DEF DeleteDns, DeleteDnsFails, DnsRecord
<1>8. CASE RedoDns(p)
  <2>1. frame[p].previous \in DnsRecord
    BY <1>8 DEF RedoDns, At, Fits, UsesPrevious, Frame
  <2> QED BY <1>8, <2>1 DEF RedoDns
<1> QED BY <1>1, <1>2, <1>3, <1>4, <1>5, <1>6, <1>7, <1>8 DEF AdminStep,
    AdminFault

(***************************************************************************)
(* Every step of the gateway keeps the shared resources well-typed.        *)
(***************************************************************************)
LEMMA SharedStep ==
    LocalsFit /\ SharedTypeOK /\ [Next]_gatewayVars => SharedTypeOK'
<1> SUFFICES ASSUME LocalsFit, SharedTypeOK, [Next]_gatewayVars
             PROVE  SharedTypeOK'
  OBVIOUS
<1> USE DEF SharedTypeOK, DB!TypeOK, peerState, names
<1>1. ASSUME NEW t \in Token, NEW s \in Scope, CreateToken(t, s)
      PROVE  SharedTypeOK'
  BY <1>1, GatewayConstants DEF CreateToken, DB!CreateToken, DB!TokenRow,
     DB!TokenState
<1>2. ASSUME NEW t \in Token, TokenExpires(t) PROVE SharedTypeOK'
  BY <1>2 DEF TokenExpires, DB!ExpireToken, DB!TokenRow, DB!TokenState
<1>3. CASE ServerDies
  BY <1>3, SpendKeeps DEF ServerDies
<1>4. CASE Reboot
  BY <1>4, SpendKeeps DEF Reboot, BroughtUp
<1>5. CASE UNCHANGED gatewayVars
  BY <1>5 DEF gatewayVars
<1> QED BY <1>1, <1>2, <1>3, <1>4, <1>5, RequestShared, AdminShared DEF Next

(***************************************************************************)
(* The gateway starts well-typed and with every process idle.              *)
(***************************************************************************)
LEMMA Initially == Init => LocalsFit /\ SharedTypeOK
<1> SUFFICES ASSUME Init PROVE LocalsFit /\ SharedTypeOK
  OBVIOUS
<1>1. LocalsFit
  BY EmptyFrameIsFrame DEF Init, LocalsFit, Fits, EmptyFrame, Stage,
     UsesRequest, UsesRecord, UsesPrevious, TransactionStages, RemovalStages,
     PeerStages
<1>2. SharedTypeOK
  BY GatewayConstants DEF Init, SharedTypeOK, DB!Init, DB!TypeOK, DB!TokenRow,
     DB!TokenState, BroughtUp, Unmanaged, DnsRecord
<1> QED BY <1>1, <1>2

(***************************************************************************)
(* The state of the gateway stays well-typed: the tables, the              *)
(* configuration and interface, the hosts block and the zone, and the      *)
(* locals of every thread and command.                                     *)
(***************************************************************************)
THEOREM TypeCorrect == Spec => []TypeOK
<1>1. LocalsFit /\ SharedTypeOK => TypeOK
  BY DEF LocalsFit, SharedTypeOK, TypeOK
<1> QED BY <1>1, Initially, LocalStep, SharedStep, PTL DEF Spec

-----------------------------------------------------------------------------
(***************************************************************************)
(* The write lock is held exactly by the thread that is in a transaction.  *)
(***************************************************************************)
TransactionHeld ==
    /\ lock # NoProcess =>
          lock \in Request /\ stage[lock] \in TransactionStages
    /\ \A p \in Request : stage[p] \in TransactionStages => lock = p

(***************************************************************************)
(* A step that does not touch the lock keeps its process on the same side  *)
(* of BEGIN IMMEDIATE.                                                     *)
(***************************************************************************)
LEMMA InsideOrOutside ==
    ASSUME LocalsFit, TransactionHeld, NEW p \in Process, NEW s,
           UNCHANGED lock, Goto(p, s),
           p \in Request =>
              (s \in TransactionStages <=> stage[p] \in TransactionStages)
    PROVE  TransactionHeld'
BY GatewayConstants DEF TransactionHeld, Goto, LocalsFit, Process

(***************************************************************************)
(* Whoever leaves the with-block gives the lock back.                      *)
(***************************************************************************)
LEMMA LeavesTransaction ==
    ASSUME LocalsFit, TransactionHeld, NEW p \in Request, NEW s,
           ReleaseLock(p), Goto(p, s), s \notin TransactionStages
    PROVE  TransactionHeld'
BY GatewayConstants DEF TransactionHeld, Goto, LocalsFit, Process, ReleaseLock

(***************************************************************************)
(* The lock follows each request into and out of its transaction.          *)
(***************************************************************************)
LEMMA RequestHeld ==
    ASSUME LocalsFit, TransactionHeld, NEW p \in Request,
           Receive(p) \/ EnrollStep(p) \/ EnrollFault(p)
    PROVE  TransactionHeld'
<1>p. p \in Process /\ p # NoProcess
  BY GatewayConstants DEF Process
<1> USE <1>p DEF At, TransactionStages, RemovalStages, PeerStages, HostsStages
<1>1. CASE Receive(p) \/ ReadReservations(p)
  BY <1>1, InsideOrOutside DEF Receive, MayStart, ReadReservations, database
<1>2. CASE PrepareExisting(p) \/ PrepareNew(p)
  <2>1. lock = NoProcess /\ lock' = p /\ Goto(p, "peer_apply")
    BY <1>2 DEF PrepareExisting, PrepareNew, Prepared
  <2> QED BY <2>1, GatewayConstants DEF TransactionHeld, Goto, LocalsFit,
      Process
<1>3. CASE \/ Reject(p) \/ BusyTimeout(p) \/ PeerRefused(p) \/ DnsRefused(p)
           \/ StepFails(p)
  <2>1. CleanupStage(p) \notin TransactionStages
    BY DEF CleanupStage
  <2> QED BY <1>3, <2>1, LeavesTransaction DEF Reject, BusyTimeout,
      PeerRefused, DnsRefused, StepFails, Fail
<1>4. CASE EnsureRead(p) \/ EnsureRuntime(p) \/ WritePeer(p) \/ SyncHosts(p)
  BY <1>4, InsideOrOutside DEF EnsureRead, EnsureRuntime, WritePeer,
     SyncHosts, database
<1>5. CASE ReadDns(p) \/ ReplaceDns(p) \/ ReplaceDnsFails(p)
  BY <1>5, InsideOrOutside DEF ReadDns, ReplaceDns, ReplaceDnsFails, database
<1>6. CASE UndoDns(p) \/ UndoDnsFails(p)
  BY <1>6, LeavesTransaction DEF UndoDns, UndoDnsFails, LeaveDns
<1>7. CASE Commit(p)
  BY <1>7, LeavesTransaction DEF Commit, Finish, ReleaseLock, TransactionHeld
<1>8. CASE RestoreDns(p) \/ RestoreDnsFails(p)
  BY <1>8, InsideOrOutside DEF RestoreDns, RestoreDnsFails, AfterDnsRestore,
     database
<1>9. CASE RemoveRead(p) \/ RemoveRuntime(p) \/ StripPeer(p) \/ RemovalFails(p)
  BY <1>9, InsideOrOutside DEF RemoveRead, RemoveRuntime, StripPeer,
     StripConfig, RemovalFails, database
<1>10. CASE ListDevices(p) \/ RestoreHosts(p) \/ RestoreHostsFails(p)
  BY <1>10, InsideOrOutside DEF ListDevices, RestoreHosts, RestoreHostsFails,
     Finish, database
<1> QED BY <1>1, <1>2, <1>3, <1>4, <1>5, <1>6, <1>7, <1>8, <1>9, <1>10
    DEF EnrollStep, EnrollFault

(***************************************************************************)
(* A command never holds the lock between two of its steps: its only       *)
(* transactions begin and commit in one.                                   *)
(***************************************************************************)
LEMMA AdminOutside ==
    ASSUME LocalsFit, SharedTypeOK, NEW p \in Admin,
           \/ StartHostsSync(p) \/ StartRevoke(p)
           \/ AdminStep(p) \/ AdminFault(p) \/ CommandDies(p)
    PROVE  /\ UNCHANGED lock
           /\ \E s, f : Goto(p, s) /\ Set(p, f)
<1>1. p \in Process /\ frame = [frame EXCEPT ![p] = frame[p]]
  BY DEF Process, LocalsFit
<1> USE <1>1 DEF Set, Finish, PutPeerBack, database
<1>2. CASE StartHostsSync(p) \/ StartRevoke(p) \/ CommandDies(p)
  BY <1>2 DEF StartHostsSync, StartRevoke, CommandDies
<1>3. CASE RemoveRead(p) \/ RemoveRuntime(p) \/ StripRevoked(p)
  BY <1>3 DEF RemoveRead, RemoveRuntime, StripRevoked, StripConfig
<1>4. CASE RevokeRow(p) \/ RevokeBusy(p) \/ RevokeFails(p)
  BY <1>4 DEF RevokeRow, RevokeBusy, RevokeFails
<1>5. CASE \/ EnsureRead(p) \/ EnsureRuntime(p) \/ RewritePeer(p)
           \/ PutBackRefused(p) \/ PutBackFails(p)
  BY <1>5 DEF EnsureRead, EnsureRuntime, RewritePeer, PutBackRefused,
     PutBackFails
<1>6. CASE ListDevices(p) \/ WriteHosts(p) \/ WriteHostsFails(p)
  BY <1>6 DEF ListDevices, WriteHosts, WriteHostsFails, AfterHosts
<1>7. CASE \/ LookUpDns(p) \/ DeleteDns(p) \/ RedoDns(p)
           \/ LookUpDnsFails(p) \/ DeleteDnsFails(p)
  BY <1>7 DEF LookUpDns, DeleteDns, RedoDns, LookUpDnsFails, DeleteDnsFails
<1> QED BY <1>2, <1>3, <1>4, <1>5, <1>6, <1>7 DEF AdminStep, AdminFault

(***************************************************************************)
(* At every step the lock belongs to the one open transaction.             *)
(***************************************************************************)
LEMMA HeldStep ==
    LocalsFit /\ SharedTypeOK /\ TransactionHeld /\ [Next]_gatewayVars =>
        TransactionHeld'
<1> SUFFICES ASSUME LocalsFit, SharedTypeOK, TransactionHeld,
                    [Next]_gatewayVars
             PROVE  TransactionHeld'
  OBVIOUS
<1>1. CASE \/ \E t \in Token, s \in Scope : CreateToken(t, s)
           \/ \E t \in Token : TokenExpires(t)
           \/ UNCHANGED gatewayVars
  BY <1>1 DEF CreateToken, TokenExpires, gatewayVars, TransactionHeld,
     DB!CreateToken, DB!ExpireToken
<1>2. CASE ServerDies \/ Reboot
  BY <1>2 DEF ServerDies, Reboot, TransactionHeld, LocalsFit, Process,
     TransactionStages, PeerStages
<1>3. ASSUME NEW p \in Admin,
             \/ StartHostsSync(p) \/ StartRevoke(p)
             \/ AdminStep(p) \/ AdminFault(p) \/ CommandDies(p)
      PROVE  TransactionHeld'
  BY <1>3, AdminOutside, InsideOrOutside, GatewayConstants DEF Process
<1> QED BY <1>1, <1>2, <1>3, RequestHeld DEF Next

-----------------------------------------------------------------------------
(***************************************************************************)
(* The stages between reading the configuration and writing it back, and   *)
(* what the text that was read is like: well-formed, and for ensure_peer   *)
(* without the key in another block.                                       *)
(***************************************************************************)
TextStages == {"runtime_set", "config_write", "runtime_remove", "config_strip"}
TextSound(s, f) ==
    s \in TextStages =>
        /\ WellFormed(f.text)
        /\ s \in {"runtime_set", "config_write"} =>
              ~KeyElsewhere(f.text, f.record.device, f.record.key)
TextsSound == \A p \in Process : TextSound(stage[p], frame[p])

(***************************************************************************)
(* ensure_peer writes a well-formed text if the one it read was well-      *)
(* formed and had the key in no other block.                               *)
(***************************************************************************)
LEMMA WithBlock ==
    ASSUME NEW text, WellFormed(text), NEW rec \in DeviceRecord,
           ~KeyElsewhere(text, rec.device, rec.key)
    PROVE  WellFormed(WithManagedBlock(text, rec.device, rec.key, rec.address))
<1> DEFINE new == [owner |-> rec.device, key |-> rec.key,
                   address |-> rec.address]
           kept == StripManagedBlock(text, rec.device)
<1>1. rec.device # NoOwner
  BY NoOwnerIsNoDevice DEF DeviceRecord
<1>2. new.owner = rec.device /\ new.key = rec.key
  OBVIOUS
<1>3. \A b \in kept : b \in text /\ b.owner # rec.device /\ b.key # rec.key
  BY DEF StripManagedBlock, KeyElsewhere
<1> HIDE DEF new
<1>4. Unmanaged(kept \cup {new}) = ManualBlocks
  BY <1>1, <1>2 DEF WellFormed, Unmanaged, StripManagedBlock
<1>5. ASSUME NEW b \in kept \cup {new}, NEW c \in kept \cup {new}, b # c
      PROVE  b.key # c.key /\ (b.owner # c.owner \/ b.owner = NoOwner)
  BY <1>2, <1>3, <1>5 DEF WellFormed
<1> QED BY <1>4, <1>5 DEF WellFormed, WithManagedBlock, new

(***************************************************************************)
(* remove_peer writes a well-formed text if the one it read was.           *)
(***************************************************************************)
LEMMA WithoutBlock ==
    ASSUME NEW text, WellFormed(text), NEW d \in Device
    PROVE  WellFormed(StripManagedBlock(text, d))
BY NoOwnerIsNoDevice DEF WellFormed, StripManagedBlock, Unmanaged

(***************************************************************************)
(* A process whose text is sound, or no longer needed, keeps the texts     *)
(* sound.                                                                  *)
(***************************************************************************)
LEMMA TextMoves ==
    ASSUME LocalsFit, TextsSound, NEW p \in Process, NEW s, NEW f,
           Goto(p, s), Set(p, f), TextSound(s, f)
    PROVE  TextsSound'
BY DEF LocalsFit, TextsSound, TextSound, Goto, Set, WellFormed

(***************************************************************************)
(* ensure_peer and remove_peer keep the file and the texts well-formed.    *)
(***************************************************************************)
LEMMA TextStep ==
    ASSUME LocalsFit, WellFormed(config), TextsSound, NEW p \in Process,
           \/ EnsureRead(p) \/ EnsureRuntime(p)
           \/ WritePeer(p) \/ RewritePeer(p)
           \/ RemoveRead(p) \/ RemoveRuntime(p)
           \/ StripConfig(p, "hosts_list") \/ StripConfig(p, "registry_revoke")
    PROVE  WellFormed(config)' /\ TextsSound'
<1>r. /\ TextSound(stage[p], frame[p])
      /\ frame[p] \in Frame
      /\ stage[p] \in UsesRecord => frame[p].record \in DeviceRecord
  BY DEF LocalsFit, Fits, TextsSound
<1> USE <1>r DEF At, UsesRecord, TransactionStages, PeerStages, RemovalStages,
    TextSound, TextStages
<1>1. CASE EnsureRead(p)
  BY <1>1, TextMoves DEF EnsureRead, PeerConflict, peerState, WellFormed,
     Frame
<1>2. CASE RemoveRead(p)
  BY <1>2, TextMoves DEF RemoveRead, peerState, WellFormed, Frame
<1>3. CASE EnsureRuntime(p) \/ RemoveRuntime(p)
  <2>1. Set(p, frame[p])
    BY <1>3 DEF EnsureRuntime, RemoveRuntime, Set, LocalsFit
  <2> QED BY <1>3, <2>1, TextMoves DEF EnsureRuntime, RemoveRuntime,
      WellFormed
<1>4. CASE WritePeer(p) \/ RewritePeer(p)
  <2> DEFINE rec == frame[p].record
             desired == WithManagedBlock(frame[p].text, rec.device, rec.key,
                                         rec.address)
  <2>1. WellFormed(desired)
    BY <1>4, WithBlock DEF WritePeer, RewritePeer
  <2>2. config' = desired \/ config' = config
    BY <1>4 DEF WritePeer, RewritePeer, EnsureWrite
  <2>3. WellFormed(config)'
    BY <2>1, <2>2 DEF WellFormed
  <2> QED BY <1>4, <2>3, TextMoves DEF WritePeer, RewritePeer, Finish
<1>5. CASE StripConfig(p, "hosts_list") \/ StripConfig(p, "registry_revoke")
  <2>1. WellFormed(StripManagedBlock(frame[p].text, frame[p].record.device))
    BY <1>5, WithoutBlock DEF StripConfig, DeviceRecord
  <2>2. WellFormed(config)'
    BY <1>5, <2>1 DEF StripConfig, WellFormed
  <2> QED BY <1>5, <2>2, TextMoves DEF StripConfig
<1> QED BY <1>1, <1>2, <1>3, <1>4, <1>5

(***************************************************************************)
(* Process p takes a step after which it has no text to write.             *)
(***************************************************************************)
OutsideText(p) ==
    /\ stage'[p] \notin TextStages
    /\ \A q \in Process \ {p} : stage'[q] = stage[q] /\ frame'[q] = frame[q]

(***************************************************************************)
(* Apart from these steps an enrollment neither writes the file nor keeps  *)
(* a text it may write later.                                              *)
(***************************************************************************)
LEMMA RequestText ==
    ASSUME LocalsFit, NEW p \in Request,
           Receive(p) \/ EnrollStep(p) \/ EnrollFault(p)
    PROVE  \/ EnsureRead(p) \/ EnsureRuntime(p) \/ WritePeer(p)
           \/ RemoveRead(p) \/ RemoveRuntime(p) \/ StripConfig(p, "hosts_list")
           \/ /\ UNCHANGED config
              /\ OutsideText(p)
<1>1. p \in Process
  BY DEF Process
<1> USE <1>1 DEF LocalsFit, OutsideText, Goto, Set, Finish, peerState,
    TextStages
<1>2. CASE Receive(p) \/ ReadReservations(p)
  BY <1>2 DEF Receive, ReadReservations
<1>3. CASE PrepareExisting(p) \/ PrepareNew(p)
  BY <1>3 DEF PrepareExisting, PrepareNew, Prepared
<1>4. CASE \/ Reject(p) \/ BusyTimeout(p) \/ PeerRefused(p) \/ DnsRefused(p)
           \/ StepFails(p)
  BY <1>4 DEF Reject, BusyTimeout, PeerRefused, DnsRefused, StepFails, Fail,
     CleanupStage
<1>5. CASE SyncHosts(p) \/ ReadDns(p) \/ ReplaceDns(p) \/ ReplaceDnsFails(p)
  BY <1>5 DEF SyncHosts, ReadDns, ReplaceDns, ReplaceDnsFails
<1>6. CASE UndoDns(p) \/ UndoDnsFails(p) \/ RestoreDns(p) \/ RestoreDnsFails(p)
  BY <1>6 DEF UndoDns, UndoDnsFails, LeaveDns, RestoreDns, RestoreDnsFails,
     AfterDnsRestore
<1>7. CASE \/ Commit(p) \/ RemovalFails(p) \/ ListDevices(p) \/ RestoreHosts(p)
           \/ RestoreHostsFails(p)
  BY <1>7 DEF Commit, RemovalFails, ListDevices, RestoreHosts,
     RestoreHostsFails
<1> QED BY <1>2, <1>3, <1>4, <1>5, <1>6, <1>7 DEF EnrollStep, EnrollFault,
    StripPeer

(***************************************************************************)
(* Nor does a command.                                                     *)
(***************************************************************************)
LEMMA AdminText ==
    ASSUME LocalsFit, NEW p \in Admin,
           \/ StartHostsSync(p) \/ StartRevoke(p)
           \/ AdminStep(p) \/ AdminFault(p) \/ CommandDies(p)
    PROVE  \/ EnsureRead(p) \/ EnsureRuntime(p) \/ RewritePeer(p)
           \/ RemoveRead(p) \/ RemoveRuntime(p)
           \/ StripConfig(p, "registry_revoke")
           \/ /\ UNCHANGED config
              /\ OutsideText(p)
<1>1. p \in Process
  BY DEF Process
<1> USE <1>1 DEF LocalsFit, OutsideText, Goto, Set, Finish, peerState,
    TextStages, PutPeerBack
<1>2. CASE StartHostsSync(p) \/ StartRevoke(p) \/ CommandDies(p)
  BY <1>2 DEF StartHostsSync, StartRevoke, CommandDies
<1>4. CASE RevokeRow(p) \/ RevokeBusy(p) \/ RevokeFails(p)
  BY <1>4 DEF RevokeRow, RevokeBusy, RevokeFails
<1>5. CASE PutBackRefused(p) \/ PutBackFails(p)
  BY <1>5 DEF PutBackRefused, PutBackFails
<1>6. CASE ListDevices(p) \/ WriteHosts(p) \/ WriteHostsFails(p)
  BY <1>6 DEF ListDevices, WriteHosts, WriteHostsFails, AfterHosts
<1>7. CASE \/ LookUpDns(p) \/ DeleteDns(p) \/ RedoDns(p) \/ LookUpDnsFails(p)
           \/ DeleteDnsFails(p)
  BY <1>7 DEF LookUpDns, DeleteDns, RedoDns, LookUpDnsFails, DeleteDnsFails
<1> QED BY <1>2, <1>4, <1>5, <1>6, <1>7 DEF AdminStep, AdminFault,
    StripRevoked

(***************************************************************************)
(* Every step of the gateway keeps file and texts well-formed.             *)
(***************************************************************************)
LEMMA ConfigStep ==
    LocalsFit /\ WellFormed(config) /\ TextsSound /\ [Next]_gatewayVars =>
        WellFormed(config)' /\ TextsSound'
<1> SUFFICES ASSUME LocalsFit, WellFormed(config), TextsSound,
                    [Next]_gatewayVars
             PROVE  WellFormed(config)' /\ TextsSound'
  OBVIOUS
<1>1. CASE \/ \E t \in Token, s \in Scope : CreateToken(t, s)
           \/ \E t \in Token : TokenExpires(t)
           \/ UNCHANGED gatewayVars
  BY <1>1 DEF CreateToken, TokenExpires, gatewayVars, peerState, WellFormed,
     TextsSound, TextSound
<1>2. CASE ServerDies \/ Reboot
  BY <1>2 DEF ServerDies, Reboot, peerState, WellFormed, TextsSound,
     TextSound, TextStages
<1>3. ASSUME NEW p \in Process, UNCHANGED config,
             OutsideText(p)
      PROVE  WellFormed(config)' /\ TextsSound'
  BY <1>3 DEF OutsideText, TextsSound, TextSound, WellFormed
<1>4. ASSUME NEW p \in Request, Receive(p) \/ EnrollStep(p) \/ EnrollFault(p)
      PROVE  WellFormed(config)' /\ TextsSound'
  BY <1>3, <1>4, RequestText, TextStep DEF Process
<1>5. ASSUME NEW p \in Admin,
             \/ StartHostsSync(p) \/ StartRevoke(p)
             \/ AdminStep(p) \/ AdminFault(p) \/ CommandDies(p)
      PROVE  WellFormed(config)' /\ TextsSound'
  BY <1>3, <1>5, AdminText, TextStep DEF Process
<1> QED BY <1>1, <1>2, <1>4, <1>5 DEF Next

(***************************************************************************)
(* wg-quick's own rule for the blocks written by hand.                     *)
(***************************************************************************)
ManualKeysDistinct == \A b, c \in ManualBlocks : b # c => b.key # c.key

(***************************************************************************)
(* The configuration file stays well-formed under every interleaving of    *)
(* requests, commands, faults and crashes: the text that ensure_peer and   *)
(* remove_peer write back may be stale, but it was well-formed when it was *)
(* read, so no block is duplicated and no hand-written one is lost. The    *)
(* hand-written blocks are assumed to have different keys.                 *)
(***************************************************************************)
THEOREM ConfigAlwaysWellFormed ==
    ASSUME ManualKeysDistinct PROVE Spec => []ConfigWellFormed
<1>1. Init => WellFormed(config) /\ TextsSound
  BY GatewayConstants, ManualKeysDistinct DEF Init, WellFormed, TextsSound,
     TextSound, TextStages, Unmanaged, ManualKeysDistinct
<1>2. WellFormed(config) => ConfigWellFormed
  BY DEF ConfigWellFormed
<1> QED BY <1>1, <1>2, Initially, LocalStep, SharedStep, ConfigStep, PTL
    DEF Spec
=============================================================================
