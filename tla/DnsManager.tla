----------------------------- MODULE DnsManager -----------------------------
(***************************************************************************)
(* The DNS manager (dns/service.py) and everything that works on the       *)
(* public zone through it: the commands that reconcile, ensure and delete  *)
(* records, revocations, and enrollments.  Each runs in a process or       *)
(* thread of its own and walks a list of jobs, one record after another,   *)
(* over HTTP; nothing but the registry has a lock.  The other effects of   *)
(* enrollment and revocation are those of module Enrollment.               *)
(***************************************************************************)
EXTENDS Naturals, Sequences, FiniteSets, Functions

CONSTANTS
    Device,
    Name,            \* names of the zone
    VpnHostname,
    RegisterHostname,
    Hostname,        \* [Device -> Name or Outside]: hostnames in the registry
    Outside,         \* a hostname that is not in the managed domain
    Process,
    NoProcess,       \* holder of a write lock that is free
    InitialRecord,   \* bound: what a name may have before the gateway came
    MaxFaults,       \* bound: steps that fail
    MaxRepairFaults, \* bound: best-effort restorations that fail
    MaxCrashes       \* bound: process deaths

OperationalNames == {VpnHostname, RegisterHostname}

\* none: no A record; gateway: one A record, the gateway's address and TTL.
Record == {"none", "gateway", "foreign"}

\* DNSSettings.validate, run before a manager is made.
ValidSettings ==
    /\ OperationalNames \subseteq Name
    /\ VpnHostname # RegisterHostname

ASSUME SettingsValid == ValidSettings
\* A hostname is made from the device identifier when its row is inserted.
ASSUME HostnamesDistinct ==
    /\ Outside \notin Name
    /\ Hostname \in [Device -> Name \cup {Outside}]
    /\ \A d, e \in Device : Hostname[d] = Hostname[e] => d = e
ASSUME DevicesFinite == IsFiniteSet(Device)
ASSUME Bounds ==
    /\ InitialRecord \in [Name -> SUBSET Record]
    /\ {MaxFaults, MaxRepairFaults, MaxCrashes} \subseteq Nat
    /\ NoProcess \notin Process

VARIABLES
    status,  \* the committed row of each device
    lock,    \* the enrollment whose write transaction is open
    zone,    \* the A records of each name at the provider
    stage,   \* where each process is
    work,    \* the local variables of each process
    budget   \* the faults still to come

vars == <<status, lock, zone, stage, work, budget>>

Kind == {"sync_dns", "ensure_device_dns", "delete_device_dns",
         "revoke_device", "enroll"}
Job == [name : Name, want : {"gateway", "none"}]
Stage == {"idle", "get", "put", "redo", "unwind", "commit", "done", "failed"}

\* The last three are history: the zone when the work began, whom it has met,
\* and whether each of its restorations succeeded.
Work ==
    [kind    : Kind,
     device  : Device \cup {Outside},
     jobs    : Seq(Job),
     saved   : Seq(Record \cup {"unchanged"}), \* previous, job by job
     before  : [Name -> Record],
     company : {"alone", "agreeing", "disturbed"},
     clean   : BOOLEAN]

NoWork ==
    [kind |-> "sync_dns", device |-> Outside, jobs |-> <<>>, saved |-> <<>>,
     before |-> [n \in Name |-> "none"], company |-> "alone", clean |-> TRUE]

TypeOK ==
    /\ status \in [Device -> {"unknown", "enabled", "revoked"}]
    /\ lock \in Process \cup {NoProcess}
    /\ zone \in [Name -> Record]
    /\ stage \in [Process -> Stage]
    /\ work \in [Process -> Work]
    /\ budget \in [fault : Nat, repair : Nat, crash : Nat]

\* Devices may have enrolled before DNS automation was switched on.
Init ==
    /\ status \in [Device -> {"unknown", "enabled"}]
    /\ lock = NoProcess
    /\ zone \in [Name -> Record]
    /\ \A n \in Name : zone[n] \in InitialRecord[n]
    /\ stage = [p \in Process |-> "idle"]
    /\ work = [p \in Process |-> NoWork]
    /\ budget = [fault |-> MaxFaults, repair |-> MaxRepairFaults,
                 crash |-> MaxCrashes]

-----------------------------------------------------------------------------
At(p, s) == stage[p] = s
Goto(p, s) == stage' = [stage EXCEPT ![p] = s]
Spend(kind) ==
    /\ budget[kind] > 0
    /\ budget' = [budget EXCEPT ![kind] = @ - 1]

Running(p) == stage[p] \in {"get", "put", "redo", "unwind", "commit"}
Restoring(p) == stage[p] \in {"redo", "unwind"}

\* Mutant: the gateway's own names are not refused.
InManagedDomain(d) == Hostname[d] \in Name

ValidDeviceHostname(d) ==
    /\ Hostname[d] \in Name
    /\ Hostname[d] \notin OperationalNames

\* Mutant: every device that is listed gets its record.
EnabledJob(d) == [name |-> Hostname[d], want |-> "gateway"]

DeviceJob(d) ==
    [name |-> Hostname[d],
     want |-> IF status[d] = "enabled" THEN "gateway" ELSE "none"]

Registered == {d \in Device : status[d] # "unknown"}

\* list_devices orders by device_id; here the order may be any.
Listings == Injection(1..Cardinality(Registered), Registered)

SyncJobs(listing) ==
    [i \in 1..(Len(listing) + 2) |->
       IF i = 1 THEN [name |-> VpnHostname, want |-> "gateway"]
       ELSE IF i = 2 THEN [name |-> RegisterHostname, want |-> "gateway"]
       ELSE DeviceJob(listing[i - 2])]

-----------------------------------------------------------------------------
(* History: whom a process meets.  Processes that write what the registry  *)
(* says agree with each other.  A deletion by hand does not, nor does      *)
(* anybody who restores earlier records, nor, with those already at work,  *)
(* a revocation: they may have read the registry before.                   *)

Disturbs(q) ==
    \/ work[q].kind = "delete_device_dns"
    \/ work[q].company = "disturbed"
    \/ Restoring(q)

CompanyOf(p, kind) ==
    LET others == {q \in Process \ {p} : Running(q)}
    IN  IF others = {} THEN "alone"
        ELSE IF \/ kind \in {"revoke_device", "delete_device_dns"}
                \/ \E q \in others : Disturbs(q)
        THEN "disturbed" ELSE "agreeing"

Met(q, kind) ==
    IF \/ kind \in {"revoke_device", "delete_device_dns"}
       \/ work[q].kind = "delete_device_dns"
       \/ work[q].company = "disturbed"
    THEN "disturbed" ELSE "agreeing"

Begin(p, kind, d, jobs) ==
    /\ stage' = [stage EXCEPT ![p] = IF jobs = <<>> THEN "done" ELSE "get"]
    /\ work' = [q \in Process |->
                  IF q = p
                  THEN [kind |-> kind, device |-> d, jobs |-> jobs,
                        saved |-> <<>>, before |-> zone,
                        company |-> CompanyOf(p, kind), clean |-> TRUE]
                  ELSE IF At(q, "idle") THEN work[q]
                  ELSE [work[q] EXCEPT !.company = Met(q, kind)]]
    /\ UNCHANGED <<zone, budget>>

-----------------------------------------------------------------------------
(* The commands and the enrollment service begin.                          *)

\* All hostnames are validated before the first record is touched.
StartSync(p) ==
    /\ At(p, "idle")
    /\ \A d \in Registered : ValidDeviceHostname(d)
    /\ \E listing \in Listings :
          Begin(p, "sync_dns", Outside, SyncJobs(listing))
    /\ UNCHANGED <<status, lock>>

StartEnsure(p, d) ==
    /\ At(p, "idle")
    /\ status[d] = "enabled"
    /\ ValidDeviceHostname(d)
    /\ Begin(p, "ensure_device_dns", d, <<DeviceJob(d)>>)
    /\ UNCHANGED <<status, lock>>

StartDelete(p, d) ==
    /\ At(p, "idle")
    /\ status[d] # "unknown"
    /\ ValidDeviceHostname(d)
    /\ Begin(p, "delete_device_dns", d,
             <<[name |-> Hostname[d], want |-> "none"]>>)
    /\ UNCHANGED <<status, lock>>

\* The row is disabled, then the record is cleaned up; an invalid hostname is
\* a warning.  A row that is already disabled needs no transaction.
StartRevoke(p, d) ==
    /\ At(p, "idle")
    /\ status[d] # "unknown"
    /\ status[d] = "enabled" => lock = NoProcess
    /\ status' = [status EXCEPT ![d] = "revoked"]
    /\ Begin(p, "revoke_device", d,
             IF ValidDeviceHostname(d)
             THEN <<[name |-> Hostname[d], want |-> "none"]>> ELSE <<>>)
    /\ UNCHANGED lock

\* The transaction is open when the hostname is validated; a refusal rolls
\* it back and changes nothing.
StartEnroll(p, d) ==
    /\ At(p, "idle")
    /\ lock = NoProcess
    /\ status[d] # "revoked"
    /\ ValidDeviceHostname(d)
    /\ lock' = p
    /\ Begin(p, "enroll", d, <<[name |-> Hostname[d], want |-> "gateway"]>>)
    /\ UNCHANGED status

-----------------------------------------------------------------------------
(* ensure_record and delete_record: get, change if different, and, if the  *)
(* change fails, put back what was read.                                   *)

Popped(s) == SubSeq(s, 1, Len(s) - 1)
LastSaved(p) == work[p].saved[Len(work[p].saved)]
JobAt(p) == work[p].jobs[Len(work[p].saved) + 1]
JobBegun(p) == work[p].jobs[Len(work[p].saved)]

Save(p, r) == work' = [work EXCEPT ![p].saved = Append(@, r)]

\* Where a process goes once n of its jobs are done.
After(p, n) ==
    IF n < Len(work[p].jobs) THEN "get"
    ELSE IF work[p].kind = "enroll" THEN "commit" ELSE "done"

\* Mutant: any record of the name will do.
GetAny(p) ==
    /\ At(p, "get")
    /\ LET r == zone[JobAt(p).name]
       IN  IF (r = "none") = (JobAt(p).want = "none")
           THEN /\ Save(p, "unchanged")
                /\ Goto(p, After(p, Len(work[p].saved) + 1))
           ELSE /\ Save(p, r)
                /\ Goto(p, "put")
    /\ UNCHANGED <<status, lock, zone, budget>>

Get(p) ==
    /\ At(p, "get")
    /\ LET r == zone[JobAt(p).name]
       IN  IF r = JobAt(p).want
           THEN /\ Save(p, "unchanged")
                /\ Goto(p, After(p, Len(work[p].saved) + 1))
           ELSE /\ Save(p, r)
                /\ Goto(p, "put")
    /\ UNCHANGED <<status, lock, zone, budget>>

Put(p) ==
    /\ At(p, "put")
    /\ zone' = [zone EXCEPT ![JobBegun(p).name] = JobBegun(p).want]
    /\ Goto(p, After(p, Len(work[p].saved)))
    /\ UNCHANGED <<status, lock, work, budget>>

\* The exception leaves the manager: an enrollment's transaction is rolled
\* back, and a reconciliation undoes the jobs it has done.
Raise(p, saved, clean) ==
    /\ Goto(p, IF saved # <<>> THEN "unwind" ELSE "failed")
    /\ lock' = IF lock = p THEN NoProcess ELSE lock
    /\ work' = [q \in Process |->
                  IF q = p
                  THEN [work[p] EXCEPT !.saved = saved, !.clean = clean]
                  ELSE IF At(q, "idle") THEN work[q]
                  ELSE [work[q] EXCEPT !.company = "disturbed"]]
    /\ UNCHANGED status

GetFails(p) ==
    /\ At(p, "get")
    /\ Spend("fault")
    /\ Raise(p, work[p].saved, work[p].clean)
    /\ UNCHANGED zone

\* The provider may have made the change before the request failed.
PutFails(p) ==
    /\ At(p, "put")
    /\ Spend("fault")
    /\ \/ zone' = [zone EXCEPT ![JobBegun(p).name] = JobBegun(p).want]
       \/ UNCHANGED zone
    /\ Goto(p, "redo")
    /\ UNCHANGED <<status, lock, work>>

\* Mutant: the record that was read is not put back.
RaiseAtOnce(p) ==
    /\ At(p, "redo")
    /\ Raise(p, Popped(work[p].saved), work[p].clean)
    /\ UNCHANGED <<zone, budget>>

Redo(p) ==
    /\ At(p, "redo")
    /\ zone' = [zone EXCEPT ![JobBegun(p).name] = LastSaved(p)]
    /\ Raise(p, Popped(work[p].saved), work[p].clean)
    /\ UNCHANGED budget

RedoFails(p) ==
    /\ At(p, "redo")
    /\ Spend("repair")
    /\ Raise(p, Popped(work[p].saved), FALSE)
    /\ UNCHANGED zone

-----------------------------------------------------------------------------
(* sync_devices undoes its mutations in reverse; a failed enrollment       *)
(* restores its one.                                                       *)

Pop(p, clean) ==
    /\ Goto(p, IF Len(work[p].saved) > 1 THEN "unwind" ELSE "failed")
    /\ work' = [work EXCEPT ![p].saved = Popped(@), ![p].clean = clean]
    /\ UNCHANGED <<status, lock>>

\* Mutant: a mutation that changed nothing is restored like the others.
UnwindAll(p) ==
    /\ At(p, "unwind")
    /\ zone' = [zone EXCEPT ![JobBegun(p).name] = LastSaved(p)]
    /\ Pop(p, work[p].clean)
    /\ UNCHANGED budget

Unwind(p) ==
    /\ At(p, "unwind")
    /\ zone' = [zone EXCEPT ![JobBegun(p).name] =
                  IF LastSaved(p) = "unchanged" THEN @ ELSE LastSaved(p)]
    /\ Pop(p, work[p].clean)
    /\ UNCHANGED budget

UnwindFails(p) ==
    /\ At(p, "unwind")
    /\ LastSaved(p) # "unchanged"
    /\ Spend("repair")
    /\ Pop(p, FALSE)
    /\ UNCHANGED zone

-----------------------------------------------------------------------------
Commit(p) ==
    /\ At(p, "commit")
    /\ status' = [status EXCEPT ![work[p].device] = "enabled"]
    /\ lock' = NoProcess
    /\ Goto(p, "done")
    /\ UNCHANGED <<zone, work, budget>>

\* The token cannot be consumed, or the commit fails.
CommitFails(p) ==
    /\ At(p, "commit")
    /\ Spend("fault")
    /\ Raise(p, work[p].saved, work[p].clean)
    /\ UNCHANGED zone

Return(p) ==
    /\ stage[p] \in {"done", "failed"}
    /\ Goto(p, "idle")
    /\ work' = [work EXCEPT ![p] = NoWork]
    /\ UNCHANGED <<status, lock, zone, budget>>

Dies(p) ==
    /\ Running(p)
    /\ Spend("crash")
    /\ Goto(p, "idle")
    /\ work' = [work EXCEPT ![p] = NoWork]
    /\ lock' = IF lock = p THEN NoProcess ELSE lock
    /\ UNCHANGED <<status, zone>>

-----------------------------------------------------------------------------
Next ==
    \E p \in Process :
       \/ StartSync(p)
       \/ \E d \in Device :
             \/ StartEnsure(p, d) \/ StartDelete(p, d)
             \/ StartRevoke(p, d) \/ StartEnroll(p, d)
       \/ Get(p) \/ Put(p) \/ Redo(p) \/ Unwind(p)
       \/ Commit(p) \/ Return(p)
       \/ GetFails(p) \/ PutFails(p) \/ RedoFails(p) \/ UnwindFails(p)
       \/ CommitFails(p)
       \/ Dies(p)

Spec == Init /\ [][Next]_vars

-----------------------------------------------------------------------------
(***************************************************************************)
(* "gway wire server dns sync reconciles those names plus all registry-    *)
(* owned device records": when a reconciliation ends well, among others    *)
(* that write what the registry says, every name it is about is right,     *)
(* whatever faults, deaths and strangers had left in the zone before.      *)
(***************************************************************************)
Reconciled ==
    /\ \A n \in OperationalNames : zone[n] = "gateway"
    /\ \A d \in Registered :
          zone[Hostname[d]] =
             IF status[d] = "enabled" THEN "gateway" ELSE "none"

SyncReconciles ==
    \A p \in Process :
       At(p, "done") /\ work[p].kind = "sync_dns"
          /\ work[p].company # "disturbed" => Reconciled

(***************************************************************************)
(* The other operations keep their word in the same company: the name of   *)
(* an enrolled device leads to the gateway when the enrollment is done,    *)
(* that of a revoked device is gone when the revocation is.                *)
(***************************************************************************)
DoneMeansDone ==
    \A p \in Process :
       At(p, "done") /\ work[p].company # "disturbed" =>
          \A i \in 1..Len(work[p].jobs) :
             zone[work[p].jobs[i].name] = work[p].jobs[i].want

(***************************************************************************)
(* "Reconcile [...] atomically": an operation that ran alone and failed,   *)
(* and none of whose restorations failed, leaves the zone as it was when   *)
(* it began.                                                               *)
(***************************************************************************)
FailureLeavesZone ==
    \A p \in Process :
       At(p, "failed") /\ work[p].company = "alone" /\ work[p].clean =>
          zone = work[p].before

(***************************************************************************)
(* The gateway's own names are changed by nothing but a reconciliation: no *)
(* enrollment, revocation or deletion of a device that bears one of them   *)
(* reaches the record.                                                     *)
(***************************************************************************)
StepOf(p) == stage'[p] # stage[p] \/ work'[p].saved # work[p].saved

OperationalNamesKept ==
    [][\A n \in OperationalNames :
          zone'[n] # zone[n] =>
             \E p \in Process : StepOf(p) /\ work[p].kind = "sync_dns"]_vars
=============================================================================
