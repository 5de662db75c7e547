-------------------------- MODULE DnsManagerProofs --------------------------
(***************************************************************************)
(* Proofs about DnsManager, for every finite set of devices and every set  *)
(* of names and processes.                                                 *)
(***************************************************************************)
EXTENDS DnsManager, FiniteSetTheorems, SequenceTheorems, TLAPS

(***************************************************************************)
(* What the locals of a process are in stage s. TypeOK is not inductive    *)
(* without it: there must be a job to go on with, and what is put back     *)
(* must be a record.                                                       *)
(***************************************************************************)
WorkFits(s, w) ==
    /\ w \in Work
    /\ Len(w.saved) <= Len(w.jobs)
    /\ s = "get" => Len(w.saved) < Len(w.jobs)
    /\ s \in {"put", "redo", "unwind"} => w.saved # <<>>
    /\ s \in {"put", "redo"} => w.saved[Len(w.saved)] \in Record
    /\ w.kind = "enroll" => w.device \in Device
    /\ s = "commit" => w.kind = "enroll"
    /\ s = "failed" => w.saved = <<>>
    /\ w.kind # "sync_dns" =>
          \A i \in 1..Len(w.jobs) : w.jobs[i].name \notin OperationalNames

LocalsFit ==
    /\ stage \in [Process -> Stage]
    /\ work \in [Process -> Work]
    /\ \A p \in Process : WorkFits(stage[p], work[p])

SharedTypeOK ==
    /\ status \in [Device -> {"unknown", "enabled", "revoked"}]
    /\ lock \in Process \cup {NoProcess}
    /\ zone \in [Name -> Record]
    /\ budget \in [fault : Nat, repair : Nat, crash : Nat]

Inv == LocalsFit /\ SharedTypeOK

(***************************************************************************)
(* A process that moves with locals that fit, while those of the others    *)
(* change in the company they were in and nothing else.                    *)
(***************************************************************************)
SameButCompany(v, w) ==
    /\ v.kind = w.kind /\ v.device = w.device /\ v.jobs = w.jobs
    /\ v.saved = w.saved /\ v.before = w.before /\ v.clean = w.clean
    /\ v \in Work

(***************************************************************************)
(* A process moves to another stage with the locals this stage needs, while*)
(* the others may learn that they have company.                            *)
(***************************************************************************)
LEMMA Moves ==
    ASSUME LocalsFit, NEW p \in Process, NEW s \in Stage,
           stage' = [stage EXCEPT ![p] = s],
           work' \in [Process -> Work],
           WorkFits(s, work'[p]),
           \A q \in Process \ {p} : SameButCompany(work'[q], work[q])
    PROVE  LocalsFit'
<1>1. \A q \in Process \ {p} : WorkFits(stage'[q], work'[q])
  BY DEF LocalsFit, WorkFits, SameButCompany
<1>2. stage' \in [Process -> Stage] /\ stage'[p] = s
  BY DEF LocalsFit
<1> QED BY <1>1, <1>2 DEF LocalsFit

(***************************************************************************)
(* The same when the locals of the others do not change at all.            *)
(***************************************************************************)
LEMMA MovesAlone ==
    ASSUME LocalsFit, NEW p \in Process, NEW s \in Stage, NEW w \in Work,
           stage' = [stage EXCEPT ![p] = s],
           work' = [work EXCEPT ![p] = w],
           WorkFits(s, w)
    PROVE  LocalsFit'
<1>1. \A q \in Process \ {p} : SameButCompany(work'[q], work[q])
  BY DEF LocalsFit, SameButCompany
<1>2. work' \in [Process -> Work] /\ work'[p] = w
  BY DEF LocalsFit
<1> QED BY <1>1, <1>2, Moves

-----------------------------------------------------------------------------
(***************************************************************************)
(* Sequences: the last element is taken off, another is added.             *)
(***************************************************************************)
LEMMA PoppedSeq ==
    ASSUME NEW S, NEW s \in Seq(S), s # <<>>
    PROVE  /\ Popped(s) \in Seq(S)
           /\ Len(Popped(s)) = Len(s) - 1
           /\ Len(s) \in Nat \ {0}
           /\ \A i \in 1..Len(s) - 1 : Popped(s)[i] = s[i]
           /\ Popped(s) # s
<1>1. Len(s) \in Nat \ {0}
  BY EmptySeq
<1>2. \A i \in 1..Len(s) - 1 : s[i] \in S
  BY <1>1
<1>3. /\ SubSeq(s, 1, Len(s) - 1) \in Seq(S)
      /\ Len(SubSeq(s, 1, Len(s) - 1)) = Len(s) - 1
      /\ \A i \in 1..Len(s) - 1 : SubSeq(s, 1, Len(s) - 1)[i] = s[i]
  <2> DEFINE n == Len(s) - 1
  <2>1. n \in Int /\ 1 \in Int
    BY <1>1
  <2>2. /\ SubSeq(s, 1, n) \in Seq(S)
        /\ Len(SubSeq(s, 1, n)) = IF 1 <= n THEN n - 1 + 1 ELSE 0
        /\ \A i \in 1..n - 1 + 1 : SubSeq(s, 1, n)[i] = s[1 + i - 1]
    BY <1>2, <2>1, SubSeqProperties
  <2> HIDE DEF n
  <2>3. n \in Nat
    BY <1>1 DEF n
  <2>4. SubSeq(s, 1, n) \in Seq(S) /\ Len(SubSeq(s, 1, n)) = n
    BY <2>2, <2>3
  <2>5. \A i \in 1..n : SubSeq(s, 1, n)[i] = s[i]
    BY <2>2, <2>3
  <2> QED BY <2>4, <2>5 DEF n
<1> QED BY <1>1, <1>3 DEF Popped

(***************************************************************************)
(* What appending does to a sequence of any set.                           *)
(***************************************************************************)
LEMMA Appends ==
    ASSUME NEW S, NEW s \in Seq(S), NEW e \in S
    PROVE  /\ Append(s, e) \in Seq(S)
           /\ Len(Append(s, e)) = Len(s) + 1
           /\ Append(s, e)[Len(s) + 1] = e
           /\ \A i \in 1..Len(s) : Append(s, e)[i] = s[i]
OBVIOUS

(***************************************************************************)
(* The jobs of a reconciliation are about names of the zone.               *)
(***************************************************************************)
LEMMA SyncJobsTyped ==
    ASSUME SharedTypeOK, \A d \in Registered : ValidDeviceHostname(d),
           NEW listing \in Listings
    PROVE  /\ SyncJobs(listing) \in Seq(Job)
           /\ SyncJobs(listing) # <<>>
<1>1. IsFiniteSet(Registered)
  BY DevicesFinite, FS_Subset DEF Registered
<1>2. Cardinality(Registered) \in Nat
  BY <1>1, FS_CardinalityType
<1>3. listing \in Seq(Registered) 
  BY <1>2 DEF Listings, Injection
<1>4. \A d \in Registered : DeviceJob(d) \in Job
  BY DEF DeviceJob, ValidDeviceHostname, Job
<1>5. {VpnHostname, RegisterHostname} \subseteq Name
  BY SettingsValid DEF ValidSettings, OperationalNames
<1>6. Len(listing) \in Nat
  BY <1>3
<1>7. \A i \in 1..(Len(listing) + 2) : SyncJobs(listing)[i] \in Job
  <2> TAKE i \in 1..(Len(listing) + 2)
  <2>1. CASE i \in {1, 2}
    BY <1>5, <2>1 DEF SyncJobs, Job
  <2>2. CASE i \notin {1, 2}
    <3>1. i - 2 \in 1..Len(listing)
      BY <1>6, <2>2
    <3>2. listing[i - 2] \in Registered
      BY <1>3, <3>1
    <3> QED BY <1>4, <2>2, <3>2 DEF SyncJobs
  <2> QED BY <2>1, <2>2
<1>8. DOMAIN SyncJobs(listing) = 1..(Len(listing) + 2)
  BY DEF SyncJobs
<1>9. SyncJobs(listing)
         = [i \in 1..(Len(listing) + 2) |-> SyncJobs(listing)[i]]
  BY DEF SyncJobs
<1>10. SyncJobs(listing) \in Seq(Job)
  BY <1>6, <1>7, <1>9
<1> QED BY <1>6, <1>8, <1>10

-----------------------------------------------------------------------------
(***************************************************************************)
(* The beginning of each operation gives the process locals that fit.      *)
(***************************************************************************)
LEMMA Begins ==
    ASSUME Inv, NEW p \in Process, NEW kind \in Kind,
           NEW d \in Device \cup {Outside}, NEW jobs \in Seq(Job),
           kind = "enroll" => d \in Device,
           kind # "sync_dns" =>
              \A i \in 1..Len(jobs) : jobs[i].name \notin OperationalNames,
           Begin(p, kind, d, jobs)
    PROVE  LocalsFit'
<1> DEFINE s == IF jobs = <<>> THEN "done" ELSE "get"
           w == [kind |-> kind, device |-> d, jobs |-> jobs,
                 saved |-> <<>>, before |-> zone,
                 company |-> CompanyOf(p, kind), clean |-> TRUE]
<1>1. s \in Stage /\ stage' = [stage EXCEPT ![p] = s]
  BY DEF Begin, Stage
<1>2. w \in Work
  <2>1. CompanyOf(p, kind) \in {"alone", "agreeing", "disturbed"}
    BY DEF CompanyOf
  <2>2. <<>> \in Seq(Record \cup {"unchanged"})
    BY EmptySeq
  <2> QED BY <2>1, <2>2 DEF Work, Inv, SharedTypeOK
<1>3. \A q \in Process :
         work'[q] = IF q = p THEN w
                    ELSE IF At(q, "idle") THEN work[q]
                    ELSE [work[q] EXCEPT !.company = Met(q, kind)]
  BY DEF Begin
<1>4. \A q \in Process : Met(q, kind) \in {"disturbed", "agreeing"}
  BY DEF Met
<1>5. \A q \in Process \ {p} : SameButCompany(work'[q], work[q])
  <2> TAKE q \in Process \ {p}
  <2>1. work[q] \in Work
    BY DEF Inv, LocalsFit
  <2>2. CASE At(q, "idle")
    BY <1>3, <2>1, <2>2 DEF SameButCompany
  <2>3. CASE ~At(q, "idle")
    <3>1. work'[q] = [work[q] EXCEPT !.company = Met(q, kind)]
      BY <1>3, <2>3
    <3> QED BY <1>4, <2>1, <3>1 DEF SameButCompany, Work
  <2> QED BY <2>2, <2>3
<1>6. work' \in [Process -> Work]
  <2>1. \A q \in Process : work'[q] \in Work
    BY <1>2, <1>3, <1>5 DEF SameButCompany
  <2> QED BY <2>1 DEF Begin
<1>7. WorkFits(s, work'[p])
  <2>1. Len(<<>>) = 0 /\ Len(jobs) \in Nat /\ (jobs # <<>> => Len(jobs) > 0)
    BY EmptySeq
  <2>2. work'[p] = w
    BY <1>3
  <2>3. s \in {"done", "get"} /\ (s = "get" => jobs # <<>>)
    OBVIOUS
  <2> HIDE DEF s
  <2> QED BY <1>2, <2>1, <2>2, <2>3 DEF WorkFits
<1> QED BY <1>1, <1>5, <1>6, <1>7, Moves DEF Inv

(***************************************************************************)
(* Every command on one device begins with at most one job, on a name that *)
(* is not an operational one.                                              *)
(***************************************************************************)
LEMMA DeviceBegins ==
    ASSUME Inv, NEW p \in Process, NEW d \in Device,
           \/ StartEnsure(p, d) \/ StartDelete(p, d)
           \/ StartRevoke(p, d) \/ StartEnroll(p, d)
    PROVE  LocalsFit'
<1> DEFINE one(want) == <<[name |-> Hostname[d], want |-> want]>>
<1>1. ASSUME NEW want \in {"gateway", "none"}, ValidDeviceHostname(d)
      PROVE  /\ one(want) \in Seq(Job) /\ one(want) # <<>>
             /\ \A i \in 1..Len(one(want)) :
                   one(want)[i].name \notin OperationalNames
  BY <1>1 DEF Job, ValidDeviceHostname
<1> HIDE DEF one
<1>2. CASE StartEnsure(p, d)
  <2>1. DeviceJob(d) = [name |-> Hostname[d], want |-> "gateway"]
    BY <1>2 DEF StartEnsure, DeviceJob
  <2>2. Begin(p, "ensure_device_dns", d, one("gateway"))
    BY <1>2, <2>1 DEF StartEnsure, one
  <2> QED BY <1>1, <1>2, <2>2, Begins DEF StartEnsure, Kind
<1>3. CASE StartDelete(p, d)
  <2>1. Begin(p, "delete_device_dns", d, one("none"))
    BY <1>3 DEF StartDelete, one
  <2> QED BY <1>1, <1>3, <2>1, Begins DEF StartDelete, Kind
<1>4. CASE StartRevoke(p, d)
  <2>1. CASE ValidDeviceHostname(d)
    <3>1. Begin(p, "revoke_device", d, one("none"))
      BY <1>4, <2>1 DEF StartRevoke, one
    <3> QED BY <1>1, <2>1, <3>1, Begins DEF Kind
  <2>2. CASE ~ValidDeviceHostname(d)
    <3>1. Begin(p, "revoke_device", d, <<>>)
      BY <1>4, <2>2 DEF StartRevoke
    <3>2. <<>> \in Seq(Job) /\ \A i \in 1..Len(<<>>) : FALSE
      BY EmptySeq
    <3>3. "revoke_device" \in Kind
      BY DEF Kind
    <3> QED BY <3>1, <3>2, <3>3, Begins
  <2> QED BY <2>1, <2>2
<1>5. CASE StartEnroll(p, d)
  <2>1. Begin(p, "enroll", d, one("gateway"))
    BY <1>5 DEF StartEnroll, one
  <2> QED BY <1>1, <1>5, <2>1, Begins DEF StartEnroll, Kind
<1> QED BY <1>2, <1>3, <1>4, <1>5

(***************************************************************************)
(* sync_devices begins with the jobs of the devices it listed and of the   *)
(* operational names.                                                      *)
(***************************************************************************)
LEMMA SyncBegins ==
    ASSUME Inv, NEW p \in Process, StartSync(p)
    PROVE  LocalsFit'
<1>1. PICK listing \in Listings :
         Begin(p, "sync_dns", Outside, SyncJobs(listing))
  BY DEF StartSync
<1>2. SyncJobs(listing) \in Seq(Job)
  BY SyncJobsTyped DEF StartSync, Inv
<1> QED BY <1>1, <1>2, Begins DEF Kind

-----------------------------------------------------------------------------
(***************************************************************************)
(* A record is read, or changed.                                           *)
(***************************************************************************)
LEMMA GetFits ==
    ASSUME Inv, NEW p \in Process, Get(p)
    PROVE  LocalsFit'
<1> DEFINE v == work[p]
           r == zone[JobAt(p).name]
           e == IF r = JobAt(p).want THEN "unchanged" ELSE r
           w == [v EXCEPT !.saved = Append(@, e)]
           s == IF r = JobAt(p).want THEN After(p, Len(v.saved) + 1) ELSE "put"
<1>1. /\ v \in Work /\ WorkFits("get", v) 
      /\ v.saved \in Seq(Record \cup {"unchanged"}) /\ v.jobs \in Seq(Job)
      /\ Len(v.saved) \in Nat /\ Len(v.jobs) \in Nat
      /\ Len(v.saved) < Len(v.jobs)
  BY DEF Get, At, Inv, LocalsFit, WorkFits, Work
<1>2. JobAt(p) \in Job
  BY <1>1 DEF JobAt
<1>3. r \in Record
  BY <1>2 DEF Job, Inv, SharedTypeOK
<1>4. e \in Record \cup {"unchanged"}
  BY <1>3
<1>5. stage' = [stage EXCEPT ![p] = s] /\ work' = [work EXCEPT ![p] = w]
  BY DEF Get, Goto, Save
<1>6. /\ Append(v.saved, e) \in Seq(Record \cup {"unchanged"})
      /\ Len(Append(v.saved, e)) = Len(v.saved) + 1
      /\ Append(v.saved, e)[Len(v.saved) + 1] = e
      /\ Append(v.saved, e) # <<>>
  BY <1>1, <1>4, Appends
<1>7. w \in Work /\ w.saved = Append(v.saved, e) /\ w.jobs = v.jobs
         /\ w.kind = v.kind /\ w.device = v.device
  BY <1>1, <1>6 DEF Work
<1>8. /\ s \in {"get", "commit", "done", "put"} 
      /\ s = "get" => Len(v.saved) + 1 < Len(v.jobs)
      /\ s = "commit" => v.kind = "enroll"
      /\ s = "put" => e = r
  BY DEF After
<1> HIDE DEF v, r, e, w, s
<1>9. WorkFits(s, w)
  BY <1>1, <1>3, <1>6, <1>7, <1>8 DEF WorkFits
<1>10. s \in Stage
  BY <1>8 DEF Stage
<1> QED BY <1>5, <1>7, <1>9, <1>10, MovesAlone DEF Inv

(***************************************************************************)
(* A record was written, or the write failed: the job that has begun is    *)
(* still the last one.                                                     *)
(***************************************************************************)
LEMMA PutFits ==
    ASSUME Inv, NEW p \in Process, At(p, "put"), UNCHANGED work,
           NEW s \in {"redo", After(p, Len(work[p].saved))}, Goto(p, s)
    PROVE  LocalsFit'
<1>1. work[p] \in Work /\ WorkFits("put", work[p])
  BY DEF At, Inv, LocalsFit
<1>2. Len(work[p].saved) <= Len(work[p].jobs)
  BY <1>1 DEF WorkFits
<1>3. s \in Stage /\ WorkFits(s, work[p])
  BY <1>1, <1>2 DEF WorkFits, After, Stage
<1>4. work' = [work EXCEPT ![p] = work[p]]
  BY DEF Inv, LocalsFit
<1> QED BY <1>1, <1>3, <1>4, MovesAlone DEF Goto, Inv

(***************************************************************************)
(* An exception leaves the manager with what is still to be undone.        *)
(***************************************************************************)
LEMMA RaiseFits ==
    ASSUME Inv, NEW p \in Process,
           NEW saved \in Seq(Record \cup {"unchanged"}), NEW clean \in BOOLEAN,
           Len(saved) <= Len(work[p].jobs),
           Raise(p, saved, clean)
    PROVE  LocalsFit'
<1> DEFINE s == IF saved # <<>> THEN "unwind" ELSE "failed"
           w == [work[p] EXCEPT !.saved = saved, !.clean = clean]
<1>1. work[p] \in Work /\ WorkFits(stage[p], work[p])
  BY DEF Inv, LocalsFit
<1>2. w \in Work /\ w.saved = saved /\ w.jobs = work[p].jobs
         /\ w.kind = work[p].kind /\ w.device = work[p].device
  BY <1>1 DEF Work
<1>3. s \in Stage /\ stage' = [stage EXCEPT ![p] = s]
  BY DEF Raise, Goto, Stage
<1>4. \A q \in Process :
         work'[q] = IF q = p THEN w ELSE IF At(q, "idle") THEN work[q]
                    ELSE [work[q] EXCEPT !.company = "disturbed"]
  BY DEF Raise
<1>5. \A q \in Process \ {p} : SameButCompany(work'[q], work[q])
  <2> TAKE q \in Process \ {p}
  <2>1. work[q] \in Work
    BY DEF Inv, LocalsFit
  <2>2. CASE At(q, "idle")
    BY <1>4, <2>1, <2>2 DEF SameButCompany
  <2>3. CASE ~At(q, "idle")
    <3>1. work'[q] = [work[q] EXCEPT !.company = "disturbed"]
      BY <1>4, <2>3
    <3> QED BY <2>1, <3>1 DEF SameButCompany, Work
  <2> QED BY <2>2, <2>3
<1>6. work' \in [Process -> Work]
  <2>1. \A q \in Process : work'[q] \in Work
    BY <1>2, <1>4, <1>5 DEF SameButCompany
  <2> QED BY <2>1 DEF Raise
<1>7. WorkFits(s, w)
  BY <1>1, <1>2 DEF WorkFits
<1>8. work'[p] = w
  BY <1>4
<1> HIDE DEF s, w
<1> QED BY <1>3, <1>5, <1>6, <1>7, <1>8, Moves DEF Inv

(***************************************************************************)
(* Undoing one job leaves one entry less to undo.                          *)
(***************************************************************************)
LEMMA PopFits ==
    ASSUME Inv, NEW p \in Process, NEW clean \in BOOLEAN,
           At(p, "unwind"), Pop(p, clean)
    PROVE  LocalsFit'
<1> DEFINE v == work[p]
           w == [v EXCEPT !.saved = Popped(@), !.clean = clean]
           s == IF Len(v.saved) > 1 THEN "unwind" ELSE "failed"
<1>1. v \in Work /\ WorkFits("unwind", v)
  BY DEF At, Inv, LocalsFit
<1>2. /\ v.saved \in Seq(Record \cup {"unchanged"}) /\ v.saved # <<>>
      /\ Len(v.saved) <= Len(v.jobs) /\ Len(v.jobs) \in Nat
  BY <1>1 DEF WorkFits, Work
<1>3. /\ Popped(v.saved) \in Seq(Record \cup {"unchanged"})
      /\ Len(Popped(v.saved)) = Len(v.saved) - 1
      /\ Len(v.saved) \in Nat \ {0}
  BY <1>2, PoppedSeq
<1>4. w \in Work /\ w.saved = Popped(v.saved) /\ w.jobs = v.jobs
         /\ w.kind = v.kind /\ w.device = v.device
  BY <1>1, <1>3 DEF Work
<1>5. s \in Stage /\ stage' = [stage EXCEPT ![p] = s]
         /\ work' = [work EXCEPT ![p] = w]
  BY DEF Pop, Goto, Stage
<1>6. /\ s = "unwind" => Popped(v.saved) # <<>>
      /\ s # "unwind" => Popped(v.saved) = <<>>
  BY <1>3, EmptySeq
<1> HIDE DEF v, w
<1>7. WorkFits(s, w)
  BY <1>1, <1>2, <1>3, <1>4, <1>6 DEF WorkFits
<1> QED BY <1>4, <1>5, <1>7, MovesAlone DEF Inv

-----------------------------------------------------------------------------
(***************************************************************************)
(* What a process that has changed a record, or restores one, has at hand. *)
(***************************************************************************)
LEMMA Begun ==
    ASSUME Inv, NEW p \in Process, stage[p] \in {"put", "redo", "unwind"}
    PROVE  /\ work[p].saved \in Seq(Record \cup {"unchanged"})
           /\ work[p].jobs \in Seq(Job)
           /\ Len(work[p].saved) \in 1..Len(work[p].jobs)
           /\ JobBegun(p) \in Job
           /\ LastSaved(p) \in Record \cup {"unchanged"}
           /\ stage[p] # "unwind" => LastSaved(p) \in Record
           /\ Popped(work[p].saved) \in Seq(Record \cup {"unchanged"})
           /\ Len(Popped(work[p].saved)) = Len(work[p].saved) - 1
<1>1. work[p] \in Work /\ WorkFits(stage[p], work[p])
  BY DEF Inv, LocalsFit
<1>2. /\ work[p].saved \in Seq(Record \cup {"unchanged"})
      /\ work[p].jobs \in Seq(Job) /\ work[p].saved # <<>>
      /\ Len(work[p].saved) <= Len(work[p].jobs)
      /\ stage[p] # "unwind" => LastSaved(p) \in Record
  BY <1>1 DEF WorkFits, Work, LastSaved
<1>3. /\ Len(work[p].saved) \in Nat \ {0}
      /\ Popped(work[p].saved) \in Seq(Record \cup {"unchanged"})
      /\ Len(Popped(work[p].saved)) = Len(work[p].saved) - 1
  BY <1>2, PoppedSeq
<1> QED BY <1>2, <1>3 DEF JobBegun, LastSaved

(***************************************************************************)
(* Every step keeps the locals of the processes fit and the shared state   *)
(* well-typed.                                                             *)
(***************************************************************************)
LEMMA InvStep == Inv /\ [Next]_vars => Inv'
<1> SUFFICES ASSUME Inv, [Next]_vars PROVE Inv'
  OBVIOUS
<1>1. ASSUME NEW p \in Process, StartSync(p) PROVE Inv'
  <2>1. SharedTypeOK'
    BY <1>1 DEF StartSync, Begin, Inv, SharedTypeOK
  <2> QED BY <1>1, <2>1, SyncBegins DEF Inv
<1>2. ASSUME NEW p \in Process, NEW d \in Device,
             \/ StartEnsure(p, d) \/ StartDelete(p, d)
             \/ StartRevoke(p, d) \/ StartEnroll(p, d)
      PROVE  Inv'
  <2>1. SharedTypeOK'
    BY <1>2 DEF StartEnsure, StartDelete, StartRevoke, StartEnroll, Begin,
       Inv, SharedTypeOK
  <2> QED BY <1>2, <2>1, DeviceBegins DEF Inv
<1>3. ASSUME NEW p \in Process, Get(p) PROVE Inv'
  <2>1. SharedTypeOK'
    BY <1>3 DEF Get, Inv, SharedTypeOK
  <2> QED BY <1>3, <2>1, GetFits DEF Inv
<1>4. ASSUME NEW p \in Process, Put(p) PROVE Inv'
  <2>1. JobBegun(p) \in Job
    BY <1>4, Begun DEF Put, At
  <2>2. SharedTypeOK'
    BY <1>4, <2>1 DEF Put, Inv, SharedTypeOK, Job, Record
  <2>3. LocalsFit'
    BY <1>4, PutFits DEF Put
  <2> QED BY <2>2, <2>3 DEF Inv
<1>5. ASSUME NEW p \in Process, PutFails(p) PROVE Inv'
  <2>1. JobBegun(p) \in Job
    BY <1>5, Begun DEF PutFails, At
  <2>2. SharedTypeOK'
    BY <1>5, <2>1 DEF PutFails, Spend, Inv, SharedTypeOK, Job, Record
  <2>3. LocalsFit'
    BY <1>5, PutFits DEF PutFails
  <2> QED BY <2>2, <2>3 DEF Inv
<1>6. ASSUME NEW p \in Process, GetFails(p) \/ CommitFails(p) PROVE Inv'
  <2>1. /\ work[p].saved \in Seq(Record \cup {"unchanged"})
        /\ Len(work[p].saved) <= Len(work[p].jobs)
        /\ work[p].clean \in BOOLEAN
    BY DEF Inv, LocalsFit, WorkFits, Work
  <2>2. Raise(p, work[p].saved, work[p].clean)
    BY <1>6 DEF GetFails, CommitFails
  <2>3. SharedTypeOK'
    BY <1>6, <2>2 DEF GetFails, CommitFails, Spend, Raise, Inv, SharedTypeOK
  <2> QED BY <2>1, <2>2, <2>3, RaiseFits DEF Inv
<1>7. ASSUME NEW p \in Process, Redo(p) \/ RedoFails(p) PROVE Inv'
  <2>1. At(p, "redo")
    BY <1>7 DEF Redo, RedoFails
  <2>2. /\ Popped(work[p].saved) \in Seq(Record \cup {"unchanged"})
        /\ Len(Popped(work[p].saved)) <= Len(work[p].jobs)
        /\ JobBegun(p) \in Job /\ LastSaved(p) \in Record
    BY <2>1, Begun DEF At
  <2>3. work[p].clean \in BOOLEAN
    BY DEF Inv, LocalsFit, Work
  <2>4. PICK clean \in BOOLEAN : Raise(p, Popped(work[p].saved), clean)
    BY <1>7, <2>3 DEF Redo, RedoFails
  <2>5. SharedTypeOK'
    BY <1>7, <2>2, <2>4 DEF Redo, RedoFails, Spend, Raise, Inv, SharedTypeOK,
       Job
  <2> QED BY <2>2, <2>4, <2>5, RaiseFits DEF Inv
<1>8. ASSUME NEW p \in Process, Unwind(p) \/ UnwindFails(p) PROVE Inv'
  <2>1. At(p, "unwind")
    BY <1>8 DEF Unwind, UnwindFails
  <2>2. JobBegun(p) \in Job /\ LastSaved(p) \in Record \cup {"unchanged"}
    BY <2>1, Begun DEF At
  <2>3. work[p].clean \in BOOLEAN
    BY DEF Inv, LocalsFit, Work
  <2>4. PICK clean \in BOOLEAN : Pop(p, clean)
    BY <1>8, <2>3 DEF Unwind, UnwindFails
  <2>5. SharedTypeOK'
    BY <1>8, <2>2, <2>4 DEF Unwind, UnwindFails, Spend, Pop, Inv,
       SharedTypeOK, Job
  <2> QED BY <2>1, <2>4, <2>5, PopFits DEF Inv
<1>9. ASSUME NEW p \in Process, Commit(p) PROVE Inv'
  <2>1. work[p].device \in Device /\ WorkFits("commit", work[p])
    BY <1>9 DEF Commit, At, Inv, LocalsFit, WorkFits
  <2>2. SharedTypeOK'
    BY <1>9, <2>1 DEF Commit, Inv, SharedTypeOK
  <2>3. WorkFits("done", work[p])
    BY <2>1 DEF WorkFits
  <2>4. work[p] \in Work /\ work' = [work EXCEPT ![p] = work[p]]
    BY <1>9 DEF Commit, Inv, LocalsFit
  <2>5. LocalsFit'
    BY <1>9, <2>3, <2>4, MovesAlone DEF Commit, Goto, Stage, Inv
  <2> QED BY <2>2, <2>5 DEF Inv
<1>10. ASSUME NEW p \in Process, Return(p) \/ Dies(p) PROVE Inv'
  <2>1. SharedTypeOK'
    BY <1>10 DEF Return, Dies, Spend, Inv, SharedTypeOK
  <2>2. NoWork \in Work /\ WorkFits("idle", NoWork)
    <3>1. /\ <<>> \in Seq(Job) /\ <<>> \in Seq(Record \cup {"unchanged"})
          /\ Len(<<>>) = 0
      BY EmptySeq
    <3> QED BY <3>1 DEF NoWork, Work, WorkFits, Kind, Record
  <2>3. LocalsFit'
    BY <1>10, <2>2, MovesAlone DEF Return, Dies, Goto, Stage, Inv
  <2> QED BY <2>1, <2>3 DEF Inv
<1>11. CASE UNCHANGED vars
  BY <1>11 DEF vars, Inv, LocalsFit, SharedTypeOK
<1> QED BY <1>1, <1>2, <1>3, <1>4, <1>5, <1>6, <1>7, <1>8, <1>9, <1>10, <1>11
        DEF Next

(***************************************************************************)
(* The invariant holds before any command.                                 *)
(***************************************************************************)
LEMMA InvInit == Init => Inv
<1> SUFFICES ASSUME Init PROVE Inv
  OBVIOUS
<1>1. NoWork \in Work /\ WorkFits("idle", NoWork)
  <2>1. /\ <<>> \in Seq(Job) /\ <<>> \in Seq(Record \cup {"unchanged"})
        /\ Len(<<>>) = 0
    BY EmptySeq
  <2> QED BY <2>1 DEF NoWork, Work, WorkFits, Kind, Record
<1>2. LocalsFit
  BY <1>1 DEF Init, LocalsFit, Stage
<1>3. SharedTypeOK
  BY Bounds DEF Init, SharedTypeOK
<1> QED BY <1>2, <1>3 DEF Inv

(***************************************************************************)
(* Types: the locals of a process are always such that there is a job to   *)
(* go on with and a record to put back.                                    *)
(***************************************************************************)
THEOREM TypeCorrect == Spec => []TypeOK
<1>1. Inv => TypeOK
  BY DEF Inv, LocalsFit, SharedTypeOK, TypeOK
<1> QED BY <1>1, InvInit, InvStep, PTL DEF Spec

-----------------------------------------------------------------------------
(***************************************************************************)
(* No operation on a device reaches a name of the gateway's own: only a    *)
(* reconciliation has such a name among its jobs.                          *)
(***************************************************************************)
THEOREM OnlySyncTouchesOperational == Spec => OperationalNamesKept
<1>1. ASSUME Inv, [Next]_vars, NEW n \in OperationalNames, zone'[n] # zone[n]
      PROVE  \E p \in Process : StepOf(p) /\ work[p].kind = "sync_dns"
  <2>1. PICK p \in Process :
           Put(p) \/ PutFails(p) \/ Redo(p) \/ Unwind(p)
    BY <1>1 DEF Next, vars, StartSync, StartEnsure, StartDelete, StartRevoke,
       StartEnroll, Begin, Get, GetFails, RedoFails, UnwindFails, Commit,
       CommitFails, Return, Dies
  <2>2. stage[p] \in {"put", "redo", "unwind"}
    BY <2>1 DEF Put, PutFails, Redo, Unwind, At
  <2>3. n = JobBegun(p).name
    <3>1. n \in Name /\ zone \in [Name -> Record]
      BY <1>1, SettingsValid DEF ValidSettings, Inv, SharedTypeOK
    <3>2. PICK r : zone' = [zone EXCEPT ![JobBegun(p).name] = r]
      BY <1>1, <2>1 DEF Put, PutFails, Redo, Unwind
    <3> QED BY <1>1, <3>1, <3>2
  <2>4. work[p].kind = "sync_dns"
    <3>1. /\ work[p].jobs \in Seq(Job)
          /\ Len(work[p].saved) \in 1..Len(work[p].jobs)
      BY <1>1, <2>2, Begun
    <3>2. WorkFits(stage[p], work[p])
      BY <1>1 DEF Inv, LocalsFit
    <3> QED BY <1>1, <2>3, <3>1, <3>2 DEF WorkFits, JobBegun
  <2>5. StepOf(p)
    <3>1. stage[p] # stage'[p] \/ work'[p].saved = Popped(work[p].saved)
      BY <1>1, <2>1 DEF Put, PutFails, Redo, Unwind, Goto, After, Raise, Pop,
         At, Inv, LocalsFit, Work
    <3>2. Popped(work[p].saved) # work[p].saved
      BY <1>1, <2>2, Begun, PoppedSeq
    <3> QED BY <3>1, <3>2 DEF StepOf
  <2> QED BY <2>4, <2>5
<1>2. Inv /\ [Next]_vars =>
        [\A n \in OperationalNames :
           zone'[n] # zone[n] =>
             \E p \in Process : StepOf(p) /\ work[p].kind = "sync_dns"]_vars
  BY <1>1
<1> QED BY <1>2, InvInit, InvStep, PTL DEF Spec, OperationalNamesKept

-----------------------------------------------------------------------------
(***************************************************************************)
(* What FailureLeavesZone rests on: of each name, the first record that    *)
(* was saved is the one it had before; a name of which none was saved      *)
(* still has it.  Restoring in reverse brings the first one back.          *)
(***************************************************************************)
Changes(jobs, saved, i, n) == jobs[i].name = n /\ saved[i] # "unchanged"

Undoable(jobs, saved, before, z) ==
    \A n \in Name :
       /\ (\A i \in 1..Len(saved) : ~Changes(jobs, saved, i, n))
             => z[n] = before[n]
       /\ \A i \in 1..Len(saved) :
             /\ Changes(jobs, saved, i, n)
             /\ \A j \in 1..i - 1 : ~Changes(jobs, saved, j, n)
             => saved[i] = before[n]

Saved == Record \cup {"unchanged"}

(***************************************************************************)
(* Reading: what is appended is "unchanged" or the record that was read.   *)
(***************************************************************************)
LEMMA ReadUndoable ==
    ASSUME NEW jobs \in Seq(Job), NEW saved \in Seq(Saved),
           NEW before, NEW z, NEW e \in Saved,
           Len(saved) < Len(jobs),
           Undoable(jobs, saved, before, z),
           e # "unchanged" => e = z[jobs[Len(saved) + 1].name]
    PROVE  Undoable(jobs, Append(saved, e), before, z)
<1> DEFINE t == Append(saved, e)
           L == Len(saved)
<1>1. /\ L \in Nat /\ Len(t) = L + 1 /\ t[L + 1] = e
      /\ \A i \in 1..L : t[i] = saved[i]
  BY Appends
<1> HIDE DEF t, L
<1> SUFFICES ASSUME NEW n \in Name
             PROVE  /\ (\A i \in 1..Len(t) : ~Changes(jobs, t, i, n))
                          => z[n] = before[n]
                    /\ \A i \in 1..Len(t) :
                          /\ Changes(jobs, t, i, n)
                          /\ \A j \in 1..i - 1 : ~Changes(jobs, t, j, n)
                          => t[i] = before[n]
  BY DEF Undoable, t
<1>2. \A i \in 1..L : Changes(jobs, t, i, n) <=> Changes(jobs, saved, i, n)
  BY <1>1 DEF Changes
<1>3. /\ (\A i \in 1..L : ~Changes(jobs, saved, i, n)) => z[n] = before[n]
      /\ \A i \in 1..L :
            /\ Changes(jobs, saved, i, n)
            /\ \A j \in 1..i - 1 : ~Changes(jobs, saved, j, n)
            => saved[i] = before[n]
  BY DEF Undoable, L
<1>4. (\A i \in 1..Len(t) : ~Changes(jobs, t, i, n)) => z[n] = before[n]
  BY <1>1, <1>2, <1>3
<1>5. ASSUME NEW i \in 1..L, Changes(jobs, t, i, n),
             \A j \in 1..i - 1 : ~Changes(jobs, t, j, n)
      PROVE  t[i] = before[n]
  <2>1. \A j \in 1..i - 1 : j \in 1..L
    BY <1>1
  <2> QED BY <1>1, <1>2, <1>3, <1>5, <2>1
<1>6. ASSUME Changes(jobs, t, L + 1, n),
             \A j \in 1..L : ~Changes(jobs, t, j, n)
      PROVE  t[L + 1] = before[n]
  <2>1. z[n] = before[n]
    BY <1>2, <1>3, <1>6
  <2> QED BY <1>1, <1>6, <2>1 DEF Changes, L
<1> QED BY <1>1, <1>4, <1>5, <1>6

(***************************************************************************)
(* Changing: the name's record is among the saved ones.                    *)
(***************************************************************************)
LEMMA ChangeUndoable ==
    ASSUME NEW jobs \in Seq(Job), NEW saved \in Seq(Saved),
           NEW before, NEW z \in [Name -> Record], NEW r,
           Len(saved) \in 1..Len(jobs),
           saved[Len(saved)] # "unchanged",
           Undoable(jobs, saved, before, z)
    PROVE  Undoable(jobs, saved, before,
                    [z EXCEPT ![jobs[Len(saved)].name] = r])
<1> DEFINE y == [z EXCEPT ![jobs[Len(saved)].name] = r]
<1> SUFFICES ASSUME NEW n \in Name,
                    \A i \in 1..Len(saved) : ~Changes(jobs, saved, i, n)
             PROVE  y[n] = before[n]
  BY DEF Undoable
<1>1. n # jobs[Len(saved)].name
  BY DEF Changes
<1> QED BY <1>1 DEF Undoable

(***************************************************************************)
(* Restoring the last one, of which nothing is then saved any more.        *)
(***************************************************************************)
LEMMA RestoreUndoable ==
    ASSUME NEW jobs \in Seq(Job), NEW saved \in Seq(Saved),
           NEW before, NEW z \in [Name -> Record],
           Len(saved) \in 1..Len(jobs),
           Undoable(jobs, saved, before, z)
    PROVE  Undoable(jobs, Popped(saved), before,
                    [z EXCEPT ![jobs[Len(saved)].name] =
                       IF saved[Len(saved)] = "unchanged" THEN @
                       ELSE saved[Len(saved)]])
<1> DEFINE L == Len(saved)
           t == Popped(saved)
           m == jobs[L].name
           y == [z EXCEPT ![m] = IF saved[L] = "unchanged" THEN @
                                 ELSE saved[L]]
<1>1. L \in Nat \ {0} /\ Len(t) = L - 1 /\ \A i \in 1..L - 1 : t[i] = saved[i]
  BY PoppedSeq, EmptySeq
<1> HIDE DEF L, t, m, y
<1> SUFFICES ASSUME NEW n \in Name
             PROVE  /\ (\A i \in 1..Len(t) : ~Changes(jobs, t, i, n))
                          => y[n] = before[n]
                    /\ \A i \in 1..Len(t) :
                          /\ Changes(jobs, t, i, n)
                          /\ \A j \in 1..i - 1 : ~Changes(jobs, t, j, n)
                          => t[i] = before[n]
  BY DEF Undoable, L, t, m, y
<1>2. \A i \in 1..L - 1 : Changes(jobs, t, i, n) <=> Changes(jobs, saved, i, n)
  BY <1>1 DEF Changes
<1>3. /\ (\A i \in 1..L : ~Changes(jobs, saved, i, n)) => z[n] = before[n]
      /\ \A i \in 1..L :
            /\ Changes(jobs, saved, i, n)
            /\ \A j \in 1..i - 1 : ~Changes(jobs, saved, j, n)
            => saved[i] = before[n]
  BY DEF Undoable, L
<1>4. ASSUME NEW i \in 1..L - 1, Changes(jobs, t, i, n),
             \A j \in 1..i - 1 : ~Changes(jobs, t, j, n)
      PROVE  t[i] = before[n]
  <2>1. i \in 1..L /\ \A j \in 1..i - 1 : j \in 1..L - 1
    BY <1>1
  <2> QED BY <1>1, <1>2, <1>3, <1>4, <2>1
<1>5. ASSUME \A i \in 1..L - 1 : ~Changes(jobs, t, i, n)
      PROVE  y[n] = before[n]
  <2>1. \A i \in 1..L - 1 : ~Changes(jobs, saved, i, n)
    BY <1>2, <1>5
  <2>2. CASE Changes(jobs, saved, L, n)
    <3>1. saved[L] = before[n]
      BY <1>1, <1>3, <2>1, <2>2
    <3>2. m = n /\ y[n] = saved[L]
      BY <2>2 DEF Changes, m, y
    <3> QED BY <3>1, <3>2
  <2>3. CASE ~Changes(jobs, saved, L, n)
    <3>1. z[n] = before[n]
      BY <1>1, <1>3, <2>1, <2>3
    <3>2. y[n] = z[n]
      BY <2>3 DEF Changes, m, y
    <3> QED BY <3>1, <3>2
  <2> QED BY <2>2, <2>3
<1> QED BY <1>1, <1>4, <1>5

(***************************************************************************)
(* A process that met nobody: nobody else runs, and as long as it has      *)
(* neither succeeded nor failed to restore, all it did can be undone.      *)
(***************************************************************************)
Alone(p) == ~At(p, "idle") /\ work[p].company = "alone"

CanUndo(p) ==
    work[p].clean /\ ~At(p, "done") =>
       Undoable(work[p].jobs, work[p].saved, work[p].before, zone)

AloneInv ==
    \A p \in Process :
       Alone(p) => /\ \A q \in Process \ {p} : ~Running(q)
                   /\ CanUndo(p)

(***************************************************************************)
(* A step of a running process: the others, if it was not alone, were not  *)
(* alone either, and only its own case has to be seen.                     *)
(***************************************************************************)
LEMMA OwnStep ==
    ASSUME Inv, AloneInv, NEW p \in Process, Running(p),
           NEW s \in Stage, Goto(p, s),
           work' \in [Process -> Work],
           \A q \in Process \ {p} :
              work'[q].company \in {work[q].company, "disturbed"},
           work'[p].company = work[p].company,
           Alone(p) /\ s # "idle" => CanUndo(p)'
    PROVE  AloneInv'
<1>1. \A q \in Process : stage'[q] = IF q = p THEN s ELSE stage[q]
  BY DEF Goto, Inv, LocalsFit
<1>2. \A q \in Process \ {p} : ~Alone(q)'
  BY <1>1 DEF AloneInv, Alone, At
<1>3. ASSUME Alone(p)'
      PROVE  /\ \A q \in Process \ {p} : ~Running(q)'
             /\ CanUndo(p)'
  <2>1. s # "idle" /\ Alone(p)
    BY <1>1, <1>3 DEF Alone, At, Running
  <2> QED BY <1>1, <2>1 DEF AloneInv, Running
<1> QED BY <1>2, <1>3 DEF AloneInv

(***************************************************************************)
(* A command that begins while another runs is company for it; one that    *)
(* begins alone has changed nothing yet.                                   *)
(***************************************************************************)
LEMMA BeginAlone ==
    ASSUME Inv, AloneInv, NEW p \in Process, NEW kind, NEW d, NEW jobs,
           At(p, "idle"), Begin(p, kind, d, jobs), LocalsFit'
    PROVE  AloneInv'
<1>1. \A q \in Process :
         stage'[q] = IF q = p THEN IF jobs = <<>> THEN "done" ELSE "get"
                     ELSE stage[q]
  BY DEF Begin, Inv, LocalsFit
<1>2. \A q \in Process \ {p} :
         ~At(q, "idle") => work'[q].company \in {"disturbed", "agreeing"}
  <2> SUFFICES ASSUME NEW q \in Process \ {p}, ~At(q, "idle")
               PROVE  work'[q].company \in {"disturbed", "agreeing"}
    OBVIOUS
  <2>1. work'[q] = [work[q] EXCEPT !.company = Met(q, kind)]
    BY DEF Begin
  <2>2. work[q] \in Work
    BY DEF Inv, LocalsFit
  <2> QED BY <2>1, <2>2 DEF Met, Work
<1>3. \A q \in Process \ {p} : ~Alone(q)'
  BY <1>1, <1>2 DEF Alone, At
<1>4. ASSUME Alone(p)'
      PROVE  /\ \A q \in Process \ {p} : ~Running(q)'
             /\ CanUndo(p)'
  <2>1. work'[p] = [kind |-> kind, device |-> d, jobs |-> jobs,
                    saved |-> <<>>, before |-> zone,
                    company |-> CompanyOf(p, kind), clean |-> TRUE]
    BY DEF Begin
  <2>2. \A q \in Process \ {p} : ~Running(q)
    BY <1>4, <2>1 DEF Alone, CompanyOf
  <2>3. Undoable(jobs, <<>>, zone, zone)
    <3>1. \A i \in 1..Len(<<>>) : FALSE
      BY EmptySeq
    <3> QED BY <3>1 DEF Undoable
  <2>4. zone' = zone
    BY DEF Begin
  <2> QED BY <1>1, <2>1, <2>2, <2>3, <2>4 DEF Running, CanUndo
<1> QED BY <1>3, <1>4 DEF AloneInv

(***************************************************************************)
(* An exception leaves the company of the process itself as it was.        *)
(***************************************************************************)
LEMMA RaiseAlone ==
    ASSUME Inv, AloneInv, NEW p \in Process, Running(p),
           NEW saved \in Seq(Saved), NEW clean \in BOOLEAN,
           Raise(p, saved, clean), LocalsFit',
           Alone(p) /\ clean =>
              Undoable(work[p].jobs, saved, work[p].before, zone')
    PROVE  AloneInv'
<1> DEFINE s == IF saved # <<>> THEN "unwind" ELSE "failed"
<1>1. s \in Stage /\ Goto(p, s)
  BY DEF Raise, Stage
<1>2. work[p] \in Work
  BY DEF Inv, LocalsFit
<1>3. work'[p] = [work[p] EXCEPT !.saved = saved, !.clean = clean]
  BY DEF Raise
<1>4. /\ work'[p].company = work[p].company
      /\ work'[p].jobs = work[p].jobs /\ work'[p].before = work[p].before
      /\ work'[p].saved = saved /\ work'[p].clean = clean
  BY <1>2, <1>3 DEF Work
<1>5. \A q \in Process \ {p} :
         work'[q].company \in {work[q].company, "disturbed"}
  <2> TAKE q \in Process \ {p}
  <2>1. work[q] \in Work
    BY DEF Inv, LocalsFit
  <2>2. work'[q] \in {work[q], [work[q] EXCEPT !.company = "disturbed"]}
    BY DEF Raise
  <2> QED BY <2>1, <2>2 DEF Work
<1>6. Alone(p) /\ s # "idle" => CanUndo(p)'
  BY <1>4 DEF CanUndo
<1>7. work' \in [Process -> Work]
  BY DEF LocalsFit
<1> HIDE DEF s
<1> QED BY <1>1, <1>4, <1>5, <1>6, <1>7, OwnStep

(***************************************************************************)
(* Every action keeps what a command that runs alone can undo.             *)
(***************************************************************************)
LEMMA AloneStep == Inv /\ Inv' /\ AloneInv /\ [Next]_vars => AloneInv'
<1> SUFFICES ASSUME Inv, Inv', AloneInv, [Next]_vars PROVE AloneInv'
  OBVIOUS
<1>a. LocalsFit' /\ work' \in [Process -> Work]
  BY DEF Inv, LocalsFit
<1>1. ASSUME NEW p \in Process, StartSync(p) PROVE AloneInv'
  BY <1>1, <1>a, BeginAlone DEF StartSync
<1>2. ASSUME NEW p \in Process, NEW d \in Device,
             \/ StartEnsure(p, d) \/ StartDelete(p, d)
             \/ StartRevoke(p, d) \/ StartEnroll(p, d)
      PROVE  AloneInv'
  BY <1>2, <1>a, BeginAlone DEF StartEnsure, StartDelete, StartRevoke,
     StartEnroll
<1>3. ASSUME NEW p \in Process, Get(p) PROVE AloneInv'
  <2> DEFINE r == zone[JobAt(p).name]
             e == IF r = JobAt(p).want THEN "unchanged" ELSE r
             s == IF r = JobAt(p).want THEN After(p, Len(work[p].saved) + 1)
                  ELSE "put"
  <2>1. work[p] \in Work /\ WorkFits("get", work[p])
    BY <1>3 DEF Get, At, Inv, LocalsFit
  <2>2. /\ work[p].saved \in Seq(Saved) /\ work[p].jobs \in Seq(Job)
        /\ Len(work[p].saved) < Len(work[p].jobs)
    BY <2>1 DEF Work, WorkFits, Saved
  <2>3. e \in Saved
    <3>1. Len(work[p].saved) + 1 \in 1..Len(work[p].jobs)
      BY <2>2
    <3>2. JobAt(p) \in Job
      BY <2>2, <3>1 DEF JobAt
    <3> QED BY <3>2 DEF Job, Saved, Inv, SharedTypeOK
  <2>4. s \in Stage /\ Goto(p, s) /\ s # "idle"
    BY <1>3 DEF Get, After, Stage
  <2>5. work' = [work EXCEPT ![p].saved = Append(@, e)] /\ zone' = zone
    BY <1>3 DEF Get, Save
  <2>6. /\ work'[p].saved = Append(work[p].saved, e)
        /\ work'[p].jobs = work[p].jobs /\ work'[p].before = work[p].before
        /\ work'[p].clean = work[p].clean
        /\ work'[p].company = work[p].company
    BY <2>1, <2>5 DEF Work, Inv, LocalsFit
  <2>7. \A q \in Process \ {p} : work'[q] = work[q]
    BY <2>5 DEF Inv, LocalsFit
  <2>8. e # "unchanged" => e = zone[work[p].jobs[Len(work[p].saved) + 1].name]
    BY DEF JobAt
  <2>9. Alone(p) /\ s # "idle" => CanUndo(p)'
    <3> SUFFICES ASSUME Alone(p), work[p].clean PROVE CanUndo(p)'
      BY <2>6 DEF CanUndo
    <3>1. Undoable(work[p].jobs, work[p].saved, work[p].before, zone)
      BY <1>3 DEF AloneInv, CanUndo, Get, At
    <3> HIDE DEF e
    <3>2. Undoable(work[p].jobs, Append(work[p].saved, e), work[p].before,
                   zone)
      BY <2>2, <2>3, <2>8, <3>1, ReadUndoable
    <3> QED BY <2>5, <2>6, <3>2 DEF CanUndo
  <2>10. Running(p)
    BY <1>3 DEF Get, At, Running
  <2> HIDE DEF s
  <2> QED BY <1>a, <2>4, <2>6, <2>7, <2>9, <2>10, OwnStep
<1>4. ASSUME NEW p \in Process, Put(p) \/ PutFails(p) PROVE AloneInv'
  <2>1. At(p, "put") /\ Running(p) /\ work' = work
    BY <1>4 DEF Put, PutFails, At, Running
  <2>2. /\ work[p].saved \in Seq(Saved) /\ work[p].jobs \in Seq(Job)
        /\ Len(work[p].saved) \in 1..Len(work[p].jobs)
        /\ work[p].saved[Len(work[p].saved)] # "unchanged"
    BY <2>1, Begun DEF At, Saved, LastSaved, Record
  <2>3. PICK s \in Stage : Goto(p, s)
    BY <1>4 DEF Put, PutFails, After, Stage
  <2>4. \/ zone' = [zone EXCEPT ![JobBegun(p).name] = JobBegun(p).want]
        \/ zone' = zone
    BY <1>4 DEF Put, PutFails
  <2>5. Alone(p) /\ s # "idle" => CanUndo(p)'
    <3> SUFFICES ASSUME Alone(p), work[p].clean PROVE CanUndo(p)'
      BY <2>1 DEF CanUndo
    <3>1. Undoable(work[p].jobs, work[p].saved, work[p].before, zone)
      BY <2>1 DEF AloneInv, CanUndo, At
    <3>2. Undoable(work[p].jobs, work[p].saved, work[p].before, zone')
      <4>1. CASE zone' = zone
        BY <3>1, <4>1
      <4>2. CASE zone' = [zone EXCEPT ![JobBegun(p).name] = JobBegun(p).want]
        <5>1. zone \in [Name -> Record]
          BY DEF Inv, SharedTypeOK
        <5>2. Undoable(work[p].jobs, work[p].saved, work[p].before,
                 [zone EXCEPT ![work[p].jobs[Len(work[p].saved)].name] =
                    JobBegun(p).want])
          BY <2>2, <3>1, <5>1, ChangeUndoable
        <5> QED BY <4>2, <5>2 DEF JobBegun
      <4> QED BY <2>4, <4>1, <4>2
    <3> QED BY <2>1, <3>2 DEF CanUndo
  <2> QED BY <1>a, <2>1, <2>3, <2>5, OwnStep
<1>5. ASSUME NEW p \in Process, GetFails(p) \/ CommitFails(p)
      PROVE  AloneInv'
  <2>1. /\ stage[p] \in {"get", "commit"} /\ zone' = zone
        /\ Raise(p, work[p].saved, work[p].clean)
    BY <1>5 DEF GetFails, CommitFails, At
  <2>2. work[p].saved \in Seq(Saved) /\ work[p].clean \in BOOLEAN
    BY DEF Inv, LocalsFit, Work, Saved
  <2>3. Alone(p) /\ work[p].clean =>
           Undoable(work[p].jobs, work[p].saved, work[p].before, zone')
    BY <2>1 DEF AloneInv, CanUndo, At
  <2> QED BY <1>a, <2>1, <2>2, <2>3, RaiseAlone DEF Running
<1>6. ASSUME NEW p \in Process, Redo(p) PROVE AloneInv'
  <2>1. /\ stage[p] = "redo"
        /\ zone' = [zone EXCEPT ![JobBegun(p).name] = LastSaved(p)]
        /\ Raise(p, Popped(work[p].saved), work[p].clean)
    BY <1>6 DEF Redo, At
  <2>2. /\ work[p].saved \in Seq(Saved) /\ work[p].jobs \in Seq(Job)
        /\ Len(work[p].saved) \in 1..Len(work[p].jobs)
        /\ LastSaved(p) # "unchanged"
        /\ Popped(work[p].saved) \in Seq(Saved)
    BY <2>1, Begun DEF Saved, Record
  <2>3. work[p].clean \in BOOLEAN /\ zone \in [Name -> Record]
    BY DEF Inv, LocalsFit, Work, SharedTypeOK
  <2>4. Alone(p) /\ work[p].clean =>
           Undoable(work[p].jobs, Popped(work[p].saved), work[p].before, zone')
    <3> SUFFICES ASSUME Alone(p), work[p].clean
                 PROVE  Undoable(work[p].jobs, Popped(work[p].saved),
                                 work[p].before, zone')
      OBVIOUS
    <3>1. Undoable(work[p].jobs, work[p].saved, work[p].before, zone)
      BY <2>1 DEF AloneInv, CanUndo, At
    <3> QED BY <2>1, <2>2, <2>3, <3>1, RestoreUndoable DEF JobBegun, LastSaved
  <2> QED BY <1>a, <2>1, <2>2, <2>3, <2>4, RaiseAlone DEF Running
<1>7. ASSUME NEW p \in Process, RedoFails(p) PROVE AloneInv'
  <2>1. stage[p] = "redo" /\ Raise(p, Popped(work[p].saved), FALSE)
    BY <1>7 DEF RedoFails, At
  <2>2. Popped(work[p].saved) \in Seq(Saved)
    BY <2>1, Begun DEF Saved
  <2> QED BY <1>a, <2>1, <2>2, RaiseAlone DEF Running
<1>8. ASSUME NEW p \in Process, Unwind(p) \/ UnwindFails(p)
      PROVE  AloneInv'
  <2>1. At(p, "unwind") /\ Running(p)
    BY <1>8 DEF Unwind, UnwindFails, At, Running
  <2>2. PICK clean \in BOOLEAN :
           /\ Pop(p, clean)
           /\ clean =>
                zone' = [zone EXCEPT ![JobBegun(p).name] =
                           IF LastSaved(p) = "unchanged" THEN @
                           ELSE LastSaved(p)]
           /\ clean => work[p].clean
    BY <1>8 DEF Unwind, UnwindFails, Inv, LocalsFit, Work
  <2>3. /\ work[p].saved \in Seq(Saved) /\ work[p].jobs \in Seq(Job)
        /\ Len(work[p].saved) \in 1..Len(work[p].jobs)
    BY <2>1, Begun DEF At, Saved
  <2>4. PICK s \in Stage : Goto(p, s)
    BY <2>2 DEF Pop, Stage
  <2>5. work' = [work EXCEPT ![p].saved = Popped(@), ![p].clean = clean]
    BY <2>2 DEF Pop
  <2>6. /\ work'[p].saved = Popped(work[p].saved)
        /\ work'[p].jobs = work[p].jobs /\ work'[p].before = work[p].before
        /\ work'[p].clean = clean /\ work'[p].company = work[p].company
    <3>1. work[p] \in Work /\ work \in [Process -> Work]
      BY DEF Inv, LocalsFit
    <3>2. work'[p] = [work[p] EXCEPT !.saved = Popped(@), !.clean = clean]
      BY <2>5, <3>1
    <3> QED BY <3>1, <3>2 DEF Work
  <2>7. \A q \in Process \ {p} : work'[q] = work[q]
    BY <2>5 DEF Inv, LocalsFit
  <2>8. Alone(p) /\ s # "idle" => CanUndo(p)'
    <3> SUFFICES ASSUME Alone(p), clean PROVE CanUndo(p)'
      BY <2>6 DEF CanUndo
    <3>1. Undoable(work[p].jobs, work[p].saved, work[p].before, zone)
      BY <2>1, <2>2 DEF AloneInv, CanUndo, At
    <3>2. zone \in [Name -> Record]
      BY DEF Inv, SharedTypeOK
    <3>3. Undoable(work[p].jobs, Popped(work[p].saved), work[p].before, zone')
      <4>1. Undoable(work[p].jobs, Popped(work[p].saved), work[p].before,
               [zone EXCEPT ![work[p].jobs[Len(work[p].saved)].name] =
                  IF work[p].saved[Len(work[p].saved)] = "unchanged" THEN @
                  ELSE work[p].saved[Len(work[p].saved)]])
        BY <2>3, <3>1, <3>2, RestoreUndoable
      <4> QED BY <2>2, <4>1 DEF JobBegun, LastSaved
    <3> QED BY <2>6, <3>3 DEF CanUndo
  <2> QED BY <1>a, <2>1, <2>4, <2>6, <2>7, <2>8, OwnStep
<1>9. ASSUME NEW p \in Process, Commit(p) PROVE AloneInv'
  <2>1. /\ Running(p) /\ Goto(p, "done") /\ "done" \in Stage /\ work' = work
    BY <1>9 DEF Commit, At, Running, Stage
  <2>2. CanUndo(p)'
    BY <2>1 DEF CanUndo, Goto, At, Inv, LocalsFit
  <2> QED BY <1>a, <2>1, <2>2, OwnStep
<1>10. ASSUME NEW p \in Process, Dies(p) PROVE AloneInv'
  <2>1. /\ Running(p) /\ Goto(p, "idle") /\ "idle" \in Stage
        /\ \A q \in Process \ {p} : work'[q] = work[q]
    BY <1>10 DEF Dies, Stage
  <2>2. \A q \in Process : stage'[q] = IF q = p THEN "idle" ELSE stage[q]
    BY <2>1 DEF Goto, Inv, LocalsFit
  <2>3. \A q \in Process : ~Alone(q)'
    BY <2>1, <2>2 DEF AloneInv, Alone, At
  <2> QED BY <2>3 DEF AloneInv
<1>11. ASSUME NEW p \in Process, Return(p) PROVE AloneInv'
  <2>1. /\ Goto(p, "idle") /\ zone' = zone
        /\ \A q \in Process \ {p} : work'[q] = work[q]
    BY <1>11 DEF Return
  <2>2. \A q \in Process : stage'[q] = IF q = p THEN "idle" ELSE stage[q]
    BY <2>1 DEF Goto, Inv, LocalsFit
  <2>3. ~Alone(p)'
    BY <2>2 DEF Alone, At
  <2>4. \A q \in Process \ {p} :
           Alone(q)' => /\ \A x \in Process \ {q} : ~Running(x)'
                        /\ CanUndo(q)'
    BY <2>1, <2>2 DEF AloneInv, Alone, At, Running, CanUndo
  <2> QED BY <2>3, <2>4 DEF AloneInv
<1>12. CASE UNCHANGED vars
  BY <1>12 DEF vars, AloneInv, Alone, At, Running, CanUndo
<1> QED BY <1>1, <1>2, <1>3, <1>4, <1>5, <1>6, <1>7, <1>8, <1>9, <1>10, <1>11,
           <1>12 DEF Next

(***************************************************************************)
(* "Reconcile [...] atomically": whoever ran alone and failed, and whose   *)
(* restorations succeeded, has changed nothing: for every number of        *)
(* devices, names and records, and wherever it failed.                     *)
(***************************************************************************)
THEOREM FailureChangesNothing == Spec => []FailureLeavesZone
<1>1. Init => AloneInv
  BY DEF Init, AloneInv, Alone, At
<1>2. Inv /\ AloneInv => FailureLeavesZone
  <2> SUFFICES ASSUME Inv, AloneInv, NEW p \in Process, At(p, "failed"),
                      work[p].company = "alone", work[p].clean
               PROVE  zone = work[p].before
    BY DEF FailureLeavesZone
  <2>1. Undoable(work[p].jobs, work[p].saved, work[p].before, zone)
    BY DEF AloneInv, Alone, CanUndo, At
  <2>2. work[p].saved = <<>> /\ work[p].before \in [Name -> Record]
    BY DEF Inv, LocalsFit, WorkFits, Work, At
  <2>3. \A i \in 1..Len(<<>>) : FALSE
    BY EmptySeq
  <2>4. \A n \in Name : zone[n] = work[p].before[n]
    BY <2>1, <2>2, <2>3 DEF Undoable
  <2> QED BY <2>2, <2>4 DEF Inv, SharedTypeOK
<1> QED BY <1>1, <1>2, InvInit, InvStep, AloneStep, PTL DEF Spec

-----------------------------------------------------------------------------
(* Operations keep their word.                                             *)

SameJobs(q) ==
    /\ work'[q].kind = work[q].kind /\ work'[q].device = work[q].device
    /\ work'[q].jobs = work[q].jobs

(***************************************************************************)
(* What a process does to its jobs and to the others, at work or at an end.*)
(***************************************************************************)
LEMMA GoesOn ==
    ASSUME Inv, NEW r \in Process,
           \/ Get(r) \/ Put(r) \/ PutFails(r) \/ Commit(r)
           \/ \E saved, clean : Raise(r, saved, clean)
           \/ \E clean : Pop(r, clean)
    PROVE  /\ \A q \in Process : SameJobs(q)
           /\ \A q \in Process \ {r} :
                 stage'[q] = stage[q] /\ work'[q].saved = work[q].saved
<1>1. stage \in [Process -> Stage] /\ work \in [Process -> Work]
  BY DEF Inv, LocalsFit
<1>2. \A q \in Process \ {r} : stage'[q] = stage[q]
  BY <1>1 DEF Get, Put, PutFails, Commit, Raise, Pop, Goto
<1>3. ASSUME NEW q \in Process
      PROVE  SameJobs(q) /\ (q # r => work'[q].saved = work[q].saved)
  <2>1. work[q] \in Work
    BY <1>1
  <2>2. CASE UNCHANGED work
    BY <2>2 DEF SameJobs
  <2>3. ASSUME NEW x, work' = [work EXCEPT ![r].saved = x]
        PROVE  SameJobs(q) /\ (q # r => work'[q].saved = work[q].saved)
    BY <1>1, <2>1, <2>3 DEF SameJobs, Work
  <2>4. ASSUME NEW x, NEW y,
               work' = [work EXCEPT ![r].saved = x, ![r].clean = y]
        PROVE  SameJobs(q) /\ (q # r => work'[q].saved = work[q].saved)
    BY <1>1, <2>1, <2>4 DEF SameJobs, Work
  <2>5. ASSUME NEW x, NEW y, Raise(r, x, y)
        PROVE  SameJobs(q) /\ (q # r => work'[q].saved = work[q].saved)
    <3>1. work'[q] = IF q = r
                     THEN [work[r] EXCEPT !.saved = x, !.clean = y]
                     ELSE IF At(q, "idle") THEN work[q]
                     ELSE [work[q] EXCEPT !.company = "disturbed"]
      BY <2>5 DEF Raise
    <3> QED BY <2>1, <3>1 DEF SameJobs, Work
  <2>6. ASSUME Get(r) PROVE \E x : work' = [work EXCEPT ![r].saved = x]
    BY <2>6 DEF Get, Save
  <2>7. ASSUME NEW y, Pop(r, y)
        PROVE  \E x : work' = [work EXCEPT ![r].saved = x, ![r].clean = y]
    BY <2>7 DEF Pop
  <2> QED BY <2>2, <2>3, <2>4, <2>5, <2>6, <2>7 DEF Put, PutFails, Commit
<1> QED BY <1>2, <1>3

LEMMA OthersAtBegin ==
    ASSUME Inv, NEW r \in Process, NEW kind, NEW d, NEW jobs,
           Begin(r, kind, d, jobs)
    PROVE  /\ stage'[r] = IF jobs = <<>> THEN "done" ELSE "get"
           /\ work'[r] = [kind |-> kind, device |-> d, jobs |-> jobs,
                          saved |-> <<>>, before |-> zone,
                          company |-> CompanyOf(r, kind), clean |-> TRUE]
           /\ \A q \in Process \ {r} :
                 /\ stage'[q] = stage[q] /\ SameJobs(q)
                 /\ work'[q].saved = work[q].saved
                 /\ ~At(q, "idle") => work'[q].company = Met(q, kind)
<1>1. stage \in [Process -> Stage] /\ work \in [Process -> Work]
  BY DEF Inv, LocalsFit
<1>2. \A q \in Process \ {r} : stage'[q] = stage[q]
  BY <1>1 DEF Begin
<1>3. ASSUME NEW q \in Process \ {r}
      PROVE  /\ SameJobs(q) /\ work'[q].saved = work[q].saved
             /\ ~At(q, "idle") => work'[q].company = Met(q, kind)
  <2>1. work'[q] = IF At(q, "idle") THEN work[q]
                   ELSE [work[q] EXCEPT !.company = Met(q, kind)]
    BY DEF Begin
  <2> QED BY <1>1, <2>1 DEF SameJobs, Work
<1> QED BY <1>1, <1>2, <1>3 DEF Begin

LEMMA OthersAtEnd ==
    ASSUME Inv, NEW r \in Process, Return(r) \/ Dies(r)
    PROVE  /\ stage'[r] = "idle" /\ work'[r] = NoWork
           /\ \A q \in Process \ {r} :
                 stage'[q] = stage[q] /\ work'[q] = work[q]
           /\ UNCHANGED <<status, zone>>
           /\ lock' \in {lock, NoProcess}
           /\ lock' # lock => lock = r
BY DEF Return, Dies, Goto, Inv, LocalsFit

(***************************************************************************)
(* The jobs of a kind of operation, how many of them are done at its end,  *)
(* and the lock under which an enrollment works: its device is not revoked *)
(* while it does.                                                          *)
(***************************************************************************)
ShapedBy(s, w) ==
    /\ w.kind = "enroll" =>
          w.jobs = <<[name |-> Hostname[w.device], want |-> "gateway"]>>
    /\ w.kind = "delete_device_dns" =>
          \A i \in 1..Len(w.jobs) : w.jobs[i].want = "none"
    /\ s \in {"done", "commit"} => Len(w.saved) = Len(w.jobs)

Locks(p) ==
    work[p].kind = "enroll" /\ stage[p] \in {"get", "put", "redo", "commit"} =>
       lock = p /\ status[work[p].device] # "revoked"

Steady == \A p \in Process : ShapedBy(stage[p], work[p]) /\ Locks(p)

LEMMA SteadyBegins ==
    ASSUME Inv, Steady, NEW r \in Process, NEW kind, NEW d, NEW jobs,
           Begin(r, kind, d, jobs),
           kind = "enroll" =>
              /\ jobs = <<[name |-> Hostname[d], want |-> "gateway"]>>
              /\ lock = NoProcess /\ lock' = r
              /\ status' = status /\ status[d] # "revoked",
           kind # "enroll" =>
              /\ UNCHANGED lock
              /\ lock = NoProcess \/ UNCHANGED status,
           kind = "delete_device_dns" =>
              \A i \in 1..Len(jobs) : jobs[i].want = "none"
    PROVE  Steady'
<1>1. Len(<<>>) = 0
  BY EmptySeq
<1>2. /\ work'[r].kind = kind /\ work'[r].device = d
      /\ work'[r].jobs = jobs /\ work'[r].saved = <<>>
      /\ stage'[r] \in {"done", "get"}
      /\ stage'[r] = "done" => jobs = <<>>
  <2>1. /\ stage'[r] = IF jobs = <<>> THEN "done" ELSE "get"
        /\ work'[r] = [kind |-> kind, device |-> d, jobs |-> jobs,
                       saved |-> <<>>, before |-> zone,
                       company |-> CompanyOf(r, kind), clean |-> TRUE]
    BY OthersAtBegin
  <2> QED BY <2>1
<1>3. ShapedBy(stage'[r], work'[r]) /\ Locks(r)'
  BY <1>1, <1>2 DEF ShapedBy, Locks
<1>4. ASSUME NEW q \in Process \ {r}
      PROVE  ShapedBy(stage'[q], work'[q]) /\ Locks(q)'
  <2>1. stage'[q] = stage[q] /\ SameJobs(q) /\ work'[q].saved = work[q].saved
    BY OthersAtBegin
  <2>2. ShapedBy(stage[q], work[q]) /\ Locks(q)
    BY DEF Steady
  <2>3. NoProcess \notin Process
    BY Bounds
  <2> QED BY <2>1, <2>2, <2>3 DEF ShapedBy, Locks, SameJobs
<1> QED BY <1>3, <1>4 DEF Steady

(***************************************************************************)
(* When all jobs are saved, as many are done as there were.                *)
(***************************************************************************)
LEMMA Ends ==
    ASSUME Inv, Inv', NEW r \in Process, Get(r) \/ Put(r),
           stage'[r] \in {"done", "commit"}
    PROVE  Len(work'[r].saved) = Len(work'[r].jobs)
<1>1. /\ work[r] \in Work /\ work'[r] \in Work
      /\ Len(work'[r].saved) <= Len(work'[r].jobs)
      /\ work \in [Process -> Work] /\ stage \in [Process -> Stage]
  BY DEF Inv, LocalsFit, WorkFits
<1>2. work'[r].jobs = work[r].jobs
  BY GoesOn DEF SameJobs
<1>3. /\ Len(work'[r].saved) \in Nat /\ Len(work[r].jobs) \in Nat
      /\ Len(work[r].saved) \in Nat
  BY <1>1, <1>2 DEF Work
<1>4. PICK n \in Nat : stage'[r] = After(r, n) /\ n <= Len(work'[r].saved)
  <2>1. CASE Get(r)
    <3> DEFINE k == Len(work[r].saved) + 1
    <3>1. stage'[r] \in {After(r, k), "put"}
      BY <1>1, <2>1 DEF Get, Goto
    <3>2. PICK e : Save(r, e) /\ e \in {"unchanged", zone[JobAt(r).name]}
      BY <2>1 DEF Get
    <3>3. work'[r].saved = Append(work[r].saved, e)
      BY <1>1, <3>2 DEF Save, Work
    <3>4. Len(work'[r].saved) = Len(work[r].saved) + 1
      BY <1>1, <3>3 DEF Work
    <3> HIDE DEF k
    <3>5. stage'[r] = After(r, k)
      BY <3>1
    <3> QED BY <1>3, <3>4, <3>5 DEF k
  <2>2. CASE Put(r)
    <3>1. work' = work /\ stage'[r] = After(r, Len(work[r].saved))
      BY <1>1, <2>2 DEF Put, Goto
    <3> QED BY <1>3, <3>1
  <2> QED BY <2>1, <2>2
<1>5. ~(n < Len(work[r].jobs))
  BY <1>4 DEF After
<1> QED BY <1>1, <1>2, <1>3, <1>4, <1>5

(***************************************************************************)
(* A process that goes on keeps the shape of the jobs of all, and, if its  *)
(* enrollment goes on, the lock.                                           *)
(***************************************************************************)
LEMMA SteadyGoesOn ==
    ASSUME Inv, Steady, NEW r \in Process,
           \/ Get(r) \/ Put(r) \/ PutFails(r) \/ Commit(r)
           \/ \E saved, clean : Raise(r, saved, clean)
           \/ \E clean : Pop(r, clean),
           stage'[r] \in {"done", "commit"} =>
              Len(work'[r].saved) = Len(work'[r].jobs),
           stage'[r] \in {"get", "put", "redo", "commit"} =>
              stage[r] \in {"get", "put"} /\ UNCHANGED lock,
           lock' \in {lock, NoProcess}, lock' # lock => lock = r,
           \A d \in Device : status'[d] = "revoked" => status[d] = "revoked"
    PROVE  Steady'
<1> SUFFICES ASSUME NEW q \in Process
             PROVE  ShapedBy(stage'[q], work'[q]) /\ Locks(q)'
  BY DEF Steady
<1>1. SameJobs(q) /\ ShapedBy(stage[q], work[q]) /\ Locks(q)
  BY GoesOn DEF Steady
<1>2. work[q].kind = "enroll" => work[q].device \in Device
  BY DEF Inv, LocalsFit, WorkFits
<1>3. q # r => stage'[q] = stage[q] /\ work'[q].saved = work[q].saved
  BY GoesOn
<1>4. ShapedBy(stage'[q], work'[q])
  BY <1>1, <1>3 DEF ShapedBy, SameJobs
<1>5. ASSUME work'[q].kind = "enroll",
             stage'[q] \in {"get", "put", "redo", "commit"}
      PROVE  lock' = q /\ status'[work'[q].device] # "revoked"
  <2>1. lock = q /\ status[work[q].device] # "revoked"
    BY <1>1, <1>3, <1>5 DEF Locks, SameJobs
  <2>2. lock' = q
    BY <1>5, <2>1
  <2> QED BY <1>1, <1>2, <1>5, <2>1, <2>2 DEF SameJobs
<1> QED BY <1>4, <1>5 DEF Locks

LEMMA SteadyStep ==
    ASSUME Inv, Inv', Steady, [Next]_vars
    PROVE  Steady'
<1>0. stage \in [Process -> Stage] /\ work \in [Process -> Work]
      /\ status \in [Device -> {"unknown", "enabled", "revoked"}]
  BY DEF Inv, LocalsFit, SharedTypeOK
<1>1. ASSUME NEW r \in Process, StartSync(r) PROVE Steady'
  BY <1>1, SteadyBegins DEF StartSync
<1>2. ASSUME NEW r \in Process, NEW d \in Device,
             StartEnsure(r, d) \/ StartDelete(r, d)
      PROVE  Steady'
  BY <1>2, SteadyBegins DEF StartEnsure, StartDelete
<1>3. ASSUME NEW r \in Process, NEW d \in Device, StartRevoke(r, d)
      PROVE  Steady'
  <2>1. PICK jobs : Begin(r, "revoke_device", d, jobs)
    BY <1>3 DEF StartRevoke
  <2>2. UNCHANGED lock /\ (lock = NoProcess \/ UNCHANGED status)
    BY <1>0, <1>3 DEF StartRevoke
  <2> QED BY <2>1, <2>2, SteadyBegins
<1>4. ASSUME NEW r \in Process, NEW d \in Device, StartEnroll(r, d)
      PROVE  Steady'
  BY <1>4, SteadyBegins DEF StartEnroll
<1>5. ASSUME NEW r \in Process, Get(r) \/ Put(r) PROVE Steady'
  <2>1. /\ stage'[r] \in {"get", "put", "commit", "done"}
        /\ stage[r] \in {"get", "put"} /\ UNCHANGED <<lock, status>>
    BY <1>0, <1>5 DEF Get, Put, Goto, At, After
  <2>2. stage'[r] \in {"done", "commit"} =>
           Len(work'[r].saved) = Len(work'[r].jobs)
    BY <1>5, Ends
  <2> QED BY <1>5, <2>1, <2>2, SteadyGoesOn
<1>6. ASSUME NEW r \in Process, PutFails(r) PROVE Steady'
  <2>1. /\ stage'[r] = "redo" /\ stage[r] = "put"
        /\ UNCHANGED <<lock, status>>
    BY <1>0, <1>6 DEF PutFails, Goto, At
  <2> QED BY <1>6, <2>1, SteadyGoesOn
<1>7. ASSUME NEW r \in Process, NEW saved, NEW clean, Raise(r, saved, clean)
      PROVE  Steady'
  <2>1. /\ stage'[r] \in {"unwind", "failed"} /\ UNCHANGED status
        /\ lock' \in {lock, NoProcess} /\ (lock' # lock => lock = r)
    BY <1>0, <1>7 DEF Raise, Goto
  <2> QED BY <1>7, <2>1, SteadyGoesOn
<1>8. ASSUME NEW r \in Process, NEW clean, Pop(r, clean) PROVE Steady'
  <2>1. /\ stage'[r] \in {"unwind", "failed"} /\ UNCHANGED <<lock, status>>
    BY <1>0, <1>8 DEF Pop, Goto
  <2> QED BY <1>8, <2>1, SteadyGoesOn
<1>9. ASSUME NEW r \in Process, Commit(r) PROVE Steady'
  <2>1. /\ stage'[r] = "done" /\ stage[r] = "commit" /\ work' = work
        /\ lock' = NoProcess
        /\ \A d \in Device : status'[d] = "revoked" => status[d] = "revoked"
    BY <1>0, <1>9 DEF Commit, Goto, At
  <2>2. work[r].kind = "enroll"
    BY <2>1 DEF Inv, LocalsFit, WorkFits
  <2>3. lock = r /\ Len(work[r].saved) = Len(work[r].jobs)
    BY <2>1, <2>2 DEF Steady, Locks, ShapedBy
  <2> QED BY <1>9, <2>1, <2>3, SteadyGoesOn
<1>10. ASSUME NEW r \in Process, Return(r) \/ Dies(r) PROVE Steady'
  <2>1. ShapedBy("idle", NoWork)
    BY EmptySeq DEF ShapedBy, NoWork
  <2>2. NoWork.kind = "sync_dns"
    BY DEF NoWork
  <2> QED BY <1>10, <2>1, <2>2, OthersAtEnd DEF Steady, Locks
<1>11. CASE UNCHANGED vars
  BY <1>11 DEF vars, Steady, Locks
<1> QED BY <1>1, <1>2, <1>3, <1>4, <1>5, <1>6, <1>7, <1>8, <1>9, <1>10, <1>11
        DEF Next, GetFails, Redo, RedoFails, Unwind, UnwindFails, CommitFails

-----------------------------------------------------------------------------
(***************************************************************************)
(* An operation whose word counts: it has not failed, nor met anybody who  *)
(* may undo what it does.                                                  *)
(***************************************************************************)
Working(p) == stage[p] \in {"get", "put", "commit"}

Promising(p) ==
    /\ Working(p) \/ At(p, "done")
    /\ work[p].company # "disturbed"

Finished(s, w) == IF s = "put" THEN Len(w.saved) - 1 ELSE Len(w.saved)

KeptIn(z, s, w) ==
    \A i \in 1..Finished(s, w) : z[w.jobs[i].name] = w.jobs[i].want
Kept(p) == KeptIn(zone, stage[p], work[p])

(***************************************************************************)
(* What the registry st says a name should be; a device that is not known  *)
(* yet may be enrolled.                                                    *)
(***************************************************************************)
Right(j, st) ==
    \/ j.name \in OperationalNames /\ j.want = "gateway"
    \/ /\ j.name \notin OperationalNames
       /\ \E d \in Device :
             /\ j.name = Hostname[d]
             /\ j.want = IF st[d] = "revoked" THEN "none" ELSE "gateway"
FaithfulTo(jobs, st) == \A i \in 1..Len(jobs) : Right(jobs[i], st)
Faithful(p) == FaithfulTo(work[p].jobs, status)

Has(jobs, n) == \E i \in 1..Len(jobs) : jobs[i].name = n

(***************************************************************************)
(* A reconciliation has a job for every device but those that an enrollment*)
(* has added since, whose records are right already.                       *)
(***************************************************************************)
Covers(jobs, st, z) ==
    /\ \A n \in OperationalNames : Has(jobs, n)
    /\ \A d \in Device :
          st[d] # "unknown" =>
             /\ ValidDeviceHostname(d)
             /\ \/ Has(jobs, Hostname[d])
                \/ st[d] = "enabled" /\ z[Hostname[d]] = "gateway"

(***************************************************************************)
(* Nobody restores records while the word of somebody else counts, and     *)
(* whoever is at work then writes what the registry says; a deletion by    *)
(* hand is at work alone.                                                  *)
(***************************************************************************)
Promise(p) ==
    /\ Kept(p)
    /\ work[p].kind = "sync_dns" => Covers(work[p].jobs, status, zone)
    /\ work[p].kind = "delete_device_dns" =>
          \A q \in Process \ {p} : ~Running(q)
    /\ work[p].kind # "delete_device_dns" =>
          /\ Faithful(p)
          /\ \A q \in Process \ {p} :
                /\ ~At(q, "unwind")
                /\ Working(q) => Faithful(q) /\ Kept(q)

Promises == \A p \in Process : Promising(p) => Promise(p)

(***************************************************************************)
(* The registry says one thing about a name.                               *)
(***************************************************************************)
LEMMA RightAgree ==
    ASSUME NEW j, NEW k, NEW st, Right(j, st), Right(k, st), j.name = k.name
    PROVE  j.want = k.want
BY HostnamesDistinct DEF Right

(***************************************************************************)
(* A write takes nothing back from those who agree about the name.         *)
(***************************************************************************)
LEMMA PutKeeps ==
    ASSUME Inv, NEW r \in Process, stage[r] = "put",
           zone' \in {zone,
                      [zone EXCEPT ![JobBegun(r).name] = JobBegun(r).want]},
           NEW jobs \in Seq(Job), NEW n \in Int, n <= Len(jobs),
           \A i \in 1..n : zone[jobs[i].name] = jobs[i].want,
           \A i \in 1..n :
              jobs[i].name = JobBegun(r).name =>
                 jobs[i].want = JobBegun(r).want
    PROVE  \A i \in 1..n : zone'[jobs[i].name] = jobs[i].want
<1> TAKE i \in 1..n
<1>1. jobs[i] \in Job
  <2>1. i \in 1..Len(jobs)
    OBVIOUS
  <2> QED BY <2>1
<1>2. zone \in [Name -> Record]
  BY DEF Inv, SharedTypeOK
<1> QED BY <1>1, <1>2 DEF Job

LEMMA FinishedTyped ==
    ASSUME Inv, NEW q \in Process
    PROVE  /\ work[q].jobs \in Seq(Job) /\ work[q].saved \in Seq(Saved)
           /\ Finished(stage[q], work[q]) \in Int
           /\ Finished(stage[q], work[q]) <= Len(work[q].jobs)
           /\ Len(work[q].jobs) \in Nat
<1>1. WorkFits(stage[q], work[q]) /\ work[q] \in Work
  BY DEF Inv, LocalsFit
<1>2. work[q].jobs \in Seq(Job) /\ work[q].saved \in Seq(Saved)
  BY <1>1 DEF Work, Saved
<1>3. Len(work[q].jobs) \in Nat /\ Len(work[q].saved) \in Nat
  BY <1>2
<1> QED BY <1>1, <1>2, <1>3 DEF WorkFits, Finished

(***************************************************************************)
(* The write that an operation is about is faithful when its jobs are.     *)
(***************************************************************************)
LEMMA BegunRight ==
    ASSUME Inv, NEW r \in Process, stage[r] = "put"
    PROVE  /\ \E k \in 1..Len(work[r].jobs) : JobBegun(r) = work[r].jobs[k]
           /\ Faithful(r) => Right(JobBegun(r), status)
           /\ JobBegun(r) \in Job
<1>1. Len(work[r].saved) \in 1..Len(work[r].jobs) /\ JobBegun(r) \in Job
  BY Begun
<1> QED BY <1>1 DEF JobBegun, Faithful, FaithfulTo

(***************************************************************************)
(* Somebody else's write, or attempt to write, keeps what was done.        *)
(***************************************************************************)
LEMMA OthersWrite ==
    ASSUME Inv, NEW r \in Process, Put(r) \/ PutFails(r), Faithful(r),
           NEW q \in Process \ {r}, Faithful(q), Kept(q)
    PROVE  Kept(q)'
<1>1. /\ stage[r] = "put" /\ work' = work
      /\ zone' \in {zone,
                    [zone EXCEPT ![JobBegun(r).name] = JobBegun(r).want]}
  BY DEF Put, PutFails, At
<1>2. stage'[q] = stage[q]
  BY GoesOn
<1> DEFINE jobs == work[q].jobs
           n == Finished(stage[q], work[q])
<1>3. jobs \in Seq(Job) /\ n \in Int /\ n <= Len(jobs) /\ Len(jobs) \in Nat
  BY FinishedTyped
<1>4. \A i \in 1..n : zone[jobs[i].name] = jobs[i].want
  BY DEF Kept, KeptIn
<1>5. \A i \in 1..n : Right(jobs[i], status)
  BY <1>3 DEF Faithful, FaithfulTo
<1> HIDE DEF jobs, n
<1>6. \A i \in 1..n : jobs[i].name = JobBegun(r).name =>
                         jobs[i].want = JobBegun(r).want
  BY <1>1, <1>5, BegunRight, RightAgree
<1>7. \A i \in 1..n : zone'[jobs[i].name] = jobs[i].want
  BY <1>1, <1>3, <1>4, <1>6, PutKeeps
<1> QED BY <1>1, <1>2, <1>7 DEF Kept, KeptIn, jobs, n

(***************************************************************************)
(* A process that reads or writes keeps what it has done itself.           *)
(***************************************************************************)
LEMMA OwnWrite ==
    ASSUME Inv, NEW r \in Process, Get(r) \/ Put(r), Kept(r),
           Faithful(r) \/ \A i \in 1..Len(work[r].jobs) :
                             work[r].jobs[i].want = "none"
    PROVE  Kept(r)'
<1>1. /\ stage \in [Process -> Stage] /\ work \in [Process -> Work]
      /\ work[r] \in Work
  BY DEF Inv, LocalsFit
<1> DEFINE jobs == work[r].jobs
           n == Finished(stage[r], work[r])
<1>2. /\ jobs \in Seq(Job) /\ n \in Int /\ n <= Len(jobs)
      /\ Len(jobs) \in Nat /\ work[r].saved \in Seq(Saved)
  BY FinishedTyped
<1>3. \A i \in 1..n : zone[jobs[i].name] = jobs[i].want
  BY DEF Kept, KeptIn
<1>4. work'[r].jobs = jobs
  BY GoesOn DEF SameJobs
<1>5. CASE Get(r)
  <2>1. stage[r] = "get" /\ n = Len(work[r].saved) /\ zone' = zone
    BY <1>5 DEF Get, At, Finished
  <2> DEFINE k == Len(work[r].saved) + 1
             e == IF zone[jobs[k].name] = jobs[k].want THEN "unchanged"
                  ELSE zone[jobs[k].name]
  <2>2. Save(r, e)
    BY <1>5 DEF Get, JobAt
  <2>3. e \in Saved
    <3>1. WorkFits("get", work[r])
      BY <2>1 DEF Inv, LocalsFit
    <3>2. k \in 1..Len(jobs)
      BY <1>2, <3>1 DEF WorkFits
    <3>3. jobs[k] \in Job
      BY <1>2, <3>2
    <3> QED BY <3>3 DEF Job, Saved, Inv, SharedTypeOK
  <2>4. stage'[r] = "put" \/ zone[jobs[k].name] = jobs[k].want
    BY <1>1, <1>5 DEF Get, Goto, JobAt
  <2> HIDE DEF e
  <2>5. work'[r].saved = Append(work[r].saved, e)
    BY <1>1, <2>2 DEF Save, Work
  <2>6. Len(work'[r].saved) = n + 1
    BY <1>2, <2>1, <2>3, <2>5, Appends
  <2>7. n \in Nat /\ k = n + 1
    BY <1>2, <2>1
  <2>8. CASE stage'[r] = "put"
    <3>1. Finished(stage'[r], work'[r]) = n
      BY <2>6, <2>7, <2>8 DEF Finished
    <3> QED BY <1>3, <1>4, <2>1, <3>1 DEF Kept, KeptIn
  <2>9. CASE stage'[r] # "put"
    <3>1. Finished(stage'[r], work'[r]) = n + 1
      BY <2>6, <2>7, <2>9 DEF Finished
    <3>2. zone[jobs[n + 1].name] = jobs[n + 1].want
      BY <2>4, <2>7, <2>9
    <3>3. \A i \in 1..n + 1 : zone[jobs[i].name] = jobs[i].want
      BY <1>2, <1>3, <3>2
    <3> QED BY <1>4, <2>1, <3>1, <3>3 DEF Kept, KeptIn
  <2> QED BY <2>8, <2>9
<1>6. CASE Put(r)
  <2>1. /\ stage[r] = "put" /\ work' = work
        /\ zone' = [zone EXCEPT ![JobBegun(r).name] = JobBegun(r).want]
        /\ stage'[r] # "put"
    BY <1>1, <1>6 DEF Put, At, Goto, After
  <2>2. n = Len(work[r].saved) - 1 /\ Len(work[r].saved) \in Nat
    BY <1>2, <2>1 DEF Finished
  <2>3. JobBegun(r) = jobs[n + 1]
    BY <2>2 DEF JobBegun
  <2>4. JobBegun(r) \in Job
    BY <2>1, BegunRight
  <2>5. \A i \in 1..n : jobs[i].name = JobBegun(r).name =>
                           jobs[i].want = JobBegun(r).want
    <3>1. CASE Faithful(r)
      <4>1. \A i \in 1..n : Right(jobs[i], status)
        BY <1>2, <3>1 DEF Faithful, FaithfulTo
      <4>2. Right(JobBegun(r), status)
        BY <2>1, <3>1, BegunRight
      <4> QED BY <4>1, <4>2, RightAgree
    <3>2. CASE \A i \in 1..Len(jobs) : jobs[i].want = "none"
      <4>1. JobBegun(r).want = "none"
        BY <2>1, <3>2, BegunRight
      <4> QED BY <1>2, <3>2, <4>1
    <3> QED BY <3>1, <3>2
  <2> HIDE DEF jobs, n
  <2>6. \A i \in 1..n : zone'[jobs[i].name] = jobs[i].want
    BY <1>2, <1>3, <2>1, <2>5, PutKeeps
  <2>7. zone'[jobs[n + 1].name] = jobs[n + 1].want
    BY <2>1, <2>3, <2>4 DEF Inv, SharedTypeOK, Job
  <2>8. \A i \in 1..n + 1 : zone'[jobs[i].name] = jobs[i].want
    BY <1>2, <2>6, <2>7
  <2>9. Finished(stage'[r], work'[r]) = n + 1
    BY <2>1, <2>2 DEF Finished
  <2> QED BY <1>4, <2>8, <2>9 DEF Kept, KeptIn
<1> QED BY <1>5, <1>6

(***************************************************************************)
(* A reconciliation begins with a job for every registered device.         *)
(***************************************************************************)
LEMMA ListingCovers ==
    ASSUME SharedTypeOK, \A d \in Registered : ValidDeviceHostname(d),
           NEW listing \in Listings
    PROVE  /\ Covers(SyncJobs(listing), status, zone)
           /\ FaithfulTo(SyncJobs(listing), status)
<1> DEFINE n == Cardinality(Registered)
           jobs == SyncJobs(listing)
<1>1. IsFiniteSet(Registered) /\ n \in Nat
  BY DevicesFinite, FS_Subset, FS_CardinalityType DEF Registered
<1>2. listing \in Injection(1..n, Registered)
  BY DEF Listings
<1>3. listing \in [1..n -> Registered]
  BY <1>2 DEF Injection
<1>4. \A d \in Registered : \E i \in 1..n : listing[i] = d
  <2>1. Cardinality(1..n) = n
    BY <1>1, FS_Interval
  <2>2. listing \in Surjection(1..n, Registered)
    BY <1>1, <1>2, <2>1, FS_Injection
  <2> QED BY <2>2 DEF Surjection
<1>5. Len(listing) = n
  BY <1>1, <1>3
<1> HIDE DEF n
<1>6. \A i \in 1..(n + 2) :
         jobs[i] = IF i = 1 THEN [name |-> VpnHostname, want |-> "gateway"]
                   ELSE IF i = 2
                   THEN [name |-> RegisterHostname, want |-> "gateway"]
                   ELSE DeviceJob(listing[i - 2])
  BY <1>5 DEF SyncJobs
<1>7. Len(jobs) = n + 2
  <2>1. jobs = [i \in 1..(n + 2) |-> jobs[i]] /\ n + 2 \in Nat
    BY <1>1, <1>5 DEF SyncJobs
  <2>2. DOMAIN jobs = 1..(n + 2) /\ jobs \in Seq(Job)
    BY <2>1, SyncJobsTyped
  <2> QED BY <2>1, <2>2
<1> HIDE DEF jobs
<1>8. ASSUME NEW m \in OperationalNames PROVE Has(jobs, m)
  <2>1. jobs[1].name = VpnHostname /\ jobs[2].name = RegisterHostname
    BY <1>1, <1>6
  <2>2. 1 \in 1..Len(jobs) /\ 2 \in 1..Len(jobs)
    BY <1>1, <1>7
  <2> QED BY <1>8, <2>1, <2>2 DEF Has, OperationalNames
<1>9. ASSUME NEW d \in Registered PROVE Has(jobs, Hostname[d])
  <2>1. PICK i \in 1..n : listing[i] = d
    BY <1>4
  <2>2. i + 2 \in 1..(n + 2) /\ i + 2 # 1 /\ i + 2 # 2 /\ (i + 2) - 2 = i
    BY <1>1
  <2>3. jobs[i + 2] = DeviceJob(d)
    BY <1>6, <2>1, <2>2
  <2> QED BY <1>7, <2>2, <2>3 DEF Has, DeviceJob
<1>10. ASSUME NEW i \in 1..(n + 2) PROVE Right(jobs[i], status)
  <2>1. CASE i \in {1, 2}
    BY <1>6, <2>1 DEF Right, OperationalNames
  <2>2. CASE i \notin {1, 2}
    <3>1. i - 2 \in 1..n
      BY <1>1, <2>2
    <3>2. listing[i - 2] \in Registered
      BY <1>3, <3>1
    <3>3. jobs[i] = DeviceJob(listing[i - 2])
      BY <1>6, <2>2
    <3>4. ASSUME NEW d \in Registered PROVE Right(DeviceJob(d), status)
      <4>1. ValidDeviceHostname(d) /\ status[d] \in {"enabled", "revoked"}
        BY DEF Registered, SharedTypeOK
      <4> QED BY <4>1 DEF Right, DeviceJob, ValidDeviceHostname, Registered
    <3> QED BY <3>2, <3>3, <3>4
  <2> QED BY <2>1, <2>2
<1> QED BY <1>7, <1>8, <1>9, <1>10 DEF Covers, FaithfulTo, Registered, jobs

(***************************************************************************)
(* Who begins in company that counts on it has read the same registry.     *)
(***************************************************************************)
LEMMA PromiseBegins ==
    ASSUME Inv, Promises, NEW r \in Process, NEW kind, NEW d, NEW jobs,
           At(r, "idle"), Begin(r, kind, d, jobs),
           kind # "delete_device_dns" => FaithfulTo(jobs, status'),
           kind # "revoke_device" => UNCHANGED status,
           kind = "sync_dns" => Covers(jobs, status, zone)
    PROVE  Promises'
<1>1. UNCHANGED zone
  BY DEF Begin
<1>2. /\ stage'[r] \in {"done", "get"}
      /\ work'[r].kind = kind /\ work'[r].jobs = jobs
      /\ work'[r].saved = <<>> /\ work'[r].company = CompanyOf(r, kind)
  <2>1. /\ stage'[r] = IF jobs = <<>> THEN "done" ELSE "get"
        /\ work'[r] = [kind |-> kind, device |-> d, jobs |-> jobs,
                       saved |-> <<>>, before |-> zone,
                       company |-> CompanyOf(r, kind), clean |-> TRUE]
    BY OthersAtBegin
  <2> QED BY <2>1
<1>3. Kept(r)'
  <2>1. Finished(stage'[r], work'[r]) = 0
    BY <1>2, EmptySeq DEF Finished
  <2> QED BY <2>1 DEF Kept, KeptIn
<1>4. \A q \in Process \ {r} :
         /\ stage'[q] = stage[q] /\ work'[q].kind = work[q].kind
         /\ work'[q].jobs = work[q].jobs /\ work'[q].saved = work[q].saved
         /\ ~At(q, "idle") => work'[q].company = Met(q, kind)
  BY OthersAtBegin DEF SameJobs
<1>5. \A q \in Process \ {r} : Kept(q) => Kept(q)'
  BY <1>1, <1>4 DEF Kept, KeptIn, Finished
<1>6. UNCHANGED status =>
         \A q \in Process \ {r} : Faithful(q) => Faithful(q)'
  BY <1>4 DEF Faithful
<1>7. kind # "delete_device_dns" => Faithful(r)'
  BY <1>2 DEF Faithful
<1>8. ASSUME NEW p \in Process \ {r}, Promising(p)'
      PROVE  Promise(p)'
  <2>1. ~At(p, "idle") /\ work'[p].company = Met(p, kind)
    BY <1>4, <1>8 DEF Promising, Working, At
  <2>2. /\ kind \notin {"revoke_device", "delete_device_dns"}
        /\ work[p].kind # "delete_device_dns"
        /\ work[p].company # "disturbed"
    BY <1>8, <2>1 DEF Promising, Met
  <2>3. Promise(p)
    BY <1>4, <1>8, <2>2 DEF Promises, Promising, Working, At
  <2>4. UNCHANGED status
    BY <2>2
  <2>5. Kept(p)' /\ Faithful(p)'
    BY <1>5, <1>6, <2>2, <2>3, <2>4 DEF Promise
  <2>6. work'[p].kind = "sync_dns" => Covers(work'[p].jobs, status', zone')
    BY <1>1, <1>4, <2>3, <2>4 DEF Promise
  <2>7. ASSUME NEW q \in Process \ {p}
        PROVE  ~At(q, "unwind")' /\ (Working(q)' => Faithful(q)' /\ Kept(q)')
    <3>1. CASE q = r
      BY <1>2, <1>3, <1>7, <2>2, <3>1 DEF At
    <3>2. CASE q # r
      <4>1. ~At(q, "unwind") /\ (Working(q) => Faithful(q) /\ Kept(q))
        BY <2>2, <2>3 DEF Promise
      <4> QED BY <1>4, <1>5, <1>6, <2>4, <3>2, <4>1 DEF At, Working
    <3> QED BY <3>1, <3>2
  <2> QED BY <1>4, <2>2, <2>5, <2>6, <2>7 DEF Promise
<1>9. ASSUME Promising(r)'
      PROVE  Promise(r)'
  <2>1. CompanyOf(r, kind) # "disturbed"
    BY <1>2, <1>9 DEF Promising
  <2>2. kind = "sync_dns" => Covers(jobs, status', zone')
    BY <1>1
  <2>3. CASE \A q \in Process \ {r} : ~Running(q)
    <3>1. \A q \in Process \ {r} :
             ~Running(q)' /\ ~At(q, "unwind")' /\ ~Working(q)'
      BY <1>4, <2>3 DEF Running, At, Working
    <3> QED BY <1>2, <1>3, <1>7, <2>2, <3>1 DEF Promise
  <2>4. CASE \E q \in Process \ {r} : Running(q)
    <3>1. /\ kind \notin {"revoke_device", "delete_device_dns"}
          /\ \A q \in Process \ {r} : Running(q) => ~Disturbs(q)
      BY <2>1, <2>4 DEF CompanyOf
    <3>2. ASSUME NEW q \in Process \ {r}
          PROVE  ~At(q, "unwind")' /\ (Working(q)' => Faithful(q)' /\ Kept(q)')
      <4>1. ~At(q, "unwind")
        BY <3>1 DEF At, Running, Disturbs, Restoring
      <4>2. ASSUME Working(q) PROVE Faithful(q) /\ Kept(q)
        <5>1. /\ work[q].kind # "delete_device_dns"
              /\ work[q].company # "disturbed"
          BY <3>1, <4>2 DEF Working, Running, Disturbs
        <5>2. Promise(q)
          BY <4>2, <5>1 DEF Promises, Promising
        <5> QED BY <5>1, <5>2 DEF Promise
      <4> QED BY <1>4, <1>5, <1>6, <3>1, <4>1, <4>2 DEF At, Working
    <3> QED BY <1>2, <1>3, <1>7, <2>2, <3>1, <3>2 DEF Promise
  <2> QED BY <2>3, <2>4
<1> QED BY <1>8, <1>9 DEF Promises

(***************************************************************************)
(* Reading and writing: those whose word counts allow it.                  *)
(***************************************************************************)
LEMMA PromiseWrites ==
    ASSUME Inv, Steady, Promises, NEW r \in Process, Get(r) \/ Put(r)
    PROVE  Promises'
<1> SUFFICES ASSUME NEW p \in Process, Promising(p)'
             PROVE  Promise(p)'
  BY DEF Promises
<1>1. /\ stage \in [Process -> Stage] /\ work \in [Process -> Work]
      /\ zone \in [Name -> Record]
  BY DEF Inv, LocalsFit, SharedTypeOK
<1>2. /\ stage[r] \in {"get", "put"}
      /\ stage'[r] \in {"get", "put", "commit", "done"}
      /\ UNCHANGED <<status, lock>>
  BY <1>1 DEF Get, Put, At, Goto, After
<1>3. \A q \in Process : work'[q].company = work[q].company
  <2>1. UNCHANGED work \/ \E x : work' = [work EXCEPT ![r].saved = x]
    BY DEF Get, Save, Put
  <2>2. ASSUME NEW x, NEW q \in Process,
               work' = [work EXCEPT ![r].saved = x]
        PROVE  work'[q].company = work[q].company
    <3>1. work[q] \in Work
      BY <1>1
    <3>2. work'[q] \in {work[q], [work[q] EXCEPT !.saved = x]}
      BY <1>1, <2>2
    <3> QED BY <3>1, <3>2 DEF Work
  <2> QED BY <2>1, <2>2
<1>4. \A q \in Process :
         /\ work'[q].kind = work[q].kind /\ work'[q].jobs = work[q].jobs
         /\ q # r => /\ stage'[q] = stage[q]
                     /\ work'[q].saved = work[q].saved
  BY GoesOn DEF SameJobs
<1>5. Promise(p)
  BY <1>2, <1>3, <1>4 DEF Promises, Promising, Working, At
<1>6. \A q \in Process : Faithful(q) => Faithful(q)'
  BY <1>2, <1>4 DEF Faithful
<1>7. CASE work[p].kind = "delete_device_dns"
  <2>1. p = r
    BY <1>2, <1>5, <1>7 DEF Promise, Running
  <2>2. \A i \in 1..Len(work[r].jobs) : work[r].jobs[i].want = "none"
    BY <1>7, <2>1 DEF Steady, ShapedBy
  <2>3. Kept(p)'
    BY <1>5, <2>1, <2>2, OwnWrite DEF Promise
  <2>4. \A q \in Process \ {p} : ~Running(q)'
    BY <1>4, <1>5, <1>7, <2>1 DEF Promise, Running
  <2> QED BY <1>4, <1>7, <2>3, <2>4 DEF Promise
<1>8. CASE work[p].kind # "delete_device_dns"
  <2>1. /\ Kept(p) /\ Faithful(p)
        /\ \A q \in Process \ {p} :
              ~At(q, "unwind") /\ (Working(q) => Faithful(q) /\ Kept(q))
    BY <1>5, <1>8 DEF Promise
  <2>2. Faithful(r) /\ Kept(r)
    BY <1>2, <2>1 DEF Working
  <2>3. ASSUME NEW q \in Process, Faithful(q), Kept(q)
        PROVE  Kept(q)'
    <3>1. CASE q = r
      BY <2>3, <3>1, OwnWrite
    <3>2. CASE q # r /\ Put(r)
      BY <2>2, <2>3, <3>2, OthersWrite
    <3>3. CASE q # r /\ Get(r)
      <4>1. zone' = zone
        BY <3>3 DEF Get
      <4> QED BY <1>4, <2>3, <3>3, <4>1 DEF Kept, KeptIn, Finished
    <3> QED BY <3>1, <3>2, <3>3
  <2>4. ASSUME NEW q \in Process \ {p}
        PROVE  ~At(q, "unwind")' /\ (Working(q)' => Faithful(q)' /\ Kept(q)')
    <3>1. Working(q)' => Working(q)
      BY <1>2, <1>4 DEF Working
    <3>2. ~At(q, "unwind")'
      BY <1>2, <1>4, <2>1 DEF At
    <3> QED BY <1>6, <2>1, <2>3, <3>1, <3>2
  <2>5. ASSUME work[p].kind = "sync_dns"
        PROVE  Covers(work[p].jobs, status, zone')
    <3>1. Covers(work[p].jobs, status, zone)
      BY <1>5, <2>5 DEF Promise
    <3>2. ASSUME NEW d \in Device, status[d] = "enabled",
                 ValidDeviceHostname(d), zone[Hostname[d]] = "gateway"
          PROVE  zone'[Hostname[d]] = "gateway"
      <4>1. CASE zone' = zone
        BY <3>2, <4>1
      <4>2. CASE Put(r)
        <5>1. zone' = [zone EXCEPT ![JobBegun(r).name] = JobBegun(r).want]
              /\ stage[r] = "put"
          BY <4>2 DEF Put, At
        <5>2. Right(JobBegun(r), status) /\ JobBegun(r) \in Job
          BY <2>2, <5>1, BegunRight
        <5>3. JobBegun(r).name = Hostname[d] => JobBegun(r).want = "gateway"
          BY <3>2, <5>2, HostnamesDistinct DEF Right
        <5> QED BY <1>1, <3>2, <5>1, <5>2, <5>3 DEF ValidDeviceHostname
      <4> QED BY <4>1, <4>2 DEF Get
    <3> QED BY <3>1, <3>2 DEF Covers
  <2>6. Kept(p)' /\ Faithful(p)'
    BY <1>6, <2>1, <2>3
  <2>7. work'[p].kind = "sync_dns" => Covers(work'[p].jobs, status', zone')
    BY <1>2, <1>4, <2>5
  <2> QED BY <1>4, <1>8, <2>4, <2>6, <2>7 DEF Promise
<1> QED BY <1>7, <1>8

(***************************************************************************)
(* An attempt to write that fails ends the word of the writer, and takes   *)
(* nothing from the others that agree with it.                             *)
(***************************************************************************)
LEMMA PromiseWriteFails ==
    ASSUME Inv, Steady, Promises, NEW r \in Process, PutFails(r)
    PROVE  Promises'
<1> SUFFICES ASSUME NEW p \in Process, Promising(p)'
             PROVE  Promise(p)'
  BY DEF Promises
<1>1. stage \in [Process -> Stage] /\ zone \in [Name -> Record]
  BY DEF Inv, LocalsFit, SharedTypeOK
<1>2. /\ stage[r] = "put" /\ stage'[r] = "redo" /\ UNCHANGED <<status, work>>
      /\ zone' \in {zone,
                    [zone EXCEPT ![JobBegun(r).name] = JobBegun(r).want]}
  BY <1>1 DEF PutFails, At, Goto
<1>3. \A q \in Process \ {r} : stage'[q] = stage[q]
  BY GoesOn
<1>4. p # r
  BY <1>2 DEF Promising, Working, At
<1>5. Promise(p)
  BY <1>2, <1>3, <1>4 DEF Promises, Promising, Working, At
<1>6. work[p].kind # "delete_device_dns"
  BY <1>2, <1>4, <1>5 DEF Promise, Running
<1>7. /\ Kept(p) /\ Faithful(p)
      /\ \A q \in Process \ {p} :
            ~At(q, "unwind") /\ (Working(q) => Faithful(q) /\ Kept(q))
  BY <1>5, <1>6 DEF Promise
<1>8. Faithful(r) /\ Kept(r)
  BY <1>2, <1>4, <1>7 DEF Working
<1>9. \A q \in Process : Faithful(q) => Faithful(q)'
  BY <1>2 DEF Faithful
<1>10. \A q \in Process \ {r} : Faithful(q) /\ Kept(q) => Kept(q)'
  BY <1>8, OthersWrite
<1>11. ASSUME NEW q \in Process \ {p}
       PROVE  ~At(q, "unwind")' /\ (Working(q)' => Faithful(q)' /\ Kept(q)')
  <2>1. CASE q = r
    BY <1>2, <2>1 DEF At, Working
  <2>2. CASE q # r
    BY <1>3, <1>7, <1>9, <1>10, <2>2 DEF At, Working
  <2> QED BY <2>1, <2>2
<1>12. ASSUME work[p].kind = "sync_dns"
       PROVE  Covers(work[p].jobs, status, zone')
  <2>1. Covers(work[p].jobs, status, zone)
    BY <1>5, <1>12 DEF Promise
  <2>2. Right(JobBegun(r), status) /\ JobBegun(r) \in Job
    BY <1>2, <1>8, BegunRight
  <2>3. ASSUME NEW d \in Device, status[d] = "enabled",
               ValidDeviceHostname(d), zone[Hostname[d]] = "gateway"
        PROVE  zone'[Hostname[d]] = "gateway"
    <3>1. JobBegun(r).name = Hostname[d] => JobBegun(r).want = "gateway"
      BY <2>2, <2>3, HostnamesDistinct DEF Right
    <3> QED BY <1>1, <1>2, <2>2, <2>3, <3>1 DEF ValidDeviceHostname
  <2> QED BY <2>1, <2>3 DEF Covers
<1>13. Kept(p)' /\ Faithful(p)'
  BY <1>4, <1>7, <1>9, <1>10
<1> QED BY <1>2, <1>6, <1>11, <1>12, <1>13 DEF Promise

(***************************************************************************)
(* What is undone is undone in nobody's company whose word counts.         *)
(***************************************************************************)
LEMMA PromiseRaises ==
    ASSUME Inv, NEW r \in Process, NEW saved, NEW clean,
           Raise(r, saved, clean)
    PROVE  Promises'
<1>1. stage \in [Process -> Stage] /\ work \in [Process -> Work]
  BY DEF Inv, LocalsFit
<1>2. stage'[r] \in {"unwind", "failed"}
  BY <1>1 DEF Raise, Goto
<1>3. ASSUME NEW q \in Process \ {r}
      PROVE  ~Promising(q)'
  <2>1. stage'[q] = stage[q]
    BY <1>3, GoesOn
  <2>2. work'[q] = IF At(q, "idle") THEN work[q]
                   ELSE [work[q] EXCEPT !.company = "disturbed"]
    BY DEF Raise
  <2>3. ~At(q, "idle") => work'[q].company = "disturbed"
    BY <1>1, <2>2 DEF Work
  <2> QED BY <2>1, <2>3 DEF Promising, Working, At
<1> QED BY <1>2, <1>3 DEF Promises, Promising, Working, At

LEMMA PromiseUnwinds ==
    ASSUME Inv, Promises, NEW r \in Process, NEW clean,
           At(r, "unwind"), Pop(r, clean)
    PROVE  Promises'
<1>1. stage \in [Process -> Stage] /\ work \in [Process -> Work]
  BY DEF Inv, LocalsFit
<1>2. stage'[r] \in {"unwind", "failed"}
  BY <1>1 DEF Pop, Goto
<1>3. \A q \in Process \ {r} : stage'[q] = stage[q] /\ work'[q] = work[q]
  BY <1>1 DEF Pop, Goto
<1>4. \A p \in Process \ {r} : ~Promising(p)
  BY DEF Promises, Promise, Running, At
<1> QED BY <1>2, <1>3, <1>4 DEF Promises, Promising, Working, At

(***************************************************************************)
(* A committed enrollment: a reconciliation that did not know the device   *)
(* finds its record right.                                                 *)
(***************************************************************************)
LEMMA PromiseCommits ==
    ASSUME Inv, Steady, Promises, NEW r \in Process, Commit(r)
    PROVE  Promises'
<1> SUFFICES ASSUME NEW p \in Process, Promising(p)'
             PROVE  Promise(p)'
  BY DEF Promises
<1> DEFINE e == work[r].device
<1>1. /\ stage \in [Process -> Stage] /\ work \in [Process -> Work]
      /\ status \in [Device -> {"unknown", "enabled", "revoked"}]
  BY DEF Inv, LocalsFit, SharedTypeOK
<1>2. /\ stage[r] = "commit" /\ stage'[r] = "done"
      /\ status' = [status EXCEPT ![e] = "enabled"]
      /\ UNCHANGED <<zone, work>>
      /\ \A q \in Process \ {r} : stage'[q] = stage[q]
  BY <1>1 DEF Commit, At, Goto
<1>3. WorkFits("commit", work[r])
  BY <1>2 DEF Inv, LocalsFit
<1>4. work[r].kind = "enroll" /\ e \in Device
  BY <1>3 DEF WorkFits
<1>5. /\ status[e] # "revoked"
      /\ work[r].jobs = <<[name |-> Hostname[e], want |-> "gateway"]>>
      /\ Len(work[r].saved) = Len(work[r].jobs)
  BY <1>2, <1>4 DEF Steady, ShapedBy, Locks
<1>6. Promise(p)
  BY <1>2 DEF Promises, Promising, Working, At
<1>7. \A q \in Process : Faithful(q) => Faithful(q)'
  <2>1. \A d \in Device : (status'[d] = "revoked") = (status[d] = "revoked")
    BY <1>1, <1>2, <1>4, <1>5
  <2> HIDE DEF e
  <2> QED BY <1>2, <2>1 DEF Faithful, FaithfulTo, Right
<1>8. \A q \in Process : Kept(q) => Kept(q)'
  <2>1. \A q \in Process :
           Finished(stage'[q], work[q]) = Finished(stage[q], work[q])
    BY <1>2 DEF Finished
  <2> QED BY <1>2, <2>1 DEF Kept, KeptIn
<1>9. CASE work[p].kind = "delete_device_dns"
  BY <1>2, <1>4, <1>6, <1>9 DEF Promise, Running
<1>10. CASE work[p].kind # "delete_device_dns"
  <2>1. /\ Kept(p) /\ Faithful(p)
        /\ \A q \in Process \ {p} :
              ~At(q, "unwind") /\ (Working(q) => Faithful(q) /\ Kept(q))
    BY <1>6, <1>10 DEF Promise
  <2>2. ASSUME NEW q \in Process \ {p}
        PROVE  ~At(q, "unwind")' /\ (Working(q)' => Faithful(q)' /\ Kept(q)')
    BY <1>2, <1>7, <1>8, <2>1 DEF At, Working
  <2>3. ASSUME work[p].kind = "sync_dns"
        PROVE  Covers(work[p].jobs, status', zone)
    <3>1. Covers(work[p].jobs, status, zone)
      BY <1>6, <2>3 DEF Promise
    <3>2. Kept(r)
      BY <1>2, <2>1 DEF Working
    <3>3. /\ work[r].jobs[1] = [name |-> Hostname[e], want |-> "gateway"]
          /\ Len(work[r].jobs) = 1
      BY <1>5
    <3>4. Finished(stage[r], work[r]) = 1
      BY <1>2, <1>5, <3>3 DEF Finished
    <3>5. zone[Hostname[e]] = "gateway"
      BY <3>2, <3>3, <3>4 DEF Kept, KeptIn
    <3>6. ValidDeviceHostname(e)
      <4>1. work[r].jobs \in Seq(Job)
        BY FinishedTyped
      <4>2. work[r].jobs[1] \in Job
        BY <3>3, <4>1
      <4>3. work[r].jobs[1].name \notin OperationalNames
        BY <1>3, <1>4, <3>3 DEF WorkFits
      <4> QED BY <3>3, <4>2, <4>3 DEF ValidDeviceHostname, Job
    <3>7. \A d \in Device : d # e => status'[d] = status[d]
      BY <1>1, <1>2
    <3>8. status'[e] = "enabled"
      BY <1>1, <1>2, <1>4
    <3> HIDE DEF e
    <3> QED BY <3>1, <3>5, <3>6, <3>7, <3>8 DEF Covers
  <2>4. Kept(p)' /\ Faithful(p)'
    BY <1>7, <1>8, <2>1
  <2> QED BY <1>2, <1>10, <2>2, <2>3, <2>4 DEF Promise
<1> QED BY <1>9, <1>10

LEMMA PromiseLeaves ==
    ASSUME Inv, Promises, NEW r \in Process, Return(r) \/ Dies(r)
    PROVE  Promises'
<1> SUFFICES ASSUME NEW p \in Process, Promising(p)'
             PROVE  Promise(p)'
  BY DEF Promises
<1>1. /\ stage'[r] = "idle" /\ UNCHANGED <<status, zone>>
      /\ \A q \in Process \ {r} :
            stage'[q] = stage[q] /\ work'[q] = work[q]
  BY OthersAtEnd
<1>2. p # r
  BY <1>1 DEF Promising, Working, At
<1>3. Promise(p)
  BY <1>1, <1>2 DEF Promises, Promising, Working, At
<1>4. \A q \in Process \ {r} :
         (Kept(q) => Kept(q)') /\ (Faithful(q) => Faithful(q)')
  BY <1>1 DEF Kept, Faithful
<1> QED BY <1>1, <1>2, <1>3, <1>4 DEF Promise, Running, Working, At

LEMMA PromiseStep ==
    ASSUME Inv, Steady, Promises, [Next]_vars
    PROVE  Promises'
<1>0. status \in [Device -> {"unknown", "enabled", "revoked"}]
      /\ SharedTypeOK
  BY DEF Inv, SharedTypeOK
<1>1. ASSUME NEW r \in Process, StartSync(r) PROVE Promises'
  <2>1. PICK listing \in Listings :
           Begin(r, "sync_dns", Outside, SyncJobs(listing))
    BY <1>1 DEF StartSync
  <2>2. /\ Covers(SyncJobs(listing), status, zone)
        /\ FaithfulTo(SyncJobs(listing), status)
    BY <1>0, <1>1, ListingCovers DEF StartSync
  <2>3. At(r, "idle") /\ status' = status
    BY <1>1 DEF StartSync
  <2> QED BY <2>1, <2>2, <2>3, PromiseBegins
<1>2. ASSUME NEW d \in Device, NEW want \in {"gateway", "none"}, NEW st,
             ValidDeviceHostname(d),
             want = IF st[d] = "revoked" THEN "none" ELSE "gateway"
      PROVE  FaithfulTo(<<[name |-> Hostname[d], want |-> want]>>, st)
  <2>1. Right([name |-> Hostname[d], want |-> want], st)
    BY <1>2 DEF Right, ValidDeviceHostname
  <2> QED BY <2>1 DEF FaithfulTo
<1>3. ASSUME NEW r \in Process, NEW d \in Device, StartEnsure(r, d)
      PROVE  Promises'
  <2> DEFINE jobs == <<[name |-> Hostname[d], want |-> "gateway"]>>
  <2>1. At(r, "idle") /\ Begin(r, "ensure_device_dns", d, jobs)
    BY <1>3 DEF StartEnsure, DeviceJob
  <2>2. status' = status /\ FaithfulTo(jobs, status)
    BY <1>2, <1>3 DEF StartEnsure
  <2> HIDE DEF jobs
  <2> QED BY <2>1, <2>2, PromiseBegins
<1>4. ASSUME NEW r \in Process, NEW d \in Device, StartDelete(r, d)
      PROVE  Promises'
  BY <1>4, PromiseBegins DEF StartDelete
<1>5. ASSUME NEW r \in Process, NEW d \in Device, StartRevoke(r, d)
      PROVE  Promises'
  <2> DEFINE job == <<[name |-> Hostname[d], want |-> "none"]>>
  <2>1. status'[d] = "revoked"
    BY <1>0, <1>5 DEF StartRevoke
  <2>2. PICK jobs :
           /\ At(r, "idle") /\ Begin(r, "revoke_device", d, jobs)
           /\ (ValidDeviceHostname(d) /\ jobs = job) \/ jobs = <<>>
    BY <1>5 DEF StartRevoke
  <2>3. FaithfulTo(<<>>, status')
    BY EmptySeq DEF FaithfulTo
  <2>4. ValidDeviceHostname(d) => FaithfulTo(job, status')
    BY <1>2, <2>1
  <2> HIDE DEF job
  <2>5. FaithfulTo(jobs, status')
    BY <2>2, <2>3, <2>4
  <2> QED BY <2>2, <2>5, PromiseBegins
<1>6. ASSUME NEW r \in Process, NEW d \in Device, StartEnroll(r, d)
      PROVE  Promises'
  <2> DEFINE jobs == <<[name |-> Hostname[d], want |-> "gateway"]>>
  <2>1. At(r, "idle") /\ Begin(r, "enroll", d, jobs)
    BY <1>6 DEF StartEnroll
  <2>2. status' = status /\ FaithfulTo(jobs, status)
    BY <1>2, <1>6 DEF StartEnroll
  <2> HIDE DEF jobs
  <2> QED BY <2>1, <2>2, PromiseBegins
<1>7. ASSUME NEW r \in Process, NEW saved, NEW clean, Raise(r, saved, clean)
      PROVE  Promises'
  BY <1>7, PromiseRaises
<1>8. ASSUME NEW r \in Process, Unwind(r) \/ UnwindFails(r) PROVE Promises'
  BY <1>8, PromiseUnwinds DEF Unwind, UnwindFails
<1>9. CASE UNCHANGED vars
  BY <1>9 DEF vars, Promises, Promising, Promise, Kept, Faithful, Working,
     Running, At
<1> QED BY <1>1, <1>3, <1>4, <1>5, <1>6, <1>7, <1>8, <1>9, PromiseWrites,
        PromiseWriteFails, PromiseCommits, PromiseLeaves
        DEF Next, GetFails, Redo, RedoFails, CommitFails

(***************************************************************************)
(* The whole of what keeps the word of operations that overlap.            *)
(***************************************************************************)
WordKept == Inv /\ Steady /\ Promises

LEMMA WordKeptAlways == Spec => []WordKept
<1>1. Init => WordKept
  <2> SUFFICES ASSUME Init PROVE WordKept
    OBVIOUS
  <2>1. Steady
    BY EmptySeq DEF Init, Steady, ShapedBy, Locks, NoWork
  <2>2. Promises
    BY DEF Init, Promises, Promising, Working, At
  <2> QED BY <2>1, <2>2, InvInit DEF WordKept
<1>2. WordKept /\ [Next]_vars => WordKept'
  BY InvStep, SteadyStep, PromiseStep DEF WordKept
<1> QED BY <1>1, <1>2, PTL DEF Spec

(***************************************************************************)
(* DoneMeansDone for every instance.                                       *)
(***************************************************************************)
THEOREM DoneAlwaysMeansDone == Spec => []DoneMeansDone
<1>1. WordKept => DoneMeansDone
  <2> SUFFICES ASSUME WordKept, NEW p \in Process, At(p, "done"),
                      work[p].company # "disturbed",
                      NEW i \in 1..Len(work[p].jobs)
               PROVE  zone[work[p].jobs[i].name] = work[p].jobs[i].want
    BY DEF DoneMeansDone
  <2>1. Kept(p)
    BY DEF WordKept, Promises, Promising, Promise
  <2>2. Finished(stage[p], work[p]) = Len(work[p].jobs)
    BY DEF WordKept, Steady, ShapedBy, Finished, At
  <2> QED BY <2>1, <2>2 DEF Kept, KeptIn
<1> QED BY <1>1, WordKeptAlways, PTL

(***************************************************************************)
(* SyncReconciles for every instance: a reconciliation that ends well has  *)
(* put every name right, whoever else is at work, for any number of        *)
(* devices and of processes that enroll, ensure and reconcile meanwhile.   *)
(***************************************************************************)
THEOREM SyncAlwaysReconciles == Spec => []SyncReconciles
<1>1. WordKept /\ DoneMeansDone => SyncReconciles
  <2> SUFFICES ASSUME WordKept, DoneMeansDone, NEW p \in Process,
                      At(p, "done"), work[p].kind = "sync_dns",
                      work[p].company # "disturbed"
               PROVE  Reconciled
    BY DEF SyncReconciles
  <2>1. Covers(work[p].jobs, status, zone) /\ Faithful(p)
    BY DEF WordKept, Promises, Promising, Promise
  <2>2. ASSUME NEW n, Has(work[p].jobs, n)
        PROVE  \E j : /\ Right(j, status) /\ j.name = n
                      /\ zone[n] = j.want
    BY <2>1, <2>2 DEF Has, Faithful, FaithfulTo, DoneMeansDone
  <2>3. ASSUME NEW n \in OperationalNames PROVE zone[n] = "gateway"
    <3>1. Has(work[p].jobs, n)
      BY <2>1 DEF Covers
    <3> QED BY <2>2, <3>1 DEF Right
  <2>4. ASSUME NEW d \in Registered
        PROVE  zone[Hostname[d]] =
                  IF status[d] = "enabled" THEN "gateway" ELSE "none"
    <3>1. /\ ValidDeviceHostname(d) /\ d \in Device
          /\ \/ Has(work[p].jobs, Hostname[d])
             \/ status[d] = "enabled" /\ zone[Hostname[d]] = "gateway"
      BY <2>1 DEF Covers, Registered
    <3>2. status[d] \in {"enabled", "revoked"}
      BY DEF WordKept, Inv, SharedTypeOK, Registered
    <3>3. ASSUME Has(work[p].jobs, Hostname[d])
          PROVE  zone[Hostname[d]] =
                    IF status[d] = "revoked" THEN "none" ELSE "gateway"
      <4>1. PICK j : /\ Right(j, status) /\ j.name = Hostname[d]
                     /\ zone[Hostname[d]] = j.want
        BY <2>2, <3>3
      <4> QED BY <3>1, <4>1, HostnamesDistinct
              DEF Right, ValidDeviceHostname
    <3> QED BY <3>1, <3>2, <3>3
  <2> QED BY <2>3, <2>4 DEF Reconciled
<1> QED BY <1>1, WordKeptAlways, DoneAlwaysMeansDone, PTL
=============================================================================
