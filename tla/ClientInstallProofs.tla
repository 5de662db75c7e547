------------------------ MODULE ClientInstallProofs -------------------------
(***************************************************************************)
(* Proofs about ClientInstall, for every set of devices, keys, tokens,     *)
(* addresses and clients and every bound on what may fail: types; that     *)
(* the clients' keys, addresses and identities stay the registry's; that   *)
(* an installation that ends well runs what was persisted; and that what   *)
(* it persists, runs and asks for follows what the gateway gave.           *)
(***************************************************************************)
EXTENDS ClientInstall, TLAPS

(***************************************************************************)
(* What a client whose script is at stage s has: variables r, key k.       *)
(***************************************************************************)
RunFits(s, r, k) ==
    /\ s \notin {"config", "service", "done"} => r.next <= Len(PersistOrder)
    /\ s \notin {"idle", "identity"} => r.device \in Device
    /\ s \in {"enroll", "waiting"} => r.token \in Token
    /\ s \notin {"idle", "identity", "key"} => k \in Key

Fits == \A c \in Client : RunFits(stage[c], run[c], private[c])

TablesTyped == DB!TypeOK
FilesTyped ==
    /\ identity \in [Client -> Device \cup {Empty}]
    /\ private \in [Client -> Key \cup {Empty}]
    /\ state \in [Client -> [StateFile -> Value]]
TunnelTyped ==
    /\ wgconf \in [Client -> WireGuard \cup {NotInstalled}]
    /\ interface \in [Client -> WireGuard \cup {NotInstalled}]
ScriptTyped ==
    /\ stage \in [Client -> Stage]
    /\ run \in [Client -> Run]
BudgetTyped ==
    budget \in [fault : Nat, crash : Nat, unapplied : Nat, revoke : Nat]

(***************************************************************************)
(* The parts of the type invariant, so that a step names the part it       *)
(* touches.                                                                *)
(***************************************************************************)
LEMMA TypeParts ==
    /\ TypeOK <=> /\ TablesTyped /\ inflight \subseteq Request
                  /\ FilesTyped /\ TunnelTyped /\ ScriptTyped /\ BudgetTyped
    /\ TypeOK' <=> /\ TablesTyped' /\ inflight' \subseteq Request
                   /\ FilesTyped' /\ TunnelTyped' /\ ScriptTyped'
                   /\ BudgetTyped'
BY DEF TypeOK, TablesTyped, FilesTyped, TunnelTyped, ScriptTyped, BudgetTyped

(***************************************************************************)
(* The five files.                                                         *)
(***************************************************************************)
LEMMA Order ==
    /\ Len(PersistOrder) = 5
    /\ StateFile = {"server-public-key", "client-address", "server-endpoint",
                    "server-tunnel-ip", "hostname"}
    /\ \A i \in 1..5 : PersistOrder[i] \in StateFile
<1>1. Len(PersistOrder) = 5
  BY DEF PersistOrder
<1>2. /\ PersistOrder[1] = "server-public-key"
      /\ PersistOrder[2] = "client-address"
      /\ PersistOrder[3] = "server-endpoint"
      /\ PersistOrder[4] = "server-tunnel-ip"
      /\ PersistOrder[5] = "hostname"
  BY DEF PersistOrder
<1>3. 1..5 = {1, 2, 3, 4, 5}
  OBVIOUS
<1>4. StateFile = {PersistOrder[i] : i \in {1, 2, 3, 4, 5}}
  BY <1>1, <1>3 DEF StateFile
<1> QED BY <1>1, <1>2, <1>3, <1>4

(***************************************************************************)
(* A script moves to a stage, with variables and a key that fit.           *)
(***************************************************************************)
LEMMA Moves ==
    ASSUME ScriptTyped, Fits, NEW c \in Client, NEW s \in Stage, NEW r \in Run,
           Goto(c, s), Set(c, r), RunFits(s, r, private'[c]),
           \A b \in Client \ {c} : private'[b] = private[b]
    PROVE  ScriptTyped' /\ Fits'
BY DEF ScriptTyped, Fits, Goto, Set

(***************************************************************************)
(* A script that does not run has variables of their types.                *)
(***************************************************************************)
LEMMA NotRunningTyped ==
    NotRunning \in Run /\ NotRunning.next = 1
BY Order DEF NotRunning, Run, Nothing, Value

(***************************************************************************)
(* A script that ends fits again.                                          *)
(***************************************************************************)
LEMMA Exits ==
    ASSUME ScriptTyped, Fits, NEW c \in Client, Exit(c), UNCHANGED private
    PROVE  ScriptTyped' /\ Fits'
<1> QED BY NotRunningTyped, Moves, Order DEF Exit, RunFits, Stage

(***************************************************************************)
(* A step that leaves the script and the key alone keeps what fits.        *)
(***************************************************************************)
LEMMA Stays ==
    ASSUME ScriptTyped, Fits, UNCHANGED <<stage, run, private>>
    PROVE  ScriptTyped' /\ Fits'
BY DEF ScriptTyped, Fits

Inv == TypeOK /\ Fits

(***************************************************************************)
(* Running the script begins at the identity, with given variables.        *)
(***************************************************************************)
LEMMA Invokes ==
    ASSUME Inv, NEW c \in Client, NEW r \in Run, Invoke(c, r),
           r.next = 1
    PROVE  Inv'
<1>1. ScriptTyped' /\ Fits'
  <2>1. RunFits("identity", r, private'[c]) /\ "identity" \in Stage
    BY Order DEF RunFits, Stage
  <2> QED BY <2>1, Moves, TypeParts DEF Inv, Invoke, files
<1>2. /\ TablesTyped' /\ inflight' \subseteq Request
      /\ FilesTyped' /\ TunnelTyped' /\ BudgetTyped'
  BY TypeParts DEF Inv, Invoke, registry, files, tunnel, TablesTyped,
     FilesTyped, TunnelTyped, BudgetTyped, DB!TypeOK
<1> QED BY <1>1, <1>2, TypeParts DEF Inv

(***************************************************************************)
(* What a step leaves unchanged keeps its type.                            *)
(***************************************************************************)
LEMMA Frames ==
    /\ UNCHANGED registry /\ TablesTyped => TablesTyped'
    /\ UNCHANGED files /\ FilesTyped => FilesTyped'
    /\ UNCHANGED tunnel /\ TunnelTyped => TunnelTyped'
    /\ UNCHANGED budget /\ BudgetTyped => BudgetTyped'
BY DEF TablesTyped, DB!TypeOK, registry, FilesTyped, files, TunnelTyped,
   tunnel, BudgetTyped

(***************************************************************************)
(* The gway commands and the manual recovery give the script values of     *)
(* their types.                                                            *)
(***************************************************************************)
LEMMA InvocationStep ==
    ASSUME Inv, NEW c \in Client,
           \/ \E d \in Named \cup {Empty} :
                 \/ Prepare(c, d)
                 \/ \E t \in Token \cup {Empty} : Enroll(c, d, t)
           \/ Recover(c)
    PROVE  Inv'
<1>1. ASSUME NEW d \in Named \cup {Empty}, Prepare(c, d) PROVE Inv'
  <2> DEFINE r == [NotRunning EXCEPT !.mode = "prepare", !.device = d]
  <2>1. r \in Run /\ r.next = 1
    <3>1. d \in Device \cup {Empty}
      BY ClientConstants
    <3> QED BY <3>1, NotRunningTyped DEF Run
  <2> QED BY <1>1, <2>1, Invokes DEF Prepare
<1>2. ASSUME NEW d \in Named \cup {Empty}, NEW t \in Token \cup {Empty},
             Enroll(c, d, t)
      PROVE  Inv'
  <2> DEFINE r == [NotRunning EXCEPT !.device = d, !.token = t]
  <2>1. r \in Run /\ r.next = 1
    <3>1. d \in Device \cup {Empty}
      BY ClientConstants
    <3> QED BY <3>1, NotRunningTyped DEF Run
  <2> QED BY <1>2, <2>1, Invokes DEF Enroll
<1>3. CASE Recover(c)
  <2>1. PICK d \in DB!RegisteredDevices :
           Invoke(c, [NotRunning EXCEPT
                        !.value = [f \in StateFile |->
                           CASE f = "client-address" -> devices[d].address
                             [] f = "hostname" -> Empty
                             [] OTHER -> Gateway]])
    BY <1>3 DEF Recover
  <2> DEFINE v == [f \in StateFile |->
                     CASE f = "client-address" -> devices[d].address
                       [] f = "hostname" -> Empty
                       [] OTHER -> Gateway]
  <2>2. devices[d].address \in Address
    BY TypeParts DEF Inv, TablesTyped, DB!TypeOK, DB!Row,
       DB!RegisteredDevices, DB!Registered
  <2>3. v \in [StateFile -> Value]
    BY <2>2 DEF Value
  <2> HIDE DEF v
  <2>4. [NotRunning EXCEPT !.value = v] \in Run
        /\ [NotRunning EXCEPT !.value = v].next = 1
    BY <2>3, NotRunningTyped DEF Run
  <2> QED BY <2>1, <2>4, Invokes DEF v
<1> QED BY <1>1, <1>2, <1>3

-----------------------------------------------------------------------------
(***************************************************************************)
(* The identity and the key are made, or the script refuses.               *)
(***************************************************************************)
LEMMA IdentityStep ==
    ASSUME Inv, NEW c \in Client, KeepIdentity(c) \/ RefuseIdentity(c)
    PROVE  Inv'
<1>1. run[c] \in Run /\ identity[c] \in Device \cup {Empty}
  BY TypeParts DEF Inv, ScriptTyped, FilesTyped
<1>2. CASE KeepIdentity(c)
  <2>1. ResolvedDevice(c) \in Device
    <3>1. HostnameOf[c] \in Device
      BY ClientConstants
    <3> QED BY <1>1, <3>1 DEF ResolvedDevice, First, Run
  <2> DEFINE r == [run[c] EXCEPT !.device = ResolvedDevice(c)]
  <2>2. r \in Run /\ r.next = run[c].next /\ r.device = ResolvedDevice(c)
    BY <1>1, <2>1 DEF Run
  <2>3. RunFits("key", r, private'[c]) /\ "key" \in Stage
    <3>1. RunFits("identity", run[c], private[c])
      BY <1>2 DEF KeepIdentity, At, Inv, Fits
    <3> QED BY <2>1, <2>2, <3>1 DEF RunFits, Stage
  <2>4. ScriptTyped' /\ Fits'
    BY <1>2, <2>2, <2>3, Moves, TypeParts DEF KeepIdentity, Inv
  <2>5. FilesTyped'
    BY <1>2, <2>1, TypeParts DEF KeepIdentity, Inv, FilesTyped
  <2> QED BY <1>2, <2>4, <2>5, Frames, TypeParts DEF KeepIdentity, Inv
<1>3. CASE RefuseIdentity(c)
  <2>1. ScriptTyped' /\ Fits'
    BY <1>3, Exits, TypeParts DEF RefuseIdentity, Inv, files
  <2> QED BY <1>3, <2>1, Frames, TypeParts DEF RefuseIdentity, Inv
<1> QED BY <1>2, <1>3

(***************************************************************************)
(* The key is made when there is none, and kept when there is one.         *)
(***************************************************************************)
LEMMA KeyStep ==
    ASSUME Inv, NEW c \in Client, EnsureKey(c)
    PROVE  Inv'
<1>1. PICK k \in Key : private' = [private EXCEPT ![c] = k]
  <2>1. private \in [Client -> Key \cup {Empty}]
    BY TypeParts DEF Inv, FilesTyped
  <2>2. CASE private[c] = Empty
    BY <2>2 DEF EnsureKey
  <2>3. CASE private[c] # Empty
    <3>1. private[c] \in Key /\ private' = [private EXCEPT ![c] = private[c]]
      BY <2>1, <2>3 DEF EnsureKey
    <3> QED BY <3>1
  <2> QED BY <2>2, <2>3
<1>2. /\ private' \in [Client -> Key \cup {Empty}] /\ private'[c] = k
      /\ \A b \in Client \ {c} : private'[b] = private[b]
  BY <1>1, TypeParts DEF Inv, FilesTyped
<1>3. RunFits("key", run[c], private[c]) /\ run[c] \in Run
  BY TypeParts DEF EnsureKey, At, Inv, Fits, ScriptTyped
<1>4. PICK s \in {"done", "load"} : Goto(c, s)
  BY DEF EnsureKey, AfterKey
<1>5. RunFits(s, run[c], private'[c]) /\ s \in Stage
  BY <1>2, <1>3, <1>4 DEF RunFits, Stage
<1>6. Set(c, run[c])
  BY TypeParts DEF EnsureKey, Set, Inv, ScriptTyped
<1>7. ScriptTyped' /\ Fits'
  BY <1>2, <1>3, <1>4, <1>5, <1>6, Moves, TypeParts DEF Inv
<1>8. FilesTyped'
  BY <1>2, TypeParts DEF EnsureKey, Inv, FilesTyped
<1> QED BY <1>7, <1>8, Frames, TypeParts DEF EnsureKey, Inv

-----------------------------------------------------------------------------
(***************************************************************************)
(* What the script goes on with is made of values.                         *)
(***************************************************************************)
LEMMA LoadedTyped ==
    ASSUME Inv, NEW c \in Client
    PROVE  /\ Loaded(c) \in [StateFile -> Value]
           /\ WithDefaults(Loaded(c)) \in [StateFile -> Value]
           /\ WithDefaults(Loaded(c))["client-address"]
                 = Loaded(c)["client-address"]
<1>1. /\ run[c].value \in [StateFile -> Value]
      /\ state[c] \in [StateFile -> Value]
  BY TypeParts DEF Inv, ScriptTyped, FilesTyped, Run
<1>2. Loaded(c) \in [StateFile -> Value]
  BY <1>1 DEF Loaded, First
<1>3. Default \in Value
  BY DEF Value
<1> HIDE DEF Loaded
<1>4. ASSUME NEW v \in [StateFile -> Value]
      PROVE  WithDefaults(v) \in [StateFile -> Value]
  BY <1>3, <1>4 DEF WithDefaults, First
<1> QED BY <1>2, <1>4, Order DEF WithDefaults

(***************************************************************************)
(* The script goes on to persist or to enroll, or ends for want of a token.*)
(***************************************************************************)
LEMMA LoadStep ==
    ASSUME Inv, NEW c \in Client, Load(c)
    PROVE  Inv'
<1> DEFINE r == [run[c] EXCEPT !.value = WithDefaults(Loaded(c))]
<1>1. RunFits("load", run[c], private[c]) /\ run[c] \in Run
  BY TypeParts DEF Load, At, Inv, Fits, ScriptTyped
<1>2. /\ r \in Run /\ r.next = run[c].next /\ r.device = run[c].device
      /\ r.token = run[c].token
  BY <1>1, LoadedTyped DEF Run
<1> HIDE DEF r
<1>3. CASE Goto(c, "persist") /\ Set(c, r)
  <2>1. RunFits("persist", r, private'[c]) /\ "persist" \in Stage
    BY <1>1, <1>2 DEF RunFits, Stage, Load, files
  <2> QED BY <1>2, <1>3, <2>1, Moves, TypeParts, Frames DEF Load, Inv, files
<1>4. CASE Goto(c, "enroll") /\ Set(c, r) /\ run[c].token # Empty
  <2>1. RunFits("enroll", r, private'[c]) /\ "enroll" \in Stage
    BY <1>1, <1>2, <1>4 DEF RunFits, Stage, Load, files, Run
  <2> QED BY <1>2, <1>4, <2>1, Moves, TypeParts, Frames DEF Load, Inv, files
<1>5. CASE Exit(c)
  BY <1>5, Exits, TypeParts, Frames DEF Load, Inv, files
<1> QED BY <1>3, <1>4, <1>5 DEF Load, r

(***************************************************************************)
(* A request is made of the script's device, key and token.                *)
(***************************************************************************)
LEMMA SendStep ==
    ASSUME Inv, NEW c \in Client, Send(c)
    PROVE  Inv'
<1>1. RunFits("enroll", run[c], private[c]) /\ run[c] \in Run
  BY TypeParts DEF Send, At, Inv, Fits, ScriptTyped
<1>2. [client |-> c, device |-> run[c].device, key |-> private[c],
       token |-> run[c].token, awaited |-> TRUE] \in Request
  BY <1>1 DEF RunFits, Request
<1>3. inflight' \subseteq Request
  BY <1>2, TypeParts DEF Send, Inv
<1>4. RunFits("waiting", run[c], private'[c]) /\ "waiting" \in Stage
  BY <1>1 DEF RunFits, Stage, Send, files
<1>5. Set(c, run[c])
  BY TypeParts DEF Send, Set, Inv, ScriptTyped
<1> QED BY <1>1, <1>3, <1>4, <1>5, Moves, TypeParts, Frames
        DEF Send, Inv, files

(***************************************************************************)
(* Requests that nobody waits for are still requests.                      *)
(***************************************************************************)
LEMMA AbandonedTyped ==
    ASSUME inflight \subseteq Request, NEW c \in Client
    PROVE  Abandoned(c) \subseteq Request
BY DEF Abandoned, Request

(***************************************************************************)
(* Giving up ends the script and abandons its request.                     *)
(***************************************************************************)
LEMMA TimesOutStep ==
    ASSUME Inv, NEW c \in Client, TimesOut(c)
    PROVE  Inv'
<1>1. BudgetTyped'
  BY TypeParts DEF TimesOut, Spend, BudgetTyped, Inv
<1> QED BY <1>1, AbandonedTyped, Exits, TypeParts, Frames
        DEF TimesOut, Inv, files

-----------------------------------------------------------------------------
(***************************************************************************)
(* The gateway's transactions, and what each answer does to the script     *)
(* that waits for it.                                                      *)
(***************************************************************************)
LEMMA TransactionTyped ==
    ASSUME TablesTyped, NEW q \in Request,
           \/ DB!Register(q.device, q.key, q.token)
           \/ DB!Reenroll(q.device, q.key, q.token)
    PROVE  /\ TablesTyped'
           /\ DB!Registered(q.device)' /\ devices'[q.device] \in DB!Row
           /\ devices'[q.device].key = q.key
           /\ \A d \in Device :
                 DB!Registered(d) => devices'[d] = devices[d]
<1>1. q.device \in Device /\ q.key \in Key /\ q.token \in Token
  BY DEF Request
<1>2. tokens' \in [Token -> DB!TokenRow]
  BY <1>1 DEF TablesTyped, DB!TypeOK, DB!Register, DB!Reenroll, DB!Consume,
     DB!TokenRow, DB!TokenState
<1>3. \A row \in DB!Row : row # NoRow
  BY NoRowIsDistinct DEF DB!Row
<1>4. CASE DB!Register(q.device, q.key, q.token)
  <2>1. PICK a \in Address :
           devices' = [devices EXCEPT ![q.device] =
                         [key |-> q.key, address |-> a, enabled |-> TRUE]]
    BY <1>4 DEF DB!Register, DB!FreeAddresses
  <2>2. [key |-> q.key, address |-> a, enabled |-> TRUE] \in DB!Row
    BY <1>1 DEF DB!Row
  <2>3. devices' \in [Device -> DB!Row \cup {NoRow}]
    BY <2>1, <2>2 DEF TablesTyped, DB!TypeOK
  <2>4. devices'[q.device]
           = [key |-> q.key, address |-> a, enabled |-> TRUE]
    BY <1>1, <2>1 DEF TablesTyped, DB!TypeOK
  <2>5. \A d \in Device : DB!Registered(d) => devices'[d] = devices[d]
    BY <1>4, <2>1 DEF DB!Register, DB!Registered, TablesTyped, DB!TypeOK
  <2>6. TablesTyped'
    BY <1>2, <2>3 DEF TablesTyped, DB!TypeOK
  <2>7. DB!Registered(q.device)' /\ devices'[q.device] \in DB!Row
    BY <1>3, <2>2, <2>4 DEF DB!Registered
  <2>8. devices'[q.device].key = q.key
    BY <2>4
  <2> QED BY <2>5, <2>6, <2>7, <2>8
<1>5. CASE DB!Reenroll(q.device, q.key, q.token)
  BY <1>1, <1>2, <1>5
     DEF DB!Reenroll, DB!Registered, TablesTyped, DB!TypeOK
<1> QED BY <1>4, <1>5

(***************************************************************************)
(* An answer that is accepted brings the waiting script to the persisting. *)
(***************************************************************************)
LEMMA AcceptedFits ==
    ASSUME ScriptTyped, FilesTyped, Fits, NEW q \in Request, NEW a \in Address,
           q.awaited => stage[q.client] = "waiting",
           Accepted(q, a), UNCHANGED files
    PROVE  ScriptTyped' /\ Fits'
<1> DEFINE c == q.client
           v == [[f \in StateFile |-> Gateway] EXCEPT !["client-address"] = a]
           r == [run[c] EXCEPT !.value = v]
<1>1. c \in Client
  BY DEF Request
<1>2. CASE q.awaited
  <2>1. RunFits("waiting", run[c], private[c]) /\ run[c] \in Run
    BY <1>1, <1>2 DEF Fits, ScriptTyped
  <2>2. v \in [StateFile -> Value]
    BY DEF Value
  <2>3. Goto(c, "persist") /\ Set(c, r)
    BY <1>2 DEF Accepted
  <2> HIDE DEF v
  <2>4. r \in Run /\ r.next = run[c].next /\ r.device = run[c].device
    BY <2>1, <2>2 DEF Run
  <2>5. RunFits("persist", r, private'[c]) /\ "persist" \in Stage
    BY <2>1, <2>4 DEF RunFits, Stage, files
  <2> QED BY <1>1, <2>3, <2>4, <2>5, Moves DEF files
<1>3. CASE ~q.awaited
  BY <1>3, Stays DEF Accepted, files
<1> QED BY <1>2, <1>3

(***************************************************************************)
(* An answer that is not accepted ends the waiting script.                 *)
(***************************************************************************)
LEMMA RejectedFits ==
    ASSUME ScriptTyped, FilesTyped, Fits, NEW q \in Request,
           Rejected(q), UNCHANGED files
    PROVE  ScriptTyped' /\ Fits'
<1>1. q.client \in Client
  BY DEF Request
<1> QED BY <1>1, Exits, Stays DEF Rejected, files

(***************************************************************************)
(* A client waits for at most one of its requests, and was given no other  *)
(* key since it sent them.                                                 *)
(***************************************************************************)
Asked ==
    \A q \in inflight :
       /\ q.awaited => stage[q.client] = "waiting"
       /\ private[q.client] = q.key
       /\ \A x \in inflight :
             x.client = q.client /\ x.awaited /\ q.awaited => x = q

(***************************************************************************)
(* What the gateway does with a request, whether it answers or not.        *)
(***************************************************************************)
LEMMA ServeStep ==
    ASSUME Inv, Asked, NEW q \in inflight,
           Serve(q) \/ ServeFailure(q) \/ AnswerLost(q)
    PROVE  Inv'
<1>1. q \in Request /\ q.awaited => stage[q.client] = "waiting"
  BY TypeParts DEF Inv, Asked
<1>2. inflight' \subseteq Request /\ UNCHANGED files /\ UNCHANGED tunnel
  BY TypeParts DEF Serve, ServeRegister, ServeReenroll, ServeRefusal,
     ServeFailure, AnswerLost, Answered, Inv
<1>3. BudgetTyped'
  BY TypeParts DEF Serve, ServeRegister, ServeReenroll, ServeRefusal,
     ServeFailure, AnswerLost, Spend, BudgetTyped, Inv
<1>4. q \in Request
  BY TypeParts DEF Inv
<1>5. TablesTyped'
  <2>1. CASE UNCHANGED registry
    BY <2>1, Frames, TypeParts DEF Inv
  <2>2. CASE \/ DB!Register(q.device, q.key, q.token)
             \/ DB!Reenroll(q.device, q.key, q.token)
    BY <1>4, <2>2, TransactionTyped, TypeParts DEF Inv
  <2> QED BY <2>1, <2>2 DEF Serve, ServeRegister, ServeReenroll,
             ServeRefusal, ServeFailure, AnswerLost, registry
<1>6. ScriptTyped' /\ Fits'
  <2>1. CASE Rejected(q)
    BY <1>2, <1>4, <2>1, RejectedFits, TypeParts DEF Inv
  <2>2. CASE \E a \in Address : Accepted(q, a)
    BY <1>1, <1>2, <1>4, <2>2, AcceptedFits, TypeParts DEF Inv
  <2>3. CASE ServeRegister(q)
    <3>1. devices'[q.device] \in DB!Row
      BY <1>4, <2>3, TransactionTyped, TypeParts DEF ServeRegister, Inv
    <3>2. devices'[q.device].address \in Address
      BY <3>1 DEF DB!Row
    <3> QED BY <2>2, <2>3, <3>2 DEF ServeRegister
  <2>4. CASE ServeReenroll(q)
    <3>1. devices'[q.device] \in DB!Row /\ devices' = devices
      BY <1>4, <2>4, TransactionTyped, TypeParts
         DEF ServeReenroll, DB!Reenroll, Inv
    <3>2. devices[q.device].address \in Address
      BY <3>1 DEF DB!Row
    <3> QED BY <2>2, <2>4, <3>2 DEF ServeReenroll
  <2> QED BY <2>1, <2>3, <2>4 DEF Serve, ServeRefusal, ServeFailure, AnswerLost
<1> QED BY <1>2, <1>3, <1>5, <1>6, Frames, TypeParts DEF Inv

-----------------------------------------------------------------------------
(***************************************************************************)
(* The files are written one by one, and the configuration is made and     *)
(* applied.                                                                *)
(***************************************************************************)
LEMMA PersistStep ==
    ASSUME Inv, NEW c \in Client, Persist(c)
    PROVE  Inv'
<1>1. /\ RunFits("persist", run[c], private[c]) /\ run[c] \in Run
      /\ state \in [Client -> [StateFile -> Value]]
  BY TypeParts DEF Persist, At, Inv, Fits, ScriptTyped, FilesTyped
<1>2. /\ run[c].next \in 1..5 /\ Written(c) \in StateFile
      /\ run[c].value[Written(c)] \in Value
  BY <1>1, Order DEF RunFits, Run, Written
<1>3. state' \in [Client -> [StateFile -> Value]]
  BY <1>1, <1>2 DEF Persist
<1> DEFINE r == [run[c] EXCEPT !.next = @ + 1]
           s == IF run[c].next = Len(PersistOrder) THEN "config" ELSE "persist"
<1>4. r \in Run /\ r.next = run[c].next + 1 /\ r.device = run[c].device
  <2>1. run[c].next + 1 \in 1..(Len(PersistOrder) + 1)
    BY <1>2, Order
  <2> QED BY <1>1, <2>1 DEF Run
<1>5. RunFits(s, r, private'[c]) /\ s \in Stage
  BY <1>1, <1>2, <1>4, Order DEF RunFits, Stage, Persist
<1>6. Goto(c, s) /\ Set(c, r) /\ UNCHANGED private
  BY DEF Persist
<1> HIDE DEF r, s
<1>7. ScriptTyped' /\ Fits'
  BY <1>4, <1>5, <1>6, Moves, TypeParts DEF Inv
<1>8. FilesTyped'
  BY <1>3, TypeParts DEF Persist, FilesTyped, Inv
<1> QED BY <1>7, <1>8, Frames, TypeParts DEF Persist, Inv

(***************************************************************************)
(* The rendered configuration has the key and the values of the script.    *)
(***************************************************************************)
LEMMA RenderedTyped ==
    ASSUME Inv, NEW c \in Client, At(c, "config")
    PROVE  Rendered(c) \in WireGuard
<1>1. RunFits("config", run[c], private[c]) /\ run[c] \in Run
  BY TypeParts DEF At, Inv, Fits, ScriptTyped
<1>2. private[c] \in Key /\ run[c].value \in [StateFile -> Value]
  BY <1>1 DEF RunFits, Run
<1>3. Empty \in Value
  BY DEF Value
<1> QED BY <1>2, <1>3 DEF Rendered, WireGuard

(***************************************************************************)
(* The rendered configuration replaces the one on disk.                    *)
(***************************************************************************)
LEMMA InstallStep ==
    ASSUME Inv, NEW c \in Client, InstallConfig(c)
    PROVE  Inv'
<1>1. /\ RunFits("config", run[c], private[c]) /\ run[c] \in Run
      /\ At(c, "config")
  BY TypeParts DEF InstallConfig, At, Inv, Fits, ScriptTyped
<1>2. TunnelTyped'
  BY <1>1, RenderedTyped, TypeParts DEF InstallConfig, TunnelTyped, Inv
<1> DEFINE r == [run[c] EXCEPT !.fresh = wgconf[c] # Rendered(c)]
<1>3. r \in Run /\ r.device = run[c].device
  BY <1>1 DEF Run
<1>4. RunFits("service", r, private'[c]) /\ "service" \in Stage
  BY <1>1, <1>3 DEF RunFits, Stage, InstallConfig, files
<1>5. Goto(c, "service") /\ Set(c, r) /\ UNCHANGED private
  BY DEF InstallConfig, files
<1> HIDE DEF r
<1>6. ScriptTyped' /\ Fits'
  BY <1>3, <1>4, <1>5, Moves, TypeParts DEF Inv
<1> QED BY <1>2, <1>6, Frames, TypeParts DEF InstallConfig, Inv

(***************************************************************************)
(* The interface runs the configuration on disk, or fails to.              *)
(***************************************************************************)
LEMMA ServiceStep ==
    ASSUME Inv, NEW c \in Client, StartService(c) \/ ServiceFails(c)
    PROVE  Inv'
<1>1. TunnelTyped'
  BY TypeParts DEF StartService, ServiceFails, TunnelTyped, Inv
<1>2. CASE StartService(c)
  <2>1. RunFits("service", run[c], private[c]) /\ run[c] \in Run
    BY <1>2, TypeParts DEF StartService, At, Inv, Fits, ScriptTyped
  <2>2. RunFits("done", run[c], private'[c]) /\ "done" \in Stage
    BY <1>2, <2>1 DEF RunFits, Stage, StartService, files
  <2>3. Set(c, run[c])
    BY <1>2, TypeParts DEF StartService, Set, Inv, ScriptTyped
  <2>4. ScriptTyped' /\ Fits'
    BY <1>2, <2>1, <2>2, <2>3, Moves, TypeParts DEF StartService, files, Inv
  <2> QED BY <1>1, <1>2, <2>4, Frames, TypeParts DEF StartService, Inv
<1>3. CASE ServiceFails(c)
  <2>1. BudgetTyped'
    BY <1>3, TypeParts DEF ServiceFails, Spend, BudgetTyped, Inv
  <2>2. ScriptTyped' /\ Fits'
    BY <1>3, Exits, TypeParts DEF ServiceFails, files, Inv
  <2> QED BY <1>1, <1>3, <2>1, <2>2, Frames, TypeParts DEF ServiceFails, Inv
<1> QED BY <1>2, <1>3

(***************************************************************************)
(* The script ends, dies, or the host reboots; a device is revoked.        *)
(***************************************************************************)
LEMMA EndStep ==
    ASSUME Inv, NEW c \in Client,
           Return(c) \/ DiesUnapplied(c) \/ Dies(c) \/ Reboots(c)
    PROVE  Inv'
<1>1. BudgetTyped'
  BY TypeParts
     DEF Return, DiesUnapplied, Dies, Reboots, Spend, BudgetTyped, Inv
<1>2. CASE Return(c)
  BY <1>1, <1>2, Exits, Frames, TypeParts DEF Return, files, Inv
<1>3. CASE DiesUnapplied(c)
  BY <1>1, <1>3, Exits, Frames, TypeParts DEF DiesUnapplied, files, Inv
<1>4. CASE Reboots(c)
  <2>1. TunnelTyped'
    BY <1>4, TypeParts DEF Reboots, TunnelTyped, Inv
  <2> QED BY <1>1, <1>4, <2>1, Stays, Frames, TypeParts DEF Reboots, files, Inv
<1>5. CASE Dies(c)
  <2>1. ScriptTyped' /\ Fits'
    BY <1>5, Exits, TypeParts DEF Dies, Inv
  <2>2. identity' \in [Client -> Device \cup {Empty}]
    <3>1. identity \in [Client -> Device \cup {Empty}]
      BY TypeParts DEF Inv, FilesTyped
    <3> QED BY <1>5, <3>1 DEF Dies, Truncated
  <2>3. state' \in [Client -> [StateFile -> Value]]
    <3>1. state \in [Client -> [StateFile -> Value]] /\ Empty \in Value
      BY TypeParts DEF Inv, FilesTyped, Value
    <3>2. CASE At(c, "persist")
      <4>1. RunFits("persist", run[c], private[c]) /\ run[c] \in Run
        BY <3>2, TypeParts DEF At, Inv, Fits, ScriptTyped
      <4>2. Written(c) \in StateFile
        BY <4>1, Order DEF RunFits, Run, Written
      <4>3. PICK v \in Truncated(state[c][Written(c)]) :
               state' = [state EXCEPT ![c][Written(c)] = v]
        BY <1>5, <3>2 DEF Dies
      <4>4. v \in Value
        BY <3>1, <4>2, <4>3 DEF Truncated
      <4> QED BY <3>1, <4>2, <4>3, <4>4
    <3>3. CASE ~At(c, "persist")
      BY <1>5, <3>1, <3>3 DEF Dies
    <3> QED BY <3>2, <3>3
  <2>4. FilesTyped'
    BY <1>5, <2>2, <2>3, TypeParts DEF Dies, FilesTyped, Inv
  <2>5. TunnelTyped'
    BY <1>5, TypeParts DEF Dies, TunnelTyped, Inv
  <2>6. inflight' \subseteq Request
    BY <1>5, AbandonedTyped, TypeParts DEF Dies, Inv
  <2> QED BY <1>1, <1>5, <2>1, <2>4, <2>5, <2>6, Frames, TypeParts
          DEF Dies, Inv
<1> QED BY <1>2, <1>3, <1>4, <1>5

(***************************************************************************)
(* A revocation only disables a row.                                       *)
(***************************************************************************)
LEMMA RevokeStep ==
    ASSUME Inv, NEW d \in Device, Revoke(d)
    PROVE  Inv'
<1>1. devices[d] \in DB!Row /\ devices \in [Device -> DB!Row \cup {NoRow}]
  BY TypeParts DEF Revoke, DB!Revoke, DB!Registered, Inv, TablesTyped,
     DB!TypeOK
<1>2. [devices[d] EXCEPT !.enabled = FALSE] \in DB!Row
  BY <1>1 DEF DB!Row
<1>3. devices' = [devices EXCEPT ![d] = [devices[d] EXCEPT !.enabled = FALSE]]
  BY <1>1 DEF Revoke, DB!Revoke
<1>4. TablesTyped'
  BY <1>1, <1>2, <1>3, TypeParts DEF Revoke, DB!Revoke, Inv, TablesTyped,
     DB!TypeOK
<1>5. BudgetTyped'
  BY TypeParts DEF Revoke, Spend, BudgetTyped, Inv
<1> QED BY <1>4, <1>5, Stays, Frames, TypeParts DEF Revoke, files, Inv

-----------------------------------------------------------------------------
(***************************************************************************)
(* Every step keeps the types.                                             *)
(***************************************************************************)
LEMMA InvInit ==
    ASSUME Init
    PROVE  Inv /\ Asked
<1>1. NoRow \in DB!Row \cup {NoRow}
  OBVIOUS
<1>2. TablesTyped
  BY DEF Init, TablesTyped, DB!TypeOK, DB!TokenRow, DB!TokenState
<1>3. FilesTyped /\ inflight \subseteq Request /\ TunnelTyped
  <2>1. Nothing \in [StateFile -> Value]
    BY DEF Nothing, Value
  <2> QED BY <2>1 DEF Init, FilesTyped, TunnelTyped
<1>4. ScriptTyped
  BY NotRunningTyped DEF Init, ScriptTyped, Stage
<1>5. BudgetTyped
  BY ClientConstants DEF Init, BudgetTyped
<1>6. Fits
  BY NotRunningTyped, Order DEF Init, Fits, RunFits
<1> QED BY <1>2, <1>3, <1>4, <1>5, <1>6, TypeParts DEF Inv, Asked, Init

(***************************************************************************)
(* Every action keeps the types, and every script fits its stage.          *)
(***************************************************************************)
LEMMA InvStep ==
    ASSUME Inv, Asked, [Next]_vars
    PROVE  Inv'
<1>1. ASSUME NEW c \in Client, ClientStep(c)
      PROVE  Inv'
  BY <1>1, IdentityStep, KeyStep, LoadStep, SendStep, PersistStep,
     InstallStep, ServiceStep, EndStep DEF ClientStep
<1>2. CASE UNCHANGED vars
  BY <1>2, Stays, Frames, TypeParts DEF vars, files, Inv
<1> QED BY <1>1, <1>2, InvocationStep, TimesOutStep, ServiceStep, EndStep,
           ServeStep, RevokeStep DEF Next

-----------------------------------------------------------------------------
(***************************************************************************)
(* Whom a client waits for, and with which key it asked.                   *)
(***************************************************************************)
LEMMA AskedElsewhere ==
    ASSUME Inv, Asked, NEW c \in Client, stage[c] # "waiting",
           \A b \in Client \ {c} : stage'[b] = stage[b],
           UNCHANGED <<inflight, private>>
    PROVE  Asked'
BY TypeParts DEF Inv, Asked, Request

(***************************************************************************)
(* A script that ends abandons the request it waits for.                   *)
(***************************************************************************)
LEMMA AskedExits ==
    ASSUME Inv, Asked, NEW c \in Client, Exit(c), inflight' = Abandoned(c),
           UNCHANGED private
    PROVE  Asked'
<1>1. \A b \in Client \ {c} : stage'[b] = stage[b]
  BY TypeParts DEF Exit, Goto, Inv, ScriptTyped
<1>2. ASSUME NEW q \in inflight'
      PROVE  /\ q.client \in Client /\ private[q.client] = q.key
             /\ q.awaited => q \in inflight /\ q.client # c
  <2>1. PICK p \in inflight :
           q = IF p.client = c THEN [p EXCEPT !.awaited = FALSE] ELSE p
    BY <1>2 DEF Abandoned
  <2>2. p \in Request /\ private[p.client] = p.key
    BY TypeParts DEF Inv, Asked
  <2>3. CASE p.client = c
    <3>1. q.client = p.client /\ q.key = p.key /\ q.awaited = FALSE
      BY <2>1, <2>2, <2>3 DEF Request
    <3> QED BY <2>2, <3>1 DEF Request
  <2>4. CASE p.client # c
    BY <2>1, <2>2, <2>4 DEF Request
  <2> QED BY <2>3, <2>4
<1> QED BY <1>1, <1>2 DEF Asked

(***************************************************************************)
(* A key is only made where there was none, hence where no request was     *)
(* sent.                                                                   *)
(***************************************************************************)
LEMMA AskedKey ==
    ASSUME Inv, Asked, NEW c \in Client, EnsureKey(c)
    PROVE  Asked'
<1>1. \A q \in inflight : q.key # Empty /\ q.client \in Client
  BY TypeParts, ClientConstants DEF Inv, Request
<1>2. \A q \in inflight : private'[q.client] = private[q.client]
  <2>1. CASE private[c] = Empty
    <3>1. \A q \in inflight : q.client # c
      BY <1>1, <2>1 DEF Asked
    <3> QED BY <1>1, <3>1, TypeParts DEF EnsureKey, Inv, FilesTyped
  <2>2. CASE private[c] # Empty
    BY <2>2 DEF EnsureKey
  <2> QED BY <2>1, <2>2
<1>3. PICK s \in Stage : Goto(c, s)
  BY DEF EnsureKey, AfterKey, Stage
<1>4. \A b \in Client \ {c} : stage'[b] = stage[b]
  BY <1>3, TypeParts DEF Goto, Inv, ScriptTyped
<1>5. \A q \in inflight : q.awaited => q.client # c
  BY DEF Asked, EnsureKey, At
<1>6. inflight' = inflight
  BY DEF EnsureKey
<1> QED BY <1>1, <1>2, <1>4, <1>5, <1>6 DEF Asked

(***************************************************************************)
(* A script that sends does not wait for another request.                  *)
(***************************************************************************)
LEMMA AskedSend ==
    ASSUME Inv, Asked, NEW c \in Client, Send(c)
    PROVE  Asked'
<1> DEFINE new == [client |-> c, device |-> run[c].device, key |-> private[c],
                   token |-> run[c].token, awaited |-> TRUE]
<1>1. /\ new.client = c /\ new.key = private[c]
      /\ inflight' = inflight \cup {new} /\ UNCHANGED private
  BY DEF Send, files
<1>2. \A q \in inflight : q.client \in Client /\ (q.awaited => q.client # c)
  BY TypeParts DEF Inv, Asked, Send, At, Request
<1>3. stage'[c] = "waiting" /\ \A b \in Client \ {c} : stage'[b] = stage[b]
  BY TypeParts DEF Send, Goto, Inv, ScriptTyped
<1> HIDE DEF new
<1> QED BY <1>1, <1>2, <1>3 DEF Asked

(***************************************************************************)
(* Only the script that waits for the answered request moves.              *)
(***************************************************************************)
LEMMA AskedServe ==
    ASSUME Inv, Asked, NEW q \in inflight,
           Serve(q) \/ ServeFailure(q) \/ AnswerLost(q)
    PROVE  Asked'
<1>1. inflight' = inflight \ {q} /\ UNCHANGED private
  BY DEF Serve, ServeRegister, ServeReenroll, ServeRefusal, ServeFailure,
     AnswerLost, Answered, files
<1>2. \A x \in inflight : x.client \in Client
  BY TypeParts DEF Inv, Request
<1>3. \/ UNCHANGED stage
      \/ q.awaited /\ \E s \in Stage : Goto(q.client, s)
  BY DEF Serve, ServeRegister, ServeReenroll, ServeRefusal, ServeFailure,
     AnswerLost, Accepted, Rejected, Exit, Stage
<1>4. ASSUME NEW x \in inflight', x.awaited
      PROVE  stage'[x.client] = stage[x.client]
  <2>1. CASE UNCHANGED stage
    BY <2>1
  <2>2. ASSUME q.awaited, NEW s \in Stage, Goto(q.client, s)
        PROVE  stage'[x.client] = stage[x.client]
    <3>1. x.client # q.client
      BY <1>1, <1>4, <2>2 DEF Asked
    <3> QED BY <1>1, <1>2, <2>2, <3>1, TypeParts DEF Goto, Inv, ScriptTyped
  <2> QED BY <1>3, <2>1, <2>2
<1> QED BY <1>1, <1>4 DEF Asked

(***************************************************************************)
(* Every action keeps Asked.                                               *)
(***************************************************************************)
LEMMA AskedStep ==
    ASSUME Inv, Asked, [Next]_vars
    PROVE  Asked'
<1>1. ASSUME NEW c \in Client, NEW r, Invoke(c, r)
      PROVE  Asked'
  <2>1. /\ stage[c] # "waiting" /\ UNCHANGED <<inflight, private>>
        /\ \A b \in Client \ {c} : stage'[b] = stage[b]
    BY <1>1, TypeParts DEF Invoke, At, Goto, files, Inv, ScriptTyped
  <2> QED BY <2>1, AskedElsewhere
<1>2. ASSUME NEW c \in Client,
             \/ KeepIdentity(c) \/ RefuseIdentity(c) \/ Load(c) \/ Persist(c)
             \/ InstallConfig(c) \/ StartService(c) \/ ServiceFails(c)
             \/ Return(c) \/ DiesUnapplied(c)
      PROVE  Asked'
  <2>1. stage[c] # "waiting" /\ UNCHANGED <<inflight, private>>
    BY <1>2 DEF KeepIdentity, RefuseIdentity, Load, Persist, InstallConfig,
       StartService, ServiceFails, Return, DiesUnapplied, At, files
  <2>2. \E s \in Stage : Goto(c, s)
    BY <1>2 DEF KeepIdentity, RefuseIdentity, Load, Persist, InstallConfig,
       StartService, ServiceFails, Return, DiesUnapplied, Exit, Stage
  <2>3. \A b \in Client \ {c} : stage'[b] = stage[b]
    BY <2>2, TypeParts DEF Goto, Inv, ScriptTyped
  <2> QED BY <2>1, <2>3, AskedElsewhere
<1>3. ASSUME NEW c \in Client, TimesOut(c) \/ Dies(c)
      PROVE  Asked'
  BY <1>3, AskedExits DEF TimesOut, Dies, files
<1>4. CASE UNCHANGED <<inflight, private, stage>>
  BY <1>4 DEF Asked
<1>5. ASSUME NEW c \in Client, ClientStep(c)
      PROVE  Asked'
  BY <1>2, <1>5, AskedKey, AskedSend DEF ClientStep
<1>6. ASSUME NEW c \in Client,
             \/ \E d \in Named \cup {Empty} :
                   \/ Prepare(c, d)
                   \/ \E t \in Token \cup {Empty} : Enroll(c, d, t)
             \/ Recover(c)
      PROVE  Asked'
  BY <1>1, <1>6 DEF Prepare, Enroll, Recover
<1>7. ASSUME NEW c \in Client, Reboots(c)
      PROVE  Asked'
  BY <1>4, <1>7 DEF Reboots, files
<1>8. ASSUME NEW d \in Device, Revoke(d)
      PROVE  Asked'
  BY <1>4, <1>8 DEF Revoke, files
<1>9. CASE UNCHANGED vars
  BY <1>4, <1>9 DEF vars, files
<1> QED BY <1>2, <1>3, <1>5, <1>6, <1>7, <1>8, <1>9, AskedServe DEF Next

(***************************************************************************)
(* TypeOK for every instance.                                              *)
(***************************************************************************)
THEOREM TypeCorrect == Spec => []TypeOK
<1>1. Init => Inv /\ Asked
  BY InvInit
<1>2. Inv /\ Asked /\ [Next]_vars => (Inv /\ Asked)'
  BY InvStep, AskedStep
<1>3. Inv => TypeOK
  BY DEF Inv
<1> QED BY <1>1, <1>2, <1>3, PTL DEF Spec

-----------------------------------------------------------------------------
(***************************************************************************)
(* What becomes of the rows: none is lost, and none changes its key or its *)
(* address.                                                                *)
(***************************************************************************)
RowsKept ==
    \A d \in Device :
       DB!Registered(d) => /\ DB!Registered(d)'
                           /\ devices'[d].key = devices[d].key
                           /\ devices'[d].address = devices[d].address

(***************************************************************************)
(* A revocation keeps every row, its key and its address.                  *)
(***************************************************************************)
LEMMA RevokeKeepsRows ==
    ASSUME Inv, NEW d \in Device, DB!Revoke(d)
    PROVE  /\ RowsKept
           /\ \A x \in Device : DB!Registered(x)' => DB!Registered(x)
<1>1. devices[d] \in DB!Row /\ devices \in [Device -> DB!Row \cup {NoRow}]
  BY TypeParts DEF DB!Revoke, DB!Registered, Inv, TablesTyped, DB!TypeOK
<1> DEFINE row == [devices[d] EXCEPT !.enabled = FALSE]
<1>2. row \in DB!Row /\ row.key = devices[d].key
      /\ row.address = devices[d].address
  BY <1>1 DEF DB!Row
<1>3. devices' = [devices EXCEPT ![d] = row]
  BY <1>1 DEF DB!Revoke
<1>4. row # NoRow
  BY <1>2, NoRowIsDistinct DEF DB!Row
<1> HIDE DEF row
<1> QED BY <1>1, <1>2, <1>3, <1>4 DEF RowsKept, DB!Registered, DB!Revoke

(***************************************************************************)
(* A step either keeps the set of rows and every key but a missing one, or *)
(* it registers the key of a client.                                       *)
(***************************************************************************)
LEMMA StepKeepsRows ==
    ASSUME Inv, Asked, [Next]_vars
    PROVE  /\ RowsKept
           /\ \A x \in Device :
                 DB!Registered(x)' /\ ~DB!Registered(x)
                    => \E c \in Client : private'[c] = devices'[x].key
           /\ \A c \in Client : private[c] \in {Empty, private'[c]}
<1>1. CASE UNCHANGED devices
  <2>1. RowsKept /\ \A x \in Device : DB!Registered(x)' => DB!Registered(x)
    BY <1>1 DEF RowsKept, DB!Registered
  <2>2. ASSUME NEW c \in Client, EnsureKey(c), NEW b \in Client
        PROVE  private[b] \in {Empty, private'[b]}
    BY <2>2, TypeParts DEF EnsureKey, Inv, FilesTyped
  <2>3. \/ UNCHANGED private
        \/ \E c \in Client : EnsureKey(c)
    BY DEF Next, ClientStep, Prepare, Enroll, Recover, Invoke, KeepIdentity,
       RefuseIdentity, Load, Send, TimesOut, Persist, InstallConfig,
       StartService, ServiceFails, Return, Dies, DiesUnapplied, Reboots,
       Revoke, Serve, ServeRegister, ServeReenroll, ServeRefusal,
       ServeFailure, AnswerLost, Answered, vars, files
  <2> QED BY <2>1, <2>2, <2>3
<1>2. ASSUME NEW d \in Device, Revoke(d)
      PROVE  /\ RowsKept /\ UNCHANGED private
             /\ \A x \in Device : DB!Registered(x)' => DB!Registered(x)
  BY <1>2, RevokeKeepsRows DEF Revoke, files
<1>3. ASSUME NEW q \in inflight,
             \/ DB!Register(q.device, q.key, q.token)
             \/ DB!Reenroll(q.device, q.key, q.token),
             UNCHANGED private
      PROVE  /\ RowsKept
             /\ \A x \in Device :
                   DB!Registered(x)' /\ ~DB!Registered(x)
                      => \E c \in Client : private'[c] = devices'[x].key
  <2>1. q \in Request /\ q.client \in Client /\ q.device \in Device
    BY TypeParts DEF Inv, Request
  <2>2. /\ \A d \in Device : DB!Registered(d) => devices'[d] = devices[d]
        /\ DB!Registered(q.device)' /\ devices'[q.device].key = q.key
    BY <1>3, <2>1, TransactionTyped, TypeParts DEF Inv
  <2>3. RowsKept
    BY <2>2 DEF RowsKept, DB!Registered
  <2>4. \A x \in Device \ {q.device} : devices'[x] = devices[x]
    BY <1>3, <2>1, TypeParts
       DEF DB!Register, DB!Reenroll, Inv, TablesTyped, DB!TypeOK
  <2>5. private'[q.client] = devices'[q.device].key
    BY <1>3, <2>2 DEF Asked
  <2> QED BY <2>1, <2>3, <2>4, <2>5 DEF DB!Registered
<1>4. \/ UNCHANGED devices
      \/ \E d \in Device : Revoke(d)
      \/ \E q \in inflight :
            /\ \/ DB!Register(q.device, q.key, q.token)
               \/ DB!Reenroll(q.device, q.key, q.token)
            /\ UNCHANGED private
  BY DEF Next, ClientStep, Prepare, Enroll, Recover, Invoke, KeepIdentity,
     RefuseIdentity, EnsureKey, Load, Send, TimesOut, Persist, InstallConfig,
     StartService, ServiceFails, Return, Dies, DiesUnapplied, Reboots,
     Serve, ServeRegister, ServeReenroll, ServeRefusal, ServeFailure,
     AnswerLost, Answered, vars, files, registry
<1> QED BY <1>1, <1>2, <1>3, <1>4

(***************************************************************************)
(* RegisteredKeysHeld for every instance.                                  *)
(***************************************************************************)
THEOREM KeysAreHeld == Spec => []RegisteredKeysHeld
<1>1. Init => Inv /\ Asked /\ RegisteredKeysHeld
  <2>1. Init => RegisteredKeysHeld
    BY DEF Init, RegisteredKeysHeld, DB!RegisteredDevices, DB!Registered
  <2> QED BY <2>1, InvInit
<1>2. ASSUME Inv, Asked, RegisteredKeysHeld, [Next]_vars
      PROVE  RegisteredKeysHeld'
  <2> SUFFICES ASSUME NEW x \in Device, DB!Registered(x)'
               PROVE  \E c \in Client : private'[c] = devices'[x].key
    BY DEF RegisteredKeysHeld, DB!RegisteredDevices
  <2>1. CASE DB!Registered(x)
    <3>1. devices[x].key \in Key
      BY <1>2, <2>1, TypeParts DEF Inv, TablesTyped, DB!TypeOK,
         DB!Registered, DB!Row
    <3>2. PICK c \in Client : private[c] = devices[x].key
      BY <1>2, <2>1 DEF RegisteredKeysHeld, DB!RegisteredDevices
    <3>3. private'[c] = private[c]
      BY <1>2, <3>1, <3>2, StepKeepsRows, ClientConstants
    <3>4. devices'[x].key = devices[x].key
      BY <1>2, <2>1, StepKeepsRows DEF RowsKept
    <3> QED BY <3>2, <3>3, <3>4
  <2>2. CASE ~DB!Registered(x)
    BY <1>2, <2>2, StepKeepsRows
  <2> QED BY <2>1, <2>2
<1>3. Inv /\ Asked /\ RegisteredKeysHeld /\ [Next]_vars
         => (Inv /\ Asked /\ RegisteredKeysHeld)'
  BY <1>2, InvStep, AskedStep
<1> QED BY <1>1, <1>3, PTL DEF Spec

-----------------------------------------------------------------------------
(***************************************************************************)
(* The addresses that the registry has for a client's key, and that a      *)
(* client persisted, configured, or is about to persist none but these.    *)
(***************************************************************************)
Mine(c) == {Empty} \cup {devices[d].address : d \in RowOf(c)}

Addressed ==
    \A c \in Client :
       /\ state[c]["client-address"] \in Mine(c)
       /\ wgconf[c].value["client-address"] \in Mine(c)
       /\ run[c].value["client-address"] \in Mine(c)

(***************************************************************************)
(* A client never loses an address the registry has for its key: rows keep *)
(* keys and addresses, and a client that is registered keeps its key.      *)
(***************************************************************************)
LEMMA MineGrows ==
    ASSUME Inv, Asked, [Next]_vars, NEW c \in Client
    PROVE  Mine(c) \subseteq Mine(c)'
<1>1. ASSUME NEW d \in RowOf(c)
      PROVE  /\ d \in RowOf(c)'
             /\ devices'[d].address = devices[d].address
  <2>1. d \in Device /\ DB!Registered(d) /\ devices[d].key = private[c]
    BY <1>1 DEF RowOf, DB!RegisteredDevices
  <2>2. private[c] \in Key
    BY <2>1, TypeParts DEF Inv, TablesTyped, DB!TypeOK, DB!Registered, DB!Row
  <2>3. private'[c] = private[c]
    BY <2>2, StepKeepsRows, ClientConstants
  <2> QED BY <2>1, <2>3, StepKeepsRows
          DEF RowsKept, RowOf, DB!RegisteredDevices
<1> QED BY <1>1 DEF Mine

(***************************************************************************)
(* A script that ends, and one whose values are those already known.       *)
(***************************************************************************)
LEMMA AddressedBySame ==
    ASSUME Inv, Asked, Addressed, [Next]_vars, NEW c \in Client,
           \A b \in Client \ {c} : /\ state'[b] = state[b]
                                   /\ wgconf'[b] = wgconf[b]
                                   /\ run'[b] = run[b],
           state'[c]["client-address"] \in Mine(c)',
           wgconf'[c].value["client-address"] \in Mine(c)',
           run'[c].value["client-address"] \in Mine(c)'
    PROVE  Addressed'
BY MineGrows DEF Addressed

(***************************************************************************)
(* A step that touches no persisted value keeps Addressed.                 *)
(***************************************************************************)
LEMMA AddressedFrame ==
    ASSUME Inv, Asked, Addressed, [Next]_vars, UNCHANGED <<state, wgconf, run>>
    PROVE  Addressed'
BY MineGrows DEF Addressed

(***************************************************************************)
(* Only the script's variables change.                                     *)
(***************************************************************************)
LEMMA AddressedRun ==
    ASSUME Inv, Asked, Addressed, [Next]_vars, NEW c \in Client, NEW r,
           Set(c, r), r.value["client-address"] \in Mine(c)',
           UNCHANGED <<state, wgconf>>
    PROVE  Addressed'
<1>1. run'[c] = r /\ \A b \in Client \ {c} : run'[b] = run[b]
  BY TypeParts DEF Set, Inv, ScriptTyped
<1>2. /\ state'[c]["client-address"] \in Mine(c)'
      /\ wgconf'[c].value["client-address"] \in Mine(c)'
  BY MineGrows DEF Addressed
<1> QED BY <1>1, <1>2, AddressedBySame

(***************************************************************************)
(* A script that ends knows no address.                                    *)
(***************************************************************************)
LEMMA AddressedExit ==
    ASSUME Inv, Asked, Addressed, [Next]_vars, NEW c \in Client, Exit(c),
           UNCHANGED <<state, wgconf>>
    PROVE  Addressed'
<1>1. NotRunning.value["client-address"] \in Mine(c)'
  BY Order DEF NotRunning, Nothing, Mine
<1> QED BY <1>1, AddressedRun DEF Exit

(***************************************************************************)
(* What the operator gives, and what the script loads.                     *)
(***************************************************************************)
LEMMA AddressedInvocation ==
    ASSUME Inv, Asked, Addressed, [Next]_vars, NEW c \in Client,
           \/ \E d \in Named \cup {Empty} :
                 \/ Prepare(c, d)
                 \/ \E t \in Token \cup {Empty} : Enroll(c, d, t)
           \/ Recover(c)
    PROVE  Addressed'
<1>1. ASSUME NEW r, Invoke(c, r), r.value["client-address"] \in Mine(c)
      PROVE  Addressed'
  BY <1>1, MineGrows, AddressedRun DEF Invoke, files, tunnel
<1>2. Nothing["client-address"] \in Mine(c) /\ NotRunning.value = Nothing
  BY Order DEF Nothing, Mine, NotRunning
<1>3. ASSUME NEW d, Prepare(c, d)
      PROVE  Addressed'
  <2>1. [NotRunning EXCEPT !.mode = "prepare", !.device = d].value = Nothing
    BY DEF NotRunning
  <2> QED BY <1>1, <1>2, <1>3, <2>1 DEF Prepare
<1>4. ASSUME NEW d, NEW t, Enroll(c, d, t)
      PROVE  Addressed'
  <2>1. [NotRunning EXCEPT !.device = d, !.token = t].value = Nothing
    BY DEF NotRunning
  <2> QED BY <1>1, <1>2, <1>4, <2>1 DEF Enroll
<1>5. CASE Recover(c)
  <2> DEFINE v(d) == [f \in StateFile |->
                        CASE f = "client-address" -> devices[d].address
                          [] f = "hostname" -> Empty
                          [] OTHER -> Gateway]
  <2>1. PICK d \in DB!RegisteredDevices :
           /\ devices[d].key = private[c]
           /\ Invoke(c, [NotRunning EXCEPT !.value = v(d)])
    BY <1>5 DEF Recover
  <2>2. v(d)["client-address"] = devices[d].address
    BY Order
  <2>3. [NotRunning EXCEPT !.value = v(d)].value = v(d)
    BY DEF NotRunning
  <2>4. devices[d].address \in Mine(c)
    BY <2>1 DEF Mine, RowOf
  <2> HIDE DEF v
  <2> QED BY <1>1, <2>1, <2>2, <2>3, <2>4
<1> QED BY <1>3, <1>4, <1>5

(***************************************************************************)
(* What is loaded was given or persisted.                                  *)
(***************************************************************************)
LEMMA AddressedLoad ==
    ASSUME Inv, Asked, Addressed, [Next]_vars, NEW c \in Client,
           KeepIdentity(c) \/ Load(c)
    PROVE  Addressed'
<1>1. run[c] \in Run /\ run[c].value["client-address"] \in Mine(c)
  BY TypeParts DEF Inv, ScriptTyped, Addressed
<1>2. Mine(c) \subseteq Mine(c)'
  BY MineGrows
<1>3. CASE KeepIdentity(c)
  <2>1. [run[c] EXCEPT !.device = ResolvedDevice(c)].value = run[c].value
    BY <1>1 DEF Run
  <2> QED BY <1>1, <1>2, <1>3, <2>1, AddressedRun DEF KeepIdentity, tunnel
<1>4. CASE Load(c)
  <2> DEFINE v == WithDefaults(Loaded(c))
  <2>1. Loaded(c)["client-address"] \in Mine(c)
    BY <1>1, Order DEF Loaded, First, Addressed
  <2>2. v["client-address"] \in Mine(c)
    BY <2>1, LoadedTyped
  <2>3. [run[c] EXCEPT !.value = v].value = v
    BY <1>1 DEF Run
  <2>4. Set(c, [run[c] EXCEPT !.value = v]) \/ Exit(c)
    BY <1>4 DEF Load
  <2> HIDE DEF v
  <2> QED BY <1>2, <1>4, <2>2, <2>3, <2>4, AddressedRun, AddressedExit
          DEF Load, files, tunnel
<1> QED BY <1>3, <1>4

(***************************************************************************)
(* An answer carries the address that the registry has for the asker's key. *)
(***************************************************************************)
LEMMA AddressedServe ==
    ASSUME Inv, Asked, Addressed, [Next]_vars, NEW q \in inflight,
           Serve(q) \/ ServeFailure(q) \/ AnswerLost(q)
    PROVE  Addressed'
<1>1. q \in Request /\ q.client \in Client /\ q.device \in Device
  BY TypeParts DEF Inv, Request
<1>2. UNCHANGED <<state, wgconf, private>>
  BY DEF Serve, ServeRegister, ServeReenroll, ServeRefusal, ServeFailure,
     AnswerLost, Answered, files, tunnel
<1>3. CASE UNCHANGED run
  BY <1>2, <1>3, AddressedFrame
<1>4. CASE Exit(q.client)
  BY <1>1, <1>2, <1>4, AddressedExit
<1>5. ASSUME NEW a \in Mine(q.client)', Accepted(q, a)
      PROVE  Addressed'
  <2> DEFINE v == [[f \in StateFile |-> Gateway]
                     EXCEPT !["client-address"] = a]
  <2>1. v["client-address"] = a
    BY Order
  <2>2. run[q.client] \in Run
    BY <1>1, TypeParts DEF Inv, ScriptTyped
  <2> HIDE DEF v
  <2>3. [run[q.client] EXCEPT !.value = v].value = v
    BY <2>2 DEF Run
  <2>4. CASE Set(q.client, [run[q.client] EXCEPT !.value = v])
    BY <1>1, <1>2, <1>5, <2>1, <2>3, <2>4, AddressedRun
  <2> QED BY <1>3, <1>5, <2>4 DEF Accepted, v
<1>6. ASSUME \/ DB!Register(q.device, q.key, q.token)
             \/ DB!Reenroll(q.device, q.key, q.token)
      PROVE  devices'[q.device].address \in Mine(q.client)'
  <2>1. DB!Registered(q.device)' /\ devices'[q.device].key = q.key
    BY <1>1, <1>6, TransactionTyped, TypeParts DEF Inv
  <2>2. private'[q.client] = q.key
    BY <1>2 DEF Asked
  <2>3. q.device \in RowOf(q.client)'
    BY <1>1, <2>1, <2>2 DEF RowOf, DB!RegisteredDevices
  <2> QED BY <2>3 DEF Mine
<1>7. CASE ServeReenroll(q)
  <2>1. UNCHANGED devices
    BY <1>7 DEF ServeReenroll, DB!Reenroll
  <2> QED BY <1>5, <1>6, <1>7, <2>1 DEF ServeReenroll
<1> QED BY <1>3, <1>4, <1>5, <1>6, <1>7
        DEF Serve, ServeRegister, ServeRefusal, ServeFailure, AnswerLost,
            Rejected

(***************************************************************************)
(* What is written was known, or is empty.                                 *)
(***************************************************************************)
LEMMA AddressedWrites ==
    ASSUME Inv, Asked, Addressed, [Next]_vars, NEW c \in Client,
           Persist(c) \/ InstallConfig(c) \/ Dies(c)
    PROVE  Addressed'
<1>1. /\ state \in [Client -> [StateFile -> Value]] /\ run[c] \in Run
      /\ wgconf \in [Client -> WireGuard \cup {NotInstalled}]
      /\ run \in [Client -> Run]
  BY TypeParts DEF Inv, FilesTyped, ScriptTyped, TunnelTyped
<1>2. /\ Mine(c) \subseteq Mine(c)' /\ Empty \in Mine(c)
      /\ state[c]["client-address"] \in Mine(c)
      /\ wgconf[c].value["client-address"] \in Mine(c)
      /\ run[c].value["client-address"] \in Mine(c)
  BY MineGrows DEF Addressed, Mine
<1>3. CASE Persist(c)
  <2>1. state'[c]["client-address"] \in Mine(c)
        /\ \A b \in Client \ {c} : state'[b] = state[b]
    BY <1>1, <1>2, <1>3, Order DEF Persist
  <2>2. /\ [run[c] EXCEPT !.next = @ + 1].value = run[c].value
        /\ run' = [run EXCEPT ![c] = [run[c] EXCEPT !.next = @ + 1]]
    BY <1>1, <1>3 DEF Persist, Set, Run
  <2>3. run'[c].value = run[c].value
        /\ \A b \in Client \ {c} : run'[b] = run[b]
    BY <1>1, <2>2
  <2> QED BY <1>2, <1>3, <2>1, <2>3, AddressedBySame DEF Persist, tunnel
<1>4. CASE InstallConfig(c)
  <2>1. Rendered(c).value["client-address"] = run[c].value["client-address"]
    BY <1>1, Order DEF Rendered, Run
  <2>2. /\ wgconf'[c] = Rendered(c)
        /\ \A b \in Client \ {c} : wgconf'[b] = wgconf[b]
    BY <1>1, <1>4 DEF InstallConfig
  <2> DEFINE r == [run[c] EXCEPT !.fresh = wgconf[c] # Rendered(c)]
  <2>3. r.value = run[c].value
    BY <1>1 DEF Run
  <2>4. run' = [run EXCEPT ![c] = r]
    BY <1>4 DEF InstallConfig, Set
  <2> HIDE DEF r
  <2>5. run'[c].value = run[c].value
        /\ \A b \in Client \ {c} : run'[b] = run[b]
    BY <1>1, <2>3, <2>4
  <2> QED BY <1>2, <1>4, <2>1, <2>2, <2>5, AddressedBySame
          DEF InstallConfig, files
<1>5. CASE Dies(c)
  <2>1. NotInstalled.value["client-address"] \in Mine(c)
    BY Order DEF NotInstalled, Nothing, Mine
  <2>2. state'[c]["client-address"] \in Mine(c)
        /\ \A b \in Client \ {c} : state'[b] = state[b]
    BY <1>1, <1>2, <1>5, Order DEF Dies, Truncated
  <2>3. wgconf'[c].value["client-address"] \in Mine(c)
        /\ \A b \in Client \ {c} : wgconf'[b] = wgconf[b]
    BY <1>1, <1>2, <1>5, <2>1 DEF Dies
  <2>4. /\ run'[c].value["client-address"] \in Mine(c)
        /\ \A b \in Client \ {c} : run'[b] = run[b]
    BY <1>1, <1>5, Order DEF Dies, Exit, Set, NotRunning, Nothing, Mine
  <2> QED BY <1>2, <2>2, <2>3, <2>4, AddressedBySame
<1> QED BY <1>3, <1>4, <1>5

(***************************************************************************)
(* Every action keeps Addressed.                                           *)
(***************************************************************************)
LEMMA AddressedStep ==
    ASSUME Inv, Asked, Addressed, [Next]_vars
    PROVE  Addressed'
<1>1. ASSUME NEW c \in Client,
             \/ RefuseIdentity(c) \/ Return(c) \/ TimesOut(c)
             \/ ServiceFails(c) \/ DiesUnapplied(c)
      PROVE  Addressed'
  BY <1>1, AddressedExit DEF RefuseIdentity, Return, TimesOut, ServiceFails,
     DiesUnapplied, files, tunnel
<1>2. ASSUME NEW c \in Client,
             EnsureKey(c) \/ Send(c) \/ StartService(c) \/ Reboots(c)
      PROVE  Addressed'
  BY <1>2, AddressedFrame DEF EnsureKey, Send, StartService, Reboots, files,
     tunnel
<1>3. ASSUME NEW d \in Device, Revoke(d)
      PROVE  Addressed'
  BY <1>3, AddressedFrame DEF Revoke, files, tunnel
<1>4. CASE UNCHANGED vars
  BY <1>4, AddressedFrame DEF vars, files, tunnel
<1>5. ASSUME NEW c \in Client, ClientStep(c)
      PROVE  Addressed'
  BY <1>1, <1>2, <1>5, AddressedLoad, AddressedWrites DEF ClientStep
<1> QED BY <1>1, <1>2, <1>3, <1>4, <1>5, AddressedInvocation,
           AddressedServe, AddressedWrites DEF Next

(***************************************************************************)
(* AddressesRegistered for every instance.                                 *)
(***************************************************************************)
THEOREM AddressesAreRegistered == Spec => []AddressesRegistered
<1>1. Init => Inv /\ Asked /\ Addressed
  <2>1. Init => Addressed
    BY Order DEF Init, Addressed, Mine, Nothing, NotInstalled, NotRunning
  <2> QED BY <2>1, InvInit
<1>2. Inv /\ Asked /\ Addressed /\ [Next]_vars
         => (Inv /\ Asked /\ Addressed)'
  BY InvStep, AskedStep, AddressedStep
<1>3. Addressed => AddressesRegistered
  BY DEF Addressed, AddressesRegistered, Mine
<1> QED BY <1>1, <1>2, <1>3, PTL DEF Spec

-----------------------------------------------------------------------------
(* One client at a time.                                                   *)

(***************************************************************************)
(* What a client does, and what is done for it.                            *)
(***************************************************************************)
InvokesScript(c) ==
    \/ \E d \in Named \cup {Empty} :
          \/ Prepare(c, d)
          \/ \E t \in Token \cup {Empty} : Enroll(c, d, t)
    \/ Recover(c)

Answers(c) ==
    \E q \in inflight :
       q.client = c /\ (Serve(q) \/ ServeFailure(q) \/ AnswerLost(q))

Acts(c) ==
    \/ InvokesScript(c) \/ ClientStep(c) \/ Answers(c)
    \/ TimesOut(c) \/ ServiceFails(c)
    \/ Dies(c) \/ DiesUnapplied(c) \/ Reboots(c)

SameFor(b) ==
    /\ stage'[b] = stage[b] /\ run'[b] = run[b]
    /\ identity'[b] = identity[b] /\ private'[b] = private[b]
    /\ state'[b] = state[b]
    /\ wgconf'[b] = wgconf[b] /\ interface'[b] = interface[b]

(***************************************************************************)
(* Every step is some client's, or concerns none.                          *)
(***************************************************************************)
LEMMA SomebodyActs ==
    ASSUME Inv, [Next]_vars
    PROVE  \/ \E c \in Client : Acts(c)
           \/ UNCHANGED <<stage, run, identity, private, state, wgconf,
                          interface, inflight>>
<1>1. ASSUME NEW q \in inflight, Serve(q) \/ ServeFailure(q) \/ AnswerLost(q)
      PROVE  \E c \in Client : Acts(c)
  <2>1. q.client \in Client
    BY TypeParts DEF Inv, Request
  <2> QED BY <1>1, <2>1 DEF Acts, Answers
<1>2. ASSUME NEW d \in Device, Revoke(d)
      PROVE  UNCHANGED <<stage, run, identity, private, state, wgconf,
                         interface, inflight>>
  BY <1>2 DEF Revoke, files, tunnel
<1>3. CASE UNCHANGED vars
  BY <1>3 DEF vars, files, tunnel
<1> QED BY <1>1, <1>2, <1>3 DEF Next, Acts, InvokesScript

(***************************************************************************)
(* Nobody else's files or script are touched.                              *)
(***************************************************************************)
LEMMA OthersStay ==
    ASSUME Inv, NEW c \in Client, Acts(c), NEW b \in Client \ {c}
    PROVE  SameFor(b)
<1>1. /\ stage \in [Client -> Stage] /\ run \in [Client -> Run]
      /\ identity \in [Client -> Device \cup {Empty}]
      /\ private \in [Client -> Key \cup {Empty}]
      /\ state \in [Client -> [StateFile -> Value]]
      /\ wgconf \in [Client -> WireGuard \cup {NotInstalled}]
      /\ interface \in [Client -> WireGuard \cup {NotInstalled}]
  BY TypeParts DEF Inv, FilesTyped, TunnelTyped, ScriptTyped
<1>2. /\ UNCHANGED stage \/ \E s : Goto(c, s)
      /\ UNCHANGED run \/ \E r : Set(c, r)
      /\ UNCHANGED identity \/ \E x : identity' = [identity EXCEPT ![c] = x]
      /\ UNCHANGED private \/ \E x : private' = [private EXCEPT ![c] = x]
      /\ UNCHANGED wgconf \/ \E x : wgconf' = [wgconf EXCEPT ![c] = x]
      /\ UNCHANGED interface
         \/ \E x : interface' = [interface EXCEPT ![c] = x]
      /\ UNCHANGED state
         \/ \E x, f : state' = [state EXCEPT ![c][f] = x]
  BY DEF Acts, InvokesScript, Answers, ClientStep, Prepare, Enroll, Recover,
     Invoke, KeepIdentity, RefuseIdentity, EnsureKey, AfterKey, Load, Send,
     TimesOut, Persist, InstallConfig, StartService, ServiceFails, Return,
     Dies, DiesUnapplied, Reboots, Serve, ServeRegister, ServeReenroll,
     ServeRefusal, ServeFailure, AnswerLost, Answered, Accepted, Rejected,
     Exit, files, tunnel
<1> QED BY <1>1, <1>2 DEF SameFor, Goto, Set

-----------------------------------------------------------------------------
(* As long as no script died.                                              *)

(***************************************************************************)
(* What may still die is never more than at the beginning, so that one can *)
(* tell whether anything died.                                             *)
(***************************************************************************)
BudgetsSpent ==
    budget.crash <= MaxCrashes /\ budget.unapplied <= MaxUnapplied

LEMMA SpendsOne ==
    ASSUME Inv, NEW kind \in {"fault", "crash", "unapplied", "revoke"},
           Spend(kind)
    PROVE  /\ budget'[kind] = budget[kind] - 1
           /\ \A k \in {"fault", "crash", "unapplied", "revoke"} \ {kind} :
                 budget'[k] = budget[k]
<1>1. budget \in [fault : Nat, crash : Nat, unapplied : Nat, revoke : Nat]
  BY TypeParts DEF Inv, BudgetTyped
<1> QED BY <1>1 DEF Spend

LEMMA BudgetsStep ==
    ASSUME Inv, BudgetsSpent, [Next]_vars
    PROVE  /\ BudgetsSpent'
           /\ budget'.crash = MaxCrashes =>
                 /\ budget.crash = MaxCrashes
                 /\ \A c \in Client : ~Dies(c) /\ ~Reboots(c)
           /\ budget'.unapplied = MaxUnapplied =>
                 /\ budget.unapplied = MaxUnapplied
                 /\ \A c \in Client : ~DiesUnapplied(c)
<1>1. budget \in [fault : Nat, crash : Nat, unapplied : Nat, revoke : Nat]
  BY TypeParts DEF Inv, BudgetTyped
<1>2. /\ MaxCrashes \in Nat /\ MaxUnapplied \in Nat
  BY ClientConstants
<1>3. UNCHANGED budget \/ Spend("fault") \/ Spend("crash")
      \/ Spend("unapplied") \/ Spend("revoke")
  BY DEF Next, ClientStep, Prepare, Enroll, Recover, Invoke, KeepIdentity,
     RefuseIdentity, EnsureKey, Load, Send, TimesOut, Persist, InstallConfig,
     StartService, ServiceFails, Return, Dies, DiesUnapplied, Reboots, Revoke,
     Serve, ServeRegister, ServeReenroll, ServeRefusal, ServeFailure,
     AnswerLost, vars
<1>4. ASSUME NEW c \in Client, Dies(c) \/ Reboots(c)
      PROVE  Spend("crash")
  BY <1>4 DEF Dies, Reboots
<1>5. ASSUME NEW c \in Client, DiesUnapplied(c)
      PROVE  Spend("unapplied")
  BY <1>5 DEF DiesUnapplied
<1>6. /\ BudgetsSpent'
      /\ budget'.crash = MaxCrashes =>
            budget.crash = MaxCrashes /\ ~Spend("crash")
      /\ budget'.unapplied = MaxUnapplied =>
            budget.unapplied = MaxUnapplied /\ ~Spend("unapplied")
  BY <1>1, <1>2, <1>3, SpendsOne DEF BudgetsSpent
<1> QED BY <1>4, <1>5, <1>6

Alive ==
    /\ NobodyDied
    /\ \A c \in Client : ~Dies(c) /\ ~DiesUnapplied(c) /\ ~Reboots(c)

LEMMA StillAlive ==
    ASSUME Inv, BudgetsSpent, [Next]_vars, NobodyDied'
    PROVE  Alive
BY BudgetsStep DEF NobodyDied, Alive

-----------------------------------------------------------------------------
(* Identities.                                                             *)

(***************************************************************************)
(* A key is made once, for one client.                                     *)
(***************************************************************************)
KeysDistinct ==
    \A b, c \in Client : b # c /\ private[b] # Empty => private[b] # private[c]

LEMMA KeysAreFresh ==
    ASSUME Inv, [Next]_vars, NEW b \in Client, private'[b] # private[b]
    PROVE  /\ private[b] = Empty /\ private'[b] \in Key \ KeysMade
           /\ \A c \in Client \ {b} : private'[c] = private[c]
           /\ UNCHANGED <<devices, inflight, identity>>
<1>1. \/ UNCHANGED private
      \/ \E c \in Client : EnsureKey(c)
  BY DEF Next, ClientStep, Prepare, Enroll, Recover, Invoke, KeepIdentity,
     RefuseIdentity, Load, Send, TimesOut, Persist, InstallConfig,
     StartService, ServiceFails, Return, Dies, DiesUnapplied, Reboots,
     Revoke, Serve, ServeRegister, ServeReenroll, ServeRefusal,
     ServeFailure, AnswerLost, Answered, vars, files
<1>2. PICK c \in Client : EnsureKey(c)
  BY <1>1
<1>3. PICK k \in Key \ KeysMade :
         private[c] = Empty /\ private' = [private EXCEPT ![c] = k]
  BY <1>2 DEF EnsureKey
<1>4. private \in [Client -> Key \cup {Empty}]
  BY TypeParts DEF Inv, FilesTyped
<1> QED BY <1>2, <1>3, <1>4 DEF EnsureKey, registry

LEMMA KeysDistinctStep ==
    ASSUME Inv, KeysDistinct, [Next]_vars
    PROVE  KeysDistinct'
<1> SUFFICES ASSUME NEW b \in Client, NEW c \in Client, b # c,
                    private'[b] # Empty
             PROVE  private'[b] # private'[c]
  BY DEF KeysDistinct
<1>1. CASE private'[b] = private[b] /\ private'[c] = private[c]
  BY <1>1 DEF KeysDistinct
<1>2. CASE private'[b] # private[b]
  BY <1>2, KeysAreFresh DEF KeysMade
<1>3. CASE private'[b] = private[b] /\ private'[c] # private[c]
  BY <1>3, KeysAreFresh DEF KeysMade
<1> QED BY <1>1, <1>2, <1>3

(***************************************************************************)
(* The script, its requests and the rows of its key all have the identity  *)
(* on disk: it is the script's before a key is made or a request is sent.  *)
(***************************************************************************)
Identified ==
    \A c \in Client :
       /\ stage[c] \notin {"idle", "identity"} => run[c].device = identity[c]
       /\ \A q \in inflight : q.client = c => q.device = identity[c]
       /\ \A d \in RowOf(c) : identity[c] = d

LEMMA IdentityKept ==
    ASSUME Inv, [Next]_vars, Alive, NEW b \in Client
    PROVE  identity[b] \in {Empty, identity'[b]}
<1>1. \/ UNCHANGED identity
      \/ \E c \in Client : KeepIdentity(c)
  BY DEF Next, ClientStep, Prepare, Enroll, Recover, Invoke, Alive,
     RefuseIdentity, EnsureKey, Load, Send, TimesOut, Persist, InstallConfig,
     StartService, ServiceFails, Return, Revoke, Serve, ServeRegister,
     ServeReenroll, ServeRefusal, ServeFailure, AnswerLost, Answered, vars,
     files
<1>2. ASSUME NEW c \in Client, KeepIdentity(c)
      PROVE  identity[b] \in {Empty, identity'[b]}
  BY <1>2, TypeParts DEF KeepIdentity, Inv, FilesTyped
<1> QED BY <1>1, <1>2

(***************************************************************************)
(* A row that appears is of a request.                                     *)
(***************************************************************************)
LEMMA RowsOfRequests ==
    ASSUME Inv, Asked, [Next]_vars, NEW x \in Device,
           DB!Registered(x)', ~DB!Registered(x)
    PROVE  \E q \in inflight :
              /\ q.device = x /\ devices'[x].key = q.key
              /\ UNCHANGED <<private, identity>>
<1>1. \/ \A y \in Device : DB!Registered(y)' => DB!Registered(y)
      \/ \E q \in inflight :
            /\ \/ DB!Register(q.device, q.key, q.token)
               \/ DB!Reenroll(q.device, q.key, q.token)
            /\ UNCHANGED <<private, identity>>
  <2>1. \/ UNCHANGED devices
        \/ \E d \in Device : DB!Revoke(d)
        \/ \E q \in inflight :
              /\ \/ DB!Register(q.device, q.key, q.token)
                 \/ DB!Reenroll(q.device, q.key, q.token)
              /\ UNCHANGED <<private, identity>>
    BY DEF Next, ClientStep, Prepare, Enroll, Recover, Invoke, KeepIdentity,
       RefuseIdentity, EnsureKey, Load, Send, TimesOut, Persist,
       InstallConfig, StartService, ServiceFails, Return, Dies,
       DiesUnapplied, Reboots, Revoke, Serve, ServeRegister, ServeReenroll,
       ServeRefusal, ServeFailure, AnswerLost, Answered, vars, files, registry
  <2> QED BY <2>1, RevokeKeepsRows DEF DB!Registered
<1>2. PICK q \in inflight :
         /\ \/ DB!Register(q.device, q.key, q.token)
            \/ DB!Reenroll(q.device, q.key, q.token)
         /\ UNCHANGED <<private, identity>>
  BY <1>1
<1>3. q \in Request /\ q.device \in Device
  BY TypeParts DEF Inv, Request
<1>4. devices'[q.device].key = q.key
  BY <1>2, <1>3, TransactionTyped, TypeParts DEF Inv
<1>5. \A y \in Device \ {q.device} : devices'[y] = devices[y]
  BY <1>2, <1>3, TypeParts
     DEF DB!Register, DB!Reenroll, Inv, TablesTyped, DB!TypeOK
<1> QED BY <1>2, <1>4, <1>5 DEF DB!Registered

(***************************************************************************)
(* The rows of a client's key.                                             *)
(***************************************************************************)
LEMMA RowsIdentified ==
    ASSUME Inv, Asked, KeysDistinct, Identified, [Next]_vars, Alive,
           NEW b \in Client, NEW d \in RowOf(b)'
    PROVE  identity'[b] = d
<1>1. d \in Device /\ DB!Registered(d)' /\ devices'[d].key = private'[b]
  BY DEF RowOf, DB!RegisteredDevices
<1>2. CASE DB!Registered(d)
  <2>1. devices[d].key = private'[b]
    BY <1>1, <1>2, StepKeepsRows DEF RowsKept
  <2>2. private'[b] = private[b]
    <3>1. devices[d].key \in KeysMade
      BY <1>1, <1>2 DEF KeysMade, DB!RegisteredDevices
    <3> QED BY <2>1, <3>1, KeysAreFresh
  <2>3. d \in RowOf(b)
    BY <1>1, <1>2, <2>1, <2>2 DEF RowOf, DB!RegisteredDevices
  <2> QED BY <1>1, <2>3, IdentityKept, ClientConstants DEF Identified
<1>3. CASE ~DB!Registered(d)
  <2>1. PICK q \in inflight :
           /\ q.device = d /\ devices'[d].key = q.key
           /\ UNCHANGED <<private, identity>>
    BY <1>1, <1>3, RowsOfRequests
  <2>2. q.client \in Client /\ private[q.client] = q.key /\ q.key # Empty
    BY TypeParts, ClientConstants DEF Inv, Request, Asked
  <2>3. q.client = b
    BY <1>1, <2>1, <2>2 DEF KeysDistinct
  <2> QED BY <2>1, <2>3 DEF Identified
<1> QED BY <1>2, <1>3

(***************************************************************************)
(* A request is made by a script that has an identity.                     *)
(***************************************************************************)
LEMMA RequestsIdentified ==
    ASSUME Inv, Asked, Identified, [Next]_vars, Alive,
           NEW q \in inflight'
    PROVE  q.device = identity'[q.client]
<1>1. ASSUME NEW p \in inflight
      PROVE  p.client \in Client /\ p.device = identity'[p.client]
  BY TypeParts, IdentityKept, ClientConstants DEF Inv, Request, Identified
<1>2. CASE q \in inflight
  BY <1>1, <1>2
<1>3. ASSUME NEW c \in Client, inflight' = Abandoned(c)
      PROVE  q.device = identity'[q.client]
  <2>1. PICK p \in inflight :
           q = IF p.client = c THEN [p EXCEPT !.awaited = FALSE] ELSE p
    BY <1>3 DEF Abandoned
  <2>2. q.device = p.device /\ q.client = p.client
    BY <2>1, TypeParts DEF Inv, Request
  <2> QED BY <1>1, <2>2
<1>4. ASSUME NEW c \in Client, Send(c), q \notin inflight
      PROVE  q.device = identity'[q.client]
  <2>1. q.client = c /\ q.device = run[c].device
    BY <1>4 DEF Send
  <2>2. run[c].device = identity[c] /\ identity' = identity
    BY <1>4 DEF Identified, Send, At, files
  <2> QED BY <2>1, <2>2
<1>5. \/ inflight' \subseteq inflight
      \/ \E c \in Client : inflight' = Abandoned(c) \/ Send(c)
  BY DEF Next, ClientStep, Prepare, Enroll, Recover, Invoke, KeepIdentity,
     RefuseIdentity, EnsureKey, Load, TimesOut, Persist, InstallConfig,
     StartService, ServiceFails, Return, Alive, Revoke, Serve, ServeRegister,
     ServeReenroll, ServeRefusal, ServeFailure, AnswerLost, Answered, vars
<1> QED BY <1>2, <1>3, <1>4, <1>5

(***************************************************************************)
(* The script's variables.                                                 *)
(***************************************************************************)
LEMMA ScriptIdentified ==
    ASSUME Inv, Asked, Identified, [Next]_vars, Alive, NEW c \in Client,
           Acts(c), stage'[c] \notin {"idle", "identity"}
    PROVE  run'[c].device = identity'[c]
<1>1. /\ stage \in [Client -> Stage] /\ run \in [Client -> Run]
      /\ identity \in [Client -> Device \cup {Empty}]
  BY TypeParts DEF Inv, FilesTyped, ScriptTyped
<1>2. CASE KeepIdentity(c)
  <2>1. [run[c] EXCEPT !.device = ResolvedDevice(c)].device
           = ResolvedDevice(c)
    BY <1>1 DEF Run
  <2> QED BY <1>1, <1>2, <2>1 DEF KeepIdentity, Set
<1>3. ASSUME Goto(c, "idle") PROVE FALSE
  BY <1>1, <1>3 DEF Goto
<1>4. ASSUME NEW r, Invoke(c, r) PROVE FALSE
  BY <1>1, <1>4 DEF Invoke, Goto
<1>5. CASE /\ stage[c] \notin {"idle", "identity"}
           /\ \/ UNCHANGED run
              \/ \E r : Set(c, r) /\ r.device = run[c].device
           /\ UNCHANGED identity
  BY <1>1, <1>5 DEF Identified, Set
<1>6. ASSUME NEW q \in inflight, q.client = c,
             Serve(q) \/ ServeFailure(q) \/ AnswerLost(q)
      PROVE  run'[c].device = identity'[c]
  <2>1. UNCHANGED identity
    BY <1>6 DEF Serve, ServeRegister, ServeReenroll, ServeRefusal,
       ServeFailure, AnswerLost, Answered, files
  <2>2. CASE UNCHANGED <<stage, run>>
    BY <2>1, <2>2 DEF Identified
  <2>3. CASE Exit(c)
    BY <1>3, <2>3 DEF Exit
  <2>4. ASSUME NEW a, Accepted(q, a), q.awaited
        PROVE  run'[c].device = identity'[c]
    <3> DEFINE v == [[f \in StateFile |-> Gateway]
                       EXCEPT !["client-address"] = a]
    <3>1. stage[c] = "waiting"
      BY <1>6, <2>4 DEF Asked
    <3>2. Set(c, [run[c] EXCEPT !.value = v])
      BY <1>6, <2>4 DEF Accepted
    <3> HIDE DEF v
    <3>3. [run[c] EXCEPT !.value = v].device = run[c].device
      BY <1>1 DEF Run
    <3> QED BY <1>5, <2>1, <3>1, <3>2, <3>3
  <2>5. ASSUME NEW a, Accepted(q, a)
        PROVE  run'[c].device = identity'[c]
    BY <2>2, <2>4, <2>5 DEF Accepted
  <2> QED BY <1>6, <2>2, <2>3, <2>5 DEF Serve, ServeRegister, ServeReenroll,
             ServeRefusal, ServeFailure, AnswerLost, Rejected
<1>7. ASSUME \/ EnsureKey(c) \/ Load(c) \/ Send(c) \/ Persist(c)
             \/ InstallConfig(c) \/ StartService(c)
      PROVE  run'[c].device = identity'[c]
  <2>1. stage[c] \notin {"idle", "identity"} /\ UNCHANGED identity
    BY <1>7 DEF EnsureKey, Load, Send, Persist, InstallConfig, StartService,
       At, files
  <2>2. /\ \A v : [run[c] EXCEPT !.value = v].device = run[c].device
        /\ [run[c] EXCEPT !.next = @ + 1].device = run[c].device
        /\ \A x : [run[c] EXCEPT !.fresh = x].device = run[c].device
    BY <1>1 DEF Run
  <2>3. UNCHANGED run \/ (\E r : Set(c, r) /\ r.device = run[c].device)
        \/ Exit(c)
    BY <1>7, <2>2 DEF EnsureKey, Load, Send, Persist, InstallConfig,
       StartService
  <2> QED BY <1>3, <1>5, <2>1, <2>3 DEF Exit
<1> QED BY <1>2, <1>3, <1>4, <1>6, <1>7 DEF Acts, InvokesScript, Answers,
           ClientStep, Prepare, Enroll, Recover, Alive, RefuseIdentity,
           TimesOut, ServiceFails, Return, Exit

LEMMA IdentifiedStep ==
    ASSUME Inv, Asked, KeysDistinct, Identified, [Next]_vars, Alive
    PROVE  Identified'
<1>1. ASSUME NEW b \in Client, stage'[b] \notin {"idle", "identity"}
      PROVE  run'[b].device = identity'[b]
  <2>1. CASE Acts(b)
    BY <1>1, <2>1, ScriptIdentified
  <2>2. CASE \E c \in Client \ {b} : Acts(c)
    BY <1>1, <2>2, OthersStay DEF SameFor, Identified
  <2>3. CASE UNCHANGED <<stage, run, identity>>
    BY <1>1, <2>3 DEF Identified
  <2> QED BY <2>1, <2>2, <2>3, SomebodyActs
<1> QED BY <1>1, RequestsIdentified, RowsIdentified DEF Identified

(***************************************************************************)
(* IdentityRegistered for every instance.  Its inductive invariant is      *)
(* conditional, as the property is: a death may cut the identity.          *)
(***************************************************************************)
THEOREM IdentityAlwaysRegistered == Spec => []IdentityRegistered
<1> DEFINE I == /\ Inv /\ Asked /\ BudgetsSpent /\ KeysDistinct
                /\ NobodyDied => Identified
<1>1. Init => I
  <2>1. Init => BudgetsSpent
    BY ClientConstants DEF Init, BudgetsSpent
  <2>2. Init => KeysDistinct /\ Identified
    BY DEF Init, KeysDistinct, Identified, RowOf, DB!RegisteredDevices,
       DB!Registered
  <2> QED BY <2>1, <2>2, InvInit
<1>2. I /\ [Next]_vars => I'
  <2> SUFFICES ASSUME I, [Next]_vars PROVE I'
    OBVIOUS
  <2>1. Inv' /\ Asked' /\ BudgetsSpent' /\ KeysDistinct'
    BY InvStep, AskedStep, BudgetsStep, KeysDistinctStep
  <2>2. ASSUME NobodyDied' PROVE Identified'
    <3>1. Alive
      BY <2>2, StillAlive
    <3> QED BY <3>1, IdentifiedStep DEF Alive
  <2> QED BY <2>1, <2>2
<1>3. I => IdentityRegistered
  BY DEF IdentityRegistered, Identified
<1> HIDE DEF I
<1> QED BY <1>1, <1>2, <1>3, PTL DEF Spec

-----------------------------------------------------------------------------
(* What is persisted, configured and run.                                  *)

(***************************************************************************)
(* All of the files but the hostname's, which is not always written.       *)
(***************************************************************************)
Persisted == StateFile \ {"hostname"}

LEMMA PersistedOrder ==
    /\ Persisted = {PersistOrder[1], PersistOrder[2], PersistOrder[3],
                    PersistOrder[4]}
    /\ PersistOrder[1] = "server-public-key"
    /\ PersistOrder[2] = "client-address"
    /\ PersistOrder[3] = "server-endpoint"
    /\ PersistOrder[4] = "server-tunnel-ip"
    /\ PersistOrder[5] = "hostname"
    /\ \A i, j \in 1..5 : PersistOrder[i] = PersistOrder[j] => i = j
BY Order DEF Persisted, PersistOrder

(***************************************************************************)
(* The files follow the script's values one by one, and the configuration  *)
(* follows the files.                                                      *)
(***************************************************************************)
Following(c) ==
    /\ stage[c] \in {"identity", "key", "load", "enroll", "waiting"} =>
          run[c].next = 1
    /\ At(c, "persist") =>
          \A i \in 1..4 :
             i < run[c].next =>
                state[c][PersistOrder[i]] = run[c].value[PersistOrder[i]]
    /\ stage[c] \in {"config", "service"} =>
          \A f \in Persisted : state[c][f] = run[c].value[f]
    /\ At(c, "service") => wgconf[c] = Rendered(c)

(***************************************************************************)
(* Where a script moves that takes no step of the persisting.              *)
(***************************************************************************)
LEMMA AnswerMoves ==
    ASSUME Inv, Asked, NEW c \in Client, Answers(c)
    PROVE  /\ UNCHANGED <<identity, private, state, wgconf, interface>>
           /\ \/ UNCHANGED <<stage, run>>
              \/ Exit(c)
              \/ /\ stage[c] = "waiting" /\ Goto(c, "persist")
                 /\ \E a \in Address :
                       Set(c, [run[c] EXCEPT !.value =
                                 [[f \in StateFile |-> Gateway]
                                    EXCEPT !["client-address"] = a]])
<1>1. PICK q \in inflight :
         q.client = c /\ (Serve(q) \/ ServeFailure(q) \/ AnswerLost(q))
  BY DEF Answers
<1>2. q \in Request
  BY TypeParts DEF Inv
<1>3. UNCHANGED <<identity, private, state, wgconf, interface>>
  BY <1>1 DEF Serve, ServeRegister, ServeReenroll, ServeRefusal,
     ServeFailure, AnswerLost, Answered, files, tunnel
<1>4. ASSUME NEW a \in Address, Accepted(q, a)
      PROVE  \/ UNCHANGED <<stage, run>>
             \/ /\ stage[c] = "waiting" /\ Goto(c, "persist")
                /\ Set(c, [run[c] EXCEPT !.value =
                             [[f \in StateFile |-> Gateway]
                                EXCEPT !["client-address"] = a]])
  BY <1>1, <1>4 DEF Accepted, Asked
<1>5. CASE ServeRegister(q)
  <2>1. devices'[q.device].address \in Address
    BY <1>2, <1>5, TransactionTyped, TypeParts
       DEF ServeRegister, Inv, DB!Row
  <2> QED BY <1>3, <1>4, <1>5, <2>1 DEF ServeRegister
<1>6. CASE ServeReenroll(q)
  <2>1. devices'[q.device] \in DB!Row /\ devices' = devices
    BY <1>2, <1>6, TransactionTyped, TypeParts
       DEF ServeReenroll, DB!Reenroll, Inv
  <2>2. devices[q.device].address \in Address
    BY <2>1 DEF DB!Row
  <2> QED BY <1>3, <1>4, <1>6, <2>2 DEF ServeReenroll
<1>7. CASE Rejected(q)
  BY <1>1, <1>3, <1>7 DEF Rejected
<1> QED BY <1>1, <1>5, <1>6, <1>7 DEF Serve, ServeRefusal, ServeFailure,
           AnswerLost

LEMMA InvocationMoves ==
    ASSUME Inv, NEW c \in Client, InvokesScript(c)
    PROVE  /\ UNCHANGED <<identity, private, state, wgconf, interface>>
           /\ stage[c] = "idle" /\ Goto(c, "identity")
           /\ \E r : /\ Set(c, r) /\ r.next = 1
                     /\ \/ r.value = Nothing
                        \/ \E d \in DB!RegisteredDevices :
                              r.value = [f \in StateFile |->
                                 CASE f = "client-address" ->
                                        devices[d].address
                                   [] f = "hostname" -> Empty
                                   [] OTHER -> Gateway]
<1>1. /\ \A d : /\ [NotRunning EXCEPT !.mode = "prepare", !.device = d].next
                      = 1
                /\ [NotRunning EXCEPT !.mode = "prepare", !.device = d].value
                      = Nothing
      /\ \A d, t : /\ [NotRunning EXCEPT !.device = d, !.token = t].next = 1
                   /\ [NotRunning EXCEPT !.device = d, !.token = t].value
                         = Nothing
      /\ \A v : /\ [NotRunning EXCEPT !.value = v].next = 1
                /\ [NotRunning EXCEPT !.value = v].value = v
  BY DEF NotRunning
<1>2. ASSUME NEW r, Invoke(c, r)
      PROVE  /\ UNCHANGED <<identity, private, state, wgconf, interface>>
             /\ stage[c] = "idle" /\ Goto(c, "identity") /\ Set(c, r)
  BY <1>2 DEF Invoke, At, files, tunnel
<1>3. ASSUME NEW d, Prepare(c, d) PROVE
         /\ UNCHANGED <<identity, private, state, wgconf, interface>>
         /\ stage[c] = "idle" /\ Goto(c, "identity")
         /\ \E r : Set(c, r) /\ r.next = 1 /\ r.value = Nothing
  BY <1>1, <1>2, <1>3 DEF Prepare
<1>4. ASSUME NEW d, NEW t, Enroll(c, d, t) PROVE
         /\ UNCHANGED <<identity, private, state, wgconf, interface>>
         /\ stage[c] = "idle" /\ Goto(c, "identity")
         /\ \E r : Set(c, r) /\ r.next = 1 /\ r.value = Nothing
  <2> DEFINE r == [NotRunning EXCEPT !.device = d, !.token = t]
  <2>1. Invoke(c, r)
    BY <1>4 DEF Enroll
  <2>2. r.next = 1 /\ r.value = Nothing
    BY <1>1
  <2> HIDE DEF r
  <2> QED BY <1>2, <2>1, <2>2
<1>5. CASE Recover(c)
  <2> DEFINE v(d) == [f \in StateFile |->
                        CASE f = "client-address" -> devices[d].address
                          [] f = "hostname" -> Empty
                          [] OTHER -> Gateway]
             r(d) == [NotRunning EXCEPT !.value = v(d)]
  <2>1. PICK d \in DB!RegisteredDevices : Invoke(c, r(d))
    BY <1>5 DEF Recover
  <2>2. r(d).next = 1 /\ r(d).value = v(d)
    BY <1>1
  <2> HIDE DEF r
  <2>3. /\ UNCHANGED <<identity, private, state, wgconf, interface>>
        /\ stage[c] = "idle" /\ Goto(c, "identity") /\ Set(c, r(d))
    BY <1>2, <2>1
  <2> QED BY <2>2, <2>3
<1> QED BY <1>3, <1>4, <1>5 DEF InvokesScript

(***************************************************************************)
(* The steps of the script in the middle keep the values and the place.    *)
(***************************************************************************)
LEMMA FollowingStep ==
    ASSUME Inv, Asked, NEW c \in Client, Following(c), Acts(c)
    PROVE  Following(c)'
<1>0. /\ stage \in [Client -> Stage] /\ run \in [Client -> Run]
      /\ state \in [Client -> [StateFile -> Value]]
      /\ private \in [Client -> Key \cup {Empty}]
      /\ wgconf \in [Client -> WireGuard \cup {NotInstalled}]
      /\ run[c] \in Run
  BY TypeParts DEF Inv, FilesTyped, ScriptTyped, TunnelTyped
<1>1. ASSUME Goto(c, "idle") \/ Goto(c, "done") PROVE Following(c)'
  BY <1>0, <1>1 DEF Goto, Following, At
<1>2. CASE Exit(c)
  BY <1>1, <1>2 DEF Exit
<1>3. CASE InvokesScript(c)
  <2>1. stage'[c] = "identity" /\ run'[c].next = 1
    BY <1>0, <1>3, InvocationMoves DEF Goto, Set
  <2> QED BY <2>1 DEF Following, At
<1>4. CASE Answers(c)
  <2>1. CASE UNCHANGED <<stage, run>>
    BY <1>4, <2>1, AnswerMoves DEF Following, At, Rendered
  <2>2. ASSUME stage[c] = "waiting", Goto(c, "persist"), NEW v,
               Set(c, [run[c] EXCEPT !.value = v])
        PROVE  Following(c)'
    <3>1. [run[c] EXCEPT !.value = v].next = run[c].next
      BY <1>0 DEF Run
    <3>2. stage'[c] = "persist" /\ run'[c].next = 1
      BY <1>0, <2>2, <3>1 DEF Goto, Set, Following
    <3> QED BY <3>2 DEF Following, At
  <2> QED BY <1>2, <1>4, <2>1, <2>2, AnswerMoves
<1>5. CASE KeepIdentity(c) \/ EnsureKey(c) \/ Load(c) \/ Send(c)
  <2>1. PICK r : Set(c, r) /\ r.next = run[c].next
    <3>1. /\ [run[c] EXCEPT !.device = ResolvedDevice(c)].next = run[c].next
          /\ \A v : [run[c] EXCEPT !.value = v].next = run[c].next
      BY <1>0 DEF Run
    <3>2. CASE UNCHANGED run
      BY <1>0, <3>2 DEF Set
    <3>3. CASE Exit(c)
      <4>1. Load(c)
        BY <1>0, <1>5, <3>3 DEF Exit, Goto, KeepIdentity, EnsureKey,
           AfterKey, Send
      <4>2. run[c].next = 1
        BY <4>1 DEF Load, At, Following
      <4> QED BY <3>3, <4>2, NotRunningTyped DEF Exit
    <3> QED BY <1>5, <3>1, <3>2, <3>3 DEF KeepIdentity, EnsureKey, Load, Send
  <2>2. run'[c].next = 1
    <3>1. run[c].next = 1
      BY <1>5 DEF KeepIdentity, EnsureKey, Load, Send, At, Following
    <3> QED BY <1>0, <2>1, <3>1 DEF Set
  <2>3. stage'[c] \in {"key", "done", "load", "persist", "enroll", "idle",
                       "waiting"}
    BY <1>0, <1>5 DEF KeepIdentity, EnsureKey, AfterKey, Load, Exit, Send, Goto
  <2> QED BY <2>2, <2>3 DEF Following, At
<1>6. CASE Persist(c)
  <2> DEFINE k == run[c].next
             f == PersistOrder[k]
  <2>1. k \in 1..5 /\ At(c, "persist")
    BY <1>0, <1>6, Order DEF Persist, At, Inv, Fits, RunFits, Run
  <2>2. /\ [run[c] EXCEPT !.next = @ + 1].next = k + 1
        /\ [run[c] EXCEPT !.next = @ + 1].value = run[c].value
    BY <1>0 DEF Run
  <2>3. run'[c].next = k + 1 /\ run'[c].value = run[c].value
    BY <1>0, <1>6, <2>2 DEF Persist, Set
  <2> HIDE DEF k
  <2>4. ASSUME NEW i \in 1..4, i < k + 1
        PROVE  state'[c][PersistOrder[i]] = run[c].value[PersistOrder[i]]
    <3>1. PersistOrder[i] \in StateFile /\ PersistOrder[i] # "hostname"
      BY PersistedOrder, Order
    <3>2. Written(c) = PersistOrder[k]
      BY DEF Written, k
    <3>3. CASE i = k
      <4>1. state' = [state EXCEPT ![c][PersistOrder[i]]
                                     = run[c].value[PersistOrder[i]]]
        BY <1>6, <3>1, <3>2, <3>3 DEF Persist
      <4> QED BY <1>0, <3>1, <4>1
    <3>4. CASE i < k
      <4>1. PersistOrder[i] # PersistOrder[k]
        BY <2>1, <3>4, PersistedOrder
      <4>2. state'[c][PersistOrder[i]] = state[c][PersistOrder[i]]
        BY <1>0, <1>6, <3>1, <3>2, <4>1 DEF Persist
      <4> QED BY <2>1, <3>4, <4>2 DEF Following, k
    <3> QED BY <2>1, <2>4, <3>3, <3>4
  <2>5. stage'[c] = IF k = 5 THEN "config" ELSE "persist"
    BY <1>0, <1>6, Order DEF Persist, Goto, k
  <2>6. k = 5 => \A g \in Persisted : state'[c][g] = run'[c].value[g]
    BY <2>3, <2>4, PersistedOrder
  <2> QED BY <2>3, <2>4, <2>5, <2>6 DEF Following, At
<1>7. CASE InstallConfig(c)
  <2> DEFINE r == [run[c] EXCEPT !.fresh = wgconf[c] # Rendered(c)]
  <2>1. r.value = run[c].value
    BY <1>0 DEF Run
  <2>2. stage'[c] = "service" /\ run'[c] = r /\ wgconf'[c] = Rendered(c)
        /\ UNCHANGED <<state, private>> /\ stage[c] = "config"
    BY <1>0, <1>7 DEF InstallConfig, Goto, Set, At, files
  <2> HIDE DEF r
  <2>3. Rendered(c)' = Rendered(c)
    BY <2>1, <2>2 DEF Rendered
  <2> QED BY <2>1, <2>2, <2>3 DEF Following, At
<1>8. CASE Reboots(c)
  BY <1>8 DEF Reboots, Following, At, Rendered, files
<1> QED BY <1>1, <1>2, <1>3, <1>4, <1>5, <1>6, <1>7, <1>8 DEF Acts, ClientStep,
           RefuseIdentity, StartService, Return, TimesOut, ServiceFails,
           Dies, DiesUnapplied

(***************************************************************************)
(* A running interface has the configuration on disk, unless a death cut   *)
(* that, in which case the next run makes another; a script that is about  *)
(* to leave a running interface alone knows that both agree.               *)
(***************************************************************************)
Running(c) ==
    /\ (At(c, "service") => ~run[c].fresh) =>
          \/ interface[c] \in {wgconf[c], NotInstalled}
          \/ wgconf[c] = NotInstalled
    /\ At(c, "done") /\ run[c].mode = "install" =>
          /\ interface[c].key = private[c]
          /\ \A f \in Persisted : interface[c].value[f] = state[c][f]

LEMMA RenderedRuns ==
    ASSUME Inv, NEW c \in Client, stage[c] \in {"config", "service"}
    PROVE  /\ Rendered(c) # NotInstalled /\ Rendered(c).key = private[c]
           /\ \A f \in Persisted : Rendered(c).value[f] = run[c].value[f]
<1>1. private[c] \in Key
  BY DEF Inv, Fits, RunFits
<1>2. run[c].value \in [StateFile -> Value]
  BY TypeParts DEF Inv, ScriptTyped, Run
<1>3. Rendered(c).key = private[c]
      /\ \A f \in Persisted : Rendered(c).value[f] = run[c].value[f]
  BY <1>2 DEF Rendered, Persisted
<1>4. NotInstalled.key = Empty
  BY DEF NotInstalled
<1> QED BY <1>1, <1>3, <1>4, ClientConstants

LEMMA RunningStep ==
    ASSUME Inv, Asked, NEW c \in Client, Following(c), Running(c), Acts(c),
           ~DiesUnapplied(c)
    PROVE  Running(c)'
<1>0. /\ stage \in [Client -> Stage] /\ run \in [Client -> Run]
      /\ wgconf \in [Client -> WireGuard \cup {NotInstalled}]
      /\ interface \in [Client -> WireGuard \cup {NotInstalled}]
      /\ run[c] \in Run
  BY TypeParts DEF Inv, ScriptTyped, TunnelTyped
<1>1. ASSUME UNCHANGED <<wgconf, interface>>, stage[c] # "service",
             stage'[c] \notin {"service", "done"}
      PROVE  Running(c)'
  BY <1>1 DEF Running, At
<1>2. CASE InvokesScript(c)
  <2>1. stage'[c] = "identity" /\ stage[c] = "idle"
    BY <1>0, <1>2, InvocationMoves DEF Goto
  <2> QED BY <1>1, <1>2, <2>1, InvocationMoves
<1>3. CASE Answers(c)
  <2>1. CASE UNCHANGED <<stage, run>>
    BY <1>3, <2>1, AnswerMoves DEF Running, At
  <2>2. CASE ~UNCHANGED <<stage, run>>
    <3>1. stage[c] = "waiting"
      BY <1>3, <2>2 DEF Answers, Asked, Serve, ServeRegister, ServeReenroll,
         ServeRefusal, ServeFailure, AnswerLost, Accepted, Rejected
    <3>2. stage'[c] \in {"idle", "persist"}
      BY <1>0, <1>3, <2>2, AnswerMoves DEF Goto, Exit
    <3> QED BY <1>1, <1>3, <3>1, <3>2, AnswerMoves
  <2> QED BY <2>1, <2>2
<1>4. CASE EnsureKey(c)
  <2>1. /\ stage'[c] = IF run[c].mode = "prepare" THEN "done" ELSE "load"
        /\ stage[c] = "key" /\ UNCHANGED <<wgconf, interface, run>>
    BY <1>0, <1>4 DEF EnsureKey, AfterKey, Goto, At, tunnel
  <2> QED BY <2>1 DEF Running, At
<1>5. CASE \/ KeepIdentity(c) \/ RefuseIdentity(c) \/ Load(c) \/ Send(c)
           \/ Persist(c) \/ Return(c) \/ TimesOut(c)
  <2>1. stage[c] # "service" /\ UNCHANGED <<wgconf, interface>>
    BY <1>5 DEF KeepIdentity, RefuseIdentity, Load, Send, Persist, Return,
       TimesOut, At, tunnel
  <2>2. stage'[c] \notin {"service", "done"}
    BY <1>0, <1>5 DEF KeepIdentity, RefuseIdentity, Load, Send, Persist,
       Return, TimesOut, Goto, Exit
  <2> QED BY <1>1, <2>1, <2>2
<1>6. CASE InstallConfig(c)
  <2> DEFINE r == [run[c] EXCEPT !.fresh = wgconf[c] # Rendered(c)]
  <2>1. r.fresh = (wgconf[c] # Rendered(c))
    BY <1>0 DEF Run
  <2>2. /\ stage'[c] = "service" /\ run'[c] = r /\ wgconf'[c] = Rendered(c)
        /\ UNCHANGED interface /\ stage[c] = "config"
    BY <1>0, <1>6 DEF InstallConfig, Goto, Set, At
  <2> HIDE DEF r
  <2>3. Rendered(c) # NotInstalled
    BY <2>2, RenderedRuns
  <2> QED BY <2>1, <2>2, <2>3 DEF Running, At
<1>7. CASE StartService(c)
  <2>1. stage[c] = "service" /\ wgconf[c] = Rendered(c)
    BY <1>7 DEF StartService, At, Following
  <2>2. /\ wgconf[c] # NotInstalled /\ wgconf[c].key = private[c]
        /\ \A f \in Persisted : wgconf[c].value[f] = state[c][f]
    BY <2>1, RenderedRuns DEF Following, At
  <2>3. /\ stage'[c] = "done"
        /\ interface'[c] = IF run[c].fresh \/ interface[c] = NotInstalled
                           THEN wgconf[c] ELSE interface[c]
        /\ UNCHANGED <<wgconf, private, state>>
    BY <1>0, <1>7 DEF StartService, Goto, files
  <2>4. interface'[c] = wgconf[c]
    BY <2>1, <2>2, <2>3 DEF Running, At
  <2> QED BY <2>2, <2>3, <2>4 DEF Running, At
<1>8. CASE ServiceFails(c)
  <2>1. interface'[c] = NotInstalled /\ stage'[c] = "idle"
    BY <1>0, <1>8 DEF ServiceFails, Exit, Goto
  <2> QED BY <2>1 DEF Running, At
<1>9. CASE Dies(c)
  <2>1. /\ wgconf'[c] \in {wgconf[c], NotInstalled} /\ stage'[c] = "idle"
        /\ UNCHANGED interface /\ stage[c] # "service"
    BY <1>0, <1>9 DEF Dies, Exit, Goto
  <2> QED BY <2>1 DEF Running, At
<1>10. CASE Reboots(c)
  <2>1. /\ interface'[c] = wgconf[c] /\ stage'[c] = "idle"
        /\ UNCHANGED wgconf
    BY <1>0, <1>10 DEF Reboots, At
  <2> QED BY <2>1 DEF Running, At
<1> QED BY <1>2, <1>3, <1>4, <1>5, <1>6, <1>7, <1>8, <1>9, <1>10
        DEF Acts, ClientStep

(***************************************************************************)
(* What following and running are about is one client's.                   *)
(***************************************************************************)
LEMMA SameKeeps ==
    ASSUME NEW b \in Client, SameFor(b)
    PROVE  /\ Following(b) => Following(b)'
           /\ Running(b) => Running(b)'
BY DEF SameFor, Following, Running, At, Rendered

LEMMA FollowingAll ==
    ASSUME Inv, Asked, \A b \in Client : Following(b), [Next]_vars
    PROVE  \A b \in Client : Following(b)'
<1> SUFFICES ASSUME NEW b \in Client PROVE Following(b)'
  OBVIOUS
<1>1. CASE Acts(b)
  BY <1>1, FollowingStep
<1>2. CASE SameFor(b)
  BY <1>2, SameKeeps
<1> QED BY <1>1, <1>2, SomebodyActs, OthersStay DEF SameFor

(***************************************************************************)
(* DoneMeansRunning for every instance.                                    *)
(***************************************************************************)
THEOREM DoneAlwaysMeansRunning == Spec => []DoneMeansRunning
<1> DEFINE I == /\ Inv /\ Asked /\ BudgetsSpent
                /\ \A b \in Client : Following(b)
                /\ budget.unapplied = MaxUnapplied =>
                      \A b \in Client : Running(b)
<1>1. Init => I
  <2>1. Init => BudgetsSpent
    BY ClientConstants DEF Init, BudgetsSpent
  <2>2. Init => \A b \in Client : Following(b) /\ Running(b)
    BY DEF Init, Following, Running, At
  <2> QED BY <2>1, <2>2, InvInit
<1>2. I /\ [Next]_vars => I'
  <2> SUFFICES ASSUME I, [Next]_vars PROVE I'
    OBVIOUS
  <2>1. /\ Inv' /\ Asked' /\ BudgetsSpent'
        /\ \A b \in Client : Following(b)'
    BY InvStep, AskedStep, BudgetsStep, FollowingAll
  <2>2. ASSUME budget'.unapplied = MaxUnapplied, NEW b \in Client
        PROVE  Running(b)'
    <3>1. Running(b) /\ ~DiesUnapplied(b)
      BY <2>2, BudgetsStep
    <3>2. CASE Acts(b)
      BY <3>1, <3>2, RunningStep
    <3>3. CASE SameFor(b)
      BY <3>1, <3>3, SameKeeps
    <3> QED BY <3>2, <3>3, SomebodyActs, OthersStay DEF SameFor
  <2> QED BY <2>1, <2>2
<1>3. I => DoneMeansRunning
  BY DEF DoneMeansRunning, Running, Persisted
<1> HIDE DEF I
<1> QED BY <1>1, <1>2, <1>3, PTL DEF Spec

-----------------------------------------------------------------------------
(* What the gateway gave.                                                  *)

Leads(v) ==
    v["server-endpoint"] = Gateway /\ v["server-tunnel-ip"] = Gateway
Whole(v) == Complete(v) /\ Leads(v)

(***************************************************************************)
(* Between two runs of persisting, the files have everything the gateway   *)
(* gives or nothing was configured yet; so does what the operator gives.   *)
(***************************************************************************)
Provided(c) ==
    /\ stage[c] \in {"identity", "key", "load"} =>
          run[c].value = Nothing \/ Whole(run[c].value)
    /\ stage[c] \in {"persist", "config", "service"} => Whole(run[c].value)
    /\ ~At(c, "persist") =>
          \/ Whole(state[c])
          \/ ~Complete(state[c]) /\ wgconf[c] = NotInstalled
    /\ stage[c] \in {"enroll", "waiting"} => wgconf[c] = NotInstalled
    /\ wgconf[c] # NotInstalled => Leads(wgconf[c].value)
    /\ interface[c] # NotInstalled => Leads(interface[c].value)

LEMMA WholeSame ==
    ASSUME NEW v, NEW w, \A f \in Persisted : v[f] = w[f], Whole(v)
    PROVE  Whole(w)
<1>1. {"server-public-key", "client-address", "server-endpoint",
       "server-tunnel-ip"} \subseteq Persisted
  BY PersistedOrder
<1> QED BY <1>1 DEF Whole, Complete, Leads

(***************************************************************************)
(* An answer is whole, and so is what the operator copies from a row.      *)
(***************************************************************************)
LEMMA WholeGiven ==
    ASSUME NEW a \in Address
    PROVE  /\ Whole([[f \in StateFile |-> Gateway]
                        EXCEPT !["client-address"] = a])
           /\ Whole([f \in StateFile |->
                        CASE f = "client-address" -> a
                          [] f = "hostname" -> Empty
                          [] OTHER -> Gateway])
<1>1. a # Empty /\ Gateway # Empty
  BY ClientConstants
<1> QED BY <1>1, Order DEF Whole, Complete, Leads

(***************************************************************************)
(* Loading keeps what is whole and adds to nothing what the files have.    *)
(***************************************************************************)
LEMMA WholeLoaded ==
    ASSUME Inv, NEW c \in Client
    PROVE  /\ Whole(run[c].value) => Whole(WithDefaults(Loaded(c)))
                                     /\ Complete(Loaded(c))
           /\ run[c].value = Nothing =>
                 /\ Complete(Loaded(c)) = Complete(state[c])
                 /\ Whole(state[c]) => Whole(WithDefaults(Loaded(c)))
<1>1. /\ run[c].value \in [StateFile -> Value]
      /\ state[c] \in [StateFile -> Value]
  BY TypeParts DEF Inv, ScriptTyped, FilesTyped, Run
<1>2. \A f \in StateFile :
         /\ run[c].value[f] # Empty => Loaded(c)[f] = run[c].value[f]
         /\ run[c].value[f] = Empty => Loaded(c)[f] = state[c][f]
  BY DEF Loaded, First
<1>3. Gateway # Empty
  BY ClientConstants
<1>4. ASSUME NEW v \in [StateFile -> Value], Whole(v)
      PROVE  Whole(WithDefaults(v))
  BY <1>3, <1>4, Order DEF Whole, Complete, Leads, WithDefaults, First
<1>5. Loaded(c) \in [StateFile -> Value]
  BY LoadedTyped
<1>6. Persisted \subseteq StateFile
  BY DEF Persisted
<1>7. ASSUME Whole(run[c].value) PROVE Whole(Loaded(c))
  BY <1>2, <1>3, <1>7, Order DEF Whole, Complete, Leads
<1>8. ASSUME run[c].value = Nothing
      PROVE  /\ \A f \in Persisted : Loaded(c)[f] = state[c][f]
             /\ Complete(Loaded(c)) = Complete(state[c])
  <2>1. \A f \in StateFile : Loaded(c)[f] = state[c][f]
    BY <1>2, <1>8 DEF Nothing
  <2> QED BY <2>1, <1>6, Order DEF Complete
<1> QED BY <1>4, <1>5, <1>7, <1>8, WholeSame DEF Whole

LEMMA ProvidedStep ==
    ASSUME Inv, Asked, NEW c \in Client, Following(c), Provided(c), Acts(c),
           Alive
    PROVE  Provided(c)'
<1>0. /\ stage \in [Client -> Stage] /\ run \in [Client -> Run]
      /\ state \in [Client -> [StateFile -> Value]]
      /\ wgconf \in [Client -> WireGuard \cup {NotInstalled}]
      /\ interface \in [Client -> WireGuard \cup {NotInstalled}]
      /\ run[c] \in Run /\ run[c].value \in [StateFile -> Value]
  BY TypeParts DEF Inv, FilesTyped, ScriptTyped, TunnelTyped, Run
<1>1. ASSUME UNCHANGED <<state, wgconf, interface>>, stage[c] # "persist",
             stage'[c] \in {"idle", "done"}
      PROVE  Provided(c)'
  BY <1>1 DEF Provided, At
<1>2. CASE InvokesScript(c)
  <2>1. stage[c] = "idle" /\ stage'[c] = "identity"
    BY <1>0, <1>2, InvocationMoves DEF Goto
  <2>2. run'[c].value = Nothing \/ Whole(run'[c].value)
    <3>1. \A d \in DB!RegisteredDevices : devices[d].address \in Address
      BY TypeParts DEF Inv, TablesTyped, DB!TypeOK, DB!Row,
         DB!RegisteredDevices, DB!Registered
    <3>2. PICK r :
             /\ Set(c, r)
             /\ \/ r.value = Nothing
                \/ \E d \in DB!RegisteredDevices :
                      r.value = [f \in StateFile |->
                         CASE f = "client-address" -> devices[d].address
                           [] f = "hostname" -> Empty
                           [] OTHER -> Gateway]
      BY <1>2, InvocationMoves
    <3>3. r.value = Nothing \/ Whole(r.value)
      BY <3>1, <3>2, WholeGiven
    <3> QED BY <1>0, <3>2, <3>3 DEF Set
  <2>3. UNCHANGED <<state, wgconf, interface>>
    BY <1>2, InvocationMoves
  <2> QED BY <2>1, <2>2, <2>3 DEF Provided, At
<1>3. CASE Answers(c)
  <2>1. CASE UNCHANGED <<stage, run>>
    BY <1>3, <2>1, AnswerMoves DEF Provided, At
  <2>2. CASE Exit(c) /\ ~UNCHANGED <<stage, run>>
    <3>1. stage[c] = "waiting"
      BY <1>3, <2>2 DEF Answers, Asked, Serve, ServeRegister, ServeReenroll,
         ServeRefusal, ServeFailure, AnswerLost, Accepted, Rejected
    <3>2. stage'[c] = "idle"
      BY <1>0, <2>2 DEF Exit, Goto
    <3> QED BY <1>1, <1>3, <3>1, <3>2, AnswerMoves
  <2>3. ASSUME stage[c] = "waiting", Goto(c, "persist"), NEW a \in Address,
               Set(c, [run[c] EXCEPT !.value =
                         [[f \in StateFile |-> Gateway]
                            EXCEPT !["client-address"] = a]])
        PROVE  Provided(c)'
    <3> DEFINE v == [[f \in StateFile |-> Gateway]
                        EXCEPT !["client-address"] = a]
    <3>1. Whole(v)
      BY WholeGiven
    <3>2. Set(c, [run[c] EXCEPT !.value = v])
      BY <2>3
    <3> HIDE DEF v
    <3>3. [run[c] EXCEPT !.value = v].value = v
      BY <1>0 DEF Run
    <3>4. stage'[c] = "persist" /\ run'[c].value = v
      BY <1>0, <2>3, <3>2, <3>3 DEF Goto, Set
    <3>5. UNCHANGED <<wgconf, interface>>
      BY <1>3, AnswerMoves
    <3> QED BY <3>1, <3>4, <3>5 DEF Provided, At
  <2> QED BY <1>3, <2>1, <2>2, <2>3, AnswerMoves
<1>4. CASE KeepIdentity(c) \/ EnsureKey(c)
  <2>1. [run[c] EXCEPT !.device = ResolvedDevice(c)].value = run[c].value
    BY <1>0 DEF Run
  <2>2. /\ run'[c].value = run[c].value
        /\ stage[c] \in {"identity", "key"}
        /\ stage'[c] \in {"key", "load", "done"}
        /\ UNCHANGED <<state, wgconf, interface>>
    BY <1>0, <1>4, <2>1 DEF KeepIdentity, EnsureKey, AfterKey, At, Goto, Set,
       tunnel
  <2> QED BY <2>2 DEF Provided, At
<1>5. CASE Load(c)
  <2> DEFINE v == WithDefaults(Loaded(c))
  <2>1. stage[c] = "load" /\ UNCHANGED <<state, wgconf, interface>>
    BY <1>5 DEF Load, At, files, tunnel
  <2>2. [run[c] EXCEPT !.value = v].value = v
    BY <1>0 DEF Run
  <2> HIDE DEF v
  <2>3. CASE /\ Complete(Loaded(c)) /\ Goto(c, "persist")
             /\ Set(c, [run[c] EXCEPT !.value = v])
    <3>1. stage'[c] = "persist" /\ run'[c].value = v
      BY <1>0, <2>2, <2>3 DEF Goto, Set
    <3>2. Whole(v)
      BY <2>1, <2>3, WholeLoaded DEF Provided, At, v
    <3> QED BY <2>1, <3>1, <3>2 DEF Provided, At
  <2>4. CASE ~Complete(Loaded(c)) /\ Goto(c, "enroll")
    <3>1. stage'[c] = "enroll"
      BY <1>0, <2>4 DEF Goto
    <3>2. ~Complete(state[c]) /\ wgconf[c] = NotInstalled
      BY <2>1, <2>4, WholeLoaded DEF Provided, At, Whole
    <3> QED BY <2>1, <3>1, <3>2 DEF Provided, At
  <2>5. CASE Exit(c)
    BY <1>0, <1>1, <2>1, <2>5 DEF Exit, Goto
  <2> QED BY <1>5, <2>3, <2>4, <2>5 DEF Load, v
<1>6. CASE Send(c)
  <2>1. /\ stage[c] = "enroll" /\ stage'[c] = "waiting"
        /\ UNCHANGED <<state, wgconf, interface>>
    BY <1>0, <1>6 DEF Send, At, Goto, files, tunnel
  <2> QED BY <2>1 DEF Provided, At
<1>7. CASE Persist(c)
  <2>1. [run[c] EXCEPT !.next = @ + 1].value = run[c].value
    BY <1>0 DEF Run
  <2>2. /\ stage[c] = "persist" /\ stage'[c] \in {"persist", "config"}
        /\ run'[c].value = run[c].value /\ UNCHANGED <<wgconf, interface>>
    BY <1>0, <1>7, <2>1 DEF Persist, At, Goto, Set, tunnel
  <2>3. Whole(run[c].value)
    BY <2>2 DEF Provided
  <2>4. Following(c)'
    BY <1>7, FollowingStep DEF Acts, ClientStep
  <2>5. stage'[c] = "config" => Whole(state'[c])
    BY <2>2, <2>3, <2>4, WholeSame DEF Following
  <2> QED BY <2>2, <2>3, <2>5 DEF Provided, At
<1>8. CASE InstallConfig(c)
  <2>1. [run[c] EXCEPT !.fresh = wgconf[c] # Rendered(c)].value
           = run[c].value
    BY <1>0 DEF Run
  <2>2. /\ stage[c] = "config" /\ stage'[c] = "service"
        /\ run'[c].value = run[c].value /\ wgconf'[c] = Rendered(c)
        /\ UNCHANGED <<state, interface>>
    BY <1>0, <1>8, <2>1 DEF InstallConfig, At, Goto, Set, files
  <2>3. Whole(run[c].value)
    BY <2>2 DEF Provided
  <2>4. Whole(state[c])
    BY <2>2, <2>3, WholeSame DEF Following
  <2>5. Leads(Rendered(c).value)
    BY <2>2, <2>3, RenderedRuns, PersistedOrder DEF Whole, Leads
  <2> QED BY <2>2, <2>3, <2>4, <2>5 DEF Provided, At
<1>9. CASE StartService(c) \/ ServiceFails(c)
  <2>1. /\ stage[c] = "service" /\ stage'[c] \in {"idle", "done"}
        /\ interface'[c] \in {interface[c], wgconf[c], NotInstalled}
        /\ UNCHANGED <<state, wgconf>>
    BY <1>0, <1>9 DEF StartService, ServiceFails, At, Goto, Exit, files
  <2> QED BY <2>1 DEF Provided, At
<1>10. CASE RefuseIdentity(c) \/ Return(c) \/ TimesOut(c)
  <2>1. stage[c] # "persist" /\ UNCHANGED <<state, wgconf, interface>>
    BY <1>10 DEF RefuseIdentity, Return, TimesOut, At, files, tunnel
  <2>2. stage'[c] = "idle"
    BY <1>0, <1>10 DEF RefuseIdentity, Return, TimesOut, Goto, Exit
  <2> QED BY <1>1, <2>1, <2>2
<1> QED BY <1>2, <1>3, <1>4, <1>5, <1>6, <1>7, <1>8, <1>9, <1>10
        DEF Acts, ClientStep, Alive

(***************************************************************************)
(* What the tunnels are made of, as long as no script died.                *)
(***************************************************************************)
Supplied ==
    /\ Inv /\ Asked /\ BudgetsSpent
    /\ \A b \in Client : Following(b)
    /\ NobodyDied => \A b \in Client : Provided(b)

LEMMA SuppliedInit ==
    ASSUME Init
    PROVE  Supplied
<1>1. BudgetsSpent
  BY ClientConstants DEF Init, BudgetsSpent
<1>2. \A b \in Client : Following(b)
  BY DEF Init, Following, At
<1>3. ~Complete(Nothing)
  BY Order DEF Complete, Nothing
<1>4. \A b \in Client : Provided(b)
  BY <1>3 DEF Init, Provided, At
<1> QED BY <1>1, <1>2, <1>4, InvInit DEF Supplied

LEMMA SuppliedStep ==
    ASSUME Supplied, [Next]_vars
    PROVE  Supplied'
<1>1. /\ Inv' /\ Asked' /\ BudgetsSpent'
      /\ \A b \in Client : Following(b)'
  BY InvStep, AskedStep, BudgetsStep, FollowingAll DEF Supplied
<1>2. ASSUME NobodyDied', NEW b \in Client
      PROVE  Provided(b)'
  <2>1. Alive
    BY <1>2, StillAlive DEF Supplied
  <2>2. Provided(b)
    BY <2>1 DEF Supplied, Alive
  <2>3. CASE Acts(b)
    BY <2>1, <2>2, <2>3, ProvidedStep DEF Supplied
  <2>4. CASE SameFor(b)
    BY <2>2, <2>4 DEF SameFor, Provided, At
  <2> QED BY <2>3, <2>4, SomebodyActs, OthersStay DEF Supplied, SameFor
<1> QED BY <1>1, <1>2 DEF Supplied

(***************************************************************************)
(* LeadsToGateway for every instance.                                      *)
(***************************************************************************)
THEOREM AlwaysLeadsToGateway == Spec => []LeadsToGateway
<1>1. Supplied => LeadsToGateway
  BY DEF Supplied, Provided, Leads, LeadsToGateway
<1> QED BY <1>1, SuppliedInit, SuppliedStep, PTL DEF Spec

(***************************************************************************)
(* ConfiguredNeverAsks for every instance.                                 *)
(***************************************************************************)
THEOREM ConfiguredNeverEnrolls == Spec => []ConfiguredNeverAsks
<1>1. Supplied => ConfiguredNeverAsks
  BY DEF Supplied, Provided, ConfiguredNeverAsks
<1> QED BY <1>1, SuppliedInit, SuppliedStep, PTL DEF Spec
=============================================================================
