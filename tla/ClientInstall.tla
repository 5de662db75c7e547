--------------------------- MODULE ClientInstall ----------------------------
(***************************************************************************)
(* The client's side: install.sh, which prepares an identity and a key,    *)
(* enrolls over HTTPS with client/enroll.py, persists what it was given in *)
(* one small file per value, and applies the WireGuard configuration made  *)
(* from them.  Requests reach the committed tables of module Registry;     *)
(* they and their replies may be late or lost, and the script may die      *)
(* anywhere.  The gway commands of gway/client.py run the same script.     *)
(***************************************************************************)
EXTENDS Naturals, Sequences, FiniteSets

CONSTANTS
    Device, Key, Token, Address, GatewayAddress, NoRow, AnyDevice,
    Client,      \* hosts on which the installer is run
    HostnameOf,  \* [Client -> Device]: hostname -s
    Named,       \* bound: what --device may say, besides nothing
    Tokenless,   \* bound: where the script is also run without a token
    Gateway,     \* the values that only the gateway's answer can give
    Default,     \* the values built into the script
    Empty,       \* a file that is missing or empty, an option not given
    ServerHost,  \* the client, if any, that is the gateway itself
    MaxFaults,   \* bound: requests and replies that are lost or fail
    MaxCrashes,  \* bound: reboots, and deaths of the script but for the next
    MaxUnapplied, \* bound: deaths before the service is restarted
    MaxRevocations \* bound: revocations

ASSUME ClientConstants ==
    /\ HostnameOf \in [Client -> Device]
    /\ Named \subseteq Device
    /\ Tokenless \subseteq Client
    /\ Empty \notin Device \cup Key \cup Token \cup Address
    /\ Empty \notin {Gateway, Default}
    /\ Gateway # Default
    /\ {MaxFaults, MaxCrashes, MaxUnapplied, MaxRevocations} \subseteq Nat
ASSUME NoRowIsDistinct ==
    NoRow \notin [key : Key, address : Address, enabled : BOOLEAN]

VARIABLES
    devices, tokens, \* the committed tables, as in module Registry
    inflight,        \* the requests that the gateway has not answered
    identity,        \* the device-id file of each client
    private,         \* the private.key file
    state,           \* the other files under /etc/gway-wireguard
    wgconf,          \* the configuration under /etc/wireguard
    interface,       \* the configuration that the interface runs
    stage,           \* where the script is on each client
    run,             \* the variables of the script
    budget           \* the faults, deaths and revocations still to come

registry == <<devices, tokens>>
files == <<identity, private, state>>
tunnel == <<wgconf, interface>>
vars == <<registry, inflight, files, tunnel, stage, run, budget>>

DB == INSTANCE Registry

\* The files that persist_config writes, in its order; keepalive is never
\* given by the gateway, and the public key is derived anew on every run.
PersistOrder == <<"server-public-key", "client-address", "server-endpoint",
                  "server-tunnel-ip", "hostname">>
StateFile == {PersistOrder[i] : i \in 1..Len(PersistOrder)}
Value == Address \cup {Gateway, Default, Empty}
Nothing == [f \in StateFile |-> Empty]

WireGuard == [key : Key, value : [StateFile -> Value]]
NotInstalled == [key |-> Empty, value |-> Nothing]

Request == [client : Client, device : Device, key : Key, token : Token,
            awaited : BOOLEAN]
Stage == {"idle", "identity", "key", "load", "enroll", "waiting", "persist",
          "config", "service", "done"}
Run == [mode   : {"install", "prepare"},
        device : Device \cup {Empty},
        token  : Token \cup {Empty},
        value  : [StateFile -> Value],
        next   : 1..(Len(PersistOrder) + 1),
        fresh  : BOOLEAN] \* the configuration file was replaced
NotRunning == [mode |-> "install", device |-> Empty, token |-> Empty,
               value |-> Nothing, next |-> 1, fresh |-> FALSE]

TypeOK ==
    /\ DB!TypeOK
    /\ inflight \subseteq Request
    /\ identity \in [Client -> Device \cup {Empty}]
    /\ private \in [Client -> Key \cup {Empty}]
    /\ state \in [Client -> [StateFile -> Value]]
    /\ wgconf \in [Client -> WireGuard \cup {NotInstalled}]
    /\ interface \in [Client -> WireGuard \cup {NotInstalled}]
    /\ stage \in [Client -> Stage]
    /\ run \in [Client -> Run]
    /\ budget \in [fault : Nat, crash : Nat, unapplied : Nat, revoke : Nat]

\* The operator has the tokens; no client has anything yet.
Init ==
    /\ devices = [d \in Device |-> NoRow]
    /\ tokens = [t \in Token |-> [state |-> "fresh", scope |-> AnyDevice]]
    /\ inflight = {}
    /\ identity = [c \in Client |-> Empty]
    /\ private = [c \in Client |-> Empty]
    /\ state = [c \in Client |-> Nothing]
    /\ wgconf = [c \in Client |-> NotInstalled]
    /\ interface = [c \in Client |-> NotInstalled]
    /\ stage = [c \in Client |-> "idle"]
    /\ run = [c \in Client |-> NotRunning]
    /\ budget = [fault |-> MaxFaults, crash |-> MaxCrashes,
                 unapplied |-> MaxUnapplied, revoke |-> MaxRevocations]

-----------------------------------------------------------------------------
At(c, s) == stage[c] = s
Goto(c, s) == stage' = [stage EXCEPT ![c] = s]
Set(c, r) == run' = [run EXCEPT ![c] = r]
Spend(kind) ==
    /\ budget[kind] > 0
    /\ budget' = [budget EXCEPT ![kind] = @ - 1]

\* The script ends; what it has written stays.
Exit(c) == Goto(c, "idle") /\ Set(c, NotRunning)

First(a, b) == IF a # Empty THEN a ELSE b

-----------------------------------------------------------------------------
(* Invocations.                                                            *)

Invoke(c, r) ==
    /\ At(c, "idle")
    /\ Set(c, r)
    /\ Goto(c, "identity")
    /\ UNCHANGED <<registry, inflight, files, tunnel, budget>>

Prepare(c, d) ==
    /\ c \in Tokenless
    /\ Invoke(c, [NotRunning EXCEPT !.mode = "prepare", !.device = d])

\* _token_was_issued_locally: the gateway's own registry has the token.
IssuedLocally(c, t) ==
    /\ c = ServerHost
    /\ t # Empty
    /\ tokens[t].state # "none"

\* gway wire client enroll, or sync when there is no token.
Enroll(c, d, t) ==
    /\ ~IssuedLocally(c, t)
    /\ t = Empty => c \in Tokenless
    /\ Invoke(c, [NotRunning EXCEPT !.device = d, !.token = t])

\* Manual recovery: the operator gives every value, as the registry has it.
Recover(c) ==
    \E d \in DB!RegisteredDevices :
       /\ devices[d].key = private[c]
       /\ Invoke(c, [NotRunning EXCEPT
                       !.value = [f \in StateFile |->
                          CASE f = "client-address" -> devices[d].address
                            [] f = "hostname" -> Empty
                            [] OTHER -> Gateway]])

-----------------------------------------------------------------------------
(* prepare_identity_and_keys.                                              *)

ResolvedDevice(c) == First(run[c].device, First(identity[c], HostnameOf[c]))

\* Mutant: an identity once given may be replaced.
AnyIdentity(c) ==
    /\ At(c, "identity")
    /\ identity' = [identity EXCEPT ![c] = ResolvedDevice(c)]
    /\ Set(c, [run[c] EXCEPT !.device = ResolvedDevice(c)])
    /\ Goto(c, "key")
    /\ UNCHANGED <<registry, inflight, private, state, tunnel, budget>>

KeepIdentity(c) ==
    /\ At(c, "identity")
    /\ identity[c] \in {Empty, ResolvedDevice(c)}
    /\ identity' = [identity EXCEPT ![c] = ResolvedDevice(c)]
    /\ Set(c, [run[c] EXCEPT !.device = ResolvedDevice(c)])
    /\ Goto(c, "key")
    /\ UNCHANGED <<registry, inflight, private, state, tunnel, budget>>

RefuseIdentity(c) ==
    /\ At(c, "identity")
    /\ identity[c] \notin {Empty, ResolvedDevice(c)}
    /\ Exit(c)
    /\ UNCHANGED <<registry, inflight, files, tunnel, budget>>

KeysMade ==
    ({private[c] : c \in Client} \cup {q.key : q \in inflight}) \cup
    {devices[d].key : d \in DB!RegisteredDevices}

AfterKey(c) ==
    Goto(c, IF run[c].mode = "prepare" THEN "done" ELSE "load")

\* Mutant: a new key on every run.
AlwaysNewKey(c) ==
    /\ At(c, "key")
    /\ \E k \in Key \ KeysMade : private' = [private EXCEPT ![c] = k]
    /\ AfterKey(c)
    /\ UNCHANGED <<registry, inflight, identity, state, tunnel, run, budget>>

EnsureKey(c) ==
    /\ At(c, "key")
    /\ IF private[c] = Empty
       THEN \E k \in Key \ KeysMade : private' = [private EXCEPT ![c] = k]
       ELSE UNCHANGED private
    /\ AfterKey(c)
    /\ UNCHANGED <<registry, inflight, identity, state, tunnel, run, budget>>

-----------------------------------------------------------------------------
(* load_persisted_config, and whether to enroll.                           *)

\* Mutant: only what the command line gives counts.
GivenOnly(c) == run[c].value

Loaded(c) == [f \in StateFile |-> First(run[c].value[f], state[c][f])]

Complete(v) ==
    v["server-public-key"] # Empty /\ v["client-address"] # Empty

WithDefaults(v) ==
    [v EXCEPT !["server-endpoint"] = First(@, Default),
              !["server-tunnel-ip"] = First(@, Default)]

Load(c) ==
    /\ At(c, "load")
    /\ \/ /\ Complete(Loaded(c))
          /\ Goto(c, "persist")
          /\ Set(c, [run[c] EXCEPT !.value = WithDefaults(Loaded(c))])
       \/ /\ ~Complete(Loaded(c))
          /\ run[c].token # Empty
          /\ Goto(c, "enroll")
          /\ Set(c, [run[c] EXCEPT !.value = WithDefaults(Loaded(c))])
       \/ /\ ~Complete(Loaded(c))
          /\ run[c].token = Empty
          /\ Exit(c)
    /\ UNCHANGED <<registry, inflight, files, tunnel, budget>>

-----------------------------------------------------------------------------
(* perform_enrollment: one request, and at most 15 seconds for its answer. *)

Send(c) ==
    /\ At(c, "enroll")
    /\ inflight' = inflight \cup
          {[client |-> c, device |-> run[c].device, key |-> private[c],
            token |-> run[c].token, awaited |-> TRUE]}
    /\ Goto(c, "waiting")
    /\ UNCHANGED <<registry, files, tunnel, run, budget>>

Awaited(c) == {q \in inflight : q.client = c /\ q.awaited}

\* do_POST answers 200 and the client checks the values: the script goes on.
Accepted(q, address) ==
    IF q.awaited
    THEN /\ Goto(q.client, "persist")
         /\ Set(q.client, [run[q.client] EXCEPT
               !.value = [[f \in StateFile |-> Gateway]
                            EXCEPT !["client-address"] = address]])
    ELSE UNCHANGED <<stage, run>>

\* do_POST answers with an error, or not at all: the script dies.
Rejected(q) == IF q.awaited THEN Exit(q.client) ELSE UNCHANGED <<stage, run>>

Answered(q) ==
    /\ inflight' = inflight \ {q}
    /\ UNCHANGED <<files, tunnel>>

RegistersNew(q) ==
    /\ DB!TokenAdmits(q.token, q.device)
    /\ ~DB!Registered(q.device)
    /\ DB!KeyOwners(q.key) = {}
    /\ DB!FreeAddresses # {}

FindsRow(q) ==
    /\ DB!TokenAdmits(q.token, q.device)
    /\ DB!Registered(q.device)
    /\ devices[q.device].enabled
    /\ devices[q.device].key = q.key

ServeRegister(q) ==
    /\ DB!Register(q.device, q.key, q.token)
    /\ Accepted(q, devices'[q.device].address)
    /\ Answered(q)
    /\ UNCHANGED budget

\* Mutant: a repeated enrollment is given a new address, not the row's.
ServeReenrollAfresh(q) ==
    /\ DB!Reenroll(q.device, q.key, q.token)
    /\ \E a \in Address : Accepted(q, a)
    /\ Answered(q)
    /\ UNCHANGED budget

ServeReenroll(q) ==
    /\ DB!Reenroll(q.device, q.key, q.token)
    /\ Accepted(q, devices[q.device].address)
    /\ Answered(q)
    /\ UNCHANGED budget

\* EnrollmentRejected (4xx) and AddressPoolExhausted (503).
ServeRefusal(q) ==
    /\ ~RegistersNew(q) /\ ~FindsRow(q)
    /\ Rejected(q)
    /\ Answered(q)
    /\ UNCHANGED <<registry, budget>>

\* The service fails and has rolled back: 500, or a connection closed without
\* an answer for an exception that the handler does not list.
ServeFailure(q) ==
    /\ Spend("fault")
    /\ Rejected(q)
    /\ Answered(q)
    /\ UNCHANGED registry

\* The enrollment commits, and its answer is lost or not acceptable.
AnswerLost(q) ==
    /\ q.awaited
    /\ Spend("fault")
    /\ \/ DB!Register(q.device, q.key, q.token)
       \/ DB!Reenroll(q.device, q.key, q.token)
    /\ Rejected(q)
    /\ Answered(q)

Abandoned(c) ==
    {IF q.client = c THEN [q EXCEPT !.awaited = FALSE] ELSE q : q \in inflight}

\* The client gives up after 15 seconds; the gateway still has the request.
TimesOut(c) ==
    /\ At(c, "waiting")
    /\ Spend("fault")
    /\ inflight' = Abandoned(c)
    /\ Exit(c)
    /\ UNCHANGED <<registry, files, tunnel>>

-----------------------------------------------------------------------------
(* persist_config and apply_wireguard_config.                              *)

Written(c) == PersistOrder[run[c].next]

\* Mutant: the configuration is applied once the address is known.
PersistAddress(c) ==
    /\ At(c, "persist")
    /\ state' = [state EXCEPT ![c][Written(c)] = run[c].value[Written(c)]]
    /\ Set(c, [run[c] EXCEPT !.next = @ + 1])
    /\ Goto(c, IF run[c].next = 2 THEN "config" ELSE "persist")
    /\ UNCHANGED <<registry, inflight, identity, private, tunnel, budget>>

\* A hostname that is not known is not written.
Persist(c) ==
    /\ At(c, "persist")
    /\ state' = IF Written(c) = "hostname" /\ run[c].value["hostname"] = Empty
                THEN state
                ELSE [state EXCEPT ![c][Written(c)] = run[c].value[Written(c)]]
    /\ Set(c, [run[c] EXCEPT !.next = @ + 1])
    /\ Goto(c, IF run[c].next = Len(PersistOrder) THEN "config" ELSE "persist")
    /\ UNCHANGED <<registry, inflight, identity, private, tunnel, budget>>

\* Mutant: the template is filled in without the private key.
RenderedWithoutKey(c) ==
    [key |-> Empty, value |-> [run[c].value EXCEPT !["hostname"] = Empty]]

Rendered(c) ==
    [key |-> private[c], value |-> [run[c].value EXCEPT !["hostname"] = Empty]]

InstallConfig(c) ==
    /\ At(c, "config")
    /\ wgconf' = [wgconf EXCEPT ![c] = Rendered(c)]
    /\ Set(c, [run[c] EXCEPT !.fresh = wgconf[c] # Rendered(c)])
    /\ Goto(c, "service")
    /\ UNCHANGED <<registry, inflight, files, interface, budget>>

\* Mutant: a service that runs is left alone.
StartOnly(c) ==
    /\ At(c, "service")
    /\ interface' = IF interface[c] = NotInstalled
                    THEN [interface EXCEPT ![c] = wgconf[c]] ELSE interface
    /\ Goto(c, "done")
    /\ UNCHANGED <<registry, inflight, files, wgconf, run, budget>>

\* Mutant: the service is touched only if the file was replaced.
RestartOnly(c) ==
    /\ At(c, "service")
    /\ interface' = IF run[c].fresh
                    THEN [interface EXCEPT ![c] = wgconf[c]] ELSE interface
    /\ Goto(c, "done")
    /\ UNCHANGED <<registry, inflight, files, wgconf, run, budget>>

\* A service that is active is restarted only if the file was replaced.
StartService(c) ==
    /\ At(c, "service")
    /\ interface' = IF run[c].fresh \/ interface[c] = NotInstalled
                    THEN [interface EXCEPT ![c] = wgconf[c]] ELSE interface
    /\ Goto(c, "done")
    /\ UNCHANGED <<registry, inflight, files, wgconf, run, budget>>

ServiceFails(c) ==
    /\ At(c, "service")
    /\ run[c].fresh \/ interface[c] = NotInstalled
    /\ Spend("fault")
    /\ interface' = [interface EXCEPT ![c] = NotInstalled]
    /\ Exit(c)
    /\ UNCHANGED <<registry, inflight, files, wgconf>>

Return(c) ==
    /\ At(c, "done")
    /\ Exit(c)
    /\ UNCHANGED <<registry, inflight, files, tunnel, budget>>

-----------------------------------------------------------------------------
(* Deaths and reboots.  A file is truncated before it is written.          *)

Truncated(old) == {old, Empty}

Dies(c) ==
    /\ stage[c] \notin {"idle", "service"}
    /\ Spend("crash")
    /\ IF At(c, "identity") /\ identity[c] \in {Empty, ResolvedDevice(c)}
       THEN \E id \in Truncated(identity[c]) :
               identity' = [identity EXCEPT ![c] = id]
       ELSE UNCHANGED identity
    /\ IF At(c, "persist")
       THEN \E v \in Truncated(state[c][Written(c)]) :
               state' = [state EXCEPT ![c][Written(c)] = v]
       ELSE UNCHANGED state
    /\ IF At(c, "config")
       THEN \E w \in {wgconf[c], NotInstalled} :
               wgconf' = [wgconf EXCEPT ![c] = w]
       ELSE UNCHANGED wgconf
    /\ inflight' = Abandoned(c)
    /\ Exit(c)
    /\ UNCHANGED <<registry, private, interface>>

DiesUnapplied(c) ==
    /\ At(c, "service")
    /\ Spend("unapplied")
    /\ Exit(c)
    /\ UNCHANGED <<registry, inflight, files, tunnel>>

Reboots(c) ==
    /\ At(c, "idle")
    /\ Spend("crash")
    /\ interface' = [interface EXCEPT ![c] = wgconf[c]]
    /\ UNCHANGED <<registry, inflight, files, wgconf, stage, run>>

Revoke(d) ==
    /\ Spend("revoke")
    /\ DB!Revoke(d)
    /\ UNCHANGED <<inflight, files, tunnel, stage, run>>

-----------------------------------------------------------------------------
\* The steps the script takes by itself, and the gateway's.
ClientStep(c) ==
    \/ KeepIdentity(c) \/ RefuseIdentity(c) \/ EnsureKey(c) \/ Load(c)
    \/ Send(c) \/ Persist(c) \/ InstallConfig(c) \/ StartService(c)
    \/ Return(c)

Serve(q) == ServeRegister(q) \/ ServeReenroll(q) \/ ServeRefusal(q)

Next ==
    \/ \E c \in Client :
          \/ \E d \in Named \cup {Empty} :
                \/ Prepare(c, d)
                \/ \E t \in Token \cup {Empty} : Enroll(c, d, t)
          \/ Recover(c)
          \/ ClientStep(c)
          \/ TimesOut(c) \/ ServiceFails(c)
          \/ Dies(c) \/ DiesUnapplied(c) \/ Reboots(c)
    \/ \E q \in inflight : Serve(q) \/ ServeFailure(q) \/ AnswerLost(q)
    \/ \E d \in Device : Revoke(d)

Spec == Init /\ [][Next]_vars

\* The operator runs the command again, with a token that is still good.
Retry(c) ==
    \E t \in Token : tokens[t].state = "fresh" /\ Enroll(c, Empty, t)

(***************************************************************************)
(* The script and the gateway go on by themselves: what waits has a limit. *)
(* The operator is asked for persistence, whatever else is tried between:  *)
(* strong fairness of retrying.                                            *)
(***************************************************************************)
Fairness ==
    \A c \in Client :
       /\ WF_vars(ClientStep(c))
       /\ WF_vars(\E q \in inflight : q.client = c /\ Serve(q))
       /\ SF_vars(Retry(c))

FairSpec == Spec /\ Fairness

-----------------------------------------------------------------------------
RowOf(c) == {d \in DB!RegisteredDevices : devices[d].key = private[c]}
NobodyDied == budget.crash = MaxCrashes /\ budget.unapplied = MaxUnapplied

(***************************************************************************)
(* "The device private key remains local" and is made once: whoever is     *)
(* registered, a client still holds the key it is registered with, so that *)
(* a lost answer or a dead script never leaves a row nobody can use.       *)
(***************************************************************************)
RegisteredKeysHeld ==
    \A d \in DB!RegisteredDevices :
       \E c \in Client : private[c] = devices[d].key

(***************************************************************************)
(* Whatever was lost, given up or half written, an address that a client   *)
(* has persisted or configured is the one the registry has for its key.    *)
(***************************************************************************)
AddressesRegistered ==
    \A c \in Client :
       \A a \in {state[c]["client-address"],
                  wgconf[c].value["client-address"]} :
          a # Empty => \E d \in RowOf(c) : devices[d].address = a

(***************************************************************************)
(* "install.sh refuses to silently change it": as long as no script died,  *)
(* a client whose key is registered has the identity it registered with.   *)
(***************************************************************************)
IdentityRegistered ==
    NobodyDied => \A c \in Client : \A d \in RowOf(c) : identity[c] = d

(***************************************************************************)
(* An installation that ends well leaves the interface running the values  *)
(* in the files, after deaths and reboots anywhere but between the         *)
(* replacement of the configuration and the restart: what was not applied  *)
(* there is taken for unchanged by every later run.                        *)
(***************************************************************************)
DoneMeansRunning ==
    budget.unapplied = MaxUnapplied =>
       \A c \in Client :
          At(c, "done") /\ run[c].mode = "install" =>
             /\ interface[c].key = private[c]
             /\ \A f \in StateFile \ {"hostname"} :
                   interface[c].value[f] = state[c][f]

(***************************************************************************)
(* As long as no script died, a tunnel leads to the endpoint and the       *)
(* network the gateway gave, not to those built into the script.           *)
(***************************************************************************)
LeadsToGateway ==
    NobodyDied =>
       \A c \in Client :
          interface[c] # NotInstalled =>
             /\ interface[c].value["server-endpoint"] = Gateway
             /\ interface[c].value["server-tunnel-ip"] = Gateway

(***************************************************************************)
(* "An already configured client reuses its persisted enrollment and does  *)
(* not request another VPN address or consume another token": as long as   *)
(* no script died, a client that was configured once never enrolls again.  *)
(***************************************************************************)
ConfiguredNeverAsks ==
    NobodyDied =>
       \A c \in Client :
          wgconf[c] # NotInstalled => stage[c] \notin {"enroll", "waiting"}

(***************************************************************************)
(* An operator who tries again ends with a tunnel that runs the registered *)
(* address, whatever was lost before, as long as no script died: unless    *)
(* the device was revoked, or its name belongs to another key.             *)
(***************************************************************************)
Connected(c) ==
    \E d \in RowOf(c) :
       interface[c].value["client-address"] = devices[d].address

Barred(c) ==
    \E d \in DB!RegisteredDevices :
       d = identity[c] /\ (devices[d].key # private[c] \/ ~devices[d].enabled)

RetriesConverge ==
    []NobodyDied =>
       \A c \in Client \ {ServerHost} : <>(Connected(c) \/ Barred(c))
=============================================================================
