------------------------------- MODULE Deploy -------------------------------
(***************************************************************************)
(* The deployment of a gateway: the server's installer (server/install.sh) *)
(* and the two commands that run it, gway/server (deploy of a base domain) *)
(* and surface/server (deploy of one public name).  Each step is the       *)
(* effect of one program on one file, service or record; any may fail, and *)
(* the host may die in between.  Files are rewritten in place, so a death  *)
(* may leave them cut.  Deployments follow each other, and the operator    *)
(* edits the environment file when none is running.                        *)
(***************************************************************************)
EXTENDS Naturals, Sequences, FiniteSets, Functions, FiniteSetsExt, SequencesExt

CONSTANTS
    Domain,        \* base domains
    DefaultDomain, \* the one that is built into the installer
    Fqdn,
    Parent,        \* [Fqdn -> Domain]: the domain a name is in
    Vpn, Register, \* [Domain -> Fqdn]: vpn.<domain>, register.<domain>
    Port, DefaultPort,
    BadPort,       \* what is not a port
    Absent,        \* a file that does not exist, a key that was not made
    Torn,          \* a configuration cut short, an interface without key
    Down,          \* a service or an interface that is not running
    Untouched,     \* what is not to be rolled back
    Target,        \* bound: the names that are deployed
    Moved,         \* bound: the base domains that are deployed
    Options,       \* bound: providers given, and whether DNS is required
    Edits,         \* bound: the lines that an operator appends
    InitialFile,   \* bound: environment files that earlier versions left
    MaxFaults, MaxCrashes, MaxEdits \* bounds, see budget

\* Keys are numbered in the order in which they are generated.
PrivateKey == Nat

Provider == {"none", "godaddy"}
\* The lines of a new file, in their order, and the values that they take.
KeyOrder == <<"base_domain", "enroll_port", "dns_provider", "vpn_hostname",
              "register_hostname">>
Key == Range(KeyOrder)
ValuesOf == [base_domain |-> Domain, enroll_port |-> Port,
             dns_provider |-> Provider, vpn_hostname |-> Fqdn,
             register_hostname |-> Fqdn]
Line == UNION {[key : {k}, value : ValuesOf[k]] : k \in Key}

ASSUME NamesInDomains ==
    /\ DefaultDomain \in Domain /\ Moved \subseteq Domain
    /\ Target \subseteq Fqdn
    /\ Parent \in [Fqdn -> Domain]
    /\ {Vpn, Register} \subseteq [Domain -> Fqdn]
    /\ \A d \in Domain : /\ Vpn[d] # Register[d]
                         /\ Parent[Vpn[d]] = d /\ Parent[Register[d]] = d
ASSUME PortsAndBounds ==
    /\ DefaultPort \in Port \ {BadPort}
    /\ Edits \subseteq Line
    /\ Options \subseteq Provider \X BOOLEAN
    /\ InitialFile \subseteq Seq(Line)
    /\ {MaxFaults, MaxCrashes, MaxEdits} \subseteq Nat
ASSUME MarkersAreNoKeys == {Absent, Torn, Down} \cap PrivateKey = {}
ASSUME MarkersAreNoFiles ==
    /\ Absent # Untouched
    /\ Absent \notin Seq(Line) /\ Untouched \notin Seq(Line)

VARIABLES
    file,        \* server.env
    keys,        \* server.key and server.pub, each by the private key
    wgconf,      \* the interface's configuration, by the key in it
    registry,    \* whether the registry's database exists
    credentials, \* whether the provider's are stored on the gateway
    enabled,     \* the services that start with the host
    link,        \* the key of the running interface
    service,     \* the settings the enrollment service runs with
    zone,        \* the names whose A record is the gateway's address
    site,        \* the port each name is proxied to
    stage,       \* where the deployment is
    deploy,      \* its variables
    budget       \* faults, deaths and edits still to come

prepared == <<keys, wgconf, registry>>
running == <<enabled, link, service>>
public == <<zone, site>>
vars == <<file, prepared, credentials, running, public, stage, deploy, budget>>

-----------------------------------------------------------------------------
(* Environment files.  Whoever reads one takes the last line of a key.     *)

LinesOf(f, k) == {i \in DOMAIN f : f[i].key = k}
Has(f, k) == LinesOf(f, k) # {}
Value(f, k, default) ==
    IF Has(f, k) THEN f[Max(LinesOf(f, k))].value ELSE default

\* The line that is appended for a key, if the file lacks it.
Missing(f, k, value) ==
    IF Has(f, k) THEN <<>> ELSE <<[key |-> k, value |-> value[k]]>>

FirstLines(f) == {Min(LinesOf(f, k)) : k \in {f[i].key : i \in DOMAIN f}}

\* What the service and the DNS manager run with.
Settings(f) ==
    LET base == Value(f, "base_domain", DefaultDomain)
    IN  [base     |-> base,
         port     |-> Value(f, "enroll_port", DefaultPort),
         provider |-> Value(f, "dns_provider", "none"),
         vpn      |-> Value(f, "vpn_hostname", Vpn[base]),
         register |-> Value(f, "register_hostname", Register[base])]
Setting == [base : Domain, port : Port, provider : Provider,
            vpn : Fqdn, register : Fqdn]

\* DNSSettings.validate.
DnsValid(s) ==
    /\ Parent[s.vpn] = s.base
    /\ Parent[s.register] = s.base
    /\ s.vpn # s.register
    /\ s.provider = "godaddy" => credentials

\* The service started from a file, which systemd requires.
Started(f) ==
    IF f = Absent THEN Down
    ELSE IF Settings(f).port # BadPort
            /\ (Settings(f).provider # "none" => DnsValid(Settings(f)))
         THEN Settings(f) ELSE Down

\* wg-quick takes an empty configuration, and the interface has no key.
LinkUp(conf) ==
    IF conf = Absent THEN Down ELSE conf

-----------------------------------------------------------------------------
Stage == {"idle", "patch", "keys", "wg_config", "environment", "validate",
          "registry", "dns", "services", "expose", "check", "rollback",
          "done", "failed"}

\* kind: gway/server's deploy, surface/server's, or the installer by hand.
\* undo: what to write back, or Untouched.
Deployment ==
    [kind     : {"domain", "fqdn", "installer"},
     target   : Domain \cup Fqdn,
     provider : Provider,       \* selected, or none
     dns      : BOOLEAN,        \* require_dns
     undo     : Seq(Line) \cup {Absent, Untouched},
     ready    : BOOLEAN]

NoDeployment ==
    [kind |-> "installer", target |-> DefaultDomain, provider |-> "none",
     dns |-> FALSE, undo |-> Untouched, ready |-> FALSE]

TypeOK ==
    /\ file \in Seq(Line) \cup {Absent}
    /\ keys \in [{"private", "public"} -> PrivateKey \cup {Absent}]
    /\ wgconf \in PrivateKey \cup {Absent, Torn}
    /\ {registry, credentials} \subseteq BOOLEAN
    /\ enabled \subseteq {"interface", "service"}
    /\ link \in PrivateKey \cup {Down, Torn}
    /\ service \in Setting \cup {Down}
    /\ zone \subseteq Fqdn
    /\ site \in [Fqdn -> Port \cup {"none"}]
    /\ stage \in Stage
    /\ deploy \in Deployment
    /\ budget \in [fault : Nat, crash : Nat, edit : Nat]

InterfaceSetUp ==
    /\ keys = [private |-> 1, public |-> 1]
    /\ wgconf = 1
    /\ link = 1

\* A fresh host, a gateway set up by hand, or a former installation.
Init ==
    /\ \/ /\ file = Absent /\ registry = FALSE /\ service = Down
          /\ \/ /\ keys = [private |-> Absent, public |-> Absent]
                /\ wgconf = Absent /\ link = Down /\ enabled = {}
             \/ InterfaceSetUp /\ enabled = {"interface"}
       \/ /\ file \in InitialFile /\ registry = TRUE
          /\ InterfaceSetUp /\ enabled = {"interface", "service"}
          /\ service = Started(file)
    /\ credentials = FALSE
    /\ zone = {}
    /\ site = [n \in Fqdn |-> "none"]
    /\ stage = "idle"
    /\ deploy = NoDeployment
    /\ budget = [fault |-> MaxFaults, crash |-> MaxCrashes, edit |-> MaxEdits]

-----------------------------------------------------------------------------
Resting == stage \in {"idle", "done", "failed"}
At(s) == stage = s
Goto(s) == stage' = s
Spend(kind) ==
    /\ budget[kind] > 0
    /\ budget' = [budget EXCEPT ![kind] = @ - 1]

\* What the command's environment gives the installer as defaults.
Default ==
    LET base == IF deploy.kind = "domain" THEN deploy.target ELSE DefaultDomain
    IN  [base_domain       |-> base,
         enroll_port       |-> DefaultPort,
         dns_provider      |-> deploy.provider,
         vpn_hostname      |-> Vpn[base],
         register_hostname |-> IF deploy.kind = "fqdn" THEN deploy.target
                               ELSE Register[base]]

-----------------------------------------------------------------------------
(* A deployment begins.  That of a name always changes the environment     *)
(* file, that of a domain only if a provider is given.                     *)

Begin(kind, target, provider, dns, undo, first) ==
    /\ Resting
    /\ Goto(first)
    /\ deploy' = [kind |-> kind, target |-> target, provider |-> provider,
                  dns |-> dns, undo |-> undo, ready |-> FALSE]
    /\ UNCHANGED <<file, prepared, credentials, running, public, budget>>

\* _selected_provider: the option, or else what is configured.
DeployFqdn(n, option, dns) ==
    Begin("fqdn", n,
          IF option = "none" /\ file # Absent
          THEN Settings(file).provider ELSE option,
          dns, file, IF file = Absent THEN "keys" ELSE "patch")

DeployDomain(d, option, dns) ==
    IF file # Absent /\ option # "none"
    THEN Begin("domain", d, option, dns, file, "patch")
    ELSE Begin("domain", d, option, dns, Untouched, "keys")

RunInstaller ==
    Begin("installer", DefaultDomain, "none", FALSE, Untouched, "keys")

\* Mutant: a setting that the file has is left alone.
UnpatchedText == file \o Missing(file, "register_hostname", Default)

Changed ==
    IF deploy.kind = "domain" THEN {"dns_provider"}
    ELSE {"register_hostname"} \cup
         IF deploy.provider = "none" THEN {} ELSE {"dns_provider"}

\* surface/server rewrites the first line of a key, gway/server every one.
Rewritten ==
    [i \in DOMAIN file |->
       IF /\ file[i].key \in Changed
          /\ deploy.kind = "fqdn" => i \in FirstLines(file)
       THEN [key |-> file[i].key, value |-> Default[file[i].key]]
       ELSE file[i]]

Added(k) == IF k \in Changed THEN Missing(file, k, Default) ELSE <<>>

PatchedText == Rewritten \o Added("register_hostname") \o Added("dns_provider")

Patch ==
    /\ At("patch")
    /\ file' = PatchedText
    /\ Goto("keys")
    /\ UNCHANGED <<prepared, credentials, running, public, deploy, budget>>

-----------------------------------------------------------------------------
(* The installer, step by step.                                            *)

\* Mutant: every run of the installer makes a key.
AlwaysNewKey ==
    /\ At("keys")
    /\ LET k == IF keys.private = Absent THEN 1 ELSE keys.private + 1
       IN  keys' = [private |-> k, public |-> k]
    /\ Goto("wg_config")
    /\ UNCHANGED <<file, wgconf, registry, credentials, running, public,
                   deploy, budget>>

PrepareKeys ==
    /\ At("keys")
    /\ LET k == IF keys.private = Absent THEN 1 ELSE keys.private
       IN  keys' = [private |-> k, public |-> k]
    /\ Goto("wg_config")
    /\ UNCHANGED <<file, wgconf, registry, credentials, running, public,
                   deploy, budget>>

EnsureWireguardConfig ==
    /\ At("wg_config")
    /\ wgconf' = IF wgconf = Absent THEN keys.private ELSE wgconf
    /\ Goto("environment")
    /\ UNCHANGED <<file, keys, registry, credentials, running, public,
                   deploy, budget>>

NewText == [i \in DOMAIN KeyOrder |->
              [key |-> KeyOrder[i], value |-> Default[KeyOrder[i]]]]

\* Mutant: the file is written anew every time.
RewrittenText == NewText

\* The lines that an older file may lack.
CompletedText ==
    IF file = Absent THEN NewText
    ELSE file \o Missing(file, "dns_provider", Default)
              \o Missing(file, "vpn_hostname", Default)
              \o Missing(file, "register_hostname", Default)

EnsureEnvironment ==
    /\ At("environment")
    /\ file' = CompletedText
    /\ Goto("validate")
    /\ UNCHANGED <<prepared, credentials, running, public, deploy, budget>>

ValidateDns ==
    /\ At("validate")
    /\ Settings(file).provider = "godaddy" => credentials
    /\ Goto("registry")
    /\ UNCHANGED <<file, prepared, credentials, running, public,
                   deploy, budget>>

InitializeRegistry ==
    /\ At("registry")
    /\ Settings(file).port # BadPort
    /\ registry' = TRUE
    /\ Goto("dns")
    /\ UNCHANGED <<file, keys, wgconf, credentials, running, public,
                   deploy, budget>>

\* sync_dns, of which module DnsManager has the steps.
OperationalNames(f) == {Settings(f).vpn, Settings(f).register}
Synchronized(f) ==
    IF Settings(f).provider = "none"
    THEN zone ELSE zone \cup OperationalNames(f)

InitializeDns ==
    /\ At("dns")
    /\ Settings(file).provider = "none" \/ DnsValid(Settings(file))
    /\ zone' = Synchronized(file)
    /\ Goto("services")
    /\ UNCHANGED <<file, prepared, credentials, running, site, deploy, budget>>

AfterInstaller ==
    CASE deploy.kind = "installer" -> "done"
      [] deploy.kind = "domain"    -> "check"
      [] deploy.kind = "fqdn"      -> "expose"

\* Mutant: a service that runs is not restarted.
StartOnly ==
    /\ At("services")
    /\ enabled' = {"interface", "service"}
    /\ link' = IF link = Down THEN LinkUp(wgconf) ELSE link
    /\ service' = IF service = Down THEN Started(file) ELSE service
    /\ Goto(AfterInstaller)
    /\ UNCHANGED <<file, prepared, credentials, public, deploy, budget>>

EnableServices ==
    /\ At("services")
    /\ enabled' = {"interface", "service"}
    /\ link' = IF link = Down THEN LinkUp(wgconf) ELSE link
    /\ service' = Started(file)
    /\ Goto(AfterInstaller)
    /\ UNCHANGED <<file, prepared, credentials, public, deploy, budget>>

-----------------------------------------------------------------------------
(* The public exposure, the library's (gway-web): it succeeds or changes   *)
(* nothing; and the check that follows.  The installer has refused a bad   *)
(* port and, with a provider, a name outside the domain.                   *)

\* The provider that the library is to use.
WebProvider == IF deploy.dns THEN deploy.provider ELSE "none"

Expose ==
    /\ At("expose")
    /\ site' = [site EXCEPT ![deploy.target] = Settings(file).port]
    /\ zone' = IF WebProvider = "none" THEN zone ELSE zone \cup {deploy.target}
    /\ Goto("check")
    /\ UNCHANGED <<file, prepared, credentials, running, deploy, budget>>

\* _readiness, which reads the file and nothing that runs.
Readiness(base) ==
    /\ file # Absent /\ Has(file, "base_domain")
    /\ registry
    /\ deploy.dns => Settings(file).provider # "none"
    /\ Has(file, "vpn_hostname") /\ Settings(file).vpn = Vpn[base]
    /\ Has(file, "register_hostname")
    /\ Settings(file).register = Register[base]
    /\ Settings(file).provider = "godaddy" => credentials

LocalConfig == /\ Readiness(Settings(file).base)
               /\ Settings(file).register = deploy.target

\* The name leads to the running service, by a record if DNS is required.
WebOk == /\ service # Down /\ site[deploy.target] = service.port
         /\ deploy.dns => deploy.target \in zone

WireguardUp == link \notin {Down, Torn}
EnrollmentUp == service # Down /\ service.port = Settings(file).port

Ready ==
    IF deploy.kind = "domain"
    THEN Settings(file).base = deploy.target /\ Readiness(deploy.target)
    ELSE /\ LocalConfig
         /\ WireguardUp
         /\ EnrollmentUp
         /\ wgconf # Absent
         /\ WebOk

Check ==
    /\ At("check")
    /\ deploy' = [deploy EXCEPT !.ready = Ready]
    /\ Goto("done")
    /\ UNCHANGED <<file, prepared, credentials, running, public, budget>>

-----------------------------------------------------------------------------
(* Failures.  Only the environment file is rolled back.                    *)

Installing == stage \in {"keys", "wg_config", "environment", "validate",
                         "registry", "dns", "services"}

\* Mutant: nothing to restore is restored like a text.
FailedAlways == Goto("rollback")

Failed == Goto(IF deploy.undo = Untouched THEN "failed" ELSE "rollback")

\* Steps that the settings make impossible.
Refused ==
    /\ \/ At("validate") /\ Settings(file).provider = "godaddy" /\ ~credentials
       \/ At("registry") /\ Settings(file).port = BadPort
       \/ /\ At("dns")
          /\ Settings(file).provider # "none" /\ ~DnsValid(Settings(file))
    /\ Failed
    /\ UNCHANGED <<file, prepared, credentials, running, public,
                   deploy, budget>>

StepFails ==
    /\ Installing \/ At("expose")
    /\ Spend("fault")
    /\ Failed
    /\ UNCHANGED <<file, prepared, credentials, running, public, deploy>>

\* A probe that fails is a result, not an exception.
CheckFails ==
    /\ At("check") /\ deploy.kind = "fqdn"
    /\ Spend("fault")
    /\ Goto("done")
    /\ UNCHANGED <<file, prepared, credentials, running, public, deploy>>

\* Mutant: a file that the installer made stays.
RestoreOnly ==
    /\ At("rollback")
    /\ file' = IF deploy.undo = Absent THEN file ELSE deploy.undo
    /\ Goto("failed")
    /\ UNCHANGED <<prepared, credentials, running, public, deploy, budget>>

Rollback ==
    /\ At("rollback")
    /\ file' = deploy.undo
    /\ Goto("failed")
    /\ UNCHANGED <<prepared, credentials, running, public, deploy, budget>>

Forgotten == stage' = "idle" /\ deploy' = NoDeployment

Dies ==
    /\ ~Resting
    /\ Spend("crash")
    /\ Forgotten
    /\ UNCHANGED <<file, prepared, credentials, running, public>>

\* Enabled services start with the host, from what the files then say.
Reboot ==
    /\ Spend("crash")
    /\ Forgotten
    /\ link' = IF "interface" \in enabled THEN LinkUp(wgconf) ELSE Down
    /\ service' = IF "service" \in enabled THEN Started(file) ELSE Down
    /\ UNCHANGED <<file, prepared, credentials, enabled, public>>

\* A death between opening a file and writing it leaves it empty, and an empty
\* key file holds no key; every run writes the public key anew, and the lines
\* that the installer appends are written one by one.
Tears ==
    /\ Spend("crash")
    /\ Forgotten
    /\ \/ /\ \/ At("patch")
             \/ At("rollback") /\ deploy.undo # Absent
             \/ At("environment") /\ file = Absent
          /\ file' = <<>>
          /\ UNCHANGED <<keys, wgconf>>
       \/ /\ At("environment") /\ file # Absent
          /\ \E n \in Len(file)..(Len(CompletedText) - 1) :
                file' = SubSeq(CompletedText, 1, n)
          /\ UNCHANGED <<keys, wgconf>>
       \/ /\ At("keys")
          /\ keys' = [private |-> IF keys.private = Absent
                                 THEN 1 ELSE keys.private,
                      public  |-> Absent]
          /\ UNCHANGED <<file, wgconf>>
       \/ /\ At("wg_config") /\ wgconf = Absent
          /\ wgconf' = Torn
          /\ UNCHANGED <<file, keys>>
    /\ UNCHANGED <<registry, credentials, running, public>>

-----------------------------------------------------------------------------
(* The operator.                                                           *)

Edit ==
    /\ Resting /\ file # Absent
    /\ Spend("edit")
    /\ Forgotten
    /\ \E line \in Edits : file' = Append(file, line)
    /\ UNCHANGED <<prepared, credentials, running, public>>

StoreCredentials ==
    /\ Resting /\ ~credentials
    /\ credentials' = TRUE
    /\ Forgotten
    /\ UNCHANGED <<file, prepared, running, public, budget>>

\* "gway wire sync" for this server.
Sync ==
    /\ Resting /\ file # Absent
    /\ Settings(file).provider # "none" /\ DnsValid(Settings(file))
    /\ zone' = Synchronized(file)
    /\ Forgotten
    /\ UNCHANGED <<file, prepared, credentials, running, site, budget>>

-----------------------------------------------------------------------------
Proceeds ==
    \/ Patch
    \/ PrepareKeys \/ EnsureWireguardConfig \/ EnsureEnvironment \/ ValidateDns
    \/ InitializeRegistry \/ InitializeDns \/ EnableServices
    \/ Expose \/ Check
    \/ Refused \/ Rollback

Next ==
    \/ \E o \in Options :
          \/ \E n \in Target : DeployFqdn(n, o[1], o[2])
          \/ \E d \in Moved : DeployDomain(d, o[1], o[2])
    \/ RunInstaller
    \/ Proceeds
    \/ StepFails \/ CheckFails \/ Dies \/ Reboot \/ Tears
    \/ Edit \/ StoreCredentials \/ Sync

Spec == Init /\ [][Next]_vars

\* An operator who wants the gateway's own name published stores the
\* credentials and repeats the deployment.
RegisterName ==
    Register[IF file = Absent THEN DefaultDomain ELSE Settings(file).base]
DeployRegisterName ==
    /\ RegisterName \in Target
    /\ DeployFqdn(RegisterName, "godaddy", TRUE)

FairSpec ==
    /\ Spec
    /\ WF_vars(Proceeds)
    /\ SF_vars(StoreCredentials)
    /\ SF_vars(DeployRegisterName)

-----------------------------------------------------------------------------
(***************************************************************************)
(* "report success only when required checks pass": the check reads the    *)
(* file and probes ports, and yet success means that the service runs      *)
(* exactly what the file says, under the key that is published to devices, *)
(* and that the name leads to it.                                          *)
(***************************************************************************)
SuccessMeansAgreement ==
    At("done") /\ deploy.kind = "fqdn" /\ deploy.ready =>
       /\ service = Settings(file)
       /\ service.register = deploy.target
       /\ site[deploy.target] = service.port
       /\ link = keys.public
       /\ deploy.dns => OperationalNames(file) \subseteq zone

(***************************************************************************)
(* A deployment of a name that failed leaves the environment file as it    *)
(* found it, or none where there was none, whatever the installer added.   *)
(***************************************************************************)
FailureRestoresFile ==
    At("failed") /\ deploy.kind = "fqdn" => file = deploy.undo

(***************************************************************************)
(* "The file is preserved on installer reruns so operator changes are not  *)
(* silently overwritten": from its beginning to its end a deployment       *)
(* changes no setting that it found but the name and the provider.         *)
(***************************************************************************)
OtherSettingsKept ==
    ~At("idle") /\ deploy.undo \notin {Absent, Untouched} =>
       \A k \in Key \ {"register_hostname", "dns_provider"} :
          Has(deploy.undo, k) =>
             Value(file, k, Absent) = Value(deploy.undo, k, Absent)

(***************************************************************************)
(* "The installer reuses server.key and server.pub": devices are given the *)
(* public key in server.pub, and it is the interface's, across deaths in   *)
(* the middle of an installation and reinstallations; a death may only cut *)
(* the file, until the next installation completes it.                     *)
(***************************************************************************)
PublishedKeyRuns ==
    link \in PrivateKey /\ keys.public # Absent => link = keys.public

(***************************************************************************)
(* A deployment can be repeated until it succeeds, wherever an earlier one *)
(* failed or died, unless a file was cut, or the operator's file repeats   *)
(* one of the two settings, has a bad port, or lacks the names of a domain *)
(* that is not the installer's.                                            *)
(***************************************************************************)
Deployable ==
    /\ Torn \notin {wgconf, link}
    /\ RegisterName \in Target
    /\ file # Absent =>
         /\ Has(file, "base_domain")
         /\ Settings(file).port # BadPort
         /\ \A k \in {"register_hostname", "dns_provider"} :
               Cardinality(LinesOf(file, k)) <= 1
         /\ IF Has(file, "vpn_hostname")
            THEN Settings(file).vpn = Vpn[Settings(file).base]
            ELSE Settings(file).base = DefaultDomain

RedeployConverges ==
    <>[]Deployable =>
       []<>(At("done") /\ deploy.ready /\ deploy.target = RegisterName)

=============================================================================
