---------------------------- MODULE DeployProofs ----------------------------
(***************************************************************************)
(* Proofs about Deploy, for every set of domains and names, every former   *)
(* environment file and every bound on faults, deaths and edits.           *)
(***************************************************************************)
EXTENDS Deploy, TLAPS, WellFoundedInduction

-----------------------------------------------------------------------------
(* Environment files.                                                      *)

(***************************************************************************)
(* The keys of a file, by name.                                            *)
(***************************************************************************)
LEMMA KeysAre ==
    /\ Key = {"base_domain", "enroll_port", "dns_provider", "vpn_hostname",
              "register_hostname"}
    /\ DOMAIN KeyOrder = 1..5
BY DEF Key, KeyOrder, Range

(***************************************************************************)
(* What a line is: a key and one of its values.                            *)
(***************************************************************************)
LEMMA LinesFit ==
    ASSUME NEW l
    PROVE  l \in Line <=> \E k \in Key : \E v \in ValuesOf[k] :
                             l = [key |-> k, value |-> v]
BY DEF Line

(***************************************************************************)
(* The lines of a key are places in the file, and the last of them is one. *)
(***************************************************************************)
LEMMA LastLine ==
    ASSUME NEW f \in Seq(Line), NEW k, Has(f, k)
    PROVE  /\ Max(LinesOf(f, k)) \in LinesOf(f, k)
           /\ Max(LinesOf(f, k)) \in 1..Len(f)
<1> DEFINE S == LinesOf(f, k)
           FromEnd == {Len(f) - i : i \in S}
           LessThan == {ss \in Nat \X Nat : ss[1] < ss[2]}
<1>1. S # {} /\ S \subseteq 1..Len(f) /\ Len(f) \in Nat
  BY DEF Has, LinesOf
<1>2. OpToRel(<, Nat) = LessThan
  BY DEF OpToRel
<1>3. IsWellFoundedOn(LessThan, Nat)
  BY <1>2, NatLessThanWellFounded, Zenon
<1>4. FromEnd \in SUBSET Nat /\ FromEnd # {}
  BY <1>1
<1> HIDE DEF LessThan, FromEnd, S
<1>5. PICK x \in FromEnd : \A y \in FromEnd : ~ (<<y, x>> \in LessThan)
  BY <1>3, <1>4, WFMin, Zenon
<1>6. PICK m \in S : x = Len(f) - m
  BY <1>5 DEF FromEnd
<1>7. ASSUME NEW i \in S PROVE m >= i
  <2>1. Len(f) - i \in FromEnd
    BY DEF FromEnd
  <2>2. /\ <<Len(f) - i, x>> \in Nat \X Nat
        /\ <<Len(f) - i, x>>[1] = Len(f) - i /\ <<Len(f) - i, x>>[2] = x
    BY <1>4, <1>5, <2>1
  <2>3. ~(Len(f) - i < x)
    BY <1>5, <2>1, <2>2 DEF LessThan
  <2> QED BY <1>1, <1>6, <2>3
<1>8. Max(S) \in S
  BY <1>7 DEF Max
<1> QED BY <1>1, <1>8 DEF S

(***************************************************************************)
(* A setting has a value of its kind.                                      *)
(***************************************************************************)
LEMMA ValuesFit ==
    ASSUME NEW f \in Seq(Line), NEW k \in Key, NEW v \in ValuesOf[k]
    PROVE  Value(f, k, v) \in ValuesOf[k]
<1>1. CASE Has(f, k)
  <2> DEFINE m == Max(LinesOf(f, k))
  <2>1. m \in 1..Len(f) /\ m \in LinesOf(f, k)
    BY <1>1, LastLine
  <2> HIDE DEF m
  <2>2. f[m] \in Line /\ f[m].key = k
    BY <2>1 DEF LinesOf
  <2>3. f[m].value \in ValuesOf[k]
    BY <2>2, LinesFit
  <2> QED BY <1>1, <2>3 DEF Value, m
<1>2. CASE ~Has(f, k)
  BY <1>2 DEF Value
<1> QED BY <1>1, <1>2

LEMMA SettingsFit ==
    ASSUME NEW f \in Seq(Line)
    PROVE  Settings(f) \in Setting
<1> DEFINE base == Value(f, "base_domain", DefaultDomain)
<1>1. /\ ValuesOf["base_domain"] = Domain /\ ValuesOf["enroll_port"] = Port
      /\ ValuesOf["dns_provider"] = Provider
      /\ ValuesOf["vpn_hostname"] = Fqdn
      /\ ValuesOf["register_hostname"] = Fqdn
  BY DEF ValuesOf
<1>2. base \in Domain
  BY <1>1, ValuesFit, KeysAre, NamesInDomains
<1>3. Value(f, "enroll_port", DefaultPort) \in Port
  BY <1>1, ValuesFit, KeysAre, PortsAndBounds
<1>4. Value(f, "dns_provider", "none") \in Provider
  BY <1>1, ValuesFit, KeysAre DEF Provider
<1> HIDE DEF base
<1>5. Vpn[base] \in Fqdn /\ Register[base] \in Fqdn
  BY <1>2, NamesInDomains
<1>6. Value(f, "vpn_hostname", Vpn[base]) \in Fqdn
  BY <1>1, <1>5, ValuesFit, KeysAre
<1>7. Value(f, "register_hostname", Register[base]) \in Fqdn
  BY <1>1, <1>5, ValuesFit, KeysAre
<1> QED BY <1>2, <1>3, <1>4, <1>6, <1>7 DEF Settings, Setting, base

(***************************************************************************)
(* What the service runs with, if it runs, is what the file says.          *)
(***************************************************************************)
LEMMA StartsWithSettings ==
    ASSUME NEW f \in Seq(Line) \cup {Absent}
    PROVE  /\ Started(f) \in Setting \cup {Down}
           /\ Started(f) \in {Settings(f), Down}
BY SettingsFit DEF Started

(***************************************************************************)
(* A line for a key that is missing is a line, and an appended line leaves *)
(* the other settings, and the ones that were there, alone.                *)
(***************************************************************************)
LEMMA MissingFits ==
    ASSUME NEW f, NEW k \in Key, NEW value, value[k] \in ValuesOf[k]
    PROVE  Missing(f, k, value) \in Seq(Line)
<1>1. [key |-> k, value |-> value[k]] \in Line
  BY LinesFit
<1> QED BY <1>1 DEF Missing

LEMMA SameLines ==
    ASSUME NEW f \in Seq(Line), NEW g \in Seq(Line), NEW k, Has(g, k),
           LinesOf(f, k) = LinesOf(g, k),
           \A i \in LinesOf(g, k) : f[i] = g[i]
    PROVE  Has(f, k) /\ Value(f, k, Absent) = Value(g, k, Absent)
BY LastLine DEF Has, Value

LEMMA MissingKeeps ==
    ASSUME NEW f \in Seq(Line), NEW g, NEW j \in Key, NEW value,
           value[j] \in ValuesOf[j], NEW k, Has(f, k), Has(g, k)
    PROVE  LET h == f \o Missing(g, j, value)
           IN  Has(h, k) /\ Value(h, k, Absent) = Value(f, k, Absent)
<1> DEFINE l == [key |-> j, value |-> value[j]]
<1>1. CASE Has(g, j)
  <2>1. f \o Missing(g, j, value) = f
    BY <1>1 DEF Missing
  <2> QED BY <2>1
<1>2. CASE ~Has(g, j)
  <2>1. l \in Line /\ l.key # k
    BY <1>2, LinesFit
  <2> HIDE DEF l
  <2>2. f \o Missing(g, j, value) = f \o <<l>>
    BY <1>2 DEF Missing, l
  <2> DEFINE h == f \o <<l>>
  <2>3. /\ h \in Seq(Line) /\ DOMAIN h = 1..(Len(f) + 1)
        /\ DOMAIN f = 1..Len(f) /\ Len(f) \in Nat
        /\ \A i \in DOMAIN f : h[i] = f[i]
        /\ h[Len(f) + 1] = l
    BY <2>1
  <2> HIDE DEF h
  <2>4. LinesOf(h, k) = LinesOf(f, k)
    BY <2>1, <2>3 DEF LinesOf
  <2>5. \A i \in LinesOf(f, k) : h[i] = f[i]
    BY <2>3 DEF LinesOf
  <2>6. Has(h, k) /\ Value(h, k, Absent) = Value(f, k, Absent)
    BY <2>3, <2>4, <2>5, SameLines
  <2> QED BY <2>2, <2>6 DEF h
<1> QED BY <1>1, <1>2

(***************************************************************************)
(* The installer's and the commands' defaults are settings, if the target  *)
(* is what the command says it is.                                         *)
(***************************************************************************)
TargetFits ==
    /\ deploy.kind = "domain" => deploy.target \in Domain
    /\ deploy.kind = "fqdn" => deploy.target \in Fqdn

LEMMA DefaultsFit ==
    ASSUME deploy \in Deployment, TargetFits
    PROVE  \A k \in Key : Default[k] \in ValuesOf[k]
<1> DEFINE base == IF deploy.kind = "domain" THEN deploy.target
                   ELSE DefaultDomain
<1>1. base \in Domain
  BY NamesInDomains DEF TargetFits
<1>2. Vpn[base] \in Fqdn /\ Register[base] \in Fqdn
  BY <1>1, NamesInDomains
<1>3. deploy.provider \in Provider /\ DefaultPort \in Port
  BY PortsAndBounds DEF Deployment
<1> HIDE DEF base
<1>4. Default = [base_domain |-> base, enroll_port |-> DefaultPort,
                 dns_provider |-> deploy.provider,
                 vpn_hostname |-> Vpn[base],
                 register_hostname |-> IF deploy.kind = "fqdn"
                                       THEN deploy.target ELSE Register[base]]
  BY DEF Default, base
<1> QED BY <1>1, <1>2, <1>3, <1>4, KeysAre DEF ValuesOf, TargetFits

(***************************************************************************)
(* The settings that no command asks to change.                            *)
(***************************************************************************)
Others == Key \ {"register_hostname", "dns_provider"}

Keeps(f, g) ==
    \A k \in Others :
       Has(g, k) => /\ Has(f, k)
                    /\ Value(f, k, Absent) = Value(g, k, Absent)

(***************************************************************************)
(* What the commands write before the installer runs.                      *)
(***************************************************************************)
LEMMA RewrittenFits ==
    ASSUME file \in Seq(Line), deploy \in Deployment, TargetFits
    PROVE  Rewritten \in Seq(Line) /\ Keeps(Rewritten, file)
<1>1. ASSUME NEW i \in DOMAIN file
      PROVE  /\ Rewritten[i] \in Line /\ Rewritten[i].key = file[i].key
             /\ file[i].key \in Others => Rewritten[i] = file[i]
  <2>1. file[i] \in Line
    OBVIOUS
  <2>2. file[i].key \in Key
    BY <2>1, LinesFit
  <2>3. [key |-> file[i].key, value |-> Default[file[i].key]] \in Line
    BY <2>2, LinesFit, DefaultsFit
  <2> QED BY <2>1, <2>3 DEF Rewritten, Others, Changed
<1>2. DOMAIN Rewritten = 1..Len(file) /\ DOMAIN file = 1..Len(file)
  BY DEF Rewritten
<1>3. Rewritten \in Seq(Line)
  <2>1. Rewritten = [i \in 1..Len(file) |-> Rewritten[i]]
    BY <1>2 DEF Rewritten
  <2> QED BY <1>1, <1>2, <2>1
<1>4. ASSUME NEW k \in Others, Has(file, k)
      PROVE  Has(Rewritten, k)
             /\ Value(Rewritten, k, Absent) = Value(file, k, Absent)
  <2>1. LinesOf(Rewritten, k) = LinesOf(file, k)
    BY <1>1, <1>2 DEF LinesOf
  <2>2. \A i \in LinesOf(file, k) : Rewritten[i] = file[i]
    BY <1>1 DEF LinesOf
  <2> QED BY <1>3, <1>4, <2>1, <2>2, SameLines
<1> QED BY <1>3, <1>4 DEF Keeps

LEMMA PatchedFits ==
    ASSUME file \in Seq(Line), deploy \in Deployment, TargetFits
    PROVE  PatchedText \in Seq(Line) /\ Keeps(PatchedText, file)
<1> DEFINE name == Added("register_hostname")
           provider == Added("dns_provider")
<1>1. /\ Missing(file, "register_hostname", Default) \in Seq(Line)
      /\ Missing(file, "dns_provider", Default) \in Seq(Line)
  BY MissingFits, DefaultsFit, KeysAre
<1>2. /\ name \in {<<>>, Missing(file, "register_hostname", Default)}
      /\ provider \in {<<>>, Missing(file, "dns_provider", Default)}
  BY DEF Added
<1> HIDE DEF name, provider
<1>3. name \in Seq(Line) /\ provider \in Seq(Line)
  <2>1. <<>> \in Seq(Line)
    OBVIOUS
  <2> QED BY <1>1, <1>2, <2>1
<1>0. /\ Default["dns_provider"] \in ValuesOf["dns_provider"]
      /\ Default["register_hostname"] \in ValuesOf["register_hostname"]
      /\ {"dns_provider", "register_hostname"} \subseteq Key
  BY DefaultsFit, KeysAre
<1>4. Rewritten \in Seq(Line) /\ Keeps(Rewritten, file)
  BY RewrittenFits
<1>5. Rewritten \o name \in Seq(Line)
  BY <1>3, <1>4
<1>6. ASSUME NEW k \in Others, Has(file, k)
      PROVE  /\ Has(Rewritten \o name, k)
             /\ Value(Rewritten \o name, k, Absent) = Value(file, k, Absent)
  <2>1. /\ Has(Rewritten, k)
        /\ Value(Rewritten, k, Absent) = Value(file, k, Absent)
    BY <1>4, <1>6 DEF Keeps
  <2>2. CASE name = <<>>
    BY <1>4, <2>1, <2>2
  <2>3. CASE name = Missing(file, "register_hostname", Default)
    BY <1>0, <1>4, <1>6, <2>1, <2>3, MissingKeeps
  <2> QED BY <1>2, <2>2, <2>3
<1>7. ASSUME NEW k \in Others, Has(file, k)
      PROVE  /\ Has(Rewritten \o name \o provider, k)
             /\ Value(Rewritten \o name \o provider, k, Absent)
                   = Value(file, k, Absent)
  <2> DEFINE f == Rewritten \o name
  <2>1. Has(f, k) /\ Value(f, k, Absent) = Value(file, k, Absent)
    BY <1>6, <1>7
  <2>2. f \in Seq(Line)
    BY <1>5
  <2> HIDE DEF f
  <2>3. CASE provider = <<>>
    BY <2>1, <2>2, <2>3 DEF f
  <2>4. CASE provider = Missing(file, "dns_provider", Default)
    <3>1. /\ Has(f \o provider, k)
          /\ Value(f \o provider, k, Absent) = Value(f, k, Absent)
      BY <1>0, <1>7, <2>1, <2>2, <2>4, MissingKeeps
    <3> QED BY <2>1, <3>1 DEF f
  <2> QED BY <1>2, <2>3, <2>4
<1>8. PatchedText = Rewritten \o name \o provider
  BY DEF PatchedText, name, provider
<1> QED BY <1>3, <1>5, <1>7, <1>8 DEF Keeps

(***************************************************************************)
(* What the installer makes of the file, of which a death may leave a      *)
(* beginning.                                                              *)
(***************************************************************************)
LEMMA NewFits ==
    ASSUME deploy \in Deployment, TargetFits
    PROVE  NewText \in Seq(Line)
<1>1. DOMAIN NewText = 1..5
  BY KeysAre DEF NewText
<1>2. ASSUME NEW i \in 1..5 PROVE NewText[i] \in Line
  <2>1. KeyOrder[i] \in Key
    BY KeysAre DEF Key, Range
  <2>2. NewText[i] = [key |-> KeyOrder[i], value |-> Default[KeyOrder[i]]]
    BY KeysAre DEF NewText
  <2> QED BY <2>1, <2>2, DefaultsFit, LinesFit
<1>3. NewText = [i \in 1..5 |-> NewText[i]]
  BY <1>1 DEF NewText
<1> QED BY <1>2, <1>3

LEMMA CompletedFits ==
    ASSUME file \in Seq(Line) \cup {Absent}, deploy \in Deployment, TargetFits
    PROVE  /\ CompletedText \in Seq(Line)
           /\ file # Absent => Keeps(CompletedText, file)
<1>1. CASE file = Absent
  BY <1>1, NewFits DEF CompletedText
<1>2. CASE file # Absent
  <2> DEFINE provider == Missing(file, "dns_provider", Default)
             vpn == Missing(file, "vpn_hostname", Default)
             name == Missing(file, "register_hostname", Default)
             one == file \o provider
             two == one \o vpn
             three == two \o name
  <2>1. /\ provider \in Seq(Line) /\ vpn \in Seq(Line) /\ name \in Seq(Line)
    BY MissingFits, DefaultsFit, KeysAre
  <2>2. /\ Default["dns_provider"] \in ValuesOf["dns_provider"]
        /\ Default["vpn_hostname"] \in ValuesOf["vpn_hostname"]
        /\ Default["register_hostname"] \in ValuesOf["register_hostname"]
        /\ {"dns_provider", "vpn_hostname", "register_hostname"} \subseteq Key
    BY DefaultsFit, KeysAre
  <2>3. file \in Seq(Line)
    BY <1>2
  <2>4. one \in Seq(Line)
    BY <2>1, <2>3
  <2>5. two \in Seq(Line)
    BY <2>1, <2>4
  <2>6. three \in Seq(Line)
    BY <2>1, <2>5
  <2>7. ASSUME NEW k \in Others, Has(file, k)
        PROVE  /\ Has(three, k)
               /\ Value(three, k, Absent) = Value(file, k, Absent)
    <3> HIDE DEF one, two, three
    <3>1. Has(one, k) /\ Value(one, k, Absent) = Value(file, k, Absent)
      BY <2>2, <2>3, <2>7, MissingKeeps DEF one
    <3>2. Has(two, k) /\ Value(two, k, Absent) = Value(file, k, Absent)
      BY <2>2, <2>4, <2>7, <3>1, MissingKeeps DEF two
    <3> QED
      BY <2>2, <2>5, <2>7, <3>2, MissingKeeps DEF three
  <2>8. CompletedText = three
    BY <1>2 DEF CompletedText
  <2> HIDE DEF three
  <2> QED BY <2>6, <2>7, <2>8 DEF Keeps
<1> QED BY <1>1, <1>2

-----------------------------------------------------------------------------
(* Types.                                                                  *)

(***************************************************************************)
(* Where a deployment may be: what it is of, what it has to restore, and   *)
(* from which steps on there is an environment file.                       *)
(***************************************************************************)
FileStages == {"patch", "validate", "registry", "dns", "services", "expose",
               "check"}

Placed ==
    /\ TargetFits
    /\ stage = "expose" => deploy.kind = "fqdn"
    /\ stage = "rollback" => deploy.undo # Untouched
    /\ stage \in FileStages => file # Absent

Fitting == TypeOK /\ Placed

LEMMA BeginFits ==
    ASSUME Fitting, NEW kind \in {"domain", "fqdn", "installer"},
           NEW target \in Domain \cup Fqdn, NEW provider \in Provider,
           NEW required \in BOOLEAN,
           NEW undo \in Seq(Line) \cup {Absent, Untouched},
           NEW first \in {"patch", "keys"},
           Begin(kind, target, provider, required, undo, first),
           kind = "domain" => target \in Domain,
           kind = "fqdn" => target \in Fqdn,
           first = "patch" => file # Absent
    PROVE  Fitting'
<1>1. deploy' = [kind |-> kind, target |-> target, provider |-> provider,
                 dns |-> required, undo |-> undo, ready |-> FALSE]
  BY DEF Begin
<1>2. deploy' \in Deployment
  BY <1>1 DEF Deployment
<1>3. stage' \in Stage /\ stage' = first
  BY DEF Begin, Goto, Stage
<1>4. TypeOK'
  BY <1>2, <1>3 DEF Fitting, TypeOK, Begin, prepared, running, public
<1>5. Placed'
  BY <1>1, <1>3 DEF Placed, TargetFits, FileStages, Begin
<1> QED BY <1>4, <1>5 DEF Fitting

LEMMA CommandsFit ==
    ASSUME Fitting,
           \/ \E o \in Options :
                 \/ \E n \in Target : DeployFqdn(n, o[1], o[2])
                 \/ \E d \in Moved : DeployDomain(d, o[1], o[2])
           \/ RunInstaller
    PROVE  Fitting'
<1>1. file \in Seq(Line) \cup {Absent}
  BY DEF Fitting, TypeOK
<1>2. ASSUME NEW o \in Options PROVE o[1] \in Provider /\ o[2] \in BOOLEAN
  BY PortsAndBounds
<1>3. ASSUME NEW o \in Options, NEW n \in Target, DeployFqdn(n, o[1], o[2])
      PROVE  Fitting'
  <2> DEFINE provider == IF o[1] = "none" /\ file # Absent
                         THEN Settings(file).provider ELSE o[1]
             first == IF file = Absent THEN "keys" ELSE "patch"
  <2>1. provider \in Provider
    BY <1>1, <1>2, SettingsFit DEF Setting
  <2>2. n \in Fqdn
    BY NamesInDomains
  <2>3. Begin("fqdn", n, provider, o[2], file, first)
    BY <1>3 DEF DeployFqdn
  <2>4. first \in {"patch", "keys"} /\ (first = "patch" => file # Absent)
    OBVIOUS
  <2> HIDE DEF provider, first
  <2> QED BY <1>1, <1>2, <2>1, <2>2, <2>3, <2>4, BeginFits
<1>4. ASSUME NEW o \in Options, NEW d \in Moved, DeployDomain(d, o[1], o[2])
      PROVE  Fitting'
  <2>1. d \in Domain
    BY NamesInDomains
  <2>2. CASE file # Absent /\ o[1] # "none"
    <3>1. Begin("domain", d, o[1], o[2], file, "patch")
      BY <1>4, <2>2 DEF DeployDomain
    <3> QED BY <1>1, <1>2, <2>1, <2>2, <3>1, BeginFits
  <2>3. CASE ~(file # Absent /\ o[1] # "none")
    <3>1. Begin("domain", d, o[1], o[2], Untouched, "keys")
      BY <1>4, <2>3 DEF DeployDomain
    <3> QED BY <1>2, <2>1, <3>1, BeginFits
  <2> QED BY <2>2, <2>3
<1>5. ASSUME RunInstaller PROVE Fitting'
  <2>1. Begin("installer", DefaultDomain, "none", FALSE, Untouched, "keys")
    BY <1>5 DEF RunInstaller
  <2>2. DefaultDomain \in Domain /\ "none" \in Provider
    BY NamesInDomains DEF Provider
  <2> QED BY <2>1, <2>2, BeginFits
<1> QED BY <1>3, <1>4, <1>5

(***************************************************************************)
(* A deployment that is forgotten, and what is left to spend.              *)
(***************************************************************************)
LEMMA ForgottenFits ==
    ASSUME Forgotten
    PROVE  /\ deploy' \in Deployment /\ deploy'.ready = FALSE
           /\ deploy'.undo = Untouched /\ deploy'.kind = "installer"
           /\ stage' \in Stage /\ Placed'
<1>1. deploy' = [kind |-> "installer", target |-> DefaultDomain,
                 provider |-> "none", dns |-> FALSE, undo |-> Untouched,
                 ready |-> FALSE] /\ stage' = "idle"
  BY DEF Forgotten, NoDeployment
<1> QED
  BY <1>1, NamesInDomains DEF Deployment, Provider, Stage, Placed, TargetFits,
     FileStages

LEMMA SpentFits ==
    ASSUME TypeOK, NEW kind \in {"fault", "crash", "edit"}, Spend(kind)
    PROVE  budget' \in [fault : Nat, crash : Nat, edit : Nat]
BY DEF TypeOK, Spend

(***************************************************************************)
(* Steps that change no more than where the deployment is.                 *)
(***************************************************************************)
LEMMA FailureFits ==
    ASSUME Fitting, Failed,
           UNCHANGED <<file, prepared, credentials, running, public, deploy>>,
           budget' \in [fault : Nat, crash : Nat, edit : Nat]
    PROVE  Fitting'
<1>1. stage' \in {"failed", "rollback"}
      /\ (stage' = "rollback" => deploy.undo # Untouched)
  BY DEF Failed, Goto
<1>2. TypeOK'
  BY <1>1 DEF Fitting, TypeOK, Stage, prepared, running, public
<1>3. Placed'
  BY <1>1 DEF Fitting, Placed, TargetFits, FileStages
<1> QED BY <1>2, <1>3 DEF Fitting

(***************************************************************************)
(* The steps of a deployment that goes well.                               *)
(***************************************************************************)
LEMMA ProceedsFit ==
    ASSUME Fitting, Proceeds
    PROVE  Fitting'
<1> USE DEF Fitting, prepared, running, public, At, Goto
<1>1. file \in Seq(Line) \cup {Absent} /\ deploy \in Deployment /\ TargetFits
  BY DEF TypeOK, Placed
<1>2. CASE Patch
  <2>1. file \in Seq(Line)
    BY <1>1, <1>2 DEF Patch, Placed, FileStages
  <2>2. PatchedText \in Seq(Line)
    BY <1>1, <2>1, PatchedFits
  <2>3. file' \in Seq(Line) /\ file' # Absent /\ stage' = "keys"
    BY <1>2, <2>2, MarkersAreNoFiles DEF Patch
  <2> QED BY <1>2, <2>3 DEF Patch, TypeOK, Placed, TargetFits, FileStages,
      Stage
<1>3. CASE PrepareKeys
  <2>1. keys' \in [{"private", "public"} -> PrivateKey \cup {Absent}]
    BY <1>3 DEF PrepareKeys, TypeOK, PrivateKey
  <2> QED BY <1>3, <2>1 DEF PrepareKeys, TypeOK, Placed, TargetFits,
             FileStages, Stage
<1>4. CASE EnsureWireguardConfig
  BY <1>4 DEF EnsureWireguardConfig, TypeOK, Placed, TargetFits, FileStages,
     Stage
<1>5. CASE EnsureEnvironment
  <2>1. CompletedText \in Seq(Line)
    BY <1>1, CompletedFits
  <2>2. file' \in Seq(Line) /\ file' # Absent /\ stage' = "validate"
    BY <1>5, <2>1, MarkersAreNoFiles DEF EnsureEnvironment
  <2> QED BY <1>5, <2>2 DEF EnsureEnvironment, TypeOK, Placed, TargetFits,
             FileStages, Stage
<1>6. CASE ValidateDns
  BY <1>6 DEF ValidateDns, TypeOK, Placed, TargetFits, FileStages, Stage
<1>7. CASE InitializeRegistry
  BY <1>7 DEF InitializeRegistry, TypeOK, Placed, TargetFits, FileStages, Stage
<1>8. CASE InitializeDns
  <2>1. file \in Seq(Line)
    BY <1>1, <1>8 DEF InitializeDns, Placed, FileStages
  <2>2. Settings(file).vpn \in Fqdn /\ Settings(file).register \in Fqdn
    BY <2>1, SettingsFit DEF Setting
  <2>3. zone' \subseteq Fqdn
    BY <1>8, <2>2 DEF InitializeDns, Synchronized, OperationalNames, TypeOK
  <2> QED BY <1>8, <2>3 DEF InitializeDns, TypeOK, Placed, TargetFits,
             FileStages, Stage
<1>9. CASE EnableServices
  <2>1. Started(file) \in Setting \cup {Down}
    BY <1>1, StartsWithSettings
  <2>2. LinkUp(wgconf) \in PrivateKey \cup {Down, Torn}
    BY DEF LinkUp, TypeOK
  <2>3. stage' \in {"done", "check", "expose"}
        /\ (stage' = "expose" => deploy.kind = "fqdn")
    BY <1>1, <1>9 DEF EnableServices, AfterInstaller, Deployment
  <2> QED BY <1>9, <2>1, <2>2, <2>3 DEF EnableServices, TypeOK, Placed,
             TargetFits, FileStages, Stage
<1>10. CASE Expose
  <2>1. file \in Seq(Line) /\ deploy.target \in Fqdn
    BY <1>1, <1>10 DEF Expose, Placed, TargetFits, FileStages
  <2>2. Settings(file).port \in Port
    BY <2>1, SettingsFit DEF Setting
  <2>3. zone' \subseteq Fqdn /\ site' \in [Fqdn -> Port \cup {"none"}]
    BY <1>10, <2>1, <2>2 DEF Expose, TypeOK
  <2> QED BY <1>10, <2>3 DEF Expose, TypeOK, Placed, TargetFits, FileStages,
             Stage
<1>11. CASE Check
  <2>1. Ready \in BOOLEAN
    BY DEF Ready, Readiness, LocalConfig, WireguardUp, EnrollmentUp, WebOk
  <2>2. deploy' \in Deployment /\ deploy'.kind = deploy.kind
        /\ deploy'.target = deploy.target /\ deploy'.undo = deploy.undo
    BY <1>1, <1>11, <2>1 DEF Check, Deployment
  <2> QED BY <1>11, <2>2 DEF Check, TypeOK, Placed, TargetFits, FileStages,
             Stage
<1>12. CASE Refused
  <2>1. budget' \in [fault : Nat, crash : Nat, edit : Nat]
    BY <1>12 DEF Refused, TypeOK
  <2> QED BY <1>12, <2>1, FailureFits DEF Refused
<1>13. CASE Rollback
  <2>1. file' \in Seq(Line) \cup {Absent}
    BY <1>1, <1>13 DEF Rollback, Placed, Deployment
  <2> QED BY <1>13, <2>1 DEF Rollback, TypeOK, Placed, TargetFits, FileStages,
             Stage
<1> QED BY <1>2, <1>3, <1>4, <1>5, <1>6, <1>7, <1>8, <1>9, <1>10, <1>11,
           <1>12, <1>13 DEF Proceeds

(***************************************************************************)
(* Failures, deaths, and the operator.                                     *)
(***************************************************************************)
LEMMA TearsFit ==
    ASSUME Fitting, Tears
    PROVE  Fitting'
<1>1. /\ file \in Seq(Line) \cup {Absent}
      /\ deploy \in Deployment /\ TargetFits
      /\ keys \in [{"private", "public"} -> PrivateKey \cup {Absent}]
      /\ wgconf \in PrivateKey \cup {Absent, Torn}
  BY DEF Fitting, TypeOK, Placed
<1>2. /\ stage' \in Stage /\ deploy' \in Deployment /\ Placed'
      /\ budget' \in [fault : Nat, crash : Nat, edit : Nat]
  BY ForgottenFits, SpentFits DEF Fitting, Tears
<1>3. file' \in Seq(Line) \cup {Absent}
  <2>1. ASSUME NEW n \in Len(file)..(Len(CompletedText) - 1), file # Absent
        PROVE  SubSeq(CompletedText, 1, n) \in Seq(Line)
    <3>1. CompletedText \in Seq(Line) /\ Len(file) \in Nat
      BY <1>1, <2>1, CompletedFits
    <3>2. n \in Int /\ n <= Len(CompletedText)
      BY <3>1
    <3> QED BY <3>1, <3>2
  <2>2. <<>> \in Seq(Line)
    OBVIOUS
  <2> QED BY <1>1, <2>1, <2>2 DEF Tears
<1>4. keys' \in [{"private", "public"} -> PrivateKey \cup {Absent}]
  BY <1>1 DEF Tears, PrivateKey
<1>5. wgconf' \in PrivateKey \cup {Absent, Torn}
  BY <1>1 DEF Tears
<1> QED BY <1>2, <1>3, <1>4, <1>5 DEF Fitting, TypeOK, Tears, running, public

LEMMA FittingStep ==
    ASSUME Fitting, [Next]_vars
    PROVE  Fitting'
<1> USE DEF prepared, running, public
<1>0. /\ file \in Seq(Line) \cup {Absent}
  BY DEF Fitting, TypeOK
<1>1. CASE \/ \E o \in Options :
                 \/ \E n \in Target : DeployFqdn(n, o[1], o[2])
                 \/ \E d \in Moved : DeployDomain(d, o[1], o[2])
           \/ RunInstaller
  BY <1>1, CommandsFit
<1>2. CASE Proceeds
  BY <1>2, ProceedsFit
<1>3. CASE StepFails
  BY <1>3, SpentFits, FailureFits DEF StepFails, Fitting
<1>4. CASE CheckFails
  <2>1. budget' \in [fault : Nat, crash : Nat, edit : Nat]
    BY <1>4, SpentFits DEF CheckFails, Fitting
  <2> QED BY <1>4, <2>1 DEF CheckFails, Goto, Fitting, TypeOK, Placed,
             TargetFits, FileStages, Stage
<1>5. CASE Dies
  <2>1. budget' \in [fault : Nat, crash : Nat, edit : Nat]
    BY <1>5, SpentFits DEF Dies, Fitting
  <2> QED BY <1>5, <2>1, ForgottenFits DEF Dies, Fitting, TypeOK
<1>6. CASE Reboot
  <2>1. budget' \in [fault : Nat, crash : Nat, edit : Nat]
    BY <1>6, SpentFits DEF Reboot, Fitting
  <2>2. /\ service' \in Setting \cup {Down}
        /\ link' \in PrivateKey \cup {Down, Torn}
    BY <1>0, <1>6, StartsWithSettings DEF Reboot, LinkUp, Fitting, TypeOK
  <2> QED BY <1>6, <2>1, <2>2, ForgottenFits DEF Reboot, Fitting, TypeOK
<1>7. CASE Tears
  BY <1>7, TearsFit
<1>8. CASE Edit
  <2>1. budget' \in [fault : Nat, crash : Nat, edit : Nat]
    BY <1>8, SpentFits DEF Edit, Fitting
  <2>2. file' \in Seq(Line)
    BY <1>0, <1>8, PortsAndBounds DEF Edit
  <2> QED BY <1>8, <2>1, <2>2, ForgottenFits DEF Edit, Fitting, TypeOK
<1>9. CASE StoreCredentials
  BY <1>9, ForgottenFits DEF StoreCredentials, Fitting, TypeOK
<1>10. CASE Sync
  <2>1. Settings(file).vpn \in Fqdn /\ Settings(file).register \in Fqdn
    BY <1>0, <1>10, SettingsFit DEF Sync, Setting
  <2>2. zone' \subseteq Fqdn
    BY <1>10, <2>1 DEF Sync, Synchronized, OperationalNames, Fitting, TypeOK
  <2> QED BY <1>10, <2>2, ForgottenFits DEF Sync, Fitting, TypeOK
<1>11. CASE UNCHANGED vars
  BY <1>11 DEF vars, Fitting, TypeOK, Placed, TargetFits
<1> QED BY <1>1, <1>2, <1>3, <1>4, <1>5, <1>6, <1>7, <1>8, <1>9, <1>10, <1>11
        DEF Next

LEMMA FittingInitially == Init => Fitting
<1> SUFFICES ASSUME Init PROVE Fitting
  OBVIOUS
<1>1. file \in Seq(Line) \cup {Absent}
  BY PortsAndBounds DEF Init
<1>2. Started(file) \in Setting \cup {Down}
  BY <1>1, StartsWithSettings
<1>3. /\ keys \in [{"private", "public"} -> PrivateKey \cup {Absent}]
      /\ wgconf \in PrivateKey \cup {Absent, Torn}
      /\ link \in PrivateKey \cup {Down, Torn}
      /\ enabled \subseteq {"interface", "service"}
      /\ registry \in BOOLEAN /\ service \in Setting \cup {Down}
  <2>1. ASSUME NEW k \in PrivateKey \cup {Absent},
               keys = [private |-> k, public |-> k]
        PROVE  keys \in [{"private", "public"} -> PrivateKey \cup {Absent}]
    BY <2>1
  <2>2. keys \in [{"private", "public"} -> PrivateKey \cup {Absent}]
    BY <2>1 DEF Init, InterfaceSetUp, PrivateKey
  <2>3. /\ wgconf \in PrivateKey \cup {Absent, Torn}
        /\ link \in PrivateKey \cup {Down, Torn}
    BY DEF Init, InterfaceSetUp, PrivateKey
  <2>4. enabled \subseteq {"interface", "service"} /\ registry \in BOOLEAN
    BY DEF Init
  <2>5. service \in Setting \cup {Down}
    BY <1>2 DEF Init
  <2> QED BY <2>2, <2>3, <2>4, <2>5
<1>4. deploy \in Deployment /\ Placed
  BY NamesInDomains DEF Init, NoDeployment, Deployment, Provider, Placed,
     TargetFits, FileStages
<1>5. budget \in [fault : Nat, crash : Nat, edit : Nat]
  BY PortsAndBounds DEF Init
<1> QED BY <1>1, <1>3, <1>4, <1>5 DEF Init, Fitting, TypeOK, Stage

(***************************************************************************)
(* TypeOK for every instance.  It needs Placed: a target that is not what  *)
(* the command says would write a name where a domain belongs.             *)
(***************************************************************************)
THEOREM TypeCorrect == Spec => []TypeOK
<1>1. Fitting => TypeOK
  BY DEF Fitting
<1> QED BY <1>1, FittingInitially, FittingStep, PTL DEF Spec

-----------------------------------------------------------------------------
(* What a deployment leaves of the file that it found.                     *)

(***************************************************************************)
(* A deployment of a name always has something to restore, if only the     *)
(* absence of a file, and has restored it once it has failed; as long as   *)
(* any deployment lasts the file has the settings of the one to restore.   *)
(***************************************************************************)
Restorable ==
    /\ deploy.kind = "fqdn" => deploy.undo # Untouched
    /\ FailureRestoresFile
    /\ ~At("idle") /\ deploy.undo \notin {Absent, Untouched} =>
          file # Absent /\ Keeps(file, deploy.undo)

LEMMA KeepsTransitive ==
    ASSUME NEW f, NEW g, NEW h, Keeps(f, g), Keeps(g, h)
    PROVE  Keeps(f, h)
BY DEF Keeps

(***************************************************************************)
(* A file is written anew where it keeps the settings that it has.         *)
(***************************************************************************)
LEMMA RestorableKept ==
    ASSUME Restorable, UNCHANGED deploy, ~At("idle"), stage' # "failed",
           \/ file' = file
           \/ file # Absent => file' # Absent /\ Keeps(file', file)
    PROVE  Restorable'
<1> DEFINE Texts(f) == deploy.undo \notin {Absent, Untouched} =>
                          f # Absent /\ Keeps(f, deploy.undo)
<1>1. Texts(file)
  BY DEF Restorable
<1>2. Texts(file')
  <2>1. CASE file' = file
    BY <1>1, <2>1
  <2>2. CASE file' # file
    BY <1>1, <2>2, KeepsTransitive
  <2> QED BY <2>1, <2>2
<1>3. Texts(file') = (deploy'.undo \notin {Absent, Untouched} =>
                         file' # Absent /\ Keeps(file', deploy'.undo))
  OBVIOUS
<1>4. Keeps(file, deploy.undo)' = Keeps(file', deploy'.undo)
  BY DEF Keeps, Has, Value, LinesOf
<1> HIDE DEF Texts
<1> QED BY <1>2, <1>3, <1>4 DEF Restorable, FailureRestoresFile, At

LEMMA RestorableAfterBegin ==
    ASSUME NEW kind, NEW target, NEW provider, NEW required, NEW undo,
           NEW first \in {"patch", "keys"},
           Begin(kind, target, provider, required, undo, first),
           undo \in {file, Untouched}, kind = "fqdn" => undo # Untouched
    PROVE  Restorable'
<1>1. /\ deploy' = [kind |-> kind, target |-> target, provider |-> provider,
                    dns |-> required, undo |-> undo, ready |-> FALSE]
      /\ stage' = first /\ file' = file
  BY DEF Begin, Goto
<1>2. deploy'.undo \notin {Absent, Untouched} => Keeps(file', deploy'.undo)
  BY <1>1 DEF Keeps
<1>3. Keeps(file, deploy.undo)' = Keeps(file', deploy'.undo)
  BY DEF Keeps, Has, Value, LinesOf
<1> QED BY <1>1, <1>2, <1>3 DEF Restorable, FailureRestoresFile, At

LEMMA RestorableStep ==
    ASSUME Fitting, Restorable, [Next]_vars
    PROVE  Restorable'
<1> USE DEF prepared, running, public, At, Goto
<1>0. /\ file \in Seq(Line) \cup {Absent}
      /\ deploy \in Deployment /\ TargetFits
      /\ file # Untouched
  BY MarkersAreNoFiles DEF Fitting, TypeOK, Placed
<1>1. ASSUME NEW o \in Options, NEW n \in Target, DeployFqdn(n, o[1], o[2])
      PROVE  Restorable'
  <2> DEFINE provider == IF o[1] = "none" /\ file # Absent
                         THEN Settings(file).provider ELSE o[1]
             first == IF file = Absent THEN "keys" ELSE "patch"
  <2>1. Begin("fqdn", n, provider, o[2], file, first)
    BY <1>1 DEF DeployFqdn
  <2>2. first \in {"patch", "keys"}
    OBVIOUS
  <2> HIDE DEF provider, first
  <2> QED BY <1>0, <2>1, <2>2, RestorableAfterBegin
<1>2. ASSUME NEW o \in Options, NEW d \in Moved, DeployDomain(d, o[1], o[2])
      PROVE  Restorable'
  BY <1>2, RestorableAfterBegin DEF DeployDomain
<1>3. CASE RunInstaller
  BY <1>3, RestorableAfterBegin DEF RunInstaller
<1>4. CASE Patch
  <2>1. file \in Seq(Line)
    BY <1>0, <1>4 DEF Patch, Fitting, Placed, FileStages
  <2>2. file' \in Seq(Line) /\ Keeps(file', file)
    BY <1>0, <1>4, <2>1, PatchedFits DEF Patch
  <2> QED BY <1>4, <2>2, RestorableKept, MarkersAreNoFiles DEF Patch
<1>5. CASE EnsureEnvironment
  <2>1. file' \in Seq(Line) /\ (file # Absent => Keeps(file', file))
    BY <1>0, <1>5, CompletedFits DEF EnsureEnvironment
  <2> QED BY <1>5, <2>1, RestorableKept, MarkersAreNoFiles
          DEF EnsureEnvironment
<1>6. CASE \/ PrepareKeys \/ EnsureWireguardConfig \/ ValidateDns
           \/ InitializeRegistry \/ InitializeDns \/ Expose \/ CheckFails
  BY <1>6, RestorableKept DEF PrepareKeys, EnsureWireguardConfig, ValidateDns,
     InitializeRegistry, InitializeDns, Expose, CheckFails
<1>7. CASE EnableServices
  <2>1. AfterInstaller # "failed"
    BY <1>0 DEF AfterInstaller, Deployment
  <2> QED BY <1>7, <2>1, RestorableKept DEF EnableServices
<1>8. CASE Check
  <2>1. /\ deploy'.kind = deploy.kind /\ deploy'.undo = deploy.undo
        /\ file' = file /\ stage' = "done" /\ stage = "check"
    BY <1>0, <1>8 DEF Check, Deployment
  <2>2. Keeps(file, deploy.undo)' = Keeps(file, deploy.undo)
    BY <2>1 DEF Keeps, Has, Value, LinesOf
  <2> QED BY <2>1, <2>2 DEF Restorable, FailureRestoresFile
<1>9. CASE Refused \/ StepFails
  <2>1. /\ UNCHANGED <<file, deploy>> /\ stage # "idle"
        /\ stage' = IF deploy.undo = Untouched THEN "failed" ELSE "rollback"
    BY <1>9 DEF Refused, StepFails, Failed, Installing
  <2>2. Keeps(file, deploy.undo)' = Keeps(file, deploy.undo)
    BY <2>1 DEF Keeps, Has, Value, LinesOf
  <2> QED BY <2>1, <2>2 DEF Restorable, FailureRestoresFile
<1>10. CASE Rollback
  <2>1. file' = deploy.undo /\ deploy' = deploy /\ stage' = "failed"
    BY <1>10 DEF Rollback
  <2>2. Keeps(file, deploy.undo)'
    BY <2>1 DEF Keeps
  <2> QED BY <2>1, <2>2 DEF Restorable, FailureRestoresFile
<1>11. CASE Dies \/ Reboot \/ Tears \/ Edit \/ StoreCredentials \/ Sync
  <2>1. Forgotten
    BY <1>11 DEF Dies, Reboot, Tears, Edit, StoreCredentials, Sync
  <2>2. stage' = "idle" /\ deploy'.kind = "installer"
    BY <2>1 DEF Forgotten, NoDeployment
  <2> QED BY <2>2 DEF Restorable, FailureRestoresFile
<1>12. CASE UNCHANGED vars
  <2>1. Keeps(file, deploy.undo)' = Keeps(file, deploy.undo)
    BY <1>12 DEF vars, Keeps, Has, Value, LinesOf
  <2> QED BY <1>12, <2>1 DEF vars, Restorable, FailureRestoresFile
<1> QED BY <1>1, <1>2, <1>3, <1>4, <1>5, <1>6, <1>7, <1>8, <1>9, <1>10, <1>11,
           <1>12 DEF Next, Proceeds

LEMMA RestorableInitially == Init => Restorable
BY DEF Init, NoDeployment, Restorable, FailureRestoresFile, At

(***************************************************************************)
(* FailureRestoresFile for every instance: however far a deployment of a   *)
(* name came before it failed.                                             *)
(***************************************************************************)
THEOREM FailureAlwaysRestoresFile == Spec => []FailureRestoresFile
<1>1. Restorable => FailureRestoresFile
  BY DEF Restorable
<1> QED BY <1>1, FittingInitially, FittingStep, RestorableInitially,
           RestorableStep, PTL DEF Spec

(***************************************************************************)
(* OtherSettingsKept for every instance, whatever keys a former file has,  *)
(* lacks or repeats.                                                       *)
(***************************************************************************)
THEOREM OtherSettingsAlwaysKept == Spec => []OtherSettingsKept
<1>1. Restorable => OtherSettingsKept
  BY DEF Restorable, OtherSettingsKept, Keeps, Others
<1> QED BY <1>1, FittingInitially, FittingStep, RestorableInitially,
           RestorableStep, PTL DEF Spec

-----------------------------------------------------------------------------
(* The gateway's key.                                                      *)

(***************************************************************************)
(* The inductive invariant: both key files are of one key, unless the      *)
(* public one was cut, and whatever configuration or interface has a key   *)
(* has the private one.  It is needed for the configuration on disk, which *)
(* a reboot will run, and for the time before the keys are made, when      *)
(* nothing may have a key.                                                 *)
(***************************************************************************)
OneKey ==
    /\ keys.public \in {Absent, keys.private}
    /\ wgconf \in PrivateKey => wgconf = keys.private
    /\ link \in PrivateKey => link = keys.private

(***************************************************************************)
(* The configuration that an interface comes up with.                      *)
(***************************************************************************)
LEMMA LinksUp ==
    ASSUME OneKey, UNCHANGED <<keys, wgconf>>,
           link' \in {link, LinkUp(wgconf), Down}
    PROVE  OneKey'
BY MarkersAreNoKeys DEF OneKey, LinkUp

LEMMA OneKeyStep ==
    ASSUME OneKey, [Next]_vars
    PROVE  OneKey'
<1>1. CASE PrepareKeys
  <2> DEFINE k == IF keys.private = Absent THEN 1 ELSE keys.private
  <2>1. keys' = [private |-> k, public |-> k] /\ UNCHANGED <<wgconf, link>>
    BY <1>1 DEF PrepareKeys, running
  <2>2. keys'.private = k /\ keys'.public = k
    BY <2>1
  <2>3. CASE keys.private = Absent
    <3>1. wgconf \notin PrivateKey /\ link \notin PrivateKey
      BY <2>3, MarkersAreNoKeys DEF OneKey
    <3> QED BY <2>1, <2>2, <3>1 DEF OneKey
  <2>4. CASE keys.private # Absent
    BY <2>1, <2>2, <2>4 DEF OneKey
  <2> QED BY <2>3, <2>4
<1>2. CASE EnsureWireguardConfig
  BY <1>2 DEF EnsureWireguardConfig, running, OneKey
<1>3. CASE EnableServices
  BY <1>3, LinksUp DEF EnableServices, prepared
<1>4. CASE Reboot
  BY <1>4, LinksUp DEF Reboot, prepared
<1>5. CASE Tears
  <2>1. CASE keys.private = Absent
    <3>1. wgconf \notin PrivateKey /\ link \notin PrivateKey
      BY <2>1, MarkersAreNoKeys DEF OneKey
    <3> QED BY <1>5, <3>1, MarkersAreNoKeys DEF Tears, running, OneKey
  <2>2. CASE keys.private # Absent
    BY <1>5, <2>2, MarkersAreNoKeys DEF Tears, running, OneKey
  <2> QED BY <2>1, <2>2
<1>6. CASE UNCHANGED <<keys, wgconf, link>>
  BY <1>6 DEF OneKey
<1>7. \/ PrepareKeys \/ EnsureWireguardConfig \/ EnableServices \/ Reboot
      \/ Tears \/ UNCHANGED <<keys, wgconf, link>>
  BY DEF Next, Proceeds, DeployFqdn, DeployDomain, RunInstaller, Begin, Patch,
     EnsureEnvironment, ValidateDns, InitializeRegistry, InitializeDns,
     Expose, Check, Refused, Rollback, StepFails, CheckFails, Dies, Edit,
     StoreCredentials, Sync, vars, prepared, running
<1> QED BY <1>1, <1>2, <1>3, <1>4, <1>5, <1>6, <1>7

(***************************************************************************)
(* PublishedKeyRuns for every instance: wherever installations failed or   *)
(* died, and however often they were repeated.                             *)
(***************************************************************************)
THEOREM PublishedKeyIsRun == Spec => []PublishedKeyRuns
<1>1. Init => OneKey
  BY MarkersAreNoKeys DEF Init, InterfaceSetUp, OneKey
<1>2. OneKey /\ [Next]_vars => OneKey'
  BY OneKeyStep
<1>3. OneKey => PublishedKeyRuns
  BY DEF OneKey, PublishedKeyRuns
<1> QED BY <1>1, <1>2, <1>3, PTL DEF Spec

-----------------------------------------------------------------------------
(* Success.                                                                *)

(***************************************************************************)
(* What the steps of a deployment have done before the check: both key     *)
(* files hold a key; the names that the file has are published, if there   *)
(* is a provider; the service was started from the file as it is.  The     *)
(* check itself looks at no more than ports and the file.                  *)
(***************************************************************************)
KeyedStages == {"wg_config", "environment", "validate", "registry", "dns",
                "services", "expose", "check"}

Agreeing ==
    /\ stage \in KeyedStages =>
          keys.private \in PrivateKey /\ keys.public = keys.private
    /\ stage \in {"services", "expose", "check"} =>
          \/ Settings(file).provider = "none"
          \/ OperationalNames(file) \subseteq zone
    /\ stage \in {"expose", "check"} => service = Started(file)
    /\ deploy.ready => stage = "done"
    /\ SuccessMeansAgreement

(***************************************************************************)
(* At the check, what is ready is as it should be.                         *)
(***************************************************************************)
LEMMA ReadyAgrees ==
    ASSUME Fitting, OneKey, Agreeing, At("check"), deploy.kind = "fqdn", Ready
    PROVE  /\ service = Settings(file)
           /\ service.register = deploy.target
           /\ site[deploy.target] = service.port
           /\ link = keys.public
           /\ deploy.dns => OperationalNames(file) \subseteq zone
<1>1. /\ Readiness(Settings(file).base)
      /\ Settings(file).register = deploy.target
      /\ link \notin {Down, Torn} /\ service # Down
      /\ site[deploy.target] = service.port
  BY DEF Ready, LocalConfig, WireguardUp, EnrollmentUp, WebOk
<1>2. file \in Seq(Line) \cup {Absent} /\ link \in PrivateKey \cup {Down, Torn}
  BY DEF Fitting, TypeOK
<1>3. service = Settings(file)
  BY <1>1, <1>2, StartsWithSettings DEF Agreeing, At
<1>4. link = keys.public
  BY <1>1, <1>2 DEF OneKey, Agreeing, KeyedStages, At
<1>5. deploy.dns => OperationalNames(file) \subseteq zone
  BY <1>1 DEF Readiness, Agreeing, At
<1> QED BY <1>1, <1>3, <1>4, <1>5

(***************************************************************************)
(* A deployment begins or is forgotten, or fails.                          *)
(***************************************************************************)
LEMMA NotReadyYet ==
    ASSUME stage' \in {"idle", "patch", "keys", "rollback", "failed"},
           deploy'.ready = FALSE
    PROVE  Agreeing'
BY DEF Agreeing, SuccessMeansAgreement, KeyedStages, At

LEMMA AgreeingStep ==
    ASSUME Fitting, OneKey, Agreeing, [Next]_vars
    PROVE  Agreeing'
<1> USE DEF prepared, running, public, At, Goto
<1>0. deploy \in Deployment
  BY DEF Fitting, TypeOK
<1>1. CASE \/ \E o \in Options :
                 \/ \E n \in Target : DeployFqdn(n, o[1], o[2])
                 \/ \E d \in Moved : DeployDomain(d, o[1], o[2])
           \/ RunInstaller
  <2>1. stage' \in {"patch", "keys"} /\ deploy'.ready = FALSE
    BY <1>1 DEF DeployFqdn, DeployDomain, RunInstaller, Begin
  <2> QED BY <2>1, NotReadyYet
<1>2. CASE Dies \/ Reboot \/ Tears \/ Edit \/ StoreCredentials \/ Sync
  <2>1. Forgotten
    BY <1>2 DEF Dies, Reboot, Tears, Edit, StoreCredentials, Sync
  <2>2. stage' = "idle" /\ deploy'.ready = FALSE
    BY <2>1 DEF Forgotten, NoDeployment
  <2> QED BY <2>2, NotReadyYet
<1>3. CASE Patch \/ Refused \/ StepFails \/ Rollback
  <2>1. /\ stage # "done" /\ deploy' = deploy
        /\ stage' \in {"keys", "rollback", "failed"}
    BY <1>3 DEF Patch, Refused, StepFails, Rollback, Failed, Installing
  <2>2. deploy.ready = FALSE
    BY <1>0, <2>1 DEF Agreeing, Deployment
  <2> QED BY <2>1, <2>2, NotReadyYet
<1>4. CASE PrepareKeys
  <2> DEFINE k == IF keys.private = Absent THEN 1 ELSE keys.private
  <2>1. keys' = [private |-> k, public |-> k] /\ k \in PrivateKey
        /\ stage' = "wg_config" /\ deploy' = deploy /\ stage # "done"
    BY <1>4 DEF PrepareKeys, Fitting, TypeOK, PrivateKey
  <2> HIDE DEF k
  <2>2. keys'.private = k /\ keys'.public = k
    BY <2>1
  <2> QED BY <2>1, <2>2 DEF Agreeing, SuccessMeansAgreement
<1>5. CASE \/ EnsureWireguardConfig \/ EnsureEnvironment \/ ValidateDns
           \/ InitializeRegistry
  <2>1. /\ stage' \in {"environment", "validate", "registry", "dns"}
        /\ stage \in KeyedStages /\ UNCHANGED <<keys, deploy>>
        /\ stage # "done"
    BY <1>5 DEF EnsureWireguardConfig, EnsureEnvironment, ValidateDns,
       InitializeRegistry, KeyedStages
  <2> QED BY <2>1 DEF Agreeing, SuccessMeansAgreement
<1>6. CASE InitializeDns
  <2>1. /\ stage' = "services" /\ UNCHANGED <<keys, deploy, file>>
        /\ stage = "dns" /\ zone' = Synchronized(file)
    BY <1>6 DEF InitializeDns
  <2>2. \/ Settings(file).provider = "none"
        \/ OperationalNames(file) \subseteq zone'
    BY <2>1 DEF Synchronized
  <2>3. (Settings(file).provider)' = Settings(file).provider
        /\ OperationalNames(file)' = OperationalNames(file)
    BY <2>1 DEF Settings, Value, Has, LinesOf, OperationalNames
  <2> QED BY <2>1, <2>2, <2>3 DEF Agreeing, SuccessMeansAgreement, KeyedStages
<1>7. ASSUME UNCHANGED <<file, credentials>>
      PROVE  /\ Settings(file)' = Settings(file)
             /\ OperationalNames(file)' = OperationalNames(file)
             /\ Started(file)' = Started(file)
  BY <1>7 DEF Settings, Value, Has, LinesOf, OperationalNames, Started,
     DnsValid
<1>8. CASE EnableServices
  <2>1. /\ stage' \in {"done", "check", "expose"} /\ stage = "services"
        /\ UNCHANGED <<keys, deploy, file, credentials, zone>>
        /\ service' = Started(file)
    BY <1>0, <1>8 DEF EnableServices, AfterInstaller, Deployment
  <2> QED BY <1>0, <1>7, <2>1 DEF Agreeing, SuccessMeansAgreement, KeyedStages,
             Deployment
<1>9. CASE Expose
  <2>1. /\ stage' = "check" /\ stage = "expose"
        /\ UNCHANGED <<keys, deploy, file, credentials, service>>
        /\ zone \subseteq zone'
    BY <1>9 DEF Expose
  <2> QED BY <1>0, <1>7, <2>1 DEF Agreeing, SuccessMeansAgreement, KeyedStages
<1>10. CASE Check
  <2>1. /\ stage' = "done" /\ stage = "check"
        /\ UNCHANGED <<keys, file, credentials, service, link, site, zone>>
        /\ deploy' = [deploy EXCEPT !.ready = Ready]
    BY <1>10 DEF Check
  <2>2. deploy'.kind = deploy.kind /\ deploy'.target = deploy.target
        /\ deploy'.dns = deploy.dns /\ deploy'.ready = Ready
    BY <1>0, <2>1 DEF Deployment
  <2>3. SuccessMeansAgreement'
    BY <1>7, <2>1, <2>2, ReadyAgrees DEF SuccessMeansAgreement
  <2> QED BY <2>1, <2>3 DEF Agreeing, KeyedStages
<1>11. CASE CheckFails
  <2>1. stage' = "done" /\ stage = "check" /\ UNCHANGED deploy
    BY <1>11 DEF CheckFails
  <2> QED BY <1>0, <2>1 DEF Agreeing, SuccessMeansAgreement, KeyedStages,
             Deployment
<1>12. CASE UNCHANGED vars
  <2>1. UNCHANGED <<file, keys, credentials, link, service, zone, site, stage,
                    deploy>>
    BY <1>12 DEF vars
  <2> QED BY <1>7, <2>1 DEF Agreeing, SuccessMeansAgreement
<1> QED BY <1>1, <1>2, <1>3, <1>4, <1>5, <1>6, <1>8, <1>9, <1>10, <1>11, <1>12
        DEF Next, Proceeds

(***************************************************************************)
(* SuccessMeansAgreement for every instance, wherever earlier deployments  *)
(* failed or died, and whatever the operator wrote since.                  *)
(***************************************************************************)
THEOREM SuccessAlwaysMeansAgreement == Spec => []SuccessMeansAgreement
<1>1. Init => OneKey
  BY MarkersAreNoKeys DEF Init, InterfaceSetUp, OneKey
<1>2. Init => Agreeing
  BY DEF Init, NoDeployment, Agreeing, SuccessMeansAgreement, KeyedStages, At
<1>3. Agreeing => SuccessMeansAgreement
  BY DEF Agreeing
<1> QED BY <1>1, <1>2, <1>3, FittingInitially, FittingStep, OneKeyStep,
           AgreeingStep, PTL DEF Spec
=============================================================================
