--------------------------- MODULE RegistryProofs ---------------------------
(***************************************************************************)
(* Proofs about Registry, for every set of devices, keys and addresses;    *)
(* counting the tokens needs them to be finitely many.                     *)
(***************************************************************************)
EXTENDS Registry, FiniteSetTheorems, TLAPS

(***************************************************************************)
(* Both tables stay well-typed: every row has a key, an address of the     *)
(* network and an enabled flag, every token a state and a scope.           *)
(***************************************************************************)
LEMMA TypeStep == TypeOK /\ [Next]_registryVars => TypeOK'
<1> SUFFICES ASSUME TypeOK, [Next]_registryVars PROVE TypeOK'
  OBVIOUS
<1> USE DEF TypeOK, Row, TokenRow, TokenState
<1>1. ASSUME NEW t \in Token, NEW s \in Device \cup {AnyDevice},
             CreateToken(t, s)
      PROVE  TypeOK'
  BY <1>1 DEF CreateToken
<1>2. ASSUME NEW t \in Token, ExpireToken(t) PROVE TypeOK'
  BY <1>2 DEF ExpireToken
<1>3. ASSUME NEW d \in Device, NEW k \in Key, NEW t \in Token,
             Register(d, k, t)
      PROVE  TypeOK'
  <2>1. PICK a \in Address :
           devices' = [devices EXCEPT
                         ![d] = [key |-> k, address |-> a, enabled |-> TRUE]]
    BY <1>3 DEF Register, FreeAddresses
  <2>2. devices' \in [Device -> Row \cup {NoRow}]
    BY <2>1
  <2>3. tokens' \in [Token -> TokenRow]
    BY <1>3 DEF Register, Consume
  <2> QED BY <2>2, <2>3
<1>4. ASSUME NEW d \in Device, NEW k \in Key, NEW t \in Token,
             Reenroll(d, k, t)
      PROVE  TypeOK'
  BY <1>4 DEF Reenroll, Consume
<1>5. ASSUME NEW d \in Device, Revoke(d) PROVE TypeOK'
  <2>1. devices[d] \in Row
    BY <1>5 DEF Revoke, Registered
  <2>2. [devices[d] EXCEPT !.enabled = FALSE] \in Row
    BY <2>1
  <2> QED BY <1>5, <2>2 DEF Revoke
<1>6. CASE UNCHANGED registryVars
  BY <1>6 DEF registryVars
<1> QED BY <1>1, <1>2, <1>3, <1>4, <1>5, <1>6 DEF Next

THEOREM TypeCorrect == Spec => []TypeOK
<1>1. Init => TypeOK
  BY DEF Init, TypeOK, TokenRow, TokenState
<1> QED BY <1>1, TypeStep, PTL DEF Spec

-----------------------------------------------------------------------------
(***************************************************************************)
(* A revocation rewrites a row without touching its key or address, and    *)
(* registers or forgets no device.                                         *)
(***************************************************************************)
LEMMA RevokeKeepsRows ==
    ASSUME TypeOK, NEW d \in Device, Revoke(d)
    PROVE  /\ RegisteredDevices' = RegisteredDevices
           /\ \A e \in RegisteredDevices :
                 /\ devices'[e].key = devices[e].key
                 /\ devices'[e].address = devices[e].address
                 /\ devices'[e].enabled => devices[e].enabled
<1>1. devices[d] \in Row /\ [devices[d] EXCEPT !.enabled = FALSE] \in Row
  BY DEF TypeOK, Row, Revoke, Registered
<1>2. \A e \in Device : devices'[e] =
         IF e = d THEN [devices[d] EXCEPT !.enabled = FALSE] ELSE devices[e]
  BY DEF TypeOK, Revoke
<1>3. Row \cap {NoRow} = {}
  BY NoRowIsDistinct DEF Row
<1>4. \A e \in Device : Registered(e)' <=> Registered(e)
  BY <1>1, <1>2, <1>3 DEF Registered
<1>5. RegisteredDevices' = RegisteredDevices
  BY <1>4 DEF RegisteredDevices
<1> QED BY <1>1, <1>2, <1>5 DEF RegisteredDevices, Row

(***************************************************************************)
(* A first enrollment adds one row, whose key and address nobody has.      *)
(***************************************************************************)
LEMMA RegisterAddsRow ==
    ASSUME TypeOK, NEW d \in Device, NEW k \in Key, NEW t \in Token,
           Register(d, k, t)
    PROVE  \E a \in FreeAddresses :
              /\ RegisteredDevices' = RegisteredDevices \cup {d}
              /\ devices'[d] = [key |-> k, address |-> a, enabled |-> TRUE]
              /\ \A e \in RegisteredDevices :
                    /\ e # d
                    /\ devices'[e] = devices[e]
                    /\ devices[e].key # k
                    /\ devices[e].address # a
<1>1. PICK a \in FreeAddresses :
         devices' = [devices EXCEPT
                       ![d] = [key |-> k, address |-> a, enabled |-> TRUE]]
  BY DEF Register
<1>2. a \in Address /\ a # GatewayAddress
  BY DEF FreeAddresses
<1>3. [key |-> k, address |-> a, enabled |-> TRUE] # NoRow
  <2>1. [key |-> k, address |-> a, enabled |-> TRUE]
           \in [key : Key, address : Address, enabled : BOOLEAN]
    BY <1>2
  <2> QED BY <2>1, NoRowIsDistinct
<1>4. \A e \in Device : devices'[e] =
         IF e = d THEN [key |-> k, address |-> a, enabled |-> TRUE]
                  ELSE devices[e]
  BY <1>1 DEF TypeOK
<1>5. RegisteredDevices' = RegisteredDevices \cup {d}
  BY <1>3, <1>4 DEF RegisteredDevices, Registered
<1>6. d \notin RegisteredDevices
  BY DEF Register, RegisteredDevices
<1>7. \A e \in RegisteredDevices : devices[e].key # k
  BY DEF Register, KeyOwners
<1>8. \A e \in RegisteredDevices : devices[e].address # a
  BY DEF FreeAddresses, TakenAddresses
<1> QED BY <1>4, <1>5, <1>6, <1>7, <1>8 DEF RegisteredDevices

-----------------------------------------------------------------------------
(***************************************************************************)
(* No two devices share a key or an address, and none has the gateway's    *)
(* address: allocation counts the addresses of revoked rows as taken.      *)
(***************************************************************************)
LEMMA IdentitiesStep ==
    TypeOK /\ IdentitiesDistinct /\ [Next]_registryVars => IdentitiesDistinct'
<1> SUFFICES ASSUME TypeOK, IdentitiesDistinct, [Next]_registryVars
             PROVE  IdentitiesDistinct'
  OBVIOUS
<1>1. ASSUME UNCHANGED devices PROVE IdentitiesDistinct'
  BY <1>1 DEF IdentitiesDistinct, RegisteredDevices, Registered
<1>2. ASSUME NEW d \in Device, NEW k \in Key, NEW t \in Token,
             Register(d, k, t)
      PROVE  IdentitiesDistinct'
  <2>1. PICK a \in FreeAddresses :
           /\ RegisteredDevices' = RegisteredDevices \cup {d}
           /\ devices'[d] = [key |-> k, address |-> a, enabled |-> TRUE]
           /\ \A e \in RegisteredDevices :
                 /\ e # d
                 /\ devices'[e] = devices[e]
                 /\ devices[e].key # k
                 /\ devices[e].address # a
    BY <1>2, RegisterAddsRow
  <2>2. a # GatewayAddress
    BY DEF FreeAddresses
  <2> QED BY <2>1, <2>2 DEF IdentitiesDistinct
<1>3. ASSUME NEW d \in Device, Revoke(d) PROVE IdentitiesDistinct'
  BY <1>3, RevokeKeepsRows DEF IdentitiesDistinct
<1> QED BY <1>1, <1>2, <1>3
        DEF Next, CreateToken, ExpireToken, Reenroll, registryVars

THEOREM IdentitiesAlwaysDistinct == Spec => []IdentitiesDistinct
<1>1. Init => IdentitiesDistinct
  BY DEF Init, IdentitiesDistinct, RegisteredDevices, Registered
<1> QED BY <1>1, TypeCorrect, IdentitiesStep, PTL DEF Spec
-----------------------------------------------------------------------------
(***************************************************************************)
(* Consuming an admitted token adds exactly that token to the consumed     *)
(* ones; no other change of the two tables takes a token away from them.   *)
(***************************************************************************)
LEMMA ConsumeAddsToken ==
    ASSUME TypeOK, NEW d \in Device, NEW t \in Token, TokenAdmits(t, d),
           Consume(t)
    PROVE  /\ ConsumedTokens' = ConsumedTokens \cup {t}
           /\ t \notin ConsumedTokens
<1>1. \A u \in Token : tokens'[u].state =
         IF u = t THEN "consumed" ELSE tokens[u].state
  BY DEF TypeOK, TokenRow, Consume
<1> QED BY <1>1 DEF ConsumedTokens, TokenAdmits

LEMMA ConsumedKept ==
    ASSUME TypeOK,
           \/ \E t \in Token, s \in Device \cup {AnyDevice} : CreateToken(t, s)
           \/ \E t \in Token : ExpireToken(t)
    PROVE  ConsumedTokens' = ConsumedTokens
<1>1. ASSUME NEW t \in Token, NEW s \in Device \cup {AnyDevice},
             CreateToken(t, s)
      PROVE  ConsumedTokens' = ConsumedTokens
  <2>1. \A u \in Token : tokens'[u] =
           IF u = t THEN [state |-> "fresh", scope |-> s] ELSE tokens[u]
    BY <1>1 DEF TypeOK, CreateToken
  <2> QED BY <1>1, <2>1 DEF ConsumedTokens, CreateToken
<1>2. ASSUME NEW t \in Token, ExpireToken(t)
      PROVE  ConsumedTokens' = ConsumedTokens
  <2>1. \A u \in Token : tokens'[u].state =
           IF u = t THEN "expired" ELSE tokens[u].state
    BY <1>2 DEF TypeOK, TokenRow, ExpireToken
  <2> QED BY <1>2, <2>1 DEF ConsumedTokens, ExpireToken
<1> QED BY <1>1, <1>2

(***************************************************************************)
(* There are never more registered devices than consumed tokens.  The      *)
(* counting is by sets: a first enrollment adds one device and one token,  *)
(* a repeated one adds a token, and nothing takes a token back.            *)
(***************************************************************************)
PaidInv ==
    /\ IsFiniteSet(RegisteredDevices)
    /\ DevicesPaidFor

LEMMA PaidStep ==
    ASSUME IsFiniteSet(Token)
    PROVE  TypeOK /\ PaidInv /\ [Next]_registryVars => PaidInv'
<1> SUFFICES ASSUME TypeOK, PaidInv, [Next]_registryVars PROVE PaidInv'
  OBVIOUS
<1> USE DEF PaidInv, DevicesPaidFor
<1>1. /\ IsFiniteSet(ConsumedTokens)
      /\ Cardinality(ConsumedTokens) \in Nat
      /\ Cardinality(RegisteredDevices) \in Nat
  BY FS_Subset, FS_CardinalityType DEF ConsumedTokens
<1>2. ASSUME RegisteredDevices' = RegisteredDevices,
             ConsumedTokens' = ConsumedTokens
      PROVE  PaidInv'
  BY <1>2
<1>3. ASSUME UNCHANGED devices PROVE RegisteredDevices' = RegisteredDevices
  BY <1>3 DEF RegisteredDevices, Registered
<1>4. ASSUME NEW t \in Token, NEW d \in Device, TokenAdmits(t, d), Consume(t)
      PROVE  Cardinality(ConsumedTokens') = Cardinality(ConsumedTokens) + 1
  BY <1>1, <1>4, ConsumeAddsToken, FS_AddElement
<1>5. ASSUME NEW d \in Device, NEW k \in Key, NEW t \in Token,
             Register(d, k, t)
      PROVE  PaidInv'
  <2>1. RegisteredDevices' = RegisteredDevices \cup {d}
    BY <1>5, RegisterAddsRow
  <2>2. d \notin RegisteredDevices
    BY <1>5 DEF Register, RegisteredDevices
  <2>3. /\ IsFiniteSet(RegisteredDevices')
        /\ Cardinality(RegisteredDevices') = Cardinality(RegisteredDevices) + 1
    BY <2>1, <2>2, FS_AddElement
  <2>4. Cardinality(ConsumedTokens') = Cardinality(ConsumedTokens) + 1
    BY <1>4, <1>5 DEF Register
  <2> QED BY <1>1, <2>3, <2>4
<1>6. ASSUME NEW d \in Device, NEW k \in Key, NEW t \in Token,
             Reenroll(d, k, t)
      PROVE  PaidInv'
  <2>1. RegisteredDevices' = RegisteredDevices
    BY <1>3, <1>6 DEF Reenroll
  <2>2. Cardinality(ConsumedTokens') = Cardinality(ConsumedTokens) + 1
    BY <1>4, <1>6 DEF Reenroll
  <2> QED BY <1>1, <2>1, <2>2
<1>7. ASSUME NEW d \in Device, Revoke(d) PROVE PaidInv'
  <2>1. RegisteredDevices' = RegisteredDevices
    BY <1>7, RevokeKeepsRows
  <2>2. ConsumedTokens' = ConsumedTokens
    BY <1>7 DEF Revoke, ConsumedTokens
  <2> QED BY <1>2, <2>1, <2>2
<1>8. CASE UNCHANGED registryVars
  <2>1. ConsumedTokens' = ConsumedTokens
    BY <1>8 DEF registryVars, ConsumedTokens
  <2> QED BY <1>2, <1>3, <1>8, <2>1 DEF registryVars
<1>9. CASE \/ \E t \in Token, s \in Device \cup {AnyDevice} : CreateToken(t, s)
           \/ \E t \in Token : ExpireToken(t)
  BY <1>2, <1>3, <1>9, ConsumedKept DEF CreateToken, ExpireToken
<1> QED BY <1>5, <1>6, <1>7, <1>8, <1>9 DEF Next

THEOREM AllDevicesPaidFor ==
    ASSUME IsFiniteSet(Token) PROVE Spec => []DevicesPaidFor
<1>1. Init => PaidInv
  <2> SUFFICES ASSUME Init PROVE PaidInv
    OBVIOUS
  <2>1. RegisteredDevices = {} /\ ConsumedTokens = {}
    BY DEF Init, RegisteredDevices, Registered, ConsumedTokens
  <2> QED BY <2>1, FS_EmptySet DEF PaidInv, DevicesPaidFor
<1>2. TypeOK /\ PaidInv /\ [Next]_registryVars => PaidInv'
  BY PaidStep
<1> QED BY <1>1, <1>2, TypeCorrect, PTL DEF Spec, PaidInv

-----------------------------------------------------------------------------
(***************************************************************************)
(* Rows keep their identity, revoked devices stay revoked and consumed     *)
(* tokens stay consumed, whatever enrollment or command is committed.      *)
(***************************************************************************)
LEMMA HistoryStep ==
    TypeOK /\ [Next]_registryVars =>
       [/\ \A d \in Device : KeepsIdentity(d)
        /\ ConsumedTokens \subseteq ConsumedTokens']_registryVars
<1> SUFFICES ASSUME TypeOK, Next
             PROVE  /\ \A d \in Device : KeepsIdentity(d)
                    /\ ConsumedTokens \subseteq ConsumedTokens'
  OBVIOUS
<1>1. ASSUME UNCHANGED devices PROVE \A d \in Device : KeepsIdentity(d)
  BY <1>1 DEF KeepsIdentity, Registered
<1>2. ASSUME NEW d \in Device, NEW k \in Key, NEW t \in Token,
             Register(d, k, t)
      PROVE  /\ \A e \in Device : KeepsIdentity(e)
             /\ ConsumedTokens \subseteq ConsumedTokens'
  <2>1. \A e \in RegisteredDevices : devices'[e] = devices[e]
    BY <1>2, RegisterAddsRow
  <2>2. ConsumedTokens \subseteq ConsumedTokens'
    BY <1>2, ConsumeAddsToken DEF Register
  <2> QED BY <2>1, <2>2 DEF KeepsIdentity, RegisteredDevices, Registered
<1>3. ASSUME NEW d \in Device, NEW k \in Key, NEW t \in Token,
             Reenroll(d, k, t)
      PROVE  /\ \A e \in Device : KeepsIdentity(e)
             /\ ConsumedTokens \subseteq ConsumedTokens'
  BY <1>1, <1>3, ConsumeAddsToken DEF Reenroll
<1>4. ASSUME NEW d \in Device, Revoke(d)
      PROVE  /\ \A e \in Device : KeepsIdentity(e)
             /\ ConsumedTokens \subseteq ConsumedTokens'
  <2>1. ConsumedTokens' = ConsumedTokens
    BY <1>4 DEF Revoke, ConsumedTokens
  <2> QED BY <1>4, <2>1, RevokeKeepsRows
          DEF KeepsIdentity, RegisteredDevices, Registered
<1>5. CASE \/ \E t \in Token, s \in Device \cup {AnyDevice} : CreateToken(t, s)
           \/ \E t \in Token : ExpireToken(t)
  BY <1>1, <1>5, ConsumedKept DEF CreateToken, ExpireToken
<1> QED BY <1>2, <1>3, <1>4, <1>5 DEF Next

THEOREM HistoryAlwaysFinal == Spec => HistoryIsFinal
<1> QED BY TypeCorrect, HistoryStep, PTL DEF Spec, HistoryIsFinal
=============================================================================
