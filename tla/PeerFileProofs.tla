--------------------------- MODULE PeerFileProofs ---------------------------
(***************************************************************************)
(* Proofs about PeerFile.  The allocation of addresses, for networks of    *)
(* every size and every set of networks that peers written by hand claim,  *)
(* whatever text the file was left with; that the managed blocks and the   *)
(* enabled rows say the same until a line is cut; and that enrollment and  *)
(* revocation leave the lines that stand in no block as they were, however *)
(* many devices, peers and cuts there are.  Nothing here is an induction   *)
(* over the lines of a text: the lines that stripping a block leaves are   *)
(* described by PickedBy, an enumeration of positions in their order.      *)
(***************************************************************************)
EXTENDS PeerFile, WellFoundedInduction, FiniteSetTheorems,
        SequenceTheorems, TLAPS

(***************************************************************************)
(* There is a first free address whenever one is free.                     *)
(***************************************************************************)
LEMMA LowestIsOne ==
    ASSUME NEW S \in SUBSET Nat, S # {}
    PROVE  Lowest(S) \in S
<1> DEFINE less == {ss \in Nat \X Nat : ss[1] < ss[2]}
<1>1. IsWellFoundedOn(less, Nat)
  BY NatLessThanWellFounded DEF OpToRel
<1>2. PICK a \in S : \A b \in S : ~(<<b, a>> \in less)
  BY <1>1, WFMin
<1>3. \A b \in S : a <= b
  <2>1. \A x, y \in Nat : x < y => <<x, y>> \in less
    OBVIOUS
  <2>2. \A b \in S : ~(b < a)
    <3> HIDE DEF less
    <3> QED BY <1>2, <2>1
  <2> QED BY <2>2
<1>4. \E x \in S : \A b \in S : x <= b
  BY <1>3
<1> HIDE DEF less
<1> QED BY <1>4 DEF Lowest

(***************************************************************************)
(* The network has addresses and every device a place for its row.         *)
(***************************************************************************)
Places ==
    /\ network \subseteq Nat
    /\ DOMAIN rows = Device

LEMMA PlacesKept ==
    ASSUME Places, [Next]_vars
    PROVE  Places'
<1>1. CASE UNCHANGED <<network, rows>>
  BY <1>1 DEF Places
<1>2. ASSUME NEW d \in Device, NEW k \in Key, Enroll(d, k)
      PROVE  Places'
  BY <1>2 DEF Enroll, Places
<1>3. ASSUME NEW d \in Device, Revoke(d)
      PROVE  Places'
  BY <1>3 DEF Revoke, Places
<1> QED BY <1>1, <1>2, <1>3 DEF Next, EnsureAgain, WritePeer, CutLine, vars

(***************************************************************************)
(* What is free is reserved by nobody: the row, the gateway, the ends of   *)
(* the network, and whatever the text claims.                              *)
(***************************************************************************)
LEMMA FreeIsUnclaimed ==
    ASSUME NEW a \in Free
    PROVE  /\ a \in network \ {0, Broadcast, gateway}
           /\ \A e \in Device : rows[e] # NoOne => rows[e].address # a
           /\ \A i \in DOMAIN text, s \in DOMAIN text :
                (/\ text[i].is = "allowed" /\ text[i].bare
                 /\ text[s].is = "peer" /\ s < i
                 /\ \A m \in s..i : text[m].is # "interface")
                  => \A net \in text[i].of : a \notin net
<1>1. a \in Hosts /\ a \notin Reserved
  BY DEF Free
<1>2. a \in network \ {0, Broadcast, gateway}
  BY <1>1 DEF Hosts, Reserved
<1>3. \A e \in Device : rows[e] # NoOne => rows[e].address # a
  BY <1>1 DEF Reserved, Rows
<1>4. ASSUME NEW i \in DOMAIN text, NEW s \in DOMAIN text,
             text[i].is = "allowed", text[i].bare,
             text[s].is = "peer", s < i,
             \A m \in s..i : text[m].is # "interface",
             NEW net \in text[i].of
      PROVE  a \notin net
  <2>1. InPeer(text, i)
    BY <1>4 DEF InPeer
  <2>2. net \in ReservedNetworks(text)
    BY <1>4, <2>1 DEF ReservedNetworks
  <2> QED BY <1>1, <2>2 DEF Reserved
<1> QED BY <1>2, <1>3, <1>4

(***************************************************************************)
(* AllocatesAroundFile for every instance.                                 *)
(***************************************************************************)
THEOREM AlwaysAllocatesAroundFile == Spec => AllocatesAroundFile
<1> DEFINE Around ==
      \A d \in Device : rows[d] = NoOne /\ rows'[d] # NoOne =>
         LET a == rows'[d].address
         IN /\ a \in network \ {0, Broadcast, gateway}
            /\ \A e \in Device : rows[e] # NoOne => rows[e].address # a
            /\ \A i \in DOMAIN text, s \in DOMAIN text :
                 (/\ text[i].is = "allowed" /\ text[i].bare
                  /\ text[s].is = "peer" /\ s < i
                  /\ \A m \in s..i : text[m].is # "interface")
                   => \A net \in text[i].of : a \notin net
<1>1. Init => Places
  <2>1. \A n \in Sizes : 0..n - 1 \subseteq Nat
    BY PeerFileConstants
  <2> QED BY <2>1 DEF Init, Places
<1>2. Places /\ [Next]_vars => Places'
  BY PlacesKept
<1>3. Places /\ [Next]_vars => [Around]_vars
  <2> SUFFICES ASSUME Places, [Next]_vars, NEW d \in Device,
                      rows[d] = NoOne, rows'[d] # NoOne
               PROVE  rows'[d].address \in Free
    BY FreeIsUnclaimed
  <2>1. rows' # rows
    OBVIOUS
  <2>2. ASSUME NEW e \in Device, Revoke(e)
        PROVE  FALSE
    <3>1. rows[e] # NoOne /\ rows'[d] = rows[d]
      BY <2>2 DEF Revoke, Places
    <3> QED BY <3>1
  <2>3. PICK e \in Device, k \in Key : Enroll(e, k)
    BY <2>1, <2>2 DEF Next, EnsureAgain, WritePeer, CutLine, vars
  <2>4. rows' = [rows EXCEPT ![e] = [key |-> k, address |-> Lowest(Free),
                                     enabled |-> TRUE]]
    BY <2>3 DEF Enroll
  <2>5. d = e /\ rows'[d].address = Lowest(Free)
    BY <2>4 DEF Places
  <2>6. Free \subseteq Nat /\ Free # {}
    BY <2>3 DEF Enroll, Free, Hosts, Places
  <2> QED BY <2>5, <2>6, LowestIsOne
<1> QED BY <1>1, <1>2, <1>3, PTL DEF Spec, AllocatesAroundFile

-----------------------------------------------------------------------------
(***************************************************************************)
(* Picking lines.  The text t is picked from s, each of the lines at the   *)
(* positions S once and in their order, h saying where each was.           *)
(***************************************************************************)
PickedBy(h, t, s, S) ==
    /\ h \in [DOMAIN t -> S]
    /\ \A i, j \in DOMAIN t : i < j => h[i] < h[j]
    /\ \A x \in S : \E i \in DOMAIN t : h[i] = x
    /\ \A i \in DOMAIN t : t[i] = s[h[i]]

UpTo(S, i) == {j \in S : j <= i}
Rank(S, i) == Cardinality(UpTo(S, i))

(***************************************************************************)
(* In a finite set of numbers each rank up to its cardinality is that of   *)
(* exactly one number, and ranks are ordered as the numbers are.           *)
(***************************************************************************)
LEMMA Ranks ==
    ASSUME NEW S \in SUBSET Nat, IsFiniteSet(S)
    PROVE  /\ Cardinality(S) \in Nat
           /\ \A i \in S : Rank(S, i) \in 1..Cardinality(S)
           /\ \A i, j \in S : i < j => Rank(S, i) < Rank(S, j)
           /\ \A n \in 1..Cardinality(S) : \E i \in S : Rank(S, i) = n
<1>1. Cardinality(S) \in Nat
  BY FS_CardinalityType
<1>2. ASSUME NEW i \in S
      PROVE  /\ UpTo(S, i) \in SUBSET S /\ i \in UpTo(S, i)
             /\ IsFiniteSet(UpTo(S, i)) /\ Rank(S, i) \in Nat
             /\ Rank(S, i) <= Cardinality(S)
  <2>1. UpTo(S, i) \in SUBSET S /\ i \in UpTo(S, i)
    BY DEF UpTo
  <2> QED BY <2>1, FS_Subset, FS_CardinalityType DEF Rank
<1>3. ASSUME NEW i \in S PROVE Rank(S, i) # 0
  BY <1>2, <1>3, FS_EmptySet DEF Rank
<1>4. ASSUME NEW i \in S, NEW j \in S, i < j
      PROVE  Rank(S, i) < Rank(S, j)
  <2>0. i \in Nat /\ j \in Nat /\ S \subseteq Nat
    OBVIOUS
  <2>1. UpTo(S, i) \in SUBSET UpTo(S, j) /\ j \notin UpTo(S, i)
    <3>1. \A x \in Nat : x <= i => x <= j
      BY <1>4, <2>0
    <3>2. ~(j <= i)
      BY <1>4, <2>0
    <3> QED BY <2>0, <3>1, <3>2 DEF UpTo
  <2>2. UpTo(S, i) # UpTo(S, j)
    BY <1>2, <2>1
  <2>3. Rank(S, i) <= Rank(S, j) /\ Rank(S, i) # Rank(S, j)
    BY <1>2, <2>1, <2>2, FS_Subset DEF Rank
  <2> QED BY <1>2, <2>3
<1>5. \A n \in 1..Cardinality(S) : \E i \in S : Rank(S, i) = n
  <2> DEFINE N == 1..Cardinality(S)
             r == [i \in S |-> Rank(S, i)]
  <2>1. IsFiniteSet(N) /\ Cardinality(N) = Cardinality(S)
    BY <1>1, FS_Interval
  <2>2. r \in [S -> N]
    BY <1>1, <1>2, <1>3
  <2>3. \A i, j \in S : r[i] = r[j] => i = j
    BY <1>2, <1>4
  <2>4. r \in Injection(S, N)
    BY <2>2, <2>3 DEF Injection, IsInjective
  <2>5. r \in Surjection(S, N)
    BY <2>1, <2>4, FS_Injection
  <2> QED BY <2>5 DEF Surjection
<1> QED BY <1>1, <1>2, <1>3, <1>4, <1>5

(***************************************************************************)
(* LinesAt picks the lines at the positions it is given.                   *)
(***************************************************************************)
LEMMA LinesArePicked ==
    ASSUME NEW s, NEW S \in SUBSET Nat, IsFiniteSet(S)
    PROVE  /\ DOMAIN LinesAt(s, S) = 1..Cardinality(S)
           /\ \E h : PickedBy(h, LinesAt(s, S), s, S)
<1> DEFINE N == 1..Cardinality(S)
           h == [n \in N |-> CHOOSE i \in S : Rank(S, i) = n]
           t == LinesAt(s, S)
<1>1. DOMAIN t = N /\ \A n \in N : t[n] = s[h[n]]
  BY DEF LinesAt, Rank, UpTo
<1>2. \A n \in N : h[n] \in S /\ Rank(S, h[n]) = n
  BY Ranks
<1>3. h \in [N -> S]
  BY <1>2
<1>4. \A m, n \in N : m < n => h[m] < h[n]
  <2> SUFFICES ASSUME NEW m \in N, NEW n \in N, m < n, ~(h[m] < h[n])
               PROVE  FALSE
    OBVIOUS
  <2>1. h[m] \in Nat /\ h[n] \in Nat
    BY <1>2
  <2>2. h[m] = h[n] \/ h[n] < h[m]
    BY <2>1
  <2>3. Rank(S, h[n]) = Rank(S, h[m]) \/ Rank(S, h[n]) < Rank(S, h[m])
    BY <1>2, <2>2, Ranks
  <2> QED BY <1>2, <2>3
<1>5. \A x \in S : \E n \in N : h[n] = x
  <2> SUFFICES ASSUME NEW x \in S PROVE h[Rank(S, x)] = x
    BY Ranks
  <2>1. Rank(S, x) \in N
    BY Ranks
  <2>2. /\ h[Rank(S, x)] \in S
        /\ Rank(S, h[Rank(S, x)]) = Rank(S, x)
    BY <1>2, <2>1
  <2> QED BY <2>2, Ranks
<1>6. PickedBy(h, t, s, S)
  BY <1>1, <1>3, <1>4, <1>5 DEF PickedBy
<1> QED BY <1>1, <1>6

(***************************************************************************)
(* Picking some of the lines of t is picking them from where t has them.   *)
(***************************************************************************)
LEMMA PickedAlike ==
    ASSUME NEW s, NEW t, NEW S \in SUBSET Nat, NEW h,
           PickedBy(h, t, s, S), DOMAIN t \subseteq Nat,
           NEW T \in SUBSET DOMAIN t, IsFiniteSet(T),
           NEW U \in SUBSET S, \A i \in DOMAIN t : i \in T <=> h[i] \in U
    PROVE  LinesAt(t, T) = LinesAt(s, U)
<1> DEFINE g == [i \in T |-> h[i]]
<1>1. /\ g \in [T -> U]
      /\ \A i, j \in T : i < j => g[i] < g[j]
      /\ \A x \in U : \E i \in T : g[i] = x
  BY DEF PickedBy
<1>0. \A i, j \in T : j <= i <=> g[j] <= g[i]
  <2> SUFFICES ASSUME NEW i \in T, NEW j \in T
               PROVE  j <= i <=> g[j] <= g[i]
    OBVIOUS
  <2>1. {i, j, g[i], g[j]} \subseteq Nat
    BY <1>1
  <2>2. /\ i < j => g[i] < g[j]
        /\ j < i => g[j] < g[i]
        /\ i = j => g[i] = g[j]
    BY <1>1
  <2> HIDE DEF g
  <2> QED BY <2>1, <2>2
<1>2. ASSUME NEW A \in SUBSET T
      PROVE  LET B == {g[i] : i \in A}
             IN  IsFiniteSet(B) /\ Cardinality(B) = Cardinality(A)
  <2> DEFINE B == {g[i] : i \in A}
             f == [i \in A |-> g[i]]
  <2>1. IsFiniteSet(A)
    BY FS_Subset
  <2>2. f \in Surjection(A, B)
    BY DEF Surjection
  <2>3. \A i, j \in A : f[i] = f[j] => i = j
    <3> SUFFICES ASSUME NEW i \in A, NEW j \in A, g[i] = g[j]
                 PROVE  i = j
      OBVIOUS
    <3>1. {i, j, g[i]} \subseteq Nat
      BY <1>1
    <3>2. j <= i /\ i <= j
      BY <1>0, <3>1
    <3> QED BY <3>1, <3>2
  <2>4. f \in Injection(A, B)
    BY <2>3 DEF Injection, IsInjective
  <2> QED BY <2>1, <2>2, <2>4, FS_Surjection
<1>3. {g[i] : i \in T} = U
  BY <1>1
<1>4. IsFiniteSet(U) /\ Cardinality(U) = Cardinality(T)
  BY <1>2, <1>3
<1>5. ASSUME NEW i \in T PROVE Rank(U, g[i]) = Rank(T, i)
  <2>1. UpTo(U, g[i]) = {g[j] : j \in UpTo(T, i)}
    <3>1. \A x : x \in UpTo(U, g[i]) <=>
                 \E j \in T : x = g[j] /\ j <= i
      <4> HIDE DEF g
      <4>1. \A x \in U : \E j \in T : x = g[j]
        BY <1>1
      <4>2. \A j \in T : g[j] \in U
        BY <1>1
      <4>3. \A j \in T : j <= i <=> g[j] <= g[i]
        BY <1>0
      <4> QED BY <4>1, <4>2, <4>3 DEF UpTo
    <3>2. \A x : x \in {g[j] : j \in UpTo(T, i)} <=>
                 \E j \in T : x = g[j] /\ j <= i
      BY DEF UpTo
    <3> QED BY <3>1, <3>2
  <2>2. UpTo(T, i) \in SUBSET T
    BY DEF UpTo
  <2> QED BY <1>2, <2>1, <2>2 DEF Rank
<1>6. ASSUME NEW n \in 1..Cardinality(T)
      PROVE  t[CHOOSE i \in T : Rank(T, i) = n]
                = s[CHOOSE x \in U : Rank(U, x) = n]
  <2> DEFINE i == CHOOSE j \in T : Rank(T, j) = n
             x == CHOOSE y \in U : Rank(U, y) = n
  <2>1. i \in T /\ Rank(T, i) = n
    BY Ranks
  <2>2. x \in U /\ Rank(U, x) = n
    BY <1>4, Ranks
  <2>3. Rank(U, g[i]) = n /\ g[i] \in U
    BY <1>1, <1>5, <2>1
  <2>4. g[i] = x
    BY <1>4, <2>2, <2>3, Ranks
  <2> QED BY <2>1, <2>4 DEF PickedBy
<1>7. \A A, u :
         LinesAt(u, A) = [n \in 1..Cardinality(A) |->
                            u[CHOOSE i \in A : Rank(A, i) = n]]
  BY DEF LinesAt, Rank, UpTo
<1>8. /\ LinesAt(t, T) = [n \in 1..Cardinality(T) |->
                            t[CHOOSE i \in T : Rank(T, i) = n]]
      /\ LinesAt(s, U) = [n \in 1..Cardinality(T) |->
                            s[CHOOSE i \in U : Rank(U, i) = n]]
  BY <1>4, <1>7
<1> QED BY <1>6, <1>8

-----------------------------------------------------------------------------
(***************************************************************************)
(* The text.  All that the parsers make of the lines between markers holds *)
(* because no device ever has two markers of a kind, its end follows its   *)
(* begin, and no marker stands between them, wherever lines are cut.       *)
(***************************************************************************)
Named == {NoOne} \cup Device \cup Key \cup SUBSET SUBSET Nat
AnyLine ==
    [is : {"interface", "peer", "key", "allowed", "begin", "end"},
     of : Named, bare : BOOLEAN]

Marker(line) == line.is \in {"begin", "end"}

Sole(t) ==
    \A i, j \in DOMAIN t :
       Marker(t[i]) /\ t[j].is = t[i].is /\ t[j].of = t[i].of => i = j
Closed(t) ==
    \A b, e \in DOMAIN t :
       t[b].is = "begin" /\ IsEnd(t[e], t[b].of) =>
          b < e /\ \A m \in b + 1 .. e - 1 : ~Marker(t[m])
Framed(t) == t \in Seq(AnyLine) /\ Sole(t) /\ Closed(t)

(***************************************************************************)
(* A text whose markers are some of another's, in their order, is framed   *)
(* as the other is.                                                        *)
(***************************************************************************)
LEMMA FramedAlike ==
    ASSUME NEW s, NEW t, NEW g, Framed(s), t \in Seq(AnyLine),
           \A i \in DOMAIN t :
              Marker(t[i]) => g[i] \in DOMAIN s /\ t[i] = s[g[i]],
           \A i, j \in DOMAIN t :
              i < j /\ Marker(t[i]) /\ Marker(t[j]) => g[i] < g[j]
    PROVE  Framed(t)
<1>0. /\ DOMAIN t = 1..Len(t) /\ Len(t) \in Nat
      /\ DOMAIN s = 1..Len(s) /\ Len(s) \in Nat
  BY DEF Framed
<1>1. Sole(t)
  <2> SUFFICES ASSUME NEW i \in DOMAIN t, NEW j \in DOMAIN t, Marker(t[i]),
                      t[j].is = t[i].is, t[j].of = t[i].of
               PROVE  i = j
    BY DEF Sole
  <2>1. Marker(t[j])
    BY DEF Marker
  <2>2. g[i] = g[j]
    BY <2>1 DEF Framed, Sole
  <2>3. ~(i < j) /\ ~(j < i)
    BY <1>0, <2>1, <2>2
  <2> QED BY <1>0, <2>3
<1>2. Closed(t)
  <2> SUFFICES ASSUME NEW b \in DOMAIN t, NEW e \in DOMAIN t,
                      t[b].is = "begin", IsEnd(t[e], t[b].of)
               PROVE  b < e /\ \A m \in b + 1 .. e - 1 : ~Marker(t[m])
    BY DEF Closed
  <2>1. Marker(t[b]) /\ Marker(t[e]) /\ b # e
    BY DEF Marker, IsEnd
  <2>2. /\ g[b] < g[e]
        /\ \A m \in g[b] + 1 .. g[e] - 1 : ~Marker(s[m])
    BY <2>1 DEF Framed, Closed
  <2>3. b < e
    BY <1>0, <2>1, <2>2
  <2>4. ASSUME NEW m \in b + 1 .. e - 1, Marker(t[m])
        PROVE  FALSE
    <3>1. m \in DOMAIN t /\ b < m /\ m < e
      BY <1>0, <2>4
    <3>2. g[b] < g[m] /\ g[m] < g[e]
      BY <2>1, <2>4, <3>1
    <3>3. g[m] \in g[b] + 1 .. g[e] - 1 /\ Marker(s[g[m]])
      BY <1>0, <2>1, <2>4, <3>1, <3>2
    <3> QED BY <2>2, <3>3
  <2> QED BY <2>3, <2>4
<1> QED BY <1>1, <1>2 DEF Framed

(***************************************************************************)
(* The lines that _strip_managed_block keeps.                              *)
(***************************************************************************)
Kept(s, d) == {i \in DOMAIN s : ~Inside(s, d, i) /\ ~IsEnd(s[i], d)}

LEMMA StripPicks ==
    ASSUME NEW s, NEW d, Framed(s)
    PROVE  /\ Kept(s, d) \in SUBSET Nat /\ Kept(s, d) \in SUBSET DOMAIN s
           /\ DOMAIN s \subseteq Nat
           /\ Strip(s, d) \in Seq(AnyLine)
           /\ \E h : PickedBy(h, Strip(s, d), s, Kept(s, d))
<1> DEFINE S == Kept(s, d)
           t == Strip(s, d)
<1>1. DOMAIN s = 1..Len(s) /\ Len(s) \in Nat
  BY DEF Framed
<1>2. S \in SUBSET Nat /\ S \in SUBSET DOMAIN s /\ IsFiniteSet(S)
  <2>1. S \in SUBSET DOMAIN s /\ DOMAIN s \in SUBSET Nat
    BY <1>1 DEF Kept
  <2>2. IsFiniteSet(DOMAIN s)
    BY <1>1, FS_Interval
  <2> QED BY <2>1, <2>2, FS_Subset
<1>3. t = LinesAt(s, S)
  BY DEF Strip, Kept
<1>4. PICK h : PickedBy(h, t, s, S)
  BY <1>2, <1>3, LinesArePicked
<1>5. DOMAIN t = 1..Cardinality(S) /\ Cardinality(S) \in Nat
  BY <1>2, <1>3, LinesArePicked, FS_CardinalityType
<1>6. \A i \in 1..Cardinality(S) : t[i] \in AnyLine
  BY <1>1, <1>2, <1>4, <1>5 DEF PickedBy, Framed
<1>7. t = [i \in 1..Cardinality(S) |-> t[i]]
  BY <1>3, <1>5 DEF LinesAt
<1>8. t \in Seq(AnyLine)
  BY <1>5, <1>6, <1>7
<1> QED BY <1>1, <1>2, <1>4, <1>8

(***************************************************************************)
(* These are the lines that are not within the device's block.             *)
(***************************************************************************)
LEMMA KeptIsOutside ==
    ASSUME NEW s, NEW d, Framed(s), Paired(s, d), NEW i \in DOMAIN s
    PROVE  i \notin Kept(s, d) <=>
              \E b, e \in DOMAIN s : /\ IsBegin(s[b], d) /\ IsEnd(s[e], d)
                                     /\ b <= i /\ i <= e
<1>0. DOMAIN s = 1..Len(s) /\ Len(s) \in Nat
  BY DEF Framed
<1>1. ASSUME Inside(s, d, i)
      PROVE  \E b, e \in DOMAIN s : /\ IsBegin(s[b], d) /\ IsEnd(s[e], d)
                                    /\ b <= i /\ i <= e
  <2>1. PICK b \in 1..i : /\ IsBegin(s[b], d)
                          /\ \A m \in b..i : ~IsEnd(s[m], d)
    BY <1>1 DEF Inside
  <2>2. ~Inside(s, d, Len(s)) /\ b \in 1..Len(s)
    BY <1>0 DEF Paired
  <2>3. PICK e \in b..Len(s) : IsEnd(s[e], d)
    BY <2>1, <2>2 DEF Inside
  <2>4. e \notin b..i
    BY <2>1, <2>3
  <2>5. e \in DOMAIN s /\ i <= e /\ b \in DOMAIN s /\ b <= i
    BY <1>0, <2>2, <2>3, <2>4
  <2> QED BY <2>1, <2>3, <2>5
<1>2. ASSUME IsEnd(s[i], d)
      PROVE  \E b, e \in DOMAIN s : /\ IsBegin(s[b], d) /\ IsEnd(s[e], d)
                                    /\ b <= i /\ i <= e
  <2>1. PICK b \in 1..i - 1 : IsBegin(s[b], d)
    BY <1>2 DEF Paired, Inside
  <2>2. b \in DOMAIN s /\ b <= i /\ i <= i
    BY <1>0
  <2> QED BY <1>2, <2>1, <2>2
<1>3. ASSUME NEW b \in DOMAIN s, NEW e \in DOMAIN s, IsBegin(s[b], d),
             IsEnd(s[e], d), b <= i, i <= e, ~IsEnd(s[i], d)
      PROVE  Inside(s, d, i)
  <2>1. i # e /\ i < e /\ b \in 1..i
    BY <1>0, <1>3
  <2>2. ASSUME NEW m \in b..i PROVE ~IsEnd(s[m], d)
    <3>1. m \in DOMAIN s /\ m # e
      BY <1>0, <2>1
    <3> QED BY <1>3, <3>1 DEF Framed, Sole, Marker, IsEnd
  <2> QED BY <1>3, <2>1, <2>2 DEF Inside
<1> QED BY <1>1, <1>2, <1>3 DEF Kept

(***************************************************************************)
(* No marker of the device is kept.                                        *)
(***************************************************************************)
LEMMA StrippedOff ==
    ASSUME NEW s, NEW d, Framed(s)
    PROVE  \A i \in Kept(s, d) : ~IsBegin(s[i], d) /\ ~IsEnd(s[i], d)
<1>0. DOMAIN s = 1..Len(s) /\ Len(s) \in Nat
  BY DEF Framed
<1> SUFFICES ASSUME NEW i \in DOMAIN s, IsBegin(s[i], d)
             PROVE  Inside(s, d, i)
  BY DEF Kept
<1>1. i \in 1..i /\ i..i = {i} /\ ~IsEnd(s[i], d)
  BY <1>0 DEF IsBegin, IsEnd
<1> QED BY <1>1 DEF Inside

(***************************************************************************)
(* Stripping keeps a text framed.                                          *)
(***************************************************************************)
LEMMA StripFramed ==
    ASSUME NEW s, NEW d, Framed(s)
    PROVE  Framed(Strip(s, d))
<1>1. PICK h : PickedBy(h, Strip(s, d), s, Kept(s, d))
  BY StripPicks
<1>2. \A i \in DOMAIN Strip(s, d) :
         h[i] \in DOMAIN s /\ Strip(s, d)[i] = s[h[i]]
  BY <1>1, StripPicks DEF PickedBy
<1>3. \A i, j \in DOMAIN Strip(s, d) : i < j => h[i] < h[j]
  BY <1>1 DEF PickedBy
<1> QED BY <1>2, <1>3, StripPicks, FramedAlike

(***************************************************************************)
(* What stands in complete blocks and what does not.                       *)
(***************************************************************************)
ByHandLines(t) ==
    {i \in DOMAIN t : \A be \in Blocks(t) : i \notin be[1]..be[2]}

(***************************************************************************)
(* In a framed text a begin and the end of the same device are a block.    *)
(***************************************************************************)
LEMMA BlockIs ==
    ASSUME NEW t, Framed(t), NEW b \in DOMAIN t, NEW e \in DOMAIN t,
           t[b].is = "begin", IsEnd(t[e], t[b].of)
    PROVE  <<b, e>> \in Blocks(t)
BY DEF Framed, Closed, Blocks, Marker

LEMMA BlockHas ==
    ASSUME NEW t, NEW be \in Blocks(t)
    PROVE  /\ be = <<be[1], be[2]>>
           /\ be[1] \in DOMAIN t /\ be[2] \in DOMAIN t /\ be[1] < be[2]
           /\ t[be[1]].is = "begin" /\ IsEnd(t[be[2]], t[be[1]].of)
           /\ \A m \in be[1] + 1 .. be[2] - 1 : ~Marker(t[m])
BY DEF Blocks, Marker

(***************************************************************************)
(* A line of another device's marker is not within the device's block.     *)
(***************************************************************************)
LEMMA MarkersKept ==
    ASSUME NEW s, NEW d, Framed(s), Paired(s, d), NEW i \in DOMAIN s,
           Marker(s[i]), s[i].of # d
    PROVE  i \in Kept(s, d)
<1>0. DOMAIN s = 1..Len(s) /\ Len(s) \in Nat
  BY DEF Framed
<1> SUFFICES ASSUME NEW b \in DOMAIN s, NEW e \in DOMAIN s,
                    IsBegin(s[b], d), IsEnd(s[e], d), b <= i, i <= e
             PROVE  FALSE
  BY KeptIsOutside
<1>1. i # b /\ i # e
  BY DEF IsBegin, IsEnd
<1>2. i \in b + 1 .. e - 1
  BY <1>0, <1>1
<1> QED BY <1>2 DEF Framed, Closed, IsBegin

(***************************************************************************)
(* Stripping leaves the lines outside of blocks as they are.               *)
(***************************************************************************)
LEMMA StripLeavesByHand ==
    ASSUME NEW s, NEW d, Framed(s), Paired(s, d)
    PROVE  ByHand(Strip(s, d)) = ByHand(s)
<1> DEFINE t == Strip(s, d)
           S == Kept(s, d)
<1>1. PICK h : PickedBy(h, t, s, S)
  BY StripPicks
<1>2. /\ Framed(t)
      /\ S \in SUBSET Nat /\ S \in SUBSET DOMAIN s
      /\ DOMAIN s = 1..Len(s) /\ Len(s) \in Nat
      /\ DOMAIN t = 1..Len(t) /\ Len(t) \in Nat
  BY StripPicks, StripFramed DEF Framed
<1>3. \A i \in DOMAIN t : h[i] \in S /\ h[i] \in DOMAIN s /\ t[i] = s[h[i]]
  BY <1>1, <1>2 DEF PickedBy
<1>4. \A x \in S : \E i \in DOMAIN t : h[i] = x
  BY <1>1 DEF PickedBy
<1>5. \A i, j \in DOMAIN t : i <= j <=> h[i] <= h[j]
  <2> SUFFICES ASSUME NEW i \in DOMAIN t, NEW j \in DOMAIN t
               PROVE  i <= j <=> h[i] <= h[j]
    OBVIOUS
  <2>1. /\ i < j => h[i] < h[j]
        /\ j < i => h[j] < h[i]
        /\ i = j => h[i] = h[j]
    BY <1>1 DEF PickedBy
  <2>2. {i, j, h[i], h[j]} \subseteq Nat
    BY <1>2, <1>3
  <2> QED BY <2>1, <2>2
<1> HIDE DEF t, S
<1>6. ASSUME NEW i \in DOMAIN t, NEW be \in Blocks(t), i \in be[1]..be[2]
      PROVE  \E ce \in Blocks(s) : h[i] \in ce[1]..ce[2]
  <2>1. /\ be[1] \in DOMAIN t /\ be[2] \in DOMAIN t
        /\ t[be[1]].is = "begin" /\ IsEnd(t[be[2]], t[be[1]].of)
    BY BlockHas
  <2>2. <<h[be[1]], h[be[2]]>> \in Blocks(s)
    BY <1>3, <2>1, BlockIs
  <2>3. h[be[1]] <= h[i] /\ h[i] <= h[be[2]]
    BY <1>2, <1>5, <1>6, <2>1
  <2>4. h[i] \in h[be[1]]..h[be[2]]
    BY <1>2, <1>3, <2>1, <2>3
  <2> QED BY <2>2, <2>4
<1>7. ASSUME NEW ce \in Blocks(s), NEW x \in S, x \in ce[1]..ce[2]
      PROVE  s[ce[1]].of # d
  <2>1. /\ ce[1] \in DOMAIN s /\ ce[2] \in DOMAIN s
        /\ s[ce[1]].is = "begin" /\ IsEnd(s[ce[2]], s[ce[1]].of)
    BY BlockHas
  <2>2. x \in DOMAIN s /\ ce[1] <= x /\ x <= ce[2]
    BY <1>2, <1>7, <2>1
  <2> QED BY <1>7, <2>1, <2>2, KeptIsOutside DEF S, IsBegin, IsEnd
<1>8. ASSUME NEW i \in DOMAIN t, NEW ce \in Blocks(s), h[i] \in ce[1]..ce[2]
      PROVE  \E be \in Blocks(t) : i \in be[1]..be[2]
  <2>1. /\ ce[1] \in DOMAIN s /\ ce[2] \in DOMAIN s
        /\ s[ce[1]].is = "begin" /\ IsEnd(s[ce[2]], s[ce[1]].of)
    BY BlockHas
  <2>2. s[ce[1]].of # d
    BY <1>3, <1>7, <1>8
  <2>3. ce[1] \in S /\ ce[2] \in S
    BY <2>1, <2>2, MarkersKept DEF S, Marker, IsEnd
  <2>4. PICK b \in DOMAIN t, e \in DOMAIN t : h[b] = ce[1] /\ h[e] = ce[2]
    BY <1>4, <2>3
  <2>5. <<b, e>> \in Blocks(t)
    BY <1>2, <1>3, <2>1, <2>4, BlockIs
  <2>6. h[b] <= h[i] /\ h[i] <= h[e]
    BY <1>2, <1>3, <1>8, <2>1, <2>4
  <2>7. i \in b..e
    BY <1>2, <1>5, <2>6
  <2> QED BY <2>5, <2>7
<1>9. ByHandLines(s) \in SUBSET S
  <2> SUFFICES ASSUME NEW x \in DOMAIN s, x \notin S
               PROVE  \E ce \in Blocks(s) : x \in ce[1]..ce[2]
    BY DEF ByHandLines
  <2>1. PICK b \in DOMAIN s, e \in DOMAIN s :
               IsBegin(s[b], d) /\ IsEnd(s[e], d) /\ b <= x /\ x <= e
    BY KeptIsOutside DEF S
  <2>2. <<b, e>> \in Blocks(s)
    BY <2>1, BlockIs DEF IsBegin
  <2>3. x \in b..e
    BY <1>2, <2>1
  <2> QED BY <2>2, <2>3
<1>10. \A i \in DOMAIN t : i \in ByHandLines(t) <=> h[i] \in ByHandLines(s)
  BY <1>3, <1>6, <1>8 DEF ByHandLines
<1>11. ByHandLines(t) \in SUBSET DOMAIN t /\ IsFiniteSet(ByHandLines(t))
  <2>1. IsFiniteSet(DOMAIN t)
    BY <1>2, FS_Interval
  <2> QED BY <2>1, FS_Subset DEF ByHandLines
<1>12. DOMAIN t \subseteq Nat
  BY <1>2
<1>13. LinesAt(t, ByHandLines(t)) = LinesAt(s, ByHandLines(s))
  BY <1>1, <1>2, <1>9, <1>10, <1>11, <1>12, PickedAlike
<1> QED BY <1>13 DEF ByHand, ByHandLines, t

(***************************************************************************)
(* A block that is appended.                                               *)
(***************************************************************************)
Unmarked(u, d) == \A i \in DOMAIN u : Marker(u[i]) => u[i].of # d

EndsIn(t, u, d, k, a) ==
    /\ t \in Seq(AnyLine) /\ Len(u) \in Nat /\ Len(t) = Len(u) + 5
    /\ DOMAIN u = 1..Len(u) /\ DOMAIN t = 1..Len(u) + 5
    /\ \A i \in 1..Len(u) : t[i] = u[i]
    /\ t[Len(u) + 1] = Line("begin", d, TRUE)
    /\ t[Len(u) + 2] = Section("peer")
    /\ t[Len(u) + 3] = Line("key", k, TRUE)
    /\ t[Len(u) + 4] = Line("allowed", {{a}}, TRUE)
    /\ t[Len(u) + 5] = Line("end", d, TRUE)

LEMMA Appending ==
    ASSUME NEW u \in Seq(AnyLine), NEW d \in Device, NEW k \in Key,
           NEW a \in Nat
    PROVE  EndsIn(u \o Block(d, k, a), u, d, k, a)
<1> DEFINE w == Block(d, k, a)
           t == u \o w
           n == Len(u)
<1>1. /\ Line("begin", d, TRUE) \in AnyLine /\ Section("peer") \in AnyLine
      /\ Line("key", k, TRUE) \in AnyLine
      /\ Line("allowed", {{a}}, TRUE) \in AnyLine
      /\ Line("end", d, TRUE) \in AnyLine
  BY DEF Line, Section, AnyLine, Named
<1>2. /\ w \in Seq(AnyLine) /\ Len(w) = 5
      /\ w[1] = Line("begin", d, TRUE) /\ w[2] = Section("peer")
      /\ w[3] = Line("key", k, TRUE) /\ w[4] = Line("allowed", {{a}}, TRUE)
      /\ w[5] = Line("end", d, TRUE)
  <2>1. \A v1, v2, v3, v4, v5 \in AnyLine :
           LET v == <<v1, v2, v3, v4, v5>>
           IN  /\ v \in Seq(AnyLine) /\ Len(v) = 5
               /\ v[1] = v1 /\ v[2] = v2 /\ v[3] = v3 /\ v[4] = v4 /\ v[5] = v5
    OBVIOUS
  <2> DEFINE l1 == Line("begin", d, TRUE)
             l2 == Section("peer")
             l3 == Line("key", k, TRUE)
             l4 == Line("allowed", {{a}}, TRUE)
             l5 == Line("end", d, TRUE)
  <2>2. w = <<l1, l2, l3, l4, l5>>
    BY DEF Block
  <2> HIDE DEF w, l1, l2, l3, l4, l5
  <2>3. {l1, l2, l3, l4, l5} \subseteq AnyLine
    BY <1>1 DEF l1, l2, l3, l4, l5
  <2>4. /\ w \in Seq(AnyLine) /\ Len(w) = 5
        /\ w[1] = l1 /\ w[2] = l2 /\ w[3] = l3 /\ w[4] = l4 /\ w[5] = l5
    BY <2>1, <2>2, <2>3
  <2> QED BY <2>4 DEF l1, l2, l3, l4, l5
<1> HIDE DEF w
<1>3. /\ t \in Seq(AnyLine) /\ n \in Nat /\ Len(t) = n + 5
      /\ DOMAIN u = 1..n /\ DOMAIN t = 1..n + 5
      /\ \A i \in 1..n : t[i] = u[i]
      /\ \A j \in 1..5 : t[n + j] = w[j]
  <2>1. n \in Nat /\ DOMAIN u = 1..n
    BY LenProperties
  <2>2. /\ t \in Seq(AnyLine) /\ Len(t) = n + 5
        /\ \A i \in 1..n + 5 : t[i] = IF i <= n THEN u[i] ELSE w[i - n]
    <3>1. /\ t \in Seq(AnyLine) /\ Len(t) = Len(u) + Len(w)
          /\ \A i \in 1..Len(u) + Len(w) :
                t[i] = IF i <= Len(u) THEN u[i] ELSE w[i - Len(u)]
      <4>1. w \in Seq(AnyLine)
        BY <1>2
      <4> QED BY <4>1, ConcatProperties
    <3> HIDE DEF t
    <3> QED BY <1>2, <3>1
  <2>3. DOMAIN t = 1..n + 5
    BY <2>2, LenProperties
  <2>4. \A i \in 1..n : t[i] = u[i]
    BY <2>1, <2>2
  <2>5. ASSUME NEW j \in 1..5 PROVE t[n + j] = w[j]
    <3>1. n + j \in 1..n + 5 /\ ~(n + j <= n) /\ (n + j) - n = j
      BY <2>1
    <3> QED BY <2>2, <3>1
  <2> QED BY <2>1, <2>2, <2>3, <2>4, <2>5
<1> HIDE DEF t, n
<1>4. /\ t[n + 1] = w[1] /\ t[n + 2] = w[2] /\ t[n + 3] = w[3]
      /\ t[n + 4] = w[4] /\ t[n + 5] = w[5]
  BY <1>3
<1>5. EndsIn(t, u, d, k, a)
  BY <1>2, <1>3, <1>4 DEF n, EndsIn
<1> QED BY <1>5 DEF t, w

LEMMA AppendFramed ==
    ASSUME NEW u, Framed(u), NEW d \in Device, NEW k \in Key, NEW a \in Nat,
           Unmarked(u, d)
    PROVE  Framed(u \o Block(d, k, a))
<1> DEFINE t == u \o Block(d, k, a)
           n == Len(u)
<1>1. /\ t \in Seq(AnyLine) /\ n \in Nat
      /\ DOMAIN u = 1..n /\ DOMAIN t = 1..n + 5
      /\ \A i \in 1..n : t[i] = u[i]
      /\ t[n + 1].is = "begin" /\ t[n + 1].of = d
      /\ t[n + 5].is = "end" /\ t[n + 5].of = d
      /\ \A i \in {n + 2, n + 3, n + 4} : ~Marker(t[i])
  <2>1. u \in Seq(AnyLine)
    BY DEF Framed
  <2>2. EndsIn(t, u, d, k, a)
    BY <2>1, Appending
  <2> HIDE DEF t
  <2> QED BY <2>2 DEF EndsIn, Line, Section, Marker
<1> HIDE DEF t, n
<1>2. \A i \in DOMAIN t :
         \/ i \in DOMAIN u /\ t[i] = u[i]
         \/ i = n + 1 \/ i = n + 5 \/ ~Marker(t[i])
  BY <1>1
<1>3. n + 1 # n + 5 /\ \A i \in DOMAIN u : i < n + 1 /\ i < n + 5
  BY <1>1
<1>4. ASSUME NEW i \in DOMAIN t, Marker(t[i]), t[i].of = d
      PROVE  i = n + 1 \/ i = n + 5
  BY <1>2, <1>4 DEF Unmarked
<1>5. ASSUME NEW i \in DOMAIN t, Marker(t[i]), t[i].of # d
      PROVE  i \in DOMAIN u /\ t[i] = u[i]
  BY <1>1, <1>2, <1>5
<1>6. Sole(t)
  <2> SUFFICES ASSUME NEW i \in DOMAIN t, NEW j \in DOMAIN t, Marker(t[i]),
                      t[j].is = t[i].is, t[j].of = t[i].of
               PROVE  i = j
    BY DEF Sole
  <2>1. Marker(t[j])
    BY DEF Marker
  <2>2. CASE t[i].of = d
    <3>1. i \in {n + 1, n + 5} /\ j \in {n + 1, n + 5}
      BY <1>4, <2>1, <2>2
    <3> QED BY <1>1, <3>1
  <2>3. CASE t[i].of # d
    <3>1. /\ i \in DOMAIN u /\ t[i] = u[i]
          /\ j \in DOMAIN u /\ t[j] = u[j]
      BY <1>5, <2>1, <2>3
    <3> QED BY <3>1 DEF Framed, Sole
  <2> QED BY <2>2, <2>3
<1>7. Closed(t)
  <2> SUFFICES ASSUME NEW b \in DOMAIN t, NEW e \in DOMAIN t,
                      t[b].is = "begin", IsEnd(t[e], t[b].of)
               PROVE  b < e /\ \A m \in b + 1 .. e - 1 : ~Marker(t[m])
    BY DEF Closed
  <2>1. /\ Marker(t[b]) /\ Marker(t[e]) /\ t[e].is = "end"
        /\ t[e].of = t[b].of
    BY DEF Marker, IsEnd
  <2>2. CASE t[b].of = d
    <3>1. b = n + 1 /\ e = n + 5
      BY <1>1, <1>4, <2>1, <2>2
    <3>2. b + 1 .. e - 1 = {n + 2, n + 3, n + 4}
      BY <1>1, <3>1
    <3> QED BY <1>1, <3>1, <3>2
  <2>3. CASE t[b].of # d
    <3>1. /\ b \in DOMAIN u /\ t[b] = u[b]
          /\ e \in DOMAIN u /\ t[e] = u[e]
      BY <1>5, <2>1, <2>3
    <3>2. b < e /\ \A m \in b + 1 .. e - 1 : ~Marker(u[m])
      BY <3>1 DEF Framed, Closed
    <3>3. \A m \in b + 1 .. e - 1 : m \in DOMAIN u /\ t[m] = u[m]
      BY <1>1, <3>1
    <3> QED BY <3>2, <3>3
  <2> QED BY <2>2, <2>3
<1> QED BY <1>1, <1>6, <1>7 DEF Framed, t

LEMMA AppendLeavesByHand ==
    ASSUME NEW u, Framed(u), NEW d \in Device, NEW k \in Key, NEW a \in Nat,
           Unmarked(u, d)
    PROVE  ByHand(u \o Block(d, k, a)) = ByHand(u)
<1> DEFINE t == u \o Block(d, k, a)
           n == Len(u)
<1>1. /\ Framed(t) /\ n \in Nat
      /\ DOMAIN u = 1..n /\ DOMAIN t = 1..n + 5
      /\ \A i \in 1..n : t[i] = u[i]
      /\ t[n + 1].is = "begin" /\ t[n + 1].of = d
      /\ IsEnd(t[n + 5], d)
      /\ \A i \in {n + 2, n + 3, n + 4} : ~Marker(t[i])
  <2>1. u \in Seq(AnyLine) /\ Framed(t)
    BY AppendFramed DEF Framed
  <2>2. EndsIn(t, u, d, k, a)
    BY <2>1, Appending
  <2> HIDE DEF t
  <2> QED BY <2>1, <2>2 DEF EndsIn, Line, Section, Marker, IsEnd
<1> HIDE DEF t, n
<1>2. \A i \in DOMAIN u : i \in DOMAIN t /\ t[i] = u[i]
  BY <1>1
<1>3. ASSUME NEW i \in DOMAIN t, i \notin DOMAIN u
      PROVE  i \notin ByHandLines(t)
  <2>1. n + 1 \in DOMAIN t /\ n + 5 \in DOMAIN t
    BY <1>1
  <2>2. <<n + 1, n + 5>> \in Blocks(t)
    BY <1>1, <2>1, BlockIs
  <2>3. i \in n + 1 .. n + 5
    BY <1>1, <1>3
  <2> QED BY <2>2, <2>3 DEF ByHandLines
<1>4. ASSUME NEW be \in Blocks(u)
      PROVE  be \in Blocks(t)
  <2>1. /\ be = <<be[1], be[2]>>
        /\ be[1] \in DOMAIN u /\ be[2] \in DOMAIN u
        /\ u[be[1]].is = "begin" /\ IsEnd(u[be[2]], u[be[1]].of)
    BY BlockHas
  <2>2. <<be[1], be[2]>> \in Blocks(t)
    BY <1>1, <1>2, <2>1, BlockIs
  <2> QED BY <2>1, <2>2
<1>5. ASSUME NEW be \in Blocks(t), NEW i \in DOMAIN u, i \in be[1]..be[2]
      PROVE  be \in Blocks(u)
  <2>1. /\ be = <<be[1], be[2]>>
        /\ be[1] \in DOMAIN t /\ be[2] \in DOMAIN t
        /\ t[be[1]].is = "begin" /\ IsEnd(t[be[2]], t[be[1]].of)
    BY BlockHas
  <2>2. be[1] \in DOMAIN u /\ t[be[1]] = u[be[1]]
    BY <1>1, <1>5, <2>1
  <2>3. t[be[1]].of # d
    BY <2>1, <2>2 DEF Unmarked, Marker
  <2>4. be[2] \in DOMAIN u /\ t[be[2]] = u[be[2]]
    <3>1. Marker(t[be[2]]) /\ t[be[2]].of # d /\ Marker(t[n + 1])
      BY <1>1, <2>1, <2>3 DEF Marker, IsEnd
    <3>2. be[2] \notin {n + 1, n + 2, n + 3, n + 4, n + 5}
      BY <1>1, <3>1 DEF IsEnd
    <3>3. be[2] \in 1..n + 5
      BY <1>1, <2>1
    <3>4. be[2] \in 1..n
      BY <1>1, <3>2, <3>3
    <3> QED BY <1>1, <3>4
  <2>5. <<be[1], be[2]>> \in Blocks(u)
    BY <2>1, <2>2, <2>4, BlockIs
  <2> QED BY <2>1, <2>5
<1>6. ByHandLines(t) = ByHandLines(u)
  BY <1>2, <1>3, <1>4, <1>5 DEF ByHandLines
<1>7. /\ ByHandLines(u) \in SUBSET DOMAIN u
      /\ IsFiniteSet(ByHandLines(u)) /\ ByHandLines(u) \in SUBSET Nat
  <2>1. IsFiniteSet(DOMAIN u) /\ DOMAIN u \subseteq Nat
    BY <1>1, FS_Interval
  <2> QED BY <2>1, FS_Subset DEF ByHandLines
<1> DEFINE h == [i \in DOMAIN u |-> i]
<1>8. PickedBy(h, u, t, DOMAIN u)
  BY <1>2 DEF PickedBy
<1>9. DOMAIN u \in SUBSET Nat
  BY <1>1
<1>10. LinesAt(u, ByHandLines(u)) = LinesAt(t, ByHandLines(u))
  BY <1>7, <1>8, <1>9, PickedAlike
<1> QED BY <1>6, <1>10 DEF ByHand, ByHandLines, t

-----------------------------------------------------------------------------
(***************************************************************************)
(* The administrator's changes.                                            *)
(***************************************************************************)
LEMMA CutFramed ==
    ASSUME NEW s, Framed(s), NEW i \in DOMAIN s
    PROVE  Framed(RemoveAt(s, i))
<1> DEFINE t == RemoveAt(s, i)
           n == Len(s)
           g == [j \in DOMAIN t |-> IF j < i THEN j ELSE j + 1]
           left == SubSeq(s, 1, i - 1)
           right == SubSeq(s, i + 1, n)
<1>1. s \in Seq(AnyLine) /\ n \in Nat /\ DOMAIN s = 1..n /\ i \in 1..n
  BY LenProperties DEF Framed
<1>2. \A j \in 1..n : s[j] \in AnyLine
  BY <1>1, ElementOfSeq
<1>3. /\ left \in Seq(AnyLine) /\ Len(left) = i - 1
      /\ \A j \in 1..i - 1 : left[j] = s[j]
  <2>1. /\ left \in Seq(AnyLine)
        /\ Len(left) = IF 1 <= i - 1 THEN (i - 1) - 1 + 1 ELSE 0
        /\ \A j \in 1..(i - 1) - 1 + 1 : left[j] = s[1 + j - 1]
    BY <1>1, <1>2, SubSeqProperties
  <2> HIDE DEF left
  <2> QED BY <1>1, <2>1
<1>4. /\ right \in Seq(AnyLine) /\ Len(right) = n - i
      /\ \A j \in 1..n - i : right[j] = s[i + j]
  <2>1. /\ right \in Seq(AnyLine)
        /\ Len(right) = IF i + 1 <= n THEN n - (i + 1) + 1 ELSE 0
        /\ \A j \in 1..n - (i + 1) + 1 : right[j] = s[i + 1 + j - 1]
    BY <1>1, <1>2, SubSeqProperties
  <2> HIDE DEF right
  <2>2. Len(right) = n - i
    BY <1>1, <2>1
  <2>3. ASSUME NEW j \in 1..n - i PROVE right[j] = s[i + j]
    <3>1. j \in 1..n - (i + 1) + 1 /\ i + 1 + j - 1 = i + j
      BY <1>1
    <3> QED BY <2>1, <3>1
  <2> QED BY <2>1, <2>2, <2>3
<1>5. t = left \o right
  BY DEF RemoveAt
<1> HIDE DEF t, left, right
<1>6. /\ t \in Seq(AnyLine) /\ Len(t) = n - 1
      /\ \A j \in 1..n - 1 : t[j] = IF j < i THEN s[j] ELSE s[j + 1]
  <2>1. /\ t \in Seq(AnyLine) /\ Len(t) = Len(left) + Len(right)
        /\ \A j \in 1..Len(left) + Len(right) :
              t[j] = IF j <= Len(left) THEN left[j] ELSE right[j - Len(left)]
    BY <1>3, <1>4, <1>5, ConcatProperties
  <2>2. Len(t) = n - 1
    BY <1>1, <1>3, <1>4, <2>1
  <2>3. ASSUME NEW j \in 1..n - 1
        PROVE  t[j] = IF j < i THEN s[j] ELSE s[j + 1]
    <3>1. t[j] = IF j <= i - 1 THEN left[j] ELSE right[j - (i - 1)]
      BY <1>1, <1>3, <1>4, <2>1
    <3>2. CASE j < i
      BY <1>1, <1>3, <3>1, <3>2
    <3>3. CASE ~(j < i)
      <4>1. /\ ~(j <= i - 1) /\ j - (i - 1) \in 1..n - i
            /\ i + (j - (i - 1)) = j + 1
        BY <1>1, <3>3
      <4> QED BY <1>4, <3>1, <3>3, <4>1
    <3> QED BY <3>2, <3>3
  <2> QED BY <2>1, <2>2, <2>3
<1>7. DOMAIN t = 1..n - 1
  BY <1>6, LenProperties
<1>8. \A j \in DOMAIN t : g[j] \in DOMAIN s /\ t[j] = s[g[j]]
  BY <1>1, <1>6, <1>7
<1>9. \A j, m \in DOMAIN t : j < m => g[j] < g[m]
  BY <1>1, <1>7
<1> HIDE DEF g
<1>10. Framed(t)
  <2>1. t \in Seq(AnyLine)
    BY <1>6
  <2> QED BY <1>8, <1>9, <2>1, FramedAlike
<1> QED BY <1>10 DEF t

(***************************************************************************)
(* Three lines that are inserted before the line i.                        *)
(***************************************************************************)
Inserted(s, i, w) == SubSeq(s, 1, i - 1) \o w \o SubSeq(s, i, Len(s))

LEMMA Inserting ==
    ASSUME NEW s \in Seq(AnyLine), NEW i \in 2..Len(s) + 1,
           NEW w \in Seq(AnyLine), Len(w) = 3
    PROVE  /\ Inserted(s, i, w) \in Seq(AnyLine)
           /\ Len(s) \in Nat /\ DOMAIN s = 1..Len(s)
           /\ DOMAIN Inserted(s, i, w) = 1..Len(s) + 3
           /\ \A j \in 1..Len(s) + 3 :
                 Inserted(s, i, w)[j] = IF j < i THEN s[j]
                                        ELSE IF j < i + 3 THEN w[j - i + 1]
                                        ELSE s[j - 3]
<1> DEFINE n == Len(s)
           left == SubSeq(s, 1, i - 1)
           right == SubSeq(s, i, n)
           t == Inserted(s, i, w)
           lw == left \o w
<1>1. n \in Nat /\ DOMAIN s = 1..n /\ i \in Nat /\ 2 <= i /\ i <= n + 1
  BY LenProperties
<1>2. \A j \in 1..n : s[j] \in AnyLine
  BY <1>1, ElementOfSeq
<1>3. /\ left \in Seq(AnyLine) /\ Len(left) = i - 1
      /\ \A j \in 1..i - 1 : left[j] = s[j]
  <2>1. /\ left \in Seq(AnyLine)
        /\ Len(left) = IF 1 <= i - 1 THEN (i - 1) - 1 + 1 ELSE 0
        /\ \A j \in 1..(i - 1) - 1 + 1 : left[j] = s[1 + j - 1]
    BY <1>1, <1>2, SubSeqProperties
  <2> HIDE DEF left
  <2> QED BY <1>1, <2>1
<1>4. /\ right \in Seq(AnyLine) /\ Len(right) = n - i + 1
      /\ \A j \in 1..n - i + 1 : right[j] = s[i + j - 1]
  <2>1. /\ right \in Seq(AnyLine)
        /\ Len(right) = IF i <= n THEN n - i + 1 ELSE 0
        /\ \A j \in 1..n - i + 1 : right[j] = s[i + j - 1]
    BY <1>1, <1>2, SubSeqProperties
  <2> HIDE DEF right
  <2> QED BY <1>1, <2>1
<1> HIDE DEF left, right
<1>5. /\ lw \in Seq(AnyLine) /\ Len(lw) = Len(left) + Len(w)
      /\ \A j \in 1..Len(left) + Len(w) :
            lw[j] = IF j <= Len(left) THEN left[j] ELSE w[j - Len(left)]
  BY <1>3, ConcatProperties
<1>6. t = lw \o right
  BY DEF Inserted, left, right
<1> HIDE DEF lw, t
<1>7. /\ t \in Seq(AnyLine) /\ Len(t) = Len(lw) + Len(right)
      /\ \A j \in 1..Len(lw) + Len(right) :
            t[j] = IF j <= Len(lw) THEN lw[j] ELSE right[j - Len(lw)]
  <2>1. lw \in Seq(AnyLine) /\ right \in Seq(AnyLine)
    BY <1>4, <1>5
  <2> QED BY <1>6, <2>1, ConcatProperties
<1>8. Len(lw) = i + 2 /\ Len(t) = n + 3
  <2>1. Len(lw) = (i - 1) + 3
    BY <1>3, <1>5
  <2>2. Len(t) = Len(lw) + (n - i + 1)
    BY <1>4, <1>7
  <2> QED BY <1>1, <2>1, <2>2
<1>9. DOMAIN t = 1..n + 3
  BY <1>7, <1>8, LenProperties
<1>10. ASSUME NEW j \in 1..n + 3
       PROVE  t[j] = IF j < i THEN s[j]
                     ELSE IF j < i + 3 THEN w[j - i + 1] ELSE s[j - 3]
  <2>1. t[j] = IF j <= i + 2 THEN lw[j] ELSE right[j - (i + 2)]
    BY <1>1, <1>4, <1>7, <1>8
  <2>2. CASE j < i
    <3>1. j <= i + 2 /\ j \in 1..(i - 1) + 3 /\ j <= i - 1 /\ j \in 1..i - 1
      BY <1>1, <2>2
    <3> QED BY <1>3, <1>5, <2>1, <2>2, <3>1
  <2>3. CASE ~(j < i) /\ j < i + 3
    <3>1. /\ j <= i + 2 /\ j \in 1..(i - 1) + 3 /\ ~(j <= i - 1)
          /\ j - (i - 1) = j - i + 1
      BY <1>1, <2>3
    <3> QED BY <1>3, <1>5, <2>1, <2>3, <3>1
  <2>4. CASE ~(j < i + 3)
    <3>1. /\ ~(j <= i + 2) /\ j - (i + 2) \in 1..n - i + 1
          /\ i + (j - (i + 2)) - 1 = j - 3 /\ ~(j < i)
      BY <1>1, <2>4
    <3> QED BY <1>4, <2>1, <2>4, <3>1
  <2> QED BY <2>2, <2>3, <2>4
<1> QED BY <1>1, <1>7, <1>9, <1>10 DEF t

LEMMA WriteFramed ==
    ASSUME NEW s, Framed(s), NEW i \in 2..Len(s) + 1,
           NEW w \in Seq(AnyLine), Len(w) = 3,
           \A j \in 1..3 : ~Marker(w[j])
    PROVE  Framed(Inserted(s, i, w))
<1> DEFINE t == Inserted(s, i, w)
           n == Len(s)
           g == [j \in DOMAIN t |-> IF j < i THEN j ELSE j - 3]
<1>1. /\ t \in Seq(AnyLine) /\ n \in Nat
      /\ DOMAIN s = 1..n /\ DOMAIN t = 1..n + 3
      /\ \A j \in 1..n + 3 : t[j] = IF j < i THEN s[j]
                                    ELSE IF j < i + 3 THEN w[j - i + 1]
                                    ELSE s[j - 3]
  BY Inserting DEF Framed
<1> HIDE DEF t
<1>2. ASSUME NEW j \in DOMAIN t, Marker(t[j])
      PROVE  j < i \/ j >= i + 3
  <2> SUFFICES ASSUME ~(j < i), j < i + 3 PROVE FALSE
    BY <1>1
  <2>1. j - i + 1 \in 1..3 /\ t[j] = w[j - i + 1]
    BY <1>1
  <2> QED BY <1>2, <2>1
<1>3. \A j \in DOMAIN t :
         Marker(t[j]) => g[j] \in DOMAIN s /\ t[j] = s[g[j]]
  BY <1>1, <1>2
<1>4. \A j, m \in DOMAIN t :
         j < m /\ Marker(t[j]) /\ Marker(t[m]) => g[j] < g[m]
  BY <1>1, <1>2
<1> HIDE DEF g
<1>5. Framed(t)
  BY <1>1, <1>3, <1>4, FramedAlike
<1> QED BY <1>5 DEF t

-----------------------------------------------------------------------------
(***************************************************************************)
(* The blocks of the enabled rows.  The block of the row r of d begins at  *)
(* the line b.                                                             *)
(***************************************************************************)
Stands(t, b, d, r) ==
    /\ b \in DOMAIN t /\ b + 4 \in DOMAIN t
    /\ t[b] = Line("begin", d, TRUE)
    /\ t[b + 1] = Section("peer")
    /\ t[b + 2] = Line("key", r.key, TRUE)
    /\ t[b + 3] = Line("allowed", {{r.address}}, TRUE)
    /\ t[b + 4] = Line("end", d, TRUE)

Owned ==
    /\ \A i \in DOMAIN text : Marker(text[i]) => text[i].of \in EnabledRows
    /\ \A d \in EnabledRows :
          \E b \in DOMAIN text : Stands(text, b, d, rows[d])

(***************************************************************************)
(* The inductive invariant: rows and lines are typed, the text is framed,  *)
(* and until a line is cut each enabled row has its block and no other     *)
(* device a marker.                                                        *)
(***************************************************************************)
Row == [key : Key, address : Nat, enabled : BOOLEAN]

Layout ==
    /\ Places
    /\ rows \in [Device -> {NoOne} \cup Row]
    /\ peers \in 0..MaxPeers /\ cuts \in 0..MaxCuts
    /\ Framed(text)
    /\ cuts = MaxCuts => Owned

(***************************************************************************)
(* A block stays in one piece when another is stripped, a block appended,  *)
(* or a peer written where there is no block.                              *)
(***************************************************************************)
LEMMA Neighbours ==
    ASSUME NEW s, NEW t, NEW S \in SUBSET Nat, NEW h, PickedBy(h, t, s, S),
           DOMAIN t \subseteq Nat,
           \A i, j \in DOMAIN t : i < j => i + 1 \in DOMAIN t
    PROVE  \A i \in DOMAIN t :
              h[i] + 1 \in S =>
                 i + 1 \in DOMAIN t /\ h[i + 1] = h[i] + 1
<1> SUFFICES ASSUME NEW i \in DOMAIN t, h[i] + 1 \in S
             PROVE  i + 1 \in DOMAIN t /\ h[i + 1] = h[i] + 1
  OBVIOUS
<1>1. PICK j \in DOMAIN t : h[j] = h[i] + 1
  BY DEF PickedBy
<1>2. h[i] \in Nat /\ i \in Nat /\ j \in Nat
  <2>1. h[i] \in S
    BY DEF PickedBy
  <2>2. S \subseteq Nat
    OBVIOUS
  <2>3. h[i] \in Nat
    BY <2>1, <2>2
  <2>4. i \in Nat /\ j \in Nat
    OBVIOUS
  <2> QED BY <2>3, <2>4
<1>3. ~(j < i) /\ j # i
  <2>1. j < i => h[j] < h[i]
    BY DEF PickedBy
  <2> QED BY <1>1, <1>2, <2>1
<1>4. ~(i + 1 < j)
  <2> SUFFICES ASSUME i + 1 < j PROVE FALSE
    OBVIOUS
  <2>1. i + 1 \in DOMAIN t /\ i < i + 1
    BY <1>2
  <2>2. h[i] < h[i + 1] /\ h[i + 1] < h[j] /\ h[i + 1] \in S
    BY <2>1 DEF PickedBy
  <2>3. h[i + 1] \in Nat
    BY <2>2
  <2> QED BY <1>1, <1>2, <2>2, <2>3
<1>5. j = i + 1
  BY <1>2, <1>3, <1>4
<1> QED BY <1>1, <1>5

LEMMA StripStands ==
    ASSUME NEW s, NEW d, Framed(s), Paired(s, d), NEW e, e # d,
           NEW b, NEW r, Stands(s, b, e, r)
    PROVE  \E c \in DOMAIN Strip(s, d) : Stands(Strip(s, d), c, e, r)
<1> DEFINE t == Strip(s, d)
           S == Kept(s, d)
<1>1. PICK h : PickedBy(h, t, s, S)
  BY StripPicks
<1>2. /\ S \in SUBSET Nat /\ S \in SUBSET DOMAIN s
      /\ DOMAIN s = 1..Len(s) /\ Len(s) \in Nat
      /\ t \in Seq(AnyLine)
  BY StripPicks DEF Framed
<1>3. DOMAIN t = 1..Len(t) /\ Len(t) \in Nat
  BY <1>2, LenProperties
<1> HIDE DEF t
<1>4. /\ b \in Nat
      /\ {b, b + 1, b + 2, b + 3, b + 4} \subseteq DOMAIN s
      /\ s[b].is = "begin" /\ s[b].of = e
      /\ s[b + 4].is = "end" /\ s[b + 4].of = e
      /\ \A m \in {b + 1, b + 2, b + 3} : ~Marker(s[m])
  BY <1>2 DEF Stands, Line, Section, Marker
<1>5. ASSUME NEW x \in {b, b + 1, b + 2, b + 3, b + 4}
      PROVE  x \in S
  <2> SUFFICES ASSUME NEW f \in DOMAIN s, NEW l \in DOMAIN s,
                      IsBegin(s[f], d), IsEnd(s[l], d), f <= x, x <= l
               PROVE  FALSE
    BY <1>4, <1>5, KeptIsOutside
  <2>1. /\ Marker(s[f]) /\ Marker(s[l]) /\ s[f].of = d /\ s[l].of = d
        /\ Marker(s[b]) /\ Marker(s[b + 4])
    BY <1>4 DEF Marker, IsBegin, IsEnd
  <2>2. f \notin {b, b + 1, b + 2, b + 3, b + 4}
    BY <1>4, <2>1
  <2>3. f < b /\ b <= l
    BY <1>2, <1>4, <1>5, <2>2
  <2>4. b # l
    BY <1>4, <2>1
  <2>5. b \in f + 1 .. l - 1
    BY <1>2, <1>4, <2>3, <2>4
  <2> QED BY <2>1, <2>5 DEF Framed, Closed, IsBegin
<1>6. PICK c \in DOMAIN t : h[c] = b
  BY <1>1, <1>5 DEF PickedBy
<1>7. \A i \in DOMAIN t :
         h[i] + 1 \in S => i + 1 \in DOMAIN t /\ h[i + 1] = h[i] + 1
  <2>1. /\ DOMAIN t \subseteq Nat
        /\ \A i, j \in DOMAIN t : i < j => i + 1 \in DOMAIN t
    BY <1>3
  <2>3. S \in SUBSET Nat
    BY <1>2
  <2>4. PickedBy(h, t, s, S)
    BY <1>1
  <2> HIDE DEF S
  <2> QED BY <2>1, <2>3, <2>4, Neighbours
<1> HIDE DEF S
<1>8. c + 1 \in DOMAIN t /\ h[c + 1] = b + 1
  BY <1>5, <1>6, <1>7
<1>9. c + 2 \in DOMAIN t /\ h[c + 2] = b + 2
  BY <1>3, <1>4, <1>5, <1>7, <1>8
<1>10. c + 3 \in DOMAIN t /\ h[c + 3] = b + 3
  BY <1>3, <1>4, <1>5, <1>7, <1>9
<1>11. c + 4 \in DOMAIN t /\ h[c + 4] = b + 4
  BY <1>3, <1>4, <1>5, <1>7, <1>10
<1>12. \A i \in DOMAIN t : t[i] = s[h[i]]
  BY <1>1 DEF PickedBy
<1>13. Stands(t, c, e, r)
  BY <1>6, <1>8, <1>9, <1>10, <1>11, <1>12 DEF Stands
<1> QED BY <1>13 DEF t

LEMMA AppendStands ==
    ASSUME NEW u \in Seq(AnyLine), NEW d \in Device, NEW k \in Key,
           NEW a \in Nat
    PROVE  LET t == u \o Block(d, k, a)
           IN  /\ \A r : r.key = k /\ r.address = a =>
                     \E c \in DOMAIN t : Stands(t, c, d, r)
               /\ \A b, e, r : Stands(u, b, e, r) => Stands(t, b, e, r)
               /\ \A i \in DOMAIN t :
                     \/ i \in DOMAIN u /\ t[i] = u[i]
                     \/ Marker(t[i]) => t[i].of = d
<1> DEFINE t == u \o Block(d, k, a)
           n == Len(u)
<1>1. EndsIn(t, u, d, k, a)
  BY Appending
<1> HIDE DEF t
<1>2. /\ n \in Nat /\ DOMAIN u = 1..n /\ DOMAIN t = 1..n + 5
      /\ \A i \in 1..n : t[i] = u[i]
  BY <1>1 DEF EndsIn
<1> HIDE DEF n
<1>3. ASSUME NEW r, r.key = k, r.address = a
      PROVE  Stands(t, n + 1, d, r) /\ n + 1 \in DOMAIN t
  <2>1. /\ n + 1 + 1 = n + 2 /\ n + 1 + 2 = n + 3 /\ n + 1 + 3 = n + 4
        /\ n + 1 + 4 = n + 5
        /\ n + 1 \in DOMAIN t /\ n + 5 \in DOMAIN t
    BY <1>2
  <2> QED BY <1>1, <1>3, <2>1 DEF EndsIn, Stands, n
<1>4. ASSUME NEW b, NEW e, NEW r, Stands(u, b, e, r)
      PROVE  Stands(t, b, e, r)
  <2>1. /\ {b, b + 1, b + 2, b + 3, b + 4} \subseteq 1..n
        /\ {b, b + 4} \subseteq DOMAIN t
    BY <1>2, <1>4 DEF Stands
  <2> QED BY <1>2, <1>4, <2>1 DEF Stands
<1>5. ASSUME NEW i \in DOMAIN t, i \notin DOMAIN u, Marker(t[i])
      PROVE  t[i].of = d
  <2>1. i \in {n + 1, n + 2, n + 3, n + 4, n + 5}
    BY <1>2, <1>5
  <2> QED BY <1>1, <1>5, <2>1 DEF EndsIn, Line, Section, Marker, n
<1>6. /\ \A r : r.key = k /\ r.address = a =>
            \E c \in DOMAIN t : Stands(t, c, d, r)
      /\ \A b, e, r : Stands(u, b, e, r) => Stands(t, b, e, r)
      /\ \A i \in DOMAIN t : \/ i \in DOMAIN u /\ t[i] = u[i]
                             \/ Marker(t[i]) => t[i].of = d
  <2>1. \A i \in DOMAIN u : t[i] = u[i]
    BY <1>2
  <2> QED BY <1>3, <1>4, <1>5, <2>1
<1> QED BY <1>6 DEF t

LEMMA InsertStands ==
    ASSUME NEW s, Framed(s), NEW i \in 2..Len(s) + 1,
           NEW w \in Seq(AnyLine), Len(w) = 3,
           \A be \in Blocks(s) : i \notin be[1] + 1 .. be[2],
           NEW b, NEW d, NEW r, Stands(s, b, d, r)
    PROVE  \E c \in DOMAIN Inserted(s, i, w) :
              Stands(Inserted(s, i, w), c, d, r)
<1> DEFINE t == Inserted(s, i, w)
           n == Len(s)
<1>1. /\ n \in Nat /\ i \in Nat
      /\ DOMAIN s = 1..n /\ DOMAIN t = 1..n + 3
      /\ \A j \in 1..n + 3 : t[j] = IF j < i THEN s[j]
                                    ELSE IF j < i + 3 THEN w[j - i + 1]
                                    ELSE s[j - 3]
  <2>1. s \in Seq(AnyLine)
    BY DEF Framed
  <2> QED BY <2>1, Inserting
<1> HIDE DEF t, n
<1>2. b \in 1..n /\ b + 4 \in 1..n
  BY <1>1 DEF Stands
<1>3. <<b, b + 4>> \in Blocks(s)
  <2>1. s[b].is = "begin" /\ IsEnd(s[b + 4], s[b].of)
    BY DEF Stands, Line, IsEnd
  <2> QED BY <1>1, <1>2, <2>1, BlockIs
<1>4. i \notin b + 1 .. b + 4
  BY <1>3
<1>5. CASE i <= b
  <2>1. \A j \in 0..4 : t[b + 3 + j] = s[b + j]
    <3> SUFFICES ASSUME NEW j \in 0..4 PROVE t[b + 3 + j] = s[b + j]
      OBVIOUS
    <3>1. /\ b + 3 + j \in 1..n + 3 /\ ~(b + 3 + j < i)
          /\ ~(b + 3 + j < i + 3) /\ (b + 3 + j) - 3 = b + j
      BY <1>1, <1>2, <1>5
    <3> QED BY <1>1, <3>1
  <2>2. /\ t[b + 3] = s[b] /\ t[b + 3 + 1] = s[b + 1]
        /\ t[b + 3 + 2] = s[b + 2] /\ t[b + 3 + 3] = s[b + 3]
        /\ t[b + 3 + 4] = s[b + 4]
        /\ b + 3 \in DOMAIN t /\ b + 3 + 4 \in DOMAIN t
    BY <1>1, <1>2, <2>1
  <2>3. Stands(t, b + 3, d, r)
    BY <2>2 DEF Stands
  <2> QED BY <2>2, <2>3 DEF t
<1>6. CASE ~(i <= b)
  <2>1. b + 4 < i
    BY <1>1, <1>2, <1>4, <1>6
  <2>2. /\ t[b] = s[b] /\ t[b + 1] = s[b + 1] /\ t[b + 2] = s[b + 2]
        /\ t[b + 3] = s[b + 3] /\ t[b + 4] = s[b + 4]
        /\ b \in DOMAIN t /\ b + 4 \in DOMAIN t
    BY <1>1, <1>2, <2>1
  <2>3. Stands(t, b, d, r)
    BY <2>2 DEF Stands
  <2> QED BY <2>2, <2>3 DEF t
<1> QED BY <1>5, <1>6

-----------------------------------------------------------------------------
(***************************************************************************)
(* What ensure_peer and remove_peer make of the file.                      *)
(***************************************************************************)
LEMMA StripUnmarked ==
    ASSUME NEW s, NEW d, Framed(s)
    PROVE  Unmarked(Strip(s, d), d)
<1>1. PICK h : PickedBy(h, Strip(s, d), s, Kept(s, d))
  BY StripPicks
<1>2. \A i \in DOMAIN Strip(s, d) :
         ~IsBegin(Strip(s, d)[i], d) /\ ~IsEnd(Strip(s, d)[i], d)
  BY <1>1, StrippedOff DEF PickedBy
<1> QED BY <1>2 DEF Unmarked, Marker, IsBegin, IsEnd

LEMMA EnsuredFramed ==
    ASSUME NEW s, Framed(s), NEW d \in Device, NEW k \in Key, NEW a \in Nat
    PROVE  Framed(Ensured(s, d, k, a))
BY StripFramed, StripUnmarked, AppendFramed DEF Ensured

LEMMA StripMarkers ==
    ASSUME NEW s, NEW d, Framed(s), NEW R,
           \A i \in DOMAIN s : Marker(s[i]) => s[i].of \in R,
           NEW i \in DOMAIN Strip(s, d), Marker(Strip(s, d)[i])
    PROVE  Strip(s, d)[i].of \in R \ {d}
<1>1. PICK h : PickedBy(h, Strip(s, d), s, Kept(s, d))
  BY StripPicks
<1>2. h[i] \in DOMAIN s /\ Strip(s, d)[i] = s[h[i]]
  BY <1>1, StripPicks DEF PickedBy
<1>3. Strip(s, d)[i].of # d
  BY StripUnmarked DEF Unmarked
<1> QED BY <1>2, <1>3

LEMMA EnsureOwned ==
    ASSUME Framed(text), Owned, NEW d \in Device, NEW k \in Key,
           NEW a \in Nat, Paired(text, d), text' = Ensured(text, d, k, a),
           EnabledRows' = EnabledRows \cup {d},
           rows'[d].key = k, rows'[d].address = a,
           \A e \in EnabledRows \ {d} : rows'[e] = rows[e]
    PROVE  Owned'
<1> DEFINE u == Strip(text, d)
           t == u \o Block(d, k, a)
<1>1. text' = t /\ u \in Seq(AnyLine)
  BY StripPicks DEF Ensured
<1>2. /\ \A r : r.key = k /\ r.address = a =>
            \E c \in DOMAIN t : Stands(t, c, d, r)
      /\ \A b, e, r : Stands(u, b, e, r) => Stands(t, b, e, r)
      /\ \A i \in DOMAIN t : \/ i \in DOMAIN u /\ t[i] = u[i]
                             \/ Marker(t[i]) => t[i].of = d
  <2> HIDE DEF u
  <2> QED BY <1>1, AppendStands
<1>3. \A i \in DOMAIN u : Marker(u[i]) => u[i].of \in EnabledRows
  BY StripMarkers DEF Owned
<1>4. \A e \in EnabledRows \ {d} :
         \E c \in DOMAIN u : Stands(u, c, e, rows[e])
  BY StripStands DEF Owned
<1> HIDE DEF t, u
<1>5. \A i \in DOMAIN t : Marker(t[i]) => t[i].of \in EnabledRows \cup {d}
  BY <1>2, <1>3
<1>6. \A e \in EnabledRows \cup {d} :
         \E c \in DOMAIN t : Stands(t, c, e, rows'[e])
  <2>1. \E c \in DOMAIN t : Stands(t, c, d, rows'[d])
    BY <1>2
  <2>2. ASSUME NEW e \in EnabledRows \ {d}
        PROVE  \E c \in DOMAIN t : Stands(t, c, e, rows'[e])
    <3>1. PICK c \in DOMAIN u : Stands(u, c, e, rows[e])
      BY <1>4
    <3>2. Stands(t, c, e, rows[e]) /\ rows'[e] = rows[e]
      BY <1>2, <3>1
    <3>3. c \in DOMAIN t
      BY <3>2 DEF Stands
    <3> QED BY <3>2, <3>3
  <2> QED BY <2>1, <2>2
<1>7. \A i \in DOMAIN text' :
         Marker(text'[i]) => text'[i].of \in EnabledRows'
  BY <1>1, <1>5
<1>8. \A e \in EnabledRows' :
         \E c \in DOMAIN text' : Stands(text', c, e, rows'[e])
  BY <1>1, <1>6
<1> QED BY <1>7, <1>8 DEF Owned, Marker, Stands

LEMMA RevokeOwned ==
    ASSUME Framed(text), Owned, NEW d \in Device, Paired(text, d),
           text' = Strip(text, d), EnabledRows' = EnabledRows \ {d},
           \A e \in EnabledRows \ {d} : rows'[e] = rows[e]
    PROVE  Owned'
<1>1. \A i \in DOMAIN text' :
         Marker(text'[i]) => text'[i].of \in EnabledRows'
  BY StripMarkers DEF Owned
<1>2. \A e \in EnabledRows' :
         \E c \in DOMAIN text' : Stands(text', c, e, rows'[e])
  BY StripStands DEF Owned
<1> QED BY <1>1, <1>2 DEF Owned, Marker, Stands

LEMMA WriteOwned ==
    ASSUME Framed(text), Owned, NEW i \in 2..Len(text) + 1,
           NEW w \in Seq(AnyLine), Len(w) = 3,
           \A j \in 1..3 : ~Marker(w[j]),
           \A be \in Blocks(text) : i \notin be[1] + 1 .. be[2],
           text' = Inserted(text, i, w), UNCHANGED rows
    PROVE  Owned'
<1> DEFINE t == Inserted(text, i, w)
           n == Len(text)
<1>1. text \in Seq(AnyLine)
  BY DEF Framed
<1>2. /\ n \in Nat /\ i \in Nat
      /\ DOMAIN text = 1..n /\ DOMAIN t = 1..n + 3
      /\ \A j \in 1..n + 3 : t[j] = IF j < i THEN text[j]
                                    ELSE IF j < i + 3 THEN w[j - i + 1]
                                    ELSE text[j - 3]
  BY <1>1, Inserting
<1> HIDE DEF t, n
<1>3. ASSUME NEW j \in DOMAIN t, Marker(t[j])
      PROVE  t[j].of \in EnabledRows
  <2>1. CASE j < i
    <3>1. j \in DOMAIN text /\ t[j] = text[j]
      BY <1>2, <2>1, i \in 2..n + 1 DEF n
    <3> QED BY <1>3, <3>1 DEF Owned
  <2>2. CASE ~(j < i) /\ j < i + 3
    <3>1. j - i + 1 \in 1..3 /\ t[j] = w[j - i + 1]
      BY <1>2, <2>2
    <3> QED BY <1>3, <3>1
  <2>3. CASE ~(j < i + 3)
    <3>1. j - 3 \in DOMAIN text /\ t[j] = text[j - 3]
      BY <1>2, <2>3, i \in 2..n + 1 DEF n
    <3> QED BY <1>3, <3>1 DEF Owned
  <2> QED BY <2>1, <2>2, <2>3
<1>4. \A e \in EnabledRows :
         \E c \in DOMAIN t : Stands(t, c, e, rows[e])
  BY InsertStands DEF Owned, t
<1>5. text' = t
  BY DEF t
<1>6. EnabledRows' = EnabledRows
  BY DEF EnabledRows
<1>7. \A j \in DOMAIN text' :
         Marker(text'[j]) => text'[j].of \in EnabledRows'
  BY <1>3, <1>5, <1>6
<1>8. \A e \in EnabledRows' :
         \E c \in DOMAIN text' : Stands(text', c, e, rows'[e])
  BY <1>4, <1>5, <1>6
<1> QED BY <1>7, <1>8 DEF Owned, Marker, Stands

-----------------------------------------------------------------------------
(***************************************************************************)
(* The layout of the file is invariant.                                    *)
(***************************************************************************)
LEMMA LayoutInit == Init => Layout
<1> SUFFICES ASSUME Init PROVE Layout
  OBVIOUS
<1> DEFINE line == Section("interface")
<1>1. Places
  <2>1. \A n \in Sizes : 0..n - 1 \subseteq Nat
    BY PeerFileConstants
  <2> QED BY <2>1 DEF Init, Places
<1>2. rows \in [Device -> {NoOne} \cup Row] /\ EnabledRows = {}
  BY DEF Init, EnabledRows
<1>3. peers \in 0..MaxPeers /\ cuts \in 0..MaxCuts
  BY PeerFileConstants DEF Init
<1>4. line \in AnyLine /\ ~Marker(line)
  BY DEF Section, Line, AnyLine, Named, Marker
<1> HIDE DEF line
<1>5. text = <<line>>
  BY DEF Init, line
<1>6. text \in Seq(AnyLine) /\ \A i \in DOMAIN text : ~Marker(text[i])
  BY <1>4, <1>5
<1>7. Sole(text) /\ Closed(text)
  BY <1>6 DEF Sole, Closed, Marker
<1> QED BY <1>1, <1>2, <1>3, <1>6, <1>7 DEF Layout, Framed, Owned

(***************************************************************************)
(* The three lines of a peer written by hand.                              *)
(***************************************************************************)
Manual(k, allowed, bare) ==
    <<Section("peer"), Line("key", k, bare), Line("allowed", allowed, bare)>>

LEMMA ManualLines ==
    ASSUME NEW k \in HandKeys, NEW allowed \in HandNetworks,
           NEW bare \in BOOLEAN
    PROVE  /\ Manual(k, allowed, bare) \in Seq(AnyLine)
           /\ Len(Manual(k, allowed, bare)) = 3
           /\ \A j \in 1..3 : ~Marker(Manual(k, allowed, bare)[j])
<1>1. /\ Section("peer") \in AnyLine /\ Line("key", k, bare) \in AnyLine
      /\ Line("allowed", allowed, bare) \in AnyLine
  BY PeerFileConstants DEF Section, Line, AnyLine, Named
<1>2. /\ ~Marker(Section("peer")) /\ ~Marker(Line("key", k, bare))
      /\ ~Marker(Line("allowed", allowed, bare))
  BY DEF Section, Line, Marker
<1>3. \A v1, v2, v3 \in AnyLine :
         LET v == <<v1, v2, v3>>
         IN  /\ v \in Seq(AnyLine) /\ Len(v) = 3
             /\ v[1] = v1 /\ v[2] = v2 /\ v[3] = v3
  OBVIOUS
<1> QED BY <1>1, <1>2, <1>3 DEF Manual

LEMMA LayoutStep == Layout /\ [Next]_vars => Layout'
<1> SUFFICES ASSUME Layout, [Next]_vars PROVE Layout'
  OBVIOUS
<1>0. Places'
  BY PlacesKept DEF Layout
<1>1. /\ rows \in [Device -> {NoOne} \cup Row] /\ Framed(text)
      /\ peers \in 0..MaxPeers /\ cuts \in 0..MaxCuts
      /\ (cuts = MaxCuts => Owned)
  BY DEF Layout
<1>2. ASSUME NEW d \in Device, NEW k \in Key, Enroll(d, k)
      PROVE  Layout'
  <2> DEFINE a == Lowest(Free)
             r == [key |-> k, address |-> a, enabled |-> TRUE]
  <2>1. a \in Nat
    <3>1. Free \subseteq Nat /\ Free # {}
      BY <1>2 DEF Enroll, Free, Hosts, Layout, Places
    <3> QED BY <3>1, LowestIsOne
  <2>2. /\ rows[d] = NoOne /\ rows' = [rows EXCEPT ![d] = r]
        /\ text' = Ensured(text, d, k, a) /\ Paired(text, d)
        /\ peers' = peers /\ cuts' = cuts
    BY <1>2 DEF Enroll, CanEnsure
  <2> HIDE DEF a
  <2>3. r \in Row /\ r # NoOne
    <3>1. r \in Row
      BY <2>1 DEF Row
    <3>2. NoOne \notin Row
      BY NoOneIsNoRow DEF Row
    <3> QED BY <3>1, <3>2
  <2>4. /\ rows' \in [Device -> {NoOne} \cup Row] /\ rows'[d] = r
        /\ \A e \in Device \ {d} : rows'[e] = rows[e]
    BY <1>1, <2>2, <2>3
  <2>5. EnabledRows' = EnabledRows \cup {d}
    BY <2>3, <2>4 DEF EnabledRows
  <2>6. \A e \in EnabledRows \ {d} : rows'[e] = rows[e]
    BY <2>4 DEF EnabledRows
  <2>7. rows'[d].key = k /\ rows'[d].address = a
    BY <2>4
  <2>8. cuts' = MaxCuts => Owned'
    BY <1>1, <2>1, <2>2, <2>5, <2>6, <2>7, EnsureOwned
  <2>9. Framed(text)'
    <3>1. Framed(text')
      BY <1>1, <2>1, <2>2, EnsuredFramed
    <3> QED BY <3>1 DEF Framed, Sole, Closed
  <2> QED BY <1>0, <1>1, <2>2, <2>4, <2>8, <2>9 DEF Layout
<1>3. ASSUME NEW d \in Device, EnsureAgain(d)
      PROVE  Layout'
  <2>1. /\ d \in EnabledRows /\ rows' = rows
        /\ peers' = peers /\ cuts' = cuts
        /\ text' = Ensured(text, d, rows[d].key, rows[d].address)
        /\ Paired(text, d)
    BY <1>3 DEF EnsureAgain, CanEnsure, EnabledRows
  <2>2. rows[d].key \in Key /\ rows[d].address \in Nat
    BY <1>1, <2>1 DEF EnabledRows, Row
  <2>3. EnabledRows' = EnabledRows \cup {d}
    BY <2>1 DEF EnabledRows
  <2>4. cuts' = MaxCuts => Owned'
    BY <1>1, <2>1, <2>2, <2>3, EnsureOwned
  <2>5. Framed(text)'
    <3>1. Framed(text')
      BY <1>1, <2>1, <2>2, EnsuredFramed
    <3> QED BY <3>1 DEF Framed, Sole, Closed
  <2> QED BY <1>0, <1>1, <2>1, <2>4, <2>5 DEF Layout
<1>4. ASSUME NEW d \in Device, Revoke(d)
      PROVE  Layout'
  <2>1. /\ d \in EnabledRows /\ peers' = peers /\ cuts' = cuts
        /\ rows' = [rows EXCEPT ![d].enabled = FALSE]
        /\ text' = Strip(text, d) /\ Paired(text, d)
    BY <1>4 DEF Revoke, EnabledRows
  <2>2. rows[d] \in Row
    BY <1>1, <2>1 DEF EnabledRows
  <2>3. /\ rows' \in [Device -> {NoOne} \cup Row]
        /\ rows'[d].enabled = FALSE
        /\ \A e \in Device \ {d} : rows'[e] = rows[e]
    BY <1>1, <2>1, <2>2 DEF Row
  <2>4. EnabledRows' = EnabledRows \ {d}
    BY <2>3 DEF EnabledRows
  <2>5. \A e \in EnabledRows \ {d} : rows'[e] = rows[e]
    BY <2>3 DEF EnabledRows
  <2>6. cuts' = MaxCuts => Owned'
    BY <1>1, <2>1, <2>4, <2>5, RevokeOwned
  <2>7. Framed(text)'
    <3>1. Framed(text')
      BY <1>1, <2>1, StripFramed
    <3> QED BY <3>1 DEF Framed, Sole, Closed
  <2> QED BY <1>0, <1>1, <2>1, <2>3, <2>6, <2>7 DEF Layout
<1>5. ASSUME NEW k \in HandKeys, NEW allowed \in HandNetworks,
             NEW bare \in BOOLEAN, NEW i \in 2..Len(text) + 1,
             WritePeer(k, allowed, bare, i)
      PROVE  Layout'
  <2> DEFINE w == Manual(k, allowed, bare)
  <2>1. /\ w \in Seq(AnyLine) /\ Len(w) = 3
        /\ \A j \in 1..3 : ~Marker(w[j])
    BY ManualLines
  <2>2. /\ \A be \in Blocks(text) : i \notin be[1] + 1 .. be[2]
        /\ text' = Inserted(text, i, w) /\ rows' = rows /\ cuts' = cuts
        /\ peers > 0 /\ peers' = peers - 1
    BY <1>5 DEF WritePeer, Manual, Inserted
  <2> HIDE DEF w
  <2>3. cuts' = MaxCuts => Owned'
    BY <1>1, <2>1, <2>2, WriteOwned
  <2>4. Framed(text)'
    <3>1. Framed(text')
      BY <1>1, <2>1, <2>2, WriteFramed
    <3> QED BY <3>1 DEF Framed, Sole, Closed
  <2>5. peers' \in 0..MaxPeers
    BY <1>1, <2>2, PeerFileConstants
  <2> QED BY <1>0, <1>1, <2>2, <2>3, <2>4, <2>5 DEF Layout
<1>6. ASSUME NEW i \in DOMAIN text, CutLine(i)
      PROVE  Layout'
  <2>1. /\ rows' = rows /\ peers' = peers /\ cuts > 0 /\ cuts' = cuts - 1
        /\ text' = RemoveAt(text, i)
    BY <1>6 DEF CutLine
  <2>2. Framed(text)'
    <3>1. Framed(text')
      BY <1>1, <2>1, CutFramed
    <3> QED BY <3>1 DEF Framed, Sole, Closed
  <2>3. cuts' \in 0..MaxCuts /\ cuts' # MaxCuts
    BY <1>1, <2>1, PeerFileConstants
  <2> QED BY <1>0, <1>1, <2>1, <2>2, <2>3 DEF Layout
<1>7. CASE UNCHANGED vars
  <2>1. Owned => Owned'
    BY <1>7 DEF vars, Owned, EnabledRows, Stands, Marker
  <2> QED BY <1>0, <1>1, <1>7, <2>1 DEF Layout, vars, Framed, Sole, Closed
<1> QED BY <1>2, <1>3, <1>4, <1>5, <1>6, <1>7 DEF Next

LEMMA AlwaysLayout == Spec => []Layout
BY LayoutInit, LayoutStep, PTL DEF Spec

-----------------------------------------------------------------------------
(***************************************************************************)
(* Where each enabled row has its block and no other device a marker,      *)
(* there are no other blocks, and each says what its row says.             *)
(***************************************************************************)
LEMMA BlockOf ==
    ASSUME Framed(text), Owned, NEW be \in Blocks(text)
    PROVE  \E d \in EnabledRows : /\ Stands(text, be[1], d, rows[d])
                                  /\ be = <<be[1], be[1] + 4>>
                                  /\ text[be[1]].of = d
<1>1. /\ be = <<be[1], be[2]>>
      /\ be[1] \in DOMAIN text /\ be[2] \in DOMAIN text
      /\ text[be[1]].is = "begin" /\ IsEnd(text[be[2]], text[be[1]].of)
  BY BlockHas
<1> DEFINE d == text[be[1]].of
<1>2. d \in EnabledRows
  BY <1>1 DEF Owned, Marker
<1>3. PICK b \in DOMAIN text : Stands(text, b, d, rows[d])
  BY <1>2 DEF Owned
<1>4. /\ b + 4 \in DOMAIN text
      /\ text[b].is = "begin" /\ text[b].of = d
      /\ text[b + 4].is = "end" /\ text[b + 4].of = d
  BY <1>3 DEF Stands, Line
<1>5. be[1] = b
  BY <1>1, <1>4 DEF Framed, Sole, Marker
<1>6. be[2] = b + 4
  BY <1>1, <1>4 DEF Framed, Sole, Marker, IsEnd
<1> QED BY <1>1, <1>2, <1>3, <1>5, <1>6

LEMMA RowStands ==
    ASSUME Framed(text), NEW d, NEW b \in DOMAIN text, NEW r,
           Stands(text, b, d, r)
    PROVE  <<b, b + 4>> \in Blocks(text) /\ text[b].of = d
<1>1. /\ b + 4 \in DOMAIN text
      /\ text[b].is = "begin" /\ text[b].of = d /\ IsEnd(text[b + 4], d)
  BY DEF Stands, Line, IsEnd
<1> QED BY <1>1, BlockIs

LEMMA BlocksCounted ==
    ASSUME Framed(text), Owned
    PROVE  Cardinality(Blocks(text)) = Cardinality(EnabledRows)
<1> DEFINE B == Blocks(text)
           g == [be \in B |-> text[be[1]].of]
<1>1. IsFiniteSet(B)
  <2>1. IsFiniteSet(DOMAIN text)
    <3>1. DOMAIN text = 1..Len(text) /\ Len(text) \in Nat
      BY DEF Framed
    <3> QED BY <3>1, FS_Interval
  <2>2. IsFiniteSet((DOMAIN text) \X (DOMAIN text))
    BY <2>1, FS_Product
  <2>3. B \in SUBSET ((DOMAIN text) \X (DOMAIN text))
    BY DEF Blocks
  <2> QED BY <2>2, <2>3, FS_Subset
<1>2. \A be \in B : /\ g[be] \in EnabledRows
                    /\ Stands(text, be[1], g[be], rows[g[be]])
                    /\ be = <<be[1], be[1] + 4>>
  BY BlockOf
<1>3. g \in [B -> EnabledRows]
  BY <1>2
<1>4. ASSUME NEW be \in B, NEW ce \in B, g[be] = g[ce]
      PROVE  be = ce
  <2>1. be[1] = ce[1]
    <3>1. /\ text[be[1]].is = "begin" /\ text[ce[1]].is = "begin"
          /\ text[be[1]].of = text[ce[1]].of
          /\ be[1] \in DOMAIN text /\ ce[1] \in DOMAIN text
      BY <1>4, BlockHas
    <3> QED BY <3>1 DEF Framed, Sole, Marker
  <2> QED BY <1>2, <2>1
<1>5. ASSUME NEW d \in EnabledRows
      PROVE  \E be \in B : g[be] = d
  <2>1. PICK b \in DOMAIN text : Stands(text, b, d, rows[d])
    BY DEF Owned
  <2>2. <<b, b + 4>> \in B /\ text[b].of = d
    BY <2>1, RowStands
  <2> QED BY <2>2
<1>6. g \in Bijection(B, EnabledRows)
  <2> HIDE DEF B, g
  <2>1. g \in Injection(B, EnabledRows)
    BY <1>3, <1>4 DEF Injection, IsInjective
  <2>2. g \in Surjection(B, EnabledRows)
    BY <1>3, <1>5 DEF Surjection
  <2> QED BY <2>1, <2>2 DEF Bijection
<1>7. ExistsBijection(B, EnabledRows)
  BY <1>6 DEF ExistsBijection
<1> HIDE DEF B
<1> QED BY <1>1, <1>7, FS_Bijection DEF B

(***************************************************************************)
(* What managed_peers reads in a block.                                    *)
(***************************************************************************)
LEMMA BlockSays ==
    ASSUME Framed(text), NEW b, NEW d, NEW r, Stands(text, b, d, r)
    PROVE  {<<text[i].is, text[i].of>> :
              i \in {j \in b..b + 4 : text[j].is \in {"key", "allowed"}}}
             = {<<"key", r.key>>, <<"allowed", {{r.address}}>>}
<1>1. b \in Nat
  <2>1. DOMAIN text = 1..Len(text)
    BY DEF Framed
  <2> QED BY <2>1 DEF Stands
<1>2. b..b + 4 = {b, b + 1, b + 2, b + 3, b + 4}
  BY <1>1
<1>3. {j \in b..b + 4 : text[j].is \in {"key", "allowed"}} = {b + 2, b + 3}
  BY <1>2 DEF Stands, Line, Section
<1>4. /\ text[b + 2].is = "key" /\ text[b + 2].of = r.key
      /\ text[b + 3].is = "allowed" /\ text[b + 3].of = {{r.address}}
  BY DEF Stands, Line
<1> DEFINE T == {j \in b..b + 4 : text[j].is \in {"key", "allowed"}}
<1>5. T = {b + 2, b + 3}
  BY <1>3
<1> HIDE DEF T
<1>6. {<<text[i].is, text[i].of>> : i \in T}
        = {<<text[b + 2].is, text[b + 2].of>>,
           <<text[b + 3].is, text[b + 3].of>>}
  BY <1>5
<1> QED BY <1>4, <1>6 DEF T

(***************************************************************************)
(* ManagedMatchRows for every instance.                                    *)
(***************************************************************************)
THEOREM BlocksAlwaysMatchRows == Spec => []ManagedMatchRows
<1>1. Layout => ManagedMatchRows
  <2> SUFFICES ASSUME Framed(text), Owned
               PROVE  /\ Readable(text)
                      /\ ManagedPeers(text) =
                           {[device |-> d,
                             has |-> {<<"key", rows[d].key>>,
                                      <<"allowed", {{rows[d].address}}>>}] :
                              d \in EnabledRows}
    BY BlocksCounted DEF Layout, ManagedMatchRows
  <2> DEFINE says(be) ==
               {<<text[i].is, text[i].of>> :
                  i \in {j \in be[1]..be[2] :
                           text[j].is \in {"key", "allowed"}}}
             row(d) == {<<"key", rows[d].key>>,
                        <<"allowed", {{rows[d].address}}>>}
  <2>1. Readable(text)
    <3> SUFFICES ASSUME NEW b \in DOMAIN text, text[b].is = "begin"
                 PROVE  \E be \in Blocks(text) : be[1] = b
      BY DEF Readable
    <3>1. text[b].of \in EnabledRows
      BY DEF Owned, Marker
    <3>2. PICK c \in DOMAIN text : Stands(text, c, text[b].of,
                                          rows[text[b].of])
      BY <3>1 DEF Owned
    <3>3. <<c, c + 4>> \in Blocks(text) /\ text[c].of = text[b].of
      BY <3>2, RowStands
    <3>4. text[c].is = "begin"
      BY <3>2 DEF Stands, Line
    <3>5. b = c
      BY <3>3, <3>4 DEF Framed, Sole, Marker
    <3> QED BY <3>3, <3>5
  <2>2. ASSUME NEW be \in Blocks(text)
        PROVE  \E d \in EnabledRows : /\ text[be[1]].of = d
                                      /\ says(be) = row(d)
    <3>1. PICK d \in EnabledRows : /\ Stands(text, be[1], d, rows[d])
                                   /\ be = <<be[1], be[1] + 4>>
                                   /\ text[be[1]].of = d
      BY BlockOf
    <3>2. be[2] = be[1] + 4
      BY <3>1
    <3>3. says(be) = row(d)
      BY <3>1, <3>2, BlockSays
    <3> QED BY <3>1, <3>3
  <2>3. ASSUME NEW d \in EnabledRows
        PROVE  \E be \in Blocks(text) : /\ text[be[1]].of = d
                                        /\ says(be) = row(d)
    <3>1. PICK b \in DOMAIN text : Stands(text, b, d, rows[d])
      BY DEF Owned
    <3>2. <<b, b + 4>> \in Blocks(text) /\ text[b].of = d
      BY <3>1, RowStands
    <3>3. says(<<b, b + 4>>) = row(d)
      BY <3>1, BlockSays
    <3> QED BY <3>2, <3>3
  <2>4. ManagedPeers(text) = {[device |-> text[be[1]].of, has |-> says(be)] :
                                be \in Blocks(text)}
    BY DEF ManagedPeers
  <2> HIDE DEF says, row
  <2>5. {[device |-> text[be[1]].of, has |-> says(be)] : be \in Blocks(text)}
          = {[device |-> d, has |-> row(d)] : d \in EnabledRows}
    BY <2>2, <2>3
  <2> QED BY <2>1, <2>4, <2>5 DEF row
<1> QED BY <1>1, AlwaysLayout, PTL

(***************************************************************************)
(* HandWrittenKept for every instance.                                     *)
(***************************************************************************)
LEMMA EnsureLeavesByHand ==
    ASSUME NEW s, NEW d \in Device, NEW k \in Key, NEW a \in Nat,
           Framed(s), Paired(s, d)
    PROVE  ByHand(Ensured(s, d, k, a)) = ByHand(s)
BY StripLeavesByHand, StripFramed, StripUnmarked, AppendLeavesByHand
   DEF Ensured

THEOREM HandWrittenAlwaysKept == Spec => HandWrittenKept
<1>1. Layout /\ [Next]_vars =>
        [peers' = peers /\ cuts' = cuts => ByHand(text') = ByHand(text)]_vars
  <2> SUFFICES ASSUME Layout, [Next]_vars, peers' = peers, cuts' = cuts
               PROVE  ByHand(text') = ByHand(text)
    OBVIOUS
  <2>1. /\ rows \in [Device -> {NoOne} \cup Row] /\ Framed(text)
        /\ peers \in Nat /\ cuts \in Nat
    BY PeerFileConstants DEF Layout
  <2>2. ASSUME NEW d \in Device, NEW k \in Key, Enroll(d, k)
        PROVE  ByHand(text') = ByHand(text)
    <3>1. Lowest(Free) \in Nat
      <4>1. Free \subseteq Nat /\ Free # {}
        BY <2>2 DEF Enroll, Free, Hosts, Layout, Places
      <4> QED BY <4>1, LowestIsOne
    <3>2. text' = Ensured(text, d, k, Lowest(Free)) /\ Paired(text, d)
      BY <2>2 DEF Enroll, CanEnsure
    <3> QED BY <2>1, <3>1, <3>2, EnsureLeavesByHand
  <2>3. ASSUME NEW d \in Device, EnsureAgain(d)
        PROVE  ByHand(text') = ByHand(text)
    <3>1. /\ text' = Ensured(text, d, rows[d].key, rows[d].address)
          /\ Paired(text, d) /\ rows[d] # NoOne
      BY <2>3 DEF EnsureAgain, CanEnsure
    <3>2. rows[d].key \in Key /\ rows[d].address \in Nat
      BY <2>1, <3>1 DEF Row
    <3> QED BY <2>1, <3>1, <3>2, EnsureLeavesByHand
  <2>4. ASSUME NEW d \in Device, Revoke(d)
        PROVE  ByHand(text') = ByHand(text)
    BY <2>1, <2>4, StripLeavesByHand DEF Revoke
  <2>5. ASSUME NEW k, NEW allowed, NEW bare, NEW i,
               WritePeer(k, allowed, bare, i)
        PROVE  FALSE
    BY <2>1, <2>5 DEF WritePeer
  <2>6. ASSUME NEW i, CutLine(i)
        PROVE  FALSE
    BY <2>1, <2>6 DEF CutLine
  <2>7. CASE UNCHANGED vars
    BY <2>7 DEF vars
  <2> QED BY <2>2, <2>3, <2>4, <2>5, <2>6, <2>7 DEF Next
<1> QED BY <1>1, AlwaysLayout, PTL DEF Spec, HandWrittenKept
=============================================================================
