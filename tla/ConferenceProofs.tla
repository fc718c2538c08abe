-------------------------- MODULE ConferenceProofs --------------------------
(***************************************************************************)
(* Proofs about module Conference: its types, ConversationsApart and       *)
(* RecorderOpen, for any number of calls, recorders and tabs.              *)
(*                                                                         *)
(* Neither property is inductive: a call could inherit the connections of  *)
(* its port from who had the port before, and a recorder could be given    *)
(* away while a call refers to it.  Sane adds what rules that out: the     *)
(* ports in use are distinct, a port that is not in use is connected with  *)
(* nothing, only calls that exist have one, and calls yet to come are      *)
(* neither members nor recorded.  It is shown of each function in the      *)
(* order of the calls between them, the loops by induction on the number   *)
(* of turns, and then of each step.                                        *)
(***************************************************************************)
EXTENDS Conference, FiniteSetTheorems, WellFoundedInduction, TLAPS

-----------------------------------------------------------------------------
(* Numbers and loops.                                                      *)

\* A set of naturals has a least member.
LEMMA Least ==
  ASSUME NEW T, NEW m \in T, T \subseteq Nat
  PROVE  \E n \in T : \A k \in T : n <= k
<1>. DEFINE U == FiniteSubsetsOf(0..m)
            R == StrictSubsetOrdering(0..m)
            B == {0..k : k \in T \cap (0..m)}
<1>1. B \subseteq U
  <2>1. \A k \in 0..m : 0..k \subseteq 0..m /\ IsFiniteSet(0..k)
    BY FS_Interval
  <2>. QED  BY <2>1 DEF FiniteSubsetsOf
<1>2. B # {}
  OBVIOUS
<1>3. PICK b \in B : \A y \in B : <<y, b>> \notin R
  <2>1. IsWellFoundedOn(R, U)
    BY FS_StrictSubsetOrderingWellFounded
  <2>. HIDE DEF U, R, B
  <2>. QED  BY <1>1, <1>2, <2>1, WFMin
<1>4. PICK n \in T \cap (0..m) : b = 0..n
  OBVIOUS
<1>5. ASSUME NEW k \in T, k < n
      PROVE  FALSE
  <2>1. 0..k \in B /\ 0..k \subseteq b /\ 0..k # b /\ b \subseteq 0..m /\ 0..k \subseteq 0..m
    BY <1>4, <1>5
  <2>. QED  BY <1>3, <2>1 DEF StrictSubsetOrdering
<1>. QED  BY <1>4, <1>5

LEMMA MinIn ==
  ASSUME NEW T, T # {}, T \subseteq Nat
  PROVE  Min(T) \in T /\ \A k \in T : Min(T) <= k
<1>1. \E n \in T : \A k \in T : n <= k
  BY Least
<1>. QED  BY <1>1 DEF Min

\* Induction, in terms of the set of numbers that have the property.
LEMMA UpTo ==
  ASSUME NEW T, 0 \in T, \A n \in Nat : n \in T => n + 1 \in T
  PROVE  Nat \subseteq T
<1>. SUFFICES ASSUME NEW m \in Nat \ T PROVE FALSE
  OBVIOUS
<1>1. PICK n \in Nat \ T : \A k \in Nat \ T : n <= k
  BY Least
<1>2. n # 0 /\ n - 1 \in Nat
  BY <1>1
<1>3. n - 1 \in T
  BY <1>1, <1>2
<1>. QED  BY <1>1, <1>2, <1>3

\* What holds before a loop and is kept by every turn holds after it: after[k]
\* is what the first k turns leave, and I the set of the pairs <<k, after[k]>>
\* that are allowed.
LEMMA Turns ==
  ASSUME NEW after, NEW I, <<0, after[0]>> \in I,
         \A k \in Calls : <<k - 1, after[k - 1]>> \in I => <<k, after[k]>> \in I
  PROVE  <<NCalls, after[NCalls]>> \in I
<1>. DEFINE T == {n \in Nat : n <= NCalls => <<n, after[n]>> \in I}
<1>1. 0 \in T
  BY ConferenceAssumption
<1>2. ASSUME NEW n \in Nat, n \in T
      PROVE  n + 1 \in T
  <2>. SUFFICES ASSUME n + 1 <= NCalls PROVE <<n + 1, after[n + 1]>> \in I
    OBVIOUS
  <2>1. n + 1 \in Calls /\ (n + 1) - 1 = n /\ n <= NCalls
    BY ConferenceAssumption DEF Calls
  <2>. QED  BY <1>2, <2>1
<1>3. NCalls \in T
  <2>. HIDE DEF T
  <2>. QED  BY <1>1, <1>2, UpTo, ConferenceAssumption
<1>. QED  BY <1>3, ConferenceAssumption

\* There is a sequence of what the turns leave, whatever a turn does: G says it
\* for the turns that I allows.
Follows(g, w, G) == g = [k \in 0..NCalls |-> IF k = 0 THEN w ELSE G[<<k, g[k - 1]>>]]

LEMMA Sequence ==
  ASSUME NEW G, NEW w, NEW I, <<0, w>> \in I,
         \A k \in Calls : \A v : <<k - 1, v>> \in I => <<k, G[<<k, v>>]>> \in I
  PROVE  \E g : Follows(g, w, G) /\ \A k \in Calls : <<k - 1, g[k - 1]>> \in I
<1>. DEFINE F(g, n) == g = [k \in 0..n |-> IF k = 0 THEN w ELSE G[<<k, g[k - 1]>>]]
            T == {n \in Nat : \E g : F(g, n)}
<1>1. 0 \in T
  <2>1. F([k \in 0..0 |-> w], 0)
    OBVIOUS
  <2>. QED  BY <2>1
<1>2. ASSUME NEW n \in Nat, n \in T
      PROVE  n + 1 \in T
  <2>1. PICK g : F(g, n)
    BY <1>2
  <2>. DEFINE h == [k \in 0..(n + 1) |-> IF k <= n THEN g[k] ELSE G[<<n + 1, g[n]>>]]
  <2>2. h[0] = w /\ h[n + 1] = G[<<n + 1, h[(n + 1) - 1]>>]
    <3>1. h[n + 1] = G[<<n + 1, g[n]>>] /\ h[n] = g[n] /\ h[0] = g[0] /\ (n + 1) - 1 = n
      OBVIOUS
    <3>2. g[0] = w
      BY <2>1
    <3>. HIDE DEF h, F
    <3>. QED  BY <3>1, <3>2
  <2>3. \A k \in 0..n : k # 0 => h[k] = G[<<k, h[k - 1]>>]
    BY <2>1
  <2>4. F(h, n + 1)
    <3>1. h = [k \in 0..(n + 1) |-> h[k]]
      OBVIOUS
    <3>. HIDE DEF h
    <3>2. \A k \in 0..(n + 1) : h[k] = IF k = 0 THEN w ELSE G[<<k, h[k - 1]>>]
      <4>. TAKE k \in 0..(n + 1)
      <4>1. CASE k = n + 1
        BY <4>1, <2>2
      <4>2. CASE k \in 0..n
        BY <4>2, <2>2, <2>3
      <4>. QED  BY <4>1, <4>2
    <3>. QED  BY <3>1, <3>2
  <2>. HIDE DEF h
  <2>. QED  BY <2>4
<1>3. NCalls \in T
  <2>. HIDE DEF T
  <2>. QED  BY <1>1, <1>2, UpTo, ConferenceAssumption
<1>4. PICK g : F(g, NCalls)
  BY <1>3
<1>. HIDE DEF T
<1>5. g[0] = w /\ \A k \in Calls : g[k] = G[<<k, g[k - 1]>>]
  BY <1>4, ConferenceAssumption DEF Calls
<1>. DEFINE J == {n \in Nat : n <= NCalls => <<n, g[n]>> \in I}
<1>6. 0 \in J
  BY <1>5
<1>7. ASSUME NEW n \in Nat, n \in J
      PROVE  n + 1 \in J
  <2>. SUFFICES ASSUME n + 1 <= NCalls PROVE <<n + 1, g[n + 1]>> \in I
    OBVIOUS
  <2>1. n + 1 \in Calls /\ (n + 1) - 1 = n /\ n <= NCalls
    BY ConferenceAssumption DEF Calls
  <2>. QED  BY <1>5, <1>7, <2>1
<1>8. Nat \subseteq J
  <2>. HIDE DEF J
  <2>. QED  BY <1>6, <1>7, UpTo
<1>9. \A k \in Calls : <<k - 1, g[k - 1]>> \in I
  BY <1>8, ConferenceAssumption DEF Calls
<1>. QED  BY <1>4, <1>9 DEF Follows

\* The loops of the specification.  (One lemma for each body: the provers do
\* not take a body as a parameter.)
JoinEach(S, w, c)  == InOrder(S, LAMBDA v, b : JoinOne(v, c, b), w)
MergeEach(S, w, s) == InOrder(S, LAMBDA v, d : MergeWith(v, s, d), w)
LeaveEach(S, w)    == InOrder(S, LAMBDA v, b : Leave(v, b, v.port[b], FALSE), w)
EndEach(S, x)      == InOrder(S, EndMember, x)

LEMMA JoinLoop ==
  ASSUME NEW S, NEW w, NEW c, NEW I, <<0, w>> \in I,
         \A k \in Calls : \A v : <<k - 1, v>> \in I =>
            <<k, IF k \in S THEN JoinOne(v, c, k) ELSE v>> \in I
  PROVE  <<NCalls, JoinEach(S, w, c)>> \in I
<1>. DEFINE body(k, v) == IF k \in S THEN JoinOne(v, c, k) ELSE v
            V == {y[2] : y \in I}
            G == [y \in Calls \X V |-> body(y[1], y[2])]
            F(g) == g = [k \in 0..NCalls |-> IF k = 0 THEN w ELSE body(k, g[k - 1])]
            after == CHOOSE g : F(g)
<1>1. JoinEach(S, w, c) = after[NCalls]
  BY DEF InOrder, JoinEach
<1>. HIDE DEF body
<1>2. \A k \in Calls : \A v : <<k - 1, v>> \in I => <<k, v>> \in Calls \X V /\ G[<<k, v>>] = body(k, v)
  OBVIOUS
<1>3. \A k \in Calls : \A v : <<k - 1, v>> \in I => <<k, G[<<k, v>>]>> \in I
  BY <1>2 DEF body
<1>4. PICK g : Follows(g, w, G) /\ \A k \in Calls : <<k - 1, g[k - 1]>> \in I
  <2>. HIDE DEF G
  <2>. QED  BY <1>3, Sequence
<1>5. F(g)
  <2>1. \A k \in 0..NCalls : k # 0 => G[<<k, g[k - 1]>>] = body(k, g[k - 1])
    <3>. HIDE DEF G
    <3>. SUFFICES ASSUME NEW k \in 0..NCalls, k # 0
                  PROVE  G[<<k, g[k - 1]>>] = body(k, g[k - 1])
      OBVIOUS
    <3>1. k \in Calls
      BY ConferenceAssumption DEF Calls
    <3>2. <<k - 1, g[k - 1]>> \in I
      BY <1>4, <3>1
    <3>. QED  BY <1>2, <3>1, <3>2
  <2>. HIDE DEF G
  <2>. QED  BY <1>4, <2>1 DEF Follows
<1>6. F(after)
  <2>. HIDE DEF F
  <2>. QED  BY <1>5
<1>. HIDE DEF after
<1>7. after[0] = w /\ \A k \in Calls : after[k] = body(k, after[k - 1])
  BY <1>6, ConferenceAssumption DEF Calls
<1>8. <<NCalls, after[NCalls]>> \in I
  BY <1>7, Turns DEF body
<1>. QED  BY <1>1, <1>8

LEMMA MergeLoop ==
  ASSUME NEW S, NEW w, NEW s, NEW I, <<0, w>> \in I,
         \A k \in Calls : \A v : <<k - 1, v>> \in I =>
            <<k, IF k \in S THEN MergeWith(v, s, k) ELSE v>> \in I
  PROVE  <<NCalls, MergeEach(S, w, s)>> \in I
<1>. DEFINE body(k, v) == IF k \in S THEN MergeWith(v, s, k) ELSE v
            V == {y[2] : y \in I}
            G == [y \in Calls \X V |-> body(y[1], y[2])]
            F(g) == g = [k \in 0..NCalls |-> IF k = 0 THEN w ELSE body(k, g[k - 1])]
            after == CHOOSE g : F(g)
<1>1. MergeEach(S, w, s) = after[NCalls]
  BY DEF InOrder, MergeEach
<1>. HIDE DEF body
<1>2. \A k \in Calls : \A v : <<k - 1, v>> \in I => <<k, v>> \in Calls \X V /\ G[<<k, v>>] = body(k, v)
  OBVIOUS
<1>3. \A k \in Calls : \A v : <<k - 1, v>> \in I => <<k, G[<<k, v>>]>> \in I
  BY <1>2 DEF body
<1>4. PICK g : Follows(g, w, G) /\ \A k \in Calls : <<k - 1, g[k - 1]>> \in I
  <2>. HIDE DEF G
  <2>. QED  BY <1>3, Sequence
<1>5. F(g)
  <2>1. \A k \in 0..NCalls : k # 0 => G[<<k, g[k - 1]>>] = body(k, g[k - 1])
    <3>. HIDE DEF G
    <3>. SUFFICES ASSUME NEW k \in 0..NCalls, k # 0
                  PROVE  G[<<k, g[k - 1]>>] = body(k, g[k - 1])
      OBVIOUS
    <3>1. k \in Calls
      BY ConferenceAssumption DEF Calls
    <3>2. <<k - 1, g[k - 1]>> \in I
      BY <1>4, <3>1
    <3>. QED  BY <1>2, <3>1, <3>2
  <2>. HIDE DEF G
  <2>. QED  BY <1>4, <2>1 DEF Follows
<1>6. F(after)
  <2>. HIDE DEF F
  <2>. QED  BY <1>5
<1>. HIDE DEF after
<1>7. after[0] = w /\ \A k \in Calls : after[k] = body(k, after[k - 1])
  BY <1>6, ConferenceAssumption DEF Calls
<1>8. <<NCalls, after[NCalls]>> \in I
  BY <1>7, Turns DEF body
<1>. QED  BY <1>1, <1>8

LEMMA LeaveLoop ==
  ASSUME NEW S, NEW w, NEW I, <<0, w>> \in I,
         \A k \in Calls : \A v : <<k - 1, v>> \in I =>
            <<k, IF k \in S THEN Leave(v, k, v.port[k], FALSE) ELSE v>> \in I
  PROVE  <<NCalls, LeaveEach(S, w)>> \in I
<1>. DEFINE body(k, v) == IF k \in S THEN Leave(v, k, v.port[k], FALSE) ELSE v
            V == {y[2] : y \in I}
            G == [y \in Calls \X V |-> body(y[1], y[2])]
            F(g) == g = [k \in 0..NCalls |-> IF k = 0 THEN w ELSE body(k, g[k - 1])]
            after == CHOOSE g : F(g)
<1>1. LeaveEach(S, w) = after[NCalls]
  BY DEF InOrder, LeaveEach
<1>. HIDE DEF body
<1>2. \A k \in Calls : \A v : <<k - 1, v>> \in I => <<k, v>> \in Calls \X V /\ G[<<k, v>>] = body(k, v)
  OBVIOUS
<1>3. \A k \in Calls : \A v : <<k - 1, v>> \in I => <<k, G[<<k, v>>]>> \in I
  BY <1>2 DEF body
<1>4. PICK g : Follows(g, w, G) /\ \A k \in Calls : <<k - 1, g[k - 1]>> \in I
  <2>. HIDE DEF G
  <2>. QED  BY <1>3, Sequence
<1>5. F(g)
  <2>1. \A k \in 0..NCalls : k # 0 => G[<<k, g[k - 1]>>] = body(k, g[k - 1])
    <3>. HIDE DEF G
    <3>. SUFFICES ASSUME NEW k \in 0..NCalls, k # 0
                  PROVE  G[<<k, g[k - 1]>>] = body(k, g[k - 1])
      OBVIOUS
    <3>1. k \in Calls
      BY ConferenceAssumption DEF Calls
    <3>2. <<k - 1, g[k - 1]>> \in I
      BY <1>4, <3>1
    <3>. QED  BY <1>2, <3>1, <3>2
  <2>. HIDE DEF G
  <2>. QED  BY <1>4, <2>1 DEF Follows
<1>6. F(after)
  <2>. HIDE DEF F
  <2>. QED  BY <1>5
<1>. HIDE DEF after
<1>7. after[0] = w /\ \A k \in Calls : after[k] = body(k, after[k - 1])
  BY <1>6, ConferenceAssumption DEF Calls
<1>8. <<NCalls, after[NCalls]>> \in I
  BY <1>7, Turns DEF body
<1>. QED  BY <1>1, <1>8

LEMMA EndLoop ==
  ASSUME NEW S, NEW x, NEW I, <<0, x>> \in I,
         \A k \in Calls : \A v : <<k - 1, v>> \in I =>
            <<k, IF k \in S THEN EndMember(v, k) ELSE v>> \in I
  PROVE  <<NCalls, EndEach(S, x)>> \in I
<1>. DEFINE body(k, v) == IF k \in S THEN EndMember(v, k) ELSE v
            V == {y[2] : y \in I}
            G == [y \in Calls \X V |-> body(y[1], y[2])]
            F(g) == g = [k \in 0..NCalls |-> IF k = 0 THEN x ELSE body(k, g[k - 1])]
            after == CHOOSE g : F(g)
<1>1. EndEach(S, x) = after[NCalls]
  BY DEF InOrder, EndEach
<1>. HIDE DEF body
<1>2. \A k \in Calls : \A v : <<k - 1, v>> \in I => <<k, v>> \in Calls \X V /\ G[<<k, v>>] = body(k, v)
  OBVIOUS
<1>3. \A k \in Calls : \A v : <<k - 1, v>> \in I => <<k, G[<<k, v>>]>> \in I
  BY <1>2 DEF body
<1>4. PICK g : Follows(g, x, G) /\ \A k \in Calls : <<k - 1, g[k - 1]>> \in I
  <2>. HIDE DEF G
  <2>. QED  BY <1>3, Sequence
<1>5. F(g)
  <2>1. \A k \in 0..NCalls : k # 0 => G[<<k, g[k - 1]>>] = body(k, g[k - 1])
    <3>. HIDE DEF G
    <3>. SUFFICES ASSUME NEW k \in 0..NCalls, k # 0
                  PROVE  G[<<k, g[k - 1]>>] = body(k, g[k - 1])
      OBVIOUS
    <3>1. k \in Calls
      BY ConferenceAssumption DEF Calls
    <3>2. <<k - 1, g[k - 1]>> \in I
      BY <1>4, <3>1
    <3>. QED  BY <1>2, <3>1, <3>2
  <2>. HIDE DEF G
  <2>. QED  BY <1>4, <2>1 DEF Follows
<1>6. F(after)
  <2>. HIDE DEF F
  <2>. QED  BY <1>5
<1>. HIDE DEF after
<1>7. after[0] = x /\ \A k \in Calls : after[k] = body(k, after[k - 1])
  BY <1>6, ConferenceAssumption DEF Calls
<1>8. <<NCalls, after[NCalls]>> \in I
  BY <1>7, Turns DEF body
<1>. QED  BY <1>1, <1>8

-----------------------------------------------------------------------------
(* The inductive invariant.                                                *)

\* What holds a port: the sound card, a call with media, an open recorder.
Taken(w) ==
  {SoundCard} \cup {w.port[c] : c \in Calls} \cup {w.rport[r] : r \in Recorders}

\* No two of them hold the same one.
Distinct(w) ==
  /\ \A c, d \in Calls : w.port[c] = w.port[d] => c = d \/ w.port[c] = None
  /\ \A c \in Calls, r \in Recorders : w.port[c] = w.rport[r] => w.port[c] = None
  /\ \A c \in Calls : w.port[c] # SoundCard
  /\ \A r \in Recorders : w.rport[r] # SoundCard

\* A port that nobody holds is connected with nothing, so that who gets it
\* next hears nobody.
Wired(w) == \A e \in w.wire : e[1] \in Taken(w) /\ e[2] \in Taken(w)

\* Two calls whose ports are connected are in the conference, or D has one.
Apart(w, D) ==
  \A c, d \in Calls :
    (c # d /\ <<w.port[c], w.port[d]>> \in w.wire)
      => {c, d} \subseteq w.conf \/ {c, d} \cap D # {}

\* The mixer while L are the calls that exist, U those yet to come and D those
\* that were dropped.
Sane(w, L, U, D) ==
  /\ w \in Mixer
  /\ Distinct(w) /\ Wired(w) /\ Apart(w, D)
  /\ \A c \in Calls : w.port[c] # None => c \in L
  /\ \A c \in L : w.rec[c] # None => w.rport[w.rec[c]] # None
  /\ \A c \in U : w.rec[c] = None /\ c \notin w.conf

-----------------------------------------------------------------------------
(* The bridge.                                                             *)

LEMMA Numbers ==
  /\ Calls \subseteq Nat /\ Recorders \subseteq Nat /\ Ports \subseteq Nat
  /\ IsFiniteSet(Calls) /\ IsFiniteSet(Recorders) /\ IsFiniteSet(Ports)
  /\ Cardinality(Calls) = NCalls /\ Cardinality(Recorders) = MaxRec
  /\ Cardinality(Ports) = NCalls + MaxRec + 1
  /\ None \notin Ports /\ None \notin Recorders /\ SoundCard \in Ports
<1>1. NCalls \in Nat /\ MaxRec \in Nat
  BY ConferenceAssumption
<1>2. IsFiniteSet(1..NCalls) /\ Cardinality(1..NCalls) = NCalls
  <2>1. Cardinality(1..NCalls) = IF 1 > NCalls THEN 0 ELSE NCalls - 1 + 1
    BY <1>1, FS_Interval
  <2>. QED  BY <1>1, <2>1, FS_Interval
<1>3. IsFiniteSet(1..MaxRec) /\ Cardinality(1..MaxRec) = MaxRec
  <2>1. Cardinality(1..MaxRec) = IF 1 > MaxRec THEN 0 ELSE MaxRec - 1 + 1
    BY <1>1, FS_Interval
  <2>. QED  BY <1>1, <2>1, FS_Interval
<1>4. IsFiniteSet(0..(NCalls + MaxRec)) /\ Cardinality(0..(NCalls + MaxRec)) = NCalls + MaxRec + 1
  <2>. DEFINE n == NCalls + MaxRec
  <2>1. n \in Nat
    BY <1>1
  <2>2. Cardinality(0..n) = IF 0 > n THEN 0 ELSE n - 0 + 1
    BY <2>1, FS_Interval
  <2>3. IsFiniteSet(0..n)
    BY <2>1, FS_Interval
  <2>. QED  BY <1>1, <2>1, <2>2, <2>3
<1>. QED  BY <1>1, <1>2, <1>3, <1>4 DEF Calls, Recorders, Ports, SoundCard, None

\* There are as many ports as there can be users, so there is a free one for a
\* call or a recorder that has none.
LEMMA FreePortFree ==
  ASSUME NEW w, w \in Mixer,
         (\E c \in Calls : w.port[c] = None) \/ (\E r \in Recorders : w.rport[r] = None)
  PROVE  FreePort(w) \in Ports \ Taken(w)
<1>. DEFINE P == {w.port[c] : c \in Calls}
            R == {w.rport[r] : r \in Recorders}
            T == Taken(w) \cap Ports
<1>1. IsFiniteSet(P) /\ Cardinality(P) <= NCalls /\ Cardinality(P) \in Nat
  <2>. DEFINE f == [c \in Calls |-> w.port[c]]
  <2>1. f \in Surjection(Calls, P)
    BY DEF Surjection
  <2>. QED  BY <2>1, Numbers, FS_Surjection, FS_CardinalityType
<1>2. IsFiniteSet(R) /\ Cardinality(R) <= MaxRec /\ Cardinality(R) \in Nat
  <2>. DEFINE f == [r \in Recorders |-> w.rport[r]]
  <2>1. f \in Surjection(Recorders, R)
    BY DEF Surjection
  <2>. QED  BY <2>1, Numbers, FS_Surjection, FS_CardinalityType
<1>3. IsFiniteSet(P \cup R) /\ Cardinality(P \cup R) <= NCalls + MaxRec
      /\ Cardinality(P \cup R) \in Nat
  <2>1. /\ IsFiniteSet(P \cup R) /\ IsFiniteSet(P \cap R)
        /\ Cardinality(P \cup R) = Cardinality(P) + Cardinality(R) - Cardinality(P \cap R)
    BY <1>1, <1>2, FS_Union, FS_Intersection
  <2>2. Cardinality(P \cap R) \in Nat /\ Cardinality(P \cup R) \in Nat
    BY <2>1, FS_CardinalityType
  <2>. QED  BY <1>1, <1>2, <2>1, <2>2, ConferenceAssumption
<1>4. None \in P \cup R
  BY Zenon
<1>5. IsFiniteSet((P \cup R) \ {None}) /\ Cardinality((P \cup R) \ {None}) = Cardinality(P \cup R) - 1
  BY <1>3, <1>4, FS_RemoveElement
<1>6. IsFiniteSet(((P \cup R) \ {None}) \cup {SoundCard})
      /\ Cardinality(((P \cup R) \ {None}) \cup {SoundCard}) <= NCalls + MaxRec
  <2>. DEFINE X == (P \cup R) \ {None}
  <2>1. IsFiniteSet(X \cup {SoundCard})
        /\ Cardinality(X \cup {SoundCard}) = IF SoundCard \in X THEN Cardinality(X) ELSE Cardinality(X) + 1
    BY <1>5, FS_AddElement
  <2>2. Cardinality(X) \in Nat /\ Cardinality(X) <= NCalls + MaxRec - 1
    BY <1>3, <1>5, FS_CardinalityType, ConferenceAssumption
  <2>. QED  BY <2>1, <2>2, ConferenceAssumption
<1>7. IsFiniteSet(T) /\ Cardinality(T) <= NCalls + MaxRec
  <2>1. T \subseteq ((P \cup R) \ {None}) \cup {SoundCard}
    BY Numbers DEF Taken
  <2>2. IsFiniteSet(T) /\ Cardinality(T) <= Cardinality(((P \cup R) \ {None}) \cup {SoundCard})
    BY <2>1, <1>6, FS_Subset
  <2>3. Cardinality(T) \in Nat /\ Cardinality(((P \cup R) \ {None}) \cup {SoundCard}) \in Nat
    BY <2>2, <1>6, FS_CardinalityType
  <2>. QED  BY <2>2, <2>3, <1>6, ConferenceAssumption
<1>8. Ports \ Taken(w) # {}
  <2>1. T # Ports
    <3>. HIDE DEF T
    <3>. SUFFICES ASSUME T = Ports PROVE FALSE
      OBVIOUS
    <3>1. Cardinality(Ports) <= NCalls + MaxRec
      BY <1>7
    <3>. QED  BY <3>1, Numbers, ConferenceAssumption
  <2>. QED  BY <2>1
<1>9. FreePort(w) = Min(Ports \ Taken(w))
  BY DEF FreePort, Taken
<1>. QED  BY <1>8, <1>9, MinIn, Numbers

LEMMA TakenBy ==
  ASSUME NEW w
  PROVE  /\ SoundCard \in Taken(w)
         /\ \A c \in Calls : w.port[c] \in Taken(w)
         /\ \A r \in Recorders : w.rport[r] \in Taken(w)
  BY DEF Taken

\* A connection may be made that joins no two calls, or two members.
LEMMA ConnectSane ==
  ASSUME NEW w, NEW L, NEW U, NEW D, Sane(w, L, U, D), NEW W,
         \A e \in W : e[1] \in Taken(w) \cup {None} /\ e[2] \in Taken(w) \cup {None},
         \A c, d \in Calls : c # d /\ <<w.port[c], w.port[d]>> \in W /\ w.port[c] # None /\ w.port[d] # None
                               => {c, d} \subseteq w.conf
  PROVE  Sane(Connect(w, W), L, U, D)
<1>. DEFINE v == Connect(w, W)
<1>1. v = [w EXCEPT !.wire = @ \cup (W \cap (Ports \X Ports))]
  BY DEF Connect
<1>2. v \in Mixer /\ v.wire = w.wire \cup (W \cap (Ports \X Ports))
      /\ v.port = w.port /\ v.rport = w.rport /\ v.rec = w.rec /\ v.conf = w.conf
  BY <1>1 DEF Sane, Mixer
<1>. HIDE DEF v
<1>3. Distinct(v)
  BY <1>2 DEF Sane, Distinct
<1>4. Wired(v)
  <2>1. Taken(v) = Taken(w)
    BY <1>2 DEF Taken
  <2>. QED  BY <1>2, <2>1, Numbers DEF Sane, Wired
<1>5. Apart(v, D)
  BY <1>2, Numbers DEF Sane, Apart
<1>6. Sane(v, L, U, D)
  BY <1>2, <1>3, <1>4, <1>5 DEF Sane
<1>. QED  BY <1>6 DEF v

LEMMA DisconnectSane ==
  ASSUME NEW w, NEW L, NEW U, NEW D, Sane(w, L, U, D), NEW W
  PROVE  Sane(Disconnect(w, W), L, U, D)
<1>. DEFINE v == Disconnect(w, W)
<1>1. v = [w EXCEPT !.wire = @ \ W]
  BY DEF Disconnect
<1>2. v \in Mixer /\ v.wire = w.wire \ W
      /\ v.port = w.port /\ v.rport = w.rport /\ v.rec = w.rec /\ v.conf = w.conf
  BY <1>1 DEF Sane, Mixer
<1>. HIDE DEF v
<1>3. Distinct(v) /\ Wired(v) /\ Apart(v, D)
  <2>1. Taken(v) = Taken(w)
    BY <1>2 DEF Taken
  <2>. QED  BY <1>2, <2>1 DEF Sane, Distinct, Wired, Apart
<1>4. Sane(v, L, U, D)
  BY <1>2, <1>3 DEF Sane
<1>. QED  BY <1>4 DEF v

-----------------------------------------------------------------------------
(* Recording.                                                              *)

\* v is w but for recorders and connections.
SameCalls(v, w) ==
  v.conf = w.conf /\ v.port = w.port /\ v.held = w.held /\ v.reinv = w.reinv

\* No call records in v that did not in w.
NoneBegins(v, w) == \A b \in Calls : w.rec[b] = None => v.rec[b] = None

LEMMA LiveCalls == Live \subseteq Calls /\ \A w, c : Others(w, c) \subseteq Live
  BY DEF Live, Others

LEMMA ConnectFields ==
  ASSUME NEW w, w \in Mixer, NEW W
  PROVE  LET v == Connect(w, W)
         IN  v \in Mixer /\ SameCalls(v, w) /\ v.rec = w.rec /\ v.rport = w.rport
  BY DEF Connect, Mixer, SameCalls

LEMMA DisconnectFields ==
  ASSUME NEW w, w \in Mixer, NEW W
  PROVE  LET v == Disconnect(w, W)
         IN  v \in Mixer /\ SameCalls(v, w) /\ v.rec = w.rec /\ v.rport = w.rport
  BY DEF Disconnect, Mixer, SameCalls

LEMMA ShareRecorderSane ==
  ASSUME NEW U \in SUBSET (Calls \ Live), NEW D, NEW w, Sane(w, Live, U, D), NEW c \in Live,
         \E b \in Others(w, c) : w.rec[b] # None
  PROVE  /\ Sane(ShareRecorder(w, c), Live, U, D)
         /\ SameCalls(ShareRecorder(w, c), w)
<1>. DEFINE sharing == {b \in Others(w, c) : w.rec[b] # None}
            b == Min(sharing)
            r == w.rec[b]
            v == Connect(w, {<<w.port[c], w.rport[r]>>})
<1>1. b \in Live /\ r # None
  <2>1. sharing # {} /\ sharing \subseteq Nat
    BY Numbers, LiveCalls
  <2>. QED  BY <2>1, MinIn, LiveCalls
<1>. HIDE DEF b
<1>2. r \in Recorders /\ w.rport[r] # None
  BY <1>1, LiveCalls DEF Sane, Mixer
<1>3. Sane(v, Live, U, D)
  <2>1. w.port[c] \in Taken(w) /\ w.rport[r] \in Taken(w)
    BY <1>2, TakenBy, LiveCalls
  <2>2. \A d \in Calls : w.port[d] # w.rport[r]
    BY <1>2 DEF Sane, Distinct
  <2>. QED  BY <2>1, <2>2, ConnectSane
<1>4. SameCalls(v, w) /\ v.rec = w.rec /\ v.rport = w.rport /\ v \in Mixer
  BY ConnectFields DEF Sane
<1>. DEFINE u == [v EXCEPT !.rec[c] = r]
<1>5. u = ShareRecorder(w, c)
  BY DEF ShareRecorder, b
<1>. HIDE DEF v
<1>6. u.rec = [w.rec EXCEPT ![c] = r] /\ u.rport = v.rport /\ u.wire = v.wire
      /\ SameCalls(u, v) /\ u \in Mixer
  BY <1>2, <1>4, LiveCalls DEF Mixer, SameCalls
<1>. HIDE DEF u, r
<1>7. Distinct(u) /\ Wired(u) /\ Apart(u, D)
  BY <1>3, <1>6 DEF Sane, Distinct, Wired, Apart, SameCalls, Taken
<1>8. \A a \in Live : u.rec[a] # None => u.rport[u.rec[a]] # None
  BY <1>2, <1>3, <1>4, <1>6, LiveCalls DEF Sane, Mixer
<1>9. \A a \in U : u.rec[a] = None /\ a \notin u.conf
  BY <1>3, <1>4, <1>6 DEF Sane, Mixer, SameCalls
<1>10. Sane(u, Live, U, D)
  BY <1>3, <1>6, <1>7, <1>8, <1>9 DEF Sane, SameCalls
<1>. QED  BY <1>4, <1>5, <1>6, <1>10 DEF SameCalls

LEMMA NewRecorderSane ==
  ASSUME NEW U \in SUBSET (Calls \ Live), NEW D, NEW w, Sane(w, Live, U, D), NEW c \in Live,
         ~(Recorders \subseteq OpenRecorders(w))
  PROVE  /\ Sane(NewRecorder(w, c), Live, U, D)
         /\ SameCalls(NewRecorder(w, c), w)
<1>. DEFINE r == Min(Recorders \ OpenRecorders(w))
            p == FreePort(w)
            join == IF c \in w.conf
                    THEN {b \in Others(w, c) : w.rec[b] = None /\ w.port[b] # None}
                    ELSE {}
            W == (PortsOf(w, join \cup {c}) \cup {SoundCard}) \X {p}
            v == Connect(w, W)
            u == [v EXCEPT !.rec = [b \in Calls |-> IF b \in join \cup {c} THEN r ELSE @[b]],
                           !.rport[r] = p]
<1>1. r \in Recorders /\ w.rport[r] = None
  <2>1. Recorders \ OpenRecorders(w) # {} /\ Recorders \ OpenRecorders(w) \subseteq Nat
    BY Numbers
  <2>2. r \in Recorders \ OpenRecorders(w)
    BY <2>1, MinIn
  <2>. HIDE DEF r
  <2>. QED  BY <2>2 DEF OpenRecorders
<1>2. p \in Ports \ Taken(w)
  BY <1>1, FreePortFree DEF Sane
<1>3. join \subseteq Live
  BY LiveCalls
<1>4. SameCalls(v, w) /\ v.rec = w.rec /\ v.rport = w.rport /\ v \in Mixer
  BY ConnectFields DEF Sane
<1>5. v.wire = w.wire \cup (W \cap (Ports \X Ports))
  BY DEF Connect, Sane, Mixer
<1>6. u = NewRecorder(w, c)
  BY Zenon DEF NewRecorder
<1>. DEFINE J == join \cup {c}
<1>7. J \subseteq Live
  BY <1>3
<1>8. \A e \in W : e[1] \in Taken(w) /\ e[2] = p
  BY <1>7, LiveCalls, TakenBy DEF PortsOf
<1>. HIDE DEF W, join, r, p, v
<1>9. /\ u.rec = [b \in Calls |-> IF b \in J THEN r ELSE w.rec[b]]
      /\ u.rport = [w.rport EXCEPT ![r] = p]
      /\ u.wire = v.wire /\ SameCalls(u, v) /\ u \in Mixer
  BY <1>1, <1>2, <1>4 DEF Mixer, SameCalls
<1>. HIDE DEF u, J
<1>10. \A q \in Taken(w) : q = None \/ q \in Taken(u)
  BY <1>1, <1>4, <1>9 DEF Taken, SameCalls, Sane, Mixer
<1>11. p \in Taken(u)
  BY <1>1, <1>9 DEF Taken, Sane, Mixer
<1>12. Distinct(u)
  <2>1. p # None /\ p # SoundCard /\ \A a \in Calls : w.port[a] # p
    BY <1>2, Numbers, TakenBy
  <2>2. \A q \in Recorders : u.rport[q] = IF q = r THEN p ELSE w.rport[q]
    BY <1>9 DEF Sane, Mixer
  <2>. QED  BY <1>4, <1>9, <2>1, <2>2 DEF Sane, Distinct, SameCalls
<1>13. Wired(u)
  <2>. SUFFICES ASSUME NEW e \in u.wire
                PROVE  e[1] \in Taken(u) /\ e[2] \in Taken(u)
    BY DEF Wired
  <2>1. e \in u.wire /\ e[1] # None /\ e[2] # None
    BY <1>9, Numbers DEF Mixer
  <2>2. CASE e \in w.wire
    BY <2>1, <2>2, <1>10 DEF Sane, Wired
  <2>3. CASE e \in W
    BY <2>1, <2>3, <1>8, <1>10, <1>11
  <2>. QED  BY <2>2, <2>3, <1>5, <1>9
<1>14. Apart(u, D)
  <2>1. \A a, b \in Calls : <<w.port[a], w.port[b]>> \notin W
    BY <1>2, <1>8, TakenBy
  <2>. QED  BY <2>1, <1>4, <1>5, <1>9 DEF Sane, Apart, SameCalls
<1>15. \A a \in Live : u.rec[a] # None => u.rport[u.rec[a]] # None
  BY <1>1, <1>2, <1>9, LiveCalls, Numbers DEF Sane, Mixer
<1>16. \A a \in U : u.rec[a] = None /\ a \notin u.conf
  <2>. SUFFICES ASSUME NEW a \in U PROVE u.rec[a] = None /\ a \notin u.conf
    OBVIOUS
  <2>1. a \notin J
    BY <1>7, LiveCalls
  <2>. QED  BY <2>1, <1>4, <1>9, LiveCalls DEF Sane, Mixer, SameCalls
<1>17. Sane(u, Live, U, D)
  BY <1>4, <1>9, <1>12, <1>13, <1>14, <1>15, <1>16 DEF Sane, SameCalls
<1>. QED  BY <1>4, <1>6, <1>9, <1>17 DEF SameCalls

LEMMA RecordingStartSane ==
  ASSUME NEW U \in SUBSET (Calls \ Live), NEW D, NEW w, Sane(w, Live, U, D), NEW c \in Live
  PROVE  /\ Sane(RecordingStart(w, c), Live, U, D)
         /\ SameCalls(RecordingStart(w, c), w)
<1>1. SameCalls(w, w)
  BY DEF SameCalls
<1>. QED  BY <1>1, ShareRecorderSane, NewRecorderSane DEF RecordingStart

LEMMA RemovePortSane ==
  ASSUME NEW w, w \in Mixer, NEW p
  PROVE  LET v == RemovePort(w, p)
         IN  /\ v \in Mixer /\ SameCalls(v, w) /\ v.rec = w.rec /\ v.rport = w.rport
             /\ v.wire \subseteq w.wire
             /\ p \in Ports => \A e \in v.wire : e[1] # p /\ e[2] # p
<1>. DEFINE v == RemovePort(w, p)
<1>1. v \in Mixer /\ SameCalls(v, w) /\ v.rec = w.rec /\ v.rport = w.rport
      /\ v.wire = w.wire \ Both(p, Ports)
  BY DEF RemovePort, Mixer, SameCalls
<1>2. \A e \in w.wire : e = <<e[1], e[2]>> /\ e[1] \in Ports /\ e[2] \in Ports
  BY DEF Mixer
<1>3. p \in Ports => \A e \in v.wire : e[1] # p /\ e[2] # p
  BY <1>1, <1>2 DEF Both
<1>. QED  BY <1>1, <1>3

LEMMA RecordingStopSane ==
  ASSUME NEW U \in SUBSET (Calls \ Live), NEW D, NEW w, Sane(w, Live, U, D), NEW c \in Calls,
         NEW force \in BOOLEAN
  PROVE  LET v == RecordingStop(w, c, force)
         IN  /\ Sane(v, Live, U, D)
             /\ SameCalls(v, w)
             /\ v.rec[c] = None
             /\ NoneBegins(v, w)
<1>1. CASE w.rec[c] = None
  BY <1>1 DEF RecordingStop, SameCalls, NoneBegins
<1>2. CASE w.rec[c] # None
  <2>. DEFINE r == w.rec[c]
              sharing == {b \in Live \ {c} : w.rec[b] = r}
              clear == IF force THEN sharing \cup {c} ELSE {c}
              W == (PortsOf(w, clear \ {c}) \cup {InfoPort(w, c)}) \X {w.rport[r]}
              w0 == Disconnect(w, W)
              w1 == [w0 EXCEPT !.rec = [b \in Calls |-> IF b \in clear THEN None ELSE @[b]]]
              w2 == RemovePort(w1, w.rport[r])
              w3 == [w2 EXCEPT !.rport[r] = None]
  <2>1. RecordingStop(w, c, force) = IF sharing # {} /\ ~force THEN w1 ELSE w3
    BY <1>2, Zenon DEF RecordingStop
  <2>2. r \in Recorders
    BY <1>2 DEF Sane, Mixer
  <2>3. Sane(w0, Live, U, D) /\ SameCalls(w0, w) /\ w0.rec = w.rec /\ w0.rport = w.rport
    <3>1. Sane(w0, Live, U, D)
      BY DisconnectSane
    <3>2. w \in Mixer
      BY DEF Sane
    <3>. QED  BY <3>1, <3>2, DisconnectFields
  <2>4. c \in clear
    OBVIOUS
  <2>5. ~(sharing # {} /\ ~force) => \A b \in Live : w.rec[b] = r => b \in clear
    OBVIOUS
  <2>. HIDE DEF r, clear, sharing, w0
  <2>6. /\ w1.rec = [b \in Calls |-> IF b \in clear THEN None ELSE w.rec[b]]
        /\ SameCalls(w1, w) /\ w1.rport = w.rport /\ w1.wire = w0.wire /\ w1 \in Mixer
    BY <2>3 DEF Sane, Mixer, SameCalls
  <2>. HIDE DEF w1
  <2>7. Sane(w1, Live, U, D)
    <3>1. Distinct(w1) /\ Wired(w1) /\ Apart(w1, D)
      BY <2>3, <2>6 DEF Sane, Distinct, Wired, Apart, SameCalls, Taken
    <3>2. \A a \in Live : w1.rec[a] # None => w1.rport[w1.rec[a]] # None
      BY <2>6, LiveCalls DEF Sane
    <3>3. \A a \in U : w1.rec[a] = None /\ a \notin w1.conf
      BY <2>6 DEF Sane, SameCalls
    <3>. QED  BY <2>6, <3>1, <3>2, <3>3 DEF Sane, SameCalls
  <2>8. /\ w2 \in Mixer /\ SameCalls(w2, w1) /\ w2.rec = w1.rec /\ w2.rport = w1.rport
        /\ w2.wire \subseteq w1.wire
        /\ w.rport[r] \in Ports => \A e \in w2.wire : e[1] # w.rport[r] /\ e[2] # w.rport[r]
    BY <2>6, RemovePortSane
  <2>. HIDE DEF w2
  <2>9. /\ w3.rport = [w.rport EXCEPT ![r] = None] /\ w3.rec = w1.rec /\ w3.wire = w2.wire
        /\ SameCalls(w3, w1) /\ w3 \in Mixer
    BY <2>2, <2>6, <2>8 DEF Mixer, SameCalls
  <2>. HIDE DEF w3
  <2>10. ASSUME ~(sharing # {} /\ ~force)
         PROVE  Sane(w3, Live, U, D)
    <3>1. Distinct(w3)
      <4>1. \A q \in Recorders : w3.rport[q] = IF q = r THEN None ELSE w.rport[q]
        BY <2>9 DEF Sane, Mixer
      <4>2. None # SoundCard
        BY DEF None, SoundCard
      <4>. QED  BY <2>6, <2>9, <4>1, <4>2 DEF Sane, Distinct, SameCalls
    <3>2. Wired(w3)
      <4>. SUFFICES ASSUME NEW e \in w3.wire, NEW q \in {e[1], e[2]}
                    PROVE  q \in Taken(w3)
        BY DEF Wired
      <4>1. q \in Ports
        BY <2>9 DEF Mixer
      <4>2. q \in Taken(w1)
        BY <2>7, <2>8, <2>9 DEF Sane, Wired
      <4>3. q # w.rport[r]
        BY <2>8, <2>9, <4>1
      <4>. QED  BY <4>1, <4>2, <4>3, <2>6, <2>9 DEF Taken, SameCalls, Sane, Mixer
    <3>3. Apart(w3, D)
      BY <2>7, <2>8, <2>9 DEF Sane, Apart, SameCalls
    <3>4. \A a \in Live : w3.rec[a] # None => w3.rport[w3.rec[a]] # None
      <4>. SUFFICES ASSUME NEW a \in Live, w3.rec[a] # None
                    PROVE  w3.rport[w3.rec[a]] # None
        OBVIOUS
      <4>1. a \notin clear /\ w3.rec[a] = w.rec[a]
        BY <2>6, <2>9, LiveCalls
      <4>2. w.rec[a] # r /\ w.rec[a] \in Recorders /\ w.rport[w.rec[a]] # None
        BY <4>1, <2>5, <2>10, LiveCalls DEF Sane, Mixer
      <4>. QED  BY <4>1, <4>2, <2>9 DEF Sane, Mixer
    <3>5. \A a \in U : w3.rec[a] = None /\ a \notin w3.conf
      BY <2>7, <2>9 DEF Sane, SameCalls
    <3>. QED  BY <2>7, <2>9, <3>1, <3>2, <3>3, <3>4, <3>5 DEF Sane, SameCalls
  <2>11. SameCalls(w3, w)
    BY <2>6, <2>9 DEF SameCalls
  <2>12. w1.rec[c] = None /\ NoneBegins(w1, w) /\ NoneBegins(w3, w)
    BY <2>4, <2>6, <2>9 DEF NoneBegins
  <2>. QED  BY <2>1, <2>6, <2>7, <2>9, <2>10, <2>11, <2>12
<1>. QED  BY <1>1, <1>2

-----------------------------------------------------------------------------
(* Joining and leaving.                                                    *)

LEMMA ConnectMembersSane ==
  ASSUME NEW U \in SUBSET (Calls \ Live), NEW D, NEW w, Sane(w, Live, U, D), NEW c \in Live, NEW b \in Live,
         c \in w.conf, b \in w.conf
  PROVE  Sane(Connect(w, Both(w.port[c], {w.port[b]})), Live, U, D)
<1>1. w.port[c] \in Taken(w) /\ w.port[b] \in Taken(w)
  BY TakenBy, LiveCalls
<1>2. ASSUME NEW a \in Calls, NEW d \in Calls, a # d,
             <<w.port[a], w.port[d]>> \in Both(w.port[c], {w.port[b]}),
             w.port[a] # None, w.port[d] # None
      PROVE  {a, d} \subseteq w.conf
  BY <1>2, LiveCalls DEF Both, Sane, Distinct
<1>3. \A e \in Both(w.port[c], {w.port[b]}) : e[1] \in Taken(w) /\ e[2] \in Taken(w)
  BY <1>1 DEF Both
<1>. QED  BY <1>2, <1>3, ConnectSane

LEMMA JoinOneSane ==
  ASSUME NEW U \in SUBSET (Calls \ Live), NEW D, NEW w, Sane(w, Live, U, D), NEW c \in Live, NEW b \in Live,
         c \in w.conf, b \in w.conf
  PROVE  /\ Sane(JoinOne(w, c, b), Live, U, D)
         /\ SameCalls(JoinOne(w, c, b), w)
<1>. DEFINE v == Connect(w, Both(w.port[c], {w.port[b]}))
<1>1. Sane(v, Live, U, D)
  BY ConnectMembersSane
<1>2. SameCalls(v, w)
  BY ConnectFields DEF Sane
<1>3. ASSUME NEW a \in {b, c}
      PROVE  Sane(RecordingStart(v, a), Live, U, D) /\ SameCalls(RecordingStart(v, a), w)
  <2>. HIDE DEF v
  <2>1. Sane(RecordingStart(v, a), Live, U, D) /\ SameCalls(RecordingStart(v, a), v)
    BY <1>1, RecordingStartSane
  <2>. QED  BY <2>1, <1>2 DEF SameCalls
<1>. QED  BY <1>1, <1>2, <1>3 DEF JoinOne

LEMMA JoinSane ==
  ASSUME NEW U \in SUBSET (Calls \ Live), NEW D, NEW w, Sane(w, Live, U, D), NEW c \in Live
  PROVE  /\ Sane(Join(w, c), Live, U, D)
         /\ SameCalls(Join(w, c), w)
<1>1. CASE c \notin w.conf
  BY <1>1 DEF Join, SameCalls
<1>2. CASE c \in w.conf
  <2>. DEFINE with == {b \in Others(w, c) : w.port[b] # None}
              I == {x \in (0..NCalls) \X Mixer : Sane(x[2], Live, U, D) /\ SameCalls(x[2], w)}
  <2>1. <<0, w>> \in I
    BY ConferenceAssumption DEF Sane, SameCalls
  <2>2. ASSUME NEW k \in Calls, NEW v, <<k - 1, v>> \in I
        PROVE  <<k, IF k \in with THEN JoinOne(v, c, k) ELSE v>> \in I
    <3>1. Sane(v, Live, U, D) /\ SameCalls(v, w) /\ k \in 0..NCalls
      BY <2>2, ConferenceAssumption DEF Calls
    <3>2. k \in with => k \in Live /\ k \in w.conf
      BY DEF Others
    <3>3. k \in with => Sane(JoinOne(v, c, k), Live, U, D) /\ SameCalls(JoinOne(v, c, k), v)
      <4>1. c \in v.conf /\ (k \in with => k \in v.conf)
        BY <1>2, <3>1, <3>2 DEF SameCalls
      <4>. QED  BY <4>1, <3>1, <3>2, JoinOneSane
    <3>. QED  BY <3>1, <3>3 DEF Sane, SameCalls
  <2>3. <<NCalls, JoinEach(with, w, c)>> \in I
    <3>. HIDE DEF with, I
    <3>. QED  BY <2>1, <2>2, JoinLoop
  <2>4. Join(w, c) = JoinEach(with, w, c)
    BY <1>2 DEF Join, JoinEach
  <2>. QED  BY <2>3, <2>4
<1>. QED  BY <1>1, <1>2

\* Whoever leaves hears no member any more, if the port in its call info is
\* right or it has none.
LEMMA LeaveSane ==
  ASSUME NEW U \in SUBSET (Calls \ Live), NEW D, NEW w, Sane(w, Live, U, D), NEW c \in Calls, NEW p,
         p = w.port[c] \/ c \notin Live, NEW hold \in BOOLEAN
  PROVE  LET v == Leave(w, c, p, hold)
         IN  /\ Sane(v, Live, U, D)
             /\ v.port = w.port
             /\ v.conf \subseteq w.conf
             /\ NoneBegins(v, w)
<1>1. CASE c \notin w.conf
  BY <1>1 DEF Leave, NoneBegins
<1>2. CASE c \in w.conf
  <2>. DEFINE w1 == RecordingStop(w, c, FALSE)
              others == Others(w1, c)
              last == IF Cardinality(others) = 1 THEN others ELSE {}
              w2 == Disconnect(w1, Both(p, PortsOf(w1, others)))
              w3 == [w2 EXCEPT !.conf = @ \ (last \cup {c})]
  <2>1. Leave(w, c, p, hold) = IF hold THEN w2 ELSE w3
    BY <1>2, Zenon DEF Leave
  <2>2. Sane(w1, Live, U, D) /\ SameCalls(w1, w) /\ NoneBegins(w1, w)
    BY RecordingStopSane
  <2>. HIDE DEF w1
  <2>3. Sane(w2, Live, U, D) /\ SameCalls(w2, w1) /\ w2.rec = w1.rec /\ w2.rport = w1.rport
    <3>1. Sane(w2, Live, U, D)
      BY <2>2, DisconnectSane
    <3>2. w1 \in Mixer
      BY <2>2 DEF Sane
    <3>. QED  BY <3>1, <3>2, DisconnectFields
  <2>4. w2.wire = w1.wire \ Both(p, PortsOf(w1, others))
    BY <2>2 DEF Disconnect, Sane, Mixer
  <2>5. last = {} \/ \E b : last = {b} /\ others = {b}
    <3>1. IsFiniteSet(others)
      BY Numbers, LiveCalls, FS_Subset
    <3>. QED  BY <3>1, FS_Singleton
  <2>6. others = (Live \cap w1.conf) \ {c}
    BY DEF Others
  <2>. HIDE DEF w2, last, others
  <2>7. /\ w3.conf = w2.conf \ (last \cup {c}) /\ w3.port = w2.port /\ w3.rport = w2.rport
        /\ w3.rec = w2.rec /\ w3.wire = w2.wire /\ w3 \in Mixer
    BY <2>3 DEF Sane, Mixer
  <2>. HIDE DEF w3
  <2>8. Apart(w3, D)
    <3>. SUFFICES ASSUME NEW a \in Calls, NEW b \in Calls, a # b,
                         <<w3.port[a], w3.port[b]>> \in w3.wire, {a, b} \cap D = {}
                  PROVE  {a, b} \subseteq w3.conf
      BY DEF Apart
    <3>1. {a, b} \subseteq w1.conf
      BY <2>3, <2>7 DEF Sane, Apart, SameCalls
    <3>2. w1.port[a] # None /\ w1.port[b] # None /\ a \in Live /\ b \in Live
      <4>1. w1.port[a] # None /\ w1.port[b] # None
        BY <2>3, <2>7, Numbers DEF Sane, Mixer, SameCalls
      <4>. QED  BY <4>1, <2>2 DEF Sane
    <3>3. a # c /\ b # c
      <4>1. \A d \in others : <<p, w1.port[d]>> \notin w3.wire /\ <<w1.port[d], p>> \notin w3.wire
        BY <2>4, <2>7 DEF Both, PortsOf
      <4>2. p = w1.port[c] \/ c \notin Live
        BY <2>2 DEF SameCalls
      <4>. QED  BY <3>1, <3>2, <4>1, <4>2, <2>3, <2>6, <2>7 DEF SameCalls
    <3>4. a \in others /\ b \in others
      BY <3>1, <3>2, <3>3, <2>6
    <3>. QED  BY <3>1, <3>3, <3>4, <2>3, <2>5, <2>7 DEF SameCalls
  <2>9. Distinct(w3) /\ Wired(w3)
    BY <2>3, <2>7 DEF Sane, Distinct, Wired, Taken
  <2>10. Sane(w3, Live, U, D)
    BY <2>3, <2>7, <2>8, <2>9 DEF Sane
  <2>. QED  BY <2>1, <2>2, <2>3, <2>7, <2>10 DEF SameCalls, NoneBegins
<1>. QED  BY <1>1, <1>2

-----------------------------------------------------------------------------
(* Hold and the menus.                                                     *)

\* v is w but for local_hold and the re-INVITEs.
SameBridge(v, w) ==
  v.conf = w.conf /\ v.port = w.port /\ v.rec = w.rec /\ v.rport = w.rport /\ v.wire = w.wire

LEMMA SameBridgeSane ==
  ASSUME NEW w, NEW v, NEW L, NEW U, NEW D, Sane(w, L, U, D), v \in Mixer, SameBridge(v, w)
  PROVE  Sane(v, L, U, D)
  BY DEF Sane, SameBridge, Distinct, Wired, Apart, Taken

LEMMA ReinviteSame ==
  ASSUME NEW w, w \in Mixer, NEW H \in SUBSET Calls, NEW V \in SUBSET Calls
  PROVE  Reinvite(w, H, V) \in Mixer /\ SameBridge(Reinvite(w, H, V), w)
  BY DEF Reinvite, Mixer, SameBridge

LEMMA HoldSame ==
  ASSUME NEW w, w \in Mixer, NEW c \in Calls
  PROVE  /\ Hold(w, c) \in Mixer /\ SameBridge(Hold(w, c), w)
         /\ Unhold(w, c) \in Mixer /\ SameBridge(Unhold(w, c), w)
<1>1. Conversation(w, c) \subseteq Calls
  BY LiveCalls DEF Conversation
<1>2. /\ {b \in Conversation(w, c) : ~OnHold(b)} \in SUBSET Calls
      /\ {} \in SUBSET Calls
      /\ {b \in Live \ Conversation(w, c) : ~AC /\ ~OnHold(b)} \in SUBSET Calls
      /\ {b \in Conversation(w, c) : OnHold(b)} \in SUBSET Calls
  BY <1>1, LiveCalls
<1>. QED  BY <1>2, ReinviteSame DEF Hold, Unhold

LEMMA HoldSane ==
  ASSUME NEW w, NEW L, NEW U, NEW D, Sane(w, L, U, D), NEW c \in Calls
  PROVE  Sane(Hold(w, c), L, U, D) /\ Sane(Unhold(w, c), L, U, D)
<1>1. w \in Mixer
  BY DEF Sane
<1>. QED  BY <1>1, HoldSame, SameBridgeSane

\* Calls that exist may become members.
LEMMA AddMembers ==
  ASSUME NEW w, NEW L \in SUBSET Calls, NEW U, NEW D, Sane(w, L, U, D),
         NEW S \in SUBSET L, S \cap U = {}
  PROVE  LET v == [w EXCEPT !.conf = @ \cup S]
         IN  Sane(v, L, U, D) /\ v.conf = w.conf \cup S
<1>. DEFINE v == [w EXCEPT !.conf = @ \cup S]
<1>1. /\ v \in Mixer /\ v.conf = w.conf \cup S /\ v.port = w.port /\ v.rec = w.rec
      /\ v.rport = w.rport /\ v.wire = w.wire
  BY DEF Sane, Mixer
<1>. HIDE DEF v
<1>2. Distinct(v) /\ Wired(v) /\ Apart(v, D)
  BY <1>1 DEF Sane, Distinct, Wired, Apart, Taken
<1>3. Sane(v, L, U, D)
  BY <1>1, <1>2 DEF Sane
<1>. QED  BY <1>1, <1>3 DEF v

LEMMA MergeWithSane ==
  ASSUME NEW U \in SUBSET (Calls \ Live), NEW D, NEW w, Sane(w, Live, U, D), NEW s \in Calls, NEW d \in Calls
  PROVE  Sane(MergeWith(w, s, d), Live, U, D)
<1>1. CASE d \in Live \ {s}
  <2>. DEFINE w1 == [w EXCEPT !.conf = @ \cup ({s, d} \cap Live)]
  <2>1. Sane(w1, Live, U, D)
    BY LiveCalls, AddMembers
  <2>. HIDE DEF w1
  <2>2. Sane(Join(w1, d), Live, U, D)
    BY <1>1, <2>1, JoinSane
  <2>3. Sane(Unhold(Join(w1, d), d), Live, U, D)
    BY <2>2, HoldSane
  <2>. QED  BY <1>1, <2>3 DEF MergeWith, w1
<1>2. CASE d \notin Live \ {s}
  BY <1>2 DEF MergeWith
<1>. QED  BY <1>1, <1>2

LEMMA MergeEverySane ==
  ASSUME NEW U \in SUBSET (Calls \ Live), NEW D, NEW w, Sane(w, Live, U, D), NEW s \in Calls
  PROVE  Sane(MergeEvery(w, s), Live, U, D)
<1>. DEFINE I == {x \in (0..NCalls) \X Mixer : Sane(x[2], Live, U, D)}
<1>1. <<0, w>> \in I
  BY ConferenceAssumption DEF Sane
<1>2. ASSUME NEW k \in Calls, NEW v, <<k - 1, v>> \in I
      PROVE  <<k, IF k \in Live \ {s} THEN MergeWith(v, s, k) ELSE v>> \in I
  <2>1. Sane(v, Live, U, D) /\ k \in 0..NCalls
    BY <1>2, ConferenceAssumption DEF Calls
  <2>2. Sane(MergeWith(v, s, k), Live, U, D)
    BY <2>1, MergeWithSane
  <2>. QED  BY <2>1, <2>2 DEF Sane
<1>3. <<NCalls, MergeEach(Live \ {s}, w, s)>> \in I
  <2>. HIDE DEF I
  <2>. QED  BY <1>1, <1>2, MergeLoop
<1>4. MergeEvery(w, s) = MergeEach(Live \ {s}, w, s)
  BY DEF MergeEvery, MergeEach
<1>. QED  BY <1>3, <1>4

LEMMA SeparateSane ==
  ASSUME NEW U \in SUBSET (Calls \ Live), NEW D, NEW w, Sane(w, Live, U, D), NEW c \in Calls
  PROVE  Sane(SeparateOne(w, c), Live, U, D) /\ Sane(SeparateEvery(w, c), Live, U, D)
<1>. DEFINE I == {x \in (0..NCalls) \X Mixer : Sane(x[2], Live, U, D)}
            h == Hold(w, c)
<1>1. <<0, h>> \in I
  <2>1. Sane(h, Live, U, D)
    BY HoldSane
  <2>. QED  BY <2>1, ConferenceAssumption DEF Sane
<1>2. ASSUME NEW k \in Calls, NEW v, <<k - 1, v>> \in I
      PROVE  <<k, IF k \in Live \ {c} THEN Leave(v, k, v.port[k], FALSE) ELSE v>> \in I
  <2>1. Sane(v, Live, U, D) /\ k \in 0..NCalls
    BY <1>2, ConferenceAssumption DEF Calls
  <2>2. Sane(Leave(v, k, v.port[k], FALSE), Live, U, D)
    BY <2>1, LeaveSane
  <2>. QED  BY <2>1, <2>2 DEF Sane
<1>3. <<NCalls, LeaveEach(Live \ {c}, h)>> \in I
  <2>. HIDE DEF I, h
  <2>. QED  BY <1>1, <1>2, LeaveLoop
<1>4. SeparateEvery(w, c) = LeaveEach(Live \ {c}, h)
  BY DEF SeparateEvery, LeaveEach
<1>5. Sane(Leave(w, c, w.port[c], FALSE), Live, U, D)
  BY LeaveSane
<1>6. Sane(SeparateOne(w, c), Live, U, D)
  BY <1>5, HoldSane DEF SeparateOne
<1>. QED  BY <1>3, <1>4, <1>6

-----------------------------------------------------------------------------
(* Media.                                                                  *)

\* The call gets a port of its own, and hears nothing through it yet.
LEMMA NewPortSane ==
  ASSUME NEW w, NEW L \in SUBSET Calls, NEW U, NEW D, Sane(w, L, U, D), NEW c \in L
  PROVE  LET v == NewPort(w, c)
         IN  /\ Sane(v, L, U, D)
             /\ v.conf = w.conf /\ v.rec = w.rec /\ v.rport = w.rport
<1>. DEFINE w0 == RemovePort(w, w.port[c])
            w1 == [w0 EXCEPT !.port[c] = None]
            p == FreePort(w1)
            w2 == [w1 EXCEPT !.port[c] = p]
<1>1. /\ w0 \in Mixer /\ SameCalls(w0, w) /\ w0.rec = w.rec /\ w0.rport = w.rport
      /\ w0.wire \subseteq w.wire
      /\ w.port[c] \in Ports => \A e \in w0.wire : e[1] # w.port[c] /\ e[2] # w.port[c]
  <2>1. w \in Mixer
    BY DEF Sane
  <2>. QED  BY <2>1, RemovePortSane
<1>2. NewPort(w, c) = w2
  BY DEF NewPort
<1>. HIDE DEF w0
<1>3. /\ w1 \in Mixer /\ w1.port = [w.port EXCEPT ![c] = None] /\ w1.wire = w0.wire
      /\ w1.rec = w.rec /\ w1.rport = w.rport /\ w1.conf = w.conf
  BY <1>1 DEF Mixer, SameCalls
<1>. HIDE DEF w1
<1>4. p \in Ports \ Taken(w1)
  <2>1. w1.port[c] = None
    BY <1>3 DEF Sane, Mixer
  <2>. QED  BY <1>3, <2>1, FreePortFree
<1>. HIDE DEF p
<1>5. /\ w2 \in Mixer /\ w2.port = [w.port EXCEPT ![c] = p] /\ w2.wire = w1.wire
      /\ w2.rec = w.rec /\ w2.rport = w.rport /\ w2.conf = w.conf
  BY <1>3, <1>4 DEF Mixer
<1>. HIDE DEF w2
<1>6. \A a \in Calls : w2.port[a] = (IF a = c THEN p ELSE w.port[a])
                     /\ w1.port[a] = (IF a = c THEN None ELSE w.port[a])
  BY <1>3, <1>5 DEF Sane, Mixer
<1>7. /\ p # None /\ p # SoundCard /\ \A r \in Recorders : w.rport[r] # p
      /\ \A a \in Calls : a # c => w.port[a] # p
  <2>1. p # None
    BY <1>4, Numbers
  <2>2. /\ SoundCard \in Taken(w1) /\ \A r \in Recorders : w1.rport[r] \in Taken(w1)
        /\ \A a \in Calls : w1.port[a] \in Taken(w1)
    BY TakenBy
  <2>. QED  BY <2>1, <2>2, <1>3, <1>4, <1>6
<1>8. Distinct(w2)
  BY <1>5, <1>6, <1>7 DEF Sane, Distinct
<1>9. \A e \in w2.wire : \A q \in {e[1], e[2]} : q \in Taken(w1) /\ q \in Ports
  <2>. SUFFICES ASSUME NEW e \in w2.wire, NEW q \in {e[1], e[2]}
                PROVE  q \in Taken(w1) /\ q \in Ports
    OBVIOUS
  <2>1. q \in Ports
    BY <1>5 DEF Mixer
  <2>2. e \in w0.wire /\ e \in w.wire
    BY <1>1, <1>3, <1>5
  <2>3. q \in Taken(w) /\ q # w.port[c]
    BY <1>1, <2>1, <2>2 DEF Sane, Wired
  <2>4. w.port[c] \in {None} \cup Ports
    BY DEF Sane, Mixer
  <2>. QED  BY <1>3, <1>6, <2>1, <2>3 DEF Taken
<1>10. Wired(w2)
  <2>1. \A q \in Taken(w1) : q \in Ports => q \in Taken(w2)
    BY <1>3, <1>5, <1>6, Numbers DEF Taken
  <2>. QED  BY <2>1, <1>9 DEF Wired
<1>11. Apart(w2, D)
  <2>. SUFFICES ASSUME NEW a \in Calls, NEW b \in Calls, a # b,
                       <<w2.port[a], w2.port[b]>> \in w2.wire
                PROVE  {a, b} \subseteq w2.conf \/ {a, b} \cap D # {}
    BY DEF Apart
  <2>1. w2.port[a] # p /\ w2.port[b] # p
    BY <1>4, <1>9
  <2>2. a # c /\ b # c
    BY <1>6, <2>1
  <2>3. <<w.port[a], w.port[b]>> \in w.wire
    BY <1>1, <1>3, <1>5, <1>6, <2>2
  <2>. QED  BY <1>5, <2>3 DEF Sane, Apart
<1>12. Sane(w2, L, U, D)
  BY <1>5, <1>6, <1>8, <1>10, <1>11 DEF Sane
<1>. QED  BY <1>2, <1>5, <1>12

LEMMA MediaSane ==
  ASSUME NEW U \in SUBSET (Calls \ Live), NEW D, NEW w, Sane(w, Live, U, D), NEW c \in Live, NEW m
  PROVE  Sane(MediaCallback(w, c, m), Live, U, D)
<1>. DEFINE p == w.port[c]
            j == Join(w, c)
            w1 == Connect(j, Both(p, {SoundCard}))
<1>1. Sane(j, Live, U, D) /\ SameCalls(j, w)
  BY JoinSane
<1>. HIDE DEF j
<1>2. Sane(w1, Live, U, D)
  <2>1. p \in Taken(j)
    BY <1>1, TakenBy, LiveCalls DEF SameCalls
  <2>2. \A e \in Both(p, {SoundCard}) : e[1] \in Taken(j) /\ e[2] \in Taken(j)
    BY <2>1, TakenBy DEF Both
  <2>3. \A a, b \in Calls : <<j.port[a], j.port[b]>> \notin Both(p, {SoundCard})
    BY <1>1 DEF Both, Sane, Distinct
  <2>. QED  BY <1>1, <2>2, <2>3, ConnectSane
<1>3. w1.port = w.port
  BY <1>1, ConnectFields DEF Sane, SameCalls
<1>. HIDE DEF w1
<1>4. ASSUME w1.rec[c] # None
      PROVE  Sane(Connect(w1, {<<p, w1.rport[w1.rec[c]]>>}), Live, U, D)
  <2>1. w1.rec[c] \in Recorders /\ w1.rport[w1.rec[c]] # None
    BY <1>2, <1>4, LiveCalls DEF Sane, Mixer
  <2>2. p \in Taken(w1) /\ w1.rport[w1.rec[c]] \in Taken(w1)
    BY <1>3, <2>1, TakenBy, LiveCalls
  <2>3. \A a, b \in Calls : <<w1.port[a], w1.port[b]>> \notin {<<p, w1.rport[w1.rec[c]]>>}
    BY <1>2, <2>1 DEF Sane, Distinct
  <2>. QED  BY <1>2, <2>2, <2>3, ConnectSane
<1>5. Sane(Leave(w, c, p, TRUE), Live, U, D)
  BY LeaveSane, LiveCalls
<1>6. Sane(Disconnect(Leave(w, c, p, TRUE), Both(p, {SoundCard})), Live, U, D)
  BY <1>5, DisconnectSane
<1>. QED  BY <1>2, <1>4, <1>6 DEF MediaCallback, w1, j

-----------------------------------------------------------------------------
(* Hanging up.                                                             *)

Uis == [w : Mixer, tab : SUBSET Calls, timers : SUBSET Calls, ending : SUBSET Calls]

LEMMA OnEndCallSane ==
  ASSUME NEW U \in SUBSET (Calls \ Live), NEW D, NEW x \in Uis, Sane(x.w, Live, U, D),
         NEW c \in Calls, NEW p, p = x.w.port[c] \/ c \notin Live
  PROVE  OnEndCall(x, c, p) \in Uis /\ Sane(OnEndCall(x, c, p).w, Live, U, D)
<1>. DEFINE l == Leave(x.w, c, p, FALSE)
            v == RecordingStop(l, c, FALSE)
<1>1. Sane(l, Live, U, D)
  BY LeaveSane
<1>. HIDE DEF l
<1>2. Sane(v, Live, U, D)
  BY <1>1, RecordingStopSane
<1>. HIDE DEF v
<1>3. v \in Mixer
  BY <1>2 DEF Sane
<1>. DEFINE y == [x EXCEPT !.tab = @ \ {c}, !.timers = @ \ {c}, !.w = v]
<1>4. y \in Uis /\ y.w = v
  BY <1>3 DEF Uis
<1>5. OnEndCall(x, c, p) = IF c \notin x.tab THEN x ELSE y
  BY DEF OnEndCall, v, l
<1>. QED  BY <1>2, <1>4, <1>5

LEMMA HangUpSane ==
  ASSUME NEW U \in SUBSET (Calls \ Live), NEW D, NEW x \in Uis, Sane(x.w, Live, U, D), NEW c \in Calls
  PROVE  HangUpFast(x, c) \in Uis /\ Sane(HangUpFast(x, c).w, Live, U, D)
<1>. DEFINE p == x.w.port[c]
            W == Both(p, {SoundCard})
            v == Disconnect(x.w, W)
            y == [x EXCEPT !.ending = @ \cup {c}, !.w = Disconnect(@, W)]
<1>1. Sane(v, Live, U, D)
  BY DisconnectSane
<1>2. v.port = x.w.port /\ v \in Mixer
  BY DisconnectFields DEF Sane, SameCalls
<1>3. y \in Uis /\ y.w = v
  BY <1>2 DEF Uis
<1>. HIDE DEF v, y, W
<1>4. OnEndCall(y, c, p) \in Uis /\ Sane(OnEndCall(y, c, p).w, Live, U, D)
  BY <1>1, <1>2, <1>3, OnEndCallSane
<1>5. HangUpFast(x, c) = OnEndCall(y, c, p)
  BY DEF HangUpFast, y, W
<1>. QED  BY <1>4, <1>5

LEMMA EndCallSane ==
  ASSUME NEW U \in SUBSET (Calls \ Live), NEW D, NEW x \in Uis, Sane(x.w, Live, U, D), NEW c \in Calls
  PROVE  EndCall(x, c) \in Uis /\ Sane(EndCall(x, c).w, Live, U, D)
<1>. DEFINE I == {y \in (0..NCalls) \X Uis : Sane(y[2].w, Live, U, D)}
            all == EndEach(Live \ {c}, x)
<1>1. <<0, x>> \in I
  BY ConferenceAssumption
<1>2. ASSUME NEW k \in Calls, NEW v, <<k - 1, v>> \in I
      PROVE  <<k, IF k \in Live \ {c} THEN EndMember(v, k) ELSE v>> \in I
  <2>1. v \in Uis /\ Sane(v.w, Live, U, D) /\ k \in 0..NCalls
    BY <1>2, ConferenceAssumption DEF Calls
  <2>2. HangUpFast(v, k) \in Uis /\ Sane(HangUpFast(v, k).w, Live, U, D)
    BY <2>1, HangUpSane
  <2>. QED  BY <2>1, <2>2 DEF EndMember
<1>3. <<NCalls, all>> \in I
  <2>. HIDE DEF I
  <2>. QED  BY <1>1, <1>2, EndLoop
<1>4. all \in Uis /\ Sane(all.w, Live, U, D)
  BY <1>3
<1>5. EndCall(x, c) = HangUpFast(IF c \in x.w.conf /\ Confirmed(c) THEN all ELSE x, c)
  BY DEF EndCall, EndEach
<1>. HIDE DEF all
<1>. QED  BY <1>4, <1>5, HangUpSane

-----------------------------------------------------------------------------
(* The steps.                                                              *)

Idle == {c \in Calls : st[c] = "unused"}

\* The UI thread learns of the end of a call only when it has ended: the port
\* in such a message is then the port of nobody or of somebody else.
Reported ==
  \A i \in 1..Len(queue) :
    queue[i].type = "disconnected" => st[queue[i].call] = "over"

IInv == TypeOK /\ Sane(mix, Live, Idle, dropped) /\ Reported

LEMMA SaneMore ==
  ASSUME NEW w, NEW L, NEW M \in SUBSET Calls, NEW U, NEW V \in SUBSET U, NEW D, NEW E,
         Sane(w, L, U, D), L \subseteq M, D \subseteq E, \A c \in M \ L : w.rec[c] = None
  PROVE  Sane(w, M, V, E)
<1>1. Apart(w, E)
  BY DEF Sane, Apart
<1>. QED  BY <1>1 DEF Sane

LEMMA LiveOrIdle ==
  /\ Idle \in SUBSET (Calls \ Live) /\ Live \in SUBSET Calls
  /\ st' = st => Live' = Live /\ Idle' = Idle
  BY DEF Idle, Live

LEMMA NewCallLive ==
  ASSUME TypeOK, NEW c \in Calls, NewCall(c)
  PROVE  /\ c \in Idle /\ c \notin Live
         /\ Live' = Live \cup {c} /\ Idle' = Idle \ {c}
         /\ st' \in [Calls -> {"unused", "setup", "confirmed", "over"}]
         /\ \A b \in Calls : st[b] = "over" => st'[b] = "over"
  BY DEF TypeOK, NewCall, NextSlot, Live, Idle

LEMMA Counted ==
  ASSUME TypeOK
  PROVE  /\ Operate => ops' \in 0..MaxOps
         /\ Reinvited => reinvs' \in 0..MaxReinvite
  BY ConferenceAssumption DEF TypeOK, Operate, Reinvited

LEMMA Queued ==
  ASSUME TypeOK
  PROVE  \A i \in 1..Len(queue) : queue[i] \in Messages /\ queue[i].call \in Calls
<1>1. \A i \in 1..Len(queue) : queue[i] \in Messages
  BY DEF TypeOK
<1>. QED  BY <1>1 DEF Messages

LEMMA Posted ==
  ASSUME TypeOK, NEW type \in {"connecting", "confirmed", "disconnected"}, NEW c \in Calls,
         NEW p \in {None} \cup Ports, Post(type, c, p)
  PROVE  /\ queue' \in Seq(Messages) /\ Len(queue') = Len(queue) + 1 /\ Len(queue) \in Nat
         /\ \A i \in 1..Len(queue) : queue'[i] = queue[i] /\ queue[i] \in Messages
         /\ queue'[Len(queue) + 1] = [type |-> type, call |-> c, port |-> p]
<1>. DEFINE m == [type |-> type, call |-> c, port |-> p]
<1>1. m \in Messages /\ queue' = Append(queue, m) /\ queue \in Seq(Messages)
  BY DEF Post, Messages, TypeOK
<1>. HIDE DEF m
<1>. QED  BY <1>1 DEF m

LEMMA Handled ==
  ASSUME TypeOK, queue # <<>>, queue' = Tail(queue)
  PROVE  /\ queue' \in Seq(Messages) /\ Len(queue') = Len(queue) - 1 /\ Len(queue) \in Nat \ {0}
         /\ \A i \in 1..Len(queue') : queue'[i] = queue[i + 1]
         /\ \A i \in 1..Len(queue) : queue[i] \in Messages
         /\ Head(queue) = queue[1] /\ Head(queue) \in Messages
  BY DEF TypeOK

\* The queue after a message other than that of an end.
LEMMA PostedReported ==
  ASSUME IInv, NEW type \in {"connecting", "confirmed", "disconnected"}, NEW c \in Calls,
         NEW p \in {None} \cup Ports, Post(type, c, p),
         type = "disconnected" => st'[c] = "over",
         \A b \in Calls : st[b] = "over" => st'[b] = "over"
  PROVE  queue' \in Seq(Messages) /\ Reported'
<1>1. TypeOK
  BY DEF IInv
<1>2. ASSUME NEW i \in 1..Len(queue'), queue'[i].type = "disconnected"
      PROVE  st'[queue'[i].call] = "over"
  <2>0. /\ queue' \in Seq(Messages) /\ Len(queue') = Len(queue) + 1 /\ Len(queue) \in Nat
        /\ \A j \in 1..Len(queue) : queue'[j] = queue[j] /\ queue[j] \in Messages
        /\ queue'[Len(queue) + 1] = [type |-> type, call |-> c, port |-> p]
    BY <1>1, Posted
  <2>1. CASE i \in 1..Len(queue)
    <3>1. queue'[i] = queue[i] /\ queue[i] \in Messages
      BY <2>0, <2>1
    <3>2. st[queue[i].call] = "over" /\ queue[i].call \in Calls
      BY <1>2, <2>1, <3>1 DEF IInv, Reported, Messages
    <3>. QED  BY <3>1, <3>2
  <2>2. CASE i = Len(queue) + 1
    BY <1>2, <2>0, <2>2
  <2>. QED  BY <2>0, <2>1, <2>2
<1>. QED  BY <1>1, <1>2, Posted DEF Reported

LEMMA HandledReported ==
  ASSUME IInv, queue # <<>>, queue' = Tail(queue), st' = st
  PROVE  queue' \in Seq(Messages) /\ Reported'
<1>1. TypeOK
  BY DEF IInv
<1>2. ASSUME NEW i \in 1..Len(queue'), queue'[i].type = "disconnected"
      PROVE  st'[queue'[i].call] = "over"
  <2>1. i + 1 \in 1..Len(queue) /\ queue'[i] = queue[i + 1]
    BY <1>1, Handled
  <2>. QED  BY <1>2, <2>1 DEF IInv, Reported
<1>. QED  BY <1>1, <1>2, Handled DEF Reported

\* A step that changes nothing but the mixer, and perhaps the flags, the tabs
\* and the timers of calls.
LEMMA MixStep ==
  ASSUME IInv, st' = st, queue' = queue, dropped \subseteq dropped',
         Sane(mix', Live, Idle, dropped),
         media' \in [Calls -> {"none", "active", "hold", "remoteHold"}],
         {ending', timers', freed', dropped', tab'} \subseteq SUBSET Calls,
         AC' \in BOOLEAN, ops' \in 0..MaxOps, reinvs' \in 0..MaxReinvite
  PROVE  IInv'
<1>1. Sane(mix', Live', Idle', dropped')
  BY SaneMore, LiveOrIdle
<1>2. mix' \in Mixer
  BY <1>1 DEF Sane
<1>3. TypeOK'
  BY <1>2 DEF IInv, TypeOK
<1>4. Reported'
  BY DEF IInv, Reported
<1>. QED  BY <1>1, <1>3, <1>4 DEF IInv

LEMMA MenuStep ==
  ASSUME IInv, AC' = AC, NEW c \in Calls,
         MergeAll(c) \/ Separate(c) \/ SeparateAll(c) \/ HoldButton(c) \/ RecButton(c)
           \/ \E d \in Calls : Merge(c, d)
  PROVE  IInv'
<1>. USE LiveOrIdle
<1>1. Sane(mix, Live, Idle, dropped) /\ mix \in Mixer
  BY DEF IInv, Sane
<1>2. Sane(mix', Live, Idle, dropped)
  <2>1. CASE MergeAll(c)
    BY <1>1, <2>1, MergeEverySane DEF MergeAll
  <2>2. CASE Separate(c)
    BY <1>1, <2>2, SeparateSane DEF Separate
  <2>3. CASE SeparateAll(c)
    BY <1>1, <2>3, SeparateSane DEF SeparateAll
  <2>4. CASE HoldButton(c)
    BY <1>1, <2>4, HoldSane DEF HoldButton
  <2>5. CASE RecButton(c)
    <3>1. c \in Live
      BY <2>5 DEF RecButton, Selected
    <3>2. Sane(RecordingStart(mix, c), Live, Idle, dropped)
      BY <1>1, <3>1, RecordingStartSane
    <3>3. Sane(RecordingStop(mix, c, TRUE), Live, Idle, dropped)
      BY <1>1, RecordingStopSane
    <3>. QED  BY <2>5, <3>2, <3>3 DEF RecButton
  <2>6. CASE \E d \in Calls : Merge(c, d)
    BY <1>1, <2>6, MergeWithSane DEF Merge
  <2>. QED  BY <2>1, <2>2, <2>3, <2>4, <2>5, <2>6
<1>3. OnlyMix /\ Operate
  BY DEF MergeAll, Separate, SeparateAll, HoldButton, RecButton, Merge
<1>. QED  BY <1>2, <1>3, Counted, MixStep DEF OnlyMix, IInv, TypeOK

LEMMA EndStep ==
  ASSUME IInv, AC' = AC, NEW c \in Calls, EndButton(c) \/ HangUp(c)
  PROVE  IInv'
<1>1. Sane(mix, Live, Idle, dropped) /\ TypeOK
  BY DEF IInv
<1>2. Ui \in Uis /\ Ui.w = mix
  BY <1>1 DEF Ui, Uis, TypeOK
<1>3. PICK x \in Uis : Sane(x.w, Live, Idle, dropped) /\ Becomes(x)
  <2>1. EndCall(Ui, c) \in Uis /\ Sane(EndCall(Ui, c).w, Live, Idle, dropped)
    BY <1>1, <1>2, LiveOrIdle, EndCallSane
  <2>2. HangUpFast(Ui, c) \in Uis /\ Sane(HangUpFast(Ui, c).w, Live, Idle, dropped)
    BY <1>1, <1>2, LiveOrIdle, HangUpSane
  <2>. QED  BY <2>1, <2>2 DEF EndButton, HangUp
<1>4. Operate /\ UNCHANGED <<st, media, freed, dropped, queue, reinvs>>
  BY DEF EndButton, HangUp
<1>5. mix' = x.w /\ {ending', timers', tab'} \subseteq SUBSET Calls
  BY <1>3 DEF Becomes, Uis
<1>. QED  BY <1>1, <1>3, <1>4, <1>5, Counted, MixStep DEF TypeOK

LEMMA DialStep ==
  ASSUME IInv, AC' = AC, NEW c \in Calls, Dial(c)
  PROVE  IInv'
<1>1. Sane(mix, Live, Idle, dropped) /\ TypeOK
  BY DEF IInv
<1>2. NewCall(c) /\ mix' = Unhold(mix, c) /\ tab' = tab \cup {c}
      /\ UNCHANGED <<media, ending, timers, freed, dropped, queue, ops, reinvs>>
  BY DEF Dial
<1>3. Sane(mix', Live, Idle, dropped)
  BY <1>1, <1>2, HoldSane
<1>4. Sane(mix', Live', Idle', dropped')
  <2>1. mix'.rec[c] = None
    BY <1>1, <1>2, <1>3, NewCallLive DEF Sane
  <2>. QED  BY <1>1, <1>2, <1>3, <2>1, NewCallLive, LiveOrIdle, SaneMore
<1>5. Reported'
  <2>1. \A i \in 1..Len(queue) : queue[i].call \in Calls
    BY <1>1, Queued
  <2>. QED  BY <1>1, <1>2, <2>1, NewCallLive DEF IInv, Reported
<1>6. TypeOK'
  BY <1>1, <1>2, <1>4, NewCallLive DEF TypeOK, Sane
<1>. QED  BY <1>4, <1>5, <1>6 DEF IInv

LEMMA InviteStep ==
  ASSUME IInv, AC' = AC, NEW s \in Calls, NEW c \in Calls, Invite(s, c)
  PROVE  IInv'
<1>. DEFINE w == Unhold(mix, s)
<1>1. Sane(mix, Live, Idle, dropped) /\ TypeOK
  BY DEF IInv
<1>2. Sane(w, Live, Idle, dropped)
  BY <1>1, HoldSane
<1>3. Operate /\ s \in Live /\ UNCHANGED <<media, ending, timers, freed, queue, reinvs>>
  BY DEF Invite, Selected
<1>4. CASE /\ NewCall(c) /\ tab' = tab \cup {c} /\ dropped' = dropped
           /\ mix' = Unhold([w EXCEPT !.conf = @ \cup {s, c}], c)
  <2>. HIDE DEF w
  <2>1. w.rec[c] = None
    BY <1>1, <1>2, <1>4, NewCallLive DEF Sane
  <2>2. Sane(w, Live', Idle', dropped')
    BY <1>1, <1>2, <1>4, <2>1, NewCallLive, LiveOrIdle, SaneMore
  <2>3. {s, c} \in SUBSET Live' /\ {s, c} \cap Idle' = {} /\ Live' \in SUBSET Calls
    BY <1>1, <1>3, <1>4, NewCallLive, LiveOrIdle
  <2>4. Sane([w EXCEPT !.conf = @ \cup {s, c}], Live', Idle', dropped')
    BY <2>2, <2>3, AddMembers
  <2>5. Sane(mix', Live', Idle', dropped')
    BY <1>4, <2>4, HoldSane
  <2>6. Reported'
    <3>1. \A i \in 1..Len(queue) : queue[i].call \in Calls
      BY <1>1, Queued
    <3>. QED  BY <1>1, <1>3, <1>4, <3>1, NewCallLive DEF IInv, Reported
  <2>7. TypeOK'
    BY <1>1, <1>3, <1>4, <2>5, Counted, NewCallLive DEF TypeOK, Sane
  <2>. QED  BY <2>5, <2>6, <2>7 DEF IInv
<1>5. CASE /\ mix' = [w EXCEPT !.conf = @ \ {s}] /\ dropped' = dropped \cup {s}
           /\ UNCHANGED <<st, tab>>
  <2>. HIDE DEF w
  <2>1. /\ mix' \in Mixer /\ mix'.conf = w.conf \ {s} /\ mix'.port = w.port /\ mix'.rec = w.rec
        /\ mix'.rport = w.rport /\ mix'.wire = w.wire
    BY <1>2, <1>5 DEF Sane, Mixer
  <2>2. Distinct(mix') /\ Wired(mix') /\ Apart(mix', dropped')
    BY <1>2, <1>5, <2>1 DEF Sane, Distinct, Wired, Apart, Taken
  <2>3. Sane(mix', Live', Idle', dropped')
    BY <1>2, <1>5, <2>1, <2>2, LiveOrIdle DEF Sane
  <2>4. Reported'
    BY <1>3, <1>5 DEF IInv, Reported
  <2>5. TypeOK'
    BY <1>1, <1>3, <1>5, <2>1, Counted DEF TypeOK
  <2>. QED  BY <2>3, <2>4, <2>5 DEF IInv
<1>. QED  BY <1>4, <1>5 DEF Invite

LEMMA AnswerStep ==
  ASSUME IInv, AC' = AC, NEW c \in Calls, Answer(c)
  PROVE  IInv'
<1>. DEFINE w == NewPort(mix, c)
            p == w.port[c]
            w1 == Connect(w, Both(p, {SoundCard}))
<1>1. Sane(mix, Live, Idle, dropped) /\ TypeOK
  BY DEF IInv
<1>2. /\ NewCall(c) /\ media' = [media EXCEPT ![c] = "active"]
      /\ mix' = Unhold(MediaCallback(w, c, "active"), c)
      /\ Post("connecting", c, None)
      /\ UNCHANGED <<ending, timers, freed, dropped, tab, ops, reinvs>>
  BY DEF Answer
<1>3. mix.rec[c] = None /\ c \notin mix.conf
  BY <1>1, <1>2, NewCallLive DEF Sane
<1>4. Sane(mix, Live', Idle', dropped')
  BY <1>1, <1>2, <1>3, NewCallLive, LiveOrIdle, SaneMore
<1>5. Sane(w, Live', Idle', dropped') /\ w.conf = mix.conf /\ w.rec = mix.rec
  BY <1>1, <1>2, <1>4, NewCallLive, LiveOrIdle, NewPortSane
<1>. HIDE DEF w
<1>6. Sane(w1, Live', Idle', dropped') /\ w1.rec = w.rec
  <2>1. p \in Taken(w)
    BY TakenBy
  <2>2. \A e \in Both(p, {SoundCard}) : e[1] \in Taken(w) /\ e[2] \in Taken(w)
    BY <2>1, TakenBy DEF Both
  <2>3. \A a, b \in Calls : <<w.port[a], w.port[b]>> \notin Both(p, {SoundCard})
    BY <1>5 DEF Both, Sane, Distinct
  <2>4. Sane(w1, Live', Idle', dropped')
    BY <1>5, <2>2, <2>3, ConnectSane
  <2>5. w \in Mixer
    BY <1>5 DEF Sane
  <2>. QED  BY <2>4, <2>5, ConnectFields
<1>7. MediaCallback(w, c, "active") = w1
  <2>1. Join(w, c) = w
    BY <1>3, <1>5 DEF Join
  <2>2. w1.rec[c] = None
    BY <1>3, <1>5, <1>6
  <2>. QED  BY <2>1, <2>2 DEF MediaCallback
<1>. HIDE DEF w1
<1>8. Sane(mix', Live', Idle', dropped')
  BY <1>2, <1>6, <1>7, HoldSane
<1>9. queue' \in Seq(Messages) /\ Reported'
  BY <1>1, <1>2, NewCallLive, PostedReported
<1>10. TypeOK'
  BY <1>1, <1>2, <1>8, <1>9, NewCallLive DEF TypeOK, Sane
<1>. QED  BY <1>8, <1>9, <1>10 DEF IInv

LEMMA EstablishedStep ==
  ASSUME IInv, AC' = AC, OnEstablished
  PROVE  IInv'
<1>. DEFINE c == Head(queue).call
<1>1. Sane(mix, Live, Idle, dropped) /\ TypeOK
  BY DEF IInv
<1>2. queue # <<>> /\ queue' = Tail(queue) /\ UNCHANGED <<st, media, ending, timers, freed, ops, reinvs>>
  BY DEF OnEstablished
<1>3. queue' \in Seq(Messages) /\ Reported'
  BY <1>2, HandledReported
<1>4. c \in Calls
  BY <1>1, <1>2, Handled DEF Messages
<1>5. tab' = (IF TabFree(c) THEN tab \cup {c} ELSE tab)
  BY DEF OnEstablished
<1>6. tab' \in SUBSET Calls
  BY <1>1, <1>4, <1>5 DEF TypeOK
<1>7. Sane(mix', Live, Idle, dropped) /\ dropped \subseteq dropped' /\ dropped' \in SUBSET Calls
  <2>1. CASE UNCHANGED <<mix, dropped>>
    BY <1>1, <2>1 DEF TypeOK
  <2>2. CASE \E s \in (IF c \in tab' THEN {c} ELSE tab) :
               mix' = MergeEvery(mix, s) /\ dropped' = dropped \cup ({s} \ Live)
    <3>1. PICK s \in Calls : mix' = MergeEvery(mix, s) /\ dropped' = dropped \cup ({s} \ Live)
      BY <1>1, <1>4, <2>2 DEF TypeOK
    <3>2. Sane(mix', Live, Idle, dropped)
      BY <1>1, <3>1, LiveOrIdle, MergeEverySane
    <3>. QED  BY <1>1, <3>1, <3>2 DEF TypeOK
  <2>. QED  BY <2>1, <2>2 DEF OnEstablished
<1>8. Sane(mix', Live', Idle', dropped')
  BY <1>2, <1>7, LiveOrIdle, SaneMore
<1>9. TypeOK'
  BY <1>1, <1>2, <1>3, <1>6, <1>7, <1>8 DEF TypeOK, Sane
<1>. QED  BY <1>3, <1>8, <1>9 DEF IInv

LEMMA DisconnectedMessageStep ==
  ASSUME IInv, AC' = AC, OnDisconnected
  PROVE  IInv'
<1>. DEFINE m == Head(queue)
<1>1. Sane(mix, Live, Idle, dropped) /\ TypeOK
  BY DEF IInv
<1>2. /\ queue # <<>> /\ m.type = "disconnected"
      /\ queue' = Tail(queue) /\ UNCHANGED <<st, media, dropped, ops, reinvs>>
      /\ Becomes(OnEndCall(Ui, m.call, m.port)) /\ freed' = freed \cup {m.call}
  BY DEF OnDisconnected
<1>3. queue' \in Seq(Messages) /\ Reported'
  BY <1>2, HandledReported
<1>4. m.call \in Calls /\ m = queue[1] /\ 1 \in 1..Len(queue)
  BY <1>1, <1>2, Handled DEF Messages
<1>5. m.call \notin Live
  BY <1>2, <1>4 DEF IInv, Reported, Live
<1>6. Ui \in Uis /\ Ui.w = mix
  BY <1>1 DEF Ui, Uis, TypeOK
<1>. DEFINE x == OnEndCall(Ui, m.call, m.port)
<1>7. x \in Uis /\ Sane(x.w, Live, Idle, dropped)
  BY <1>1, <1>4, <1>5, <1>6, LiveOrIdle, OnEndCallSane
<1>8. mix' = x.w /\ {tab', timers', ending'} \subseteq SUBSET Calls
  BY <1>2, <1>7 DEF Becomes, Uis
<1>. HIDE DEF x
<1>9. Sane(mix', Live', Idle', dropped')
  BY <1>2, <1>7, <1>8, LiveOrIdle
<1>10. TypeOK'
  BY <1>1, <1>2, <1>3, <1>4, <1>8, <1>9 DEF TypeOK, Sane
<1>. QED  BY <1>3, <1>9, <1>10 DEF IInv

\* The media of a call that exists change.
LEMMA MediaUpdateSane ==
  ASSUME IInv, NEW w, Sane(w, Live, Idle, dropped), NEW c \in Live,
         NEW m \in {"none", "active", "hold", "remoteHold"}, MediaUpdate(w, c, m)
  PROVE  /\ Sane(mix', Live, Idle, dropped)
         /\ media' \in [Calls -> {"none", "active", "hold", "remoteHold"}]
<1>1. media \in [Calls -> {"none", "active", "hold", "remoteHold"}]
  BY DEF IInv, TypeOK
<1>2. Sane(NewPort(w, c), Live, Idle, dropped)
  BY LiveOrIdle, NewPortSane
<1>3. Sane(MediaCallback(NewPort(w, c), c, m), Live, Idle, dropped)
  BY <1>2, LiveOrIdle, MediaSane
<1>4. /\ mix' = w \/ mix' = MediaCallback(NewPort(w, c), c, m)
      /\ media' = media \/ media' = [media EXCEPT ![c] = m]
  BY DEF MediaUpdate
<1>. QED  BY <1>1, <1>3, <1>4

LEMMA MediaStep ==
  ASSUME IInv, AC' = AC, NEW c \in Calls,
         FirstMedia(c) \/ ReinviteAccepted(c) \/ RemoteReinvite(c)
  PROVE  IInv'
<1>1. Sane(mix, Live, Idle, dropped) /\ mix \in Mixer /\ TypeOK
  BY DEF IInv, Sane
<1>2. PICK w \in Mixer, m \in {"none", "active", "hold", "remoteHold"} :
        Sane(w, Live, Idle, dropped) /\ MediaUpdate(w, c, m)
  <2>1. CASE FirstMedia(c)
    BY <1>1, <2>1 DEF FirstMedia
  <2>2. CASE ReinviteAccepted(c)
    <3>. DEFINE v == [mix EXCEPT !.reinv = @ \ {c}]
    <3>1. v \in Mixer /\ SameBridge(v, mix)
      BY <1>1 DEF Mixer, SameBridge
    <3>2. Sane(v, Live, Idle, dropped)
      BY <1>1, <3>1, SameBridgeSane
    <3>3. MediaUpdate(v, c, IF c \in mix.held THEN "hold" ELSE "active")
      BY <2>2 DEF ReinviteAccepted
    <3>. HIDE DEF v
    <3>. QED  BY <3>1, <3>2, <3>3
  <2>3. CASE RemoteReinvite(c)
    BY <1>1, <2>3 DEF RemoteReinvite
  <2>. QED  BY <2>1, <2>2, <2>3
<1>3. c \in Live
  BY DEF FirstMedia, ReinviteAccepted, RemoteReinvite, Confirmed, Live
<1>4. /\ Sane(mix', Live, Idle, dropped)
      /\ media' \in [Calls -> {"none", "active", "hold", "remoteHold"}]
  BY <1>2, <1>3, MediaUpdateSane
<1>5. /\ UNCHANGED <<st, ending, timers, freed, dropped, tab, queue>>
      /\ ops' \in 0..MaxOps /\ reinvs' \in 0..MaxReinvite
  BY <1>1, Counted DEF FirstMedia, ReinviteAccepted, RemoteReinvite, TypeOK
<1>. QED  BY <1>1, <1>4, <1>5, MixStep DEF TypeOK

LEMMA ConfirmStep ==
  ASSUME IInv, AC' = AC, NEW c \in Calls, Confirm(c)
  PROVE  IInv'
<1>. DEFINE w == IF c \in Outgoing THEN Unhold(mix, c) ELSE mix
<1>1. Sane(mix, Live, Idle, dropped) /\ TypeOK
  BY DEF IInv
<1>2. /\ st[c] = "setup" /\ st' = [st EXCEPT ![c] = "confirmed"]
      /\ mix' = (IF AutoRecording THEN RecordingStart(w, c) ELSE w)
      /\ timers' = (IF AutoHangUp THEN timers \cup {c} ELSE timers)
      /\ Post("confirmed", c, None)
      /\ UNCHANGED <<media, ending, freed, dropped, tab, ops, reinvs>>
  BY DEF Confirm
<1>3. c \in Live
  BY <1>2 DEF Live
<1>4. Sane(w, Live, Idle, dropped)
  BY <1>1, HoldSane
<1>. HIDE DEF w
<1>5. Sane(mix', Live, Idle, dropped)
  BY <1>2, <1>3, <1>4, LiveOrIdle, RecordingStartSane
<1>6. Live' = Live /\ Idle' = Idle /\ (\A b \in Calls : st[b] = "over" => st'[b] = "over")
      /\ st' \in [Calls -> {"unused", "setup", "confirmed", "over"}]
  BY <1>1, <1>2 DEF Live, Idle, TypeOK
<1>7. Sane(mix', Live', Idle', dropped')
  BY <1>2, <1>5, <1>6
<1>8. queue' \in Seq(Messages) /\ Reported'
  BY <1>2, <1>6, PostedReported
<1>9. TypeOK'
  BY <1>1, <1>2, <1>6, <1>7, <1>8 DEF TypeOK, Sane
<1>. QED  BY <1>7, <1>8, <1>9 DEF IInv

LEMMA SmallStep ==
  ASSUME IInv, NEW c \in Calls,
         AC' = AC, ReinviteRefused(c) \/ TimerFires(c)
  PROVE  IInv'
<1>1. Sane(mix, Live, Idle, dropped) /\ mix \in Mixer /\ TypeOK
  BY DEF IInv, Sane
<1>2. CASE ReinviteRefused(c)
  <2>1. mix' = [mix EXCEPT !.reinv = @ \ {c}, !.held = SymDiff(@, {c})]
        /\ UNCHANGED <<st, media, ending, timers, freed, dropped, tab, queue, reinvs>> /\ Operate
    BY <1>2 DEF ReinviteRefused
  <2>2. mix' \in Mixer /\ SameBridge(mix', mix)
    BY <1>1, <2>1 DEF Mixer, SameBridge, SymDiff
  <2>3. Sane(mix', Live, Idle, dropped)
    BY <1>1, <2>2, SameBridgeSane
  <2>. QED  BY <1>1, <1>2, <2>1, <2>3, Counted, MixStep DEF TypeOK
<1>3. CASE TimerFires(c)
  BY <1>1, <1>3, Counted, MixStep DEF TypeOK, TimerFires
<1>. QED  BY <1>2, <1>3

\* The end of a call takes its port and its connections away.
LEMMA DisconnectedStep ==
  ASSUME IInv, AC' = AC, NEW c \in Calls, Disconnected(c)
  PROVE  IInv'
<1>. DEFINE p == mix.port[c]
            w == RemovePort(mix, p)
<1>1. Sane(mix, Live, Idle, dropped) /\ mix \in Mixer /\ TypeOK
  BY DEF IInv, Sane
<1>2. /\ c \in Live /\ st' = [st EXCEPT ![c] = "over"] /\ media' = [media EXCEPT ![c] = "none"]
      /\ mix' = [w EXCEPT !.port[c] = None, !.held = @ \ {c}, !.reinv = @ \ {c}]
      /\ Post("disconnected", c, p)
      /\ UNCHANGED <<ending, timers, freed, dropped, tab, ops, reinvs>>
  BY DEF Disconnected
<1>3. /\ w \in Mixer /\ SameCalls(w, mix) /\ w.rec = mix.rec /\ w.rport = mix.rport
      /\ w.wire \subseteq mix.wire
      /\ p \in Ports => \A e \in w.wire : e[1] # p /\ e[2] # p
  BY <1>1, RemovePortSane
<1>. HIDE DEF w
<1>4. /\ mix' \in Mixer /\ mix'.port = [mix.port EXCEPT ![c] = None] /\ mix'.wire = w.wire
      /\ mix'.rec = mix.rec /\ mix'.rport = mix.rport /\ mix'.conf = mix.conf
  BY <1>2, <1>3 DEF Mixer, SameCalls
<1>5. \A a \in Calls : mix'.port[a] = IF a = c THEN None ELSE mix.port[a]
  BY <1>1, <1>4 DEF Mixer
<1>6. None # SoundCard
  BY DEF None, SoundCard
<1>7. Distinct(mix')
  BY <1>1, <1>4, <1>5, <1>6 DEF Sane, Distinct
<1>8. Wired(mix')
  <2>. SUFFICES ASSUME NEW e \in mix'.wire, NEW q \in {e[1], e[2]}
                PROVE  q \in Taken(mix')
    BY DEF Wired
  <2>1. q \in Ports
    BY <1>4 DEF Mixer
  <2>2. q \in Taken(mix) /\ q # p
    BY <1>1, <1>3, <1>4, <2>1 DEF Sane, Wired
  <2>. QED  BY <1>4, <1>5, <2>1, <2>2 DEF Taken
<1>9. Apart(mix', dropped)
  <2>. SUFFICES ASSUME NEW a \in Calls, NEW b \in Calls, a # b,
                       <<mix'.port[a], mix'.port[b]>> \in mix'.wire
                PROVE  {a, b} \subseteq mix'.conf \/ {a, b} \cap dropped # {}
    BY DEF Apart
  <2>1. mix'.port[a] # None /\ mix'.port[b] # None
    BY <1>4, Numbers DEF Mixer
  <2>2. <<mix.port[a], mix.port[b]>> \in mix.wire
    BY <1>3, <1>4, <1>5, <2>1
  <2>. QED  BY <1>1, <1>4, <2>2 DEF Sane, Apart
<1>10. Live' = Live \ {c} /\ Idle' = Idle /\ (\A b \in Calls : st[b] = "over" => st'[b] = "over")
       /\ st' \in [Calls -> {"unused", "setup", "confirmed", "over"}] /\ st'[c] = "over"
  BY <1>1, <1>2 DEF Live, Idle, TypeOK
<1>11. Sane(mix', Live', Idle', dropped')
  BY <1>1, <1>2, <1>4, <1>5, <1>7, <1>8, <1>9, <1>10 DEF Sane
<1>12. p \in {None} \cup Ports
  BY <1>1 DEF Mixer
<1>13. queue' \in Seq(Messages) /\ Reported'
  <2>. HIDE DEF p
  <2>. QED  BY <1>2, <1>10, <1>12, PostedReported
<1>14. media' \in [Calls -> {"none", "active", "hold", "remoteHold"}]
  BY <1>1, <1>2 DEF TypeOK
<1>15. TypeOK'
  BY <1>1, <1>2, <1>10, <1>11, <1>13, <1>14 DEF TypeOK, Sane
<1>. QED  BY <1>11, <1>13, <1>15 DEF IInv

-----------------------------------------------------------------------------
(* The results.                                                            *)

LEMMA InitInv == Init => IInv
<1>. SUFFICES ASSUME Init PROVE IInv
  OBVIOUS
<1>1. mix \in Mixer /\ mix.conf = {} /\ mix.rec = [c \in Calls |-> None] /\ mix.wire = {}
      /\ mix.port = [c \in Calls |-> None] /\ mix.rport = [r \in Recorders |-> None]
  BY DEF Init, Mixer
<1>2. None # SoundCard
  BY DEF None, SoundCard
<1>3. Sane(mix, Live, Idle, dropped)
  BY <1>1, <1>2, LiveOrIdle DEF Sane, Distinct, Wired, Apart
<1>4. TypeOK
  <2>1. ops \in 0..MaxOps /\ reinvs \in 0..MaxReinvite /\ AC \in BOOLEAN
    BY ConferenceAssumption DEF Init
  <2>2. queue \in Seq(Messages)
    BY DEF Init
  <2>. QED  BY <1>1, <2>1, <2>2 DEF Init, TypeOK
<1>5. Reported
  BY DEF Init, Reported
<1>. QED  BY <1>3, <1>4, <1>5 DEF IInv

LEMMA NextInv == IInv /\ [Next]_vars => IInv'
<1>. SUFFICES ASSUME IInv, [Next]_vars PROVE IInv'
  OBVIOUS
<1>1. CASE AC' = AC /\ UserStep
  <2>1. PICK c \in Calls : \/ Dial(c) \/ Answer(c) \/ MergeAll(c) \/ Separate(c)
                           \/ SeparateAll(c) \/ HoldButton(c) \/ RecButton(c)
                           \/ EndButton(c) \/ HangUp(c)
                           \/ \E d \in Calls : Invite(c, d) \/ Merge(c, d)
    BY <1>1 DEF UserStep
  <2>. QED  BY <1>1, <2>1, DialStep, AnswerStep, MenuStep, EndStep, InviteStep
<1>2. CASE AC' = AC /\ WorkerStep
  <2>1. PICK c \in Calls : \/ FirstMedia(c) \/ Confirm(c) \/ ReinviteAccepted(c)
                           \/ ReinviteRefused(c) \/ RemoteReinvite(c)
                           \/ Disconnected(c) \/ TimerFires(c)
    BY <1>2 DEF WorkerStep
  <2>. QED  BY <1>2, <2>1, MediaStep, ConfirmStep, SmallStep, DisconnectedStep
<1>3. CASE AC' = AC /\ OnEstablished
  BY <1>3, EstablishedStep
<1>4. CASE AC' = AC /\ OnDisconnected
  BY <1>4, DisconnectedMessageStep
<1>5. CASE ACButton
  <2>1. TypeOK /\ Sane(mix, Live, Idle, dropped)
    BY DEF IInv
  <2>. QED  BY <1>5, <2>1, Counted, MixStep DEF ACButton, calls, TypeOK
<1>6. CASE UNCHANGED vars
  <2>1. Sane(mix', Live', Idle', dropped')
    BY <1>6, LiveOrIdle DEF IInv, vars, calls
  <2>2. TypeOK' /\ Reported'
    BY <1>6 DEF IInv, vars, calls, TypeOK, Reported
  <2>. QED  BY <2>1, <2>2 DEF IInv
<1>. QED  BY <1>1, <1>2, <1>3, <1>4, <1>5, <1>6 DEF Next

LEMMA Invariant == Spec => []IInv
<1>. QED  BY InitInv, NextInv, PTL DEF Spec

\* Every variable keeps its type: the bridge never runs out of ports, so what
\* a call or a recorder gets is a port.
THEOREM TypeCorrect == Spec => []TypeOK
<1>1. IInv => TypeOK
  BY DEF IInv
<1>. QED  BY <1>1, Invariant, PTL

\* Nobody hears a call that is not in the conference with him: whatever the
\* order of joins, leaves, holds, re-INVITEs, hang-ups and late messages, and
\* although a port is given out again at once.
THEOREM CallsStayApart == Spec => []ConversationsApart
<1>1. IInv => ConversationsApart
  BY LiveCalls DEF IInv, Sane, Apart, ConversationsApart
<1>. QED  BY <1>1, Invariant, PTL

\* The recorder that a call refers to is open: the one that several calls share
\* is not closed while one of them is left.
THEOREM RecorderStaysOpen == Spec => []RecorderOpen
<1>1. IInv => RecorderOpen
  BY DEF IInv, Sane, RecorderOpen
<1>. QED  BY <1>1, Invariant, PTL

\* No two calls, and no call and recorder, have the same port of the bridge,
\* and a port that nobody has is connected with nothing: who gets it next does
\* not inherit the connections of who had it.
THEOREM PortsAreClean == Spec => [](Distinct(mix) /\ Wired(mix))
<1>1. IInv => Distinct(mix) /\ Wired(mix)
  BY DEF IInv, Sane
<1>. QED  BY <1>1, Invariant, PTL
=============================================================================
