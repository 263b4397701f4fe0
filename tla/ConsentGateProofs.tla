-------------------------- MODULE ConsentGateProofs --------------------------
(***************************************************************************)
(* The bound of the consent gate, for every set of customers and permits.  *)
(***************************************************************************)
EXTENDS ConsentGate, FiniteSetTheorems, TLAPS

\* LateBounded is not inductive: that the bound holds when a consent ends
\* rests on no text having been late before, and on the permits that are out
\* never being more than MaxPermits.
GateIInv ==
    /\ GateTypeOK
    /\ Cardinality(Outstanding) <= MaxPermits
    /\ \A c \in Customers : stage[c] # "ended" => late[c] = 0
    /\ \A c \in Customers : stage[c] = "new" => granted[c] = {}
    /\ LateBounded

\* Every set of permits is finite, so cardinalities of such sets are numbers.
LEMMA PermitsFinite ==
    ASSUME GateAssumption, NEW S \in SUBSET Permits
    PROVE  IsFiniteSet(S) /\ Cardinality(S) \in Nat
BY FS_Subset, FS_CardinalityType DEF GateAssumption

LEMMA OutstandingPermits ==
    ASSUME GateTypeOK
    PROVE  /\ Outstanding \subseteq Permits
           /\ \A c \in Customers : granted[c] \subseteq Outstanding
BY DEF GateTypeOK, Outstanding

\* Giving a permit back leaves no more permits out than before.
LEMMA TakenBack ==
    ASSUME GateAssumption,
           GateTypeOK, NEW c \in Customers, NEW p \in granted[c],
           granted' = [granted EXCEPT ![c] = @ \ {p}],
           Cardinality(Outstanding) <= MaxPermits
    PROVE  /\ Cardinality(Outstanding') <= MaxPermits
           /\ Cardinality(granted'[c]) = Cardinality(granted[c]) - 1
<1>1. Outstanding' \subseteq Outstanding
  BY DEF GateTypeOK, Outstanding
<1>2. Outstanding \in SUBSET Permits /\ granted[c] \in SUBSET Permits
  BY OutstandingPermits DEF GateTypeOK
<1>3. Cardinality(Outstanding') <= Cardinality(Outstanding)
  BY <1>1, <1>2, PermitsFinite, FS_Subset
<1>4. Cardinality(Outstanding) \in Nat /\ Cardinality(Outstanding') \in Nat
  BY <1>1, <1>2, PermitsFinite
<1>5. Cardinality(granted[c] \ {p}) = Cardinality(granted[c]) - 1
  BY <1>2, PermitsFinite, FS_RemoveElement
<1>6. granted'[c] = granted[c] \ {p}
  BY DEF GateTypeOK
<1> QED
  BY <1>3, <1>4, <1>5, <1>6 DEF GateAssumption

LEMMA GateInitial == GateAssumption /\ GateInit => GateIInv
<1> SUFFICES ASSUME GateAssumption, GateInit PROVE GateIInv
  OBVIOUS
<1>1. GateTypeOK
  BY DEF GateInit, GateTypeOK
<1>2. Outstanding = {} /\ \A c \in Customers : granted[c] = {}
  BY DEF GateInit, Outstanding
<1>3. Cardinality({}) = 0
  BY FS_EmptySet
<1> QED
  BY <1>1, <1>2, <1>3 DEF GateAssumption, GateInit, GateIInv, LateBounded

LEMMA GateStep == GateAssumption /\ GateIInv /\ [GateNext]_gateVars => GateIInv'
<1> SUFFICES ASSUME GateAssumption, GateIInv, [GateNext]_gateVars PROVE GateIInv'
  OBVIOUS
<1> USE DEF GateIInv
<1>1. ASSUME NEW c \in Customers, Give(c) PROVE GateIInv'
  <2>1. GateTypeOK' /\ Outstanding' = Outstanding
    BY <1>1 DEF Give, GateTypeOK, Outstanding
  <2>2. Cardinality({}) = 0
    BY FS_EmptySet
  <2> QED
    BY <1>1, <2>1, <2>2 DEF Give, GateTypeOK, LateBounded
<1>2. ASSUME NEW c \in Customers, End(c) PROVE GateIInv'
  <2>1. GateTypeOK' /\ Outstanding' = Outstanding
    BY <1>2 DEF End, GateTypeOK, Outstanding
  <2>2. Cardinality(granted[c]) <= Cardinality(Outstanding)
    BY OutstandingPermits, PermitsFinite, FS_Subset DEF GateTypeOK
  <2>3. Cardinality(granted[c]) \in Nat /\ Cardinality(Outstanding) \in Nat
    BY OutstandingPermits, PermitsFinite DEF GateTypeOK
  <2>4. late[c] = 0
    BY <1>2 DEF End
  <2>5. late[c] + Cardinality(granted[c]) <= MaxPermits
    BY <2>2, <2>3, <2>4 DEF GateAssumption
  <2> QED
    BY <1>2, <2>1, <2>5 DEF End, GateTypeOK, LateBounded
<1>3. ASSUME NEW c \in Customers, NEW p \in Permits, Grant(c, p) PROVE GateIInv'
  <2>1. GateTypeOK'
    BY <1>3 DEF Grant, GateTypeOK
  <2>2. Outstanding' = Outstanding \cup {p}
    BY <1>3 DEF Grant, GateTypeOK, Outstanding
  <2> QED
    BY <1>3, <2>1, <2>2 DEF Grant, GateTypeOK, LateBounded
<1>4. ASSUME NEW c \in Customers, NEW p \in Permits, Spend(c, p) PROVE GateIInv'
  <2>1. GateTypeOK'
    BY <1>4 DEF Spend, GateTypeOK
  <2>2. /\ Cardinality(Outstanding') <= MaxPermits
        /\ Cardinality(granted'[c]) = Cardinality(granted[c]) - 1
    BY <1>4, TakenBack DEF Spend
  <2>3. late[c] \in Nat /\ Cardinality(granted[c]) \in Nat
    BY PermitsFinite DEF GateTypeOK
  <2>4. stage[c] # "given" => late'[c] + Cardinality(granted'[c]) <= MaxPermits
    <3>1. CASE stage[c] = "ended"
      <4>1. late'[c] = late[c] + 1
        BY <1>4, <3>1 DEF Spend, GateTypeOK
      <4> QED
        BY <3>1, <4>1, <2>2, <2>3 DEF GateAssumption, LateBounded
    <3>2. CASE stage[c] # "ended"
      BY <1>4, <3>2 DEF Spend, GateTypeOK
    <3> QED
      BY <3>1, <3>2
  <2> QED
    BY <1>4, <2>1, <2>2, <2>4 DEF Spend, GateTypeOK, LateBounded
<1>5. ASSUME NEW c \in Customers, NEW p \in Permits, Lapse(c, p) PROVE GateIInv'
  <2>1. GateTypeOK'
    BY <1>5 DEF Lapse, GateTypeOK
  <2>2. /\ Cardinality(Outstanding') <= MaxPermits
        /\ Cardinality(granted'[c]) = Cardinality(granted[c]) - 1
    BY <1>5, TakenBack DEF Lapse
  <2>3. late[c] \in Nat /\ Cardinality(granted[c]) \in Nat
    BY PermitsFinite DEF GateTypeOK
  <2>4. stage[c] # "given" => late'[c] + Cardinality(granted'[c]) <= MaxPermits
    BY <1>5, <2>2, <2>3 DEF GateAssumption, Lapse, LateBounded
  <2> QED
    BY <1>5, <2>1, <2>2, <2>4 DEF Lapse, GateTypeOK, LateBounded
<1>6. CASE UNCHANGED gateVars
  BY <1>6 DEF gateVars, GateTypeOK, Outstanding, LateBounded
<1> QED
  BY <1>1, <1>2, <1>3, <1>4, <1>5, <1>6 DEF GateNext

\* The gate keeps its promise: once a customer's consent has ended, the texts
\* that still go out and the permits that could let one out are together no
\* more than MaxPermits.
THEOREM GateLateBounded ==
    ASSUME GateAssumption
    PROVE  GateSpec => []LateBounded
<1>1. GateInit => GateIInv
  BY GateInitial
<1>2. GateIInv /\ [GateNext]_gateVars => GateIInv'
  BY GateStep
<1>3. GateIInv => LateBounded
  BY DEF GateIInv
<1> QED
  BY <1>1, <1>2, <1>3, PTL DEF GateSpec
==============================================================================
