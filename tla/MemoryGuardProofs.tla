------------------------- MODULE MemoryGuardProofs -------------------------
(***************************************************************************)
(* Theorems about the memory budget, for every host, request and set of    *)
(* reservations.                                                           *)
(***************************************************************************)
EXTENDS MemoryGuard, FiniteSetTheorems, TLAPS

(* The cap computed for any request is within floor and ceiling.            *)
LEMMA CapForBounds ==
  ASSUME NEW r \in Nat
  PROVE  CapFor(r) \in Nat /\ CapFor(r) >= CapFloor /\ CapFor(r) <= CapCeiling
BY SizesAssumption DEF CapFor, Clamp, Least

LEMMA AddressSpaceBounds ==
  ASSUME NEW c \in Nat
  PROVE  /\ AddressSpaceFor(c) \in Nat /\ AddressSpaceFor(c) <= CapCeiling
         /\ c + c \div 8 \in Nat
<1>1. c \div 8 \in Nat
  OBVIOUS
<1> QED BY <1>1, SizesAssumption, RssAssumption DEF AddressSpaceFor, Clamp

(* Below the ceiling a granted sum is the true sum: it cannot wrap, because *)
(* the request alone was compared with the cap first.                       *)
LEMMA GrantedSum ==
  ASSUME NEW b \in Nat, Fits(b), cap \in Nat, cap <= CapCeiling,
         used \in Nat, used <= CapCeiling
  PROVE  Plus(used, b) = used + b /\ used + b <= cap
BY SizesAssumption DEF Fits, Plus

-----------------------------------------------------------------------------
GuardInv == TypeOK /\ EnvelopeHolds

LEMMA GuardInit == Init => GuardInv
<1> SUFFICES ASSUME Init PROVE GuardInv
  OBVIOUS
<1> USE SizesAssumption DEF Init
<1>1. EnvelopeHolds
  BY DEF EnvelopeHolds
<1>2. /\ initialised \in BOOLEAN /\ installed \in BOOLEAN
      /\ cap \in Nat /\ used \in Nat /\ peak \in Nat
      /\ rlimitBytes \in Nat /\ kernel \in Nat
  OBVIOUS
<1>3. /\ scope \in [Scopes -> Held \cup {NoScope}]
      /\ pc \in [Callers -> CallerPC]
      /\ target \in [Callers -> Nat]
      /\ \A c \in Callers : pc[c] = "idle"
  BY DEF CallerPC
<1> QED BY <1>1, <1>2, <1>3 DEF GuardInv, TypeOK

LEMMA GuardNext == GuardInv /\ [Next]_vars => GuardInv'
<1> SUFFICES ASSUME GuardInv, [Next]_vars PROVE GuardInv'
  OBVIOUS
<1> USE SizesAssumption DEF GuardInv, TypeOK, EnvelopeHolds, CallerPC,
        accounting, limits, locals
<1>1. ASSUME NEW c \in Callers, NEW r \in Requests, NEW i \in BOOLEAN,
             Initialise(c, r, i)
      PROVE  GuardInv'
  BY <1>1, CapForBounds, AddressSpaceBounds DEF Initialise
<1>2. ASSUME NEW c \in Callers, DetectHardware(c) PROVE GuardInv'
  BY <1>2 DEF DetectHardware
<1>3. ASSUME NEW c \in Callers, InitialiseDefaults(c) PROVE GuardInv'
  BY <1>3, CapForBounds, AddressSpaceBounds DEF InitialiseDefaults
<1>4. ASSUME NEW c \in Callers, EnforceRlimits(c) PROVE GuardInv'
  BY <1>4, AddressSpaceBounds DEF EnforceRlimits
<1>5. ASSUME NEW c \in Callers, GetRlimit(c) PROVE GuardInv'
  BY <1>5 DEF GetRlimit, Tightened
<1>6. ASSUME NEW c \in Callers, SetRlimit(c) PROVE GuardInv'
  BY <1>6 DEF SetRlimit
<1>7. ASSUME NEW c \in Callers, RecordRlimit(c) PROVE GuardInv'
  BY <1>7 DEF RecordRlimit
<1>8. ASSUME NEW s \in Scopes, NEW b \in Amounts, Reserve(s, b) PROVE GuardInv'
  <2>1. b \in Nat /\ [bytes |-> b, counted |-> initialised] \in Held
    BY DEF Held
  <2>2. used' \in Nat /\ used' <= CapCeiling
    BY <1>8, <2>1, GrantedSum DEF Reserve
  <2>3. peak' \in Nat /\ used' <= peak' /\ peak' <= CapCeiling
    BY <1>8, <2>2 DEF Reserve
  <2>4. scope' \in [Scopes -> Held \cup {NoScope}]
    BY <1>8, <2>1 DEF Reserve
  <2> QED BY <1>8, <2>2, <2>3, <2>4 DEF Reserve
<1>9. ASSUME NEW s \in Scopes, Release(s) PROVE GuardInv'
  <2>1. scope[s] \in Held /\ scope[s].bytes \in Nat
    BY <1>9 DEF Release, Held
  <2>2. used' \in Nat /\ used' <= used
    BY <1>9, <2>1 DEF Release, AfterRelease, Minus
  <2>3. scope' \in [Scopes -> Held \cup {NoScope}]
    BY <1>9 DEF Release
  <2> QED BY <1>9, <2>2, <2>3 DEF Release
<1>10. CASE UNCHANGED vars
  BY <1>10 DEF vars
<1> QED BY <1>1, <1>2, <1>3, <1>4, <1>5, <1>6, <1>7, <1>8, <1>9, <1>10 DEF Next

LEMMA GuardAlways == Spec => []GuardInv
BY GuardInit, GuardNext, PTL DEF Spec

(* The guard keeps the types of its fields, and a caller that has left the  *)
(* critical section of initialise finds it initialised.                     *)
THEOREM TypeCorrect == Spec => []TypeOK
BY GuardAlways, PTL DEF GuardInv

(* The budget and everything ever accounted stay below the ceiling.         *)
THEOREM EnvelopeAlwaysHolds == Spec => []EnvelopeHolds
BY GuardAlways, PTL DEF GuardInv

-----------------------------------------------------------------------------
(* The account.  The bytes of one scope are as many as it reserved, those   *)
(* of two scopes are apart, so a reservation adds its own to the bytes held *)
(* and a release takes away those of its scope.                             *)
Units(s, n) == {s} \X (1 .. n)

LEMMA UnitsCounted ==
  ASSUME NEW s, NEW n \in Nat
  PROVE  IsFiniteSet(Units(s, n)) /\ Cardinality(Units(s, n)) = n
<1>1. IsFiniteSet({s}) /\ Cardinality({s}) = 1
  BY FS_Singleton
<1>2. IsFiniteSet(1 .. n) /\ Cardinality(1 .. n) = n
  BY FS_Interval
<1>3. /\ IsFiniteSet({s} \X (1 .. n))
      /\ Cardinality({s} \X (1 .. n)) = Cardinality({s}) * Cardinality(1 .. n)
  BY <1>1, <1>2, FS_Product
<1> QED BY <1>1, <1>2, <1>3 DEF Units

LEMMA ApartAdded ==
  ASSUME NEW S, NEW T, IsFiniteSet(S), IsFiniteSet(T), S \cap T = {}
  PROVE  IsFiniteSet(S \cup T) /\ Cardinality(S \cup T) = Cardinality(S) + Cardinality(T)
<1>1. Cardinality(S) \in Nat /\ Cardinality(T) \in Nat
  BY FS_CardinalityType
<1>2. Cardinality(S \cap T) = 0
  BY FS_EmptySet
<1>3. /\ IsFiniteSet(S \cup T)
      /\ Cardinality(S \cup T) = Cardinality(S) + Cardinality(T) - Cardinality(S \cap T)
  BY FS_Union
<1> QED BY <1>1, <1>2, <1>3

(* What a scope that is live and counted holds is part of the bytes held.   *)
LEMMA HeldUnits ==
  ASSUME NEW u
  PROVE  u \in HeldBytes <=>
           \E s \in Scopes : /\ scope[s] # NoScope /\ scope[s].counted
                             /\ u \in Units(s, scope[s].bytes)
BY DEF HeldBytes, LiveScopes, Units

LEMMA ReserveHolds ==
  ASSUME TypeOK, NEW s \in Scopes, NEW b \in Amounts, Reserve(s, b)
  PROVE  /\ initialised => HeldBytes' = HeldBytes \cup Units(s, b)
         /\ ~initialised => HeldBytes' = HeldBytes
         /\ HeldBytes \cap Units(s, b) = {}
<1>1. /\ scope[s] = NoScope
      /\ scope'[s] = [bytes |-> b, counted |-> initialised]
      /\ \A t \in Scopes : t # s => scope'[t] = scope[t]
  BY DEF Reserve, TypeOK
<1>2. [bytes |-> b, counted |-> initialised] # NoScope
  BY NoScopeAssumption, SizesAssumption DEF TypeOK
<1>3. ASSUME NEW u
      PROVE  u \in HeldBytes' <=>
               \E t \in Scopes : /\ scope'[t] # NoScope /\ scope'[t].counted
                                 /\ u \in Units(t, scope'[t].bytes)
  BY DEF HeldBytes, LiveScopes, Units
<1>4. ASSUME NEW u
      PROVE  u \in HeldBytes' <=> u \in HeldBytes \/ (initialised /\ u \in Units(s, b))
  <2>1. scope'[s].counted = initialised /\ scope'[s].bytes = b
    BY <1>1
  <2>2. (\E t \in Scopes : /\ scope'[t] # NoScope /\ scope'[t].counted
                           /\ u \in Units(t, scope'[t].bytes))
        <=> \/ \E t \in Scopes : /\ scope[t] # NoScope /\ scope[t].counted
                                 /\ u \in Units(t, scope[t].bytes)
            \/ initialised /\ u \in Units(s, b)
    BY <1>1, <1>2, <2>1
  <2> QED BY <1>3, <2>2, HeldUnits
<1>5. HeldBytes \cap Units(s, b) = {}
  <2> SUFFICES ASSUME NEW u \in HeldBytes, u \in Units(s, b) PROVE FALSE
    OBVIOUS
  <2>1. PICK t \in Scopes : scope[t] # NoScope /\ u \in Units(t, scope[t].bytes)
    BY HeldUnits
  <2>2. u[1] = t /\ u[1] = s
    BY <2>1 DEF Units
  <2> QED BY <1>1, <2>1, <2>2
<1>6. ASSUME initialised PROVE HeldBytes' = HeldBytes \cup Units(s, b)
  BY <1>4, <1>6
<1>7. ASSUME ~initialised PROVE HeldBytes' = HeldBytes
  BY <1>4, <1>7
<1> QED BY <1>5, <1>6, <1>7

LEMMA ReleaseHolds ==
  ASSUME TypeOK, NEW s \in Scopes, Release(s)
  PROVE  /\ scope[s] \in Held
         /\ ~scope[s].counted => HeldBytes' = HeldBytes
         /\ scope[s].counted => /\ HeldBytes = HeldBytes' \cup Units(s, scope[s].bytes)
                                /\ HeldBytes' \cap Units(s, scope[s].bytes) = {}
<1>1. /\ scope[s] # NoScope /\ scope'[s] = NoScope
      /\ \A t \in Scopes : t # s => scope'[t] = scope[t]
  BY DEF Release, TypeOK
<1>2. scope[s] \in Held
  BY <1>1 DEF TypeOK
<1>3. ASSUME NEW u
      PROVE  u \in HeldBytes' <=>
               \E t \in Scopes : /\ scope'[t] # NoScope /\ scope'[t].counted
                                 /\ u \in Units(t, scope'[t].bytes)
  BY DEF HeldBytes, LiveScopes, Units
<1>4. ASSUME NEW u
      PROVE  u \in HeldBytes <=>
               u \in HeldBytes' \/ (scope[s].counted /\ u \in Units(s, scope[s].bytes))
  <2>1. (\E t \in Scopes : /\ scope[t] # NoScope /\ scope[t].counted
                           /\ u \in Units(t, scope[t].bytes))
        <=> \/ \E t \in Scopes : /\ scope'[t] # NoScope /\ scope'[t].counted
                                 /\ u \in Units(t, scope'[t].bytes)
            \/ scope[s].counted /\ u \in Units(s, scope[s].bytes)
    BY <1>1
  <2> QED BY <1>3, <2>1, HeldUnits
<1>5. HeldBytes' \cap Units(s, scope[s].bytes) = {}
  <2> SUFFICES ASSUME NEW u \in HeldBytes', u \in Units(s, scope[s].bytes) PROVE FALSE
    OBVIOUS
  <2>1. PICK t \in Scopes : scope'[t] # NoScope /\ u \in Units(t, scope'[t].bytes)
    BY <1>3
  <2>2. u[1] = t /\ u[1] = s
    BY <2>1 DEF Units
  <2> QED BY <1>1, <2>1, <2>2
<1>6. ASSUME scope[s].counted
      PROVE  HeldBytes = HeldBytes' \cup Units(s, scope[s].bytes)
  BY <1>4, <1>6
<1>7. ASSUME ~scope[s].counted PROVE HeldBytes' = HeldBytes
  BY <1>4, <1>7
<1> QED BY <1>2, <1>5, <1>6, <1>7

(* Only finitely many bytes are ever held, and a step keeps the account     *)
(* exact: GuardInv keeps a granted sum from wrapping, and the bytes of a    *)
(* scope are among those counted when they are released.                    *)
LEMMA AccountStep ==
  ASSUME GuardInv, IsFiniteSet(HeldBytes), [Next]_vars
  PROVE  /\ IsFiniteSet(HeldBytes)'
         /\ (used = CountedBytes /\ \A s \in LiveScopes : scope[s].counted)
              => used' = CountedBytes'
<1> USE DEF GuardInv, TypeOK, EnvelopeHolds
<1>0. Cardinality(HeldBytes) \in Nat /\ Amounts \subseteq Nat
  BY FS_CardinalityType, SizesAssumption
<1>1. ASSUME NEW s \in Scopes, NEW b \in Amounts, Reserve(s, b)
      PROVE  /\ IsFiniteSet(HeldBytes)'
             /\ used = CountedBytes => used' = CountedBytes'
  <2>1. IsFiniteSet(Units(s, b)) /\ Cardinality(Units(s, b)) = b
    BY <1>0, UnitsCounted
  <2>2. CASE initialised
    <3>1. HeldBytes' = HeldBytes \cup Units(s, b) /\ HeldBytes \cap Units(s, b) = {}
      BY <1>1, <2>2, ReserveHolds
    <3>2. IsFiniteSet(HeldBytes') /\ Cardinality(HeldBytes') = Cardinality(HeldBytes) + b
      BY <2>1, <3>1, ApartAdded
    <3>3. used' = used + b
      BY <1>0, <1>1, <2>2, SizesAssumption, GrantedSum DEF Reserve
    <3> QED BY <3>2, <3>3 DEF CountedBytes
  <2>3. CASE ~initialised
    <3>1. HeldBytes' = HeldBytes /\ used' = used
      BY <1>1, <2>3, ReserveHolds DEF Reserve
    <3> QED BY <3>1 DEF CountedBytes
  <2> QED BY <2>2, <2>3
<1>2. ASSUME NEW s \in Scopes, Release(s)
      PROVE  /\ IsFiniteSet(HeldBytes)'
             /\ (used = CountedBytes /\ scope[s].counted) => used' = CountedBytes'
  <2>1. scope[s] \in Held /\ scope[s].bytes \in Nat
    BY <1>0, <1>2, ReleaseHolds DEF Held
  <2>2. IsFiniteSet(Units(s, scope[s].bytes))
        /\ Cardinality(Units(s, scope[s].bytes)) = scope[s].bytes
    BY <2>1, UnitsCounted
  <2>3. HeldBytes' \subseteq HeldBytes
    BY <1>2, ReleaseHolds
  <2>4. IsFiniteSet(HeldBytes') /\ Cardinality(HeldBytes') \in Nat
    BY <2>3, FS_Subset, FS_CardinalityType
  <2>5. ASSUME scope[s].counted
        PROVE  Cardinality(HeldBytes) = Cardinality(HeldBytes') + scope[s].bytes
    <3>1. /\ HeldBytes = HeldBytes' \cup Units(s, scope[s].bytes)
          /\ HeldBytes' \cap Units(s, scope[s].bytes) = {}
      BY <1>2, <2>5, ReleaseHolds
    <3> QED BY <2>2, <2>4, <3>1, ApartAdded
  <2>6. used' = Minus(used, scope[s].bytes)
    BY <1>2 DEF Release, AfterRelease
  <2>7. ASSUME used = CountedBytes, scope[s].counted PROVE used' = CountedBytes'
    <3>1. used = Cardinality(HeldBytes') + scope[s].bytes
      BY <2>5, <2>7 DEF CountedBytes
    <3>2. used' = Cardinality(HeldBytes')
      BY <2>1, <2>4, <2>6, <3>1 DEF Minus
    <3> QED BY <3>2 DEF CountedBytes
  <2> QED BY <2>4, <2>7
<1>3. ASSUME UNCHANGED <<used, scope>>
      PROVE  /\ IsFiniteSet(HeldBytes)'
             /\ used = CountedBytes => used' = CountedBytes'
  <2>1. HeldBytes' = HeldBytes
    BY <1>3 DEF HeldBytes, LiveScopes
  <2> QED BY <1>3, <2>1 DEF CountedBytes
<1>4. ASSUME NEW c \in Callers, NEW r \in Requests, NEW i \in BOOLEAN,
             \/ Initialise(c, r, i) \/ DetectHardware(c) \/ InitialiseDefaults(c)
             \/ EnforceRlimits(c) \/ GetRlimit(c) \/ SetRlimit(c) \/ RecordRlimit(c)
      PROVE  UNCHANGED <<used, scope>>
  BY <1>4 DEF Initialise, DetectHardware, InitialiseDefaults, EnforceRlimits,
              GetRlimit, SetRlimit, RecordRlimit, accounting
<1>5. ASSUME UNCHANGED vars PROVE UNCHANGED <<used, scope>>
  BY <1>5 DEF vars, accounting
<1>6. ASSUME NEW s \in Scopes, Release(s) PROVE s \in LiveScopes
  BY <1>6 DEF Release, LiveScopes
<1>7. DefaultCap \in Requests /\ TRUE \in BOOLEAN
  BY SizesAssumption
<1> QED BY <1>1, <1>2, <1>3, <1>4, <1>5, <1>6, <1>7 DEF Next

LEMMA HeldFinite == Spec => []IsFiniteSet(HeldBytes)
<1>1. Init => IsFiniteSet(HeldBytes)
  <2> SUFFICES ASSUME Init PROVE IsFiniteSet(HeldBytes)
    OBVIOUS
  <2>1. HeldBytes = {}
    BY DEF Init, HeldBytes, LiveScopes
  <2> QED BY <2>1, FS_EmptySet
<1>2. GuardInv /\ IsFiniteSet(HeldBytes) /\ [Next]_vars => IsFiniteSet(HeldBytes)'
  BY AccountStep
<1> QED BY <1>1, <1>2, GuardAlways, PTL DEF Spec

(* An account that is what the live reservations hold stays so, through any *)
(* reserve and release, while all of them were counted when granted: used_  *)
(* neither wraps nor is cut off at zero nor forgets what was given back.    *)
THEOREM AccountAlwaysExact == Spec => ExactAccount
<1>1. GuardInv /\ IsFiniteSet(HeldBytes) /\ [Next]_vars =>
        [(used = CountedBytes /\ \A s \in LiveScopes : scope[s].counted)
           => used' = CountedBytes']_vars
  BY AccountStep
<1> QED BY <1>1, HeldFinite, GuardAlways, PTL DEF Spec, ExactAccount

(* What the reservations hold together, counted byte by byte, is within the *)
(* budget in force whenever a grant makes it grow, for every word length    *)
(* that leaves room for twice the ceiling: the sum that reserve compares    *)
(* with the cap is the true one.                                            *)
THEOREM HeldAlwaysFitsBudget == Spec => HeldFitsBudget
<1>1. GuardInv /\ IsFiniteSet(HeldBytes) /\ [Next]_vars =>
        [(used = CountedBytes /\ CountedBytes' > CountedBytes)
           => CountedBytes' <= cap]_vars
  <2> SUFFICES ASSUME GuardInv, IsFiniteSet(HeldBytes), Next,
                      used = CountedBytes, CountedBytes' > CountedBytes
               PROVE  CountedBytes' <= cap
    OBVIOUS
  <2>0. Cardinality(HeldBytes) \in Nat /\ Amounts \subseteq Nat
    BY FS_CardinalityType, SizesAssumption
  <2>1. ASSUME NEW s \in Scopes, NEW b \in Amounts, Reserve(s, b)
        PROVE  CountedBytes' <= cap
    <3>1. initialised
      <4> SUFFICES ASSUME ~initialised PROVE FALSE
        OBVIOUS
      <4>1. HeldBytes' = HeldBytes
        BY <2>1, ReserveHolds DEF GuardInv
      <4> QED BY <2>0, <4>1 DEF CountedBytes
    <3>2. HeldBytes' = HeldBytes \cup Units(s, b) /\ HeldBytes \cap Units(s, b) = {}
      BY <2>1, <3>1, ReserveHolds DEF GuardInv
    <3>3. IsFiniteSet(Units(s, b)) /\ Cardinality(Units(s, b)) = b
      BY <2>0, UnitsCounted
    <3>4. Cardinality(HeldBytes') = Cardinality(HeldBytes) + b
      BY <3>2, <3>3, ApartAdded
    <3>5. b \in Nat /\ Fits(b)
      BY <2>0, <2>1, <3>1 DEF Reserve
    <3>6. used + b <= cap
      BY <3>5, GrantedSum, SizesAssumption DEF GuardInv, TypeOK, EnvelopeHolds
    <3> QED BY <3>4, <3>6 DEF CountedBytes
  <2>2. ASSUME HeldBytes' \subseteq HeldBytes PROVE FALSE
    <3>1. Cardinality(HeldBytes') \in Nat /\ Cardinality(HeldBytes') <= Cardinality(HeldBytes)
      BY <2>2, FS_Subset, FS_CardinalityType
    <3> QED BY <2>0, <3>1 DEF CountedBytes
  <2>3. ASSUME NEW s \in Scopes, Release(s) PROVE HeldBytes' \subseteq HeldBytes
    BY <2>3, ReleaseHolds DEF GuardInv
  <2>4. ASSUME UNCHANGED scope PROVE HeldBytes' \subseteq HeldBytes
    BY <2>4 DEF HeldBytes, LiveScopes
  <2>5. ASSUME NEW c \in Callers, NEW r \in Requests, NEW i \in BOOLEAN,
               \/ Initialise(c, r, i) \/ DetectHardware(c) \/ InitialiseDefaults(c)
               \/ EnforceRlimits(c) \/ GetRlimit(c) \/ SetRlimit(c) \/ RecordRlimit(c)
        PROVE  UNCHANGED scope
    BY <2>5 DEF Initialise, DetectHardware, InitialiseDefaults, EnforceRlimits,
                GetRlimit, SetRlimit, RecordRlimit, accounting
  <2>6. DefaultCap \in Requests /\ TRUE \in BOOLEAN
    BY SizesAssumption
  <2> QED BY <2>1, <2>2, <2>3, <2>4, <2>5, <2>6 DEF Next
<1> QED BY <1>1, HeldFinite, GuardAlways, PTL DEF Spec, HeldFitsBudget

-----------------------------------------------------------------------------
(* The kernel's limit.  With one caller, what getrlimit returned is still in*)
(* force at setrlimit; with more, an unprivileged process is refused when   *)
(* another one tightened in between.                                        *)
OneCallerOrUnprivileged ==
  (\A c, d \in Callers : c = d) \/ ~Privileged

LimitInv ==
  \A c \in Callers :
    /\ target[c] <= 2 * CapCeiling
    /\ (pc[c] = "setrlimit" /\ \A d \in Callers : d = c) => target[c] <= kernel

LEMMA LimitStep == GuardInv /\ LimitInv /\ [Next]_vars => LimitInv'
<1> SUFFICES ASSUME GuardInv, LimitInv, [Next]_vars, NEW c \in Callers
             PROVE  /\ target'[c] <= 2 * CapCeiling
                    /\ (pc'[c] = "setrlimit" /\ \A d \in Callers : d = c)
                          => target'[c] <= kernel'
  BY DEF LimitInv
<1> USE SizesAssumption DEF GuardInv, TypeOK, EnvelopeHolds, CallerPC
<1>0. /\ target[c] <= 2 * CapCeiling /\ target[c] \in Nat
      /\ (pc[c] = "setrlimit" /\ \A d \in Callers : d = c) => target[c] <= kernel
  BY DEF LimitInv
<1>1. ASSUME NEW d \in Callers, NEW r \in Requests, NEW i \in BOOLEAN,
             Initialise(d, r, i) \/ InitialiseDefaults(d) \/ EnforceRlimits(d)
      PROVE  /\ target'[c] <= 2 * CapCeiling /\ kernel' = kernel
             /\ pc'[c] = "setrlimit" => pc[c] = "setrlimit" /\ target'[c] = target[c]
  <2>1. /\ CapFor(r) \in Nat /\ CapFor(DefaultCap) \in Nat
        /\ AddressSpaceFor(CapFor(r)) <= CapCeiling
        /\ AddressSpaceFor(CapFor(DefaultCap)) <= CapCeiling
    BY CapForBounds, AddressSpaceBounds
  <2>2. cap + cap \div 8 <= 2 * CapCeiling
    OBVIOUS
  <2>a. ASSUME NEW limit \in Nat, limit <= CapCeiling,
               target' = [target EXCEPT ![d] = limit],
               pc'[d] # "setrlimit", kernel' = kernel,
               \A e \in Callers : e # d => pc'[e] = pc[e]
        PROVE  /\ target'[c] <= 2 * CapCeiling /\ kernel' = kernel
               /\ pc'[c] = "setrlimit" => pc[c] = "setrlimit" /\ target'[c] = target[c]
    BY <1>0, <2>a
  <2>b. AddressSpaceFor(CapFor(r)) \in Nat /\ AddressSpaceFor(CapFor(DefaultCap)) \in Nat
    BY <2>1, AddressSpaceBounds
  <2>3. CASE Initialise(d, r, i)
    <3>1. /\ target' = [target EXCEPT ![d] = AddressSpaceFor(CapFor(r))]
          /\ pc' = [pc EXCEPT ![d] = IF i THEN "getrlimit" ELSE "idle"]
          /\ kernel' = kernel
      BY <2>3 DEF Initialise
    <3> QED BY <2>1, <2>a, <2>b, <3>1
  <2>4. CASE InitialiseDefaults(d)
    <3>1. /\ target' = [target EXCEPT ![d] = AddressSpaceFor(CapFor(DefaultCap))]
          /\ pc' = [pc EXCEPT ![d] = "getrlimit"]
          /\ kernel' = kernel
      BY <2>4 DEF InitialiseDefaults
    <3> QED BY <2>1, <2>a, <2>b, <3>1
  <2>5. CASE EnforceRlimits(d)
    BY <1>0, <2>2, <2>5 DEF EnforceRlimits, limits, accounting
  <2> QED BY <1>1, <2>3, <2>4, <2>5
<1>2. ASSUME NEW d \in Callers, GetRlimit(d)
      PROVE  /\ target'[c] <= 2 * CapCeiling
             /\ (pc'[c] = "setrlimit" /\ \A e \in Callers : e = c)
                   => target'[c] <= kernel'
  <2>1. kernel' = kernel /\ kernel \in Nat
    BY <1>2 DEF GetRlimit
  <2>2. CASE d = c
    <3>1. target'[c] = Tightened(target[c])
      BY <1>2, <2>2 DEF GetRlimit
    <3> QED BY <1>0, <2>1, <3>1 DEF Tightened
  <2>3. CASE d # c
    BY <1>0, <1>2, <2>1, <2>3 DEF GetRlimit
  <2> QED BY <2>2, <2>3
<1>3. ASSUME NEW d \in Callers, DetectHardware(d) \/ SetRlimit(d) \/ RecordRlimit(d)
      PROVE  /\ target'[c] <= 2 * CapCeiling
             /\ (pc'[c] = "setrlimit" /\ \A e \in Callers : e = c)
                   => target'[c] <= kernel'
  <2>1. target' = target
    BY <1>3 DEF DetectHardware, SetRlimit, RecordRlimit
  <2>2. pc'[c] = "setrlimit" => pc[c] = "setrlimit" /\ d # c
    BY <1>3 DEF DetectHardware, SetRlimit, RecordRlimit
  <2> QED BY <1>0, <2>1, <2>2
<1>4. ASSUME NEW s \in Scopes, NEW b \in Amounts, Reserve(s, b) \/ Release(s)
      PROVE  UNCHANGED <<pc, target, kernel>>
  BY <1>4 DEF Reserve, Release, locals
<1>5. CASE UNCHANGED vars
  BY <1>0, <1>5 DEF vars, locals
<1>6. DefaultCap \in Requests /\ TRUE \in BOOLEAN
  OBVIOUS
<1>7. ASSUME NEW s \in Scopes, Release(s) PROVE UNCHANGED <<pc, target, kernel>>
  BY <1>7 DEF Release, locals
<1> QED BY <1>0, <1>1, <1>2, <1>3, <1>4, <1>5, <1>6, <1>7 DEF Next

(* The address-space limit in force is only ever tightened: by one caller   *)
(* whatever its privileges, by several if the kernel refuses to raise a     *)
(* hard limit.                                                              *)
THEOREM KernelAlwaysTightens ==
  ASSUME OneCallerOrUnprivileged
  PROVE  Spec => KernelOnlyTightens
<1>1. Init => LimitInv
  BY SizesAssumption DEF Init, LimitInv
<1>2. GuardInv /\ LimitInv /\ [Next]_vars => [kernel' <= kernel]_kernel
  <2> SUFFICES ASSUME GuardInv, LimitInv, Next PROVE kernel' <= kernel
    BY DEF vars
  <2> USE DEF GuardInv, TypeOK
  <2>1. ASSUME NEW c \in Callers, SetRlimit(c) PROVE kernel' <= kernel
    BY <2>1, OneCallerOrUnprivileged DEF SetRlimit, LimitInv, OneCallerOrUnprivileged
  <2>2. ASSUME NEW c \in Callers, NEW r \in Requests, NEW i \in BOOLEAN,
               Initialise(c, r, i) \/ DetectHardware(c) \/ InitialiseDefaults(c)
               \/ EnforceRlimits(c) \/ GetRlimit(c) \/ RecordRlimit(c)
        PROVE  kernel' = kernel
    BY <2>2 DEF Initialise, DetectHardware, InitialiseDefaults, EnforceRlimits,
                GetRlimit, RecordRlimit
  <2>3. ASSUME NEW s \in Scopes, NEW b \in Amounts, Reserve(s, b) PROVE kernel' = kernel
    BY <2>3 DEF Reserve
  <2>4. ASSUME NEW s \in Scopes, Release(s) PROVE kernel' = kernel
    BY <2>4 DEF Release
  <2>5. DefaultCap \in Requests /\ TRUE \in BOOLEAN
    BY SizesAssumption
  <2> QED BY <2>1, <2>2, <2>3, <2>4, <2>5 DEF Next
<1> QED BY <1>1, <1>2, LimitStep, GuardAlways, PTL DEF Spec, KernelOnlyTightens
=============================================================================
