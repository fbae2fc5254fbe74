---------------------------- MODULE PatchProofs ----------------------------
(***************************************************************************)
(* What becomes of a diff that is given back as a patch, for every pair of *)
(* texts, every way to find their differences, every amount of context and *)
(* every change to the head of the file in between.                        *)
(***************************************************************************)
EXTENDS Patch, FiniteSetTheorems, WellFoundedInduction, TLAPS

-----------------------------------------------------------------------------
(* Induction over the naturals; the first and the last of some numbers.     *)
Before == {pair \in Nat \X Nat : pair[1] < pair[2]}

(* Every set of naturals has a least one.                                   *)
LEMMA LeastNumber ==
  ASSUME NEW T, T \subseteq Nat, T # {}
  PROVE  \E x \in T : \A y \in T : x <= y
<1>1. IsWellFoundedOn(Before, Nat)
  <2>1. Before = OpToRel(<, Nat)
    BY DEF Before, OpToRel
  <2> QED BY <2>1, NatLessThanWellFounded
<1>2. PICK x \in T : \A y \in T : <<y, x>> \notin Before
  BY <1>1, WFMin
<1>3. ASSUME NEW y \in T PROVE x <= y
  <2>1. x \in Nat /\ y \in Nat /\ <<y, x>> \notin Before
    BY <1>2
  <2>2. ~(y < x)
    BY <2>1 DEF Before
  <2> QED BY <2>1, <2>2
<1> QED BY <1>3

(* Induction over a set of naturals, all of them or the first N.            *)
LEMMA Induction ==
  ASSUME NEW T, 0 \in T, \A n \in Nat : n \in T => n + 1 \in T
  PROVE  Nat \subseteq T
<1> SUFFICES ASSUME Nat \ T # {} PROVE FALSE
  OBVIOUS
<1>1. PICK x \in Nat \ T : \A y \in Nat \ T : x <= y
  BY LeastNumber
<1>2. x - 1 \in Nat /\ x - 1 \in T
  BY <1>1
<1> QED BY <1>2

LEMMA UpTo ==
  ASSUME NEW T, NEW N \in Nat, 0 \in T, \A n \in 0 .. N - 1 : n \in T => n + 1 \in T
  PROVE  0 .. N \subseteq T
<1> DEFINE U == {n \in Nat : n <= N => n \in T}
<1>1. 0 \in U
  OBVIOUS
<1>2. ASSUME NEW n \in Nat, n \in U PROVE n + 1 \in U
  BY <1>2
<1> HIDE DEF U
<1>3. Nat \subseteq U
  BY <1>1, <1>2, Induction
<1> QED BY <1>3 DEF U

LEMMA LowestIs ==
  ASSUME NEW S, S \subseteq Nat, S # {}
  PROVE  Lowest(S) \in S /\ \A x \in S : Lowest(S) <= x
<1>1. \E x \in S : \A y \in S : x <= y
  BY LeastNumber
<1> QED BY <1>1 DEF Lowest

LEMMA HighestIs ==
  ASSUME NEW S, S \subseteq Nat, S # {}, NEW top \in Nat, \A x \in S : x <= top
  PROVE  Highest(S) \in S /\ \A x \in S : x <= Highest(S)
<1> DEFINE Bounds == {m \in Nat : \A x \in S : x <= m}
<1>1. PICK m \in Bounds : \A k \in Bounds : m <= k
  BY LeastNumber
<1>2. ASSUME m \notin S PROVE FALSE
  <2>1. PICK x \in S : TRUE
    OBVIOUS
  <2>2. m - 1 \in Nat
    BY <1>1, <1>2, <2>1
  <2>3. \A y \in S : y <= m - 1
    BY <1>1, <1>2
  <2> QED BY <1>1, <2>2, <2>3
<1>3. \E x \in S : \A y \in S : y <= x
  BY <1>1, <1>2
<1> QED BY <1>3 DEF Highest

(* A recursion over 0 .. N whose step n is the function step[n].            *)
Recurs(V, a, N, step, f) ==
  /\ f \in [0 .. N -> V] /\ f[0] = a
  /\ \A n \in 1 .. N : f[n] = step[n][f[n - 1]]

(* Steps from each value to the next make a function.                       *)
LEMMA Recursion ==
  ASSUME NEW V, NEW a \in V, NEW N \in Nat, NEW step \in [1 .. N -> [V -> V]]
  PROVE  \E f : Recurs(V, a, N, step, f)
<1> DEFINE Good(m, f) == /\ f \in [0 .. m -> V] /\ f[0] = a
                         /\ \A n \in 1 .. m : f[n] = step[n][f[n - 1]]
           T == {m \in Nat : m <= N => \E f : Good(m, f)}
<1>1. 0 \in T
  <2>1. Good(0, [k \in 0 .. 0 |-> a])
    OBVIOUS
  <2> QED BY <2>1
<1>2. ASSUME NEW m \in Nat, m \in T PROVE m + 1 \in T
  <2> SUFFICES ASSUME m + 1 <= N PROVE \E f : Good(m + 1, f)
    OBVIOUS
  <2>1. PICK f : Good(m, f)
    BY <1>2
  <2>2. m + 1 \in 1 .. N /\ m \in 0 .. m /\ f[m] \in V
    BY <2>1
  <2>3. step[m + 1] \in [V -> V]
    BY <2>2
  <2>4. step[m + 1][f[m]] \in V
    BY <2>2, <2>3
  <2> DEFINE g == [k \in 0 .. m + 1 |-> IF k <= m THEN f[k] ELSE step[m + 1][f[m]]]
  <2>5. g \in [0 .. m + 1 -> V]
    <3>1. \A k \in 0 .. m + 1 : k <= m => k \in 0 .. m
      OBVIOUS
    <3>2. \A k \in 0 .. m : f[k] \in V
      BY <2>1
    <3> QED BY <2>4, <3>1, <3>2
  <2>6. g[0] = a
    BY <2>1
  <2>7. ASSUME NEW n \in 1 .. m + 1 PROVE g[n] = step[n][g[n - 1]]
    <3>1. CASE n <= m
      <4>1. g[n] = f[n] /\ g[n - 1] = f[n - 1] /\ n \in 1 .. m
        BY <3>1
      <4> QED BY <2>1, <4>1
    <3>2. CASE n = m + 1
      <4>1. g[n] = step[m + 1][f[m]] /\ g[n - 1] = f[m]
        BY <3>2
      <4> QED BY <3>2, <4>1
    <3> QED BY <3>1, <3>2
  <2> QED BY <2>5, <2>6, <2>7
<1> HIDE DEF T
<1>3. Nat \subseteq T
  BY <1>1, <1>2, Induction
<1>4. PICK f : Good(N, f)
  BY <1>3 DEF T
<1>5. f \in [0 .. N -> V] /\ f[0] = a
  BY <1>4
<1>6. \A n \in 1 .. N : f[n] = step[n][f[n - 1]]
  BY <1>4
<1> QED BY <1>5, <1>6 DEF Recurs

-----------------------------------------------------------------------------
(* The items that stand at some places, found one after the other.          *)
OnlyIs(s, S, f) ==
  f = [k \in 0 .. Len(s) |->
         IF k = 0 THEN << >>
         ELSE IF k \in S THEN Append(f[k - 1], s[k]) ELSE f[k - 1]]
Onlies(s, S) == CHOOSE f : OnlyIs(s, S, f)

Picks(X, s, S, f) ==
  /\ f \in [0 .. Len(s) -> Seq(X)]
  /\ f[0] = << >> /\ f[Len(s)] = Only(s, S)
  /\ \A k \in 1 .. Len(s) :
       f[k] = IF k \in S THEN Append(f[k - 1], s[k]) ELSE f[k - 1]

(* Only is computed by going through the sequence.                          *)
LEMMA OnlySteps ==
  ASSUME NEW X, NEW s \in Seq(X), NEW S
  PROVE  \E f : Picks(X, s, S, f)
<1> DEFINE N == Len(s)
           step == [k \in 1 .. N |->
                      [u \in Seq(X) |-> IF k \in S THEN Append(u, s[k]) ELSE u]]
<1>1. N \in Nat /\ << >> \in Seq(X)
  OBVIOUS
<1>2. \A k \in 1 .. N : \A u \in Seq(X) : Append(u, s[k]) \in Seq(X)
  OBVIOUS
<1>3. step \in [1 .. N -> [Seq(X) -> Seq(X)]]
  BY <1>2
<1>4. \A k \in 1 .. N : \A u \in Seq(X) :
        step[k][u] = IF k \in S THEN Append(u, s[k]) ELSE u
  OBVIOUS
<1>5. PICK g \in [0 .. N -> Seq(X)] :
        g[0] = << >> /\ \A k \in 1 .. N : g[k] = step[k][g[k - 1]]
  <2> DEFINE V == Seq(X)  none == << >>
  <2>1. none \in V /\ step \in [1 .. N -> [V -> V]]
    BY <1>1, <1>3
  <2> HIDE DEF step, N, V, none
  <2>2. PICK g : Recurs(V, none, N, step, g)
    BY <1>1, <2>1, Recursion
  <2>3. /\ g \in [0 .. N -> V] /\ g[0] = none
        /\ \A k \in 1 .. N : g[k] = step[k][g[k - 1]]
    BY <2>2 DEF Recurs
  <2> QED BY <2>3 DEF V, none
<1> HIDE DEF step
<1>6. \A k \in 1 .. N : g[k] = IF k \in S THEN Append(g[k - 1], s[k]) ELSE g[k - 1]
  <2> SUFFICES ASSUME NEW k \in 1 .. N
               PROVE  g[k] = IF k \in S THEN Append(g[k - 1], s[k]) ELSE g[k - 1]
    OBVIOUS
  <2>1. k - 1 \in 0 .. N
    BY <1>1
  <2>2. g[k - 1] \in Seq(X)
    BY <1>5, <2>1
  <2>3. g[k] = step[k][g[k - 1]]
    BY <1>5
  <2>4. step[k][g[k - 1]] = IF k \in S THEN Append(g[k - 1], s[k]) ELSE g[k - 1]
    BY <1>4, <2>2
  <2> QED BY <2>3, <2>4
<1>7. OnlyIs(s, S, g)
  <2>1. ASSUME NEW k \in 0 .. N
        PROVE  g[k] = IF k = 0 THEN << >>
                      ELSE IF k \in S THEN Append(g[k - 1], s[k]) ELSE g[k - 1]
    <3>1. k = 0 \/ k \in 1 .. N
      BY <1>1
    <3> QED BY <1>5, <1>6, <3>1
  <2>2. g = [k \in 0 .. N |-> g[k]]
    OBVIOUS
  <2> QED BY <2>1, <2>2 DEF OnlyIs
<1> DEFINE f == Onlies(s, S)
<1>8. OnlyIs(s, S, f)
  BY <1>7 DEF Onlies
<1>9. Only(s, S) = f[N]
  BY DEF Only, Onlies, OnlyIs
<1> HIDE DEF f
<1> DEFINE T == {k \in Nat : k <= N => f[k] = g[k]}
<1>10. \A k \in 0 .. N : f[k] = IF k = 0 THEN << >>
                        ELSE IF k \in S THEN Append(f[k - 1], s[k]) ELSE f[k - 1]
  BY <1>8 DEF OnlyIs
<1> HIDE DEF N
<1>11. 0 \in T
  <2>1. 0 \in 0 .. N
    BY <1>1
  <2>2. f[0] = << >>
    BY <1>10, <2>1
  <2> QED BY <1>5, <2>2
<1>12. ASSUME NEW k \in Nat, k \in T PROVE k + 1 \in T
  <2> SUFFICES ASSUME k + 1 <= N PROVE f[k + 1] = g[k + 1]
    OBVIOUS
  <2>1. f[k] = g[k] /\ k + 1 \in 1 .. N /\ k + 1 \in 0 .. N /\ (k + 1) - 1 = k /\ k + 1 # 0
    BY <1>1, <1>12
  <2>2. f[k + 1] = IF k + 1 \in S THEN Append(f[k], s[k + 1]) ELSE f[k]
    BY <1>10, <2>1
  <2>3. g[k + 1] = IF k + 1 \in S THEN Append(g[k], s[k + 1]) ELSE g[k]
    BY <1>6, <2>1
  <2> QED BY <2>1, <2>2, <2>3
<1> HIDE DEF T
<1>13. Nat \subseteq T
  BY <1>11, <1>12, Induction
<1>14. f[N] = g[N]
  BY <1>1, <1>13 DEF T
<1> QED BY <1>5, <1>6, <1>9, <1>14 DEF N, Picks

(* What stands at some places is a sequence of the same things.             *)
LEMMA OnlyTyped ==
  ASSUME NEW X, NEW s \in Seq(X), NEW S
  PROVE  Only(s, S) \in Seq(X)
<1>1. Len(s) \in 0 .. Len(s)
  OBVIOUS
<1>2. PICK f : Picks(X, s, S, f)
  BY OnlySteps
<1> QED BY <1>1, <1>2 DEF Picks

(* Only of a sequence that is one longer.                                   *)
LEMMA OnlyLast ==
  ASSUME NEW X, NEW s \in Seq(X), NEW S, NEW t \in Seq(X), NEW R, Len(s) = Len(t) + 1,
         \A k \in 1 .. Len(t) : s[k] = t[k] /\ (k \in S <=> k \in R)
  PROVE  Only(s, S) = IF Len(s) \in S THEN Append(Only(t, R), s[Len(s)]) ELSE Only(t, R)
<1> DEFINE N == Len(t)
<1>1. N \in Nat /\ Len(s) = N + 1
  OBVIOUS
<1>2. PICK f : Picks(X, s, S, f)
  BY OnlySteps
<1>3. PICK g : Picks(X, t, R, g)
  BY OnlySteps
<1> HIDE DEF N
<1> DEFINE T == {k \in Nat : k <= N => f[k] = g[k]}
<1>4. 0 \in T
  BY <1>2, <1>3 DEF Picks
<1>5. ASSUME NEW k \in Nat, k \in T PROVE k + 1 \in T
  <2> SUFFICES ASSUME k + 1 <= N PROVE f[k + 1] = g[k + 1]
    OBVIOUS
  <2>1. /\ f[k] = g[k] /\ k + 1 \in 1 .. N /\ k + 1 \in 1 .. Len(s) /\ (k + 1) - 1 = k
        /\ s[k + 1] = t[k + 1] /\ (k + 1 \in S <=> k + 1 \in R)
    BY <1>1, <1>5 DEF N
  <2>2. f[k + 1] = IF k + 1 \in S THEN Append(f[k], s[k + 1]) ELSE f[k]
    BY <1>2, <2>1 DEF Picks
  <2>3. g[k + 1] = IF k + 1 \in R THEN Append(g[k], t[k + 1]) ELSE g[k]
    BY <1>3, <2>1 DEF N, Picks
  <2> QED BY <2>1, <2>2, <2>3
<1> HIDE DEF T
<1>6. Nat \subseteq T
  BY <1>4, <1>5, Induction
<1>7. f[N] = Only(t, R)
  <2>1. N \in T /\ N <= N
    BY <1>1, <1>6
  <2>2. f[N] = g[N]
    BY <2>1 DEF T
  <2> QED BY <1>3, <2>2 DEF N, Picks
<1>8. N + 1 \in 1 .. Len(s) /\ (N + 1) - 1 = N
  BY <1>1
<1>9. f[N + 1] = IF N + 1 \in S THEN Append(f[N], s[N + 1]) ELSE f[N]
  BY <1>2, <1>8 DEF Picks
<1>10. f[N + 1] = Only(s, S)
  BY <1>1, <1>2 DEF Picks
<1> QED BY <1>1, <1>7, <1>9, <1>10

Together(X, s, t, both) ==
  /\ both \in Seq(X) /\ Len(both) = Len(s) + Len(t)
  /\ \A k \in 1 .. Len(s) + Len(t) : both[k] = IF k <= Len(s) THEN s[k] ELSE t[k - Len(s)]

LEMMA ConcatIs ==
  ASSUME NEW X, NEW s \in Seq(X), NEW t \in Seq(X)
  PROVE  Together(X, s, t, s \o t)
BY DEF Together

(* The lines a patch takes from one of its sides.                           *)
Kinds == {" ", "-", "+"}
Ops   == [kind : Kinds, at : Nat, text : Lines]
Hunks == [at : Nat, ops : Seq(Ops)]

LEMMA OpParts ==
  ASSUME NEW ops \in Seq(Ops), NEW k \in 1 .. Len(ops)
  PROVE  /\ ops[k] \in Ops /\ ops[k].kind \in Kinds /\ ops[k].at \in Nat /\ ops[k].text \in Lines
<1>1. ops[k] \in Ops
  OBVIOUS
<1> QED BY <1>1 DEF Ops

LEMMA TextsTyped ==
  ASSUME NEW ops \in Seq(Ops)
  PROVE  /\ [k \in DOMAIN ops |-> ops[k].text] \in Seq(Lines)
         /\ Len([k \in DOMAIN ops |-> ops[k].text]) = Len(ops)
         /\ \A k \in 1 .. Len(ops) : [j \in DOMAIN ops |-> ops[j].text][k] = ops[k].text
<1>1. DOMAIN ops = 1 .. Len(ops) /\ Len(ops) \in Nat
  OBVIOUS
<1>2. \A k \in 1 .. Len(ops) : ops[k].text \in Lines
  BY OpParts
<1>3. [k \in 1 .. Len(ops) |-> ops[k].text] \in Seq(Lines)
  BY <1>1, <1>2
<1> QED BY <1>1, <1>3

Takes(ops, kind, f) ==
  /\ f \in [0 .. Len(ops) -> Seq(Lines)]
  /\ f[0] = << >> /\ f[Len(ops)] = Side(ops, kind)
  /\ \A k \in 1 .. Len(ops) :
       f[k] = IF ops[k].kind \in {" ", kind} THEN Append(f[k - 1], ops[k].text) ELSE f[k - 1]

(* A side of a hunk is put together from operation to operation.            *)
LEMMA SideSteps ==
  ASSUME NEW ops \in Seq(Ops), NEW kind \in {"-", "+"}
  PROVE  \E f : Takes(ops, kind, f)
<1> DEFINE s == [k \in DOMAIN ops |-> ops[k].text]
           S == {k \in DOMAIN ops : ops[k].kind \in {" ", kind}}
<1>1. s \in Seq(Lines) /\ Len(s) = Len(ops) /\ \A k \in 1 .. Len(ops) : s[k] = ops[k].text
  BY TextsTyped
<1>2. \A k \in 1 .. Len(ops) : k \in S <=> ops[k].kind \in {" ", kind}
  <2>1. DOMAIN ops = 1 .. Len(ops)
    OBVIOUS
  <2> QED BY <2>1
<1>3. Side(ops, kind) = Only(s, S)
  BY DEF Side
<1> HIDE DEF s, S
<1>4. PICK f : Picks(Lines, s, S, f)
  BY <1>1, OnlySteps
<1>5. f \in [0 .. Len(ops) -> Seq(Lines)] /\ f[0] = << >> /\ f[Len(ops)] = Side(ops, kind)
  BY <1>1, <1>3, <1>4 DEF Picks
<1>6. ASSUME NEW k \in 1 .. Len(ops)
      PROVE  f[k] = IF ops[k].kind \in {" ", kind} THEN Append(f[k - 1], ops[k].text)
                    ELSE f[k - 1]
  <2>1. f[k] = IF k \in S THEN Append(f[k - 1], s[k]) ELSE f[k - 1]
    BY <1>1, <1>4 DEF Picks
  <2> QED BY <1>1, <1>2, <2>1
<1> QED BY <1>5, <1>6 DEF Takes

LEMMA SideTyped ==
  ASSUME NEW ops \in Seq(Ops), NEW kind \in {"-", "+"}
  PROVE  Side(ops, kind) \in Seq(Lines)
<1>1. Len(ops) \in 0 .. Len(ops)
  OBVIOUS
<1>2. PICK f : Takes(ops, kind, f)
  BY SideSteps
<1> QED BY <1>1, <1>2 DEF Takes

(* A side of a hunk that is one operation longer.                           *)
LEMMA SideLast ==
  ASSUME NEW ops \in Seq(Ops), NEW op \in Ops, NEW kind \in {"-", "+"}
  PROVE  Side(Append(ops, op), kind) = IF op.kind \in {" ", kind}
                                       THEN Append(Side(ops, kind), op.text) ELSE Side(ops, kind)
<1> DEFINE more == Append(ops, op)
           s == [k \in DOMAIN more |-> more[k].text]
           S == {k \in DOMAIN more : more[k].kind \in {" ", kind}}
           t == [k \in DOMAIN ops |-> ops[k].text]
           R == {k \in DOMAIN ops : ops[k].kind \in {" ", kind}}
<1>1. /\ more \in Seq(Ops) /\ Len(more) = Len(ops) + 1 /\ Len(ops) \in Nat
      /\ \A k \in 1 .. Len(ops) : more[k] = ops[k]
      /\ more[Len(ops) + 1] = op
  OBVIOUS
<1> HIDE DEF more
<1>2. s \in Seq(Lines) /\ Len(s) = Len(more) /\ \A k \in 1 .. Len(more) : s[k] = more[k].text
  BY <1>1, TextsTyped
<1>3. t \in Seq(Lines) /\ Len(t) = Len(ops) /\ \A k \in 1 .. Len(ops) : t[k] = ops[k].text
  BY TextsTyped
<1>4. \A k \in 1 .. Len(more) : k \in S <=> more[k].kind \in {" ", kind}
  <2>1. DOMAIN more = 1 .. Len(more)
    BY <1>1
  <2> QED BY <2>1
<1>5. \A k \in 1 .. Len(ops) : k \in R <=> ops[k].kind \in {" ", kind}
  <2>1. DOMAIN ops = 1 .. Len(ops)
    OBVIOUS
  <2> QED BY <2>1
<1>6. Side(more, kind) = Only(s, S) /\ Side(ops, kind) = Only(t, R)
  BY DEF Side
<1> HIDE DEF s, S, t, R
<1>7. Len(s) = Len(t) + 1 /\ \A k \in 1 .. Len(t) : s[k] = t[k] /\ (k \in S <=> k \in R)
  <2>1. ASSUME NEW k \in 1 .. Len(t) PROVE s[k] = t[k] /\ (k \in S <=> k \in R)
    <3>1. k \in 1 .. Len(ops) /\ k \in 1 .. Len(more)
      BY <1>1, <1>3
    <3>2. more[k] = ops[k]
      BY <1>1, <3>1
    <3>3. s[k] = t[k]
      BY <1>2, <1>3, <3>1, <3>2
    <3>4. k \in S <=> k \in R
      BY <1>4, <1>5, <3>1, <3>2
    <3> QED BY <3>3, <3>4
  <2> QED BY <1>1, <1>2, <1>3, <2>1
<1>8. Only(s, S) = IF Len(s) \in S THEN Append(Only(t, R), s[Len(s)]) ELSE Only(t, R)
  BY <1>2, <1>3, <1>7, OnlyLast
<1>9. s[Len(s)] = op.text /\ (Len(s) \in S <=> op.kind \in {" ", kind})
  <2>1. Len(s) \in 1 .. Len(more) /\ Len(s) = Len(ops) + 1
    BY <1>1, <1>2
  <2>2. more[Len(s)] = op
    BY <1>1, <2>1
  <2>3. s[Len(s)] = op.text
    BY <1>2, <2>1, <2>2
  <2>4. Len(s) \in S <=> op.kind \in {" ", kind}
    BY <1>4, <2>1, <2>2
  <2> QED BY <2>3, <2>4
<1> QED BY <1>6, <1>8, <1>9 DEF more

-----------------------------------------------------------------------------
(* A diff.  Its operations go through both texts, line by line: o[k] lines  *)
(* of the one before and n[k] of the one after are behind the first k.      *)
Moves(op, a, b, i, j, k, l) ==
  \/ op.kind = " " /\ k = i + 1 /\ l = j + 1 /\ op.at = k /\ op.text = a[k] /\ op.text = b[l]
  \/ op.kind = "-" /\ k = i + 1 /\ l = j /\ op.at = k /\ op.text = a[k]
  \/ op.kind = "+" /\ k = i /\ l = j + 1 /\ op.at = 0 /\ op.text = b[l]
Traces(ops, a, b, o, n) ==
  /\ ops \in Seq(Ops) /\ o[0] = 0 /\ n[0] = 0
  /\ o \in [0 .. Len(ops) -> 0 .. Len(a)] /\ n \in [0 .. Len(ops) -> 0 .. Len(b)]
  /\ \A k \in 1 .. Len(ops) : Moves(ops[k], a, b, o[k - 1], n[k - 1], o[k], n[k])
Diff(ops, a, b, o, n) ==
  Traces(ops, a, b, o, n) /\ o[Len(ops)] = Len(a) /\ n[Len(ops)] = Len(b)

(* A trace that is one operation longer.                                    *)
LEMMA TraceGrows ==
  ASSUME NEW a \in Seq(Lines), NEW b \in Seq(Lines), NEW ops, NEW o, NEW n,
         Traces(ops, a, b, o, n), NEW op \in Ops,
         NEW k \in 0 .. Len(a), NEW l \in 0 .. Len(b),
         Moves(op, a, b, o[Len(ops)], n[Len(ops)], k, l)
  PROVE  \E p, q : /\ Traces(Append(ops, op), a, b, p, q)
                   /\ p[Len(ops) + 1] = k /\ q[Len(ops) + 1] = l
<1> DEFINE more == Append(ops, op)  L == Len(ops)
           p == [x \in 0 .. L + 1 |-> IF x <= L THEN o[x] ELSE k]
           q == [x \in 0 .. L + 1 |-> IF x <= L THEN n[x] ELSE l]
<1>1. /\ ops \in Seq(Ops) /\ o[0] = 0 /\ n[0] = 0
      /\ o \in [0 .. L -> 0 .. Len(a)] /\ n \in [0 .. L -> 0 .. Len(b)]
      /\ \A x \in 1 .. L : Moves(ops[x], a, b, o[x - 1], n[x - 1], o[x], n[x])
  BY DEF Traces
<1>2. /\ more \in Seq(Ops) /\ Len(more) = L + 1 /\ L \in Nat
      /\ \A x \in 1 .. L : more[x] = ops[x]
      /\ more[L + 1] = op
  BY <1>1
<1> HIDE DEF more, L
<1>3. \A x \in 0 .. L + 1 : x <= L => x \in 0 .. L
  BY <1>2
<1>4. /\ p \in [0 .. L + 1 -> 0 .. Len(a)] /\ q \in [0 .. L + 1 -> 0 .. Len(b)]
  BY <1>1, <1>3
<1>5. /\ p[0] = 0 /\ q[0] = 0 /\ p[L + 1] = k /\ q[L + 1] = l
      /\ \A x \in 0 .. L : p[x] = o[x] /\ q[x] = n[x]
  BY <1>1, <1>2
<1> HIDE DEF p, q
<1>6. ASSUME NEW x \in 1 .. L + 1 PROVE Moves(more[x], a, b, p[x - 1], q[x - 1], p[x], q[x])
  <2>1. CASE x = L + 1
    <3>0. L \in Nat
      BY <1>2
    <3>1. x - 1 = L /\ L \in 0 .. L
      BY <2>1, <3>0
    <3>2. p[x - 1] = o[L] /\ q[x - 1] = n[L] /\ p[x] = k /\ q[x] = l /\ more[x] = op
      BY <1>2, <1>5, <2>1, <3>1
    <3>3. Moves(op, a, b, o[L], n[L], k, l)
      BY DEF L
    <3> QED BY <3>2, <3>3
  <2>2. CASE x # L + 1
    <3>1. x \in 1 .. L /\ x \in 0 .. L /\ x - 1 \in 0 .. L
      BY <1>2, <2>2
    <3>2. p[x - 1] = o[x - 1] /\ q[x - 1] = n[x - 1] /\ p[x] = o[x] /\ q[x] = n[x] /\ more[x] = ops[x]
      BY <1>2, <1>5, <3>1
    <3> QED BY <1>1, <3>1, <3>2
  <2> QED BY <2>1, <2>2
<1>7. Traces(more, a, b, p, q)
  BY <1>2, <1>4, <1>5, <1>6 DEF Traces
<1> QED BY <1>5, <1>7 DEF more, L

(* One step of the walk through both texts.                                 *)
Walks(a, b) == [i : 1 .. Len(a) + 1, j : 1 .. Len(b) + 1, ops : Seq(Ops)]
Traced(a, b, w) ==
  \E o, n : Traces(w.ops, a, b, o, n) /\ o[Len(w.ops)] = w.i - 1 /\ n[Len(w.ops)] = w.j - 1

(* Each step of the walk gets on, and leaves a trace of both texts.         *)
LEMMA WalkGoes ==
  ASSUME NEW a \in Seq(Lines), NEW b \in Seq(Lines), NEW table, NEW w \in Walks(a, b)
  PROVE  /\ Walk(a, b, table, w) \in Walks(a, b)
         /\ \/ Walk(a, b, table, w) = w /\ w.i = Len(a) + 1 /\ w.j = Len(b) + 1
            \/ Walk(a, b, table, w).i + Walk(a, b, table, w).j > w.i + w.j
         /\ Traced(a, b, w) => Traced(a, b, Walk(a, b, table, w))
<1> DEFINE i == w.i  j == w.j  ops == w.ops
<1>1. /\ i \in 1 .. Len(a) + 1 /\ j \in 1 .. Len(b) + 1 /\ ops \in Seq(Ops)
      /\ Len(a) \in Nat /\ Len(b) \in Nat
  BY DEF Walks
<1> HIDE DEF i, j, ops
<1> DEFINE Next1(op, k, l) == [i |-> k, j |-> l, ops |-> Append(ops, op)]
<1>2. ASSUME NEW op \in Ops, NEW k \in i .. Len(a) + 1, NEW l \in j .. Len(b) + 1,
             k + l > i + j, Moves(op, a, b, i - 1, j - 1, k - 1, l - 1),
             Walk(a, b, table, w) = Next1(op, k, l)
      PROVE  /\ Walk(a, b, table, w) \in Walks(a, b)
             /\ Walk(a, b, table, w).i + Walk(a, b, table, w).j > w.i + w.j
             /\ Traced(a, b, w) => Traced(a, b, Walk(a, b, table, w))
  <2>1. Append(ops, op) \in Seq(Ops) /\ Len(Append(ops, op)) = Len(ops) + 1
    BY <1>1
  <2>2. Next1(op, k, l) \in Walks(a, b)
    BY <1>1, <2>1 DEF Walks
  <2>3. ASSUME Traced(a, b, w) PROVE Traced(a, b, Next1(op, k, l))
    <3>1. PICK o, n : Traces(ops, a, b, o, n) /\ o[Len(ops)] = i - 1 /\ n[Len(ops)] = j - 1
      BY <2>3 DEF Traced, i, j, ops
    <3>2. k - 1 \in 0 .. Len(a) /\ l - 1 \in 0 .. Len(b)
      BY <1>1
    <3>3. Moves(op, a, b, o[Len(ops)], n[Len(ops)], k - 1, l - 1)
      BY <1>2, <3>1
    <3>4. PICK p, q : /\ Traces(Append(ops, op), a, b, p, q)
                      /\ p[Len(ops) + 1] = k - 1 /\ q[Len(ops) + 1] = l - 1
      BY <3>1, <3>2, <3>3, TraceGrows
    <3> QED BY <2>1, <3>4 DEF Traced
  <2> QED BY <1>2, <2>2, <2>3 DEF i, j
<1>3. CASE i <= Len(a) /\ j <= Len(b) /\ a[i] = b[j]
  <2>1. Walk(a, b, table, w) = Next1(Op(" ", i, a[i]), i + 1, j + 1)
    BY <1>3 DEF Walk, i, j, ops
  <2>2. i \in 1 .. Len(a) /\ i \in Nat
    BY <1>1, <1>3
  <2>3. a[i] \in Lines
    BY <2>2
  <2>4. Op(" ", i, a[i]) \in Ops
    BY <2>2, <2>3 DEF Op, Ops, Kinds
  <2>5. Moves(Op(" ", i, a[i]), a, b, i - 1, j - 1, (i + 1) - 1, (j + 1) - 1)
    BY <1>1, <1>3 DEF Moves, Op
  <2>6. i + 1 \in i .. Len(a) + 1 /\ j + 1 \in j .. Len(b) + 1 /\ (i + 1) + (j + 1) > i + j
    <3>1. \A p, q, m, o \in Nat : p <= m /\ q <= o =>
            p + 1 \in p .. m + 1 /\ q + 1 \in q .. o + 1 /\ (p + 1) + (q + 1) > p + q
      OBVIOUS
    <3>2. i \in Nat /\ j \in Nat
      BY <1>1
    <3> QED BY <1>1, <1>3, <3>1, <3>2
  <2> QED BY <1>2, <2>1, <2>4, <2>5, <2>6
<1>4. CASE /\ ~(i <= Len(a) /\ j <= Len(b) /\ a[i] = b[j])
           /\ i <= Len(a) /\ (j > Len(b) \/ Removes(table, i, j))
  <2>1. Walk(a, b, table, w) = Next1(Op("-", i, a[i]), i + 1, j)
    BY <1>4 DEF Walk, i, j, ops
  <2>2. i \in 1 .. Len(a) /\ i \in Nat
    BY <1>1, <1>4
  <2>3. a[i] \in Lines
    BY <2>2
  <2>4. Op("-", i, a[i]) \in Ops
    BY <2>2, <2>3 DEF Op, Ops, Kinds
  <2>5. Moves(Op("-", i, a[i]), a, b, i - 1, j - 1, (i + 1) - 1, j - 1)
    BY <1>1 DEF Moves, Op
  <2>6. i + 1 \in i .. Len(a) + 1 /\ j \in j .. Len(b) + 1 /\ (i + 1) + j > i + j
    BY <1>1, <1>4
  <2> QED BY <1>2, <2>1, <2>4, <2>5, <2>6
<1>5. CASE /\ ~(i <= Len(a) /\ j <= Len(b) /\ a[i] = b[j])
           /\ ~(i <= Len(a) /\ (j > Len(b) \/ Removes(table, i, j)))
           /\ j <= Len(b)
  <2>1. Walk(a, b, table, w) = Next1(Op("+", 0, b[j]), i, j + 1)
    BY <1>5 DEF Walk, i, j, ops
  <2>2. j \in 1 .. Len(b) /\ 0 \in Nat
    BY <1>1, <1>5
  <2>3. b[j] \in Lines
    BY <2>2
  <2>4. Op("+", 0, b[j]) \in Ops
    BY <2>2, <2>3 DEF Op, Ops, Kinds
  <2>5. Moves(Op("+", 0, b[j]), a, b, i - 1, j - 1, i - 1, (j + 1) - 1)
    BY <1>1 DEF Moves, Op
  <2>6. i \in i .. Len(a) + 1 /\ j + 1 \in j .. Len(b) + 1 /\ i + (j + 1) > i + j
    BY <1>1, <1>5
  <2> QED BY <1>2, <2>1, <2>4, <2>5, <2>6
<1>6. CASE /\ ~(i <= Len(a) /\ (j > Len(b) \/ Removes(table, i, j)))
           /\ ~(j <= Len(b))
  <2>1. i = Len(a) + 1 /\ j = Len(b) + 1
    BY <1>1, <1>6
  <2>2. Walk(a, b, table, w) = w
    BY <1>6 DEF Walk, i, j, ops
  <2> QED BY <2>1, <2>2 DEF i, j
<1> QED BY <1>3, <1>4, <1>5, <1>6

(* Both ways diff_lines has to compare two texts make a diff of them.       *)
WalkIs(a, b, f) ==
  f = [k \in 0 .. Len(a) + Len(b) |->
         IF k = 0 THEN [i |-> 1, j |-> 1, ops |-> << >>]
         ELSE Walk(a, b, Common(a, b), f[k - 1])]
WalkOf(a, b) == CHOOSE f : WalkIs(a, b, f)

(* The walk along the table of common subsequences, whatever the table      *)
(* holds, makes a diff of the two texts.                                    *)
THEOREM DiffLinesDiffs ==
  ASSUME NEW a \in Seq(Lines), NEW b \in Seq(Lines)
  PROVE  \E o, n : Diff(DiffLines(a, b), a, b, o, n)
<1> DEFINE N == Len(a) + Len(b)
           table == Common(a, b)
           V == Walks(a, b)
           start == [i |-> 1, j |-> 1, ops |-> << >>]
           step == [k \in 1 .. N |-> [w \in V |-> Walk(a, b, table, w)]]
<1>1. Len(a) \in Nat /\ Len(b) \in Nat /\ N \in Nat
  OBVIOUS
<1>2. start \in V
  BY <1>1 DEF Walks
<1> HIDE DEF table
<1>3. \A w \in V : Walk(a, b, table, w) \in V
  BY WalkGoes
<1> HIDE DEF V, start
<1>4. step \in [1 .. N -> [V -> V]]
  BY <1>3
<1>5. \A k \in 1 .. N : \A w \in V : step[k][w] = Walk(a, b, table, w)
  OBVIOUS
<1> HIDE DEF step
<1>6. PICK g \in [0 .. N -> V] : g[0] = start /\ \A k \in 1 .. N : g[k] = step[k][g[k - 1]]
  <2>1. N \in Nat
    BY <1>1
  <2> HIDE DEF N
  <2>2. PICK g : Recurs(V, start, N, step, g)
    BY <2>1, <1>2, <1>4, Recursion
  <2> QED BY <2>2 DEF Recurs
<1> HIDE DEF N
<1>7. \A k \in 1 .. N : g[k] = Walk(a, b, table, g[k - 1])
  <2> SUFFICES ASSUME NEW k \in 1 .. N PROVE g[k] = Walk(a, b, table, g[k - 1])
    OBVIOUS
  <2>1. k - 1 \in 0 .. N
    BY <1>1
  <2>2. g[k - 1] \in V
    BY <2>1
  <2> QED BY <1>5, <1>6, <2>2
<1>8. WalkIs(a, b, g)
  <2>1. ASSUME NEW k \in 0 .. N
        PROVE  g[k] = IF k = 0 THEN start ELSE Walk(a, b, table, g[k - 1])
    <3>1. k = 0 \/ k \in 1 .. N
      BY <1>1
    <3> QED BY <1>6, <1>7, <3>1
  <2>2. g = [k \in 0 .. N |-> g[k]]
    OBVIOUS
  <2>3. g = [k \in 0 .. N |-> IF k = 0 THEN start ELSE Walk(a, b, table, g[k - 1])]
    BY <2>1, <2>2
  <2> QED BY <2>3 DEF WalkIs, N, start, table
<1> DEFINE f == WalkOf(a, b)
<1>9. WalkIs(a, b, f)
  BY <1>8 DEF WalkOf
<1>10. DiffLines(a, b) = f[N].ops
  BY DEF DiffLines, WalkOf, WalkIs, N
<1> HIDE DEF f
<1>11. \A k \in 0 .. N : f[k] = IF k = 0 THEN start ELSE Walk(a, b, table, f[k - 1])
  BY <1>9 DEF WalkIs, N, start, table
<1> DEFINE T == {k \in Nat : k <= N => /\ f[k] \in V /\ Traced(a, b, f[k])
                                        /\ \/ f[k].i + f[k].j >= k + 2
                                           \/ f[k].i = Len(a) + 1 /\ f[k].j = Len(b) + 1}
<1>12. 0 \in T
  <2>1. 0 \in 0 .. N
    BY <1>1
  <2>2. f[0] = start
    BY <1>11, <2>1
  <2>3. start.i = 1 /\ start.j = 1 /\ start.ops = << >>
    BY DEF start
  <2>4. Traced(a, b, start)
    <3> DEFINE z == [k \in 0 .. 0 |-> 0]
    <3>1. z[0] = 0 /\ z \in [0 .. 0 -> 0 .. Len(a)] /\ z \in [0 .. 0 -> 0 .. Len(b)]
      BY <1>1
    <3> HIDE DEF z
    <3>2. Len(<< >>) = 0 /\ << >> \in Seq(Ops)
      OBVIOUS
    <3>3. Traces(<< >>, a, b, z, z)
      BY <3>1, <3>2 DEF Traces
    <3>4. Traces(<< >>, a, b, z, z) /\ z[Len(<< >>)] = 1 - 1 /\ z[Len(<< >>)] = 1 - 1
      BY <3>1, <3>2, <3>3
    <3> QED BY <2>3, <3>4 DEF Traced
  <2> QED BY <1>2, <2>2, <2>3, <2>4
<1>13. ASSUME NEW k \in Nat, k \in T PROVE k + 1 \in T
  <2> SUFFICES ASSUME k + 1 <= N
               PROVE  /\ f[k + 1] \in V /\ Traced(a, b, f[k + 1])
                      /\ \/ f[k + 1].i + f[k + 1].j >= (k + 1) + 2
                         \/ f[k + 1].i = Len(a) + 1 /\ f[k + 1].j = Len(b) + 1
    OBVIOUS
  <2> DEFINE w == f[k]  x == f[k + 1]
  <2>1. k + 1 \in 0 .. N /\ (k + 1) - 1 = k /\ k + 1 # 0 /\ k <= N
    BY <1>1
  <2>2. x = Walk(a, b, table, w)
    BY <1>11, <2>1
  <2>3. /\ w \in V /\ Traced(a, b, w)
        /\ \/ w.i + w.j >= k + 2
           \/ w.i = Len(a) + 1 /\ w.j = Len(b) + 1
    BY <1>13, <2>1
  <2> HIDE DEF w, x
  <2>4. /\ x \in V
        /\ \/ x = w /\ w.i = Len(a) + 1 /\ w.j = Len(b) + 1
           \/ x.i + x.j > w.i + w.j
        /\ Traced(a, b, x)
    BY <2>2, <2>3, WalkGoes DEF V
  <2>5. /\ w.i \in 1 .. Len(a) + 1 /\ w.j \in 1 .. Len(b) + 1
        /\ x.i \in 1 .. Len(a) + 1 /\ x.j \in 1 .. Len(b) + 1
    BY <2>3, <2>4 DEF V, Walks
  <2>6. \/ x.i + x.j >= (k + 1) + 2
        \/ x.i = Len(a) + 1 /\ x.j = Len(b) + 1
    <3>1. CASE x = w /\ w.i = Len(a) + 1 /\ w.j = Len(b) + 1
      BY <3>1
    <3>2. CASE x.i + x.j > w.i + w.j
      <4>1. x.i + x.j \in Nat /\ w.i + w.j \in Nat
        BY <1>1, <2>5
      <4>2. \A p, q \in Nat : p > q /\ q >= k + 2 => p >= (k + 1) + 2
        BY <1>13
      <4>3. CASE w.i + w.j >= k + 2
        BY <3>2, <4>1, <4>2, <4>3
      <4>4. CASE w.i = Len(a) + 1 /\ w.j = Len(b) + 1
        <5>1. \A p, q, m, l \in Nat : p <= m /\ q <= l => ~ (p + q > m + l)
          OBVIOUS
        <5>2. x.i \in Nat /\ x.j \in Nat /\ w.i \in Nat /\ w.j \in Nat
          BY <1>1, <2>5
        <5>3. x.i <= w.i /\ x.j <= w.j
          BY <1>1, <2>5, <4>4
        <5> QED BY <3>2, <5>1, <5>2, <5>3
      <4> QED BY <2>3, <4>3, <4>4
    <3> QED BY <2>4, <3>1, <3>2
  <2> QED BY <2>4, <2>6 DEF x
<1> HIDE DEF T
<1>14. Nat \subseteq T
  BY <1>12, <1>13, Induction
<1> DEFINE w == f[N]
<1>15. /\ w \in V /\ Traced(a, b, w)
       /\ w.i + w.j >= N + 2 \/ (w.i = Len(a) + 1 /\ w.j = Len(b) + 1)
  BY <1>1, <1>14 DEF T
<1> HIDE DEF w
<1>16. w.i \in 1 .. Len(a) + 1 /\ w.j \in 1 .. Len(b) + 1
  BY <1>15 DEF V, Walks
<1>17. w.i - 1 = Len(a) /\ w.j - 1 = Len(b)
  <2>1. \A p, q \in Nat : \A m \in 1 .. p + 1 : \A l \in 1 .. q + 1 :
          m + l >= (p + q) + 2 => m = p + 1 /\ l = q + 1
    OBVIOUS
  <2>2. w.i = Len(a) + 1 /\ w.j = Len(b) + 1
    BY <1>1, <1>15, <1>16, <2>1 DEF N
  <2> QED BY <1>1, <2>2
<1>18. PICK o, n : Traces(w.ops, a, b, o, n) /\ o[Len(w.ops)] = w.i - 1 /\ n[Len(w.ops)] = w.j - 1
  BY <1>15 DEF Traced
<1>19. Diff(w.ops, a, b, o, n)
  BY <1>17, <1>18 DEF Diff
<1> QED BY <1>10, <1>19 DEF w

(* So does the replacement of all lines, for texts beyond the bounds.       *)
LEMMA ReplacedDiffs ==
  ASSUME NEW a \in Seq(Lines), NEW b \in Seq(Lines)
  PROVE  \E o, n : Diff(Replaced(a, b), a, b, o, n)
<1> DEFINE A == Len(a)  B == Len(b)
           out == [i \in DOMAIN a |-> Op("-", i, a[i])]
           in == [j \in DOMAIN b |-> Op("+", 0, b[j])]
           ops == out \o in
           o == [k \in 0 .. A + B |-> IF k <= A THEN k ELSE A]
           n == [k \in 0 .. A + B |-> IF k <= A THEN 0 ELSE k - A]
<1>1. A \in Nat /\ B \in Nat /\ DOMAIN a = 1 .. A /\ DOMAIN b = 1 .. B
  OBVIOUS
<1>2. \A i \in 1 .. A : a[i] \in Lines /\ i \in Nat
  OBVIOUS
<1>3. \A i \in 1 .. A : Op("-", i, a[i]) \in Ops
  BY <1>2 DEF Op, Ops, Kinds
<1>4. \A j \in 1 .. B : b[j] \in Lines
  OBVIOUS
<1>5. \A j \in 1 .. B : Op("+", 0, b[j]) \in Ops
  BY <1>4 DEF Op, Ops, Kinds
<1>6. /\ out \in Seq(Ops) /\ Len(out) = A /\ \A i \in 1 .. A : out[i] = Op("-", i, a[i])
  <2>1. out = [i \in 1 .. A |-> Op("-", i, a[i])]
    BY <1>1
  <2> HIDE DEF A, out
  <2>2. out \in [1 .. A -> Ops]
    BY <1>3, <2>1
  <2>3. \A i \in 1 .. A : out[i] = Op("-", i, a[i])
    BY <2>1
  <2> QED BY <1>1, <2>2, <2>3
<1>7. /\ in \in Seq(Ops) /\ Len(in) = B /\ \A j \in 1 .. B : in[j] = Op("+", 0, b[j])
  <2>1. in = [j \in 1 .. B |-> Op("+", 0, b[j])]
    BY <1>1
  <2> HIDE DEF B, in
  <2>2. in \in [1 .. B -> Ops]
    BY <1>5, <2>1
  <2>3. \A j \in 1 .. B : in[j] = Op("+", 0, b[j])
    BY <2>1
  <2> QED BY <1>1, <2>2, <2>3
<1> HIDE DEF out, in
<1>8. /\ ops \in Seq(Ops) /\ Len(ops) = A + B
      /\ \A k \in 1 .. A + B : ops[k] = IF k <= A THEN out[k] ELSE in[k - A]
  <2>1. /\ ops \in Seq(Ops) /\ Len(ops) = Len(out) + Len(in)
        /\ \A k \in 1 .. Len(out) + Len(in) : ops[k] = IF k <= Len(out) THEN out[k] ELSE in[k - Len(out)]
    <3>1. out \in Seq(Ops) /\ in \in Seq(Ops)
      BY <1>6, <1>7
    <3>2. Together(Ops, out, in, out \o in)
      BY <3>1, ConcatIs
    <3> QED BY <3>2 DEF Together
  <2> HIDE DEF ops
  <2> QED BY <1>6, <1>7, <2>1
<1>9. Replaced(a, b) = ops
  BY DEF Replaced, out, in
<1> HIDE DEF ops, A, B
<1>10. /\ o \in [0 .. A + B -> 0 .. A] /\ n \in [0 .. A + B -> 0 .. B]
       /\ o[0] = 0 /\ n[0] = 0 /\ o[A + B] = A /\ n[A + B] = B
  BY <1>1
<1>11. \A k \in 0 .. A + B : /\ k <= A => o[k] = k /\ n[k] = 0
                             /\ k > A => o[k] = A /\ n[k] = k - A
  BY <1>1
<1> HIDE DEF o, n
<1>12. ASSUME NEW k \in 1 .. A + B
       PROVE  Moves(ops[k], a, b, o[k - 1], n[k - 1], o[k], n[k])
  <2>1. CASE k <= A
    <3>1. k \in 1 .. A /\ k \in 0 .. A + B /\ k - 1 \in 0 .. A + B /\ k - 1 <= A
      BY <1>1, <2>1
    <3>2. ops[k] = Op("-", k, a[k])
      BY <1>6, <1>8, <2>1, <3>1
    <3>3. o[k] = k /\ n[k] = 0 /\ o[k - 1] = k - 1 /\ n[k - 1] = 0
      BY <1>11, <2>1, <3>1
    <3>4. k = (k - 1) + 1
      BY <1>1
    <3> QED BY <3>2, <3>3, <3>4 DEF Moves, Op
  <2>2. CASE k > A
    <3>1. k - A \in 1 .. B /\ k \in 0 .. A + B /\ k - 1 \in 0 .. A + B /\ k - A = ((k - 1) - A) + 1
      BY <1>1, <2>2
    <3>2. ops[k] = in[k - A]
      BY <1>1, <1>8, <2>2
    <3>3. ops[k] = Op("+", 0, b[k - A])
      BY <1>7, <3>1, <3>2
    <3>4. o[k] = A /\ n[k] = k - A /\ o[k - 1] = A /\ n[k] = n[k - 1] + 1
      <4>1. o[k] = A /\ n[k] = k - A
        BY <1>11, <2>2, <3>1
      <4>2. CASE k - 1 <= A
        <5>1. k - 1 = A
          BY <1>1, <2>2, <4>2
        <5>2. o[k - 1] = A /\ n[k - 1] = 0
          BY <1>11, <3>1, <5>1
        <5> QED BY <1>1, <3>1, <4>1, <5>1, <5>2
      <4>3. CASE k - 1 > A
        <5>1. o[k - 1] = A /\ n[k - 1] = (k - 1) - A
          BY <1>11, <3>1, <4>3
        <5> QED BY <3>1, <4>1, <5>1
      <4> QED BY <1>1, <4>1, <4>2, <4>3
    <3> QED BY <3>3, <3>4 DEF Moves, Op
  <2> QED BY <1>1, <2>1, <2>2
<1>13. Diff(ops, a, b, o, n)
  BY <1>8, <1>10, <1>12 DEF Diff, Traces, A, B
<1> QED BY <1>9, <1>13

-----------------------------------------------------------------------------
(* Hunks.  A diff is cut before and after each of them: s[h] operations are *)
(* in front of hunk h and e[h] up to its end, and all between two hunks are *)
(* lines that stay.                                                         *)
Sorted(p, S) ==
  /\ p \in Seq(Nat)
  /\ \A h \in 1 .. Len(p) : p[h] \in S
  /\ \A k \in S : \E h \in 1 .. Len(p) : p[h] = k
  /\ \A g, h \in 1 .. Len(p) : g < h => p[g] < p[h]

LEMMA AppendIs ==
  ASSUME NEW X, NEW s \in Seq(X), NEW x \in X
  PROVE  /\ Append(s, x) \in Seq(X) /\ Len(Append(s, x)) = Len(s) + 1 /\ Len(s) \in Nat
         /\ \A k \in 1 .. Len(s) : Append(s, x)[k] = s[k]
         /\ Append(s, x)[Len(s) + 1] = x
OBVIOUS

(* Numbers in order, and a larger one behind them.                          *)
LEMMA SortedMore ==
  ASSUME NEW p, NEW S, Sorted(p, S), NEW k \in Nat, \A x \in S : x < k
  PROVE  Sorted(Append(p, k), S \cup {k})
<1> DEFINE q == Append(p, k)  L == Len(p)
<1>1. /\ p \in Seq(Nat) /\ q \in Seq(Nat) /\ Len(q) = L + 1 /\ L \in Nat
      /\ \A h \in 1 .. L : q[h] = p[h]
      /\ q[L + 1] = k
  BY AppendIs DEF Sorted
<1>2. /\ \A h \in 1 .. L : p[h] \in S
      /\ \A x \in S : \E h \in 1 .. L : p[h] = x
      /\ \A g, h \in 1 .. L : g < h => p[g] < p[h]
  BY DEF Sorted
<1> HIDE DEF q, L
<1>3. L \in Nat /\ L + 1 \in 1 .. L + 1 /\ \A h \in 1 .. L + 1 : h = L + 1 \/ h \in 1 .. L
  <2>1. L \in Nat
    BY <1>1
  <2> QED BY <2>1
<1>4. \A h \in 1 .. L + 1 : q[h] \in S \cup {k}
  BY <1>1, <1>2, <1>3
<1>5. \A x \in S \cup {k} : \E h \in 1 .. L + 1 : q[h] = x
  <2>1. ASSUME NEW x \in S PROVE \E h \in 1 .. L + 1 : q[h] = x
    <3>1. PICK h \in 1 .. L : p[h] = x
      BY <1>2
    <3>2. h \in 1 .. L + 1 /\ q[h] = x
      BY <1>1, <1>3, <3>1
    <3> QED BY <3>2
  <2>2. \E h \in 1 .. L + 1 : q[h] = k
    BY <1>1, <1>3
  <2> QED BY <2>1, <2>2
<1>6. ASSUME NEW g \in 1 .. L + 1, NEW h \in 1 .. L + 1, g < h PROVE q[g] < q[h]
  <2>1. g \in 1 .. L
    BY <1>3, <1>6
  <2>2. CASE h = L + 1
    BY <1>1, <1>2, <2>1, <2>2
  <2>3. CASE h \in 1 .. L
    <3>1. p[g] < p[h] /\ q[g] = p[g] /\ q[h] = p[h]
      BY <1>1, <1>2, <1>6, <2>1, <2>3
    <3> QED BY <3>1
  <2> QED BY <1>3, <2>2, <2>3
<1>7. Len(q) = L + 1 /\ q \in Seq(Nat)
  BY <1>1
<1> QED BY <1>4, <1>5, <1>6, <1>7 DEF Sorted, q

(* The numbers of a set are picked in order.                                *)
LEMMA SortedOnly ==
  ASSUME NEW s \in Seq(Nat), \A k \in 1 .. Len(s) : s[k] = k, NEW S
  PROVE  Sorted(Only(s, S), S \cap (1 .. Len(s)))
<1> DEFINE N == Len(s)
<1>1. N \in Nat
  OBVIOUS
<1>2. PICK f : Picks(Nat, s, S, f)
  BY OnlySteps
<1>3. f[0] = << >> /\ f[N] = Only(s, S)
  BY <1>2 DEF Picks
<1>4. \A k \in 1 .. N : f[k] = IF k \in S THEN Append(f[k - 1], k) ELSE f[k - 1]
  BY <1>2 DEF Picks
<1> HIDE DEF N
<1> DEFINE T == {k \in Nat : Sorted(f[k], S \cap (1 .. k))}
<1>5. 0 \in T
  <2>1. S \cap (1 .. 0) = {}
    OBVIOUS
  <2>2. << >> \in Seq(Nat) /\ Len(<< >>) = 0
    OBVIOUS
  <2>3. Sorted(<< >>, {})
    BY <2>2 DEF Sorted
  <2> QED BY <1>3, <2>1, <2>3
<1>6. ASSUME NEW k \in 0 .. N - 1, k \in T PROVE k + 1 \in T
  <2>1. k + 1 \in 1 .. N /\ (k + 1) - 1 = k /\ k + 1 \in Nat
    BY <1>1
  <2>2. Sorted(f[k], S \cap (1 .. k))
    BY <1>6
  <2>3. f[k + 1] = IF k + 1 \in S THEN Append(f[k], k + 1) ELSE f[k]
    BY <1>4, <2>1
  <2>4. CASE k + 1 \in S
    <3>1. \A x \in S \cap (1 .. k) : x < k + 1
      BY <2>1
    <3>2. Sorted(Append(f[k], k + 1), (S \cap (1 .. k)) \cup {k + 1})
      BY <2>1, <2>2, <3>1, SortedMore
    <3>3. (S \cap (1 .. k)) \cup {k + 1} = S \cap (1 .. k + 1)
      BY <2>4
    <3> QED BY <2>1, <2>3, <2>4, <3>2, <3>3
  <2>5. CASE k + 1 \notin S
    <3>1. S \cap (1 .. k) = S \cap (1 .. k + 1)
      BY <2>5
    <3> QED BY <2>1, <2>2, <2>3, <2>5, <3>1
  <2> QED BY <2>4, <2>5
<1> HIDE DEF T
<1>7. 0 .. N \subseteq T
  BY <1>1, <1>5, <1>6, UpTo
<1>8. N \in T
  BY <1>1, <1>7
<1> QED BY <1>3, <1>8 DEF T, N

OpensOf(ops) == Only([k \in DOMAIN ops |-> k], Opens(ops))

LEMMA OpensSorted ==
  ASSUME NEW ops \in Seq(Ops)
  PROVE  Sorted(OpensOf(ops), Opens(ops))
<1> DEFINE s == [k \in DOMAIN ops |-> k]
<1>1. DOMAIN ops = 1 .. Len(ops) /\ Len(ops) \in Nat
  OBVIOUS
<1>2. s \in Seq(Nat) /\ Len(s) = Len(ops) /\ \A k \in 1 .. Len(s) : s[k] = k
  BY <1>1
<1> HIDE DEF s
<1>3. Sorted(Only(s, Opens(ops)), Opens(ops) \cap (1 .. Len(s)))
  BY <1>2, SortedOnly
<1>4. Opens(ops) \cap (1 .. Len(s)) = Opens(ops)
  BY <1>1, <1>2 DEF Opens, Changes
<1> QED BY <1>3, <1>4 DEF OpensOf, s

Stays(ops, c) == ops[c].kind = " "
Cuts(ops, L, s, e) ==
  /\ s \in [1 .. L + 1 -> Nat] /\ e \in [0 .. L -> Nat] /\ L \in Nat
  /\ e[0] = 0 /\ s[L + 1] = Len(ops)
  /\ \A h \in 0 .. L : /\ e[h] <= s[h + 1] /\ s[h + 1] <= Len(ops)
                       /\ \A c \in e[h] + 1 .. s[h + 1] : Stays(ops, c)
  /\ \A h \in 1 .. L : /\ s[h] < e[h] /\ e[h] <= Len(ops)
                       /\ s[h] > 0 => Stays(ops, s[h] + 1)
  /\ \A h \in 1 .. L : h < L => e[h] < s[h + 1] /\ Stays(ops, e[h])

(* All lines between two hunks stay, and so do those at their ends.         *)
LEMMA OneCut ==
  ASSUME NEW ops \in Seq(Ops), NEW opens, opens = OpensOf(ops), NEW h \in 1 .. Len(opens)
  PROVE  /\ opens[h] \in 1 .. Len(ops) /\ First(opens, h) \in 1 .. opens[h]
         /\ First(opens, h) > 1 => /\ First(opens, h) = opens[h] - Context
                                   /\ Stays(ops, First(opens, h))
         /\ opens[h] <= Final(ops, opens, h) /\ Final(ops, opens, h) <= Len(ops)
         /\ Final(ops, opens, h) \in Nat /\ Len(opens) \in Nat
         /\ h < Len(opens) =>
              /\ Final(ops, opens, h) + 1 < First(opens, h + 1) /\ Stays(ops, Final(ops, opens, h))
              /\ \A c \in Final(ops, opens, h) + 1 .. First(opens, h + 1) - 1 : Stays(ops, c)
         /\ h = Len(opens) => Final(ops, opens, h) = Len(ops)
<1> DEFINE N == Len(ops)  L == Len(opens)  k == opens[h]
<1>1. N \in Nat /\ DOMAIN ops = 1 .. N /\ Context \in Nat /\ Context > 0
  BY DriftAssumption
<1>2. /\ L \in Nat /\ opens \in Seq(Nat) /\ \A g \in 1 .. L : opens[g] \in Opens(ops)
      /\ \A g \in 1 .. L : g > h => opens[h] < opens[g]
  BY OpensSorted DEF Sorted
<1> HIDE DEF N, L
<1>3. /\ Changes(ops) = {c \in 1 .. N : ~Stays(ops, c)}
      /\ Opens(ops) = {o \in Changes(ops) : \A c \in Changes(ops) : c < o => o - c - 1 > 2 * Context}
  BY <1>1 DEF Changes, Opens, Stays
<1>4. /\ k \in 1 .. N /\ k \in Changes(ops)
      /\ \A c \in Changes(ops) : c < k => k - c - 1 > 2 * Context
  <2>1. h \in 1 .. L
    BY DEF L
  <2> QED BY <1>2, <1>3, <2>1
<1>5. First(opens, h) = IF k > Context THEN k - Context ELSE 1
  BY DEF First
<1>6. First(opens, h) \in 1 .. k
  BY <1>1, <1>4, <1>5
<1>7. ASSUME First(opens, h) > 1
      PROVE  First(opens, h) = k - Context /\ Stays(ops, First(opens, h))
  <2>1. First(opens, h) = k - Context /\ First(opens, h) \in 1 .. N
    BY <1>1, <1>4, <1>5, <1>7
  <2>2. ASSUME First(opens, h) \in Changes(ops) PROVE FALSE
    <3>1. First(opens, h) < k
      BY <1>1, <1>4, <2>1
    <3>2. k - First(opens, h) - 1 > 2 * Context
      <4> DEFINE x == First(opens, h)
      <4>1. x \in Changes(ops) /\ x < k
        BY <2>2, <3>1
      <4> HIDE DEF x, k
      <4>2. k - x - 1 > 2 * Context
        BY <1>4, <4>1
      <4> QED BY <4>2 DEF x
    <3> QED BY <1>1, <1>4, <2>1, <3>2
  <2> QED BY <1>3, <2>1, <2>2
<1>8. CASE h = L
  <2>1. Final(ops, opens, h) = N
    BY <1>8 DEF Final, L, N
  <2>2. k <= N /\ ~(h < L)
    BY <1>2, <1>4, <1>8
  <2> QED BY <1>1, <1>2, <1>4, <1>6, <1>7, <1>8, <2>1, <2>2 DEF L, N
<1>9. CASE h # L
  <2>1. h + 1 \in 1 .. L /\ h < L
    BY <1>2, <1>9 DEF L
  <2> DEFINE n == opens[h + 1]
             S == {c \in Changes(ops) : c < n}
             top == Highest(S)
  <2>2. /\ n \in 1 .. N /\ n \in Changes(ops) /\ k < n
        /\ \A c \in Changes(ops) : c < n => n - c - 1 > 2 * Context
    <3>1. opens[h + 1] \in Opens(ops) /\ opens[h] < opens[h + 1]
      BY <1>2, <2>1
    <3> QED BY <1>3, <3>1
  <2>3. top \in S /\ \A c \in S : c <= top
    <3>1. S \subseteq Nat /\ S # {} /\ \A c \in S : c <= N
      BY <1>1, <1>3, <1>4, <2>2
    <3> HIDE DEF S
    <3> QED BY <1>1, <3>1, HighestIs
  <2>4. Final(ops, opens, h) = top + Context
    BY <1>9 DEF Final, L
  <2> HIDE DEF top, n
  <2>5. top \in 1 .. N /\ top < n /\ k <= top /\ n - top - 1 > 2 * Context
    BY <1>1, <1>3, <1>4, <2>2, <2>3
  <2>6. First(opens, h + 1) = IF n > Context THEN n - Context ELSE 1
    BY DEF First, n
  <2>7. First(opens, h + 1) = n - Context
    BY <1>1, <2>2, <2>5, <2>6
  <2>8. /\ Final(ops, opens, h) + 1 < First(opens, h + 1)
        /\ k <= Final(ops, opens, h) /\ Final(ops, opens, h) <= N
        /\ Final(ops, opens, h) \in Nat
    BY <1>1, <1>4, <2>2, <2>4, <2>5, <2>7
  <2>9. ASSUME NEW c \in Final(ops, opens, h) + 1 .. First(opens, h + 1) - 1
        PROVE  Stays(ops, c)
    <3>1. c \in 1 .. N /\ c < n /\ c > top
      BY <1>1, <2>2, <2>4, <2>5, <2>7
    <3>2. c \notin S
      <4>1. c \in S => c <= top
        BY <2>3
      <4> QED BY <2>5, <3>1, <4>1
    <3> QED BY <1>3, <3>1, <3>2
  <2>10. Stays(ops, Final(ops, opens, h))
    <3> DEFINE c == Final(ops, opens, h)
    <3>1. c \in 1 .. N /\ c < n /\ c > top
      BY <1>1, <2>2, <2>4, <2>5, <2>7
    <3> HIDE DEF c
    <3>2. c \notin S
      <4>1. c \in S => c <= top
        BY <2>3
      <4> QED BY <2>5, <3>1, <4>1
    <3>3. Stays(ops, c)
      BY <1>3, <3>1, <3>2
    <3> QED BY <3>3 DEF c
  <2> QED BY <1>1, <1>2, <1>4, <1>6, <1>7, <1>9, <2>1, <2>8, <2>9, <2>10 DEF L, N
<1> QED BY <1>8, <1>9

(* The hunks of a diff are apart, and all changes are in them.              *)
LEMMA CutsExist ==
  ASSUME NEW ops \in Seq(Ops), NEW opens, opens = OpensOf(ops)
  PROVE  \E s, e : /\ Cuts(ops, Len(opens), s, e)
                   /\ \A h \in 1 .. Len(opens) : /\ s[h] + 1 = First(opens, h)
                                                  /\ e[h] = Final(ops, opens, h)
<1> DEFINE N == Len(ops)  L == Len(opens)
           s == [h \in 1 .. L + 1 |-> IF h <= L THEN First(opens, h) - 1 ELSE N]
           e == [h \in 0 .. L |-> IF h = 0 THEN 0 ELSE Final(ops, opens, h)]
<1>1. N \in Nat /\ DOMAIN ops = 1 .. N /\ Context \in Nat /\ Context > 0
  BY DriftAssumption
<1>2. /\ opens \in Seq(Nat) /\ \A g \in 1 .. L : opens[g] \in Opens(ops)
      /\ \A k \in Opens(ops) : \E h \in 1 .. L : opens[h] = k
      /\ \A g, h \in 1 .. L : g < h => opens[g] < opens[h]
  BY OpensSorted DEF Sorted
<1>3. L \in Nat
  BY <1>2
<1>10. /\ Changes(ops) \subseteq Nat
       /\ \A c \in 1 .. N : c \in Changes(ops) <=> ~Stays(ops, c)
  <2>1. Changes(ops) = {c \in 1 .. N : ~Stays(ops, c)}
    BY <1>1 DEF Changes, Stays
  <2> QED BY <1>1, <2>1
<1>4. \A h \in 1 .. L :
         /\ opens[h] \in 1 .. N /\ First(opens, h) \in 1 .. opens[h]
         /\ First(opens, h) > 1 => Stays(ops, First(opens, h))
         /\ opens[h] <= Final(ops, opens, h) /\ Final(ops, opens, h) <= N
         /\ Final(ops, opens, h) \in Nat
         /\ h < L => /\ Final(ops, opens, h) + 1 < First(opens, h + 1)
                     /\ Stays(ops, Final(ops, opens, h))
                     /\ \A c \in Final(ops, opens, h) + 1 .. First(opens, h + 1) - 1 : Stays(ops, c)
         /\ h = L => Final(ops, opens, h) = N
  BY OneCut
<1>5. /\ \A h \in 1 .. L : s[h] = First(opens, h) - 1 /\ e[h] = Final(ops, opens, h)
      /\ s[L + 1] = N /\ e[0] = 0
  <2> HIDE DEF L, N
  <2> QED BY <1>3
<1>6. s \in [1 .. L + 1 -> Nat] /\ e \in [0 .. L -> Nat]
  <2>1. \A h \in 1 .. L : First(opens, h) - 1 \in Nat /\ Final(ops, opens, h) \in Nat
    BY <1>1, <1>4
  <2>2. \A h \in 1 .. L + 1 : h <= L => h \in 1 .. L
    BY <1>3
  <2>3. \A h \in 0 .. L : h # 0 => h \in 1 .. L
    BY <1>3
  <2> HIDE DEF L, N
  <2> QED BY <1>1, <2>1, <2>2, <2>3
<1> HIDE DEF s, e, L, N
<1>7. ASSUME NEW h \in 1 .. L
      PROVE  /\ s[h] < e[h] /\ e[h] <= N
             /\ s[h] > 0 => Stays(ops, s[h] + 1)
             /\ h < L => e[h] < s[h + 1]
             /\ s[h] + 1 = First(opens, h) /\ s[h] <= N /\ s[h] \in Nat /\ e[h] \in Nat
  <2> DEFINE k == opens[h]  fi == First(opens, h)  la == Final(ops, opens, h)
  <2>1. /\ s[h] = fi - 1 /\ e[h] = la /\ k \in 1 .. N /\ fi \in 1 .. k
        /\ (fi > 1 => Stays(ops, fi)) /\ k <= la /\ la <= N /\ la \in Nat
    BY <1>4, <1>5
  <2>2. ASSUME h < L PROVE e[h] < s[h + 1]
    <3>1. h + 1 \in 1 .. L
      BY <1>3, <2>2
    <3>2. s[h + 1] = First(opens, h + 1) - 1 /\ First(opens, h + 1) \in Nat
      <4>1. opens[h + 1] \in 1 .. N /\ First(opens, h + 1) \in 1 .. opens[h + 1]
        BY <1>4, <3>1
      <4> QED BY <1>1, <1>5, <3>1, <4>1
    <3>3. la + 1 < First(opens, h + 1)
      BY <1>4, <2>2
    <3> QED BY <2>1, <3>2, <3>3
  <2> HIDE DEF k, fi, la
  <2>3. fi = s[h] + 1 /\ s[h] < e[h] /\ s[h] <= N /\ s[h] \in Nat
    BY <1>1, <2>1
  <2>4. s[h] > 0 => Stays(ops, s[h] + 1)
    BY <2>1, <2>3
  <2>5. s[h] + 1 = First(opens, h)
    BY <2>3 DEF fi
  <2> QED BY <2>1, <2>2, <2>3, <2>4, <2>5
<1>8. ASSUME NEW h \in 0 .. L
      PROVE  /\ e[h] <= s[h + 1] /\ s[h + 1] <= N
             /\ \A c \in e[h] + 1 .. s[h + 1] : Stays(ops, c)
  <2>1. CASE h \in 1 .. L /\ h < L
    <3>1. h + 1 \in 1 .. L
      BY <1>3, <2>1
    <3>2. e[h] < s[h + 1] /\ s[h + 1] <= N /\ s[h + 1] \in Nat /\ e[h] \in Nat
      BY <1>7, <2>1, <3>1
    <3>3. e[h] = Final(ops, opens, h) /\ s[h + 1] = First(opens, h + 1) - 1
      BY <1>5, <2>1, <3>1
    <3>4. \A c \in Final(ops, opens, h) + 1 .. First(opens, h + 1) - 1 : Stays(ops, c)
      BY <1>4, <2>1
    <3> QED BY <3>2, <3>3, <3>4
  <2>2. CASE h \in 1 .. L /\ h = L
    <3>1. e[h] = N /\ s[h + 1] = N
      BY <1>4, <1>5, <2>2
    <3> QED BY <1>1, <3>1
  <2>3. CASE h = 0 /\ L = 0
    <3>1. Changes(ops) = {}
      <4>1. ASSUME Changes(ops) # {} PROVE FALSE
        <5>1. Changes(ops) \subseteq Nat
          BY <1>10
        <5>2. PICK x \in Changes(ops) : \A y \in Changes(ops) : x <= y
          BY <4>1, <5>1, LeastNumber
        <5>3. x \in Opens(ops)
          BY <5>1, <5>2 DEF Opens
        <5> QED BY <1>2, <2>3, <5>3
      <4> QED BY <4>1
    <3>2. \A c \in 1 .. N : Stays(ops, c)
      BY <1>10, <3>1
    <3>3. e[h] = 0 /\ s[h + 1] = N
      BY <1>5, <2>3
    <3> QED BY <1>1, <3>2, <3>3
  <2>4. CASE h = 0 /\ L # 0
    <3>1. 1 \in 1 .. L
      BY <1>3, <2>4
    <3>2. e[h] = 0 /\ s[h + 1] = s[1] /\ s[1] = First(opens, 1) - 1 /\ s[1] <= N /\ s[1] \in Nat
      BY <1>5, <1>7, <2>4, <3>1
    <3>3. ASSUME NEW c \in 1 .. s[1] PROVE Stays(ops, c)
      <4>1. opens[1] \in 1 .. N /\ First(opens, 1) \in 1 .. opens[1]
        BY <1>4, <3>1
      <4>2. c \in 1 .. N /\ c < opens[1]
        BY <1>1, <3>2, <4>1
      <4>3. ASSUME c \in Changes(ops) PROVE FALSE
        <5>1. Changes(ops) \subseteq Nat
          BY <1>10
        <5>2. PICK x \in Changes(ops) : \A y \in Changes(ops) : x <= y
          BY <4>3, <5>1, LeastNumber
        <5>3. x \in Opens(ops) /\ x <= c /\ x \in Nat
          BY <4>3, <5>1, <5>2 DEF Opens
        <5>4. PICK h2 \in 1 .. L : opens[h2] = x
          BY <1>2, <5>3
        <5>5. h2 = 1 \/ opens[1] < opens[h2]
          BY <1>2, <3>1, <5>4
        <5> QED BY <4>1, <4>2, <5>3, <5>4, <5>5
      <4> QED BY <1>10, <4>2, <4>3
    <3> QED BY <3>2, <3>3
  <2> QED BY <1>3, <2>1, <2>2, <2>3, <2>4
<1>9. Cuts(ops, L, s, e)
  <2>1. \A h \in 1 .. L : /\ s[h] < e[h] /\ e[h] <= N
                          /\ s[h] > 0 => Stays(ops, s[h] + 1)
    BY <1>7
  <2>2. \A h \in 1 .. L : h < L => e[h] < s[h + 1] /\ Stays(ops, e[h])
    BY <1>4, <1>5, <1>7
  <2> QED BY <1>3, <1>5, <1>6, <1>8, <2>1, <2>2 DEF Cuts, N
<1> QED BY <1>5, <1>7, <1>9 DEF L

-----------------------------------------------------------------------------
(* What a hunk holds: some consecutive lines of the text before, those that *)
(* take their place in the text after, and where the former begin.          *)
Slice(t, a, i, j) ==
  /\ t \in Seq(Lines) /\ i <= j /\ Len(t) = j - i
  /\ \A k \in 1 .. j - i : t[k] = a[i + k]

LEMMA SliceMore ==
  ASSUME NEW a, NEW i \in Nat, NEW j \in Nat, NEW t, Slice(t, a, i, j), a[j + 1] \in Lines
  PROVE  Slice(Append(t, a[j + 1]), a, i, j + 1)
<1> DEFINE x == a[j + 1]  u == Append(t, x)
<1>1. t \in Seq(Lines) /\ i <= j /\ Len(t) = j - i /\ \A k \in 1 .. j - i : t[k] = a[i + k]
  BY DEF Slice
<1>2. /\ u \in Seq(Lines) /\ Len(u) = Len(t) + 1
      /\ \A k \in 1 .. Len(t) : u[k] = t[k]
      /\ u[Len(t) + 1] = x
  <2> HIDE DEF x
  <2> QED BY <1>1, AppendIs DEF x
<1> HIDE DEF u
<1>3. ASSUME NEW k \in 1 .. (j + 1) - i PROVE u[k] = a[i + k]
  <2>1. CASE k \in 1 .. j - i
    <3>1. k \in 1 .. Len(t)
      BY <1>1, <2>1
    <3> QED BY <1>1, <1>2, <2>1, <3>1
  <2>2. CASE k \notin 1 .. j - i
    <3>1. k = (j - i) + 1 /\ i + k = j + 1
      BY <1>1, <2>2
    <3>2. u[k] = x
      BY <1>1, <1>2, <3>1
    <3> QED BY <3>1, <3>2
  <2> QED BY <2>1, <2>2
<1>4. Len(u) = (j + 1) - i /\ i <= j + 1
  BY <1>1, <1>2
<1> QED BY <1>2, <1>3, <1>4 DEF Slice, u

(* The parts of a diff, one by one.                                         *)
LEMMA DiffParts ==
  ASSUME NEW a \in Seq(Lines), NEW b \in Seq(Lines), NEW ops, NEW o, NEW n,
         Diff(ops, a, b, o, n)
  PROVE  /\ ops \in Seq(Ops) /\ Len(ops) \in Nat /\ Len(a) \in Nat /\ Len(b) \in Nat
         /\ o[0] = 0 /\ n[0] = 0 /\ o[Len(ops)] = Len(a) /\ n[Len(ops)] = Len(b)
         /\ \A k \in 0 .. Len(ops) : /\ o[k] \in 0 .. Len(a) /\ n[k] \in 0 .. Len(b)
                                     /\ o[k] \in Nat /\ n[k] \in Nat
         /\ \A k \in 1 .. Len(ops) : Moves(ops[k], a, b, o[k - 1], n[k - 1], o[k], n[k])
<1>1. ops \in Seq(Ops)
  BY DEF Diff, Traces
<1>2. Len(ops) \in Nat /\ Len(a) \in Nat /\ Len(b) \in Nat
  BY <1>1
<1>3. \A k \in 0 .. Len(ops) : o[k] \in 0 .. Len(a) /\ n[k] \in 0 .. Len(b)
  BY DEF Diff, Traces
<1>4. \A k \in 0 .. Len(ops) : o[k] \in Nat /\ n[k] \in Nat
  BY <1>2, <1>3
<1> QED BY <1>1, <1>2, <1>3, <1>4 DEF Diff, Traces

(* The operations from x + 1 to y.                                          *)
LEMMA BodyIs ==
  ASSUME NEW ops \in Seq(Ops), NEW x \in 0 .. Len(ops), NEW y \in x .. Len(ops)
  PROVE  /\ SubSeq(ops, x + 1, y) \in Seq(Ops) /\ Len(SubSeq(ops, x + 1, y)) = y - x
         /\ \A k \in 1 .. y - x : SubSeq(ops, x + 1, y)[k] = ops[x + k]
<1>1. Len(ops) \in Nat /\ x + 1 \in 1 .. Len(ops) + 1 /\ y \in 0 .. Len(ops)
  OBVIOUS
<1> QED BY <1>1

LEMMA OneMore == \A p, q \in Nat : p <= q => (p + 1 .. q) \cup {q + 1} = p + 1 .. q + 1
OBVIOUS

Reached(body, k) == {body[j].at : j \in {j \in 1 .. k : body[j].kind # "+"}}

BodyHolds(body, a, b, o, n, x, y) ==
  /\ Slice(Side(body, "-"), a, o[x], o[y]) /\ Slice(Side(body, "+"), b, n[x], n[y])
  /\ \A k \in 0 .. y - x : /\ o[x] <= o[x + k]
                           /\ Reached(body, k) = o[x] + 1 .. o[x + k]

(* A run of operations takes a run of lines of each text.                   *)
LEMMA BodyTakes ==
  ASSUME NEW a \in Seq(Lines), NEW b \in Seq(Lines), NEW ops, NEW o, NEW n,
         Diff(ops, a, b, o, n), NEW x \in 0 .. Len(ops), NEW y \in x .. Len(ops)
  PROVE  BodyHolds(SubSeq(ops, x + 1, y), a, b, o, n, x, y)
<1> DEFINE body == SubSeq(ops, x + 1, y)
<1>1. /\ ops \in Seq(Ops) /\ Len(ops) \in Nat /\ Len(a) \in Nat /\ Len(b) \in Nat
      /\ \A k \in 0 .. Len(ops) : /\ o[k] \in 0 .. Len(a) /\ n[k] \in 0 .. Len(b)
                                  /\ o[k] \in Nat /\ n[k] \in Nat
      /\ \A k \in 1 .. Len(ops) : Moves(ops[k], a, b, o[k - 1], n[k - 1], o[k], n[k])
  BY DiffParts
<1> DEFINE L == y - x
<1>2. /\ body \in Seq(Ops) /\ Len(body) = L /\ L \in Nat
      /\ \A k \in 1 .. L : body[k] = ops[x + k]
  <2>1. L \in Nat
    BY <1>1
  <2> QED BY <1>1, <2>1, BodyIs
<1> HIDE DEF body
<1>3. PICK f : Takes(body, "-", f)
  BY <1>2, SideSteps
<1>4. PICK g : Takes(body, "+", g)
  BY <1>2, SideSteps
<1>5. /\ f[0] = << >> /\ f[L] = Side(body, "-")
      /\ \A k \in 1 .. L :
           f[k] = IF body[k].kind \in {" ", "-"} THEN Append(f[k - 1], body[k].text) ELSE f[k - 1]
  BY <1>2, <1>3 DEF Takes
<1>6. /\ g[0] = << >> /\ g[L] = Side(body, "+")
      /\ \A k \in 1 .. L :
           g[k] = IF body[k].kind \in {" ", "+"} THEN Append(g[k - 1], body[k].text) ELSE g[k - 1]
  BY <1>2, <1>4 DEF Takes
<1>7. /\ x \in Nat /\ x + L = y
      /\ \A k \in 0 .. L : x + k \in 0 .. Len(ops)
      /\ \A k \in 1 .. L : x + k \in 1 .. Len(ops) /\ (x + k) - 1 = x + (k - 1)
  BY <1>1
<1> HIDE DEF L
<1> DEFINE T == {k \in Nat : /\ Slice(f[k], a, o[x], o[x + k]) /\ Slice(g[k], b, n[x], n[x + k])
                             /\ Reached(body, k) = o[x] + 1 .. o[x + k]}
<1>8. 0 \in T
  <2>1. x + 0 = x /\ o[x] \in Nat /\ n[x] \in Nat
    BY <1>1, <1>7
  <2>2. << >> \in Seq(Lines) /\ Len(<< >>) = 0
    OBVIOUS
  <2>3. \A i \in Nat : i <= i /\ i - i = 0 /\ 1 .. (i - i) = {} /\ i + 1 .. i = {}
    OBVIOUS
  <2>4. Slice(<< >>, a, o[x], o[x]) /\ Slice(<< >>, b, n[x], n[x])
    BY <2>1, <2>2, <2>3 DEF Slice
  <2>5. Reached(body, 0) = {}
    BY DEF Reached
  <2> QED BY <1>5, <1>6, <2>1, <2>3, <2>4, <2>5
<1>9. ASSUME NEW k \in 0 .. L - 1, k \in T PROVE k + 1 \in T
  <2> DEFINE c == x + (k + 1)  i == o[x + k]  j == n[x + k]  op == body[k + 1]
  <2>1. k + 1 \in 1 .. L /\ k \in 0 .. L /\ k \in Nat /\ k + 1 \in Nat /\ (k + 1) - 1 = k
    BY <1>2
  <2>2. c \in 1 .. Len(ops) /\ c - 1 = x + k
    BY <1>7, <2>1
  <2>3. /\ op = ops[c] /\ Moves(op, a, b, i, j, o[c], n[c]) /\ i \in Nat /\ j \in Nat
        /\ op.kind \in Kinds /\ op.text \in Lines
    <3>1. op = ops[c] /\ x + k \in 0 .. Len(ops)
      BY <1>2, <1>7, <2>1
    <3>2. Moves(ops[c], a, b, o[c - 1], n[c - 1], o[c], n[c])
      BY <1>1, <2>2
    <3>3. op.kind \in Kinds /\ op.text \in Lines
      BY <1>2, <2>1, OpParts
    <3> QED BY <1>1, <2>2, <3>1, <3>2, <3>3
  <2>4. /\ Slice(f[k], a, o[x], i) /\ Slice(g[k], b, n[x], j)
        /\ Reached(body, k) = o[x] + 1 .. i
    BY <1>9
  <2>5. o[x] \in Nat /\ n[x] \in Nat /\ o[x] <= i
    <3>1. x \in 0 .. Len(ops)
      OBVIOUS
    <3> QED BY <1>1, <2>4, <3>1 DEF Slice
  <2>6. /\ f[k + 1] = IF op.kind \in {" ", "-"} THEN Append(f[k], op.text) ELSE f[k]
        /\ g[k + 1] = IF op.kind \in {" ", "+"} THEN Append(g[k], op.text) ELSE g[k]
    BY <1>5, <1>6, <2>1
  <2>7. Reached(body, k + 1) = IF op.kind # "+" THEN Reached(body, k) \cup {op.at}
                               ELSE Reached(body, k)
    <3>1. {m \in 1 .. k + 1 : body[m].kind # "+"}
            = IF op.kind # "+" THEN {m \in 1 .. k : body[m].kind # "+"} \cup {k + 1}
              ELSE {m \in 1 .. k : body[m].kind # "+"}
      <4>1. 1 .. k + 1 = (1 .. k) \cup {k + 1} /\ k + 1 \notin 1 .. k
        BY <2>1
      <4> QED BY <4>1
    <3> QED BY <3>1 DEF Reached
  <2> HIDE DEF c, i, j, op
  <2>8. CASE op.kind = " "
    <3>1. o[c] = i + 1 /\ n[c] = j + 1 /\ op.at = i + 1 /\ op.text = a[i + 1] /\ op.text = b[j + 1]
      BY <2>3, <2>8 DEF Moves
    <3>2. Slice(f[k + 1], a, o[x], o[c]) /\ Slice(g[k + 1], b, n[x], n[c])
      <4>1. f[k + 1] = Append(f[k], a[i + 1]) /\ g[k + 1] = Append(g[k], b[j + 1])
        BY <2>6, <2>8, <3>1
      <4>2. Slice(Append(f[k], a[i + 1]), a, o[x], i + 1)
        BY <2>3, <2>4, <2>5, <3>1, SliceMore
      <4>3. Slice(Append(g[k], b[j + 1]), b, n[x], j + 1)
        BY <2>3, <2>4, <2>5, <3>1, SliceMore
      <4> QED BY <3>1, <4>1, <4>2, <4>3
    <3>3. Reached(body, k + 1) = o[x] + 1 .. o[c]
      <4>1. (o[x] + 1 .. i) \cup {i + 1} = o[x] + 1 .. i + 1
        BY <2>3, <2>5, OneMore
      <4> QED BY <2>4, <2>7, <2>8, <3>1, <4>1
    <3> QED BY <2>1, <3>2, <3>3 DEF c
  <2>9. CASE op.kind = "-"
    <3>1. o[c] = i + 1 /\ n[c] = j /\ op.at = i + 1 /\ op.text = a[i + 1]
      BY <2>3, <2>9 DEF Moves
    <3>2. Slice(f[k + 1], a, o[x], o[c]) /\ Slice(g[k + 1], b, n[x], n[c])
      <4>1. f[k + 1] = Append(f[k], a[i + 1]) /\ g[k + 1] = g[k]
        BY <2>6, <2>9, <3>1
      <4>2. Slice(Append(f[k], a[i + 1]), a, o[x], i + 1)
        BY <2>3, <2>4, <2>5, <3>1, SliceMore
      <4> QED BY <2>4, <3>1, <4>1, <4>2
    <3>3. Reached(body, k + 1) = o[x] + 1 .. o[c]
      <4>1. (o[x] + 1 .. i) \cup {i + 1} = o[x] + 1 .. i + 1
        BY <2>3, <2>5, OneMore
      <4> QED BY <2>4, <2>7, <2>9, <3>1, <4>1
    <3> QED BY <2>1, <3>2, <3>3 DEF c
  <2>10. CASE op.kind = "+"
    <3>1. o[c] = i /\ n[c] = j + 1 /\ op.text = b[j + 1]
      BY <2>3, <2>10 DEF Moves
    <3>2. Slice(f[k + 1], a, o[x], o[c]) /\ Slice(g[k + 1], b, n[x], n[c])
      <4>1. f[k + 1] = f[k] /\ g[k + 1] = Append(g[k], b[j + 1])
        BY <2>6, <2>10, <3>1
      <4>2. Slice(Append(g[k], b[j + 1]), b, n[x], j + 1)
        BY <2>3, <2>4, <2>5, <3>1, SliceMore
      <4> QED BY <2>4, <3>1, <4>1, <4>2
    <3>3. Reached(body, k + 1) = o[x] + 1 .. o[c]
      BY <2>4, <2>7, <2>10, <3>1
    <3> QED BY <2>1, <3>2, <3>3 DEF c
  <2> QED BY <2>3, <2>8, <2>9, <2>10 DEF Kinds
<1> HIDE DEF T
<1>10. 0 .. L \subseteq T
  BY <1>2, <1>8, <1>9, UpTo
<1>11. ASSUME NEW k \in 0 .. L
       PROVE  /\ Slice(f[k], a, o[x], o[x + k]) /\ Slice(g[k], b, n[x], n[x + k])
              /\ Reached(body, k) = o[x] + 1 .. o[x + k]
  BY <1>10 DEF T
<1>12. L \in 0 .. L
  BY <1>2
<1>13. Slice(Side(body, "-"), a, o[x], o[y]) /\ Slice(Side(body, "+"), b, n[x], n[y])
  BY <1>5, <1>6, <1>7, <1>11, <1>12
<1>14. \A k \in 0 .. L : o[x] <= o[x + k] /\ Reached(body, k) = o[x] + 1 .. o[x + k]
  BY <1>11 DEF Slice
<1>15. BodyHolds(body, a, b, o, n, x, y)
  BY <1>13, <1>14 DEF L, BodyHolds
<1> QED BY <1>15 DEF body

(* Lines that stay stand in both texts, as far behind one another.          *)
Gap(a, b, i, j, k, l) ==
  /\ i \in Nat /\ j \in Nat /\ k \in Nat /\ l \in Nat
  /\ i <= j /\ j - i = l - k
  /\ \A c \in 1 .. j - i : a[i + c] = b[k + c]

(* Operations that only keep lines leave a gap in which the texts agree.    *)
LEMMA StaysGap ==
  ASSUME NEW a \in Seq(Lines), NEW b \in Seq(Lines), NEW ops, NEW o, NEW n,
         Diff(ops, a, b, o, n), NEW x \in 0 .. Len(ops), NEW y \in x .. Len(ops),
         \A c \in x + 1 .. y : Stays(ops, c)
  PROVE  /\ Gap(a, b, o[x], o[y], n[x], n[y]) /\ o[y] - o[x] = y - x
<1>1. /\ ops \in Seq(Ops) /\ Len(ops) \in Nat
      /\ \A k \in 0 .. Len(ops) : o[k] \in Nat /\ n[k] \in Nat
      /\ \A k \in 1 .. Len(ops) : Moves(ops[k], a, b, o[k - 1], n[k - 1], o[k], n[k])
  BY DiffParts
<1> DEFINE L == y - x
<1>2. /\ L \in Nat /\ x \in Nat /\ x + L = y
      /\ \A k \in 0 .. L : x + k \in 0 .. Len(ops)
      /\ \A k \in 1 .. L : /\ x + k \in 1 .. Len(ops) /\ (x + k) - 1 = x + (k - 1)
                           /\ x + k \in x + 1 .. y
  BY <1>1
<1> HIDE DEF L
<1> DEFINE T == {k \in Nat : /\ o[x + k] = o[x] + k /\ n[x + k] = n[x] + k
                             /\ k > 0 => a[o[x] + k] = b[n[x] + k]}
<1>3. 0 \in T
  <2>1. x + 0 = x /\ o[x] + 0 = o[x] /\ n[x] + 0 = n[x]
    BY <1>1, <1>2
  <2> QED BY <2>1
<1>4. ASSUME NEW k \in 0 .. L - 1, k \in T PROVE k + 1 \in T
  <2>1. k + 1 \in 1 .. L /\ (k + 1) - 1 = k /\ k \in Nat /\ k + 1 \in Nat
    BY <1>2
  <2> DEFINE c == x + (k + 1)
  <2>2. c \in 1 .. Len(ops) /\ c - 1 = x + k /\ c \in x + 1 .. y
    BY <1>2, <2>1
  <2>3. Moves(ops[c], a, b, o[x + k], n[x + k], o[c], n[c]) /\ ops[c].kind = " "
    BY <1>1, <2>2 DEF Stays
  <2>4. /\ o[c] = o[x + k] + 1 /\ n[c] = n[x + k] + 1 /\ a[o[c]] = b[n[c]]
    BY <2>3 DEF Moves
  <2>5. o[x + k] = o[x] + k /\ n[x + k] = n[x] + k /\ o[x] \in Nat /\ n[x] \in Nat
    BY <1>1, <1>4
  <2> HIDE DEF c
  <2>6. o[c] = o[x] + (k + 1) /\ n[c] = n[x] + (k + 1)
    <3>1. \A p \in Nat : (p + k) + 1 = p + (k + 1)
      BY <2>1
    <3>2. (o[x] + k) + 1 = o[x] + (k + 1) /\ (n[x] + k) + 1 = n[x] + (k + 1)
      BY <2>5, <3>1, Zenon
    <3>3. o[c] = (o[x] + k) + 1 /\ n[c] = (n[x] + k) + 1
      BY <2>4, <2>5, Zenon
    <3> QED BY <3>2, <3>3, Zenon
  <2> QED BY <2>1, <2>4, <2>6 DEF c
<1> HIDE DEF T
<1>5. 0 .. L \subseteq T
  BY <1>2, <1>3, <1>4, UpTo
<1>6. ASSUME NEW k \in 0 .. L
      PROVE  /\ o[x + k] = o[x] + k /\ n[x + k] = n[x] + k
             /\ k > 0 => a[o[x] + k] = b[n[x] + k]
  BY <1>5 DEF T
<1>7. o[y] = o[x] + L /\ n[y] = n[x] + L /\ o[x] \in Nat /\ n[x] \in Nat
  <2>1. L \in 0 .. L /\ x + L = y
    BY <1>2
  <2> QED BY <1>1, <1>6, <2>1
<1>8. /\ o[y] \in Nat /\ n[y] \in Nat /\ o[x] <= o[y]
      /\ o[y] - o[x] = L /\ n[y] - n[x] = L
  <2>1. \A p, q \in Nat : p + q \in Nat /\ p <= p + q /\ (p + q) - p = q
    OBVIOUS
  <2>2. L \in Nat
    BY <1>2
  <2>3. \A p \in Nat : \A r : r = p + L => r \in Nat /\ p <= r /\ r - p = L
    BY <2>2
  <2>4. o[x] \in Nat /\ o[y] = o[x] + L
    BY <1>7
  <2>5. n[x] \in Nat /\ n[y] = n[x] + L
    BY <1>7
  <2>6. o[y] \in Nat /\ o[x] <= o[y] /\ o[y] - o[x] = L
    BY <2>3, <2>4
  <2>7. n[y] \in Nat /\ n[y] - n[x] = L
    BY <2>3, <2>5
  <2> QED BY <2>6, <2>7
<1>9. \A c \in 1 .. o[y] - o[x] : a[o[x] + c] = b[n[x] + c]
  <2>1. \A c \in 1 .. L : c \in 0 .. L /\ c > 0
    BY <1>2
  <2> QED BY <1>6, <1>8, <2>1
<1> QED BY <1>7, <1>8, <1>9 DEF Gap, L

LEMMA SameSeq ==
  ASSUME NEW X, NEW s \in Seq(X), NEW t \in Seq(X), Len(s) = Len(t),
         \A k \in 1 .. Len(s) : s[k] = t[k]
  PROVE  s = t
OBVIOUS

(* What there is in a hunk, and in what is left of it when its end is cut.  *)
HunkTakes(hunk, a, b, i, j, k, l) ==
  /\ hunk \in Hunks /\ hunk.at = i + 1 /\ i <= j /\ k <= l
  /\ Slice(Old(hunk), a, i, j) /\ Slice(New(hunk), b, k, l)
  /\ Places(hunk.ops) = i + 1 .. j
  /\ \A c \in 0 .. Len(hunk.ops) :
       \E z \in i .. j : Slice(Side(SubSeq(hunk.ops, 1, c), "-"), a, i, z)
  /\ \A c \in 1 .. Len(hunk.ops) :
       /\ hunk.ops[c].kind # "+" => \E x \in 1 .. Len(a) : hunk.ops[c].text = a[x]
       /\ hunk.ops[c].kind = "+" => \E x \in 1 .. Len(b) : hunk.ops[c].text = b[x]

HunkOf(body, hunk, at) == hunk \in Hunks /\ hunk.at = at /\ hunk.ops = body

(* The place a hunk is said to be at is its first line.                     *)
LEMMA HunkAtIs ==
  ASSUME NEW a \in Seq(Lines), NEW b \in Seq(Lines), NEW ops, NEW o, NEW n,
         Diff(ops, a, b, o, n), NEW x \in 0 .. Len(ops), NEW y \in x + 1 .. Len(ops),
         x > 0 => Stays(ops, x + 1)
  PROVE  HunkOf(SubSeq(ops, x + 1, y), Hunk(SubSeq(ops, x + 1, y)), o[x] + 1)
<1> DEFINE body == SubSeq(ops, x + 1, y)
<1>1. /\ ops \in Seq(Ops) /\ Len(ops) \in Nat /\ o[0] = 0 /\ o[x] \in Nat
      /\ y \in x .. Len(ops) /\ 1 \in 1 .. y - x
  BY DiffParts
<1>2. /\ body \in Seq(Ops) /\ Len(body) = y - x
      /\ \A k \in 1 .. y - x : body[k] = ops[x + k]
  BY <1>1, BodyIs
<1>0. BodyHolds(body, a, b, o, n, x, y)
  BY <1>1, BodyTakes
<1> HIDE DEF body
<1>3. /\ DOMAIN body = 1 .. y - x /\ DOMAIN body \subseteq Nat
      /\ Taken(body) = {k \in 1 .. y - x : body[k].kind # "+"}
  <2>1. DOMAIN body = 1 .. Len(body)
    BY <1>2
  <2> QED BY <1>2, <2>1 DEF Taken
<1>4. CASE Taken(body) = {}
  <2>1. x = 0
    <3>1. CASE x > 0
      <4>1. body[1].kind = " "
        BY <1>1, <1>2, <3>1 DEF Stays
      <4> QED BY <1>1, <1>3, <1>4, <4>1
    <3> QED BY <3>1
  <2>2. Hunk(body) = [at |-> 1, ops |-> body]
    BY <1>4 DEF Hunk
  <2>3. o[x] + 1 = 1
    BY <1>1, <2>1
  <2>4. [at |-> 1, ops |-> body] \in Hunks
    BY <1>2 DEF Hunks
  <2> QED BY <2>2, <2>3, <2>4 DEF HunkOf, body
<1>5. CASE Taken(body) # {}
  <2> DEFINE c == Lowest(Taken(body))
  <2>1. c \in Taken(body) /\ \A k \in Taken(body) : c <= k
    <3>1. Taken(body) \subseteq Nat
      BY <1>3
    <3> QED BY <1>5, <3>1, LowestIs
  <2>2. Hunk(body) = [at |-> body[c].at, ops |-> body]
    BY <1>5 DEF Hunk
  <2> HIDE DEF c
  <2>3. c \in 1 .. y - x /\ body[c].kind # "+" /\ body[c].at \in Nat
    <3>1. c \in 1 .. Len(body)
      BY <1>2, <1>3, <2>1
    <3> QED BY <1>2, <1>3, <2>1, <3>1, OpParts
  <2>4. {k \in 1 .. c : body[k].kind # "+"} = {c}
    <3>1. ASSUME NEW k \in 1 .. c, body[k].kind # "+" PROVE k = c
      <4>1. k \in 1 .. y - x
        BY <2>3
      <4>2. k \in Taken(body)
        BY <1>3, <3>1, <4>1
      <4>3. c <= k
        BY <2>1, <4>2
      <4> QED BY <2>3, <4>3
    <3>2. c \in 1 .. c
      BY <2>3
    <3>3. body[c].kind # "+"
      BY <2>3
    <3> QED BY <3>1, <3>2, <3>3
  <2>5. Reached(body, c) = {body[c].at}
    BY <2>4 DEF Reached
  <2>6. Reached(body, c) = o[x] + 1 .. o[x + c]
    <3>1. c \in 0 .. y - x
      BY <2>3
    <3> QED BY <1>0, <3>1 DEF BodyHolds
  <2>7. o[x + c] \in Nat
    <3>1. x + c \in 0 .. Len(ops)
      BY <2>3
    <3> QED BY <3>1, DiffParts
  <2>8. \A p, q, m \in Nat : {m} = p + 1 .. q => m = p + 1
    <3>1. SUFFICES ASSUME NEW p \in Nat, NEW q \in Nat, NEW m \in Nat, {m} = p + 1 .. q
                   PROVE  m = p + 1
      OBVIOUS
    <3>2. m \in p + 1 .. q
      BY <3>1
    <3>3. p + 1 \in p + 1 .. q
      BY <3>2
    <3> QED BY <3>1, <3>3
  <2>9. body[c].at = o[x] + 1
    BY <1>1, <2>3, <2>5, <2>6, <2>7, <2>8
  <2>10. [at |-> body[c].at, ops |-> body] \in Hunks
    BY <1>2, <2>3 DEF Hunks
  <2>11. /\ [at |-> body[c].at, ops |-> body].at = body[c].at
         /\ [at |-> body[c].at, ops |-> body].ops = body
    OBVIOUS
  <2>12. HunkOf(body, Hunk(body), o[x] + 1)
    BY <2>2, <2>9, <2>10, <2>11 DEF HunkOf
  <2> QED BY <2>12 DEF body
<1> QED BY <1>4, <1>5

(* What a hunk of a diff takes of both texts.                               *)
LEMMA HunkTakesIs ==
  ASSUME NEW a \in Seq(Lines), NEW b \in Seq(Lines), NEW ops, NEW o, NEW n,
         Diff(ops, a, b, o, n), NEW x \in 0 .. Len(ops), NEW y \in x + 1 .. Len(ops),
         x > 0 => Stays(ops, x + 1)
  PROVE  HunkTakes(Hunk(SubSeq(ops, x + 1, y)), a, b, o[x], o[y], n[x], n[y])
<1> DEFINE body == SubSeq(ops, x + 1, y)  hunk == Hunk(body)
<1>1. /\ ops \in Seq(Ops) /\ Len(ops) \in Nat /\ y \in x .. Len(ops) /\ x \in Nat
      /\ \A k \in 0 .. Len(ops) : /\ o[k] \in 0 .. Len(a) /\ n[k] \in 0 .. Len(b)
                                  /\ o[k] \in Nat /\ n[k] \in Nat
      /\ \A k \in 1 .. Len(ops) : Moves(ops[k], a, b, o[k - 1], n[k - 1], o[k], n[k])
  BY DiffParts
<1>2. /\ body \in Seq(Ops) /\ Len(body) = y - x
      /\ \A k \in 1 .. y - x : body[k] = ops[x + k]
  BY <1>1, BodyIs
<1>3. hunk \in Hunks /\ hunk.at = o[x] + 1 /\ hunk.ops = body
  <2>1. HunkOf(body, hunk, o[x] + 1)
    BY HunkAtIs
  <2> QED BY <2>1 DEF HunkOf
<1>4. /\ Slice(Side(body, "-"), a, o[x], o[y]) /\ Slice(Side(body, "+"), b, n[x], n[y])
      /\ \A k \in 0 .. y - x : /\ o[x] <= o[x + k]
                               /\ Reached(body, k) = o[x] + 1 .. o[x + k]
  <2>1. BodyHolds(body, a, b, o, n, x, y)
    BY <1>1, BodyTakes
  <2> QED BY <2>1 DEF BodyHolds
<1>5. Places(body) = o[x] + 1 .. o[y]
  <2>1. Places(body) = Reached(body, y - x)
    <3>1. DOMAIN body = 1 .. y - x
      <4>1. DOMAIN body = 1 .. Len(body)
        BY <1>2
      <4> QED BY <1>2, <4>1
    <3> HIDE DEF body
    <3> QED BY <3>1 DEF Places, Taken, Reached
  <2>2. y - x \in 0 .. y - x /\ x + (y - x) = y
    BY <1>1
  <2> QED BY <1>4, <2>1, <2>2
<1>6. ASSUME NEW c \in 0 .. Len(body)
      PROVE  \E z \in o[x] .. o[y] : Slice(Side(SubSeq(body, 1, c), "-"), a, o[x], z)
  <2>1. x + c \in 0 .. Len(ops) /\ x + c \in x .. Len(ops) /\ c \in 0 .. y - x
        /\ y \in x + c .. Len(ops) /\ c \in Nat
    BY <1>1, <1>2
  <2> DEFINE part == SubSeq(ops, x + 1, x + c)  same == SubSeq(body, 0 + 1, c)
  <2>2. /\ part \in Seq(Ops) /\ Len(part) = c /\ \A k \in 1 .. c : part[k] = ops[x + k]
    <3>1. /\ part \in Seq(Ops) /\ Len(part) = (x + c) - x
          /\ \A k \in 1 .. (x + c) - x : part[k] = ops[x + k]
      BY <1>1, <2>1, BodyIs
    <3>2. (x + c) - x = c
      BY <1>1, <2>1
    <3> QED BY <3>1, <3>2
  <2>3. /\ same \in Seq(Ops) /\ Len(same) = c /\ \A k \in 1 .. c : same[k] = ops[x + k]
    <3>1. 0 \in 0 .. Len(body) /\ c \in 0 .. Len(body) /\ c - 0 = c
      BY <1>2, <2>1
    <3>2. /\ same \in Seq(Ops) /\ Len(same) = c - 0
          /\ \A k \in 1 .. c - 0 : same[k] = body[0 + k]
      BY <1>2, <3>1, BodyIs
    <3>3. \A k \in 1 .. c : body[0 + k] = ops[x + k]
      BY <1>2, <2>1
    <3> QED BY <3>1, <3>2, <3>3
  <2>4. part = same
    <3> HIDE DEF part, same
    <3> QED BY <2>2, <2>3, SameSeq
  <2>5. Slice(Side(part, "-"), a, o[x], o[x + c])
    <3>1. BodyHolds(part, a, b, o, n, x, x + c)
      BY <2>1, BodyTakes
    <3> QED BY <3>1 DEF BodyHolds
  <2>6. o[x] <= o[x + c]
    BY <1>4, <2>1
  <2>7. o[x + c] <= o[y]
    <3>1. BodyHolds(SubSeq(ops, (x + c) + 1, y), a, b, o, n, x + c, y)
      BY <2>1, BodyTakes
    <3>2. Slice(Side(SubSeq(ops, (x + c) + 1, y), "-"), a, o[x + c], o[y])
      BY <3>1 DEF BodyHolds
    <3> QED BY <3>2 DEF Slice
  <2>8. o[x + c] \in o[x] .. o[y]
    <3>1. o[x] \in Nat /\ o[y] \in Nat /\ o[x + c] \in Nat
      <4>1. y \in 0 .. Len(ops)
        BY <1>1
      <4> QED BY <1>1, <2>1, <4>1
    <3> QED BY <2>6, <2>7, <3>1
  <2>9. same = SubSeq(body, 1, c)
    <3>1. 0 + 1 = 1
      OBVIOUS
    <3> QED BY <3>1
  <2> QED BY <2>4, <2>5, <2>8, <2>9
<1>7. ASSUME NEW c \in 1 .. Len(body)
      PROVE  /\ body[c].kind # "+" => \E z \in 1 .. Len(a) : body[c].text = a[z]
             /\ body[c].kind = "+" => \E z \in 1 .. Len(b) : body[c].text = b[z]
  <2> DEFINE k == x + c
  <2>1. k \in 1 .. Len(ops) /\ k - 1 \in 0 .. Len(ops) /\ k \in 0 .. Len(ops) /\ body[c] = ops[k]
    BY <1>1, <1>2
  <2> HIDE DEF k
  <2>2. Moves(ops[k], a, b, o[k - 1], n[k - 1], o[k], n[k])
    BY <1>1, <2>1
  <2>3. /\ o[k] \in 0 .. Len(a) /\ n[k] \in 0 .. Len(b)
        /\ o[k - 1] \in Nat /\ n[k - 1] \in Nat
    BY <1>1, <2>1
  <2>4. ASSUME ops[k].kind # "+" PROVE ops[k].text = a[o[k]] /\ o[k] \in 1 .. Len(a)
    <3>1. ops[k].text = a[o[k]] /\ o[k] = o[k - 1] + 1
      BY <2>2, <2>4 DEF Moves
    <3> QED BY <2>3, <3>1
  <2>5. ops[k].kind = "+" => ops[k].text = b[n[k]] /\ n[k] \in 1 .. Len(b)
    BY <2>2, <2>3 DEF Moves
  <2> QED BY <2>1, <2>4, <2>5
<1> HIDE DEF body
<1>8. o[x] <= o[y] /\ n[x] <= n[y]
  BY <1>4 DEF Slice
<1>9. Old(hunk) = Side(body, "-") /\ New(hunk) = Side(body, "+")
  BY <1>3 DEF Old, New
<1> HIDE DEF hunk
<1>10. HunkTakes(hunk, a, b, o[x], o[y], n[x], n[y])
  BY <1>3, <1>4, <1>5, <1>6, <1>7, <1>8, <1>9 DEF HunkTakes
<1> QED BY <1>10 DEF hunk, body

(* The hunks of a diff.  Hunk h takes lines ax[h] + 1 .. ay[h] of the text  *)
(* before to bx[h] + 1 .. by[h] of the one after, and all between the hunks *)
(* stays.                                                                   *)
Spots(L, la, lb, ax, ay, bx, by) ==
  /\ ax \in [1 .. L + 1 -> 0 .. la] /\ ay \in [0 .. L -> 0 .. la]
  /\ bx \in [1 .. L + 1 -> 0 .. lb] /\ by \in [0 .. L -> 0 .. lb]
  /\ ay[0] = 0 /\ by[0] = 0 /\ ax[L + 1] = la /\ bx[L + 1] = lb
Aligned(hunks, a, b, ax, ay, bx, by) ==
  /\ hunks \in Seq(Hunks)
  /\ Spots(Len(hunks), Len(a), Len(b), ax, ay, bx, by)
  /\ \A h \in 0 .. Len(hunks) : Gap(a, b, ay[h], ax[h + 1], by[h], bx[h + 1])
  /\ \A h \in 1 .. Len(hunks) :
       /\ HunkTakes(hunks[h], a, b, ax[h], ay[h], bx[h], by[h])
       /\ ax[h] > 0 => ax[h] < ay[h] /\ bx[h] < by[h]
       /\ h < Len(hunks) => ax[h] < ay[h] /\ ay[h] < ax[h + 1]

(* A line that stays moves both texts on.                                   *)
LEMMA StaysMoves ==
  ASSUME NEW a \in Seq(Lines), NEW b \in Seq(Lines), NEW ops, NEW o, NEW n,
         Diff(ops, a, b, o, n), NEW x \in 0 .. Len(ops), NEW c \in x + 1 .. Len(ops),
         NEW y \in c .. Len(ops), Stays(ops, c)
  PROVE  o[x] < o[y] /\ n[x] < n[y]
<1>1. /\ ops \in Seq(Ops) /\ Len(ops) \in Nat
      /\ \A k \in 0 .. Len(ops) : o[k] \in Nat /\ n[k] \in Nat
      /\ \A k \in 1 .. Len(ops) : Moves(ops[k], a, b, o[k - 1], n[k - 1], o[k], n[k])
  BY DiffParts
<1>2. /\ c \in 1 .. Len(ops) /\ c - 1 \in x .. Len(ops) /\ c - 1 \in 0 .. Len(ops)
      /\ c \in 0 .. Len(ops) /\ y \in 0 .. Len(ops)
  BY <1>1
<1>3. o[x] <= o[c - 1] /\ n[x] <= n[c - 1]
  <2>1. BodyHolds(SubSeq(ops, x + 1, c - 1), a, b, o, n, x, c - 1)
    BY <1>2, BodyTakes
  <2> QED BY <2>1 DEF BodyHolds, Slice
<1>4. o[c] <= o[y] /\ n[c] <= n[y]
  <2>1. BodyHolds(SubSeq(ops, c + 1, y), a, b, o, n, c, y)
    BY <1>2, BodyTakes
  <2> QED BY <2>1 DEF BodyHolds, Slice
<1>5. o[c] = o[c - 1] + 1 /\ n[c] = n[c - 1] + 1
  <2>1. Moves(ops[c], a, b, o[c - 1], n[c - 1], o[c], n[c])
    BY <1>1, <1>2
  <2> QED BY <2>1 DEF Moves, Stays
<1>6. /\ o[x] \in Nat /\ o[y] \in Nat /\ o[c] \in Nat /\ o[c - 1] \in Nat
      /\ n[x] \in Nat /\ n[y] \in Nat /\ n[c] \in Nat /\ n[c - 1] \in Nat
  BY <1>1, <1>2
<1>7. \A p, q, r, s \in Nat : p <= q /\ r = q + 1 /\ r <= s => p < s
  OBVIOUS
<1> QED BY <1>3, <1>4, <1>5, <1>6, <1>7

(* The hunks of the unified diff of any two texts, in order and apart from  *)
(* each other, stand where they say, take runs of lines of both texts, and  *)
(* between them the texts agree.                                            *)
THEOREM UnifiedAligned ==
  ASSUME NEW a \in Seq(Lines), NEW b \in Seq(Lines), NEW ops, NEW o, NEW n,
         Diff(ops, a, b, o, n)
  PROVE  \E ax, ay, bx, by : Aligned(UnifiedDiff(ops), a, b, ax, ay, bx, by)
<1> DEFINE opens == OpensOf(ops)  L == Len(opens)  N == Len(ops)  hunks == UnifiedDiff(ops)
<1>1. /\ ops \in Seq(Ops) /\ N \in Nat /\ Len(a) \in Nat /\ Len(b) \in Nat
      /\ o[0] = 0 /\ n[0] = 0 /\ o[N] = Len(a) /\ n[N] = Len(b)
      /\ \A k \in 0 .. N : o[k] \in 0 .. Len(a) /\ n[k] \in 0 .. Len(b)
  BY DiffParts
<1>2. PICK s, e : /\ Cuts(ops, L, s, e)
                  /\ \A h \in 1 .. L : s[h] + 1 = First(opens, h) /\ e[h] = Final(ops, opens, h)
  BY <1>1, CutsExist
<1>3. hunks = [h \in 1 .. L |-> Hunk(SubSeq(ops, s[h] + 1, e[h]))]
  <2>1. opens \in Seq(Nat)
    BY <1>1, OpensSorted DEF Sorted
  <2>2. DOMAIN opens = 1 .. L
    BY <2>1
  <2>3. hunks = [h \in DOMAIN opens |-> Hunk(SubSeq(ops, First(opens, h), Final(ops, opens, h)))]
    BY DEF UnifiedDiff, OpensOf
  <2> HIDE DEF opens, L, hunks
  <2> QED BY <1>2, <2>2, <2>3
<1> HIDE DEF opens, hunks, L, N
<1>4. /\ L \in Nat /\ e[0] = 0 /\ s[L + 1] = N
      /\ \A h \in 1 .. L + 1 : s[h] \in Nat
      /\ \A h \in 0 .. L : e[h] \in Nat
      /\ \A h \in 0 .. L : /\ e[h] <= s[h + 1] /\ s[h + 1] <= N
                           /\ \A c \in e[h] + 1 .. s[h + 1] : Stays(ops, c)
      /\ \A h \in 1 .. L : /\ s[h] < e[h] /\ e[h] <= N
                           /\ s[h] > 0 => Stays(ops, s[h] + 1)
      /\ \A h \in 1 .. L : h < L => e[h] < s[h + 1] /\ Stays(ops, e[h])
  BY <1>2 DEF Cuts, N
<1>5. /\ \A h \in 1 .. L + 1 : s[h] \in 0 .. N
      /\ \A h \in 0 .. L : e[h] \in 0 .. N
  <2>1. ASSUME NEW h \in 1 .. L + 1 PROVE s[h] \in 0 .. N
    <3>1. h - 1 \in 0 .. L /\ (h - 1) + 1 = h
      BY <1>4
    <3>2. s[h] <= N /\ s[h] \in Nat
      BY <1>4, <3>1
    <3> QED BY <1>1, <3>2
  <2>2. ASSUME NEW h \in 0 .. L PROVE e[h] \in 0 .. N
    <3>1. h + 1 \in 1 .. L + 1
      BY <1>4
    <3>2. e[h] <= s[h + 1] /\ s[h + 1] <= N /\ e[h] \in Nat /\ s[h + 1] \in Nat
      BY <1>4, <3>1
    <3> QED BY <1>1, <3>2
  <2> QED BY <2>1, <2>2
<1> DEFINE ax == [h \in 1 .. L + 1 |-> o[s[h]]]  ay == [h \in 0 .. L |-> o[e[h]]]
           bx == [h \in 1 .. L + 1 |-> n[s[h]]]  by == [h \in 0 .. L |-> n[e[h]]]
<1>6. /\ \A h \in 1 .. L + 1 : ax[h] = o[s[h]] /\ bx[h] = n[s[h]]
      /\ \A h \in 0 .. L : ay[h] = o[e[h]] /\ by[h] = n[e[h]]
  OBVIOUS
<1>7. Spots(L, Len(a), Len(b), ax, ay, bx, by)
  <2>1. /\ \A h \in 1 .. L + 1 : o[s[h]] \in 0 .. Len(a) /\ n[s[h]] \in 0 .. Len(b)
        /\ \A h \in 0 .. L : o[e[h]] \in 0 .. Len(a) /\ n[e[h]] \in 0 .. Len(b)
    BY <1>1, <1>5
  <2>2. /\ ax \in [1 .. L + 1 -> 0 .. Len(a)] /\ ay \in [0 .. L -> 0 .. Len(a)]
        /\ bx \in [1 .. L + 1 -> 0 .. Len(b)] /\ by \in [0 .. L -> 0 .. Len(b)]
    BY <2>1
  <2>3. L + 1 \in 1 .. L + 1 /\ 0 \in 0 .. L
    BY <1>4
  <2> HIDE DEF ax, ay, bx, by
  <2>4. ay[0] = 0 /\ by[0] = 0 /\ ax[L + 1] = Len(a) /\ bx[L + 1] = Len(b)
    BY <1>1, <1>4, <1>6, <2>3
  <2> QED BY <2>2, <2>4 DEF Spots
<1> HIDE DEF ax, ay, bx, by
<1>8. hunks \in [1 .. L -> Hunks]
      /\ \A h \in 1 .. L : HunkTakes(hunks[h], a, b, ax[h], ay[h], bx[h], by[h])
  <2>1. ASSUME NEW h \in 1 .. L
        PROVE  HunkTakes(Hunk(SubSeq(ops, s[h] + 1, e[h])), a, b, ax[h], ay[h], bx[h], by[h])
    <3>1. h \in 1 .. L + 1 /\ h \in 0 .. L
      BY <1>4
    <3>2. s[h] \in 0 .. Len(ops) /\ e[h] \in s[h] + 1 .. Len(ops)
      BY <1>1, <1>4, <1>5, <3>1 DEF N
    <3>3. s[h] > 0 => Stays(ops, s[h] + 1)
      BY <1>4
    <3>4. HunkTakes(Hunk(SubSeq(ops, s[h] + 1, e[h])), a, b, o[s[h]], o[e[h]], n[s[h]], n[e[h]])
      BY <3>2, <3>3, HunkTakesIs
    <3> QED BY <1>6, <3>1, <3>4
  <2>2. \A h \in 1 .. L : Hunk(SubSeq(ops, s[h] + 1, e[h])) \in Hunks
    BY <2>1 DEF HunkTakes
  <2>3. \A h \in 1 .. L : hunks[h] = Hunk(SubSeq(ops, s[h] + 1, e[h]))
    BY <1>3
  <2> QED BY <1>3, <2>1, <2>2, <2>3
<1>9. hunks \in Seq(Hunks) /\ Len(hunks) = L
  BY <1>4, <1>8
<1>10. ASSUME NEW h \in 0 .. L PROVE Gap(a, b, ay[h], ax[h + 1], by[h], bx[h + 1])
  <2>1. h + 1 \in 1 .. L + 1
    BY <1>4
  <2>2. e[h] \in 0 .. Len(ops) /\ s[h + 1] \in e[h] .. Len(ops)
    BY <1>1, <1>4, <1>5, <2>1 DEF N
  <2>3. Gap(a, b, o[e[h]], o[s[h + 1]], n[e[h]], n[s[h + 1]])
    BY <1>4, <2>2, StaysGap
  <2> QED BY <1>6, <2>1, <2>3
<1>11. ASSUME NEW h \in 1 .. L
       PROVE  /\ ax[h] > 0 => ax[h] < ay[h] /\ bx[h] < by[h]
              /\ h < L => ax[h] < ay[h] /\ ay[h] < ax[h + 1]
  <2>1. h \in 1 .. L + 1 /\ h \in 0 .. L /\ h + 1 \in 1 .. L + 1
    BY <1>4
  <2>2. s[h] \in 0 .. N /\ e[h] \in 0 .. N /\ s[h + 1] \in 0 .. N /\ s[h] < e[h] /\ N \in Nat
    BY <1>1, <1>4, <1>5, <2>1
  <2>3. ASSUME ax[h] > 0 PROVE ax[h] < ay[h] /\ bx[h] < by[h]
    <3>1. s[h] > 0
      <4>1. s[h] # 0
        BY <1>1, <1>6, <2>1, <2>3
      <4> QED BY <2>2, <4>1
    <3>2. Stays(ops, s[h] + 1)
      BY <1>4, <3>1
    <3>3. s[h] \in 0 .. Len(ops) /\ s[h] + 1 \in s[h] + 1 .. Len(ops) /\ e[h] \in s[h] + 1 .. Len(ops)
      BY <2>2 DEF N
    <3>4. o[s[h]] < o[e[h]] /\ n[s[h]] < n[e[h]]
      BY <3>2, <3>3, StaysMoves
    <3> QED BY <1>6, <2>1, <3>4
  <2>4. ASSUME h < L PROVE ax[h] < ay[h] /\ ay[h] < ax[h + 1]
    <3>1. e[h] < s[h + 1] /\ Stays(ops, e[h]) /\ Stays(ops, s[h + 1])
      <4>1. e[h] < s[h + 1] /\ Stays(ops, e[h])
        BY <1>4, <2>4
      <4>2. s[h + 1] \in e[h] + 1 .. s[h + 1]
        BY <2>2, <4>1
      <4> QED BY <1>4, <2>1, <4>1, <4>2
    <3>2. s[h] \in 0 .. Len(ops) /\ e[h] \in s[h] + 1 .. Len(ops) /\ e[h] \in e[h] .. Len(ops)
      BY <2>2 DEF N
    <3>3. o[s[h]] < o[e[h]]
      BY <3>1, <3>2, StaysMoves
    <3>4. e[h] \in 0 .. Len(ops) /\ s[h + 1] \in e[h] + 1 .. Len(ops) /\ s[h + 1] \in s[h + 1] .. Len(ops)
      BY <2>2, <3>1 DEF N
    <3>5. o[e[h]] < o[s[h + 1]]
      BY <3>1, <3>4, StaysMoves
    <3> QED BY <1>6, <2>1, <3>3, <3>5
  <2> QED BY <2>3, <2>4
<1>12. Aligned(hunks, a, b, ax, ay, bx, by)
  BY <1>7, <1>8, <1>9, <1>10, <1>11 DEF Aligned
<1> QED BY <1>12 DEF hunks

-----------------------------------------------------------------------------
(* What the parser leaves of a hunk still takes lines of the text before    *)
(* from the place the hunk names, if fewer.                                 *)
LEMMA SideEmpty ==
  ASSUME NEW kind \in {"-", "+"}
  PROVE  Side(<< >>, kind) = << >>
<1>1. << >> \in Seq(Ops) /\ Len(<< >>) = 0
  OBVIOUS
<1>2. PICK f : Takes(<< >>, kind, f)
  BY <1>1, SideSteps
<1> QED BY <1>1, <1>2 DEF Takes

(* What is above a header is a beginning of the hunk.                       *)
LEMMA UptoIs ==
  ASSUME NEW ops \in Seq(Ops)
  PROVE  \E c \in 0 .. Len(ops) : Upto(ops) = SubSeq(ops, 1, c)
<1>1. Len(ops) \in Nat /\ DOMAIN ops = 1 .. Len(ops)
  OBVIOUS
<1>2. Heads(ops) \subseteq 1 .. Len(ops)
  BY <1>1 DEF Heads
<1>3. CASE Heads(ops) = {}
  <2>1. SubSeq(ops, 1, Len(ops)) = ops
    <3>1. 0 \in 0 .. Len(ops) /\ Len(ops) \in 0 .. Len(ops) /\ Len(ops) - 0 = Len(ops) /\ 0 + 1 = 1
      BY <1>1
    <3> DEFINE same == SubSeq(ops, 0 + 1, Len(ops))
    <3>2. /\ same \in Seq(Ops) /\ Len(same) = Len(ops) - 0
          /\ \A k \in 1 .. Len(ops) - 0 : same[k] = ops[0 + k]
      BY <3>1, BodyIs
    <3> HIDE DEF same
    <3>3. \A k \in 1 .. Len(ops) : 0 + k = k
      BY <1>1
    <3>4. same = ops
      BY <3>1, <3>2, <3>3, SameSeq
    <3> QED BY <3>1, <3>4 DEF same
  <2>2. Upto(ops) = SubSeq(ops, 1, Len(ops))
    BY <1>3, <2>1 DEF Upto
  <2>3. Len(ops) \in 0 .. Len(ops)
    BY <1>1
  <2> QED BY <2>2, <2>3
<1>4. CASE Heads(ops) # {}
  <2>1. Lowest(Heads(ops)) \in Heads(ops)
    <3>1. Heads(ops) \subseteq Nat
      BY <1>1, <1>2
    <3> QED BY <1>4, <3>1, LowestIs
  <2>2. Lowest(Heads(ops)) - 1 \in 0 .. Len(ops)
    BY <1>1, <1>2, <2>1
  <2> QED BY <1>4, <2>2 DEF Upto
<1> QED BY <1>3, <1>4

Sits(hunks, a, ax) ==
  /\ hunks \in Seq(Hunks) /\ ax \in [1 .. Len(hunks) + 1 -> 0 .. Len(a)]
  /\ \A h \in 1 .. Len(hunks) :
       /\ hunks[h].at = ax[h] + 1
       /\ \E z \in ax[h] .. ax[h + 1] : Slice(Old(hunks[h]), a, ax[h], z)

(* However much of a diff is taken for headers, the hunks that are left     *)
(* have lines of the text before, at the place they name.                   *)
LEMMA ParsedSits ==
  ASSUME NEW a \in Seq(Lines), NEW b \in Seq(Lines), NEW hunks, NEW ax, NEW ay, NEW bx, NEW by,
         Aligned(hunks, a, b, ax, ay, bx, by)
  PROVE  \E places : Sits(ParseUnified(hunks), a, places)
<1> DEFINE L == Len(hunks)
           cut == Cut(hunks)
           last == IF cut = {} THEN L ELSE Lowest(cut)
           places == [h \in 1 .. last + 1 |-> ax[h]]
           kept == [h \in 1 .. last |-> [at |-> hunks[h].at, ops |-> Upto(hunks[h].ops)]]
<1>1. /\ hunks \in Seq(Hunks) /\ L \in Nat /\ DOMAIN hunks = 1 .. L /\ Len(a) \in Nat
      /\ \A h \in 1 .. L : hunks[h] \in Hunks
  BY DEF Aligned
<1>2. /\ ax \in [1 .. L + 1 -> 0 .. Len(a)] /\ ay \in [0 .. L -> 0 .. Len(a)]
      /\ \A h \in 0 .. L : Gap(a, b, ay[h], ax[h + 1], by[h], bx[h + 1])
      /\ \A h \in 1 .. L : HunkTakes(hunks[h], a, b, ax[h], ay[h], bx[h], by[h])
  BY DEF Aligned, Spots
<1>3. last \in 0 .. L
  <2>1. CASE cut = {}
    BY <1>1, <2>1
  <2>2. CASE cut # {}
    <3>1. cut \subseteq 1 .. L /\ cut \subseteq Nat
      BY <1>1 DEF Cut
    <3> HIDE DEF cut, L
    <3>2. Lowest(cut) \in cut
      BY <2>2, <3>1, LowestIs
    <3>3. last = Lowest(cut)
      BY <2>2
    <3> HIDE DEF last
    <3>4. \A k \in 1 .. L : k \in 0 .. L
      BY <1>1
    <3> QED BY <3>1, <3>2, <3>3, <3>4
  <2> QED BY <2>1, <2>2
<1>4. ParseUnified(hunks) = kept
  BY DEF ParseUnified
<1> HIDE DEF last, L
<1>5. ASSUME NEW h \in 1 .. last
      PROVE  /\ kept[h] \in Hunks /\ kept[h].at = ax[h] + 1
             /\ \E z \in ax[h] .. ax[h + 1] : Slice(Old(kept[h]), a, ax[h], z)
  <2> DEFINE ops == hunks[h].ops
  <2>1. h \in 1 .. L /\ h \in 0 .. L /\ h \in 1 .. L + 1 /\ h + 1 \in 1 .. L + 1
    BY <1>1, <1>3
  <2>2. HunkTakes(hunks[h], a, b, ax[h], ay[h], bx[h], by[h])
    BY <1>2, <2>1
  <2>3. /\ ops \in Seq(Ops) /\ hunks[h].at \in Nat /\ hunks[h].at = ax[h] + 1
        /\ \A c \in 0 .. Len(ops) :
             \E z \in ax[h] .. ay[h] : Slice(Side(SubSeq(ops, 1, c), "-"), a, ax[h], z)
    BY <2>2 DEF HunkTakes, Hunks
  <2>4. kept[h] = [at |-> hunks[h].at, ops |-> Upto(ops)]
    OBVIOUS
  <2> HIDE DEF ops, kept
  <2>5. PICK c \in 0 .. Len(ops) : Upto(ops) = SubSeq(ops, 1, c)
    BY <2>3, UptoIs
  <2>6. PICK z \in ax[h] .. ay[h] : Slice(Side(Upto(ops), "-"), a, ax[h], z)
    BY <2>3, <2>5
  <2>7. Upto(ops) \in Seq(Ops)
    <3>1. 0 \in 0 .. Len(ops) /\ c \in 0 .. Len(ops) /\ 0 + 1 = 1
      BY <2>3
    <3>2. SubSeq(ops, 0 + 1, c) \in Seq(Ops)
      BY <2>3, <3>1, BodyIs
    <3> QED BY <2>5, <3>1, <3>2
  <2>8. kept[h].at = hunks[h].at /\ kept[h].ops = Upto(ops)
    BY <2>4
  <2>9. kept[h] \in Hunks
    <3>1. [at |-> hunks[h].at, ops |-> Upto(ops)] \in Hunks
      BY <2>3, <2>7 DEF Hunks
    <3> QED BY <2>4, <3>1
  <2>10. Slice(Old(kept[h]), a, ax[h], z)
    BY <2>6, <2>8 DEF Old
  <2>11. z \in ax[h] .. ax[h + 1]
    <3>1. ay[h] <= ax[h + 1] /\ ay[h] \in Nat /\ ax[h + 1] \in Nat
      <4>1. Gap(a, b, ay[h], ax[h + 1], by[h], bx[h + 1])
        BY <1>2, <2>1
      <4> QED BY <4>1 DEF Gap
    <3>2. ax[h] \in Nat
      BY <1>1, <1>2, <2>1
    <3> QED BY <3>1, <3>2
  <2> QED BY <2>3, <2>8, <2>9, <2>10, <2>11
<1>6. kept \in Seq(Hunks) /\ Len(kept) = last
  <2>1. last \in Nat
    BY <1>1, <1>3
  <2>2. kept \in [1 .. last -> Hunks]
    <3>1. \A h \in 1 .. last : kept[h] \in Hunks
      BY <1>5
    <3>2. DOMAIN kept = 1 .. last
      OBVIOUS
    <3>3. kept = [h \in 1 .. last |-> kept[h]]
      OBVIOUS
    <3> HIDE DEF kept
    <3> QED BY <3>1, <3>3
  <2> HIDE DEF kept
  <2> QED BY <2>1, <2>2
<1> HIDE DEF kept
<1>7. /\ places \in [1 .. last + 1 -> 0 .. Len(a)]
      /\ \A h \in 1 .. last : places[h] = ax[h] /\ places[h + 1] = ax[h + 1]
  <2>1. \A h \in 1 .. last + 1 : h \in 1 .. L + 1
    BY <1>1, <1>3
  <2>2. \A h \in 1 .. last : h \in 1 .. last + 1 /\ h + 1 \in 1 .. last + 1
    BY <1>1, <1>3
  <2> QED BY <1>2, <2>1, <2>2
<1> HIDE DEF places
<1>8. Sits(kept, a, places)
  BY <1>5, <1>6, <1>7 DEF Sits
<1> QED BY <1>4, <1>8

-----------------------------------------------------------------------------
(* Texts, and what a splice makes of one.                                   *)
LEMMA PartIs ==
  ASSUME NEW X, NEW s \in Seq(X), NEW x \in 0 .. Len(s), NEW y \in x .. Len(s)
  PROVE  /\ SubSeq(s, x + 1, y) \in Seq(X) /\ Len(SubSeq(s, x + 1, y)) = y - x
         /\ \A k \in 1 .. y - x : SubSeq(s, x + 1, y)[k] = s[x + k]
<1>1. Len(s) \in Nat /\ x + 1 \in 1 .. Len(s) + 1 /\ y \in 0 .. Len(s)
  OBVIOUS
<1> QED BY <1>1

PartOf(X, s, x, y, t) ==
  t \in Seq(X) /\ Len(t) = y - x /\ \A k \in 1 .. y - x : t[k] = s[x + k]

LEMMA FirstPart ==
  ASSUME NEW X, NEW s \in Seq(X), NEW y \in 0 .. Len(s)
  PROVE  PartOf(X, s, 0, y, SubSeq(s, 1, y))
<1>1. 0 \in 0 .. Len(s) /\ 0 + 1 = 1
  OBVIOUS
<1>2. PartOf(X, s, 0, y, SubSeq(s, 0 + 1, y))
  BY <1>1, PartIs DEF PartOf
<1> QED BY <1>1, <1>2

LEMMA LastPart ==
  ASSUME NEW X, NEW s \in Seq(X), NEW x \in 0 .. Len(s)
  PROVE  PartOf(X, s, x, Len(s), SubSeq(s, x + 1, Len(s)))
<1>1. Len(s) \in x .. Len(s)
  OBVIOUS
<1> QED BY <1>1, PartIs DEF PartOf

Spliced(ls, i, old, new, out) ==
  /\ out \in Seq(Lines) /\ Len(out) = (Len(ls) - Len(old)) + Len(new)
  /\ \A k \in 1 .. i : out[k] = ls[k]
  /\ \A k \in 1 .. Len(new) : out[i + k] = new[k]
  /\ \A k \in 1 .. Len(ls) - (i + Len(old)) : out[(i + Len(new)) + k] = ls[(i + Len(old)) + k]

(* Lines replaced in others, place by place.                                *)
LEMMA SpliceIs ==
  ASSUME NEW ls \in Seq(Lines), NEW old \in Seq(Lines), NEW new \in Seq(Lines),
         NEW i \in 0 .. Len(ls) - Len(old)
  PROVE  Spliced(ls, i, old, new, Splice(ls, i, old, new))
<1> DEFINE x == i + Len(old)
           head == SubSeq(ls, 1, i)  tail == SubSeq(ls, x + 1, Len(ls))
           front == head \o new  out == front \o tail
<1>1. /\ Len(ls) \in Nat /\ Len(old) \in Nat /\ Len(new) \in Nat /\ i \in Nat
      /\ i \in 0 .. Len(ls) /\ x \in 0 .. Len(ls) /\ x \in Nat
  OBVIOUS
<1>2. head \in Seq(Lines) /\ Len(head) = i /\ \A k \in 1 .. i : head[k] = ls[k]
  <2>1. PartOf(Lines, ls, 0, i, head)
    BY <1>1, FirstPart
  <2>2. i - 0 = i /\ \A k \in 1 .. i : 0 + k = k
    BY <1>1
  <2> QED BY <2>1, <2>2 DEF PartOf
<1>3. /\ tail \in Seq(Lines) /\ Len(tail) = Len(ls) - x
      /\ \A k \in 1 .. Len(ls) - x : tail[k] = ls[x + k]
  <2>1. PartOf(Lines, ls, x, Len(ls), tail)
    BY <1>1, LastPart
  <2> QED BY <2>1 DEF PartOf
<1>4. Splice(ls, i, old, new) = out
  BY DEF Splice
<1> HIDE DEF head, tail
<1>5. /\ front \in Seq(Lines) /\ Len(front) = i + Len(new)
      /\ \A k \in 1 .. i + Len(new) : front[k] = IF k <= i THEN head[k] ELSE new[k - i]
  <2>1. Together(Lines, head, new, front)
    BY <1>2, ConcatIs
  <2> QED BY <1>2, <2>1 DEF Together
<1> HIDE DEF front
<1>6. /\ out \in Seq(Lines) /\ Len(out) = Len(front) + Len(tail)
      /\ \A k \in 1 .. Len(front) + Len(tail) :
           out[k] = IF k <= Len(front) THEN front[k] ELSE tail[k - Len(front)]
  <2>1. Together(Lines, front, tail, out)
    BY <1>3, <1>5, ConcatIs
  <2> QED BY <2>1 DEF Together
<1> HIDE DEF out
<1> DEFINE y == i + Len(new)  m == Len(ls) - x
<1>7. y \in Nat /\ m \in Nat /\ Len(front) = y /\ Len(tail) = m
  BY <1>1, <1>3, <1>5
<1>8. Len(out) = (Len(ls) - Len(old)) + Len(new)
  BY <1>1, <1>6, <1>7
<1>9. ASSUME NEW k \in 1 .. i PROVE out[k] = ls[k]
  <2>1. k \in 1 .. y + m /\ k <= y /\ k \in 1 .. i + Len(new) /\ k <= i
    BY <1>1, <1>7
  <2> QED BY <1>2, <1>5, <1>6, <1>7, <2>1
<1>10. ASSUME NEW k \in 1 .. Len(new) PROVE out[i + k] = new[k]
  <2>1. /\ i + k \in 1 .. y + m /\ i + k <= y /\ i + k \in 1 .. i + Len(new)
        /\ ~(i + k <= i) /\ (i + k) - i = k
    BY <1>1, <1>7
  <2> QED BY <1>5, <1>6, <1>7, <2>1
<1>11. ASSUME NEW k \in 1 .. Len(ls) - x PROVE out[y + k] = ls[x + k]
  <2>1. y + k \in 1 .. y + m /\ ~(y + k <= y) /\ (y + k) - y = k
    BY <1>1, <1>7
  <2> QED BY <1>3, <1>6, <1>7, <2>1
<1> QED BY <1>4, <1>6, <1>8, <1>9, <1>10, <1>11 DEF Spliced

LEMMA EditIs ==
  ASSUME NEW e \in Edits
  PROVE  /\ e.before \in Seq(Lines) /\ Len(e.before) \in Nat \ {0}
         /\ e.after \in Seq(Lines) /\ Len(e.after) \in Nat \ {0} /\ e.before # e.after
<1>1. e.before \in Text /\ e.after \in Text /\ e.before # e.after
  BY EditsAssumption
<1>2. \A t \in Text : t \in Seq(Lines) /\ Len(t) \in Nat \ {0}
  <2>1. SUFFICES ASSUME NEW t \in Text PROVE t \in Seq(Lines) /\ Len(t) \in Nat \ {0}
    OBVIOUS
  <2>2. t \in Seq(Lines) /\ t # << >>
    BY DEF Text
  <2> QED BY <2>2
<1> QED BY <1>1, <1>2

(* The lines of a text, each turned into another.                           *)
LEMMA ThroughIs ==
  ASSUME NEW f \in [Lines -> Lines], NEW t \in Seq(Lines)
  PROVE  /\ Through(f, t) \in Seq(Lines) /\ Len(Through(f, t)) = Len(t)
         /\ \A k \in 1 .. Len(t) : Through(f, t)[k] = f[t[k]]
<1> DEFINE n == Len(t)
<1>1. n \in Nat /\ DOMAIN t = 1 .. n /\ \A k \in 1 .. n : t[k] \in Lines
  OBVIOUS
<1>2. Through(f, t) = [k \in 1 .. n |-> f[t[k]]]
  BY <1>1 DEF Through
<1> HIDE DEF n
<1>3. \A k \in 1 .. n : f[t[k]] \in Lines
  BY <1>1
<1>4. [k \in 1 .. n |-> f[t[k]]] \in Seq(Lines)
  BY <1>1, <1>3
<1>5. Len([k \in 1 .. n |-> f[t[k]]]) = n
  BY <1>1
<1> QED BY <1>2, <1>4, <1>5 DEF n

LEMMA UnixIs ==
  ASSUME NEW t \in Seq(Lines)
  PROVE  /\ Unix(t) \in Seq(Lines) /\ Len(Unix(t)) = Len(t)
         /\ \A k \in 1 .. Len(t) : Unix(t)[k] = Chop[t[k]]
<1>1. Chop \in [Lines -> Lines]
  BY LinesAssumption
<1> QED BY <1>1, ThroughIs DEF Unix

LEMMA UnendedIs ==
  ASSUME NEW t \in Seq(Lines), Len(t) \in Nat \ {0}
  PROVE  /\ Unended(t) \in Seq(Lines) /\ WithoutLast(t) \in Seq(Lines)
         /\ Len(WithoutLast(t)) = Len(t) - 1
         /\ Len(Unended(t)) = IF EndsLine(t) THEN Len(t) - 1 ELSE Len(t)
         /\ \A k \in 1 .. Len(t) - 1 : WithoutLast(t)[k] = t[k]
         /\ \A k \in 1 .. Len(Unended(t)) : Unended(t)[k] = t[k]
<1> DEFINE cut == WithoutLast(t)
<1>1. cut \in Seq(Lines) /\ Len(cut) = Len(t) - 1 /\ \A k \in 1 .. Len(t) - 1 : cut[k] = t[k]
  <2>1. Len(t) - 1 \in 0 .. Len(t)
    OBVIOUS
  <2>2. PartOf(Lines, t, 0, Len(t) - 1, SubSeq(t, 1, Len(t) - 1))
    BY <2>1, FirstPart
  <2>3. (Len(t) - 1) - 0 = Len(t) - 1 /\ \A k \in 1 .. Len(t) - 1 : 0 + k = k
    OBVIOUS
  <2> QED BY <2>2, <2>3 DEF PartOf, WithoutLast
<1> HIDE DEF cut
<1>2. Unended(t) = IF EndsLine(t) THEN cut ELSE t
  BY DEF Unended, cut
<1> QED BY <1>1, <1>2 DEF cut

LEMMA CappedIs ==
  ASSUME NEW t \in Seq(Lines)
  PROVE  /\ Capped(t) \in Seq(Lines) /\ Len(Capped(t)) <= Len(t)
         /\ \A k \in 1 .. Len(Capped(t)) : Capped(t)[k] = t[k]
         /\ Len(t) <= MaxLines => Capped(t) = t
<1> DEFINE n == IF Len(t) > MaxLines THEN MaxLines ELSE Len(t)  u == Capped(t)
<1>1. n \in 0 .. Len(t) /\ n - 0 = n /\ Len(t) \in Nat /\ \A k \in 1 .. n : 0 + k = k
  BY DriftAssumption
<1>2. u = SubSeq(t, 1, n)
  BY DEF Capped
<1>3. Len(t) <= MaxLines => n = Len(t)
  BY DriftAssumption
<1> HIDE DEF n, u
<1>4. PartOf(Lines, t, 0, n, u)
  BY <1>1, <1>2, FirstPart
<1>5. u \in Seq(Lines) /\ Len(u) = n /\ \A k \in 1 .. n : u[k] = t[k]
  BY <1>1, <1>4 DEF PartOf
<1>6. n <= Len(t)
  BY <1>1
<1>7. n = Len(t) => u = t
  BY <1>5, SameSeq
<1> QED BY <1>3, <1>5, <1>6, <1>7 DEF u

(* The lines of a text, as they are compared and as they are patched.       *)
LEMMA ToLinesIs ==
  ASSUME NEW t \in Seq(Lines), Len(t) \in Nat \ {0}
  PROVE  /\ ToLines(t) \in Seq(Lines) /\ SplitLines(t) \in Seq(Lines)
         /\ Len(SplitLines(t)) = IF EndsNewline(t) THEN Len(t) - 1 ELSE Len(t)
         /\ Len(ToLines(t)) <= Len(t) /\ Len(ToLines(t)) <= Len(SplitLines(t))
         /\ \A k \in 1 .. Len(ToLines(t)) : ToLines(t)[k] = Bare[t[k]]
         /\ \A k \in 1 .. Len(SplitLines(t)) : SplitLines(t)[k] = Chop[t[k]]
<1> DEFINE bare == Through(Bare, t)  un == Unended(bare)  a == ToLines(t)  n == Len(t)
           cut == IF EndsNewline(t) THEN WithoutLast(t) ELSE t  ls == SplitLines(t)
<1>1. Bare \in [Lines -> Lines] /\ Bare[Blank] = Blank
  BY LinesAssumption
<1>2. bare \in Seq(Lines) /\ Len(bare) = n /\ \A k \in 1 .. n : bare[k] = Bare[t[k]]
  BY <1>1, ThroughIs
<1>3. n \in Nat \ {0} /\ n \in 1 .. n
  OBVIOUS
<1> HIDE DEF bare, n
<1>4. /\ un \in Seq(Lines) /\ Len(un) = IF EndsLine(bare) THEN n - 1 ELSE n
      /\ \A k \in 1 .. Len(un) : un[k] = bare[k]
  BY <1>2, <1>3, UnendedIs
<1>5. a = Capped(un)
  BY DEF ToLines, bare
<1> HIDE DEF un, a
<1>6. /\ a \in Seq(Lines) /\ Len(a) <= Len(un)
      /\ \A k \in 1 .. Len(a) : a[k] = un[k]
  BY <1>4, <1>5, CappedIs
<1>7. Len(a) \in Nat /\ Len(un) <= n
  BY <1>3, <1>4, <1>6
<1>8. ASSUME NEW k \in 1 .. Len(a) PROVE a[k] = Bare[t[k]]
  <2>1. k \in 1 .. Len(un) /\ k \in 1 .. n
    BY <1>3, <1>4, <1>6, <1>7
  <2> QED BY <1>2, <1>4, <1>6, <2>1
<1>9. /\ cut \in Seq(Lines) /\ Len(cut) = IF EndsNewline(t) THEN n - 1 ELSE n
      /\ \A k \in 1 .. Len(cut) : cut[k] = t[k]
  BY <1>3, UnendedIs DEF n
<1>10. EndsNewline(t) => EndsLine(bare)
  <2>1. EndsNewline(t) => t[n] = Blank
    BY DEF EndsNewline, EndsLine, n
  <2> QED BY <1>1, <1>2, <1>3, <2>1 DEF EndsLine
<1>11. ls = Unix(cut)
  BY DEF SplitLines
<1> HIDE DEF cut, ls
<1>12. /\ ls \in Seq(Lines) /\ Len(ls) = Len(cut)
       /\ \A k \in 1 .. Len(ls) : ls[k] = Chop[cut[k]]
  BY <1>9, <1>11, UnixIs
<1>13. \A k \in 1 .. Len(ls) : ls[k] = Chop[t[k]]
  BY <1>9, <1>12
<1>14. Len(a) <= n /\ Len(a) <= Len(ls)
  BY <1>3, <1>4, <1>6, <1>7, <1>9, <1>10, <1>12
<1> QED BY <1>6, <1>8, <1>9, <1>12, <1>13, <1>14 DEF a, ls, n

(* Nothing is lost of a straight and short text but the carriage returns at *)
(* the ends of its lines.                                                   *)
LEMMA PlainLines ==
  ASSUME NEW t \in Seq(Lines), Len(t) \in Nat \ {0}, Straight(t), Short(t)
  PROVE  /\ Unix(t) \in Seq(Lines) /\ Len(Unix(t)) = Len(t)
         /\ ToLines(t) = Unended(Unix(t)) /\ ToLines(t) \in Seq(Lines)
         /\ Len(ToLines(t)) = IF EndsLine(Unix(t)) THEN Len(t) - 1 ELSE Len(t)
         /\ \A k \in 1 .. Len(ToLines(t)) : ToLines(t)[k] = Unix(t)[k]
         /\ Unix(ToLines(t)) = ToLines(t)
<1> DEFINE u == Unix(t)  bare == Through(Bare, t)  a == ToLines(t)  n == Len(t)
<1>1. Bare \in [Lines -> Lines] /\ \A l \in Lines : Chop[Bare[l]] = Bare[l]
  BY LinesAssumption
<1>2. bare \in Seq(Lines) /\ Len(bare) = n /\ \A k \in 1 .. n : bare[k] = Bare[t[k]]
  BY <1>1, ThroughIs
<1>3. u \in Seq(Lines) /\ Len(u) = n /\ \A k \in 1 .. n : u[k] = Chop[t[k]]
  BY UnixIs
<1>4. n \in Nat \ {0} /\ \A k \in 1 .. n : Bare[t[k]] = Chop[t[k]] /\ t[k] \in Lines
  <2>1. DOMAIN t = 1 .. n
    OBVIOUS
  <2> QED BY <2>1 DEF Straight
<1>5. Len(Unended(bare)) <= MaxLines
  BY DEF Short
<1>6. a = Capped(Unended(bare))
  BY DEF ToLines
<1> HIDE DEF u, bare, a, n
<1>7. bare = u
  BY <1>2, <1>3, <1>4, SameSeq
<1>8. /\ Unended(u) \in Seq(Lines) /\ Len(Unended(u)) = IF EndsLine(u) THEN n - 1 ELSE n
      /\ \A k \in 1 .. Len(Unended(u)) : Unended(u)[k] = u[k]
  BY <1>3, <1>4, UnendedIs
<1>9. a = Unended(u)
  BY <1>5, <1>6, <1>7, <1>8, CappedIs
<1>10. Unix(a) = a
  <2>1. a \in Seq(Lines)
    BY <1>8, <1>9
  <2>2. Unix(a) \in Seq(Lines) /\ Len(Unix(a)) = Len(a) /\ \A k \in 1 .. Len(a) : Unix(a)[k] = Chop[a[k]]
    BY <2>1, UnixIs
  <2>3. ASSUME NEW k \in 1 .. Len(a) PROVE Unix(a)[k] = a[k]
    <3>1. k \in 1 .. n
      BY <1>4, <1>8, <1>9
    <3>2. a[k] = Bare[t[k]] /\ t[k] \in Lines
      BY <1>3, <1>4, <1>8, <1>9, <3>1
    <3> QED BY <1>1, <2>2, <3>2
  <2> QED BY <2>1, <2>2, <2>3, SameSeq
<1> QED BY <1>3, <1>8, <1>9, <1>10 DEF u, a, n

(* Something put on top of a text without its first lines.                  *)
Put(top, t) == top \o SubSeq(t, dropped + 1, Len(t))
LEMMA PutIs ==
  ASSUME NEW top \in Seq(Lines), NEW t \in Seq(Lines), dropped \in 0 .. Len(t)
  PROVE  /\ Put(top, t) \in Seq(Lines)
         /\ Len(Put(top, t)) = Len(top) + (Len(t) - dropped)
         /\ \A k \in 1 .. Len(top) : Put(top, t)[k] = top[k]
         /\ \A k \in 1 .. Len(t) - dropped : Put(top, t)[Len(top) + k] = t[dropped + k]
<1> DEFINE rest == SubSeq(t, dropped + 1, Len(t))  out == top \o rest
<1>1. /\ rest \in Seq(Lines) /\ Len(rest) = Len(t) - dropped
      /\ \A k \in 1 .. Len(t) - dropped : rest[k] = t[dropped + k]
  <2>1. PartOf(Lines, t, dropped, Len(t), rest)
    BY LastPart
  <2> QED BY <2>1 DEF PartOf
<1>2. Put(top, t) = out
  BY DEF Put
<1> HIDE DEF rest
<1>3. /\ out \in Seq(Lines) /\ Len(out) = Len(top) + Len(rest)
      /\ \A k \in 1 .. Len(top) + Len(rest) :
           out[k] = IF k <= Len(top) THEN top[k] ELSE rest[k - Len(top)]
  <2>1. Together(Lines, top, rest, out)
    BY <1>1, ConcatIs
  <2> QED BY <2>1 DEF Together
<1> HIDE DEF out
<1>4. Len(top) \in Nat /\ Len(t) - dropped \in Nat
  OBVIOUS
<1>5. ASSUME NEW k \in 1 .. Len(top) PROVE out[k] = top[k]
  <2>1. k \in 1 .. Len(top) + Len(rest) /\ k <= Len(top)
    BY <1>1, <1>4
  <2> QED BY <1>3, <2>1
<1>6. ASSUME NEW k \in 1 .. Len(t) - dropped PROVE out[Len(top) + k] = t[dropped + k]
  <2>1. /\ Len(top) + k \in 1 .. Len(top) + Len(rest) /\ ~(Len(top) + k <= Len(top))
        /\ (Len(top) + k) - Len(top) = k
    BY <1>1, <1>4
  <2> QED BY <1>1, <1>3, <2>1
<1> QED BY <1>1, <1>2, <1>3, <1>5, <1>6

(* Two sequences that begin with the same and go on with the same.          *)
Agree(s, t, m, n) ==
  /\ s \in Seq(Lines) /\ t \in Seq(Lines) /\ m \in Nat /\ n \in Nat
  /\ Len(s) = m + n /\ Len(t) = m + n
  /\ \A k \in 1 .. m : s[k] = t[k]
  /\ \A k \in 1 .. n : s[m + k] = t[m + k]
LEMMA SameParts == ASSUME NEW s, NEW t, NEW m, NEW n, Agree(s, t, m, n) PROVE s = t
<1> USE DEF Agree
<1>1. ASSUME NEW k \in 1 .. Len(s) PROVE s[k] = t[k]
  <2>1. CASE k <= m
    <3>1. k \in 1 .. m
      BY <2>1
    <3> QED BY <3>1
  <2>2. CASE ~(k <= m)
    <3>1. k - m \in 1 .. n /\ m + (k - m) = k
      BY <2>2
    <3> QED BY <3>1
  <2> QED BY <2>1, <2>2
<1> QED BY <1>1, SameSeq

(* What the other program leaves of a text, and of its lines.               *)
LEMMA DriftedIs ==
  ASSUME NEW t \in Seq(Lines), above \in Seq(Lines), dropped \in 0 .. Len(t)
  PROVE  /\ AfterDrift(t) \in Seq(Lines)
         /\ Len(AfterDrift(t)) = Len(above) + (Len(t) - dropped)
         /\ \A k \in 1 .. Len(above) : AfterDrift(t)[k] = above[k]
         /\ \A k \in 1 .. Len(t) - dropped : AfterDrift(t)[Len(above) + k] = t[dropped + k]
<1> DEFINE s == Put(above, t)
<1>1. AfterDrift(t) = s
  BY DEF AfterDrift, Put
<1>2. /\ s \in Seq(Lines) /\ Len(s) = Len(above) + (Len(t) - dropped)
      /\ \A k \in 1 .. Len(above) : s[k] = above[k]
      /\ \A k \in 1 .. Len(t) - dropped : s[Len(above) + k] = t[dropped + k]
  BY PutIs
<1> HIDE DEF s
<1> QED BY <1>1, <1>2

LEMMA UnixDrift ==
  ASSUME NEW t \in Seq(Lines), above \in Seq(Lines), dropped \in 0 .. Len(t)
  PROVE  Unix(AfterDrift(t)) = Put(Unix(above), Unix(t))
<1> DEFINE s == AfterDrift(t)  u == Unix(s)  top == Unix(above)  v == Unix(t)  p == Put(top, v)
           m == Len(above)  n == Len(t) - dropped
<1>1. /\ s \in Seq(Lines) /\ Len(s) = m + n /\ m \in Nat /\ n \in Nat
      /\ \A k \in 1 .. m : s[k] = above[k]
      /\ \A k \in 1 .. n : s[m + k] = t[dropped + k]
  <2>1. Len(above) \in Nat /\ Len(t) - dropped \in Nat
    OBVIOUS
  <2> HIDE DEF s
  <2>2. /\ s \in Seq(Lines) /\ Len(s) = Len(above) + (Len(t) - dropped)
        /\ \A k \in 1 .. Len(above) : s[k] = above[k]
        /\ \A k \in 1 .. Len(t) - dropped : s[Len(above) + k] = t[dropped + k]
    BY DriftedIs, Zenon DEF s
  <2> QED BY <2>1, <2>2
<1>2. /\ top \in Seq(Lines) /\ Len(top) = m /\ \A k \in 1 .. m : top[k] = Chop[above[k]]
      /\ v \in Seq(Lines) /\ Len(v) = Len(t) /\ \A k \in 1 .. Len(t) : v[k] = Chop[t[k]]
  BY UnixIs
<1>3. \A k \in 1 .. n : dropped + k \in 1 .. Len(t)
  OBVIOUS
<1>4. dropped \in 0 .. Len(v)
  BY <1>2
<1> HIDE DEF s, top, v
<1>5. u \in Seq(Lines) /\ Len(u) = m + n /\ \A k \in 1 .. m + n : u[k] = Chop[s[k]]
  BY <1>1, UnixIs
<1>6. /\ p \in Seq(Lines) /\ Len(p) = m + n
      /\ \A k \in 1 .. m : p[k] = top[k]
      /\ \A k \in 1 .. n : p[m + k] = v[dropped + k]
  <2>1. /\ p \in Seq(Lines) /\ Len(p) = Len(top) + (Len(v) - dropped)
        /\ \A k \in 1 .. Len(top) : p[k] = top[k]
        /\ \A k \in 1 .. Len(v) - dropped : p[Len(top) + k] = v[dropped + k]
    BY <1>2, <1>4, PutIs
  <2> HIDE DEF p
  <2>2. Len(top) = m /\ Len(v) - dropped = n
    BY <1>2
  <2> HIDE DEF m, n
  <2> QED BY <2>1, <2>2
<1> HIDE DEF u, p, m, n
<1>7. \A k \in 1 .. m : k \in 1 .. m + n
  BY <1>1
<1>8. \A k \in 1 .. n : m + k \in 1 .. m + n
  BY <1>1
<1>9. \A k \in 1 .. m : u[k] = p[k]
  BY <1>1, <1>2, <1>5, <1>6, <1>7
<1>10. ASSUME NEW k \in 1 .. n PROVE u[m + k] = p[m + k]
  <2>1. u[m + k] = Chop[s[m + k]]
    BY <1>5, <1>8
  <2>2. p[m + k] = Chop[t[dropped + k]]
    BY <1>2, <1>3, <1>6
  <2> QED BY <1>1, <2>1, <2>2
<1>11. u = p
  <2>1. Agree(u, p, m, n)
    BY <1>1, <1>5, <1>6, <1>9, <1>10 DEF Agree
  <2> QED BY <2>1, SameParts
<1> QED BY <1>11 DEF u, p, s, top, v

Untouched == above = << >> /\ dropped = 0

(* Nothing has moved.                                                       *)
LEMMA NoDrift ==
  ASSUME NEW t \in Seq(Lines), Untouched
  PROVE  AfterDrift(t) = t
<1>1. Len(t) \in Nat /\ above \in Seq(Lines) /\ dropped \in 0 .. Len(t) /\ Len(above) = 0 /\ dropped = 0
  BY DEF Untouched
<1>2. /\ AfterDrift(t) \in Seq(Lines)
      /\ Len(AfterDrift(t)) = Len(above) + (Len(t) - dropped)
      /\ \A k \in 1 .. Len(t) - dropped : AfterDrift(t)[Len(above) + k] = t[dropped + k]
  BY <1>1, DriftedIs
<1> DEFINE s == AfterDrift(t)
<1> HIDE DEF s
<1>3. s \in Seq(Lines) /\ Len(s) = Len(t) /\ \A k \in 1 .. Len(t) : s[k] = t[k]
  <2>1. Len(t) - 0 = Len(t) /\ 0 + Len(t) = Len(t) /\ \A k \in 1 .. Len(t) : 0 + k = k
    BY <1>1
  <2> QED BY <1>1, <1>2, <2>1 DEF s
<1>4. s = t
  BY <1>3, SameSeq
<1> QED BY <1>4 DEF s

-----------------------------------------------------------------------------
(* A patch that fails.  Until one is stored the file is what the other      *)
(* program left; what is not misread is one section, about this file; and   *)
(* while nobody else has touched the file, the lines above the hunks that   *)
(* were applied, from the last one up, are those of the text before, so     *)
(* that the next hunk is where it says.                                     *)
Agrees(ls, a, i) == i <= Len(ls) /\ \A k \in 1 .. i : ls[k] = a[k]

Kept0 ==
  /\ edit \in Edits /\ format \in {"unified", "block"}
  /\ above \in Seq(Lines) /\ dropped \in 0 .. Len(edit.before) - 1
  /\ pc # "done" /\ (pc = "failed" => ~section.others) => file = AfterDrift(edit.before)
  /\ pc = "diff" => Untouched
  /\ pc \in {"diff", "wait"} => turn = 0
Placed ==
  /\ pc = "hunks" => lines \in Seq(Lines)
  /\ format = "unified" /\ pc \in {"wait", "hunks"} =>
       \E ax : /\ Sits(patch, ToLines(edit.before), ax)
               /\ turn \in 0 .. Len(patch)
               /\ pc = "hunks" /\ Untouched /\ Straight(edit.before) =>
                    Agrees(lines, ToLines(edit.before), ax[Len(patch) + 1 - turn])
Understood == ~Misread => section = OneSection
Failed == pc = "failed" /\ format = "unified" /\ ~Misread /\ Straight(edit.before) => ~Untouched
FailInv == Kept0 /\ Placed /\ Understood /\ Failed

(* A hunk that sits where it says is found there, and nowhere nearer.       *)
LEMMA FoundWhereItSits ==
  ASSUME NEW a \in Seq(Lines), NEW ls \in Seq(Lines), NEW hunk \in Hunks, NEW i \in Nat, NEW j \in Nat,
         NEW z \in i .. j, hunk.at = i + 1, Slice(Old(hunk), a, i, z), Agrees(ls, a, j)
  PROVE  /\ i \in 0 .. Len(ls) - Len(Old(hunk)) /\ Old(hunk) \in Seq(Lines)
         /\ Nearest(Found(ls, Old(hunk)), hunk) = {i}
<1> DEFINE old == Old(hunk)  places == Found(ls, old)
<1>1. /\ old \in Seq(Lines) /\ Len(old) = z - i /\ \A k \in 1 .. z - i : old[k] = a[i + k]
  BY DEF Slice
<1>2. /\ j <= Len(ls) /\ Len(ls) \in Nat /\ z \in Nat /\ i <= z /\ z <= j /\ Reach \in Nat
      /\ \A k \in 1 .. j : ls[k] = a[k]
  BY DriftAssumption DEF Agrees
<1> HIDE DEF old
<1>3. i \in 0 .. Len(ls) - Len(old)
  BY <1>1, <1>2
<1>4. i \in places
  <2>1. ASSUME NEW k \in DOMAIN old PROVE Trim[ls[i + k]] = Trim[old[k]]
    <3>1. DOMAIN old = 1 .. Len(old)
      BY <1>1
    <3>2. k \in 1 .. z - i
      BY <1>1, <2>1, <3>1
    <3>3. i + k \in 1 .. j
      BY <1>2, <3>2
    <3> QED BY <1>1, <1>2, <3>2, <3>3
  <2> QED BY <1>3, <2>1 DEF Found
<1>5. places \subseteq Int
  BY <1>1, <1>2 DEF Found
<1> HIDE DEF places
<1>6. /\ hunk.at - 1 = i /\ i - i = 0
      /\ \A k \in Int : Rank(k, i) >= 0 /\ (Rank(k, i) <= 0 => k = i)
      /\ Rank(i, i) = 0 /\ \A k \in Int : Rank(i, i) <= Rank(k, i)
  BY DEF Rank
<1>7. Nearest(places, hunk)
        = {x \in places : /\ x - i <= Reach /\ i - x <= Reach
                          /\ \A k \in places : Rank(x, i) <= Rank(k, i)}
  BY <1>6 DEF Nearest
<1>8. i \in Nearest(places, hunk)
  BY <1>2, <1>4, <1>5, <1>6, <1>7
<1>9. ASSUME NEW x \in Nearest(places, hunk) PROVE x = i
  <2>1. x \in places /\ Rank(x, i) <= Rank(i, i)
    BY <1>4, <1>7
  <2> QED BY <1>5, <1>6, <2>1
<1>10. Nearest(places, hunk) = {i}
  BY <1>8, <1>9
<1> QED BY <1>1, <1>3, <1>10 DEF old, places

(* The lines of the file begin with those that were compared.               *)
LEMMA SplitAgrees ==
  ASSUME NEW t \in Seq(Lines), Len(t) \in Nat \ {0}, Straight(t)
  PROVE  Agrees(SplitLines(t), ToLines(t), Len(ToLines(t)))
<1> DEFINE a == ToLines(t)  ls == SplitLines(t)  n == Len(t)
<1>1. /\ a \in Seq(Lines) /\ ls \in Seq(Lines) /\ Len(a) <= n /\ Len(a) <= Len(ls)
      /\ \A k \in 1 .. Len(a) : a[k] = Bare[t[k]]
      /\ \A k \in 1 .. Len(ls) : ls[k] = Chop[t[k]]
  BY ToLinesIs
<1>2. \A k \in 1 .. n : Bare[t[k]] = Chop[t[k]]
  <2>1. DOMAIN t = 1 .. n
    OBVIOUS
  <2> QED BY <2>1 DEF Straight
<1> HIDE DEF a, ls
<1>3. \A k \in 1 .. Len(a) : k \in 1 .. Len(ls) /\ k \in 1 .. n
  BY <1>1
<1>4. \A k \in 1 .. Len(a) : ls[k] = a[k]
  BY <1>1, <1>2, <1>3
<1> QED BY <1>1, <1>4 DEF Agrees, a, ls

(* The induction: one lemma for each action.                                *)
LEMMA FailInit == Init => FailInv
<1> SUFFICES ASSUME Init PROVE FailInv
  OBVIOUS
<1>1. /\ pc = "diff" /\ edit \in Edits /\ format \in {"unified", "block"} /\ file = edit.before
      /\ turn = 0 /\ above = << >> /\ dropped = 0 /\ section = OneSection
  BY DEF Init
<1>2. /\ edit.before \in Seq(Lines) /\ Len(edit.before) \in Nat \ {0}
  BY <1>1, EditIs
<1>3. Untouched /\ above \in Seq(Lines) /\ dropped \in 0 .. Len(edit.before) - 1
  BY <1>1, <1>2 DEF Untouched
<1>4. AfterDrift(edit.before) = edit.before
  BY <1>2, <1>3, NoDrift
<1> QED BY <1>1, <1>3, <1>4 DEF FailInv, Kept0, Placed, Understood, Failed

(* What is not misread is taken for one section, about this file, and as it *)
(* was shown.                                                               *)
LEMMA HunkParsed ==
  ASSUME NEW ops \in Seq(Ops), \A k \in 1 .. Len(ops) : ~HeaderLike(ops[k])
  PROVE  Heads(ops) = {} /\ Upto(ops) = ops
<1>1. DOMAIN ops = 1 .. Len(ops)
  OBVIOUS
<1>2. Heads(ops) = {}
  BY <1>1 DEF Heads
<1> QED BY <1>2 DEF Upto

LEMMA PlainlyParsed ==
  ASSUME NEW a \in Seq(Lines), NEW b \in Seq(Lines), NEW hunks, NEW ax, NEW ay, NEW bx, NEW by,
         Aligned(hunks, a, b, ax, ay, bx, by),
         \A k \in 1 .. Len(a) : a[k] \notin Dashes \cup Marks,
         \A k \in 1 .. Len(b) : b[k] \notin Pluses \cup Marks
  PROVE  ParseUnified(hunks) = hunks /\ SectionOf(hunks) = OneSection
<1>1. hunks \in Seq(Hunks) /\ DOMAIN hunks = 1 .. Len(hunks)
  BY DEF Aligned
<1>2. ASSUME NEW h \in 1 .. Len(hunks)
      PROVE  /\ Heads(hunks[h].ops) = {} /\ Upto(hunks[h].ops) = hunks[h].ops
             /\ \A k \in DOMAIN hunks[h].ops :
                  hunks[h].ops[k].text \notin Marks /\ ~Retargets(hunks[h].ops[k])
  <2> DEFINE ops == hunks[h].ops
  <2>1. HunkTakes(hunks[h], a, b, ax[h], ay[h], bx[h], by[h])
    BY DEF Aligned
  <2>2. ops \in Seq(Ops)
    BY <2>1 DEF HunkTakes, Hunks
  <2>3. ASSUME NEW k \in 1 .. Len(ops)
        PROVE  ~HeaderLike(ops[k]) /\ ~Retargets(ops[k]) /\ ops[k].text \notin Marks
    <3>1. /\ ops[k].kind # "+" => \E x \in 1 .. Len(a) : ops[k].text = a[x]
          /\ ops[k].kind = "+" => \E x \in 1 .. Len(b) : ops[k].text = b[x]
      BY <2>1 DEF HunkTakes
    <3>2. /\ ops[k].kind # "+" => ops[k].text \notin Dashes \cup Marks
          /\ ops[k].kind = "+" => ops[k].text \notin Pluses \cup Marks
      BY <3>1
    <3> QED BY <3>2 DEF HeaderLike, Retargets
  <2>4. DOMAIN ops = 1 .. Len(ops)
    BY <2>2
  <2> HIDE DEF ops
  <2>5. Heads(ops) = {} /\ Upto(ops) = ops
    BY <2>2, <2>3, HunkParsed
  <2>6. \A k \in DOMAIN ops : ops[k].text \notin Marks /\ ~Retargets(ops[k])
    BY <2>3, <2>4
  <2> QED BY <2>5, <2>6 DEF ops
<1>3. Cut(hunks) = {}
  BY <1>1, <1>2 DEF Cut
<1>4. ParseUnified(hunks)
        = [h \in 1 .. Len(hunks) |-> [at |-> hunks[h].at, ops |-> Upto(hunks[h].ops)]]
  BY <1>3 DEF ParseUnified
<1>5. ASSUME NEW h \in 1 .. Len(hunks)
      PROVE  [at |-> hunks[h].at, ops |-> Upto(hunks[h].ops)] = hunks[h]
  <2>1. hunks[h] \in Hunks
    BY <1>1
  <2>2. [at |-> hunks[h].at, ops |-> hunks[h].ops] = hunks[h]
    BY <2>1 DEF Hunks
  <2> QED BY <1>2, <2>2
<1>6. hunks = [h \in 1 .. Len(hunks) |-> hunks[h]]
  BY <1>1
<1>7. ParseUnified(hunks) = hunks
  BY <1>4, <1>5, <1>6
<1>8. \A o \in Shown(hunks) : o.text \notin Marks /\ ~Retargets(o)
  BY <1>1, <1>2 DEF Shown
<1>9. SectionOf(hunks) = OneSection
  BY <1>3, <1>7, <1>8 DEF SectionOf, OneSection
<1> QED BY <1>7, <1>9

(* The lines of a text are among those that were read through.              *)
LEMMA LinesOf ==
  ASSUME NEW t \in Seq(Lines), Len(t) \in Nat \ {0}, NEW S, ~Speaks(t, S)
  PROVE  \A k \in 1 .. Len(ToLines(t)) : ToLines(t)[k] \notin S
<1> DEFINE ls == ToLines(t)  n == Len(t)
<1>1. Len(ls) <= n /\ Len(ls) \in Nat /\ \A k \in 1 .. Len(ls) : ls[k] = Bare[t[k]]
  BY ToLinesIs
<1>2. n \in Nat /\ \A k \in 1 .. n : Bare[t[k]] \notin S
  <2>1. DOMAIN t = 1 .. n
    OBVIOUS
  <2> QED BY <2>1 DEF Speaks
<1> HIDE DEF ls, n
<1>3. \A k \in 1 .. Len(ls) : k \in 1 .. n
  BY <1>1, <1>2
<1> QED BY <1>1, <1>2, <1>3 DEF ls

LEMMA NotMisread ==
  ASSUME edit \in Edits, format = "unified", ~Misread
  PROVE  /\ \A k \in 1 .. Len(ToLines(edit.before)) : ToLines(edit.before)[k] \notin Dashes \cup Marks
         /\ \A k \in 1 .. Len(ToLines(edit.after)) : ToLines(edit.after)[k] \notin Pluses \cup Marks
<1>1. /\ edit.before \in Seq(Lines) /\ Len(edit.before) \in Nat \ {0}
      /\ edit.after \in Seq(Lines) /\ Len(edit.after) \in Nat \ {0}
  BY EditIs
<1>2. ~Speaks(edit.before, Dashes \cup Marks) /\ ~Speaks(edit.after, Pluses \cup Marks)
  BY DEF Misread
<1> QED BY <1>1, <1>2, LinesOf

LEMMA FailGenerate == FailInv /\ Generate => FailInv'
<1> SUFFICES ASSUME FailInv, Generate PROVE FailInv'
  OBVIOUS
<1> DEFINE a == ToLines(edit.before)  b == ToLines(edit.after)
<1>1. PICK ops \in {DiffLines(a, b), Replaced(a, b)} :
        IF format = "unified"
        THEN /\ patch' = ParseUnified(UnifiedDiff(ops))
             /\ section' = SectionOf(UnifiedDiff(ops))
        ELSE patch' = ParseBlock(UnifiedDiff(ops)) /\ section' = OneSection
  BY DEF Generate
<1>2. /\ pc = "diff" /\ pc' = "wait"
      /\ edit' = edit /\ format' = format /\ file' = file /\ turn' = turn
      /\ above' = above /\ dropped' = dropped
  BY DEF Generate
<1>3. a \in Seq(Lines) /\ b \in Seq(Lines)
  <2>1. edit \in Edits
    BY DEF FailInv, Kept0
  <2> QED BY <2>1, EditIs, ToLinesIs
<1> HIDE DEF a, b
<1>4. \E o, n : Diff(ops, a, b, o, n)
  BY <1>1, <1>3, DiffLinesDiffs, ReplacedDiffs
<1>5. PICK o, n : Diff(ops, a, b, o, n)
  BY <1>4
<1>6. PICK ax, ay, bx, by : Aligned(UnifiedDiff(ops), a, b, ax, ay, bx, by)
  BY <1>3, <1>5, UnifiedAligned
<1>7. PICK places : Sits(ParseUnified(UnifiedDiff(ops)), a, places)
  BY <1>3, <1>6, ParsedSits
<1>8. Kept0'
  <2>1. AfterDrift(edit.before)' = AfterDrift(edit.before)
    BY <1>2 DEF AfterDrift
  <2> QED BY <1>2, <2>1 DEF FailInv, Kept0, Untouched
<1>9. Placed'
  <2>1. ASSUME format' = "unified"
        PROVE  Sits(patch', a, places) /\ turn' \in 0 .. Len(patch')
    <3>1. patch' = ParseUnified(UnifiedDiff(ops))
      BY <1>1, <1>2, <2>1
    <3>2. Sits(patch', a, places)
      BY <1>7, <3>1
    <3>3. turn' = 0 /\ Len(patch') \in Nat
      BY <1>2, <3>2 DEF FailInv, Kept0, Sits
    <3> QED BY <3>2, <3>3
  <2> QED BY <1>2, <2>1 DEF Placed, a
<1>10. Failed'
  BY <1>2 DEF Failed
<1>11. Understood'
  <2>1. (Misread' <=> Misread)
    BY <1>2 DEF Misread
  <2>2. ASSUME format = "unified", ~Misread PROVE section' = OneSection
    <3>1. edit \in Edits
      BY DEF FailInv, Kept0
    <3>2. /\ \A k \in 1 .. Len(a) : a[k] \notin Dashes \cup Marks
          /\ \A k \in 1 .. Len(b) : b[k] \notin Pluses \cup Marks
      BY <2>2, <3>1, NotMisread DEF a, b
    <3>3. SectionOf(UnifiedDiff(ops)) = OneSection
      BY <1>3, <1>6, <3>2, PlainlyParsed
    <3> QED BY <1>1, <2>2, <3>3
  <2>3. format # "unified" => section' = OneSection
    BY <1>1
  <2> QED BY <2>1, <2>2, <2>3 DEF Understood
<1> QED BY <1>8, <1>9, <1>10, <1>11 DEF FailInv

LEMMA FailDrift == FailInv /\ Drift => FailInv'
<1> SUFFICES ASSUME FailInv, Drift PROVE FailInv'
  OBVIOUS
<1>1. /\ pc = "wait" /\ pc' = "wait" /\ above = << >> /\ dropped = 0
      /\ edit' = edit /\ format' = format /\ turn' = turn /\ patch' = patch /\ section' = section
      /\ \/ above' \in Drifts /\ dropped' = 0 /\ file' = above' \o file
         \/ /\ dropped' \in 1 .. MaxDropped /\ above' = << >> /\ dropped' < Len(file)
            /\ file' = SubSeq(file, dropped' + 1, Len(file))
  BY DEF Drift, parsed
<1>2. /\ edit \in Edits /\ format \in {"unified", "block"} /\ turn = 0 /\ Untouched
      /\ file = AfterDrift(edit.before)
  BY <1>1 DEF FailInv, Kept0, Untouched
<1>3. edit.before \in Seq(Lines) /\ Len(edit.before) \in Nat \ {0}
  BY <1>2, EditIs
<1>4. file = edit.before
  BY <1>2, <1>3, NoDrift
<1> DEFINE t == edit.before
<1>5. /\ above' \in Seq(Lines) /\ dropped' \in 0 .. Len(t) - 1
      /\ file' = above' \o SubSeq(t, dropped' + 1, Len(t))
  <2>1. CASE above' \in Drifts /\ dropped' = 0 /\ file' = above' \o file
    <3>1. SubSeq(t, 0 + 1, Len(t)) = t
      <4>1. 0 \in 0 .. Len(t) /\ Len(t) - 0 = Len(t) /\ \A k \in 1 .. Len(t) : 0 + k = k
        BY <1>3
      <4>2. PartOf(Lines, t, 0, Len(t), SubSeq(t, 0 + 1, Len(t)))
        BY <1>3, <4>1, LastPart
      <4> DEFINE s == SubSeq(t, 0 + 1, Len(t))
      <4>3. s \in Seq(Lines) /\ Len(s) = Len(t) /\ \A k \in 1 .. Len(t) : s[k] = t[k]
        BY <4>1, <4>2 DEF PartOf
      <4> HIDE DEF s
      <4>4. s = t
        BY <1>3, <4>3, SameSeq
      <4> QED BY <4>4 DEF s
    <3>2. above' \in Seq(Lines)
      BY <2>1, DriftAssumption
    <3>3. 0 \in 0 .. Len(t) - 1
      BY <1>3
    <3> QED BY <1>4, <2>1, <3>1, <3>2, <3>3
  <2>2. CASE /\ dropped' \in 1 .. MaxDropped /\ above' = << >> /\ dropped' < Len(file)
             /\ file' = SubSeq(file, dropped' + 1, Len(file))
    <3> DEFINE d == dropped'
    <3>1. d \in 0 .. Len(t) /\ d \in 0 .. Len(t) - 1
      BY <1>3, <1>4, <2>2, DriftAssumption
    <3> HIDE DEF d
    <3> DEFINE rest == SubSeq(t, d + 1, Len(t))
    <3>2. rest \in Seq(Lines)
      BY <1>3, <3>1, LastPart DEF PartOf
    <3> HIDE DEF rest
    <3>3. << >> \o rest = rest
      BY <3>2
    <3> QED BY <1>4, <2>2, <3>1, <3>3 DEF d, rest
  <2> QED BY <1>1, <2>1, <2>2
<1> HIDE DEF t
<1>6. AfterDrift(edit.before)' = above' \o SubSeq(t, dropped' + 1, Len(t))
  BY <1>1 DEF AfterDrift, t
<1>7. Kept0'
  BY <1>1, <1>2, <1>5, <1>6 DEF Kept0, t
<1>8. Placed' /\ Failed'
  BY <1>1 DEF FailInv, Placed, Failed
<1>9. Understood'
  BY <1>1 DEF FailInv, Understood, Misread
<1> QED BY <1>7, <1>8, <1>9 DEF FailInv

LEMMA FailOpen == FailInv /\ Open => FailInv'
<1> SUFFICES ASSUME FailInv, Open PROVE FailInv'
  OBVIOUS
<1>1. /\ pc = "wait" /\ pc' = "hunks" /\ lines' = SplitLines(file)
      /\ edit' = edit /\ format' = format /\ turn' = turn /\ patch' = patch /\ file' = file
      /\ above' = above /\ dropped' = dropped /\ section' = section
  BY DEF Open, parsed
<1>2. /\ edit \in Edits /\ turn = 0 /\ file = AfterDrift(edit.before)
      /\ above \in Seq(Lines) /\ dropped \in 0 .. Len(edit.before) - 1
  BY <1>1 DEF FailInv, Kept0
<1> DEFINE t == edit.before  a == ToLines(t)
<1>3. t \in Seq(Lines) /\ Len(t) \in Nat \ {0}
  BY <1>2, EditIs
<1>4. file \in Seq(Lines) /\ Len(file) \in Nat \ {0}
  <2>1. dropped \in 0 .. Len(t) /\ Len(above) \in Nat
    BY <1>2, <1>3
  <2>2. AfterDrift(t) \in Seq(Lines) /\ Len(AfterDrift(t)) = Len(above) + (Len(t) - dropped)
    BY <1>2, <1>3, <2>1, DriftedIs
  <2> QED BY <1>2, <1>3, <2>1, <2>2
<1>5. lines' \in Seq(Lines)
  BY <1>1, <1>4, ToLinesIs
<1>6. Untouched /\ Straight(t) => Agrees(lines', a, Len(a))
  <2>1. Untouched => file = t
    BY <1>2, <1>3, NoDrift
  <2> QED BY <1>1, <1>3, <2>1, SplitAgrees
<1>7. Kept0'
  <2>1. AfterDrift(edit.before)' = AfterDrift(edit.before)
    BY <1>1 DEF AfterDrift
  <2> QED BY <1>1, <2>1 DEF FailInv, Kept0
<1>8. Placed'
  <2>1. ASSUME format = "unified"
        PROVE  \E ax : /\ Sits(patch, a, ax) /\ turn \in 0 .. Len(patch)
                       /\ Untouched /\ Straight(t) =>
                            Agrees(lines', a, ax[Len(patch) + 1 - turn])
    <3>1. PICK ax : Sits(patch, a, ax) /\ turn \in 0 .. Len(patch)
      BY <1>1, <2>1 DEF FailInv, Placed
    <3>2. ax[Len(patch) + 1 - turn] \in 0 .. Len(a)
      <4>1. Len(patch) + 1 - turn \in 1 .. Len(patch) + 1
        BY <3>1
      <4> QED BY <3>1, <4>1 DEF Sits
    <3> DEFINE i == ax[Len(patch) + 1 - turn]
    <3>3. Agrees(lines', a, Len(a)) => Agrees(lines', a, i)
      <4> HIDE DEF i
      <4>1. \A k \in 1 .. i : k \in 1 .. Len(a)
        BY <1>3, <3>2, ToLinesIs DEF i
      <4>2. a \in Seq(Lines) /\ Len(a) \in Nat /\ Len(lines') \in Nat /\ i <= Len(a) /\ i \in Nat
        BY <1>3, <1>5, <3>2, ToLinesIs DEF i
      <4>3. Len(a) <= Len(lines') => i <= Len(lines')
        <5> HIDE DEF a
        <5> QED BY <4>2
      <4> QED BY <4>1, <4>3 DEF Agrees
    <3> QED BY <1>6, <3>1, <3>3
  <2> HIDE DEF a
  <2>2. (Untouched' <=> Untouched) /\ (Straight(edit.before)' <=> Straight(t))
    BY <1>1 DEF Untouched
  <2>3. ToLines(edit'.before) = a
    BY <1>1 DEF a
  <2>4. CASE format' = "unified"
    <3>1. PICK ax : /\ Sits(patch, a, ax) /\ turn \in 0 .. Len(patch)
                    /\ Untouched /\ Straight(t) =>
                         Agrees(lines', a, ax[Len(patch) + 1 - turn])
      BY <1>1, <2>1, <2>4
    <3>2. /\ Sits(patch', a, ax) /\ turn' \in 0 .. Len(patch')
          /\ Untouched' /\ Straight(edit.before)' =>
               Agrees(lines', a, ax[Len(patch') + 1 - turn'])
      BY <1>1, <2>2, <3>1
    <3> QED BY <1>5, <2>3, <3>2 DEF Placed
  <2> QED BY <1>5, <2>4 DEF Placed
<1>9. Failed'
  BY <1>1 DEF Failed
<1>10. Understood'
  BY <1>1 DEF FailInv, Understood, Misread
<1> QED BY <1>7, <1>8, <1>9, <1>10 DEF FailInv

LEMMA FailElsewhere == FailInv /\ Elsewhere => FailInv'
<1> SUFFICES ASSUME FailInv, Elsewhere PROVE FailInv'
  OBVIOUS
<1>1. /\ pc = "wait" /\ ~(section.known /\ section.ours) /\ pc' \in {"failed", "done"}
      /\ edit' = edit /\ format' = format /\ turn' = turn /\ patch' = patch /\ file' = file
      /\ above' = above /\ dropped' = dropped /\ section' = section
  BY DEF Elsewhere, parsed
<1>2. Misread
  BY <1>1 DEF FailInv, Understood, OneSection
<1>3. (Misread' <=> Misread)
  BY <1>1 DEF Misread
<1>4. Kept0'
  <2>1. AfterDrift(edit.before)' = AfterDrift(edit.before)
    BY <1>1 DEF AfterDrift
  <2> QED BY <1>1, <2>1 DEF FailInv, Kept0
<1>5. Placed'
  BY <1>1 DEF Placed
<1>6. Understood' /\ Failed'
  BY <1>2, <1>3 DEF Understood, Failed
<1> QED BY <1>4, <1>5, <1>6 DEF FailInv

(* What a hunk removes sits where it says.                                  *)
LEMMA SitsAt ==
  ASSUME NEW a \in Seq(Lines), NEW hunks, NEW ax, Sits(hunks, a, ax), NEW h \in 1 .. Len(hunks)
  PROVE  /\ hunks[h] \in Hunks /\ hunks[h].at = ax[h] + 1
         /\ ax[h] \in Nat /\ ax[h + 1] \in Nat
         /\ \E z \in ax[h] .. ax[h + 1] : Slice(Old(hunks[h]), a, ax[h], z)
<1>1. hunks \in Seq(Hunks) /\ ax \in [1 .. Len(hunks) + 1 -> 0 .. Len(a)] /\ Len(a) \in Nat
  BY DEF Sits
<1>2. h \in 1 .. Len(hunks) + 1 /\ h + 1 \in 1 .. Len(hunks) + 1
  BY <1>1
<1>3. hunks[h] \in Hunks
  BY <1>1
<1>4. ax[h] \in 0 .. Len(a) /\ ax[h + 1] \in 0 .. Len(a)
  BY <1>1, <1>2
<1>5. ax[h] \in Nat /\ ax[h + 1] \in Nat
  BY <1>1, <1>4
<1>6. hunks[h].at = ax[h] + 1 /\ \E z \in ax[h] .. ax[h + 1] : Slice(Old(hunks[h]), a, ax[h], z)
  BY DEF Sits
<1> QED BY <1>3, <1>5, <1>6

(* The hunk whose turn it is, on a file nobody touched.                     *)
LEMMA NextHunkSits ==
  ASSUME FailInv, pc = "hunks", format = "unified", turn < Len(patch), Untouched,
         Straight(edit.before), NEW hunk, hunk = HunkAt(Turn)
  PROVE  \E i : /\ i \in 0 .. Len(lines) - Len(Old(hunk)) /\ Old(hunk) \in Seq(Lines)
                /\ Nearest(Found(lines, Old(hunk)), hunk) = {i}
<1> DEFINE a == ToLines(edit.before)
<1>1. lines \in Seq(Lines) /\ edit \in Edits
  BY DEF FailInv, Kept0, Placed
<1>2. a \in Seq(Lines)
  BY <1>1, EditIs, ToLinesIs
<1>3. PICK ax : /\ Sits(patch, a, ax) /\ turn \in 0 .. Len(patch)
                /\ Agrees(lines, a, ax[Len(patch) + 1 - turn])
  BY DEF FailInv, Placed
<1> HIDE DEF a
<1> DEFINE h == Len(patch) - turn
<1>4. /\ h \in 1 .. Len(patch) /\ h \in 1 .. Len(patch) + 1 /\ h + 1 \in 1 .. Len(patch) + 1
      /\ Len(patch) + 1 - turn = h + 1 /\ Len(patch) + 1 - Turn = h
  BY <1>3 DEF Turn
<1>5. hunk = patch[h]
  BY <1>4 DEF HunkAt
<1> HIDE DEF h
<1>6. /\ patch[h] \in Hunks /\ patch[h].at = ax[h] + 1
      /\ ax[h] \in Nat /\ ax[h + 1] \in Nat
      /\ \E z \in ax[h] .. ax[h + 1] : Slice(Old(patch[h]), a, ax[h], z)
  BY <1>2, <1>3, <1>4, SitsAt
<1>7. PICK z \in ax[h] .. ax[h + 1] : Slice(Old(hunk), a, ax[h], z)
  BY <1>5, <1>6
<1>8. Agrees(lines, a, ax[h + 1])
  BY <1>3, <1>4
<1> DEFINE i == ax[h]  j == ax[h + 1]
<1>9. /\ hunk \in Hunks /\ i \in Nat /\ j \in Nat /\ z \in i .. j
      /\ hunk.at = i + 1 /\ Slice(Old(hunk), a, i, z) /\ Agrees(lines, a, j)
  BY <1>5, <1>6, <1>7, <1>8
<1> HIDE DEF i, j
<1>10. /\ i \in 0 .. Len(lines) - Len(Old(hunk)) /\ Old(hunk) \in Seq(Lines)
       /\ Nearest(Found(lines, Old(hunk)), hunk) = {i}
  BY <1>1, <1>2, <1>9, FoundWhereItSits
<1> QED BY <1>10

LEMMA FailApplyHunk == FailInv /\ ApplyHunk => FailInv'
<1> SUFFICES ASSUME FailInv, ApplyHunk PROVE FailInv'
  OBVIOUS
<1> DEFINE a == ToLines(edit.before)  hunk == HunkAt(Turn)
<1>1. /\ pc = "hunks" /\ pc' = "hunks" /\ format = "unified" /\ turn < Len(patch) /\ turn' = Turn
      /\ edit' = edit /\ format' = format /\ patch' = patch /\ file' = file
      /\ above' = above /\ dropped' = dropped /\ section' = section
      /\ \E i \in Nearest(Found(lines, Old(hunk)), hunk) :
           lines' = Splice(lines, i, Old(hunk), New(hunk))
  BY DEF ApplyHunk, parsed
<1>2. PICK i \in Nearest(Found(lines, Old(hunk)), hunk) :
        lines' = Splice(lines, i, Old(hunk), New(hunk))
  BY <1>1
<1>3. lines \in Seq(Lines) /\ edit \in Edits
  BY <1>1 DEF FailInv, Kept0, Placed
<1>4. a \in Seq(Lines)
  BY <1>3, EditIs, ToLinesIs
<1>5. PICK ax : /\ Sits(patch, a, ax) /\ turn \in 0 .. Len(patch)
                /\ Untouched /\ Straight(edit.before) =>
                     Agrees(lines, a, ax[Len(patch) + 1 - turn])
  BY <1>1 DEF FailInv, Placed
<1> HIDE DEF a
<1> DEFINE h == Len(patch) - turn
<1>6. /\ h \in 1 .. Len(patch) /\ h \in 1 .. Len(patch) + 1 /\ h + 1 \in 1 .. Len(patch) + 1
      /\ Len(patch) + 1 - turn = h + 1 /\ Len(patch) + 1 - Turn = h /\ Turn \in 0 .. Len(patch)
  BY <1>1, <1>5 DEF Turn
<1>7. hunk = patch[h]
  BY <1>6 DEF HunkAt
<1> HIDE DEF h, hunk
<1>8. /\ hunk \in Hunks /\ hunk.at = ax[h] + 1
      /\ ax[h] \in Nat /\ ax[h + 1] \in Nat
      /\ \E z \in ax[h] .. ax[h + 1] : Slice(Old(hunk), a, ax[h], z)
  BY <1>4, <1>5, <1>6, <1>7, SitsAt
<1>9. PICK z \in ax[h] .. ax[h + 1] : Slice(Old(hunk), a, ax[h], z)
  BY <1>8
<1>10. Old(hunk) \in Seq(Lines) /\ New(hunk) \in Seq(Lines)
  <2>1. hunk.ops \in Seq(Ops)
    BY <1>8 DEF Hunks
  <2> QED BY <2>1, SideTyped DEF Old, New
<1>11. i \in 0 .. Len(lines) - Len(Old(hunk))
  BY <1>2 DEF Nearest, Found
<1>12. Spliced(lines, i, Old(hunk), New(hunk), lines')
  BY <1>2, <1>3, <1>10, <1>11, SpliceIs
<1>13. lines' \in Seq(Lines)
  BY <1>12 DEF Spliced
<1>14. ASSUME Untouched, Straight(edit.before) PROVE Agrees(lines', a, ax[h])
  <2>1. Agrees(lines, a, ax[h + 1])
    BY <1>5, <1>6, <1>14
  <2>2. Nearest(Found(lines, Old(hunk)), hunk) = {ax[h]}
    BY <1>3, <1>4, <1>8, <1>9, <2>1, FoundWhereItSits
  <2>3. i = ax[h]
    BY <1>2, <2>2
  <2>4. ax[h] <= ax[h + 1]
    BY <1>8, <1>9
  <2>5. /\ Len(lines') = (Len(lines) - Len(Old(hunk))) + Len(New(hunk))
        /\ \A k \in 1 .. i : lines'[k] = lines[k]
    BY <1>12 DEF Spliced
  <2>6. \A k \in 1 .. ax[h] : k \in 1 .. ax[h + 1]
    BY <1>8, <2>4
  <2>7. ax[h] <= Len(lines')
    <3>1. Len(lines) \in Nat /\ Len(Old(hunk)) \in Nat /\ Len(New(hunk)) \in Nat
      BY <1>3, <1>10
    <3> QED BY <1>8, <1>11, <2>3, <2>5, <3>1
  <2> QED BY <2>1, <2>3, <2>5, <2>6, <2>7 DEF Agrees
<1>15. (Untouched' <=> Untouched) /\ (Straight(edit.before)' <=> Straight(edit.before))
  BY <1>1 DEF Untouched
<1>16. Kept0'
  <2>1. AfterDrift(edit.before)' = AfterDrift(edit.before)
    BY <1>1 DEF AfterDrift
  <2> QED BY <1>1, <2>1 DEF FailInv, Kept0
<1>17. Placed'
  <2>1. ToLines(edit'.before) = a
    BY <1>1 DEF a
  <2>2. /\ Sits(patch', a, ax) /\ turn' \in 0 .. Len(patch')
        /\ Untouched' /\ Straight(edit.before)' =>
             Agrees(lines', a, ax[Len(patch') + 1 - turn'])
    BY <1>1, <1>5, <1>6, <1>14, <1>15
  <2> QED BY <1>13, <2>1, <2>2 DEF Placed
<1>18. Failed'
  BY <1>1 DEF Failed
<1>19. Understood'
  BY <1>1 DEF FailInv, Understood, Misread
<1> QED BY <1>16, <1>17, <1>18, <1>19 DEF FailInv

LEMMA FailHunkFails == FailInv /\ HunkFails => FailInv'
<1> SUFFICES ASSUME FailInv, HunkFails PROVE FailInv'
  OBVIOUS
<1> DEFINE hunk == HunkAt(Turn)
<1>1. /\ pc = "hunks" /\ pc' = "failed" /\ format = "unified" /\ turn < Len(patch)
      /\ edit' = edit /\ format' = format /\ file' = file
      /\ above' = above /\ dropped' = dropped /\ section' = section
      /\ Nearest(Found(lines, Old(hunk)), hunk) = {}
  BY DEF HunkFails, Unpatched, parsed
<1>2. Straight(edit.before) => ~Untouched
  <2>1. SUFFICES ASSUME Straight(edit.before), Untouched PROVE FALSE
    OBVIOUS
  <2>2. PICK i : Nearest(Found(lines, Old(hunk)), hunk) = {i}
    BY <1>1, <2>1, NextHunkSits
  <2> QED BY <1>1, <2>2
<1>3. Kept0'
  <2>1. AfterDrift(edit.before)' = AfterDrift(edit.before)
    BY <1>1 DEF AfterDrift
  <2> QED BY <1>1, <2>1 DEF FailInv, Kept0
<1>4. Placed'
  BY <1>1 DEF Placed
<1>5. Failed'
  <2>1. (Untouched' <=> Untouched) /\ (Straight(edit.before)' <=> Straight(edit.before))
    BY <1>1 DEF Untouched
  <2> QED BY <1>2, <2>1 DEF Failed
<1>6. Understood'
  BY <1>1 DEF FailInv, Understood, Misread
<1> QED BY <1>3, <1>4, <1>5, <1>6 DEF FailInv

LEMMA FailStore == FailInv /\ Store => FailInv'
<1> SUFFICES ASSUME FailInv, Store PROVE FailInv'
  OBVIOUS
<1>1. /\ pc = "hunks" /\ edit' = edit /\ format' = format /\ section' = section
      /\ above' = above /\ dropped' = dropped
      /\ pc' = "done" \/ (pc' = "failed" /\ section.others)
  BY DEF Store, parsed
<1>2. Kept0'
  BY <1>1 DEF FailInv, Kept0
<1>3. Placed'
  BY <1>1 DEF Placed
<1>4. (Misread' <=> Misread) /\ (section.others => Misread)
  BY <1>1 DEF FailInv, Understood, OneSection, Misread
<1>5. Understood' /\ Failed'
  BY <1>1, <1>4 DEF FailInv, Understood, Failed
<1> QED BY <1>2, <1>3, <1>5 DEF FailInv

LEMMA FailApplyBlock == FailInv /\ ApplyBlock => FailInv'
<1> SUFFICES ASSUME FailInv, ApplyBlock PROVE FailInv'
  OBVIOUS
<1>1. /\ pc = "hunks" /\ format = "block" /\ edit' = edit /\ format' = format
      /\ above' = above /\ dropped' = dropped /\ section' = section
      /\ \/ pc' = "failed" /\ file' = file
         \/ pc' = "done"
  BY DEF ApplyBlock, parsed
<1>2. AfterDrift(edit.before)' = AfterDrift(edit.before)
  BY <1>1 DEF AfterDrift
<1>3. Kept0'
  BY <1>1, <1>2 DEF FailInv, Kept0
<1>4. Understood'
  BY <1>1 DEF FailInv, Understood, Misread
<1> QED BY <1>1, <1>3, <1>4 DEF FailInv, Placed, Failed

LEMMA FailStep == FailInv /\ [Next]_vars => FailInv'
<1> SUFFICES ASSUME FailInv, [Next]_vars PROVE FailInv'
  OBVIOUS
<1>1. CASE UNCHANGED vars
  BY <1>1 DEF vars, parsed, FailInv, Kept0, Placed, Understood, Failed, Misread, Untouched,
     AfterDrift
<1>2. CASE Next
  BY <1>2, FailGenerate, FailDrift, FailOpen, FailElsewhere, FailApplyHunk, FailHunkFails,
     FailStore, FailApplyBlock DEF Next
<1> QED BY <1>1, <1>2

LEMMA FailInvariant == Spec => []FailInv
BY FailInit, FailStep, PTL DEF Spec

(* A patch that fails and has no section for another file leaves this file  *)
(* as it found it, whichever of its hunks fails; and a unified diff never   *)
(* fails on the file it was made for, however long the texts are, unless a  *)
(* line of theirs looks like a header, contains a word of a block patch or  *)
(* has a carriage return inside.                                            *)
THEOREM PatchAllOrNothing == Spec => []AllOrNothing
<1>1. FailInv => AllOrNothing
  <2> SUFFICES ASSUME FailInv, pc = "failed"
               PROVE  /\ ~section.others => file = AfterDrift(edit.before)
                      /\ (format = "unified" /\ ~Misread /\ Straight(edit.before)) =>
                           above # << >> \/ dropped > 0
    BY DEF AllOrNothing
  <2>1. ~section.others => file = AfterDrift(edit.before)
    BY DEF FailInv, Kept0
  <2>2. ASSUME format = "unified", ~Misread, Straight(edit.before)
        PROVE  above # << >> \/ dropped > 0
    <3>1. ~Untouched
      BY <2>2 DEF FailInv, Failed
    <3>2. dropped \in Nat
      <4>1. dropped \in 0 .. Len(edit.before) - 1
        BY DEF FailInv, Kept0
      <4> QED BY <4>1
    <3> QED BY <3>1, <3>2 DEF Untouched
  <2> QED BY <2>1, <2>2
<1> QED BY <1>1, FailInvariant, PTL

-----------------------------------------------------------------------------
(* The file half way: first what was put on top of it, then the lines of    *)
(* the text before up to x, save those that were dropped, then those of the *)
(* text after from y on.  (A file that is nothing but a blank line keeps    *)
(* it, at the end.)                                                         *)
Stands(ls, top, d, a, b, x, y, t) ==
  /\ ls \in Seq(Lines) /\ d \in Nat /\ x \in Nat /\ y \in Nat /\ t \in {0, 1}
  /\ d <= x /\ y <= Len(b)
  /\ Len(ls) = ((Len(top) + (x - d)) + (Len(b) - y)) + t
  /\ \A k \in 1 .. Len(top) : ls[k] = top[k]
  /\ \A k \in 1 .. x - d : ls[Len(top) + k] = a[d + k]
  /\ \A k \in 1 .. Len(b) - y : ls[(Len(top) + (x - d)) + k] = b[y + k]
  /\ t = 1 => ls[Len(ls)] = Blank

(* The same seen from above the lines that stay.                            *)
LEMMA StandsAbove ==
  ASSUME NEW b \in Seq(Lines), NEW top \in Seq(Lines), NEW a, NEW ls, NEW d, NEW t,
         NEW i, NEW j, NEW k, NEW l, Gap(a, b, i, j, k, l),
         Stands(ls, top, d, a, b, j, l, t), d <= i
  PROVE  Stands(ls, top, d, a, b, i, k, t)
<1> DEFINE A == Len(top)  m == Len(b)  n == Len(ls)
<1>1. /\ A \in Nat /\ m \in Nat /\ i \in Nat /\ j \in Nat /\ k \in Nat /\ l \in Nat
      /\ i <= j /\ j - i = l - k /\ d \in Nat /\ t \in {0, 1} /\ d <= j /\ l <= m
      /\ n = ((A + (j - d)) + (m - l)) + t
  BY DEF Gap, Stands
<1>2. /\ \A c \in 1 .. j - i : a[i + c] = b[k + c]
      /\ \A c \in 1 .. j - d : ls[A + c] = a[d + c]
      /\ \A c \in 1 .. m - l : ls[(A + (j - d)) + c] = b[l + c]
  BY DEF Gap, Stands
<1> HIDE DEF A, m, n
<1>3. k <= m /\ n = ((A + (i - d)) + (m - k)) + t
  BY <1>1
<1>4. ASSUME NEW c \in 1 .. i - d PROVE ls[A + c] = a[d + c]
  <2>1. c \in 1 .. j - d
    BY <1>1
  <2> QED BY <1>2, <2>1
<1>5. ASSUME NEW c \in 1 .. m - k PROVE ls[(A + (i - d)) + c] = b[k + c]
  <2>1. CASE c <= j - i
    <3>1. /\ c \in 1 .. j - i /\ (i - d) + c \in 1 .. j - d
          /\ (A + (i - d)) + c = A + ((i - d) + c) /\ d + ((i - d) + c) = i + c
      BY <1>1, <2>1
    <3> QED BY <1>2, <3>1
  <2>2. CASE ~(c <= j - i)
    <3> DEFINE e == c - (j - i)
    <3>1. /\ e \in 1 .. m - l /\ (A + (i - d)) + c = (A + (j - d)) + e /\ l + e = k + c
      BY <1>1, <2>2
    <3> HIDE DEF e
    <3> QED BY <1>2, <3>1
  <2> QED BY <2>1, <2>2
<1> QED BY <1>1, <1>3, <1>4, <1>5 DEF Stands, A, m, n

(* And after a hunk has been spliced in where it belongs.                   *)
LEMMA StandsSpliced ==
  ASSUME NEW b \in Seq(Lines), NEW top \in Seq(Lines), NEW a, NEW ls, NEW d, NEW t,
         NEW i \in Nat, NEW j \in Nat, NEW k \in Nat, NEW l \in Nat, NEW old, NEW new, NEW out,
         Stands(ls, top, d, a, b, j, l, t), d <= i,
         Slice(old, a, i, j), Slice(new, b, k, l),
         Spliced(ls, Len(top) + (i - d), old, new, out)
  PROVE  Stands(out, top, d, a, b, i, k, t)
<1> DEFINE A == Len(top)  m == Len(b)  n == Len(ls)  p == A + (i - d)
<1>1. /\ A \in Nat /\ m \in Nat /\ d \in Nat /\ t \in {0, 1} /\ d <= j /\ l <= m
      /\ n = ((A + (j - d)) + (m - l)) + t
      /\ i <= j /\ k <= l /\ Len(old) = j - i /\ Len(new) = l - k
  <2>1. A \in Nat /\ m \in Nat /\ d \in Nat /\ t \in {0, 1} /\ d <= j /\ l <= m
    BY DEF Stands
  <2>2. n = ((A + (j - d)) + (m - l)) + t
    BY DEF Stands
  <2>3. i <= j /\ k <= l /\ Len(old) = j - i /\ Len(new) = l - k
    BY DEF Slice
  <2> QED BY <2>1, <2>2, <2>3
<1>2. /\ \A c \in 1 .. A : ls[c] = top[c]
      /\ \A c \in 1 .. j - d : ls[A + c] = a[d + c]
      /\ \A c \in 1 .. m - l : ls[(A + (j - d)) + c] = b[l + c]
      /\ t = 1 => ls[n] = Blank
      /\ \A c \in 1 .. l - k : new[c] = b[k + c]
  BY DEF Stands, Slice
<1>3. /\ out \in Seq(Lines) /\ Len(out) = (n - Len(old)) + Len(new)
      /\ \A c \in 1 .. p : out[c] = ls[c]
      /\ \A c \in 1 .. Len(new) : out[p + c] = new[c]
      /\ \A c \in 1 .. n - (p + Len(old)) : out[(p + Len(new)) + c] = ls[(p + Len(old)) + c]
  BY DEF Spliced
<1> HIDE DEF A, m, n
<1>4. Len(out) = ((A + (i - d)) + (m - k)) + t /\ k <= m
  BY <1>1, <1>3
<1>5. ASSUME NEW c \in 1 .. A PROVE out[c] = top[c]
  <2>1. c \in 1 .. p
    BY <1>1
  <2> QED BY <1>2, <1>3, <2>1
<1>6. ASSUME NEW c \in 1 .. i - d PROVE out[A + c] = a[d + c]
  <2>1. A + c \in 1 .. p /\ c \in 1 .. j - d
    BY <1>1
  <2> QED BY <1>2, <1>3, <2>1
<1>7. ASSUME NEW c \in 1 .. m - k PROVE out[(A + (i - d)) + c] = b[k + c]
  <2>1. CASE c <= l - k
    <3>1. c \in 1 .. l - k /\ c \in 1 .. Len(new)
      BY <1>1, <2>1
    <3> QED BY <1>2, <1>3, <3>1
  <2>2. CASE ~(c <= l - k)
    <3> DEFINE e == c - (l - k)
    <3>1. /\ e \in 1 .. m - l /\ e \in 1 .. n - (p + Len(old))
          /\ (p + Len(new)) + e = (A + (i - d)) + c /\ l + e = k + c
          /\ (p + Len(old)) + e = (A + (j - d)) + e
      BY <1>1, <2>2
    <3> HIDE DEF e, p
    <3>2. out[(p + Len(new)) + e] = ls[(p + Len(old)) + e]
      BY <1>3, <3>1
    <3>3. ls[(A + (j - d)) + e] = b[l + e]
      BY <1>2, <3>1
    <3> QED BY <3>1, <3>2, <3>3
  <2> QED BY <2>1, <2>2
<1>8. ASSUME t = 1 PROVE out[Len(out)] = Blank
  <2> DEFINE e == n - (p + Len(old))
  <2>1. /\ e \in 1 .. e /\ (p + Len(new)) + e = Len(out) /\ (p + Len(old)) + e = n
    BY <1>1, <1>3, <1>8
  <2> HIDE DEF e, p
  <2>2. out[(p + Len(new)) + e] = ls[(p + Len(old)) + e]
    BY <1>3, <2>1 DEF e
  <2> QED BY <1>2, <1>8, <2>1, <2>2
<1> QED BY <1>1, <1>3, <1>4, <1>5, <1>6, <1>7, <1>8 DEF Stands, A, m, n

(* Where a hunk belongs it is found.                                        *)
LEMMA FoundThere ==
  ASSUME NEW b \in Seq(Lines), NEW top \in Seq(Lines), NEW a, NEW ls, NEW d, NEW t,
         NEW i \in Nat, NEW j \in Nat, NEW l \in Nat, NEW old,
         Stands(ls, top, d, a, b, j, l, t), d <= i, Slice(old, a, i, j)
  PROVE  /\ Len(top) + (i - d) \in Found(ls, old)
         /\ Len(top) + (i - d) \in 0 .. Len(ls) - Len(old)
<1> DEFINE A == Len(top)  m == Len(b)  n == Len(ls)  p == A + (i - d)
<1>1. /\ A \in Nat /\ m \in Nat /\ d \in Nat /\ t \in {0, 1} /\ d <= j /\ l <= m
      /\ n = ((A + (j - d)) + (m - l)) + t
      /\ i <= j /\ Len(old) = j - i /\ old \in Seq(Lines)
  BY DEF Stands, Slice
<1>2. /\ \A c \in 1 .. j - d : ls[A + c] = a[d + c]
      /\ \A c \in 1 .. j - i : old[c] = a[i + c]
  BY DEF Stands, Slice
<1> HIDE DEF A, m, n
<1>3. p \in 0 .. n - Len(old)
  <2>1. t \in Nat /\ i - d \in Nat /\ j - i \in Nat /\ m - l \in Nat /\ j - d = (i - d) + (j - i)
    BY <1>1
  <2>2. \A u, v, w, x, y \in Nat : u + v \in 0 .. (((u + (v + w)) + x) + y) - w
    OBVIOUS
  <2> QED BY <1>1, <2>1, <2>2
<1>4. ASSUME NEW c \in DOMAIN old PROVE Trim[ls[p + c]] = Trim[old[c]]
  <2>1. DOMAIN old = 1 .. Len(old)
    BY <1>1
  <2>2. /\ c \in 1 .. j - i /\ (i - d) + c \in 1 .. j - d
        /\ p + c = A + ((i - d) + c) /\ d + ((i - d) + c) = i + c
    <3>1. c \in 1 .. j - i
      BY <1>1, <2>1
    <3>2. i - d \in Nat /\ j - i \in Nat /\ j - d = (i - d) + (j - i) /\ d + (i - d) = i
      BY <1>1
    <3>3. \A u, v \in Nat : \A e \in 1 .. v : u + e \in 1 .. u + v
      OBVIOUS
    <3>4. p + c = A + ((i - d) + c) /\ d + ((i - d) + c) = i + c
      BY <1>1, <3>1
    <3> QED BY <3>1, <3>2, <3>3, <3>4
  <2> HIDE DEF p
  <2>3. ls[p + c] = old[c]
    BY <1>2, <2>2
  <2> QED BY <2>3
<1>5. p \in Found(ls, old)
  BY <1>3, <1>4 DEF Found, n
<1> QED BY <1>3, <1>5 DEF A, n

(* A place that is the only one is the one that was meant.                  *)
LEMMA OnlyOne ==
  ASSUME NEW ls \in Seq(Lines), NEW old \in Seq(Lines), NEW p \in Found(ls, old),
         Cardinality(Found(ls, old)) = 1
  PROVE  Found(ls, old) = {p}
<1>1. IsFiniteSet(Found(ls, old))
  <2>1. 0 \in Int /\ Len(ls) - Len(old) \in Int
    OBVIOUS
  <2>2. IsFiniteSet(0 .. Len(ls) - Len(old))
    BY <2>1, FS_Interval
  <2>3. Found(ls, old) \in SUBSET (0 .. Len(ls) - Len(old))
    BY DEF Found
  <2> QED BY <2>2, <2>3, FS_Subset
<1>2. \E x : Found(ls, old) = {x}
  BY <1>1, FS_Singleton
<1> QED BY <1>2

(* Nothing is found everywhere.                                             *)
LEMMA NothingOld ==
  ASSUME NEW ls \in Seq(Lines), Len(ls) > 0
  PROVE  Cardinality(Found(ls, << >>)) # 1
<1>1. Found(ls, << >>) = 0 .. Len(ls)
  <2>1. Len(<< >>) = 0 /\ DOMAIN << >> = {} /\ Len(ls) - 0 = Len(ls)
    OBVIOUS
  <2> QED BY <2>1 DEF Found
<1>2. Cardinality(0 .. Len(ls)) = Len(ls) - 0 + 1
  <2>1. 0 \in Int /\ Len(ls) \in Int /\ ~(0 > Len(ls))
    OBVIOUS
  <2> QED BY <2>1, FS_Interval
<1> QED BY <1>1, <1>2

(* All hunks are in.                                                        *)
LEMMA WholeText ==
  ASSUME NEW b \in Seq(Lines), NEW top \in Seq(Lines), NEW a, NEW ls, NEW d, NEW t,
         NEW x, NEW y, Stands(ls, top, d, a, b, x, y, t), Gap(a, b, 0, x, 0, y)
  PROVE  /\ ls \in Seq(Lines) /\ d \in 0 .. y /\ y \in 0 .. Len(b)
         /\ Len(ls) = (Len(top) + (Len(b) - d)) + t
         /\ \A k \in 1 .. Len(top) : ls[k] = top[k]
         /\ \A k \in 1 .. Len(b) - d : ls[Len(top) + k] = b[d + k]
         /\ t = 1 => ls[Len(ls)] = Blank
<1> DEFINE A == Len(top)  m == Len(b)  n == Len(ls)
<1>1. /\ A \in Nat /\ m \in Nat /\ d \in Nat /\ t \in {0, 1} /\ d <= x /\ y <= m /\ y \in Nat
      /\ n = ((A + (x - d)) + (m - y)) + t /\ x \in Nat
  BY DEF Stands
<1>2. /\ x = y /\ \A c \in 1 .. x : a[c] = b[c]
  <2>1. /\ x - 0 = y - 0 /\ \A c \in 1 .. x - 0 : a[0 + c] = b[0 + c]
    BY DEF Gap
  <2>2. x - 0 = x /\ y - 0 = y /\ \A c \in 1 .. x : 0 + c = c
    BY <1>1
  <2> QED BY <2>1, <2>2
<1>3. /\ \A c \in 1 .. x - d : ls[A + c] = a[d + c]
      /\ \A c \in 1 .. m - y : ls[(A + (x - d)) + c] = b[y + c]
  BY DEF Stands
<1> HIDE DEF A, m, n
<1>4. n = (A + (m - d)) + t /\ d \in 0 .. y /\ y \in 0 .. m
  BY <1>1, <1>2
<1>5. ASSUME NEW k \in 1 .. m - d PROVE ls[A + k] = b[d + k]
  <2>1. CASE k <= x - d
    <3>1. k \in 1 .. x - d /\ d + k \in 1 .. x
      BY <1>1, <2>1
    <3> QED BY <1>2, <1>3, <3>1
  <2>2. CASE ~(k <= x - d)
    <3> DEFINE e == k - (x - d)
    <3>1. e \in 1 .. m - y /\ (A + (x - d)) + e = A + k /\ y + e = d + k
      BY <1>1, <1>2, <2>2
    <3> HIDE DEF e
    <3> QED BY <1>3, <3>1
  <2> QED BY <2>1, <2>2
<1>6. /\ ls \in Seq(Lines) /\ \A k \in 1 .. A : ls[k] = top[k]
      /\ t = 1 => ls[n] = Blank
  BY DEF Stands, A, n
<1> QED BY <1>4, <1>5, <1>6 DEF A, m, n

-----------------------------------------------------------------------------
(* The file that is patched, and how it ends: its lines, and those of the   *)
(* texts, without the carriage returns they end in.                         *)
Top    == Unix(above)
Source == Unix(edit.before)
Target == Unix(edit.after)
Held   == Unix(file)
Drifted ==
  /\ edit \in Edits /\ above \in Seq(Lines) /\ dropped \in 0 .. Len(edit.before) - 1
  /\ file = AfterDrift(edit.before)
Plainly ==
  Straight(edit.before) /\ Straight(edit.after) /\ Short(edit.before) /\ Short(edit.after)
Spare == IF EndsLine(Held) /\ ~EndsNewline(file) THEN 1 ELSE 0

LEMMA SourceIs ==
  ASSUME edit \in Edits, Plainly
  PROVE  /\ Source \in Seq(Lines) /\ Len(Source) = Len(edit.before)
         /\ edit.before \in Seq(Lines) /\ Len(edit.before) \in Nat \ {0}
         /\ ToLines(edit.before) \in Seq(Lines)
         /\ Len(ToLines(edit.before))
              = IF EndsLine(Source) THEN Len(edit.before) - 1 ELSE Len(edit.before)
         /\ \A k \in 1 .. Len(ToLines(edit.before)) : ToLines(edit.before)[k] = Source[k]
<1>1. edit.before \in Seq(Lines) /\ Len(edit.before) \in Nat \ {0}
  BY EditIs
<1>2. Straight(edit.before) /\ Short(edit.before)
  BY DEF Plainly
<1> QED BY <1>1, <1>2, PlainLines DEF Source

LEMMA TargetIs ==
  ASSUME edit \in Edits, Plainly
  PROVE  /\ Target \in Seq(Lines) /\ Len(Target) = Len(edit.after)
         /\ edit.after \in Seq(Lines) /\ Len(edit.after) \in Nat \ {0}
         /\ ToLines(edit.after) = Unended(Target) /\ ToLines(edit.after) \in Seq(Lines)
         /\ Len(ToLines(edit.after))
              = IF EndsLine(Target) THEN Len(edit.after) - 1 ELSE Len(edit.after)
         /\ \A k \in 1 .. Len(ToLines(edit.after)) : ToLines(edit.after)[k] = Target[k]
         /\ Unix(ToLines(edit.after)) = ToLines(edit.after)
<1>1. edit.after \in Seq(Lines) /\ Len(edit.after) \in Nat \ {0}
  BY EditIs
<1>2. Straight(edit.after) /\ Short(edit.after)
  BY DEF Plainly
<1> QED BY <1>1, <1>2, PlainLines DEF Target

(* The file ends as the text before does, whatever was done to its head.    *)
LEMMA FileEnds ==
  ASSUME Drifted
  PROVE  /\ file \in Seq(Lines) /\ Len(file) = Len(above) + (Len(edit.before) - dropped)
         /\ Len(file) \in Nat \ {0} /\ (EndsLine(file) <=> EndsLine(edit.before))
         /\ Held \in Seq(Lines) /\ Len(Held) = Len(file)
         /\ (EndsLine(Held) <=> EndsLine(Source)) /\ (EndsLine(file) => EndsLine(Held))
         /\ Top \in Seq(Lines) /\ Len(Top) = Len(above) /\ Len(Top) \in Nat
         /\ \A k \in 1 .. Len(Top) : Held[k] = Top[k]
         /\ \A k \in 1 .. Len(edit.before) - dropped : Held[Len(Top) + k] = Source[dropped + k]
         /\ \A k \in 1 .. Len(file) : Held[k] = Chop[file[k]]
<1> DEFINE t == edit.before  n == Len(t)
<1>1. t \in Seq(Lines) /\ n \in Nat /\ n > 0
  BY EditIs DEF Drifted
<1>2. /\ above \in Seq(Lines) /\ Len(above) \in Nat /\ dropped \in 0 .. n - 1 /\ dropped \in 0 .. n
      /\ file = AfterDrift(t)
  BY <1>1 DEF Drifted
<1>3. /\ file \in Seq(Lines) /\ Len(file) = Len(above) + (n - dropped)
      /\ \A k \in 1 .. n - dropped : file[Len(above) + k] = t[dropped + k]
  BY <1>1, <1>2, DriftedIs
<1>4. /\ Source \in Seq(Lines) /\ Len(Source) = n
      /\ Top \in Seq(Lines) /\ Len(Top) = Len(above)
  BY <1>1, <1>2, UnixIs DEF Source, Top
<1>5. Held = Put(Top, Source)
  BY <1>1, <1>2, UnixDrift DEF Held, Top, Source
<1> HIDE DEF t, n
<1>6. Len(file) \in Nat \ {0}
  BY <1>1, <1>2, <1>3
<1>7. n - dropped \in 1 .. n - dropped /\ dropped + (n - dropped) = n
  BY <1>1, <1>2
<1>8. EndsLine(file) <=> EndsLine(t)
  <2>1. file[Len(file)] = t[n]
    BY <1>3, <1>7
  <2> QED BY <2>1 DEF EndsLine, n
<1>9. /\ Held \in Seq(Lines) /\ Len(Held) = Len(file) /\ \A k \in 1 .. Len(file) : Held[k] = Chop[file[k]]
  BY <1>3, UnixIs DEF Held
<1>10. /\ \A k \in 1 .. Len(Top) : Held[k] = Top[k]
       /\ \A k \in 1 .. n - dropped : Held[Len(Top) + k] = Source[dropped + k]
  BY <1>2, <1>4, <1>5, PutIs
<1>11. EndsLine(Held) <=> EndsLine(Source)
  <2>1. Held[Len(Held)] = Source[n]
    BY <1>3, <1>4, <1>7, <1>9, <1>10
  <2> QED BY <1>4, <2>1 DEF EndsLine
<1>12. EndsLine(file) => EndsLine(Held)
  <2>1. Len(file) \in 1 .. Len(file)
    BY <1>6
  <2>2. Held[Len(Held)] = Chop[file[Len(file)]]
    BY <1>9, <2>1
  <2> QED BY <2>2, LinesAssumption DEF EndsLine
<1> QED BY <1>2, <1>3, <1>4, <1>6, <1>8, <1>9, <1>10, <1>11, <1>12 DEF t, n

(* When the patch begins the lines of the file stand below what was put on  *)
(* top of them, and nothing is new yet.                                     *)
LEMMA OpenHas ==
  ASSUME Drifted
  PROVE  Len(SplitLines(file)) > 0
<1>1. file \in Seq(Lines) /\ Len(file) \in Nat \ {0}
  BY FileEnds
<1>2. EndsNewline(file) => Len(file) > 1
  BY DEF EndsNewline
<1>3. Len(SplitLines(file)) = IF EndsNewline(file) THEN Len(file) - 1 ELSE Len(file)
  BY <1>1, ToLinesIs
<1> QED BY <1>1, <1>2, <1>3

LEMMA OpenStands ==
  ASSUME Drifted, Plainly
  PROVE  Stands(SplitLines(file), Top, dropped, ToLines(edit.before), ToLines(edit.after),
                Len(ToLines(edit.before)), Len(ToLines(edit.after)), Spare)
<1> DEFINE n == Len(edit.before)  a == ToLines(edit.before)  b == ToLines(edit.after)
           ls == SplitLines(file)  A == Len(Top)
<1>1. edit \in Edits /\ dropped \in 0 .. n - 1
  BY DEF Drifted
<1>2. /\ a \in Seq(Lines) /\ Len(a) = IF EndsLine(Source) THEN n - 1 ELSE n
      /\ n \in Nat /\ n > 0 /\ \A k \in 1 .. Len(a) : a[k] = Source[k]
  BY <1>1, SourceIs
<1>3. /\ file \in Seq(Lines) /\ Len(file) = A + (n - dropped)
      /\ Len(file) \in Nat \ {0} /\ (EndsLine(Held) <=> EndsLine(Source))
      /\ (EndsLine(file) => EndsLine(Held)) /\ A \in Nat
      /\ \A k \in 1 .. A : Held[k] = Top[k]
      /\ \A k \in 1 .. n - dropped : Held[A + k] = Source[dropped + k]
      /\ Len(Held) = Len(file) /\ \A k \in 1 .. Len(file) : Held[k] = Chop[file[k]]
  BY FileEnds
<1>4. /\ ls \in Seq(Lines) /\ Len(ls) = IF EndsNewline(file) THEN Len(file) - 1 ELSE Len(file)
      /\ \A k \in 1 .. Len(ls) : ls[k] = Chop[file[k]]
  BY <1>3, ToLinesIs
<1>5. b \in Seq(Lines)
  BY <1>1, TargetIs
<1> HIDE DEF n, a, b, ls, A
<1>6. \A k \in 1 .. Len(ls) : ls[k] = Held[k]
  <2>1. \A k \in 1 .. Len(ls) : k \in 1 .. Len(file)
    BY <1>3, <1>4
  <2> QED BY <1>3, <1>4, <2>1
<1>7. EndsNewline(file) => EndsLine(Held)
  BY <1>3 DEF EndsNewline
<1>8. /\ Spare \in {0, 1} /\ dropped <= Len(a) /\ dropped \in Nat /\ Len(a) \in Nat
      /\ Len(ls) = (A + (Len(a) - dropped)) + Spare
  <2>1. dropped \in Nat /\ dropped <= n - 1
    BY <1>1, <1>2
  <2>2. Len(a) \in {n - 1, n}
    BY <1>2
  <2>3. Len(a) \in Nat /\ dropped <= Len(a)
    BY <1>2, <2>1, <2>2
  <2>4. CASE EndsNewline(file)
    <3>1. Spare = 0 /\ Len(ls) = Len(file) - 1 /\ Len(a) = n - 1
      BY <1>2, <1>3, <1>4, <1>7, <2>4 DEF Spare
    <3> QED BY <1>2, <1>3, <2>1, <2>3, <3>1
  <2>5. CASE ~EndsNewline(file) /\ EndsLine(Held)
    <3>1. Spare = 1 /\ Len(ls) = Len(file) /\ Len(a) = n - 1
      BY <1>2, <1>3, <1>4, <2>5 DEF Spare
    <3> QED BY <1>2, <1>3, <2>1, <2>3, <3>1
  <2>6. CASE ~EndsNewline(file) /\ ~EndsLine(Held)
    <3>1. Spare = 0 /\ Len(ls) = Len(file) /\ Len(a) = n
      BY <1>2, <1>3, <1>4, <2>6 DEF Spare
    <3> QED BY <1>2, <1>3, <2>1, <2>3, <3>1
  <2> QED BY <2>4, <2>5, <2>6
<1>9. ASSUME NEW k \in 1 .. A PROVE ls[k] = Top[k]
  <2>1. k \in 1 .. Len(ls)
    BY <1>3, <1>8
  <2> QED BY <1>3, <1>6, <2>1
<1>10. ASSUME NEW k \in 1 .. Len(a) - dropped PROVE ls[A + k] = a[dropped + k]
  <2>1. Len(a) <= n
    BY <1>2
  <2>2. A + k \in 1 .. Len(ls)
    BY <1>3, <1>8
  <2>3. dropped + k \in 1 .. Len(a) /\ k \in 1 .. n - dropped
    BY <1>2, <1>8, <2>1
  <2> QED BY <1>2, <1>3, <1>6, <2>2, <2>3
<1>11. ASSUME Spare = 1 PROVE ls[Len(ls)] = Blank
  <2>1. EndsLine(Held) /\ ~EndsNewline(file)
    BY <1>11 DEF Spare
  <2>2. Len(ls) = Len(Held) /\ Len(ls) \in 1 .. Len(ls)
    BY <1>3, <1>4, <2>1
  <2> QED BY <1>6, <2>1, <2>2 DEF EndsLine
<1>12. /\ Len(b) - Len(b) = 0 /\ 1 .. Len(b) - Len(b) = {} /\ Len(b) <= Len(b) /\ Len(b) \in Nat
       /\ Len(ls) = ((A + (Len(a) - dropped)) + (Len(b) - Len(b))) + Spare
  <2>1. Len(b) \in Nat
    BY <1>5
  <2>2. Len(b) - Len(b) = 0 /\ Len(b) <= Len(b)
    BY <2>1
  <2>3. \A p \in Int : p + 0 = p
    OBVIOUS
  <2>4. A + (Len(a) - dropped) \in Int
    BY <1>3, <1>8
  <2> QED BY <1>8, <2>1, <2>2, <2>3, <2>4
<1>13. Stands(ls, Top, dropped, a, b, Len(a), Len(b), Spare)
  BY <1>4, <1>8, <1>9, <1>10, <1>11, <1>12 DEF Stands, A
<1> QED BY <1>13 DEF ls, a, b

(* What is stored when everything stands as it was shown.                   *)
Whole(ls, t) ==
  LET b == ToLines(edit.after) IN
  /\ ls \in Seq(Lines) /\ dropped \in 0 .. Len(b)
  /\ Len(ls) = (Len(Top) + (Len(b) - dropped)) + t
  /\ \A k \in 1 .. Len(Top) : ls[k] = Top[k]
  /\ \A k \in 1 .. Len(b) - dropped : ls[Len(Top) + k] = b[dropped + k]
  /\ t = 1 => ls[Len(ls)] = Blank

(* The lines of the text that is meant, on a file that has moved on.        *)
LEMMA MeantIs ==
  ASSUME Drifted, Plainly, NEW ls, NEW t \in {0, 1}, Whole(ls, t)
  PROVE  /\ t = 0 => ls = Unix(AfterDrift(Unended(Target)))
         /\ t = (IF EndsLine(Target) THEN 1 ELSE 0) => ls = Unix(AfterDrift(edit.after))
<1> DEFINE c == Target  b == ToLines(edit.after)  m == Len(b)  A == Len(Top)  n == Len(c)
           u == Put(Top, c)
<1>1. edit \in Edits /\ above \in Seq(Lines) /\ Top \in Seq(Lines) /\ A \in Nat
  BY FileEnds DEF Drifted
<1>2. /\ b \in Seq(Lines) /\ m = (IF EndsLine(c) THEN n - 1 ELSE n)
      /\ b = Unended(Target) /\ Unix(b) = b
      /\ \A k \in 1 .. m : b[k] = c[k]
      /\ c \in Seq(Lines) /\ n \in Nat \ {0} /\ n = Len(edit.after) /\ edit.after \in Seq(Lines)
  BY <1>1, TargetIs
<1>3. /\ ls \in Seq(Lines) /\ dropped \in 0 .. m
      /\ Len(ls) = (A + (m - dropped)) + t
      /\ \A k \in 1 .. A : ls[k] = Top[k]
      /\ \A k \in 1 .. m - dropped : ls[A + k] = b[dropped + k]
      /\ t = 1 => ls[Len(ls)] = Blank
  BY DEF Whole
<1>4. m \in Nat /\ dropped \in Nat /\ dropped <= m
  BY <1>2, <1>3
<1>5. ASSUME t = 0 PROVE ls = Unix(AfterDrift(b))
  <2> DEFINE v == Put(Top, b)
  <2>1. /\ v \in Seq(Lines) /\ Len(v) = A + (m - dropped)
        /\ \A k \in 1 .. A : v[k] = Top[k]
        /\ \A k \in 1 .. m - dropped : v[A + k] = b[dropped + k]
    BY <1>1, <1>2, <1>3, PutIs
  <2>2. Unix(AfterDrift(b)) = v
    BY <1>1, <1>2, <1>3, UnixDrift DEF Top
  <2> HIDE DEF v, b, m, A
  <2>3. m - dropped \in Nat /\ Len(ls) = A + (m - dropped)
    BY <1>1, <1>3, <1>4, <1>5
  <2>4. ls = v
    <3>1. Agree(ls, v, A, m - dropped)
      BY <1>1, <1>3, <2>1, <2>3 DEF Agree
    <3> QED BY <3>1, SameParts
  <2> QED BY <2>2, <2>4
<1>6. ASSUME t = (IF EndsLine(c) THEN 1 ELSE 0) PROVE ls = Unix(AfterDrift(edit.after))
  <2>1. n = m + t /\ dropped \in 0 .. n
    BY <1>2, <1>3, <1>4, <1>6
  <2>2. Unix(AfterDrift(edit.after)) = u
    BY <1>1, <1>2, <2>1, UnixDrift DEF Top, Target
  <2> HIDE DEF c, b, m, A, n
  <2>3. /\ u \in Seq(Lines) /\ Len(u) = A + (n - dropped)
        /\ \A k \in 1 .. A : u[k] = Top[k]
        /\ \A k \in 1 .. n - dropped : u[A + k] = c[dropped + k]
    BY <1>1, <1>2, <2>1, PutIs DEF A, n
  <2>4. t = 1 => c[n] = Blank
    BY <1>6 DEF EndsLine, n
  <2> HIDE DEF u
  <2>5. n - dropped \in Nat /\ Len(ls) = A + (n - dropped)
    BY <1>1, <1>3, <1>4, <2>1
  <2>6. ASSUME NEW k \in 1 .. n - dropped PROVE ls[A + k] = u[A + k]
    <3>1. CASE k <= m - dropped
      <4>1. k \in 1 .. m - dropped /\ dropped + k \in 1 .. m
        BY <1>4, <3>1
      <4> QED BY <1>2, <1>3, <2>3, <4>1
    <3>2. CASE ~(k <= m - dropped)
      <4>1. t = 1 /\ A + k = Len(ls) /\ dropped + k = n
        BY <1>1, <1>3, <1>4, <2>1, <2>5, <3>2
      <4> QED BY <1>3, <2>3, <2>4, <4>1
    <3> QED BY <3>1, <3>2
  <2>7. ls = u
    <3>1. Agree(ls, u, A, n - dropped)
      <4>1. \A k \in 1 .. A : ls[k] = u[k]
        BY <1>3, <2>3
      <4> QED BY <1>1, <1>3, <2>3, <2>5, <2>6, <4>1 DEF Agree
    <3> QED BY <3>1, SameParts
  <2> QED BY <2>2, <2>7
<1> QED BY <1>2, <1>5, <1>6

(* The newline a block takes for granted is the one the text ends in.       *)
LEMMA NewlineBack ==
  ASSUME Drifted, Plainly, EndsPlainly, EndsLine(Target), NEW ls, Whole(ls, 0)
  PROVE  /\ NewlineAdded(Join(ls)) = Unix(AfterDrift(edit.after))
         /\ ls # << >> => ~EndsLine(ls)
<1> DEFINE b == ToLines(edit.after)  m == Len(b)  A == Len(Top)
<1>1. Top \in Seq(Lines) /\ A \in Nat
  BY FileEnds
<1>2. b \in Seq(Lines) /\ m \in Nat
  <2>1. b \in Seq(Lines)
    BY TargetIs DEF Drifted
  <2> QED BY <2>1
<1>3. ls # << >> => ~EndsLine(ls)
  <2>1. ls = Unix(AfterDrift(Unended(Target)))
    BY MeantIs
  <2>2. \E s \in {Unix(AfterDrift(Unended(Target)))} : s # << >> => ~EndsLine(s)
    BY DEF EndsPlainly, Target
  <2> QED BY <2>1, <2>2
<1>4. /\ ls \in Seq(Lines) /\ dropped \in 0 .. m /\ Len(ls) \in Nat
      /\ Len(ls) = (A + (m - dropped)) + 0
      /\ \A k \in 1 .. A : ls[k] = Top[k]
      /\ \A k \in 1 .. m - dropped : ls[A + k] = b[dropped + k]
  BY DEF Whole
<1> HIDE DEF m, A
<1>5. Len(ls) = A + (m - dropped) /\ m - dropped \in Nat /\ dropped \in Nat
  BY <1>1, <1>2, <1>4
<1> DEFINE r == NewlineAdded(Join(ls))
<1>6. /\ r \in Seq(Lines) /\ Len(r) = Len(ls) + 1 /\ r[Len(ls) + 1] = Blank
      /\ \A k \in 1 .. Len(ls) : r[k] = ls[k]
  <2>1. Blank \in Lines
    BY LinesAssumption
  <2>2. CASE ls = << >>
    <3>1. Join(ls) = <<Blank>> /\ r = <<Blank>>
      BY <2>2 DEF Join, NewlineAdded
    <3>2. Len(ls) = 0 /\ Len(<<Blank>>) = 1 /\ <<Blank>>[1] = Blank /\ <<Blank>> \in Seq(Lines)
      BY <2>1, <2>2
    <3>3. Len(ls) + 1 = 1 /\ 1 .. Len(ls) = {}
      BY <3>2
    <3> HIDE DEF r
    <3>4. Len(r) = 1 /\ r[1] = Blank /\ r \in Seq(Lines)
      BY <3>1, <3>2
    <3> QED BY <3>3, <3>4
  <2>3. CASE ls # << >>
    <3>1. ls # <<Blank>>
      BY <1>3, <2>3 DEF EndsLine
    <3>2. r = Append(ls, Blank)
      BY <2>3, <3>1 DEF Join, NewlineAdded
    <3> QED BY <1>4, <2>1, <3>2, AppendIs
  <2> QED BY <2>2, <2>3
<1> HIDE DEF r
<1>7. Len(r) = (A + (m - dropped)) + 1 /\ r[Len(r)] = Blank
  BY <1>4, <1>5, <1>6
<1>8. ASSUME NEW k \in 1 .. A PROVE r[k] = Top[k]
  <2>1. k \in 1 .. Len(ls)
    BY <1>1, <1>5
  <2> QED BY <1>4, <1>6, <2>1
<1>9. ASSUME NEW k \in 1 .. m - dropped PROVE r[A + k] = b[dropped + k]
  <2>1. A + k \in 1 .. Len(ls)
    BY <1>1, <1>5
  <2> QED BY <1>4, <1>6, <2>1
<1>10. Whole(r, 1)
  BY <1>4, <1>6, <1>7, <1>8, <1>9 DEF Whole, m, A
<1>11. r = Unix(AfterDrift(edit.after))
  <2>1. 1 = (IF EndsLine(Target) THEN 1 ELSE 0) /\ 1 \in {0, 1}
    OBVIOUS
  <2> QED BY <1>10, <2>1, MeantIs
<1> QED BY <1>3, <1>11 DEF r

(* The newline that was split off is put back where the text has one.       *)
LEMMA StoredPlainly ==
  ASSUME Drifted, Plainly, EndsPlainly, NEW ls, Whole(ls, Spare),
         ~EndsLine(Target) => ls # << >>
  PROVE  Stored(ls) = Unix(AfterDrift(edit.after))
<1> DEFINE t == Join(ls)
<1>1. EndsLine(Source) <=> EndsLine(Target)
  BY DEF EndsPlainly, Source, Target
<1>2. (EndsLine(Held) <=> EndsLine(Source)) /\ (EndsLine(file) => EndsLine(Held))
  BY FileEnds
<1>3. /\ Spare \in {0, 1} /\ ls \in Seq(Lines)
      /\ Spare = 1 <=> EndsLine(Held) /\ ~EndsNewline(file)
  BY DEF Spare, Whole
<1>4. Stored(ls) = IF EndsNewline(file) /\ ~EndsNewline(t) THEN NewlineAdded(t) ELSE t
  BY DEF Stored
<1>5. EndsNewline(file) => EndsLine(file)
  BY DEF EndsNewline
<1>6. CASE Spare = 1
  <2>1. EndsLine(Target) /\ ~EndsNewline(file)
    BY <1>1, <1>2, <1>3, <1>6
  <2>2. Len(ls) > 0
    <3> DEFINE b == ToLines(edit.after)
    <3>1. /\ dropped \in 0 .. Len(b) /\ Len(ls) = (Len(Top) + (Len(b) - dropped)) + 1
      BY <1>6 DEF Whole
    <3>2. Len(Top) \in Nat
      BY FileEnds
    <3>3. Len(b) \in Nat
      <4>1. b \in Seq(Lines)
        BY TargetIs DEF Drifted
      <4> QED BY <4>1
    <3> HIDE DEF b
    <3> QED BY <3>1, <3>2, <3>3
  <2>3. t = ls
    <3>1. ls # << >>
      BY <2>2
    <3> QED BY <3>1 DEF Join
  <2>4. ls = Unix(AfterDrift(edit.after))
    BY <1>3, <1>6, <2>1, MeantIs
  <2> QED BY <1>4, <2>1, <2>3, <2>4
<1>7. CASE Spare = 0 /\ EndsLine(Target)
  <2>1. EndsNewline(file)
    BY <1>1, <1>2, <1>3, <1>7
  <2>2. /\ NewlineAdded(t) = Unix(AfterDrift(edit.after))
        /\ ls # << >> => ~EndsLine(ls)
    <3>1. Whole(ls, 0)
      BY <1>7
    <3> QED BY <1>7, <3>1, NewlineBack
  <2>3. ~EndsNewline(t)
    <3>1. CASE ls = << >>
      <4>1. t = <<Blank>> /\ Len(<<Blank>>) = 1
        BY <3>1 DEF Join
      <4> QED BY <4>1 DEF EndsNewline
    <3>2. CASE ls # << >>
      <4>1. t = ls
        BY <3>2 DEF Join
      <4> QED BY <2>2, <3>2, <4>1 DEF EndsNewline
    <3> QED BY <3>1, <3>2
  <2> QED BY <1>4, <2>1, <2>2, <2>3
<1>8. CASE Spare = 0 /\ ~EndsLine(Target)
  <2>1. ~EndsNewline(file)
    BY <1>1, <1>2, <1>5, <1>8
  <2>2. t = ls
    BY <1>8 DEF Join
  <2>3. ls = Unix(AfterDrift(edit.after))
    BY <1>3, <1>8, MeantIs
  <2> QED BY <1>4, <2>1, <2>2, <2>3
<1> QED BY <1>3, <1>6, <1>7, <1>8

-----------------------------------------------------------------------------
(* One hunk, on lines that stand as they should below it.                   *)
LEMMA BelowIs ==
  ASSUME NEW a, NEW b, NEW hunk, NEW i \in Nat, NEW j \in Nat, NEW k, NEW l,
         HunkTakes(hunk, a, b, i, j, k, l), i < j, Below(hunk), dropped \in Nat
  PROVE  dropped <= i
<1>1. Places(hunk.ops) = i + 1 .. j
  BY DEF HunkTakes
<1>2. i + 1 \in Places(hunk.ops)
  <2>1. i + 1 \in i + 1 .. j
    OBVIOUS
  <2> QED BY <1>1, <2>1
<1>3. PICK c \in DOMAIN hunk.ops : hunk.ops[c].at = i + 1
  BY <1>2 DEF Places, Taken
<1>4. i + 1 \notin 1 .. dropped
  BY <1>3 DEF Below
<1> QED BY <1>4

(* A hunk in its place: the lines stand one hunk further up.                *)
LEMMA HunkSpliced ==
  ASSUME NEW b \in Seq(Lines), NEW top \in Seq(Lines), NEW a, NEW ls, NEW d, NEW t,
         NEW x, NEW y, Stands(ls, top, d, a, b, x, y, t),
         NEW i \in Nat, NEW j \in Nat, NEW k \in Nat, NEW l \in Nat, NEW hunk,
         HunkTakes(hunk, a, b, i, j, k, l), Gap(a, b, j, x, l, y), d <= i
  PROVE  /\ Len(top) + (i - d) \in Found(ls, Old(hunk))
         /\ Stands(ls, top, d, a, b, j, l, t)
         /\ Stands(Splice(ls, Len(top) + (i - d), Old(hunk), New(hunk)), top, d, a, b, i, k, t)
<1> DEFINE old == Old(hunk)  new == New(hunk)  p == Len(top) + (i - d)
           out == Splice(ls, p, old, new)
<1>1. Slice(old, a, i, j) /\ Slice(new, b, k, l) /\ i <= j
  BY DEF HunkTakes
<1>2. old \in Seq(Lines) /\ new \in Seq(Lines)
  BY <1>1 DEF Slice
<1>3. ls \in Seq(Lines) /\ d \in Nat
  BY DEF Stands
<1>4. d <= j
  BY <1>1, <1>3
<1>5. Stands(ls, top, d, a, b, j, l, t)
  BY <1>4, StandsAbove
<1> HIDE DEF old, new
<1>6. p \in Found(ls, old) /\ p \in 0 .. Len(ls) - Len(old)
  BY <1>1, <1>5, FoundThere
<1>7. Spliced(ls, p, old, new, out)
  <2> HIDE DEF p
  <2> QED BY <1>2, <1>3, <1>6, SpliceIs
<1>8. Stands(out, top, d, a, b, i, k, t)
  <2> HIDE DEF out
  <2> QED BY <1>1, <1>5, <1>7, StandsSpliced
<1> QED BY <1>5, <1>6, <1>8 DEF old, new

(* Lines that stand as in the text before agree with it.                    *)
LEMMA StandsAgrees ==
  ASSUME NEW a, NEW b \in Seq(Lines), NEW ls, NEW x, NEW y, NEW t,
         Stands(ls, << >>, 0, a, b, x, y, t)
  PROVE  Agrees(ls, a, x)
<1>1. /\ x \in Nat /\ y \in Nat /\ y <= Len(b) /\ t \in {0, 1} /\ Len(b) \in Nat
      /\ Len(ls) = ((Len(<< >>) + (x - 0)) + (Len(b) - y)) + t
      /\ \A k \in 1 .. x - 0 : ls[Len(<< >>) + k] = a[0 + k]
  BY DEF Stands
<1>2. /\ Len(<< >>) = 0 /\ x - 0 = x /\ 0 + x = x /\ \A k \in 1 .. x : 0 + k = k
  BY <1>1
<1>3. x <= Len(ls)
  BY <1>1, <1>2
<1>4. \A k \in 1 .. x : ls[k] = a[k]
  BY <1>1, <1>2
<1> QED BY <1>3, <1>4 DEF Agrees

-----------------------------------------------------------------------------
(* A block: the operations of all hunks, one after the other.               *)
JoinIs(hunks, f) ==
  f = [h \in 0 .. Len(hunks) |-> IF h = 0 THEN << >> ELSE f[h - 1] \o hunks[h].ops]
JoinOf(hunks) == CHOOSE f : JoinIs(hunks, f)
Joins(hunks, f) ==
  /\ f[0] = << >> /\ ParseBlock(hunks) = <<[at |-> 1, ops |-> f[Len(hunks)]]>>
  /\ \A h \in 0 .. Len(hunks) : f[h] \in Seq(Ops)
  /\ \A h \in 1 .. Len(hunks) : f[h] = f[h - 1] \o hunks[h].ops

(* The operations of a block, hunk by hunk.                                 *)
LEMMA BlockJoins ==
  ASSUME NEW hunks \in Seq(Hunks)
  PROVE  \E f : Joins(hunks, f)
<1> DEFINE L == Len(hunks)  V == Seq(Ops)  none == << >>
           step == [h \in 1 .. L |-> [u \in V |-> u \o hunks[h].ops]]
<1>1. L \in Nat /\ none \in V
  OBVIOUS
<1>2. \A h \in 1 .. L : hunks[h].ops \in V
  <2>1. \A h \in 1 .. L : hunks[h] \in Hunks
    OBVIOUS
  <2> QED BY <2>1 DEF Hunks
<1>3. \A h \in 1 .. L : \A u \in V : u \o hunks[h].ops \in V
  <2> SUFFICES ASSUME NEW h \in 1 .. L, NEW u \in V PROVE u \o hunks[h].ops \in V
    OBVIOUS
  <2> DEFINE t == hunks[h].ops
  <2>1. t \in Seq(Ops)
    BY <1>2
  <2> HIDE DEF t
  <2>2. Together(Ops, u, t, u \o t)
    BY <2>1, ConcatIs
  <2> QED BY <2>2 DEF Together, t
<1> HIDE DEF V, L
<1>4. step \in [1 .. L -> [V -> V]]
  BY <1>3
<1>5. \A h \in 1 .. L : \A u \in V : step[h][u] = u \o hunks[h].ops
  OBVIOUS
<1> HIDE DEF step, none
<1>6. PICK g : Recurs(V, none, L, step, g)
  BY <1>1, <1>4, Recursion
<1>7. g \in [0 .. L -> V] /\ g[0] = none /\ \A h \in 1 .. L : g[h] = step[h][g[h - 1]]
  BY <1>6 DEF Recurs
<1>8. JoinIs(hunks, g)
  <2>1. ASSUME NEW h \in 0 .. L
        PROVE  g[h] = IF h = 0 THEN << >> ELSE g[h - 1] \o hunks[h].ops
    <3>1. CASE h = 0
      BY <1>7, <3>1 DEF none
    <3>2. CASE h # 0
      <4>1. h \in 1 .. L /\ h - 1 \in 0 .. L
        BY <1>1, <3>2
      <4>2. g[h - 1] \in V
        BY <1>7, <4>1
      <4> QED BY <1>5, <1>7, <3>2, <4>1, <4>2
    <3> QED BY <3>1, <3>2
  <2>2. g = [h \in 0 .. L |-> g[h]]
    BY <1>7
  <2> QED BY <2>1, <2>2 DEF JoinIs, L
<1> DEFINE f == JoinOf(hunks)
<1>9. JoinIs(hunks, f)
  BY <1>8 DEF JoinOf
<1>10. ParseBlock(hunks) = <<[at |-> 1, ops |-> f[L]]>>
  BY DEF ParseBlock, JoinOf, JoinIs, L
<1> HIDE DEF f
<1>11. \A h \in 0 .. L : f[h] = IF h = 0 THEN << >> ELSE f[h - 1] \o hunks[h].ops
  BY <1>9 DEF JoinIs, L
<1>12. f[0] = none
  <2>1. 0 \in 0 .. L
    BY <1>1
  <2> QED BY <1>11, <2>1 DEF none
<1>13. \A h \in 1 .. L : f[h] = f[h - 1] \o hunks[h].ops
  <2>1. \A h \in 1 .. L : h \in 0 .. L /\ h # 0
    BY <1>1
  <2> QED BY <1>11, <2>1
<1> DEFINE T == {h \in Nat : f[h] \in V}
<1>14. 0 \in T
  BY <1>1, <1>12
<1>15. ASSUME NEW h \in 0 .. L - 1, h \in T PROVE h + 1 \in T
  <2>1. h + 1 \in 1 .. L /\ (h + 1) - 1 = h /\ h + 1 \in Nat
    BY <1>1
  <2>2. f[h + 1] = f[h] \o hunks[h + 1].ops
    BY <1>13, <2>1
  <2>3. f[h] \in V
    BY <1>15
  <2> QED BY <1>3, <2>1, <2>2, <2>3
<1> HIDE DEF T
<1>16. 0 .. L \subseteq T
  BY <1>1, <1>14, <1>15, UpTo
<1>17. \A h \in 0 .. L : f[h] \in V
  BY <1>16 DEF T
<1>18. Joins(hunks, f)
  BY <1>10, <1>12, <1>13, <1>17 DEF Joins, L, V, none
<1> QED BY <1>18

(* The places of two runs of operations.                                    *)
LEMMA PlacesJoined ==
  ASSUME NEW s \in Seq(Ops), NEW t \in Seq(Ops)
  PROVE  Places(s \o t) = Places(s) \cup Places(t)
<1> DEFINE u == s \o t
<1>1. Together(Ops, s, t, u)
  BY ConcatIs
<1>2. /\ Len(s) \in Nat /\ Len(t) \in Nat
      /\ DOMAIN s = 1 .. Len(s) /\ DOMAIN t = 1 .. Len(t)
  OBVIOUS
<1> HIDE DEF u
<1>3. /\ u \in Seq(Ops) /\ Len(u) = Len(s) + Len(t)
      /\ \A k \in 1 .. Len(s) + Len(t) : u[k] = IF k <= Len(s) THEN s[k] ELSE t[k - Len(s)]
  BY <1>1 DEF Together
<1>4. DOMAIN u = 1 .. Len(s) + Len(t)
  <2>1. DOMAIN u = 1 .. Len(u)
    BY <1>3
  <2> QED BY <1>3, <2>1
<1>5. ASSUME NEW p \in Places(u) PROVE p \in Places(s) \cup Places(t)
  <2>1. PICK k \in 1 .. Len(s) + Len(t) : u[k].kind # "+" /\ u[k].at = p
    BY <1>4, <1>5 DEF Places, Taken
  <2>2. CASE k <= Len(s)
    <3>1. k \in DOMAIN s /\ u[k] = s[k]
      BY <1>2, <1>3, <2>2
    <3> QED BY <2>1, <3>1 DEF Places, Taken
  <2>3. CASE ~(k <= Len(s))
    <3>1. k - Len(s) \in DOMAIN t /\ u[k] = t[k - Len(s)]
      BY <1>2, <1>3, <2>3
    <3> QED BY <2>1, <3>1 DEF Places, Taken
  <2> QED BY <2>2, <2>3
<1>6. ASSUME NEW p \in Places(s) PROVE p \in Places(u)
  <2>1. PICK k \in 1 .. Len(s) : s[k].kind # "+" /\ s[k].at = p
    BY <1>2, <1>6 DEF Places, Taken
  <2>2. k \in DOMAIN u /\ u[k] = s[k]
    BY <1>2, <1>3, <1>4
  <2> QED BY <2>1, <2>2 DEF Places, Taken
<1>7. ASSUME NEW p \in Places(t) PROVE p \in Places(u)
  <2>1. PICK k \in 1 .. Len(t) : t[k].kind # "+" /\ t[k].at = p
    BY <1>2, <1>7 DEF Places, Taken
  <2>2. Len(s) + k \in DOMAIN u /\ u[Len(s) + k] = t[k]
    <3>1. /\ Len(s) + k \in 1 .. Len(s) + Len(t) /\ ~(Len(s) + k <= Len(s))
          /\ (Len(s) + k) - Len(s) = k
      BY <1>2
    <3> QED BY <1>3, <1>4, <3>1
  <2> QED BY <2>1, <2>2 DEF Places, Taken
<1> QED BY <1>5, <1>6, <1>7 DEF u

(* If its lines belong together there was one hunk: two of them leave a     *)
(* line out that stands between them.                                       *)
LEMMA BlockOfOne ==
  ASSUME NEW a \in Seq(Lines), NEW b \in Seq(Lines), NEW hunks, NEW ax, NEW ay, NEW bx, NEW by,
         Aligned(hunks, a, b, ax, ay, bx, by),
         NEW block, ParseBlock(hunks)[1] = block, OneHunk(block.ops), Old(block) # << >>
  PROVE  Len(hunks) = 1 /\ block.ops = hunks[1].ops
<1> DEFINE L == Len(hunks)
<1>1. /\ hunks \in Seq(Hunks) /\ L \in Nat /\ Len(a) \in Nat
      /\ ax \in [1 .. L + 1 -> 0 .. Len(a)] /\ ay \in [0 .. L -> 0 .. Len(a)]
      /\ \A h \in 0 .. L : Gap(a, b, ay[h], ax[h + 1], by[h], bx[h + 1])
  BY DEF Aligned, Spots
<1>2. /\ \A h \in 1 .. L : HunkTakes(hunks[h], a, b, ax[h], ay[h], bx[h], by[h])
      /\ \A h \in 1 .. L : ax[h] > 0 => ax[h] < ay[h]
      /\ \A h \in 1 .. L : h < L => ax[h] < ay[h] /\ ay[h] < ax[h + 1]
  BY DEF Aligned
<1>3. PICK f : Joins(hunks, f)
  BY <1>1, BlockJoins
<1>4. /\ f[0] = << >> /\ ParseBlock(hunks) = <<[at |-> 1, ops |-> f[L]]>>
      /\ \A h \in 0 .. L : f[h] \in Seq(Ops)
      /\ \A h \in 1 .. L : f[h] = f[h - 1] \o hunks[h].ops
  BY <1>3 DEF Joins
<1>5. block.ops = f[L]
  <2>1. block = [at |-> 1, ops |-> f[L]]
    BY <1>4
  <2> QED BY <2>1
<1> HIDE DEF L
<1>6. L # 0
  <2>1. SUFFICES ASSUME L = 0 PROVE FALSE
    OBVIOUS
  <2>2. Old(block) = << >>
    BY <1>4, <1>5, <2>1, SideEmpty DEF Old
  <2> QED BY <2>2
<1>7. ASSUME L > 1 PROVE FALSE
  <2> DEFINE T == {h \in Nat : \A p \in Places(f[h]) : \E g \in 1 .. h : p \in ax[g] + 1 .. ay[g]}
  <2>1. 0 \in T
    <3>1. Places(<< >>) = {}
      BY DEF Places, Taken
    <3> QED BY <1>4, <3>1
  <2>2. ASSUME NEW h \in 0 .. L - 1, h \in T PROVE h + 1 \in T
    <3>1. h + 1 \in 1 .. L /\ (h + 1) - 1 = h /\ h \in 0 .. L /\ h + 1 \in Nat /\ h \in Nat
      BY <1>1
    <3>2. hunks[h + 1].ops \in Seq(Ops) /\ Places(hunks[h + 1].ops) = ax[h + 1] + 1 .. ay[h + 1]
      <4>1. HunkTakes(hunks[h + 1], a, b, ax[h + 1], ay[h + 1], bx[h + 1], by[h + 1])
        BY <1>2, <3>1
      <4> QED BY <4>1 DEF HunkTakes, Hunks
    <3>3. f[h + 1] = f[h] \o hunks[h + 1].ops /\ f[h] \in Seq(Ops)
      BY <1>4, <3>1
    <3>4. Places(f[h + 1]) = Places(f[h]) \cup (ax[h + 1] + 1 .. ay[h + 1])
      BY <3>2, <3>3, PlacesJoined
    <3>5. ASSUME NEW p \in Places(f[h + 1]) PROVE \E g \in 1 .. h + 1 : p \in ax[g] + 1 .. ay[g]
      <4>1. CASE p \in Places(f[h])
        <5>1. PICK g \in 1 .. h : p \in ax[g] + 1 .. ay[g]
          BY <2>2, <4>1
        <5>2. g \in 1 .. h + 1
          BY <3>1
        <5> QED BY <5>1, <5>2
      <4>2. CASE p \in ax[h + 1] + 1 .. ay[h + 1]
        <5>1. h + 1 \in 1 .. h + 1
          BY <3>1
        <5> QED BY <4>2, <5>1
      <4> QED BY <3>4, <3>5, <4>1, <4>2
    <3> QED BY <3>1, <3>5
  <2> HIDE DEF T
  <2>3. 0 .. L \subseteq T
    BY <1>1, <2>1, <2>2, UpTo
  <2>4. \A p \in Places(f[L]) : \E g \in 1 .. L : p \in ax[g] + 1 .. ay[g]
    <3>1. L \in 0 .. L
      BY <1>1
    <3> QED BY <2>3, <3>1 DEF T
  <2> DEFINE S == {h \in Nat : \A p \in Places(hunks[1].ops) \cup Places(hunks[2].ops) :
                                 h + 2 <= L => p \in Places(f[h + 2])}
  <2>5. 0 \in S
    <3>1. 1 \in 1 .. L /\ 2 \in 1 .. L /\ 0 \in 0 .. L /\ 1 \in 0 .. L /\ 2 \in 0 .. L
      BY <1>1, <1>7
    <3>2. f[1] = f[0] \o hunks[1].ops /\ f[2] = f[1] \o hunks[2].ops
      <4>1. 1 - 1 = 0 /\ 2 - 1 = 1
        OBVIOUS
      <4> QED BY <1>4, <3>1, <4>1
    <3>3. hunks[1].ops \in Seq(Ops) /\ hunks[2].ops \in Seq(Ops)
      BY <1>2, <3>1 DEF HunkTakes, Hunks
    <3>4. Places(f[2]) = Places(f[1]) \cup Places(hunks[2].ops)
      BY <1>4, <3>1, <3>2, <3>3, PlacesJoined
    <3>5. Places(f[1]) = Places(f[0]) \cup Places(hunks[1].ops)
      BY <1>4, <3>1, <3>2, <3>3, PlacesJoined
    <3>6. 0 + 2 = 2
      OBVIOUS
    <3> QED BY <3>4, <3>5, <3>6
  <2>6. ASSUME NEW h \in 0 .. (L - 2) - 1, h \in S PROVE h + 1 \in S
    <3>1. /\ h + 3 \in 1 .. L /\ (h + 3) - 1 = h + 2 /\ h + 2 \in 0 .. L /\ (h + 1) + 2 = h + 3
          /\ h + 1 \in Nat
      BY <1>1, <1>7
    <3>2. f[h + 3] = f[h + 2] \o hunks[h + 3].ops /\ f[h + 2] \in Seq(Ops)
      BY <1>4, <3>1
    <3>3. hunks[h + 3].ops \in Seq(Ops)
      BY <1>2, <3>1 DEF HunkTakes, Hunks
    <3>4. Places(f[h + 3]) = Places(f[h + 2]) \cup Places(hunks[h + 3].ops)
      BY <3>2, <3>3, PlacesJoined
    <3>5. h + 2 <= L
      BY <1>1, <3>1
    <3> QED BY <2>6, <3>1, <3>4, <3>5
  <2> HIDE DEF S
  <2>7. 0 .. L - 2 \subseteq S
    <3>1. L - 2 \in Nat
      BY <1>1, <1>7
    <3> QED BY <2>5, <2>6, <3>1, UpTo
  <2>8. Places(hunks[1].ops) \cup Places(hunks[2].ops) \subseteq Places(f[L])
    <3>1. L - 2 \in 0 .. L - 2 /\ (L - 2) + 2 = L /\ L <= L
      BY <1>1, <1>7
    <3> QED BY <2>7, <3>1 DEF S
  <2> DEFINE U == {h \in Nat : h + 2 <= L => ax[2] <= ax[h + 2]}
  <2>9. 0 \in U
    <3>1. ax[2] <= ax[2] /\ 0 + 2 = 2
      <4>1. 2 \in 1 .. L + 1
        BY <1>1, <1>7
      <4>2. ax[2] \in 0 .. Len(a)
        BY <1>1, <4>1
      <4>3. ax[2] <= ax[2]
        BY <1>1, <4>2
      <4> QED BY <4>3
    <3> QED BY <3>1
  <2>10. ASSUME NEW h \in 0 .. (L - 2) - 1, h \in U PROVE h + 1 \in U
    <3>1. /\ h + 2 \in 1 .. L /\ h + 2 < L /\ h + 2 <= L /\ (h + 2) + 1 = (h + 1) + 2 /\ h + 1 \in Nat
          /\ h + 2 \in 0 .. L /\ h + 2 \in 1 .. L + 1 /\ (h + 2) + 1 \in 1 .. L + 1 /\ 2 \in 1 .. L + 1
      BY <1>1, <1>7
    <3>2. ax[h + 2] < ay[h + 2] /\ ay[h + 2] < ax[(h + 2) + 1]
      BY <1>2, <3>1
    <3>3. /\ ax[h + 2] \in 0 .. Len(a) /\ ay[h + 2] \in 0 .. Len(a)
          /\ ax[(h + 2) + 1] \in 0 .. Len(a) /\ ax[2] \in 0 .. Len(a)
      BY <1>1, <3>1
    <3>4. ax[2] <= ax[h + 2]
      BY <2>10, <3>1
    <3>5. ax[2] <= ax[(h + 2) + 1]
      <4>1. \A p, q, r, s \in Nat : p <= q /\ q < r /\ r < s => p <= s
        OBVIOUS
      <4>2. Len(a) \in Nat
        BY <1>1
      <4>3. /\ ax[h + 2] \in Nat /\ ay[h + 2] \in Nat
            /\ ax[(h + 2) + 1] \in Nat /\ ax[2] \in Nat
        BY <3>3, <4>2
      <4> QED BY <3>2, <3>4, <4>1, <4>3
    <3> QED BY <3>1, <3>5
  <2> HIDE DEF U
  <2>11. 0 .. L - 2 \subseteq U
    <3>1. L - 2 \in Nat
      BY <1>1, <1>7
    <3> QED BY <2>9, <2>10, <3>1, UpTo
  <2>12. ASSUME NEW g \in 2 .. L PROVE ax[2] <= ax[g]
    <3>1. g - 2 \in 0 .. L - 2 /\ (g - 2) + 2 = g /\ g <= L
      BY <1>1, <1>7
    <3> QED BY <2>11, <3>1 DEF U
  <2>13. /\ ax[1] \in Nat /\ ax[2] \in Nat /\ ay[1] \in Nat /\ ay[2] \in Nat
         /\ ax[1] < ay[1] /\ ay[1] < ax[2] /\ ax[2] < ay[2]
    <3>1. 1 \in 1 .. L /\ 2 \in 1 .. L /\ 1 \in 1 .. L + 1 /\ 2 \in 1 .. L + 1 /\ 1 \in 0 .. L /\ 2 \in 0 .. L
          /\ 1 < L /\ 1 + 1 = 2
      BY <1>1, <1>7
    <3>2. /\ ax[1] \in 0 .. Len(a) /\ ax[2] \in 0 .. Len(a)
          /\ ay[1] \in 0 .. Len(a) /\ ay[2] \in 0 .. Len(a)
      BY <1>1, <3>1
    <3>3. ax[1] < ay[1] /\ ay[1] < ax[2]
      BY <1>2, <3>1
    <3>4. ax[2] > 0
      BY <1>1, <3>2, <3>3
    <3>5. ax[2] < ay[2]
      BY <1>2, <3>1, <3>4
    <3> QED BY <1>1, <3>2, <3>3, <3>5
  <2>14. ay[1] \in Places(f[L]) /\ ax[2] + 1 \in Places(f[L])
    <3>1. Places(hunks[1].ops) = ax[1] + 1 .. ay[1] /\ Places(hunks[2].ops) = ax[2] + 1 .. ay[2]
      <4>1. 1 \in 1 .. L /\ 2 \in 1 .. L
        BY <1>1, <1>7
      <4> QED BY <1>2, <4>1 DEF HunkTakes
    <3>2. ay[1] \in ax[1] + 1 .. ay[1] /\ ax[2] + 1 \in ax[2] + 1 .. ay[2]
      BY <2>13
    <3> QED BY <2>8, <3>1, <3>2
  <2>15. ay[1] + 1 \in Places(f[L])
    <3>1. ay[1] .. ax[2] + 1 \subseteq Places(f[L])
      BY <1>5, <2>14 DEF OneHunk
    <3>2. ay[1] + 1 \in ay[1] .. ax[2] + 1
      BY <2>13
    <3> QED BY <3>1, <3>2
  <2>16. PICK g \in 1 .. L : ay[1] + 1 \in ax[g] + 1 .. ay[g]
    BY <2>4, <2>15
  <2>17. CASE g = 1
    BY <2>13, <2>16, <2>17
  <2>18. CASE g # 1
    <3>1. g \in 2 .. L /\ g \in 1 .. L + 1
      BY <1>1, <2>18
    <3>2. ax[2] <= ax[g] /\ ax[g] \in 0 .. Len(a)
      BY <1>1, <2>12, <3>1
    <3>3. ax[g] + 1 <= ay[1] + 1
      BY <2>16
    <3>4. ax[g] \in Nat
      BY <1>1, <3>2
    <3>5. \A p, q, r \in Nat : p < q /\ q <= r => ~ (r + 1 <= p + 1)
      OBVIOUS
    <3> QED BY <2>13, <3>2, <3>3, <3>4, <3>5
  <2> QED BY <2>17, <2>18
<1>8. L = 1
  BY <1>1, <1>6, <1>7
<1>9. f[L] = hunks[1].ops
  <2> DEFINE s == hunks[1].ops
  <2>1. 1 \in 1 .. L /\ 1 - 1 = 0
    BY <1>8
  <2>2. s \in Seq(Ops)
    BY <1>2, <2>1 DEF HunkTakes, Hunks
  <2>3. f[1] = << >> \o s
    BY <1>4, <2>1
  <2> HIDE DEF s
  <2>4. << >> \o s = s
    BY <2>2
  <2> QED BY <1>8, <2>3, <2>4 DEF s
<1> QED BY <1>5, <1>8, <1>9 DEF L


-----------------------------------------------------------------------------
(* What the hunks make of the lines.  A hunk lands where it is meant to: on *)
(* the file it was made for because nothing is nearer to where it says, and *)
(* on another because there is nowhere else it could go.                    *)
LEMMA HunkLands ==
  ASSUME NEW a \in Seq(Lines), NEW b \in Seq(Lines), NEW ax, NEW ay, NEW bx, NEW by,
         Aligned(patch, a, b, ax, ay, bx, by), NEW h \in 1 .. Len(patch), above \in Seq(Lines),
         Stands(lines, Top, dropped, a, b, ax[h + 1], bx[h + 1], Spare),
         NEW i \in Nearest(Found(lines, Old(patch[h])), patch[h]),
         h = Len(patch) => Len(lines) > 0,
         \/ Untouched
         \/ Below(patch[h]) /\ Cardinality(Found(lines, Old(patch[h]))) = 1
  PROVE  Stands(Splice(lines, i, Old(patch[h]), New(patch[h])), Top, dropped, a, b,
                ax[h], bx[h], Spare)
<1> DEFINE L == Len(patch)  hunk == patch[h]  p == Len(Top) + (ax[h] - dropped)
           q == ax[h]  r == ay[h]
<1>0. Top \in Seq(Lines) /\ Len(Top) = Len(above)
  BY UnixIs DEF Top
<1>1. /\ L \in Nat /\ Len(a) \in Nat /\ Len(b) \in Nat /\ Spots(L, Len(a), Len(b), ax, ay, bx, by)
  BY DEF Aligned
<1>2. /\ HunkTakes(hunk, a, b, ax[h], ay[h], bx[h], by[h])
      /\ h < L => ax[h] < ay[h]
  BY DEF Aligned
<1>3. h \in 0 .. L /\ h \in 1 .. L + 1 /\ h + 1 \in 1 .. L + 1 /\ ~(h < L) => h = L
  BY <1>1
<1>4. Gap(a, b, ay[h], ax[h + 1], by[h], bx[h + 1])
  BY <1>3 DEF Aligned
<1>5. ax[h] \in Nat /\ ay[h] \in Nat /\ bx[h] \in Nat /\ by[h] \in Nat
  <2>1. \A n \in Nat : 0 .. n \subseteq Nat
    OBVIOUS
  <2> QED BY <1>1, <1>3, <2>1 DEF Spots
<1>6. /\ hunk \in Hunks /\ hunk.at = ax[h] + 1 /\ ax[h] <= ay[h] /\ Slice(Old(hunk), a, ax[h], ay[h])
  BY <1>2 DEF HunkTakes
<1>7. /\ Old(hunk) \in Seq(Lines) /\ Len(Old(hunk)) = ay[h] - ax[h]
  BY <1>6 DEF Slice
<1>8. lines \in Seq(Lines) /\ dropped \in Nat
  BY DEF Stands
<1>9. i \in Found(lines, Old(hunk))
  BY DEF Nearest
<1>10. ASSUME dropped <= ax[h], i = p
       PROVE  Stands(Splice(lines, i, Old(hunk), New(hunk)), Top, dropped, a, b,
                     ax[h], bx[h], Spare)
  <2> HIDE DEF hunk
  <2> QED BY <1>0, <1>2, <1>4, <1>5, <1>10, HunkSpliced
<1>11. ASSUME dropped <= ax[h]
       PROVE  /\ p \in Found(lines, Old(hunk))
              /\ Stands(lines, Top, dropped, a, b, ay[h], by[h], Spare)
  <2> HIDE DEF hunk
  <2> QED BY <1>0, <1>2, <1>4, <1>5, <1>11, HunkSpliced
<1>12. CASE Untouched
  <2>1. Top = << >> /\ dropped = 0 /\ Len(Top) = 0
    <3>1. above = << >> /\ dropped = 0
      BY <1>12 DEF Untouched
    <3>2. Len(Top) = 0
      BY <1>0, <3>1
    <3> QED BY <1>0, <3>1, <3>2
  <2>2. dropped <= ax[h] /\ p = ax[h]
    BY <1>5, <2>1
  <2>3. Stands(lines, << >>, 0, a, b, ay[h], by[h], Spare)
    BY <1>11, <2>1, <2>2
  <2>4. Agrees(lines, a, ay[h])
    BY <2>3, StandsAgrees
  <2>5. r \in q .. r /\ q \in Nat /\ r \in Nat
    BY <1>5, <1>6
  <2> HIDE DEF hunk
  <2>6. Nearest(Found(lines, Old(hunk)), hunk) = {q}
    BY <1>6, <1>8, <2>4, <2>5, FoundWhereItSits
  <2>7. i = p
    BY <2>2, <2>6 DEF hunk
  <2> QED BY <1>10, <2>2, <2>7 DEF hunk
<1>13. CASE Below(hunk) /\ Cardinality(Found(lines, Old(hunk))) = 1
  <2>1. ax[h] < ay[h]
    <3>1. SUFFICES ASSUME ~(ax[h] < ay[h]) PROVE FALSE
      OBVIOUS
    <3>2. Len(Old(hunk)) = 0
      <4>1. \A x, y \in Nat : x <= y /\ ~(x < y) => y - x = 0
        OBVIOUS
      <4> QED BY <1>5, <1>6, <1>7, <3>1, <4>1
    <3>3. Old(hunk) = << >>
      <4> DEFINE old == Old(hunk)
      <4> HIDE DEF old
      <4>1. \A s \in Seq(Lines) : Len(s) = 0 => s = << >>
        OBVIOUS
      <4> QED BY <1>7, <3>2, <4>1 DEF old
    <3>4. Len(lines) > 0
      BY <1>2, <1>3, <3>1
    <3> QED BY <1>8, <1>13, <3>3, <3>4, NothingOld
  <2>2. dropped <= ax[h]
    BY <1>2, <1>5, <1>8, <1>13, <2>1, BelowIs
  <2>3. Found(lines, Old(hunk)) = {p}
    <3> HIDE DEF p, hunk
    <3> QED BY <1>7, <1>8, <1>11, <1>13, <2>2, OnlyOne
  <2> QED BY <1>9, <1>10, <2>2, <2>3
<1> QED BY <1>12, <1>13

(* The line an empty file is split into.                                    *)
LEMMA SpareIs == Spare \in {0, 1}
BY DEF Spare

(* All hunks of a unified diff are in.                                      *)
LEMMA AllIn ==
  ASSUME Drifted, Plainly, EndsPlainly, NEW ax, NEW ay, NEW bx, NEW by,
         Aligned(patch, ToLines(edit.before), ToLines(edit.after), ax, ay, bx, by),
         Stands(lines, Top, dropped, ToLines(edit.before), ToLines(edit.after),
                ax[1], bx[1], Spare)
  PROVE  Stored(lines) = Unix(AfterDrift(edit.after))
<1> DEFINE a == ToLines(edit.before)  b == ToLines(edit.after)  L == Len(patch)
           m == Len(b)  d == dropped
<1>1. /\ edit.before \in Seq(Lines) /\ Len(edit.before) \in Nat \ {0}
      /\ edit.after \in Seq(Lines) /\ Len(edit.after) \in Nat \ {0}
  BY EditIs DEF Drifted
<1>2. /\ a \in Seq(Lines) /\ b \in Seq(Lines) /\ Len(a) \in Nat /\ m \in Nat
      /\ ~EndsLine(Source) => Len(a) = Len(edit.before)
      /\ ~EndsLine(Target) => m = Len(edit.after)
  <2>1. edit \in Edits
    BY DEF Drifted
  <2>2. /\ a \in Seq(Lines) /\ b \in Seq(Lines)
        /\ ~EndsLine(Source) => Len(a) = Len(edit.before)
        /\ ~EndsLine(Target) => m = Len(edit.after)
    BY <2>1, SourceIs, TargetIs
  <2> QED BY <2>2
<1>3. Top \in Seq(Lines) /\ Len(Top) \in Nat /\ d \in 0 .. Len(edit.before) - 1
  BY FileEnds DEF Drifted
<1>4. /\ Aligned(patch, a, b, ax, ay, bx, by) /\ L \in Nat /\ Spots(L, Len(a), m, ax, ay, bx, by)
  BY DEF Aligned
<1>5. Stands(lines, Top, d, a, b, ax[1], bx[1], Spare)
  OBVIOUS
<1> HIDE DEF a, b
<1>6. Gap(a, b, 0, ax[1], 0, bx[1])
  <2>1. 0 \in 0 .. L /\ 0 + 1 = 1
    BY <1>4
  <2>2. ay[0] = 0 /\ by[0] = 0
    BY <1>4 DEF Spots
  <2> QED BY <1>4, <2>1, <2>2 DEF Aligned
<1> HIDE DEF d
<1>7. /\ lines \in Seq(Lines) /\ d \in 0 .. bx[1] /\ bx[1] \in 0 .. m
      /\ Len(lines) = (Len(Top) + (m - d)) + Spare
      /\ \A k \in 1 .. Len(Top) : lines[k] = Top[k]
      /\ \A k \in 1 .. m - d : lines[Len(Top) + k] = b[d + k]
      /\ Spare = 1 => lines[Len(lines)] = Blank
  BY <1>2, <1>3, <1>5, <1>6, WholeText
<1>8. Whole(lines, Spare)
  <2>1. d \in 0 .. m
    BY <1>2, <1>7
  <2> QED BY <1>7, <2>1 DEF Whole, b, d
<1>9. ASSUME ~EndsLine(Target), lines = << >> PROVE FALSE
  <2>1. ~EndsLine(Source)
    BY <1>9 DEF EndsPlainly, Source, Target
  <2>2. Len(a) = Len(edit.before) /\ m = Len(edit.after)
    BY <1>2, <1>9, <2>1
  <2>3. Len(lines) = 0
    BY <1>9
  <2>4. d = m /\ bx[1] = m
    BY <1>2, <1>3, <1>7, <2>3, SpareIs
  <2>5. ax[1] \in Nat /\ ax[1] = bx[1]
    <3>1. ax[1] \in Nat /\ bx[1] \in Nat /\ ax[1] - 0 = bx[1] - 0
      BY <1>6 DEF Gap
    <3> QED BY <3>1
  <2>6. ax[1] > 0
    BY <1>1, <2>2, <2>4, <2>5
  <2>7. L = 0
    <3>1. SUFFICES ASSUME L # 0 PROVE FALSE
      OBVIOUS
    <3>2. 1 \in 1 .. L /\ 1 \in 0 .. L
      BY <1>4, <3>1
    <3>3. bx[1] < by[1]
      BY <1>4, <2>6, <3>2 DEF Aligned
    <3>4. by[1] \in 0 .. m
      BY <1>4, <3>2 DEF Spots
    <3> QED BY <1>2, <2>4, <3>3, <3>4
  <2>8. ax[1] = Len(a)
    BY <1>4, <2>7 DEF Spots
  <2> QED BY <1>1, <1>3, <2>2, <2>4, <2>5, <2>8
<1> QED BY <1>8, <1>9, StoredPlainly

(* The block of one hunk is in.                                             *)
LEMMA BlockIn ==
  ASSUME Drifted, Plainly, EndsPlainly, EndsLine(edit.before),
         NEW hunks, NEW ax, NEW ay, NEW bx, NEW by,
         Aligned(hunks, ToLines(edit.before), ToLines(edit.after), ax, ay, bx, by),
         lines = SplitLines(file), NEW block, ParseBlock(hunks)[1] = block,
         OneHunk(block.ops), Below(block), Old(block) # << >>,
         Cardinality(Found(lines, Old(block))) = 1
  PROVE  /\ block.ops # << >>
         /\ NewlineAdded(Join(Splice(lines, Lowest(Found(lines, Old(block))), Old(block), New(block))))
              = Unix(AfterDrift(edit.after))
<1> DEFINE a == ToLines(edit.before)  b == ToLines(edit.after)  hunk == hunks[1]
           m == Len(b)  d == dropped  p == Len(Top) + (ax[1] - dropped)
           q == ax[1]  r == ay[1]
           out == Splice(lines, p, Old(hunk), New(hunk))
<1>1. /\ edit.before \in Seq(Lines) /\ Len(edit.before) \in Nat \ {0}
      /\ edit.after \in Seq(Lines) /\ Len(edit.after) \in Nat \ {0}
  BY EditIs DEF Drifted
<1>2. /\ a \in Seq(Lines) /\ b \in Seq(Lines) /\ Len(a) \in Nat /\ m \in Nat
      /\ Len(a) = Len(edit.before) - 1 /\ EndsLine(Target)
  <2>1. edit \in Edits
    BY DEF Drifted
  <2>2. EndsLine(Source)
    BY FileEnds
  <2>3. a \in Seq(Lines) /\ b \in Seq(Lines) /\ Len(a) = Len(edit.before) - 1
    BY <2>1, <2>2, SourceIs, TargetIs
  <2>4. EndsLine(Target)
    BY <2>2 DEF EndsPlainly, Source, Target
  <2> QED BY <2>3, <2>4
<1>3. Top \in Seq(Lines) /\ Len(Top) \in Nat /\ d \in 0 .. Len(edit.before) - 1
  BY FileEnds DEF Drifted
<1>4. Aligned(hunks, a, b, ax, ay, bx, by)
  OBVIOUS
<1>5. Stands(lines, Top, d, a, b, Len(a), m, Spare)
  BY OpenStands
<1> HIDE DEF a, b
<1>6. Len(hunks) = 1 /\ block.ops = hunk.ops
  BY <1>2, <1>4, BlockOfOne
<1>7. Old(block) = Old(hunk) /\ New(block) = New(hunk) /\ Below(hunk)
  BY <1>6 DEF Old, New, Below
<1>8. /\ 1 \in 1 .. Len(hunks) /\ 1 \in 0 .. Len(hunks) /\ 0 \in 0 .. Len(hunks)
      /\ 1 + 1 = 2 /\ 0 + 1 = 1 /\ Len(hunks) + 1 = 2 /\ 1 \in 1 .. Len(hunks) + 1
  BY <1>6
<1>9. /\ HunkTakes(hunk, a, b, q, r, bx[1], by[1])
      /\ Gap(a, b, r, Len(a), by[1], m) /\ Gap(a, b, 0, q, 0, bx[1])
  <2>1. Spots(Len(hunks), Len(a), m, ax, ay, bx, by)
    BY <1>4 DEF Aligned
  <2>2. ay[0] = 0 /\ by[0] = 0 /\ ax[2] = Len(a) /\ bx[2] = m
    BY <1>8, <2>1 DEF Spots
  <2>3. Gap(a, b, ay[0], ax[0 + 1], by[0], bx[0 + 1]) /\ Gap(a, b, ay[1], ax[1 + 1], by[1], bx[1 + 1])
    BY <1>4, <1>8 DEF Aligned
  <2> QED BY <1>4, <1>8, <2>2, <2>3 DEF Aligned
<1>10. q \in Nat /\ r \in Nat /\ bx[1] \in Nat /\ by[1] \in Nat /\ r <= Len(a)
  BY <1>9 DEF Gap
<1>11. /\ Slice(Old(hunk), a, q, r) /\ q <= r
  BY <1>9 DEF HunkTakes
<1>12. Old(hunk) \in Seq(Lines) /\ Len(Old(hunk)) = r - q
  BY <1>11 DEF Slice
<1>13. q < r
  <2> DEFINE old == Old(hunk)
  <2>1. old # << >> /\ old \in Seq(Lines) /\ Len(old) = r - q
    BY <1>7, <1>12
  <2> HIDE DEF old, q, r
  <2>2. Len(old) # 0
    BY <2>1
  <2> QED BY <1>10, <1>11, <2>1, <2>2
<1> HIDE DEF hunk, q, r, m
<1>14. d \in Nat
  BY <1>1, <1>3
<1>15. d <= q
  <2>1. dropped \in Nat
    BY <1>14
  <2>2. dropped <= q
    BY <1>7, <1>9, <1>10, <1>13, <2>1, BelowIs
  <2> QED BY <2>2
<1> HIDE DEF d
<1>16. /\ Len(Top) + (q - d) \in Found(lines, Old(hunk))
       /\ Stands(Splice(lines, Len(Top) + (q - d), Old(hunk), New(hunk)),
                 Top, d, a, b, q, bx[1], Spare)
  BY <1>2, <1>3, <1>5, <1>9, <1>10, <1>15, HunkSpliced
<1>17. p = Len(Top) + (q - d)
  BY DEF d, q
<1>18. p \in Found(lines, Old(hunk)) /\ Stands(out, Top, d, a, b, q, bx[1], Spare)
  BY <1>16, <1>17
<1>19. p \in Nat
  BY <1>3, <1>10, <1>14, <1>15, <1>17
<1> HIDE DEF p, out
<1>20. lines \in Seq(Lines)
  BY <1>5 DEF Stands
<1>21. Found(lines, Old(hunk)) = {p}
  BY <1>7, <1>12, <1>18, <1>20, OnlyOne
<1>22. Lowest({p}) = p
  <2>1. {p} \subseteq Nat /\ {p} # {}
    BY <1>19
  <2>2. Lowest({p}) \in {p}
    BY <2>1, LowestIs
  <2> QED BY <2>2
<1>23. /\ out \in Seq(Lines) /\ d \in 0 .. bx[1] /\ bx[1] \in 0 .. m
       /\ Len(out) = (Len(Top) + (m - d)) + Spare
       /\ \A k \in 1 .. Len(Top) : out[k] = Top[k]
       /\ \A k \in 1 .. m - d : out[Len(Top) + k] = b[d + k]
       /\ Spare = 1 => out[Len(out)] = Blank
  <2>1. b \in Seq(Lines) /\ Top \in Seq(Lines)
    BY <1>2, <1>3
  <2>2. /\ out \in Seq(Lines) /\ d \in 0 .. bx[1] /\ bx[1] \in 0 .. Len(b)
        /\ Len(out) = (Len(Top) + (Len(b) - d)) + Spare
        /\ \A k \in 1 .. Len(Top) : out[k] = Top[k]
        /\ \A k \in 1 .. Len(b) - d : out[Len(Top) + k] = b[d + k]
        /\ Spare = 1 => out[Len(out)] = Blank
    <3> HIDE DEF Spare
    <3> QED BY <1>9, <1>18, <2>1, WholeText
  <2> QED BY <2>2 DEF m
<1>24. Whole(out, Spare)
  <2>1. d \in 0 .. m
    BY <1>2, <1>23
  <2> QED BY <1>23, <2>1 DEF Whole, b, d, m
<1>25. Spare = 0
  <2>1. SUFFICES ASSUME ~EndsNewline(file) PROVE FALSE
    BY DEF Spare
  <2>2. /\ Len(file) = Len(Top) + (Len(edit.before) - dropped) /\ Len(file) \in Nat \ {0}
        /\ EndsLine(file)
    BY FileEnds
  <2>3. Len(file) = 1
    BY <2>1, <2>2 DEF EndsNewline
  <2>4. Len(a) = Len(edit.before) - 1
    BY <1>2
  <2>5. 1 = Len(Top) + (Len(edit.before) - d)
    BY <2>2, <2>3 DEF d
  <2> QED BY <1>1, <1>3, <1>10, <1>13, <1>14, <1>15, <2>4, <2>5
<1>26. block.ops # << >>
  <2>1. Old(block) = Side(block.ops, "-")
    BY DEF Old
  <2> QED BY <2>1, SideEmpty
<1>27. Whole(out, 0)
  BY <1>24, <1>25
<1>28. NewlineAdded(Join(out)) = Unix(AfterDrift(edit.after))
  BY <1>2, <1>27, NewlineBack
<1> QED BY <1>7, <1>21, <1>22, <1>26, <1>28 DEF out

-----------------------------------------------------------------------------
(* A patch does what its diff shows.  Until it is stored, what was parsed   *)
(* is the diff, and the hunks that were applied, from the last one up, have *)
(* made the new text of what they stand on.                                 *)
Sound == (unique /\ Applies) \/ Untouched
Opened == pc = "hunks" /\ turn = 0 => lines = SplitLines(file)
BlockShown ==
  format = "block" /\ pc \in {"wait", "hunks"} =>
    /\ turn = 0
    /\ \E hunks, ax, ay, bx, by :
         /\ Aligned(hunks, ToLines(edit.before), ToLines(edit.after), ax, ay, bx, by)
         /\ patch = ParseBlock(hunks)
HunksShown(ax, ay, bx, by) ==
  /\ Aligned(patch, ToLines(edit.before), ToLines(edit.after), ax, ay, bx, by)
  /\ turn \in 0 .. Len(patch)
  /\ pc = "hunks" /\ Sound /\ Plainly =>
       Stands(lines, Top, dropped, ToLines(edit.before), ToLines(edit.after),
              ax[Len(patch) + 1 - turn], bx[Len(patch) + 1 - turn], Spare)
UnifiedShown ==
  format = "unified" /\ ~Misread /\ pc \in {"wait", "hunks"} =>
    \E ax, ay, bx, by : HunksShown(ax, ay, bx, by)
ShowInv == Opened /\ BlockShown /\ UnifiedShown /\ DoesWhatItShows

(* Until something is stored the file is what the other program left.       *)
LEMMA FailDrifted ==
  ASSUME FailInv, pc \in {"wait", "hunks"}
  PROVE  Drifted
BY DEF FailInv, Kept0, Drifted

(* The induction: one lemma for each action.                                *)
LEMMA ShowInit == Init => ShowInv
BY DEF Init, ShowInv, Opened, BlockShown, UnifiedShown, DoesWhatItShows

LEMMA ShowGenerate == FailInv /\ ShowInv /\ Generate => ShowInv'
<1> SUFFICES ASSUME FailInv, ShowInv, Generate PROVE ShowInv'
  OBVIOUS
<1> DEFINE a == ToLines(edit.before)  b == ToLines(edit.after)
<1>1. PICK ops \in {DiffLines(a, b), Replaced(a, b)} :
        IF format = "unified"
        THEN /\ patch' = ParseUnified(UnifiedDiff(ops))
             /\ section' = SectionOf(UnifiedDiff(ops))
        ELSE patch' = ParseBlock(UnifiedDiff(ops)) /\ section' = OneSection
  BY DEF Generate
<1>2. /\ pc = "diff" /\ pc' = "wait" /\ edit' = edit /\ format' = format /\ turn' = turn
  BY DEF Generate
<1>3. edit \in Edits /\ turn = 0
  BY <1>2 DEF FailInv, Kept0
<1>4. a \in Seq(Lines) /\ b \in Seq(Lines)
  BY <1>3, EditIs, ToLinesIs
<1>5. ASSUME format = "unified", ~Misread
      PROVE  /\ \A k \in 1 .. Len(a) : a[k] \notin Dashes \cup Marks
             /\ \A k \in 1 .. Len(b) : b[k] \notin Pluses \cup Marks
  BY <1>3, <1>5, NotMisread
<1>6. ToLines(edit'.before) = a /\ ToLines(edit'.after) = b /\ (Misread' <=> Misread)
  BY <1>2 DEF Misread
<1> HIDE DEF a, b
<1>7. \E o, n : Diff(ops, a, b, o, n)
  BY <1>1, <1>4, DiffLinesDiffs, ReplacedDiffs
<1>8. PICK o, n : Diff(ops, a, b, o, n)
  BY <1>7
<1> DEFINE hunks == UnifiedDiff(ops)
<1>9. PICK ax, ay, bx, by : Aligned(hunks, a, b, ax, ay, bx, by)
  BY <1>4, <1>8, UnifiedAligned
<1> HIDE DEF hunks
<1>10. BlockShown'
  <2>1. ASSUME format = "block" PROVE patch' = ParseBlock(hunks)
    BY <1>1, <2>1 DEF hunks
  <2> QED BY <1>2, <1>3, <1>6, <1>9, <2>1 DEF BlockShown
<1>11. UnifiedShown'
  <2> SUFFICES ASSUME format = "unified", ~Misread
               PROVE  HunksShown(ax, ay, bx, by)'
    BY <1>2, <1>6 DEF UnifiedShown
  <2>1. patch' = hunks
    <3>1. ParseUnified(hunks) = hunks
      BY <1>4, <1>5, <1>9, PlainlyParsed
    <3> QED BY <1>1, <3>1 DEF hunks
  <2>2. Aligned(patch', a, b, ax, ay, bx, by)
    BY <1>9, <2>1
  <2>3. turn' \in 0 .. Len(patch')
    <3>1. Len(patch') \in Nat
      BY <2>2 DEF Aligned
    <3> QED BY <1>2, <1>3, <3>1
  <2>4. ~(pc' = "hunks")
    BY <1>2
  <2> QED BY <1>6, <2>2, <2>3, <2>4 DEF HunksShown
<1> QED BY <1>2, <1>10, <1>11 DEF ShowInv, Opened, DoesWhatItShows

LEMMA ShowDrift == FailInv /\ ShowInv /\ Drift => ShowInv'
<1> SUFFICES ASSUME ShowInv, Drift PROVE ShowInv'
  OBVIOUS
<1>1. /\ pc = "wait" /\ pc' = "wait" /\ edit' = edit /\ format' = format /\ patch' = patch
      /\ turn' = turn
  BY DEF Drift, parsed
<1>2. (Misread' <=> Misread)
  BY <1>1 DEF Misread
<1>3. \A ax, ay, bx, by : HunksShown(ax, ay, bx, by) => HunksShown(ax, ay, bx, by)'
  BY <1>1 DEF HunksShown
<1>4. BlockShown'
  BY <1>1 DEF ShowInv, BlockShown
<1>5. UnifiedShown'
  BY <1>1, <1>2, <1>3 DEF ShowInv, UnifiedShown
<1> QED BY <1>1, <1>4, <1>5 DEF ShowInv, Opened, DoesWhatItShows

LEMMA ShowOpen == FailInv /\ ShowInv /\ Open => ShowInv'
<1> SUFFICES ASSUME FailInv, ShowInv, Open PROVE ShowInv'
  OBVIOUS
<1> DEFINE a == ToLines(edit.before)  b == ToLines(edit.after)
<1>1. /\ pc = "wait" /\ pc' = "hunks" /\ edit' = edit /\ format' = format /\ patch' = patch
      /\ turn' = turn /\ file' = file /\ above' = above /\ dropped' = dropped
      /\ lines' = SplitLines(file)
  BY DEF Open, parsed
<1>2. (Misread' <=> Misread) /\ (Plainly' <=> Plainly) /\ Spare' = Spare /\ Top' = Top
  BY <1>1 DEF Misread, Plainly, Spare, Held, Top
<1>3. turn = 0
  BY <1>1 DEF FailInv, Kept0
<1>4. Plainly => Stands(lines', Top, dropped, a, b, Len(a), Len(b), Spare)
  <2>1. Drifted
    BY <1>1, FailDrifted
  <2>2. Plainly => Stands(SplitLines(file), Top, dropped, a, b, Len(a), Len(b), Spare)
    BY <2>1, OpenStands
  <2> QED BY <1>1, <2>2
<1>5. BlockShown'
  BY <1>1 DEF ShowInv, BlockShown
<1>6. UnifiedShown'
  <2> SUFFICES ASSUME format = "unified", ~Misread
               PROVE  (\E ax, ay, bx, by : HunksShown(ax, ay, bx, by))'
    BY <1>1, <1>2 DEF UnifiedShown
  <2>1. PICK ax, ay, bx, by : HunksShown(ax, ay, bx, by)
    BY <1>1 DEF ShowInv, UnifiedShown
  <2>2. ToLines(edit'.before) = a /\ ToLines(edit'.after) = b
    BY <1>1
  <2>3. Aligned(patch, a, b, ax, ay, bx, by) /\ turn \in 0 .. Len(patch)
    BY <2>1 DEF HunksShown
  <2> HIDE DEF a, b
  <2> DEFINE N == Len(patch) + 1
  <2>4. ax[N] = Len(a) /\ bx[N] = Len(b)
    BY <2>3 DEF Aligned, Spots
  <2>5. N - turn = N
    <3>1. Len(patch) \in Nat
      BY <2>3 DEF Aligned
    <3> QED BY <1>3, <3>1
  <2>6. Plainly' => Stands(lines', Top', dropped', a, b, ax[N - turn], bx[N - turn], Spare')
    BY <1>1, <1>2, <1>4, <2>4, <2>5
  <2>7. Len(patch') + 1 - turn' = N - turn
    <3>1. patch' = patch /\ turn' = turn
      BY <1>1
    <3>2. Len(patch) \in Nat /\ turn = 0
      BY <1>3, <2>3 DEF Aligned
    <3> QED BY <3>1, <3>2
  <2>8. HunksShown(ax, ay, bx, by)'
    BY <1>1, <2>2, <2>3, <2>6, <2>7 DEF HunksShown
  <2> QED BY <2>8
<1>7. Opened'
  BY <1>1 DEF Opened
<1> QED BY <1>1, <1>5, <1>6, <1>7 DEF ShowInv, DoesWhatItShows

LEMMA ShowElsewhere == FailInv /\ ShowInv /\ Elsewhere => ShowInv'
<1> SUFFICES ASSUME FailInv, Elsewhere PROVE ShowInv'
  OBVIOUS
<1>1. /\ ~(section.known /\ section.ours) /\ pc' \in {"failed", "done"}
      /\ edit' = edit /\ format' = format
  BY DEF Elsewhere
<1>2. Misread'
  <2>1. Misread
    BY <1>1 DEF FailInv, Understood, OneSection
  <2> QED BY <1>1, <2>1 DEF Misread
<1> QED BY <1>1, <1>2 DEF ShowInv, Opened, BlockShown, UnifiedShown, DoesWhatItShows, Promised

LEMMA ShowApplyHunk == FailInv /\ ShowInv /\ ApplyHunk => ShowInv'
<1> SUFFICES ASSUME FailInv, ShowInv, ApplyHunk PROVE ShowInv'
  OBVIOUS
<1> DEFINE a == ToLines(edit.before)  b == ToLines(edit.after)  L == Len(patch)  h == L - turn
<1>1. /\ pc = "hunks" /\ pc' = "hunks" /\ format = "unified" /\ turn < Len(patch) /\ turn' = Turn
      /\ edit' = edit /\ format' = format /\ patch' = patch /\ file' = file
      /\ above' = above /\ dropped' = dropped
      /\ \E i \in Nearest(Found(lines, Old(HunkAt(Turn))), HunkAt(Turn)) :
           lines' = Splice(lines, i, Old(HunkAt(Turn)), New(HunkAt(Turn)))
      /\ unique' = (unique /\ Cardinality(Found(lines, Old(HunkAt(Turn)))) = 1)
  BY DEF ApplyHunk, parsed
<1>2. turn \in 0 .. L /\ L \in Nat
  BY <1>1 DEF FailInv, Placed, Sits
<1>3. /\ h \in 1 .. L /\ L + 1 - Turn = h /\ L + 1 - turn = h + 1 /\ Turn \in 0 .. L /\ Turn # 0
      /\ h = L => turn = 0
  BY <1>1, <1>2 DEF Turn
<1> HIDE DEF h
<1>4. HunkAt(Turn) = patch[h]
  BY <1>3 DEF HunkAt
<1>5. PICK i \in Nearest(Found(lines, Old(patch[h])), patch[h]) :
        lines' = Splice(lines, i, Old(patch[h]), New(patch[h]))
  BY <1>1, <1>4
<1>6. /\ (Misread' <=> Misread) /\ (Plainly' <=> Plainly) /\ Spare' = Spare /\ Top' = Top
      /\ (Untouched' <=> Untouched) /\ (Applies' <=> Applies)
  BY <1>1 DEF Misread, Plainly, Spare, Held, Top, Untouched, Applies, Below
<1>7. ASSUME Sound'
      PROVE  /\ Sound
             /\ \/ Untouched
                \/ Applies /\ Cardinality(Found(lines, Old(patch[h]))) = 1
  <2>1. CASE Untouched'
    BY <1>6, <2>1 DEF Sound
  <2>2. CASE unique' /\ Applies'
    <3>1. unique /\ Cardinality(Found(lines, Old(HunkAt(Turn)))) = 1
      BY <1>1, <2>2
    <3> QED BY <1>4, <1>6, <2>2, <3>1 DEF Sound
  <2> QED BY <1>7, <2>1, <2>2 DEF Sound
<1>8. UnifiedShown'
  <2> SUFFICES ASSUME ~Misread
               PROVE  (\E ax, ay, bx, by : HunksShown(ax, ay, bx, by))'
    BY <1>1, <1>6 DEF UnifiedShown
  <2>1. PICK ax, ay, bx, by : HunksShown(ax, ay, bx, by)
    BY <1>1 DEF ShowInv, UnifiedShown
  <2>2. /\ Aligned(patch, a, b, ax, ay, bx, by)
        /\ Sound /\ Plainly => Stands(lines, Top, dropped, a, b, ax[h + 1], bx[h + 1], Spare)
    BY <1>1, <1>3, <2>1 DEF HunksShown
  <2>3. a \in Seq(Lines) /\ b \in Seq(Lines) /\ above \in Seq(Lines)
    <3>1. edit \in Edits /\ above \in Seq(Lines)
      BY DEF FailInv, Kept0
    <3> QED BY <3>1, EditIs, ToLinesIs
  <2>4. h = L => Len(lines) > 0
    <3>1. SUFFICES ASSUME h = L PROVE Len(lines) > 0
      OBVIOUS
    <3>2. lines = SplitLines(file)
      BY <1>1, <1>3, <3>1 DEF ShowInv, Opened
    <3>3. Drifted
      BY <1>1, FailDrifted
    <3> QED BY <3>2, <3>3, OpenHas
  <2>5. ToLines(edit'.before) = a /\ ToLines(edit'.after) = b
    BY <1>1
  <2> HIDE DEF a, b
  <2>6. ASSUME Sound', Plainly PROVE Stands(lines', Top, dropped, a, b, ax[h], bx[h], Spare)
    <3>1. \/ Untouched
          \/ Below(patch[h]) /\ Cardinality(Found(lines, Old(patch[h]))) = 1
      <4>1. Applies => Below(patch[h])
        <5>1. patch \in Seq(Hunks)
          BY <2>2 DEF Aligned
        <5>2. DOMAIN patch = 1 .. L
          BY <5>1
        <5>3. h \in DOMAIN patch
          BY <1>3, <5>2, Zenon
        <5> QED BY <5>3, Zenon DEF Applies
      <4> QED BY <1>7, <2>6, <4>1
    <3>2. Stands(lines, Top, dropped, a, b, ax[h + 1], bx[h + 1], Spare)
      BY <1>7, <2>2, <2>6
    <3>3. Stands(Splice(lines, i, Old(patch[h]), New(patch[h])), Top, dropped, a, b,
                 ax[h], bx[h], Spare)
      BY <1>3, <2>2, <2>3, <2>4, <3>1, <3>2, HunkLands
    <3> QED BY <1>5, <3>3
  <2>7. turn' \in 0 .. Len(patch') /\ Len(patch') + 1 - turn' = h
    BY <1>1, <1>3
  <2>8. Aligned(patch', a, b, ax, ay, bx, by)
    BY <1>1, <2>2
  <2>9. Sound' /\ Plainly' => Stands(lines', Top', dropped', a, b, ax[h], bx[h], Spare')
    BY <1>1, <1>6, <2>6
  <2>10. HunksShown(ax, ay, bx, by)'
    BY <2>5, <2>7, <2>8, <2>9 DEF HunksShown
  <2> QED BY <2>10
<1> QED BY <1>1, <1>3, <1>8 DEF ShowInv, Opened, BlockShown, DoesWhatItShows

LEMMA ShowHunkFails == FailInv /\ ShowInv /\ HunkFails => ShowInv'
<1> SUFFICES ASSUME HunkFails PROVE ShowInv'
  OBVIOUS
<1>1. pc' = "failed"
  BY DEF HunkFails
<1> QED BY <1>1 DEF ShowInv, Opened, BlockShown, UnifiedShown, DoesWhatItShows

LEMMA ShowStore == FailInv /\ ShowInv /\ Store => ShowInv'
<1> SUFFICES ASSUME FailInv, ShowInv, Store PROVE ShowInv'
  OBVIOUS
<1>1. /\ pc = "hunks" /\ pc' \in {"done", "failed"} /\ format = "unified" /\ turn = Len(patch)
      /\ file' = Stored(lines) /\ edit' = edit /\ format' = format /\ patch' = patch
      /\ above' = above /\ dropped' = dropped /\ unique' = unique
  BY DEF Store, parsed
<1>2. DoesWhatItShows'
  <2>1. /\ (Misread' <=> Misread) /\ (Plainly' <=> Plainly)
        /\ (Untouched' <=> Untouched) /\ (Applies' <=> Applies)
        /\ (EndsPlainly' <=> EndsPlainly)
        /\ AfterDrift(edit.after)' = AfterDrift(edit.after)
    BY <1>1 DEF Misread, Plainly, Untouched, Applies, Below, EndsPlainly, AfterDrift
  <2>2. SUFFICES ASSUME ~Misread, Plainly, EndsPlainly, Sound
                 PROVE  file' = Unix(AfterDrift(edit.after))
    BY <1>1, <2>1 DEF DoesWhatItShows, Promised, Plainly, Sound, Untouched
  <2>3. PICK ax, ay, bx, by : HunksShown(ax, ay, bx, by)
    BY <1>1, <2>2 DEF ShowInv, UnifiedShown
  <2>4. Len(patch) \in Nat /\ Len(patch) + 1 - turn = 1
    BY <1>1, <2>3 DEF HunksShown, Aligned
  <2>5. /\ Aligned(patch, ToLines(edit.before), ToLines(edit.after), ax, ay, bx, by)
        /\ Stands(lines, Top, dropped, ToLines(edit.before), ToLines(edit.after),
                  ax[1], bx[1], Spare)
    BY <1>1, <2>2, <2>3, <2>4 DEF HunksShown
  <2>6. Drifted
    BY <1>1, FailDrifted
  <2>7. Stored(lines) = Unix(AfterDrift(edit.after))
    BY <2>2, <2>5, <2>6, AllIn
  <2> QED BY <1>1, <2>7
<1> QED BY <1>1, <1>2 DEF ShowInv, Opened, BlockShown, UnifiedShown

LEMMA ShowApplyBlock == FailInv /\ ShowInv /\ ApplyBlock => ShowInv'
<1> SUFFICES ASSUME FailInv, ShowInv, ApplyBlock PROVE ShowInv'
  OBVIOUS
<1> DEFINE block == patch[1]  old == Old(block)  places == Found(lines, old)
           out == Splice(lines, Lowest(places), old, New(block))
<1>1. /\ pc = "hunks" /\ format = "block" /\ edit' = edit /\ format' = format /\ patch' = patch
      /\ above' = above /\ dropped' = dropped
  BY DEF ApplyBlock, parsed
<1>2. \/ pc' = "failed"
      \/ /\ pc' = "done"
         /\ unique' = (old # << >> /\ Cardinality(places) = 1)
         /\ old # << >> /\ block.ops # << >> => file' = NewlineAdded(Join(out))
  BY DEF ApplyBlock
<1>3. DoesWhatItShows'
  <2>1. /\ (Plainly' <=> Plainly) /\ (Applies' <=> Applies)
        /\ (EndsPlainly' <=> EndsPlainly)
        /\ AfterDrift(edit.after)' = AfterDrift(edit.after)
    BY <1>1 DEF Plainly, Applies, Below, EndsPlainly, AfterDrift
  <2>2. SUFFICES ASSUME pc' = "done", Plainly, EndsPlainly, unique', Applies
                 PROVE  file' = Unix(AfterDrift(edit.after))
    BY <1>1, <2>1 DEF DoesWhatItShows, Promised, Plainly
  <2>3. /\ old # << >> /\ Cardinality(places) = 1
        /\ block.ops # << >> => file' = NewlineAdded(Join(out))
    BY <1>2, <2>2
  <2>4. turn = 0 /\ lines = SplitLines(file)
    BY <1>1 DEF ShowInv, BlockShown, Opened
  <2>5. PICK hunks, ax, ay, bx, by :
          /\ Aligned(hunks, ToLines(edit.before), ToLines(edit.after), ax, ay, bx, by)
          /\ patch = ParseBlock(hunks)
    BY <1>1 DEF ShowInv, BlockShown
  <2>6. ParseBlock(hunks)[1] = block
    BY <2>5
  <2>7. Below(block) /\ OneHunk(block.ops)
    <3>1. 1 \in DOMAIN patch
      BY <2>5 DEF ParseBlock
    <3> QED BY <2>2, <3>1 DEF Applies
  <2>8. Drifted /\ EndsLine(edit.before)
    BY <1>1, <2>2, FailDrifted DEF EndsPlainly
  <2> HIDE DEF block
  <2>9. block.ops # << >> /\ NewlineAdded(Join(out)) = Unix(AfterDrift(edit.after))
    BY <2>2, <2>3, <2>4, <2>5, <2>6, <2>7, <2>8, BlockIn
  <2> QED BY <2>3, <2>9
<1> QED BY <1>1, <1>2, <1>3 DEF ShowInv, Opened, BlockShown, UnifiedShown

LEMMA ShowStep == FailInv /\ ShowInv /\ [Next]_vars => ShowInv'
<1> SUFFICES ASSUME FailInv, ShowInv, [Next]_vars PROVE ShowInv'
  OBVIOUS
<1>1. CASE UNCHANGED vars
  <2>1. /\ pc' = pc /\ edit' = edit /\ format' = format /\ patch' = patch /\ file' = file
        /\ lines' = lines /\ turn' = turn /\ above' = above /\ dropped' = dropped
        /\ unique' = unique
    BY <1>1 DEF vars, parsed
  <2>2. /\ (Misread' <=> Misread) /\ (Sound' <=> Sound) /\ (Plainly' <=> Plainly)
        /\ Spare' = Spare /\ Top' = Top
        /\ (DoesWhatItShows' <=> DoesWhatItShows)
    BY <2>1 DEF Misread, Sound, Plainly, Untouched, Applies, Below, Spare, Held, Top,
       DoesWhatItShows, Promised, EndsPlainly, AfterDrift
  <2>3. \A ax, ay, bx, by : HunksShown(ax, ay, bx, by) => HunksShown(ax, ay, bx, by)'
    BY <2>1, <2>2 DEF HunksShown
  <2>4. Opened' /\ BlockShown'
    BY <2>1 DEF ShowInv, Opened, BlockShown
  <2>5. UnifiedShown'
    BY <2>1, <2>2, <2>3 DEF ShowInv, UnifiedShown
  <2> QED BY <2>2, <2>4, <2>5 DEF ShowInv
<1>2. CASE Next
  BY <1>2, ShowGenerate, ShowDrift, ShowOpen, ShowElsewhere, ShowApplyHunk, ShowHunkFails,
     ShowStore, ShowApplyBlock DEF Next
<1> QED BY <1>1, <1>2

(* A patch made of a diff does what the diff shows, for texts that are      *)
(* compared whole, have no carriage return but at the end of a line and no  *)
(* line a unified diff is misread for: on the file it was made for a        *)
(* unified diff always does, and on one whose head has changed, or as a     *)
(* block, it does if every hunk had one place only when its turn came.      *)
THEOREM PatchDoesWhatItShows == Spec => []DoesWhatItShows
<1>1. ShowInv => DoesWhatItShows
  BY DEF ShowInv
<1> QED BY <1>1, ShowInit, ShowStep, FailInvariant, PTL DEF Spec
=============================================================================
