------------------------- MODULE AkkaPairing_proofs -------------------------
(***************************************************************************)
(* Replies meet their requests, for every workload, any reads and batches, *)
(* and the faults under which they do (Whole).  What the listener believes *)
(* to be unanswered is at any moment the concatenation of what is still on *)
(* its way there and back; the mailboxes on this way are read as           *)
(* sequences.                                                              *)
(***************************************************************************)
EXTENDS AkkaDelivery_proofs

-----------------------------------------------------------------------------
(* Concatenations.                                                         *)

(* s is the concatenation of the sequences ls, the k-th of which begins     *)
(* after place at[k].                                                      *)
FlatAt(ls, s, at) ==
    /\ at \in [1..Len(ls) + 1 -> Nat]
    /\ at[1] = 0 /\ at[Len(ls) + 1] = Len(s)
    /\ \A j, k \in 1..Len(ls) + 1 : j <= k => at[j] <= at[k]
    /\ \A k \in 1..Len(ls) : /\ at[k + 1] = at[k] + Len(ls[k])
                             /\ \A j \in 1..Len(ls[k]) : s[at[k] + j] = ls[k][j]
    /\ \A i \in 1..Len(s) : \E k \in 1..Len(ls) : \E j \in 1..Len(ls[k]) : i = at[k] + j
Flat(ls, s) == \E at : FlatAt(ls, s, at)

LEMMA FlatOne ==
    ASSUME NEW S, NEW l \in Seq(S)
    PROVE  Flat(<<l>>, l)
<1> DEFINE at == [k \in 1..2 |-> IF k = 1 THEN 0 ELSE Len(l)]
<1>1. Len(<<l>>) = 1 /\ <<l>>[1] = l /\ Len(l) \in Nat
  OBVIOUS
<1>2. at \in [1..2 -> Nat] /\ at[1] = 0 /\ at[2] = Len(l)
  BY <1>1
<1> HIDE DEF at
<1>3. FlatAt(<<l>>, l, at)
  BY <1>1, <1>2 DEF FlatAt
<1> QED BY <1>3 DEF Flat

LEMMA FlatEmpty == Flat(<<>>, <<>>)
<1> DEFINE at == [k \in 1..1 |-> 0]
<1>1. FlatAt(<<>>, <<>>, at)
  BY DEF FlatAt
<1> QED BY <1>1 DEF Flat

LEMMA Place ==
    ASSUME NEW a \in Nat, NEW b \in Nat, NEW n \in Nat, NEW j \in 1..n, a + n <= b
    PROVE  a + j \in 1..b
OBVIOUS

LEMMA PlaceAfter ==
    ASSUME NEW i \in Int, NEW c \in Nat, NEW g \in Nat, NEW n \in Nat, \E j \in 1..n : i - c = g + j
    PROVE  \E j \in 1..n : i = (c + g) + j
OBVIOUS

(* Offsets into two concatenations, one after the other.                   *)
LEMMA FlatConcat ==
    ASSUME NEW S, NEW ls \in Seq(Seq(S)), NEW ms \in Seq(Seq(S)), NEW s \in Seq(S), NEW t \in Seq(S),
           Flat(ls, s), Flat(ms, t)
    PROVE  Flat(ls \o ms, s \o t)
<1> DEFINE m == Len(ls)
           n == Len(ms)
           c == Len(s)
           e == Len(t)
           lm == ls \o ms
           st == s \o t
<1>1. /\ m \in Nat /\ n \in Nat /\ c \in Nat /\ e \in Nat /\ Len(lm) = m + n /\ Len(st) = c + e
      /\ \A k \in 1..m : lm[k] = ls[k] /\ Len(ls[k]) \in Nat
      /\ \A k \in 1..n : lm[k + m] = ms[k] /\ Len(ms[k]) \in Nat
      /\ \A i \in 1..c : st[i] = s[i]
      /\ \A i \in 1..e : st[c + i] = t[i]
  OBVIOUS
<1>2. PICK f : FlatAt(ls, s, f)
  BY DEF Flat
<1>3. PICK g : FlatAt(ms, t, g)
  BY DEF Flat
<1> HIDE DEF m, n, c, e, lm, st
<1>n. m \in Nat /\ n \in Nat /\ c \in Nat /\ e \in Nat
  BY <1>1
<1>4. /\ f \in [1..m + 1 -> Nat] /\ f[1] = 0 /\ f[m + 1] = c
      /\ \A j, k \in 1..m + 1 : j <= k => f[j] <= f[k]
      /\ \A k \in 1..m : /\ f[k + 1] = f[k] + Len(ls[k])
                         /\ \A j \in 1..Len(ls[k]) : s[f[k] + j] = ls[k][j]
      /\ \A i \in 1..c : \E k \in 1..m : \E j \in 1..Len(ls[k]) : i = f[k] + j
  BY <1>2 DEF FlatAt, m, c
<1>5. /\ g \in [1..n + 1 -> Nat] /\ g[1] = 0 /\ g[n + 1] = e
      /\ \A j, k \in 1..n + 1 : j <= k => g[j] <= g[k]
      /\ \A k \in 1..n : /\ g[k + 1] = g[k] + Len(ms[k])
                         /\ \A j \in 1..Len(ms[k]) : t[g[k] + j] = ms[k][j]
      /\ \A i \in 1..e : \E k \in 1..n : \E j \in 1..Len(ms[k]) : i = g[k] + j
  BY <1>3 DEF FlatAt, n, e
<1> DEFINE at == [k \in 1..(m + n) + 1 |-> IF k <= m THEN f[k] ELSE c + g[k - m]]
<1>6. /\ \A k \in 1..m + 1 : f[k] \in Nat /\ f[k] <= c
      /\ \A k \in 1..n + 1 : g[k] \in Nat /\ g[k] <= e
  <2>1. /\ m + 1 \in 1..m + 1 /\ n + 1 \in 1..n + 1
        /\ \A k \in 1..m + 1 : k <= m + 1
        /\ \A k \in 1..n + 1 : k <= n + 1
    BY <1>1
  <2> QED BY <1>4, <1>5, <2>1
<1>7. \A k \in 1..m : k \in 1..(m + n) + 1 /\ at[k] = f[k]
  BY <1>1
<1>8. \A k \in 1..n + 1 : k + m \in 1..(m + n) + 1 /\ at[k + m] = c + g[k]
  <2> TAKE k \in 1..n + 1
  <2>1. k + m \in 1..(m + n) + 1 /\ ~(k + m <= m) /\ (k + m) - m = k
    BY <1>1
  <2> QED BY <2>1
<1>9. at[m + 1] = f[m + 1] /\ m + 1 \in 1..(m + n) + 1
  <2>1. 1 \in 1..n + 1 /\ 1 + m = m + 1
    BY <1>1
  <2> QED BY <2>1, <1>1, <1>4, <1>5, <1>8
<1>10. \A k \in 1..(m + n) + 1 : \/ k \in 1..m
                                 \/ \E l \in 1..n + 1 : k = l + m
  <2> SUFFICES ASSUME NEW k \in 1..(m + n) + 1, ~(k \in 1..m) PROVE \E l \in 1..n + 1 : k = l + m
    OBVIOUS
  <2>1. k - m \in 1..n + 1 /\ k = (k - m) + m
    BY <1>1
  <2> QED BY <2>1
<1>d. DOMAIN at = 1..(m + n) + 1 /\ at = [k \in 1..(m + n) + 1 |-> at[k]]
  OBVIOUS
<1> HIDE DEF at
<1>11. at \in [1..(m + n) + 1 -> Nat]
  <2> SUFFICES ASSUME NEW k \in 1..(m + n) + 1 PROVE at[k] \in Nat
    BY <1>d
  <2>1. CASE k \in 1..m
    <3>1. k \in 1..m + 1
      BY <1>n, <2>1
    <3> QED BY <1>6, <1>7, <2>1, <3>1
  <2>2. CASE \E l \in 1..n + 1 : k = l + m
    <3>1. PICK l \in 1..n + 1 : k = l + m
      BY <2>2
    <3>2. g[l] \in Nat /\ at[k] = c + g[l]
      BY <1>6, <1>8, <3>1
    <3> QED BY <1>n, <3>2
  <2> QED BY <1>10, <2>1, <2>2
<1>12. at[1] = 0 /\ at[(m + n) + 1] = c + e
  <2>1. at[1] = 0
    <3>1. CASE m = 0
      BY <1>1, <1>4, <1>9, <3>1
    <3>2. CASE m # 0
      BY <1>1, <1>4, <1>7, <3>2
    <3> QED BY <3>1, <3>2
  <2>2. n + 1 \in 1..n + 1 /\ (n + 1) + m = (m + n) + 1
    BY <1>1
  <2> QED BY <1>5, <1>8, <2>1, <2>2
<1>13. ASSUME NEW j \in 1..(m + n) + 1, NEW k \in 1..(m + n) + 1, j <= k PROVE at[j] <= at[k]
  <2>1. CASE j \in 1..m /\ k \in 1..m
    <3>1. f[j] <= f[k]
      BY <1>1, <1>4, <1>13, <2>1
    <3> QED BY <1>7, <2>1, <3>1
  <2>2. CASE k \in 1..m /\ \E l \in 1..n + 1 : j = l + m
    BY <1>1, <1>13, <2>2
  <2>3. CASE j \in 1..m /\ \E l \in 1..n + 1 : k = l + m
    <3>1. PICK l \in 1..n + 1 : k = l + m
      BY <2>3
    <3>2. j \in 1..m + 1
      BY <1>n, <2>3
    <3>3. at[j] = f[j] /\ at[k] = c + g[l] /\ f[j] \in Nat /\ f[j] <= c /\ g[l] \in Nat
      BY <1>6, <1>7, <1>8, <2>3, <3>1, <3>2
    <3> QED BY <1>n, <3>3
  <2>4. CASE (\E l \in 1..n + 1 : j = l + m) /\ \E l \in 1..n + 1 : k = l + m
    <3>1. PICK i \in 1..n + 1, l \in 1..n + 1 : j = i + m /\ k = l + m
      BY <2>4
    <3>2. i <= l
      BY <1>1, <1>13, <3>1
    <3>3. g[i] <= g[l] /\ g[i] \in Nat /\ g[l] \in Nat
      BY <1>5, <1>6, <3>2
    <3>4. at[j] = c + g[i] /\ at[k] = c + g[l]
      BY <1>8, <3>1
    <3> QED BY <1>1, <3>3, <3>4, SMTT(30)
  <2> QED BY <1>10, <2>1, <2>2, <2>3, <2>4
<1>14. ASSUME NEW k \in 1..m
       PROVE  /\ k \in 1..m + n /\ at[k + 1] = at[k] + Len(lm[k])
              /\ \A j \in 1..Len(lm[k]) : st[at[k] + j] = lm[k][j]
  <2>1. lm[k] = ls[k] /\ Len(ls[k]) \in Nat /\ at[k] = f[k] /\ f[k] \in Nat /\ f[k + 1] <= c
        /\ k \in 1..m + n
    <3>1. k + 1 \in 1..m + 1 /\ k \in 1..m + 1
      BY <1>1
    <3> QED BY <1>1, <1>6, <1>7, <3>1
  <2>2. at[k + 1] = f[k + 1]
    <3>1. k + 1 \in 1..m \/ k = m
      BY <1>1, SMTT(30)
    <3> QED BY <1>7, <1>9, <3>1
  <2>3. f[k + 1] = f[k] + Len(ls[k])
    BY <1>4
  <2>4. ASSUME NEW j \in 1..Len(ls[k]) PROVE st[at[k] + j] = ls[k][j]
    <3>1. f[k] + j \in 1..c
      BY <1>n, <2>1, <2>3, Place
    <3>2. st[f[k] + j] = s[f[k] + j]
      BY <1>1, <3>1
    <3> QED BY <1>4, <2>1, <3>2
  <2> QED BY <2>1, <2>2, <2>3, <2>4
<1>15. ASSUME NEW l \in 1..n
       PROVE  /\ l + m \in 1..m + n /\ at[(l + m) + 1] = at[l + m] + Len(lm[l + m])
              /\ \A j \in 1..Len(lm[l + m]) : st[at[l + m] + j] = lm[l + m][j]
  <2>1. lm[l + m] = ms[l] /\ Len(ms[l]) \in Nat /\ l + m \in 1..m + n
    BY <1>1
  <2>2. l \in 1..n + 1 /\ l + 1 \in 1..n + 1 /\ (l + 1) + m = (l + m) + 1
    BY <1>1
  <2>3. at[l + m] = c + g[l] /\ at[(l + m) + 1] = c + g[l + 1] /\ g[l + 1] <= e /\ g[l] \in Nat
        /\ g[l + 1] \in Nat
    BY <1>6, <1>8, <2>2
  <2>4. g[l + 1] = g[l] + Len(ms[l])
    BY <1>5
  <2>5. ASSUME NEW j \in 1..Len(ms[l]) PROVE st[at[l + m] + j] = ms[l][j]
    <3>1. g[l] + j \in 1..e
      BY <1>n, <2>1, <2>3, <2>4, Place
    <3>2. st[c + (g[l] + j)] = t[g[l] + j]
      BY <1>1, <3>1
    <3>3. (c + g[l]) + j = c + (g[l] + j)
      <4>1. c \in Nat /\ g[l] \in Nat /\ j \in Nat
        BY <1>1, <2>1, <2>3
      <4> QED BY <4>1
    <3>4. t[g[l] + j] = ms[l][j]
      BY <1>5
    <3> QED BY <2>3, <3>2, <3>3, <3>4
  <2>6. c + (g[l] + Len(ms[l])) = (c + g[l]) + Len(ms[l])
    <3>1. c \in Nat /\ g[l] \in Nat /\ Len(ms[l]) \in Nat
      BY <1>1, <2>1, <2>3
    <3> QED BY <3>1
  <2>7. at[(l + m) + 1] = at[l + m] + Len(lm[l + m])
    <3>1. at[l + m] + Len(lm[l + m]) = (c + g[l]) + Len(ms[l])
      BY <2>1, <2>3
    <3>2. c + g[l + 1] = c + (g[l] + Len(ms[l]))
      BY <2>4
    <3>3. at[(l + m) + 1] = c + g[l + 1]
      BY <2>3
    <3> QED BY <2>6, <3>1, <3>2, <3>3
  <2>8. \A j \in 1..Len(lm[l + m]) : st[at[l + m] + j] = lm[l + m][j]
    BY <2>1, <2>5, ZenonT(30)
  <2> QED BY <2>1, <2>7, <2>8, ZenonT(30)
<1>16. ASSUME NEW k \in 1..m + n
       PROVE  k \in 1..m \/ \E l \in 1..n : k = l + m
  <2>1. k \in 1..m \/ (k - m \in 1..n /\ k = (k - m) + m)
    BY <1>1
  <2> QED BY <2>1
<1>17. ASSUME NEW i \in 1..c + e
       PROVE  \E k \in 1..m + n : \E j \in 1..Len(lm[k]) : i = at[k] + j
  <2>1. CASE i \in 1..c
    <3>1. PICK k \in 1..m : \E j \in 1..Len(ls[k]) : i = f[k] + j
      BY <1>4, <2>1
    <3> QED BY <1>1, <1>7, <1>14, <3>1
  <2>2. CASE i \notin 1..c
    <3>1. i - c \in 1..e
      BY <1>1, <2>2
    <3>2. PICK l \in 1..n : \E j \in 1..Len(ms[l]) : i - c = g[l] + j
      BY <1>5, <3>1
    <3>3. l \in 1..n + 1 /\ Len(ms[l]) \in Nat /\ i \in Int
      BY <1>1
    <3>4. \E j \in 1..Len(ms[l]) : i = (c + g[l]) + j
      <4>1. g[l] \in Nat
        BY <1>6, <3>3
      <4> DEFINE x == g[l]
                 z == Len(ms[l])
      <4>2. x \in Nat /\ z \in Nat /\ \E j \in 1..z : i - c = x + j
        BY <3>2, <3>3, <4>1
      <4> HIDE DEF x, z
      <4>3. \E j \in 1..z : i = (c + x) + j
        BY <1>n, <3>3, <4>2, PlaceAfter
      <4> QED BY <4>3 DEF x, z
    <3>5. l + m \in 1..m + n /\ lm[l + m] = ms[l] /\ at[l + m] = c + g[l]
      BY <1>1, <1>8, <1>15, <3>3
    <3> QED BY <3>4, <3>5
  <2> QED BY <2>1, <2>2
<1>18. \A k \in 1..m + n : /\ at[k + 1] = at[k] + Len(lm[k])
                           /\ \A j \in 1..Len(lm[k]) : st[at[k] + j] = lm[k][j]
  <2> TAKE k \in 1..m + n
  <2>1. CASE k \in 1..m
    BY <1>14, <2>1
  <2>2. CASE \E l \in 1..n : k = l + m
    <3>1. PICK l \in 1..n : k = l + m
      BY <2>2
    <3> QED BY <1>15, <3>1
  <2> QED BY <1>16, <2>1, <2>2
<1>19. Len(lm) = m + n /\ Len(st) = c + e
  BY <1>1
<1>20. FlatAt(lm, st, at)
  BY <1>11, <1>12, <1>13, <1>17, <1>18, <1>19 DEF FlatAt
<1> QED BY <1>20 DEF Flat, lm, st

Begins(s, l) == Len(l) <= Len(s) /\ \A j \in 1..Len(l) : s[j] = l[j]

Ends(s, l, z) ==
    s = l \o z /\ Len(z) = Len(s) - Len(l) /\ \A i \in 1..Len(z) : z[i] = s[Len(l) + i]

LEMMA HeadPart ==
    ASSUME NEW S, NEW l \in Seq(S), NEW s \in Seq(S), Begins(s, l)
    PROVE  \E z \in Seq(S) : Ends(s, l, z)
<1> DEFINE a == Len(l)
           z == SubSeq(s, a + 1, Len(s))
<1>1. a \in Nat /\ Len(s) \in Nat /\ z \in Seq(S) /\ a <= Len(s) /\ \A j \in 1..a : s[j] = l[j]
  BY SubSeqType DEF Begins
<1>2. \A i \in a + 1..Len(s) : s[i] \in S
  BY <1>1
<1>3. /\ Len(z) = Len(s) - a
      /\ \A i \in 1..Len(s) - a : z[i] = s[a + i]
  BY <1>1, <1>2, SubSeqProperties
<1> HIDE DEF a, z
<1> DEFINE u == l \o z
<1>4. u \in Seq(S) /\ Len(u) = Len(l) + Len(z)
      /\ \A i \in 1..Len(l) + Len(z) : u[i] = IF i <= Len(l) THEN l[i] ELSE z[i - Len(l)]
  BY <1>1, ConcatProperties
<1> HIDE DEF u
<1>5. \A i \in 1..Len(s) : s[i] = u[i]
  <2> TAKE i \in 1..Len(s)
  <2>1. CASE i <= a
    <3>1. i \in 1..Len(l) + Len(z) /\ i \in 1..a
      BY <1>1, <1>3, <2>1 DEF a
    <3> QED BY <1>1, <1>4, <2>1, <3>1 DEF a
  <2>2. CASE ~(i <= a)
    <3>1. i - a \in 1..Len(s) - a /\ a + (i - a) = i /\ i \in 1..Len(l) + Len(z)
      BY <1>1, <1>3, <2>2 DEF a
    <3>2. z[i - a] = s[i]
      BY <1>3, <3>1
    <3>3. u[i] = z[i - a]
      BY <1>4, <2>2, <3>1 DEF a
    <3> QED BY <3>2, <3>3
  <2> QED BY <2>1, <2>2
<1>6. Len(u) = Len(s)
  BY <1>1, <1>3, <1>4 DEF a
<1>7. s = u
  BY <1>4, <1>5, <1>6, SeqEqual
<1> QED BY <1>1, <1>3, <1>7 DEF u, a, Ends

LEMMA FlatTail ==
    ASSUME NEW S, NEW ls \in Seq(Seq(S)), NEW s \in Seq(S), Flat(ls, s), ls # <<>>
    PROVE  \E z \in Seq(S) : s = Head(ls) \o z /\ Flat(Tail(ls), z)
<1> DEFINE m == Len(ls)
           l == ls[1]
           a == Len(l)
           ts == Tail(ls)
<1>1. /\ m \in Nat /\ m >= 1 /\ Len(s) \in Nat /\ Head(ls) = l /\ l \in Seq(S) /\ a \in Nat
      /\ Len(ts) = m - 1 /\ \A k \in 1..m - 1 : ts[k] = ls[k + 1]
      /\ \A k \in 1..m : Len(ls[k]) \in Nat
  BY HeadTailProperties
<1>2. PICK at : FlatAt(ls, s, at)
  BY DEF Flat
<1> HIDE DEF m, l, a, ts
<1>3. /\ at \in [1..m + 1 -> Nat] /\ at[1] = 0 /\ at[m + 1] = Len(s)
      /\ \A j, k \in 1..m + 1 : j <= k => at[j] <= at[k]
      /\ \A k \in 1..m : /\ at[k + 1] = at[k] + Len(ls[k])
                         /\ \A j \in 1..Len(ls[k]) : s[at[k] + j] = ls[k][j]
      /\ \A i \in 1..Len(s) : \E k \in 1..m : \E j \in 1..Len(ls[k]) : i = at[k] + j
  BY <1>2 DEF FlatAt, m
<1>n. m \in Nat /\ m >= 1 /\ Len(s) \in Nat /\ a \in Nat
  BY <1>1
<1>4. at[2] = a /\ a <= Len(s) /\ \A j \in 1..a : s[j] = l[j]
  <2>1. 1 \in 1..m /\ 1 + 1 = 2 /\ 2 \in 1..m + 1 /\ m + 1 \in 1..m + 1 /\ 2 <= m + 1
    BY <1>n
  <2>2. at[2] = 0 + a
    BY <1>3, <2>1 DEF a, l
  <2>3. \A j \in 1..a : s[0 + j] = l[j]
    BY <1>3, <2>1 DEF a, l
  <2> QED BY <1>n, <1>3, <2>1, <2>2, <2>3
<1>5. PICK z \in Seq(S) : /\ s = l \o z /\ Len(z) = Len(s) - a
                          /\ \A i \in 1..Len(z) : z[i] = s[a + i]
  <2>1. Begins(s, l) /\ l \in Seq(S)
    BY <1>1, <1>4 DEF a, Begins
  <2>2. PICK z \in Seq(S) : Ends(s, l, z)
    BY <2>1, HeadPart
  <2> QED BY <2>2 DEF a, Ends
<1>6. \A k \in 1..m : k + 1 \in 1..m + 1 /\ at[k + 1] \in Nat /\ at[k + 1] >= a /\ at[k + 1] <= Len(s)
  <2> TAKE k \in 1..m
  <2>1. k + 1 \in 1..m + 1 /\ 2 \in 1..m + 1 /\ m + 1 \in 1..m + 1 /\ 2 <= k + 1 /\ k + 1 <= m + 1
    BY <1>n
  <2> QED BY <1>3, <1>4, <2>1
<1> DEFINE bt == [k \in 1..m |-> at[k + 1] - a]
<1>7. bt \in [1..(m - 1) + 1 -> Nat]
  BY <1>n, <1>6
<1>8. \A k \in 1..m : bt[k] = at[k + 1] - a
  OBVIOUS
<1> HIDE DEF bt
<1>9. bt[1] = 0 /\ bt[(m - 1) + 1] = Len(z)
  <2>1. 1 \in 1..m /\ m \in 1..m /\ 1 + 1 = 2 /\ (m - 1) + 1 = m
    BY <1>n
  <2> QED BY <1>n, <1>3, <1>4, <1>5, <1>8, <2>1, SMTT(30)
<1>10. \A j, k \in 1..(m - 1) + 1 : j <= k => bt[j] <= bt[k]
  <2> SUFFICES ASSUME NEW j \in 1..m, NEW k \in 1..m, j <= k PROVE bt[j] <= bt[k]
    BY <1>n
  <2>1. j + 1 \in 1..m + 1 /\ k + 1 \in 1..m + 1 /\ j + 1 <= k + 1
    BY <1>n
  <2>2. at[j + 1] <= at[k + 1] /\ at[j + 1] \in Nat /\ at[k + 1] \in Nat
    BY <1>3, <1>6, <2>1
  <2> QED BY <1>n, <1>8, <2>2
<1>11. ASSUME NEW k \in 1..m - 1
       PROVE  /\ bt[k + 1] = bt[k] + Len(ts[k])
              /\ \A j \in 1..Len(ts[k]) : z[bt[k] + j] = ts[k][j]
  <2>1. k \in 1..m /\ k + 1 \in 1..m /\ ts[k] = ls[k + 1]
    BY <1>1, <1>n
  <2> DEFINE x == at[k + 1]
             n == Len(ls[k + 1])
  <2>2. at[(k + 1) + 1] = x + n /\ \A j \in 1..n : s[x + j] = ls[k + 1][j]
    BY <1>3, <2>1
  <2>3. x \in Nat /\ x >= a /\ n \in Nat /\ x + n <= Len(s)
    BY <1>1, <1>6, <2>1, <2>2
  <2>4. bt[k] = x - a /\ bt[k + 1] = (x + n) - a
    BY <1>8, <2>1, <2>2
  <2> HIDE DEF x, n
  <2>5. bt[k + 1] = bt[k] + n
    BY <1>n, <2>3, <2>4
  <2>6. ASSUME NEW j \in 1..n PROVE z[bt[k] + j] = s[x + j]
    <3>1. bt[k] + j \in 1..Len(z) /\ a + (bt[k] + j) = x + j
      BY <1>n, <1>5, <2>3, <2>4
    <3> QED BY <1>5, <3>1
  <2> QED BY <2>1, <2>2, <2>5, <2>6 DEF n
<1>12. ASSUME NEW i \in 1..Len(z)
       PROVE  \E k \in 1..m - 1 : \E j \in 1..Len(ts[k]) : i = bt[k] + j
  <2>1. a + i \in 1..Len(s) /\ i \in Int
    BY <1>n, <1>5
  <2>2. PICK k \in 1..m : \E j \in 1..Len(ls[k]) : a + i = at[k] + j
    BY <1>3, <2>1
  <2> DEFINE n == Len(ls[k])
             x == at[k]
  <2>3. n \in Nat /\ x \in Nat /\ \E j \in 1..n : a + i = x + j
    <3>1. k \in 1..m + 1
      BY <1>n
    <3> QED BY <1>1, <1>3, <2>2, <3>1
  <2>4. k = 1 => x = 0 /\ n = a
    BY <1>3 DEF a, l
  <2> HIDE DEF n, x
  <2>5. k # 1
    BY <1>n, <2>1, <2>3, <2>4
  <2>6. k - 1 \in 1..m - 1 /\ k - 1 \in 1..m /\ (k - 1) + 1 = k
    BY <1>n, <2>5
  <2>7. ts[k - 1] = ls[k] /\ bt[k - 1] = x - a
    BY <1>1, <1>8, <2>6 DEF x
  <2>8. \E j \in 1..n : i = (x - a) + j
    BY <1>n, <2>1, <2>3
  <2> QED BY <2>6, <2>7, <2>8 DEF n
<1>13. FlatAt(ts, z, bt)
  <2>1. Len(ts) = m - 1
    BY <1>1
  <2> QED BY <1>7, <1>9, <1>10, <1>11, <1>12, <2>1 DEF FlatAt
<1> QED BY <1>1, <1>5, <1>13 DEF Flat, ts

(* Nothing in any of them.                                                 *)
LEMMA FlatNothing ==
    ASSUME NEW S, NEW ls \in Seq(Seq(S)), NEW s \in Seq(S), \A k \in DOMAIN ls : ls[k] = <<>>
    PROVE  Flat(ls, s) <=> s = <<>>
<1> DEFINE at == [k \in 1..Len(ls) + 1 |-> 0]
<1>1. Len(ls) \in Nat /\ \A k \in 1..Len(ls) : ls[k] = <<>>
  OBVIOUS
<1>2. FlatAt(ls, <<>>, at)
  BY <1>1 DEF FlatAt
<1> HIDE DEF at
<1>3. ASSUME Flat(ls, s) PROVE s = <<>>
  <2>1. PICK f : FlatAt(ls, s, f)
    BY <1>3 DEF Flat
  <2>2. \A k \in 1..Len(ls) : 1..Len(ls[k]) = {}
    BY <1>1
  <2>3. 1..Len(s) = {}
    BY <2>1, <2>2 DEF FlatAt
  <2> QED BY <2>3, SMTT(30)
<1> QED BY <1>2, <1>3 DEF Flat

(* One in each of them.                                                    *)
LEMMA FlatSingles ==
    ASSUME NEW S, NEW ls \in Seq(Seq(S)), NEW s \in Seq(S), Len(ls) = Len(s),
           \A k \in 1..Len(s) : ls[k] = <<s[k]>>
    PROVE  Flat(ls, s)
<1> DEFINE at == [k \in 1..Len(ls) + 1 |-> k - 1]
<1>1. Len(s) \in Nat
  OBVIOUS
<1>2. at \in [1..Len(ls) + 1 -> Nat] /\ \A k \in 1..Len(ls) + 1 : at[k] = k - 1
  BY <1>1
<1> HIDE DEF at
<1>3. \A k \in 1..Len(ls) : Len(ls[k]) = 1 /\ ls[k][1] = s[k]
  <2> TAKE k \in 1..Len(ls)
  <2>1. ls[k] = <<s[k]>>
    OBVIOUS
  <2>2. Len(<<s[k]>>) = 1 /\ <<s[k]>>[1] = s[k]
    OBVIOUS
  <2> QED BY <2>1, <2>2, Zenon
<1>4. \A k \in 1..Len(ls) : /\ at[k + 1] = at[k] + Len(ls[k])
                            /\ \A j \in 1..Len(ls[k]) : s[at[k] + j] = ls[k][j]
  <2> TAKE k \in 1..Len(ls)
  <2>1. k \in 1..Len(ls) + 1 /\ k + 1 \in 1..Len(ls) + 1 /\ k \in Int
    BY <1>1
  <2>2. at[k] = k - 1 /\ at[k + 1] = (k + 1) - 1 /\ (k - 1) + 1 = (k + 1) - 1 /\ (k - 1) + 1 = k
    BY <1>2, <2>1
  <2>3. \A j \in 1..Len(ls[k]) : j = 1
    <3>1. Len(ls[k]) = 1
      BY <1>3
    <3>2. \A j \in 1..1 : j = 1
      OBVIOUS
    <3> QED BY <3>1, <3>2
  <2>4. at[k] \in Int /\ at[k + 1] = at[k] + 1 /\ at[k] + 1 = k
    BY <2>1, <2>2
  <2> QED BY <1>3, <2>3, <2>4
<1>5. \A i \in 1..Len(s) : \E k \in 1..Len(ls) : \E j \in 1..Len(ls[k]) : i = at[k] + j
  <2> TAKE i \in 1..Len(s)
  <2>1. i \in 1..Len(ls) /\ 1 \in 1..Len(ls[i]) /\ i = at[i] + 1
    BY <1>1, <1>2, <1>3
  <2> QED BY <2>1
<1>6. at[1] = 0 /\ at[Len(ls) + 1] = Len(s) /\ \A j, k \in 1..Len(ls) + 1 : j <= k => at[j] <= at[k]
  BY <1>1, <1>2
<1>7. FlatAt(ls, s, at)
  BY <1>2, <1>4, <1>5, <1>6 DEF FlatAt
<1> QED BY <1>7 DEF Flat

-----------------------------------------------------------------------------
(* The concatenations that the model computes.                             *)

(* Of a set of natural numbers there is a least one.                       *)
LEMMA LeastNumber ==
    ASSUME NEW n \in Nat, NEW S \in SUBSET (1..n), S # {}
    PROVE  \E k \in S : \A l \in S : k <= l
<1> DEFINE ways == {1..k : k \in S}
           R == StrictSubsetOrdering(1..n)
           F == FiniteSubsetsOf(1..n)
<1>1. \A k \in S : 1..k \in FiniteSubsetsOf(1..n)
  BY FS_Interval DEF FiniteSubsetsOf
<1>2. ways \subseteq F /\ ways # {}
  BY <1>1
<1>3. IsWellFoundedOn(R, F)
  BY FS_StrictSubsetOrderingWellFounded, Zenon
<1>4. PICK w \in ways : \A v \in ways : ~ (<<v, w>> \in R)
  <2> HIDE DEF ways, R, F
  <2> QED BY <1>2, <1>3, WFMin
<1>5. PICK k \in S : w = 1..k
  OBVIOUS
<1>6. \A l \in S : ~ (<<1..l, 1..k>> \in StrictSubsetOrdering(1..n))
  BY <1>4, <1>5
<1>7. \A l \in S : k <= l
  <2> SUFFICES ASSUME NEW l \in S, l < k PROVE FALSE
    OBVIOUS
  <2>1. 1..l \subseteq 1..k /\ 1..l # 1..k
    BY k \in 1..k, k \notin 1..l
  <2> QED BY <2>1, <1>6, 1..k \in SUBSET (1..n), 1..l \in SUBSET (1..n) DEF StrictSubsetOrdering
<1> QED BY <1>7

(* Induction, for a set of numbers.                                        *)
LEMMA Climbs ==
    ASSUME NEW n \in Nat, NEW P, 0 \in P, \A k \in 1..n : k - 1 \in P => k \in P
    PROVE  \A k \in 0..n : k \in P
<1> DEFINE S == {k \in 1..n : k \notin P}
<1>1. SUFFICES ASSUME S # {} PROVE FALSE
  <2> SUFFICES ASSUME NEW k \in 0..n PROVE k \in P
    OBVIOUS
  <2>1. k = 0 \/ k \in 1..n
    OBVIOUS
  <2> QED BY <2>1
<1>2. PICK k \in S : \A l \in S : k <= l
  BY <1>1, LeastNumber
<1>3. k \in 1..n /\ k \notin P /\ k - 1 \notin S /\ (k - 1 = 0 \/ k - 1 \in 1..n)
  BY <1>2
<1> QED BY <1>3

(* What the recursion of FlattenSeq computes.                              *)
Folded(ls, n, g) ==
    g = [i \in 1..n |-> IF i = 1 THEN ls[i] ELSE g[i - 1] \o ls[i]]

LEMMA FoldedExists ==
    ASSUME NEW ls, NEW n \in Nat
    PROVE  \E g : Folded(ls, n, g)
<1> DEFINE P == {k \in 0..n : \E g : Folded(ls, k, g)}
<1>1. 0 \in P
  <2>1. Folded(ls, 0, [i \in 1..0 |-> ls[i]])
    BY DEF Folded
  <2> QED BY <2>1
<1>2. ASSUME NEW k \in 1..n, k - 1 \in P PROVE k \in P
  <2>1. PICK g : Folded(ls, k - 1, g)
    BY <1>2
  <2> DEFINE h == [i \in 1..k |-> IF i = 1 THEN ls[i]
                                  ELSE IF i = k THEN g[k - 1] \o ls[i] ELSE g[i - 1] \o ls[i]]
  <2>2. \A i \in 1..k - 1 : h[i] = g[i]
    <3> TAKE i \in 1..k - 1
    <3>1. i \in 1..k /\ i # k
      OBVIOUS
    <3>2. g[i] = IF i = 1 THEN ls[i] ELSE g[i - 1] \o ls[i]
      BY <2>1 DEF Folded
    <3> QED BY <3>1, <3>2
  <2>3. \A i \in 1..k : i # 1 => i - 1 \in 1..k - 1
    OBVIOUS
  <2>4. Folded(ls, k, h)
    BY <2>2, <2>3 DEF Folded
  <2> QED BY <2>4
<1> HIDE DEF P
<1>3. n \in P
  BY <1>1, <1>2, Climbs
<1> QED BY <1>3 DEF P

LEMMA FlattenIsFolded ==
    ASSUME NEW ls, Len(ls) \in Nat, Len(ls) # 0
    PROVE  \E g : Folded(ls, Len(ls), g) /\ Lists!FlattenSeq(ls) = g[Len(ls)]
<1> DEFINE g == CHOOSE g : Folded(ls, Len(ls), g)
<1>1. Folded(ls, Len(ls), g)
  BY FoldedExists
<1>2. Lists!FlattenSeq(ls) = g[Len(ls)]
  BY DEF Lists!FlattenSeq, Folded
<1> QED BY <1>1, <1>2

LEMMA FlatAppend ==
    ASSUME NEW S, NEW ls \in Seq(Seq(S)), NEW s \in Seq(S), NEW l \in Seq(S), Flat(ls, s)
    PROVE  Flat(Append(ls, l), s \o l)
<1> DEFINE one == <<l>>
<1>1. one \in Seq(Seq(S)) /\ Append(ls, l) = ls \o one
  OBVIOUS
<1>2. Flat(one, l)
  BY FlatOne
<1> HIDE DEF one
<1>3. Flat(ls \o one, s \o l)
  BY <1>1, <1>2, FlatConcat
<1> QED BY <1>1, <1>3

(* FlattenSeq is the concatenation.                                        *)
LEMMA FlattenIsFlat ==
    ASSUME NEW S, NEW ls \in Seq(Seq(S))
    PROVE  Lists!FlattenSeq(ls) \in Seq(S) /\ Flat(ls, Lists!FlattenSeq(ls))
<1> DEFINE n == Len(ls)
<1>1. n \in Nat
  OBVIOUS
<1>2. CASE n = 0
  <2>1. ls = <<>> /\ Lists!FlattenSeq(ls) = <<>>
    BY <1>2 DEF Lists!FlattenSeq
  <2>2. <<>> \in Seq(S)
    OBVIOUS
  <2> QED BY <2>1, <2>2, FlatEmpty
<1>3. CASE n # 0
  <2>1. PICK g : Folded(ls, n, g) /\ Lists!FlattenSeq(ls) = g[n]
    BY <1>1, <1>3, FlattenIsFolded
  <2>2. \A i \in 1..n : g[i] = IF i = 1 THEN ls[i] ELSE g[i - 1] \o ls[i]
    BY <2>1 DEF Folded
  <2> DEFINE Upto(k) == g[k] \in Seq(S) /\ Flat(SubSeq(ls, 1, k), g[k])
             P == {k \in 0..n : k # 0 => Upto(k)}
  <2>3. ASSUME NEW k \in 1..n, k - 1 \in P PROVE k \in P
    <3> DEFINE before == SubSeq(ls, 1, k - 1)
               l == ls[k]
    <3>1. l \in Seq(S) /\ before \in Seq(Seq(S)) /\ SubSeq(ls, 1, k) = Append(before, l)
      BY <1>1
    <3>2. CASE k = 1
      <4>1. before = <<>>
        BY <3>2
      <4>2. g[k] = l
        BY <2>2, <3>2
      <4> HIDE DEF l, before
      <4>3. SubSeq(ls, 1, k) = <<l>>
        BY <3>1, <4>1
      <4>4. Upto(k)
        BY <3>1, <4>2, <4>3, FlatOne
      <4> QED BY <4>4
    <3>3. CASE k # 1
      <4>1. g[k] = g[k - 1] \o l
        BY <2>2, <3>3
      <4>2. g[k - 1] \in Seq(S) /\ Flat(before, g[k - 1])
        BY <2>3, <3>3
      <4> DEFINE s == g[k - 1]
      <4> HIDE DEF before, l, s
      <4>3. Flat(Append(before, l), s \o l) /\ s \o l \in Seq(S)
        BY <3>1, <4>2, FlatAppend DEF s
      <4>4. Upto(k)
        BY <3>1, <4>1, <4>3 DEF s
      <4> QED BY <4>4
    <3> QED BY <3>2, <3>3
  <2>4. 0 \in P
    BY <1>1
  <2>5. n \in P
    <3>1. \A k \in 1..n : k - 1 \in P => k \in P
      BY <2>3
    <3> HIDE DEF P
    <3>2. \A k \in 0..n : k \in P
      BY <1>1, <2>4, <3>1, Climbs
    <3> QED BY <1>1, <3>2
  <2>6. Upto(n)
    BY <2>5, <1>3 DEF P
  <2>7. SubSeq(ls, 1, n) = ls
    OBVIOUS
  <2> QED BY <2>1, <2>6, <2>7
<1> QED BY <1>2, <1>3

(* There is one.                                                           *)
LEMMA FlatIsUnique ==
    ASSUME NEW S, NEW ls \in Seq(Seq(S)), NEW s \in Seq(S), NEW z \in Seq(S), Flat(ls, s), Flat(ls, z)
    PROVE  s = z
<1> DEFINE n == Len(ls)
<1>1. n \in Nat /\ \A k \in 1..n : ls[k] \in Seq(S)
  OBVIOUS
<1>2. PICK at : FlatAt(ls, s, at)
  BY DEF Flat
<1>3. PICK bt : FlatAt(ls, z, bt)
  BY DEF Flat
<1> DEFINE P == {k \in 0..n : at[k + 1] = bt[k + 1]}
<1>4. 0 \in P
  BY <1>1, <1>2, <1>3 DEF FlatAt
<1>5. ASSUME NEW k \in 1..n, k - 1 \in P PROVE k \in P
  <2>1. at[k + 1] = at[k] + Len(ls[k]) /\ bt[k + 1] = bt[k] + Len(ls[k])
    BY <1>2, <1>3 DEF FlatAt
  <2>2. at[(k - 1) + 1] = bt[(k - 1) + 1] /\ (k - 1) + 1 = k /\ k \in 0..n
    BY <1>5
  <2> QED BY <2>1, <2>2
<1> HIDE DEF P
<1>6. \A k \in 0..n : k \in P
  BY <1>1, <1>4, <1>5, Climbs
<1>7. \A k \in 1..n + 1 : at[k] = bt[k]
  <2> TAKE k \in 1..n + 1
  <2>1. k - 1 \in 0..n /\ (k - 1) + 1 = k
    BY <1>1
  <2> QED BY <2>1, <1>6 DEF P
<1>8. Len(s) = Len(z)
  BY <1>1, <1>2, <1>3, <1>7, SMTT(30) DEF FlatAt
<1>9. ASSUME NEW i \in 1..Len(s) PROVE s[i] = z[i]
  <2>1. PICK k \in 1..n : \E j \in 1..Len(ls[k]) : i = at[k] + j
    BY <1>2 DEF FlatAt
  <2>2. PICK j \in 1..Len(ls[k]) : i = at[k] + j
    BY <2>1
  <2>3. s[at[k] + j] = ls[k][j] /\ z[bt[k] + j] = ls[k][j]
    BY <1>2, <1>3, <2>2 DEF FlatAt
  <2>4. at[k] = bt[k]
    BY <1>1, <1>7
  <2> QED BY <2>2, <2>3, <2>4
<1> QED BY <1>8, <1>9

(* A concatenation, element by element.                                    *)
Mapped(f, s, z) == Len(z) = Len(s) /\ \A i \in 1..Len(s) : z[i] = f[s[i]]
AllMapped(f, ls, ms) == Len(ms) = Len(ls) /\ \A k \in 1..Len(ls) : Mapped(f, ls[k], ms[k])
LEMMA FlatMap ==
    ASSUME NEW S, NEW f, NEW ls \in Seq(Seq(S)), NEW s \in Seq(S), Flat(ls, s),
           NEW ms, NEW z, Mapped(f, s, z), AllMapped(f, ls, ms)
    PROVE  Flat(ms, z)
<1> DEFINE n == Len(ls)
<1>1. n \in Nat /\ Len(s) \in Nat /\ \A k \in 1..n : ls[k] \in Seq(S) /\ Len(ls[k]) \in Nat
  OBVIOUS
<1>a. /\ Len(ms) = n /\ Len(z) = Len(s) /\ \A i \in 1..Len(s) : z[i] = f[s[i]]
      /\ \A k \in 1..n : /\ Len(ms[k]) = Len(ls[k])
                         /\ \A j \in 1..Len(ls[k]) : ms[k][j] = f[ls[k][j]]
  BY DEF Mapped, AllMapped
<1>2. PICK at : FlatAt(ls, s, at)
  BY DEF Flat
<1>3. /\ at \in [1..n + 1 -> Nat] /\ at[1] = 0 /\ at[n + 1] = Len(z)
      /\ \A j, k \in 1..n + 1 : j <= k => at[j] <= at[k]
      /\ \A k \in 1..n : at[k + 1] = at[k] + Len(ms[k])
  BY <1>a, <1>2 DEF FlatAt
<1>4. ASSUME NEW k \in 1..n, NEW j \in 1..Len(ms[k])
      PROVE  z[at[k] + j] = ms[k][j]
  <2>1. j \in 1..Len(ls[k]) /\ s[at[k] + j] = ls[k][j] /\ at[k + 1] = at[k] + Len(ls[k])
    BY <1>a, <1>2 DEF FlatAt
  <2>2. k \in 1..n + 1 /\ k + 1 \in 1..n + 1 /\ n + 1 \in 1..n + 1 /\ k + 1 <= n + 1
    BY <1>1
  <2>3. at[k] \in Nat /\ at[k + 1] <= at[n + 1] /\ at[n + 1] = Len(s)
    <3>1. at[k] \in Nat
      BY <1>3, <2>2
    <3>2. at[k + 1] <= at[n + 1]
      BY <1>3, <2>2
    <3> QED BY <1>a, <1>3, <3>1, <3>2
  <2>4. at[k] + j \in 1..Len(s)
    BY <1>1, <2>1, <2>3, Place
  <2>5. z[at[k] + j] = f[s[at[k] + j]]
    BY <1>a, <2>4
  <2> QED BY <1>a, <2>1, <2>5
<1>5. ASSUME NEW i \in 1..Len(z)
      PROVE  \E k \in 1..n : \E j \in 1..Len(ms[k]) : i = at[k] + j
  <2>1. i \in 1..Len(s)
    BY <1>a
  <2>2. PICK k \in 1..n : \E j \in 1..Len(ls[k]) : i = at[k] + j
    BY <1>2, <2>1 DEF FlatAt
  <2>3. Len(ms[k]) = Len(ls[k])
    BY <1>a
  <2> QED BY <2>2, <2>3
<1>6. FlatAt(ms, z, at)
  BY <1>a, <1>3, <1>4, <1>5 DEF FlatAt
<1> QED BY <1>6 DEF Flat

-----------------------------------------------------------------------------
(* What the mailboxes carry, as identities: the replies read, the requests *)
(* handed to the IOActor, those it has rejected.                           *)

Load(m, kind) ==
    CASE m.type # kind -> <<>>
      [] m.type = kind /\ kind = "Received" -> Names(m.data.replies)
      [] m.type = kind /\ kind = "Request" -> <<m.req.id>>
      [] m.type = kind /\ kind = "Remove" -> <<Internal>>
Loads(box, kind) == [k \in DOMAIN box |-> Load(box[k], kind)]

(* s is, in order, what the messages of a kind in the mailbox carry.       *)
Conveys(box, kind, s) == s \in Seq(Idents) /\ Flat(Loads(box, kind), s)

Fits(M, kind) == \A m \in M : Load(m, kind) \in Seq(Idents)

LEMMA NamesType ==
    ASSUME NEW rs \in Seq(Reply)
    PROVE  /\ Names(rs) \in Seq(Idents) /\ Len(Names(rs)) = Len(rs)
           /\ \A k \in 1..Len(rs) : Names(rs)[k] = rs[k].to
<1>1. \A k \in 1..Len(rs) : rs[k].to \in Idents
  <2> TAKE k \in 1..Len(rs)
  <2>1. rs[k] \in Reply
    OBVIOUS
  <2> QED BY <2>1 DEF Reply, Idents
<1> QED BY <1>1 DEF Names

LEMMA LoadKinds ==
    ASSUME NEW m, NEW kind \in {"Received", "Request", "Remove"}
    PROVE  /\ m.type # kind => Load(m, kind) = <<>>
           /\ m.type = "Received" => Load(m, "Received") = Names(m.data.replies)
           /\ m.type = "Request" => Load(m, "Request") = <<m.req.id>>
           /\ m.type = "Remove" => Load(m, "Remove") = <<Internal>>
BY DEF Load

LEMMA BoxesFit ==
    /\ Fits(IOMessage, "Request")
    /\ Fits(ListenerMessage, "Received") /\ Fits(ListenerMessage, "Remove")
<1>e. <<>> \in Seq(Idents)
  OBVIOUS
<1>1. ASSUME NEW m \in IOMessage PROVE Load(m, "Request") \in Seq(Idents)
  <2>1. m.type = "Request" => m.req.id \in Idents
    BY DEF IOMessage, IOSignals, Request, Idents
  <2>2. m.type = "Request" => <<m.req.id>> \in Seq(Idents)
    BY <2>1
  <2> QED BY <1>e, <2>2 DEF Load
<1>2. ASSUME NEW m \in ListenerMessage PROVE Load(m, "Received") \in Seq(Idents)
  <2>1. m.type = "Received" => m.data.replies \in Seq(Reply)
    BY DEF ListenerMessage, Item, ListenerSignals, Data
  <2>2. m.type = "Received" => Names(m.data.replies) \in Seq(Idents)
    BY <2>1, NamesType
  <2> QED BY <1>e, <2>2 DEF Load
<1>3. ASSUME NEW m \in ListenerMessage PROVE Load(m, "Remove") \in Seq(Idents)
  <2>1. <<Internal>> \in Seq(Idents)
    BY DEF Idents
  <2> QED BY <1>e, <2>1 DEF Load
<1> QED BY <1>1, <1>2, <1>3 DEF Fits

LEMMA LoadsType ==
    ASSUME NEW M, NEW kind, Fits(M, kind), NEW box \in Seq(M)
    PROVE  /\ Loads(box, kind) \in Seq(Seq(Idents)) /\ Len(Loads(box, kind)) = Len(box)
           /\ \A k \in 1..Len(box) : Loads(box, kind)[k] = Load(box[k], kind)
<1>1. \A k \in 1..Len(box) : Load(box[k], kind) \in Seq(Idents)
  BY DEF Fits
<1> QED BY <1>1 DEF Loads

LEMMA LoadsConcat ==
    ASSUME NEW M, NEW kind, Fits(M, kind), NEW box \in Seq(M), NEW ms \in Seq(M)
    PROVE  Loads(box \o ms, kind) = Loads(box, kind) \o Loads(ms, kind)
<1> DEFINE u == box \o ms
           x == Loads(u, kind)
           y == Loads(box, kind)
           z == Loads(ms, kind)
           v == y \o z
<1>1. /\ u \in Seq(M) /\ Len(u) = Len(box) + Len(ms)
      /\ \A k \in 1..Len(box) + Len(ms) : u[k] = IF k <= Len(box) THEN box[k] ELSE ms[k - Len(box)]
  BY ConcatProperties
<1> HIDE DEF u
<1>2. /\ x \in Seq(Seq(Idents)) /\ Len(x) = Len(u) /\ \A k \in 1..Len(u) : x[k] = Load(u[k], kind)
      /\ y \in Seq(Seq(Idents)) /\ Len(y) = Len(box) /\ \A k \in 1..Len(box) : y[k] = Load(box[k], kind)
      /\ z \in Seq(Seq(Idents)) /\ Len(z) = Len(ms) /\ \A k \in 1..Len(ms) : z[k] = Load(ms[k], kind)
  BY <1>1, LoadsType
<1> DEFINE T == Seq(Idents)
<1> HIDE DEF x, y, z, T
<1>t. x \in Seq(T) /\ y \in Seq(T) /\ z \in Seq(T)
  BY <1>2 DEF T
<1>3. /\ v \in Seq(T) /\ Len(v) = Len(box) + Len(ms)
      /\ \A k \in 1..Len(box) + Len(ms) : v[k] = IF k <= Len(box) THEN y[k] ELSE z[k - Len(box)]
  <2>1. /\ v \in Seq(T) /\ Len(v) = Len(y) + Len(z)
        /\ \A k \in 1..Len(y) + Len(z) : v[k] = IF k <= Len(y) THEN y[k] ELSE z[k - Len(y)]
    BY <1>t, ConcatProperties
  <2> QED BY <1>2, <2>1
<1> HIDE DEF v
<1>4. Len(box) \in Nat /\ Len(ms) \in Nat
  OBVIOUS
<1>5. \A k \in 1..Len(x) : x[k] = v[k]
  <2> TAKE k \in 1..Len(x)
  <2>1. k \in 1..Len(box) + Len(ms) /\ k \in 1..Len(u)
    BY <1>1, <1>2
  <2>2. CASE k <= Len(box)
    <3>1. k \in 1..Len(box)
      BY <1>4, <2>1, <2>2
    <3> QED BY <1>1, <1>2, <1>3, <2>1, <2>2, <3>1
  <2>3. CASE ~(k <= Len(box))
    <3>1. k - Len(box) \in 1..Len(ms)
      BY <1>4, <2>1, <2>3
    <3> QED BY <1>1, <1>2, <1>3, <2>1, <2>3, <3>1
  <2> QED BY <2>2, <2>3
<1>6. x = v
  BY <1>1, <1>2, <1>3, <1>t, <1>5, SeqEqual
<1> QED BY <1>6 DEF x, y, z, v, u

LEMMA LoadsTail ==
    ASSUME NEW M, NEW kind, Fits(M, kind), NEW box \in Seq(M), box # <<>>
    PROVE  /\ Loads(box, kind) # <<>> /\ Head(Loads(box, kind)) = Load(Head(box), kind)
           /\ Tail(Loads(box, kind)) = Loads(Tail(box), kind)
           /\ Tail(box) \in Seq(M) /\ Head(box) \in M
BY DEF Loads

(* More messages, with what they carry.                                    *)
LEMMA ConveysMore ==
    ASSUME NEW M, NEW kind, Fits(M, kind), NEW box \in Seq(M), NEW ms \in Seq(M),
           NEW s, NEW t, Conveys(box, kind, s), Conveys(ms, kind, t)
    PROVE  Conveys(box \o ms, kind, s \o t)
<1> DEFINE y == Loads(box, kind)
           z == Loads(ms, kind)
<1>1. y \in Seq(Seq(Idents)) /\ z \in Seq(Seq(Idents)) /\ Loads(box \o ms, kind) = y \o z
  BY LoadsType, LoadsConcat
<1>2. s \in Seq(Idents) /\ t \in Seq(Idents) /\ Flat(y, s) /\ Flat(z, t)
  BY DEF Conveys
<1> HIDE DEF y, z
<1>3. Flat(y \o z, s \o t) /\ s \o t \in Seq(Idents)
  BY <1>1, <1>2, FlatConcat
<1> QED BY <1>1, <1>3 DEF Conveys

LEMMA ConveysTold ==
    ASSUME NEW M, NEW kind, Fits(M, kind), NEW box \in Seq(M), NEW m \in M,
           NEW s, Conveys(box, kind, s)
    PROVE  Conveys(box \o <<m>>, kind, s \o Load(m, kind))
<1>1. Load(m, kind) \in Seq(Idents) /\ <<m>> \in Seq(M)
  BY DEF Fits
<1>2. Loads(<<m>>, kind) = <<Load(m, kind)>>
  BY DEF Loads
<1>3. Conveys(<<m>>, kind, Load(m, kind))
  BY <1>1, <1>2, FlatOne DEF Conveys
<1> QED BY <1>1, <1>3, ConveysMore

(* Without the first message.                                              *)
LEMMA ConveysTail ==
    ASSUME NEW M, NEW kind, Fits(M, kind), NEW box \in Seq(M), box # <<>>,
           NEW s, Conveys(box, kind, s)
    PROVE  \E z \in Seq(Idents) : s = Load(Head(box), kind) \o z /\ Conveys(Tail(box), kind, z)
<1> DEFINE y == Loads(box, kind)
<1>1. y \in Seq(Seq(Idents)) /\ y # <<>> /\ Head(y) = Load(Head(box), kind)
      /\ Tail(y) = Loads(Tail(box), kind)
  BY LoadsType, LoadsTail
<1>2. s \in Seq(Idents) /\ Flat(y, s)
  BY DEF Conveys
<1> HIDE DEF y
<1>3. PICK z \in Seq(Idents) : s = Head(y) \o z /\ Flat(Tail(y), z)
  BY <1>1, <1>2, FlatTail
<1> QED BY <1>1, <1>3 DEF Conveys

(* Nothing of the kind.                                                    *)
LEMMA ConveysNothing ==
    ASSUME NEW M, NEW kind \in {"Received", "Request", "Remove"}, Fits(M, kind), NEW box \in Seq(M),
           NoneOf(box, {kind})
    PROVE  \A s : Conveys(box, kind, s) <=> s = <<>>
<1> DEFINE y == Loads(box, kind)
<1>1. y \in Seq(Seq(Idents)) /\ Len(y) = Len(box) /\ \A k \in 1..Len(box) : y[k] = Load(box[k], kind)
  BY LoadsType
<1>2. \A k \in 1..Len(box) : Load(box[k], kind) = <<>>
  BY LoadKinds DEF NoneOf
<1>3. \A k \in DOMAIN y : y[k] = <<>>
  <2>1. DOMAIN y = 1..Len(box)
    BY <1>1
  <2> HIDE DEF y
  <2> QED BY <1>1, <1>2, <2>1
<1>4. <<>> \in Seq(Idents)
  OBVIOUS
<1> HIDE DEF y
<1>5. \A s \in Seq(Idents) : Flat(y, s) <=> s = <<>>
  BY <1>1, <1>3, FlatNothing
<1> QED BY <1>4, <1>5 DEF Conveys, y

(* Requests handed over.                                                   *)
LEMMA ConveysRequests ==
    ASSUME NEW rs \in Seq(Request)
    PROVE  Conveys(IORequests(rs), "Request", Asked(rs))
<1> DEFINE ms == IORequests(rs)
           y == Loads(ms, "Request")
           s == Asked(rs)
<1>1. ms \in Seq(IOMessage) /\ Len(ms) = Len(rs)
      /\ \A k \in 1..Len(rs) : ms[k].type = "Request" /\ ms[k].req = rs[k]
  BY IORequestsType DEF IORequests
<1>2. s \in Seq(Idents) /\ Len(s) = Len(rs) /\ \A k \in 1..Len(rs) : s[k] = rs[k].id
  BY AskedType
<1> HIDE DEF ms
<1>3. y \in Seq(Seq(Idents)) /\ Len(y) = Len(ms)
      /\ \A k \in 1..Len(ms) : y[k] = Load(ms[k], "Request")
  BY <1>1, LoadsType, BoxesFit
<1> HIDE DEF s, y
<1>4. \A k \in 1..Len(s) : y[k] = <<s[k]>>
  <2> TAKE k \in 1..Len(s)
  <2>1. k \in 1..Len(rs) /\ k \in 1..Len(ms)
    BY <1>1, <1>2
  <2>2. Load(ms[k], "Request") = <<ms[k].req.id>>
    BY <1>1, <2>1, LoadKinds
  <2> QED BY <1>1, <1>2, <1>3, <2>1, <2>2
<1>5. Flat(y, s)
  BY <1>1, <1>2, <1>3, <1>4, FlatSingles
<1> QED BY <1>2, <1>5 DEF Conveys, s, y, ms

-----------------------------------------------------------------------------
(* The faults under which nothing is written twice and nothing is lost     *)
(* between two halves of a reply: a failed write spends its requests, a    *)
(* crash leaves the connection open, and a half that was read when a       *)
(* connection is dropped stays with the listener.                          *)
Whole ==
    /\ {"write", "crash"} \cap FaultKinds = {}
    /\ SplitReplies => "drop" \notin FaultKinds

(* Then every request has its bytes and no reply is put together from two. *)
Encodable == {r \in Request : r.op # "spent"}
Legible == {p \in Reply : p.kind # "garbled"}
CleanIO ==
    {m \in IOMessage : m.type # "WriteFailed" /\ (m.type = "Request" => m.req \in Encodable)}
CleanMessage ==
    {m \in ListenerMessage :
        /\ m.type = "Received" => m.data.replies \in Seq(Legible)
        /\ m.type \in {"Request", "Transaction"} => m.reqs \in Seq(Encodable)}
CleanActor(a) == a.requests \in Seq(Encodable) /\ a.box \in Seq(CleanIO)
CleanTcp(t) ==
    /\ t.wire \in Seq(Encodable) /\ t.writing \in Seq(Encodable) /\ t.net \in Seq(Legible)
    /\ t.half => t.net # <<>> /\ SplitReplies
CleanInv ==
    /\ \A c \in Connections : CleanActor(io[c]) /\ CleanTcp(tcp[c])
    /\ queued \in Seq(Encodable) /\ lbox \in Seq(CleanMessage)

LEMMA CleanTypes ==
    /\ \A s \in Seq(Encodable) : s \in Seq(Request)
    /\ \A s \in Seq(Legible) : s \in Seq(Reply)
    /\ \A s \in Seq(CleanIO) : s \in Seq(IOMessage)
    /\ \A s \in Seq(CleanMessage) : s \in Seq(ListenerMessage)
<1>1. ASSUME NEW S, NEW T, S \subseteq T, NEW s \in Seq(S) PROVE s \in Seq(T)
  BY <1>1
<1>2. /\ Encodable \subseteq Request /\ Legible \subseteq Reply
      /\ CleanIO \subseteq IOMessage /\ CleanMessage \subseteq ListenerMessage
  BY DEF Encodable, Legible, CleanIO, CleanMessage
<1> QED BY <1>1, <1>2

LEMMA CleanSignals ==
    /\ \A t \in ListenerSignals : <<Signal(t)>> \in Seq(CleanMessage)
    /\ \A t \in IOSignals \ {"WriteFailed"} :
         Signal(t) \in CleanIO /\ <<Signal(t)>> \in Seq(CleanIO)
<1>1. ASSUME NEW t \in ListenerSignals PROVE Signal(t) \in CleanMessage
  <2>1. Signal(t) \in ListenerMessage /\ Signal(t).type = t
    BY SignalType DEF Signal
  <2> QED BY <2>1 DEF CleanMessage, ListenerSignals
<1>2. ASSUME NEW t \in IOSignals \ {"WriteFailed"} PROVE Signal(t) \in CleanIO
  <2>1. Signal(t) \in IOMessage /\ Signal(t).type = t
    BY SignalType DEF Signal
  <2> QED BY <2>1 DEF CleanIO, IOSignals
<1> QED BY <1>1, <1>2

LEMMA CleanRequests ==
    ASSUME NEW rs \in Seq(Encodable)
    PROVE  IORequests(rs) \in Seq(CleanIO)
<1>1. \A i \in 1..Len(rs) : [type |-> "Request", req |-> rs[i]] \in CleanIO
  <2> TAKE i \in 1..Len(rs)
  <2>1. rs[i] \in Encodable /\ rs[i] \in Request
    BY DEF Encodable
  <2> DEFINE m == [type |-> "Request", req |-> rs[i]]
  <2>2. m \in IOMessage /\ m.type = "Request" /\ m.req = rs[i]
    BY <2>1 DEF IOMessage
  <2> HIDE DEF m
  <2>3. m \in CleanIO
    BY <2>1, <2>2 DEF CleanIO
  <2> QED BY <2>3 DEF m
<1> QED BY <1>1 DEF IORequests

LEMMA CleanTold ==
    ASSUME NEW a \in IOType, NEW ms \in Seq(CleanIO), CleanActor(a)
    PROVE  CleanActor(Told(a, ms))
<1>1. a.box \o ms \in Seq(CleanIO)
  BY DEF CleanActor
<1>2. CASE a.state \in {"none", "stopped"}
  BY <1>2 DEF Told
<1>3. CASE a.state \notin {"none", "stopped"}
  <2> DEFINE b == Told(a, ms)
  <2>1. b = [a EXCEPT !.box = a.box \o ms]
    BY <1>3 DEF Told
  <2> HIDE DEF b
  <2>2. b.box = a.box \o ms /\ b.requests = a.requests
    BY <2>1 DEF IOType
  <2> QED BY <1>1, <2>2 DEF CleanActor, b
<1> QED BY <1>2, <1>3

LEMMA CleanPart ==
    ASSUME NEW S, NEW s \in Seq(S), NEW m \in Nat, NEW n \in Nat, n <= Len(s)
    PROVE  SubSeq(s, m + 1, n) \in Seq(S)
BY SubSeqType

LEMMA CleanNewActors ==
    /\ CleanActor(NoIOActor) /\ CleanActor(NewIOActor) /\ CleanActor(Stopped)
    /\ CleanTcp(Fresh)
BY DEF CleanActor, CleanTcp, NoIOActor, NewIOActor, Stopped, Fresh

LEMMA CleanFirst ==
    ASSUME lbox \in Seq(CleanMessage), lbox # <<>>
    PROVE  /\ Tail(lbox) \in Seq(CleanMessage)
           /\ Head(lbox).type = "Received" =>
                Head(lbox).data.replies \in Seq(Legible) /\ Head(lbox).data \in Data
           /\ IsItem => Handed \in Seq(Encodable) /\ Len(Handed) >= 1
<1>1. Tail(lbox) \in Seq(CleanMessage) /\ Head(lbox) \in CleanMessage /\ lbox \in Seq(ListenerMessage)
  BY HeadTailProperties, CleanTypes
<1>2. IsItem => Len(Handed) >= 1
  BY <1>1, HandedType
<1>3. Head(lbox).type = "Received" => Head(lbox).data \in Data
  BY <1>1, ReceivedType DEF Receives
<1> QED BY <1>1, <1>2, <1>3 DEF CleanMessage, IsItem, Receives, Handed

(* Of an item, what is sent has its bytes.                                 *)
LEMMA CleanItem ==
    ASSUME NEW rs \in Seq(Encodable), Len(rs) >= 1, NEW sent1,
           sent1 = IF Len(rs) = 1 THEN rs
                   ELSE <<rs[1]>> \o UpToQuit(SubSeq(rs, 2, Len(rs) - 1)) \o <<rs[Len(rs)]>>
    PROVE  sent1 \in Seq(Encodable)
<1> DEFINE members == SubSeq(rs, 2, Len(rs) - 1)
           n == Cardinality({i \in DOMAIN members : \A j \in 1..i - 1 : members[j].op # "quit"})
<1>1. Len(rs) \in Nat /\ rs[1] \in Encodable /\ rs[Len(rs)] \in Encodable
  OBVIOUS
<1>2. members \in Seq(Encodable)
  <2>1. 1 \in Nat /\ Len(rs) - 1 \in Nat /\ Len(rs) - 1 <= Len(rs) /\ 1 + 1 = 2
    BY <1>1
  <2> QED BY <2>1, CleanPart
<1> HIDE DEF members
<1>3. n \in Nat /\ n <= Len(members)
  BY <1>2, CutLength, CleanTypes
<1> HIDE DEF n
<1>4. SubSeq(members, 0 + 1, n) \in Seq(Encodable)
  BY <1>2, <1>3, CleanPart
<1>5. UpToQuit(members) \in Seq(Encodable)
  BY <1>4 DEF UpToQuit, n
<1> DEFINE up == UpToQuit(members)
<1> HIDE DEF up
<1>6. <<rs[1]>> \o up \o <<rs[Len(rs)]>> \in Seq(Encodable)
  BY <1>1, <1>5 DEF up
<1> QED BY <1>6 DEF up, members

LEMMA CleanInitRequests ==
    ASSUME NEW s \in SettingsType
    PROVE  InitRequests(s) \in Seq(Encodable)
<1>1. \A op \in SessionOps : InitRequest(op, s) \in Seq(Encodable)
  <2> TAKE op \in SessionOps
  <2>1. s[op] \in Values
    BY DEF SettingsType
  <2>2. [id |-> Internal, op |-> op, value |-> s[op]] \in Encodable
    BY <2>1 DEF Encodable, Request, Ops, SessionOps
  <2> QED BY <2>2 DEF InitRequest
<1> QED BY <1>1 DEF InitRequests, SessionOps

(* What the listener does.                                                 *)
LEMMA ListenerClean ==
    ASSUME TypeInv, CleanInv, LNext
    PROVE  /\ \A c \in Connections : CleanActor(io'[c])
           /\ queued' \in Seq(Encodable) /\ lbox' \in Seq(CleanMessage)
<1>1. /\ lbox \in Seq(ListenerMessage) /\ io \in [Connections -> IOType] /\ epoch \in Connections
      /\ settings \in SettingsType /\ queued \in Seq(Encodable) /\ lbox \in Seq(CleanMessage)
      /\ \A c \in Connections : CleanActor(io[c]) /\ io[c] \in IOType
  BY DEF TypeInv, TypeOK, LTypeOK, CleanInv
<1>e. <<>> \in Seq(Encodable) /\ <<>> \in Seq(CleanMessage)
  OBVIOUS
<1>2. ASSUME NEW t, Receives(t), Consume PROVE lbox' \in Seq(CleanMessage)
  BY <1>1, <1>2, CleanFirst DEF Receives, Consume
<1>3. ASSUME IsItem, Consume
      PROVE  lbox' \in Seq(CleanMessage) /\ Handed \in Seq(Encodable) /\ Len(Handed) >= 1
  BY <1>1, <1>3, CleanFirst DEF Receives, Consume, IsItem
<1>4. ASSUME IsItem, Consume PROVE Enqueued \in Seq(Encodable)
  BY <1>1, <1>3, <1>4 DEF Enqueued
<1>5. ASSUME NEW ms \in Seq(CleanIO), io' = [io EXCEPT ![epoch] = Told(@, ms)]
      PROVE  \A c \in Connections : CleanActor(io'[c])
  <2>1. CleanActor(Told(io[epoch], ms))
    BY <1>1, CleanTold
  <2>2. \A c \in Connections : io'[c] = IF c = epoch THEN Told(io[epoch], ms) ELSE io[c]
    BY <1>1, <1>5
  <2> QED BY <1>1, <2>1, <2>2
<1>6. ASSUME NEW rs \in Seq(Encodable), NEW before, NEW q \in Seq(Encodable), NEW set, Send(rs, before, q, set)
      PROVE  (\A c \in Connections : CleanActor(io'[c])) /\ queued' \in Seq(Encodable)
  <2>1. IORequests(rs) \in Seq(CleanIO)
    BY CleanRequests
  <2> QED BY <1>5, <1>6, <2>1 DEF Send
<1>7. ASSUME NEW before, NEW set, SendAllQueued(before, set)
      PROVE  (\A c \in Connections : CleanActor(io'[c])) /\ queued' \in Seq(Encodable)
  BY <1>1, <1>e, <1>6, <1>7 DEF SendAllQueued
<1>8. ASSUME NEW s \in IOSignals \ {"WriteFailed"}, io' = [io EXCEPT ![epoch] = Told(@, <<Signal(s)>>)]
      PROVE  \A c \in Connections : CleanActor(io'[c])
  BY <1>5, <1>8, CleanSignals
<1>9. ASSUME Reconnect PROVE \A c \in Connections : CleanActor(io'[c])
  BY <1>1, <1>9, CleanNewActors DEF Reconnect
<1>10. ASSUME FailItem \/ QueueItem
       PROVE  /\ \A c \in Connections : CleanActor(io'[c])
              /\ queued' \in Seq(Encodable) /\ lbox' \in Seq(CleanMessage)
  BY <1>1, <1>3, <1>4, <1>10 DEF FailItem, QueueItem, listenerVars, CleanInv
<1>11. ASSUME SendItem
       PROVE  /\ \A c \in Connections : CleanActor(io'[c])
              /\ queued' \in Seq(Encodable) /\ lbox' \in Seq(CleanMessage)
  <2> DEFINE rs == IF Len(Handed) = 1 THEN Handed
                   ELSE <<Handed[1]>> \o UpToQuit(SubSeq(Handed, 2, Len(Handed) - 1))
                          \o <<Handed[Len(Handed)]>>
  <2>1. IsItem /\ Consume /\ Send(rs, requests, queued, timerSet)
    BY <1>11 DEF SendItem
  <2>2. rs \in Seq(Encodable)
    BY <1>3, <2>1, CleanItem
  <2> HIDE DEF rs
  <2> QED BY <1>1, <1>3, <1>6, <2>1, <2>2
<1>12. ASSUME ItemWhileConnecting
       PROVE  /\ \A c \in Connections : CleanActor(io'[c])
              /\ queued' \in Seq(Encodable) /\ lbox' \in Seq(CleanMessage)
  <2>1. IsItem /\ Consume /\ queued' \in {queued, Enqueued} /\ (io' = io \/ Reconnect)
    BY <1>12 DEF ItemWhileConnecting, ReconnectUnlessConnecting
  <2> QED BY <1>1, <1>3, <1>4, <1>9, <2>1
<1>13. ASSUME OnConnected
       PROVE  /\ \A c \in Connections : CleanActor(io'[c])
              /\ queued' \in Seq(Encodable) /\ lbox' \in Seq(CleanMessage)
  <2>1. lbox' \in Seq(CleanMessage)
    BY <1>2, <1>13 DEF OnConnected
  <2>2. InitRequests(settings) \in Seq(Encodable)
    BY <1>1, CleanInitRequests
  <2>3. \/ Send(InitRequests(settings), requests, queued, timerSet)
        \/ SendAllQueued(requests, timerSet)
    BY <1>13 DEF OnConnected
  <2> QED BY <1>1, <1>6, <1>7, <2>1, <2>2, <2>3
<1>14. ASSUME ReceiveInitializing
       PROVE  /\ \A c \in Connections : CleanActor(io'[c])
              /\ queued' \in Seq(Encodable) /\ lbox' \in Seq(CleanMessage)
  <2>1. lbox' \in Seq(CleanMessage)
    BY <1>2, <1>14 DEF ReceiveInitializing
  <2>2. \/ SendAllQueued(Unanswered(Head(lbox).data), FALSE)
        \/ UNCHANGED <<io, queued>>
    BY <1>14 DEF ReceiveInitializing
  <2> QED BY <1>1, <1>7, <2>1, <2>2
<1>15. ASSUME \/ QuitWhileConnecting \/ OnConnectedAfterQuit \/ Receive \/ OnRemove
              \/ TerminatedShuttingDown \/ Ignore \/ TerminatedConnecting
       PROVE  /\ \A c \in Connections : CleanActor(io'[c])
              /\ queued' \in Seq(Encodable) /\ lbox' \in Seq(CleanMessage)
  <2>1. \E t : Receives(t) /\ Consume
    BY <1>15 DEF QuitWhileConnecting, OnConnectedAfterQuit, Receive, OnRemove, TerminatedShuttingDown,
                 Ignore, Ignored, TerminatedConnecting
  <2>2. UNCHANGED io /\ queued' \in {queued, <<>>}
    BY <1>15 DEF QuitWhileConnecting, OnConnectedAfterQuit, Receive, OnRemove, TerminatedShuttingDown,
                 Ignore, TerminatedConnecting, FailQueued, sending, listenerVars
  <2> QED BY <1>1, <1>e, <1>2, <2>1, <2>2
<1>16. ASSUME TerminatedInitializing \/ TerminatedConnected
       PROVE  /\ \A c \in Connections : CleanActor(io'[c])
              /\ queued' \in Seq(Encodable) /\ lbox' \in Seq(CleanMessage)
  <2>1. Receives("Terminated") /\ Consume /\ Reconnect /\ queued' \in {queued, <<>>}
    BY <1>16 DEF TerminatedInitializing, TerminatedConnected, FailQueued
  <2> QED BY <1>1, <1>e, <1>2, <1>9, <2>1
<1>17. ASSUME HandleReceiveTimeout \/ OnAbort \/ OnShutdown
       PROVE  /\ \A c \in Connections : CleanActor(io'[c])
              /\ queued' \in Seq(Encodable) /\ lbox' \in Seq(CleanMessage)
  <2>1. PICK s \in IOSignals \ {"WriteFailed"} : io' = [io EXCEPT ![epoch] = Told(@, <<Signal(s)>>)]
    BY <1>17 DEF HandleReceiveTimeout, OnAbort, OnShutdown, Acknowledge, IOSignals
  <2>2. (\E t : Receives(t) /\ Consume) /\ UNCHANGED queued
    BY <1>17 DEF HandleReceiveTimeout, OnAbort, OnShutdown, Acknowledge, sending
  <2> QED BY <1>1, <1>2, <1>8, <2>1, <2>2
<1>18. ASSUME TerminatedAwaitingDecoders
       PROVE  /\ \A c \in Connections : CleanActor(io'[c])
              /\ queued' \in Seq(Encodable) /\ lbox' \in Seq(CleanMessage)
  <2>1. /\ queued' = queued
        /\ (Receives("Terminated") /\ Consume) \/ lbox' = <<>>
        /\ io' = io \/ io' = [e \in Connections |-> IF io[e].state = "none" THEN io[e] ELSE Stopped]
    BY <1>18 DEF TerminatedAwaitingDecoders, sending
  <2>2. \A c \in Connections : CleanActor(io'[c])
    BY <1>1, <2>1, CleanNewActors
  <2> QED BY <1>1, <1>e, <1>2, <2>1, <2>2
<1> QED
  BY <1>10, <1>11, <1>12, <1>13, <1>14, <1>15, <1>16, <1>17, <1>18 DEF LNext

(* What the IOActors do.                                                   *)
LEMMA WritesClean ==
    ASSUME ConnTypes, NEW e \in Connections, CleanActor(io[e]), CleanTcp(tcp[e]), io[e].box # <<>>,
           NEW pending \in Seq(Encodable), WritesNext(e, pending)
    PROVE  CleanActor(io'[e]) /\ CleanTcp(tcp'[e])
<1> DEFINE size == IF Len(pending) < MaxWriteBatchSize THEN Len(pending)
                                                       ELSE MaxWriteBatchSize
           actor == [io[e] EXCEPT !.batch = SubSeq(pending, 1, size),
                                  !.requests = Unwritten(pending, size),
                                  !.canWrite = (pending = <<>>)]
           b == io'[e]
           u == tcp'[e]
<1>1. size \in Nat /\ size <= Len(pending) /\ Len(pending) \in Nat
  BY SharedAssumption
<1>2. /\ IOBecomes(e, actor)
      /\ tcp' = tcp \/ tcp' = [tcp EXCEPT ![e].writing = SubSeq(pending, 1, size)]
  BY DEF WritesNext
<1> HIDE DEF size
<1>3. SubSeq(pending, 1, size) \in Seq(Encodable) /\ SubSeq(pending, size + 1, Len(pending)) \in Seq(Encodable)
  BY <1>1, SubSeqType
<1>4. /\ actor.requests = Unwritten(pending, size) /\ actor.box = io[e].box /\ actor \in IOType
  <2>1. Unwritten(pending, size) \in Seq(Request) /\ SubSeq(pending, 1, size) \in Seq(Request)
    BY <1>3, CleanTypes DEF Unwritten
  <2> QED BY <2>1, ZenonT(30) DEF ConnTypes, IOType
<1> HIDE DEF actor
<1>5. b.box = Tail(io[e].box) /\ b.requests = Unwritten(pending, size)
  BY <1>2, <1>4, Became DEF ConnTypes
<1>6. Tail(io[e].box) \in Seq(CleanIO)
  BY HeadTailProperties DEF CleanActor
<1>7. /\ u.wire = tcp[e].wire /\ u.net = tcp[e].net /\ u.half = tcp[e].half
      /\ u.writing \in {tcp[e].writing, SubSeq(pending, 1, size)}
  BY <1>2 DEF ConnTypes, TcpType
<1> HIDE DEF b, u
<1>8. CleanActor(b)
  BY <1>3, <1>5, <1>6 DEF CleanActor, Unwritten
<1>9. CleanTcp(u)
  BY <1>3, <1>7 DEF CleanTcp
<1> QED BY <1>8, <1>9 DEF b, u

LEMMA IOClean ==
    ASSUME ConnTypes, NEW e \in Connections, CleanActor(io[e]), CleanTcp(tcp[e]),
           IONext(e) \/ ((FireConnectTimeout(e) \/ FireAbortTimeout(e)) /\ UNCHANGED tcp)
    PROVE  CleanActor(io'[e]) /\ CleanTcp(tcp'[e])
<1> DEFINE a == io[e]
           t == tcp[e]
           b == io'[e]
           u == tcp'[e]
<1>1. /\ a \in IOType /\ a.box \in Seq(CleanIO) /\ a.requests \in Seq(Encodable)
      /\ io \in [Connections -> IOType] /\ tcp \in [Connections -> TcpType] /\ t \in TcpType
  BY DEF ConnTypes, CleanActor
<1>2. ASSUME NEW m, IOReceives(e, m)
      PROVE  a.box # <<>> /\ Tail(a.box) \in Seq(CleanIO) /\ Head(a.box) \in CleanIO /\ Head(a.box).type = m
  BY <1>1, <1>2, HeadTailProperties DEF IOReceives
<1>3. UNCHANGED tcp => CleanTcp(u)
  OBVIOUS
<1>4. ASSUME IOStop(e) PROVE CleanActor(b)
  BY <1>1, <1>4, CleanNewActors DEF IOStop
<1>5. ASSUME NEW actor \in IOType, IOBecomes(e, actor), actor.box = a.box, a.box # <<>>,
             actor.requests \in Seq(Encodable)
      PROVE  CleanActor(b)
  <2>1. b.box = Tail(actor.box) /\ b.requests = actor.requests
    BY <1>1, <1>5, Became
  <2>2. Tail(a.box) \in Seq(CleanIO)
    BY <1>1, <1>5, HeadTailProperties
  <2> HIDE DEF b
  <2> QED BY <1>5, <2>1, <2>2 DEF CleanActor
<1>6. CASE IOConnected(e)
  <2> DEFINE actor == [a EXCEPT !.state = "connected", !.connectTimer = FALSE, !.canWrite = TRUE]
  <2>1. actor \in IOType /\ actor.box = a.box /\ actor.requests = a.requests
    BY <1>1 DEF IOType, IOStates
  <2>2. IOBecomes(e, actor) /\ a.box # <<>>
    BY <1>2, <1>6 DEF IOConnected
  <2> HIDE DEF actor
  <2>3. CleanActor(b)
    BY <1>1, <1>5, <2>1, <2>2
  <2>4. u.wire = t.wire /\ u.net = t.net /\ u.half = t.half /\ u.writing = t.writing
    BY <1>1, <1>6 DEF IOConnected, TcpType
  <2> HIDE DEF u, b
  <2>5. CleanTcp(u)
    BY <2>4 DEF CleanTcp
  <2> QED BY <2>3, <2>5 DEF u, b
<1>7. CASE IOConnectFailed(e) \/ IOShutdownAck(e) \/ IOAborted(e)
  BY <1>3, <1>4, <1>7 DEF IOConnectFailed, IOShutdownAck, IOAborted
<1>8. CASE IORequest(e)
  <2> DEFINE pending == Append(a.requests, Head(a.box).req)
  <2>1. Head(a.box).req \in Encodable /\ a.box # <<>>
    BY <1>2, <1>8 DEF IORequest, CleanIO
  <2>2. pending \in Seq(Encodable)
    BY <1>1, <2>1
  <2>3. CASE a.canWrite
    <3>1. WritesNext(e, pending)
      BY <1>8, <2>3 DEF IORequest
    <3> QED BY <2>1, <2>2, <3>1, WritesClean
  <2>4. CASE ~a.canWrite
    <3> DEFINE actor == [a EXCEPT !.requests = pending]
    <3>1. IOBecomes(e, actor) /\ UNCHANGED tcp
      BY <1>8, <2>4 DEF IORequest
    <3>2. actor \in IOType /\ actor.box = a.box /\ actor.requests = pending
      BY <1>1, <2>2, CleanTypes DEF IOType
    <3> HIDE DEF actor
    <3> QED BY <1>3, <1>5, <2>1, <2>2, <3>1, <3>2
  <2> QED BY <2>3, <2>4
<1>9. CASE IOWriteAck(e)
  <2>1. WritesNext(e, a.requests) /\ a.box # <<>>
    BY <1>2, <1>9 DEF IOWriteAck
  <2> QED BY <1>1, <2>1, WritesClean
<1>10. CASE IOWriteFailed(e)
  BY <1>2, <1>10 DEF IOWriteFailed, CleanIO
<1>11. CASE IOShutdown(e) \/ IOTerminated(e)
  <2>1. PICK s \in {"awaitingAbort", "awaitingShutdown"} : IOBecomes(e, [a EXCEPT !.state = s])
    BY <1>11 DEF IOShutdown, IOTerminated
  <2> DEFINE actor == [a EXCEPT !.state = s]
  <2>2. actor \in IOType /\ actor.box = a.box /\ actor.requests = a.requests
    BY <1>1 DEF IOType, IOStates
  <2>3. IOBecomes(e, actor) /\ a.box # <<>> /\ UNCHANGED tcp
    BY <1>2, <1>11, <2>1 DEF IOShutdown, IOTerminated
  <2> HIDE DEF actor
  <2> QED BY <1>1, <1>3, <1>5, <2>2, <2>3
<1>12. CASE IORejectRequest(e) \/ IOIgnore(e)
  <2>1. IOBecomes(e, a) /\ a.box # <<>> /\ UNCHANGED tcp
    BY <1>2, <1>12 DEF IORejectRequest, IOIgnore, IOIgnored
  <2> QED BY <1>1, <1>3, <1>5, <2>1
<1>13. CASE IOAbortAck(e)
  <2> DEFINE actor == [a EXCEPT !.state = "aborting", !.abortTimer = TRUE]
  <2>1. actor \in IOType /\ actor.box = a.box /\ actor.requests = a.requests
    BY <1>1 DEF IOType, IOStates
  <2>2. IOBecomes(e, actor) /\ a.box # <<>>
    BY <1>2, <1>13 DEF IOAbortAck
  <2> HIDE DEF actor
  <2>3. CleanActor(b)
    BY <1>1, <1>5, <2>1, <2>2
  <2>4. u.wire = t.wire /\ u.net = t.net /\ u.half = t.half /\ u.writing = t.writing
    BY <1>1, <1>13 DEF IOAbortAck, TcpType
  <2> HIDE DEF u, b
  <2>5. CleanTcp(u)
    BY <2>4 DEF CleanTcp
  <2> QED BY <2>3, <2>5 DEF u, b
<1>14. CASE IOAbortTimeout(e)
  <2>1. a.box # <<>> /\ Tail(a.box) \in Seq(CleanIO)
    BY <1>2, <1>14 DEF IOAbortTimeout
  <2>2. CleanActor(b)
    <3>1. CASE IOBecomes(e, a)
      BY <1>1, <1>5, <2>1, <3>1
    <3>2. CASE IOBecomes(e, [a EXCEPT !.box = Append(@, Signal("Terminated"))])
      <4> DEFINE more == Append(a.box, Signal("Terminated"))
                 actor == [a EXCEPT !.box = more]
      <4>1. Signal("Terminated") \in CleanIO
        BY CleanSignals DEF IOSignals
      <4>2. more \in Seq(CleanIO) /\ more # <<>> /\ Tail(more) \in Seq(CleanIO)
        <5> DEFINE x == Signal("Terminated")
                   box == a.box
        <5>1. x \in CleanIO /\ box \in Seq(CleanIO) /\ more = Append(box, x)
          BY <1>1, <4>1
        <5> HIDE DEF x, box, more
        <5>2. more \in Seq(CleanIO) /\ more # <<>>
          BY <5>1
        <5> QED BY <5>2, HeadTailProperties
      <4>3. actor \in IOType /\ actor.box = more /\ actor.requests = a.requests
        <5> HIDE DEF more
        <5> QED BY <1>1, <4>2, CleanTypes DEF IOType
      <4>4. IOBecomes(e, actor)
        BY <3>2
      <4> HIDE DEF actor
      <4>5. b.box = Tail(actor.box) /\ b.requests = actor.requests
        BY <1>1, <4>3, <4>4, Became
      <4> HIDE DEF more, b
      <4> QED BY <1>1, <4>2, <4>3, <4>5 DEF CleanActor
    <3> QED BY <1>14, <3>1, <3>2 DEF IOAbortTimeout
  <2>3. u.wire = t.wire /\ u.net = t.net /\ u.half = t.half /\ u.writing = t.writing
    BY <1>1, <1>14 DEF IOAbortTimeout, TcpType
  <2> HIDE DEF u, b
  <2>4. CleanTcp(u)
    BY <2>3 DEF CleanTcp
  <2> QED BY <2>2, <2>4 DEF u, b
<1>15. ASSUME FireConnectTimeout(e) \/ FireAbortTimeout(e), UNCHANGED tcp
       PROVE  CleanActor(b)
  <2>1. PICK s \in {"ConnectTimeout", "AbortTimeout"} :
          \/ b = [Told(a, <<Signal(s)>>) EXCEPT !.connectTimer = FALSE]
          \/ b = [Told(a, <<Signal(s)>>) EXCEPT !.abortTimer = FALSE]
    BY <1>1, <1>15 DEF FireConnectTimeout, FireAbortTimeout
  <2> DEFINE x == Told(a, <<Signal(s)>>)
  <2>2. x \in IOType /\ CleanActor(x)
    BY <1>1, ToldSignalType, CleanTold, CleanSignals DEF IOSignals
  <2> HIDE DEF x
  <2>3. b.box = x.box /\ b.requests = x.requests
    BY <2>1, <2>2 DEF IOType, x
  <2> HIDE DEF b
  <2> QED BY <2>2, <2>3 DEF CleanActor
<1> QED
  BY <1>3, <1>6, <1>7, <1>8, <1>9, <1>10, <1>11, <1>12, <1>13, <1>14, <1>15 DEF IONext

(* What the connections and the server do.                                 *)
LEMMA TcpClean ==
    ASSUME TypeInv, Whole, NEW c \in Connections, CleanActor(io[c]), CleanTcp(tcp[c]),
           lbox \in Seq(CleanMessage),
           \/ TcpConnect(c) \/ TcpWrite(c) \/ TcpRead(c) \/ TcpAbort(c) \/ TcpQuit(c)
           \/ TcpConnectFail(c) \/ TcpWriteFail(c) \/ TcpDrop(c)
           \/ ServerExecute(c) \/ ServerSkip(c)
    PROVE  CleanActor(io'[c]) /\ CleanTcp(tcp'[c]) /\ lbox' \in Seq(CleanMessage)
<1> DEFINE a == io[c]
           t == tcp[c]
           u == tcp'[c]
<1>1. /\ a \in IOType /\ io \in [Connections -> IOType]
      /\ tcp \in [Connections -> TcpType] /\ t \in TcpType
      /\ t.wire \in Seq(Encodable) /\ t.writing \in Seq(Encodable) /\ t.net \in Seq(Legible)
      /\ t.wire \in Seq(Request) /\ t.writing \in Seq(Request) /\ t.net \in Seq(Reply)
      /\ t.half => t.net # <<>> /\ SplitReplies
  BY CleanTypes DEF TypeInv, TypeOK, TcpTypeOK, CleanTcp
<1>2. ASSUME NEW s \in IOSignals \ {"WriteFailed"}, TellIO(c, s) PROVE CleanActor(io'[c])
  BY <1>1, <1>2, CleanTold, CleanSignals DEF TellIO
<1>e. <<>> \in Seq(Encodable) /\ <<>> \in Seq(Legible)
  OBVIOUS
<1>3. ASSUME Closes(c) PROVE CleanActor(io'[c]) /\ CleanTcp(u) /\ lbox' = lbox
  <2>p. PICK n \in 0..Len(t.writing) :
          tcp' = [tcp EXCEPT ![c].state = "closed", ![c].abort = FALSE, ![c].net = <<>>,
                             ![c].half = FALSE, ![c].writing = <<>>,
                             ![c].wire = @ \o SubSeq(tcp[c].writing, 1, n)]
    BY <1>3 DEF Closes
  <2>1. /\ u.net = <<>> /\ u.half = FALSE /\ u.writing = <<>>
        /\ u.wire = t.wire \o SubSeq(t.writing, 1, n)
    BY <1>1, <2>p DEF TcpType
  <2>2. n \in Nat /\ n <= Len(t.writing)
    BY <1>1
  <2>3. SubSeq(t.writing, 1, n) \in Seq(Encodable)
    BY <1>1, <2>2, SubSeqType
  <2>4. t.wire \o SubSeq(t.writing, 1, n) \in Seq(Encodable)
    BY <1>1, <2>3
  <2> HIDE DEF u
  <2>5. CleanTcp(u)
    BY <1>e, <2>1, <2>4 DEF CleanTcp
  <2> QED BY <1>2, <1>3, <2>5 DEF Closes, IOSignals, u
<1>4. CASE TcpConnect(c) \/ TcpConnectFail(c)
  <2>1. u.wire = t.wire /\ u.net = t.net /\ u.half = t.half /\ u.writing = t.writing
    BY <1>1, <1>4 DEF TcpConnect, TcpConnectFail, TcpType
  <2>2. CleanTcp(u)
    <3> HIDE DEF u
    <3> QED BY <1>1, <2>1 DEF CleanTcp
  <2> QED BY <1>2, <1>4, <2>2 DEF TcpConnect, TcpConnectFail, IOSignals
<1>5. CASE TcpWrite(c)
  <2>1. /\ u.wire = t.wire \o t.writing /\ u.net = t.net /\ u.half = t.half /\ u.writing = <<>>
        /\ TellIO(c, "WriteAck") /\ lbox' = lbox
    BY <1>1, <1>5 DEF TcpWrite, TcpType
  <2>2. t.wire \o t.writing \in Seq(Encodable)
    BY <1>1
  <2>3. CleanTcp(u)
    <3> HIDE DEF u
    <3> QED BY <1>1, <1>e, <2>1, <2>2 DEF CleanTcp
  <2> QED BY <1>2, <2>1, <2>3 DEF IOSignals
<1>6. CASE TcpRead(c)
  <2>1. PICK n \in 0..Len(t.net), splits \in BOOLEAN :
         /\ splits => SplitReplies /\ n < Len(t.net)
         /\ lbox' = AfterTellingListener(lbox,
              <<[type |-> "Received",
                 data |-> [resumes |-> t.half,
                           replies |-> SubSeq(t.net, 1, n),
                           rest |-> IF splits THEN <<t.net[n + 1]>> ELSE <<>>]]>>)
         /\ tcp' = [tcp EXCEPT ![c].net = SubSeq(@, n + 1, Len(@)), ![c].half = splits]
    BY <1>6 DEF TcpRead
  <2>2. n \in Nat /\ n <= Len(t.net) /\ Len(t.net) \in Nat
    BY <1>1
  <2>3. SubSeq(t.net, 1, n) \in Seq(Legible) /\ SubSeq(t.net, n + 1, Len(t.net)) \in Seq(Legible)
        /\ (n < Len(t.net) => SubSeq(t.net, n + 1, Len(t.net)) # <<>>)
    <3>1. SubSeq(t.net, 1, n) \in Seq(Legible) /\ SubSeq(t.net, n + 1, Len(t.net)) \in Seq(Legible)
      BY <1>1, <2>2, SubSeqType
    <3>2. n < Len(t.net) => SubSeq(t.net, n + 1, Len(t.net)) # <<>>
      <4> DEFINE net == t.net
      <4>1. net \in Seq(Legible)
        BY <1>1
      <4> HIDE DEF net
      <4>2. n < Len(net) => Len(SubSeq(net, n + 1, Len(net))) # 0
        BY <2>2, <4>1
      <4> QED BY <4>2 DEF net
    <3> QED BY <3>1, <3>2
  <2> DEFINE left == SubSeq(t.net, n + 1, Len(t.net))
             data == [resumes |-> t.half, replies |-> SubSeq(t.net, 1, n),
                      rest |-> IF splits THEN <<t.net[n + 1]>> ELSE <<>>]
             m == [type |-> "Received", data |-> data]
  <2>4. /\ u.wire = t.wire /\ u.net = left /\ u.half = splits /\ u.writing = t.writing
    BY <1>1, <2>1 DEF TcpType
  <2>5. CleanTcp(u)
    <3>1. left \in Seq(Legible) /\ (n < Len(t.net) => left # <<>>)
      BY <2>3
    <3> HIDE DEF u, left
    <3> QED BY <1>1, <2>1, <2>4, <3>1 DEF CleanTcp
  <2>6. m \in CleanMessage
    <3>1. data.replies \in Seq(Legible) /\ data.replies \in Seq(Reply)
      BY <2>3, CleanTypes
    <3>2. splits => t.net[n + 1] \in Reply
      BY <1>1, <2>1, <2>2
    <3>3. data.rest \in Seq(Reply) /\ data.resumes \in BOOLEAN
      BY <1>1, <3>2 DEF TcpType
    <3>4. data \in Data
      <4> DEFINE replies == SubSeq(t.net, 1, n)
                 rest == IF splits THEN <<t.net[n + 1]>> ELSE <<>>
      <4>1. replies \in Seq(Reply) /\ rest \in Seq(Reply) /\ t.half \in BOOLEAN
        BY <3>1, <3>3
      <4> HIDE DEF replies, rest
      <4>2. [resumes |-> t.half, replies |-> replies, rest |-> rest] \in Data
        BY <4>1 DEF Data
      <4> QED BY <4>2 DEF replies, rest
    <3> HIDE DEF data
    <3>5. m \in ListenerMessage /\ m.type = "Received" /\ m.data = data
      BY <3>4 DEF ListenerMessage
    <3> HIDE DEF m
    <3> QED BY <3>1, <3>5 DEF CleanMessage
  <2>7. lbox' \in Seq(CleanMessage)
    <3>1. lbox' = AfterTellingListener(lbox, <<m>>)
      BY <2>1
    <3> HIDE DEF m
    <3> QED BY <2>6, <3>1 DEF AfterTellingListener
  <2>8. io' = io
    BY <1>6 DEF TcpRead
  <2> QED BY <2>5, <2>7, <2>8
<1>7. CASE TcpAbort(c) \/ TcpQuit(c) \/ TcpDrop(c)
  BY <1>3, <1>7 DEF TcpAbort, TcpQuit, TcpDrop
<1>8. ~TcpWriteFail(c)
  BY DEF TcpWriteFail, Fault, Whole
<1>9. CASE ServerExecute(c)
  <2>1. t.wire # <<>> /\ UNCHANGED <<lbox, io>>
    BY <1>9 DEF ServerExecute
  <2>2. Head(t.wire) \in Request /\ Tail(t.wire) \in Seq(Encodable)
    BY <1>1, <2>1, HeadTailProperties
  <2>3. PICK kind \in {"ok", "queued", "error"} :
         /\ u.wire = Tail(t.wire) /\ u.writing = t.writing /\ u.half = t.half
         /\ u.net = IF t.state = "open" THEN Append(t.net, [to |-> Head(t.wire).id, kind |-> kind])
                                        ELSE t.net
    <3> DEFINE r == Head(t.wire)
               queues == t.multi /\ r.op # "exec"
               kind == IF queues THEN "queued"
                       ELSE IF r.op \in SessionOps /\ r.value \in Rejected THEN "error"
                       ELSE "ok"
    <3>1. /\ u.wire = Tail(t.wire) /\ u.writing = t.writing /\ u.half = t.half
          /\ u.net = IF t.state = "open" THEN Append(t.net, [to |-> Head(t.wire).id, kind |-> kind])
                                         ELSE t.net
      BY <1>1, <1>9 DEF ServerExecute, TcpType
    <3>2. kind \in {"ok", "queued", "error"}
      OBVIOUS
    <3> HIDE DEF u, kind
    <3> QED BY <3>1, <3>2
  <2> DEFINE p == [to |-> Head(t.wire).id, kind |-> kind]
  <2>4. p \in Legible
    BY <2>2 DEF Legible, Reply, Request
  <2> HIDE DEF p
  <2>5. u.net \in Seq(Legible) /\ (t.half => u.net # <<>>)
    <3> DEFINE net == t.net
    <3>1. net \in Seq(Legible) /\ (t.half => net # <<>>) /\ u.net \in {net, Append(net, p)}
      BY <1>1, <2>3 DEF p
    <3> HIDE DEF net, u
    <3>2. Append(net, p) \in Seq(Legible) /\ Append(net, p) # <<>>
      BY <2>4, <3>1
    <3> QED BY <3>1, <3>2
  <2>6. CleanTcp(u)
    <3> HIDE DEF u
    <3> QED BY <1>1, <2>2, <2>3, <2>5 DEF CleanTcp
  <2> QED BY <2>1, <2>6
<1>10. CASE ServerSkip(c)
  <2>1. t.wire # <<>> /\ UNCHANGED <<lbox, io>>
        /\ u.wire = Tail(t.wire) /\ u.writing = t.writing /\ u.half = t.half /\ u.net = t.net
    BY <1>1, <1>10 DEF ServerSkip, TcpType
  <2>2. Tail(t.wire) \in Seq(Encodable)
    BY <1>1, <2>1, HeadTailProperties
  <2>3. CleanTcp(u)
    <3> HIDE DEF u
    <3> QED BY <1>1, <2>1, <2>2 DEF CleanTcp
  <2> QED BY <2>1, <2>3
<1> QED BY <1>4, <1>5, <1>6, <1>7, <1>8, <1>9, <1>10

(* A step that concerns connection c, and what it tells the listener.      *)
LEMMA OneClean ==
    ASSUME CleanInv, NEW c \in Connections, OneForward(c), CleanActor(io'[c]), CleanTcp(tcp'[c]),
           lbox' \in Seq(CleanMessage), UNCHANGED queued
    PROVE  CleanInv'
BY DEF CleanInv, OneForward

LEMMA SignalClean ==
    ASSUME CleanInv, NEW t \in ListenerSignals, lbox' = AfterTellingListener(lbox, <<Signal(t)>>)
    PROVE  lbox' \in Seq(CleanMessage)
BY CleanSignals DEF CleanInv, AfterTellingListener

LEMMA CleanInit == Init => CleanInv
<1> SUFFICES ASSUME Init PROVE CleanInv
  OBVIOUS
<1>1. /\ lbox = <<>> /\ queued = <<>>
      /\ io = [e \in Connections |-> IF e = 1 THEN NewIOActor ELSE NoIOActor]
      /\ tcp = [c \in Connections |-> Fresh]
  BY DEF Init, LInit, TcpInit
<1>2. <<>> \in Seq(Encodable) /\ <<>> \in Seq(CleanMessage)
  OBVIOUS
<1> QED BY <1>1, <1>2, CleanNewActors DEF CleanInv

LEMMA CleanStep ==
    ASSUME Whole, TypeInv, TypeInv', Delivery, CleanInv, [Next]_vars
    PROVE  CleanInv'
<1>1. ConnTypes /\ \A c \in Connections : CleanActor(io[c]) /\ CleanTcp(tcp[c]) /\ ConnInv(io[c], tcp[c])
  BY DEF TypeInv, TypeOK, TcpTypeOK, ConnTypes, CleanInv, Delivery
<1>u. ASSUME UNCHANGED <<lbox, io, tcp, queued>> PROVE CleanInv'
  BY <1>u DEF CleanInv
<1>2. ASSUME NEW t \in Threads, Check(t) PROVE CleanInv'
  BY <1>2, <1>u DEF Check, listenerVars
<1>3. ASSUME NEW item, CompleteTransaction(item) PROVE CleanInv'
  BY <1>3, <1>u DEF CompleteTransaction, listenerVars
<1>4. ASSUME NEW t \in Threads, Post(t) PROVE CleanInv'
  <2> DEFINE m == NextItem(t)
  <2>1. HasItem(t) /\ m \in Item
    BY <1>4, NextItemType DEF Post, TypeInv, AdmittedHasItem
  <2>2. /\ \A i \in DOMAIN m.reqs : m.reqs[i].op # "spent"
        /\ m.reqs \in Seq(Request) /\ m.type \in {"Request", "Transaction"}
    <3>1. sent[t] + 1 \in DOMAIN Workload[t]
      BY <2>1, WorkloadAssumption DEF TypeInv, TypeOK, HasItem
    <3> QED BY <2>1, <3>1, RequestsAreFresh DEF NextItem, Item
  <2> HIDE DEF m
  <2>3. m.reqs \in Seq(Encodable)
    BY <2>2 DEF Encodable
  <2>4. m \in CleanMessage
    BY <2>1, <2>2, <2>3 DEF CleanMessage, ListenerMessage
  <2>5. lbox' = AfterTellingListener(lbox, <<m>>) /\ UNCHANGED <<io, tcp, queued>>
    BY <1>4 DEF Post, listenerVars, m
  <2>6. lbox' \in Seq(CleanMessage)
    BY <2>4, <2>5 DEF CleanInv, AfterTellingListener
  <2> QED BY <2>5, <2>6 DEF CleanInv
<1>5. ASSUME ListenerStep PROVE CleanInv'
  <2>1. LNext /\ UNCHANGED tcp
    BY <1>5 DEF ListenerStep
  <2> QED BY <2>1, ListenerClean DEF CleanInv
<1>6. ASSUME NEW d \in Decoders, DecoderStep(d) PROVE CleanInv'
  <2>1. UNCHANGED <<io, tcp, queued>>
    BY <1>6 DEF DecoderStep, listenerVars
  <2>2. lbox' = lbox \/ Tell("Terminated")
    BY <1>6 DEF DecoderStep, DecodePartition, DecoderStop
  <2>3. lbox' \in Seq(CleanMessage)
    BY <2>2, SignalClean DEF Tell, CleanInv, ListenerSignals
  <2> QED BY <2>1, <2>3 DEF CleanInv
<1>7. ASSUME NEW c \in Connections,
             \/ IONext(c)
             \/ ((FireConnectTimeout(c) \/ FireAbortTimeout(c)) /\ UNCHANGED tcp),
             UNCHANGED queued
      PROVE  CleanInv'
  <2>1. OneForward(c)
    BY <1>1, <1>7, IOForward
  <2>2. CleanActor(io'[c]) /\ CleanTcp(tcp'[c])
    BY <1>1, <1>7, IOClean
  <2>3. UNCHANGED lbox \/ \E t \in ListenerSignals : Tell(t)
    BY <1>7 DEF IONext, IOConnected, IOConnectFailed, IORequest, IOWriteAck, IOWriteFailed,
         IOShutdown, IOTerminated, IORejectRequest, IOShutdownAck, IOAbortAck, IOAborted,
         IOAbortTimeout, IOIgnore, IOStop, WritesNext, ListenerSignals,
         FireConnectTimeout, FireAbortTimeout
  <2>4. lbox' \in Seq(CleanMessage)
    BY <2>3, SignalClean DEF Tell, CleanInv
  <2> QED BY <1>7, <2>1, <2>2, <2>4, OneClean
<1>8. ASSUME NEW c \in Connections, IOStep(c) PROVE CleanInv'
  BY <1>7, <1>8 DEF IOStep, listenerVars
<1>9. ASSUME NEW c \in Connections, ConnectTimeoutFires(c) \/ AbortTimeoutFires(c) PROVE CleanInv'
  <2>1. (FireConnectTimeout(c) \/ FireAbortTimeout(c)) /\ UNCHANGED tcp /\ UNCHANGED queued
    BY <1>9 DEF ConnectTimeoutFires, AbortTimeoutFires, FireConnectTimeout, FireAbortTimeout, listenerVars
  <2> QED BY <1>7, <2>1
<1>10. ~Crash
  BY DEF Crash, Fault, Whole
<1>11. ASSUME NEW c \in Connections, UNCHANGED user,
              \/ TcpConnect(c) \/ TcpWrite(c) \/ TcpRead(c) \/ TcpAbort(c) \/ TcpQuit(c)
              \/ TcpConnectFail(c) \/ TcpWriteFail(c) \/ TcpDrop(c)
       PROVE  CleanInv'
  <2>1. OneForward(c)
    BY <1>1, <1>11, ConnectionForward
  <2>2. CleanActor(io'[c]) /\ CleanTcp(tcp'[c]) /\ lbox' \in Seq(CleanMessage)
    BY <1>1, <1>11, TcpClean DEF CleanInv
  <2> QED BY <1>11, <2>1, <2>2, OneClean DEF user, listenerVars
<1>12. ASSUME NEW c \in Connections, Execute(c) PROVE CleanInv'
  <2>1. OneForward(c)
    <3>1. executed \in Seq(Execution)
      BY DEF TypeInv, TypeOK, TcpTypeOK
    <3> QED BY <1>1, <1>12, <3>1, ExecuteForward DEF Execute
  <2>2. CleanActor(io'[c]) /\ CleanTcp(tcp'[c]) /\ lbox' \in Seq(CleanMessage)
    BY <1>1, <1>12, TcpClean DEF CleanInv, Execute
  <2> QED BY <1>12, <2>1, <2>2, OneClean DEF Execute, user, listenerVars
<1>13. ASSUME NEW c \in Connections, TcpStep(c) PROVE CleanInv'
  BY <1>11, <1>13 DEF TcpStep
<1>14. ASSUME Faulty PROVE CleanInv'
  BY <1>11, <1>14 DEF Faulty
<1>15. ASSUME ReceiveTimeoutFires PROVE CleanInv'
  <2>1. UNCHANGED <<io, tcp, queued>> /\ lbox' = AfterTellingListener(lbox, <<Signal("ReceiveTimeout")>>)
    BY <1>15 DEF ReceiveTimeoutFires, FireReceiveTimeout
  <2>2. lbox' \in Seq(CleanMessage)
    BY <2>1, SignalClean DEF ListenerSignals
  <2> QED BY <2>1, <2>2 DEF CleanInv
<1>16. ASSUME UNCHANGED vars PROVE CleanInv'
  BY <1>16, <1>u DEF vars, listenerVars
<1> QED
  BY <1>2, <1>3, <1>4, <1>5, <1>6, <1>8, <1>9, <1>10, <1>12, <1>13, <1>14, <1>15, <1>16 DEF Next

-----------------------------------------------------------------------------
(* The half of a reply.                                                    *)

(* Read after `half`, the data complete it.                                *)
Joins(half, data) ==
    half = <<>> \/ (data.resumes /\ data.replies # <<>> /\ Head(data.replies) = Head(half))

(* halves[k] is what remains of a reply after k messages.                  *)
Chain(box, halves) ==
    /\ \A k \in 1..Len(box) : box[k].type = "Received" =>
           Joins(halves[k - 1], box[k].data) /\ halves[k] = box[k].data.rest
    /\ \A j, k \in 0..Len(box) : j <= k /\ (\A i \in j + 1..k : box[i].type # "Received") =>
           halves[j] = halves[k]
Chained(box, first, last) ==
    \E halves \in [0..Len(box) -> Seq(Reply)] :
        Chain(box, halves) /\ halves[0] = first /\ halves[Len(box)] = last

LEMMA ChainedNothing ==
    ASSUME NEW S, NEW box \in Seq(S), NoneOf(box, {"Received"}), NEW half \in Seq(Reply)
    PROVE  Chained(box, half, half)
<1> DEFINE h == [k \in 0..Len(box) |-> half]
<1>1. Len(box) \in Nat /\ \A k \in 1..Len(box) : box[k].type # "Received"
  BY DEF NoneOf
<1>2. h \in [0..Len(box) -> Seq(Reply)] /\ \A k \in 0..Len(box) : h[k] = half
  OBVIOUS
<1>3. 0 \in 0..Len(box) /\ Len(box) \in 0..Len(box)
  BY <1>1
<1> HIDE DEF h
<1>4. Chain(box, h)
  BY <1>1, <1>2 DEF Chain
<1> QED BY <1>2, <1>3, <1>4 DEF Chained

LEMMA ChainedSame ==
    ASSUME NEW S, NEW box \in Seq(S), NEW first, NEW last, Chained(box, first, last),
           NoneOf(box, {"Received"})
    PROVE  first = last
<1>1. Len(box) \in Nat /\ \A k \in 1..Len(box) : box[k].type # "Received"
  BY DEF NoneOf
<1>2. PICK h : Chain(box, h) /\ h[0] = first /\ h[Len(box)] = last
  BY DEF Chained
<1>3. 0 \in 0..Len(box) /\ Len(box) \in 0..Len(box) /\ 0 <= Len(box) /\ 0 + 1 = 1
  BY <1>1
<1>4. h[0] = h[Len(box)]
  BY <1>1, <1>2, <1>3 DEF Chain
<1> QED BY <1>2, <1>4

LEMMA ChainedTypes ==
    ASSUME NEW S, NEW box \in Seq(S), NEW first, NEW last, Chained(box, first, last)
    PROVE  first \in Seq(Reply) /\ last \in Seq(Reply)
<1>1. 0 \in 0..Len(box) /\ Len(box) \in 0..Len(box)
  <2>1. Len(box) \in Nat
    OBVIOUS
  <2> QED BY <2>1
<1> QED BY <1>1 DEF Chained

(* One more message.                                                       *)
LEMMA ChainedTold ==
    ASSUME NEW S, NEW box \in Seq(S), NEW m \in S, NEW first, NEW last, Chained(box, first, last),
           NEW next \in Seq(Reply),
           m.type = "Received" => Joins(last, m.data) /\ next = m.data.rest,
           m.type # "Received" => next = last
    PROVE  Chained(box \o <<m>>, first, next)
<1> DEFINE n == Len(box)
           more == box \o <<m>>
<1>1. /\ n \in Nat /\ Len(more) = n + 1 /\ more[n + 1] = m
      /\ \A k \in 1..n : more[k] = box[k]
  OBVIOUS
<1>2. PICK h \in [0..n -> Seq(Reply)] : Chain(box, h) /\ h[0] = first /\ h[n] = last
  BY DEF Chained
<1> HIDE DEF n, more
<1>3. /\ \A k \in 1..n : box[k].type = "Received" => Joins(h[k - 1], box[k].data) /\ h[k] = box[k].data.rest
      /\ \A j, k \in 0..n : j <= k /\ (\A i \in j + 1..k : box[i].type # "Received") => h[j] = h[k]
  BY <1>2 DEF Chain, n
<1> DEFINE g == [k \in 0..n + 1 |-> IF k = n + 1 THEN next ELSE h[k]]
<1>4. g \in [0..n + 1 -> Seq(Reply)] /\ g[n + 1] = next /\ \A k \in 0..n : g[k] = h[k]
  BY <1>1, <1>2
<1> HIDE DEF g
<1>5. ASSUME NEW k \in 1..n + 1, more[k].type = "Received"
      PROVE  Joins(g[k - 1], more[k].data) /\ g[k] = more[k].data.rest
  <2>1. CASE k \in 1..n
    <3>1. k - 1 \in 0..n /\ k \in 0..n
      BY <1>1, <2>1
    <3> QED BY <1>1, <1>3, <1>4, <1>5, <2>1, <3>1
  <2>2. CASE k = n + 1
    <3>1. k - 1 = n /\ n \in 0..n
      BY <1>1, <2>2
    <3> QED BY <1>1, <1>2, <1>4, <1>5, <2>2, <3>1
  <2> QED BY <1>1, <2>1, <2>2
<1>6. ASSUME NEW j \in 0..n + 1, NEW k \in 0..n + 1, j <= k, \A i \in j + 1..k : more[i].type # "Received"
      PROVE  g[j] = g[k]
  <2>1. CASE k \in 0..n
    <3>1. j \in 0..n /\ \A i \in j + 1..k : i \in 1..n
      BY <1>1, <1>6, <2>1
    <3>2. \A i \in j + 1..k : box[i].type # "Received"
      BY <1>1, <1>6, <3>1
    <3>3. h[j] = h[k]
      BY <1>3, <1>6, <2>1, <3>1, <3>2
    <3> QED BY <1>4, <2>1, <3>1, <3>3
  <2>2. CASE k = n + 1 /\ j # n + 1
    <3>1. /\ j \in 0..n /\ n \in 0..n /\ j <= n /\ n + 1 \in j + 1..k
          /\ \A i \in j + 1..n : i \in 1..n /\ i \in j + 1..k
      BY <1>1, <1>6, <2>2
    <3>2. g[j] = h[n]
      BY <1>1, <1>3, <1>4, <1>6, <3>1, ZenonT(30)
    <3> QED BY <1>1, <1>2, <1>4, <1>6, <2>2, <3>1, <3>2
  <2> QED BY <1>1, <2>1, <2>2
<1>7. Chain(more, g)
  BY <1>1, <1>5, <1>6 DEF Chain
<1>8. g[0] = first
  BY <1>1, <1>2, <1>4
<1> QED BY <1>1, <1>4, <1>7, <1>8 DEF Chained, more

(* Without the first message.                                              *)
LEMMA ChainedTail ==
    ASSUME NEW S, NEW box \in Seq(S), box # <<>>, NEW first, NEW last, Chained(box, first, last)
    PROVE  \E next \in Seq(Reply) :
              /\ Chained(Tail(box), next, last)
              /\ Head(box).type = "Received" =>
                   Joins(first, Head(box).data) /\ next = Head(box).data.rest
              /\ Head(box).type # "Received" => next = first
<1> DEFINE n == Len(box)
           u == Tail(box)
<1>1. /\ n \in Nat /\ n >= 1 /\ Len(u) = n - 1 /\ Head(box) = box[1]
      /\ \A k \in 1..n - 1 : u[k] = box[k + 1]
  BY HeadTailProperties
<1>2. PICK h \in [0..n -> Seq(Reply)] : Chain(box, h) /\ h[0] = first /\ h[n] = last
  BY DEF Chained
<1> HIDE DEF n, u
<1>3. /\ \A k \in 1..n : box[k].type = "Received" => Joins(h[k - 1], box[k].data) /\ h[k] = box[k].data.rest
      /\ \A j, k \in 0..n : j <= k /\ (\A i \in j + 1..k : box[i].type # "Received") => h[j] = h[k]
  BY <1>2 DEF Chain, n
<1> DEFINE g == [k \in 0..n - 1 |-> h[k + 1]]
<1>4. g \in [0..n - 1 -> Seq(Reply)] /\ \A k \in 0..n - 1 : g[k] = h[k + 1]
  <2>1. \A k \in 0..n - 1 : k + 1 \in 0..n
    BY <1>1
  <2> QED BY <1>2, <2>1
<1> HIDE DEF g
<1>5. ASSUME NEW k \in 1..n - 1, u[k].type = "Received"
      PROVE  Joins(g[k - 1], u[k].data) /\ g[k] = u[k].data.rest
  <2>1. k + 1 \in 1..n /\ k - 1 \in 0..n - 1 /\ k \in 0..n - 1 /\ (k + 1) - 1 = k /\ (k - 1) + 1 = k
    BY <1>1
  <2>2. u[k] = box[k + 1]
    BY <1>1
  <2>3. Joins(h[(k + 1) - 1], box[k + 1].data) /\ h[k + 1] = box[k + 1].data.rest
    BY <1>3, <1>5, <2>1, <2>2
  <2>4. g[k - 1] = h[k] /\ g[k] = h[k + 1]
    BY <1>4, <2>1
  <2> QED BY <2>1, <2>2, <2>3, <2>4
<1>6. ASSUME NEW j \in 0..n - 1, NEW k \in 0..n - 1, j <= k, \A i \in j + 1..k : u[i].type # "Received"
      PROVE  g[j] = g[k]
  <2>1. /\ j + 1 \in 0..n /\ k + 1 \in 0..n /\ j + 1 <= k + 1
        /\ \A i \in (j + 1) + 1..k + 1 : i - 1 \in j + 1..k /\ i - 1 \in 1..n - 1 /\ (i - 1) + 1 = i
    BY <1>1, <1>6
  <2>2. \A i \in (j + 1) + 1..k + 1 : box[i].type # "Received"
    <3> TAKE i \in (j + 1) + 1..k + 1
    <3>1. i - 1 \in j + 1..k /\ i - 1 \in 1..n - 1 /\ (i - 1) + 1 = i
      BY <2>1
    <3>2. u[i - 1] = box[i]
      BY <1>1, <3>1
    <3> QED BY <1>6, <3>1, <3>2
  <2> QED BY <1>3, <1>4, <2>1, <2>2
<1>7. Chain(u, g)
  BY <1>1, <1>5, <1>6 DEF Chain
<1>8. 0 \in 0..n - 1 /\ n - 1 \in 0..n - 1 /\ g[0] = h[1] /\ g[n - 1] = last
  <2>1. 0 \in 0..n - 1 /\ n - 1 \in 0..n - 1 /\ 0 + 1 = 1 /\ (n - 1) + 1 = n
    BY <1>1
  <2> QED BY <1>2, <1>4, <2>1
<1>9. Chained(u, h[1], last)
  BY <1>1, <1>4, <1>7, <1>8 DEF Chained
<1>10. 1 \in 1..n /\ 1 \in 0..n /\ 0 \in 0..n /\ 1 - 1 = 0 /\ 0 <= 1 /\ \A i \in 0 + 1..1 : i = 1
  BY <1>1
<1>11. Head(box).type = "Received" => Joins(first, Head(box).data) /\ h[1] = Head(box).data.rest
  BY <1>1, <1>2, <1>3, <1>10
<1>12. Head(box).type # "Received" => h[0] = h[1]
  BY <1>1, <1>3, <1>10
<1>13. h[1] \in Seq(Reply)
  BY <1>2, <1>10
<1> QED BY <1>2, <1>9, <1>11, <1>12, <1>13 DEF u

-----------------------------------------------------------------------------
(* The listener, the IOActor it talks to, and the connection of this one.  *)

Receiving == {"initializing", "initialized", "shuttingDown"}

(* The connection will not be read from any more.                          *)
Gone(a, t) == a.state # "connecting" /\ t.state # "open"

(* A message of these types comes after all that was read.                 *)
Late(box, types, a, t) ==
    \A k \in DOMAIN box : box[k].type \in types =>
        Gone(a, t) /\ \A l \in DOMAIN box : l > k => box[l].type # "Received"

(* An open connection has an IOActor that knows it to be open, and nobody  *)
(* has reported its end.                                                   *)
Attached(a, t) ==
    /\ t.state = "open" => a.state \in {"connected", "awaitingAbort", "aborting"}
    /\ t.state = "open" \/ a.state = "connecting" =>
         /\ NoneOf(a.box, {"Terminated"})
         /\ t.abort => a.state \in {"awaitingAbort", "aborting"}

(* Nothing was sent yet.                                                   *)
Idle(a, t) ==
    /\ NoneOf(a.box, {"Shutdown", "Request", "ShutdownAck"})
    /\ a.requests = <<>> /\ t.net = <<>> /\ t.wire = <<>> /\ t.writing = <<>> /\ ~t.half
    /\ a.state \in {"connecting", "connected", "awaitingShutdown", "stopped"}
HasConnected(a) == a.state \in {"connected", "awaitingShutdown"}
Starting(box, rs, rem, a, t) ==
    /\ rs = <<>> /\ rem = <<>>
    /\ NoneOf(box, {"Received", "Remove", "Abort"})
    /\ Idle(a, t)
    /\ ~NoneOf(box, {"Connected"}) => HasConnected(a)

(* d was read, s handed to the IOActor, q rejected.                        *)
Parts(box, abox, d, s, q) ==
    Conveys(box, "Received", d) /\ Conveys(abox, "Request", s) /\ Conveys(box, "Remove", q)

(* Replies and requests on their way, s those that were handed over.       *)
Row(n, w, x, r, s) == n \o (w \o (x \o (r \o s)))
Rest(a, t, s) == Row(Names(t.net), Asked(t.wire), Asked(t.writing), Asked(a.requests), s)

(* What the listener believes to be unanswered: what was read, and at      *)
(* least as much as will be rejected; while the connection is open, what   *)
(* is on its way.                                                          *)
Flow(box, rs, a, t) ==
    \E d, s, q, r :
        /\ Parts(box, a.box, d, s, q) /\ r \in Seq(Idents)
        /\ Asked(rs) = d \o r /\ Len(r) >= Len(s) + Len(q)
        /\ t.state = "open" => q = <<>> /\ r = Rest(a, t, s)
Counted(box, rs, a) ==
    \E d, s, q : Parts(box, a.box, d, s, q) /\ Len(rs) >= Len(s) + Len(q)

Half(t) == IF t.state = "open" /\ t.half THEN <<Head(t.net)>> ELSE <<>>

(* The IOActor has connected, and nobody has aborted it; it is only when   *)
(* the listener shuts down that it may go without the listener knowing.    *)
Ready(st, a) ==
    /\ NoneOf(a.box, {"Shutdown"})
    /\ a.state \in {"connected", "awaitingShutdown", "stopped"}
    /\ st # "shuttingDown" => a.state # "stopped" /\ NoneOf(a.box, {"ShutdownAck"})
Flowing(st, box, rs, rem, a, t) ==
    /\ NoneOf(box, {"Abort"}) /\ Ready(st, a)
    /\ Late(box, {"Remove"}, a, t)
    /\ Chained(box, rem, Half(t))
    /\ Flow(box, rs, a, t)

Paired(st, box, rs, rem, a, t) ==
    /\ Attached(a, t) /\ Late(box, {"Terminated", "Shutdown"}, a, t)
    /\ st = "connecting" => Starting(box, rs, rem, a, t)
    /\ st = "reconnecting" => rem = <<>> /\ Counted(box, rs, a)
    /\ st \in Receiving => Flowing(st, box, rs, rem, a, t)

(* A step of the IOActor and of its connection that keeps all this: it may *)
(* lose requests, but not while the connection is open.                    *)
Shrinks(a, b) ==
    \A s : Conveys(a.box, "Request", s) =>
        \E z : Conveys(b.box, "Request", z) /\ Len(z) <= Len(s)
Goes(a, t, b, u) ==
    \A s : Conveys(a.box, "Request", s) =>
        \E z : /\ Conveys(b.box, "Request", z) /\ Len(z) <= Len(s)
               /\ u.state = "open" => t.state = "open" /\ Rest(b, u, z) = Rest(a, t, s)
Steady(a, t, b, u) ==
    /\ Attached(b, u)
    /\ Gone(a, t) => Gone(b, u)
    /\ Shrinks(a, b)
    /\ Idle(a, t) => Idle(b, u) /\ (HasConnected(a) => HasConnected(b))
    /\ \A st \in Receiving :
         Ready(st, a) => Ready(st, b) /\ Goes(a, t, b, u) /\ Half(u) = Half(t)

(* Mailboxes.                                                              *)
LEMMA LateTail ==
    ASSUME NEW S, NEW box \in Seq(S), box # <<>>, NEW types, NEW a, NEW t, Late(box, types, a, t)
    PROVE  /\ Late(Tail(box), types, a, t)
           /\ Head(box).type \in types => Gone(a, t) /\ NoneOf(Tail(box), {"Received"})
<1>1. /\ \A k \in DOMAIN Tail(box) : Tail(box)[k] = box[k + 1] /\ k + 1 \in DOMAIN box /\ k + 1 > 1
      /\ \A k, l \in DOMAIN Tail(box) : l > k => l + 1 > k + 1
      /\ Head(box) = box[1] /\ 1 \in DOMAIN box
  OBVIOUS
<1>2. Late(Tail(box), types, a, t)
  BY <1>1 DEF Late
<1>3. Head(box).type \in types => Gone(a, t) /\ NoneOf(Tail(box), {"Received"})
  BY <1>1 DEF Late, NoneOf
<1> QED BY <1>2, <1>3

LEMMA LateTold ==
    ASSUME NEW S, NEW box \in Seq(S), NEW m \in S, NEW types, NEW a, NEW t, Late(box, types, a, t),
           m.type \in types => Gone(a, t) /\ m.type # "Received",
           m.type = "Received" => ~Gone(a, t)
    PROVE  Late(box \o <<m>>, types, a, t)
<1> DEFINE more == box \o <<m>>
<1>1. /\ \A k \in DOMAIN more : \/ k \in DOMAIN box /\ more[k] = box[k]
                                \/ k = Len(box) + 1 /\ more[k] = m
      /\ \A k, l \in DOMAIN more : k = Len(box) + 1 => ~(l > k)
  OBVIOUS
<1> HIDE DEF more
<1>2. ASSUME NEW k \in DOMAIN more, more[k].type \in types
      PROVE  Gone(a, t) /\ \A l \in DOMAIN more : l > k => more[l].type # "Received"
  <2>1. CASE k \in DOMAIN box /\ more[k] = box[k]
    <3>1. Gone(a, t) /\ \A l \in DOMAIN box : l > k => box[l].type # "Received"
      BY <1>2, <2>1 DEF Late
    <3>2. m.type # "Received"
      BY <3>1
    <3> QED BY <1>1, <3>1, <3>2
  <2>2. CASE k = Len(box) + 1 /\ more[k] = m
    BY <1>1, <1>2, <2>2
  <2> QED BY <1>1, <1>2, <2>1, <2>2
<1>3. Late(more, types, a, t)
  BY <1>2 DEF Late
<1> QED BY <1>3 DEF more

LEMMA NoneLate ==
    ASSUME NEW box, NEW types, NEW a, NEW t, NoneOf(box, types)
    PROVE  Late(box, types, a, t)
BY DEF NoneOf, Late

LEMMA LateNone ==
    ASSUME NEW box, NEW types, NEW a, NEW t, Late(box, types, a, t), ~Gone(a, t)
    PROVE  NoneOf(box, types)
BY DEF NoneOf, Late

LEMMA LateMoves ==
    ASSUME NEW box, NEW types, NEW a, NEW t, Late(box, types, a, t),
           NEW b, NEW u, Gone(a, t) => Gone(b, u)
    PROVE  Late(box, types, b, u)
BY DEF Late

LEMMA NoneOfTold ==
    ASSUME NEW S, NEW box \in Seq(S), NEW m \in S, NEW types
    PROVE  /\ NoneOf(box, types) /\ m.type \notin types => NoneOf(box \o <<m>>, types)
           /\ NoneOf(box \o <<m>>, types) => NoneOf(box, types) /\ m.type \notin types
<1> DEFINE more == box \o <<m>>
<1>1. /\ \A k \in DOMAIN more : \/ k \in DOMAIN box /\ more[k] = box[k]
                                \/ k = Len(box) + 1 /\ more[k] = m
      /\ \A k \in DOMAIN box : k \in DOMAIN more /\ more[k] = box[k]
      /\ Len(box) + 1 \in DOMAIN more /\ more[Len(box) + 1] = m
  OBVIOUS
<1> HIDE DEF more
<1>2. NoneOf(box, types) /\ m.type \notin types => NoneOf(more, types)
  BY <1>1 DEF NoneOf
<1>3. NoneOf(more, types) => NoneOf(box, types) /\ m.type \notin types
  BY <1>1 DEF NoneOf
<1> QED BY <1>2, <1>3 DEF more

LEMMA NoneOfHead ==
    ASSUME NEW S, NEW box \in Seq(S), box # <<>>, NEW types
    PROVE  /\ NoneOf(box, types) => Head(box).type \notin types /\ NoneOf(Tail(box), types)
           /\ Head(box).type \notin types /\ NoneOf(Tail(box), types) => NoneOf(box, types)
<1> DEFINE u == Tail(box)
<1>1. /\ \A k \in DOMAIN u : u[k] = box[k + 1] /\ k + 1 \in DOMAIN box
      /\ \A k \in DOMAIN box : k = 1 \/ (k - 1 \in DOMAIN u /\ u[k - 1] = box[k])
      /\ Head(box) = box[1] /\ 1 \in DOMAIN box
  OBVIOUS
<1> HIDE DEF u
<1>2. NoneOf(box, types) => Head(box).type \notin types /\ NoneOf(u, types)
  BY <1>1 DEF NoneOf
<1>3. Head(box).type \notin types /\ NoneOf(u, types) => NoneOf(box, types)
  BY <1>1 DEF NoneOf
<1> QED BY <1>2, <1>3 DEF u

LEMMA NoneOfSome ==
    ASSUME NEW box, NEW types, NEW some, some \subseteq types, NoneOf(box, types)
    PROVE  NoneOf(box, some)
BY DEF NoneOf

LEMMA NoneOfNothing == \A types : NoneOf(<<>>, types)
BY DEF NoneOf

(* What the mailboxes carry does not change with messages of other types.  *)
LEMMA PartsListens ==
    ASSUME NEW box \in Seq(ListenerMessage), NEW abox, NEW d, NEW s, NEW q, Parts(box, abox, d, s, q),
           box # <<>>, Head(box).type \notin {"Received", "Remove"}
    PROVE  Parts(Tail(box), abox, d, s, q)
<1>1. ASSUME NEW kind \in {"Received", "Remove"}, NEW x, Conveys(box, kind, x)
      PROVE  Conveys(Tail(box), kind, x)
  <2>1. Load(Head(box), kind) = <<>>
    BY LoadKinds
  <2>2. PICK z \in Seq(Idents) : x = Load(Head(box), kind) \o z /\ Conveys(Tail(box), kind, z)
    <3>1. Fits(ListenerMessage, kind)
      BY BoxesFit
    <3> QED BY <1>1, <3>1, ConveysTail
  <2>3. x = z
    BY <2>1, <2>2, ConcatEmptySeq
  <2> QED BY <2>2, <2>3
<1> QED BY <1>1 DEF Parts

LEMMA PartsHears ==
    ASSUME NEW box \in Seq(ListenerMessage), NEW abox, NEW d, NEW s, NEW q, Parts(box, abox, d, s, q),
           NEW m \in ListenerMessage, m.type \notin {"Received", "Remove"}
    PROVE  Parts(box \o <<m>>, abox, d, s, q)
<1>1. ASSUME NEW kind \in {"Received", "Remove"}, NEW x, Conveys(box, kind, x)
      PROVE  Conveys(box \o <<m>>, kind, x)
  <2>1. Load(m, kind) = <<>>
    BY LoadKinds
  <2>2. Fits(ListenerMessage, kind)
    BY BoxesFit
  <2>3. Conveys(box \o <<m>>, kind, x \o Load(m, kind))
    BY <1>1, <2>2, ConveysTold
  <2>4. x \o Load(m, kind) = x
    BY <1>1, <2>1, ConcatEmptySeq DEF Conveys
  <2> QED BY <2>3, <2>4
<1> QED BY <1>1 DEF Parts

LEMMA PartsTakes ==
    ASSUME NEW box, NEW abox \in Seq(IOMessage), NEW d, NEW s, NEW q, Parts(box, abox, d, s, q),
           abox # <<>>, Head(abox).type # "Request"
    PROVE  Parts(box, Tail(abox), d, s, q)
<1>1. Load(Head(abox), "Request") = <<>>
  BY LoadKinds
<1>2. PICK z \in Seq(Idents) : s = Load(Head(abox), "Request") \o z /\ Conveys(Tail(abox), "Request", z)
  BY BoxesFit, ConveysTail DEF Parts
<1>3. s = z
  BY <1>1, <1>2, ConcatEmptySeq
<1> QED BY <1>2, <1>3 DEF Parts

(* The first request of an IOActor.                                        *)
LEMMA PartsServes ==
    ASSUME NEW box, NEW abox \in Seq(IOMessage), NEW d, NEW s, NEW q, Parts(box, abox, d, s, q),
           abox # <<>>, Head(abox).type = "Request"
    PROVE  \E z \in Seq(Idents) : /\ s = <<Head(abox).req.id>> \o z /\ Len(s) = Len(z) + 1
                                  /\ Parts(box, Tail(abox), d, z, q)
<1>1. Load(Head(abox), "Request") = <<Head(abox).req.id>>
  BY LoadKinds
<1>2. PICK z \in Seq(Idents) : s = Load(Head(abox), "Request") \o z /\ Conveys(Tail(abox), "Request", z)
  BY BoxesFit, ConveysTail DEF Parts
<1>3. Head(abox).req.id \in Idents
  BY CarriedTail DEF Request, Idents
<1>4. s = <<Head(abox).req.id>> \o z /\ Len(<<Head(abox).req.id>> \o z) = Len(z) + 1
  <2> DEFINE i == Head(abox).req.id
  <2>1. i \in Idents /\ s = <<i>> \o z
    BY <1>1, <1>2, <1>3
  <2> HIDE DEF i
  <2>2. Len(<<i>> \o z) = Len(z) + 1
    BY <2>1
  <2> QED BY <2>1, <2>2 DEF i
<1>5. Parts(box, Tail(abox), d, z, q)
  BY <1>2 DEF Parts
<1> QED BY <1>4, <1>5

LEMMA PartsTold ==
    ASSUME NEW box, NEW abox \in Seq(IOMessage), NEW d, NEW s, NEW q, Parts(box, abox, d, s, q),
           NEW m \in IOMessage, m.type # "Request"
    PROVE  Parts(box, abox \o <<m>>, d, s, q)
<1>1. Load(m, "Request") = <<>>
  BY LoadKinds
<1>2. Conveys(abox \o <<m>>, "Request", s \o Load(m, "Request"))
  BY BoxesFit, ConveysTold DEF Parts
<1>3. s \o Load(m, "Request") = s
  BY <1>1, ConcatEmptySeq DEF Parts, Conveys
<1> QED BY <1>2, <1>3 DEF Parts

LEMMA PartsTypes ==
    ASSUME NEW box, NEW abox, NEW d, NEW s, NEW q, Parts(box, abox, d, s, q)
    PROVE  /\ d \in Seq(Idents) /\ s \in Seq(Idents) /\ q \in Seq(Idents)
           /\ Len(d) \in Nat /\ Len(s) \in Nat /\ Len(q) \in Nat
BY DEF Parts, Conveys

(* A mailbox that is empty, or without anything of the kind.               *)
LEMMA PartsNothing ==
    ASSUME NEW box \in Seq(ListenerMessage), NEW abox \in Seq(IOMessage),
           NoneOf(box, {"Received"}), NoneOf(box, {"Remove"}), NoneOf(abox, {"Request"})
    PROVE  Parts(box, abox, <<>>, <<>>, <<>>)
<1>1. \A s : Conveys(box, "Received", s) <=> s = <<>>
  BY BoxesFit, ConveysNothing
<1>2. \A s : Conveys(box, "Remove", s) <=> s = <<>>
  BY BoxesFit, ConveysNothing
<1>3. \A s : Conveys(abox, "Request", s) <=> s = <<>>
  BY BoxesFit, ConveysNothing
<1> QED BY <1>1, <1>2, <1>3 DEF Parts

(* Things move from one place of the row to the next.                      *)
LEMMA RowType ==
    ASSUME NEW S, NEW n \in Seq(S), NEW w \in Seq(S), NEW x \in Seq(S), NEW r \in Seq(S), NEW s \in Seq(S)
    PROVE  /\ Row(n, w, x, r, s) \in Seq(S)
           /\ Len(Row(n, w, x, r, s)) = Len(n) + (Len(w) + (Len(x) + (Len(r) + Len(s))))
<1> DEFINE c == r \o s
           d == x \o c
           e == w \o d
           f == n \o e
<1>1. c \in Seq(S) /\ Len(c) = Len(r) + Len(s)
  BY ConcatProperties
<1> HIDE DEF c
<1>2. d \in Seq(S) /\ Len(d) = Len(x) + Len(c)
  BY <1>1, ConcatProperties
<1> HIDE DEF d
<1>3. e \in Seq(S) /\ Len(e) = Len(w) + Len(d)
  BY <1>2, ConcatProperties
<1> HIDE DEF e
<1>4. f \in Seq(S) /\ Len(f) = Len(n) + Len(e)
  BY <1>3, ConcatProperties
<1> HIDE DEF f
<1>5. Row(n, w, x, r, s) = f
  BY DEF Row, f, e, d, c
<1> QED BY <1>1, <1>2, <1>3, <1>4, <1>5

LEMMA Assoc ==
    ASSUME NEW p \in IdSeqs, NEW q \in IdSeqs, NEW z \in IdSeqs
    PROVE  (p \o q) \o z = p \o (q \o z)
BY ConcatAssociative DEF IdSeqs

LEMMA Closed ==
    ASSUME NEW p \in IdSeqs, NEW q \in IdSeqs
    PROVE  p \o q \in IdSeqs
BY ConcatProperties DEF IdSeqs

LEMMA Neutral ==
    ASSUME NEW p \in IdSeqs
    PROVE  <<>> \o p = p /\ p \o <<>> = p
BY ConcatEmptySeq DEF IdSeqs

LEMMA RowMoves ==
    ASSUME NEW n, NEW w, NEW x, NEW r, NEW s, NEW y, n \in IdSeqs, w \in IdSeqs, x \in IdSeqs,
           r \in IdSeqs, s \in IdSeqs, y \in IdSeqs
    PROVE  /\ Row(n, w, x, r, s \o y) = Row(n, w, x, r, s) \o y
           /\ Row(n, w, x, r \o y, s) = Row(n, w, x, r, y \o s)
           /\ Row(n \o y, w, x, r, s) = Row(n, y \o w, x, r, s)
           /\ Row(y \o n, w, x, r, s) = y \o Row(n, w, x, r, s)
<1> DEFINE c == r \o s
           d == x \o c
           e == w \o d
<1> DEFINE Same(p, q, z) == (p \o q) \o z = p \o (q \o z)
<1>a. \A p, q, z \in IdSeqs : Same(p, q, z)
  BY Assoc
<1> HIDE DEF Same
<1>1. c = r \o s /\ d = x \o c /\ e = w \o d /\ Row(n, w, x, r, s) = n \o e
  BY DEF Row
<1>2. c \in IdSeqs
  BY Closed
<1> HIDE DEF c
<1>3. d \in IdSeqs
  BY <1>2, Closed
<1> HIDE DEF d
<1>e. e \in IdSeqs
  BY <1>3, Closed
<1> HIDE DEF e
<1>4. Row(n, w, x, r, s \o y) = Row(n, w, x, r, s) \o y
  <2>1. (r \o s) \o y = r \o (s \o y)
    BY Assoc, SMTT(30)
  <2>2. (x \o c) \o y = x \o (c \o y)
    <3>1. Same(x, c, y)
      BY <1>a, <1>2
    <3> QED BY <3>1 DEF Same
  <2>3. (w \o d) \o y = w \o (d \o y)
    <3>1. Same(w, d, y)
      BY <1>a, <1>3
    <3> QED BY <3>1 DEF Same
  <2>4. (n \o e) \o y = n \o (e \o y)
    <3>1. Same(n, e, y)
      BY <1>a, <1>e
    <3> QED BY <3>1 DEF Same
  <2>5. Row(n, w, x, r, s \o y) = n \o (w \o (x \o (c \o y)))
    BY <1>1, <2>1, Zenon DEF Row
  <2>6. n \o (w \o (x \o (c \o y))) = (n \o e) \o y
    BY <1>1, <2>2, <2>3, <2>4, Zenon
  <2> QED BY <1>1, <2>5, <2>6, Zenon
<1>5. Row(n, w, x, r \o y, s) = Row(n, w, x, r, y \o s)
  <2>1. (r \o y) \o s = r \o (y \o s)
    BY Assoc, SMTT(30)
  <2> QED BY <2>1, Zenon DEF Row
<1>8. Row(n \o y, w, x, r, s) = Row(n, y \o w, x, r, s)
  <2>1. (n \o y) \o e = n \o (y \o e)
    <3>1. Same(n, y, e)
      BY <1>a, <1>e
    <3> QED BY <3>1 DEF Same
  <2>2. (y \o w) \o d = y \o (w \o d)
    <3>1. Same(y, w, d)
      BY <1>a, <1>3
    <3> QED BY <3>1 DEF Same
  <2>3. Row(n \o y, w, x, r, s) = (n \o y) \o e /\ Row(n, y \o w, x, r, s) = n \o ((y \o w) \o d)
    BY <1>1, Zenon DEF Row
  <2> QED BY <1>1, <2>1, <2>2, <2>3, Zenon
<1>9. Row(y \o n, w, x, r, s) = y \o Row(n, w, x, r, s)
  <2>1. (y \o n) \o e = y \o (n \o e)
    <3>1. Same(y, n, e)
      BY <1>a, <1>e
    <3> QED BY <3>1 DEF Same
  <2>2. Row(y \o n, w, x, r, s) = (y \o n) \o e
    BY <1>1, Zenon DEF Row
  <2> QED BY <1>1, <2>1, <2>2, Zenon
<1> QED BY <1>4, <1>5, <1>8, <1>9

LEMMA RowShifts ==
    ASSUME NEW n, NEW w, NEW x, NEW r, NEW s, n \in IdSeqs, w \in IdSeqs, x \in IdSeqs,
           r \in IdSeqs, s \in IdSeqs
    PROVE  /\ Row(n, w, <<>>, x \o r, s) = Row(n, w, x, r, s)
           /\ Row(n, w \o x, <<>>, r, s) = Row(n, w, x, r, s)
<1> DEFINE c == r \o s
           d == x \o c
           e == w \o d
<1> DEFINE Same(p, q, z) == (p \o q) \o z = p \o (q \o z)
<1>a. \A p, q, z \in IdSeqs : Same(p, q, z)
  BY Assoc
<1> HIDE DEF Same
<1>1. c = r \o s /\ d = x \o c /\ e = w \o d /\ Row(n, w, x, r, s) = n \o e
  BY DEF Row
<1>2. c \in IdSeqs
  BY Closed
<1> HIDE DEF c
<1>3. d \in IdSeqs
  BY <1>2, Closed
<1> HIDE DEF d
<1>e. e \in IdSeqs
  BY <1>3, Closed
<1> HIDE DEF e
<1>6. Row(n, w, <<>>, x \o r, s) = Row(n, w, x, r, s)
  <2>1. (x \o r) \o s = x \o (r \o s)
    BY Assoc
  <2>2. <<>> \o d = d
    BY <1>3, Neutral
  <2>3. Row(n, w, <<>>, x \o r, s) = n \o (w \o (<<>> \o d))
    BY <1>1, <2>1, Zenon DEF Row
  <2> QED BY <1>1, <2>2, <2>3, Zenon
<1>7. Row(n, w \o x, <<>>, r, s) = Row(n, w, x, r, s)
  <2>1. (w \o x) \o c = w \o (x \o c)
    <3>1. Same(w, x, c)
      BY <1>a, <1>2
    <3> QED BY <3>1 DEF Same
  <2>2. <<>> \o c = c
    BY <1>2, Neutral
  <2>3. Row(n, w \o x, <<>>, r, s) = n \o ((w \o x) \o (<<>> \o c))
    BY <1>1, Zenon DEF Row
  <2> QED BY <1>1, <2>1, <2>2, <2>3, Zenon
<1> QED BY <1>6, <1>7

LEMMA NamesConcat ==
    ASSUME NEW rs \in Seq(Reply), NEW qs \in Seq(Reply)
    PROVE  Names(rs \o qs) = Names(rs) \o Names(qs)
<1> DEFINE u == rs \o qs
           x == Names(rs)
           y == Names(qs)
           z == Names(u)
           v == x \o y
<1>1. /\ u \in Seq(Reply) /\ Len(u) = Len(rs) + Len(qs)
      /\ \A k \in 1..Len(rs) + Len(qs) : u[k] = IF k <= Len(rs) THEN rs[k] ELSE qs[k - Len(rs)]
  BY ConcatProperties
<1>2. /\ x \in Seq(Idents) /\ Len(x) = Len(rs) /\ \A k \in 1..Len(rs) : x[k] = rs[k].to
      /\ y \in Seq(Idents) /\ Len(y) = Len(qs) /\ \A k \in 1..Len(qs) : y[k] = qs[k].to
  BY NamesType
<1> HIDE DEF u
<1>3. z \in Seq(Idents) /\ Len(z) = Len(u) /\ \A k \in 1..Len(u) : z[k] = u[k].to
  BY <1>1, NamesType
<1> HIDE DEF x, y, z
<1>t. x \in Seq(Idents) /\ y \in Seq(Idents)
  BY <1>2
<1>4. /\ v \in Seq(Idents) /\ Len(v) = Len(x) + Len(y)
      /\ \A k \in 1..Len(x) + Len(y) : v[k] = IF k <= Len(x) THEN x[k] ELSE y[k - Len(x)]
  BY <1>t, ConcatProperties
<1> HIDE DEF v
<1>5. \A k \in 1..Len(z) : z[k] = v[k]
  <2> TAKE k \in 1..Len(z)
  <2>1. k \in 1..Len(rs) + Len(qs) /\ k \in 1..Len(u) /\ Len(rs) \in Nat /\ Len(qs) \in Nat
    BY <1>1, <1>3
  <2>2. CASE k <= Len(rs)
    <3>1. k \in 1..Len(rs)
      BY <2>1, <2>2
    <3> QED BY <1>1, <1>2, <1>3, <1>4, <2>1, <2>2, <3>1
  <2>3. CASE ~(k <= Len(rs))
    <3>1. k - Len(rs) \in 1..Len(qs)
      BY <2>1, <2>3
    <3> QED BY <1>1, <1>2, <1>3, <1>4, <2>1, <2>3, <3>1
  <2> QED BY <2>2, <2>3
<1>6. z = v
  BY <1>1, <1>2, <1>3, <1>4, <1>5, SeqEqual
<1> QED BY <1>6 DEF u, v, x, y, z

LEMMA NamesSingle ==
    ASSUME NEW p \in Reply
    PROVE  <<p>> \in Seq(Reply) /\ Names(<<p>>) = <<p.to>>
BY DEF Names

LEMMA AskedSingle ==
    ASSUME NEW r \in Request
    PROVE  <<r>> \in Seq(Request) /\ Asked(<<r>>) = <<r.id>> /\ r.id \in Idents
BY DEF Asked, Request, Idents

LEMMA HeadAndTail ==
    ASSUME NEW S, NEW s \in Seq(S), s # <<>>
    PROVE  /\ Head(s) \in S /\ Tail(s) \in Seq(S) /\ <<Head(s)>> \in Seq(S)
           /\ s = <<Head(s)>> \o Tail(s) /\ Len(s) = Len(Tail(s)) + 1 /\ Len(Tail(s)) \in Nat
<1>1. Head(s) \in S /\ Tail(s) \in Seq(S) /\ <<Head(s)>> \in Seq(S)
      /\ Len(s) = Len(Tail(s)) + 1 /\ Len(Tail(s)) \in Nat
  OBVIOUS
<1>2. s = <<Head(s)>> \o Tail(s)
  OBVIOUS
<1> QED BY <1>1, <1>2

LEMMA CutInTwo ==
    ASSUME NEW S, NEW s \in Seq(S), NEW n \in Nat, n <= Len(s)
    PROVE  /\ SubSeq(s, 1, n) \in Seq(S) /\ SubSeq(s, n + 1, Len(s)) \in Seq(S)
           /\ Len(SubSeq(s, 1, n)) = n /\ Len(SubSeq(s, n + 1, Len(s))) = Len(s) - n
           /\ s = SubSeq(s, 1, n) \o SubSeq(s, n + 1, Len(s))
<1>1. Len(s) \in Nat /\ \A i \in 1..n : s[i] \in S /\ \A j \in n + 1..Len(s) : s[j] \in S
  OBVIOUS
<1>2. 1 \in Int /\ n \in Int /\ n + 1 \in Int /\ Len(s) \in Int /\ (n >= 1 <=> 1 <= n)
  BY <1>1
<1>3. SubSeq(s, 1, n) \in Seq(S) /\ Len(SubSeq(s, 1, n)) = n
  <2>1. \A i \in 1..n : s[i] \in S
    OBVIOUS
  <2>2. SubSeq(s, 1, n) \in Seq(S) /\ Len(SubSeq(s, 1, n)) = IF 1 <= n THEN n - 1 + 1 ELSE 0
    BY <1>2, <2>1, SubSeqProperties
  <2> QED BY <2>2
<1>4. SubSeq(s, n + 1, Len(s)) \in Seq(S) /\ Len(SubSeq(s, n + 1, Len(s))) = Len(s) - n
  <2>1. \A i \in n + 1..Len(s) : s[i] \in S
    OBVIOUS
  <2>2. SubSeq(s, n + 1, Len(s)) \in Seq(S)
        /\ Len(SubSeq(s, n + 1, Len(s))) = IF n + 1 <= Len(s) THEN Len(s) - (n + 1) + 1 ELSE 0
    BY <1>2, <2>1, SubSeqProperties
  <2> QED BY <1>1, <2>2
<1>5. 1 \in 1..Len(s) + 1 /\ n \in 1 - 1..Len(s) /\ Len(s) \in n..Len(s)
  BY <1>1
<1>6. SubSeq(s, 1, n) \o SubSeq(s, n + 1, Len(s)) = SubSeq(s, 1, Len(s))
  BY <1>5, ConcatAdjacentSubSeq
<1>7. SubSeq(s, 1, Len(s)) = s
  BY SubSeqFull
<1> QED BY <1>3, <1>4, <1>6, <1>7

-----------------------------------------------------------------------------
(* The row while the parts move.                                           *)
LEMMA RestTypes ==
    ASSUME NEW a \in IOType, NEW t \in TcpType
    PROVE  /\ Names(t.net) \in IdSeqs /\ Asked(t.wire) \in IdSeqs /\ Asked(t.writing) \in IdSeqs
           /\ Asked(a.requests) \in IdSeqs /\ t.net \in Seq(Reply)
<1>1. t.net \in Seq(Reply)
  BY DEF TcpType
<1>2. Names(t.net) \in IdSeqs
  BY <1>1, NamesType DEF IdSeqs
<1> QED BY <1>1, <1>2, PlacesType

LEMMA RestLength ==
    ASSUME NEW a \in IOType, NEW t \in TcpType, NEW s \in Seq(Idents)
    PROVE  Rest(a, t, s) \in Seq(Idents) /\ Len(Rest(a, t, s)) >= Len(s)
<1> DEFINE n == Names(t.net)
           w == Asked(t.wire)
           x == Asked(t.writing)
           r == Asked(a.requests)
<1>1. n \in Seq(Idents) /\ w \in Seq(Idents) /\ x \in Seq(Idents) /\ r \in Seq(Idents)
  BY RestTypes DEF IdSeqs
<1> HIDE DEF n, w, x, r
<1>2. /\ Row(n, w, x, r, s) \in Seq(Idents)
      /\ Len(Row(n, w, x, r, s)) = Len(n) + (Len(w) + (Len(x) + (Len(r) + Len(s))))
  BY <1>1, RowType
<1>3. Len(n) \in Nat /\ Len(w) \in Nat /\ Len(x) \in Nat /\ Len(r) \in Nat /\ Len(s) \in Nat
  BY <1>1
<1>4. Len(Row(n, w, x, r, s)) >= Len(s)
  BY <1>2, <1>3
<1> QED BY <1>2, <1>4 DEF Rest, n, w, x, r

(* More is handed over.                                                    *)
LEMMA RestMore ==
    ASSUME NEW a \in IOType, NEW t \in TcpType, NEW s \in Seq(Idents), NEW y \in Seq(Idents)
    PROVE  Rest(a, t, s \o y) = Rest(a, t, s) \o y
<1> DEFINE n == Names(t.net)
           w == Asked(t.wire)
           x == Asked(t.writing)
           r == Asked(a.requests)
<1>1. n \in IdSeqs /\ w \in IdSeqs /\ x \in IdSeqs /\ r \in IdSeqs /\ s \in IdSeqs /\ y \in IdSeqs
  BY RestTypes DEF IdSeqs
<1> HIDE DEF n, w, x, r
<1>2. Row(n, w, x, r, s \o y) = Row(n, w, x, r, s) \o y
  BY <1>1, RowMoves
<1> QED BY <1>2 DEF Rest, n, w, x, r

(* A request waits.                                                        *)
LEMMA RestQueues ==
    ASSUME NEW a \in IOType, NEW t \in TcpType, NEW b \in IOType, NEW s \in Seq(Idents),
           NEW q \in Request, b.requests = Append(a.requests, q)
    PROVE  Rest(b, t, s) = Rest(a, t, <<q.id>> \o s)
<1> DEFINE y == <<q.id>>
<1>1. y \in IdSeqs /\ Asked(<<q>>) = y /\ <<q>> \in Seq(Request)
  BY AskedSingle DEF IdSeqs
<1>2. b.requests = a.requests \o <<q>> /\ a.requests \in Seq(Request)
  BY AppendConcat, ActorFields
<1> HIDE DEF y
<1>3. Asked(b.requests) = Asked(a.requests) \o y
  BY <1>1, <1>2, AskedConcat
<1>4. s \in IdSeqs
  BY DEF IdSeqs
<1> DEFINE n == Names(t.net)
           w == Asked(t.wire)
           x == Asked(t.writing)
           r == Asked(a.requests)
<1>t. n \in IdSeqs /\ w \in IdSeqs /\ x \in IdSeqs /\ r \in IdSeqs /\ s \in IdSeqs /\ y \in IdSeqs
  BY <1>1, <1>4, RestTypes
<1> HIDE DEF n, w, x, r
<1>o. Row(n, w, x, r \o y, s) = Row(n, w, x, r, y \o s)
  BY <1>t, RowMoves
<1>5. Rest(b, t, s) = Rest(a, t, y \o s)
  BY <1>3, <1>o DEF Rest, n, w, x, r
<1> QED BY <1>5 DEF y

(* A batch is written.                                                     *)
LEMMA RestWrites ==
    ASSUME NEW b \in IOType, NEW u \in TcpType, NEW s \in Seq(Idents)
    PROVE  Rest(b, u, s)
             = Row(Names(u.net), Asked(u.wire), <<>>, Asked(u.writing \o b.requests), s)
<1>1. u.writing \in Seq(Request) /\ b.requests \in Seq(Request)
  BY DEF IOType, TcpType
<1>2. Asked(u.writing \o b.requests) = Asked(u.writing) \o Asked(b.requests)
  BY <1>1, AskedConcat
<1>3. s \in IdSeqs
  BY DEF IdSeqs
<1> DEFINE n1 == Names(u.net)
           w == Asked(u.wire)
           x == Asked(u.writing)
           r == Asked(b.requests)
<1>t. n1 \in IdSeqs /\ w \in IdSeqs /\ x \in IdSeqs /\ r \in IdSeqs
  BY RestTypes
<1> HIDE DEF n1, w, x, r
<1>o. Row(n1, w, <<>>, x \o r, s) = Row(n1, w, x, r, s)
  BY <1>3, <1>t, RowShifts
<1>4. Row(Names(u.net), Asked(u.wire), <<>>, Asked(u.writing) \o Asked(b.requests), s) = Rest(b, u, s)
  BY <1>o DEF Rest, n1, w, x, r
<1> QED BY <1>2, <1>4

(* What was written has been received.                                     *)
LEMMA RestSent ==
    ASSUME NEW a \in IOType, NEW t \in TcpType, NEW u \in TcpType, NEW s \in Seq(Idents),
           u.net = t.net, u.wire = t.wire \o t.writing, u.writing = <<>>
    PROVE  Rest(a, u, s) = Rest(a, t, s)
<1>1. Asked(u.wire) = Asked(t.wire) \o Asked(t.writing) /\ Asked(u.writing) = <<>>
  BY AskedConcat, AskedEmpty, ConnectionFields
<1>2. s \in IdSeqs
  BY DEF IdSeqs
<1> DEFINE n == Names(t.net)
           w == Asked(t.wire)
           x == Asked(t.writing)
           r == Asked(a.requests)
<1>t. n \in IdSeqs /\ w \in IdSeqs /\ x \in IdSeqs /\ r \in IdSeqs
  BY RestTypes
<1> HIDE DEF n, w, x, r
<1>o. Row(n, w \o x, <<>>, r, s) = Row(n, w, x, r, s)
  BY <1>2, <1>t, RowShifts
<1>3. Row(Names(t.net), Asked(t.wire) \o Asked(t.writing), <<>>, Asked(a.requests), s) = Rest(a, t, s)
  BY <1>o DEF Rest, n, w, x, r
<1> QED BY <1>1, <1>3 DEF Rest

(* A command is answered.                                                  *)
LEMMA RestRuns ==
    ASSUME NEW a \in IOType, NEW t \in TcpType, NEW u \in TcpType, NEW s \in Seq(Idents),
           t.wire # <<>>, NEW p \in Reply, p.to = Head(t.wire).id,
           u.net = Append(t.net, p), u.wire = Tail(t.wire), u.writing = t.writing
    PROVE  Rest(a, u, s) = Rest(a, t, s)
<1> DEFINE y == <<p.to>>
           r == Head(t.wire)
<1>1. Names(<<p>>) = y /\ <<p>> \in Seq(Reply)
  BY NamesSingle
<1>2. /\ r \in Request /\ <<r>> \in Seq(Request) /\ Tail(t.wire) \in Seq(Request)
      /\ t.wire = <<r>> \o Tail(t.wire)
  BY HeadAndTail, ConnectionFields
<1>3. Asked(<<r>>) = y /\ y \in IdSeqs
  BY <1>2, AskedSingle DEF IdSeqs
<1>4. u.net = t.net \o <<p>> /\ t.net \in Seq(Reply)
  BY AppendConcat, RestTypes
<1> HIDE DEF y, r
<1>5. Names(u.net) = Names(t.net) \o y
  BY <1>1, <1>4, NamesConcat
<1>6. Asked(t.wire) = y \o Asked(u.wire)
  BY <1>2, <1>3, AskedConcat
<1>7. s \in IdSeqs
  BY DEF IdSeqs
<1> DEFINE n == Names(t.net)
           w == Asked(u.wire)
           x == Asked(t.writing)
           q == Asked(a.requests)
<1>t. n \in IdSeqs /\ w \in IdSeqs /\ x \in IdSeqs /\ q \in IdSeqs
  BY RestTypes
<1> HIDE DEF n, w, x, q
<1>8. Row(n \o y, w, x, q, s) = Row(n, y \o w, x, q, s)
  BY <1>3, <1>7, <1>t, RowMoves
<1> QED BY <1>5, <1>6, <1>8 DEF Rest, n, w, x, q

(* Replies are read.                                                       *)
LEMMA RestRead ==
    ASSUME NEW a \in IOType, NEW t \in TcpType, NEW u \in TcpType, NEW s \in Seq(Idents),
           NEW n \in Nat, n <= Len(t.net), u.wire = t.wire, u.writing = t.writing,
           u.net = SubSeq(t.net, n + 1, Len(t.net))
    PROVE  /\ SubSeq(t.net, 1, n) \in Seq(Reply)
           /\ Rest(a, t, s) = Names(SubSeq(t.net, 1, n)) \o Rest(a, u, s)
<1> DEFINE p == SubSeq(t.net, 1, n)
<1>0. t.net \in Seq(Reply)
  BY RestTypes
<1>1. p \in Seq(Reply) /\ u.net \in Seq(Reply) /\ t.net = p \o u.net
  BY <1>0, CutInTwo, ZenonT(30)
<1> HIDE DEF p
<1>2. Names(t.net) = Names(p) \o Names(u.net)
  BY <1>1, NamesConcat
<1>3. Names(p) \in IdSeqs /\ s \in IdSeqs
  BY <1>1, NamesType DEF IdSeqs
<1> DEFINE y == Names(p)
           n1 == Names(u.net)
           w == Asked(u.wire)
           x == Asked(u.writing)
           r == Asked(a.requests)
<1>t. n1 \in IdSeqs /\ w \in IdSeqs /\ x \in IdSeqs /\ r \in IdSeqs /\ y \in IdSeqs /\ s \in IdSeqs
  BY <1>3, RestTypes
<1> HIDE DEF y, n1, w, x, r
<1>o. Row(y \o n1, w, x, r, s) = y \o Row(n1, w, x, r, s)
  BY <1>t, RowMoves
<1>4. Row(Names(p) \o Names(u.net), Asked(u.wire), Asked(u.writing), Asked(a.requests), s)
        = Names(p) \o Rest(a, u, s)
  BY <1>o DEF Rest, y, n1, w, x, r
<1> QED BY <1>1, <1>2, <1>4 DEF Rest, p

-----------------------------------------------------------------------------
(* The mailbox of the listener and the rest of the connection.             *)

LEMMA FlowGoes ==
    ASSUME NEW box, NEW rs, NEW a, NEW t, NEW b, NEW u, Flow(box, rs, a, t), Goes(a, t, b, u)
    PROVE  Flow(box, rs, b, u)
<1>1. PICK d, s, q, r :
         /\ Parts(box, a.box, d, s, q) /\ r \in Seq(Idents)
         /\ Asked(rs) = d \o r /\ Len(r) >= Len(s) + Len(q)
         /\ t.state = "open" => q = <<>> /\ r = Rest(a, t, s)
  BY DEF Flow
<1>2. PICK z : /\ Conveys(b.box, "Request", z) /\ Len(z) <= Len(s)
               /\ u.state = "open" => t.state = "open" /\ Rest(b, u, z) = Rest(a, t, s)
  BY <1>1 DEF Goes, Parts
<1>3. Parts(box, b.box, d, z, q)
  BY <1>1, <1>2 DEF Parts
<1>4. Len(r) \in Nat /\ Len(s) \in Nat /\ Len(q) \in Nat /\ Len(z) \in Nat
  BY <1>1, <1>3, PartsTypes
<1>5. Len(r) >= Len(z) + Len(q)
  BY <1>1, <1>2, <1>4
<1> QED BY <1>1, <1>2, <1>3, <1>5 DEF Flow

LEMMA CountedShrinks ==
    ASSUME NEW box, NEW rs \in Seq(Request), NEW a, NEW b, Counted(box, rs, a), Shrinks(a, b)
    PROVE  Counted(box, rs, b)
<1>1. PICK d, s, q : Parts(box, a.box, d, s, q) /\ Len(rs) >= Len(s) + Len(q)
  BY DEF Counted
<1>2. PICK z : Conveys(b.box, "Request", z) /\ Len(z) <= Len(s)
  BY <1>1 DEF Shrinks, Parts
<1>3. Parts(box, b.box, d, z, q)
  BY <1>1, <1>2 DEF Parts
<1>4. Len(rs) \in Nat /\ Len(s) \in Nat /\ Len(q) \in Nat /\ Len(z) \in Nat
  BY <1>1, <1>3, PartsTypes
<1>5. Len(rs) >= Len(z) + Len(q)
  BY <1>1, <1>2, <1>4
<1> QED BY <1>3, <1>5 DEF Counted

LEMMA PairedMoves ==
    ASSUME NEW st, NEW box, NEW rs \in Seq(Request), NEW rem, NEW a, NEW t, NEW b, NEW u,
           Paired(st, box, rs, rem, a, t), Steady(a, t, b, u)
    PROVE  Paired(st, box, rs, rem, b, u)
<1>1. Attached(b, u) /\ (Gone(a, t) => Gone(b, u)) /\ Shrinks(a, b)
  BY DEF Steady
<1>2. Late(box, {"Terminated", "Shutdown"}, b, u)
  BY <1>1, LateMoves DEF Paired
<1>3. st = "connecting" => Starting(box, rs, rem, b, u)
  BY DEF Paired, Steady, Starting
<1>4. st = "reconnecting" => rem = <<>> /\ Counted(box, rs, b)
  BY <1>1, CountedShrinks DEF Paired
<1>5. ASSUME st \in Receiving PROVE Flowing(st, box, rs, rem, b, u)
  <2>1. Flowing(st, box, rs, rem, a, t)
    BY <1>5 DEF Paired
  <2>2. Ready(st, b) /\ Goes(a, t, b, u) /\ Half(u) = Half(t)
    BY <1>5, <2>1 DEF Flowing, Steady
  <2>3. Flow(box, rs, b, u)
    BY <2>1, <2>2, FlowGoes DEF Flowing
  <2>4. Late(box, {"Remove"}, b, u)
    BY <1>1, <2>1, LateMoves DEF Flowing
  <2> QED BY <2>1, <2>2, <2>3, <2>4 DEF Flowing
<1> QED BY <1>1, <1>2, <1>3, <1>4, <1>5 DEF Paired

(* The listener is told something that is neither read nor rejected.       *)
LEMMA PairedTold ==
    ASSUME NEW st, NEW box \in Seq(ListenerMessage), NEW rs, NEW rem, NEW a, NEW t,
           Paired(st, box, rs, rem, a, t), NEW m \in ListenerMessage,
           m.type \notin {"Received", "Remove"},
           m.type \in {"Terminated", "Shutdown"} => Gone(a, t),
           m.type = "Abort" => st \notin {"connecting"} \cup Receiving,
           m.type = "Connected" /\ st = "connecting" => HasConnected(a)
    PROVE  Paired(st, box \o <<m>>, rs, rem, a, t)
<1> DEFINE more == box \o <<m>>
<1>1. /\ \A types : NoneOf(box, types) /\ m.type \notin types => NoneOf(more, types)
      /\ \A types : NoneOf(more, types) => NoneOf(box, types) /\ m.type \notin types
      /\ \A d, s, q : Parts(box, a.box, d, s, q) => Parts(more, a.box, d, s, q)
  BY NoneOfTold, PartsHears
<1>2. Late(more, {"Terminated", "Shutdown"}, a, t)
  BY LateTold DEF Paired
<1>3. ASSUME st = "connecting" PROVE Starting(more, rs, rem, a, t)
  <2>1. Starting(box, rs, rem, a, t)
    BY <1>3 DEF Paired
  <2>2. NoneOf(more, {"Received", "Remove", "Abort"})
    BY <1>1, <1>3, <2>1 DEF Starting
  <2>3. ~NoneOf(more, {"Connected"}) => ~NoneOf(box, {"Connected"}) \/ m.type = "Connected"
    BY <1>1
  <2> HIDE DEF more
  <2> QED BY <1>3, <2>1, <2>2, <2>3 DEF Starting
<1>4. ASSUME st = "reconnecting" PROVE rem = <<>> /\ Counted(more, rs, a)
  BY <1>1, <1>4 DEF Paired, Counted
<1>5. ASSUME st \in Receiving PROVE Flowing(st, more, rs, rem, a, t)
  <2>1. Flowing(st, box, rs, rem, a, t)
    BY <1>5 DEF Paired
  <2>2. NoneOf(more, {"Abort"})
    BY <1>1, <1>5, <2>1 DEF Flowing
  <2>3. Late(more, {"Remove"}, a, t)
    BY <2>1, LateTold DEF Flowing
  <2>4. Chained(more, rem, Half(t))
    BY <2>1, ChainedTold, ChainedTypes DEF Flowing
  <2>5. Flow(more, rs, a, t)
    BY <1>1, <2>1 DEF Flowing, Flow
  <2> HIDE DEF more
  <2> QED BY <2>1, <2>2, <2>3, <2>4, <2>5 DEF Flowing
<1> HIDE DEF more
<1>6. Paired(st, more, rs, rem, a, t)
  BY <1>2, <1>3, <1>4, <1>5 DEF Paired
<1> QED BY <1>6 DEF more

LEMMA PartsLeaves ==
    ASSUME NEW box \in Seq(ListenerMessage), NEW abox, NEW d, NEW s, NEW q, Parts(box, abox, d, s, q),
           box # <<>>, Head(box).type # "Remove"
    PROVE  \E z : Parts(Tail(box), abox, z, s, q)
<1>1. PICK z : Conveys(Tail(box), "Received", z)
  BY BoxesFit, ConveysTail DEF Parts
<1>2. Load(Head(box), "Remove") = <<>>
  BY LoadKinds
<1>3. PICK y \in Seq(Idents) : q = Load(Head(box), "Remove") \o y /\ Conveys(Tail(box), "Remove", y)
  BY BoxesFit, ConveysTail DEF Parts
<1>4. q = y
  BY <1>2, <1>3, ConcatEmptySeq
<1> QED BY <1>1, <1>3, <1>4 DEF Parts

(* It takes something that changes nothing of what it expects.             *)
LEMMA PairedTail ==
    ASSUME NEW st, NEW box \in Seq(ListenerMessage), box # <<>>, NEW rs, NEW rem, NEW a, NEW t,
           Paired(st, box, rs, rem, a, t),
           Head(box).type # "Remove", Head(box).type = "Received" => st \notin Receiving
    PROVE  Paired(st, Tail(box), rs, rem, a, t)
<1>1. \A types : NoneOf(box, types) => NoneOf(Tail(box), types)
  BY NoneOfTail
<1>2. Late(Tail(box), {"Terminated", "Shutdown"}, a, t)
  BY LateTail DEF Paired
<1>3. ASSUME st = "connecting" PROVE Starting(Tail(box), rs, rem, a, t)
  BY <1>1, <1>3 DEF Paired, Starting
<1>4. ASSUME st = "reconnecting" PROVE rem = <<>> /\ Counted(Tail(box), rs, a)
  BY <1>4, PartsLeaves DEF Paired, Counted
<1>5. ASSUME st \in Receiving PROVE Flowing(st, Tail(box), rs, rem, a, t)
  <2>1. Flowing(st, box, rs, rem, a, t) /\ Head(box).type \notin {"Received", "Remove"}
    BY <1>5 DEF Paired
  <2>2. NoneOf(Tail(box), {"Abort"})
    BY <1>1, <2>1 DEF Flowing
  <2>3. Late(Tail(box), {"Remove"}, a, t)
    BY <2>1, LateTail DEF Flowing
  <2>4. Chained(Tail(box), rem, Half(t))
    <3>1. Chained(box, rem, Half(t))
      BY <2>1 DEF Flowing
    <3> QED BY <2>1, <3>1, ChainedTail
  <2>5. \A d, s, q : Parts(box, a.box, d, s, q) => Parts(Tail(box), a.box, d, s, q)
    BY <2>1, PartsListens
  <2>6. Flow(Tail(box), rs, a, t)
    BY <2>1, <2>5 DEF Flowing, Flow
  <2> QED BY <2>1, <2>2, <2>3, <2>4, <2>6 DEF Flowing
<1> QED BY <1>2, <1>3, <1>4, <1>5 DEF Paired

-----------------------------------------------------------------------------
(* Steps of an IOActor and of its connection that are steady.              *)

(* The same requests wait in the mailbox.                                  *)
SameWait(abox, bbox) == \A s : Conveys(abox, "Request", s) => Conveys(bbox, "Request", s)
KeepsRest(a, t, b, u) ==
    u.state = "open" => t.state = "open" /\ \A z \in Seq(Idents) : Rest(b, u, z) = Rest(a, t, z)

LEMMA SameTail ==
    ASSUME NEW box \in Seq(IOMessage), box # <<>>, Head(box).type # "Request"
    PROVE  SameWait(box, Tail(box))
<1> SUFFICES ASSUME NEW s, Conveys(box, "Request", s) PROVE Conveys(Tail(box), "Request", s)
  BY DEF SameWait
<1>1. Load(Head(box), "Request") = <<>>
  BY LoadKinds
<1>2. PICK z \in Seq(Idents) : s = Load(Head(box), "Request") \o z /\ Conveys(Tail(box), "Request", z)
  BY BoxesFit, ConveysTail
<1>3. s = z
  BY <1>1, <1>2, ConcatEmptySeq
<1> QED BY <1>2, <1>3

LEMMA SameTold ==
    ASSUME NEW box \in Seq(IOMessage), NEW m \in IOMessage, m.type # "Request"
    PROVE  SameWait(box, box \o <<m>>)
<1> SUFFICES ASSUME NEW s, Conveys(box, "Request", s) PROVE Conveys(box \o <<m>>, "Request", s)
  BY DEF SameWait
<1>1. Load(m, "Request") = <<>>
  BY LoadKinds
<1>2. Conveys(box \o <<m>>, "Request", s \o Load(m, "Request"))
  BY BoxesFit, ConveysTold
<1>3. s \o Load(m, "Request") = s
  BY <1>1, ConcatEmptySeq DEF Conveys
<1> QED BY <1>2, <1>3

LEMMA SameShrinks ==
    ASSUME NEW a, NEW b, SameWait(a.box, b.box)
    PROVE  Shrinks(a, b)
<1> SUFFICES ASSUME NEW s, Conveys(a.box, "Request", s)
             PROVE  \E z : Conveys(b.box, "Request", z) /\ Len(z) <= Len(s)
  BY DEF Shrinks
<1>1. Conveys(b.box, "Request", s)
  BY DEF SameWait
<1>2. Len(s) \in Nat
  BY DEF Conveys
<1>3. Len(s) <= Len(s)
  BY <1>2
<1> QED BY <1>1, <1>3

LEMMA SameGoes ==
    ASSUME NEW a, NEW b, NEW t, NEW u, SameWait(a.box, b.box), KeepsRest(a, t, b, u)
    PROVE  Goes(a, t, b, u)
<1> SUFFICES ASSUME NEW s, Conveys(a.box, "Request", s)
             PROVE  \E z : /\ Conveys(b.box, "Request", z) /\ Len(z) <= Len(s)
                           /\ u.state = "open" => t.state = "open" /\ Rest(b, u, z) = Rest(a, t, s)
  BY DEF Goes
<1>1. Conveys(b.box, "Request", s)
  BY DEF SameWait
<1>2. s \in Seq(Idents) /\ Len(s) \in Nat
  BY DEF Conveys
<1>3. Len(s) <= Len(s)
  BY <1>2
<1>4. u.state = "open" => t.state = "open" /\ Rest(b, u, s) = Rest(a, t, s)
  BY <1>2 DEF KeepsRest
<1> QED BY <1>1, <1>3, <1>4

LEMMA TailShrinks ==
    ASSUME NEW a, NEW b, a.box \in Seq(IOMessage), a.box # <<>>, b.box = Tail(a.box)
    PROVE  Shrinks(a, b)
<1> SUFFICES ASSUME NEW s, Conveys(a.box, "Request", s)
             PROVE  \E z : Conveys(b.box, "Request", z) /\ Len(z) <= Len(s)
  BY DEF Shrinks
<1> DEFINE y == Load(Head(a.box), "Request")
           box == a.box
<1>1. box \in Seq(IOMessage) /\ box # <<>> /\ Conveys(box, "Request", s)
  OBVIOUS
<1> HIDE DEF box
<1>2. PICK z \in Seq(Idents) : s = Load(Head(box), "Request") \o z /\ Conveys(Tail(box), "Request", z)
  BY <1>1, BoxesFit, ConveysTail
<1>3. Load(Head(box), "Request") \in Seq(Idents)
  BY <1>1, BoxesFit DEF Fits
<1>4. s = y \o z /\ y \in Seq(Idents)
  BY <1>2, <1>3 DEF box
<1> HIDE DEF y
<1>5. Len(s) = Len(y) + Len(z) /\ Len(y) \in Nat /\ Len(z) \in Nat
  BY <1>4
<1>6. Len(z) <= Len(s)
  BY <1>5
<1> QED BY <1>2, <1>6 DEF box

LEMMA StopShrinks ==
    ASSUME NEW a, NEW b, b.box = <<>>
    PROVE  Shrinks(a, b)
<1> SUFFICES ASSUME NEW s, Conveys(a.box, "Request", s)
             PROVE  \E z : Conveys(b.box, "Request", z) /\ Len(z) <= Len(s)
  BY DEF Shrinks
<1> DEFINE none == <<>>
<1>1. none \in Seq(IOMessage) /\ NoneOf(none, {"Request"})
  BY NoneOfNothing
<1> HIDE DEF none
<1>2. Conveys(none, "Request", <<>>)
  BY <1>1, BoxesFit, ConveysNothing
<1>3. Len(s) \in Nat
  BY DEF Conveys
<1>4. Len(<<>>) <= Len(s)
  BY <1>3
<1> QED BY <1>2, <1>4 DEF none

(* A message is taken, nothing is written.                                 *)
LEMMA SteadyTakes ==
    ASSUME NEW a \in IOType, a.box # <<>>, NEW b, b.box = Tail(a.box), b.requests = a.requests,
           NEW t, NEW u, Attached(b, u), Gone(a, t) => b.state # "connecting",
           u.net = t.net, u.wire = t.wire, u.writing = t.writing, u.half = t.half,
           u.state = t.state \/ a.state = "connecting",
           Head(a.box).type = "Request" => a.state \in {"connecting", "awaitingAbort", "aborting"},
           \/ b.state = a.state
           \/ b.state \in {"connected", "awaitingShutdown"}
           \/ Head(a.box).type = "Shutdown"
           \/ a.state \in {"awaitingAbort", "aborting"}
    PROVE  Steady(a, t, b, u)
<1>1. a.box \in Seq(IOMessage)
  BY ActorFields
<1>2. Gone(a, t) => Gone(b, u)
  BY DEF Gone
<1>3. Shrinks(a, b)
  BY <1>1, TailShrinks
<1>4. \A types : NoneOf(a.box, types) => NoneOf(b.box, types) /\ Head(a.box).type \notin types
  BY <1>1, NoneOfHead
<1>5. ASSUME Idle(a, t) PROVE Idle(b, u) /\ (HasConnected(a) => HasConnected(b))
  BY <1>4, <1>5 DEF Idle, HasConnected
<1>6. ASSUME NEW st \in Receiving, Ready(st, a)
      PROVE  Ready(st, b) /\ Goes(a, t, b, u) /\ Half(u) = Half(t)
  <2>1. a.state \in {"connected", "awaitingShutdown", "stopped"} /\ Head(a.box).type \notin {"Request", "Shutdown"}
    BY <1>4, <1>6 DEF Ready
  <2>2. Ready(st, b)
    BY <1>4, <1>6, <2>1 DEF Ready
  <2>3. KeepsRest(a, t, b, u)
    BY <2>1 DEF KeepsRest, Rest
  <2>4. SameWait(a.box, b.box)
    BY <1>1, <2>1, SameTail
  <2>5. Goes(a, t, b, u)
    BY <2>3, <2>4, SameGoes
  <2> QED BY <2>1, <2>2, <2>5 DEF Half
<1> QED BY <1>2, <1>3, <1>5, <1>6 DEF Steady

(* Nothing is taken; the IOActor may be told something.                    *)
LEMMA SteadyHears ==
    ASSUME NEW a \in IOType, NEW b, b.requests = a.requests, b.state = a.state,
           b.box = a.box \/ \E m \in IOMessage : /\ b.box = a.box \o <<m>>
                                                 /\ m.type \notin {"Request", "Shutdown", "ShutdownAck"},
           NEW t, NEW u, Attached(b, u), Gone(a, t) => u.state # "open",
           Idle(a, t) => u.net = <<>> /\ u.wire = <<>> /\ u.writing = <<>> /\ ~u.half,
           KeepsRest(a, t, b, u),
           a.state \in {"connected", "awaitingShutdown", "stopped"} => Half(u) = Half(t)
    PROVE  Steady(a, t, b, u)
<1>1. a.box \in Seq(IOMessage)
  BY ActorFields
<1>2. Gone(a, t) => Gone(b, u)
  BY DEF Gone
<1>3. SameWait(a.box, b.box)
  <2>1. CASE b.box = a.box
    BY <2>1 DEF SameWait
  <2>2. CASE b.box # a.box
    BY <1>1, <2>2, SameTold
  <2> QED BY <2>1, <2>2
<1>4. Shrinks(a, b)
  BY <1>3, SameShrinks
<1>5. \A types : types \subseteq {"Request", "Shutdown", "ShutdownAck"} /\ NoneOf(a.box, types)
         => NoneOf(b.box, types)
  <2>1. CASE b.box = a.box
    BY <2>1
  <2>2. CASE b.box # a.box
    BY <1>1, <2>2, NoneOfTold, ZenonT(30)
  <2> QED BY <2>1, <2>2
<1>6. ASSUME Idle(a, t) PROVE Idle(b, u) /\ (HasConnected(a) => HasConnected(b))
  BY <1>5, <1>6 DEF Idle, HasConnected
<1>7. ASSUME NEW st \in Receiving, Ready(st, a)
      PROVE  Ready(st, b) /\ Goes(a, t, b, u) /\ Half(u) = Half(t)
  <2>1. Ready(st, b)
    BY <1>5, <1>7 DEF Ready
  <2>2. Goes(a, t, b, u)
    BY <1>3, SameGoes
  <2> QED BY <1>7, <2>1, <2>2 DEF Ready
<1> QED BY <1>2, <1>4, <1>6, <1>7 DEF Steady

(* The IOActor stops: its connection has ended.                            *)
LEMMA SteadyStops ==
    ASSUME NEW a \in IOType, NEW t, t.state # "open",
           ~NoneOf(a.box, {"ShutdownAck"}) \/ a.state \in {"connecting", "aborting"}
    PROVE  Steady(a, t, Stopped, t) /\ Gone(Stopped, t)
<1> DEFINE b == Stopped
<1>1. b.state = "stopped" /\ b.box = <<>> /\ b.requests = <<>>
  BY DEF Stopped, NoIOActor
<1> HIDE DEF b
<1>2. \A types : NoneOf(b.box, types)
  BY <1>1, NoneOfNothing
<1>3. Attached(b, t) /\ Gone(b, t)
  BY <1>1 DEF Attached, Gone
<1>4. Shrinks(a, b)
  BY <1>1, StopShrinks
<1>5. ASSUME Idle(a, t) PROVE Idle(b, t) /\ (HasConnected(a) => HasConnected(b))
  <2>1. NoneOf(a.box, {"ShutdownAck"})
    BY <1>5, NoneOfSome DEF Idle
  <2> QED BY <1>1, <1>2, <1>5, <2>1 DEF Idle, HasConnected
<1>6. ASSUME NEW st \in Receiving, Ready(st, a)
      PROVE  Ready(st, b) /\ Goes(a, t, b, t) /\ Half(t) = Half(t)
  <2>1. st = "shuttingDown"
    BY <1>6 DEF Ready
  <2>2. Ready(st, b)
    BY <1>1, <1>2, <2>1 DEF Ready
  <2>3. Goes(a, t, b, t)
    BY <1>4 DEF Goes, Shrinks
  <2> QED BY <2>2, <2>3
<1>7. Steady(a, t, b, t)
  BY <1>3, <1>4, <1>5, <1>6 DEF Steady
<1> QED BY <1>3, <1>7 DEF b

(* A request is taken, or the next batch is written.                       *)
LEMMA SteadyWrites ==
    ASSUME NEW a \in IOType, a.box # <<>>, a.state = "connected",
           NEW b, b.box = Tail(a.box), b.state = "connected",
           NEW t, Attached(a, t), NEW u, u.state = t.state, u.net = t.net, u.wire = t.wire,
           u.half = t.half, u.abort = t.abort,
           Head(a.box).type \notin {"Shutdown", "ShutdownAck"},
           Idle(a, t) => b.requests = <<>> /\ u.writing = <<>>,
           t.state = "open" => \A z \in Seq(Idents) :
               Rest(b, u, z) = Rest(a, t, Load(Head(a.box), "Request") \o z)
    PROVE  Steady(a, t, b, u)
<1> DEFINE box == a.box
           y == Load(Head(box), "Request")
<1>1. box \in Seq(IOMessage) /\ box # <<>>
  BY ActorFields
<1>2. Gone(a, t) => Gone(b, u)
  BY DEF Gone
<1>3. Shrinks(a, b)
  BY <1>1, TailShrinks
<1>4. \A types : NoneOf(a.box, types) => NoneOf(b.box, types)
  BY <1>1, NoneOfHead
<1>5. ASSUME Idle(a, t) PROVE Idle(b, u) /\ (HasConnected(a) => HasConnected(b))
  BY <1>4, <1>5 DEF Idle, HasConnected
<1>6. Attached(b, u)
  BY <1>4 DEF Attached
<1>7. Goes(a, t, b, u)
  <2> SUFFICES ASSUME NEW s, Conveys(box, "Request", s)
               PROVE  \E z : /\ Conveys(b.box, "Request", z) /\ Len(z) <= Len(s)
                             /\ u.state = "open" => t.state = "open" /\ Rest(b, u, z) = Rest(a, t, s)
    BY DEF Goes
  <2> HIDE DEF box
  <2>1. PICK z \in Seq(Idents) : s = Load(Head(box), "Request") \o z /\ Conveys(Tail(box), "Request", z)
    BY <1>1, BoxesFit, ConveysTail
  <2>2. Load(Head(box), "Request") \in Seq(Idents)
    BY <1>1, BoxesFit DEF Fits
  <2>3. Conveys(b.box, "Request", z)
    BY <2>1 DEF box
  <2>4. t.state = "open" => Rest(b, u, z) = Rest(a, t, s)
    BY <2>1 DEF box
  <2>5. s = y \o z /\ y \in Seq(Idents)
    BY <2>1, <2>2
  <2> HIDE DEF y
  <2>6. Len(s) = Len(y) + Len(z) /\ Len(y) \in Nat /\ Len(z) \in Nat
    BY <2>5
  <2>7. Len(z) <= Len(s)
    BY <2>6
  <2> QED BY <2>3, <2>4, <2>7
<1>8. ASSUME NEW st \in Receiving, Ready(st, a) PROVE Ready(st, b) /\ Half(u) = Half(t)
  BY <1>4, <1>8 DEF Ready, Half
<1> QED BY <1>2, <1>3, <1>5, <1>6, <1>7, <1>8 DEF Steady

(* write() of IOActor e, which has nothing under way.                      *)
LEMMA WritesChange ==
    ASSUME ConnTypes, NEW e \in Connections, NEW a, a = io[e], NEW t, t = tcp[e],
           NEW b, b = io'[e], NEW u, u = tcp'[e],
           a.state = "connected", a.box # <<>>, t.writing = <<>>,
           NEW pending \in Seq(Request), WritesNext(e, pending)
    PROVE  /\ b.box = Tail(a.box) /\ b.state = "connected"
           /\ u.state = t.state /\ u.net = t.net /\ u.wire = t.wire /\ u.half = t.half
           /\ u.abort = t.abort
           /\ pending = <<>> => b.requests = <<>> /\ u.writing = <<>>
           /\ t.state = "open" => \A z \in Seq(Idents) :
                Rest(b, u, z) = Row(Names(t.net), Asked(t.wire), <<>>, Asked(pending), z)
<1> DEFINE n == IF Len(pending) < MaxWriteBatchSize THEN Len(pending) ELSE MaxWriteBatchSize
           actor == [io[e] EXCEPT !.batch = SubSeq(pending, 1, n),
                                  !.requests = Unwritten(pending, n),
                                  !.canWrite = (pending = <<>>)]
<1>1. n \in Nat /\ n <= Len(pending)
  <2>1. Len(pending) \in Nat /\ MaxWriteBatchSize \in Nat
    BY SharedAssumption
  <2> QED BY <2>1
<1>2. /\ IOBecomes(e, actor)
      /\ tcp' = IF pending # <<>> /\ tcp[e].state = "open"
                THEN [tcp EXCEPT ![e].writing = SubSeq(pending, 1, n)] ELSE tcp
  BY Zenon DEF WritesNext
<1> HIDE DEF n
<1>3. SubSeq(pending, 1, n) \in Seq(Request) /\ Unwritten(pending, n) \in Seq(Request)
  <2>1. n + 1 \in Nat \ {0} /\ Len(pending) \in Nat /\ 1 \in Nat \ {0}
    BY <1>1
  <2> QED BY <1>1, <2>1, SubSeqType DEF Unwritten
<1>4. /\ actor \in IOType /\ actor.box = a.box /\ actor.requests = Unwritten(pending, n)
      /\ actor.state = "connected"
  <2>1. io[e] \in IOType
    BY DEF ConnTypes
  <2> QED BY <1>3, <2>1 DEF IOType
<1> HIDE DEF actor
<1>5. /\ b \in IOType /\ b.box = Tail(a.box) /\ b.state = "connected"
      /\ b.requests = SubSeq(pending, n + 1, Len(pending))
  BY <1>2, <1>4, Became DEF ConnTypes, Unwritten
<1>6. /\ u \in TcpType /\ t \in TcpType /\ u.state = t.state /\ u.net = t.net /\ u.wire = t.wire
      /\ u.half = t.half /\ u.abort = t.abort
      /\ u.writing = IF pending # <<>> /\ t.state = "open" THEN SubSeq(pending, 1, n) ELSE <<>>
  <2>1. tcp[e] \in TcpType
    BY DEF ConnTypes
  <2> QED BY <1>2, <2>1 DEF ConnTypes, TcpType
<1>7. pending = <<>> => SubSeq(pending, 1, n) = <<>> /\ SubSeq(pending, n + 1, Len(pending)) = <<>>
  BY <1>1
<1>8. ASSUME t.state = "open", NEW z \in Seq(Idents)
      PROVE  Rest(b, u, z) = Row(Names(t.net), Asked(t.wire), <<>>, Asked(pending), z)
  <2>1. u.writing = SubSeq(pending, 1, n)
    BY <1>6, <1>7, <1>8
  <2>2. pending = SubSeq(pending, 1, n) \o SubSeq(pending, n + 1, Len(pending))
    BY <1>1, CutInTwo
  <2>3. b \in IOType /\ u \in TcpType /\ u.net = t.net /\ u.wire = t.wire
        /\ pending = u.writing \o b.requests
    BY <1>5, <1>6, <2>1, <2>2
  <2>4. Rest(b, u, z)
          = Row(Names(u.net), Asked(u.wire), <<>>, Asked(u.writing \o b.requests), z)
    BY <2>3, RestWrites
  <2> QED BY <2>3, <2>4
<1> QED BY <1>5, <1>6, <1>7, <1>8

LEMMA WritesSteady ==
    ASSUME ConnTypes, NEW e \in Connections, OneWrite(io[e], tcp[e]), Attached(io[e], tcp[e]),
           IORequest(e) \/ IOWriteAck(e)
    PROVE  Steady(io[e], tcp[e], io'[e], tcp'[e])
<1> DEFINE a == io[e]
           t == tcp[e]
           b == io'[e]
           u == tcp'[e]
           m == Head(a.box)
<1>1. /\ io \in [Connections -> IOType] /\ a \in IOType /\ t \in TcpType /\ b \in IOType
      /\ a.box \in Seq(IOMessage) /\ a.requests \in Seq(Request)
  BY ActorFields DEF ConnTypes
<1>2. a.state = "connected" /\ a.box # <<>> /\ m.type \in {"Request", "WriteAck"} /\ m \in IOMessage
  BY <1>1, HeadAndTail DEF IORequest, IOWriteAck, IOReceives
<1>3. m.type = "Request" => ~Idle(a, t) /\ m.req \in Request /\ Load(m, "Request") = <<m.req.id>>
  <2>1. m.type = "Request" => ~NoneOf(a.box, {"Shutdown", "Request", "ShutdownAck"})
    BY <1>1, <1>2, NoneOfHead
  <2>2. m.type = "Request" => m.req \in Request
    BY <1>2 DEF IOMessage, IOSignals
  <2> QED BY <2>1, <2>2, LoadKinds DEF Idle
<1>4. m.type = "WriteAck" => Load(m, "Request") = <<>> /\ t.writing = <<>>
  <2>1. m.type = "WriteAck" => 1 \in Acks(a.box)
    BY <1>1, <1>2 DEF Acks, AckTypes
  <2>2. m.type = "WriteAck" => t.writing = <<>>
    BY <1>2, <2>1 DEF OneWrite
  <2> QED BY <2>2, LoadKinds
<1>5. CASE IORequest(e) /\ ~a.canWrite
  <2> DEFINE pending == Append(a.requests, m.req)
             actor == [a EXCEPT !.requests = pending]
  <2>1. m.type = "Request" /\ IOBecomes(e, actor) /\ UNCHANGED tcp
    BY <1>5 DEF IORequest, IOReceives
  <2>2. pending \in Seq(Request)
    BY <1>1, <1>3, <2>1
  <2>3. actor \in IOType /\ actor.box = a.box /\ actor.requests = pending /\ actor.state = a.state
    <3> HIDE DEF pending
    <3> QED BY <1>1, <2>2 DEF IOType
  <2> HIDE DEF actor
  <2>4. b.box = Tail(a.box) /\ b.requests = pending /\ b.state = "connected"
    BY <1>1, <1>2, <2>1, <2>3, Became
  <2>5. ASSUME NEW z \in Seq(Idents) PROVE Rest(b, t, z) = Rest(a, t, <<m.req.id>> \o z)
    BY <1>1, <1>3, <2>1, <2>4, RestQueues
  <2>6. u = t
    BY <2>1
  <2> HIDE DEF a, t, b, u, pending
  <2>7. \A z \in Seq(Idents) : Rest(b, u, z) = Rest(a, t, Load(Head(a.box), "Request") \o z)
    BY <1>3, <2>1, <2>5, <2>6 DEF m
  <2>8. Attached(a, t)
    BY DEF a, t
  <2>9. Steady(a, t, b, u)
    BY <1>1, <1>2, <1>3, <2>1, <2>4, <2>6, <2>7, <2>8, SteadyWrites DEF m
  <2> QED BY <2>9 DEF a, t, b, u
<1>6. ASSUME NEW pending \in Seq(Request), WritesNext(e, pending), t.writing = <<>>,
             Idle(a, t) => pending = <<>>,
             \A z \in Seq(Idents) :
                 Row(Names(t.net), Asked(t.wire), <<>>, Asked(pending), z)
                   = Rest(a, t, Load(m, "Request") \o z)
      PROVE  Steady(a, t, b, u)
  <2>1. /\ b.box = Tail(a.box) /\ b.state = "connected"
        /\ u.state = t.state /\ u.net = t.net /\ u.wire = t.wire /\ u.half = t.half
        /\ u.abort = t.abort
        /\ pending = <<>> => b.requests = <<>> /\ u.writing = <<>>
        /\ t.state = "open" => \A z \in Seq(Idents) :
             Rest(b, u, z) = Row(Names(t.net), Asked(t.wire), <<>>, Asked(pending), z)
    BY <1>2, <1>6, WritesChange
  <2>2. Attached(a, t)
    OBVIOUS
  <2>3. m = Head(a.box)
    OBVIOUS
  <2> HIDE DEF a, t, b, u, m
  <2>4. t.state = "open" => \A z \in Seq(Idents) :
          Rest(b, u, z) = Rest(a, t, Load(Head(a.box), "Request") \o z)
    BY <1>6, <2>1, <2>3
  <2> QED BY <1>1, <1>2, <1>6, <2>1, <2>2, <2>3, <2>4, SteadyWrites
<1>7. CASE IORequest(e) /\ a.canWrite
  <2> DEFINE pending == Append(a.requests, m.req)
             mid == [a EXCEPT !.requests = pending]
  <2>1. m.type = "Request" /\ WritesNext(e, pending)
    BY <1>7 DEF IORequest, IOReceives
  <2>2. pending \in Seq(Request) /\ t.writing = <<>>
    BY <1>1, <1>2, <1>3, <1>7, <2>1 DEF OneWrite
  <2>3. mid \in IOType /\ mid.requests = pending
    <3> HIDE DEF pending
    <3> QED BY <1>1, <2>2 DEF IOType
  <2> HIDE DEF mid
  <2>4. ASSUME NEW z \in Seq(Idents)
        PROVE  Row(Names(t.net), Asked(t.wire), <<>>, Asked(pending), z)
                 = Rest(a, t, Load(m, "Request") \o z)
    <3>1. Rest(mid, t, z) = Rest(a, t, <<m.req.id>> \o z)
      BY <1>1, <1>3, <2>1, <2>3, RestQueues
    <3>2. Rest(mid, t, z) = Row(Names(t.net), Asked(t.wire), <<>>, Asked(pending), z)
      <4> HIDE DEF pending
      <4> QED BY <2>2, <2>3, AskedEmpty DEF Rest
    <3>3. Load(m, "Request") = <<m.req.id>>
      BY <1>3, <2>1
    <3> HIDE DEF pending, m, t, a
    <3> QED BY <3>1, <3>2, <3>3
  <2> HIDE DEF pending
  <2>5. ~Idle(a, t)
    BY <1>3, <2>1
  <2> HIDE DEF m, a, t, b, u
  <2>6. Steady(a, t, b, u)
    BY <1>6, <2>1, <2>2, <2>4, <2>5
  <2> QED BY <2>6 DEF a, t, b, u
<1>8. CASE IOWriteAck(e)
  <2> DEFINE pending == a.requests
  <2>1. m.type = "WriteAck" /\ WritesNext(e, pending)
    BY <1>8 DEF IOWriteAck, IOReceives
  <2>2. Idle(a, t) => pending = <<>>
    BY DEF Idle
  <2>3. ASSUME NEW z \in Seq(Idents)
        PROVE  Row(Names(t.net), Asked(t.wire), <<>>, Asked(pending), z)
                 = Rest(a, t, Load(m, "Request") \o z)
    <3>1. Load(m, "Request") \o z = z
      BY <1>4, <2>1, ConcatEmptySeq
    <3>2. Rest(a, t, z) = Row(Names(t.net), Asked(t.wire), <<>>, Asked(pending), z)
      <4>1. t.writing = <<>>
        BY <1>4, <2>1
      <4> HIDE DEF t
      <4> QED BY <4>1, AskedEmpty DEF Rest
    <3> HIDE DEF pending, m, t, a
    <3> QED BY <3>1, <3>2
  <2>4. pending \in Seq(Request) /\ t.writing = <<>>
    BY <1>1, <1>4, <2>1
  <2> HIDE DEF m, a, t, b, u, pending
  <2>5. Steady(a, t, b, u)
    BY <1>6, <2>1, <2>2, <2>3, <2>4
  <2> QED BY <2>5 DEF a, t, b, u
<1> QED BY <1>5, <1>7, <1>8

(* The listener is told something by an IOActor that has moved.            *)
LEMMA SteadyTells ==
    ASSUME lbox \in Seq(ListenerMessage), requests \in Seq(Request), lstate # "stopped",
           NEW a, NEW t, NEW b, NEW u, Paired(lstate, lbox, requests, remaining, a, t),
           Steady(a, t, b, u), NEW s \in ListenerSignals \ {"Remove"}, Tell(s),
           s \in {"Terminated", "Shutdown"} => Gone(b, u),
           s = "Abort" => lstate \notin {"connecting"} \cup Receiving,
           s = "Connected" => HasConnected(b)
    PROVE  Paired(lstate, lbox', requests, remaining, b, u)
<1> DEFINE m == Signal(s)
<1>1. m \in ListenerMessage /\ m.type = s /\ s # "Received"
  BY SignalType DEF Signal, ListenerSignals
<1>2. lbox' = lbox \o <<m>>
  BY DEF Tell, AfterTellingListener
<1>3. Paired(lstate, lbox, requests, remaining, b, u)
  BY PairedMoves
<1> HIDE DEF m
<1>4. Paired(lstate, lbox \o <<m>>, requests, remaining, b, u)
  BY <1>1, <1>3, PairedTold
<1> QED BY <1>2, <1>4

(* A request is rejected: there is one more to be removed.                 *)
LEMMA PartsRejects ==
    ASSUME NEW box \in Seq(ListenerMessage), NEW abox, NEW d, NEW s, NEW q, Parts(box, abox, d, s, q),
           NEW m \in ListenerMessage, m.type = "Remove"
    PROVE  Parts(box \o <<m>>, abox, d, s, q \o <<Internal>>)
<1>1. Load(m, "Received") = <<>> /\ Load(m, "Remove") = <<Internal>>
  BY LoadKinds
<1>2. Conveys(box, "Received", d) /\ Conveys(abox, "Request", s) /\ Conveys(box, "Remove", q)
  BY DEF Parts
<1>3. Conveys(box \o <<m>>, "Received", d \o Load(m, "Received"))
      /\ Conveys(box \o <<m>>, "Remove", q \o Load(m, "Remove"))
  BY <1>2, BoxesFit, ConveysTold
<1>4. d \o Load(m, "Received") = d
  BY <1>1, <1>2, ConcatEmptySeq DEF Conveys
<1> QED BY <1>1, <1>2, <1>3, <1>4 DEF Parts

LEMMA RejectPaired ==
    ASSUME NEW st, NEW box \in Seq(ListenerMessage), NEW rs \in Seq(Request), NEW rem,
           NEW a \in IOType, NEW t, Paired(st, box, rs, rem, a, t),
           a.box # <<>>, Head(a.box).type = "Request", a.state \in {"awaitingShutdown", "awaitingAbort"},
           NEW b, b.box = Tail(a.box), b.state = a.state,
           NEW m \in ListenerMessage, m.type = "Remove"
    PROVE  Paired(st, box \o <<m>>, rs, rem, b, t)
<1>1. a.box \in Seq(IOMessage)
  BY ActorFields
<1>2. \A types : NoneOf(a.box, types) => NoneOf(b.box, types) /\ Head(a.box).type \notin types
  BY <1>1, NoneOfHead
<1>3. Attached(b, t)
  BY <1>2 DEF Attached, Paired
<1>4. Gone(a, t) <=> Gone(b, t)
  BY DEF Gone
<1>5. \A types : "Remove" \notin types /\ Late(box, types, a, t) => Late(box \o <<m>>, types, b, t)
  <2> TAKE types
  <2> HAVE "Remove" \notin types /\ Late(box, types, a, t)
  <2>1. Late(box \o <<m>>, types, a, t)
    BY LateTold
  <2> QED BY <1>4, <2>1, LateMoves
<1>6. Late(box \o <<m>>, {"Terminated", "Shutdown"}, b, t)
  BY <1>5 DEF Paired
<1>7. st # "connecting"
  BY <1>2 DEF Paired, Starting, Idle
<1>8. ASSUME NEW d, NEW s, NEW q, Parts(box, a.box, d, s, q), NEW n \in Nat, n >= Len(s) + Len(q)
      PROVE  \E z, p : /\ Parts(box \o <<m>>, b.box, d, z, p) /\ n >= Len(z) + Len(p)
  <2>1. PICK z \in Seq(Idents) : Len(s) = Len(z) + 1 /\ Parts(box, b.box, d, z, q)
    BY <1>1, <1>8, PartsServes
  <2>2. Parts(box \o <<m>>, b.box, d, z, q \o <<Internal>>)
    BY <2>1, PartsRejects
  <2>3. q \in Seq(Idents) /\ Len(q) \in Nat /\ Len(z) \in Nat
    BY <2>1, PartsTypes
  <2>4. Len(q \o <<Internal>>) = Len(q) + 1
    BY <2>3
  <2>5. n >= Len(z) + Len(q \o <<Internal>>)
    BY <1>8, <2>1, <2>3, <2>4
  <2> QED BY <2>2, <2>5
<1>9. ASSUME Counted(box, rs, a) PROVE Counted(box \o <<m>>, rs, b)
  <2>1. Len(rs) \in Nat
    OBVIOUS
  <2> QED BY <1>8, <1>9, <2>1 DEF Counted
<1>10. ASSUME st \in Receiving, Flowing(st, box, rs, rem, a, t)
       PROVE  Flowing(st, box \o <<m>>, rs, rem, b, t)
  <2>1. a.state = "awaitingShutdown" /\ t.state # "open" /\ Gone(a, t)
    BY <1>10 DEF Flowing, Ready, Paired, Attached, Gone
  <2>2. NoneOf(box \o <<m>>, {"Abort"})
    BY <1>10, NoneOfTold DEF Flowing
  <2>3. Ready(st, b)
    BY <1>2, <1>10 DEF Flowing, Ready
  <2>4. Late(box \o <<m>>, {"Remove"}, b, t)
    <3>1. Late(box \o <<m>>, {"Remove"}, a, t)
      BY <1>10, <2>1, LateTold DEF Flowing
    <3> QED BY <1>4, <3>1, LateMoves
  <2>5. Chained(box \o <<m>>, rem, Half(t))
    <3>1. Chained(box, rem, Half(t))
      BY <1>10 DEF Flowing
    <3>2. Half(t) \in Seq(Reply)
      BY <3>1, ChainedTypes
    <3> HIDE DEF Half
    <3> QED BY <3>1, <3>2, ChainedTold
  <2>6. Flow(box \o <<m>>, rs, b, t)
    <3>1. PICK d, s, q, r : /\ Parts(box, a.box, d, s, q) /\ r \in Seq(Idents)
                            /\ Asked(rs) = d \o r /\ Len(r) >= Len(s) + Len(q)
      BY <1>10 DEF Flowing, Flow
    <3>2. Len(r) \in Nat
      BY <3>1
    <3>3. PICK z, p : Parts(box \o <<m>>, b.box, d, z, p) /\ Len(r) >= Len(z) + Len(p)
      BY <1>8, <3>1, <3>2
    <3> QED BY <2>1, <3>1, <3>3 DEF Flow
  <2> QED BY <2>2, <2>3, <2>4, <2>5, <2>6 DEF Flowing
<1> QED BY <1>3, <1>6, <1>7, <1>9, <1>10 DEF Paired

(* Every case of the behaviours of the IOActor of the listener.            *)
LEMMA IOPaired ==
    ASSUME ConnTypes, lbox \in Seq(ListenerMessage), requests \in Seq(Request), lstate # "stopped",
           NEW e \in Connections, CleanActor(io[e]), OneWrite(io[e], tcp[e]),
           Paired(lstate, lbox, requests, remaining, io[e], tcp[e]), IONext(e)
    PROVE  Paired(lstate, lbox', requests, remaining, io'[e], tcp'[e])
<1> DEFINE a == io[e]
           t == tcp[e]
           b == io'[e]
           u == tcp'[e]
           P == Paired(lstate, lbox', requests, remaining, b, u)
<1>1. /\ io \in [Connections -> IOType] /\ tcp \in [Connections -> TcpType]
      /\ a \in IOType /\ t \in TcpType /\ b \in IOType
      /\ a.box \in Seq(IOMessage) /\ a.box \in Seq(CleanIO)
  BY ActorFields DEF ConnTypes, CleanActor
<1>2. Paired(lstate, lbox, requests, remaining, a, t) /\ Attached(a, t)
  BY DEF Paired
<1>3. ASSUME NEW m, IOReceives(e, m)
      PROVE  /\ a.box # <<>> /\ Head(a.box).type = m /\ Head(a.box) \in CleanIO
             /\ \A types : NoneOf(a.box, types) => m \notin types /\ NoneOf(Tail(a.box), types)
  <2>1. a.box # <<>> /\ Head(a.box).type = m
    BY <1>3 DEF IOReceives
  <2> QED BY <1>1, <2>1, NoneOfHead, HeadAndTail
<1>4. ASSUME NEW actor \in IOType, IOBecomes(e, actor), actor.box = a.box,
             actor.requests = a.requests
      PROVE  b.box = Tail(a.box) /\ b.requests = a.requests /\ b.state = actor.state
  BY <1>1, <1>4, Became
<1>5. ASSUME NEW s \in IOStates, IOBecomes(e, [a EXCEPT !.state = s])
      PROVE  b.box = Tail(a.box) /\ b.requests = a.requests /\ b.state = s
  <2> DEFINE actor == [a EXCEPT !.state = s]
  <2>1. actor \in IOType /\ actor.box = a.box /\ actor.requests = a.requests /\ actor.state = s
    BY <1>1 DEF IOType
  <2> HIDE DEF actor
  <2> QED BY <1>4, <1>5, <2>1 DEF actor
<1>6. ASSUME IOBecomes(e, a) PROVE b.box = Tail(a.box) /\ b.requests = a.requests /\ b.state = a.state
  BY <1>1, <1>4, <1>6
<1>7. ASSUME UNCHANGED tcp PROVE u = t
  BY <1>7
<1>8. ASSUME IOStop(e), UNCHANGED tcp, t.state # "open",
             ~NoneOf(a.box, {"ShutdownAck"}) \/ a.state \in {"connecting", "aborting"}
      PROVE  P
  <2>1. b = Stopped /\ Tell("Terminated")
    BY <1>1, <1>8 DEF IOStop
  <2>2. Steady(a, t, Stopped, t) /\ Gone(Stopped, t)
    BY <1>1, <1>8, SteadyStops
  <2>3. "Terminated" \in ListenerSignals \ {"Remove"}
    BY DEF ListenerSignals
  <2>4. u = t
    BY <1>8
  <2> HIDE DEF a, t, b, u
  <2> QED BY <1>2, <2>1, <2>2, <2>3, <2>4, SteadyTells
<1>9. ASSUME Steady(a, t, b, u), UNCHANGED lbox PROVE P
  <2> HIDE DEF a, t, b, u
  <2>1. Paired(lstate, lbox, requests, remaining, b, u)
    BY <1>2, <1>9, PairedMoves
  <2>2. lbox' = lbox
    BY <1>9
  <2> QED BY <2>1, <2>2
<1>10. CASE IOConnected(e)
  <2> DEFINE actor == [a EXCEPT !.state = "connected", !.connectTimer = FALSE, !.canWrite = TRUE]
  <2>1. /\ a.state = "connecting" /\ a.box # <<>> /\ Head(a.box).type = "Connected" /\ Tell("Connected")
        /\ IOBecomes(e, actor)
    BY <1>3, <1>10 DEF IOConnected
  <2>2. actor \in IOType /\ actor.box = a.box /\ actor.requests = a.requests /\ actor.state = "connected"
    BY <1>1 DEF IOType, IOStates
  <2> HIDE DEF actor
  <2>3. b.box = Tail(a.box) /\ b.requests = a.requests /\ b.state = "connected"
    BY <1>4, <2>1, <2>2
  <2>4. /\ u.state = "open" /\ u.net = t.net /\ u.wire = t.wire /\ u.writing = t.writing
        /\ u.half = t.half /\ u.abort = t.abort
    BY <1>1, <1>10 DEF IOConnected, TcpType
  <2> HIDE DEF a, t, b, u
  <2>5. Attached(b, u)
    <3>1. NoneOf(b.box, {"Terminated"}) /\ ~t.abort
      BY <1>1, <1>2, <2>1, <2>3, NoneOfHead DEF Attached
    <3> QED BY <2>3, <2>4, <3>1 DEF Attached
  <2>6. Steady(a, t, b, u)
    BY <1>1, <2>1, <2>3, <2>4, <2>5, SteadyTakes
  <2>7. HasConnected(b) /\ "Connected" \in ListenerSignals \ {"Remove"}
    BY <2>3 DEF HasConnected, ListenerSignals
  <2>8. Paired(lstate, lbox', requests, remaining, b, u)
    BY <1>2, <2>1, <2>6, <2>7, SteadyTells
  <2> QED BY <2>8 DEF b, u
<1>11. CASE IOConnectFailed(e)
  <2>1. a.state = "connecting" /\ IOStop(e) /\ UNCHANGED tcp
    BY <1>11 DEF IOConnectFailed
  <2>2. t.state # "open"
    BY <1>2, <2>1 DEF Attached
  <2> QED BY <1>8, <2>1, <2>2
<1>12. CASE IORequest(e) \/ IOWriteAck(e)
  <2>1. Steady(a, t, b, u)
    BY <1>2, <1>12, WritesSteady
  <2>2. UNCHANGED lbox
    BY <1>12 DEF IORequest, IOWriteAck, WritesNext
  <2> QED BY <1>9, <2>1, <2>2
<1>13. CASE IOWriteFailed(e)
  BY <1>3, <1>13 DEF IOWriteFailed, CleanIO
<1>14. CASE IOShutdown(e)
  <2>1. /\ a.box # <<>> /\ Head(a.box).type = "Shutdown" /\ Tell("Abort") /\ u = t
        /\ b.box = Tail(a.box) /\ b.requests = a.requests /\ b.state = "awaitingAbort"
    BY <1>3, <1>5, <1>7, <1>14 DEF IOShutdown, IOStates
  <2>2. ~NoneOf(a.box, {"Shutdown"}) /\ ~NoneOf(a.box, {"Shutdown", "Request", "ShutdownAck"})
    BY <1>1, <2>1, NoneOfHead
  <2> HIDE DEF a, t, b, u
  <2>3. lstate \notin {"connecting"} \cup Receiving
    BY <1>2, <2>2 DEF Paired, Starting, Idle, Flowing, Ready
  <2>4. Attached(b, t)
    <3>1. NoneOf(a.box, {"Terminated"}) => NoneOf(b.box, {"Terminated"})
      BY <1>1, <2>1, NoneOfHead
    <3> QED BY <1>2, <2>1, <3>1 DEF Attached
  <2>5. Steady(a, t, b, t)
    BY <1>1, <2>1, <2>4, SteadyTakes
  <2>6. "Abort" \in ListenerSignals \ {"Remove"}
    BY DEF ListenerSignals
  <2>7. Paired(lstate, lbox', requests, remaining, b, t)
    BY <1>2, <2>1, <2>3, <2>5, <2>6, SteadyTells
  <2> QED BY <2>1, <2>7 DEF b, u, t
<1>15. CASE IOTerminated(e)
  <2>1. /\ a.box # <<>> /\ Head(a.box).type = "Terminated" /\ Tell("Shutdown") /\ u = t
        /\ b.box = Tail(a.box) /\ b.requests = a.requests /\ b.state = "awaitingShutdown"
    BY <1>3, <1>5, <1>7, <1>15 DEF IOTerminated, IOStates
  <2>2. ~NoneOf(a.box, {"Terminated"})
    BY <1>1, <2>1, NoneOfHead
  <2> HIDE DEF a, t, b, u
  <2>3. t.state # "open" /\ Attached(b, t) /\ Gone(b, t)
    BY <1>2, <2>1, <2>2 DEF Attached, Gone
  <2>5. Steady(a, t, b, t)
    BY <1>1, <2>1, <2>3, SteadyTakes
  <2>6. "Shutdown" \in ListenerSignals \ {"Remove"}
    BY DEF ListenerSignals
  <2>7. Paired(lstate, lbox', requests, remaining, b, t)
    BY <1>2, <2>1, <2>3, <2>5, <2>6, SteadyTells
  <2> QED BY <2>1, <2>7 DEF b, u, t
<1>16. CASE IORejectRequest(e)
  <2> DEFINE m == Signal("Remove")
  <2>1. /\ a.box # <<>> /\ Head(a.box).type = "Request" /\ u = t
        /\ a.state \in {"awaitingShutdown", "awaitingAbort"} /\ lbox' = lbox \o <<m>>
        /\ b.box = Tail(a.box) /\ b.requests = a.requests /\ b.state = a.state
    BY <1>3, <1>6, <1>7, <1>16 DEF IORejectRequest, Tell, AfterTellingListener
  <2>2. m \in ListenerMessage /\ m.type = "Remove"
    BY SignalType DEF Signal, ListenerSignals
  <2> HIDE DEF a, t, b, u, m
  <2>3. Paired(lstate, lbox \o <<m>>, requests, remaining, b, t)
    BY <1>1, <1>2, <2>1, <2>2, RejectPaired
  <2> QED BY <2>1, <2>3 DEF b, u, t
<1>17. CASE IOShutdownAck(e)
  <2>1. /\ a.state = "awaitingShutdown" /\ IOStop(e) /\ UNCHANGED tcp /\ a.box # <<>>
        /\ Head(a.box).type = "ShutdownAck"
    BY <1>3, <1>17 DEF IOShutdownAck
  <2>2. t.state # "open" /\ ~NoneOf(a.box, {"ShutdownAck"})
    BY <1>1, <1>2, <2>1, NoneOfHead DEF Attached
  <2> QED BY <1>8, <2>1, <2>2
<1>18. CASE IOAbortAck(e)
  <2> DEFINE actor == [a EXCEPT !.state = "aborting", !.abortTimer = TRUE]
  <2>1. /\ a.state = "awaitingAbort" /\ a.box # <<>> /\ Head(a.box).type = "AbortAck"
        /\ IOBecomes(e, actor) /\ UNCHANGED lbox
    BY <1>3, <1>18 DEF IOAbortAck
  <2>2. actor \in IOType /\ actor.box = a.box /\ actor.requests = a.requests /\ actor.state = "aborting"
    BY <1>1 DEF IOType, IOStates
  <2> HIDE DEF actor
  <2>3. b.box = Tail(a.box) /\ b.requests = a.requests /\ b.state = "aborting"
    BY <1>4, <2>1, <2>2
  <2>4. /\ u.state = t.state /\ u.net = t.net /\ u.wire = t.wire /\ u.writing = t.writing
        /\ u.half = t.half
    BY <1>1, <1>18 DEF IOAbortAck, TcpType
  <2> HIDE DEF a, t, b, u
  <2>5. Attached(b, u)
    <3>1. NoneOf(a.box, {"Terminated"}) => NoneOf(b.box, {"Terminated"})
      BY <1>1, <2>1, <2>3, NoneOfHead
    <3> QED BY <1>2, <2>1, <2>3, <2>4, <3>1 DEF Attached
  <2>6. Steady(a, t, b, u)
    BY <1>1, <2>1, <2>3, <2>4, <2>5, SteadyTakes
  <2> QED BY <1>9, <2>1, <2>6 DEF a, t, b, u
<1>19. CASE IOAborted(e)
  <2>1. /\ a.state = "aborting" /\ IOStop(e) /\ UNCHANGED tcp /\ a.box # <<>>
        /\ Head(a.box).type = "Terminated"
    BY <1>3, <1>19 DEF IOAborted
  <2>2. t.state # "open"
    BY <1>1, <1>2, <2>1, NoneOfHead DEF Attached
  <2> QED BY <1>8, <2>1, <2>2
<1>20. CASE IOAbortTimeout(e)
  <2>1. a.state = "aborting" /\ a.box # <<>> /\ Head(a.box).type = "AbortTimeout" /\ UNCHANGED lbox
    BY <1>3, <1>20 DEF IOAbortTimeout
  <2>2. CASE t.state # "open"
    <3>1. u = t /\ b.box = Tail(a.box) /\ b.requests = a.requests /\ b.state = a.state
      BY <1>6, <1>7, <1>20, <2>2 DEF IOAbortTimeout
    <3> HIDE DEF a, t, b, u
    <3>2. Attached(b, t)
      BY <2>1, <2>2, <3>1 DEF Attached
    <3>3. Steady(a, t, b, t)
      BY <1>1, <2>1, <3>1, <3>2, SteadyTakes
    <3> QED BY <1>9, <2>1, <3>1, <3>3 DEF a, t, b, u
  <2>3. CASE t.state = "open"
    <3> DEFINE m == Signal("Terminated")
               more == Append(a.box, m)
               actor == [a EXCEPT !.box = more]
    <3>1. m \in IOMessage /\ m.type # "Request"
      BY SignalType DEF Signal, IOSignals
    <3> HIDE DEF m
    <3>2. more \in Seq(IOMessage) /\ Tail(more) = Tail(a.box) \o <<m>>
      BY <1>1, <2>1, <3>1, TailOfAppend
    <3>3. IOBecomes(e, actor) /\ u.state = "closed"
      BY <1>1, <1>20, <2>3 DEF IOAbortTimeout, TcpType, m
    <3> HIDE DEF more
    <3>4. actor \in IOType /\ actor.box = more /\ actor.state = a.state
      BY <1>1, <3>2 DEF IOType
    <3> HIDE DEF actor
    <3>5. b.box = Tail(a.box) \o <<m>> /\ b.state = "aborting"
      BY <1>1, <2>1, <3>2, <3>3, <3>4, Became
    <3> HIDE DEF a, t, b, u
    <3>6. SameWait(a.box, Tail(a.box)) /\ Tail(a.box) \in Seq(IOMessage)
      BY <1>1, <2>1, SameTail, HeadAndTail
    <3>7. SameWait(Tail(a.box), b.box)
      BY <3>1, <3>5, <3>6, SameTold
    <3>8. SameWait(a.box, b.box)
      BY <3>6, <3>7 DEF SameWait
    <3>9. Shrinks(a, b)
      BY <3>8, SameShrinks
    <3>10. Attached(b, u) /\ ~Gone(a, t) /\ ~Idle(a, t) /\ \A st \in Receiving : ~Ready(st, a)
      BY <2>1, <2>3, <3>3, <3>5 DEF Attached, Gone, Idle, Ready
    <3>11. Steady(a, t, b, u)
      BY <3>9, <3>10 DEF Steady
    <3> QED BY <1>9, <2>1, <3>11 DEF a, t, b, u
  <2> QED BY <2>2, <2>3
<1>21. CASE IOIgnore(e)
  <2>1. /\ u = t /\ b.box = Tail(a.box) /\ b.requests = a.requests /\ b.state = a.state
        /\ UNCHANGED lbox /\ a.box # <<>>
        /\ Head(a.box).type = "Request" => a.state \in {"connecting", "aborting"}
    BY <1>3, <1>6, <1>7, <1>21 DEF IOIgnore, IOIgnored
  <2> HIDE DEF a, t, b, u
  <2>2. Attached(b, t)
    <3>1. NoneOf(a.box, {"Terminated"}) => NoneOf(b.box, {"Terminated"})
      BY <1>1, <2>1, NoneOfHead
    <3> QED BY <1>2, <2>1, <3>1 DEF Attached
  <2>3. Gone(a, t) => b.state # "connecting"
    BY <2>1 DEF Gone
  <2>4. Steady(a, t, b, t)
    BY <1>1, <2>1, <2>2, <2>3, SteadyTakes
  <2> QED BY <1>9, <2>1, <2>4 DEF a, t, b, u
<1> QED
  BY <1>10, <1>11, <1>12, <1>13, <1>14, <1>15, <1>16, <1>17, <1>18, <1>19, <1>20, <1>21 DEF IONext

(* An IOActor is told a signal, or nothing.                                *)
Hears(a, b, s) ==
    /\ b.requests = a.requests /\ b.state = a.state
    /\ b.box = a.box \/ \E m \in IOMessage : b.box = a.box \o <<m>> /\ m.type = s

LEMMA ToldHears ==
    ASSUME NEW a \in IOType, NEW s \in IOSignals, NEW b,
           \/ b = Told(a, <<Signal(s)>>)
           \/ b = [Told(a, <<Signal(s)>>) EXCEPT !.connectTimer = FALSE]
           \/ b = [Told(a, <<Signal(s)>>) EXCEPT !.abortTimer = FALSE]
    PROVE  Hears(a, b, s)
<1> DEFINE m == Signal(s)
           x == Told(a, <<m>>)
<1>1. m \in IOMessage /\ m.type = s
  BY SignalType DEF Signal
<1> HIDE DEF m
<1>2. x \in IOType
  BY ToldSignalType DEF m
<1>3. x.requests = a.requests /\ x.state = a.state /\ (x.box = a.box \/ x.box = a.box \o <<m>>)
  BY DEF Told, IOType
<1>4. b = x \/ b = [x EXCEPT !.connectTimer = FALSE] \/ b = [x EXCEPT !.abortTimer = FALSE]
  BY DEF m
<1> HIDE DEF x
<1>5. b.requests = x.requests /\ b.state = x.state /\ b.box = x.box
  BY <1>2, <1>4 DEF IOType
<1> QED BY <1>1, <1>3, <1>5 DEF Hears

LEMMA HeardNone ==
    ASSUME NEW a \in IOType, NEW s, NEW b, Hears(a, b, s), NEW types, s \notin types,
           NoneOf(a.box, types)
    PROVE  NoneOf(b.box, types)
<1>1. a.box \in Seq(IOMessage)
  BY ActorFields
<1>2. CASE b.box = a.box
  BY <1>2
<1>3. CASE b.box # a.box
  BY <1>1, <1>3, NoneOfTold DEF Hears
<1> QED BY <1>2, <1>3

LEMMA HearsSteady ==
    ASSUME NEW a \in IOType, NEW b, NEW s, Hears(a, b, s), s \notin {"Request", "Shutdown", "ShutdownAck"},
           NEW t, NEW u, Attached(b, u), Gone(a, t) => u.state # "open",
           Idle(a, t) => u.net = <<>> /\ u.wire = <<>> /\ u.writing = <<>> /\ ~u.half,
           KeepsRest(a, t, b, u),
           a.state \in {"connected", "awaitingShutdown", "stopped"} => Half(u) = Half(t)
    PROVE  Steady(a, t, b, u)
<1>1. b.box = a.box \/ \E m \in IOMessage : /\ b.box = a.box \o <<m>>
                                            /\ m.type \notin {"Request", "Shutdown", "ShutdownAck"}
  BY DEF Hears
<1> QED BY <1>1, SteadyHears DEF Hears

(* What the timers and the connection do, but for a read.                  *)
LEMMA ConnectionSteady ==
    ASSUME ConnTypes, Whole, NEW c \in Connections, CleanTcp(tcp[c]), Attached(io[c], tcp[c]),
           \/ TcpConnect(c) \/ TcpConnectFail(c) \/ TcpWrite(c)
           \/ TcpAbort(c) \/ TcpQuit(c) \/ TcpDrop(c)
           \/ (FireConnectTimeout(c) \/ FireAbortTimeout(c)) /\ UNCHANGED tcp
    PROVE  Steady(io[c], tcp[c], io'[c], tcp'[c])
<1> DEFINE a == io[c]
           t == tcp[c]
           b == io'[c]
           u == tcp'[c]
<1>1. /\ io \in [Connections -> IOType] /\ tcp \in [Connections -> TcpType]
      /\ a \in IOType /\ t \in TcpType /\ u \in TcpType /\ Attached(a, t) /\ CleanTcp(t)
      /\ "Connected" \in IOSignals /\ "ConnectFailed" \in IOSignals /\ "WriteAck" \in IOSignals
      /\ "Terminated" \in IOSignals /\ "ConnectTimeout" \in IOSignals /\ "AbortTimeout" \in IOSignals
  BY DEF ConnTypes, IOSignals
<1>2. ASSUME NEW s \in IOSignals, TellIO(c, s) PROVE Hears(a, b, s)
  <2>1. b = Told(a, <<Signal(s)>>)
    BY <1>1, <1>2 DEF TellIO
  <2> HIDE DEF a, b
  <2> QED BY <1>1, <2>1, ToldHears
<1>3. CASE TcpConnect(c) \/ TcpConnectFail(c)
  <2>1. PICK s \in {"Connected", "ConnectFailed"} : TellIO(c, s)
    BY <1>3 DEF TcpConnect, TcpConnectFail
  <2>2. Hears(a, b, s)
    BY <1>1, <1>2, <2>1
  <2>3. /\ a.state = "connecting" /\ u.state # "open" /\ u.abort = t.abort
        /\ u.net = t.net /\ u.wire = t.wire /\ u.writing = t.writing /\ u.half = t.half
    BY <1>1, <1>3 DEF TcpConnect, TcpConnectFail, TcpType
  <2> HIDE DEF a, t, b, u
  <2>4. NoneOf(a.box, {"Terminated"}) => NoneOf(b.box, {"Terminated"})
    BY <1>1, <2>2, HeardNone
  <2>5. Attached(b, u)
    BY <1>1, <2>2, <2>3, <2>4 DEF Attached, Hears
  <2>6. Steady(a, t, b, u)
    BY <1>1, <2>2, <2>3, <2>5, HearsSteady DEF KeepsRest, Idle
  <2> QED BY <2>6 DEF a, t, b, u
<1>4. CASE TcpWrite(c)
  <2>1. Hears(a, b, "WriteAck")
    BY <1>1, <1>2, <1>4 DEF TcpWrite
  <2>2. /\ t.state = "open" /\ u.state = t.state /\ u.abort = t.abort /\ u.net = t.net
        /\ u.wire = t.wire \o t.writing /\ u.writing = <<>> /\ u.half = t.half
    BY <1>1, <1>4 DEF TcpWrite, TcpType
  <2> HIDE DEF a, t, b, u
  <2>3. NoneOf(a.box, {"Terminated"}) => NoneOf(b.box, {"Terminated"})
    BY <1>1, <2>1, HeardNone
  <2>4. Attached(b, u)
    BY <1>1, <2>1, <2>2, <2>3 DEF Attached, Hears
  <2>5. KeepsRest(a, t, b, u)
    <3>1. \A z \in Seq(Idents) : Rest(a, u, z) = Rest(a, t, z)
      BY <1>1, <2>2, RestSent
    <3>2. \A z \in Seq(Idents) : Rest(b, u, z) = Rest(a, u, z)
      BY <2>1 DEF Rest, Hears
    <3> QED BY <2>2, <3>1, <3>2 DEF KeepsRest
  <2>6. ~Gone(a, t) /\ Half(u) = Half(t)
    BY <2>2 DEF Gone, Half
  <2>7. ASSUME Idle(a, t) PROVE u.net = <<>> /\ u.wire = <<>> /\ u.writing = <<>> /\ ~u.half
    <3>1. t.net = <<>> /\ t.wire = <<>> /\ t.writing = <<>> /\ ~t.half
      BY <2>7 DEF Idle
    <3>2. <<>> \o <<>> = <<>>
      OBVIOUS
    <3> QED BY <2>2, <3>1, <3>2
  <2>8. Steady(a, t, b, u)
    BY <1>1, <2>1, <2>4, <2>5, <2>6, <2>7, HearsSteady
  <2> QED BY <2>8 DEF a, t, b, u
<1>5. CASE TcpAbort(c) \/ TcpQuit(c) \/ TcpDrop(c)
  <2>1. t.state = "open" /\ Closes(c)
    BY <1>5 DEF TcpAbort, TcpQuit, TcpDrop
  <2>2. Hears(a, b, "Terminated")
    BY <1>1, <1>2, <2>1 DEF Closes
  <2>3. PICK n \in 0..Len(t.writing) :
           tcp' = [tcp EXCEPT ![c].state = "closed", ![c].abort = FALSE, ![c].net = <<>>,
                              ![c].half = FALSE, ![c].writing = <<>>,
                              ![c].wire = @ \o SubSeq(tcp[c].writing, 1, n)]
    BY <2>1 DEF Closes
  <2>4. /\ u.state = "closed" /\ u.net = <<>> /\ ~u.half /\ u.writing = <<>>
        /\ u.wire = t.wire \o SubSeq(t.writing, 1, n)
    BY <1>1, <2>3, SMTT(30) DEF TcpType
  <2>5. ASSUME a.state \in {"connected", "awaitingShutdown", "stopped"} PROVE ~t.half
    <3>1. ~TcpAbort(c)
      BY <1>1, <2>5 DEF TcpAbort, Attached
    <3>2. TcpQuit(c) => ~t.half
      BY <1>1 DEF TcpQuit, CleanTcp
    <3>3. TcpDrop(c) => ~t.half
      BY <1>1 DEF TcpDrop, Fault, Whole, CleanTcp
    <3> QED BY <1>5, <3>1, <3>2, <3>3
  <2> HIDE DEF a, t, b, u
  <2>6. Attached(b, u) /\ ~Gone(a, t) /\ KeepsRest(a, t, b, u)
    BY <1>1, <2>1, <2>2, <2>4 DEF Attached, Hears, Gone, KeepsRest
  <2>7. a.state \in {"connected", "awaitingShutdown", "stopped"} => Half(u) = Half(t)
    BY <2>4, <2>5 DEF Half
  <2>8. ASSUME Idle(a, t) PROVE u.wire = <<>>
    <3>1. t.wire = <<>> /\ t.writing = <<>>
      BY <2>8 DEF Idle
    <3>2. n = 0
      BY <3>1
    <3>3. <<>> \o SubSeq(<<>>, 1, 0) = <<>>
      OBVIOUS
    <3> QED BY <2>4, <3>1, <3>2, <3>3
  <2>9. Steady(a, t, b, u)
    BY <1>1, <2>2, <2>4, <2>6, <2>7, <2>8, HearsSteady
  <2> QED BY <2>9 DEF a, t, b, u
<1>6. CASE (FireConnectTimeout(c) \/ FireAbortTimeout(c)) /\ UNCHANGED tcp
  <2>1. PICK s \in {"ConnectTimeout", "AbortTimeout"} :
          \/ b = [Told(a, <<Signal(s)>>) EXCEPT !.connectTimer = FALSE]
          \/ b = [Told(a, <<Signal(s)>>) EXCEPT !.abortTimer = FALSE]
    BY <1>1, <1>6 DEF FireConnectTimeout, FireAbortTimeout
  <2>2. u = t
    BY <1>6
  <2> HIDE DEF a, t, b, u
  <2>3. Hears(a, b, s)
    BY <1>1, <2>1, ToldHears
  <2>4. NoneOf(a.box, {"Terminated"}) => NoneOf(b.box, {"Terminated"})
    BY <1>1, <2>3, HeardNone
  <2>5. Attached(b, t)
    BY <1>1, <2>3, <2>4 DEF Attached, Hears
  <2>6. KeepsRest(a, t, b, t)
    BY <2>3 DEF KeepsRest, Rest, Hears
  <2>7. Steady(a, t, b, t)
    BY <1>1, <2>3, <2>5, <2>6, HearsSteady DEF Gone, Idle
  <2> QED BY <2>2, <2>7 DEF a, t, b, u
<1> QED BY <1>3, <1>4, <1>5, <1>6

(* The server answers a command.                                           *)
LEMMA ServerSteady ==
    ASSUME ConnTypes, NEW c \in Connections, CleanTcp(tcp[c]), Attached(io[c], tcp[c]), ServerExecute(c)
    PROVE  Steady(io[c], tcp[c], io'[c], tcp'[c])
<1> DEFINE a == io[c]
           t == tcp[c]
           u == tcp'[c]
           r == Head(t.wire)
<1>1. a \in IOType /\ t \in TcpType /\ u \in TcpType /\ Attached(a, t) /\ CleanTcp(t)
  BY DEF ConnTypes
<1>2. t.wire # <<>> /\ UNCHANGED io /\ u.writing = t.writing /\ u.wire = Tail(t.wire)
  BY ExecuteChanges
<1>3. r \in Request
  <2>1. t.wire \in Seq(Request)
    BY <1>1, ConnectionFields
  <2> QED BY <1>2, <2>1, HeadAndTail
<1>4. PICK kind \in {"ok", "queued", "error"} :
        /\ u.state = t.state /\ u.half = t.half /\ u.abort = t.abort
        /\ u.net = IF t.state = "open" THEN Append(t.net, [to |-> r.id, kind |-> kind]) ELSE t.net
  <2> DEFINE queues == t.multi /\ r.op # "exec"
             k == IF queues THEN "queued"
                  ELSE IF r.op \in SessionOps /\ r.value \in Rejected THEN "error" ELSE "ok"
             net == IF t.state = "open" THEN Append(t.net, [to |-> r.id, kind |-> k]) ELSE t.net
             kept == IF r.op \in SessionOps /\ k = "ok"
                     THEN [t.settings EXCEPT ![r.op] = r.value] ELSE t.settings
             multi == (t.multi \/ r.op = "multi") /\ r.op # "exec"
             members == IF queues THEN Append(t.members, r.id)
                        ELSE IF r.op = "exec" THEN <<>> ELSE t.members
             quits == r.op = "quit"
             next == [t EXCEPT !.wire = Tail(t.wire), !.net = net, !.settings = kept,
                               !.multi = multi, !.members = members, !.quit = quits]
  <2>1. tcp' = [tcp EXCEPT ![c] = next]
    BY DEF ServerExecute
  <2>2. u = next
    BY <2>1 DEF ConnTypes
  <2>3. k \in {"ok", "queued", "error"}
    OBVIOUS
  <2>4. u.state = t.state /\ u.half = t.half /\ u.abort = t.abort /\ u.net = net
    <3> HIDE DEF t, u, net, kept, multi, members, quits
    <3> QED BY <1>1, <2>2 DEF TcpType
  <2> QED BY <2>3, <2>4
<1> DEFINE p == [to |-> r.id, kind |-> kind]
<1>5. p \in Reply /\ p.to = r.id
  BY <1>3 DEF Reply, Request
<1>6. io'[c] = a
  BY <1>2
<1> HIDE DEF a, t, u
<1>7. Attached(a, u)
  BY <1>1, <1>4 DEF Attached
<1>8. ~Idle(a, t) /\ (Gone(a, t) => u.state # "open")
  BY <1>2, <1>4 DEF Idle, Gone
<1>9. KeepsRest(a, t, a, u)
  <2> SUFFICES ASSUME u.state = "open", NEW z \in Seq(Idents) PROVE Rest(a, u, z) = Rest(a, t, z)
    BY <1>4 DEF KeepsRest
  <2> HIDE DEF p
  <2>1. u.net = Append(t.net, p) /\ p.to = Head(t.wire).id
    BY <1>4, <1>5 DEF p
  <2> HIDE DEF r
  <2> QED BY <1>1, <1>2, <1>5, <2>1, RestRuns
<1>10. Half(u) = Half(t)
  <2>1. CASE t.state = "open" /\ t.half
    <3> HIDE DEF p
    <3>1. t.net \in Seq(Reply) /\ t.net # <<>> /\ u.net = Append(t.net, p)
      BY <1>1, <1>4, <2>1 DEF CleanTcp, TcpType, p
    <3>2. Head(u.net) = Head(t.net)
      BY <1>5, <3>1
    <3> QED BY <1>4, <2>1, <3>2 DEF Half
  <2>2. CASE ~(t.state = "open" /\ t.half)
    BY <1>4, <2>2 DEF Half
  <2> QED BY <2>1, <2>2
<1>11. Steady(a, t, a, u)
  BY <1>1, <1>7, <1>8, <1>9, <1>10, SteadyHears
<1> QED BY <1>6, <1>11 DEF a, t, u

(* Replies are read.                                                       *)
LEMMA PartsReads ==
    ASSUME NEW box \in Seq(ListenerMessage), NEW abox, NEW d, NEW s, NEW q, Parts(box, abox, d, s, q),
           NEW m \in ListenerMessage, m.type = "Received"
    PROVE  Parts(box \o <<m>>, abox, d \o Names(m.data.replies), s, q)
<1>1. Load(m, "Received") = Names(m.data.replies) /\ Load(m, "Remove") = <<>>
  BY LoadKinds
<1>2. Conveys(box, "Received", d) /\ Conveys(abox, "Request", s) /\ Conveys(box, "Remove", q)
  BY DEF Parts
<1>3. Conveys(box \o <<m>>, "Received", d \o Load(m, "Received"))
      /\ Conveys(box \o <<m>>, "Remove", q \o Load(m, "Remove"))
  BY <1>2, BoxesFit, ConveysTold
<1>4. q \o Load(m, "Remove") = q
  BY <1>1, <1>2, ConcatEmptySeq DEF Conveys
<1> QED BY <1>1, <1>2, <1>3, <1>4 DEF Parts

LEMMA ReadPaired ==
    ASSUME NEW st, NEW box \in Seq(ListenerMessage), NEW rs, NEW rem, NEW a \in IOType,
           NEW t \in TcpType, Paired(st, box, rs, rem, a, t), t.state = "open", t.net # <<>>,
           NEW n \in 0..Len(t.net), NEW splits \in BOOLEAN,
           splits => n < Len(t.net) /\ ~(n = 0 /\ t.half), n > 0 \/ splits,
           NEW m \in ListenerMessage, m.type = "Received", m.data.resumes = t.half,
           m.data.replies = SubSeq(t.net, 1, n),
           m.data.rest = IF splits THEN <<t.net[n + 1]>> ELSE <<>>,
           NEW u \in TcpType, u.state = t.state, u.abort = t.abort, u.wire = t.wire,
           u.writing = t.writing, u.net = SubSeq(t.net, n + 1, Len(t.net)), u.half = splits
    PROVE  Paired(st, box \o <<m>>, rs, rem, a, u)
<1>1. t.net \in Seq(Reply) /\ n \in Nat /\ n <= Len(t.net) /\ Len(t.net) \in Nat
  BY DEF TcpType
<1>2. Attached(a, u) /\ ~Gone(a, t) /\ ~Gone(a, u)
  BY DEF Paired, Attached, Gone
<1>3. \A types : Late(box, types, a, t) /\ "Received" \notin types => Late(box \o <<m>>, types, a, u)
  <2> TAKE types
  <2> HAVE Late(box, types, a, t) /\ "Received" \notin types
  <2>1. Late(box \o <<m>>, types, a, t)
    BY <1>2, LateTold
  <2> QED BY <1>2, <2>1, LateMoves
<1>4. Late(box \o <<m>>, {"Terminated", "Shutdown"}, a, u)
  BY <1>3 DEF Paired
<1>5. st # "connecting"
  BY DEF Paired, Starting, Idle
<1>6. ASSUME Counted(box, rs, a) PROVE Counted(box \o <<m>>, rs, a)
  BY <1>6, PartsReads DEF Counted
<1>7. ASSUME st \in Receiving, Flowing(st, box, rs, rem, a, t)
      PROVE  Flowing(st, box \o <<m>>, rs, rem, a, u)
  <2>1. NoneOf(box \o <<m>>, {"Abort"})
    BY <1>7, NoneOfTold DEF Flowing
  <2>2. Late(box \o <<m>>, {"Remove"}, a, u)
    BY <1>3, <1>7 DEF Flowing
  <2>3. Half(u) = m.data.rest
    <3>1. splits => Head(u.net) = t.net[n + 1]
      BY <1>1
    <3> QED BY <3>1 DEF Half
  <2>4. Joins(Half(t), m.data)
    <3>1. t.half => n > 0
      OBVIOUS
    <3>2. n > 0 => m.data.replies # <<>> /\ Head(m.data.replies) = Head(t.net)
      <4> DEFINE z == t.net
      <4>1. z \in Seq(Reply) /\ n \in Nat /\ n <= Len(z) /\ m.data.replies = SubSeq(z, 1, n)
        BY <1>1
      <4> HIDE DEF z
      <4>2. ASSUME n > 0 PROVE Len(SubSeq(z, 1, n)) = n /\ SubSeq(z, 1, n)[1] = z[1]
        BY <4>1, <4>2
      <4> DEFINE y == SubSeq(z, 1, n)
      <4>3. y \in Seq(Reply) /\ m.data.replies = y /\ (n > 0 => Len(y) = n /\ y[1] = z[1])
        BY <4>1, <4>2
      <4> HIDE DEF y
      <4>4. ASSUME n > 0 PROVE y # <<>> /\ Head(y) = Head(z)
        BY <4>1, <4>3, <4>4
      <4> QED BY <4>3, <4>4 DEF z
    <3>3. t.half => Head(<<Head(t.net)>>) = Head(t.net)
      OBVIOUS
    <3> QED BY <3>1, <3>2, <3>3 DEF Joins, Half
  <2>5. Half(u) \in Seq(Reply)
    <3>1. m.data \in Data
      BY DEF ListenerMessage, Item, ListenerSignals
    <3> QED BY <2>3, <3>1 DEF Data
  <2>6. Chained(box \o <<m>>, rem, Half(u))
    <3>1. Chained(box, rem, Half(t))
      BY <1>7 DEF Flowing
    <3> DEFINE h == Half(t)
               g == Half(u)
    <3>2. Chained(box, rem, h) /\ g \in Seq(Reply) /\ Joins(h, m.data) /\ g = m.data.rest
      BY <2>3, <2>4, <2>5, <3>1
    <3> HIDE DEF g, h
    <3>3. Chained(box \o <<m>>, rem, g)
      BY <3>2, ChainedTold
    <3> QED BY <3>3 DEF g
  <2>7. Flow(box \o <<m>>, rs, a, u)
    <3>1. PICK d, s, q : /\ Parts(box, a.box, d, s, q) /\ q = <<>>
                         /\ Asked(rs) = d \o Rest(a, t, s)
      BY <1>7 DEF Flowing, Flow
    <3> DEFINE x == Names(m.data.replies)
               r == Rest(a, u, s)
    <3>2. d \in Seq(Idents) /\ s \in Seq(Idents)
      BY <3>1, PartsTypes
    <3>3. m.data.replies \in Seq(Reply) /\ Rest(a, t, s) = x \o r
      BY <1>1, <3>2, RestRead, SMTT(30)
    <3>4. x \in Seq(Idents) /\ r \in Seq(Idents) /\ Len(r) >= Len(s)
      BY <3>2, <3>3, NamesType, RestLength
    <3>5. Parts(box \o <<m>>, a.box, d \o x, s, q)
      BY <3>1, PartsReads
    <3> HIDE DEF x, r
    <3>6. Asked(rs) = (d \o x) \o r
      <4>1. Asked(rs) = d \o (x \o r)
        BY <3>1, <3>3
      <4>2. (d \o x) \o r = d \o (x \o r)
        BY <3>2, <3>4, Assoc DEF IdSeqs
      <4> QED BY <4>1, <4>2
    <3>7. Len(s) \in Nat /\ Len(r) \in Nat /\ Len(q) = 0
      BY <3>1, <3>2, <3>4
    <3>8. Len(r) >= Len(s) + Len(q)
      BY <3>4, <3>7
    <3> QED BY <3>1, <3>4, <3>5, <3>6, <3>8 DEF Flow, r
  <2> QED BY <1>7, <2>1, <2>2, <2>6, <2>7 DEF Flowing
<1> QED BY <1>2, <1>4, <1>5, <1>6, <1>7 DEF Paired

-----------------------------------------------------------------------------
(* What the listener does to the pair.                                     *)

LEMMA ToldMany ==
    ASSUME NEW a \in IOType, a.state \in {"connected", "awaitingShutdown"},
           NEW qs \in Seq(Request), NEW b, b = Told(a, IORequests(qs))
    PROVE  /\ b.state = a.state /\ b.requests = a.requests
           /\ b.box = a.box \o IORequests(qs)
           /\ a.box \in Seq(IOMessage) /\ IORequests(qs) \in Seq(IOMessage)
           /\ \A types : NoneOf(a.box, types) /\ "Request" \notin types => NoneOf(b.box, types)
<1>1. b = [a EXCEPT !.box = @ \o IORequests(qs)]
  BY DEF Told
<1>2. b.state = a.state /\ b.requests = a.requests /\ b.box = a.box \o IORequests(qs)
  BY <1>1 DEF IOType
<1>3. a.box \in Seq(IOMessage) /\ IORequests(qs) \in Seq(IOMessage)
  BY IORequestsType DEF IOType
<1>4. ASSUME NEW types, NoneOf(a.box, types), "Request" \notin types PROVE NoneOf(b.box, types)
  <2>1. NoneOf(IORequests(qs), types)
    BY <1>4 DEF NoneOf, IORequests
  <2> QED BY <1>2, <1>3, <1>4, <2>1, NoneOfConcat
<1> QED BY <1>2, <1>3, <1>4

(* Requests are sent: they are the last of what is under way.              *)
LEMMA PartsSends ==
    ASSUME NEW box, NEW abox \in Seq(IOMessage), NEW d, NEW s, NEW q, Parts(box, abox, d, s, q),
           NEW qs \in Seq(Request)
    PROVE  Parts(box, abox \o IORequests(qs), d, s \o Asked(qs), q)
<1>1. IORequests(qs) \in Seq(IOMessage) /\ Conveys(IORequests(qs), "Request", Asked(qs))
  BY IORequestsType, ConveysRequests
<1>2. Conveys(abox, "Request", s)
  BY DEF Parts
<1>3. Conveys(abox \o IORequests(qs), "Request", s \o Asked(qs))
  BY <1>1, <1>2, BoxesFit, ConveysMore
<1> QED BY <1>3 DEF Parts

LEMMA FlowSends ==
    ASSUME NEW box, NEW rs \in Seq(Request), NEW a \in IOType, NEW t \in TcpType, Flow(box, rs, a, t),
           NEW qs \in Seq(Request), NEW b, b.requests = a.requests, b.box = a.box \o IORequests(qs)
    PROVE  Flow(box, rs \o qs, b, t)
<1> DEFINE y == Asked(qs)
<1>1. y \in Seq(Idents) /\ Asked(rs \o qs) = Asked(rs) \o y /\ Len(y) \in Nat
  BY AskedType, AskedConcat
<1>2. PICK d, s, q, r :
         /\ Parts(box, a.box, d, s, q) /\ r \in Seq(Idents)
         /\ Asked(rs) = d \o r /\ Len(r) >= Len(s) + Len(q)
         /\ t.state = "open" => q = <<>> /\ r = Rest(a, t, s)
  BY DEF Flow
<1>3. d \in Seq(Idents) /\ s \in Seq(Idents) /\ Len(s) \in Nat /\ Len(q) \in Nat
  BY <1>2, PartsTypes
<1>4. Parts(box, b.box, d, s \o y, q)
  BY <1>2, PartsSends DEF IOType
<1> HIDE DEF y
<1>5. Asked(rs \o qs) = d \o (r \o y)
  <2>1. (d \o r) \o y = d \o (r \o y)
    BY <1>1, <1>2, <1>3, Assoc DEF IdSeqs
  <2> QED BY <1>1, <1>2, <2>1
<1>6. r \o y \in Seq(Idents) /\ Len(r \o y) >= Len(s \o y) + Len(q)
  BY <1>1, <1>2, <1>3
<1>7. ASSUME t.state = "open" PROVE r \o y = Rest(b, t, s \o y)
  <2>1. Rest(a, t, s \o y) = Rest(a, t, s) \o y
    BY <1>1, <1>3, RestMore
  <2>2. Rest(b, t, s \o y) = Rest(a, t, s \o y)
    BY DEF Rest
  <2> QED BY <1>2, <1>7, <2>1, <2>2
<1> DEFINE s1 == s \o y
           r1 == r \o y
<1>8. /\ Parts(box, b.box, d, s1, q) /\ r1 \in Seq(Idents)
      /\ Asked(rs \o qs) = d \o r1 /\ Len(r1) >= Len(s1) + Len(q)
      /\ t.state = "open" => q = <<>> /\ r1 = Rest(b, t, s1)
  BY <1>2, <1>4, <1>5, <1>6, <1>7
<1> HIDE DEF s1, r1
<1> QED BY <1>8 DEF Flow

LEMMA PairedSends ==
    ASSUME NEW st \in Receiving \ {"shuttingDown"}, NEW box, NEW rs \in Seq(Request), NEW rem,
           NEW a \in IOType, NEW t \in TcpType, Paired(st, box, rs, rem, a, t),
           NEW qs \in Seq(Request), NEW b, b = Told(a, IORequests(qs)), NEW next \in Receiving
    PROVE  Paired(next, box, rs \o qs, rem, b, t)
<1>1. Flowing(st, box, rs, rem, a, t)
  BY DEF Paired
<1>2. a.state \in {"connected", "awaitingShutdown"}
  BY <1>1 DEF Flowing, Ready, Receiving
<1>3. /\ b.state = a.state /\ b.requests = a.requests /\ b.box = a.box \o IORequests(qs)
      /\ \A types : NoneOf(a.box, types) /\ "Request" \notin types => NoneOf(b.box, types)
  BY <1>2, ToldMany
<1>4. Attached(b, t)
  BY <1>3 DEF Paired, Attached
<1>5. \A types : Late(box, types, a, t) => Late(box, types, b, t)
  BY <1>3 DEF Late, Gone
<1>6. Ready(next, b)
  BY <1>1, <1>2, <1>3 DEF Flowing, Ready, Receiving
<1>7. Flow(box, rs \o qs, b, t)
  BY <1>1, <1>3, FlowSends DEF Flowing
<1>8. Flowing(next, box, rs \o qs, rem, b, t)
  BY <1>1, <1>5, <1>6, <1>7 DEF Flowing
<1> QED BY <1>4, <1>5, <1>8 DEF Paired, Receiving

(* The IOActor has connected.                                              *)
LEMMA PairedStarts ==
    ASSUME NEW box \in Seq(ListenerMessage), NEW rs, NEW rem, NEW a \in IOType, NEW t \in TcpType,
           Paired("connecting", box, rs, rem, a, t), HasConnected(a), NEW next \in Receiving
    PROVE  Paired(next, box, rs, rem, a, t)
<1>1. Starting(box, rs, rem, a, t)
  BY DEF Paired
<1>2. /\ rs = <<>> /\ rem = <<>> /\ NoneOf(box, {"Received", "Remove", "Abort"})
      /\ NoneOf(a.box, {"Shutdown", "Request", "ShutdownAck"})
      /\ a.requests = <<>> /\ t.net = <<>> /\ t.wire = <<>> /\ t.writing = <<>> /\ ~t.half
  BY <1>1 DEF Starting, Idle
<1>3. /\ NoneOf(box, {"Received"}) /\ NoneOf(box, {"Remove"}) /\ NoneOf(box, {"Abort"})
      /\ NoneOf(a.box, {"Request"}) /\ NoneOf(a.box, {"Shutdown"}) /\ NoneOf(a.box, {"ShutdownAck"})
  BY <1>2 DEF NoneOf
<1>4. Ready(next, a)
  BY <1>3 DEF Ready, HasConnected
<1>5. Late(box, {"Remove"}, a, t)
  BY <1>3, NoneLate
<1>6. Chained(box, rem, Half(t))
  <2>1. Half(t) = <<>> /\ rem = <<>>
    BY <1>2 DEF Half
  <2>2. Chained(box, <<>>, <<>>)
    <3>1. <<>> \in Seq(Reply)
      OBVIOUS
    <3> QED BY <1>3, <3>1, ChainedNothing
  <2> QED BY <2>1, <2>2
<1>7. Flow(box, rs, a, t)
  <2>1. Parts(box, a.box, <<>>, <<>>, <<>>)
    BY <1>3, PartsNothing DEF IOType
  <2>2. Names(<<>>) = <<>> /\ Asked(<<>>) = <<>>
    BY AskedEmpty DEF Names
  <2>3. Rest(a, t, <<>>) = <<>>
    BY <1>2, <2>2 DEF Rest, Row
  <2>4. Asked(rs) = <<>> \o <<>> /\ <<>> \in Seq(Idents) /\ Len(<<>>) >= Len(<<>>) + Len(<<>>)
    BY <1>2, <2>2
  <2> QED BY <2>1, <2>3, <2>4 DEF Flow
<1>8. Flowing(next, box, rs, rem, a, t)
  BY <1>3, <1>4, <1>5, <1>6, <1>7 DEF Flowing
<1> QED BY <1>8 DEF Paired, Receiving

(* What was read is taken: the replies are those of the oldest requests.   *)
LEMMA PartsTaken ==
    ASSUME NEW box \in Seq(ListenerMessage), NEW abox, NEW d, NEW s, NEW q, Parts(box, abox, d, s, q),
           box # <<>>, Head(box).type = "Received"
    PROVE  \E z \in Seq(Idents) : d = Names(Head(box).data.replies) \o z /\ Parts(Tail(box), abox, z, s, q)
<1>1. Load(Head(box), "Received") = Names(Head(box).data.replies) /\ Load(Head(box), "Remove") = <<>>
  BY LoadKinds
<1>2. Conveys(box, "Received", d) /\ Conveys(abox, "Request", s) /\ Conveys(box, "Remove", q)
  BY DEF Parts
<1>3. PICK z \in Seq(Idents) : d = Names(Head(box).data.replies) \o z /\ Conveys(Tail(box), "Received", z)
  BY <1>1, <1>2, BoxesFit, ConveysTail
<1>4. PICK y \in Seq(Idents) : q = <<>> \o y /\ Conveys(Tail(box), "Remove", y)
  BY <1>1, <1>2, BoxesFit, ConveysTail
<1>5. y = q
  BY <1>4
<1> QED BY <1>2, <1>3, <1>4, <1>5 DEF Parts

LEMMA AfterFirst ==
    ASSUME NEW S, NEW x \in Seq(S), NEW y \in Seq(S), NEW n, n = Len(x), NEW m, m = Len(x \o y)
    PROVE  /\ n \in Nat /\ m \in Nat /\ n <= m
           /\ \A j \in 1..n : (x \o y)[j] = x[j]
           /\ SubSeq(x \o y, n + 1, m) = y
<1>1. n \in Nat /\ Len(y) \in Nat /\ m = n + Len(y) /\ x \o y \in Seq(S)
  OBVIOUS
<1>2. \A j \in 1..n : (x \o y)[j] = x[j]
  BY <1>1
<1> DEFINE z == SubSeq(x \o y, n + 1, m)
<1>3. z \in Seq(S) /\ Len(z) = Len(y)
  BY <1>1, SubSeqProperties
<1>4. \A k \in 1..Len(y) : z[k] = y[k]
  <2> TAKE k \in 1..Len(y)
  <2>1. z[k] = (x \o y)[n + 1 + k - 1]
    BY <1>1
  <2>2. n + 1 + k - 1 = n + k /\ n + k \in 1..m /\ n + k > n /\ (n + k) - n = k
    BY <1>1
  <2>3. (x \o y)[n + k] = y[k]
    BY <1>1, <2>2
  <2> QED BY <2>1, <2>2, <2>3
<1> HIDE DEF z
<1>5. z = y
  BY <1>3, <1>4, SeqEqual
<1> QED BY <1>1, <1>2, <1>5 DEF z

LEMMA FirstNames ==
    ASSUME NEW rs \in Seq(Request), NEW ps \in Seq(Reply), NEW y \in Seq(Idents),
           Asked(rs) = Names(ps) \o y
    PROVE  /\ Len(ps) <= Len(rs)
           /\ \A j \in 1..Len(ps) : ps[j].to = rs[j].id
           /\ SubSeq(rs, Len(ps) + 1, Len(rs)) \in Seq(Request)
           /\ Asked(SubSeq(rs, Len(ps) + 1, Len(rs))) = y
<1>1. /\ Names(ps) \in Seq(Idents) /\ Len(Names(ps)) = Len(ps) /\ Len(ps) \in Nat
      /\ \A k \in 1..Len(ps) : Names(ps)[k] = ps[k].to
  BY NamesType
<1>2. /\ Len(Asked(rs)) = Len(rs) /\ Len(rs) \in Nat
      /\ \A k \in 1..Len(rs) : Asked(rs)[k] = rs[k].id
  <2>1. DOMAIN rs = 1..Len(rs) /\ Len(rs) \in Nat
    OBVIOUS
  <2>2. Len(Asked(rs)) = Len(rs) /\ \A k \in DOMAIN rs : Asked(rs)[k] = rs[k].id
    BY AskedType
  <2> QED BY <2>1, <2>2
<1>3. /\ Len(ps) <= Len(rs)
      /\ \A j \in 1..Len(ps) : Asked(rs)[j] = Names(ps)[j]
      /\ SubSeq(Asked(rs), Len(ps) + 1, Len(rs)) = y
  <2> DEFINE x == Names(ps)
             n == Len(ps)
             m == Len(rs)
  <2>1. x \in Seq(Idents) /\ n = Len(x) /\ m = Len(x \o y) /\ Asked(rs) = x \o y
    BY <1>1, <1>2
  <2> HIDE DEF x, n, m
  <2>2. n <= m /\ (\A j \in 1..n : (x \o y)[j] = x[j]) /\ SubSeq(x \o y, n + 1, m) = y
    BY <2>1, AfterFirst
  <2>3. n <= m /\ (\A j \in 1..n : Asked(rs)[j] = x[j]) /\ SubSeq(Asked(rs), n + 1, m) = y
    BY <2>1, <2>2
  <2> QED BY <2>3 DEF x, n, m
<1>4. \A j \in 1..Len(ps) : ps[j].to = rs[j].id
  <2> TAKE j \in 1..Len(ps)
  <2>1. j \in 1..Len(rs)
    BY <1>1, <1>2, <1>3
  <2> QED BY <1>1, <1>2, <1>3, <2>1
<1>5. SubSeq(rs, Len(ps) + 1, Len(rs)) \in Seq(Request)
      /\ Asked(SubSeq(rs, Len(ps) + 1, Len(rs))) = SubSeq(Asked(rs), Len(ps) + 1, Len(rs))
  <2> DEFINE k == Len(ps) + 1
             m == Len(rs)
  <2>1. k \in Nat \ {0} /\ m \in Nat /\ m <= Len(rs)
    BY <1>1, <1>2
  <2> HIDE DEF k, m
  <2>2. SubSeq(rs, k, m) \in Seq(Request) /\ Asked(SubSeq(rs, k, m)) = SubSeq(Asked(rs), k, m)
    BY <2>1, AskedPart
  <2> QED BY <2>2 DEF k, m
<1> QED BY <1>3, <1>4, <1>5

LEMMA PairedReads ==
    ASSUME NEW st \in Receiving, NEW box \in Seq(ListenerMessage), box # <<>>, NEW rs \in Seq(Request),
           NEW rem, NEW a, NEW t, Paired(st, box, rs, rem, a, t), Head(box).type = "Received",
           NEW ps \in Seq(Reply), ps = Head(box).data.replies
    PROVE  /\ Joins(rem, Head(box).data) /\ Len(ps) <= Len(rs)
           /\ \A j \in 1..Len(ps) : ps[j].to = rs[j].id
           /\ Paired(st, Tail(box), SubSeq(rs, Len(ps) + 1, Len(rs)), Head(box).data.rest, a, t)
<1> DEFINE rs1 == SubSeq(rs, Len(ps) + 1, Len(rs))
<1>1. Flowing(st, box, rs, rem, a, t)
  BY DEF Paired
<1>2. \A types : Late(box, types, a, t) => Late(Tail(box), types, a, t)
  BY LateTail
<1>3. Joins(rem, Head(box).data) /\ Chained(Tail(box), Head(box).data.rest, Half(t))
  BY <1>1, ChainedTail DEF Flowing
<1>4. PICK d, s, q, r :
         /\ Parts(box, a.box, d, s, q) /\ r \in Seq(Idents)
         /\ Asked(rs) = d \o r /\ Len(r) >= Len(s) + Len(q)
         /\ t.state = "open" => q = <<>> /\ r = Rest(a, t, s)
  BY <1>1 DEF Flowing, Flow
<1>5. PICK z \in Seq(Idents) : d = Names(ps) \o z /\ Parts(Tail(box), a.box, z, s, q)
  BY <1>4, PartsTaken
<1>6. Asked(rs) = Names(ps) \o (z \o r) /\ z \o r \in Seq(Idents)
  <2> DEFINE x == Names(ps)
  <2>1. x \in Seq(Idents)
    BY NamesType
  <2> HIDE DEF x
  <2>2. (x \o z) \o r = x \o (z \o r)
    BY <1>4, <1>5, <2>1, Assoc DEF IdSeqs
  <2>3. z \o r \in Seq(Idents)
    BY <1>4, <1>5, Closed DEF IdSeqs
  <2> QED BY <1>4, <1>5, <2>2, <2>3 DEF x
<1>7. /\ Len(ps) <= Len(rs) /\ \A j \in 1..Len(ps) : ps[j].to = rs[j].id
      /\ Asked(rs1) = z \o r
  BY <1>6, FirstNames
<1> HIDE DEF rs1
<1>8. Flow(Tail(box), rs1, a, t)
  BY <1>4, <1>5, <1>7 DEF Flow
<1>9. NoneOf(Tail(box), {"Abort"})
  BY <1>1, NoneOfTail DEF Flowing
<1>10. Flowing(st, Tail(box), rs1, Head(box).data.rest, a, t)
  BY <1>1, <1>2, <1>3, <1>8, <1>9 DEF Flowing
<1>11. Paired(st, Tail(box), rs1, Head(box).data.rest, a, t)
  BY <1>2, <1>10 DEF Paired, Receiving
<1> QED BY <1>3, <1>7, <1>11 DEF rs1

(* However it is counted, what is handed over and rejected is unanswered.  *)
LEMMA PairedCounted ==
    ASSUME NEW st \in Receiving \cup {"connecting", "reconnecting"}, NEW box \in Seq(ListenerMessage),
           NEW rs \in Seq(Request), NEW rem, NEW a \in IOType, NEW t, Paired(st, box, rs, rem, a, t)
    PROVE  Counted(box, rs, a)
<1>1. CASE st = "reconnecting"
  BY <1>1 DEF Paired
<1>2. CASE st = "connecting"
  <2>1. NoneOf(box, {"Received"}) /\ NoneOf(box, {"Remove"}) /\ NoneOf(a.box, {"Request"}) /\ rs = <<>>
    BY <1>2 DEF Paired, Starting, Idle, NoneOf
  <2>2. Parts(box, a.box, <<>>, <<>>, <<>>)
    BY <2>1, PartsNothing DEF IOType
  <2>3. Len(rs) >= Len(<<>>) + Len(<<>>)
    BY <2>1
  <2> QED BY <2>2, <2>3 DEF Counted
<1>3. CASE st \in Receiving
  <2>1. PICK d, s, q, r :
         /\ Parts(box, a.box, d, s, q) /\ r \in Seq(Idents)
         /\ Asked(rs) = d \o r /\ Len(r) >= Len(s) + Len(q)
    BY <1>3 DEF Paired, Flowing, Flow
  <2>2. d \in Seq(Idents) /\ Len(d) \in Nat /\ Len(s) \in Nat /\ Len(q) \in Nat
    BY <2>1, PartsTypes
  <2>3. Len(Asked(rs)) = Len(rs)
    BY AskedType
  <2>4. Len(d \o r) = Len(d) + Len(r) /\ Len(r) \in Nat
    BY <2>1, <2>2
  <2>5. Len(rs) >= Len(s) + Len(q)
    BY <2>1, <2>2, <2>3, <2>4
  <2> QED BY <2>1, <2>5 DEF Counted
<1> QED BY <1>1, <1>2, <1>3

(* The IOActor is told to abort, or that it may end.                       *)
LEMMA HearsSame ==
    ASSUME NEW a \in IOType, NEW s, NEW b, Hears(a, b, s), s # "Request"
    PROVE  SameWait(a.box, b.box) /\ b.requests = a.requests /\ b.state = a.state
<1>1. a.box \in Seq(IOMessage)
  BY DEF IOType
<1>2. ASSUME b.box = a.box PROVE SameWait(a.box, b.box)
  BY <1>2 DEF SameWait
<1>3. ASSUME NEW m \in IOMessage, b.box = a.box \o <<m>>, m.type = s PROVE SameWait(a.box, b.box)
  BY <1>1, <1>3, SameTold
<1> QED BY <1>2, <1>3 DEF Hears

LEMMA AttachedHears ==
    ASSUME NEW a \in IOType, NEW t, NEW s, s # "Terminated", NEW b, Hears(a, b, s), Attached(a, t)
    PROVE  Attached(b, t)
<1>1. b.state = a.state
  BY DEF Hears
<1>2. ASSUME NoneOf(a.box, {"Terminated"}) PROVE NoneOf(b.box, {"Terminated"})
  BY <1>2, HeardNone
<1> QED BY <1>1, <1>2 DEF Attached

LEMMA PairedEnds ==
    ASSUME NEW st \in Receiving \cup {"connecting", "reconnecting"}, NEW box \in Seq(ListenerMessage),
           NEW rs \in Seq(Request), NEW rem, NEW a \in IOType, NEW t, Paired(st, box, rs, rem, a, t),
           NEW s \in {"Shutdown", "ShutdownAck", "AbortAck"}, NEW b, b = Told(a, <<Signal(s)>>)
    PROVE  Paired("reconnecting", box, rs, <<>>, b, t)
<1>1. Hears(a, b, s)
  BY ToldHears DEF IOSignals
<1>2. SameWait(a.box, b.box) /\ b.state = a.state /\ Attached(b, t)
  BY <1>1, HearsSame, AttachedHears DEF Paired
<1>3. Counted(box, rs, a) /\ Shrinks(a, b)
  BY <1>2, PairedCounted, SameShrinks
<1>4. Counted(box, rs, b)
  BY <1>3, CountedShrinks
<1>5. Late(box, {"Terminated", "Shutdown"}, b, t)
  BY <1>2 DEF Paired, Late, Gone
<1> QED BY <1>2, <1>4, <1>5 DEF Paired, Receiving

(* While the listener shuts down the IOActor may just end.                 *)
LEMMA PairedAcknowledged ==
    ASSUME NEW box, NEW rs, NEW rem, NEW a \in IOType, NEW t,
           Paired("shuttingDown", box, rs, rem, a, t), NEW b, b = Told(a, <<Signal("ShutdownAck")>>)
    PROVE  Paired("shuttingDown", box, rs, rem, b, t)
<1>1. Hears(a, b, "ShutdownAck")
  BY ToldHears DEF IOSignals
<1>2. SameWait(a.box, b.box) /\ b.state = a.state /\ b.requests = a.requests /\ Attached(b, t)
  BY <1>1, HearsSame, AttachedHears DEF Paired
<1>3. Flowing("shuttingDown", box, rs, rem, a, t)
  BY DEF Paired, Receiving
<1>4. NoneOf(b.box, {"Shutdown"})
  BY <1>1, <1>3, HeardNone DEF Flowing, Ready
<1>5. Ready("shuttingDown", b)
  BY <1>2, <1>3, <1>4 DEF Flowing, Ready
<1>6. Goes(a, t, b, t)
  BY <1>2, SameGoes DEF KeepsRest, Rest
<1>7. Flow(box, rs, b, t)
  BY <1>3, <1>6, FlowGoes DEF Flowing
<1>8. \A types : Late(box, types, a, t) => Late(box, types, b, t)
  BY <1>2 DEF Late, Gone
<1>9. Flowing("shuttingDown", box, rs, rem, b, t)
  BY <1>3, <1>5, <1>7, <1>8 DEF Flowing
<1> QED BY <1>2, <1>8, <1>9 DEF Paired

(* A request the IOActor rejected is removed: there is one.                *)
LEMMA PartsRemoves ==
    ASSUME NEW box \in Seq(ListenerMessage), NEW abox, NEW d, NEW s, NEW q, Parts(box, abox, d, s, q),
           box # <<>>, Head(box).type = "Remove"
    PROVE  \E z \in Seq(Idents) : Parts(Tail(box), abox, d, s, z) /\ Len(q) = Len(z) + 1
<1>1. Load(Head(box), "Remove") = <<Internal>> /\ Load(Head(box), "Received") = <<>>
  BY LoadKinds
<1>2. Conveys(box, "Received", d) /\ Conveys(abox, "Request", s) /\ Conveys(box, "Remove", q)
  BY DEF Parts
<1>3. PICK z \in Seq(Idents) : q = <<Internal>> \o z /\ Conveys(Tail(box), "Remove", z)
  BY <1>1, <1>2, BoxesFit, ConveysTail
<1>4. PICK y \in Seq(Idents) : d = <<>> \o y /\ Conveys(Tail(box), "Received", y)
  BY <1>1, <1>2, BoxesFit, ConveysTail
<1>5. y = d /\ Len(q) = Len(z) + 1
  BY <1>3, <1>4
<1> QED BY <1>2, <1>3, <1>4, <1>5 DEF Parts

LEMMA PairedRemoves ==
    ASSUME NEW st \in Receiving \cup {"connecting", "reconnecting"}, NEW box \in Seq(ListenerMessage),
           NEW rs \in Seq(Request), NEW rem, NEW a \in IOType, NEW t, Paired(st, box, rs, rem, a, t),
           box # <<>>, Head(box).type = "Remove"
    PROVE  rs # <<>> /\ Paired(st, Tail(box), Tail(rs), rem, a, t)
<1>1. Tail(box) \in Seq(ListenerMessage)
      /\ \A types : Late(box, types, a, t) => Late(Tail(box), types, a, t)
  BY LateTail
<1>2. st # "connecting"
  BY NoneOfHead DEF Paired, Starting, NoneOf
<1>3. rs # <<>> /\ Tail(rs) \in Seq(Request) /\ Len(rs) = Len(Tail(rs)) + 1 /\ Len(Tail(rs)) \in Nat
  <2>1. PICK d, s, q : Parts(box, a.box, d, s, q) /\ Len(rs) >= Len(s) + Len(q)
    BY PairedCounted DEF Counted
  <2>2. PICK z \in Seq(Idents) : Len(q) = Len(z) + 1
    BY <2>1, PartsRemoves
  <2>3. Len(s) \in Nat /\ Len(z) \in Nat /\ Len(rs) \in Nat
    BY <2>1, PartsTypes
  <2>4. rs # <<>>
    BY <2>1, <2>2, <2>3
  <2> QED BY <2>4, HeadAndTail
<1>4. ASSUME st = "reconnecting" PROVE Counted(Tail(box), Tail(rs), a)
  <2>1. PICK d, s, q : Parts(box, a.box, d, s, q) /\ Len(rs) >= Len(s) + Len(q)
    BY PairedCounted DEF Counted
  <2>2. PICK z \in Seq(Idents) : Parts(Tail(box), a.box, d, s, z) /\ Len(q) = Len(z) + 1
    BY <2>1, PartsRemoves
  <2>3. Len(s) \in Nat /\ Len(z) \in Nat
    BY <2>1, <2>2, PartsTypes
  <2>4. Len(Tail(rs)) >= Len(s) + Len(z)
    BY <1>3, <2>1, <2>2, <2>3
  <2> QED BY <2>2, <2>4 DEF Counted
<1>5. ASSUME st \in Receiving PROVE Flowing(st, Tail(box), Tail(rs), rem, a, t)
  <2>1. Flowing(st, box, rs, rem, a, t)
    BY <1>5 DEF Paired
  <2>2. Gone(a, t) /\ NoneOf(Tail(box), {"Received"})
    BY <2>1, LateTail DEF Flowing
  <2>3. PICK d, s, q, r :
         /\ Parts(box, a.box, d, s, q) /\ r \in Seq(Idents)
         /\ Asked(rs) = d \o r /\ Len(r) >= Len(s) + Len(q)
    BY <2>1 DEF Flowing, Flow
  <2>4. PICK z \in Seq(Idents) : Parts(Tail(box), a.box, d, s, z) /\ Len(q) = Len(z) + 1
    BY <2>3, PartsRemoves
  <2>5. d = <<>>
    <3>1. Conveys(Tail(box), "Received", d)
      BY <2>4 DEF Parts
    <3> QED BY <1>1, <2>2, <3>1, BoxesFit, ConveysNothing
  <2>6. Len(s) \in Nat /\ Len(z) \in Nat /\ Len(r) \in Nat
    BY <2>3, <2>4, PartsTypes
  <2>7. Asked(rs) = r /\ Asked(Tail(rs)) = Tail(r) /\ r # <<>>
    <3>1. Asked(rs) = r
      BY <2>3, <2>5
    <3> QED BY <1>3, <3>1, AskedTail
  <2>8. Tail(r) \in Seq(Idents) /\ Len(Tail(r)) >= Len(s) + Len(z)
    BY <2>3, <2>4, <2>6, <2>7
  <2>9. Asked(Tail(rs)) = <<>> \o Tail(r)
    BY <2>7, <2>8
  <2>10. Flow(Tail(box), Tail(rs), a, t)
    BY <2>2, <2>4, <2>5, <2>8, <2>9 DEF Flow, Gone
  <2>11. Chained(Tail(box), rem, Half(t))
    BY <2>1, ChainedTail DEF Flowing
  <2>12. NoneOf(Tail(box), {"Abort"})
    BY <2>1, NoneOfTail DEF Flowing
  <2> QED BY <1>1, <2>1, <2>10, <2>11, <2>12 DEF Flowing
<1> QED BY <1>1, <1>2, <1>3, <1>4, <1>5 DEF Paired

(* The IOActor has reported the end of its connection: nothing is left of  *)
(* a reply.                                                                *)
LEMMA NothingRemains ==
    ASSUME NEW st \in Receiving \cup {"connecting", "reconnecting"}, NEW box \in Seq(ListenerMessage),
           NEW rs, NEW rem, NEW a, NEW t, Paired(st, box, rs, rem, a, t),
           box # <<>>, Head(box).type \in {"Shutdown", "Terminated"}
    PROVE  rem = <<>>
<1>1. CASE st \in {"connecting", "reconnecting"}
  BY <1>1 DEF Paired, Starting
<1>2. CASE st \in Receiving
  <2>1. Late(box, {"Terminated", "Shutdown"}, a, t) /\ Chained(box, rem, Half(t))
    BY <1>2 DEF Paired, Flowing
  <2>2. Gone(a, t) /\ NoneOf(Tail(box), {"Received"}) /\ Tail(box) \in Seq(ListenerMessage)
    BY <2>1, LateTail
  <2>3. Half(t) = <<>>
    BY <2>2 DEF Half, Gone
  <2>4. Chained(Tail(box), rem, <<>>)
    BY <2>1, <2>3, ChainedTail
  <2> QED BY <2>2, <2>4, ChainedSame
<1> QED BY <1>1, <1>2

(* A new IOActor.                                                          *)
LEMMA NewPaired ==
    ASSUME NEW box, NoneOf(box, EndTypes), NoneOf(box, {"Received"})
    PROVE  Paired("connecting", box, <<>>, <<>>, NewIOActor, Fresh)
<1>1. /\ NewIOActor.state = "connecting" /\ NewIOActor.box = <<>> /\ NewIOActor.requests = <<>>
      /\ Fresh.state = "none" /\ ~Fresh.abort /\ Fresh.net = <<>> /\ Fresh.wire = <<>>
      /\ Fresh.writing = <<>> /\ ~Fresh.half
  BY DEF NewIOActor, NoIOActor, Fresh
<1>2. Attached(NewIOActor, Fresh) /\ Idle(NewIOActor, Fresh)
  BY <1>1, NoneOfNothing DEF Attached, Idle
<1>3. Starting(box, <<>>, <<>>, NewIOActor, Fresh)
  BY <1>2 DEF Starting, NoneOf, EndTypes
<1>4. Late(box, {"Terminated", "Shutdown"}, NewIOActor, Fresh)
  BY DEF Late, NoneOf, EndTypes
<1> QED BY <1>2, <1>3, <1>4 DEF Paired, Receiving

-----------------------------------------------------------------------------
(* The invariant.                                                          *)

(* The listener has a connection, or is about to have one.                 *)
Live == ~shutBefore /\ lstate \notin Down

(* The connections before the one of the listener are closed, those after  *)
(* it do not exist yet.                                                    *)
Past ==
    \A c \in Connections : /\ c < epoch => tcp[c].state # "open"
                           /\ c > epoch => tcp[c] = Fresh
Current == Past /\ Paired(lstate, lbox, requests, remaining, io[epoch], tcp[epoch])

(* Otherwise nobody has a request to reject.                               *)
NoRequests == NoneOf(lbox, {"Remove"}) /\ \A c \in Connections : NoneOf(io[c].box, {"Request"})

PairInv == (Live => Current) /\ (~Live => NoRequests)

-----------------------------------------------------------------------------
(* The steps of the listener.                                              *)

(* What these lemmas need of the types.                                    *)
PairTypes ==
    /\ lbox \in Seq(ListenerMessage) /\ epoch \in Connections
    /\ io \in [Connections -> IOType] /\ tcp \in [Connections -> TcpType]
    /\ requests \in Seq(Request) /\ queued \in Seq(Request) /\ settings \in SettingsType
    /\ remaining \in Seq(Reply)

Alive == Receiving \cup {"connecting", "reconnecting"}

LEMMA PairTyped ==
    ASSUME TypeInv
    PROVE  PairTypes /\ (Live => lstate \in Alive)
BY DEF TypeInv, TypeOK, LTypeOK, TcpTypeOK, PairTypes, Live, Alive, Receiving, Down

LEMMA CurrentStays ==
    ASSUME Current, UNCHANGED <<tcp, epoch>>,
           Paired(lstate', lbox', requests', remaining', io'[epoch], tcp[epoch])
    PROVE  Current'
BY DEF Current, Past

(* It takes something and does nothing with its connection.                *)
LEMMA ListenerTakes ==
    ASSUME PairTypes, Current, UNCHANGED <<tcp, epoch, io, lstate, requests, remaining>>,
           lbox # <<>>, Consume, Head(lbox).type # "Remove",
           Head(lbox).type = "Received" => lstate \notin Receiving
    PROVE  Current'
<1>1. Paired(lstate, Tail(lbox), requests, remaining, io[epoch], tcp[epoch])
  BY PairedTail DEF PairTypes, Current
<1> QED BY <1>1, CurrentStays DEF Consume

(* It sends requests.                                                      *)
LEMMA ListenerSends ==
    ASSUME PairTypes, Current, UNCHANGED <<tcp, epoch>>,
           NEW st \in Receiving \ {"shuttingDown"}, NEW box, NEW rs \in Seq(Request),
           Paired(st, box, rs, remaining', io[epoch], tcp[epoch]), lbox' = box,
           NEW qs \in Seq(Request), NEW q, NEW set, Send(qs, rs, q, set), lstate' \in Receiving
    PROVE  Current'
<1>1. io'[epoch] = Told(io[epoch], IORequests(qs)) /\ requests' = rs \o qs
  BY DEF Send, PairTypes
<1>2. io[epoch] \in IOType /\ tcp[epoch] \in TcpType
  BY DEF PairTypes
<1> DEFINE a == io[epoch]
           b == io'[epoch]
           t == tcp[epoch]
           rem == remaining'
           next == lstate'
<1>3. a \in IOType /\ t \in TcpType /\ b = Told(a, IORequests(qs)) /\ next \in Receiving
      /\ Paired(st, box, rs, rem, a, t)
  BY <1>1, <1>2
<1> HIDE DEF a, b, t, rem, next
<1>4. Paired(next, box, rs \o qs, rem, b, t)
  BY <1>3, PairedSends
<1>5. Paired(next, lbox', requests', rem, b, t)
  BY <1>1, <1>4
<1> QED BY <1>5, CurrentStays DEF a, b, t, rem, next

LEMMA SendItemPaired ==
    ASSUME PairTypes, CleanInv, Current, SendItem, UNCHANGED tcp
    PROVE  Current'
<1> DEFINE members == SubSeq(Handed, 2, Len(Handed) - 1)
           sent1 == IF Len(Handed) = 1 THEN Handed
                    ELSE <<Handed[1]>> \o UpToQuit(members) \o <<Handed[Len(Handed)]>>
<1>1. /\ lstate = "initialized" /\ IsItem /\ Consume /\ Send(sent1, requests, queued, timerSet)
      /\ lstate' = BehaviourAfterSending(sent1) /\ UNCHANGED <<remaining, epoch>>
  BY DEF SendItem, connecting
<1>2. lbox # <<>> /\ Head(lbox).type \in {"Request", "Transaction"}
  BY <1>1 DEF IsItem, Receives
<1>3. sent1 \in Seq(Request)
  <2>1. Handed \in Seq(Encodable) /\ Len(Handed) >= 1
    BY <1>1, <1>2, CleanFirst DEF CleanInv
  <2>2. sent1 \in Seq(Encodable)
    BY <2>1, CleanItem
  <2> HIDE DEF sent1
  <2> QED BY <2>2, CleanTypes
<1> HIDE DEF sent1
<1>4. Paired(lstate, Tail(lbox), requests, remaining, io[epoch], tcp[epoch])
  BY <1>2, PairedTail DEF PairTypes, Current
<1>5. lstate \in Receiving \ {"shuttingDown"} /\ lstate' \in Receiving /\ requests \in Seq(Request)
      /\ lbox' = Tail(lbox)
  BY <1>1 DEF Receiving, BehaviourAfterSending, PairTypes, Consume
<1>6. Paired(lstate, Tail(lbox), requests, remaining', io[epoch], tcp[epoch])
  BY <1>1, <1>4
<1> QED BY <1>1, <1>3, <1>5, <1>6, ListenerSends

LEMMA OnConnectedPaired ==
    ASSUME PairTypes, Current, OnConnected, UNCHANGED tcp
    PROVE  Current'
<1> DEFINE initial == InitRequests(settings)
<1>1. /\ lstate = "connecting" /\ Receives("Connected") /\ Consume
      /\ IF initial # <<>>
         THEN Send(initial, requests, queued, timerSet) /\ lstate' = "initializing"
         ELSE SendAllQueued(requests, timerSet)
      /\ UNCHANGED <<remaining, epoch>>
  BY DEF OnConnected
<1>2. initial \in Seq(Request)
  BY InitRequestsType DEF PairTypes
<1> HIDE DEF initial
<1>3. lbox # <<>> /\ Head(lbox).type = "Connected" /\ lbox' = Tail(lbox)
  BY <1>1 DEF Receives, Consume
<1>4. HasConnected(io[epoch])
  <2>1. Starting(lbox, requests, remaining, io[epoch], tcp[epoch])
    BY <1>1 DEF Current, Paired
  <2>2. ~NoneOf(lbox, {"Connected"})
    BY <1>3, NoneOfHead DEF PairTypes
  <2> QED BY <2>1, <2>2 DEF Starting
<1>5. Paired("connecting", Tail(lbox), requests, remaining, io[epoch], tcp[epoch])
      /\ Tail(lbox) \in Seq(ListenerMessage)
  BY <1>1, <1>3, PairedTail DEF PairTypes, Current, Receiving
<1>6. Paired("initialized", Tail(lbox), requests, remaining, io[epoch], tcp[epoch])
  <2> DEFINE a == io[epoch]
             t == tcp[epoch]
             box == Tail(lbox)
  <2>1. a \in IOType /\ t \in TcpType /\ box \in Seq(ListenerMessage) /\ HasConnected(a)
        /\ Paired("connecting", box, requests, remaining, a, t)
    BY <1>4, <1>5 DEF PairTypes
  <2> HIDE DEF a, t, box
  <2>2. Paired("initialized", box, requests, remaining, a, t)
    BY <2>1, PairedStarts DEF Receiving
  <2> QED BY <2>2 DEF a, t, box
<1>7. Paired("initialized", Tail(lbox), requests, remaining', io[epoch], tcp[epoch])
      /\ requests \in Seq(Request) /\ queued \in Seq(Request)
      /\ "initialized" \in Receiving \ {"shuttingDown"}
  BY <1>1, <1>6 DEF PairTypes, Receiving
<1>8. CASE initial # <<>>
  <2>1. Send(initial, requests, queued, timerSet) /\ lstate' \in Receiving
    BY <1>1, <1>8 DEF Receiving
  <2> QED BY <1>1, <1>2, <1>3, <1>7, <2>1, ListenerSends
<1>9. CASE initial = <<>>
  <2>1. Send(queued, requests, <<>>, timerSet) /\ lstate' \in Receiving
    BY <1>1, <1>9 DEF Receiving, SendAllQueued
  <2> QED BY <1>1, <1>3, <1>7, <2>1, ListenerSends
<1> QED BY <1>8, <1>9

(* Data that complete what remains are parsed as they were sent.           *)
LEMMA ParsedAsSent ==
    ASSUME PairTypes, NEW data \in Data, Joins(remaining, data), Len(data.replies) <= Len(requests)
    PROVE  /\ Parsed(data) = data.replies
           /\ Unanswered(data) = SubSeq(requests, Len(data.replies) + 1, Len(requests))
           /\ ReceiveData(data) => remaining' = data.rest
<1>1. data.replies \in Seq(Reply) /\ Len(data.replies) \in Nat /\ Len(requests) \in Nat
  BY DEF Data, PairTypes
<1>2. Parsed(data) = data.replies
  <2>1. CASE remaining = <<>> \/ data.replies = <<>>
    BY <2>1 DEF Parsed
  <2>2. CASE remaining # <<>> /\ data.replies # <<>>
    <3>1. data.resumes /\ Head(data.replies) = Head(remaining)
      BY <2>2 DEF Joins
    <3>2. Parsed(data) = <<Head(data.replies)>> \o Tail(data.replies)
      BY <2>2, <3>1 DEF Parsed
    <3> QED BY <1>1, <2>2, <3>2, HeadAndTail
  <2> QED BY <2>1, <2>2
<1>3. Unanswered(data) = SubSeq(requests, Len(data.replies) + 1, Len(requests))
  <2> DEFINE n == Len(data.replies)
             m == Len(requests)
  <2>1. n \in Nat /\ m \in Nat /\ n <= m /\ Len(Parsed(data)) = n
    BY <1>1, <1>2
  <2>2. Unanswered(data) = IF n > m THEN <<>> ELSE SubSeq(requests, n + 1, m)
    BY <1>2 DEF Unanswered
  <2> HIDE DEF n, m
  <2>3. Unanswered(data) = SubSeq(requests, n + 1, m)
    BY <2>1, <2>2
  <2> QED BY <2>3 DEF n, m
<1>4. ASSUME ReceiveData(data) PROVE remaining' = data.rest
  BY <1>2, <1>4 DEF ReceiveData, Joins
<1> QED BY <1>2, <1>3, <1>4

(* A read of the connection the listener has.                              *)
LEMMA ListenerReads ==
    ASSUME PairTypes, Current, lstate \in Receiving, Receives("Received"), NEW data, data = Head(lbox).data
    PROVE  /\ data \in Data /\ Parsed(data) = data.replies /\ Len(data.replies) <= Len(requests)
           /\ \A j \in 1..Len(data.replies) : data.replies[j].to = requests[j].id
           /\ Unanswered(data) \in Seq(Request)
           /\ ReceiveData(data) =>
                Paired(lstate, Tail(lbox), Unanswered(data), remaining', io[epoch], tcp[epoch])
<1>1. lbox # <<>> /\ Head(lbox).type = "Received"
  BY DEF Receives
<1>2. data \in Data
  BY ReceivedType DEF PairTypes
<1> DEFINE ps == data.replies
           a == io[epoch]
           t == tcp[epoch]
<1>3. ps \in Seq(Reply) /\ ps = Head(lbox).data.replies /\ lbox \in Seq(ListenerMessage)
      /\ requests \in Seq(Request) /\ Paired(lstate, lbox, requests, remaining, a, t)
  BY <1>2 DEF PairTypes, Data, Current
<1> HIDE DEF ps, a, t
<1>4. /\ Joins(remaining, Head(lbox).data) /\ Len(ps) <= Len(requests)
      /\ \A j \in 1..Len(ps) : ps[j].to = requests[j].id
      /\ Paired(lstate, Tail(lbox), SubSeq(requests, Len(ps) + 1, Len(requests)), Head(lbox).data.rest, a, t)
  BY <1>1, <1>3, PairedReads
<1>5. /\ Parsed(data) = data.replies
      /\ Unanswered(data) = SubSeq(requests, Len(data.replies) + 1, Len(requests))
      /\ ReceiveData(data) => remaining' = data.rest
  BY <1>2, <1>4, ParsedAsSent DEF ps
<1>6. Unanswered(data) \in Seq(Request)
  <2>1. Len(ps) \in Nat /\ Len(requests) \in Nat
    BY <1>3
  <2> DEFINE n == Len(ps)
  <2>2. n \in Nat /\ n <= Len(requests)
    BY <1>4, <2>1
  <2> HIDE DEF n
  <2>3. SubSeq(requests, n + 1, Len(requests)) \in Seq(Request)
    BY <1>3, <2>2, CutInTwo
  <2> QED BY <1>5, <2>3 DEF ps, n
<1> QED BY <1>2, <1>4, <1>5, <1>6 DEF ps, a, t

LEMMA ReceivePaired ==
    ASSUME PairTypes, Current, Receive, UNCHANGED tcp
    PROVE  Current'
<1> DEFINE data == Head(lbox).data
<1>1. /\ lstate \in Receiving /\ Receives("Received") /\ Consume /\ ReceiveData(data)
      /\ requests' = Unanswered(data) /\ UNCHANGED <<io, lstate, epoch>>
  BY DEF Receive, Receiving, connecting
<1> HIDE DEF data
<1>2. Paired(lstate, Tail(lbox), Unanswered(data), remaining', io[epoch], tcp[epoch])
  BY <1>1, ListenerReads DEF data
<1> QED BY <1>1, <1>2, CurrentStays DEF Consume

LEMMA ReceiveInitializingPaired ==
    ASSUME PairTypes, Current, ReceiveInitializing, UNCHANGED tcp
    PROVE  Current'
<1> DEFINE data == Head(lbox).data
<1>1. /\ lstate = "initializing" /\ Receives("Received") /\ Consume /\ ReceiveData(data)
      /\ UNCHANGED epoch
  BY DEF ReceiveInitializing, connecting
<1>s. SendAllQueued(Unanswered(data), FALSE)
        \/ (requests' = Unanswered(data) /\ UNCHANGED <<io, lstate>>)
  BY DEF ReceiveInitializing
<1>2. lstate \in Receiving \ {"shuttingDown"} /\ queued \in Seq(Request)
  BY <1>1 DEF Receiving, PairTypes
<1> HIDE DEF data
<1>3. Paired(lstate, Tail(lbox), Unanswered(data), remaining', io[epoch], tcp[epoch])
      /\ Unanswered(data) \in Seq(Request)
  BY <1>1, <1>2, ListenerReads DEF data
<1>4. CASE SendAllQueued(Unanswered(data), FALSE)
  <2>1. Send(queued, Unanswered(data), <<>>, FALSE) /\ lstate' \in Receiving
    BY <1>4 DEF SendAllQueued, Receiving
  <2>2. lbox' = Tail(lbox)
    BY <1>1 DEF Consume
  <2> QED BY <1>1, <1>2, <1>3, <2>1, <2>2, ListenerSends
<1>5. CASE requests' = Unanswered(data) /\ UNCHANGED <<io, lstate>>
  BY <1>1, <1>3, <1>5, CurrentStays DEF Consume
<1> QED BY <1>s, <1>4, <1>5 DEF data

LEMMA TimeoutPaired ==
    ASSUME PairTypes, Current, HandleReceiveTimeout, UNCHANGED tcp
    PROVE  Current'
<1>1. /\ lstate \in Receiving /\ lbox # <<>> /\ Head(lbox).type = "ReceiveTimeout"
      /\ lbox' = Tail(lbox) /\ remaining' = <<>> /\ lstate' = "reconnecting"
      /\ io' = [io EXCEPT ![epoch] = Told(@, <<Signal("Shutdown")>>)]
      /\ UNCHANGED <<epoch, requests>>
  BY DEF HandleReceiveTimeout, Receiving, Receives, Consume, connecting
<1>2. Paired(lstate, Tail(lbox), requests, remaining, io[epoch], tcp[epoch])
      /\ Tail(lbox) \in Seq(ListenerMessage)
  BY <1>1, PairedTail, SMTT(30) DEF PairTypes, Current
<1> DEFINE a == io[epoch]
           b == io'[epoch]
           t == tcp[epoch]
           box == Tail(lbox)
<1>a. a \in IOType /\ b = Told(a, <<Signal("Shutdown")>>)
  BY <1>1 DEF PairTypes
<1>3. a \in IOType /\ b = Told(a, <<Signal("Shutdown")>>) /\ box \in Seq(ListenerMessage)
      /\ requests \in Seq(Request) /\ lstate \in Alive /\ Paired(lstate, box, requests, remaining, a, t)
  <2> HIDE DEF a, b
  <2> QED BY <1>1, <1>2, <1>a DEF PairTypes, Alive, a
<1> HIDE DEF a, b, t, box
<1>4. Paired("reconnecting", box, requests, <<>>, b, t)
  BY <1>3, PairedEnds DEF Alive
<1>5. Paired(lstate', lbox', requests', remaining', b, t)
  BY <1>1, <1>4 DEF box
<1> QED BY <1>1, <1>5, CurrentStays DEF b, t

LEMMA AcknowledgePaired ==
    ASSUME PairTypes, Live, Current, OnAbort \/ OnShutdown, UNCHANGED tcp,
           lstate \in Alive
    PROVE  Current'
<1>1. PICK s \in {"Abort", "Shutdown"}, ack \in {"AbortAck", "ShutdownAck"} :
        /\ lbox # <<>> /\ Head(lbox).type = s /\ lbox' = Tail(lbox)
        /\ io' = [io EXCEPT ![epoch] = Told(@, <<Signal(ack)>>)]
        /\ lstate' = BehaviourAfter(s) /\ (s = "Shutdown" => ack = "ShutdownAck")
        /\ UNCHANGED <<remaining, epoch, requests>>
  <2>1. CASE OnAbort
    BY <2>1 DEF OnAbort, Acknowledge, Receives, Consume, connecting, sending
  <2>2. CASE OnShutdown
    BY <2>2 DEF OnShutdown, Acknowledge, Receives, Consume, connecting, sending
  <2> QED BY <2>1, <2>2
<1>2. Paired(lstate, Tail(lbox), requests, remaining, io[epoch], tcp[epoch])
      /\ Tail(lbox) \in Seq(ListenerMessage)
  <2>1. lbox # <<>> /\ Head(lbox).type # "Remove" /\ Head(lbox).type # "Received"
    BY <1>1
  <2>2. Tail(lbox) \in Seq(ListenerMessage)
    BY <2>1 DEF PairTypes
  <2>3. Paired(lstate, Tail(lbox), requests, remaining, io[epoch], tcp[epoch])
    BY <2>1, PairedTail DEF PairTypes, Current
  <2> QED BY <2>2, <2>3
<1>3. remaining = <<>>
  <2>1. CASE s = "Shutdown"
    BY <1>1, <2>1, NothingRemains DEF Alive, PairTypes, Current
  <2>2. CASE s = "Abort"
    <3>1. ~NoneOf(lbox, {"Abort"})
      BY <1>1, <2>2, NoneOfHead DEF PairTypes
    <3>2. lstate = "reconnecting"
      BY <3>1 DEF Alive, Current, Paired, Starting, Flowing, NoneOf
    <3> QED BY <3>2 DEF Current, Paired
  <2> QED BY <2>1, <2>2
<1> DEFINE a == io[epoch]
           b == io'[epoch]
           t == tcp[epoch]
           box == Tail(lbox)
<1>a. a \in IOType /\ b = Told(a, <<Signal(ack)>>)
  BY <1>1 DEF PairTypes
<1>4. a \in IOType /\ b = Told(a, <<Signal(ack)>>) /\ box \in Seq(ListenerMessage)
      /\ requests \in Seq(Request) /\ Paired(lstate, box, requests, remaining, a, t)
  <2> HIDE DEF a, b
  <2> QED BY <1>2, <1>a DEF PairTypes, a
<1> HIDE DEF a, b, t, box
<1>5. CASE lstate = "shuttingDown" /\ s = "Shutdown"
  <2>1. lstate' = "shuttingDown" /\ ack = "ShutdownAck"
    BY <1>1, <1>5 DEF BehaviourAfter
  <2>2. Paired("shuttingDown", box, requests, remaining, b, t)
    BY <1>4, <1>5, <2>1, PairedAcknowledged
  <2>3. Paired(lstate', lbox', requests', remaining', b, t)
    BY <1>1, <2>1, <2>2 DEF box
  <2> QED BY <1>1, <2>3, CurrentStays DEF b, t
<1>6. CASE ~(lstate = "shuttingDown" /\ s = "Shutdown")
  <2>1. lstate' = "reconnecting"
    BY <1>1, <1>6 DEF BehaviourAfter
  <2>2. Paired("reconnecting", box, requests, <<>>, b, t)
    BY <1>4, PairedEnds DEF Alive
  <2>3. Paired(lstate', lbox', requests', remaining', b, t)
    BY <1>1, <1>3, <2>1, <2>2 DEF box
  <2> QED BY <1>1, <2>3, CurrentStays DEF b, t
<1> QED BY <1>5, <1>6

LEMMA RemovePaired ==
    ASSUME PairTypes, Current, lstate \in Alive, Receives("Remove")
    PROVE  /\ requests # <<>>
           /\ OnRemove /\ UNCHANGED tcp => Current'
<1>1. lbox # <<>> /\ Head(lbox).type = "Remove"
  BY DEF Receives
<1>2. requests # <<>> /\ Paired(lstate, Tail(lbox), Tail(requests), remaining, io[epoch], tcp[epoch])
  BY <1>1, PairedRemoves DEF PairTypes, Current, Alive
<1>3. ASSUME OnRemove, UNCHANGED tcp PROVE Current'
  <2>1. lbox' = Tail(lbox) /\ requests' = Tail(requests) /\ UNCHANGED <<io, lstate, remaining, epoch>>
    BY <1>3 DEF OnRemove, Consume, connecting
  <2> QED BY <1>2, <1>3, <2>1, CurrentStays
<1> QED BY <1>2, <1>3

(* A new IOActor takes the place of one that has ended.                    *)
LEMMA ReconnectPaired ==
    ASSUME PairTypes, Current, Reconnect, UNCHANGED tcp, io[epoch] = Stopped,
           NoneOf(lbox', EndTypes), NoneOf(lbox', {"Received"}),
           requests' = <<>>, remaining' = <<>>
    PROVE  Current'
<1>1. /\ epoch < MaxConnections /\ epoch' = epoch + 1 /\ epoch' \in Connections
      /\ io' = [io EXCEPT ![epoch + 1] = NewIOActor] /\ lstate' = "connecting"
  BY SharedAssumption DEF Reconnect, PairTypes, Connections
<1>2. io'[epoch'] = NewIOActor /\ epoch \in Nat
  BY <1>1 DEF PairTypes, Connections
<1>3. tcp'[epoch'] = Fresh
  BY <1>1, <1>2 DEF Current, Past
<1>4. tcp[epoch].state # "open"
  <2>1. Attached(Stopped, tcp[epoch])
    BY DEF Current, Paired
  <2> QED BY <2>1, InertActors DEF Attached
<1>5. Past'
  <2> SUFFICES ASSUME NEW c \in Connections
               PROVE  /\ c < epoch' => tcp[c].state # "open"
                      /\ c > epoch' => tcp[c] = Fresh
    BY DEF Past
  <2>1. c < epoch' => c < epoch \/ c = epoch
    BY <1>1, <1>2 DEF Connections
  <2>2. c > epoch' => c > epoch
    BY <1>1, <1>2 DEF Connections
  <2> QED BY <1>4, <2>1, <2>2 DEF Current, Past
<1>6. Paired("connecting", lbox', <<>>, <<>>, NewIOActor, Fresh)
  BY NewPaired
<1>7. Paired(lstate', lbox', requests', remaining', io'[epoch'], tcp'[epoch'])
  BY <1>1, <1>2, <1>3, <1>6
<1> QED BY <1>5, <1>7 DEF Current

LEMMA TerminatedPaired ==
    ASSUME PairTypes, LifeInv, Live, Current, UNCHANGED tcp,
           TerminatedInitializing \/ TerminatedConnected
    PROVE  Current'
<1>1. /\ lbox # <<>> /\ Head(lbox).type = "Terminated" /\ lbox' = Tail(lbox) /\ Reconnect
      /\ lstate \in {"initializing", "initialized", "reconnecting"} /\ UNCHANGED remaining
      /\ lstate = "reconnecting" => requests' = <<>>
  BY DEF TerminatedInitializing, TerminatedConnected, Receives, Consume, FailSent
<1>2. io[epoch] = Stopped /\ NoneOf(lbox', EndTypes)
  BY <1>1, OneEndTail DEF LifeInv, OneLives, Live, PairTypes
<1>3. NoneOf(lbox', {"Received"})
  BY <1>1, LateTail DEF Current, Paired, PairTypes
<1>4. lstate = "reconnecting"
  BY <1>1, <1>2, InertActors DEF Current, Paired, Flowing, Ready, Receiving
<1>5. remaining = <<>>
  BY <1>4 DEF Current, Paired
<1> QED BY <1>1, <1>2, <1>3, <1>4, <1>5, ReconnectPaired

LEMMA ItemPaired ==
    ASSUME PairTypes, LifeInv, Live, Current, UNCHANGED tcp, ItemWhileConnecting
    PROVE  Current'
<1>1. /\ lstate = "connecting" /\ lbox # <<>> /\ Head(lbox).type \in {"Request", "Transaction"}
      /\ Consume /\ UNCHANGED <<requests, remaining>> /\ ReconnectUnlessConnecting
  BY DEF ItemWhileConnecting, IsItem, Receives
<1>2. CASE isConnecting
  BY <1>1, <1>2, ListenerTakes DEF ReconnectUnlessConnecting, Receiving
<1>3. CASE ~isConnecting
  <2>1. io[epoch] = Stopped /\ NoneOf(lbox, EndTypes)
    BY <1>1, <1>3 DEF LifeInv, OneLives, Live
  <2>2. NoneOf(lbox, {"Received"}) /\ requests = <<>> /\ remaining = <<>>
    BY <1>1 DEF Current, Paired, Starting, NoneOf
  <2>3. NoneOf(lbox', EndTypes) /\ NoneOf(lbox', {"Received"})
    BY <1>1, <2>1, <2>2, NoneOfTail DEF PairTypes, Consume
  <2> QED BY <1>1, <1>3, <2>1, <2>2, <2>3, ReconnectPaired DEF ReconnectUnlessConnecting
<1> QED BY <1>2, <1>3

(* Every case of every behaviour.                                          *)
LEMMA ListenerPaired ==
    ASSUME PairTypes, LifeInv, CleanInv, Live, lstate \in Alive, Current, LNext, UNCHANGED tcp, Live'
    PROVE  Current'
<1>1. ASSUME FailItem \/ QueueItem PROVE Current'
  <2>1. /\ lbox # <<>> /\ Head(lbox).type \in {"Request", "Transaction"} /\ Consume
        /\ UNCHANGED <<epoch, io, lstate, requests, remaining>>
    BY <1>1 DEF FailItem, QueueItem, IsItem, Receives, listenerVars, connecting
  <2> QED BY <2>1, ListenerTakes
<1>2. ASSUME TerminatedConnecting PROVE Current'
  <2>1. /\ lbox # <<>> /\ Head(lbox).type = "Terminated" /\ Consume
        /\ UNCHANGED <<epoch, io, lstate, requests, remaining>>
    BY <1>2 DEF TerminatedConnecting, Receives
  <2> QED BY <2>1, ListenerTakes
<1>3. ASSUME Ignore PROVE Current'
  <2>1. /\ lbox # <<>> /\ Head(lbox).type # "Remove" /\ Consume
        /\ Head(lbox).type = "Received" => lstate \notin Receiving
        /\ UNCHANGED <<epoch, io, lstate, requests, remaining>>
    BY <1>3 DEF Ignore, Ignored, Receives, Receiving, listenerVars
  <2> QED BY <2>1, ListenerTakes
<1>4. ~QuitWhileConnecting /\ ~TerminatedShuttingDown
  BY DEF QuitWhileConnecting, TerminatedShuttingDown, PoisonDecoders, Live, Down
<1>5. ~OnConnectedAfterQuit /\ ~TerminatedAwaitingDecoders
  BY DEF OnConnectedAfterQuit, TerminatedAwaitingDecoders, Live, Down
<1>6. ASSUME OnRemove PROVE Current'
  BY <1>6, RemovePaired DEF OnRemove
<1> QED
  BY <1>1, <1>2, <1>3, <1>4, <1>5, <1>6, SendItemPaired, ItemPaired, OnConnectedPaired,
     ReceivePaired, ReceiveInitializingPaired, TimeoutPaired, AcknowledgePaired, TerminatedPaired
     DEF LNext

-----------------------------------------------------------------------------
(* The steps of the IOActors, the connections and the server.              *)

LEMMA CurrentMoves ==
    ASSUME PairTypes, Current, UNCHANGED <<lstate, epoch, requests, remaining>>,
           NEW e, e = epoch, OneForward(e),
           Paired(lstate, lbox', requests, remaining, io'[e], tcp'[e])
    PROVE  Current'
<1>1. Past'
  <2> SUFFICES ASSUME NEW c \in Connections
               PROVE  /\ c < epoch => tcp'[c].state # "open"
                      /\ c > epoch => tcp'[c] = Fresh
    BY DEF Past
  <2>1. CASE c = epoch
    BY <2>1 DEF PairTypes, Connections
  <2>2. CASE c # epoch
    BY <2>2 DEF OneForward, Current, Past
  <2> QED BY <2>1, <2>2
<1> QED BY <1>1 DEF Current

(* Of the IOActors and their connections only the last ones do something.  *)
LEMMA OnlyTheLast ==
    ASSUME LifeInv, Live, Past, epoch \in Connections, NEW c \in Connections,
           \/ IONext(c) \/ FireConnectTimeout(c) \/ FireAbortTimeout(c)
           \/ TcpConnect(c) \/ TcpConnectFail(c) \/ TcpWrite(c) \/ TcpRead(c)
           \/ TcpAbort(c) \/ TcpQuit(c) \/ TcpDrop(c)
    PROVE  c = epoch
<1> SUFFICES ASSUME c # epoch PROVE FALSE
  OBVIOUS
<1>1. c < epoch \/ c > epoch
  BY DEF Connections
<1>2. io[c] \in {NoIOActor, Stopped}
  BY <1>1 DEF LifeInv, OneLives, Live
<1>3. tcp[c].state # "open"
  BY <1>1 DEF Past, Fresh
<1>4. /\ io[c].box = <<>> /\ io[c].state \in {"none", "stopped"}
      /\ io[c].state = "none" => ~io[c].connectTimer /\ ~io[c].abortTimer
  BY <1>2, InertActors
<1>5. ~IONext(c)
  BY <1>4 DEF IONext, IOConnected, IOConnectFailed, IORequest, IOWriteAck, IOWriteFailed,
       IOShutdown, IOTerminated, IORejectRequest, IOShutdownAck, IOAbortAck, IOAborted,
       IOAbortTimeout, IOIgnore, IOIgnored, IOReceives
<1>6. ~FireConnectTimeout(c) /\ ~FireAbortTimeout(c)
  BY <1>4 DEF FireConnectTimeout, FireAbortTimeout
<1>7. ~TcpConnect(c) /\ ~TcpConnectFail(c)
  BY <1>4 DEF TcpConnect, TcpConnectFail
<1>8. ~TcpWrite(c) /\ ~TcpRead(c) /\ ~TcpAbort(c) /\ ~TcpQuit(c) /\ ~TcpDrop(c)
  BY <1>3 DEF TcpWrite, TcpRead, TcpAbort, TcpQuit, TcpDrop
<1> QED BY <1>5, <1>6, <1>7, <1>8

(* What is read is told to the listener.                                   *)
LEMMA ReadsPaired ==
    ASSUME ConnTypes, lbox \in Seq(ListenerMessage), lstate # "stopped", NEW c \in Connections,
           Paired(lstate, lbox, requests, remaining, io[c], tcp[c]), TcpRead(c)
    PROVE  Paired(lstate, lbox', requests, remaining, io'[c], tcp'[c])
<1> DEFINE t == tcp[c]
           u == tcp'[c]
           a == io[c]
<1>1. /\ t.state = "open" /\ t.net # <<>> /\ io' = io
      /\ t \in TcpType /\ u \in TcpType /\ a \in IOType /\ t.net \in Seq(Reply) /\ t.half \in BOOLEAN
  BY DEF TcpRead, ConnTypes, TcpType
<1>2. PICK n \in 0..Len(t.net), splits \in BOOLEAN :
        /\ splits => n < Len(t.net) /\ ~(n = 0 /\ t.half)
        /\ n > 0 \/ splits
        /\ lbox' = AfterTellingListener(lbox,
             <<[type |-> "Received",
                data |-> [resumes |-> t.half, replies |-> SubSeq(t.net, 1, n),
                          rest |-> IF splits THEN <<t.net[n + 1]>> ELSE <<>>]]>>)
        /\ tcp' = [tcp EXCEPT ![c].net = SubSeq(@, n + 1, Len(@)), ![c].half = splits]
  BY DEF TcpRead
<1> DEFINE m == [type |-> "Received",
                 data |-> [resumes |-> t.half, replies |-> SubSeq(t.net, 1, n),
                           rest |-> IF splits THEN <<t.net[n + 1]>> ELSE <<>>]]
<1>3. /\ u.state = t.state /\ u.abort = t.abort /\ u.wire = t.wire /\ u.writing = t.writing
      /\ u.net = SubSeq(t.net, n + 1, Len(t.net)) /\ u.half = splits
  BY <1>1, <1>2 DEF ConnTypes, TcpType
<1>4. /\ m.type = "Received" /\ m.data.resumes = t.half /\ m.data.replies = SubSeq(t.net, 1, n)
      /\ m.data.rest = IF splits THEN <<t.net[n + 1]>> ELSE <<>>
  OBVIOUS
<1>5. m \in ListenerMessage
  <2> DEFINE net == t.net
  <2>1. net \in Seq(Reply) /\ n \in Nat /\ n <= Len(net) /\ (splits => n + 1 \in 1..Len(net))
    BY <1>1, <1>2
  <2> HIDE DEF net
  <2>2. SubSeq(net, 1, n) \in Seq(Reply)
    BY <2>1, CutInTwo
  <2>3. (IF splits THEN <<net[n + 1]>> ELSE <<>>) \in Seq(Reply)
    BY <2>1
  <2>4. [resumes |-> t.half, replies |-> SubSeq(net, 1, n),
         rest |-> IF splits THEN <<net[n + 1]>> ELSE <<>>] \in Data
    BY <1>1, <2>2, <2>3 DEF Data
  <2> QED BY <2>4 DEF ListenerMessage, net
<1>6. lbox' = lbox \o <<m>>
  BY <1>2 DEF AfterTellingListener
<1>7. Paired(lstate, lbox, requests, remaining, a, t) /\ io'[c] = a
  BY <1>1
<1> HIDE DEF a, t, u, m
<1>8. Paired(lstate, lbox \o <<m>>, requests, remaining, a, u)
  BY <1>1, <1>2, <1>3, <1>4, <1>5, <1>7, ReadPaired
<1> QED BY <1>6, <1>7, <1>8 DEF u

LEMMA QuietSteps ==
    ASSUME NEW c,
           \/ TcpConnect(c) \/ TcpConnectFail(c) \/ TcpWrite(c)
           \/ TcpAbort(c) \/ TcpQuit(c) \/ TcpDrop(c)
           \/ FireConnectTimeout(c) \/ FireAbortTimeout(c)
    PROVE  lbox' = lbox
<1>1. ASSUME TcpConnect(c) \/ TcpConnectFail(c) \/ TcpWrite(c) PROVE lbox' = lbox
  BY <1>1 DEF TcpConnect, TcpConnectFail, TcpWrite
<1>2. ASSUME Closes(c) PROVE lbox' = lbox
  BY <1>2 DEF Closes
<1>3. ASSUME TcpAbort(c) \/ TcpQuit(c) \/ TcpDrop(c) PROVE lbox' = lbox
  BY <1>2, <1>3 DEF TcpAbort, TcpQuit, TcpDrop
<1>4. ASSUME FireConnectTimeout(c) PROVE lbox' = lbox
  BY <1>4 DEF FireConnectTimeout
<1>5. ASSUME FireAbortTimeout(c) PROVE lbox' = lbox
  BY <1>5 DEF FireAbortTimeout
<1> QED BY <1>1, <1>3, <1>4, <1>5

LEMMA OnePaired ==
    ASSUME Whole, TypeInv, TypeInv', LifeInv, Delivery, CleanInv, Live, Current,
           UNCHANGED listenerVars, NEW c \in Connections,
           \/ IONext(c)
           \/ (FireConnectTimeout(c) \/ FireAbortTimeout(c)) /\ UNCHANGED tcp
           \/ TcpConnect(c) \/ TcpConnectFail(c) \/ TcpWrite(c) \/ TcpWriteFail(c) \/ TcpRead(c)
           \/ TcpAbort(c) \/ TcpQuit(c) \/ TcpDrop(c)
    PROVE  Current'
<1>1. ConnTypes /\ PairTypes /\ lstate \in Alive /\ lstate # "stopped"
  BY PairTyped DEF TypeInv, TypeOK, TcpTypeOK, ConnTypes, Live, Down
<1>2. /\ CleanActor(io[c]) /\ CleanTcp(tcp[c]) /\ ConnInv(io[c], tcp[c]) /\ OneWrite(io[c], tcp[c])
      /\ Past /\ UNCHANGED <<lstate, epoch, requests, remaining>>
  BY DEF CleanInv, Delivery, ConnInv, Current, listenerVars
<1>3. ~TcpWriteFail(c)
  BY DEF Whole, TcpWriteFail, Fault
<1>4. c = epoch
  BY <1>1, <1>2, <1>3, OnlyTheLast DEF PairTypes
<1>5. OneForward(c)
  BY <1>1, <1>2, IOForward, ConnectionForward
<1>6. Paired(lstate, lbox, requests, remaining, io[c], tcp[c]) /\ Attached(io[c], tcp[c])
  BY <1>4 DEF Current, Paired
<1>7. Paired(lstate, lbox', requests, remaining, io'[c], tcp'[c])
  <2>1. CASE IONext(c)
    BY <1>1, <1>2, <1>6, <2>1, IOPaired DEF PairTypes
  <2>2. CASE TcpRead(c)
    BY <1>1, <1>6, <2>2, ReadsPaired DEF PairTypes
  <2>3. CASE \/ TcpConnect(c) \/ TcpConnectFail(c) \/ TcpWrite(c)
             \/ TcpAbort(c) \/ TcpQuit(c) \/ TcpDrop(c)
             \/ (FireConnectTimeout(c) \/ FireAbortTimeout(c)) /\ UNCHANGED tcp
    <3>1. Steady(io[c], tcp[c], io'[c], tcp'[c])
      BY <1>1, <1>2, <1>6, <2>3, ConnectionSteady
    <3>2. lbox' = lbox
      BY <2>3, QuietSteps
    <3>3. Paired(lstate, lbox, requests, remaining, io'[c], tcp'[c])
      BY <1>1, <1>6, <3>1, PairedMoves DEF PairTypes
    <3> QED BY <3>2, <3>3
  <2> QED BY <1>3, <2>1, <2>2, <2>3
<1> QED BY <1>1, <1>2, <1>4, <1>5, <1>7, CurrentMoves

(* Answering does not close a connection.                                  *)
LEMMA ServerStays ==
    ASSUME ConnTypes, NEW c \in Connections, ServerExecute(c)
    PROVE  tcp'[c].state = tcp[c].state
<1> DEFINE t == tcp[c]
           r == Head(t.wire)
           queues == t.multi /\ r.op # "exec"
           k == IF queues THEN "queued"
                ELSE IF r.op \in SessionOps /\ r.value \in Rejected THEN "error" ELSE "ok"
           next == [t EXCEPT !.wire = Tail(@),
                       !.net = IF t.state = "open"
                               THEN Append(@, [to |-> r.id, kind |-> k]) ELSE @,
                       !.settings = IF r.op \in SessionOps /\ k = "ok"
                                    THEN [@ EXCEPT ![r.op] = r.value] ELSE @,
                       !.multi = (@ \/ r.op = "multi") /\ r.op # "exec",
                       !.members = IF queues THEN Append(@, r.id)
                                   ELSE IF r.op = "exec" THEN <<>> ELSE @,
                       !.quit = (r.op = "quit")]
<1>1. tcp' = [tcp EXCEPT ![c] = next]
  BY DEF ServerExecute
<1>2. tcp'[c] = next /\ t \in TcpType
  BY <1>1 DEF ConnTypes
<1> HIDE DEF k, queues, t
<1>3. next.state = t.state
  BY <1>2 DEF TcpType
<1> QED BY <1>2, <1>3 DEF t

(* The server answers a command.                                           *)
LEMMA ExecutePaired ==
    ASSUME TypeInv, TypeInv', Delivery, CleanInv, Current, NEW c \in Connections, Execute(c)
    PROVE  Current'
<1>1. ConnTypes /\ PairTypes
  BY PairTyped DEF TypeInv, TypeOK, TcpTypeOK, ConnTypes
<1>2. /\ CleanActor(io[c]) /\ CleanTcp(tcp[c]) /\ ConnInv(io[c], tcp[c])
      /\ Past /\ UNCHANGED <<lstate, epoch, requests, remaining>>
  BY DEF CleanInv, Delivery, ConnInv, Current, Execute, user, listenerVars
<1>3. ServerExecute(c)
  <2>1. ASSUME tcp[c].wire # <<>> PROVE Head(tcp[c].wire).op # "spent"
    BY <1>2, <2>1 DEF CleanTcp, Encodable
  <2> QED BY <2>1 DEF Execute, ServerSkip
<1>4. OneForward(c) /\ lbox' = lbox /\ UNCHANGED io
  <2>1. OneForward(c)
    BY <1>1, <1>2, <1>3, ExecuteForward
  <2>2. lbox' = lbox /\ UNCHANGED io
    BY <1>3 DEF ServerExecute
  <2> QED BY <2>1, <2>2
<1>5. CASE c = epoch
  <2>1. Paired(lstate, lbox, requests, remaining, io[c], tcp[c]) /\ Attached(io[c], tcp[c])
    BY <1>5 DEF Current, Paired
  <2>2. Steady(io[c], tcp[c], io'[c], tcp'[c])
    BY <1>1, <1>2, <1>3, <2>1, ServerSteady
  <2>3. Paired(lstate, lbox, requests, remaining, io'[c], tcp'[c])
    BY <1>1, <2>1, <2>2, PairedMoves DEF PairTypes
  <2>4. Paired(lstate, lbox', requests, remaining, io'[c], tcp'[c])
    BY <1>4, <2>3
  <2> QED BY <1>1, <1>2, <1>4, <1>5, <2>4, CurrentMoves
<1>6. CASE c # epoch
  <2>1. c < epoch
    BY <1>1, <1>2, <1>3, <1>6 DEF ServerExecute, Past, Fresh, PairTypes, Connections
  <2>2. tcp'[c].state = tcp[c].state
    BY <1>1, <1>3, ServerStays
  <2>3. tcp'[epoch] = tcp[epoch] /\ io'[epoch] = io[epoch]
    BY <1>1, <1>4, <1>6 DEF OneForward, PairTypes
  <2>4. Past'
    <3> SUFFICES ASSUME NEW e \in Connections
                 PROVE  /\ e < epoch => tcp'[e].state # "open"
                        /\ e > epoch => tcp'[e] = Fresh
      BY <1>2 DEF Past
    <3>1. CASE e = c
      BY <1>1, <1>2, <2>1, <2>2, <3>1 DEF Past, PairTypes, Connections
    <3>2. CASE e # c
      BY <1>2, <1>4, <3>2 DEF OneForward, Past
    <3> QED BY <3>1, <3>2
  <2> QED BY <1>2, <1>4, <2>3, <2>4 DEF Current
<1> QED BY <1>5, <1>6

-----------------------------------------------------------------------------
(* When the listener has no connection any more.                           *)

LEMMA DeadActors ==
    ASSUME LifeInv', ~shutBefore', lstate' \in Down
    PROVE  NoRequests'
<1>1. NoneLives'
  BY DEF LifeInv
<1>2. NoneOf(lbox', {"Remove"})
  BY <1>1 DEF NoneLives, NoneOf, EndTypes
<1>3. \A c \in Connections : NoneOf(io'[c].box, {"Request"})
  BY <1>1, InertActors, NoneOfNothing DEF NoneLives, Inert
<1> QED BY <1>2, <1>3 DEF NoRequests

(* Nothing but requests and rejections matters.                            *)
LEMMA NothingToRemove ==
    ASSUME lbox \in Seq(ListenerMessage), NoneOf(lbox, {"Remove"}),
           \/ UNCHANGED lbox
           \/ lbox # <<>> /\ lbox' = Tail(lbox)
           \/ lbox' = <<>>
           \/ \E m : m.type # "Remove" /\ lbox' = AfterTellingListener(lbox, <<m>>)
    PROVE  NoneOf(lbox', {"Remove"})
<1>1. CASE UNCHANGED lbox
  BY <1>1
<1>2. CASE lbox # <<>> /\ lbox' = Tail(lbox)
  BY <1>2, NoneOfTail
<1>3. CASE lbox' = <<>>
  BY <1>3, NoneOfNothing
<1>4. CASE \E m : m.type # "Remove" /\ lbox' = AfterTellingListener(lbox, <<m>>)
  <2>1. PICK m : m.type # "Remove" /\ lbox' = AfterTellingListener(lbox, <<m>>)
    BY <1>4
  <2>2. lbox \in Seq(ListenerMessage \cup {m}) /\ m \in ListenerMessage \cup {m}
    OBVIOUS
  <2>3. NoneOf(lbox \o <<m>>, {"Remove"})
    BY <2>1, <2>2, NoneOfTold
  <2> QED BY <2>1, <2>3 DEF AfterTellingListener
<1> QED BY <1>1, <1>2, <1>3, <1>4

LEMMA SignalsRemoveNothing ==
    ASSUME lbox \in Seq(ListenerMessage), NoneOf(lbox, {"Remove"}),
           UNCHANGED lbox \/ \E s \in ListenerSignals \ {"Remove"} : Tell(s)
    PROVE  NoneOf(lbox', {"Remove"})
<1>1. \A s \in ListenerSignals \ {"Remove"} : Signal(s).type # "Remove"
  BY DEF Signal
<1>2. CASE \E s \in ListenerSignals \ {"Remove"} : Tell(s)
  <2>1. \E m : m.type # "Remove" /\ lbox' = AfterTellingListener(lbox, <<m>>)
    BY <1>1, <1>2 DEF Tell
  <2> QED BY <2>1, NothingToRemove
<1> QED BY <1>2, NothingToRemove

LEMMA ToldNoRequest ==
    ASSUME NEW a \in IOType, NoneOf(a.box, {"Request"}), NEW s \in IOSignals, NEW b,
           \/ b = Told(a, <<Signal(s)>>)
           \/ b = [Told(a, <<Signal(s)>>) EXCEPT !.connectTimer = FALSE]
           \/ b = [Told(a, <<Signal(s)>>) EXCEPT !.abortTimer = FALSE]
    PROVE  NoneOf(b.box, {"Request"})
<1>1. Hears(a, b, s)
  BY ToldHears
<1>2. s \notin {"Request"}
  BY DEF IOSignals
<1> QED BY <1>1, <1>2, HeardNone

(* An IOActor without a request to take.                                   *)
LEMMA IdleActor ==
    ASSUME ConnTypes, NEW e \in Connections, NoneOf(io[e].box, {"Request"}), IONext(e)
    PROVE  /\ NoneOf(io'[e].box, {"Request"})
           /\ UNCHANGED lbox \/ \E s \in ListenerSignals \ {"Remove"} : Tell(s)
<1> DEFINE a == io[e]
           b == io'[e]
<1>1. a \in IOType /\ a.box \in Seq(IOMessage) /\ io \in [Connections -> IOType]
  BY ActorFields DEF ConnTypes
<1>2. ~IOReceives(e, "Request")
  BY <1>1, NoneOfHead DEF IOReceives
<1>3. ASSUME NEW actor \in IOType, actor.box = a.box, a.box # <<>>, IOBecomes(e, actor)
      PROVE  NoneOf(b.box, {"Request"})
  <2>1. b.box = Tail(a.box)
    BY <1>1, <1>3, Became
  <2> QED BY <1>1, <1>3, <2>1, NoneOfTail
<1>4. ASSUME NEW s \in IOStates, a.box # <<>>, IOBecomes(e, [a EXCEPT !.state = s])
      PROVE  NoneOf(b.box, {"Request"})
  <2>1. [a EXCEPT !.state = s] \in IOType /\ [a EXCEPT !.state = s].box = a.box
    BY <1>1 DEF IOType
  <2> QED BY <1>3, <1>4, <2>1
<1>5. ASSUME IOStop(e)
      PROVE  /\ NoneOf(b.box, {"Request"})
             /\ \E s \in ListenerSignals \ {"Remove"} : Tell(s)
  <2>1. b = Stopped /\ Tell("Terminated")
    BY <1>1, <1>5 DEF IOStop
  <2> QED BY <2>1, InertActors, NoneOfNothing DEF ListenerSignals
<1>6. ASSUME NEW pending \in Seq(Request), a.box # <<>>, WritesNext(e, pending)
      PROVE  NoneOf(b.box, {"Request"}) /\ UNCHANGED lbox
  <2> DEFINE size == IF Len(pending) < MaxWriteBatchSize THEN Len(pending) ELSE MaxWriteBatchSize
             actor == [a EXCEPT !.batch = SubSeq(pending, 1, size),
                                !.requests = Unwritten(pending, size),
                                !.canWrite = (pending = <<>>)]
  <2>1. IOBecomes(e, actor) /\ UNCHANGED lbox
    BY <1>6 DEF WritesNext
  <2>2. io' = [io EXCEPT ![e] = [actor EXCEPT !.box = Tail(@)]]
    BY <2>1 DEF IOBecomes
  <2> HIDE DEF size
  <2>3. b.box = Tail(a.box)
    BY <1>1, <2>2 DEF IOType
  <2> QED BY <1>1, <1>6, <2>1, <2>3, NoneOfTail
<1>7. CASE IOConnected(e)
  <2> DEFINE actor == [a EXCEPT !.state = "connected", !.connectTimer = FALSE, !.canWrite = TRUE]
  <2>1. Tell("Connected") /\ IOBecomes(e, actor) /\ a.box # <<>>
    BY <1>7 DEF IOConnected, IOReceives
  <2>2. actor \in IOType /\ actor.box = a.box
    BY <1>1 DEF IOType, IOStates
  <2> QED BY <1>3, <2>1, <2>2 DEF ListenerSignals
<1>8. CASE IOConnectFailed(e) \/ IOShutdownAck(e) \/ IOAborted(e)
  BY <1>5, <1>8 DEF IOConnectFailed, IOShutdownAck, IOAborted
<1>9. CASE IOWriteAck(e)
  <2>1. a.box # <<>> /\ WritesNext(e, a.requests) /\ a.requests \in Seq(Request)
    BY <1>1, <1>9, ActorFields DEF IOWriteAck, IOReceives
  <2> QED BY <1>6, <2>1
<1>10. CASE IOWriteFailed(e)
  <2>1. a.box # <<>> /\ WritesNext(e, Requeued(a)) /\ Requeued(a) \in Seq(Request)
    BY <1>1, <1>10, RequeuedType DEF IOWriteFailed, IOReceives
  <2> QED BY <1>6, <2>1
<1>11. CASE IOShutdown(e)
  <2>1. Tell("Abort") /\ a.box # <<>> /\ IOBecomes(e, [a EXCEPT !.state = "awaitingAbort"])
    BY <1>11 DEF IOShutdown, IOReceives
  <2> QED BY <1>4, <2>1 DEF ListenerSignals, IOStates
<1>12. CASE IOTerminated(e)
  <2>1. Tell("Shutdown") /\ a.box # <<>> /\ IOBecomes(e, [a EXCEPT !.state = "awaitingShutdown"])
    BY <1>12 DEF IOTerminated, IOReceives
  <2> QED BY <1>4, <2>1 DEF ListenerSignals, IOStates
<1>13. CASE IOAbortAck(e)
  <2> DEFINE actor == [a EXCEPT !.state = "aborting", !.abortTimer = TRUE]
  <2>1. UNCHANGED lbox /\ IOBecomes(e, actor) /\ a.box # <<>>
    BY <1>13 DEF IOAbortAck, IOReceives
  <2>2. actor \in IOType /\ actor.box = a.box
    BY <1>1 DEF IOType, IOStates
  <2> QED BY <1>3, <2>1, <2>2
<1>14. CASE IOAbortTimeout(e)
  <2>1. UNCHANGED lbox /\ a.box # <<>>
    BY <1>14 DEF IOAbortTimeout, IOReceives
  <2>2. CASE tcp[e].state # "open"
    BY <1>1, <1>3, <1>14, <2>1, <2>2 DEF IOAbortTimeout
  <2>3. CASE tcp[e].state = "open"
    <3> DEFINE m == Signal("Terminated")
               more == Append(a.box, m)
               actor == [a EXCEPT !.box = more]
    <3>1. m \in IOMessage /\ m.type # "Request"
      BY SignalType DEF Signal, IOSignals
    <3> HIDE DEF m
    <3>2. more \in Seq(IOMessage) /\ Tail(more) = Tail(a.box) \o <<m>>
      BY <1>1, <2>1, <3>1, TailOfAppend
    <3>3. IOBecomes(e, actor)
      BY <1>14, <2>3 DEF IOAbortTimeout, m
    <3> HIDE DEF more
    <3>4. actor \in IOType /\ actor.box = more
      BY <1>1, <3>2 DEF IOType
    <3> HIDE DEF actor
    <3>5. b.box = Tail(a.box) \o <<m>>
      BY <1>1, <3>2, <3>3, <3>4, Became
    <3>6. NoneOf(Tail(a.box), {"Request"}) /\ Tail(a.box) \in Seq(IOMessage)
      BY <1>1, <2>1, NoneOfTail, HeadAndTail
    <3> QED BY <2>1, <3>1, <3>5, <3>6, NoneOfTold
  <2> QED BY <2>2, <2>3
<1>15. CASE IOIgnore(e)
  <2>1. UNCHANGED lbox /\ a.box # <<>> /\ IOBecomes(e, a)
    BY <1>15 DEF IOIgnore, IOIgnored, IOReceives
  <2> QED BY <1>1, <1>3, <2>1
<1>16. ~IORequest(e) /\ ~IORejectRequest(e)
  BY <1>2 DEF IORequest, IORejectRequest
<1> QED
  BY <1>7, <1>8, <1>9, <1>10, <1>11, <1>12, <1>13, <1>14, <1>15, <1>16 DEF IONext

(* Timers, connections and the server ask for nothing.                     *)
LEMMA IdleConnection ==
    ASSUME ConnTypes, lbox \in Seq(ListenerMessage), NoRequests, NEW c \in Connections,
           \/ TcpConnect(c) \/ TcpConnectFail(c) \/ TcpWrite(c) \/ TcpRead(c)
           \/ TcpAbort(c) \/ TcpQuit(c) \/ TcpDrop(c)
           \/ FireConnectTimeout(c) \/ FireAbortTimeout(c)
    PROVE  NoneOf(io'[c].box, {"Request"}) /\ NoneOf(lbox', {"Remove"})
<1> DEFINE a == io[c]
           b == io'[c]
<1>1. a \in IOType /\ io \in [Connections -> IOType] /\ NoneOf(a.box, {"Request"})
      /\ NoneOf(lbox, {"Remove"})
  BY DEF ConnTypes, NoRequests
<1>2. ASSUME NEW s \in IOSignals, TellIO(c, s) PROVE NoneOf(b.box, {"Request"})
  <2>1. b = Told(a, <<Signal(s)>>)
    BY <1>1, <1>2 DEF TellIO
  <2> QED BY <1>1, <2>1, ToldNoRequest
<1>3. ASSUME TcpConnect(c) \/ TcpConnectFail(c) \/ TcpWrite(c) PROVE \E s \in IOSignals : TellIO(c, s)
  BY <1>3 DEF TcpConnect, TcpConnectFail, TcpWrite, IOSignals
<1>4. ASSUME TcpAbort(c) \/ TcpQuit(c) \/ TcpDrop(c) PROVE \E s \in IOSignals : TellIO(c, s)
  <2>1. Closes(c)
    BY <1>4 DEF TcpAbort, TcpQuit, TcpDrop
  <2> QED BY <2>1 DEF Closes, IOSignals
<1>5. ASSUME FireConnectTimeout(c) PROVE NoneOf(b.box, {"Request"})
  <2>1. b = [Told(a, <<Signal("ConnectTimeout")>>) EXCEPT !.connectTimer = FALSE]
    BY <1>1, <1>5 DEF FireConnectTimeout
  <2>2. "ConnectTimeout" \in IOSignals
    BY DEF IOSignals
  <2> HIDE DEF a, b
  <2> QED BY <1>1, <2>1, <2>2, ToldNoRequest
<1>6. ASSUME FireAbortTimeout(c) PROVE NoneOf(b.box, {"Request"})
  <2>1. b = [Told(a, <<Signal("AbortTimeout")>>) EXCEPT !.abortTimer = FALSE]
    BY <1>1, <1>6 DEF FireAbortTimeout
  <2>2. "AbortTimeout" \in IOSignals
    BY DEF IOSignals
  <2> HIDE DEF a, b
  <2> QED BY <1>1, <2>1, <2>2, ToldNoRequest
<1>7. ASSUME TcpRead(c) PROVE NoneOf(b.box, {"Request"}) /\ NoneOf(lbox', {"Remove"})
  <2>1. /\ b = a
        /\ \E m : m.type = "Received" /\ lbox' = AfterTellingListener(lbox, <<m>>)
    BY <1>7 DEF TcpRead
  <2> QED BY <1>1, <2>1, NothingToRemove
<1> QED BY <1>1, <1>2, <1>3, <1>4, <1>5, <1>6, <1>7, QuietSteps

LEMMA OneIdle ==
    ASSUME NoRequests, NEW c \in Connections, OneForward(c),
           NoneOf(io'[c].box, {"Request"}), NoneOf(lbox', {"Remove"})
    PROVE  NoRequests'
BY DEF NoRequests, OneForward

(* After a QUIT that came before the connection the listener sends nothing. *)
LEMMA ListenerIdle ==
    ASSUME PairTypes, QuitStates, shutBefore, NoRequests, LNext
    PROVE  NoRequests'
<1>1. lstate \in {"connecting", "reconnecting"} \cup Down
  BY DEF QuitStates
<1>2. ~SendItem /\ ~OnConnected /\ ~Receive /\ ~ReceiveInitializing
  BY <1>1 DEF SendItem, OnConnected, Receive, ReceiveInitializing, Down
<1>3. ~HandleReceiveTimeout /\ ~TerminatedInitializing /\ ~TerminatedShuttingDown
  BY <1>1 DEF HandleReceiveTimeout, TerminatedInitializing, TerminatedShuttingDown, Down
<1>4. ~OnRemove
  BY NoneOfHead DEF OnRemove, Receives, NoRequests, PairTypes
<1>5. ASSUME lbox # <<>>, Consume, UNCHANGED io PROVE NoRequests'
  <2>1. NoneOf(lbox', {"Remove"})
    BY <1>5, NothingToRemove DEF Consume, NoRequests, PairTypes
  <2> QED BY <1>5, <2>1 DEF NoRequests
<1>6. ASSUME lbox # <<>>, Consume, Reconnect PROVE NoRequests'
  <2>1. NoneOf(lbox', {"Remove"})
    BY <1>6, NothingToRemove DEF Consume, NoRequests, PairTypes
  <2>2. io' = [io EXCEPT ![epoch + 1] = NewIOActor] /\ NewIOActor.box = <<>>
    BY <1>6, InertActors DEF Reconnect
  <2>3. \A c \in Connections : NoneOf(io'[c].box, {"Request"})
    BY <2>2, NoneOfNothing DEF NoRequests, PairTypes
  <2> QED BY <2>1, <2>3 DEF NoRequests
<1>7. ASSUME FailItem \/ QueueItem \/ TerminatedConnecting \/ Ignore PROVE NoRequests'
  <2>1. lbox # <<>> /\ Consume /\ UNCHANGED io
    BY <1>7 DEF FailItem, QueueItem, TerminatedConnecting, Ignore, Ignored, IsItem, Receives
  <2> QED BY <1>5, <2>1
<1>8. ASSUME QuitWhileConnecting \/ OnConnectedAfterQuit PROVE NoRequests'
  <2>1. lbox # <<>> /\ Consume /\ UNCHANGED io
    BY <1>8 DEF QuitWhileConnecting, OnConnectedAfterQuit, Receives
  <2> QED BY <1>5, <2>1
<1>9. ASSUME ItemWhileConnecting PROVE NoRequests'
  <2>1. lbox # <<>> /\ Consume /\ (UNCHANGED io \/ Reconnect)
    BY <1>9 DEF ItemWhileConnecting, ReconnectUnlessConnecting, IsItem, Receives
  <2> QED BY <1>5, <1>6, <2>1
<1>10. ASSUME TerminatedConnected PROVE NoRequests'
  BY <1>6, <1>10 DEF TerminatedConnected, Receives
<1>11. ASSUME OnAbort \/ OnShutdown PROVE NoRequests'
  <2>1. PICK s \in {"AbortAck", "ShutdownAck"} :
          /\ lbox # <<>> /\ Consume /\ io' = [io EXCEPT ![epoch] = Told(@, <<Signal(s)>>)]
    <3>1. CASE OnAbort
      BY <3>1 DEF OnAbort, Acknowledge, Receives
    <3>2. CASE OnShutdown
      BY <3>2 DEF OnShutdown, Acknowledge, Receives
    <3> QED BY <1>11, <3>1, <3>2
  <2>2. NoneOf(lbox', {"Remove"})
    BY <2>1, NothingToRemove DEF Consume, NoRequests, PairTypes
  <2>3. NoneOf(Told(io[epoch], <<Signal(s)>>).box, {"Request"})
    <3>1. io[epoch] \in IOType /\ NoneOf(io[epoch].box, {"Request"}) /\ s \in IOSignals
      BY DEF PairTypes, NoRequests, IOSignals
    <3> QED BY <3>1, ToldNoRequest
  <2>4. \A c \in Connections : NoneOf(io'[c].box, {"Request"})
    BY <2>1, <2>3 DEF NoRequests, PairTypes
  <2> QED BY <2>2, <2>4 DEF NoRequests
<1>12. ASSUME TerminatedAwaitingDecoders PROVE NoRequests'
  <2>1. CASE lbox' = <<>> /\ io' = [e \in Connections |-> IF io[e].state = "none" THEN io[e] ELSE Stopped]
    <3>1. \A c \in Connections : NoneOf(io'[c].box, {"Request"})
      BY <2>1, InertActors, NoneOfNothing DEF NoRequests
    <3> QED BY <2>1, <3>1, NoneOfNothing DEF NoRequests
  <2>2. CASE lbox # <<>> /\ Consume /\ UNCHANGED io
    BY <1>5, <2>2
  <2> QED BY <1>12, <2>1, <2>2 DEF TerminatedAwaitingDecoders, Receives
<1> QED
  BY <1>2, <1>3, <1>4, <1>7, <1>8, <1>9, <1>10, <1>11, <1>12 DEF LNext

(* QUIT comes before the connection: nothing was sent on it.               *)
LEMMA QuitIdle ==
    ASSUME PairTypes, LifeInv, Live, Current, QuitWhileConnecting
    PROVE  NoRequests'
<1>1. lstate = "connecting" /\ lbox # <<>> /\ lbox' = Tail(lbox) /\ UNCHANGED io
  BY DEF QuitWhileConnecting, Receives, Consume
<1>2. Starting(lbox, requests, remaining, io[epoch], tcp[epoch])
  BY <1>1 DEF Current, Paired
<1>3. NoneOf(lbox, {"Remove"}) /\ NoneOf(io[epoch].box, {"Request"})
  BY <1>2 DEF Starting, Idle, NoneOf
<1>4. NoneOf(lbox', {"Remove"})
  BY <1>1, <1>3, NoneOfTail DEF PairTypes
<1>5. ASSUME NEW c \in Connections PROVE NoneOf(io[c].box, {"Request"})
  <2>1. CASE c = epoch
    BY <1>3, <2>1
  <2>2. CASE c # epoch
    <3>1. c < epoch \/ c > epoch
      BY <2>2 DEF PairTypes, Connections
    <3>2. io[c] \in Inert
      BY <3>1 DEF LifeInv, Live, OneLives, Inert
    <3> QED BY <3>2, InertActors, NoneOfNothing DEF Inert
  <2> QED BY <2>1, <2>2
<1> QED BY <1>1, <1>4, <1>5 DEF NoRequests

(* It is QUIT that changes shutBefore.                                     *)
LEMMA QuitsBefore ==
    ASSUME LNext, shutBefore' # shutBefore
    PROVE  QuitWhileConnecting /\ shutBefore'
<1>1. ~FailItem /\ ~QueueItem /\ ~SendItem /\ ~ItemWhileConnecting
  BY DEF FailItem, QueueItem, SendItem, ItemWhileConnecting, listenerVars, connecting
<1>2. ~OnConnected /\ ~OnConnectedAfterQuit /\ ~Receive /\ ~ReceiveInitializing
  BY DEF OnConnected, OnConnectedAfterQuit, Receive, ReceiveInitializing, connecting
<1>3. ~HandleReceiveTimeout /\ ~OnRemove /\ ~OnAbort /\ ~OnShutdown
  BY DEF HandleReceiveTimeout, OnRemove, OnAbort, OnShutdown, Acknowledge, connecting
<1>4. ~TerminatedConnecting /\ ~TerminatedInitializing /\ ~TerminatedConnected /\ ~Ignore
  BY DEF TerminatedConnecting, TerminatedInitializing, TerminatedConnected, Ignore, listenerVars
<1>5. ~TerminatedShuttingDown /\ ~TerminatedAwaitingDecoders
  BY DEF TerminatedShuttingDown, TerminatedAwaitingDecoders, connecting
<1> QED BY <1>1, <1>2, <1>3, <1>4, <1>5 DEF LNext, QuitWhileConnecting

(* A listener without a connection gets no other.                          *)
LEMMA StaysDown ==
    ASSUME PairTypes, shutBefore \in BOOLEAN, shutBefore' \in BOOLEAN, LifeInv, ~Live, LNext
    PROVE  ~Live' /\ (shutBefore => shutBefore')
<1>1. shutBefore => shutBefore'
  <2>1. ASSUME shutBefore, ~shutBefore' PROVE FALSE
    <3>1. shutBefore' # shutBefore
      BY <2>1
    <3> QED BY <2>1, <3>1, QuitsBefore
  <2> QED BY <2>1
<1>2. ASSUME ~shutBefore PROVE lstate' \in Down \/ shutBefore'
  <2>1. lstate \in Down /\ NoneLives
    BY <1>2 DEF Live, LifeInv
  <2>2. NoneOf(lbox, {"Abort", "Shutdown"})
    BY <2>1 DEF NoneLives, NoneOf, EndTypes
  <2>3. ~OnAbort /\ ~OnShutdown
    BY <2>2, NoneOfHead DEF OnAbort, OnShutdown, Acknowledge, Receives, PairTypes
  <2>4. ~QueueItem /\ ~SendItem /\ ~ItemWhileConnecting
    BY <2>1 DEF QueueItem, SendItem, ItemWhileConnecting, Down
  <2>5. ~OnConnected /\ ~Receive /\ ~ReceiveInitializing
    BY <2>1 DEF OnConnected, Receive, ReceiveInitializing, Down
  <2>6. ~HandleReceiveTimeout /\ ~TerminatedConnecting /\ ~TerminatedInitializing /\ ~TerminatedConnected
    BY <2>1 DEF HandleReceiveTimeout, TerminatedConnecting, TerminatedInitializing,
       TerminatedConnected, Down
  <2>7. FailItem \/ Ignore \/ OnRemove => lstate' = lstate
    BY DEF FailItem, Ignore, OnRemove, listenerVars
  <2>8. QuitWhileConnecting \/ OnConnectedAfterQuit \/ TerminatedShuttingDown => lstate' \in Down
    BY DEF QuitWhileConnecting, OnConnectedAfterQuit, TerminatedShuttingDown, PoisonDecoders, Down
  <2>9. TerminatedAwaitingDecoders => lstate' \in Down
    BY DEF TerminatedAwaitingDecoders, Down
  <2> QED BY <2>1, <2>3, <2>4, <2>5, <2>6, <2>7, <2>8, <2>9 DEF LNext
<1> QED BY <1>1, <1>2 DEF Live

LEMMA ListenerPairs ==
    ASSUME TypeInv, TypeInv', LifeInv, LifeInv', CleanInv, PairInv, ListenerStep
    PROVE  PairInv'
<1>1. PairTypes /\ (Live => lstate \in Alive) /\ LNext /\ UNCHANGED tcp
  BY PairTyped DEF ListenerStep
<1>b. shutBefore \in BOOLEAN /\ shutBefore' \in BOOLEAN
  BY DEF TypeInv, TypeOK, LTypeOK
<1>2. ASSUME Live' PROVE Current'
  <2>1. Live
    BY <1>1, <1>2, <1>b, StaysDown
  <2> QED BY <1>1, <1>2, <2>1, ListenerPaired DEF PairInv
<1>3. ASSUME ~Live' PROVE NoRequests'
  <2>1. CASE ~shutBefore'
    <3>1. lstate' \in Down
      BY <1>3, <2>1 DEF Live
    <3> QED BY <2>1, <3>1, DeadActors
  <2>2. CASE shutBefore
    <3>1. NoRequests /\ QuitStates
      BY <2>2 DEF PairInv, Live, LifeInv
    <3> QED BY <1>1, <2>2, <3>1, ListenerIdle
  <2>3. CASE ~shutBefore /\ shutBefore'
    <3>1. QuitWhileConnecting
      <4>1. shutBefore' # shutBefore
        BY <1>b, <2>3
      <4> QED BY <1>1, <4>1, QuitsBefore
    <3>2. Live
      BY <2>3, <3>1 DEF QuitWhileConnecting, Live, Down
    <3> QED BY <1>1, <3>1, <3>2, QuitIdle DEF PairInv
  <2> QED BY <2>1, <2>2, <2>3
<1> QED BY <1>2, <1>3 DEF PairInv

-----------------------------------------------------------------------------
(* Every step.                                                             *)

(* A step that leaves the listener as it is.                               *)
LEMMA PairKept ==
    ASSUME LifeInv', PairInv, UNCHANGED <<lstate, shutBefore>>,
           Live => Current', shutBefore => NoRequests'
    PROVE  PairInv'
<1>1. ASSUME Live' PROVE Current'
  BY <1>1 DEF Live
<1>2. ASSUME ~Live' PROVE NoRequests'
  BY <1>2, DeadActors DEF Live
<1> QED BY <1>1, <1>2 DEF PairInv

LEMMA NothingPairs ==
    ASSUME PairInv, UNCHANGED <<lstate, shutBefore, lbox, epoch, requests, remaining, io, tcp>>
    PROVE  PairInv'
BY DEF PairInv, Live, Current, Past, NoRequests

(* The listener is told something it need not account for.                 *)
LEMMA TellingPairs ==
    ASSUME TypeInv, LifeInv', PairInv, NEW m \in ListenerMessage,
           m.type \notin {"Received"} \cup EndTypes,
           lbox' = AfterTellingListener(lbox, <<m>>),
           UNCHANGED <<lstate, shutBefore, epoch, requests, remaining, io, tcp>>
    PROVE  PairInv'
<1>1. PairTypes /\ m.type \notin {"Received", "Remove", "Terminated", "Shutdown", "Abort", "Connected"}
  BY PairTyped DEF EndTypes
<1>2. ASSUME Live PROVE Current'
  <2>1. Paired(lstate, lbox, requests, remaining, io[epoch], tcp[epoch]) /\ lbox' = lbox \o <<m>>
    BY <1>2 DEF PairInv, Current, AfterTellingListener, Live, Down
  <2>2. Paired(lstate, lbox \o <<m>>, requests, remaining, io[epoch], tcp[epoch])
    BY <1>1, <2>1, PairedTold DEF PairTypes
  <2> QED BY <1>2, <2>1, <2>2, CurrentStays DEF PairInv
<1>3. ASSUME shutBefore PROVE NoRequests'
  <2>1. NoRequests
    BY <1>3 DEF PairInv, Live
  <2>2. NoneOf(lbox', {"Remove"})
    BY <1>1, <2>1, NothingToRemove DEF NoRequests, PairTypes
  <2> QED BY <2>1, <2>2 DEF NoRequests
<1> QED BY <1>2, <1>3, PairKept

LEMMA PairInit == Init => PairInv
<1> SUFFICES ASSUME Init PROVE PairInv
  OBVIOUS
<1>1. /\ lbox = <<>> /\ lstate = "connecting" /\ epoch = 1 /\ remaining = <<>> /\ requests = <<>>
      /\ ~shutBefore /\ io = [e \in Connections |-> IF e = 1 THEN NewIOActor ELSE NoIOActor]
      /\ tcp = [c \in Connections |-> Fresh]
  BY DEF Init, LInit, TcpInit
<1>2. 1 \in Connections /\ \A c \in Connections : ~(c < 1)
  BY SharedAssumption DEF Connections
<1>3. io[epoch] = NewIOActor /\ tcp[epoch] = Fresh /\ Past
  BY <1>1, <1>2 DEF Past
<1>4. Paired("connecting", <<>>, <<>>, <<>>, NewIOActor, Fresh)
  BY NewPaired, NoneOfNothing
<1>5. Current
  BY <1>1, <1>3, <1>4 DEF Current
<1> QED BY <1>1, <1>5 DEF PairInv, Live, Down

LEMMA PairStep ==
    ASSUME Whole, TypeInv, TypeInv', LifeInv, LifeInv', Delivery, CleanInv, PairInv, [Next]_vars
    PROVE  PairInv'
<1>1. ASSUME NEW t \in Threads, Check(t) PROVE PairInv'
  BY <1>1, NothingPairs DEF Check, listenerVars
<1>2. ASSUME NEW item, CompleteTransaction(item) PROVE PairInv'
  BY <1>2, NothingPairs DEF CompleteTransaction, listenerVars
<1>3. ASSUME NEW t \in Threads, Post(t) PROVE PairInv'
  <2>1. NextItem(t) \in Item
    BY <1>3, NextItemType DEF Post, TypeInv, AdmittedHasItem
  <2>2. NextItem(t) \in ListenerMessage /\ NextItem(t).type \in {"Request", "Transaction"}
    BY <2>1 DEF ListenerMessage, Item
  <2>3. /\ lbox' = AfterTellingListener(lbox, <<NextItem(t)>>)
        /\ UNCHANGED <<lstate, shutBefore, epoch, requests, remaining, io, tcp>>
    BY <1>3 DEF Post, listenerVars
  <2>4. NextItem(t).type \notin {"Received"} \cup EndTypes
    BY <2>2 DEF EndTypes
  <2> QED BY <2>2, <2>3, <2>4, TellingPairs
<1>4. ASSUME ListenerStep PROVE PairInv'
  BY <1>4, ListenerPairs
<1>5. ASSUME NEW d \in Decoders, DecoderStep(d) PROVE PairInv'
  <2>1. UNCHANGED <<lstate, shutBefore, epoch, requests, remaining, io, tcp>>
    BY <1>5 DEF DecoderStep, listenerVars
  <2>2. CASE DecodePartition(d)
    BY <2>1, <2>2, NothingPairs DEF DecodePartition
  <2>3. CASE DecoderStop(d)
    <3>1. ~Live
      <4>1. dbox[d] \in Seq(DecoderMessage) /\ dbox[d] # <<>> /\ Head(dbox[d]).type = "PoisonPill"
        BY <2>3 DEF DecoderStop, TypeInv, TypeOK, LTypeOK
      <4>2. ~NoneOf(dbox[d], {"PoisonPill"})
        BY <4>1, NoneOfHead
      <4> QED BY <4>2 DEF LifeInv, OneLives, Live
    <3>2. ASSUME shutBefore PROVE NoRequests'
      <4>1. NoRequests /\ lbox \in Seq(ListenerMessage)
        BY <3>1, PairTyped DEF PairInv, PairTypes
      <4>2. \E s \in ListenerSignals \ {"Remove"} : Tell(s)
        BY <2>3 DEF DecoderStop, ListenerSignals
      <4>3. NoneOf(lbox', {"Remove"})
        BY <4>1, <4>2, SignalsRemoveNothing DEF NoRequests
      <4> QED BY <2>1, <4>1, <4>3 DEF NoRequests
    <3> QED BY <2>1, <3>1, <3>2, PairKept
  <2> QED BY <1>5, <2>2, <2>3 DEF DecoderStep
<1>6. ConnTypes /\ lbox \in Seq(ListenerMessage)
      /\ \A c \in Connections : ConnInv(io[c], tcp[c])
  BY DEF TypeInv, TypeOK, LTypeOK, TcpTypeOK, ConnTypes, Delivery
<1>7. ASSUME NEW c \in Connections, UNCHANGED listenerVars,
             \/ IONext(c)
             \/ (FireConnectTimeout(c) \/ FireAbortTimeout(c)) /\ UNCHANGED tcp
             \/ TcpConnect(c) \/ TcpConnectFail(c) \/ TcpWrite(c) \/ TcpWriteFail(c) \/ TcpRead(c)
             \/ TcpAbort(c) \/ TcpQuit(c) \/ TcpDrop(c)
      PROVE  PairInv'
  <2>1. UNCHANGED <<lstate, shutBefore>>
    BY <1>7 DEF listenerVars
  <2>2. Live => Current'
    BY <1>7, OnePaired DEF PairInv
  <2>3. ASSUME shutBefore PROVE NoRequests'
    <3>1. NoRequests /\ NoneOf(io[c].box, {"Request"}) /\ NoneOf(lbox, {"Remove"})
      BY <2>3 DEF PairInv, Live, NoRequests
    <3>2. OneForward(c)
      BY <1>6, <1>7, IOForward, ConnectionForward
    <3>3. ~TcpWriteFail(c)
      BY DEF Whole, TcpWriteFail, Fault
    <3>4. NoneOf(io'[c].box, {"Request"}) /\ NoneOf(lbox', {"Remove"})
      <4>1. CASE IONext(c)
        BY <1>6, <3>1, <4>1, IdleActor, SignalsRemoveNothing
      <4>2. CASE ~IONext(c)
        BY <1>6, <1>7, <3>1, <3>3, <4>2, IdleConnection
      <4> QED BY <4>1, <4>2
    <3> QED BY <3>1, <3>2, <3>4, OneIdle
  <2> QED BY <2>1, <2>2, <2>3, PairKept
<1>8. ASSUME NEW c \in Connections, IOStep(c) PROVE PairInv'
  BY <1>7, <1>8 DEF IOStep
<1>9. ASSUME NEW c \in Connections, ConnectTimeoutFires(c) \/ AbortTimeoutFires(c) PROVE PairInv'
  <2>1. (FireConnectTimeout(c) \/ FireAbortTimeout(c)) /\ UNCHANGED tcp /\ UNCHANGED listenerVars
    BY <1>9 DEF ConnectTimeoutFires, AbortTimeoutFires, FireConnectTimeout, FireAbortTimeout
  <2> QED BY <1>7, <2>1
<1>10. ~Crash
  BY DEF Crash, Fault, Whole
<1>11. ASSUME NEW c \in Connections, TcpStep(c) PROVE PairInv'
  BY <1>7, <1>11 DEF TcpStep, user
<1>12. ASSUME Faulty PROVE PairInv'
  BY <1>7, <1>12 DEF Faulty, user
<1>13. ASSUME NEW c \in Connections, Execute(c) PROVE PairInv'
  <2>1. UNCHANGED <<lstate, shutBefore>>
    BY <1>13 DEF Execute, user, listenerVars
  <2>2. Live => Current'
    BY <1>13, ExecutePaired DEF PairInv
  <2>3. ASSUME shutBefore PROVE NoRequests'
    <3>1. NoRequests
      BY <2>3 DEF PairInv, Live
    <3>2. UNCHANGED <<io, lbox>>
      BY <1>13 DEF Execute, ServerExecute, ServerSkip
    <3> QED BY <3>1, <3>2 DEF NoRequests
  <2> QED BY <2>1, <2>2, <2>3, PairKept
<1>14. ASSUME ReceiveTimeoutFires PROVE PairInv'
  <2>1. /\ UNCHANGED <<lstate, shutBefore, epoch, requests, remaining, io, tcp>>
        /\ lbox' = AfterTellingListener(lbox, <<Signal("ReceiveTimeout")>>)
    BY <1>14 DEF ReceiveTimeoutFires, FireReceiveTimeout
  <2>2. Signal("ReceiveTimeout") \in ListenerMessage
    BY SignalType DEF ListenerSignals
  <2>3. Signal("ReceiveTimeout").type \notin {"Received"} \cup EndTypes
    BY DEF Signal, EndTypes
  <2> QED BY <2>1, <2>2, <2>3, TellingPairs
<1>15. ASSUME UNCHANGED vars PROVE PairInv'
  BY <1>15, NothingPairs DEF vars, listenerVars
<1> QED
  BY <1>1, <1>2, <1>3, <1>4, <1>5, <1>8, <1>9, <1>10, <1>11, <1>12, <1>13, <1>14, <1>15 DEF Next

(* A rejected request is known to the listener.                            *)
LEMMA PairRemoves ==
    ASSUME TypeInv, PairInv
    PROVE  RemoveFindsARequest
<1> SUFFICES ASSUME lstate # "stopped", Receives("Remove") PROVE requests # <<>>
  BY DEF RemoveFindsARequest
<1>1. PairTypes /\ (Live => lstate \in Alive)
  BY PairTyped
<1>2. Live
  <2>1. ~NoneOf(lbox, {"Remove"})
    BY <1>1, NoneOfHead DEF Receives, PairTypes
  <2> QED BY <2>1 DEF PairInv, NoRequests
<1> QED BY <1>1, <1>2, RemovePaired DEF PairInv

(* Whatever batches are rejected, however reads and reconnections cut into *)
(* them, the listener has a request for every Remove it is told, and       *)
(* requests.removeFirst() of ListenerActor does not throw: where no write  *)
(* fails and no IOActor crashes, and no connection is dropped within a     *)
(* reply.                                                                  *)
THEOREM RemovesFindRequests ==
    ASSUME Whole
    PROVE  Spec => []RemoveFindsARequest
<1> DEFINE I == TypeInv /\ LifeInv /\ Delivery /\ CleanInv /\ PairInv
<1>1. Init => I
  BY TypeInit, LifeInit, DeliveryInit, CleanInit, PairInit
<1>2. I /\ [Next]_vars => I'
  <2> SUFFICES ASSUME I, [Next]_vars PROVE I'
    OBVIOUS
  <2>1. TypeInv'
    BY TypeStep
  <2>2. LifeInv' /\ Delivery'
    BY <2>1, LifeStep, DeliveryStep
  <2>3. CleanInv'
    BY <2>1, CleanStep
  <2>4. PairInv'
    BY <2>1, <2>2, PairStep
  <2> QED BY <2>1, <2>2, <2>3, <2>4
<1>3. I => RemoveFindsARequest
  BY PairRemoves
<1> QED BY <1>1, <1>2, <1>3, PTL DEF Spec

-----------------------------------------------------------------------------
(* The whole pipeline.                                                     *)

LEMMA DeliveredType ==
    ASSUME lbox \in Seq(ListenerMessage)
    PROVE  Delivered \in Seq(Reply) /\ Conveys(lbox, "Received", Names(Delivered))
<1> DEFINE ls == [k \in DOMAIN lbox |-> IF lbox[k].type = "Received" THEN lbox[k].data.replies ELSE <<>>]
           ms == Loads(lbox, "Received")
           f == [p \in Reply |-> p.to]
<1>1. \A m \in ListenerMessage : m.type = "Received" => m.data.replies \in Seq(Reply)
  BY DEF ListenerMessage, Item, ListenerSignals, Data
<1>2. /\ ls \in Seq(Seq(Reply)) /\ Len(ls) = Len(lbox)
      /\ \A k \in 1..Len(lbox) :
           ls[k] = IF lbox[k].type = "Received" THEN lbox[k].data.replies ELSE <<>>
  <2> DEFINE part(k) == IF lbox[k].type = "Received" THEN lbox[k].data.replies ELSE <<>>
  <2>1. \A k \in 1..Len(lbox) : part(k) \in Seq(Reply)
    <3>1. <<>> \in Seq(Reply) /\ \A k \in 1..Len(lbox) : lbox[k] \in ListenerMessage
      OBVIOUS
    <3> QED BY <1>1, <3>1
  <2>2. ls = [k \in 1..Len(lbox) |-> part(k)]
    OBVIOUS
  <2> HIDE DEF part, ls
  <2>3. ls \in Seq(Seq(Reply)) /\ Len(ls) = Len(lbox) /\ \A k \in 1..Len(lbox) : ls[k] = part(k)
    BY <2>1, <2>2
  <2> QED BY <2>3 DEF part
<1>3. /\ ms \in Seq(Seq(Idents)) /\ Len(ms) = Len(lbox)
      /\ \A k \in 1..Len(lbox) : ms[k] = Load(lbox[k], "Received")
  BY LoadsType, BoxesFit
<1>5. Delivered = Lists!FlattenSeq(ls)
  BY DEF Delivered
<1> HIDE DEF ls, ms
<1>6. Delivered \in Seq(Reply) /\ Flat(ls, Delivered)
  BY <1>2, <1>5, FlattenIsFlat
<1>7. ASSUME NEW k \in 1..Len(ls)
      PROVE  Mapped(f, ls[k], ms[k])
  <2>1. k \in 1..Len(lbox) /\ ls[k] \in Seq(Reply)
    BY <1>2
  <2>2. CASE lbox[k].type = "Received"
    <3>1. ms[k] = Names(ls[k])
      BY <1>2, <1>3, <2>1, <2>2, LoadKinds
    <3>2. Len(ms[k]) = Len(ls[k]) /\ \A j \in 1..Len(ls[k]) : ms[k][j] = ls[k][j].to /\ ls[k][j] \in Reply
      BY <2>1, <3>1, NamesType
    <3> QED BY <3>2 DEF Mapped
  <2>3. CASE lbox[k].type # "Received"
    <3>1. ls[k] = <<>> /\ ms[k] = <<>>
      BY <1>2, <1>3, <2>1, <2>3, LoadKinds
    <3> QED BY <3>1 DEF Mapped
  <2> QED BY <2>2, <2>3
<1>8. Names(Delivered) \in Seq(Idents) /\ Mapped(f, Delivered, Names(Delivered))
  <2>1. \A i \in 1..Len(Delivered) : Delivered[i] \in Reply
    BY <1>6
  <2> QED BY <1>6, <2>1, NamesType DEF Mapped
<1> HIDE DEF f
<1>9. AllMapped(f, ls, ms)
  BY <1>2, <1>3, <1>7 DEF AllMapped
<1>10. Flat(ms, Names(Delivered))
  BY <1>2, <1>6, <1>8, <1>9, FlatMap
<1> QED BY <1>6, <1>8, <1>10 DEF Conveys, ms

LEMMA RequestsInType ==
    ASSUME NEW box \in Seq(IOMessage)
    PROVE  RequestsIn(box) \in Seq(Request) /\ Conveys(box, "Request", Asked(RequestsIn(box)))
<1> DEFINE ls == [k \in DOMAIN box |-> IF box[k].type = "Request" THEN <<box[k].req>> ELSE <<>>]
           ms == Loads(box, "Request")
           f == [r \in Request |-> r.id]
           rs == RequestsIn(box)
<1>1. \A m \in IOMessage : m.type = "Request" => m.req \in Request
  BY DEF IOMessage, IOSignals
<1>2. /\ ls \in Seq(Seq(Request)) /\ Len(ls) = Len(box)
      /\ \A k \in 1..Len(box) : ls[k] = IF box[k].type = "Request" THEN <<box[k].req>> ELSE <<>>
  <2> DEFINE part(k) == IF box[k].type = "Request" THEN <<box[k].req>> ELSE <<>>
  <2>1. \A k \in 1..Len(box) : part(k) \in Seq(Request)
    <3>1. <<>> \in Seq(Request) /\ \A k \in 1..Len(box) : box[k] \in IOMessage
      OBVIOUS
    <3>2. \A x \in Request : <<x>> \in Seq(Request)
      OBVIOUS
    <3> QED BY <1>1, <3>1, <3>2
  <2>2. ls = [k \in 1..Len(box) |-> part(k)]
    OBVIOUS
  <2> HIDE DEF part, ls
  <2>3. ls \in Seq(Seq(Request)) /\ Len(ls) = Len(box) /\ \A k \in 1..Len(box) : ls[k] = part(k)
    BY <2>1, <2>2
  <2> QED BY <2>3 DEF part
<1>3. /\ ms \in Seq(Seq(Idents)) /\ Len(ms) = Len(box)
      /\ \A k \in 1..Len(box) : ms[k] = Load(box[k], "Request")
  BY LoadsType, BoxesFit
<1>5. rs = Lists!FlattenSeq(ls)
  BY DEF RequestsIn
<1> HIDE DEF ls, ms, rs
<1>6. rs \in Seq(Request) /\ Flat(ls, rs)
  BY <1>2, <1>5, FlattenIsFlat
<1>7. ASSUME NEW k \in 1..Len(ls)
      PROVE  Mapped(f, ls[k], ms[k])
  <2>1. k \in 1..Len(box) /\ box[k] \in IOMessage
    BY <1>2
  <2>2. CASE box[k].type = "Request"
    <3>1. ls[k] = <<box[k].req>> /\ ms[k] = <<box[k].req.id>> /\ box[k].req \in Request
      BY <1>1, <1>2, <1>3, <2>1, <2>2, LoadKinds
    <3> QED BY <3>1 DEF Mapped
  <2>3. CASE box[k].type # "Request"
    <3>1. ls[k] = <<>> /\ ms[k] = <<>>
      BY <1>2, <1>3, <2>1, <2>3, LoadKinds
    <3> QED BY <3>1 DEF Mapped
  <2> QED BY <2>2, <2>3
<1>8. Asked(rs) \in Seq(Idents) /\ Mapped(f, rs, Asked(rs))
  <2>1. \A i \in 1..Len(rs) : rs[i] \in Request
    BY <1>6
  <2> QED BY <1>6, <2>1, AskedType DEF Mapped
<1> HIDE DEF f
<1>9. AllMapped(f, ls, ms)
  BY <1>2, <1>3, <1>7 DEF AllMapped
<1>10. Flat(ms, Asked(rs))
  BY <1>2, <1>6, <1>8, <1>9, FlatMap
<1> QED BY <1>6, <1>8, <1>10 DEF Conveys, ms, rs

(* A mailbox carries one sequence.                                         *)
LEMMA ConveysOne ==
    ASSUME NEW M, NEW kind, Fits(M, kind), NEW box \in Seq(M),
           NEW s, NEW z, Conveys(box, kind, s), Conveys(box, kind, z)
    PROVE  s = z
<1> DEFINE ls == Loads(box, kind)
<1>1. ls \in Seq(Seq(Idents)) /\ s \in Seq(Idents) /\ z \in Seq(Idents) /\ Flat(ls, s) /\ Flat(ls, z)
  BY LoadsType DEF Conveys
<1> HIDE DEF ls
<1> QED BY <1>1, FlatIsUnique

LEMMA RequestsGroup ==
    ASSUME NEW p \in Seq(Request), NEW q \in Seq(Request), NEW z \in Seq(Request)
    PROVE  (p \o q) \o z = p \o (q \o z)
BY ConcatAssociative

LEMMA FlowIsInOrder ==
    ASSUME TypeInv, LifeInv, CleanInv, PairInv
    PROVE  PipelineInOrder
<1> SUFFICES ASSUME Working
             PROVE  Asked(requests) = Names(Delivered) \o Names(tcp[epoch].net) \o Asked(OnTheirWay)
  BY DEF PipelineInOrder
<1> DEFINE a == io[epoch]
           t == tcp[epoch]
           u == RequestsIn(a.box)
<1>1. /\ epoch \in Connections /\ a \in IOType /\ t \in TcpType /\ lbox \in Seq(ListenerMessage)
      /\ lstate \in Receiving /\ a.state = "connected" /\ t.state = "open"
  BY PairTyped DEF PairTypes, Working, Receiving
<1>2. /\ a.box \in Seq(IOMessage) /\ a.requests \in Seq(Request)
      /\ t.wire \in Seq(Request) /\ t.writing \in Seq(Request) /\ t.net \in Seq(Reply)
  BY <1>1 DEF IOType, TcpType
<1>3. Live
  BY <1>1 DEF LifeInv, QuitStates, Live, Receiving, Down
<1>4. Flow(lbox, requests, a, t)
  BY <1>1, <1>3 DEF PairInv, Current, Paired, Flowing
<1>5. ~WriteFailed(a)
  <2>1. a.box \in Seq(CleanIO)
    BY <1>1 DEF CleanInv, CleanActor
  <2>2. \A k \in DOMAIN a.box : a.box[k] \in CleanIO
    BY <2>1
  <2> QED BY <2>2 DEF CleanIO, WriteFailed
<1>6. OnTheirWay = t.wire \o t.writing \o <<>> \o a.requests \o u
  BY <1>5 DEF OnTheirWay
<1> HIDE DEF a, t
<1>7. PICK d, s, q, r :
        /\ Parts(lbox, a.box, d, s, q) /\ r \in Seq(Idents) /\ Asked(requests) = d \o r
        /\ r = Rest(a, t, s)
  BY <1>1, <1>4 DEF Flow
<1>8. Delivered \in Seq(Reply) /\ u \in Seq(Request) /\ d = Names(Delivered) /\ s = Asked(u)
  BY <1>1, <1>2, <1>7, DeliveredType, RequestsInType, ConveysOne, BoxesFit DEF Parts
<1> HIDE DEF u
<1>9. OnTheirWay \in Seq(Request)
      /\ Asked(OnTheirWay) = Asked(t.wire) \o (Asked(t.writing) \o (Asked(a.requests) \o Asked(u)))
  <2> DEFINE w == t.wire
             x == t.writing
             y == a.requests
  <2>1. w \in Seq(Request) /\ x \in Seq(Request) /\ y \in Seq(Request) /\ u \in Seq(Request)
        /\ OnTheirWay = w \o x \o <<>> \o y \o u
    BY <1>2, <1>6, <1>8
  <2> HIDE DEF w, x, y
  <2>2. /\ w \o x \in Seq(Request) /\ w \o x \o <<>> = w \o x
        /\ y \o u \in Seq(Request) /\ x \o (y \o u) \in Seq(Request)
    BY <2>1
  <2>3. OnTheirWay = (w \o x) \o (y \o u)
    <3> DEFINE z == w \o x
    <3>1. z \in Seq(Request) /\ OnTheirWay = ((z \o <<>>) \o y) \o u /\ z \o <<>> = z
      BY <2>1, <2>2
    <3> HIDE DEF z
    <3>2. (z \o y) \o u = z \o (y \o u)
      BY <2>1, <3>1, RequestsGroup
    <3>3. OnTheirWay = (z \o y) \o u
      BY <3>1, Zenon
    <3> QED BY <3>2, <3>3 DEF z
  <2>4. OnTheirWay = w \o (x \o (y \o u))
    <3> DEFINE z == y \o u
    <3>1. z \in Seq(Request) /\ OnTheirWay = (w \o x) \o z
      BY <2>2, <2>3
    <3> HIDE DEF z
    <3>2. (w \o x) \o z = w \o (x \o z)
      BY <2>1, <3>1, RequestsGroup, ZenonT(30)
    <3> QED BY <3>1, <3>2 DEF z
  <2>5. Asked(OnTheirWay) = Asked(w) \o Asked(x \o (y \o u))
    BY <2>1, <2>2, <2>4, AskedConcat
  <2>6. Asked(x \o (y \o u)) = Asked(x) \o Asked(y \o u)
    BY <2>1, <2>2, AskedConcat
  <2>7. Asked(y \o u) = Asked(y) \o Asked(u)
    BY <2>1, AskedConcat
  <2>8. OnTheirWay \in Seq(Request)
    BY <2>1, <2>2, <2>3
  <2> QED BY <2>5, <2>6, <2>7, <2>8 DEF w, x, y
<1>10. /\ Names(Delivered) \in Seq(Idents) /\ Names(t.net) \in Seq(Idents)
       /\ Asked(OnTheirWay) \in Seq(Idents)
  BY <1>2, <1>8, <1>9, NamesType, AskedType
<1>11. Asked(requests) = Names(Delivered) \o (Names(t.net) \o Asked(OnTheirWay))
  BY <1>7, <1>8, <1>9 DEF Rest, Row
<1>12. Asked(requests) = Names(Delivered) \o Names(t.net) \o Asked(OnTheirWay)
  BY <1>10, <1>11
<1> QED BY <1>12 DEF t

(* While a connection works, requests of ListenerActor is, one by one and  *)
(* in order, what is still to come: the replies not yet looked at, those   *)
(* on the wire, and the requests the server, the write under way and the   *)
(* IOActor have still to work through; for every workload, any batches,    *)
(* reads and reconnections, where no write fails, no IOActor crashes and   *)
(* no connection is dropped within a reply.                                *)
THEOREM PipelineStaysInOrder ==
    ASSUME Whole
    PROVE  Spec => []PipelineInOrder
<1> DEFINE I == TypeInv /\ LifeInv /\ Delivery /\ CleanInv /\ PairInv
<1>1. Init => I
  BY TypeInit, LifeInit, DeliveryInit, CleanInit, PairInit
<1>2. I /\ [Next]_vars => I'
  <2> SUFFICES ASSUME I, [Next]_vars PROVE I'
    OBVIOUS
  <2>1. TypeInv'
    BY TypeStep
  <2>2. LifeInv' /\ Delivery'
    BY <2>1, LifeStep, DeliveryStep
  <2>3. CleanInv'
    BY <2>1, CleanStep
  <2>4. PairInv'
    BY <2>1, <2>2, PairStep
  <2> QED BY <2>1, <2>2, <2>3, <2>4
<1>3. I => PipelineInOrder
  BY FlowIsInOrder
<1> QED BY <1>1, <1>2, <1>3, PTL DEF Spec

-----------------------------------------------------------------------------
(* What the decoders are given.                                            *)

(* The replies of a partition are those of its requests.                   *)
Matched(p) ==
    \A j \in DOMAIN p.reqs : /\ p.replies[p.skip + j].to = p.reqs[j].id
                             /\ p.replies[p.skip + j].kind # "garbled"
AllMatched(box) == \A k \in DOMAIN box : box[k].type = "Partition" => Matched(box[k])
Sound == RepliesReachTheirRequests /\ \A d \in Decoders : AllMatched(dbox[d])

LEMMA MatchedTail ==
    ASSUME NEW S, NEW box \in Seq(S), box # <<>>, AllMatched(box)
    PROVE  /\ AllMatched(Tail(box))
           /\ Head(box).type = "Partition" => Matched(Head(box))
<1>1. /\ \A k \in DOMAIN Tail(box) : Tail(box)[k] = box[k + 1] /\ k + 1 \in DOMAIN box
      /\ Head(box) = box[1] /\ 1 \in DOMAIN box
  OBVIOUS
<1> QED BY <1>1 DEF AllMatched

LEMMA MatchedMore ==
    ASSUME NEW S, NEW box \in Seq(S), AllMatched(box), NEW m, m.type = "Partition" => Matched(m)
    PROVE  AllMatched(Append(box, m))
<1>1. \A k \in DOMAIN Append(box, m) : \/ k \in DOMAIN box /\ Append(box, m)[k] = box[k]
                                       \/ Append(box, m)[k] = m
  OBVIOUS
<1> QED BY <1>1 DEF AllMatched

(* No promise is completed with the reply to another.                      *)
LEMMA CompletesNoneWrong ==
    ASSUME RepliesReachTheirRequests, NEW ids, NEW result, result # "wrong",
           outcome' = Complete(ids, result)
    PROVE  RepliesReachTheirRequests'
BY DEF RepliesReachTheirRequests, Complete

LEMMA VerdictOfMatched ==
    ASSUME NEW p \in Partition, Matched(p), NEW k \in DOMAIN p.reqs
    PROVE  Verdict(p.reqs[k], p.replies[p.skip + k]) # "wrong"
<1> DEFINE r == p.reqs[k]
           reply == p.replies[p.skip + k]
<1>1. /\ p.reqs \in Seq(Request) /\ p.replies \in Seq(Reply) /\ p.skip \in Nat
      /\ p.skip + Len(p.reqs) = Len(p.replies)
  BY DEF Partition
<1>2. reply \in Reply
  <2>1. k \in 1..Len(p.reqs) /\ Len(p.reqs) \in Nat
    BY <1>1
  <2>2. p.skip + k \in 1..Len(p.replies)
    BY <1>1, <2>1
  <2> QED BY <1>1, <2>2
<1>3. reply.to = r.id /\ reply.kind # "garbled"
  BY DEF Matched
<1>4. reply.kind \in {"ok", "queued", "error"}
  BY <1>2, <1>3 DEF Reply
<1> HIDE DEF r, reply
<1>5. Verdict(r, reply) # "wrong"
  BY <1>3, <1>4 DEF Verdict
<1> QED BY <1>5 DEF r, reply

LEMMA DecodersSound ==
    ASSUME TypeInv, Sound, NEW d \in Decoders, DecodePartition(d) \/ DecoderStop(d)
    PROVE  Sound'
<1>1. dbox \in [Decoders -> Seq(DecoderMessage)] /\ dbox[d] \in Seq(DecoderMessage)
      /\ AllMatched(dbox[d])
  BY DEF TypeInv, TypeOK, LTypeOK, Sound
<1>2. CASE DecodePartition(d)
  <2> DEFINE p == Head(dbox[d])
             Mine(i) == {k \in DOMAIN p.reqs : p.reqs[k].id = i}
  <2>1. /\ dbox[d] # <<>> /\ p.type = "Partition" /\ dbox' = [dbox EXCEPT ![d] = Tail(@)]
        /\ outcome' = [i \in Ids |->
             IF outcome[i] = "pending" /\ Mine(i) # {}
             THEN Verdict(p.reqs[CHOOSE k \in Mine(i) : TRUE],
                          p.replies[p.skip + (CHOOSE k \in Mine(i) : TRUE)])
             ELSE outcome[i]]
    BY <1>2 DEF DecodePartition
  <2>2. p \in Partition /\ Matched(p) /\ AllMatched(Tail(dbox[d]))
    <3>1. p \in DecoderMessage
      BY <1>1, <2>1, HeadAndTail
    <3>2. p \in Partition
      BY <2>1, <3>1 DEF DecoderMessage
    <3> QED BY <1>1, <2>1, <3>2, MatchedTail
  <2>3. \A d2 \in Decoders : AllMatched(dbox'[d2])
    BY <1>1, <2>1, <2>2 DEF Sound
  <2> HIDE DEF p
  <2>4. ASSUME NEW i \in Ids PROVE outcome'[i] # "wrong"
    <3>1. CASE outcome[i] = "pending" /\ Mine(i) # {}
      <4> DEFINE k == CHOOSE k \in Mine(i) : TRUE
      <4>1. k \in DOMAIN p.reqs
        BY <3>1
      <4>2. outcome'[i] = Verdict(p.reqs[k], p.replies[p.skip + k])
        BY <2>1, <3>1
      <4> HIDE DEF k
      <4> QED BY <2>2, <4>1, <4>2, VerdictOfMatched
    <3>2. CASE ~(outcome[i] = "pending" /\ Mine(i) # {})
      BY <2>1, <3>2 DEF Sound, RepliesReachTheirRequests
    <3> QED BY <3>1, <3>2
  <2> QED BY <2>3, <2>4 DEF Sound, RepliesReachTheirRequests
<1>3. CASE DecoderStop(d)
  <2>1. dbox' = [dbox EXCEPT ![d] = <<>>] /\ UNCHANGED outcome
    BY <1>3 DEF DecoderStop
  <2>2. AllMatched(<<>>)
    BY DEF AllMatched
  <2> QED BY <1>1, <2>1, <2>2 DEF Sound, RepliesReachTheirRequests
<1> QED BY <1>2, <1>3

(* The listener pairs what it reads with the requests it is about.         *)
LEMMA ReceiveSound ==
    ASSUME TypeInv, LifeInv, CleanInv, PairInv, Sound, lstate \in Receiving, Receives("Received"),
           ReceiveData(Head(lbox).data)
    PROVE  \A d \in Decoders : AllMatched(dbox'[d])
<1> DEFINE data == Head(lbox).data
           replies == Parsed(data)
           count == IF Len(replies) > Len(requests) THEN Len(requests) ELSE Len(replies)
           p == [type |-> "Partition", replies |-> replies,
                 reqs |-> SubSeq(requests, 1, count), skip |-> Len(replies) - count]
<1>1. PairTypes /\ dbox \in [Decoders -> Seq(DecoderMessage)] /\ lbox # <<>>
      /\ Head(lbox).type = "Received" /\ requests \in Seq(Request)
  BY PairTyped DEF TypeInv, TypeOK, LTypeOK, Receives, PairTypes
<1>2. Live
  BY DEF LifeInv, QuitStates, Live, Down, Receiving
<1>3. /\ replies = data.replies /\ Len(data.replies) <= Len(requests)
      /\ \A j \in 1..Len(data.replies) : data.replies[j].to = requests[j].id
  BY <1>1, <1>2, ListenerReads DEF PairInv
<1>4. data.replies \in Seq(Legible)
  BY <1>1, CleanFirst DEF CleanInv
<1>5. \/ UNCHANGED dbox
      \/ \E d \in Decoders : dbox' = [dbox EXCEPT ![d] = Append(@, p)]
  BY DEF ReceiveData
<1>6. p.reqs = SubSeq(requests, 1, count) /\ p.replies = replies /\ p.skip = Len(replies) - count
  OBVIOUS
<1> HIDE DEF data, replies, p
<1>7. Matched(p)
  <2>1. Len(replies) \in Nat /\ Len(requests) \in Nat /\ replies \in Seq(Legible)
    BY <1>1, <1>3, <1>4
  <2>2. count = Len(replies)
    BY <1>3, <2>1
  <2>3. /\ p.skip = 0 /\ DOMAIN p.reqs = 1..Len(replies)
        /\ \A j \in 1..Len(replies) : p.reqs[j] = requests[j]
    BY <1>1, <1>3, <1>6, <2>1, <2>2
  <2>4. ASSUME NEW j \in DOMAIN p.reqs
        PROVE  /\ p.replies[p.skip + j].to = p.reqs[j].id
               /\ p.replies[p.skip + j].kind # "garbled"
    <3>1. j \in 1..Len(replies) /\ p.skip + j = j
      BY <2>3
    <3>2. replies[j] \in Legible
      BY <2>1, <3>1
    <3>3. replies[j].to = requests[j].id
      BY <1>3, <3>1
    <3> QED BY <1>6, <2>3, <3>1, <3>2, <3>3 DEF Legible
  <2> QED BY <2>4 DEF Matched
<1>8. CASE UNCHANGED dbox
  BY <1>8 DEF Sound
<1>9. CASE \E d \in Decoders : dbox' = [dbox EXCEPT ![d] = Append(@, p)]
  <2>1. PICK d \in Decoders : dbox' = [dbox EXCEPT ![d] = Append(@, p)]
    BY <1>9
  <2>2. AllMatched(Append(dbox[d], p))
    BY <1>1, <1>7, MatchedMore DEF Sound
  <2> QED BY <1>1, <2>1, <2>2 DEF Sound
<1> QED BY <1>5, <1>8, <1>9

LEMMA PoisonSound ==
    ASSUME TypeInv, Sound, PoisonDecoders
    PROVE  \A d \in Decoders : AllMatched(dbox'[d])
<1> SUFFICES ASSUME NEW d \in Decoders PROVE AllMatched(dbox'[d])
  OBVIOUS
<1>1. dbox[d] \in Seq(DecoderMessage) /\ AllMatched(dbox[d])
  BY DEF TypeInv, TypeOK, LTypeOK, Sound
<1>2. dbox'[d] = dbox[d] \/ dbox'[d] = Append(dbox[d], Signal("PoisonPill"))
  BY DEF PoisonDecoders
<1>3. Signal("PoisonPill").type # "Partition"
  BY DEF Signal
<1> QED BY <1>1, <1>2, <1>3, MatchedMore

LEMMA StaysSound ==
    ASSUME Sound, UNCHANGED <<outcome, dbox>>
    PROVE  Sound'
BY DEF Sound, RepliesReachTheirRequests

LEMMA CompletesSound ==
    ASSUME Sound, UNCHANGED dbox, NEW ids, NEW result, result # "wrong",
           outcome' = Complete(ids, result)
    PROVE  Sound'
<1>1. RepliesReachTheirRequests'
  BY CompletesNoneWrong DEF Sound
<1> QED BY <1>1 DEF Sound

LEMMA ListenerSound ==
    ASSUME TypeInv, LifeInv, CleanInv, PairInv, Sound, LNext
    PROVE  Sound'
<1>1. ASSUME FailItem \/ SendItem PROVE Sound'
  <2>1. UNCHANGED dbox /\ \E ids : outcome' = Complete(ids, "failed")
    BY <1>1 DEF FailItem, SendItem
  <2> QED BY <2>1, CompletesSound
<1>2. ASSUME ItemWhileConnecting PROVE Sound'
  <2>1. UNCHANGED dbox /\ (UNCHANGED outcome \/ \E ids : outcome' = Complete(ids, "failed"))
    BY <1>2 DEF ItemWhileConnecting
  <2> QED BY <2>1, CompletesSound, StaysSound
<1>3. ASSUME TerminatedConnecting \/ TerminatedInitializing \/ TerminatedConnected PROVE Sound'
  <2>1. UNCHANGED dbox /\ \E ids : outcome' = Complete(ids, "failed")
    BY <1>3 DEF TerminatedConnecting, TerminatedInitializing, TerminatedConnected, FailQueued,
                FailSent
  <2> QED BY <2>1, CompletesSound
<1>4. ASSUME QueueItem \/ OnConnected \/ HandleReceiveTimeout \/ OnRemove \/ OnAbort \/ OnShutdown
               \/ Ignore
      PROVE  Sound'
  <2>1. UNCHANGED <<outcome, dbox>>
    BY <1>4 DEF QueueItem, OnConnected, HandleReceiveTimeout, OnRemove, OnAbort, OnShutdown,
                Acknowledge, Ignore
  <2> QED BY <2>1, StaysSound
<1>5. ASSUME QuitWhileConnecting PROVE Sound'
  <2>1. PoisonDecoders /\ \A i \in Ids : outcome'[i] \in {"ok", "failed", outcome[i]}
    BY <1>5 DEF QuitWhileConnecting, Complete
  <2> QED BY <2>1, PoisonSound DEF Sound, RepliesReachTheirRequests
<1>6. ASSUME OnConnectedAfterQuit \/ TerminatedShuttingDown PROVE Sound'
  <2>1. PoisonDecoders /\ UNCHANGED outcome
    BY <1>6 DEF OnConnectedAfterQuit, TerminatedShuttingDown
  <2> QED BY <2>1, PoisonSound DEF Sound, RepliesReachTheirRequests
<1>7. ASSUME Receive \/ ReceiveInitializing PROVE Sound'
  <2>1. /\ lstate \in Receiving /\ Receives("Received") /\ ReceiveData(Head(lbox).data)
        /\ UNCHANGED outcome
    BY <1>7 DEF Receive, ReceiveInitializing, Receiving
  <2> QED BY <2>1, ReceiveSound DEF Sound, RepliesReachTheirRequests
<1>8. ASSUME TerminatedAwaitingDecoders PROVE Sound'
  <2>1. UNCHANGED outcome /\ (UNCHANGED dbox \/ dbox' = [d \in Decoders |-> <<>>])
    BY <1>8 DEF TerminatedAwaitingDecoders
  <2> QED BY <2>1 DEF Sound, RepliesReachTheirRequests, AllMatched
<1> QED BY <1>1, <1>2, <1>3, <1>4, <1>5, <1>6, <1>7, <1>8 DEF LNext

LEMMA SoundStep ==
    ASSUME TypeInv, LifeInv, CleanInv, PairInv, Sound, [Next]_vars
    PROVE  Sound'
<1>1. ASSUME NEW t \in Threads, Check(t) PROVE Sound'
  <2>1. UNCHANGED dbox /\ (UNCHANGED outcome \/ \E ids : outcome' = Complete(ids, "refused"))
    BY <1>1 DEF Check, decoderVars
  <2> QED BY <2>1, CompletesSound, StaysSound
<1>2. ASSUME NEW item \in Items, CompleteTransaction(item) PROVE Sound'
  <2>1. PICK t \in Threads : item \in {Workload[t][i] : i \in DOMAIN Workload[t]}
    BY DEF Items
  <2>2. PICK k \in DOMAIN Workload[t] : item = Workload[t][k]
    BY <2>1
  <2>3. LastId(item) \in Ids
    BY <2>2, RequestsAreFresh DEF LastId
  <2>4. UNCHANGED dbox /\ \E ids : outcome' = Complete(ids, outcome[LastId(item)])
    BY <1>2 DEF CompleteTransaction, decoderVars
  <2>5. outcome[LastId(item)] # "wrong"
    BY <2>3 DEF Sound, RepliesReachTheirRequests
  <2> QED BY <2>4, <2>5, CompletesSound
<1>3. ASSUME ListenerStep PROVE Sound'
  BY <1>3, ListenerSound DEF ListenerStep
<1>4. ASSUME NEW d \in Decoders, DecoderStep(d) PROVE Sound'
  BY <1>4, DecodersSound DEF DecoderStep
<1>5. ASSUME NEW c \in Connections, IOStep(c) PROVE Sound'
  <2>1. UNCHANGED dbox /\ IONext(c)
    BY <1>5 DEF IOStep, decoderVars
  <2>2. CASE IORejectRequest(c)
    <3>1. \E ids : outcome' = Complete(ids, "failed")
      BY <2>2 DEF IORejectRequest
    <3> QED BY <2>1, <3>1, CompletesSound
  <2>3. CASE ~IORejectRequest(c)
    <3>1. UNCHANGED outcome
      BY <2>1, <2>3
         DEF IONext, IOConnected, IOConnectFailed, IORequest, IOWriteAck, IOWriteFailed, IOShutdown,
             IOTerminated, IOShutdownAck, IOAbortAck, IOAborted, IOAbortTimeout, IOIgnore, WritesNext
    <3> QED BY <2>1, <3>1, StaysSound
  <2> QED BY <2>2, <2>3
<1>6. ASSUME \/ \E t \in Threads : Post(t)
             \/ \E c \in Connections : \/ TcpStep(c) \/ Execute(c)
                                       \/ ConnectTimeoutFires(c) \/ AbortTimeoutFires(c)
             \/ Faulty \/ Crash \/ ReceiveTimeoutFires
             \/ UNCHANGED vars
      PROVE  Sound'
  <2>1. UNCHANGED <<outcome, dbox>>
    BY <1>6 DEF Post, TcpStep, Execute, Faulty, user, Crash, IOCrash, ConnectTimeoutFires,
                FireConnectTimeout, AbortTimeoutFires, FireAbortTimeout, ReceiveTimeoutFires,
                FireReceiveTimeout, decoderVars, vars
  <2> QED BY <2>1, StaysSound
<1> QED BY <1>1, <1>2, <1>3, <1>4, <1>5, <1>6 DEF Next

LEMMA SoundInit == Init => Sound
BY DEF Init, LInit, Sound, RepliesReachTheirRequests, AllMatched

(* No promise is completed with the reply to another request, nor with     *)
(* bytes that are no reply: however many requests the users pipeline, in   *)
(* whatever batches the IOActors write them, wherever the reads cut the    *)
(* replies, whichever decoders take them, and whenever the listener        *)
(* reconnects.  handleData of ListenerActor pairs by position only, so     *)
(* this is that the positions never drift.  It is for every system where   *)
(* no write fails, no IOActor crashes and no connection is dropped within  *)
(* a reply: after each of those the code does pair wrongly.                *)
THEOREM RepliesArePaired ==
    ASSUME Whole
    PROVE  Spec => []RepliesReachTheirRequests
<1> DEFINE I == TypeInv /\ LifeInv /\ Delivery /\ CleanInv /\ PairInv /\ Sound
<1>1. Init => I
  BY TypeInit, LifeInit, DeliveryInit, CleanInit, PairInit, SoundInit
<1>2. I /\ [Next]_vars => I'
  <2> SUFFICES ASSUME I, [Next]_vars PROVE I'
    OBVIOUS
  <2>1. TypeInv'
    BY TypeStep
  <2>2. LifeInv' /\ Delivery'
    BY <2>1, LifeStep, DeliveryStep
  <2>3. CleanInv'
    BY <2>1, CleanStep
  <2>4. PairInv'
    BY <2>1, <2>2, PairStep
  <2>5. Sound'
    BY SoundStep
  <2> QED BY <2>1, <2>2, <2>3, <2>4, <2>5
<1>3. I => RepliesReachTheirRequests
  BY DEF Sound
<1> QED BY <1>1, <1>2, <1>3, PTL DEF Spec

=============================================================================
