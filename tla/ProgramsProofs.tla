---------------------------- MODULE ProgramsProofs ----------------------------
(***************************************************************************)
(* Theorems about the programs around Gadget2 that share no state: table   *)
(* lookups, for all ascending tables and every kept guess; and bound       *)
(* remnants, for all lists of particles.                                   *)
(***************************************************************************)
EXTENDS FiniteSetsExt, SequencesExt, EosTables, Remnants, FiniteSetTheorems, SequenceTheorems,
        WellFoundedInduction, TLAPS

-------------------------------------------------------------------------------
(* Induction.  The theorems of the library have the statement to be proved *)
(* as a parameter; this one is about the set of numbers for which it is    *)
(* false.                                                                  *)

LEMMA LeastNumber ==
  ASSUME NEW T, T \subseteq Nat, T # {}
  PROVE  \E n \in T : \A m \in T : n <= m
  <1> DEFINE R == {ss \in Nat \X Nat : ss[1] < ss[2]}
  <1>1. IsWellFoundedOn(R, Nat)
    BY NatLessThanWellFounded, Zenon DEF OpToRel
  <1>2. PICK n \in T : \A m \in T : <<m, n>> \notin R
    <2> HIDE DEF R
    <2> QED BY <1>1, WFMin
  <1>3. \A m \in T : ~(m < n)
    BY <1>2
  <1> QED BY <1>3

LEMMA LeastValue ==
  ASSUME NEW A, A # {}, NEW f, \A a \in A : f[a] \in Nat
  PROVE  \E a \in A : \A b \in A : f[a] <= f[b]
  <1> DEFINE T == {f[a] : a \in A}
  <1>1. T \subseteq Nat /\ T # {}
    OBVIOUS
  <1>2. PICK n \in T : \A m \in T : n <= m
    <2> HIDE DEF T
    <2> QED BY <1>1, LeastNumber
  <1> QED BY <1>2

(* What a loop keeps holds at its end, if every turn leaves less to do.    *)
LEMMA LoopEnds ==
  ASSUME NEW S, NEW turn \in [S -> S], NEW left \in [S -> Nat],
         \A v \in S : turn[v] # v => left[turn[v]] < left[v],
         NEW T \in SUBSET S, \A v \in T : turn[v] \in T, NEW start \in T
  PROVE  /\ EndOf(turn, start) \in T
         /\ turn[EndOf(turn, start)] = EndOf(turn, start)
  <1> DEFINE Closed(v) == {U \in SUBSET S : v \in U /\ \A u \in U : turn[u] \in U}
             Reached(v) == {e \in S : \A U \in Closed(v) : e \in U}
             Ends(v) == {e \in Reached(v) : turn[e] = e}
             g == [v \in S |-> CHOOSE e : e \in Ends(v)]
             IsEnd(f) == f = [v \in DOMAIN turn |-> IF turn[v] = v THEN v ELSE f[turn[v]]]
             end == CHOOSE f : IsEnd(f)
  <1>1. ASSUME NEW v \in S PROVE Ends(v) # {}
    <2>1. v \in Reached(v) /\ \A e \in Reached(v) : turn[e] \in Reached(v)
      OBVIOUS
    <2>2. Reached(v) # {} /\ \A e \in Reached(v) : left[e] \in Nat
      BY <2>1
    <2>3. PICK e \in Reached(v) : \A d \in Reached(v) : left[e] <= left[d]
      <3> HIDE DEF Reached
      <3> QED BY <2>2, LeastValue
    <2>4. left[e] <= left[turn[e]] /\ left[e] \in Nat /\ left[turn[e]] \in Nat
      BY <2>1, <2>3
    <2>5. turn[e] = e
      BY <2>4
    <2> QED BY <2>5
  <1>2. ASSUME NEW v \in S, turn[v] = v PROVE g[v] = v
    <2>1. {v} \in Closed(v) /\ v \in Ends(v)
      BY <1>2
    <2>2. \A e \in Ends(v) : e = v
      BY <2>1
    <2> QED BY <2>1, <2>2
  <1>3. ASSUME NEW v \in S, turn[v] # v PROVE g[v] = g[turn[v]]
    <2>1. ASSUME NEW e \in Ends(v) PROVE e \in Ends(turn[v])
      <3>1. e # v
        BY <1>3
      <3>2. ASSUME NEW U \in Closed(turn[v]) PROVE e \in U
        <4>1. U \cup {v} \in Closed(v)
          OBVIOUS
        <4> QED BY <4>1, <3>1
      <3> QED BY <3>2
    <2>2. ASSUME NEW e \in Ends(turn[v]) PROVE e \in Ends(v)
      <3>1. \A U \in Closed(v) : U \in Closed(turn[v])
        OBVIOUS
      <3> QED BY <3>1
    <2>3. Ends(v) = Ends(turn[v])
      <3> HIDE DEF Ends
      <3> QED BY <2>1, <2>2
    <2> HIDE DEF Ends
    <2> QED BY <2>3
  <1>4. IsEnd(g)
    <2> HIDE DEF Ends
    <2>1. \A v \in S : g[v] = IF turn[v] = v THEN v ELSE g[turn[v]]
      <3> HIDE DEF g
      <3> QED BY <1>2, <1>3
    <2>2. DOMAIN turn = S /\ g = [v \in S |-> g[v]]
      OBVIOUS
    <2>3. g = [v \in S |-> IF turn[v] = v THEN v ELSE g[turn[v]]]
      <3> HIDE DEF g
      <3> QED BY <2>1, <2>2
    <2> HIDE DEF g
    <2> QED BY <2>2, <2>3
  <1>5. IsEnd(end)
    <2> HIDE DEF IsEnd
    <2> QED BY <1>4
  <1>6. EndOf(turn, start) = end[start]
    BY DEF EndOf
  <1>7. \A v \in S : end[v] = IF turn[v] = v THEN v ELSE end[turn[v]]
    <2> HIDE DEF end
    <2> QED BY <1>5
  <1>8. \A v \in T : end[v] \in T /\ turn[end[v]] = end[v]
    <2> HIDE DEF end
    <2> DEFINE Bad == {v \in T : ~(end[v] \in T /\ turn[end[v]] = end[v])}
    <2>1. SUFFICES ASSUME Bad # {} PROVE FALSE
      OBVIOUS
    <2>2. \A v \in Bad : left[v] \in Nat
      OBVIOUS
    <2>3. PICK v \in Bad : \A u \in Bad : left[v] <= left[u]
      <3> HIDE DEF Bad
      <3> QED BY <2>1, <2>2, LeastValue
    <2>4. turn[v] # v
      BY <1>7
    <2>5. turn[v] \in T /\ end[v] = end[turn[v]] /\ turn[v] \in Bad
      BY <1>7, <2>4
    <2>6. left[v] <= left[turn[v]] /\ left[turn[v]] < left[v] /\ left[v] \in Nat /\ left[turn[v]] \in Nat
      BY <2>3, <2>4, <2>5
    <2> QED BY <2>6
  <1> QED BY <1>6, <1>8

-------------------------------------------------------------------------------
(* hunt().                                                                 *)

(* A value between the ends of an ascending table.                         *)
Between(xx, x) ==
  /\ xx \in Seq(Int) /\ Len(xx) > 1 /\ Ascending(xx)
  /\ x \in Int /\ xx[1] <= x /\ x <= xx[Len(xx)]

(* The loops always have the value between xx[jlo] and xx[jhi].            *)
Brackets(xx, x) ==
  {v \in (0 .. Len(xx)) \X (1 .. Len(xx) + 1) :
     /\ v[1] < v[2]
     /\ v[1] > 0 => xx[v[1]] <= x
     /\ v[2] <= Len(xx) => x < xx[v[2]]}

CellOf(xx, x, c) == c \in 0 .. Len(xx) - 2 /\ xx[c + 1] <= x /\ x <= xx[c + 2]

(* The middle of two places that are not beside each other.                *)
LEMMA Middle ==
  ASSUME NEW jlo \in Int, NEW jhi \in Int, jhi - jlo > 1
  PROVE  LET jm == (jhi + jlo) \div 2 IN jm \in Int /\ jlo < jm /\ jm < jhi
  OBVIOUS

LEMMA BisectEnds ==
  ASSUME NEW xx, NEW x, Between(xx, x), NEW v \in Brackets(xx, x)
  PROVE  CellOf(xx, x, Bisect(xx, x, v[1], v[2]))
  <1> DEFINE n == Len(xx)
             turn == BisectTurn(xx, x)
             S == {w \in (0 .. n) \X (1 .. n + 1) : w[1] < w[2]}
             left == [w \in S |-> w[2] - w[1]]
             T == Brackets(xx, x)
             e == EndOf(turn, v)
             mid(lo, hi) == (hi + lo) \div 2
  <1>1. n \in Nat /\ n > 1 /\ x \in Int /\ \A i \in 1 .. n : xx[i] \in Int
    BY DEF Between
  <1>2. turn = [w \in S |-> turn[w]]
    BY DEF BisectTurn
  <1>3. ASSUME NEW lo \in 0 .. n, NEW hi \in 1 .. n + 1, lo < hi
        PROVE  /\ <<lo, hi>> \in S /\ left[<<lo, hi>>] = hi - lo
               /\ hi - lo = 1 => turn[<<lo, hi>>] = <<lo, hi>>
               /\ hi - lo > 1 =>
                    turn[<<lo, hi>>] = IF x >= xx[mid(lo, hi)] THEN <<mid(lo, hi), hi>> ELSE <<lo, mid(lo, hi)>>
    <2>1. <<lo, hi>> \in S
      BY <1>3
    <2>2. hi - lo > 1 => hi - lo # 1
      BY <1>1
    <2>3. turn[<<lo, hi>>] =
            IF hi - lo = 1 THEN <<lo, hi>>
            ELSE IF x >= xx[mid(lo, hi)] THEN <<mid(lo, hi), hi>> ELSE <<lo, mid(lo, hi)>>
      BY <2>1, Zenon DEF BisectTurn
    <2> QED BY <2>1, <2>2, <2>3
  <1>4. ASSUME NEW lo \in 0 .. n, NEW hi \in 1 .. n + 1, hi - lo > 1
        PROVE  /\ mid(lo, hi) \in Int /\ lo < mid(lo, hi) /\ mid(lo, hi) < hi
               /\ turn[<<lo, hi>>] \in S /\ left[turn[<<lo, hi>>]] < left[<<lo, hi>>]
               /\ turn[<<lo, hi>>] # <<lo, hi>>
               /\ <<lo, hi>> \in T => turn[<<lo, hi>>] \in T
    <2> DEFINE jm == mid(lo, hi)
    <2>1. jm \in Int /\ lo < jm /\ jm < hi
      BY <1>1, <1>4, Middle
    <2> HIDE DEF jm
    <2>2. jm \in 0 .. n /\ jm \in 1 .. n + 1
      BY <2>1, <1>1
    <2>3. turn[<<lo, hi>>] = IF x >= xx[jm] THEN <<jm, hi>> ELSE <<lo, jm>>
      <3>1. lo < hi
        BY <1>1, <1>4
      <3> HIDE DEF turn, left, S
      <3> QED BY <3>1, <1>3, <1>4 DEF jm
    <2>4. /\ <<lo, hi>> \in S /\ left[<<lo, hi>>] = hi - lo
          /\ <<jm, hi>> \in S /\ left[<<jm, hi>>] = hi - jm
          /\ <<lo, jm>> \in S /\ left[<<lo, jm>>] = jm - lo
      BY <1>1, <1>3, <1>4, <2>1, <2>2
    <2>5. turn[<<lo, hi>>] \in S /\ left[turn[<<lo, hi>>]] < left[<<lo, hi>>]
      <3> HIDE DEF turn, left, S
      <3> QED BY <1>1, <2>1, <2>3, <2>4
    <2>6. turn[<<lo, hi>>] # <<lo, hi>>
      BY <1>1, <2>1, <2>3
    <2>7. ASSUME <<lo, hi>> \in T PROVE turn[<<lo, hi>>] \in T
      <3> HIDE DEF turn
      <3> QED BY <1>1, <2>1, <2>2, <2>3, <2>7 DEF Brackets
    <2> QED BY <2>1, <2>5, <2>6, <2>7 DEF jm
  <1>5. left \in [S -> Nat]
    BY <1>1
  <1>6. T \in SUBSET S /\ v \in T
    BY DEF Brackets
  <1>7. \A w \in S : \E lo \in 0 .. n, hi \in 1 .. n + 1 : w = <<lo, hi>> /\ (hi - lo = 1 \/ hi - lo > 1)
    BY <1>1
  <1> HIDE DEF turn, S, left, T
  <1>8. ASSUME NEW w \in S
        PROVE  /\ turn[w] \in S /\ (turn[w] # w => left[turn[w]] < left[w])
               /\ w \in T => turn[w] \in T
               /\ turn[w] = w => w[2] - w[1] = 1
    <2>1. PICK lo \in 0 .. n, hi \in 1 .. n + 1 : w = <<lo, hi>> /\ (hi - lo = 1 \/ hi - lo > 1)
      BY <1>7
    <2>2. CASE hi - lo = 1
      <3>1. lo < hi
        BY <1>1, <2>2
      <3>2. turn[<<lo, hi>>] = <<lo, hi>>
        BY <3>1, <1>3, <2>2
      <3>3. turn[w] = w /\ w[2] - w[1] = 1
        BY <3>2, <2>1, <2>2
      <3> QED BY <3>3
    <2>3. CASE hi - lo > 1
      BY <1>1, <1>4, <2>1, <2>3
    <2> QED BY <2>1, <2>2, <2>3
  <1>9. turn \in [S -> S]
    BY <1>2, <1>8
  <1>10. e \in T /\ turn[e] = e
    BY <1>5, <1>6, <1>8, <1>9, LoopEnds
  <1>11. e[2] - e[1] = 1
    BY <1>6, <1>8, <1>10
  <1>12. Bisect(xx, x, v[1], v[2])
           = IF x = xx[1] THEN 0 ELSE IF x = xx[n] THEN n - 2 ELSE e[1] - 1
    <2>1. v = <<v[1], v[2]>>
      BY DEF Brackets
    <2> QED BY <2>1 DEF Bisect, Last, turn
  <1> HIDE DEF e
  <1>13. e[1] \in 0 .. n /\ (e[1] > 0 => xx[e[1]] <= x) /\ (e[1] < n => x < xx[e[1] + 1])
    BY <1>1, <1>10, <1>11 DEF Brackets, T
  <1>14. xx[1] <= xx[2] /\ xx[n - 1] <= xx[n] /\ xx[1] <= x /\ x <= xx[n]
    BY <1>1 DEF Between, Ascending
  <1>15. CASE x = xx[1]
    BY <1>1, <1>12, <1>14, <1>15 DEF CellOf
  <1>16. CASE x # xx[1] /\ x = xx[n]
    BY <1>1, <1>12, <1>14, <1>16 DEF CellOf
  <1>17. CASE x # xx[1] /\ x # xx[n]
    <2>1. e[1] > 0 /\ e[1] < n
      BY <1>1, <1>13, <1>14, <1>17
    <2>2. Bisect(xx, x, v[1], v[2]) = e[1] - 1
      BY <1>12, <1>17
    <2>3. PICK k \in 1 .. n - 1 : k = e[1]
      BY <1>1, <1>13, <2>1
    <2>4. (k - 1) + 1 = k /\ (k - 1) + 2 = k + 1 /\ k - 1 \in 0 .. n - 2
      BY <1>1
    <2>5. xx[k] <= x /\ x < xx[k + 1]
      BY <1>13, <2>1, <2>3
    <2>6. k + 1 \in 1 .. n
      BY <1>1
    <2>7. x <= xx[k + 1]
      BY <2>5, <2>6, <1>1
    <2> HIDE DEF n
    <2> QED BY <2>2, <2>3, <2>4, <2>5, <2>7 DEF CellOf, n
  <1> QED BY <1>15, <1>16, <1>17

LEMMA UpBrackets ==
  ASSUME NEW xx, NEW x, Between(xx, x), NEW jlo \in 1 .. Len(xx) - 1, xx[jlo] <= x
  PROVE  LET up == HuntUp(xx, x, jlo) IN <<up[1], up[2]>> \in Brackets(xx, x)
  <1> DEFINE n == Len(xx)
             turn == UpTurn(xx, x)
             S == (1 .. n) \X (2 .. n + 1) \X (Nat \ {0})
             left == [w \in S |-> n + 1 - w[2]]
             T == {w \in S : w[1] < w[2] /\ xx[w[1]] <= x}
             v == <<jlo, jlo + 1, 1>>
             e == EndOf(turn, v)
             rest(hi) == n + 1 - hi
             next(lo, hi, inc) == IF hi + 2 * inc > n THEN n + 1 ELSE hi + 2 * inc
  <1>1. n \in Nat /\ n > 1 /\ x \in Int /\ \A i \in 1 .. n : xx[i] \in Int
    BY DEF Between
  <1>2. turn = [w \in S |-> turn[w]]
    BY DEF UpTurn
  <1>3. ASSUME NEW lo \in 1 .. n, NEW hi \in 2 .. n + 1, NEW inc \in Nat \ {0}
        PROVE  /\ <<lo, hi, inc>> \in S /\ left[<<lo, hi, inc>>] = rest(hi)
               /\ <<lo, hi, inc>> \in T <=> (lo < hi /\ xx[lo] <= x)
               /\ turn[<<lo, hi, inc>>] =
                    IF hi > n \/ x < xx[hi] THEN <<lo, hi, inc>> ELSE <<hi, next(lo, hi, inc), 2 * inc>>
    BY DEF UpTurn
  <1>4. \A w \in S : left[w] = rest(w[2])
    OBVIOUS
  <1>5. left \in [S -> Nat]
    BY <1>1
  <1>6. T \in SUBSET S /\ v \in T
    BY <1>1
  <1>7. \A w \in S : \E lo \in 1 .. n, hi \in 2 .. n + 1, inc \in Nat \ {0} : w = <<lo, hi, inc>>
    OBVIOUS
  <1>8. ASSUME NEW lo \in 1 .. n, NEW hi \in 2 .. n + 1, NEW inc \in Nat \ {0}
        PROVE  hi \in 1 .. n /\ xx[hi] <= x => next(lo, hi, inc) \in 2 .. n + 1 /\ hi < next(lo, hi, inc) /\ 2 * inc \in Nat \ {0}
    BY <1>1
  <1> HIDE DEF turn, left, S, T, next, rest, n
  <1>9. ASSUME NEW lo \in 1 .. n, NEW hi \in 2 .. n + 1, NEW inc \in Nat \ {0},
               NEW w, w = <<lo, hi, inc>>
        PROVE  /\ turn[w] \in S /\ (turn[w] # w => left[turn[w]] < left[w])
               /\ w \in T => turn[w] \in T
               /\ turn[w] = w => hi > n \/ x < xx[hi]
    <2>0. PICK new : new = <<hi, next(lo, hi, inc), 2 * inc>>
      OBVIOUS
    <2>1. w \in S /\ left[w] = rest(hi) /\ (w \in T <=> (lo < hi /\ xx[lo] <= x))
          /\ turn[w] = IF hi > n \/ x < xx[hi] THEN w ELSE new
      BY <1>3, <1>9, <2>0
    <2>2. CASE hi > n \/ x < xx[hi]
      <3>1. turn[w] = w
        BY <2>1, <2>2
      <3> QED BY <2>1, <2>2, <3>1
    <2>3. CASE ~(hi > n \/ x < xx[hi])
      <3>1. turn[w] = new
        BY <2>1, <2>3
      <3>2. hi \in 1 .. n /\ xx[hi] <= x
        BY <1>1, <2>3
      <3>3. next(lo, hi, inc) \in 2 .. n + 1 /\ hi < next(lo, hi, inc) /\ 2 * inc \in Nat \ {0}
        BY <1>8, <3>2
      <3>7. PICK m \in 2 .. n + 1, i \in Nat \ {0} : m = next(lo, hi, inc) /\ i = 2 * inc
        BY <3>3
      <3>4. new \in S /\ left[new] = rest(next(lo, hi, inc)) /\ (new \in T <=> (hi < next(lo, hi, inc) /\ xx[hi] <= x))
        <4>1. new = <<hi, m, i>> /\ hi \in 1 .. n
          BY <2>0, <3>2, <3>7
        <4>2. new \in S /\ left[new] = rest(m) /\ (new \in T <=> (hi < m /\ xx[hi] <= x))
          <5>1. ASSUME NEW h \in 1 .. n
                PROVE  /\ <<h, m, i>> \in S
                       /\ left[<<h, m, i>>] = rest(m)
                       /\ <<h, m, i>> \in T <=> (h < m /\ xx[h] <= x)
            <6>3. <<h, m, i>> \in S
              BY <1>3
            <6>4. left[<<h, m, i>>] = rest(m)
              BY <6>3, <1>4
            <6>1. <<h, m, i>> \in S /\ left[<<h, m, i>>] = rest(m)
              BY <6>3, <6>4
            <6>2. <<h, m, i>> \in T <=> (h < m /\ xx[h] <= x)
              BY <1>3
            <6> QED BY <6>1, <6>2
          <5> QED BY <4>1, <5>1
        <4> QED BY <3>7, <4>2
      <3>5. new # w
        BY <1>9, <2>0, <3>3
      <3>6. left[new] < left[w] /\ new \in T
        <4>1. left[new] = rest(m) /\ left[w] = rest(hi) /\ hi < m
          BY <2>1, <3>3, <3>4, <3>7
        <4>2. rest(m) < rest(hi)
          BY <1>1, <4>1 DEF rest
        <4> QED BY <3>2, <3>3, <3>4, <4>1, <4>2
      <3> QED BY <3>1, <3>4, <3>5, <3>6
    <2> QED BY <2>2, <2>3
  <1>10. ASSUME NEW w \in S
         PROVE  /\ turn[w] \in S /\ (turn[w] # w => left[turn[w]] < left[w])
                /\ w \in T => turn[w] \in T
                /\ turn[w] = w => (w[2] > n \/ x < xx[w[2]])
    <2>1. PICK lo \in 1 .. n, hi \in 2 .. n + 1, inc \in Nat \ {0} : w = <<lo, hi, inc>>
      BY <1>7
    <2>2. w[1] = lo /\ w[2] = hi
      BY <2>1
    <2> QED BY <1>9, <2>1, <2>2
  <1>11. turn \in [S -> S]
    BY <1>2, <1>10
  <1>12. e \in T /\ turn[e] = e
    <2> HIDE DEF v
    <2> QED BY <1>5, <1>6, <1>10, <1>11, LoopEnds
  <1>13. HuntUp(xx, x, jlo) = e
    BY DEF HuntUp, turn
  <1> HIDE DEF e
  <1>14. (e[2] > n \/ x < xx[e[2]])
    BY <1>6, <1>10, <1>12
  <1> QED BY <1>1, <1>12, <1>13, <1>14 DEF Brackets, T, S, n

LEMMA DownBrackets ==
  ASSUME NEW xx, NEW x, Between(xx, x), NEW jlo \in 2 .. Len(xx), x < xx[jlo]
  PROVE  LET down == HuntDown(xx, x, jlo) IN <<down[1], down[2]>> \in Brackets(xx, x)
  <1> DEFINE n == Len(xx)
             turn == DownTurn(xx, x)
             S == (0 .. n) \X (1 .. n + 1) \X (Nat \ {0})
             left == [w \in S |-> w[1]]
             T == {w \in S : w[1] < w[2] /\ w[2] <= n /\ x < xx[w[2]]}
             v == <<jlo - 1, jlo, 1>>
             e == EndOf(turn, v)
             next(lo, hi, inc) == IF 2 * inc >= lo THEN 0 ELSE lo - 2 * inc
  <1>1. n \in Nat /\ n > 1 /\ x \in Int /\ \A i \in 1 .. n : xx[i] \in Int
    BY DEF Between
  <1>2. turn = [w \in S |-> turn[w]]
    BY DEF DownTurn
  <1>3. ASSUME NEW lo \in 0 .. n, NEW hi \in 1 .. n + 1, NEW inc \in Nat \ {0}
        PROVE  /\ <<lo, hi, inc>> \in S /\ left[<<lo, hi, inc>>] = lo
               /\ <<lo, hi, inc>> \in T <=> (lo < hi /\ hi <= n /\ x < xx[hi])
               /\ turn[<<lo, hi, inc>>] =
                    IF lo = 0 \/ x >= xx[lo] THEN <<lo, hi, inc>> ELSE <<next(lo, hi, inc), lo, 2 * inc>>
    BY DEF DownTurn
  <1>4. left \in [S -> Nat]
    BY <1>1
  <1>5. T \in SUBSET S /\ v \in T
    BY <1>1
  <1>6. \A w \in S : \E lo \in 0 .. n, hi \in 1 .. n + 1, inc \in Nat \ {0} : w = <<lo, hi, inc>>
    OBVIOUS
  <1>7. ASSUME NEW lo \in 0 .. n, NEW hi \in 1 .. n + 1, NEW inc \in Nat \ {0}
        PROVE  lo \in 1 .. n /\ lo \in 1 .. n + 1 /\ x < xx[lo] => next(lo, hi, inc) \in 0 .. n /\ next(lo, hi, inc) < lo /\ 2 * inc \in Nat \ {0}
    BY <1>1
  <1> HIDE DEF turn, left, S, T, next, n
  <1>8. ASSUME NEW lo \in 0 .. n, NEW hi \in 1 .. n + 1, NEW inc \in Nat \ {0},
               NEW w, w = <<lo, hi, inc>>
        PROVE  /\ turn[w] \in S /\ (turn[w] # w => left[turn[w]] < left[w])
               /\ w \in T => turn[w] \in T
               /\ turn[w] = w => lo = 0 \/ x >= xx[lo]
    <2>0. PICK new : new = <<next(lo, hi, inc), lo, 2 * inc>>
      OBVIOUS
    <2>1. w \in S /\ left[w] = lo /\ (w \in T <=> (lo < hi /\ hi <= n /\ x < xx[hi]))
          /\ turn[w] = IF lo = 0 \/ x >= xx[lo] THEN w ELSE new
      BY <1>3, <1>8, <2>0
    <2>2. CASE lo = 0 \/ x >= xx[lo]
      <3>1. turn[w] = w
        BY <2>1, <2>2
      <3> QED BY <2>1, <2>2, <3>1
    <2>3. CASE ~(lo = 0 \/ x >= xx[lo])
      <3>1. turn[w] = new
        BY <2>1, <2>3
      <3>2. lo \in 1 .. n /\ lo \in 1 .. n + 1 /\ x < xx[lo]
        BY <1>1, <2>3
      <3>3. next(lo, hi, inc) \in 0 .. n /\ next(lo, hi, inc) < lo /\ 2 * inc \in Nat \ {0}
        BY <1>7, <3>2
      <3>7. PICK m \in 0 .. n, i \in Nat \ {0} : m = next(lo, hi, inc) /\ i = 2 * inc
        BY <3>3
      <3>4. new \in S /\ left[new] = next(lo, hi, inc) /\ (new \in T <=> (next(lo, hi, inc) < lo /\ lo <= n /\ x < xx[lo]))
        BY <1>3, <2>0, <3>2, <3>7
      <3>5. new # w
        BY <1>8, <2>0, <3>3
      <3>6. left[new] < left[w] /\ new \in T
        BY <1>1, <2>1, <3>2, <3>3, <3>4, <3>7
      <3> QED BY <3>1, <3>4, <3>5, <3>6
    <2> QED BY <2>2, <2>3
  <1>9. ASSUME NEW w \in S
         PROVE  /\ turn[w] \in S /\ (turn[w] # w => left[turn[w]] < left[w])
                /\ w \in T => turn[w] \in T
                /\ turn[w] = w => (w[1] = 0 \/ xx[w[1]] <= x)
    <2>1. PICK lo \in 0 .. n, hi \in 1 .. n + 1, inc \in Nat \ {0} : w = <<lo, hi, inc>>
      BY <1>6
    <2>2. w[1] = lo /\ w[2] = hi
      BY <2>1
    <2> QED BY <1>8, <2>1, <2>2
  <1>10. turn \in [S -> S]
    BY <1>2, <1>9
  <1>11. e \in T /\ turn[e] = e
    <2> HIDE DEF v
    <2> QED BY <1>4, <1>5, <1>9, <1>10, LoopEnds
  <1>12. HuntDown(xx, x, jlo) = e
    BY DEF HuntDown, turn
  <1> HIDE DEF e
  <1>13. (e[1] = 0 \/ xx[e[1]] <= x)
    BY <1>5, <1>9, <1>11
  <1> QED BY <1>1, <1>11, <1>12, <1>13 DEF Brackets, T, S, n

(* hunt() finds the cell from every guess, but for the last place of the   *)
(* table, from which it finds no cell if that is where the value is.       *)
LEMMA HuntFinds ==
  ASSUME NEW xx, NEW x, Between(xx, x), NEW guess \in Int
  PROVE  \/ CellOf(xx, x, Hunt(xx, x, guess))
         \/ Hunt(xx, x, guess) = Len(xx) /\ guess = Len(xx) - 1 /\ x = xx[Len(xx)]
  <1> DEFINE n == Len(xx)
             jlo == guess + 1
             up == HuntUp(xx, x, jlo)
             down == HuntDown(xx, x, jlo)
  <1>1. n \in Nat /\ n > 1 /\ x \in Int /\ \A i \in 1 .. n : xx[i] \in Int
    BY DEF Between
  <1>2. CASE jlo <= 0 \/ jlo > n
    <2>1. <<0, n + 1>> \in Brackets(xx, x)
      BY <1>1 DEF Brackets
    <2>2. Hunt(xx, x, guess) = Bisect(xx, x, 0, n + 1)
      BY <1>1, <1>2 DEF Hunt
    <2> QED BY <2>1, <2>2, BisectEnds
  <1>3. CASE jlo \in 1 .. n /\ x >= xx[jlo]
    <2>1. CASE jlo = n
      <3>1. x = xx[n]
        BY <1>1, <1>3, <2>1 DEF Between
      <3> QED BY <3>1, <1>1, <1>3, <2>1 DEF Hunt
    <2>2. CASE jlo # n
      <3>1. Hunt(xx, x, guess) = Bisect(xx, x, up[1], up[2])
        BY <1>1, <1>3, <2>2 DEF Hunt
      <3>2. <<up[1], up[2]>> \in Brackets(xx, x)
        BY <1>1, <1>3, <2>2, UpBrackets
      <3> HIDE DEF up
      <3> QED BY <3>1, <3>2, BisectEnds
    <2> QED BY <2>1, <2>2
  <1>4. CASE jlo \in 1 .. n /\ x < xx[jlo]
    <2>1. jlo # 1
      BY <1>1, <1>4 DEF Between
    <2>2. Hunt(xx, x, guess) = Bisect(xx, x, down[1], down[2])
      BY <1>1, <1>4, <2>1 DEF Hunt
    <2>3. <<down[1], down[2]>> \in Brackets(xx, x)
      BY <1>1, <1>4, <2>1, DownBrackets
    <2> HIDE DEF down
    <2> QED BY <2>2, <2>3, BisectEnds
  <1> QED BY <1>1, <1>2, <1>3, <1>4

-------------------------------------------------------------------------------
(* Table files: what is read is what was written.                          *)

LEMMA DivUnique ==
  ASSUME NEW n \in Int, NEW d \in Nat \ {0}, NEW q \in Int, NEW r \in Nat, r < d, n = q * d + r
  PROVE  n \div d = q /\ n % d = r
  OBVIOUS

LEMMA TimesMono ==
  ASSUME NEW a \in Nat, NEW b \in Nat, NEW c \in Nat, a <= b
  PROVE  a * c <= b * c
  <1>1. PICK k \in Nat : b = a + k
    <2>1. b - a \in Nat /\ b = a + (b - a)
      OBVIOUS
    <2> QED BY <2>1
  <1>2. b * c = a * c + k * c /\ k * c \in Nat /\ a * c \in Nat
    BY <1>1
  <1> QED BY <1>2

(* The places of the rows and columns of a flat array.                     *)
FlatArray(ND, NS) ==
  \A d \in 0 .. ND - 1, s \in 0 .. NS - 1 :
    \E n \in 0 .. ND * NS - 1 : n = d + s * ND /\ n % ND = d /\ n \div ND = s

LEMMA FlatPlace ==
  ASSUME NEW ND \in Nat \ {0}, NEW NS \in Nat
  PROVE  FlatArray(ND, NS)
  <1> SUFFICES ASSUME NEW d \in 0 .. ND - 1, NEW s \in 0 .. NS - 1
               PROVE  \E n \in 0 .. ND * NS - 1 : n = d + s * ND /\ n % ND = d /\ n \div ND = s
    BY DEF FlatArray
  <1>1. d \in Nat /\ d < ND /\ s \in Nat /\ s + 1 <= NS
    OBVIOUS
  <1>2. PICK n \in Int : n = s * ND + d
    BY <1>1
  <1>3. n \div ND = s /\ n % ND = d
    BY <1>1, <1>2, DivUnique
  <1>4. (s + 1) * ND <= NS * ND
    BY <1>1, TimesMono
  <1>5. (s + 1) * ND = s * ND + ND /\ NS * ND = ND * NS /\ s * ND \in Nat /\ ND * NS \in Nat
    BY <1>1
  <1>6. n \in 0 .. ND * NS - 1 /\ n = d + s * ND
    BY <1>1, <1>2, <1>4, <1>5
  <1> QED BY <1>3, <1>6

(* A piece at the end of what is written, and one before the end.          *)
LEMMA PieceLast ==
  ASSUME NEW S, NEW a \in Seq(S), NEW b \in Seq(S)
  PROVE  /\ SubSeq(a \o b, Len(a) + 1, Len(a) + Len(b)) = b
         /\ a \o b \in Seq(S) /\ Len(a \o b) = Len(a) + Len(b)
  <1>1. a \o b \in Seq(S) /\ Len(a \o b) = Len(a) + Len(b)
    BY ConcatProperties
  <1>2. ASSUME Len(b) > 0
        PROVE  SubSeq(a \o b, Len(a) + 1, Len(a) + Len(b)) = SubSeq(b, (Len(a) + 1) - Len(a), (Len(a) + Len(b)) - Len(a))
    BY <1>2, SubSeqOfConcat2
  <1>3. (Len(a) + 1) - Len(a) = 1 /\ (Len(a) + Len(b)) - Len(a) = Len(b)
    OBVIOUS
  <1>4. ASSUME Len(b) = 0
        PROVE  SubSeq(a \o b, Len(a) + 1, Len(a) + Len(b)) = b
    <2>1. b = << >> /\ Len(a) + Len(b) < Len(a) + 1
      BY <1>4
    <2> QED BY <1>1, <2>1, SubSeqEmpty
  <1> QED BY <1>1, <1>2, <1>3, <1>4, SubSeqFull

LEMMA PieceBefore ==
  ASSUME NEW S, NEW a \in Seq(S), NEW b \in Seq(S), NEW first \in Nat \ {0}, NEW last \in 0 .. Len(a)
  PROVE  SubSeq(a \o b, first, last) = SubSeq(a, first, last)
  <1> QED BY SubSeqOfConcat1

(* The pieces of a file, one after the other.                              *)
ArePieces(a0, a1, a2, b0, b1, b2, b3, M) ==
  LET file == a0 \o a1 \o a2 \o b0 \o b1 \o b2 \o b3
      k == 2 + Len(a1) + Len(a2)
  IN  /\ file[1] = a0[1] /\ file[2] = a0[2]
      /\ SubSeq(file, 3, 2 + Len(a1)) = a1
      /\ SubSeq(file, 3 + Len(a1), k) = a2
      /\ SubSeq(file, k + 1, k + M) = b0
      /\ SubSeq(file, k + M + 1, k + 2 * M) = b1
      /\ SubSeq(file, k + 2 * M + 1, k + 3 * M) = b2
      /\ SubSeq(file, k + 3 * M + 1, k + 4 * M) = b3

LEMMA Pieces ==
  ASSUME NEW S, NEW a0 \in Seq(S), NEW a1 \in Seq(S), NEW a2 \in Seq(S), NEW b0 \in Seq(S),
         NEW b1 \in Seq(S), NEW b2 \in Seq(S), NEW b3 \in Seq(S), NEW M \in Nat \ {0},
         Len(a0) = 2, Len(a1) > 0, Len(a2) > 0,
         Len(b0) = M, Len(b1) = M, Len(b2) = M, Len(b3) = M
  PROVE  ArePieces(a0, a1, a2, b0, b1, b2, b3, M)
  <1> DEFINE p1 == a0 \o a1
             p2 == p1 \o a2
             p3 == p2 \o b0
             p4 == p3 \o b1
             p5 == p4 \o b2
             p6 == p5 \o b3
             k1 == 2 + Len(a1)
             k == k1 + Len(a2)
  <1>0. k1 \in Nat /\ k \in Nat /\ k1 >= 3 /\ k > k1 /\ M \in Nat /\ M > 0
    OBVIOUS
  <1>1. p1 \in Seq(S) /\ Len(p1) = k1 /\ SubSeq(p1, 3, k1) = a1
    <2>1. p1 \in Seq(S) /\ Len(p1) = Len(a0) + Len(a1) /\ SubSeq(p1, Len(a0) + 1, Len(a0) + Len(a1)) = a1
      BY PieceLast
    <2> QED BY <2>1
  <1>2. p2 \in Seq(S) /\ Len(p2) = k /\ SubSeq(p2, k1 + 1, k) = a2
    <2>1. p2 \in Seq(S) /\ Len(p2) = Len(p1) + Len(a2) /\ SubSeq(p2, Len(p1) + 1, Len(p1) + Len(a2)) = a2
      BY <1>1, PieceLast
    <2> QED BY <1>0, <1>1, <2>1
  <1> HIDE DEF p1, p2, k, k1
  <1>3. p3 \in Seq(S) /\ Len(p3) = k + M /\ SubSeq(p3, k + 1, k + M) = b0
    <2>0. p2 \in Seq(S)
      BY <1>2
    <2>1. p3 \in Seq(S) /\ Len(p3) = Len(p2) + Len(b0) /\ SubSeq(p3, Len(p2) + 1, Len(p2) + Len(b0)) = b0
      BY <2>0, PieceLast, Zenon
    <2> QED BY <1>0, <1>2, <2>1
  <1> HIDE DEF p3
  <1>4. p4 \in Seq(S) /\ Len(p4) = k + 2 * M /\ SubSeq(p4, k + M + 1, k + 2 * M) = b1
    <2>0. p3 \in Seq(S)
      BY <1>3
    <2>1. p4 \in Seq(S) /\ Len(p4) = Len(p3) + Len(b1) /\ SubSeq(p4, Len(p3) + 1, Len(p3) + Len(b1)) = b1
      BY <2>0, PieceLast, Zenon
    <2> QED BY <1>0, <1>3, <2>1
  <1> HIDE DEF p4
  <1>5. p5 \in Seq(S) /\ Len(p5) = k + 3 * M /\ SubSeq(p5, k + 2 * M + 1, k + 3 * M) = b2
    <2>0. p4 \in Seq(S)
      BY <1>4
    <2>1. p5 \in Seq(S) /\ Len(p5) = Len(p4) + Len(b2) /\ SubSeq(p5, Len(p4) + 1, Len(p4) + Len(b2)) = b2
      BY <2>0, PieceLast, Zenon
    <2> QED BY <1>0, <1>4, <2>1
  <1> HIDE DEF p5
  <1>6. p6 \in Seq(S) /\ Len(p6) = k + 4 * M /\ SubSeq(p6, k + 3 * M + 1, k + 4 * M) = b3
    <2>0. p5 \in Seq(S)
      BY <1>5
    <2>1. p6 \in Seq(S) /\ Len(p6) = Len(p5) + Len(b3) /\ SubSeq(p6, Len(p5) + 1, Len(p5) + Len(b3)) = b3
      BY <2>0, PieceLast, Zenon
    <2> QED BY <1>0, <1>5, <2>1
  <1>7. ASSUME NEW m \in Nat \ {0}, NEW n \in 0 .. k + 3 * M
        PROVE  /\ SubSeq(p6, m, n) = SubSeq(p5, m, n)
               /\ n <= k + 2 * M => SubSeq(p6, m, n) = SubSeq(p4, m, n)
               /\ n <= k + M => SubSeq(p6, m, n) = SubSeq(p3, m, n)
               /\ n <= k => SubSeq(p6, m, n) = SubSeq(p2, m, n)
               /\ n <= k1 => SubSeq(p6, m, n) = SubSeq(p1, m, n)
    <2>1. SubSeq(p6, m, n) = SubSeq(p5, m, n)
      BY <1>0, <1>5, PieceBefore
    <2>2. n <= k + 2 * M => SubSeq(p5, m, n) = SubSeq(p4, m, n)
      BY <1>0, <1>4, PieceBefore DEF p5
    <2>3. n <= k + M => SubSeq(p4, m, n) = SubSeq(p3, m, n)
      BY <1>0, <1>3, PieceBefore DEF p4
    <2>4. n <= k => SubSeq(p3, m, n) = SubSeq(p2, m, n)
      BY <1>0, <1>2, PieceBefore DEF p3
    <2>5. n <= k1 => SubSeq(p2, m, n) = SubSeq(p1, m, n)
      BY <1>0, <1>1, PieceBefore DEF p2
    <2>6. n <= k => n <= k + M /\ n <= k + 2 * M
      BY <1>0
    <2>7. n <= k1 => n <= k
      BY <1>0
    <2>8. n <= k + M => n <= k + 2 * M
      BY <1>0
    <2> QED BY <2>1, <2>2, <2>3, <2>4, <2>5, <2>6, <2>7, <2>8
  <1>8. \A i \in 1 .. 2 : p6[i] = a0[i]
    <2> SUFFICES ASSUME NEW i \in 1 .. 2 PROVE p6[i] = a0[i]
      OBVIOUS
    <2>1. p1[i] = a0[i] /\ p2[i] = p1[i]
      BY <1>0, <1>1, ConcatProperties DEF p1, p2
    <2>2. p3[i] = p2[i]
      BY <1>0, <1>2, ConcatProperties DEF p3
    <2>3. p4[i] = p3[i]
      BY <1>0, <1>3, ConcatProperties DEF p4
    <2>4. p5[i] = p4[i]
      BY <1>0, <1>4, ConcatProperties DEF p5
    <2>5. p6[i] = p5[i]
      BY <1>0, <1>5, ConcatProperties DEF p6
    <2> QED BY <2>1, <2>2, <2>3, <2>4, <2>5
  <1> HIDE DEF p6
  <1>9. /\ SubSeq(p6, 3, k1) = a1
        /\ SubSeq(p6, k1 + 1, k) = a2
        /\ SubSeq(p6, k + 1, k + M) = b0
        /\ SubSeq(p6, k + M + 1, k + 2 * M) = b1
        /\ SubSeq(p6, k + 2 * M + 1, k + 3 * M) = b2
        /\ SubSeq(p6, k + 3 * M + 1, k + 4 * M) = b3
    <2>1. SubSeq(p6, 3, k1) = SubSeq(p1, 3, k1)
      <3>1. k1 \in 0 .. k + 3 * M /\ k1 <= k1 /\ 3 \in Nat \ {0}
        BY <1>0
      <3> QED BY <1>7, <3>1
    <2>2. SubSeq(p6, k1 + 1, k) = SubSeq(p2, k1 + 1, k)
      <3>1. k \in 0 .. k + 3 * M /\ k <= k /\ k1 + 1 \in Nat \ {0}
        BY <1>0
      <3> QED BY <1>7, <3>1
    <2>3. SubSeq(p6, k + 1, k + M) = SubSeq(p3, k + 1, k + M)
      <3>1. k + M \in 0 .. k + 3 * M /\ k + M <= k + M /\ k + 1 \in Nat \ {0}
        BY <1>0
      <3> QED BY <1>7, <3>1
    <2>4. SubSeq(p6, k + M + 1, k + 2 * M) = SubSeq(p4, k + M + 1, k + 2 * M)
      <3>1. k + 2 * M \in 0 .. k + 3 * M /\ k + 2 * M <= k + 2 * M /\ k + M + 1 \in Nat \ {0}
        BY <1>0
      <3> QED BY <1>7, <3>1
    <2>5. SubSeq(p6, k + 2 * M + 1, k + 3 * M) = SubSeq(p5, k + 2 * M + 1, k + 3 * M)
      <3>1. k + 3 * M \in 0 .. k + 3 * M /\ k + 2 * M + 1 \in Nat \ {0}
        BY <1>0
      <3> QED BY <1>7, <3>1
    <2> QED BY <1>1, <1>2, <1>3, <1>4, <1>5, <1>6, <2>1, <2>2, <2>3, <2>4, <2>5
  <1>10. p6[1] = a0[1] /\ p6[2] = a0[2]
    BY <1>8
  <1>11. 3 + Len(a1) = k1 + 1
    BY DEF k1
  <1> QED BY <1>9, <1>10, <1>11 DEF ArePieces, p1, p2, p3, p4, p5, p6, k, k1

(* What is read of a table is what the table holds.                        *)
Imported(read, density, entropy) ==
  /\ read.ND = Len(density) /\ read.NS = Len(entropy)
  /\ read.density = density /\ read.entropy = entropy
  /\ \A q \in Thermo, d \in 0 .. Len(density) - 1, s \in 0 .. Len(entropy) - 1 :
       read.thermo_quantities[q][d + s * Len(density) + 1] = [of |-> q, d |-> d, s |-> s]

LEMMA ImportRight ==
  ASSUME NEW density \in Seq(Int), NEW entropy \in Seq(Int), NEW ND \in Nat, NEW NS \in Nat,
         ND = Len(density), NS = Len(entropy), ND > 1, NS > 1,
         NEW t, t.density = density, t.entropy = entropy
  PROVE  Imported(Import(TableFile(t)), density, entropy)
  <1> DEFINE place(q, n) == [of |-> q, d |-> (n - 1) % ND, s |-> (n - 1) \div ND]
             quantity(q) == [n \in 1 .. ND * NS |-> place(q, n)]
             S == Int \cup {place(w[1], w[2]) : w \in (0 .. 3) \X (1 .. ND * NS)}
             p0 == <<ND, NS>>
             file == p0 \o density \o entropy \o quantity(0) \o quantity(1) \o quantity(2) \o quantity(3)
             read == Import(file)
  <1>1. PICK M \in Nat \ {0} : M = ND * NS
    <2>1. 1 * NS <= ND * NS
      BY TimesMono
    <2>2. ND * NS \in Int
      OBVIOUS
    <2> QED BY <2>1, <2>2
  <1>2. TableFile(t) = file
    BY DEF TableFile
  <1>3. p0 \in Seq(S) /\ Len(p0) = 2 /\ p0[1] = ND /\ p0[2] = NS
    <2> HIDE DEF place
    <2> QED OBVIOUS
  <1>4. density \in Seq(S) /\ entropy \in Seq(S)
    <2>1. Int \subseteq S
      OBVIOUS
    <2> HIDE DEF S
    <2> QED BY <2>1, SeqMonotonic
  <1>5. ASSUME NEW q \in 0 .. 3
        PROVE  /\ quantity(q) \in Seq(S) /\ Len(quantity(q)) = M
               /\ \A n \in 1 .. M : quantity(q)[n] = place(q, n)
    <2> HIDE DEF place
    <2>1. ASSUME NEW n \in 1 .. M PROVE quantity(q)[n] = place(q, n) /\ place(q, n) \in S
      <3>1. place(q, n) = place(<<q, n>>[1], <<q, n>>[2]) /\ <<q, n>> \in (0 .. 3) \X (1 .. ND * NS)
        BY <1>1
      <3>2. place(q, n) \in S
        BY <3>1
      <3> QED BY <1>1, <3>2
    <2>2. quantity(q) \in [1 .. M -> S]
      <3> HIDE DEF S
      <3> QED BY <2>1, <1>1
    <2> HIDE DEF S, quantity
    <2> QED BY <2>1, <2>2
  <1>6. /\ quantity(0) \in Seq(S) /\ Len(quantity(0)) = M /\ quantity(1) \in Seq(S) /\ Len(quantity(1)) = M
        /\ quantity(2) \in Seq(S) /\ Len(quantity(2)) = M /\ quantity(3) \in Seq(S) /\ Len(quantity(3)) = M
    <2> HIDE DEF S, quantity
    <2> QED BY <1>5
  <1>7. /\ file[1] = ND /\ file[2] = NS
        /\ SubSeq(file, 3, 2 + ND) = density
        /\ SubSeq(file, 3 + ND, 2 + ND + NS) = entropy
        /\ SubSeq(file, (2 + ND + NS) + 1, (2 + ND + NS) + M) = quantity(0)
        /\ SubSeq(file, (2 + ND + NS) + M + 1, (2 + ND + NS) + 2 * M) = quantity(1)
        /\ SubSeq(file, (2 + ND + NS) + 2 * M + 1, (2 + ND + NS) + 3 * M) = quantity(2)
        /\ SubSeq(file, (2 + ND + NS) + 3 * M + 1, (2 + ND + NS) + 4 * M) = quantity(3)
    <2> HIDE DEF S, quantity, p0
    <2>1. ArePieces(p0, density, entropy, quantity(0), quantity(1), quantity(2), quantity(3), M)
      <3>1. Len(density) > 0 /\ Len(entropy) > 0
        OBVIOUS
      <3>2. p0 \in Seq(S) /\ Len(p0) = 2
        BY <1>3
      <3> QED BY <1>4, <1>6, <3>1, <3>2, Pieces, Zenon
    <2>2. LET k == 2 + Len(density) + Len(entropy)
          IN  /\ file[1] = p0[1] /\ file[2] = p0[2]
              /\ SubSeq(file, 3, 2 + Len(density)) = density
              /\ SubSeq(file, 3 + Len(density), k) = entropy
              /\ SubSeq(file, k + 1, k + M) = quantity(0)
              /\ SubSeq(file, k + M + 1, k + 2 * M) = quantity(1)
              /\ SubSeq(file, k + 2 * M + 1, k + 3 * M) = quantity(2)
              /\ SubSeq(file, k + 3 * M + 1, k + 4 * M) = quantity(3)
      BY <2>1, Zenon DEF ArePieces
    <2> HIDE DEF file
    <2> QED BY <1>3, <2>2
  <1> HIDE DEF file
  <1>8. ASSUME NEW q \in Thermo
        PROVE  SubSeq(file, 2 + (ND + NS + q * ND * NS) + 1, 2 + (ND + NS + q * ND * NS) + ND * NS) = quantity(q)
    <2>1. q \in {0, 1, 2, 3}
      BY DEF Thermo
    <2>2. q * ND * NS = q * M /\ ND * NS = M
      <3>1. q * ND * NS = q * (ND * NS)
        BY <2>1
      <3> QED BY <1>1, <3>1
    <2> HIDE DEF quantity
    <2>3. q * M \in Int /\ M \in Int
      BY <2>1
    <2>4. 2 + (ND + NS + q * M) + 1 = (2 + ND + NS) + q * M + 1
          /\ 2 + (ND + NS + q * M) + M = (2 + ND + NS) + (q + 1) * M
      BY <2>1, <2>3
    <2>5. SubSeq(file, (2 + ND + NS) + q * M + 1, (2 + ND + NS) + (q + 1) * M) = quantity(q)
      <3>1. ASSUME q = 0 PROVE q * M = 0 /\ (q + 1) * M = M
        BY <3>1
      <3>2. ASSUME q = 1 PROVE q * M = M /\ (q + 1) * M = 2 * M
        BY <3>2
      <3>3. ASSUME q = 2 PROVE q * M = 2 * M /\ (q + 1) * M = 3 * M
        BY <3>3
      <3>4. ASSUME q = 3 PROVE q * M = 3 * M /\ (q + 1) * M = 4 * M
        BY <3>4
      <3>5. (2 + ND + NS) + 0 + 1 = (2 + ND + NS) + 1
        OBVIOUS
      <3> QED BY <1>7, <2>1, <3>1, <3>2, <3>3, <3>4, <3>5
    <2> QED BY <2>2, <2>4, <2>5
  <1>9. /\ read.ND = ND /\ read.NS = NS
         /\ read.density = SubSeq(file, 2 + 0 + 1, 2 + 0 + ND)
         /\ read.entropy = SubSeq(file, 2 + ND + 1, 2 + ND + NS)
         /\ \A q \in Thermo : read.thermo_quantities[q] =
              SubSeq(file, 2 + (ND + NS + q * ND * NS) + 1, 2 + (ND + NS + q * ND * NS) + ND * NS)
    BY <1>7 DEF Import
  <1> HIDE DEF read
  <1>10. read.density = density /\ read.entropy = entropy
    <2>1. 2 + 0 + 1 = 3 /\ 2 + 0 + ND = 2 + ND /\ 2 + ND + 1 = 3 + ND
      OBVIOUS
    <2> QED BY <1>7, <1>9, <2>1
  <1>11. ASSUME NEW q \in Thermo, NEW d \in 0 .. ND - 1, NEW s \in 0 .. NS - 1
         PROVE  read.thermo_quantities[q][d + s * ND + 1] = [of |-> q, d |-> d, s |-> s]
    <2>1. PICK n \in 0 .. M - 1 : n = d + s * ND /\ n % ND = d /\ n \div ND = s
      <3>1. FlatArray(ND, NS)
        BY FlatPlace
      <3> QED BY <1>1, <3>1 DEF FlatArray
    <2>2. n + 1 \in 1 .. M /\ (n + 1) - 1 = n
      OBVIOUS
    <2>3. q \in 0 .. 3
      BY DEF Thermo
    <2>4. quantity(q)[n + 1] = place(q, n + 1)
      BY <1>5, <2>2, <2>3
    <2>5. place(q, n + 1) = [of |-> q, d |-> d, s |-> s]
      BY <2>1, <2>2
    <2> HIDE DEF place, quantity
    <2>6. read.thermo_quantities[q] = quantity(q)
      BY <1>8, <1>9
    <2> QED BY <2>1, <2>4, <2>5, <2>6
  <1> QED BY <1>2, <1>9, <1>10, <1>11 DEF Imported, read

-------------------------------------------------------------------------------
(* A lookup.                                                               *)

AscendingTable(xx) == xx \in Seq(Int) /\ Len(xx) > 1 /\ Ascending(xx)

(* Along one axis: the cell that is kept is right, and there is none only  *)
(* for a value at the end when the guess is the last place.                *)
LEMMA AxisRight ==
  ASSUME NEW xx, AscendingTable(xx), NEW value \in Int, NEW guess \in Int
  PROVE  LET x == Clamped(value, xx)
             c == Hunt(xx, x, guess)
         IN  /\ CellOf(xx, x, Within(c, Len(xx))) /\ c \in Int
             /\ c \in 0 .. Len(xx) - 2 => CellOf(xx, x, c)
             /\ c \notin 0 .. Len(xx) - 2 => guess = Len(xx) - 1 /\ x = Last(xx)
  <1> DEFINE n == Len(xx)
             x == Clamped(value, xx)
             c == Hunt(xx, x, guess)
  <1>1. n \in Nat /\ n > 1 /\ \A i \in 1 .. n : xx[i] \in Int
    BY DEF AscendingTable
  <1>2. xx[1] <= xx[n] /\ xx[n - 1] <= xx[n] /\ Last(xx) = xx[n]
    BY <1>1 DEF AscendingTable, Ascending, Last
  <1>3. x \in Int /\ xx[1] <= x /\ x <= xx[n]
    BY <1>1, <1>2 DEF Clamped
  <1> HIDE DEF x
  <1>4. Between(xx, x)
    BY <1>3 DEF AscendingTable, Between
  <1>5. \/ CellOf(xx, x, c)
        \/ c = n /\ guess = n - 1 /\ x = xx[n]
    BY <1>4, HuntFinds
  <1> HIDE DEF c
  <1>6. CASE CellOf(xx, x, c)
    <2>1. c \in 0 .. n - 2 /\ Within(c, n) = c
      BY <1>1, <1>6 DEF CellOf, Within
    <2> QED BY <1>1, <1>6, <2>1 DEF x, c
  <1>7. CASE c = n /\ guess = n - 1 /\ x = xx[n]
    <2>1. Within(c, n) = n - 2 /\ c \notin 0 .. n - 2 /\ n - 2 \in 0 .. n - 2
      BY <1>1, <1>7 DEF Within
    <2>2. (n - 2) + 1 = n - 1 /\ (n - 2) + 2 = n /\ xx[n] <= xx[n]
      BY <1>1
    <2>3. CellOf(xx, x, n - 2)
      BY <1>1, <1>2, <1>7, <2>1, <2>2 DEF CellOf
    <2> QED BY <1>1, <1>2, <1>7, <2>1, <2>3 DEF x, c
  <1> QED BY <1>5, <1>6, <1>7

LEMMA TablesAscend ==
  ASSUME NEW k \in DOMAIN Tables
  PROVE  /\ AscendingTable(Tables[k].density) /\ AscendingTable(Tables[k].entropy)
         /\ Materials[k].ND = Len(Tables[k].density) /\ Materials[k].NS = Len(Tables[k].entropy)
         /\ Imported(Materials[k], Tables[k].density, Tables[k].entropy)
  <1>1. Tables[k] \in [density : Seq(Int), entropy : Seq(Int)] /\ Tables[k] \in Range(Tables)
    <2>1. Tables \in Seq([density : Seq(Int), entropy : Seq(Int)])
      BY EosAssumption
    <2>2. Tables[k] \in Range(Tables)
      BY DEF Range
    <2>3. k \in 1 .. Len(Tables)
      BY <2>1
    <2> QED BY <2>1, <2>2, <2>3, ElementOfSeq, Zenon
  <1>2. AscendingTable(Tables[k].density) /\ AscendingTable(Tables[k].entropy)
    BY <1>1, EosAssumption DEF AscendingTable
  <1>3. Materials[k] = Import(TableFile(Tables[k]))
    BY DEF Materials
  <1>4. Imported(Materials[k], Tables[k].density, Tables[k].entropy)
    <2>1. PICK density \in Seq(Int), entropy \in Seq(Int), ND \in Nat, NS \in Nat :
            /\ density = Tables[k].density /\ entropy = Tables[k].entropy
            /\ ND = Len(density) /\ NS = Len(entropy) /\ ND > 1 /\ NS > 1
      BY <1>2 DEF AscendingTable
    <2>2. Imported(Import(TableFile(Tables[k])), density, entropy)
      BY <2>1, ImportRight
    <2> QED BY <1>3, <2>1, <2>2
  <1> QED BY <1>2, <1>4 DEF Imported

(* The corners that are read of a cell of a material.                      *)
LEMMA CornersRight ==
  ASSUME NEW k \in DOMAIN Tables, NEW q \in Thermo,
         NEW d \in 0 .. Len(Tables[k].density) - 2, NEW s \in 0 .. Len(Tables[k].entropy) - 2
  PROVE  \A c \in {0, 1} \X {0, 1} :
           Corners(Materials[k], q, d, s)[c] = [of |-> q, d |-> d + c[1], s |-> s + c[2]]
  <1> SUFFICES ASSUME NEW a \in {0, 1}, NEW b \in {0, 1}
               PROVE  Corners(Materials[k], q, d, s)[<<a, b>>] = [of |-> q, d |-> d + a, s |-> s + b]
    OBVIOUS
  <1> DEFINE t == Materials[k]
             ND == Len(Tables[k].density)
             NS == Len(Tables[k].entropy)
  <1>1. ND \in Nat /\ NS \in Nat /\ t.ND = ND
    BY TablesAscend DEF AscendingTable
  <1>2. d + a \in 0 .. ND - 1 /\ s + b \in 0 .. NS - 1
    BY <1>1
  <1>3. t.thermo_quantities[q][(d + a) + (s + b) * ND + 1] = [of |-> q, d |-> d + a, s |-> s + b]
    <2> HIDE DEF t, ND, NS
    <2> QED BY <1>2, TablesAscend DEF Imported, t, ND, NS
  <1>4. Corners(t, q, d, s)[<<a, b>>] = t.thermo_quantities[q][(d + a) + (s + b) * t.ND + 1]
    <2> HIDE DEF t
    <2>1. <<a, b>> \in {0, 1} \X {0, 1} /\ <<a, b>>[1] = a /\ <<a, b>>[2] = b
      OBVIOUS
    <2> QED BY <2>1, Zenon DEF Corners
  <1> QED BY <1>1, <1>3, <1>4

-------------------------------------------------------------------------------
(* The invariant: while the program runs, the kept cell is one of some     *)
(* table, or none yet.                                                     *)

KeptCell ==
  stopped = "no" =>
    \/ d0 = -1 /\ s0 = -1
    \/ \E u \in Range(Tables) : d0 \in 0 .. Len(u.density) - 2 /\ s0 \in 0 .. Len(u.entropy) - 2

EosInv ==
  /\ program \in Programs /\ d0 \in Int /\ s0 \in Int
  /\ KeptCell /\ CellRight /\ StopsAtStaleGuess /\ ShellRight

LEMMA KeptGuess ==
  ASSUME NEW k \in DOMAIN Tables, KeptCell, stopped = "no"
  PROVE  /\ d0 = Len(Tables[k].density) - 1 =>
              \E u \in Range(Tables) : Len(u.density) > Len(Tables[k].density)
         /\ s0 = Len(Tables[k].entropy) - 1 =>
              \E u \in Range(Tables) : Len(u.entropy) > Len(Tables[k].entropy)
  <1> DEFINE ND == Len(Tables[k].density)
             NS == Len(Tables[k].entropy)
  <1>1. ND \in Nat /\ ND > 1 /\ NS \in Nat /\ NS > 1
    BY TablesAscend DEF AscendingTable
  <1>2. CASE d0 = -1 /\ s0 = -1
    BY <1>1, <1>2
  <1>3. CASE \E u \in Range(Tables) : d0 \in 0 .. Len(u.density) - 2 /\ s0 \in 0 .. Len(u.entropy) - 2
    <2>1. PICK j \in DOMAIN Tables : d0 \in 0 .. Len(Tables[j].density) - 2 /\ s0 \in 0 .. Len(Tables[j].entropy) - 2
      BY <1>3 DEF Range
    <2>2. Len(Tables[j].density) \in Nat /\ Len(Tables[j].entropy) \in Nat
      BY TablesAscend DEF AscendingTable
    <2>3. Tables[j] \in Range(Tables)
      BY DEF Range
    <2> QED BY <1>1, <2>1, <2>2, <2>3
  <1> QED BY <1>2, <1>3 DEF KeptCell

LEMMA LookUpStep ==
  ASSUME EosInv, stopped = "no", NEW m, m + 1 \in DOMAIN Tables, NEW rho \in Int, NEW entr \in Int,
         NEW q \in Thermo, LookUp(m, rho, entr, q), UNCHANGED program
  PROVE  EosInv'
  <1> DEFINE k == m + 1
             density == Tables[k].density
             entropy == Tables[k].entropy
             t == Materials[k]
             x == Clamped(rho, density)
             y == Clamped(entr, entropy)
             d == Hunt(density, x, d0)
             s == Hunt(entropy, y, s0)
             ND == Len(density)
             NS == Len(entropy)
             outside == d \notin 0 .. ND - 2 \/ s \notin 0 .. NS - 2
  <1>1. /\ k \in DOMAIN Tables /\ AscendingTable(density) /\ AscendingTable(entropy)
        /\ t.ND = ND /\ t.NS = NS /\ t.density = density /\ t.entropy = entropy
    BY TablesAscend DEF Imported
  <1>2. ND \in Nat /\ ND > 1 /\ NS \in Nat /\ NS > 1
    BY <1>1 DEF AscendingTable
  <1>3. d0 \in Int /\ s0 \in Int /\ program \in Programs
    BY DEF EosInv
  <1>4. /\ CellOf(density, x, Within(d, ND)) /\ d \in Int
        /\ d \in 0 .. ND - 2 => CellOf(density, x, d)
        /\ d \notin 0 .. ND - 2 => d0 = ND - 1 /\ x = Last(density)
    <2> HIDE DEF density
    <2> QED BY <1>1, <1>3, AxisRight
  <1>5. /\ CellOf(entropy, y, Within(s, NS)) /\ s \in Int
        /\ s \in 0 .. NS - 2 => CellOf(entropy, y, s)
        /\ s \notin 0 .. NS - 2 => s0 = NS - 1 /\ y = Last(entropy)
    <2> HIDE DEF entropy
    <2> QED BY <1>1, <1>3, AxisRight
  <1>6. /\ stopped' = IF outside /\ ~program.extrapolate THEN "outside" ELSE "no"
        /\ d0' = IF program.extrapolate THEN Within(d, ND) ELSE d
        /\ s0' = IF program.extrapolate THEN Within(s, NS) ELSE s
        /\ answer' = [of |-> "table", m |-> m, x |-> x, y |-> y, q |-> q, d |-> d0', s |-> s0',
                      guess |-> IF stopped' = "no" THEN <<>> ELSE <<d0, s0>>,
                      read |-> IF stopped' = "no" THEN Corners(t, q, d0', s0') ELSE <<>>]
    <2> HIDE DEF density, entropy, t
    <2>1. t = Materials[m + 1]
      BY DEF t
    <2> QED BY <1>1, <2>1 DEF LookUp
  <1> HIDE DEF x, y, d, s, density, entropy, ND, NS, t
  <1>7. /\ answer'.of = "table" /\ answer'.m = m /\ answer'.x = x /\ answer'.y = y /\ answer'.q = q
        /\ answer'.d = d0' /\ answer'.s = s0'
        /\ answer'.guess = (IF stopped' = "no" THEN <<>> ELSE <<d0, s0>>)
        /\ answer'.read = (IF stopped' = "no" THEN Corners(t, q, d0', s0') ELSE <<>>)
    BY <1>6
  <1>8. program' \in Programs /\ d0' \in Int /\ s0' \in Int
    <2>1. Within(d, ND) \in Int /\ Within(s, NS) \in Int
      BY <1>2, <1>4, <1>5 DEF Within
    <2> QED BY <1>3, <1>4, <1>5, <1>6, <2>1
  <1>9. CASE stopped' = "no"
    <2>1. CellOf(density, x, d0') /\ CellOf(entropy, y, s0')
      BY <1>4, <1>5, <1>6, <1>9
    <2>2. d0' \in 0 .. ND - 2 /\ s0' \in 0 .. NS - 2
      BY <2>1 DEF CellOf, ND, NS
    <2>3. KeptCell'
      <3>1. Tables[k] \in Range(Tables)
        BY <1>1 DEF Range
      <3> QED BY <2>2, <3>1 DEF KeptCell, ND, NS, density, entropy
    <2>4. CellRight'
      <3>1. \A c \in {0, 1} \X {0, 1} : answer'.read[c] = [of |-> q, d |-> d0' + c[1], s |-> s0' + c[2]]
        <4>1. PICK e \in 0 .. ND - 2, r \in 0 .. NS - 2 : e = d0' /\ r = s0'
          BY <2>2
        <4>2. \A c \in {0, 1} \X {0, 1} : Corners(t, q, e, r)[c] = [of |-> q, d |-> e + c[1], s |-> r + c[2]]
          BY <1>1, CornersRight DEF ND, NS, density, entropy, t
        <4>3. answer'.read = Corners(t, q, e, r)
          BY <1>7, <1>9, <4>1
        <4> QED BY <4>1, <4>2, <4>3
      <3>2. /\ density[d0' + 1] <= x /\ x <= density[d0' + 2]
            /\ entropy[s0' + 1] <= y /\ y <= entropy[s0' + 2]
        BY <2>1 DEF CellOf
      <3> QED BY <1>7, <2>2, <3>1, <3>2 DEF CellRight, density, entropy, ND, NS
    <2>5. StopsAtStaleGuess' /\ ShellRight'
      BY <1>7, <1>9 DEF StopsAtStaleGuess, ShellRight
    <2> QED BY <1>8, <2>3, <2>4, <2>5 DEF EosInv
  <1>10. CASE stopped' # "no"
    <2>1. stopped' = "outside" /\ outside /\ ~program.extrapolate
      BY <1>6, <1>10
    <2>2. KeptCell' /\ CellRight' /\ ShellRight'
      BY <1>7, <1>10 DEF KeptCell, CellRight, ShellRight
    <2>3. answer'.guess[1] = d0 /\ answer'.guess[2] = s0
      BY <1>7, <1>10
    <2>4. KeptCell
      BY DEF EosInv
    <2>5. \/ d0 = ND - 1 /\ x = Last(density) /\ \E u \in Range(Tables) : Len(u.density) > ND
          \/ s0 = NS - 1 /\ y = Last(entropy) /\ \E u \in Range(Tables) : Len(u.entropy) > NS
      BY <1>1, <1>4, <1>5, <2>1, <2>4, KeptGuess DEF ND, NS, density, entropy
    <2>6. StopsAtStaleGuess'
      BY <1>7, <2>1, <2>3, <2>5 DEF StopsAtStaleGuess, ND, NS, density, entropy
    <2> QED BY <1>8, <2>2, <2>6 DEF EosInv
  <1> QED BY <1>9, <1>10

-------------------------------------------------------------------------------
(* 1_MakePlanet.                                                           *)

LEMMA MaxExists ==
  ASSUME NEW K \in Nat \ {0}, NEW f \in [1 .. K -> Nat]
  PROVE  \E k \in 1 .. K : \A j \in 1 .. K : f[j] <= f[k]
  <1> DEFINE Has(n) == \E k \in 1 .. n : \A j \in 1 .. n : f[j] <= f[k]
             Bad == {n \in 1 .. K : ~Has(n)}
  <1>1. SUFFICES ASSUME Bad # {} PROVE FALSE
    <2>1. K \in 1 .. K
      OBVIOUS
    <2>2. Has(K) => \E k \in 1 .. K : \A j \in 1 .. K : f[j] <= f[k]
      OBVIOUS
    <2> HIDE DEF Has
    <2> QED BY <2>1, <2>2
  <1>2. PICK n \in Bad : \A m \in Bad : n <= m
    <2>1. Bad \subseteq Nat
      OBVIOUS
    <2> HIDE DEF Bad
    <2> QED BY <1>1, <2>1, LeastNumber
  <1>3. n # 1
    <2>1. ASSUME n = 1 PROVE FALSE
      <3>1. 1 \in 1 .. n /\ \A j \in 1 .. n : f[j] <= f[1]
        BY <2>1
      <3> QED BY <3>1
    <2> QED BY <2>1
  <1>4. Has(n - 1)
    <2> HIDE DEF Has
    <2>1. n \in 1 .. K /\ n - 1 \in 1 .. K /\ ~(n <= n - 1)
      BY <1>3
    <2> QED BY <1>2, <2>1
  <1>5. PICK k \in 1 .. n - 1 : \A j \in 1 .. n - 1 : f[j] <= f[k]
    BY <1>4
  <1>6. n \in 1 .. K /\ k \in 1 .. n /\ f[n] \in Nat /\ f[k] \in Nat /\ \A j \in 1 .. n : j = n \/ j \in 1 .. n - 1
    OBVIOUS
  <1>7. CASE f[n] <= f[k]
    BY <1>5, <1>6, <1>7
  <1>8. CASE f[k] < f[n]
    <2>1. \A j \in 1 .. n : f[j] <= f[n]
      BY <1>5, <1>6, <1>8
    <2> QED BY <1>6, <2>1
  <1> QED BY <1>6, <1>7, <1>8

LEMMA MaxOfSet ==
  ASSUME NEW K \in Nat \ {0}, NEW f \in [1 .. K -> Nat]
  PROVE  LET S == {f[k] : k \in 1 .. K}
         IN  Max(S) \in Nat /\ \A k \in 1 .. K : f[k] <= Max(S)
  <1> DEFINE S == {f[k] : k \in 1 .. K}
  <1>1. PICK k \in 1 .. K : \A j \in 1 .. K : f[j] <= f[k]
    BY MaxExists
  <1>2. f[k] \in S /\ \A y \in S : f[k] >= y
    BY <1>1
  <1>3. S \subseteq Nat /\ \A j \in 1 .. K : f[j] \in S
    OBVIOUS
  <1> HIDE DEF S
  <1>4. Max(S) \in S /\ \A y \in S : Max(S) >= y
    BY <1>2 DEF Max
  <1> QED BY <1>3, <1>4 DEF S

LEMMA MakerTablesFit ==
  ASSUME NEW mat \in 0 .. Len(MakerTables) - 1
  PROVE  LET t == MakerTables[mat + 1]
         IN  /\ AscendingTable(t.density) /\ AscendingTable(t.temperature)
             /\ nRho \in Nat /\ Len(t.density) <= nRho
             /\ nT \in Nat /\ Len(t.temperature) <= nT
             /\ Len(MakerTables) \in Nat
  <1> DEFINE K == Len(MakerTables)
             TT == [density : Seq(Int), temperature : Seq(Int)]
             rows == [k \in 1 .. K |-> Len(MakerTables[k].density)]
             columns == [k \in 1 .. K |-> Len(MakerTables[k].temperature)]
  <1>1. MakerTables \in Seq(TT)
    BY EosAssumption
  <1>2. K \in Nat \ {0} /\ mat + 1 \in 1 .. K
    BY <1>1
  <1>3. ASSUME NEW k \in 1 .. K
        PROVE  /\ MakerTables[k] \in TT /\ MakerTables[k] \in Range(MakerTables)
               /\ AscendingTable(MakerTables[k].density) /\ AscendingTable(MakerTables[k].temperature)
    <2>1. MakerTables[k] \in TT
      BY <1>1, ElementOfSeq, Zenon
    <2>2. MakerTables[k] \in Range(MakerTables)
      BY <1>1 DEF Range
    <2> QED BY <2>1, <2>2, EosAssumption DEF AscendingTable
  <1>4. rows \in [1 .. K -> Nat] /\ columns \in [1 .. K -> Nat]
    <2>1. \A k \in 1 .. K : Len(MakerTables[k].density) \in Nat /\ Len(MakerTables[k].temperature) \in Nat
      BY <1>3 DEF AscendingTable
    <2> QED BY <2>1
  <1>5. /\ {Len(t.density) : t \in Range(MakerTables)} = {rows[k] : k \in 1 .. K}
        /\ {Len(t.temperature) : t \in Range(MakerTables)} = {columns[k] : k \in 1 .. K}
    <2>1. DOMAIN MakerTables = 1 .. K
      BY <1>1
    <2>2. Range(MakerTables) = {MakerTables[k] : k \in 1 .. K}
      BY <2>1 DEF Range
    <2> QED BY <2>2
  <1>6. /\ nRho \in Nat /\ \A k \in 1 .. K : rows[k] <= nRho
        /\ nT \in Nat /\ \A k \in 1 .. K : columns[k] <= nT
    <2> HIDE DEF rows, columns, K
    <2> QED BY <1>2, <1>4, <1>5, MaxOfSet DEF nRho, nT
  <1> QED BY <1>2, <1>3, <1>6

(* The first place that is not below a value.                              *)
LEMMA FirstPlace ==
  ASSUME NEW xx, AscendingTable(xx), NEW x \in Int, NEW array, NEW from \in Int,
         \A k \in 0 .. Len(xx) - 1 : array[from + k] = xx[k + 1]
  PROVE  LET f == FirstNotBelow(array, from, Len(xx), x)
         IN  /\ f \in 0 .. Len(xx)
             /\ \A k \in 0 .. Len(xx) - 1 : k < f => xx[k + 1] < x
             /\ f < Len(xx) => x <= xx[f + 1]
  <1> DEFINE n == Len(xx)
             S == {n} \cup {i \in 0 .. n - 1 : x <= array[from + i]}
             f == FirstNotBelow(array, from, n, x)
  <1>1. n \in Nat /\ n > 1 /\ \A i \in 1 .. n : xx[i] \in Int
    BY DEF AscendingTable
  <1>2. S \subseteq Nat /\ S # {} /\ f = Min(S)
    BY <1>1 DEF FirstNotBelow
  <1>3. \A i \in S : i = n \/ (i \in 0 .. n - 1 /\ x <= xx[i + 1])
    OBVIOUS
  <1>4. \A k \in 0 .. n - 1 : x <= xx[k + 1] => k \in S
    OBVIOUS
  <1> HIDE DEF S
  <1>5. \E i \in S : \A m \in S : i <= m
    BY <1>2, LeastNumber
  <1>6. f \in S /\ \A m \in S : f <= m
    BY <1>2, <1>5 DEF Min
  <1> HIDE DEF f
  <1>7. f \in 0 .. n /\ (f < n => x <= xx[f + 1])
    BY <1>1, <1>3, <1>6
  <1>8. ASSUME NEW k \in 0 .. n - 1, k < f PROVE xx[k + 1] < x
    <2>1. k \notin S /\ xx[k + 1] \in Int
      BY <1>1, <1>6, <1>7, <1>8
    <2> QED BY <1>4, <2>1
  <1> QED BY <1>7, <1>8 DEF f

LEMMA AroundFirst ==
  ASSUME NEW xx, AscendingTable(xx), NEW x \in Int, NEW f \in 0 .. Len(xx),
         \A k \in 0 .. Len(xx) - 1 : k < f => xx[k + 1] < x,
         f < Len(xx) => x <= xx[f + 1]
  PROVE  Around(xx, x) = IF f = 0 THEN {0} ELSE IF f = Len(xx) THEN {f - 1} ELSE {f - 1, f}
  <1> DEFINE n == Len(xx)
  <1>1. n \in Nat /\ n > 1 /\ \A i \in 1 .. n : xx[i] \in Int
    BY DEF AscendingTable
  <1>2. \A i, j \in 1 .. n : i <= j => xx[i] <= xx[j]
    <2>1. DOMAIN xx = 1 .. n /\ Ascending(xx)
      BY DEF AscendingTable
    <2> QED BY <2>1 DEF Ascending
  <1>3. ASSUME NEW k \in 0 .. n - 1
        PROVE  xx[k + 1] \in Int /\ (xx[k + 1] < x <=> k < f) /\ (xx[k + 1] >= x <=> ~(k < f))
    <2>1. xx[k + 1] \in Int
      BY <1>1
    <2>2. ASSUME f <= k PROVE x <= xx[k + 1]
      <3>1. f + 1 \in 1 .. n /\ k + 1 \in 1 .. n /\ f + 1 <= k + 1
        BY <1>1, <2>2
      <3>2. xx[f + 1] <= xx[k + 1] /\ xx[f + 1] \in Int
        BY <1>1, <1>2, <3>1
      <3>3. x <= xx[f + 1]
        BY <1>1, <2>2
      <3> QED BY <2>1, <3>2, <3>3
    <2>3. f <= k \/ k < f
      BY <1>1
    <2> QED BY <2>1, <2>2, <2>3
  <1>4. ASSUME NEW k \in 0 .. n - 1
        PROVE  /\ k = 0 \/ (xx[k] < x <=> k - 1 < f)
               /\ k + 1 = n \/ (xx[k + 2] >= x <=> ~(k + 1 < f))
    <2>1. ASSUME k # 0 PROVE xx[k] < x <=> k - 1 < f
      <3>1. k - 1 \in 0 .. n - 1 /\ (k - 1) + 1 = k
        BY <1>1, <2>1
      <3> QED BY <1>3, <3>1
    <2>2. ASSUME k + 1 # n PROVE xx[k + 2] >= x <=> ~(k + 1 < f)
      <3>1. k + 1 \in 0 .. n - 1 /\ (k + 1) + 1 = k + 2
        BY <1>1, <2>2
      <3> QED BY <1>3, <3>1
    <2> QED BY <2>1, <2>2
  <1>5. ASSUME NEW k \in 0 .. n - 1
        PROVE  k \in Around(xx, x) <=> (k = f \/ k = f - 1)
    <2>1. k \in Around(xx, x) <=>
            \/ ~(k < f) /\ (k = 0 \/ k - 1 < f)
            \/ k < f /\ (k + 1 = n \/ ~(k + 1 < f))
      BY <1>3, <1>4 DEF Around
    <2> QED BY <1>1, <2>1
  <1>6. Around(xx, x) \subseteq 0 .. n - 1
    BY DEF Around
  <1> QED BY <1>1, <1>5, <1>6

(* The flat arrays hold the tables at the places the program reads.        *)
LEMMA ShellArrays ==
  ASSUME NEW mat \in 0 .. Len(MakerTables) - 1
  PROVE  LET t == MakerTables[mat + 1]
         IN  /\ \A k \in 0 .. Len(t.density) - 1 : DensityArray[k + mat * nRho] = t.density[k + 1]
             /\ \A k \in 0 .. Len(t.density) - 1, j \in 0 .. Len(t.temperature) - 1 :
                  QuantityArray("entropy")[j + k * nT + mat * nRho * nT]
                    = [of |-> "entropy", mat |-> mat, d |-> k, s |-> j]
  <1> DEFINE t == MakerTables[mat + 1]
             n == Len(t.density)
             m == Len(t.temperature)
  <1>1. PICK K \in Nat \ {0}, R \in Nat \ {0}, C \in Nat \ {0} :
          /\ K = Len(MakerTables) /\ R = nRho /\ C = nT
          /\ n \in Nat /\ n <= R /\ m \in Nat /\ m <= C
    <2>1. /\ n \in Nat /\ n > 1 /\ m \in Nat /\ m > 1
      <3> HIDE DEF t
      <3> QED BY MakerTablesFit DEF AscendingTable, t
    <2>2. Len(MakerTables) \in Nat /\ nRho \in Nat /\ n <= nRho /\ nT \in Nat /\ m <= nT
      BY MakerTablesFit
    <2>3. Len(MakerTables) # 0
      BY <2>2
    <2> HIDE DEF n, m
    <2> QED BY <2>1, <2>2, <2>3
  <1>2. mat \in 0 .. K - 1
    BY <1>1
  <1>3. ASSUME NEW k \in 0 .. n - 1
        PROVE  DensityArray[k + mat * nRho] = t.density[k + 1]
    <2>1. PICK p \in 0 .. R * K - 1 : p = k + mat * R /\ p % R = k /\ p \div R = mat
      <3>1. k \in 0 .. R - 1
        BY <1>1
      <3>2. FlatArray(R, K)
        BY FlatPlace
      <3> QED BY <1>2, <3>1, <3>2 DEF FlatArray
    <2>2. p \in 0 .. Len(MakerTables) * nRho - 1 /\ p = k + mat * nRho
      <3>1. R * K = K * R
        OBVIOUS
      <3> QED BY <1>1, <2>1, <3>1
    <2>3. p \div nRho = mat /\ p % nRho = k
      BY <1>1, <2>1
    <2>4. k < n
      BY <1>1
    <2>5. DensityArray[p] = LET density == MakerTables[p \div nRho + 1].density
                            IN  IF (p % nRho) < Len(density) THEN density[(p % nRho) + 1] ELSE 0
      BY <2>2, Zenon DEF DensityArray
    <2>6. DensityArray[p] = t.density[k + 1]
      BY <2>3, <2>4, <2>5
    <2> HIDE DEF t
    <2> QED BY <2>2, <2>6
  <1>4. ASSUME NEW k \in 0 .. n - 1, NEW j \in 0 .. m - 1
        PROVE  QuantityArray("entropy")[j + k * nT + mat * nRho * nT]
                 = [of |-> "entropy", mat |-> mat, d |-> k, s |-> j]
    <2>1. k \in 0 .. R - 1 /\ j \in 0 .. C - 1
      BY <1>1
    <2>2. PICK p \in 0 .. R * K - 1 : p = k + mat * R
      <3>1. FlatArray(R, K)
        BY FlatPlace
      <3> QED BY <1>2, <2>1, <3>1 DEF FlatArray
    <2>3. PICK w \in 0 .. C * (R * K) - 1 : w = j + p * C /\ w % C = j
      <3>1. FlatArray(C, R * K)
        <4>1. R * K \in Nat
          OBVIOUS
        <4> QED BY <4>1, FlatPlace
      <3> QED BY <2>1, <3>1 DEF FlatArray
    <2>4. PICK r \in 0 .. C * R - 1 : r = j + k * C /\ r \div C = k
      <3>1. FlatArray(C, R)
        BY FlatPlace
      <3> QED BY <2>1, <3>1 DEF FlatArray
    <2>5. R * C \in Nat \ {0} /\ C * R = R * C /\ C * (R * K) = K * R * C
      <3>1. 1 * C <= R * C
        BY TimesMono
      <3>2. R * C \in Nat /\ C * R = R * C
        OBVIOUS
      <3>3. C * (R * K) = (R * K) * C /\ R * K = K * R
        OBVIOUS
      <3> QED BY <3>1, <3>2, <3>3
    <2>6. w = mat * (R * C) + r
      <3>1. w = j + (k + mat * R) * C
        BY <2>2, <2>3
      <3>2. (k + mat * R) * C = k * C + (mat * R) * C /\ (mat * R) * C = mat * (R * C)
        BY <1>2
      <3>3. k * C \in Int /\ mat * (R * C) \in Int
        BY <1>2
      <3> QED BY <2>4, <3>1, <3>2, <3>3
    <2>7. w \div (R * C) = mat /\ w % (R * C) = r
      <3>1. r \in Nat /\ r < R * C /\ w \in Int /\ mat \in Int
        BY <2>5
      <3> QED BY <2>5, <2>6, <3>1, DivUnique
    <2>8. w \in 0 .. Len(MakerTables) * nRho * nT - 1
      BY <1>1, <2>5
    <2>9. /\ w \div (nRho * nT) = mat /\ (w % (nRho * nT)) \div nT = k /\ w % nT = j
      BY <1>1, <2>3, <2>4, <2>7
    <2>10. j + k * nT + mat * nRho * nT = w
      <3>1. w = j + (k + mat * R) * C
        BY <2>2, <2>3
      <3>2. (k + mat * R) * C = k * C + mat * R * C
        BY <1>2
      <3>3. k * C \in Int /\ mat * R * C \in Int
        BY <1>2
      <3>4. w = j + k * C + mat * R * C
        BY <3>1, <3>2, <3>3
      <3> QED BY <1>1, <3>4
    <2>11. k < Len(MakerTables[mat + 1].density) /\ j < Len(MakerTables[mat + 1].temperature)
      <3>1. n \in Nat /\ m \in Nat
        BY <1>1
      <3>2. k < n /\ j < m
        <4> HIDE DEF n, m
        <4> QED BY <3>1
      <3> QED BY <3>2
    <2> HIDE DEF t, n, m
    <2>12. QuantityArray("entropy")[w] =
             LET mt == w \div (nRho * nT)
                 i == (w % (nRho * nT)) \div nT
                 jj == w % nT
             IN  IF i < Len(MakerTables[mt + 1].density) /\ jj < Len(MakerTables[mt + 1].temperature)
                 THEN [of |-> "entropy", mat |-> mt, d |-> i, s |-> jj] ELSE [of |-> "padding"]
      BY <2>8, Zenon DEF QuantityArray
    <2>13. QuantityArray("entropy")[w] = [of |-> "entropy", mat |-> mat, d |-> k, s |-> j]
      BY <2>9, <2>11, <2>12, Zenon
    <2> QED BY <2>10, <2>13
  <1> QED BY <1>3, <1>4

LEMMA TableEnds ==
  ASSUME NEW xx, AscendingTable(xx)
  PROVE  /\ Len(xx) \in Nat /\ Len(xx) > 1
         /\ \A i \in 1 .. Len(xx) : xx[i] \in Int /\ xx[i] <= xx[Len(xx)]
  <1>1. xx \in Seq(Int) /\ Len(xx) > 1
    BY DEF AscendingTable
  <1>2. \A i, j \in DOMAIN xx : i <= j => xx[i] <= xx[j]
    BY DEF AscendingTable, Ascending
  <1>3. DOMAIN xx = 1 .. Len(xx) /\ Len(xx) \in Nat
    BY <1>1
  <1> QED BY <1>1, <1>2, <1>3

LEMMA DensitiesOf ==
  ASSUME NEW mat, NEW i, NEW n, n # 0, n = Len(MakerTables[mat + 1].density)
  PROVE  /\ i = 0 => DensitiesAt(mat, i) = {DensityArray[0 + mat * nRho]}
         /\ i # 0 /\ i = n => DensitiesAt(mat, i) = {DensityArray[(n - 1) + mat * nRho]}
         /\ i # 0 /\ i # n =>
              DensitiesAt(mat, i)
                = DensityArray[(i - 1) + mat * nRho] + 1 .. DensityArray[i + mat * nRho]
  BY DEF DensitiesAt

(* The density of a shell is a value of its table, or one between.         *)
LEMMA ShellDensity ==
  ASSUME NEW mat \in 0 .. Len(MakerTables) - 1, NEW density, density = MakerTables[mat + 1].density,
         NEW n \in Int, n = Len(density), NEW i \in 0 .. n
  PROVE  \A rho \in DensitiesAt(mat, i) : rho \in Int /\ rho <= density[n]
  <1> DEFINE at(k) == DensityArray[k + mat * nRho]
  <1>1. AscendingTable(density)
    BY MakerTablesFit
  <1>2. n \in Nat /\ n > 1 /\ \A k \in 1 .. n : density[k] \in Int /\ density[k] <= density[n]
    BY <1>1, TableEnds
  <1>3. \A k \in 0 .. n - 1 : at(k) = density[k + 1]
    BY ShellArrays
  <1>4. /\ i = 0 => DensitiesAt(mat, i) = {at(0)}
        /\ i # 0 /\ i = n => DensitiesAt(mat, i) = {at(n - 1)}
        /\ i # 0 /\ i # n => DensitiesAt(mat, i) = at(i - 1) + 1 .. at(i)
    <2>1. n # 0 /\ n = Len(MakerTables[mat + 1].density)
      BY <1>2
    <2> QED BY <2>1, DensitiesOf, Zenon
  <1> HIDE DEF at
  <1>5. CASE i = 0
    <2>1. at(0) = density[1]
      BY <1>2, <1>3
    <2> QED BY <1>2, <1>4, <1>5, <2>1
  <1>6. CASE i # 0 /\ i = n
    <2>1. at(n - 1) = density[n]
      BY <1>2, <1>3
    <2> QED BY <1>2, <1>4, <1>6, <2>1
  <1>7. CASE i # 0 /\ i # n
    <2>1. i \in 1 .. n /\ i + 1 \in 1 .. n /\ i - 1 \in 0 .. n - 1 /\ i \in 0 .. n - 1 /\ (i - 1) + 1 = i
      BY <1>2, <1>7
    <2>2. PICK lo \in Int, hi \in Int, top \in Int :
            lo = at(i - 1) /\ hi = at(i) /\ top = density[n] /\ hi <= top
      BY <1>2, <1>3, <2>1
    <2>3. \A rho \in lo + 1 .. hi : rho \in Int /\ rho <= top
      <3>1. hi <= top
        BY <2>2
      <3> QED BY <3>1
    <2> QED BY <1>4, <1>7, <2>2, <2>3
  <1> QED BY <1>5, <1>6, <1>7

(* The places of the table around a density and a temperature.             *)
PlacesAround(mat, density, rho, temperature, T) ==
  {[of |-> "entropy", mat |-> mat, d |-> c[1], s |-> c[2]] :
     c \in Around(density, rho) \X Around(temperature, T)}

LEMMA ShellReads ==
  ASSUME NEW mat \in 0 .. Len(MakerTables) - 1, NEW T \in Int, NEW rho \in Int,
         NEW density, density = MakerTables[mat + 1].density,
         NEW temperature, temperature = MakerTables[mat + 1].temperature,
         density[1] < rho, rho <= density[Len(density)]
  PROVE  EntropyFrom(mat, T, rho) = PlacesAround(mat, density, rho, temperature, T)
  <1> DEFINE n == Len(density)
             m == Len(temperature)
             tarr == [k \in 0 .. m - 1 |-> temperature[k + 1]]
             sarr == QuantityArray("entropy")
             t == FirstNotBelow(tarr, 0, m, T)
             rows == IF t = 0 THEN {0} ELSE IF t = m THEN {t - 1} ELSE {t - 1, t}
             i == FirstNotBelow(DensityArray, mat * nRho, n, rho)
             place(d, j) == j + d * nT + mat * nRho * nT
             value(d, j) == [of |-> "entropy", mat |-> mat, d |-> d, s |-> j]
  <1>1. AscendingTable(density) /\ AscendingTable(temperature) /\ nRho \in Nat
    BY MakerTablesFit
  <1>2. i # 0 /\ i # n => EntropyFrom(mat, T, rho) = {sarr[place(c[1], c[2])] : c \in {i - 1, i} \X rows}
    <2> HIDE DEF sarr, place
    <2> QED BY DEF EntropyFrom, sarr, place
  <1>3. /\ \A k \in 0 .. n - 1 : DensityArray[k + mat * nRho] = density[k + 1]
        /\ \A k \in 0 .. n - 1, j \in 0 .. m - 1 : sarr[place(k, j)] = value(k, j)
    BY ShellArrays
  <1>4. \A k \in 0 .. n - 1 : DensityArray[mat * nRho + k] = density[k + 1]
    <2>1. mat * nRho \in Int
      BY <1>1
    <2>2. n \in Nat
      BY <1>1, TableEnds
    <2> QED BY <1>3, <2>1, <2>2
  <1>5. \A k \in 0 .. m - 1 : tarr[0 + k] = temperature[k + 1]
    OBVIOUS
  <1>6. mat * nRho \in Int
    BY <1>1
  <1>7. /\ n \in Nat /\ n > 1 /\ m \in Nat /\ m > 1
        /\ \A k \in 1 .. n : density[k] \in Int
    BY <1>1, TableEnds
  <1> HIDE DEF tarr, sarr, place, value
  <1>8. /\ i \in 0 .. n /\ (i < n => rho <= density[i + 1])
        /\ \A k \in 0 .. n - 1 : k < i => density[k + 1] < rho
    BY <1>1, <1>4, <1>6, FirstPlace
  <1>9. /\ t \in 0 .. m /\ (t < m => T <= temperature[t + 1])
        /\ \A k \in 0 .. m - 1 : k < t => temperature[k + 1] < T
    <2>1. AscendingTable(temperature) /\ 0 \in Int
      BY <1>1
    <2> QED BY <1>5, <2>1, FirstPlace, Zenon
  <1> HIDE DEF i, t
  <1>10. i # 0
    <2>1. ASSUME i = 0 PROVE FALSE
      <3>1. rho <= density[1] /\ density[1] \in Int
        BY <1>7, <1>8, <2>1
      <3> QED BY <3>1
    <2> QED BY <2>1
  <1>11. i # n
    <2>1. ASSUME i = n PROVE FALSE
      <3>1. n - 1 \in 0 .. n - 1 /\ n - 1 < i /\ (n - 1) + 1 = n
        BY <1>7, <2>1
      <3>2. PICK k \in 0 .. n - 1 : k < i /\ k + 1 = n
        BY <3>1
      <3>3. density[k + 1] < rho
        BY <1>8, <3>2
      <3>4. density[n] < rho /\ density[n] \in Int
        BY <1>7, <3>2, <3>3
      <3> QED BY <3>4
    <2> QED BY <2>1
  <1>12. Around(density, rho) = {i - 1, i}
    BY <1>1, <1>8, <1>10, <1>11, AroundFirst
  <1>13. Around(temperature, T) = rows
    BY <1>1, <1>9, AroundFirst
  <1>14. rows \subseteq 0 .. m - 1
    BY <1>7, <1>9
  <1>15. {i - 1, i} \subseteq 0 .. n - 1
    BY <1>7, <1>8, <1>10, <1>11
  <1> HIDE DEF n, m, rows
  <1>16. \A c \in {i - 1, i} \X rows : sarr[place(c[1], c[2])] = value(c[1], c[2])
    <2>1. \A d \in {i - 1, i}, j \in rows : sarr[place(d, j)] = value(d, j)
      BY <1>3, <1>14, <1>15
    <2> QED BY <2>1
  <1>17. EntropyFrom(mat, T, rho) = {value(c[1], c[2]) : c \in Around(density, rho) \X Around(temperature, T)}
    <2> DEFINE pairs == {i - 1, i} \X rows
    <2>1. EntropyFrom(mat, T, rho) = {sarr[place(c[1], c[2])] : c \in pairs}
      BY <1>2, <1>10, <1>11
    <2>2. Around(density, rho) \X Around(temperature, T) = pairs
      BY <1>12, <1>13
    <2>3. \A c \in pairs : sarr[place(c[1], c[2])] = value(c[1], c[2])
      BY <1>16
    <2> HIDE DEF pairs
    <2>4. {sarr[place(c[1], c[2])] : c \in pairs} = {value(c[1], c[2]) : c \in pairs}
      BY <2>3
    <2> QED BY <2>1, <2>2, <2>4
  <1> QED BY <1>17 DEF value, PlacesAround

LEMMA ShellStep ==
  ASSUME EosInv, NEW mat \in 0 .. Len(MakerTables) - 1, NEW T \in Entropies,
         NEW i \in 0 .. Len(MakerTables[mat + 1].density), Shell(mat, T, i)
  PROVE  EosInv'
  <1>0. PICK density, temperature : density = MakerTables[mat + 1].density
                                     /\ temperature = MakerTables[mat + 1].temperature
    OBVIOUS
  <1>1. PICK rho \in DensitiesAt(mat, i) :
          answer' = [of |-> "shell", m |-> mat, x |-> rho, y |-> T, read |-> EntropyFrom(mat, T, rho)]
    BY DEF Shell
  <1>2. /\ answer'.of = "shell" /\ answer'.m = mat /\ answer'.x = rho /\ answer'.y = T
        /\ answer'.read = EntropyFrom(mat, T, rho)
    BY <1>1
  <1>3. stopped = "no" /\ UNCHANGED <<program, d0, s0, stopped>>
    BY DEF Shell
  <1>4. rho \in Int /\ rho <= density[Len(density)] /\ T \in Int
    <2>1. PICK n \in Int : n = Len(density)
      <3>1. AscendingTable(density)
        BY <1>0, MakerTablesFit
      <3> QED BY <3>1, TableEnds
    <2>2. \A r \in DensitiesAt(mat, i) : r \in Int /\ r <= density[n]
      <3>1. i \in 0 .. n
        BY <1>0, <2>1
      <3> QED BY <1>0, <2>1, <3>1, ShellDensity
    <2> QED BY <2>1, <2>2, EosAssumption
  <1>5. ShellRight'
    <2>1. density[1] \in Int
      <3>1. AscendingTable(density)
        BY <1>0, MakerTablesFit
      <3> QED BY <3>1, TableEnds
    <2>2. ASSUME density[1] < rho
          PROVE  EntropyFrom(mat, T, rho) = PlacesAround(mat, density, rho, temperature, T)
      BY <1>0, <1>4, <2>2, ShellReads
    <2>3. rho > density[1] => density[1] < rho
      BY <1>4, <2>1
    <2>4. rho > density[1] => EntropyFrom(mat, T, rho) = PlacesAround(mat, density, rho, temperature, T)
      BY <2>2, <2>3
    <2> QED BY <1>0, <1>2, <2>4 DEF ShellRight, PlacesAround
  <1>6. KeptCell' /\ CellRight' /\ StopsAtStaleGuess'
    BY <1>2, <1>3 DEF EosInv, KeptCell, CellRight, StopsAtStaleGuess
  <1> QED BY <1>3, <1>5, <1>6 DEF EosInv

LEMMA ParticleStep ==
  ASSUME EosInv, NEW id \in ParticleIds, NEW rho \in Densities, NEW entr \in Entropies,
         NEW q \in Quantities, ForParticle(id, rho, entr, q)
  PROVE  EosInv'
  <1> DEFINE m == MaterialOf(id)
  <1>1. /\ stopped = "no" /\ program.lookup = "particle" /\ UNCHANGED program
        /\ \/ /\ stopped' = "id" /\ UNCHANGED <<d0, s0, answer>>
           \/ /\ answer' = [of |-> "gas", m |-> m] /\ UNCHANGED <<d0, s0, stopped>>
           \/ m \in 0 .. program.materials - 1 /\ LookUp(m, rho, entr, q)
    BY DEF ForParticle
  <1>2. CASE stopped' = "id" /\ UNCHANGED <<d0, s0, answer>>
    <2>1. KeptCell' /\ CellRight' /\ StopsAtStaleGuess' /\ ShellRight'
      BY <1>2 DEF EosInv, KeptCell, CellRight, StopsAtStaleGuess, ShellRight
    <2> QED BY <1>1, <1>2, <2>1 DEF EosInv
  <1>3. CASE answer' = [of |-> "gas", m |-> m] /\ UNCHANGED <<d0, s0, stopped>>
    <2>1. answer'.of = "gas"
      BY <1>3
    <2>2. KeptCell' /\ CellRight' /\ StopsAtStaleGuess' /\ ShellRight'
      BY <1>1, <1>3, <2>1 DEF EosInv, KeptCell, CellRight, StopsAtStaleGuess, ShellRight
    <2> QED BY <1>1, <1>3, <2>2 DEF EosInv
  <1>4. CASE m \in 0 .. program.materials - 1 /\ LookUp(m, rho, entr, q)
    <2>1. program.materials \in {2, 3}
      BY <1>1 DEF EosInv, Programs, Settings, Gadget2, ReadSnap, Snap2ss, SnapshotPressure, ThermoVars,
                  AnalyseEquil, EvolutionTables, FindPeakPressure, SnapshotToTable, PlanetMaker
    <2>2. rho \in Int /\ entr \in Int /\ q \in Thermo
      BY EosAssumption DEF Thermo
    <2>3. DOMAIN Tables = 1 .. 3
      <3>1. Tables \in Seq([density : Seq(Int), entropy : Seq(Int)]) /\ Len(Tables) = 3
        BY EosAssumption
      <3> QED BY <3>1
    <2> HIDE DEF m
    <2>4. m + 1 \in DOMAIN Tables
      BY <1>4, <2>1, <2>3
    <2> QED BY <1>1, <1>4, <2>2, <2>4, LookUpStep
  <1> QED BY <1>1, <1>2, <1>3, <1>4

LEMMA TableStep ==
  ASSUME EosInv, NEW k \in DOMAIN Tables, NEW rho \in Densities, NEW entr \in Entropies,
         NEW q \in Quantities, ForTable(k - 1, rho, entr, q)
  PROVE  EosInv'
  <1>1. rho \in Int /\ entr \in Int /\ q \in Thermo
    BY EosAssumption DEF Thermo
  <1>2. PICK m \in Int : m = k - 1 /\ m + 1 = k
    <2>1. Tables \in Seq([density : Seq(Int), entropy : Seq(Int)])
      BY EosAssumption
    <2>2. k \in Int
      BY <2>1
    <2> QED BY <2>2
  <1>3. stopped = "no" /\ LookUp(m, rho, entr, q) /\ UNCHANGED program
    BY <1>2, Zenon DEF ForTable
  <1> QED BY <1>1, <1>2, <1>3, LookUpStep

(* Every lookup reads the right place, whatever the tables, the values and *)
(* the order of the lookups: eos_table_interp() finds the cell of the      *)
(* value from the cell of any lookup before, of any table, and stops the   *)
(* program only at the last place of a table after a larger one;           *)
(* 1_MakePlanet reads the places around a density and a temperature.       *)
THEOREM LookupsAreRight == EosSpec => []LookupRight
  <1>1. EosInit => EosInv
    <2>1. NoAnswer.of = "nothing"
      BY DEF NoAnswer
    <2> QED BY <2>1 DEF EosInit, EosInv, KeptCell, CellRight, StopsAtStaleGuess, ShellRight
  <1>2. EosInv /\ [EosNext]_eos_vars => EosInv'
    <2> SUFFICES ASSUME EosInv, [EosNext]_eos_vars PROVE EosInv'
      OBVIOUS
    <2>1. CASE UNCHANGED eos_vars
      BY <2>1 DEF eos_vars, EosInv, KeptCell, CellRight, StopsAtStaleGuess, ShellRight
    <2>2. ASSUME NEW rho \in Densities, NEW entr \in Entropies, NEW q \in Quantities,
                 NEW id \in ParticleIds, ForParticle(id, rho, entr, q)
          PROVE  EosInv'
      BY <2>2, ParticleStep
    <2>3. ASSUME NEW rho \in Densities, NEW entr \in Entropies, NEW q \in Quantities,
                 NEW m \in DOMAIN Tables, ForTable(m - 1, rho, entr, q)
          PROVE  EosInv'
      BY <2>3, TableStep
    <2>4. ASSUME NEW mat \in 0 .. Len(MakerTables) - 1, NEW T \in Entropies,
                 NEW i \in 0 .. Len(MakerTables[mat + 1].density), Shell(mat, T, i)
          PROVE  EosInv'
      BY <2>4, ShellStep
    <2> QED BY <2>1, <2>2, <2>3, <2>4 DEF EosNext
  <1>3. EosInv => LookupRight
    BY DEF EosInv, LookupRight
  <1> QED BY <1>1, <1>2, <1>3, PTL DEF EosSpec

-------------------------------------------------------------------------------
(* Folds over a set, and sums.                                             *)

(* What is passed on from number to number.                                *)
LEMMA CountUp ==
  ASSUME NEW n \in Nat, NEW G, 0 \in G, \A k \in 1 .. n : k - 1 \in G => k \in G
  PROVE  \A k \in 0 .. n : k \in G
  <1> DEFINE Bad == {k \in 0 .. n : k \notin G}
  <1>1. SUFFICES ASSUME Bad # {} PROVE FALSE
    OBVIOUS
  <1>2. PICK k \in Bad : \A j \in Bad : k <= j
    <2>1. Bad \subseteq Nat
      OBVIOUS
    <2> HIDE DEF Bad
    <2> QED BY <1>1, <2>1, LeastNumber
  <1>3. k \in 1 .. n /\ k - 1 \in 0 .. n
    BY <1>2
  <1>4. k - 1 \notin Bad
    BY <1>2, <1>3
  <1> QED BY <1>2, <1>3, <1>4

(* What a set has when it does with any one element less.                  *)
LEMMA TakeAway ==
  ASSUME NEW S, IsFiniteSet(S), NEW Good,
         \A s \in SUBSET S : (\A x \in s : s \ {x} \in Good) => s \in Good
  PROVE  \A s \in SUBSET S : s \in Good
  <1> DEFINE G == {k \in Nat : \A s \in SUBSET S : Cardinality(s) = k => s \in Good}
  <1>1. \A s \in SUBSET S : IsFiniteSet(s) /\ Cardinality(s) \in Nat
    BY FS_Subset, FS_CardinalityType
  <1>2. 0 \in G
    <2> SUFFICES ASSUME NEW s \in SUBSET S, Cardinality(s) = 0 PROVE s \in Good
      OBVIOUS
    <2>1. s = {}
      BY <1>1, FS_EmptySet
    <2> QED BY <2>1
  <1>3. ASSUME NEW k \in Nat \ {0}, k - 1 \in G PROVE k \in G
    <2> SUFFICES ASSUME NEW s \in SUBSET S, Cardinality(s) = k PROVE s \in Good
      BY <1>3
    <2>1. ASSUME NEW x \in s PROVE s \ {x} \in Good
      <3>1. Cardinality(s \ {x}) = k - 1
        BY <1>1, FS_RemoveElement
      <3> QED BY <1>3, <3>1
    <2> QED BY <2>1
  <1> SUFFICES ASSUME NEW s \in SUBSET S PROVE s \in Good
    OBVIOUS
  <1>4. PICK n \in Nat : n = Cardinality(s)
    BY <1>1
  <1>5. n \in G
    <2>1. \A k \in 1 .. n : k - 1 \in G => k \in G
      BY <1>3
    <2>2. n \in 0 .. n
      OBVIOUS
    <2> HIDE DEF G
    <2> QED BY <1>2, <2>1, <2>2, CountUp
  <1> QED BY <1>4, <1>5

(* A function of the subsets of S that adds one element after the other,   *)
(* the one that c names last.                                              *)
Folding(f, S, c, base, step) ==
  /\ f[{}] = base
  /\ \A s \in SUBSET S : s # {} => f[s] = step[<<f[s \ {c[s]}], c[s]>>]

LEMMA FoldExists ==
  ASSUME NEW S, IsFiniteSet(S), NEW V, NEW base \in V, NEW c, \A s \in SUBSET S : s # {} => c[s] \in s,
         NEW step \in [V \X S -> V]
  PROVE  \E f \in [SUBSET S -> V] : Folding(f, S, c, base, step)
  <1> DEFINE Upto(f, k) == /\ f[{}] = base
                           /\ \A s \in SUBSET S : s # {} /\ Cardinality(s) <= k =>
                                f[s] = step[<<f[s \ {c[s]}], c[s]>>]
             G == {k \in Nat : \E f \in [SUBSET S -> V] : Upto(f, k)}
  <1>1. \A s \in SUBSET S : IsFiniteSet(s) /\ Cardinality(s) \in Nat
    BY FS_Subset, FS_CardinalityType
  <1>2. Cardinality({}) = 0 /\ \A s \in SUBSET S : Cardinality(s) = 0 => s = {}
    BY <1>1, FS_EmptySet
  <1>3. 0 \in G
    <2> DEFINE f == [s \in SUBSET S |-> base]
    <2>1. f \in [SUBSET S -> V] /\ f[{}] = base
      OBVIOUS
    <2>2. \A s \in SUBSET S : s # {} => ~(Cardinality(s) <= 0)
      BY <1>1, <1>2
    <2> HIDE DEF f
    <2> QED BY <2>1, <2>2
  <1>4. ASSUME NEW k \in Nat \ {0}, k - 1 \in G PROVE k \in G
    <2>1. PICK f \in [SUBSET S -> V] : Upto(f, k - 1)
      BY <1>4
    <2> DEFINE g == [s \in SUBSET S |-> IF s = {} \/ Cardinality(s) <= k - 1 THEN f[s]
                                        ELSE step[<<f[s \ {c[s]}], c[s]>>]]
    <2>2. \A s \in SUBSET S : s # {} => c[s] \in S /\ s \ {c[s]} \in SUBSET S /\ f[s \ {c[s]}] \in V
      OBVIOUS
    <2>3. g \in [SUBSET S -> V]
      BY <2>2
    <2>4. g[{}] = base
      BY <2>1
    <2>5. ASSUME NEW s \in SUBSET S, s # {}, Cardinality(s) <= k
          PROVE  g[s] = step[<<g[s \ {c[s]}], c[s]>>]
      <3>1. Cardinality(s \ {c[s]}) = Cardinality(s) - 1 /\ Cardinality(s) \in Nat
        BY <1>1, <2>5, FS_RemoveElement
      <3>2. Cardinality(s \ {c[s]}) <= k - 1
        BY <2>5, <3>1
      <3>3. g[s \ {c[s]}] = f[s \ {c[s]}]
        BY <2>2, <2>5, <3>2
      <3>4. g[s] = step[<<f[s \ {c[s]}], c[s]>>]
        BY <2>1, <2>5
      <3> QED BY <3>3, <3>4
    <2>6. Upto(g, k)
      <3> HIDE DEF g
      <3> QED BY <2>4, <2>5
    <2> HIDE DEF g, Upto
    <2> QED BY <2>3, <2>6
  <1>5. PICK n \in Nat : n = Cardinality(S)
    BY <1>1
  <1>6. n \in G
    <2> HIDE DEF G
    <2>1. \A k \in 1 .. n : k - 1 \in G => k \in G
      BY <1>4
    <2>2. n \in 0 .. n
      OBVIOUS
    <2> QED BY <1>3, <2>1, <2>2, CountUp
  <1>7. PICK f \in [SUBSET S -> V] : Upto(f, n)
    BY <1>6
  <1>8. \A s \in SUBSET S : Cardinality(s) <= n
    BY <1>5, FS_Subset
  <1> QED BY <1>7, <1>8 DEF Folding

First(s) == CHOOSE x \in s : TRUE

(* The sums of w over the subsets of S.                                    *)
Sums(F, w, S) ==
  /\ F \in [SUBSET S -> Int] /\ w \in [S -> Int]
  /\ F[{}] = 0
  /\ \A s \in SUBSET S : s # {} => F[s] = w[First(s)] + F[s \ {First(s)}]

LEMMA SumsExist ==
  ASSUME NEW S, IsFiniteSet(S), NEW w \in [S -> Int]
  PROVE  \E F : Sums(F, w, S)
  <1> DEFINE c == [s \in SUBSET S |-> First(s)]
             step == [vx \in Int \X S |-> w[vx[2]] + vx[1]]
  <1>1. \A s \in SUBSET S : s # {} => c[s] = First(s) /\ c[s] \in s
    BY DEF First
  <1>2. step \in [Int \X S -> Int]
    OBVIOUS
  <1>3. \A v \in Int : \A x \in S : step[<<v, x>>] = w[x] + v
    OBVIOUS
  <1> HIDE DEF c, step
  <1>4. PICK F \in [SUBSET S -> Int] : Folding(F, S, c, 0, step)
    <2>1. \A s \in SUBSET S : s # {} => c[s] \in s
      BY <1>1
    <2>2. 0 \in Int
      OBVIOUS
    <2> QED BY <1>2, <2>1, <2>2, FoldExists, Zenon
  <1>5. ASSUME NEW s \in SUBSET S, s # {} PROVE F[s] = w[First(s)] + F[s \ {First(s)}]
    <2>1. c[s] = First(s) /\ First(s) \in S /\ F[s \ {First(s)}] \in Int
      BY <1>1, <1>5
    <2>2. F[s] = step[<<F[s \ {c[s]}], c[s]>>]
      BY <1>4, <1>5 DEF Folding
    <2> QED BY <1>3, <2>1, <2>2
  <1> QED BY <1>4, <1>5 DEF Sums, Folding

AddsUp(F, w, S) ==
  /\ F[{}] = 0
  /\ \A s \in SUBSET S : s # {} => F[s] = w[First(s)] + F[s \ {First(s)}]

LEMMA SumsAgree ==
  ASSUME NEW S, IsFiniteSet(S), NEW F, NEW G, NEW w, AddsUp(F, w, S), AddsUp(G, w, S)
  PROVE  \A s \in SUBSET S : F[s] = G[s]
  <1> DEFINE Good == {s \in SUBSET S : F[s] = G[s]}
  <1>1. ASSUME NEW s \in SUBSET S, \A x \in s : s \ {x} \in Good PROVE s \in Good
    <2>1. CASE s = {}
      BY <2>1 DEF AddsUp
    <2>2. CASE s # {}
      <3>1. First(s) \in s
        BY <2>2 DEF First
      <3> QED BY <1>1, <2>2, <3>1 DEF AddsUp
    <2> QED BY <2>1, <2>2
  <1>2. \A s \in SUBSET S : s \in Good
    <2> HIDE DEF Good
    <2> QED BY <1>1, TakeAway
  <1> QED BY <1>2

(* It does not matter which element is added last.                         *)
TakenOff(F, w, S) == \A s \in SUBSET S : \A x \in S : x \in s => F[s] = w[x] + F[s \ {x}]

LEMMA SumsTake ==
  ASSUME NEW S, IsFiniteSet(S), NEW F, NEW w, Sums(F, w, S)
  PROVE  TakenOff(F, w, S)
  <1> DEFINE Good == {s \in SUBSET S : \A x \in s : F[s] = w[x] + F[s \ {x}]}
  <1>1. ASSUME NEW s \in SUBSET S, \A x \in s : s \ {x} \in Good, NEW x \in s
        PROVE  F[s] = w[x] + F[s \ {x}]
    <2>1. PICK y : y = First(s)
      OBVIOUS
    <2>2. y \in s
      BY <2>1 DEF First
    <2>3. F[s] = w[y] + F[s \ {y}]
      BY <2>1, <2>2 DEF Sums
    <2>4. CASE x # y
      <3>1. x \in s \ {y} /\ y \in s \ {x} /\ (s \ {x}) \ {y} = (s \ {y}) \ {x}
        BY <2>2, <2>4, <1>1
      <3>2. F[s \ {y}] = w[x] + F[(s \ {y}) \ {x}]
        BY <1>1, <2>2, <3>1
      <3>3. F[s \ {x}] = w[y] + F[(s \ {x}) \ {y}]
        BY <1>1, <2>2, <3>1
      <3>4. w[x] \in Int /\ w[y] \in Int /\ F[(s \ {x}) \ {y}] \in Int
        BY <1>1, <2>2 DEF Sums
      <3>5. PICK a \in Int, b \in Int, d \in Int : a = w[x] /\ b = w[y] /\ d = F[(s \ {x}) \ {y}]
        BY <3>4
      <3>6. F[s] = b + (a + d) /\ F[s \ {x}] = b + d
        BY <2>3, <3>1, <3>2, <3>3, <3>5
      <3> QED BY <3>5, <3>6
    <2> QED BY <2>3, <2>4
  <1>2. \A s \in SUBSET S : (\A x \in s : s \ {x} \in Good) => s \in Good
    BY <1>1
  <1>3. \A s \in SUBSET S : s \in Good
    <2> HIDE DEF Good
    <2> QED BY <1>2, TakeAway
  <1> SUFFICES ASSUME NEW s \in SUBSET S, NEW x \in S, x \in s PROVE F[s] = w[x] + F[s \ {x}]
    BY DEF TakenOff
  <1>4. s \in Good
    BY <1>3
  <1> QED BY <1>4

SplitUp(F, S) == \A A, B \in SUBSET S : A \cap B = {} => F[A \cup B] = F[A] + F[B]

LEMMA SumsAdd ==
  ASSUME NEW S, IsFiniteSet(S), NEW F, NEW w, Sums(F, w, S)
  PROVE  SplitUp(F, S)
  <1> DEFINE Good == {B \in SUBSET S : \A A \in SUBSET S : A \cap B = {} => F[A \cup B] = F[A] + F[B]}
  <1>1. ASSUME NEW B \in SUBSET S, \A x \in B : B \ {x} \in Good PROVE B \in Good
    <2> SUFFICES ASSUME NEW A \in SUBSET S, A \cap B = {} PROVE F[A \cup B] = F[A] + F[B]
      BY <1>1
    <2>0. F[A] \in Int /\ F[B] \in Int /\ F[{}] = 0
      BY DEF Sums
    <2>1. CASE B = {}
      <3>1. A \cup B = A
        BY <2>1
      <3> QED BY <2>0, <2>1, <3>1
    <2>2. CASE B # {}
      <3>1. PICK x \in B : TRUE
        BY <2>2
      <3>2. F[A \cup (B \ {x})] = F[A] + F[B \ {x}]
        BY <1>1, <3>1
      <3>3. (A \cup B) \ {x} = A \cup (B \ {x}) /\ A \cup B \in SUBSET S /\ x \in A \cup B
        BY <3>1
      <3>4. F[A \cup B] = w[x] + F[A \cup (B \ {x})] /\ F[B] = w[x] + F[B \ {x}]
        BY <3>1, <3>3, SumsTake DEF TakenOff
      <3>5. PICK a \in Int, b \in Int, d \in Int : a = w[x] /\ b = F[A] /\ d = F[B \ {x}]
        <4>1. w[x] \in Int /\ F[B \ {x}] \in Int
          BY <3>1 DEF Sums
        <4> QED BY <2>0, <4>1
      <3> QED BY <3>2, <3>4, <3>5
    <2> QED BY <2>1, <2>2
  <1>2. \A s \in SUBSET S : s \in Good
    <2> HIDE DEF Good
    <2> QED BY <1>1, TakeAway
  <1> QED BY <1>2 DEF SplitUp

LEMMA SumsPositive ==
  ASSUME NEW S, IsFiniteSet(S), NEW F, NEW w, Sums(F, w, S), \A x \in S : w[x] > 0
  PROVE  \A s \in SUBSET S : F[s] \in Nat /\ \A x \in s : w[x] <= F[s]
  <1> DEFINE Good == {s \in SUBSET S : F[s] \in Nat /\ \A x \in s : w[x] <= F[s]}
  <1>1. ASSUME NEW s \in SUBSET S, \A x \in s : s \ {x} \in Good PROVE s \in Good
    <2>1. CASE s = {}
      BY <2>1 DEF Sums
    <2>2. CASE s # {}
      <3>1. \A x \in s : F[s] = w[x] + F[s \ {x}]
        BY SumsTake DEF TakenOff
      <3>2. \A x \in s : F[s \ {x}] \in Nat /\ w[x] \in Int /\ w[x] > 0
        BY <1>1 DEF Sums
      <3>3. PICK y \in s : TRUE
        BY <2>2
      <3>4. ASSUME NEW x \in s PROVE F[s] \in Nat /\ w[x] <= F[s]
        <4>1. PICK a \in Int, d \in Nat : a = w[x] /\ d = F[s \ {x}]
          BY <3>2
        <4>2. F[s] = a + d /\ a > 0
          BY <3>1, <3>2, <4>1
        <4> QED BY <4>1, <4>2
      <3> QED BY <3>3, <3>4
    <2> QED BY <2>1, <2>2
  <1>2. \A s \in SUBSET S : s \in Good
    <2> HIDE DEF Good
    <2> QED BY <1>1, TakeAway
  <1> QED BY <1>2

(* SumFunctionOnSet is such a function.                                    *)
LEMMA SumIs ==
  ASSUME NEW S, IsFiniteSet(S), NEW F, NEW w, Sums(F, w, S), NEW P \in SUBSET S
  PROVE  SumFunctionOnSet(w, P) = F[P]
  <1> DEFINE Cell(it) == [s \in SUBSET P |-> IF s = {} THEN 0
                           ELSE w[(CHOOSE x \in s : TRUE)] + it[s \ {CHOOSE x \in s : TRUE}]]
             all == [s \in SUBSET P |-> F[s]]
             iter == CHOOSE it : it = Cell(it)
  <1>1. SumFunctionOnSet(w, P) = iter[P]
    BY DEF SumFunctionOnSet, FoldFunctionOnSet, MapThenFoldSet
  <1>2. all = Cell(all)
    <2>1. ASSUME NEW s \in SUBSET P PROVE all[s] = Cell(all)[s]
      <3>1. CASE s = {}
        BY <3>1 DEF Sums
      <3>2. CASE s # {}
        <4>1. First(s) \in s /\ s \in SUBSET S /\ s \ {First(s)} \in SUBSET P
          BY <3>2 DEF First
        <4>2. F[s] = w[First(s)] + F[s \ {First(s)}]
          BY <3>2, <4>1 DEF Sums
        <4>3. Cell(all)[s] = w[First(s)] + all[s \ {First(s)}]
          BY <3>2 DEF First
        <4> QED BY <4>1, <4>2, <4>3
      <3> QED BY <3>1, <3>2
    <2>2. DOMAIN all = SUBSET P /\ DOMAIN Cell(all) = SUBSET P /\ all = [s \in SUBSET P |-> all[s]]
            /\ Cell(all) = [s \in SUBSET P |-> Cell(all)[s]]
      OBVIOUS
    <2> HIDE DEF all, Cell
    <2> QED BY <2>1, <2>2
  <1> HIDE DEF all
  <1>3. iter = Cell(iter)
    <2> HIDE DEF Cell
    <2> QED BY <1>2, Zenon
  <1> HIDE DEF iter
  <1>4. iter[{}] = 0
    <2>1. Cell(iter)[{}] = 0
      OBVIOUS
    <2> HIDE DEF Cell
    <2> QED BY <1>3, <2>1
  <1>5. ASSUME NEW s \in SUBSET P, s # {} PROVE iter[s] = w[First(s)] + iter[s \ {First(s)}]
    <2>1. Cell(iter)[s] = w[First(s)] + iter[s \ {First(s)}]
      BY <1>5 DEF First
    <2> HIDE DEF Cell
    <2> QED BY <1>3, <2>1
  <1>6. ASSUME NEW s \in SUBSET P, s # {} PROVE F[s] = w[First(s)] + F[s \ {First(s)}]
    BY <1>6 DEF Sums
  <1>7. F[{}] = 0 /\ IsFiniteSet(P)
    BY FS_Subset DEF Sums
  <1>8. \A s \in SUBSET P : iter[s] = F[s]
    <2>1. \A s \in SUBSET P : s # {} => iter[s] = w[First(s)] + iter[s \ {First(s)}]
      BY <1>5
    <2>2. \A s \in SUBSET P : s # {} => F[s] = w[First(s)] + F[s \ {First(s)}]
      BY <1>6
    <2>3. AddsUp(iter, w, P) /\ AddsUp(F, w, P)
      BY <1>4, <1>7, <2>1, <2>2 DEF AddsUp
    <2> QED BY <1>7, <2>3, SumsAgree
  <1> QED BY <1>1, <1>8

(* What sums over parts of a finite set are, and of positive numbers.      *)
Summed(w, S) ==
  /\ SumFunctionOnSet(w, {}) = 0
  /\ \A P \in SUBSET S : SumFunctionOnSet(w, P) \in Int
  /\ \A P, Q \in SUBSET S : P \cap Q = {} =>
       SumFunctionOnSet(w, P \cup Q) = SumFunctionOnSet(w, P) + SumFunctionOnSet(w, Q)
  /\ \A x \in S : SumFunctionOnSet(w, {x}) = w[x]

LEMMA SumOn ==
  ASSUME NEW S, IsFiniteSet(S), NEW w, w \in [S -> Int]
  PROVE  Summed(w, S)
  <1>1. PICK F : Sums(F, w, S)
    BY SumsExist
  <1>2. ASSUME NEW P \in SUBSET S PROVE SumFunctionOnSet(w, P) = F[P] /\ F[P] \in Int
    <2>1. F[P] \in Int
      BY <1>1 DEF Sums
    <2> QED BY <1>1, <2>1, SumIs
  <1>3. F[{}] = 0
    BY <1>1 DEF Sums
  <1>4. ASSUME NEW P \in SUBSET S, NEW Q \in SUBSET S, P \cap Q = {} PROVE F[P \cup Q] = F[P] + F[Q]
    <2>1. SplitUp(F, S)
      BY <1>1, SumsAdd
    <2> QED BY <1>4, <2>1, Zenon DEF SplitUp
  <1>5. ASSUME NEW x \in S PROVE F[{x}] = w[x]
    <2>1. {x} \in SUBSET S /\ x \in {x} /\ {x} \ {x} = {}
      OBVIOUS
    <2>2. F[{x}] = w[x] + F[{x} \ {x}]
      <3>1. TakenOff(F, w, S)
        BY <1>1, SumsTake
      <3> QED BY <2>1, <3>1, Zenon DEF TakenOff
    <2>3. F[{x} \ {x}] = 0
      BY <1>3, <2>1
    <2> QED BY <2>2, <2>3
  <1>6. \A P, Q \in SUBSET S : P \cup Q \in SUBSET S
    OBVIOUS
  <1> QED BY <1>2, <1>3, <1>4, <1>5, <1>6 DEF Summed

LEMMA PositiveSumOn ==
  ASSUME NEW S, IsFiniteSet(S), NEW w, w \in [S -> Int], \A x \in S : w[x] > 0
  PROVE  \A P \in SUBSET S : /\ SumFunctionOnSet(w, P) \in Nat
                             /\ \A x \in P : w[x] <= SumFunctionOnSet(w, P)
  <1>1. PICK F : Sums(F, w, S)
    BY SumsExist
  <1>2. \A P \in SUBSET S : SumFunctionOnSet(w, P) = F[P]
    BY <1>1, SumIs
  <1>3. \A P \in SUBSET S : F[P] \in Nat /\ \A x \in P : w[x] <= F[P]
    BY <1>1, SumsPositive
  <1> QED BY <1>2, <1>3

-------------------------------------------------------------------------------
(* Masses and centres of places in a list of particles.                    *)

Bodies == [x : Int, v : Int, m : Nat \ {0}, id : Nat \ {0}, pot : Int]

MassIn(c, P) == SumFunctionOnSet([i \in DOMAIN c |-> c[i].m], P)

CentreIn(c, P) ==
  [x |-> SumFunctionOnSet([i \in DOMAIN c |-> c[i].m * c[i].x], P),
   v |-> SumFunctionOnSet([i \in DOMAIN c |-> c[i].m * c[i].v], P),
   m |-> MassIn(c, P)]

LEMMA Listed ==
  ASSUME NEW c \in Seq(Bodies)
  PROVE  /\ DOMAIN c = 1 .. Len(c) /\ Len(c) \in Nat /\ IsFiniteSet(DOMAIN c) /\ DOMAIN c \subseteq Nat
         /\ \A i \in DOMAIN c : /\ c[i] \in Bodies /\ c[i].m \in Nat /\ c[i].m > 0 /\ c[i].id \in Nat
                                /\ c[i].x \in Int /\ c[i].v \in Int /\ c[i].pot \in Int
  <1>1. DOMAIN c = 1 .. Len(c) /\ Len(c) \in Nat /\ \A i \in DOMAIN c : c[i] \in Bodies
    OBVIOUS
  <1>2. IsFiniteSet(1 .. Len(c))
    BY <1>1, FS_Interval
  <1>3. DOMAIN c \subseteq Nat /\ IsFiniteSet(DOMAIN c)
    BY <1>1, <1>2
  <1>4. ASSUME NEW i \in DOMAIN c
        PROVE  /\ c[i].m \in Nat /\ c[i].m > 0 /\ c[i].id \in Nat
               /\ c[i].x \in Int /\ c[i].v \in Int /\ c[i].pot \in Int
    <2>1. c[i] \in Bodies
      BY <1>1
    <2> QED BY <2>1 DEF Bodies
  <1> QED BY <1>1, <1>3, <1>4

LEMMA Masses ==
  ASSUME NEW c \in Seq(Bodies)
  PROVE  /\ MassIn(c, {}) = 0
         /\ \A P \in SUBSET DOMAIN c : MassIn(c, P) \in Nat /\ \A i \in P : c[i].m <= MassIn(c, P)
         /\ \A P, Q \in SUBSET DOMAIN c : P \cap Q = {} => MassIn(c, P \cup Q) = MassIn(c, P) + MassIn(c, Q)
         /\ \A i \in DOMAIN c : MassIn(c, {i}) = c[i].m
  <1> DEFINE w == [i \in DOMAIN c |-> c[i].m]
  <1>1. w \in [DOMAIN c -> Int] /\ (\A i \in DOMAIN c : w[i] > 0 /\ w[i] = c[i].m) /\ IsFiniteSet(DOMAIN c)
    BY Listed
  <1>2. \A P : MassIn(c, P) = SumFunctionOnSet(w, P)
    BY DEF MassIn
  <1> HIDE DEF w
  <1>3. \A P \in SUBSET DOMAIN c : /\ SumFunctionOnSet(w, P) \in Nat
                                   /\ \A i \in P : w[i] <= SumFunctionOnSet(w, P)
    BY <1>1, PositiveSumOn
  <1>4. /\ SumFunctionOnSet(w, {}) = 0
        /\ \A P, Q \in SUBSET DOMAIN c : P \cap Q = {} =>
             SumFunctionOnSet(w, P \cup Q) = SumFunctionOnSet(w, P) + SumFunctionOnSet(w, Q)
        /\ \A i \in DOMAIN c : SumFunctionOnSet(w, {i}) = w[i]
    <2>1. Summed(w, DOMAIN c)
      BY <1>1, SumOn
    <2> QED BY <2>1 DEF Summed
  <1> QED BY <1>1, <1>2, <1>3, <1>4

LEMMA MassesCompared ==
  ASSUME NEW c \in Seq(Bodies), NEW P \in SUBSET DOMAIN c, NEW Q \in SUBSET P
  PROVE  MassIn(c, Q) <= MassIn(c, P)
  <1>1. P = Q \cup (P \ Q) /\ Q \cap (P \ Q) = {} /\ Q \in SUBSET DOMAIN c /\ P \ Q \in SUBSET DOMAIN c
    OBVIOUS
  <1>2. MassIn(c, Q) \in Nat /\ MassIn(c, P \ Q) \in Nat
    BY <1>1, Masses
  <1>3. MassIn(c, P) = MassIn(c, Q) + MassIn(c, P \ Q)
    BY <1>1, Masses
  <1> QED BY <1>2, <1>3

LEMMA CentresAdd ==
  ASSUME NEW c \in Seq(Bodies), NEW P \in SUBSET DOMAIN c, NEW Q \in SUBSET DOMAIN c, P \cap Q = {}
  PROVE  CentreIn(c, P \cup Q) = [x |-> CentreIn(c, P).x + CentreIn(c, Q).x,
                                  v |-> CentreIn(c, P).v + CentreIn(c, Q).v,
                                  m |-> MassIn(c, P) + MassIn(c, Q)]
  <1> DEFINE w == [i \in DOMAIN c |-> c[i].m * c[i].x]
             u == [i \in DOMAIN c |-> c[i].m * c[i].v]
  <1>1. w \in [DOMAIN c -> Int] /\ u \in [DOMAIN c -> Int] /\ IsFiniteSet(DOMAIN c)
    <2>1. ASSUME NEW i \in DOMAIN c PROVE c[i].m * c[i].x \in Int /\ c[i].m * c[i].v \in Int
      <3>1. PICK a \in Int, b \in Int, d \in Int : a = c[i].m /\ b = c[i].x /\ d = c[i].v
        <4>1. c[i].m \in Int /\ c[i].x \in Int /\ c[i].v \in Int
          BY Listed
        <4> QED BY <4>1
      <3> QED BY <3>1
    <2> QED BY <2>1, Listed
  <1>2. \A A : CentreIn(c, A).x = SumFunctionOnSet(w, A) /\ CentreIn(c, A).v = SumFunctionOnSet(u, A)
    BY DEF CentreIn
  <1>3. CentreIn(c, P \cup Q) = [x |-> SumFunctionOnSet(w, P \cup Q), v |-> SumFunctionOnSet(u, P \cup Q),
                                 m |-> MassIn(c, P \cup Q)]
    BY DEF CentreIn
  <1> HIDE DEF w, u
  <1>4. SumFunctionOnSet(w, P \cup Q) = SumFunctionOnSet(w, P) + SumFunctionOnSet(w, Q)
    <2>1. Summed(w, DOMAIN c)
      BY <1>1, SumOn
    <2> QED BY <2>1 DEF Summed
  <1>5. SumFunctionOnSet(u, P \cup Q) = SumFunctionOnSet(u, P) + SumFunctionOnSet(u, Q)
    <2>1. Summed(u, DOMAIN c)
      BY <1>1, SumOn
    <2> QED BY <2>1 DEF Summed
  <1>6. MassIn(c, P \cup Q) = MassIn(c, P) + MassIn(c, Q)
    BY Masses
  <1> QED BY <1>2, <1>3, <1>4, <1>5, <1>6

-------------------------------------------------------------------------------
(* Folds from left to right.                                               *)

LEMMA Greatest ==
  ASSUME NEW n \in Nat, NEW s, s \subseteq 1 .. n, s # {}
  PROVE  Max(s) \in s /\ \A y \in s : Max(s) >= y
  <1> DEFINE T == {n - x : x \in s}
  <1>1. T \subseteq Nat /\ T # {}
    <2>1. \A x \in s : n - x \in Nat
      OBVIOUS
    <2>2. PICK x \in s : TRUE
      OBVIOUS
    <2>3. n - x \in T
      BY <2>2
    <2> QED BY <2>1, <2>3
  <1>2. PICK t \in T : \A r \in T : t <= r
    <2> HIDE DEF T
    <2> QED BY <1>1, LeastNumber
  <1>3. PICK x \in s : t = n - x
    OBVIOUS
  <1>4. \A y \in s : x >= y
    <2> SUFFICES ASSUME NEW y \in s PROVE x >= y
      OBVIOUS
    <2>1. n - x <= n - y
      BY <1>2, <1>3
    <2> QED BY <2>1
  <1> QED BY <1>4, Zenon DEF Max

LEMMA LastOfFirst ==
  ASSUME NEW n \in Nat, NEW k \in 1 .. n
  PROVE  Max(1 .. k) = k /\ (1 .. k) \ {k} = 1 .. k - 1 /\ 1 .. k \in SUBSET (1 .. n) /\ 1 .. k # {}
  <1>1. 1 .. k \in SUBSET (1 .. n) /\ 1 .. k # {} /\ k \in 1 .. k /\ (1 .. k) \ {k} = 1 .. k - 1
    OBVIOUS
  <1>2. PICK y : y = Max(1 .. k)
    OBVIOUS
  <1>3. y \in 1 .. k /\ y >= k
    BY <1>1, <1>2, Greatest
  <1> QED BY <1>1, <1>2, <1>3

(* The particles of a pass one after the other.                            *)
LEMMA JoinTurns ==
  ASSUME pl \in Seq(Bodies), bndm \in Nat
  PROVE  \E it : /\ it[{}] = [m |-> bndm, members |-> {}]
                 /\ \A k \in Indices : it[1 .. k] = Join(it[1 .. k - 1], k)
                 /\ Joined = it[Indices]
  <1> DEFINE n == Len(pl)
             S == 1 .. n
             seq == [i \in Indices |-> i]
             base == [m |-> bndm, members |-> {}]
             V == [m : Nat, members : SUBSET S]
             c == [s \in SUBSET S |-> Max(s)]
             step == [vx \in V \X S |-> Join(vx[1], vx[2])]
             Cell(it) == [s \in SUBSET DOMAIN seq |-> IF s = {} THEN base ELSE Join(it[s \ {Max(s)}], seq[Max(s)])]
             iter == CHOOSE it : it = Cell(it)
  <1>1. Joined = iter[DOMAIN seq]
    BY DEF Joined, FoldLeft, MapThenFoldSet
  <1>2. n \in Nat /\ Indices = S /\ DOMAIN seq = S /\ IsFiniteSet(S) /\ \A i \in S : seq[i] = i
    BY Listed DEF Indices
  <1>3. \A s \in SUBSET S : s # {} => Max(s) \in s /\ c[s] = Max(s)
    <2> HIDE DEF n
    <2> QED BY <1>2, Greatest
  <1>4. step \in [V \X S -> V] /\ base \in V
    <2>1. ASSUME NEW v \in V, NEW i \in S PROVE Join(v, i) \in V
      <3>1. pl[i].m \in Nat
        BY <1>2, Listed DEF Indices
      <3> QED BY <3>1 DEF Join
    <2> QED BY <2>1
  <1>5. \A v \in V : \A i \in S : step[<<v, i>>] = Join(v, i)
    OBVIOUS
  <1> HIDE DEF c, step, seq, S, V, base
  <1>6. PICK f \in [SUBSET S -> V] : Folding(f, S, c, base, step)
    <2>1. \A s \in SUBSET S : s # {} => c[s] \in s
      BY <1>3
    <2> QED BY <1>2, <1>4, <2>1, FoldExists, Zenon
  <1>7. f = Cell(f)
    <2>1. ASSUME NEW s \in SUBSET S PROVE f[s] = Cell(f)[s]
      <3>1. CASE s = {}
        BY <1>2, <1>6, <3>1 DEF Folding
      <3>2. CASE s # {}
        <4>1. Max(s) \in S /\ s \ {Max(s)} \in SUBSET S /\ c[s] = Max(s)
          BY <1>3, <3>2
        <4>2. f[s] = step[<<f[s \ {Max(s)}], Max(s)>>] /\ f[s \ {Max(s)}] \in V
          BY <1>6, <3>2, <4>1 DEF Folding
        <4> QED BY <1>2, <1>5, <3>2, <4>1, <4>2
      <3> QED BY <3>1, <3>2
    <2>2. DOMAIN f = SUBSET S /\ DOMAIN Cell(f) = SUBSET S /\ f = [s \in SUBSET S |-> f[s]]
            /\ Cell(f) = [s \in SUBSET S |-> Cell(f)[s]]
      BY <1>2
    <2> HIDE DEF Cell
    <2> QED BY <2>1, <2>2
  <1>8. iter = Cell(iter)
    <2> HIDE DEF Cell
    <2> QED BY <1>7, Zenon
  <1> HIDE DEF iter
  <1>9. iter[{}] = base
    <2>1. Cell(iter)[{}] = base
      OBVIOUS
    <2> HIDE DEF Cell
    <2> QED BY <1>8, <2>1
  <1>10. ASSUME NEW k \in S PROVE iter[1 .. k] = Join(iter[1 .. k - 1], k)
    <2>1. Max(1 .. k) = k /\ (1 .. k) \ {k} = 1 .. k - 1 /\ 1 .. k \in SUBSET S /\ 1 .. k # {}
      BY <1>2, LastOfFirst DEF S
    <2>2. Cell(iter)[1 .. k] = Join(iter[1 .. k - 1], k)
      BY <1>2, <2>1
    <2> HIDE DEF Cell
    <2> QED BY <1>8, <2>2
  <1> QED BY <1>1, <1>2, <1>9, <1>10, Zenon DEF base

(* Who joins is free, and adds its mass; when nobody does nobody is tied.  *)
LEMMA Joins ==
  ASSUME pl \in Seq(Bodies), bndm \in Nat
  PROVE  /\ Joined.members \subseteq Free
         /\ Joined.m = bndm + MassIn(pl, Joined.members)
         /\ Joined.members = {} => \A i \in Free : ~Tied(i, centre, bndm)
  <1>1. PICK it : /\ it[{}] = [m |-> bndm, members |-> {}]
                  /\ \A k \in Indices : it[1 .. k] = Join(it[1 .. k - 1], k)
                  /\ Joined = it[Indices]
    BY JoinTurns
  <1>2. Indices = 1 .. Len(pl) /\ Len(pl) \in Nat /\ DOMAIN pl = Indices
    BY Listed DEF Indices
  <1> DEFINE G == {k \in 0 .. Len(pl) :
                     /\ it[1 .. k].members \subseteq Free \cap (1 .. k)
                     /\ it[1 .. k].m = bndm + MassIn(pl, it[1 .. k].members)
                     /\ it[1 .. k].members = {} => \A i \in Free \cap (1 .. k) : ~Tied(i, centre, bndm)}
  <1>3. 0 \in G
    <2>1. 1 .. 0 = {} /\ MassIn(pl, {}) = 0 /\ 0 \in 0 .. Len(pl)
      BY <1>2, Masses
    <2>2. it[1 .. 0] = [m |-> bndm, members |-> {}]
      BY <1>1, <2>1
    <2>3. it[1 .. 0].members = {} /\ it[1 .. 0].m = bndm
      BY <2>2
    <2>4. MassIn(pl, it[1 .. 0].members) = 0
      BY <2>1, <2>3
    <2>5. it[1 .. 0].m = bndm + MassIn(pl, it[1 .. 0].members)
      BY <2>3, <2>4
    <2>6. it[1 .. 0].members \subseteq Free \cap (1 .. 0) /\ \A i \in Free \cap (1 .. 0) : ~Tied(i, centre, bndm)
      BY <2>1, <2>3
    <2> QED BY <2>1, <2>5, <2>6
  <1>4. ASSUME NEW k \in 1 .. Len(pl), k - 1 \in G PROVE k \in G
    <2> DEFINE a == it[1 .. k - 1]
               b == it[1 .. k]
    <2>1. /\ a.members \subseteq Free \cap (1 .. k - 1)
          /\ a.m = bndm + MassIn(pl, a.members)
          /\ a.members = {} => \A i \in Free \cap (1 .. k - 1) : ~Tied(i, centre, bndm)
      BY <1>4
    <2>2. b = Join(a, k)
      BY <1>1, <1>2
    <2>3. 1 .. k = (1 .. k - 1) \cup {k} /\ k \notin 1 .. k - 1
      BY <1>2
    <2>4. Free \subseteq DOMAIN pl /\ a.members \in SUBSET DOMAIN pl /\ k \in DOMAIN pl
      BY <1>2, <2>1 DEF Free
    <2>5. MassIn(pl, a.members) \in Nat /\ pl[k].m \in Nat
      BY <2>4, Masses, Listed
    <2> HIDE DEF a, b
    <2>6. CASE k \in Free /\ Tied(k, centre, a.m)
      <3>1. b.m = a.m + pl[k].m /\ b.members = a.members \cup {k}
        BY <2>2, <2>6 DEF Join
      <3>2. a.members \cap {k} = {} /\ {k} \in SUBSET DOMAIN pl
        BY <2>1, <2>3, <2>4
      <3>3. MassIn(pl, a.members \cup {k}) = MassIn(pl, a.members) + MassIn(pl, {k}) /\ MassIn(pl, {k}) = pl[k].m
        BY <2>4, <3>2, Masses
      <3>4. b.m = bndm + MassIn(pl, b.members)
        <4>1. PICK p \in Nat, q \in Nat : p = MassIn(pl, a.members) /\ q = pl[k].m
          BY <2>5
        <4>2. a.m = bndm + p /\ MassIn(pl, b.members) = p + q
          BY <2>1, <3>1, <3>3, <4>1
        <4> QED BY <3>1, <4>1, <4>2
      <3>5. b.members \subseteq Free \cap (1 .. k) /\ b.members # {}
        BY <2>1, <2>3, <2>6, <3>1
      <3> QED BY <3>4, <3>5 DEF b
    <2>7. CASE ~(k \in Free /\ Tied(k, centre, a.m))
      <3>1. b = a
        BY <2>2, <2>7 DEF Join
      <3>2. ASSUME a.members = {}, NEW i \in Free \cap (1 .. k) PROVE ~Tied(i, centre, bndm)
        <4>1. a.m = bndm
          BY <2>1, <3>2, Masses
        <4> QED BY <2>1, <2>3, <2>7, <3>2, <4>1
      <3> QED BY <2>1, <2>3, <3>1, <3>2 DEF b
    <2> QED BY <2>6, <2>7
  <1>5. Len(pl) \in G
    <2> HIDE DEF G
    <2>1. \A k \in 1 .. Len(pl) : k - 1 \in G => k \in G
      BY <1>4
    <2>0. Len(pl) \in Nat
      BY <1>2
    <2>2. PICK n \in Nat : n = Len(pl)
      BY <2>0, Zenon
    <2>3. \A k \in 1 .. n : k - 1 \in G => k \in G
      BY <2>1, <2>2
    <2>4. \A k \in 0 .. n : k \in G
      BY <1>3, <2>3, CountUp
    <2> QED BY <2>2, <2>4
  <1>6. Free \cap (1 .. Len(pl)) = Free
    BY <1>2 DEF Free
  <1> QED BY <1>1, <1>2, <1>5, <1>6

-------------------------------------------------------------------------------
(* Neighbours that change places.                                          *)

SwapsDone == FoldLeft(Swap, bnd, [k \in 1 .. remnant - 2 |-> k])

LEMMA SwapTurns ==
  ASSUME bnd \in [Indices -> Nat], remnant \in Nat, remnant >= 2
  PROVE  \E it : /\ it[{}] = bnd
                 /\ \A k \in 1 .. remnant - 2 : it[1 .. k] = Swap(it[1 .. k - 1], k)
                 /\ \A k \in 0 .. remnant - 2 : it[1 .. k] \in [Indices -> Nat]
                 /\ SwapsDone = it[1 .. remnant - 2]
  <1> DEFINE n == remnant - 2
             S == 1 .. n
             seq == [k \in 1 .. remnant - 2 |-> k]
             V == [Indices -> Nat]
             c == [s \in SUBSET S |-> Max(s)]
             step == [vx \in V \X S |-> Swap(vx[1], vx[2])]
             Cell(it) == [s \in SUBSET DOMAIN seq |-> IF s = {} THEN bnd ELSE Swap(it[s \ {Max(s)}], seq[Max(s)])]
             iter == CHOOSE it : it = Cell(it)
  <1>1. SwapsDone = iter[DOMAIN seq]
    BY DEF SwapsDone, FoldLeft, MapThenFoldSet
  <1>2. n \in Nat /\ 1 .. remnant - 2 = S /\ DOMAIN seq = S /\ IsFiniteSet(S) /\ \A i \in S : seq[i] = i /\ i \in Nat
    <2>1. n \in Nat /\ IsFiniteSet(1 .. n)
      BY FS_Interval
    <2> QED BY <2>1
  <1>3. \A s \in SUBSET S : s # {} => Max(s) \in s /\ c[s] = Max(s)
    <2> HIDE DEF n
    <2> QED BY <1>2, Greatest
  <1>4. step \in [V \X S -> V] /\ bnd \in V
    <2>1. ASSUME NEW v \in V, NEW i \in S PROVE Swap(v, i) \in V
      <3>1. i \in Nat /\ i + 1 \in Nat /\ \A j \in Indices : v[j] \in Nat
        BY <1>2
      <3> QED BY <3>1 DEF Swap
    <2> QED BY <2>1
  <1>5. \A v \in V : \A i \in S : step[<<v, i>>] = Swap(v, i)
    OBVIOUS
  <1> HIDE DEF c, step, seq, S, V, n
  <1>6. PICK f \in [SUBSET S -> V] : Folding(f, S, c, bnd, step)
    <2>1. \A s \in SUBSET S : s # {} => c[s] \in s
      BY <1>3
    <2> QED BY <1>2, <1>4, <2>1, FoldExists, Zenon
  <1>7. f = Cell(f)
    <2>1. ASSUME NEW s \in SUBSET S PROVE f[s] = Cell(f)[s]
      <3>1. CASE s = {}
        BY <1>2, <1>6, <3>1 DEF Folding
      <3>2. CASE s # {}
        <4>1. Max(s) \in S /\ s \ {Max(s)} \in SUBSET S /\ c[s] = Max(s)
          BY <1>3, <3>2
        <4>2. f[s] = step[<<f[s \ {Max(s)}], Max(s)>>] /\ f[s \ {Max(s)}] \in V
          BY <1>6, <3>2, <4>1 DEF Folding
        <4> QED BY <1>2, <1>5, <3>2, <4>1, <4>2
      <3> QED BY <3>1, <3>2
    <2>2. DOMAIN f = SUBSET S /\ DOMAIN Cell(f) = SUBSET S /\ f = [s \in SUBSET S |-> f[s]]
            /\ Cell(f) = [s \in SUBSET S |-> Cell(f)[s]]
      BY <1>2
    <2> HIDE DEF Cell
    <2> QED BY <2>1, <2>2
  <1>8. iter = Cell(iter)
    <2> HIDE DEF Cell
    <2> QED BY <1>7, Zenon
  <1> HIDE DEF iter
  <1>9. iter[{}] = bnd
    <2>1. Cell(iter)[{}] = bnd
      OBVIOUS
    <2> HIDE DEF Cell
    <2> QED BY <1>8, <2>1
  <1>10. ASSUME NEW k \in S PROVE iter[1 .. k] = Swap(iter[1 .. k - 1], k)
    <2>1. Max(1 .. k) = k /\ (1 .. k) \ {k} = 1 .. k - 1 /\ 1 .. k \in SUBSET S /\ 1 .. k # {}
      BY <1>2, LastOfFirst DEF S
    <2>2. Cell(iter)[1 .. k] = Swap(iter[1 .. k - 1], k)
      BY <1>2, <2>1
    <2> HIDE DEF Cell
    <2> QED BY <1>8, <2>2
  <1>11. \A k \in 0 .. n : iter[1 .. k] \in V
    <2> DEFINE G == {k \in 0 .. n : iter[1 .. k] \in V}
    <2>1. 0 \in G
      <3>1. 1 .. 0 = {} /\ 0 \in 0 .. n
        BY <1>2
      <3> QED BY <1>4, <1>9, <3>1
    <2>2. ASSUME NEW k \in 1 .. n, k - 1 \in G PROVE k \in G
      <3>1. iter[1 .. k] = step[<<iter[1 .. k - 1], k>>] /\ iter[1 .. k - 1] \in V /\ k \in S
        BY <1>5, <1>10, <2>2 DEF S
      <3>2. step[<<iter[1 .. k - 1], k>>] \in V
        BY <1>4, <3>1
      <3> QED BY <1>2, <3>1, <3>2
    <2>3. \A k \in 1 .. n : k - 1 \in G => k \in G
      BY <2>2
    <2>4. \A k \in 0 .. n : k \in G
      <3> HIDE DEF G
      <3> QED BY <1>2, <2>1, <2>3, CountUp
    <2> QED BY <2>4
  <1>12. 0 .. n = 0 .. remnant - 2
    BY DEF n
  <1> QED BY <1>1, <1>2, <1>9, <1>10, <1>11, <1>12, Zenon DEF V

Exchange(k) == [j \in Nat |-> CASE j = k + 1 -> k [] j = k -> k + 1 [] OTHER -> j]

LEMMA Exchanges ==
  ASSUME NEW k \in Nat
  PROVE  /\ \A j \in Nat : Exchange(k)[j] \in Nat /\ Exchange(k)[Exchange(k)[j]] = j
         /\ Exchange(k)[k] = k + 1 /\ Exchange(k)[k + 1] = k
         /\ \A j \in Nat : j < k => Exchange(k)[j] = j
  BY DEF Exchange

(* The particles marked k are marked f[k] then.                            *)
Renumbered(f, K, marks, now) ==
  /\ f \in [1 .. K -> 1 .. K]
  /\ \A a, b \in 1 .. K : f[a] = f[b] => a = b
  /\ \A j \in 1 .. K : Remnant(f[j], now) = Remnant(j, marks)

LEMMA SwapRenumbers ==
  ASSUME NEW K \in Nat, NEW k \in 1 .. K - 1, NEW marks, NEW now \in [Indices -> Nat], NEW f, Renumbered(f, K, marks, now),
         \A i \in Indices : now[i] <= K
  PROVE  /\ \E g : Renumbered(g, K, marks, Swap(now, k))
         /\ \A i \in Indices : Swap(now, k)[i] <= K
  <1>1. CASE ~(MassOf(Remnant(k + 1, now)) > MassOf(Remnant(k, now)))
    BY <1>1 DEF Swap
  <1>2. CASE MassOf(Remnant(k + 1, now)) > MassOf(Remnant(k, now))
    <2> DEFINE new == [i \in Indices |-> Exchange(k)[now[i]]]
               g == [j \in 1 .. K |-> Exchange(k)[f[j]]]
    <2>1. Swap(now, k) = new
      <3>1. \A i \in Indices : Exchange(k)[now[i]] =
                 CASE now[i] = k + 1 -> k [] now[i] = k -> k + 1 [] OTHER -> now[i]
        BY DEF Exchange
      <3> QED BY <1>2, <3>1 DEF Swap
    <2>2. k \in Nat /\ k + 1 \in Nat /\ k + 1 <= K
      OBVIOUS
    <2>3. \A j \in 1 .. K : f[j] \in 1 .. K /\ f[j] \in Nat
      BY DEF Renumbered
    <2>4. \A j \in 1 .. K : Exchange(k)[j] \in 1 .. K
      BY <2>2 DEF Exchange
    <2>5. g \in [1 .. K -> 1 .. K]
      BY <2>3, <2>4
    <2>6. ASSUME NEW a \in 1 .. K, NEW b \in 1 .. K, g[a] = g[b] PROVE a = b
      <3>1. Exchange(k)[g[a]] = f[a] /\ Exchange(k)[g[b]] = f[b]
        BY <2>2, <2>3, Exchanges
      <3>2. f[a] = f[b]
        BY <2>6, <3>1
      <3> QED BY <3>2 DEF Renumbered
    <2>7. ASSUME NEW j \in 1 .. K PROVE Remnant(g[j], new) = Remnant(j, marks)
      <3>1. ASSUME NEW i \in Indices PROVE new[i] = g[j] <=> now[i] = f[j]
        <4>1. now[i] \in Nat /\ f[j] \in Nat
          BY <2>3
        <4>2. Exchange(k)[Exchange(k)[now[i]]] = now[i] /\ Exchange(k)[Exchange(k)[f[j]]] = f[j]
          BY <2>2, <4>1, Exchanges
        <4>3. new[i] = Exchange(k)[now[i]] /\ g[j] = Exchange(k)[f[j]]
          OBVIOUS
        <4> QED BY <4>2, <4>3
      <3>2. Remnant(g[j], new) = Remnant(f[j], now)
        BY <3>1 DEF Remnant
      <3> QED BY <3>2 DEF Renumbered
    <2>8. \A i \in Indices : new[i] <= K
      <3> SUFFICES ASSUME NEW i \in Indices PROVE new[i] <= K
        OBVIOUS
      <3>1. now[i] \in Nat /\ now[i] <= K /\ new[i] = Exchange(k)[now[i]]
        OBVIOUS
      <3>2. CASE now[i] = 0
        BY <2>2, <3>1, <3>2 DEF Exchange
      <3>3. CASE now[i] \in 1 .. K
        BY <2>4, <3>1, <3>3
      <3> QED BY <3>1, <3>2, <3>3
    <2>9. Renumbered(g, K, marks, new)
      <3> HIDE DEF g, new
      <3> QED BY <2>5, <2>6, <2>7 DEF Renumbered
    <2> QED BY <2>1, <2>8, <2>9
  <1> QED BY <1>1, <1>2

(* Once over all only gives the remnants other numbers; and when nothing   *)
(* has changed they are in order.  A particle that got a smaller number    *)
(* keeps it, for all that follow are larger.                               *)
LEMMA SwapKeepsOrder ==
  ASSUME pl \in Seq(Bodies), NEW k \in Nat \ {0}, NEW now \in [Indices -> Nat], bnd \in [Indices -> Nat],
         \/ now = bnd /\ \A j \in 1 .. k - 1 : MassOf(Remnant(j + 1, bnd)) <= MassOf(Remnant(j, bnd))
         \/ \E i \in Indices : now[i] # bnd[i] /\ now[i] <= k - 1
  PROVE  \/ Swap(now, k) = bnd /\ \A j \in 1 .. k : MassOf(Remnant(j + 1, bnd)) <= MassOf(Remnant(j, bnd))
         \/ \E i \in Indices : Swap(now, k)[i] # bnd[i] /\ Swap(now, k)[i] <= k
  <1> DEFINE more == MassOf(Remnant(k + 1, now)) > MassOf(Remnant(k, now))
             new == [i \in Indices |-> CASE now[i] = k + 1 -> k [] now[i] = k -> k + 1 [] OTHER -> now[i]]
  <1>1. Swap(now, k) = IF more THEN new ELSE now
    BY DEF Swap
  <1>2. \A P \in SUBSET Indices : MassOf(P) \in Nat
    <2>1. \A P \in SUBSET DOMAIN pl : MassIn(pl, P) \in Nat
      BY Masses
    <2> QED BY <2>1 DEF MassOf, MassIn, Indices
  <1>3. CASE \E i \in Indices : now[i] # bnd[i] /\ now[i] <= k - 1
    <2>1. PICK i \in Indices : now[i] # bnd[i] /\ now[i] <= k - 1
      BY <1>3
    <2>2. now[i] \in Nat /\ now[i] # k /\ now[i] # k + 1
      BY <2>1
    <2>3. new[i] = now[i]
      BY <2>2
    <2>4. Swap(now, k)[i] = now[i] /\ now[i] <= k
      BY <1>1, <2>1, <2>2, <2>3
    <2> QED BY <2>1, <2>4
  <1>4. CASE now = bnd /\ \A j \in 1 .. k - 1 : MassOf(Remnant(j + 1, bnd)) <= MassOf(Remnant(j, bnd))
    <2>1. CASE more
      <3>1. Remnant(k + 1, now) # {}
        <4>1. MassOf({}) = 0
          <5>1. MassIn(pl, {}) = 0
            BY Masses
          <5> QED BY <5>1 DEF MassOf, MassIn, Indices
        <4>2. MassOf(Remnant(k, now)) \in Nat
          BY <1>2 DEF Remnant
        <4> SUFFICES ASSUME Remnant(k + 1, now) = {} PROVE FALSE
          OBVIOUS
        <4>3. MassOf(Remnant(k + 1, now)) = 0
          BY <4>1
        <4> QED BY <2>1, <4>2, <4>3
      <3>2. PICK i \in Indices : now[i] = k + 1
        BY <3>1 DEF Remnant
      <3>3. Swap(now, k)[i] = k /\ bnd[i] = k + 1
        BY <1>1, <1>4, <2>1, <3>2
      <3> QED BY <3>3
    <2>2. CASE ~more
      <3>1. Swap(now, k) = bnd
        BY <1>1, <1>4, <2>2
      <3>2. MassOf(Remnant(k + 1, bnd)) <= MassOf(Remnant(k, bnd))
        <4>1. MassOf(Remnant(k + 1, bnd)) \in Nat /\ MassOf(Remnant(k, bnd)) \in Nat
          BY <1>2 DEF Remnant
        <4> QED BY <1>4, <2>2, <4>1
      <3>3. \A j \in 1 .. k : j \in 1 .. k - 1 \/ j = k
        OBVIOUS
      <3> QED BY <1>4, <3>1, <3>2, <3>3
    <2> QED BY <2>1, <2>2
  <1> QED BY <1>3, <1>4

LEMMA Swaps ==
  ASSUME pl \in Seq(Bodies), bnd \in [Indices -> Nat], remnant \in Nat, remnant >= 2,
         \A i \in Indices : bnd[i] < remnant
  PROVE  /\ SwapsDone \in [Indices -> Nat] /\ \A i \in Indices : SwapsDone[i] < remnant
         /\ \E f : Renumbered(f, remnant - 1, bnd, SwapsDone)
         /\ SwapsDone = bnd =>
              \A j \in 2 .. remnant - 1 : MassOf(Remnant(j, bnd)) <= MassOf(Remnant(j - 1, bnd))
  <1> DEFINE n == remnant - 2
             K == remnant - 1
             InOrder(k) == \A j \in 1 .. k : MassOf(Remnant(j + 1, bnd)) <= MassOf(Remnant(j, bnd))
  <1>1. PICK it : /\ it[{}] = bnd
                  /\ \A k \in 1 .. n : it[1 .. k] = Swap(it[1 .. k - 1], k)
                  /\ \A k \in 0 .. n : it[1 .. k] \in [Indices -> Nat]
                  /\ SwapsDone = it[1 .. n]
    BY SwapTurns
  <1> DEFINE Right(now, k) ==
               /\ \E f : Renumbered(f, K, bnd, now)
               /\ \A i \in Indices : now[i] <= K
               /\ \/ now = bnd /\ InOrder(k)
                  \/ \E i \in Indices : now[i] # bnd[i] /\ now[i] <= k
             G == {k \in 0 .. n : Right(it[1 .. k], k)}
  <1>2. n \in Nat /\ K \in Nat /\ K = n + 1
    OBVIOUS
  <1>3. 0 \in G
    <2>1. 1 .. 0 = {} /\ 0 \in 0 .. n
      BY <1>2
    <2>2. Renumbered([j \in 1 .. K |-> j], K, bnd, bnd)
      BY DEF Renumbered
    <2>3. \A i \in Indices : bnd[i] <= K
      BY <1>2
    <2>4. InOrder(0)
      OBVIOUS
    <2>5. Right(bnd, 0)
      <3> HIDE DEF InOrder
      <3> QED BY <2>2, <2>3, <2>4
    <2> HIDE DEF Right
    <2> QED BY <1>1, <2>1, <2>5
  <1>4. ASSUME NEW k \in 1 .. n, k - 1 \in G PROVE k \in G
    <2>1. PICK now : now = it[1 .. k - 1]
      OBVIOUS
    <2>2. Right(now, k - 1) /\ k - 1 \in 0 .. n /\ k \in 0 .. n
      BY <1>2, <1>4, <2>1
    <2>3. now \in [Indices -> Nat] /\ it[1 .. k] = Swap(now, k)
      BY <1>1, <2>1, <2>2
    <2>4. PICK f : Renumbered(f, K, bnd, now)
      BY <2>2
    <2>5. k \in 1 .. K - 1 /\ K \in Nat /\ k \in Nat \ {0}
      BY <1>2
    <2>6. (\E g : Renumbered(g, K, bnd, Swap(now, k))) /\ \A i \in Indices : Swap(now, k)[i] <= K
      <3>1. \A i \in Indices : now[i] <= K
        BY <2>2
      <3> HIDE DEF K
      <3> QED BY <2>3, <2>4, <2>5, <3>1, SwapRenumbers
    <2>7. \/ Swap(now, k) = bnd /\ InOrder(k)
          \/ \E i \in Indices : Swap(now, k)[i] # bnd[i] /\ Swap(now, k)[i] <= k
      BY <2>2, <2>3, <2>5, SwapKeepsOrder
    <2>8. Right(Swap(now, k), k)
      <3> HIDE DEF InOrder
      <3> QED BY <2>6, <2>7
    <2> HIDE DEF Right
    <2> QED BY <2>2, <2>3, <2>8
  <1>5. n \in G
    <2>1. \A k \in 1 .. n : k - 1 \in G => k \in G
      BY <1>4
    <2>2. n \in 0 .. n
      BY <1>2
    <2> HIDE DEF G, n
    <2> QED BY <1>2, <1>3, <2>1, <2>2, CountUp
  <1>6. Right(SwapsDone, n)
    <2> HIDE DEF Right
    <2> QED BY <1>1, <1>5
  <1>7. SwapsDone \in [Indices -> Nat]
    BY <1>1, <1>2
  <1>8. \A i \in Indices : SwapsDone[i] < remnant
    <2> SUFFICES ASSUME NEW i \in Indices PROVE SwapsDone[i] < remnant
      OBVIOUS
    <2>1. SwapsDone[i] \in Nat /\ SwapsDone[i] <= K
      BY <1>6, <1>7
    <2> QED BY <2>1
  <1>9. ASSUME SwapsDone = bnd, NEW j \in 2 .. remnant - 1
        PROVE  MassOf(Remnant(j, bnd)) <= MassOf(Remnant(j - 1, bnd))
    <2>1. InOrder(n)
      BY <1>6, <1>9
    <2>2. j - 1 \in 1 .. n /\ (j - 1) + 1 = j
      BY <1>9
    <2> QED BY <2>1, <2>2
  <1> QED BY <1>6, <1>7, <1>8, <1>9

-------------------------------------------------------------------------------
(* The first of the lowest.                                                *)
LEMMA LowestExists ==
  ASSUME NEW S, IsFiniteSet(S), S \subseteq Nat, S # {}, NEW q, q \in [S -> Int]
  PROVE  \E i \in S : \A j \in S : q[i] < q[j] \/ (q[i] = q[j] /\ i <= j)
  <1> DEFINE Low(i, s) == \A j \in s : q[i] < q[j] \/ (q[i] = q[j] /\ i <= j)
             Good == {s \in SUBSET S : s # {} => \E i \in s : Low(i, s)}
  <1>1. ASSUME NEW s \in SUBSET S, \A x \in s : s \ {x} \in Good PROVE s \in Good
    <2> SUFFICES ASSUME s # {} PROVE \E i \in s : Low(i, s)
      OBVIOUS
    <2>1. PICK x \in s : TRUE
      OBVIOUS
    <2>2. q[x] \in Int /\ x \in Nat
      OBVIOUS
    <2>3. CASE s \ {x} = {}
      <3>1. \A j \in s : j = x
        BY <2>3
      <3>2. Low(x, s)
        BY <2>2, <3>1
      <3> QED BY <2>1, <3>2
    <2>4. CASE s \ {x} # {}
      <3>1. PICK y \in s \ {x} : Low(y, s \ {x})
        BY <1>1, <2>1, <2>4
      <3>2. q[y] \in Int /\ y \in Nat /\ y \in s
        BY <3>1
      <3>3. CASE q[x] < q[y] \/ (q[x] = q[y] /\ x <= y)
        <4>1. ASSUME NEW j \in s PROVE q[x] < q[j] \/ (q[x] = q[j] /\ x <= j)
          <5>1. q[j] \in Int /\ j \in Nat
            OBVIOUS
          <5>2. j = x \/ q[y] < q[j] \/ (q[y] = q[j] /\ y <= j)
            BY <3>1
          <5> QED BY <2>2, <3>2, <3>3, <5>1, <5>2
        <4>2. Low(x, s)
          BY <4>1
        <4> QED BY <2>1, <4>2
      <3>4. CASE ~(q[x] < q[y] \/ (q[x] = q[y] /\ x <= y))
        <4>1. q[y] < q[x] \/ (q[y] = q[x] /\ y <= x)
          BY <2>2, <3>2, <3>4
        <4>2. ASSUME NEW j \in s PROVE q[y] < q[j] \/ (q[y] = q[j] /\ y <= j)
          <5>1. j = x \/ q[y] < q[j] \/ (q[y] = q[j] /\ y <= j)
            BY <3>1
          <5> QED BY <4>1, <5>1
        <4>3. Low(y, s)
          BY <4>2
        <4> QED BY <3>2, <4>3
      <3> QED BY <3>3, <3>4
    <2> QED BY <2>3, <2>4
  <1>2. \A s \in SUBSET S : s \in Good
    <2> HIDE DEF Good
    <2> QED BY <1>1, TakeAway
  <1>3. S \in Good
    BY <1>2
  <1> QED BY <1>3

LEMMA PotentialIsInt ==
  ASSUME RemnantsAssumption, pl \in Seq(Bodies), NEW i \in Indices
  PROVE  Potential(i) \in Int
  <1> DEFINE others == {j \in Free \ {i} : AbsDiff(pl[i].x, pl[j].x) > nearest}
             w == [j \in others |-> pl[j].m * (allseps \div AbsDiff(pl[i].x, pl[j].x))]
  <1>1. others \subseteq DOMAIN pl /\ i \in DOMAIN pl
    BY DEF Free, Indices
  <1>2. IsFiniteSet(others)
    <2>1. IsFiniteSet(DOMAIN pl)
      BY Listed
    <2> HIDE DEF others
    <2> QED BY <1>1, <2>1, FS_Subset
  <1>3. ASSUME NEW j \in others PROVE pl[j].m * (allseps \div AbsDiff(pl[i].x, pl[j].x)) \in Int
    <2>1. pl[i].x \in Int /\ pl[j].x \in Int /\ pl[j].m \in Int
      BY <1>1, Listed
    <2>2. AbsDiff(pl[i].x, pl[j].x) \in Int /\ AbsDiff(pl[i].x, pl[j].x) > nearest /\ nearest \in Nat /\ allseps \in Int
      BY <2>1 DEF AbsDiff, RemnantsAssumption
    <2>3. PICK d \in Nat \ {0} : d = AbsDiff(pl[i].x, pl[j].x)
      BY <2>2
    <2>4. allseps \div d \in Int
      BY <2>2, <2>3
    <2>5. PICK a \in Int, b \in Int : a = pl[j].m /\ b = allseps \div d
      BY <2>1, <2>4
    <2> QED BY <2>3, <2>5
  <1>4. w \in [others -> Int] /\ DOMAIN w = others
    BY <1>3
  <1>5. Potential(i) = IF remnant = 1 THEN pl[i].pot ELSE -SumFunctionOnSet(w, DOMAIN w)
    BY DEF Potential, SumFunction
  <1>6. SumFunctionOnSet(w, others) \in Int
    <2> HIDE DEF others, w
    <2>1. Summed(w, others)
      BY <1>2, <1>4, SumOn
    <2> QED BY <2>1 DEF Summed
  <1>7. pl[i].pot \in Int
    BY <1>1, Listed
  <1> HIDE DEF w
  <1> QED BY <1>4, <1>5, <1>6, <1>7

LEMMA SeedIsFree ==
  ASSUME RemnantsAssumption, pl \in Seq(Bodies), Free # {}
  PROVE  (CHOOSE i \in Free : \A j \in Free :
            \/ Potential(i) < Potential(j)
            \/ Potential(i) = Potential(j) /\ i <= j) \in Free
  <1> DEFINE q == [i \in Free |-> Potential(i)]
  <1>1. Free \subseteq DOMAIN pl /\ Free \subseteq Indices
    BY DEF Free, Indices
  <1>2. IsFiniteSet(Free) /\ Free \subseteq Nat
    BY <1>1, Listed, FS_Subset
  <1>3. q \in [Free -> Int]
    BY <1>1, PotentialIsInt
  <1>4. \E i \in Free : \A j \in Free : q[i] < q[j] \/ (q[i] = q[j] /\ i <= j)
    <2> HIDE DEF q
    <2> QED BY <1>2, <1>3, LowestExists
  <1>5. \A i \in Free : q[i] = Potential(i)
    OBVIOUS
  <1>6. \E i \in Free : \A j \in Free : Potential(i) < Potential(j) \/ (Potential(i) = Potential(j) /\ i <= j)
    <2> HIDE DEF q
    <2> QED BY <1>4, <1>5
  <1> QED BY <1>6, Zenon

LEMMA LesserOfTwo ==
  ASSUME NEW a \in Nat \ {0}, NEW b \in Nat \ {0}
  PROVE  Min({a, b}) \in Nat \ {0}
  <1>1. \E x \in {a, b} : \A y \in {a, b} : x <= y
    <2>1. CASE a <= b
      BY <2>1
    <2>2. CASE b <= a
      BY <2>2
    <2> QED BY <2>1, <2>2
  <1>2. Min({a, b}) \in {a, b}
    BY <1>1, Zenon DEF Min
  <1> QED BY <1>2

LEMMA ThreeMaterials ==
  ASSUME RemnantsAssumption, nMat <= 2, NEW id
  PROVE  MaterialIs(id) \in {1, 2, 3}
  <1> DEFINE T == {nMat + 1} \cup {i \in 1 .. nMat : id < i * idskip}
  <1>1. nMat \in {1, 2}
    BY DEF RemnantsAssumption
  <1>2. T \subseteq {1, 2, 3} /\ T \subseteq Nat /\ T # {}
    BY <1>1
  <1> HIDE DEF T
  <1>3. \E x \in T : \A y \in T : x <= y
    BY <1>2, LeastNumber
  <1>4. Min(T) \in T
    BY <1>3, Zenon DEF Min
  <1> QED BY <1>2, <1>4 DEF MaterialIs, T

LEMMA FindersDiffer ==
  ASSUME finder \in Finders
  PROVE  /\ finder.all \in BOOLEAN /\ finder.ordered \in BOOLEAN /\ finder.least \in Nat
         /\ finder.ordered => finder.all
         /\ finder.all => finder.fraction /\ finder # BoundMass0
  <1> DEFINE Sound(f) ==
               /\ f.all \in BOOLEAN /\ f.ordered \in BOOLEAN /\ f.least \in Nat
               /\ f.ordered => f.all
               /\ f.all => f.fraction
  <1>1. Sound(BoundMass)
    BY DEF BoundMass, Finder
  <1>2. Sound(MoreBound)
    BY DEF MoreBound, Finder
  <1>3. Sound(RemoveLR)
    BY DEF RemoveLR, Finder
  <1>4. Sound(BoundMass0)
    BY DEF BoundMass0, Finder
  <1>5. Sound(DiskMass2)
    BY DEF DiskMass2, Finder
  <1>6. Sound(finder)
    <2> HIDE DEF Sound
    <2> QED BY <1>1, <1>2, <1>3, <1>4, <1>5 DEF Finders
  <1>7. finder.all => finder # BoundMass0
    <2>1. ~BoundMass0.all
      BY DEF BoundMass0, Finder
    <2> QED BY <2>1, Zenon
  <1> QED BY <1>6, <1>7

-------------------------------------------------------------------------------
(* The invariant.                                                          *)

TiedIn(c, i, at, with) ==
  LET x == AbsDiff(c[i].x * at.m, at.x)
      v == c[i].v * at.m - at.v
  IN  at.m > 0 /\ v * v * x < twoG * with * (at.m * at.m * at.m)

MarkedAs(c, marks, j) == {i \in DOMAIN c : marks[i] = j}

LEMMA OfTheParticles ==
  /\ Indices = DOMAIN pl /\ Free = MarkedAs(pl, bnd, 0)
  /\ \A P : MassOf(P) = MassIn(pl, P) /\ Centre(P) = CentreIn(pl, P)
  /\ \A j, marks : Remnant(j, marks) = MarkedAs(pl, marks, j)
  /\ \A i, at, with : Tied(i, at, with) <=> TiedIn(pl, i, at, with)
  <1>1. Indices = DOMAIN pl
    BY DEF Indices
  <1>2. Free = MarkedAs(pl, bnd, 0) /\ \A j, marks : Remnant(j, marks) = MarkedAs(pl, marks, j)
    BY DEF Free, Remnant, MarkedAs, Indices
  <1>3. \A P : MassOf(P) = MassIn(pl, P)
    BY DEF MassOf, MassIn, Indices
  <1>4. \A P : Centre(P) = CentreIn(pl, P)
    BY <1>3 DEF Centre, CentreIn, Indices
  <1>5. \A i, at, with : Tied(i, at, with) <=> TiedIn(pl, i, at, with)
    BY DEF Tied, TiedIn
  <1> QED BY <1>1, <1>2, <1>3, <1>4, <1>5

(* No search was begun when all were bound.                                *)
Intact == ~RanOut /\ (search = "pass" => bndm > 0)

(* What such a search has: the last seed, and nothing else.                *)
AllBound ==
  /\ MarkedAs(pl, bnd, 0) = {}
  /\ search = "pass" => bndm = 0 /\ MarkedAs(pl, bnd, remnant) = {seedindex}

(* The marks, with that seed back in one of the remnants.                  *)
Restored ==
  IF Intact THEN {bnd} ELSE {[bnd EXCEPT ![seedindex] = j] : j \in 1 .. remnant - 1}

Searching == search \in {"seed", "pass"}

Shaped ==
  /\ finder \in Finders
  /\ pl \in Seq(Bodies) /\ pl # <<>> /\ (search # "done" => pl \in Collisions)
  /\ bnd \in [DOMAIN pl -> Nat]
  /\ remnant \in Nat \ {0} /\ seedindex \in DOMAIN pl
  /\ bndm \in Nat /\ oldm \in Nat /\ nbound \in Nat /\ passes \in Nat
  /\ search \in {"seed", "pass", "reorder", "table", "done"} /\ (search = "reorder" => finder.ordered)
  /\ printed \in Seq([mass : Nat, parts : Nat])

(* Remnant k of the list is the one marked f[k].                           *)
Matches(c, marks, list, f) ==
  /\ f \in [DOMAIN list -> DOMAIN list]
  /\ \A a, b \in DOMAIN list : f[a] = f[b] => a = b
  /\ \A k \in DOMAIN list : MassIn(c, MarkedAs(c, marks, f[k])) = list[k].mass

Kept ==
  /\ Len(printed) = remnant - 1
  /\ \A i \in DOMAIN pl : bnd[i] < remnant \/ (search = "pass" /\ bnd[i] = remnant)
  /\ ~Intact => AllBound
  /\ \E marks \in Restored : \E f :
       Matches(pl, marks, printed, f) /\ (Searching => \A k \in DOMAIN printed : f[k] = k)

Enough ==
  /\ \A k \in 1 .. Len(printed) :
       k >= finder.least /\ (k < Len(printed) \/ Searching) => printed[k].parts >= minparts
  /\ ~Searching => printed # <<>> /\ printed[Len(printed)].parts < minparts

(* What the search has of the remnant it is at, and that the last pass     *)
(* added a particle, or else none is left that is tied to it.              *)
Settled(c, marks, members, at, now, before) ==
  \/ \E i \in members : before + c[i].m <= now
  \/ before = now /\ \A i \in MarkedAs(c, marks, 0) : ~TiedIn(c, i, at, now)

Gathered ==
  search = "pass" =>
    /\ bndm = 0 => passes = 0
    /\ bndm > 0 =>
         /\ bndm = MassIn(pl, MarkedAs(pl, bnd, remnant))
         /\ nbound = Cardinality(MarkedAs(pl, bnd, remnant))
         /\ centre = CentreIn(pl, MarkedAs(pl, bnd, remnant))
         /\ passes > 0 => Settled(pl, bnd, MarkedAs(pl, bnd, remnant), centre, bndm, oldm)

Falling(c, marks, K) ==
  \A j \in 2 .. K : MassIn(c, MarkedAs(c, marks, j)) <= MassIn(c, MarkedAs(c, marks, j - 1))

Sorted == finder.ordered /\ search \in {"table", "done"} => Falling(pl, bnd, remnant - 1)

RInv == Shaped /\ (finder.all => Kept /\ Enough /\ Gathered) /\ Sorted /\ MaterialsAddUp

LEMMA RInvAtFirst ==
  ASSUME RemnantsAssumption, RemnantsInit
  PROVE  RInv
  <1> USE DEF RemnantsInit
  <1>1. pl \in Seq(Bodies) /\ pl # <<>>
    BY DEF RemnantsAssumption, Bodies
  <1>2. Indices = DOMAIN pl /\ 1 \in DOMAIN pl
    <2>1. Len(pl) \in Nat /\ Len(pl) # 0 /\ DOMAIN pl = 1 .. Len(pl)
      BY <1>1
    <2> QED BY <2>1 DEF Indices
  <1>3. bnd \in [DOMAIN pl -> Nat] /\ \A i \in DOMAIN pl : bnd[i] = 0
    BY <1>2
  <1>4. Shaped
    <2>1. printed \in Seq([mass : Nat, parts : Nat])
      OBVIOUS
    <2> QED BY <1>1, <1>2, <1>3, <2>1 DEF Shaped
  <1>5. Kept
    <2>1. Len(printed) = 0 /\ DOMAIN printed = {}
      OBVIOUS
    <2>2. Matches(pl, bnd, printed, [k \in {} |-> k])
      BY <2>1 DEF Matches
    <2>3. Intact /\ Restored = {bnd}
      BY <2>1 DEF Intact, RanOut, Restored
    <2> QED BY <1>3, <2>1, <2>2, <2>3 DEF Kept
  <1>6. Enough
    <2>1. 1 .. Len(printed) = {}
      OBVIOUS
    <2> QED BY <2>1 DEF Enough, Searching
  <1> QED BY <1>4, <1>5, <1>6 DEF RInv, Gathered, Sorted, MaterialsAddUp

(* What is marked anew leaves the remnants before alone.                   *)
LEMMA StillMatched ==
  ASSUME NEW c, NEW marks, NEW now, NEW list, NEW f, NEW r \in Nat \ {0}, Matches(c, marks, list, f),
         \A k \in DOMAIN list : f[k] = k, DOMAIN list = 1 .. r - 1,
         \A i \in DOMAIN c : now[i] = marks[i] \/ (marks[i] = 0 /\ now[i] = r)
  PROVE  Matches(c, now, list, f)
  <1>1. ASSUME NEW k \in DOMAIN list PROVE MarkedAs(c, now, f[k]) = MarkedAs(c, marks, f[k])
    <2>1. f[k] = k /\ k # 0 /\ k # r
      OBVIOUS
    <2> QED BY <2>1 DEF MarkedAs
  <1> QED BY <1>1 DEF Matches

LEMMA RanOutKept ==
  ASSUME printed' = printed
  PROVE  RanOut' <=> RanOut
  BY DEF RanOut

LEMMA SeedKeeps ==
  ASSUME RemnantsAssumption, RInv, Seed
  PROVE  RInv'
  <1> DEFINE s == seedindex'
  <1>1. /\ search = "seed" /\ search' = "pass"
        /\ centre' = Centre(IF Free = {} THEN {} ELSE {s}) /\ bndm' = centre'.m /\ oldm' = 0
        /\ bnd' = IF finder.all THEN [bnd EXCEPT ![s] = remnant] ELSE bnd
        /\ nbound' = 1 /\ passes' = 0
        /\ finder' = finder /\ pl' = pl /\ remnant' = remnant /\ printed' = printed
    BY DEF Seed
  <1>2. Shaped
    BY DEF RInv
  <1>3. pl \in Seq(Bodies) /\ Free = MarkedAs(pl, bnd, 0) /\ Indices = DOMAIN pl /\ remnant \in Nat \ {0}
          /\ bnd \in [DOMAIN pl -> Nat]
    BY <1>2, OfTheParticles DEF Shaped
  <1>4. IF Free = {} THEN s = seedindex ELSE s \in Free
    <2>1. CASE Free = {}
      BY <2>1 DEF Seed
    <2>2. CASE Free # {}
      BY <1>3, <2>2, SeedIsFree DEF Seed
    <2> QED BY <2>1, <2>2
  <1>5. s \in DOMAIN pl
    BY <1>2, <1>3, <1>4 DEF Shaped, MarkedAs
  <1>6. bndm' = IF Free = {} THEN 0 ELSE pl[s].m
    <2>1. \A P : Centre(P).m = MassIn(pl, P)
      BY DEF Centre, MassOf, MassIn, Indices
    <2>2. MassIn(pl, {}) = 0 /\ MassIn(pl, {s}) = pl[s].m
      BY <1>3, <1>5, Masses
    <2> QED BY <1>1, <2>1, <2>2
  <1>7. pl[s].m \in Nat /\ pl[s].m > 0
    BY <1>3, <1>5, Listed
  <1>8. Shaped'
    <2>1. bnd' \in [DOMAIN pl -> Nat]
      BY <1>1, <1>3, <1>5
    <2>2. bndm' \in Nat
      BY <1>6, <1>7
    <2> QED BY <1>1, <1>2, <1>5, <2>1, <2>2 DEF Shaped
  <1>9. ASSUME finder.all PROVE Kept' /\ Enough' /\ Gathered'
    <2>1. Kept /\ Enough
      BY <1>9 DEF RInv
    <2>2. Searching /\ Searching'
      BY <1>1 DEF Searching
    <2>3. bnd' = [bnd EXCEPT ![s] = remnant] /\ \A i \in DOMAIN pl : bnd[i] < remnant /\ bnd[i] \in Nat
      BY <1>1, <1>3, <1>9, <2>1 DEF Kept
    <2>4. Kept'
      <3>1. \A i \in DOMAIN pl : bnd'[i] = (IF i = s THEN remnant ELSE bnd[i])
        BY <1>3, <2>3
      <3>2. PICK marks \in Restored, f \in [DOMAIN printed -> DOMAIN printed] :
              Matches(pl, marks, printed, f) /\ \A k \in DOMAIN printed : f[k] = k
        BY <2>1, <2>2 DEF Kept, Matches
      <3>3. \A i \in DOMAIN pl : bnd'[i] < remnant \/ bnd'[i] = remnant
        BY <2>3, <3>1
      <3>4. CASE Free # {}
        <4>1. Intact /\ Intact'
          BY <1>1, <1>3, <1>6, <1>7, <2>1, <3>4, RanOutKept DEF Intact, Kept, AllBound
        <4>2. marks = bnd /\ bnd' \in Restored'
          BY <3>2, <4>1 DEF Restored
        <4>3. DOMAIN printed = 1 .. remnant - 1
          BY <1>2, <2>1 DEF Kept, Shaped
        <4>4. bnd[s] = 0
          BY <1>3, <1>4, <3>4 DEF MarkedAs
        <4>5. \A i \in DOMAIN pl : bnd'[i] = bnd[i] \/ (bnd[i] = 0 /\ bnd'[i] = remnant)
          BY <3>1, <4>4
        <4>6. Matches(pl, bnd', printed, f)
          BY <1>3, <3>2, <4>2, <4>3, <4>5, StillMatched
        <4> QED BY <1>1, <2>1, <2>2, <3>2, <3>3, <4>1, <4>2, <4>6 DEF Kept
      <3>5. CASE Free = {}
        <4>1. s = seedindex /\ bndm' = 0 /\ ~Intact'
          BY <1>1, <1>4, <1>6, <3>5 DEF Intact
        <4>2. AllBound'
          <5>1. MarkedAs(pl, bnd', 0) = {} /\ MarkedAs(pl, bnd', remnant) = {s}
            BY <1>3, <1>5, <2>3, <3>1, <3>5 DEF MarkedAs
          <5> QED BY <1>1, <4>1, <5>1 DEF AllBound
        <4>3. marks \in {[bnd' EXCEPT ![s] = j] : j \in 1 .. remnant - 1}
          <5>1. CASE Intact
            <6>1. marks = bnd /\ bnd[s] \in 1 .. remnant - 1
              <7>1. bnd[s] # 0 /\ bnd[s] \in Nat /\ bnd[s] < remnant
                BY <1>3, <1>5, <2>3, <3>5 DEF MarkedAs
              <7> QED BY <1>3, <3>2, <5>1, <7>1 DEF Restored
            <6>2. [bnd' EXCEPT ![s] = bnd[s]] = bnd
              BY <1>3, <1>5, <2>3
            <6> QED BY <6>1, <6>2
          <5>2. CASE ~Intact
            <6>1. PICK j \in 1 .. remnant - 1 : marks = [bnd EXCEPT ![s] = j]
              BY <3>2, <4>1, <5>2 DEF Restored
            <6>2. [bnd' EXCEPT ![s] = j] = [bnd EXCEPT ![s] = j]
              BY <1>3, <1>5, <2>3
            <6> QED BY <6>1, <6>2
          <5> QED BY <5>1, <5>2
        <4>4. marks \in Restored'
          BY <1>1, <4>1, <4>3 DEF Restored
        <4> QED BY <1>1, <2>1, <2>2, <3>2, <3>3, <4>2, <4>4 DEF Kept
      <3> QED BY <3>4, <3>5
    <2>5. Enough'
      BY <1>1, <2>1, <2>2 DEF Enough
    <2>6. Gathered'
      <3>1. ASSUME bndm' > 0
            PROVE  /\ bndm' = MassIn(pl, MarkedAs(pl, bnd', remnant))
                   /\ nbound' = Cardinality(MarkedAs(pl, bnd', remnant))
                   /\ centre' = CentreIn(pl, MarkedAs(pl, bnd', remnant))
        <4>1. Free # {}
          BY <1>6, <3>1
        <4>2. MarkedAs(pl, bnd', remnant) = {s}
          BY <1>3, <1>5, <2>3 DEF MarkedAs
        <4>3. MassIn(pl, {s}) = pl[s].m /\ Cardinality({s}) = 1 /\ Centre({s}) = CentreIn(pl, {s})
          BY <1>3, <1>5, Masses, FS_Singleton, OfTheParticles
        <4> QED BY <1>1, <1>6, <4>1, <4>2, <4>3
      <3> QED BY <1>1, <3>1 DEF Gathered
    <2> QED BY <2>4, <2>5, <2>6
  <1>10. Sorted' /\ MaterialsAddUp'
    BY <1>1 DEF Sorted, MaterialsAddUp
  <1> QED BY <1>1, <1>8, <1>9, <1>10 DEF RInv

LEMMA PassShapes ==
  ASSUME RemnantsAssumption, Shaped, Pass
  PROVE  Shaped' /\ passes' \in Nat \ {0}
  <1>1. /\ search' = search /\ search = "pass" /\ finder' = finder /\ pl' = pl /\ remnant' = remnant
        /\ printed' = printed /\ seedindex' = seedindex /\ oldm' = bndm /\ passes' = Min({passes + 1, maxit})
    BY DEF Pass
  <1>2. pl \in Seq(Bodies) /\ Indices = DOMAIN pl /\ remnant \in Nat /\ bnd \in [DOMAIN pl -> Nat]
          /\ bndm \in Nat /\ nbound \in Nat /\ passes \in Nat
    BY OfTheParticles DEF Shaped
  <1>3. passes' \in Nat \ {0}
    <2>1. passes + 1 \in Nat \ {0} /\ maxit \in Nat \ {0}
      BY <1>2 DEF RemnantsAssumption
    <2> QED BY <1>1, <2>1, LesserOfTwo
  <1>4. bnd' \in [DOMAIN pl -> Nat] /\ bndm' \in Nat /\ nbound' \in Nat
    <2>1. CASE PassOverFree
      <3>1. Joined.members \subseteq DOMAIN pl /\ Joined.m = bndm + MassIn(pl, Joined.members)
        BY <1>2, Joins DEF Free
      <3>2. MassIn(pl, Joined.members) \in Nat /\ Cardinality(Joined.members) \in Nat
        BY <1>2, <3>1, Masses, Listed, FS_Subset, FS_CardinalityType
      <3>3. bnd' = [i \in Indices |-> IF i \in Joined.members THEN remnant ELSE bnd[i]]
              /\ bndm' = Joined.m /\ nbound' = nbound + Cardinality(Joined.members)
        BY <2>1 DEF PassOverFree
      <3>4. \A i \in DOMAIN pl : (IF i \in Joined.members THEN remnant ELSE bnd[i]) \in Nat
        BY <1>2
      <3>5. bnd' \in [DOMAIN pl -> Nat]
        BY <1>2, <3>3, <3>4
      <3>6. bndm' \in Nat
        BY <1>2, <3>1, <3>2, <3>3
      <3>7. nbound' \in Nat
        BY <1>2, <3>2, <3>3
      <3> QED BY <3>5, <3>6, <3>7
    <2>2. CASE PassAgain
      <3>1. PICK tied \in SUBSET DOMAIN pl : /\ bnd' = [i \in Indices |-> IF i \in tied THEN 1 ELSE 0]
                                             /\ centre' = Centre(tied) /\ bndm' = centre'.m /\ nbound' = nbound
        BY <1>2, <2>2 DEF PassAgain
      <3>2. bndm' = MassIn(pl, tied)
        BY <3>1, OfTheParticles DEF CentreIn
      <3>3. MassIn(pl, tied) \in Nat
        BY <1>2, Masses
      <3> QED BY <1>2, <3>1, <3>2, <3>3
    <2> QED BY <2>1, <2>2 DEF Pass
  <1> QED BY <1>1, <1>2, <1>3, <1>4 DEF Shaped

LEMMA PassKeeps ==
  ASSUME RemnantsAssumption, RInv, Pass
  PROVE  RInv'
  <1>1. /\ search = "pass" /\ search' = "pass" /\ finder' = finder /\ pl' = pl /\ remnant' = remnant
        /\ printed' = printed /\ oldm' = bndm /\ Changed
    BY DEF Pass, GoesOn
  <1>2. Shaped /\ Shaped' /\ passes' \in Nat \ {0}
    BY PassShapes DEF RInv
  <1>3. pl \in Seq(Bodies) /\ Indices = DOMAIN pl /\ Free = MarkedAs(pl, bnd, 0) /\ remnant \in Nat \ {0}
          /\ bnd \in [DOMAIN pl -> Nat] /\ bndm \in Nat /\ passes \in Nat
    BY <1>2, OfTheParticles DEF Shaped
  <1>4. ASSUME finder.all PROVE Kept' /\ Enough' /\ Gathered'
    <2> DEFINE J == Joined.members
               M == MarkedAs(pl, bnd, remnant)
    <2>1. Kept /\ Enough /\ Gathered
      BY <1>4 DEF RInv
    <2>2. Searching /\ Searching'
      BY <1>1 DEF Searching
    <2>3. bndm > 0
      <3>1. CASE passes = 0
        BY <1>1, <3>1 DEF Changed
      <3>2. CASE passes # 0
        BY <1>1, <1>3, <2>1, <3>2 DEF Gathered
      <3> QED BY <3>1, <3>2
    <2>4. /\ bnd' = [i \in Indices |-> IF i \in J THEN remnant ELSE bnd[i]]
          /\ bndm' = Joined.m /\ nbound' = nbound + Cardinality(J)
          /\ centre' = [x |-> centre.x + Centre(J).x, v |-> centre.v + Centre(J).v, m |-> Joined.m]
      BY <1>4 DEF Pass, PassOverFree
    <2>5. /\ J \subseteq Free /\ Joined.m = bndm + MassIn(pl, J)
          /\ J = {} => \A i \in Free : ~Tied(i, centre, bndm)
      BY <1>3, Joins
    <2>6. J \in SUBSET DOMAIN pl /\ M \in SUBSET DOMAIN pl /\ M \cap J = {}
      BY <1>3, <2>5 DEF MarkedAs
    <2>7. MassIn(pl, J) \in Nat /\ bndm' = bndm + MassIn(pl, J) /\ bndm' > 0 /\ bndm' \in Nat
      <3>1. MassIn(pl, J) \in Nat
        BY <1>3, <2>6, Masses
      <3> QED BY <1>3, <2>3, <2>4, <2>5, <3>1
    <2>8. MarkedAs(pl, bnd', remnant) = M \cup J
      BY <1>3, <2>4, <2>6 DEF MarkedAs
    <2> HIDE DEF J, M
    <2>9. Kept'
      <3>1. Intact /\ Intact' /\ Restored = {bnd} /\ Restored' = {bnd'}
        <4>1. Intact
          BY <1>1, <1>3, <2>1, <2>3 DEF Kept, AllBound
        <4>2. Intact'
          BY <1>1, <2>7, <4>1, RanOutKept DEF Intact
        <4> QED BY <4>1, <4>2 DEF Restored
      <3>2. \A i \in DOMAIN pl : bnd'[i] = bnd[i] \/ (bnd[i] = 0 /\ bnd'[i] = remnant)
        BY <1>3, <2>4, <2>5 DEF MarkedAs
      <3>3. \E f : Matches(pl, bnd', printed, f) /\ \A k \in DOMAIN printed : f[k] = k
        <4>1. PICK f : Matches(pl, bnd, printed, f) /\ \A k \in DOMAIN printed : f[k] = k
          BY <2>1, <2>2, <3>1 DEF Kept
        <4>2. DOMAIN printed = 1 .. remnant - 1
          BY <1>2, <2>1 DEF Kept, Shaped
        <4>3. Matches(pl, bnd', printed, f)
          BY <1>3, <3>2, <4>1, <4>2, StillMatched
        <4> QED BY <4>1, <4>3
      <3>4. \A i \in DOMAIN pl : bnd'[i] < remnant \/ bnd'[i] = remnant
        BY <2>1, <3>2 DEF Kept
      <3> QED BY <1>1, <2>1, <2>2, <3>1, <3>3, <3>4 DEF Kept
    <2>10. Enough'
      BY <1>1, <2>1, <2>2 DEF Enough
    <2>11. Gathered'
      <3>1. bndm = MassIn(pl, M) /\ nbound = Cardinality(M) /\ centre = CentreIn(pl, M)
        BY <1>1, <2>1, <2>3 DEF Gathered, M
      <3>2. bndm' = MassIn(pl, M \cup J)
        BY <1>3, <2>6, <2>7, <3>1, Masses
      <3>3. nbound' = Cardinality(M \cup J)
        <4>1. IsFiniteSet(M) /\ IsFiniteSet(J)
          BY <1>3, <2>6, Listed, FS_Subset
        <4>2. Cardinality(M \cup J) = Cardinality(M) + Cardinality(J) - Cardinality(M \cap J)
          BY <4>1, FS_Union
        <4>3. Cardinality(M \cap J) = 0 /\ Cardinality(M) \in Nat /\ Cardinality(J) \in Nat
          BY <2>6, <4>1, FS_EmptySet, FS_CardinalityType
        <4> QED BY <2>4, <3>1, <4>2, <4>3
      <3>4. centre' = CentreIn(pl, M \cup J)
        <4>1. CentreIn(pl, M \cup J) = [x |-> CentreIn(pl, M).x + CentreIn(pl, J).x,
                                        v |-> CentreIn(pl, M).v + CentreIn(pl, J).v,
                                        m |-> MassIn(pl, M) + MassIn(pl, J)]
          BY <1>3, <2>6, CentresAdd
        <4>2. Centre(J) = CentreIn(pl, J)
          BY OfTheParticles
        <4> QED BY <2>4, <2>5, <3>1, <4>1, <4>2
      <3>5. Settled(pl, bnd', M \cup J, centre', bndm', bndm)
        <4>1. CASE J # {}
          <5>1. PICK i \in J : TRUE
            BY <4>1
          <5>2. pl[i].m <= MassIn(pl, J) /\ pl[i].m \in Nat
            BY <1>3, <2>6, Masses, Listed
          <5>3. bndm + pl[i].m <= bndm'
            <6>1. PICK a \in Nat, b \in Nat, d \in Nat : a = bndm /\ b = pl[i].m /\ d = MassIn(pl, J)
              BY <1>3, <2>7, <5>2
            <6>2. bndm' = a + d /\ b <= d
              BY <2>7, <5>2, <6>1
            <6>3. bndm + pl[i].m = a + b
              BY <6>1
            <6>4. a + b <= a + d
              BY <6>2
            <6> QED BY <6>2, <6>3, <6>4
          <5> QED BY <5>3 DEF Settled
        <4>2. CASE J = {}
          <5>1. bnd' = bnd
            BY <1>3, <2>4, <4>2
          <5>2. M \cup J = M /\ MassIn(pl, J) = 0
            BY <1>3, <4>2, Masses
          <5>3. centre' = centre /\ bndm' = bndm
            <6>1. bndm' = bndm + 0
              BY <2>7, <5>2
            <6>2. bndm \in Nat
              BY <1>3
            <6>3. bndm' = bndm
              BY <6>1, <6>2
            <6>4. centre' = centre
              BY <3>1, <3>4, <5>2
            <6> QED BY <6>3, <6>4
          <5>4. \A i \in MarkedAs(pl, bnd', 0) : ~TiedIn(pl, i, centre', bndm')
            BY <1>3, <2>5, <4>2, <5>1, <5>3, OfTheParticles
          <5> QED BY <5>3, <5>4 DEF Settled
        <4> QED BY <4>1, <4>2
      <3> QED BY <1>1, <2>7, <2>8, <3>2, <3>3, <3>4, <3>5 DEF Gathered
    <2> QED BY <2>9, <2>10, <2>11
  <1>5. Sorted' /\ MaterialsAddUp'
    BY <1>1 DEF Sorted, MaterialsAddUp
  <1> QED BY <1>1, <1>2, <1>4, <1>5 DEF RInv

LEMMA Appended ==
  ASSUME NEW T, NEW q \in Seq(T), NEW e \in T
  PROVE  /\ Append(q, e) \in Seq(T) /\ Len(Append(q, e)) = Len(q) + 1 /\ Len(q) \in Nat
         /\ DOMAIN q = 1 .. Len(q) /\ DOMAIN Append(q, e) = 1 .. Len(q) + 1
         /\ Append(q, e)[Len(q) + 1] = e
         /\ \A k \in 1 .. Len(q) : Append(q, e)[k] = q[k]
  OBVIOUS

LEMMA FoundKeeps ==
  ASSUME RemnantsAssumption, RInv, RemnantFound
  PROVE  RInv'
  <1> DEFINE going == nbound >= minparts \/ remnant < finder.least
             found == [mass |-> bndm, parts |-> nbound]
  <1>1. /\ search = "pass" /\ finder' = finder /\ pl' = pl /\ bnd' = bnd /\ seedindex' = seedindex
        /\ bndm' = bndm /\ oldm' = oldm /\ nbound' = nbound /\ passes' = passes
        /\ printed' = Append(printed, found)
        /\ remnant' = IF finder.all THEN remnant + 1 ELSE 2
        /\ search' = CASE finder.all /\ going -> "seed"
                       [] finder.ordered /\ ~going -> "reorder"
                       [] OTHER -> "table"
    BY DEF RemnantFound
  <1>2. Shaped
    BY DEF RInv
  <1>3. /\ finder.all \in BOOLEAN /\ finder.ordered \in BOOLEAN /\ finder.least \in Nat
        /\ finder.ordered => finder.all
    BY <1>2, FindersDiffer DEF Shaped
  <1>4. /\ search' \in {"seed", "reorder", "table"}
        /\ search' = "reorder" => finder.ordered
        /\ search' = "seed" <=> finder.all /\ going
        /\ finder.ordered => search' # "table"
    <2>1. CASE finder.all /\ going
      BY <1>1, <2>1
    <2>2. CASE ~(finder.all /\ going) /\ finder.ordered
      BY <1>1, <1>3, <2>2
    <2>3. CASE ~(finder.all /\ going) /\ ~finder.ordered
      BY <1>1, <2>3
    <2> QED BY <2>1, <2>2, <2>3
  <1>5. remnant \in Nat \ {0} /\ bndm \in Nat /\ nbound \in Nat /\ printed \in Seq([mass : Nat, parts : Nat])
    BY <1>2 DEF Shaped
  <1>6. found \in [mass : Nat, parts : Nat] /\ found.mass = bndm /\ found.parts = nbound
    BY <1>5
  <1> HIDE DEF found, going
  <1>7. /\ printed' \in Seq([mass : Nat, parts : Nat]) /\ Len(printed') = Len(printed) + 1 /\ Len(printed) \in Nat
        /\ DOMAIN printed = 1 .. Len(printed) /\ DOMAIN printed' = 1 .. Len(printed) + 1
        /\ printed'[Len(printed) + 1] = found
        /\ \A k \in 1 .. Len(printed) : printed'[k] = printed[k]
    BY <1>1, <1>5, <1>6, Appended
  <1>8. Shaped'
    <2>1. remnant' \in Nat \ {0}
      BY <1>1, <1>5
    <2>2. search' \in {"seed", "pass", "reorder", "table", "done"} /\ search' # "done" /\ search # "done"
      BY <1>1, <1>4
    <2> QED BY <1>1, <1>2, <1>4, <1>7, <2>1, <2>2 DEF Shaped
  <1>9. ASSUME finder.all PROVE Kept' /\ Enough' /\ Gathered'
    <2>1. Kept /\ Enough /\ Gathered /\ Len(printed) = remnant - 1
      BY <1>9 DEF RInv, Kept
    <2>2. remnant' = remnant + 1 /\ remnant' - 1 = remnant /\ DOMAIN printed' = 1 .. remnant /\ DOMAIN printed = 1 .. remnant - 1
            /\ Len(printed) + 1 = remnant
      <3>1. remnant' = remnant + 1
        BY <1>1, <1>9
      <3>2. Len(printed) + 1 = remnant /\ (remnant + 1) - 1 = remnant
        BY <1>5, <2>1
      <3> QED BY <1>7, <2>1, <3>1, <3>2
    <2>3. Kept'
      <3>1. Len(printed') = remnant' - 1
        BY <1>7, <2>2
      <3>2. \A i \in DOMAIN pl : bnd'[i] < remnant'
        <4> SUFFICES ASSUME NEW i \in DOMAIN pl PROVE bnd[i] < remnant + 1
          BY <1>1, <2>2
        <4>1. bnd[i] \in Nat /\ (bnd[i] < remnant \/ bnd[i] = remnant)
          BY <1>2, <2>1 DEF Shaped, Kept
        <4> QED BY <1>5, <4>1
      <3>3. IF bndm = 0 THEN ~Intact /\ ~Intact' ELSE Intact /\ Intact'
        <4>1. RanOut' <=> RanOut \/ bndm = 0
          <5>1. remnant \in 1 .. remnant /\ printed'[remnant].mass = bndm
            BY <1>5, <1>6, <1>7, <2>2
          <5>2. \A k \in 1 .. remnant - 1 : k \in 1 .. remnant /\ printed'[k] = printed[k]
            BY <1>5, <1>7, <2>1
          <5>3. \A k \in 1 .. remnant : k = remnant \/ k \in 1 .. remnant - 1
            BY <1>5
          <5> QED BY <2>2, <5>1, <5>2, <5>3 DEF RanOut
        <4>2. RanOut => bndm = 0
          BY <1>1, <2>1 DEF Intact, Kept, AllBound
        <4>3. (Intact <=> ~RanOut /\ bndm # 0) /\ (Intact' <=> ~RanOut')
          BY <1>1, <1>4, <1>5 DEF Intact
        <4> QED BY <4>1, <4>2, <4>3
      <3>4. ~Intact' => AllBound'
        BY <1>1, <1>4, <2>1, <3>3 DEF Kept, AllBound
      <3>5. PICK marks \in Restored, f \in [DOMAIN printed -> DOMAIN printed] :
              Matches(pl, marks, printed, f) /\ \A k \in DOMAIN printed : f[k] = k
        BY <1>1, <2>1 DEF Kept, Matches, Searching
      <3>6. marks \in Restored'
        <4>1. \A j \in 1 .. remnant - 1 : j \in 1 .. remnant
          BY <1>5
        <4> QED BY <1>1, <2>2, <3>3, <3>5, <4>1 DEF Restored
      <3>7. MassIn(pl, MarkedAs(pl, marks, remnant)) = bndm
        <4>1. CASE bndm # 0
          <5>1. marks = bnd /\ bndm > 0
            BY <1>5, <3>3, <3>5, <4>1 DEF Restored
          <5> QED BY <1>1, <2>1, <5>1 DEF Gathered
        <4>2. CASE bndm = 0
          <5>1. PICK j \in 1 .. remnant - 1 : marks = [bnd EXCEPT ![seedindex] = j]
            BY <3>3, <3>5, <4>2 DEF Restored
          <5>2. MarkedAs(pl, bnd, remnant) = {seedindex}
            BY <1>1, <2>1, <3>3, <4>2 DEF Kept, AllBound
          <5>3. j # remnant /\ bnd \in [DOMAIN pl -> Nat]
            BY <1>2, <1>5 DEF Shaped
          <5>4. MarkedAs(pl, marks, remnant) = {}
            BY <5>1, <5>2, <5>3 DEF MarkedAs
          <5>5. pl \in Seq(Bodies)
            BY <1>2 DEF Shaped
          <5> QED BY <4>2, <5>4, <5>5, Masses
        <4> QED BY <4>1, <4>2
      <3> DEFINE g == [k \in 1 .. remnant |-> k]
      <3>8. ASSUME NEW k \in 1 .. remnant PROVE MassIn(pl, MarkedAs(pl, marks, g[k])) = printed'[k].mass
        <4>1. CASE k = remnant
          BY <1>6, <1>7, <2>2, <3>7, <4>1
        <4>2. CASE k # remnant
          <5>1. k \in 1 .. remnant - 1
            BY <1>5, <4>2
          <5>2. MassIn(pl, MarkedAs(pl, marks, k)) = printed[k].mass
            BY <2>2, <3>5, <5>1 DEF Matches
          <5> QED BY <1>7, <2>1, <5>1, <5>2
        <4> QED BY <4>1, <4>2
      <3>9. Matches(pl, marks, printed', g) /\ \A k \in DOMAIN printed' : g[k] = k
        <4>1. g \in [1 .. remnant -> 1 .. remnant] /\ (\A a, b \in 1 .. remnant : g[a] = g[b] => a = b)
                /\ \A k \in 1 .. remnant : g[k] = k
          OBVIOUS
        <4> HIDE DEF g
        <4> QED BY <2>2, <3>8, <4>1 DEF Matches
      <3> HIDE DEF g
      <3> QED BY <1>1, <3>1, <3>2, <3>4, <3>6, <3>9 DEF Kept
    <2>4. Enough'
      <3>1. Searching /\ (Searching' <=> going)
        BY <1>1, <1>4, <1>9 DEF Searching
      <3>2. ASSUME NEW k \in 1 .. remnant, k >= finder.least, k < remnant \/ going PROVE printed'[k].parts >= minparts
        <4>1. CASE k # remnant
          <5>1. k \in 1 .. Len(printed)
            BY <1>5, <2>1, <4>1
          <5> QED BY <1>7, <2>1, <3>1, <3>2, <5>1 DEF Enough
        <4>2. CASE k = remnant
          <5>1. going /\ ~(remnant < finder.least)
            BY <1>3, <1>5, <3>2, <4>2
          <5> QED BY <1>6, <1>7, <2>2, <4>2, <5>1 DEF going
        <4> QED BY <4>1, <4>2
      <3>3. ASSUME ~going PROVE printed' # <<>> /\ printed'[remnant].parts < minparts
        <4>1. nbound < minparts
          BY <1>5, <3>3 DEF going, RemnantsAssumption
        <4>2. printed' # <<>>
          BY <1>5, <1>7
        <4> QED BY <1>6, <1>7, <2>2, <4>1, <4>2
      <3> QED BY <1>1, <1>7, <2>2, <3>1, <3>2, <3>3 DEF Enough
    <2>5. Gathered'
      BY <1>4 DEF Gathered
    <2> QED BY <2>3, <2>4, <2>5
  <1>10. Sorted' /\ MaterialsAddUp'
    BY <1>1, <1>4 DEF Sorted, MaterialsAddUp
  <1> QED BY <1>1, <1>8, <1>9, <1>10 DEF RInv

LEMMA ReorderKeeps ==
  ASSUME RemnantsAssumption, RInv, Reorder
  PROVE  RInv'
  <1>1. /\ search = "reorder" /\ finder' = finder /\ pl' = pl /\ remnant' = remnant /\ seedindex' = seedindex
        /\ bndm' = bndm /\ oldm' = oldm /\ nbound' = nbound /\ passes' = passes /\ printed' = printed
        /\ bnd' = SwapsDone /\ search' = IF bnd' = bnd THEN "table" ELSE "reorder"
    BY DEF Reorder, SwapsDone
  <1>2. Shaped /\ finder.ordered
    BY <1>1 DEF RInv, Shaped
  <1>3. finder.all
    BY <1>2, FindersDiffer DEF Shaped
  <1>4. Kept /\ Enough
    BY <1>3 DEF RInv
  <1>5. pl \in Seq(Bodies) /\ Indices = DOMAIN pl /\ bnd \in [Indices -> Nat] /\ remnant \in Nat
          /\ printed \in Seq([mass : Nat, parts : Nat])
    BY <1>2, OfTheParticles DEF Shaped
  <1>6. ~Searching /\ ~Searching'
    BY <1>1 DEF Searching
  <1>7. remnant >= 2 /\ DOMAIN printed = 1 .. remnant - 1
    <2>1. Len(printed) = remnant - 1 /\ printed # <<>>
      BY <1>4, <1>6 DEF Kept, Enough
    <2>2. Len(printed) \in Nat /\ Len(printed) # 0 /\ DOMAIN printed = 1 .. Len(printed)
      BY <1>5, <2>1
    <2> QED BY <1>5, <2>1, <2>2
  <1>8. \A i \in Indices : bnd[i] < remnant
    BY <1>1, <1>4, <1>5 DEF Kept
  <1>9. /\ bnd' \in [Indices -> Nat] /\ \A i \in Indices : bnd'[i] < remnant
        /\ \E g : Renumbered(g, remnant - 1, bnd, bnd')
        /\ bnd' = bnd => \A j \in 2 .. remnant - 1 : MassOf(Remnant(j, bnd)) <= MassOf(Remnant(j - 1, bnd))
    BY <1>1, <1>5, <1>7, <1>8, Swaps
  <1>10. Shaped'
    <2>1. search' \in {"seed", "pass", "reorder", "table", "done"} /\ search' # "done" /\ search # "done"
      BY <1>1
    <2> QED BY <1>1, <1>2, <1>5, <1>9, <2>1 DEF Shaped
  <1>11. Kept'
    <2> DEFINE K == 1 .. remnant - 1
    <2>1. Intact' <=> Intact
      BY <1>1, RanOutKept DEF Intact
    <2>2. DOMAIN printed = K
      BY <1>7
    <2>3. PICK marks \in Restored, f \in [K -> K] : Matches(pl, marks, printed, f)
      BY <1>4, <2>2 DEF Kept, Matches
    <2>4. PICK g : Renumbered(g, remnant - 1, bnd, bnd')
      BY <1>9
    <2>5. /\ \A a, b \in K : f[a] = f[b] => a = b
          /\ \A k \in K : MassIn(pl, MarkedAs(pl, marks, f[k])) = printed[k].mass
      BY <2>2, <2>3 DEF Matches
    <2>6. /\ g \in [K -> K] /\ \A a, b \in K : g[a] = g[b] => a = b
          /\ \A j \in K : MarkedAs(pl, bnd', g[j]) = MarkedAs(pl, bnd, j)
      BY <2>4, OfTheParticles DEF Renumbered
    <2>7. 0 \notin K /\ seedindex \in DOMAIN pl /\ bnd \in [DOMAIN pl -> Nat] /\ bnd' \in [DOMAIN pl -> Nat]
      <3>1. 0 \notin K
        BY <1>5
      <3>2. seedindex \in DOMAIN pl /\ bnd \in [DOMAIN pl -> Nat]
        BY <1>2 DEF Shaped
      <3>3. bnd' \in [DOMAIN pl -> Nat]
        BY <1>1, <1>10 DEF Shaped
      <3> QED BY <3>1, <3>2, <3>3
    <2>8. PICK now \in Restored' : \A j \in K : MarkedAs(pl, now, g[j]) = MarkedAs(pl, marks, j)
      <3>1. CASE Intact
        BY <2>1, <2>3, <2>6, <3>1 DEF Restored
      <3>2. CASE ~Intact
        <4>1. PICK j \in K : marks = [bnd EXCEPT ![seedindex] = j]
          BY <2>3, <3>2 DEF Restored
        <4> DEFINE back == [bnd' EXCEPT ![seedindex] = g[j]]
        <4>2. back \in Restored' /\ g[j] \in K
          BY <1>1, <2>1, <2>6, <3>2 DEF Restored
        <4>3. ASSUME NEW k \in K PROVE MarkedAs(pl, back, g[k]) = MarkedAs(pl, marks, k)
          <5> HIDE DEF K
          <5>1. \A i \in DOMAIN pl : bnd'[i] = g[k] <=> bnd[i] = k
            BY <2>6 DEF MarkedAs
          <5>2. g[j] = g[k] <=> j = k
            BY <2>6, <4>1
          <5>3. \A i \in DOMAIN pl : back[i] = g[k] <=> marks[i] = k
            BY <2>7, <4>1, <5>1, <5>2
          <5> QED BY <5>3 DEF MarkedAs
        <4> HIDE DEF back
        <4> QED BY <4>2, <4>3
      <3> QED BY <3>1, <3>2
    <2> DEFINE h == [k \in K |-> g[f[k]]]
    <2>9. ~Intact' => AllBound'
      <3> SUFFICES ASSUME ~Intact, NEW i \in DOMAIN pl PROVE bnd'[i] # 0
        BY <1>1, <2>1 DEF AllBound, MarkedAs
      <3>1. bnd[i] # 0 /\ bnd[i] \in Nat /\ bnd[i] < remnant
        BY <1>4, <1>8, <2>7, OfTheParticles DEF Kept, AllBound, MarkedAs
      <3>2. bnd[i] \in K
        BY <1>5, <3>1
      <3>3. i \in MarkedAs(pl, bnd', g[bnd[i]])
        BY <2>6, <3>2 DEF MarkedAs
      <3> QED BY <2>6, <2>7, <3>2, <3>3 DEF MarkedAs
    <2> HIDE DEF K
    <2>10. h \in [K -> K] /\ \A k \in K : h[k] = g[f[k]] /\ f[k] \in K
      BY <2>3, <2>6
    <2> HIDE DEF h
    <2>11. \A a, b \in K : h[a] = h[b] => a = b
      BY <2>5, <2>6, <2>10
    <2>12. \A k \in K : MassIn(pl, MarkedAs(pl, now, h[k])) = printed[k].mass
      BY <2>5, <2>8, <2>10
    <2>13. Matches(pl, now, printed, h)
      BY <2>2, <2>10, <2>11, <2>12 DEF Matches
    <2> QED BY <1>1, <1>4, <1>5, <1>6, <1>9, <2>8, <2>9, <2>13 DEF Kept
  <1>12. Enough'
    BY <1>1, <1>4, <1>6 DEF Enough
  <1>13. Gathered'
    BY <1>1 DEF Gathered
  <1>14. Sorted'
    <2> SUFFICES ASSUME search' \in {"table", "done"} PROVE Falling(pl, bnd', remnant - 1)
      BY <1>1 DEF Sorted
    <2>1. bnd' = bnd
      BY <1>1
    <2> QED BY <1>9, <2>1, OfTheParticles DEF Falling
  <1>15. MaterialsAddUp'
    BY <1>1 DEF MaterialsAddUp
  <1> QED BY <1>10, <1>11, <1>12, <1>13, <1>14, <1>15 DEF RInv

(* Each particle of a remnant is of one of three materials.                *)
InThree(c, P, A, B, C) ==
  /\ c \in Seq(Bodies) /\ P \in SUBSET DOMAIN c
  /\ P = (A \cup B) \cup C /\ A \cap B = {} /\ (A \cup B) \cap C = {}

LEMMA ThreeParts ==
  ASSUME NEW c, NEW P, NEW A, NEW B, NEW C, InThree(c, P, A, B, C)
  PROVE  MassIn(c, A) + MassIn(c, B) + MassIn(c, C) = MassIn(c, P)
  <1> USE DEF InThree
  <1>1. A \in SUBSET DOMAIN c /\ B \in SUBSET DOMAIN c /\ C \in SUBSET DOMAIN c /\ A \cup B \in SUBSET DOMAIN c
    OBVIOUS
  <1>2. MassIn(c, A \cup B) = MassIn(c, A) + MassIn(c, B)
    BY <1>1, Masses
  <1>3. MassIn(c, P) = MassIn(c, A \cup B) + MassIn(c, C)
    BY <1>1, Masses
  <1> QED BY <1>2, <1>3

LEMMA TableKeeps ==
  ASSUME RemnantsAssumption, nMat <= 2, RInv, Table
  PROVE  RInv'
  <1> DEFINE kind == [i \in Indices |-> IF finder.limited THEN MaterialIs(pl[i].id)
                                        ELSE IF pl[i].id > idskip THEN 2 ELSE 1]
             part(j, m) == {i \in Remnant(j, bnd) : kind[i] = m}
  <1>1. /\ search = "table" /\ search' = "done" /\ finder' = finder /\ remnant' = remnant /\ bnd' = bnd
        /\ seedindex' = seedindex /\ bndm' = bndm /\ oldm' = oldm /\ nbound' = nbound /\ passes' = passes
        /\ printed' = printed
        /\ pl' = IF finder # BoundMass0 THEN pl
                 ELSE [i \in Indices |-> [pl[i] EXCEPT !.id = IF bnd[i] = 1 THEN 1 ELSE 2]]
    BY DEF Table
  <1>2. table' = IF finder = DiskMass2 THEN <<>>
                 ELSE [j \in 1 .. remnant - 1 |->
                         [iron |-> MassOf(part(j, 1)), silicates |-> MassOf(part(j, 2)), crust |-> MassOf(part(j, 3))]]
    <2>1. \A j, m : part(j, m) = {i \in Remnant(j, bnd) :
                         (IF finder.limited THEN MaterialIs(pl[i].id)
                          ELSE IF pl[i].id > idskip THEN 2 ELSE 1) = m}
      BY DEF Remnant
    <2> HIDE DEF part
    <2> QED BY <2>1, Zenon DEF Table
  <1>3. Shaped
    BY DEF RInv
  <1>4. pl \in Seq(Bodies) /\ Indices = DOMAIN pl /\ bnd \in [Indices -> Nat] /\ pl # <<>>
    BY <1>3, OfTheParticles DEF Shaped
  <1>5. DOMAIN pl = 1 .. Len(pl) /\ Len(pl) \in Nat /\ \A i \in DOMAIN pl : pl[i] \in Bodies
    BY <1>4, Listed
  <1>6. pl' \in Seq(Bodies) /\ pl' # <<>> /\ DOMAIN pl' = DOMAIN pl /\ \A i \in DOMAIN pl : pl'[i].m = pl[i].m
    <2>1. CASE finder # BoundMass0
      BY <1>1, <1>4, <2>1
    <2>2. CASE finder = BoundMass0
      <3> DEFINE b(i) == [pl[i] EXCEPT !.id = IF bnd[i] = 1 THEN 1 ELSE 2]
      <3>1. ASSUME NEW i \in DOMAIN pl PROVE b(i) \in Bodies /\ b(i).m = pl[i].m
        BY <1>5 DEF Bodies
      <3>2. pl' = [i \in 1 .. Len(pl) |-> b(i)]
        BY <1>1, <1>4, <1>5, <2>2
      <3> HIDE DEF b
      <3>3. pl' \in [1 .. Len(pl) -> Bodies]
        BY <1>5, <3>1, <3>2
      <3>4. pl' \in Seq(Bodies) /\ DOMAIN pl' = DOMAIN pl /\ \A i \in DOMAIN pl : pl'[i].m = pl[i].m
        BY <1>5, <3>1, <3>2, <3>3
      <3>5. DOMAIN pl # {}
        BY <1>4, <1>5
      <3>6. pl' # <<>>
        BY <3>4, <3>5
      <3> QED BY <3>4, <3>6
    <2> QED BY <2>1, <2>2
  <1>7. \A P : MassIn(pl', P) = MassIn(pl, P)
    BY <1>6 DEF MassIn
  <1>8. \A marks, j : MarkedAs(pl', marks, j) = MarkedAs(pl, marks, j)
    BY <1>6 DEF MarkedAs
  <1>9. Shaped'
    BY <1>1, <1>3, <1>6 DEF Shaped
  <1>10. ASSUME finder.all PROVE Kept' /\ Enough' /\ Gathered'
    <2>1. pl' = pl
      BY <1>1, <1>3, <1>10, FindersDiffer DEF Shaped
    <2>2. Kept /\ Enough /\ ~Searching /\ ~Searching'
      BY <1>1, <1>10 DEF RInv, Searching
    <2>3. (Intact' <=> Intact) /\ search # "pass" /\ search' # "pass"
      BY <1>1, RanOutKept DEF Intact
    <2>4. (AllBound' <=> AllBound) /\ Restored' = Restored
      <3>1. /\ pl' = pl /\ bnd' = bnd /\ seedindex' = seedindex /\ remnant' = remnant
            /\ (Intact' <=> Intact) /\ search # "pass" /\ search' # "pass"
        BY <1>1, <2>1, <2>3
      <3>2. AllBound' <=> AllBound
        BY <3>1 DEF AllBound
      <3>3. Restored' = Restored
        BY <3>1 DEF Restored
      <3> QED BY <3>2, <3>3
    <2> QED BY <1>1, <2>1, <2>2, <2>3, <2>4 DEF Kept, Enough, Gathered
  <1>11. Sorted'
    <2>1. Falling(pl, bnd, remnant - 1) => Falling(pl', bnd, remnant - 1)
      BY <1>7, <1>8 DEF Falling
    <2> QED BY <1>1, <2>1 DEF RInv, Sorted
  <1>12. MaterialsAddUp'
    <2>1. ASSUME NEW j \in DOMAIN table'
          PROVE  table'[j].iron + table'[j].silicates + table'[j].crust = MassIn(pl', MarkedAs(pl', bnd', j))
      <3>1. finder # DiskMass2
        BY <1>2, <2>1
      <3>2. table'[j] = [iron |-> MassOf(part(j, 1)), silicates |-> MassOf(part(j, 2)), crust |-> MassOf(part(j, 3))]
        <4> HIDE DEF part
        <4> QED BY <1>2, <2>1, <3>1
      <3>3. \A i \in DOMAIN pl : kind[i] \in {1, 2, 3}
        BY <1>4, ThreeMaterials
      <3>4. /\ MarkedAs(pl, bnd, j) = (part(j, 1) \cup part(j, 2)) \cup part(j, 3)
            /\ part(j, 1) \cap part(j, 2) = {} /\ (part(j, 1) \cup part(j, 2)) \cap part(j, 3) = {}
            /\ MarkedAs(pl, bnd, j) \in SUBSET DOMAIN pl
        <4> HIDE DEF kind
        <4>1. Remnant(j, bnd) = MarkedAs(pl, bnd, j) /\ MarkedAs(pl, bnd, j) \in SUBSET DOMAIN pl
          BY OfTheParticles DEF MarkedAs
        <4> QED BY <3>3, <4>1
      <3> HIDE DEF part
      <3>5. MassIn(pl, part(j, 1)) + MassIn(pl, part(j, 2)) + MassIn(pl, part(j, 3)) = MassIn(pl, MarkedAs(pl, bnd, j))
        <4>1. InThree(pl, MarkedAs(pl, bnd, j), part(j, 1), part(j, 2), part(j, 3))
          BY <1>4, <3>4 DEF InThree
        <4> QED BY <4>1, ThreeParts
      <3>6. MassOf(part(j, 1)) = MassIn(pl, part(j, 1)) /\ MassOf(part(j, 2)) = MassIn(pl, part(j, 2))
              /\ MassOf(part(j, 3)) = MassIn(pl, part(j, 3))
        BY OfTheParticles
      <3> QED BY <1>1, <1>7, <1>8, <3>2, <3>5, <3>6
    <2>2. ASSUME NEW j PROVE MassOf(Remnant(j, bnd))' = MassIn(pl', MarkedAs(pl', bnd', j))
      BY DEF MassOf, MassIn, Remnant, MarkedAs, Indices
    <2> QED BY <2>1, <2>2 DEF MaterialsAddUp
  <1> QED BY <1>1, <1>9, <1>10, <1>11, <1>12 DEF RInv

-------------------------------------------------------------------------------
(* What is right then.                                                     *)

LEMMA RInvAlways ==
  ASSUME nMat <= 2
  PROVE  RemnantsSpec => []RInv
  <1>1. RemnantsInit => RInv
    BY RemnantsAssumption, RInvAtFirst
  <1>2. RInv /\ [RemnantsNext]_remnant_vars => RInv'
    <2> SUFFICES ASSUME RInv, [RemnantsNext]_remnant_vars PROVE RInv'
      OBVIOUS
    <2>1. CASE Seed
      BY <2>1, RemnantsAssumption, SeedKeeps
    <2>2. CASE Pass
      BY <2>2, RemnantsAssumption, PassKeeps
    <2>3. CASE RemnantFound
      BY <2>3, RemnantsAssumption, FoundKeeps
    <2>4. CASE Reorder
      BY <2>4, RemnantsAssumption, ReorderKeeps
    <2>5. CASE Table
      BY <2>5, RemnantsAssumption, TableKeeps
    <2>6. CASE UNCHANGED remnant_vars
      <3>1. Shaped'
        BY <2>6 DEF RInv, Shaped, remnant_vars
      <3>2. ASSUME finder.all PROVE Kept' /\ Enough' /\ Gathered'
        <4>1. Kept /\ Enough /\ Gathered
          BY <3>2 DEF RInv
        <4>2. (Intact' <=> Intact) /\ (Searching' <=> Searching)
          BY <2>6 DEF Intact, Searching, RanOut, remnant_vars
        <4>3. (AllBound' <=> AllBound) /\ Restored' = Restored
          BY <2>6, <4>2 DEF AllBound, Restored, remnant_vars
        <4> QED BY <2>6, <4>1, <4>2, <4>3 DEF Kept, Enough, Gathered, remnant_vars
      <3>3. Sorted' /\ MaterialsAddUp'
        <4>1. \A j : MassOf(Remnant(j, bnd))' = MassOf(Remnant(j, bnd))
          BY <2>6 DEF MassOf, Remnant, Indices, remnant_vars
        <4> QED BY <2>6, <4>1 DEF RInv, Sorted, MaterialsAddUp, remnant_vars
      <3> QED BY <2>6, <3>1, <3>2, <3>3 DEF RInv, remnant_vars
    <2> QED BY <2>1, <2>2, <2>3, <2>4, <2>5, <2>6 DEF RemnantsNext
  <1> QED BY <1>1, <1>2, PTL DEF RemnantsSpec

(* As many of a mass in the list as in the end.                            *)
Rearranged(K, f, u, w) ==
  /\ IsFiniteSet(K) /\ f \in [K -> K]
  /\ \A a, b \in K : f[a] = f[b] => a = b
  /\ \A k \in K : w[f[k]] = u[k]

Having(u, m, K) == {k \in K : u[k] = m}

LEMMA AsManyOfEach ==
  ASSUME NEW K, NEW f, NEW u, NEW w, NEW m, Rearranged(K, f, u, w)
  PROVE  Cardinality(Having(u, m, K)) = Cardinality(Having(w, m, K))
  <1> DEFINE A == {k \in K : u[k] = m}
             B == {j \in K : w[j] = m}
             g == [k \in A |-> f[k]]
  <1> USE DEF Rearranged
  <1>1. f \in Injection(K, K)
    BY DEF Injection, IsInjective
  <1>2. f \in Surjection(K, K)
    BY <1>1, FS_Injection
  <1>3. \A j \in K : \E k \in K : f[k] = j
    BY <1>2 DEF Surjection
  <1>4. g \in [A -> B] /\ (\A k \in A : g[k] = f[k]) /\ A \subseteq K /\ B \subseteq K
    OBVIOUS
  <1>5. \A j \in B : \E k \in A : f[k] = j
    BY <1>3
  <1>6. IsFiniteSet(A)
    BY FS_Subset
  <1> HIDE DEF A, B, g
  <1>7. g \in Bijection(A, B)
    BY <1>4, <1>5 DEF Bijection, Injection, Surjection, IsInjective
  <1>8. ExistsBijection(A, B)
    BY <1>7 DEF ExistsBijection
  <1> QED BY <1>6, <1>8, FS_Bijection DEF A, B, Having

LEMMA KeptIsRight ==
  ASSUME RInv
  PROVE  OnlyLastSeedTaken /\ InOrderOfMass /\ MaterialsAddUp
  <1>1. Shaped /\ MaterialsAddUp /\ Sorted
    BY DEF RInv
  <1>2. InOrderOfMass
    <2> SUFFICES ASSUME search = "done", finder.ordered, NEW j \in 2 .. remnant - 1
                 PROVE  MassOf(Remnant(j, bnd)) <= MassOf(Remnant(j - 1, bnd))
      BY DEF InOrderOfMass
    <2>1. Falling(pl, bnd, remnant - 1)
      BY <1>1 DEF Sorted
    <2> QED BY <2>1, OfTheParticles DEF Falling
  <1>3. ASSUME search = "done", finder.all
        PROVE  /\ \E marks \in GivenBack :
                    LET masses == [j \in 1 .. remnant - 1 |-> MassOf(Remnant(j, marks))]
                    IN  \A m \in {p.mass : p \in Range(printed)} \cup Range(masses) :
                          Cardinality({k \in DOMAIN printed : printed[k].mass = m})
                            = Cardinality({j \in DOMAIN masses : masses[j] = m})
               /\ RanOut => Free = {}
               /\ \A k \in 1 .. Len(printed) - 1 : k >= finder.least => printed[k].parts >= minparts
               /\ Last(printed).parts < minparts
    <2>1. Kept /\ Enough /\ (Intact <=> ~RanOut) /\ ~Searching
      BY <1>3 DEF RInv, Intact, Searching
    <2>2. Len(printed) = remnant - 1 /\ DOMAIN printed = 1 .. remnant - 1 /\ remnant \in Nat /\ Len(printed) \in Nat
      BY <1>1, <2>1 DEF Kept, Shaped
    <2>3. PICK marks \in GivenBack, f \in [DOMAIN printed -> DOMAIN printed] : Matches(pl, marks, printed, f)
      BY <2>1 DEF Kept, Matches, Restored, GivenBack
    <2> DEFINE masses == [j \in 1 .. remnant - 1 |-> MassOf(Remnant(j, marks))]
               listed == [k \in 1 .. remnant - 1 |-> printed[k].mass]
               K == 1 .. remnant - 1
    <2>4. f \in [K -> K] /\ \A a, b \in K : f[a] = f[b] => a = b
      BY <2>2, <2>3 DEF Matches
    <2>5. \A k \in K : masses[f[k]] = listed[k]
      <3> SUFFICES ASSUME NEW k \in K PROVE masses[f[k]] = listed[k]
        OBVIOUS
      <3>1. MassIn(pl, MarkedAs(pl, marks, f[k])) = printed[k].mass /\ f[k] \in K
        BY <2>2, <2>3, <2>4 DEF Matches
      <3>2. masses[f[k]] = MassIn(pl, MarkedAs(pl, marks, f[k]))
        BY <3>1, OfTheParticles
      <3> QED BY <3>1, <3>2
    <2>6. IsFiniteSet(K)
      BY <2>2, FS_Interval
    <2>7. DOMAIN masses = K /\ \A k \in K : listed[k] = printed[k].mass
      OBVIOUS
    <2>8. ASSUME NEW m PROVE Cardinality({k \in DOMAIN printed : printed[k].mass = m})
                               = Cardinality({j \in DOMAIN masses : masses[j] = m})
      <3> HIDE DEF masses, listed, K
      <3>1. Cardinality(Having(listed, m, K)) = Cardinality(Having(masses, m, K))
        <4>1. Rearranged(K, f, listed, masses)
          BY <2>4, <2>5, <2>6 DEF Rearranged
        <4> QED BY <4>1, AsManyOfEach
      <3>2. {k \in DOMAIN printed : printed[k].mass = m} = Having(listed, m, K)
              /\ {j \in DOMAIN masses : masses[j] = m} = Having(masses, m, K)
        BY <2>2, <2>7 DEF Having, K
      <3> QED BY <2>7, <3>1, <3>2
    <2>9. ASSUME NEW k \in 1 .. Len(printed) - 1, k >= finder.least PROVE printed[k].parts >= minparts
      <3>1. k \in 1 .. Len(printed) /\ k < Len(printed)
        BY <2>2
      <3> QED BY <2>1, <2>9, <3>1 DEF Enough
    <2>10. Last(printed).parts < minparts
      BY <2>1 DEF Enough, Last
    <2>11. RanOut => Free = {}
      BY <2>1, OfTheParticles DEF Kept, AllBound
    <2>12. \E given \in GivenBack :
             LET masses_ == [j \in 1 .. remnant - 1 |-> MassOf(Remnant(j, given))]
             IN  \A m \in {p.mass : p \in Range(printed)} \cup Range(masses_) :
                   Cardinality({k \in DOMAIN printed : printed[k].mass = m})
                     = Cardinality({j \in DOMAIN masses_ : masses_[j] = m})
      BY <2>3, <2>8
    <2> QED BY <2>9, <2>10, <2>11, <2>12
  <1>4. OnlyLastSeedTaken
    BY <1>3, Zenon DEF OnlyLastSeedTaken
  <1> QED BY <1>1, <1>2, <1>4

(* The mass of each particle is more of the whole than the tolerance.      *)
EachCounts == \A c \in Collisions : \A i \in DOMAIN c : tol[1] * MassIn(c, DOMAIN c) < tol[2] * c[i].m

LEMMA TooMuch ==
  ASSUME NEW a \in Nat, NEW b \in Nat, NEW d \in Nat, NEW p \in Nat, NEW q \in Nat, NEW t \in Nat,
         a + d <= b, b <= t, p * t < q * d
  PROVE  AbsDiff(a, b) * q > p * a
  <1>1. d # 0
    <2> SUFFICES ASSUME d = 0 PROVE FALSE
      OBVIOUS
    <2>1. q * d = 0 /\ p * t >= 0
      OBVIOUS
    <2> QED BY <2>1
  <1>2. AbsDiff(a, b) = b - a
    BY <1>1 DEF AbsDiff
  <1>3. PICK e \in Nat : e = b - a /\ d <= e
    <2>1. b - a \in Nat /\ d <= b - a
      OBVIOUS
    <2> QED BY <2>1
  <1>4. q * d <= e * q
    <2>1. PICK g \in Nat : e = d + g
      <3>1. e - d \in Nat /\ e = d + (e - d)
        BY <1>3
      <3> QED BY <3>1
    <2>2. e * q = q * d + g * q /\ g * q >= 0
      BY <2>1
    <2> QED BY <2>2
  <1>5. p * a <= p * t
    <2>1. PICK g \in Nat : t = a + g
      <3>1. t - a \in Nat /\ t = a + (t - a)
        OBVIOUS
      <3> QED BY <3>1
    <2>2. p * t = p * a + p * g /\ p * g >= 0
      BY <2>1
    <2> QED BY <2>2
  <1>6. PICK u \in Int, v \in Int, w \in Int, x \in Int : u = p * a /\ v = p * t /\ w = q * d /\ x = e * q
    OBVIOUS
  <1>7. u <= v /\ v < w /\ w <= x
    BY <1>4, <1>5, <1>6
  <1>8. u < x
    BY <1>7
  <1> QED BY <1>2, <1>3, <1>6, <1>8

LEMMA NoneIsLeft ==
  ASSUME RemnantsAssumption, EachCounts, RInv
  PROVE  NothingLeftBehind
  <1> DEFINE M == MarkedAs(pl, bnd, remnant)
  <1> SUFFICES ASSUME search = "pass", finder.all, ~Changed, bndm > 0
               PROVE  /\ bndm = MassOf(Remnant(remnant, bnd)) /\ nbound = Cardinality(Remnant(remnant, bnd))
                      /\ \A i \in Free : ~Tied(i, Centre(Remnant(remnant, bnd)), bndm)
    BY DEF NothingLeftBehind
  <1>1. Shaped /\ Gathered
    BY DEF RInv
  <1>2. /\ pl \in Seq(Bodies) /\ pl \in Collisions /\ bndm \in Nat /\ oldm \in Nat /\ passes \in Nat
        /\ finder.fraction
    BY <1>1, FindersDiffer DEF Shaped
  <1>3. Remnant(remnant, bnd) = M /\ Centre(M) = CentreIn(pl, M) /\ MassOf(M) = MassIn(pl, M)
          /\ Free = MarkedAs(pl, bnd, 0) /\ M \in SUBSET DOMAIN pl
    BY OfTheParticles DEF MarkedAs
  <1>4. passes > 0
    <2>1. passes # 0
      BY DEF Changed
    <2> QED BY <1>2, <2>1
  <1>5. bndm = MassIn(pl, M) /\ nbound = Cardinality(M) /\ centre = CentreIn(pl, M)
          /\ Settled(pl, bnd, M, centre, bndm, oldm)
    BY <1>1, <1>4 DEF Gathered
  <1> HIDE DEF M
  <1>6. ~(AbsDiff(oldm, bndm) * tol[2] > tol[1] * oldm)
    BY <1>2, <1>4 DEF Changed
  <1>7. ~\E i \in M : oldm + pl[i].m <= bndm
    <2> SUFFICES ASSUME NEW i \in M, oldm + pl[i].m <= bndm PROVE FALSE
      OBVIOUS
    <2>1. i \in DOMAIN pl /\ pl[i].m \in Nat
      BY <1>2, <1>3, Listed
    <2>2. MassIn(pl, DOMAIN pl) \in Nat /\ bndm <= MassIn(pl, DOMAIN pl)
      BY <1>2, <1>3, <1>5, Masses, MassesCompared
    <2>3. tol[1] * MassIn(pl, DOMAIN pl) < tol[2] * pl[i].m
      BY <1>2, <2>1 DEF EachCounts
    <2>4. tol[1] \in Nat /\ tol[2] \in Nat
      BY DEF RemnantsAssumption
    <2>5. AbsDiff(oldm, bndm) * tol[2] > tol[1] * oldm
      BY <1>2, <2>1, <2>2, <2>3, <2>4, TooMuch
    <2> QED BY <1>6, <2>5
  <1>8. \A i \in Free : ~TiedIn(pl, i, CentreIn(pl, M), bndm)
    BY <1>3, <1>5, <1>7 DEF Settled
  <1> QED BY <1>3, <1>5, <1>8, OfTheParticles

(* bound() of MoreBound and RemoveLR takes no particle from a remnant that *)
(* was found, but for the last seed when a search is begun with all bound; *)
(* with that seed back the masses are those printed.  They are listed by   *)
(* mass, and each is the sum of its materials: calculate_material()        *)
(* returns at most nMat + 1, and the table has columns for three.          *)
THEOREM RemnantsAlwaysKept ==
  ASSUME nMat <= 2
  PROVE  RemnantsSpec => [](OnlyLastSeedTaken /\ InOrderOfMass /\ MaterialsAddUp)
  <1>1. RInv => OnlyLastSeedTaken /\ InOrderOfMass /\ MaterialsAddUp
    BY KeptIsRight
  <1>2. RemnantsSpec => []RInv
    BY RInvAlways
  <1> QED BY <1>1, <1>2, PTL

(* Nor is anything left that is tied to a remnant that was found, when a   *)
(* particle more or less is a change the tolerance tells.                  *)
THEOREM RemnantsAlwaysRight ==
  ASSUME nMat <= 2, EachCounts
  PROVE  RemnantsSpec => []RemnantsRight
  <1>1. RInv => RemnantsRight
    BY RemnantsAssumption, KeptIsRight, NoneIsLeft DEF RemnantsRight
  <1>2. RemnantsSpec => []RInv
    BY RInvAlways
  <1> QED BY <1>1, <1>2, PTL
===============================================================================
