----------------------------- MODULE BenchProofs -----------------------------
(***************************************************************************)
(* What the measuring tools compare and add up.  The native latency        *)
(* comparison runs every application in every place equally often; the     *)
(* placement benchmark compares only runs of one and the same round; the   *)
(* frames of a windowed slot report share in its totals; an echo probe     *)
(* counts a sample on its own echo, or on one it cannot tell from it.  For *)
(* any number of variants, rounds, cases, events, frames and samples.      *)
(***************************************************************************)
EXTENDS ToolProofs, SequenceTheorems, FiniteSetTheorems, WellFoundedInduction, TLAPS

--------------------------------------------------------------------------------
(* Arithmetic and orders.                                                  *)

(* Quotient and remainder. *)
LEMMA Division ==
  ASSUME NEW a \in Nat, NEW n \in Nat \ {0}
  PROVE  /\ a \div n \in Nat /\ a % n \in 0 .. n - 1
         /\ a = n * (a \div n) + (a % n)
BY SMT

(* They are the only ones. *)
LEMMA DivisionUnique ==
  ASSUME NEW q \in Nat, NEW n \in Nat \ {0}, NEW r \in 0 .. n - 1
  PROVE  (n * q + r) \div n = q /\ (n * q + r) % n = r
BY SMT

(* A smaller quotient leaves room for one divisor more. *)
LEMMA QuotientOrder ==
  ASSUME NEW q \in Nat, NEW p \in Nat, NEW n \in Nat \ {0}, q < p
  PROVE  n * q + n <= n * p
BY SMT

(* A product of naturals is one. *)
LEMMA ProductNat == \A a, b \in Nat : a * b \in Nat
BY SMT

(* Multiplication preserves order. *)
LEMMA ProductOrder == \A a, b, n \in Nat : a =< b => n * a =< n * b
BY SMT

(* The quotient of a number below n * m is below m. *)
LEMMA QuotientBelow ==
  ASSUME NEW a \in Nat, NEW n \in Nat \ {0}, NEW m \in Nat
  PROVE  a < n * m <=> a \div n < m
<1> DEFINE q == a \div n
<1>1. q \in Nat /\ n * q \in Nat /\ n * m \in Nat /\ n * q =< a /\ a < n * q + n
  BY Division, ProductNat
<1>2. q < m => n * q + n <= n * m
  BY <1>1, QuotientOrder
<1>3. m =< q => n * m <= n * q
  BY <1>1, ProductOrder
<1> HIDE DEF q
<1>4. a < n * m <=> q < m
  BY <1>1, <1>2, <1>3
<1> QED BY <1>4 DEF q

(* The rotation ordered() and main() start from, element by element. *)
LEMMA Rotation ==
  ASSUME NEW S, NEW s \in Seq(S), NEW o \in 0 .. Len(s) - 1, NEW p \in 1 .. Len(s)
  PROVE  LET t == SubSeq(s, o + 1, Len(s)) \o SubSeq(s, 1, o)
         IN  /\ t \in Seq(S) /\ Len(t) = Len(s)
             /\ t[p] = s[IF p + o <= Len(s) THEN p + o ELSE p + o - Len(s)]
<1> DEFINE n == Len(s)
           a == SubSeq(s, o + 1, n)
           b == SubSeq(s, 1, o)
           t == a \o b
<1>1. n \in Nat /\ o \in 0 .. n - 1 /\ p \in 1 .. n
  OBVIOUS
<1>2. a \in Seq(S) /\ Len(a) = n - o /\ \A x \in 1 .. n - o : a[x] = s[o + x]
  BY <1>1
<1>3. b \in Seq(S) /\ Len(b) = o /\ \A x \in 1 .. o : b[x] = s[x]
  BY <1>1
<1> HIDE DEF a, b, n
<1>4. /\ t \in Seq(S) /\ Len(t) = n
      /\ t[p] = IF p <= n - o THEN a[p] ELSE b[p - (n - o)]
  <2>1. /\ t \in Seq(S) /\ Len(t) = Len(a) + Len(b)
        /\ \A i \in 1 .. Len(a) + Len(b) : t[i] = IF i <= Len(a) THEN a[i] ELSE b[i - Len(a)]
    BY <1>2, <1>3, ConcatProperties
  <2>2. Len(a) + Len(b) = n
    BY <1>1, <1>2, <1>3
  <2> QED BY <1>1, <1>2, <2>1, <2>2
<1>5. t[p] = IF p <= n - o THEN a[p] ELSE b[p - (n - o)]
  BY <1>4
<1> HIDE DEF t
<1>6. CASE p <= n - o
  <2>1. p \in 1 .. n - o /\ p + o <= n /\ o + p = p + o
    BY <1>1, <1>6
  <2>2. t[p] = s[p + o]
    BY <1>2, <1>5, <1>6, <2>1
  <2> QED BY <1>4, <2>1, <2>2 DEF t, a, b, n
<1>7. CASE ~(p <= n - o)
  <2>1. p - (n - o) \in 1 .. o /\ ~(p + o <= n) /\ p - (n - o) = p + o - n
    BY <1>1, <1>7
  <2>2. t[p] = s[p + o - n]
    BY <1>3, <1>5, <1>7, <2>1
  <2> QED BY <1>4, <2>1, <2>2 DEF t, a, b, n
<1> QED BY <1>6, <1>7

--------------------------------------------------------------------------------
(* The native latency comparison (NativeBench).                            *)

(* The offset of the rounds of one parity that puts Modes[j] in a place. *)
OffsetFor(parity, place, j) ==
  LET seat == IF parity = 0 THEN place + 1 ELSE Len(Modes) - place
  IN  IF j >= seat THEN j - seat ELSE j - seat + Len(Modes)

(* An application sits in a place of a round exactly when the round has    *)
(* the offset that puts it there.                                          *)
LEMMA ModeInPlace ==
  ASSUME NEW r \in Nat, NEW place \in 0 .. Len(Modes) - 1, NEW j \in 1 .. Len(Modes)
  PROVE  RoundOrder(r)[place + 1] = Modes[j] <=> (r \div 2) % Len(Modes) = OffsetFor(r % 2, place, j)
<1> DEFINE N == Len(Modes)
           o == (r \div 2) % N
           order == SubSeq(Modes, o + 1, N) \o SubSeq(Modes, 1, o)
           seat == IF r % 2 = 0 THEN place + 1 ELSE N - place
<1>1. Modes \in Seq(STRING) /\ N \in Nat /\ N >= 2
      /\ \A x, y \in 1 .. N : Modes[x] = Modes[y] => x = y
  BY NativeAssumption DEF IsInjective
<1>2. r \div 2 \in Nat /\ r % 2 \in {0, 1}
  BY Division
<1>3. o \in 0 .. N - 1
  <2> DEFINE h == r \div 2
  <2>1. h \in Nat /\ N \in Nat \ {0}
    BY <1>1, <1>2
  <2> HIDE DEF h, N
  <2>2. h % N \in 0 .. N - 1
    BY <2>1, Division
  <2> QED BY <2>2 DEF h
<1>4. seat \in 1 .. N
  BY <1>1, <1>2
<1>5. RoundOrder(r)[place + 1] = order[seat]
  <2> HIDE DEF o
  <2>1. order \in Seq(STRING) /\ Len(order) = N
    BY <1>1, <1>3, <1>4, Rotation
  <2> HIDE DEF order
  <2>2. r % 2 = 1 => Reverse(order)[place + 1] = order[N - place]
    BY <1>1, <2>1 DEF Reverse
  <2>3. RoundOrder(r) = IF r % 2 = 1 THEN Reverse(order) ELSE order
    BY DEF RoundOrder, order, o
  <2> QED BY <1>2, <2>2, <2>3
<1>6. order[seat] = Modes[IF seat + o <= N THEN seat + o ELSE seat + o - N]
  BY <1>1, <1>3, <1>4, Rotation
<1>7. OffsetFor(r % 2, place, j) = IF j >= seat THEN j - seat ELSE j - seat + N
  BY DEF OffsetFor
<1> HIDE DEF order, o, seat, N
<1>8. Modes[IF seat + o <= N THEN seat + o ELSE seat + o - N] = Modes[j]
        <=> (IF seat + o <= N THEN seat + o ELSE seat + o - N) = j
  BY <1>1, <1>3, <1>4 DEF N
<1>9. (IF seat + o <= N THEN seat + o ELSE seat + o - N) = j
        <=> o = IF j >= seat THEN j - seat ELSE j - seat + N
  BY <1>1, <1>3, <1>4 DEF N
<1> QED BY <1>5, <1>6, <1>7, <1>8, <1>9 DEF o, N

(* Both offsets are ones the rounds take. *)
LEMMA OffsetInRange ==
  ASSUME NEW parity \in {0, 1}, NEW place \in 0 .. Len(Modes) - 1, NEW j \in 1 .. Len(Modes)
  PROVE  OffsetFor(parity, place, j) \in 0 .. Len(Modes) - 1
BY NativeAssumption DEF OffsetFor

(* The number of measurements an application has in a place, over K times  *)
(* as many rounds as make the order balanced: twice K.                     *)
LEMMA Seatings ==
  ASSUME NEW K \in Nat, NEW place \in 0 .. Len(Modes) - 1, NEW j \in 1 .. Len(Modes)
  PROVE  Cardinality({i \in 1 .. Len(Modes) * (2 * (Len(Modes) * K)) :
                        /\ RoundOrder((i - 1) \div Len(Modes))[place + 1] = Modes[j]
                        /\ (i - 1) % Len(Modes) = place}) = 2 * K
<1> DEFINE N == Len(Modes)
           Off(b) == OffsetFor(b, place, j)
           Half(k, b) == N * k + Off(b)
           Seat(k, b) == N * (2 * Half(k, b) + b) + place + 1
           Sits(i) == RoundOrder((i - 1) \div N)[place + 1] = Modes[j] /\ (i - 1) % N = place
           S == {i \in 1 .. N * (2 * (N * K)) : Sits(i)}
           f == [x \in 0 .. 2 * K - 1 |-> Seat(x \div 2, x % 2)]
<1>1. N \in Nat \ {0} /\ N \in Nat /\ place \in 0 .. N - 1
  BY NativeAssumption
<1>2. \A b \in {0, 1} : Off(b) \in 0 .. N - 1
  BY OffsetInRange
<1>3. \A r \in Nat : RoundOrder(r)[place + 1] = Modes[j] <=> (r \div 2) % N = Off(r % 2)
  BY ModeInPlace
<1> HIDE DEF N, Off
<1>4. \A k \in Nat, b \in {0, 1} :
        /\ Half(k, b) \in Nat /\ Half(k, b) \div N = k /\ Half(k, b) % N = Off(b)
        /\ k < K => Half(k, b) < N * K
  <2> SUFFICES ASSUME NEW k \in Nat, NEW b \in {0, 1}
               PROVE  /\ Half(k, b) \in Nat /\ Half(k, b) \div N = k /\ Half(k, b) % N = Off(b)
                      /\ k < K => Half(k, b) < N * K
    OBVIOUS
  <2>1. N * k \in Nat /\ N * K \in Nat
    BY <1>1, ProductNat
  <2>2. Half(k, b) \div N = k /\ Half(k, b) % N = Off(b)
    BY <1>1, <1>2, DivisionUnique
  <2>3. k < K => N * k + N =< N * K
    BY <1>1, QuotientOrder
  <2> DEFINE nk == N * k
             nK == N * K
  <2>4. Half(k, b) = nk + Off(b) /\ (k < K => nk + N =< nK) /\ nk \in Nat /\ nK \in Nat
    BY <2>1, <2>3
  <2> HIDE DEF nk, nK, Half
  <2>5. Half(k, b) \in Nat /\ (k < K => Half(k, b) < nK)
    BY <1>1, <1>2, <2>4
  <2> QED BY <2>2, <2>5 DEF nK
<1> HIDE DEF Half
<1>5. \A k \in Nat, b \in {0, 1} :
        LET r == 2 * Half(k, b) + b
        IN  /\ Seat(k, b) \in Nat /\ Seat(k, b) >= 1
            /\ (Seat(k, b) - 1) \div N = r /\ (Seat(k, b) - 1) % N = place
            /\ r \in Nat /\ r \div 2 = Half(k, b) /\ r % 2 = b
            /\ k < K => Seat(k, b) =< N * (2 * (N * K))
  <2> SUFFICES ASSUME NEW k \in Nat, NEW b \in {0, 1}
               PROVE  LET r == 2 * Half(k, b) + b
                      IN  /\ Seat(k, b) \in Nat /\ Seat(k, b) >= 1
                          /\ (Seat(k, b) - 1) \div N = r /\ (Seat(k, b) - 1) % N = place
                          /\ r \in Nat /\ r \div 2 = Half(k, b) /\ r % 2 = b
                          /\ k < K => Seat(k, b) =< N * (2 * (N * K))
    OBVIOUS
  <2> DEFINE r == 2 * Half(k, b) + b
  <2>1. Half(k, b) \in Nat /\ (k < K => Half(k, b) < N * K) /\ N * K \in Nat
    BY <1>1, <1>4, ProductNat
  <2>2. r \in Nat /\ r \div 2 = Half(k, b) /\ r % 2 = b /\ (k < K => r < 2 * (N * K))
    <3> DEFINE nK == N * K
               h == Half(k, b)
    <3>1. h \in Nat /\ nK \in Nat /\ (k < K => h < nK)
      BY <2>1
    <3> HIDE DEF nK, h
    <3>2. /\ 2 * h + b \in Nat /\ (2 * h + b) \div 2 = h /\ (2 * h + b) % 2 = b
          /\ k < K => 2 * h + b < 2 * nK
      BY <3>1
    <3> QED BY <3>2 DEF nK, h
  <2> HIDE DEF r
  <2>3. Seat(k, b) = N * r + place + 1 /\ N * r \in Nat
    BY <2>2, <1>1, ProductNat DEF r
  <2>4. Seat(k, b) - 1 = N * r + place
    BY <2>3, <1>1
  <2>5. (N * r + place) \div N = r /\ (N * r + place) % N = place
    BY <2>2, <1>1, DivisionUnique
  <2>6. k < K => N * r + N =< N * (2 * (N * K))
    BY <1>1, <2>1, <2>2, QuotientOrder
  <2>7. N * (2 * (N * K)) \in Nat
    BY <1>1, <2>1, ProductNat
  <2>8. Seat(k, b) \in Nat /\ Seat(k, b) >= 1
    BY <2>3, <1>1
  <2>9. k < K => Seat(k, b) =< N * (2 * (N * K))
    BY <2>3, <2>6, <2>7, <1>1
  <2> QED BY <2>2, <2>4, <2>5, <2>8, <2>9 DEF r
<1> HIDE DEF Seat
<1>6. \A x \in 0 .. 2 * K - 1 : /\ x \div 2 \in Nat /\ x \div 2 < K /\ x % 2 \in {0, 1}
                                /\ x = 2 * (x \div 2) + (x % 2)
  BY SMT
<1>7. f \in [0 .. 2 * K - 1 -> S]
  <2> SUFFICES ASSUME NEW x \in 0 .. 2 * K - 1 PROVE Seat(x \div 2, x % 2) \in S
    BY Zenon
  <2> DEFINE k == x \div 2
             b == x % 2
  <2>1. k \in Nat /\ k < K /\ b \in {0, 1}
    BY <1>6
  <2> HIDE DEF k, b
  <2>2. Seat(k, b) \in 1 .. N * (2 * (N * K))
    <3> DEFINE top == N * (2 * (N * K))
    <3>1. top \in Int
      BY <1>1, ProductNat
    <3>2. Seat(k, b) \in Nat /\ Seat(k, b) >= 1 /\ Seat(k, b) =< top
      BY <1>5, <2>1
    <3> HIDE DEF top
    <3>3. Seat(k, b) \in 1 .. top
      BY <3>1, <3>2
    <3> QED BY <3>3 DEF top
  <2>3. RoundOrder((Seat(k, b) - 1) \div N)[place + 1] = Modes[j]
    <3> DEFINE h == Half(k, b)
               r == 2 * h + b
    <3>1. /\ (Seat(k, b) - 1) \div N = r /\ r \in Nat /\ r \div 2 = h /\ r % 2 = b
      BY <1>5, <2>1
    <3>2. h % N = Off(b)
      BY <1>4, <2>1
    <3> HIDE DEF h, r
    <3>3. RoundOrder(r)[place + 1] = Modes[j]
      BY <1>3, <3>1, <3>2
    <3> QED BY <3>1, <3>3
  <2>4. Sits(Seat(k, b))
    BY <1>5, <2>1, <2>3
  <2>5. Seat(k, b) \in S
    BY <2>2, <2>4
  <2> QED BY <2>5 DEF k, b
<1>8. \A x, y \in 0 .. 2 * K - 1 : f[x] = f[y] => x = y
  <2> SUFFICES ASSUME NEW x \in 0 .. 2 * K - 1, NEW y \in 0 .. 2 * K - 1,
                      Seat(x \div 2, x % 2) = Seat(y \div 2, y % 2)
               PROVE  x = y
    OBVIOUS
  <2> DEFINE k == x \div 2
             b == x % 2
             l == y \div 2
             c == y % 2
  <2>1. /\ k \in Nat /\ b \in {0, 1} /\ l \in Nat /\ c \in {0, 1}
        /\ x = 2 * k + b /\ y = 2 * l + c /\ Seat(k, b) = Seat(l, c)
    BY <1>6
  <2> HIDE DEF k, b, l, c
  <2>2. 2 * Half(k, b) + b = 2 * Half(l, c) + c
    <3>1. (Seat(k, b) - 1) \div N = 2 * Half(k, b) + b
      BY <1>5, <2>1
    <3>2. (Seat(l, c) - 1) \div N = 2 * Half(l, c) + c
      BY <1>5, <2>1
    <3> QED BY <2>1, <3>1, <3>2
  <2>3. Half(k, b) = Half(l, c) /\ b = c
    <3>1. Half(k, b) \in Nat /\ Half(l, c) \in Nat
      BY <1>4, <2>1
    <3> DEFINE g == Half(k, b)
               h == Half(l, c)
    <3>2. g \in Nat /\ h \in Nat /\ b \in {0, 1} /\ c \in {0, 1} /\ 2 * g + b = 2 * h + c
      BY <2>1, <2>2, <3>1
    <3> HIDE DEF g, h
    <3>3. g = h /\ b = c
      BY ONLY <3>2, SMT
    <3> QED BY <3>3 DEF g, h
  <2>4. k = l
    <3>1. Half(k, b) \div N = k /\ Half(l, c) \div N = l
      BY <1>4, <2>1
    <3> QED BY <2>3, <3>1
  <2> QED BY <2>1, <2>3, <2>4
<1>9. \A i \in S : \E x \in 0 .. 2 * K - 1 : f[x] = i
  <2> SUFFICES ASSUME NEW i \in S PROVE \E x \in 0 .. 2 * K - 1 : f[x] = i
    OBVIOUS
  <2> DEFINE a == i - 1
             r == a \div N
             h == r \div 2
             b == r % 2
             k == h \div N
             x == 2 * k + b
  <2>1. N * K \in Nat /\ N * (2 * (N * K)) \in Nat
    BY <1>1, ProductNat
  <2>2. i \in 1 .. N * (2 * (N * K)) /\ Sits(i)
    OBVIOUS
  <2>3. i \in Nat /\ a \in Nat /\ a < N * (2 * (N * K)) /\ i = a + 1
    BY <2>1, <2>2
  <2>4. r \in Nat /\ a = N * r + place /\ r < 2 * (N * K)
    <3> HIDE DEF a
    <3>1. a % N = place
      BY <2>2 DEF a
    <3>2. r \in Nat /\ a = N * r + (a % N)
      BY <1>1, <2>3, Division
    <3>3. r < 2 * (N * K)
      <4> DEFINE m == 2 * (N * K)
      <4>1. m \in Nat /\ a < N * m
        BY <2>1, <2>3
      <4> HIDE DEF m
      <4>2. a \div N < m
        BY <1>1, <2>3, <4>1, QuotientBelow
      <4> QED BY <4>2 DEF m
    <3> QED BY <3>1, <3>2, <3>3
  <2>5. h % N = Off(b)
    BY <1>3, <2>2, <2>4
  <2> HIDE DEF r
  <2>6. h \in Nat /\ b \in {0, 1} /\ r = 2 * h + b /\ h < N * K
    <3> DEFINE nK == N * K
    <3>1. nK \in Nat /\ r \in Nat /\ r < 2 * nK
      BY <2>1, <2>4
    <3> HIDE DEF nK
    <3>2. h \in Nat /\ b \in {0, 1} /\ r = 2 * h + b /\ h < nK
      BY <3>1
    <3> QED BY <3>2 DEF nK
  <2> HIDE DEF h, b
  <2>7. k \in Nat /\ h = N * k + (h % N) /\ k < K
    BY <1>1, <2>6, Division, QuotientBelow
  <2> HIDE DEF k
  <2>8. h = Half(k, b)
    BY <2>5, <2>7 DEF Half
  <2>9. i = Seat(k, b)
    BY <2>3, <2>4, <2>6, <2>8 DEF Seat
  <2>10. x \in 0 .. 2 * K - 1 /\ x \div 2 = k /\ x % 2 = b
    BY <2>6, <2>7
  <2> HIDE DEF x
  <2>11. f[x] = Seat(k, b)
    BY <2>10
  <2> QED BY <2>9, <2>10, <2>11
<1>10. f \in Bijection(0 .. 2 * K - 1, S)
  <2> HIDE DEF f, S
  <2> QED BY <1>7, <1>8, <1>9 DEF Bijection, Injection, Surjection, IsInjective
<1>11. IsFiniteSet(0 .. 2 * K - 1) /\ Cardinality(0 .. 2 * K - 1) = 2 * K
  BY FS_Interval
<1>12. Cardinality(S) = 2 * K
  <2> HIDE DEF f, S
  <2> QED BY <1>10, <1>11, FS_Bijection DEF ExistsBijection
<1> QED BY <1>12 DEF N

(* What the comparison keeps: the results are the first measurements of    *)
(* the rounds' orders, never more than asked for and all of them once it   *)
(* is over, and what was retried had no timing.                            *)
NativeInv ==
  /\ n_phase \in {"idle", "measuring", "compared", "raised", "reported"}
  /\ n_results \in Seq([mode : STRING, round : Nat, p50 : Nat])
  /\ Len(n_results) =< Len(Modes) * NativeRounds
  /\ n_phase \in {"compared", "reported"} => Len(n_results) = Len(Modes) * NativeRounds
  /\ \A i \in 1 .. Len(n_results) :
       n_results[i].mode = RoundOrder((i - 1) \div Len(Modes))[((i - 1) % Len(Modes)) + 1]
  /\ \A o \in n_rejected : o.samples = "none"

(* An order of a round names applications. *)
LEMMA RoundOrderNames ==
  ASSUME NEW r \in Nat, NEW p \in 1 .. Len(Modes)
  PROVE  RoundOrder(r)[p] \in STRING
<1> DEFINE N == Len(Modes)
           o == (r \div 2) % N
           order == SubSeq(Modes, o + 1, N) \o SubSeq(Modes, 1, o)
<1>1. Modes \in Seq(STRING) /\ N \in Nat \ {0} /\ r \div 2 \in Nat
  BY NativeAssumption
<1>2. o \in 0 .. N - 1
  <2> DEFINE h == r \div 2
  <2> HIDE DEF h, N
  <2>1. h % N \in 0 .. N - 1
    BY <1>1, Division DEF h
  <2> QED BY <2>1 DEF h
<1>3. order \in Seq(STRING) /\ Len(order) = N
  <2> HIDE DEF o
  <2> QED BY <1>1, <1>2, Rotation
<1>4. RoundOrder(r) = IF r % 2 = 1 THEN Reverse(order) ELSE order
  BY DEF RoundOrder
<1> HIDE DEF order
<1>5. order[p] \in STRING /\ order[N - p + 1] \in STRING
  BY <1>1, <1>3
<1>6. Reverse(order)[p] = order[N - p + 1]
  BY <1>1, <1>3 DEF Reverse
<1> QED BY <1>4, <1>5, <1>6

(* Every step of main() and of the report keeps it. *)
LEMMA NativeStep == NativeInv /\ [NativeNext]_nativeVars => NativeInv'
<1> SUFFICES ASSUME NativeInv, [NativeNext]_nativeVars PROVE NativeInv'
  OBVIOUS
<1> DEFINE N == Len(Modes)
<1>0. N \in Nat \ {0} /\ NativeRounds \in Nat /\ Len(n_results) \in Nat /\ N * NativeRounds \in Nat
  BY NativeAssumption, ProductNat DEF NativeInv
<1>1. CASE StartComparison
  BY <1>1 DEF StartComparison, NativeInv
<1>2. CASE Accept
  <2> DEFINE R == [mode : STRING, round : Nat, p50 : Nat]
             a == Len(n_results)
  <2>1. PICK t \in NativeTimes : n_results' = Append(n_results, [mode |-> Mode, round |-> Round, p50 |-> t])
    BY <1>2 DEF Accept
  <2>2. n_phase = "measuring" /\ n_phase' = n_phase /\ n_rejected' = n_rejected /\ Round < NativeRounds
    BY <1>2 DEF Accept, Measuring
  <2>3. a \in Nat /\ a \div N \in Nat /\ a % N \in 0 .. N - 1
    <3> HIDE DEF N
    <3> QED BY <1>0, Division
  <2>4. Round = a \div N /\ Mode = RoundOrder(a \div N)[(a % N) + 1]
    BY DEF Round, Mode
  <2>5. Mode \in STRING
    <3>1. (a % N) + 1 \in 1 .. N
      <4> HIDE DEF N
      <4> QED BY <1>0, <2>3
    <3> QED BY <2>3, <2>4, <3>1, RoundOrderNames
  <2>6. [mode |-> Mode, round |-> Round, p50 |-> t] \in R
    BY <2>3, <2>4, <2>5, NativeAssumption
  <2>7. /\ n_results' \in Seq(R) /\ Len(n_results') = a + 1
        /\ n_results'[a + 1].mode = Mode
        /\ \A i \in 1 .. a : n_results'[i] = n_results[i]
    BY <2>1, <2>6 DEF NativeInv
  <2>8. a < N * NativeRounds
    <3> HIDE DEF N
    <3> QED BY <1>0, <2>2, <2>3, <2>4, QuotientBelow
  <2>9. Len(n_results') =< N * NativeRounds
    <3> DEFINE top == N * NativeRounds
    <3> HIDE DEF top
    <3>1. a + 1 =< top
      BY <1>0, <2>3, <2>8 DEF top
    <3> QED BY <2>7, <3>1 DEF top
  <2>10. \A i \in 1 .. a + 1 :
           n_results'[i].mode = RoundOrder((i - 1) \div N)[((i - 1) % N) + 1]
    <3> SUFFICES ASSUME NEW i \in 1 .. a + 1
                 PROVE  n_results'[i].mode = RoundOrder((i - 1) \div N)[((i - 1) % N) + 1]
      OBVIOUS
    <3>1. CASE i = a + 1
      <4>1. i - 1 = a
        BY <2>3, <3>1
      <4> QED BY <2>4, <2>7, <3>1, <4>1
    <3>2. CASE i # a + 1
      <4>1. i \in 1 .. a
        BY <2>3, <3>2
      <4> QED BY <2>7, <4>1 DEF NativeInv
    <3> QED BY <3>1, <3>2
  <2> QED BY <2>2, <2>7, <2>9, <2>10 DEF NativeInv
<1>3. CASE Retry
  BY <1>3 DEF Retry, Retryable, Measuring, NativeInv
<1>4. CASE Raise
  BY <1>4 DEF Raise, NativeInv
<1>5. CASE Compare
  <2>1. /\ Len(n_results) \div N = NativeRounds /\ n_phase' = "compared"
        /\ n_results' = n_results /\ n_rejected' = n_rejected
    BY <1>5 DEF Compare, Round
  <2>2. ~(Len(n_results) < N * NativeRounds)
    <3> HIDE DEF N
    <3>1. ~(Len(n_results) \div N < NativeRounds)
      BY <1>0, <2>1
    <3> QED BY <1>0, <3>1, QuotientBelow
  <2>3. Len(n_results) = N * NativeRounds
    <3> DEFINE top == N * NativeRounds
    <3>1. Len(n_results) =< top /\ ~(Len(n_results) < top) /\ top \in Nat /\ Len(n_results) \in Nat
      BY <1>0, <2>2 DEF NativeInv
    <3> HIDE DEF top
    <3>2. Len(n_results) = top
      BY <3>1
    <3> QED BY <3>2 DEF top
  <2> QED BY <2>1, <2>3 DEF NativeInv
<1>6. CASE Report
  BY <1>6 DEF Report, NativeInv
<1>7. CASE UNCHANGED nativeVars
  BY <1>7 DEF nativeVars, NativeInv
<1> QED BY <1>1, <1>2, <1>3, <1>4, <1>5, <1>6, <1>7 DEF NativeNext

(* At the end of a balanced number of rounds every application has run in  *)
(* every place equally often, for any number of applications and rounds    *)
(* and however many startups were retried: the comment at                  *)
(* gui_tui_latency.py:300 and the loop of main() below it.                 *)
THEOREM NativeOrderBalanced == ToolsSpec => []OrderBalanced
<1>1. ToolsInit => NativeInv
  <2> SUFFICES ASSUME NativeInit PROVE NativeInv
    BY DEF ToolsInit
  <2>1. Len(Modes) * NativeRounds \in Nat /\ Len(<<>>) = 0
    BY NativeAssumption, ProductNat
  <2> DEFINE top == Len(Modes) * NativeRounds
  <2> HIDE DEF top
  <2>2. Len(<<>>) =< top
    BY <2>1 DEF top
  <2> QED BY <2>2 DEF NativeInit, NativeInv, top
<1>2. [ToolsNext]_toolVars => [NativeNext]_nativeVars
  BY DEF ToolsNext, toolVars, Placement, Gate, Native, Echo, Throughput, Isolated, Pacer, Slot, Machine
<1>3. NativeInv => OrderBalanced
  <2> SUFFICES ASSUME NativeInv, n_phase \in {"compared", "reported"}, NativeRounds % (2 * Len(Modes)) = 0,
                      NEW m \in ToSet(Modes), NEW place \in 0 .. Len(Modes) - 1
               PROVE  Cardinality({i \in DOMAIN n_results :
                        n_results[i].mode = m /\ (i - 1) % Len(Modes) = place}) = NativeRounds \div Len(Modes)
    BY DEF NativeInv, OrderBalanced
  <2> DEFINE N == Len(Modes)
             K == NativeRounds \div (2 * N)
  <2>1. N \in Nat \ {0} /\ N \in Nat /\ NativeRounds \in Nat /\ 2 * N \in Nat \ {0}
    BY NativeAssumption
  <2>2. PICK j \in 1 .. N : m = Modes[j]
    BY NativeAssumption DEF ToSet
  <2>3. K \in Nat /\ NativeRounds = 2 * N * K
    <3> HIDE DEF N
    <3>1. K \in Nat /\ NativeRounds = (2 * N) * K + (NativeRounds % (2 * N))
      BY <2>1, Division
    <3>2. (2 * N) * K \in Nat
      BY <2>1, <3>1, ProductNat
    <3> HIDE DEF K
    <3> QED BY <3>1, <3>2 DEF N
  <2>4. NativeRounds = 2 * (N * K) /\ NativeRounds = N * (2 * K) + 0
    <3> HIDE DEF N, K
    <3>1. 2 * N * K = 2 * (N * K) /\ 2 * N * K = N * (2 * K)
      BY <2>1, <2>3
    <3>2. N * (2 * K) \in Nat
      BY <2>1, <2>3, ProductNat
    <3> QED BY <2>3, <3>1, <3>2
  <2>5. NativeRounds \div N = 2 * K
    <3> HIDE DEF N, K
    <3>1. 2 * K \in Nat /\ 0 \in 0 .. N - 1
      BY <2>1, <2>3
    <3>2. (N * (2 * K) + 0) \div N = 2 * K
      BY <2>1, <3>1, DivisionUnique
    <3> QED BY <2>4, <3>2
  <2>6. DOMAIN n_results = 1 .. N * (2 * (N * K))
    <3>1. Len(n_results) = N * NativeRounds /\ DOMAIN n_results = 1 .. Len(n_results)
      BY DEF NativeInv
    <3> HIDE DEF N, K
    <3> QED BY <2>4, <3>1
  <2>7. {i \in DOMAIN n_results : n_results[i].mode = m /\ (i - 1) % N = place}
          = {i \in 1 .. N * (2 * (N * K)) : RoundOrder((i - 1) \div N)[place + 1] = Modes[j] /\ (i - 1) % N = place}
    <3>1. \A i \in 1 .. Len(n_results) :
            n_results[i].mode = RoundOrder((i - 1) \div N)[((i - 1) % N) + 1]
      BY DEF NativeInv
    <3>2. DOMAIN n_results = 1 .. Len(n_results)
      BY DEF NativeInv
    <3> HIDE DEF N, K
    <3> QED BY <2>2, <2>6, <3>1, <3>2
  <2>8. Cardinality({i \in 1 .. N * (2 * (N * K)) : RoundOrder((i - 1) \div N)[place + 1] = Modes[j]
                                                 /\ (i - 1) % N = place}) = 2 * K
    <3> HIDE DEF K
    <3> QED BY <2>2, <2>3, Seatings
  <2> QED BY <2>5, <2>7, <2>8
<1> QED BY <1>1, <1>2, <1>3, NativeStep, PTL DEF ToolsSpec

--------------------------------------------------------------------------------
(* The placement benchmark (PlacementBench).                               *)

(* ordered() puts no variant in two places. *)
LEMMA OrderedInjective ==
  ASSUME NEW r \in Nat, NEW p \in 1 .. Len(Variants), NEW q \in 1 .. Len(Variants)
  PROVE  /\ Ordered(r)[p] \in STRING
         /\ Ordered(r)[p] = Ordered(r)[q] => p = q
<1> DEFINE N == Len(Variants)
           o == r % N
           order == SubSeq(Variants, o + 1, N) \o SubSeq(Variants, 1, o)
           At(x) == IF x + o <= N THEN x + o ELSE x + o - N
<1>1. Variants \in Seq(STRING) /\ N \in Nat \ {0}
      /\ \A x, y \in 1 .. N : Variants[x] = Variants[y] => x = y
  BY PlacementAssumption DEF IsInjective
<1>2. o \in 0 .. N - 1
  <2> HIDE DEF N
  <2> QED BY <1>1, Division
<1>3. /\ order \in Seq(STRING) /\ Len(order) = N
      /\ \A x \in 1 .. N : order[x] = Variants[At(x)]
  <2> HIDE DEF o
  <2> QED BY <1>1, <1>2, Rotation
<1>4. Ordered(r) = IF r % 2 = 1 THEN Reverse(order) ELSE order
  BY DEF Ordered
<1> HIDE DEF order, o
<1>5. \A x \in 1 .. N : Reverse(order)[x] = order[N - x + 1]
  BY <1>1, <1>3 DEF Reverse
<1>6. \A x \in 1 .. N : At(x) \in 1 .. N /\ N - x + 1 \in 1 .. N
  BY <1>1, <1>2
<1>7. \A x, y \in 1 .. N : At(x) = At(y) => x = y
  BY <1>1, <1>2
<1> HIDE DEF At, N
<1>8. \A x, y \in 1 .. N : order[x] = order[y] => x = y
  <2> SUFFICES ASSUME NEW x \in 1 .. N, NEW y \in 1 .. N, order[x] = order[y]
               PROVE  x = y
    OBVIOUS
  <2>1. Variants[At(x)] = Variants[At(y)] /\ At(x) \in 1 .. N /\ At(y) \in 1 .. N
    BY <1>3, <1>6
  <2>2. At(x) = At(y)
    BY <1>1, <2>1, Zenon
  <2> QED BY <1>7, <2>2
<1>9. \A x \in 1 .. N : order[x] \in STRING /\ Reverse(order)[x] \in STRING
  <2>1. order \in Seq(STRING) /\ Len(order) = N
    BY <1>3
  <2>2. \A x \in 1 .. N : order[x] \in STRING
    BY <2>1, ElementOfSeq
  <2>3. \A x \in 1 .. N : Reverse(order)[x] \in STRING
    <3> SUFFICES ASSUME NEW x \in 1 .. N PROVE Reverse(order)[x] \in STRING
      OBVIOUS
    <3> DEFINE y == N - x + 1
    <3>1. y \in 1 .. N /\ Reverse(order)[x] = order[y]
      BY <1>5, <1>6
    <3> HIDE DEF y
    <3> QED BY <2>2, <3>1, Zenon
  <2> QED BY <2>2, <2>3
<1>10. \A x, y \in 1 .. N : Reverse(order)[x] = Reverse(order)[y] => x = y
  <2> SUFFICES ASSUME NEW x \in 1 .. N, NEW y \in 1 .. N, Reverse(order)[x] = Reverse(order)[y]
               PROVE  x = y
    OBVIOUS
  <2>1. N - x + 1 = N - y + 1
    BY <1>5, <1>6, <1>8
  <2> QED BY <1>1, <2>1
<1> QED BY <1>4, <1>8, <1>9, <1>10 DEF N

(* What a run may leave behind: cases of the benchmark, with their times. *)
Outputs == UsualOutputs \cup FaultyOutputs

Timed(o) ==
  /\ DOMAIN o.cases \subseteq BenchCases
  /\ \A c \in DOMAIN o.cases : o.cases[c].time \in BenchTimes

(* The best and the worst output hold times of the benchmark; a usual one  *)
(* counts and has every case.                                              *)
LEMMA OutputsTimed ==
  /\ \A o \in Outputs : Timed(o)
  /\ \A o \in UsualOutputs : Counts(o) /\ DOMAIN o.cases = BenchCases
  /\ ~Counts(Silent) /\ Silent \notin UsualOutputs /\ Timed(Silent)
<1> DEFINE t == Max(BenchTimes)
           g == GoodOutput(t)
<1>1. t \in BenchTimes
  <2>1. IsFiniteSet(BenchTimes) /\ BenchTimes # {} /\ BenchTimes \subseteq Int
    BY PlacementAssumption
  <2> QED BY <2>1, Extremes
<1>2. \A x : /\ GoodOutput(x).exit = "zero" /\ GoodOutput(x).junk = 0 /\ GoodOutput(x).metadata = <<"usual">>
             /\ GoodOutput(x).policy = <<"asked">> /\ GoodOutput(x).layout = "usual"
             /\ DOMAIN GoodOutput(x).cases = BenchCases
             /\ \A c \in BenchCases : GoodOutput(x).cases[c] = GoodCase(x)
  BY DEF GoodOutput
<1>3. \A x : CaseCounts(GoodCase(x)) /\ GoodCase(x).time = x
  BY DEF GoodCase, CaseCounts
<1>4. \A o \in UsualOutputs : Counts(o) /\ DOMAIN o.cases = BenchCases /\ Timed(o)
  <2> SUFFICES ASSUME NEW x \in BenchTimes
               PROVE  Counts(GoodOutput(x)) /\ DOMAIN GoodOutput(x).cases = BenchCases /\ Timed(GoodOutput(x))
    BY DEF UsualOutputs
  <2>1. Len(<<"usual">>) = 1 /\ "usual" # "none" /\ BenchCases # {}
    BY PlacementAssumption
  <2> DEFINE o == GoodOutput(x)
  <2>2. /\ o.exit = "zero" /\ o.junk = 0 /\ o.metadata = <<"usual">> /\ o.policy = <<"asked">>
        /\ o.layout = "usual" /\ DOMAIN o.cases = BenchCases
        /\ \A c \in BenchCases : CaseCounts(o.cases[c]) /\ o.cases[c].time = x
    BY <1>2, <1>3
  <2> HIDE DEF o
  <2>3. Counts(o)
    BY <2>1, <2>2 DEF Counts
  <2>4. Timed(o)
    BY <2>2 DEF Timed
  <2> QED BY <2>2, <2>3, <2>4 DEF o
<1>5. ~Counts(Silent) /\ Silent \notin UsualOutputs /\ Timed(Silent)
  <2>1. Silent.exit = "launch_error" /\ Silent.cases = NoCases /\ DOMAIN NoCases = {}
    BY DEF Silent, NoCases
  <2>2. ~Counts(Silent)
    BY <2>1 DEF Counts
  <2> QED BY <1>4, <2>1, <2>2 DEF Timed
<1>6. \A o \in BadOutputs(g) : Timed(o)
  <2> SUFFICES ASSUME NEW o \in BadOutputs(g) PROVE Timed(o)
    OBVIOUS
  <2>1. \A k \in BadCases(GoodCase(t)) : k.time = t
    BY DEF BadCases, GoodCase
  <2>2. CASE o.cases = g.cases
    BY <1>1, <1>2, <1>3, <2>2 DEF Timed
  <2>3. CASE o.cases = NoCases
    BY <2>3 DEF Timed, NoCases
  <2>4. CASE \E c \in BenchCases, k \in BadCases(GoodCase(t)) : o = [g EXCEPT !.cases[c] = k]
    <3>1. PICK c \in BenchCases, k \in BadCases(GoodCase(t)) : o = [g EXCEPT !.cases[c] = k]
      BY <2>4
    <3>2. o.cases = [g.cases EXCEPT ![c] = k]
      BY <3>1 DEF GoodOutput
    <3>3. DOMAIN o.cases = BenchCases /\ \A d \in BenchCases : o.cases[d] = IF d = c THEN k ELSE GoodCase(t)
      BY <1>2, <3>2
    <3> QED BY <1>1, <1>3, <2>1, <3>3 DEF Timed
  <2>5. o.cases = g.cases \/ o.cases = NoCases
        \/ \E c \in BenchCases, k \in BadCases(GoodCase(t)) : o = [g EXCEPT !.cases[c] = k]
    BY DEF BadOutputs, GoodOutput, Silent
  <2> QED BY <2>2, <2>3, <2>4, <2>5
<1>7. \A o \in OddOutputs(g) : Timed(o)
  <2> SUFFICES ASSUME NEW o \in OddOutputs(g) PROVE Timed(o)
    OBVIOUS
  <2>1. CASE o.cases = g.cases
    BY <1>1, <1>2, <1>3, <2>1 DEF Timed
  <2>2. CASE \E c \in BenchCases : o = [g EXCEPT !.cases[c].shape = "other"]
    <3>1. PICK c \in BenchCases : o = [g EXCEPT !.cases[c].shape = "other"]
      BY <2>2
    <3>2. o.cases = [g.cases EXCEPT ![c].shape = "other"]
      BY <3>1 DEF GoodOutput
    <3>3. DOMAIN o.cases = BenchCases
          /\ \A d \in BenchCases : o.cases[d] = IF d = c THEN [GoodCase(t) EXCEPT !.shape = "other"] ELSE GoodCase(t)
      BY <1>2, <3>2
    <3>4. [GoodCase(t) EXCEPT !.shape = "other"].time = t
      BY DEF GoodCase
    <3> QED BY <1>1, <1>3, <3>3, <3>4 DEF Timed
  <2>3. CASE \E c \in BenchCases : o = [g EXCEPT !.cases = [x \in BenchCases \ {c} |-> g.cases[x]]]
    <3>1. PICK c \in BenchCases : o = [g EXCEPT !.cases = [x \in BenchCases \ {c} |-> g.cases[x]]]
      BY <2>3
    <3>2. o.cases = [x \in BenchCases \ {c} |-> g.cases[x]]
      BY <3>1 DEF GoodOutput
    <3> QED BY <1>1, <1>2, <1>3, <3>2 DEF Timed
  <2>4. o.cases = g.cases \/ (\E c \in BenchCases : o = [g EXCEPT !.cases[c].shape = "other"])
        \/ \E c \in BenchCases : o = [g EXCEPT !.cases = [x \in BenchCases \ {c} |-> g.cases[x]]]
    BY DEF OddOutputs, GoodOutput
  <2> QED BY <2>1, <2>2, <2>3, <2>4
<1> QED BY <1>4, <1>5, <1>6, <1>7 DEF Outputs, FaultyOutputs

(* The rows are one for each output, in the places ordered() gives them;   *)
(* results.json holds the statistics of the rows the session ended with.   *)
PlacementRow == {Row(r, p, v, o) : r \in Nat, p \in Nat, v \in STRING, o \in Outputs}

RowOf(i, o) ==
  LET r == (i - 1) \div Len(Variants)
      p == (i - 1) % Len(Variants)
  IN  Row(r, p, Ordered(r)[p + 1], o)

Recorded(runs, outputs) ==
  /\ runs \in Seq(PlacementRow) /\ outputs \in Seq(Outputs) /\ Len(runs) = Len(outputs)
  /\ \A i \in 1 .. Len(runs) : runs[i] = RowOf(i, outputs[i])

PlacementInv ==
  /\ p_phase \in {"idle", "building", "measuring", "saved", "lost", "replayed", "refused"}
  /\ Recorded(p_runs, p_outputs)
  /\ p_phase \in {"idle", "building", "measuring"} => p_saved = None
  /\ p_saved = None \/ \E complete : p_saved = Results(complete)
  /\ p_phase \in {"saved", "replayed"} => \E complete : p_saved = Results(complete)
  /\ p_matches = TRUE

(* The fields of a row. *)
LEMMA RowFields ==
  ASSUME NEW i, NEW o
  PROVE  LET r == (i - 1) \div Len(Variants)
             p == (i - 1) % Len(Variants)
         IN  /\ RowOf(i, o).round = r /\ RowOf(i, o).variant = Ordered(r)[p + 1]
             /\ RowOf(i, o).status = (IF Counts(o) THEN "ok" ELSE "failed")
             /\ DOMAIN RowOf(i, o).cases = DOMAIN o.cases
             /\ \A c \in DOMAIN o.cases : RowOf(i, o).cases[c].time = o.cases[c].time
BY DEF RowOf, Row

(* A variant runs at most once in a round. *)
LEMMA OneRun ==
  ASSUME NEW runs, NEW outputs, Recorded(runs, outputs),
         NEW i \in 1 .. Len(runs), NEW j \in 1 .. Len(runs),
         runs[i].round = runs[j].round, runs[i].variant = runs[j].variant
  PROVE  i = j
<1> DEFINE N == Len(Variants)
           a == i - 1
           b == j - 1
<1>1. N \in Nat \ {0} /\ a \in Nat /\ b \in Nat
  BY PlacementAssumption DEF Recorded
<1>2. /\ runs[i].round = a \div N /\ runs[i].variant = Ordered(a \div N)[(a % N) + 1]
      /\ runs[j].round = b \div N /\ runs[j].variant = Ordered(b \div N)[(b % N) + 1]
  <2>1. runs[i] = RowOf(i, outputs[i]) /\ runs[j] = RowOf(j, outputs[j])
    BY DEF Recorded
  <2>2. /\ RowOf(i, outputs[i]).round = a \div N
        /\ RowOf(i, outputs[i]).variant = Ordered(a \div N)[(a % N) + 1]
    BY RowFields
  <2>3. /\ RowOf(j, outputs[j]).round = b \div N
        /\ RowOf(j, outputs[j]).variant = Ordered(b \div N)[(b % N) + 1]
    BY RowFields
  <2> QED BY <2>1, <2>2, <2>3, Zenon
<1> HIDE DEF a, b, N
<1>3. /\ a \div N \in Nat /\ a % N \in 0 .. N - 1 /\ a = N * (a \div N) + (a % N)
      /\ b \div N \in Nat /\ b % N \in 0 .. N - 1 /\ b = N * (b \div N) + (b % N)
  BY <1>1, Division
<1>4. a \div N = b \div N
  BY <1>2
<1>5. (a % N) + 1 \in 1 .. N /\ (b % N) + 1 \in 1 .. N
  BY <1>1, <1>3
<1>6. (a % N) + 1 = (b % N) + 1
  <2>1. Ordered(a \div N)[(a % N) + 1] = Ordered(a \div N)[(b % N) + 1]
    BY <1>2, <1>4
  <2> DEFINE x == (a % N) + 1
             y == (b % N) + 1
             r == a \div N
  <2>2. x \in 1 .. N /\ y \in 1 .. N /\ r \in Nat /\ Ordered(r)[x] = Ordered(r)[y]
    BY <1>3, <1>5, <2>1
  <2> HIDE DEF x, y, r
  <2>3. x = y
    BY <2>2, OrderedInjective DEF N
  <2> QED BY <2>3 DEF x, y
<1>7. a % N = b % N
  <2> DEFINE x == a % N
             y == b % N
  <2>1. x \in 0 .. N - 1 /\ y \in 0 .. N - 1 /\ x + 1 = y + 1
    BY <1>3, <1>6
  <2> HIDE DEF x, y
  <2>2. x = y
    BY <1>1, <2>1
  <2> QED BY <2>2 DEF x, y
<1>8. a = b
  BY <1>3, <1>4, <1>7, Zenon
<1> QED BY <1>8 DEF a, b, Recorded

(* A number alone is the largest and the smallest. *)
LEMMA Alone ==
  ASSUME NEW i \in Nat, NEW S, S = {i}
  PROVE  Max(S) = i /\ Min(S) = i
<1>1. \A x \in S : x = i
  OBVIOUS
<1>2. i \in S /\ i >= i
  OBVIOUS
<1> QED BY <1>1, <1>2 DEF Max, Min

(* What the statistics read for a variant in a round is the time of the    *)
(* case in the run the variant had there, when that run counts.            *)
LEMMA SeriesReads ==
  ASSUME PlacementInv, p_saved # None, NEW r \in RoundIndices, NEW v, NEW c
  PROVE  LET o == OutputOf(r, v)
         IN  /\ Timed(o)
             /\ Series(p_saved.runs, c, v)[r] = IF Counts(o) /\ c \in DOMAIN o.cases THEN o.cases[c].time ELSE None
<1> DEFINE o == OutputOf(r, v)
           ran == {i \in 1 .. Len(p_runs) : p_runs[i].round = r /\ p_runs[i].variant = v}
           counted == {i \in 1 .. Len(p_runs) : p_runs[i].status = "ok" /\ p_runs[i].variant = v /\ p_runs[i].round = r}
           l == LastRun(p_runs, v, r)
<1>1. p_saved.runs = p_runs
  BY DEF PlacementInv, Results
<1>2. Recorded(p_runs, p_outputs)
  BY DEF PlacementInv
<1>3. o = IF ran # {} THEN IF Min(ran) = 0 THEN Silent ELSE p_outputs[Min(ran)] ELSE Silent
  BY <1>1 DEF OutputOf, SelectInSeq
<1>4. l = IF counted # {} THEN Max(counted) ELSE 0
  BY DEF LastRun, SelectLastInSeq
<1>5. Series(p_saved.runs, c, v)[r]
        = IF l = 0 \/ c \notin DOMAIN p_runs[l].cases THEN None ELSE p_runs[l].cases[c].time
  BY <1>1 DEF Series
<1> HIDE DEF l, o
<1>6. CASE ran = {}
  <2>1. counted = {}
    BY <1>6
  <2>2. o = Silent /\ l = 0
    BY <1>3, <1>4, <1>6, <2>1
  <2> QED BY <1>5, <2>2, OutputsTimed DEF o
<1>7. ASSUME NEW i \in ran
      PROVE  /\ Timed(o)
             /\ Series(p_saved.runs, c, v)[r] = IF Counts(o) /\ c \in DOMAIN o.cases THEN o.cases[c].time ELSE None
  <2>1. i \in 1 .. Len(p_runs) /\ i \in Nat /\ i # 0 /\ p_runs[i].round = r /\ p_runs[i].variant = v
    BY <1>7, <1>2 DEF Recorded
  <2>2. \A j \in ran : j = i
    BY <1>2, <2>1, OneRun
  <2>3. ran = {i}
    BY <2>2
  <2>4. o = p_outputs[i] /\ o \in Outputs
    <3>1. Min(ran) = i
      BY <2>1, <2>3, Alone
    <3>2. p_outputs[i] \in Outputs
      BY <1>2, <2>1 DEF Recorded
    <3> QED BY <1>3, <2>1, <2>3, <3>1, <3>2
  <2>5. /\ p_runs[i].status = (IF Counts(o) THEN "ok" ELSE "failed")
        /\ DOMAIN p_runs[i].cases = DOMAIN o.cases
        /\ \A d \in DOMAIN o.cases : p_runs[i].cases[d].time = o.cases[d].time
    <3>1. p_runs[i] = RowOf(i, o)
      BY <1>2, <2>1, <2>4 DEF Recorded
    <3> QED BY <3>1, RowFields
  <2>6. counted \subseteq ran /\ (i \in counted <=> Counts(o))
    BY <2>1, <2>5
  <2>7. l = IF Counts(o) THEN i ELSE 0
    <3>1. CASE Counts(o)
      <4>1. counted = {i}
        BY <2>3, <2>6, <3>1
      <4>2. Max(counted) = i
        BY <2>1, <4>1, Alone
      <4> QED BY <1>4, <3>1, <4>1, <4>2
    <3>2. CASE ~Counts(o)
      <4>1. counted = {}
        BY <2>3, <2>6, <3>2
      <4> QED BY <1>4, <3>2, <4>1
    <3> QED BY <3>1, <3>2
  <2>8. Timed(o)
    BY <2>4, OutputsTimed
  <2>9. CASE Counts(o)
    <3>1. l = i
      BY <2>7, <2>9
    <3> QED BY <1>5, <2>1, <2>5, <2>8, <2>9, <3>1
  <2>10. CASE ~Counts(o)
    BY <1>5, <2>7, <2>8, <2>10
  <2> QED BY <2>9, <2>10
<1> QED BY <1>6, <1>7 DEF o

(* The steps of a session and of a replay keep it: command_run() and       *)
(* command_replay().                                                       *)
LEMMA PlacementStep == PlacementInv /\ [PlacementNext]_placementVars => PlacementInv'
<1> SUFFICES ASSUME PlacementInv, [PlacementNext]_placementVars PROVE PlacementInv'
  OBVIOUS
<1>1. CASE RefuseArguments
  BY <1>1 DEF RefuseArguments, PlacementInv, Results
<1>2. CASE MakeOutput
  BY <1>2 DEF MakeOutput, PlacementInv, Results
<1>3. CASE Build
  BY <1>3 DEF Build, PlacementInv, Results
<1>4. CASE RunVariant
  <2> DEFINE n == Len(p_runs)
             r == n \div Len(Variants)
             p == n % Len(Variants)
  <2>1. PICK o \in Outputs : /\ p_runs' = Append(p_runs, Row(r, p, Ordered(r)[p + 1], o))
                             /\ p_outputs' = Append(p_outputs, o)
    BY <1>4 DEF RunVariant, Outputs
  <2>2. p_phase = "measuring" /\ p_phase' = p_phase /\ p_saved = None /\ p_saved' = p_saved /\ p_matches' = p_matches
    BY <1>4 DEF RunVariant, PlacementInv
  <2>3. Recorded(p_runs, p_outputs) /\ n \in Nat
    BY DEF PlacementInv, Recorded
  <2>4. r \in Nat /\ p \in 0 .. Len(Variants) - 1 /\ p + 1 \in 1 .. Len(Variants)
    <3> DEFINE N == Len(Variants)
    <3>1. N \in Nat \ {0}
      BY PlacementAssumption
    <3> HIDE DEF N, n
    <3>2. n \div N \in Nat /\ n % N \in 0 .. N - 1
      BY <2>3, <3>1, Division
    <3> QED BY <3>1, <3>2 DEF N
  <2> DEFINE row == Row(r, p, Ordered(r)[p + 1], o)
  <2>5. row \in PlacementRow
    <3>1. Ordered(r)[p + 1] \in STRING /\ p \in Nat
      <4> HIDE DEF r, p
      <4> QED BY <2>4, OrderedInjective
    <3> HIDE DEF r, p
    <3> QED BY <2>4, <3>1 DEF PlacementRow
  <2>6. RowOf(n + 1, o) = row
    <3>1. (n + 1) - 1 = n
      BY <2>3
    <3> QED BY <3>1 DEF RowOf
  <2> HIDE DEF row, r, p
  <2>7. p_runs' = Append(p_runs, row)
    BY <2>1 DEF row
  <2>8. /\ p_runs' \in Seq(PlacementRow) /\ p_outputs' \in Seq(Outputs) /\ Len(p_runs') = n + 1 /\ Len(p_outputs') = n + 1
        /\ p_runs'[n + 1] = row /\ p_outputs'[n + 1] = o
        /\ \A i \in 1 .. n : p_runs'[i] = p_runs[i] /\ p_outputs'[i] = p_outputs[i]
    BY <2>1, <2>3, <2>5, <2>7 DEF Recorded
  <2>9. \A i \in 1 .. n + 1 : p_runs'[i] = RowOf(i, p_outputs'[i])
    <3> SUFFICES ASSUME NEW i \in 1 .. n + 1 PROVE p_runs'[i] = RowOf(i, p_outputs'[i])
      OBVIOUS
    <3>1. CASE i = n + 1
      BY <2>6, <2>8, <3>1
    <3>2. CASE i \in 1 .. n
      BY <2>3, <2>8, <3>2 DEF Recorded
    <3> QED BY <2>3, <3>1, <3>2
  <2>10. Recorded(p_runs', p_outputs')
    BY <2>8, <2>9 DEF Recorded
  <2> QED BY <2>2, <2>10 DEF PlacementInv
<1>5. CASE SaveResults
  BY <1>5 DEF SaveResults, PlacementInv, Results
<1>6. CASE KillSession
  BY <1>6 DEF KillSession, PlacementInv, Results
<1>7. CASE ReplayResults
  <2>1. PICK complete : p_saved = Results(complete)
    BY <1>7 DEF ReplayResults, PlacementInv
  <2>2. p_saved.runs = p_runs /\ p_saved.derived = Derive(p_runs) /\ p_saved.consistency_problems = Consistency(p_runs)
    BY <2>1 DEF Results
  <2>3. p_matches' = TRUE
    BY <1>7, <2>2 DEF ReplayResults
  <2> QED BY <1>7, <2>1, <2>3 DEF ReplayResults, PlacementInv, Results
<1>8. CASE UNCHANGED placementVars
  BY <1>8 DEF placementVars, PlacementInv, Results
<1> QED BY <1>1, <1>2, <1>3, <1>4, <1>5, <1>6, <1>7, <1>8 DEF PlacementNext

(* Disjoint sets add up. *)
LEMMA DisjointSum ==
  ASSUME NEW S, NEW T, IsFiniteSet(S), IsFiniteSet(T), S \cap T = {}
  PROVE  IsFiniteSet(S \cup T) /\ Cardinality(S \cup T) = Cardinality(S) + Cardinality(T)
<1> DEFINE a == Cardinality(S)
           b == Cardinality(T)
           u == Cardinality(S \cup T)
           d == Cardinality(S \cap T)
<1>1. IsFiniteSet(S \cup T) /\ u = a + b - d
  BY FS_Union
<1>2. d = 0
  BY FS_EmptySet, Zenon
<1>3. a \in Nat /\ b \in Nat
  BY FS_CardinalityType
<1> HIDE DEF a, b, u, d
<1>4. u = a + b
  BY <1>1, <1>2, <1>3
<1> QED BY <1>1, <1>4 DEF a, b, u

(* Three parts of a finite set that exclude each other and leave nothing out. *)
LEMMA ThreeParts ==
  ASSUME NEW R, NEW W, NEW L, NEW T, IsFiniteSet(R),
         \A r : r \in R <=> r \in W \/ r \in L \/ r \in T,
         \A r : ~(r \in W /\ r \in L) /\ ~(r \in W /\ r \in T) /\ ~(r \in L /\ r \in T)
  PROVE  Cardinality(W) + Cardinality(L) + Cardinality(T) = Cardinality(R)
<1>1. W \subseteq R /\ L \subseteq R /\ T \subseteq R
  OBVIOUS
<1>2. IsFiniteSet(W) /\ IsFiniteSet(L) /\ IsFiniteSet(T)
  BY <1>1, FS_Subset
<1>3. W \cap L = {} /\ (W \cup L) \cap T = {} /\ (W \cup L) \cup T = R
  OBVIOUS
<1>4. IsFiniteSet(W \cup L) /\ Cardinality(W \cup L) = Cardinality(W) + Cardinality(L)
  BY <1>2, <1>3, DisjointSum
<1>5. Cardinality((W \cup L) \cup T) = Cardinality(W \cup L) + Cardinality(T)
  BY <1>2, <1>3, <1>4, DisjointSum
<1> QED BY <1>3, <1>4, <1>5, Zenon

(* Every change the statistics report compares two runs of one round that  *)
(* both count, every round with two good runs is compared, and a replay    *)
(* finds what was saved: derive() and paired() over what command_run()     *)
(* appended, for any number of variants, rounds, cases and faults, an      *)
(* interrupted session included.                                           *)
THEOREM PlacementPairedWithinRound == ToolsSpec => []PairedWithinRound
<1>1. ToolsInit => PlacementInv
  <2> SUFFICES ASSUME PlacementInit PROVE PlacementInv
    BY DEF ToolsInit
  <2>1. Recorded(<<>>, <<>>)
    BY DEF Recorded
  <2> QED BY <2>1 DEF PlacementInit, PlacementInv
<1>2. [ToolsNext]_toolVars => [PlacementNext]_placementVars
  BY DEF ToolsNext, toolVars, Placement, Gate, Native, Echo, Throughput, Isolated, Pacer, Slot, Machine
<1>3. PlacementInv => PairedWithinRound
  <2> SUFFICES ASSUME PlacementInv PROVE PairedWithinRound
    OBVIOUS
  <2>1. p_matches = TRUE
    BY DEF PlacementInv
  <2>2. ASSUME p_saved # None, NEW c \in DOMAIN p_saved.derived, NEW v \in VariantNames
        PROVE  LET s == p_saved.derived[c][v]
                   Time(r, x) == OutputOf(r, x).cases[c].time
                   Good(r, x) == OutputOf(r, x) \in UsualOutputs
               IN /\ \A r \in DOMAIN s.changes :
                       /\ StayedClean(OutputOf(r, v)) /\ StayedClean(OutputOf(r, Reference))
                       /\ s.changes[r] = <<Time(r, v), Time(r, Reference)>>
                  /\ \A r \in RoundIndices :
                       Good(r, v) /\ Good(r, Reference) /\ Time(r, Reference) # 0 => r \in DOMAIN s.changes
                  /\ s.wins + s.losses + s.ties = Cardinality(DOMAIN s.changes)
    <3> DEFINE runs == p_saved.runs
               values == Series(runs, c, v)
               base == Series(runs, c, Reference)
               s == p_saved.derived[c][v]
               rounds == PairedRounds(values, base)
               TimeOf(o) == IF Counts(o) /\ c \in DOMAIN o.cases THEN o.cases[c].time ELSE None
    <3>1. runs = p_runs /\ p_saved.derived = Derive(p_runs)
      BY <2>2 DEF PlacementInv, Results
    <3>2. s = PairedStatistics(values, base)
      BY <2>2, <3>1 DEF Derive
    <3>3. c \in BenchCases
      <4>1. PICK i \in 1 .. Len(p_runs) : c \in DOMAIN p_runs[i].cases
        BY <2>2, <3>1 DEF Derive, PlacementInv, Recorded
      <4>2. p_outputs[i] \in Outputs /\ p_runs[i] = RowOf(i, p_outputs[i])
        BY <4>1 DEF PlacementInv, Recorded
      <4>3. c \in DOMAIN p_outputs[i].cases
        BY <4>1, <4>2, RowFields
      <4> QED BY <4>2, <4>3, OutputsTimed DEF Timed
    <3>4. \A r \in RoundIndices : values[r] = TimeOf(OutputOf(r, v)) /\ base[r] = TimeOf(OutputOf(r, Reference))
      BY <2>2, SeriesReads
    <3>5. \A r \in RoundIndices : Timed(OutputOf(r, v)) /\ Timed(OutputOf(r, Reference))
      BY <2>2, SeriesReads
    <3> HIDE DEF runs, values, base
    <3>6. /\ s.changes = [r \in rounds |-> <<values[r], base[r]>>]
          /\ s.wins = Cardinality({r \in rounds : values[r] < base[r]})
          /\ s.losses = Cardinality({r \in rounds : values[r] > base[r]})
          /\ s.ties = Cardinality({r \in rounds : values[r] = base[r]})
      BY <3>2 DEF PairedStatistics
    <3> HIDE DEF s
    <3>7. DOMAIN s.changes = rounds /\ \A r \in rounds : s.changes[r] = <<values[r], base[r]>>
      BY <3>6
    <3>8. rounds \in SUBSET RoundIndices /\ \A r \in rounds : values[r] # None /\ base[r] # None
      BY DEF PairedRounds
    <3>9. \A r \in rounds : /\ Counts(OutputOf(r, v)) /\ values[r] = OutputOf(r, v).cases[c].time
                            /\ Counts(OutputOf(r, Reference)) /\ base[r] = OutputOf(r, Reference).cases[c].time
                            /\ values[r] \in Nat /\ base[r] \in Nat
      <4> SUFFICES ASSUME NEW r \in rounds
                   PROVE  /\ Counts(OutputOf(r, v)) /\ values[r] = OutputOf(r, v).cases[c].time
                          /\ Counts(OutputOf(r, Reference)) /\ base[r] = OutputOf(r, Reference).cases[c].time
                          /\ values[r] \in Nat /\ base[r] \in Nat
        OBVIOUS
      <4>1. \A o : TimeOf(o) # None => Counts(o) /\ c \in DOMAIN o.cases /\ TimeOf(o) = o.cases[c].time
        OBVIOUS
      <4>2. \A o : Timed(o) /\ c \in DOMAIN o.cases => o.cases[c].time \in Nat
        BY PlacementAssumption DEF Timed
      <4> HIDE DEF Read, rounds
      <4> QED BY <3>4, <3>5, <3>8, <4>1, <4>2
    <3>10. \A r \in rounds : StayedClean(OutputOf(r, v)) /\ StayedClean(OutputOf(r, Reference))
      <4>1. \A o : Counts(o) => StayedClean(o)
        BY DEF Counts, CaseCounts, StayedClean
      <4> HIDE DEF rounds
      <4> QED BY <3>9, <4>1
    <3>11. ASSUME NEW r \in RoundIndices, OutputOf(r, v) \in UsualOutputs, OutputOf(r, Reference) \in UsualOutputs,
                  OutputOf(r, Reference).cases[c].time # 0
           PROVE  r \in rounds
      <4>1. \A o \in UsualOutputs : TimeOf(o) = o.cases[c].time /\ (Timed(o) => o.cases[c].time # None)
        BY <3>3, OutputsTimed, PlacementAssumption DEF Timed
      <4>2. values[r] # None /\ base[r] # None /\ base[r] # 0
        <5> HIDE DEF Read
        <5> QED BY <3>4, <3>5, <3>11, <4>1
      <4> QED BY <4>2 DEF PairedRounds
    <3>12. s.wins + s.losses + s.ties = Cardinality(rounds)
      <4> HIDE DEF rounds
      <4> DEFINE W == {r \in rounds : values[r] < base[r]}
                 L == {r \in rounds : values[r] > base[r]}
                 T == {r \in rounds : values[r] = base[r]}
      <4>1. IsFiniteSet(rounds)
        <5>1. IsFiniteSet(RoundIndices)
          BY PlacementAssumption, FS_Interval DEF RoundIndices
        <5> QED BY <3>8, <5>1, FS_Subset
      <4>2. \A r \in rounds : values[r] \in Nat /\ base[r] \in Nat
        BY <3>9
      <4>3. /\ \A r : r \in rounds <=> r \in W \/ r \in L \/ r \in T
            /\ \A r : ~(r \in W /\ r \in L) /\ ~(r \in W /\ r \in T) /\ ~(r \in L /\ r \in T)
        BY <4>2
      <4>4. s.wins = Cardinality(W) /\ s.losses = Cardinality(L) /\ s.ties = Cardinality(T)
        BY <3>6
      <4> HIDE DEF W, L, T
      <4>5. Cardinality(W) + Cardinality(L) + Cardinality(T) = Cardinality(rounds)
        BY <4>1, <4>3, ThreeParts
      <4> QED BY <4>4, <4>5
    <3> HIDE DEF rounds, Read
    <3> QED BY <3>7, <3>9, <3>10, <3>11, <3>12 DEF s
  <2> QED BY <2>1, <2>2 DEF PairedWithinRound
<1> QED BY <1>1, <1>2, <1>3, PlacementStep, PTL DEF ToolsSpec

--------------------------------------------------------------------------------
(* Sums over finite sets of indices.                                       *)

(* A set of numbers that has an element has a least one. *)
LEMMA LeastNumber ==
  ASSUME NEW T \in SUBSET Nat, T # {}
  PROVE  \E n \in T : \A m \in T : n =< m
<1> DEFINE R == OpToRel(<, Nat)
<1>1. R = {x \in Nat \X Nat : x[1] < x[2]}
  BY DEF OpToRel
<1>2. IsWellFoundedOn(R, Nat)
  BY NatLessThanWellFounded
<1> HIDE DEF R
<1>3. PICK n \in T : \A m \in T : ~(<<m, n>> \in R)
  BY <1>2, WFMin
<1>4. \A m \in T : ~(m < n)
  BY <1>1, <1>3
<1> QED BY <1>4

(* Of some subsets of a finite set, one contains no other. *)
LEMMA LeastSet ==
  ASSUME NEW S, IsFiniteSet(S), NEW P, P \subseteq SUBSET S, P # {}
  PROVE  \E t \in P : \A u \in SUBSET t : u \in P => u = t
<1> DEFINE N == {Cardinality(t) : t \in P}
<1>1. ASSUME NEW t \in P PROVE IsFiniteSet(t) /\ Cardinality(t) \in Nat
  BY FS_Subset, FS_CardinalityType
<1>2. N \in SUBSET Nat /\ N # {}
  BY <1>1
<1>0. (\A t \in P : Cardinality(t) \in N) /\ (\A n \in N : \E t \in P : n = Cardinality(t))
  OBVIOUS
<1> HIDE DEF N
<1>5. PICK n \in N : \A m \in N : n =< m
  BY <1>2, LeastNumber
<1>6. PICK t \in P : n = Cardinality(t)
  BY <1>0, <1>5
<1>7. ASSUME NEW u \in SUBSET t, u \in P PROVE u = t
  <2>1. IsFiniteSet(t) /\ Cardinality(u) \in N /\ n \in Nat /\ Cardinality(u) \in Nat
    BY <1>0, <1>1, <1>6, <1>7
  <2>2. n =< Cardinality(u)
    BY <1>5, <2>1
  <2>3. Cardinality(u) =< Cardinality(t) /\ (Cardinality(t) = Cardinality(u) => t = u)
    BY <2>1, FS_Subset
  <2> QED BY <1>6, <2>1, <2>2, <2>3
<1> QED BY <1>7

(* A sum over a set of indices, and the recursive function that yields it. *)
SumOver(w, S) == MapThenSumSet(LAMBDA i : w[i], S)
AnyOf(s) == CHOOSE x \in s : TRUE
Sums(h, w, S) == h = [s \in SUBSET S |-> IF s = {} THEN 0 ELSE w[AnyOf(s)] + h[s \ {AnyOf(s)}]]

(* What it is for a set. *)
LEMMA SumsAt ==
  ASSUME NEW h, NEW w, NEW S, Sums(h, w, S), NEW s, s \subseteq S
  PROVE  /\ h[{}] = 0
         /\ s # {} => AnyOf(s) \in s /\ h[s] = w[AnyOf(s)] + h[s \ {AnyOf(s)}]
  BY DEF Sums, AnyOf

(* Such functions agree wherever both are defined. *)
LEMMA SumsAgree ==
  ASSUME NEW w, NEW A, NEW B, IsFiniteSet(A), NEW g, NEW h, Sums(g, w, A), Sums(h, w, B),
         NEW s, s \subseteq A, s \subseteq B
  PROVE  g[s] = h[s]
<1> DEFINE P == {t \in SUBSET (A \cap B) : g[t] # h[t]}
<1> SUFFICES ASSUME P # {} PROVE FALSE
  OBVIOUS
<1>0. IsFiniteSet(A \cap B) /\ P \subseteq SUBSET (A \cap B)
  BY FS_Subset
<1>1. \A t \in SUBSET (A \cap B) : t \in P <=> g[t] # h[t]
  OBVIOUS
<1> HIDE DEF P
<1>2. PICK t \in P : \A u \in SUBSET t : u \in P => u = t
  BY <1>0, LeastSet
<1>3. t \subseteq A /\ t \subseteq B /\ g[t] # h[t]
  BY <1>0, <1>1, <1>2
<1>4. t # {}
  BY <1>3, SumsAt
<1>5. /\ AnyOf(t) \in t /\ g[t] = w[AnyOf(t)] + g[t \ {AnyOf(t)}]
      /\ h[t] = w[AnyOf(t)] + h[t \ {AnyOf(t)}]
  BY <1>3, <1>4, SumsAt
<1>6. t \ {AnyOf(t)} \in SUBSET t /\ t \ {AnyOf(t)} # t /\ t \ {AnyOf(t)} \in SUBSET (A \cap B)
  BY <1>3, <1>5
<1>7. g[t \ {AnyOf(t)}] = h[t \ {AnyOf(t)}]
  BY <1>1, <1>2, <1>6
<1> QED BY <1>3, <1>5, <1>7

(* There is one for every finite set. *)
LEMMA SumsExist ==
  ASSUME NEW w, NEW S, IsFiniteSet(S)
  PROVE  \E h : Sums(h, w, S)
<1> DEFINE P == {t \in SUBSET S : ~\E h : Sums(h, w, t)}
<1> SUFFICES ASSUME P # {} PROVE FALSE
  OBVIOUS
<1>1. P \subseteq SUBSET S /\ \A t \in SUBSET S : t \in P <=> ~\E h : Sums(h, w, t)
  OBVIOUS
<1> HIDE DEF P
<1>2. PICK t \in P : \A u \in SUBSET t : u \in P => u = t
  BY <1>1, LeastSet
<1>3. t \subseteq S /\ (~\E h : Sums(h, w, t)) /\ IsFiniteSet(t)
  BY <1>1, <1>2, FS_Subset
<1> DEFINE Of(u) == CHOOSE h : Sums(h, w, u)
<1>4. ASSUME NEW u, u \subseteq t, u # t PROVE Sums(Of(u), w, u) /\ IsFiniteSet(u)
  <2>1. \E h : Sums(h, w, u)
    BY <1>1, <1>2, <1>3, <1>4
  <2> QED BY <1>3, <1>4, <2>1, FS_Subset
<1> HIDE DEF Of
<1> DEFINE h == [s \in SUBSET t |-> IF s = {} THEN 0 ELSE w[AnyOf(s)] + Of(s \ {AnyOf(s)})[s \ {AnyOf(s)}]]
<1>5. ASSUME NEW u, u \subseteq t, u # t PROVE h[u] = Of(u)[u]
  <2>1. CASE u = {}
    BY <1>4, <1>5, <2>1, SumsAt
  <2>2. CASE u # {}
    <3> DEFINE v == u \ {AnyOf(u)}
    <3>1. AnyOf(u) \in u /\ Of(u)[u] = w[AnyOf(u)] + Of(u)[v]
      BY <1>4, <1>5, <2>2, SumsAt
    <3>2. v \subseteq t /\ v # t /\ v \subseteq u
      BY <1>5, <3>1
    <3>3. Sums(Of(u), w, u) /\ IsFiniteSet(u) /\ Sums(Of(v), w, v) /\ IsFiniteSet(v)
      BY <1>4, <1>5, <3>2
    <3> HIDE DEF v
    <3>4. Of(u)[v] = Of(v)[v]
      BY <3>2, <3>3, SumsAgree
    <3> QED BY <1>5, <2>2, <3>1, <3>4 DEF v
  <2> QED BY <2>1, <2>2
<1>6. ASSUME NEW s \in SUBSET t
      PROVE  h[s] = IF s = {} THEN 0 ELSE w[AnyOf(s)] + h[s \ {AnyOf(s)}]
  <2>1. CASE s = {}
    BY <2>1
  <2>2. CASE s # {}
    <3>1. AnyOf(s) \in s
      BY <2>2 DEF AnyOf
    <3>2. s \ {AnyOf(s)} \subseteq t /\ s \ {AnyOf(s)} # t
      BY <3>1
    <3>3. h[s \ {AnyOf(s)}] = Of(s \ {AnyOf(s)})[s \ {AnyOf(s)}]
      BY <1>5, <3>2
    <3> QED BY <2>2, <3>3
  <2> QED BY <2>1, <2>2
<1>7. h = [s \in SUBSET t |-> h[s]]
  OBVIOUS
<1> HIDE DEF h
<1>8. Sums(h, w, t)
  BY <1>6, <1>7 DEF Sums
<1> QED BY <1>3, <1>8

(* The sum is its value. *)
LEMMA SumIs ==
  ASSUME NEW w, NEW S, IsFiniteSet(S), NEW h, Sums(h, w, S)
  PROVE  SumOver(w, S) = h[S]
<1> DEFINE g == CHOOSE g : Sums(g, w, S)
<1>1. Sums(g, w, S)
  OBVIOUS
<1>2. SumOver(w, S) = g[S]
  BY DEF SumOver, MapThenSumSet, MapThenFoldSet, Sums, AnyOf
<1> HIDE DEF g
<1> QED BY <1>1, <1>2, SumsAgree

(* Naturals have a natural sum, and any of them may be taken first. *)
LEMMA SumsTaken ==
  ASSUME NEW w, NEW S, IsFiniteSet(S), \A x \in S : w[x] \in Nat, NEW h, Sums(h, w, S)
  PROVE  /\ \A s \in SUBSET S : h[s] \in Nat
         /\ \A s \in SUBSET S : \A x \in s : h[s] = w[x] + h[s \ {x}]
<1>1. \A s \in SUBSET S : h[s] \in Nat
  <2> DEFINE P == {t \in SUBSET S : h[t] \notin Nat}
  <2> SUFFICES ASSUME P # {} PROVE FALSE
    OBVIOUS
  <2>1. P \subseteq SUBSET S /\ \A t \in SUBSET S : t \in P <=> h[t] \notin Nat
    OBVIOUS
  <2> HIDE DEF P
  <2>2. PICK t \in P : \A u \in SUBSET t : u \in P => u = t
    BY <2>1, LeastSet
  <2>3. t \subseteq S /\ h[t] \notin Nat
    BY <2>1, <2>2
  <2>6. t # {}
    <3>1. h[{}] = 0
      BY <2>3, SumsAt
    <3> QED BY <2>3, <3>1
  <2>4. AnyOf(t) \in t /\ h[t] = w[AnyOf(t)] + h[t \ {AnyOf(t)}]
    BY <2>3, <2>6, SumsAt
  <2>5. h[t \ {AnyOf(t)}] \in Nat
    BY <2>1, <2>2, <2>3, <2>4
  <2> QED BY <2>3, <2>4, <2>5
<1>2. \A s \in SUBSET S : \A x \in s : h[s] = w[x] + h[s \ {x}]
  <2> DEFINE P == {t \in SUBSET S : \E x \in t : h[t] # w[x] + h[t \ {x}]}
  <2> SUFFICES ASSUME P # {} PROVE FALSE
    OBVIOUS
  <2>1. P \subseteq SUBSET S /\ \A t \in SUBSET S : t \in P <=> \E x \in t : h[t] # w[x] + h[t \ {x}]
    OBVIOUS
  <2> HIDE DEF P
  <2>2. PICK t \in P : \A u \in SUBSET t : u \in P => u = t
    BY <2>1, LeastSet
  <2>3. PICK x \in t : h[t] # w[x] + h[t \ {x}]
    BY <2>1, <2>2
  <2> DEFINE y == AnyOf(t)
  <2>4. t \subseteq S /\ y \in t /\ h[t] = w[y] + h[t \ {y}]
    BY <2>1, <2>2, <2>3, SumsAt
  <2> HIDE DEF y
  <2>5. x # y
    BY <2>3, <2>4
  <2>6. /\ t \ {x} \in SUBSET t /\ t \ {x} # t /\ t \ {x} \in SUBSET S /\ y \in t \ {x}
        /\ t \ {y} \in SUBSET t /\ t \ {y} # t /\ t \ {y} \in SUBSET S /\ x \in t \ {y}
    BY <2>4, <2>5
  <2>7. h[t \ {x}] = w[y] + h[(t \ {x}) \ {y}] /\ h[t \ {y}] = w[x] + h[(t \ {y}) \ {x}]
    <3>1. t \ {x} \notin P /\ t \ {y} \notin P
      BY <2>2, <2>6
    <3>2. /\ \A z \in t \ {x} : h[t \ {x}] = w[z] + h[(t \ {x}) \ {z}]
          /\ \A z \in t \ {y} : h[t \ {y}] = w[z] + h[(t \ {y}) \ {z}]
      BY <2>1, <2>6, <3>1
    <3> QED BY <2>6, <3>2
  <2>8. (t \ {x}) \ {y} = (t \ {y}) \ {x} /\ (t \ {x}) \ {y} \in SUBSET S
    BY <2>4
  <2>9. h[(t \ {x}) \ {y}] \in Nat /\ w[x] \in Nat /\ w[y] \in Nat
    BY <1>1, <2>4, <2>8
  <2> DEFINE z == h[(t \ {x}) \ {y}]
  <2>10. /\ h[t] = w[y] + (w[x] + z) /\ h[t \ {x}] = w[y] + z
         /\ z \in Nat /\ w[x] \in Nat /\ w[y] \in Nat
    <3>1. h[(t \ {y}) \ {x}] = z
      BY <2>8
    <3>2. h[t \ {y}] = w[x] + z /\ h[t \ {x}] = w[y] + z
      BY <2>7, <3>1
    <3> QED BY <2>4, <2>9, <3>2
  <2> HIDE DEF z
  <2>11. w[y] + (w[x] + z) = w[x] + (w[y] + z)
    BY <2>10
  <2> QED BY <2>3, <2>10, <2>11
<1> QED BY <1>1, <1>2

(* Nothing adds up to zero. *)
LEMMA SumNone ==
  ASSUME NEW w
  PROVE  SumOver(w, {}) = 0
<1>1. IsFiniteSet({})
  BY FS_EmptySet
<1>2. PICK h : Sums(h, w, {})
  BY <1>1, SumsExist
<1> QED BY <1>1, <1>2, SumIs, SumsAt

(* One index more adds its term. *)
LEMMA SumAdded ==
  ASSUME NEW w, NEW S, IsFiniteSet(S), NEW x, x \notin S, \A i \in S \cup {x} : w[i] \in Nat
  PROVE  SumOver(w, S) \in Nat /\ SumOver(w, S \cup {x}) = w[x] + SumOver(w, S)
<1> DEFINE T == S \cup {x}
<1>1. IsFiniteSet(T) /\ T \ {x} = S /\ S \subseteq T /\ x \in T
  BY FS_AddElement
<1>2. PICK h : Sums(h, w, T)
  BY <1>1, SumsExist
<1>3. PICK g : Sums(g, w, S)
  BY SumsExist
<1>4. g[S] = h[S] /\ SumOver(w, S) = g[S] /\ SumOver(w, T) = h[T]
  <2> HIDE DEF T
  <2>1. g[S] = h[S]
    BY <1>1, <1>2, <1>3, SumsAgree
  <2>2. SumOver(w, S) = g[S]
    BY <1>3, SumIs
  <2>3. SumOver(w, T) = h[T]
    BY <1>1, <1>2, SumIs
  <2> QED BY <2>1, <2>2, <2>3
<1> HIDE DEF T
<1>5. h[S] \in Nat /\ h[T] = w[x] + h[T \ {x}]
  BY <1>1, <1>2, SumsTaken DEF T
<1> QED BY <1>1, <1>4, <1>5 DEF T

(* Equal terms have equal sums. *)
LEMMA SumSame ==
  ASSUME NEW w, NEW v, NEW S, IsFiniteSet(S), \A i \in S : w[i] = v[i]
  PROVE  SumOver(w, S) = SumOver(v, S)
<1>1. PICK h : Sums(h, w, S)
  BY SumsExist
<1>2. \A s \in SUBSET S : s # {} => w[AnyOf(s)] = v[AnyOf(s)]
  BY DEF AnyOf
<1>3. Sums(h, v, S)
  <2>1. \A s \in SUBSET S : h[s] = IF s = {} THEN 0 ELSE v[AnyOf(s)] + h[s \ {AnyOf(s)}]
    <3> SUFFICES ASSUME NEW s \in SUBSET S
                 PROVE  h[s] = IF s = {} THEN 0 ELSE v[AnyOf(s)] + h[s \ {AnyOf(s)}]
      OBVIOUS
    <3>1. h[{}] = 0 /\ (s # {} => h[s] = w[AnyOf(s)] + h[s \ {AnyOf(s)}])
      <4>1. s \subseteq S
        OBVIOUS
      <4> QED BY <1>1, <4>1, SumsAt
    <3> QED BY <1>2, <3>1
  <2>2. h = [s \in SUBSET S |-> h[s]]
    BY <1>1 DEF Sums
  <2> QED BY <2>1, <2>2 DEF Sums
<1> QED BY <1>1, <1>3, SumIs

(* The sum over more is no less. *)
LEMMA SumWithin ==
  ASSUME NEW w, NEW S, IsFiniteSet(S), \A i \in S : w[i] \in Nat, NEW A, A \subseteq S
  PROVE  SumOver(w, A) \in Nat /\ SumOver(w, S) \in Nat /\ SumOver(w, A) =< SumOver(w, S)
<1>1. PICK h : Sums(h, w, S)
  BY SumsExist
<1>2. IsFiniteSet(A)
  BY FS_Subset
<1>3. PICK g : Sums(g, w, A)
  BY <1>2, SumsExist
<1>4. g[A] = h[A] /\ SumOver(w, A) = g[A] /\ SumOver(w, S) = h[S]
  <2>1. g[A] = h[A]
    BY <1>1, <1>2, <1>3, SumsAgree
  <2>2. SumOver(w, A) = g[A]
    BY <1>2, <1>3, SumIs
  <2>3. SumOver(w, S) = h[S]
    BY <1>1, SumIs
  <2> QED BY <2>1, <2>2, <2>3
<1>5. /\ \A s \in SUBSET S : h[s] \in Nat
      /\ \A s \in SUBSET S : \A x \in s : h[s] = w[x] + h[s \ {x}]
  BY <1>1, SumsTaken
<1>6. h[A] =< h[S]
  <2> DEFINE P == {t \in SUBSET S : A \subseteq t /\ ~(h[A] =< h[t])}
  <2> SUFFICES ASSUME P # {} PROVE FALSE
    OBVIOUS
  <2>1. P \subseteq SUBSET S /\ \A t \in SUBSET S : t \in P <=> A \subseteq t /\ ~(h[A] =< h[t])
    OBVIOUS
  <2> HIDE DEF P
  <2>2. PICK t \in P : \A u \in SUBSET t : u \in P => u = t
    BY <2>1, LeastSet
  <2>3. t \subseteq S /\ A \subseteq t /\ ~(h[A] =< h[t]) /\ h[A] \in Nat
    BY <1>5, <2>1, <2>2
  <2>4. PICK x \in t : x \notin A
    BY <2>3
  <2>5. t \ {x} \in SUBSET t /\ t \ {x} # t /\ A \subseteq t \ {x} /\ t \ {x} \in SUBSET S
    BY <2>3, <2>4
  <2>6. h[A] =< h[t \ {x}]
    BY <2>1, <2>2, <2>5
  <2>7. h[t] = w[x] + h[t \ {x}] /\ w[x] \in Nat /\ h[t \ {x}] \in Nat
    BY <1>5, <2>3, <2>4, <2>5
  <2> QED BY <2>3, <2>6, <2>7
<1> QED BY <1>4, <1>5, <1>6

--------------------------------------------------------------------------------
(* The frames of a windowed report (SlotTrace).                            *)

Demands == [requestAt : Int, observed : BOOLEAN, dirtyBusy : Nat, eligibleBusy : Nat,
            prepareAt : Int, completeEnd : Int]

(* A frame that may still be contained in the window, and a demand whose   *)
(* frame may still be.                                                     *)
Early(f, w) == f.observed /\ f.requestAt >= w[1] /\ f.prepareAt < w[2]
InTime(r, w) == r.demand.observed /\ r.demand.requestAt >= w[1] /\ r.previous =< w[2]

(* What one waited, past its deadline or at all. *)
Wait(f, eligible) == IF eligible THEN f.eligibleBusy ELSE f.dirtyBusy
Waits(frames, eligible) == [i \in 1 .. Len(frames) |-> Wait(frames[i], eligible)]
KeptFrames(frames, w) == {i \in 1 .. Len(frames) : Early(frames[i], w)}

(* What all of them waited, and the total that has to hold it. *)
Claimed(r, w, eligible) ==
  SumOver(Waits(r.frames, eligible), KeptFrames(r.frames, w))
    + (IF Early(r.pending, w) THEN Wait(r.pending, eligible) ELSE 0)
    + (IF InTime(r, w) THEN Wait(r.demand, eligible) ELSE 0)
Reported(r, eligible) == IF eligible THEN r.eligibleBusy ELSE r.dirtyBusy

Claims(r, w) ==
  /\ r.frames \in Seq(Demands) /\ r.pending \in Demands /\ r.demand \in Demands
  /\ r.demand = Nothing \/ r.demand.observed
  /\ r.demand.observed => r.demand.requestAt =< r.previous
  /\ \A eligible \in BOOLEAN : Claimed(r, w, eligible) =< Reported(r, eligible)

(* No times are a demand, and one that no window contains. *)
LEMMA NothingClaims ==
  /\ Nothing \in Demands /\ Nothing.observed = FALSE
  /\ Nothing.requestAt = -1 /\ Nothing.dirtyBusy = 0 /\ Nothing.eligibleBusy = 0
<1>1. Nothing = [requestAt |-> -1, observed |-> FALSE, dirtyBusy |-> 0, eligibleBusy |-> 0,
                 prepareAt |-> -1, completeEnd |-> -1]
  BY DEF Nothing
<1>2. -1 \in Int /\ 0 \in Nat /\ FALSE \in BOOLEAN
  OBVIOUS
<1>3. Nothing \in Demands
  BY <1>1, <1>2 DEF Demands
<1>4. Nothing.observed = FALSE
  BY <1>1
<1>5. Nothing.requestAt = -1 /\ Nothing.dirtyBusy = 0 /\ Nothing.eligibleBusy = 0
  BY <1>1
<1> QED BY <1>3, <1>4, <1>5

(* The terms of the sum. *)
LEMMA WaitNat ==
  ASSUME NEW f \in Demands, NEW eligible \in BOOLEAN
  PROVE  Wait(f, eligible) \in Nat
BY DEF Demands, Wait

(* The kept frames are finitely many, and wait for a natural. *)
LEMMA KeptSum ==
  ASSUME NEW frames \in Seq(Demands), NEW w, NEW eligible \in BOOLEAN
  PROVE  /\ IsFiniteSet(KeptFrames(frames, w)) /\ KeptFrames(frames, w) \subseteq 1 .. Len(frames)
         /\ \A i \in 1 .. Len(frames) : Waits(frames, eligible)[i] \in Nat
         /\ SumOver(Waits(frames, eligible), KeptFrames(frames, w)) \in Nat
<1>1. Len(frames) \in Nat /\ \A i \in 1 .. Len(frames) : frames[i] \in Demands
  OBVIOUS
<1>2. KeptFrames(frames, w) \subseteq 1 .. Len(frames)
  BY DEF KeptFrames
<1>3. IsFiniteSet(1 .. Len(frames))
  BY <1>1, FS_Interval
<1>4. IsFiniteSet(KeptFrames(frames, w))
  BY <1>2, <1>3, FS_Subset
<1>5. \A i \in 1 .. Len(frames) : Waits(frames, eligible)[i] \in Nat
  BY <1>1, WaitNat DEF Waits
<1>6. SumOver(Waits(frames, eligible), KeptFrames(frames, w)) \in Nat
  BY <1>2, <1>4, <1>5, SumWithin
<1> QED BY <1>2, <1>4, <1>5, <1>6

(* A replay that differs in its state only claims the same. *)
LEMMA SameClaims ==
  ASSUME NEW r, NEW q, NEW w, Claims(r, w), q.frames = r.frames, q.pending = r.pending,
         q.demand = r.demand, q.previous = r.previous,
         q.dirtyBusy = r.dirtyBusy, q.eligibleBusy = r.eligibleBusy
  PROVE  Claims(q, w)
<1>1. \A eligible \in BOOLEAN : Claimed(q, w, eligible) = Claimed(r, w, eligible)
                                /\ Reported(q, eligible) = Reported(r, eligible)
  BY DEF Claimed, InTime, Reported
<1> QED BY <1>1 DEF Claims

(* What is claimed is what the kept frames, the pending frame and the      *)
(* demand wait.                                                            *)
Parts(r, w, eligible, s, p, d) ==
  /\ s = SumOver(Waits(r.frames, eligible), KeptFrames(r.frames, w))
  /\ p = IF Early(r.pending, w) THEN Wait(r.pending, eligible) ELSE 0
  /\ d = IF InTime(r, w) THEN Wait(r.demand, eligible) ELSE 0
  /\ s + p + d =< Reported(r, eligible)

(* The parts of what is claimed, as numbers. *)
LEMMA ClaimedParts ==
  ASSUME NEW r, NEW w, Claims(r, w), NEW eligible \in BOOLEAN
  PROVE  \E s, p, d \in Nat : Parts(r, w, eligible, s, p, d)
<1> DEFINE s == SumOver(Waits(r.frames, eligible), KeptFrames(r.frames, w))
           p == IF Early(r.pending, w) THEN Wait(r.pending, eligible) ELSE 0
           d == IF InTime(r, w) THEN Wait(r.demand, eligible) ELSE 0
<1>1. /\ r.frames \in Seq(Demands) /\ r.pending \in Demands /\ r.demand \in Demands
      /\ Claimed(r, w, eligible) =< Reported(r, eligible)
  BY DEF Claims
<1>2. s \in Nat
  BY <1>1, KeptSum
<1>3. p \in Nat /\ d \in Nat
  BY <1>1, WaitNat
<1>4. Claimed(r, w, eligible) = s + p + d
  BY DEF Claimed
<1>5. s + p + d =< Reported(r, eligible)
  BY <1>1, <1>4
<1>6. Parts(r, w, eligible, s, p, d)
  BY <1>5 DEF Parts
<1> HIDE DEF s, p, d
<1> QED BY <1>2, <1>3, <1>6

(* Inside the window nothing is clipped. *)
LEMMA ClippedInside ==
  ASSUME NEW from \in Int, NEW to \in Int, s_window[1] \in Int, s_window[2] \in Int
  PROVE  /\ Span(from, to) \in Nat /\ Clipped(from, to) \in Nat
         /\ from >= s_window[1] /\ to =< s_window[2] => Clipped(from, to) = Span(from, to)
<1>1. to - from \in Int
  OBVIOUS
<1>2. Max({0, to - from}) = IF 0 >= to - from THEN 0 ELSE to - from
  BY <1>1, Larger
<1>3. Span(from, to) \in Nat
  BY <1>1, <1>2 DEF Span
<1>4. Clipped(from, to) \in Nat
  BY ClippedGrows
<1>5. ASSUME from >= s_window[1], to =< s_window[2] PROVE Clipped(from, to) = Span(from, to)
  <2>1. Max({from, s_window[1]}) = from /\ Min({to, s_window[2]}) = to
    BY <1>5, Larger, Smaller
  <2> QED BY <2>1 DEF Clipped
<1> QED BY <1>3, <1>4, <1>5

(* An interval that is accounted for is claimed by a demand only where the *)
(* totals get all of it.                                                   *)
LEMMA AccountClaims ==
  ASSUME SlotInv, Claims(s_replay, s_window), NEW a, a = Account(s_replay)
  PROVE  Claims(a, s_window)
<1> DEFINE r == s_replay
           w == s_window
           due == Max({r.previous, r.state.deadline})
<1>1. /\ IsReplay(r) /\ r.previous \in Nat /\ r.previous =< s_now /\ r.state.deadline \in Nat /\ s_now \in Nat
      /\ r.dirtyBusy \in Nat /\ r.eligibleBusy \in Nat /\ w[1] \in Int /\ w[2] \in Int
  BY DEF SlotInv, SlotTypeOK, View
<1>2. due \in Int /\ due >= r.previous
  <2> DEFINE prev == r.previous
             dl == r.state.deadline
  <2>1. prev \in Int /\ dl \in Int
    BY <1>1
  <2>2. due = IF prev >= dl THEN prev ELSE dl
    BY <2>1, Larger
  <2> HIDE DEF due, prev, dl
  <2>3. due \in Int /\ due >= prev
    BY <2>1, <2>2
  <2> QED BY <2>3 DEF prev
<1>3. /\ r.frames \in Seq(Demands) /\ r.pending \in Demands /\ r.demand \in Demands
      /\ (r.demand = Nothing \/ r.demand.observed)
      /\ (r.demand.observed => r.demand.requestAt =< r.previous) /\ Claims(r, w)
  BY DEF Claims
<1> DEFINE cd == Clipped(r.previous, s_now)
           ce == Clipped(due, s_now)
           sd == Span(r.previous, s_now)
           se == Span(due, s_now)
<1>4. /\ cd \in Nat /\ ce \in Nat /\ sd \in Nat /\ se \in Nat
      /\ r.previous >= w[1] /\ s_now =< w[2] => cd = sd /\ ce = se
  <2>1. /\ sd \in Nat /\ cd \in Nat /\ (r.previous >= w[1] /\ s_now =< w[2] => cd = sd)
    <3>1. r.previous \in Int /\ s_now \in Int
      BY <1>1
    <3> QED BY <1>1, <3>1, ClippedInside
  <2>2. /\ se \in Nat /\ ce \in Nat /\ (due >= w[1] /\ s_now =< w[2] => ce = se)
    <3>1. due \in Int /\ s_now \in Int
      BY <1>1, <1>2
    <3> HIDE DEF due
    <3> QED BY <1>1, <3>1, ClippedInside
  <2>3. r.previous >= w[1] => due >= w[1]
    BY <1>1, <1>2
  <2> QED BY <2>1, <2>2, <2>3
<1>5. a = IF ~Blocked(r.state) THEN [r EXCEPT !.previous = s_now]
          ELSE [r EXCEPT !.previous = s_now, !.dirtyBusy = r.dirtyBusy + cd, !.eligibleBusy = r.eligibleBusy + ce,
                         !.demand = Waited(r.demand, r.previous, due)]
  BY DEF Account
<1>6. Waited(r.demand, r.previous, due)
        = IF r.demand = Nothing THEN r.demand
          ELSE [r.demand EXCEPT !.dirtyBusy = r.demand.dirtyBusy + sd, !.eligibleBusy = r.demand.eligibleBusy + se]
  BY DEF Waited
<1> HIDE DEF cd, ce, sd, se, due
<1> SUFFICES Claims(a, w)
  OBVIOUS
<1> HIDE DEF r, w
<1>7. CASE ~Blocked(r.state) \/ r.demand = Nothing
  <2>1. /\ a.frames = r.frames /\ a.pending = r.pending /\ a.demand = r.demand /\ a.previous = s_now
        /\ a.dirtyBusy \in Int /\ a.eligibleBusy \in Int
        /\ a.dirtyBusy >= r.dirtyBusy /\ a.eligibleBusy >= r.eligibleBusy
    <3>1. CASE ~Blocked(r.state)
      <4>1. a = [r EXCEPT !.previous = s_now]
        BY <1>5, <3>1
      <4> QED BY <1>1, <4>1 DEF IsReplay
    <3>2. CASE Blocked(r.state) /\ r.demand = Nothing
      <4>1. a = [r EXCEPT !.previous = s_now, !.dirtyBusy = r.dirtyBusy + cd, !.eligibleBusy = r.eligibleBusy + ce,
                          !.demand = r.demand]
        BY <1>5, <1>6, <3>2
      <4>2. /\ a.frames = r.frames /\ a.pending = r.pending /\ a.demand = r.demand /\ a.previous = s_now
            /\ a.dirtyBusy = r.dirtyBusy + cd /\ a.eligibleBusy = r.eligibleBusy + ce
        BY <1>1, <4>1 DEF IsReplay
      <4> QED BY <1>1, <1>4, <4>2
    <3> QED BY <1>7, <3>1, <3>2
  <2>2. ASSUME NEW eligible \in BOOLEAN PROVE Claimed(a, w, eligible) =< Reported(a, eligible)
    <3>parts. PICK s \in Nat, p \in Nat, d \in Nat : Parts(r, w, eligible, s, p, d)
      BY <1>3, ClaimedParts
    <3>1. /\ s = SumOver(Waits(r.frames, eligible), KeptFrames(r.frames, w))
          /\ p = IF Early(r.pending, w) THEN Wait(r.pending, eligible) ELSE 0
          /\ d = IF InTime(r, w) THEN Wait(r.demand, eligible) ELSE 0
          /\ s + p + d =< Reported(r, eligible)
      BY <3>parts DEF Parts
    <3> DEFINE e == IF InTime(a, w) THEN Wait(a.demand, eligible) ELSE 0
    <3>2. InTime(a, w) => InTime(r, w)
      BY <1>1, <2>1 DEF InTime
    <3>3. e \in Nat /\ e =< d
      <4>1. Wait(r.demand, eligible) \in Nat
        BY <1>3, WaitNat
      <4> QED BY <2>1, <3>1, <3>2, <4>1
    <3>4. Claimed(a, w, eligible) = s + p + e
      BY <2>1, <3>1 DEF Claimed
    <3>5. Reported(a, eligible) \in Int /\ Reported(r, eligible) \in Int /\ Reported(a, eligible) >= Reported(r, eligible)
      BY <1>1, <2>1 DEF Reported
    <3> HIDE DEF e
    <3> QED BY <3>1, <3>3, <3>4, <3>5
  <2>3. a.demand.observed => a.demand.requestAt =< a.previous
    <3>1. r.demand.requestAt \in Int
      BY <1>3 DEF Demands
    <3> QED BY <1>1, <1>3, <2>1, <3>1
  <2> QED BY <1>3, <2>1, <2>2, <2>3 DEF Claims
<1>8. CASE Blocked(r.state) /\ r.demand # Nothing
  <2> DEFINE q == [r.demand EXCEPT !.dirtyBusy = r.demand.dirtyBusy + sd, !.eligibleBusy = r.demand.eligibleBusy + se]
  <2>1. a = [r EXCEPT !.previous = s_now, !.dirtyBusy = r.dirtyBusy + cd, !.eligibleBusy = r.eligibleBusy + ce,
                      !.demand = q]
    BY <1>5, <1>6, <1>8
  <2>2. /\ q \in Demands /\ q.observed = r.demand.observed /\ q.requestAt = r.demand.requestAt
        /\ q.dirtyBusy = r.demand.dirtyBusy + sd /\ q.eligibleBusy = r.demand.eligibleBusy + se
    <3>1. r.demand.dirtyBusy + sd \in Nat /\ r.demand.eligibleBusy + se \in Nat
      <4>1. r.demand.dirtyBusy \in Nat /\ r.demand.eligibleBusy \in Nat
        BY <1>3 DEF Demands
      <4> QED BY <1>4, <4>1
    <3> QED BY <1>3, <3>1 DEF Demands
  <2> HIDE DEF q
  <2>3. /\ a.frames = r.frames /\ a.pending = r.pending /\ a.demand = q /\ a.previous = s_now
        /\ a.dirtyBusy = r.dirtyBusy + cd /\ a.eligibleBusy = r.eligibleBusy + ce
    BY <1>1, <2>1 DEF IsReplay
  <2>4. r.demand.observed /\ r.demand.requestAt \in Int /\ r.demand.requestAt =< r.previous
    BY <1>3, <1>8 DEF Demands
  <2>5. InTime(a, w) => InTime(r, w) /\ cd = sd /\ ce = se
    BY <1>1, <1>4, <2>2, <2>3, <2>4 DEF InTime
  <2>6. ASSUME NEW eligible \in BOOLEAN PROVE Claimed(a, w, eligible) =< Reported(a, eligible)
    <3>parts. PICK s \in Nat, p \in Nat, d \in Nat : Parts(r, w, eligible, s, p, d)
      BY <1>3, ClaimedParts
    <3>1. /\ s = SumOver(Waits(r.frames, eligible), KeptFrames(r.frames, w))
          /\ p = IF Early(r.pending, w) THEN Wait(r.pending, eligible) ELSE 0
          /\ d = IF InTime(r, w) THEN Wait(r.demand, eligible) ELSE 0
          /\ s + p + d =< Reported(r, eligible)
      BY <3>parts DEF Parts
    <3> DEFINE e == IF InTime(a, w) THEN Wait(a.demand, eligible) ELSE 0
               more == IF eligible THEN ce ELSE cd
               waits == IF eligible THEN se ELSE sd
    <3>2. more \in Nat /\ waits \in Nat /\ (InTime(a, w) => more = waits)
      BY <1>4, <2>5
    <3>3. Wait(q, eligible) = Wait(r.demand, eligible) + waits /\ Wait(r.demand, eligible) \in Nat
      BY <1>3, <2>2, WaitNat DEF Wait
    <3>4. Reported(a, eligible) = Reported(r, eligible) + more /\ Reported(r, eligible) \in Nat
      BY <1>1, <2>3 DEF Reported
    <3> HIDE DEF more, waits
    <3>5. e \in Nat /\ e =< d + more
      BY <2>3, <2>5, <3>1, <3>2, <3>3
    <3>6. Claimed(a, w, eligible) = s + p + e
      BY <2>3, <3>1 DEF Claimed
    <3> HIDE DEF e
    <3> QED BY <3>1, <3>2, <3>4, <3>5, <3>6
  <2>7. q.observed /\ q.requestAt =< s_now
    BY <1>1, <2>2, <2>4
  <2> QED BY <1>3, <2>2, <2>3, <2>6, <2>7 DEF Claims
<1> QED BY <1>7, <1>8

(* A request is the demand from now on, unless there is one. *)
LEMMA RequestClaims ==
  ASSUME NEW a, NEW q, NEW w, Claims(a, w), a.previous \in Int, NEW d,
         d = IF a.demand = Nothing THEN [Nothing EXCEPT !.requestAt = a.previous, !.observed = TRUE] ELSE a.demand,
         q.frames = a.frames, q.pending = a.pending, q.previous = a.previous, q.demand = d,
         q.dirtyBusy = a.dirtyBusy, q.eligibleBusy = a.eligibleBusy
  PROVE  Claims(q, w)
<1>1. CASE a.demand # Nothing
  BY <1>1, SameClaims
<1>2. CASE a.demand = Nothing
  <2>1. d = [Nothing EXCEPT !.requestAt = a.previous, !.observed = TRUE]
    BY <1>2
  <2>2. d \in Demands /\ d.observed = TRUE /\ d.requestAt = a.previous /\ d.dirtyBusy = 0 /\ d.eligibleBusy = 0
    BY <2>1, NothingClaims DEF Demands
  <2>3. ASSUME NEW eligible \in BOOLEAN PROVE Claimed(q, w, eligible) =< Reported(q, eligible)
    <3>parts. PICK s \in Nat, p \in Nat, e \in Nat : Parts(a, w, eligible, s, p, e)
      BY ClaimedParts
    <3>1. /\ s = SumOver(Waits(a.frames, eligible), KeptFrames(a.frames, w))
          /\ p = IF Early(a.pending, w) THEN Wait(a.pending, eligible) ELSE 0
          /\ e = IF InTime(a, w) THEN Wait(a.demand, eligible) ELSE 0
          /\ s + p + e =< Reported(a, eligible)
      BY <3>parts DEF Parts
    <3>2. ~InTime(a, w)
      BY <1>2, NothingClaims DEF InTime
    <3>3. Wait(d, eligible) = 0
      BY <2>2 DEF Wait
    <3>4. Claimed(q, w, eligible) = s + p + 0
      BY <3>1, <3>3 DEF Claimed
    <3>5. Reported(q, eligible) = Reported(a, eligible)
      BY DEF Reported
    <3>6. e = 0
      BY <3>1, <3>2
    <3> QED BY <3>1, <3>4, <3>5, <3>6
  <2> QED BY <2>2, <2>3 DEF Claims
<1> QED BY <1>1, <1>2

(* A frame takes the demand over, and what it waited. *)
LEMMA BeginClaims ==
  ASSUME NEW a, NEW q, NEW w, Claims(a, w), a.previous \in Int, w[2] \in Int,
         a.dirtyBusy \in Int, a.eligibleBusy \in Int, NEW p,
         p = [(IF a.demand = Nothing THEN [Nothing EXCEPT !.requestAt = a.previous] ELSE a.demand)
                EXCEPT !.prepareAt = a.previous],
         q.frames = a.frames, q.pending = p, q.previous = a.previous, q.demand = Nothing,
         q.dirtyBusy = a.dirtyBusy, q.eligibleBusy = a.eligibleBusy
  PROVE  Claims(q, w)
<1> DEFINE f == IF a.demand = Nothing THEN [Nothing EXCEPT !.requestAt = a.previous] ELSE a.demand
<1>1. f \in Demands /\ (a.demand # Nothing => f = a.demand) /\ (a.demand = Nothing => f.observed = FALSE)
  <2>1. CASE a.demand = Nothing
    <3>1. f = [Nothing EXCEPT !.requestAt = a.previous]
      BY <2>1
    <3>2. f \in Demands /\ f.observed = FALSE
      BY <3>1, NothingClaims DEF Demands
    <3> QED BY <2>1, <3>2
  <2>2. CASE a.demand # Nothing
    BY <2>2 DEF Claims
  <2> QED BY <2>1, <2>2
<1>2. p = [f EXCEPT !.prepareAt = a.previous]
  OBVIOUS
<1> HIDE DEF f
<1>3. /\ p \in Demands /\ p.observed = f.observed /\ p.requestAt = f.requestAt /\ p.prepareAt = a.previous
      /\ p.dirtyBusy = f.dirtyBusy /\ p.eligibleBusy = f.eligibleBusy
  BY <1>1, <1>2 DEF Demands
<1>4. Early(p, w) => InTime(a, w) /\ f = a.demand
  BY <1>1, <1>3 DEF Early, InTime
<1>5. ASSUME NEW eligible \in BOOLEAN PROVE Claimed(q, w, eligible) =< Reported(q, eligible)
  <2>parts. PICK s \in Nat, g \in Nat, e \in Nat : Parts(a, w, eligible, s, g, e)
    BY ClaimedParts
  <2>1. /\ s = SumOver(Waits(a.frames, eligible), KeptFrames(a.frames, w))
        /\ g = IF Early(a.pending, w) THEN Wait(a.pending, eligible) ELSE 0
        /\ e = IF InTime(a, w) THEN Wait(a.demand, eligible) ELSE 0
        /\ s + g + e =< Reported(a, eligible)
    BY <2>parts DEF Parts
  <2> DEFINE h == IF Early(p, w) THEN Wait(p, eligible) ELSE 0
  <2>2. Wait(p, eligible) = Wait(f, eligible) /\ Wait(p, eligible) \in Nat
    BY <1>3, WaitNat DEF Wait
  <2>3. h \in Nat /\ h =< e
    <3>1. CASE Early(p, w)
      <4>1. h = Wait(p, eligible) /\ e = Wait(f, eligible)
        BY <1>4, <2>1, <3>1
      <4> QED BY <2>2, <4>1
    <3>2. CASE ~Early(p, w)
      <4>1. h = 0
        BY <3>2
      <4> QED BY <2>1, <4>1
    <3> QED BY <3>1, <3>2
  <2>4. ~InTime(q, w)
    BY NothingClaims DEF InTime
  <2>5. Claimed(q, w, eligible) = s + h + 0
    BY <2>1, <2>4 DEF Claimed
  <2>6. Reported(q, eligible) = Reported(a, eligible) /\ Reported(a, eligible) \in Int
    BY DEF Reported
  <2> HIDE DEF h
  <2> QED BY <2>1, <2>3, <2>5, <2>6
<1> QED BY <1>3, <1>5, NothingClaims DEF Claims

(* The pending frame is known as a frame. *)
LEMMA EndClaims ==
  ASSUME NEW a, NEW q, NEW w, Claims(a, w),
         q.frames = Append(a.frames, a.pending), q.pending = Nothing, q.previous = a.previous, q.demand = a.demand,
         q.dirtyBusy = a.dirtyBusy, q.eligibleBusy = a.eligibleBusy
  PROVE  Claims(q, w)
<1> DEFINE n == Len(a.frames)
           kept == KeptFrames(a.frames, w)
           next == KeptFrames(q.frames, w)
<1>1. a.frames \in Seq(Demands) /\ a.pending \in Demands /\ a.demand \in Demands
  BY DEF Claims
<1>2. /\ n \in Nat /\ q.frames \in Seq(Demands) /\ Len(q.frames) = n + 1 /\ q.frames[n + 1] = a.pending
      /\ \A i \in 1 .. n : q.frames[i] = a.frames[i]
  BY <1>1
<1>3. next = IF Early(a.pending, w) THEN kept \cup {n + 1} ELSE kept
  <2>1. \A i : i \in 1 .. n + 1 <=> i \in 1 .. n \/ i = n + 1
    BY <1>2
  <2> HIDE DEF n
  <2> QED BY <1>2, <2>1 DEF KeptFrames, n
<1>4. n + 1 \notin kept /\ kept \subseteq 1 .. n
  BY <1>2 DEF KeptFrames
<1>5. ASSUME NEW eligible \in BOOLEAN PROVE Claimed(q, w, eligible) =< Reported(q, eligible)
  <2> DEFINE u == Waits(a.frames, eligible)
             v == Waits(q.frames, eligible)
  <2>parts. PICK s \in Nat, g \in Nat, e \in Nat : Parts(a, w, eligible, s, g, e)
    BY ClaimedParts
  <2>1. /\ s = SumOver(u, kept)
        /\ g = IF Early(a.pending, w) THEN Wait(a.pending, eligible) ELSE 0
        /\ e = IF InTime(a, w) THEN Wait(a.demand, eligible) ELSE 0
        /\ s + g + e =< Reported(a, eligible)
    BY <2>parts DEF Parts
  <2>2. /\ IsFiniteSet(kept)
        /\ \A i \in 1 .. n + 1 : v[i] \in Nat
    BY <1>1, <1>2, KeptSum
  <2>3. \A i \in kept : u[i] = v[i]
    <3>1. \A i \in 1 .. n : i \in 1 .. n + 1
      BY <1>2
    <3> QED BY <1>2, <1>4, <3>1 DEF Waits
  <2>4. v[n + 1] = Wait(a.pending, eligible)
    <3>1. n + 1 \in 1 .. n + 1
      BY <1>2
    <3> QED BY <1>2, <3>1 DEF Waits
  <2> HIDE DEF u, v, kept, next
  <2>5. SumOver(v, kept) = s
    BY <2>1, <2>2, <2>3, SumSame
  <2>6. SumOver(v, next) = s + g
    <3>1. CASE Early(a.pending, w)
      <4>1. \A i \in kept \cup {n + 1} : v[i] \in Nat
        <5>1. \A i \in kept \cup {n + 1} : i \in 1 .. n + 1
          BY <1>2, <1>4
        <5> QED BY <2>2, <5>1
      <4>2. SumOver(v, kept \cup {n + 1}) = v[n + 1] + SumOver(v, kept)
        BY <1>4, <2>2, <4>1, SumAdded
      <4>3. g = v[n + 1] /\ next = kept \cup {n + 1}
        BY <1>3, <2>1, <2>4, <3>1
      <4> QED BY <2>1, <2>5, <4>2, <4>3
    <3>2. CASE ~Early(a.pending, w)
      <4>1. g = 0 /\ next = kept
        BY <1>3, <2>1, <3>2
      <4> QED BY <2>1, <2>5, <4>1
    <3> QED BY <3>1, <3>2
  <2>7. ~Early(q.pending, w) /\ (InTime(q, w) <=> InTime(a, w))
    BY NothingClaims DEF InTime, Early
  <2>8. Claimed(q, w, eligible) = (s + g) + 0 + e
    BY <2>1, <2>6, <2>7 DEF Claimed, v, next
  <2>9. Reported(q, eligible) = Reported(a, eligible)
    BY DEF Reported
  <2> QED BY <2>1, <2>8, <2>9
<1> QED BY <1>1, <1>2, <1>5, NothingClaims DEF Claims

(* The completion of the last frame is noted. *)
LEMMA CompleteClaims ==
  ASSUME NEW a, NEW q, NEW w, NEW at \in Int, Claims(a, w),
         q.frames = [a.frames EXCEPT ![Len(a.frames)].completeEnd = at],
         q.pending = a.pending, q.previous = a.previous, q.demand = a.demand,
         q.dirtyBusy = a.dirtyBusy, q.eligibleBusy = a.eligibleBusy
  PROVE  Claims(q, w)
<1> DEFINE n == Len(a.frames)
           f == [a.frames[n] EXCEPT !.completeEnd = at]
<1>1. a.frames \in Seq(Demands) /\ n \in Nat
  BY DEF Claims
<1>2. q.frames = [a.frames EXCEPT ![n] = f]
  OBVIOUS
<1>3. n # 0 => /\ f \in Demands /\ f.observed = a.frames[n].observed /\ f.requestAt = a.frames[n].requestAt
               /\ f.dirtyBusy = a.frames[n].dirtyBusy /\ f.eligibleBusy = a.frames[n].eligibleBusy
               /\ f.prepareAt = a.frames[n].prepareAt
  <2>1. n # 0 => a.frames[n] \in Demands
    BY <1>1
  <2> QED BY <2>1 DEF Demands
<1> HIDE DEF f
<1>4. /\ q.frames \in Seq(Demands) /\ Len(q.frames) = n
      /\ \A i \in 1 .. n : q.frames[i] = IF i = n THEN f ELSE a.frames[i]
  <2> DEFINE frames == a.frames
             new == [frames EXCEPT ![n] = f]
  <2>1. frames \in Seq(Demands) /\ n = Len(frames) /\ n \in Nat /\ q.frames = new /\ (n # 0 => f \in Demands)
    BY <1>1, <1>2, <1>3
  <2> HIDE DEF frames, n
  <2>2. CASE n = 0
    <3>1. new = frames
      BY <2>1, <2>2
    <3> HIDE DEF new
    <3>2. q.frames \in Seq(Demands) /\ Len(q.frames) = n
      BY <2>1, <3>1
    <3>3. \A i \in 1 .. n : FALSE
      BY <2>2
    <3> QED BY <3>2, <3>3
  <2>3. CASE n # 0
    <3>1. n \in 1 .. Len(frames) /\ f \in Demands
      BY <2>1, <2>3
    <3>2. new \in Seq(Demands) /\ Len(new) = Len(frames)
          /\ \A i \in 1 .. Len(frames) : new[i] = IF i = n THEN f ELSE frames[i]
      BY <2>1, <3>1
    <3> HIDE DEF new
    <3> QED BY <2>1, <3>2 DEF frames
  <2> QED BY <2>2, <2>3
<1>5. ASSUME NEW i \in 1 .. n
      PROVE  /\ Early(q.frames[i], w) <=> Early(a.frames[i], w)
             /\ \A eligible \in BOOLEAN : Wait(q.frames[i], eligible) = Wait(a.frames[i], eligible)
  <2>1. n # 0
    BY <1>1
  <2> QED BY <1>3, <1>4, <2>1 DEF Early, Wait
<1>6. KeptFrames(q.frames, w) = KeptFrames(a.frames, w)
  BY <1>4, <1>5 DEF KeptFrames
<1>7. ASSUME NEW eligible \in BOOLEAN
      PROVE  Claimed(q, w, eligible) = Claimed(a, w, eligible) /\ Reported(q, eligible) = Reported(a, eligible)
  <2>1. Waits(q.frames, eligible) = Waits(a.frames, eligible)
    BY <1>4, <1>5 DEF Waits
  <2> QED BY <1>6, <2>1 DEF Claimed, InTime, Reported
<1> QED BY <1>4, <1>7 DEF Claims

(* The frames of a recording that has not begun. *)
Fresh == s_pc = "idle" => s_replay.frames = <<>> /\ s_replay.demand = Nothing /\ s_replay.pending = Nothing

ClaimsInv == Claims(s_replay, s_window) /\ Fresh

(* No event claims more than the totals hold. *)
LEMMA ClaimsStep == SlotInv /\ ClaimsInv /\ [SlotNext]_slotVars => ClaimsInv'
<1> SUFFICES ASSUME SlotInv, ClaimsInv, [SlotNext]_slotVars PROVE ClaimsInv'
  OBVIOUS
<1> DEFINE a == Account(s_replay)
<1>1. Claims(s_replay, s_window) /\ Fresh
  BY DEF ClaimsInv
<1>2. Claims(a, s_window)
  BY <1>1, AccountClaims
<1>3. /\ IsReplay(a) /\ a.previous = s_now /\ a.dirtyBusy \in Int /\ a.eligibleBusy \in Int
      /\ s_now \in Nat /\ s_window[2] \in Int
  <2>1. /\ IsReplay(a) /\ a.previous = s_now /\ a.dirtyBusy = s_blocked.dirty /\ a.eligibleBusy = s_blocked.eligible
        /\ s_blocked.dirty \in Nat /\ s_blocked.eligible \in Nat
    BY Accounted
  <2>2. s_now \in Nat /\ s_window \in Nat \X Nat
    BY DEF SlotInv, SlotTypeOK
  <2> QED BY <2>1, <2>2
<1> HIDE DEF a
<1>4. CASE MeasureStart
  <2>1. PICK dirty \in BOOLEAN, busy \in BOOLEAN :
          s_replay' = [s_replay EXCEPT !.state = s_view', !.frames = IF busy THEN <<Nothing>> ELSE <<>>]
    BY <1>4 DEF MeasureStart
  <2>2. s_pc = "idle" /\ s_pc' # "idle" /\ s_replay.demand = Nothing /\ s_replay.pending = Nothing
    BY <1>1, <1>4 DEF MeasureStart, Fresh
  <2>3. IsReplay(s_replay) /\ s_replay.dirtyBusy \in Nat /\ s_replay.eligibleBusy \in Nat
    BY DEF SlotInv, SlotTypeOK
  <2> DEFINE frames == IF busy THEN <<Nothing>> ELSE <<>>
  <2>4. /\ s_replay'.frames = frames /\ s_replay'.demand = Nothing /\ s_replay'.pending = Nothing
        /\ s_replay'.dirtyBusy = s_replay.dirtyBusy /\ s_replay'.eligibleBusy = s_replay.eligibleBusy
    BY <2>1, <2>2, <2>3 DEF IsReplay
  <2>5. frames \in Seq(Demands) /\ \A i \in 1 .. Len(frames) : frames[i] = Nothing
    <3>1. CASE busy
      BY <3>1, NothingClaims
    <3>2. CASE ~busy
      BY <3>2
    <3> QED BY <3>1, <3>2
  <2> HIDE DEF frames
  <2>6. KeptFrames(s_replay'.frames, s_window') = {}
    BY <2>4, <2>5, NothingClaims DEF KeptFrames, Early
  <2>7. ASSUME NEW eligible \in BOOLEAN PROVE Claimed(s_replay', s_window', eligible) =< Reported(s_replay', eligible)
    <3>1. SumOver(Waits(s_replay'.frames, eligible), {}) = 0
      BY SumNone
    <3>2. ~Early(s_replay'.pending, s_window') /\ ~InTime(s_replay', s_window')
      BY <2>4, NothingClaims DEF Early, InTime
    <3>3. Claimed(s_replay', s_window', eligible) = 0
      BY <2>6, <3>1, <3>2 DEF Claimed
    <3>4. Reported(s_replay', eligible) \in Nat
      BY <2>3, <2>4 DEF Reported
    <3> QED BY <3>3, <3>4
  <2>8. Claims(s_replay', s_window')
    BY <2>4, <2>5, <2>7, NothingClaims DEF Claims
  <2> QED BY <2>2, <2>8 DEF ClaimsInv, Fresh
<1>5. CASE SlotTick \/ UNCHANGED slotVars
  <2>1. s_pc' = s_pc /\ s_replay' = s_replay /\ s_window' = s_window
    BY <1>5 DEF SlotTick, slotVars
  <2> QED BY <1>1, <2>1 DEF ClaimsInv, Fresh
<1>6. CASE RequestDraw
  <2>1. s_pc' = s_pc /\ s_pc # "idle" /\ s_window' = s_window /\ ~s_view.closed
    BY <1>6 DEF RequestDraw, SlotInv
  <2> DEFINE read == [a EXCEPT !.state = s_view]
  <2>2. /\ WithState(s_replay) = read /\ read.state = s_view /\ IsReplay(read) /\ read.demand = a.demand
        /\ read.frames = a.frames /\ read.pending = a.pending
        /\ read.previous = a.previous /\ read.dirtyBusy = a.dirtyBusy /\ read.eligibleBusy = a.eligibleBusy
    BY <1>3 DEF WithState, a, IsReplay
  <2> HIDE DEF read
  <2> DEFINE d == IF a.demand = Nothing THEN [Nothing EXCEPT !.requestAt = s_now, !.observed = TRUE] ELSE a.demand
  <2>3. s_replay' = [read EXCEPT !.state.dirty = TRUE, !.demand = d]
    BY <1>6, <2>1, <2>2 DEF RequestDraw, OnRequest
  <2>4. d = IF a.demand = Nothing THEN [Nothing EXCEPT !.requestAt = a.previous, !.observed = TRUE] ELSE a.demand
    BY <1>3
  <2> HIDE DEF d
  <2>5. /\ s_replay'.demand = d /\ s_replay'.frames = a.frames /\ s_replay'.pending = a.pending
        /\ s_replay'.previous = a.previous /\ s_replay'.dirtyBusy = a.dirtyBusy /\ s_replay'.eligibleBusy = a.eligibleBusy
    BY <2>2, <2>3 DEF IsReplay
  <2>6. Claims(s_replay', s_window)
    <3> DEFINE q == s_replay'
    <3>1. a.previous \in Int
      BY <1>3
    <3>2. /\ q.frames = a.frames /\ q.pending = a.pending /\ q.previous = a.previous /\ q.demand = d
          /\ q.dirtyBusy = a.dirtyBusy /\ q.eligibleBusy = a.eligibleBusy
      BY <2>5
    <3> HIDE DEF q
    <3>3. Claims(q, s_window)
      BY <1>2, <2>4, <3>1, <3>2, RequestClaims
    <3> QED BY <3>3 DEF q
  <2> QED BY <2>1, <2>6 DEF ClaimsInv, Fresh
<1>7. CASE Occlude \/ Submit \/ CompleteFrame \/ CloseWindow \/ Joined
  <2>1. s_window' = s_window /\ s_pc' # "idle"
    <3>1. s_pc # "idle" \/ s_pc' # "idle"
      BY <1>7 DEF Occlude, Submit, CompleteFrame, CloseWindow, Joined, SlotInv
    <3> QED BY <1>7, <3>1 DEF Occlude, Submit, CompleteFrame, CloseWindow, Joined
  <2>2. \E state : s_replay' = [a EXCEPT !.state = state]
    <3>1. CASE Occlude
      BY <3>1 DEF Occlude, a
    <3>2. CASE Submit
      BY <3>2 DEF Submit, OnWaitBegin, a
    <3>3. CASE CompleteFrame
      BY <3>3 DEF CompleteFrame, OnCompleteBegin, a
    <3>4. CASE CloseWindow
      BY <3>4 DEF CloseWindow, OnCloseBegin, WithState, a
    <3>5. CASE Joined
      BY <3>5 DEF Joined, WithState, a
    <3> QED BY <1>7, <3>1, <3>2, <3>3, <3>4, <3>5
  <2>3. /\ s_replay'.demand = a.demand /\ s_replay'.frames = a.frames /\ s_replay'.pending = a.pending
        /\ s_replay'.previous = a.previous /\ s_replay'.dirtyBusy = a.dirtyBusy /\ s_replay'.eligibleBusy = a.eligibleBusy
    BY <1>3, <2>2 DEF IsReplay
  <2>4. Claims(s_replay', s_window)
    BY <1>2, <2>3, SameClaims
  <2> QED BY <2>1, <2>4 DEF ClaimsInv, Fresh
<1>8. CASE Prepare
  <2>1. s_pc' = s_pc /\ s_pc # "idle" /\ s_window' = s_window /\ s_replay' = OnPrepareBegin(s_replay)
    BY <1>8 DEF Prepare
  <2> DEFINE p == [(IF a.demand = Nothing THEN [Nothing EXCEPT !.requestAt = s_now] ELSE a.demand)
                     EXCEPT !.prepareAt = s_now]
  <2>2. s_replay' = [a EXCEPT !.state.dirty = FALSE, !.demand = Nothing, !.pending = p]
    BY <2>1 DEF OnPrepareBegin, a
  <2>3. p = [(IF a.demand = Nothing THEN [Nothing EXCEPT !.requestAt = a.previous] ELSE a.demand)
               EXCEPT !.prepareAt = a.previous]
    BY <1>3
  <2> HIDE DEF p
  <2>4. /\ s_replay'.demand = Nothing /\ s_replay'.frames = a.frames /\ s_replay'.pending = p
        /\ s_replay'.previous = a.previous /\ s_replay'.dirtyBusy = a.dirtyBusy /\ s_replay'.eligibleBusy = a.eligibleBusy
    BY <1>3, <2>2 DEF IsReplay
  <2>5. Claims(s_replay', s_window)
    BY <1>2, <1>3, <2>3, <2>4, BeginClaims
  <2> QED BY <2>1, <2>5 DEF ClaimsInv, Fresh
<1>9. CASE Prepared
  <2>1. s_pc' = s_pc /\ s_pc # "idle" /\ s_window' = s_window /\ s_replay' = OnPrepareEnd(s_replay)
    BY <1>9 DEF Prepared, SlotInv
  <2>2. s_replay' = [a EXCEPT !.frames = Append(a.frames, a.pending), !.pending = Nothing]
    BY <2>1 DEF OnPrepareEnd, a
  <2>3. /\ s_replay'.demand = a.demand /\ s_replay'.frames = Append(a.frames, a.pending) /\ s_replay'.pending = Nothing
        /\ s_replay'.previous = a.previous /\ s_replay'.dirtyBusy = a.dirtyBusy /\ s_replay'.eligibleBusy = a.eligibleBusy
    BY <1>3, <2>2 DEF IsReplay
  <2>4. Claims(s_replay', s_window)
    BY <1>2, <2>3, EndClaims
  <2> QED BY <2>1, <2>4 DEF ClaimsInv, Fresh
<1>10. CASE Completed
  <2>1. s_pc' = s_pc /\ s_pc # "idle" /\ s_window' = s_window /\ s_replay' = OnCompleteEnd(s_replay)
    BY <1>10 DEF Completed, SlotInv
  <2> DEFINE f == [a.frames EXCEPT ![Len(a.frames)].completeEnd = s_now]
  <2>2. s_replay' = [a EXCEPT !.frames[Len(a.frames)].completeEnd = s_now]
    BY <2>1 DEF OnCompleteEnd, a
  <2>3. s_replay' = [a EXCEPT !.frames = f]
    BY <2>2
  <2>4. f = [a.frames EXCEPT ![Len(a.frames)].completeEnd = s_now]
    OBVIOUS
  <2> HIDE DEF f
  <2>5. /\ s_replay'.demand = a.demand /\ s_replay'.frames = f /\ s_replay'.pending = a.pending
        /\ s_replay'.previous = a.previous /\ s_replay'.dirtyBusy = a.dirtyBusy /\ s_replay'.eligibleBusy = a.eligibleBusy
    BY <1>3, <2>3 DEF IsReplay
  <2>6. Claims(s_replay', s_window)
    <3>1. s_now \in Int /\ s_replay'.frames = [a.frames EXCEPT ![Len(a.frames)].completeEnd = s_now]
      BY <1>3, <2>4, <2>5
    <3> QED BY <1>2, <2>5, <3>1, CompleteClaims
  <2> QED BY <2>1, <2>6 DEF ClaimsInv, Fresh
<1> QED
  BY <1>4, <1>5, <1>6, <1>7, <1>8, <1>9, <1>10 DEF SlotNext

(* The sums of a windowed report are sums over the waits. *)
DirtySum(frames, S) == MapThenSumSet(LAMBDA i : frames[i].dirtyBusy, S)
EligibleSum(frames, S) == MapThenSumSet(LAMBDA i : frames[i].eligibleBusy, S)

(* Each is the sum of its column. *)
LEMMA FrameSums ==
  ASSUME NEW frames \in Seq(Demands), NEW S, S \subseteq 1 .. Len(frames)
  PROVE  DirtySum(frames, S) = SumOver(Waits(frames, FALSE), S) /\ EligibleSum(frames, S) = SumOver(Waits(frames, TRUE), S)
<1>1. IsFiniteSet(S)
  <2>1. IsFiniteSet(1 .. Len(frames))
    BY FS_Interval
  <2> QED BY <2>1, FS_Subset
<1>2. \A s \in SUBSET S : s # {} => AnyOf(s) \in 1 .. Len(frames)
  BY DEF AnyOf
<1>3. DirtySum(frames, S) = SumOver(Waits(frames, FALSE), S)
  <2> DEFINE w == Waits(frames, FALSE)
             Eq(g) == g = [s \in SUBSET S |-> IF s = {} THEN 0 ELSE frames[AnyOf(s)].dirtyBusy + g[s \ {AnyOf(s)}]]
             g == CHOOSE g : Eq(g)
  <2>1. \A s \in SUBSET S : s # {} => w[AnyOf(s)] = frames[AnyOf(s)].dirtyBusy
    BY <1>2 DEF Waits, Wait
  <2> HIDE DEF w
  <2>2. ASSUME NEW h PROVE Eq(h) <=> Sums(h, w, S)
    <3>1. [s \in SUBSET S |-> IF s = {} THEN 0 ELSE frames[AnyOf(s)].dirtyBusy + h[s \ {AnyOf(s)}]]
            = [s \in SUBSET S |-> IF s = {} THEN 0 ELSE w[AnyOf(s)] + h[s \ {AnyOf(s)}]]
      BY <2>1
    <3> QED BY <3>1 DEF Sums
  <2>3. DirtySum(frames, S) = g[S]
    BY DEF DirtySum, MapThenSumSet, MapThenFoldSet, AnyOf
  <2>4. \E h : Sums(h, w, S)
    BY <1>1, SumsExist
  <2> HIDE DEF Eq
  <2>5. Eq(g)
    BY <2>2, <2>4
  <2> HIDE DEF g
  <2> QED BY <1>1, <2>2, <2>3, <2>5, SumIs DEF w
<1>4. EligibleSum(frames, S) = SumOver(Waits(frames, TRUE), S)
  <2> DEFINE w == Waits(frames, TRUE)
             Eq(g) == g = [s \in SUBSET S |-> IF s = {} THEN 0 ELSE frames[AnyOf(s)].eligibleBusy + g[s \ {AnyOf(s)}]]
             g == CHOOSE g : Eq(g)
  <2>1. \A s \in SUBSET S : s # {} => w[AnyOf(s)] = frames[AnyOf(s)].eligibleBusy
    BY <1>2 DEF Waits, Wait
  <2> HIDE DEF w
  <2>2. ASSUME NEW h PROVE Eq(h) <=> Sums(h, w, S)
    <3>1. [s \in SUBSET S |-> IF s = {} THEN 0 ELSE frames[AnyOf(s)].eligibleBusy + h[s \ {AnyOf(s)}]]
            = [s \in SUBSET S |-> IF s = {} THEN 0 ELSE w[AnyOf(s)] + h[s \ {AnyOf(s)}]]
      BY <2>1
    <3> QED BY <3>1 DEF Sums
  <2>3. EligibleSum(frames, S) = g[S]
    BY DEF EligibleSum, MapThenSumSet, MapThenFoldSet, AnyOf
  <2>4. \E h : Sums(h, w, S)
    BY <1>1, SumsExist
  <2> HIDE DEF Eq
  <2>5. Eq(g)
    BY <2>2, <2>4
  <2> HIDE DEF g
  <2> QED BY <1>1, <2>2, <2>3, <2>5, SumIs DEF w
<1> QED BY <1>3, <1>4

(* The frames of a report are kept ones, so they waited no more than the   *)
(* totals say.                                                             *)
LEMMA ContainedWithin ==
  ASSUME NEW r, Claims(r, s_window), r.dirtyBusy \in Nat, r.eligibleBusy \in Nat
  PROVE  DirtySum(r.frames, Contained(r)) =< r.dirtyBusy /\ EligibleSum(r.frames, Contained(r)) =< r.eligibleBusy
<1> DEFINE S == Contained(r)
           kept == KeptFrames(r.frames, s_window)
<1>1. r.frames \in Seq(Demands)
  BY DEF Claims
<1>2. S \subseteq kept /\ kept \subseteq 1 .. Len(r.frames)
  BY <1>1 DEF Contained, KeptFrames, Early
<1>3. ASSUME NEW eligible \in BOOLEAN PROVE SumOver(Waits(r.frames, eligible), S) =< Reported(r, eligible)
  <2> DEFINE u == Waits(r.frames, eligible)
  <2>0. Claims(r, s_window) /\ eligible \in BOOLEAN
    OBVIOUS
  <2>1. IsFiniteSet(kept) /\ \A i \in kept : u[i] \in Nat
    BY <1>1, <1>2, KeptSum
  <2>parts. PICK s \in Nat, p \in Nat, d \in Nat : Parts(r, s_window, eligible, s, p, d)
    BY <2>0, ClaimedParts
  <2>2. /\ s = SumOver(Waits(r.frames, eligible), KeptFrames(r.frames, s_window))
        /\ p = IF Early(r.pending, s_window) THEN Wait(r.pending, eligible) ELSE 0
        /\ d = IF InTime(r, s_window) THEN Wait(r.demand, eligible) ELSE 0
        /\ s + p + d =< Reported(r, eligible)
    BY <2>parts DEF Parts
  <2>3. Reported(r, eligible) \in Nat /\ s = SumOver(u, kept)
    BY <2>2 DEF Reported
  <2> HIDE DEF u, S, kept
  <2>4. SumOver(u, S) \in Nat /\ SumOver(u, S) =< s
    BY <1>2, <2>1, <2>3, SumWithin
  <2>5. s =< Reported(r, eligible)
    BY <2>2, <2>3
  <2> QED BY <2>3, <2>4, <2>5 DEF u
<1>4. Reported(r, FALSE) = r.dirtyBusy /\ Reported(r, TRUE) = r.eligibleBusy
  BY DEF Reported
<1>5. S \subseteq 1 .. Len(r.frames)
  BY <1>2
<1> HIDE DEF S
<1>6. DirtySum(r.frames, S) = SumOver(Waits(r.frames, FALSE), S) /\ EligibleSum(r.frames, S) = SumOver(Waits(r.frames, TRUE), S)
  BY <1>1, <1>5, FrameSums
<1>7. SumOver(Waits(r.frames, FALSE), S) =< Reported(r, FALSE) /\ SumOver(Waits(r.frames, TRUE), S) =< Reported(r, TRUE)
  BY <1>3
<1> QED BY <1>4, <1>6, <1>7 DEF S

(* However the window cuts the intervals and whatever was recorded before  *)
(* it, a windowed report is exact, and the frames it contains waited no    *)
(* more than its totals say, for recordings of any length and any number   *)
(* of frames.                                                              *)
THEOREM SlotWindowedTotals == ToolsSpec => []WindowedTotals
<1>1. ToolsInit => ClaimsInv
  <2> SUFFICES ASSUME SlotInit PROVE ClaimsInv
    BY DEF ToolsInit
  <2>1. /\ s_replay.frames = <<>> /\ s_replay.demand = Nothing /\ s_replay.pending = Nothing
        /\ s_replay.dirtyBusy = 0 /\ s_replay.eligibleBusy = 0
    BY DEF SlotInit
  <2>2. ASSUME NEW eligible \in BOOLEAN PROVE Claimed(s_replay, s_window, eligible) =< Reported(s_replay, eligible)
    <3>1. KeptFrames(s_replay.frames, s_window) = {}
      BY <2>1 DEF KeptFrames
    <3>2. SumOver(Waits(s_replay.frames, eligible), {}) = 0
      BY SumNone
    <3>3. ~Early(s_replay.pending, s_window) /\ ~InTime(s_replay, s_window)
      BY <2>1, NothingClaims DEF Early, InTime
    <3>4. Claimed(s_replay, s_window, eligible) = 0
      BY <3>1, <3>2, <3>3 DEF Claimed
    <3> QED BY <2>1, <3>4 DEF Reported
  <2>3. <<>> \in Seq(Demands)
    OBVIOUS
  <2>4. Claims(s_replay, s_window)
    BY <2>1, <2>2, <2>3, NothingClaims DEF Claims
  <2> QED BY <2>1, <2>4 DEF ClaimsInv, Fresh
<1>2. [ToolsNext]_toolVars => [SlotNext]_slotVars
  BY DEF ToolsNext, toolVars, Placement, Gate, Native, Echo, Throughput, Isolated, Pacer, Slot, Machine
<1>3. (s_pc = "closed" => TotalsExact) /\ SlotInv /\ ClaimsInv => WindowedTotals
  <2> SUFFICES ASSUME TotalsExact, SlotInv, ClaimsInv, s_pc = "closed" PROVE WindowedTotals
    BY DEF WindowedTotals
  <2>1. /\ DirtySum(s_replay.frames, Contained(s_replay)) =< s_replay.dirtyBusy
        /\ EligibleSum(s_replay.frames, Contained(s_replay)) =< s_replay.eligibleBusy
    <3>1. Claims(s_replay, s_window) /\ s_replay.dirtyBusy \in Nat /\ s_replay.eligibleBusy \in Nat
      BY DEF ClaimsInv, SlotInv, SlotTypeOK
    <3> QED BY <3>1, ContainedWithin
  <2>2. /\ DirtySum(s_replay.frames, Contained(s_replay)) =< s_blocked.dirty
        /\ EligibleSum(s_replay.frames, Contained(s_replay)) =< s_blocked.eligible
    BY <2>1 DEF TotalsExact
  <2>3. /\ MapThenSumSet(LAMBDA i : s_replay.frames[i].dirtyBusy, Contained(s_replay)) <= s_blocked.dirty
        /\ MapThenSumSet(LAMBDA i : s_replay.frames[i].eligibleBusy, Contained(s_replay)) <= s_blocked.eligible
    BY <2>2 DEF DirtySum, EligibleSum, MapThenSumSet, MapThenFoldSet
  <2> QED BY <2>3 DEF WindowedTotals
<1> QED BY <1>1, <1>2, <1>3, ClaimsStep, SlotHolds, SlotTotalsExact, PTL DEF ToolsSpec

--------------------------------------------------------------------------------
(* The visible bytes of a read, and the tokens of a cycle (EchoProbe).     *)

(* The recursive function by which the library joins sequences. *)
Joins(f, s, n) == f = [i \in 1 .. n |-> IF i = 1 THEN s[i] ELSE f[i - 1] \o s[i]]

(* For any number of sequences there is one. *)
LEMMA JoinsExist ==
  ASSUME NEW s
  PROVE  \A n \in Nat : \E f : Joins(f, s, n)
<1> DEFINE T == {n \in Nat : ~\E f : Joins(f, s, n)}
<1> SUFFICES ASSUME T # {} PROVE FALSE
  OBVIOUS
<1>1. T \in SUBSET Nat /\ \A n \in Nat : n \in T <=> ~\E f : Joins(f, s, n)
  OBVIOUS
<1> HIDE DEF T
<1>2. PICK n \in T : \A m \in T : n =< m
  BY <1>1, LeastNumber
<1>3. n \in Nat /\ ~\E f : Joins(f, s, n)
  BY <1>1, <1>2
<1>4. CASE n = 0
  <2> DEFINE f == [i \in 1 .. 0 |-> s]
  <2>1. f = [i \in 1 .. 0 |-> IF i = 1 THEN s[i] ELSE f[i - 1] \o s[i]]
    OBVIOUS
  <2> HIDE DEF f
  <2>2. Joins(f, s, 0)
    BY <2>1 DEF Joins
  <2> QED BY <1>3, <1>4, <2>2
<1>5. CASE n # 0
  <2>1. n - 1 \in Nat /\ n - 1 \notin T
    BY <1>2, <1>3, <1>5
  <2>2. PICK f : Joins(f, s, n - 1)
    BY <1>1, <2>1
  <2> DEFINE e == [i \in 1 .. n |-> IF i = n THEN (IF i = 1 THEN s[i] ELSE f[i - 1] \o s[i]) ELSE f[i]]
  <2>3. \A i \in 1 .. n - 1 : f[i] = IF i = 1 THEN s[i] ELSE f[i - 1] \o s[i]
    BY <2>2 DEF Joins
  <2>4. ASSUME NEW i \in 1 .. n PROVE e[i] = IF i = 1 THEN s[i] ELSE e[i - 1] \o s[i]
    <3>1. i # 1 => i - 1 \in 1 .. n /\ i - 1 # n
      BY <1>3
    <3>2. i # 1 => e[i - 1] = f[i - 1]
      BY <3>1
    <3>3. CASE i = n
      BY <3>2, <3>3
    <3>4. CASE i # n
      <4>1. i \in 1 .. n - 1 /\ e[i] = f[i]
        BY <1>3, <3>4
      <4> HIDE DEF e
      <4> QED BY <2>3, <3>2, <4>1
    <3> QED BY <3>3, <3>4
  <2>5. e = [i \in 1 .. n |-> e[i]]
    OBVIOUS
  <2> HIDE DEF e
  <2>6. Joins(e, s, n)
    BY <2>4, <2>5 DEF Joins
  <2> QED BY <1>3, <2>6
<1> QED BY <1>4, <1>5

(* What is in a joined sequence is in one of its parts. *)
PartOf(x, s) == \E k \in 1 .. Len(s) : \E l \in 1 .. Len(s[k]) : x = s[k][l]

(* A joined sequence holds nothing that its parts do not. *)
LEMMA FlattenParts ==
  ASSUME NEW S, NEW s \in Seq(Seq(S)), NEW t, t = FlattenSeq(s)
  PROVE  t \in Seq(S) /\ \A j \in 1 .. Len(t) : PartOf(t[j], s)
<1> DEFINE n == Len(s)
<1>1. n \in Nat /\ \A k \in 1 .. n : s[k] \in Seq(S)
  OBVIOUS
<1>2. CASE n = 0
  <2>1. t = s /\ s = <<>>
    BY <1>2 DEF FlattenSeq
  <2>2. t \in Seq(S) /\ Len(t) = 0
    BY <2>1
  <2> QED BY <2>2
<1>3. CASE n # 0
  <2> DEFINE f == CHOOSE f : Joins(f, s, n)
             InPart(x, k) == \E l \in 1 .. Len(s[k]) : x = s[k][l]
             Good(i) == f[i] \in Seq(S) /\ \A j \in 1 .. Len(f[i]) : \E k \in 1 .. n : InPart(f[i][j], k)
  <2>1. Joins(f, s, n)
    BY <1>1, JoinsExist
  <2>2. t = f[n]
    BY <1>3 DEF FlattenSeq, Joins
  <2> HIDE DEF f
  <2>3. \A i \in 1 .. n : f[i] = IF i = 1 THEN s[i] ELSE f[i - 1] \o s[i]
    BY <2>1 DEF Joins
  <2> DEFINE T == {i \in 1 .. n : ~Good(i)}
  <2>4. T = {}
    <3> SUFFICES ASSUME T # {} PROVE FALSE
      OBVIOUS
    <3>1. T \in SUBSET Nat /\ \A i \in 1 .. n : i \in T <=> ~Good(i)
      <4> HIDE DEF Good, n
      <4> QED BY <1>1
    <3>2. \A i \in T : i \in 1 .. n
      OBVIOUS
    <3> HIDE DEF T
    <3>3. PICK i \in T : \A m \in T : i =< m
      BY <3>1, LeastNumber
    <3>4. i \in 1 .. n /\ ~Good(i) /\ s[i] \in Seq(S)
      BY <1>1, <3>1, <3>2, <3>3
    <3>5. \A j \in 1 .. Len(s[i]) : InPart(s[i][j], i)
      OBVIOUS
    <3>6. i # 1
      <4> SUFFICES ASSUME i = 1 PROVE FALSE
        OBVIOUS
      <4>1. f[i] = s[i]
        BY <2>3, <3>4
      <4> HIDE DEF InPart
      <4> QED BY <3>4, <3>5, <4>1
    <3>7. i - 1 \in 1 .. n /\ i - 1 < i
      BY <1>1, <3>4, <3>6
    <3>8. Good(i - 1)
      <4> HIDE DEF Good
      <4> QED BY <3>1, <3>2, <3>3, <3>7
    <3> DEFINE g == f[i - 1]
               h == s[i]
    <3>9. g \in Seq(S) /\ h \in Seq(S) /\ f[i] = g \o h
      BY <2>3, <3>4, <3>6, <3>8
    <3>10. \A j \in 1 .. Len(g) : \E k \in 1 .. n : InPart(g[j], k)
      BY <3>8
    <3>11. \A j \in 1 .. Len(h) : InPart(h[j], i)
      BY <3>5
    <3> HIDE DEF g, h, InPart
    <3>12. ASSUME NEW j \in 1 .. Len(g \o h) PROVE \E k \in 1 .. n : InPart((g \o h)[j], k)
      <4>1. CASE j =< Len(g)
        <5>1. j \in 1 .. Len(g) /\ (g \o h)[j] = g[j]
          BY <3>9, <4>1
        <5> QED BY <3>10, <5>1
      <4>2. CASE ~(j =< Len(g))
        <5>1. j - Len(g) \in 1 .. Len(h) /\ (g \o h)[j] = h[j - Len(g)]
          BY <3>9, <4>2
        <5> QED BY <3>4, <3>11, <5>1
      <4> QED BY <4>1, <4>2
    <3>13. f[i] \in Seq(S)
      BY <3>9
    <3> QED BY <3>4, <3>9, <3>12, <3>13
  <2>5. n \in 1 .. n
    BY <1>1, <1>3
  <2>6. Good(n)
    BY <2>4, <2>5
  <2>7. t \in Seq(S) /\ \A j \in 1 .. Len(t) : \E k \in 1 .. n : InPart(t[j], k)
    <3> HIDE DEF InPart, n
    <3>1. f[n] \in Seq(S) /\ \A j \in 1 .. Len(f[n]) : \E k \in 1 .. n : InPart(f[n][j], k)
      BY <2>6
    <3> HIDE DEF Good
    <3> QED BY <2>2, <3>1
  <2> QED BY <2>7 DEF PartOf
<1> QED BY <1>2, <1>3

(* A selected element passes its test. *)
LEMMA FirstOf ==
  ASSUME NEW I \in SUBSET Nat, I # {}
  PROVE  Min(I) \in I /\ \A i \in I : Min(I) =< i
<1>1. PICK n \in I : \A m \in I : n =< m
  BY LeastNumber
<1> QED BY <1>1 DEF Min

(* Two samples of one token are at least a cycle of tokens apart. *)
LEMMA CycleApart ==
  ASSUME NEW o \in Nat, NEW i \in Nat, 1 =< o, o < i, TokenOf(o) = TokenOf(i)
  PROVE  o =< i - Len(Tokens)
<1> DEFINE n == Len(Tokens)
           a == o - 1
           b == i - 1
<1>1. Tokens \in Seq(Seq(STRING)) /\ n \in Nat \ {0} /\ IsInjective(Tokens)
  BY EchoAssumption
<1>2. a \in Nat /\ b \in Nat /\ a < b
  OBVIOUS
<1>3. /\ a \div n \in Nat /\ a % n \in 0 .. n - 1 /\ a = n * (a \div n) + (a % n)
      /\ b \div n \in Nat /\ b % n \in 0 .. n - 1 /\ b = n * (b \div n) + (b % n)
  BY <1>1, <1>2, Division
<1>4. a % n = b % n
  <2>1. (a % n) + 1 \in 1 .. n /\ (b % n) + 1 \in 1 .. n
    <3> HIDE DEF n
    <3> QED BY <1>1, <1>3
  <2>2. Tokens[(a % n) + 1] = Tokens[(b % n) + 1]
    BY DEF TokenOf
  <2>3. DOMAIN Tokens = 1 .. n
    BY <1>1
  <2>4. (a % n) + 1 = (b % n) + 1
    <3> HIDE DEF n
    <3> QED BY <1>1, <2>1, <2>2, <2>3 DEF IsInjective
  <2> HIDE DEF n, a, b
  <2> QED BY <1>3, <2>4
<1> DEFINE q == a \div n
           p == b \div n
           r == a % n
<1>5. q \in Nat /\ p \in Nat /\ r \in Nat /\ a = n * q + r /\ b = n * p + r
  BY <1>1, <1>3, <1>4
<1>6. n * q \in Nat /\ n * p \in Nat
  BY <1>1, <1>5, ProductNat
<1> HIDE DEF q, p, r
<1>7. q < p
  <2> SUFFICES ASSUME p =< q PROVE FALSE
    BY <1>5
  <2>1. n * p =< n * q
    BY <1>1, <1>5, ProductOrder
  <2> HIDE DEF n, a, b
  <2> QED BY <1>2, <1>5, <1>6, <2>1
<1>8. n * q + n =< n * p
  BY <1>1, <1>5, <1>7, QuotientOrder
<1>9. a + n =< b
  <2> HIDE DEF n, a, b
  <2> QED BY <1>1, <1>2, <1>5, <1>6, <1>8
<1> QED BY <1>1, <1>9

Cells == [sample : Nat, at : Nat]
Input == [sample : Nat, at : Nat \ {0}, erase : BOOLEAN]
Frame == [paints : Seq(Cells), line : Seq(Cells), of : Nat]
Entry == [kind : {"input", "frame"}, sample : Nat, erase : BOOLEAN]

(* What is in flight between probe and multiplexer keeps its order. *)
Stream(in, out, top) ==
  /\ in \in Seq(Input) /\ out \in Seq(Frame) /\ top \in Nat
  /\ \A j \in 1 .. Len(in) : in[j].sample \in 1 .. top
  /\ \A k \in 1 .. Len(out) : out[k].of \in 1 .. top
  /\ \A i, j \in 1 .. Len(in) : i < j => in[i].sample =< in[j].sample
  /\ \A i, k \in 1 .. Len(out) : i < k => out[i].of =< out[k].of
  /\ \A k \in 1 .. Len(out), j \in 1 .. Len(in) : out[k].of =< in[j].sample

(* A sample between what is painted and what is still to be echoed. *)
Between(in, out, s) ==
  /\ \A k \in 1 .. Len(out) : out[k].of =< s
  /\ \A j \in 1 .. Len(in) : s =< in[j].sample

(* The length of the line before an input and after it. *)
Before(x) == IF x.erase THEN x.at ELSE x.at - 1
Leaves(x) == IF x.erase THEN x.at - 1 ELSE x.at

LineOf(line, s) == \A l \in 1 .. Len(line) : line[l].sample = s

(* Each input finds the line as the one before leaves it, and a line that  *)
(* is not empty belongs to one sample: from the line to what is owed.      *)
Chain(in, line, owed, top) ==
  /\ in = <<>> => Len(line) = owed /\ LineOf(line, top)
  /\ in # <<>> => /\ Before(in[1]) = Len(line) /\ LineOf(line, in[1].sample)
                  /\ Leaves(in[Len(in)]) = owed /\ (0 < owed => in[Len(in)].sample = top)
  /\ \A j \in 1 .. Len(in) - 1 :
       Leaves(in[j]) = Before(in[j + 1]) /\ (0 < Leaves(in[j]) => in[j].sample = in[j + 1].sample)

(* What the inputs sent at once make of the line. *)
Block(b, owed, next, top) ==
  /\ b \in Seq(Input) /\ b # <<>> /\ Before(b[1]) = owed /\ Leaves(b[Len(b)]) = next
  /\ \A j \in 1 .. Len(b) : b[j].sample = top
  /\ \A j \in 1 .. Len(b) - 1 : Leaves(b[j]) = Before(b[j + 1])

(* Nothing of a sample before m can be read any more. *)
NoEarlier(in, out, line, m) ==
  /\ \A k \in 1 .. Len(out) : m =< out[k].of
  /\ \A j \in 1 .. Len(in) : m =< in[j].sample
  /\ \A l \in 1 .. Len(line) : m =< line[l].sample

(* The samples whose token was sent, and the line once all is echoed. *)
Sent == IF e_pc = "gap" THEN e_sample ELSE e_sample - 1
Owed == IF e_pc = "waiting" THEN TextLen(e_sample) ELSE 0

(* Every frame paints cells of one sample, and the line has one between    *)
(* what is painted and what is still to be echoed.                         *)
OneToken(out) == \A k \in 1 .. Len(out) : LineOf(out[k].paints, out[k].of)
LineFits(in, out, line, top) ==
  line \in Seq(Cells) /\ \A l \in 1 .. Len(line) : Between(in, out, line[l].sample) /\ line[l].sample \in 1 .. top

(* Cells that nothing still to be read precedes. *)
Reached(cells, in, out, line, top) ==
  cells \in Seq(Cells) /\ \A c \in 1 .. Len(cells) : cells[c].sample \in 1 .. top /\ NoEarlier(in, out, line, cells[c].sample)

(* Cells that are no earlier than what a sample was counted on. *)
InOrder(origin, cells) == \A k \in 1 .. Len(origin), c \in 1 .. Len(cells) : origin[k].sample =< cells[c].sample

(* The token probe: once a sample was counted on a cell, nothing earlier   *)
(* can be read, and the buffer has nothing earlier.                        *)
Flight(in, out, line, owed, top, origin) ==
  /\ Stream(in, out, top) /\ OneToken(out) /\ LineFits(in, out, line, top) /\ Chain(in, line, owed, top)
  /\ \A m \in DOMAIN origin : Reached(origin[m], in, out, line, m)
Buffered(buf, in, out, line, top, origin) ==
  Reached(buf, in, out, line, top) /\ \A m \in DOMAIN origin : InOrder(origin[m], buf)
TokensOK ==
  /\ DOMAIN e_origin = 1 .. Sent
  /\ Flight(e_in, e_out, e_line, Owed, e_sample, e_origin)
  /\ e_pc = "waiting" => Buffered(e_buf, e_in, e_out, e_line, e_sample, e_origin)

(* A byte is typed, or the one before is erased. *)
Press(s) == [sample |-> s, at |-> 1, erase |-> FALSE]
Backspace(s) == [sample |-> s, at |-> 1, erase |-> TRUE]

(* exchange() leaves nothing in flight behind: what is in flight belongs   *)
(* to the sample.                                                          *)
Shows(out, c) == \A k \in 1 .. Len(out) : out[k].line = <<c>>
Clears(out, c) == \A k \in 1 .. Len(out) : out[k].line = <<c>> \/ (out[k].line = <<>> /\ k = Len(out))
OwnCells(origin) == \A i \in DOMAIN origin : LineOf(origin[i], i)
VerifiedOK ==
  LET tilde == Cell(e_sample, 1)
  IN /\ OwnCells(e_origin)
     /\ e_pc \in {"ready", "gap"} => e_in = <<>> /\ e_line = <<>> /\ e_out = <<>>
     /\ e_pc = "waiting" =>
          \/ e_in = <<Press(e_sample)>> /\ e_line = <<>> /\ e_out = <<>>
          \/ e_in = <<>> /\ e_line = <<tilde>> /\ Shows(e_out, tilde)
     /\ e_pc = "erasing" =>
          \/ e_in = <<Backspace(e_sample)>> /\ e_line = <<tilde>> /\ Shows(e_out, tilde)
          \/ e_in = <<>> /\ e_line = <<>> /\ Clears(e_out, tilde)

(* The trace: inputs in order, and frames in the order of what they show. *)
IsText(x) == x.kind = "input" /\ ~x.erase
TraceInOrder(trace, sent) ==
  /\ trace \in Seq(Entry)
  /\ \A p, q \in 1 .. Len(trace) :
       p < q => /\ trace[p].kind = "frame" /\ trace[q].kind = "frame" => trace[p].sample =< trace[q].sample
                /\ IsText(trace[p]) /\ IsText(trace[q]) => trace[p].sample < trace[q].sample
  /\ \A p \in 1 .. Len(trace) : IsText(trace[p]) => trace[p].sample \in 1 .. sent
  /\ \A i \in 1 .. sent : \E p \in 1 .. Len(trace) : IsText(trace[p]) /\ trace[p].sample = i
TraceBehind(trace, in, out, top) ==
  \A p \in 1 .. Len(trace) :
    trace[p].kind = "frame" =>
      /\ \A k \in 1 .. Len(out) : trace[p].sample =< out[k].of
      /\ \A j \in 1 .. Len(in) : trace[p].sample =< in[j].sample
      /\ trace[p].sample \in 1 .. top
HeadlessOK ==
  /\ e_pc # "done" => DOMAIN e_origin = {}
  /\ e_pc = "waiting" => e_sample = EchoSamples + 1
  /\ Stream(e_in, e_out, e_sample)
  /\ TraceInOrder(e_trace, Sent) /\ TraceBehind(e_trace, e_in, e_out, e_sample)

EchoTypeOK ==
  /\ e_mode \in {"none", "tokens", "flood", "verified", "headless"}
  /\ e_mode = "none" => e_pc = "idle"
  /\ e_mode \in {"tokens", "flood"} => e_pc \in {"ready", "waiting", "gap", "done"}
  /\ e_mode = "verified" => e_pc \in {"ready", "waiting", "erasing", "gap", "done", "raised"}
  /\ e_mode = "headless" => e_pc \in {"launching", "ready", "gap", "waiting", "done", "raised"}
  /\ e_sample \in Nat \ {0} /\ e_in \in Seq(Input) /\ e_out \in Seq(Frame) /\ e_line \in Seq(Cells)
  /\ e_buf \in Seq(Cells) /\ DOMAIN e_origin \subseteq Nat
  /\ e_pc = "idle" => /\ e_sample = 1 /\ e_in = <<>> /\ e_line = <<>> /\ e_out = <<>> /\ e_trace = <<>>
                      /\ DOMAIN e_origin = {}

EchoInv ==
  /\ EchoTypeOK /\ OwnEcho
  /\ e_mode = "tokens" => TokensOK
  /\ e_mode = "flood" => OwnCells(e_origin)
  /\ e_mode = "verified" => VerifiedOK
  /\ e_mode = "headless" => HeadlessOK

(* An element is added to a sequence. *)
LEMMA Appended ==
  ASSUME NEW S, NEW s \in Seq(S), NEW x \in S, NEW t, t = Append(s, x)
  PROVE  /\ t \in Seq(S) /\ Len(t) = Len(s) + 1 /\ t # <<>> /\ t[Len(s) + 1] = x
         /\ Len(s) \in Nat /\ \A i \in 1 .. Len(s) : t[i] = s[i] /\ i \in 1 .. Len(t)
         /\ \A i \in 1 .. Len(t) : i \in 1 .. Len(s) \/ i = Len(s) + 1
OBVIOUS

(* A sequence is put behind another. *)
LEMMA Concatenated ==
  ASSUME NEW S, NEW s \in Seq(S), NEW b \in Seq(S), NEW t, t = s \o b
  PROVE  /\ t \in Seq(S) /\ Len(t) = Len(s) + Len(b) /\ Len(s) \in Nat /\ Len(b) \in Nat
         /\ \A i \in 1 .. Len(s) : t[i] = s[i] /\ i \in 1 .. Len(t)
         /\ \A i \in 1 .. Len(b) : t[Len(s) + i] = b[i] /\ Len(s) + i \in 1 .. Len(t)
         /\ \A i \in 1 .. Len(t) : i \in 1 .. Len(s) \/ \E k \in 1 .. Len(b) : i = Len(s) + k
<1>1. /\ t \in Seq(S) /\ Len(t) = Len(s) + Len(b) /\ Len(s) \in Nat /\ Len(b) \in Nat
      /\ \A i \in 1 .. Len(s) : t[i] = s[i] /\ i \in 1 .. Len(t)
      /\ \A i \in 1 .. Len(b) : t[Len(s) + i] = b[i] /\ Len(s) + i \in 1 .. Len(t)
  OBVIOUS
<1>2. ASSUME NEW i \in 1 .. Len(t), i \notin 1 .. Len(s) PROVE \E k \in 1 .. Len(b) : i = Len(s) + k
  <2>1. i - Len(s) \in 1 .. Len(b) /\ i = Len(s) + (i - Len(s))
    BY <1>1, <1>2
  <2> QED BY <2>1
<1> QED BY <1>1, <1>2

(* A prefix is taken off a sequence. *)
LEMMA Rested ==
  ASSUME NEW S, NEW s \in Seq(S), NEW n \in 1 .. Len(s), NEW t, t = SubSeq(s, n + 1, Len(s))
  PROVE  /\ t \in Seq(S) /\ Len(t) = Len(s) - n
         /\ \A i \in 1 .. Len(t) : i + n \in 1 .. Len(s) /\ t[i] = s[i + n]
<1>1. Len(s) \in Nat /\ n \in Nat /\ 1 =< n /\ n =< Len(s)
  OBVIOUS
<1>2. t \in Seq(S)
  <2>1. \A i \in n + 1 .. Len(s) : s[i] \in S
    BY <1>1
  <2> QED BY <1>1
<1>3. Len(t) = Len(s) - n
  BY <1>1
<1>4. \A i \in 1 .. Len(t) : i + n \in 1 .. Len(s)
  BY <1>1, <1>3
<1>5. \A i \in 1 .. Len(t) : t[i] = s[i + n]
  <2>1. \A i \in 1 .. Len(t) : t[i] = s[(n + 1) + i - 1]
    BY <1>1, <1>3
  <2>2. \A i \in 1 .. Len(t) : (n + 1) + i - 1 = i + n
    BY <1>1, <1>3
  <2> QED BY <2>1, <2>2
<1> QED BY <1>2, <1>3, <1>4, <1>5

(* The first element is taken off a sequence. *)
LEMMA Tailed ==
  ASSUME NEW S, NEW s \in Seq(S), s # <<>>, NEW t, t = Tail(s)
  PROVE  /\ t \in Seq(S) /\ Len(t) = Len(s) - 1 /\ Len(s) \in Nat /\ 1 \in 1 .. Len(s) /\ s[1] \in S
         /\ \A i \in 1 .. Len(t) : i + 1 \in 1 .. Len(s) /\ t[i] = s[i + 1]
OBVIOUS

(* The stream after a frame that shows no less than the ones before it and *)
(* no more than what is still to be echoed.                                *)
LEMMA StreamPaints ==
  ASSUME NEW in, NEW out, NEW top, Stream(in, out, top), NEW f \in Frame,
         f.of \in 1 .. top, Between(in, out, f.of), NEW o, o = Append(out, f)
  PROVE  Stream(in, o, top)
<1>1. /\ in \in Seq(Input) /\ out \in Seq(Frame) /\ top \in Nat
      /\ \A j \in 1 .. Len(in) : in[j].sample \in 1 .. top
      /\ \A k \in 1 .. Len(out) : out[k].of \in 1 .. top
      /\ \A i, j \in 1 .. Len(in) : i < j => in[i].sample =< in[j].sample
      /\ \A i, k \in 1 .. Len(out) : i < k => out[i].of =< out[k].of
      /\ \A k \in 1 .. Len(out), j \in 1 .. Len(in) : out[k].of =< in[j].sample
  BY DEF Stream
<1>2. /\ o \in Seq(Frame) /\ Len(o) = Len(out) + 1 /\ o[Len(out) + 1] = f /\ Len(out) \in Nat
      /\ \A i \in 1 .. Len(out) : o[i] = out[i] /\ i \in 1 .. Len(o)
      /\ \A i \in 1 .. Len(o) : i \in 1 .. Len(out) \/ i = Len(out) + 1
  BY <1>1, Appended
<1>3. /\ \A k \in 1 .. Len(out) : out[k].of =< f.of
      /\ \A j \in 1 .. Len(in) : f.of =< in[j].sample
  BY DEF Between
<1>4. \A k \in 1 .. Len(o) : o[k].of \in 1 .. top
  BY <1>1, <1>2
<1>5. \A i, k \in 1 .. Len(o) : i < k => o[i].of =< o[k].of
  <2> SUFFICES ASSUME NEW i \in 1 .. Len(o), NEW k \in 1 .. Len(o), i < k PROVE o[i].of =< o[k].of
    OBVIOUS
  <2>1. i \in 1 .. Len(out) /\ o[i] = out[i]
    BY <1>2
  <2>2. CASE k \in 1 .. Len(out)
    BY <1>1, <1>2, <2>1, <2>2
  <2>3. CASE k = Len(out) + 1
    BY <1>2, <1>3, <2>1, <2>3
  <2> QED BY <1>2, <2>2, <2>3
<1>6. \A k \in 1 .. Len(o), j \in 1 .. Len(in) : o[k].of =< in[j].sample
  BY <1>1, <1>2, <1>3
<1> QED BY <1>1, <1>2, <1>4, <1>5, <1>6 DEF Stream

(* The next input leaves the stream, and is between the two halves. *)
LEMMA StreamTakes ==
  ASSUME NEW in, NEW out, NEW top, Stream(in, out, top), in # <<>>, NEW r, r = Tail(in)
  PROVE  /\ Stream(r, out, top) /\ Between(r, out, in[1].sample) /\ in[1].sample \in 1 .. top
         /\ in[1] \in Input
<1>1. /\ in \in Seq(Input) /\ out \in Seq(Frame) /\ top \in Nat
      /\ \A j \in 1 .. Len(in) : in[j].sample \in 1 .. top
      /\ \A k \in 1 .. Len(out) : out[k].of \in 1 .. top
      /\ \A i, j \in 1 .. Len(in) : i < j => in[i].sample =< in[j].sample
      /\ \A i, k \in 1 .. Len(out) : i < k => out[i].of =< out[k].of
      /\ \A k \in 1 .. Len(out), j \in 1 .. Len(in) : out[k].of =< in[j].sample
  BY DEF Stream
<1>2. /\ r \in Seq(Input) /\ Len(r) = Len(in) - 1 /\ Len(in) \in Nat /\ 1 \in 1 .. Len(in) /\ in[1] \in Input
      /\ \A i \in 1 .. Len(r) : i + 1 \in 1 .. Len(in) /\ r[i] = in[i + 1]
  BY <1>1, Tailed
<1>3. \A j \in 1 .. Len(r) : r[j].sample \in 1 .. top
  BY <1>1, <1>2
<1>4. \A i, j \in 1 .. Len(r) : i < j => r[i].sample =< r[j].sample
  <2> SUFFICES ASSUME NEW i \in 1 .. Len(r), NEW j \in 1 .. Len(r), i < j PROVE r[i].sample =< r[j].sample
    OBVIOUS
  <2>1. i + 1 < j + 1
    OBVIOUS
  <2> QED BY <1>1, <1>2, <2>1
<1>5. \A k \in 1 .. Len(out), j \in 1 .. Len(r) : out[k].of =< r[j].sample
  BY <1>1, <1>2
<1>6. \A j \in 1 .. Len(r) : in[1].sample =< r[j].sample
  <2> SUFFICES ASSUME NEW j \in 1 .. Len(r) PROVE in[1].sample =< r[j].sample
    OBVIOUS
  <2>1. 1 < j + 1
    OBVIOUS
  <2> QED BY <1>1, <1>2, <2>1
<1>7. Between(r, out, in[1].sample)
  BY <1>1, <1>2, <1>6 DEF Between
<1> QED BY <1>1, <1>2, <1>3, <1>4, <1>5, <1>7 DEF Stream

(* An input of the current sample. *)
LEMMA StreamSends ==
  ASSUME NEW in, NEW out, NEW top, Stream(in, out, top), NEW x \in Input, x.sample = top, 1 =< top,
         NEW r, r = Append(in, x)
  PROVE  Stream(r, out, top)
<1>1. /\ in \in Seq(Input) /\ out \in Seq(Frame) /\ top \in Nat
      /\ \A j \in 1 .. Len(in) : in[j].sample \in 1 .. top
      /\ \A k \in 1 .. Len(out) : out[k].of \in 1 .. top
      /\ \A i, j \in 1 .. Len(in) : i < j => in[i].sample =< in[j].sample
      /\ \A i, k \in 1 .. Len(out) : i < k => out[i].of =< out[k].of
      /\ \A k \in 1 .. Len(out), j \in 1 .. Len(in) : out[k].of =< in[j].sample
  BY DEF Stream
<1>2. /\ r \in Seq(Input) /\ Len(r) = Len(in) + 1 /\ r[Len(in) + 1] = x /\ Len(in) \in Nat
      /\ \A i \in 1 .. Len(in) : r[i] = in[i] /\ i \in 1 .. Len(r)
      /\ \A i \in 1 .. Len(r) : i \in 1 .. Len(in) \/ i = Len(in) + 1
  BY <1>1, Appended
<1>3. \A j \in 1 .. Len(r) : r[j].sample \in 1 .. top
  BY <1>1, <1>2
<1>4. \A i, j \in 1 .. Len(r) : i < j => r[i].sample =< r[j].sample
  <2> SUFFICES ASSUME NEW i \in 1 .. Len(r), NEW j \in 1 .. Len(r), i < j PROVE r[i].sample =< r[j].sample
    OBVIOUS
  <2>1. i \in 1 .. Len(in) /\ r[i] = in[i]
    BY <1>2
  <2>2. CASE j \in 1 .. Len(in)
    BY <1>1, <1>2, <2>1, <2>2
  <2>3. CASE j = Len(in) + 1
    BY <1>1, <1>2, <2>1, <2>3
  <2> QED BY <1>2, <2>2, <2>3
<1>5. \A k \in 1 .. Len(out), j \in 1 .. Len(r) : out[k].of =< r[j].sample
  BY <1>1, <1>2
<1> QED BY <1>1, <1>2, <1>3, <1>4, <1>5 DEF Stream

(* A write is put behind the inputs. *)
LEMMA InputsJoined ==
  ASSUME NEW in \in Seq(Input), NEW b \in Seq(Input), NEW r, r = in \o b
  PROVE  /\ r \in Seq(Input) /\ Len(r) = Len(in) + Len(b) /\ Len(in) \in Nat /\ Len(b) \in Nat
         /\ \A i \in 1 .. Len(in) : r[i] = in[i] /\ i \in 1 .. Len(r)
         /\ \A i \in 1 .. Len(b) : r[Len(in) + i] = b[i] /\ Len(in) + i \in 1 .. Len(r)
         /\ \A i \in 1 .. Len(r) : i \in 1 .. Len(in) \/ \E k \in 1 .. Len(b) : i = Len(in) + k
<1>1. r \in Seq(Input) /\ Len(r) = Len(in) + Len(b) /\ Len(in) \in Nat /\ Len(b) \in Nat
  BY Concatenated
<1>2. /\ \A i \in 1 .. Len(in) : r[i] = in[i] /\ i \in 1 .. Len(r)
      /\ \A i \in 1 .. Len(b) : r[Len(in) + i] = b[i] /\ Len(in) + i \in 1 .. Len(r)
  OBVIOUS
<1>3. \A i \in 1 .. Len(r) : i \in 1 .. Len(in) \/ \E k \in 1 .. Len(b) : i = Len(in) + k
  BY Concatenated
<1> QED BY <1>1, <1>2, <1>3

(* A write of the current sample. *)
LEMMA StreamWrites ==
  ASSUME NEW in, NEW out, NEW top, Stream(in, out, top), NEW b \in Seq(Input),
         \A j \in 1 .. Len(b) : b[j].sample = top, 1 =< top, NEW r, r = in \o b
  PROVE  Stream(r, out, top)
<1>1. /\ in \in Seq(Input) /\ out \in Seq(Frame) /\ top \in Nat
      /\ \A j \in 1 .. Len(in) : in[j].sample \in 1 .. top
      /\ \A k \in 1 .. Len(out) : out[k].of \in 1 .. top
      /\ \A i, j \in 1 .. Len(in) : i < j => in[i].sample =< in[j].sample
      /\ \A i, k \in 1 .. Len(out) : i < k => out[i].of =< out[k].of
      /\ \A k \in 1 .. Len(out), j \in 1 .. Len(in) : out[k].of =< in[j].sample
  BY DEF Stream
<1>2. /\ r \in Seq(Input) /\ Len(in) \in Nat
      /\ \A i \in 1 .. Len(in) : r[i] = in[i]
      /\ \A i \in 1 .. Len(b) : r[Len(in) + i] = b[i]
      /\ \A i \in 1 .. Len(r) : i \in 1 .. Len(in) \/ \E k \in 1 .. Len(b) : i = Len(in) + k
  <2>1. in \in Seq(Input)
    BY <1>1
  <2> QED BY <2>1, Concatenated
<1>3. ASSUME NEW i \in 1 .. Len(r), i \notin 1 .. Len(in) PROVE i > Len(in) /\ r[i].sample = top
  <2>1. PICK k \in 1 .. Len(b) : i = Len(in) + k
    BY <1>2, <1>3
  <2>2. i > Len(in)
    BY <1>2, <2>1
  <2>3. r[i] = b[k]
    BY <1>2, <2>1
  <2> QED BY <2>2, <2>3
<1>4. ASSUME NEW j \in 1 .. Len(r) PROVE r[j].sample \in 1 .. top
  <2>1. CASE j \in 1 .. Len(in)
    BY <1>1, <1>2, <2>1
  <2>2. CASE j \notin 1 .. Len(in)
    <3>1. r[j].sample = top
      BY <1>3, <2>2
    <3> QED BY <1>1, <3>1
  <2> QED BY <2>1, <2>2
<1>5. \A i, j \in 1 .. Len(r) : i < j => r[i].sample =< r[j].sample
  <2> SUFFICES ASSUME NEW i \in 1 .. Len(r), NEW j \in 1 .. Len(r), i < j PROVE r[i].sample =< r[j].sample
    OBVIOUS
  <2>1. CASE j \in 1 .. Len(in)
    <3>1. i \in 1 .. Len(in)
      BY <1>2, <2>1
    <3> QED BY <1>1, <1>2, <2>1, <3>1
  <2>2. CASE j \notin 1 .. Len(in)
    <3>1. r[j].sample = top /\ r[i].sample \in 1 .. top
      BY <1>3, <1>4, <2>2
    <3> QED BY <1>1, <3>1
  <2> QED BY <2>1, <2>2
<1>6. \A k \in 1 .. Len(out), j \in 1 .. Len(r) : out[k].of =< r[j].sample
  <2> SUFFICES ASSUME NEW k \in 1 .. Len(out), NEW j \in 1 .. Len(r) PROVE out[k].of =< r[j].sample
    OBVIOUS
  <2>1. CASE j \in 1 .. Len(in)
    BY <1>1, <1>2, <2>1
  <2>2. CASE j \notin 1 .. Len(in)
    <3>1. r[j].sample = top /\ out[k].of \in 1 .. top
      BY <1>1, <1>3, <2>2
    <3> QED BY <1>1, <3>1
  <2> QED BY <2>1, <2>2
<1> QED BY <1>1, <1>2, <1>4, <1>5, <1>6 DEF Stream

(* A read of n frames. *)
LEMMA StreamReads ==
  ASSUME NEW in, NEW out, NEW top, Stream(in, out, top), NEW n \in 1 .. Len(out),
         NEW o, o = SubSeq(out, n + 1, Len(out))
  PROVE  Stream(in, o, top)
<1>1. /\ in \in Seq(Input) /\ out \in Seq(Frame) /\ top \in Nat
      /\ \A j \in 1 .. Len(in) : in[j].sample \in 1 .. top
      /\ \A k \in 1 .. Len(out) : out[k].of \in 1 .. top
      /\ \A i, j \in 1 .. Len(in) : i < j => in[i].sample =< in[j].sample
      /\ \A i, k \in 1 .. Len(out) : i < k => out[i].of =< out[k].of
      /\ \A k \in 1 .. Len(out), j \in 1 .. Len(in) : out[k].of =< in[j].sample
  BY DEF Stream
<1>2. /\ o \in Seq(Frame)
      /\ \A i \in 1 .. Len(o) : i + n \in 1 .. Len(out) /\ o[i] = out[i + n]
  BY <1>1, Rested
<1>3. \A i, k \in 1 .. Len(o) : i < k => o[i].of =< o[k].of
  <2> SUFFICES ASSUME NEW i \in 1 .. Len(o), NEW k \in 1 .. Len(o), i < k PROVE o[i].of =< o[k].of
    OBVIOUS
  <2>1. i + n < k + n
    OBVIOUS
  <2> QED BY <1>1, <1>2, <2>1
<1> QED BY <1>1, <1>2, <1>3 DEF Stream

(* The stream is one for the next sample too. *)
LEMMA StreamNext ==
  ASSUME NEW in, NEW out, NEW top, Stream(in, out, top)
  PROVE  Stream(in, out, top + 1)
<1>1. top \in Nat /\ top + 1 \in Nat /\ \A i \in 1 .. top : i \in 1 .. top + 1
  BY DEF Stream
<1> QED BY <1>1 DEF Stream

(* An input finds the line as long as it takes it to be, and leaves it so. *)
LEMMA LineEchoed ==
  ASSUME NEW line \in Seq(Cells), NEW x \in Input, Before(x) = Len(line), LineOf(line, x.sample),
         NEW next, next = After(line, x)
  PROVE  next \in Seq(Cells) /\ Len(next) = Leaves(x) /\ LineOf(next, x.sample)
<1>1. x.sample \in Nat /\ x.at \in Nat \ {0} /\ Len(line) \in Nat
  BY DEF Input
<1>2. CASE x.erase
  <2>1. Len(line) = x.at /\ Leaves(x) = x.at - 1
    BY <1>2 DEF Before, Leaves
  <2>2. line # <<>>
    BY <1>1, <2>1, EmptySeq
  <2>3. next = SubSeq(line, 1, Len(line) - 1)
    BY <1>2, <2>2 DEF After, Front
  <2>4. next \in Seq(Cells) /\ Len(next) = Len(line) - 1 /\ \A l \in 1 .. Len(next) : next[l] = line[l] /\ l \in 1 .. Len(line)
    BY <1>1, <2>1, <2>3
  <2> QED BY <2>1, <2>4 DEF LineOf
<1>3. CASE ~x.erase
  <2> DEFINE c == Cell(x.sample, x.at)
  <2>1. c \in Cells /\ c.sample = x.sample
    BY <1>1 DEF Cell, Cells
  <2>2. next = Append(line, c) /\ Len(line) = x.at - 1 /\ Leaves(x) = x.at
    BY <1>3 DEF After, Before, Leaves
  <2> HIDE DEF c
  <2>3. /\ next \in Seq(Cells) /\ Len(next) = Len(line) + 1 /\ next[Len(line) + 1] = c
        /\ \A i \in 1 .. Len(line) : next[i] = line[i]
        /\ \A i \in 1 .. Len(next) : i \in 1 .. Len(line) \/ i = Len(line) + 1
    BY <2>1, <2>2, Appended
  <2>4. LineOf(next, x.sample)
    BY <2>1, <2>3 DEF LineOf
  <2> QED BY <1>1, <2>2, <2>3, <2>4
<1> QED BY <1>2, <1>3

(* The chain is kept when an input is echoed. *)
LEMMA ChainTaken ==
  ASSUME NEW in \in Seq(Input), NEW line \in Seq(Cells), NEW owed \in Nat, NEW top, Chain(in, line, owed, top),
         in # <<>>, NEW r, r = Tail(in), NEW next, next = After(line, in[1])
  PROVE  next \in Seq(Cells) /\ LineOf(next, in[1].sample) /\ Chain(r, next, owed, top)
<1>1. /\ r \in Seq(Input) /\ Len(r) = Len(in) - 1 /\ Len(in) \in Nat /\ 1 \in 1 .. Len(in) /\ in[1] \in Input
      /\ \A i \in 1 .. Len(r) : i + 1 \in 1 .. Len(in) /\ r[i] = in[i + 1]
  BY Tailed
<1>2. /\ Before(in[1]) = Len(line) /\ LineOf(line, in[1].sample)
      /\ Leaves(in[Len(in)]) = owed /\ (0 < owed => in[Len(in)].sample = top)
      /\ \A j \in 1 .. Len(in) - 1 :
           Leaves(in[j]) = Before(in[j + 1]) /\ (0 < Leaves(in[j]) => in[j].sample = in[j + 1].sample)
  BY DEF Chain
<1>3. next \in Seq(Cells) /\ Len(next) = Leaves(in[1]) /\ LineOf(next, in[1].sample)
  BY <1>1, <1>2, LineEchoed
<1>4. ASSUME r = <<>> PROVE Len(next) = owed /\ LineOf(next, top)
  <2>1. Len(in) = 1
    <3>1. Len(r) = 0
      BY <1>1, <1>4, EmptySeq
    <3> QED BY <1>1, <3>1
  <2>2. Len(next) = owed /\ (0 < owed => in[1].sample = top)
    BY <1>2, <1>3, <2>1
  <2>3. CASE 0 < owed
    BY <1>3, <2>2, <2>3
  <2>4. CASE ~(0 < owed)
    <3>1. Len(next) = 0
      BY <2>2, <2>4
    <3> QED BY <2>2, <3>1 DEF LineOf
  <2> QED BY <2>2, <2>3, <2>4
<1>5. ASSUME r # <<>> PROVE /\ Before(r[1]) = Len(next) /\ LineOf(next, r[1].sample)
                            /\ Leaves(r[Len(r)]) = owed /\ (0 < owed => r[Len(r)].sample = top)
  <2>1. Len(r) \in Nat /\ Len(r) # 0
    BY <1>1, <1>5, EmptySeq
  <2>2. 1 \in 1 .. Len(in) - 1 /\ 1 \in 1 .. Len(r) /\ Len(r) \in 1 .. Len(r) /\ Len(r) + 1 = Len(in)
    BY <1>1, <2>1
  <2>3. r[1] = in[1 + 1] /\ r[Len(r)] = in[Len(in)]
    BY <1>1, <2>2
  <2>4. Leaves(in[1]) = Before(r[1]) /\ (0 < Leaves(in[1]) => in[1].sample = r[1].sample)
    BY <1>2, <2>2, <2>3
  <2>5. LineOf(next, r[1].sample)
    <3>1. CASE 0 < Leaves(in[1])
      BY <1>3, <2>4, <3>1
    <3>2. CASE ~(0 < Leaves(in[1]))
      <4>1. Len(next) \in Nat /\ ~(0 < Len(next))
        BY <1>3, <3>2
      <4>2. Len(next) = 0
        BY <4>1
      <4> QED BY <4>2 DEF LineOf
    <3> QED BY <3>1, <3>2
  <2> QED BY <1>2, <1>3, <2>3, <2>4, <2>5
<1>6. ASSUME NEW j \in 1 .. Len(r) - 1
      PROVE  Leaves(r[j]) = Before(r[j + 1]) /\ (0 < Leaves(r[j]) => r[j].sample = r[j + 1].sample)
  <2>1. j + 1 \in 1 .. Len(in) - 1 /\ j \in 1 .. Len(r) /\ j + 1 \in 1 .. Len(r)
    BY <1>1
  <2>2. r[j] = in[j + 1] /\ r[j + 1] = in[(j + 1) + 1]
    BY <1>1, <2>1
  <2> QED BY <1>2, <2>1, <2>2
<1> QED BY <1>3, <1>4, <1>5, <1>6 DEF Chain

(* And when a write is added. *)
LEMMA ChainWritten ==
  ASSUME NEW in \in Seq(Input), NEW line \in Seq(Cells), NEW owed \in Nat, NEW top, Chain(in, line, owed, top),
         NEW b, NEW next \in Nat, Block(b, owed, next, top), NEW r, r = in \o b
  PROVE  Chain(r, line, next, top)
<1>1. /\ b \in Seq(Input) /\ b # <<>> /\ Before(b[1]) = owed /\ Leaves(b[Len(b)]) = next
      /\ \A j \in 1 .. Len(b) : b[j].sample = top
      /\ \A j \in 1 .. Len(b) - 1 : Leaves(b[j]) = Before(b[j + 1])
  BY DEF Block
<1>2. /\ r \in Seq(Input) /\ Len(r) = Len(in) + Len(b) /\ Len(in) \in Nat /\ Len(b) \in Nat
      /\ \A i \in 1 .. Len(in) : r[i] = in[i] /\ i \in 1 .. Len(r)
      /\ \A j \in 1 .. Len(b) : r[Len(in) + j] = b[j] /\ Len(in) + j \in 1 .. Len(r)
  BY <1>1, Concatenated
<1>3. Len(b) # 0 /\ (in # <<>> <=> Len(in) # 0)
  BY <1>1, EmptySeq
<1>4. r # <<>> /\ 1 \in 1 .. Len(b) /\ Len(b) \in 1 .. Len(b)
  <2>1. Len(r) # 0
    BY <1>2, <1>3
  <2>2. r # <<>>
    BY <2>1
  <2> QED BY <1>2, <1>3, <2>2
<1>5. r[Len(r)] = b[Len(b)] /\ b[Len(b)].sample = top
  BY <1>1, <1>2, <1>4
<1>6. Before(r[1]) = Len(line) /\ LineOf(line, r[1].sample)
  <2>1. CASE in = <<>>
    <3>1. Len(in) = 0
      BY <2>1
    <3>2. r[1] = b[1]
      <4>1. Len(in) + 1 = 1
        BY <3>1
      <4> QED BY <1>2, <1>4, <4>1
    <3>3. Len(line) = owed /\ LineOf(line, top)
      BY <2>1 DEF Chain
    <3> QED BY <1>1, <1>4, <3>2, <3>3
  <2>2. CASE in # <<>>
    <3>1. 1 \in 1 .. Len(in)
      BY <1>2, <1>3, <2>2
    <3>2. Before(in[1]) = Len(line) /\ LineOf(line, in[1].sample)
      BY <2>2 DEF Chain
    <3> QED BY <1>2, <3>1, <3>2
  <2> QED BY <2>1, <2>2
<1>7. ASSUME NEW j \in 1 .. Len(r) - 1
      PROVE  Leaves(r[j]) = Before(r[j + 1]) /\ (0 < Leaves(r[j]) => r[j].sample = r[j + 1].sample)
  <2>1. CASE j < Len(in)
    <3>1. j \in 1 .. Len(in) - 1 /\ j \in 1 .. Len(in) /\ j + 1 \in 1 .. Len(in)
      BY <1>2, <2>1
    <3>2. r[j] = in[j] /\ r[j + 1] = in[j + 1]
      BY <1>2, <3>1
    <3>3. Leaves(in[j]) = Before(in[j + 1]) /\ (0 < Leaves(in[j]) => in[j].sample = in[j + 1].sample)
      BY <3>1 DEF Chain
    <3> QED BY <3>2, <3>3
  <2>2. CASE j = Len(in)
    <3>1. j \in 1 .. Len(in) /\ in # <<>>
      BY <1>2, <1>3, <2>2
    <3>2. r[j] = in[Len(in)] /\ r[j + 1] = b[1]
      BY <1>2, <1>4, <2>2, <3>1
    <3>3. Leaves(in[Len(in)]) = owed /\ (0 < owed => in[Len(in)].sample = top)
      BY <3>1 DEF Chain
    <3> QED BY <1>1, <1>4, <3>2, <3>3
  <2>3. CASE j > Len(in)
    <3> DEFINE i == j - Len(in)
    <3>1. /\ i \in 1 .. Len(b) - 1 /\ i \in 1 .. Len(b) /\ i + 1 \in 1 .. Len(b)
          /\ j = Len(in) + i /\ j + 1 = Len(in) + (i + 1)
      BY <1>2, <2>3
    <3> HIDE DEF i
    <3>2. r[j] = b[i] /\ r[j + 1] = b[i + 1]
      BY <1>2, <3>1
    <3> QED BY <1>1, <3>1, <3>2
  <2> QED BY <1>2, <2>1, <2>2, <2>3
<1>8. Leaves(r[Len(r)]) = next /\ r[Len(r)].sample = top
  BY <1>1, <1>5
<1> QED BY <1>4, <1>6, <1>7, <1>8 DEF Chain

(* A function on the first numbers is a sequence. *)
LEMMA Listed ==
  ASSUME NEW S, NEW n \in Nat, NEW f, f = [k \in 1 .. n |-> f[k]], \A k \in 1 .. n : f[k] \in S
  PROVE  f \in Seq(S) /\ Len(f) = n
OBVIOUS

(* What a sample types is a write of as many bytes, and its erase another. *)
LEMMA BlockTyped ==
  ASSUME NEW s \in Nat, NEW n \in Nat \ {0}, NEW a, a = [k \in 1 .. n |-> [sample |-> s, at |-> k, erase |-> FALSE]]
  PROVE  Block(a, 0, n, s)
<1>1. ASSUME NEW k \in 1 .. n
      PROVE  a[k] \in Input /\ a[k].sample = s /\ Before(a[k]) = k - 1 /\ Leaves(a[k]) = k
  <2>1. a[k] = [sample |-> s, at |-> k, erase |-> FALSE] /\ k \in Nat \ {0}
    OBVIOUS
  <2> QED BY <2>1 DEF Before, Leaves, Input
<1>2. a \in Seq(Input) /\ Len(a) = n
  <2>1. a = [k \in 1 .. n |-> a[k]]
    OBVIOUS
  <2>2. \A k \in 1 .. n : a[k] \in Input
    BY <1>1
  <2> QED BY <2>1, <2>2, Listed
<1>3. a # <<>> /\ 1 \in 1 .. n /\ n \in 1 .. n
  <2>1. Len(a) # 0
    BY <1>2
  <2>2. a # <<>>
    BY <2>1
  <2> QED BY <2>2
<1>4. Before(a[1]) = 0 /\ Leaves(a[Len(a)]) = n
  BY <1>1, <1>2, <1>3
<1>5. ASSUME NEW j \in 1 .. Len(a) - 1 PROVE Leaves(a[j]) = Before(a[j + 1])
  <2>1. j \in 1 .. n /\ j + 1 \in 1 .. n /\ (j + 1) - 1 = j
    BY <1>2
  <2> QED BY <1>1, <2>1
<1> QED BY <1>1, <1>2, <1>3, <1>4, <1>5 DEF Block

(* The backspaces take off what was typed, from its end. *)
LEMMA BlockErased ==
  ASSUME NEW s \in Nat, NEW n \in Nat \ {0}, NEW b, b = [k \in 1 .. n |-> [sample |-> s, at |-> n + 1 - k, erase |-> TRUE]]
  PROVE  Block(b, n, 0, s)
<1>1. ASSUME NEW k \in 1 .. n
      PROVE  b[k] \in Input /\ b[k].sample = s /\ Before(b[k]) = n + 1 - k /\ Leaves(b[k]) = n - k
  <2>1. /\ b[k] = [sample |-> s, at |-> n + 1 - k, erase |-> TRUE]
        /\ n + 1 - k \in Nat \ {0} /\ (n + 1 - k) - 1 = n - k
    OBVIOUS
  <2> QED BY <2>1 DEF Before, Leaves, Input
<1>2. b \in Seq(Input) /\ Len(b) = n
  <2>1. b = [k \in 1 .. n |-> b[k]]
    OBVIOUS
  <2>2. \A k \in 1 .. n : b[k] \in Input
    BY <1>1
  <2> QED BY <2>1, <2>2, Listed
<1>3. b # <<>> /\ 1 \in 1 .. n /\ n \in 1 .. n
  <2>1. Len(b) # 0
    BY <1>2
  <2>2. b # <<>>
    BY <2>1
  <2> QED BY <2>2
<1>4. Before(b[1]) = n /\ Leaves(b[Len(b)]) = 0
  <2>1. Before(b[1]) = n + 1 - 1 /\ Leaves(b[n]) = n - n
    BY <1>1, <1>3
  <2> QED BY <1>2, <2>1
<1>5. ASSUME NEW j \in 1 .. Len(b) - 1 PROVE Leaves(b[j]) = Before(b[j + 1])
  <2>1. j \in 1 .. n /\ j + 1 \in 1 .. n /\ n + 1 - (j + 1) = n - j
    BY <1>2
  <2> QED BY <1>1, <2>1
<1> QED BY <1>1, <1>2, <1>3, <1>4, <1>5 DEF Block

(* The writes of a sample. *)
LEMMA SampleWritten ==
  ASSUME NEW s \in Nat, TextLen(s) \in Nat \ {0}
  PROVE  Block(Typed(s), 0, TextLen(s), s) /\ Block(Erased(s), TextLen(s), 0, s)
<1>1. /\ Typed(s) = [k \in 1 .. TextLen(s) |-> [sample |-> s, at |-> k, erase |-> FALSE]]
      /\ Erased(s) = [k \in 1 .. TextLen(s) |-> [sample |-> s, at |-> TextLen(s) + 1 - k, erase |-> TRUE]]
  BY DEF Typed, Erased, Key
<1> QED BY <1>1, BlockTyped, BlockErased

(* What is no earlier than a sample stays so: after an echo. *)
LEMMA NoEarlierEcho ==
  ASSUME NEW in \in Seq(Input), NEW out \in Seq(Frame), NEW line, NEW m, NoEarlier(in, out, line, m),
         in # <<>>, NEW f \in Frame, f.of = in[1].sample,
         NEW r, r = Tail(in), NEW o, o = Append(out, f),
         NEW next, LineOf(next, in[1].sample)
  PROVE  NoEarlier(r, o, next, m)
<1>1. /\ Len(r) = Len(in) - 1 /\ Len(in) \in Nat /\ 1 \in 1 .. Len(in)
      /\ \A i \in 1 .. Len(r) : i + 1 \in 1 .. Len(in) /\ r[i] = in[i + 1]
  BY Tailed
<1>2. /\ o[Len(out) + 1] = f
      /\ \A i \in 1 .. Len(out) : o[i] = out[i]
      /\ \A i \in 1 .. Len(o) : i \in 1 .. Len(out) \/ i = Len(out) + 1
  BY Appended
<1> QED BY <1>1, <1>2 DEF NoEarlier, LineOf

(* After a repaint of the line. *)
LEMMA NoEarlierPaints ==
  ASSUME NEW in, NEW out \in Seq(Frame), NEW line, NEW m, NoEarlier(in, out, line, m),
         NEW f \in Frame, NEW l \in 1 .. Len(line), f.of = line[l].sample, NEW o, o = Append(out, f)
  PROVE  NoEarlier(in, o, line, m)
<1>1. /\ o[Len(out) + 1] = f
      /\ \A i \in 1 .. Len(out) : o[i] = out[i]
      /\ \A i \in 1 .. Len(o) : i \in 1 .. Len(out) \/ i = Len(out) + 1
  BY Appended
<1> QED BY <1>1 DEF NoEarlier

(* After a write. *)
LEMMA NoEarlierWrites ==
  ASSUME NEW in \in Seq(Input), NEW out, NEW line, NEW m, NoEarlier(in, out, line, m),
         NEW b \in Seq(Input), NEW top, \A j \in 1 .. Len(b) : b[j].sample = top, m =< top, NEW r, r = in \o b
  PROVE  NoEarlier(r, out, line, m)
<1>1. /\ \A i \in 1 .. Len(in) : r[i] = in[i]
      /\ \A i \in 1 .. Len(b) : r[Len(in) + i] = b[i]
      /\ \A i \in 1 .. Len(r) : i \in 1 .. Len(in) \/ \E k \in 1 .. Len(b) : i = Len(in) + k
  <2>1. \A i \in 1 .. Len(in) : r[i] = in[i]
    OBVIOUS
  <2>2. \A i \in 1 .. Len(b) : r[Len(in) + i] = b[i]
    OBVIOUS
  <2>3. ASSUME NEW i \in 1 .. Len(r), i \notin 1 .. Len(in) PROVE \E k \in 1 .. Len(b) : i = Len(in) + k
    <3>1. Len(r) = Len(in) + Len(b) /\ Len(in) \in Nat /\ Len(b) \in Nat
      OBVIOUS
    <3>2. i - Len(in) \in 1 .. Len(b) /\ i = Len(in) + (i - Len(in))
      BY <2>3, <3>1
    <3> QED BY <3>2
  <2> QED BY <2>1, <2>2, <2>3
<1>2. ASSUME NEW i \in 1 .. Len(r) PROVE m =< r[i].sample
  <2>1. CASE i \in 1 .. Len(in)
    BY <1>1, <2>1 DEF NoEarlier
  <2>2. CASE i \notin 1 .. Len(in)
    <3>1. PICK k \in 1 .. Len(b) : i = Len(in) + k
      BY <1>1, <2>2
    <3>2. r[i] = b[k]
      BY <1>1, <3>1
    <3> QED BY <3>2
  <2> QED BY <2>1, <2>2
<1> QED BY <1>2 DEF NoEarlier

(* After a read. *)
LEMMA NoEarlierReads ==
  ASSUME NEW in, NEW out, NEW line, NEW m, NoEarlier(in, out, line, m),
         NEW n \in 1 .. Len(out), out \in Seq(Frame), NEW o, o = SubSeq(out, n + 1, Len(out))
  PROVE  NoEarlier(in, o, line, m)
<1>1. \A i \in 1 .. Len(o) : i + n \in 1 .. Len(out) /\ o[i] = out[i + n]
  BY Rested
<1> QED BY <1>1 DEF NoEarlier

(* Paints are joined. *)
LEMMA CellsJoined ==
  ASSUME NEW s \in Seq(Seq(Cells)), NEW t, t = FlattenSeq(s)
  PROVE  t \in Seq(Cells) /\ \A j \in 1 .. Len(t) : PartOf(t[j], s)
<1>1. t \in Seq(Cells)
  BY FlattenParts
<1>2. \A j \in 1 .. Len(t) : PartOf(t[j], s)
  BY FlattenParts
<1> QED BY <1>1, <1>2

(* Every cell is painted by one of the first n frames. *)
FromFrames(t, n) ==
  \A c \in 1 .. Len(t) : \E k \in 1 .. n : \E l \in 1 .. Len(e_out[k].paints) : t[c] = e_out[k].paints[l]

(* What a read makes visible is painted by the frames it takes. *)
LEMMA PaintedBy ==
  ASSUME e_out \in Seq(Frame), NEW n \in 1 .. Len(e_out), NEW t, t = Painted(n)
  PROVE  t \in Seq(Cells) /\ FromFrames(t, n)
<1> DEFINE s == [k \in 1 .. n |-> e_out[k].paints]
<1>1. \A k \in 1 .. n : e_out[k].paints \in Seq(Cells)
  <2>1. \A k \in 1 .. n : e_out[k] \in Frame
    OBVIOUS
  <2> QED BY <2>1 DEF Frame
<1>2. s \in Seq(Seq(Cells)) /\ Len(s) = n /\ \A k \in 1 .. n : s[k] = e_out[k].paints
  <2>1. n \in Nat
    OBVIOUS
  <2> DEFINE S == Seq(Cells)
  <2>2. \A k \in 1 .. n : e_out[k].paints \in S
    BY <1>1
  <2> HIDE DEF S
  <2>3. s \in Seq(S)
    BY <2>1, <2>2
  <2>4. Len(s) = n /\ \A k \in 1 .. n : s[k] = e_out[k].paints
    BY <2>1
  <2> QED BY <2>3, <2>4 DEF S
<1>3. t = FlattenSeq(s)
  BY DEF Painted
<1> HIDE DEF s
<1>4. t \in Seq(Cells) /\ \A c \in 1 .. Len(t) : PartOf(t[c], s)
  <2>1. s \in Seq(Seq(Cells))
    BY <1>2
  <2> QED BY <1>3, <2>1, CellsJoined
<1>5. ASSUME NEW c \in 1 .. Len(t)
      PROVE  \E k \in 1 .. n : \E l \in 1 .. Len(e_out[k].paints) : t[c] = e_out[k].paints[l]
  <2>1. PICK k \in 1 .. Len(s) : \E l \in 1 .. Len(s[k]) : t[c] = s[k][l]
    BY <1>4 DEF PartOf
  <2>2. k \in 1 .. n /\ s[k] = e_out[k].paints
    BY <1>2
  <2> QED BY <2>1, <2>2
<1> QED BY <1>4, <1>5 DEF FromFrames

(* Where the token occurs, if it does. *)
LEMMA OccursAt ==
  ASSUME NEW buf \in Seq(Cells), NEW n, n = TextLen(e_sample), n \in Nat \ {0}, Occurs(buf) # {},
         NEW p, p = Min(Occurs(buf))
  PROVE  /\ p \in Nat /\ \A k \in 1 .. n : p + k \in 1 .. Len(buf) /\ buf[p + k] \in Cells /\ Awaited(buf[p + k], k)
<1> DEFINE I == Occurs(buf)
<1>1. \A q \in I : q \in 0 .. Len(buf) - n /\ \A k \in 1 .. n : Awaited(buf[q + k], k)
  BY DEF Occurs
<1>2. Len(buf) \in Nat /\ 0 .. Len(buf) - n \subseteq Nat
  OBVIOUS
<1> HIDE DEF I
<1>3. I \in SUBSET Nat /\ I # {} /\ p = Min(I)
  BY <1>1, <1>2 DEF I
<1>4. p \in I
  BY <1>3, FirstOf
<1>5. p \in 0 .. Len(buf) - n /\ \A k \in 1 .. n : Awaited(buf[p + k], k)
  BY <1>1, <1>4
<1>6. \A k \in 1 .. n : p + k \in 1 .. Len(buf)
  BY <1>2, <1>5
<1> QED BY <1>5, <1>6

(* The cells that a sample is counted on. *)
Found(cells, buf) ==
  /\ cells \in Seq(Cells) /\ Len(cells) = TextLen(e_sample)
  /\ \A k \in 1 .. Len(cells) : Awaited(cells[k], k) /\ \E c \in 1 .. Len(buf) : cells[k] = buf[c]

(* A read adds to the buffer what it makes visible, and finds the token    *)
(* there or not.                                                           *)
LEMMA TokenRead ==
  ASSUME EchoTypeOK, ReadToken, TextLen(e_sample) \in Nat \ {0}
  PROVE  \E n \in 1 .. Len(e_out) :
           /\ e_out' = SubSeq(e_out, n + 1, Len(e_out)) /\ e_buf' = e_buf \o Painted(n) /\ e_buf' \in Seq(Cells)
           /\ \/ e_pc' = e_pc /\ e_in' = e_in /\ e_origin' = e_origin
              \/ /\ e_pc' = "gap" /\ EraseBlindly
                 /\ \E cells : Found(cells, e_buf') /\ e_origin' = CountedAs(cells)
<1>1. PICK n \in 1 .. Len(e_out) :
       /\ ReadTo(n) /\ e_buf' = e_buf \o Painted(n)
       /\ LET found == Occurs(e_buf')
          IN IF found = {}
             THEN UNCHANGED <<e_pc, e_in, e_origin>>
             ELSE /\ e_origin' = CountedAs([k \in 1 .. TextLen(e_sample) |-> e_buf'[Min(found) + k]])
                  /\ EraseBlindly
                  /\ e_pc' = "gap"
  BY DEF ReadToken
<1> DEFINE buf == e_buf'
           m == TextLen(e_sample)
           p == Min(Occurs(buf))
           cells == [k \in 1 .. m |-> buf[p + k]]
<1>2. e_out \in Seq(Frame) /\ e_buf \in Seq(Cells)
  BY DEF EchoTypeOK
<1>3. Painted(n) \in Seq(Cells)
  BY <1>2, PaintedBy
<1>4. buf \in Seq(Cells)
  BY <1>1, <1>2, <1>3, Concatenated
<1>5. e_out' = SubSeq(e_out, n + 1, Len(e_out))
  BY <1>1 DEF ReadTo
<1>6. CASE Occurs(buf) = {}
  BY <1>1, <1>4, <1>5, <1>6
<1>7. CASE Occurs(buf) # {}
  <2>1. e_origin' = CountedAs(cells) /\ EraseBlindly /\ e_pc' = "gap"
    BY <1>1, <1>7
  <2> HIDE DEF p, buf, m
  <2>2. m = TextLen(e_sample) /\ m \in Nat \ {0} /\ p = Min(Occurs(buf))
    BY DEF m, p
  <2>3. p \in Nat /\ \A k \in 1 .. m : p + k \in 1 .. Len(buf) /\ buf[p + k] \in Cells /\ Awaited(buf[p + k], k)
    BY <1>4, <1>7, <2>2, OccursAt
  <2>4. cells \in Seq(Cells) /\ Len(cells) = m /\ \A k \in 1 .. m : cells[k] = buf[p + k]
    BY <2>2, <2>3
  <2> HIDE DEF cells
  <2>5. Found(cells, buf)
    BY <2>2, <2>3, <2>4 DEF Found
  <2> QED BY <1>1, <1>4, <1>5, <2>1, <2>5 DEF buf
<1> QED BY <1>6, <1>7

(* A token has bytes. *)
LEMMA TextBytes ==
  ASSUME NEW s \in Nat \ {0}
  PROVE  /\ TokenOf(s) \in Seq(STRING) /\ Len(TokenOf(s)) \in Nat \ {0} /\ TextLen(s) \in Nat \ {0}
         /\ e_mode = "tokens" => TextLen(s) = Len(TokenOf(s))
         /\ e_mode # "tokens" => TextLen(s) = 1
<1> DEFINE n == Len(Tokens)
           k == ((s - 1) % n) + 1
<1>1. Tokens \in Seq(Seq(STRING)) /\ n \in Nat \ {0} /\ \A j \in 1 .. n : Len(Tokens[j]) > 0
  BY EchoAssumption
<1>2. k \in 1 .. n
  <2>1. s - 1 \in Nat /\ (s - 1) % n \in 0 .. n - 1
    BY <1>1
  <2> HIDE DEF n
  <2> QED BY <1>1, <2>1
<1>3. TokenOf(s) = Tokens[k]
  BY DEF TokenOf
<1> HIDE DEF k, n
<1>4. Tokens[k] \in Seq(STRING) /\ Len(Tokens[k]) > 0
  BY <1>1, <1>2 DEF n
<1>5. TokenOf(s) \in Seq(STRING) /\ Len(TokenOf(s)) \in Nat \ {0}
  BY <1>3, <1>4
<1> QED BY <1>5 DEF TextLen

(* What the multiplexer does with the line and what it paints. *)
LEMMA Echoes ==
  ASSUME EchoTypeOK, MuxEcho
  PROVE  /\ e_in # <<>> /\ e_in[1] \in Input /\ e_in' = Tail(e_in)
         /\ e_line' = After(e_line, e_in[1]) /\ e_line' \in Seq(Cells)
         /\ \E f \in Frame : /\ e_out' = Append(e_out, f) /\ f.of = e_in[1].sample /\ f.line = e_line'
                             /\ LineOf(f.paints, f.of)
         /\ e_pc' = e_pc /\ e_mode' = e_mode /\ e_sample' = e_sample /\ e_origin' = e_origin /\ e_trace' = e_trace
         /\ e_buf' = e_buf /\ e_pc \notin {"done", "raised"}
<1> DEFINE x == e_in[1]
           c == Cell(x.sample, x.at)
           f == [paints |-> IF x.erase THEN <<>> ELSE <<c>>, line |-> e_line', of |-> x.sample]
<1>1. /\ e_in # <<>> /\ e_in' = Tail(e_in) /\ e_line' = After(e_line, x) /\ e_out' = Append(e_out, f)
      /\ e_pc' = e_pc /\ e_mode' = e_mode /\ e_sample' = e_sample /\ e_origin' = e_origin /\ e_trace' = e_trace
      /\ e_buf' = e_buf /\ e_pc \notin {"done", "raised"}
  BY DEF MuxEcho
<1>2. e_in \in Seq(Input) /\ e_line \in Seq(Cells)
  BY DEF EchoTypeOK
<1>3. x \in Input /\ x.sample \in Nat /\ x.at \in Nat /\ x.erase \in BOOLEAN
  <2>1. x \in Input
    BY <1>1, <1>2, Tailed
  <2> QED BY <2>1 DEF Input
<1>4. c \in Cells /\ c.sample = x.sample
  BY <1>3 DEF Cell, Cells
<1>5. e_line' \in Seq(Cells)
  <2>1. Append(e_line, c) \in Seq(Cells)
    <3> HIDE DEF c
    <3> QED BY <1>2, <1>4, Appended
  <2>2. e_line # <<>> => Front(e_line) \in Seq(Cells)
    BY <1>2 DEF Front
  <2> QED BY <1>1, <1>2, <2>1, <2>2 DEF After
<1>6. f \in Frame /\ f.of = x.sample /\ f.line = e_line' /\ LineOf(f.paints, f.of)
  <2> DEFINE p == IF x.erase THEN <<>> ELSE <<c>>
  <2>1. p \in Seq(Cells) /\ \A j \in 1 .. Len(p) : p[j].sample = x.sample
    <3> HIDE DEF c
    <3>1. CASE x.erase
      BY <3>1
    <3>2. CASE ~x.erase
      <4> DEFINE q == <<c>>
      <4>1. q \in Seq(Cells) /\ Len(q) = 1 /\ q[1] = c
        BY <1>4
      <4>2. p = q
        BY <3>2
      <4>3. \A j \in 1 .. Len(q) : q[j] = c
        OBVIOUS
      <4> HIDE DEF p, q
      <4> QED BY <1>4, <4>1, <4>2, <4>3
    <3> QED BY <3>1, <3>2
  <2>2. f = [paints |-> p, line |-> e_line', of |-> x.sample]
    OBVIOUS
  <2> HIDE DEF p, f
  <2> QED BY <1>3, <1>5, <2>1, <2>2 DEF Frame, LineOf
<1> HIDE DEF f
<1> QED BY <1>1, <1>3, <1>5, <1>6

(* Repaints show the line. *)
LEMMA Repaints ==
  ASSUME EchoTypeOK, MuxRepaint
  PROVE  /\ e_line # <<>> /\ Len(e_line) \in 1 .. Len(e_line)
         /\ \E f \in Frame : /\ e_out' = Append(e_out, f) /\ f.of = e_line[Len(e_line)].sample
                             /\ f.line = e_line /\ f.paints = e_line
         /\ e_in' = e_in /\ e_line' = e_line /\ e_buf' = e_buf
         /\ e_pc' = e_pc /\ e_mode' = e_mode /\ e_sample' = e_sample /\ e_origin' = e_origin /\ e_trace' = e_trace
         /\ e_pc \notin {"done", "raised"} /\ e_mode # "headless"
<1> DEFINE f == [paints |-> e_line, line |-> e_line, of |-> e_line[Len(e_line)].sample]
<1>1. /\ e_line # <<>> /\ e_out' = Append(e_out, f) /\ e_in' = e_in /\ e_line' = e_line /\ e_buf' = e_buf
      /\ e_pc' = e_pc /\ e_mode' = e_mode /\ e_sample' = e_sample /\ e_origin' = e_origin /\ e_trace' = e_trace
      /\ e_pc \notin {"done", "raised"} /\ e_mode # "headless"
  BY DEF MuxRepaint, Last
<1>2. e_line \in Seq(Cells)
  BY DEF EchoTypeOK
<1>3. Len(e_line) \in 1 .. Len(e_line) /\ e_line[Len(e_line)].sample \in Nat
  <2>1. Len(e_line) \in Nat /\ Len(e_line) # 0
    BY <1>1, <1>2, EmptySeq
  <2>2. Len(e_line) \in 1 .. Len(e_line) /\ e_line[Len(e_line)] \in Cells
    BY <1>2, <2>1
  <2> QED BY <2>2 DEF Cells
<1>4. f \in Frame /\ f.of = e_line[Len(e_line)].sample /\ f.line = e_line /\ f.paints = e_line
  BY <1>2, <1>3 DEF Frame
<1> HIDE DEF f
<1> QED BY <1>1, <1>3, <1>4

(* A read takes frames off the front. *)
LEMMA TakenOff ==
  ASSUME EchoTypeOK, NEW n \in 1 .. Len(e_out), ReadTo(n)
  PROVE  e_out' = SubSeq(e_out, n + 1, Len(e_out)) /\ e_out' \in Seq(Frame)
<1>1. e_out \in Seq(Frame) /\ e_out' = SubSeq(e_out, n + 1, Len(e_out))
  BY DEF EchoTypeOK, ReadTo
<1> QED BY <1>1, Rested

(* Inputs are what they are called. *)
LEMMA Inputs ==
  ASSUME NEW s \in Nat
  PROVE  /\ Press(s) \in Input /\ Press(s).sample = s /\ Press(s).erase = FALSE
         /\ Backspace(s) \in Input /\ Backspace(s).sample = s /\ Backspace(s).erase = TRUE
BY DEF Press, Backspace, Input

(* The probes that write one byte do so whatever their mode.  *)
LEMMA OneByte ==
  ASSUME NEW s \in Nat \ {0}, e_mode # "tokens"
  PROVE  Typed(s) = <<Press(s)>> /\ Erased(s) = <<Backspace(s)>>
<1>1. TextLen(s) = 1
  BY DEF TextLen
<1>2. Typed(s) = [k \in 1 .. 1 |-> [sample |-> s, at |-> k, erase |-> FALSE]]
  BY <1>1 DEF Typed, Key
<1>3. Erased(s) = [k \in 1 .. 1 |-> [sample |-> s, at |-> 1 + 1 - k, erase |-> TRUE]]
  BY <1>1 DEF Erased, Key
<1>4. \A k \in 1 .. 1 : k = 1 /\ 1 + 1 - k = 1
  OBVIOUS
<1>5. Typed(s) = [k \in 1 .. 1 |-> Press(s)] /\ Erased(s) = [k \in 1 .. 1 |-> Backspace(s)]
  BY <1>2, <1>3, <1>4 DEF Press, Backspace
<1> QED BY <1>5

(* What a probe sends are inputs. *)
LEMMA Sends ==
  ASSUME EchoTypeOK
  PROVE  /\ e_in \o Typed(e_sample) \in Seq(Input) /\ e_in \o Erased(e_sample) \in Seq(Input)
         /\ Append(e_in, Press(e_sample)) \in Seq(Input) /\ Append(e_in, Backspace(e_sample)) \in Seq(Input)
<1>1. e_sample \in Nat \ {0} /\ e_sample \in Nat /\ e_in \in Seq(Input)
  BY DEF EchoTypeOK
<1>2. Typed(e_sample) \in Seq(Input) /\ Erased(e_sample) \in Seq(Input)
  <2>1. TextLen(e_sample) \in Nat \ {0}
    BY <1>1, TextBytes
  <2> QED BY <1>1, <2>1, SampleWritten DEF Block
<1>3. e_in \o Typed(e_sample) \in Seq(Input) /\ e_in \o Erased(e_sample) \in Seq(Input)
  BY <1>1, <1>2, InputsJoined
<1>4. Press(e_sample) \in Input /\ Backspace(e_sample) \in Input
  BY <1>1, Inputs
<1> QED BY <1>1, <1>3, <1>4, Appended

(* Every action keeps the types, and the program counter of its mode. *)
LEMMA EchoTypeStep == EchoTypeOK /\ EchoNext => EchoTypeOK'
<1> SUFFICES ASSUME EchoTypeOK, EchoNext PROVE EchoTypeOK'
  OBVIOUS
<1>0. /\ e_mode \in {"none", "tokens", "flood", "verified", "headless"}
      /\ e_sample \in Nat \ {0} /\ e_in \in Seq(Input) /\ e_out \in Seq(Frame) /\ e_line \in Seq(Cells)
      /\ e_buf \in Seq(Cells) /\ DOMAIN e_origin \subseteq Nat
  BY DEF EchoTypeOK
<1>1. /\ e_in \o Typed(e_sample) \in Seq(Input) /\ e_in \o Erased(e_sample) \in Seq(Input)
      /\ Append(e_in, Press(e_sample)) \in Seq(Input) /\ Append(e_in, Backspace(e_sample)) \in Seq(Input)
  BY Sends
<1>2. e_sample + 1 \in Nat \ {0}
  BY <1>0
<1> DEFINE Shape == /\ e_out' \in Seq(Frame) /\ e_in' \in Seq(Input) /\ e_line' \in Seq(Cells)
                    /\ e_sample' \in Nat \ {0} /\ e_buf' \in Seq(Cells) /\ DOMAIN e_origin' \subseteq Nat
<1>c. ASSUME NEW cells, e_origin' = CountedAs(cells) PROVE DOMAIN e_origin' \subseteq Nat
  BY <1>0, <1>c DEF CountedAs
<1>3. CASE StartProbe
  <2>1. Shape
    BY <1>0, <1>3 DEF StartProbe
  <2>2. /\ e_mode' \in {"tokens", "flood", "verified", "headless"}
        /\ e_pc' = IF e_mode' = "headless" THEN "launching" ELSE "ready"
    BY <1>3 DEF StartProbe
  <2> QED BY <2>1, <2>2 DEF EchoTypeOK
<1>4. CASE MuxEcho
  <2>1. PICK f \in Frame : e_out' = Append(e_out, f)
    BY <1>4, Echoes
  <2>2. /\ e_in # <<>> /\ e_in' = Tail(e_in) /\ e_line' \in Seq(Cells) /\ e_sample' = e_sample
        /\ e_pc' = e_pc /\ e_mode' = e_mode /\ e_buf' = e_buf /\ e_origin' = e_origin
    BY <1>4, Echoes
  <2>3. Shape
    <3>1. e_out' \in Seq(Frame)
      BY <1>0, <2>1, Appended
    <3>2. e_in' \in Seq(Input)
      BY <1>0, <2>2, Tailed
    <3> QED BY <1>0, <2>2, <3>1, <3>2
  <2>4. e_pc # "idle"
    BY <2>2 DEF EchoTypeOK
  <2> QED BY <2>2, <2>3, <2>4 DEF EchoTypeOK
<1>5. CASE MuxRepaint
  <2>1. PICK f \in Frame : e_out' = Append(e_out, f)
    BY <1>5, Repaints
  <2>2. /\ e_line # <<>> /\ e_in' = e_in /\ e_line' = e_line /\ e_sample' = e_sample
        /\ e_pc' = e_pc /\ e_mode' = e_mode /\ e_buf' = e_buf /\ e_origin' = e_origin
    BY <1>5, Repaints
  <2>3. Shape
    BY <1>0, <2>1, <2>2, Appended
  <2>4. e_pc # "idle"
    BY <2>2 DEF EchoTypeOK
  <2> QED BY <2>2, <2>3, <2>4 DEF EchoTypeOK
<1>6. CASE ReadToken
  <2>1. TextLen(e_sample) \in Nat \ {0}
    BY <1>0, TextBytes
  <2>2. PICK n \in 1 .. Len(e_out) :
          /\ e_out' = SubSeq(e_out, n + 1, Len(e_out)) /\ e_buf' \in Seq(Cells)
          /\ \/ e_pc' = e_pc /\ e_in' = e_in /\ e_origin' = e_origin
             \/ e_pc' = "gap" /\ EraseBlindly /\ \E cells : e_origin' = CountedAs(cells)
    BY <1>6, <2>1, TokenRead
  <2>3. e_line' = e_line /\ e_sample' = e_sample /\ e_mode' = e_mode /\ e_mode \in {"tokens", "flood"} /\ e_pc = "waiting"
    BY <1>6 DEF ReadToken
  <2>4. Shape
    <3>1. e_out' \in Seq(Frame)
      BY <1>0, <2>2, Rested
    <3>2. e_in' \in Seq(Input)
      BY <1>0, <1>1, <2>2 DEF EraseBlindly
    <3>3. DOMAIN e_origin' \subseteq Nat
      BY <1>0, <1>c, <2>2
    <3> QED BY <1>0, <2>2, <2>3, <3>1, <3>2, <3>3
  <2> QED BY <2>2, <2>3, <2>4 DEF EchoTypeOK
<1>7. CASE ReadVerified
  <2>1. PICK n \in 1 .. Len(e_out) :
          /\ ReadTo(n) /\ e_pc' \in {e_pc, "gap", "erasing"} /\ e_in' \in {e_in, e_in \o Erased(e_sample)}
          /\ e_origin' = e_origin \/ e_origin' = CountedAs(e_out[n].line)
    BY <1>7 DEF ReadVerified, Shown, Gone
  <2>2. /\ e_line' = e_line /\ e_sample' = e_sample /\ e_mode' = e_mode /\ e_mode = "verified" /\ e_buf' = e_buf
        /\ e_pc \in {"waiting", "erasing"}
    BY <1>7 DEF ReadVerified
  <2>3. Shape
    <3>1. e_out' \in Seq(Frame)
      BY <2>1, TakenOff
    <3>2. DOMAIN e_origin' \subseteq Nat
      BY <1>0, <1>c, <2>1
    <3> QED BY <1>0, <1>1, <2>1, <2>2, <3>1, <3>2
  <2> QED BY <2>1, <2>2, <2>3 DEF EchoTypeOK
<1>8. CASE ReadInGap \/ PresentFrame
  <2>1. PICK n \in 1 .. Len(e_out) : ReadTo(n)
    <3>1. e_out # <<>> => Len(e_out) \in 1 .. Len(e_out)
      <4>1. Len(e_out) \in Nat /\ (e_out # <<>> => Len(e_out) # 0)
        BY <1>0, EmptySeq
      <4> QED BY <4>1
    <3> QED BY <1>8, <3>1 DEF ReadInGap, PresentFrame
  <2>2. /\ e_line' = e_line /\ e_sample' = e_sample /\ e_mode' = e_mode /\ e_in' = e_in /\ e_pc' = e_pc
        /\ e_buf' = e_buf /\ e_origin' = e_origin /\ e_pc \in {"ready", "gap", "waiting"}
    BY <1>8 DEF ReadInGap, PresentFrame
  <2>3. Shape
    BY <1>0, <1>1, <2>1, <2>2, TakenOff
  <2> QED BY <2>1, <2>2, <2>3 DEF EchoTypeOK
<1>9. CASE SendToken \/ TokenTimeout \/ VerifiedTimeout \/ EndGap \/ WaitReady \/ TakeText \/ TakeBackspace \/ QuitHeadless
  <2>1. /\ e_out' = e_out /\ e_line' = e_line /\ e_mode' = e_mode /\ e_sample' \in {e_sample, e_sample + 1}
        /\ e_in' \in {e_in, e_in \o Typed(e_sample), e_in \o Erased(e_sample),
                      Append(e_in, Press(e_sample)), Append(e_in, Backspace(e_sample))}
        /\ e_buf' \in {e_buf, <<>>}
    <3>1. CASE SendToken
      BY <3>1 DEF SendToken, EmptyBuffer
    <3>2. CASE TokenTimeout
      BY <3>2 DEF TokenTimeout, EraseBlindly
    <3>3. CASE VerifiedTimeout \/ EndGap \/ WaitReady \/ QuitHeadless
      BY <3>3 DEF VerifiedTimeout, EndGap, WaitReady, QuitHeadless
    <3>4. CASE TakeText \/ TakeBackspace
      BY <3>4 DEF TakeText, TakeBackspace, Take, Key, Press, Backspace
    <3> QED BY <1>9, <3>1, <3>2, <3>3, <3>4
  <2>2. DOMAIN e_origin' \subseteq Nat
    <3>1. CASE TokenTimeout
      BY <1>c, <3>1 DEF TokenTimeout
    <3>2. CASE QuitHeadless
      <4>1. Samples \subseteq Nat
        BY DEF Samples
      <4> QED BY <1>0, <3>2, <4>1 DEF QuitHeadless
    <3>3. CASE SendToken \/ VerifiedTimeout \/ EndGap \/ WaitReady \/ TakeText \/ TakeBackspace
      <4>1. e_origin' = e_origin
        BY <3>3 DEF SendToken, VerifiedTimeout, EndGap, WaitReady, TakeText, TakeBackspace, Take
      <4> QED BY <1>0, <4>1
    <3> QED BY <1>9, <3>1, <3>2, <3>3
  <2>3. Shape
    <3>1. <<>> \in Seq(Cells)
      OBVIOUS
    <3> QED BY <1>0, <1>1, <1>2, <2>1, <2>2, <3>1
  <2>4. /\ e_pc' # "idle" /\ e_mode # "none"
        /\ e_mode \in {"tokens", "flood"} => e_pc' \in {"ready", "waiting", "gap", "done"}
        /\ e_mode = "verified" => e_pc' \in {"ready", "waiting", "erasing", "gap", "done", "raised"}
        /\ e_mode = "headless" => e_pc' \in {"launching", "ready", "gap", "waiting", "done", "raised"}
    BY <1>9 DEF EchoTypeOK, SendToken, TokenTimeout, VerifiedTimeout, EndGap, WaitReady, QuitHeadless, TakeText, TakeBackspace
  <2> QED BY <1>0, <2>1, <2>3, <2>4 DEF EchoTypeOK
<1> QED BY <1>3, <1>4, <1>5, <1>6, <1>7, <1>8, <1>9 DEF EchoNext

(* A sample is counted on its own cells, or on none. *)
LEMMA CountedOwn ==
  ASSUME NEW cells, LineOf(cells, e_sample), OwnCells(e_origin), e_origin' = CountedAs(cells)
  PROVE  OwnCells(e_origin')
<1> DEFINE counted == e_origin'
<1>1. counted = [i \in DOMAIN e_origin \cup {e_sample} |-> IF i = e_sample THEN cells ELSE e_origin[i]]
  BY DEF CountedAs
<1> HIDE DEF counted
<1>2. ASSUME NEW i \in DOMAIN counted PROVE LineOf(counted[i], i)
  BY <1>1 DEF OwnCells
<1> QED BY <1>2 DEF OwnCells, counted

(* The flood counts its own marker, or nothing. *)
LEMMA FloodStep ==
  ASSUME EchoTypeOK, EchoNext, e_mode = "flood", OwnCells(e_origin)
  PROVE  e_mode' = "flood" /\ OwnCells(e_origin')
<1>1. CASE ReadToken
  <2>1. e_mode' = e_mode /\ TextLen(e_sample) \in Nat \ {0}
    BY <1>1, TextBytes DEF ReadToken, EchoTypeOK
  <2>2. e_origin' = e_origin \/ \E cells : Found(cells, e_buf') /\ e_origin' = CountedAs(cells)
    BY <1>1, <2>1, TokenRead
  <2>3. ASSUME NEW cells, Found(cells, e_buf'), e_origin' = CountedAs(cells) PROVE OwnCells(e_origin')
    <3>1. \A k \in 1 .. Len(cells) : Awaited(cells[k], k)
      BY <2>3 DEF Found
    <3>2. LineOf(cells, e_sample)
      BY <3>1 DEF Awaited, LineOf
    <3> QED BY <2>3, <3>2, CountedOwn
  <2> QED BY <2>1, <2>2, <2>3
<1>2. CASE TokenTimeout
  <2>1. e_mode' = e_mode /\ e_origin' = CountedAs(<<>>)
    BY <1>2 DEF TokenTimeout
  <2>2. LineOf(<<>>, e_sample)
    BY DEF LineOf
  <2> QED BY <2>1, <2>2, CountedOwn
<1>3. CASE MuxEcho \/ MuxRepaint \/ SendToken \/ ReadInGap \/ EndGap
  <2>1. e_mode' = e_mode /\ e_origin' = e_origin
    BY <1>3 DEF MuxEcho, MuxRepaint, SendToken, ReadInGap, EndGap
  <2> QED BY <2>1
<1>4. ~(StartProbe \/ ReadVerified \/ VerifiedTimeout \/ WaitReady \/ TakeText \/ TakeBackspace \/ PresentFrame \/ QuitHeadless)
  BY DEF EchoTypeOK, StartProbe, ReadVerified, VerifiedTimeout, WaitReady, TakeText, TakeBackspace, PresentFrame, QuitHeadless
<1> QED BY <1>1, <1>2, <1>3, <1>4 DEF EchoNext

(* The verified exchange leaves nothing in flight behind. *)
LEMMA VerifiedStep ==
  ASSUME EchoTypeOK, EchoNext, e_mode = "verified", VerifiedOK
  PROVE  e_mode' = "verified" /\ VerifiedOK'
<1> DEFINE c == Cell(e_sample, 1)
           p == Press(e_sample)
           b == Backspace(e_sample)
<1>0. /\ e_sample \in Nat \ {0} /\ e_in \in Seq(Input) /\ e_out \in Seq(Frame) /\ e_line \in Seq(Cells)
      /\ e_pc \in {"ready", "waiting", "erasing", "gap", "done", "raised"}
  BY DEF EchoTypeOK
<1>1. /\ OwnCells(e_origin)
      /\ e_pc \in {"ready", "gap"} => e_in = <<>> /\ e_line = <<>> /\ e_out = <<>>
      /\ e_pc = "waiting" =>
           \/ e_in = <<p>> /\ e_line = <<>> /\ e_out = <<>>
           \/ e_in = <<>> /\ e_line = <<c>> /\ Shows(e_out, c)
      /\ e_pc = "erasing" =>
           \/ e_in = <<b>> /\ e_line = <<c>> /\ Shows(e_out, c)
           \/ e_in = <<>> /\ e_line = <<>> /\ Clears(e_out, c)
  BY DEF VerifiedOK
<1>a. /\ After(<<>>, p) = <<c>> /\ After(<<c>>, b) = <<>> /\ c.sample = e_sample
  <2>1. After(<<>>, p) = Append(<<>>, c)
    BY DEF After, Press
  <2>2. After(<<c>>, b) = Front(<<c>>)
    <3>1. <<c>> # <<>>
      OBVIOUS
    <3> QED BY <3>1 DEF After, Backspace
  <2>3. Front(<<c>>) = <<>>
    BY DEF Front
  <2>4. c.sample = e_sample
    BY DEF Cell
  <2> HIDE DEF c
  <2> QED BY <2>1, <2>2, <2>3, <2>4
<1>b. Typed(e_sample) = <<p>> /\ Erased(e_sample) = <<b>>
  BY <1>0, OneByte
<1>c. ASSUME NEW o, NEW in, NEW line, NEW pc, NEW origin, e_out' = o, e_in' = in, e_line' = line, e_pc' = pc,
             e_origin' = origin, e_sample' = e_sample, OwnCells(origin),
             pc \in {"ready", "gap"} => in = <<>> /\ line = <<>> /\ o = <<>>,
             pc = "waiting" => \/ in = <<p>> /\ line = <<>> /\ o = <<>>
                               \/ in = <<>> /\ line = <<c>> /\ Shows(o, c),
             pc = "erasing" => \/ in = <<b>> /\ line = <<c>> /\ Shows(o, c)
                               \/ in = <<>> /\ line = <<>> /\ Clears(o, c)
      PROVE  VerifiedOK'
  BY <1>c DEF VerifiedOK
<1> HIDE DEF c, p, b
<1>2. CASE MuxEcho
  <2>1. PICK f \in Frame : e_out' = Append(e_out, f) /\ f.line = e_line'
    BY <1>2, Echoes
  <2>2. /\ e_in # <<>> /\ e_in' = Tail(e_in) /\ e_line' = After(e_line, e_in[1])
        /\ e_pc' = e_pc /\ e_mode' = e_mode /\ e_sample' = e_sample /\ e_origin' = e_origin /\ e_pc \notin {"done", "raised"}
    BY <1>2, Echoes
  <2> DEFINE o == e_out'
  <2>3. /\ o[Len(e_out) + 1] = f /\ Len(o) = Len(e_out) + 1 /\ Len(e_out) \in Nat
        /\ \A i \in 1 .. Len(e_out) : o[i] = e_out[i]
        /\ \A i \in 1 .. Len(o) : i \in 1 .. Len(e_out) \/ i = Len(e_out) + 1
    BY <1>0, <2>1, Appended
  <2> HIDE DEF o
  <2>4. CASE e_pc = "waiting"
    <3>1. e_in = <<p>> /\ e_line = <<>> /\ e_out = <<>>
      BY <1>1, <2>2, <2>4
    <3>2. e_in[1] = p /\ e_in' = <<>>
      BY <2>2, <3>1
    <3>3. e_line' = <<c>>
      BY <1>a, <2>2, <3>1, <3>2
    <3>4. Shows(o, c)
      <4>1. Len(e_out) = 0
        BY <3>1
      <4>2. \A k \in 1 .. Len(o) : o[k] = f
        BY <2>3, <4>1
      <4> QED BY <2>1, <3>3, <4>2 DEF Shows
    <3> QED BY <1>1, <1>c, <2>2, <2>4, <3>2, <3>3, <3>4 DEF o
  <2>5. CASE e_pc = "erasing"
    <3>1. e_in = <<b>> /\ e_line = <<c>> /\ Shows(e_out, c)
      BY <1>1, <2>2, <2>5
    <3>2. e_in[1] = b /\ e_in' = <<>>
      BY <2>2, <3>1
    <3>3. e_line' = <<>>
      BY <1>a, <2>2, <3>1, <3>2
    <3>4. Clears(o, c)
      BY <2>1, <2>3, <3>1, <3>3 DEF Shows, Clears
    <3> QED BY <1>1, <1>c, <2>2, <2>5, <3>2, <3>3, <3>4 DEF o
  <2>6. e_pc \in {"waiting", "erasing"}
    BY <1>0, <1>1, <2>2
  <2> QED BY <2>2, <2>4, <2>5, <2>6
<1>3. CASE MuxRepaint
  <2>1. PICK f \in Frame : e_out' = Append(e_out, f) /\ f.line = e_line
    BY <1>3, Repaints
  <2>2. /\ e_line # <<>> /\ e_in' = e_in /\ e_line' = e_line
        /\ e_pc' = e_pc /\ e_mode' = e_mode /\ e_sample' = e_sample /\ e_origin' = e_origin /\ e_pc \notin {"done", "raised"}
    BY <1>3, Repaints
  <2> DEFINE o == e_out'
  <2>3. /\ o[Len(e_out) + 1] = f
        /\ \A i \in 1 .. Len(e_out) : o[i] = e_out[i]
        /\ \A i \in 1 .. Len(o) : i \in 1 .. Len(e_out) \/ i = Len(e_out) + 1
    BY <1>0, <2>1, Appended
  <2> HIDE DEF o
  <2>4. e_line = <<c>> /\ Shows(e_out, c) /\ e_pc \in {"waiting", "erasing"}
    BY <1>0, <1>1, <2>2
  <2>5. Shows(o, c)
    BY <2>1, <2>3, <2>4 DEF Shows
  <2>6. e_pc = "waiting" => e_in = <<>>
    BY <1>1, <2>2
  <2>7. e_pc = "erasing" => e_in = <<b>>
    BY <1>1, <2>2
  <2> QED BY <1>1, <1>c, <2>2, <2>4, <2>5, <2>6, <2>7 DEF o
<1>4. CASE SendToken
  <2>1. e_pc = "ready" /\ e_pc' = "waiting" /\ e_in' = e_in \o Typed(e_sample)
        /\ UNCHANGED <<e_mode, e_sample, e_line, e_out, e_origin>>
    BY <1>4 DEF SendToken
  <2>2. e_in = <<>> /\ e_line = <<>> /\ e_out = <<>>
    BY <1>1, <2>1
  <2>3. e_in' = <<p>>
    BY <1>b, <2>1, <2>2
  <2> QED BY <1>1, <1>c, <2>1, <2>2, <2>3
<1>5. CASE ReadVerified
  <2>0. /\ e_pc \in {"waiting", "erasing"} /\ e_out # <<>> /\ UNCHANGED <<e_mode, e_sample, e_line>>
    BY <1>5 DEF ReadVerified
  <2>1. PICK n \in 1 .. Len(e_out) :
       /\ ReadTo(n)
       /\ \/ Shown(n)
          \/ Gone(n)
          \/ ~(e_pc = "waiting" /\ Len(e_out[n].line) = 1) /\ ~(e_pc = "erasing" /\ e_out[n].line = <<>>)
             /\ UNCHANGED <<e_pc, e_in, e_origin>>
    BY <1>5 DEF ReadVerified
  <2> DEFINE o == e_out'
  <2>2. /\ Len(o) = Len(e_out) - n /\ Len(e_out) \in Nat
        /\ \A i \in 1 .. Len(o) : i + n \in 1 .. Len(e_out) /\ o[i] = e_out[i + n]
    BY <1>0, <2>1, Rested DEF ReadTo
  <2> HIDE DEF o
  <2>3. Shows(e_out, c) => Shows(o, c)
    BY <2>2 DEF Shows
  <2>4. ASSUME Clears(e_out, c) PROVE Clears(o, c)
    <3> SUFFICES ASSUME NEW i \in 1 .. Len(o) PROVE o[i].line = <<c>> \/ (o[i].line = <<>> /\ i = Len(o))
      BY DEF Clears
    <3>1. i + n \in 1 .. Len(e_out) /\ o[i] = e_out[i + n]
      BY <2>2
    <3>2. e_out[i + n].line = <<c>> \/ (e_out[i + n].line = <<>> /\ i + n = Len(e_out))
      BY <2>4, <3>1 DEF Clears
    <3>3. i + n = Len(e_out) => i = Len(o)
      BY <2>2
    <3> QED BY <3>1, <3>2, <3>3
  <2>5. CASE e_pc = "waiting"
    <3>1. e_in = <<>> /\ e_line = <<c>> /\ Shows(e_out, c)
      BY <1>1, <2>0, <2>5
    <3>2. e_out[n].line = <<c>>
      BY <3>1 DEF Shows
    <3>3. Shown(n)
      BY <2>1, <2>5, <3>2 DEF Gone
    <3>4. /\ e_origin' = CountedAs(e_out[n].line)
          /\ e_in' = e_in \o Erased(e_sample) /\ e_pc' = "erasing"
      BY <3>3 DEF Shown
    <3>5. e_in' = <<b>>
      BY <1>b, <3>1, <3>4
    <3>6. LineOf(e_out[n].line, e_sample)
      <4>1. \A l \in 1 .. Len(<<c>>) : <<c>>[l] = c
        OBVIOUS
      <4> QED BY <1>a, <3>2, <4>1 DEF LineOf
    <3>7. OwnCells(e_origin')
      BY <1>1, <3>4, <3>6, CountedOwn
    <3> QED BY <1>c, <2>0, <2>3, <3>1, <3>4, <3>5, <3>7 DEF o
  <2>6. CASE e_pc = "erasing" /\ e_out[n].line # <<>>
    <3>1. UNCHANGED <<e_pc, e_in, e_origin>>
      BY <2>1, <2>6 DEF Shown, Gone
    <3> QED BY <1>1, <1>c, <2>0, <2>3, <2>4, <2>6, <3>1 DEF o
  <2>7. CASE e_pc = "erasing" /\ e_out[n].line = <<>>
    <3>1. Gone(n)
      BY <2>1, <2>7 DEF Shown
    <3>2. e_pc' = "gap" /\ UNCHANGED <<e_in, e_origin>>
      BY <3>1 DEF Gone
    <3>3. ~Shows(e_out, c)
      <4>1. <<>> # <<c>>
        OBVIOUS
      <4> QED BY <2>7, <4>1 DEF Shows
    <3>4. e_in = <<>> /\ e_line = <<>> /\ Clears(e_out, c)
      BY <1>1, <2>7, <3>3
    <3>5. n = Len(e_out)
      <4>1. <<>> # <<c>>
        OBVIOUS
      <4> QED BY <2>7, <3>4, <4>1 DEF Clears
    <3>6. o = <<>>
      <4>1. o \in Seq(Frame) /\ Len(o) = 0
        <5>1. o \in Seq(Frame)
          BY <2>1, TakenOff DEF o
        <5> QED BY <2>2, <3>5, <5>1
      <4> QED BY <4>1, EmptySeq
    <3> QED BY <1>1, <1>c, <2>0, <3>2, <3>4, <3>6 DEF o
  <2> QED BY <2>0, <2>5, <2>6, <2>7
<1>6. CASE VerifiedTimeout
  <2>1. e_pc' = "raised" /\ UNCHANGED <<e_mode, e_sample, e_in, e_line, e_out, e_origin>>
    BY <1>6 DEF VerifiedTimeout
  <2> QED BY <1>1, <1>c, <2>1
<1>7. CASE EndGap
  <2>1. e_pc = "gap" /\ e_pc' \in {"done", "ready"} /\ UNCHANGED <<e_mode, e_in, e_line, e_out, e_origin>>
    BY <1>7 DEF EndGap
  <2> QED BY <1>1, <2>1 DEF VerifiedOK
<1>8. ~ReadInGap
  BY <1>1 DEF ReadInGap
<1>9. ~(StartProbe \/ ReadToken \/ TokenTimeout \/ WaitReady \/ TakeText \/ TakeBackspace \/ PresentFrame \/ QuitHeadless)
  BY <1>0 DEF StartProbe, ReadToken, TokenTimeout, WaitReady, TakeText, TakeBackspace, PresentFrame, QuitHeadless
<1> QED BY <1>2, <1>3, <1>4, <1>5, <1>6, <1>7, <1>8, <1>9 DEF EchoNext

(* Nothing earlier comes by a step of what is in flight. *)
Onward(in, out, line, r, o, next, top) ==
  \A s \in 1 .. top : NoEarlier(in, out, line, s) => NoEarlier(r, o, next, s)

(* What nothing precedes stays so, when nothing earlier comes. *)
LEMMA ReachedStays ==
  ASSUME NEW cells, NEW in, NEW out, NEW line, NEW top, Reached(cells, in, out, line, top),
         NEW r, NEW o, NEW next, Onward(in, out, line, r, o, next, top)
  PROVE  Reached(cells, r, o, next, top)
BY DEF Reached, Onward

(* An echo of the token probe's line. *)
LEMMA FlightEcho ==
  ASSUME NEW in, NEW out, NEW line, NEW owed \in Nat, NEW top, NEW origin, Flight(in, out, line, owed, top, origin),
         in # <<>>, NEW f \in Frame, f.of = in[1].sample, LineOf(f.paints, f.of),
         NEW r, r = Tail(in), NEW o, o = Append(out, f), NEW next, next = After(line, in[1])
  PROVE  /\ Flight(r, o, next, owed, top, origin)
         /\ Onward(in, out, line, r, o, next, top)
<1> DEFINE x == in[1]
<1>1. /\ Stream(in, out, top) /\ OneToken(out) /\ LineFits(in, out, line, top) /\ Chain(in, line, owed, top)
      /\ \A m \in DOMAIN origin : Reached(origin[m], in, out, line, m)
  BY DEF Flight
<1>2. in \in Seq(Input) /\ out \in Seq(Frame) /\ line \in Seq(Cells)
  BY <1>1 DEF Stream, LineFits
<1>3. Stream(r, out, top) /\ Between(r, out, x.sample) /\ x.sample \in 1 .. top
  BY <1>1, StreamTakes
<1>4. Stream(r, o, top)
  <2>1. f.of \in 1 .. top /\ Between(r, out, f.of)
    BY <1>3
  <2> QED BY <1>3, <2>1, StreamPaints
<1>5. next \in Seq(Cells) /\ LineOf(next, x.sample) /\ Chain(r, next, owed, top)
  BY <1>1, <1>2, ChainTaken
<1>6. /\ o[Len(out) + 1] = f
      /\ \A i \in 1 .. Len(out) : o[i] = out[i]
      /\ \A i \in 1 .. Len(o) : i \in 1 .. Len(out) \/ i = Len(out) + 1
  BY <1>2, Appended
<1>7. OneToken(o)
  BY <1>1, <1>6 DEF OneToken
<1>8. LineFits(r, o, next, top)
  <2>1. Between(r, o, x.sample)
    <3>1. x.sample =< x.sample
      BY <1>3
    <3>2. \A k \in 1 .. Len(o) : o[k].of =< x.sample
      BY <1>3, <1>6, <3>1 DEF Between
    <3> QED BY <1>3, <3>2 DEF Between
  <2>2. \A l \in 1 .. Len(next) : next[l].sample = x.sample
    BY <1>5 DEF LineOf
  <2> QED BY <1>3, <1>5, <2>1, <2>2 DEF LineFits
<1>9. ASSUME NEW s, NoEarlier(in, out, line, s) PROVE NoEarlier(r, o, next, s)
  BY <1>2, <1>5, <1>9, NoEarlierEcho
<1>10. ASSUME NEW m \in DOMAIN origin PROVE Reached(origin[m], r, o, next, m)
  <2>1. Onward(in, out, line, r, o, next, m)
    BY <1>9 DEF Onward
  <2> QED BY <1>1, <2>1, ReachedStays
<1>11. Onward(in, out, line, r, o, next, top)
  BY <1>9 DEF Onward
<1> QED BY <1>4, <1>5, <1>7, <1>8, <1>10, <1>11 DEF Flight

(* A repaint of it. *)
LEMMA FlightRepaint ==
  ASSUME NEW in, NEW out, NEW line, NEW owed, NEW top, NEW origin, Flight(in, out, line, owed, top, origin),
         NEW f \in Frame, NEW n \in 1 .. Len(line), f.of = line[n].sample, f.paints = line, NEW o, o = Append(out, f)
  PROVE  /\ Flight(in, o, line, owed, top, origin)
         /\ Onward(in, out, line, in, o, line, top)
<1>1. /\ Stream(in, out, top) /\ OneToken(out) /\ LineFits(in, out, line, top) /\ Chain(in, line, owed, top)
      /\ \A m \in DOMAIN origin : Reached(origin[m], in, out, line, m)
  BY DEF Flight
<1>2. in \in Seq(Input) /\ out \in Seq(Frame) /\ line \in Seq(Cells)
  BY <1>1 DEF Stream, LineFits
<1>3. LineOf(line, f.of)
  <2>1. \E s : LineOf(line, s)
    BY <1>1 DEF Chain
  <2> QED BY <2>1 DEF LineOf
<1>4. Between(in, out, f.of) /\ f.of \in 1 .. top
  BY <1>1 DEF LineFits
<1>5. Stream(in, o, top)
  BY <1>1, <1>4, StreamPaints
<1>6. /\ o[Len(out) + 1] = f
      /\ \A i \in 1 .. Len(out) : o[i] = out[i]
      /\ \A i \in 1 .. Len(o) : i \in 1 .. Len(out) \/ i = Len(out) + 1
  BY <1>2, Appended
<1>7. OneToken(o)
  BY <1>1, <1>3, <1>6 DEF OneToken
<1>8. LineFits(in, o, line, top)
  <2>1. Between(in, o, f.of)
    <3>1. f.of =< f.of
      BY <1>4
    <3>2. \A k \in 1 .. Len(o) : o[k].of =< f.of
      BY <1>4, <1>6, <3>1 DEF Between
    <3> QED BY <1>4, <3>2 DEF Between
  <2>2. \A l \in 1 .. Len(line) : line[l].sample = f.of
    BY <1>3 DEF LineOf
  <2> QED BY <1>2, <1>4, <2>1, <2>2 DEF LineFits
<1>9. ASSUME NEW s, NoEarlier(in, out, line, s) PROVE NoEarlier(in, o, line, s)
  BY <1>2, <1>9, NoEarlierPaints
<1>10. ASSUME NEW m \in DOMAIN origin PROVE Reached(origin[m], in, o, line, m)
  <2>1. Onward(in, out, line, in, o, line, m)
    BY <1>9 DEF Onward
  <2> QED BY <1>1, <2>1, ReachedStays
<1>11. Onward(in, out, line, in, o, line, top)
  BY <1>9 DEF Onward
<1> QED BY <1>1, <1>5, <1>7, <1>8, <1>10, <1>11 DEF Flight

(* A read leaves what it does not take as it was. *)
LEMMA FlightRead ==
  ASSUME NEW in, NEW out, NEW line, NEW owed, NEW top, NEW origin, Flight(in, out, line, owed, top, origin),
         NEW n \in 1 .. Len(out), NEW o, o = SubSeq(out, n + 1, Len(out))
  PROVE  /\ Flight(in, o, line, owed, top, origin)
         /\ Onward(in, out, line, in, o, line, top)
<1>1. /\ Stream(in, out, top) /\ OneToken(out) /\ LineFits(in, out, line, top) /\ Chain(in, line, owed, top)
      /\ \A m \in DOMAIN origin : Reached(origin[m], in, out, line, m)
  BY DEF Flight
<1>2. out \in Seq(Frame)
  BY <1>1 DEF Stream
<1>3. \A i \in 1 .. Len(o) : i + n \in 1 .. Len(out) /\ o[i] = out[i + n]
  BY <1>2, Rested
<1>4. Stream(in, o, top)
  BY <1>1, StreamReads
<1>5. OneToken(o)
  BY <1>1, <1>3 DEF OneToken
<1>6. LineFits(in, o, line, top)
  BY <1>1, <1>3 DEF LineFits, Between
<1>7. ASSUME NEW s, NoEarlier(in, out, line, s) PROVE NoEarlier(in, o, line, s)
  BY <1>2, <1>7, NoEarlierReads
<1>8. ASSUME NEW m \in DOMAIN origin PROVE Reached(origin[m], in, o, line, m)
  <2>1. Onward(in, out, line, in, o, line, m)
    BY <1>7 DEF Onward
  <2> QED BY <1>1, <2>1, ReachedStays
<1>9. Onward(in, out, line, in, o, line, top)
  BY <1>7 DEF Onward
<1> QED BY <1>1, <1>4, <1>5, <1>6, <1>8, <1>9 DEF Flight

(* A write of the current sample. *)
LEMMA FlightWrite ==
  ASSUME NEW in, NEW out, NEW line, NEW owed \in Nat, NEW top, NEW origin, Flight(in, out, line, owed, top, origin),
         NEW b, NEW next \in Nat, Block(b, owed, next, top), NEW r, r = in \o b,
         1 =< top, \A m \in DOMAIN origin : m \in 1 .. top
  PROVE  Flight(r, out, line, next, top, origin)
<1>1. /\ Stream(in, out, top) /\ OneToken(out) /\ LineFits(in, out, line, top) /\ Chain(in, line, owed, top)
      /\ \A m \in DOMAIN origin : Reached(origin[m], in, out, line, m)
  BY DEF Flight
<1>2. in \in Seq(Input) /\ line \in Seq(Cells) /\ top \in Nat
  BY <1>1 DEF Stream, LineFits
<1>3. b \in Seq(Input) /\ \A j \in 1 .. Len(b) : b[j].sample = top
  BY DEF Block
<1>4. Stream(r, out, top)
  BY <1>1, <1>3, StreamWrites
<1>5. Chain(r, line, next, top)
  BY <1>1, <1>2, ChainWritten
<1>6. ASSUME NEW s \in 1 .. top, NoEarlier(in, out, line, s) PROVE NoEarlier(r, out, line, s)
  <2>1. s =< top
    BY <1>2
  <2> QED BY <1>2, <1>3, <1>6, <2>1, NoEarlierWrites
<1>7. LineFits(r, out, line, top)
  <2> SUFFICES ASSUME NEW l \in 1 .. Len(line) PROVE Between(r, out, line[l].sample) /\ line[l].sample \in 1 .. top
    BY <1>2 DEF LineFits
  <2> DEFINE s == line[l].sample
  <2>1. Between(in, out, s) /\ s \in 1 .. top
    BY <1>1 DEF LineFits
  <2> HIDE DEF s
  <2>2. NoEarlier(in, <<>>, <<>>, s)
    BY <2>1 DEF Between, NoEarlier
  <2>3. NoEarlier(r, <<>>, <<>>, s)
    <3>1. s =< top
      BY <1>2, <2>1
    <3> QED BY <1>2, <1>3, <2>2, <3>1, NoEarlierWrites
  <2>4. Between(r, out, s)
    BY <2>1, <2>3 DEF Between, NoEarlier
  <2> QED BY <2>1, <2>4 DEF s
<1>8. ASSUME NEW m \in DOMAIN origin PROVE Reached(origin[m], r, out, line, m)
  <2>1. \A s \in 1 .. m : s \in 1 .. top
    BY <1>2
  <2>2. Onward(in, out, line, r, out, line, m)
    BY <1>6, <2>1 DEF Onward
  <2> QED BY <1>1, <2>2, ReachedStays
<1> QED BY <1>1, <1>4, <1>5, <1>7, <1>8 DEF Flight

(* What a read makes visible comes after all that was counted on, and      *)
(* nothing that is left to read comes before it.                           *)
LEMMA FlightPaints ==
  ASSUME NEW in, NEW line, NEW owed, NEW top, NEW origin, Flight(in, e_out, line, owed, top, origin),
         NEW n \in 1 .. Len(e_out), NEW o, o = SubSeq(e_out, n + 1, Len(e_out)), NEW t, t = Painted(n)
  PROVE  Buffered(t, in, o, line, top, origin)
<1>1. /\ Stream(in, e_out, top) /\ OneToken(e_out) /\ LineFits(in, e_out, line, top)
      /\ \A m \in DOMAIN origin : Reached(origin[m], in, e_out, line, m)
  BY DEF Flight
<1>2. /\ e_out \in Seq(Frame) /\ top \in Nat
      /\ \A k \in 1 .. Len(e_out) : e_out[k].of \in 1 .. top
      /\ \A i, k \in 1 .. Len(e_out) : i < k => e_out[i].of =< e_out[k].of
      /\ \A k \in 1 .. Len(e_out), j \in 1 .. Len(in) : e_out[k].of =< in[j].sample
  BY <1>1 DEF Stream
<1>3. \A i \in 1 .. Len(o) : i + n \in 1 .. Len(e_out) /\ o[i] = e_out[i + n]
  BY <1>2, Rested
<1>4. t \in Seq(Cells) /\ FromFrames(t, n)
  BY <1>2, PaintedBy
<1>5. ASSUME NEW c \in 1 .. Len(t) PROVE \E k \in 1 .. n : t[c].sample = e_out[k].of
  <2>1. PICK k \in 1 .. n : \E l \in 1 .. Len(e_out[k].paints) : t[c] = e_out[k].paints[l]
    BY <1>4 DEF FromFrames
  <2>2. k \in 1 .. Len(e_out)
    BY <1>2
  <2> QED BY <1>1, <2>1, <2>2 DEF OneToken, LineOf
<1>6. ASSUME NEW k \in 1 .. n PROVE NoEarlier(in, o, line, e_out[k].of) /\ e_out[k].of \in 1 .. top
  <2>1. k \in 1 .. Len(e_out) /\ k \in Nat /\ n \in Nat
    BY <1>2
  <2>2. ASSUME NEW i \in 1 .. Len(o) PROVE e_out[k].of =< o[i].of
    <3>1. i + n \in 1 .. Len(e_out) /\ o[i] = e_out[i + n]
      BY <1>3
    <3>2. k < i + n
      OBVIOUS
    <3> QED BY <1>2, <2>1, <3>1, <3>2
  <2>3. \A l \in 1 .. Len(line) : e_out[k].of =< line[l].sample
    BY <1>1, <2>1 DEF LineFits, Between
  <2> QED BY <1>2, <2>1, <2>2, <2>3 DEF NoEarlier
<1>7. Reached(t, in, o, line, top)
  BY <1>4, <1>5, <1>6 DEF Reached
<1>8. ASSUME NEW m \in DOMAIN origin PROVE InOrder(origin[m], t)
  <2> SUFFICES ASSUME NEW j \in 1 .. Len(origin[m]), NEW c \in 1 .. Len(t)
               PROVE  origin[m][j].sample =< t[c].sample
    BY DEF InOrder
  <2>1. PICK k \in 1 .. n : t[c].sample = e_out[k].of
    BY <1>5
  <2>2. k \in 1 .. Len(e_out)
    BY <1>2
  <2>3. NoEarlier(in, e_out, line, origin[m][j].sample)
    BY <1>1 DEF Reached
  <2> QED BY <2>1, <2>2, <2>3 DEF NoEarlier
<1> QED BY <1>7, <1>8 DEF Buffered

(* What the step before left in order stays so, when what is in flight does. *)
LEMMA TokensKept ==
  ASSUME TokensOK, e_pc' = e_pc, e_mode' = e_mode, e_sample' = e_sample, e_origin' = e_origin, e_buf' = e_buf,
         Flight(e_in', e_out', e_line', Owed, e_sample, e_origin),
         Onward(e_in, e_out, e_line, e_in', e_out', e_line', e_sample)
  PROVE  TokensOK'
<1>1. /\ DOMAIN e_origin = 1 .. Sent
      /\ e_pc = "waiting" => /\ Reached(e_buf, e_in, e_out, e_line, e_sample)
                             /\ \A m \in DOMAIN e_origin : InOrder(e_origin[m], e_buf)
  BY DEF TokensOK, Buffered
<1>2. Sent' = Sent /\ Owed' = Owed
  BY DEF Sent, Owed, TextLen
<1>3. e_pc = "waiting" => Reached(e_buf, e_in', e_out', e_line', e_sample)
  BY <1>1, ReachedStays
<1>4. DOMAIN e_origin' = 1 .. Sent'
  BY <1>1, <1>2
<1>5. Flight(e_in', e_out', e_line', Owed', e_sample', e_origin')
  BY <1>2
<1>6. e_pc' = "waiting" => Buffered(e_buf', e_in', e_out', e_line', e_sample', e_origin')
  BY <1>1, <1>3 DEF Buffered
<1> QED BY <1>4, <1>5, <1>6 DEF TokensOK

(* An echo or a repaint of the token probe's line. *)
LEMMA TokensPaint ==
  ASSUME EchoTypeOK, e_mode = "tokens", TokensOK, MuxEcho \/ MuxRepaint
  PROVE  e_mode' = "tokens" /\ TokensOK' /\ e_origin' = e_origin
<1>1. Flight(e_in, e_out, e_line, Owed, e_sample, e_origin)
  BY DEF TokensOK
<1>2. Owed \in Nat
  <2>1. e_sample \in Nat \ {0}
    BY DEF EchoTypeOK
  <2>2. TextLen(e_sample) \in Nat \ {0}
    BY <2>1, TextBytes
  <2> QED BY <2>2 DEF Owed
<1>3. CASE MuxEcho
  <2>1. PICK f \in Frame : e_out' = Append(e_out, f) /\ f.of = e_in[1].sample /\ LineOf(f.paints, f.of)
    BY <1>3, Echoes
  <2>2. /\ e_in # <<>> /\ e_in' = Tail(e_in) /\ e_line' = After(e_line, e_in[1])
        /\ e_pc' = e_pc /\ e_mode' = e_mode /\ e_sample' = e_sample /\ e_origin' = e_origin /\ e_buf' = e_buf
    BY <1>3, Echoes
  <2>3. Flight(e_in', e_out', e_line', Owed, e_sample, e_origin)
    BY <1>1, <1>2, <2>1, <2>2, FlightEcho
  <2>4. Onward(e_in, e_out, e_line, e_in', e_out', e_line', e_sample)
    BY <1>1, <1>2, <2>1, <2>2, FlightEcho
  <2> QED BY <2>2, <2>3, <2>4, TokensKept
<1>4. CASE MuxRepaint
  <2> DEFINE n == Len(e_line)
  <2>1. PICK f \in Frame : e_out' = Append(e_out, f) /\ f.of = e_line[n].sample /\ f.paints = e_line
    BY <1>4, Repaints
  <2>2. /\ n \in 1 .. Len(e_line) /\ e_in' = e_in /\ e_line' = e_line
        /\ e_pc' = e_pc /\ e_mode' = e_mode /\ e_sample' = e_sample /\ e_origin' = e_origin /\ e_buf' = e_buf
    BY <1>4, Repaints
  <2> HIDE DEF n
  <2>3. Flight(e_in, e_out', e_line, Owed, e_sample, e_origin)
    BY <1>1, <2>1, <2>2, FlightRepaint
  <2>4. Onward(e_in, e_out, e_line, e_in, e_out', e_line, e_sample)
    BY <1>1, <2>1, <2>2, FlightRepaint
  <2> QED BY <2>2, <2>3, <2>4, TokensKept
<1> QED BY <1>3, <1>4

(* Two buffers are joined. *)
LEMMA BufferJoined ==
  ASSUME NEW a, NEW b, NEW in, NEW out, NEW line, NEW top, NEW origin, NEW t, t = a \o b,
         Buffered(a, in, out, line, top, origin), Buffered(b, in, out, line, top, origin)
  PROVE  Buffered(t, in, out, line, top, origin)
<1>1. /\ a \in Seq(Cells) /\ b \in Seq(Cells)
      /\ \A c \in 1 .. Len(a) : a[c].sample \in 1 .. top /\ NoEarlier(in, out, line, a[c].sample)
      /\ \A c \in 1 .. Len(b) : b[c].sample \in 1 .. top /\ NoEarlier(in, out, line, b[c].sample)
      /\ \A m \in DOMAIN origin : InOrder(origin[m], a) /\ InOrder(origin[m], b)
  BY DEF Buffered, Reached
<1>2. t \in Seq(Cells)
  BY <1>1
<1>3. ASSUME NEW c \in 1 .. Len(t)
      PROVE  (\E k \in 1 .. Len(a) : t[c] = a[k]) \/ (\E k \in 1 .. Len(b) : t[c] = b[k])
  <2>1. CASE c =< Len(a)
    <3>1. c \in 1 .. Len(a) /\ t[c] = a[c]
      BY <1>1, <2>1
    <3> QED BY <3>1
  <2>2. CASE ~(c =< Len(a))
    <3>1. c - Len(a) \in 1 .. Len(b) /\ t[c] = b[c - Len(a)]
      BY <1>1, <2>2
    <3> QED BY <3>1
  <2> QED BY <2>1, <2>2
<1>4. Reached(t, in, out, line, top)
  BY <1>1, <1>2, <1>3 DEF Reached
<1>5. ASSUME NEW m \in DOMAIN origin PROVE InOrder(origin[m], t)
  BY <1>1, <1>3 DEF InOrder
<1> QED BY <1>4, <1>5 DEF Buffered

(* What is found in a buffer is of the buffer. *)
LEMMA FoundThere ==
  ASSUME NEW cells, NEW buf, Found(cells, buf), NEW in, NEW out, NEW line, NEW top, NEW origin,
         Buffered(buf, in, out, line, top, origin)
  PROVE  Buffered(cells, in, out, line, top, origin)
<1>1. cells \in Seq(Cells) /\ \A k \in 1 .. Len(cells) : \E c \in 1 .. Len(buf) : cells[k] = buf[c]
  BY DEF Found
<1>2. /\ \A c \in 1 .. Len(buf) : buf[c].sample \in 1 .. top /\ NoEarlier(in, out, line, buf[c].sample)
      /\ \A m \in DOMAIN origin : InOrder(origin[m], buf)
  BY DEF Buffered, Reached
<1>3. Reached(cells, in, out, line, top)
  BY <1>1, <1>2 DEF Reached
<1>4. ASSUME NEW m \in DOMAIN origin PROVE InOrder(origin[m], cells)
  BY <1>1, <1>2 DEF InOrder
<1> QED BY <1>3, <1>4 DEF Buffered

(* Nothing is of a buffer as well. *)
LEMMA NoneThere ==
  ASSUME NEW in, NEW out, NEW line, NEW top, NEW origin
  PROVE  Buffered(<<>>, in, out, line, top, origin)
<1>1. <<>> \in Seq(Cells) /\ Len(<<>>) = 0 /\ 1 .. 0 = {}
  OBVIOUS
<1> QED BY <1>1 DEF Buffered, Reached, InOrder

(* The wait for a token ends, with cells or without, and its erase is sent. *)
LEMMA TokensSettle ==
  ASSUME EchoTypeOK, TokensOK, e_mode = "tokens", e_pc = "waiting", NEW o,
         Flight(e_in, o, e_line, Owed, e_sample, e_origin),
         NEW cells, Reached(cells, e_in, o, e_line, e_sample),
         e_in' = e_in \o Erased(e_sample), e_out' = o, e_line' = e_line, e_sample' = e_sample, e_pc' = "gap",
         e_mode' = "tokens", e_origin' = CountedAs(cells)
  PROVE  TokensOK'
<1> DEFINE counted == e_origin'
           n == TextLen(e_sample)
           b == Erased(e_sample)
           r == e_in'
<1>1. e_sample \in Nat \ {0} /\ e_sample \in Nat /\ 1 =< e_sample /\ n \in Nat \ {0} /\ n \in Nat /\ Owed = n
  <2>1. e_sample \in Nat \ {0}
    BY DEF EchoTypeOK
  <2>2. TextLen(e_sample) \in Nat \ {0}
    BY <2>1, TextBytes
  <2> QED BY <2>1, <2>2 DEF Owed
<1>2. DOMAIN e_origin = 1 .. e_sample - 1
  BY DEF TokensOK, Sent
<1>3. counted = [i \in 1 .. e_sample |-> IF i = e_sample THEN cells ELSE e_origin[i]]
  <2>1. DOMAIN e_origin \cup {e_sample} = 1 .. e_sample
    BY <1>1, <1>2
  <2> QED BY <2>1 DEF CountedAs
<1>4. Block(b, n, 0, e_sample)
  BY <1>1, SampleWritten
<1> HIDE DEF counted, b, n
<1>5. Flight(e_in, o, e_line, n, e_sample, counted)
  <2>1. /\ Stream(e_in, o, e_sample) /\ OneToken(o) /\ LineFits(e_in, o, e_line, e_sample)
        /\ Chain(e_in, e_line, n, e_sample) /\ \A m \in DOMAIN e_origin : Reached(e_origin[m], e_in, o, e_line, m)
    BY <1>1 DEF Flight
  <2>2. ASSUME NEW m \in 1 .. e_sample PROVE Reached(counted[m], e_in, o, e_line, m)
    <3>1. CASE m = e_sample
      BY <1>3, <3>1
    <3>2. CASE m # e_sample
      <4>1. m \in DOMAIN e_origin /\ counted[m] = e_origin[m]
        BY <1>1, <1>2, <1>3, <3>2
      <4> QED BY <2>1, <4>1
    <3> QED BY <3>1, <3>2
  <2>3. DOMAIN counted = 1 .. e_sample
    BY <1>3
  <2> QED BY <2>1, <2>2, <2>3 DEF Flight
<1>6. r = e_in \o b
  BY DEF b
<1> HIDE DEF r
<1>7. Flight(r, o, e_line, 0, e_sample, counted)
  <2>1. \A m \in DOMAIN counted : m \in 1 .. e_sample
    BY <1>3
  <2>2. 0 \in Nat
    OBVIOUS
  <2> QED BY <1>1, <1>4, <1>5, <1>6, <2>1, <2>2, FlightWrite
<1>8. Owed' = 0 /\ Sent' = e_sample /\ DOMAIN counted = 1 .. e_sample
  BY <1>3 DEF Owed, Sent
<1> QED BY <1>7, <1>8 DEF TokensOK, counted, r

(* The echo of a sample's token. *)
WholeEcho(o) == [k \in 1 .. Len(TokenOf(o)) |-> Cell(o, k)]

(* It is not empty, and every cell of it shows a byte of the token. *)
LEMMA WholeEchoIs ==
  ASSUME NEW o \in Nat \ {0}
  PROVE  /\ Len(WholeEcho(o)) = Len(TokenOf(o)) /\ 1 \in 1 .. Len(WholeEcho(o)) /\ WholeEcho(o) # <<>>
         /\ \A k \in 1 .. Len(WholeEcho(o)) : WholeEcho(o)[k].sample = o /\ WholeEcho(o)[k].at = k
<1> DEFINE n == Len(TokenOf(o))
           w == WholeEcho(o)
<1>1. n \in Nat \ {0}
  BY TextBytes
<1>2. w = [k \in 1 .. n |-> Cell(o, k)]
  BY DEF WholeEcho
<1> HIDE DEF w, n
<1>3. Len(w) = n /\ \A k \in 1 .. n : w[k] = Cell(o, k)
  BY <1>1, <1>2
<1>4. \A k \in 1 .. n : w[k].sample = o /\ w[k].at = k
  BY <1>3 DEF Cell
<1>5. w # <<>>
  <2>1. Len(w) # 0
    BY <1>1, <1>3
  <2> QED BY <2>1
<1> QED BY <1>1, <1>3, <1>4, <1>5 DEF w, n

(* Sequences that agree are one. *)
LEMMA SameBytes ==
  ASSUME NEW s \in Seq(STRING), NEW t \in Seq(STRING), Len(s) = Len(t), \A k \in 1 .. Len(s) : s[k] = t[k]
  PROVE  s = t
OBVIOUS

(* The whole echo of another sample is only taken a cycle late. *)
LEMMA WholeEchoLate ==
  ASSUME EchoTypeOK, e_mode = "tokens", NEW cells, NEW buf, Found(cells, buf),
         \A k \in 1 .. Len(cells) : cells[k].sample \in 1 .. e_sample,
         NEW o \in Nat \ {0}, o # e_sample, cells = WholeEcho(o)
  PROVE  o =< e_sample - Len(Tokens)
<1> DEFINE s == TokenOf(o)
           t == TokenOf(e_sample)
<1>1. e_sample \in Nat \ {0}
  BY DEF EchoTypeOK
<1>2. s \in Seq(STRING) /\ t \in Seq(STRING) /\ TextLen(e_sample) = Len(t)
  BY <1>1, TextBytes
<1>3. /\ Len(cells) = Len(s) /\ 1 \in 1 .. Len(cells)
      /\ \A k \in 1 .. Len(cells) : cells[k].sample = o /\ cells[k].at = k
  BY WholeEchoIs
<1>4. Len(cells) = TextLen(e_sample) /\ \A k \in 1 .. Len(cells) : Awaited(cells[k], k)
  BY DEF Found
<1>5. ASSUME NEW k \in 1 .. Len(cells) PROVE s[k] = t[k]
  <2>1. TokenOf(cells[k].sample)[cells[k].at] = TokenOf(e_sample)[k]
    BY <1>4 DEF Awaited
  <2> QED BY <1>3, <2>1
<1>6. s = t
  <2> HIDE DEF s, t
  <2> QED BY <1>2, <1>3, <1>4, <1>5, SameBytes
<1>7. o \in Nat /\ e_sample \in Nat /\ 1 =< o /\ o < e_sample
  <2>1. o \in 1 .. e_sample
    BY <1>3
  <2> QED BY <1>1, <2>1
<1> QED BY <1>6, <1>7, CycleApart

(* The parts of OwnEcho: a whole echo is late, and samples are in order. *)
LateEchoes(origin) ==
  \A i \in DOMAIN origin : \A o \in Samples \ {i} : origin[i] = WholeEcho(o) => o <= i - Len(Tokens)
SamplesInOrder(origin) == \A i, j \in DOMAIN origin : i < j => InOrder(origin[i], origin[j])

(* They make OwnEcho. *)
LEMMA OwnEchoParts ==
  OwnEcho <=> /\ e_mode \in {"verified", "flood"} => OwnCells(e_origin)
              /\ e_mode = "tokens" => LateEchoes(e_origin)
              /\ SamplesInOrder(e_origin)
BY DEF OwnEcho, OwnCells, LineOf, LateEchoes, WholeEcho, SamplesInOrder, InOrder

(* What was counted before stays so. *)
LEMMA TokensOwn ==
  ASSUME EchoTypeOK, TokensOK, OwnEcho, e_mode = "tokens", e_mode' = "tokens", e_pc = "waiting",
         NEW cells, \A o \in Samples \ {e_sample} : cells = WholeEcho(o) => o =< e_sample - Len(Tokens),
         \A m \in DOMAIN e_origin : InOrder(e_origin[m], cells), e_origin' = CountedAs(cells)
  PROVE  OwnEcho'
<1> DEFINE counted == e_origin'
<1>1. DOMAIN e_origin = 1 .. e_sample - 1 /\ e_sample \in Nat \ {0}
  BY DEF EchoTypeOK, TokensOK, Sent
<1>2. counted = [i \in 1 .. e_sample |-> IF i = e_sample THEN cells ELSE e_origin[i]]
  <2>1. DOMAIN e_origin \cup {e_sample} = 1 .. e_sample
    BY <1>1
  <2> QED BY <2>1 DEF CountedAs
<1>3. LateEchoes(e_origin) /\ SamplesInOrder(e_origin)
  BY OwnEchoParts
<1> HIDE DEF counted
<1>4. /\ DOMAIN counted = 1 .. e_sample /\ counted[e_sample] = cells
      /\ \A m \in 1 .. e_sample : m # e_sample => m \in DOMAIN e_origin /\ counted[m] = e_origin[m]
  BY <1>1, <1>2
<1>5. LateEchoes(counted)
  BY <1>3, <1>4 DEF LateEchoes
<1>6. ASSUME NEW i \in 1 .. e_sample, NEW j \in 1 .. e_sample, i < j PROVE InOrder(counted[i], counted[j])
  <2>1. i # e_sample
    BY <1>1, <1>6
  <2>2. i \in DOMAIN e_origin /\ counted[i] = e_origin[i]
    BY <1>4, <2>1
  <2>3. CASE j = e_sample
    BY <1>4, <2>2, <2>3
  <2>4. CASE j # e_sample
    BY <1>3, <1>4, <1>6, <2>2, <2>4 DEF SamplesInOrder
  <2> QED BY <2>3, <2>4
<1>7. SamplesInOrder(counted)
  BY <1>4, <1>6 DEF SamplesInOrder
<1>8. OwnEcho' <=> /\ e_mode' \in {"verified", "flood"} => OwnCells(counted)
                   /\ e_mode' = "tokens" => LateEchoes(counted)
                   /\ SamplesInOrder(counted)
  BY DEF counted, OwnEcho, OwnCells, LineOf, LateEchoes, WholeEcho, SamplesInOrder, InOrder
<1> QED BY <1>5, <1>7, <1>8

(* A whole echo of another sample is taken a cycle late at the earliest,   *)
(* and the samples are counted in the order of their echoes.               *)
LEMMA TokensStep ==
  ASSUME EchoTypeOK, EchoNext, e_mode = "tokens", TokensOK, OwnEcho
  PROVE  e_mode' = "tokens" /\ TokensOK' /\ OwnEcho'
<1>0. /\ e_sample \in Nat \ {0} /\ e_sample \in Nat /\ 1 =< e_sample
      /\ TextLen(e_sample) \in Nat \ {0} /\ TextLen(e_sample) \in Nat
      /\ e_pc \in {"ready", "waiting", "gap", "done"}
  <2>1. e_sample \in Nat \ {0} /\ e_pc \in {"ready", "waiting", "gap", "done"}
    BY DEF EchoTypeOK
  <2>2. TextLen(e_sample) \in Nat \ {0}
    BY <2>1, TextBytes
  <2> QED BY <2>1, <2>2
<1>1. /\ DOMAIN e_origin = 1 .. Sent /\ Flight(e_in, e_out, e_line, Owed, e_sample, e_origin)
      /\ e_pc = "waiting" => Buffered(e_buf, e_in, e_out, e_line, e_sample, e_origin)
  BY DEF TokensOK
<1>2. CASE MuxEcho \/ MuxRepaint
  <2>1. e_mode' = "tokens" /\ TokensOK' /\ e_origin' = e_origin
    BY <1>2, TokensPaint
  <2> QED BY <2>1 DEF OwnEcho
<1>3. CASE SendToken
  <2> DEFINE b == Typed(e_sample)
             n == TextLen(e_sample)
             r == e_in'
  <2>1. /\ e_pc = "ready" /\ e_pc' = "waiting" /\ r = e_in \o b /\ e_buf' = <<>>
        /\ e_mode' = e_mode /\ e_sample' = e_sample /\ e_line' = e_line /\ e_out' = e_out /\ e_origin' = e_origin
    BY <1>3 DEF SendToken, EmptyBuffer
  <2>2. Block(b, 0, n, e_sample)
    BY <1>0, SampleWritten
  <2>3. Owed = 0 /\ Owed' = n /\ Sent = e_sample - 1 /\ Sent' = e_sample - 1
    BY <2>1 DEF Owed, Sent, TextLen
  <2> HIDE DEF b, r, n
  <2>4. Flight(r, e_out, e_line, n, e_sample, e_origin)
    <3>1. Flight(e_in, e_out, e_line, 0, e_sample, e_origin) /\ 0 \in Nat /\ n \in Nat
      BY <1>0, <1>1, <2>3 DEF n
    <3>2. \A m \in DOMAIN e_origin : m \in 1 .. e_sample
      BY <1>0, <1>1, <2>3
    <3> QED BY <1>0, <2>1, <2>2, <3>1, <3>2, FlightWrite
  <2>5. Buffered(<<>>, r, e_out, e_line, e_sample, e_origin)
    BY NoneThere
  <2>6. TokensOK'
    BY <1>1, <2>1, <2>3, <2>4, <2>5 DEF TokensOK, r
  <2> QED BY <2>1, <2>6 DEF OwnEcho
<1>4. CASE ReadToken
  <2>1. e_mode' = e_mode /\ e_sample' = e_sample /\ e_line' = e_line /\ e_pc = "waiting"
    BY <1>4 DEF ReadToken
  <2>2. PICK n \in 1 .. Len(e_out) :
           /\ e_out' = SubSeq(e_out, n + 1, Len(e_out)) /\ e_buf' = e_buf \o Painted(n)
           /\ \/ e_pc' = e_pc /\ e_in' = e_in /\ e_origin' = e_origin
              \/ /\ e_pc' = "gap" /\ EraseBlindly
                 /\ \E cells : Found(cells, e_buf') /\ e_origin' = CountedAs(cells)
    BY <1>0, <1>4, TokenRead
  <2> DEFINE o == e_out'
             buf == e_buf'
             t == Painted(n)
  <2>3. o = SubSeq(e_out, n + 1, Len(e_out)) /\ buf = e_buf \o t
    BY <2>2
  <2>4. t = Painted(n)
    OBVIOUS
  <2> HIDE DEF o, buf, t
  <2>5. Flight(e_in, o, e_line, Owed, e_sample, e_origin)
    BY <1>1, <2>3, FlightRead
  <2>6. Onward(e_in, e_out, e_line, e_in, o, e_line, e_sample)
    BY <1>1, <2>3, FlightRead
  <2>7. Buffered(t, e_in, o, e_line, e_sample, e_origin)
    BY <1>1, <2>3, <2>4, FlightPaints
  <2>8. Buffered(e_buf, e_in, o, e_line, e_sample, e_origin)
    <3>1. /\ Reached(e_buf, e_in, e_out, e_line, e_sample)
          /\ \A m \in DOMAIN e_origin : InOrder(e_origin[m], e_buf)
      BY <1>1, <2>1 DEF Buffered
    <3>2. Reached(e_buf, e_in, o, e_line, e_sample)
      BY <2>6, <3>1, ReachedStays
    <3> QED BY <3>1, <3>2 DEF Buffered
  <2>9. Buffered(buf, e_in, o, e_line, e_sample, e_origin)
    BY <2>3, <2>7, <2>8, BufferJoined
  <2>10. CASE e_pc' = e_pc /\ e_in' = e_in /\ e_origin' = e_origin
    <3>1. Owed' = Owed /\ Sent' = Sent
      BY <2>1, <2>10 DEF Owed, Sent, TextLen
    <3>2. TokensOK'
      BY <1>1, <2>1, <2>5, <2>9, <2>10, <3>1 DEF TokensOK, o, buf
    <3> QED BY <2>1, <2>10, <3>2 DEF OwnEcho
  <2>11. ASSUME NEW cells, Found(cells, buf), e_origin' = CountedAs(cells), e_pc' = "gap", EraseBlindly
         PROVE  TokensOK' /\ OwnEcho'
    <3>1. Buffered(cells, e_in, o, e_line, e_sample, e_origin)
      BY <2>9, <2>11, FoundThere
    <3>2. /\ Reached(cells, e_in, o, e_line, e_sample)
          /\ \A m \in DOMAIN e_origin : InOrder(e_origin[m], cells)
      BY <3>1 DEF Buffered
    <3>3. e_in' = e_in \o Erased(e_sample) /\ e_out' = o
      BY <2>11 DEF EraseBlindly, o
    <3>4. TokensOK'
      BY <2>1, <2>5, <2>11, <3>2, <3>3, TokensSettle
    <3>5. \A k \in 1 .. Len(cells) : cells[k].sample \in 1 .. e_sample
      BY <3>2 DEF Reached
    <3>6. \A s \in Samples \ {e_sample} : s \in Nat \ {0} /\ s # e_sample
      BY DEF Samples
    <3>7. ASSUME NEW s \in Samples \ {e_sample}, cells = WholeEcho(s) PROVE s =< e_sample - Len(Tokens)
      BY <2>11, <3>5, <3>6, <3>7, WholeEchoLate
    <3>8. OwnEcho'
      BY <2>1, <2>11, <3>2, <3>7, TokensOwn
    <3> QED BY <3>4, <3>8
  <2> QED BY <2>1, <2>2, <2>10, <2>11 DEF buf
<1>5. CASE TokenTimeout
  <2>1. /\ e_mode' = e_mode /\ e_sample' = e_sample /\ e_line' = e_line /\ e_pc = "waiting" /\ e_out' = e_out
        /\ e_origin' = CountedAs(<<>>) /\ e_in' = e_in \o Erased(e_sample) /\ e_pc' = "gap"
    BY <1>5 DEF TokenTimeout, EraseBlindly
  <2>2. /\ Reached(<<>>, e_in, e_out, e_line, e_sample)
        /\ \A m \in DOMAIN e_origin : InOrder(e_origin[m], <<>>)
    BY NoneThere DEF Buffered
  <2>3. TokensOK'
    BY <1>1, <2>1, <2>2, TokensSettle
  <2>4. \A s \in Samples \ {e_sample} : WholeEcho(s) # <<>>
    <3>1. \A s \in Samples : s \in Nat \ {0}
      BY DEF Samples
    <3> QED BY <3>1, WholeEchoIs
  <2>5. OwnEcho'
    BY <2>1, <2>2, <2>4, TokensOwn
  <2> QED BY <2>1, <2>3, <2>5
<1>6. CASE ReadInGap
  <2>1. PICK n \in 1 .. Len(e_out) : ReadTo(n)
    BY <1>6 DEF ReadInGap
  <2>2. /\ e_mode' = e_mode /\ e_pc' = e_pc /\ e_sample' = e_sample /\ e_in' = e_in /\ e_line' = e_line
        /\ e_buf' = e_buf /\ e_origin' = e_origin
    BY <1>6 DEF ReadInGap
  <2>3. e_out' = SubSeq(e_out, n + 1, Len(e_out))
    BY <2>1, TakenOff
  <2>4. Flight(e_in, e_out', e_line, Owed, e_sample, e_origin)
    BY <1>1, <2>3, FlightRead
  <2>5. Onward(e_in, e_out, e_line, e_in, e_out', e_line, e_sample)
    BY <1>1, <2>3, FlightRead
  <2>6. TokensOK'
    BY <2>2, <2>4, <2>5, TokensKept
  <2> QED BY <2>2, <2>6 DEF OwnEcho
<1>7. CASE EndGap
  <2>1. /\ e_pc = "gap" /\ e_sample' = e_sample + 1 /\ e_pc' \in {"done", "ready"} /\ e_mode' = e_mode
        /\ e_in' = e_in /\ e_line' = e_line /\ e_out' = e_out /\ e_origin' = e_origin
    BY <1>7 DEF EndGap
  <2>2. Owed = 0 /\ Owed' = 0 /\ Sent = e_sample /\ Sent' = (e_sample + 1) - 1 /\ e_pc' # "waiting"
    BY <2>1 DEF Owed, Sent
  <2>3. /\ Stream(e_in, e_out, e_sample) /\ OneToken(e_out) /\ LineFits(e_in, e_out, e_line, e_sample)
        /\ Chain(e_in, e_line, 0, e_sample)
        /\ \A m \in DOMAIN e_origin : Reached(e_origin[m], e_in, e_out, e_line, m)
    BY <1>1, <2>2 DEF Flight
  <2>4. Stream(e_in, e_out, e_sample + 1)
    BY <2>3, StreamNext
  <2>5. LineFits(e_in, e_out, e_line, e_sample + 1)
    BY <1>0, <2>3 DEF LineFits
  <2>6. Chain(e_in, e_line, 0, e_sample + 1)
    <3>1. Len(e_line) = 0 => LineOf(e_line, e_sample + 1)
      BY DEF LineOf
    <3> QED BY <2>3, <3>1 DEF Chain
  <2>7. Flight(e_in, e_out, e_line, 0, e_sample + 1, e_origin)
    BY <2>3, <2>4, <2>5, <2>6 DEF Flight
  <2>8. DOMAIN e_origin = 1 .. (e_sample + 1) - 1
    <3>1. (e_sample + 1) - 1 = e_sample
      BY <1>0
    <3> QED BY <1>1, <2>2, <3>1
  <2>9. TokensOK'
    BY <2>1, <2>2, <2>7, <2>8 DEF TokensOK
  <2> QED BY <2>1, <2>9 DEF OwnEcho
<1>8. ~(StartProbe \/ ReadVerified \/ VerifiedTimeout \/ WaitReady \/ TakeText \/ TakeBackspace \/ PresentFrame \/ QuitHeadless)
  BY <1>0 DEF StartProbe, ReadVerified, VerifiedTimeout, WaitReady, TakeText, TakeBackspace, PresentFrame, QuitHeadless
<1> QED BY <1>2, <1>3, <1>4, <1>5, <1>6, <1>7, <1>8 DEF EchoNext

(* An input or a frame more in the trace. *)
LEMMA TraceAdded ==
  ASSUME NEW trace, NEW sent \in Nat, TraceInOrder(trace, sent), NEW x \in Entry, NEW next,
         IsText(x) => x.sample = sent + 1 /\ next = sent + 1, ~IsText(x) => next = sent,
         x.kind = "frame" => \A p \in 1 .. Len(trace) : trace[p].kind = "frame" => trace[p].sample =< x.sample,
         NEW t, t = Append(trace, x)
  PROVE  TraceInOrder(t, next)
<1>1. /\ trace \in Seq(Entry)
      /\ \A p, q \in 1 .. Len(trace) :
           p < q => /\ trace[p].kind = "frame" /\ trace[q].kind = "frame" => trace[p].sample =< trace[q].sample
                    /\ IsText(trace[p]) /\ IsText(trace[q]) => trace[p].sample < trace[q].sample
      /\ \A p \in 1 .. Len(trace) : IsText(trace[p]) => trace[p].sample \in 1 .. sent
      /\ \A i \in 1 .. sent : \E p \in 1 .. Len(trace) : IsText(trace[p]) /\ trace[p].sample = i
  BY DEF TraceInOrder
<1>2. /\ t \in Seq(Entry) /\ Len(t) = Len(trace) + 1 /\ t[Len(trace) + 1] = x /\ Len(trace) \in Nat
      /\ \A i \in 1 .. Len(trace) : t[i] = trace[i] /\ i \in 1 .. Len(t)
      /\ \A i \in 1 .. Len(t) : i \in 1 .. Len(trace) \/ i = Len(trace) + 1
  BY <1>1, Appended
<1>3. next \in Nat /\ sent =< next
  <2>1. CASE IsText(x)
    BY <2>1
  <2>2. CASE ~IsText(x)
    BY <2>2
  <2> QED BY <2>1, <2>2
<1>4. ASSUME NEW p \in 1 .. Len(t), NEW q \in 1 .. Len(t), p < q
      PROVE  /\ t[p].kind = "frame" /\ t[q].kind = "frame" => t[p].sample =< t[q].sample
             /\ IsText(t[p]) /\ IsText(t[q]) => t[p].sample < t[q].sample
  <2>1. p \in 1 .. Len(trace) /\ t[p] = trace[p]
    BY <1>2, <1>4
  <2>2. CASE q \in 1 .. Len(trace)
    BY <1>1, <1>2, <1>4, <2>1, <2>2
  <2>3. CASE q = Len(trace) + 1
    <3>1. t[q] = x
      BY <1>2, <2>3
    <3>2. t[p].kind = "frame" /\ x.kind = "frame" => t[p].sample =< x.sample
      BY <2>1
    <3>3. ASSUME IsText(t[p]), IsText(x) PROVE t[p].sample < x.sample
      <4>1. t[p].sample \in 1 .. sent
        BY <1>1, <2>1, <3>3
      <4>2. x.sample = sent + 1
        BY <3>3
      <4> QED BY <4>1, <4>2
    <3> QED BY <3>1, <3>2, <3>3
  <2> QED BY <1>2, <2>2, <2>3
<1>5. ASSUME NEW p \in 1 .. Len(t), IsText(t[p]) PROVE t[p].sample \in 1 .. next
  <2>1. CASE p \in 1 .. Len(trace)
    <3>1. t[p].sample \in 1 .. sent
      BY <1>1, <1>2, <1>5, <2>1
    <3> QED BY <1>3, <3>1
  <2>2. CASE p = Len(trace) + 1
    <3>1. IsText(x) /\ t[p] = x
      BY <1>2, <1>5, <2>2
    <3> QED BY <3>1
  <2> QED BY <1>2, <2>1, <2>2
<1>6. ASSUME NEW i \in 1 .. next PROVE \E p \in 1 .. Len(t) : IsText(t[p]) /\ t[p].sample = i
  <2>1. CASE i \in 1 .. sent
    <3>1. PICK p \in 1 .. Len(trace) : IsText(trace[p]) /\ trace[p].sample = i
      BY <1>1, <2>1
    <3>2. p \in 1 .. Len(t) /\ t[p] = trace[p]
      BY <1>2
    <3> QED BY <3>1, <3>2
  <2>2. CASE i \notin 1 .. sent
    <3>1. IsText(x) /\ i = x.sample
      <4>1. CASE IsText(x)
        <5>1. next = sent + 1 /\ x.sample = sent + 1
          BY <4>1
        <5>2. i = sent + 1
          BY <2>2, <5>1
        <5> QED BY <4>1, <5>1, <5>2
      <4>2. CASE ~IsText(x)
        BY <2>2, <4>2
      <4> QED BY <4>1, <4>2
    <3>2. Len(trace) + 1 \in 1 .. Len(t)
      BY <1>2
    <3> QED BY <1>2, <3>1, <3>2
  <2> QED BY <2>1, <2>2
<1> QED BY <1>2, <1>4, <1>5, <1>6 DEF TraceInOrder

(* The input on which a sample is counted. *)
CountedAt(trace, i, p) ==
  /\ IsText(trace[p]) /\ trace[p].sample = i
  /\ CountedOn(trace, i) = IF p < Len(trace) /\ trace[p + 1].kind = "frame" THEN <<Cell(trace[p + 1].sample, 1)>> ELSE <<>>

(* Every sample sent has one. *)
LEMMA CountedIs ==
  ASSUME NEW trace, NEW sent \in Nat, TraceInOrder(trace, sent), NEW i \in 1 .. sent
  PROVE  \E p \in 1 .. Len(trace) : CountedAt(trace, i, p)
<1> DEFINE I == {p \in 1 .. Len(trace) : trace[p].kind = "input" /\ trace[p].sample = i /\ ~trace[p].erase}
           p == IF I # {} THEN Min(I) ELSE 0
<1>1. trace \in Seq(Entry) /\ Len(trace) \in Nat
  BY DEF TraceInOrder
<1>2. PICK q \in 1 .. Len(trace) : IsText(trace[q]) /\ trace[q].sample = i
  BY DEF TraceInOrder
<1>3. q \in I
  BY <1>2 DEF IsText
<1>4. I \in SUBSET Nat
  BY <1>1
<1>5. \A r \in I : r \in 1 .. Len(trace) /\ IsText(trace[r]) /\ trace[r].sample = i
  BY DEF IsText
<1>6. CountedOn(trace, i) = IF p < Len(trace) /\ trace[p + 1].kind = "frame" THEN <<Cell(trace[p + 1].sample, 1)>> ELSE <<>>
  BY DEF CountedOn, SelectInSeq
<1>7. I # {} => p = Min(I)
  OBVIOUS
<1> HIDE DEF I, p
<1>8. p \in I
  BY <1>3, <1>4, <1>7, FirstOf
<1> QED BY <1>5, <1>6, <1>8 DEF CountedAt

(* The trace gives a later sample no earlier frame. *)
LEMMA TraceCounts ==
  ASSUME NEW trace, NEW sent \in Nat, TraceInOrder(trace, sent),
         NEW i \in 1 .. sent, NEW m \in 1 .. sent, m < i
  PROVE  InOrder(CountedOn(trace, m), CountedOn(trace, i))
<1>1. PICK p \in 1 .. Len(trace) : CountedAt(trace, i, p)
  BY CountedIs
<1>2. PICK q \in 1 .. Len(trace) : CountedAt(trace, m, q)
  BY CountedIs
<1> DEFINE later == CountedOn(trace, i)
           earlier == CountedOn(trace, m)
           Framed(r) == r < Len(trace) /\ trace[r + 1].kind = "frame"
<1>3. Len(trace) \in Nat
  BY DEF TraceInOrder
<1>4. Len(<<>>) = 0 /\ \A c : Len(<<c>>) = 1 /\ <<c>>[1] = c
  OBVIOUS
<1>5. CASE Framed(p) /\ Framed(q)
  <2>1. later = <<Cell(trace[p + 1].sample, 1)>> /\ earlier = <<Cell(trace[q + 1].sample, 1)>>
    BY <1>1, <1>2, <1>5 DEF CountedAt
  <2>2. q < p
    <3>1. IsText(trace[p]) /\ IsText(trace[q]) /\ trace[p].sample = i /\ trace[q].sample = m
      BY <1>1, <1>2 DEF CountedAt
    <3>2. p # q
      BY <3>1
    <3>3. ~(p < q)
      <4> SUFFICES ASSUME p < q PROVE FALSE
        OBVIOUS
      <4>1. trace[p].sample < trace[q].sample
        BY <3>1 DEF TraceInOrder
      <4> QED BY <3>1, <4>1
    <3> QED BY <1>3, <3>2, <3>3
  <2>3. p + 1 \in 1 .. Len(trace) /\ q + 1 \in 1 .. Len(trace) /\ q + 1 < p + 1
    BY <1>3, <1>5, <2>2
  <2>4. trace[q + 1].sample =< trace[p + 1].sample
    BY <1>5, <2>3 DEF TraceInOrder
  <2>5. /\ Len(later) = 1 /\ later[1].sample = trace[p + 1].sample
        /\ Len(earlier) = 1 /\ earlier[1].sample = trace[q + 1].sample
    BY <1>4, <2>1 DEF Cell
  <2>6. \A k \in 1 .. 1 : k = 1
    OBVIOUS
  <2> HIDE DEF later, earlier
  <2>7. InOrder(earlier, later)
    BY <2>4, <2>5, <2>6 DEF InOrder
  <2> QED BY <2>7 DEF earlier, later
<1>6. CASE ~(Framed(p) /\ Framed(q))
  <2>1. later = <<>> \/ earlier = <<>>
    BY <1>1, <1>2, <1>6 DEF CountedAt
  <2>2. 1 .. 0 = {}
    OBVIOUS
  <2> HIDE DEF later, earlier
  <2>3. InOrder(earlier, later)
    BY <1>4, <2>1, <2>2 DEF InOrder
  <2> QED BY <2>3 DEF earlier, later
<1> QED BY <1>5, <1>6

(* A step that leaves the trace alone. *)
LEMMA HeadlessKeeps ==
  ASSUME HeadlessOK, e_trace' = e_trace, Sent' = Sent, e_sample' = e_sample, e_origin' = e_origin,
         e_pc' # "waiting" \/ e_pc = "waiting", e_pc # "done",
         Stream(e_in', e_out', e_sample), TraceBehind(e_trace, e_in', e_out', e_sample)
  PROVE  HeadlessOK'
BY DEF HeadlessOK

(* The headless client's trace is in order, and what it shows is behind    *)
(* what is in flight.                                                      *)
LEMMA HeadlessStep ==
  ASSUME EchoTypeOK, EchoNext, e_mode = "headless", HeadlessOK
  PROVE  e_mode' = "headless" /\ HeadlessOK' /\ OwnEcho'
<1> DEFINE t == e_trace'
           r == e_in'
           o == e_out'
<1>0. /\ e_sample \in Nat \ {0} /\ e_in \in Seq(Input) /\ e_out \in Seq(Frame) /\ e_line \in Seq(Cells)
      /\ e_pc \in {"launching", "ready", "gap", "waiting", "done", "raised"}
  BY DEF EchoTypeOK
<1>1. /\ Stream(e_in, e_out, e_sample)
      /\ TraceInOrder(e_trace, Sent) /\ TraceBehind(e_trace, e_in, e_out, e_sample)
      /\ e_pc # "done" => DOMAIN e_origin = {}
      /\ e_pc = "waiting" => e_sample = EchoSamples + 1
  BY DEF HeadlessOK
<1>2. Sent \in Nat
  BY <1>0 DEF Sent
<1>3. e_trace \in Seq(Entry)
  BY <1>1 DEF TraceInOrder
<1>4. ASSUME e_pc # "done", e_origin' = e_origin PROVE OwnEcho'
  BY <1>1, <1>4 DEF OwnEcho
<1> HIDE DEF t, r, o
<1>5. CASE MuxEcho
  <2>1. PICK f \in Frame : o = Append(e_out, f) /\ f.of = e_in[1].sample
    BY <1>5, Echoes DEF o
  <2>2. /\ e_in # <<>> /\ r = Tail(e_in) /\ e_trace' = e_trace /\ e_pc # "done"
        /\ e_pc' = e_pc /\ e_mode' = e_mode /\ e_sample' = e_sample /\ e_origin' = e_origin
    BY <1>5, Echoes DEF r
  <2>3. Stream(r, e_out, e_sample) /\ Between(r, e_out, f.of) /\ f.of \in 1 .. e_sample
    BY <1>1, <2>1, <2>2, StreamTakes
  <2>4. Stream(r, o, e_sample)
    BY <2>1, <2>3, StreamPaints
  <2>5. /\ o[Len(e_out) + 1] = f
        /\ \A i \in 1 .. Len(e_out) : o[i] = e_out[i]
        /\ \A i \in 1 .. Len(o) : i \in 1 .. Len(e_out) \/ i = Len(e_out) + 1
    BY <1>0, <2>1, Appended
  <2>6. /\ 1 \in 1 .. Len(e_in)
        /\ \A i \in 1 .. Len(r) : i + 1 \in 1 .. Len(e_in) /\ r[i] = e_in[i + 1]
    BY <1>0, <2>2, Tailed
  <2>7. TraceBehind(e_trace, r, o, e_sample)
    BY <1>1, <2>1, <2>5, <2>6 DEF TraceBehind
  <2>8. Sent' = Sent
    BY <2>2 DEF Sent
  <2>9. HeadlessOK'
    BY <2>2, <2>4, <2>7, <2>8, HeadlessKeeps DEF r, o
  <2> QED BY <1>4, <2>2, <2>9
<1>6. CASE WaitReady
  <2>1. /\ e_pc = "launching" /\ e_pc' \in {"ready", "raised"} /\ e_trace' = e_trace /\ e_in' = e_in /\ e_out' = e_out
        /\ e_mode' = e_mode /\ e_sample' = e_sample /\ e_origin' = e_origin
    BY <1>6 DEF WaitReady
  <2>2. Sent' = Sent
    BY <2>1 DEF Sent
  <2>3. HeadlessOK'
    BY <1>1, <2>1, <2>2, HeadlessKeeps
  <2> QED BY <1>4, <2>1, <2>3
<1>7. CASE TakeText
  <2> DEFINE x == Press(e_sample)
             e == [kind |-> "input", sample |-> e_sample, erase |-> FALSE]
  <2>1. /\ e_pc = "ready" /\ e_pc' = "gap" /\ t = Append(e_trace, e) /\ r = Append(e_in, x)
        /\ e_sample' = e_sample /\ e_mode' = e_mode /\ e_out' = e_out /\ e_origin' = e_origin
    BY <1>7 DEF TakeText, Take, Key, Press, t, r
  <2>2. x \in Input /\ x.sample = e_sample /\ x.erase = FALSE
    BY <1>0, Inputs
  <2>3. e \in Entry /\ e.kind = "input" /\ e.sample = e_sample /\ e.erase = FALSE
    BY <1>0, <2>2 DEF Entry
  <2> HIDE DEF x, e
  <2>4. Stream(r, e_out, e_sample)
    <3>1. 1 =< e_sample
      BY <1>0
    <3> QED BY <1>1, <2>1, <2>2, <3>1, StreamSends
  <2>5. IsText(e) /\ e_sample = Sent + 1 /\ e.kind # "frame"
    <3>1. Sent = e_sample - 1
      BY <2>1 DEF Sent
    <3>2. e_sample = Sent + 1
      BY <1>0, <3>1
    <3> QED BY <2>3, <3>2 DEF IsText
  <2>6. TraceInOrder(t, e_sample)
    BY <1>1, <1>2, <2>1, <2>3, <2>5, TraceAdded
  <2>7. /\ r[Len(e_in) + 1] = x
        /\ \A i \in 1 .. Len(e_in) : r[i] = e_in[i]
        /\ \A i \in 1 .. Len(r) : i \in 1 .. Len(e_in) \/ i = Len(e_in) + 1
    BY <1>0, <2>1, <2>2, Appended
  <2>8. /\ t[Len(e_trace) + 1] = e
        /\ \A i \in 1 .. Len(e_trace) : t[i] = e_trace[i]
        /\ \A i \in 1 .. Len(t) : i \in 1 .. Len(e_trace) \/ i = Len(e_trace) + 1
    BY <1>3, <2>1, <2>3, Appended
  <2>9. TraceBehind(t, r, e_out, e_sample)
    <3>1. ASSUME NEW p \in 1 .. Len(t), t[p].kind = "frame" PROVE p \in 1 .. Len(e_trace) /\ t[p] = e_trace[p]
      BY <2>5, <2>8, <3>1
    <3> SUFFICES ASSUME NEW p \in 1 .. Len(t), t[p].kind = "frame"
                 PROVE  /\ \A k \in 1 .. Len(e_out) : t[p].sample =< e_out[k].of
                        /\ \A j \in 1 .. Len(r) : t[p].sample =< r[j].sample
                        /\ t[p].sample \in 1 .. e_sample
      BY DEF TraceBehind
    <3> DEFINE s == e_trace[p].sample
    <3>3. /\ t[p].sample = s /\ s \in 1 .. e_sample
          /\ \A k \in 1 .. Len(e_out) : s =< e_out[k].of
          /\ \A j \in 1 .. Len(e_in) : s =< e_in[j].sample
      BY <1>1, <3>1 DEF TraceBehind
    <3> HIDE DEF s
    <3>4. s =< x.sample
      BY <1>0, <2>2, <3>3
    <3>5. \A j \in 1 .. Len(r) : s =< r[j].sample
      BY <2>7, <3>3, <3>4
    <3> QED BY <3>3, <3>5
  <2>10. HeadlessOK'
    BY <1>1, <2>1, <2>4, <2>6, <2>9 DEF HeadlessOK, Sent, t, r
  <2> QED BY <1>4, <2>1, <2>10
<1>8. CASE TakeBackspace
  <2> DEFINE x == Backspace(e_sample)
             e == [kind |-> "input", sample |-> e_sample, erase |-> TRUE]
  <2>1. /\ e_pc = "gap" /\ t = Append(e_trace, e) /\ r = Append(e_in, x)
        /\ e_pc' = IF e_sample = EchoSamples THEN "waiting" ELSE "ready"
        /\ e_sample' = e_sample + 1 /\ e_mode' = e_mode /\ e_out' = e_out /\ e_origin' = e_origin
    BY <1>8 DEF TakeBackspace, Take, Key, Backspace, t, r
  <2>2. x \in Input /\ x.sample = e_sample /\ x.erase = TRUE
    BY <1>0, Inputs
  <2>3. e \in Entry /\ e.kind = "input" /\ e.sample = e_sample /\ e.erase = TRUE
    BY <1>0, <2>2 DEF Entry
  <2> HIDE DEF x, e
  <2>4. Stream(r, e_out, e_sample + 1)
    <3>1. 1 =< e_sample
      BY <1>0
    <3>2. Stream(r, e_out, e_sample)
      BY <1>1, <2>1, <2>2, <3>1, StreamSends
    <3> QED BY <3>2, StreamNext
  <2>5. ~IsText(e) /\ Sent = e_sample /\ e.kind # "frame"
    BY <2>1, <2>3 DEF IsText, Sent
  <2>6. TraceInOrder(t, e_sample)
    <3>1. TraceInOrder(e_trace, e_sample) /\ e_sample \in Nat
      BY <1>0, <1>1, <2>5
    <3> QED BY <2>1, <2>3, <2>5, <3>1, TraceAdded
  <2>7. /\ r[Len(e_in) + 1] = x
        /\ \A i \in 1 .. Len(e_in) : r[i] = e_in[i]
        /\ \A i \in 1 .. Len(r) : i \in 1 .. Len(e_in) \/ i = Len(e_in) + 1
    BY <1>0, <2>1, <2>2, Appended
  <2>8. /\ t[Len(e_trace) + 1] = e
        /\ \A i \in 1 .. Len(e_trace) : t[i] = e_trace[i]
        /\ \A i \in 1 .. Len(t) : i \in 1 .. Len(e_trace) \/ i = Len(e_trace) + 1
    BY <1>3, <2>1, <2>3, Appended
  <2>9. TraceBehind(t, r, e_out, e_sample + 1)
    <3>1. ASSUME NEW p \in 1 .. Len(t), t[p].kind = "frame" PROVE p \in 1 .. Len(e_trace) /\ t[p] = e_trace[p]
      BY <2>5, <2>8, <3>1
    <3>2. \A i \in 1 .. e_sample : i \in 1 .. e_sample + 1
      BY <1>0
    <3> SUFFICES ASSUME NEW p \in 1 .. Len(t), t[p].kind = "frame"
                 PROVE  /\ \A k \in 1 .. Len(e_out) : t[p].sample =< e_out[k].of
                        /\ \A j \in 1 .. Len(r) : t[p].sample =< r[j].sample
                        /\ t[p].sample \in 1 .. e_sample + 1
      BY DEF TraceBehind
    <3> DEFINE s == e_trace[p].sample
    <3>3. /\ t[p].sample = s /\ s \in 1 .. e_sample
          /\ \A k \in 1 .. Len(e_out) : s =< e_out[k].of
          /\ \A j \in 1 .. Len(e_in) : s =< e_in[j].sample
      BY <1>1, <3>1 DEF TraceBehind
    <3> HIDE DEF s
    <3>4. s =< x.sample
      BY <1>0, <2>2, <3>3
    <3>5. \A j \in 1 .. Len(r) : s =< r[j].sample
      BY <2>7, <3>3, <3>4
    <3> QED BY <3>2, <3>3, <3>5
  <2>10. (e_sample + 1) - 1 = e_sample /\ e_pc' # "gap" /\ e_pc' # "done" /\ (e_pc' = "waiting" => e_sample = EchoSamples)
    BY <1>0, <2>1
  <2>11. Sent' = e_sample
    BY <2>1, <2>10 DEF Sent
  <2>12. HeadlessOK'
    BY <1>1, <2>1, <2>4, <2>6, <2>9, <2>10, <2>11 DEF HeadlessOK, t, r
  <2> QED BY <1>4, <2>1, <2>12
<1>9. CASE PresentFrame
  <2> DEFINE e == [kind |-> "frame", sample |-> e_out[1].of, erase |-> FALSE]
  <2>1. /\ e_out # <<>> /\ e_pc \in {"ready", "gap", "waiting"} /\ t = Append(e_trace, e) /\ ReadTo(Len(e_out))
        /\ e_mode' = e_mode /\ e_pc' = e_pc /\ e_sample' = e_sample /\ e_in' = e_in /\ e_origin' = e_origin
    BY <1>9 DEF PresentFrame, t
  <2>2. Len(e_out) \in 1 .. Len(e_out) /\ 1 \in 1 .. Len(e_out)
    <3>1. Len(e_out) \in Nat /\ Len(e_out) # 0
      BY <1>0, <2>1, EmptySeq
    <3> QED BY <3>1
  <2>3. e_out[1].of \in 1 .. e_sample
    BY <1>1, <2>2 DEF Stream
  <2>4. e \in Entry /\ e.kind = "frame" /\ e.sample = e_out[1].of
    <3>1. e_out[1].of \in Nat
      BY <1>0, <2>3
    <3> QED BY <3>1 DEF Entry
  <2> HIDE DEF e
  <2>5. o = SubSeq(e_out, Len(e_out) + 1, Len(e_out))
    BY <2>1, <2>2, TakenOff DEF o
  <2>6. Len(o) = Len(e_out) - Len(e_out)
    BY <1>0, <2>2, <2>5, Rested
  <2>7. Len(o) = 0
    BY <1>0, <2>6
  <2>8. Stream(e_in, o, e_sample)
    BY <1>1, <2>2, <2>5, StreamReads
  <2>9. \A p \in 1 .. Len(e_trace) : e_trace[p].kind = "frame" => e_trace[p].sample =< e.sample
    BY <1>1, <2>2, <2>4 DEF TraceBehind
  <2>10. TraceInOrder(t, Sent)
    <3>1. ~IsText(e)
      BY <2>4 DEF IsText
    <3> QED BY <1>1, <1>2, <2>1, <2>4, <2>9, <3>1, TraceAdded
  <2>11. /\ t[Len(e_trace) + 1] = e
         /\ \A i \in 1 .. Len(e_trace) : t[i] = e_trace[i]
         /\ \A i \in 1 .. Len(t) : i \in 1 .. Len(e_trace) \/ i = Len(e_trace) + 1
    BY <1>3, <2>1, <2>4, Appended
  <2>12. \A j \in 1 .. Len(e_in) : e.sample =< e_in[j].sample
    BY <1>1, <2>2, <2>4 DEF Stream
  <2>13. TraceBehind(t, e_in, o, e_sample)
    <3> SUFFICES ASSUME NEW p \in 1 .. Len(t), t[p].kind = "frame"
                 PROVE  /\ \A k \in 1 .. Len(o) : t[p].sample =< o[k].of
                        /\ \A j \in 1 .. Len(e_in) : t[p].sample =< e_in[j].sample
                        /\ t[p].sample \in 1 .. e_sample
      BY DEF TraceBehind
    <3>1. \A k \in 1 .. Len(o) : FALSE
      BY <2>7
    <3>2. CASE p \in 1 .. Len(e_trace)
      BY <1>1, <2>11, <3>1, <3>2 DEF TraceBehind
    <3>3. CASE p = Len(e_trace) + 1
      BY <2>3, <2>4, <2>11, <2>12, <3>1, <3>3
    <3> QED BY <2>11, <3>2, <3>3
  <2>14. Sent' = Sent
    BY <2>1 DEF Sent
  <2>15. HeadlessOK'
    BY <1>1, <2>1, <2>8, <2>10, <2>13, <2>14 DEF HeadlessOK, t, o
  <2> QED BY <1>4, <2>1, <2>15
<1>10. CASE QuitHeadless
  <2>1. /\ e_pc = "waiting" /\ e_trace' = e_trace /\ e_in' = e_in /\ e_out' = e_out
        /\ e_mode' = e_mode /\ e_sample' = e_sample
        /\ \/ e_pc' = "done" /\ e_origin' = [i \in Samples |-> CountedOn(e_trace, i)]
           \/ e_pc' = "raised" /\ e_origin' = e_origin
    BY <1>10 DEF QuitHeadless
  <2>2. Sent' = Sent
    BY <2>1 DEF Sent
  <2>3. HeadlessOK'
    BY <1>1, <2>1, <2>2 DEF HeadlessOK
  <2>4. CASE e_origin' = e_origin
    BY <1>4, <2>1, <2>3, <2>4
  <2>5. CASE e_origin' = [i \in Samples |-> CountedOn(e_trace, i)]
    <3> DEFINE counted == e_origin'
    <3>1. Sent = EchoSamples /\ EchoSamples \in Nat
      <4>1. Sent = e_sample - 1 /\ e_sample = EchoSamples + 1
        BY <1>1, <2>1 DEF Sent
      <4> QED BY <4>1, EchoAssumption
    <3>2. counted = [i \in 1 .. Sent |-> CountedOn(e_trace, i)]
      BY <2>5, <3>1 DEF Samples
    <3> HIDE DEF counted
    <3>3. ASSUME NEW m \in 1 .. Sent, NEW i \in 1 .. Sent, m < i PROVE InOrder(counted[m], counted[i])
      <4>1. counted[m] = CountedOn(e_trace, m) /\ counted[i] = CountedOn(e_trace, i)
        BY <3>2
      <4>2. InOrder(CountedOn(e_trace, m), CountedOn(e_trace, i))
        BY <1>1, <1>2, <3>3, TraceCounts
      <4> QED BY <4>1, <4>2
    <3>4. DOMAIN counted = 1 .. Sent
      BY <3>2
    <3>5. e_mode' = "headless"
      BY <2>1
    <3>6. OwnEcho'
      BY <3>3, <3>4, <3>5 DEF OwnEcho, InOrder, counted
    <3> QED BY <2>1, <2>3, <3>6
  <2> QED BY <2>1, <2>4, <2>5
<1>11. ~(StartProbe \/ MuxRepaint \/ SendToken \/ ReadToken \/ TokenTimeout \/ ReadVerified \/ VerifiedTimeout \/ ReadInGap \/ EndGap)
  BY <1>0 DEF StartProbe, MuxRepaint, SendToken, ReadToken, TokenTimeout, ReadVerified, VerifiedTimeout, ReadInGap, EndGap
<1> QED BY <1>5, <1>6, <1>7, <1>8, <1>9, <1>10, <1>11 DEF EchoNext

(* The probe starts with nothing in flight and nothing counted. *)
LEMMA EchoStarts == EchoTypeOK /\ StartProbe => EchoInv'
<1> SUFFICES ASSUME EchoTypeOK, StartProbe PROVE EchoInv'
  OBVIOUS
<1>1. /\ e_sample' = 1 /\ e_in' = <<>> /\ e_line' = <<>> /\ e_out' = <<>> /\ e_trace' = <<>> /\ DOMAIN e_origin' = {}
      /\ e_mode' \in {"tokens", "flood", "verified", "headless"}
      /\ e_pc' = IF e_mode' = "headless" THEN "launching" ELSE "ready"
  BY DEF EchoTypeOK, StartProbe
<1>2. EchoTypeOK'
  BY EchoTypeStep DEF EchoNext
<1>3. OwnEcho'
  BY <1>1 DEF OwnEcho
<1>4. Stream(<<>>, <<>>, 1)
  BY DEF Stream
<1>5. Sent' = 0 /\ 1 .. 0 = {}
  BY <1>1 DEF Sent
<1>6. e_mode' = "tokens" => TokensOK'
  <2>1. Chain(<<>>, <<>>, 0, 1)
    BY DEF Chain, LineOf
  <2>2. OneToken(<<>>) /\ LineFits(<<>>, <<>>, <<>>, 1)
    <3>1. <<>> \in Seq(Cells)
      OBVIOUS
    <3> QED BY <3>1 DEF OneToken, LineFits
  <2>3. ASSUME e_mode' = "tokens" PROVE TokensOK'
    <3>1. e_pc' = "ready"
      BY <1>1, <2>3
    <3>2. Owed' = 0
      BY <3>1 DEF Owed
    <3>3. Flight(e_in', e_out', e_line', Owed', e_sample', e_origin')
      BY <1>1, <1>4, <2>1, <2>2, <3>2 DEF Flight
    <3> QED BY <1>1, <1>5, <3>1, <3>3 DEF TokensOK
  <2> QED BY <2>3
<1>7. e_mode' = "verified" => VerifiedOK'
  BY <1>1 DEF VerifiedOK, OwnCells
<1>8. e_mode' = "headless" => HeadlessOK'
  <2>1. TraceInOrder(<<>>, 0)
    BY DEF TraceInOrder
  <2>2. TraceBehind(<<>>, <<>>, <<>>, 1)
    BY DEF TraceBehind
  <2>3. ASSUME e_mode' = "headless" PROVE HeadlessOK'
    <3>1. e_pc' = "launching"
      BY <1>1, <2>3
    <3> QED BY <1>1, <1>4, <1>5, <2>1, <2>2, <3>1 DEF HeadlessOK
  <2> QED BY <2>3
<1>9. e_mode' = "flood" => OwnCells(e_origin')
  BY <1>1 DEF OwnCells
<1> QED BY <1>2, <1>3, <1>6, <1>7, <1>8, <1>9 DEF EchoInv

(* Samples that are counted on their own cells are in order. *)
LEMMA OwnCellsEcho ==
  ASSUME EchoTypeOK', OwnCells(e_origin'), e_mode' # "tokens"
  PROVE  OwnEcho'
<1> DEFINE counted == e_origin'
<1>1. DOMAIN counted \subseteq Nat /\ \A i \in DOMAIN counted : \A k \in 1 .. Len(counted[i]) : counted[i][k].sample = i
  BY DEF EchoTypeOK, OwnCells, LineOf
<1> HIDE DEF counted
<1>2. ASSUME NEW i \in DOMAIN counted, NEW j \in DOMAIN counted, i < j,
             NEW k \in 1 .. Len(counted[i]), NEW l \in 1 .. Len(counted[j])
      PROVE  counted[i][k].sample =< counted[j][l].sample
  <2>1. counted[i][k].sample = i /\ counted[j][l].sample = j /\ i \in Nat /\ j \in Nat
    BY <1>1
  <2> QED BY <1>2, <2>1
<1>3. OwnEcho' <=> /\ e_mode' \in {"verified", "flood"} =>
                        \A i \in DOMAIN counted : \A k \in 1 .. Len(counted[i]) : counted[i][k].sample = i
                   /\ e_mode' = "tokens" => LateEchoes(counted)
                   /\ \A i, j \in DOMAIN counted : i < j =>
                        \A k \in 1 .. Len(counted[i]), l \in 1 .. Len(counted[j]) :
                          counted[i][k].sample =< counted[j][l].sample
  BY DEF counted, OwnEcho, LateEchoes, WholeEcho
<1> QED BY <1>1, <1>2, <1>3

(* The invariant is kept, in every mode. *)
LEMMA EchoStep == EchoInv /\ [EchoNext]_echoVars => EchoInv'
<1> SUFFICES ASSUME EchoInv, [EchoNext]_echoVars PROVE EchoInv'
  OBVIOUS
<1>0. EchoTypeOK /\ OwnEcho
  BY DEF EchoInv
<1>1. CASE UNCHANGED echoVars
  <2>1. EchoTypeOK'
    BY <1>0, <1>1 DEF EchoTypeOK, echoVars
  <2>2. OwnEcho'
    BY <1>0, <1>1 DEF OwnEcho, echoVars
  <2>3. (e_mode = "tokens" => TokensOK)'
    BY <1>1 DEF EchoInv, TokensOK, Sent, Owed, TextLen, echoVars
  <2>4. (e_mode = "flood" => OwnCells(e_origin))'
    BY <1>1 DEF EchoInv, echoVars
  <2>5. (e_mode = "verified" => VerifiedOK)'
    BY <1>1 DEF EchoInv, VerifiedOK, echoVars
  <2>6. (e_mode = "headless" => HeadlessOK)'
    BY <1>1 DEF EchoInv, HeadlessOK, Sent, echoVars
  <2> QED BY <2>1, <2>2, <2>3, <2>4, <2>5, <2>6 DEF EchoInv
<1>2. CASE EchoNext
  <2>1. EchoTypeOK'
    BY <1>0, <1>2, EchoTypeStep
  <2>2. CASE e_mode = "none"
    <3>1. e_pc = "idle" /\ e_in = <<>> /\ e_line = <<>> /\ e_out = <<>>
      BY <1>0, <2>2 DEF EchoTypeOK
    <3>2. StartProbe
      BY <1>2, <2>2, <3>1 DEF EchoNext, MuxEcho, MuxRepaint, SendToken, ReadToken, TokenTimeout, ReadVerified,
           VerifiedTimeout, ReadInGap, EndGap, WaitReady, TakeText, TakeBackspace, PresentFrame, QuitHeadless
    <3> QED BY <1>0, <3>2, EchoStarts
  <2>3. CASE e_mode = "tokens"
    <3>1. e_mode' = "tokens" /\ TokensOK' /\ OwnEcho'
      BY <1>0, <1>2, <2>3, TokensStep DEF EchoInv
    <3> QED BY <2>1, <3>1 DEF EchoInv
  <2>4. CASE e_mode = "flood"
    <3>1. e_mode' = "flood" /\ OwnCells(e_origin')
      BY <1>0, <1>2, <2>4, FloodStep DEF EchoInv
    <3>2. OwnEcho'
      BY <2>1, <3>1, OwnCellsEcho
    <3> QED BY <2>1, <3>1, <3>2 DEF EchoInv
  <2>5. CASE e_mode = "verified"
    <3>1. e_mode' = "verified" /\ VerifiedOK'
      BY <1>0, <1>2, <2>5, VerifiedStep DEF EchoInv
    <3>2. OwnCells(e_origin')
      BY <3>1 DEF VerifiedOK
    <3>3. OwnEcho'
      BY <2>1, <3>1, <3>2, OwnCellsEcho
    <3> QED BY <2>1, <3>1, <3>3 DEF EchoInv
  <2>6. CASE e_mode = "headless"
    <3>1. e_mode' = "headless" /\ HeadlessOK' /\ OwnEcho'
      BY <1>0, <1>2, <2>6, HeadlessStep DEF EchoInv
    <3> QED BY <2>1, <3>1 DEF EchoInv
  <2> QED BY <1>0, <2>2, <2>3, <2>4, <2>5, <2>6 DEF EchoTypeOK
<1> QED BY <1>1, <1>2

(* OwnEcho for any cycle of distinct tokens of any lengths, any number of  *)
(* samples and of repaints, any delay of the echoes and any cut of them    *)
(* into reads.  The flood and the verified probe count a sample on its own *)
(* echo alone; the token probe takes another sample's whole echo a cycle   *)
(* late at the earliest; and once a sample was counted on a byte, no later *)
(* one is on a byte of a sample before that one's: the waits of            *)
(* echo_latency.py, load_latency.py, flood.py and echo_path.py.            *)
THEOREM ProbeOwnEcho == ToolsSpec => []OwnEcho
<1>1. ToolsInit => EchoInv
  <2> SUFFICES ASSUME EchoInit PROVE EchoInv
    BY DEF ToolsInit
  <2>1. /\ e_mode = "none" /\ e_pc = "idle" /\ e_sample = 1 /\ e_in = <<>> /\ e_line = <<>> /\ e_out = <<>>
        /\ DOMAIN e_origin = {} /\ e_trace = <<>> /\ e_buf = <<>>
    BY DEF EchoInit
  <2>2. EchoTypeOK
    <3>1. <<>> \in Seq(Input) /\ <<>> \in Seq(Frame) /\ <<>> \in Seq(Cells)
      OBVIOUS
    <3> QED BY <2>1, <3>1 DEF EchoTypeOK
  <2>3. OwnEcho
    BY <2>1 DEF OwnEcho
  <2> QED BY <2>1, <2>2, <2>3 DEF EchoInv
<1>2. [ToolsNext]_toolVars => [EchoNext]_echoVars
  BY DEF ToolsNext, toolVars, Placement, Gate, Native, Echo, Throughput, Isolated, Pacer, Slot, Machine
<1>3. EchoInv => OwnEcho
  BY DEF EchoInv
<1> QED BY <1>1, <1>2, <1>3, EchoStep, PTL DEF ToolsSpec

================================================================================
