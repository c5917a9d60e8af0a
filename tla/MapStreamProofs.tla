-------------------------- MODULE MapStreamProofs --------------------------
(***************************************************************************)
(* Proofs about MapStream: its map stays what MapIndexProofs shows it to   *)
(* be, a read serves all of a request or fails, for every well formed map, *)
(* any readers and any request, also one whose sum wraps around, what is   *)
(* served are the bytes the map means, and the walk of isSparse() over the *)
(* same entries tells ranges without data from the others.  On the way:    *)
(* what the recursions of RepeatedStream and of isSparse() compute.        *)
(***************************************************************************)
EXTENDS MapStream, MapIndexProofs, SparseCheck, WellFoundedInduction

(* The least of a set of naturals: what induction is done with.            *)
LEMMA NatMin ==
  ASSUME NEW S, S \subseteq Nat, S # {}
  PROVE  \E x \in S : \A y \in S : x <= y
<1>1. PICK x \in S : \A y \in S : ~(<<y, x>> \in OpToRel(<, Nat))
  BY WFMin, NatLessThanWellFounded
<1>2. \A y \in S : ~(y < x)
  BY <1>1 DEF OpToRel
<1> QED
  BY <1>2

-----------------------------------------------------------------------------
(* Remainders.                                                             *)

LEMMA ModSmall == ASSUME NEW m \in Nat \ {0}, NEW a \in 0 .. m - 1 PROVE a % m = a
OBVIOUS

LEMMA ModOf == ASSUME NEW m \in Nat \ {0}, NEW q \in Nat, NEW r \in 0 .. m - 1 PROVE (m * q + r) % m = r
OBVIOUS

LEMMA ModSplit ==
  ASSUME NEW m \in Nat \ {0}, NEW a \in Nat
  PROVE  /\ a % m \in 0 .. m - 1
         /\ \E q \in Nat : a = m * q + (a % m)
<1> DEFINE q == a \div m
<1>1. a = m * q + (a % m)
  OBVIOUS
<1>2. q \in Nat
  OBVIOUS
<1>3. a % m \in 0 .. m - 1
  OBVIOUS
<1> HIDE DEF q
<1> QED
  BY <1>1, <1>2, <1>3

LEMMA ModShift ==
  ASSUME NEW m \in Nat \ {0}, NEW a \in Nat PROVE (a + m) % m = a % m
<1> DEFINE r == a % m
<1>1. r \in 0 .. m - 1
  BY ModSplit
<1>2. PICK q \in Nat : a = m * q + r
  BY ModSplit
<1> HIDE DEF r
<1>3. m * (q + 1) = m * q + m
  OBVIOUS
<1>4. m * q \in Nat
  OBVIOUS
<1>5. a + m = m * (q + 1) + r
  BY <1>1, <1>2, <1>3, <1>4
<1>6. q + 1 \in Nat
  OBVIOUS
<1>7. (m * (q + 1) + r) % m = r
  BY <1>1, <1>6, ModOf
<1> QED
  BY <1>5, <1>7 DEF r

LEMMA ModAdd ==
  ASSUME NEW m \in Nat \ {0}, NEW a \in Nat, NEW b \in Nat, (a % m) + b < m
  PROVE  (a + b) % m = (a % m) + b
<1> DEFINE r == a % m
<1>1. r \in 0 .. m - 1
  BY ModSplit
<1>2. PICK q \in Nat : a = m * q + r
  BY ModSplit
<1> HIDE DEF r
<1>3. r + b \in 0 .. m - 1
  BY <1>1 DEF r
<1>4. m * q \in Nat
  OBVIOUS
<1>5. a + b = m * q + (r + b)
  BY <1>1, <1>2, <1>4
<1>6. (m * q + (r + b)) % m = r + b
  BY <1>3, ModOf
<1> QED
  BY <1>5, <1>6 DEF r

(* What is left of a unit, and b more.                                     *)
LEMMA ModWrap ==
  ASSUME NEW m \in Nat \ {0}, NEW a \in Nat, NEW b \in Nat
  PROVE  (a + (m - (a % m)) + b) % m = b % m
<1> DEFINE r == a % m
           s == b % m
<1>1. r \in 0 .. m - 1 /\ s \in 0 .. m - 1
  BY ModSplit
<1>2. PICK q \in Nat : a = m * q + r
  BY ModSplit
<1>3. PICK p \in Nat : b = m * p + s
  BY ModSplit
<1> HIDE DEF r, s
<1>4. m * q \in Nat /\ m * p \in Nat
  OBVIOUS
<1>5. m * ((q + 1) + p) = m * q + m + m * p
  OBVIOUS
<1>6. a + (m - r) + b = m * ((q + 1) + p) + s
  BY <1>1, <1>2, <1>3, <1>4, <1>5
<1>7. (q + 1) + p \in Nat
  OBVIOUS
<1>8. (m * ((q + 1) + p) + s) % m = s
  BY <1>1, <1>7, ModOf
<1> QED
  BY <1>6, <1>8 DEF r, s

-----------------------------------------------------------------------------
(* RepeatedStream: what its two recursions compute.                        *)

(* The pattern's copies from i on exist: each starts after the one before. *)
LEMMA FilledDef ==
  Filled = [i \in 0 .. Unit + Letters |->
              IF i >= Unit THEN <<>> ELSE Copied(Smaller(Unit - i, Letters)) \o Filled[i + Letters]]
<1> DEFINE N == Unit + Letters
           Lead(i) == Copied(Smaller(Unit - i, Letters))
           Fits(f, a) == f = [i \in a .. N |-> IF i >= Unit THEN <<>> ELSE Lead(i) \o f[i + Letters]]
           Has(d) == \E f : Fits(f, N - d)
           S == {d \in 0 .. N : ~Has(d)}
<1>1. N \in Nat /\ Unit \in Nat \ {0} /\ Letters \in Nat \ {0} /\ N - Unit = Letters /\ N >= Unit
  BY RepeatedAssumption
<1> HIDE DEF Lead, N
<1>2. Has(0)
  <2> DEFINE f == [i \in N .. N |-> <<>>]
  <2>1. \A i \in N - 0 .. N : i >= Unit
    BY <1>1
  <2>2. N - 0 = N
    BY <1>1
  <2>3. Fits(f, N - 0)
    BY <2>1, <2>2
  <2> QED
    BY <2>3
<1>3. ASSUME NEW d \in 0 .. N, d > 0, Has(d - 1)
      PROVE  Has(d)
  <2> DEFINE a == N - d
  <2>1. a \in Int /\ N - (d - 1) = a + 1 /\ a <= N
    BY <1>1, <1>3
  <2>2. PICK f : Fits(f, a + 1)
    BY <1>3, <2>1
  <2> HIDE DEF a
  <2> DEFINE g == [i \in a .. N |-> IF i = a THEN (IF a >= Unit THEN <<>> ELSE Lead(a) \o f[a + Letters]) ELSE f[i]]
  <2>3. \A i \in a + 1 .. N : i \in a .. N /\ i # a /\ g[i] = f[i]
    BY <2>1
  <2>4. ASSUME NEW i \in a .. N
        PROVE  g[i] = IF i >= Unit THEN <<>> ELSE Lead(i) \o g[i + Letters]
    <3>1. ~(i >= Unit) => i + Letters \in a + 1 .. N
      BY <1>1, <2>1 DEF N
    <3>2. ~(i >= Unit) => g[i + Letters] = f[i + Letters]
      BY <2>3, <3>1
    <3>3. CASE i = a
      BY <3>2, <3>3
    <3>4. CASE i # a
      <4>1. i \in a + 1 .. N
        BY <2>1, <3>4
      <4>2. f[i] = IF i >= Unit THEN <<>> ELSE Lead(i) \o f[i + Letters]
        BY <2>2, <4>1
      <4>3. g[i] = f[i]
        BY <2>3, <4>1
      <4> QED
        BY <3>2, <4>2, <4>3
    <3> QED
      BY <3>3, <3>4
  <2>5. Fits(g, a)
    <3>1. g = [i \in a .. N |-> g[i]]
      OBVIOUS
    <3> HIDE DEF g
    <3> QED
      BY <2>4, <3>1
  <2> QED
    BY <2>5 DEF a
<1>4. S = {}
  <2> SUFFICES ASSUME S # {} PROVE FALSE
    OBVIOUS
  <2> HIDE DEF Has
  <2>0. S \subseteq Nat
    BY <1>1
  <2>1. PICK x \in S : \A y \in S : x <= y
    <3> HIDE DEF S
    <3> QED
      BY <2>0, NatMin
  <2>2. x \in 0 .. N /\ ~Has(x) /\ x # 0
    BY <1>2
  <2>3. x - 1 \in 0 .. N /\ x - 1 \notin S /\ x > 0
    BY <1>1, <2>1, <2>2
  <2>4. Has(x - 1)
    BY <2>3
  <2> QED
    BY <1>3, <2>2, <2>3, <2>4
<1>5. Has(N)
  <2> HIDE DEF Has
  <2> QED
    BY <1>1, <1>4
<1>6. \E f : Fits(f, 0)
  <2>1. N - N = 0
    BY <1>1
  <2> QED
    BY <1>5, <2>1
<1>7. Filled = CHOOSE f : Fits(f, 0)
  BY DEF Filled, Lead, N
<1>8. Fits(Filled, 0)
  BY <1>6, <1>7
<1> QED
  BY <1>8 DEF N, Lead

(* So do the turns: each but the last takes a whole unit.                  *)
LEMMA TurnsDef ==
  Turns = [r \in 0 .. MaxRequest |->
             IF r = 0 THEN <<>> ELSE BufferFrom(0, Smaller(r, Unit)) \o Turns[r - Smaller(r, Unit)]]
<1> DEFINE Lead(r) == BufferFrom(0, Smaller(r, Unit))
           Rest(r) == r - Smaller(r, Unit)
           Fits(f, m) == f = [r \in 0 .. m |-> IF r = 0 THEN <<>> ELSE Lead(r) \o f[Rest(r)]]
           Has(m) == \E f : Fits(f, m)
           S == {m \in 0 .. MaxRequest : ~Has(m)}
<1>1. MaxRequest \in Nat /\ Unit \in Nat \ {0}
  BY RepeatedAssumption
<1>9. \A r \in Nat \ {0} : Rest(r) \in Nat /\ Rest(r) < r
  BY <1>1 DEF Smaller
<1> HIDE DEF Lead, Rest
<1>2. Has(0)
  <2> DEFINE f == [r \in 0 .. 0 |-> <<>>]
  <2>1. \A r \in 0 .. 0 : r = 0
    OBVIOUS
  <2>2. Fits(f, 0)
    BY <2>1
  <2> QED
    BY <2>2
<1>3. ASSUME NEW m \in 0 .. MaxRequest, m > 0, Has(m - 1)
      PROVE  Has(m)
  <2>1. m \in Nat /\ m - 1 \in Nat
    BY <1>1, <1>3
  <2>2. PICK f : Fits(f, m - 1)
    BY <1>3
  <2> DEFINE g == [r \in 0 .. m |-> IF r = m THEN Lead(m) \o f[Rest(m)] ELSE f[r]]
  <2>3. \A r \in 0 .. m - 1 : r \in 0 .. m /\ r # m /\ g[r] = f[r]
    BY <2>1
  <2>4. ASSUME NEW r \in 0 .. m
        PROVE  g[r] = IF r = 0 THEN <<>> ELSE Lead(r) \o g[Rest(r)]
    <3>1. r # 0 => Rest(r) \in 0 .. m - 1
      BY <1>9, <2>1
    <3>2. r # 0 => g[Rest(r)] = f[Rest(r)]
      BY <2>3, <3>1
    <3>3. CASE r = m
      <4>1. g[r] = Lead(r) \o f[Rest(r)] /\ r # 0
        BY <1>3, <2>1, <3>3
      <4> HIDE DEF g
      <4> QED
        BY <3>2, <4>1
    <3>4. CASE r # m
      <4>1. r \in 0 .. m - 1
        BY <2>1, <3>4
      <4>2. f[r] = IF r = 0 THEN <<>> ELSE Lead(r) \o f[Rest(r)]
        BY <2>2, <4>1
      <4>3. g[r] = f[r]
        BY <2>3, <4>1
      <4> QED
        BY <3>2, <4>2, <4>3
    <3> QED
      BY <3>3, <3>4
  <2>5. Fits(g, m)
    <3>1. g = [r \in 0 .. m |-> g[r]]
      OBVIOUS
    <3> HIDE DEF g
    <3> QED
      BY <2>4, <3>1
  <2> QED
    BY <2>5
<1>4. S = {}
  <2> SUFFICES ASSUME S # {} PROVE FALSE
    OBVIOUS
  <2> HIDE DEF Has
  <2>0. S \subseteq Nat
    BY <1>1
  <2>1. PICK x \in S : \A y \in S : x <= y
    <3> HIDE DEF S
    <3> QED
      BY <2>0, NatMin
  <2>2. x \in 0 .. MaxRequest /\ ~Has(x) /\ x # 0
    BY <1>2
  <2>3. x - 1 \in 0 .. MaxRequest /\ x - 1 \notin S /\ x > 0
    BY <1>1, <2>1, <2>2
  <2>4. Has(x - 1)
    BY <2>3
  <2> QED
    BY <1>3, <2>2, <2>3, <2>4
<1>5. Has(MaxRequest)
  <2> HIDE DEF Has
  <2> QED
    BY <1>1, <1>4
<1>7. Turns = CHOOSE f : Fits(f, MaxRequest)
  BY DEF Turns, Lead, Rest
<1>8. Fits(Turns, MaxRequest)
  BY <1>5, <1>7
<1> QED
  BY <1>8 DEF Lead, Rest

LEMMA CopiedIs ==
  ASSUME NEW n \in Nat
  PROVE  Copied(n) \in Seq(Nat) /\ Len(Copied(n)) = n /\ \A j \in 1 .. n : Copied(n)[j] = j
BY DEF Copied

(* A copy, and the copies that follow it.                                  *)
LEMMA FilledIs ==
  ASSUME NEW i \in 0 .. Unit + Letters
  PROVE  /\ Filled[i] \in Seq(Nat)
         /\ Len(Filled[i]) = IF i >= Unit THEN 0 ELSE Unit - i
         /\ \A j \in 1 .. Unit - i : Filled[i][j] = 1 + ((j - 1) % Letters)
<1> DEFINE N == Unit + Letters
           Fine(k) == /\ Filled[k] \in Seq(Nat)
                      /\ Len(Filled[k]) = IF k >= Unit THEN 0 ELSE Unit - k
                      /\ \A j \in 1 .. Unit - k : Filled[k][j] = 1 + ((j - 1) % Letters)
           S == {d \in 0 .. N : ~Fine(N - d)}
<1>1. N \in Nat /\ Unit \in Nat \ {0} /\ Letters \in Nat \ {0} /\ N - Unit = Letters /\ N >= Unit
  BY RepeatedAssumption
<1>2. ASSUME NEW k \in 0 .. N, k >= Unit
      PROVE  Fine(k)
  <2>1. Filled[k] = <<>>
    BY <1>2, FilledDef
  <2> QED
    BY <1>1, <1>2, <2>1
<1>3. ASSUME NEW k \in 0 .. N, k < Unit, Fine(k + Letters)
      PROVE  Fine(k)
  <2> DEFINE c == Smaller(Unit - k, Letters)
             a == Copied(c)
             b == Filled[k + Letters]
  <2>1. Filled[k] = a \o b
    <3>1. ~(k >= Unit)
      BY <1>1, <1>3
    <3> QED
      BY <3>1, FilledDef
  <2>2. c \in Nat /\ c <= Unit - k /\ c <= Letters /\ c = (IF Unit - k < Letters THEN Unit - k ELSE Letters)
    BY <1>1, <1>3 DEF Smaller
  <2>3. b \in Seq(Nat) /\ Len(b) = (IF k + Letters >= Unit THEN 0 ELSE Unit - (k + Letters))
        /\ \A j \in 1 .. Unit - (k + Letters) : b[j] = 1 + ((j - 1) % Letters)
    BY <1>3
  <2> HIDE DEF b, c
  <2>4. a \in Seq(Nat) /\ Len(a) = c /\ \A j \in 1 .. c : a[j] = j
    BY <2>2, CopiedIs
  <2> HIDE DEF a
  <2>5. Len(b) = Unit - k - c
    BY <1>1, <1>3, <2>2, <2>3
  <2>6. /\ a \o b \in Seq(Nat) /\ Len(a \o b) = c + Len(b)
        /\ \A j \in 1 .. c + Len(b) : (a \o b)[j] = IF j <= c THEN a[j] ELSE b[j - c]
    BY <2>3, <2>4, ConcatProperties
  <2>7. c + Len(b) = Unit - k
    BY <1>1, <1>3, <2>2, <2>5
  <2>8. ASSUME NEW j \in 1 .. Unit - k
        PROVE  (a \o b)[j] = 1 + ((j - 1) % Letters)
    <3>1. CASE j <= c
      <4>1. j - 1 \in 0 .. Letters - 1 /\ j \in 1 .. c
        BY <1>1, <2>2, <3>1
      <4>2. (j - 1) % Letters = j - 1
        BY <1>1, <4>1, ModSmall
      <4> QED
        BY <2>4, <2>6, <2>7, <3>1, <4>1, <4>2
    <3>2. CASE ~(j <= c)
      <4>1. c = Letters /\ j - c \in 1 .. Unit - (k + Letters) /\ j - c - 1 \in Nat
        BY <1>1, <1>3, <2>2, <3>2
      <4>2. (a \o b)[j] = b[j - c]
        BY <2>6, <2>7, <3>2
      <4>3. b[j - c] = 1 + ((j - c - 1) % Letters)
        BY <2>3, <4>1
      <4>4. (j - c - 1) + Letters = j - 1
        BY <4>1, <1>1
      <4>5. ((j - c - 1) + Letters) % Letters = (j - c - 1) % Letters
        BY <1>1, <4>1, ModShift
      <4> QED
        BY <4>2, <4>3, <4>4, <4>5
    <3> QED
      BY <3>1, <3>2
  <2>9. ~(k >= Unit)
    BY <1>1, <1>3
  <2>10. Len(Filled[k]) = Unit - k
    BY <2>1, <2>6, <2>7
  <2> QED
    BY <2>1, <2>6, <2>8, <2>9, <2>10
<1> HIDE DEF Fine
<1>4. S = {}
  <2> SUFFICES ASSUME S # {} PROVE FALSE
    OBVIOUS
  <2>0. S \subseteq Nat
    BY <1>1
  <2>1. PICK x \in S : \A y \in S : x <= y
    <3> HIDE DEF S
    <3> QED
      BY <2>0, NatMin
  <2>2. x \in 0 .. N /\ ~Fine(N - x) /\ N - x \in 0 .. N
    BY <1>1
  <2>3. N - x < Unit
    BY <1>1, <1>2, <2>2
  <2>4. x - Letters \in 0 .. N /\ N - (x - Letters) = (N - x) + Letters /\ ~(x <= x - Letters)
    BY <1>1, <2>2, <2>3
  <2>5. Fine((N - x) + Letters)
    <3>1. x - Letters \notin S
      BY <2>1, <2>4
    <3> QED
      BY <2>4, <3>1
  <2> QED
    BY <1>3, <2>2, <2>3, <2>5
<1>5. i \in 0 .. N /\ N - i \in 0 .. N /\ N - (N - i) = i
  BY <1>1
<1>6. Fine(i)
  <2>1. N - i \notin S
    BY <1>4
  <2> QED
    BY <1>5, <2>1
<1> QED
  BY <1>6 DEF Fine

(* A unit is the pattern over and over.                                    *)
LEMMA BufferIs ==
  /\ Buffer \in Seq(Nat) /\ Len(Buffer) = Unit
  /\ \A j \in 1 .. Unit : Buffer[j] = 1 + ((j - 1) % Letters)
<1>1. Unit \in Nat \ {0} /\ Letters \in Nat \ {0} /\ 0 \in 0 .. Unit + Letters /\ Unit - 0 = Unit
  BY RepeatedAssumption
<1>2. /\ Filled[0] \in Seq(Nat)
      /\ Len(Filled[0]) = IF 0 >= Unit THEN 0 ELSE Unit - 0
      /\ \A j \in 1 .. Unit - 0 : Filled[0][j] = 1 + ((j - 1) % Letters)
  BY <1>1, FilledIs
<1> QED
  BY <1>1, <1>2 DEF Buffer

LEMMA BufferFromIs ==
  ASSUME NEW b \in Nat, NEW n \in Nat, b + n <= Unit
  PROVE  /\ BufferFrom(b, n) \in Seq(Nat) /\ Len(BufferFrom(b, n)) = n
         /\ \A j \in 1 .. n : BufferFrom(b, n)[j] = 1 + ((b + j - 1) % Letters)
<1>1. Buffer \in Seq(Nat) /\ Len(Buffer) = Unit /\ Unit \in Nat
  BY BufferIs, RepeatedAssumption
<1>2. \A j \in b + 1 .. b + n : j \in 1 .. Unit /\ Buffer[j] \in Nat
  BY <1>1, ElementOfSeq
<1>3. /\ SubSeq(Buffer, b + 1, b + n) \in Seq(Nat)
      /\ Len(SubSeq(Buffer, b + 1, b + n)) = IF b + 1 <= b + n THEN b + n - (b + 1) + 1 ELSE 0
      /\ \A j \in 1 .. b + n - (b + 1) + 1 : SubSeq(Buffer, b + 1, b + n)[j] = Buffer[b + 1 + j - 1]
  <2>1. b + 1 \in Int /\ b + n \in Int
    OBVIOUS
  <2> QED
    BY <1>2, <2>1, SubSeqProperties
<1>4. b + n - (b + 1) + 1 = n /\ (b + 1 <= b + n \/ n = 0)
  OBVIOUS
<1>5. ASSUME NEW j \in 1 .. n
      PROVE  BufferFrom(b, n)[j] = 1 + ((b + j - 1) % Letters)
  <2>1. b + 1 + j - 1 = b + j /\ b + j \in b + 1 .. b + n
    OBVIOUS
  <2>2. BufferFrom(b, n)[j] = Buffer[b + j]
    BY <1>3, <1>4, <2>1 DEF BufferFrom
  <2> QED
    BY <1>2, <2>1, <2>2, BufferIs
<1>6. Len(BufferFrom(b, n)) = n
  BY <1>3, <1>4 DEF BufferFrom
<1> QED
  BY <1>3, <1>5, <1>6 DEF BufferFrom

(* The turns after the first: from the start of a unit, unit after unit.   *)
LEMMA TurnsIs ==
  ASSUME NEW r \in 0 .. MaxRequest
  PROVE  /\ Turns[r] \in Seq(Nat) /\ Len(Turns[r]) = r
         /\ \A j \in 1 .. r : Turns[r][j] = LetterAt(j - 1)
<1> DEFINE Fine(k) == /\ Turns[k] \in Seq(Nat) /\ Len(Turns[k]) = k
                      /\ \A j \in 1 .. k : Turns[k][j] = LetterAt(j - 1)
           S == {k \in 0 .. MaxRequest : ~Fine(k)}
<1>1. Unit \in Nat \ {0} /\ Letters \in Nat \ {0} /\ MaxRequest \in Nat
  BY RepeatedAssumption
<1>2. Fine(0)
  <2>1. Turns[0] = <<>>
    BY <1>1, TurnsDef
  <2> QED
    BY <2>1
<1>3. ASSUME NEW k \in 0 .. MaxRequest, k # 0, Fine(k - Smaller(k, Unit))
      PROVE  Fine(k)
  <2> DEFINE c == Smaller(k, Unit)
             a == BufferFrom(0, c)
             b == Turns[k - c]
  <2>1. Turns[k] = a \o b
    BY <1>3, TurnsDef
  <2>2. c \in Nat /\ c <= k /\ c <= Unit /\ c = (IF k < Unit THEN k ELSE Unit) /\ 0 + c <= Unit /\ k \in Nat
    BY <1>1, <1>3 DEF Smaller
  <2>3. b \in Seq(Nat) /\ Len(b) = k - c /\ \A j \in 1 .. k - c : b[j] = LetterAt(j - 1)
    BY <1>3
  <2> HIDE DEF b, c
  <2>4. a \in Seq(Nat) /\ Len(a) = c /\ \A j \in 1 .. c : a[j] = 1 + ((0 + j - 1) % Letters)
    BY <2>2, BufferFromIs
  <2> HIDE DEF a
  <2>6. /\ a \o b \in Seq(Nat) /\ Len(a \o b) = c + Len(b)
        /\ \A j \in 1 .. c + Len(b) : (a \o b)[j] = IF j <= c THEN a[j] ELSE b[j - c]
    BY <2>3, <2>4, ConcatProperties
  <2>7. c + Len(b) = k
    BY <2>2, <2>3
  <2>8. ASSUME NEW j \in 1 .. k
        PROVE  (a \o b)[j] = LetterAt(j - 1)
    <3>1. CASE j <= c
      <4>1. j - 1 \in 0 .. Unit - 1 /\ j \in 1 .. c /\ 0 + j - 1 = j - 1
        BY <1>1, <2>2, <3>1
      <4>2. (j - 1) % Unit = j - 1
        BY <1>1, <4>1, ModSmall
      <4>3. (a \o b)[j] = 1 + ((j - 1) % Letters)
        BY <2>4, <2>6, <2>7, <3>1, <4>1
      <4> QED
        BY <4>2, <4>3 DEF LetterAt
    <3>2. CASE ~(j <= c)
      <4>1. c = Unit /\ j - c \in 1 .. k - c /\ j - c - 1 \in Nat /\ (j - c - 1) + Unit = j - 1
        BY <1>1, <2>2, <3>2
      <4>2. (a \o b)[j] = b[j - c]
        BY <2>6, <2>7, <3>2
      <4>3. b[j - c] = LetterAt(j - c - 1)
        BY <2>3, <4>1
      <4>5. ((j - c - 1) + Unit) % Unit = (j - c - 1) % Unit
        BY <1>1, <4>1, ModShift
      <4> QED
        BY <4>1, <4>2, <4>3, <4>5 DEF LetterAt
    <3> QED
      BY <3>1, <3>2
  <2> QED
    BY <2>1, <2>6, <2>7, <2>8
<1> HIDE DEF Fine
<1>4. S = {}
  <2> SUFFICES ASSUME S # {} PROVE FALSE
    OBVIOUS
  <2>0. S \subseteq Nat
    BY <1>1
  <2>1. PICK x \in S : \A y \in S : x <= y
    <3> HIDE DEF S
    <3> QED
      BY <2>0, NatMin
  <2>2. x \in 0 .. MaxRequest /\ ~Fine(x) /\ x # 0
    BY <1>2
  <2> DEFINE y == x - Smaller(x, Unit)
  <2>3. y \in 0 .. MaxRequest /\ ~(x <= y)
    BY <1>1, <2>2 DEF Smaller
  <2> HIDE DEF y
  <2>4. Fine(y)
    BY <2>1, <2>3
  <2> QED
    BY <1>3, <2>2, <2>4 DEF y
<1> QED
  BY <1>4 DEF Fine

(* Whatever offset and count are asked for, read() of a repeated stream    *)
(* (RepeatedImageStream.cc:38-98) gives the letters of a pattern begun     *)
(* anew at each unit, as many as were asked for.                           *)
THEOREM RepeatedIs ==
  ASSUME NEW at \in Nat, NEW n \in 0 .. MaxRequest
  PROVE  /\ Repeated(at, n) \in Seq(Nat) /\ Len(Repeated(at, n)) = n
         /\ \A j \in 1 .. n : Repeated(at, n)[j] = LetterAt(at + j - 1)
<1> DEFINE o == at % Unit
           c == FirstLimit(at, n)
           a == BufferFrom(o, c)
           b == Turns[n - c]
<1>1. Unit \in Nat \ {0} /\ Letters \in Nat \ {0} /\ MaxRequest \in Nat /\ n \in Nat
  BY RepeatedAssumption
<1>2. o \in 0 .. Unit - 1
  BY <1>1, ModSplit
<1>3. c = IF n < Unit - o THEN n ELSE Unit - o
  BY DEF FirstLimit, Smaller
<1>4. Repeated(at, n) = a \o b
  BY DEF Repeated, FirstTurn
<1> HIDE DEF o, c
<1>5. c \in Nat /\ o \in Nat /\ o + c <= Unit /\ n - c \in 0 .. MaxRequest /\ c <= n
  BY <1>1, <1>2, <1>3
<1>6. a \in Seq(Nat) /\ Len(a) = c /\ \A j \in 1 .. c : a[j] = 1 + ((o + j - 1) % Letters)
  BY <1>5, BufferFromIs
<1>7. b \in Seq(Nat) /\ Len(b) = n - c /\ \A j \in 1 .. n - c : b[j] = LetterAt(j - 1)
  BY <1>5, TurnsIs
<1> HIDE DEF a, b
<1>8. /\ a \o b \in Seq(Nat) /\ Len(a \o b) = c + Len(b)
      /\ \A j \in 1 .. c + Len(b) : (a \o b)[j] = IF j <= c THEN a[j] ELSE b[j - c]
  BY <1>6, <1>7, ConcatProperties
<1>9. c + Len(b) = n
  BY <1>5, <1>7
<1>10. ASSUME NEW j \in 1 .. n
       PROVE  (a \o b)[j] = LetterAt(at + j - 1)
  <2>1. CASE j <= c
    <3>1. j - 1 \in Nat /\ j \in 1 .. c /\ o + (j - 1) < Unit /\ o + j - 1 = o + (j - 1) /\ at + j - 1 = at + (j - 1)
      BY <1>1, <1>2, <1>3, <1>5, <2>1
    <3>2. (at + (j - 1)) % Unit = o + (j - 1)
      BY <1>1, <3>1, ModAdd DEF o
    <3>3. (a \o b)[j] = 1 + ((o + j - 1) % Letters)
      BY <1>6, <1>8, <1>9, <2>1, <3>1
    <3> QED
      BY <3>1, <3>2, <3>3 DEF LetterAt
  <2>2. CASE ~(j <= c)
    <3>1. c = Unit - o /\ j - c \in 1 .. n - c /\ j - c - 1 \in Nat
      BY <1>1, <1>2, <1>3, <1>5, <2>2
    <3>2. at + (Unit - o) + (j - c - 1) = at + j - 1
      BY <1>2, <1>5, <3>1
    <3>3. (at + (Unit - o) + (j - c - 1)) % Unit = (j - c - 1) % Unit
      BY <1>1, <3>1, ModWrap DEF o
    <3>4. (a \o b)[j] = b[j - c] /\ b[j - c] = LetterAt(j - c - 1)
      BY <1>7, <1>8, <1>9, <2>2, <3>1
    <3> QED
      BY <3>2, <3>3, <3>4 DEF LetterAt
  <2> QED
    BY <2>1, <2>2
<1> QED
  BY <1>4, <1>8, <1>9, <1>10

-----------------------------------------------------------------------------
(* The state of the readers.                                               *)

Total == Larger(offset, length)

ReadTypes ==
    /\ pc \in [Threads -> {"idle", "called", "loop"}]
    /\ call = [t \in Threads |-> call[t]]
    /\ next = [t \in Threads |-> next[t]]
    /\ left = [t \in Threads |-> left[t]]
    /\ buf = [t \in Threads |-> buf[t]]
    /\ result = [t \in Threads |-> result[t]]

CallRecord == [offset : Word, count : Word, late : BOOLEAN]

\* The whole of a request below the end of the stream.
Share(o, c) == IF o > length THEN 0 ELSE IF o + c > length THEN length - o ELSE c

\* A read was asked for, on a map that was built.
Asked(t) == pc[t] # "idle" \/ result[t] # NoReply => phase = "ready" /\ call[t] \in CallRecord

\* While the map is open: where a reader is, and what it has and still wants.
Served(t) ==
    /\ pc[t] = "called" => buf[t] = <<>>
    /\ WellFormed(input) /\ ~closed =>
         /\ pc[t] = "loop" =>
              /\ next[t] \in Word /\ left[t] \in Word /\ \E S : buf[t] \in Seq(S)
              /\ call[t].offset <= length
              /\ next[t] = call[t].offset + Len(buf[t]) /\ next[t] <= Total
              /\ Len(buf[t]) + left[t] = Truncated(call[t].offset, call[t].count)
         /\ result[t] \in Nat => pc[t] = "idle" /\ result[t] = Share(call[t].offset, call[t].count)

SInv == IInv /\ ReadTypes /\ \A t \in Threads : Asked(t) /\ Served(t)

-----------------------------------------------------------------------------
(* Words.                                                                  *)

LEMMA WrapOnce == \A a \in Nat : W <= a /\ a < W + W => a % W = a - W
<1> SUFFICES ASSUME NEW a \in Nat, W <= a, a < W + W
             PROVE  a % W = a - W
  OBVIOUS
<1> QED
  BY WordAssumption

LEMMA TruncatedIs ==
  ASSUME length \in Word, NEW o \in Word, NEW c \in Word, o <= length
  PROVE  /\ Truncated(o, c) \in Word
         /\ o + c < W => Truncated(o, c) = Share(o, c)
         /\ W <= o + c => Truncated(o, c) = c
<1>1. o \in Nat /\ c \in Nat /\ length \in Nat /\ o < W /\ c < W /\ length < W /\ W \in Nat
  BY WordAssumption DEF Word
<1>2. CASE o + c < W
  <2>1. o + c \in Word
    BY <1>1, <1>2 DEF Word
  <2>2. (o + c) % W = o + c
    BY <2>1, WordFacts
  <2>3. o + c > length => (c - (o + c - length)) % W = length - o
    <3> HAVE o + c > length
    <3>1. c - (o + c - length) = length - o /\ length - o \in Word
      BY <1>1 DEF Word
    <3> QED
      BY <3>1, WordFacts
  <2>4. length - o \in Word
    BY <1>1 DEF Word
  <2> QED
    BY <1>1, <1>2, <2>2, <2>3, <2>4 DEF Truncated, Share
<1>3. CASE W <= o + c
  <2>1. (o + c) % W = o + c - W
    BY <1>1, <1>3, WrapOnce
  <2>2. ~((o + c) % W > length)
    BY <1>1, <2>1
  <2> QED
    BY <1>1, <1>3, <2>2 DEF Truncated
<1> QED
  BY <1>1, <1>2, <1>3

-----------------------------------------------------------------------------
LEMMA SInitInv == ReadInit => SInv
<1> SUFFICES ASSUME ReadInit
             PROVE  SInv
  OBVIOUS
<1>1. IInv
  BY InitInv DEF ReadInit
<1>3. ReadTypes
  BY DEF ReadInit, ReadTypes
<1> QED
  BY <1>1, <1>3, ReplyAssumption DEF ReadInit, SInv, Asked, Served

\* Threads a step does nothing to, while the map is the same or closed.
LEMMA OtherServed ==
  ASSUME SInv, NEW t \in Threads,
         input' = input, phase' = phase, offset' = offset, length' = length,
         (closed' = closed) \/ (closed' = TRUE),
         pc'[t] = pc[t], call'[t] = call[t], next'[t] = next[t], left'[t] = left[t],
         buf'[t] = buf[t], result'[t] = result[t]
  PROVE  Asked(t)' /\ Served(t)'
<1>1. closed \in BOOLEAN
  BY DEF SInv, IInv, TypeOK
<1>2. CallRecord' = CallRecord
  BY DEF CallRecord
<1>6. Asked(t) /\ Served(t)
  BY DEF SInv
<1>3. Asked(t)'
  BY <1>2, <1>6 DEF Asked
<1>4. CASE closed' = closed
  <2>2. call[t]' = call[t] /\ next[t]' = next[t] /\ left[t]' = left[t] /\ buf[t]' = buf[t] /\ pc[t]' = pc[t]
        /\ result[t]' = result[t] /\ closed' = closed /\ input' = input /\ length' = length
    BY <1>4
  <2>1. /\ Share(call[t].offset, call[t].count)' = Share(call[t].offset, call[t].count)
        /\ Truncated(call[t].offset, call[t].count)' = Truncated(call[t].offset, call[t].count)
        /\ Total' = Total
    BY DEF Share, Truncated, Total
  <2> HIDE DEF Total
  <2> QED
    BY <1>3, <1>6, <2>2, <2>1 DEF Served
<1>5. CASE closed' = TRUE
  <2>1. buf[t]' = buf[t] /\ pc[t]' = pc[t] /\ closed'
    BY <1>5
  <2> QED
    BY <1>3, <1>6, <2>1 DEF Served
<1> QED
  BY <1>3, <1>4, <1>5

LEMMA MapSame ==
  ASSUME IInv, UNCHANGED mapVars
  PROVE  IInv'
  BY BuildInv

LEMMA BuildServed ==
  ASSUME SInv, Build
  PROVE  SInv'
<1>1. BuildNext /\ UNCHANGED readVars
  BY DEF Build
<1>2. phase # "ready"
  BY <1>1 DEF BuildNext, InitStreamVector, NoMapSegment, LoadPoints, AddPoint, FinishMap
<1>3. \A t \in Threads : pc[t] = "idle" /\ result[t] = NoReply
  BY <1>2 DEF SInv, Asked
<1>4. IInv'
  BY <1>1, BuildInv DEF SInv
<1>5. ReadTypes'
  BY <1>1 DEF SInv, ReadTypes, readVars
<1>6. \A t \in Threads : Asked(t)' /\ Served(t)'
  BY <1>1, <1>3, ReplyAssumption DEF Asked, Served, readVars
<1> QED
  BY <1>4, <1>5, <1>6 DEF SInv

LEMMA CloseServed ==
  ASSUME SInv, Close \/ ClearStreams
  PROVE  SInv'
<1>1. /\ closed' /\ phase = "ready" /\ UNCHANGED <<input, phase, gapId, todo, offset, map, length, readVars>>
      /\ streams' = streams \/ streams' = <<>>
  BY DEF Close, ClearStreams, SInv, IInv, StreamsInv
<1>2. IInv'
  <2>1. <<>> \in Seq(Stream)
    OBVIOUS
  <2>2. closed' \in BOOLEAN
    BY DEF Close, ClearStreams, SInv, IInv, TypeOK
  <2>3. TypeOK'
    BY <1>1, <2>1, <2>2 DEF SInv, IInv, TypeOK
  <2>4. LayoutInv'
    BY <1>1 DEF SInv, IInv, LayoutInv, TodoInv, Laid, LaidAs, IsHole, Waits
  <2>5. StreamsInv'
    BY <1>1 DEF StreamsInv
  <2> QED
    BY <2>3, <2>4, <2>5 DEF IInv
<1>3. ReadTypes'
  BY <1>1 DEF SInv, ReadTypes, readVars
<1>4. \A t \in Threads : Asked(t)' /\ Served(t)'
  BY <1>1, OtherServed DEF readVars
<1> QED
  BY <1>2, <1>3, <1>4 DEF SInv

\* What a step of thread t has to show.
LEMMA StepServed ==
  ASSUME SInv, NEW t \in Threads, UNCHANGED mapVars, ReadTypes', Asked(t)', Served(t)',
         \A u \in Threads \ {t} : /\ pc'[u] = pc[u] /\ call'[u] = call[u] /\ next'[u] = next[u]
                                  /\ left'[u] = left[u] /\ buf'[u] = buf[u] /\ result'[u] = result[u]
  PROVE  SInv'
<1>1. IInv'
  BY MapSame DEF SInv
<1>2. \A u \in Threads \ {t} : Asked(u)' /\ Served(u)'
  BY OtherServed DEF mapVars
<1> QED
  BY <1>1, <1>2 DEF SInv

LEMMA CallServed ==
  ASSUME SInv, NEW t \in Threads, NEW c \in Calls, Call(t, c)
  PROVE  SInv'
<1> DEFINE r == [offset |-> c.offset, count |-> c.count, late |-> closed]
<1>1. r \in CallRecord
  BY CallsAssumption DEF CallRecord, SInv, IInv, TypeOK
<1>2. /\ phase = "ready" /\ UNCHANGED <<mapVars, next, left>>
      /\ pc' = [pc EXCEPT ![t] = "called"] /\ call' = [call EXCEPT ![t] = r]
      /\ buf' = [buf EXCEPT ![t] = <<>>] /\ result' = [result EXCEPT ![t] = NoReply]
  BY DEF Call
<1> HIDE DEF r
<1>4. /\ pc'[t] = "called" /\ call'[t] = r /\ buf'[t] = <<>> /\ result'[t] = NoReply
      /\ \A u \in Threads \ {t} : /\ pc'[u] = pc[u] /\ call'[u] = call[u] /\ next'[u] = next[u]
                                  /\ left'[u] = left[u] /\ buf'[u] = buf[u] /\ result'[u] = result[u]
  BY <1>2 DEF SInv, ReadTypes
<1>5. ReadTypes'
  BY <1>2 DEF SInv, ReadTypes
<1>6. phase' = "ready" /\ CallRecord' = CallRecord
  BY <1>2 DEF mapVars, CallRecord
<1>7. Asked(t)' /\ Served(t)'
  BY <1>1, <1>4, <1>6, ReplyAssumption DEF Asked, Served
<1> QED
  BY <1>2, <1>4, <1>5, <1>7, StepServed

\* A read that returns.
LEMMA ReturnServed ==
  ASSUME SInv, NEW t \in Threads, NEW n, Return(t, n), pc[t] # "idle",
         UNCHANGED <<mapVars, call, next, left, buf>>,
         WellFormed(input) /\ ~closed /\ n \in Nat => n = Share(call[t].offset, call[t].count)
  PROVE  SInv'
<1>1. /\ pc'[t] = "idle" /\ result'[t] = n
      /\ \A u \in Threads \ {t} : pc'[u] = pc[u] /\ result'[u] = result[u]
  BY DEF Return, SInv, ReadTypes
<1>2. ReadTypes'
  BY DEF Return, SInv, ReadTypes
<1>3. Asked(t)'
  BY DEF SInv, Asked, mapVars, CallRecord
<1>4. Share(call[t].offset, call[t].count)' = Share(call[t].offset, call[t].count)
  BY DEF Share, mapVars
<1>5. Served(t)'
  BY <1>1, <1>4 DEF Served, mapVars
<1> QED
  BY <1>1, <1>2, <1>3, <1>5, StepServed

LEMMA RefuseServed ==
  ASSUME SInv, NEW t \in Threads, Refuse(t)
  PROVE  SInv'
<1>1. /\ pc[t] = "called" /\ (closed \/ call[t].offset > length)
      /\ Return(t, IF closed THEN -1 ELSE 0)
      /\ UNCHANGED <<mapVars, call, next, left, buf>>
  BY DEF Refuse
<1>2. closed \in BOOLEAN
  BY DEF SInv, IInv, TypeOK
<1>3. CASE closed
  BY <1>1, <1>3, ReturnServed
<1>4. CASE ~closed
  <2>1. Share(call[t].offset, call[t].count) = 0
    BY <1>1, <1>4 DEF Share
  <2> QED
    BY <1>1, <1>4, <2>1, ReturnServed
<1> QED
  BY <1>2, <1>3, <1>4

LEMMA EnterServed ==
  ASSUME SInv, NEW t \in Threads, Enter(t)
  PROVE  SInv'
<1> DEFINE n == Truncated(call[t].offset, call[t].count)
<1>1. /\ pc[t] = "called" /\ ~closed /\ call[t].offset <= length
      /\ pc' = [pc EXCEPT ![t] = "loop"] /\ next' = [next EXCEPT ![t] = call[t].offset]
      /\ left' = [left EXCEPT ![t] = n]
      /\ UNCHANGED <<mapVars, call, buf, result>>
  BY DEF Enter
<1>2. call[t].offset \in Word /\ call[t].count \in Word /\ call[t] \in CallRecord /\ phase = "ready"
  BY <1>1 DEF SInv, Asked, CallRecord
<1>3. length \in Word /\ offset \in Word
  BY DEF SInv, IInv, TypeOK
<1>4. n \in Word
  BY <1>1, <1>2, <1>3, TruncatedIs
<1>5. Truncated(call[t].offset, call[t].count)' = n
  BY <1>1 DEF mapVars, Truncated
<1> HIDE DEF n
<1>6. /\ pc'[t] = "loop" /\ next'[t] = call[t].offset /\ left'[t] = n
      /\ \A u \in Threads \ {t} : pc'[u] = pc[u] /\ next'[u] = next[u] /\ left'[u] = left[u]
  BY <1>1 DEF SInv, ReadTypes
<1>7. ReadTypes'
  BY <1>1 DEF SInv, ReadTypes
<1>8. Asked(t)'
  BY <1>1, <1>2 DEF Asked, mapVars, CallRecord
<1>9. Served(t)'
  <2>1. buf[t] = <<>> /\ (WellFormed(input) => result[t] \notin Nat)
    BY <1>1 DEF SInv, Served
  <2>5. buf[t] \in Seq({})
    BY <2>1
  <2>2. call[t].offset <= Total /\ call[t].offset \in Nat /\ n \in Nat
    <3>1. call[t].offset \in Nat /\ n \in Nat /\ length \in Nat /\ offset \in Nat
      BY <1>2, <1>3, <1>4 DEF Word
    <3>2. call[t].offset <= length
      BY <1>1
    <3> QED
      BY <3>1, <3>2 DEF Total, Larger
  <2>3. Len(buf'[t]) = 0 /\ call'[t] = call[t] /\ Total' = Total /\ length' = length /\ input' = input
    BY <1>1, <2>1 DEF mapVars, Total
  <2>4. buf[t]' \in Seq({}) /\ pc[t]' = "loop" /\ next[t]' = call[t].offset /\ left[t]' = n
        /\ call[t]' = call[t] /\ Len(buf[t]') = 0 /\ result[t]' = result[t]
    BY <1>1, <1>6, <2>5, <2>3
  <2> HIDE DEF Total
  <2> QED
    BY <1>1, <1>2, <1>4, <1>5, <2>1, <2>2, <2>3, <2>4 DEF Served
<1> QED
  BY <1>1, <1>6, <1>7, <1>8, <1>9, StepServed

LEMMA ReadClearedServed ==
  ASSUME SInv, NEW t \in Threads, ReadCleared(t)
  PROVE  SInv'
<1>1. PICK n \in {-1, call[t].count} : Return(t, n)
  BY DEF ReadCleared
<1>2. pc[t] = "loop" /\ streams = <<>> /\ UNCHANGED <<mapVars, call, next, left, buf>>
  BY DEF ReadCleared
<1>3. phase = "ready"
  BY <1>2 DEF SInv, Asked
<1>4. closed
  BY <1>2, <1>3, InputTypes DEF SInv, IInv, StreamsInv
<1> QED
  BY <1>1, <1>2, <1>4, ReturnServed

LEMMA FinishServed ==
  ASSUME SInv, NEW t \in Threads, Finish(t)
  PROVE  SInv'
<1>1. pc[t] = "loop" /\ left[t] = 0 /\ Return(t, Len(buf[t])) /\ UNCHANGED <<mapVars, call, next, left, buf>>
  BY DEF Finish
<1>2. ASSUME WellFormed(input), ~closed
      PROVE  Len(buf[t]) = Share(call[t].offset, call[t].count)
  <2>1. /\ call[t].offset <= length /\ next[t] = call[t].offset + Len(buf[t])
        /\ Len(buf[t]) + left[t] = Truncated(call[t].offset, call[t].count)
    BY <1>1, <1>2 DEF SInv, Served
  <2>2. call[t].offset \in Word /\ call[t].count \in Word /\ length \in Word /\ next[t] \in Word
    BY <1>1, <1>2 DEF SInv, Asked, CallRecord, IInv, TypeOK, Served
  <2>3. Len(buf[t]) \in Nat
    <3>1. PICK S : buf[t] \in Seq(S)
      BY <1>1, <1>2 DEF SInv, Served
    <3> QED
      BY <3>1, LenProperties
  <2>4. Len(buf[t]) = Truncated(call[t].offset, call[t].count)
    BY <1>1, <2>1, <2>3
  <2>5. call[t].offset \in Nat /\ call[t].count \in Nat /\ W \in Nat /\ next[t] < W
    BY <2>2, WordAssumption DEF Word
  <2>6. call[t].offset + call[t].count < W
    <3> SUFFICES ASSUME W <= call[t].offset + call[t].count
                 PROVE  FALSE
      BY <2>5
    <3>1. Len(buf[t]) = call[t].count
      BY <2>1, <2>2, <2>4, TruncatedIs
    <3> QED
      BY <2>1, <2>5, <3>1
  <2> QED
    BY <2>1, <2>2, <2>4, <2>6, TruncatedIs
<1> QED
  BY <1>1, <1>2, ReturnServed

\* A turn of the loop stays within the entry it found, and at the end of the map finds no more.
LEMMA PartIs ==
  ASSUME SInv, NEW t \in Threads, pc[t] = "loop", left[t] > 0, WellFormed(input), ~closed
  PROVE  /\ PartLength(t) \in Nat /\ PartLength(t) <= left[t]
         /\ next[t] + PartLength(t) <= Total
         /\ next[t] = Total => PartLength(t) = 0
<1>1. phase = "ready" /\ next[t] \in Word /\ left[t] \in Word /\ next[t] <= Total
  BY DEF SInv, Asked, Served
<1>2. input.points # <<>>
  BY <1>1 DEF SInv, IInv, StreamsInv
<1>3. Tiles(map, Total) /\ length > 0
  BY <1>1, <1>2 DEF SInv, IInv, LayoutInv, Total
<1>4. /\ Entries(map) /\ offset \in Word /\ length \in Word /\ Total \in Word
      /\ \A q \in DOMAIN map : map[q] \in Point
  BY TypeEntries DEF SInv, IInv, TypeOK, Total, Larger
<1>5. next[t] \in Nat /\ left[t] \in Nat /\ Total \in Nat /\ length \in Nat /\ offset \in Nat
  BY <1>1, <1>4, WordFacts
<1>6. Total > 0
  BY <1>3, <1>5 DEF Total, Larger
<1>7. PICK q \in DOMAIN map : EntryKey(next[t]) = q /\ q <= next[t] /\ next[t] <= q + map[q].length
                              /\ (next[t] = Total => next[t] = q + map[q].length)
  <2>1. CASE next[t] < Total
    <3>1. next[t] \in 0 .. Total - 1
      BY <1>5, <2>1
    <3>2. PICK q \in DOMAIN map : Covers(map[q], next[t])
      BY <1>3, <3>1 DEF Tiles
    <3>3. EntryKey(next[t]) = q
      BY <1>3, <1>4, <1>5, <3>1, <3>2, LookupFinds
    <3>4. map[q].offset = q /\ q \in Nat /\ map[q].length \in Nat
      BY <1>3, <1>4 DEF Tiles, Entries
    <3> QED
      BY <1>5, <2>1, <3>2, <3>3, <3>4 DEF Covers
  <2>2. CASE next[t] = Total
    <3>1. PICK q \in DOMAIN map : EntryKey(Total) = q /\ q + map[q].length = Total
      BY <1>3, <1>4, <1>5, <1>6, LookupPastEnd
    <3>2. q \in Nat /\ map[q].length \in Nat
      BY <1>4 DEF Entries
    <3> QED
      BY <2>2, <3>1, <3>2
  <2> QED
    BY <1>1, <1>5, <2>1, <2>2
<1> DEFINE e == map[q]
           rest == e.length - (next[t] - e.offset)
<1>8. EntryAt(next[t]) = e
  BY <1>7 DEF EntryAt
<1>9. e.offset = q /\ q \in Nat /\ e.length \in Word /\ e.length \in Nat /\ q + e.length <= Total
  BY <1>3, <1>4 DEF Tiles, Entries, Point
<1>10. rest \in Word /\ rest \in Nat /\ next[t] + rest = q + e.length
  <2>1. rest \in Nat /\ rest <= e.length /\ next[t] + rest = q + e.length
    BY <1>5, <1>7, <1>9
  <2> QED
    BY <1>9, <2>1, WordAssumption DEF Word
<1>11. PartLength(t) = IF left[t] < rest THEN left[t] ELSE rest
  <2>1. rest % W = rest
    BY <1>10, WordFacts
  <2> QED
    BY <1>8, <2>1 DEF PartLength
<1> HIDE DEF e, rest
<1>12. next[t] = Total => rest = 0
  BY <1>5, <1>7, <1>10 DEF e
<1> QED
  BY <1>5, <1>9, <1>10, <1>11, <1>12

LEMMA NothingRead ==
  ASSUME NEW s, NEW at \in Word, NEW res \in SubRead(s, at, 0)
  PROVE  Failed(res)
<1>1. at \in Nat /\ ImageSize \in Nat
  BY WordFacts, ImageSizeAssumption
<1>2. Available(s, at, 0) = 0
  BY <1>1 DEF Available
<1> QED
  BY <1>2 DEF SubRead, Failed

LEMMA SubBytesAre ==
  ASSUME NEW s, NEW at, NEW res, NEW n \in Nat
  PROVE  \E S : SubBytes(s, at, res, n) \in Seq(S) /\ Len(SubBytes(s, at, res, n)) = n
<1> DEFINE B(i) == IF i > res THEN Unwritten
                   ELSE [stream |-> s, at |-> IF s.kind = "unknown" THEN Repeated(at, n)[i] ELSE (at + i - 1) % W]
           b == SubBytes(s, at, res, n)
           S == {b[i] : i \in 1 .. n}
<1>1. b \in [1 .. n -> S]
  BY DEF SubBytes
<1> HIDE DEF b
<1>2. b \in Seq(S) /\ Len(b) = n
  BY <1>1
<1> QED
  BY <1>2 DEF b

LEMMA ConcatAny ==
  ASSUME NEW S, NEW T, NEW a \in Seq(S), NEW b \in Seq(T)
  PROVE  a \o b \in Seq(S \cup T) /\ Len(a \o b) = Len(a) + Len(b) /\ Len(a) \in Nat /\ Len(b) \in Nat
<1>1. a \in Seq(S \cup T) /\ b \in Seq(S \cup T)
  OBVIOUS
<1> QED
  BY <1>1, ConcatProperties, LenProperties

LEMMA ReadEntryServed ==
  ASSUME SInv, NEW t \in Threads, ReadEntry(t)
  PROVE  SInv'
<1> DEFINE s == StreamAt(EntryAt(next[t]))
           n == PartLength(t)
           at == StreamOffset(t)
<1>1. PICK res \in SubRead(s, at, n) :
        IF Failed(res)
        THEN Return(t, -1) /\ UNCHANGED <<next, left, buf>>
        ELSE /\ buf' = [buf EXCEPT ![t] = @ \o SubBytes(s, at, res, n)]
             /\ next' = [next EXCEPT ![t] = (@ + n) % W]
             /\ left' = [left EXCEPT ![t] = @ - n]
             /\ UNCHANGED <<pc, result>>
  BY DEF ReadEntry
<1>2. pc[t] = "loop" /\ left[t] > 0 /\ UNCHANGED <<mapVars, call>>
  BY DEF ReadEntry
<1>3. CASE Failed(res)
  BY <1>1, <1>2, <1>3, ReturnServed
<1>4. CASE ~Failed(res)
  <2> DEFINE more == SubBytes(s, at, res, n)
  <2>1. /\ buf' = [buf EXCEPT ![t] = @ \o more]
        /\ next' = [next EXCEPT ![t] = (@ + n) % W]
        /\ left' = [left EXCEPT ![t] = @ - n]
        /\ UNCHANGED <<pc, result>>
    BY <1>1, <1>4
  <2>2. /\ pc[t]' = "loop" /\ buf[t]' = buf[t] \o more
        /\ next[t]' = (next[t] + n) % W /\ left[t]' = left[t] - n /\ result[t]' = result[t]
        /\ \A u \in Threads \ {t} : /\ pc'[u] = pc[u] /\ call'[u] = call[u] /\ next'[u] = next[u]
                                    /\ left'[u] = left[u] /\ buf'[u] = buf[u] /\ result'[u] = result[u]
    BY <1>2, <2>1 DEF SInv, ReadTypes
  <2>9. ReadTypes'
    BY <1>2, <2>1 DEF SInv, ReadTypes
  <2>10. phase = "ready" /\ call[t] \in CallRecord /\ Served(t) /\ offset \in Word /\ length \in Word
    BY <1>2 DEF SInv, Asked, IInv, TypeOK
  <2>11. Asked(t)'
    BY <1>2, <2>10 DEF Asked, mapVars, CallRecord
  <2>12. /\ Truncated(call[t].offset, call[t].count)' = Truncated(call[t].offset, call[t].count)
         /\ Share(call[t].offset, call[t].count)' = Share(call[t].offset, call[t].count)
         /\ Total' = Total /\ call[t]' = call[t] /\ input' = input /\ closed' = closed /\ length' = length
    BY <1>2 DEF mapVars, Truncated, Share, Total
  <2>13. ASSUME WellFormed(input), ~closed
         PROVE  /\ next[t]' \in Word /\ left[t]' \in Word /\ \E S : buf[t]' \in Seq(S)
                /\ call[t].offset <= length
                /\ next[t]' = call[t].offset + Len(buf[t]') /\ next[t]' <= Total
                /\ Len(buf[t]') + left[t]' = Truncated(call[t].offset, call[t].count)
                /\ result[t]' \notin Nat
    <3>1. /\ next[t] \in Word /\ left[t] \in Word /\ \E S : buf[t] \in Seq(S)
          /\ call[t].offset <= length
          /\ next[t] = call[t].offset + Len(buf[t]) /\ next[t] <= Total
          /\ Len(buf[t]) + left[t] = Truncated(call[t].offset, call[t].count)
          /\ result[t] \notin Nat
      BY <1>2, <2>10, <2>13 DEF Served
    <3>2. n \in Nat /\ n <= left[t] /\ next[t] + n <= Total
      BY <1>2, <2>13, PartIs
    <3>3. call[t].offset \in Nat /\ Total \in Nat /\ Total < W /\ next[t] \in Nat /\ left[t] \in Nat
          /\ left[t] < W
      BY <2>10, <3>1, WordAssumption DEF Total, Larger, Word, CallRecord
    <3> HIDE DEF n, at, s, Total
    <3>4. next[t] + n \in Word /\ left[t] - n \in Word
      BY <3>2, <3>3, WordAssumption DEF Word
    <3>5. (next[t] + n) % W = next[t] + n
      BY <3>4, WordFacts
    <3>6. PICK S : buf[t] \in Seq(S)
      BY <3>1
    <3>7. \E T : more \in Seq(T) /\ Len(more) = n
      BY <3>2, SubBytesAre
    <3> HIDE DEF more
    <3>8. PICK T : more \in Seq(T) /\ Len(more) = n
      BY <3>7
    <3> DEFINE b == buf[t]
    <3> HIDE DEF b
    <3>9. b \o more \in Seq(S \cup T) /\ Len(b \o more) = Len(b) + n /\ Len(b) \in Nat
      <4>1. b \in Seq(S)
        BY <3>6 DEF b
      <4> QED
        BY <4>1, <3>8, ConcatAny
    <3> QED
      BY <2>2, <3>1, <3>2, <3>3, <3>4, <3>5, <3>9, SMTT(30) DEF b
  <2>15. Served(t)'
    <3> HIDE DEF Total
    <3> QED
      BY <2>2, <2>12, <2>13 DEF Served
  <2> QED
    BY <1>2, <2>2, <2>9, <2>11, <2>15, StepServed
<1> QED
  BY <1>3, <1>4

-----------------------------------------------------------------------------
LEMMA NextInv == SInv /\ [Next]_vars => SInv'
<1> SUFFICES ASSUME SInv, [Next]_vars
             PROVE  SInv'
  OBVIOUS
<1>1. CASE Build
  BY <1>1, BuildServed
<1>2. CASE Close \/ ClearStreams
  BY <1>2, CloseServed
<1>3. ASSUME NEW t \in Threads,
             \/ \E c \in Calls : Call(t, c)
             \/ Refuse(t) \/ Enter(t) \/ ReadEntry(t) \/ ReadCleared(t) \/ Finish(t)
      PROVE  SInv'
  BY <1>3, CallServed, RefuseServed, EnterServed, ReadEntryServed, ReadClearedServed, FinishServed
<1>4. CASE UNCHANGED vars
  <2>1. IInv'
    BY <1>4, MapSame DEF SInv, vars
  <2>2. ReadTypes'
    BY <1>4 DEF SInv, ReadTypes, vars, readVars
  <2>3. \A t \in Threads : Asked(t)' /\ Served(t)'
    BY <1>4, OtherServed DEF vars, mapVars, readVars
  <2> QED
    BY <2>1, <2>2, <2>3 DEF SInv
<1> QED
  BY <1>1, <1>2, <1>3, <1>4 DEF Next

LEMMA Inductive == Spec => []SInv
<1> QED
  BY SInitInv, NextInv, PTL DEF Spec

(* Whatever readers and close() do, the map in use keeps the layout the    *)
(* constructor gave it: tiles that leave no byte out (MapStream.cc:94-115).*)
THEOREM MapStaysTiled == Spec => []MapIsTiled
<1>1. SInv => MapIsTiled
  BY InvTiled DEF SInv
<1> QED
  BY <1>1, Inductive, PTL

(* For every map whose points keep clear of the gap stream's ID, and until *)
(* it is closed, looking up a byte finds what the segments say of it.      *)
THEOREM FindsMeaning == Spec => []UnaliasedLookup
<1>1. SInv => UnaliasedLookup
  BY InvUnaliased DEF SInv
<1> QED
  BY <1>1, Inductive, PTL

(* A read of a well formed map fails or serves all of the request below    *)
(* its end.  A request whose sum wraps around is not cut to the end of the *)
(* map, but no turn of the loop goes past the end: such a read never       *)
(* returns a count, so the theorem needs no bound on requests.             *)
THEOREM ServesAllOrFails == Spec => []AllOrError
<1>1. SInv => AllOrError
  BY DEF SInv, Served, Share, AllOrError
<1> QED
  BY <1>1, Inductive, PTL
-----------------------------------------------------------------------------
(* Types, for every map a container may hold: also one whose entries       *)
(* overlap, are empty or wrap around.                                      *)

\* Each entry is filed under its own offset and names a stream; the first starts the map.
Filed ==
    /\ phase \in {"idx", "points"} => offset = 0
    /\ phase = "map" => IF 0 \in DOMAIN map THEN TRUE ELSE DOMAIN map = {} /\ offset = 0 /\ todo # <<>>
    /\ phase \in {"map", "ready"} => \A q \in DOMAIN map : map[q].offset = q
    /\ phase = "ready" /\ streams # <<>> =>
         0 \in DOMAIN map /\ \A q \in DOMAIN map : map[q].streamID < Len(streams)

\* What a reader has got and still wants is never more than a word counts.
TypedRead(t) ==
    /\ call[t] \in CallRecord \cup {NoCall}
    /\ next[t] \in Word /\ left[t] \in Word
    /\ buf[t] \in Seq(Byte) /\ Len(buf[t]) \in Word
    /\ pc[t] = "loop" => Len(buf[t]) + left[t] \in Word
    /\ result[t] \in Word \cup {-1, NoReply}

TInv == SInv /\ Filed /\ \A t \in Threads : TypedRead(t)

LEMMA NatMax ==
  ASSUME NEW S, NEW n \in Nat, S \subseteq 0 .. n, S # {}
  PROVE  \E x \in S : \A y \in S : y <= x
<1> DEFINE T == {n - x : x \in S}
<1>1. T \subseteq Nat /\ T # {}
  <2>1. \A x \in S : n - x \in Nat
    OBVIOUS
  <2> QED
    BY <2>1
<1>2. PICK z \in T : \A y \in T : z <= y
  <2> HIDE DEF T
  <2> QED
    BY <1>1, NatMin
<1>3. PICK x \in S : z = n - x
  BY <1>2
<1>4. ASSUME NEW y \in S PROVE y <= x
  <2>1. n - x <= n - y
    BY <1>2, <1>3
  <2> QED
    BY <2>1
<1> QED
  BY <1>4

(* Whatever offset it is asked for, the lookup finds an entry of the map.  *)
LEMMA LookupStays ==
  ASSUME TypeOK, 0 \in DOMAIN map, \A q \in DOMAIN map : map[q].offset = q, NEW o \in Word
  PROVE  EntryKey(o) \in DOMAIN map
<1>1. DOMAIN map \subseteq 0 .. W - 1 /\ W - 1 \in Nat /\ o \in Nat
  BY WordAssumption, WordFacts DEF TypeOK, Word
<1>2. ASSUME NEW S, S \subseteq DOMAIN map, S # {} PROVE Last(S) \in S
  <2>1. S \subseteq 0 .. W - 1
    BY <1>1, <1>2
  <2>2. \E x \in S : \A y \in S : y <= x
    BY <1>1, <1>2, <2>1, NatMax
  <2> QED
    BY <2>2 DEF Last
<1> DEFINE L == LowerBound(o)
<1>3. L \subseteq DOMAIN map /\ \A q \in DOMAIN map : q \in L <=> q >= o
  BY DEF LowerBound
<1>4. CASE L = {}
  <2>1. Last(DOMAIN map) \in DOMAIN map
    BY <1>2
  <2> QED
    BY <1>4, <2>1 DEF EntryKey
<1>5. CASE L # {}
  <2> DEFINE q == First(L)
  <2>1. q \in L
    <3>1. L \subseteq Nat
      BY <1>1, <1>3
    <3>2. \E x \in L : \A y \in L : x <= y
      <4> HIDE DEF L
      <4> QED
        BY <1>5, <3>1, NatMin
    <3> QED
      BY <3>2 DEF First
  <2> HIDE DEF L, q
  <2>2. q \in DOMAIN map /\ map[q].offset = q /\ q \in Nat
    BY <1>1, <1>3, <2>1
  <2>3. q > o => {r \in DOMAIN map : r < q} # {}
    BY <1>1, <2>2
  <2>4. q > o => Last({r \in DOMAIN map : r < q}) \in {r \in DOMAIN map : r < q}
    BY <1>2, <2>3
  <2>5. EntryKey(o) = IF q > o THEN Last({r \in DOMAIN map : r < q}) ELSE q
    BY <1>5, <2>2 DEF EntryKey, L, q
  <2> QED
    BY <2>2, <2>4, <2>5
<1> QED
  BY <1>4, <1>5

LEMMA BuildFiled ==
  ASSUME IInv, Filed, BuildNext
  PROVE  Filed'
<1>0. TypeOK /\ StreamsInv /\ Len(streams) \in Nat
  BY LenProperties DEF IInv, TypeOK
<1>1. CASE InitStreamVector
  BY <1>0, <1>1 DEF Filed, InitStreamVector
<1>2. CASE NoMapSegment
  BY <1>0, <1>2 DEF Filed, NoMapSegment, StreamsInv
<1>3. CASE LoadPoints
  <2>1. /\ phase = "points" /\ input.points # <<>> /\ todo' \in Sortings(input.points)
        /\ phase' = "map" /\ map' = map /\ offset' = offset
    BY <1>3 DEF LoadPoints
  <2>2. todo' # <<>>
    <3>1. input.points \in Seq(Point) /\ DOMAIN input.points # {}
      BY <1>0, <2>1, InputTypes, EmptySeq
    <3>2. DOMAIN todo' = DOMAIN input.points
      BY <2>1, <3>1, SortingsAre
    <3>3. DOMAIN <<>> = {}
      OBVIOUS
    <3> QED
      BY <3>1, <3>2, <3>3
  <2>3. DOMAIN map = {} /\ offset = 0
    BY <1>0, <2>1 DEF StreamsInv, Filed
  <2> QED
    BY <2>1, <2>2, <2>3 DEF Filed
<1>4. CASE AddPoint
  <2> DEFINE p == Head(todo)
             entry == IF p.streamID < Len(streams) THEN p ELSE [p EXCEPT !.streamID = Len(streams)]
             m == FillHole(map, offset, p.offset)
  <2>1. /\ phase = "map" /\ phase' = "map" /\ todo # <<>>
        /\ map' = Store(m, p.offset, entry)
    BY <1>4 DEF AddPoint
  <2>2. p \in Point /\ entry.offset = p.offset
    <3>1. p \in Point
      BY <1>0, <2>1, TailIs
    <3> QED
      BY <3>1 DEF Point
  <2> HIDE DEF p, entry
  <2>3. /\ DOMAIN m = IF offset = p.offset THEN DOMAIN map ELSE DOMAIN map \cup {offset}
        /\ \A q \in DOMAIN m : m[q].offset = q
    BY <2>1 DEF Filed, FillHole, Store, Sparse
  <2> HIDE DEF m
  <2>4. /\ DOMAIN map' = DOMAIN m \cup {p.offset}
        /\ \A q \in DOMAIN map' : map'[q].offset = q
    BY <2>1, <2>2, <2>3 DEF Store
  <2>5. 0 \in DOMAIN map'
    BY <2>1, <2>3, <2>4 DEF Filed
  <2> QED
    BY <2>1, <2>4, <2>5 DEF Filed
<1>5. CASE FinishMap
  <2>1. /\ phase = "map" /\ phase' = "ready" /\ todo = <<>>
        /\ map' = IF offset < length THEN FillHole(map, offset, length) ELSE map
        /\ streams' = streams \/ streams' = <<>>
    BY <1>5 DEF FinishMap
  <2>2. 0 \in DOMAIN map /\ (\A q \in DOMAIN map : map[q].offset = q)
        /\ (\A q \in DOMAIN map : map[q].streamID < Len(streams)) /\ gapId < Len(streams)
    BY <1>0, <2>1 DEF Filed, StreamsInv
  <2>3. /\ DOMAIN map \subseteq DOMAIN map'
        /\ \A q \in DOMAIN map' : map'[q].offset = q /\ map'[q].streamID < Len(streams)
    BY <2>1, <2>2 DEF FillHole, Store, Sparse
  <2> QED
    BY <2>1, <2>2, <2>3 DEF Filed
<1> QED
  BY <1>1, <1>2, <1>3, <1>4, <1>5 DEF BuildNext

\* The bytes a stream gives, of the kinds and at the offsets there are.
LEMMA SubBytesType ==
  ASSUME NEW s \in Stream, NEW at \in Word, NEW n \in Word, NEW res \in SubRead(s, at, n)
  PROVE  SubBytes(s, at, res, n) \in Seq(Byte) /\ Len(SubBytes(s, at, res, n)) = n
<1> DEFINE letters == IF s.kind = "unknown" THEN Repeated(at, n) ELSE <<>>
           b == SubBytes(s, at, res, n)
<1>1. b = [i \in 1 .. n |->
             IF i > res THEN Unwritten
             ELSE [stream |-> s, at |-> IF s.kind = "unknown" THEN letters[i] ELSE (at + i - 1) % W]]
  BY DEF SubBytes
<1>2. at \in Nat /\ n \in Nat /\ n \in 0 .. MaxRequest
  BY WordFacts, RequestAssumption
<1>3. s.kind = "unknown" => \A i \in 1 .. n : letters[i] \in Word
  <2> SUFFICES ASSUME s.kind = "unknown", NEW i \in 1 .. n PROVE letters[i] \in Word
    OBVIOUS
  <2>1. letters[i] = LetterAt(at + i - 1)
    BY <1>2, RepeatedIs
  <2>2. at + i - 1 \in Nat /\ Unit \in Nat \ {0} /\ Letters \in Nat \ {0}
    BY <1>2, RepeatedAssumption
  <2> DEFINE u == (at + i - 1) % Unit
  <2>3. u \in Nat
    BY <2>2, ModSplit
  <2> HIDE DEF u
  <2>4. u % Letters \in 0 .. Letters - 1
    BY <2>2, <2>3, ModSplit
  <2>5. LetterAt(at + i - 1) = 1 + (u % Letters)
    BY DEF LetterAt, u
  <2>6. 1 + (u % Letters) \in 1 .. Letters
    BY <2>2, <2>4
  <2> QED
    BY <2>1, <2>5, <2>6, PatternAssumption, WordAssumption DEF Word
<1> HIDE DEF b, letters
<1>4. ASSUME NEW i \in 1 .. n
      PROVE  b[i] \in Byte
  <2>1. b[i] = IF i > res THEN Unwritten
               ELSE [stream |-> s, at |-> IF s.kind = "unknown" THEN letters[i] ELSE (at + i - 1) % W]
    BY <1>1
  <2>2. at + i - 1 \in Int
    BY <1>2
  <2>3. (at + i - 1) % W \in Word
    BY <2>2, WordFacts
  <2> QED
    BY <1>3, <2>1, <2>3 DEF Byte
<1>5. b \in [1 .. n -> Byte]
  BY <1>1, <1>4
<1>6. b \in Seq(Byte) /\ Len(b) = n
  BY <1>2, <1>5
<1> QED
  BY <1>6 DEF b

\* The entry, the part and the place a turn of the loop works on.
LEMMA TurnType ==
  ASSUME TInv, NEW t \in Threads, pc[t] = "loop", streams # <<>>
  PROVE  /\ StreamAt(EntryAt(next[t])) \in Stream
         /\ StreamOffset(t) \in Word
         /\ PartLength(t) \in Word /\ PartLength(t) <= left[t]
<1> DEFINE e == EntryAt(next[t])
<1>1. /\ TypeOK /\ Filed /\ phase = "ready" /\ next[t] \in Word /\ left[t] \in Word
      /\ streams \in Seq(Stream) /\ Len(streams) \in Nat
  BY LenProperties DEF TInv, SInv, IInv, TypeOK, Asked, TypedRead
<1>2. EntryKey(next[t]) \in DOMAIN map
  BY <1>1, LookupStays DEF Filed
<1>3. e \in Point /\ e.streamID < Len(streams)
  BY <1>1, <1>2 DEF EntryAt, Filed, TypeOK
<1> HIDE DEF e
<1>4. e.offset \in Int /\ e.length \in Int /\ e.streamOffset \in Int /\ next[t] \in Int /\ left[t] \in Nat
      /\ e.streamID \in Nat
  <2>1. e.offset \in Word /\ e.length \in Word /\ e.streamOffset \in Word /\ e.streamID \in Nat
    BY <1>3 DEF Point
  <2>2. Word \subseteq Nat /\ Nat \subseteq Int
    BY WordFacts
  <2> QED
    BY <1>1, <2>1, <2>2
<1>5. StreamAt(e) \in Stream
  <2>1. e.streamID + 1 \in 1 .. Len(streams)
    BY <1>1, <1>3, <1>4
  <2> QED
    BY <1>1, <2>1, ElementOfSeq DEF StreamAt
<1> DEFINE rest == (e.length - (next[t] - e.offset)) % W
<1>6. rest \in Word /\ (e.streamOffset + (next[t] - e.offset)) % W \in Word
  <2>1. e.length - (next[t] - e.offset) \in Int /\ e.streamOffset + (next[t] - e.offset) \in Int
    BY <1>4
  <2> QED
    BY <2>1, WordFacts
<1>7. PartLength(t) = IF left[t] < rest THEN left[t] ELSE rest
  BY DEF PartLength, e
<1> HIDE DEF rest
<1>8. PartLength(t) \in Word /\ PartLength(t) <= left[t]
  <2>1. rest \in Nat
    BY <1>6, WordFacts
  <2> QED
    BY <1>1, <1>4, <1>6, <1>7, <2>1
<1>9. StreamOffset(t) \in Word
  BY <1>6 DEF StreamOffset, e
<1> QED
  BY <1>5, <1>8, <1>9 DEF e

LEMMA CallTyped ==
  ASSUME TInv, NEW t \in Threads, NEW c \in Calls, Call(t, c)
  PROVE  \A u \in Threads : TypedRead(u)'
<1>1. [offset |-> c.offset, count |-> c.count, late |-> closed] \in CallRecord
  BY CallsAssumption DEF CallRecord, TInv, SInv, IInv, TypeOK
<1>2. <<>> \in Seq(Byte) /\ Len(<<>>) = 0 /\ 0 \in Word
  BY WordFacts
<1> QED
  BY <1>1, <1>2 DEF Call, TInv, TypedRead, SInv, ReadTypes, CallRecord, Byte

\* A read that returns a word or fails.
LEMMA ReturnTyped ==
  ASSUME TInv, NEW t \in Threads, NEW n \in Word \cup {-1}, Return(t, n), UNCHANGED <<call, next, left, buf>>
  PROVE  \A u \in Threads : TypedRead(u)'
  BY DEF Return, TInv, TypedRead, SInv, ReadTypes, CallRecord, Byte

LEMMA RefuseTyped ==
  ASSUME TInv, NEW t \in Threads, Refuse(t)
  PROVE  \A u \in Threads : TypedRead(u)'
<1>1. (IF closed THEN -1 ELSE 0) \in Word \cup {-1}
  BY WordFacts
<1> QED
  BY <1>1, ReturnTyped DEF Refuse

LEMMA EnterTyped ==
  ASSUME TInv, NEW t \in Threads, Enter(t)
  PROVE  \A u \in Threads : TypedRead(u)'
<1> DEFINE n == Truncated(call[t].offset, call[t].count)
<1>1. /\ pc[t] = "called" /\ call[t].offset <= length
      /\ pc' = [pc EXCEPT ![t] = "loop"] /\ next' = [next EXCEPT ![t] = call[t].offset]
      /\ left' = [left EXCEPT ![t] = n]
      /\ UNCHANGED <<mapVars, call, buf, result>>
  BY DEF Enter
<1>2. call[t].offset \in Word /\ call[t].count \in Word /\ length \in Word /\ buf[t] = <<>>
  BY <1>1 DEF TInv, SInv, Asked, Served, CallRecord, IInv, TypeOK
<1>3. n \in Word
  BY <1>1, <1>2, TruncatedIs
<1> HIDE DEF n
<1>4. Len(buf[t]) + n \in Word
  <2>1. Len(buf[t]) = 0 /\ n \in Nat
    BY <1>2, <1>3, WordFacts
  <2> QED
    BY <1>3, <2>1
<1> QED
  BY <1>1, <1>2, <1>3, <1>4 DEF TInv, TypedRead, SInv, ReadTypes, CallRecord, Byte

LEMMA ReadEntryTyped ==
  ASSUME TInv, NEW t \in Threads, ReadEntry(t)
  PROVE  \A u \in Threads : TypedRead(u)'
<1> DEFINE s == StreamAt(EntryAt(next[t]))
           n == PartLength(t)
           at == StreamOffset(t)
<1>1. PICK res \in SubRead(s, at, n) :
        IF Failed(res)
        THEN Return(t, -1) /\ UNCHANGED <<next, left, buf>>
        ELSE /\ buf' = [buf EXCEPT ![t] = @ \o SubBytes(s, at, res, n)]
             /\ next' = [next EXCEPT ![t] = (@ + n) % W]
             /\ left' = [left EXCEPT ![t] = @ - n]
             /\ UNCHANGED <<pc, result>>
  BY DEF ReadEntry
<1>2. pc[t] = "loop" /\ UNCHANGED <<mapVars, call>> /\ streams # <<>>
  BY DEF ReadEntry
<1>3. s \in Stream /\ at \in Word /\ n \in Word /\ n <= left[t]
  BY <1>2, TurnType
<1>4. CASE Failed(res)
  BY <1>1, <1>2, <1>4, ReturnTyped
<1>5. CASE ~Failed(res)
  <2> DEFINE more == SubBytes(s, at, res, n)
  <2>1. more \in Seq(Byte) /\ Len(more) = n
    BY <1>3, SubBytesType
  <2>2. /\ buf' = [buf EXCEPT ![t] = @ \o more]
        /\ next' = [next EXCEPT ![t] = (@ + n) % W]
        /\ left' = [left EXCEPT ![t] = @ - n]
        /\ UNCHANGED <<pc, result>>
    BY <1>1, <1>5
  <2> HIDE DEF s, at, n, more
  <2>3. /\ buf[t] \in Seq(Byte) /\ Len(buf[t]) \in Nat /\ left[t] \in Nat /\ next[t] \in Nat /\ n \in Nat
        /\ Len(buf[t]) + left[t] \in Word /\ left[t] \in Word
    BY <1>2, <1>3, WordFacts DEF TInv, TypedRead
  <2>4. buf[t] \o more \in Seq(Byte) /\ Len(buf[t] \o more) = Len(buf[t]) + n
    BY <2>1, <2>3, ConcatProperties
  <2>5. /\ Len(buf[t]) + n \in Word /\ left[t] - n \in Word
        /\ (Len(buf[t]) + n) + (left[t] - n) = Len(buf[t]) + left[t]
    BY <1>3, <2>3, WordAssumption DEF Word
  <2>6. (next[t] + n) % W \in Word
    <3>1. next[t] + n \in Int
      BY <2>3
    <3> QED
      BY <3>1, WordFacts
  <2> DEFINE b == buf[t] \o more
             l == left[t] - n
             x == (next[t] + n) % W
  <2>7. buf' = [buf EXCEPT ![t] = b] /\ left' = [left EXCEPT ![t] = l] /\ next' = [next EXCEPT ![t] = x]
    BY <2>2
  <2>8. b \in Seq(Byte) /\ Len(b) \in Word /\ Len(b) + l \in Word /\ l \in Word /\ x \in Word
    BY <2>3, <2>4, <2>5, <2>6
  <2> HIDE DEF b, l, x
  <2> QED
    BY <1>2, <2>2, <2>7, <2>8 DEF TInv, TypedRead, SInv, ReadTypes, CallRecord, Byte
<1> QED
  BY <1>4, <1>5

LEMMA ReadClearedTyped ==
  ASSUME TInv, NEW t \in Threads, ReadCleared(t)
  PROVE  \A u \in Threads : TypedRead(u)'
<1>1. PICK n \in {-1, call[t].count} : Return(t, n)
  BY DEF ReadCleared
<1>2. pc[t] = "loop" /\ UNCHANGED <<mapVars, call, next, left, buf>>
  BY DEF ReadCleared
<1>3. call[t].count \in Word
  BY <1>2 DEF TInv, SInv, Asked, CallRecord
<1> QED
  BY <1>1, <1>2, <1>3, ReturnTyped

LEMMA FinishTyped ==
  ASSUME TInv, NEW t \in Threads, Finish(t)
  PROVE  \A u \in Threads : TypedRead(u)'
<1>1. Len(buf[t]) \in Word
  BY DEF TInv, TypedRead
<1> QED
  BY <1>1, ReturnTyped DEF Finish

LEMMA NextTyped == TInv /\ [Next]_vars => TInv'
<1> SUFFICES ASSUME TInv, [Next]_vars
             PROVE  TInv'
  OBVIOUS
<1>1. SInv'
  BY NextInv DEF TInv
<1>2. ASSUME UNCHANGED readVars PROVE \A t \in Threads : TypedRead(t)'
  BY <1>2 DEF TInv, TypedRead, readVars, CallRecord, Byte
<1>3. ASSUME UNCHANGED mapVars PROVE Filed'
  BY <1>3 DEF TInv, Filed, mapVars
<1>4. CASE Build
  BY <1>1, <1>2, <1>4, BuildFiled DEF Build, TInv, SInv
<1>5. CASE Close \/ ClearStreams
  <2>1. Filed'
    BY <1>5 DEF Close, ClearStreams, TInv, Filed
  <2> QED
    BY <1>1, <1>2, <1>5, <2>1 DEF Close, ClearStreams, TInv
<1>6. ASSUME NEW t \in Threads,
             \/ \E c \in Calls : Call(t, c)
             \/ Refuse(t) \/ Enter(t) \/ ReadEntry(t) \/ ReadCleared(t) \/ Finish(t)
      PROVE  TInv'
  <2>1. UNCHANGED mapVars
    BY <1>6 DEF Call, Refuse, Enter, ReadEntry, ReadCleared, Finish
  <2>2. \A u \in Threads : TypedRead(u)'
    BY <1>6, CallTyped, RefuseTyped, EnterTyped, ReadEntryTyped, ReadClearedTyped, FinishTyped
  <2> QED
    BY <1>1, <1>3, <2>1, <2>2 DEF TInv
<1>7. CASE UNCHANGED vars
  BY <1>1, <1>2, <1>3, <1>7 DEF vars, TInv
<1> QED
  BY <1>4, <1>5, <1>6, <1>7 DEF Next

LEMMA InitTyped == ReadInit => TInv
<1> SUFFICES ASSUME ReadInit
             PROVE  TInv
  OBVIOUS
<1>1. SInv
  BY SInitInv
<1>2. Filed
  BY DEF ReadInit, Init, Filed
<1>3. <<>> \in Seq(Byte) /\ Len(<<>>) = 0 /\ 0 \in Word
  BY WordFacts
<1> QED
  BY <1>1, <1>2, <1>3 DEF ReadInit, TInv, TypedRead

LEMMA TypedInductive == Spec => []TInv
<1> QED
  BY InitTyped, NextTyped, PTL DEF Spec

(* The map, the readers and what they are given keep their types, also for *)
(* maps whose entries overlap, are empty or wrap around: every lookup ends *)
(* at an entry of the map, and no count grows past a word.                 *)
THEOREM ReadTypeCorrect == Spec => []ReadTypeOK
<1>1. TInv => ReadTypeOK
  <2> SUFFICES ASSUME TInv PROVE ReadTypeOK
    OBVIOUS
  <2>1. TypeOK /\ ReadTypes /\ \A t \in Threads : TypedRead(t)
    BY DEF TInv, SInv, IInv
  <2> QED
    BY <2>1 DEF ReadTypeOK, ReadTypes, TypedRead, CallRecord
<1> QED
  BY <1>1, TypedInductive, PTL

-----------------------------------------------------------------------------
(* A sound map is a byte stream.                                           *)

\* The entry a byte lies in is found for every byte it covers.
LEMMA EntryUnder ==
  ASSUME IInv, phase = "ready", WellFormed(input), ~closed, NEW o \in Nat, o < Total
  PROVE  LET e == EntryAt(o)
         IN  /\ e \in Point /\ e.offset <= o /\ o < e.offset + e.length
             /\ \A p \in Nat : e.offset <= p /\ p < e.offset + e.length => EntryAt(p) = e
<1>1. input.points # <<>>
  BY DEF IInv, StreamsInv
<1>2. Tiles(map, Total)
  BY <1>1 DEF IInv, LayoutInv, Total
<1>3. Entries(map) /\ Total \in Nat /\ \A q \in DOMAIN map : map[q] \in Point
  <2>1. Total \in Word
    BY DEF IInv, TypeOK, Total, Larger
  <2> QED
    BY <2>1, TypeEntries, WordFacts DEF IInv, TypeOK
<1>4. o \in 0 .. Total - 1
  BY <1>3
<1> HIDE DEF Total
<1>5. PICK q \in DOMAIN map : Covers(map[q], o)
  BY <1>2, <1>4 DEF Tiles
<1>6. map[q].offset = q /\ q \in Nat /\ map[q].length \in Nat /\ q + map[q].length <= Total
  BY <1>2, <1>3 DEF Tiles, Entries
<1>7. ASSUME NEW p \in Nat, q <= p, p < q + map[q].length
      PROVE  EntryAt(p) = map[q]
  <2>1. p \in 0 .. Total - 1 /\ Covers(map[q], p)
    BY <1>3, <1>6, <1>7 DEF Covers
  <2>2. EntryKey(p) = q
    BY <1>2, <1>3, <2>1, LookupFinds
  <2> QED
    BY <2>2 DEF EntryAt
<1>8. EntryAt(o) = map[q]
  BY <1>5, <1>6, <1>7 DEF Covers
<1> QED
  BY <1>3, <1>5, <1>6, <1>7, <1>8 DEF Covers

\* Where a byte of a sound map comes from, there is one.
LEMMA MeaningFits ==
  ASSUME TypeOK, Sound(input), NEW o \in Word
  PROVE  LET b == Meaning(input, o)
         IN  b.at \in Word /\ (b.stream.kind = "image" => b.at < ImageSize)
<1> DEFINE b == Meaning(input, o)
<1>1. o \in Nat /\ W \in Nat /\ ImageSize \in Nat
  BY WordFacts, WordAssumption, ImageSizeAssumption
<1>2. CASE \E i \in DOMAIN input.points : Covers(input.points[i], o)
  <2> DEFINE i == CHOOSE i \in DOMAIN input.points : Covers(input.points[i], o)
             p == input.points[i]
  <2>1. i \in DOMAIN input.points /\ Covers(p, o)
    BY <1>2
  <2> HIDE DEF i
  <2>2. p \in Point
    BY <2>1, InputTypes
  <2>3. /\ b.stream = IF p.streamID < Len(input.lines) THEN Opened(input, p.streamID + 1) ELSE Unknown
        /\ b.at = p.streamOffset + (o - p.offset)
    BY <1>2 DEF Meaning, i
  <2>4. p.streamOffset + p.length
          <= IF p.streamID < Len(input.lines) /\ Opened(input, p.streamID + 1).kind = "image" THEN ImageSize ELSE W
    BY <2>1 DEF Sound
  <2>5. b.stream.kind = "image" => p.streamID < Len(input.lines) /\ Opened(input, p.streamID + 1).kind = "image"
    BY <2>3 DEF Unknown
  <2> HIDE DEF b, p
  <2>6. p.offset \in Nat /\ p.length \in Nat /\ p.streamOffset \in Nat
    BY <2>2, WordFacts DEF Point
  <2>7. b.at \in Nat /\ b.at < p.streamOffset + p.length
    BY <1>1, <2>1, <2>3, <2>6 DEF Covers
  <2>8. b.stream.kind = "image" => b.at < ImageSize
    BY <1>1, <2>4, <2>5, <2>6, <2>7
  <2>9. b.at < W
    <3>1. ImageSize < W
      BY ImageSizeAssumption, WordAssumption DEF Word
    <3> QED
      BY <1>1, <2>4, <2>6, <2>7, <3>1
  <2> QED
    BY <1>1, <2>7, <2>8, <2>9 DEF Word, b
<1>3. CASE ~ \E i \in DOMAIN input.points : Covers(input.points[i], o)
  <2>1. b = [stream |-> Gap, at |-> o]
    BY <1>3 DEF Meaning
  <2> QED
    BY <2>1 DEF Gap
<1> QED
  BY <1>2, <1>3

\* What a turn of the loop reads, byte by byte, is what the map means.
LEMMA TurnMeans ==
  ASSUME SInv, NEW t \in Threads, pc[t] = "loop", left[t] > 0, Sound(input), ~closed,
         NEW j \in 1 .. PartLength(t), next[t] + (j - 1) < length
  PROVE  LET at == StreamOffset(t)
         IN  /\ Meaning(input, next[t] + (j - 1)) = [stream |-> StreamAt(EntryAt(next[t])), at |-> at + (j - 1)]
             /\ at \in Word /\ at + (j - 1) \in Word
             /\ StreamAt(EntryAt(next[t])).kind = "image" => at + (j - 1) < ImageSize
<1> DEFINE e == EntryAt(next[t])
           o == next[t] + (j - 1)
           rest == e.length - (next[t] - e.offset)
           M(p) == [stream |-> StreamAt(e), at |-> e.streamOffset + (p - e.offset)]
<1>1. IInv /\ phase = "ready" /\ WellFormed(input) /\ ~GapAliased(input) /\ input.points # <<>>
      /\ length \in Nat /\ length \in Word /\ TypeOK
  BY WordFacts DEF SInv, IInv, TypeOK, Asked, Sound, StreamsInv
<1>2. next[t] \in Nat /\ left[t] \in Nat /\ W \in Nat /\ length < W
  <2>1. next[t] \in Word /\ left[t] \in Word
    BY <1>1 DEF SInv, Served
  <2>2. length < W /\ W \in Nat
    BY <1>1, WordAssumption DEF Word
  <2> QED
    BY <2>1, <2>2, WordFacts
<1>3. PartLength(t) \in Nat
  BY <1>1, PartIs
<1>4. o \in Nat /\ next[t] <= o /\ o < length /\ next[t] < Total /\ j \in Nat /\ o = next[t] + (j - 1)
  BY <1>1, <1>2, <1>3 DEF Total, Larger, SInv, IInv, TypeOK
<1>5. /\ e \in Point /\ e.offset <= next[t] /\ next[t] < e.offset + e.length
      /\ \A p \in Nat : e.offset <= p /\ p < e.offset + e.length => EntryAt(p) = e
  BY <1>1, <1>2, <1>4, EntryUnder
<1> HIDE DEF e, o
<1>6. e.offset \in Nat /\ e.length \in Nat /\ e.length < W /\ e.streamOffset \in Nat /\ e.length \in Word
  <2>1. e.offset \in Word /\ e.length \in Word /\ e.streamOffset \in Word
    BY <1>5 DEF Point
  <2> QED
    BY <1>2, <2>1, WordFacts DEF Word
<1>7. rest \in Word /\ rest \in Nat
  BY <1>2, <1>5, <1>6 DEF Word
<1>8. PartLength(t) <= rest
  <2>1. rest % W = rest
    BY <1>7, WordFacts
  <2>2. PartLength(t) = IF left[t] < rest THEN left[t] ELSE rest
    BY <2>1 DEF PartLength, e
  <2> HIDE DEF rest
  <2> QED
    BY <1>2, <1>7, <2>2
<1>9. e.offset <= o /\ o < e.offset + e.length
  <2>1. j <= PartLength(t) /\ j <= rest
    BY <1>3, <1>4, <1>7, <1>8
  <2> QED
    BY <1>2, <1>4, <1>5, <1>6, <2>1
<1>10. ASSUME NEW p \in Nat, e.offset <= p, p < e.offset + e.length, p < length
       PROVE  Meaning(input, p) = M(p) /\ e.streamOffset + (p - e.offset) \in Word
              /\ (StreamAt(e).kind = "image" => e.streamOffset + (p - e.offset) < ImageSize)
  <2>1. EntryAt(p) = e /\ p \in 0 .. length - 1 /\ p \in Word
    BY <1>1, <1>2, <1>5, <1>10 DEF Word
  <2>2. M(p) = Meaning(input, p)
    BY <1>1, <2>1, InvLookup
  <2>3. /\ Meaning(input, p).at \in Word
        /\ Meaning(input, p).stream.kind = "image" => Meaning(input, p).at < ImageSize
    BY <1>1, <2>1, MeaningFits
  <2> QED
    BY <2>2, <2>3
<1>11. /\ Meaning(input, o) = M(o) /\ e.streamOffset + (o - e.offset) \in Word
       /\ (StreamAt(e).kind = "image" => e.streamOffset + (o - e.offset) < ImageSize)
  BY <1>4, <1>9, <1>10
<1>12. StreamOffset(t) = e.streamOffset + (next[t] - e.offset) /\ StreamOffset(t) \in Word
  <2>1. next[t] < length
    BY <1>1, <1>2, <1>4
  <2>2. e.streamOffset + (next[t] - e.offset) \in Word
    BY <1>2, <1>5, <1>10, <2>1
  <2>3. StreamOffset(t) = (e.streamOffset + (next[t] - e.offset)) % W
    BY DEF StreamOffset, e
  <2> QED
    BY <2>2, <2>3, WordFacts
<1>13. e.streamOffset + (o - e.offset) = StreamOffset(t) + (j - 1)
  BY <1>2, <1>4, <1>6, <1>12
<1> QED
  BY <1>11, <1>12, <1>13 DEF e, o

LEMMA TurnGives ==
  ASSUME SInv, NEW t \in Threads, pc[t] = "loop", left[t] > 0, Sound(input), ~closed,
         NEW res \in SubRead(StreamAt(EntryAt(next[t])), StreamOffset(t), PartLength(t)), ~Failed(res),
         NEW j \in 1 .. PartLength(t), next[t] + (j - 1) < length
  PROVE  SubBytes(StreamAt(EntryAt(next[t])), StreamOffset(t), res, PartLength(t))[j]
           = ByteAt(input, next[t] + (j - 1))
<1> DEFINE s == StreamAt(EntryAt(next[t]))
           n == PartLength(t)
           at == StreamOffset(t)
           b == Meaning(input, next[t] + (j - 1))
<1>1. /\ b = [stream |-> s, at |-> at + (j - 1)]
      /\ at \in Word /\ at + (j - 1) \in Word
      /\ s.kind = "image" => at + (j - 1) < ImageSize
  BY TurnMeans
<1>2. n \in Nat /\ n <= left[t] /\ left[t] \in Word
  BY PartIs DEF Sound, SInv, Served
<1> DEFINE letters == IF s.kind = "unknown" THEN Repeated(at, n) ELSE <<>>
<1>3. SubBytes(s, at, res, n)[j] =
        IF j > res THEN Unwritten
        ELSE [stream |-> s, at |-> IF s.kind = "unknown" THEN letters[j] ELSE (at + j - 1) % W]
  BY DEF SubBytes
<1>4. ByteAt(input, next[t] + (j - 1)) = IF b.stream.kind = "unknown" THEN [b EXCEPT !.at = LetterAt(@)] ELSE b
  BY DEF ByteAt
<1>5. res = Available(s, at, n)
  BY DEF SubRead, Failed
<1>6. n \in 0 .. MaxRequest /\ at \in Nat /\ j \in 1 .. n /\ ImageSize \in Nat /\ at + j - 1 = at + (j - 1)
  <2>1. n \in Word
    BY <1>2, WordAssumption DEF Word
  <2> QED
    BY <1>1, <1>2, <2>1, WordFacts, RequestAssumption, ImageSizeAssumption
<1> HIDE DEF s, n, at, b, letters
<1>7. ~(j > res)
  BY <1>1, <1>5, <1>6 DEF Available
<1>8. CASE s.kind = "unknown"
  <2>1. letters[j] = LetterAt(at + (j - 1))
    BY <1>6, <1>8, RepeatedIs DEF letters
  <2> QED
    BY <1>1, <1>3, <1>4, <1>7, <1>8, <2>1 DEF s, n, at
<1>9. CASE s.kind # "unknown"
  <2>1. (at + j - 1) % W = at + (j - 1)
    BY <1>1, <1>6, WordFacts
  <2> QED
    BY <1>1, <1>3, <1>4, <1>7, <1>9, <2>1 DEF s, n, at
<1> QED
  BY <1>8, <1>9

\* When a reader has been answered, and what the buffer of one that is still reading holds.
Given(t) ==
    /\ pc[t] # "idle" => result[t] = NoReply /\ call[t] \in CallRecord
    /\ call[t] # NoCall => pc[t] # "idle" \/ result[t] # NoReply
    /\ call[t] # NoCall => call[t].late \in BOOLEAN /\ (call[t].late => closed)
    /\ pc[t] = "loop" => ~call[t].late
    /\ pc[t] = "loop" /\ Sound(input) /\ ~closed =>
         \A i \in 1 .. Len(buf[t]) :
            call[t].offset + (i - 1) < length => buf[t][i] = ByteAt(input, call[t].offset + (i - 1))

BInv == TInv /\ \A t \in Threads : Given(t)

\* A step that leaves a thread alone.
LEMMA OtherGiven ==
  ASSUME BInv, NEW t \in Threads,
         input' = input, length' = length, closed' = closed \/ closed' = TRUE,
         pc'[t] = pc[t], call'[t] = call[t], buf'[t] = buf[t], result'[t] = result[t]
  PROVE  Given(t)'
<1>1. Given(t)
  BY DEF BInv
<1>2. CallRecord' = CallRecord /\ Sound(input)' = Sound(input)
      /\ \A o : ByteAt(input, o)' = ByteAt(input, o)
  BY DEF CallRecord, Sound, WellFormed, GapAliased, Opened, ByteAt, Meaning
<1>3. closed \in BOOLEAN
  BY DEF BInv, TInv, SInv, IInv, TypeOK
<1> QED
  BY <1>1, <1>2, <1>3 DEF Given

LEMMA BuildGiven ==
  ASSUME BInv, Build
  PROVE  \A t \in Threads : Given(t)'
<1>1. phase # "ready" /\ UNCHANGED readVars
  BY DEF Build, BuildNext, InitStreamVector, NoMapSegment, LoadPoints, AddPoint, FinishMap
<1>2. \A t \in Threads : pc[t] = "idle" /\ result[t] = NoReply
  BY <1>1 DEF BInv, TInv, SInv, Asked
<1>3. \A t \in Threads : call[t] = NoCall
  BY <1>2 DEF BInv, Given
<1> QED
  BY <1>1, <1>2, <1>3 DEF Given, readVars

LEMMA ReturnGiven ==
  ASSUME BInv, NEW t \in Threads, NEW n \in Word \cup {-1}, Return(t, n), UNCHANGED <<mapVars, call, next, left, buf>>
  PROVE  \A u \in Threads : Given(u)'
<1>1. /\ pc'[t] = "idle" /\ result'[t] = n
      /\ \A u \in Threads \ {t} : pc'[u] = pc[u] /\ result'[u] = result[u]
  BY DEF Return, BInv, TInv, SInv, ReadTypes
<1>2. n # NoReply
  BY ReplyAssumption, WordFacts
<1>3. Given(t)'
  BY <1>1, <1>2 DEF BInv, Given, mapVars
<1> QED
  BY <1>1, <1>3, OtherGiven DEF mapVars

LEMMA CallGiven ==
  ASSUME BInv, NEW t \in Threads, NEW c \in Calls, Call(t, c)
  PROVE  \A u \in Threads : Given(u)'
<1> DEFINE r == [offset |-> c.offset, count |-> c.count, late |-> closed]
<1>1. r \in CallRecord /\ r.late = closed /\ closed \in BOOLEAN
  BY CallsAssumption DEF CallRecord, BInv, TInv, SInv, IInv, TypeOK
<1>2. call' = [call EXCEPT ![t] = r] /\ UNCHANGED <<mapVars, next, left>>
      /\ pc' = [pc EXCEPT ![t] = "called"] /\ result' = [result EXCEPT ![t] = NoReply]
      /\ buf' = [buf EXCEPT ![t] = <<>>]
  BY DEF Call
<1> HIDE DEF r
<1>3. /\ pc'[t] = "called" /\ result'[t] = NoReply /\ call'[t] = r
      /\ \A u \in Threads \ {t} : pc'[u] = pc[u] /\ result'[u] = result[u] /\ call'[u] = call[u] /\ buf'[u] = buf[u]
  BY <1>2 DEF BInv, TInv, SInv, ReadTypes
<1>4. Given(t)'
  BY <1>1, <1>2, <1>3 DEF Given, mapVars, CallRecord
<1> QED
  BY <1>2, <1>3, <1>4, OtherGiven DEF mapVars

LEMMA EnterGiven ==
  ASSUME BInv, NEW t \in Threads, Enter(t)
  PROVE  \A u \in Threads : Given(u)'
<1>1. /\ pc[t] = "called" /\ ~closed /\ pc' = [pc EXCEPT ![t] = "loop"]
      /\ UNCHANGED <<mapVars, call, buf, result>>
  BY DEF Enter
<1>2. pc'[t] = "loop" /\ \A u \in Threads \ {t} : pc'[u] = pc[u]
  BY <1>1 DEF BInv, TInv, SInv, ReadTypes
<1>3. buf[t] = <<>> /\ call[t] \in CallRecord /\ call[t] # NoCall
  BY <1>1, CallAssumption DEF BInv, TInv, SInv, Served, Given, CallRecord
<1>4. ~call[t].late
  BY <1>1, <1>3 DEF BInv, Given
<1>5. Len(buf[t]) = 0 /\ 1 .. 0 = {}
  BY <1>3
<1>6. Given(t)'
  BY <1>1, <1>2, <1>3, <1>4, <1>5 DEF BInv, Given, mapVars, CallRecord
<1> QED
  BY <1>1, <1>2, <1>6, OtherGiven DEF mapVars

LEMMA ReadEntryGiven ==
  ASSUME BInv, NEW t \in Threads, ReadEntry(t)
  PROVE  \A u \in Threads : Given(u)'
<1> DEFINE s == StreamAt(EntryAt(next[t]))
           n == PartLength(t)
           at == StreamOffset(t)
<1>1. PICK res \in SubRead(s, at, n) :
        IF Failed(res)
        THEN Return(t, -1) /\ UNCHANGED <<next, left, buf>>
        ELSE /\ buf' = [buf EXCEPT ![t] = @ \o SubBytes(s, at, res, n)]
             /\ next' = [next EXCEPT ![t] = (@ + n) % W]
             /\ left' = [left EXCEPT ![t] = @ - n]
             /\ UNCHANGED <<pc, result>>
  BY DEF ReadEntry
<1>2. pc[t] = "loop" /\ left[t] > 0 /\ UNCHANGED <<mapVars, call>> /\ streams # <<>>
  BY DEF ReadEntry
<1>3. CASE Failed(res)
  BY <1>1, <1>2, <1>3, ReturnGiven
<1>4. CASE ~Failed(res)
  <2> DEFINE more == SubBytes(s, at, res, n)
  <2>1. /\ buf' = [buf EXCEPT ![t] = @ \o more] /\ UNCHANGED <<pc, result>>
    BY <1>1, <1>4
  <2>2. /\ buf'[t] = buf[t] \o more
        /\ \A u \in Threads \ {t} : buf'[u] = buf[u]
    BY <2>1 DEF BInv, TInv, SInv, ReadTypes
  <2>3. more \in Seq(Byte) /\ Len(more) = n /\ n \in Nat /\ s \in Stream
    <3>1. s \in Stream /\ at \in Word /\ n \in Word
      BY <1>2, TurnType DEF BInv
    <3> QED
      BY <3>1, SubBytesType, WordFacts
  <2>4. Given(t) /\ TypedRead(t) /\ SInv
    BY DEF BInv, TInv
  <2>5. ASSUME Sound(input), ~closed, NEW i \in 1 .. Len(buf[t]) + n, call[t].offset + (i - 1) < length
        PROVE  (buf[t] \o more)[i] = ByteAt(input, call[t].offset + (i - 1))
    <3>1. buf[t] \in Seq(Byte) /\ Len(buf[t]) \in Nat /\ next[t] = call[t].offset + Len(buf[t])
          /\ call[t].offset \in Nat
      <4>1. Len(buf[t]) \in Word /\ call[t].offset \in Word
        BY <1>2, <2>4 DEF TypedRead, Given, CallRecord
      <4>2. next[t] = call[t].offset + Len(buf[t]) /\ buf[t] \in Seq(Byte)
        BY <1>2, <2>4, <2>5 DEF TypedRead, SInv, Served, Sound
      <4> QED
        BY <4>1, <4>2, WordFacts
    <3>2. (buf[t] \o more)[i] = IF i <= Len(buf[t]) THEN buf[t][i] ELSE more[i - Len(buf[t])]
      <4> HIDE DEF more, s, at, n
      <4>1. i \in 1 .. Len(buf[t]) + Len(more)
        BY <2>3, <2>5
      <4>2. \A j \in 1 .. Len(buf[t]) + Len(more) :
              (buf[t] \o more)[j] = IF j <= Len(buf[t]) THEN buf[t][j] ELSE more[j - Len(buf[t])]
        BY <2>3, <3>1, ConcatProperties
      <4> QED
        BY <4>1, <4>2
    <3>3. CASE i <= Len(buf[t])
      <4>1. i \in 1 .. Len(buf[t])
        BY <2>3, <3>1, <3>3
      <4> QED
        BY <1>2, <2>4, <2>5, <3>2, <3>3, <4>1 DEF Given
    <3>4. CASE ~(i <= Len(buf[t]))
      <4> DEFINE j == i - Len(buf[t])
      <4>1. j \in 1 .. n /\ next[t] + (j - 1) = call[t].offset + (i - 1)
        BY <2>3, <3>1, <3>4, SMTT(30)
      <4> HIDE DEF j
      <4>2. next[t] + (j - 1) < length
        BY <2>5, <4>1
      <4>3. more[j] = ByteAt(input, next[t] + (j - 1))
        BY <1>2, <1>4, <2>4, <2>5, <4>1, <4>2, TurnGives
      <4> QED
        BY <3>2, <3>4, <4>1, <4>3 DEF j
    <3> QED
      BY <3>3, <3>4
  <2>6. Len(buf'[t]) = Len(buf[t]) + n
    <3> HIDE DEF more, s, at, n
    <3>1. buf[t] \in Seq(Byte)
      BY <2>4 DEF TypedRead
    <3>2. Len(buf[t] \o more) = Len(buf[t]) + Len(more)
      BY <2>3, <3>1, ConcatProperties
    <3> QED
      BY <2>2, <2>3, <3>2
  <2>7. CallRecord' = CallRecord /\ Sound(input)' = Sound(input)
        /\ \A o : ByteAt(input, o)' = ByteAt(input, o)
    BY <1>2 DEF CallRecord, Sound, WellFormed, GapAliased, Opened, ByteAt, Meaning, mapVars
  <2> HIDE DEF more, s, n, at
  <2>8. Given(t)'
    BY <1>2, <2>1, <2>2, <2>4, <2>5, <2>6, <2>7 DEF Given, mapVars
  <2> QED
    BY <1>2, <2>1, <2>2, <2>8, OtherGiven DEF mapVars
<1> QED
  BY <1>3, <1>4

\* What a read that returns gives: nothing that is not a word or a failure.
LEMMA ReturnsWord ==
  ASSUME BInv, NEW t \in Threads, Refuse(t) \/ ReadCleared(t) \/ Finish(t)
  PROVE  /\ pc[t] # "idle" /\ UNCHANGED <<mapVars, call, next, left, buf>>
         /\ \E n \in Word \cup {-1} : Return(t, n)
<1>1. CASE Refuse(t)
  <2>1. (IF closed THEN -1 ELSE 0) \in Word \cup {-1}
    BY WordFacts
  <2> QED
    BY <1>1, <2>1 DEF Refuse
<1>2. CASE ReadCleared(t)
  <2>1. call[t].count \in Word
    BY <1>2 DEF ReadCleared, BInv, Given, CallRecord
  <2> QED
    BY <1>2, <2>1 DEF ReadCleared
<1>3. CASE Finish(t)
  <2>1. Len(buf[t]) \in Word
    BY DEF BInv, TInv, TypedRead
  <2> QED
    BY <1>3, <2>1 DEF Finish
<1> QED
  BY <1>1, <1>2, <1>3

LEMMA NextGiven == BInv /\ [Next]_vars => BInv'
<1> SUFFICES ASSUME BInv, [Next]_vars
             PROVE  BInv'
  OBVIOUS
<1>1. TInv'
  BY NextTyped DEF BInv
<1>2. CASE Build
  BY <1>1, <1>2, BuildGiven DEF BInv
<1>3. CASE Close \/ ClearStreams
  BY <1>1, <1>3, OtherGiven DEF Close, ClearStreams, readVars, BInv
<1>4. ASSUME NEW t \in Threads, NEW c \in Calls, Call(t, c) PROVE BInv'
  BY <1>1, <1>4, CallGiven DEF BInv
<1>5. ASSUME NEW t \in Threads, Refuse(t) \/ ReadCleared(t) \/ Finish(t) PROVE BInv'
  BY <1>1, <1>5, ReturnsWord, ReturnGiven DEF BInv
<1>6. ASSUME NEW t \in Threads, Enter(t) PROVE BInv'
  BY <1>1, <1>6, EnterGiven DEF BInv
<1>7. ASSUME NEW t \in Threads, ReadEntry(t) PROVE BInv'
  BY <1>1, <1>7, ReadEntryGiven DEF BInv
<1>8. CASE UNCHANGED vars
  BY <1>1, <1>8, OtherGiven DEF vars, mapVars, readVars, BInv
<1> QED
  BY <1>2, <1>3, <1>4, <1>5, <1>6, <1>7, <1>8 DEF Next

LEMMA InitGiven == ReadInit => BInv
<1> SUFFICES ASSUME ReadInit
             PROVE  BInv
  OBVIOUS
<1>1. TInv
  BY InitTyped
<1> QED
  BY <1>1 DEF BInv, Given, ReadInit

-----------------------------------------------------------------------------
(* What the callers of a sound map see, and each step as one of the        *)
(* abstract stream.                                                        *)

Content == [o \in 0 .. SizeOf(input) - 1 |-> ByteAt(input, o)]
Asks == [t \in Threads |-> IF Sound(input) THEN call[t] ELSE NoCall]
Replies == [t \in Threads |->
    IF ~Sound(input) \/ result[t] = NoReply THEN NoReply
    ELSE [n |-> result[t], bytes |-> buf[t]]]

LEMMA SameMeaning ==
  ASSUME input' = input
  PROVE  Content' = Content /\ Sound(input)' = Sound(input)
  BY DEF Content, Sound, WellFormed, GapAliased, Opened, ByteAt, Meaning, SizeOf, End

\* What is seen of a thread does not depend on what a read in progress has put in its buffer.
LEMMA SeenSame ==
  ASSUME input' = input, call' = call, result' = result, closed' = closed,
         \A t \in Threads : result[t] # NoReply => buf'[t] = buf[t]
  PROVE  UNCHANGED Bytes!streamVars
<1>1. Content' = Content /\ Sound(input)' = Sound(input)
  BY SameMeaning
<1>2. Asks' = Asks
  BY <1>1 DEF Asks
<1>3. Replies' = Replies
  BY <1>1 DEF Replies
<1> QED
  BY <1>1, <1>2, <1>3 DEF Bytes!streamVars, Content, Asks, Replies

LEMMA CloseIsClose ==
  ASSUME TypeOK, ~closed, closed' = TRUE, input' = input, UNCHANGED readVars
  PROVE  Bytes!Close
<1>1. Content' = Content /\ Sound(input)' = Sound(input)
  BY SameMeaning
<1>2. call' = call /\ result' = result /\ buf' = buf
  BY DEF readVars
<1>3. Asks' = Asks
  BY <1>1, <1>2 DEF Asks
<1>4. Replies' = Replies
  BY <1>1, <1>2 DEF Replies
<1> QED
  BY <1>1, <1>3, <1>4 DEF Bytes!Close, Content, Asks, Replies

\* The constructor closes a map that has no bytes.
LEMMA BuildIsSeen ==
  ASSUME BInv, Build
  PROVE  [Bytes!Next]_(Bytes!streamVars)
<1>1. BuildNext /\ UNCHANGED readVars
  BY DEF Build
<1>2. input' = input /\ (closed' = closed \/ closed' = TRUE)
  <2>1. CASE FinishMap
    <3>1. input' = input /\ closed' = (length' = 0) /\ phase # "ready"
      BY <2>1 DEF FinishMap
    <3>2. ~closed /\ closed \in BOOLEAN
      BY <3>1 DEF BInv, TInv, SInv, IInv, TypeOK, StreamsInv
    <3>3. CASE length' = 0
      BY <3>1, <3>3
    <3>4. CASE length' # 0
      BY <3>1, <3>2, <3>4
    <3> QED
      BY <3>1, <3>3, <3>4
  <2> QED
    BY <1>1, <2>1 DEF BuildNext, InitStreamVector, NoMapSegment, LoadPoints, AddPoint
<1>3. TypeOK /\ closed \in BOOLEAN
  BY DEF BInv, TInv, SInv, IInv, TypeOK
<1>4. CASE closed' = closed
  BY <1>1, <1>2, <1>4, SeenSame DEF readVars
<1>5. CASE closed' = TRUE /\ ~closed
  BY <1>1, <1>2, <1>3, <1>5, CloseIsClose DEF Bytes!Next
<1> QED
  BY <1>2, <1>3, <1>4, <1>5

LEMMA CallIsAsk ==
  ASSUME BInv, NEW t \in Threads, NEW c \in Calls, Call(t, c)
  PROVE  [Bytes!Next]_(Bytes!streamVars)
<1> DEFINE r == [offset |-> c.offset, count |-> c.count, late |-> closed]
<1>1. /\ pc[t] = "idle" /\ input' = input /\ closed' = closed
      /\ call' = [call EXCEPT ![t] = r]
      /\ buf' = [buf EXCEPT ![t] = <<>>]
      /\ result' = [result EXCEPT ![t] = NoReply]
  BY DEF Call, mapVars
<1>2. ReadTypes /\ closed \in BOOLEAN /\ Given(t)
  BY DEF BInv, TInv, SInv, IInv, TypeOK
<1>3. Content' = Content /\ Sound(input)' = Sound(input)
  BY <1>1, SameMeaning
<1>4. r = [offset |-> c.offset, count |-> c.count, late |-> ~(~closed)]
  BY <1>2
<1> HIDE DEF r
<1>5. CASE Sound(input)
  <2>1. Asks' = [Asks EXCEPT ![t] = r]
    BY <1>1, <1>2, <1>3, <1>5 DEF Asks, ReadTypes
  <2>2. Replies' = [Replies EXCEPT ![t] = NoReply]
    <3>1. result'[t] = NoReply /\ \A u \in Threads : u # t => result'[u] = result[u] /\ buf'[u] = buf[u]
      BY <1>1, <1>2 DEF ReadTypes
    <3> QED
      BY <1>3, <1>5, <3>1 DEF Replies
  <2>3. Asks[t] # NoCall => Replies[t] # NoReply
    <3> SUFFICES ASSUME Asks[t] # NoCall PROVE Replies[t] # NoReply
      OBVIOUS
    <3>1. call[t] # NoCall /\ result[t] # NoReply
      BY <1>1, <1>2, <1>5 DEF Asks, Given
    <3>2. result[t] \in Word \cup {-1} /\ buf[t] \in Seq(Byte)
      BY <3>1 DEF BInv, TInv, TypedRead
    <3>3. [n |-> result[t], bytes |-> buf[t]] \in [n : Word \cup {-1}, bytes : Seq(Byte)]
      BY <3>2
    <3>4. Replies[t] = [n |-> result[t], bytes |-> buf[t]]
      BY <1>5, <3>1 DEF Replies
    <3> QED
      BY <3>3, <3>4, BytesAssumption
  <2>4. (~closed)' = ~closed
    BY <1>1
  <2>5. Bytes!Ask(t)
    BY <1>3, <1>4, <2>1, <2>2, <2>3, <2>4 DEF Bytes!Ask, Content, Asks, Replies
  <2> QED
    BY <2>5 DEF Bytes!Next
<1>6. CASE ~Sound(input)
  <2>1. Asks' = Asks /\ Replies' = Replies
    BY <1>3, <1>6 DEF Asks, Replies
  <2> QED
    BY <1>1, <1>3, <2>1 DEF Bytes!streamVars, Content, Asks, Replies
<1> QED
  BY <1>5, <1>6

\* What a read that ends may give back: all it promised of the content, or a failure.
MayGive(t, n) ==
    Sound(input) =>
        \/ n = -1
        \/ /\ ~call[t].late
           /\ \/ closed
              \/ /\ n \in 0 .. call[t].count
                 /\ \A i \in 1 .. n : call[t].offset + i - 1 \in 0 .. SizeOf(input) - 1
                 /\ buf[t] = [i \in 1 .. n |-> ByteAt(input, call[t].offset + i - 1)]

LEMMA ReturnIsAnswer ==
  ASSUME BInv, NEW t \in Threads, NEW n \in Word \cup {-1}, pc[t] # "idle", MayGive(t, n),
         Return(t, n), UNCHANGED <<mapVars, call, next, left, buf>>
  PROVE  [Bytes!Next]_(Bytes!streamVars)
<1>1. /\ result' = [result EXCEPT ![t] = n]
      /\ input' = input /\ closed' = closed /\ call' = call /\ buf' = buf
  BY DEF Return, mapVars
<1>2. ReadTypes /\ closed \in BOOLEAN /\ Given(t) /\ TypedRead(t)
  BY DEF BInv, TInv, SInv, IInv, TypeOK
<1>3. Content' = Content /\ Sound(input)' = Sound(input)
  BY <1>1, SameMeaning
<1>4. result'[t] = n /\ result[t] = NoReply /\ call[t] \in CallRecord
      /\ \A u \in Threads : result'[u] = result[u] \/ u = t
  BY <1>1, <1>2 DEF ReadTypes, Given
<1>5. Asks' = Asks
  BY <1>1, <1>3 DEF Asks
<1>6. CASE Sound(input)
  <2> DEFINE r == [n |-> n, bytes |-> buf[t]]
  <2>1. n # NoReply
    BY ReplyAssumption, WordFacts
  <2>2. Replies'[t] = r /\ \A u \in Threads : Replies'[u] = Replies[u] \/ u = t
    BY <1>1, <1>3, <1>4, <1>6, <2>1 DEF Replies
  <2>3. r # NoReply
    <3>1. r \in [n : Word \cup {-1}, bytes : Seq(Byte)]
      BY <1>2 DEF TypedRead
    <3> QED
      BY <3>1, BytesAssumption
  <2>4. Replies[t] = NoReply /\ Asks[t] = call[t] /\ call[t] # NoCall
    BY <1>4, <1>6, CallAssumption DEF Replies, Asks, CallRecord
  <2>5. Bytes!Promised(Asks[t], r)
    <3>1. r.n = n /\ r.bytes = buf[t]
      OBVIOUS
    <3> HIDE DEF r
    <3>2. DOMAIN Content = 0 .. SizeOf(input) - 1
      BY DEF Content
    <3>3. CASE n = -1
      BY <3>1, <3>3 DEF Bytes!Promised
    <3>4. CASE ~call[t].late /\ closed
      BY <2>4, <3>1, <3>4 DEF Bytes!Promised
    <3>5. CASE /\ ~call[t].late /\ n \in 0 .. call[t].count
               /\ \A i \in 1 .. n : call[t].offset + i - 1 \in 0 .. SizeOf(input) - 1
               /\ buf[t] = [i \in 1 .. n |-> ByteAt(input, call[t].offset + i - 1)]
      <4>1. \A i \in 1 .. n : Content[call[t].offset + i - 1] = ByteAt(input, call[t].offset + i - 1)
        BY <3>5 DEF Content
      <4>2. buf[t] = [i \in 1 .. n |-> Content[call[t].offset + i - 1]]
        BY <3>5, <4>1
      <4>3. buf[t] = Bytes!Served(call[t], n)
        BY <4>2 DEF Bytes!Served, Content
      <4>4. \A i \in 1 .. n : call[t].offset + i - 1 \in DOMAIN Content
        BY <3>2, <3>5
      <4> QED
        BY <2>4, <3>1, <3>5, <4>3, <4>4 DEF Bytes!Promised, Content
    <3> QED
      BY <1>6, <3>3, <3>4, <3>5 DEF MayGive
  <2> HIDE DEF r
  <2>6. (~closed)' = ~closed
    BY <1>1
  <2>7. Bytes!Answer(t)
    BY <1>3, <1>5, <2>2, <2>3, <2>4, <2>5, <2>6 DEF Bytes!Answer, Content, Asks, Replies
  <2> QED
    BY <2>7 DEF Bytes!Next
<1>7. CASE ~Sound(input)
  <2>1. Replies' = Replies
    BY <1>3, <1>7 DEF Replies
  <2> QED
    BY <1>1, <1>3, <1>5, <2>1 DEF Bytes!streamVars, Content, Asks, Replies
<1> QED
  BY <1>6, <1>7

LEMMA RefuseMayGive ==
  ASSUME BInv, NEW t \in Threads, Refuse(t)
  PROVE  MayGive(t, IF closed THEN -1 ELSE 0)
<1>1. pc[t] = "called" /\ Given(t) /\ buf[t] = <<>>
  BY DEF Refuse, BInv, TInv, SInv, Served
<1>2. ~closed => ~call[t].late
  BY <1>1, CallAssumption DEF Given, CallRecord
<1>3. call[t].count \in Nat
  BY <1>1, WordFacts DEF Given, CallRecord
<1>4. 1 .. 0 = {}
  OBVIOUS
<1>5. buf[t] = [i \in 1 .. 0 |-> ByteAt(input, call[t].offset + i - 1)]
  BY <1>1, <1>4
<1> QED
  BY <1>2, <1>3, <1>4, <1>5 DEF MayGive

LEMMA ReadClearedMayGive ==
  ASSUME BInv, NEW t \in Threads, ReadCleared(t), NEW n
  PROVE  MayGive(t, n)
<1>1. pc[t] = "loop" /\ streams = <<>> /\ Given(t)
  BY DEF ReadCleared, BInv
<1>2. phase = "ready"
  BY <1>1 DEF BInv, TInv, SInv, Asked
<1>3. closed
  BY <1>1, <1>2, InputTypes DEF BInv, TInv, SInv, IInv, StreamsInv
<1> QED
  BY <1>1, <1>3 DEF MayGive, Given

LEMMA FinishMayGive ==
  ASSUME BInv, NEW t \in Threads, Finish(t)
  PROVE  MayGive(t, Len(buf[t]))
<1> SUFFICES ASSUME Sound(input), ~closed
             PROVE  /\ ~call[t].late
                    /\ Len(buf[t]) \in 0 .. call[t].count
                    /\ \A i \in 1 .. Len(buf[t]) : call[t].offset + i - 1 \in 0 .. SizeOf(input) - 1
                    /\ buf[t] = [i \in 1 .. Len(buf[t]) |-> ByteAt(input, call[t].offset + i - 1)]
  <2>1. ~call[t].late
    BY DEF Finish, BInv, Given
  <2> QED
    BY <2>1 DEF MayGive
<1>1. pc[t] = "loop" /\ Return(t, Len(buf[t])) /\ WellFormed(input)
  BY DEF Finish, Sound
<1>2. SInv /\ Given(t) /\ TypedRead(t) /\ IInv /\ phase = "ready"
  BY <1>1 DEF BInv, TInv, SInv, Asked
<1>3. Len(buf[t]) = Share(call[t].offset, call[t].count)
  <2>1. SInv'
    BY <1>2, FinishServed
  <2>2. /\ result'[t] = Len(buf[t]) /\ Len(buf[t]) \in Nat
        /\ input' = input /\ closed' = closed /\ length' = length /\ call' = call
    BY <1>1, <1>2, WordFacts DEF Return, SInv, ReadTypes, TypedRead, Finish, mapVars
  <2>3. WellFormed(input)'
    BY <1>1, <2>2 DEF WellFormed
  <2>4. result'[t] = Share(call[t].offset, call[t].count)
    BY <2>1, <2>2, <2>3 DEF SInv, Served, Share
  <2> QED
    BY <2>2, <2>4
<1>4. SizeOf(input) = length
  <2>1. input.points # <<>>
    BY <1>2 DEF IInv, StreamsInv
  <2> QED
    BY <1>1, <1>2, <2>1, InvLength DEF SizeOf
<1>5. call[t].offset \in Nat /\ call[t].count \in Nat /\ length \in Nat /\ call[t].offset <= length
  BY <1>1, <1>2, WordFacts DEF Given, CallRecord, IInv, TypeOK, SInv, Served
<1>6. Len(buf[t]) \in 0 .. call[t].count /\ call[t].offset + Len(buf[t]) <= length
  BY <1>3, <1>5 DEF Share
<1>7. \A i \in 1 .. Len(buf[t]) : /\ call[t].offset + i - 1 \in 0 .. length - 1
                                  /\ call[t].offset + (i - 1) = call[t].offset + i - 1
  BY <1>5, <1>6
<1>8. \A i \in 1 .. Len(buf[t]) : buf[t][i] = ByteAt(input, call[t].offset + i - 1)
  BY <1>1, <1>2, <1>5, <1>7 DEF Given
<1>9. buf[t] = [i \in 1 .. Len(buf[t]) |-> buf[t][i]]
  BY <1>2 DEF TypedRead
<1> QED
  BY <1>1, <1>2, <1>4, <1>6, <1>7, <1>8, <1>9 DEF Given

LEMMA ReadEntryIsSeen ==
  ASSUME BInv, NEW t \in Threads, ReadEntry(t)
  PROVE  [Bytes!Next]_(Bytes!streamVars)
<1>1. pc[t] = "loop" /\ UNCHANGED <<mapVars, call>>
  BY DEF ReadEntry
<1>2. \/ Return(t, -1) /\ UNCHANGED <<next, left, buf>>
      \/ \E b : buf' = [buf EXCEPT ![t] = b] /\ result' = result
  BY DEF ReadEntry
<1>3. CASE Return(t, -1) /\ UNCHANGED <<next, left, buf>>
  <2>1. MayGive(t, -1)
    BY DEF MayGive
  <2> QED
    BY <1>1, <1>3, <2>1, ReturnIsAnswer
<1>4. ASSUME NEW b, buf' = [buf EXCEPT ![t] = b], result' = result
      PROVE  UNCHANGED Bytes!streamVars
  <2>1. result[t] = NoReply
    BY <1>1 DEF BInv, Given
  <2>2. \A u \in Threads : result[u] # NoReply => buf'[u] = buf[u]
    BY <1>4, <2>1 DEF BInv, TInv, SInv, ReadTypes
  <2> QED
    BY <1>1, <1>4, <2>2, SeenSame DEF mapVars
<1> QED
  BY <1>2, <1>3, <1>4

LEMMA NextIsSeen == BInv /\ [Next]_vars => [Bytes!Next]_(Bytes!streamVars)
<1> SUFFICES ASSUME BInv, [Next]_vars
             PROVE  [Bytes!Next]_(Bytes!streamVars)
  OBVIOUS
<1>1. CASE Build
  BY <1>1, BuildIsSeen
<1>2. CASE Close
  <2>1. TypeOK /\ ~closed /\ closed' = TRUE /\ input' = input /\ UNCHANGED readVars
    BY <1>2 DEF Close, BInv, TInv, SInv, IInv
  <2> QED
    BY <2>1, CloseIsClose DEF Bytes!Next
<1>3. CASE ClearStreams
  <2>1. input' = input /\ closed' = closed /\ call' = call /\ result' = result /\ buf' = buf
    BY <1>3 DEF ClearStreams, readVars
  <2> QED
    BY <2>1, SeenSame
<1>4. ASSUME NEW t \in Threads, NEW c \in Calls, Call(t, c)
      PROVE  [Bytes!Next]_(Bytes!streamVars)
  BY <1>4, CallIsAsk
<1>5. ASSUME NEW t \in Threads, Enter(t)
      PROVE  [Bytes!Next]_(Bytes!streamVars)
  <2>1. input' = input /\ closed' = closed /\ call' = call /\ result' = result /\ buf' = buf
    BY <1>5 DEF Enter, mapVars
  <2> QED
    BY <2>1, SeenSame
<1>6. ASSUME NEW t \in Threads, Refuse(t) \/ ReadCleared(t) \/ Finish(t)
      PROVE  [Bytes!Next]_(Bytes!streamVars)
  <2>1. pc[t] # "idle" /\ UNCHANGED <<mapVars, call, next, left, buf>>
    BY <1>6, ReturnsWord
  <2>2. \E n \in Word \cup {-1} : Return(t, n) /\ MayGive(t, n)
    <3>1. CASE Refuse(t)
      <4>1. (IF closed THEN -1 ELSE 0) \in Word \cup {-1}
        BY WordFacts
      <4>2. Return(t, IF closed THEN -1 ELSE 0)
        BY <3>1 DEF Refuse
      <4> QED
        BY <3>1, <4>1, <4>2, RefuseMayGive
    <3>2. CASE ReadCleared(t)
      BY <1>6, <3>2, ReturnsWord, ReadClearedMayGive
    <3>3. CASE Finish(t)
      <4>1. Len(buf[t]) \in Word
        BY DEF BInv, TInv, TypedRead
      <4> QED
        BY <3>3, <4>1, FinishMayGive DEF Finish
    <3> QED
      BY <1>6, <3>1, <3>2, <3>3
  <2> QED
    BY <2>1, <2>2, ReturnIsAnswer
<1>7. ASSUME NEW t \in Threads, ReadEntry(t)
      PROVE  [Bytes!Next]_(Bytes!streamVars)
  BY <1>7, ReadEntryIsSeen
<1>8. CASE UNCHANGED vars
  <2>1. input' = input /\ closed' = closed /\ call' = call /\ result' = result /\ buf' = buf
    BY <1>8 DEF vars, mapVars, readVars
  <2> QED
    BY <2>1, SeenSame
<1> QED
  BY <1>1, <1>2, <1>3, <1>4, <1>5, <1>6, <1>7, <1>8 DEF Next

(* A map whose points do not overlap, keep clear of the gap stream's ID    *)
(* and lie within the streams they refer to is a byte stream: every read   *)
(* that close() does not overtake gives, over however many entries, the    *)
(* bytes that the map means at the offsets it was asked for, or fails; and *)
(* a read begun after close() fails (MapStream.cc:62-134).                 *)
THEOREM MapIsByteStream == Spec => IsByteStream
<1>1. ReadInit => Bytes!Init
  <2> SUFFICES ASSUME ReadInit PROVE Bytes!Init
    OBVIOUS
  <2>1. \A t \in Threads : call[t] = NoCall /\ result[t] = NoReply
    BY DEF ReadInit
  <2> QED
    BY <2>1 DEF Bytes!Init
<1> QED
  BY <1>1, InitGiven, NextGiven, NextIsSeen, PTL DEF Spec, IsByteStream, Bytes!Spec

-----------------------------------------------------------------------------
(* isSparse() of the plugin, a walk from entry to entry.                   *)

\* Whether the walk meets data: does any byte of the range lie in a stream that is not sparse?
Meets(q, end) == \E p \in q .. end - 1 : ~IsSparseStream(StreamAt(EntryAt(p)))

Turn(f, q, end) ==
    IF q >= end THEN "sparse"
    ELSE LET e == EntryAt(q)
             step == SparseLength(e, q)
         IN  IF ~IsSparseStream(StreamAt(e)) THEN "data"
             ELSE IF step = 0 THEN "stuck"
             ELSE IF step >= end - q THEN "sparse" ELSE f[q + step]

Outcome(q, end) == IF Meets(q, end) THEN "data" ELSE "sparse"

(* A turn ends at the end of the entry it is in, all of whose bytes are of *)
(* the same stream.                                                        *)
LEMMA StepIs ==
  ASSUME IInv, phase = "ready", WellFormed(input), ~closed, NEW end \in Word, end <= length,
         NEW q \in Word, q < end
  PROVE  LET step == SparseLength(EntryAt(q), q)
         IN  /\ step \in Nat /\ step > 0
             /\ \A p \in Nat : q <= p /\ p < q + step => EntryAt(p) = EntryAt(q)
<1> DEFINE e == EntryAt(q)
           step == SparseLength(e, q)
<1>1. q \in Nat /\ end \in Nat /\ length \in Nat /\ offset \in Nat /\ W \in Nat
  BY WordAssumption, WordFacts DEF IInv, TypeOK
<1>2. q < Total
  BY <1>1 DEF Total, Larger
<1>3. /\ e \in Point /\ e.offset <= q /\ q < e.offset + e.length
      /\ \A p \in Nat : e.offset <= p /\ p < e.offset + e.length => EntryAt(p) = e
  BY <1>1, <1>2, EntryUnder
<1> HIDE DEF e
<1>4. e.offset \in Nat /\ e.length \in Nat /\ e.length < W
  BY <1>3, WordAssumption DEF Point, Word
<1>5. step = e.length - (q - e.offset)
  <2>1. e.length - (q - e.offset) \in Word
    BY <1>1, <1>3, <1>4 DEF Word
  <2> QED
    BY <2>1, WordFacts DEF SparseLength
<1>6. q + step = e.offset + e.length /\ step \in Nat /\ step > 0
  BY <1>1, <1>3, <1>4, <1>5
<1> HIDE DEF step
<1>7. \A p \in Nat : q <= p /\ p < q + step => EntryAt(p) = e
  BY <1>1, <1>3, <1>4, <1>6
<1> QED
  BY <1>6, <1>7 DEF e, step

LEMMA OutcomeFits ==
  ASSUME IInv, phase = "ready", WellFormed(input), ~closed, NEW end \in Word, end <= length,
         NEW q \in Word, NEW f, \A p \in Word : p > q => f[p] = Outcome(p, end)
  PROVE  Outcome(q, end) = Turn(f, q, end)
<1> DEFINE e == EntryAt(q)
           step == SparseLength(e, q)
<1>1. q \in Nat /\ end \in Nat /\ W \in Nat /\ end < W
  BY WordAssumption DEF Word
<1>2. CASE q >= end
  BY <1>1, <1>2 DEF Outcome, Meets, Turn
<1>3. CASE q < end
  <2>1. /\ step \in Nat /\ step > 0
        /\ \A p \in Nat : q <= p /\ p < q + step => EntryAt(p) = e
    BY <1>3, StepIs
  <2>2. Turn(f, q, end) = IF ~IsSparseStream(StreamAt(e)) THEN "data"
                          ELSE IF step >= end - q THEN "sparse" ELSE f[q + step]
    <3> HIDE DEF step
    <3>1. ~(q >= end) /\ step # 0
      BY <1>1, <1>3, <2>1
    <3> QED
      BY <3>1 DEF Turn, step
  <2> HIDE DEF e, step
  <2>3. CASE ~IsSparseStream(StreamAt(e))
    <3>1. Meets(q, end)
      BY <1>1, <1>3, <2>3 DEF Meets, e
    <3> QED
      BY <2>2, <2>3, <3>1 DEF Outcome
  <2>4. CASE IsSparseStream(StreamAt(e)) /\ step >= end - q
    <3>1. \A p \in q .. end - 1 : p \in Nat /\ q <= p /\ p < q + step
      BY <1>1, <2>1, <2>4
    <3>2. ~Meets(q, end)
      BY <2>1, <2>4, <3>1 DEF Meets
    <3> QED
      BY <2>2, <2>4, <3>2 DEF Outcome
  <2>5. CASE IsSparseStream(StreamAt(e)) /\ ~(step >= end - q)
    <3>1. q + step \in Word /\ q + step > q /\ q + step < end
      BY <1>1, <2>1, <2>5 DEF Word
    <3>2. \A p \in q .. end - 1 : \/ p \in Nat /\ q <= p /\ p < q + step
                                  \/ p \in (q + step) .. end - 1
      BY <1>1, <2>1
    <3>3. \A p \in (q + step) .. end - 1 : p \in q .. end - 1
      BY <1>1, <2>1
    <3>4. Meets(q, end) <=> Meets(q + step, end)
      BY <2>1, <2>5, <3>2, <3>3 DEF Meets
    <3> QED
      BY <2>2, <2>5, <3>1, <3>4 DEF Outcome
  <2> QED
    BY <2>3, <2>4, <2>5
<1> QED
  BY <1>1, <1>2, <1>3

(* The walk of isSparse(), which goes from entry to entry, comes to what   *)
(* looking every byte up would.                                            *)
LEMMA WalkedIs ==
  ASSUME IInv, phase = "ready", WellFormed(input), ~closed,
         NEW o \in Nat, NEW n \in Nat, o + n <= length
  PROVE  Walked(o, n) = Outcome(o, o + n)
<1> DEFINE end == o + n
           Fits(f) == f = [q \in Word |-> Turn(f, q, end)]
           From == CHOOSE f : Fits(f)
           F == [q \in Word |-> Outcome(q, end)]
<1>1. end \in Word /\ end <= length /\ o \in Word /\ end \in Nat /\ W \in Nat
  <2>1. length \in Nat /\ length < W /\ W \in Nat
    BY WordAssumption DEF IInv, TypeOK, Word
  <2> QED
    BY <2>1 DEF Word
<1>2. Walked(o, n) = From[o]
  BY DEF Walked, Turn
<1> HIDE DEF end
<1>3. Fits(F)
  <2>1. ASSUME NEW q \in Word PROVE Outcome(q, end) = Turn(F, q, end)
    <3> HIDE DEF F
    <3>1. \A p \in Word : p > q => F[p] = Outcome(p, end)
      BY DEF F
    <3> QED
      BY <1>1, <3>1, OutcomeFits
  <2>2. [q \in Word |-> Outcome(q, end)] = [q \in Word |-> Turn(F, q, end)]
    <3> HIDE DEF F
    <3> QED
      BY <2>1
  <2> QED
    BY <2>2
<1> HIDE DEF F
<1>4. Fits(From)
  BY <1>3
<1> HIDE DEF From
<1>5. \A q \in Word : From[q] = Turn(From, q, end)
  BY <1>4
<1> HIDE DEF Fits
<1>6. \A q \in Word : From[q] = Outcome(q, end)
  <2> DEFINE Wrong == {q \in Word : From[q] # Outcome(q, end)}
  <2> SUFFICES ASSUME Wrong # {} PROVE FALSE
    OBVIOUS
  <2>1. Wrong \subseteq 0 .. W /\ W \in Nat
    BY <1>1 DEF Word
  <2> HIDE DEF Wrong
  <2>2. PICK q \in Wrong : \A p \in Wrong : p <= q
    BY <2>1, NatMax
  <2>3. q \in Word /\ From[q] # Outcome(q, end) /\ q \in Nat
    BY <2>1, <2>2 DEF Wrong
  <2>4. ASSUME NEW p \in Word, p > q PROVE From[p] = Outcome(p, end)
    <3>1. p \notin Wrong
      BY <2>2, <2>3, <2>4, WordFacts
    <3> QED
      BY <3>1 DEF Wrong
  <2>5. Outcome(q, end) = Turn(From, q, end)
    BY <1>1, <2>3, <2>4, OutcomeFits
  <2> QED
    BY <1>5, <2>3, <2>5
<1> QED
  BY <1>1, <1>2, <1>6 DEF end

LEMMA InvSparse == IInv => SparseHasNoData
<1> SUFFICES ASSUME IInv, phase = "ready", ~closed, WellFormed(input), ~GapAliased(input),
                    NEW o \in 0 .. length, NEW n \in 0 .. length
             PROVE  SparseDetected(o, n) <=>
                      /\ o < length /\ n > 0
                      /\ \A q \in o .. o + n - 1 :
                           q < length => IsSparseStream(Meaning(input, q).stream)
  BY DEF SparseHasNoData
<1> DEFINE c == Capped(o, n)
<1>1. length \in Nat /\ o \in Nat /\ n \in Nat /\ o <= length /\ n <= length /\ input.points # <<>>
  BY WordFacts DEF IInv, TypeOK, StreamsInv
<1>2. /\ c \in Nat /\ o + c <= length
      /\ c > 0 <=> o < length /\ n > 0
      /\ \A q \in Nat : o <= q /\ q < o + c <=> o <= q /\ q < o + n /\ q < length
  BY <1>1 DEF Capped
<1> HIDE DEF c
<1>3. PICK end \in Nat : end = o + c
  BY <1>1, <1>2
<1>4. Walked(o, c) = "sparse" <=> ~Meets(o, end)
  <2>1. Walked(o, c) = Outcome(o, end)
    BY <1>1, <1>2, <1>3, WalkedIs
  <2> QED
    BY <2>1 DEF Outcome
<1>5. ASSUME NEW q \in Nat, q < length
      PROVE  StreamAt(EntryAt(q)) = Meaning(input, q).stream
  <2>1. q \in 0 .. length - 1
    BY <1>1, <1>5
  <2> QED
    BY <1>1, <2>1, InvLookup
<1>6. Meets(o, end) <=>
        \E q \in Nat : o <= q /\ q < end /\ ~IsSparseStream(Meaning(input, q).stream)
  <2>1. \A q \in o .. end - 1 : q \in Nat /\ o <= q /\ q < end /\ q < length
    BY <1>1, <1>2, <1>3
  <2>2. \A q \in Nat : o <= q /\ q < end => q \in o .. end - 1
    BY <1>1, <1>3
  <2>3. ASSUME NEW q \in o .. end - 1
        PROVE  StreamAt(EntryAt(q)) = Meaning(input, q).stream
    BY <1>5, <2>1
  <2> QED
    BY <2>1, <2>2, <2>3 DEF Meets, IsSparseStream
<1>7. (\A q \in o .. o + n - 1 : q < length => IsSparseStream(Meaning(input, q).stream))
        <=> \A q \in Nat : o <= q /\ q < o + n /\ q < length => IsSparseStream(Meaning(input, q).stream)
  <2>1. \A q \in o .. o + n - 1 : q \in Nat /\ o <= q /\ q < o + n
    BY <1>1
  <2>2. \A q \in Nat : o <= q /\ q < o + n => q \in o .. o + n - 1
    BY <1>1
  <2> QED
    BY <2>1, <2>2
<1>8. SparseDetected(o, n) <=> c > 0 /\ Walked(o, c) = "sparse"
  BY DEF SparseDetected, c
<1> QED
  BY <1>2, <1>3, <1>4, <1>6, <1>7, <1>8

(* isSparse() tells a well formed map's ranges apart as reading every byte *)
(* of them would, and on every such map the walk ends: no entry it meets   *)
(* leaves it where it is (Util.cc:81-132).                                 *)
THEOREM SparseIsRight == Spec => []SparseHasNoData
<1>1. SInv => SparseHasNoData
  BY InvSparse DEF SInv
<1> QED
  BY <1>1, Inductive, PTL
=============================================================================
