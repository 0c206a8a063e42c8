---------------------------- MODULE StrProofs ----------------------------
(***************************************************************************)
(* Theorems about Str for every length of a chunk, all record ids and all   *)
(* strings.                                                                 *)
(***************************************************************************)
EXTENDS Str, SequenceTheorems, FiniteSetTheorems, WellFoundedInduction, TLAPS

-----------------------------------------------------------------------------
(* Induction over numbers, stated for sets: to show something of every      *)
(* number, collect the numbers it holds of.                                 *)

(* A set of numbers with 0 and with the successor of each is all of them.   *)
LEMMA SetInduction ==
  ASSUME NEW S \in SUBSET Nat, 0 \in S, \A n \in S : n + 1 \in S
  PROVE  S = Nat
<1> SUFFICES ASSUME Nat \ S # {} PROVE FALSE
  OBVIOUS
<1>1. PICK x \in Nat \ S : \A y \in Nat \ S : ~(<<y, x>> \in OpToRel(<, Nat))
  <2>1. Nat \ S \subseteq Nat OBVIOUS
  <2> QED BY <2>1, NatLessThanWellFounded, WFMin, Zenon
<1>2. x # 0 OBVIOUS
<1>3. x - 1 \in Nat /\ x - 1 < x BY <1>2
<1>4. x - 1 \in S BY <1>1, <1>3 DEF OpToRel
<1>5. x - 1 + 1 = x OBVIOUS
<1> QED BY <1>4, <1>5

(* The same from 1 to a bound.                                              *)
LEMMA UpTo ==
  ASSUME NEW N \in Nat, NEW S, 1 \in S,
         \A n \in 1 .. N : n # 1 /\ n - 1 \in S => n \in S
  PROVE  \A n \in 1 .. N : n \in S
<1> DEFINE T == {k \in Nat : k + 1 \in 1 .. N => k + 1 \in S}
<1>1. T = Nat
  <2>1. T \in SUBSET Nat OBVIOUS
  <2>2. 0 \in T OBVIOUS
  <2>3. ASSUME NEW n \in T PROVE n + 1 \in T
    <3> SUFFICES ASSUME n + 2 \in 1 .. N PROVE n + 2 \in S OBVIOUS
    <3>1. n \in Nat /\ n + 1 \in 1 .. N /\ n + 2 # 1 /\ (n + 2) - 1 = n + 1 OBVIOUS
    <3>2. n + 1 \in S BY <3>1
    <3> QED BY <3>1, <3>2
  <2> HIDE DEF T
  <2> QED BY <2>1, <2>2, <2>3, SetInduction
<1>2. ASSUME NEW n \in 1 .. N PROVE n \in S
  <2>1. n - 1 \in Nat /\ (n - 1) + 1 = n OBVIOUS
  <2>2. n - 1 \in T BY <1>1, <2>1
  <2> QED BY <2>1, <2>2
<1> QED BY <1>2

(* Iterating a function step from a.                                        *)
Iterates(N, a, step, f) ==
    f = [n \in 1 .. N |-> IF n = 1 THEN a ELSE step[f[n - 1]]]

(* Iteration up to a bound is well defined.                                 *)
LEMMA SomethingIterates ==
  ASSUME NEW N \in Nat, NEW S, NEW a \in S, NEW step \in [S -> S]
  PROVE  \E f \in [1 .. N -> S] : Iterates(N, a, step, f)
<1> DEFINE T == {k \in Nat : \E f \in [1 .. k -> S] : Iterates(k, a, step, f)}
<1>1. 0 \in T
  <2>1. [n \in 1 .. 0 |-> a] \in [1 .. 0 -> S] OBVIOUS
  <2>2. Iterates(0, a, step, [n \in 1 .. 0 |-> a]) BY DEF Iterates
  <2> QED BY <2>1, <2>2
<1>2. ASSUME NEW k \in T PROVE k + 1 \in T
  <2>1. PICK f \in [1 .. k -> S] : Iterates(k, a, step, f) OBVIOUS
  <2>2. k \in Nat OBVIOUS
  <2> DEFINE g == [n \in 1 .. k + 1 |-> IF n = 1 THEN a ELSE step[f[n - 1]]]
  <2>3. \A n \in 1 .. k : g[n] = f[n]
    <3>1. f = [n \in 1 .. k |-> IF n = 1 THEN a ELSE step[f[n - 1]]] BY <2>1 DEF Iterates
    <3>2. \A n \in 1 .. k : f[n] = IF n = 1 THEN a ELSE step[f[n - 1]] BY <3>1
    <3>3. \A n \in 1 .. k : n \in 1 .. k + 1 BY <2>2
    <3> QED BY <3>2, <3>3
  <2>4. \A n \in 1 .. k + 1 : n # 1 => n - 1 \in 1 .. k BY <2>2
  <2>5. g \in [1 .. k + 1 -> S] BY <2>4
  <2>6. \A n \in 1 .. k + 1 : g[n] = IF n = 1 THEN a ELSE step[g[n - 1]]
    <3>1. \A n \in 1 .. k + 1 : g[n] = IF n = 1 THEN a ELSE step[f[n - 1]] OBVIOUS
    <3> HIDE DEF g
    <3> QED BY <2>3, <2>4, <3>1
  <2>7. Iterates(k + 1, a, step, g)
    <3> HIDE DEF g
    <3> QED BY <2>5, <2>6 DEF Iterates
  <2> QED BY <2>2, <2>5, <2>7
<1>3. T = Nat
  <2>1. T \in SUBSET Nat OBVIOUS
  <2> HIDE DEF T
  <2> QED BY <1>1, <1>2, <2>1, SetInduction
<1> QED BY <1>3

-----------------------------------------------------------------------------
(* Where the chunks of a string begin.                                      *)

(* Multiplication keeps what is a step apart a factor apart.                *)
LEMMA Times ==
  ASSUME NEW d \in Nat, NEW a \in Nat, NEW b \in Nat, a < b
  PROVE  a * d + d <= b * d /\ a * d \in Nat /\ b * d \in Nat
<1>1. PICK c \in Nat : b = a + 1 + c
  <2>1. b - a - 1 \in Nat /\ b = a + 1 + (b - a - 1) OBVIOUS
  <2> QED BY <2>1
<1>2. (a + 1 + c) * d = a * d + d + c * d OBVIOUS
<1>3. c * d \in Nat /\ a * d \in Nat /\ b * d \in Nat OBVIOUS
<1> QED BY <1>1, <1>2, <1>3

(* Quotient and remainder.                                                  *)
LEMMA Division ==
  ASSUME NEW d \in Nat \ {0}, NEW n \in Nat
  PROVE  /\ n \div d \in Nat /\ n % d \in 0 .. d - 1
         /\ n % d = n - (n \div d) * d
<1>1. n \div d \in Nat /\ n % d \in 0 .. d - 1 OBVIOUS
<1>2. n % d = n - (n \div d) * d OBVIOUS
<1> QED BY <1>1, <1>2

(* The characters before the i-th chunk.                                    *)
Off(i) == (i - 1) * STR_CHUNK_MAX_LEN

(* The chunks follow each other.                                            *)
LEMMA Offsets ==
  ASSUME NEW i \in Nat \ {0}
  PROVE  /\ Off(i) \in Nat /\ Off(1) = 0
         /\ Off(i + 1) = Off(i) + STR_CHUNK_MAX_LEN
         /\ Off(i + 1) = i * STR_CHUNK_MAX_LEN
<1> DEFINE M == STR_CHUNK_MAX_LEN
           k == i - 1
<1>1. M \in Nat /\ k \in Nat /\ i = k + 1 /\ i + 1 - 1 = i BY StrAssumption
<1>2. Off(1) = 0 BY <1>1 DEF Off
<1>3. Off(i + 1) = i * M BY <1>1 DEF Off
<1> HIDE DEF M, k
<1>4. k * M \in Nat /\ (k + 1) * M = k * M + M BY <1>1
<1>5. Off(i) = k * M BY DEF Off, M, k
<1>6. i * M = k * M + M BY <1>1, <1>4
<1> QED BY <1>2, <1>3, <1>4, <1>5, <1>6 DEF M

(* A later chunk starts a whole chunk later, or more.                       *)
LEMMA OffsetsGrow ==
  ASSUME NEW i \in Nat \ {0}, NEW k \in Nat \ {0}, i < k
  PROVE  Off(i) + STR_CHUNK_MAX_LEN <= Off(k) /\ Off(i) \in Nat /\ Off(k) \in Nat
<1>1. i - 1 \in Nat /\ k - 1 \in Nat /\ i - 1 < k - 1 /\ STR_CHUNK_MAX_LEN \in Nat
  BY StrAssumption
<1> QED BY <1>1, Times DEF Off

(* Strings are sequences of characters, and not empty.                      *)
LEMMA StringType ==
  ASSUME NEW s \in String
  PROVE  /\ s \in Seq(Int) /\ s # <<>> /\ Len(s) \in Nat \ {0}
         /\ DOMAIN s = 1 .. Len(s)
<1>1. s \in Seq(Int) /\ s # <<>> BY StrAssumption
<1> QED BY <1>1, LenProperties, EmptySeq

(* The last chunk holds the last character.                                 *)
LEMMA ChunkCount ==
  ASSUME NEW s \in String
  PROVE  /\ Chunks(s) \in Nat \ {0}
         /\ Off(Chunks(s)) < Len(s) /\ Len(s) <= Off(Chunks(s)) + STR_CHUNK_MAX_LEN
<1> DEFINE M == STR_CHUNK_MAX_LEN
           n == Len(s) - 1
           q == n \div M
<1>1. M \in Nat \ {0} /\ n \in Nat /\ Len(s) = n + 1 BY StrAssumption, StringType
<1> HIDE DEF M, n
<1>2. q \in Nat /\ n % M \in 0 .. M - 1 /\ n % M = n - q * M BY <1>1, Division
<1>3. q * M \in Nat /\ q * M <= n /\ n < q * M + M
  <2> HIDE DEF q
  <2>1. q * M \in Nat BY <1>1, <1>2
  <2> DEFINE x == n % M
             p == q * M
  <2>2. x \in 0 .. M - 1 /\ x = n - p /\ p \in Nat BY <1>2, <2>1
  <2> HIDE DEF x, p
  <2>3. p \in Nat /\ p <= n /\ n < p + M BY <1>1, <2>2
  <2> QED BY <2>3 DEF p
<1>4. Chunks(s) = q + 1 BY DEF Chunks, q, M, n
<1>5. Off(Chunks(s)) = q * M
  <2> HIDE DEF q
  <2>1. (q + 1) - 1 = q BY <1>2
  <2> QED BY <1>4, <2>1 DEF Off, M
<1> HIDE DEF q
<1>6. Chunks(s) \in Nat \ {0} BY <1>2, <1>4
<1> DEFINE p == q * M
<1>7. p \in Nat /\ p <= n /\ n < p + M /\ Off(Chunks(s)) = p BY <1>3, <1>5
<1> HIDE DEF p
<1> QED BY <1>1, <1>6, <1>7 DEF M

(* No other number of chunks does.                                          *)
LEMMA OnlyCount ==
  ASSUME NEW s \in String, NEW m \in Nat \ {0},
         Off(m) < Len(s), Len(s) <= Off(m) + STR_CHUNK_MAX_LEN
  PROVE  Chunks(s) = m
<1> DEFINE n == Chunks(s)
<1>1. /\ n \in Nat \ {0} /\ Len(s) \in Nat
      /\ Off(n) < Len(s) /\ Len(s) <= Off(n) + STR_CHUNK_MAX_LEN
  BY ChunkCount, StringType
<1> HIDE DEF n
<1>0. STR_CHUNK_MAX_LEN \in Nat BY StrAssumption
<1>2. ~(n < m)
  <2> SUFFICES ASSUME n < m PROVE FALSE OBVIOUS
  <2>1. Off(n) + STR_CHUNK_MAX_LEN <= Off(m) /\ Off(n) \in Nat /\ Off(m) \in Nat
    BY <1>1, OffsetsGrow
  <2> QED BY <1>0, <1>1, <2>1
<1>3. ~(m < n)
  <2> SUFFICES ASSUME m < n PROVE FALSE OBVIOUS
  <2>1. Off(m) + STR_CHUNK_MAX_LEN <= Off(n) /\ Off(n) \in Nat /\ Off(m) \in Nat
    BY <1>1, OffsetsGrow
  <2> QED BY <1>0, <1>1, <2>1
<1>4. n = m BY <1>1, <1>2, <1>3
<1> QED BY <1>4 DEF n

(* The characters of a chunk.                                               *)
LEMMA PartOf ==
  ASSUME NEW s \in String, NEW i \in 1 .. Chunks(s)
  PROVE  /\ Part(s, i) \in Seq(Int)
         /\ Len(Part(s, i)) = IF i = Chunks(s) THEN Len(s) - Off(i) ELSE STR_CHUNK_MAX_LEN
         /\ Len(Part(s, i)) \in 1 .. STR_CHUNK_MAX_LEN
         /\ Off(i) \in Nat /\ Off(i) + Len(Part(s, i)) <= Len(s)
         /\ Part(s, i) = SubSeq(s, Off(i) + 1, Off(i) + Len(Part(s, i)))
         /\ \A j \in 1 .. Len(Part(s, i)) : Part(s, i)[j] = s[Off(i) + j]
<1> DEFINE M == STR_CHUNK_MAX_LEN
           N == Chunks(s)
           L == Len(s)
           a == Off(i)
           b == IF a + M < L THEN a + M ELSE L
<1>1. /\ M \in Nat \ {0} /\ N \in Nat \ {0} /\ L \in Nat \ {0} /\ a \in Nat
      /\ i \in 1 .. N
  <2>1. M \in Nat \ {0} /\ N \in Nat \ {0} /\ L \in Nat \ {0}
    BY StrAssumption, ChunkCount, StringType
  <2>2. i \in Nat \ {0} BY <2>1
  <2> QED BY <2>1, <2>2, Offsets
<1>2. Part(s, i) = SubSeq(s, a + 1, b)
  <2>1. i \in Nat \ {0} BY <1>1
  <2>2. i * STR_CHUNK_MAX_LEN = a + M BY <2>1, Offsets
  <2> QED BY <2>2 DEF Part, Off
<1>3. a < L /\ (i = N => L <= a + M) /\ (i # N => a + M <= L)
  <2>1. Off(N) < L /\ L <= Off(N) + M BY ChunkCount
  <2>2. CASE i = N BY <2>1, <2>2
  <2>3. CASE i # N
    <3>1. a + M <= Off(N) /\ Off(N) \in Nat
      <4>1. i \in Nat \ {0} /\ i < N BY <1>1, <2>3
      <4> HIDE DEF N
      <4> QED BY <1>1, <4>1, OffsetsGrow
    <3> HIDE DEF N, L, a, M
    <3> QED BY <1>1, <2>1, <2>3, <3>1
  <2> QED BY <2>2, <2>3
<1>4. s \in Seq(Int) /\ DOMAIN s = 1 .. L BY StringType
<1> HIDE DEF M, N, L, a
<1>5. b \in Nat /\ a < b /\ b <= L /\ b - a \in 1 .. M
  BY <1>1, <1>3
<1>6. b - a = IF i = N THEN L - a ELSE M
  BY <1>1, <1>3
<1> HIDE DEF b
<1>7. \A k \in a + 1 .. b : s[k] \in Int
  <2>1. \A k \in a + 1 .. b : k \in 1 .. L BY <1>1, <1>5
  <2> QED BY <1>4, <2>1, ElementOfSeq DEF L
<1>8. /\ SubSeq(s, a + 1, b) \in Seq(Int)
      /\ Len(SubSeq(s, a + 1, b)) = IF a + 1 <= b THEN b - (a + 1) + 1 ELSE 0
      /\ \A j \in 1 .. b - (a + 1) + 1 : SubSeq(s, a + 1, b)[j] = s[(a + 1) + j - 1]
  BY <1>1, <1>5, <1>7, SubSeqProperties
<1>9. Len(SubSeq(s, a + 1, b)) = b - a BY <1>1, <1>5, <1>8
<1>10. \A j \in 1 .. b - a : SubSeq(s, a + 1, b)[j] = s[a + j]
  <2> SUFFICES ASSUME NEW j \in 1 .. b - a PROVE SubSeq(s, a + 1, b)[j] = s[a + j] OBVIOUS
  <2>1. j \in 1 .. b - (a + 1) + 1 /\ (a + 1) + j - 1 = a + j BY <1>1, <1>5
  <2> QED BY <1>8, <2>1
<1>11. a + (b - a) = b BY <1>1, <1>5
<1> QED BY <1>2, <1>5, <1>6, <1>8, <1>9, <1>10, <1>11, <1>1 DEF M, N, L, a

-----------------------------------------------------------------------------
(* Reading a string.                                                        *)

(* The chunks of a string are in the table C, at t.                         *)
Stored(C, t, s) == DOMAIN C \subseteq RID /\ s \in String /\ Laid(C, t, s)

(* The trail of a string and its chunks, one by one.                        *)
LEMMA LaidChunk ==
  ASSUME NEW C, NEW t, NEW s, Stored(C, t, s), NEW i \in 1 .. Chunks(s)
  PROVE  /\ t[i] \in DOMAIN C /\ t[i] # NoRid
         /\ C[t[i]].data = Part(s, i)
         /\ C[t[i]].next = IF i = Chunks(s) THEN NoRid ELSE t[i + 1]
         /\ i # Chunks(s) => i + 1 \in 1 .. Chunks(s) /\ t[i + 1] # NoRid
<1>1. \A k \in 1 .. Chunks(s) : t[k] \in DOMAIN C /\ t[k] # NoRid
  BY StrAssumption DEF Laid, Stored
<1>2. C[t[i]] = [next |-> IF i = Chunks(s) THEN NoRid ELSE t[i + 1], data |-> Part(s, i)]
  BY DEF Laid, Stored
<1>3. i # Chunks(s) => i + 1 \in 1 .. Chunks(s)
  <2> DEFINE N == Chunks(s)
  <2>1. N \in Nat BY ChunkCount DEF Stored
  <2> HIDE DEF N
  <2>2. ASSUME i \in 1 .. N, i # N PROVE i + 1 \in 1 .. N BY <2>1, <2>2
  <2> QED BY <2>2 DEF N
<1> QED BY <1>1, <1>2, <1>3

(* A record that is at the k-th character of s.                             *)
At(C, t, s, k, record) ==
    \E i \in 1 .. Chunks(s), j \in Nat :
        /\ record = [chunk |-> C[t[i]], idx |-> j]
        /\ j < Len(Part(s, i)) /\ k = Off(i) + j + 1

(* Records on chunks of a table.                                            *)
Records(C) == [chunk : {C[q] : q \in DOMAIN C}, idx : Nat]

(* A string is read from its first character on.                            *)
LEMMA AtStart ==
  ASSUME NEW C, NEW t, NEW s, Stored(C, t, s)
  PROVE  At(C, t, s, 1, [ReadString(C, t[1]) EXCEPT !.idx = 0])
<1>0. s \in String BY DEF Stored
<1>1. 1 \in 1 .. Chunks(s) /\ 0 \in Nat /\ 1 \in Nat \ {0} BY <1>0, ChunkCount
<1>2. 0 < Len(Part(s, 1)) BY <1>1, <1>0, PartOf, StrAssumption
<1>3. 1 = Off(1) + 0 + 1
  <2>1. Off(1) = 0 BY <1>1, Offsets
  <2> QED BY <2>1
<1>4. [ReadString(C, t[1]) EXCEPT !.idx = 0] = [chunk |-> C[t[1]], idx |-> 0] BY DEF ReadString
<1> QED BY <1>1, <1>2, <1>3, <1>4 DEF At

(* The record gives the k-th character of s, says whether another follows,  *)
(* and next_char goes there.                                                *)
Gives(C, t, s, k, record) ==
    /\ k \in 1 .. Len(s) /\ Char(record) = s[k] /\ record \in Records(C)
    /\ HasNextChar(record) <=> k # Len(s)
    /\ k # Len(s) => At(C, t, s, k + 1, NextChar(C, record))

(* A record at a character does.                                            *)
LEMMA Reads ==
  ASSUME NEW C, NEW t, NEW s, Stored(C, t, s),
         NEW k, NEW record, At(C, t, s, k, record)
  PROVE  Gives(C, t, s, k, record)
<1>0. s \in String BY DEF Stored
<1> DEFINE N == Chunks(s)
           L == Len(s)
<1>1. PICK i \in 1 .. N, j \in Nat :
        record = [chunk |-> C[t[i]], idx |-> j] /\ j < Len(Part(s, i)) /\ k = Off(i) + j + 1
  BY DEF At
<1> DEFINE a == Off(i)
           l == Len(Part(s, i))
<1>2. /\ l = IF i = N THEN L - a ELSE STR_CHUNK_MAX_LEN
      /\ l \in 1 .. STR_CHUNK_MAX_LEN /\ a \in Nat /\ a + l <= L
      /\ \A x \in 1 .. l : Part(s, i)[x] = s[a + x]
  BY <1>0, PartOf
<1>3. /\ t[i] \in DOMAIN C /\ t[i] # NoRid /\ C[t[i]].data = Part(s, i)
      /\ C[t[i]].next = IF i = N THEN NoRid ELSE t[i + 1]
      /\ i # N => i + 1 \in 1 .. N /\ t[i + 1] # NoRid
  BY LaidChunk
<1>4. L \in Nat /\ N \in Nat /\ STR_CHUNK_MAX_LEN \in Nat
  BY <1>0, StringType, ChunkCount, StrAssumption
<1>5. j < l /\ k = a + j + 1 /\ record = [chunk |-> C[t[i]], idx |-> j] BY <1>1
<1>6. record.idx = j /\ record.chunk = C[t[i]] /\ record.chunk.data = Part(s, i)
  BY <1>3, <1>5
<1>7. AtEnd(record) <=> j = l - 1 BY <1>6 DEF AtEnd
<1>8. record \in Records(C) BY <1>3, <1>5 DEF Records
<1>9. Char(record) = s[k]
  <2>1. Char(record) = Part(s, i)[j + 1] BY <1>6 DEF Char
  <2> HIDE DEF a, l
  <2>2. j + 1 \in 1 .. l /\ a + (j + 1) = k BY <1>2, <1>4, <1>5
  <2> QED BY <1>2, <2>1, <2>2
<1> HIDE DEF N, L, a, l
<1>10. k \in 1 .. L BY <1>2, <1>4, <1>5
<1>11. CASE j # l - 1
  <2>1. k # L BY <1>2, <1>4, <1>5, <1>11
  <2>2. ~AtEnd(record) BY <1>7, <1>11
  <2>3. NextChar(C, record) = [chunk |-> C[t[i]], idx |-> j + 1]
    BY <1>5, <2>2 DEF NextChar
  <2>4. j + 1 \in Nat /\ j + 1 < l /\ k + 1 = a + (j + 1) + 1
    BY <1>2, <1>4, <1>5, <1>11
  <2>5. At(C, t, s, k + 1, NextChar(C, record)) BY <2>3, <2>4 DEF At, a, l, N
  <2>6. HasNextChar(record) BY <2>2 DEF HasNextChar
  <2> QED BY <1>8, <1>9, <1>10, <2>1, <2>5, <2>6 DEF L, Gives
<1>12. CASE j = l - 1 /\ i = N
  <2>1. k = L BY <1>2, <1>4, <1>5, <1>12
  <2>2. ~HasNextChar(record) BY <1>3, <1>6, <1>7, <1>12 DEF HasNextChar
  <2> QED BY <1>8, <1>9, <1>10, <2>1, <2>2 DEF L, Gives
<1>13. CASE j = l - 1 /\ i # N
  <2>1. i + 1 \in 1 .. N /\ t[i + 1] # NoRid /\ C[t[i]].next = t[i + 1] BY <1>3, <1>13
  <2>2. k = Off(i + 1)
    <3>1. i \in Nat \ {0} BY <1>1, <1>4
    <3>2. Off(i + 1) = a + STR_CHUNK_MAX_LEN BY <3>1, Offsets DEF a
    <3> QED BY <1>2, <1>4, <1>5, <1>13, <3>2
  <2> DEFINE i1 == i + 1
             l1 == Len(Part(s, i1))
  <2>3. l1 \in 1 .. STR_CHUNK_MAX_LEN /\ Off(i1) + l1 <= L /\ Off(i1) = k
    <3>1. i1 \in 1 .. N BY <2>1
    <3>2. Off(i1) = k BY <2>2
    <3> HIDE DEF i1
    <3>3. l1 \in 1 .. STR_CHUNK_MAX_LEN /\ Off(i1) + l1 <= L BY <3>1, <1>0, PartOf DEF L, N
    <3> QED BY <3>2, <3>3
  <2> HIDE DEF l1
  <2>4. k # L /\ 0 < l1 /\ k + 1 = Off(i1) + 0 + 1 BY <1>4, <1>10, <2>3
  <2>5. AtEnd(record) BY <1>7, <1>13
  <2>6. NextChar(C, record) = [chunk |-> C[t[i1]], idx |-> 0]
    BY <1>6, <2>1, <2>5 DEF NextChar
  <2>7. At(C, t, s, k + 1, NextChar(C, record))
    <3>1. i1 \in 1 .. N /\ 0 \in Nat BY <2>1
    <3> HIDE DEF i1
    <3> QED BY <2>4, <2>6, <3>1 DEF At, l1, N
  <2>8. HasNextChar(record) BY <1>6, <2>1 DEF HasNextChar
  <2> QED BY <1>8, <1>9, <1>10, <2>4, <2>7, <2>8 DEF L, Gives
<1> QED BY <1>11, <1>12, <1>13

(* The loop of load_string, and where it is after n characters.             *)
LoadStep(C, l) ==
    IF HasNextChar(l.record)
    THEN [record |-> NextChar(C, l.record), dest |-> Append(l.dest, Char(NextChar(C, l.record)))]
    ELSE l

Cut(s, n) == IF n < Len(s) THEN n ELSE Len(s)

LoadedTo(C, t, s, n, l) ==
    /\ l \in [record : Records(C), dest : Seq(Int)]
    /\ At(C, t, s, Cut(s, n), l.record)
    /\ l.dest = SubSeq(s, 1, Cut(s, n))

(* A prefix and the character after it.                                     *)
LEMMA Prefix ==
  ASSUME NEW s \in String, NEW k \in 1 .. Len(s)
  PROVE  /\ SubSeq(s, 1, k) \in Seq(Int) /\ s[k] \in Int
         /\ k # Len(s) => SubSeq(s, 1, k + 1) = Append(SubSeq(s, 1, k), s[k + 1])
<1>1. s \in Seq(Int) /\ Len(s) \in Nat BY StringType
<1>2. ASSUME NEW m \in 1 .. Len(s)
      PROVE  SubSeq(s, 1, m) \in Seq(Int) /\ s[m] \in Int
  <2>1. \A i \in 1 .. m : i \in 1 .. Len(s) BY <1>1
  <2>2. \A i \in 1 .. m : s[i] \in Int BY <1>1, <2>1, ElementOfSeq
  <2>3. 1 \in Int /\ m \in Int BY <1>1
  <2>4. m \in 1 .. m BY <1>1
  <2> QED BY <2>2, <2>3, <2>4, SubSeqProperties
<1>3. ASSUME k # Len(s) PROVE SubSeq(s, 1, k + 1) = Append(SubSeq(s, 1, k), s[k + 1])
  <2>1. k + 1 \in 1 .. Len(s) /\ 1 \in 1 .. Len(s) /\ k + 1 \in 1 .. Len(s) /\ k + 1 - 1 = k
    BY <1>1, <1>3
  <2> DEFINE k1 == k + 1
  <2>2. k1 \in 1 .. Len(s) /\ k1 - 1 = k BY <2>1
  <2> HIDE DEF k1
  <2>3. SubSeq(s, 1, k1) = SubSeq(s, 1, k1 - 1) \o <<s[k1]>>
    BY <1>1, <2>1, <2>2, SubSeqRecursiveSecond
  <2>4. Append(SubSeq(s, 1, k), s[k1]) = SubSeq(s, 1, k) \o <<s[k1]>>
    BY <1>2, <2>2, AppendIsConcat
  <2> QED BY <2>2, <2>3, <2>4 DEF k1
<1> QED BY <1>2, <1>3

(* The loop stores one character more, or has them all.                     *)
LEMMA LoadAdvances ==
  ASSUME NEW C, NEW t, NEW s, Stored(C, t, s),
         NEW n \in Nat \ {0}, NEW l, LoadedTo(C, t, s, n, l)
  PROVE  LoadedTo(C, t, s, n + 1, LoadStep(C, l))
<1>0. s \in String BY DEF Stored
<1> DEFINE k == Cut(s, n)
           next == NextChar(C, l.record)
<1>1. At(C, t, s, k, l.record) /\ l.dest = SubSeq(s, 1, k) BY DEF LoadedTo
<1>2. /\ k \in 1 .. Len(s)
      /\ HasNextChar(l.record) <=> k # Len(s)
      /\ k # Len(s) => At(C, t, s, k + 1, next)
  <2>1. Gives(C, t, s, k, l.record) BY <1>1, Reads
  <2> HIDE DEF k, next
  <2>2. Gives(C, t, s, k, l.record) => /\ k \in 1 .. Len(s)
                                       /\ HasNextChar(l.record) <=> k # Len(s)
                                       /\ k # Len(s) => At(C, t, s, k + 1, next)
    BY Zenon DEF Gives, next
  <2> QED BY Zenon, <2>1, <2>2 DEF k
<1>3. CASE k = Len(s)
  <2>1. Cut(s, n + 1) = k BY <1>3, <1>0, StringType DEF Cut
  <2>2. LoadStep(C, l) = l BY <1>2, <1>3 DEF LoadStep
  <2> QED BY <2>1, <2>2 DEF LoadedTo
<1>4. CASE k # Len(s)
  <2>1. Cut(s, n + 1) = k + 1 BY <1>4, <1>0, StringType DEF Cut
  <2>2. At(C, t, s, k + 1, next) BY <1>2, <1>4
  <2> DEFINE k1 == k + 1
  <2>3. At(C, t, s, k1, next) BY <2>2
  <2> HIDE DEF k1, k
  <2>4. Char(next) = s[k1] /\ next \in Records(C) /\ k1 \in 1 .. Len(s)
    <3>1. Gives(C, t, s, k1, next) BY <2>3, Reads
    <3> HIDE DEF next
    <3> QED BY <3>1 DEF Gives
  <2>5. LoadStep(C, l) = [record |-> next, dest |-> Append(SubSeq(s, 1, k), s[k1])]
    BY <1>1, <1>2, <1>4, <2>4 DEF LoadStep
  <2>6. SubSeq(s, 1, k1) = Append(SubSeq(s, 1, k), s[k1]) BY <1>2, <1>4, <1>0, Prefix DEF k1
  <2>7. SubSeq(s, 1, k1) \in Seq(Int) BY <2>4, <1>0, Prefix
  <2>8. Cut(s, n + 1) = k1 BY <2>1 DEF k1
  <2>9. LoadStep(C, l) = [record |-> next, dest |-> SubSeq(s, 1, k1)] BY <2>5, <2>6
  <2> QED BY <2>3, <2>4, <2>7, <2>8, <2>9 DEF LoadedTo
<1> QED BY <1>3, <1>4

(* load_string gives the string back, cut to the characters asked for.      *)
LEMMA LoadsBack ==
  ASSUME NEW C, NEW t, NEW s, Stored(C, t, s),
         NEW max \in Nat \ {0}
  PROVE  LoadString(C, ReadString(C, t[1]), max) = SubSeq(s, 1, Cut(s, max))
<1>0. s \in String BY DEF Stored
<1> DEFINE first == [ReadString(C, t[1]) EXCEPT !.idx = 0]
           start == [record |-> first, dest |-> <<Char(first)>>]
           S == {l \in [record : Records(C), dest : Seq(Int)] :
                    \E n \in Nat \ {0} : LoadedTo(C, t, s, n, l)}
           step == [l \in S |-> LoadStep(C, l)]
           F == CHOOSE f : f = [n \in 1 .. max |-> IF n = 1 THEN start ELSE LoadStep(C, f[n - 1])]
<1>1. LoadedTo(C, t, s, 1, start)
  <2>1. At(C, t, s, 1, first) BY AtStart
  <2> HIDE DEF first
  <2> DEFINE o == 1
  <2>2. At(C, t, s, o, first) BY <2>1
  <2> HIDE DEF o
  <2>3. o \in 1 .. Len(s) /\ Char(first) = s[o] /\ first \in Records(C)
    BY <2>2, Reads DEF Gives
  <2>4. Cut(s, 1) = 1
    <3>1. Len(s) \in Nat /\ Len(s) # 0 BY <1>0, StringType
    <3>2. ASSUME NEW m \in Nat, m # 0, ~(1 < m) PROVE m = 1 BY <3>2
    <3>3. ~(1 < Len(s)) => Len(s) = 1 BY <3>1, <3>2
    <3> QED BY <3>3 DEF Cut
  <2>5. 1 \in 1 .. Len(s) /\ s \in Seq(Int) BY <1>0, StringType
  <2>6. SubSeq(s, 1, 1) = <<s[1]>> /\ s[1] \in Int
    <3>1. SubSeq(s, 1, 1) = <<s[1]>> \o SubSeq(s, 1 + 1, 1)
      <4>1. 1 \in 1 .. 1 /\ Len(s) \in Nat BY <1>0, StringType
      <4>2. 1 \in 1 .. Len(s) BY <2>5
      <4>3. ASSUME NEW a \in 1 .. Len(s), a \in a .. Len(s)
            PROVE  SubSeq(s, a, a) = <<s[a]>> \o SubSeq(s, a + 1, a)
        BY <2>5, <4>3, SubSeqRecursiveFirst
      <4>4. 1 \in 1 .. Len(s) BY <2>5
      <4> QED BY <4>3, <4>4
    <3>2. SubSeq(s, 1 + 1, 1) = <<>>
      <4>1. 1 + 1 \in Int /\ 1 \in Int /\ 1 < 1 + 1 OBVIOUS
      <4> QED BY <4>1, SubSeqEmpty
    <3>3. s[1] \in Int BY <2>5, ElementOfSeq
    <3>4. <<s[1]>> \o <<>> = <<s[1]>> BY <3>3, ConcatEmptySeq
    <3> QED BY <3>1, <3>2, <3>3, <3>4
  <2>7. start = [record |-> first, dest |-> SubSeq(s, 1, 1)] BY <2>3, <2>6 DEF o
  <2>8. SubSeq(s, 1, 1) \in Seq(Int) BY <2>6
  <2> QED BY <2>1, <2>3, <2>4, <2>7, <2>8 DEF LoadedTo
<1>2. start \in S
  <2>1. 1 \in Nat \ {0} /\ start \in [record : Records(C), dest : Seq(Int)] BY <1>1 DEF LoadedTo
  <2> HIDE DEF start
  <2> QED BY <1>1, <2>1
<1>3. step \in [S -> S]
  <2>1. ASSUME NEW l \in S PROVE LoadStep(C, l) \in S
    <3>1. PICK n \in Nat \ {0} : LoadedTo(C, t, s, n, l) OBVIOUS
    <3>2. LoadedTo(C, t, s, n + 1, LoadStep(C, l)) BY <3>1, LoadAdvances
    <3>3. n + 1 \in Nat \ {0} OBVIOUS
    <3>4. LoadStep(C, l) \in [record : Records(C), dest : Seq(Int)] BY <3>2 DEF LoadedTo
    <3> QED BY <3>2, <3>3, <3>4
  <2> QED BY <2>1
<1> HIDE DEF start, S
<1>4. PICK f \in [1 .. max -> S] : Iterates(max, start, step, f)
  <2> HIDE DEF step
  <2> QED BY <1>2, <1>3, SomethingIterates
<1>5. f = [n \in 1 .. max |-> IF n = 1 THEN start ELSE LoadStep(C, f[n - 1])]
  <2>1. \A n \in 1 .. max : n # 1 => n - 1 \in 1 .. max OBVIOUS
  <2>2. \A n \in 1 .. max : n # 1 => step[f[n - 1]] = LoadStep(C, f[n - 1]) BY <2>1
  <2>3. f = [n \in 1 .. max |-> IF n = 1 THEN start ELSE step[f[n - 1]]] BY <1>4 DEF Iterates
  <2> HIDE DEF step
  <2> QED BY <2>2, <2>3
<1>6. F = [n \in 1 .. max |-> IF n = 1 THEN start ELSE LoadStep(C, F[n - 1])] BY Zenon, <1>5
<1>7. LoadString(C, ReadString(C, t[1]), max) = F[max].dest
  BY DEF LoadString, LoadStep, start
<1> HIDE DEF F
<1>8. \A n \in 1 .. max : F[n] = IF n = 1 THEN start ELSE LoadStep(C, F[n - 1]) BY <1>6
<1> DEFINE T == {n \in Nat \ {0} : LoadedTo(C, t, s, n, F[n])}
<1>9. 1 \in T BY <1>1, <1>8
<1>10. ASSUME NEW n \in 1 .. max, n # 1, n - 1 \in T PROVE n \in T
  <2>1. LoadedTo(C, t, s, (n - 1) + 1, LoadStep(C, F[n - 1])) BY <1>10, LoadAdvances
  <2>2. (n - 1) + 1 = n /\ n \in Nat \ {0} OBVIOUS
  <2> QED BY <1>8, <1>10, <2>1, <2>2
<1>11. max \in T
  <2> HIDE DEF T
  <2>1. \A n \in 1 .. max : n \in T BY <1>9, <1>10, UpTo
  <2> QED BY <2>1
<1>12. LoadedTo(C, t, s, max, F[max]) BY <1>11
<1> QED BY <1>7, <1>12 DEF LoadedTo

-----------------------------------------------------------------------------
(* Comparing two strings.                                                   *)

Agree(s, v, n) == \A i \in 1 .. n : s[i] = v[i]

(* Two strings are ordered by the first character that differs,             *)
LEMMA OrderedByFirst ==
  ASSUME NEW s \in String, NEW v \in String, NEW n \in 1 .. Len(s), n \in 1 .. Len(v),
         Agree(s, v, n - 1), s[n] # v[n]
  PROVE  /\ s[n] > v[n] => Order(s, v) = 1
         /\ s[n] < v[n] => Order(s, v) = -1
<1> DEFINE differ == {i \in DOMAIN s \intersect DOMAIN v : s[i] # v[i]}
           m == CHOOSE i \in differ : \A j \in differ : i <= j
<1>1. /\ DOMAIN s = 1 .. Len(s) /\ DOMAIN v = 1 .. Len(v) /\ Len(s) \in Nat /\ Len(v) \in Nat
      /\ s[n] \in Int /\ v[n] \in Int
  <2>1. s \in Seq(Int) /\ v \in Seq(Int) BY StringType
  <2>2. s[n] \in Int /\ v[n] \in Int BY <2>1, ElementOfSeq
  <2> QED BY <2>1, <2>2, LenProperties
<1>2. n \in differ BY <1>1
<1>3. \A j \in differ : j \in Nat /\ n <= j
  <2> SUFFICES ASSUME NEW j \in differ PROVE j \in Nat /\ n <= j OBVIOUS
  <2>1. j \in 1 .. Len(s) /\ s[j] # v[j] BY <1>1
  <2>2. ~(j \in 1 .. n - 1) BY <2>1 DEF Agree
  <2>3. n \in Nat /\ Len(s) \in Nat BY <1>1
  <2> HIDE DEF differ
  <2> QED BY <2>1, <2>2, <2>3
<1>4. \A i \in differ : (\A j \in differ : i <= j) => i = n
  <2> HIDE DEF differ
  <2> QED BY <1>1, <1>2, <1>3
<1>5. m = n
  <2> HIDE DEF differ
  <2>1. m \in differ /\ \A j \in differ : m <= j BY <1>2, <1>3
  <2> HIDE DEF m
  <2> QED BY <1>4, <2>1
<1>6. Order(s, v) = IF s[m] > v[m] THEN 1 ELSE IF s[m] < v[m] THEN -1 ELSE 0
  BY <1>2 DEF Order
<1> HIDE DEF m
<1>7. /\ s[n] > v[n] => Order(s, v) = 1
      /\ s[n] < v[n] => ~(s[n] > v[n]) BY <1>1, <1>5, <1>6
<1> QED BY <1>5, <1>6, <1>7

(* and by their lengths when there is none.                                 *)
LEMMA OrderedByLength ==
  ASSUME NEW s \in String, NEW v \in String, NEW n \in Nat,
         n <= Len(s), n <= Len(v), n = Len(s) \/ n = Len(v), Agree(s, v, n)
  PROVE  Order(s, v) = IF n # Len(s) THEN 1 ELSE IF n # Len(v) THEN -1 ELSE 0
<1> DEFINE differ == {i \in DOMAIN s \intersect DOMAIN v : s[i] # v[i]}
<1>1. DOMAIN s = 1 .. Len(s) /\ DOMAIN v = 1 .. Len(v) /\ Len(s) \in Nat /\ Len(v) \in Nat
  BY StringType
<1>2. differ = {}
  <2> SUFFICES ASSUME NEW i \in differ PROVE FALSE BY Zenon
  <2>1. i \in 1 .. Len(s) /\ i \in 1 .. Len(v) /\ s[i] # v[i] BY <1>1
  <2>2. i \in 1 .. n BY <1>1, <2>1, Zenon
  <2> QED BY <2>1, <2>2 DEF Agree
<1>3. Order(s, v) = IF Len(s) > Len(v) THEN 1 ELSE IF Len(s) < Len(v) THEN -1 ELSE 0
  BY <1>2, Zenon DEF Order
<1> DEFINE l == Len(s)
           r == Len(v)
<1>4. /\ l \in Nat /\ r \in Nat /\ n <= l /\ n <= r /\ (n = l \/ n = r)
      /\ Order(s, v) = IF l > r THEN 1 ELSE IF l < r THEN -1 ELSE 0
  BY <1>1, <1>3, Zenon
<1> HIDE DEF l, r
<1>5. Order(s, v) = IF n # l THEN 1 ELSE IF n # r THEN -1 ELSE 0 BY <1>4
<1> QED BY <1>5 DEF l, r

(* The loop of compare_string_record, and where it is after n characters.   *)
Judged(ra, rb) ==
    [a |-> ra, b |-> rb,
     result |-> IF Char(ra) > Char(rb) THEN 1 ELSE IF Char(ra) < Char(rb) THEN -1 ELSE Undecided]

CompareStep(C, c) ==
    CASE c.result # Undecided -> c
      [] c.result = Undecided /\ HasNextChar(c.a) /\ HasNextChar(c.b) ->
             Judged(NextChar(C, c.a), NextChar(C, c.b))
      [] OTHER -> [c EXCEPT !.result = IF HasNextChar(c.a) THEN 1
                                       ELSE IF HasNextChar(c.b) THEN -1 ELSE 0]

Comparisons(C) ==
    [a : Records(C), b : Records(C), result : {1, -1, 0, Undecided}]

Compared(C, t, s, u, v, n, c) ==
    /\ c \in Comparisons(C)
    /\ c.result # Undecided => c.result = Order(s, v)
    /\ c.result = Undecided => /\ n \in 1 .. Len(s) /\ n \in 1 .. Len(v) /\ Agree(s, v, n)
                               /\ At(C, t, s, n, c.a) /\ At(C, u, v, n, c.b)

(* One character of each.                                                   *)
LEMMA Judges ==
  ASSUME NEW C, NEW t, NEW s, Stored(C, t, s), NEW u, NEW v, Stored(C, u, v),
         NEW n, NEW ra, NEW rb, At(C, t, s, n, ra), At(C, u, v, n, rb), Agree(s, v, n - 1)
  PROVE  Compared(C, t, s, u, v, n, Judged(ra, rb))
<1> DEFINE c == Judged(ra, rb)
<1>0. s \in String /\ v \in String BY DEF Stored
<1>1. Gives(C, t, s, n, ra) BY Reads
<1>2. Gives(C, u, v, n, rb) BY Reads
<1>3. /\ n \in 1 .. Len(s) /\ Char(ra) = s[n] /\ ra \in Records(C)
      /\ n \in 1 .. Len(v) /\ Char(rb) = v[n] /\ rb \in Records(C)
  BY <1>1, <1>2 DEF Gives
<1>4. s[n] \in Int /\ v[n] \in Int /\ n \in Nat
  <2>1. s \in Seq(Int) /\ v \in Seq(Int) BY <1>0, StringType
  <2> QED BY <1>3, <2>1, ElementOfSeq, LenProperties
<1>5. /\ c.a = ra /\ c.b = rb
      /\ c.result = IF s[n] > v[n] THEN 1 ELSE IF s[n] < v[n] THEN -1 ELSE Undecided
      /\ c \in Comparisons(C)
  BY <1>3 DEF Judged, Comparisons
<1> HIDE DEF c
<1>6. CASE s[n] = v[n]
  <2>1. c.result = Undecided
    <3>1. ~(s[n] > v[n]) /\ ~(s[n] < v[n]) BY <1>4, <1>6
    <3> QED BY <1>5, <3>1
  <2>2. Agree(s, v, n)
    <3> SUFFICES ASSUME NEW i \in 1 .. n PROVE s[i] = v[i] BY DEF Agree
    <3>1. i \in 1 .. n - 1 \/ i = n BY <1>4
    <3> QED BY <1>6, <3>1 DEF Agree
  <2>3. Compared(C, t, s, u, v, n, c) BY <1>3, <1>5, <2>1, <2>2 DEF Compared
  <2> QED BY <2>3 DEF c
<1>7. CASE s[n] # v[n]
  <2>1. /\ s[n] > v[n] => Order(s, v) = 1
        /\ s[n] < v[n] => Order(s, v) = -1
    BY <1>0, <1>3, <1>7, OrderedByFirst
  <2>2. s[n] > v[n] \/ s[n] < v[n] BY <1>4, <1>7
  <2>3. c.result = Order(s, v) /\ c.result # Undecided
    <3>1. CASE s[n] > v[n] BY <1>5, <2>1, <3>1 DEF Undecided
    <3>2. CASE ~(s[n] > v[n]) /\ s[n] < v[n] BY <1>5, <2>1, <3>2 DEF Undecided
    <3> QED BY <2>2, <3>1, <3>2
  <2>4. Compared(C, t, s, u, v, n, c) BY <1>5, <2>3 DEF Compared
  <2> QED BY <2>4 DEF c
<1> QED BY <1>6, <1>7

(* The loop compares one character more, or has decided.                    *)
LEMMA CompareAdvances ==
  ASSUME NEW C, NEW t, NEW s, Stored(C, t, s), NEW u, NEW v, Stored(C, u, v),
         NEW n \in Nat \ {0}, NEW c, Compared(C, t, s, u, v, n, c)
  PROVE  Compared(C, t, s, u, v, n + 1, CompareStep(C, c))
<1>0. s \in String /\ v \in String /\ c \in Comparisons(C) BY DEF Stored, Compared
<1>1. CASE c.result # Undecided
  <2>1. CompareStep(C, c) = c BY <1>1 DEF CompareStep
  <2> QED BY <1>1, <2>1 DEF Compared
<1>2. CASE c.result = Undecided
  <2>1. /\ n \in 1 .. Len(s) /\ n \in 1 .. Len(v) /\ Agree(s, v, n)
        /\ At(C, t, s, n, c.a) /\ At(C, u, v, n, c.b)
    BY <1>2 DEF Compared
  <2>2. /\ HasNextChar(c.a) <=> n # Len(s)
        /\ n # Len(s) => At(C, t, s, n + 1, NextChar(C, c.a))
    <3>1. Gives(C, t, s, n, c.a) BY <2>1, Reads
    <3> QED BY Zenon, <3>1 DEF Gives
  <2>3. /\ HasNextChar(c.b) <=> n # Len(v)
        /\ n # Len(v) => At(C, u, v, n + 1, NextChar(C, c.b))
    <3>1. Gives(C, u, v, n, c.b) BY <2>1, Reads
    <3> QED BY Zenon, <3>1 DEF Gives
  <2>4. CASE n # Len(s) /\ n # Len(v)
    <3>1. CompareStep(C, c) = Judged(NextChar(C, c.a), NextChar(C, c.b))
      BY <1>2, <2>2, <2>3, <2>4 DEF CompareStep
    <3> DEFINE n1 == n + 1
               ra == NextChar(C, c.a)
               rb == NextChar(C, c.b)
    <3>2. /\ At(C, t, s, n1, ra) /\ At(C, u, v, n1, rb) /\ Agree(s, v, n1 - 1)
      <4>1. n1 - 1 = n OBVIOUS
      <4> QED BY <2>1, <2>2, <2>3, <2>4, <4>1
    <3> HIDE DEF n1, ra, rb
    <3>3. Compared(C, t, s, u, v, n1, Judged(ra, rb)) BY <3>2, Judges
    <3> QED BY <3>1, <3>3 DEF n1, ra, rb
  <2>5. CASE n = Len(s) \/ n = Len(v)
    <3> DEFINE r == IF HasNextChar(c.a) THEN 1 ELSE IF HasNextChar(c.b) THEN -1 ELSE 0
    <3>1. CompareStep(C, c) = [c EXCEPT !.result = r]
      BY <1>2, <2>2, <2>3, <2>5 DEF CompareStep
    <3>2. r = Order(s, v)
      <4>1. n <= Len(s) /\ n <= Len(v)
        <5>1. Len(s) \in Nat /\ Len(v) \in Nat BY <1>0, StringType
        <5> QED BY <2>1, <5>1
      <4>2. Order(s, v) = IF n # Len(s) THEN 1 ELSE IF n # Len(v) THEN -1 ELSE 0
        BY <1>0, <2>1, <2>5, <4>1, OrderedByLength
      <4> QED BY <2>2, <2>3, <4>2
    <3>3. r \in {1, -1, 0} /\ r # Undecided BY DEF Undecided
    <3> HIDE DEF r
    <3>4. [c EXCEPT !.result = r] \in Comparisons(C) /\ [c EXCEPT !.result = r].result = r
      BY <1>0, <3>3 DEF Comparisons
    <3> QED BY <3>1, <3>2, <3>3, <3>4 DEF Compared
  <2> QED BY <2>4, <2>5
<1> QED BY <1>1, <1>2

(* compare_string_record orders two stored strings lexicographically.       *)
LEMMA ComparesTo ==
  ASSUME NEW C, NEW t, NEW s, Stored(C, t, s), NEW u, NEW v, Stored(C, u, v),
         NEW bound \in Nat, bound > Len(s)
  PROVE  CompareStringRecord(C, ReadString(C, t[1]), ReadString(C, u[1]), bound) = Order(s, v)
<1> DEFINE ra == [ReadString(C, t[1]) EXCEPT !.idx = 0]
           rb == [ReadString(C, u[1]) EXCEPT !.idx = 0]
           start == Judged(ra, rb)
           S == {c \in Comparisons(C) : \E n \in Nat \ {0} : Compared(C, t, s, u, v, n, c)}
           step == [c \in S |-> CompareStep(C, c)]
           F == CHOOSE f : f = [n \in 1 .. bound |->
                                   IF n = 1 THEN start ELSE CompareStep(C, f[n - 1])]
<1>0. Len(s) \in Nat BY StringType DEF Stored
<1>1. Compared(C, t, s, u, v, 1, start)
  <2> DEFINE o == 1
  <2>1. At(C, t, s, o, ra) /\ At(C, u, v, o, rb) BY AtStart
  <2>2. Agree(s, v, o - 1) BY DEF Agree
  <2> HIDE DEF o, ra, rb
  <2>3. Compared(C, t, s, u, v, o, start) BY <2>1, <2>2, Judges
  <2> QED BY <2>3 DEF o
<1>2. start \in S
  <2>1. 1 \in Nat \ {0} /\ start \in Comparisons(C) BY <1>1 DEF Compared
  <2> HIDE DEF start
  <2> QED BY <1>1, <2>1
<1>3. step \in [S -> S]
  <2>1. ASSUME NEW c \in S PROVE CompareStep(C, c) \in S
    <3>1. PICK n \in Nat \ {0} : Compared(C, t, s, u, v, n, c) OBVIOUS
    <3>2. Compared(C, t, s, u, v, n + 1, CompareStep(C, c)) BY <3>1, CompareAdvances
    <3>3. n + 1 \in Nat \ {0} OBVIOUS
    <3>4. CompareStep(C, c) \in Comparisons(C) BY <3>2 DEF Compared
    <3> QED BY <3>2, <3>3, <3>4
  <2> QED BY <2>1
<1> HIDE DEF start, S
<1>4. PICK f \in [1 .. bound -> S] : Iterates(bound, start, step, f)
  <2> HIDE DEF step
  <2> QED BY <1>2, <1>3, SomethingIterates
<1>5. f = [n \in 1 .. bound |-> IF n = 1 THEN start ELSE CompareStep(C, f[n - 1])]
  <2>1. \A n \in 1 .. bound : n # 1 => n - 1 \in 1 .. bound OBVIOUS
  <2>2. \A n \in 1 .. bound : n # 1 => step[f[n - 1]] = CompareStep(C, f[n - 1]) BY <2>1
  <2>3. f = [n \in 1 .. bound |-> IF n = 1 THEN start ELSE step[f[n - 1]]]
    BY <1>4 DEF Iterates
  <2> HIDE DEF step
  <2> QED BY <2>2, <2>3
<1>6. F = [n \in 1 .. bound |-> IF n = 1 THEN start ELSE CompareStep(C, F[n - 1])]
  BY Zenon, <1>5
<1>7. CompareStringRecord(C, ReadString(C, t[1]), ReadString(C, u[1]), bound) = F[bound].result
  BY DEF CompareStringRecord, CompareStep, Judged, start
<1> HIDE DEF F
<1>8. \A n \in 1 .. bound : F[n] = IF n = 1 THEN start ELSE CompareStep(C, F[n - 1])
  BY <1>6
<1> DEFINE T == {n \in Nat \ {0} : Compared(C, t, s, u, v, n, F[n])}
<1>9. 1 \in 1 .. bound /\ bound \in 1 .. bound BY <1>0
<1>10. 1 \in T BY <1>1, <1>8, <1>9
<1>11. ASSUME NEW n \in 1 .. bound, n # 1, n - 1 \in T PROVE n \in T
  <2>1. Compared(C, t, s, u, v, (n - 1) + 1, CompareStep(C, F[n - 1]))
    BY <1>11, CompareAdvances
  <2>2. (n - 1) + 1 = n /\ n \in Nat \ {0} OBVIOUS
  <2> QED BY <1>8, <1>11, <2>1, <2>2
<1>12. bound \in T
  <2> HIDE DEF T
  <2>1. \A n \in 1 .. bound : n \in T BY <1>10, <1>11, UpTo
  <2> QED BY <1>9, <2>1
<1>13. Compared(C, t, s, u, v, bound, F[bound]) BY <1>12
<1>14. ~(bound \in 1 .. Len(s)) BY <1>0
<1> QED BY <1>7, <1>13, <1>14 DEF Compared

-----------------------------------------------------------------------------
(* Following a string's chunks.                                             *)

(* The first n chunks of the trail t of s, and its end when n goes past it. *)
Reached(t, s, n) ==
    {t[i] : i \in {k \in 1 .. Chunks(s) : k <= n}}
        \union (IF n > Chunks(s) THEN {NoRid} ELSE {})

(* One link further.                                                        *)
ReachStep(C, R) == R \union {C[q].next : q \in R \ {NoRid}}

LEMMA ReachAdvances ==
  ASSUME NEW C, NEW t, NEW s, Stored(C, t, s), NEW n \in Nat \ {0}
  PROVE  ReachStep(C, Reached(t, s, n)) = Reached(t, s, n + 1)
<1> DEFINE N == Chunks(s)
           In(k) == {t[i] : i \in {j \in 1 .. N : j <= k}}
           R == Reached(t, s, n)
<1>1. N \in Nat \ {0} BY ChunkCount DEF Stored
<1>2. \A i \in 1 .. N : /\ t[i] # NoRid /\ C[t[i]].next = IF i = N THEN NoRid ELSE t[i + 1]
                        /\ i # N => t[i + 1] # NoRid
  BY LaidChunk
<1>3. R = In(n) \union (IF n > N THEN {NoRid} ELSE {}) BY DEF Reached
<1>4. Reached(t, s, n + 1) = In(n + 1) \union (IF n + 1 > N THEN {NoRid} ELSE {})
  BY DEF Reached
<1>5. \A q : q \in In(n) <=> \E i \in 1 .. N : i <= n /\ q = t[i] OBVIOUS
<1>6. \A q : q \in In(n + 1) <=> \E i \in 1 .. N : i <= n + 1 /\ q = t[i] OBVIOUS
<1> HIDE DEF N, R
<1>7. R \ {NoRid} = In(n) BY <1>2, <1>3, <1>5
<1> HIDE DEF In
<1>8. ASSUME NEW q \in ReachStep(C, R) PROVE q \in Reached(t, s, n + 1)
  <2>1. CASE q \in In(n)
    <3>1. PICK i \in 1 .. N : i <= n /\ q = t[i] BY <1>5, <2>1
    <3>2. i <= n + 1 BY <1>1, <3>1
    <3>3. q \in In(n + 1) BY <1>6, <3>1, <3>2
    <3> QED BY <1>4, <3>3
  <2>2. CASE q \in R /\ q \notin In(n)
    <3>1. n > N /\ q = NoRid BY <1>3, <2>2
    <3>2. n + 1 > N BY <1>1, <3>1
    <3> QED BY <1>4, <3>1, <3>2
  <2>3. CASE q \notin R
    <3>1. PICK r \in In(n) : q = C[r].next BY <1>7, <2>3 DEF ReachStep
    <3>2. PICK i \in 1 .. N : i <= n /\ r = t[i] BY <1>5, <3>1
    <3>3. CASE i = N
      <4>1. q = NoRid /\ n + 1 > N BY <1>1, <1>2, <3>1, <3>2, <3>3
      <4> QED BY <1>4, <4>1
    <3>4. CASE i # N
      <4>1. i + 1 \in 1 .. N /\ i + 1 <= n + 1 /\ q = t[i + 1]
        BY <1>1, <1>2, <3>1, <3>2, <3>4
      <4>2. q \in In(n + 1) BY <1>6, <4>1
      <4> QED BY <1>4, <4>2
    <3> QED BY <3>3, <3>4
  <2> QED BY <2>1, <2>2, <2>3
<1>9. ASSUME NEW q \in Reached(t, s, n + 1) PROVE q \in ReachStep(C, R)
  <2>1. ASSUME NEW i \in 1 .. N, i <= n, q = C[t[i]].next PROVE q \in ReachStep(C, R)
    <3>1. t[i] \in R \ {NoRid} BY <1>5, <1>7, <2>1
    <3> QED BY <2>1, <3>1 DEF ReachStep
  <2>2. CASE q \in In(n + 1)
    <3>1. PICK i \in 1 .. N : i <= n + 1 /\ q = t[i] BY <1>6, <2>2
    <3>2. CASE i <= n
      <4>1. q \in R \ {NoRid} BY <1>5, <1>7, <3>1, <3>2
      <4> QED BY <4>1 DEF ReachStep
    <3>3. CASE i = n + 1
      <4>1. n \in 1 .. N /\ n # N BY <1>1, <3>3
      <4>2. q = C[t[n]].next BY <1>2, <3>1, <3>3, <4>1
      <4>3. n <= n OBVIOUS
      <4> QED BY <2>1, <4>1, <4>2, <4>3
    <3> QED BY <1>1, <3>1, <3>2, <3>3
  <2>3. CASE q \notin In(n + 1)
    <3>1. n + 1 > N /\ q = NoRid BY <1>4, <2>3
    <3>2. N \in 1 .. N /\ N <= n BY <1>1, <3>1
    <3>3. q = C[t[N]].next BY <1>2, <3>1, <3>2
    <3> QED BY <2>1, <3>2, <3>3
  <2> QED BY <2>2, <2>3
<1>10. ReachStep(C, R) = Reached(t, s, n + 1) BY <1>8, <1>9
<1> QED BY <1>10 DEF R

(* A table has at least the chunks of one of its strings.                   *)
LEMMA ChunksFit ==
  ASSUME NEW C, NEW t, NEW s, Stored(C, t, s), IsFiniteSet(DOMAIN C)
  PROVE  Cardinality(DOMAIN C) \in Nat /\ Chunks(s) <= Cardinality(DOMAIN C)
<1> DEFINE N == Chunks(s)
<1>1. N \in Nat \ {0} BY ChunkCount DEF Stored
<1>2. t \in [1 .. N -> DOMAIN C] /\ \A i, k \in 1 .. N : t[i] = t[k] => i = k
  BY DEF Stored, Laid
<1> HIDE DEF N
<1>3. t \in Injection(1 .. N, DOMAIN C) BY <1>2 DEF Injection, IsInjective
<1>4. Cardinality(1 .. N) <= Cardinality(DOMAIN C) BY <1>3, FS_Injection
<1>5. Cardinality(1 .. N) = N
  <2>1. ASSUME NEW a \in Int, NEW b \in Int PROVE Cardinality(a .. b) = IF a > b THEN 0 ELSE b - a + 1
    BY FS_Interval
  <2>2. Cardinality(1 .. N) = IF 1 > N THEN 0 ELSE N - 1 + 1 BY <1>1, <2>1
  <2> QED BY <1>1, <2>2
<1>6. Cardinality(DOMAIN C) \in Nat BY FS_CardinalityType
<1> QED BY <1>4, <1>5, <1>6 DEF N

(* delete_string follows and deletes exactly the string's chunks.           *)
LEMMA ChainIs ==
  ASSUME NEW C, NEW t, NEW s, Stored(C, t, s), IsFiniteSet(DOMAIN C)
  PROVE  ChainFrom(C, t[1]) = {t[i] : i \in 1 .. Chunks(s)}
<1> DEFINE K == Cardinality(DOMAIN C)
           N == Chunks(s)
           S == {Reached(t, s, n) : n \in Nat \ {0}}
           step == [R \in S |-> ReachStep(C, R)]
           F == CHOOSE f : f = [n \in 1 .. K |-> IF n = 1 THEN {t[1]} ELSE ReachStep(C, f[n - 1])]
<1>1. K \in Nat /\ N <= K /\ N \in Nat \ {0} BY ChunksFit, ChunkCount DEF Stored
<1>2. {t[1]} = Reached(t, s, 1)
  <2> HIDE DEF N
  <2>1. Reached(t, s, 1) = {t[i] : i \in {k \in 1 .. N : k <= 1}} \union (IF 1 > N THEN {NoRid} ELSE {})
    BY DEF Reached, N
  <2>2. {k \in 1 .. N : k <= 1} = {1} /\ ~(1 > N) BY <1>1
  <2> QED BY <2>1, <2>2
<1>3. {t[1]} \in S BY <1>2
<1>4. step \in [S -> S]
  <2>1. ASSUME NEW R \in S PROVE ReachStep(C, R) \in S
    <3>1. PICK n \in Nat \ {0} : R = Reached(t, s, n) OBVIOUS
    <3>2. ReachStep(C, R) = Reached(t, s, n + 1) BY <3>1, ReachAdvances
    <3>3. n + 1 \in Nat \ {0} OBVIOUS
    <3> QED BY <3>2, <3>3
  <2> QED BY <2>1
<1> HIDE DEF S, K
<1>5. PICK f \in [1 .. K -> S] : Iterates(K, {t[1]}, step, f)
  <2> HIDE DEF step
  <2> QED BY <1>1, <1>3, <1>4, SomethingIterates
<1>6. f = [n \in 1 .. K |-> IF n = 1 THEN {t[1]} ELSE ReachStep(C, f[n - 1])]
  <2>1. \A n \in 1 .. K : n # 1 => n - 1 \in 1 .. K BY <1>1
  <2>2. \A n \in 1 .. K : n # 1 => step[f[n - 1]] = ReachStep(C, f[n - 1]) BY <2>1
  <2>3. f = [n \in 1 .. K |-> IF n = 1 THEN {t[1]} ELSE step[f[n - 1]]] BY <1>5 DEF Iterates
  <2> HIDE DEF step
  <2> QED BY <2>2, <2>3
<1>7. F = [n \in 1 .. K |-> IF n = 1 THEN {t[1]} ELSE ReachStep(C, F[n - 1])] BY Zenon, <1>6
<1>8. ChainFrom(C, t[1]) = F[K] \ {NoRid} BY DEF ChainFrom, ReachStep, K
<1> HIDE DEF F
<1>9. \A n \in 1 .. K : F[n] = IF n = 1 THEN {t[1]} ELSE ReachStep(C, F[n - 1]) BY <1>7
<1> DEFINE T == {n \in Nat \ {0} : F[n] = Reached(t, s, n)}
<1>10. 1 \in 1 .. K /\ K \in 1 .. K BY <1>1
<1>11. 1 \in T BY <1>2, <1>9, <1>10
<1>12. ASSUME NEW n \in 1 .. K, n # 1, n - 1 \in T PROVE n \in T
  <2>1. ReachStep(C, Reached(t, s, n - 1)) = Reached(t, s, (n - 1) + 1) BY <1>12, ReachAdvances
  <2>2. (n - 1) + 1 = n /\ n \in Nat \ {0} BY <1>1
  <2> QED BY <1>9, <1>12, <2>1, <2>2
<1>13. K \in T
  <2> HIDE DEF T
  <2>1. \A n \in 1 .. K : n \in T BY <1>1, <1>11, <1>12, UpTo
  <2> QED BY <1>10, <2>1
<1>14. F[K] = Reached(t, s, K) BY <1>13
<1>15. Reached(t, s, K) \ {NoRid} = {t[i] : i \in 1 .. N}
  <2>1. \A i \in 1 .. N : t[i] # NoRid BY LaidChunk
  <2>2. Reached(t, s, K) = {t[i] : i \in {k \in 1 .. N : k <= K}} \union (IF K > N THEN {NoRid} ELSE {})
    BY DEF Reached
  <2> HIDE DEF N
  <2>3. {k \in 1 .. N : k <= K} = 1 .. N BY <1>1
  <2> QED BY <2>1, <2>2, <2>3
<1> QED BY <1>8, <1>14, <1>15

(* Trail finds where a string is.                                           *)
LEMMA TrailIs ==
  ASSUME NEW C, NEW t, NEW s, Stored(C, t, s)
  PROVE  Trail(C, t[1], Chunks(s)) = t
<1> DEFINE N == Chunks(s)
           F == CHOOSE f : f = [i \in 1 .. N |-> IF i = 1 THEN t[1] ELSE C[f[i - 1]].next]
<1>1. N \in Nat \ {0} BY ChunkCount DEF Stored
<1>2. t \in [1 .. N -> DOMAIN C] BY DEF Stored, Laid
<1>3. \A i \in 1 .. N : C[t[i]].next = IF i = N THEN NoRid ELSE t[i + 1] BY LaidChunk
<1>4. Trail(C, t[1], N) = F BY DEF Trail
<1> HIDE DEF N
<1>5. \A i \in 1 .. N : i # 1 => i - 1 \in 1 .. N /\ i - 1 # N /\ (i - 1) + 1 = i BY <1>1
<1>6. \A i \in 1 .. N : i # 1 => C[t[i - 1]].next = t[i] BY <1>3, <1>5
<1>7. t = [i \in 1 .. N |-> IF i = 1 THEN t[1] ELSE C[t[i - 1]].next] BY <1>2, <1>6
<1>8. F = [i \in 1 .. N |-> IF i = 1 THEN t[1] ELSE C[F[i - 1]].next] BY Zenon, <1>7
<1> HIDE DEF F
<1>9. \A i \in 1 .. N : F[i] = IF i = 1 THEN t[1] ELSE C[F[i - 1]].next BY <1>8
<1> DEFINE T == {i \in Nat : F[i] = t[i]}
<1>10. 1 \in T
  <2>1. 1 \in 1 .. N BY <1>1
  <2> QED BY <1>9, <2>1
<1>11. ASSUME NEW i \in 1 .. N, i # 1, i - 1 \in T PROVE i \in T
  BY <1>1, <1>6, <1>9, <1>11
<1>12. \A i \in 1 .. N : F[i] = t[i]
  <2>1. \A i \in 1 .. N : i \in T
    <3> HIDE DEF T
    <3> QED BY <1>1, <1>10, <1>11, UpTo
  <2> QED BY <2>1
<1>13. F = t BY <1>2, <1>8, <1>12
<1> QED BY <1>4, <1>13 DEF N

-----------------------------------------------------------------------------
(* Cutting a string into chunks.                                            *)

(* How write_string rounds: the number of the last chunk, counted from 0,   *)
(* and its length.                                                          *)
LEMMA Rounding ==
  ASSUME NEW s \in String
  PROVE  LET max    == STR_CHUNK_MAX_LEN
             exact  == Len(s) % max = 0
             number == IF exact THEN Len(s) \div max - 1 ELSE Len(s) \div max
         IN  /\ Chunks(s) = number + 1 /\ number \in Nat
             /\ (IF exact THEN max ELSE Len(s) % max) = Len(Part(s, Chunks(s)))
             /\ Len(s) > max <=> Chunks(s) # 1
<1> DEFINE M == STR_CHUNK_MAX_LEN
           L == Len(s)
           q == L \div M
           r == L % M
           N == Chunks(s)
           tail == IF r = 0 THEN M ELSE r
           number == IF r = 0 THEN q - 1 ELSE q
<1>1. M \in Nat \ {0} /\ L \in Nat \ {0} BY StrAssumption, StringType
<1>2. q \in Nat /\ r \in 0 .. M - 1 /\ r = L - q * M
  <2> HIDE DEF M, L
  <2> QED BY <1>1, Division
<1>3. Off(q + 1) = q * M
  <2> HIDE DEF q
  <2>1. (q + 1) - 1 = q BY <1>2
  <2>2. Off(q + 1) = ((q + 1) - 1) * M BY Zenon DEF Off
  <2> QED BY Zenon, <2>1, <2>2
<1> DEFINE p == q * M
<1>4. p \in Nat BY <1>1, <1>2
<1>5. r = L - p /\ Off(q + 1) = p BY <1>2, <1>3
<1> HIDE DEF L, q, r, p
<1>6. ASSUME r # 0 PROVE N = number + 1 /\ number \in Nat /\ Len(s) - Off(N) = tail
  <2>1. q + 1 \in Nat \ {0} /\ p < L /\ L <= p + M BY <1>1, <1>2, <1>4, <1>5, <1>6
  <2>2. Off(q + 1) < Len(s) /\ Len(s) <= Off(q + 1) + STR_CHUNK_MAX_LEN BY <1>5, <2>1 DEF L
  <2>3. N = q + 1 BY <2>1, <2>2, OnlyCount
  <2>4. Len(s) - Off(N) = tail BY <1>5, <1>6, <2>3 DEF L
  <2> QED BY <1>2, <1>6, <2>3, <2>4
<1>7. ASSUME r = 0 PROVE N = number + 1 /\ number \in Nat /\ Len(s) - Off(N) = tail
  <2>1. q # 0
    <3> SUFFICES ASSUME q = 0 PROVE FALSE OBVIOUS
    <3>1. 0 * M = 0 BY <1>1
    <3>2. p = 0 BY <3>1 DEF p
    <3> QED BY <1>1, <1>5, <1>7, <3>2
  <2>2. q \in Nat \ {0} /\ Off(q) + M = p /\ Off(q) \in Nat
    <3>1. q \in Nat \ {0} BY <1>2, <2>1
    <3> QED BY <1>5, <3>1, Offsets
  <2>3. L = Off(q) + M BY <1>1, <1>4, <1>5, <1>7, <2>2
  <2>4. Off(q) < Len(s) /\ Len(s) <= Off(q) + STR_CHUNK_MAX_LEN BY <1>1, <2>2, <2>3 DEF L
  <2>5. N = q BY <2>2, <2>4, OnlyCount
  <2>6. Len(s) - Off(N) = tail BY <1>1, <1>7, <2>2, <2>3, <2>5 DEF L
  <2> QED BY <1>7, <2>2, <2>5, <2>6
<1>8. N = number + 1 /\ number \in Nat /\ Len(s) - Off(N) = tail BY <1>6, <1>7
<1>9. Len(Part(s, N)) = Len(s) - Off(N)
  <2>1. N \in 1 .. N BY ChunkCount
  <2> QED BY <2>1, PartOf
<1>10. Len(s) > M <=> N # 1
  <2>1. N \in Nat \ {0} /\ Off(N) < Len(s) /\ Len(s) <= Off(N) + M BY ChunkCount
  <2>2. Off(1) = 0 BY <2>1, Offsets
  <2>3. N # 1 => Off(1) + M <= Off(N) /\ Off(N) \in Nat
    <3>1. ASSUME NEW o \in Nat \ {0}, o = 1, N # o PROVE Off(o) + M <= Off(N) /\ Off(N) \in Nat
      <4>1. o < N BY <2>1, <3>1
      <4> HIDE DEF N
      <4> QED BY <2>1, <4>1, OffsetsGrow
    <3> QED BY <3>1
  <2> HIDE DEF N, M
  <2>4. ASSUME NEW l \in Nat, Off(N) < l, l <= Off(N) + M PROVE l > M <=> N # 1
    BY <1>1, <2>2, <2>3, <2>4
  <2>5. Len(s) \in Nat BY <1>1 DEF L
  <2> QED BY <2>1, <2>4, <2>5
<1> HIDE DEF N
<1>11. /\ N = number + 1 /\ number \in Nat /\ tail = Len(Part(s, N))
       /\ Len(s) > M <=> N # 1
  BY <1>8, <1>9, <1>10
<1> QED BY <1>11 DEF q, r, L, M, N

(* Three sequences one after the other.                                     *)
LEMMA Joined ==
  ASSUME NEW A, NEW x \in Seq(A), NEW y \in Seq(A), NEW z \in Seq(A)
  PROVE  /\ (x \o y) \o z \in Seq(A) /\ Len((x \o y) \o z) = Len(x) + Len(y) + Len(z)
         /\ \A i \in 1 .. Len(x) : ((x \o y) \o z)[i] = x[i]
         /\ \A i \in 1 .. Len(y) : ((x \o y) \o z)[Len(x) + i] = y[i]
         /\ \A i \in 1 .. Len(z) : ((x \o y) \o z)[Len(x) + Len(y) + i] = z[i]
<1> DEFINE w == x \o y
           a == Len(x)
           b == Len(y)
           c == Len(z)
<1>1. w \in Seq(A) /\ Len(w) = a + b BY ConcatProperties
<1>2. \A i \in 1 .. a + b : w[i] = IF i <= a THEN x[i] ELSE y[i - a] BY ConcatProperties
<1>3. a \in Nat /\ b \in Nat /\ c \in Nat BY LenProperties
<1> HIDE DEF w, a, b, c
<1>4. w \o z \in Seq(A) /\ Len(w \o z) = a + b + c BY <1>1, ConcatProperties DEF c
<1>5. \A i \in 1 .. (a + b) + c : (w \o z)[i] = IF i <= a + b THEN w[i] ELSE z[i - (a + b)]
  BY <1>1, ConcatProperties DEF c
<1>6. \A i \in 1 .. a : (w \o z)[i] = x[i]
  <2> SUFFICES ASSUME NEW i \in 1 .. a PROVE (w \o z)[i] = x[i] OBVIOUS
  <2>1. i \in 1 .. (a + b) + c /\ i <= a + b /\ i \in 1 .. a + b /\ i <= a BY <1>3
  <2> QED BY <1>2, <1>5, <2>1
<1>7. \A i \in 1 .. b : (w \o z)[a + i] = y[i]
  <2> SUFFICES ASSUME NEW i \in 1 .. b PROVE (w \o z)[a + i] = y[i] OBVIOUS
  <2>1. /\ a + i \in 1 .. (a + b) + c /\ a + i <= a + b /\ a + i \in 1 .. a + b
        /\ ~(a + i <= a) /\ (a + i) - a = i
    BY <1>3
  <2> QED BY <1>2, <1>5, <2>1
<1>8. \A i \in 1 .. c : (w \o z)[a + b + i] = z[i]
  <2> SUFFICES ASSUME NEW i \in 1 .. c PROVE (w \o z)[a + b + i] = z[i] OBVIOUS
  <2>1. /\ a + b + i \in 1 .. (a + b) + c /\ ~(a + b + i <= a + b)
        /\ (a + b + i) - (a + b) = i
    BY <1>3
  <2> QED BY <1>5, <2>1
<1> QED BY <1>4, <1>6, <1>7, <1>8 DEF a, b, c, w

(* write_string inserts the chunks of its string from the last to the first. *)
LEMMA PiecesAre ==
  ASSUME NEW s \in String
  PROVE  /\ Len(Pieces(s)) = Chunks(s)
         /\ \A k \in 1 .. Chunks(s) : Pieces(s)[k] = Part(s, Chunks(s) - k + 1)
<1> DEFINE M == STR_CHUNK_MAX_LEN
           N == Chunks(s)
           exact == Len(s) % M = 0
           number == IF exact THEN Len(s) \div M - 1 ELSE Len(s) \div M
           tail == IF exact THEN M ELSE Len(s) % M
           piece(k, len) == SubSeq(s, k * M + 1, k * M + len)
           x == <<piece(number, tail)>>
           y == IF number > 1 THEN [i \in 1 .. number - 1 |-> piece(number - i, M)] ELSE <<>>
           z == IF Len(s) > M THEN <<piece(0, M)>> ELSE <<>>
           A == Seq(Int)
<1>1. Pieces(s) = (x \o y) \o z BY DEF Pieces
<1>2. /\ N = number + 1 /\ number \in Nat /\ tail = Len(Part(s, N))
      /\ Len(s) > M <=> N # 1
  BY Rounding
<1>3. N \in Nat \ {0} BY ChunkCount
<1> HIDE DEF N, number, tail
<1>4. ASSUME NEW i \in 1 .. N
      PROVE  /\ Part(s, i) = piece(i - 1, Len(Part(s, i))) /\ Part(s, i) \in A
             /\ i # N => Len(Part(s, i)) = M
  BY <1>3, PartOf DEF Off, N
<1>5. x = <<Part(s, N)>>
  <2>1. N \in 1 .. N /\ N - 1 = number BY <1>2, <1>3
  <2>2. Part(s, N) = piece(N - 1, Len(Part(s, N))) BY <1>4, <2>1
  <2> QED BY <1>2, <2>1, <2>2
<1>6. x \in Seq(A) /\ Len(x) = 1 /\ x[1] = Part(s, N)
  <2>1. N \in 1 .. N BY <1>3
  <2>2. Part(s, N) \in A BY <1>4, <2>1
  <2> HIDE DEF x, A
  <2> QED BY <1>5, <2>2
<1>7. z = (IF N # 1 THEN <<Part(s, 1)>> ELSE <<>>)
  <2>1. CASE N # 1
    <3>1. 1 \in 1 .. N /\ 1 - 1 = 0 BY <1>3
    <3>2. Part(s, 1) = piece(0, Len(Part(s, 1))) /\ Len(Part(s, 1)) = M BY <1>4, <2>1, <3>1
    <3> QED BY <1>2, <2>1, <3>2
  <2>2. CASE N = 1 BY <1>2, <2>2
  <2> QED BY <2>1, <2>2
<1>8. z \in Seq(A) /\ Len(z) = (IF N # 1 THEN 1 ELSE 0) /\ (N # 1 => z[1] = Part(s, 1))
  <2>1. 1 \in 1 .. N BY <1>3
  <2>2. Part(s, 1) \in A BY <1>4, <2>1
  <2> HIDE DEF z, A
  <2>3. CASE N # 1 BY <1>7, <2>2, <2>3
  <2>4. CASE N = 1 BY <1>7, <2>4, EmptySeq
  <2> QED BY <2>3, <2>4
<1>9. /\ y \in Seq(A) /\ Len(y) = (IF N # 1 THEN N - 2 ELSE 0)
      /\ \A i \in 1 .. Len(y) : y[i] = Part(s, N - i)
  <2>1. CASE number > 1
    <3>1. N - 2 = number - 1 /\ N - 2 \in Nat /\ N # 1 BY <1>2, <2>1
    <3>2. ASSUME NEW i \in 1 .. N - 2 PROVE piece(number - i, M) = Part(s, N - i) /\ Part(s, N - i) \in A
      <4> DEFINE j == N - i
      <4>1. j \in 1 .. N /\ j # N /\ j - 1 = number - i BY <1>2, <1>3, <3>1
      <4> HIDE DEF j
      <4>2. Part(s, j) = piece(j - 1, Len(Part(s, j))) /\ Part(s, j) \in A /\ Len(Part(s, j)) = M
        BY <1>4, <4>1
      <4>3. Part(s, j) = piece(number - i, M) BY <4>1, <4>2
      <4> QED BY <4>2, <4>3 DEF j
    <3>3. y = [i \in 1 .. N - 2 |-> piece(number - i, M)] BY <2>1, <3>1
    <3> HIDE DEF y, piece, A
    <3>4. \A i \in 1 .. N - 2 : y[i] = Part(s, N - i) /\ y[i] \in A BY <3>2, <3>3
    <3>5. y \in [1 .. N - 2 -> A] BY <3>3, <3>4
    <3>6. y \in Seq(A) BY <3>1, <3>5, SeqDef
    <3>7. Len(y) = N - 2
      <4> DEFINE m == N - 2
      <4>1. m \in Nat /\ DOMAIN y = 1 .. m BY <3>1, <3>5
      <4> HIDE DEF m
      <4> QED BY <3>6, <4>1, LenProperties DEF m
    <3> QED BY <3>1, <3>4, <3>6, <3>7
  <2>2. CASE ~(number > 1)
    <3>1. y = <<>> BY <2>2
    <3>2. N = 1 \/ N = 2 BY <1>2, <2>2
    <3> HIDE DEF y
    <3>3. y \in Seq(A) /\ Len(y) = 0 BY <3>1, EmptySeq
    <3> QED BY <3>2, <3>3
  <2> QED BY <2>1, <2>2
<1> HIDE DEF x, y, z, A, piece
<1>10. /\ (x \o y) \o z \in Seq(A) /\ Len((x \o y) \o z) = Len(x) + Len(y) + Len(z)
       /\ \A i \in 1 .. Len(x) : ((x \o y) \o z)[i] = x[i]
       /\ \A i \in 1 .. Len(y) : ((x \o y) \o z)[Len(x) + i] = y[i]
       /\ \A i \in 1 .. Len(z) : ((x \o y) \o z)[Len(x) + Len(y) + i] = z[i]
  <2>1. x \in Seq(A) /\ y \in Seq(A) /\ z \in Seq(A) BY <1>6, <1>8, <1>9
  <2> QED BY <2>1, Joined
<1> DEFINE P == Pieces(s)
<1>11. /\ Len(P) = Len(x) + Len(y) + Len(z)
       /\ \A i \in 1 .. Len(x) : P[i] = x[i]
       /\ \A i \in 1 .. Len(y) : P[Len(x) + i] = y[i]
       /\ \A i \in 1 .. Len(z) : P[Len(x) + Len(y) + i] = z[i]
  BY Zenon, <1>1, <1>10
<1> HIDE DEF P
<1>12. CASE N = 1
  <2>1. Len(x) = 1 /\ Len(y) = 0 /\ Len(z) = 0 BY <1>6, <1>8, <1>9, <1>12
  <2>2. Len(P) = N BY <1>11, <1>12, <2>1
  <2>3. ASSUME NEW k \in 1 .. N PROVE P[k] = Part(s, N - k + 1)
    <3>1. k = 1 /\ N - k + 1 = N /\ k \in 1 .. Len(x) BY <1>12, <2>1
    <3> QED BY <1>6, <1>11, <3>1
  <2> QED BY <2>2, <2>3 DEF N, P
<1>13. CASE N # 1
  <2>1. Len(x) = 1 /\ Len(y) = N - 2 /\ Len(z) = 1 BY <1>6, <1>8, <1>9, <1>13
  <2>2. Len(P) = N BY <1>3, <1>11, <2>1
  <2>3. ASSUME NEW k \in 1 .. N PROVE P[k] = Part(s, N - k + 1)
    <3>1. CASE k = 1
      <4>1. N - k + 1 = N /\ k \in 1 .. Len(x) BY <1>3, <2>1, <3>1
      <4> QED BY <1>6, <1>11, <3>1, <4>1
    <3>2. CASE k = N
      <4>1. N - k + 1 = 1 /\ 1 \in 1 .. Len(z) /\ Len(x) + Len(y) + 1 = k BY <1>3, <2>1, <3>2
      <4> QED BY <1>8, <1>11, <1>13, <4>1
    <3>3. CASE k # 1 /\ k # N
      <4> DEFINE i == k - 1
      <4>1. i \in 1 .. Len(y) /\ Len(x) + i = k /\ N - i = N - k + 1 BY <1>3, <2>1, <3>3
      <4> HIDE DEF i
      <4> QED BY <1>9, <1>11, <4>1
    <3> QED BY <3>1, <3>2, <3>3
  <2> QED BY <2>2, <2>3 DEF N, P
<1> QED BY <1>12, <1>13

-----------------------------------------------------------------------------
(* The inductive invariant.                                                 *)

(* Each written string is in the table, at its trail.                       *)
LEMMA Written ==
  ASSUME NEW C, NEW W, NEW T, LaidOut(C, W, T), NEW r \in DOMAIN W
  PROVE  /\ Stored(C, T[r], W[r]) /\ T[r][1] = r /\ r \in DOMAIN C
         /\ IsFiniteSet(DOMAIN C) /\ W[r] \in String
<1>1. Stored(C, T[r], W[r]) /\ T[r][1] = r /\ W[r] \in String BY DEF LaidOut, Stored
<1>2. 1 \in 1 .. Chunks(W[r]) BY <1>1, ChunkCount
<1>3. r \in DOMAIN C BY <1>1, <1>2, LaidChunk
<1> QED BY <1>1, <1>3 DEF LaidOut

(* It does not matter which trails: there is one for each string.           *)
LEMMA TrailsAre ==
  ASSUME NEW C, NEW W, NEW T, LaidOut(C, W, T)
  PROVE  /\ \A r \in DOMAIN W : Trails(C, W)[r] = T[r]
         /\ LaidOut(C, W, Trails(C, W))
<1> DEFINE U == Trails(C, W)
<1>1. \A r \in DOMAIN W : U[r] = T[r]
  <2> SUFFICES ASSUME NEW r \in DOMAIN W PROVE U[r] = T[r] OBVIOUS
  <2>1. Stored(C, T[r], W[r]) /\ T[r][1] = r BY Written
  <2>2. Trail(C, T[r][1], Chunks(W[r])) = T[r] BY <2>1, TrailIs
  <2> QED BY <2>1, <2>2 DEF Trails
<1> HIDE DEF U
<1>2. LaidOut(C, W, U) BY <1>1 DEF LaidOut
<1> QED BY <1>1, <1>2 DEF U

(* Nothing is stored at first.                                              *)
LEMMA InitSound == Init => IInv
<1> SUFFICES ASSUME Init PROVE IInv OBVIOUS
<1>1. DOMAIN chunks = {} /\ DOMAIN strings = {} BY DEF Init
<1>2. chunks = [q \in DOMAIN chunks |-> chunks[q]] /\ strings = [q \in DOMAIN strings |-> strings[q]]
  BY DEF Init
<1>3. IsFiniteSet(DOMAIN chunks) BY <1>1, FS_EmptySet
<1> QED BY <1>1, <1>2, <1>3 DEF IInv, LaidOut

(* delete_string takes the chunks of one string and leaves the others where *)
(* they are.                                                                *)
LEMMA DeleteKeeps ==
  ASSUME NEW C, NEW W, NEW T, LaidOut(C, W, T), NEW rid \in DOMAIN W
  PROVE  LaidOut([q \in DOMAIN C \ ChainFrom(C, rid) |-> C[q]],
                 [q \in DOMAIN W \ {rid} |-> W[q]], T)
<1> DEFINE D == {T[rid][i] : i \in 1 .. Chunks(W[rid])}
           C2 == [q \in DOMAIN C \ D |-> C[q]]
           W2 == [q \in DOMAIN W \ {rid} |-> W[q]]
<1>1. ChainFrom(C, rid) = D
  <2>1. Stored(C, T[rid], W[rid]) /\ T[rid][1] = rid /\ IsFiniteSet(DOMAIN C) BY Written
  <2>2. ChainFrom(C, T[rid][1]) = {T[rid][i] : i \in 1 .. Chunks(W[rid])}
    BY <2>1, ChainIs
  <2> QED BY <2>1, <2>2
<1>2. \A q \in D : \E i \in 1 .. Chunks(W[rid]) : q = T[rid][i] OBVIOUS
<1>3. \A i \in 1 .. Chunks(W[rid]) : T[rid][i] \in D OBVIOUS
<1> HIDE DEF D
<1>4. /\ DOMAIN C2 = DOMAIN C \ D /\ \A q \in DOMAIN C2 : C2[q] = C[q]
      /\ C2 = [q \in DOMAIN C2 |-> C2[q]]
      /\ DOMAIN W2 = DOMAIN W \ {rid} /\ \A q \in DOMAIN W2 : W2[q] = W[q]
      /\ W2 = [q \in DOMAIN W2 |-> W2[q]]
  OBVIOUS
<1> HIDE DEF C2, W2
<1>5. DOMAIN C2 \subseteq RID /\ IsFiniteSet(DOMAIN C2)
  <2>1. DOMAIN C \subseteq RID /\ IsFiniteSet(DOMAIN C) BY DEF LaidOut
  <2>2. DOMAIN C2 \in SUBSET DOMAIN C BY <1>4
  <2> QED BY <2>1, <2>2, FS_Subset
<1>6. \A q, r \in DOMAIN W :
         \A i \in 1 .. Chunks(W[q]), k \in 1 .. Chunks(W[r]) : T[q][i] = T[r][k] => q = r
  BY DEF LaidOut
<1>7. ASSUME NEW r \in DOMAIN W2
      PROVE  W2[r] \in String /\ T[r][1] = r /\ Laid(C2, T[r], W2[r])
  <2>1. r \in DOMAIN W /\ r # rid /\ W2[r] = W[r] BY <1>4
  <2>2. Laid(C, T[r], W[r]) /\ W[r] \in String /\ T[r][1] = r BY <2>1 DEF LaidOut
  <2>3. \A i \in 1 .. Chunks(W[r]) : T[r][i] \in DOMAIN C2
    <3> SUFFICES ASSUME NEW i \in 1 .. Chunks(W[r]) PROVE T[r][i] \in DOMAIN C2 OBVIOUS
    <3>1. T[r][i] \in DOMAIN C BY <2>2 DEF Laid
    <3>2. T[r][i] \notin D BY <1>2, <1>6, <2>1
    <3> QED BY <1>4, <3>1, <3>2
  <2>4. \A i \in 1 .. Chunks(W[r]) : C2[T[r][i]] = C[T[r][i]] BY <1>4, <2>3
  <2>5. T[r] \in [1 .. Chunks(W[r]) -> DOMAIN C2] BY <2>2, <2>3 DEF Laid
  <2>6. Laid(C2, T[r], W[r]) BY <2>2, <2>4, <2>5 DEF Laid
  <2> QED BY <2>1, <2>2, <2>6
<1>8. \A q, r \in DOMAIN W2 :
         \A i \in 1 .. Chunks(W2[q]), k \in 1 .. Chunks(W2[r]) : T[q][i] = T[r][k] => q = r
  BY <1>4, <1>6
<1>9. ASSUME NEW c \in DOMAIN C2
      PROVE  \E r \in DOMAIN W2 : \E i \in 1 .. Chunks(W2[r]) : T[r][i] = c
  <2>1. c \in DOMAIN C /\ c \notin D BY <1>4
  <2>2. PICK r \in DOMAIN W : \E i \in 1 .. Chunks(W[r]) : T[r][i] = c BY <2>1 DEF LaidOut
  <2>3. r # rid BY <1>3, <2>1, <2>2
  <2> QED BY <1>4, <2>2, <2>3
<1>10. LaidOut(C2, W2, T) BY <1>4, <1>5, <1>7, <1>8, <1>9 DEF LaidOut
<1> QED BY <1>1, <1>10 DEF C2, W2

(* The chunk write_string puts under the k-th RID it gets.                  *)
Put(r, s, k) == [next |-> IF k = 1 THEN NoRid ELSE r[k - 1], data |-> Pieces(s)[k]]

(* The chunks of a new string, first to last, are in the RIDs it got, last  *)
(* to first.                                                                *)
LEMMA NewTrail ==
  ASSUME NEW C, NEW s \in String, NEW r, r \in [1 .. Chunks(s) -> DOMAIN C],
         \A i, k \in 1 .. Chunks(s) : r[i] = r[k] => i = k,
         \A k \in 1 .. Chunks(s) : C[r[k]] = Put(r, s, k)
  PROVE  Laid(C, [i \in 1 .. Chunks(s) |-> r[Chunks(s) - i + 1]], s)
<1> DEFINE N == Chunks(s)
           t == [i \in 1 .. N |-> r[N - i + 1]]
<1>1. N \in Nat \ {0} BY ChunkCount
<1>2. \A k \in 1 .. N : Pieces(s)[k] = Part(s, N - k + 1) BY PiecesAre
<1>3. \A i, k \in 1 .. N : r[i] = r[k] => i = k OBVIOUS
<1>4. r \in [1 .. N -> DOMAIN C] /\ \A k \in 1 .. N : C[r[k]] = Put(r, s, k) OBVIOUS
<1> HIDE DEF N
<1>5. \A i \in 1 .. N : /\ N - i + 1 \in 1 .. N /\ N - (N - i + 1) + 1 = i
                        /\ N - i + 1 = 1 <=> i = N
                        /\ i # N => i + 1 \in 1 .. N /\ N - (i + 1) + 1 = (N - i + 1) - 1
  BY <1>1
<1>6. t \in [1 .. N -> DOMAIN C] BY <1>4, <1>5
<1>7. \A i \in 1 .. N : t[i] = r[N - i + 1] OBVIOUS
<1> HIDE DEF t
<1>8. \A i, k \in 1 .. N : t[i] = t[k] => i = k
  <2> SUFFICES ASSUME NEW i \in 1 .. N, NEW k \in 1 .. N, t[i] = t[k] PROVE i = k OBVIOUS
  <2> DEFINE a == N - i + 1
             b == N - k + 1
  <2>1. a = b
    <3>1. a \in 1 .. N /\ b \in 1 .. N /\ r[a] = r[b] BY <1>5, <1>7
    <3> HIDE DEF a, b
    <3> QED BY <1>3, <3>1
  <2> QED BY <1>1, <2>1
<1>9. \A i \in 1 .. N :
         C[t[i]] = [next |-> IF i = N THEN NoRid ELSE t[i + 1], data |-> Part(s, i)]
  <2> SUFFICES ASSUME NEW i \in 1 .. N
               PROVE  C[t[i]] = [next |-> IF i = N THEN NoRid ELSE t[i + 1], data |-> Part(s, i)]
    OBVIOUS
  <2> DEFINE k == N - i + 1
  <2>1. /\ k \in 1 .. N /\ N - k + 1 = i /\ (k = 1 <=> i = N)
        /\ i # N => i + 1 \in 1 .. N /\ N - (i + 1) + 1 = k - 1
    BY <1>5
  <2>2. t[i] = r[k] BY <1>7
  <2> HIDE DEF k
  <2>3. C[t[i]] = [next |-> IF k = 1 THEN NoRid ELSE r[k - 1], data |-> Part(s, i)]
    BY <1>2, <1>4, <2>1, <2>2 DEF Put
  <2>4. i # N => t[i + 1] = r[k - 1] BY <1>7, <2>1
  <2> QED BY <2>1, <2>3, <2>4
<1>10. Laid(C, t, s) BY <1>6, <1>8, <1>9 DEF Laid, N
<1> QED BY <1>10 DEF t, N

(* The table C2 after s was put into C under the fresh RIDs r.              *)
Placed(C, C2, r, s) ==
    /\ r \in [1 .. Chunks(s) -> RID \ DOMAIN C]
    /\ \A i, k \in 1 .. Chunks(s) : r[i] = r[k] => i = k
    /\ C2 = [q \in DOMAIN C2 |-> C2[q]]
    /\ DOMAIN C2 = DOMAIN C \union {r[k] : k \in 1 .. Chunks(s)}
    /\ \A q \in DOMAIN C : C2[q] = C[q]
    /\ \A k \in 1 .. Chunks(s) : C2[r[k]] = Put(r, s, k)

(* The strings W with one more.                                             *)
With(W, z, x) == [q \in DOMAIN W \union {z} |-> IF q = z THEN x ELSE W[q]]

(* The trails T of the strings W with that of the new one.                  *)
WithTrail(W, T, r, s) ==
    [q \in DOMAIN W \union {r[Chunks(s)]} |->
        IF q = r[Chunks(s)] THEN [i \in 1 .. Chunks(s) |-> r[Chunks(s) - i + 1]] ELSE T[q]]

(* write_string lays a string out in fresh chunks and touches no other.     *)
LEMMA WriteKeeps ==
  ASSUME NEW C, NEW W, NEW T, LaidOut(C, W, T), NEW s \in String,
         NEW r, NEW C2, Placed(C, C2, r, s)
  PROVE  LaidOut(C2, With(W, r[Chunks(s)], s), WithTrail(W, T, r, s))
<1> DEFINE N == Chunks(s)
           z == r[N]
           t == [i \in 1 .. N |-> r[N - i + 1]]
           W2 == [q \in DOMAIN W \union {z} |-> IF q = z THEN s ELSE W[q]]
           T2 == [q \in DOMAIN W \union {z} |-> IF q = z THEN t ELSE T[q]]
           R == {r[k] : k \in 1 .. N}
<1>0. /\ r \in [1 .. Chunks(s) -> RID \ DOMAIN C]
      /\ \A i, k \in 1 .. Chunks(s) : r[i] = r[k] => i = k
      /\ C2 = [q \in DOMAIN C2 |-> C2[q]]
      /\ DOMAIN C2 = DOMAIN C \union {r[k] : k \in 1 .. Chunks(s)}
      /\ \A q \in DOMAIN C : C2[q] = C[q]
      /\ \A k \in 1 .. Chunks(s) : C2[r[k]] = Put(r, s, k)
  BY DEF Placed
<1>1. N \in Nat \ {0} BY ChunkCount
<1>2. /\ DOMAIN C2 = DOMAIN C \union R /\ \A k \in 1 .. N : r[k] \in R
      /\ \A q \in R : \E k \in 1 .. N : q = r[k]
      /\ \A q \in DOMAIN C : C2[q] = C[q]
      /\ \A k \in 1 .. N : r[k] \in RID /\ r[k] \notin DOMAIN C
  BY <1>0
<1>3. Laid(C2, t, s)
  <2>1. r \in [1 .. N -> DOMAIN C2] BY <1>0
  <2> QED BY <1>0, <2>1, NewTrail
<1>4. r \in [1 .. N -> RID \ DOMAIN C] /\ (\A i, k \in 1 .. N : r[i] = r[k] => i = k)
  BY <1>0
<1>5. \A i \in 1 .. N : t[i] = r[N - i + 1] OBVIOUS
<1> HIDE DEF N
<1>6. IsFiniteSet(R)
  <2>1. r \in Surjection(1 .. N, R)
    <3>1. r \in [1 .. N -> R] BY <1>4
    <3> QED BY <3>1 DEF Surjection
  <2>2. IsFiniteSet(1 .. N)
    <3>1. \A a, b \in Int : IsFiniteSet(a .. b) BY FS_Interval
    <3> QED BY <1>1, <3>1
  <2> HIDE DEF R
  <2> QED BY <2>1, <2>2, FS_Surjection
<1> HIDE DEF R, t, z
<1>7. /\ DOMAIN W2 = DOMAIN W \union {z} /\ DOMAIN T2 = DOMAIN W \union {z}
      /\ W2 = [q \in DOMAIN W2 |-> W2[q]]
      /\ \A q \in DOMAIN W2 : /\ W2[q] = IF q = z THEN s ELSE W[q]
                              /\ T2[q] = IF q = z THEN t ELSE T[q]
  OBVIOUS
<1> HIDE DEF W2, T2
<1>8. z \notin DOMAIN W /\ z \notin DOMAIN C /\ t[1] = z
  <2>1. N \in 1 .. N /\ 1 \in 1 .. N /\ N - 1 + 1 = N BY <1>1
  <2>2. z \notin DOMAIN C BY <1>2, <2>1 DEF z
  <2>3. \A q \in DOMAIN W : q \in DOMAIN C BY Written
  <2> QED BY <1>5, <2>1, <2>2, <2>3 DEF z
<1>9. \A i \in 1 .. N : t[i] \notin DOMAIN C /\ t[i] \in R
  <2>1. \A i \in 1 .. N : N - i + 1 \in 1 .. N BY <1>1
  <2> QED BY <1>2, <1>5, <2>1
<1>10. DOMAIN C2 \subseteq RID /\ IsFiniteSet(DOMAIN C2)
  <2>1. DOMAIN C \subseteq RID /\ IsFiniteSet(DOMAIN C) BY DEF LaidOut
  <2>2. IsFiniteSet(DOMAIN C \cup R) BY <1>6, <2>1, FS_Union
  <2> QED BY <1>2, <2>1, <2>2
<1>11. \A q \in DOMAIN W2 : q # z => /\ q \in DOMAIN W /\ W2[q] = W[q] /\ T2[q] = T[q]
                                     /\ \A i \in 1 .. Chunks(W[q]) : T[q][i] \in DOMAIN C
  <2> SUFFICES ASSUME NEW q \in DOMAIN W2, q # z
               PROVE  /\ q \in DOMAIN W /\ W2[q] = W[q] /\ T2[q] = T[q]
                      /\ \A i \in 1 .. Chunks(W[q]) : T[q][i] \in DOMAIN C
    OBVIOUS
  <2>1. q \in DOMAIN W /\ W2[q] = W[q] /\ T2[q] = T[q] BY <1>7
  <2>2. Stored(C, T[q], W[q]) BY <2>1, Written
  <2> QED BY <2>1, <2>2, LaidChunk
<1>12. z \in DOMAIN W2 /\ W2[z] = s /\ T2[z] = t BY <1>7
<1>13. ASSUME NEW q \in DOMAIN W2
       PROVE  W2[q] \in String /\ T2[q][1] = q /\ Laid(C2, T2[q], W2[q])
  <2>1. CASE q = z BY <1>3, <1>8, <1>12, <2>1
  <2>2. CASE q # z
    <3>1. q \in DOMAIN W /\ W2[q] = W[q] /\ T2[q] = T[q] BY <1>11, <2>2
    <3>2. Laid(C, T[q], W[q]) /\ W[q] \in String /\ T[q][1] = q BY <3>1 DEF LaidOut
    <3>3. \A i \in 1 .. Chunks(W[q]) : T[q][i] \in DOMAIN C2 /\ C2[T[q][i]] = C[T[q][i]]
      BY <1>2, <1>11, <2>2
    <3>4. T[q] \in [1 .. Chunks(W[q]) -> DOMAIN C2] BY <3>2, <3>3 DEF Laid
    <3>5. Laid(C2, T[q], W[q]) BY <3>2, <3>3, <3>4 DEF Laid
    <3> QED BY <3>1, <3>2, <3>5
  <2> QED BY <2>1, <2>2
<1>14. ASSUME NEW p \in DOMAIN W2, NEW q \in DOMAIN W2,
              NEW i \in 1 .. Chunks(W2[p]), NEW k \in 1 .. Chunks(W2[q]), T2[p][i] = T2[q][k]
       PROVE  p = q
  <2>1. CASE p = z /\ q = z BY <2>1
  <2>2. CASE p = z /\ q # z BY <1>9, <1>11, <1>12, <1>14, <2>2 DEF N
  <2>3. CASE p # z /\ q = z BY <1>9, <1>11, <1>12, <1>14, <2>3 DEF N
  <2>4. CASE p # z /\ q # z
    <3>1. /\ p \in DOMAIN W /\ W2[p] = W[p] /\ T2[p] = T[p]
          /\ q \in DOMAIN W /\ W2[q] = W[q] /\ T2[q] = T[q]
      BY <1>11, <2>4
    <3> QED BY <1>14, <3>1 DEF LaidOut
  <2> QED BY <2>1, <2>2, <2>3, <2>4
<1>15. ASSUME NEW c \in DOMAIN C2
       PROVE  \E q \in DOMAIN W2 : \E i \in 1 .. Chunks(W2[q]) : T2[q][i] = c
  <2>1. CASE c \in DOMAIN C
    <3>1. PICK q \in DOMAIN W : \E i \in 1 .. Chunks(W[q]) : T[q][i] = c BY <2>1 DEF LaidOut
    <3>2. q \in DOMAIN W2 /\ q # z BY <1>7, <1>8
    <3> QED BY <1>11, <3>1, <3>2
  <2>2. CASE c \notin DOMAIN C
    <3>1. PICK k \in 1 .. N : c = r[k] BY <1>2, <2>2
    <3> DEFINE i == N - k + 1
    <3>2. i \in 1 .. N /\ N - i + 1 = k BY <1>1
    <3> HIDE DEF i
    <3>3. t[i] = c BY <1>5, <3>1, <3>2
    <3> QED BY <1>12, <3>2, <3>3 DEF N
  <2> QED BY <1>2, <2>1, <2>2
<1>16. LaidOut(C2, W2, T2) BY <1>0, <1>7, <1>10, <1>13, <1>14, <1>15 DEF LaidOut
<1> QED BY <1>16 DEF N, z, t, W2, T2, With, WithTrail

(* Every step keeps the strings laid out.                                   *)
LEMMA NextKeeps == IInv /\ [Next]_vars => IInv'
<1> SUFFICES ASSUME IInv, [Next]_vars PROVE IInv' OBVIOUS
<1> DEFINE T == Trails(chunks, strings)
<1>0. LaidOut(chunks, strings, T) BY DEF IInv
<1> HIDE DEF T
<1>1. ASSUME NEW U, LaidOut(chunks', strings', U) PROVE IInv'
  <2>1. LaidOut(chunks', strings', Trails(chunks', strings')) BY <1>1, TrailsAre
  <2> QED BY <2>1 DEF IInv
<1>2. ASSUME NEW s \in String, WriteString(s) PROVE IInv'
  <2> DEFINE N == Chunks(s)
             n == Len(Pieces(s))
  <2>1. n = N /\ N \in Nat \ {0} BY PiecesAre, ChunkCount
  <2>2. PICK r \in FreshRids(n) :
          /\ chunks' = [q \in DOMAIN chunks \union {r[k] : k \in 1 .. n} |->
                           IF q \in DOMAIN chunks THEN chunks[q]
                           ELSE LET k == CHOOSE k \in 1 .. n : r[k] = q
                                IN  [next |-> IF k = 1 THEN NoRid ELSE r[k - 1], data |-> Pieces(s)[k]]]
          /\ strings' = [q \in DOMAIN strings \union {r[n]} |->
                            IF q = r[n] THEN s ELSE strings[q]]
    BY <1>2 DEF WriteString
  <2> HIDE DEF N, n
  <2>3. /\ r \in [1 .. N -> RID \ DOMAIN chunks]
        /\ \A i, k \in 1 .. N : r[i] = r[k] => i = k
    BY <2>1 DEF FreshRids
  <2> DEFINE C2 == [q \in DOMAIN chunks \union {r[k] : k \in 1 .. N} |->
                       IF q \in DOMAIN chunks THEN chunks[q]
                       ELSE Put(r, s, CHOOSE k \in 1 .. N : r[k] = q)]
             z == r[N]
  <2>4. chunks' = C2 BY <2>1, <2>2 DEF Put
  <2>5. strings' = [q \in DOMAIN strings \union {z} |-> IF q = z THEN s ELSE strings[q]]
    BY <2>1, <2>2
  <2>6. /\ C2 = [q \in DOMAIN C2 |-> C2[q]]
        /\ DOMAIN C2 = DOMAIN chunks \union {r[k] : k \in 1 .. N}
        /\ \A q \in DOMAIN chunks : C2[q] = chunks[q]
    OBVIOUS
  <2>7. \A k \in 1 .. N : C2[r[k]] = Put(r, s, k)
    <3> SUFFICES ASSUME NEW k \in 1 .. N PROVE C2[r[k]] = Put(r, s, k) OBVIOUS
    <3>1. (CHOOSE j \in 1 .. N : r[j] = r[k]) = k BY <2>3
    <3>2. r[k] \notin DOMAIN chunks BY <2>3
    <3> QED BY <3>1, <3>2
  <2> HIDE DEF C2
  <2>8. Placed(chunks, C2, r, s) BY <2>3, <2>6, <2>7 DEF Placed, N
  <2>9. LaidOut(C2, With(strings, r[Chunks(s)], s), WithTrail(strings, T, r, s))
    BY <1>0, <2>8, WriteKeeps
  <2>10. strings' = With(strings, r[Chunks(s)], s) BY <2>5 DEF With, N
  <2> QED BY <1>1, <2>4, <2>9, <2>10
<1>3. ASSUME NEW rid \in DOMAIN strings, DeleteString(rid) PROVE IInv'
  <2>1. LaidOut([q \in DOMAIN chunks \ ChainFrom(chunks, rid) |-> chunks[q]],
                [q \in DOMAIN strings \ {rid} |-> strings[q]], T)
    BY <1>0, DeleteKeeps
  <2> QED BY <1>1, <1>3, <2>1 DEF DeleteString
<1>4. CASE UNCHANGED vars BY <1>0, <1>1, <1>4 DEF vars
<1> QED BY <1>2, <1>3, <1>4 DEF Next

(* Whatever is written and deleted, every stored string is laid out in      *)
(* chunks of its own, and there are no other chunks.                        *)
THEOREM StringsStayLaidOut == Spec => []IInv
<1> QED BY InitSound, NextKeeps, PTL DEF Spec

-----------------------------------------------------------------------------
(* What follows from it.                                                    *)

LEMMA LaidOutTypes == IInv => TypeOK
<1> SUFFICES ASSUME IInv PROVE TypeOK OBVIOUS
<1> DEFINE T == Trails(chunks, strings)
<1>0. LaidOut(chunks, strings, T) BY DEF IInv
<1> HIDE DEF T
<1>1. DOMAIN strings \subseteq DOMAIN chunks
  <2> SUFFICES ASSUME NEW r \in DOMAIN strings PROVE r \in DOMAIN chunks OBVIOUS
  <2> QED BY <1>0, Written
<1>2. DOMAIN chunks \subseteq RID BY <1>0 DEF LaidOut
<1>3. ASSUME NEW q \in DOMAIN chunks
      PROVE  chunks[q].next \in RID \union {NoRid} /\ Len(chunks[q].data) \in 1 .. STR_CHUNK_MAX_LEN
  <2>1. PICK r \in DOMAIN strings : \E i \in 1 .. Chunks(strings[r]) : T[r][i] = q
    BY <1>0 DEF LaidOut
  <2> DEFINE s == strings[r]
             t == T[r]
  <2>2. PICK i \in 1 .. Chunks(s) : t[i] = q BY <2>1
  <2>3. Stored(chunks, t, s) /\ s \in String BY <1>0, Written
  <2> HIDE DEF s, t
  <2>4. /\ chunks[q].data = Part(s, i)
        /\ chunks[q].next = IF i = Chunks(s) THEN NoRid ELSE t[i + 1]
        /\ i # Chunks(s) => i + 1 \in 1 .. Chunks(s)
    BY <2>2, <2>3, LaidChunk
  <2>5. i # Chunks(s) => t[i + 1] \in RID
    <3>1. \A k \in 1 .. Chunks(s) : t[k] \in DOMAIN chunks BY <2>3, LaidChunk
    <3> QED BY <1>2, <2>4, <3>1
  <2>6. Len(Part(s, i)) \in 1 .. STR_CHUNK_MAX_LEN BY <2>3, PartOf
  <2> QED BY <2>4, <2>5, <2>6
<1> QED BY <1>1, <1>2, <1>3 DEF TypeOK

LEMMA LaidOutLoads == IInv => Loads
<1> SUFFICES ASSUME IInv, NEW rid \in DOMAIN strings, NEW max \in 1 .. Len(strings[rid]) + 1
             PROVE  LoadString(chunks, ReadString(chunks, rid), max)
                        = SubSeq(strings[rid], 1,
                                 IF max < Len(strings[rid]) THEN max ELSE Len(strings[rid]))
  BY DEF Loads
<1> DEFINE T == Trails(chunks, strings)
           s == strings[rid]
           t == T[rid]
<1>0. LaidOut(chunks, strings, T) BY DEF IInv
<1> HIDE DEF T
<1>1. Stored(chunks, t, s) /\ t[1] = rid /\ s \in String BY <1>0, Written
<1>2. Len(s) \in Nat BY <1>1, StringType
<1>3. max \in Nat \ {0} BY <1>2
<1> HIDE DEF s, t
<1>4. LoadString(chunks, ReadString(chunks, t[1]), max) = SubSeq(s, 1, Cut(s, max))
  BY <1>1, <1>3, LoadsBack
<1> QED BY <1>1, <1>4 DEF Cut, s

LEMMA LaidOutCompares == IInv => CompareIsOrder
<1> SUFFICES ASSUME IInv, NEW q \in DOMAIN strings, NEW r \in DOMAIN strings
             PROVE  CompareStringRecord(chunks, ReadString(chunks, q), ReadString(chunks, r),
                                        Len(strings[q]) + Len(strings[r]) + 1)
                        = Order(strings[q], strings[r])
  BY DEF CompareIsOrder
<1> DEFINE T == Trails(chunks, strings)
           s == strings[q]
           v == strings[r]
           t == T[q]
           u == T[r]
           bound == Len(s) + Len(v) + 1
<1>0. LaidOut(chunks, strings, T) BY DEF IInv
<1> HIDE DEF T
<1>1. Stored(chunks, t, s) /\ t[1] = q /\ s \in String BY <1>0, Written
<1>2. Stored(chunks, u, v) /\ u[1] = r /\ v \in String BY <1>0, Written
<1>3. Len(s) \in Nat /\ Len(v) \in Nat BY <1>1, <1>2, StringType
<1> HIDE DEF s, v, t, u
<1>4. bound \in Nat /\ bound > Len(s) BY <1>3
<1> HIDE DEF bound
<1>5. CompareStringRecord(chunks, ReadString(chunks, t[1]), ReadString(chunks, u[1]), bound)
        = Order(s, v)
  BY <1>1, <1>2, <1>4, ComparesTo
<1> QED BY <1>1, <1>2, <1>5 DEF s, v, bound

LEMMA LaidOutOwns == IInv => ChunksOwned
<1> SUFFICES ASSUME IInv PROVE ChunksOwned OBVIOUS
<1> DEFINE T == Trails(chunks, strings)
<1>0. LaidOut(chunks, strings, T) BY DEF IInv
<1> HIDE DEF T
<1>1. ASSUME NEW r \in DOMAIN strings
      PROVE  ChainFrom(chunks, r) = {T[r][i] : i \in 1 .. Chunks(strings[r])}
  <2>1. Stored(chunks, T[r], strings[r]) /\ T[r][1] = r /\ IsFiniteSet(DOMAIN chunks)
    BY <1>0, Written
  <2>2. ChainFrom(chunks, T[r][1]) = {T[r][i] : i \in 1 .. Chunks(strings[r])}
    BY <2>1, ChainIs
  <2> QED BY <2>1, <2>2
<1>2. ASSUME NEW q \in DOMAIN strings, NEW r \in DOMAIN strings, q # r
      PROVE  ChainFrom(chunks, q) \intersect ChainFrom(chunks, r) = {}
  <2> SUFFICES ASSUME NEW c \in ChainFrom(chunks, q), c \in ChainFrom(chunks, r) PROVE FALSE
    OBVIOUS
  <2>1. PICK i \in 1 .. Chunks(strings[q]) : c = T[q][i] BY <1>1
  <2>2. PICK k \in 1 .. Chunks(strings[r]) : c = T[r][k] BY <1>1
  <2>3. \A i1 \in 1 .. Chunks(strings[q]), k1 \in 1 .. Chunks(strings[r]) :
           T[q][i1] = T[r][k1] => q = r
    BY <1>0 DEF LaidOut
  <2> QED BY <1>2, <2>1, <2>2, <2>3
<1>3. \A r \in DOMAIN strings : \A c \in ChainFrom(chunks, r) : c \in DOMAIN chunks
  <2> SUFFICES ASSUME NEW r \in DOMAIN strings, NEW c \in ChainFrom(chunks, r)
               PROVE  c \in DOMAIN chunks
    OBVIOUS
  <2>1. PICK i \in 1 .. Chunks(strings[r]) : c = T[r][i] BY <1>1
  <2>2. Stored(chunks, T[r], strings[r]) BY <1>0, Written
  <2> QED BY <2>1, <2>2, LaidChunk
<1>4. \A c \in DOMAIN chunks : \E r \in DOMAIN strings : c \in ChainFrom(chunks, r)
  <2> SUFFICES ASSUME NEW c \in DOMAIN chunks
               PROVE  \E r \in DOMAIN strings : c \in ChainFrom(chunks, r)
    OBVIOUS
  <2>1. PICK r \in DOMAIN strings : \E i \in 1 .. Chunks(strings[r]) : T[r][i] = c
    BY <1>0 DEF LaidOut
  <2> QED BY <1>1, <2>1
<1>5. UNION {ChainFrom(chunks, r) : r \in DOMAIN strings} = DOMAIN chunks
  BY <1>3, <1>4
<1> QED BY <1>2, <1>5 DEF ChunksOwned

(* Strings point at live chunks of legal length: the type invariant.        *)
THEOREM StrTypeCorrect == Spec => []TypeOK
<1> QED BY StringsStayLaidOut, LaidOutTypes, PTL

(* load_string gives back what write_string was given, cut to the           *)
(* characters asked for.                                                    *)
THEOREM StringsReadBack == Spec => []Loads
<1> QED BY StringsStayLaidOut, LaidOutLoads, PTL

(* delete_string leaves no chunk behind and takes none of another string.   *)
THEOREM ChunksHaveOneOwner == Spec => []ChunksOwned
<1> QED BY StringsStayLaidOut, LaidOutOwns, PTL

(* compare_string_record is the lexicographic order on any two stored       *)
(* strings, wherever their chunks end.                                      *)
THEOREM ComparisonIsLexicographic == Spec => []CompareIsOrder
<1> QED BY StringsStayLaidOut, LaidOutCompares, PTL

-----------------------------------------------------------------------------
(* The strings are a heap.                                                  *)

(* A step of Str is a step of the heap of its strings.                      *)
LEMMA StepIsHeapStep == IInv /\ [Next]_vars => [Promise!Next]_strings
<1> SUFFICES ASSUME IInv, [Next]_vars PROVE [Promise!Next]_strings OBVIOUS
<1> DEFINE T == Trails(chunks, strings)
<1>0. LaidOut(chunks, strings, T) BY DEF IInv
<1> HIDE DEF T
<1>1. \A r \in DOMAIN strings : r \in DOMAIN chunks /\ r \in RID
  <2>1. DOMAIN chunks \subseteq RID BY <1>0 DEF LaidOut
  <2>2. \A r \in DOMAIN strings : r \in DOMAIN chunks BY <1>0, Written
  <2> QED BY <2>1, <2>2
<1>2. ASSUME NEW s \in String, WriteString(s) PROVE Promise!Next
  <2> DEFINE n == Len(Pieces(s))
  <2>1. n \in 1 .. n
    <3>1. n \in Nat \ {0} BY PiecesAre, ChunkCount
    <3> HIDE DEF n
    <3> QED BY <3>1
  <2>2. PICK r \in FreshRids(n) :
          strings' = [q \in DOMAIN strings \union {r[n]} |-> IF q = r[n] THEN s ELSE strings[q]]
    BY <1>2 DEF WriteString
  <2> HIDE DEF n
  <2>3. r[n] \in RID /\ r[n] \notin DOMAIN chunks BY <2>1 DEF FreshRids
  <2>4. r[n] \notin DOMAIN strings BY <1>1, <2>3
  <2>5. Promise!Put(r[n], s) BY <2>2, <2>4 DEF Promise!Put
  <2> QED BY <2>3, <2>5 DEF Promise!Next
<1>3. ASSUME NEW rid \in DOMAIN strings, DeleteString(rid) PROVE Promise!Next
  <2>1. rid \in RID BY <1>1
  <2>2. Promise!Remove(rid) BY <1>3 DEF DeleteString, Promise!Remove
  <2> QED BY <2>1, <2>2 DEF Promise!Next
<1>4. CASE UNCHANGED vars BY <1>4 DEF vars
<1> QED BY <1>2, <1>3, <1>4 DEF Next

(* The string table keeps the promise of a heap: the record MyJQL is given  *)
(* for a string is no stored string's, and no call changes another string.  *)
THEOREM StringsAreAHeap == Spec => StringsAreFresh
<1>1. Init => Promise!Init BY DEF Init, Promise!Init
<1> QED BY <1>1, StringsStayLaidOut, StepIsHeapStep, PTL DEF Spec, StringsAreFresh, Promise!Spec
=============================================================================
