------------------------ MODULE MetadataBytesProofs ------------------------
(***************************************************************************)
(* The proofs about the bytes of the cluster metadata file: what           *)
(* create_cluster_metadata.py writes, cluster_metadata_log.py reads, for   *)
(* all topics and any runs of the tool; and a cut anywhere in the file     *)
(* costs nothing that was complete in front of it.                         *)
(*                                                                         *)
(* From small to large: numbers, varints, the bodies of records, records,  *)
(* batches and files are read back from wherever they lie (At), whatever   *)
(* surrounds them; then the runs of the tool keep MetadataBytesInv.        *)
(***************************************************************************)
EXTENDS MetadataBytes, SequenceTheorems, FiniteSetTheorems, WellFoundedInduction, TLAPS

-----------------------------------------------------------------------------
(* Recursion.  A recursive definition denotes what it seems to only if such a
   function exists; a loop whose every step shrinks something has one. *)

\* A non-empty set of naturals has a least element.
LEMMA LeastElement ==
    ASSUME NEW S \in SUBSET Nat, S # {}
    PROVE  \E i \in S : \A j \in S : i <= j
<1> DEFINE R == {p \in Nat \X Nat : p[1] < p[2]}
<1>1. IsWellFoundedOn(R, Nat)
  BY NatLessThanWellFounded DEF OpToRel
<1>2. PICK i \in S : \A j \in S : <<j, i>> \notin R
  BY <1>1, WFMin
<1>3. ASSUME NEW j \in S PROVE i <= j
  <2>1. i \in Nat /\ j \in Nat
    OBVIOUS
  <2>2. j < i => <<j, i>> \in R
    BY <2>1
  <2>3. <<j, i>> \notin R
    BY <1>2
  <2>4. QED
    BY <2>1, <2>2, <2>3
<1>4. QED
  BY <1>3

\* A loop: where it stops and with what, where it goes on from elsewhere and
\* what it makes of the result; `size` shrinks with every step.
Loop(S, T, stop, base, next, comb, size) ==
    /\ base \in [S -> T] /\ next \in [S -> S] /\ comb \in [S -> [T -> T]]
    /\ size \in [S -> Nat]
    /\ \A x \in S : x \notin stop => size[next[x]] < size[x]

\* f is the function that the recursive definition of a loop asks for.
Unrolls(f, S, stop, base, next, comb) ==
    \A x \in S : f[x] = IF x \in stop THEN base[x] ELSE comb[x][f[next[x]]]

\* What holds where a loop stops, and before a step if behind it, holds all over.
LEMMA LoopInduction ==
    ASSUME NEW S, NEW T, NEW stop, NEW base, NEW next, NEW comb, NEW size,
           Loop(S, T, stop, base, next, comb, size),
           NEW P, \A x \in S : x \in stop \/ next[x] \in P => x \in P
    PROVE  \A x \in S : x \in P
<1>1. SUFFICES ASSUME NEW x \in S, x \notin P PROVE FALSE
  OBVIOUS
<1> DEFINE Bad == {size[y] : y \in S \ P}
<1>2. size \in [S -> Nat] /\ next \in [S -> S]
  BY DEF Loop
<1>3. PICK k \in Bad : \A j \in Bad : k <= j
  <2>1. Bad \in SUBSET Nat
    BY <1>2
  <2>2. x \in S \ P
    BY <1>1
  <2>3. Bad # {}
    BY <2>2
  <2> HIDE DEF Bad
  <2>4. QED
    BY <2>1, <2>3, LeastElement
<1>4. PICK y \in S \ P : k = size[y]
  BY <1>3
<1>5. y \notin stop /\ next[y] \in S \ P
  BY <1>1, <1>2, <1>4
<1>6. size[next[y]] \in Bad /\ size[next[y]] < size[y]
  BY <1>5 DEF Loop
<1>7. size[y] \in Nat /\ size[next[y]] \in Nat
  BY <1>2, <1>4, <1>5
<1>8. QED
  BY <1>3, <1>4, <1>6, <1>7

\* The function that the recursive definition of a loop asks for exists.
LEMMA Recursion ==
    ASSUME NEW S, NEW T, NEW stop, NEW base, NEW next, NEW comb, NEW size,
           Loop(S, T, stop, base, next, comb, size)
    PROVE  \E f \in [S -> T] : Unrolls(f, S, stop, base, next, comb)
<1> USE DEF Loop
<1> DEFINE Step(f) == [x \in S |-> IF x \in stop THEN base[x] ELSE comb[x][f[next[x]]]]
<1> DEFINE Holds(f, n) == f \in [S -> T] /\ \A x \in S : size[x] < n => f[x] = Step(f)[x]
<1>1. \A f \in [S -> T] : Step(f) \in [S -> T]
  OBVIOUS
<1>2. ASSUME NEW n \in Nat PROVE \E f : Holds(f, n)
  <2> DEFINE Bad == {k \in Nat : ~\E f : Holds(f, k)}
  <2>1. SUFFICES ASSUME Bad # {} PROVE FALSE
    OBVIOUS
  <2>2. PICK k \in Bad : \A j \in Bad : k <= j
    <3>1. Bad \in SUBSET Nat
      OBVIOUS
    <3> HIDE DEF Bad
    <3>2. QED
      BY <2>1, <3>1, LeastElement
  <2>3. k # 0
    <3>1. \A x \in S : ~(size[x] < 0)
      OBVIOUS
    <3>2. Holds(base, 0)
      BY <3>1
    <3>3. QED
      BY <2>2, <3>2
  <2>4. PICK j \in Nat : k = j + 1 /\ ~(k <= j)
    <3>1. k \in Nat /\ k - 1 \in Nat
      BY <2>2, <2>3
    <3>2. QED
      BY <3>1
  <2>5. PICK f : Holds(f, j)
    BY <2>2, <2>4
  <2>6. ASSUME NEW x \in S, size[x] < k
        PROVE  Step(f)[x] = Step(Step(f))[x]
    <3>1. CASE x \in stop
      BY <3>1
    <3>2. CASE x \notin stop
      <4>1. next[x] \in S /\ size[next[x]] < j
        BY <2>4, <2>6, <3>2
      <4>2. f[next[x]] = Step(f)[next[x]]
        BY <2>5, <4>1
      <4>3. QED
        BY <3>2, <4>1, <4>2
    <3>3. QED
      BY <3>1, <3>2
  <2>7. Holds(Step(f), k)
    BY <1>1, <2>5, <2>6
  <2>8. QED
    BY <2>2, <2>7
<1>3. ASSUME NEW n \in Nat, NEW f, NEW g, Holds(f, n), Holds(g, n), NEW x \in S, size[x] < n
      PROVE  f[x] = g[x]
  <2> DEFINE Bad == {size[y] : y \in {y \in S : size[y] < n /\ f[y] # g[y]}}
  <2>1. SUFFICES ASSUME f[x] # g[x] PROVE FALSE
    OBVIOUS
  <2>2. Bad # {}
    <3>1. x \in {y \in S : size[y] < n /\ f[y] # g[y]}
      BY <1>3, <2>1
    <3>2. size[x] \in Bad
      BY <3>1
    <3>3. QED
      BY <3>2
  <2>3. PICK k \in Bad : \A j \in Bad : k <= j
    <3>1. Bad \in SUBSET Nat
      OBVIOUS
    <3> HIDE DEF Bad
    <3>2. QED
      BY <2>2, <3>1, LeastElement
  <2>4. PICK y \in S : k = size[y] /\ size[y] < n /\ f[y] # g[y]
    BY <2>3
  <2>5. f[y] = Step(f)[y] /\ g[y] = Step(g)[y]
    BY <1>3, <2>4
  <2>6. y \notin stop
    BY <2>4, <2>5
  <2>7. next[y] \in S /\ size[next[y]] \in Nat /\ size[y] \in Nat /\ size[next[y]] < size[y]
    BY <2>6
  <2>8. f[next[y]] = g[next[y]]
    <3>1. size[next[y]] < n /\ ~(k <= size[next[y]])
      BY <2>4, <2>7
    <3>2. size[next[y]] \notin Bad
      BY <2>3, <3>1
    <3>3. QED
      BY <2>7, <3>1, <3>2
  <2>9. Step(f)[y] = Step(g)[y]
    BY <2>8
  <2>10. QED
    BY <2>4, <2>5, <2>9
<1> DEFINE g(n) == CHOOSE f : Holds(f, n)
<1>4. \A n \in Nat : Holds(g(n), n)
  BY <1>2
<1> HIDE DEF g
<1>5. PICK h : h = [x \in S |-> g(size[x] + 1)[x]]
  OBVIOUS
<1>6. ASSUME NEW x \in S
      PROVE  h[x] \in T /\ h[x] = Step(h)[x]
  <2>1. size[x] \in Nat /\ size[x] + 1 \in Nat /\ size[x] < size[x] + 1
    OBVIOUS
  <2>2. Holds(g(size[x] + 1), size[x] + 1)
    BY <1>4, <2>1
  <2>3. h[x] = g(size[x] + 1)[x] /\ h[x] = Step(g(size[x] + 1))[x] /\ h[x] \in T
    BY <1>5, <2>1, <2>2
  <2>4. CASE x \in stop
    BY <2>3, <2>4
  <2>5. CASE x \notin stop
    <3>1. PICK y \in S : y = next[x] /\ size[y] < size[x]
      BY <2>5
    <3>2. size[y] \in Nat /\ size[y] + 1 \in Nat /\ size[y] < size[y] + 1
      OBVIOUS
    <3>3. Holds(g(size[y] + 1), size[y] + 1)
      BY <1>4, <3>2
    <3>4. \A z \in S : size[z] < size[y] + 1 => size[z] < size[x] + 1
      BY <3>1, <3>2, <2>1
    <3>5. Holds(g(size[x] + 1), size[y] + 1)
      BY <2>2, <3>4
    <3>6. g(size[x] + 1)[y] = g(size[y] + 1)[y]
      <4> HIDE DEF Holds
      <4>1. QED
        BY <1>3, <3>2, <3>3, <3>5
    <3>7. h[y] = g(size[x] + 1)[y]
      BY <1>5, <3>6
    <3>8. QED
      BY <2>3, <2>5, <3>1, <3>7
  <2>6. QED
    BY <2>4, <2>5
<1>7. h \in [S -> T]
  BY <1>5, <1>6
<1>8. QED
  BY <1>6, <1>7 DEF Unrolls

-----------------------------------------------------------------------------
(* Numbers as bytes: encode_uvarint, bytes_to_int, int_to_bytes *)

\* Division by 128, which takes seven bits off a number.
LEMMA DivMod ==
    ASSUME NEW n \in Nat
    PROVE  /\ n % 128 \in Nat /\ n % 128 < 128 /\ n \div 128 \in Nat
           /\ n = 128 * (n \div 128) + (n % 128)
           /\ n > 127 => n \div 128 < n /\ n \div 128 > 0
  OBVIOUS

\* A byte in front of others.
LEMMA ByteSeq ==
    ASSUME NEW b \in Byte, NEW s \in Seq(Byte)
    PROVE  /\ <<b>> \in Seq(Byte) /\ <<b>> \o s \in Seq(Byte) /\ Len(<<b>> \o s) = 1 + Len(s)
           /\ (<<b>> \o s)[1] = b
           /\ \A i \in 1 .. Len(s) : (<<b>> \o s)[i + 1] = s[i]
<1>1. <<b>> \in Seq(Byte) /\ Len(<<b>>) = 1 /\ <<b>>[1] = b
  OBVIOUS
<1>2. QED
  BY <1>1, ConcatProperties

\* encode_uvarint computes something for every number.
LEMMA EncodeIs ==
    /\ encode_uvarint \in [Nat -> Seq(Byte)]
    /\ \A n \in Nat :
         encode_uvarint[n] =
           IF n > 127 THEN <<(n % 128) + 128>> \o encode_uvarint[n \div 128] ELSE <<n>>
<1> DEFINE stop == 0 .. 127
           base == [n \in Nat |-> <<n % 128>>]
           next == [n \in Nat |-> n \div 128]
           comb == [n \in Nat |-> [v \in Seq(Byte) |-> <<(n % 128) + 128>> \o v]]
           size == [n \in Nat |-> n]
           Body(f) == [n \in Nat |-> IF n > 127 THEN <<(n % 128) + 128>> \o f[n \div 128]
                                     ELSE <<n>>]
<1>1. base \in [Nat -> Seq(Byte)] /\ comb \in [Nat -> [Seq(Byte) -> Seq(Byte)]]
  <2>1. \A n \in Nat : n % 128 \in Byte /\ (n % 128) + 128 \in Byte
    BY DivMod DEF Byte
  <2>2. \A n \in Nat : <<n % 128>> \in Seq(Byte)
    BY <2>1
  <2>3. \A n \in Nat, v \in Seq(Byte) : <<(n % 128) + 128>> \o v \in Seq(Byte)
    <3>1. ASSUME NEW n \in Nat, NEW v \in Seq(Byte)
          PROVE  <<(n % 128) + 128>> \o v \in Seq(Byte)
      <4>1. PICK b \in Byte : b = (n % 128) + 128
        BY <2>1
      <4>2. QED
        BY <4>1, ByteSeq
    <3>2. QED
      BY <3>1
  <2>4. QED
    BY <2>2, <2>3
<1>2. next \in [Nat -> Nat] /\ size \in [Nat -> Nat]
  BY DivMod
<1>3. \A n \in Nat : n \notin stop => size[next[n]] < size[n]
  BY DivMod
<1>4. Loop(Nat, Seq(Byte), stop, base, next, comb, size)
  <2> HIDE DEF stop, base, next, comb, size
  <2>1. QED
    BY <1>1, <1>2, <1>3 DEF Loop
<1>5. PICK f \in [Nat -> Seq(Byte)] : Unrolls(f, Nat, stop, base, next, comb)
  <2> HIDE DEF stop, base, next, comb, size
  <2>1. QED
    BY <1>4, Recursion
<1>6. ASSUME NEW n \in Nat
      PROVE  f[n] = IF n > 127 THEN <<(n % 128) + 128>> \o f[n \div 128] ELSE <<n>>
  <2>1. n <= 127 => n \in stop /\ base[n] = <<n>>
    OBVIOUS
  <2>2. n > 127 => n \notin stop
    OBVIOUS
  <2>3. next[n] = n \div 128 /\ f[n \div 128] \in Seq(Byte)
    BY DivMod
  <2>4. comb[n][f[next[n]]] = <<(n % 128) + 128>> \o f[n \div 128]
    BY <2>3
  <2>5. f[n] = IF n \in stop THEN base[n] ELSE comb[n][f[next[n]]]
    BY <1>5 DEF Unrolls
  <2>6. CASE n <= 127
    <3>1. ~(n > 127)
      BY <2>6
    <3>2. QED
      BY <2>1, <2>5, <2>6, <3>1
  <2>7. CASE n > 127
    BY <2>2, <2>4, <2>5, <2>7
  <2>8. n <= 127 \/ n > 127
    OBVIOUS
  <2>9. QED
    BY <2>6, <2>7, <2>8
<1>7. f = Body(f)
  BY <1>6
<1>8. encode_uvarint = Body(encode_uvarint)
  BY <1>7 DEF encode_uvarint
<1>9. encode_uvarint \in [Nat -> Seq(Byte)]
  <2> DEFINE Bad == {n \in Nat : encode_uvarint[n] \notin Seq(Byte)}
  <2>1. SUFFICES ASSUME Bad # {} PROVE FALSE
    BY <1>8
  <2>2. PICK n \in Bad : \A j \in Bad : n <= j
    <3>1. Bad \in SUBSET Nat
      OBVIOUS
    <3> HIDE DEF Bad
    <3>2. QED
      BY <2>1, <3>1, LeastElement
  <2>3. encode_uvarint[n] = IF n > 127 THEN <<(n % 128) + 128>> \o encode_uvarint[n \div 128]
                            ELSE <<n>>
    BY <1>8, <2>2
  <2>4. n \in Nat /\ encode_uvarint[n] \notin Seq(Byte)
    BY <2>2
  <2>5. CASE n <= 127
    <3>1. encode_uvarint[n] = <<n>> /\ n \in Byte
      BY <2>2, <2>3, <2>5 DEF Byte
    <3>2. <<n>> \in Seq(Byte)
      BY <3>1
    <3>3. QED
      BY <2>4, <3>1, <3>2
  <2>6. CASE n > 127
    <3>1. (n % 128) + 128 \in Byte /\ n \div 128 \in Nat /\ ~(n <= n \div 128)
      BY <2>2, <2>6, DivMod DEF Byte
    <3>2. n \div 128 \notin Bad
      BY <2>2, <3>1
    <3>3. PICK s \in Seq(Byte) : s = encode_uvarint[n \div 128]
      BY <3>1, <3>2
    <3>4. PICK b \in Byte : b = (n % 128) + 128
      BY <3>1
    <3>5. encode_uvarint[n] = <<b>> \o s
      BY <2>3, <2>6, <3>3, <3>4
    <3>6. QED
      BY <2>4, <3>5, ByteSeq
  <2>7. QED
    BY <2>2, <2>5, <2>6
<1>10. QED
  BY <1>8, <1>9

\* How large Huge is.
LEMMA HugeIs == Huge \in Nat /\ Huge > 256 * 256 /\ Huge * 256 > 256 * 256 * 256
  BY DEF Huge

\* A byte is a number below 256.
LEMMA ByteAt ==
    ASSUME NEW bytes \in Seq(Byte), NEW i \in 1 .. Len(bytes)
    PROVE  bytes[i] \in Byte /\ bytes[i] \in Nat /\ bytes[i] < 256
<1>1. PICK b \in Byte : b = bytes[i]
  BY ElementOfSeq
<1>2. b \in Nat /\ b < 256
  BY DEF Byte
<1>3. QED
  BY <1>1, <1>2

\* The numbers that bytes_to_int goes through, one for each byte.
Digits(bytes, v) ==
    [i \in 0 .. Len(bytes) |->
       IF i = 0 THEN 0
       ELSE IF v[i - 1] >= Huge THEN v[i - 1] ELSE v[i - 1] * 256 + bytes[i]]

\* bytes_to_int computes something for all bytes, digit by digit.
LEMMA DigitsAre ==
    ASSUME NEW bytes \in Seq(Byte)
    PROVE  \E v : /\ v = Digits(bytes, v) /\ bytes_to_int(bytes) = v[Len(bytes)]
                  /\ \A i \in 0 .. Len(bytes) : v[i] \in Nat
<1>1. PICK n \in Nat : n = Len(bytes)
  BY LenProperties
<1> DEFINE S == 0 .. n
           stop == {0}
           base == [i \in S |-> 0]
           next == [i \in S |-> IF i = 0 THEN 0 ELSE i - 1]
           comb == [i \in S |-> [m \in Nat |->
                      IF i = 0 THEN 0 ELSE IF m >= Huge THEN m ELSE m * 256 + bytes[i]]]
           size == [i \in S |-> i]
           value == CHOOSE v : v = Digits(bytes, v)
<1>2. Loop(S, Nat, stop, base, next, comb, size)
  <2>1. base \in [S -> Nat] /\ next \in [S -> S] /\ size \in [S -> Nat]
    OBVIOUS
  <2>2. comb \in [S -> [Nat -> Nat]]
    <3>1. ASSUME NEW i \in S, NEW m \in Nat
          PROVE  (IF i = 0 THEN 0 ELSE IF m >= Huge THEN m ELSE m * 256 + bytes[i]) \in Nat
      <4>1. i # 0 => i \in 1 .. Len(bytes)
        BY <1>1
      <4>2. i # 0 => bytes[i] \in Nat
        BY <4>1, ByteAt
      <4>3. QED
        BY <4>2
    <3>2. QED
      BY <3>1
  <2>3. \A i \in S : i \notin stop => size[next[i]] < size[i]
    BY <1>1
  <2> HIDE DEF S, stop, base, next, comb, size
  <2>4. QED
    BY <2>1, <2>2, <2>3 DEF Loop
<1>3. PICK f \in [S -> Nat] : Unrolls(f, S, stop, base, next, comb)
  <2> HIDE DEF S, stop, base, next, comb, size
  <2>1. QED
    BY <1>2, Recursion
<1>4. ASSUME NEW i \in S
      PROVE  f[i] = IF i = 0 THEN 0
                    ELSE IF f[i - 1] >= Huge THEN f[i - 1] ELSE f[i - 1] * 256 + bytes[i]
  <2>1. f[i] = IF i \in stop THEN base[i] ELSE comb[i][f[next[i]]]
    BY <1>3 DEF Unrolls
  <2>2. CASE i = 0
    BY <2>1, <2>2
  <2>3. CASE i # 0
    <3>1. next[i] = i - 1 /\ i - 1 \in S
      BY <1>1, <2>3
    <3>2. f[i - 1] \in Nat
      BY <3>1
    <3>3. f[i] = comb[i][f[i - 1]]
      BY <2>1, <2>3, <3>1
    <3>4. QED
      BY <2>3, <3>2, <3>3
  <2>4. QED
    BY <2>2, <2>3
<1>5. f = Digits(bytes, f)
  BY <1>1, <1>4 DEF Digits
<1>6. value = Digits(bytes, value)
  BY <1>5
<1>7. bytes_to_int(bytes) = value[Len(bytes)]
  BY DEF bytes_to_int, Digits
<1>8. ASSUME NEW i \in S, i # 0, value[i - 1] \in Nat PROVE value[i] \in Nat
  <2>1. i \in 1 .. Len(bytes)
    BY <1>1, <1>8
  <2>2. bytes[i] \in Nat
    BY <2>1, ByteAt
  <2>3. value[i] = IF value[i - 1] >= Huge THEN value[i - 1] ELSE value[i - 1] * 256 + bytes[i]
    BY <1>1, <1>6, <1>8 DEF Digits
  <2>4. PICK v \in Nat, b \in Nat : v = value[i - 1] /\ b = bytes[i]
    BY <1>8, <2>2
  <2>5. v * 256 + b \in Nat
    OBVIOUS
  <2>6. value[i] = v \/ value[i] = v * 256 + b
    BY <2>3, <2>4
  <2>7. QED
    BY <2>5, <2>6
<1>9. \A i \in S : value[i] \in Nat
  <2> DEFINE P == {i \in S : value[i] \in Nat}
  <2>1. ASSUME NEW i \in S, i \in stop \/ next[i] \in P
        PROVE  i \in P
    <3>1. CASE i = 0
      BY <1>1, <1>6, <3>1 DEF Digits
    <3>2. CASE i # 0
      BY <1>8, <2>1, <3>2
    <3>3. QED
      BY <3>1, <3>2
  <2>2. \A i \in S : i \in P
    <3> HIDE DEF S, stop, base, next, comb, size, P
    <3>1. QED
      BY <1>2, <2>1, LoopInduction
  <2>3. QED
    BY <2>2
<1>10. QED
  BY <1>1, <1>6, <1>7, <1>9

\* bytes_to_int makes a number of any bytes.
LEMMA BytesToIntType ==
    ASSUME NEW bytes \in Seq(Byte)
    PROVE  bytes_to_int(bytes) \in Nat
<1>1. PICK v : bytes_to_int(bytes) = v[Len(bytes)] /\ \A i \in 0 .. Len(bytes) : v[i] \in Nat
  BY DigitsAre
<1>2. Len(bytes) \in 0 .. Len(bytes)
  BY LenProperties
<1>3. QED
  BY <1>1, <1>2

\* Division by 256, which takes the last byte off a number.
LEMMA DivMod256 ==
    ASSUME NEW n \in Int
    PROVE  /\ n % 256 \in Byte /\ n % 256 \in Nat /\ n % 256 < 256 /\ n \div 256 \in Int
           /\ n = (n \div 256) * 256 + (n % 256)
           /\ n >= 0 => n \div 256 \in Nat
  BY DEF Byte

\* The bytes of an integer are as many as asked for.
LEMMA IntBytes ==
    ASSUME NEW n \in Int, NEW size \in Nat, size # 1 \/ n \in Byte
    PROVE  int_to_bytes(n, size) \in Seq(Byte) /\ Len(int_to_bytes(n, size)) = size
<1>1. PICK q \in Int : q = n \div 256 /\ n % 256 \in Byte
  BY DivMod256
<1>2. PICK r \in Int : r = q \div 256 /\ q % 256 \in Byte
  BY DivMod256
<1>3. PICK s \in Int : s = r \div 256 /\ r % 256 \in Byte /\ s % 256 \in Byte
  BY DivMod256
<1> DEFINE low == <<n % 256, q % 256, r % 256, s % 256>>
           digits == [i \in 1 .. size |->
                        IF size = 1 /\ n >= 0 THEN n
                        ELSE IF size - i < 4 THEN low[size - i + 1]
                        ELSE IF n < 0 THEN 255 ELSE 0]
<1>4. int_to_bytes(n, size) = digits
  BY <1>1, <1>2, <1>3 DEF int_to_bytes
<1>5. low \in Seq(Byte) /\ Len(low) = 4
  BY <1>1, <1>2, <1>3
<1>6. ASSUME NEW i \in 1 .. size PROVE digits[i] \in Byte
  <2>1. CASE size = 1 /\ n >= 0
    BY <2>1
  <2>2. CASE ~(size = 1 /\ n >= 0) /\ size - i < 4
    <3>1. size - i + 1 \in 1 .. Len(low)
      BY <1>5, <2>2
    <3>2. low[size - i + 1] \in Byte
      <4> HIDE DEF low
      <4>1. QED
        BY <1>5, <3>1, ElementOfSeq
    <3>3. QED
      BY <2>2, <3>2
  <2>3. CASE ~(size = 1 /\ n >= 0) /\ ~(size - i < 4)
    BY <2>3 DEF Byte
  <2>4. QED
    BY <2>1, <2>2, <2>3
<1>7. digits \in [1 .. size -> Byte]
  BY <1>6
<1>8. digits \in Seq(Byte) /\ Len(digits) = size
  BY <1>7, SeqDef, LenProperties
<1>9. QED
  BY <1>4, <1>8

\* One byte is its own number.
LEMMA OneByte ==
    ASSUME NEW b \in Byte
    PROVE  bytes_to_int(<<b>>) = b
<1>1. <<b>> \in Seq(Byte) /\ Len(<<b>>) = 1 /\ <<b>>[1] = b /\ b \in Nat
  BY DEF Byte
<1>2. PICK v : v = Digits(<<b>>, v) /\ bytes_to_int(<<b>>) = v[1]
  BY <1>1, DigitsAre
<1>3. v[0] = 0 /\ v[1] = IF v[0] >= Huge THEN v[0] ELSE v[0] * 256 + b
  BY <1>1, <1>2 DEF Digits
<1>4. QED
  BY <1>1, <1>2, <1>3, HugeIs

\* No bytes at all are 0: a read past the end does not raise.
LEMMA NoBytes == bytes_to_int(<<>>) = 0
<1>1. <<>> \in Seq(Byte) /\ Len(<<>>) = 0
  OBVIOUS
<1>2. PICK v : v = Digits(<<>>, v) /\ bytes_to_int(<<>>) = v[0]
  BY <1>1, DigitsAre
<1>3. QED
  BY <1>1, <1>2 DEF Digits

\* A number below 2^29 is read as it was written, in four bytes or in eight.
LEMMA FourBytes ==
    ASSUME NEW n \in Nat, n < Huge * 256
    PROVE  bytes_to_int(int_to_bytes(n, 4)) = n
<1>1. PICK q \in Nat, a \in Nat : q = n \div 256 /\ a = n % 256 /\ n = q * 256 + a /\ a < 256
  BY DivMod256
<1>2. PICK r \in Nat, b \in Nat : r = q \div 256 /\ b = q % 256 /\ q = r * 256 + b /\ b < 256
  BY DivMod256
<1>3. PICK s \in Nat, c \in Nat : s = r \div 256 /\ c = r % 256 /\ r = s * 256 + c /\ c < 256
  BY DivMod256
<1>4. s < 256 /\ s % 256 = s
  <2>1. q < Huge
    BY <1>1, HugeIs
  <2>2. s < 256
    BY <1>2, <1>3, <2>1 DEF Huge
  <2>3. QED
    BY <2>2
<1>5. PICK bytes : bytes = int_to_bytes(n, 4)
  OBVIOUS
<1>6. bytes \in Seq(Byte) /\ Len(bytes) = 4
  <2>1. n \in Int /\ 4 \in Nat /\ 4 # 1
    OBVIOUS
  <2>2. int_to_bytes(n, 4) \in Seq(Byte) /\ Len(int_to_bytes(n, 4)) = 4
    BY <2>1, IntBytes
  <2>3. QED
    BY <1>5, <2>2
<1>7. bytes[1] = s /\ bytes[2] = c /\ bytes[3] = b /\ bytes[4] = a
  BY <1>1, <1>2, <1>3, <1>4, <1>5 DEF int_to_bytes
<1>8. PICK v : v = Digits(bytes, v) /\ bytes_to_int(bytes) = v[4]
  BY <1>6, DigitsAre
<1>9. ASSUME NEW i \in 0 .. 4
      PROVE  v[i] = IF i = 0 THEN 0
                    ELSE IF v[i - 1] >= Huge THEN v[i - 1] ELSE v[i - 1] * 256 + bytes[i]
  BY <1>6, <1>8 DEF Digits
<1>10. v[0] = 0 /\ v[1] = s
  BY <1>7, <1>9, HugeIs
<1>11. v[2] = r
  BY <1>3, <1>4, <1>7, <1>9, <1>10, HugeIs
<1>12. v[3] = q
  BY <1>2, <1>3, <1>4, <1>7, <1>9, <1>11, HugeIs
<1>13. v[4] = n
  BY <1>1, <1>7, <1>9, <1>12, HugeIs
<1>14. QED
  BY <1>5, <1>8, <1>13

\* The same in eight bytes, as for a base offset.
LEMMA EightBytes ==
    ASSUME NEW n \in Nat, n < Huge * 256
    PROVE  bytes_to_int(int_to_bytes(n, 8)) = n
<1>1. PICK q \in Nat, a \in Nat : q = n \div 256 /\ a = n % 256 /\ n = q * 256 + a /\ a < 256
  BY DivMod256
<1>2. PICK r \in Nat, b \in Nat : r = q \div 256 /\ b = q % 256 /\ q = r * 256 + b /\ b < 256
  BY DivMod256
<1>3. PICK s \in Nat, c \in Nat : s = r \div 256 /\ c = r % 256 /\ r = s * 256 + c /\ c < 256
  BY DivMod256
<1>4. s < 256 /\ s % 256 = s
  <2>1. q < Huge
    BY <1>1, HugeIs
  <2>2. s < 256
    BY <1>2, <1>3, <2>1 DEF Huge
  <2>3. QED
    BY <2>2
<1>5. PICK bytes : bytes = int_to_bytes(n, 8)
  OBVIOUS
<1>6. bytes \in Seq(Byte) /\ Len(bytes) = 8
  <2>1. n \in Int /\ 8 \in Nat /\ 8 # 1
    OBVIOUS
  <2>2. int_to_bytes(n, 8) \in Seq(Byte) /\ Len(int_to_bytes(n, 8)) = 8
    BY <2>1, IntBytes
  <2>3. QED
    BY <1>5, <2>2
<1>7. bytes[5] = s /\ bytes[6] = c /\ bytes[7] = b /\ bytes[8] = a
  BY <1>1, <1>2, <1>3, <1>4, <1>5 DEF int_to_bytes
<1>8. PICK v : v = Digits(bytes, v) /\ bytes_to_int(bytes) = v[8]
  BY <1>6, DigitsAre
<1>9. ASSUME NEW i \in 0 .. 8
      PROVE  v[i] = IF i = 0 THEN 0
                    ELSE IF v[i - 1] >= Huge THEN v[i - 1] ELSE v[i - 1] * 256 + bytes[i]
  BY <1>6, <1>8 DEF Digits
<1>10. bytes[1] = 0 /\ bytes[2] = 0 /\ bytes[3] = 0 /\ bytes[4] = 0
  BY <1>5 DEF int_to_bytes
<1>11. v[0] = 0 /\ v[1] = 0
  BY <1>9, <1>10, HugeIs
<1>12. v[2] = 0 /\ v[3] = 0
  BY <1>9, <1>10, <1>11, HugeIs
<1>13. v[4] = 0 /\ v[5] = s
  BY <1>7, <1>9, <1>10, <1>12, HugeIs
<1>14. v[6] = r
  BY <1>3, <1>4, <1>7, <1>9, <1>13, HugeIs
<1>15. v[7] = q
  BY <1>2, <1>3, <1>4, <1>7, <1>9, <1>14, HugeIs
<1>16. v[8] = n
  BY <1>1, <1>7, <1>9, <1>15, HugeIs
<1>17. QED
  BY <1>5, <1>8, <1>16

-----------------------------------------------------------------------------
(* Bytes within bytes: read_bytes finds what lies at a position *)

\* The bytes s are found in data behind pos.
At(data, pos, s) ==
    pos + Len(s) <= Len(data) /\ \A i \in 1 .. Len(s) : data[pos + i] = s[i]

\* Bytes behind bytes.
LEMMA JoinBytes ==
    ASSUME NEW s \in Seq(Byte), NEW t \in Seq(Byte)
    PROVE  /\ s \o t \in Seq(Byte) /\ Len(s \o t) = Len(s) + Len(t)
           /\ \A i \in 1 .. Len(s) : (s \o t)[i] = s[i]
           /\ \A i \in 1 .. Len(t) : (s \o t)[Len(s) + i] = t[i]
<1>1. Len(s) \in Nat /\ Len(t) \in Nat
  BY LenProperties
<1>2. /\ s \o t \in Seq(Byte) /\ Len(s \o t) = Len(s) + Len(t)
      /\ \A i \in 1 .. Len(s) + Len(t) : (s \o t)[i] = IF i <= Len(s) THEN s[i] ELSE t[i - Len(s)]
  BY ConcatProperties
<1>3. QED
  BY <1>1, <1>2

\* A byte that lies at a position is the one behind it.
LEMMA AtByte ==
    ASSUME NEW data \in Seq(Byte), NEW pos \in Nat, NEW b, At(data, pos, <<b>>)
    PROVE  data[pos + 1] = b /\ pos + 1 <= Len(data)
<1>1. Len(<<b>>) = 1 /\ <<b>>[1] = b /\ 1 \in 1 .. 1
  OBVIOUS
<1>2. QED
  BY <1>1 DEF At

\* Two pieces lie at a position when one does, and the other behind it.
LEMMA AtJoin ==
    ASSUME NEW data \in Seq(Byte), NEW pos \in Nat, NEW s \in Seq(Byte), NEW t \in Seq(Byte)
    PROVE  At(data, pos, s \o t) <=> At(data, pos, s) /\ At(data, pos + Len(s), t)
<1>1. PICK m \in Nat, k \in Nat, n \in Nat : m = Len(s) /\ k = Len(t) /\ n = Len(data)
  BY LenProperties
<1>2. PICK u : u = s \o t
  OBVIOUS
<1>3. /\ Len(u) = m + k
      /\ \A i \in 1 .. m : u[i] = s[i]
      /\ \A i \in 1 .. k : u[m + i] = t[i]
  BY <1>1, <1>2, JoinBytes
<1>4. At(data, pos, s) <=> pos + m <= n /\ \A i \in 1 .. m : data[pos + i] = s[i]
  BY <1>1 DEF At
<1>5. At(data, pos + m, t) <=> pos + m + k <= n /\ \A i \in 1 .. k : data[pos + m + i] = t[i]
  BY <1>1 DEF At
<1>6. At(data, pos, u) <=> pos + m + k <= n /\ \A i \in 1 .. m + k : data[pos + i] = u[i]
  BY <1>1, <1>3 DEF At
<1>7. ASSUME At(data, pos, u) PROVE At(data, pos, s) /\ At(data, pos + m, t)
  <2>1. \A i \in 1 .. m : i \in 1 .. m + k
    OBVIOUS
  <2>2. \A i \in 1 .. k : m + i \in 1 .. m + k /\ pos + (m + i) = pos + m + i
    OBVIOUS
  <2>3. QED
    BY <1>3, <1>4, <1>5, <1>6, <1>7, <2>1, <2>2
<1>8. ASSUME At(data, pos, s), At(data, pos + m, t) PROVE At(data, pos, u)
  <2>1. ASSUME NEW i \in 1 .. m + k PROVE data[pos + i] = u[i]
    <3>1. CASE i \in 1 .. m
      BY <1>3, <1>4, <1>8, <3>1
    <3>2. CASE i \notin 1 .. m
      <4>1. PICK j \in 1 .. k : i = m + j
        <5>1. i - m \in 1 .. k /\ i = m + (i - m)
          BY <3>2
        <5>2. QED
          BY <5>1
      <4>2. pos + m + j = pos + i
        BY <4>1
      <4>3. QED
        BY <1>3, <1>5, <1>8, <4>1, <4>2
    <3>3. QED
      BY <3>1, <3>2
  <2>2. QED
    BY <1>5, <1>6, <1>8, <2>1
<1>9. QED
  BY <1>1, <1>2, <1>7, <1>8

\* read_bytes returns bytes, also past the end.
LEMMA ReadType ==
    ASSUME NEW data \in Seq(Byte), NEW pos \in Nat, NEW n \in Int
    PROVE  read_bytes(data, pos, n) \in Seq(Byte)
<1>1. PICK m \in Int : m = (IF pos + n < Len(data) THEN pos + n ELSE Len(data)) /\ m <= Len(data)
  BY LenProperties
<1>2. \A i \in pos + 1 .. m : data[i] \in Byte
  <2>1. ASSUME NEW i \in pos + 1 .. m PROVE i \in 1 .. Len(data)
    BY <1>1, LenProperties
  <2>2. QED
    BY <2>1, ElementOfSeq
<1>3. SubSeq(data, pos + 1, m) \in Seq(Byte)
  BY <1>2, SubSeqProperties
<1>4. QED
  BY <1>1, <1>3 DEF read_bytes

\* read_bytes returns what lies at the position.
LEMMA ReadAt ==
    ASSUME NEW data \in Seq(Byte), NEW pos \in Nat, NEW s \in Seq(Byte), At(data, pos, s)
    PROVE  read_bytes(data, pos, Len(s)) = s
<1>1. PICK m \in Nat, n \in Nat : m = Len(s) /\ n = Len(data)
  BY LenProperties
<1>2. pos + m <= n /\ \A i \in 1 .. m : data[pos + i] = s[i]
  BY <1>1 DEF At
<1>3. read_bytes(data, pos, m) = SubSeq(data, pos + 1, pos + m)
  BY <1>1, <1>2 DEF read_bytes
<1>4. PICK r : r = SubSeq(data, pos + 1, pos + m)
  OBVIOUS
<1>5. \A i \in pos + 1 .. pos + m : data[i] \in Byte
  <2>1. \A i \in pos + 1 .. pos + m : i \in 1 .. Len(data)
    BY <1>1, <1>2
  <2>2. QED
    BY <2>1, ElementOfSeq
<1>6. /\ r \in Seq(Byte) /\ Len(r) = m
      /\ \A i \in 1 .. m : r[i] = data[pos + i]
  <2>1. pos + 1 \in Int /\ pos + m \in Int
    OBVIOUS
  <2>2. /\ r \in Seq(Byte)
        /\ Len(r) = IF pos + 1 <= pos + m THEN pos + m - (pos + 1) + 1 ELSE 0
        /\ \A i \in 1 .. pos + m - (pos + 1) + 1 : r[i] = data[pos + 1 + i - 1]
    BY <1>4, <1>5, <2>1, SubSeqProperties
  <2>3. Len(r) = m
    BY <2>2
  <2>4. ASSUME NEW i \in 1 .. m PROVE r[i] = data[pos + i]
    <3>1. i \in 1 .. pos + m - (pos + 1) + 1 /\ pos + 1 + i - 1 = pos + i
      OBVIOUS
    <3>2. QED
      BY <2>2, <3>1
  <2>5. QED
    BY <2>2, <2>3, <2>4
<1>7. r = s
  BY <1>1, <1>2, <1>6, SeqEqual
<1>8. QED
  BY <1>1, <1>3, <1>4, <1>7

-----------------------------------------------------------------------------
(* Varints, as Buffer.read_varint reads what the tool writes *)

\* What the recursion of read_varint returns.
VarintType == [ok : BOOLEAN, n : Nat, pos : Nat]

\* A number beyond Huge counts as Huge.
Capped(n) == IF n < Huge THEN n ELSE Huge

\* One more byte in front of a varint.
Longer(byte, rest) ==
    [ok |-> rest.ok, n |-> byte - 128 + 128 * Capped(rest.n), pos |-> rest.pos]

\* The definition of read_varint's recursion, as an operator on functions.
VarintStep(data, at) ==
    [p \in Nat |->
       IF p >= Len(data) THEN [ok |-> FALSE, n |-> 0, pos |-> p]
       ELSE IF data[p + 1] < 128 THEN [ok |-> TRUE, n |-> data[p + 1], pos |-> p + 1]
       ELSE Longer(data[p + 1], at[p + 1])]

\* Such a varint is one.
LEMMA LongerType ==
    ASSUME NEW byte \in Nat, byte >= 128, NEW rest \in VarintType
    PROVE  Longer(byte, rest) \in VarintType
  BY HugeIs DEF Longer, Capped, VarintType

\* Buffer.read_varint finds an end, or the end of the data, from anywhere.
LEMMA VarintIs ==
    ASSUME NEW data \in Seq(Byte)
    PROVE  \E at \in [Nat -> VarintType] :
             at = VarintStep(data, at) /\ \A pos \in Nat : raw_varint(data, pos) = at[pos]
<1>1. PICK len \in Nat : len = Len(data)
  BY LenProperties
<1> DEFINE S == Nat
           stop == {p \in Nat : p >= len \/ data[p + 1] < 128}
           base == [p \in S |-> IF p >= len THEN [ok |-> FALSE, n |-> 0, pos |-> p]
                                ELSE [ok |-> TRUE, n |-> data[p + 1], pos |-> p + 1]]
           next == [p \in S |-> p + 1]
           comb == [p \in S |-> [rest \in VarintType |->
                      IF p \in stop THEN rest ELSE Longer(data[p + 1], rest)]]
           size == [p \in S |-> IF p >= len THEN 0 ELSE len - p]
           at == CHOOSE v : v = VarintStep(data, v)
<1>2. \A p \in S : ~(p >= len) => data[p + 1] \in Nat
  <2>1. \A p \in S : ~(p >= len) => p + 1 \in 1 .. Len(data)
    BY <1>1
  <2>2. QED
    BY <2>1, ByteAt
<1>3. Loop(S, VarintType, stop, base, next, comb, size)
  <2>1. base \in [S -> VarintType]
    BY <1>2 DEF VarintType
  <2>2. next \in [S -> S] /\ size \in [S -> Nat]
    OBVIOUS
  <2>3. comb \in [S -> [VarintType -> VarintType]]
    <3>1. ASSUME NEW p \in S, NEW rest \in VarintType, p \notin stop
          PROVE  Longer(data[p + 1], rest) \in VarintType
      <4>1. data[p + 1] \in Nat /\ data[p + 1] >= 128
        BY <1>2, <3>1
      <4>2. QED
        BY <4>1, LongerType
    <3>2. QED
      BY <3>1
  <2>4. \A p \in S : p \notin stop => size[next[p]] < size[p]
    OBVIOUS
  <2> HIDE DEF S, stop, base, next, comb, size
  <2>5. QED
    BY <2>1, <2>2, <2>3, <2>4 DEF Loop
<1>4. PICK f \in [S -> VarintType] : Unrolls(f, S, stop, base, next, comb)
  <2> HIDE DEF S, stop, base, next, comb, size
  <2>1. QED
    BY <1>3, Recursion
<1>5. ASSUME NEW p \in S
      PROVE  f[p] = IF p >= len THEN [ok |-> FALSE, n |-> 0, pos |-> p]
                    ELSE IF data[p + 1] < 128 THEN [ok |-> TRUE, n |-> data[p + 1], pos |-> p + 1]
                    ELSE Longer(data[p + 1], f[p + 1])
  <2>1. f[p] = IF p \in stop THEN base[p] ELSE comb[p][f[next[p]]]
    BY <1>4 DEF Unrolls
  <2>2. CASE p \in stop
    BY <2>1, <2>2
  <2>3. CASE p \notin stop
    <3>1. next[p] = p + 1 /\ f[p + 1] \in VarintType
      OBVIOUS
    <3>2. f[p] = Longer(data[p + 1], f[p + 1])
      BY <2>1, <2>3, <3>1
    <3>3. ~(p >= len) /\ ~(data[p + 1] < 128)
      BY <2>3
    <3>4. QED
      BY <3>2, <3>3
  <2>4. QED
    BY <2>2, <2>3
<1>6. f = VarintStep(data, f)
  BY <1>1, <1>5 DEF VarintStep
<1>7. at = VarintStep(data, at)
  BY <1>6
<1>8. \A pos \in Nat : raw_varint(data, pos) = at[pos]
  BY DEF raw_varint, VarintStep, Longer, Capped
<1>9. at \in [Nat -> VarintType]
  <2> DEFINE P == {p \in S : at[p] \in VarintType}
  <2>1. ASSUME NEW p \in S, p \in stop \/ next[p] \in P
        PROVE  p \in P
    <3>1. at[p] = IF p >= len THEN [ok |-> FALSE, n |-> 0, pos |-> p]
                  ELSE IF data[p + 1] < 128 THEN [ok |-> TRUE, n |-> data[p + 1], pos |-> p + 1]
                  ELSE Longer(data[p + 1], at[p + 1])
      BY <1>1, <1>7 DEF VarintStep
    <3>2. CASE p \in stop
      <4>1. at[p] = base[p]
        BY <3>1, <3>2
      <4>2. base[p] \in VarintType
        BY <1>3 DEF Loop
      <4>3. QED
        BY <4>1, <4>2
    <3>3. CASE p \notin stop
      <4>1. at[p + 1] \in VarintType
        BY <2>1, <3>3
      <4>2. data[p + 1] \in Nat /\ data[p + 1] >= 128 /\ ~(p >= len) /\ ~(data[p + 1] < 128)
        BY <1>2, <3>3
      <4>3. at[p] \in VarintType
        BY <3>1, <4>1, <4>2, LongerType
      <4>4. QED
        BY <4>3
    <3>4. QED
      BY <3>2, <3>3
  <2>2. \A p \in S : p \in P
    <3> HIDE DEF S, stop, base, next, comb, size, P
    <3>1. QED
      BY <1>3, <2>1, LoopInduction
  <2>3. at = [p \in Nat |-> at[p]]
    <3> HIDE DEF at
    <3>1. VarintStep(data, at) = [p \in Nat |-> VarintStep(data, at)[p]]
      BY DEF VarintStep
    <3>2. QED
      BY <1>7, <3>1
  <2>4. QED
    BY <2>2, <2>3
<1>10. QED
  BY <1>7, <1>8, <1>9

\* The fields of such a varint.
LEMMA LongerIs ==
    ASSUME NEW byte, NEW n, NEW pos
    PROVE  Longer(byte, [ok |-> TRUE, n |-> n, pos |-> pos]) =
             [ok |-> TRUE, n |-> byte - 128 + 128 * Capped(n), pos |-> pos]
  BY DEF Longer

\* A number that a varint holds is read from wherever its bytes are.
LEMMA VarintRead ==
    ASSUME NEW data \in Seq(Byte), NEW n \in Nat, NEW pos \in Nat, n < 128 * Huge,
           At(data, pos, encode_uvarint[n])
    PROVE  raw_varint(data, pos) = [ok |-> TRUE, n |-> n, pos |-> pos + Len(encode_uvarint[n])]
<1> DEFINE Right(k, p) == raw_varint(data, p) =
             [ok |-> TRUE, n |-> k, pos |-> p + Len(encode_uvarint[k])]
           Bad == {k \in Nat : k < 128 * Huge /\ \E p \in Nat :
                     At(data, p, encode_uvarint[k]) /\ ~Right(k, p)}
<1>1. SUFFICES ASSUME Bad # {} PROVE FALSE
  OBVIOUS
<1>2. PICK k \in Bad : \A j \in Bad : k <= j
  <2>1. Bad \in SUBSET Nat
    OBVIOUS
  <2> HIDE DEF Bad
  <2>2. QED
    BY <1>1, <2>1, LeastElement
<1>3. PICK p \in Nat : At(data, p, encode_uvarint[k]) /\ ~Right(k, p)
  BY <1>2
<1>4. k \in Nat /\ k < 128 * Huge
  BY <1>2
<1>5. PICK at \in [Nat -> VarintType] :
        at = VarintStep(data, at) /\ \A q \in Nat : raw_varint(data, q) = at[q]
  BY VarintIs
<1>6. PICK len \in Nat : len = Len(data)
  BY LenProperties
<1>7. at[p] = IF p >= len THEN [ok |-> FALSE, n |-> 0, pos |-> p]
              ELSE IF data[p + 1] < 128 THEN [ok |-> TRUE, n |-> data[p + 1], pos |-> p + 1]
              ELSE Longer(data[p + 1], at[p + 1])
  BY <1>5, <1>6 DEF VarintStep
<1>8. encode_uvarint[k] = IF k > 127 THEN <<(k % 128) + 128>> \o encode_uvarint[k \div 128]
                          ELSE <<k>>
  BY <1>4, EncodeIs
<1>9. CASE k <= 127
  <2>1. encode_uvarint[k] = <<k>> /\ Len(<<k>>) = 1
    BY <1>4, <1>8, <1>9
  <2>2. At(data, p, <<k>>)
    BY <1>3, <2>1
  <2>3. data[p + 1] = k /\ p + 1 <= len
    BY <1>6, <2>2, AtByte
  <2>4. at[p] = [ok |-> TRUE, n |-> k, pos |-> p + 1]
    BY <1>4, <1>7, <1>9, <2>3
  <2>5. QED
    BY <1>3, <1>5, <2>1, <2>4
<1>10. CASE k > 127
  <2>1. PICK rest \in Nat, byte \in Nat :
          rest = k \div 128 /\ byte = (k % 128) + 128 /\ k = 128 * rest + byte - 128
          /\ rest < k /\ byte \in Byte /\ byte >= 128
    BY <1>4, <1>10, DivMod DEF Byte
  <2>2. PICK s \in Seq(Byte) : s = encode_uvarint[rest]
    BY EncodeIs
  <2>3. encode_uvarint[k] = <<byte>> \o s
    BY <1>8, <1>10, <2>1, <2>2
  <2>4. <<byte>> \in Seq(Byte) /\ Len(<<byte>>) = 1
    BY <2>1
  <2>5. At(data, p, <<byte>>) /\ At(data, p + 1, s)
    BY <1>3, <2>3, <2>4, AtJoin
  <2>6. data[p + 1] = byte /\ p + 1 <= len
    BY <1>6, <2>5, AtByte
  <2>7. rest \notin Bad /\ rest < Huge
    BY <1>2, <1>4, <2>1, HugeIs
  <2>8. Right(rest, p + 1)
    <3>1. p + 1 \in Nat /\ At(data, p + 1, encode_uvarint[rest]) /\ rest < 128 * Huge
      BY <2>2, <2>5, <2>7, HugeIs
    <3>2. QED
      BY <2>7, <3>1
  <2>9. at[p + 1] = [ok |-> TRUE, n |-> rest, pos |-> p + 1 + Len(s)]
    BY <1>5, <2>2, <2>8
  <2>10. at[p] = Longer(byte, at[p + 1])
    BY <1>7, <2>1, <2>6
  <2>11. at[p] = [ok |-> TRUE, n |-> k, pos |-> p + 1 + Len(s)]
    <3>1. Len(s) \in Nat
      BY LenProperties
    <3>2. PICK there \in Nat : there = p + 1 + Len(s)
      BY <3>1
    <3>3. at[p + 1] = [ok |-> TRUE, n |-> rest, pos |-> there]
      BY <2>9, <3>2
    <3>4. Longer(byte, at[p + 1]) =
            [ok |-> TRUE, n |-> byte - 128 + 128 * Capped(rest), pos |-> there]
      BY <3>3, LongerIs
    <3>5. byte - 128 + 128 * Capped(rest) = k
      BY <2>1, <2>7 DEF Capped
    <3>6. QED
      BY <2>10, <3>2, <3>4, <3>5
  <2>12. Len(encode_uvarint[k]) = 1 + Len(s) /\ Len(s) \in Nat
    <3>1. Len(<<byte>> \o s) = 1 + Len(s)
      BY <2>1, ByteSeq
    <3>2. QED
      BY <2>2, <2>3, <3>1, LenProperties
  <2>13. p + 1 + Len(s) = p + Len(encode_uvarint[k])
    BY <2>12
  <2>14. QED
    BY <1>3, <1>5, <2>11, <2>13
<1>11. QED
  BY <1>4, <1>9, <1>10

\* read_varint returns a number and a position, whatever the bytes are.
LEMMA VarintReadType ==
    ASSUME NEW data \in Seq(Byte), NEW pos \in Nat
    PROVE  read_varint(data, pos) \in [ok : BOOLEAN, n : Int, pos : Nat]
<1>1. PICK raw \in VarintType : raw = raw_varint(data, pos)
  BY VarintIs
<1>2. PICK n \in Nat : n = raw.n /\ raw.ok \in BOOLEAN /\ raw.pos \in Nat
  BY <1>1 DEF VarintType
<1>3. (IF n % 2 = 0 THEN n \div 2 ELSE -((n + 1) \div 2)) \in Int
  OBVIOUS
<1>4. read_varint(data, pos) =
        [ok |-> raw.ok, n |-> IF n % 2 = 0 THEN n \div 2 ELSE -((n + 1) \div 2), pos |-> raw.pos]
  BY <1>1, <1>2 DEF read_varint, VarintType
<1>5. QED
  BY <1>2, <1>3, <1>4

\* Zigzag there and back.
LEMMA ZigzagRead ==
    ASSUME NEW data \in Seq(Byte), NEW n \in Nat \cup {-1}, n < 32 * Huge, NEW pos \in Nat,
           At(data, pos, _zigzag(n))
    PROVE  /\ read_varint(data, pos) = [ok |-> TRUE, n |-> n, pos |-> pos + Len(_zigzag(n))]
           /\ _zigzag(n) \in Seq(Byte)
<1>1. PICK z \in Nat : z = (IF n < 0 THEN -2 * n - 1 ELSE 2 * n) /\ z < 128 * Huge
  BY HugeIs
<1>2. _zigzag(n) = encode_uvarint[z]
  BY <1>1 DEF _zigzag
<1>3. raw_varint(data, pos) = [ok |-> TRUE, n |-> z, pos |-> pos + Len(encode_uvarint[z])]
  BY <1>1, <1>2, VarintRead
<1>4. n = IF z % 2 = 0 THEN z \div 2 ELSE -((z + 1) \div 2)
  BY <1>1
<1>5. PICK e \in Seq(Byte) : e = encode_uvarint[z]
  BY EncodeIs
<1>6. PICK there : there = pos + Len(e)
  OBVIOUS
<1>7. raw_varint(data, pos) = [ok |-> TRUE, n |-> z, pos |-> there]
  BY <1>3, <1>5, <1>6
<1>8. read_varint(data, pos) = [ok |-> TRUE, n |-> n, pos |-> there]
  <2>1. read_varint(data, pos) =
          [ok |-> TRUE, n |-> IF z % 2 = 0 THEN z \div 2 ELSE -((z + 1) \div 2), pos |-> there]
    <3>1. PICK raw \in VarintType : raw = raw_varint(data, pos)
      BY VarintIs
    <3>2. raw.ok = TRUE /\ raw.n = z /\ raw.pos = there
      BY <1>7, <3>1
    <3>3. read_varint(data, pos) =
            [ok |-> raw.ok, n |-> IF z % 2 = 0 THEN z \div 2 ELSE -((z + 1) \div 2),
             pos |-> raw.pos]
      BY <3>1, <3>2 DEF read_varint, VarintType
    <3>4. QED
      BY <3>2, <3>3
  <2>2. QED
    BY <1>4, <2>1
<1>9. QED
  BY <1>2, <1>5, <1>6, <1>8

-----------------------------------------------------------------------------
(* Sequences one behind the other: FlattenSeq *)

\* A sequence behind another one.
LEMMA Join ==
    ASSUME NEW T, NEW s \in Seq(T), NEW t \in Seq(T)
    PROVE  s \o t \in Seq(T) /\ Len(s \o t) = Len(s) + Len(t)
  BY ConcatProperties

\* Concatenation is associative.
LEMMA Associate ==
    ASSUME NEW T, NEW s \in Seq(T), NEW t \in Seq(T), NEW u \in Seq(T)
    PROVE  (s \o t) \o u = s \o (t \o u)
  BY ConcatAssociative

\* Concatenation is associative, said without a concatenation.
Group(p, q, r) == (p \o q) \o r = p \o (q \o r)

\* So it is.
LEMMA Grouped ==
    ASSUME NEW T, NEW p \in Seq(T), NEW q \in Seq(T), NEW r \in Seq(T)
    PROVE  Group(p, q, r)
  BY Associate DEF Group

\* The empty sequence changes nothing.
LEMMA JoinNothing ==
    ASSUME NEW T, NEW s \in Seq(T)
    PROVE  <<>> \o s = s /\ s \o <<>> = s
  BY ConcatEmptySeq

\* f[i] is what the first i sequences are one behind the other.
Together(T, ss, f) ==
    /\ f \in [0 .. Len(ss) -> Seq(T)]
    /\ f[0] = <<>>
    /\ \A i \in 1 .. Len(ss) : f[i] = f[i - 1] \o ss[i]

\* The definition of the community module's fold, as an operator on functions.
FlattenStep(ss, v) == [i \in 1 .. Len(ss) |-> IF i = 1 THEN ss[i] ELSE v[i - 1] \o ss[i]]

\* FlattenSeq is the last of them.
LEMMA FlattenIs ==
    ASSUME NEW T, NEW ss \in Seq(Seq(T))
    PROVE  \E f : Together(T, ss, f) /\ FlattenSeq(ss) = f[Len(ss)]
<1>1. PICK n \in Nat : n = Len(ss)
  BY LenProperties
<1>2. CASE n = 0
  <2>1. ss = <<>> /\ FlattenSeq(ss) = <<>>
    BY <1>1, <1>2, EmptySeq DEF FlattenSeq
  <2>2. PICK f : f = [i \in 0 .. 0 |-> <<>>]
    OBVIOUS
  <2>3. f \in [0 .. 0 -> Seq(T)] /\ f[0] = <<>>
    BY <2>2
  <2>4. \A i \in 1 .. 0 : f[i] = f[i - 1] \o ss[i]
    OBVIOUS
  <2>5. QED
    BY <1>1, <1>2, <2>1, <2>3, <2>4 DEF Together
<1>3. CASE n # 0
  <2> DEFINE S == 1 .. n
             stop == {1}
             base == [i \in S |-> ss[i]]
             next == [i \in S |-> IF i = 1 THEN 1 ELSE i - 1]
             comb == [i \in S |-> [s \in Seq(T) |-> s \o ss[i]]]
             size == [i \in S |-> i]
             flatten == CHOOSE v : v = FlattenStep(ss, v)
  <2>1. \A i \in S : ss[i] \in Seq(T)
    BY <1>1, ElementOfSeq
  <2>2. Loop(S, Seq(T), stop, base, next, comb, size)
    <3>1. base \in [S -> Seq(T)] /\ next \in [S -> S] /\ size \in [S -> Nat]
      BY <2>1
    <3>2. comb \in [S -> [Seq(T) -> Seq(T)]]
      BY <2>1, Join
    <3>3. \A i \in S : i \notin stop => size[next[i]] < size[i]
      OBVIOUS
    <3> HIDE DEF S, stop, base, next, comb, size
    <3>4. QED
      BY <3>1, <3>2, <3>3 DEF Loop
  <2>3. PICK g \in [S -> Seq(T)] : Unrolls(g, S, stop, base, next, comb)
    <3> HIDE DEF S, stop, base, next, comb, size
    <3>1. QED
      BY <2>2, Recursion
  <2>4. ASSUME NEW i \in S PROVE g[i] = IF i = 1 THEN ss[i] ELSE g[i - 1] \o ss[i]
    <3>1. g[i] = IF i \in stop THEN base[i] ELSE comb[i][g[next[i]]]
      BY <2>3 DEF Unrolls
    <3>2. CASE i = 1
      BY <3>1, <3>2
    <3>3. CASE i # 1
      <4>1. next[i] = i - 1 /\ i - 1 \in S /\ g[i - 1] \in Seq(T)
        BY <3>3
      <4>2. g[i] = comb[i][g[i - 1]]
        BY <3>1, <3>3, <4>1
      <4>3. QED
        BY <3>3, <4>1, <4>2
    <3>4. QED
      BY <3>2, <3>3
  <2>5. g = FlattenStep(ss, g)
    BY <1>1, <2>4 DEF FlattenStep
  <2>6. flatten = FlattenStep(ss, flatten)
    BY <2>5
  <2>7. FlattenSeq(ss) = flatten[n]
    BY <1>1, <1>3 DEF FlattenSeq, FlattenStep
  <2>8. \A i \in S : flatten[i] = IF i = 1 THEN ss[i] ELSE flatten[i - 1] \o ss[i]
    BY <1>1, <2>6 DEF FlattenStep
  <2>9. \A i \in S : flatten[i] \in Seq(T)
    <3> DEFINE P == {i \in S : flatten[i] \in Seq(T)}
    <3>1. ASSUME NEW i \in S, i \in stop \/ next[i] \in P
          PROVE  i \in P
      <4>1. CASE i = 1
        BY <2>1, <2>8, <4>1
      <4>2. CASE i # 1
        <5>1. flatten[i - 1] \in Seq(T)
          BY <3>1, <4>2
        <5>2. flatten[i] = flatten[i - 1] \o ss[i]
          BY <2>8, <4>2
        <5>3. flatten[i] \in Seq(T)
          BY <2>1, <5>1, <5>2, Join
        <5>4. QED
          BY <5>3
      <4>3. QED
        BY <4>1, <4>2
    <3>2. \A i \in S : i \in P
      <4> HIDE DEF S, stop, base, next, comb, size, P
      <4>1. QED
        BY <2>2, <3>1, LoopInduction
    <3>3. QED
      BY <3>2
  <2> HIDE DEF flatten
  <2>10. PICK f : f = [i \in 0 .. n |-> IF i = 0 THEN <<>> ELSE flatten[i]]
    OBVIOUS
  <2>11. f \in [0 .. n -> Seq(T)]
    BY <2>9, <2>10
  <2>12. ASSUME NEW i \in 1 .. n PROVE f[i] = f[i - 1] \o ss[i]
    <3>1. CASE i = 1
      <4>1. f[i - 1] = <<>> /\ f[i] = ss[i]
        BY <2>8, <2>10, <3>1
      <4>2. QED
        BY <2>1, <4>1, JoinNothing
    <3>2. CASE i # 1
      <4>1. f[i - 1] = flatten[i - 1] /\ f[i] = flatten[i]
        BY <2>10, <3>2
      <4>2. QED
        BY <2>8, <3>2, <4>1
    <3>3. QED
      BY <3>1, <3>2
  <2>13. f[0] = <<>> /\ f[n] = flatten[n]
    BY <1>3, <2>10
  <2>14. QED
    BY <1>1, <2>7, <2>11, <2>12, <2>13 DEF Together
<1>4. QED
  BY <1>2, <1>3

\* Induction from 0 up to n, and from n down to 0.
LEMMA UpTo ==
    ASSUME NEW n \in Nat, NEW P, 0 \in P,
           \A k \in 0 .. n : k # n /\ k \in P => k + 1 \in P
    PROVE  \A k \in 0 .. n : k \in P
<1> DEFINE Bad == {k \in 0 .. n : k \notin P}
<1>1. SUFFICES ASSUME Bad # {} PROVE FALSE
  OBVIOUS
<1>2. PICK k \in Bad : \A j \in Bad : k <= j
  <2>1. Bad \in SUBSET Nat
    OBVIOUS
  <2> HIDE DEF Bad
  <2>2. QED
    BY <1>1, <2>1, LeastElement
<1>3. PICK j \in 0 .. n : k = j + 1 /\ j # n /\ ~(k <= j)
  <2>1. k # 0 /\ k \in 0 .. n
    BY <1>2
  <2>2. k - 1 \in 0 .. n /\ k = (k - 1) + 1 /\ k - 1 # n /\ ~(k <= k - 1)
    BY <2>1
  <2>3. QED
    BY <2>2
<1>4. j \in P
  BY <1>2, <1>3
<1>5. QED
  BY <1>2, <1>3, <1>4

\* And down from n to 0.
LEMMA DownTo ==
    ASSUME NEW n \in Nat, NEW P, n \in P,
           \A k \in 0 .. n : k # 0 /\ k \in P => k - 1 \in P
    PROVE  \A k \in 0 .. n : k \in P
<1> DEFINE Q == {k \in 0 .. n : n - k \in P}
<1>1. 0 \in Q
  BY n - 0 = n
<1>2. ASSUME NEW k \in 0 .. n, k # n, k \in Q PROVE k + 1 \in Q
  <2>1. n - k \in 0 .. n /\ n - k # 0 /\ n - (k + 1) = n - k - 1 /\ k + 1 \in 0 .. n
    BY <1>2
  <2>2. QED
    BY <1>2, <2>1
<1>3. \A k \in 0 .. n : k \in Q
  <2> HIDE DEF Q
  <2>1. QED
    BY <1>1, <1>2, UpTo
<1>4. ASSUME NEW k \in 0 .. n PROVE k \in P
  <2>1. n - k \in 0 .. n /\ n - (n - k) = k
    OBVIOUS
  <2>2. QED
    BY <1>3, <2>1
<1>5. QED
  BY <1>4

\* Flattened sequences of T are a sequence of T.
LEMMA FlattenType ==
    ASSUME NEW T, NEW ss \in Seq(Seq(T))
    PROVE  FlattenSeq(ss) \in Seq(T)
<1>1. PICK f : Together(T, ss, f) /\ FlattenSeq(ss) = f[Len(ss)]
  BY FlattenIs
<1>2. Len(ss) \in 0 .. Len(ss)
  BY LenProperties
<1>3. QED
  BY <1>1, <1>2 DEF Together

\* What flattened sequences begin with does not depend on what follows.
LEMMA TogetherSame ==
    ASSUME NEW T, NEW ss, NEW tt, NEW f, NEW g, NEW m \in Nat,
           Together(T, ss, f), Together(T, tt, g),
           Len(ss) \in Nat, Len(tt) \in Nat, m <= Len(ss), m <= Len(tt),
           \A i \in 1 .. m : ss[i] = tt[i]
    PROVE  \A i \in 0 .. m : f[i] = g[i]
<1> DEFINE P == {i \in 0 .. m : f[i] = g[i]}
<1>1. 0 \in P
  BY DEF Together
<1>2. ASSUME NEW k \in 0 .. m, k # m, k \in P PROVE k + 1 \in P
  <2>1. PICK i : i = k + 1
    OBVIOUS
  <2>2. i \in 1 .. m /\ i \in 1 .. Len(ss) /\ i \in 1 .. Len(tt) /\ i - 1 = k
    BY <1>2, <2>1
  <2>3. f[i] = f[k] \o ss[i] /\ g[i] = g[k] \o tt[i] /\ ss[i] = tt[i]
    BY <2>2 DEF Together
  <2>4. f[k] = g[k]
    BY <1>2
  <2>5. f[i] = g[i] /\ i \in 0 .. m
    BY <2>2, <2>3, <2>4
  <2>6. QED
    BY <2>1, <2>5
<1>3. \A i \in 0 .. m : i \in P
  <2> HIDE DEF P
  <2>1. QED
    BY <1>1, <1>2, UpTo
<1>4. QED
  BY <1>3

\* Flattening of sequences behind others.
LEMMA FlattenJoin ==
    ASSUME NEW T, NEW ss \in Seq(Seq(T)), NEW tt \in Seq(Seq(T))
    PROVE  FlattenSeq(ss \o tt) = FlattenSeq(ss) \o FlattenSeq(tt)
<1>1. PICK m \in Nat, n \in Nat : m = Len(ss) /\ n = Len(tt)
  BY LenProperties
<1>2. PICK uu \in Seq(Seq(T)) : uu = ss \o tt
  BY Join
<1>3. Len(uu) = m + n /\ \A i \in 1 .. m + n : uu[i] = IF i <= m THEN ss[i] ELSE tt[i - m]
  BY <1>1, <1>2, ConcatProperties
<1>4. PICK f : Together(T, uu, f) /\ FlattenSeq(uu) = f[m + n]
  BY <1>3, FlattenIs
<1>5. PICK g : Together(T, ss, g) /\ FlattenSeq(ss) = g[m]
  BY <1>1, FlattenIs
<1>6. PICK h : Together(T, tt, h) /\ FlattenSeq(tt) = h[n]
  BY <1>1, FlattenIs
<1>7. f[m] = g[m]
  <2>1. \A i \in 1 .. m : uu[i] = ss[i]
    BY <1>3
  <2>2. Len(uu) \in Nat /\ Len(ss) \in Nat /\ m <= Len(uu) /\ m <= Len(ss) /\ m \in 0 .. m
    BY <1>1, <1>3
  <2>3. \A i \in 0 .. m : f[i] = g[i]
    BY <1>4, <1>5, <2>1, <2>2, TogetherSame
  <2>4. QED
    BY <2>2, <2>3
<1>8. PICK first \in Seq(T) : first = g[m]
  <2>1. m \in 0 .. m
    OBVIOUS
  <2>2. QED
    BY <1>1, <1>5, <2>1 DEF Together
<1> DEFINE P == {j \in 0 .. n : f[m + j] = first \o h[j]}
<1>9. 0 \in P
  <2>1. h[0] = <<>> /\ first \o <<>> = first /\ m + 0 = m
    BY <1>6, JoinNothing DEF Together
  <2>2. f[m + 0] = first \o h[0]
    BY <1>7, <1>8, <2>1
  <2>3. 0 \in 0 .. n
    OBVIOUS
  <2>4. QED
    BY <2>2, <2>3
<1>10. ASSUME NEW k \in 0 .. n, k # n, k \in P PROVE k + 1 \in P
  <2>1. PICK j \in 1 .. n : j = k + 1 /\ j - 1 = k
    BY <1>10
  <2>2. f[m + j] = f[m + k] \o tt[j]
    <3>1. PICK i : i = m + j
      OBVIOUS
    <3>2. i \in 1 .. Len(uu) /\ i - 1 = m + k /\ i - m = j /\ ~(i <= m) /\ i \in 1 .. m + n
      BY <1>1, <1>3, <2>1, <3>1
    <3>3. uu[i] = tt[j]
      BY <1>3, <3>2
    <3>4. f[i] = f[i - 1] \o uu[i]
      BY <1>4, <3>2 DEF Together
    <3>5. QED
      BY <3>1, <3>2, <3>3, <3>4
  <2>3. h[j] = h[k] \o tt[j]
    <3>1. j \in 1 .. Len(tt)
      BY <1>1
    <3>2. QED
      BY <1>6, <2>1, <3>1 DEF Together
  <2>4. PICK a \in Seq(T), b \in Seq(T) : a = h[k] /\ b = tt[j]
    <3>1. h[k] \in Seq(T)
      BY <1>1, <1>6 DEF Together
    <3>2. tt[j] \in Seq(T)
      BY <1>1, ElementOfSeq
    <3>3. QED
      BY <3>1, <3>2
  <2>5. (first \o a) \o b = first \o (a \o b)
    <3>1. Group(first, a, b)
      BY Grouped
    <3>2. QED
      BY <3>1, Zenon DEF Group
  <2>6. f[m + k] = first \o a
    BY <1>10, <2>4
  <2>7. f[m + j] = first \o h[j]
    BY <2>2, <2>3, <2>4, <2>5, <2>6
  <2>8. QED
    BY <2>1, <2>7
<1>11. \A j \in 0 .. n : j \in P
  <2> HIDE DEF P
  <2>1. QED
    BY <1>9, <1>10, UpTo
<1>12. f[m + n] = first \o h[n]
  <2>1. n \in 0 .. n
    OBVIOUS
  <2>2. n \in P
    BY <1>11, <2>1
  <2>3. QED
    BY <2>2
<1>13. QED
  BY <1>2, <1>4, <1>5, <1>6, <1>8, <1>12

\* A sequence among those that are flattened is found behind those before it.
LEMMA PieceAt ==
    ASSUME NEW ss \in Seq(Seq(Byte)), NEW f, Together(Byte, ss, f),
           NEW data \in Seq(Byte), NEW pos \in Nat, At(data, pos, f[Len(ss)])
    PROVE  \A i \in 1 .. Len(ss) : At(data, pos + Len(f[i - 1]), ss[i])
<1>1. PICK n \in Nat : n = Len(ss)
  BY LenProperties
<1>2. ASSUME NEW i \in 1 .. n, At(data, pos, f[i])
      PROVE  At(data, pos, f[i - 1]) /\ At(data, pos + Len(f[i - 1]), ss[i])
  <2>1. PICK s \in Seq(Byte), a \in Seq(Byte) : s = ss[i] /\ a = f[i - 1] /\ f[i] = a \o s
    <3>1. ss[i] \in Seq(Byte)
      BY <1>1, ElementOfSeq
    <3>2. i - 1 \in 0 .. n
      OBVIOUS
    <3>3. f[i - 1] \in Seq(Byte) /\ f[i] = f[i - 1] \o ss[i]
      BY <1>1, <3>2 DEF Together
    <3>4. QED
      BY <3>1, <3>3
  <2>2. At(data, pos, a \o s)
    BY <1>2, <2>1
  <2>3. QED
    BY <2>1, <2>2, AtJoin
<1> DEFINE P == {k \in 0 .. n : At(data, pos, f[k])}
<1>3. n \in P
  BY <1>1
<1>4. ASSUME NEW k \in 0 .. n, k # 0, k \in P PROVE k - 1 \in P
  <2>1. k \in 1 .. n /\ k - 1 \in 0 .. n /\ At(data, pos, f[k])
    BY <1>4
  <2>2. QED
    BY <1>2, <2>1
<1>5. \A k \in 0 .. n : k \in P
  <2> HIDE DEF P
  <2>1. QED
    BY <1>3, <1>4, DownTo
<1>6. QED
  BY <1>1, <1>2, <1>5

-----------------------------------------------------------------------------
(* How long varints are *)

\* A varint of a number below 2^21 has at most four bytes, of one below 2^13 two.
LEMMA EncodeLength ==
    ASSUME NEW n \in Nat, n < 128 * Huge
    PROVE  /\ encode_uvarint[n] \in Seq(Byte)
           /\ 1 <= Len(encode_uvarint[n]) /\ Len(encode_uvarint[n]) <= 4
           /\ n < 128 => Len(encode_uvarint[n]) = 1
           /\ n < 128 * 128 => Len(encode_uvarint[n]) <= 2
<1>1. ASSUME NEW k \in Nat
      PROVE  /\ encode_uvarint[k] \in Seq(Byte) /\ Len(encode_uvarint[k]) \in Nat
             /\ k < 128 => Len(encode_uvarint[k]) = 1
             /\ k >= 128 => /\ k \div 128 \in Nat /\ 128 * (k \div 128) <= k
                            /\ Len(encode_uvarint[k]) = 1 + Len(encode_uvarint[k \div 128])
  <2>1. PICK e \in Seq(Byte) : e = encode_uvarint[k]
    BY EncodeIs
  <2>2. Len(e) \in Nat
    BY LenProperties
  <2>3. e = IF k > 127 THEN <<(k % 128) + 128>> \o encode_uvarint[k \div 128] ELSE <<k>>
    BY <2>1, EncodeIs
  <2>4. CASE k < 128
    <3>1. ~(k > 127)
      BY <2>4
    <3>2. e = <<k>> /\ Len(<<k>>) = 1
      BY <2>3, <3>1
    <3>3. QED
      BY <2>1, <2>2, <2>4, <3>2
  <2>5. CASE k >= 128
    <3>1. PICK rest \in Nat, byte \in Byte :
            rest = k \div 128 /\ byte = (k % 128) + 128 /\ 128 * rest <= k
      BY <2>5, DivMod DEF Byte
    <3>2. PICK s \in Seq(Byte) : s = encode_uvarint[rest]
      BY EncodeIs
    <3>3. k > 127
      BY <2>5
    <3>4. e = <<byte>> \o s
      BY <2>3, <3>3, <3>1, <3>2
    <3>5. Len(e) = 1 + Len(s)
      BY <3>4, ByteSeq
    <3>6. QED
      BY <2>1, <2>2, <2>5, <3>1, <3>2, <3>5
  <2>6. QED
    BY <2>4, <2>5
<1> DEFINE l(k) == Len(encode_uvarint[k])
<1>2. \A k \in Nat : k < 128 => l(k) = 1
  BY <1>1
<1>3. ASSUME NEW k \in Nat, k >= 128
      PROVE  \E q \in Nat : q = k \div 128 /\ 128 * q <= k /\ l(k) = 1 + l(q)
  BY <1>1, <1>3
<1>4. \A k \in Nat : l(k) \in Nat
  BY <1>1
<1> HIDE DEF l
<1>5. ASSUME NEW k \in Nat, k < 128 * 128 PROVE l(k) \in 1 .. 2
  <2>1. CASE k < 128
    BY <1>2, <2>1
  <2>2. CASE k >= 128
    <3>1. PICK q \in Nat : q = k \div 128 /\ 128 * q <= k /\ l(k) = 1 + l(q)
      BY <1>3, <2>2
    <3>2. q < 128 /\ l(k) = 1 + l(q) /\ l(q) \in Nat
      BY <1>5, <1>4, <3>1
    <3>3. QED
      BY <1>2, <3>2
  <2>3. QED
    BY <2>1, <2>2
<1>6. ASSUME NEW k \in Nat, k < 128 * 128 * 128 PROVE l(k) \in 1 .. 3
  <2>1. CASE k < 128
    BY <1>2, <2>1
  <2>2. CASE k >= 128
    <3>1. PICK q \in Nat : q = k \div 128 /\ 128 * q <= k /\ l(k) = 1 + l(q)
      BY <1>3, <2>2
    <3>2. q < 128 * 128 /\ l(k) = 1 + l(q) /\ l(q) \in Nat
      BY <1>6, <1>4, <3>1
    <3>3. QED
      BY <1>5, <3>2
  <2>3. QED
    BY <2>1, <2>2
<1>7. ASSUME NEW k \in Nat, k < 128 * Huge PROVE l(k) \in 1 .. 4
  <2>1. CASE k < 128
    BY <1>2, <2>1
  <2>2. CASE k >= 128
    <3>1. PICK q \in Nat : q = k \div 128 /\ 128 * q <= k /\ l(k) = 1 + l(q)
      BY <1>3, <2>2
    <3>2. q < 128 * 128 * 128 /\ l(k) = 1 + l(q) /\ l(q) \in Nat
      BY <1>7, <1>4, <3>1 DEF Huge
    <3>3. QED
      BY <1>6, <3>2
  <2>3. QED
    BY <2>1, <2>2
<1>8. l(n) \in 1 .. 4
  BY <1>7
<1>9. 1 <= l(n) /\ l(n) <= 4
  BY <1>8
<1>10. l(n) = Len(encode_uvarint[n]) /\ encode_uvarint[n] \in Seq(Byte)
  BY <1>1 DEF l
<1>11. n < 128 => l(n) = 1
  BY <1>2
<1>12. n < 128 * 128 => l(n) <= 2
  BY <1>5
<1>13. QED
  BY <1>9, <1>10, <1>11, <1>12

\* 0 and -1 take one byte.
LEMMA SmallZigzags ==
    /\ _zigzag(0) = << 0 >> /\ _zigzag(-1) = << 1 >>
    /\ << 0 >> \in Seq(Byte) /\ Len(<< 0 >>) = 1 /\ << 1 >> \in Seq(Byte) /\ Len(<< 1 >>) = 1
<1>1. encode_uvarint[0] = IF 0 > 127 THEN <<(0 % 128) + 128>> \o encode_uvarint[0 \div 128]
                          ELSE <<0>>
  BY EncodeIs
<1>2. encode_uvarint[1] = IF 1 > 127 THEN <<(1 % 128) + 128>> \o encode_uvarint[1 \div 128]
                          ELSE <<1>>
  BY EncodeIs
<1>3. encode_uvarint[0] = <<0>> /\ encode_uvarint[1] = <<1>>
  BY <1>1, <1>2
<1>4. _zigzag(0) = encode_uvarint[0] /\ _zigzag(-1) = encode_uvarint[1]
  BY DEF _zigzag
<1>5. 0 \in Byte /\ 1 \in Byte
  BY DEF Byte
<1>6. QED
  BY <1>3, <1>4, <1>5

\* Other numbers take a few.
LEMMA ZigzagType ==
    ASSUME NEW n \in Nat, n < 32 * Huge
    PROVE  /\ _zigzag(n) \in Seq(Byte) /\ 1 <= Len(_zigzag(n)) /\ Len(_zigzag(n)) <= 4
           /\ n < 64 * 128 => Len(_zigzag(n)) <= 2
<1>1. PICK z \in Nat : z = 2 * n /\ z < 128 * Huge
  BY HugeIs
<1>2. _zigzag(n) = encode_uvarint[z]
  BY <1>1 DEF _zigzag
<1>3. n < 64 * 128 => z < 128 * 128
  BY <1>1
<1>4. QED
  BY <1>1, <1>2, <1>3, EncodeLength

-----------------------------------------------------------------------------
(* The bodies of records: every parse_data reads what the tool writes *)

\* The numbers of more than one byte.
LEMMA LongNumber ==
    ASSUME NEW n \in Int, NEW size \in {2, 4, 8}
    PROVE  int_to_bytes(n, size) \in Seq(Byte) /\ Len(int_to_bytes(n, size)) = size
<1>1. size \in Nat /\ size # 1
  OBVIOUS
<1>2. QED
  BY <1>1, IntBytes

\* A byte, and a number in four or eight bytes, are read as they were written.
LEMMA ReadByte ==
    ASSUME NEW data \in Seq(Byte), NEW pos \in Nat, NEW b \in Byte, At(data, pos, <<b>>)
    PROVE  bytes_to_int(read_bytes(data, pos, 1)) = b
<1>1. <<b>> \in Seq(Byte) /\ Len(<<b>>) = 1
  OBVIOUS
<1>2. read_bytes(data, pos, Len(<<b>>)) = <<b>>
  BY <1>1, ReadAt
<1>3. QED
  BY <1>1, <1>2, OneByte

\* A number in four bytes is read as it was written.
LEMMA ReadInt4 ==
    ASSUME NEW data \in Seq(Byte), NEW pos \in Nat, NEW n \in Nat, n < Huge * 256,
           At(data, pos, int_to_bytes(n, 4))
    PROVE  bytes_to_int(read_bytes(data, pos, 4)) = n
<1>1. int_to_bytes(n, 4) \in Seq(Byte) /\ Len(int_to_bytes(n, 4)) = 4
  BY LongNumber
<1>2. PICK s \in Seq(Byte) : s = int_to_bytes(n, 4) /\ Len(s) = 4
  BY <1>1
<1>3. read_bytes(data, pos, Len(s)) = s
  BY <1>2, ReadAt
<1>4. QED
  BY <1>2, <1>3, FourBytes

\* And one in eight bytes.
LEMMA ReadInt8 ==
    ASSUME NEW data \in Seq(Byte), NEW pos \in Nat, NEW n \in Nat, n < Huge * 256,
           At(data, pos, int_to_bytes(n, 8))
    PROVE  bytes_to_int(read_bytes(data, pos, 8)) = n
<1>1. int_to_bytes(n, 8) \in Seq(Byte) /\ Len(int_to_bytes(n, 8)) = 8
  BY LongNumber
<1>2. PICK s \in Seq(Byte) : s = int_to_bytes(n, 8) /\ Len(s) = 8
  BY <1>1
<1>3. read_bytes(data, pos, Len(s)) = s
  BY <1>2, ReadAt
<1>4. QED
  BY <1>2, <1>3, EightBytes

\* A compact array of no or of one element is passed over.
LEMMA BehindNone ==
    ASSUME NEW data \in Seq(Byte), NEW pos \in Nat, At(data, pos, << 1 >>)
    PROVE  \A size \in Nat : behind_array(data, pos, size) = pos + 1
<1>1. 1 \in Byte
  BY DEF Byte
<1>2. length_at(data, pos) = 0
  BY <1>1, ReadByte DEF length_at
<1>3. QED
  BY <1>2 DEF behind_array

\* With one element there are `size` bytes more.
LEMMA BehindOne ==
    ASSUME NEW data \in Seq(Byte), NEW pos \in Nat, At(data, pos, << 2 >>)
    PROVE  \A size \in Nat : behind_array(data, pos, size) = pos + 1 + size
<1>1. 2 \in Byte
  BY DEF Byte
<1>2. length_at(data, pos) = 1
  BY <1>1, ReadByte DEF length_at
<1>3. QED
  BY <1>2 DEF behind_array

\* The last of some bytes, behind the others.
LEMMA LastPiece ==
    ASSUME NEW data \in Seq(Byte), NEW pos \in Nat, NEW s \in Seq(Byte), NEW t \in Seq(Byte),
           At(data, pos, s \o t)
    PROVE  At(data, pos, s) /\ At(data, pos + Len(s), t)
  BY AtJoin

\* What a compact string of a name is.
LEMMA CompactString ==
    ASSUME NEW name \in Names
    PROVE  \E b \in Byte, n \in Nat :
             /\ b = n + 1 /\ _compact_string(name) = <<b>> \o name
             /\ name \in Seq(Byte) /\ Len(name) = n /\ n <= 126
<1>1. name \in Seq(Byte) /\ Len(name) <= 126
  BY DEF Names
<1>2. PICK n \in Nat : n = Len(name) /\ n <= 126
  BY <1>1, LenProperties
<1>3. n <= 126
  BY <1>2
<1>4. n + 1 \in 0 .. 255 /\ ~(n + 1 > 127)
  BY <1>3
<1>5. n + 1 \in Byte /\ n + 1 \in Nat /\ ~(n + 1 > 127)
  BY <1>4 DEF Byte
<1>6. PICK b \in Byte : b = n + 1 /\ b \in Nat /\ ~(b > 127)
  BY <1>5
<1>7. encode_uvarint[b] = IF b > 127 THEN <<(b % 128) + 128>> \o encode_uvarint[b \div 128]
                          ELSE <<b>>
  BY <1>6, EncodeIs
<1>8. encode_uvarint[b] = <<b>>
  BY <1>6, <1>7
<1>9. _compact_string(name) = <<b>> \o name
  BY <1>6, <1>8, <1>2 DEF _compact_string
<1>10. QED
  BY <1>1, <1>6, <1>9, <1>2

\* The bodies of the three values, as the tool writes them.
FeatureBody == <<1>> \o _compact_string(FeatureName) \o int_to_bytes(20, 2) \o <<0>>

\* The body of a topic's record.
TopicBody(name, uuid) == <<1>> \o _compact_string(name) \o uuid \o <<0>>

\* parse_feature_level reads the feature level, and stops behind it.
LEMMA FeatureParse ==
    /\ FeatureBody \in Seq(Byte) /\ Len(FeatureBody) <= 131
    /\ \A data \in Seq(Byte), pos \in Nat :
         At(data, pos, FeatureBody) =>
           parse_data(FEATURE_LEVEL, data, pos) =
             [value |-> Value(FEATURE_LEVEL, FeatureName, <<>>, 0),
              pos |-> pos + Len(FeatureBody)]
<1> DEFINE name == FeatureName
<1>1. name \in Names
  BY MetadataBytesAssumption
<1> HIDE DEF name
<1>2. PICK b \in Byte, n \in Nat :
        /\ b = n + 1 /\ _compact_string(name) = <<b>> \o name
        /\ name \in Seq(Byte) /\ Len(name) = n /\ n <= 126
  BY <1>1, CompactString
<1>3. int_to_bytes(20, 2) \in Seq(Byte) /\ Len(int_to_bytes(20, 2)) = 2
  BY LongNumber
<1>4. PICK level \in Seq(Byte) : level = int_to_bytes(20, 2) /\ Len(level) = 2
  BY <1>3
<1>5. 0 \in Byte /\ 1 \in Byte
  BY DEF Byte
<1>6. \A c \in Byte : <<c>> \in Seq(Byte) /\ Len(<<c>>) = 1
  OBVIOUS
<1>7. /\ <<0>> \in Seq(Byte) /\ <<1>> \in Seq(Byte) /\ <<b>> \in Seq(Byte)
       /\ Len(<<0>>) = 1 /\ Len(<<1>>) = 1 /\ Len(<<b>>) = 1
  BY <1>5, <1>6
<1>8. PICK t0 \in Seq(Byte), t1 \in Seq(Byte), tb \in Seq(Byte) :
        t0 = <<0>> /\ t1 = <<1>> /\ tb = <<b>> /\ Len(t0) = 1 /\ Len(t1) = 1 /\ Len(tb) = 1
  BY <1>7
<1>9. tb \o name \in Seq(Byte) /\ Len(tb \o name) = Len(tb) + Len(name)
  BY <1>2, Join
<1>10. PICK cs \in Seq(Byte) : cs = tb \o name /\ Len(cs) = 1 + n
  BY <1>2, <1>8, <1>9
<1>11. t1 \o cs \in Seq(Byte) /\ Len(t1 \o cs) = Len(t1) + Len(cs)
  BY <1>2, Join
<1>12. Len(t1 \o cs) = 2 + n
  BY <1>2, <1>8, <1>10, <1>11
<1>13. PICK p \in Seq(Byte) : p = t1 \o cs /\ Len(p) = 2 + n
  BY <1>11, <1>12
<1>14. p \o level \in Seq(Byte) /\ Len(p \o level) = Len(p) + Len(level)
  BY <1>2, Join
<1>15. Len(p) = 2 + n /\ Len(level) = 2 /\ Len(p \o level) = Len(p) + Len(level)
  BY <1>4, <1>13, <1>14
<1>16. Len(p \o level) = 4 + n
  BY <1>15
<1>17. PICK q \in Seq(Byte) : q = p \o level /\ Len(q) = 4 + n
  BY <1>14, <1>16
<1>18. q \o t0 \in Seq(Byte) /\ Len(q \o t0) = Len(q) + Len(t0)
  BY <1>2, Join
<1>19. Len(q \o t0) = 5 + n
  BY <1>2, <1>8, <1>17, <1>18
<1>20. PICK body \in Seq(Byte) : body = q \o t0 /\ Len(body) = 5 + n
  BY <1>18, <1>19
<1>21. FeatureBody = body
  BY <1>2, <1>4, <1>8, <1>10, <1>13, <1>17, <1>20 DEF FeatureBody, name
<1>22. ASSUME NEW data \in Seq(Byte), NEW pos \in Nat, At(data, pos, body)
       PROVE  parse_data(FEATURE_LEVEL, data, pos) =
                [value |-> Value(FEATURE_LEVEL, name, <<>>, 0), pos |-> pos + Len(body)]
  <2>1. At(data, pos, q)
    BY <1>8, <1>20, <1>22, LastPiece
  <2>2. At(data, pos, p)
    BY <1>17, <1>4, <2>1, LastPiece
  <2>3. At(data, pos + 1, cs)
    BY <1>8, <1>13, <2>2, LastPiece
  <2>4. PICK at \in Nat : at = pos + 1 /\ at + 1 = pos + 2
    OBVIOUS
  <2>5. At(data, at, tb \o name)
    BY <1>10, <2>3, <2>4
  <2>6. At(data, at, tb) /\ At(data, at + 1, name)
    BY <1>2, <1>8, <2>5, LastPiece
  <2>7. bytes_to_int(read_bytes(data, at, 1)) = b
    BY <1>8, <2>6, ReadByte
  <2>8. length_at(data, pos + 1) = n
    BY <1>2, <2>4, <2>7 DEF length_at
  <2>9. read_bytes(data, pos + 2, n) = name
    BY <1>2, <2>4, <2>6, ReadAt
  <2>10. parse_data(FEATURE_LEVEL, data, pos) = parse_feature_level(data, pos)
    BY DEF parse_data, FEATURE_LEVEL, TOPIC, PARTITION, UNREGISTER
  <2>11. parse_feature_level(data, pos) =
          [value |-> Value(FEATURE_LEVEL, name, <<>>, 0), pos |-> pos + 2 + n + 3]
    BY <2>8, <2>9 DEF parse_feature_level
  <2>12. pos + 2 + n + 3 = pos + Len(body)
    BY <1>2, <1>20
  <2>13. QED
    BY <2>10, <2>11, <2>12
<1>23. Len(body) <= 131
  BY <1>2, <1>20
<1>24. QED
  BY <1>21, <1>22, <1>23 DEF name

\* parse_topic reads the name and the id of a topic, and stops behind them.
LEMMA TopicParse ==
    ASSUME NEW name \in Names, NEW uuid \in Seq(Byte), Len(uuid) = 16
    PROVE  /\ TopicBody(name, uuid) \in Seq(Byte) /\ Len(TopicBody(name, uuid)) <= 145
           /\ \A data \in Seq(Byte), pos \in Nat :
                At(data, pos, TopicBody(name, uuid)) =>
                  parse_data(TOPIC, data, pos) =
                    [value |-> Value(TOPIC, name, uuid, 0),
                     pos |-> pos + Len(TopicBody(name, uuid))]
<1>1. PICK b \in Byte, n \in Nat :
        /\ b = n + 1 /\ _compact_string(name) = <<b>> \o name
        /\ name \in Seq(Byte) /\ Len(name) = n /\ n <= 126
  BY CompactString
<1>2. 0 \in Byte /\ 1 \in Byte
  BY DEF Byte
<1>3. \A c \in Byte : <<c>> \in Seq(Byte) /\ Len(<<c>>) = 1
  OBVIOUS
<1>4. /\ <<0>> \in Seq(Byte) /\ <<1>> \in Seq(Byte) /\ <<b>> \in Seq(Byte)
       /\ Len(<<0>>) = 1 /\ Len(<<1>>) = 1 /\ Len(<<b>>) = 1
  BY <1>2, <1>3
<1>5. PICK t0 \in Seq(Byte), t1 \in Seq(Byte), tb \in Seq(Byte) :
        t0 = <<0>> /\ t1 = <<1>> /\ tb = <<b>> /\ Len(t0) = 1 /\ Len(t1) = 1 /\ Len(tb) = 1
  BY <1>4
<1>6. tb \o name \in Seq(Byte) /\ Len(tb \o name) = Len(tb) + Len(name)
  BY <1>1, Join
<1>7. PICK cs \in Seq(Byte) : cs = tb \o name /\ Len(cs) = 1 + n
  BY <1>1, <1>5, <1>6
<1>8. t1 \o cs \in Seq(Byte) /\ Len(t1 \o cs) = Len(t1) + Len(cs)
  BY <1>1, Join
<1>9. Len(t1 \o cs) = 2 + n
  BY <1>1, <1>5, <1>7, <1>8
<1>10. PICK p \in Seq(Byte) : p = t1 \o cs /\ Len(p) = 2 + n
  BY <1>8, <1>9
<1>11. p \o uuid \in Seq(Byte) /\ Len(p \o uuid) = Len(p) + Len(uuid)
  BY <1>1, Join
<1>12. Len(p \o uuid) = 18 + n
  BY <1>1, <1>10, <1>11
<1>13. PICK q \in Seq(Byte) : q = p \o uuid /\ Len(q) = 18 + n
  BY <1>11, <1>12
<1>14. q \o t0 \in Seq(Byte) /\ Len(q \o t0) = Len(q) + Len(t0)
  BY <1>1, Join
<1>15. Len(q \o t0) = 19 + n
  BY <1>1, <1>5, <1>13, <1>14
<1>16. PICK body \in Seq(Byte) : body = q \o t0 /\ Len(body) = 19 + n
  BY <1>14, <1>15
<1>17. TopicBody(name, uuid) = body
  BY <1>1, <1>5, <1>7, <1>10, <1>13, <1>16 DEF TopicBody
<1>18. ASSUME NEW data \in Seq(Byte), NEW pos \in Nat, At(data, pos, body)
       PROVE  parse_data(TOPIC, data, pos) =
                [value |-> Value(TOPIC, name, uuid, 0), pos |-> pos + Len(body)]
  <2>1. At(data, pos, q)
    BY <1>5, <1>16, <1>18, LastPiece
  <2>2. At(data, pos, p) /\ At(data, pos + Len(p), uuid)
    BY <1>13, <2>1, LastPiece
  <2>3. At(data, pos + 1, cs)
    BY <1>5, <1>10, <2>2, LastPiece
  <2>4. PICK at \in Nat : at = pos + 1 /\ at + 1 = pos + 2
    OBVIOUS
  <2>5. PICK there \in Nat : there = pos + Len(p) /\ there = pos + 2 + n
    BY <1>1, <1>10
  <2>6. At(data, at, tb \o name)
    BY <1>7, <2>3, <2>4
  <2>7. At(data, at, tb) /\ At(data, at + 1, name)
    BY <1>1, <1>5, <2>6, LastPiece
  <2>8. bytes_to_int(read_bytes(data, at, 1)) = b
    BY <1>5, <2>7, ReadByte
  <2>9. length_at(data, pos + 1) = n
    BY <1>1, <2>4, <2>8 DEF length_at
  <2>10. read_bytes(data, pos + 2, n) = name
    BY <1>1, <2>4, <2>7, ReadAt
  <2>11. read_bytes(data, there, Len(uuid)) = uuid
    BY <2>2, <2>5, ReadAt
  <2>12. read_bytes(data, pos + 2 + n, 16) = uuid
    BY <2>5, <2>11
  <2>13. parse_data(TOPIC, data, pos) = parse_topic(data, pos)
    BY DEF parse_data, FEATURE_LEVEL, TOPIC, PARTITION, UNREGISTER
  <2>14. parse_topic(data, pos) =
          [value |-> Value(TOPIC, name, uuid, 0), pos |-> pos + 2 + n + 17]
    BY <2>9, <2>10, <2>12 DEF parse_topic
  <2>15. pos + 2 + n + 17 = pos + Len(body)
    BY <1>1, <1>16
  <2>16. QED
    BY <2>13, <2>14, <2>15
<1>19. Len(body) <= 145
  BY <1>1, <1>16
<1>20. QED
  BY <1>17, <1>18, <1>19

\* Two bytes are one behind the other.
LEMMA TwoBytes ==
    ASSUME NEW a \in Byte, NEW b \in Byte
    PROVE  /\ <<a, b>> \in Seq(Byte) /\ Len(<<a, b>>) = 2
           /\ \A data \in Seq(Byte), pos \in Nat :
                At(data, pos, <<a, b>>) => At(data, pos, <<a>>) /\ At(data, pos + 1, <<b>>)
<1>1. <<a, b>> \in Seq(Byte) /\ Len(<<a, b>>) = 2
  OBVIOUS
<1>2. ASSUME NEW data \in Seq(Byte), NEW pos \in Nat, At(data, pos, <<a, b>>)
      PROVE  At(data, pos, <<a>>) /\ At(data, pos + 1, <<b>>)
  <2>1. PICK len \in Nat : len = Len(data)
    BY LenProperties
  <2>2. pos + 2 <= len /\ \A i \in 1 .. 2 : data[pos + i] = <<a, b>>[i]
    BY <1>1, <1>2, <2>1 DEF At
  <2>3. data[pos + 1] = a /\ data[pos + 2] = b
    BY <2>2
  <2>4. Len(<<a>>) = 1 /\ Len(<<b>>) = 1 /\ pos + 1 + 1 = pos + 2
    OBVIOUS
  <2>5. \A i \in 1 .. 1 : i = 1 /\ <<a>>[i] = a /\ <<b>>[i] = b
    OBVIOUS
  <2>6. At(data, pos, <<a>>)
    BY <2>1, <2>2, <2>3, <2>4, <2>5 DEF At
  <2>7. At(data, pos + 1, <<b>>)
    BY <2>1, <2>2, <2>3, <2>4, <2>5 DEF At
  <2>8. QED
    BY <2>6, <2>7
<1>3. QED
  BY <1>1, <1>2

\* The body of a partition's record.
PartitionBody(id, uuid) ==
    LET bid == int_to_bytes(1, 4)
    IN  <<1>> \o int_to_bytes(id, 4) \o uuid \o <<2>> \o bid \o <<2>> \o bid \o <<1, 1>>
          \o bid \o int_to_bytes(0, 4) \o int_to_bytes(0, 4) \o <<1, 0>>

\* parse_partition reads the number and the topic's id, and stops behind all of
\* the arrays.
LEMMA PartitionParse ==
    ASSUME NEW id \in Nat, id < Huge, NEW uuid \in Seq(Byte), Len(uuid) = 16
    PROVE  /\ PartitionBody(id, uuid) \in Seq(Byte) /\ Len(PartitionBody(id, uuid)) = 47
           /\ \A data \in Seq(Byte), pos \in Nat :
                At(data, pos, PartitionBody(id, uuid)) =>
                  parse_data(PARTITION, data, pos) =
                    [value |-> Value(PARTITION, <<>>, uuid, id), pos |-> pos + 47]
<1>1. 0 \in Byte /\ 1 \in Byte /\ 2 \in Byte
  BY DEF Byte
<1>2. \A c \in Byte : <<c>> \in Seq(Byte) /\ Len(<<c>>) = 1
  OBVIOUS
<1>3. /\ <<1>> \in Seq(Byte) /\ <<2>> \in Seq(Byte) /\ Len(<<1>>) = 1 /\ Len(<<2>>) = 1
      /\ <<1, 1>> \in Seq(Byte) /\ <<1, 0>> \in Seq(Byte) /\ Len(<<1, 1>>) = 2 /\ Len(<<1, 0>>) = 2
  BY <1>1, <1>2, TwoBytes
<1>4. PICK one \in Seq(Byte), two \in Seq(Byte), ones \in Seq(Byte), end \in Seq(Byte) :
        /\ one = <<1>> /\ two = <<2>> /\ ones = <<1, 1>> /\ end = <<1, 0>>
        /\ Len(one) = 1 /\ Len(two) = 1 /\ Len(ones) = 2 /\ Len(end) = 2
  BY <1>3
<1>5. \A n \in Int : int_to_bytes(n, 4) \in Seq(Byte) /\ Len(int_to_bytes(n, 4)) = 4
  BY LongNumber
<1>6. PICK num \in Seq(Byte), bid \in Seq(Byte), zero \in Seq(Byte) :
        /\ num = int_to_bytes(id, 4) /\ bid = int_to_bytes(1, 4) /\ zero = int_to_bytes(0, 4)
        /\ Len(num) = 4 /\ Len(bid) = 4 /\ Len(zero) = 4
  BY <1>5
<1>7. /\ Len(one) = 1 /\ Len(two) = 1 /\ Len(ones) = 2 /\ Len(end) = 2
      /\ Len(num) = 4 /\ Len(bid) = 4 /\ Len(zero) = 4 /\ Len(uuid) = 16
  BY <1>4, <1>6
<1>8. one \o num \in Seq(Byte) /\ Len(one \o num) = Len(one) + Len(num)
  BY Join
<1>9. Len(one \o num) = 5
  BY <1>7, <1>8
<1>10. PICK p5 \in Seq(Byte) : p5 = one \o num /\ Len(p5) = 5
  BY <1>8, <1>9
<1>11. p5 \o uuid \in Seq(Byte) /\ Len(p5 \o uuid) = Len(p5) + Len(uuid)
  BY Join
<1>12. Len(p5 \o uuid) = 21
  BY <1>7, <1>11, <1>10
<1>13. PICK p21 \in Seq(Byte) : p21 = p5 \o uuid /\ Len(p21) = 21
  BY <1>11, <1>12
<1>14. p21 \o two \in Seq(Byte) /\ Len(p21 \o two) = Len(p21) + Len(two)
  BY Join
<1>15. Len(p21 \o two) = 22
  BY <1>7, <1>14, <1>13
<1>16. PICK p22 \in Seq(Byte) : p22 = p21 \o two /\ Len(p22) = 22
  BY <1>14, <1>15
<1>17. p22 \o bid \in Seq(Byte) /\ Len(p22 \o bid) = Len(p22) + Len(bid)
  BY Join
<1>18. Len(p22 \o bid) = 26
  BY <1>7, <1>17, <1>16
<1>19. PICK p26 \in Seq(Byte) : p26 = p22 \o bid /\ Len(p26) = 26
  BY <1>17, <1>18
<1>20. p26 \o two \in Seq(Byte) /\ Len(p26 \o two) = Len(p26) + Len(two)
  BY Join
<1>21. Len(p26 \o two) = 27
  BY <1>7, <1>20, <1>19
<1>22. PICK p27 \in Seq(Byte) : p27 = p26 \o two /\ Len(p27) = 27
  BY <1>20, <1>21
<1>23. p27 \o bid \in Seq(Byte) /\ Len(p27 \o bid) = Len(p27) + Len(bid)
  BY Join
<1>24. Len(p27 \o bid) = 31
  BY <1>7, <1>23, <1>22
<1>25. PICK p31 \in Seq(Byte) : p31 = p27 \o bid /\ Len(p31) = 31
  BY <1>23, <1>24
<1>26. p31 \o ones \in Seq(Byte) /\ Len(p31 \o ones) = Len(p31) + Len(ones)
  BY Join
<1>27. Len(p31 \o ones) = 33
  BY <1>7, <1>26, <1>25
<1>28. PICK p33 \in Seq(Byte) : p33 = p31 \o ones /\ Len(p33) = 33
  BY <1>26, <1>27
<1>29. p33 \o bid \in Seq(Byte) /\ Len(p33 \o bid) = Len(p33) + Len(bid)
  BY Join
<1>30. Len(p33 \o bid) = 37
  BY <1>7, <1>29, <1>28
<1>31. PICK p37 \in Seq(Byte) : p37 = p33 \o bid /\ Len(p37) = 37
  BY <1>29, <1>30
<1>32. p37 \o zero \in Seq(Byte) /\ Len(p37 \o zero) = Len(p37) + Len(zero)
  BY Join
<1>33. Len(p37 \o zero) = 41
  BY <1>7, <1>32, <1>31
<1>34. PICK p41 \in Seq(Byte) : p41 = p37 \o zero /\ Len(p41) = 41
  BY <1>32, <1>33
<1>35. p41 \o zero \in Seq(Byte) /\ Len(p41 \o zero) = Len(p41) + Len(zero)
  BY Join
<1>36. Len(p41 \o zero) = 45
  BY <1>7, <1>35, <1>34
<1>37. PICK p45 \in Seq(Byte) : p45 = p41 \o zero /\ Len(p45) = 45
  BY <1>35, <1>36
<1>38. p45 \o end \in Seq(Byte) /\ Len(p45 \o end) = Len(p45) + Len(end)
  BY Join
<1>39. Len(p45 \o end) = 47
  BY <1>7, <1>38, <1>37
<1>40. PICK p47 \in Seq(Byte) : p47 = p45 \o end /\ Len(p47) = 47
  BY <1>38, <1>39
<1>41. PartitionBody(id, uuid) = p47
  BY <1>4, <1>6, <1>10, <1>13, <1>16, <1>19, <1>22, <1>25, <1>28, <1>31, <1>34, <1>37, <1>40
     DEF PartitionBody
<1>42. ASSUME NEW data \in Seq(Byte), NEW pos \in Nat, At(data, pos, p47)
      PROVE  parse_data(PARTITION, data, pos) =
               [value |-> Value(PARTITION, <<>>, uuid, id), pos |-> pos + 47]
  <2>1. At(data, pos, p45 \o end)
    BY <1>40, <1>42
  <2>2. At(data, pos, p45) /\ At(data, pos + Len(p45), end)
    BY <2>1, LastPiece
  <2>3. At(data, pos, p45) /\ At(data, pos + 45, end)
    BY <1>7, <1>37, <2>2
  <2>4. At(data, pos, p41 \o zero)
    BY <1>37, <2>3
  <2>5. At(data, pos, p41) /\ At(data, pos + Len(p41), zero)
    BY <2>4, LastPiece
  <2>6. At(data, pos, p41) /\ At(data, pos + 41, zero)
    BY <1>7, <1>34, <2>5
  <2>7. At(data, pos, p37 \o zero)
    BY <1>34, <2>6
  <2>8. At(data, pos, p37) /\ At(data, pos + Len(p37), zero)
    BY <2>7, LastPiece
  <2>9. At(data, pos, p37) /\ At(data, pos + 37, zero)
    BY <1>7, <1>31, <2>8
  <2>10. At(data, pos, p33 \o bid)
    BY <1>31, <2>9
  <2>11. At(data, pos, p33) /\ At(data, pos + Len(p33), bid)
    BY <2>10, LastPiece
  <2>12. At(data, pos, p33) /\ At(data, pos + 33, bid)
    BY <1>7, <1>28, <2>11
  <2>13. At(data, pos, p31 \o ones)
    BY <1>28, <2>12
  <2>14. At(data, pos, p31) /\ At(data, pos + Len(p31), ones)
    BY <2>13, LastPiece
  <2>15. At(data, pos, p31) /\ At(data, pos + 31, ones)
    BY <1>7, <1>25, <2>14
  <2>16. At(data, pos, p27 \o bid)
    BY <1>25, <2>15
  <2>17. At(data, pos, p27) /\ At(data, pos + Len(p27), bid)
    BY <2>16, LastPiece
  <2>18. At(data, pos, p27) /\ At(data, pos + 27, bid)
    BY <1>7, <1>22, <2>17
  <2>19. At(data, pos, p26 \o two)
    BY <1>22, <2>18
  <2>20. At(data, pos, p26) /\ At(data, pos + Len(p26), two)
    BY <2>19, LastPiece
  <2>21. At(data, pos, p26) /\ At(data, pos + 26, two)
    BY <1>7, <1>19, <2>20
  <2>22. At(data, pos, p22 \o bid)
    BY <1>19, <2>21
  <2>23. At(data, pos, p22) /\ At(data, pos + Len(p22), bid)
    BY <2>22, LastPiece
  <2>24. At(data, pos, p22) /\ At(data, pos + 22, bid)
    BY <1>7, <1>16, <2>23
  <2>25. At(data, pos, p21 \o two)
    BY <1>16, <2>24
  <2>26. At(data, pos, p21) /\ At(data, pos + Len(p21), two)
    BY <2>25, LastPiece
  <2>27. At(data, pos, p21) /\ At(data, pos + 21, two)
    BY <1>7, <1>13, <2>26
  <2>28. At(data, pos, p5 \o uuid)
    BY <1>13, <2>27
  <2>29. At(data, pos, p5) /\ At(data, pos + Len(p5), uuid)
    BY <2>28, LastPiece
  <2>30. At(data, pos, p5) /\ At(data, pos + 5, uuid)
    BY <1>7, <1>10, <2>29
  <2>31. At(data, pos, one \o num)
    BY <1>10, <2>30
  <2>32. At(data, pos, one) /\ At(data, pos + Len(one), num)
    BY <2>31, LastPiece
  <2>33. At(data, pos, one) /\ At(data, pos + 1, num)
    BY <1>7, <2>32
  <2>34. PICK at1 \in Nat, at5 \in Nat, at21 \in Nat, at26 \in Nat, at31 \in Nat,
              at32 \in Nat, at45 \in Nat :
           /\ at1 = pos + 1 /\ at5 = pos + 5 /\ at21 = pos + 21 /\ at26 = pos + 26
           /\ at31 = pos + 31 /\ at32 = pos + 32 /\ at45 = pos + 45
    OBVIOUS
  <2>35. At(data, at1, int_to_bytes(id, 4)) /\ id < Huge * 256
    BY <1>6, <2>33, <2>34, HugeIs
  <2>36. partition_id(data, pos) = id
    BY <2>35, <2>34, ReadInt4 DEF partition_id
  <2>37. At(data, at5, uuid)
    BY <2>30, <2>34
  <2>38. read_bytes(data, at5, Len(uuid)) = uuid
    BY <2>37, ReadAt
  <2>39. read_bytes(data, pos + 5, 16) = uuid
    BY <2>34, <2>38
  <2>40. At(data, at21, <<2>>) /\ At(data, at26, <<2>>)
    BY <1>4, <2>27, <2>21, <2>34
  <2>41. At(data, at31, <<1, 1>>) /\ At(data, at45, <<1, 0>>)
    BY <1>4, <2>15, <2>3, <2>34
  <2>42. At(data, at31, <<1>>) /\ At(data, at31 + 1, <<1>>) /\ At(data, at45, <<1>>)
    BY <1>1, <2>41, TwoBytes
  <2>43. At(data, at32, <<1>>)
    BY <2>34, <2>42
  <2>44. At(data, at21, <<2>>) => \A size \in Nat : behind_array(data, at21, size) = at21 + 1 + size
    BY <2>40, BehindOne
  <2>45. \A size \in Nat : behind_array(data, at26, size) = at26 + 1 + size
    BY <2>40, BehindOne
  <2>46. \A size \in Nat : behind_array(data, at31, size) = at31 + 1
    BY <2>42, BehindNone
  <2>47. \A size \in Nat : behind_array(data, at32, size) = at32 + 1
    BY <2>43, BehindNone
  <2>48. \A size \in Nat : behind_array(data, at45, size) = at45 + 1
    BY <2>42, BehindNone
  <2>49. /\ at21 + 1 + 4 = at26 /\ at26 + 1 + 4 = at31 /\ at31 + 1 = at32
         /\ at32 + 1 + 12 = at45 /\ at45 + 1 + 1 = pos + 47
    BY <2>34
  <2>50. behind_array(data, pos + 21, 4) = at26 /\ behind_array(data, at26, 4) = at31
    BY <2>34, <2>44, <2>45, <2>49, <2>40
  <2>51. behind_array(data, at31, 4) = at32 /\ behind_array(data, at32, 4) + 12 = at45
    BY <2>46, <2>47, <2>49
  <2>52. behind_array(data, behind_array(data, behind_array(data, behind_array(data,
           pos + 21, 4), 4), 4), 4) + 12 = at45
    BY <2>50, <2>51
  <2>53. behind_array(data, at45, 16) + 1 = pos + 47
    BY <2>49, <2>48
  <2>54. behind_array(data, behind_array(data, behind_array(data, behind_array(data,
           behind_array(data, pos + 21, 4), 4), 4), 4) + 12, 16) + 1 = pos + 47
    BY <2>53, <2>52
  <2>55. parse_partition(data, pos) =
           [value |-> Value(PARTITION, <<>>, uuid, id), pos |-> pos + 47]
    BY <2>36, <2>39, <2>53, <2>54 DEF parse_partition
  <2>56. parse_data(PARTITION, data, pos) = parse_partition(data, pos)
    BY DEF parse_data, FEATURE_LEVEL, TOPIC, PARTITION, UNREGISTER
  <2>57. QED
    BY <2>55, <2>56
<1>43. QED
  BY <1>40, <1>41, <1>42

-----------------------------------------------------------------------------
(* Records: parse_record reads what _record makes *)

\* What parse_record leaves of a record is its value and the position behind it.
Parses(type, body, value) ==
    \A data \in Seq(Byte), pos \in Nat :
      At(data, pos, body) =>
        parse_data(type, data, pos) = [value |-> value, pos |-> pos + Len(body)]

\* parse_record reads this value from this record, wherever it lies.
Reads(record, value) ==
    \A data \in Seq(Byte), pos \in Nat :
      At(data, pos, record) =>
        parse_record(data, pos) = [values |-> <<value>>, pos |-> pos + Len(record)]

\* A varint `gap` bytes behind another one.
LEMMA BehindIs ==
    ASSUME NEW data, NEW n, NEW pos, NEW gap
    PROVE  /\ Behind([ok |-> TRUE, n |-> n, pos |-> pos], data, gap) = read_varint(data, pos + gap)
           /\ [ok |-> TRUE, n |-> n, pos |-> pos].n = n
  BY DEF Behind

\* 0 and -1 are read back.
LEMMA SmallRead ==
    ASSUME NEW data \in Seq(Byte), NEW pos \in Nat
    PROVE  /\ At(data, pos, _zigzag(0)) =>
                read_varint(data, pos) = [ok |-> TRUE, n |-> 0, pos |-> pos + 1]
           /\ At(data, pos, _zigzag(-1)) =>
                read_varint(data, pos) = [ok |-> TRUE, n |-> -1, pos |-> pos + 1]
<1>1. Len(_zigzag(0)) = 1 /\ Len(_zigzag(-1)) = 1
  BY SmallZigzags
<1>2. 0 < 32 * Huge /\ -1 < 32 * Huge
  BY HugeIs
<1>3. ASSUME At(data, pos, _zigzag(0))
      PROVE  read_varint(data, pos) = [ok |-> TRUE, n |-> 0, pos |-> pos + Len(_zigzag(0))]
  BY <1>2, <1>3, ZigzagRead
<1>4. ASSUME At(data, pos, _zigzag(-1))
      PROVE  read_varint(data, pos) = [ok |-> TRUE, n |-> -1, pos |-> pos + Len(_zigzag(-1))]
  BY <1>2, <1>4, ZigzagRead
<1>5. QED
  BY <1>1, <1>3, <1>4

\* What stands in front of a record's type and body: varints of l and of e
\* bytes, and four bytes.
HeadAt(data, pos, end) ==
    \E len \in Nat, delta \in Nat, l \in Nat, e \in Nat :
      /\ len < 32 * Huge /\ delta < 32 * Huge
      /\ Len(_zigzag(len)) = l /\ Len(_zigzag(delta)) = e
      /\ At(data, pos, _zigzag(len)) /\ At(data, pos + l + 1, _zigzag(0))
      /\ At(data, pos + l + 2, _zigzag(delta)) /\ At(data, pos + l + 2 + e, _zigzag(-1))
      /\ At(data, pos + l + 3 + e, _zigzag(0))
      /\ end = pos + l + 4 + e

\* read_head gets through what stands in front of the type.
LEMMA HeadRead ==
    ASSUME NEW data \in Seq(Byte), NEW pos \in Nat, NEW end \in Nat, HeadAt(data, pos, end)
    PROVE  read_head(data, pos) = [ok |-> TRUE, n |-> 0, pos |-> end]
<1>1. PICK len \in Nat, delta \in Nat, l \in Nat, e \in Nat :
        /\ len < 32 * Huge /\ delta < 32 * Huge
        /\ Len(_zigzag(len)) = l /\ Len(_zigzag(delta)) = e
        /\ At(data, pos, _zigzag(len)) /\ At(data, pos + l + 1, _zigzag(0))
        /\ At(data, pos + l + 2, _zigzag(delta)) /\ At(data, pos + l + 2 + e, _zigzag(-1))
        /\ At(data, pos + l + 3 + e, _zigzag(0))
        /\ end = pos + l + 4 + e
  BY DEF HeadAt
<1>2. PICK p1 \in Nat, p2 \in Nat, p3 \in Nat, p4 \in Nat, p5 \in Nat :
        /\ p1 = pos + l /\ p2 = pos + l + 2 /\ p3 = pos + l + 2 + e
        /\ p4 = pos + l + 3 + e /\ p5 = pos + l + 4 + e
  OBVIOUS
<1>3. /\ p1 + 1 \in Nat /\ p1 + 1 = pos + l + 1 /\ p1 + 1 + 1 = p2 /\ p2 + 0 = p2
      /\ p2 + e = p3 /\ p3 + 0 = p3 /\ p3 + 1 = p4 /\ p4 + 0 = p4 /\ p4 + 1 = p5
  BY <1>2
<1>4. read_varint(data, pos) = [ok |-> TRUE, n |-> len, pos |-> p1]
  BY <1>1, <1>2, ZigzagRead
<1>5. At(data, p1 + 1, _zigzag(0))
  BY <1>1, <1>3
<1>6. read_varint(data, p1 + 1) = [ok |-> TRUE, n |-> 0, pos |-> p2]
  BY <1>3, <1>5, SmallRead
<1>7. At(data, p2, _zigzag(delta)) /\ At(data, p3, _zigzag(-1)) /\ At(data, p4, _zigzag(0))
  BY <1>1, <1>2
<1>8. read_varint(data, p2) = [ok |-> TRUE, n |-> delta, pos |-> p3]
  BY <1>1, <1>3, <1>7, ZigzagRead
<1>9. read_varint(data, p3) = [ok |-> TRUE, n |-> -1, pos |-> p4]
  BY <1>3, <1>7, SmallRead
<1>10. read_varint(data, p4) = [ok |-> TRUE, n |-> 0, pos |-> p5]
  BY <1>3, <1>7, SmallRead
<1>11. Behind(read_varint(data, pos), data, 1) = read_varint(data, p1 + 1)
  BY <1>4, BehindIs
<1>12. Behind(read_varint(data, p1 + 1), data, 0) = read_varint(data, p2)
  BY <1>3, <1>6, BehindIs
<1>13. Behind(read_varint(data, p2), data, 0) = read_varint(data, p3)
  BY <1>3, <1>8, BehindIs
<1>14. Behind(read_varint(data, p3), data, 0) = read_varint(data, p4)
  BY <1>3, <1>9, BehindIs
<1>15. read_varint(data, p3).n = -1
  BY <1>9
<1>16. ~(-1 > 0)
  OBVIOUS
<1>17. read_head(data, pos) = read_varint(data, p4)
  BY <1>11, <1>12, <1>13, <1>14, <1>15, <1>16 DEF read_head
<1>18. QED
  BY <1>1, <1>2, <1>10, <1>17

\* A record is read back, whatever stands around it.
LEMMA RecordRead ==
    ASSUME NEW delta \in Nat, delta < 32 * Huge,
           NEW type \in {FEATURE_LEVEL, TOPIC, PARTITION, UNREGISTER},
           NEW body \in Seq(Byte), NEW n \in Nat, Len(body) = n, n <= 200,
           NEW value, Parses(type, body, value)
    PROVE  /\ _record(delta, type, body) \in Seq(Byte)
           /\ Len(_record(delta, type, body)) <= 255
           /\ Reads(_record(delta, type, body), value)
<1>1. type \in Byte /\ 0 \in Byte /\ 1 \in Byte
  BY DEF FEATURE_LEVEL, TOPIC, PARTITION, UNREGISTER, Byte
<1>2. /\ <<0>> \in Seq(Byte) /\ Len(<<0>>) = 1 /\ <<1>> \in Seq(Byte) /\ Len(<<1>>) = 1
      /\ <<1, type>> \in Seq(Byte) /\ Len(<<1, type>>) = 2
  BY <1>1, TwoBytes, SmallZigzags
<1>3. PICK o0 \in Seq(Byte), o1 \in Seq(Byte), ty \in Seq(Byte) :
        /\ o0 = <<0>> /\ o1 = <<1>> /\ ty = <<1, type>>
        /\ Len(o0) = 1 /\ Len(o1) = 1 /\ Len(ty) = 2
  BY <1>2
<1>4. _zigzag(delta) \in Seq(Byte) /\ Len(_zigzag(delta)) <= 4
  BY ZigzagType
<1>5. PICK e \in Nat : e = Len(_zigzag(delta)) /\ e <= 4
  BY <1>4, LenProperties
<1>6. PICK zd \in Seq(Byte) : zd = _zigzag(delta) /\ Len(zd) = e /\ e <= 4
  BY <1>4, <1>5
<1>7. _zigzag(0) = o0 /\ _zigzag(-1) = o1
  BY <1>3, SmallZigzags
<1>8. Len(o0) = 1 /\ Len(o1) = 1 /\ Len(ty) = 2 /\ Len(zd) = e /\ Len(body) = n
  BY <1>3, <1>6
<1>9. o0 \o o0 \in Seq(Byte) /\ Len(o0 \o o0) = Len(o0) + Len(o0)
  BY Join
<1>10. Len(o0 \o o0) = 2
  BY <1>8, <1>9
<1>11. PICK q2 \in Seq(Byte) : q2 = o0 \o o0 /\ Len(q2) = 2
  BY <1>9, <1>10
<1>12. q2 \o zd \in Seq(Byte) /\ Len(q2 \o zd) = Len(q2) + Len(zd)
  BY Join
<1>13. Len(q2 \o zd) = 2 + e
  BY <1>8, <1>12, <1>11
<1>14. PICK q3 \in Seq(Byte) : q3 = q2 \o zd /\ Len(q3) = 2 + e
  BY <1>12, <1>13
<1>15. q3 \o o1 \in Seq(Byte) /\ Len(q3 \o o1) = Len(q3) + Len(o1)
  BY Join
<1>16. Len(q3 \o o1) = 3 + e
  BY <1>8, <1>15, <1>14
<1>17. PICK q4 \in Seq(Byte) : q4 = q3 \o o1 /\ Len(q4) = 3 + e
  BY <1>15, <1>16
<1>18. q4 \o o0 \in Seq(Byte) /\ Len(q4 \o o0) = Len(q4) + Len(o0)
  BY Join
<1>19. Len(q4 \o o0) = 4 + e
  BY <1>8, <1>18, <1>17
<1>20. PICK q5 \in Seq(Byte) : q5 = q4 \o o0 /\ Len(q5) = 4 + e
  BY <1>18, <1>19
<1>21. q5 \o ty \in Seq(Byte) /\ Len(q5 \o ty) = Len(q5) + Len(ty)
  BY Join
<1>22. Len(q5 \o ty) = 6 + e
  BY <1>8, <1>21, <1>20
<1>23. PICK q6 \in Seq(Byte) : q6 = q5 \o ty /\ Len(q6) = 6 + e
  BY <1>21, <1>22
<1>24. q6 \o body \in Seq(Byte) /\ Len(q6 \o body) = Len(q6) + Len(body)
  BY Join
<1>25. Len(q6 \o body) = 6 + e + n
  BY <1>8, <1>24, <1>23
<1>26. PICK q7 \in Seq(Byte) : q7 = q6 \o body /\ Len(q7) = 6 + e + n
  BY <1>24, <1>25
<1>27. q7 \o o0 \in Seq(Byte) /\ Len(q7 \o o0) = Len(q7) + Len(o0)
  BY Join
<1>28. Len(q7 \o o0) = 7 + e + n
  BY <1>8, <1>27, <1>26
<1>29. PICK q8 \in Seq(Byte) : q8 = q7 \o o0 /\ Len(q8) = 7 + e + n
  BY <1>27, <1>28
<1>30. PICK payload \in Seq(Byte) :
         /\ payload = <<0>> \o _zigzag(0) \o _zigzag(delta) \o _zigzag(-1)
                     \o _zigzag(0) \o <<1, type>> \o body \o <<0>>
         /\ payload = q8 /\ Len(payload) = 7 + e + n
  BY <1>3, <1>6, <1>7, <1>11, <1>14, <1>17, <1>20, <1>23, <1>26, <1>29
<1>31. PICK len \in Nat : len = 7 + e + n /\ len <= 211
  BY <1>6
<1>32. len < 64 * 128 /\ len < 32 * Huge
  BY <1>31, HugeIs
<1>33. _zigzag(len) \in Seq(Byte) /\ 1 <= Len(_zigzag(len)) /\ Len(_zigzag(len)) <= 2
  BY <1>32, ZigzagType
<1>34. PICK l \in Nat : l = Len(_zigzag(len)) /\ l <= 2 /\ 1 <= l
  BY <1>33, LenProperties
<1>35. PICK zl \in Seq(Byte) : zl = _zigzag(len) /\ Len(zl) = l
  BY <1>33, <1>34
<1>36. _record(delta, type, body) = zl \o payload
  BY <1>30, <1>31, <1>35 DEF _record
<1>37. zl \o payload \in Seq(Byte) /\ Len(zl \o payload) = Len(zl) + Len(payload)
  BY Join
<1>38. Len(zl) = l /\ Len(payload) = len
  BY <1>30, <1>31, <1>35
<1>39. 1 <= l /\ l <= 2 /\ len <= 211
  BY <1>31, <1>34
<1>40. l + len <= 255
  BY <1>39
<1>41. Len(zl \o payload) = l + len /\ l + len <= 255
  BY <1>37, <1>38, <1>40
<1>42. ASSUME NEW data \in Seq(Byte), NEW pos \in Nat, At(data, pos, zl \o payload)
       PROVE  parse_record(data, pos) = [values |-> <<value>>, pos |-> pos + (l + len)]
  <2>1. At(data, pos, zl) /\ At(data, pos + Len(zl), payload)
    BY <1>42, LastPiece
  <2>2. At(data, pos + l, q8)
    BY <1>30, <1>38, <2>1
  <2>3. PICK base \in Nat : base = pos + l /\ At(data, base, q8)
    BY <2>2
  <2>4. At(data, base, q7 \o o0)
    BY <1>29, <2>3
  <2>5. At(data, base, q7) /\ At(data, base + Len(q7), o0)
    BY <2>4, LastPiece
  <2>6. At(data, base, q7) /\ At(data, base + (6 + e + n), o0)
    BY <1>26, <2>5
  <2>7. At(data, base, q6 \o body)
    BY <1>26, <2>6
  <2>8. At(data, base, q6) /\ At(data, base + Len(q6), body)
    BY <2>7, LastPiece
  <2>9. At(data, base, q6) /\ At(data, base + (6 + e), body)
    BY <1>23, <2>8
  <2>10. At(data, base, q5 \o ty)
    BY <1>23, <2>9
  <2>11. At(data, base, q5) /\ At(data, base + Len(q5), ty)
    BY <2>10, LastPiece
  <2>12. At(data, base, q5) /\ At(data, base + (4 + e), ty)
    BY <1>20, <2>11
  <2>13. At(data, base, q4 \o o0)
    BY <1>20, <2>12
  <2>14. At(data, base, q4) /\ At(data, base + Len(q4), o0)
    BY <2>13, LastPiece
  <2>15. At(data, base, q4) /\ At(data, base + (3 + e), o0)
    BY <1>17, <2>14
  <2>16. At(data, base, q3 \o o1)
    BY <1>17, <2>15
  <2>17. At(data, base, q3) /\ At(data, base + Len(q3), o1)
    BY <2>16, LastPiece
  <2>18. At(data, base, q3) /\ At(data, base + (2 + e), o1)
    BY <1>14, <2>17
  <2>19. At(data, base, q2 \o zd)
    BY <1>14, <2>18
  <2>20. At(data, base, q2) /\ At(data, base + Len(q2), zd)
    BY <2>19, LastPiece
  <2>21. At(data, base, q2) /\ At(data, base + 2, zd)
    BY <1>11, <2>20
  <2>22. At(data, base, o0 \o o0)
    BY <1>11, <2>21
  <2>23. At(data, base, o0) /\ At(data, base + Len(o0), o0)
    BY <2>22, LastPiece
  <2>24. At(data, base, o0) /\ At(data, base + 1, o0)
    BY <1>8, <2>23
  <2>25. /\ At(data, pos, _zigzag(len)) /\ At(data, pos + l + 1, _zigzag(0))
         /\ At(data, pos + l + 2, _zigzag(delta)) /\ At(data, pos + l + 2 + e, _zigzag(-1))
         /\ At(data, pos + l + 3 + e, _zigzag(0))
    <3>1. /\ base + 1 = pos + l + 1 /\ base + 2 = pos + l + 2
          /\ base + (2 + e) = pos + l + 2 + e /\ base + (3 + e) = pos + l + 3 + e
      BY <2>3
    <3>2. QED
      BY <1>6, <1>7, <1>35, <2>1, <3>1, <2>24, <2>21, <2>18, <2>15
  <2>26. Len(_zigzag(len)) = l /\ Len(_zigzag(delta)) = e
    BY <1>6, <1>35
  <2>27. PICK at \in Nat, there \in Nat :
           /\ at = pos + l + 4 + e /\ at = base + (4 + e) /\ there = at + 2
           /\ there = base + (6 + e)
    BY <2>3
  <2>28. HeadAt(data, pos, at)
    <3> USE DEF HeadAt
    <3>1. WITNESS len \in Nat, delta \in Nat, l \in Nat, e \in Nat
    <3>2. QED
      BY <1>32, <2>25, <2>26, <2>27
  <2>29. At(data, at, <<1, type>>) /\ At(data, there, body)
    BY <1>3, <2>27, <2>12, <2>9
  <2>30. At(data, at + 1, <<type>>)
    BY <1>1, <2>29, TwoBytes
  <2>31. at + 1 \in Nat
    BY <2>27
  <2>32. bytes_to_int(read_bytes(data, at + 1, 1)) = type
    BY <1>1, <2>30, <2>31, ReadByte
  <2>33. parse_data(type, data, there) = [value |-> value, pos |-> there + n]
    BY <2>29 DEF Parses
  <2>34. there + n + 1 = pos + (l + len)
    BY <1>31, <2>27
  <2>35. read_head(data, pos) = [ok |-> TRUE, n |-> 0, pos |-> at]
    BY <2>28, HeadRead
  <2>36. read_head(data, pos).ok = TRUE
    BY <2>35
  <2>37. read_head(data, pos).pos = at
    BY <2>35
  <2>38. read_head(data, pos).pos + 1 = at + 1 /\ read_head(data, pos).pos + 2 = there
    BY <2>27, <2>37
  <2>39. /\ parse_data(type, data, there).value = value
         /\ parse_data(type, data, there).pos = there + n
    BY <2>33
  <2>40. /\ bytes_to_int(read_bytes(data, read_head(data, pos).pos + 1, 1)) = type
         /\ parse_data(type, data, read_head(data, pos).pos + 2).value = value
         /\ parse_data(type, data, read_head(data, pos).pos + 2).pos = there + n
    BY <2>32, <2>38, <2>39
  <2>41. parse_record(data, pos) = [values |-> <<value>>, pos |-> there + n + 1]
    BY <2>40, <2>36 DEF parse_record
  <2>42. QED
    BY <2>34, <2>41
<1>43. Reads(zl \o payload, value)
  BY <1>41, <1>42 DEF Reads
<1>44. QED
  BY <1>36, <1>37, <1>41, <1>43

-----------------------------------------------------------------------------
(* The records of a batch: parse_records *)

\* A parser never goes in front of where it starts.
LEMMA LengthType ==
    ASSUME NEW data \in Seq(Byte), NEW pos \in Nat
    PROVE  length_at(data, pos) \in Int /\ length_at(data, pos) >= -1
<1>1. read_bytes(data, pos, 1) \in Seq(Byte)
  BY ReadType
<1>2. PICK n \in Nat : n = bytes_to_int(read_bytes(data, pos, 1))
  BY <1>1, BytesToIntType
<1>3. QED
  BY <1>2 DEF length_at

\* behind_array goes on to a position.
LEMMA BehindType ==
    ASSUME NEW data \in Seq(Byte), NEW pos \in Nat
    PROVE  behind_array(data, pos, 4) \in Nat /\ behind_array(data, pos, 16) \in Nat
<1>1. PICK n \in Int : n = length_at(data, pos)
  BY LengthType
<1>2. PICK m \in Nat : m = IF n < 0 THEN 0 ELSE n
  OBVIOUS
<1>3. \A size \in Nat : behind_array(data, pos, size) = pos + 1 + m * size
  BY <1>1, <1>2 DEF behind_array
<1>4. QED
  BY <1>3

\* So does every parse_data.
LEMMA ParsePos ==
    ASSUME NEW data \in Seq(Byte), NEW pos \in Nat,
           NEW type \in {FEATURE_LEVEL, TOPIC, PARTITION, UNREGISTER}
    PROVE  parse_data(type, data, pos).pos \in Nat
<1>1. PICK at \in Nat, at21 \in Nat : at = pos + 1 /\ at21 = pos + 21
  OBVIOUS
<1>2. PICK n \in Int : n = length_at(data, pos + 1) /\ n >= -1
  BY <1>1, LengthType
<1>3. parse_feature_level(data, pos).pos \in Nat
  BY <1>2 DEF parse_feature_level
<1>4. parse_topic(data, pos).pos \in Nat
  BY <1>2 DEF parse_topic
<1>5. parse_unregister(data, pos).pos \in Nat
  BY DEF parse_unregister
<1>6. parse_partition(data, pos).pos \in Nat
  <2>1. PICK isr \in Nat : isr = behind_array(data, pos + 21, 4)
    BY <1>1, BehindType
  <2>2. PICK removing \in Nat : removing = behind_array(data, isr, 4)
    BY BehindType
  <2>3. PICK adding \in Nat : adding = behind_array(data, removing, 4)
    BY BehindType
  <2>4. PICK added \in Nat : added = behind_array(data, adding, 4)
    BY BehindType
  <2>5. PICK directories \in Nat : directories = added + 12
    OBVIOUS
  <2>6. PICK end \in Nat : end = behind_array(data, directories, 16)
    BY BehindType
  <2>7. parse_partition(data, pos).pos = end + 1
    BY <2>1, <2>2, <2>3, <2>4, <2>5, <2>6 DEF parse_partition
  <2>8. QED
    BY <2>7
<1>7. /\ parse_data(FEATURE_LEVEL, data, pos) = parse_feature_level(data, pos)
      /\ parse_data(TOPIC, data, pos) = parse_topic(data, pos)
      /\ parse_data(PARTITION, data, pos) = parse_partition(data, pos)
      /\ parse_data(UNREGISTER, data, pos) = parse_unregister(data, pos)
  BY DEF parse_data, FEATURE_LEVEL, TOPIC, PARTITION, UNREGISTER
<1>8. QED
  BY <1>3, <1>4, <1>5, <1>6, <1>7

\* And read_head.
LEMMA HeadPos ==
    ASSUME NEW data \in Seq(Byte), NEW pos \in Nat
    PROVE  read_head(data, pos).pos \in Nat
<1> DEFINE V == [ok : BOOLEAN, n : Int, pos : Nat]
<1>1. ASSUME NEW varint \in V, NEW gap \in Nat
      PROVE  Behind(varint, data, gap) \in V
  <2>1. varint.pos + gap \in Nat
    OBVIOUS
  <2>2. read_varint(data, varint.pos + gap) \in V
    BY <2>1, VarintReadType
  <2>3. QED
    BY <2>2 DEF Behind
<1>2. PICK v1 \in V : v1 = read_varint(data, pos)
  BY VarintReadType
<1> HIDE DEF V
<1>3. PICK v2 \in V : v2 = Behind(v1, data, 1)
  BY <1>1
<1>4. PICK v3 \in V : v3 = Behind(v2, data, 0)
  BY <1>1
<1>5. PICK key \in V : key = Behind(v3, data, 0)
  BY <1>1
<1>6. PICK gap \in Nat : gap = IF key.n > 0 THEN key.n ELSE 0
  BY DEF V
<1>7. Behind(key, data, gap) \in V
  BY <1>1
<1>8. read_head(data, pos) = Behind(key, data, gap)
  BY <1>2, <1>3, <1>4, <1>5, <1>6 DEF read_head
<1>9. QED
  BY <1>7, <1>8 DEF V

\* The values that a parse of these bytes can find, from wherever.
RecordValues(data) == UNION {Range(parse_record(data, p).values) : p \in Nat}

\* And parse_record; its values are some of these.
LEMMA RecordShape ==
    ASSUME NEW data \in Seq(Byte), NEW pos \in Nat
    PROVE  /\ parse_record(data, pos).pos \in Nat
           /\ parse_record(data, pos).values \in Seq(RecordValues(data))
<1>1. PICK at \in Nat : at = read_head(data, pos).pos
  BY HeadPos
<1>2. at + 2 \in Nat
  OBVIOUS
<1> DEFINE type == bytes_to_int(read_bytes(data, at + 1, 1))
           fine == read_head(data, pos).ok
                   /\ type \in {FEATURE_LEVEL, TOPIC, PARTITION, UNREGISTER}
           read == parse_data(type, data, at + 2)
<1>3. parse_record(data, pos) = IF fine THEN [values |-> <<read.value>>, pos |-> read.pos + 1]
                                ELSE [values |-> <<>>, pos |-> pos]
  BY <1>1 DEF parse_record
<1>4. fine => read.pos \in Nat
  BY <1>2, ParsePos
<1> HIDE DEF fine, read
<1>5. CASE fine
  <2>1. parse_record(data, pos) = [values |-> <<read.value>>, pos |-> read.pos + 1]
    BY <1>3, <1>5
  <2>2. parse_record(data, pos).values = <<read.value>>
    BY <2>1
  <2>3. read.value \in Range(parse_record(data, pos).values)
    BY <2>2 DEF Range
  <2>4. read.value \in RecordValues(data)
    BY <2>3 DEF RecordValues
  <2>5. <<read.value>> \in Seq(RecordValues(data))
    BY <2>4
  <2>6. QED
    BY <1>4, <1>5, <2>1, <2>2, <2>5
<1>6. CASE ~fine
  <2>1. parse_record(data, pos) = [values |-> <<>>, pos |-> pos]
    BY <1>3, <1>6
  <2>2. QED
    BY <2>1
<1>7. QED
  BY <1>5, <1>6

\* The definition of parse_records' recursion, as an operator on functions.
RecordsStep(data, f) ==
    [at \in Nat \X Nat |->
       IF at[2] = 0 \/ parse_record(data, at[1]).values = <<>> THEN <<>>
       ELSE parse_record(data, at[1]).values
            \o f[<<parse_record(data, at[1]).pos, at[2] - 1>>]]

\* parse_records comes to an end, whatever the bytes and the count are.
LEMMA RecordsAre ==
    ASSUME NEW data \in Seq(Byte)
    PROVE  \E from \in [Nat \X Nat -> Seq(RecordValues(data))] :
             /\ from = RecordsStep(data, from)
             /\ \A pos \in Nat, count \in Nat :
                  parse_records(data, pos, count) = from[<<pos, count>>]
<1> DEFINE S == Nat \X Nat
           T == Seq(RecordValues(data))
           values(at) == parse_record(data, at[1]).values
           behind(at) == parse_record(data, at[1]).pos
           stop == {at \in S : at[2] = 0 \/ values(at) = <<>>}
           base == [at \in S |-> <<>>]
           next == [at \in S |-> IF at[2] = 0 THEN at ELSE <<behind(at), at[2] - 1>>]
           comb == [at \in S |-> [v \in T |-> values(at) \o v]]
           size == [at \in S |-> at[2]]
           from == CHOOSE f : f = RecordsStep(data, f)
<1>1. \A at \in S : behind(at) \in Nat /\ values(at) \in T
  BY RecordShape
<1> HIDE DEF values, behind
<1>2. Loop(S, T, stop, base, next, comb, size)
  <2>1. base \in [S -> T] /\ size \in [S -> Nat]
    OBVIOUS
  <2>2. next \in [S -> S]
    <3>1. ASSUME NEW at \in S, at[2] # 0 PROVE at[2] - 1 \in Nat /\ behind(at) \in Nat
      BY <1>1, <3>1
    <3>2. QED
      BY <3>1
  <2>3. comb \in [S -> [T -> T]]
    <3>1. ASSUME NEW at \in S, NEW v \in T PROVE values(at) \o v \in T
      BY <1>1, Join
    <3>2. QED
      BY <3>1
  <2>4. ASSUME NEW at \in S, at \notin stop PROVE size[next[at]] < size[at]
    <3>1. at[2] # 0
      BY <2>4
    <3>2. next[at] \in S /\ next[at] = <<behind(at), at[2] - 1>>
      BY <2>2, <3>1
    <3>3. size[next[at]] = at[2] - 1
      BY <3>2
    <3>4. QED
      BY <3>3
  <2> HIDE DEF S, T, stop, base, next, comb, size
  <2>5. QED
    BY <2>1, <2>2, <2>3, <2>4 DEF Loop
<1>3. PICK f \in [S -> T] : Unrolls(f, S, stop, base, next, comb)
  <2> HIDE DEF S, T, stop, base, next, comb, size
  <2>1. QED
    BY <1>2, Recursion
<1>4. ASSUME NEW at \in S
      PROVE  f[at] = IF at[2] = 0 \/ values(at) = <<>> THEN <<>>
                     ELSE values(at) \o f[<<behind(at), at[2] - 1>>]
  <2>1. f[at] = IF at \in stop THEN base[at] ELSE comb[at][f[next[at]]]
    BY <1>3 DEF Unrolls
  <2>2. CASE at \in stop
    BY <2>1, <2>2
  <2>3. CASE at \notin stop
    <3>1. at[2] # 0 /\ values(at) # <<>>
      BY <2>3
    <3>2. next[at] = <<behind(at), at[2] - 1>> /\ next[at] \in S
      BY <1>1, <3>1
    <3>3. f[next[at]] \in T
      BY <3>2
    <3>4. f[at] = comb[at][f[next[at]]]
      BY <2>1, <2>3
    <3>5. f[at] = values(at) \o f[next[at]]
      BY <3>3, <3>4
    <3>6. QED
      BY <3>1, <3>2, <3>5
  <2>4. QED
    BY <2>2, <2>3
<1>5. f = RecordsStep(data, f)
  BY <1>4 DEF RecordsStep, values, behind
<1>6. from = RecordsStep(data, from)
  BY <1>5
<1>7. \A pos \in Nat, count \in Nat : parse_records(data, pos, count) = from[<<pos, count>>]
  BY DEF parse_records, RecordsStep
<1> HIDE DEF from
<1>8. ASSUME NEW at \in S, at \in stop \/ from[next[at]] \in T PROVE from[at] \in T
  <2>1. from[at] = IF at[2] = 0 \/ values(at) = <<>> THEN <<>>
                   ELSE values(at) \o from[<<behind(at), at[2] - 1>>]
    BY <1>6 DEF RecordsStep, values, behind
  <2>2. CASE at \in stop
    BY <2>1, <2>2
  <2>3. CASE at \notin stop
    <3>1. at[2] # 0 /\ values(at) # <<>>
      BY <2>3
    <3>2. next[at] = <<behind(at), at[2] - 1>>
      BY <3>1
    <3>3. PICK v \in T : v = from[next[at]]
      BY <1>8, <2>3
    <3>4. values(at) \o v \in T
      BY <1>1, Join
    <3>5. QED
      BY <2>1, <3>1, <3>2, <3>3, <3>4
  <2>4. QED
    BY <2>2, <2>3
<1>9. \A at \in S : from[at] \in T
  <2> DEFINE P == {at \in S : from[at] \in T}
  <2>1. ASSUME NEW at \in S, at \in stop \/ next[at] \in P PROVE at \in P
    BY <1>8, <2>1
  <2>2. \A at \in S : at \in P
    <3> HIDE DEF S, T, stop, base, next, comb, size, P
    <3>1. QED
      BY <1>2, <2>1, LoopInduction
  <2>3. QED
    BY <2>2
<1>10. from \in [S -> T]
  <2>1. from = [at \in S |-> RecordsStep(data, from)[at]]
    <3>1. RecordsStep(data, from) = [at \in S |-> RecordsStep(data, from)[at]]
      BY DEF RecordsStep
    <3>2. QED
      BY <1>6, <3>1
  <2>2. QED
    BY <1>9, <2>1, <1>6
<1>11. QED
  BY <1>6, <1>7, <1>10

\* Sequences of one set are sequences of a larger one.
LEMMA Widen ==
    ASSUME NEW S, NEW T, S \subseteq T, NEW s \in Seq(S)
    PROVE  s \in Seq(T)
<1>1. PICK n \in Nat : s \in [1 .. n -> S]
  BY SeqDef
<1>2. s \in [1 .. n -> T]
  BY <1>1
<1>3. QED
  BY <1>2, SeqDef

\* Records one behind the other, with the values that parse_record reads.
Laid(data, pos, records, values) ==
    /\ records \in Seq(Seq(Byte)) /\ Len(values) = Len(records)
    /\ \A i \in 1 .. Len(records) : Reads(records[i], values[i])
    /\ At(data, pos, FlattenSeq(records))

\* parse_records reads them before anything else, and stops if there are no
\* more by the count.
LEMMA RecordsRead ==
    ASSUME NEW data \in Seq(Byte), NEW pos \in Nat, NEW V, NEW values \in Seq(V),
           NEW records, Laid(data, pos, records, values),
           NEW count \in Nat, count >= Len(values)
    PROVE  \E rest \in Seq(V \cup RecordValues(data)) :
             /\ parse_records(data, pos, count) = values \o rest
             /\ count = Len(values) => rest = <<>>
<1> DEFINE T == V \cup RecordValues(data)
<1>1. PICK m \in Nat : m = Len(values) /\ m <= count
  BY LenProperties
<1>2. /\ records \in Seq(Seq(Byte)) /\ Len(records) = m
      /\ \A i \in 1 .. m : Reads(records[i], values[i])
      /\ At(data, pos, FlattenSeq(records))
  BY <1>1 DEF Laid
<1>3. PICK f : Together(Byte, records, f) /\ FlattenSeq(records) = f[m]
  BY <1>2, FlattenIs
<1>4. \A i \in 1 .. m : At(data, pos + Len(f[i - 1]), records[i])
  BY <1>2, <1>3, PieceAt
<1>5. /\ f \in [0 .. m -> Seq(Byte)] /\ f[0] = <<>>
      /\ \A i \in 1 .. m : f[i] = f[i - 1] \o records[i]
  BY <1>2, <1>3 DEF Together
<1>6. PICK from \in [Nat \X Nat -> Seq(RecordValues(data))] :
        /\ from = RecordsStep(data, from)
        /\ \A p \in Nat, c \in Nat : parse_records(data, p, c) = from[<<p, c>>]
  BY RecordsAre
<1>7. values \in Seq(T)
  BY Widen
<1>8. \A p \in Nat, c \in Nat : from[<<p, c>>] \in Seq(T)
  <2>1. ASSUME NEW p \in Nat, NEW c \in Nat PROVE from[<<p, c>>] \in Seq(T)
    <3>1. PICK s \in Seq(RecordValues(data)) : s = from[<<p, c>>]
      BY <1>6
    <3>2. s \in Seq(T)
      BY Widen
    <3>3. QED
      BY <3>1, <3>2
  <2>2. QED
    BY <2>1
<1> HIDE DEF T
<1>9. ASSUME NEW p \in Seq(T), NEW q \in Seq(T), NEW r \in Seq(T)
       PROVE  (p \o q) \o r = p \o (q \o r)
  <2>1. Group(p, q, r)
    BY Grouped
  <2>2. QED
    BY <2>1, Zenon DEF Group
<1> DEFINE P == {k \in 0 .. m :
                   from[<<pos, count>>] =
                     SubSeq(values, 1, k) \o from[<<pos + Len(f[k]), count - k>>]}
<1>10. 0 \in P
  <2>1. Len(f[0]) = 0 /\ pos + 0 = pos /\ count - 0 = count
    BY <1>5
  <2>2. SubSeq(values, 1, 0) = <<>>
    BY SubSeqEmpty
  <2>3. PICK s \in Seq(T) : s = from[<<pos, count>>]
    BY <1>8
  <2>4. <<>> \o s = s
    BY JoinNothing
  <2>5. 0 \in 0 .. m
    OBVIOUS
  <2>6. QED
    BY <2>1, <2>2, <2>3, <2>4, <2>5
<1>11. ASSUME NEW k \in 0 .. m, k # m, k \in P PROVE k + 1 \in P
  <2>1. PICK i \in 1 .. m : i = k + 1
    BY <1>11
  <2>2. PICK s \in Seq(Byte), t \in Seq(Byte), u \in Seq(Byte) :
          s = f[k] /\ t = records[i] /\ u = f[i] /\ u = s \o t
    <3>1. f[k] \in Seq(Byte) /\ f[i] \in Seq(Byte)
      BY <1>5
    <3>2. records[i] \in Seq(Byte)
      BY <1>2, ElementOfSeq
    <3>3. i - 1 = k
      BY <2>1
    <3>4. f[i] = f[k] \o records[i]
      BY <1>5, <3>3
    <3>5. QED
      BY <3>2, <3>1, <3>4
  <2>3. PICK x \in Nat, y \in Nat : x = Len(s) /\ y = Len(t)
    BY LenProperties
  <2>4. Len(u) = x + y
    BY <2>2, <2>3, Join
  <2>5. PICK q \in Nat, c \in Nat :
          q = pos + x /\ q = pos + Len(f[k]) /\ c = count - k /\ c # 0 /\ c - 1 = count - i
    BY <1>1, <1>11, <2>1, <2>2, <2>3
  <2>6. At(data, q, t)
    BY <1>4, <2>1, <2>2, <2>5
  <2>7. parse_record(data, q) = [values |-> <<values[i]>>, pos |-> q + y]
    BY <1>2, <2>1, <2>2, <2>3, <2>6 DEF Reads
  <2>8. from[<<q, c>>] = <<values[i]>> \o from[<<q + y, c - 1>>]
    <3>1. from[<<q, c>>] =
            IF c = 0 \/ parse_record(data, q).values = <<>> THEN <<>>
            ELSE parse_record(data, q).values \o from[<<parse_record(data, q).pos, c - 1>>]
      <4>1. <<q, c>> \in Nat \X Nat /\ <<q, c>>[1] = q /\ <<q, c>>[2] = c
        OBVIOUS
      <4>2. QED
        BY <1>6, <4>1 DEF RecordsStep
    <3>2. parse_record(data, q).values = <<values[i]>> /\ parse_record(data, q).pos = q + y
      BY <2>7
    <3>3. <<values[i]>> # <<>>
      OBVIOUS
    <3>4. QED
      BY <2>5, <3>1, <3>2, <3>3
  <2>9. q + y = pos + Len(f[i]) /\ q + y \in Nat /\ c - 1 \in Nat
    <3>1. Len(f[i]) = x + y
      BY <2>2, <2>4
    <3>2. q + y = pos + (x + y) /\ q + y \in Nat /\ c - 1 \in Nat
      BY <2>5
    <3>3. QED
      BY <3>1, <3>2
  <2>10. PICK a \in Seq(T), b \in Seq(T), r \in Seq(T) :
           a = SubSeq(values, 1, k) /\ b = <<values[i]>> /\ r = from[<<q + y, c - 1>>]
    <3>1. \A j \in 1 .. k : j \in 1 .. m
      OBVIOUS
    <3>2. \A j \in 1 .. m : values[j] \in T
      BY <1>1, <1>7, ElementOfSeq
    <3>3. SubSeq(values, 1, k) \in Seq(T)
      BY <3>1, <3>2, SubSeqProperties
    <3>4. <<values[i]>> \in Seq(T)
      BY <3>2
    <3>5. QED
      BY <1>8, <2>9, <3>3, <3>4
  <2>11. SubSeq(values, 1, i) = a \o b
    <3>1. 1 \in 1 .. Len(values) /\ i \in 1 .. Len(values) /\ i - 1 = k
      BY <1>1, <2>1
    <3>2. SubSeq(values, 1, i) = SubSeq(values, 1, i - 1) \o <<values[i]>>
      BY <1>7, <3>1, SubSeqRecursiveSecond
    <3>3. QED
      BY <2>10, <3>1, <3>2
  <2>12. from[<<pos, count>>] = a \o (b \o r)
    BY <1>11, <2>5, <2>8, <2>10
  <2>13. (a \o b) \o r = a \o (b \o r)
    BY <1>9
  <2>14. from[<<pos, count>>] = SubSeq(values, 1, i) \o from[<<pos + Len(f[i]), count - i>>]
    BY <2>5, <2>9, <2>10, <2>11, <2>12, <2>13
  <2>15. i \in 0 .. m
    OBVIOUS
  <2>16. i \in P
    BY <2>14, <2>15
  <2>17. QED
    BY <2>1, <2>16
<1>12. \A k \in 0 .. m : k \in P
  <2> HIDE DEF P
  <2>1. QED
    BY <1>10, <1>11, UpTo
<1>13. from[<<pos, count>>] = SubSeq(values, 1, m) \o from[<<pos + Len(f[m]), count - m>>]
  <2>1. m \in 0 .. m
    OBVIOUS
  <2>2. m \in P
    BY <1>12, <2>1
  <2>3. QED
    BY <2>2
<1>14. SubSeq(values, 1, m) = values
  BY <1>1, SubSeqFull
<1>15. f[m] \in Seq(Byte)
  BY <1>5
<1>16. Len(f[m]) \in Nat /\ count - m \in Nat
  BY <1>1, <1>15, LenProperties
<1>17. PICK x \in Nat, c \in Nat : x = Len(f[m]) /\ c = count - m
  BY <1>16
<1>18. PICK rest \in Seq(T) : rest = from[<<pos + x, c>>]
  BY <1>8
<1>19. count = m => rest = <<>>
  <2>1. <<pos + x, c>> \in Nat \X Nat /\ <<pos + x, c>>[2] = c /\ (count = m => c = 0)
    BY <1>17
  <2>2. QED
    BY <1>6, <1>18, <2>1 DEF RecordsStep
<1>20. parse_records(data, pos, count) = values \o rest
  BY <1>6, <1>13, <1>14, <1>17, <1>18
<1>21. QED
  BY <1>1, <1>19, <1>20 DEF T

-----------------------------------------------------------------------------
(* Batches: read_record reads what _batch makes *)

\* What _batch writes between a batch's length and its records.
HeadRest(n) ==
    int_to_bytes(1, 4) \o <<2>> \o Checksum
      \o int_to_bytes(0, 2) \o int_to_bytes(n - 1, 4)
      \o Stamp \o Stamp \o int_to_bytes(-1, 8) \o int_to_bytes(-1, 2)
      \o int_to_bytes(-1, 4) \o int_to_bytes(n, 4)

\* It is 49 bytes long, and the number of records comes last.
LEMMA HeadRestIs ==
    ASSUME NEW n \in Nat
    PROVE  /\ HeadRest(n) \in Seq(Byte) /\ Len(HeadRest(n)) = 49
           /\ \A data \in Seq(Byte), pos \in Nat :
                At(data, pos, HeadRest(n)) => At(data, pos + 45, int_to_bytes(n, 4))
<1>1. \A i \in Int, k \in {2, 4, 8} :
        int_to_bytes(i, k) \in Seq(Byte) /\ Len(int_to_bytes(i, k)) = k
  BY LongNumber
<1>2. /\ 2 \in Byte /\ n - 1 \in Int
      /\ Stamp \in Seq(Byte) /\ Len(Stamp) = 8 /\ Checksum \in Seq(Byte) /\ Len(Checksum) = 4
  BY MetadataBytesAssumption DEF Byte
<1>3. <<2>> \in Seq(Byte) /\ Len(<<2>>) = 1
  BY <1>2
<1>4. PICK o4 \in Seq(Byte), attr \in Seq(Byte), last \in Seq(Byte), m8 \in Seq(Byte) :
        /\ o4 = int_to_bytes(1, 4) /\ attr = int_to_bytes(0, 2)
        /\ last = int_to_bytes(n - 1, 4) /\ m8 = int_to_bytes(-1, 8)
        /\ Len(o4) = 4 /\ Len(attr) = 2 /\ Len(last) = 4 /\ Len(m8) = 8
  BY <1>1
<1>5. PICK ver \in Seq(Byte) : ver = <<2>> /\ Len(ver) = 1
  BY <1>3
<1>6. PICK m2 \in Seq(Byte), m4 \in Seq(Byte), num \in Seq(Byte) :
        /\ m2 = int_to_bytes(-1, 2) /\ m4 = int_to_bytes(-1, 4) /\ num = int_to_bytes(n, 4)
        /\ Len(m2) = 2 /\ Len(m4) = 4 /\ Len(num) = 4
  BY <1>1
<1>7. /\ Len(o4) = 4 /\ Len(attr) = 2 /\ Len(last) = 4 /\ Len(m8) = 8
      /\ Len(m2) = 2 /\ Len(m4) = 4 /\ Len(num) = 4 /\ Len(ver) = 1
      /\ Len(Stamp) = 8 /\ Len(Checksum) = 4
  BY <1>2, <1>4, <1>5, <1>6
<1>8. o4 \o ver \in Seq(Byte) /\ Len(o4 \o ver) = Len(o4) + Len(ver)
  BY Join
<1>9. Len(o4 \o ver) = 5
  BY <1>7, <1>8
<1>10. PICK p5 \in Seq(Byte) : p5 = o4 \o ver /\ Len(p5) = 5
  BY <1>8, <1>9
<1>11. p5 \o Checksum \in Seq(Byte) /\ Len(p5 \o Checksum) = Len(p5) + Len(Checksum)
  BY <1>2, Join
<1>12. Len(p5 \o Checksum) = 9
  BY <1>7, <1>11, <1>10
<1>13. PICK p9 \in Seq(Byte) : p9 = p5 \o Checksum /\ Len(p9) = 9
  BY <1>11, <1>12
<1>14. p9 \o attr \in Seq(Byte) /\ Len(p9 \o attr) = Len(p9) + Len(attr)
  BY Join
<1>15. Len(p9 \o attr) = 11
  BY <1>7, <1>14, <1>13
<1>16. PICK p11 \in Seq(Byte) : p11 = p9 \o attr /\ Len(p11) = 11
  BY <1>14, <1>15
<1>17. p11 \o last \in Seq(Byte) /\ Len(p11 \o last) = Len(p11) + Len(last)
  BY Join
<1>18. Len(p11 \o last) = 15
  BY <1>7, <1>17, <1>16
<1>19. PICK p15 \in Seq(Byte) : p15 = p11 \o last /\ Len(p15) = 15
  BY <1>17, <1>18
<1>20. p15 \o Stamp \in Seq(Byte) /\ Len(p15 \o Stamp) = Len(p15) + Len(Stamp)
  BY <1>2, Join
<1>21. Len(p15 \o Stamp) = 23
  BY <1>7, <1>20, <1>19
<1>22. PICK p23 \in Seq(Byte) : p23 = p15 \o Stamp /\ Len(p23) = 23
  BY <1>20, <1>21
<1>23. p23 \o Stamp \in Seq(Byte) /\ Len(p23 \o Stamp) = Len(p23) + Len(Stamp)
  BY <1>2, Join
<1>24. Len(p23 \o Stamp) = 31
  BY <1>7, <1>23, <1>22
<1>25. PICK p31 \in Seq(Byte) : p31 = p23 \o Stamp /\ Len(p31) = 31
  BY <1>23, <1>24
<1>26. p31 \o m8 \in Seq(Byte) /\ Len(p31 \o m8) = Len(p31) + Len(m8)
  BY Join
<1>27. Len(p31 \o m8) = 39
  BY <1>7, <1>26, <1>25
<1>28. PICK p39 \in Seq(Byte) : p39 = p31 \o m8 /\ Len(p39) = 39
  BY <1>26, <1>27
<1>29. p39 \o m2 \in Seq(Byte) /\ Len(p39 \o m2) = Len(p39) + Len(m2)
  BY Join
<1>30. Len(p39 \o m2) = 41
  BY <1>7, <1>29, <1>28
<1>31. PICK p41 \in Seq(Byte) : p41 = p39 \o m2 /\ Len(p41) = 41
  BY <1>29, <1>30
<1>32. p41 \o m4 \in Seq(Byte) /\ Len(p41 \o m4) = Len(p41) + Len(m4)
  BY Join
<1>33. Len(p41 \o m4) = 45
  BY <1>7, <1>32, <1>31
<1>34. PICK p45 \in Seq(Byte) : p45 = p41 \o m4 /\ Len(p45) = 45
  BY <1>32, <1>33
<1>35. p45 \o num \in Seq(Byte) /\ Len(p45 \o num) = Len(p45) + Len(num)
  BY Join
<1>36. Len(p45 \o num) = 49
  BY <1>7, <1>35, <1>34
<1>37. PICK p49 \in Seq(Byte) : p49 = p45 \o num /\ Len(p49) = 49
  BY <1>35, <1>36
<1>38. HeadRest(n) = p49
  BY <1>4, <1>5, <1>6, <1>10, <1>13, <1>16, <1>19, <1>22, <1>25, <1>28, <1>31, <1>34, <1>37
     DEF HeadRest
<1>39. ASSUME NEW data \in Seq(Byte), NEW pos \in Nat, At(data, pos, p49)
      PROVE  At(data, pos + 45, num)
  <2>1. At(data, pos, p45 \o num)
    BY <1>37, <1>39
  <2>2. At(data, pos + Len(p45), num)
    BY <2>1, LastPiece
  <2>3. QED
    BY <1>34, <2>2
<1>40. QED
  BY <1>6, <1>37, <1>38, <1>39

\* The first 61 bytes of a batch say where the next one is, how many records
\* there are, and from which offset on; the records follow.
HeadSays(head, base, n, size) ==
    \A data \in Seq(Byte), pos \in Nat :
      At(data, pos, head) =>
        /\ batch_end(data, pos) = pos + 12 + size
        /\ record_count(data, pos) = n
        /\ base < Huge * 256 => bytes_to_int(read_bytes(data, pos, 8)) = base

\* How many records there are, and how many bytes from there to the batch's end.
Sized(records, n, flat, size) ==
    /\ Len(records) = n /\ n < Huge /\ flat = FlattenSeq(records)
    /\ size = 49 + Len(flat) /\ size < Huge * 256

\* _batch makes such a head, and puts the records behind it.
LEMMA BatchHead ==
    ASSUME NEW base \in Nat, NEW records \in Seq(Seq(Byte)), NEW n \in Nat,
           NEW flat \in Seq(Byte), NEW size \in Nat, Sized(records, n, flat, size)
    PROVE  \E head \in Seq(Byte) :
             /\ Len(head) = 61 /\ _batch(base, records) = head \o flat
             /\ HeadSays(head, base, n, size)
<1>1. /\ Len(records) = n /\ n < Huge /\ flat = FlattenSeq(records)
      /\ size = 49 + Len(flat) /\ size < Huge * 256
  BY DEF Sized
<1>2. \A i \in Int, k \in {2, 4, 8} :
        int_to_bytes(i, k) \in Seq(Byte) /\ Len(int_to_bytes(i, k)) = k
  BY LongNumber
<1>3. PICK rest \in Seq(Byte) : rest = HeadRest(n) /\ Len(rest) = 49
  BY HeadRestIs
<1>4. PICK b8 \in Seq(Byte), s4 \in Seq(Byte) :
        /\ b8 = int_to_bytes(base, 8) /\ s4 = int_to_bytes(size, 4)
        /\ Len(b8) = 8 /\ Len(s4) = 4
  BY <1>2
<1>5. b8 \o s4 \in Seq(Byte) /\ Len(b8 \o s4) = Len(b8) + Len(s4)
  BY Join
<1>6. Len(b8) = 8 /\ Len(s4) = 4
  BY <1>4
<1>7. Len(b8 \o s4) = 12
  BY <1>5, <1>6
<1>8. PICK front \in Seq(Byte) : front = b8 \o s4 /\ Len(front) = 12
  BY <1>5, <1>7
<1>9. front \o rest \in Seq(Byte) /\ Len(front \o rest) = Len(front) + Len(rest)
  BY Join
<1>10. Len(front \o rest) = 61
  BY <1>3, <1>8, <1>9
<1>11. PICK head \in Seq(Byte) : head = front \o rest /\ Len(head) = 61
  BY <1>9, <1>10
<1>12. Group(front, rest, flat)
  BY Grouped
<1>13. (front \o rest) \o flat = front \o (rest \o flat)
  BY <1>12, Zenon DEF Group
<1>14. rest \o flat \in Seq(Byte) /\ Len(rest \o flat) = Len(rest) + Len(flat)
  BY Join
<1>15. Len(rest \o flat) = size
  BY <1>1, <1>3, <1>14
<1>16. _batch(base, records) = front \o (rest \o flat)
  BY <1>1, <1>3, <1>4, <1>8, <1>15 DEF _batch, HeadRest
<1>17. _batch(base, records) = head \o flat
  BY <1>11, <1>13, <1>16
<1>18. ASSUME NEW data \in Seq(Byte), NEW pos \in Nat, At(data, pos, head)
       PROVE  /\ batch_end(data, pos) = pos + 12 + size
              /\ record_count(data, pos) = n
              /\ base < Huge * 256 => bytes_to_int(read_bytes(data, pos, 8)) = base
  <2>1. At(data, pos, front \o rest)
    BY <1>11, <1>18
  <2>2. At(data, pos, front) /\ At(data, pos + Len(front), rest)
    BY <2>1, LastPiece
  <2>3. PICK at8 \in Nat, at12 \in Nat, at57 \in Nat :
          at8 = pos + 8 /\ at12 = pos + 12 /\ at57 = pos + 57 /\ at12 + 45 = at57
    OBVIOUS
  <2>4. At(data, at12, HeadRest(n))
    BY <1>3, <1>8, <2>2, <2>3
  <2>5. At(data, at57, int_to_bytes(n, 4))
    BY <2>3, <2>4, HeadRestIs
  <2>6. At(data, pos, b8 \o s4)
    BY <1>8, <2>2
  <2>7. At(data, pos, b8) /\ At(data, pos + Len(b8), s4)
    BY <2>6, LastPiece
  <2>8. At(data, at8, int_to_bytes(size, 4)) /\ At(data, pos, int_to_bytes(base, 8))
    BY <1>4, <2>3, <2>7
  <2>9. bytes_to_int(read_bytes(data, at8, 4)) = size
    BY <1>1, <2>8, ReadInt4
  <2>10. n < Huge * 256
    BY <1>1, HugeIs
  <2>11. bytes_to_int(read_bytes(data, at57, 4)) = n
    BY <2>5, <2>10, ReadInt4
  <2>12. base < Huge * 256 => bytes_to_int(read_bytes(data, pos, 8)) = base
    BY <2>8, ReadInt8
  <2>13. batch_end(data, pos) = pos + 12 + size
    BY <2>3, <2>9 DEF batch_end
  <2>14. record_count(data, pos) = n
    BY <2>3, <2>11 DEF record_count
  <2>15. QED
    BY <2>12, <2>13, <2>14
<1>19. HeadSays(head, base, n, size)
  BY <1>18 DEF HeadSays
<1>20. QED
  BY <1>11, <1>17, <1>19

\* What a record can mean.
Vals == [type : Nat, name : Seq(Byte), uuid : Seq(Byte), id : Nat]

\* The bytes of a batch as the tool makes it, with what its records mean.
MadeOf(bytes, values, base, records) ==
    /\ base \in Nat /\ records \in Seq(Seq(Byte)) /\ values \in Seq(Vals)
    /\ bytes = _batch(base, records)
    /\ Len(records) = Len(values) /\ 1 <= Len(records) /\ Len(records) < Huge
    /\ \A i \in 1 .. Len(records) : Len(records[i]) <= 255 /\ Reads(records[i], values[i])

\* Records of at most 255 bytes.
LEMMA SumBound ==
    ASSUME NEW records \in Seq(Seq(Byte)), \A i \in 1 .. Len(records) : Len(records[i]) <= 255
    PROVE  Len(FlattenSeq(records)) <= 255 * Len(records)
<1>1. PICK m \in Nat : m = Len(records)
  BY LenProperties
<1>2. PICK f : Together(Byte, records, f) /\ FlattenSeq(records) = f[m]
  BY <1>1, FlattenIs
<1>3. /\ f \in [0 .. m -> Seq(Byte)] /\ f[0] = <<>>
      /\ \A i \in 1 .. m : f[i] = f[i - 1] \o records[i]
  BY <1>1, <1>2 DEF Together
<1> DEFINE P == {k \in 0 .. m : Len(f[k]) <= 255 * k}
<1>4. 0 \in P
  <2>1. Len(f[0]) = 0 /\ 0 \in 0 .. m
    BY <1>3
  <2>2. QED
    BY <2>1
<1>5. ASSUME NEW k \in 0 .. m, k # m, k \in P PROVE k + 1 \in P
  <2>1. PICK i \in 1 .. m : i = k + 1 /\ i - 1 = k
    BY <1>5
  <2>2. f[k] \in Seq(Byte) /\ f[i] = f[k] \o records[i]
    BY <1>3, <2>1
  <2>3. records[i] \in Seq(Byte)
    BY <1>1, ElementOfSeq
  <2>4. PICK s \in Seq(Byte), t \in Seq(Byte) : s = f[k] /\ t = records[i]
    BY <2>2, <2>3
  <2>5. PICK x \in Nat, y \in Nat : x = Len(s) /\ y = Len(t)
    BY LenProperties
  <2>6. Len(s \o t) = x + y
    BY <2>5, Join
  <2>7. Len(f[i]) = x + y
    BY <2>2, <2>4, <2>6
  <2>8. x <= 255 * k
    BY <1>5, <2>4, <2>5
  <2>9. y <= 255
    BY <1>1, <2>4, <2>5
  <2>10. Len(f[i]) <= 255 * i /\ i \in 0 .. m
    BY <2>1, <2>7, <2>8, <2>9
  <2>11. i \in P
    BY <2>10
  <2>12. QED
    BY <2>1, <2>11
<1>6. \A k \in 0 .. m : k \in P
  <2> HIDE DEF P
  <2>1. QED
    BY <1>4, <1>5, UpTo
<1>7. m \in 0 .. m
  OBVIOUS
<1>8. m \in P
  BY <1>6, <1>7
<1>9. QED
  BY <1>1, <1>2, <1>8

\* A batch is its head and its records.
LEMMA BatchParts ==
    ASSUME NEW bytes, NEW values, NEW base, NEW records, MadeOf(bytes, values, base, records)
    PROVE  \E head \in Seq(Byte), flat \in Seq(Byte), size \in Nat :
             /\ flat = FlattenSeq(records) /\ Len(head) = 61 /\ bytes = head \o flat
             /\ size = 49 + Len(flat) /\ HeadSays(head, base, Len(records), size)
<1> USE DEF MadeOf
<1>1. PICK n \in Nat : n = Len(records) /\ n < Huge
  BY LenProperties
<1>2. PICK flat \in Seq(Byte) : flat = FlattenSeq(records)
  BY FlattenType
<1>3. PICK m \in Nat : m = Len(flat)
  BY LenProperties
<1>4. m <= 255 * n
  BY <1>1, <1>2, <1>3, SumBound
<1>5. PICK size \in Nat : size = 49 + m
  OBVIOUS
<1>6. size = 49 + Len(flat) /\ size < Huge * 256
  BY <1>1, <1>3, <1>4, <1>5, HugeIs
<1>7. base \in Nat /\ records \in Seq(Seq(Byte))
  OBVIOUS
<1>8. Sized(records, n, flat, size)
  BY <1>1, <1>2, <1>6 DEF Sized
<1> HIDE DEF MadeOf
<1>9. PICK head \in Seq(Byte) :
        /\ Len(head) = 61 /\ _batch(base, records) = head \o flat
        /\ HeadSays(head, base, n, size)
  BY <1>7, <1>8, BatchHead
<1>10. bytes = head \o flat
  BY <1>9 DEF MadeOf
<1>11. size = 49 + Len(flat) /\ HeadSays(head, base, Len(records), size)
  BY <1>1, <1>6, <1>9
<1>12. QED
  BY <1>2, <1>9, <1>10, <1>11

\* All of a batch is read back, and what follows it is found.
BatchSays(bytes, values, base) ==
    \A data \in Seq(Byte), pos \in Nat :
      At(data, pos, bytes) =>
        /\ batch_end(data, pos) = pos + Len(bytes)
        /\ record_count(data, pos) = Len(values)
        /\ read_record(data, pos) = values
        /\ base < Huge * 256 => bytes_to_int(read_bytes(data, pos, 8)) = base

\* This holds of every batch that the tool makes.
LEMMA BatchRead ==
    ASSUME NEW bytes, NEW values, NEW base, NEW records, MadeOf(bytes, values, base, records)
    PROVE  /\ bytes \in Seq(Byte) /\ Len(bytes) >= 61
           /\ BatchSays(bytes, values, base)
<1>1. PICK head \in Seq(Byte), flat \in Seq(Byte), size \in Nat :
        /\ flat = FlattenSeq(records) /\ Len(head) = 61 /\ bytes = head \o flat
        /\ size = 49 + Len(flat) /\ HeadSays(head, base, Len(records), size)
  BY BatchParts
<1>2. PICK m \in Nat : m = Len(flat)
  BY LenProperties
<1>3. head \o flat \in Seq(Byte) /\ Len(head \o flat) = Len(head) + Len(flat)
  BY Join
<1>4. bytes \in Seq(Byte) /\ Len(bytes) = 61 + m
  BY <1>1, <1>2, <1>3
<1>5. /\ records \in Seq(Seq(Byte)) /\ values \in Seq(Vals) /\ Len(records) = Len(values)
      /\ \A i \in 1 .. Len(records) : Reads(records[i], values[i])
  BY DEF MadeOf
<1>6. PICK n \in Nat : n = Len(values)
  BY <1>5, LenProperties
<1>7. ASSUME NEW data \in Seq(Byte), NEW pos \in Nat, At(data, pos, bytes)
      PROVE  /\ batch_end(data, pos) = pos + Len(bytes)
             /\ record_count(data, pos) = Len(values)
             /\ read_record(data, pos) = values
             /\ base < Huge * 256 => bytes_to_int(read_bytes(data, pos, 8)) = base
  <2>1. At(data, pos, head) /\ At(data, pos + Len(head), flat)
    BY <1>1, <1>7, LastPiece
  <2>2. PICK at \in Nat : at = pos + 61 /\ At(data, at, FlattenSeq(records))
    BY <1>1, <2>1
  <2>3. /\ batch_end(data, pos) = pos + 12 + size
        /\ record_count(data, pos) = Len(records)
        /\ base < Huge * 256 => bytes_to_int(read_bytes(data, pos, 8)) = base
    BY <1>1, <2>1 DEF HeadSays
  <2>4. batch_end(data, pos) = pos + Len(bytes)
    BY <1>1, <1>2, <1>4, <2>3
  <2>5. Laid(data, at, records, values)
    BY <1>5, <2>2 DEF Laid
  <2>6. n >= Len(values) /\ values \in Seq(Vals)
    BY <1>5, <1>6
  <2>7. PICK v \in Seq(Vals) : v = values
    BY <2>6
  <2>8. Laid(data, at, records, v) /\ n >= Len(v)
    BY <2>5, <2>6, <2>7
  <2>9. PICK rest \in Seq(Vals \cup RecordValues(data)) :
          /\ parse_records(data, at, n) = v \o rest
          /\ n = Len(v) => rest = <<>>
    BY <2>8, RecordsRead
  <2>10. values \o <<>> = values
    BY <1>5, JoinNothing
  <2>11. read_record(data, pos) = parse_records(data, at, n)
    BY <1>5, <1>6, <2>2, <2>3 DEF read_record
  <2>12. QED
    BY <1>5, <1>6, <2>3, <2>4, <2>9, <2>7, <2>10, <2>11
<1>8. BatchSays(bytes, values, base)
  BY <1>7 DEF BatchSays
<1>9. QED
  BY <1>4, <1>8

-----------------------------------------------------------------------------
(* Files: read_cluster_metadata_log and _next_base_offset *)

\* The definition of the log's recursion, as an operator on functions.
LogStep(data, f) ==
    [pos \in Nat |->
       IF pos >= Len(data) THEN <<>> ELSE read_record(data, pos) \o f[batch_end(data, pos)]]

\* Every batch leads to one behind it, and read_record has some values.
LEMMA BatchTypes ==
    ASSUME NEW data \in Seq(Byte), NEW pos \in Nat
    PROVE  /\ batch_end(data, pos) \in Nat /\ batch_end(data, pos) > pos
           /\ record_count(data, pos) \in Nat
           /\ read_record(data, pos) \in Seq(RecordValues(data))
<1>1. PICK at8 \in Nat, at57 \in Nat, at61 \in Nat :
        at8 = pos + 8 /\ at57 = pos + 57 /\ at61 = pos + 61
  OBVIOUS
<1>2. \A p \in Nat : read_bytes(data, p, 4) \in Seq(Byte)
  BY ReadType
<1>3. PICK size \in Nat, n \in Nat :
        /\ size = bytes_to_int(read_bytes(data, at8, 4))
        /\ n = bytes_to_int(read_bytes(data, at57, 4))
  BY <1>2, BytesToIntType
<1>4. batch_end(data, pos) = pos + 12 + size /\ record_count(data, pos) = n
  BY <1>1, <1>3 DEF batch_end, record_count
<1>5. PICK from \in [Nat \X Nat -> Seq(RecordValues(data))] :
        \A p \in Nat, c \in Nat : parse_records(data, p, c) = from[<<p, c>>]
  BY RecordsAre
<1>6. parse_records(data, at61, n) \in Seq(RecordValues(data))
  BY <1>5
<1>7. read_record(data, pos) = parse_records(data, at61, n)
  BY <1>1, <1>4 DEF read_record
<1>8. QED
  BY <1>4, <1>6, <1>7

\* read_cluster_metadata_log comes to an end for all bytes.
LEMMA LogIs ==
    ASSUME NEW data \in Seq(Byte)
    PROVE  \E from \in [Nat -> Seq(RecordValues(data))] :
             from = LogStep(data, from) /\ read_cluster_metadata_log(data) = from[0]
<1>1. PICK len \in Nat : len = Len(data)
  BY LenProperties
<1> DEFINE S == Nat
           T == Seq(RecordValues(data))
           stop == {pos \in S : pos >= len}
           base == [pos \in S |-> <<>>]
           next == [pos \in S |-> batch_end(data, pos)]
           comb == [pos \in S |-> [v \in T |-> read_record(data, pos) \o v]]
           size == [pos \in S |-> IF pos >= len THEN 0 ELSE len - pos]
           from == CHOOSE f : f = LogStep(data, f)
<1>2. \A pos \in S : /\ batch_end(data, pos) \in S /\ batch_end(data, pos) > pos
                     /\ read_record(data, pos) \in T
  BY BatchTypes
<1>3. Loop(S, T, stop, base, next, comb, size)
  <2>1. base \in [S -> T]
    OBVIOUS
  <2>2. next \in [S -> S]
    BY <1>2
  <2>3. size \in [S -> Nat]
    OBVIOUS
  <2>4. comb \in [S -> [T -> T]]
    <3>1. ASSUME NEW pos \in S, NEW v \in T PROVE read_record(data, pos) \o v \in T
      BY <1>2, Join
    <3>2. QED
      BY <3>1
  <2>5. ASSUME NEW pos \in S, pos \notin stop PROVE size[next[pos]] < size[pos]
    <3>1. PICK end \in Nat : end = next[pos] /\ end > pos
      BY <1>2
    <3>2. ~(pos >= len)
      BY <2>5
    <3>3. size[pos] = len - pos /\ size[end] = IF end >= len THEN 0 ELSE len - end
      BY <3>2
    <3>4. size[end] < size[pos]
      BY <3>1, <3>2, <3>3
    <3>5. QED
      BY <3>1, <3>4
  <2> HIDE DEF S, T, stop, base, next, comb, size
  <2>6. QED
    BY <2>4, <2>5, <2>1, <2>2, <2>3 DEF Loop
<1>4. PICK f \in [S -> T] : Unrolls(f, S, stop, base, next, comb)
  <2> HIDE DEF S, T, stop, base, next, comb, size
  <2>1. QED
    BY <1>3, Recursion
<1>5. ASSUME NEW pos \in S
      PROVE  f[pos] = IF pos >= len THEN <<>>
                      ELSE read_record(data, pos) \o f[batch_end(data, pos)]
  <2>1. f[pos] = IF pos \in stop THEN base[pos] ELSE comb[pos][f[next[pos]]]
    BY <1>4 DEF Unrolls
  <2>2. CASE pos >= len
    BY <2>1, <2>2
  <2>3. CASE ~(pos >= len)
    <3>1. next[pos] = batch_end(data, pos) /\ f[next[pos]] \in T
      BY <1>2
    <3>2. f[pos] = comb[pos][f[next[pos]]]
      BY <2>1, <2>3
    <3>3. f[pos] = read_record(data, pos) \o f[next[pos]]
      BY <3>1, <3>2
    <3>4. QED
      BY <2>3, <3>1, <3>3
  <2>4. QED
    BY <2>2, <2>3
<1>6. f = LogStep(data, f)
  BY <1>1, <1>5 DEF LogStep
<1>7. from = LogStep(data, from)
  BY <1>6
<1>8. read_cluster_metadata_log(data) = from[0]
  BY DEF read_cluster_metadata_log, LogStep
<1> HIDE DEF from
<1>9. ASSUME NEW pos \in S, pos \in stop \/ from[next[pos]] \in T PROVE from[pos] \in T
  <2>1. from[pos] = IF pos >= len THEN <<>>
                    ELSE read_record(data, pos) \o from[batch_end(data, pos)]
    BY <1>1, <1>7 DEF LogStep
  <2>2. CASE pos \in stop
    BY <2>1, <2>2
  <2>3. CASE pos \notin stop
    <3>1. PICK v \in T : v = from[batch_end(data, pos)]
      BY <1>9, <2>3
    <3>2. read_record(data, pos) \o v \in T
      BY <1>2, Join
    <3>3. QED
      BY <2>1, <2>3, <3>1, <3>2
  <2>4. QED
    BY <2>2, <2>3
<1>10. \A pos \in S : from[pos] \in T
  <2> DEFINE P == {pos \in S : from[pos] \in T}
  <2>1. ASSUME NEW pos \in S, pos \in stop \/ next[pos] \in P PROVE pos \in P
    BY <1>9, <2>1
  <2>2. \A pos \in S : pos \in P
    <3> HIDE DEF S, T, stop, base, next, comb, size, P
    <3>1. QED
      BY <1>3, <2>1, LoopInduction
  <2>3. QED
    BY <2>2
<1>11. from \in [S -> T]
  <2>1. LogStep(data, from) = [pos \in S |-> LogStep(data, from)[pos]]
    BY DEF LogStep
  <2>2. from = [pos \in S |-> from[pos]]
    BY <1>7, <2>1
  <2>3. QED
    BY <1>10, <2>2
<1>12. QED
  BY <1>7, <1>8, <1>11

\* Batches as the tool makes them, and the values in them.
Made(bss, vss) ==
    /\ bss \in Seq(Seq(Byte)) /\ vss \in Seq(Seq(Vals)) /\ Len(bss) = Len(vss)
    /\ \A i \in 1 .. Len(bss) : \E base, records : MadeOf(bss[i], vss[i], base, records)

\* A broker loads what such batches say before anything else.
LEMMA FileRead ==
    ASSUME NEW data \in Seq(Byte), NEW bss, NEW vss, Made(bss, vss),
           At(data, 0, FlattenSeq(bss)),
           NEW from \in [Nat -> Seq(RecordValues(data))], from = LogStep(data, from)
    PROVE  from[0] = FlattenSeq(vss) \o from[Len(FlattenSeq(bss))]
<1> DEFINE T == Vals \cup RecordValues(data)
<1>1. /\ bss \in Seq(Seq(Byte)) /\ vss \in Seq(Seq(Vals)) /\ Len(bss) = Len(vss)
      /\ \A i \in 1 .. Len(bss) : \E base, records : MadeOf(bss[i], vss[i], base, records)
  BY DEF Made
<1>2. PICK m \in Nat, len \in Nat : m = Len(bss) /\ m = Len(vss) /\ len = Len(data)
  BY <1>1, LenProperties
<1>3. PICK f : Together(Byte, bss, f) /\ FlattenSeq(bss) = f[m]
  BY <1>1, <1>2, FlattenIs
<1>4. PICK v : Together(Vals, vss, v) /\ FlattenSeq(vss) = v[m]
  BY <1>1, <1>2, FlattenIs
<1>5. /\ f \in [0 .. m -> Seq(Byte)] /\ f[0] = <<>>
      /\ \A i \in 1 .. m : f[i] = f[i - 1] \o bss[i]
  BY <1>2, <1>3 DEF Together
<1>6. /\ v \in [0 .. m -> Seq(Vals)] /\ v[0] = <<>>
      /\ \A i \in 1 .. m : v[i] = v[i - 1] \o vss[i]
  BY <1>2, <1>4 DEF Together
<1>7. \A i \in 1 .. m : At(data, Len(f[i - 1]), bss[i])
  <2>1. 0 \in Nat /\ At(data, 0, f[Len(bss)])
    BY <1>2, <1>3
  <2>2. \A i \in 1 .. Len(bss) : At(data, 0 + Len(f[i - 1]), bss[i])
    BY <1>1, <1>3, <2>1, PieceAt
  <2>3. ASSUME NEW i \in 1 .. m PROVE At(data, Len(f[i - 1]), bss[i])
    <3>1. i - 1 \in 0 .. m
      OBVIOUS
    <3>2. Len(f[i - 1]) \in Nat
      BY <1>5, <3>1, LenProperties
    <3>3. 0 + Len(f[i - 1]) = Len(f[i - 1])
      BY <3>2
    <3>4. QED
      BY <1>2, <2>2, <3>3
  <2>4. QED
    BY <2>3
<1>8. \A pos \in Nat : from[pos] \in Seq(T)
  <2>1. ASSUME NEW pos \in Nat PROVE from[pos] \in Seq(T)
    <3>1. PICK s \in Seq(RecordValues(data)) : s = from[pos]
      OBVIOUS
    <3>2. s \in Seq(T)
      BY Widen
    <3>3. QED
      BY <3>1, <3>2
  <2>2. QED
    BY <2>1
<1>9. \A s \in Seq(Vals) : s \in Seq(T)
  BY Widen
<1> HIDE DEF T
<1> DEFINE P == {k \in 0 .. m : from[0] = v[k] \o from[Len(f[k])]}
<1>10. 0 \in P
  <2>1. Len(f[0]) = 0 /\ 0 \in 0 .. m
    BY <1>5
  <2>2. PICK s \in Seq(T) : s = from[0]
    BY <1>8
  <2>3. <<>> \o s = s
    BY JoinNothing
  <2>4. QED
    BY <1>6, <2>1, <2>2, <2>3
<1>11. ASSUME NEW k \in 0 .. m, k # m, k \in P PROVE k + 1 \in P
  <2>1. PICK i \in 1 .. m : i = k + 1 /\ i - 1 = k
    BY <1>11
  <2>2. PICK base, records : MadeOf(bss[i], vss[i], base, records)
    BY <1>1, <1>2
  <2>3. BatchSays(bss[i], vss[i], base) /\ bss[i] \in Seq(Byte) /\ Len(bss[i]) >= 61
    BY <2>2, BatchRead
  <2>4. f[k] \in Seq(Byte) /\ f[i] = f[k] \o bss[i] /\ v[k] \in Seq(Vals) /\ v[i] = v[k] \o vss[i]
    BY <1>5, <1>6, <2>1
  <2>5. PICK s \in Seq(Byte), t \in Seq(Byte) : s = f[k] /\ t = bss[i]
    BY <2>3, <2>4
  <2>6. PICK x \in Nat, y \in Nat : x = Len(s) /\ y = Len(t) /\ y >= 61
    BY <2>3, <2>5, LenProperties
  <2>7. Len(s \o t) = x + y
    BY <2>6, Join
  <2>8. Len(f[k]) = x /\ Len(f[i]) = x + y
    BY <2>4, <2>5, <2>6, <2>7
  <2>9. At(data, x, bss[i])
    BY <1>7, <2>1, <2>8
  <2>10. x + y <= len
    BY <1>2, <2>5, <2>6, <2>9 DEF At
  <2>11. batch_end(data, x) = x + y /\ read_record(data, x) = vss[i]
    BY <2>3, <2>5, <2>6, <2>9 DEF BatchSays
  <2>12. from[x] = vss[i] \o from[x + y]
    <3>1. ~(x >= Len(data))
      BY <1>2, <2>6, <2>10
    <3>2. from[x] = IF x >= Len(data) THEN <<>>
                    ELSE read_record(data, x) \o from[batch_end(data, x)]
      BY DEF LogStep
    <3>3. QED
      BY <2>11, <3>1, <3>2
  <2>13. PICK a \in Seq(T), b \in Seq(T), r \in Seq(T) :
           a = v[k] /\ b = vss[i] /\ r = from[x + y]
    <3>1. vss[i] \in Seq(Vals)
      BY <1>1, <1>2, ElementOfSeq
    <3>2. x + y \in Nat
      OBVIOUS
    <3>3. v[k] \in Seq(T) /\ vss[i] \in Seq(T) /\ from[x + y] \in Seq(T)
      BY <1>8, <1>9, <2>4, <3>1, <3>2
    <3>4. QED
      BY <3>3
  <2>14. from[0] = a \o (b \o r)
    BY <1>11, <2>8, <2>12, <2>13
  <2>15. (a \o b) \o r = a \o (b \o r)
    <3>1. Group(a, b, r)
      BY Grouped
    <3>2. QED
      BY <3>1, Zenon DEF Group
  <2>16. from[0] = v[i] \o from[Len(f[i])]
    BY <2>4, <2>8, <2>13, <2>14, <2>15
  <2>17. i \in 0 .. m
    OBVIOUS
  <2>18. i \in P
    BY <2>16, <2>17
  <2>19. QED
    BY <2>1, <2>18
<1>12. \A k \in 0 .. m : k \in P
  <2> HIDE DEF P
  <2>1. QED
    BY <1>10, <1>11, UpTo
<1>13. m \in 0 .. m
  OBVIOUS
<1>14. m \in P
  BY <1>12, <1>13
<1>15. QED
  BY <1>3, <1>4, <1>14

\* The more sequences, the longer they are together.
LEMMA PrefixLen ==
    ASSUME NEW T, NEW ss \in Seq(Seq(T)), NEW f, Together(T, ss, f)
    PROVE  \A k \in 0 .. Len(ss) : Len(f[k]) \in Nat /\ Len(f[k]) <= Len(f[Len(ss)])
<1>1. PICK m \in Nat : m = Len(ss)
  BY LenProperties
<1>2. /\ f \in [0 .. m -> Seq(T)]
      /\ \A i \in 1 .. m : f[i] = f[i - 1] \o ss[i]
  BY <1>1 DEF Together
<1>3. \A k \in 0 .. m : Len(f[k]) \in Nat
  <2>1. ASSUME NEW k \in 0 .. m PROVE Len(f[k]) \in Nat
    <3>1. f[k] \in Seq(T)
      BY <1>2
    <3>2. QED
      BY <3>1, LenProperties
  <2>2. QED
    BY <2>1
<1> DEFINE P == {k \in 0 .. m : Len(f[k]) <= Len(f[m])}
<1>4. m \in P
  <2>1. m \in 0 .. m
    OBVIOUS
  <2>2. Len(f[m]) \in Nat
    BY <1>3, <2>1
  <2>3. Len(f[m]) <= Len(f[m])
    BY <2>2
  <2>4. QED
    BY <2>1, <2>3
<1>5. ASSUME NEW k \in 0 .. m, k # 0, k \in P PROVE k - 1 \in P
  <2>1. PICK j \in 0 .. m : j = k - 1 /\ k \in 1 .. m
    BY <1>5
  <2>2. f[k] = f[j] \o ss[k] /\ f[j] \in Seq(T)
    BY <1>2, <2>1
  <2>3. ss[k] \in Seq(T)
    BY <1>1, <2>1, ElementOfSeq
  <2>4. PICK s \in Seq(T), t \in Seq(T) : s = f[j] /\ t = ss[k]
    BY <2>2, <2>3
  <2>5. PICK x \in Nat, y \in Nat : x = Len(s) /\ y = Len(t)
    BY LenProperties
  <2>6. Len(s \o t) = x + y
    BY <2>5, Join
  <2>7. Len(f[k]) = x + y /\ Len(f[j]) = x
    BY <2>2, <2>4, <2>5, <2>6
  <2>8. PICK z \in Nat : z = Len(f[m])
    <3>1. m \in 0 .. m
      OBVIOUS
    <3>2. QED
      BY <1>3, <3>1
  <2>9. x + y <= z
    BY <1>5, <2>7, <2>8
  <2>10. Len(f[j]) <= Len(f[m])
    BY <2>7, <2>8, <2>9
  <2>11. j \in P
    BY <2>10
  <2>12. QED
    BY <2>1, <2>11
<1>6. \A k \in 0 .. m : k \in P
  <2> HIDE DEF P
  <2>1. QED
    BY <1>4, <1>5, DownTo
<1>7. QED
  BY <1>1, <1>3, <1>6

\* The definition of the scan's recursion, as an operator on functions.
ScanStep(f) ==
    [at \in Nat \X Nat |->
       IF at[1] + 61 > Len(file) THEN at[2]
       ELSE f[<<batch_end(file, at[1]),
                bytes_to_int(read_bytes(file, at[1], 8)) + record_count(file, at[1])>>]]

\* _next_base_offset comes to an end for all bytes.
LEMMA ScanIs ==
    ASSUME file \in Seq(Byte)
    PROVE  \E scan \in [Nat \X Nat -> Nat] :
             scan = ScanStep(scan) /\ _next_base_offset = scan[<<0, 1>>]
<1>1. PICK len \in Nat : len = Len(file)
  BY LenProperties
<1> DEFINE S == Nat \X Nat
           offset(p) == bytes_to_int(read_bytes(file, p, 8)) + record_count(file, p)
           stop == {at \in S : at[1] + 61 > len}
           base == [at \in S |-> at[2]]
           next == [at \in S |-> <<batch_end(file, at[1]), offset(at[1])>>]
           comb == [at \in S |-> [n \in Nat |-> n]]
           size == [at \in S |-> IF at[1] >= len THEN 0 ELSE len - at[1]]
           scan == CHOOSE f : f = ScanStep(f)
<1>2. \A p \in Nat : /\ batch_end(file, p) \in Nat /\ batch_end(file, p) > p
                     /\ offset(p) \in Nat
  <2>1. ASSUME NEW p \in Nat PROVE bytes_to_int(read_bytes(file, p, 8)) \in Nat
    <3>1. read_bytes(file, p, 8) \in Seq(Byte)
      BY ReadType
    <3>2. QED
      BY <3>1, BytesToIntType
  <2>2. \A p \in Nat : record_count(file, p) \in Nat
    BY BatchTypes
  <2>3. \A p \in Nat : batch_end(file, p) \in Nat /\ batch_end(file, p) > p
    BY BatchTypes
  <2>4. ASSUME NEW p \in Nat PROVE offset(p) \in Nat
    <3>1. PICK b \in Nat, c \in Nat :
            b = bytes_to_int(read_bytes(file, p, 8)) /\ c = record_count(file, p)
      BY <2>1, <2>2
    <3>2. b + c \in Nat
      OBVIOUS
    <3>3. offset(p) = b + c
      BY <3>1
    <3>4. QED
      BY <3>2, <3>3
  <2>5. QED
    BY <2>3, <2>4
<1>3. scan = ScanStep(scan) => /\ scan = ScanStep(scan)
                               /\ _next_base_offset = scan[<<0, 1>>]
  BY DEF _next_base_offset, ScanStep, batch_end, record_count
<1> HIDE DEF offset, scan
<1>4. Loop(S, Nat, stop, base, next, comb, size)
  <2>1. base \in [S -> Nat] /\ comb \in [S -> [Nat -> Nat]]
    OBVIOUS
  <2>2. next \in [S -> S]
    BY <1>2
  <2>3. size \in [S -> Nat]
    OBVIOUS
  <2>4. ASSUME NEW at \in S, at \notin stop PROVE size[next[at]] < size[at]
    <3>1. PICK p \in Nat, end \in Nat, to \in Nat :
            p = at[1] /\ end = batch_end(file, p) /\ to = offset(p) /\ end > p
      BY <1>2
    <3>2. ~(p >= len)
      BY <2>4, <3>1
    <3>3. size[at] = len - p
      BY <3>1, <3>2
    <3>4. next[at] = <<end, to>> /\ <<end, to>> \in S /\ <<end, to>>[1] = end
      BY <3>1
    <3>5. size[<<end, to>>] = IF end >= len THEN 0 ELSE len - end
      BY <3>4
    <3>6. (IF end >= len THEN 0 ELSE len - end) < len - p
      BY <3>1, <3>2
    <3>7. QED
      BY <3>3, <3>4, <3>5, <3>6
  <2> HIDE DEF S, stop, base, next, comb, size
  <2>5. QED
    BY <2>1, <2>2, <2>3, <2>4 DEF Loop
<1>5. PICK f \in [S -> Nat] : Unrolls(f, S, stop, base, next, comb)
  <2> HIDE DEF S, stop, base, next, comb, size
  <2>1. QED
    BY <1>4, Recursion
<1>6. ASSUME NEW at \in S
      PROVE  f[at] = IF at[1] + 61 > len THEN at[2]
                     ELSE f[<<batch_end(file, at[1]), offset(at[1])>>]
  <2>1. f[at] = IF at \in stop THEN base[at] ELSE comb[at][f[next[at]]]
    BY <1>5 DEF Unrolls
  <2>2. CASE at \in stop
    BY <2>1, <2>2
  <2>3. CASE at \notin stop
    <3>1. next[at] = <<batch_end(file, at[1]), offset(at[1])>> /\ next[at] \in S
      BY <1>2
    <3>2. f[next[at]] \in Nat
      BY <3>1
    <3>3. f[at] = comb[at][f[next[at]]]
      BY <2>1, <2>3
    <3>4. comb[at][f[next[at]]] = f[next[at]]
      BY <3>2
    <3>5. ~(at[1] + 61 > len)
      BY <2>3
    <3>6. QED
      BY <3>1, <3>3, <3>4, <3>5
  <2>4. QED
    BY <2>2, <2>3
<1>7. f = ScanStep(f)
  BY <1>1, <1>6 DEF ScanStep, offset
<1>8. scan = ScanStep(scan)
  BY <1>7 DEF scan
<1>9. ASSUME NEW at \in S, at \in stop \/ scan[next[at]] \in Nat PROVE scan[at] \in Nat
  <2>1. scan[at] = IF at[1] + 61 > len THEN at[2]
                   ELSE scan[<<batch_end(file, at[1]), offset(at[1])>>]
    BY <1>1, <1>8 DEF ScanStep, offset
  <2>2. CASE at \in stop
    BY <2>1, <2>2
  <2>3. CASE at \notin stop
    BY <1>9, <2>1, <2>3
  <2>4. QED
    BY <2>2, <2>3
<1>10. \A at \in S : scan[at] \in Nat
  <2> DEFINE P == {at \in S : scan[at] \in Nat}
  <2>1. ASSUME NEW at \in S, at \in stop \/ next[at] \in P PROVE at \in P
    BY <1>9, <2>1
  <2>2. \A at \in S : at \in P
    <3> HIDE DEF S, stop, base, next, comb, size, P
    <3>1. QED
      BY <1>4, <2>1, LoopInduction
  <2>3. QED
    BY <2>2
<1>11. scan \in [S -> Nat]
  <2>1. ScanStep(scan) = [at \in S |-> ScanStep(scan)[at]]
    BY DEF ScanStep
  <2>2. scan = [at \in S |-> scan[at]]
    BY <1>8, <2>1
  <2>3. QED
    BY <1>10, <2>2
<1>12. QED
  BY <1>3, <1>8, <1>11

\* The base offset of every batch is `first` and the number of the values in front.
Numbered(first, bss, vss) ==
    \E v : /\ Together(Vals, vss, v)
          /\ \A i \in 1 .. Len(bss) :
               \E records : MadeOf(bss[i], vss[i], first + Len(v[i - 1]), records)

\* The scan finds the offset behind such batches.
LEMMA OffsetRead ==
    ASSUME file \in Seq(Byte), NEW bss, NEW vss, Made(bss, vss), Numbered(1, bss, vss),
           file = FlattenSeq(bss), Len(FlattenSeq(vss)) < Huge
    PROVE  _next_base_offset = 1 + Len(FlattenSeq(vss))
<1>1. bss \in Seq(Seq(Byte)) /\ vss \in Seq(Seq(Vals)) /\ Len(bss) = Len(vss)
  BY DEF Made
<1>2. PICK m \in Nat, len \in Nat : m = Len(bss) /\ m = Len(vss) /\ len = Len(file)
  BY <1>1, LenProperties
<1>3. PICK f : Together(Byte, bss, f) /\ FlattenSeq(bss) = f[m]
  BY <1>1, <1>2, FlattenIs
<1>4. PICK v : /\ Together(Vals, vss, v)
               /\ \A i \in 1 .. m : \E records : MadeOf(bss[i], vss[i], 1 + Len(v[i - 1]), records)
  BY <1>2 DEF Numbered
<1>5. /\ f \in [0 .. m -> Seq(Byte)] /\ f[0] = <<>>
      /\ \A i \in 1 .. m : f[i] = f[i - 1] \o bss[i]
  BY <1>2, <1>3 DEF Together
<1>6. /\ v \in [0 .. m -> Seq(Vals)] /\ v[0] = <<>>
      /\ \A i \in 1 .. m : v[i] = v[i - 1] \o vss[i]
  BY <1>2, <1>4 DEF Together
<1>7. FlattenSeq(vss) = v[m]
  <2>1. PICK g : Together(Vals, vss, g) /\ FlattenSeq(vss) = g[m]
    BY <1>1, <1>2, FlattenIs
  <2>2. \A i \in 0 .. m : g[i] = v[i]
    BY <1>2, <1>4, <2>1, TogetherSame
  <2>3. m \in 0 .. m
    OBVIOUS
  <2>4. QED
    BY <2>1, <2>2, <2>3
<1>8. \A k \in 0 .. m : Len(v[k]) \in Nat /\ Len(v[k]) < Huge
  <2>1. \A k \in 0 .. m : Len(v[k]) \in Nat /\ Len(v[k]) <= Len(v[m])
    BY <1>1, <1>2, <1>4, PrefixLen
  <2>2. m \in 0 .. m
    OBVIOUS
  <2>3. PICK z \in Nat : z = Len(v[m]) /\ z < Huge
    BY <1>7, <2>1, <2>2
  <2>4. QED
    BY <2>1, <2>3, HugeIs
<1>9. \A i \in 1 .. m : At(file, Len(f[i - 1]), bss[i])
  <2>1. 0 \in Nat /\ At(file, 0, f[Len(bss)])
    <3>1. \A i \in 1 .. len : file[0 + i] = file[i]
      OBVIOUS
    <3>2. At(file, 0, file)
      BY <1>2, <3>1 DEF At
    <3>3. QED
      BY <1>2, <1>3, <3>2
  <2>2. \A i \in 1 .. Len(bss) : At(file, 0 + Len(f[i - 1]), bss[i])
    BY <1>1, <1>3, <2>1, PieceAt
  <2>3. ASSUME NEW i \in 1 .. m PROVE At(file, Len(f[i - 1]), bss[i])
    <3>1. i - 1 \in 0 .. m
      OBVIOUS
    <3>2. Len(f[i - 1]) \in Nat
      BY <1>5, <3>1, LenProperties
    <3>3. 0 + Len(f[i - 1]) = Len(f[i - 1])
      BY <3>2
    <3>4. QED
      BY <1>2, <2>2, <3>3
  <2>4. QED
    BY <2>3
<1>10. PICK scan \in [Nat \X Nat -> Nat] :
         scan = ScanStep(scan) /\ _next_base_offset = scan[<<0, 1>>]
  BY ScanIs
<1> DEFINE P == {k \in 0 .. m : scan[<<0, 1>>] = scan[<<Len(f[k]), 1 + Len(v[k])>>]}
<1>11. 0 \in P
  <2>1. Len(f[0]) = 0 /\ Len(v[0]) = 0 /\ 1 + 0 = 1 /\ 0 \in 0 .. m
    BY <1>5, <1>6
  <2>2. QED
    BY <2>1
<1>12. ASSUME NEW k \in 0 .. m, k # m, k \in P PROVE k + 1 \in P
  <2>1. PICK i \in 1 .. m : i = k + 1 /\ i - 1 = k
    BY <1>12
  <2>2. PICK n \in Nat, base \in Nat : n = Len(v[k]) /\ base = 1 + n /\ base < Huge * 256
    BY <1>8, HugeIs
  <2>3. PICK records : MadeOf(bss[i], vss[i], base, records)
    BY <1>4, <2>1, <2>2
  <2>4. BatchSays(bss[i], vss[i], base) /\ bss[i] \in Seq(Byte) /\ Len(bss[i]) >= 61
    BY <2>3, BatchRead
  <2>5. f[k] \in Seq(Byte) /\ f[i] = f[k] \o bss[i] /\ v[k] \in Seq(Vals) /\ v[i] = v[k] \o vss[i]
    BY <1>5, <1>6, <2>1
  <2>6. vss[i] \in Seq(Vals)
    BY <1>1, <1>2, ElementOfSeq
  <2>7. PICK s \in Seq(Byte), t \in Seq(Byte), a \in Seq(Vals), b \in Seq(Vals) :
          s = f[k] /\ t = bss[i] /\ a = v[k] /\ b = vss[i]
    BY <2>4, <2>5, <2>6
  <2>8. PICK x \in Nat, y \in Nat, c \in Nat :
          x = Len(s) /\ y = Len(t) /\ c = Len(b) /\ y >= 61 /\ n = Len(a)
    BY <2>2, <2>4, <2>7, LenProperties
  <2>9. Len(s \o t) = x + y /\ Len(a \o b) = n + c
    BY <2>8, Join
  <2>10. Len(f[k]) = x /\ Len(f[i]) = x + y /\ Len(v[i]) = n + c
    BY <2>5, <2>7, <2>8, <2>9
  <2>11. At(file, x, bss[i])
    BY <1>9, <2>1, <2>10
  <2>12. x + y <= len
    BY <1>2, <2>7, <2>8, <2>11 DEF At
  <2>13. /\ batch_end(file, x) = x + y /\ record_count(file, x) = c
         /\ bytes_to_int(read_bytes(file, x, 8)) = base
    BY <2>2, <2>4, <2>7, <2>8, <2>11 DEF BatchSays
  <2>14. scan[<<x, base>>] = scan[<<x + y, base + c>>]
    <3>1. ~(x + 61 > Len(file))
      BY <1>2, <2>8, <2>12
    <3>2. <<x, base>> \in Nat \X Nat /\ <<x, base>>[1] = x /\ <<x, base>>[2] = base
      OBVIOUS
    <3>3. scan[<<x, base>>] = IF x + 61 > Len(file) THEN base
            ELSE scan[<<batch_end(file, x),
                        bytes_to_int(read_bytes(file, x, 8)) + record_count(file, x)>>]
      BY <1>10, <3>2 DEF ScanStep
    <3>4. QED
      BY <2>13, <3>1, <3>3
  <2>15. base + c = 1 + Len(v[i]) /\ base = 1 + Len(v[k])
    BY <2>2, <2>10
  <2>16. scan[<<0, 1>>] = scan[<<Len(f[i]), 1 + Len(v[i])>>]
    BY <1>12, <2>10, <2>14, <2>15
  <2>17. i \in 0 .. m
    OBVIOUS
  <2>18. i \in P
    BY <2>16, <2>17
  <2>19. QED
    BY <2>1, <2>18
<1>13. \A k \in 0 .. m : k \in P
  <2> HIDE DEF P
  <2>1. QED
    BY <1>11, <1>12, UpTo
<1>14. m \in 0 .. m
  OBVIOUS
<1>15. m \in P
  BY <1>13, <1>14
<1>16. PICK to \in Nat : to = 1 + Len(v[m])
  BY <1>8, <1>14
<1>17. scan[<<len, to>>] = to
  <2>1. <<len, to>> \in Nat \X Nat /\ <<len, to>>[1] = len /\ <<len, to>>[2] = to
    OBVIOUS
  <2>2. len + 61 > Len(file)
    BY <1>2
  <2>3. QED
    BY <1>10, <2>1, <2>2 DEF ScanStep
<1>18. QED
  BY <1>2, <1>3, <1>7, <1>10, <1>15, <1>16, <1>17

-----------------------------------------------------------------------------
(* What a run of the tool writes *)

\* An id is 16 bytes.
LEMMA UuidType ==
    ASSUME NEW run \in Nat, NEW i \in Nat
    PROVE  uuid4(run, i) \in Seq(Byte) /\ Len(uuid4(run, i)) = 16
<1>1. PICK n \in Nat : n = 160 + 8 * run + i
  OBVIOUS
<1>2. n % 256 \in Byte
  BY DivMod256 DEF Byte
<1>3. PICK b \in Byte : b = (160 + 8 * run + i) % 256
  BY <1>1, <1>2
<1>4. uuid4(run, i) = [k \in 1 .. 16 |-> b]
  BY <1>3 DEF uuid4
<1>5. [k \in 1 .. 16 |-> b] \in Seq(Byte) /\ Len([k \in 1 .. 16 |-> b]) = 16
  <2>1. [k \in 1 .. 16 |-> b] \in [1 .. 16 -> Byte] /\ 16 \in Nat
    OBVIOUS
  <2>2. QED
    BY <2>1
<1>6. QED
  BY <1>4, <1>5

\* The records of the three types, as they are read back.
RecordOf(record, value) ==
    /\ record \in Seq(Byte) /\ Len(record) <= 255 /\ value \in Vals /\ Reads(record, value)

\* A name is bytes.
LEMMA NameType ==
    ASSUME NEW name \in Names
    PROVE  name \in Seq(Byte)
  BY DEF Names

\* A value of any type is one.
LEMMA ValueType ==
    ASSUME NEW type \in {FEATURE_LEVEL, TOPIC, PARTITION, UNREGISTER},
           NEW name \in Seq(Byte), NEW uuid \in Seq(Byte), NEW id \in Nat
    PROVE  Value(type, name, uuid, id) \in Vals
<1>1. type \in Nat
  BY DEF FEATURE_LEVEL, TOPIC, PARTITION, UNREGISTER
<1>2. QED
  BY <1>1 DEF Value, Vals

\* The record of the feature level.
LEMMA FeatureRecord ==
    RecordOf(_feature_level_record, Value(FEATURE_LEVEL, FeatureName, <<>>, 0))
<1>1. /\ FeatureBody \in Seq(Byte) /\ Len(FeatureBody) <= 131
      /\ Parses(FEATURE_LEVEL, FeatureBody, Value(FEATURE_LEVEL, FeatureName, <<>>, 0))
  BY FeatureParse DEF Parses
<1>2. PICK n \in Nat : n = Len(FeatureBody) /\ n <= 200
  BY <1>1, LenProperties
<1>3. _feature_level_record = _record(0, FEATURE_LEVEL, FeatureBody)
  BY DEF _feature_level_record, FeatureBody
<1>4. 0 < 32 * Huge
  BY HugeIs
<1>5. /\ _record(0, FEATURE_LEVEL, FeatureBody) \in Seq(Byte)
      /\ Len(_record(0, FEATURE_LEVEL, FeatureBody)) <= 255
      /\ Reads(_record(0, FEATURE_LEVEL, FeatureBody), Value(FEATURE_LEVEL, FeatureName, <<>>, 0))
  BY <1>1, <1>2, <1>4, RecordRead
<1>6. Value(FEATURE_LEVEL, FeatureName, <<>>, 0) \in Vals
  <2>1. FeatureName \in Seq(Byte)
    BY MetadataBytesAssumption, NameType
  <2>2. <<>> \in Seq(Byte)
    OBVIOUS
  <2>3. QED
    BY <2>1, <2>2, ValueType
<1>7. Len(_feature_level_record) <= 255
  BY <1>3, <1>5
<1>8. QED
  BY <1>3, <1>5, <1>6, <1>7 DEF RecordOf

\* The record of a topic.
LEMMA TopicRecord ==
    ASSUME NEW name \in Names, NEW uuid \in Seq(Byte), Len(uuid) = 16
    PROVE  RecordOf(_topic_record(name, uuid), Value(TOPIC, name, uuid, 0))
<1>1. /\ TopicBody(name, uuid) \in Seq(Byte) /\ Len(TopicBody(name, uuid)) <= 145
      /\ Parses(TOPIC, TopicBody(name, uuid), Value(TOPIC, name, uuid, 0))
  BY TopicParse DEF Parses
<1>2. PICK body \in Seq(Byte), n \in Nat :
        body = TopicBody(name, uuid) /\ n = Len(body) /\ n <= 200
  BY <1>1, LenProperties
<1>3. _topic_record(name, uuid) = _record(0, TOPIC, body)
  BY <1>2 DEF _topic_record, TopicBody
<1>4. 0 < 32 * Huge
  BY HugeIs
<1>5. Parses(TOPIC, body, Value(TOPIC, name, uuid, 0))
  BY <1>1, <1>2
<1>6. /\ _record(0, TOPIC, body) \in Seq(Byte)
      /\ Len(_record(0, TOPIC, body)) <= 255
      /\ Reads(_record(0, TOPIC, body), Value(TOPIC, name, uuid, 0))
  BY <1>2, <1>4, <1>5, RecordRead
<1>7. Value(TOPIC, name, uuid, 0) \in Vals
  BY NameType, ValueType
<1>8. Len(_topic_record(name, uuid)) <= 255
  BY <1>3, <1>6
<1>9. QED
  BY <1>3, <1>6, <1>7, <1>8 DEF RecordOf

\* A partition's record, of which only the size matters.
LEMMA RecordOfSize ==
    ASSUME NEW delta \in Nat, delta < 32 * Huge, NEW body \in Seq(Byte), Len(body) = 47,
           NEW value, Parses(PARTITION, body, value)
    PROVE  /\ _record(delta, PARTITION, body) \in Seq(Byte)
           /\ Len(_record(delta, PARTITION, body)) <= 255
           /\ Reads(_record(delta, PARTITION, body), value)
<1>1. PICK n \in Nat : n = 47
  OBVIOUS
<1>2. Len(body) = n /\ n <= 200
  BY <1>1
<1>3. PARTITION \in {FEATURE_LEVEL, TOPIC, PARTITION, UNREGISTER}
  OBVIOUS
<1>4. QED
  BY <1>2, <1>3, RecordRead

\* The record of a partition.
LEMMA PartitionRecord ==
    ASSUME NEW id \in Nat, id < Huge, NEW uuid \in Seq(Byte), Len(uuid) = 16,
           NEW delta \in Nat, delta < 32 * Huge
    PROVE  RecordOf(_partition_record(id, uuid, delta), Value(PARTITION, <<>>, uuid, id))
<1>1. /\ PartitionBody(id, uuid) \in Seq(Byte) /\ Len(PartitionBody(id, uuid)) = 47
      /\ \A data \in Seq(Byte), pos \in Nat :
           At(data, pos, PartitionBody(id, uuid)) =>
             parse_data(PARTITION, data, pos) =
               [value |-> Value(PARTITION, <<>>, uuid, id), pos |-> pos + 47]
  BY PartitionParse
<1>2. PICK body \in Seq(Byte) : body = PartitionBody(id, uuid) /\ Len(body) = 47
  BY <1>1
<1>3. _partition_record(id, uuid, delta) = _record(delta, PARTITION, body)
  BY <1>2 DEF _partition_record, PartitionBody
<1>4. Parses(PARTITION, body, Value(PARTITION, <<>>, uuid, id))
  BY <1>1, <1>2 DEF Parses
<1>5. /\ _record(delta, PARTITION, body) \in Seq(Byte)
      /\ Len(_record(delta, PARTITION, body)) <= 255
      /\ Reads(_record(delta, PARTITION, body), Value(PARTITION, <<>>, uuid, id))
  BY <1>2, <1>4, RecordOfSize
<1>6. Value(PARTITION, <<>>, uuid, id) \in Vals
  <2>1. <<>> \in Seq(Byte)
    OBVIOUS
  <2>2. QED
    BY <2>1, ValueType
<1>7. Len(_partition_record(id, uuid, delta)) <= 255
  BY <1>3, <1>5
<1>8. QED
  BY <1>3, <1>5, <1>6, <1>7 DEF RecordOf

\* One sequence from another for each of its elements.
LEMMA Mapped ==
    ASSUME NEW T, NEW n \in Nat, NEW f, f \in [1 .. n -> T]
    PROVE  f \in Seq(T) /\ Len(f) = n /\ DOMAIN f = 1 .. n
  OBVIOUS

\* The batch with the feature level can be read.
LEMMA FeatureBatchMade ==
    /\ MadeOf(FeatureBatch.bytes, FeatureBatch.values, 1, <<_feature_level_record>>)
    /\ Len(FeatureBatch.values) = 1
<1>1. PICK record \in Seq(Byte), value \in Vals :
        /\ record = _feature_level_record /\ value = Value(FEATURE_LEVEL, FeatureName, <<>>, 0)
        /\ Len(record) <= 255 /\ Reads(record, value)
  BY FeatureRecord DEF RecordOf
<1>2. /\ FeatureBatch.bytes = _batch(1, <<record>>)
      /\ FeatureBatch.values = <<value>>
  BY <1>1 DEF FeatureBatch, Batch
<1>3. /\ <<record>> \in Seq(Seq(Byte)) /\ <<value>> \in Seq(Vals)
      /\ Len(<<record>>) = 1 /\ Len(<<value>>) = 1 /\ 1 < Huge
  BY HugeIs
<1>4. \A i \in 1 .. 1 : <<record>>[i] = record /\ <<value>>[i] = value
  OBVIOUS
<1>5. MadeOf(_batch(1, <<record>>), <<value>>, 1, <<record>>)
  BY <1>1, <1>3, <1>4 DEF MadeOf
<1>6. QED
  BY <1>1, <1>2, <1>3, <1>5

\* The records in a topic's batch.
TopicRecords(name, partitions, uuid) ==
    <<_topic_record(name, uuid)>>
      \o [p \in 1 .. partitions |-> _partition_record(p - 1, uuid, p)]

\* A topic's batch can be read: the topic and all of its partitions.
LEMMA TopicBatchMade ==
    ASSUME NEW base \in Nat, NEW name \in Names, NEW partitions \in Nat,
           partitions <= Huge - 2, NEW uuid \in Seq(Byte), Len(uuid) = 16
    PROVE  /\ MadeOf(TopicBatch(base, name, partitions, uuid).bytes,
                     TopicBatch(base, name, partitions, uuid).values, base,
                     TopicRecords(name, partitions, uuid))
           /\ Len(TopicBatch(base, name, partitions, uuid).values) = 1 + partitions
<1> DEFINE ps == [p \in 1 .. partitions |-> _partition_record(p - 1, uuid, p)]
           vs == [p \in 1 .. partitions |-> Value(PARTITION, <<>>, uuid, p - 1)]
<1>1. PICK record \in Seq(Byte), value \in Vals :
        /\ record = _topic_record(name, uuid) /\ value = Value(TOPIC, name, uuid, 0)
        /\ Len(record) <= 255 /\ Reads(record, value)
  BY TopicRecord DEF RecordOf
<1>2. ASSUME NEW p \in 1 .. partitions PROVE RecordOf(ps[p], vs[p])
  <2>1. PICK id \in Nat : id = p - 1 /\ id < Huge /\ p \in Nat /\ p < 32 * Huge
    BY HugeIs
  <2>2. RecordOf(_partition_record(id, uuid, p), Value(PARTITION, <<>>, uuid, id))
    BY <2>1, PartitionRecord
  <2>3. QED
    BY <2>1, <2>2
<1>3. /\ ps \in [1 .. partitions -> Seq(Byte)] /\ vs \in [1 .. partitions -> Vals]
      /\ \A p \in 1 .. partitions : Len(ps[p]) <= 255 /\ Reads(ps[p], vs[p])
  <2>1. \A p \in 1 .. partitions : ps[p] \in Seq(Byte) /\ vs[p] \in Vals
    BY <1>2 DEF RecordOf
  <2>2. \A p \in 1 .. partitions : Len(ps[p]) <= 255 /\ Reads(ps[p], vs[p])
    BY <1>2 DEF RecordOf
  <2>3. QED
    BY <2>1, <2>2
<1>4. /\ TopicRecords(name, partitions, uuid) = <<record>> \o ps
      /\ TopicBatch(base, name, partitions, uuid).bytes = _batch(base, <<record>> \o ps)
      /\ TopicBatch(base, name, partitions, uuid).values = <<value>> \o vs
  BY <1>1 DEF TopicRecords, TopicBatch, Batch
<1> HIDE DEF ps, vs
<1>5. /\ ps \in Seq(Seq(Byte)) /\ Len(ps) = partitions /\ vs \in Seq(Vals) /\ Len(vs) = partitions
  BY <1>3, Mapped
<1>6. /\ <<record>> \in Seq(Seq(Byte)) /\ <<value>> \in Seq(Vals)
      /\ Len(<<record>>) = 1 /\ Len(<<value>>) = 1
  OBVIOUS
<1>7. /\ <<record>> \o ps \in Seq(Seq(Byte)) /\ Len(<<record>> \o ps) = 1 + partitions
      /\ \A i \in 1 .. 1 + partitions :
           (<<record>> \o ps)[i] = IF i <= 1 THEN <<record>>[i] ELSE ps[i - 1]
  BY <1>5, <1>6, ConcatProperties
<1>8. /\ <<value>> \o vs \in Seq(Vals) /\ Len(<<value>> \o vs) = 1 + partitions
      /\ \A i \in 1 .. 1 + partitions :
           (<<value>> \o vs)[i] = IF i <= 1 THEN <<value>>[i] ELSE vs[i - 1]
  BY <1>5, <1>6, ConcatProperties
<1>9. ASSUME NEW i \in 1 .. 1 + partitions
      PROVE  Len((<<record>> \o ps)[i]) <= 255 /\ Reads((<<record>> \o ps)[i], (<<value>> \o vs)[i])
  <2>1. CASE i = 1
    <3>1. (<<record>> \o ps)[i] = record /\ (<<value>> \o vs)[i] = value
      BY <1>7, <1>8, <2>1
    <3>2. QED
      BY <1>1, <3>1
  <2>2. CASE i # 1
    <3>1. PICK p \in 1 .. partitions : p = i - 1 /\ ~(i <= 1)
      BY <2>2
    <3>2. (<<record>> \o ps)[i] = ps[p] /\ (<<value>> \o vs)[i] = vs[p]
      BY <1>7, <1>8, <3>1
    <3>3. QED
      BY <1>3, <3>2
  <2>3. QED
    BY <2>1, <2>2
<1>10. 1 <= 1 + partitions /\ 1 + partitions < Huge
  BY HugeIs
<1>11. PICK rs \in Seq(Seq(Byte)), ws \in Seq(Vals) :
         /\ rs = <<record>> \o ps /\ ws = <<value>> \o vs
         /\ Len(rs) = 1 + partitions /\ Len(ws) = 1 + partitions
         /\ \A i \in 1 .. 1 + partitions : Len(rs[i]) <= 255 /\ Reads(rs[i], ws[i])
  BY <1>7, <1>8, <1>9
<1>12. MadeOf(_batch(base, rs), ws, base, rs)
  BY <1>10, <1>11 DEF MadeOf
<1>13. QED
  BY <1>4, <1>11, <1>12

\* Command lines within the bounds of MetadataBytesAssumption.
Topics == Seq(Names \X (0 .. Huge - 2))

\* An argument of a command line is a name and a number of partitions.
LEMMA TopicType ==
    ASSUME NEW topics \in Topics, NEW i \in 1 .. Len(topics)
    PROVE  topics[i][1] \in Names /\ topics[i][2] \in Nat /\ topics[i][2] <= Huge - 2
<1>1. topics[i] \in Names \X (0 .. Huge - 2)
  BY ElementOfSeq DEF Topics
<1>2. topics[i][2] \in 0 .. Huge - 2
  BY <1>1
<1>3. QED
  BY <1>1, <1>2, HugeIs

\* The base offset of a batch is that of the one before it and the number of
\* its records.
Follow(base, first, topics, n) ==
    /\ base \in [1 .. n -> Nat]
    /\ \A i \in 1 .. n : base[i] = IF i = 1 THEN first ELSE base[i - 1] + 1 + topics[i - 1][2]

\* base_offsets computes these.
LEMMA BaseOffsets ==
    ASSUME NEW first \in Nat, NEW topics \in Topics, NEW n \in Nat, n = Len(topics)
    PROVE  Follow(base_offsets(first, topics), first, topics, n)
<1> DEFINE S == 1 .. n
           more == [i \in S |-> IF i = 1 THEN 0 ELSE topics[i - 1][2]]
           stop == {1}
           base == [i \in S |-> first]
           next == [i \in S |-> IF i = 1 THEN 1 ELSE i - 1]
           comb == [i \in S |-> [m \in Nat |-> m + 1 + more[i]]]
           size == [i \in S |-> i]
           Step(f) == [i \in S |-> IF i = 1 THEN first ELSE f[i - 1] + 1 + topics[i - 1][2]]
           b == CHOOSE f : f = Step(f)
<1>1. DOMAIN topics = S
  BY DEF Topics
<1>2. base_offsets(first, topics) = b
  BY <1>1 DEF base_offsets
<1>3. \A i \in S : more[i] \in Nat
  <2>1. ASSUME NEW i \in S PROVE more[i] \in Nat
    <3>1. i # 1 => i - 1 \in 1 .. Len(topics)
      OBVIOUS
    <3>2. i # 1 => topics[i - 1][2] \in Nat
      BY <3>1, TopicType
    <3>3. QED
      BY <3>2
  <2>2. QED
    BY <2>1
<1>4. \A i \in S : i # 1 => more[i] = topics[i - 1][2] /\ next[i] = i - 1
  OBVIOUS
<1> HIDE DEF more
<1>5. Loop(S, Nat, stop, base, next, comb, size)
  <2>1. base \in [S -> Nat] /\ next \in [S -> S] /\ size \in [S -> Nat]
    OBVIOUS
  <2>2. ASSUME NEW i \in S PROVE [m \in Nat |-> m + 1 + more[i]] \in [Nat -> Nat]
    <3>1. PICK k \in Nat : k = more[i]
      BY <1>3
    <3>2. [m \in Nat |-> m + 1 + k] \in [Nat -> Nat]
      OBVIOUS
    <3>3. QED
      BY <3>1, <3>2
  <2>3. comb \in [S -> [Nat -> Nat]]
    BY <2>2
  <2>4. \A i \in S : i \notin stop => size[next[i]] < size[i]
    OBVIOUS
  <2> HIDE DEF S, stop, base, next, comb, size
  <2>5. QED
    BY <2>1, <2>3, <2>4 DEF Loop
<1>6. PICK f \in [S -> Nat] : Unrolls(f, S, stop, base, next, comb)
  <2> HIDE DEF S, stop, base, next, comb, size
  <2>1. QED
    BY <1>5, Recursion
<1>7. ASSUME NEW i \in S
      PROVE  f[i] = IF i = 1 THEN first ELSE f[i - 1] + 1 + topics[i - 1][2]
  <2>1. f[i] = IF i \in stop THEN base[i] ELSE comb[i][f[next[i]]]
    BY <1>6 DEF Unrolls
  <2>2. CASE i = 1
    BY <2>1, <2>2
  <2>3. CASE i # 1
    <3>1. i - 1 \in S /\ next[i] = i - 1 /\ more[i] = topics[i - 1][2]
      BY <1>4, <2>3
    <3>2. PICK m \in Nat : m = f[i - 1]
      BY <3>1
    <3>3. f[i] = comb[i][m]
      BY <2>1, <2>3, <3>1, <3>2
    <3>4. comb[i][m] = m + 1 + more[i]
      OBVIOUS
    <3>5. QED
      BY <2>3, <3>1, <3>2, <3>3, <3>4
  <2>4. QED
    BY <2>2, <2>3
<1>8. f = Step(f)
  BY <1>7
<1>9. b = Step(b)
  BY <1>8
<1> HIDE DEF b
<1>10. ASSUME NEW i \in S, i \in stop \/ b[next[i]] \in Nat PROVE b[i] \in Nat
  <2>1. b[i] = IF i = 1 THEN first ELSE b[i - 1] + 1 + topics[i - 1][2]
    BY <1>9
  <2>2. CASE i = 1
    BY <2>1, <2>2
  <2>3. CASE i # 1
    <3>1. PICK k \in Nat, m \in Nat : k = topics[i - 1][2] /\ m = b[i - 1]
      BY <1>3, <1>4, <1>10, <2>3
    <3>2. b[i] = m + 1 + k
      BY <2>1, <2>3, <3>1
    <3>3. QED
      BY <3>2
  <2>4. QED
    BY <2>2, <2>3
<1>11. \A i \in S : b[i] \in Nat
  <2> DEFINE P == {i \in S : b[i] \in Nat}
  <2>1. ASSUME NEW i \in S, i \in stop \/ next[i] \in P PROVE i \in P
    BY <1>10, <2>1
  <2>2. \A i \in S : i \in P
    <3> HIDE DEF S, stop, base, next, comb, size, P
    <3>1. QED
      BY <1>5, <2>1, LoopInduction
  <2>3. QED
    BY <2>2
<1>12. b = [i \in S |-> b[i]]
  BY <1>9
<1>13. b \in [S -> Nat]
  BY <1>11, <1>12
<1>14. \A i \in S : b[i] = IF i = 1 THEN first ELSE b[i - 1] + 1 + topics[i - 1][2]
  BY <1>9
<1>15. QED
  BY <1>2, <1>13, <1>14 DEF Follow

\* The bytes and the values of batches, one by one.
bytesOf(batches)  == [i \in DOMAIN batches |-> batches[i].bytes]
valuesOf(batches) == [i \in DOMAIN batches |-> batches[i].values]

\* What append_topics writes: batches that can be read, numbered from `first` on.
LEMMA TopicBatchesMade ==
    ASSUME runs \in Nat, NEW first \in Nat, NEW topics \in Topics
    PROVE  /\ Made(bytesOf(TopicBatches(first, topics)), valuesOf(TopicBatches(first, topics)))
           /\ Numbered(first, bytesOf(TopicBatches(first, topics)),
                       valuesOf(TopicBatches(first, topics)))
<1> DEFINE batches == TopicBatches(first, topics)
           base == base_offsets(first, topics)
           bss == bytesOf(batches)
           vss == valuesOf(batches)
<1>1. PICK n \in Nat : n = Len(topics) /\ DOMAIN topics = 1 .. n
  BY DEF Topics
<1>2. /\ base \in [1 .. n -> Nat]
      /\ \A i \in 1 .. n : base[i] = IF i = 1 THEN first ELSE base[i - 1] + 1 + topics[i - 1][2]
  <2>1. n = Len(topics)
    BY <1>1
  <2>2. Follow(base, first, topics, n)
    BY <2>1, BaseOffsets
  <2>3. QED
    BY <2>2 DEF Follow
<1> HIDE DEF base
<1>3. /\ DOMAIN batches = 1 .. n
      /\ \A i \in 1 .. n :
           batches[i] = TopicBatch(base[i], topics[i][1], topics[i][2], uuid4(runs, i))
  BY <1>1 DEF TopicBatches, base
<1> HIDE DEF batches
<1>4. /\ bss = [i \in 1 .. n |-> batches[i].bytes] /\ vss = [i \in 1 .. n |-> batches[i].values]
  BY <1>3 DEF bytesOf, valuesOf
<1> HIDE DEF bss, vss
<1>5. ASSUME NEW i \in 1 .. n
      PROVE  /\ MadeOf(bss[i], vss[i], base[i],
                       TopicRecords(topics[i][1], topics[i][2], uuid4(runs, i)))
             /\ Len(vss[i]) = 1 + topics[i][2]
  <2>1. PICK to \in Nat, name \in Names, partitions \in Nat :
          /\ to = base[i] /\ name = topics[i][1] /\ partitions = topics[i][2]
          /\ partitions <= Huge - 2
    BY <1>1, <1>2, TopicType
  <2>2. PICK uuid \in Seq(Byte) : uuid = uuid4(runs, i) /\ Len(uuid) = 16
    BY UuidType
  <2>3. /\ MadeOf(TopicBatch(to, name, partitions, uuid).bytes,
                  TopicBatch(to, name, partitions, uuid).values, to,
                  TopicRecords(name, partitions, uuid))
        /\ Len(TopicBatch(to, name, partitions, uuid).values) = 1 + partitions
    BY <2>1, <2>2, TopicBatchMade
  <2>4. batches[i] = TopicBatch(to, name, partitions, uuid)
    BY <1>3, <2>1, <2>2
  <2>5. bss[i] = batches[i].bytes /\ vss[i] = batches[i].values
    BY <1>4
  <2>6. QED
    BY <2>1, <2>2, <2>3, <2>4, <2>5
<1>6. /\ bss \in Seq(Seq(Byte)) /\ Len(bss) = n /\ vss \in Seq(Seq(Vals)) /\ Len(vss) = n
  <2>1. ASSUME NEW i \in 1 .. n PROVE bss[i] \in Seq(Byte) /\ vss[i] \in Seq(Vals)
    <3>1. bss[i] \in Seq(Byte)
      BY <1>5, BatchRead
    <3>2. vss[i] \in Seq(Vals)
      BY <1>5 DEF MadeOf
    <3>3. QED
      BY <3>1, <3>2
  <2>2. bss \in [1 .. n -> Seq(Byte)] /\ vss \in [1 .. n -> Seq(Vals)]
    BY <1>4, <2>1
  <2>3. QED
    BY <2>2, Mapped
<1>7. Made(bss, vss)
  <2>1. \A i \in 1 .. n : \E to, records : MadeOf(bss[i], vss[i], to, records)
    BY <1>5
  <2>2. QED
    BY <1>6, <2>1 DEF Made
<1>8. PICK v : Together(Vals, vss, v)
  BY <1>6, FlattenIs
<1>9. /\ v \in [0 .. n -> Seq(Vals)] /\ v[0] = <<>>
      /\ \A i \in 1 .. n : v[i] = v[i - 1] \o vss[i]
  BY <1>6, <1>8 DEF Together
<1> DEFINE P == {k \in 0 .. n : k < n => base[k + 1] = first + Len(v[k])}
<1>10. 0 \in P
  <2>1. Len(v[0]) = 0 /\ first + 0 = first
    BY <1>9
  <2>2. 0 < n => 1 \in 1 .. n /\ base[1] = first
    BY <1>2
  <2>3. 0 \in 0 .. n /\ 0 + 1 = 1
    OBVIOUS
  <2>4. QED
    BY <2>1, <2>2, <2>3
<1>11. ASSUME NEW k \in 0 .. n, k # n, k \in P PROVE k + 1 \in P
  <2>1. PICK i \in 1 .. n : i = k + 1 /\ i - 1 = k
    BY <1>11
  <2>2. base[i] = first + Len(v[k])
    BY <1>11, <2>1
  <2>3. PICK a \in Seq(Vals), b \in Seq(Vals) : a = v[k] /\ b = vss[i] /\ v[i] = a \o b
    <3>1. v[k] \in Seq(Vals) /\ v[i] = v[k] \o vss[i]
      BY <1>9, <2>1
    <3>2. vss[i] \in Seq(Vals)
      BY <1>6, ElementOfSeq
    <3>3. QED
      BY <3>1, <3>2
  <2>4. PICK x \in Nat, c \in Nat : x = Len(a) /\ c = topics[i][2] /\ Len(b) = 1 + c
    <3>1. Len(a) \in Nat
      BY LenProperties
    <3>2. topics[i][2] \in Nat
      BY <1>1, TopicType
    <3>3. QED
      BY <1>5, <2>3, <3>1, <3>2
  <2>5. Len(a \o b) = x + (1 + c)
    BY <2>4, Join
  <2>6. Len(v[i]) = x + (1 + c) /\ base[i] = first + x
    BY <2>2, <2>3, <2>4, <2>5
  <2>7. ASSUME i < n PROVE base[i + 1] = first + Len(v[i])
    <3>1. i + 1 \in 1 .. n /\ i + 1 # 1 /\ (i + 1) - 1 = i
      BY <2>7
    <3>2. base[i + 1] = base[i] + 1 + topics[i][2]
      BY <1>2, <3>1
    <3>3. base[i + 1] = first + x + 1 + c
      BY <2>4, <2>6, <3>2
    <3>4. QED
      BY <2>6, <3>3
  <2>8. i \in 0 .. n
    OBVIOUS
  <2>9. i \in P
    BY <2>7, <2>8
  <2>10. QED
    BY <2>1, <2>9
<1>12. \A k \in 0 .. n : k \in P
  <2> HIDE DEF P
  <2>1. QED
    BY <1>10, <1>11, UpTo
<1>13. ASSUME NEW i \in 1 .. n
       PROVE  \E records : MadeOf(bss[i], vss[i], first + Len(v[i - 1]), records)
  <2>1. PICK k \in 0 .. n : k = i - 1 /\ k < n /\ k + 1 = i
    OBVIOUS
  <2>2. base[i] = first + Len(v[i - 1])
    BY <1>12, <2>1
  <2>3. QED
    BY <1>5, <2>2
<1>14. Numbered(first, bss, vss)
  BY <1>6, <1>8, <1>13 DEF Numbered
<1>15. QED
  BY <1>7, <1>14 DEF bss, vss, batches

\* The elements of a sequence behind another one.
LEMMA Spliced ==
    ASSUME NEW T, NEW s \in Seq(T), NEW t \in Seq(T), NEW m \in Nat, NEW n \in Nat,
           m = Len(s), n = Len(t)
    PROVE  /\ s \o t \in Seq(T) /\ Len(s \o t) = m + n
           /\ \A i \in 1 .. m + n : (s \o t)[i] = IF i <= m THEN s[i] ELSE t[i - m]
  BY ConcatProperties

\* Batches behind other batches.
LEMMA MadeJoin ==
    ASSUME NEW bss, NEW vss, Made(bss, vss), NEW css, NEW wss, Made(css, wss)
    PROVE  /\ Made(bss \o css, vss \o wss)
           /\ FlattenSeq(bss \o css) = FlattenSeq(bss) \o FlattenSeq(css)
           /\ FlattenSeq(vss \o wss) = FlattenSeq(vss) \o FlattenSeq(wss)
<1>1. /\ bss \in Seq(Seq(Byte)) /\ vss \in Seq(Seq(Vals)) /\ Len(bss) = Len(vss)
      /\ css \in Seq(Seq(Byte)) /\ wss \in Seq(Seq(Vals)) /\ Len(css) = Len(wss)
  BY DEF Made
<1>2. PICK m \in Nat, n \in Nat :
        m = Len(bss) /\ n = Len(css) /\ m = Len(vss) /\ n = Len(wss)
  BY <1>1, LenProperties
<1>3. /\ bss \o css \in Seq(Seq(Byte)) /\ Len(bss \o css) = m + n
      /\ \A i \in 1 .. m + n : (bss \o css)[i] = IF i <= m THEN bss[i] ELSE css[i - m]
  <2>1. PICK T : T = Seq(Byte)
    OBVIOUS
  <2>2. bss \in Seq(T) /\ css \in Seq(T) /\ m = Len(bss) /\ n = Len(css)
    BY <1>1, <1>2, <2>1
  <2>3. /\ bss \o css \in Seq(T) /\ Len(bss \o css) = m + n
        /\ \A i \in 1 .. m + n : (bss \o css)[i] = IF i <= m THEN bss[i] ELSE css[i - m]
    BY <2>2, Spliced
  <2>4. QED
    BY <2>1, <2>3
<1>4. /\ vss \o wss \in Seq(Seq(Vals)) /\ Len(vss \o wss) = m + n
      /\ \A i \in 1 .. m + n : (vss \o wss)[i] = IF i <= m THEN vss[i] ELSE wss[i - m]
  BY <1>1, <1>2, Spliced
<1>5. ASSUME NEW i \in 1 .. m + n
      PROVE  \E base, records : MadeOf((bss \o css)[i], (vss \o wss)[i], base, records)
  <2>1. CASE i <= m
    <3>1. (bss \o css)[i] = bss[i] /\ (vss \o wss)[i] = vss[i] /\ i \in 1 .. m
      BY <1>3, <1>4, <2>1
    <3>2. \E base, records : MadeOf(bss[i], vss[i], base, records)
      BY <1>2, <3>1 DEF Made
    <3>3. QED
      BY <3>1, <3>2
  <2>2. CASE ~(i <= m)
    <3>1. PICK j \in 1 .. n : j = i - m
      BY <2>2
    <3>2. (bss \o css)[i] = css[j] /\ (vss \o wss)[i] = wss[j]
      BY <1>3, <1>4, <2>2, <3>1
    <3>3. \E base, records : MadeOf(css[j], wss[j], base, records)
      BY <1>2 DEF Made
    <3>4. QED
      BY <3>2, <3>3
  <2>3. QED
    BY <2>1, <2>2
<1>6. Made(bss \o css, vss \o wss)
  BY <1>3, <1>4, <1>5 DEF Made
<1>7. QED
  BY <1>1, <1>6, FlattenJoin

\* They are numbered on.
LEMMA NumberedJoin ==
    ASSUME NEW bss, NEW vss, Made(bss, vss), NEW css, NEW wss, Made(css, wss),
           NEW first \in Nat, Numbered(first, bss, vss),
           Numbered(first + Len(FlattenSeq(vss)), css, wss)
    PROVE  Numbered(first, bss \o css, vss \o wss)
<1>1. /\ bss \in Seq(Seq(Byte)) /\ vss \in Seq(Seq(Vals)) /\ Len(bss) = Len(vss)
      /\ css \in Seq(Seq(Byte)) /\ wss \in Seq(Seq(Vals)) /\ Len(css) = Len(wss)
  BY DEF Made
<1>2. PICK m \in Nat, n \in Nat :
        m = Len(bss) /\ n = Len(css) /\ m = Len(vss) /\ n = Len(wss)
  BY <1>1, LenProperties
<1>3. /\ Len(bss \o css) = m + n
      /\ \A i \in 1 .. m + n : (bss \o css)[i] = IF i <= m THEN bss[i] ELSE css[i - m]
  <2>1. PICK T : T = Seq(Byte)
    OBVIOUS
  <2>2. bss \in Seq(T) /\ css \in Seq(T) /\ m = Len(bss) /\ n = Len(css)
    BY <1>1, <1>2, <2>1
  <2>3. /\ bss \o css \in Seq(T) /\ Len(bss \o css) = m + n
        /\ \A i \in 1 .. m + n : (bss \o css)[i] = IF i <= m THEN bss[i] ELSE css[i - m]
    BY <2>2, Spliced
  <2>4. QED
    BY <2>1, <2>3
<1>4. /\ vss \o wss \in Seq(Seq(Vals)) /\ Len(vss \o wss) = m + n
      /\ \A i \in 1 .. m + n : (vss \o wss)[i] = IF i <= m THEN vss[i] ELSE wss[i - m]
  BY <1>1, <1>2, Spliced
<1>5. PICK v : /\ Together(Vals, vss, v)
               /\ \A i \in 1 .. m :
                    \E records : MadeOf(bss[i], vss[i], first + Len(v[i - 1]), records)
  BY <1>2 DEF Numbered
<1>6. PICK behind \in Nat : behind = Len(v[m]) /\ first + Len(FlattenSeq(vss)) = first + behind
  <2>1. PICK g : Together(Vals, vss, g) /\ FlattenSeq(vss) = g[m]
    BY <1>1, <1>2, FlattenIs
  <2>2. \A i \in 0 .. m : v[i] = g[i]
    BY <1>2, <1>5, <2>1, TogetherSame
  <2>3. m \in 0 .. m
    OBVIOUS
  <2>4. v[m] \in Seq(Vals)
    BY <1>2, <1>5, <2>3 DEF Together
  <2>5. QED
    BY <2>1, <2>2, <2>3, <2>4, LenProperties
<1>7. PICK w : /\ Together(Vals, wss, w)
               /\ \A i \in 1 .. n :
                    \E records : MadeOf(css[i], wss[i], first + behind + Len(w[i - 1]), records)
  BY <1>2, <1>6 DEF Numbered
<1>8. PICK u : Together(Vals, vss \o wss, u)
  BY <1>4, FlattenIs
<1>9. /\ u \in [0 .. m + n -> Seq(Vals)]
      /\ \A i \in 1 .. m + n : u[i] = u[i - 1] \o (vss \o wss)[i]
  BY <1>4, <1>8 DEF Together
<1>10. /\ w \in [0 .. n -> Seq(Vals)] /\ w[0] = <<>>
       /\ \A i \in 1 .. n : w[i] = w[i - 1] \o wss[i]
  BY <1>2, <1>7 DEF Together
<1>11. \A i \in 0 .. m : v[i] = u[i]
  <2>1. \A i \in 1 .. m : vss[i] = (vss \o wss)[i]
    BY <1>4
  <2>2. m <= Len(vss) /\ m <= Len(vss \o wss) /\ Len(vss) \in Nat /\ Len(vss \o wss) \in Nat
    BY <1>2, <1>4
  <2>3. PICK tt : tt = vss \o wss
    OBVIOUS
  <2>4. /\ Together(Vals, vss, v) /\ Together(Vals, tt, u)
        /\ Len(vss) \in Nat /\ Len(tt) \in Nat /\ m <= Len(vss) /\ m <= Len(tt)
        /\ \A i \in 1 .. m : vss[i] = tt[i]
    BY <1>5, <1>8, <2>1, <2>2, <2>3
  <2>5. QED
    BY <2>4, TogetherSame
<1> DEFINE P == {k \in 0 .. n : Len(u[m + k]) = behind + Len(w[k])}
<1>12. 0 \in P
  <2>1. Len(w[0]) = 0 /\ m + 0 = m /\ m \in 0 .. m /\ 0 \in 0 .. n
    BY <1>10
  <2>2. Len(u[m]) = behind
    BY <1>6, <1>11, <2>1
  <2>3. QED
    BY <2>1, <2>2
<1>13. ASSUME NEW k \in 0 .. n, k # n, k \in P PROVE k + 1 \in P
  <2>1. PICK j \in 1 .. n, i \in 1 .. m + n :
          j = k + 1 /\ j - 1 = k /\ i = m + j /\ i - 1 = m + k /\ ~(i <= m) /\ i - m = j
    BY <1>13
  <2>2. PICK a \in Seq(Vals), b \in Seq(Vals), c \in Seq(Vals) :
          /\ a = u[m + k] /\ b = w[k] /\ c = wss[j] /\ u[m + j] = a \o c /\ w[j] = b \o c
    <3>1. m + k \in 0 .. m + n
      OBVIOUS
    <3>2. u[m + k] \in Seq(Vals) /\ w[k] \in Seq(Vals)
      BY <1>9, <1>10, <3>1
    <3>3. wss[j] \in Seq(Vals)
      BY <1>1, <1>2, ElementOfSeq
    <3>4. (vss \o wss)[i] = wss[j]
      BY <1>4, <2>1
    <3>5. u[m + j] = u[m + k] \o wss[j]
      BY <1>9, <2>1, <3>4
    <3>6. w[j] = w[k] \o wss[j]
      BY <1>10, <2>1
    <3>7. QED
      BY <3>2, <3>3, <3>5, <3>6
  <2>3. PICK x \in Nat, y \in Nat, z \in Nat : x = Len(a) /\ y = Len(b) /\ z = Len(c)
    BY LenProperties
  <2>4. Len(a \o c) = x + z /\ Len(b \o c) = y + z
    BY <2>3, Join
  <2>5. x = behind + y
    BY <1>13, <2>2, <2>3
  <2>6. Len(u[m + j]) = behind + Len(w[j])
    BY <2>2, <2>4, <2>5
  <2>7. j \in 0 .. n
    OBVIOUS
  <2>8. j \in P
    BY <2>6, <2>7
  <2>9. QED
    BY <2>1, <2>8
<1>14. \A k \in 0 .. n : k \in P
  <2> HIDE DEF P
  <2>1. QED
    BY <1>12, <1>13, UpTo
<1>15. ASSUME NEW i \in 1 .. m + n
       PROVE  \E records : MadeOf((bss \o css)[i], (vss \o wss)[i], first + Len(u[i - 1]), records)
  <2>1. CASE i <= m
    <3>1. (bss \o css)[i] = bss[i] /\ (vss \o wss)[i] = vss[i] /\ i \in 1 .. m
      BY <1>3, <1>4, <2>1
    <3>2. PICK k \in 0 .. m : k = i - 1
      BY <3>1
    <3>3. u[k] = v[k]
      BY <1>11
    <3>4. \E records : MadeOf(bss[i], vss[i], first + Len(v[i - 1]), records)
      BY <1>5, <3>1
    <3>5. QED
      BY <3>1, <3>2, <3>3, <3>4
  <2>2. CASE ~(i <= m)
    <3>1. PICK j \in 1 .. n : j = i - m
      BY <2>2
    <3>2. (bss \o css)[i] = css[j] /\ (vss \o wss)[i] = wss[j]
      BY <1>3, <1>4, <2>2, <3>1
    <3>3. PICK k \in 0 .. n : k = j - 1 /\ i - 1 = m + k
      BY <3>1
    <3>4. PICK x \in Nat : x = Len(w[k])
      BY <1>10, LenProperties
    <3>5. Len(u[i - 1]) = behind + x
      BY <1>14, <3>3, <3>4
    <3>6. \E records : MadeOf(css[j], wss[j], first + behind + Len(w[j - 1]), records)
      BY <1>7
    <3>7. Len(w[j - 1]) = x
      BY <3>3, <3>4
    <3>8. first + behind + x = first + (behind + x)
      OBVIOUS
    <3>9. first + behind + Len(w[j - 1]) = first + Len(u[i - 1])
      BY <3>5, <3>7, <3>8
    <3>10. QED
      BY <3>2, <3>6, <3>9
  <2>3. QED
    BY <2>1, <2>2
<1>16. QED
  BY <1>3, <1>8, <1>15 DEF Numbered

\* What generate writes first.
LEMMA FeatureMade ==
    /\ Made(<<FeatureBatch.bytes>>, <<FeatureBatch.values>>)
    /\ Numbered(1, <<FeatureBatch.bytes>>, <<FeatureBatch.values>>)
    /\ FlattenSeq(<<FeatureBatch.values>>) = FeatureBatch.values
    /\ Len(FeatureBatch.values) = 1
<1>1. PICK bytes, values :
        /\ bytes = FeatureBatch.bytes /\ values = FeatureBatch.values
        /\ MadeOf(bytes, values, 1, <<_feature_level_record>>) /\ Len(values) = 1
  BY FeatureBatchMade
<1>2. bytes \in Seq(Byte) /\ values \in Seq(Vals)
  <2>1. bytes \in Seq(Byte)
    BY <1>1, BatchRead
  <2>2. QED
    BY <1>1, <2>1 DEF MadeOf
<1>3. /\ <<bytes>> \in Seq(Seq(Byte)) /\ <<values>> \in Seq(Seq(Vals))
      /\ Len(<<bytes>>) = 1 /\ Len(<<values>>) = 1
      /\ \A i \in 1 .. 1 : i = 1 /\ <<bytes>>[i] = bytes /\ <<values>>[i] = values
  BY <1>2
<1>4. PICK bss \in Seq(Seq(Byte)), vss \in Seq(Seq(Vals)) :
        /\ bss = <<bytes>> /\ vss = <<values>> /\ Len(bss) = 1 /\ Len(vss) = 1
        /\ \A i \in 1 .. 1 : i = 1 /\ bss[i] = bytes /\ vss[i] = values
  BY <1>3
<1>5. Made(bss, vss)
  BY <1>1, <1>4 DEF Made
<1>6. PICK v : Together(Vals, vss, v) /\ FlattenSeq(vss) = v[1]
  BY <1>4, FlattenIs
<1>7. v[0] = <<>> /\ v[1] = v[0] \o vss[1]
  <2>1. v[0] = <<>> /\ \A i \in 1 .. 1 : v[i] = v[i - 1] \o vss[i]
    BY <1>4, <1>6 DEF Together
  <2>2. 1 \in 1 .. 1 /\ 1 - 1 = 0
    OBVIOUS
  <2>3. QED
    BY <2>1, <2>2
<1>8. FlattenSeq(vss) = values
  <2>1. <<>> \o values = values
    BY <1>2, JoinNothing
  <2>2. QED
    BY <1>4, <1>6, <1>7, <2>1
<1>9. Numbered(1, bss, vss)
  <2>1. 1 + Len(v[0]) = 1
    BY <1>7
  <2>2. \A i \in 1 .. 1 : \E records : MadeOf(bss[i], vss[i], 1 + Len(v[i - 1]), records)
    BY <1>1, <1>4, <2>1
  <2>3. QED
    BY <1>4, <1>6, <2>2 DEF Numbered
<1>10. QED
  BY <1>1, <1>4, <1>5, <1>8, <1>9

-----------------------------------------------------------------------------
(* What is left of a run that is cut off *)

\* What follows makes nothing shorter.
LEMMA PrefixMonotone ==
    ASSUME NEW T, NEW ss \in Seq(Seq(T)), NEW f, Together(T, ss, f), NEW m \in Nat, m = Len(ss)
    PROVE  /\ \A k \in 0 .. m : Len(f[k]) \in Nat
           /\ \A i \in 0 .. m : \A k \in 0 .. m : i <= k => Len(f[i]) <= Len(f[k])
<1>1. f \in [0 .. m -> Seq(T)] /\ \A i \in 1 .. m : f[i] = f[i - 1] \o ss[i]
  BY DEF Together
<1>2. \A k \in 0 .. m : Len(f[k]) \in Nat
  <2>1. ASSUME NEW k \in 0 .. m PROVE Len(f[k]) \in Nat
    <3>1. f[k] \in Seq(T)
      BY <1>1
    <3>2. QED
      BY <3>1, LenProperties
  <2>2. QED
    BY <2>1
<1>3. ASSUME NEW k \in 0 .. m, k # m PROVE Len(f[k]) <= Len(f[k + 1])
  <2>1. PICK i \in 1 .. m : i = k + 1 /\ i - 1 = k
    BY <1>3
  <2>2. f[k] \in Seq(T) /\ f[i] = f[k] \o ss[i]
    BY <1>1, <2>1
  <2>3. ss[i] \in Seq(T)
    BY ElementOfSeq
  <2>4. PICK s \in Seq(T), t \in Seq(T) : s = f[k] /\ t = ss[i]
    BY <2>2, <2>3
  <2>5. PICK x \in Nat, y \in Nat : x = Len(s) /\ y = Len(t)
    BY LenProperties
  <2>6. Len(s \o t) = x + y
    BY <2>5, Join
  <2>7. Len(f[k]) = x /\ Len(f[i]) = x + y
    BY <2>2, <2>4, <2>5, <2>6
  <2>8. x <= x + y
    OBVIOUS
  <2>9. QED
    BY <2>1, <2>7, <2>8
<1>4. ASSUME NEW i \in 0 .. m PROVE \A k \in 0 .. m : i <= k => Len(f[i]) <= Len(f[k])
  <2> DEFINE P == {k \in 0 .. m : i <= k => Len(f[i]) <= Len(f[k])}
  <2>1. PICK x \in Nat : x = Len(f[i])
    BY <1>2
  <2>2. 0 \in P
    <3>1. i <= 0 => i = 0
      OBVIOUS
    <3>2. x <= x /\ 0 \in 0 .. m
      OBVIOUS
    <3>3. QED
      BY <2>1, <3>1, <3>2
  <2>3. ASSUME NEW k \in 0 .. m, k # m, k \in P PROVE k + 1 \in P
    <3>1. PICK j \in 0 .. m : j = k + 1
      BY <2>3
    <3>2. PICK y \in Nat, z \in Nat : y = Len(f[k]) /\ z = Len(f[j]) /\ y <= z
      BY <1>2, <1>3, <2>3, <3>1
    <3>3. CASE i <= k
      <4>1. x <= y
        BY <2>1, <2>3, <3>2, <3>3
      <4>2. x <= z
        BY <3>2, <4>1
      <4>3. j \in P
        BY <2>1, <3>2, <4>2
      <4>4. QED
        BY <3>1, <4>3
    <3>4. CASE ~(i <= k)
      <4>1. i <= j => i = j
        BY <3>1, <3>4
      <4>2. z <= z
        OBVIOUS
      <4>3. j \in P
        BY <3>2, <4>1, <4>2
      <4>4. QED
        BY <3>1, <4>3
    <3>5. QED
      BY <3>3, <3>4
  <2>4. \A k \in 0 .. m : k \in P
    <3> HIDE DEF P
    <3>1. QED
      BY <2>2, <2>3, UpTo
  <2>5. QED
    BY <2>4
<1>5. QED
  BY <1>2, <1>4

\* Of ends in ascending order, those up to some point come first.
LEMMA CutPoint ==
    ASSUME NEW n \in Nat, NEW e, \A k \in 1 .. n : e[k] \in Nat,
           \A i \in 1 .. n : \A k \in 1 .. n : i <= k => e[i] <= e[k],
           NEW left \in Nat
    PROVE  \E j \in 0 .. n : \A k \in 1 .. n : e[k] <= left <=> k <= j
<1> DEFINE Over == {k \in 1 .. n : ~(e[k] <= left)}
<1>1. CASE Over = {}
  <2>1. \A k \in 1 .. n : e[k] <= left /\ k <= n
    BY <1>1
  <2>2. n \in 0 .. n
    OBVIOUS
  <2>3. QED
    BY <2>1, <2>2
<1>2. CASE Over # {}
  <2>1. PICK k \in Over : \A i \in Over : k <= i
    <3>1. Over \in SUBSET Nat
      OBVIOUS
    <3> HIDE DEF Over
    <3>2. QED
      BY <1>2, <3>1, LeastElement
  <2>2. PICK j \in 0 .. n : j = k - 1 /\ k \in 1 .. n
    BY <2>1
  <2>3. ASSUME NEW i \in 1 .. n PROVE e[i] <= left <=> i <= j
    <3>1. PICK x \in Nat, y \in Nat : x = e[i] /\ y = e[k] /\ ~(y <= left)
      BY <2>1, <2>2
    <3>2. CASE i <= j
      <4>1. i \notin Over
        BY <2>1, <2>2, <3>2
      <4>2. QED
        BY <3>2, <4>1
    <3>3. CASE ~(i <= j)
      <4>1. k <= i
        BY <2>2, <3>3
      <4>2. y <= x
        BY <2>2, <3>1, <4>1
      <4>3. ~(x <= left)
        BY <3>1, <4>2
      <4>4. QED
        BY <3>1, <3>3, <4>3
    <3>4. QED
      BY <3>2, <3>3
  <2>4. QED
    BY <2>3
<1>3. QED
  BY <1>1, <1>2

\* The first k of sequences together.
LEMMA FlattenFirst ==
    ASSUME NEW T, NEW ss \in Seq(Seq(T)), NEW f, Together(T, ss, f), NEW m \in Nat, m = Len(ss),
           NEW k \in 0 .. m
    PROVE  /\ SubSeq(ss, 1, k) \in Seq(Seq(T)) /\ Len(SubSeq(ss, 1, k)) = k
           /\ \A i \in 1 .. k : SubSeq(ss, 1, k)[i] = ss[i]
           /\ FlattenSeq(SubSeq(ss, 1, k)) = f[k]
<1>1. \A i \in 1 .. k : ss[i] \in Seq(T)
  BY ElementOfSeq
<1>2. PICK tt : tt = SubSeq(ss, 1, k)
  OBVIOUS
<1>3. /\ tt \in Seq(Seq(T))
      /\ Len(tt) = IF 1 <= k THEN k - 1 + 1 ELSE 0
      /\ \A i \in 1 .. k - 1 + 1 : tt[i] = ss[1 + i - 1]
  <2>1. 1 \in Int /\ k \in Int
    OBVIOUS
  <2>2. QED
    BY <1>1, <1>2, <2>1, SubSeqProperties
<1>4. Len(tt) = k /\ \A i \in 1 .. k : tt[i] = ss[i]
  BY <1>3
<1>5. PICK g : Together(T, tt, g) /\ FlattenSeq(tt) = g[k]
  BY <1>3, <1>4, FlattenIs
<1>6. k \in Nat /\ k <= Len(tt) /\ k <= Len(ss) /\ Len(tt) \in Nat /\ Len(ss) \in Nat
  BY <1>4
<1>7. \A i \in 0 .. k : g[i] = f[i]
  BY <1>4, <1>5, <1>6, TogetherSame
<1>8. k \in 0 .. k
  OBVIOUS
<1>9. QED
  BY <1>2, <1>3, <1>4, <1>5, <1>7, <1>8

\* Cardinality of the numbers up to j.
LEMMA CountUpTo ==
    ASSUME NEW j \in Nat
    PROVE  Cardinality(1 .. j) = j
<1>1. 1 \in Int /\ j \in Int
  OBVIOUS
<1>2. Cardinality(1 .. j) = IF 1 > j THEN 0 ELSE j - 1 + 1
  BY <1>1, FS_Interval
<1>3. QED
  BY <1>2

\* Sequences lie where what they begin lies.
LEMMA PrefixAt ==
    ASSUME NEW ss \in Seq(Seq(Byte)), NEW f, Together(Byte, ss, f), NEW n \in Nat, n = Len(ss),
           NEW data \in Seq(Byte), NEW pos \in Nat, At(data, pos, f[n])
    PROVE  \A k \in 0 .. n : At(data, pos, f[k])
<1> DEFINE P == {k \in 0 .. n : At(data, pos, f[k])}
<1>1. n \in P
  OBVIOUS
<1>2. ASSUME NEW k \in 0 .. n, k # 0, k \in P PROVE k - 1 \in P
  <2>1. PICK j \in 0 .. n : j = k - 1 /\ k \in 1 .. n
    BY <1>2
  <2>2. f[j] \in Seq(Byte) /\ f[k] = f[j] \o ss[k]
    BY <2>1 DEF Together
  <2>3. ss[k] \in Seq(Byte)
    BY <2>1, ElementOfSeq
  <2>4. PICK s \in Seq(Byte), t \in Seq(Byte) : s = f[j] /\ t = ss[k]
    BY <2>2, <2>3
  <2>5. At(data, pos, s \o t)
    BY <1>2, <2>2, <2>4
  <2>6. At(data, pos, s)
    BY <2>5, AtJoin
  <2>7. j \in P
    BY <2>4, <2>6
  <2>8. QED
    BY <2>1, <2>7
<1>3. \A k \in 0 .. n : k \in P
  <2> HIDE DEF P
  <2>1. QED
    BY <1>1, <1>2, DownTo
<1>4. QED
  BY <1>3

\* What lies in the first bytes of a sequence lies where they lie.
LEMMA CutAt ==
    ASSUME NEW s \in Seq(Byte), NEW left \in Nat, left <= Len(s),
           NEW p \in Nat, NEW t \in Seq(Byte), At(s, p, t), p + Len(t) <= left,
           NEW data \in Seq(Byte), NEW pos \in Nat, At(data, pos, SubSeq(s, 1, left))
    PROVE  At(data, pos + p, t)
<1>1. PICK m \in Nat, n \in Nat, d \in Nat : m = Len(t) /\ n = Len(s) /\ d = Len(data)
  BY LenProperties
<1>2. PICK u : u = SubSeq(s, 1, left)
  OBVIOUS
<1>3. Len(u) = left /\ \A i \in 1 .. left : u[i] = s[i]
  <2>1. \A i \in 1 .. left : s[i] \in Byte
    BY ElementOfSeq
  <2>2. 1 \in Int /\ left \in Int
    OBVIOUS
  <2>3. /\ Len(u) = IF 1 <= left THEN left - 1 + 1 ELSE 0
        /\ \A i \in 1 .. left - 1 + 1 : u[i] = s[1 + i - 1]
    BY <1>2, <2>1, <2>2, SubSeqProperties
  <2>4. QED
    BY <2>3
<1>4. pos + left <= d /\ \A i \in 1 .. left : data[pos + i] = s[i]
  BY <1>1, <1>2, <1>3 DEF At
<1>5. p + m <= left /\ \A i \in 1 .. m : s[p + i] = t[i]
  BY <1>1 DEF At
<1>6. ASSUME NEW i \in 1 .. m PROVE data[pos + p + i] = t[i]
  <2>1. PICK k \in 1 .. left : k = p + i /\ pos + k = pos + p + i
    BY <1>5
  <2>2. data[pos + k] = s[k] /\ s[k] = t[i]
    BY <1>4, <1>5, <2>1
  <2>3. QED
    BY <2>1, <2>2
<1>7. pos + p + m <= d
  BY <1>4, <1>5
<1>8. QED
  BY <1>1, <1>6, <1>7 DEF At

\* A sequence lies in itself.
LEMMA AtSelf ==
    ASSUME NEW s \in Seq(Byte)
    PROVE  At(s, 0, s)
<1>1. PICK n \in Nat : n = Len(s)
  BY LenProperties
<1>2. \A i \in 1 .. n : s[0 + i] = s[i]
  OBVIOUS
<1>3. QED
  BY <1>1, <1>2 DEF At

\* What the parsers find of a batch that is cut off behind some of its records.
Partial(data, pos, part) ==
    \E head, n, base, size, records :
      /\ head \in Seq(Byte) /\ n \in Nat /\ Len(head) = 61
      /\ At(data, pos, head) /\ HeadSays(head, base, n, size)
      /\ n >= Len(part) /\ Laid(data, pos + 61, records, part)

\* A batch as the tool makes it, with the ends of its records.
MadeBatch(batch) ==
    \E base, records :
      /\ MadeOf(batch.bytes, batch.values, base, records)
      /\ batch.ends = [k \in DOMAIN records |-> 61 + Len(FlattenSeq(SubSeq(records, 1, k)))]

\* The values whose records are whole in a batch that starts at `start`, when
\* no more than `written` bytes are.
Kept(batch, start, written) ==
    SubSeq(batch.values, 1,
           Cardinality({k \in DOMAIN batch.ends : start + batch.ends[k] <= written}))

\* Where the records of a batch end.
LEMMA EndsAre ==
    ASSUME NEW records \in Seq(Seq(Byte)), NEW n \in Nat, n = Len(records),
           NEW r, Together(Byte, records, r)
    PROVE  /\ DOMAIN records = 1 .. n
           /\ \A k \in 1 .. n : FlattenSeq(SubSeq(records, 1, k)) = r[k]
           /\ FlattenSeq(records) = r[n]
<1>1. DOMAIN records = 1 .. n
  BY LenProperties
<1>2. ASSUME NEW k \in 0 .. n PROVE FlattenSeq(SubSeq(records, 1, k)) = r[k]
  BY FlattenFirst
<1>3. FlattenSeq(records) = r[n]
  <2>1. SubSeq(records, 1, n) = records
    BY SubSeqFull
  <2>2. n \in 0 .. n
    OBVIOUS
  <2>3. QED
    BY <1>2, <2>1, <2>2
<1>4. QED
  BY <1>1, <1>2, <1>3

\* A batch's ends are those of n records, r[k] being the first k together.
EndsBy(batch, n, r) ==
    \E records \in Seq(Seq(Byte)) :
      /\ n = Len(records) /\ Together(Byte, records, r)
      /\ batch.ends = [k \in DOMAIN records |-> 61 + Len(FlattenSeq(SubSeq(records, 1, k)))]

\* What is kept are the values of the first j records, which are those that fit.
CutBehind(batch, n, r, start, written) ==
    \E j \in 0 .. n :
      /\ Kept(batch, start, written) = SubSeq(batch.values, 1, j)
      /\ \A k \in 1 .. n : start + 61 + Len(r[k]) <= written <=> k <= j

\* So it is for every cut.
LEMMA KeptIs ==
    ASSUME NEW batch, NEW n \in Nat, NEW r, EndsBy(batch, n, r),
           NEW start \in Nat, NEW written \in Nat
    PROVE  CutBehind(batch, n, r, start, written)
<1>1. PICK records \in Seq(Seq(Byte)) :
        /\ n = Len(records) /\ Together(Byte, records, r)
        /\ batch.ends = [k \in DOMAIN records |-> 61 + Len(FlattenSeq(SubSeq(records, 1, k)))]
  BY DEF EndsBy
<1>2. /\ DOMAIN records = 1 .. n
      /\ \A k \in 1 .. n : FlattenSeq(SubSeq(records, 1, k)) = r[k]
  BY <1>1, EndsAre
<1>3. batch.ends = [k \in 1 .. n |-> 61 + Len(r[k])]
  BY <1>1, <1>2
<1>4. /\ \A k \in 0 .. n : Len(r[k]) \in Nat
      /\ \A i \in 0 .. n : \A k \in 0 .. n : i <= k => Len(r[i]) <= Len(r[k])
  BY <1>1, PrefixMonotone
<1> DEFINE e == [k \in 1 .. n |-> start + 61 + Len(r[k])]
<1>5. \A k \in 1 .. n : e[k] \in Nat
  <2>1. ASSUME NEW k \in 1 .. n PROVE e[k] \in Nat
    <3>1. PICK x \in Nat : x = Len(r[k])
      BY <1>4
    <3>2. start + 61 + x \in Nat
      OBVIOUS
    <3>3. QED
      BY <3>1, <3>2
  <2>2. QED
    BY <2>1
<1>6. \A i \in 1 .. n : \A k \in 1 .. n : i <= k => e[i] <= e[k]
  <2>1. ASSUME NEW i \in 1 .. n, NEW k \in 1 .. n, i <= k PROVE e[i] <= e[k]
    <3>1. PICK x \in Nat, y \in Nat : x = Len(r[i]) /\ y = Len(r[k]) /\ x <= y
      BY <1>4, <2>1
    <3>2. e[i] = start + 61 + x /\ e[k] = start + 61 + y
      BY <3>1
    <3>3. QED
      BY <3>1, <3>2
  <2>2. QED
    BY <2>1
<1>7. PICK j \in 0 .. n : \A k \in 1 .. n : e[k] <= written <=> k <= j
  <2> HIDE DEF e
  <2>1. QED
    BY <1>5, <1>6, CutPoint
<1>8. \A k \in 1 .. n : start + 61 + Len(r[k]) <= written <=> k <= j
  BY <1>7
<1>9. {k \in DOMAIN batch.ends : start + batch.ends[k] <= written} = 1 .. j
  <2>1. ASSUME NEW k \in 1 .. n PROVE start + batch.ends[k] <= written <=> k <= j
    <3>1. PICK x \in Nat : x = Len(r[k])
      BY <1>4
    <3>2. batch.ends[k] = 61 + Len(r[k])
      BY <1>3
    <3>3. start + (61 + x) = start + 61 + x
      OBVIOUS
    <3>4. QED
      BY <1>8, <3>1, <3>2, <3>3
  <2>2. DOMAIN batch.ends = 1 .. n
    BY <1>3
  <2>3. \A k \in 1 .. n : k <= j <=> k \in 1 .. j
    OBVIOUS
  <2>4. 1 .. j \subseteq 1 .. n
    OBVIOUS
  <2>5. QED
    BY <2>1, <2>2, <2>3, <2>4
<1>10. Cardinality(1 .. j) = j
  BY CountUpTo
<1>11. Kept(batch, start, written) = SubSeq(batch.values, 1, j)
  BY <1>9, <1>10 DEF Kept
<1>12. QED
  BY <1>8, <1>11 DEF CutBehind

\* A batch that is cut off: all of it counts, nothing of it, or what the
\* parsers find.
LEMMA CutBatch ==
    ASSUME NEW batch, MadeBatch(batch), NEW start \in Nat, NEW written \in Nat
    PROVE  /\ Kept(batch, start, written) \in Seq(Vals)
           /\ start + Len(batch.bytes) <= written => Kept(batch, start, written) = batch.values
           /\ written < start + 61 => Kept(batch, start, written) = <<>>
           /\ \A data \in Seq(Byte), pos \in Nat :
                /\ start <= written /\ written < start + Len(batch.bytes)
                /\ At(data, pos, SubSeq(batch.bytes, 1, written - start))
                => \/ Kept(batch, start, written) = <<>>
                   \/ Partial(data, pos, Kept(batch, start, written))
<1>1. PICK base, records :
        /\ MadeOf(batch.bytes, batch.values, base, records)
        /\ batch.ends = [k \in DOMAIN records |-> 61 + Len(FlattenSeq(SubSeq(records, 1, k)))]
  BY DEF MadeBatch
<1>2. PICK bytes, values : bytes = batch.bytes /\ values = batch.values
  OBVIOUS
<1>3. MadeOf(bytes, values, base, records)
  BY <1>1, <1>2
<1>4. /\ records \in Seq(Seq(Byte)) /\ values \in Seq(Vals)
      /\ Len(records) = Len(values) /\ 1 <= Len(records)
      /\ \A i \in 1 .. Len(records) : Reads(records[i], values[i])
  BY <1>3 DEF MadeOf
<1>5. PICK n \in Nat : n = Len(records) /\ n = Len(values) /\ 1 <= n
  BY <1>4, LenProperties
<1>6. PICK r : Together(Byte, records, r)
  BY <1>4, FlattenIs
<1>7. /\ \A k \in 0 .. n : Len(r[k]) \in Nat
      /\ \A i \in 0 .. n : \A k \in 0 .. n : i <= k => Len(r[i]) <= Len(r[k])
  BY <1>4, <1>5, <1>6, PrefixMonotone
<1>8. PICK j \in 0 .. n :
        /\ Kept(batch, start, written) = SubSeq(values, 1, j)
        /\ \A k \in 1 .. n : start + 61 + Len(r[k]) <= written <=> k <= j
  <2>1. EndsBy(batch, n, r)
    BY <1>1, <1>4, <1>5, <1>6 DEF EndsBy
  <2>2. CutBehind(batch, n, r, start, written)
    BY <2>1, KeptIs
  <2>3. QED
    BY <1>2, <2>2 DEF CutBehind
<1>9. PICK kept : kept = SubSeq(values, 1, j)
  OBVIOUS
<1>10. /\ kept \in Seq(Vals) /\ Len(kept) = j /\ \A i \in 1 .. j : kept[i] = values[i]
       /\ j = 0 => kept = <<>>
       /\ j = n => kept = values
  <2>1. \A i \in 1 .. j : values[i] \in Vals
    BY <1>4, <1>5, ElementOfSeq
  <2>2. 1 \in Int /\ j \in Int
    OBVIOUS
  <2>3. /\ kept \in Seq(Vals)
        /\ Len(kept) = IF 1 <= j THEN j - 1 + 1 ELSE 0
        /\ \A i \in 1 .. j - 1 + 1 : kept[i] = values[1 + i - 1]
    BY <1>9, <2>1, <2>2, SubSeqProperties
  <2>4. Len(kept) = j /\ \A i \in 1 .. j : kept[i] = values[i]
    BY <2>3
  <2>5. j = 0 => kept = <<>>
    BY <1>9, <2>2, SubSeqEmpty
  <2>6. j = n => kept = values
    BY <1>4, <1>5, <1>9, SubSeqFull
  <2>7. QED
    BY <2>3, <2>4, <2>5, <2>6
<1>11. PICK head \in Seq(Byte), flat \in Seq(Byte), size \in Nat :
         /\ flat = FlattenSeq(records) /\ Len(head) = 61 /\ bytes = head \o flat
         /\ HeadSays(head, base, Len(records), size)
  <2>1. \E head \in Seq(Byte), flat \in Seq(Byte), size \in Nat :
          /\ flat = FlattenSeq(records) /\ Len(head) = 61 /\ bytes = head \o flat
          /\ size = 49 + Len(flat) /\ HeadSays(head, base, Len(records), size)
    BY <1>3, BatchParts
  <2>2. QED
    BY <2>1
<1>12. flat = r[n] /\ \A k \in 1 .. n : FlattenSeq(SubSeq(records, 1, k)) = r[k]
  BY <1>4, <1>5, <1>6, <1>11, EndsAre
<1>13. PICK size1 \in Nat : size1 = Len(flat)
  BY LenProperties
<1>14. bytes \in Seq(Byte) /\ Len(bytes) = 61 + size1
  <2>1. head \o flat \in Seq(Byte) /\ Len(head \o flat) = Len(head) + Len(flat)
    BY Join
  <2>2. QED
    BY <1>11, <1>13, <2>1
<1>15. ASSUME start + Len(bytes) <= written PROVE kept = values
  <2>1. n \in 1 .. n /\ n \in 0 .. n
    BY <1>5
  <2>2. Len(r[n]) = size1
    BY <1>12, <1>13
  <2>3. start + 61 + size1 <= written
    BY <1>14, <1>15
  <2>4. start + 61 + Len(r[n]) <= written
    BY <2>2, <2>3
  <2>5. n <= j
    BY <1>8, <2>1, <2>4
  <2>6. j = n
    BY <2>5
  <2>7. QED
    BY <1>10, <2>6
<1>16. ASSUME written < start + 61 PROVE kept = <<>>
  <2>1. 1 \in 1 .. n /\ 1 \in 0 .. n
    BY <1>5
  <2>2. PICK x \in Nat : x = Len(r[1])
    BY <1>7, <2>1
  <2>3. ~(start + 61 + x <= written)
    BY <1>16
  <2>4. ~(1 <= j)
    BY <1>8, <2>1, <2>2, <2>3
  <2>5. j = 0
    BY <2>4
  <2>6. QED
    BY <1>10, <2>5
<1>17. ASSUME NEW data \in Seq(Byte), NEW pos \in Nat,
              start <= written, written < start + Len(bytes),
              At(data, pos, SubSeq(bytes, 1, written - start)), kept # <<>>
       PROVE  Partial(data, pos, kept)
  <2>1. PICK left \in Nat : left = written - start /\ left <= Len(bytes)
    BY <1>14, <1>17
  <2>2. At(data, pos, SubSeq(bytes, 1, left))
    BY <1>17, <2>1
  <2>3. j \in 1 .. n /\ j <= j
    BY <1>10, <1>17
  <2>4. PICK x \in Nat : x = Len(r[j])
    BY <1>7
  <2>5. start + 61 + x <= written
    BY <1>8, <2>3, <2>4
  <2>6. 61 + x <= left
    BY <2>1, <2>5
  <2>7. At(bytes, 0, head) /\ At(bytes, 61, flat)
    <3>1. At(bytes, 0, head \o flat)
      BY <1>11, <1>14, AtSelf
    <3>2. At(bytes, 0, head) /\ At(bytes, 0 + Len(head), flat)
      BY <1>14, <3>1, LastPiece
    <3>3. 0 + Len(head) = 61
      BY <1>11
    <3>4. QED
      BY <3>2, <3>3
  <2>8. At(bytes, 61, r[j])
    <3>1. At(bytes, 61, r[n]) /\ 61 \in Nat
      BY <1>12, <2>7
    <3>2. QED
      BY <1>4, <1>5, <1>6, <1>14, <3>1, PrefixAt
  <2>9. r[j] \in Seq(Byte)
    BY <1>5, <1>6 DEF Together
  <2>10. At(data, pos, head)
    <3>1. 0 + Len(head) <= left /\ pos + 0 = pos /\ 0 \in Nat
      BY <1>11, <2>6
    <3>2. At(data, pos + 0, head)
      BY <1>14, <2>1, <2>2, <2>7, <3>1, CutAt
    <3>3. QED
      BY <3>1, <3>2
  <2>11. At(data, pos + 61, r[j])
    <3>1. 61 + Len(r[j]) <= left /\ 61 \in Nat
      BY <2>4, <2>6
    <3>2. QED
      BY <1>14, <2>1, <2>2, <2>8, <2>9, <3>1, CutAt
  <2>12. PICK rs : rs = SubSeq(records, 1, j)
    OBVIOUS
  <2>13. /\ rs \in Seq(Seq(Byte)) /\ Len(rs) = j /\ \A i \in 1 .. j : rs[i] = records[i]
         /\ FlattenSeq(rs) = r[j]
    BY <1>4, <1>5, <1>6, <2>12, FlattenFirst
  <2>14. ASSUME NEW i \in 1 .. j PROVE Reads(rs[i], kept[i])
    <3>1. rs[i] = records[i] /\ kept[i] = values[i] /\ i \in 1 .. n
      BY <1>10, <2>13
    <3>2. i \in 1 .. Len(records)
      BY <1>5, <3>1
    <3>3. Reads(records[i], values[i])
      BY <1>4, <3>2
    <3>4. QED
      BY <3>1, <3>3
  <2>15. Laid(data, pos + 61, rs, kept)
    BY <1>10, <2>11, <2>13, <2>14 DEF Laid
  <2>16. n >= Len(kept) /\ HeadSays(head, base, n, size)
    BY <1>5, <1>10, <1>11
  <2>17. QED
    BY <1>11, <2>10, <2>15, <2>16 DEF Partial
<1>18. Kept(batch, start, written) = kept
  BY <1>8, <1>9
<1>19. QED
  BY <1>2, <1>10, <1>15, <1>16, <1>17, <1>18

\* What a run writes: batches that can be read, numbered from `first` on.
MadeRun(first, batches, n) ==
    /\ batches = [i \in 1 .. n |-> batches[i]]
    /\ Made(bytesOf(batches), valuesOf(batches))
    /\ Numbered(first, bytesOf(batches), valuesOf(batches))
    /\ \A i \in 1 .. n : MadeBatch(batches[i])

\* The bytes and values of a run.
LEMMA RunParts ==
    ASSUME NEW first, NEW batches, NEW n \in Nat, MadeRun(first, batches, n)
    PROVE  /\ DOMAIN batches = 1 .. n
           /\ bytesOf(batches) \in Seq(Seq(Byte)) /\ Len(bytesOf(batches)) = n
           /\ valuesOf(batches) \in Seq(Seq(Vals)) /\ Len(valuesOf(batches)) = n
           /\ \A i \in 1 .. n : /\ bytesOf(batches)[i] = batches[i].bytes
                                /\ valuesOf(batches)[i] = batches[i].values
           /\ Bytes(batches) = FlattenSeq(bytesOf(batches))
           /\ Values(batches) = FlattenSeq(valuesOf(batches))
<1>1. DOMAIN batches = 1 .. n
  BY DEF MadeRun
<1>2. /\ bytesOf(batches) = [i \in 1 .. n |-> batches[i].bytes]
      /\ valuesOf(batches) = [i \in 1 .. n |-> batches[i].values]
  BY <1>1 DEF bytesOf, valuesOf
<1>3. /\ bytesOf(batches) \in Seq(Seq(Byte)) /\ valuesOf(batches) \in Seq(Seq(Vals))
  BY DEF MadeRun, Made
<1>4. Len(bytesOf(batches)) = n /\ Len(valuesOf(batches)) = n
  <2>1. DOMAIN bytesOf(batches) = 1 .. n /\ DOMAIN valuesOf(batches) = 1 .. n
    BY <1>2
  <2>2. QED
    BY <1>3, <2>1, LenProperties
<1>5. /\ Bytes(batches) = FlattenSeq(bytesOf(batches))
      /\ Values(batches) = FlattenSeq(valuesOf(batches))
  BY DEF Bytes, Values, bytesOf, valuesOf
<1>6. QED
  BY <1>1, <1>2, <1>3, <1>4, <1>5

\* What the first batches of a run are together.
LEMMA BytesFirst ==
    ASSUME NEW first, NEW batches, NEW n \in Nat, MadeRun(first, batches, n),
           NEW f, Together(Byte, bytesOf(batches), f), NEW k \in 0 .. n
    PROVE  Bytes(SubSeq(batches, 1, k)) = f[k]
<1> DEFINE T == {batches[i] : i \in 1 .. n}
<1>1. PICK sub : sub = SubSeq(batches, 1, k)
  OBVIOUS
<1>2. sub \in Seq(T) /\ Len(sub) = k /\ \A i \in 1 .. k : sub[i] = batches[i]
  <2>1. \A i \in 1 .. k : batches[i] \in T
    OBVIOUS
  <2>2. 1 \in Int /\ k \in Int
    OBVIOUS
  <2> HIDE DEF T
  <2>3. /\ sub \in Seq(T)
        /\ Len(sub) = IF 1 <= k THEN k - 1 + 1 ELSE 0
        /\ \A i \in 1 .. k - 1 + 1 : sub[i] = batches[1 + i - 1]
    BY <1>1, <2>1, <2>2, SubSeqProperties
  <2>4. QED
    BY <2>3
<1> HIDE DEF T
<1>3. DOMAIN sub = 1 .. k
  BY <1>2, LenProperties
<1>4. PICK bss : bss = bytesOf(batches)
  OBVIOUS
<1>5. /\ bss \in Seq(Seq(Byte)) /\ Len(bss) = n
      /\ \A i \in 1 .. n : bss[i] = batches[i].bytes
  BY <1>4, RunParts
<1>6. PICK tt : tt = [i \in 1 .. k |-> bss[i]]
  OBVIOUS
<1>7. \A i \in 1 .. k : sub[i].bytes = bss[i]
  BY <1>2, <1>5
<1>8. Bytes(sub) = FlattenSeq(tt)
  BY <1>3, <1>6, <1>7 DEF Bytes
<1>9. tt \in Seq(Seq(Byte)) /\ Len(tt) = k /\ \A i \in 1 .. k : tt[i] = bss[i]
  <2>1. \A i \in 1 .. k : bss[i] \in Seq(Byte)
    BY <1>5, ElementOfSeq
  <2>2. tt \in [1 .. k -> Seq(Byte)] /\ k \in Nat
    BY <1>6, <2>1
  <2>3. tt \in Seq(Seq(Byte)) /\ Len(tt) = k
    BY <2>2, Mapped
  <2>4. QED
    BY <1>6, <2>3
<1>10. PICK g : Together(Byte, tt, g) /\ FlattenSeq(tt) = g[k]
  BY <1>9, FlattenIs
<1>11. /\ Together(Byte, tt, g) /\ Together(Byte, bss, f) /\ k \in Nat
       /\ Len(tt) \in Nat /\ Len(bss) \in Nat /\ k <= Len(tt) /\ k <= Len(bss)
  BY <1>4, <1>5, <1>9, <1>10
<1>12. \A i \in 0 .. k : g[i] = f[i]
  BY <1>9, <1>11, TogetherSame
<1>13. k \in 0 .. k
  OBVIOUS
<1>14. QED
  BY <1>1, <1>8, <1>10, <1>12, <1>13

\* The values of the records that are whole, batch by batch.
LEMMA WholeOfIs ==
    ASSUME NEW first, NEW batches, NEW n \in Nat, MadeRun(first, batches, n),
           NEW f, Together(Byte, bytesOf(batches), f), NEW written \in Nat
    PROVE  \E ws \in Seq(Seq(Vals)) :
             /\ Len(ws) = n /\ WholeOf(batches, written) = FlattenSeq(ws)
             /\ \A i \in 1 .. n : ws[i] = Kept(batches[i], Len(f[i - 1]), written)
<1> DEFINE ws == [i \in 1 .. n |-> Kept(batches[i], Len(f[i - 1]), written)]
<1>1. /\ DOMAIN batches = 1 .. n /\ bytesOf(batches) \in Seq(Seq(Byte))
      /\ Len(bytesOf(batches)) = n
  BY RunParts
<1>2. \A k \in 0 .. n : Len(f[k]) \in Nat
  BY <1>1, PrefixMonotone
<1>3. ASSUME NEW i \in 1 .. n
      PROVE  /\ Len(Bytes(SubSeq(batches, 1, i - 1))) = Len(f[i - 1])
             /\ ws[i] \in Seq(Vals)
  <2>1. PICK k \in 0 .. n : k = i - 1
    OBVIOUS
  <2>2. Bytes(SubSeq(batches, 1, k)) = f[k]
    BY BytesFirst
  <2>3. MadeBatch(batches[i])
    BY DEF MadeRun
  <2>4. PICK start \in Nat : start = Len(f[i - 1])
    BY <1>2, <2>1
  <2>5. Kept(batches[i], start, written) \in Seq(Vals)
    BY <2>3, CutBatch
  <2>6. QED
    BY <2>1, <2>2, <2>4, <2>5
<1>4. ws \in Seq(Seq(Vals)) /\ Len(ws) = n
  <2>1. ws \in [1 .. n -> Seq(Vals)]
    BY <1>3
  <2> HIDE DEF ws
  <2>2. QED
    BY <2>1, Mapped
<1>5. WholeOf(batches, written) = FlattenSeq(ws)
  <2>1. ws = [i \in DOMAIN batches |->
                SubSeq(batches[i].values, 1,
                  Cardinality({k \in DOMAIN batches[i].ends :
                     Len(Bytes(SubSeq(batches, 1, i - 1))) + batches[i].ends[k] <= written}))]
    BY <1>1, <1>3 DEF Kept
  <2>2. QED
    BY <2>1 DEF WholeOf
<1>6. \A i \in 1 .. n : ws[i] = Kept(batches[i], Len(f[i - 1]), written)
  OBVIOUS
<1> HIDE DEF ws
<1>7. QED
  BY <1>4, <1>5, <1>6

\* Some sequences as they are, another one, and nothing more.
CutTo(T, ws, n, v, c) ==
    /\ ws \in Seq(Seq(T)) /\ Len(ws) = n /\ v \in [0 .. n -> Seq(T)]
    /\ \E g : Together(T, ws, g) /\ \A i \in 0 .. c : g[i] = v[i]
    /\ \A i \in 1 .. n : i > c + 1 => ws[i] = <<>>

\* Flattened they are what comes in front of the cut, and what is left there.
LEMMA FlattenCut ==
    ASSUME NEW T, NEW ws, NEW n \in Nat, NEW v, NEW c \in 0 .. n, CutTo(T, ws, n, v, c)
    PROVE  \E part \in Seq(T) :
             /\ FlattenSeq(ws) = v[c] \o part
             /\ IF c = n THEN part = <<>> ELSE part = ws[c + 1]
<1>1. /\ ws \in Seq(Seq(T)) /\ Len(ws) = n /\ v \in [0 .. n -> Seq(T)]
      /\ \A i \in 1 .. n : i > c + 1 => ws[i] = <<>>
  BY DEF CutTo
<1>2. PICK g : Together(T, ws, g) /\ \A i \in 0 .. c : g[i] = v[i]
  BY DEF CutTo
<1>3. PICK h : Together(T, ws, h) /\ FlattenSeq(ws) = h[n]
  BY <1>1, FlattenIs
<1>4. FlattenSeq(ws) = g[n]
  <2>1. PICK tt : tt = ws
    OBVIOUS
  <2>2. /\ Len(ws) \in Nat /\ Len(tt) \in Nat /\ n <= Len(ws) /\ n <= Len(tt)
        /\ Together(T, tt, h) /\ Together(T, ws, g)
        /\ \A i \in 1 .. n : tt[i] = ws[i]
    BY <1>3, <1>2, <1>1, <2>1
  <2>3. \A i \in 0 .. n : h[i] = g[i]
    BY <2>2, TogetherSame
  <2>4. n \in 0 .. n
    OBVIOUS
  <2>5. QED
    BY <1>3, <2>3, <2>4
<1>5. g \in [0 .. n -> Seq(T)] /\ \A i \in 1 .. n : g[i] = g[i - 1] \o ws[i]
  BY <1>2, <1>1 DEF Together
<1>6. c \in 0 .. c /\ g[c] = v[c]
  BY <1>2
<1>7. CASE c = n
  <2>1. <<>> \in Seq(T) /\ v[c] \o <<>> = v[c]
    BY <1>1, JoinNothing
  <2>2. FlattenSeq(ws) = v[c] \o <<>>
    BY <1>4, <1>6, <1>7, <2>1
  <2>3. QED
    BY <1>7, <2>1, <2>2
<1>8. CASE c # n
  <2>1. PICK i \in 1 .. n : i = c + 1 /\ i - 1 = c
    BY <1>8
  <2>2. PICK part \in Seq(T) : part = ws[i]
    BY <1>1, ElementOfSeq
  <2>3. g[i] = v[c] \o part
    BY <1>5, <1>6, <2>1, <2>2
  <2> DEFINE P == {k \in 0 .. n : k >= i => g[k] = g[i]}
  <2>4. 0 \in P
    OBVIOUS
  <2>5. ASSUME NEW k \in 0 .. n, k # n, k \in P PROVE k + 1 \in P
    <3>1. PICK j \in 1 .. n : j = k + 1 /\ j - 1 = k
      BY <2>5
    <3>2. CASE j > i
      <4>1. k >= i /\ g[k] = g[i] /\ j > c + 1
        BY <2>1, <2>5, <3>1, <3>2
      <4>2. ws[j] = <<>>
        BY <1>1, <4>1
      <4>3. g[k] \in Seq(T) /\ g[j] = g[k] \o ws[j]
        BY <1>5, <3>1
      <4>4. g[k] \o <<>> = g[k]
        BY <4>3, JoinNothing
      <4>5. g[j] = g[i]
        BY <4>1, <4>2, <4>3, <4>4
      <4>6. j \in 0 .. n
        OBVIOUS
      <4>7. j \in P
        BY <4>5, <4>6
      <4>8. QED
        BY <3>1, <4>7
    <3>3. CASE ~(j > i)
      <4>1. j >= i => j = i
        BY <3>3
      <4>2. j \in 0 .. n
        OBVIOUS
      <4>3. j \in P
        BY <4>1, <4>2
      <4>4. QED
        BY <3>1, <4>3
    <3>4. QED
      BY <3>2, <3>3
  <2>6. \A k \in 0 .. n : k \in P
    <3> HIDE DEF P
    <3>1. QED
      BY <2>4, <2>5, UpTo
  <2>7. n \in 0 .. n /\ n >= i
    OBVIOUS
  <2>8. g[n] = g[i]
    BY <2>6, <2>7
  <2>9. QED
    BY <1>4, <1>8, <2>1, <2>2, <2>3, <2>8
<1>9. QED
  BY <1>7, <1>8

-----------------------------------------------------------------------------
(* What a file begins with, whatever follows it *)

\* What a file begins with at `pos`: batches and what is left of one more.
Begins(data, pos, values) ==
    \E bss, vss, part :
      /\ Made(bss, vss) /\ At(data, pos, FlattenSeq(bss)) /\ part \in Seq(Vals)
      /\ values = FlattenSeq(vss) \o part
      /\ part = <<>> \/ Partial(data, pos + Len(FlattenSeq(bss)), part)

\* The first of some batches.
LEMMA MadeFirst ==
    ASSUME NEW bss, NEW vss, Made(bss, vss), NEW n \in Nat, n = Len(bss), NEW c \in 0 .. n,
           NEW f, Together(Byte, bss, f), NEW v, Together(Vals, vss, v)
    PROVE  /\ Made(SubSeq(bss, 1, c), SubSeq(vss, 1, c))
           /\ FlattenSeq(SubSeq(bss, 1, c)) = f[c] /\ FlattenSeq(SubSeq(vss, 1, c)) = v[c]
<1>1. /\ bss \in Seq(Seq(Byte)) /\ vss \in Seq(Seq(Vals)) /\ n = Len(vss)
      /\ \A i \in 1 .. n : \E base, records : MadeOf(bss[i], vss[i], base, records)
  BY DEF Made
<1>2. PICK css, wss : css = SubSeq(bss, 1, c) /\ wss = SubSeq(vss, 1, c)
  OBVIOUS
<1>3. /\ css \in Seq(Seq(Byte)) /\ Len(css) = c /\ \A i \in 1 .. c : css[i] = bss[i]
      /\ FlattenSeq(css) = f[c]
  <2>1. PICK T : T = Byte
    OBVIOUS
  <2>2. bss \in Seq(Seq(T)) /\ Together(T, bss, f)
    BY <1>1, <2>1
  <2>3. /\ css \in Seq(Seq(T)) /\ Len(css) = c /\ \A i \in 1 .. c : css[i] = bss[i]
        /\ FlattenSeq(css) = f[c]
    BY <1>2, <2>2, FlattenFirst
  <2>4. QED
    BY <2>1, <2>3
<1>4. /\ wss \in Seq(Seq(Vals)) /\ Len(wss) = c /\ \A i \in 1 .. c : wss[i] = vss[i]
      /\ FlattenSeq(wss) = v[c]
  <2>1. PICK T : T = Vals
    OBVIOUS
  <2>2. vss \in Seq(Seq(T)) /\ Together(T, vss, v)
    BY <1>1, <2>1
  <2>3. /\ wss \in Seq(Seq(T)) /\ Len(wss) = c /\ \A i \in 1 .. c : wss[i] = vss[i]
        /\ FlattenSeq(wss) = v[c]
    BY <1>1, <1>2, <2>2, FlattenFirst
  <2>4. QED
    BY <2>1, <2>3
<1>5. ASSUME NEW i \in 1 .. c PROVE \E base, records : MadeOf(css[i], wss[i], base, records)
  <2>1. css[i] = bss[i] /\ wss[i] = vss[i] /\ i \in 1 .. n
    BY <1>3, <1>4
  <2>2. QED
    BY <1>1, <2>1
<1>6. Made(css, wss)
  BY <1>3, <1>4, <1>5 DEF Made
<1>7. QED
  BY <1>2, <1>3, <1>4, <1>6

\* The first bytes of what lies at a position lie there.
LEMMA AtFirst ==
    ASSUME NEW data \in Seq(Byte), NEW pos \in Nat, NEW s \in Seq(Byte), At(data, pos, s),
           NEW left \in Nat, left <= Len(s)
    PROVE  /\ SubSeq(s, 1, left) \in Seq(Byte) /\ Len(SubSeq(s, 1, left)) = left
           /\ At(data, pos, SubSeq(s, 1, left))
<1>1. PICK n \in Nat, d \in Nat : n = Len(s) /\ d = Len(data) /\ left <= n
  BY LenProperties
<1>2. PICK u : u = SubSeq(s, 1, left)
  OBVIOUS
<1>3. u \in Seq(Byte) /\ Len(u) = left /\ \A i \in 1 .. left : u[i] = s[i]
  <2>1. \A i \in 1 .. left : s[i] \in Byte
    BY <1>1, ElementOfSeq
  <2>2. 1 \in Int /\ left \in Int
    OBVIOUS
  <2>3. /\ u \in Seq(Byte)
        /\ Len(u) = IF 1 <= left THEN left - 1 + 1 ELSE 0
        /\ \A i \in 1 .. left - 1 + 1 : u[i] = s[1 + i - 1]
    BY <1>2, <2>1, <2>2, SubSeqProperties
  <2>4. QED
    BY <2>3
<1>4. pos + n <= d /\ \A i \in 1 .. n : data[pos + i] = s[i]
  BY <1>1 DEF At
<1>5. ASSUME NEW i \in 1 .. left PROVE data[pos + i] = u[i]
  <2>1. i \in 1 .. n
    BY <1>1
  <2>2. QED
    BY <1>3, <1>4, <2>1
<1>6. pos + left <= d
  BY <1>1, <1>4
<1>7. QED
  BY <1>1, <1>2, <1>3, <1>5, <1>6 DEF At

\* A run that is cut off leaves batches and what is left of one more.
LEMMA CutRun ==
    ASSUME NEW first, NEW batches, NEW n \in Nat, MadeRun(first, batches, n),
           NEW written \in Nat, written <= Len(Bytes(batches)),
           NEW data \in Seq(Byte), NEW pos \in Nat,
           At(data, pos, SubSeq(Bytes(batches), 1, written))
    PROVE  /\ Begins(data, pos, WholeOf(batches, written))
           /\ written = Len(Bytes(batches)) => WholeOf(batches, written) = Values(batches)
<1>1. PICK bss, vss : bss = bytesOf(batches) /\ vss = valuesOf(batches)
  OBVIOUS
<1>2. /\ bss \in Seq(Seq(Byte)) /\ Len(bss) = n /\ vss \in Seq(Seq(Vals)) /\ Len(vss) = n
      /\ \A i \in 1 .. n : bss[i] = batches[i].bytes /\ vss[i] = batches[i].values
      /\ Bytes(batches) = FlattenSeq(bss) /\ Values(batches) = FlattenSeq(vss)
  BY <1>1, RunParts
<1>3. Made(bss, vss) /\ \A i \in 1 .. n : MadeBatch(batches[i])
  BY <1>1 DEF MadeRun
<1>4. PICK f : Together(Byte, bss, f) /\ FlattenSeq(bss) = f[n]
  BY <1>2, FlattenIs
<1>5. PICK v : Together(Vals, vss, v) /\ FlattenSeq(vss) = v[n]
  BY <1>2, FlattenIs
<1>6. /\ f \in [0 .. n -> Seq(Byte)] /\ f[0] = <<>>
      /\ \A i \in 1 .. n : f[i] = f[i - 1] \o bss[i]
  BY <1>2, <1>4 DEF Together
<1>7. v \in [0 .. n -> Seq(Vals)]
  BY <1>2, <1>5 DEF Together
<1>8. /\ \A k \in 0 .. n : Len(f[k]) \in Nat
      /\ \A i \in 0 .. n : \A k \in 0 .. n : i <= k => Len(f[i]) <= Len(f[k])
  BY <1>2, <1>4, PrefixMonotone
<1>9. PICK ws \in Seq(Seq(Vals)) :
        /\ Len(ws) = n /\ WholeOf(batches, written) = FlattenSeq(ws)
        /\ \A i \in 1 .. n : ws[i] = Kept(batches[i], Len(f[i - 1]), written)
  <2>1. Together(Byte, bytesOf(batches), f)
    BY <1>1, <1>4
  <2>2. QED
    BY <2>1, WholeOfIs
<1>10. PICK c \in 0 .. n : \A i \in 1 .. n : Len(f[i]) <= written <=> i <= c
  <2> DEFINE e == [i \in 1 .. n |-> Len(f[i])]
  <2>1. \A i \in 1 .. n : e[i] \in Nat
    BY <1>8
  <2>2. \A i \in 1 .. n : \A k \in 1 .. n : i <= k => e[i] <= e[k]
    BY <1>8
  <2>3. \E c \in 0 .. n : \A i \in 1 .. n : e[i] <= written <=> i <= c
    <3> HIDE DEF e
    <3>1. QED
      BY <2>1, <2>2, CutPoint
  <2>4. QED
    BY <2>3
<1>11. \A i \in 1 .. n : Len(f[i]) = Len(f[i - 1]) + Len(bss[i]) /\ Len(bss[i]) \in Nat
  <2>1. ASSUME NEW i \in 1 .. n
        PROVE  Len(f[i]) = Len(f[i - 1]) + Len(bss[i]) /\ Len(bss[i]) \in Nat
    <3>1. PICK k \in 0 .. n : k = i - 1
      OBVIOUS
    <3>2. f[k] \in Seq(Byte) /\ f[i] = f[k] \o bss[i]
      BY <1>6, <3>1
    <3>3. bss[i] \in Seq(Byte)
      BY <1>2, ElementOfSeq
    <3>4. Len(f[k] \o bss[i]) = Len(f[k]) + Len(bss[i])
      BY <3>2, <3>3, Join
    <3>5. QED
      BY <3>1, <3>2, <3>3, <3>4, LenProperties
  <2>2. QED
    BY <2>1
<1>12. ASSUME NEW i \in 1 .. n, i <= c PROVE ws[i] = vss[i]
  <2>1. PICK start \in Nat, size \in Nat, end \in Nat :
          start = Len(f[i - 1]) /\ size = Len(bss[i]) /\ end = Len(f[i]) /\ end = start + size
    <3>1. i - 1 \in 0 .. n /\ i \in 0 .. n
      OBVIOUS
    <3>2. QED
      BY <1>8, <1>11, <3>1
  <2>2. start + Len(batches[i].bytes) <= written
    BY <1>2, <1>10, <1>12, <2>1
  <2>3. MadeBatch(batches[i])
    BY <1>3
  <2>4. Kept(batches[i], start, written) = batches[i].values
    BY <2>2, <2>3, CutBatch
  <2>5. QED
    BY <1>2, <1>9, <2>1, <2>4
<1>13. ASSUME NEW i \in 1 .. n, i > c + 1 PROVE ws[i] = <<>>
  <2>1. PICK k \in 1 .. n : k = i - 1 /\ ~(k <= c)
    BY <1>13
  <2>2. PICK start \in Nat : start = Len(f[k]) /\ ~(start <= written)
    <3>1. k \in 0 .. n
      OBVIOUS
    <3>2. QED
      BY <1>8, <1>10, <2>1, <3>1
  <2>3. written < start + 61
    BY <2>2
  <2>4. MadeBatch(batches[i])
    BY <1>3
  <2>5. Kept(batches[i], start, written) = <<>>
    BY <2>3, <2>4, CutBatch
  <2>6. QED
    BY <1>9, <2>1, <2>2, <2>5
<1>14. PICK g : Together(Vals, ws, g)
  BY FlattenIs
<1>15. \A i \in 0 .. c : g[i] = v[i]
  <2>1. \A i \in 1 .. c : ws[i] = vss[i]
    <3>1. TAKE i \in 1 .. c
    <3>2. i \in 1 .. n /\ i <= c
      OBVIOUS
    <3>3. QED
      BY <1>12, <3>2
  <2>2. /\ c \in Nat /\ Len(ws) \in Nat /\ Len(vss) \in Nat /\ c <= Len(ws) /\ c <= Len(vss)
        /\ Together(Vals, ws, g) /\ Together(Vals, vss, v)
    BY <1>2, <1>5, <1>9, <1>14
  <2>3. QED
    BY <2>1, <2>2, TogetherSame
<1>16. PICK part \in Seq(Vals) :
         /\ FlattenSeq(ws) = v[c] \o part
         /\ IF c = n THEN part = <<>> ELSE part = ws[c + 1]
  <2>1. \A i \in 1 .. n : i > c + 1 => ws[i] = <<>>
    BY <1>13
  <2>2. CutTo(Vals, ws, n, v, c)
    BY <1>7, <1>9, <1>14, <1>15, <2>1 DEF CutTo
  <2>3. QED
    BY <2>2, FlattenCut
<1>17. PICK css, wss :
         Made(css, wss) /\ FlattenSeq(css) = f[c] /\ FlattenSeq(wss) = v[c]
  <2>1. /\ Made(SubSeq(bss, 1, c), SubSeq(vss, 1, c))
        /\ FlattenSeq(SubSeq(bss, 1, c)) = f[c] /\ FlattenSeq(SubSeq(vss, 1, c)) = v[c]
    BY <1>2, <1>3, <1>4, <1>5, MadeFirst
  <2>2. QED
    BY <2>1
<1>18. PICK total \in Seq(Byte) : total = f[n] /\ total = Bytes(batches)
  <2>1. n \in 0 .. n
    OBVIOUS
  <2>2. QED
    BY <1>2, <1>4, <1>6, <2>1
<1>19. At(total, 0, total) /\ written <= Len(total) /\ At(data, pos, SubSeq(total, 1, written))
  BY <1>18, AtSelf
<1>20. PICK start \in Nat : start = Len(f[c]) /\ start <= written
  <2>1. c = 0 => Len(f[c]) = 0
    BY <1>6
  <2>2. c # 0 => Len(f[c]) <= written
    BY <1>10
  <2>3. Len(f[c]) \in Nat
    BY <1>8
  <2>4. QED
    BY <2>1, <2>2, <2>3
<1>21. At(data, pos, f[c])
  <2>1. At(total, 0, f[n])
    BY <1>18, <1>19
  <2>2. At(total, 0, f[c])
    BY <1>2, <1>4, <2>1, PrefixAt
  <2>3. f[c] \in Seq(Byte) /\ 0 + Len(f[c]) <= written /\ 0 \in Nat /\ pos + 0 = pos
    BY <1>6, <1>20
  <2>4. At(data, pos + 0, f[c])
    BY <1>19, <2>2, <2>3, CutAt
  <2>5. QED
    BY <2>3, <2>4
<1>22. ASSUME part # <<>> PROVE Partial(data, pos + start, part)
  <2>1. PICK i \in 1 .. n : i = c + 1 /\ i - 1 = c /\ ~(i <= c)
    BY <1>16, <1>22
  <2>2. part = ws[i]
    BY <1>16, <2>1
  <2>3. PICK b \in Seq(Byte), size \in Nat :
          b = bss[i] /\ size = Len(b) /\ ~(start + size <= written)
    <3>1. bss[i] \in Seq(Byte)
      BY <1>2, ElementOfSeq
    <3>2. Len(f[i]) = start + Len(bss[i])
      BY <1>11, <1>20, <2>1
    <3>3. ~(Len(f[i]) <= written)
      BY <1>10, <2>1
    <3>4. QED
      BY <1>11, <3>1, <3>2, <3>3
  <2>4. PICK left \in Nat : left = written - start /\ left <= size
    <3>1. start <= written /\ ~(start + size <= written)
      BY <1>20, <2>3
    <3>2. written - start \in Nat /\ written - start <= size
      BY <3>1
    <3>3. QED
      BY <3>2
  <2>5. At(total, start, b)
    <3>1. At(total, 0, f[Len(bss)]) /\ 0 \in Nat
      BY <1>2, <1>18, <1>19
    <3>2. \A j \in 1 .. Len(bss) : At(total, 0 + Len(f[j - 1]), bss[j])
      BY <1>2, <1>4, <3>1, PieceAt
    <3>3. At(total, 0 + Len(f[i - 1]), bss[i])
      BY <1>2, <3>2
    <3>4. 0 + Len(f[i - 1]) = start
      BY <1>20, <2>1
    <3>5. QED
      BY <2>3, <3>3, <3>4
  <2>6. PICK t \in Seq(Byte) : t = SubSeq(b, 1, left) /\ Len(t) = left /\ At(total, start, t)
    BY <2>3, <2>4, <2>5, AtFirst
  <2>7. start + Len(t) <= written
    BY <2>4, <2>6
  <2>8. At(data, pos + start, t)
    BY <1>19, <2>6, <2>7, CutAt
  <2>9. part = Kept(batches[i], start, written)
    BY <1>9, <1>20, <2>1, <2>2
  <2>10. PICK at \in Nat : at = pos + start
    OBVIOUS
  <2>11. /\ start <= written /\ written < start + Len(batches[i].bytes)
         /\ At(data, at, SubSeq(batches[i].bytes, 1, written - start))
    <3>1. batches[i].bytes = b /\ Len(batches[i].bytes) = size
      BY <1>2, <2>3
    <3>2. start <= written /\ ~(start + size <= written)
      BY <1>20, <2>3
    <3>3. start <= written /\ written < start + size
      BY <3>2
    <3>4. At(data, at, SubSeq(b, 1, left))
      BY <2>6, <2>8, <2>10
    <3>5. QED
      BY <2>4, <3>1, <3>3, <3>4
  <2>12. MadeBatch(batches[i])
    BY <1>3
  <2>13. \/ Kept(batches[i], start, written) = <<>>
         \/ Partial(data, at, Kept(batches[i], start, written))
    BY <2>11, <2>12, CutBatch
  <2>14. QED
    BY <1>22, <2>9, <2>10, <2>13
<1>23. Begins(data, pos, WholeOf(batches, written))
  <2>1. WholeOf(batches, written) = FlattenSeq(wss) \o part
    BY <1>9, <1>16, <1>17
  <2>2. part = <<>> \/ Partial(data, pos + Len(FlattenSeq(css)), part)
    BY <1>17, <1>20, <1>22
  <2>3. At(data, pos, FlattenSeq(css))
    BY <1>17, <1>21
  <2>4. QED
    BY <1>16, <1>17, <2>1, <2>2, <2>3 DEF Begins
<1>24. ASSUME written = Len(Bytes(batches)) PROVE WholeOf(batches, written) = Values(batches)
  <2>1. n # 0 => n \in 1 .. n /\ Len(f[n]) <= written
    BY <1>18, <1>24
  <2>2. c = n
    BY <1>10, <2>1
  <2>3. part = <<>>
    BY <1>16, <2>2
  <2>4. v[n] \in Seq(Vals)
    <3>1. n \in 0 .. n
      OBVIOUS
    <3>2. QED
      BY <1>7, <3>1
  <2>5. v[n] \o <<>> = v[n]
    BY <2>4, JoinNothing
  <2>6. QED
    BY <1>2, <1>5, <1>9, <1>16, <2>2, <2>3, <2>5
<1>25. QED
  BY <1>23, <1>24

\* What is appended to a file moves nothing in it.
LEMMA AtMore ==
    ASSUME NEW data \in Seq(Byte), NEW x \in Seq(Byte), NEW pos \in Nat, NEW s \in Seq(Byte),
           At(data, pos, s)
    PROVE  At(data \o x, pos, s)
<1>1. PICK d \in Nat, n \in Nat, m \in Nat : d = Len(data) /\ n = Len(x) /\ m = Len(s)
  BY LenProperties
<1>2. /\ Len(data \o x) = d + n
      /\ \A i \in 1 .. d : (data \o x)[i] = data[i]
  BY <1>1, JoinBytes
<1>3. pos + m <= d /\ \A i \in 1 .. m : data[pos + i] = s[i]
  BY <1>1 DEF At
<1>4. ASSUME NEW i \in 1 .. m PROVE (data \o x)[pos + i] = s[i]
  <2>1. PICK k \in 1 .. d : k = pos + i
    BY <1>3
  <2>2. (data \o x)[k] = data[k]
    BY <1>2
  <2>3. QED
    BY <1>3, <2>1, <2>2
<1>5. pos + m <= d + n
  BY <1>3
<1>6. QED
  BY <1>1, <1>2, <1>4, <1>5 DEF At

\* So a file goes on beginning with what it began with.
LEMMA BeginsStay ==
    ASSUME NEW data \in Seq(Byte), NEW x \in Seq(Byte), NEW values, Begins(data, 0, values)
    PROVE  Begins(data \o x, 0, values)
<1>1. PICK bss, vss, part :
        /\ Made(bss, vss) /\ At(data, 0, FlattenSeq(bss)) /\ part \in Seq(Vals)
        /\ values = FlattenSeq(vss) \o part
        /\ part = <<>> \/ Partial(data, 0 + Len(FlattenSeq(bss)), part)
  BY DEF Begins
<1>2. PICK flat \in Seq(Byte), p \in Nat : flat = FlattenSeq(bss) /\ p = Len(flat)
  <2>1. bss \in Seq(Seq(Byte))
    BY <1>1 DEF Made
  <2>2. FlattenSeq(bss) \in Seq(Byte)
    BY <2>1, FlattenType
  <2>3. QED
    BY <2>2, LenProperties
<1>3. 0 + Len(FlattenSeq(bss)) = p
  BY <1>2
<1>4. At(data \o x, 0, FlattenSeq(bss))
  <2>1. At(data, 0, flat) /\ 0 \in Nat
    BY <1>1, <1>2
  <2>2. At(data \o x, 0, flat)
    BY <2>1, AtMore
  <2>3. QED
    BY <1>2, <2>2
<1>5. ASSUME part # <<>> PROVE Partial(data \o x, p, part)
  <2>1. PICK head, n, base, size, records :
          /\ head \in Seq(Byte) /\ n \in Nat /\ Len(head) = 61
          /\ At(data, p, head) /\ HeadSays(head, base, n, size)
          /\ n >= Len(part) /\ Laid(data, p + 61, records, part)
    BY <1>1, <1>3, <1>5 DEF Partial
  <2>2. At(data \o x, p, head)
    BY <2>1, AtMore
  <2>3. /\ records \in Seq(Seq(Byte)) /\ Len(part) = Len(records)
        /\ \A i \in 1 .. Len(records) : Reads(records[i], part[i])
        /\ At(data, p + 61, FlattenSeq(records))
    BY <2>1 DEF Laid
  <2>4. FlattenSeq(records) \in Seq(Byte) /\ p + 61 \in Nat
    BY <2>3, FlattenType
  <2>5. At(data \o x, p + 61, FlattenSeq(records))
    BY <2>3, <2>4, AtMore
  <2>6. Laid(data \o x, p + 61, records, part)
    BY <2>3, <2>5 DEF Laid
  <2>7. QED
    BY <2>1, <2>2, <2>6 DEF Partial
<1>6. part = <<>> \/ Partial(data \o x, 0 + Len(FlattenSeq(bss)), part)
  BY <1>3, <1>5
<1>7. QED
  BY <1>1, <1>4, <1>6 DEF Begins

\* Behind whole batches.
LEMMA BeginsBehind ==
    ASSUME NEW data \in Seq(Byte), NEW bss, NEW vss, Made(bss, vss), At(data, 0, FlattenSeq(bss)),
           NEW values, Begins(data, Len(FlattenSeq(bss)), values)
    PROVE  Begins(data, 0, FlattenSeq(vss) \o values)
<1>1. PICK front \in Seq(Byte), p \in Nat, a \in Seq(Vals) :
        front = FlattenSeq(bss) /\ p = Len(front) /\ a = FlattenSeq(vss)
  <2>1. bss \in Seq(Seq(Byte)) /\ vss \in Seq(Seq(Vals))
    BY DEF Made
  <2>2. FlattenSeq(bss) \in Seq(Byte) /\ FlattenSeq(vss) \in Seq(Vals)
    BY <2>1, FlattenType
  <2>3. QED
    BY <2>2, LenProperties
<1>2. Begins(data, p, values)
  BY <1>1
<1>3. PICK css, wss, part :
        /\ Made(css, wss) /\ At(data, p, FlattenSeq(css)) /\ part \in Seq(Vals)
        /\ values = FlattenSeq(wss) \o part
        /\ part = <<>> \/ Partial(data, p + Len(FlattenSeq(css)), part)
  BY <1>2 DEF Begins
<1>4. PICK back \in Seq(Byte), q \in Nat, b \in Seq(Vals) :
        back = FlattenSeq(css) /\ q = Len(back) /\ b = FlattenSeq(wss)
  <2>1. css \in Seq(Seq(Byte)) /\ wss \in Seq(Seq(Vals))
    BY <1>3 DEF Made
  <2>2. FlattenSeq(css) \in Seq(Byte) /\ FlattenSeq(wss) \in Seq(Vals)
    BY <2>1, FlattenType
  <2>3. QED
    BY <2>2, LenProperties
<1>5. PICK dss, uss :
        /\ dss = bss \o css /\ uss = vss \o wss /\ Made(dss, uss)
        /\ FlattenSeq(dss) = front \o back /\ FlattenSeq(uss) = a \o b
  <2>1. Made(bss, vss) /\ Made(css, wss)
    BY <1>3
  <2>2. Made(bss \o css, vss \o wss)
    BY <2>1, MadeJoin
  <2>3. FlattenSeq(bss \o css) = FlattenSeq(bss) \o FlattenSeq(css)
    BY <2>1, MadeJoin
  <2>4. FlattenSeq(vss \o wss) = FlattenSeq(vss) \o FlattenSeq(wss)
    <3>1. vss \in Seq(Seq(Vals)) /\ wss \in Seq(Seq(Vals))
      BY <2>1 DEF Made
    <3>2. QED
      BY <3>1, FlattenJoin
  <2>5. QED
    BY <1>1, <1>4, <2>2, <2>3, <2>4
<1>6. front \o back \in Seq(Byte) /\ Len(front \o back) = p + q
  BY <1>1, <1>4, Join
<1>7. At(data, 0, FlattenSeq(dss))
  <2>1. At(data, 0, front) /\ At(data, p, back) /\ 0 \in Nat /\ 0 + Len(front) = p
    BY <1>1, <1>3, <1>4
  <2>2. At(data, 0 + Len(front), back)
    BY <2>1
  <2>3. At(data, 0, front \o back)
    BY <2>1, <2>2, AtJoin
  <2>4. QED
    BY <1>5, <2>3
<1>8. part = <<>> \/ Partial(data, 0 + Len(FlattenSeq(dss)), part)
  <2>1. 0 + Len(FlattenSeq(dss)) = p + q /\ p + Len(FlattenSeq(css)) = p + q
    BY <1>4, <1>5, <1>6
  <2>2. QED
    BY <1>3, <2>1
<1>9. a \o values = FlattenSeq(uss) \o part
  <2>1. Group(a, b, part)
    BY <1>3, Grouped
  <2>2. (a \o b) \o part = a \o (b \o part)
    BY <2>1, Zenon DEF Group
  <2>3. QED
    BY <1>3, <1>4, <1>5, <2>2
<1>10. QED
  BY <1>1, <1>3, <1>5, <1>7, <1>8, <1>9 DEF Begins

\* The broker loads what a file begins with before anything else.
LEMMA BeginsLoad ==
    ASSUME NEW data \in Seq(Byte), NEW values, Begins(data, 0, values)
    PROVE  \E T : \E more \in Seq(T) :
             values \in Seq(T) /\ read_cluster_metadata_log(data) = values \o more
<1>1. PICK bss, vss, part :
        /\ Made(bss, vss) /\ At(data, 0, FlattenSeq(bss)) /\ part \in Seq(Vals)
        /\ values = FlattenSeq(vss) \o part
        /\ part = <<>> \/ Partial(data, 0 + Len(FlattenSeq(bss)), part)
  BY DEF Begins
<1>2. PICK p \in Nat, a \in Seq(Vals) :
        /\ p = Len(FlattenSeq(bss)) /\ a = FlattenSeq(vss)
        /\ part = <<>> \/ Partial(data, p, part)
  <2>1. bss \in Seq(Seq(Byte)) /\ vss \in Seq(Seq(Vals))
    BY <1>1 DEF Made
  <2>2. FlattenSeq(bss) \in Seq(Byte) /\ FlattenSeq(vss) \in Seq(Vals)
    BY <2>1, FlattenType
  <2>3. PICK p \in Nat : p = Len(FlattenSeq(bss))
    BY <2>2, LenProperties
  <2>4. 0 + Len(FlattenSeq(bss)) = p
    BY <2>3
  <2>5. QED
    BY <1>1, <2>2, <2>3, <2>4
<1>3. PICK from \in [Nat -> Seq(RecordValues(data))] :
        from = LogStep(data, from) /\ read_cluster_metadata_log(data) = from[0]
  BY LogIs
<1>4. from[0] = a \o from[p]
  BY <1>1, <1>2, <1>3, FileRead
<1> DEFINE T == Vals \cup RecordValues(data)
<1>5. /\ \A s \in Seq(Vals) : s \in Seq(T)
      /\ \A s \in Seq(RecordValues(data)) : s \in Seq(T)
  BY Widen
<1>6. a \in Seq(T) /\ part \in Seq(T) /\ \A pos \in Nat : from[pos] \in Seq(T)
  BY <1>1, <1>5
<1>7. CASE part = <<>>
  <2>1. a \o <<>> = a
    BY JoinNothing
  <2>2. values = a
    BY <1>1, <1>2, <1>7, <2>1
  <2>3. /\ values \in Seq(T) /\ from[p] \in Seq(T)
        /\ read_cluster_metadata_log(data) = values \o from[p]
    BY <1>3, <1>4, <1>6, <2>2
  <2> HIDE DEF T
  <2>4. QED
    BY <2>3
<1>8. CASE part # <<>>
  <2>1. PICK head, n, base, size, records :
          /\ head \in Seq(Byte) /\ n \in Nat /\ Len(head) = 61
          /\ At(data, p, head) /\ HeadSays(head, base, n, size)
          /\ n >= Len(part) /\ Laid(data, p + 61, records, part)
    BY <1>2, <1>8 DEF Partial
  <2>2. record_count(data, p) = n
    BY <2>1 DEF HeadSays
  <2>3. PICK at \in Nat : at = p + 61 /\ Laid(data, at, records, part)
    BY <2>1
  <2>4. PICK rest \in Seq(T) : parse_records(data, at, n) = part \o rest
    <3>1. n >= Len(part) /\ Laid(data, at, records, part)
      BY <2>1, <2>3
    <3>2. \E rest \in Seq(Vals \cup RecordValues(data)) :
            /\ parse_records(data, at, n) = part \o rest
            /\ n = Len(part) => rest = <<>>
      BY <1>1, <2>1, <3>1, RecordsRead
    <3>3. QED
      BY <3>2
  <2>5. read_record(data, p) = part \o rest
    BY <2>2, <2>3, <2>4 DEF read_record
  <2>6. PICK end \in Nat : end = batch_end(data, p)
    BY BatchTypes
  <2>7. from[p] = read_record(data, p) \o from[end]
    <3>1. p + 61 <= Len(data)
      BY <2>1 DEF At
    <3>2. ~(p >= Len(data))
      <4>1. PICK d \in Nat : d = Len(data)
        BY LenProperties
      <4>2. QED
        BY <3>1, <4>1
    <3>3. from[p] = IF p >= Len(data) THEN <<>>
                    ELSE read_record(data, p) \o from[batch_end(data, p)]
      BY <1>3 DEF LogStep
    <3>4. QED
      BY <2>6, <3>2, <3>3
  <2> HIDE DEF T
  <2>8. PICK r \in Seq(T) : r = from[end]
    BY <1>6
  <2>9. PICK b \in Seq(T), c \in Seq(T) : b = part /\ c = a
    BY <1>6
  <2>10. PICK more \in Seq(T) : more = rest \o r
    BY Join
  <2>11. c \o b \in Seq(T)
    BY Join
  <2>12. (b \o rest) \o r = b \o more
    <3>1. Group(b, rest, r)
      BY Grouped
    <3>2. (b \o rest) \o r = b \o (rest \o r)
      BY <3>1, Zenon DEF Group
    <3>3. QED
      BY <2>10, <3>2
  <2>13. (c \o b) \o more = c \o (b \o more)
    <3>1. Group(c, b, more)
      BY Grouped
    <3>2. QED
      BY <3>1, Zenon DEF Group
  <2>14. from[0] = c \o ((b \o rest) \o r)
    BY <1>4, <2>5, <2>7, <2>8, <2>9
  <2>15. values = c \o b
    BY <1>1, <1>2, <2>9
  <2>16. read_cluster_metadata_log(data) = values \o more
    BY <1>3, <2>12, <2>13, <2>14, <2>15
  <2>17. QED
    BY <2>11, <2>15, <2>16
<1>9. QED
  BY <1>7, <1>8

\* More values serve no fewer partitions.
LEMMA ServedMore ==
    ASSUME NEW T, NEW s \in Seq(T), NEW t \in Seq(T)
    PROVE  Served(s) \subseteq Served(s \o t)
<1>1. PICK m \in Nat, n \in Nat : m = Len(s) /\ n = Len(t)
  BY LenProperties
<1>2. PICK u \in Seq(T) : u = s \o t /\ Len(u) = m + n
  BY <1>1, Join
<1>3. \A i \in 1 .. m : u[i] = s[i]
  BY <1>1, <1>2, ConcatProperties
<1>4. DOMAIN s = 1 .. m /\ DOMAIN u = 1 .. m + n
  BY <1>1, <1>2, LenProperties
<1>5. ASSUME NEW x \in Served(s) PROVE x \in Served(u)
  <2>1. PICK i \in {k \in DOMAIN s : s[k].type = TOPIC} :
          x \in {<<s[i].name, s[j].id>> :
                   j \in {k \in i + 1 .. Len(s) : s[k].type = PARTITION /\ s[k].uuid = s[i].uuid}}
    BY <1>5 DEF Served
  <2>2. PICK j \in i + 1 .. Len(s) :
          s[j].type = PARTITION /\ s[j].uuid = s[i].uuid /\ x = <<s[i].name, s[j].id>>
    BY <2>1
  <2>3. i \in 1 .. m /\ j \in 1 .. m /\ s[i].type = TOPIC
    BY <1>1, <1>4, <2>1, <2>2
  <2>4. u[i] = s[i] /\ u[j] = s[j]
    BY <1>3, <2>3
  <2>5. i \in DOMAIN u /\ j \in i + 1 .. Len(u)
    BY <1>1, <1>2, <1>4, <2>2, <2>3
  <2>6. x \in {<<u[i].name, u[k].id>> :
                 k \in {l \in i + 1 .. Len(u) : u[l].type = PARTITION /\ u[l].uuid = u[i].uuid}}
    BY <2>2, <2>4, <2>5
  <2>7. i \in {k \in DOMAIN u : u[k].type = TOPIC}
    BY <2>3, <2>4, <2>5
  <2>8. QED
    BY <2>6, <2>7 DEF Served
<1>6. QED
  BY <1>2, <1>5

-----------------------------------------------------------------------------
(* Runs of the tool, again *)

\* The elements of s and then those of t.
Splices(s, t, m, n) ==
    /\ Len(s \o t) = m + n
    /\ \A i \in 1 .. m + n : (s \o t)[i] = IF i <= m THEN s[i] ELSE t[i - m]

\* So it is for any two sequences.
LEMMA SplicesIs ==
    ASSUME NEW T, NEW s \in Seq(T), NEW t \in Seq(T), NEW m \in Nat, NEW n \in Nat,
           m = Len(s), n = Len(t)
    PROVE  s \o t \in Seq(T) /\ Splices(s, t, m, n)
  BY Spliced DEF Splices

\* One element in front of others.
LEMMA PutFirst ==
    ASSUME NEW T, NEW s \in Seq(T), Len(s) = 1, NEW t \in Seq(T), NEW n \in Nat, n = Len(t)
    PROVE  /\ s \o t \in Seq(T) /\ Len(s \o t) = 1 + n
           /\ \A i \in 1 .. 1 + n : (s \o t)[i] = IF i <= 1 THEN s[i] ELSE t[i - 1]
<1>1. 1 \in Nat /\ 1 = Len(s)
  OBVIOUS
<1>2. s \o t \in Seq(T) /\ Splices(s, t, 1, n)
  BY <1>1, SplicesIs
<1>3. QED
  BY <1>2 DEF Splices

\* A topic's batch, with the ends of its records.
LEMMA TopicBatchReads ==
    ASSUME NEW base \in Nat, NEW name \in Names, NEW partitions \in Nat,
           partitions <= Huge - 2, NEW uuid \in Seq(Byte), Len(uuid) = 16
    PROVE  MadeBatch(TopicBatch(base, name, partitions, uuid))
<1>1. PICK records : records = TopicRecords(name, partitions, uuid)
  OBVIOUS
<1>2. PICK batch : batch = TopicBatch(base, name, partitions, uuid)
  OBVIOUS
<1>3. MadeOf(batch.bytes, batch.values, base, records)
  BY <1>1, <1>2, TopicBatchMade
<1>4. batch.ends = [k \in DOMAIN records |-> 61 + Len(FlattenSeq(SubSeq(records, 1, k)))]
  BY <1>1, <1>2 DEF TopicBatch, TopicRecords, Batch
<1>5. QED
  BY <1>2, <1>3, <1>4 DEF MadeBatch

\* And the one with the feature level.
LEMMA FeatureBatchReads ==
    MadeBatch(FeatureBatch)
<1>1. PICK records : records = <<_feature_level_record>>
  OBVIOUS
<1>2. PICK batch : batch = FeatureBatch
  OBVIOUS
<1>3. MadeOf(batch.bytes, batch.values, 1, records)
  BY <1>1, <1>2, FeatureBatchMade
<1>4. batch.ends = [k \in DOMAIN records |-> 61 + Len(FlattenSeq(SubSeq(records, 1, k)))]
  BY <1>1, <1>2 DEF FeatureBatch, Batch
<1>5. QED
  BY <1>2, <1>3, <1>4 DEF MadeBatch

\* What append_topics writes.
LEMMA AppendRun ==
    ASSUME runs \in Nat, NEW first \in Nat, NEW topics \in Topics
    PROVE  \E n \in Nat : MadeRun(first, TopicBatches(first, topics), n)
<1>1. PICK n \in Nat : n = Len(topics) /\ DOMAIN topics = 1 .. n
  BY DEF Topics
<1>2. PICK base : base = base_offsets(first, topics) /\ base \in [1 .. n -> Nat]
  <2>1. n = Len(topics)
    BY <1>1
  <2>2. Follow(base_offsets(first, topics), first, topics, n)
    BY <2>1, BaseOffsets
  <2>3. QED
    BY <2>2 DEF Follow
<1>3. PICK batches : batches = TopicBatches(first, topics)
  OBVIOUS
<1>4. batches = [i \in 1 .. n |-> TopicBatch(base[i], topics[i][1], topics[i][2], uuid4(runs, i))]
  BY <1>1, <1>2, <1>3 DEF TopicBatches
<1>5. ASSUME NEW i \in 1 .. n PROVE MadeBatch(batches[i])
  <2>1. PICK to \in Nat, name \in Names, partitions \in Nat :
          /\ to = base[i] /\ name = topics[i][1] /\ partitions = topics[i][2]
          /\ partitions <= Huge - 2
    BY <1>1, <1>2, TopicType
  <2>2. PICK uuid \in Seq(Byte) : uuid = uuid4(runs, i) /\ Len(uuid) = 16
    BY UuidType
  <2>3. MadeBatch(TopicBatch(to, name, partitions, uuid))
    BY <2>1, <2>2, TopicBatchReads
  <2>4. QED
    BY <1>4, <2>1, <2>2, <2>3
<1>6. batches = [i \in 1 .. n |-> batches[i]]
  BY <1>4
<1>7. /\ Made(bytesOf(batches), valuesOf(batches))
      /\ Numbered(first, bytesOf(batches), valuesOf(batches))
  BY <1>3, TopicBatchesMade
<1>8. MadeRun(first, batches, n)
  BY <1>5, <1>6, <1>7 DEF MadeRun
<1>9. QED
  BY <1>3, <1>8

\* What generate writes.
LEMMA GenerateRun ==
    ASSUME runs \in Nat, NEW topics \in Topics
    PROVE  \E n \in Nat : MadeRun(1, <<FeatureBatch>> \o TopicBatches(2, topics), n)
<1>1. PICK n \in Nat : MadeRun(2, TopicBatches(2, topics), n)
  BY AppendRun
<1>2. PICK tbs, fb : tbs = TopicBatches(2, topics) /\ fb = FeatureBatch
  OBVIOUS
<1>3. /\ tbs = [i \in 1 .. n |-> tbs[i]] /\ \A i \in 1 .. n : MadeBatch(tbs[i])
      /\ Made(bytesOf(tbs), valuesOf(tbs)) /\ Numbered(2, bytesOf(tbs), valuesOf(tbs))
  BY <1>1, <1>2 DEF MadeRun
<1>4. /\ bytesOf(tbs) \in Seq(Seq(Byte)) /\ Len(bytesOf(tbs)) = n
      /\ valuesOf(tbs) \in Seq(Seq(Vals)) /\ Len(valuesOf(tbs)) = n
      /\ \A i \in 1 .. n : bytesOf(tbs)[i] = tbs[i].bytes /\ valuesOf(tbs)[i] = tbs[i].values
  BY <1>1, <1>2, RunParts
<1>5. PICK bs, vs : bs = bytesOf(tbs) /\ vs = valuesOf(tbs)
  OBVIOUS
<1>6. /\ Made(<<fb.bytes>>, <<fb.values>>) /\ Numbered(1, <<fb.bytes>>, <<fb.values>>)
      /\ FlattenSeq(<<fb.values>>) = fb.values /\ Len(fb.values) = 1 /\ MadeBatch(fb)
  BY <1>2, FeatureMade, FeatureBatchReads
<1>7. PICK f1, v1 : f1 = <<fb.bytes>> /\ v1 = <<fb.values>>
  OBVIOUS
<1>8. /\ f1 \in Seq(Seq(Byte)) /\ v1 \in Seq(Seq(Vals)) /\ Len(f1) = 1 /\ Len(v1) = 1
      /\ f1[1] = fb.bytes /\ v1[1] = fb.values
  <2>1. f1 \in Seq(Seq(Byte)) /\ v1 \in Seq(Seq(Vals))
    BY <1>6, <1>7 DEF Made
  <2>2. QED
    BY <1>7, <2>1
<1> DEFINE T == {fb} \cup {tbs[i] : i \in 1 .. n}
<1>9. tbs \in Seq(T) /\ Len(tbs) = n
  <2>1. tbs \in [1 .. n -> T]
    BY <1>3
  <2> HIDE DEF T
  <2>2. QED
    BY <2>1, Mapped
<1>10. <<fb>> \in Seq(T) /\ Len(<<fb>>) = 1 /\ <<fb>>[1] = fb
  OBVIOUS
<1> HIDE DEF T
<1>11. PICK batches : batches = <<fb>> \o tbs
  OBVIOUS
<1>12. PICK m \in Nat : m = 1 + n
  OBVIOUS
<1>13. /\ batches \in Seq(T) /\ Len(batches) = m
       /\ \A i \in 1 .. m : batches[i] = IF i <= 1 THEN fb ELSE tbs[i - 1]
  <2>1. /\ <<fb>> \o tbs \in Seq(T) /\ Len(<<fb>> \o tbs) = 1 + n
        /\ \A i \in 1 .. 1 + n : (<<fb>> \o tbs)[i] = IF i <= 1 THEN <<fb>>[i] ELSE tbs[i - 1]
    BY <1>9, <1>10, Spliced
  <2>2. \A i \in 1 .. m : i <= 1 => i = 1
    OBVIOUS
  <2>3. QED
    BY <1>10, <1>11, <1>12, <2>1, <2>2
<1>14. batches = [i \in 1 .. m |-> batches[i]] /\ DOMAIN batches = 1 .. m
  BY <1>13, SeqDef
<1>15. ASSUME NEW i \in 1 .. m PROVE MadeBatch(batches[i])
  <2>1. CASE i <= 1
    BY <1>6, <1>13, <2>1
  <2>2. CASE ~(i <= 1)
    <3>1. i - 1 \in 1 .. n
      BY <1>12, <2>2
    <3>2. QED
      BY <1>3, <1>13, <2>2, <3>1
  <2>3. QED
    BY <2>1, <2>2
<1>16. bytesOf(batches) = f1 \o bs
  <2>1. PICK u : u = f1 \o bs
    OBVIOUS
  <2>2. /\ u \in Seq(Seq(Byte)) /\ Len(u) = m
        /\ \A i \in 1 .. m : u[i] = IF i <= 1 THEN f1[i] ELSE bs[i - 1]
    <3>1. PICK B : B = Seq(Byte)
      OBVIOUS
    <3>2. f1 \in Seq(B) /\ Len(f1) = 1 /\ bs \in Seq(B) /\ n = Len(bs)
      BY <1>4, <1>5, <1>8, <3>1
    <3>3. /\ f1 \o bs \in Seq(B) /\ Len(f1 \o bs) = 1 + n
          /\ \A i \in 1 .. 1 + n : (f1 \o bs)[i] = IF i <= 1 THEN f1[i] ELSE bs[i - 1]
      BY <3>2, PutFirst
    <3>4. QED
      BY <1>12, <2>1, <3>1, <3>3
  <2>3. bytesOf(batches) = [i \in 1 .. m |-> batches[i].bytes]
    BY <1>14 DEF bytesOf
  <2>4. ASSUME NEW i \in 1 .. m PROVE batches[i].bytes = u[i]
    <3>1. CASE i <= 1
      <4>1. i = 1
        BY <3>1
      <4>2. QED
        BY <1>8, <1>13, <2>2, <3>1, <4>1
    <3>2. CASE ~(i <= 1)
      <4>1. i - 1 \in 1 .. n
        BY <1>12, <3>2
      <4>2. QED
        BY <1>4, <1>5, <1>13, <2>2, <3>2, <4>1
    <3>3. QED
      BY <3>1, <3>2
  <2>5. [i \in 1 .. m |-> batches[i].bytes] = [i \in 1 .. m |-> u[i]]
    BY <2>4
  <2>6. u = [i \in 1 .. m |-> u[i]]
    BY <2>2, SeqDef
  <2>7. QED
    BY <2>1, <2>3, <2>5, <2>6
<1>17. valuesOf(batches) = v1 \o vs
  <2>1. PICK u : u = v1 \o vs
    OBVIOUS
  <2>2. /\ u \in Seq(Seq(Vals)) /\ Len(u) = m
        /\ \A i \in 1 .. m : u[i] = IF i <= 1 THEN v1[i] ELSE vs[i - 1]
    <3>1. PICK B : B = Seq(Vals)
      OBVIOUS
    <3>2. v1 \in Seq(B) /\ Len(v1) = 1 /\ vs \in Seq(B) /\ n = Len(vs)
      BY <1>4, <1>5, <1>8, <3>1
    <3>3. /\ v1 \o vs \in Seq(B) /\ Len(v1 \o vs) = 1 + n
          /\ \A i \in 1 .. 1 + n : (v1 \o vs)[i] = IF i <= 1 THEN v1[i] ELSE vs[i - 1]
      BY <3>2, PutFirst
    <3>4. QED
      BY <1>12, <2>1, <3>1, <3>3
  <2>3. valuesOf(batches) = [i \in 1 .. m |-> batches[i].values]
    BY <1>14 DEF valuesOf
  <2>4. ASSUME NEW i \in 1 .. m PROVE batches[i].values = u[i]
    <3>1. CASE i <= 1
      <4>1. i = 1
        BY <3>1
      <4>2. QED
        BY <1>8, <1>13, <2>2, <3>1, <4>1
    <3>2. CASE ~(i <= 1)
      <4>1. i - 1 \in 1 .. n
        BY <1>12, <3>2
      <4>2. QED
        BY <1>4, <1>5, <1>13, <2>2, <3>2, <4>1
    <3>3. QED
      BY <3>1, <3>2
  <2>5. [i \in 1 .. m |-> batches[i].values] = [i \in 1 .. m |-> u[i]]
    BY <2>4
  <2>6. u = [i \in 1 .. m |-> u[i]]
    BY <2>2, SeqDef
  <2>7. QED
    BY <2>1, <2>3, <2>5, <2>6
<1>18. Made(f1, v1) /\ Made(bs, vs) /\ Numbered(1, f1, v1) /\ Numbered(2, bs, vs)
  BY <1>3, <1>5, <1>6, <1>7
<1>19. 1 \in Nat /\ Numbered(1 + Len(FlattenSeq(v1)), bs, vs)
  <2>1. Len(FlattenSeq(v1)) = 1
    BY <1>6, <1>7
  <2>2. 1 + Len(FlattenSeq(v1)) = 2
    BY <2>1
  <2>3. QED
    BY <1>18, <2>2
<1>20. Made(f1 \o bs, v1 \o vs)
  BY <1>18, MadeJoin
<1>21. Numbered(1, f1 \o bs, v1 \o vs)
  BY <1>18, <1>19, NumberedJoin
<1>22. MadeRun(1, batches, m)
  BY <1>14, <1>15, <1>16, <1>17, <1>20, <1>21 DEF MadeRun
<1>23. QED
  BY <1>2, <1>11, <1>22

-----------------------------------------------------------------------------
(* The invariant *)

\* A file without a cut in it is made of batches that follow one another.
WholeFile(data, values) ==
    \E bss, vss :
      /\ Made(bss, vss) /\ data = FlattenSeq(bss) /\ values = FlattenSeq(vss)
      /\ Len(values) < Huge => Numbered(1, bss, vss)

\* The inductive invariant.  Without a cut, the file is whole batches, numbered on
\* from one run to the next as long as the scan can count them.  With a cut
\* anywhere, and whatever was appended behind it, the file still begins with the
\* batches in front of the first cut and the whole records of the one it is in.
MetadataBytesInv ==
    /\ runs \in Nat
    /\ file \in Seq(Byte)
    /\ torn \in BOOLEAN
    /\ ~torn => whole = intended /\ intact = intended /\ WholeFile(file, intended)
    /\ Begins(file, 0, intact)

\* No batches at all.
LEMMA NoBatches ==
    /\ Made(<<>>, <<>>) /\ Numbered(1, <<>>, <<>>)
    /\ FlattenSeq(<<>>) = <<>> /\ <<>> \in Seq(Vals) /\ <<>> \in Seq(Byte)
<1>1. /\ <<>> \in Seq(Seq(Byte)) /\ <<>> \in Seq(Seq(Vals)) /\ Len(<<>>) = 0
      /\ <<>> \in Seq(Vals) /\ <<>> \in Seq(Byte)
  OBVIOUS
<1>2. Made(<<>>, <<>>)
  BY <1>1 DEF Made
<1>3. PICK f : Together(Vals, <<>>, f) /\ FlattenSeq(<<>>) = f[Len(<<>>)]
  BY <1>1, FlattenIs
<1>4. FlattenSeq(<<>>) = <<>>
  BY <1>1, <1>3 DEF Together
<1>5. Numbered(1, <<>>, <<>>)
  BY <1>1, <1>3 DEF Numbered
<1>6. QED
  BY <1>1, <1>2, <1>4, <1>5

\* There is no file at first, which is read as an empty one.
LEMMA InitInv ==
    Init => MetadataBytesInv
<1>1. SUFFICES ASSUME Init PROVE MetadataBytesInv
  OBVIOUS
<1>2. file = <<>> /\ torn = FALSE /\ runs = 0 /\ whole = <<>> /\ intended = <<>> /\ intact = <<>>
  BY <1>1 DEF Init
<1>3. PICK none : none = <<>>
  OBVIOUS
<1>4. /\ Made(none, none) /\ Numbered(1, none, none) /\ FlattenSeq(none) = none
      /\ none \in Seq(Vals) /\ none \in Seq(Byte) /\ Len(none) = 0
  BY <1>3, NoBatches
<1>5. WholeFile(none, none)
  BY <1>4 DEF WholeFile
<1>6. Begins(none, 0, none)
  <2>1. At(none, 0, none)
    BY <1>4, AtSelf
  <2>2. none \o none = none
    BY <1>3, <1>4, JoinNothing
  <2>3. At(none, 0, FlattenSeq(none)) /\ none = FlattenSeq(none) \o none
    BY <1>4, <2>1, <2>2
  <2>4. QED
    BY <1>3, <1>4, <2>3 DEF Begins
<1>7. QED
  BY <1>2, <1>3, <1>4, <1>5, <1>6 DEF MetadataBytesInv

\* What can be written of some bytes is a first part of them.
LEMMA WrittenUpTo ==
    ASSUME NEW bytes \in Seq(Byte), NEW written \in Written(bytes)
    PROVE  /\ written \in Nat /\ written <= Len(bytes)
           /\ SubSeq(bytes, 1, written) \in Seq(Byte)
           /\ ~(written < Len(bytes)) => written = Len(bytes) /\ SubSeq(bytes, 1, written) = bytes
<1>1. PICK n \in Nat : n = Len(bytes)
  BY LenProperties
<1>2. written \in Nat /\ written <= n
  BY <1>1 DEF Written
<1>3. SubSeq(bytes, 1, written) \in Seq(Byte)
  BY <1>1, <1>2, AtSelf, AtFirst
<1>4. ASSUME ~(written < n) PROVE written = n /\ SubSeq(bytes, 1, written) = bytes
  <2>1. written = n
    BY <1>2, <1>4
  <2>2. QED
    BY <1>1, <2>1, SubSeqFull
<1>5. QED
  BY <1>1, <1>2, <1>3, <1>4

\* A run writes bytes.
LEMMA RunBytes ==
    ASSUME NEW first, NEW batches, NEW n \in Nat, MadeRun(first, batches, n)
    PROVE  Bytes(batches) \in Seq(Byte) /\ Values(batches) \in Seq(Vals)
<1>1. /\ bytesOf(batches) \in Seq(Seq(Byte)) /\ valuesOf(batches) \in Seq(Seq(Vals))
      /\ Bytes(batches) = FlattenSeq(bytesOf(batches))
      /\ Values(batches) = FlattenSeq(valuesOf(batches))
  BY RunParts
<1>2. QED
  BY <1>1, FlattenType

\* generate makes the file anew, whole or cut off.
LEMMA GenerateInv ==
    ASSUME MetadataBytesInv, NEW topics \in Wanted, generate(topics)
    PROVE  MetadataBytesInv'
<1>1. topics \in Topics /\ runs \in Nat
  BY MetadataBytesAssumption DEF Topics, MetadataBytesInv
<1>2. PICK batches, bytes :
        batches = <<FeatureBatch>> \o TopicBatches(2, topics) /\ bytes = Bytes(batches)
  OBVIOUS
<1>3. PICK n \in Nat : MadeRun(1, batches, n)
  BY <1>1, <1>2, GenerateRun
<1>4. bytes \in Seq(Byte)
  BY <1>2, <1>3, RunBytes
<1>5. PICK written \in Written(bytes) :
        /\ file' = SubSeq(bytes, 1, written) /\ torn' = (written < Len(bytes))
        /\ whole' = WholeOf(batches, written) /\ intact' = whole'
        /\ intended' = Values(batches) /\ runs' = runs + 1
  BY <1>2 DEF generate
<1>6. /\ written \in Nat /\ written <= Len(bytes) /\ SubSeq(bytes, 1, written) \in Seq(Byte)
      /\ ~(written < Len(bytes)) => written = Len(bytes) /\ SubSeq(bytes, 1, written) = bytes
  BY <1>4, WrittenUpTo
<1>7. PICK data \in Seq(Byte) : data = SubSeq(bytes, 1, written)
  BY <1>6
<1>8. /\ Begins(data, 0, WholeOf(batches, written))
      /\ written = Len(bytes) => WholeOf(batches, written) = Values(batches)
  <2>1. At(data, 0, SubSeq(bytes, 1, written)) /\ 0 \in Nat
    BY <1>7, AtSelf
  <2>2. /\ written <= Len(Bytes(batches))
        /\ At(data, 0, SubSeq(Bytes(batches), 1, written))
    BY <1>2, <1>6, <2>1
  <2>3. /\ Begins(data, 0, WholeOf(batches, written))
        /\ written = Len(Bytes(batches)) => WholeOf(batches, written) = Values(batches)
    BY <1>3, <1>6, <2>1, <2>2, CutRun
  <2>4. QED
    BY <1>2, <2>3
<1>9. ASSUME ~torn'
      PROVE  whole' = intended' /\ intact' = intended' /\ WholeFile(file', intended')
  <2>1. written = Len(bytes) /\ file' = bytes
    BY <1>5, <1>6, <1>9
  <2>2. whole' = intended' /\ intact' = intended'
    BY <1>5, <1>8, <2>1
  <2>3. /\ Bytes(batches) = FlattenSeq(bytesOf(batches))
        /\ Values(batches) = FlattenSeq(valuesOf(batches))
    BY <1>3, RunParts
  <2>4. /\ Made(bytesOf(batches), valuesOf(batches))
        /\ Numbered(1, bytesOf(batches), valuesOf(batches))
    BY <1>3 DEF MadeRun
  <2>5. WholeFile(bytes, Values(batches))
    BY <1>2, <2>3, <2>4 DEF WholeFile
  <2>6. QED
    BY <1>5, <2>1, <2>2, <2>5
<1>10. Begins(file', 0, intact') /\ file' \in Seq(Byte)
  BY <1>5, <1>7, <1>8
<1>11. runs' \in Nat /\ torn' \in BOOLEAN
  BY <1>1, <1>5
<1>12. QED
  BY <1>9, <1>10, <1>11 DEF MetadataBytesInv

\* append_topics leaves what is there, and goes on from the offset it finds.
LEMMA AppendInv ==
    ASSUME MetadataBytesInv, NEW topics \in Wanted, append_topics(topics)
    PROVE  MetadataBytesInv'
<1>1. /\ topics \in Topics /\ runs \in Nat /\ file \in Seq(Byte) /\ torn \in BOOLEAN
      /\ ~torn => whole = intended /\ intact = intended /\ WholeFile(file, intended)
      /\ Begins(file, 0, intact)
  BY MetadataBytesAssumption DEF Topics, MetadataBytesInv
<1>2. PICK first \in Nat : first = _next_base_offset
  <2>1. PICK scan \in [Nat \X Nat -> Nat] : _next_base_offset = scan[<<0, 1>>]
    BY <1>1, ScanIs
  <2>2. <<0, 1>> \in Nat \X Nat
    OBVIOUS
  <2>3. QED
    BY <2>1, <2>2
<1>3. PICK batches, bytes : batches = TopicBatches(first, topics) /\ bytes = Bytes(batches)
  OBVIOUS
<1>4. PICK n \in Nat : MadeRun(first, batches, n)
  BY <1>1, <1>3, AppendRun
<1>5. bytes \in Seq(Byte) /\ Values(batches) \in Seq(Vals)
  BY <1>3, <1>4, RunBytes
<1>6. PICK written \in Written(bytes) :
        /\ file' = file \o SubSeq(bytes, 1, written) /\ torn' = (torn \/ written < Len(bytes))
        /\ whole' = whole \o WholeOf(batches, written)
        /\ intact' = IF torn THEN intact ELSE whole'
        /\ intended' = intended \o Values(batches) /\ runs' = runs + 1
  BY <1>2, <1>3 DEF append_topics
<1>7. /\ written \in Nat /\ written <= Len(bytes) /\ SubSeq(bytes, 1, written) \in Seq(Byte)
      /\ ~(written < Len(bytes)) => written = Len(bytes) /\ SubSeq(bytes, 1, written) = bytes
  BY <1>5, WrittenUpTo
<1>8. PICK x \in Seq(Byte) : x = SubSeq(bytes, 1, written)
  BY <1>7
<1>9. PICK data \in Seq(Byte) : data = file \o x /\ data = file'
  <2>1. file \o x \in Seq(Byte)
    BY <1>1, Join
  <2>2. QED
    BY <1>6, <1>8, <2>1
<1>10. runs' \in Nat /\ torn' \in BOOLEAN /\ file' \in Seq(Byte)
  BY <1>1, <1>6, <1>9
<1>11. CASE torn
  <2>1. torn' /\ intact' = intact
    BY <1>6, <1>11
  <2>2. Begins(data, 0, intact)
    BY <1>1, <1>9, BeginsStay
  <2>3. Begins(file', 0, intact')
    BY <1>9, <2>1, <2>2
  <2>4. QED
    BY <1>10, <2>1, <2>3 DEF MetadataBytesInv
<1>12. CASE ~torn
  <2>1. /\ whole = intended /\ intact' = whole' /\ WholeFile(file, intended)
        /\ torn' = (written < Len(bytes))
    BY <1>1, <1>6, <1>12
  <2>2. PICK bss, vss :
          /\ Made(bss, vss) /\ file = FlattenSeq(bss) /\ intended = FlattenSeq(vss)
          /\ Len(intended) < Huge => Numbered(1, bss, vss)
    BY <2>1 DEF WholeFile
  <2>3. PICK p \in Nat : p = Len(file)
    BY <1>1, LenProperties
  <2>4. At(data, 0, file) /\ At(data, p, x)
    <3>1. At(data, 0, file \o x) /\ 0 \in Nat
      BY <1>9, AtSelf
    <3>2. At(data, 0, file) /\ At(data, 0 + Len(file), x)
      BY <1>1, <3>1, LastPiece
    <3>3. 0 + Len(file) = p
      BY <2>3
    <3>4. QED
      BY <3>2, <3>3
  <2>5. /\ Begins(data, p, WholeOf(batches, written))
        /\ written = Len(bytes) => WholeOf(batches, written) = Values(batches)
    <3>1. /\ written <= Len(Bytes(batches))
          /\ At(data, p, SubSeq(Bytes(batches), 1, written))
      BY <1>3, <1>7, <1>8, <2>4
    <3>2. /\ Begins(data, p, WholeOf(batches, written))
          /\ written = Len(Bytes(batches)) => WholeOf(batches, written) = Values(batches)
      BY <1>4, <1>7, <3>1, CutRun
    <3>3. QED
      BY <1>3, <3>2
  <2>6. Begins(data, 0, FlattenSeq(vss) \o WholeOf(batches, written))
    <3>1. Begins(data, Len(FlattenSeq(bss)), WholeOf(batches, written))
      BY <2>2, <2>3, <2>5
    <3>2. At(data, 0, FlattenSeq(bss))
      BY <2>2, <2>4
    <3>3. QED
      BY <2>2, <3>1, <3>2, BeginsBehind
  <2>7. Begins(file', 0, intact')
    BY <1>6, <1>9, <2>1, <2>2, <2>6
  <2>8. ASSUME ~torn'
        PROVE  whole' = intended' /\ intact' = intended' /\ WholeFile(file', intended')
    <3>1. written = Len(bytes) /\ x = bytes
      BY <1>7, <1>8, <2>1, <2>8
    <3>2. whole' = intended' /\ intact' = intended'
      BY <1>6, <2>1, <2>5, <3>1
    <3>3. PICK css, wss :
            /\ css = bytesOf(batches) /\ wss = valuesOf(batches)
            /\ Made(css, wss) /\ Numbered(first, css, wss)
            /\ bytes = FlattenSeq(css) /\ Values(batches) = FlattenSeq(wss)
      <4>1. /\ Bytes(batches) = FlattenSeq(bytesOf(batches))
            /\ Values(batches) = FlattenSeq(valuesOf(batches))
        BY <1>4, RunParts
      <4>2. /\ Made(bytesOf(batches), valuesOf(batches))
            /\ Numbered(first, bytesOf(batches), valuesOf(batches))
        BY <1>4 DEF MadeRun
      <4>3. QED
        BY <1>3, <4>1, <4>2
    <3>4. Made(bss, vss) /\ Made(css, wss)
      BY <2>2, <3>3
    <3>5. /\ Made(bss \o css, vss \o wss)
          /\ file' = FlattenSeq(bss \o css) /\ intended' = FlattenSeq(vss \o wss)
      <4>1. vss \in Seq(Seq(Vals)) /\ wss \in Seq(Seq(Vals))
        BY <3>4 DEF Made
      <4>2. FlattenSeq(vss \o wss) = FlattenSeq(vss) \o FlattenSeq(wss)
        BY <4>1, FlattenJoin
      <4>3. Made(bss \o css, vss \o wss)
        BY <3>4, MadeJoin
      <4>4. FlattenSeq(bss \o css) = FlattenSeq(bss) \o FlattenSeq(css)
        BY <3>4, MadeJoin
      <4>5. QED
        BY <1>6, <1>9, <2>2, <3>1, <3>3, <4>2, <4>3, <4>4
    <3>6. ASSUME Len(intended') < Huge PROVE Numbered(1, bss \o css, vss \o wss)
      <4>1. PICK a \in Seq(Vals), b \in Seq(Vals) :
              a = intended /\ b = Values(batches) /\ intended' = a \o b
        <5>1. vss \in Seq(Seq(Vals))
          BY <3>4 DEF Made
        <5>2. intended \in Seq(Vals)
          BY <2>2, <5>1, FlattenType
        <5>3. QED
          BY <1>5, <1>6, <5>2
      <4>2. PICK y \in Nat, z \in Nat : y = Len(a) /\ z = Len(b)
        BY LenProperties
      <4>3. Len(a \o b) = y + z
        BY <4>2, Join
      <4>4. y + z < Huge
        BY <3>6, <4>1, <4>3
      <4>5. y < Huge
        BY <4>4, HugeIs
      <4>6. Numbered(1, bss, vss) /\ Len(FlattenSeq(vss)) < Huge
        BY <2>2, <4>1, <4>2, <4>5
      <4>7. first = 1 + Len(FlattenSeq(vss))
        BY <1>1, <1>2, <2>2, <4>6, OffsetRead
      <4>8. Numbered(1 + Len(FlattenSeq(vss)), css, wss) /\ 1 \in Nat
        BY <3>3, <4>7
      <4>9. QED
        BY <3>4, <4>6, <4>8, NumberedJoin
    <3>7. WholeFile(file', intended')
      BY <3>5, <3>6 DEF WholeFile
    <3>8. QED
      BY <3>2, <3>7
  <2>9. QED
    BY <1>10, <2>7, <2>8 DEF MetadataBytesInv
<1>13. QED
  BY <1>1, <1>11, <1>12

\* Every step keeps the invariant.
LEMMA NextInv ==
    MetadataBytesInv /\ [Next]_vars => MetadataBytesInv'
<1>1. SUFFICES ASSUME MetadataBytesInv, [Next]_vars PROVE MetadataBytesInv'
  OBVIOUS
<1>2. CASE Next
  <2>1. PICK topics \in Wanted : generate(topics) \/ append_topics(topics)
    BY <1>2 DEF Next
  <2>2. QED
    BY <1>1, <2>1, GenerateInv, AppendInv
<1>3. CASE UNCHANGED vars
  BY <1>1, <1>3 DEF MetadataBytesInv, vars
<1>4. QED
  BY <1>1, <1>2, <1>3

\* However often tools/create_cluster_metadata.py runs, with whatever topics, and
\* wherever its writes are cut off, the file is as MetadataBytesInv says.
THEOREM MetadataBytesInvariant == Spec => []MetadataBytesInv
<1>1. QED
  BY InitInv, NextInv, PTL DEF Spec

\* cluster_metadata_log.py reads every value that create_cluster_metadata.py wrote,
\* for all names, partition counts, runs and appends: the encoders and the parsers
\* agree on every byte of every record.
THEOREM WholeFilesLoadWholeHolds == Spec => []WholeFilesLoadWhole
<1>1. MetadataBytesInv => WholeFilesLoadWhole
  <2>1. SUFFICES ASSUME MetadataBytesInv, ~torn PROVE loaded = intended
    BY DEF WholeFilesLoadWhole
  <2>2. PICK bss, vss : Made(bss, vss) /\ file = FlattenSeq(bss) /\ intended = FlattenSeq(vss)
    BY <2>1 DEF MetadataBytesInv, WholeFile
  <2>3. file \in Seq(Byte)
    BY <2>1 DEF MetadataBytesInv
  <2>4. PICK n \in Nat : n = Len(file)
    BY <2>3, LenProperties
  <2>5. PICK from \in [Nat -> Seq(RecordValues(file))] :
          from = LogStep(file, from) /\ read_cluster_metadata_log(file) = from[0]
    BY <2>3, LogIs
  <2>6. At(file, 0, FlattenSeq(bss))
    BY <2>2, <2>3, AtSelf
  <2>7. from[0] = FlattenSeq(vss) \o from[Len(FlattenSeq(bss))]
    BY <2>2, <2>3, <2>5, <2>6, FileRead
  <2>8. from[n] = <<>>
    <3>1. n >= Len(file)
      BY <2>4
    <3>2. from[n] = IF n >= Len(file) THEN <<>>
                    ELSE read_record(file, n) \o from[batch_end(file, n)]
      BY <2>5 DEF LogStep
    <3>3. QED
      BY <3>1, <3>2
  <2>9. FlattenSeq(vss) \o <<>> = FlattenSeq(vss)
    <3>1. vss \in Seq(Seq(Vals))
      BY <2>2 DEF Made
    <3>2. FlattenSeq(vss) \in Seq(Vals)
      BY <3>1, FlattenType
    <3>3. QED
      BY <3>2, JoinNothing
  <2>10. QED
    BY <2>2, <2>4, <2>5, <2>7, <2>8, <2>9 DEF loaded
<1>2. QED
  BY <1>1, MetadataBytesInvariant, PTL

\* _next_base_offset finds where the run before stopped, so that a file's records
\* are numbered without a gap or an overlap by any sequence of runs.
THEOREM NewBatchesFollowHolds == Spec => []NewBatchesFollow
<1>1. MetadataBytesInv => NewBatchesFollow
  <2>1. SUFFICES ASSUME MetadataBytesInv, ~torn, Len(intended) < Huge
                 PROVE  _next_base_offset = 1 + Len(intended)
    BY DEF NewBatchesFollow
  <2>2. PICK bss, vss :
          /\ Made(bss, vss) /\ file = FlattenSeq(bss) /\ intended = FlattenSeq(vss)
          /\ Numbered(1, bss, vss)
    BY <2>1 DEF MetadataBytesInv, WholeFile
  <2>3. file \in Seq(Byte) /\ Len(FlattenSeq(vss)) < Huge
    BY <2>1, <2>2 DEF MetadataBytesInv
  <2>4. QED
    BY <2>2, <2>3, OffsetRead
<1>2. QED
  BY <1>1, MetadataBytesInvariant, PTL

\* A cut at any byte, in one run or in several, with runs behind it that append to
\* what is left, costs the broker no partition that was complete in front of it.
THEOREM CutsLoseNothingInFrontHolds == Spec => []CutsLoseNothingInFront
<1>1. MetadataBytesInv => CutsLoseNothingInFront
  <2>1. SUFFICES ASSUME MetadataBytesInv PROVE Served(intact) \subseteq Served(loaded)
    BY DEF CutsLoseNothingInFront
  <2>2. file \in Seq(Byte) /\ Begins(file, 0, intact)
    BY <2>1 DEF MetadataBytesInv
  <2>3. PICK T : \E more \in Seq(T) :
          intact \in Seq(T) /\ read_cluster_metadata_log(file) = intact \o more
    BY <2>2, BeginsLoad
  <2>4. PICK more \in Seq(T) :
          intact \in Seq(T) /\ read_cluster_metadata_log(file) = intact \o more
    BY <2>3
  <2>5. Served(intact) \subseteq Served(intact \o more)
    BY <2>4, ServedMore
  <2>6. QED
    BY <2>4, <2>5 DEF loaded
<1>2. QED
  BY <1>1, MetadataBytesInvariant, PTL
=============================================================================
