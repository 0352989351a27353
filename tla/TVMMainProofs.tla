---------------------------- MODULE TVMMainProofs ----------------------------
(***************************************************************************)
(* For every program, whatever the libraries export and whatever libffi    *)
(* accepts: main closes the library it opened, and closes it once, on each *)
(* way out but an exception; the machine gets the code, the constants and  *)
(* the table the assembler wrote; a C function is called with the types    *)
(* its declaration gives; and all main asks of the arena allocator is what *)
(* Arena lets a client ask, so that what is proved of the arenas holds in  *)
(* the machine.                                                            *)
(***************************************************************************)
EXTENDS TVMMain, ArenaProofs

-----------------------------------------------------------------------------
(* Quotients and remainders.                                               *)

LEMMA Grows ==
  ASSUME NEW p \in Nat, NEW a \in Nat, NEW b \in Nat, a + 1 <= b
  PROVE  p * a + p <= p * b
<1>1. PICK d \in Nat : b = a + 1 + d
  <2>1. b - (a + 1) \in Nat /\ b = a + 1 + (b - (a + 1))
    OBVIOUS
  <2> QED BY <2>1
<1>2. p * (a + 1 + d) = p * a + p + p * d
  OBVIOUS
<1>3. p * d \in Nat /\ p * a \in Nat
  OBVIOUS
<1>4. p * b = p * a + p + p * d
  BY <1>1, <1>2
<1> QED BY <1>3, <1>4

LEMMA Quotient ==
  ASSUME NEW v \in Nat, NEW p \in Nat \ {0}, NEW q \in Nat, NEW r \in Nat, v = p * q + r, r < p
  PROVE  v \div p = q /\ v % p = r
<1> DEFINE s == v \div p
           t == v % p
<1>1. s \in Nat /\ t \in Nat /\ t < p /\ v = p * s + t
  OBVIOUS
<1> HIDE DEF s, t
<1>2. p * q \in Nat /\ p * s \in Nat
  BY <1>1
<1>3. ASSUME q + 1 <= s PROVE FALSE
  <2>1. p * q + p <= p * s
    BY <1>1, <1>3, Grows
  <2> QED BY <1>1, <1>2, <2>1
<1>4. ASSUME s + 1 <= q PROVE FALSE
  <2>1. p * s + p <= p * q
    BY <1>1, <1>4, Grows
  <2> QED BY <1>1, <1>2, <2>1
<1>5. s = q
  BY <1>1, <1>3, <1>4
<1>6. t = r
  BY <1>1, <1>2, <1>5
<1> QED BY <1>5, <1>6 DEF s, t

LEMMA Quotients ==
  ASSUME NEW v \in Nat, NEW a \in Nat \ {0}, NEW b \in Nat \ {0}
  PROVE  /\ (v \div a) \div b = v \div (a * b)
         /\ v % (a * b) = (v % a) + a * ((v \div a) % b)
<1> DEFINE x == v \div a
           r == v % a
           y == x \div b
           s == x % b
<1>1. x \in Nat /\ r \in Nat /\ r < a /\ v = a * x + r
  OBVIOUS
<1> HIDE DEF x, r
<1>2. y \in Nat /\ s \in Nat /\ s + 1 <= b /\ x = b * y + s
  BY <1>1
<1> HIDE DEF y, s
<1>3. a * s \in Nat /\ a * b \in Nat /\ a * s + a <= a * b
  BY <1>2, Grows
<1>4. a * b # 0
  BY <1>1, <1>3
<1>5. a * s + r \in Nat /\ a * s + r < a * b
  BY <1>1, <1>3
<1>6. a * (b * y + s) = (a * b) * y + a * s
  BY <1>2
<1>7. v = (a * b) * y + (a * s + r)
  BY <1>1, <1>2, <1>6
<1> DEFINE p == a * b
           z == a * s + r
<1>8. p \in Nat \ {0} /\ z \in Nat /\ z < p /\ v = p * y + z
  BY <1>3, <1>4, <1>5, <1>7
<1> HIDE DEF p, z
<1>9. v \div p = y /\ v % p = z
  BY <1>2, <1>8, Quotient
<1>10. z = r + a * s
  BY <1>1, <1>3 DEF z
<1> QED BY <1>9, <1>10 DEF p, x, y, r, s

-----------------------------------------------------------------------------
(* Numbers in bytes.                                                       *)

(* The number of some of the bytes, from the one of a place fewer.         *)
Value(bytes, s, g) == IF s = {} THEN 0 ELSE bytes[Min(s)] + ByteValues * g[s \ {Min(s)}]

(* The fold that computes the number has a value for every set of places.  *)
LEMMA NumberFolds ==
  ASSUME NEW bytes \in Seq(Nat)
  PROVE  \E g : /\ Number(bytes) = g[DOMAIN bytes]
               /\ \A s \in SUBSET DOMAIN bytes : g[s] = Value(bytes, s, g)
<1> DEFINE D == DOMAIN bytes
           iter == CHOOSE g : g = [s \in SUBSET D |-> Value(bytes, s, g)]
           Small(k) == {s \in SUBSET D : Cardinality(s) <= k}
<1>1. Number(bytes) = iter[D]
  BY DEF Number, FoldRight, MapThenFoldSet, Value
<1>2. D \subseteq Nat /\ IsFiniteSet(D) /\ \A x \in D : bytes[x] \in Nat
  BY FS_Interval
<1>3. \A s \in SUBSET D :
        /\ IsFiniteSet(s) /\ Cardinality(s) \in Nat
        /\ s # {} => /\ Min(s) \in s /\ s \ {Min(s)} \in SUBSET D
                     /\ Cardinality(s) # 0
                     /\ Cardinality(s \ {Min(s)}) = Cardinality(s) - 1
  <2> SUFFICES ASSUME NEW s \in SUBSET D
               PROVE  /\ IsFiniteSet(s) /\ Cardinality(s) \in Nat
                      /\ s # {} => /\ Min(s) \in s /\ s \ {Min(s)} \in SUBSET D
                                   /\ Cardinality(s) # 0
                                   /\ Cardinality(s \ {Min(s)}) = Cardinality(s) - 1
    OBVIOUS
  <2> HIDE DEF D
  <2>1. IsFiniteSet(s) /\ Cardinality(s) \in Nat
    BY <1>2, FS_Subset, FS_CardinalityType
  <2>2. ASSUME s # {} PROVE Min(s) \in s
    <3>1. \E x \in s : \A y \in s : x <= y
      BY <1>2, <2>2, LeastNat
    <3> QED BY <3>1 DEF Min
  <2>3. ASSUME s # {} PROVE Cardinality(s) # 0
    BY <2>1, <2>3, FS_EmptySet
  <2>4. ASSUME s # {} PROVE Cardinality(s \ {Min(s)}) = Cardinality(s) - 1
    BY <2>1, <2>2, <2>4, FS_RemoveElement
  <2> QED BY <2>1, <2>2, <2>3, <2>4
<1> HIDE DEF D
<1>4. \E g : g = [s \in SUBSET D |-> Value(bytes, s, g)]
  <2> DEFINE Right(g, k) == \A s \in Small(k) : g[s] = Value(bytes, s, g)
             Bad == {k \in Nat : ~\E g : Right(g, k)}
  <2>1. Bad = {}
    <3> SUFFICES ASSUME Bad # {} PROVE FALSE
      OBVIOUS
    <3>1. PICK k \in Bad : \A j \in Bad : k <= j
      <4>1. Bad \subseteq Nat
        OBVIOUS
      <4> HIDE DEF Bad
      <4> QED BY <4>1, LeastNat
    <3>2. k # 0
      <4> DEFINE g == [s \in SUBSET D |-> 0]
      <4>1. ASSUME NEW s \in Small(0) PROVE s = {}
        <5>1. s \in SUBSET D /\ Cardinality(s) <= 0
          OBVIOUS
        <5>2. Cardinality(s) \in Nat
          BY <1>3, <5>1
        <5>3. Cardinality(s) = 0
          BY <5>1, <5>2
        <5> QED BY <1>3, <5>1, <5>3
      <4>2. {} \in SUBSET D
        OBVIOUS
      <4>3. Right(g, 0)
        BY <4>1, <4>2 DEF Value
      <4> HIDE DEF g
      <4> QED BY <4>3
    <3>3. k - 1 \in Nat /\ k - 1 \notin Bad
      <4>1. k \in Nat /\ \A j \in Bad : j \in Nat /\ k <= j
        BY <3>1
      <4> HIDE DEF Bad
      <4> QED BY <3>2, <4>1
    <3>4. PICK g : Right(g, k - 1)
      BY <3>3
    <3> DEFINE h == [s \in SUBSET D |-> IF s \in Small(k - 1) THEN g[s] ELSE Value(bytes, s, g)]
    <3>5. ASSUME NEW s \in Small(k) PROVE h[s] = Value(bytes, s, h)
      <4>1. s \in SUBSET D /\ h[s] = Value(bytes, s, g)
        BY <3>4
      <4>2. CASE s = {}
        BY <4>1, <4>2 DEF Value
      <4>3. CASE s # {}
        <5>1. s \ {Min(s)} \in SUBSET D /\ s \ {Min(s)} \in Small(k - 1)
          <6>1. PICK c \in Nat : c = Cardinality(s) /\ c <= k
            BY <1>3, <3>5, <4>1
          <6>2. PICK r : r = s \ {Min(s)}
            OBVIOUS
          <6>3. r \in SUBSET D /\ Cardinality(r) = c - 1
            BY <1>3, <4>1, <4>3, <6>1, <6>2
          <6>4. k \in Nat /\ c - 1 <= k - 1
            BY <3>3, <6>1
          <6> QED BY <6>2, <6>3, <6>4
        <5>2. h[s \ {Min(s)}] = g[s \ {Min(s)}]
          BY <5>1
        <5> HIDE DEF h
        <5> QED BY <4>1, <4>3, <5>2 DEF Value
      <4> QED BY <4>2, <4>3
    <3> HIDE DEF h
    <3>6. Right(h, k)
      BY <3>5
    <3> QED BY <3>1, <3>6
  <2> DEFINE n == Cardinality(D)
  <2>2. n \in Nat
    BY <1>3
  <2>3. PICK g : Right(g, n)
    BY <2>1, <2>2
  <2>4. \A s \in SUBSET D : s \in Small(n)
    BY <1>2, FS_Subset
  <2> DEFINE h == [s \in SUBSET D |-> g[s]]
  <2>5. ASSUME NEW s \in SUBSET D PROVE g[s] = Value(bytes, s, h)
    <3>1. g[s] = Value(bytes, s, g)
      BY <2>3, <2>4
    <3>2. s # {} => h[s \ {Min(s)}] = g[s \ {Min(s)}]
      BY <1>3
    <3> HIDE DEF h
    <3> QED BY <3>1, <3>2 DEF Value
  <2>6. h = [s \in SUBSET D |-> Value(bytes, s, h)]
    <3>1. \A s \in SUBSET D : g[s] = Value(bytes, s, h)
      BY <2>5
    <3>2. h = [s \in SUBSET D |-> g[s]]
      OBVIOUS
    <3> HIDE DEF h
    <3> QED BY <3>1, <3>2
  <2> QED BY <2>6
<1>5. iter = [s \in SUBSET D |-> Value(bytes, s, iter)]
  BY <1>4
<1> HIDE DEF iter
<1>6. \A s \in SUBSET D : iter[s] = Value(bytes, s, iter)
  BY <1>5
<1> QED BY <1>1, <1>6 DEF D

(* Powers of a width are positive. *)
LEMMA Powers ==
  ASSUME NEW w \in Widths, NEW k \in 0 .. w
  PROVE  ByteValues ^ k \in Nat \ {0}
<1> DEFINE Bad == {i \in 0 .. w : ByteValues ^ i \notin Nat \ {0}}
<1>1. w \in Nat \ {0} /\ ByteValues \in Nat \ {0} /\ ByteValues ^ 0 = 1
  BY WidthsAssumption
<1>2. Bad = {}
  <2> SUFFICES ASSUME Bad # {} PROVE FALSE
    OBVIOUS
  <2>1. PICK i \in Bad : \A j \in Bad : i <= j
    <3>1. Bad \subseteq Nat
      BY <1>1
    <3> HIDE DEF Bad
    <3> QED BY <3>1, LeastNat
  <2>2. i \in 0 .. w /\ ByteValues ^ i \notin Nat \ {0}
    OBVIOUS
  <2>3. i # 0
    BY <1>1, <2>2
  <2>4. i - 1 \in 0 .. w /\ i \in 1 .. w /\ i - 1 < i
    BY <1>1, <2>2, <2>3
  <2>5. ByteValues ^ (i - 1) \in Nat \ {0}
    BY <1>1, <2>1, <2>4
  <2>6. ByteValues ^ i = ByteValues * ByteValues ^ (i - 1)
    BY <2>4, WidthsAssumption
  <2>7. \A a, b \in Nat \ {0} : a * b \in Nat \ {0}
    OBVIOUS
  <2>8. ByteValues * ByteValues ^ (i - 1) \in Nat \ {0}
    BY <1>1, <2>5, <2>7
  <2> QED BY <2>2, <2>6, <2>8
<1> QED BY <1>2

(* So the number of bytes is found from the last one on. *)
LEMMA NumberFrom ==
  ASSUME NEW bytes \in Seq(Nat)
  PROVE  \E h : /\ Number(bytes) = h[1] /\ h[Len(bytes) + 1] = 0
                /\ \A k \in 1 .. Len(bytes) : h[k] = bytes[k] + ByteValues * h[k + 1]
<1> DEFINE n == Len(bytes)
<1>1. n \in Nat /\ DOMAIN bytes = 1 .. n
  OBVIOUS
<1> HIDE DEF n
<1>2. PICK g : /\ Number(bytes) = g[1 .. n]
               /\ \A s \in SUBSET (1 .. n) : g[s] = Value(bytes, s, g)
  BY <1>1, NumberFolds
<1> DEFINE h == [k \in 1 .. n + 1 |-> g[k .. n]]
<1>3. ASSUME NEW k \in 1 .. n
      PROVE  h[k] = bytes[k] + ByteValues * h[k + 1]
  <2>1. k \in k .. n /\ \A j \in k .. n : k <= j
    BY <1>1
  <2>2. Min(k .. n) = k
    <3>1. \A i \in k .. n : (\A j \in k .. n : i <= j) => i = k
      BY <1>1, <2>1
    <3> QED BY <2>1, <3>1 DEF Min
  <2>3. (k .. n) \ {k} = k + 1 .. n
    BY <1>1
  <2>4. k .. n \in SUBSET (1 .. n) /\ k .. n # {}
    <3>1. \A j \in k .. n : j \in 1 .. n
      BY <1>1
    <3> QED BY <2>1, <3>1
  <2>5. g[k .. n] = bytes[k] + ByteValues * g[k + 1 .. n]
    BY <1>2, <2>2, <2>3, <2>4 DEF Value
  <2>6. k \in 1 .. n + 1 /\ k + 1 \in 1 .. n + 1
    BY <1>1
  <2> QED BY <2>5, <2>6
<1>4. h[n + 1] = 0
  <2>1. n + 1 .. n = {} /\ n + 1 \in 1 .. n + 1
    BY <1>1
  <2>2. g[{}] = 0
    BY <1>2 DEF Value
  <2> QED BY <2>1, <2>2
<1>5. h[1] = Number(bytes)
  BY <1>1, <1>2
<1> HIDE DEF h
<1> QED BY <1>3, <1>4, <1>5 DEF n

LEMMA NumberType ==
  ASSUME NEW bytes \in Seq(Nat)
  PROVE  Number(bytes) \in Nat
<1> DEFINE n == Len(bytes)
<1>1. n \in Nat /\ \A k \in 1 .. n : bytes[k] \in Nat
  OBVIOUS
<1> HIDE DEF n
<1>2. PICK h : /\ Number(bytes) = h[1] /\ h[n + 1] = 0
               /\ \A k \in 1 .. n : h[k] = bytes[k] + ByteValues * h[k + 1]
  BY NumberFrom DEF n
<1> DEFINE Bad == {d \in 0 .. n : h[n + 1 - d] \notin Nat}
<1>3. Bad = {}
  <2> SUFFICES ASSUME Bad # {} PROVE FALSE
    OBVIOUS
  <2>1. PICK d \in Bad : \A j \in Bad : d <= j
    <3>1. Bad \subseteq Nat
      BY <1>1
    <3> HIDE DEF Bad
    <3> QED BY <3>1, LeastNat
  <2>2. d \in 0 .. n /\ d # 0
    BY <1>1, <1>2
  <2> DEFINE k == n + 1 - d
  <2>3. k \in 1 .. n /\ k + 1 = n + 1 - (d - 1) /\ d - 1 \in 0 .. n /\ d - 1 < d
    BY <1>1, <2>2
  <2>4. d - 1 \notin Bad
    BY <2>1, <2>3
  <2>5. h[k + 1] \in Nat
    BY <2>3, <2>4
  <2>6. \A a, b, c \in Nat : a + b * c \in Nat
    OBVIOUS
  <2>7. h[k] \in Nat
    <3> HIDE DEF k
    <3>1. bytes[k] \in Nat /\ ByteValues \in Nat
      BY <1>1, <2>3, WidthsAssumption
    <3>2. h[k] = bytes[k] + ByteValues * h[k + 1]
      BY <1>2, <2>3
    <3> QED BY <2>5, <2>6, <3>1, <3>2
  <2> QED BY <2>1, <2>7
<1>4. n \in 0 .. n /\ n + 1 - n = 1
  BY <1>1
<1> QED BY <1>2, <1>3, <1>4

LEMMA BytesType ==
  ASSUME NEW v \in Nat, NEW w \in Widths
  PROVE  Bytes(v, w) \in Seq(Nat) /\ Len(Bytes(v, w)) = w
<1>1. w \in Nat
  BY WidthsAssumption
<1>2. ASSUME NEW k \in 1 .. w PROVE (v \div ByteValues ^ (k - 1)) % ByteValues \in Nat
  <2>1. ByteValues ^ (k - 1) \in Nat \ {0} /\ ByteValues \in Nat \ {0}
    <3>1. k - 1 \in 0 .. w
      BY <1>1
    <3> QED BY <3>1, Powers, WidthsAssumption
  <2>2. v \div ByteValues ^ (k - 1) \in Nat
    BY <2>1
  <2> QED BY <2>1, <2>2
<1> QED BY <1>1, <1>2 DEF Bytes

(* The number of the bytes a field was written with is the value, as far   *)
(* as the field holds it.                                                  *)
LEMMA NumberOfBytes ==
  ASSUME NEW v \in Nat, NEW w \in Widths
  PROVE  Number(Bytes(v, w)) = Wrapped(v, w)
<1> DEFINE bytes == Bytes(v, w)
           P(k) == ByteValues ^ k
<1>1. w \in Nat \ {0} /\ ByteValues \in Nat \ {0}
  BY WidthsAssumption
<1>2. bytes \in Seq(Nat) /\ Len(bytes) = w
  BY BytesType
<1>3. \A k \in 1 .. w : bytes[k] = (v \div P(k - 1)) % ByteValues
  BY DEF Bytes
<1>4. /\ \A k \in 0 .. w : P(k) \in Nat \ {0}
      /\ P(0) = 1 /\ \A k \in 1 .. w : P(k) = ByteValues * P(k - 1)
  BY Powers, WidthsAssumption
<1> HIDE DEF bytes, P
<1>5. PICK h : /\ Number(bytes) = h[1] /\ h[w + 1] = 0
               /\ \A k \in 1 .. w : h[k] = bytes[k] + ByteValues * h[k + 1]
  BY <1>2, NumberFrom
<1> DEFINE Right(d) == h[w + 1 - d] = (v \div P(w - d)) % P(d)
           Bad == {d \in 0 .. w : ~Right(d)}
<1>6. Bad = {}
  <2> SUFFICES ASSUME Bad # {} PROVE FALSE
    OBVIOUS
  <2>1. PICK d \in Bad : \A j \in Bad : d <= j
    <3>1. Bad \subseteq Nat
      BY <1>1
    <3> HIDE DEF Bad
    <3> QED BY <3>1, LeastNat
  <2>2. d \in 0 .. w /\ ~Right(d)
    OBVIOUS
  <2>3. d # 0
    <3>1. v \div P(w) \in Nat
      <4>1. PICK p \in Nat \ {0} : p = P(w)
        BY <1>1, <1>4
      <4>2. v \div p \in Nat
        OBVIOUS
      <4> QED BY <4>1, <4>2
    <3>2. \A x \in Nat : x % 1 = 0
      OBVIOUS
    <3>3. (v \div P(w - 0)) % P(0) = 0 /\ h[w + 1 - 0] = 0
      BY <1>1, <1>4, <1>5, <3>1, <3>2
    <3> QED BY <2>2, <3>3
  <2> DEFINE k == w + 1 - d
  <2>4. /\ k \in 1 .. w /\ k + 1 = w + 1 - (d - 1) /\ d - 1 \in 0 .. w /\ d - 1 < d
        /\ k - 1 = w - d /\ w - (d - 1) = k /\ k \in 0 .. w /\ k - 1 \in 0 .. w /\ d \in 1 .. w
    BY <1>1, <2>2, <2>3
  <2>5. Right(d - 1)
    BY <2>1, <2>4
  <2> HIDE DEF k
  <2>6. h[k + 1] = (v \div P(k)) % P(d - 1)
    BY <2>4, <2>5
  <2> DEFINE x == v \div P(k - 1)
  <2>7. x \in Nat /\ v \div P(k) = x \div ByteValues
    <3>1. P(k - 1) \in Nat \ {0} /\ P(k) = ByteValues * P(k - 1)
      BY <1>4, <2>4
    <3>2. PICK p \in Nat \ {0} : p = P(k - 1)
      BY <3>1
    <3>3. (v \div p) \div ByteValues = v \div (p * ByteValues)
      BY <1>1, <3>2, Quotients
    <3>4. p * ByteValues = ByteValues * p
      BY <1>1, <3>2
    <3> QED BY <3>1, <3>2, <3>3, <3>4
  <2> HIDE DEF x
  <2>8. h[k] = (x % ByteValues) + ByteValues * ((x \div ByteValues) % P(d - 1))
    BY <1>3, <1>5, <2>4, <2>6, <2>7 DEF x
  <2>9. P(d) = ByteValues * P(d - 1) /\ P(d - 1) \in Nat \ {0}
    BY <1>4, <2>4
  <2>10. x % P(d) = (x % ByteValues) + ByteValues * ((x \div ByteValues) % P(d - 1))
    <3>1. PICK p \in Nat \ {0} : p = P(d - 1)
      BY <2>9
    <3>2. x % (ByteValues * p) = (x % ByteValues) + ByteValues * ((x \div ByteValues) % p)
      BY <1>1, <2>7, Quotients
    <3> QED BY <2>9, <3>1, <3>2
  <2>11. h[k] = x % P(d)
    BY <2>8, <2>10
  <2> QED BY <2>2, <2>4, <2>11 DEF x, k
<1>7. Right(w)
  <2>1. w \in 0 .. w
    BY <1>1
  <2> QED BY <1>6, <2>1
<1>8. v \div P(0) = v
  BY <1>4
<1>9. w + 1 - w = 1 /\ w - w = 0
  BY <1>1
<1>10. h[1] = v % P(w)
  BY <1>7, <1>8, <1>9
<1> QED BY <1>5, <1>10 DEF Wrapped, bytes, P

LEMMA NumberOfValue ==
  ASSUME NEW w \in Widths, NEW v \in 0 .. ByteValues ^ w - 1
  PROVE  Number(Bytes(v, w)) = v
<1>1. w \in Nat /\ w \in 0 .. w
  BY WidthsAssumption
<1>2. ByteValues ^ w \in Nat \ {0}
  BY <1>1, Powers
<1>3. v \in Nat /\ v % ByteValues ^ w = v
  BY <1>2
<1> QED BY <1>3, NumberOfBytes DEF Wrapped

(* A byte is the number of itself. *)
LEMMA NumberOfByte == ASSUME NEW x \in Nat PROVE Number(<<x>>) = x
<1>1. <<x>> \in Seq(Nat) /\ Len(<<x>>) = 1 /\ <<x>>[1] = x
  OBVIOUS
<1>2. PICK h : /\ Number(<<x>>) = h[1] /\ h[1 + 1] = 0
               /\ \A k \in 1 .. 1 : h[k] = <<x>>[k] + ByteValues * h[k + 1]
  BY <1>1, NumberFrom
<1>3. h[1] = x + ByteValues * 0
  BY <1>1, <1>2
<1> QED BY <1>2, <1>3, WidthsAssumption

-----------------------------------------------------------------------------
(* Joined sequences.                                                       *)

(* Joining sequences: the recursive function that does it has a value for  *)
(* every length.                                                           *)
LEMMA FlattenFolds ==
  ASSUME NEW seqs \in Seq(Seq(Nat))
  PROVE  \E f : /\ FlattenSeq(seqs) = IF seqs = <<>> THEN <<>> ELSE f[Len(seqs)]
               /\ \A i \in 1 .. Len(seqs) :
                    f[i] = IF i = 1 THEN seqs[i] ELSE f[i - 1] \o seqs[i]
<1> DEFINE n == Len(seqs)
           Joined(i, g) == IF i = 1 THEN seqs[i] ELSE g[i - 1] \o seqs[i]
           flatten == CHOOSE g : g = [i \in 1 .. n |-> Joined(i, g)]
<1>1. FlattenSeq(seqs) = IF n = 0 THEN seqs ELSE flatten[n]
  BY DEF FlattenSeq
<1>2. n \in Nat /\ \A i \in 1 .. n : seqs[i] \in Seq(Nat)
  OBVIOUS
<1>3. n = 0 <=> seqs = <<>>
  OBVIOUS
<1> HIDE DEF n
<1>4. \E g : g = [i \in 1 .. n |-> Joined(i, g)]
  <2> DEFINE Right(g, k) == \A i \in 1 .. n : i <= k => g[i] = Joined(i, g)
             Bad == {k \in Nat : ~\E g : Right(g, k)}
  <2>1. Bad = {}
    <3> SUFFICES ASSUME Bad # {} PROVE FALSE
      OBVIOUS
    <3>1. PICK k \in Bad : \A j \in Bad : k <= j
      <4>1. Bad \subseteq Nat
        OBVIOUS
      <4> HIDE DEF Bad
      <4> QED BY <4>1, LeastNat
    <3>2. k # 0
      BY <1>2
    <3>3. k - 1 \in Nat /\ k - 1 \notin Bad
      <4>1. k \in Nat /\ \A j \in Bad : j \in Nat /\ k <= j
        BY <3>1
      <4> HIDE DEF Bad
      <4> QED BY <3>2, <4>1
    <3>4. PICK g : Right(g, k - 1)
      BY <3>3
    <3> DEFINE h == [i \in 1 .. n |-> IF i <= k - 1 THEN g[i] ELSE Joined(i, g)]
    <3>5. ASSUME NEW i \in 1 .. n, i <= k PROVE h[i] = Joined(i, h)
      <4>1. h[i] = Joined(i, g)
        BY <3>4
      <4>2. i # 1 => h[i - 1] = g[i - 1]
        BY <1>2, <3>3, <3>5
      <4> HIDE DEF h
      <4> QED BY <4>1, <4>2
    <3> HIDE DEF h
    <3>6. Right(h, k)
      BY <3>5
    <3> QED BY <3>1, <3>6
  <2>2. PICK g : Right(g, n)
    BY <1>2, <2>1
  <2> DEFINE h == [i \in 1 .. n |-> g[i]]
  <2>3. \A i \in 1 .. n : g[i] = Joined(i, h)
    BY <1>2, <2>2
  <2>4. h = [i \in 1 .. n |-> Joined(i, h)]
    <3>1. h = [i \in 1 .. n |-> g[i]]
      OBVIOUS
    <3> HIDE DEF h
    <3> QED BY <2>3, <3>1
  <2> QED BY <2>4
<1>5. flatten = [i \in 1 .. n |-> Joined(i, flatten)]
  BY <1>4
<1> HIDE DEF flatten
<1>6. \A i \in 1 .. n : flatten[i] = Joined(i, flatten)
  BY <1>5
<1> QED BY <1>1, <1>3, <1>6 DEF n

LEMMA FlattenType ==
  ASSUME NEW seqs \in Seq(Seq(Nat))
  PROVE  FlattenSeq(seqs) \in Seq(Nat)
<1>1. PICK f : /\ FlattenSeq(seqs) = IF seqs = <<>> THEN <<>> ELSE f[Len(seqs)]
               /\ \A i \in 1 .. Len(seqs) :
                    f[i] = IF i = 1 THEN seqs[i] ELSE f[i - 1] \o seqs[i]
  BY FlattenFolds
<1>2. Len(seqs) \in Nat /\ \A i \in 1 .. Len(seqs) : seqs[i] \in Seq(Nat)
  OBVIOUS
<1> DEFINE Wrong == {i \in 1 .. Len(seqs) : f[i] \notin Seq(Nat)}
<1>3. Wrong = {}
  <2> SUFFICES ASSUME Wrong # {} PROVE FALSE
    OBVIOUS
  <2>1. PICK i \in Wrong : \A j \in Wrong : i <= j
    <3>1. Wrong \subseteq Nat
      BY <1>2
    <3> HIDE DEF Wrong
    <3> QED BY <3>1, LeastNat
  <2>2. i \in 1 .. Len(seqs) /\ f[i] \notin Seq(Nat) /\ i # 1
    BY <1>1, <1>2
  <2>3. i - 1 \in 1 .. Len(seqs) /\ i - 1 < i
    BY <1>2, <2>2
  <2>4. i - 1 \notin Wrong
    BY <1>2, <2>1, <2>3
  <2>5. f[i - 1] \in Seq(Nat) /\ seqs[i] \in Seq(Nat) /\ f[i] = f[i - 1] \o seqs[i]
    BY <1>1, <1>2, <2>2, <2>3, <2>4
  <2> QED BY <2>2, <2>5
<1>4. CASE seqs = <<>>
  BY <1>1, <1>4
<1>5. CASE seqs # <<>>
  <2>1. Len(seqs) \in 1 .. Len(seqs)
    BY <1>2, <1>5
  <2>2. f[Len(seqs)] \in Seq(Nat)
    BY <1>3, <2>1
  <2> QED BY <1>1, <1>5, <2>2
<1> QED BY <1>4, <1>5

LEMMA SameSequence ==
  ASSUME NEW T, NEW s \in Seq(T), NEW t \in Seq(T), Len(s) = Len(t),
         \A i \in 1 .. Len(s) : s[i] = t[i]
  PROVE  s = t
  OBVIOUS

LEMMA JoinsAre ==
  ASSUME NEW T, NEW a \in Seq(T), NEW b \in Seq(T), NEW c \in Seq(T)
  PROVE  (a \o b) \o c = a \o (b \o c)
<1> DEFINE x == (a \o b) \o c
           y == a \o (b \o c)
<1>1. x \in Seq(T) /\ y \in Seq(T) /\ Len(x) = Len(y)
  OBVIOUS
<1>2. \A i \in 1 .. Len(x) : x[i] = y[i]
  OBVIOUS
<1> HIDE DEF x, y
<1>3. x = y
  BY <1>1, <1>2, SameSequence
<1> QED BY <1>3 DEF x, y

LEMMA JoinAssociates == \A a, b, c \in Seq(Nat) : (a \o b) \o c = a \o (b \o c)
  BY JoinsAre

(* What is joined begins with the first sequence. *)
LEMMA FlattenFirst ==
  ASSUME NEW seqs \in Seq(Seq(Nat)), seqs # <<>>
  PROVE  FlattenSeq(seqs) = seqs[1] \o FlattenSeq(Tail(seqs))
<1> DEFINE n == Len(seqs)
           tail == Tail(seqs)
<1>1. /\ n \in Nat \ {0} /\ \A i \in 1 .. n : seqs[i] \in Seq(Nat)
      /\ tail \in Seq(Seq(Nat)) /\ Len(tail) = n - 1
      /\ \A i \in 1 .. n - 1 : tail[i] = seqs[i + 1]
      /\ (tail = <<>>) <=> (n = 1)
  <2>1. n \in Nat \ {0} /\ \A i \in 1 .. n : seqs[i] \in Seq(Nat)
    OBVIOUS
  <2>2. PICK S : S = Seq(Nat)
    OBVIOUS
  <2>3. seqs \in Seq(S)
    BY <2>2
  <2> DEFINE t == Tail(seqs)
  <2>4. t \in Seq(S) /\ Len(t) = n - 1 /\ \A i \in 1 .. n - 1 : t[i] = seqs[i + 1]
    BY <2>3
  <2> HIDE DEF t
  <2>5. (t = <<>>) <=> (n = 1)
    BY <2>1, <2>4
  <2> QED BY <2>1, <2>2, <2>4, <2>5 DEF t
<1>2. PICK f : /\ FlattenSeq(seqs) = f[n]
               /\ \A i \in 1 .. n : f[i] = IF i = 1 THEN seqs[i] ELSE f[i - 1] \o seqs[i]
  BY FlattenFolds
<1> HIDE DEF n, tail
<1>3. PICK g : /\ FlattenSeq(tail) = IF tail = <<>> THEN <<>> ELSE g[n - 1]
               /\ \A i \in 1 .. n - 1 : g[i] = IF i = 1 THEN tail[i] ELSE g[i - 1] \o tail[i]
  <2>1. \E f2 : /\ FlattenSeq(tail) = IF tail = <<>> THEN <<>> ELSE f2[Len(tail)]
                /\ \A i \in 1 .. Len(tail) :
                     f2[i] = IF i = 1 THEN tail[i] ELSE f2[i - 1] \o tail[i]
    BY <1>1, FlattenFolds
  <2> QED BY <1>1, <2>1
<1> DEFINE Right(i) == g[i] \in Seq(Nat) /\ f[i + 1] = seqs[1] \o g[i]
           Wrong == {i \in 1 .. n - 1 : ~Right(i)}
<1>4. Wrong = {}
  <2> SUFFICES ASSUME Wrong # {} PROVE FALSE
    OBVIOUS
  <2>1. PICK i \in Wrong : \A j \in Wrong : i <= j
    <3> HIDE DEF Right
    <3>1. Wrong \subseteq Nat
      BY <1>1
    <3> HIDE DEF Wrong
    <3> QED BY <3>1, LeastNat
  <2>2. i \in 1 .. n - 1 /\ ~Right(i)
    OBVIOUS
  <2>3. i + 1 \in 1 .. n /\ i + 1 # 1 /\ (i + 1) - 1 = i /\ 1 \in 1 .. n
    BY <1>1, <2>2
  <2>4. f[i + 1] = f[i] \o seqs[i + 1] /\ f[1] = seqs[1] /\ tail[i] = seqs[i + 1]
    BY <1>1, <1>2, <2>2, <2>3
  <2>5. i # 1
    <3>1. g[1] = tail[1] \/ i # 1
      BY <1>3, <2>2
    <3> QED BY <1>1, <2>2, <2>3, <2>4, <3>1
  <2>6. i - 1 \in 1 .. n - 1 /\ i - 1 < i /\ (i - 1) + 1 = i
    BY <1>1, <2>2, <2>5
  <2>7. Right(i - 1)
    <3> HIDE DEF Right
    <3>1. \A j \in 1 .. n - 1 : j < i => Right(j)
      BY <1>1, <2>1
    <3> QED BY <2>6, <3>1
  <2>8. g[i - 1] \in Seq(Nat) /\ f[i] = seqs[1] \o g[i - 1]
    BY <2>6, <2>7
  <2> HIDE DEF Right, Wrong
  <2>9. g[i] = g[i - 1] \o tail[i] /\ tail[i] \in Seq(Nat) /\ seqs[1] \in Seq(Nat)
    BY <1>1, <1>3, <2>2, <2>3, <2>4, <2>5
  <2>10. f[i + 1] = seqs[1] \o (g[i - 1] \o tail[i])
    <3>1. f[i + 1] = (seqs[1] \o g[i - 1]) \o tail[i]
      BY <2>4, <2>8
    <3>2. (seqs[1] \o g[i - 1]) \o tail[i] = seqs[1] \o (g[i - 1] \o tail[i])
      <4>1. PICK b \in Seq(Nat) : b = g[i - 1]
        BY <2>8
      <4>2. PICK c \in Seq(Nat) : c = tail[i]
        BY <2>9
      <4>3. PICK a \in Seq(Nat) : a = seqs[1]
        BY <2>9
      <4>4. (a \o b) \o c = a \o (b \o c)
        BY JoinAssociates
      <4> QED BY <4>1, <4>2, <4>3, <4>4
    <3> QED BY <3>1, <3>2
  <2>11. g[i] \in Seq(Nat)
    BY <2>8, <2>9
  <2> QED BY <2>2, <2>9, <2>10, <2>11 DEF Right
<1>5. CASE n = 1
  <2>1. FlattenSeq(seqs) = seqs[1] /\ FlattenSeq(tail) = <<>> /\ seqs[1] \in Seq(Nat)
    BY <1>1, <1>2, <1>3, <1>5
  <2> QED BY <2>1 DEF tail
<1>6. CASE n # 1
  <2>1. n - 1 \in 1 .. n - 1 /\ (n - 1) + 1 = n
    BY <1>1, <1>6
  <2>2. f[n] = seqs[1] \o g[n - 1]
    BY <1>4, <2>1
  <2> QED BY <1>1, <1>2, <1>3, <1>6, <2>2 DEF tail
<1> QED BY <1>5, <1>6

(* The provers take a \o b apart wherever they see it; as Join(a, b) it    *)
(* stays whole.                                                            *)
Join(a, b) == a \o b

LEMMA JoinType == \A a, b \in Seq(Nat) : Join(a, b) \in Seq(Nat) /\ Len(Join(a, b)) = Len(a) + Len(b)
  BY DEF Join

LEMMA JoinThree == \A a, b, c \in Seq(Nat) : Join(Join(a, b), c) = Join(a, Join(b, c))
  BY JoinAssociates DEF Join

LEMMA JoinNothing == \A a \in Seq(Nat) : Join(<<>>, a) = a /\ Join(a, <<>>) = a
  BY DEF Join

LEMMA JoinFour ==
  ASSUME NEW a \in Seq(Nat), NEW b \in Seq(Nat), NEW c \in Seq(Nat), NEW d \in Seq(Nat)
  PROVE  Join(Join(Join(a, b), c), d) = Join(a, Join(b, Join(c, d)))
<1>1. Join(a, b) \in Seq(Nat) /\ Join(c, d) \in Seq(Nat)
  BY JoinType
<1>2. Join(Join(Join(a, b), c), d) = Join(Join(a, b), Join(c, d))
  BY <1>1, JoinThree
<1>3. Join(Join(a, b), Join(c, d)) = Join(a, Join(b, Join(c, d)))
  BY <1>1, JoinThree
<1> QED BY <1>2, <1>3

(* What of joined sequences lies behind the first k. *)
After(seqs, k) == FlattenSeq(SubSeq(seqs, k + 1, Len(seqs)))

LEMMA FlattenNothing == FlattenSeq(<<>>) = <<>>
<1>1. <<>> \in Seq(Seq(Nat))
  OBVIOUS
<1> QED BY <1>1, FlattenFolds

LEMMA AfterType ==
  ASSUME NEW seqs \in Seq(Seq(Nat))
  PROVE  /\ After(seqs, 0) = FlattenSeq(seqs) /\ After(seqs, Len(seqs)) = <<>>
         /\ \A k \in 0 .. Len(seqs) : After(seqs, k) \in Seq(Nat)
         /\ \A k \in 0 .. Len(seqs) - 1 : After(seqs, k) = Join(seqs[k + 1], After(seqs, k + 1))
<1>1. PICK S : S = Seq(Nat)
  OBVIOUS
<1>2. seqs \in Seq(S) /\ Len(seqs) \in Nat
  BY <1>1
<1>3. SubSeq(seqs, 0 + 1, Len(seqs)) = seqs
  BY <1>2
<1>4. SubSeq(seqs, Len(seqs) + 1, Len(seqs)) = <<>>
  BY <1>2
<1>5. ASSUME NEW k \in 0 .. Len(seqs)
      PROVE  SubSeq(seqs, k + 1, Len(seqs)) \in Seq(S)
  BY <1>2
<1>6. ASSUME NEW k \in 0 .. Len(seqs) - 1
      PROVE  After(seqs, k) = Join(seqs[k + 1], After(seqs, k + 1))
  <2> DEFINE s == SubSeq(seqs, k + 1, Len(seqs))
             t == SubSeq(seqs, (k + 1) + 1, Len(seqs))
  <2>1. s \in Seq(S) /\ s # <<>> /\ s[1] = seqs[k + 1] /\ Tail(s) = t
    <3>1. s \in Seq(S) /\ Len(s) = Len(seqs) - k /\ \A i \in 1 .. Len(seqs) - k : s[i] = seqs[k + i]
      BY <1>2
    <3>2. t \in Seq(S) /\ Len(t) = Len(seqs) - k - 1
          /\ \A i \in 1 .. Len(seqs) - k - 1 : t[i] = seqs[k + 1 + i]
      BY <1>2
    <3> HIDE DEF s, t
    <3>3. Len(s) # 0 /\ s # <<>> /\ s[1] = seqs[k + 1]
      BY <1>2, <3>1
    <3> DEFINE u == Tail(s)
    <3>4. u \in Seq(S) /\ Len(u) = Len(s) - 1 /\ \A i \in 1 .. Len(s) - 1 : u[i] = s[i + 1]
      BY <3>1, <3>3
    <3> HIDE DEF u
    <3>5. Len(u) = Len(t) /\ \A i \in 1 .. Len(u) : u[i] = t[i]
      <4>1. Len(u) = Len(seqs) - k - 1 /\ Len(t) = Len(seqs) - k - 1
        BY <1>2, <3>1, <3>2, <3>4
      <4>2. ASSUME NEW i \in 1 .. Len(u) PROVE u[i] = t[i]
        <5>1. i + 1 \in 1 .. Len(seqs) - k /\ i \in 1 .. Len(seqs) - k - 1
          BY <1>2, <4>1
        <5>2. u[i] = s[i + 1] /\ s[i + 1] = seqs[k + (i + 1)] /\ t[i] = seqs[k + 1 + i]
          BY <3>1, <3>2, <3>4, <4>1, <5>1
        <5>3. k + (i + 1) = k + 1 + i
          BY <1>2, <5>1
        <5> QED BY <5>2, <5>3
      <4> QED BY <4>1, <4>2
    <3>6. u = t
      BY <3>2, <3>4, <3>5, SameSequence
    <3> QED BY <3>1, <3>3, <3>6 DEF u
  <2> HIDE DEF s, t
  <2>2. FlattenSeq(s) = s[1] \o FlattenSeq(Tail(s))
    BY <1>1, <2>1, FlattenFirst
  <2> QED BY <2>1, <2>2 DEF After, Join, s, t
<1>7. \A k \in 0 .. Len(seqs) : After(seqs, k) \in Seq(Nat)
  BY <1>1, <1>5, FlattenType DEF After
<1> QED BY <1>3, <1>4, <1>6, <1>7, FlattenNothing DEF After

-----------------------------------------------------------------------------
(* What of the file f lies behind its first bytes, at of them: t.          *)
Unread(f, at, t) == Len(f) = at + Len(t) /\ \A i \in 1 .. Len(t) : f[at + i] = t[i]

LEMMA BehindNext ==
  ASSUME NEW f \in Seq(Nat), NEW at \in Nat, NEW a \in Seq(Nat), NEW b \in Seq(Nat),
         Unread(f, at, Join(a, b))
  PROVE  Unread(f, at + Len(a), b) /\ at + Len(a) \in Nat
<1> DEFINE t == Join(a, b)
<1>1. Len(t) = Len(a) + Len(b) /\ \A i \in 1 .. Len(b) : t[Len(a) + i] = b[i]
  BY DEF Join
<1>2. Len(a) \in Nat /\ Len(b) \in Nat
  OBVIOUS
<1> HIDE DEF t
<1>3. Len(f) = at + Len(t) /\ \A i \in 1 .. Len(t) : f[at + i] = t[i]
  BY DEF Unread, t
<1>4. ASSUME NEW i \in 1 .. Len(b) PROVE f[(at + Len(a)) + i] = b[i]
  <2>1. Len(a) + i \in 1 .. Len(t) /\ at + (Len(a) + i) = (at + Len(a)) + i
    BY <1>1, <1>2
  <2> QED BY <1>1, <1>3, <2>1
<1>5. Len(f) = (at + Len(a)) + Len(b)
  BY <1>1, <1>2, <1>3
<1>6. Unread(f, at + Len(a), b)
  BY <1>4, <1>5, Zenon DEF Unread
<1> QED BY <1>2, <1>6

LEMMA Shifted == \A p, n \in Nat : \A i \in 1 .. n : p + i \in 1 .. p + n
  OBVIOUS

LEMMA AheadIs ==
  ASSUME file \in Seq(Nat), load.at \in Nat,
         NEW a \in Seq(Nat), NEW b \in Seq(Nat), NEW c \in Seq(Nat),
         Unread(file, load.at, Join(a, Join(b, c)))
  PROVE  Ahead(Len(a), Len(b)) = b
<1>1. Len(a) \in Nat /\ Len(b) \in Nat /\ Len(c) \in Nat /\ Len(file) \in Nat 
  OBVIOUS
<1>2. PICK d \in Seq(Nat) : d = Join(b, c)
  BY JoinType
<1>3. Unread(file, load.at + Len(a), d) /\ load.at + Len(a) \in Nat
  BY <1>2, BehindNext
<1>4. Len(d) = Len(b) + Len(c) /\ \A i \in 1 .. Len(b) : d[i] = b[i]
  BY <1>2 DEF Join
<1>5. ASSUME NEW i \in 1 .. Len(b)
      PROVE  /\ load.at + Len(a) + i \in DOMAIN file
             /\ file[load.at + Len(a) + i] = b[i]
  <2>1. i \in 1 .. Len(d)
    BY <1>1, <1>4
  <2>2. load.at + Len(a) + i \in 1 .. Len(file)
    <3>1. Len(file) = (load.at + Len(a)) + Len(d)
      BY <1>3, Zenon DEF Unread
    <3>2. Len(file) = (load.at + Len(a)) + Len(d) /\ Len(d) \in Nat
      BY <3>1
    <3>3. PICK p \in Nat : p = load.at + Len(a)
      BY <1>3
    <3>4. PICK n \in Nat : n = Len(d)
      BY <3>2
    <3>5. Len(file) = p + n /\ i \in 1 .. n
      BY <2>1, <3>2, <3>3, <3>4
    <3>6. p + i \in 1 .. p + n
      BY <3>3, <3>4, <3>5, Shifted
    <3> QED BY <3>3, <3>5, <3>6
  <2>3. file[(load.at + Len(a)) + i] = d[i]
    BY <1>3, <2>1, Zenon DEF Unread
  <2>4. DOMAIN file = 1 .. Len(file)
    OBVIOUS
  <2> QED BY <1>4, <2>2, <2>3, <2>4
<1>6. Ahead(Len(a), Len(b)) = [i \in 1 .. Len(b) |-> b[i]]
  BY <1>5 DEF Ahead
<1>7. b = [i \in 1 .. Len(b) |-> b[i]]
  OBVIOUS
<1> QED BY <1>6, <1>7

-----------------------------------------------------------------------------
(* What the writer makes of the parts of a program.                        *)

(* One element for each of another sequence. *)
LEMMA MapType ==
  ASSUME NEW S, NEW T, NEW s \in Seq(S), NEW f, f \in [DOMAIN s -> T]
  PROVE  f \in Seq(T)
  OBVIOUS

LEMMA Remainder ==
  ASSUME NEW v \in Nat, NEW p \in Nat \ {0}
  PROVE  v % p \in Nat /\ v % p <= v /\ v % p < p /\ v \div p \in Nat
  OBVIOUS

(* What is cut to the number its field holds is a beginning of it. *)
LEMMA FirstType ==
  ASSUME NEW T, NEW s \in Seq(T), NEW w \in Widths
  PROVE  /\ First(s, w) \in Seq(T) /\ Len(First(s, w)) = Wrapped(Len(s), w)
         /\ DOMAIN First(s, w) \subseteq DOMAIN s
<1>1. ByteValues ^ w \in Nat \ {0}
  <2>1. w \in 0 .. w
    BY WidthsAssumption
  <2> QED BY <2>1, Powers
<1> DEFINE m == Wrapped(Len(s), w)
<1>2. m \in Nat /\ m <= Len(s)
  BY <1>1, Remainder DEF Wrapped
<1> HIDE DEF m
<1>3. /\ SubSeq(s, 1, m) \in Seq(T) /\ Len(SubSeq(s, 1, m)) = m
      /\ DOMAIN SubSeq(s, 1, m) \subseteq DOMAIN s
  BY <1>2
<1> QED BY <1>3 DEF First, m

(* Names, types and functions, as the writer puts them. *)
LEMMA NamesType ==
  ASSUME NEW name \in Seq(0 .. ByteValues - 1)
  PROVE  /\ Bytes(Len(name), 1) \in Seq(Nat) /\ Len(Bytes(Len(name), 1)) = 1
         /\ First(name, 1) \in Seq(Nat) /\ Number(Bytes(Len(name), 1)) = Len(First(name, 1))
         /\ WrittenName(name) = Join(Bytes(Len(name), 1), First(name, 1))
         /\ WrittenName(name) \in Seq(Nat) /\ Len(WrittenName(name)) = 1 + Len(First(name, 1))
<1>1. 1 \in Widths /\ Len(name) \in Nat
  BY DEF Widths
<1> DEFINE b == Bytes(Len(name), 1)
           c == First(name, 1)
<1>2. b \in Seq(Nat) /\ Len(b) = 1
  BY <1>1, BytesType
<1>3. name \in Seq(Nat)
  BY WidthsAssumption
<1>4. c \in Seq(Nat) /\ Len(c) = Wrapped(Len(name), 1)
  BY <1>1, <1>3, FirstType
<1>5. Number(b) = Wrapped(Len(name), 1)
  BY <1>1, NumberOfBytes
<1> HIDE DEF b, c
<1>6. Join(b, c) \in Seq(Nat) /\ Len(Join(b, c)) = 1 + Len(c)
  BY <1>2, <1>4, JoinType
<1>7. WrittenName(name) = Join(b, c)
  BY DEF WrittenName, Join, b, c
<1> QED BY <1>2, <1>4, <1>5, <1>6, <1>7 DEF b, c

LEMMA TypeBytes == ASSUME NEW t \in CType PROVE TypeByte(t) \in Nat
<1>1. PICK k \in DOMAIN CTypes : CTypes[k] = t
  BY DEF CType
<1>2. DOMAIN CTypes = 1 .. 12
  BY DEF CTypes
<1> DEFINE place == CHOOSE j \in DOMAIN CTypes : CTypes[j] = t
<1>3. place \in DOMAIN CTypes
  BY <1>1
<1> HIDE DEF place
<1>4. place - 1 \in Nat
  BY <1>2, <1>3
<1> QED BY <1>4 DEF TypeByte, place

CfunType == [symbol : Seq(0 .. ByteValues - 1), rtype : CType, atypes : Seq(CType)]

LEMMA TypesType ==
  ASSUME NEW f \in CfunType
  PROVE  TypesOf(f) \in Seq(Nat) /\ Len(TypesOf(f)) = Wrapped(Len(f.atypes), ShortBytes)
<1> DEFINE s == First(f.atypes, ShortBytes)
<1>1. f.atypes \in Seq(CType) /\ ShortBytes \in Widths
  BY DEF CfunType, Widths
<1>2. /\ s \in Seq(CType) /\ DOMAIN s \subseteq DOMAIN f.atypes
      /\ Len(s) = Wrapped(Len(f.atypes), ShortBytes)
  BY <1>1, FirstType
<1> HIDE DEF s
<1>3. \A k \in DOMAIN s : TypeByte(f.atypes[k]) \in Nat
  <2> SUFFICES ASSUME NEW k \in DOMAIN s PROVE TypeByte(f.atypes[k]) \in Nat
    OBVIOUS
  <2>1. f.atypes[k] \in CType
    BY <1>1, <1>2
  <2> QED BY <2>1, TypeBytes
<1> DEFINE t == [k \in DOMAIN s |-> TypeByte(f.atypes[k])]
<1>4. t \in Seq(Nat) /\ Len(t) = Len(s)
  BY <1>2, <1>3
<1>5. TypesOf(f) = t
  BY DEF TypesOf, s
<1> HIDE DEF t
<1> QED BY <1>2, <1>4, <1>5

(* The fields of a function in their order. *)
LEMMA CfunsType ==
  ASSUME NEW f \in CfunType
  PROVE  /\ WrittenCfun(f) \in Seq(Nat)
         /\ WrittenName(f.symbol) \in Seq(Nat) /\ Bytes(Len(f.atypes), ShortBytes) \in Seq(Nat)
         /\ Len(Bytes(Len(f.atypes), ShortBytes)) = ShortBytes
         /\ TypeByte(f.rtype) \in Nat /\ <<TypeByte(f.rtype)>> \in Seq(Nat)
         /\ WrittenCfun(f) =
              Join(WrittenName(f.symbol),
                   Join(Bytes(Len(f.atypes), ShortBytes), Join(<<TypeByte(f.rtype)>>, TypesOf(f))))
<1>1. /\ f.symbol \in Seq(0 .. ByteValues - 1) /\ f.rtype \in CType /\ f.atypes \in Seq(CType)
      /\ Len(f.atypes) \in Nat
  BY DEF CfunType
<1>2. ShortBytes \in Widths
  BY DEF Widths
<1>3. PICK a \in Seq(Nat) : a = WrittenName(f.symbol)
  BY <1>1, NamesType
<1>4. Bytes(Len(f.atypes), ShortBytes) \in Seq(Nat) /\ Len(Bytes(Len(f.atypes), ShortBytes)) = ShortBytes
  BY <1>1, <1>2, BytesType
<1>5. PICK b \in Seq(Nat) : b = Bytes(Len(f.atypes), ShortBytes)
  BY <1>4
<1>6. TypeByte(f.rtype) \in Nat
  BY <1>1, TypeBytes
<1>7. <<TypeByte(f.rtype)>> \in Seq(Nat)
  BY <1>6
<1>8. PICK c \in Seq(Nat) : c = <<TypeByte(f.rtype)>>
  BY <1>7
<1>9. PICK d \in Seq(Nat) : d = TypesOf(f)
  BY TypesType
<1>10. WrittenCfun(f) = Join(Join(Join(a, b), c), d)
  BY <1>3, <1>5, <1>8, <1>9 DEF WrittenCfun, WrittenTypes, Join
<1>11. Join(Join(Join(a, b), c), d) = Join(a, Join(b, Join(c, d)))
  BY JoinFour
<1>12. Join(a, Join(b, Join(c, d))) \in Seq(Nat)
  BY JoinType
<1> QED BY <1>3, <1>4, <1>5, <1>6, <1>7, <1>8, <1>9, <1>10, <1>11, <1>12

-----------------------------------------------------------------------------
(* The file, in the parts the loader takes.                                *)
ModulesOf(prog) == [k \in DOMAIN prog.libs |-> WrittenModule(prog, k)]
FunctionsOf(prog, k) == [i \in DOMAIN CfunsOf(prog, k) |-> WrittenCfun(CfunsOf(prog, k)[i])]
FieldsOf(s, width) == [k \in DOMAIN s |-> Bytes(s[k], width)]
CodeOf(prog) == FlattenSeq(FieldsOf(prog.code, OpcodeBytes))
Finish(prog) == WrittenConsts(prog) \o CodeOf(prog)

LEMMA ProgramIs ==
  ASSUME NEW prog, IsProgram(prog)
  PROVE  /\ prog.libs \in Seq(Seq(0 .. ByteValues - 1)) /\ Len(prog.libs) \in Nat
         /\ prog.cfuns \in Seq(CfunType) /\ Len(prog.cfuns) \in Nat
         /\ \A k \in Nat : CfunsOf(prog, k) \in Seq(CfunType)
         /\ prog.refs \in Seq(0 .. ByteValues ^ SizeBytes - 1) /\ prog.refs \in Seq(Nat)
         /\ Len(prog.refs) \in 0 .. ByteValues ^ SizeBytes - 1
         /\ prog.data \in Seq(Nat) /\ Len(prog.data) \in 0 .. ByteValues ^ SizeBytes - 1
         /\ prog.code \in Seq(0 .. ByteValues ^ OpcodeBytes - 1) /\ prog.code \in Seq(Nat)
         /\ prog.refs = <<>> => prog.data = <<>>
<1>1. \A w \in Widths : ByteValues ^ w \in Nat \ {0}
  <2>1. \A w \in Widths : w \in 0 .. w
    BY WidthsAssumption
  <2> QED BY <2>1, Powers
<1>2. ByteValues ^ SizeBytes \in Nat \ {0} /\ ByteValues ^ OpcodeBytes \in Nat \ {0}
  BY <1>1 DEF Widths
<1>3. /\ prog.libs \in Seq(Seq(0 .. ByteValues - 1)) /\ Len(prog.libs) \in Nat
      /\ prog.cfuns \in Seq(CfunType) /\ Len(prog.cfuns) \in Nat
      /\ prog.refs = <<>> => prog.data = <<>>
  <2>1. prog.libs \in Seq(Seq(0 .. ByteValues - 1)) /\ prog.cfuns \in Seq(CfunType)
        /\ (prog.refs = <<>> => prog.data = <<>>)
    BY DEF IsProgram, CfunType
  <2>2. \A S : \A s \in Seq(S) : Len(s) \in Nat
    OBVIOUS
  <2> QED BY <2>1, <2>2
<1>4. /\ prog.refs \in Seq(0 .. ByteValues ^ SizeBytes - 1) /\ Len(prog.refs) < ByteValues ^ SizeBytes
      /\ prog.data \in Seq(0 .. ByteValues - 1) /\ Len(prog.data) < ByteValues ^ SizeBytes
      /\ prog.code \in Seq(0 .. ByteValues ^ OpcodeBytes - 1)
  BY DEF IsProgram
<1>5. \A n \in Nat : \A s \in Seq(0 .. n - 1) : s \in Seq(Nat) /\ Len(s) \in Nat
  OBVIOUS
<1>6. prog.refs \in Seq(Nat) /\ prog.data \in Seq(Nat) /\ prog.code \in Seq(Nat)
      /\ Len(prog.refs) \in Nat /\ Len(prog.data) \in Nat
  BY <1>2, <1>4, <1>5, WidthsAssumption
<1>7. Len(prog.refs) \in 0 .. ByteValues ^ SizeBytes - 1 /\ Len(prog.data) \in 0 .. ByteValues ^ SizeBytes - 1
  BY <1>2, <1>4, <1>6
<1>8. \A k \in Nat : CfunsOf(prog, k) \in Seq(CfunType)
  BY <1>3 DEF CfunsOf
<1> QED BY <1>3, <1>4, <1>6, <1>7, <1>8

LEMMA FieldsType ==
  ASSUME NEW s \in Seq(Nat), NEW w \in Widths
  PROVE  /\ FieldsOf(s, w) \in Seq(Seq(Nat)) /\ Len(FieldsOf(s, w)) = Len(s)
         /\ \A k \in 1 .. Len(s) : FieldsOf(s, w)[k] = Bytes(s[k], w) /\ Len(FieldsOf(s, w)[k]) = w
<1> DEFINE f == [k \in DOMAIN s |-> Bytes(s[k], w)]
<1>1. \A k \in DOMAIN s : Bytes(s[k], w) \in Seq(Nat) /\ Len(Bytes(s[k], w)) = w
  BY BytesType
<1>2. f \in [DOMAIN s -> Seq(Nat)] /\ \A k \in DOMAIN s : f[k] = Bytes(s[k], w)
  BY <1>1
<1>3. FieldsOf(s, w) = f
  BY DEF FieldsOf
<1> HIDE DEF f
<1>4. f \in Seq(Seq(Nat))
  BY <1>2, MapType
<1>5. Len(f) = Len(s) /\ DOMAIN s = 1 .. Len(s)
  BY <1>2
<1> QED BY <1>1, <1>2, <1>3, <1>4, <1>5

LEMMA ModuleParts ==
  ASSUME NEW prog, IsProgram(prog), NEW k \in 1 .. Len(prog.libs)
  PROVE  /\ FunctionsOf(prog, k) \in Seq(Seq(Nat)) /\ Len(FunctionsOf(prog, k)) = Len(CfunsOf(prog, k))
         /\ \A i \in 1 .. Len(CfunsOf(prog, k)) :
              FunctionsOf(prog, k)[i] = WrittenCfun(CfunsOf(prog, k)[i])
         /\ prog.libs[k] \in Seq(0 .. ByteValues - 1)
         /\ WrittenName(prog.libs[k]) \in Seq(Nat)
         /\ Bytes(Len(CfunsOf(prog, k)), WordBytes) \in Seq(Nat)
         /\ Len(Bytes(Len(CfunsOf(prog, k)), WordBytes)) = WordBytes
         /\ WrittenModule(prog, k) \in Seq(Nat)
         /\ WrittenModule(prog, k) =
              Join(WrittenName(prog.libs[k]),
                   Join(Bytes(Len(CfunsOf(prog, k)), WordBytes), After(FunctionsOf(prog, k), 0)))
<1> DEFINE cfuns == CfunsOf(prog, k)
           f == [i \in DOMAIN cfuns |-> WrittenCfun(cfuns[i])]
<1>1. k \in Nat /\ prog.libs[k] \in Seq(0 .. ByteValues - 1)
  <2>1. prog.libs \in Seq(Seq(0 .. ByteValues - 1)) /\ Len(prog.libs) \in Nat
    BY ProgramIs
  <2> QED BY <2>1
<1>2. cfuns \in Seq(CfunType)
  BY <1>1, ProgramIs
<1> HIDE DEF cfuns
<1>3. DOMAIN cfuns = 1 .. Len(cfuns) /\ Len(cfuns) \in Nat /\ \A i \in DOMAIN cfuns : cfuns[i] \in CfunType
  BY <1>2
<1>4. f \in [DOMAIN cfuns -> Seq(Nat)] /\ \A i \in DOMAIN cfuns : f[i] = WrittenCfun(cfuns[i])
  BY <1>3, CfunsType
<1>5. FunctionsOf(prog, k) = f
  BY DEF FunctionsOf, cfuns
<1> HIDE DEF f
<1>6. f \in Seq(Seq(Nat))
  BY <1>2, <1>4, MapType
<1>7. Len(f) = Len(cfuns)
  BY <1>3, <1>4
<1>8. PICK a \in Seq(Nat) : a = WrittenName(prog.libs[k])
  BY <1>1, NamesType
<1>9. WordBytes \in Widths
  BY DEF Widths
<1>10. Bytes(Len(cfuns), WordBytes) \in Seq(Nat) /\ Len(Bytes(Len(cfuns), WordBytes)) = WordBytes
  BY <1>3, <1>9, BytesType
<1>11. PICK b \in Seq(Nat) : b = Bytes(Len(cfuns), WordBytes)
  BY <1>10
<1>12. FlattenSeq(f) \in Seq(Nat) /\ After(f, 0) = FlattenSeq(f)
  BY <1>6, FlattenType, AfterType
<1>13. PICK c \in Seq(Nat) : c = FlattenSeq(f)
  BY <1>12
<1>14. WrittenModule(prog, k) = Join(Join(a, b), c)
  <2>1. FlattenSeq([i \in DOMAIN cfuns |-> WrittenCfun(cfuns[i])]) = c
    BY <1>13 DEF f
  <2> QED BY <1>8, <1>11, <2>1 DEF WrittenModule, Join, cfuns
<1>15. Join(Join(a, b), c) = Join(a, Join(b, c))
  BY JoinThree
<1>16. Join(a, Join(b, c)) \in Seq(Nat)
  BY JoinType
<1> QED BY <1>1, <1>3, <1>4, <1>5, <1>6, <1>7, <1>8, <1>10, <1>11, <1>12, <1>13, <1>14, <1>15, <1>16 DEF cfuns

LEMMA FileParts ==
  ASSUME NEW prog, IsProgram(prog)
  PROVE  /\ ModulesOf(prog) \in Seq(Seq(Nat)) /\ Len(ModulesOf(prog)) = Len(prog.libs)
         /\ \A k \in 1 .. Len(prog.libs) : ModulesOf(prog)[k] = WrittenModule(prog, k)
         /\ CodeOf(prog) \in Seq(Nat) /\ Finish(prog) \in Seq(Nat)
         /\ Bytes(Len(prog.libs), WordBytes) \in Seq(Nat)
         /\ Len(Bytes(Len(prog.libs), WordBytes)) = WordBytes
         /\ Written(prog) = Join(Bytes(Len(prog.libs), WordBytes),
                                 Join(After(ModulesOf(prog), 0), Finish(prog)))
<1> DEFINE f == [k \in DOMAIN prog.libs |-> WrittenModule(prog, k)]
<1>1. /\ prog.libs \in Seq(Seq(0 .. ByteValues - 1)) /\ Len(prog.libs) \in Nat
      /\ DOMAIN prog.libs = 1 .. Len(prog.libs)
  <2>1. prog.libs \in Seq(Seq(0 .. ByteValues - 1)) /\ Len(prog.libs) \in Nat
    BY ProgramIs
  <2> QED BY <2>1
<1>2. f \in [DOMAIN prog.libs -> Seq(Nat)] /\ \A k \in DOMAIN prog.libs : f[k] = WrittenModule(prog, k)
  BY <1>1, ModuleParts
<1>3. ModulesOf(prog) = f
  BY DEF ModulesOf
<1> HIDE DEF f
<1>4. f \in Seq(Seq(Nat))
  BY <1>1, <1>2, MapType
<1>5. Len(f) = Len(prog.libs)
  BY <1>1, <1>2
<1>6. WordBytes \in Widths /\ SizeBytes \in Widths /\ OpcodeBytes \in Widths
  BY DEF Widths
<1>7. /\ Bytes(Len(prog.libs), WordBytes) \in Seq(Nat)
      /\ Len(Bytes(Len(prog.libs), WordBytes)) = WordBytes
  BY <1>1, <1>6, BytesType
<1>8. CodeOf(prog) \in Seq(Nat)
  <2>1. FieldsOf(prog.code, OpcodeBytes) \in Seq(Seq(Nat))
    BY <1>6, ProgramIs, FieldsType
  <2> QED BY <2>1, FlattenType DEF CodeOf
<1>9. WrittenConsts(prog) \in Seq(Nat)
  <2>1. FieldsOf(prog.refs, SizeBytes) \in Seq(Seq(Nat))
    BY <1>6, ProgramIs, FieldsType
  <2>2. FlattenSeq([k \in DOMAIN prog.refs |-> Bytes(prog.refs[k], SizeBytes)]) \in Seq(Nat)
    BY <2>1, FlattenType DEF FieldsOf
  <2>3. prog.data \in Seq(Nat) /\ <<>> \in Seq(Nat)
    BY ProgramIs
  <2>4. Bytes(Len(prog.refs), SizeBytes) \in Seq(Nat) /\ Bytes(Len(prog.data), SizeBytes) \in Seq(Nat)
    <3>1. Len(prog.refs) \in Nat /\ Len(prog.data) \in Nat
      BY <2>3, ProgramIs
    <3> QED BY <1>6, <3>1, BytesType
  <2> QED BY <2>2, <2>3, <2>4 DEF WrittenConsts
<1>10. Join(WrittenConsts(prog), CodeOf(prog)) \in Seq(Nat)
  BY <1>8, <1>9, JoinType
<1>11. FlattenSeq(f) \in Seq(Nat) /\ After(f, 0) = FlattenSeq(f)
  BY <1>4, FlattenType, AfterType
<1>12. Written(prog) = Join(Join(Join(Bytes(Len(prog.libs), WordBytes), FlattenSeq(f)),
                                 WrittenConsts(prog)), CodeOf(prog))
  BY DEF Written, CodeOf, FieldsOf, Join, f
<1>13. Written(prog) = Join(Bytes(Len(prog.libs), WordBytes),
                            Join(FlattenSeq(f), Join(WrittenConsts(prog), CodeOf(prog))))
  BY <1>7, <1>8, <1>9, <1>11, <1>12, JoinFour
<1>14. Finish(prog) = Join(WrittenConsts(prog), CodeOf(prog))
  BY DEF Finish, Join
<1> QED BY <1>1, <1>2, <1>3, <1>4, <1>5, <1>7, <1>8, <1>10, <1>11, <1>13, <1>14

(* The constants: nothing is written of the data of a program without      *)
(* references, and it has none.                                            *)
LEMMA ConstParts ==
  ASSUME NEW prog, IsProgram(prog)
  PROVE  /\ Bytes(Len(prog.refs), SizeBytes) \in Seq(Nat) /\ Bytes(Len(prog.data), SizeBytes) \in Seq(Nat)
         /\ Len(Bytes(Len(prog.refs), SizeBytes)) = SizeBytes
         /\ Len(Bytes(Len(prog.data), SizeBytes)) = SizeBytes
         /\ After(FieldsOf(prog.refs, SizeBytes), 0) \in Seq(Nat)
         /\ Finish(prog) = Join(Bytes(Len(prog.refs), SizeBytes),
                              Join(Bytes(Len(prog.data), SizeBytes),
                                   Join(After(FieldsOf(prog.refs, SizeBytes), 0),
                                        Join(prog.data, CodeOf(prog)))))
<1>1. SizeBytes \in Widths
  BY DEF Widths
<1>2. prog.refs \in Seq(Nat) /\ prog.data \in Seq(Nat) /\ Len(prog.refs) \in Nat /\ Len(prog.data) \in Nat
  BY ProgramIs
<1>3. PICK a \in Seq(Nat) : a = Bytes(Len(prog.refs), SizeBytes)
  BY <1>1, <1>2, BytesType
<1>4. PICK b \in Seq(Nat) : b = Bytes(Len(prog.data), SizeBytes)
  BY <1>1, <1>2, BytesType
<1>5. /\ FlattenSeq(FieldsOf(prog.refs, SizeBytes)) \in Seq(Nat)
      /\ After(FieldsOf(prog.refs, SizeBytes), 0) = FlattenSeq(FieldsOf(prog.refs, SizeBytes))
  <2>1. FieldsOf(prog.refs, SizeBytes) \in Seq(Seq(Nat))
    BY <1>1, <1>2, FieldsType
  <2> QED BY <2>1, FlattenType, AfterType
<1>6. PICK c \in Seq(Nat) : c = FlattenSeq(FieldsOf(prog.refs, SizeBytes))
  BY <1>5
<1>7. PICK d \in Seq(Nat) : d = prog.data
  BY <1>2
<1>8. PICK e \in Seq(Nat) : e = CodeOf(prog)
  BY FileParts
<1>9. WrittenConsts(prog) = Join(Join(Join(a, b), c), d)
  <2>1. (IF prog.refs = <<>> THEN <<>> ELSE prog.data) = d
    BY <1>7, ProgramIs
  <2>2. FlattenSeq([k \in DOMAIN prog.refs |-> Bytes(prog.refs[k], SizeBytes)]) = c
    BY <1>6 DEF FieldsOf
  <2> QED BY <1>3, <1>4, <2>1, <2>2 DEF WrittenConsts, Join
<1>10. PICK q \in Seq(Nat) : q = Join(c, d)
  BY JoinType
<1>11. WrittenConsts(prog) = Join(a, Join(b, q))
  BY <1>9, <1>10, JoinFour
<1>12. PICK r \in Seq(Nat) : r = Join(b, q)
  BY JoinType
<1>13. Join(Join(a, r), e) = Join(a, Join(r, e)) /\ Join(r, e) = Join(b, Join(q, e))
       /\ Join(q, e) = Join(c, Join(d, e))
  BY <1>10, <1>12, JoinThree
<1>14. Finish(prog) = Join(WrittenConsts(prog), e)
  BY <1>8 DEF Finish, Join
<1>15. Finish(prog) = Join(a, Join(b, Join(c, Join(d, e))))
  BY <1>11, <1>12, <1>13, <1>14
<1> QED BY <1>1, <1>2, <1>3, <1>4, <1>5, <1>6, <1>7, <1>8, <1>15, BytesType

-----------------------------------------------------------------------------
(* Beginnings of sequences, and changes at their ends.                     *)

ReadCfunType == [symbol : Seq(Nat), acount : Nat, rtype : Nat, atypes : Seq(Nat)]
ModuleType == [name : Seq(Nat), count : Nat, cfuns : Seq(ReadCfunType)]

(* The first k of a sequence. *)
Upto(s, k) == SubSeq(s, 1, k)

LEMMA UptoType ==
  ASSUME NEW T, NEW s \in Seq(T)
  PROVE  /\ Upto(s, 0) = <<>> /\ Upto(s, Len(s)) = s
         /\ \A k \in 0 .. Len(s) : Upto(s, k) \in Seq(T) /\ Len(Upto(s, k)) = k
         /\ \A k \in 0 .. Len(s) - 1 : Upto(s, k + 1) = Append(Upto(s, k), s[k + 1])
<1>1. Upto(s, 0) = <<>>
  BY DEF Upto
<1>2. Upto(s, Len(s)) = s
  BY DEF Upto
<1>3. \A k \in 0 .. Len(s) :
        /\ Upto(s, k) \in Seq(T) /\ Len(Upto(s, k)) = k
        /\ \A i \in 1 .. k : Upto(s, k)[i] = s[i]
  BY DEF Upto
<1>4. ASSUME NEW k \in 0 .. Len(s) - 1
      PROVE  Upto(s, k + 1) = Append(Upto(s, k), s[k + 1])
  <2>1. k \in 0 .. Len(s) /\ k + 1 \in 0 .. Len(s) /\ s[k + 1] \in T
    OBVIOUS
  <2>2. PICK u \in Seq(T) : u = Upto(s, k)
    BY <1>3, <2>1
  <2>3. PICK v \in Seq(T) : v = Upto(s, k + 1)
    BY <1>3, <2>1
  <2>4. Len(u) = k /\ Len(v) = k + 1 /\ (\A i \in 1 .. k : u[i] = s[i]) /\ \A i \in 1 .. k + 1 : v[i] = s[i]
    BY <1>3, <2>1, <2>2, <2>3
  <2> DEFINE w == Append(u, s[k + 1])
  <2>5. /\ w \in Seq(T) /\ Len(w) = k + 1 /\ (\A i \in 1 .. k : w[i] = u[i]) /\ w[k + 1] = s[k + 1]
    BY <2>1, <2>4
  <2> HIDE DEF w
  <2>6. \A i \in 1 .. k + 1 : i \in 1 .. k \/ i = k + 1
    OBVIOUS
  <2>7. \A i \in 1 .. k + 1 : v[i] = w[i]
    BY <2>4, <2>5, <2>6
  <2>8. v = w
    BY <2>4, <2>5, <2>7, SameSequence
  <2> QED BY <2>2, <2>3, <2>8 DEF w
<1> QED BY <1>1, <1>2, <1>3, <1>4

LEMMA LastChanged ==
  ASSUME NEW T, NEW s \in Seq(T), NEW x \in T, NEW y \in T
  PROVE  /\ Append(s, x) \in Seq(T) /\ Len(Append(s, x)) = Len(s) + 1 /\ Append(s, x)[Len(s) + 1] = x
         /\ [Append(s, x) EXCEPT ![Len(s) + 1] = y] = Append(s, y)
<1> DEFINE p == Append(s, x)
           q == Append(s, y)
           n == Len(s)
<1>1. n \in Nat /\ n + 1 \in 1 .. n + 1
  OBVIOUS
<1>2. p \in Seq(T) /\ Len(p) = n + 1 /\ p[n + 1] = x /\ (\A i \in 1 .. n : p[i] = s[i])
  OBVIOUS
<1>3. q \in Seq(T) /\ Len(q) = n + 1 /\ q[n + 1] = y /\ (\A i \in 1 .. n : q[i] = s[i])
  OBVIOUS
<1> HIDE DEF p, q, n
<1>4. n + 1 \in DOMAIN p
  BY <1>1, <1>2
<1> DEFINE r == [p EXCEPT ![n + 1] = y]
<1>5. r \in Seq(T) /\ Len(r) = n + 1 /\ r[n + 1] = y /\ \A i \in DOMAIN p : i # n + 1 => r[i] = p[i]
  BY <1>2, <1>4, SeqUpdate
<1> HIDE DEF r
<1>6. ASSUME NEW i \in 1 .. n + 1 PROVE r[i] = q[i]
  <2>1. i \in DOMAIN p /\ (i \in 1 .. n \/ i = n + 1)
    BY <1>1, <1>2
  <2>2. CASE i = n + 1
    BY <1>3, <1>5, <2>2
  <2>3. CASE i \in 1 .. n
    <3>1. i # n + 1
      BY <1>1, <2>3
    <3> QED BY <1>2, <1>3, <1>5, <2>1, <2>3, <3>1
  <2> QED BY <2>1, <2>2, <2>3
<1>7. r = q
  BY <1>3, <1>5, <1>6, SameSequence
<1> QED BY <1>2, <1>7 DEF p, q, n, r

-----------------------------------------------------------------------------
(* What the loader finds in front of it.                                   *)
LEMMA NextAhead ==
  ASSUME file \in Seq(Nat), load.at \in Nat, NEW b \in Seq(Nat), NEW c \in Seq(Nat),
         Unread(file, load.at, Join(b, c))
  PROVE  Ahead(0, Len(b)) = b /\ NumberAhead(0, Len(b)) = Number(b)
<1>1. <<>> \in Seq(Nat) /\ Len(<<>>) = 0
  OBVIOUS
<1>2. Join(<<>>, Join(b, c)) = Join(b, c)
  BY JoinType, JoinNothing
<1>3. Ahead(Len(<<>>), Len(b)) = b
  BY <1>1, <1>2, AheadIs
<1> QED BY <1>1, <1>3 DEF NumberAhead

LEMMA NameAhead ==
  ASSUME file \in Seq(Nat), load.at \in Nat, NEW name \in Seq(0 .. ByteValues - 1), NEW rest \in Seq(Nat),
         Unread(file, load.at, Join(WrittenName(name), rest))
  PROVE  /\ NumberAhead(0, 1) = Len(First(name, 1))
         /\ Ahead(1, Len(First(name, 1))) = First(name, 1)
<1>1. PICK b \in Seq(Nat) : b = Bytes(Len(name), 1)
  BY NamesType
<1>2. PICK c \in Seq(Nat) : c = First(name, 1)
  BY NamesType
<1>3. Len(b) = 1 /\ Number(b) = Len(c) /\ WrittenName(name) = Join(b, c)
  BY <1>1, <1>2, NamesType
<1>4. Join(c, rest) \in Seq(Nat) /\ Join(Join(b, c), rest) = Join(b, Join(c, rest))
  BY JoinType, JoinThree
<1>5. Unread(file, load.at, Join(b, Join(c, rest)))
  BY <1>3, <1>4
<1>6. NumberAhead(0, Len(b)) = Number(b)
  BY <1>4, <1>5, NextAhead
<1>7. Ahead(Len(b), Len(c)) = c
  BY <1>5, AheadIs
<1> QED BY <1>2, <1>3, <1>6, <1>7

-----------------------------------------------------------------------------
(* What the loader should make of the parts.                               *)
KeptCfun(f) ==
  [symbol |-> First(f.symbol, 1), acount |-> Wrapped(Len(f.atypes), ShortBytes),
   rtype |-> TypeByte(f.rtype), atypes |-> TypesOf(f)]
Untyped(f) == [KeptCfun(f) EXCEPT !.atypes = <<>>]
KeptCfuns(prog, k) == [i \in DOMAIN CfunsOf(prog, k) |-> KeptCfun(CfunsOf(prog, k)[i])]
OpenModule(prog, k, cfuns) ==
  [name |-> First(prog.libs[k], 1), count |-> Len(CfunsOf(prog, k)), cfuns |-> cfuns]
KeptModules(prog) == [k \in DOMAIN prog.libs |-> OpenModule(prog, k, KeptCfuns(prog, k))]

LEMMA KeptCfunType ==
  ASSUME NEW f \in CfunType PROVE KeptCfun(f) \in ReadCfunType /\ Untyped(f) \in ReadCfunType
<1>1. f.symbol \in Seq(0 .. ByteValues - 1)
  BY DEF CfunType
<1>2. First(f.symbol, 1) \in Seq(Nat)
  BY <1>1, NamesType
<1>3. TypesOf(f) \in Seq(Nat) /\ Wrapped(Len(f.atypes), ShortBytes) \in Nat
  <2>1. TypesOf(f) \in Seq(Nat) /\ Len(TypesOf(f)) = Wrapped(Len(f.atypes), ShortBytes)
    BY TypesType
  <2> QED BY <2>1
<1>4. TypeByte(f.rtype) \in Nat
  BY CfunsType
<1>5. KeptCfun(f) \in ReadCfunType
  BY <1>2, <1>3, <1>4 DEF KeptCfun, ReadCfunType
<1>6. <<>> \in Seq(Nat)
  OBVIOUS
<1> QED BY <1>5, <1>6 DEF Untyped, ReadCfunType

LEMMA KeptCfunsType ==
  ASSUME NEW prog, IsProgram(prog), NEW k \in 1 .. Len(prog.libs)
  PROVE  /\ KeptCfuns(prog, k) \in Seq(ReadCfunType)
         /\ Len(KeptCfuns(prog, k)) = Len(CfunsOf(prog, k)) /\ Len(CfunsOf(prog, k)) \in Nat
         /\ \A i \in 1 .. Len(CfunsOf(prog, k)) :
              /\ CfunsOf(prog, k)[i] \in CfunType
              /\ KeptCfuns(prog, k)[i] = KeptCfun(CfunsOf(prog, k)[i])
<1>1. PICK cfuns \in Seq(CfunType) : cfuns = CfunsOf(prog, k)
  BY ProgramIs
<1>2. DOMAIN cfuns = 1 .. Len(cfuns) /\ Len(cfuns) \in Nat /\ \A i \in DOMAIN cfuns : cfuns[i] \in CfunType
  OBVIOUS
<1> DEFINE f == [i \in DOMAIN cfuns |-> KeptCfun(cfuns[i])]
<1>3. f \in [DOMAIN cfuns -> ReadCfunType] /\ \A i \in DOMAIN cfuns : f[i] = KeptCfun(cfuns[i])
  BY <1>2, KeptCfunType
<1>4. KeptCfuns(prog, k) = f
  BY <1>1 DEF KeptCfuns
<1> HIDE DEF f
<1>5. f \in Seq(ReadCfunType)
  BY <1>3, MapType
<1>6. Len(f) = Len(cfuns)
  BY <1>2, <1>3
<1> QED BY <1>1, <1>2, <1>3, <1>4, <1>5, <1>6

LEMMA KeptModulesType ==
  ASSUME NEW prog, IsProgram(prog)
  PROVE  /\ KeptModules(prog) \in Seq(ModuleType) /\ Len(KeptModules(prog)) = Len(prog.libs)
         /\ Len(prog.libs) \in Nat
         /\ \A k \in 1 .. Len(prog.libs) :
              /\ KeptModules(prog)[k] = OpenModule(prog, k, KeptCfuns(prog, k))
              /\ \A c \in Seq(ReadCfunType) : OpenModule(prog, k, c) \in ModuleType
<1>1. DOMAIN prog.libs = 1 .. Len(prog.libs) /\ Len(prog.libs) \in Nat
      /\ \A k \in 1 .. Len(prog.libs) : prog.libs[k] \in Seq(0 .. ByteValues - 1)
  <2>1. prog.libs \in Seq(Seq(0 .. ByteValues - 1))
    BY ProgramIs
  <2> QED BY <2>1
<1>2. ASSUME NEW k \in 1 .. Len(prog.libs), NEW c \in Seq(ReadCfunType)
      PROVE  OpenModule(prog, k, c) \in ModuleType
  <2>1. First(prog.libs[k], 1) \in Seq(Nat)
    BY <1>1, NamesType
  <2>2. Len(CfunsOf(prog, k)) \in Nat
    BY KeptCfunsType
  <2> QED BY <2>1, <2>2 DEF OpenModule, ModuleType
<1> DEFINE f == [k \in DOMAIN prog.libs |-> OpenModule(prog, k, KeptCfuns(prog, k))]
<1>3. \A k \in DOMAIN prog.libs : OpenModule(prog, k, KeptCfuns(prog, k)) \in ModuleType
  BY <1>1, <1>2, KeptCfunsType
<1>4. f \in [DOMAIN prog.libs -> ModuleType]
      /\ \A k \in DOMAIN prog.libs : f[k] = OpenModule(prog, k, KeptCfuns(prog, k))
  BY <1>3
<1>5. KeptModules(prog) = f
  BY DEF KeptModules
<1> HIDE DEF f
<1>6. f \in Seq(ModuleType) /\ Len(f) = Len(prog.libs)
  <2>1. f \in [1 .. Len(prog.libs) -> ModuleType]
    BY <1>1, <1>4
  <2> QED BY <1>1, <2>1
<1> QED BY <1>1, <1>2, <1>4, <1>5, <1>6

LEMMA KeptIs ==
  ASSUME NEW prog
  PROVE  Kept(prog) = [count |-> Len(prog.libs), modules |-> KeptModules(prog), refs |-> prog.refs,
                       data |-> prog.data, dataSize |-> Len(prog.data), code |-> prog.code]
<1>1. ASSUME NEW k \in DOMAIN prog.libs, NEW i \in DOMAIN CfunsOf(prog, k)
      PROVE  prog.cfuns[i] = CfunsOf(prog, k)[i]
  BY DEF CfunsOf
<1>2. ASSUME NEW k \in DOMAIN prog.libs
      PROVE  KeptCfuns(prog, k) =
               [i \in DOMAIN CfunsOf(prog, k) |->
                  LET f == prog.cfuns[i] IN
                  [symbol |-> First(f.symbol, 1), acount |-> Wrapped(Len(f.atypes), ShortBytes),
                   rtype |-> TypeByte(f.rtype), atypes |-> TypesOf(f)]]
  BY <1>1 DEF KeptCfuns, KeptCfun
<1>3. Kept(prog).modules = KeptModules(prog)
  BY <1>2 DEF Kept, KeptModules, OpenModule
<1> QED BY <1>3 DEF Kept

-----------------------------------------------------------------------------
(* The invariant of the loader.                                            *)

Asks == UNCHANGED arenaVars \/ \E n \in Nat : Alloc(ProgramArena, n)

(* What the loader has read, at each of its steps, and what it has not.    *)
Cursor == file \in Seq(Nat) /\ load.at \in Nat /\ load.left = Len(file) - load.at
Remains(t) == Unread(file, load.at, t)

Machine(prog, modules, refs, data, dataSize, code) ==
  [count |-> Len(prog.libs), modules |-> modules, refs |-> refs, data |-> data,
   dataSize |-> dataSize, code |-> code]
Partly(prog, modules) == Machine(prog, modules, <<>>, <<>>, 0, <<>>)

AtHeader(prog) ==
  /\ load.step = "header" /\ Remains(Written(prog))
  /\ vm = [count |-> 0, modules |-> <<>>, refs |-> <<>>, data |-> <<>>, dataSize |-> 0, code |-> <<>>]

BehindModule(prog, m) == Join(After(ModulesOf(prog), m), Finish(prog))
AtModule(prog, m) ==
  /\ load.step = "module" /\ Remains(BehindModule(prog, m))
  /\ vm = Partly(prog, Upto(KeptModules(prog), m))

WithCfuns(prog, m, cfuns) ==
  Partly(prog, Append(Upto(KeptModules(prog), m - 1), OpenModule(prog, m, cfuns)))
BehindCfun(prog, m, i) == Join(After(FunctionsOf(prog, m), i), BehindModule(prog, m))
AtCfun(prog, m, i) ==
  /\ load.step = "cfun" /\ Remains(BehindCfun(prog, m, i))
  /\ vm = WithCfuns(prog, m, Upto(KeptCfuns(prog, m), i))

AtTypes(prog, m, i) ==
  /\ load.step = "atypes" /\ Remains(Join(TypesOf(CfunsOf(prog, m)[i]), BehindCfun(prog, m, i)))
  /\ vm = WithCfuns(prog, m, Append(Upto(KeptCfuns(prog, m), i - 1), Untyped(CfunsOf(prog, m)[i])))

AtData(prog) ==
  /\ load.step = "data" /\ Remains(Join(prog.data, CodeOf(prog)))
  /\ vm = Machine(prog, KeptModules(prog), prog.refs, <<>>, Len(prog.data), <<>>)
AtCode(prog) ==
  /\ load.step = "code" /\ Remains(CodeOf(prog))
  /\ vm = Machine(prog, KeptModules(prog), prog.refs, prog.data, Len(prog.data), <<>>)
AtDone(prog) == load.step = "done" /\ Remains(<<>>) /\ vm = Kept(prog)

Reading(prog) ==
  /\ Cursor
  /\ \/ AtHeader(prog)
     \/ \E m \in 0 .. Len(prog.libs) : AtModule(prog, m)
     \/ \E m \in 1 .. Len(prog.libs) : \E i \in 0 .. Len(CfunsOf(prog, m)) : AtCfun(prog, m, i)
     \/ \E m \in 1 .. Len(prog.libs) : \E i \in 1 .. Len(CfunsOf(prog, m)) : AtTypes(prog, m, i)
     \/ AtData(prog) \/ AtCode(prog) \/ AtDone(prog)

(* What is read is subtracted, and no longer in front. *)
LEMMA Consumed ==
  ASSUME Cursor, UNCHANGED file, NEW a \in Seq(Nat), NEW b \in Seq(Nat), NEW n, n = Len(a), NEW next,
         Remains(Join(a, b)), Consume(n, next)
  PROVE  Cursor' /\ load'.step = next /\ Remains(b)'
<1>1. /\ load' = [at |-> load.at + n, left |-> load.left - n, step |-> next]
      /\ load.at \in Nat /\ load.left = Len(file) - load.at /\ Len(file) \in Nat /\ n \in Nat
  BY DEF Consume, Cursor
<1>2. load'.at = load.at + n /\ load'.left = load.left - n /\ load'.step = next
  BY <1>1
<1>3. load'.at \in Nat /\ load'.left = Len(file') - load'.at
  BY <1>1, <1>2
<1>4. Unread(file, load.at + Len(a), b)
  BY BehindNext DEF Cursor, Remains
<1>5. Unread(file', load'.at, b)
  BY <1>2, <1>4
<1> QED BY <1>2, <1>3, <1>5 DEF Cursor, Remains

(* The parts that are not read, as sequences. *)
LEMMA BehindType ==
  ASSUME NEW prog, IsProgram(prog)
  PROVE  /\ Len(prog.libs) \in Nat
         /\ \A m \in 0 .. Len(prog.libs) : BehindModule(prog, m) \in Seq(Nat)
         /\ \A m \in 0 .. Len(prog.libs) - 1 :
              BehindModule(prog, m) = Join(WrittenModule(prog, m + 1), BehindModule(prog, m + 1))
         /\ BehindModule(prog, Len(prog.libs)) = Finish(prog)
         /\ Written(prog) = Join(Bytes(Len(prog.libs), WordBytes), BehindModule(prog, 0))
<1>1. PICK mods \in Seq(Seq(Nat)) : mods = ModulesOf(prog)
  BY FileParts
<1>2. PICK n \in Nat : n = Len(prog.libs)
  BY ProgramIs
<1>3. PICK ends \in Seq(Nat) : ends = Finish(prog)
  BY FileParts
<1>4. Len(mods) = n /\ \A k \in 1 .. n : mods[k] = WrittenModule(prog, k)
  BY <1>1, <1>2, FileParts
<1>5. /\ After(mods, n) = <<>>
      /\ \A m \in 0 .. n : After(mods, m) \in Seq(Nat)
      /\ \A m \in 0 .. n - 1 : After(mods, m) = Join(mods[m + 1], After(mods, m + 1))
  BY <1>4, AfterType
<1>6. \A m \in 0 .. n : Join(After(mods, m), ends) \in Seq(Nat)
  BY <1>5, JoinType
<1>7. ASSUME NEW m \in 0 .. n - 1
      PROVE  Join(After(mods, m), ends) = Join(WrittenModule(prog, m + 1), Join(After(mods, m + 1), ends))
  <2>1. m + 1 \in 1 .. n /\ m + 1 \in 0 .. n
    OBVIOUS
  <2>2. WrittenModule(prog, m + 1) \in Seq(Nat) /\ mods[m + 1] = WrittenModule(prog, m + 1)
    BY <1>2, <1>4, <2>1, ModuleParts
  <2>3. After(mods, m + 1) \in Seq(Nat)
    BY <1>5, <2>1
  <2>4. After(mods, m) = Join(WrittenModule(prog, m + 1), After(mods, m + 1))
    BY <1>5, <2>2
  <2> QED BY <2>2, <2>3, <2>4, JoinThree
<1>8. Join(<<>>, ends) = ends
  BY JoinNothing
<1>9. Written(prog) = Join(Bytes(Len(prog.libs), WordBytes), Join(After(mods, 0), ends))
  BY <1>1, <1>3, FileParts
<1> QED BY <1>1, <1>2, <1>3, <1>5, <1>6, <1>7, <1>8, <1>9 DEF BehindModule

LEMMA BehindCfunType ==
  ASSUME NEW prog, IsProgram(prog), NEW m \in 1 .. Len(prog.libs)
  PROVE  /\ \A i \in 0 .. Len(CfunsOf(prog, m)) : BehindCfun(prog, m, i) \in Seq(Nat)
         /\ \A i \in 0 .. Len(CfunsOf(prog, m)) - 1 :
              BehindCfun(prog, m, i) = Join(WrittenCfun(CfunsOf(prog, m)[i + 1]), BehindCfun(prog, m, i + 1))
         /\ BehindCfun(prog, m, Len(CfunsOf(prog, m))) = BehindModule(prog, m)
<1>1. PICK f \in Seq(Seq(Nat)) : f = FunctionsOf(prog, m)
  BY ModuleParts
<1>2. PICK n \in Nat : n = Len(CfunsOf(prog, m))
  BY KeptCfunsType
<1>3. PICK rest \in Seq(Nat) : rest = BehindModule(prog, m)
  <2>1. m \in 0 .. Len(prog.libs)
    BY BehindType
  <2> QED BY <2>1, BehindType
<1>4. Len(f) = n /\ \A i \in 1 .. n : f[i] = WrittenCfun(CfunsOf(prog, m)[i])
  BY <1>1, <1>2, ModuleParts
<1>5. /\ After(f, n) = <<>>
      /\ \A i \in 0 .. n : After(f, i) \in Seq(Nat)
      /\ \A i \in 0 .. n - 1 : After(f, i) = Join(f[i + 1], After(f, i + 1))
  BY <1>4, AfterType
<1>6. \A i \in 0 .. n : Join(After(f, i), rest) \in Seq(Nat)
  BY <1>5, JoinType
<1>7. ASSUME NEW i \in 0 .. n - 1
      PROVE  Join(After(f, i), rest) = Join(WrittenCfun(CfunsOf(prog, m)[i + 1]), Join(After(f, i + 1), rest))
  <2>1. i + 1 \in 1 .. n /\ i + 1 \in 0 .. n
    OBVIOUS
  <2>2. WrittenCfun(CfunsOf(prog, m)[i + 1]) \in Seq(Nat) /\ f[i + 1] = WrittenCfun(CfunsOf(prog, m)[i + 1])
    <3>1. CfunsOf(prog, m)[i + 1] \in CfunType
      BY <1>2, <2>1, KeptCfunsType
    <3> QED BY <1>4, <2>1, <3>1, CfunsType
  <2>3. After(f, i + 1) \in Seq(Nat)
    BY <1>5, <2>1
  <2>4. After(f, i) = Join(WrittenCfun(CfunsOf(prog, m)[i + 1]), After(f, i + 1))
    BY <1>5, <2>2
  <2> QED BY <2>2, <2>3, <2>4, JoinThree
<1>8. Join(<<>>, rest) = rest
  BY JoinNothing
<1> QED BY <1>1, <1>2, <1>3, <1>5, <1>6, <1>7, <1>8 DEF BehindCfun

-----------------------------------------------------------------------------
(* Its steps, one for each record.                                         *)

LEMMA FieldAhead ==
  ASSUME Cursor, NEW a \in Seq(Nat), NEW b \in Seq(Nat), NEW c \in Seq(Nat), Remains(Join(a, Join(b, c)))
  PROVE  NumberAhead(Len(a), Len(b)) = Number(b)
  BY AheadIs DEF NumberAhead, Cursor, Remains

LEMMA Counts ==
  ASSUME NEW prog, IsProgram(prog), Holds(prog)
  PROVE  /\ Number(Bytes(Len(prog.libs), WordBytes)) = Len(prog.libs)
         /\ \A k \in 1 .. Len(prog.libs) :
              Number(Bytes(Len(CfunsOf(prog, k)), WordBytes)) = Len(CfunsOf(prog, k))
<1>1. WordBytes \in Widths
  BY DEF Widths
<1>2. WordBytes \in 0 .. WordBytes
  BY <1>1, WidthsAssumption
<1>3. ByteValues ^ WordBytes \in Nat
  BY <1>1, <1>2, Powers
<1>4. PICK p \in Nat : p = ByteValues ^ WordBytes
  BY <1>3
<1>5. Len(prog.libs) \in Nat /\ Len(prog.cfuns) \in Nat
  BY ProgramIs
<1>6. MaxLibs \in Nat /\ MaxLibs < p /\ MaxCfuns \in Nat /\ MaxCfuns < p
  BY <1>4, BoundsAssumption
<1>7. Len(prog.libs) <= MaxLibs /\ Len(prog.cfuns) <= MaxCfuns
  BY DEF Holds
<1>8. Len(prog.libs) \in 0 .. p - 1 /\ Len(prog.cfuns) \in 0 .. p - 1 /\ 0 \in 0 .. p - 1
  BY <1>5, <1>6, <1>7
<1>9. Len(prog.libs) \in 0 .. ByteValues ^ WordBytes - 1
  BY <1>4, <1>8
<1>10. ASSUME NEW k \in 1 .. Len(prog.libs)
      PROVE  Len(CfunsOf(prog, k)) \in 0 .. ByteValues ^ WordBytes - 1
  <2>1. Len(CfunsOf(prog, k)) = Len(prog.cfuns) \/ Len(CfunsOf(prog, k)) = 0
    BY DEF CfunsOf
  <2> QED BY <1>4, <1>8, <2>1
<1> QED BY <1>1, <1>9, <1>10, NumberOfValue

LEMMA HeaderRead ==
  ASSUME NEW prog, IsProgram(prog), Holds(prog), Cursor, UNCHANGED file, AtHeader(prog), ReadHeader
  PROVE  Reading(prog)' /\ Asks
<1>1. PICK b \in Seq(Nat) : b = Bytes(Len(prog.libs), WordBytes)
  BY FileParts
<1>2. Len(b) = WordBytes /\ Number(b) = Len(prog.libs)
  BY <1>1, FileParts, Counts
<1>3. Len(prog.libs) \in Nat /\ 0 \in 0 .. Len(prog.libs)
  BY BehindType
<1>4. PICK c \in Seq(Nat) : c = BehindModule(prog, 0)
  BY <1>3, BehindType
<1>5. Remains(Join(b, c))
  BY <1>1, <1>4, BehindType DEF AtHeader
<1>6. NumberAhead(0, WordBytes) = Len(prog.libs)
  BY <1>2, <1>5, NextAhead DEF Cursor, Remains
<1>7. Consume(WordBytes, "module") /\ vm' = [vm EXCEPT !.count = Len(prog.libs)] /\ UNCHANGED arenaVars
  BY <1>6 DEF ReadHeader
<1>8. Cursor' /\ load'.step = "module" /\ Remains(c)'
  BY <1>2, <1>5, <1>7, Consumed
<1>9. vm' = Partly(prog, Upto(KeptModules(prog), 0))
  <2>1. Upto(KeptModules(prog), 0) = <<>>
    BY KeptModulesType, UptoType
  <2> QED BY <1>7, <2>1 DEF AtHeader, Partly, Machine
<1>10. AtModule(prog, 0)'
  BY <1>4, <1>8, <1>9 DEF AtModule
<1> QED BY <1>3, <1>7, <1>8, <1>10 DEF Reading, Asks

LEMMA ModuleRead ==
  ASSUME NEW prog, IsProgram(prog), Holds(prog), Cursor, UNCHANGED file,
         NEW m \in 0 .. Len(prog.libs), AtModule(prog, m), ReadModule
  PROVE  Reading(prog)' /\ Asks
<1> DEFINE k == m + 1
           n == Len(CfunsOf(prog, k))
<1>1. PICK mods \in Seq(ModuleType) : mods = KeptModules(prog)
  BY KeptModulesType
<1>2. Len(prog.libs) \in Nat /\ Len(mods) = Len(prog.libs) /\ Upto(mods, m) \in Seq(ModuleType) /\ Len(Upto(mods, m)) = m
  BY <1>1, KeptModulesType, UptoType
<1>3. vm = Partly(prog, Upto(mods, m)) /\ load.step = "module"
  BY <1>1 DEF AtModule
<1>4. vm.count = Len(prog.libs) /\ vm.modules = Upto(mods, m)
  BY <1>3 DEF Partly, Machine
<1>5. m \in 0 .. Len(prog.libs) - 1 /\ k \in 1 .. Len(prog.libs) /\ k \in 0 .. Len(prog.libs) /\ k - 1 = m
  BY <1>2, <1>4 DEF ReadModule
<1> HIDE DEF k
<1>6. PICK w \in Seq(Nat) : w = WrittenName(prog.libs[k])
  BY <1>5, ModuleParts
<1>7. PICK b \in Seq(Nat) : b = Bytes(n, WordBytes)
  BY <1>5, ModuleParts
<1>8. PICK rest \in Seq(Nat) : rest = BehindCfun(prog, k, 0)
  <2>1. 0 \in 0 .. n
    BY <1>5, KeptCfunsType
  <2> QED BY <1>5, <2>1, BehindCfunType
<1>9. /\ prog.libs[k] \in Seq(0 .. ByteValues - 1) /\ Len(b) = WordBytes /\ Number(b) = n
      /\ First(prog.libs[k], 1) \in Seq(Nat) /\ Len(w) = 1 + Len(First(prog.libs[k], 1))
  BY <1>5, <1>6, <1>7, ModuleParts, Counts, NamesType
<1>10. Remains(Join(w, Join(b, rest)))
  <2>1. PICK x \in Seq(Nat) : x = After(FunctionsOf(prog, k), 0)
    BY <1>5, ModuleParts, AfterType
  <2>2. PICK y \in Seq(Nat) : y = BehindModule(prog, k)
    BY <1>5, BehindType
  <2>3. BehindModule(prog, m) = Join(Join(w, Join(b, x)), y)
    BY <1>5, <1>6, <1>7, <2>1, <2>2, BehindType, ModuleParts DEF k
  <2>4. rest = Join(x, y)
    BY <1>8, <2>1, <2>2 DEF BehindCfun
  <2>5. Join(b, x) \in Seq(Nat)
    BY JoinType
  <2>6. Join(Join(w, Join(b, x)), y) = Join(w, Join(Join(b, x), y)) /\ Join(Join(b, x), y) = Join(b, Join(x, y))
    BY <2>5, JoinThree
  <2> QED BY <2>3, <2>4, <2>6 DEF AtModule
<1> DEFINE name == First(prog.libs[k], 1)
<1>11. NumberAhead(0, 1) = Len(name) /\ Ahead(1, Len(name)) = name
  <2>1. Join(b, rest) \in Seq(Nat)
    BY JoinType
  <2> QED BY <1>6, <1>9, <1>10, <2>1, NameAhead DEF Cursor, Remains
<1>12. NumberAhead(1 + Len(name), WordBytes) = n
  BY <1>9, <1>10, FieldAhead
<1> HIDE DEF name
<1>13. /\ Alloc(ProgramArena, Len(name) + 1) /\ Consume(1 + Len(name) + WordBytes, "cfun")
       /\ vm' = [vm EXCEPT !.modules = Append(@, OpenModule(prog, k, <<>>))]
  BY <1>11, <1>12 DEF ReadModule, OpenModule, name
<1>14. Cursor' /\ load'.step = "cfun" /\ Remains(rest)'
  <2>1. PICK j \in Seq(Nat) : j = Join(w, b)
    BY JoinType
  <2>2. Len(w) = 1 + Len(name) /\ Len(name) \in Nat /\ Len(b) = WordBytes /\ Len(b) \in Nat
    BY <1>9 DEF name
  <2>3. Len(j) = Len(w) + Len(b)
    BY <2>1, JoinType
  <2>4. Len(j) = 1 + Len(name) + WordBytes
    BY <2>2, <2>3
  <2>5. Remains(Join(j, rest))
    BY <1>10, <2>1, JoinThree
  <2> QED BY <1>13, <2>4, <2>5, Consumed
<1>15. vm' = WithCfuns(prog, k, Upto(KeptCfuns(prog, k), 0))
  <2>1. Upto(KeptCfuns(prog, k), 0) = <<>>
    BY <1>5, KeptCfunsType, UptoType
  <2>2. vm' = Partly(prog, Append(Upto(mods, m), OpenModule(prog, k, <<>>)))
    BY <1>3, <1>13 DEF Partly, Machine
  <2> QED BY <1>1, <1>5, <2>1, <2>2 DEF WithCfuns
<1>16. AtCfun(prog, k, 0)'
  BY <1>8, <1>14, <1>15 DEF AtCfun
<1>17. 0 \in 0 .. n
  BY <1>5, KeptCfunsType
<1>18. Len(name) + 1 \in Nat
  BY <1>9 DEF name
<1> QED BY <1>5, <1>13, <1>14, <1>16, <1>17, <1>18 DEF Reading, Asks

(* The module whose functions are being read. *)
LEMMA InModule ==
  ASSUME NEW prog, IsProgram(prog), NEW m \in 1 .. Len(prog.libs), NEW cfuns \in Seq(ReadCfunType),
         vm = WithCfuns(prog, m, cfuns)
  PROVE  /\ Len(vm.modules) = m /\ LastModule = OpenModule(prog, m, cfuns)
         /\ LastModule.cfuns = cfuns /\ LastModule.count = Len(CfunsOf(prog, m))
         /\ \A new \in Seq(ReadCfunType) :
              [vm EXCEPT !.modules[m].cfuns = new] = WithCfuns(prog, m, new)
<1>1. PICK u \in Seq(ModuleType) : u = Upto(KeptModules(prog), m - 1) /\ Len(u) = m - 1
  BY KeptModulesType, UptoType
<1>2. Len(u) + 1 = m
  BY <1>1, KeptModulesType
<1>3. OpenModule(prog, m, cfuns) \in ModuleType
  BY KeptModulesType
<1>4. PICK o \in ModuleType : o = OpenModule(prog, m, cfuns)
  BY <1>3
<1>5. vm = Partly(prog, Append(u, o))
  BY <1>1, <1>4 DEF WithCfuns
<1>6. vm.modules = Append(u, o)
  BY <1>5 DEF Partly, Machine
<1>7. Append(u, o) \in Seq(ModuleType) /\ Len(Append(u, o)) = m /\ Append(u, o)[m] = o
  BY <1>2, LastChanged
<1>8. o.cfuns = cfuns /\ o.count = Len(CfunsOf(prog, m))
  BY <1>4 DEF OpenModule
<1>9. ASSUME NEW new \in Seq(ReadCfunType)
      PROVE  [vm EXCEPT !.modules[m].cfuns = new] = WithCfuns(prog, m, new)
  <2>1. PICK n \in ModuleType : n = OpenModule(prog, m, new)
    BY KeptModulesType
  <2>2. [o EXCEPT !.cfuns = new] = n
    BY <1>4, <2>1 DEF OpenModule
  <2>3. [Append(u, o) EXCEPT ![m] = n] = Append(u, n)
    BY <1>2, LastChanged
  <2>4. [vm EXCEPT !.modules[m].cfuns = new] = [vm EXCEPT !.modules = [Append(u, o) EXCEPT ![m] = n]]
    <3>1. PICK q \in Seq(ModuleType) : q = Append(u, o)
      BY <1>7
    <3>2. q[m] = o /\ vm.modules = q
      BY <1>6, <1>7, <3>1
    <3> QED BY <2>2, <3>1, <3>2
  <2>5. [vm EXCEPT !.modules = Append(u, n)] = Partly(prog, Append(u, n))
    <3>1. PICK a : a = Append(u, o)
      OBVIOUS
    <3>2. PICK b : b = Append(u, n)
      OBVIOUS
    <3>3. vm = Partly(prog, a)
      BY <1>5, <3>1
    <3>4. [vm EXCEPT !.modules = b] = Partly(prog, b)
      BY <3>3 DEF Partly, Machine
    <3> QED BY <3>2, <3>4
  <2> QED BY <1>1, <2>1, <2>3, <2>4, <2>5 DEF WithCfuns
<1> QED BY <1>4, <1>6, <1>7, <1>8, <1>9 DEF LastModule

LEMMA CfunsDone ==
  ASSUME NEW prog, IsProgram(prog), Cursor, UNCHANGED file,
         NEW m \in 1 .. Len(prog.libs), NEW i \in 0 .. Len(CfunsOf(prog, m)), AtCfun(prog, m, i), LastCfun
  PROVE  Reading(prog)' /\ Asks
<1>1. PICK cs \in Seq(ReadCfunType) : cs = Upto(KeptCfuns(prog, m), i) /\ Len(cs) = i
  BY KeptCfunsType, UptoType
<1>2. vm = WithCfuns(prog, m, cs)
  BY <1>1 DEF AtCfun
<1>3. LastModule.cfuns = cs /\ LastModule.count = Len(CfunsOf(prog, m))
  BY <1>2, InModule
<1>4. i = Len(CfunsOf(prog, m)) /\ Consume(0, "module") /\ UNCHANGED <<vm, arenaVars>>
  BY <1>1, <1>3 DEF LastCfun
<1>5. m \in 0 .. Len(prog.libs) /\ m - 1 \in 0 .. Len(prog.libs) - 1 /\ (m - 1) + 1 = m
  BY BehindType
<1>6. PICK rest \in Seq(Nat) : rest = BehindModule(prog, m)
  BY <1>5, BehindType
<1>7. Remains(Join(<<>>, rest)) /\ <<>> \in Seq(Nat) /\ Len(<<>>) = 0
  BY <1>4, <1>6, BehindCfunType, JoinNothing DEF AtCfun
<1>8. Cursor' /\ load'.step = "module" /\ Remains(rest)'
  BY <1>4, <1>7, Consumed
<1>9. KeptCfuns(prog, m) = cs
  BY <1>1, <1>4, KeptCfunsType, UptoType
<1>10. Append(Upto(KeptModules(prog), m - 1), OpenModule(prog, m, cs)) = Upto(KeptModules(prog), m)
  <2>1. PICK mods \in Seq(ModuleType) : mods = KeptModules(prog)
    BY KeptModulesType
  <2>2. Len(mods) = Len(prog.libs) /\ mods[m] = OpenModule(prog, m, cs)
    BY <1>9, <2>1, KeptModulesType
  <2>3. m - 1 \in 0 .. Len(mods) - 1
    BY <1>5, <2>2
  <2>4. Upto(mods, (m - 1) + 1) = Append(Upto(mods, m - 1), mods[(m - 1) + 1])
    BY <2>3, UptoType
  <2> QED BY <1>5, <2>1, <2>2, <2>4
<1>11. vm' = Partly(prog, Upto(KeptModules(prog), m))
  BY <1>2, <1>4, <1>10 DEF WithCfuns
<1>12. AtModule(prog, m)'
  BY <1>6, <1>8, <1>11 DEF AtModule
<1> QED BY <1>4, <1>5, <1>8, <1>12 DEF Reading, Asks

LEMMA Retyped ==
  ASSUME NEW f \in ReadCfunType, NEW e, NEW x \in ReadCfunType, x = [f EXCEPT !.atypes = e]
  PROVE  [x EXCEPT !.atypes = f.atypes] = f
  BY DEF ReadCfunType

LEMMA TypesRead ==
  ASSUME NEW prog, IsProgram(prog), Cursor, UNCHANGED file,
         NEW m \in 1 .. Len(prog.libs), NEW i \in 1 .. Len(CfunsOf(prog, m)), AtTypes(prog, m, i), ReadTypes
  PROVE  Reading(prog)' /\ Asks
<1>1. PICK all \in Seq(ReadCfunType) : all = KeptCfuns(prog, m) /\ Len(all) = Len(CfunsOf(prog, m))
  BY KeptCfunsType
<1>2. i - 1 \in 0 .. Len(all) - 1 /\ i - 1 \in 0 .. Len(all) /\ i \in 0 .. Len(all) /\ (i - 1) + 1 = i
  BY <1>1, KeptCfunsType
<1>3. PICK cs \in Seq(ReadCfunType) : cs = Upto(all, i - 1) /\ Len(cs) = i - 1
  BY <1>2, UptoType
<1>4. PICK f \in CfunType : f = CfunsOf(prog, m)[i]
  BY KeptCfunsType
<1>5. PICK x \in ReadCfunType : x = Untyped(f)
  BY KeptCfunType
<1>6. PICK y \in ReadCfunType : y = KeptCfun(f)
  BY KeptCfunType
<1>7. PICK t \in Seq(Nat) : t = TypesOf(f)
  BY TypesType
<1>8. x.acount = Len(t) /\ [x EXCEPT !.atypes = t] = y
  <2>1. Len(t) = Wrapped(Len(f.atypes), ShortBytes)
    BY <1>7, TypesType
  <2>2. x.acount = Wrapped(Len(f.atypes), ShortBytes)
    BY <1>5 DEF Untyped, KeptCfun
  <2>3. y.atypes = t
    BY <1>6, <1>7 DEF KeptCfun
  <2>4. x = [y EXCEPT !.atypes = <<>>]
    BY <1>5, <1>6 DEF Untyped
  <2>5. [x EXCEPT !.atypes = t] = y
    BY <2>3, <2>4, Retyped
  <2> QED BY <2>1, <2>2, <2>5
<1>9. Len(cs) + 1 = i
  BY <1>2, <1>3
<1>10. /\ Append(cs, x) \in Seq(ReadCfunType) /\ Len(Append(cs, x)) = i /\ Append(cs, x)[i] = x
       /\ Append(cs, y) \in Seq(ReadCfunType) /\ [Append(cs, x) EXCEPT ![i] = y] = Append(cs, y)
  BY <1>9, LastChanged
<1>11. PICK q \in Seq(ReadCfunType) : q = Append(cs, x)
  BY <1>10
<1>12. vm = WithCfuns(prog, m, q)
  BY <1>1, <1>3, <1>4, <1>5, <1>11 DEF AtTypes
<1>13. /\ Len(vm.modules) = m /\ LastModule = OpenModule(prog, m, q) /\ LastModule.cfuns = q
  BY <1>12, InModule
<1>14. [vm EXCEPT !.modules[m].cfuns = Append(cs, y)] = WithCfuns(prog, m, Append(cs, y))
  <2>1. PICK r \in Seq(ReadCfunType) : r = Append(cs, y)
    BY <1>10
  <2>2. [vm EXCEPT !.modules[m].cfuns = r] = WithCfuns(prog, m, r)
    BY <1>12, InModule
  <2> QED BY <2>1, <2>2
<1>15. PICK rest \in Seq(Nat) : rest = BehindCfun(prog, m, i)
  BY <1>1, <1>2, BehindCfunType
<1>16. Remains(Join(t, rest)) /\ load.step = "atypes"
  BY <1>4, <1>7, <1>15 DEF AtTypes
<1>17. Ahead(0, Len(t)) = t
  BY <1>16, NextAhead DEF Cursor, Remains
<1>18. q[i].acount = Len(t) /\ q[i] = x /\ Len(q) = i
  BY <1>8, <1>10, <1>11
<1>19. /\ Alloc(ProgramArena, Len(t)) /\ Consume(Len(t), "cfun")
       /\ vm' = [vm EXCEPT !.modules[m].cfuns[i].atypes = t]
  <2>1. LastModule.cfuns[i].acount = Len(t) /\ Len(LastModule.cfuns) = i /\ Len(vm.modules) = m
    BY <1>13, <1>18
  <2>2. PICK l : l = LastModule.cfuns
    OBVIOUS
  <2>3. Len(l) = i /\ l[i].acount = Len(t)
    BY <2>1, <2>2
  <2>4. PICK n : n = Len(t)
    OBVIOUS
  <2>5. LastModule.cfuns[Len(LastModule.cfuns)].acount = n
    BY <2>2, <2>3, <2>4
  <2>6. Ahead(0, n) = t
    BY <1>17, <2>4
  <2> QED BY <2>1, <2>4, <2>5, <2>6 DEF ReadTypes
<1>20. vm' = WithCfuns(prog, m, Append(cs, y))
  <2>1. vm.modules[m].cfuns = q
    BY <1>13 DEF LastModule
  <2>2. [vm EXCEPT !.modules[m].cfuns[i].atypes = t]
          = [vm EXCEPT !.modules[m].cfuns = [q EXCEPT ![i] = [q[i] EXCEPT !.atypes = t]]]
    BY <2>1
  <2>3. [q EXCEPT ![i] = [q[i] EXCEPT !.atypes = t]] = Append(cs, y)
    BY <1>8, <1>10, <1>11, <1>18
  <2> QED BY <1>19, <1>14, <2>2, <2>3
<1>21. Append(cs, y) = Upto(all, i)
  <2>1. all[i] = y
    BY <1>1, <1>4, <1>6, KeptCfunsType
  <2>2. Upto(all, (i - 1) + 1) = Append(Upto(all, i - 1), all[(i - 1) + 1])
    BY <1>2, UptoType
  <2> QED BY <1>2, <1>3, <2>1, <2>2
<1>22. Cursor' /\ load'.step = "cfun" /\ Remains(rest)'
  BY <1>16, <1>19, Consumed
<1>23. AtCfun(prog, m, i)'
  BY <1>1, <1>15, <1>20, <1>21, <1>22 DEF AtCfun
<1>24. i \in 0 .. Len(CfunsOf(prog, m)) /\ Len(t) \in Nat
  BY <1>1, <1>2
<1> QED BY <1>19, <1>22, <1>23, <1>24 DEF Reading, Asks

(* The fields of a function, in front of the loader. *)
LEMMA CfunFields ==
  ASSUME Cursor, NEW f \in CfunType, NEW rest \in Seq(Nat), Remains(Join(WrittenCfun(f), rest))
  PROVE  \E w, b, r, t \in Seq(Nat) :
           /\ Remains(Join(w, Join(b, Join(r, Join(t, rest)))))
           /\ w = WrittenName(f.symbol) /\ Len(w) = 1 + Len(First(f.symbol, 1))
           /\ Len(b) = ShortBytes /\ Number(b) = Wrapped(Len(f.atypes), ShortBytes)
           /\ Len(r) = 1 /\ Number(r) = TypeByte(f.rtype)
           /\ t = TypesOf(f)
<1>1. f.symbol \in Seq(0 .. ByteValues - 1) /\ Len(f.atypes) \in Nat /\ ShortBytes \in Widths
      /\ f.rtype \in CType
  BY DEF CfunType, Widths
<1>2. PICK w \in Seq(Nat) : w = WrittenName(f.symbol)
  BY CfunsType
<1>3. PICK b \in Seq(Nat) : b = Bytes(Len(f.atypes), ShortBytes)
  BY CfunsType
<1>4. PICK r \in Seq(Nat) : r = <<TypeByte(f.rtype)>>
  BY CfunsType
<1>5. PICK t \in Seq(Nat) : t = TypesOf(f)
  BY TypesType
<1>6. Len(w) = 1 + Len(First(f.symbol, 1))
  BY <1>1, <1>2, NamesType
<1>7. Len(b) = ShortBytes /\ Number(b) = Wrapped(Len(f.atypes), ShortBytes)
  BY <1>1, <1>3, CfunsType, NumberOfBytes
<1>8. Len(r) = 1 /\ Number(r) = TypeByte(f.rtype)
  BY <1>4, CfunsType, NumberOfByte
<1>9. WrittenCfun(f) = Join(w, Join(b, Join(r, t)))
  BY <1>2, <1>3, <1>4, <1>5, CfunsType
<1>10. Join(r, t) \in Seq(Nat) /\ Join(b, Join(r, t)) \in Seq(Nat)
  BY JoinType
<1>11. /\ Join(Join(w, Join(b, Join(r, t))), rest) = Join(w, Join(Join(b, Join(r, t)), rest))
       /\ Join(Join(b, Join(r, t)), rest) = Join(b, Join(Join(r, t), rest))
       /\ Join(Join(r, t), rest) = Join(r, Join(t, rest))
  BY <1>10, JoinThree
<1>12. Remains(Join(w, Join(b, Join(r, Join(t, rest)))))
  BY <1>9, <1>11
<1> QED BY <1>2, <1>5, <1>6, <1>7, <1>8, <1>12

LEMMA CfunRead ==
  ASSUME NEW prog, IsProgram(prog), Cursor, UNCHANGED file,
         NEW m \in 1 .. Len(prog.libs), NEW i \in 0 .. Len(CfunsOf(prog, m)), AtCfun(prog, m, i), ReadCfun
  PROVE  Reading(prog)' /\ Asks
<1>1. PICK all \in Seq(ReadCfunType) : all = KeptCfuns(prog, m) /\ Len(all) = Len(CfunsOf(prog, m))
  BY KeptCfunsType
<1>2. PICK cs \in Seq(ReadCfunType) : cs = Upto(all, i) /\ Len(cs) = i
  BY <1>1, UptoType
<1>3. vm = WithCfuns(prog, m, cs) /\ load.step = "cfun"
  BY <1>1, <1>2 DEF AtCfun
<1>4. Len(vm.modules) = m /\ LastModule.cfuns = cs /\ LastModule.count = Len(CfunsOf(prog, m))
  BY <1>3, InModule
<1>5. i < Len(all)
  BY <1>1, <1>2, <1>4 DEF ReadCfun
<1>6. PICK k \in Nat : k = i + 1
  BY <1>1, <1>2
<1>7. /\ k \in 1 .. Len(CfunsOf(prog, m)) /\ k \in 0 .. Len(CfunsOf(prog, m))
      /\ k - 1 = i /\ i \in 0 .. Len(CfunsOf(prog, m)) - 1
  BY <1>1, <1>5, <1>6
<1>8. PICK f \in CfunType : f = CfunsOf(prog, m)[k]
  BY <1>7, KeptCfunsType
<1>9. PICK rest \in Seq(Nat) : rest = BehindCfun(prog, m, k)
  BY <1>7, BehindCfunType
<1>10. Remains(Join(WrittenCfun(f), rest))
  BY <1>6, <1>7, <1>8, <1>9, BehindCfunType DEF AtCfun
<1>11. PICK w, b, r, t \in Seq(Nat) :
         /\ Remains(Join(w, Join(b, Join(r, Join(t, rest)))))
         /\ w = WrittenName(f.symbol) /\ Len(w) = 1 + Len(First(f.symbol, 1))
         /\ Len(b) = ShortBytes /\ Number(b) = Wrapped(Len(f.atypes), ShortBytes)
         /\ Len(r) = 1 /\ Number(r) = TypeByte(f.rtype)
         /\ t = TypesOf(f)
  BY <1>10, CfunFields
<1>12. PICK name \in Seq(Nat) : name = First(f.symbol, 1)
  BY NamesType DEF CfunType
<1>13. PICK left \in Seq(Nat) : left = Join(t, rest)
  BY JoinType
<1>14. NumberAhead(0, 1) = Len(name) /\ Ahead(1, Len(name)) = name
  <2>1. Join(r, left) \in Seq(Nat)
    BY JoinType
  <2>2. Join(b, Join(r, left)) \in Seq(Nat)
    BY <2>1, JoinType
  <2>3. f.symbol \in Seq(0 .. ByteValues - 1)
    BY DEF CfunType
  <2> QED BY <1>11, <1>12, <1>13, <2>2, <2>3, NameAhead DEF Cursor, Remains
<1>15. NumberAhead(1 + Len(name), ShortBytes) = Wrapped(Len(f.atypes), ShortBytes)
  <2>1. Join(r, left) \in Seq(Nat)
    BY JoinType
  <2> QED BY <1>11, <1>12, <1>13, <2>1, FieldAhead
<1>16. PICK wb \in Seq(Nat) : wb = Join(w, b)
  BY JoinType
<1>17. Len(wb) = 1 + Len(name) + ShortBytes /\ Remains(Join(wb, Join(r, left)))
  <2>1. Len(w) = 1 + Len(name) /\ Len(b) = ShortBytes /\ Len(wb) = Len(w) + Len(b)
    BY <1>11, <1>12, <1>16, JoinType
  <2>2. Join(r, left) \in Seq(Nat)
    BY JoinType
  <2> QED BY <1>11, <1>13, <1>16, <2>1, <2>2, JoinThree, SMTT(30)
<1>18. NumberAhead(1 + Len(name) + ShortBytes, 1) = TypeByte(f.rtype)
  <2>1. NumberAhead(Len(wb), Len(r)) = Number(r)
    BY <1>17, FieldAhead
  <2>2. NumberAhead(Len(wb), 1) = TypeByte(f.rtype)
    BY <1>11, <2>1
  <2>3. Len(wb) = 1 + Len(name) + ShortBytes
    BY <1>17
  <2> QED BY <2>2, <2>3, Zenon
<1>19. PICK x \in ReadCfunType : x = Untyped(f)
  BY KeptCfunType
<1>20. x = [symbol |-> name, acount |-> Wrapped(Len(f.atypes), ShortBytes),
            rtype |-> TypeByte(f.rtype), atypes |-> <<>>]
  BY <1>12, <1>19 DEF Untyped, KeptCfun
<1>21. /\ Alloc(ProgramArena, Len(name) + 1) /\ Consume(1 + Len(name) + ShortBytes + 1, "atypes")
       /\ vm' = [vm EXCEPT !.modules[m].cfuns = Append(@, x)]
  BY <1>4, <1>14, <1>15, <1>18, <1>20 DEF ReadCfun
<1>22. vm' = WithCfuns(prog, m, Append(cs, x))
  <2>1. Append(cs, x) \in Seq(ReadCfunType)
    BY LastChanged
  <2>2. PICK q \in Seq(ReadCfunType) : q = Append(cs, x)
    BY <2>1
  <2>3. [vm EXCEPT !.modules[m].cfuns = q] = WithCfuns(prog, m, q)
    BY <1>3, <2>1, InModule, SMTT(30)
  <2>4. vm.modules[m].cfuns = cs
    BY <1>4 DEF LastModule
  <2> QED BY <1>21, <2>2, <2>3, <2>4
<1>23. Cursor' /\ load'.step = "atypes" /\ Remains(left)'
  <2>1. PICK j \in Seq(Nat) : j = Join(wb, r)
    BY JoinType
  <2>2. Len(j) = Len(wb) + Len(r)
    BY <2>1, JoinType
  <2>3. Len(name) \in Nat /\ Len(wb) \in Nat
    OBVIOUS
  <2>4. Len(j) = 1 + Len(name) + ShortBytes + 1
    BY <1>11, <1>17, <2>2, <2>3
  <2>5. Remains(Join(j, left))
    BY <1>17, <2>1, JoinThree
  <2> QED BY <1>21, <2>4, <2>5, Consumed
<1>24. AtTypes(prog, m, k)'
  BY <1>1, <1>2, <1>7, <1>8, <1>9, <1>11, <1>13, <1>19, <1>22, <1>23 DEF AtTypes
<1>25. Len(name) + 1 \in Nat
  OBVIOUS
<1> QED BY <1>7, <1>21, <1>23, <1>24, <1>25 DEF Reading, Asks

(* k fields of the same width in front of the others. *)
LEMMA Step == \A k, w \in Nat : (k + 1) * w = k * w + w /\ k * w \in Nat /\ 0 * w = 0
  OBVIOUS

LEMMA FixedFields ==
  ASSUME NEW fs \in Seq(Seq(Nat)), NEW w \in Nat, \A k \in 1 .. Len(fs) : Len(fs[k]) = w
  PROVE  \A k \in 0 .. Len(fs) :
           \E a \in Seq(Nat) : Len(a) = k * w /\ After(fs, 0) = Join(a, After(fs, k))
<1> DEFINE n == Len(fs)
           Right(k) == \E a \in Seq(Nat) : Len(a) = k * w /\ After(fs, 0) = Join(a, After(fs, k))
           Wrong == {k \in 0 .. n : ~Right(k)}
<1>1. n \in Nat /\ \A k \in 1 .. n : fs[k] \in Seq(Nat)
  OBVIOUS
<1>2. /\ \A k \in 0 .. n : After(fs, k) \in Seq(Nat)
      /\ \A k \in 0 .. n - 1 : After(fs, k) = Join(fs[k + 1], After(fs, k + 1))
  BY AfterType
<1>3. Right(0)
  <2>1. <<>> \in Seq(Nat)
    OBVIOUS
  <2>2. PICK e \in Seq(Nat) : e = <<>>
    BY <2>1
  <2>3. 0 \in 0 .. n
    BY <1>1
  <2>4. After(fs, 0) = Join(e, After(fs, 0))
    BY <1>2, <2>2, <2>3, JoinNothing
  <2>5. Len(e) = 0 * w
    BY <2>2, Step
  <2> QED BY <2>4, <2>5
<1>4. ASSUME NEW k \in 0 .. n - 1, Right(k) PROVE Right(k + 1)
  <2>1. PICK a \in Seq(Nat) : Len(a) = k * w /\ After(fs, 0) = Join(a, After(fs, k))
    BY <1>4
  <2>2. k + 1 \in 1 .. n /\ k + 1 \in 0 .. n /\ k \in Nat
    BY <1>1
  <2>3. PICK b \in Seq(Nat) : b = fs[k + 1] /\ Len(b) = w
    BY <1>1, <2>2
  <2>4. PICK c \in Seq(Nat) : c = After(fs, k + 1)
    BY <1>2, <2>2
  <2>5. After(fs, k) = Join(b, c)
    BY <1>2, <2>3, <2>4
  <2>6. PICK j \in Seq(Nat) : j = Join(a, b) /\ Len(j) = Len(a) + Len(b)
    BY JoinType
  <2>7. Len(j) = (k + 1) * w
    BY <2>1, <2>2, <2>3, <2>6, Step
  <2>8. After(fs, 0) = Join(j, c)
    BY <2>1, <2>5, <2>6, JoinThree
  <2> QED BY <2>4, <2>7, <2>8
<1> HIDE DEF Right
<1>5. Wrong = {}
  <2> SUFFICES ASSUME Wrong # {} PROVE FALSE
    OBVIOUS
  <2>1. Wrong \subseteq Nat
    BY <1>1
  <2>2. PICK k \in Wrong : \A j \in Wrong : k <= j
    <3> HIDE DEF Wrong
    <3> QED BY <2>1, LeastNat
  <2>3. k \in 0 .. n /\ ~Right(k) /\ k # 0
    BY <1>3
  <2>4. k - 1 \in 0 .. n - 1 /\ k - 1 \in 0 .. n /\ (k - 1) + 1 = k /\ k - 1 < k
    BY <1>1, <2>3
  <2>5. Right(k - 1)
    BY <2>2, <2>4
  <2> QED BY <1>4, <2>3, <2>4, <2>5
<1> QED BY <1>5 DEF Right

(* Every field of a table is where the loader looks for it. *)
LEMMA FieldsAhead ==
  ASSUME Cursor, NEW p \in Seq(Nat), NEW s \in Seq(Nat), NEW w \in Widths, NEW c \in Seq(Nat),
         Remains(Join(p, Join(After(FieldsOf(s, w), 0), c)))
  PROVE  /\ Len(After(FieldsOf(s, w), 0)) = Len(s) * w
         /\ \A k \in 1 .. Len(s) : NumberAhead(Len(p) + (k - 1) * w, w) = Number(Bytes(s[k], w))
<1>1. w \in Nat
  BY WidthsAssumption
<1>2. PICK fs \in Seq(Seq(Nat)) : fs = FieldsOf(s, w)
  BY FieldsType
<1>3. PICK n \in Nat : n = Len(s)
  OBVIOUS
<1>4. Len(fs) = n /\ \A k \in 1 .. n : fs[k] = Bytes(s[k], w) /\ Len(fs[k]) = w
  BY <1>2, <1>3, FieldsType
<1>5. \A k \in 0 .. n :
        \E a \in Seq(Nat) : Len(a) = k * w /\ After(fs, 0) = Join(a, After(fs, k))
  BY <1>1, <1>4, FixedFields
<1>6. /\ \A k \in 0 .. n : After(fs, k) \in Seq(Nat)
      /\ \A k \in 0 .. n - 1 : After(fs, k) = Join(fs[k + 1], After(fs, k + 1))
      /\ After(fs, n) = <<>>
  BY <1>4, AfterType
<1>7. Len(After(fs, 0)) = n * w
  <2>1. PICK a \in Seq(Nat) : Len(a) = n * w /\ After(fs, 0) = Join(a, After(fs, n))
    <3>1. n \in 0 .. n
      BY <1>3
    <3> QED BY <1>5, <3>1
  <2>2. After(fs, 0) = a
    BY <1>6, <2>1, JoinNothing
  <2> QED BY <2>1, <2>2
<1>8. ASSUME NEW k \in 1 .. n
      PROVE  NumberAhead(Len(p) + (k - 1) * w, w) = Number(Bytes(s[k], w))
  <2>1. k - 1 \in 0 .. n - 1 /\ k - 1 \in 0 .. n /\ (k - 1) + 1 = k /\ k \in 0 .. n
    BY <1>3
  <2>2. PICK a \in Seq(Nat) : Len(a) = (k - 1) * w /\ After(fs, 0) = Join(a, After(fs, k - 1))
    BY <1>5, <2>1
  <2>3. PICK b \in Seq(Nat) : b = fs[k] /\ Len(b) = w /\ b = Bytes(s[k], w)
    BY <1>2, <1>4
  <2>4. PICK d \in Seq(Nat) : d = After(fs, k)
    BY <1>6, <2>1
  <2>5. After(fs, k - 1) = Join(b, d)
    BY <1>6, <2>1, <2>3, <2>4
  <2>6. PICK e \in Seq(Nat) : e = Join(d, c)
    BY JoinType
  <2>7. Join(b, d) \in Seq(Nat) /\ Join(b, e) \in Seq(Nat)
    BY JoinType
  <2>8. Join(After(fs, 0), c) = Join(a, Join(b, e))
    <3>1. Join(Join(a, Join(b, d)), c) = Join(a, Join(Join(b, d), c))
      BY <2>7, JoinThree
    <3>2. Join(Join(b, d), c) = Join(b, e)
      BY <2>6, JoinThree
    <3> QED BY <2>2, <2>5, <3>1, <3>2
  <2>9. PICK q \in Seq(Nat) : q = Join(p, a) /\ Len(q) = Len(p) + Len(a)
    BY JoinType
  <2>10. Join(p, Join(a, Join(b, e))) = Join(q, Join(b, e))
    BY <2>7, <2>9, JoinThree
  <2>11. Remains(Join(q, Join(b, e)))
    BY <1>2, <2>8, <2>10
  <2>12. NumberAhead(Len(q), Len(b)) = Number(b)
    BY <2>11, FieldAhead
  <2>13. Len(q) = Len(p) + (k - 1) * w
    BY <2>2, <2>9
  <2> QED BY <2>3, <2>12, <2>13, Zenon
<1> QED BY <1>2, <1>3, <1>7, <1>8

LEMMA FieldPlaces ==
  \A w, k, n \in Nat : /\ 2 * w + (k - 1) * w = (k + 1) * w /\ w + w = 2 * w /\ 2 * w + n * w = (2 + n) * w
                       /\ n * w \in Nat
  OBVIOUS

LEMMA OfItself == \A s \in Seq(Nat) : s = [k \in 1 .. Len(s) |-> s[k]]
  OBVIOUS

LEMMA Values ==
  ASSUME NEW w \in Widths, NEW s \in Seq(0 .. ByteValues ^ w - 1)
  PROVE  \A k \in 1 .. Len(s) : Number(Bytes(s[k], w)) = s[k]
<1>1. PICK S : S = 0 .. ByteValues ^ w - 1
  OBVIOUS
<1>2. s \in Seq(S)
  BY <1>1
<1>3. \A k \in 1 .. Len(s) : s[k] \in S
  BY <1>2
<1> QED BY <1>1, <1>3, NumberOfValue

(* The constants, in front of the loader. *)
LEMMA ReferencesAhead ==
  ASSUME NEW prog, IsProgram(prog), Cursor, Remains(Finish(prog))
  PROVE  /\ NumberAhead(0, SizeBytes) = Len(prog.refs)
         /\ NumberAhead(SizeBytes, SizeBytes) = Len(prog.data)
         /\ [k \in 1 .. Len(prog.refs) |-> NumberAhead((k + 1) * SizeBytes, SizeBytes)] = prog.refs
         /\ \E j \in Seq(Nat) : /\ Len(j) = (2 + Len(prog.refs)) * SizeBytes
                                /\ Remains(Join(j, Join(prog.data, CodeOf(prog))))
<1>1. SizeBytes \in Widths /\ SizeBytes \in Nat
  BY WidthsAssumption DEF Widths
<1>2. PICK b \in Seq(Nat) : b = Bytes(Len(prog.refs), SizeBytes) /\ Len(b) = SizeBytes
  BY ConstParts
<1>3. PICK d \in Seq(Nat) : d = Bytes(Len(prog.data), SizeBytes) /\ Len(d) = SizeBytes
  BY ConstParts
<1>4. PICK t \in Seq(Nat) : t = After(FieldsOf(prog.refs, SizeBytes), 0)
  BY ConstParts
<1>5. PICK r \in Seq(Nat) : r = Join(prog.data, CodeOf(prog))
  <2>1. prog.data \in Seq(Nat) /\ CodeOf(prog) \in Seq(Nat)
    BY ProgramIs, FileParts
  <2> QED BY <2>1, JoinType
<1>6. Remains(Join(b, Join(d, Join(t, r))))
  BY <1>2, <1>3, <1>4, <1>5, ConstParts
<1>7. Join(t, r) \in Seq(Nat) /\ Join(d, Join(t, r)) \in Seq(Nat)
  BY JoinType
<1>8. Number(b) = Len(prog.refs) /\ Number(d) = Len(prog.data)
  <2>1. Len(prog.refs) \in 0 .. ByteValues ^ SizeBytes - 1 /\ Len(prog.data) \in 0 .. ByteValues ^ SizeBytes - 1
    BY ProgramIs
  <2> QED BY <1>1, <1>2, <1>3, <2>1, NumberOfValue
<1>9. NumberAhead(0, SizeBytes) = Len(prog.refs)
  <2>1. NumberAhead(0, Len(b)) = Number(b)
    BY <1>6, <1>7, NextAhead DEF Cursor, Remains
  <2> QED BY <1>2, <1>8, <2>1
<1>10. NumberAhead(SizeBytes, SizeBytes) = Len(prog.data)
  <2>1. NumberAhead(Len(b), Len(d)) = Number(d)
    BY <1>6, <1>7, FieldAhead
  <2> QED BY <1>2, <1>3, <1>8, <2>1
<1>11. PICK p \in Seq(Nat) : p = Join(b, d) /\ Len(p) = Len(b) + Len(d)
  BY JoinType
<1>12. Len(p) = 2 * SizeBytes
  BY <1>1, <1>2, <1>3, <1>11
<1>13. Remains(Join(p, Join(t, r)))
  BY <1>6, <1>7, <1>11, JoinThree
<1>14. prog.refs \in Seq(Nat) /\ prog.refs \in Seq(0 .. ByteValues ^ SizeBytes - 1)
  BY ProgramIs
<1>15. PICK n \in Nat : n = Len(prog.refs)
  BY <1>14
<1>16. /\ Len(t) = n * SizeBytes
       /\ \A k \in 1 .. n : NumberAhead(Len(p) + (k - 1) * SizeBytes, SizeBytes) = Number(Bytes(prog.refs[k], SizeBytes))
  <2>1. PICK refs \in Seq(Nat) : refs = prog.refs
    BY <1>14
  <2>2. Remains(Join(p, Join(After(FieldsOf(refs, SizeBytes), 0), r)))
    BY <1>4, <1>13, <2>1
  <2>3. /\ Len(After(FieldsOf(refs, SizeBytes), 0)) = Len(refs) * SizeBytes
        /\ \A k \in 1 .. Len(refs) :
             NumberAhead(Len(p) + (k - 1) * SizeBytes, SizeBytes) = Number(Bytes(refs[k], SizeBytes))
    BY <1>1, <2>2, FieldsAhead
  <2> QED BY <1>4, <1>15, <2>1, <2>3
<1>17. ASSUME NEW k \in 1 .. n
       PROVE  NumberAhead((k + 1) * SizeBytes, SizeBytes) = Number(Bytes(prog.refs[k], SizeBytes))
  <2>1. 2 * SizeBytes + (k - 1) * SizeBytes = (k + 1) * SizeBytes
    BY <1>1, FieldPlaces
  <2> QED BY <1>12, <1>16, <2>1
<1>18. [k \in 1 .. n |-> NumberAhead((k + 1) * SizeBytes, SizeBytes)] = prog.refs
  <2>1. PICK s \in Seq(Nat) : s = prog.refs
    BY <1>14
  <2>2. s \in Seq(0 .. ByteValues ^ SizeBytes - 1)
    BY <1>14, <2>1
  <2>3. \A k \in 1 .. Len(s) : Number(Bytes(s[k], SizeBytes)) = s[k]
    BY <1>1, <2>2, Values
  <2>4. \A k \in 1 .. n : NumberAhead((k + 1) * SizeBytes, SizeBytes) = s[k]
    BY <1>15, <1>17, <2>1, <2>3
  <2>5. [k \in 1 .. n |-> NumberAhead((k + 1) * SizeBytes, SizeBytes)] = [k \in 1 .. n |-> s[k]]
    BY <2>4
  <2>6. [k \in 1 .. n |-> s[k]] = s
    <3>1. s = [k \in 1 .. Len(s) |-> s[k]]
      BY OfItself
    <3>2. n = Len(s)
      BY <1>15, <2>1
    <3> QED BY <3>1, <3>2, Zenon
  <2> QED BY <2>1, <2>5, <2>6
<1>19. PICK j \in Seq(Nat) : j = Join(p, t) /\ Len(j) = Len(p) + Len(t)
  BY JoinType
<1>20. Len(j) = (2 + n) * SizeBytes
  BY <1>1, <1>12, <1>16, <1>19, FieldPlaces
<1>21. Remains(Join(j, r))
  BY <1>13, <1>19, JoinThree
<1> QED BY <1>5, <1>9, <1>10, <1>15, <1>18, <1>20, <1>21

LEMMA ReferencesRead ==
  ASSUME NEW prog, IsProgram(prog), Cursor, UNCHANGED file,
         NEW m \in 0 .. Len(prog.libs), AtModule(prog, m), ReadReferences
  PROVE  Reading(prog)' /\ Asks
<1>1. PICK mods \in Seq(ModuleType) : mods = KeptModules(prog)
  BY KeptModulesType
<1>2. Len(prog.libs) \in Nat /\ Len(mods) = Len(prog.libs) /\ Len(Upto(mods, m)) = m
  BY <1>1, KeptModulesType, UptoType
<1>3. vm = Partly(prog, Upto(mods, m)) /\ load.step = "module"
  BY <1>1 DEF AtModule
<1>4. vm.count = Len(prog.libs) /\ vm.modules = Upto(mods, m)
  BY <1>3 DEF Partly, Machine
<1>5. m = Len(prog.libs)
  BY <1>2, <1>4 DEF ReadReferences
<1>6. Upto(mods, m) = mods
  BY <1>2, <1>5, UptoType
<1>7. Remains(Finish(prog))
  BY <1>5, BehindType DEF AtModule
<1>8. prog.refs \in Seq(Nat) /\ prog.data \in Seq(Nat)
  BY ProgramIs
<1>9. PICK n \in Nat : n = Len(prog.refs)
  BY <1>8
<1>10. PICK size \in Nat : size = Len(prog.data)
  BY <1>8
<1>11. PICK j \in Seq(Nat) : Len(j) = (2 + n) * SizeBytes /\ Remains(Join(j, Join(prog.data, CodeOf(prog))))
  BY <1>7, <1>9, ReferencesAhead
<1>12. PICK refs \in Seq(Nat) : refs = prog.refs
  BY ProgramIs
<1>13. /\ NumberAhead(0, SizeBytes) = n /\ NumberAhead(SizeBytes, SizeBytes) = size
       /\ [k \in 1 .. n |-> NumberAhead((k + 1) * SizeBytes, SizeBytes)] = refs
  BY <1>7, <1>9, <1>10, <1>12, ReferencesAhead
<1>14. /\ Alloc(ProgramArena, n * SizeBytes)
       /\ Consume((2 + n) * SizeBytes, IF n > 0 THEN "data" ELSE "code")
       /\ vm' = [vm EXCEPT !.refs = refs, !.dataSize = size]
  BY <1>13 DEF ReadReferences
<1>15. vm' = Machine(prog, mods, refs, <<>>, size, <<>>)
  BY <1>3, <1>6, <1>14 DEF Partly, Machine
<1>16. PICK data \in Seq(Nat) : data = prog.data
  BY ProgramIs
<1>17. PICK code \in Seq(Nat) : code = CodeOf(prog)
  BY FileParts
<1>18. PICK r \in Seq(Nat) : r = Join(data, code)
  BY JoinType
<1>19. Cursor' /\ load'.step = (IF n > 0 THEN "data" ELSE "code") /\ Remains(r)'
  <2>1. PICK next : next = IF n > 0 THEN "data" ELSE "code"
    OBVIOUS
  <2>2. PICK len : len = (2 + n) * SizeBytes
    OBVIOUS
  <2>3. Consume(len, next) /\ len = Len(j)
    BY <1>11, <1>14, <2>1, <2>2
  <2>4. Remains(Join(j, r))
    BY <1>11, <1>16, <1>17, <1>18
  <2>5. Cursor' /\ load'.step = next /\ Remains(r)'
    BY <2>3, <2>4, Consumed
  <2> QED BY <2>1, <2>5
<1>20. ASSUME n > 0 PROVE Reading(prog)'
  <2>1. load'.step = "data"
    BY <1>19, <1>20
  <2>2. AtData(prog)'
    BY <1>1, <1>10, <1>12, <1>15, <1>16, <1>17, <1>18, <1>19, <2>1 DEF AtData
  <2> QED BY <1>19, <2>2 DEF Reading
<1>21. ASSUME n = 0 PROVE Reading(prog)'
  <2>1. load'.step = "code"
    BY <1>19, <1>21
  <2>2. refs = <<>>
    <3>1. Len(refs) = 0
      BY <1>9, <1>12, <1>21
    <3> QED BY <3>1
  <2>3. data = <<>>
    BY <1>12, <1>16, <2>2, ProgramIs
  <2>4. r = code
    BY <1>18, <2>3, JoinNothing
  <2>5. vm' = Machine(prog, mods, refs, data, size, <<>>)
    BY <1>15, <2>3
  <2>6. AtCode(prog)'
    BY <1>1, <1>10, <1>12, <1>16, <1>17, <1>19, <2>1, <2>4, <2>5 DEF AtCode
  <2> QED BY <1>19, <2>6 DEF Reading
<1>22. Asks
  <2>1. n * SizeBytes \in Nat
    <3>1. SizeBytes \in Nat
      BY WidthsAssumption DEF Widths
    <3> QED BY <3>1, FieldPlaces
  <2> QED BY <1>14, <2>1 DEF Asks
<1> QED BY <1>20, <1>21, <1>22

LEMMA DataRead ==
  ASSUME NEW prog, IsProgram(prog), Cursor, UNCHANGED file, AtData(prog), ReadData
  PROVE  Reading(prog)' /\ Asks
<1>1. PICK data \in Seq(Nat) : data = prog.data
  BY ProgramIs
<1>2. PICK code \in Seq(Nat) : code = CodeOf(prog)
  BY FileParts
<1>3. vm = Machine(prog, KeptModules(prog), prog.refs, <<>>, Len(data), <<>>) /\ load.step = "data"
      /\ Remains(Join(data, code))
  BY <1>1, <1>2 DEF AtData
<1>4. vm.dataSize = Len(data)
  BY <1>3 DEF Machine
<1>5. Ahead(0, Len(data)) = data
  BY <1>3, NextAhead DEF Cursor, Remains
<1>6. /\ Alloc(ProgramArena, Len(data)) /\ Consume(Len(data), "code")
      /\ vm' = [vm EXCEPT !.data = data]
  BY <1>4, <1>5 DEF ReadData
<1>7. Cursor' /\ load'.step = "code" /\ Remains(code)'
  BY <1>3, <1>6, Consumed
<1>8. vm' = Machine(prog, KeptModules(prog), prog.refs, data, Len(data), <<>>)
  BY <1>3, <1>6 DEF Machine
<1>9. AtCode(prog)'
  BY <1>1, <1>2, <1>7, <1>8 DEF AtCode
<1> QED BY <1>6, <1>7, <1>9 DEF Reading, Asks

LEMMA CodeRead ==
  ASSUME NEW prog, IsProgram(prog), Cursor, UNCHANGED file, AtCode(prog), ReadCode
  PROVE  Reading(prog)' /\ Asks
<1>1. OpcodeBytes \in Widths /\ OpcodeBytes \in Nat \ {0}
  BY WidthsAssumption DEF Widths
<1>2. prog.code \in Seq(0 .. ByteValues ^ OpcodeBytes - 1) /\ prog.code \in Seq(Nat)
  BY ProgramIs
<1>3. PICK code \in Seq(Nat) : code = prog.code
  BY <1>2
<1>4. PICK n \in Nat : n = Len(code)
  OBVIOUS
<1>5. PICK t \in Seq(Nat) : t = After(FieldsOf(code, OpcodeBytes), 0)
  BY <1>1, FieldsType, AfterType
<1>6. CodeOf(prog) = t
  BY <1>1, <1>3, <1>5, FieldsType, AfterType DEF CodeOf
<1>7. PICK e \in Seq(Nat) : e = <<>>
  <2>1. <<>> \in Seq(Nat)
    OBVIOUS
  <2> QED BY <2>1
<1>8. Join(e, Join(t, e)) = t /\ Len(e) = 0
  BY <1>7, JoinNothing
<1>9. Remains(t) /\ load.step = "code" /\ vm = Machine(prog, KeptModules(prog), prog.refs, prog.data, Len(prog.data), <<>>)
  BY <1>6 DEF AtCode
<1>10. /\ Len(t) = n * OpcodeBytes
       /\ \A k \in 1 .. n : NumberAhead(Len(e) + (k - 1) * OpcodeBytes, OpcodeBytes) = Number(Bytes(code[k], OpcodeBytes))
  <2>1. Remains(Join(e, Join(After(FieldsOf(code, OpcodeBytes), 0), e)))
    BY <1>5, <1>8, <1>9
  <2>2. ASSUME NEW w \in Widths, Remains(Join(e, Join(After(FieldsOf(code, w), 0), e)))
        PROVE  /\ Len(After(FieldsOf(code, w), 0)) = Len(code) * w
               /\ \A k \in 1 .. Len(code) : NumberAhead(Len(e) + (k - 1) * w, w) = Number(Bytes(code[k], w))
    BY <2>2, FieldsAhead, SMTT(30)
  <2> QED BY <1>1, <1>4, <1>5, <2>1, <2>2, Zenon
<1>11. load.left = Len(t)
  <2>1. Len(file) = load.at + Len(t)
    BY <1>9, Zenon DEF Remains, Unread
  <2> QED BY <2>1 DEF Cursor
<1>12. load.left \div OpcodeBytes = n
  <2>1. load.left = OpcodeBytes * n + 0 /\ load.left \in Nat
    <3>1. \A x \in Nat : n * x = x * n + 0
      OBVIOUS
    <3> QED BY <1>1, <1>10, <1>11, <3>1
  <2>2. 0 \in Nat /\ 0 < OpcodeBytes
    BY <1>1
  <2> QED BY <1>1, <2>1, <2>2, Quotient
<1>13. [k \in 1 .. n |-> NumberAhead((k - 1) * OpcodeBytes, OpcodeBytes)] = code
  <2>1. \A k \in 1 .. Len(code) : Number(Bytes(code[k], OpcodeBytes)) = code[k]
    BY <1>1, <1>2, <1>3, Values
  <2>2. ASSUME NEW k \in 1 .. n PROVE NumberAhead((k - 1) * OpcodeBytes, OpcodeBytes) = code[k]
    <3>1. Len(e) + (k - 1) * OpcodeBytes = (k - 1) * OpcodeBytes
      <4>1. \A x \in Nat : (k - 1) * x \in Int
        OBVIOUS
      <4>2. PICK y \in Int : y = (k - 1) * OpcodeBytes
        BY <1>1, <4>1
      <4> QED BY <1>8, <4>2
    <3>2. NumberAhead(Len(e) + (k - 1) * OpcodeBytes, OpcodeBytes) = code[k]
      BY <1>4, <1>10, <2>1
    <3> QED BY <3>1, <3>2, Zenon
  <2>3. [k \in 1 .. n |-> NumberAhead((k - 1) * OpcodeBytes, OpcodeBytes)] = [k \in 1 .. n |-> code[k]]
    BY <2>2
  <2>4. [k \in 1 .. n |-> code[k]] = code
    BY <1>4
  <2> QED BY <2>3, <2>4
<1>14. vm' = [vm EXCEPT !.code = code] /\ Consume(load.left, "done") /\ UNCHANGED arenaVars
  BY <1>12, <1>13 DEF ReadCode
<1>15. Cursor' /\ load'.step = "done" /\ Remains(<<>>)'
  <2>1. Join(t, e) = t
    BY <1>7, JoinNothing
  <2>2. Cursor' /\ load'.step = "done" /\ Remains(e)'
    BY <1>9, <1>11, <1>14, <2>1, Consumed
  <2> QED BY <1>7, <2>2
<1>16. vm' = Machine(prog, KeptModules(prog), prog.refs, prog.data, Len(prog.data), code)
  BY <1>9, <1>14 DEF Machine
<1>17. vm' = Kept(prog)
  BY <1>3, <1>16, KeptIs DEF Machine
<1> QED BY <1>14, <1>15, <1>17 DEF Reading, AtDone, Asks

LEMMA StepReads ==
  ASSUME NEW prog, IsProgram(prog), Holds(prog), Reading(prog), LoadStep
  PROVE  Reading(prog)' /\ Asks
<1> USE DEF LoadStep
<1>1. Cursor /\ UNCHANGED file
  BY DEF Reading
<1>2. CASE ReadHeader
  <2>1. load.step = "header"
    BY <1>2 DEF ReadHeader
  <2>2. AtHeader(prog)
    BY <2>1 DEF Reading, AtModule, AtCfun, AtTypes, AtData, AtCode, AtDone
  <2> QED BY <1>1, <1>2, <2>2, HeaderRead
<1>3. CASE ReadModule \/ ReadReferences
  <2>1. load.step = "module"
    BY <1>3 DEF ReadModule, ReadReferences
  <2>2. PICK m \in 0 .. Len(prog.libs) : AtModule(prog, m)
    BY <2>1 DEF Reading, AtHeader, AtCfun, AtTypes, AtData, AtCode, AtDone
  <2> QED BY <1>1, <1>3, <2>2, ModuleRead, ReferencesRead
<1>4. CASE ReadCfun \/ LastCfun
  <2>1. load.step = "cfun"
    BY <1>4 DEF ReadCfun, LastCfun
  <2>2. PICK m \in 1 .. Len(prog.libs) : \E i \in 0 .. Len(CfunsOf(prog, m)) : AtCfun(prog, m, i)
    BY <2>1 DEF Reading, AtHeader, AtModule, AtTypes, AtData, AtCode, AtDone
  <2>3. PICK i \in 0 .. Len(CfunsOf(prog, m)) : AtCfun(prog, m, i)
    BY <2>2
  <2> QED BY <1>1, <1>4, <2>3, CfunRead, CfunsDone
<1>5. CASE ReadTypes
  <2>1. load.step = "atypes"
    BY <1>5 DEF ReadTypes
  <2>2. PICK m \in 1 .. Len(prog.libs) : \E i \in 1 .. Len(CfunsOf(prog, m)) : AtTypes(prog, m, i)
    BY <2>1 DEF Reading, AtHeader, AtModule, AtCfun, AtData, AtCode, AtDone
  <2>3. PICK i \in 1 .. Len(CfunsOf(prog, m)) : AtTypes(prog, m, i)
    BY <2>2
  <2> QED BY <1>1, <1>5, <2>3, TypesRead
<1>6. CASE ReadData
  <2>1. load.step = "data"
    BY <1>6 DEF ReadData
  <2>2. AtData(prog)
    BY <2>1 DEF Reading, AtHeader, AtModule, AtCfun, AtTypes, AtCode, AtDone
  <2> QED BY <1>1, <1>6, <2>2, DataRead
<1>7. CASE ReadCode
  <2>1. load.step = "code"
    BY <1>7 DEF ReadCode
  <2>2. AtCode(prog)
    BY <2>1 DEF Reading, AtHeader, AtModule, AtCfun, AtTypes, AtData, AtDone
  <2> QED BY <1>1, <1>7, <2>2, CodeRead
<1> QED BY <1>2, <1>3, <1>4, <1>5, <1>6, <1>7

(* The file is a sequence, and the loader never behind its end. *)
LEMMA WrittenType == ASSUME NEW prog, IsProgram(prog) PROVE Written(prog) \in Seq(Nat)
<1>1. Len(prog.libs) \in Nat /\ 0 \in 0 .. Len(prog.libs)
  BY BehindType
<1>2. BehindModule(prog, 0) \in Seq(Nat) /\ Bytes(Len(prog.libs), WordBytes) \in Seq(Nat)
  BY <1>1, BehindType, FileParts
<1>3. Join(Bytes(Len(prog.libs), WordBytes), BehindModule(prog, 0)) \in Seq(Nat)
  BY <1>2, JoinType
<1> QED BY <1>3, BehindType

LEMMA Within ==
  ASSUME Cursor, NEW t \in Seq(Nat), Remains(t)
  PROVE  load.at \in 0 .. Len(file) /\ load.left = Len(file) - load.at
<1>1. Len(file) = load.at + Len(t)
  BY Zenon DEF Remains, Unread
<1> QED BY <1>1 DEF Cursor

LEMMA ReadingWithin ==
  ASSUME NEW prog, IsProgram(prog), Reading(prog)
  PROVE  load.at \in 0 .. Len(file) /\ load.left = Len(file) - load.at
<1>1. Cursor
  BY DEF Reading
<1>2. CASE AtHeader(prog)
  BY <1>1, <1>2, WrittenType, Within DEF AtHeader
<1>3. ASSUME NEW m \in 0 .. Len(prog.libs), AtModule(prog, m)
      PROVE  load.at \in 0 .. Len(file) /\ load.left = Len(file) - load.at
  BY <1>1, <1>3, BehindType, Within DEF AtModule
<1>4. ASSUME NEW m \in 1 .. Len(prog.libs), NEW i \in 0 .. Len(CfunsOf(prog, m)), AtCfun(prog, m, i)
      PROVE  load.at \in 0 .. Len(file) /\ load.left = Len(file) - load.at
  BY <1>1, <1>4, BehindCfunType, Within DEF AtCfun
<1>5. ASSUME NEW m \in 1 .. Len(prog.libs), NEW i \in 1 .. Len(CfunsOf(prog, m)), AtTypes(prog, m, i)
      PROVE  load.at \in 0 .. Len(file) /\ load.left = Len(file) - load.at
  <2>1. i \in 0 .. Len(CfunsOf(prog, m)) /\ CfunsOf(prog, m)[i] \in CfunType
    BY KeptCfunsType
  <2>2. TypesOf(CfunsOf(prog, m)[i]) \in Seq(Nat) /\ BehindCfun(prog, m, i) \in Seq(Nat)
    BY <2>1, TypesType, BehindCfunType
  <2>3. Join(TypesOf(CfunsOf(prog, m)[i]), BehindCfun(prog, m, i)) \in Seq(Nat)
    BY <2>2, JoinType
  <2> QED BY <1>1, <1>5, <2>3, Within DEF AtTypes
<1>6. prog.data \in Seq(Nat) /\ CodeOf(prog) \in Seq(Nat)
  BY ProgramIs, FileParts
<1>7. CASE AtData(prog)
  <2>1. Join(prog.data, CodeOf(prog)) \in Seq(Nat)
    BY <1>6, JoinType
  <2> QED BY <1>1, <1>7, <2>1, Within DEF AtData
<1>8. CASE AtCode(prog)
  BY <1>1, <1>6, <1>8, Within DEF AtCode
<1>9. CASE AtDone(prog)
  <2>1. <<>> \in Seq(Nat)
    OBVIOUS
  <2> QED BY <1>1, <1>9, <2>1, Within DEF AtDone
<1> QED BY <1>2, <1>3, <1>4, <1>5, <1>7, <1>8, <1>9 DEF Reading

-----------------------------------------------------------------------------
(* The library.                                                            *)

(* The strengthening: at each call of main, whether the library is open.   *)
(* From the preparation on it is open exactly if the program names one;    *)
(* nothing changes the program then.                                       *)
LibraryOpen ==
  /\ pc \in {"assemble", "load", "open", "destroy vm", "destroy tci", "done", "crashed"} => open = 0
  /\ pc \in {"prepare", "functions"} => open = 1 /\ vm.count > 0
  /\ pc \in {"run", "unload"} => open = IF vm.count > 0 THEN 1 ELSE 0
  /\ pc = "open" => vm.count > 0

(* A native call that gets as far as looking for its symbol is a call of a *)
(* declared function, so there is a library.                               *)
LEMMA NativeHasLibrary == ASSUME Function(Opcode) \in 1 .. CfunCount PROVE vm.count > 0
  BY DEF CfunCount

(* The run of the program. *)
LEMMA RunKeepsLibrary ==
  ASSUME LibraryOpen, ExecNop \/ ExecHalt \/ ExecNativeFault \/ ExecNative \/ RunPastEnd
  PROVE  LibraryOpen'
<1>1. pc = "run" /\ vm' = vm /\ open = IF vm.count > 0 THEN 1 ELSE 0
  BY DEF LibraryOpen, ExecNop, ExecHalt, ExecNativeFault, ExecNative, RunPastEnd, Running, Keep
<1>2. CASE ExecNop \/ ExecHalt \/ RunPastEnd
  BY <1>1, <1>2 DEF LibraryOpen, ExecNop, ExecHalt, RunPastEnd, Goto
<1>3. CASE ExecNativeFault
  BY <1>3 DEF LibraryOpen, ExecNativeFault, Goto
<1>4. CASE ExecNative
  <2>1. vm.count > 0
    BY <1>4, NativeHasLibrary DEF ExecNative
  <2>2. \/ pc' = pc /\ open' = open
        \/ pc' = "crashed" /\ open' = open - 1
    BY <1>4 DEF ExecNative, MissingSymbol, Goto
  <2>3. open = 1 /\ open - 1 = 0
    BY <1>1, <2>1
  <2>4. CASE pc' = pc /\ open' = open
    BY <1>1, <2>1, <2>4 DEF LibraryOpen
  <2>5. CASE pc' = "crashed" /\ open' = open - 1
    BY <2>3, <2>5 DEF LibraryOpen
  <2> QED BY <2>2, <2>4, <2>5
<1> QED BY <1>2, <1>3, <1>4

(* Every call of main. *)
LEMMA StepKeepsLibrary == ASSUME LibraryOpen, [Next]_vars PROVE LibraryOpen'
<1>1. CASE UNCHANGED vars
  BY <1>1 DEF LibraryOpen, vars, mainVars
<1>2. CASE Assemble \/ Load \/ Loaded
  BY <1>2 DEF LibraryOpen, Assemble, Load, Loaded, Goto
<1>3. CASE LoadModule
  <2>1. open = 0 /\ vm.count > 0 /\ vm' = vm
    BY <1>3 DEF LibraryOpen, LoadModule
  <2>2. \/ pc' = "prepare" /\ open' = open + 1
        \/ pc' = "exited"
    BY <1>3 DEF LoadModule, Goto
  <2>3. open + 1 = 1
    BY <2>1
  <2> QED BY <2>1, <2>2, <2>3 DEF LibraryOpen
<1>4. CASE PrepareModule \/ PrepareFunction \/ Prepared
  BY <1>4 DEF LibraryOpen, PrepareModule, PrepareFunction, Prepared, Goto
<1>5. CASE ExecNop \/ ExecHalt \/ ExecNativeFault \/ ExecNative \/ RunPastEnd
  BY <1>5, RunKeepsLibrary
<1>6. CASE UnloadAll
  <2>1. CASE vm.count > 0
    <3>1. open = 1 /\ open' = open - 1
      BY <1>6, <2>1 DEF LibraryOpen, UnloadAll
    <3>2. open' = 0
      BY <3>1
    <3> QED BY <1>6, <3>2 DEF LibraryOpen, UnloadAll, Goto
  <2>2. CASE ~(vm.count > 0)
    <3>1. open = 0 /\ open' = open
      BY <1>6, <2>2 DEF LibraryOpen, UnloadAll
    <3> QED BY <1>6, <3>1 DEF LibraryOpen, UnloadAll, Goto
  <2> QED BY <2>1, <2>2
<1>7. CASE DestroyVM \/ DestroyTCI
  BY <1>7 DEF LibraryOpen, DestroyVM, DestroyTCI, Goto
<1> QED BY <1>1, <1>2, <1>3, <1>4, <1>5, <1>6, <1>7 DEF Next

(* On the way to a normal end, and to the call of a symbol the library     *)
(* does not have, what was opened is closed once: tci_get_cfunction closes *)
(* it and the process does not come to main's own tci_unload_all           *)
(* (tci.c:45-57, 124-138, tvm.c:46-51).                                    *)
THEOREM LibraryClosedOnce == Spec => []ClosedOnce
<1>1. Init => LibraryOpen
  BY DEF Init, LibraryOpen
<1>2. LibraryOpen => ClosedOnce
  BY DEF LibraryOpen, ClosedOnce
<1> QED BY <1>1, <1>2, StepKeepsLibrary, PTL DEF Spec


(* Nor is it ever open twice, or closed when it is not open. *)
LEMMA StepKeepsOpen == ASSUME LibraryOpen, open \in 0 .. 1, [Next]_vars PROVE open' \in 0 .. 1
<1>1. CASE LoadModule
  <2>1. open = 0 /\ (open' = open + 1 \/ open' = open)
    BY <1>1 DEF LibraryOpen, LoadModule
  <2> QED BY <2>1
<1>2. CASE ExecNative
  <2>1. vm.count > 0
    BY <1>2, NativeHasLibrary DEF ExecNative
  <2>2. pc = "run" /\ (open' = open - 1 \/ open' = open)
    BY <1>2 DEF ExecNative, MissingSymbol, Running
  <2>3. open = 1
    BY <2>1, <2>2 DEF LibraryOpen
  <2> QED BY <2>2, <2>3
<1>3. CASE UnloadAll
  <2>1. open = (IF vm.count > 0 THEN 1 ELSE 0) /\ open' = IF vm.count > 0 THEN open - 1 ELSE open
    BY <1>3 DEF LibraryOpen, UnloadAll
  <2> QED BY <2>1
<1>4. CASE UNCHANGED open
  BY <1>4
<1>5. ASSUME Next PROVE LoadModule \/ ExecNative \/ UnloadAll \/ UNCHANGED open
  BY <1>5 DEF Next, Assemble, Load, Loaded, PrepareModule, PrepareFunction, Prepared,
              ExecNop, ExecHalt, ExecNativeFault, RunPastEnd, DestroyVM, DestroyTCI, Keep
<1> QED BY <1>1, <1>2, <1>3, <1>4, <1>5 DEF vars, mainVars

-----------------------------------------------------------------------------
(* The program, from the assembler to the machine.                         *)

(* The invariant: before the assembler has written, nothing is read; from  *)
(* then on the loader is at one of its places in the file of this program, *)
(* and behind the loader main has what is meant to be kept of it.          *)
Fresh ==
  /\ file = <<>> /\ load = [at |-> 0, left |-> 0, step |-> "header"]
  /\ vm = [count |-> 0, modules |-> <<>>, refs |-> <<>>, data |-> <<>>, dataSize |-> 0, code |-> <<>>]
Delivery ==
  /\ program \in Programs
  /\ \/ pc \in {"assemble", "corrupt"} /\ Fresh
     \/ pc # "assemble" /\ Reading(program) /\ Holds(program)
  /\ pc \notin {"assemble", "load", "corrupt"} => load.step = "done"

LEMMA InitDelivers == Init => Delivery
<1>1. Len(<<>>) = 0
  OBVIOUS
<1> QED BY <1>1 DEF Init, LoadInit, Fresh, Delivery

LEMMA Delivered ==
  ASSUME Delivery, load.step = "done"
  PROVE  IsProgram(program) /\ vm = Kept(program)
<1>1. Reading(program)
  BY DEF Delivery, Fresh
<1>2. AtDone(program)
  BY <1>1 DEF Reading, AtHeader, AtModule, AtCfun, AtTypes, AtData, AtCode
<1> QED BY <1>2, ProgramsAssumption DEF AtDone, Delivery

(* The file is written, and the loader in front of it. *)
LEMMA WrittenReads ==
  ASSUME NEW prog, IsProgram(prog), Fresh, file' = Written(prog),
         load' = [load EXCEPT !.left = Len(file')], UNCHANGED vm
  PROVE  Reading(prog)'
<1>1. PICK w \in Seq(Nat) : w = Written(prog)
  BY WrittenType
<1>2. PICK n \in Nat : n = Len(w)
  OBVIOUS
<1>3. file' = w /\ load' = [at |-> 0, left |-> n, step |-> "header"] /\ n - 0 = n
  BY <1>1, <1>2 DEF Fresh
<1>4. load'.at = 0 /\ load'.left = n /\ load'.step = "header"
  BY <1>3
<1>5. Cursor'
  BY <1>2, <1>3, <1>4 DEF Cursor
<1>6. Unread(file', load'.at, w)
  <2>1. Len(w) = 0 + Len(w) /\ \A i \in 1 .. Len(w) : w[0 + i] = w[i]
    BY <1>2
  <2>2. Unread(w, 0, w)
    BY <2>1, Zenon DEF Unread
  <2> QED BY <1>3, <1>4, <2>2
<1>7. AtHeader(prog)'
  BY <1>1, <1>4, <1>6 DEF AtHeader, Remains, Fresh
<1> QED BY <1>5, <1>7 DEF Reading

LEMMA StepDelivers == ASSUME Delivery, [Next]_vars PROVE Delivery'
<1>0. IsProgram(program)
  BY ProgramsAssumption DEF Delivery
<1>1. CASE UNCHANGED <<program, pc, file, load, vm>>
  <2>1. Reading(program)' <=> Reading(program)
    BY <1>1 DEF Reading, Cursor, AtHeader, AtModule, AtCfun, AtTypes, AtData, AtCode, AtDone, Remains
  <2> QED BY <1>1, <2>1 DEF Delivery, Fresh
<1>2. CASE Assemble
  <2>1. UNCHANGED <<program, vm>> /\ pc' \in {"load", "corrupt"} /\ Fresh
    BY <1>2 DEF Assemble, Goto, Delivery
  <2>2. CASE Holds(program)
    <3>1. file' = Written(program) /\ load' = [load EXCEPT !.left = Len(file')]
      BY <1>2, <2>2 DEF Assemble
    <3>2. PICK prog : prog = program
      OBVIOUS
    <3>3. Reading(prog)'
      BY <1>0, <2>1, <3>1, <3>2, WrittenReads
    <3>4. Reading(program)'
      BY <2>1, <3>2, <3>3
    <3> QED BY <2>1, <2>2, <3>4 DEF Delivery
  <2>3. CASE ~Holds(program)
    BY <1>2, <2>1, <2>3 DEF Assemble, Goto, Delivery, Fresh
  <2> QED BY <2>2, <2>3
<1>3. CASE Load
  <2>1. pc = "load" /\ pc' \in {"load", "corrupt"} /\ LoadStep /\ UNCHANGED program
    BY <1>3 DEF Load, Goto
  <2>2. Reading(program) /\ Holds(program)
    BY <2>1 DEF Delivery
  <2>3. PICK prog : prog = program
    OBVIOUS
  <2>4. Reading(prog)'
    BY <1>0, <2>1, <2>2, <2>3, StepReads
  <2>5. Reading(program)'
    BY <2>1, <2>3, <2>4
  <2> QED BY <2>1, <2>2, <2>5 DEF Delivery
<1>4. CASE UNCHANGED <<program, file, load, vm>> /\ Next /\ ~Assemble
  <2>1. Reading(program)' <=> Reading(program)
    BY <1>4 DEF Reading, Cursor, AtHeader, AtModule, AtCfun, AtTypes, AtData, AtCode, AtDone, Remains
  <2>2. pc # "assemble" /\ pc # "corrupt" /\ pc' # "assemble"
        /\ (pc' \notin {"assemble", "load", "corrupt"} => load.step = "done")
    BY <1>4 DEF Delivery, Next, Load, Loaded, LoadModule, PrepareModule, PrepareFunction,
                Prepared, ExecNop, ExecHalt, ExecNativeFault, ExecNative, MissingSymbol, RunPastEnd,
                UnloadAll, DestroyVM, DestroyTCI, Goto, Running
  <2> QED BY <1>4, <2>1, <2>2 DEF Delivery
<1>5. ASSUME Next PROVE Assemble \/ Load \/ UNCHANGED <<program, file, load, vm>>
  BY <1>5 DEF Next, Loaded, LoadModule, PrepareModule, PrepareFunction, Prepared,
              ExecNop, ExecHalt, ExecNativeFault, ExecNative, RunPastEnd,
              UnloadAll, DestroyVM, DestroyTCI, Keep
<1> QED BY <1>1, <1>2, <1>3, <1>4, <1>5 DEF vars, mainVars

(* Once the loader is through, the machine has the program of the source,  *)
(* but for the ends of names and of type lists: for every program, whatever *)
(* the widths of the fields, the places and the widths the assembler's     *)
(* fwrite calls give the fields are those the machine's fread calls expect *)
(* (tasm_translator.h:785-853, tvm.h:272-358).                             *)
THEOREM LoaderReadsWriter == Spec => []RoundTrip
<1>1. Delivery => RoundTrip
  BY Delivered DEF RoundTrip
<1> QED BY <1>1, InitDelivers, StepDelivers, PTL DEF Spec
-----------------------------------------------------------------------------
(* From the declarations to the calls.                                     *)

(* The first module of the program that is kept has its functions. *)
LEMMA KeptFirst ==
  ASSUME Delivery, load.step = "done"
  PROVE  /\ vm.code = program.code /\ Len(program.cfuns) \in Nat
         /\ vm.count > 0 =>
              /\ CfunCount = Len(program.cfuns) /\ vm.modules[1].count = Len(program.cfuns)
              /\ \A i \in 1 .. Len(program.cfuns) :
                   /\ program.cfuns[i] \in CfunType
                   /\ vm.modules[1].cfuns[i] = KeptCfun(program.cfuns[i])
<1>1. PICK prog : prog = program /\ IsProgram(prog) /\ vm = Kept(prog)
  BY Delivered
<1>2. vm.count = Len(prog.libs) /\ vm.modules = KeptModules(prog) /\ vm.code = prog.code
  BY <1>1, KeptIs
<1>3. Len(prog.cfuns) \in Nat
  BY <1>1, ProgramIs
<1>4. ASSUME vm.count > 0
      PROVE  /\ CfunCount = Len(prog.cfuns) /\ vm.modules[1].count = Len(prog.cfuns)
             /\ \A i \in 1 .. Len(prog.cfuns) :
                  /\ prog.cfuns[i] \in CfunType
                  /\ vm.modules[1].cfuns[i] = KeptCfun(prog.cfuns[i])
  <2>1. 1 \in 1 .. Len(prog.libs)
    BY <1>1, <1>2, <1>4, KeptModulesType
  <2>2. CfunsOf(prog, 1) = prog.cfuns
    BY DEF CfunsOf
  <2>3. vm.modules[1] = OpenModule(prog, 1, KeptCfuns(prog, 1))
    BY <1>1, <1>2, <2>1, KeptModulesType
  <2>4. vm.modules[1].count = Len(prog.cfuns) /\ vm.modules[1].cfuns = KeptCfuns(prog, 1)
    BY <2>2, <2>3 DEF OpenModule
  <2>5. \A i \in 1 .. Len(prog.cfuns) :
          /\ prog.cfuns[i] \in CfunType
          /\ KeptCfuns(prog, 1)[i] = KeptCfun(prog.cfuns[i])
    BY <1>1, <2>1, <2>2, KeptCfunsType
  <2> QED BY <1>4, <2>4, <2>5 DEF CfunCount
<1> QED BY <1>1, <1>2, <1>3, <1>4

(* What is loaded fits the arrays of the machine, which have the bounds of *)
(* the assembler's.                                                        *)
LEMMA LoadedFits ==
  ASSUME Delivery, load.step = "done"
  PROVE  Len(vm.modules) <= MaxLibs /\ CfunCount <= MaxCfuns /\ Len(vm.code) <= MaxCode
<1>1. PICK prog : prog = program /\ IsProgram(prog) /\ vm = Kept(prog)
  BY Delivered
<1>2. Holds(prog)
  BY <1>1 DEF Delivery, Fresh
<1>3. Len(vm.modules) = Len(prog.libs) /\ vm.code = prog.code
  BY <1>1, KeptIs, KeptModulesType
<1>4. CfunCount <= MaxCfuns
  <2>1. CASE vm.count > 0
    BY <1>1, <1>2, <2>1, KeptFirst DEF Holds
  <2>2. CASE ~(vm.count > 0)
    BY <2>2, BoundsAssumption DEF CfunCount
  <2> QED BY <2>1, <2>2
<1> QED BY <1>2, <1>3, <1>4 DEF Holds

(* Sequences of whatever entries. *)
IsList(s) == Len(s) \in Nat /\ s = [k \in 1 .. Len(s) |-> s[k]]

Extends(t, s, e) ==
  /\ IsList(t) /\ Len(t) = Len(s) + 1 /\ t[Len(s) + 1] = e
  /\ \A k \in 1 .. Len(s) : t[k] = s[k]

LEMMA Appended ==
  ASSUME NEW s, IsList(s), NEW e
  PROVE  Extends(Append(s, e), s, e)
<1> DEFINE S == {s[k] : k \in 1 .. Len(s)} \union {e}
           t == Append(s, e)
<1>1. Len(s) \in Nat /\ s = [k \in 1 .. Len(s) |-> s[k]]
  BY DEF IsList
<1>2. e \in S /\ \A k \in 1 .. Len(s) : s[k] \in S
  OBVIOUS
<1> HIDE DEF S
<1>3. s \in Seq(S)
  <2>1. [k \in 1 .. Len(s) |-> s[k]] \in [1 .. Len(s) -> S]
    BY <1>2
  <2>2. s \in [1 .. Len(s) -> S]
    BY <1>1, <2>1
  <2> QED BY <1>1, <2>2
<1>4. t \in Seq(S)
  BY <1>2, <1>3
<1>5. Len(t) = Len(s) + 1 /\ t[Len(s) + 1] = e /\ \A k \in 1 .. Len(s) : t[k] = s[k]
  BY <1>2, <1>3
<1> HIDE DEF t
<1>6. Len(t) \in Nat /\ t = [k \in 1 .. Len(t) |-> t[k]]
  BY <1>4
<1>7. IsList(t)
  BY <1>6, Zenon DEF IsList
<1>8. Extends(t, s, e)
  BY <1>5, <1>7, Zenon DEF Extends
<1> QED BY <1>8 DEF t

LEMMA EmptyList == IsList(<<>>) /\ Len(<<>>) = 0
<1>1. Len(<<>>) = 0 /\ <<>> = [k \in 1 .. 0 |-> <<>>[k]]
  OBVIOUS
<1> QED BY <1>1 DEF IsList

(* What libffi was told of a function of the source. *)
Told(entry, f) ==
  /\ entry.ret = FfiType(TypeByte(f.rtype))
  /\ entry.args = [k \in DOMAIN TypesOf(f) |-> FfiType(TypesOf(f)[k])]

(* The invariant of the table: an entry for each function that main has    *)
(* come to, and for all of them when the program runs.                     *)
TableOK ==
  /\ IsList(table) /\ Len(table) <= Len(program.cfuns)
  /\ pc \in {"assemble", "load", "open", "prepare"} => table = <<>>
  /\ table # <<>> => load.step = "done" /\ vm.count > 0
  /\ \A k \in 1 .. Len(table) : Told(table[k], program.cfuns[k])
  /\ pc = "run" /\ vm.count > 0 => Len(table) = Len(program.cfuns)

LEMMA InitTable == Init => TableOK
<1> SUFFICES ASSUME Init PROVE TableOK
  OBVIOUS
<1>1. IsProgram(program) /\ table = <<>> /\ pc = "assemble"
  BY ProgramsAssumption DEF Init
<1>2. Len(program.cfuns) \in Nat
  <2>1. PICK prog : prog = program /\ IsProgram(prog)
    BY <1>1
  <2> QED BY <2>1, ProgramIs
<1> QED BY <1>1, <1>2, EmptyList DEF TableOK

LEMMA StepKeepsTable ==
  ASSUME Delivery, LibraryOpen, TableOK, [Next]_vars
  PROVE  TableOK'
<1>1. CASE UNCHANGED <<program, pc, table, load, vm>>
  BY <1>1 DEF TableOK
<1>2. CASE Assemble \/ Load
  <2>1. UNCHANGED <<program, table>> /\ table = <<>> /\ pc' # "run"
    BY <1>2 DEF Assemble, Load, Goto, TableOK
  <2> QED BY <2>1, EmptyList DEF TableOK
<1>3. CASE PrepareFunction
  <2>1. /\ pc = "functions" /\ pc' \in {"corrupt", "functions"}
        /\ UNCHANGED <<program, load, vm>>
    BY <1>3 DEF PrepareFunction, Goto
  <2>2. load.step = "done" /\ vm.count > 0
    BY <2>1 DEF Delivery, LibraryOpen
  <2>3. PICK n \in Nat : n = Len(table)
    BY DEF TableOK, IsList
  <2>4. n < Len(program.cfuns) /\ n + 1 \in 1 .. Len(program.cfuns) /\ Len(program.cfuns) \in Nat
    <3>1. n < vm.modules[1].count
      BY <1>3, <2>3 DEF PrepareFunction
    <3> QED BY <2>2, <2>3, <3>1, KeptFirst
  <2>5. PICK f \in CfunType : f = program.cfuns[n + 1] /\ vm.modules[1].cfuns[n + 1] = KeptCfun(f)
    BY <2>2, <2>4, KeptFirst
  <2>6. PICK ok \in BOOLEAN :
          table' = Append(table, [ok |-> ok, ret |-> FfiType(KeptCfun(f).rtype),
                                  args |-> [k \in DOMAIN KeptCfun(f).atypes |-> FfiType(KeptCfun(f).atypes[k])]])
    BY <1>3, <2>3, <2>5 DEF PrepareFunction
  <2>7. PICK e : e = [ok |-> ok, ret |-> FfiType(KeptCfun(f).rtype),
                      args |-> [k \in DOMAIN KeptCfun(f).atypes |-> FfiType(KeptCfun(f).atypes[k])]]
    OBVIOUS
  <2>8. Told(e, f)
    <3>1. KeptCfun(f).rtype = TypeByte(f.rtype) /\ KeptCfun(f).atypes = TypesOf(f)
      BY DEF KeptCfun
    <3> QED BY <2>7, <3>1 DEF Told
  <2>9. /\ IsList(table') /\ Len(table') = n + 1 /\ table'[n + 1] = e
        /\ \A k \in 1 .. n : table'[k] = table[k]
    <3>1. IsList(table)
      BY DEF TableOK
    <3>2. table' = Append(table, e)
      BY <2>6, <2>7
    <3>3. Extends(Append(table, e), table, e)
      BY <3>1, Appended, Zenon
    <3> QED BY <2>3, <3>2, <3>3, Zenon DEF Extends
  <2>10. \A k \in 1 .. n + 1 : Told(table'[k], program.cfuns[k])
    <3>1. \A k \in 1 .. n + 1 : k = n + 1 \/ k \in 1 .. n
      OBVIOUS
    <3>2. \A k \in 1 .. n : Told(table[k], program.cfuns[k])
      BY <2>3 DEF TableOK
    <3>3. Told(table'[n + 1], program.cfuns[n + 1])
      BY <2>5, <2>8, <2>9
    <3> QED BY <2>9, <3>1, <3>2, <3>3
  <2> QED BY <2>1, <2>2, <2>4, <2>9, <2>10 DEF TableOK
<1>4. CASE Prepared \/ Loaded
  <2>1. UNCHANGED <<program, table, load, vm>>
    BY <1>4 DEF Prepared, Loaded
  <2>2. pc' = "run" /\ vm.count > 0 => Len(table) = Len(program.cfuns)
    <3>1. CASE Prepared
      <4>1. pc = "functions" /\ Len(table) = vm.modules[1].count
        BY <3>1 DEF Prepared
      <4>2. load.step = "done" /\ vm.count > 0
        BY <4>1 DEF Delivery, LibraryOpen
      <4> QED BY <4>1, <4>2, KeptFirst
    <3>2. CASE Loaded
      BY <3>2 DEF Loaded, Goto
    <3> QED BY <1>4, <3>1, <3>2
  <2>3. pc' \in {"assemble", "load", "open", "prepare"} => table = <<>>
    BY <1>4 DEF Prepared, Loaded, Goto, TableOK
  <2> QED BY <2>1, <2>2, <2>3 DEF TableOK
<1>5. CASE /\ UNCHANGED <<program, table, load, vm>>
           /\ LoadModule \/ PrepareModule \/ ExecNop \/ ExecHalt \/ ExecNativeFault \/ ExecNative
              \/ RunPastEnd \/ UnloadAll \/ DestroyVM \/ DestroyTCI
  <2>1. pc' \in {"assemble", "load", "open", "prepare"} => table = <<>>
    BY <1>5 DEF TableOK, LoadModule, PrepareModule, ExecNop, ExecHalt, ExecNativeFault, ExecNative,
                MissingSymbol, RunPastEnd, UnloadAll, DestroyVM, DestroyTCI, Goto, Running
  <2>2. pc' = "run" => pc = "run"
    BY <1>5 DEF LoadModule, PrepareModule, ExecNop, ExecHalt, ExecNativeFault, ExecNative,
                MissingSymbol, RunPastEnd, UnloadAll, DestroyVM, DestroyTCI, Goto, Running
  <2> QED BY <1>5, <2>1, <2>2 DEF TableOK
<1>6. ASSUME Next
      PROVE  \/ Assemble \/ Load \/ PrepareFunction \/ Prepared \/ Loaded
             \/ /\ UNCHANGED <<program, table, load, vm>>
                /\ LoadModule \/ PrepareModule \/ ExecNop \/ ExecHalt \/ ExecNativeFault \/ ExecNative
                   \/ RunPastEnd \/ UnloadAll \/ DestroyVM \/ DestroyTCI
  BY <1>6 DEF Next, LoadModule, PrepareModule, ExecNop, ExecHalt, ExecNativeFault, ExecNative, RunPastEnd,
              UnloadAll, DestroyVM, DestroyTCI, Keep
<1> QED BY <1>1, <1>2, <1>3, <1>4, <1>5, <1>6 DEF vars, mainVars

Places ==
  Ends \union {"assemble", "load", "open", "prepare", "functions", "run", "unload",
               "destroy vm", "destroy tci"}
LEMMA StepKeepsPlace == ASSUME pc \in Places, [Next]_vars PROVE pc' \in Places
<1>1. ASSUME Next PROVE UNCHANGED pc \/ pc' \in Places
  BY <1>1 DEF Next, Assemble, Load, Loaded, LoadModule, PrepareModule, PrepareFunction, Prepared,
              ExecNop, ExecHalt, ExecNativeFault, ExecNative, MissingSymbol, RunPastEnd,
              UnloadAll, DestroyVM, DestroyTCI, Goto, Places, Ends
<1> QED BY <1>1 DEF vars, mainVars

(* Every variable stays in its domain, for every program: what the loader  *)
(* counts down is what it has not read, the library is open once or not at *)
(* all, and no entry of the table is for a function the module does not    *)
(* have (tvm.h:279-356, tci.c:45-104).                                     *)
THEOREM MainTyped == Spec => []TypeOK
<1> DEFINE MainInv == LibraryOpen /\ open \in 0 .. 1 /\ pc \in Places /\ Delivery /\ TableOK
<1>1. Init => MainInv
  <2>1. Init => LibraryOpen /\ open \in 0 .. 1 /\ pc \in Places
    BY DEF Init, LibraryOpen, Places
  <2> QED BY <2>1, InitDelivers, InitTable
<1>2. MainInv /\ [Next]_vars => MainInv'
  <2>1. MainInv /\ [Next]_vars => LibraryOpen' /\ open' \in 0 .. 1 /\ pc' \in Places /\ Delivery' /\ TableOK'
    BY StepKeepsLibrary, StepKeepsOpen, StepKeepsPlace, StepDelivers, StepKeepsTable
  <2>2. (open \in 0 .. 1)' <=> open' \in 0 .. 1
    OBVIOUS
  <2>3. (pc \in Places)' <=> pc' \in Places
    BY DEF Places, Ends
  <2> QED BY <2>1, <2>2, <2>3
<1>3. MainInv => TypeOK
  <2> SUFFICES ASSUME MainInv PROVE TypeOK
    OBVIOUS
  <2>1. load.at \in 0 .. Len(file) /\ load.left = Len(file) - load.at
    <3>1. CASE Fresh
      <4>1. Len(<<>>) = 0
        OBVIOUS
      <4> QED BY <3>1, <4>1 DEF Fresh
    <3>2. CASE Reading(program)
      <4>1. PICK prog : prog = program /\ IsProgram(prog)
        BY ProgramsAssumption DEF Delivery
      <4> QED BY <3>2, <4>1, ReadingWithin
    <3> QED BY <3>1, <3>2 DEF Delivery
  <2>2. table # <<>> => Len(table) <= CfunCount
    BY KeptFirst DEF TableOK
  <2>3. ASSUME load.step = "done"
        PROVE  Len(vm.modules) <= MaxLibs /\ CfunCount <= MaxCfuns /\ Len(vm.code) <= MaxCode
    BY <2>3, LoadedFits
  <2> QED BY <2>1, <2>2, <2>3 DEF TypeOK, Places
<1> QED BY <1>1, <1>2, <1>3, PTL DEF Spec

(* A call of a function of the source: to the symbol that is kept of its   *)
(* name, with the types libffi was told.                                   *)
Made(call, f) == call.symbol = First(f.symbol, 1) /\ Told(call, f)

Caller(call) == program.code[call.at + 1]

(* The invariant of the calls: each was made by the native instruction at  *)
(* its place, which is behind that of the call before it and in front of   *)
(* the instruction pointer.                                                *)
CallsOK ==
  /\ IsList(calls) /\ ip \in Nat
  /\ \A k \in 1 .. Len(calls) :
       /\ calls[k].at \in Nat /\ calls[k].at < ip
       /\ Function(Caller(calls[k])) \in 1 .. Len(program.cfuns)
       /\ Made(calls[k], program.cfuns[Function(Caller(calls[k]))])
       /\ k > 1 => calls[k - 1].at < calls[k].at

LEMMA CallsGrow ==
  ASSUME CallsOK, UNCHANGED <<program, calls>>, ip' = ip \/ ip' = ip + 1
  PROVE  CallsOK'
<1>1. ip' \in Nat /\ ip <= ip'
  BY DEF CallsOK
<1>2. \A x \in Nat : x < ip => x < ip'
  BY <1>1 DEF CallsOK
<1> QED BY <1>1, <1>2 DEF CallsOK, Caller

LEMMA NativeKeepsCalls ==
  ASSUME Delivery, TableOK, CallsOK, ExecNative
  PROVE  CallsOK'
<1>1. pc = "run" /\ ip <= Len(vm.code) /\ UNCHANGED <<program, vm>>
  BY DEF ExecNative, Running, Keep
<1>2. load.step = "done" /\ vm.count > 0
  BY <1>1, NativeHasLibrary DEF Delivery, ExecNative
<1>3. /\ vm.code = program.code /\ Len(program.cfuns) \in Nat
      /\ CfunCount = Len(program.cfuns)
      /\ \A i \in 1 .. Len(program.cfuns) :
           /\ program.cfuns[i] \in CfunType
           /\ vm.modules[1].cfuns[i] = KeptCfun(program.cfuns[i])
  BY <1>2, KeptFirst
<1> DEFINE id == Function(Opcode)
<1>4. id \in 1 .. Len(program.cfuns) /\ IsNative(Opcode)
  BY <1>3 DEF ExecNative
<1>5. Opcode = program.code[ip + 1]
  BY <1>3, <1>4 DEF Opcode, IsNative, Halt, Nop
<1>6. PICK f \in CfunType : f = program.cfuns[id] /\ vm.modules[1].cfuns[id] = KeptCfun(f)
  BY <1>3, <1>4
<1>7. KeptCfun(f).symbol = First(f.symbol, 1)
  BY DEF KeptCfun
<1>8. Told(table[id], f)
  BY <1>1, <1>2, <1>4, <1>6 DEF TableOK
<1>9. PICK c : c = [at |-> ip, symbol |-> First(f.symbol, 1), ret |-> table[id].ret, args |-> table[id].args]
  OBVIOUS
<1>10. \/ UNCHANGED calls /\ (ip' = ip \/ ip' = ip + 1)
       \/ calls' = Append(calls, c) /\ ip' = ip + 1
  BY <1>6, <1>7, <1>9 DEF ExecNative, MissingSymbol
<1>11. CASE calls' = Append(calls, c) /\ ip' = ip + 1
  <2>1. c.at = ip /\ ip \in Nat /\ IsList(calls)
    BY <1>9 DEF CallsOK
  <2>2. Made(c, f)
    BY <1>8, <1>9 DEF Made, Told
  <2>3. PICK n \in Nat : n = Len(calls)
    BY <2>1 DEF IsList
  <2>4. /\ IsList(calls') /\ Len(calls') = n + 1 /\ calls'[n + 1] = c
        /\ \A k \in 1 .. n : calls'[k] = calls[k]
    <3>1. Extends(Append(calls, c), calls, c)
      BY <2>1, Appended, Zenon
    <3> QED BY <1>11, <2>3, <3>1, Zenon DEF Extends
  <2>5. /\ c.at \in Nat /\ c.at < ip + 1 /\ Caller(c) = Opcode
        /\ Function(Caller(c)) \in 1 .. Len(program.cfuns)
        /\ Made(c, program.cfuns[Function(Caller(c))])
    BY <1>4, <1>5, <1>6, <2>1, <2>2 DEF Caller
  <2>6. ASSUME NEW k \in 1 .. n
        PROVE  /\ calls'[k].at \in Nat /\ calls'[k].at < ip /\ calls'[k].at < ip + 1
               /\ Function(Caller(calls'[k])) \in 1 .. Len(program.cfuns)
               /\ Made(calls'[k], program.cfuns[Function(Caller(calls'[k]))])
               /\ k > 1 => calls'[k - 1].at < calls'[k].at
    <3>1. calls'[k] = calls[k] /\ (k > 1 => calls'[k - 1] = calls[k - 1])
      BY <2>4
    <3>2. /\ calls[k].at \in Nat /\ calls[k].at < ip
          /\ Function(Caller(calls[k])) \in 1 .. Len(program.cfuns)
          /\ Made(calls[k], program.cfuns[Function(Caller(calls[k]))])
          /\ k > 1 => calls[k - 1].at < calls[k].at
      BY <2>3 DEF CallsOK
    <3>3. calls[k].at < ip + 1
      BY <2>1, <3>2
    <3> QED BY <3>1, <3>2, <3>3
  <2>7. n + 1 > 1 => calls'[(n + 1) - 1].at < c.at
    <3>1. ASSUME n + 1 > 1 PROVE n \in 1 .. n /\ (n + 1) - 1 = n
      BY <3>1
    <3> QED BY <2>1, <2>6, <3>1
  <2>8. \A k \in 1 .. n + 1 : k = n + 1 \/ k \in 1 .. n
    OBVIOUS
  <2>9. ip' \in Nat /\ ip' = ip + 1
    BY <1>11, <2>1
  <2>10. \A k \in 1 .. n + 1 :
           /\ calls'[k].at \in Nat /\ calls'[k].at < ip'
           /\ Function(Caller(calls'[k])) \in 1 .. Len(program.cfuns)
           /\ Made(calls'[k], program.cfuns[Function(Caller(calls'[k]))])
           /\ k > 1 => calls'[k - 1].at < calls'[k].at
    BY <2>4, <2>5, <2>6, <2>7, <2>8, <2>9
  <2> QED BY <1>1, <2>4, <2>9, <2>10 DEF CallsOK, Caller
<1>12. CASE UNCHANGED calls /\ (ip' = ip \/ ip' = ip + 1)
  BY <1>1, <1>12, CallsGrow
<1> QED BY <1>10, <1>11, <1>12

LEMMA StepKeepsCalls ==
  ASSUME Delivery, TableOK, CallsOK, [Next]_vars
  PROVE  CallsOK'
<1>1. CASE UNCHANGED <<program, calls>> /\ (ip' = ip \/ ip' = ip + 1)
  BY <1>1, CallsGrow
<1>2. ASSUME Next PROVE ExecNative \/ (UNCHANGED <<program, calls>> /\ (ip' = ip \/ ip' = ip + 1))
  BY <1>2 DEF Next, Assemble, Load, Loaded, LoadModule, PrepareModule, PrepareFunction, Prepared,
              ExecNop, ExecHalt, ExecNativeFault, RunPastEnd, UnloadAll, DestroyVM, DestroyTCI, Keep
<1> QED BY <1>1, <1>2, NativeKeepsCalls DEF vars, mainVars

(* The types the source names are those libffi is given, by way of the     *)
(* byte of the file and the number of tvm_ctype.                           *)
LEMMA TypesDeclared == ASSUME NEW t \in CType PROVE FfiType(TypeByte(t)) = Declared[t]
<1>1. DOMAIN CTypes = 1 .. 12
  BY DEF CTypes
<1>2. PICK k \in 1 .. 12 : t = CTypes[k]
  BY <1>1 DEF CType
<1>3. \A j \in 1 .. 12 : CTypes[j] = CTypes[k] => j = k
  BY DEF CTypes
<1>4. (CHOOSE j \in DOMAIN CTypes : CTypes[j] = t) = k
  BY <1>1, <1>2, <1>3
<1>5. TypeByte(t) + 1 = k
  <2>1. TypeByte(t) = k - 1
    BY <1>4, Zenon DEF TypeByte
  <2> QED BY <2>1
<1>6. FfiTypes[k] = Declared[CTypes[k]]
  BY DEF FfiTypes, Declared, CTypes
<1> QED BY <1>2, <1>5, <1>6 DEF FfiType

(* What fits its field is kept whole. *)
LEMMA WholeIsKept ==
  ASSUME NEW T, NEW s \in Seq(T), NEW w \in Widths, Len(s) < ByteValues ^ w
  PROVE  First(s, w) = s
<1>1. PICK p \in Nat \ {0} : p = ByteValues ^ w
  <2>1. w \in 0 .. w
    BY WidthsAssumption
  <2> QED BY <2>1, Powers
<1>2. Len(s) \in Nat /\ Len(s) % p = Len(s)
  BY <1>1
<1>3. Wrapped(Len(s), w) = Len(s)
  BY <1>1, <1>2 DEF Wrapped
<1>4. SubSeq(s, 1, Len(s)) = s
  OBVIOUS
<1> QED BY <1>3, <1>4 DEF First

LEMMA MadeAsDeclared ==
  ASSUME NEW f \in CfunType, NEW c, Made(c, f)
  PROVE  /\ Len(f.symbol) < ByteValues => c.symbol = f.symbol
         /\ Len(f.atypes) < ByteValues ^ ShortBytes =>
              c.args = [j \in DOMAIN f.atypes |-> Declared[f.atypes[j]]]
         /\ c.ret = Declared[f.rtype]
<1>1. /\ f.symbol \in Seq(0 .. ByteValues - 1) /\ f.rtype \in CType /\ f.atypes \in Seq(CType)
      /\ 1 \in Widths /\ ShortBytes \in Widths
  BY DEF CfunType, Widths
<1>2. ByteValues ^ 1 = ByteValues
  <2>1. ByteValues ^ 0 = 1 /\ \A k \in 1 .. 1 : ByteValues ^ k = ByteValues * ByteValues ^ (k - 1)
    BY <1>1, WidthsAssumption
  <2>2. ByteValues ^ 1 = ByteValues * ByteValues ^ (1 - 1) /\ 1 - 1 = 0
    BY <2>1
  <2>3. ByteValues \in Nat /\ ByteValues * 1 = ByteValues
    BY WidthsAssumption
  <2> QED BY <2>1, <2>2, <2>3
<1>3. Len(f.symbol) < ByteValues => c.symbol = f.symbol
  BY <1>1, <1>2, WholeIsKept DEF Made
<1>4. ASSUME Len(f.atypes) < ByteValues ^ ShortBytes
      PROVE  c.args = [j \in DOMAIN f.atypes |-> Declared[f.atypes[j]]]
  <2>1. First(f.atypes, ShortBytes) = f.atypes
    BY <1>1, <1>4, WholeIsKept
  <2>2. TypesOf(f) = [j \in DOMAIN f.atypes |-> TypeByte(f.atypes[j])]
    BY <2>1 DEF TypesOf
  <2>3. c.args = [j \in DOMAIN f.atypes |-> FfiType(TypeByte(f.atypes[j]))]
    BY <2>2 DEF Made, Told
  <2>4. \A j \in DOMAIN f.atypes : FfiType(TypeByte(f.atypes[j])) = Declared[f.atypes[j]]
    BY <1>1, TypesDeclared
  <2> QED BY <2>3, <2>4
<1>5. c.ret = Declared[f.rtype]
  BY <1>1, TypesDeclared DEF Made, Told
<1> QED BY <1>3, <1>4, <1>5

(* From the source to libffi, for every program, whatever the library      *)
(* exports and whatever libffi refuses: every call is made by a native     *)
(* instruction that names a function of the source, goes to that           *)
(* function's symbol and has the types declared for it, as far as their    *)
(* fields hold them (tasm_translator.h:572-580, tci.c:59-122).             *)
THEOREM CallsAsDeclared == Spec => []CallsMatchDeclarations
<1> DEFINE MainInv == LibraryOpen /\ Delivery /\ TableOK /\ CallsOK
<1>1. Init => MainInv
  <2>1. Init => LibraryOpen
    BY DEF Init, LibraryOpen
  <2>2. Init => CallsOK
    BY EmptyList DEF Init, CallsOK
  <2> QED BY <2>1, <2>2, InitDelivers, InitTable
<1>2. MainInv /\ [Next]_vars => MainInv'
  BY StepKeepsLibrary, StepDelivers, StepKeepsTable, StepKeepsCalls
<1>3. MainInv => CallsMatchDeclarations
  <2> SUFFICES ASSUME MainInv PROVE CallsMatchDeclarations
    OBVIOUS
  <2>1. DOMAIN calls = 1 .. Len(calls)
    BY DEF CallsOK, IsList
  <2>2. program.cfuns \in Seq(CfunType)
    <3>1. PICK prog : prog = program /\ IsProgram(prog)
      BY ProgramsAssumption DEF Delivery
    <3> QED BY <3>1, ProgramIs
  <2>3. ASSUME NEW k \in 1 .. Len(calls), NEW f, f = program.cfuns[Function(Caller(calls[k]))]
        PROVE  /\ k > 1 => calls[k - 1].at < calls[k].at
               /\ Len(f.symbol) < ByteValues => calls[k].symbol = f.symbol
               /\ Len(f.atypes) < ByteValues ^ ShortBytes =>
                    calls[k].args = [j \in DOMAIN f.atypes |-> Declared[f.atypes[j]]]
               /\ calls[k].ret = Declared[f.rtype]
    <3>1. /\ Function(Caller(calls[k])) \in 1 .. Len(program.cfuns) /\ Made(calls[k], f)
          /\ k > 1 => calls[k - 1].at < calls[k].at
      BY <2>3 DEF CallsOK
    <3>2. f \in CfunType
      BY <2>2, <2>3, <3>1
    <3> QED BY <3>1, <3>2, MadeAsDeclared
  <2> QED BY <2>1, <2>3 DEF CallsMatchDeclarations, Caller
<1> QED BY <1>1, <1>2, <1>3, PTL DEF Spec

-----------------------------------------------------------------------------
(* main as a client of the arenas.                                         *)

(* No arena was destroyed before main comes to it. *)
ArenasInUse ==
  /\ pc \notin {"destroy tci", "done"} => InUse(ProgramArena)
  /\ pc # "done" => InUse(FfiArena)

(* The beginning. *)
LEMMA InitArenas == Init => ArenaInit /\ ArenasInUse
<1> SUFFICES ASSUME Init PROVE ArenaInit /\ ArenasInUse
  OBVIOUS
<1> DEFINE P == Region(ProgramArena, 0, Null)
           F == Region(FfiArena, 0, Null)
<1>1. FfiArena # ProgramArena /\ Arenas = {ProgramArena, FfiArena}
  BY ArenasAssumption
<1>2. P.arena = ProgramArena /\ F.arena = FfiArena /\ P.frees = 0 /\ F.frees = 0
  BY DEF Region
<1>3. /\ regions = <<P, F>> /\ blocks = <<>>
      /\ handle = [a \in Arenas |-> IF a = ProgramArena THEN 1 ELSE 2]
  BY DEF Init
<1>4. P \in {Region(a, 0, Null) : a \in Arenas} /\ F \in {Region(a, 0, Null) : a \in Arenas}
  BY <1>1
<1> HIDE DEF P, F
<1>5. /\ regions \in Seq({Region(a, 0, Null) : a \in Arenas})
      /\ DOMAIN regions = {1, 2} /\ regions[1] = P /\ regions[2] = F
  BY <1>3, <1>4
<1>6. handle \in [Arenas -> DOMAIN regions] /\ handle[ProgramArena] = 1 /\ handle[FfiArena] = 2
  BY <1>1, <1>3, <1>5
<1> QED BY <1>1, <1>2, <1>3, <1>5, <1>6 DEF ArenaInit, ArenasInUse, InUse

LEMMA Products == \A a, b \in Nat : a * b \in Nat
  OBVIOUS

(* What main asks the arenas for is a number of bytes, and it asks only    *)
(* arenas it did not destroy.                                              *)
LEMMA StepUsesArenas ==
  ASSUME LibraryOpen, Delivery, TableOK, IInv, LeakInv, ArenasInUse, [Next]_vars, Requests = Nat
  PROVE  [ArenaNext]_arenaVars /\ ArenasInUse'
<1>1. ProgramArena \in Arenas /\ FfiArena \in Arenas /\ FfiArena # ProgramArena
  BY ArenasAssumption
<1>2. CASE UNCHANGED <<pc, arenaVars>>
  BY <1>2 DEF ArenasInUse, InUse, arenaVars
<1>3. ASSUME NEW a \in Arenas, NEW n \in Nat, Alloc(a, n) \/ AllocByCopy(a, n),
             pc \notin {"destroy tci", "done"}
      PROVE  ArenaNext /\ InUse(ProgramArena)' /\ InUse(FfiArena)'
  <2>1. InUse(ProgramArena) /\ InUse(FfiArena) /\ a \in {ProgramArena, FfiArena}
    BY <1>3, ArenasAssumption DEF ArenasInUse
  <2>2. InUse(a)
    BY <2>1
  <2>3. ArenaNext
    BY <1>3, <2>2 DEF ArenaNext
  <2>4. InUse(ProgramArena)' /\ InUse(FfiArena)'
    BY <1>1, <1>3, <2>1, <2>2, AllocKeepsUse
  <2> QED BY <2>3, <2>4
<1>4. CASE Load
  <2>1. Asks /\ pc = "load" /\ pc' \in {"load", "corrupt"}
    <3>1. pc = "load" /\ pc' \in {"load", "corrupt"} /\ LoadStep
      BY <1>4 DEF Load, Goto
    <3>2. PICK prog : prog = program /\ IsProgram(prog) /\ Reading(prog) /\ Holds(prog)
      BY <3>1, ProgramsAssumption DEF Delivery
    <3> QED BY <3>1, <3>2, StepReads
  <2>2. CASE UNCHANGED arenaVars
    BY <2>1, <2>2 DEF ArenasInUse, InUse, arenaVars
  <2>3. CASE \E n \in Nat : Alloc(ProgramArena, n)
    <3>1. PICK n \in Nat : Alloc(ProgramArena, n)
      BY <2>3
    <3> QED BY <1>1, <1>3, <2>1, <3>1 DEF ArenasInUse
  <2> QED BY <2>1, <2>2, <2>3 DEF Asks
<1>5. ASSUME pc \in {"prepare", "functions"}
      PROVE  /\ vm.modules[1].count \in Nat
             /\ \A k \in 1 .. vm.modules[1].count : vm.modules[1].cfuns[k] \in ReadCfunType
  <2>1. load.step = "done" /\ vm.count > 0
    BY <1>5 DEF Delivery, LibraryOpen
  <2> QED BY <2>1, KeptFirst, KeptCfunType
<1>6. CASE PrepareModule
  <2>1. pc = "prepare" /\ pc' \in {"functions", "corrupt"}
        /\ Alloc(FfiArena, FunctionBytes * vm.modules[1].count)
    BY <1>6 DEF PrepareModule, Goto
  <2>2. FunctionBytes * vm.modules[1].count \in Nat
    <3>1. vm.modules[1].count \in Nat
      BY <1>5, <2>1
    <3> QED BY <3>1, EntriesAssumption, Products
  <2> QED BY <1>1, <1>3, <2>1, <2>2 DEF ArenasInUse
<1>7. CASE PrepareFunction
  <2> DEFINE f == vm.modules[1].cfuns[Len(table) + 1]
  <2>1. /\ pc = "functions" /\ pc' \in {"functions", "corrupt"}
        /\ AllocByCopy(FfiArena, PointerBytes * f.acount) /\ Len(table) < vm.modules[1].count
    BY <1>7 DEF PrepareFunction, Goto
  <2>2. f \in ReadCfunType
    <3>1. Len(table) \in Nat /\ vm.modules[1].count \in Nat
      BY <1>5, <2>1 DEF TableOK, IsList
    <3>2. Len(table) + 1 \in 1 .. vm.modules[1].count
      BY <2>1, <3>1
    <3> QED BY <1>5, <2>1, <3>2
  <2>3. PointerBytes * f.acount \in Nat
    <3>1. f.acount \in Nat
      BY <2>2 DEF ReadCfunType
    <3> QED BY <3>1, EntriesAssumption, Products
  <2> QED BY <1>1, <1>3, <2>1, <2>3 DEF ArenasInUse
<1>8. CASE DestroyVM
  <2>1. pc = "destroy vm" /\ pc' = "destroy tci" /\ Destroy(ProgramArena)
    BY <1>8 DEF DestroyVM, DestroyArena, Goto
  <2>2. InUse(ProgramArena) /\ InUse(FfiArena)
    BY <2>1 DEF ArenasInUse
  <2>3. ArenaNext
    BY <1>1, <2>1, <2>2 DEF ArenaNext
  <2>4. InUse(FfiArena)'
    BY <1>1, <2>1, <2>2, DestroyKeepsUse DEF LeakInv
  <2> QED BY <2>1, <2>3, <2>4 DEF ArenasInUse
<1>9. CASE DestroyTCI
  <2>1. pc = "destroy tci" /\ pc' = "done" /\ Destroy(FfiArena)
    BY <1>9 DEF DestroyTCI, DestroyArena, Goto
  <2>2. InUse(FfiArena)
    BY <2>1 DEF ArenasInUse
  <2> QED BY <1>1, <2>1, <2>2 DEF ArenaNext, ArenasInUse
<1>10. ASSUME Next
       PROVE  \/ Load \/ PrepareModule \/ PrepareFunction \/ DestroyVM \/ DestroyTCI
              \/ UNCHANGED arenaVars /\ pc \notin {"destroy tci", "done"}
                 /\ pc' \notin {"destroy tci", "done"}
  BY <1>10 DEF Next, Assemble, Loaded, LoadModule, Prepared,
               ExecNop, ExecHalt, ExecNativeFault, ExecNative, MissingSymbol, RunPastEnd,
               UnloadAll, Keep, Goto, Running
<1>11. CASE UNCHANGED arenaVars /\ pc \notin {"destroy tci", "done"}
            /\ pc' \notin {"destroy tci", "done"}
  BY <1>11 DEF ArenasInUse, InUse, arenaVars
<1> QED BY <1>2, <1>4, <1>6, <1>7, <1>8, <1>9, <1>10, <1>11 DEF vars, mainVars

(* Whatever the program, main asks the arenas for numbers of bytes, by     *)
(* reference for the program and by copy for the argument types, destroys  *)
(* each arena once and uses none that is destroyed: it is a client as      *)
(* Arena has them, for requests of every size (tvm.h:272-358,              *)
(* tci.c:59-90, tvm.c:46-51).                                              *)
THEOREM MainUsesArenas == ASSUME Requests = Nat PROVE Spec => ArenaSpec
<1> DEFINE MainInv == LibraryOpen /\ Delivery /\ TableOK /\ IInv /\ LeakInv /\ ArenasInUse
<1>1. Init => MainInv /\ ArenaInit
  <2>1. Init => LibraryOpen
    BY DEF Init, LibraryOpen
  <2> QED BY <2>1, InitDelivers, InitTable, InitArenas, InitEstablishes, InitChained
<1>2. MainInv /\ [Next]_vars => MainInv' /\ [ArenaNext]_arenaVars
  BY StepKeepsLibrary, StepDelivers, StepKeepsTable, StepUsesArenas, StepKeeps, StepKeepsChain
<1> QED BY <1>1, <1>2, PTL DEF Spec, ArenaSpec

(* In the machine itself, then: its blocks share no byte, only one larger  *)
(* than a region runs past it, and of its regions only those are leaked    *)
(* that another took the place of (arena.h:55-101 as tvm.h and tci.c call  *)
(* it).                                                                    *)
THEOREM MainArenasCorrect ==
  ASSUME Requests = Nat
  PROVE  Spec => [](BlocksDisjoint /\ OnlyLargeBlocksOverrun /\ OnlyDisplacedRegionsLeak)
<1>1. IInv /\ LeakInv => BlocksDisjoint /\ OnlyLargeBlocksOverrun /\ OnlyDisplacedRegionsLeak
  BY DEF IInv, LeakInv
<1>2. ArenaInit => IInv /\ LeakInv
  BY InitEstablishes, InitChained
<1>3. IInv /\ LeakInv /\ [ArenaNext]_arenaVars => IInv' /\ LeakInv'
  BY StepKeeps, StepKeepsChain
<1>4. Spec => ArenaSpec
  BY MainUsesArenas
<1> QED BY <1>1, <1>2, <1>3, <1>4, PTL DEF ArenaSpec
=============================================================================
