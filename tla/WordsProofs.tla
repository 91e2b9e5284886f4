----------------------------- MODULE WordsProofs -----------------------------
(***************************************************************************)
(* Facts about bytes, words and addresses, for every size of them.         *)
(***************************************************************************)
EXTENDS Words, TLAPS

\* The sizes are positive, and a word has room for a byte and for an address.
LEMMA Sizes ==
  /\ ByteSize \in Nat /\ ByteSize > 1
  /\ AddressSize \in Nat /\ AddressSize > 5
  /\ DisplacementSize \in Nat
  /\ WordSize \in Nat /\ WordSize > 0
  /\ Byte \subseteq Word
  /\ Address \subseteq Word
<1>1. ByteSize \in Nat /\ ByteSize > 1 /\ AddressSize \in Nat /\ AddressSize > 5
      /\ DisplacementSize \in Nat
  BY SizeAssumption
<1>2. WordSize \in Nat /\ ByteSize <= WordSize
  <2>1. ByteSize * ByteSize \in Nat /\ ByteSize <= ByteSize * ByteSize
    BY <1>1
  <2>2. QED
    BY <1>1, <2>1 DEF WordSize
<1>3. AddressSize <= WordSize
  BY SizeAssumption DEF WordSize
<1>4. QED
  BY <1>1, <1>2, <1>3 DEF Byte, Word, Address

\* Trimming makes a word, or an address, out of any integer.
LEMMA TrimWordType == ASSUME NEW v \in Int PROVE TrimWord(v) \in Word
  BY Sizes DEF TrimWord, Word

LEMMA TrimAddressType == ASSUME NEW v \in Int PROVE TrimAddress(v) \in Address
  BY Sizes DEF TrimAddress, Address

\* The cells of an access lie in memory wherever it begins.
LEMMA CellType == ASSUME NEW a \in Int, NEW k \in Int PROVE Cell(a, k) \in Address
  BY TrimAddressType DEF Cell

\* Three bytes make a word.
LEMMA WordOfBytes ==
  ASSUME NEW p \in Byte, NEW q \in Byte, NEW r \in Byte
  PROVE  (p * ByteSize + q) * ByteSize + r \in Word
<1> DEFINE B == ByteSize
<1>1. B \in Nat /\ B > 1 /\ p \in Nat /\ q \in Nat /\ r \in Nat
      /\ p <= B - 1 /\ q <= B - 1 /\ r <= B - 1
  BY Sizes DEF Byte
<1>2. p * B \in Nat /\ p * B <= (B - 1) * B
  BY <1>1
<1> DEFINE upper == p * B + q
<1>3. upper \in Nat /\ upper <= B * B - 1
  BY <1>1, <1>2
<1>4. upper * B \in Nat /\ upper * B <= (B * B - 1) * B
  BY <1>1, <1>3
<1>5. upper * B + r \in Nat /\ upper * B + r <= B * B * B - 1
  <2>1. B * B \in Nat
    BY <1>1
  <2>2. (B * B - 1) * B = B * B * B - B
    BY <1>1, <2>1
  <2>3. B * B * B \in Nat
    BY <1>1, <2>1
  <2> HIDE DEF upper
  <2>4. QED
    BY <1>1, <1>4, <2>2, <2>3
<1>6. QED
  BY <1>5 DEF Word, WordSize

\* A word read with its sign is a number, and 0 only for 0.
LEMMA SignExtendWordType ==
  ASSUME NEW w \in Word
  PROVE  /\ SignExtendWord(w) \in Int
         /\ SignExtendWord(w) = 0 => w = 0
  BY Sizes DEF SignExtendWord, Word

-----------------------------------------------------------------------------
(***************************************************************************)
(* Division with a remainder.                                              *)
(***************************************************************************)
LEMMA DivisionParts ==
  ASSUME NEW a \in Nat, NEW n \in Nat \ {0}
  PROVE  /\ a \div n \in Nat /\ a % n \in 0 .. n - 1
         /\ a = (a \div n) * n + (a % n)
  OBVIOUS

LEMMA QuotientBelow ==
  ASSUME NEW a \in Nat, NEW n \in Nat \ {0}, NEW m \in Nat, a < m * n
  PROVE  a \div n < m
<1> DEFINE q == a \div n
           r == a % n
<1>1. q \in Nat /\ r \in Nat /\ a = q * n + r
  BY DivisionParts
<1> HIDE DEF q, r
<1>2. SUFFICES ASSUME q >= m PROVE FALSE
  BY <1>1 DEF q
<1>3. PICK d \in Nat : q = m + d
  BY <1>1, <1>2
<1>4. q * n = m * n + d * n /\ d * n \in Nat /\ m * n \in Nat
  BY <1>3
<1>5. QED
  BY <1>1, <1>4

\* A byte of a word replaced by another: the word has k bytes' worth above it and
\* weight below.
LEMMA ByteReplaced ==
  ASSUME NEW word \in Word, NEW weight \in Nat \ {0}, NEW k \in Nat \ {0}, NEW byte \in Byte,
         k * ByteSize * weight = WordSize
  PROVE  word - ((word \div weight) % ByteSize) * weight + byte * weight \in Word
<1> DEFINE B == ByteSize
           q == word \div weight
           r == word % weight
           d == q % B
           u == q \div B
<1>1. B \in Nat \ {0} /\ WordSize \in Nat /\ word \in Nat /\ word < WordSize
      /\ byte \in Nat /\ byte <= B - 1
  BY Sizes DEF Word, Byte
<1>2. q \in Nat /\ r \in 0 .. weight - 1 /\ word = q * weight + r
  BY <1>1, DivisionParts
<1>3. u \in Nat /\ d \in 0 .. B - 1 /\ q = u * B + d
  BY <1>1, <1>2, DivisionParts
<1>4. k * B \in Nat /\ q < k * B
  BY <1>1, QuotientBelow
<1>5. u < k
  BY <1>1, <1>2, <1>4, QuotientBelow
<1> HIDE DEF q, r, d, u, B
<1>6. word - d * weight + byte * weight = (u * B + byte) * weight + r
  <2>1. q * weight = (u * B) * weight + d * weight
    BY <1>1, <1>3
  <2>2. (u * B + byte) * weight = (u * B) * weight + byte * weight
    BY <1>1, <1>3
  <2>3. (u * B) * weight \in Int /\ d * weight \in Int /\ byte * weight \in Int
    BY <1>1, <1>3
  <2>4. QED
    BY <1>1, <1>2, <2>1, <2>2, <2>3
<1>7. u * B + byte \in Nat /\ u * B + byte + 1 <= k * B
  <2>1. PICK e \in Nat : k = u + 1 + e
    BY <1>3, <1>5
  <2>2. k * B = u * B + B + e * B /\ e * B \in Nat /\ u * B \in Nat
    BY <1>1, <1>3, <2>1
  <2>3. QED
    BY <1>1, <2>2
<1>8. (u * B + byte) * weight + r \in Nat /\ (u * B + byte) * weight + r < (k * B) * weight
  <2> DEFINE v == u * B + byte
             p == k * B
  <2>1. v \in Nat /\ p \in Nat /\ v + 1 <= p
    BY <1>4, <1>7
  <2> HIDE DEF v, p
  <2>2. PICK e \in Nat : p = v + 1 + e
    <3>1. p - v - 1 \in Nat /\ p = v + 1 + (p - v - 1)
      BY <2>1
    <3>2. QED
      BY <3>1
  <2>3. p * weight = v * weight + weight + e * weight
        /\ e * weight \in Nat /\ v * weight \in Nat
    BY <2>1, <2>2
  <2>4. QED
    BY <1>2, <2>3 DEF v, p
<1>9. QED
  BY <1>1, <1>6, <1>8 DEF Word, q, d, B

-----------------------------------------------------------------------------
(***************************************************************************)
(* Memory accesses.                                                        *)
(***************************************************************************)
Memory == [Address -> Byte]

LEMMA ReadMemoryWordType ==
  ASSUME NEW m \in Memory, NEW a \in Int
  PROVE  ReadMemoryWord(m, a) \in Word
<1>1. m[Cell(a, 0)] \in Byte /\ m[Cell(a, 1)] \in Byte /\ m[Cell(a, 2)] \in Byte
  BY CellType DEF Memory
<1>2. QED
  BY <1>1, WordOfBytes DEF ReadMemoryWord

LEMMA ReadMemoryByteType ==
  ASSUME NEW m \in Memory, NEW a \in Int
  PROVE  ReadMemoryByte(m, a) \in Byte
  BY CellType DEF ReadMemoryByte, Memory

LEMMA ReadMemoryFloatType ==
  ASSUME NEW m \in Memory, NEW a \in Int
  PROVE  ReadMemoryFloat(m, a) \in FloatData
  BY CellType DEF ReadMemoryFloat, Memory, FloatData, FloatLength

LEMMA WriteMemoryByteType ==
  ASSUME NEW m \in Memory, NEW a \in Int, NEW v \in Int
  PROVE  WriteMemoryByte(m, a, v) \in Memory
<1>1. v % ByteSize \in Byte
  BY Sizes DEF Byte
<1>2. QED
  BY <1>1 DEF WriteMemoryByte, Memory

LEMMA WriteMemoryWordType ==
  ASSUME NEW m \in Memory, NEW a \in Int, NEW v \in Int
  PROVE  WriteMemoryWord(m, a, v) \in Memory
<1>1. v \div ByteSize \in Int
  BY Sizes
<1>2. (v \div ByteSize) \div ByteSize \in Int
  BY <1>1, Sizes
<1>3. \A w \in Int : w % ByteSize \in Byte
  BY Sizes DEF Byte
<1>4. QED
  BY <1>1, <1>2, <1>3 DEF WriteMemoryWord, Memory

-----------------------------------------------------------------------------
(***************************************************************************)
(* Words in memory, and addresses.                                         *)
(***************************************************************************)
LEMMA Division ==
  ASSUME NEW v \in Nat
  PROVE  /\ v \div ByteSize \in Nat
         /\ v % ByteSize \in Byte
         /\ v = (v \div ByteSize) * ByteSize + (v % ByteSize)
  BY Sizes DEF Byte

LEMMA QuotientBound ==
  ASSUME NEW v \in Nat, NEW bound \in Nat, v < bound * ByteSize
  PROVE  v \div ByteSize < bound
<1> DEFINE q == v \div ByteSize
           r == v % ByteSize
           B == ByteSize
<1>1. q \in Nat /\ r \in Nat /\ v = q * B + r /\ B \in Nat /\ B > 1
  BY Division, Sizes DEF Byte
<1> HIDE DEF q, r, B
<1>2. SUFFICES ASSUME q >= bound
               PROVE  FALSE
  BY <1>1 DEF q
<1>3. PICK d \in Nat : q = bound + d
  BY <1>1, <1>2
<1>4. q * B = bound * B + d * B
  BY <1>1, <1>3
<1>5. d * B \in Nat /\ bound * B \in Nat
  BY <1>1
<1>6. v >= bound * B
  BY <1>1, <1>4, <1>5
<1>7. QED
  BY <1>6, <1>5, <1>1 DEF B

\* The three bytes of a word put together again are the word.
LEMMA BytesOfWord ==
  ASSUME NEW v \in Word
  PROVE  ((((v \div ByteSize) \div ByteSize) % ByteSize) * ByteSize
            + ((v \div ByteSize) % ByteSize)) * ByteSize + (v % ByteSize) = v
<1> DEFINE B == ByteSize
           q == v \div B
           s == q \div B
<1>1. B \in Nat /\ B > 1 /\ v \in Nat /\ v < (B * B) * B
  BY Sizes DEF Word, WordSize
<1>2. q \in Nat /\ v = q * B + (v % B)
  BY <1>1, Division
<1>3. q < B * B
  BY <1>1, QuotientBound
<1> HIDE DEF q
<1>4. s \in Nat /\ q = s * B + (q % B)
  BY <1>2, Division
<1>5. s < B
  BY <1>1, <1>2, <1>3, QuotientBound
<1> HIDE DEF s
<1>6. s % B = s
  BY <1>1, <1>4, <1>5
<1>7. QED
  BY <1>2, <1>4, <1>6 DEF q, s

\* The remainder is the only one.
LEMMA RemainderUnique ==
  ASSUME NEW n \in Nat, n > 0, NEW q \in Int, NEW r \in Int, 0 <= r, r < n
  PROVE  (q * n + r) % n = r
<1> DEFINE x == q * n + r
           q2 == x \div n
           r2 == x % n
           d == q - q2
<1>1. x \in Int
  OBVIOUS
<1> HIDE DEF x
<1>2. q2 \in Int /\ r2 \in Int /\ 0 <= r2 /\ r2 < n /\ x = q2 * n + r2
  BY <1>1
<1> HIDE DEF q2, r2
<1>3. d \in Int /\ d * n = r2 - r
  <2>1. d \in Int /\ d * n = q * n - q2 * n
    BY <1>2
  <2>2. q * n \in Int /\ q2 * n \in Int
    BY <1>2
  <2>3. QED
    BY <1>2, <2>1, <2>2 DEF x
<1> HIDE DEF d
<1>4. ~(d >= 1)
  <2>1. d >= 1 => d * n >= n
    BY <1>3
  <2>2. QED
    BY <1>2, <1>3, <2>1
<1>5. ~(d <= -1)
  <2>1. d <= -1 => d * n <= -n
    BY <1>3
  <2>2. QED
    BY <1>2, <1>3, <2>1
<1>6. d = 0
  BY <1>3, <1>4, <1>5
<1>7. r2 = r
  BY <1>2, <1>3, <1>6
<1>8. QED
  BY <1>7 DEF r2, x

\* The cells of an access are different: memory is longer than any operand.
LEMMA CellsDiffer ==
  ASSUME NEW a \in Int, NEW j \in 0 .. 5, NEW k \in 0 .. 5, Cell(a, j) = Cell(a, k)
  PROVE  j = k
<1> DEFINE t == a % AddressSize
           q == a \div AddressSize
<1>1. AddressSize \in Nat /\ AddressSize > 5
  BY Sizes
<1>2. t \in Nat /\ t < AddressSize /\ q \in Int /\ a = q * AddressSize + t
  BY <1>1
<1> HIDE DEF t, q
<1>3. \A n \in 0 .. 5 :
        (a + n) % AddressSize = IF t + n < AddressSize THEN t + n ELSE t + n - AddressSize
  <2>1. TAKE n \in 0 .. 5
  <2>2. CASE t + n < AddressSize
    <3>1. a + n = q * AddressSize + (t + n)
      BY <1>1, <1>2
    <3> DEFINE r == t + n
    <3>2. r \in Int /\ 0 <= r /\ r < AddressSize /\ q \in Int
      BY <1>2, <2>2
    <3> HIDE DEF r
    <3>3. (q * AddressSize + r) % AddressSize = r
      BY <1>1, <3>2, RemainderUnique
    <3>4. QED
      BY <2>2, <3>1, <3>3 DEF r
  <2>3. CASE ~(t + n < AddressSize)
    <3>1. a + n = (q + 1) * AddressSize + (t + n - AddressSize)
      BY <1>1, <1>2
    <3> DEFINE r == t + n - AddressSize
               p == q + 1
    <3>2. r \in Int /\ 0 <= r /\ r < AddressSize /\ p \in Int
      BY <1>1, <1>2, <2>3
    <3> HIDE DEF r, p
    <3>3. (p * AddressSize + r) % AddressSize = r
      BY <1>1, <3>2, RemainderUnique
    <3>4. QED
      BY <2>3, <3>1, <3>3 DEF r, p
  <2>4. QED
    BY <2>2, <2>3
<1>4. QED
  BY <1>1, <1>2, <1>3 DEF Cell, TrimAddress

\* Adding the length of an instruction tells addresses apart, also across the
\* end of memory.
LEMMA AddressShift ==
  ASSUME NEW a \in Address, NEW b \in Address, NEW k \in 0 .. 5
  PROVE  TrimAddress(a + k) = TrimAddress(b + k) <=> a = b
<1>1. /\ AddressSize \in Nat /\ AddressSize > 5 /\ k \in Nat /\ k <= 5
      /\ a \in Nat /\ a < AddressSize /\ b \in Nat /\ b < AddressSize
  BY Sizes DEF Address
<1>2. \A c \in Address :
        TrimAddress(c + k) = IF c + k < AddressSize THEN c + k ELSE c + k - AddressSize
  BY <1>1 DEF TrimAddress, Address
<1>3. QED
  BY <1>1, <1>2

\* A remainder may be taken before or after a sum.
LEMMA RemainderOfSum ==
  ASSUME NEW n \in Nat, n > 0, NEW a \in Int, NEW b \in Int
  PROVE  ((a % n) + b) % n = (a + b) % n
<1> DEFINE u == a \div n
           v == a % n
           q == (a + b) \div n
           r == (a + b) % n
<1>1. u \in Int /\ v \in Int /\ a = u * n + v
  OBVIOUS
<1>2. a + b \in Int
  OBVIOUS
<1>3. q \in Int /\ r \in Int /\ 0 <= r /\ r < n /\ a + b = q * n + r
  BY <1>2
<1> HIDE DEF u, v, q, r
<1>4. v + b = (q - u) * n + r
  <2>1. (q - u) * n = q * n - u * n /\ q * n \in Int /\ u * n \in Int
    BY <1>1, <1>3
  <2>2. QED
    BY <1>1, <1>3, <2>1
<1> DEFINE p == q - u
<1>5. p \in Int
  BY <1>1, <1>3
<1> HIDE DEF p
<1>6. (p * n + r) % n = r
  BY <1>3, <1>5, RemainderUnique
<1>7. QED
  BY <1>4, <1>6 DEF p, v, r

LEMMA TrimmedSum ==
  ASSUME NEW a \in Int, NEW b \in Int
  PROVE  /\ TrimWord(TrimWord(a) + b) = TrimWord(a + b)
         /\ TrimAddress(TrimAddress(a) + b) = TrimAddress(a + b)
<1>1. /\ WordSize \in Nat /\ WordSize > 0 /\ AddressSize \in Nat /\ AddressSize > 0
  BY Sizes
<1>2. ((a % WordSize) + b) % WordSize = (a + b) % WordSize
  BY <1>1, RemainderOfSum
<1>3. ((a % AddressSize) + b) % AddressSize = (a + b) % AddressSize
  BY <1>1, RemainderOfSum
<1>4. QED
  BY <1>2, <1>3 DEF TrimWord, TrimAddress

\* Memory repeats a whole number of times in the values of a word, as 2^20 does
\* in 2^24.
MemoryDividesWords == \E k \in Nat : WordSize = k * AddressSize

\* So trimming to a word on the way to an address changes nothing.
LEMMA AddressOfWord ==
  ASSUME MemoryDividesWords, NEW a \in Int
  PROVE  TrimAddress(TrimWord(a)) = TrimAddress(a)
<1> DEFINE q == a \div WordSize
           w == a % WordSize
           c == w \div AddressSize
           r == w % AddressSize
<1>1. PICK k \in Nat : WordSize = k * AddressSize
  BY DEF MemoryDividesWords
<1>2. q \in Int /\ w \in Int /\ a = q * WordSize + w
  BY Sizes
<1> HIDE DEF q, w
<1>3. c \in Int /\ r \in Int /\ 0 <= r /\ r < AddressSize /\ w = c * AddressSize + r
  BY <1>2, Sizes
<1> HIDE DEF c, r
<1> DEFINE p == q * k + c
<1>4. a = p * AddressSize + r
  <2>1. AddressSize \in Int /\ q * k \in Int
    BY <1>2, Sizes
  <2>2. q * (k * AddressSize) = (q * k) * AddressSize
    BY <1>2, Sizes
  <2>3. (q * k + c) * AddressSize = (q * k) * AddressSize + c * AddressSize
    BY <1>3, <2>1
  <2>4. (q * k) * AddressSize \in Int /\ c * AddressSize \in Int
    BY <1>3, <2>1
  <2>5. QED
    BY <1>1, <1>2, <1>3, <2>2, <2>3, <2>4
<1>5. p \in Int
  BY <1>2, <1>3
<1> HIDE DEF p
<1>6. a % AddressSize = r
  BY <1>3, <1>4, <1>5, Sizes, RemainderUnique
<1>7. QED
  BY <1>6 DEF TrimWord, TrimAddress, w, r

\* The cells of an access, one by one.
LEMMA NextCell ==
  ASSUME NEW a \in Int, NEW k \in Int
  PROVE  TrimAddress(Cell(a, k) + 1) = Cell(a, k + 1)
<1>1. a + k \in Int /\ (a + k) + 1 = a + (k + 1)
  OBVIOUS
<1>2. QED
  BY <1>1, TrimmedSum DEF Cell

\* The quotient is the only one, too.
LEMMA QuotientUnique ==
  ASSUME NEW n \in Nat, n > 0, NEW q \in Int, NEW r \in Int, 0 <= r, r < n
  PROVE  (q * n + r) \div n = q
<1> DEFINE x == q * n + r
           q2 == x \div n
           d == q2 - q
<1>1. x \in Int /\ q * n \in Int
  OBVIOUS
<1>2. x % n = r
  BY RemainderUnique
<1> HIDE DEF x
<1>3. q2 \in Int /\ x = q2 * n + (x % n)
  BY <1>1
<1> HIDE DEF q2
<1>4. q2 * n = q * n
  BY <1>1, <1>2, <1>3 DEF x
<1>5. d \in Int /\ d * n = q2 * n - q * n
  BY <1>3
<1> HIDE DEF d
<1>6. d * n = 0
  BY <1>1, <1>3, <1>4, <1>5
<1>7. d >= 1 => d * n >= n
  BY <1>5
<1>8. d <= -1 => d * n <= -n
  BY <1>5
<1>9. d = 0
  BY <1>5, <1>6, <1>7, <1>8
<1>10. QED
  BY <1>3, <1>9 DEF d, q2, x

LEMMA QuotientOfQuotient ==
  ASSUME NEW a \in Nat, NEW m \in Nat \ {0}, NEW n \in Nat \ {0}
  PROVE  (a \div m) \div n = a \div (m * n)
<1> DEFINE q == a \div m
           r == a % m
           u == q \div n
           s == q % n
<1>1. q \in Nat /\ r \in 0 .. m - 1 /\ a = q * m + r
  BY DivisionParts
<1>2. u \in Nat /\ s \in 0 .. n - 1 /\ q = u * n + s
  BY <1>1, DivisionParts
<1> HIDE DEF q, r, u, s
<1> DEFINE t == s * m + r
           p == m * n
<1>3. p \in Nat /\ p > 0
  <2>1. p \in Nat /\ p >= m
    OBVIOUS
  <2>2. QED
    BY <2>1
<1>4. s * m \in Nat /\ s * m + m <= p
  <2>1. PICK e \in Nat : n = s + 1 + e
    <3>1. n - s - 1 \in Nat /\ n = s + 1 + (n - s - 1)
      BY <1>2
    <3>2. QED
      BY <3>1
  <2>2. p = s * m + m + e * m /\ s * m \in Nat /\ e * m \in Nat
    BY <1>2, <2>1
  <2>3. QED
    BY <2>2
<1>5. t \in Nat /\ t < p
  BY <1>1, <1>4
<1>6. a = u * p + t
  <2>1. (u * n) * m = u * p
    BY <1>2
  <2>2. q * m = (u * n) * m + s * m
    BY <1>2
  <2>3. u * p \in Int /\ s * m \in Int
    BY <1>2, <1>3
  <2>4. QED
    BY <1>1, <2>1, <2>2, <2>3
<1> HIDE DEF t, p
<1>7. (u * p + t) \div p = u
  BY <1>2, <1>3, <1>5, QuotientUnique
<1>8. QED
  BY <1>6, <1>7 DEF p, u, q

\* A byte replaced is the last of what is above it.
LEMMA ByteReplacedAbove ==
  ASSUME NEW word \in Word, NEW weight \in Nat \ {0}, NEW byte \in Byte
  PROVE  (word - ((word \div weight) % ByteSize) * weight + byte * weight) \div weight
           = ((word \div weight) \div ByteSize) * ByteSize + byte
<1> DEFINE B == ByteSize
           q == word \div weight
           r == word % weight
           d == q % B
           u == q \div B
<1>1. B \in Nat \ {0} /\ word \in Nat /\ byte \in Nat
  BY Sizes DEF Word, Byte
<1>2. q \in Nat /\ r \in 0 .. weight - 1 /\ word = q * weight + r
  BY <1>1, DivisionParts
<1>3. u \in Nat /\ d \in 0 .. B - 1 /\ q = u * B + d
  BY <1>1, <1>2, DivisionParts
<1> HIDE DEF q, r, d, u, B
<1> DEFINE v == u * B + byte
<1>4. word - d * weight + byte * weight = v * weight + r
  <2>1. q * weight = (u * B) * weight + d * weight
    BY <1>1, <1>3
  <2>2. (u * B + byte) * weight = (u * B) * weight + byte * weight
    BY <1>1, <1>3
  <2>3. (u * B) * weight \in Int /\ d * weight \in Int /\ byte * weight \in Int
    BY <1>1, <1>3
  <2>4. QED
    BY <1>1, <1>2, <2>1, <2>2, <2>3
<1>5. v \in Int
  BY <1>1, <1>3
<1> HIDE DEF v
<1>6. (v * weight + r) \div weight = v
  BY <1>2, <1>5, QuotientUnique
<1>7. QED
  BY <1>4, <1>6 DEF v, u, d, q, B
=============================================================================
